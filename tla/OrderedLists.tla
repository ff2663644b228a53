---------------------------- MODULE OrderedLists ----------------------------
(***************************************************************************)
(* The ordered lists of the plan, and the transactions that change them:   *)
(* the CILT masters of a site with the sequences of each                   *)
(* (cilt-master.persistence.ts, cilt-sequence.persistence.ts), or the OPLs *)
(* of a site with the details of each (opl-master.persistence.ts,          *)
(* opl-detail.persistence.ts).                                             *)
(*                                                                         *)
(* A transaction reads with locks and writes at its end.  A locking read   *)
(* of a list, without an index on the order, goes through all rows of the  *)
(* list and locks them and the gap where one could be inserted; what was   *)
(* locked is freed when it ends.  The database may end it at any time:     *)
(* the victim of a deadlock, a wait that is too long, a lost connection.   *)
(***************************************************************************)
EXTENDS Integers, FiniteSets

CONSTANTS
    Ids,        \* ids of rows
    Sites,
    Requests,   \* handlers that may run at the same time
    None,
    Orders,     \* the orders that a column (a tinyint) holds
    NewOrders,  \* the orders that bodies ask for
    FirstRows,  \* the rows there are at first: of either kind
    MaxCalls    \* bound on the requests

Kinds == {"cilt", "opl"}
Lists == Sites \cup Ids
RowType == [list : Lists, order : Orders, live : BOOLEAN]

\* A number that has a fraction finds no row and is stored as the next whole one.
OrderType == [whole : BOOLEAN, order : Int]

ASSUME ListsAssumption ==
    /\ Sites \cap Ids = {} /\ None \notin Lists
    /\ Orders \subseteq Int /\ NewOrders \subseteq OrderType
    /\ MaxCalls \in Nat

ASSUME FirstRowsAssumption ==
    /\ DOMAIN FirstRows \subseteq Ids
    /\ FirstRows \in [DOMAIN FirstRows -> RowType]
    /\ \A i \in DOMAIN FirstRows : FirstRows[i].list \in Sites \cup DOMAIN FirstRows
    /\ \A i, j \in DOMAIN FirstRows :
         FirstRows[i].list = FirstRows[j].list /\ FirstRows[i].order = FirstRows[j].order => i = j

VARIABLES
    kind,   \* what the lists are of
    rows,   \* the tables: id -> row
    given,  \* history: the places that a body has given, whoever was there
    own,    \* the rows that each transaction has locked for itself
    share,  \* the rows that it has locked against changes
    gap,    \* the lists that it has locked against insertions
    req,    \* the requests
    calls   \* how many there have been

vars == <<kind, rows, given, own, share, gap, req, calls>>
tables == <<kind, rows, given>>
locks == <<own, share, gap>>

-----------------------------------------------------------------------------
(* The lists.                                                              *)

Exists(i) == i \in DOMAIN rows
IsLive(i) == Exists(i) /\ rows[i].live
RowsOf(l) == {i \in DOMAIN rows : rows[i].list = l}
LiveOf(l) == {i \in RowsOf(l) : rows[i].live}
IsMaster(i) == rows[i].list \in Sites

\* What is written: the places of the rows that are not deleted.
Place(l, o) == [list |-> l, order |-> o]
PlaceOf(i) == Place(rows[i].list, rows[i].order)
Live == {i \in DOMAIN rows : rows[i].live}
Places == [i \in Live |-> PlaceOf(i)]

\* The rows that come first by descending order, and one more than their order: 1 in an empty list.
LastRows(l) == {i \in LiveOf(l) : \A j \in LiveOf(l) : rows[j].order <= rows[i].order}
NextOrders(l) == IF LiveOf(l) = {} THEN {1} ELSE {rows[i].order + 1 : i \in LastRows(l)}

-----------------------------------------------------------------------------
(* Requests and locks.                                                     *)

\* Where a request is, what it is about, and what it has read: the order it will
\* write, the row that has that order, the copies it will insert.
Idle == [at |-> "idle", op |-> "none", id |-> None, list |-> None, new |-> None, order |-> 0, found |-> None,
         copies |-> [i \in {} |-> 0]]

At(r, op, at) == req[r].op = op /\ req[r].at = at
Running(r) == req[r].at # "idle"
Go(r, q) == req' = [req EXCEPT ![r] = q]

Others(r) == Requests \ {r}
FreeToOwn(r, ids) == \A s \in Others(r) : (own[s] \cup share[s]) \cap ids = {}
FreeToShare(r, ids) == \A s \in Others(r) : own[s] \cap ids = {}
FreeToInsert(r, l) == \A s \in Others(r) : l \notin gap[s]

Own(r, ids) == own' = [own EXCEPT ![r] = @ \cup ids]
Share(r, ids) == share' = [share EXCEPT ![r] = @ \cup ids]
Guard(r, l) == gap' = [gap EXCEPT ![r] = @ \cup {l}]

\* The transaction ends, and frees what it has locked.
Done(r) ==
    /\ Go(r, Idle)
    /\ own' = [own EXCEPT ![r] = {}]
    /\ share' = [share EXCEPT ![r] = {}]
    /\ gap' = [gap EXCEPT ![r] = {}]
    /\ UNCHANGED calls
Refuse(r) == Done(r) /\ UNCHANGED tables

Call(r, q) ==
    /\ ~Running(r) /\ calls < MaxCalls
    /\ calls' = calls + 1
    /\ Go(r, q)
    /\ UNCHANGED <<tables, locks>>

Init ==
    /\ kind \in Kinds
    /\ rows = FirstRows
    /\ given = {}
    /\ own = [r \in Requests |-> {}] /\ share = [r \in Requests |-> {}] /\ gap = [r \in Requests |-> {}]
    /\ req = [r \in Requests |-> Idle]
    /\ calls = 0

-----------------------------------------------------------------------------
(* create: a row at the end of the list of a site or of a master.          *)

CallCreate(r, l) ==
    Call(r, [Idle EXCEPT !.op = "create", !.list = l, !.at = IF l \in Sites THEN "last" ELSE "master"])

\* The master of a sequence is read, and that of a detail is locked against changes.
ReadMaster(r) ==
    /\ At(r, "create", "master") /\ kind = "cilt"
    /\ IF IsLive(req[r].list)
       THEN Go(r, [req[r] EXCEPT !.at = "last"]) /\ UNCHANGED <<tables, locks, calls>>
       ELSE Refuse(r)

\* Bug: the OPL of a detail is read without a lock.
ShareMaster_Unlocked(r) ==
    /\ At(r, "create", "master") /\ kind = "opl"
    /\ IF IsLive(req[r].list)
       THEN Go(r, [req[r] EXCEPT !.at = "last"]) /\ UNCHANGED <<tables, locks, calls>>
       ELSE Refuse(r)

ShareMaster(r) ==
    /\ At(r, "create", "master") /\ kind = "opl"
    /\ FreeToShare(r, {req[r].list})
    /\ IF IsLive(req[r].list)
       THEN /\ Go(r, [req[r] EXCEPT !.at = "last"])
            /\ Share(r, {req[r].list})
            /\ UNCHANGED <<tables, own, gap, calls>>
       ELSE Refuse(r)

\* Bug: the last row is read without a lock.
LockLast_Unlocked(r) ==
    /\ req[r].op \in {"create", "clone"} /\ req[r].at = "last"
    /\ \E o \in NextOrders(req[r].list) : Go(r, [req[r] EXCEPT !.at = "insert", !.order = o])
    /\ UNCHANGED <<tables, locks, calls>>

LockLast(r) ==
    /\ req[r].op \in {"create", "clone"} /\ req[r].at = "last"
    /\ LET l == req[r].list
       IN  /\ FreeToOwn(r, RowsOf(l))
           /\ Own(r, RowsOf(l)) /\ Guard(r, l)
           /\ \E o \in NextOrders(l) : Go(r, [req[r] EXCEPT !.at = "insert", !.order = o])
    /\ UNCHANGED <<tables, share, calls>>

Row(l, o) == [list |-> l, order |-> o, live |-> TRUE]

Insert(r) ==
    /\ At(r, "create", "insert")
    /\ LET q == req[r]
       IN  /\ FreeToInsert(r, q.list)
           /\ q.order \in Orders
           /\ \E i \in Ids \ DOMAIN rows :
                rows' = [j \in DOMAIN rows \cup {i} |-> IF j = i THEN Row(q.list, q.order) ELSE rows[j]]
    /\ Done(r)
    /\ UNCHANGED <<kind, given>>

-----------------------------------------------------------------------------
(* update, and the lock on its row with which a change of order begins.    *)

\* Of the updates only that of a CILT master takes an order.
CallUpdate(r, i, new) ==
    /\ new # None => kind = "cilt" /\ IsMaster(i)
    /\ Call(r, [Idle EXCEPT !.op = "update", !.at = "lock", !.id = i, !.list = rows[i].list, !.new = new])

CallMove(r, i, new) ==
    Call(r, [Idle EXCEPT !.op = "move", !.at = "lock", !.id = i, !.list = rows[i].list, !.new = new])

LockRow(r) ==
    /\ req[r].op \in {"update", "move"} /\ req[r].at = "lock"
    /\ LET q == req[r]
           already == q.op = "move" /\ q.new.whole /\ q.new.order = rows[q.id].order
       IN  /\ FreeToOwn(r, {q.id})
           /\ IF ~IsLive(q.id) \/ already THEN Refuse(r)
              ELSE /\ Own(r, {q.id})
                   /\ Go(r, [q EXCEPT !.at = IF q.op = "update" THEN "save" ELSE "target"])
                   /\ UNCHANGED <<tables, share, gap, calls>>

SaveUpdate(r) ==
    /\ At(r, "update", "save")
    /\ LET q == req[r]
       IN  IF q.new = None THEN UNCHANGED <<rows, given>>
           ELSE /\ q.new.order \in Orders
                /\ rows' = [rows EXCEPT ![q.id].order = q.new.order]
                /\ given' = given \cup {Place(q.list, q.new.order)}
    /\ Done(r)
    /\ UNCHANGED kind

-----------------------------------------------------------------------------
(* updateOrder: the row of the list that has the new order, if there is    *)
(* one, takes the old one.                                                 *)

FindTarget(r) ==
    /\ At(r, "move", "target")
    /\ LET q == req[r]
           target == {i \in LiveOf(q.list) : q.new.whole /\ rows[i].order = q.new.order}
       IN  /\ FreeToOwn(r, RowsOf(q.list))
           /\ Own(r, RowsOf(q.list)) /\ Guard(r, q.list)
           /\ \E f \in IF target = {} THEN {None} ELSE target :
                Go(r, [q EXCEPT !.at = "save", !.found = f, !.order = rows[q.id].order])
    /\ UNCHANGED <<tables, share, calls>>

SaveMove(r) ==
    /\ At(r, "move", "save")
    /\ LET q == req[r]
       IN  /\ q.new.order \in Orders
           /\ rows' = [i \in DOMAIN rows |->
                          IF i = q.id THEN [rows[i] EXCEPT !.order = q.new.order]
                          ELSE IF i = q.found THEN [rows[i] EXCEPT !.order = q.order]
                          ELSE rows[i]]
           /\ given' = IF q.new.whole THEN given ELSE given \cup {Place(q.list, q.new.order)}
    /\ Done(r)
    /\ UNCHANGED kind

-----------------------------------------------------------------------------
(* clone: a CILT master is copied to the end of its site, with its         *)
(* sequences as they are.                                                  *)

CallClone(r, i) ==
    /\ kind = "cilt" /\ IsMaster(i)
    /\ Call(r, [Idle EXCEPT !.op = "clone", !.at = "original", !.id = i, !.list = rows[i].list])

SequencesOf(i) == [c \in LiveOf(i) |-> rows[c].order]

\* Bug: the original is read without a lock.
ReadOriginal_Unlocked(r) ==
    /\ At(r, "clone", "original")
    /\ LET q == req[r]
       IN  IF ~IsLive(q.id) THEN Refuse(r)
           ELSE /\ Go(r, [q EXCEPT !.at = "last", !.copies = SequencesOf(q.id)])
                /\ UNCHANGED <<tables, locks, calls>>

ReadOriginal(r) ==
    /\ At(r, "clone", "original")
    /\ LET q == req[r]
       IN  /\ FreeToShare(r, {q.id} \cup RowsOf(q.id))
           /\ IF ~IsLive(q.id) THEN Refuse(r)
              ELSE /\ Share(r, {q.id} \cup RowsOf(q.id)) /\ Guard(r, q.id)
                   /\ Go(r, [q EXCEPT !.at = "last", !.copies = SequencesOf(q.id)])
                   /\ UNCHANGED <<tables, own, calls>>

InsertCopies(r) ==
    /\ At(r, "clone", "insert")
    /\ LET q == req[r]
       IN  /\ FreeToInsert(r, q.list)
           /\ q.order \in Orders
           /\ \E c \in Ids \ DOMAIN rows :
              \E new \in SUBSET (Ids \ (DOMAIN rows \cup {c})) :
              \E original \in [new -> DOMAIN q.copies] :
                 /\ \A j, k \in new : original[j] = original[k] => j = k
                 /\ \A k \in DOMAIN q.copies : \E j \in new : original[j] = k
                 /\ rows' = [j \in DOMAIN rows \cup {c} \cup new |->
                                IF j = c THEN Row(q.list, q.order)
                                ELSE IF j \in new THEN Row(c, q.copies[original[j]])
                                ELSE rows[j]]
                 /\ given' = given \cup {Place(c, p.order) : p \in {g \in given : g.list = q.id}}
    /\ Done(r)
    /\ UNCHANGED kind

-----------------------------------------------------------------------------
(* softDelete: the row is looked for, and deleted by one statement.        *)

CallDelete(r, i) ==
    Call(r, [Idle EXCEPT !.op = "delete", !.at = "check", !.id = i, !.list = rows[i].list])

CheckDelete(r) ==
    /\ At(r, "delete", "check")
    /\ IF IsLive(req[r].id)
       THEN Go(r, [req[r] EXCEPT !.at = "delete"]) /\ UNCHANGED <<tables, locks, calls>>
       ELSE Refuse(r)

Delete(r) ==
    /\ At(r, "delete", "delete")
    /\ FreeToOwn(r, {req[r].id})
    /\ rows' = [rows EXCEPT ![req[r].id].live = FALSE]
    /\ Done(r)
    /\ UNCHANGED <<kind, given>>

\* The transaction is rolled back.
Abort(r) == Running(r) /\ Refuse(r)

-----------------------------------------------------------------------------
Calls(r) ==
    \/ \E l \in Sites \cup {i \in DOMAIN rows : IsMaster(i)} : CallCreate(r, l)
    \/ \E i \in DOMAIN rows :
          \/ \E new \in NewOrders \cup {None} : CallUpdate(r, i, new)
          \/ \E new \in NewOrders : CallMove(r, i, new)
          \/ CallClone(r, i)
          \/ CallDelete(r, i)

Step(r) ==
    \/ ReadMaster(r) \/ ShareMaster(r) \/ LockLast(r) \/ Insert(r)
    \/ LockRow(r) \/ SaveUpdate(r) \/ FindTarget(r) \/ SaveMove(r)
    \/ ReadOriginal(r) \/ InsertCopies(r)
    \/ CheckDelete(r) \/ Delete(r)
    \/ Abort(r)

Next == \E r \in Requests : Calls(r) \/ Step(r)

Spec == Init /\ [][Next]_vars

-----------------------------------------------------------------------------
TypeOK ==
    /\ kind \in Kinds
    /\ DOMAIN rows \subseteq Ids
    /\ rows \in [DOMAIN rows -> RowType]
    /\ \A i \in DOMAIN rows : rows[i].list \in Sites \cup DOMAIN rows
    /\ own \in [Requests -> SUBSET Ids] /\ share \in [Requests -> SUBSET Ids]
    /\ gap \in [Requests -> SUBSET Lists]
    /\ calls \in 0 .. MaxCalls

\* No two rows of a list that are not deleted have the same order, however
\* many creations, changes of order, clones and deletions run beside each other; but at
\* a place that the body of a CILT master's update, or a fraction, has given.
OrdersUnique == \A i, j \in Live : i # j /\ PlaceOf(i) = PlaceOf(j) => PlaceOf(i) \in given

\* A detail is inserted under an OPL that is not deleted: it is
\* locked from its check on.  (A sequence may come below a master that was deleted meanwhile.)
DetailsHaveMasters ==
    [][kind = "opl" =>
        \A i \in DOMAIN rows' \ DOMAIN rows : rows'[i].list \in Sites \/ IsLive(rows'[i].list)]_vars

\* What a clone is about to insert is what its original has at that
\* moment, although it has been read two statements before.
CopiesAreCurrent ==
    \A r \in Requests :
        req[r].op = "clone" /\ req[r].at \in {"last", "insert"} =>
            IsLive(req[r].id) /\ req[r].copies = SequencesOf(req[r].id)

\* Each transaction changes the lists in one step, as ListOrder has it.
Abs == INSTANCE ListOrder WITH place <- Places
ImplementsList == Abs!Spec
=============================================================================
