-------------------------- MODULE CiltPlanningProofs --------------------------
(***************************************************************************)
(* Proofs about the plan, for every set of ids, sites and requests.  The   *)
(* transactions on the lists: their locks keep them apart, so that each is *)
(* one step of the abstract list, and what that promises is kept.  The     *)
(* schedules, which no lock protects: what a request has read is still so  *)
(* when it writes, if nobody has written meanwhile.                        *)
(***************************************************************************)
EXTENDS CiltSchedules, FiniteSetTheorems, NaturalsInduction, WellFoundedInduction, TLAPS

-----------------------------------------------------------------------------
(* What the abstract list promises.                                         *)

AbsDescribed == Places \in [Abs!Elements -> [list : Lists \cup Ids, order : Orders]]

AbsInv == AbsDescribed /\ Abs!PlacesUnique

(* One more than the last order is nobody's.                                *)
LEMMA NextIsFree ==
    ASSUME Orders \subseteq Int, AbsDescribed, NEW l, NEW o \in Orders, Abs!IsNext(l, o)
    PROVE  \A j \in Abs!Elements : Places[j] # Abs!Place(l, o)
  <1> SUFFICES ASSUME NEW j \in Abs!Elements, Places[j] = Abs!Place(l, o)
               PROVE  FALSE
    OBVIOUS
  <1>1. j \in Abs!Among(l) /\ Places[j].order = o
    BY DEF Abs!Among, Abs!Place
  <1>2. Places[j].order < o
    BY <1>1 DEF Abs!IsNext
  <1> QED
    BY <1>1, <1>2

(* An element added after the last one.                                     *)
LEMMA AddKeeps ==
    ASSUME Orders \subseteq Int, AbsInv, NEW i, NEW l \in Lists, NEW o \in Orders, Abs!Add(i, l, o)
    PROVE  AbsInv'
  <1>1. \A j \in Abs!Elements : Places[j] # Abs!Place(l, o)
    BY NextIsFree DEF AbsInv, Abs!Add
  <1>2. Abs!Place(l, o) \in [list : Lists \cup Ids, order : Orders]
    BY DEF Abs!Place
  <1>3. /\ Abs!Elements' = Abs!Elements \cup {i} /\ i \notin Abs!Elements
        /\ Places'[i] = Abs!Place(l, o)
        /\ \A j \in Abs!Elements : Places'[j] = Places[j]
        /\ given' = given
    BY DEF Abs!Add, Abs!Elements
  <1>4. AbsDescribed'
    BY <1>2, <1>3 DEF AbsInv, AbsDescribed, Abs!Add, Abs!Elements
  <1>5. Abs!PlacesUnique'
    BY <1>1, <1>3 DEF AbsInv, Abs!PlacesUnique
  <1> QED
    BY <1>4, <1>5 DEF AbsInv

(* Two elements that exchange their orders.                                 *)
LEMMA ExchangeKeeps ==
    ASSUME AbsInv, NEW i \in Abs!Elements, NEW j \in Abs!Elements, Abs!Exchange(i, j)
    PROVE  AbsInv'
  <1> DEFINE other(k) == IF k = i THEN j ELSE IF k = j THEN i ELSE k
  <1>1. /\ Abs!Elements' = Abs!Elements /\ given' = given
        /\ \A k \in Abs!Elements : other(k) \in Abs!Elements /\ Places'[k] = Places[other(k)]
    BY DEF Abs!Exchange, Abs!Elements
  <1>2. \A k, m \in Abs!Elements : k # m => other(k) # other(m)
    OBVIOUS
  <1>3. AbsDescribed'
    BY <1>1 DEF AbsInv, AbsDescribed, Abs!Exchange, Abs!Elements
  <1>4. Abs!PlacesUnique'
    BY <1>1, <1>2 DEF AbsInv, Abs!PlacesUnique
  <1> QED
    BY <1>3, <1>4 DEF AbsInv

(* An element put at an order nobody has.                                   *)
LEMMA PutAtKeeps ==
    ASSUME AbsInv, NEW i \in Abs!Elements, NEW o \in Orders, Abs!PutAt(i, o)
    PROVE  AbsInv'
  <1>1. Places[i] \in [list : Lists \cup Ids, order : Orders]
    BY DEF AbsInv, AbsDescribed
  <1>2. /\ Abs!Elements' = Abs!Elements /\ given' = given
        /\ Places'[i] = Abs!Place(Places[i].list, o)
        /\ \A j \in Abs!Elements \ {i} : Places'[j] = Places[j]
    BY <1>1 DEF Abs!PutAt, Abs!Elements, Abs!Place
  <1>3. AbsDescribed'
    BY <1>1, <1>2 DEF AbsInv, AbsDescribed, Abs!PutAt, Abs!Elements, Abs!Place
  <1>4. \A j \in Abs!Elements : Places[j] # Abs!Place(Places[i].list, o)
    BY DEF Abs!PutAt, Abs!Among, Abs!Place
  <1>5. Abs!PlacesUnique'
    BY <1>2, <1>4 DEF AbsInv, Abs!PlacesUnique
  <1> QED
    BY <1>3, <1>5 DEF AbsInv

(* An element put where another may be: the place is a given one.           *)
LEMMA GiveKeeps ==
    ASSUME AbsInv, NEW i \in Abs!Elements, NEW o \in Orders, Abs!Give(i, o)
    PROVE  AbsInv'
  <1>1. Places[i] \in [list : Lists \cup Ids, order : Orders]
    BY DEF AbsInv, AbsDescribed
  <1>2. /\ Abs!Elements' = Abs!Elements
        /\ given \subseteq given' /\ Abs!Place(Places[i].list, o) \in given'
        /\ Places'[i] = Abs!Place(Places[i].list, o)
        /\ \A j \in Abs!Elements \ {i} : Places'[j] = Places[j]
    BY <1>1 DEF Abs!Give, Abs!Elements, Abs!Place
  <1>3. AbsDescribed'
    BY <1>1, <1>2 DEF AbsInv, AbsDescribed, Abs!Give, Abs!Elements, Abs!Place
  <1>4. Abs!PlacesUnique'
    BY <1>2 DEF AbsInv, Abs!PlacesUnique
  <1> QED
    BY <1>3, <1>4 DEF AbsInv

(* An element taken away.                                                   *)
LEMMA RemoveKeeps ==
    ASSUME AbsInv, NEW i \in Abs!Elements, Abs!Remove(i)
    PROVE  AbsInv'
  <1>1. Abs!Elements' \subseteq Abs!Elements /\ given' = given /\ \A j \in Abs!Elements' : Places'[j] = Places[j]
    BY DEF Abs!Remove, Abs!Elements
  <1> QED
    BY <1>1 DEF AbsInv, AbsDescribed, Abs!PlacesUnique, Abs!Remove, Abs!Elements

(* An element copied with its list: two of the copies share a place only    *)
(* where their originals did.                                               *)
LEMMA CopyKeeps ==
    ASSUME Orders \subseteq Int, AbsInv,
           NEW i \in Abs!Elements, NEW c, NEW o \in Orders, NEW original, Abs!Copy(i, c, o, original)
    PROVE  AbsInv'
  <1> DEFINE l == Places[i].list
             copies == DOMAIN original
  <1>1. /\ c \in Ids \ Abs!Elements /\ l # c /\ l \in Lists \cup Ids
        /\ copies \subseteq Ids \ (Abs!Elements \cup {c})
        /\ \A j \in Abs!Elements : Places[j].list # c
    BY DEF Abs!Copy, Abs!Among, AbsInv, AbsDescribed
  <1>2. /\ Abs!Elements' = Abs!Elements \cup {c} \cup copies
        /\ Places'[c] = Abs!Place(l, o)
        /\ \A j \in copies : Places'[j] = Abs!Place(c, Places[original[j]].order)
        /\ \A j \in Abs!Elements : Places'[j] = Places[j]
    BY <1>1 DEF Abs!Copy, Abs!Elements
  <1>3. \A j \in copies : original[j] \in Abs!Elements /\ Places[original[j]].list = i
    BY DEF Abs!Copy, Abs!Among
  <1>4. AbsDescribed'
    <2>1. \A j \in Abs!Elements : Places[j] \in [list : Lists \cup Ids, order : Orders]
      BY DEF AbsInv, AbsDescribed
    <2>3. Abs!Place(l, o) \in [list : Lists \cup Ids, order : Orders]
      BY <1>1 DEF Abs!Place
    <2>4. \A j \in copies : Places[original[j]].order \in Orders
      BY <1>3, <2>1
    <2>5. \A j \in copies : Abs!Place(c, Places[original[j]].order) \in [list : Lists \cup Ids, order : Orders]
      BY <1>1, <2>4 DEF Abs!Place
    <2>6. \A j \in Abs!Elements' : Places'[j] \in [list : Lists \cup Ids, order : Orders]
      BY <1>2, <2>1, <2>3, <2>5
    <2>2. Places' = [j \in Abs!Elements' |-> Places'[j]]
      BY <1>2 DEF Abs!Copy, Abs!Elements
    <2> QED
      BY <2>2, <2>6 DEF AbsDescribed
  <1>5. \A j \in Abs!Elements : Places[j] # Abs!Place(l, o)
    BY NextIsFree DEF AbsInv, Abs!Copy
  <1>8. /\ Places'[c].list = l
        /\ \A j \in copies : Places'[j].list = c /\ Places'[j].order = Places[original[j]].order
    <2>1. \A m, n : Abs!Place(m, n).list = m /\ Abs!Place(m, n).order = n
      BY DEF Abs!Place
    <2> QED
      BY <1>2, <2>1
  <1>6. \A j, k \in copies : j # k /\ Places'[j] = Places'[k] => Places'[j] \in given'
    <2> SUFFICES ASSUME NEW j \in copies, NEW k \in copies, j # k, Places'[j] = Places'[k]
                 PROVE  Places'[j] \in given'
      OBVIOUS
    <2> DEFINE p == Places[original[j]]
    <2>1. p.order = Places[original[k]].order
      BY <1>8
    <2>2. p = Places[original[k]]
      BY <1>3, <2>1 DEF AbsInv, AbsDescribed
    <2>3. original[j] # original[k]
      BY DEF Abs!Copy
    <2>4. p \in given /\ p.list = i
      BY <1>3, <2>2, <2>3 DEF AbsInv, Abs!PlacesUnique
    <2> QED
      BY <1>2, <2>4 DEF Abs!Copy
  <1>7. Abs!PlacesUnique'
    <2> SUFFICES ASSUME NEW j \in Abs!Elements', NEW k \in Abs!Elements', j # k, Places'[j] = Places'[k]
                 PROVE  Places'[j] \in given'
      BY DEF Abs!PlacesUnique
    <2>1. CASE j \in Abs!Elements /\ k \in Abs!Elements
      BY <1>2, <2>1 DEF AbsInv, Abs!PlacesUnique, Abs!Copy
    <2>2. CASE j \in copies /\ k \in copies
      BY <1>6, <2>2
    <2>3. CASE (j = c /\ k \in Abs!Elements) \/ (k = c /\ j \in Abs!Elements)
      BY <1>2, <1>5, <2>3
    <2>4. CASE (j = c /\ k \in copies) \/ (k = c /\ j \in copies)
      BY <1>1, <1>8, <2>4
    <2>5. CASE (j \in copies /\ k \in Abs!Elements) \/ (k \in copies /\ j \in Abs!Elements)
      BY <1>1, <1>2, <1>8, <2>5
    <2>6. (j \in Abs!Elements \/ j = c \/ j \in copies) /\ (k \in Abs!Elements \/ k = c \/ k \in copies)
      BY <1>2
    <2> QED
      BY <2>1, <2>2, <2>3, <2>4, <2>5, <2>6
  <1> QED
    BY <1>4, <1>7 DEF AbsInv

(* Any step of the abstract list.                                           *)
LEMMA AbsNextKeeps ==
    ASSUME Orders \subseteq Int, AbsInv, Abs!Next
    PROVE  AbsInv'
  <1>1. ASSUME NEW i \in Abs!New, Abs!Add(i, Places'[i].list, Places'[i].order)
        PROVE  AbsInv'
    BY <1>1, AddKeeps DEF Abs!Add
  <1>2. ASSUME NEW i \in Abs!Elements, NEW j \in Abs!Elements, Abs!Exchange(i, j)
        PROVE  AbsInv'
    BY <1>2, ExchangeKeeps
  <1>3. ASSUME NEW i \in Abs!Elements, Abs!Remove(i)
        PROVE  AbsInv'
    BY <1>3, RemoveKeeps
  <1>4. ASSUME NEW i \in Abs!Elements, NEW o \in Orders, Abs!PutAt(i, o) \/ Abs!Give(i, o)
        PROVE  AbsInv'
    BY <1>4, PutAtKeeps, GiveKeeps
  <1>5. ASSUME NEW i \in Abs!Elements, NEW c, NEW original, Abs!Copy(i, c, Places'[c].order, original)
        PROVE  AbsInv'
    <2>1. Places'[c].order \in Orders
      BY <1>5 DEF Abs!Copy
    <2> QED
      BY <1>5, <2>1, CopyKeeps
  <1> QED
    BY <1>1, <1>2, <1>3, <1>4, <1>5 DEF Abs!Next

-----------------------------------------------------------------------------
(* The transactions.                                                        *)
Creates(r) == req[r].op \in {"create", "clone"}
Changes(r) == req[r].op \in {"update", "move", "clone", "delete"}

Operations == {"none", "create", "update", "move", "clone", "delete"}
Stages == {"idle", "master", "last", "insert", "lock", "save", "target", "original", "check", "delete"}
CopiesType == UNION {[S -> Orders] : S \in SUBSET Ids}
ReqType ==
    [at : Stages, op : Operations, id : Ids \cup {None}, list : Lists \cup {None}, new : OrderType \cup {None},
     order : Int, found : Ids \cup {None}, copies : CopiesType]

RowsType ==
    /\ DOMAIN rows \subseteq Ids
    /\ rows \in [DOMAIN rows -> RowType]
    /\ \A i \in DOMAIN rows : rows[i].list \in Sites \cup DOMAIN rows

LocksType ==
    /\ own \in [Requests -> SUBSET Ids] /\ share \in [Requests -> SUBSET Ids]
    /\ gap \in [Requests -> SUBSET Lists]

Typed == kind \in Kinds /\ RowsType /\ LocksType /\ req \in [Requests -> ReqType]

(* A row is locked by one transaction for itself, or by some against changes. *)
Exclusive == \A r, s \in Requests : r # s => own[r] \cap (own[s] \cup share[s]) = {}

(* A list that a transaction has read whole, for itself.                    *)
Holds(r, l) == RowsOf(l) \subseteq own[r] /\ l \in gap[r]

(* What a transaction has locked and read so far is still so.               *)
Aims(r) ==
    /\ Creates(r) => req[r].list \in Sites \cup DOMAIN rows
    /\ Changes(r) => req[r].id \in DOMAIN rows /\ req[r].list = rows[req[r].id].list
    /\ req[r].op = "clone" => kind = "cilt"
    /\ req[r].op = "move" => req[r].new \in OrderType

LastIsHeld(r) ==
    Creates(r) /\ req[r].at = "insert" =>
        Holds(r, req[r].list) /\ req[r].order \in NextOrders(req[r].list)

RowIsHeld(r) ==
    req[r].op \in {"update", "move"} /\ req[r].at \in {"save", "target"} =>
        req[r].id \in own[r] /\ rows[req[r].id].live

TargetIsHeld(r) ==
    At(r, "move", "save") =>
        LET q == req[r] IN
        /\ Holds(r, q.list)
        /\ q.order = rows[q.id].order
        /\ q.found = None => ~q.new.whole \/ \A i \in LiveOf(q.list) : rows[i].order # q.new.order
        /\ q.found # None => q.new.whole /\ q.found \in LiveOf(q.list) /\ rows[q.found].order = q.new.order

OriginalIsHeld(r) ==
    req[r].op = "clone" /\ req[r].at \in {"last", "insert"} =>
        LET q == req[r] IN
        /\ {q.id} \cup RowsOf(q.id) \subseteq share[r] /\ q.id \in gap[r]
        /\ rows[q.id].live
        /\ q.copies = SequencesOf(q.id)

MasterIsHeld(r) ==
    kind = "opl" /\ req[r].op = "create" /\ req[r].at \in {"last", "insert"} =>
        req[r].list \in Sites \/ (req[r].list \in share[r] /\ rows[req[r].list].live)

Work(r) ==
    /\ Aims(r) /\ LastIsHeld(r) /\ RowIsHeld(r) /\ TargetIsHeld(r) /\ OriginalIsHeld(r) /\ MasterIsHeld(r)

IInv == Typed /\ Exclusive /\ \A r \in Requests : Work(r)

-----------------------------------------------------------------------------
(* What another transaction does to the tables leaves alone the rows and    *)
(* the lists that one has locked.                                           *)
Evolves(W, G) ==
    /\ DOMAIN rows \subseteq DOMAIN rows'
    /\ \A i \in DOMAIN rows : rows'[i].list = rows[i].list
    /\ \A i \in DOMAIN rows \ W : rows'[i] = rows[i]
    /\ \A i \in DOMAIN rows' \ DOMAIN rows : rows'[i].list \in G \cup (Ids \ DOMAIN rows)

(* A list outside the rows and lists that change is read as before.         *)
LEMMA ListFrame ==
    ASSUME ListsAssumption, Typed, NEW W, NEW G, Evolves(W, G),
           NEW l \in Sites \cup DOMAIN rows, l \notin G, RowsOf(l) \cap W = {}
    PROVE  /\ RowsOf(l)' = RowsOf(l) /\ LiveOf(l)' = LiveOf(l)
           /\ \A i \in RowsOf(l) : rows'[i] = rows[i]
           /\ NextOrders(l)' = NextOrders(l)
           /\ SequencesOf(l)' = SequencesOf(l)
  <1>1. l \notin Ids \ DOMAIN rows
    BY DEF ListsAssumption
  <1>2. RowsOf(l)' = RowsOf(l)
    BY <1>1 DEF RowsOf, Evolves
  <1>3. \A i \in RowsOf(l) : rows'[i] = rows[i]
    BY DEF Evolves, RowsOf
  <1>4. LiveOf(l)' = LiveOf(l)
    BY <1>2, <1>3 DEF LiveOf
  <1>5. LiveOf(l) \subseteq RowsOf(l)
    BY DEF LiveOf
  <1>6. LastRows(l)' = LastRows(l) /\ LastRows(l) \subseteq RowsOf(l)
    BY <1>3, <1>4, <1>5 DEF LastRows
  <1>7. NextOrders(l)' = NextOrders(l)
    BY <1>3, <1>4, <1>6 DEF NextOrders
  <1>8. SequencesOf(l)' = SequencesOf(l)
    BY <1>3, <1>4, <1>5 DEF SequencesOf
  <1> QED
    BY <1>2, <1>3, <1>4, <1>7, <1>8

(* What a transaction has locked and read stays so while others write       *)
(* outside it.                                                              *)
LEMMA WorkFrame ==
    ASSUME ListsAssumption, Typed, NEW t \in Requests, Work(t), NEW W, NEW G, Evolves(W, G),
           W \cap (own[t] \cup share[t]) = {}, G \cap gap[t] = {},
           kind' = kind, req'[t] = req[t],
           own'[t] = own[t], share'[t] = share[t], gap'[t] = gap[t]
    PROVE  Work(t)'
  <1> DEFINE q == req[t]
  <1>1. \A i \in own[t] \cup share[t] : i \in DOMAIN rows => rows'[i] = rows[i]
    BY DEF Evolves
  <1>2. Aims(t)'
    BY DEF Work, Aims, Creates, Changes, Evolves
  <1>3. LastIsHeld(t)'
    <2> SUFFICES ASSUME Creates(t), q.at = "insert"
                 PROVE  Holds(t, q.list)' /\ q.order \in NextOrders(q.list)'
      BY DEF LastIsHeld, Creates
    <2>1. q.list \in Sites \cup DOMAIN rows /\ Holds(t, q.list) /\ q.order \in NextOrders(q.list)
      BY DEF Work, Aims, LastIsHeld
    <2>2. q.list \notin G /\ RowsOf(q.list) \cap W = {}
      BY <2>1 DEF Holds
    <2>3. RowsOf(q.list)' = RowsOf(q.list) /\ NextOrders(q.list)' = NextOrders(q.list)
      BY <2>1, <2>2, ListFrame
    <2> QED
      BY <2>1, <2>3 DEF Holds
  <1>4. RowIsHeld(t)'
    BY <1>1 DEF Work, Aims, Changes, RowIsHeld, Evolves
  <1>5. TargetIsHeld(t)'
    <2> SUFFICES ASSUME At(t, "move", "save")
                 PROVE  /\ Holds(t, q.list)'
                        /\ q.order = rows'[q.id].order
                        /\ q.found = None => ~q.new.whole \/ \A i \in LiveOf(q.list)' : rows'[i].order # q.new.order
                        /\ q.found # None =>
                             q.new.whole /\ q.found \in LiveOf(q.list)' /\ rows'[q.found].order = q.new.order
      BY DEF TargetIsHeld, At
    <2>1. TargetIsHeld(t) /\ Holds(t, q.list) /\ q.order = rows[q.id].order
      BY DEF Work, TargetIsHeld
    <2>2. q.id \in DOMAIN rows /\ q.list = rows[q.id].list /\ q.list \in Sites \cup DOMAIN rows
      BY DEF Work, Aims, Changes, At, Typed, RowsType
    <2>3. q.list \notin G /\ RowsOf(q.list) \cap W = {}
      BY <2>1 DEF Holds
    <2>4. /\ RowsOf(q.list)' = RowsOf(q.list) /\ LiveOf(q.list)' = LiveOf(q.list)
          /\ \A i \in RowsOf(q.list) : rows'[i] = rows[i]
      BY <2>2, <2>3, ListFrame
    <2>5. q.id \in RowsOf(q.list) /\ LiveOf(q.list) \subseteq RowsOf(q.list)
      BY <2>2 DEF RowsOf, LiveOf
    <2>6. Holds(t, q.list)'
      BY <2>1, <2>4 DEF Holds
    <2> QED
      BY <2>1, <2>4, <2>5, <2>6 DEF TargetIsHeld
  <1>6. OriginalIsHeld(t)'
    <2> SUFFICES ASSUME q.op = "clone", q.at \in {"last", "insert"}
                 PROVE  /\ {q.id} \cup RowsOf(q.id)' \subseteq share[t] /\ q.id \in gap[t]
                        /\ rows'[q.id].live
                        /\ q.copies = SequencesOf(q.id)'
      BY DEF OriginalIsHeld
    <2>1. /\ q.id \in DOMAIN rows
          /\ {q.id} \cup RowsOf(q.id) \subseteq share[t] /\ q.id \in gap[t]
          /\ rows[q.id].live /\ q.copies = SequencesOf(q.id)
      BY DEF Work, Aims, Changes, OriginalIsHeld
    <2>2. q.id \notin G /\ RowsOf(q.id) \cap W = {}
      BY <2>1
    <2>3. RowsOf(q.id)' = RowsOf(q.id) /\ SequencesOf(q.id)' = SequencesOf(q.id)
      BY <2>1, <2>2, ListFrame
    <2> QED
      BY <1>1, <2>1, <2>3
  <1>7. MasterIsHeld(t)'
    BY <1>1 DEF Work, Aims, Creates, MasterIsHeld
  <1> QED
    BY <1>2, <1>3, <1>4, <1>5, <1>6, <1>7 DEF Work

-----------------------------------------------------------------------------
(* A step of a transaction: it is the only one whose locks and request      *)
(* change.                                                                  *)
Alone(r) ==
    \A s \in Others(r) : req'[s] = req[s] /\ own'[s] = own[s] /\ share'[s] = share[s] /\ gap'[s] = gap[s]

(* So it is for all others when one transaction writes only what is free    *)
(* for it.                                                                  *)
LEMMA OthersKeep ==
    ASSUME ListsAssumption, IInv, NEW r \in Requests, Alone(r), kind' = kind,
           NEW W, NEW G, Evolves(W, G), FreeToOwn(r, W), \A l \in G : FreeToInsert(r, l)
    PROVE  \A s \in Others(r) : Work(s)'
  <1> SUFFICES ASSUME NEW s \in Others(r)
               PROVE  Work(s)'
    OBVIOUS
  <1>1. s \in Requests /\ Typed /\ Work(s)
    BY DEF IInv, Others
  <1>2. W \cap (own[s] \cup share[s]) = {} /\ G \cap gap[s] = {}
    BY DEF FreeToOwn, FreeToInsert
  <1> QED
    BY <1>1, <1>2, WorkFrame DEF Alone

(* It reads with locks, or without.                                         *)
LEMMA ReadKeeps ==
    ASSUME ListsAssumption, IInv, NEW r \in Requests, NEW q \in ReqType, Go(r, q), UNCHANGED tables,
           NEW A \in SUBSET Ids, NEW B \in SUBSET Ids, NEW G \in SUBSET Lists,
           own' = [own EXCEPT ![r] = @ \cup A], FreeToOwn(r, A),
           share' = [share EXCEPT ![r] = @ \cup B], FreeToShare(r, B),
           gap' = [gap EXCEPT ![r] = @ \cup G],
           Work(r)'
    PROVE  IInv'
  <1>1. Alone(r) /\ Typed
    BY DEF Alone, Others, IInv, Typed, LocksType, Go
  <1>2. Typed'
    BY <1>1 DEF Typed, LocksType, RowsType, Go, tables
  <1>3. Exclusive'
    <2> SUFFICES ASSUME NEW s \in Requests, NEW t \in Requests, s # t
                 PROVE  own'[s] \cap (own'[t] \cup share'[t]) = {}
      BY DEF Exclusive
    <2>1. own[s] \cap (own[t] \cup share[t]) = {}
      BY DEF IInv, Exclusive
    <2>2. own'[r] = own[r] \cup A /\ share'[r] = share[r] \cup B
      BY <1>1 DEF Typed, LocksType
    <2>3. CASE s = r
      BY <1>1, <2>1, <2>2, <2>3 DEF Alone, Others, FreeToOwn
    <2>4. CASE t = r
      BY <1>1, <2>1, <2>2, <2>4 DEF Alone, Others, FreeToOwn, FreeToShare
    <2>5. CASE s # r /\ t # r
      BY <1>1, <2>1, <2>5 DEF Alone, Others
    <2> QED
      BY <2>3, <2>4, <2>5
  <1>4. \A s \in Requests : Work(s)'
    <2>1. Evolves({}, {})
      BY DEF Evolves, tables
    <2>2. \A s \in Others(r) : Work(s)'
      BY <1>1, <2>1, OthersKeep DEF tables, FreeToOwn
    <2> QED
      BY <2>2 DEF Others
  <1> QED
    BY <1>2, <1>3, <1>4 DEF IInv

(* A request that is over has its type.                                     *)
LEMMA IdleType ==
    Idle \in ReqType /\ Idle.op = "none"
  <1> DEFINE none == [i \in {} |-> 0]
  <1>1. none \in [{} -> Orders]
    OBVIOUS
  <1>2. none \in CopiesType
    <2> HIDE DEF none
    <2> QED
      BY <1>1 DEF CopiesType
  <1>3. /\ Idle = [at |-> "idle", op |-> "none", id |-> None, list |-> None, new |-> None, order |-> 0,
                   found |-> None, copies |-> none]
    BY DEF Idle
  <1> HIDE DEF none
  <1>5. Idle \in ReqType
    BY <1>2, <1>3 DEF ReqType, Operations, Stages
  <1>6. Idle.op = "none"
    BY <1>3
  <1> QED
    BY <1>5, <1>6

(* A request that is over holds nothing.                                    *)
LEMMA IdleWork ==
    ASSUME NEW r, req'[r] = Idle
    PROVE  Work(r)'
  BY IdleType DEF Work, Aims, Creates, Changes, LastIsHeld, RowIsHeld, TargetIsHeld, OriginalIsHeld,
                  MasterIsHeld, At

(* It ends, and has written rows that it may write.                         *)
LEMMA DoneKeeps ==
    ASSUME ListsAssumption, IInv, NEW r \in Requests, Done(r), kind' = kind, RowsType',
           NEW W, NEW G, Evolves(W, G), FreeToOwn(r, W), \A l \in G : FreeToInsert(r, l)
    PROVE  IInv'
  <1>1. /\ req'[r] = Idle /\ own'[r] = {} /\ share'[r] = {} /\ gap'[r] = {}
        /\ Alone(r)
    BY DEF Done, Go, Alone, Others, IInv, Typed, LocksType
  <1>2. Typed'
    BY IdleType DEF IInv, Typed, LocksType, Done, Go
  <1>3. Exclusive'
    BY <1>1 DEF Exclusive, IInv, Alone, Others
  <1>4. \A s \in Requests : Work(s)'
    <2>1. \A s \in Others(r) : Work(s)'
      BY <1>1, OthersKeep
    <2>2. Work(r)'
      BY <1>1, IdleWork
    <2> QED
      BY <2>1, <2>2 DEF Others
  <1> QED
    BY <1>2, <1>3, <1>4 DEF IInv

(* It ends, and has written nothing.                                        *)
LEMMA RefuseKeeps ==
    ASSUME ListsAssumption, IInv, NEW r \in Requests, Refuse(r)
    PROVE  IInv'
  <1>1. Evolves({}, {}) /\ RowsType' /\ kind' = kind
    BY DEF Evolves, Refuse, tables, RowsType, IInv, Typed
  <1> QED
    BY <1>1, DoneKeeps DEF Refuse, FreeToOwn

(* It goes on without a lock.                                               *)
LEMMA PlainKeeps ==
    ASSUME ListsAssumption, IInv, NEW r \in Requests, NEW q \in ReqType, Go(r, q), UNCHANGED <<tables, locks>>,
           Work(r)'
    PROVE  IInv'
  <1>1. /\ own' = [own EXCEPT ![r] = @ \cup {}]
        /\ share' = [share EXCEPT ![r] = @ \cup {}]
        /\ gap' = [gap EXCEPT ![r] = @ \cup {}]
    BY DEF locks, IInv, Typed, LocksType
  <1>2. FreeToOwn(r, {}) /\ FreeToShare(r, {})
    BY DEF FreeToOwn, FreeToShare
  <1> QED
    BY <1>1, <1>2, ReadKeeps

-----------------------------------------------------------------------------
(* The steps one by one: calls.                                             *)

(* The calls of the controllers.                                            *)
LEMMA CallsKeep ==
    ASSUME ListsAssumption, IInv, NEW r \in Requests, Calls(r)
    PROVE  IInv'
  <1> USE DEF Creates, Changes, At
  <1>0. Typed /\ \A q : Go(r, q) => req'[r] = q
    BY DEF IInv, Typed, Go
  <1>1. ASSUME NEW l \in Sites \cup {i \in DOMAIN rows : IsMaster(i)}, CallCreate(r, l)
        PROVE  IInv'
    <2> DEFINE q == [Idle EXCEPT !.op = "create", !.list = l, !.at = IF l \in Sites THEN "last" ELSE "master"]
    <2>1. Go(r, q) /\ UNCHANGED <<tables, locks>>
      BY <1>1 DEF CallCreate, Call
    <2>2. q \in ReqType /\ q.op = "create" /\ q.list = l /\ q.at \in {"last", "master"}
          /\ (q.at = "last" => l \in Sites)
      BY IdleType, <1>0 DEF ReqType, Operations, Stages, Lists, Typed, RowsType
    <2>3. l \in Sites \cup DOMAIN rows
      OBVIOUS
    <2> HIDE DEF q
    <2>4. Work(r)'
      BY <1>0, <2>1, <2>2, <2>3
         DEF Work, Aims, LastIsHeld, RowIsHeld, TargetIsHeld, OriginalIsHeld, MasterIsHeld, tables
    <2> QED
      BY <2>1, <2>2, <2>4, PlainKeeps
  <1>2. ASSUME NEW i \in DOMAIN rows, NEW q \in ReqType, Go(r, q), UNCHANGED <<tables, locks>>,
               q.op \in {"update", "move", "clone", "delete"}, q.at \in {"lock", "original", "check"},
               q.id = i, q.list = rows[i].list,
               q.op = "clone" => kind = "cilt", q.op = "move" => q.new \in OrderType
        PROVE  IInv'
    <2>1. Work(r)'
      BY <1>0, <1>2
         DEF Work, Aims, LastIsHeld, RowIsHeld, TargetIsHeld, OriginalIsHeld, MasterIsHeld, tables, Typed, RowsType
    <2> QED
      BY <1>2, <2>1, PlainKeeps
  <1>3. ASSUME NEW i \in DOMAIN rows
        PROVE  i \in Ids /\ rows[i].list \in Lists
    BY <1>0, <1>3 DEF Typed, RowsType, RowType
  <1>4. ASSUME NEW i \in DOMAIN rows, NEW new \in NewOrders \cup {None}, CallUpdate(r, i, new)
        PROVE  IInv'
    <2> DEFINE q == [Idle EXCEPT !.op = "update", !.at = "lock", !.id = i, !.list = rows[i].list, !.new = new]
    <2>1. Go(r, q) /\ UNCHANGED <<tables, locks>>
      BY <1>4 DEF CallUpdate, Call
    <2>2. /\ q \in ReqType /\ q.op = "update" /\ q.at = "lock" /\ q.id = i /\ q.list = rows[i].list
      BY IdleType, <1>3 DEF ReqType, Operations, Stages, ListsAssumption
    <2> HIDE DEF q
    <2> QED
      BY <1>2, <2>1, <2>2
  <1>5. ASSUME NEW i \in DOMAIN rows, NEW new \in NewOrders, CallMove(r, i, new)
        PROVE  IInv'
    <2> DEFINE q == [Idle EXCEPT !.op = "move", !.at = "lock", !.id = i, !.list = rows[i].list, !.new = new]
    <2>1. Go(r, q) /\ UNCHANGED <<tables, locks>>
      BY <1>5 DEF CallMove, Call
    <2>2. /\ q \in ReqType /\ q.op = "move" /\ q.at = "lock" /\ q.id = i /\ q.list = rows[i].list
          /\ q.new \in OrderType
      BY IdleType, <1>3 DEF ReqType, Operations, Stages, ListsAssumption
    <2> HIDE DEF q
    <2> QED
      BY <1>2, <2>1, <2>2
  <1>6. ASSUME NEW i \in DOMAIN rows, CallClone(r, i)
        PROVE  IInv'
    <2> DEFINE q == [Idle EXCEPT !.op = "clone", !.at = "original", !.id = i, !.list = rows[i].list]
    <2>1. Go(r, q) /\ UNCHANGED <<tables, locks>> /\ kind = "cilt"
      BY <1>6 DEF CallClone, Call
    <2>2. /\ q \in ReqType /\ q.op = "clone" /\ q.at = "original" /\ q.id = i /\ q.list = rows[i].list
      BY IdleType, <1>3 DEF ReqType, Operations, Stages
    <2> HIDE DEF q
    <2> QED
      BY <1>2, <2>1, <2>2
  <1>7. ASSUME NEW i \in DOMAIN rows, CallDelete(r, i)
        PROVE  IInv'
    <2> DEFINE q == [Idle EXCEPT !.op = "delete", !.at = "check", !.id = i, !.list = rows[i].list]
    <2>1. Go(r, q) /\ UNCHANGED <<tables, locks>>
      BY <1>7 DEF CallDelete, Call
    <2>2. /\ q \in ReqType /\ q.op = "delete" /\ q.at = "check" /\ q.id = i /\ q.list = rows[i].list
      BY IdleType, <1>3 DEF ReqType, Operations, Stages
    <2> HIDE DEF q
    <2> QED
      BY <1>2, <2>1, <2>2
  <1> QED
    BY <1>1, <1>4, <1>5, <1>6, <1>7 DEF Calls

-----------------------------------------------------------------------------
(* Reads.                                                                   *)

(* What the request of a step is.                                           *)
LEMMA Current ==
    ASSUME IInv, NEW r \in Requests
    PROVE  /\ Typed /\ Work(r) /\ req[r] \in ReqType
           /\ \A q : Go(r, q) => req'[r] = q
  BY DEF IInv, Typed, Go

(* The master of a sequence is read.                                        *)
LEMMA ReadMasterKeeps ==
    ASSUME ListsAssumption, IInv, NEW r \in Requests, ReadMaster(r)
    PROVE  IInv'
  <1> DEFINE q == [req[r] EXCEPT !.at = "last"]
  <1>1. ASSUME Go(r, q), UNCHANGED <<tables, locks, calls>>
        PROVE  IInv'
    <2>1. q \in ReqType /\ q.op = "create" /\ q.list = req[r].list /\ q.at = "last"
      BY Current DEF ReqType, Stages, ReadMaster, At
    <2>2. Creates(r) /\ kind = "cilt"
      BY DEF Creates, ReadMaster, At
    <2> HIDE DEF q
    <2>3. Work(r)'
      BY <1>1, <2>1, <2>2, Current
         DEF Work, Aims, Creates, Changes, At, LastIsHeld, RowIsHeld, TargetIsHeld, OriginalIsHeld, MasterIsHeld, tables
    <2> QED
      BY <1>1, <2>1, <2>3, PlainKeeps
  <1> QED
    BY <1>1, RefuseKeeps DEF ReadMaster

(* The OPL of a detail is locked against changes.                           *)
LEMMA ShareMasterKeeps ==
    ASSUME ListsAssumption, IInv, NEW r \in Requests, ShareMaster(r)
    PROVE  IInv'
  <1> DEFINE q == [req[r] EXCEPT !.at = "last"]
             l == req[r].list
  <1>1. ASSUME IsLive(l), Go(r, q), Share(r, {l}), FreeToShare(r, {l}), UNCHANGED <<tables, own, gap, calls>>
        PROVE  IInv'
    <2>1. q \in ReqType /\ q.op = "create" /\ q.list = l /\ q.at = "last"
      BY Current DEF ReqType, Stages, ShareMaster, At
    <2>2. l \in Ids /\ l \in DOMAIN rows /\ rows[l].live
      BY <1>1, Current DEF IsLive, Exists, Typed, RowsType
    <2>3. l \in share'[r]
      BY <1>1, Current DEF Share, Typed, LocksType
    <2> HIDE DEF q
    <2>4. Work(r)'
      BY <1>1, <2>1, <2>2, <2>3, Current
         DEF Work, Aims, Creates, Changes, At, LastIsHeld, RowIsHeld, TargetIsHeld, OriginalIsHeld, MasterIsHeld, tables
    <2>5. /\ own' = [own EXCEPT ![r] = @ \cup {}]
          /\ share' = [share EXCEPT ![r] = @ \cup {l}]
          /\ gap' = [gap EXCEPT ![r] = @ \cup {}]
          /\ FreeToOwn(r, {})
      BY <1>1, Current DEF Share, Typed, LocksType, FreeToOwn
    <2> QED
      BY <1>1, <2>1, <2>2, <2>4, <2>5, ReadKeeps
  <1> QED
    BY <1>1, RefuseKeeps DEF ShareMaster

(* The next order is a number.                                              *)
LEMMA NextOrdersType ==
    ASSUME ListsAssumption, Typed, NEW l
    PROVE  NextOrders(l) \subseteq Int
  BY DEF NextOrders, LastRows, LiveOf, RowsOf, Typed, RowsType, RowType, ListsAssumption

(* The last row of a list is read, and the list held.                       *)
LEMMA LockLastKeeps ==
    ASSUME ListsAssumption, IInv, NEW r \in Requests, LockLast(r)
    PROVE  IInv'
  <1> PICK l : l = req[r].list
    OBVIOUS
  <1> PICK o \in NextOrders(l) : Go(r, [req[r] EXCEPT !.at = "insert", !.order = o])
    BY DEF LockLast
  <1> DEFINE q == [req[r] EXCEPT !.at = "insert", !.order = o]
  <1>1. /\ req[r].op \in {"create", "clone"} /\ req[r].at = "last"
        /\ FreeToOwn(r, RowsOf(l)) /\ Own(r, RowsOf(l)) /\ Guard(r, l)
        /\ UNCHANGED <<tables, share>>
    BY DEF LockLast
  <1>2. l \in Sites \cup DOMAIN rows /\ l \in Lists /\ RowsOf(l) \in SUBSET Ids
    BY <1>1, Current DEF Work, Aims, Creates, Typed, RowsType, Lists, RowsOf
  <1>3. /\ q \in ReqType /\ q.op = req[r].op /\ q.at = "insert" /\ q.list = l /\ q.id = req[r].id
        /\ q.order = o /\ q.copies = req[r].copies
    BY Current, NextOrdersType DEF ReqType, Stages
  <1>4. /\ own'[r] = own[r] \cup RowsOf(l) /\ gap'[r] = gap[r] \cup {l} /\ share'[r] = share[r]
    BY <1>1, Current DEF Own, Guard, Typed, LocksType
  <1>5. /\ RowsOf(l)' = RowsOf(l) /\ NextOrders(l)' = NextOrders(l)
    BY <1>1 DEF tables, RowsOf, NextOrders, LastRows, LiveOf
  <1> HIDE DEF q
  <1>6. Go(r, q)
    BY DEF q
  <1>7. Aims(r)'
    BY <1>1, <1>3, <1>6, Current DEF Work, Aims, Creates, Changes, tables
  <1>8. LastIsHeld(r)'
    <2>1. Holds(r, l)'
      BY <1>4, <1>5 DEF Holds
    <2> QED
      BY <1>3, <1>5, <1>6, <2>1, Current DEF LastIsHeld, Creates
  <1>9. RowIsHeld(r)' /\ TargetIsHeld(r)'
    BY <1>1, <1>3, <1>6, Current DEF RowIsHeld, TargetIsHeld, At
  <1>10. OriginalIsHeld(r)'
    <2> SUFFICES ASSUME req[r].op = "clone"
                 PROVE  LET i == req[r].id IN
                        /\ {i} \cup RowsOf(i) \subseteq share[r] /\ i \in gap'[r]
                        /\ rows[i].live /\ req[r].copies = SequencesOf(i)
      BY <1>1, <1>3, <1>4, <1>6, Current DEF OriginalIsHeld, SequencesOf, LiveOf, RowsOf, tables
    <2> QED
      BY <1>1, <1>4, Current DEF Work, OriginalIsHeld
  <1>11. MasterIsHeld(r)'
    BY <1>1, <1>3, <1>4, <1>6, Current DEF Work, MasterIsHeld, tables
  <1>12. Work(r)'
    BY <1>7, <1>8, <1>9, <1>10, <1>11 DEF Work
  <1>13. /\ own' = [own EXCEPT ![r] = @ \cup RowsOf(l)]
         /\ share' = [share EXCEPT ![r] = @ \cup {}]
         /\ gap' = [gap EXCEPT ![r] = @ \cup {l}]
         /\ FreeToShare(r, {})
    BY <1>1, Current DEF Own, Guard, Typed, LocksType, FreeToShare
  <1>14. {} \in SUBSET Ids /\ {l} \in SUBSET Lists /\ UNCHANGED tables
    BY <1>1, <1>2
  <1> QED
    BY <1>1, <1>2, <1>3, <1>6, <1>12, <1>13, <1>14, ReadKeeps

(* The row to change is locked.                                             *)
LEMMA LockRowKeeps ==
    ASSUME ListsAssumption, IInv, NEW r \in Requests, LockRow(r)
    PROVE  IInv'
  <1> PICK i : i = req[r].id
    OBVIOUS
  <1> DEFINE q == [req[r] EXCEPT !.at = IF req[r].op = "update" THEN "save" ELSE "target"]
  <1>1. ASSUME IsLive(i), Go(r, q), Own(r, {i}), FreeToOwn(r, {i}), UNCHANGED <<tables, share, gap, calls>>
        PROVE  IInv'
    <2>1. /\ q \in ReqType /\ q.op = req[r].op /\ q.op \in {"update", "move"} /\ q.at \in {"save", "target"}
          /\ (q.op = "move" => q.at = "target")
          /\ q.id = i /\ q.list = req[r].list /\ q.new = req[r].new
      BY Current DEF ReqType, Stages, LockRow
    <2>2. i \in Ids /\ i \in DOMAIN rows /\ rows[i].live
      BY <1>1, Current DEF IsLive, Exists, Typed, RowsType
    <2>3. i \in own'[r]
      BY <1>1, Current DEF Own, Typed, LocksType
    <2> HIDE DEF q
    <2>4. Work(r)'
      BY <1>1, <2>1, <2>2, <2>3, Current
         DEF Work, Aims, Creates, Changes, At, LastIsHeld, RowIsHeld, TargetIsHeld, OriginalIsHeld, MasterIsHeld, tables
    <2>5. /\ own' = [own EXCEPT ![r] = @ \cup {i}]
          /\ share' = [share EXCEPT ![r] = @ \cup {}]
          /\ gap' = [gap EXCEPT ![r] = @ \cup {}]
          /\ FreeToShare(r, {})
      BY <1>1, Current DEF Own, Typed, LocksType, FreeToShare
    <2>6. {i} \in SUBSET Ids /\ {} \in SUBSET Ids /\ {} \in SUBSET Lists /\ UNCHANGED tables
      BY <1>1, <2>2
    <2> QED
      BY <1>1, <2>1, <2>4, <2>5, <2>6, ReadKeeps
  <1> QED
    BY <1>1, RefuseKeeps DEF LockRow

(* The row that has the new order is looked for, and the list held.         *)
LEMMA FindTargetKeeps ==
    ASSUME ListsAssumption, IInv, NEW r \in Requests, FindTarget(r)
    PROVE  IInv'
  <1> PICK l, i, new : l = req[r].list /\ i = req[r].id /\ new = req[r].new
    OBVIOUS
  <1> DEFINE target == {j \in LiveOf(l) : new.whole /\ rows[j].order = new.order}
  <1> PICK f \in IF target = {} THEN {None} ELSE target :
             Go(r, [req[r] EXCEPT !.at = "save", !.found = f, !.order = rows[i].order])
    BY DEF FindTarget
  <1> DEFINE q == [req[r] EXCEPT !.at = "save", !.found = f, !.order = rows[i].order]
  <1>1. /\ req[r].op = "move" /\ req[r].at = "target"
        /\ FreeToOwn(r, RowsOf(l)) /\ Own(r, RowsOf(l)) /\ Guard(r, l)
        /\ UNCHANGED tables /\ UNCHANGED share
    BY DEF FindTarget, At
  <1>2. i \in DOMAIN rows /\ l = rows[i].list /\ l \in Lists /\ RowsOf(l) \in SUBSET Ids
    BY <1>1, Current DEF Work, Aims, Changes, Typed, RowsType, RowType, RowsOf
  <1>3. f \in Ids \cup {None} /\ rows[i].order \in Int
    BY <1>2, Current DEF LiveOf, RowsOf, Typed, RowsType, RowType, ListsAssumption
  <1>4. /\ q \in ReqType /\ q.op = "move" /\ q.at = "save" /\ q.list = l /\ q.id = i /\ q.new = new
        /\ q.order = rows[i].order /\ q.found = f
    <2> HIDE DEF target
    <2>1. req[r] \in ReqType /\ req[r].op = "move" /\ req[r].list = l /\ req[r].id = i /\ req[r].new = new
      BY <1>1, Current
    <2>2. \A g \in Ids \cup {None}, o \in Int :
             [req[r] EXCEPT !.at = "save", !.found = g, !.order = o] \in ReqType
      BY <2>1 DEF ReqType, Stages
    <2>3. q \in ReqType
      BY <1>3, <2>2
    <2> QED
      BY <2>1, <2>3 DEF ReqType
  <1>5. own'[r] = own[r] \cup RowsOf(l) /\ gap'[r] = gap[r] \cup {l}
    BY <1>1, Current DEF Own, Guard, Typed, LocksType
  <1>6. RowsOf(l)' = RowsOf(l) /\ LiveOf(l)' = LiveOf(l)
    BY <1>1 DEF tables, RowsOf, LiveOf
  <1>7. None \notin LiveOf(l)
    BY Current DEF LiveOf, RowsOf, Typed, RowsType, ListsAssumption, Lists
  <1> HIDE DEF q
  <1>8. Go(r, q)
    BY DEF q
  <1>9. Aims(r)'
    BY <1>1, <1>4, <1>8, Current DEF Work, Aims, Creates, Changes, tables
  <1>10. RowIsHeld(r)'
    BY <1>1, <1>4, <1>5, <1>8, Current DEF Work, RowIsHeld, tables
  <1>11. TargetIsHeld(r)'
    <2>1. Holds(r, l)'
      BY <1>5, <1>6 DEF Holds
    <2>2. /\ f = None => ~new.whole \/ \A j \in LiveOf(l) : rows[j].order # new.order
          /\ f # None => new.whole /\ f \in LiveOf(l) /\ rows[f].order = new.order
      BY <1>7
    <2>3. rows' = rows /\ req'[r] = q
      BY <1>1, <1>8, Current DEF tables
    <2> QED
      BY <1>4, <1>6, <2>1, <2>2, <2>3 DEF TargetIsHeld
  <1>12. LastIsHeld(r)' /\ OriginalIsHeld(r)' /\ MasterIsHeld(r)'
    BY <1>4, <1>8, Current DEF LastIsHeld, OriginalIsHeld, MasterIsHeld, Creates
  <1>13. Work(r)'
    BY <1>9, <1>10, <1>11, <1>12 DEF Work
  <1>14. /\ own' = [own EXCEPT ![r] = @ \cup RowsOf(l)]
         /\ share' = [share EXCEPT ![r] = @ \cup {}]
         /\ gap' = [gap EXCEPT ![r] = @ \cup {l}]
         /\ FreeToShare(r, {})
    BY <1>1, Current DEF Own, Guard, Typed, LocksType, FreeToShare
  <1>15. {} \in SUBSET Ids /\ {l} \in SUBSET Lists
    BY <1>2
  <1> QED
    BY <1>1, <1>2, <1>4, <1>8, <1>13, <1>14, <1>15, ReadKeeps

(* The orders of what is in a list.                                         *)
LEMMA SequencesType ==
    ASSUME Typed, NEW i
    PROVE  SequencesOf(i) \in CopiesType
  <1>1. LiveOf(i) \in SUBSET Ids
    BY DEF LiveOf, RowsOf, Typed, RowsType
  <1>2. \A c \in LiveOf(i) : rows[c].order \in Orders
    BY DEF LiveOf, RowsOf, Typed, RowsType, RowType
  <1>3. SequencesOf(i) \in [LiveOf(i) -> Orders]
    BY <1>2 DEF SequencesOf
  <1> QED
    BY <1>1, <1>3 DEF CopiesType

(* The original of a clone is locked with its sequences.                    *)
LEMMA ReadOriginalKeeps ==
    ASSUME ListsAssumption, IInv, NEW r \in Requests, ReadOriginal(r)
    PROVE  IInv'
  <1> PICK i : i = req[r].id
    OBVIOUS
  <1> DEFINE q == [req[r] EXCEPT !.at = "last", !.copies = SequencesOf(i)]
             read == {i} \cup RowsOf(i)
  <1>1. ASSUME IsLive(i), Go(r, q), Share(r, read), Guard(r, i), FreeToShare(r, read), UNCHANGED <<tables, own, calls>>
        PROVE  IInv'
    <2>1. /\ q \in ReqType /\ q.op = "clone" /\ q.op = req[r].op /\ q.at = "last" /\ q.id = i /\ q.list = req[r].list
          /\ q.copies = SequencesOf(i)
      BY Current, SequencesType DEF ReqType, Stages, ReadOriginal, At
    <2>2. i \in Ids /\ i \in DOMAIN rows /\ rows[i].live /\ read \in SUBSET Ids
      BY <1>1, Current DEF IsLive, Exists, Typed, RowsType, RowsOf
    <2>3. share'[r] = share[r] \cup read /\ i \in gap'[r]
      BY <1>1, Current DEF Share, Guard, Typed, LocksType
    <2>4. RowsOf(i)' = RowsOf(i) /\ SequencesOf(i)' = SequencesOf(i) /\ rows' = rows /\ kind' = kind
      BY <1>1 DEF tables, RowsOf, LiveOf, SequencesOf
    <2> HIDE DEF q
    <2>5. Aims(r)' /\ LastIsHeld(r)' /\ RowIsHeld(r)' /\ TargetIsHeld(r)' /\ MasterIsHeld(r)'
      BY <1>1, <2>1, <2>4, Current
         DEF Work, Aims, Creates, Changes, At, LastIsHeld, RowIsHeld, TargetIsHeld, MasterIsHeld
    <2>6. OriginalIsHeld(r)'
      BY <1>1, <2>1, <2>2, <2>3, <2>4, Current DEF OriginalIsHeld
    <2>7. Work(r)'
      BY <2>5, <2>6 DEF Work
    <2>8. /\ own' = [own EXCEPT ![r] = @ \cup {}]
          /\ share' = [share EXCEPT ![r] = @ \cup read]
          /\ gap' = [gap EXCEPT ![r] = @ \cup {i}]
          /\ FreeToOwn(r, {})
      BY <1>1, Current DEF Share, Guard, Typed, LocksType, FreeToOwn
    <2>9. {} \in SUBSET Ids /\ {i} \in SUBSET Lists /\ UNCHANGED tables
      BY <1>1, <2>2 DEF Lists
    <2> HIDE DEF read
    <2> QED
      BY <1>1, <2>1, <2>2, <2>7, <2>8, <2>9, ReadKeeps
  <1> QED
    BY <1>1, RefuseKeeps DEF ReadOriginal

(* The row to delete is looked for.                                         *)
LEMMA CheckDeleteKeeps ==
    ASSUME ListsAssumption, IInv, NEW r \in Requests, CheckDelete(r)
    PROVE  IInv'
  <1> DEFINE q == [req[r] EXCEPT !.at = "delete"]
  <1>1. ASSUME Go(r, q), UNCHANGED <<tables, locks, calls>>
        PROVE  IInv'
    <2>1. q \in ReqType /\ q.op = "delete" /\ q.op = req[r].op /\ q.at = "delete" /\ q.id = req[r].id /\ q.list = req[r].list
      BY Current DEF ReqType, Stages, CheckDelete, At
    <2> HIDE DEF q
    <2>2. Work(r)'
      BY <1>1, <2>1, Current
         DEF Work, Aims, Creates, Changes, At, LastIsHeld, RowIsHeld, TargetIsHeld, OriginalIsHeld, MasterIsHeld, tables
    <2> QED
      BY <1>1, <2>1, <2>2, PlainKeeps
  <1> QED
    BY <1>1, RefuseKeeps DEF CheckDelete

-----------------------------------------------------------------------------
(* Writes: each is one step of the abstract list, or leaves it alone.       *)

(* What the abstract list sees.                                             *)
LEMMA Seen ==
    /\ Abs!Elements = Live
    /\ \A l : Abs!Among(l) = LiveOf(l)
    /\ \A i \in Live : Places[i] = PlaceOf(i) /\ Places[i].list = rows[i].list /\ Places[i].order = rows[i].order
  <1>1. Abs!Elements = Live
    BY DEF Abs!Elements, Places
  <1>2. \A i \in Live : Places[i] = PlaceOf(i) /\ Places[i].list = rows[i].list /\ Places[i].order = rows[i].order
    BY DEF Places, PlaceOf, Place
  <1>3. \A l : Abs!Among(l) = LiveOf(l)
    BY <1>1, <1>2 DEF Abs!Among, LiveOf, RowsOf, Live
  <1> QED
    BY <1>1, <1>2, <1>3

(* The order read from the last row of a list is the one after it.          *)
LEMMA NextIsNext ==
    ASSUME ListsAssumption, Typed, NEW l, NEW o \in NextOrders(l)
    PROVE  Abs!IsNext(l, o)
  <1>1. \A i \in LiveOf(l) : i \in Live /\ rows[i].order \in Int
    BY DEF LiveOf, RowsOf, Live, Typed, RowsType, RowType, ListsAssumption
  <1>2. CASE LiveOf(l) = {}
    BY <1>2, Seen DEF NextOrders, Abs!IsNext
  <1>3. CASE LiveOf(l) # {}
    <2>1. PICK k \in LastRows(l) : o = rows[k].order + 1
      BY <1>3 DEF NextOrders
    <2>2. k \in LiveOf(l) /\ \A i \in LiveOf(l) : rows[i].order <= rows[k].order
      BY <2>1 DEF LastRows
    <2>3. \A i \in LiveOf(l) : rows[i].order < o
      BY <1>1, <2>1, <2>2
    <2>4. rows[k].order = o - 1
      BY <1>1, <2>1, <2>2
    <2> QED
      BY <1>1, <1>3, <2>2, <2>3, <2>4, Seen DEF Abs!IsNext
  <1> QED
    BY <1>2, <1>3

StepOrStutter == Abs!Next \/ UNCHANGED <<Places, given>>

(* What leaves the tables alone is no step of the abstract list.            *)
LEMMA SameTables ==
    ASSUME UNCHANGED tables
    PROVE  StepOrStutter
  BY DEF tables, StepOrStutter, Places, Live, PlaceOf

(* A row is inserted: it is added to the abstract list, below a master      *)
(* that is still there.                                                     *)
LEMMA InsertStep ==
    ASSUME ListsAssumption, IInv, NEW r \in Requests, Insert(r)
    PROVE  /\ IInv' /\ StepOrStutter
           /\ kind = "opl" => \A i \in DOMAIN rows' \ DOMAIN rows : rows'[i].list \in Sites \/ IsLive(rows'[i].list)
  <1> PICK l, o : l = req[r].list /\ o = req[r].order
    OBVIOUS
  <1> PICK i \in Ids \ DOMAIN rows :
             rows' = [j \in DOMAIN rows \cup {i} |-> IF j = i THEN Row(l, o) ELSE rows[j]]
    BY DEF Insert
  <1>1. /\ req[r].op = "create" /\ req[r].at = "insert" /\ FreeToInsert(r, l) /\ o \in Orders
        /\ Done(r) /\ kind' = kind /\ given' = given
    BY DEF Insert, At
  <1>2. l \in Sites \cup DOMAIN rows /\ l \in Lists /\ o \in NextOrders(l)
    BY <1>1, Current DEF Work, Aims, Creates, LastIsHeld, Typed, RowsType, Lists
  <1>3. /\ DOMAIN rows' = DOMAIN rows \cup {i} /\ rows'[i] = Row(l, o)
        /\ \A j \in DOMAIN rows : rows'[j] = rows[j]
    OBVIOUS
  <1>4. Row(l, o) \in RowType /\ Row(l, o).list = l /\ Row(l, o).order = o /\ Row(l, o).live
    BY <1>1, <1>2 DEF Row, RowType
  <1>5. RowsType'
    BY <1>2, <1>3, <1>4, Current DEF Typed, RowsType
  <1>6. Evolves({}, {l})
    BY <1>3, <1>4 DEF Evolves
  <1>7. IInv'
    <2>1. FreeToOwn(r, {})
      BY DEF FreeToOwn
    <2> QED
      BY <1>1, <1>5, <1>6, <2>1, DoneKeeps
  <1>8. Abs!Add(i, l, o)
    <2>1. Live' = Live \cup {i} /\ i \notin Live
      BY <1>3, <1>4 DEF Live
    <2>2. Places' = [j \in Live \cup {i} |-> IF j = i THEN Place(l, o) ELSE Places[j]]
      BY <1>3, <1>4, <2>1 DEF Places, PlaceOf, Place, Live
    <2>3. Abs!IsNext(l, o)
      BY <1>2, Current, NextIsNext
    <2>4. Abs!Place(l, o) = Place(l, o)
      BY DEF Abs!Place, Place
    <2> QED
      BY <1>1, <1>2, <2>1, <2>2, <2>3, <2>4, Seen DEF Abs!Add
  <1>9. Abs!Next
    <2>1. i \in Abs!New /\ Places'[i].list = l /\ Places'[i].order = o
      BY <1>8 DEF Abs!Add, Abs!New, Abs!Elements, Abs!Place
    <2> QED
      BY <1>8, <2>1 DEF Abs!Next
  <1>10. ASSUME kind = "opl"
         PROVE  l \in Sites \/ IsLive(l)
    BY <1>1, <1>2, <1>10, Current DEF Work, MasterIsHeld, IsLive, Exists
  <1> QED
    BY <1>3, <1>4, <1>7, <1>9, <1>10 DEF StepOrStutter

(* A row is deleted: it is removed, or was before.                          *)
LEMMA DeleteStep ==
    ASSUME ListsAssumption, IInv, NEW r \in Requests, Delete(r)
    PROVE  IInv' /\ StepOrStutter /\ DOMAIN rows' = DOMAIN rows
  <1> PICK i : i = req[r].id
    OBVIOUS
  <1>1. /\ req[r].op = "delete" /\ FreeToOwn(r, {i}) /\ Done(r) /\ kind' = kind /\ given' = given
        /\ rows' = [rows EXCEPT ![i].live = FALSE]
    BY DEF Delete, At
  <1>2. i \in DOMAIN rows /\ rows[i] \in RowType
    BY <1>1, Current DEF Work, Aims, Changes, Typed, RowsType
  <1>3. /\ DOMAIN rows' = DOMAIN rows
        /\ rows'[i] \in RowType /\ ~rows'[i].live /\ rows'[i].list = rows[i].list
        /\ \A j \in DOMAIN rows \ {i} : rows'[j] = rows[j]
    BY <1>1, <1>2 DEF RowType
  <1>4. RowsType'
    <2>1. rows' \in [DOMAIN rows -> RowType]
      BY <1>1, <1>3, Current DEF Typed, RowsType
    <2> QED
      BY <1>3, <2>1, Current DEF Typed, RowsType
  <1>5. Evolves({i}, {})
    BY <1>3 DEF Evolves
  <1>6. IInv'
    BY <1>1, <1>4, <1>5, DoneKeeps
  <1>7. Live' = Live \ {i} /\ Places' = [j \in Live \ {i} |-> Places[j]]
    BY <1>3 DEF Live, Places, PlaceOf, Place
  <1>8. StepOrStutter
    <2>1. CASE i \in Live
      <3>1. Abs!Remove(i)
        BY <1>1, <1>7, <2>1, Seen DEF Abs!Remove
      <3> QED
        BY <3>1, <2>1, Seen DEF Abs!Next, StepOrStutter
    <2>2. CASE i \notin Live
      BY <1>1, <1>7, <2>2 DEF StepOrStutter, Places
    <2> QED
      BY <2>1, <2>2
  <1> QED
    BY <1>3, <1>6, <1>8

(* Rows that a transaction has locked for itself are free for it.           *)
LEMMA OwnIsFree ==
    ASSUME IInv, NEW r \in Requests, NEW A, A \subseteq own[r]
    PROVE  FreeToOwn(r, A)
  BY DEF IInv, Exclusive, FreeToOwn, Others

(* The order of a row is written.                                           *)
LEMMA OrderIsPut ==
    ASSUME Typed, NEW i \in Live, NEW o \in Orders, rows' = [rows EXCEPT ![i].order = o]
    PROVE  /\ RowsType' /\ Evolves({i}, {}) /\ DOMAIN rows' = DOMAIN rows
           /\ Places' = [Places EXCEPT ![i].order = o]
  <1>1. i \in DOMAIN rows /\ rows[i] \in RowType /\ rows[i].live
    BY DEF Live, Typed, RowsType
  <1>2. /\ DOMAIN rows' = DOMAIN rows
        /\ rows'[i] \in RowType /\ rows'[i].list = rows[i].list /\ rows'[i].live /\ rows'[i].order = o
        /\ \A j \in DOMAIN rows \ {i} : rows'[j] = rows[j]
    BY <1>1 DEF RowType
  <1>3. RowsType'
    <2>1. rows' \in [DOMAIN rows -> RowType]
      BY <1>1, <1>2 DEF Typed, RowsType
    <2> QED
      BY <1>2, <2>1 DEF Typed, RowsType
  <1>4. Evolves({i}, {})
    BY <1>2 DEF Evolves
  <1>5. Live' = Live
    BY <1>1, <1>2 DEF Live
  <1>6. Places' = [Places EXCEPT ![i].order = o]
    <2>1. \A j \in Live : rows'[j].list = rows[j].list /\ rows'[j].order = IF j = i THEN o ELSE rows[j].order
      BY <1>1, <1>2 DEF Live
    <2> QED
      BY <1>5, <2>1 DEF Places, PlaceOf, Place
  <1> QED
    BY <1>2, <1>3, <1>4, <1>6

(* The body of a master's update gives an order.                            *)
LEMMA SaveUpdateStep ==
    ASSUME ListsAssumption, IInv, NEW r \in Requests, SaveUpdate(r)
    PROVE  IInv' /\ StepOrStutter /\ DOMAIN rows' = DOMAIN rows
  <1> PICK i, new : i = req[r].id /\ new = req[r].new
    OBVIOUS
  <1>1. req[r].op = "update" /\ req[r].at = "save" /\ Done(r) /\ kind' = kind
    BY DEF SaveUpdate, At
  <1>2. CASE new = None
    <2>1. rows' = rows /\ given' = given
      BY <1>2 DEF SaveUpdate
    <2>2. Evolves({}, {}) /\ RowsType' /\ FreeToOwn(r, {})
      BY <2>1, Current DEF Evolves, FreeToOwn, Typed, RowsType
    <2> QED
      BY <1>1, <2>1, <2>2, DoneKeeps, SameTables DEF tables
  <1>3. CASE new # None
    <2>1. /\ new.order \in Orders /\ rows' = [rows EXCEPT ![i].order = new.order]
          /\ given' = given \cup {Place(req[r].list, new.order)}
      BY <1>3 DEF SaveUpdate
    <2>2. i \in own[r] /\ i \in Live /\ req[r].list = rows[i].list
      BY <1>1, Current DEF Work, Aims, Changes, RowIsHeld, Live
    <2>3. IInv' /\ Places' = [Places EXCEPT ![i].order = new.order] /\ DOMAIN rows' = DOMAIN rows
      <3>1. /\ RowsType' /\ Evolves({i}, {}) /\ DOMAIN rows' = DOMAIN rows
            /\ Places' = [Places EXCEPT ![i].order = new.order]
        BY <1>1, <2>1, <2>2, Current, OrderIsPut
      <3>2. FreeToOwn(r, {i})
        BY <2>2, OwnIsFree
      <3>3. IInv'
        BY <1>1, <3>1, <3>2, DoneKeeps
      <3> QED
        BY <3>1, <3>3
    <2>4. Abs!Give(i, new.order)
      BY <2>1, <2>2, <2>3, Seen DEF Abs!Give, Abs!Place, Place
    <2> QED
      BY <2>1, <2>2, <2>3, <2>4, Seen DEF Abs!Next, StepOrStutter
  <1> QED
    BY <1>2, <1>3

(* Two rows exchange their orders, or one is put at a free or a given       *)
(* order.                                                                   *)
LEMMA SaveMoveStep ==
    ASSUME ListsAssumption, IInv, NEW r \in Requests, SaveMove(r)
    PROVE  IInv' /\ StepOrStutter /\ DOMAIN rows' = DOMAIN rows
  <1> PICK l, i, new, f : l = req[r].list /\ i = req[r].id /\ new = req[r].new /\ f = req[r].found
    OBVIOUS
  <1>1. /\ req[r].op = "move" /\ req[r].at = "save" /\ Done(r) /\ kind' = kind
        /\ new.order \in Orders
        /\ given' = IF new.whole THEN given ELSE given \cup {Place(l, new.order)}
    BY DEF SaveMove, At
  <1>2. /\ i \in own[r] /\ i \in Live /\ l = rows[i].list
        /\ RowsOf(l) \subseteq own[r] /\ req[r].order = rows[i].order
        /\ f = None => ~new.whole \/ \A j \in LiveOf(l) : rows[j].order # new.order
        /\ f # None => new.whole /\ f \in LiveOf(l) /\ rows[f].order = new.order
    BY <1>1, Current DEF Work, Aims, Changes, RowIsHeld, TargetIsHeld, Holds, Live, At
  <1>3. None \notin DOMAIN rows
    BY Current DEF Typed, RowsType, ListsAssumption, Lists
  <1>4. rows' = [j \in DOMAIN rows |->
                   IF j = i THEN [rows[j] EXCEPT !.order = new.order]
                   ELSE IF j = f THEN [rows[j] EXCEPT !.order = rows[i].order]
                   ELSE rows[j]]
    BY <1>2 DEF SaveMove
  <1>5. CASE f = None
    <2>1. rows' = [rows EXCEPT ![i].order = new.order]
      BY <1>2, <1>3, <1>4, <1>5, Current DEF Typed, RowsType, Live
    <2>2. IInv' /\ Places' = [Places EXCEPT ![i].order = new.order] /\ DOMAIN rows' = DOMAIN rows
      <3>1. /\ RowsType' /\ Evolves({i}, {}) /\ DOMAIN rows' = DOMAIN rows
            /\ Places' = [Places EXCEPT ![i].order = new.order]
        BY <1>1, <2>1, <1>2, Current, OrderIsPut
      <3>2. FreeToOwn(r, {i})
        BY <1>2, OwnIsFree
      <3>3. IInv'
        BY <1>1, <3>1, <3>2, DoneKeeps
      <3> QED
        BY <3>1, <3>3
    <2>3. CASE ~new.whole
      <3>1. Abs!Give(i, new.order)
        BY <1>1, <1>2, <2>2, <2>3, Seen DEF Abs!Give, Abs!Place, Place
      <3> QED
        BY <1>1, <1>2, <2>2, <3>1, Seen DEF Abs!Next, StepOrStutter
    <2>4. CASE new.whole
      <3>1. \A j \in LiveOf(l) : j \in Live
        BY DEF LiveOf, RowsOf, Live
      <3>2. \A j \in Abs!Among(Places[i].list) : Places[j].order # new.order
        BY <1>2, <1>5, <2>4, <3>1, Seen
      <3>3. Abs!PutAt(i, new.order)
        BY <1>1, <1>2, <2>2, <2>4, <3>2, Seen DEF Abs!PutAt
      <3> QED
        BY <1>1, <1>2, <2>2, <3>3, Seen DEF Abs!Next, StepOrStutter
    <2> QED
      BY <2>3, <2>4
  <1>6. CASE f # None
    <2>1. /\ f \in Live /\ f \in RowsOf(l) /\ rows[f].list = l /\ rows[f].order = new.order
          /\ given' = given
      BY <1>1, <1>2, <1>6 DEF LiveOf, RowsOf, Live
    <2>2. /\ i \in DOMAIN rows /\ f \in DOMAIN rows /\ rows[i] \in RowType /\ rows[f] \in RowType
          /\ rows[i].live /\ rows[f].live
      BY <1>2, <2>1, Current DEF Live, Typed, RowsType
    <2>3. /\ DOMAIN rows' = DOMAIN rows
          /\ rows'[i] \in RowType /\ rows'[i].list = l /\ rows'[i].live /\ rows'[i].order = rows[f].order
          /\ rows'[f] \in RowType /\ rows'[f].list = l /\ rows'[f].live /\ rows'[f].order = rows[i].order
          /\ \A j \in DOMAIN rows \ {i, f} : rows'[j] = rows[j]
      BY <1>1, <1>2, <1>4, <2>1, <2>2 DEF RowType
    <2>4. RowsType'
      <3>1. rows' \in [DOMAIN rows -> RowType]
        BY <1>4, <2>3, Current DEF Typed, RowsType
      <3> QED
        BY <1>2, <2>1, <2>3, <3>1, Current DEF Typed, RowsType
    <2>5. Evolves({i, f}, {})
      BY <1>2, <2>1, <2>3 DEF Evolves
    <2>6. IInv'
      <3>1. FreeToOwn(r, {i, f})
        BY <1>2, <2>1, OwnIsFree
      <3> QED
        BY <1>1, <2>4, <2>5, <3>1, DoneKeeps
    <2>7. Live' = Live
      BY <2>2, <2>3 DEF Live
    <2>8. Places' = [Places EXCEPT ![i] = Places[f], ![f] = Places[i]]
      <3>1. /\ PlaceOf(i)' = PlaceOf(f) /\ PlaceOf(f)' = PlaceOf(i)
            /\ \A j \in Live \ {i, f} : PlaceOf(j)' = PlaceOf(j)
        BY <1>2, <2>1, <2>3 DEF PlaceOf, Place, Live
      <3> QED
        BY <1>2, <2>1, <2>7, <3>1 DEF Places
    <2>9. Abs!Exchange(i, f)
      BY <1>2, <1>6, <2>1, <2>8, Seen DEF Abs!Exchange
    <2> QED
      BY <1>2, <2>1, <2>3, <2>6, <2>9, Seen DEF Abs!Next, StepOrStutter
  <1> QED
    BY <1>5, <1>6

(* A clone is inserted with its sequences.                                  *)
LEMMA InsertCopiesStep ==
    ASSUME ListsAssumption, IInv, NEW r \in Requests, InsertCopies(r)
    PROVE  IInv' /\ StepOrStutter /\ kind = "cilt"
  <1> PICK l, o, i, copies : l = req[r].list /\ o = req[r].order /\ i = req[r].id /\ copies = req[r].copies
    OBVIOUS
  <1>1. /\ req[r].op = "clone" /\ req[r].at = "insert" /\ FreeToInsert(r, l) /\ o \in Orders
        /\ Done(r) /\ kind' = kind
    BY DEF InsertCopies, At
  <1>2. PICK c, new, original :
          /\ c \in Ids \ DOMAIN rows
          /\ new \subseteq Ids \ (DOMAIN rows \cup {c}) /\ original \in [new -> DOMAIN copies]
          /\ \A j, k \in new : original[j] = original[k] => j = k
          /\ \A k \in DOMAIN copies : \E j \in new : original[j] = k
          /\ rows' = [j \in DOMAIN rows \cup {c} \cup new |->
                        IF j = c THEN Row(l, o)
                        ELSE IF j \in new THEN Row(c, copies[original[j]])
                        ELSE rows[j]]
          /\ given' = given \cup {Place(c, p.order) : p \in {g \in given : g.list = i}}
    BY DEF InsertCopies
  <1>3. /\ kind = "cilt" /\ l \in Sites \cup DOMAIN rows /\ l \in Lists /\ o \in NextOrders(l)
        /\ i \in Live /\ l = rows[i].list
        /\ copies = SequencesOf(i)
    BY <1>1, Current
       DEF Work, Aims, Creates, Changes, LastIsHeld, OriginalIsHeld, Typed, RowsType, Lists, Live
  <1>4. /\ DOMAIN copies = LiveOf(i)
        /\ \A k \in LiveOf(i) : k \in Live /\ copies[k] = rows[k].order /\ copies[k] \in Orders
    BY <1>3, Current DEF SequencesOf, LiveOf, RowsOf, Live, Typed, RowsType, RowType
  <1>5. /\ DOMAIN rows' = DOMAIN rows \cup {c} \cup new
        /\ rows'[c] = Row(l, o)
        /\ \A j \in new : rows'[j] = Row(c, copies[original[j]]) /\ original[j] \in LiveOf(i)
        /\ \A j \in DOMAIN rows : rows'[j] = rows[j]
    BY <1>2, <1>4
  <1>6. \A m, n : Row(m, n).list = m /\ Row(m, n).order = n /\ Row(m, n).live
    BY DEF Row
  <1>7. RowsType'
    <2>1. Row(l, o) \in RowType /\ \A j \in new : Row(c, copies[original[j]]) \in RowType
      BY <1>1, <1>2, <1>3, <1>4, <1>5 DEF Row, RowType, Lists
    <2>2. \A j \in DOMAIN rows' : rows'[j] \in RowType
      BY <1>5, <2>1, Current DEF Typed, RowsType
    <2>3. rows' \in [DOMAIN rows' -> RowType]
      BY <1>2, <2>2
    <2>4. \A j \in DOMAIN rows' : rows'[j].list \in Sites \cup DOMAIN rows'
      BY <1>3, <1>5, <1>6, Current DEF Typed, RowsType
    <2>5. DOMAIN rows' \subseteq Ids
      BY <1>2, <1>5, Current DEF Typed, RowsType
    <2> QED
      BY <2>3, <2>4, <2>5 DEF RowsType
  <1>8. Evolves({}, {l})
    BY <1>2, <1>5, <1>6 DEF Evolves
  <1>9. IInv'
    <2>1. FreeToOwn(r, {})
      BY DEF FreeToOwn
    <2> QED
      BY <1>1, <1>7, <1>8, <2>1, DoneKeeps
  <1>10. Live' = Live \cup {c} \cup new /\ c \notin Live /\ new \cap Live = {} /\ c \notin new /\ l # c
    BY <1>2, <1>3, <1>5, <1>6 DEF Live, ListsAssumption
  <1>11. Places' = [j \in Live \cup {c} \cup new |->
                      IF j = c THEN Place(Places[i].list, o)
                      ELSE IF j \in new THEN Place(c, Places[original[j]].order)
                      ELSE Places[j]]
    <2>1. PlaceOf(c)' = Place(Places[i].list, o)
      BY <1>3, <1>5, <1>6, Seen DEF PlaceOf
    <2>2. \A j \in new : PlaceOf(j)' = Place(c, Places[original[j]].order)
      BY <1>4, <1>5, <1>6, Seen DEF PlaceOf
    <2>3. \A j \in Live : PlaceOf(j)' = Places[j]
      BY <1>5, Seen DEF PlaceOf, Live
    <2> QED
      BY <1>10, <2>1, <2>2, <2>3 DEF Places
  <1>12. Abs!Copy(i, c, o, original)
    <2>1. Abs!Among(c) = {}
      BY <1>2, Seen, Current DEF LiveOf, RowsOf, Typed, RowsType, ListsAssumption
    <2>2. Abs!IsNext(Places[i].list, o)
      BY <1>3, Current, NextIsNext, Seen
    <2>3. DOMAIN original = new /\ new \subseteq Ids \ (Abs!Elements \cup {c})
      BY <1>2, <1>10, Seen
    <2>4. \A j \in new : original[j] \in Abs!Among(i)
      BY <1>5, Seen
    <2>5. \A k \in Abs!Among(i) : \E j \in new : original[j] = k
      BY <1>2, <1>4, Seen
    <2>6. i \in Abs!Elements /\ c \in Ids \ Abs!Elements
      BY <1>2, <1>3, <1>10, Seen
    <2>7. \A m, n : Abs!Place(m, n) = Place(m, n)
      BY DEF Abs!Place, Place
    <2>8. Places' = [j \in Abs!Elements \cup {c} \cup DOMAIN original |->
                       IF j = c THEN Abs!Place(Places[i].list, o)
                       ELSE IF j \in DOMAIN original THEN Abs!Place(c, Places[original[j]].order)
                       ELSE Places[j]]
      BY <1>11, <2>3, <2>7, Seen
    <2>9. given' = given \cup {Abs!Place(c, p.order) : p \in {q \in given : q.list = i}}
      BY <1>2, <2>7
    <2> QED
      BY <1>1, <1>2, <2>1, <2>2, <2>3, <2>4, <2>5, <2>6, <2>8, <2>9 DEF Abs!Copy
  <1>13. Abs!Next
    <2>1. Abs!New = {c} \cup new
      BY <1>10, <1>11, Seen DEF Abs!New
    <2>2. Places'[c].list = l /\ Places'[c].order = o /\ \A j \in new : Places'[j].list = c
      BY <1>3, <1>10, <1>11, Seen DEF Place
    <2>3. {j \in Abs!New : Places'[j].list = c} = new
      BY <1>10, <2>1, <2>2
    <2>4. original \in [{j \in Abs!New : Places'[j].list = c} -> Abs!Among(i)]
      BY <1>2, <1>4, <2>3, Seen
    <2>5. \E f \in [{j \in Abs!New : Places'[j].list = c} -> Abs!Among(i)] : Abs!Copy(i, c, Places'[c].order, f)
      BY <1>12, <2>2, <2>4
    <2>6. i \in Abs!Elements /\ c \in Abs!New
      BY <1>3, <2>1, Seen
    <2> QED
      BY <2>5, <2>6 DEF Abs!Next
  <1> QED
    BY <1>3, <1>9, <1>13 DEF StepOrStutter

-----------------------------------------------------------------------------
(* The theorems.                                                            *)

(* The first states.                                                        *)
LEMMA InitInvariant ==
    ASSUME ListsAssumption, FirstRowsAssumption, Init
    PROVE  IInv /\ Abs!Init
  <1>1. RowsType
    BY DEF Init, FirstRowsAssumption, RowsType
  <1>2. Typed
    BY <1>1, IdleType DEF Init, Typed, LocksType
  <1>3. \A r \in Requests : Work(r)
    BY IdleType DEF Init, Work, Aims, Creates, Changes, LastIsHeld, RowIsHeld, TargetIsHeld, OriginalIsHeld,
                    MasterIsHeld, At
  <1>4. Exclusive
    BY DEF Init, Exclusive
  <1>5. Abs!Init
    <2>1. \A i \in Live : i \in DOMAIN rows /\ rows[i] \in RowType
      BY <1>1 DEF Live, RowsType
    <2>2. \A i \in Live : Places[i] \in [list : Lists \cup Ids, order : Orders]
      BY <2>1 DEF Places, PlaceOf, Place, RowType
    <2>3. Places \in [Live -> [list : Lists \cup Ids, order : Orders]]
      BY <2>2 DEF Places
    <2>4. \A i, j \in Live : Places[i] = Places[j] => i = j
      BY <2>1, Seen DEF Init, FirstRowsAssumption
    <2> QED
      BY <2>3, <2>4, Seen DEF Abs!Init
  <1> QED
    BY <1>2, <1>3, <1>4, <1>5 DEF IInv

Inserted == DOMAIN rows' \ DOMAIN rows

(* Any step.                                                                *)
LEMMA StepInvariant ==
    ASSUME ListsAssumption, IInv, [Next]_vars
    PROVE  /\ IInv' /\ StepOrStutter
           /\ kind = "opl" => \A i \in Inserted : rows'[i].list \in Sites \/ IsLive(rows'[i].list)
  <1>1. ASSUME UNCHANGED tables
        PROVE  StepOrStutter /\ Inserted = {}
    BY <1>1, SameTables DEF tables, Inserted
  <1>2. ASSUME DOMAIN rows' = DOMAIN rows
        PROVE  Inserted = {}
    BY <1>2 DEF Inserted
  <1>3. CASE UNCHANGED vars
    <2>1. Typed' /\ Exclusive'
      BY <1>3 DEF vars, IInv, Typed, RowsType, LocksType, Exclusive
    <2>2. \A r \in Requests : Work(r)'
      <3> SUFFICES ASSUME NEW r \in Requests
                   PROVE  Work(r)'
        OBVIOUS
      <3>1. Evolves({}, {}) /\ kind' = kind /\ Work(r) /\ Typed
        BY <1>3 DEF vars, Evolves, IInv
      <3>2. req' = req /\ own' = own /\ share' = share /\ gap' = gap
        BY <1>3 DEF vars
      <3> QED
        BY <3>1, <3>2, WorkFrame
    <2> QED
      BY <1>1, <1>3, <2>1, <2>2 DEF vars, tables, IInv
  <1>4. ASSUME NEW r \in Requests, Calls(r)
        PROVE  IInv' /\ UNCHANGED tables
    BY <1>4, CallsKeep DEF Calls, CallCreate, CallUpdate, CallMove, CallClone, CallDelete, Call
  <1>5. ASSUME NEW r \in Requests, ReadMaster(r) \/ ShareMaster(r) \/ LockLast(r) \/ LockRow(r) \/ FindTarget(r)
        PROVE  IInv' /\ UNCHANGED tables
    BY <1>5, ReadMasterKeeps, ShareMasterKeeps, LockLastKeeps, LockRowKeeps, FindTargetKeeps
       DEF ReadMaster, ShareMaster, LockLast, LockRow, FindTarget, Refuse
  <1>6. ASSUME NEW r \in Requests, ReadOriginal(r) \/ CheckDelete(r) \/ Abort(r)
        PROVE  IInv' /\ UNCHANGED tables
    BY <1>6, ReadOriginalKeeps, CheckDeleteKeeps, RefuseKeeps DEF ReadOriginal, CheckDelete, Abort, Refuse
  <1>7. ASSUME NEW r \in Requests, SaveUpdate(r) \/ SaveMove(r) \/ Delete(r)
        PROVE  IInv' /\ StepOrStutter /\ Inserted = {}
    BY <1>2, <1>7, SaveUpdateStep, SaveMoveStep, DeleteStep
  <1>8. ASSUME NEW r \in Requests, Insert(r) \/ InsertCopies(r)
        PROVE  /\ IInv' /\ StepOrStutter
               /\ kind = "opl" => \A i \in Inserted : rows'[i].list \in Sites \/ IsLive(rows'[i].list)
    <2>1. CASE Insert(r)
      BY <2>1, InsertStep DEF Inserted
    <2>2. CASE InsertCopies(r)
      BY <2>2, InsertCopiesStep
    <2> QED
      BY <1>8, <2>1, <2>2
  <1> QED
    BY <1>1, <1>3, <1>4, <1>5, <1>6, <1>7, <1>8 DEF Next, Step

(* What the transactions have locked and read stays so until they write.    *)
THEOREM TransactionsAreApart == Spec => []IInv
  <1>1. Init => IInv
    BY ListsAssumption, FirstRowsAssumption, InitInvariant
  <1>2. IInv /\ [Next]_vars => IInv'
    BY ListsAssumption, StepInvariant
  <1> QED
    BY <1>1, <1>2, PTL DEF Spec

(* The tables, the locks and the number of requests keep their types; a     *)
(* list is always a site's or of a row there is.                            *)
THEOREM ListTypes == Spec => []TypeOK
  <1> DEFINE Counted == calls \in 0 .. MaxCalls
  <1>1. Init => Counted
    BY ListsAssumption DEF Init
  <1>2. Counted /\ [Next]_vars => Counted'
    <2> SUFFICES ASSUME Counted, [Next]_vars
                 PROVE  Counted'
      OBVIOUS
    <2>1. ASSUME NEW r \in Requests, Calls(r)
          PROVE  Counted'
      <3>1. calls < MaxCalls /\ calls' = calls + 1
        BY <2>1 DEF Calls, CallCreate, CallUpdate, CallMove, CallClone, CallDelete, Call
      <3> QED
        BY <3>1, ListsAssumption
    <2>2. ASSUME NEW r \in Requests, Step(r)
          PROVE  calls' = calls
      BY <2>2 DEF Step, ReadMaster, ShareMaster, LockLast, Insert, LockRow, SaveUpdate, FindTarget, SaveMove,
                  ReadOriginal, InsertCopies, CheckDelete, Delete, Abort, Refuse, Done
    <2> QED
      BY <2>1, <2>2 DEF Next, vars
  <1>3. IInv /\ Counted => TypeOK
    BY DEF IInv, Typed, RowsType, LocksType, TypeOK
  <1> HIDE DEF Counted
  <1> QED
    BY <1>1, <1>2, <1>3, TransactionsAreApart, PTL DEF Spec

(* A detail is inserted under an OPL that is not deleted.                   *)
THEOREM DetailsStayBelowMasters == Spec => DetailsHaveMasters
  <1>1. IInv /\ [Next]_vars =>
          [kind = "opl" => \A i \in DOMAIN rows' \ DOMAIN rows : rows'[i].list \in Sites \/ IsLive(rows'[i].list)]_vars
    BY ListsAssumption, StepInvariant DEF Inserted
  <1> QED
    BY <1>1, TransactionsAreApart, PTL DEF Spec, DetailsHaveMasters

(* What a clone will insert is what its original has when it is inserted.   *)
THEOREM CopiesStayCurrent == Spec => []CopiesAreCurrent
  <1>1. IInv => CopiesAreCurrent
    BY DEF IInv, Work, Aims, Changes, OriginalIsHeld, CopiesAreCurrent, IsLive, Exists
  <1> QED
    BY <1>1, TransactionsAreApart, PTL

(* Each transaction, whatever its statements and whoever runs beside it,    *)
(* is one step of the abstract list.                                        *)
THEOREM TransactionsAreAtomic == Spec => ImplementsList
  <1>1. Init => Abs!Init
    BY ListsAssumption, FirstRowsAssumption, InitInvariant DEF Abs!Init, Abs!Elements
  <1>2. IInv /\ [Next]_vars => [Abs!Next]_<<Places, given>>
    BY ListsAssumption, StepInvariant DEF StepOrStutter
  <1> QED
    BY <1>1, <1>2, TransactionsAreApart, PTL DEF Spec, ImplementsList, Abs!Spec

(* Whatever is added, exchanged, put elsewhere, removed and copied, two     *)
(* elements share a place only where a body has given it: the promise that  *)
(* the transactions of OrderedLists keep.                                   *)
THEOREM PlacesStayUnique ==
    ASSUME Orders \subseteq Int
    PROVE  Abs!Spec => []Abs!PlacesUnique
  <1>1. Abs!Init => AbsInv
    BY DEF Abs!Init, AbsInv, AbsDescribed, Abs!PlacesUnique
  <1>2. AbsInv /\ [Abs!Next]_<<Places, given>> => AbsInv'
    <2>1. CASE UNCHANGED <<Places, given>>
      BY <2>1 DEF AbsInv, AbsDescribed, Abs!PlacesUnique, Abs!Elements
    <2> QED
      BY <2>1, AbsNextKeeps
  <1>3. AbsInv => Abs!PlacesUnique
    BY DEF AbsInv
  <1> QED
    BY <1>1, <1>2, <1>3, PTL DEF Abs!Spec

(* However many creations, changes of order, clones and deletions run       *)
(* beside each other, two rows of a list have the same order only where a   *)
(* body has given it: the promise of the abstract list, carried over.       *)
THEOREM OrdersStayUnique == Spec => []OrdersUnique
  <1>1. Orders \subseteq Int
    BY ListsAssumption DEF ListsAssumption
  <1>2. Abs!Spec => []Abs!PlacesUnique
    BY <1>1, PlacesStayUnique
  <1>3. Abs!PlacesUnique => OrdersUnique
    BY Seen DEF Abs!PlacesUnique, OrdersUnique
  <1> QED
    BY <1>2, <1>3, TransactionsAreAtomic, PTL DEF ImplementsList

-----------------------------------------------------------------------------
(* The schedules.                                                           *)
SchedStages == {"idle", "check", "last", "insert", "read", "save", "target", "first", "second"}
SchedOps == {"none", "create", "update", "delete", "order"}
NewRow == [seq : Ids, rule : RuleType, active : BOOLEAN]
SchedReqType ==
    [at : SchedStages, op : SchedOps, id : Nat, cilt : Ids \cup {None}, row : NewRow \cup ScheduleType \cup {None},
     new : NewRow \cup OrderType \cup {None}, other : Nat, otherRow : ScheduleType \cup {None},
     todo : SUBSET Int]

(* What a request carries at each of its statements.                        *)
Carries(r) ==
    LET q == sreq[r] IN
    /\ q.at \in {"check", "last", "insert"} <=> q.op = "create"
    /\ q.op = "create" => q.row \in NewRow
    /\ q.at \in {"check", "last"} => q.todo \subseteq Nat
    /\ q.at \in {"target", "first", "second"} => q.op = "order"
    /\ q.op \in {"update", "delete", "order"} =>
         q.at \in {"read", "save", "target", "first", "second"} /\ q.id \in DOMAIN schedules
    /\ q.op = "update" => q.new \in NewRow
    /\ q.op = "order" => q.new \in OrderType
    /\ q.at \in {"save", "target", "first", "second"} => q.row \in ScheduleType
    /\ q.at = "first" =>
         q.other \in DOMAIN schedules /\ q.otherRow \in ScheduleType /\ q.otherRow.seq = q.row.seq
    /\ q.at = "idle" <=> q.op = "none"

SchedTyped ==
    /\ \E n \in 0 .. MaxSchedules : DOMAIN schedules = 1 .. n
    /\ schedules \in [DOMAIN schedules -> ScheduleType]
    /\ sreq \in [Requests -> SchedReqType]
    /\ \A r \in Requests : Carries(r)
    /\ overlapped \subseteq Requests /\ disturbed \subseteq Ids

(* Where nobody else is between the two saves of an exchange.               *)
Settled(r, seq) ==
    /\ seq \notin disturbed
    /\ \A q \in Requests \ {r} : SchedAt(q, "order", "second") => sreq[q].row.seq # seq

(* What a request has read is still so, if nobody has written since.        *)
Knows(r) ==
    LET q == sreq[r]
        row == schedules[q.id]
        old == [q.row EXCEPT !.order = row.order]
    IN
    /\ q.at = "insert" => \A s \in SchedOf(q.row.seq) : schedules[s].order \notin q.todo
    /\ q.at = "save" => q.row.order = row.order /\ (q.op = "delete" => q.row.seq = row.seq)
    /\ q.at = "target" => q.row = row
    /\ q.at = "first" =>
         /\ q.new.whole
         /\ old = row /\ q.row.order = q.new.order
         /\ schedules[q.other].seq = row.seq /\ schedules[q.other].order = q.row.order
         /\ q.otherRow = [schedules[q.other] EXCEPT !.order = row.order]
    /\ q.at = "second" => old = row
    /\ q.at = "second" /\ q.new.whole /\ Settled(r, q.row.seq) =>
         /\ \A s \in SchedOf(q.row.seq) \ {q.id} : schedules[s].order # q.row.order
         /\ \A s, t \in SchedOf(q.row.seq) \ {q.id} : schedules[s].order = schedules[t].order => s = t

SchedInv ==
    /\ SchedTyped
    /\ \A r \in Requests \ overlapped : Knows(r)
    /\ ScheduleOrdersUnique

-----------------------------------------------------------------------------
(* The query and the check of what it found name the same days.             *)
LEMMA RulesAgree ==
    ASSUME NEW rule \in RuleType, NEW d \in DateType
    PROVE  Selected(rule, d) <=> IsDue(rule, d)
  <1>1. None \notin (1 .. 12) \X (1 .. 31)
    BY SchedulesAssumption DEF SchedulesAssumption
  <1>2. <<d.month, d.day>> # None /\ d.month \in 1 .. 12 /\ d.day \in 1 .. 31
    BY <1>1 DEF DateType
  <1>3. WeekOfMonth(d) \in Int /\ WeekOfMonth(d) > 0
    BY DEF DateType, Days, WeekOfMonth
  <1>4. /\ rule.dayOfMonth \in 0 .. 31 /\ rule.weekOfMonth \in 0 .. 5 /\ rule.monthOfYear \in 0 .. 12
        /\ rule.type \in {"dai", "wee", "mon", "yea", "man"}
    BY DEF RuleType
  <1>5. /\ rule.dayOfMonth = d.day => rule.dayOfMonth > 0
        /\ rule.weekOfMonth = WeekOfMonth(d) => rule.weekOfMonth > 0
        /\ rule.monthOfYear = d.month => rule.monthOfYear > 0
    BY <1>2, <1>3
  <1> HIDE DEF WeekOfMonth
  <1>6. CASE rule.type = "dai"
    BY <1>6 DEF Selected, IsDue
  <1>7. CASE rule.type = "wee"
    BY <1>7 DEF Selected, IsDue
  <1>8. CASE rule.type = "mon"
    BY <1>5, <1>8, SMT DEF Selected, IsDue, ByDay, ByWeek
  <1>9. CASE rule.type = "yea"
    BY <1>2, <1>5, <1>9, SMT DEF Selected, IsDue, ByDay, ByWeek
  <1>10. CASE rule.type = "man"
    BY <1>10 DEF Selected, IsDue
  <1> QED
    BY <1>4, <1>6, <1>7, <1>8, <1>9, <1>10

-----------------------------------------------------------------------------
Below == {e \in Nat \X Nat : e[1] < e[2]}

LEMMA Smallest ==
    ASSUME NEW S \in SUBSET Nat, S # {}
    PROVE  \E m \in S : \A k \in S : m <= k
  <1>1. IsWellFoundedOn(Below, Nat)
    BY NatLessThanWellFounded DEF OpToRel, Below
  <1>2. PICK m \in S : \A k \in S : <<k, m>> \notin Below
    BY <1>1, WFMin
  <1>3. ASSUME NEW k \in S
        PROVE  m <= k
    <2>1. ~ (k < m)
      BY <1>2 DEF Below
    <2> QED
      BY <2>1
  <1> QED
    BY <1>3

(* Of some rows with whole numbers, one comes last.                         *)
LEMMA OneIsLast ==
    ASSUME NEW n \in Nat, NEW S \in SUBSET (1 .. n), S # {}, NEW f, \A i \in S : f[i] \in Int
    PROVE  \E i \in S : \A j \in S : f[j] <= f[i]
  <1> DEFINE Last(T) == \E i \in T : \A j \in T : f[j] <= f[i]
             Bad == {k \in Nat : \E T \in SUBSET S : T \subseteq 1 .. k /\ T # {} /\ ~Last(T)}
  <1>1. SUFFICES Bad = {}
    <2>1. n \in Nat /\ S \in SUBSET S /\ S \subseteq 1 .. n
      OBVIOUS
    <2> QED
      BY <2>1
  <1>2. SUFFICES ASSUME Bad # {}
                 PROVE  FALSE
    OBVIOUS
  <1>3. Bad \in SUBSET Nat
    OBVIOUS
  <1>4. PICK m \in Bad : \A k \in Bad : m <= k
    BY <1>2, <1>3, Smallest
  <1>5. m \in Nat
    BY <1>3
  <1>6. PICK T \in SUBSET S : T \subseteq 1 .. m /\ T # {} /\ ~Last(T)
    BY <1>4
  <1>7. \A i \in T : f[i] \in Int
    OBVIOUS
  <1> HIDE DEF Bad
  <1>8. m > 0
    <2>1. 1 .. 0 = {}
      OBVIOUS
    <2>2. m # 0
      BY <2>1, <1>6
    <2> QED
      BY <2>2, <1>5
  <1>9. CASE T \ {m} = {}
    <2>1. T = {m}
      BY <1>6, <1>9
    <2>2. f[m] <= f[m]
      BY <2>1, <1>7
    <2> QED
      BY <2>1, <2>2, <1>6
  <1>10. CASE T \ {m} # {}
    <2>1. m - 1 \in Nat /\ m - 1 < m /\ T \ {m} \in SUBSET S /\ T \ {m} \subseteq 1 .. (m - 1)
      BY <1>5, <1>6, <1>8
    <2>2. m - 1 \notin Bad
      BY <1>4, <1>5, <2>1
    <2>3. Last(T \ {m})
      BY <2>1, <2>2, <1>10 DEF Bad
    <2>4. PICK i \in T \ {m} : \A j \in T \ {m} : f[j] <= f[i]
      BY <2>3
    <2>5. CASE m \in T /\ f[m] > f[i]
      <3>1. \A j \in T : f[j] <= f[m]
        BY <2>4, <2>5, <1>7
      <3> QED
        BY <3>1, <2>5, <1>6
    <2>6. CASE m \in T => f[m] <= f[i]
      <3>1. \A j \in T : f[j] <= f[i]
        BY <2>4, <2>6
      <3> QED
        BY <3>1, <1>6
    <2>7. f[i] \in Int /\ (m \in T => f[m] \in Int)
      BY <1>7
    <2> QED
      BY <2>5, <2>6, <2>7
  <1> QED
    BY <1>9, <1>10

-----------------------------------------------------------------------------
(* What a step of one request leaves of the others'.                        *)
LEMMA OthersCarry ==
    ASSUME SchedTyped, NEW r \in Requests, NEW x \in SchedReqType, SchedGo(r, x),
           DOMAIN schedules \subseteq DOMAIN schedules'
    PROVE  /\ sreq' \in [Requests -> SchedReqType]
           /\ sreq'[r] = x /\ \A q \in Requests \ {r} : sreq'[q] = sreq[q] /\ Carries(q)'
  <1>1. sreq' \in [Requests -> SchedReqType] /\ sreq'[r] = x /\ \A q \in Requests \ {r} : sreq'[q] = sreq[q]
    BY DEF SchedTyped, SchedGo
  <1>2. ASSUME NEW q \in Requests \ {r}
        PROVE  Carries(q)'
    <2>1. sreq'[q] = sreq[q] /\ Carries(q)
      BY <1>1 DEF SchedTyped
    <2> QED
      BY <2>1 DEF Carries
  <1> QED
    BY <1>1, <1>2

(* Nothing is written: a request ends, or reads.                            *)
LEMMA SchedReadKeeps ==
    ASSUME SchedInv, NEW r \in Requests, NEW x \in SchedReqType, SchedGo(r, x),
           schedules' = schedules, overlapped \ {r} \subseteq overlapped', overlapped' \subseteq overlapped,
           disturbed \subseteq disturbed', disturbed' \subseteq Ids,
           SchedAt(r, "order", "second") => sreq[r].row.seq \in disturbed',
           Carries(r)', r \notin overlapped' => Knows(r)'
    PROVE  SchedInv'
  <1>1. SchedTyped
    BY DEF SchedInv
  <1>2. /\ sreq' \in [Requests -> SchedReqType]
        /\ sreq'[r] = x /\ \A q \in Requests \ {r} : sreq'[q] = sreq[q] /\ Carries(q)'
    BY <1>1, OthersCarry
  <1>3. SchedTyped'
    BY <1>1, <1>2 DEF SchedTyped
  <1>4. ASSUME NEW q \in Requests \ {r}, q \notin overlapped'
        PROVE  Knows(q)'
    <2>1. sreq'[q] = sreq[q] /\ Knows(q)
      BY <1>2, <1>4 DEF SchedInv
    <2>2. ASSUME NEW seq, Settled(q, seq)'
          PROVE  Settled(q, seq)
      BY <1>2, <2>2 DEF Settled, SchedAt
    <2>3. \A seq : SchedOf(seq)' = SchedOf(seq)
      BY DEF SchedOf
    <2> QED
      BY <2>1, <2>2, <2>3 DEF Knows
  <1>5. disturbed \cup Exchanging \subseteq disturbed' \cup Exchanging'
    BY <1>2 DEF Exchanging, SchedAt
  <1>6. ScheduleOrdersUnique'
    BY <1>5 DEF SchedInv, ScheduleOrdersUnique
  <1> QED
    BY <1>3, <1>4, <1>6 DEF SchedInv

(* Rows are written: who runs meanwhile does not know them.                 *)
LEMMA SchedWriteKeeps ==
    ASSUME SchedInv, NEW r \in Requests, NEW x \in SchedReqType, SchedGo(r, x),
           NEW table, NEW seqs, NEW disturbing, SchedWrite(r, table, seqs, disturbing),
           \E n \in 0 .. MaxSchedules : DOMAIN table = 1 .. n, DOMAIN schedules \subseteq DOMAIN table,
           table \in [DOMAIN table -> ScheduleType], seqs \subseteq Ids, disturbing \subseteq Ids,
           Carries(r)', r \notin overlapped => Knows(r)', ScheduleOrdersUnique'
    PROVE  SchedInv'
  <1>1. /\ schedules' = table /\ overlapped' = overlapped \cup (SchedRunning \ {r})
        /\ disturbed' \subseteq disturbed \cup disturbing \cup seqs
    BY DEF SchedWrite
  <1>2. SchedTyped
    BY DEF SchedInv
  <1>3. /\ sreq' \in [Requests -> SchedReqType]
        /\ sreq'[r] = x /\ \A q \in Requests \ {r} : sreq'[q] = sreq[q] /\ Carries(q)'
    BY <1>1, <1>2, OthersCarry
  <1>4. overlapped' \subseteq Requests /\ disturbed' \subseteq Ids
    BY <1>1, <1>2 DEF SchedTyped, SchedRunning
  <1>5. SchedTyped'
    BY <1>1, <1>3, <1>4 DEF SchedTyped
  <1>6. ASSUME NEW q \in Requests \ {r}, q \notin overlapped'
        PROVE  Knows(q)'
    <2>1. sreq'[q].at = "idle"
      BY <1>1, <1>3, <1>6 DEF SchedRunning
    <2> QED
      BY <2>1 DEF Knows
  <1> QED
    BY <1>1, <1>5, <1>6 DEF SchedInv

(* One row is written or added: its order must be free, or the sequence disturbed. *)
LEMMA OneRowWritten ==
    ASSUME SchedInv, NEW i, NEW x,
           schedules' = [s \in DOMAIN schedules \cup {i} |-> IF s = i THEN x ELSE schedules[s]],
           disturbed \cup Exchanging \subseteq disturbed' \cup Exchanging',
           \/ x.seq \in disturbed' \cup Exchanging'
           \/ \A t \in SchedOf(x.seq) \ {i} : schedules[t].order # x.order
    PROVE  ScheduleOrdersUnique'
  <1> SUFFICES ASSUME NEW s \in DOMAIN schedules', NEW t \in DOMAIN schedules', s # t,
                      schedules'[s].seq = schedules'[t].seq, schedules'[s].order = schedules'[t].order
               PROVE  schedules'[s].seq \in disturbed' \cup Exchanging'
    BY DEF ScheduleOrdersUnique
  <1>1. CASE s # i /\ t # i
    BY <1>1 DEF SchedInv, ScheduleOrdersUnique
  <1>2. CASE s = i
    BY <1>2 DEF SchedOf
  <1>3. CASE t = i
    BY <1>3 DEF SchedOf
  <1> QED
    BY <1>1, <1>2, <1>3

-----------------------------------------------------------------------------
(* The steps of the requests.                                               *)

(* A request is called: it knows nothing yet.                               *)
LEMMA CalledKeeps ==
    ASSUME SchedInv, NEW r \in Requests, NEW x \in SchedReqType, SchedCall(r, x),
           \/ x.op = "create" /\ x.at = "check" /\ x.row \in NewRow /\ x.todo \subseteq Nat
           \/ /\ x.op \in {"update", "delete", "order"} /\ x.at = "read" /\ x.id \in DOMAIN schedules
              /\ x.op = "update" => x.new \in NewRow
              /\ x.op = "order" => x.new \in OrderType
    PROVE  SchedInv'
  <1>1. /\ SchedGo(r, x) /\ schedules' = schedules /\ overlapped' = overlapped \ {r} /\ disturbed' = disturbed
        /\ sreq[r].at = "idle"
    BY DEF SchedCall, SchedRunning
  <1>2. SchedTyped /\ disturbed' \subseteq Ids
    BY <1>1 DEF SchedInv, SchedTyped
  <1>3. sreq'[r] = x
    BY <1>1, <1>2, OthersCarry
  <1>4. Carries(r)' /\ Knows(r)'
    BY <1>1, <1>3 DEF Carries, Knows
  <1> QED
    BY <1>1, <1>2, <1>4, SchedReadKeeps DEF SchedAt

LEMMA SchedIdleType == SchedIdle \in SchedReqType /\ SchedIdle.at = "idle" /\ SchedIdle.op = "none"
BY DEF SchedIdle, SchedReqType, SchedStages, SchedOps

LEMMA SchedCallsKeep ==
    ASSUME SchedInv, DOMAIN rows \subseteq Ids, NEW r \in Requests, SchedCalls(r)
    PROVE  SchedInv'
  <1>1. DOMAIN rows \subseteq Ids /\ Rules \subseteq RuleType /\ NewOrders \subseteq OrderType
    BY SchedulesAssumption, ListsAssumption DEF SchedulesAssumption, ListsAssumption
  <1>2. MaxTimes \in Nat /\ \A n \in 1 .. MaxTimes : 0 .. n - 1 \in SUBSET Nat
    BY SchedulesAssumption DEF SchedulesAssumption
  <1>3. DOMAIN schedules \subseteq Nat
    BY DEF SchedInv, SchedTyped
  <1>4. ASSUME NEW cilt \in DOMAIN rows \cup {None}, NEW seq \in DOMAIN rows, NEW rule \in Rules,
               NEW active \in BOOLEAN, NEW times \in 1 .. MaxTimes,
               CallCreateSched(r, cilt, seq, rule, active, times)
        PROVE  SchedInv'
    <2> DEFINE new == [seq |-> seq, rule |-> rule, active |-> active]
               x == [SchedIdle EXCEPT !.op = "create", !.at = "check", !.cilt = cilt, !.todo = 0 .. times - 1,
                                      !.row = new]
    <2>1. new \in NewRow
      BY <1>1 DEF NewRow
    <2>2. x \in SchedReqType /\ x.op = "create" /\ x.at = "check" /\ x.row \in NewRow /\ x.todo \subseteq Nat
      <3>1. 0 .. times - 1 \in SUBSET Nat /\ 0 .. times - 1 \in SUBSET Int
        BY <1>2
      <3> DEFINE all == 0 .. times - 1
      <3> HIDE DEF all, new
      <3> QED
        BY <1>1, <2>1, <3>1 DEF SchedIdle, SchedReqType, SchedStages, SchedOps, all
    <2>3. SchedCall(r, x)
      BY <1>4 DEF CallCreateSched
    <2> HIDE DEF x
    <2> QED
      BY <2>2, <2>3, CalledKeeps
  <1>5. ASSUME NEW id \in DOMAIN schedules, NEW cilt \in DOMAIN rows \cup {None},
               NEW seq \in DOMAIN rows, NEW rule \in Rules,
               NEW active \in BOOLEAN, CallUpdateSched(r, id, cilt, seq, rule, active)
        PROVE  SchedInv'
    <2> DEFINE new == [seq |-> seq, rule |-> rule, active |-> active]
               x == [SchedIdle EXCEPT !.op = "update", !.at = "read", !.id = id, !.cilt = cilt, !.new = new]
    <2>1. SchedCall(r, x)
      BY <1>5 DEF CallUpdateSched
    <2>2. new \in NewRow
      BY <1>1 DEF NewRow
    <2> HIDE DEF new
    <2>3. x \in SchedReqType /\ x.op = "update" /\ x.at = "read" /\ x.id = id /\ x.new = new
      BY <1>1, <1>3, <2>2 DEF SchedIdle, SchedReqType, SchedStages, SchedOps
    <2> HIDE DEF x
    <2> QED
      BY <2>1, <2>2, <2>3, CalledKeeps
  <1>6. ASSUME NEW id \in DOMAIN schedules, CallDeleteSched(r, id)
        PROVE  SchedInv'
    <2> DEFINE x == [SchedIdle EXCEPT !.op = "delete", !.at = "read", !.id = id]
    <2>1. SchedCall(r, x)
      BY <1>6 DEF CallDeleteSched
    <2>2. x \in SchedReqType /\ x.op = "delete" /\ x.at = "read" /\ x.id = id
      BY <1>3 DEF SchedIdle, SchedReqType, SchedStages, SchedOps
    <2> HIDE DEF x
    <2> QED
      BY <2>1, <2>2, CalledKeeps
  <1>7. ASSUME NEW id \in DOMAIN schedules, NEW new \in NewOrders, CallOrderSched(r, id, new)
        PROVE  SchedInv'
    <2> DEFINE x == [SchedIdle EXCEPT !.op = "order", !.at = "read", !.id = id, !.new = new]
    <2>1. SchedCall(r, x)
      BY <1>7 DEF CallOrderSched
    <2>2. x \in SchedReqType /\ x.op = "order" /\ x.at = "read" /\ x.id = id /\ x.new \in OrderType
      BY <1>1, <1>3 DEF SchedIdle, SchedReqType, SchedStages, SchedOps
    <2> HIDE DEF x
    <2> QED
      BY <2>1, <2>2, CalledKeeps
  <1>8. /\ SequencesNamed \subseteq DOMAIN rows
        /\ MastersNamed \subseteq DOMAIN rows \cup {None}
    BY DEF SequencesNamed, MastersNamed
  <1> QED
    BY <1>4, <1>5, <1>6, <1>7, <1>8, ZenonT(60) DEF SchedCalls

(* A request that ends without a write.                                     *)
LEMMA SchedEndKeeps ==
    ASSUME SchedInv, NEW r \in Requests, SchedGo(r, SchedIdle), UNCHANGED <<schedules, overlapped>>,
           disturbed \subseteq disturbed', disturbed' \subseteq Ids,
           SchedAt(r, "order", "second") => sreq[r].row.seq \in disturbed'
    PROVE  SchedInv'
  <1>1. sreq'[r] = SchedIdle
    BY OthersCarry, SchedIdleType DEF SchedInv
  <1>2. Carries(r)' /\ Knows(r)'
    BY <1>1, SchedIdleType DEF Carries, Knows
  <1> QED
    BY <1>2, SchedReadKeeps, SchedIdleType

LEMMA SchedRefuseKeeps ==
    ASSUME SchedInv, NEW r \in Requests, sreq[r].at # "second", SchedRefuse(r)
    PROVE  SchedInv'
BY SchedEndKeeps DEF SchedRefuse, SchedRead, SchedAt, SchedInv, SchedTyped

(* A request that reads, and goes on.                                       *)
LEMMA SchedGoesOn ==
    ASSUME SchedInv, NEW r \in Requests, sreq[r].at # "second", NEW x \in SchedReqType, SchedRead(r, x),
           Carries(r)', r \notin overlapped => Knows(r)'
    PROVE  SchedInv'
BY SchedReadKeeps DEF SchedRead, SchedAt, SchedInv, SchedTyped

LEMMA SchedFailKeeps ==
    ASSUME SchedInv, NEW r \in Requests, SchedFail(r)
    PROVE  SchedInv'
  <1>1. SchedAt(r, "order", "second") => sreq[r].row.seq \in Ids
    BY DEF SchedInv, SchedTyped, Carries, SchedAt, ScheduleType
  <1> QED
    BY <1>1, SchedEndKeeps DEF SchedFail, SchedInv, SchedTyped

LEMMA CheckSequenceKeeps ==
    ASSUME SchedInv, NEW r \in Requests, CheckSequence(r)
    PROVE  SchedInv'
  <1> DEFINE q == sreq[r]
             x == [q EXCEPT !.at = "last", !.cilt = None]
  <1>1. q \in SchedReqType /\ q.op = "create" /\ q.at = "check" /\ Carries(r)
    BY DEF CheckSequence, SchedAt, SchedInv, SchedTyped
  <1>2. x \in SchedReqType /\ x.op = "create" /\ x.at = "last" /\ x.row = q.row /\ x.todo = q.todo
    BY <1>1 DEF SchedReqType, SchedStages
  <1>3. ASSUME SchedRead(r, x)
        PROVE  SchedInv'
    <2> HIDE DEF x
    <2>1. sreq'[r] = x
      BY <1>2, <1>3, OthersCarry DEF SchedRead, SchedInv
    <2>2. Carries(r)' /\ Knows(r)'
      BY <1>1, <1>2, <2>1 DEF Carries, Knows
    <2> QED
      BY <1>1, <1>2, <1>3, <2>2, SchedGoesOn
  <1> QED
    BY <1>1, <1>3, SchedRefuseKeeps DEF CheckSequence

(* The orders to insert begin past the last of the sequence.                *)
LEMMA ReadLastKeeps ==
    ASSUME SchedInv, NEW r \in Requests, ReadLast(r)
    PROVE  SchedInv'
  <1> DEFINE q == sreq[r]
             orders == {schedules[s].order : s \in SchedOf(q.row.seq)}
             first == IF orders = {} THEN 1 ELSE 1 + CHOOSE o \in orders : \A p \in orders : p <= o
             todo == {first + k : k \in q.todo}
             x == [q EXCEPT !.at = "insert", !.todo = todo]
  <1>1. q \in SchedReqType /\ q.op = "create" /\ q.at = "last" /\ Carries(r)
    BY DEF ReadLast, SchedAt, SchedInv, SchedTyped
  <1>2. q.row \in NewRow /\ q.todo \subseteq Int
    BY <1>1 DEF Carries, SchedReqType
  <1>3. first \in Int /\ \A s \in SchedOf(q.row.seq) : schedules[s].order \in Int /\ schedules[s].order < first
    <2>1. PICK n \in 0 .. MaxSchedules : DOMAIN schedules = 1 .. n
      BY DEF SchedInv, SchedTyped
    <2>2. SchedOf(q.row.seq) \in SUBSET (1 .. n) /\ n \in Nat
      BY <2>1 DEF SchedOf
    <2>3. \A s \in SchedOf(q.row.seq) : schedules[s].order \in Int
      BY ListsAssumption DEF SchedOf, SchedInv, SchedTyped, ScheduleType, ListsAssumption
    <2>4. CASE orders = {}
      BY <2>4
    <2>5. CASE orders # {}
      <3> DEFINE f == [s \in SchedOf(q.row.seq) |-> schedules[s].order]
      <3>1. SchedOf(q.row.seq) # {} /\ \A s \in SchedOf(q.row.seq) : f[s] = schedules[s].order /\ f[s] \in Int
        BY <2>3, <2>5
      <3> HIDE DEF f
      <3>2. PICK i \in SchedOf(q.row.seq) : \A j \in SchedOf(q.row.seq) : f[j] <= f[i]
        BY <2>2, <3>1, OneIsLast
      <3>3. schedules[i].order \in orders /\ \A p \in orders : p <= schedules[i].order
        BY <3>1, <3>2
      <3> DEFINE last == CHOOSE o \in orders : \A p \in orders : p <= o
      <3>4. last \in orders /\ \A p \in orders : p <= last
        BY <3>3
      <3>5. last \in Int /\ first = 1 + last
        BY <2>3, <2>5, <3>4
      <3> HIDE DEF last, first
      <3>6. ASSUME NEW s \in SchedOf(q.row.seq)
            PROVE  schedules[s].order < first
        <4>1. schedules[s].order <= last /\ schedules[s].order \in Int
          BY <3>4, <2>3
        <4> QED
          BY <4>1, <3>5
      <3> QED
        BY <2>3, <3>5, <3>6
    <2> QED
      BY <2>4, <2>5
  <1> HIDE DEF first
  <1>4. todo \subseteq Int
    BY <1>2, <1>3
  <1>5. ASSUME NEW s \in SchedOf(q.row.seq)
        PROVE  schedules[s].order \notin todo
    <2> SUFFICES ASSUME NEW k \in q.todo, schedules[s].order = first + k
                 PROVE  FALSE
      OBVIOUS
    <2>1. schedules[s].order \in Int /\ schedules[s].order < first /\ first \in Int /\ k \in Nat
      BY <1>1, <1>3 DEF Carries
    <2> QED
      BY <2>1
  <1>6. SchedRead(r, x)
    BY DEF ReadLast, first
  <1> HIDE DEF todo
  <1>7. x \in SchedReqType /\ x.op = "create" /\ x.at = "insert" /\ x.row = q.row /\ x.todo = todo
    BY <1>1, <1>4 DEF SchedReqType, SchedStages
  <1> HIDE DEF x
  <1>8. sreq'[r] = x /\ schedules' = schedules
    BY <1>6, <1>7, OthersCarry DEF SchedRead, SchedInv
  <1>9. Carries(r)' /\ Knows(r)'
    BY <1>2, <1>5, <1>7, <1>8 DEF Carries, Knows, SchedOf
  <1> QED
    BY <1>1, <1>6, <1>7, <1>9, SchedGoesOn

LEMMA InsertSchedKeeps ==
    ASSUME SchedInv, NEW r \in Requests, InsertSched(r)
    PROVE  SchedInv'
  <1> DEFINE q == sreq[r]
  <1>1. q \in SchedReqType /\ q.op = "create" /\ q.at = "insert" /\ Carries(r)
    BY DEF InsertSched, SchedAt, SchedInv, SchedTyped
  <1>2. q.row \in NewRow
    BY <1>1 DEF Carries
  <1>3. PICK o \in q.todo :
           LET y == [q EXCEPT !.todo = @ \ {o}]
               id == Cardinality(DOMAIN schedules) + 1
               row == [seq |-> y.row.seq, order |-> o, rule |-> y.row.rule, active |-> y.row.active]
           IN  /\ SchedGo(r, IF y.todo = {} THEN SchedIdle ELSE y)
               /\ IF o \in Orders
                  THEN /\ id \in ScheduleIds
                       /\ SchedWrite(r, [s \in DOMAIN schedules \cup {id} |-> IF s = id THEN row ELSE schedules[s]],
                                     {row.seq}, {})
                  ELSE UNCHANGED <<schedules, schedCalls, overlapped, disturbed>>
    BY DEF InsertSched
  <1> DEFINE y == [q EXCEPT !.todo = @ \ {o}]
             x == IF y.todo = {} THEN SchedIdle ELSE y
             id == Cardinality(DOMAIN schedules) + 1
             row == [seq |-> y.row.seq, order |-> o, rule |-> y.row.rule, active |-> y.row.active]
             table == [s \in DOMAIN schedules \cup {id} |-> IF s = id THEN row ELSE schedules[s]]
  <1>4. y \in SchedReqType /\ y.op = "create" /\ y.at = "insert" /\ y.row = q.row /\ y.todo = q.todo \ {o}
    BY <1>1 DEF SchedReqType
  <1>5. SchedGo(r, x)
    BY <1>3
  <1>6. IF o \in Orders THEN id \in ScheduleIds /\ SchedWrite(r, table, {row.seq}, {})
        ELSE UNCHANGED <<schedules, schedCalls, overlapped, disturbed>>
    BY <1>3
  <1> HIDE DEF y
  <1>7. x \in SchedReqType /\ (x = SchedIdle \/ x = y)
    BY <1>4, SchedIdleType
  <1> HIDE DEF x
  <1>8. DOMAIN schedules \subseteq DOMAIN schedules'
    BY <1>6 DEF SchedWrite
  <1>9. sreq'[r] = x
    BY <1>5, <1>7, <1>8, OthersCarry DEF SchedInv
  <1>10. Carries(r)'
    BY <1>2, <1>4, <1>7, <1>9, SchedIdleType DEF Carries
  <1>11. CASE o \notin Orders
    <2>1. r \notin overlapped => Knows(r)'
      <3>1. x = SchedIdle => Knows(r)'
        BY <1>9, SchedIdleType DEF Knows
      <3>2. ASSUME x = y, r \notin overlapped
            PROVE  Knows(r)'
        <4>1. schedules' = schedules /\ Knows(r)
          BY <1>6, <1>11, <3>2 DEF SchedInv
        <4> QED
          BY <1>1, <1>4, <1>9, <3>2, <4>1 DEF Knows, SchedOf
      <3> QED
        BY <1>7, <3>1, <3>2
    <2> QED
      BY <1>1, <1>5, <1>6, <1>7, <1>10, <1>11, <2>1, SchedReadKeeps DEF SchedAt, SchedInv, SchedTyped
  <1>12. CASE o \in Orders
    <2>1. PICK n \in 0 .. MaxSchedules : DOMAIN schedules = 1 .. n
      BY DEF SchedInv, SchedTyped
    <2>2. n \in Nat /\ MaxSchedules \in Nat
      BY SchedulesAssumption DEF SchedulesAssumption
    <2>3. id = n + 1
      <3>1. Cardinality(1 .. n) = n
        BY <2>2, FS_Interval
      <3> QED
        BY <2>1, <3>1
    <2> HIDE DEF id
    <2>4. id \in 1 .. MaxSchedules /\ SchedWrite(r, table, {row.seq}, {})
      BY <1>6, <1>12 DEF ScheduleIds
    <2>5. id \in 0 .. MaxSchedules /\ DOMAIN table = 1 .. id /\ id \notin DOMAIN schedules
      BY <2>1, <2>2, <2>3, <2>4
    <2>6. row \in ScheduleType /\ row.seq = q.row.seq /\ row.order = o /\ row.seq \in Ids
      BY <1>2, <1>4, <1>12 DEF NewRow, ScheduleType
    <2> HIDE DEF row
    <2>7. table \in [DOMAIN table -> ScheduleType]
      BY <2>6 DEF SchedInv, SchedTyped
    <2>8. schedules' = table
      BY <2>4 DEF SchedWrite
    <2>9. ASSUME r \notin overlapped
          PROVE  /\ \A t \in SchedOf(row.seq) : schedules[t].order # row.order
                 /\ Knows(r)'
      <3>1. \A t \in SchedOf(q.row.seq) : schedules[t].order \notin q.todo
        BY <1>1, <2>9 DEF SchedInv, Knows
      <3>2. \A t \in SchedOf(row.seq) : schedules[t].order # row.order
        BY <3>1, <2>6
      <3>3. ASSUME x = y
            PROVE  Knows(r)'
        <4>1. ASSUME NEW s \in DOMAIN schedules', schedules'[s].seq = q.row.seq
              PROVE  schedules'[s].order \notin q.todo \ {o}
          BY <2>6, <2>8, <3>1, <4>1 DEF SchedOf
        <4> QED
          BY <4>1, <1>4, <1>9, <3>3 DEF Knows, SchedOf
      <3>4. x = SchedIdle => Knows(r)'
        BY <1>9, SchedIdleType DEF Knows
      <3> QED
        BY <1>7, <3>2, <3>3, <3>4
    <2>10. ScheduleOrdersUnique'
      <3>1. r \in overlapped => row.seq \in disturbed'
        BY <2>4 DEF SchedWrite
      <3>2. disturbed \cup Exchanging \subseteq disturbed' \cup Exchanging'
        <4>1. \A p \in Requests \ {r} : sreq'[p] = sreq[p]
          BY <1>5, <1>7, <1>8, OthersCarry DEF SchedInv
        <4>2. ~SchedAt(r, "order", "second")
          BY <1>1 DEF SchedAt
        <4> QED
          BY <2>4, <4>1, <4>2 DEF SchedWrite, Exchanging, SchedAt
      <3>3. \/ row.seq \in disturbed' \cup Exchanging'
            \/ \A t \in SchedOf(row.seq) \ {id} : schedules[t].order # row.order
        BY <3>1, <2>9
      <3> QED
        BY <2>8, <3>2, <3>3, OneRowWritten
    <2>11. DOMAIN schedules \subseteq DOMAIN table /\ {row.seq} \subseteq Ids
      BY <2>6
    <2> HIDE DEF table
    <2> QED
      BY <1>5, <1>7, <1>10, <2>4, <2>5, <2>7, <2>9, <2>10, <2>11, SchedWriteKeeps
  <1> QED
    BY <1>11, <1>12

(* A request reads the schedule that it is about.                           *)
LEMMA ReadSchedKeeps ==
    ASSUME SchedInv, NEW r \in Requests, ReadSched(r)
    PROVE  SchedInv'
  <1> DEFINE q == sreq[r]
             row == schedules[q.id]
  <1>1. q \in SchedReqType /\ q.at = "read" /\ Carries(r)
    BY DEF ReadSched, SchedInv, SchedTyped
  <1>2. /\ q.op \in {"update", "delete", "order"} /\ q.id \in DOMAIN schedules
        /\ q.op = "update" => q.new \in NewRow
    BY <1>1 DEF Carries, SchedReqType, SchedOps
  <1>3. row \in ScheduleType
    BY <1>2 DEF SchedInv, SchedTyped
  <1>4. ASSUME NEW x \in SchedReqType, SchedRead(r, x), x.op = q.op, x.id = q.id, x.new = q.new,
               x.row \in ScheduleType, x.row.order = row.order,
               \/ x.at = "save" /\ x.op = "update"
               \/ x.at = "save" /\ x.op = "delete" /\ x.row.seq = row.seq
               \/ x.at = "target" /\ x.op = "order" /\ x.row = row
        PROVE  SchedInv'
    <2>1. sreq'[r] = x /\ schedules' = schedules
      BY <1>4, OthersCarry DEF SchedRead, SchedInv
    <2>2. Carries(r)' /\ Knows(r)'
      BY <1>1, <1>2, <1>4, <2>1 DEF Carries, Knows
    <2> QED
      BY <1>1, <1>4, <2>2, SchedGoesOn
  <1>5. CASE q.op = "order"
    <2> DEFINE x == [q EXCEPT !.at = "target", !.row = row]
    <2>1. SchedRead(r, x)
      BY <1>5 DEF ReadSched
    <2> HIDE DEF row
    <2>2. x \in SchedReqType /\ x.op = q.op /\ x.id = q.id /\ x.new = q.new /\ x.row = row /\ x.at = "target"
      BY <1>1, <1>3 DEF SchedReqType, SchedStages
    <2> HIDE DEF x
    <2> QED
      BY <1>3, <1>4, <1>5, <2>1, <2>2
  <1>6. CASE q.op = "delete"
    <2> DEFINE new == [row EXCEPT !.active = FALSE]
               x == [q EXCEPT !.at = "save", !.row = new]
    <2>1. SchedRead(r, x)
      BY <1>6 DEF ReadSched
    <2> HIDE DEF row
    <2>2. new \in ScheduleType /\ new.order = row.order /\ new.seq = row.seq
      BY <1>3 DEF ScheduleType
    <2> HIDE DEF new
    <2>3. x \in SchedReqType /\ x.op = q.op /\ x.id = q.id /\ x.new = q.new /\ x.row = new /\ x.at = "save"
      BY <1>1, <2>2 DEF SchedReqType, SchedStages
    <2> HIDE DEF x
    <2> QED
      BY <1>4, <1>6, <2>1, <2>2, <2>3
  <1>7. CASE q.op = "update"
    <2> DEFINE new == [row EXCEPT !.rule = q.new.rule, !.active = q.new.active,
                                  !.seq = q.new.seq]
               x == [q EXCEPT !.at = "save", !.row = new]
    <2>1. SchedRead(r, x)
      BY <1>7 DEF ReadSched
    <2> HIDE DEF row
    <2>2. new \in ScheduleType /\ new.order = row.order
      <3>1. q.new.rule \in RuleType /\ q.new.active \in BOOLEAN /\ q.new.seq \in Ids
        BY <1>2, <1>7 DEF NewRow
      <3> QED
        BY <1>3, <3>1 DEF ScheduleType
    <2> HIDE DEF new
    <2>3. x \in SchedReqType /\ x.op = q.op /\ x.id = q.id /\ x.new = q.new /\ x.row = new /\ x.at = "save"
      BY <1>1, <2>2 DEF SchedReqType, SchedStages
    <2> HIDE DEF x
    <2> QED
      BY <1>4, <1>7, <2>1, <2>2, <2>3
  <1> QED
    BY <1>2, <1>5, <1>6, <1>7

(* An update leaves the order, and a sequence that it changes is disturbed. *)
LEMMA SaveSchedKeeps ==
    ASSUME SchedInv, NEW r \in Requests, SaveSched(r)
    PROVE  SchedInv'
  <1> DEFINE q == sreq[r]
             moved == schedules[q.id].seq # q.row.seq
             table == [schedules EXCEPT ![q.id] = q.row]
             disturbing == IF moved THEN {q.row.seq} ELSE {}
  <1>1. q \in SchedReqType /\ q.op \in {"update", "delete"} /\ q.at = "save" /\ Carries(r)
    BY DEF SaveSched, SchedInv, SchedTyped
  <1>2. q.id \in DOMAIN schedules /\ q.row \in ScheduleType
    BY <1>1 DEF Carries
  <1>3. q.row.seq \in Ids
    BY <1>2 DEF ScheduleType
  <1>4. ASSUME SchedWrite(r, table, {q.row.seq}, disturbing), SchedGo(r, SchedIdle)
        PROVE  SchedInv'
    <2>1. DOMAIN table = DOMAIN schedules /\ table \in [DOMAIN table -> ScheduleType]
      BY <1>2 DEF SchedInv, SchedTyped
    <2>2. schedules' = [s \in DOMAIN schedules \cup {q.id} |-> IF s = q.id THEN q.row ELSE schedules[s]]
      BY <1>2, <1>4 DEF SchedWrite, SchedInv, SchedTyped
    <2>3. DOMAIN schedules \subseteq DOMAIN schedules'
      BY <2>2
    <2>4. sreq'[r] = SchedIdle /\ \A p \in Requests \ {r} : sreq'[p] = sreq[p]
      BY <1>4, <2>3, OthersCarry, SchedIdleType DEF SchedInv
    <2>5. Carries(r)' /\ Knows(r)'
      BY <2>4, SchedIdleType DEF Carries, Knows
    <2>6. ScheduleOrdersUnique'
      <3>1. disturbed \cup Exchanging \subseteq disturbed' \cup Exchanging'
        BY <1>1, <1>4, <2>4 DEF SchedWrite, Exchanging, SchedAt
      <3>2. CASE r \in overlapped
        <4>1. q.row.seq \in disturbed'
          BY <1>4, <3>2 DEF SchedWrite
        <4> QED
          BY <2>2, <3>1, <4>1, OneRowWritten
      <3>3. CASE r \notin overlapped /\ moved
        <4>1. q.row.seq \in disturbed'
          BY <1>4, <3>3 DEF SchedWrite
        <4> QED
          BY <2>2, <3>1, <4>1, OneRowWritten
      <3>4. CASE r \notin overlapped /\ ~moved
        <4>1. q.row.order = schedules[q.id].order /\ q.row.seq = schedules[q.id].seq
          BY <1>1, <3>4 DEF SchedInv, Knows
        <4>2. ASSUME q.row.seq \notin disturbed \cup Exchanging, NEW t \in SchedOf(q.row.seq) \ {q.id}
              PROVE  schedules[t].order # q.row.order
          BY <1>2, <4>1, <4>2 DEF SchedInv, ScheduleOrdersUnique, SchedOf
        <4>3. \/ q.row.seq \in disturbed' \cup Exchanging'
              \/ \A t \in SchedOf(q.row.seq) \ {q.id} : schedules[t].order # q.row.order
          BY <3>1, <4>2
        <4> QED
          BY <2>2, <3>1, <4>3, OneRowWritten
      <3> QED
        BY <3>2, <3>3, <3>4
    <2>7. /\ \E n \in 0 .. MaxSchedules : DOMAIN table = 1 .. n
          /\ DOMAIN schedules \subseteq DOMAIN table
          /\ {q.row.seq} \subseteq Ids /\ disturbing \subseteq Ids
      BY <1>3, <2>1 DEF SchedInv, SchedTyped
    <2> HIDE DEF table, disturbing
    <2> QED
      BY <1>4, <2>1, <2>5, <2>6, <2>7, SchedWriteKeeps, SchedIdleType
  <1>5. SchedRefuse(r) \/ (SchedWrite(r, table, {q.row.seq}, disturbing) /\ SchedGo(r, SchedIdle))
    BY DEF SaveSched
  <1> QED
    BY <1>1, <1>4, <1>5, SchedRefuseKeeps

(* The exchange: what has the new order is found.                           *)
LEMMA FindOtherKeeps ==
    ASSUME SchedInv, NEW r \in Requests, FindOther(r)
    PROVE  SchedInv'
  <1> DEFINE q == sreq[r]
             others == {s \in SchedOf(q.row.seq) : q.new.whole /\ schedules[s].order = q.new.order}
             row == [q.row EXCEPT !.order = q.new.order]
  <1>1. q \in SchedReqType /\ q.op = "order" /\ q.at = "target" /\ Carries(r)
    BY DEF FindOther, SchedAt, SchedInv, SchedTyped
  <1>2. q.id \in DOMAIN schedules /\ q.row \in ScheduleType /\ q.new \in OrderType
    BY <1>1 DEF Carries
  <1>3. CASE q.new.order \notin Orders
    BY <1>1, <1>3, SchedRefuseKeeps DEF FindOther
  <1>4. ASSUME q.new.order \in Orders
        PROVE  /\ row \in ScheduleType /\ row.order = q.new.order /\ row.seq = q.row.seq
               /\ [row EXCEPT !.order = q.row.order] = q.row
               /\ q.row.order \in Orders
    BY <1>2, <1>4 DEF ScheduleType
  <1>5. r \notin overlapped => q.row = schedules[q.id]
    BY <1>1 DEF SchedInv, Knows
  <1>6. CASE q.new.order \in Orders /\ others = {}
    <2> DEFINE x == [q EXCEPT !.at = "second", !.row = row]
    <2>1. SchedRead(r, x)
      BY <1>6 DEF FindOther
    <2> HIDE DEF row
    <2>2. /\ x \in SchedReqType /\ x.op = "order" /\ x.id = q.id /\ x.new = q.new /\ x.row = row
          /\ x.at = "second"
      BY <1>1, <1>4, <1>6 DEF SchedReqType, SchedStages
    <2> HIDE DEF x
    <2>3. sreq'[r] = x /\ schedules' = schedules /\ \A p \in Requests \ {r} : sreq'[p] = sreq[p]
      BY <2>1, <2>2, OthersCarry DEF SchedRead, SchedInv
    <2>4. Carries(r)'
      BY <1>2, <1>4, <1>6, <2>2, <2>3 DEF Carries
    <2>5. ASSUME r \notin overlapped
          PROVE  Knows(r)'
      <3>1. [row EXCEPT !.order = schedules[q.id].order] = schedules[q.id]
        BY <1>4, <1>5, <1>6, <2>5
      <3>2. ASSUME q.new.whole, NEW seq, seq = q.row.seq, Settled(r, seq)'
            PROVE  /\ \A s \in SchedOf(q.row.seq) : schedules[s].order # q.new.order
                   /\ \A s, t \in SchedOf(q.row.seq) : schedules[s].order = schedules[t].order => s = t
        <4>1. q.row.seq \notin disturbed \cup Exchanging
          BY <1>1, <2>1, <2>3, <3>2 DEF Settled, SchedAt, Exchanging, SchedRead
        <4> QED
          BY <1>6, <3>2, <4>1 DEF SchedInv, ScheduleOrdersUnique, SchedOf
      <3>3. \A seq : SchedOf(seq)' = SchedOf(seq)
        BY <2>3 DEF SchedOf
      <3>4. row.seq = q.row.seq /\ row.order = q.new.order
        BY <1>4, <1>6
      <3> QED
        BY <2>2, <2>3, <3>1, <3>2, <3>3, <3>4 DEF Knows
    <2> QED
      BY <1>1, <2>1, <2>2, <2>4, <2>5, SchedGoesOn
  <1>7. CASE q.new.order \in Orders /\ others # {}
    <2>1. PICK s \in others :
            SchedRead(r, [q EXCEPT !.at = "first", !.row = row, !.other = s,
                                   !.otherRow = [schedules[s] EXCEPT !.order = q.row.order]])
      BY <1>7 DEF FindOther
    <2> DEFINE otherRow == [schedules[s] EXCEPT !.order = q.row.order]
               x == [q EXCEPT !.at = "first", !.row = row, !.other = s, !.otherRow = otherRow]
    <2>2. SchedRead(r, x)
      BY <2>1
    <2>3. /\ s \in DOMAIN schedules /\ schedules[s] \in ScheduleType /\ schedules[s].seq = q.row.seq
          /\ q.new.whole /\ schedules[s].order = q.new.order
      BY <2>1 DEF SchedOf, SchedInv, SchedTyped
    <2>4. s \in Nat
      BY <2>3 DEF SchedInv, SchedTyped
    <2>5. otherRow \in ScheduleType /\ otherRow.seq = q.row.seq
      BY <1>4, <1>7, <2>3 DEF ScheduleType
    <2> HIDE DEF row, otherRow
    <2>6. /\ x \in SchedReqType /\ x.op = "order" /\ x.id = q.id /\ x.new = q.new /\ x.row = row
          /\ x.at = "first" /\ x.other = s /\ x.otherRow = otherRow
      BY <1>1, <1>4, <1>7, <2>4, <2>5 DEF SchedReqType, SchedStages
    <2> HIDE DEF x
    <2>7. sreq'[r] = x /\ schedules' = schedules
      BY <2>2, <2>6, OthersCarry DEF SchedRead, SchedInv
    <2>8. Carries(r)'
      BY <1>2, <1>4, <1>7, <2>3, <2>5, <2>6, <2>7 DEF Carries
    <2>9. ASSUME r \notin overlapped
          PROVE  Knows(r)'
      <3>1. [row EXCEPT !.order = schedules[q.id].order] = schedules[q.id]
        BY <1>4, <1>5, <1>7, <2>9
      <3>2. otherRow = [schedules[s] EXCEPT !.order = schedules[q.id].order]
        BY <1>5, <2>9 DEF otherRow
      <3>3. schedules[s].seq = schedules[q.id].seq /\ schedules[s].order = row.order
        BY <1>4, <1>5, <1>7, <2>3, <2>9
      <3> QED
        BY <1>4, <1>7, <2>3, <2>6, <2>7, <3>1, <3>2, <3>3 DEF Knows
    <2> QED
      BY <1>1, <2>2, <2>6, <2>8, <2>9, SchedGoesOn
  <1> QED
    BY <1>3, <1>6, <1>7

(* The exchange: the other schedule takes the old order.                    *)
LEMMA SaveOtherKeeps ==
    ASSUME SchedInv, NEW r \in Requests, SaveOther(r)
    PROVE  SchedInv'
  <1> DEFINE q == sreq[r]
             table == [schedules EXCEPT ![q.other] = q.otherRow]
             x == [q EXCEPT !.at = "second"]
  <1>1. q \in SchedReqType /\ q.op = "order" /\ q.at = "first" /\ Carries(r)
    BY DEF SaveOther, SchedAt, SchedInv, SchedTyped
  <1>2. /\ q.id \in DOMAIN schedules /\ q.row \in ScheduleType /\ q.new \in OrderType
        /\ q.other \in DOMAIN schedules /\ q.otherRow \in ScheduleType /\ q.otherRow.seq = q.row.seq
        /\ q.row.seq \in Ids
    BY <1>1 DEF Carries, ScheduleType
  <1>3. SchedWrite(r, table, {q.row.seq}, {}) /\ SchedGo(r, x)
    BY DEF SaveOther
  <1>4. /\ x \in SchedReqType /\ x.op = "order" /\ x.at = "second" /\ x.id = q.id /\ x.new = q.new
        /\ x.row = q.row
    BY <1>1 DEF SchedReqType, SchedStages
  <1> HIDE DEF x
  <1>5. schedules' = [s \in DOMAIN schedules \cup {q.other} |-> IF s = q.other THEN q.otherRow ELSE schedules[s]]
    BY <1>2, <1>3 DEF SchedWrite, SchedInv, SchedTyped
  <1>6. DOMAIN schedules' = DOMAIN schedules
    BY <1>2, <1>5
  <1>7. sreq'[r] = x /\ \A p \in Requests \ {r} : sreq'[p] = sreq[p]
    BY <1>3, <1>4, <1>6, OthersCarry DEF SchedInv
  <1>8. Carries(r)'
    BY <1>2, <1>4, <1>6, <1>7 DEF Carries
  <1>9. ScheduleOrdersUnique'
    <2>1. disturbed \cup Exchanging \subseteq disturbed' \cup Exchanging'
      BY <1>1, <1>3, <1>7 DEF SchedWrite, Exchanging, SchedAt
    <2>2. q.otherRow.seq \in Exchanging'
      BY <1>2, <1>4, <1>7 DEF Exchanging, SchedAt
    <2> QED
      BY <1>5, <2>1, <2>2, OneRowWritten
  <1>10. ASSUME r \notin overlapped
         PROVE  Knows(r)'
    <2> DEFINE row == schedules[q.id]
               other == schedules[q.other]
    <2>1. /\ q.new.whole /\ [q.row EXCEPT !.order = row.order] = row /\ q.row.order = q.new.order
          /\ other.seq = row.seq /\ other.order = q.row.order
          /\ q.otherRow = [other EXCEPT !.order = row.order]
      BY <1>1, <1>10 DEF SchedInv, Knows
    <2>2. row \in ScheduleType /\ other \in ScheduleType
      BY <1>2 DEF SchedInv, SchedTyped
    <2>3. q.otherRow.order = row.order /\ row.seq = q.row.seq
      BY <1>2, <2>1, <2>2 DEF ScheduleType
    <2>4. schedules'[q.id] = row
      <3>1. q.id = q.other => q.otherRow = row
        BY <2>1, <2>2 DEF ScheduleType
      <3> QED
        BY <1>2, <1>5, <3>1
    <2> HIDE DEF row, other
    <2>5. ASSUME NEW seq, seq = q.row.seq, Settled(r, seq)'
          PROVE  /\ \A s \in SchedOf(seq)' \ {q.id} : schedules'[s].order # q.row.order
                 /\ \A s, t \in SchedOf(seq)' \ {q.id} : schedules'[s].order = schedules'[t].order => s = t
      <3>1. seq \notin disturbed \cup Exchanging
        BY <1>1, <1>3, <1>7, <2>5 DEF Settled, SchedAt, Exchanging, SchedWrite
      <3>2. \A s, t \in SchedOf(seq) : schedules[s].order = schedules[t].order => s = t
        BY <3>1 DEF SchedInv, ScheduleOrdersUnique, SchedOf
      <3>3. q.id \in SchedOf(seq) /\ q.other \in SchedOf(seq)
        BY <1>2, <2>1, <2>3, <2>5 DEF SchedOf, row, other
      <3>4. SchedOf(seq)' = SchedOf(seq)
        BY <1>2, <1>5, <2>1, <2>3, <2>5 DEF SchedOf, row, other
      <3>5. schedules'[q.other].order = schedules[q.id].order /\ schedules[q.other].order = q.row.order
        BY <1>2, <1>5, <2>1, <2>3 DEF row, other
      <3>6. \A s \in SchedOf(seq) \ {q.other} : schedules'[s] = schedules[s]
        BY <1>5 DEF SchedOf
      <3>7. ASSUME NEW s \in SchedOf(seq) \ {q.id}
            PROVE  schedules'[s].order # q.row.order
        <4>1. CASE s = q.other
          BY <3>2, <3>3, <3>5, <4>1
        <4>2. CASE s # q.other
          BY <3>2, <3>3, <3>5, <3>6, <4>2
        <4> QED
          BY <4>1, <4>2
      <3>8. ASSUME NEW s \in SchedOf(seq) \ {q.id}, NEW t \in SchedOf(seq) \ {q.id},
                   schedules'[s].order = schedules'[t].order
            PROVE  s = t
        <4>1. CASE s # q.other /\ t # q.other
          BY <3>2, <3>6, <3>8, <4>1
        <4>2. CASE s = q.other /\ t # q.other
          BY <3>2, <3>3, <3>5, <3>6, <3>8, <4>2
        <4>3. CASE s # q.other /\ t = q.other
          BY <3>2, <3>3, <3>5, <3>6, <3>8, <4>3
        <4> QED
          BY <4>1, <4>2, <4>3
      <3> QED
        BY <3>4, <3>7, <3>8
    <2> QED
      BY <1>4, <1>7, <2>1, <2>4, <2>5 DEF Knows
  <1>11. /\ \E n \in 0 .. MaxSchedules : DOMAIN table = 1 .. n
         /\ DOMAIN schedules \subseteq DOMAIN table /\ table \in [DOMAIN table -> ScheduleType]
         /\ {q.row.seq} \subseteq Ids
    BY <1>2 DEF SchedInv, SchedTyped
  <1> HIDE DEF table
  <1> QED
    BY <1>3, <1>4, <1>8, <1>9, <1>10, <1>11, SchedWriteKeeps

(* The exchange ends: the schedule takes the order that it was given.       *)
LEMMA SaveSecondKeeps ==
    ASSUME SchedInv, NEW r \in Requests, SaveSecond(r)
    PROVE  SchedInv'
  <1> DEFINE q == sreq[r]
             seq == q.row.seq
             table == [schedules EXCEPT ![q.id] = q.row]
             disturbing == IF q.new.whole THEN {} ELSE {seq}
  <1>1. q \in SchedReqType /\ q.op = "order" /\ q.at = "second" /\ Carries(r)
    BY DEF SaveSecond, SchedAt, SchedInv, SchedTyped
  <1>2. q.id \in DOMAIN schedules /\ q.row \in ScheduleType /\ seq \in Ids
    BY <1>1 DEF Carries, ScheduleType
  <1>3. SchedWrite(r, table, {seq}, disturbing) /\ SchedGo(r, SchedIdle)
    BY DEF SaveSecond
  <1>4. schedules' = [s \in DOMAIN schedules |-> IF s = q.id THEN q.row ELSE schedules[s]]
    BY <1>2, <1>3 DEF SchedWrite, SchedInv, SchedTyped
  <1>5. sreq'[r] = SchedIdle /\ \A p \in Requests \ {r} : sreq'[p] = sreq[p]
    BY <1>3, <1>4, OthersCarry, SchedIdleType DEF SchedInv
  <1>6. Carries(r)' /\ Knows(r)'
    BY <1>5, SchedIdleType DEF Carries, Knows
  <1>7. disturbed \subseteq disturbed' /\ (seq \notin disturbed' => q.new.whole /\ r \notin overlapped)
    BY <1>3 DEF SchedWrite
  <1>8. Exchanging \subseteq Exchanging' \cup {seq}
    BY <1>5 DEF Exchanging, SchedAt
  <1>9. ASSUME seq \notin disturbed' \cup Exchanging'
        PROVE  /\ \A s \in SchedOf(seq) \ {q.id} : schedules[s].order # q.row.order
               /\ \A s, t \in SchedOf(seq) \ {q.id} : schedules[s].order = schedules[t].order => s = t
    <2>1. Settled(r, seq)
      BY <1>5, <1>7, <1>9 DEF Settled, SchedAt, Exchanging
    <2> QED
      BY <1>1, <1>7, <1>9, <2>1 DEF SchedInv, Knows
  <1>10. ScheduleOrdersUnique'
    <2> SUFFICES ASSUME NEW s \in DOMAIN schedules, NEW t \in DOMAIN schedules, s # t,
                        schedules'[s].seq = schedules'[t].seq, schedules'[s].order = schedules'[t].order,
                        schedules'[s].seq \notin disturbed' \cup Exchanging'
                 PROVE  FALSE
      BY <1>4 DEF ScheduleOrdersUnique
    <2>1. CASE s = q.id
      <3>1. t \in SchedOf(seq) \ {q.id} /\ schedules[t].order = q.row.order /\ schedules'[s].seq = seq
        BY <1>4, <2>1 DEF SchedOf
      <3> QED
        BY <1>9, <3>1
    <2>2. CASE t = q.id
      <3>1. s \in SchedOf(seq) \ {q.id} /\ schedules[s].order = q.row.order /\ schedules'[s].seq = seq
        BY <1>4, <2>2 DEF SchedOf
      <3> QED
        BY <1>9, <3>1
    <2>3. CASE s # q.id /\ t # q.id
      <3>1. schedules'[s] = schedules[s] /\ schedules'[t] = schedules[t]
        BY <1>4, <2>3
      <3>2. CASE schedules[s].seq = seq
        <4>1. s \in SchedOf(seq) \ {q.id} /\ t \in SchedOf(seq) \ {q.id}
          BY <2>3, <3>1, <3>2 DEF SchedOf
        <4> QED
          BY <1>9, <3>1, <3>2, <4>1
      <3>3. CASE schedules[s].seq # seq
        BY <1>7, <1>8, <3>1, <3>3 DEF SchedInv, ScheduleOrdersUnique
      <3> QED
        BY <3>2, <3>3
    <2> QED
      BY <2>1, <2>2, <2>3
  <1>11. /\ \E n \in 0 .. MaxSchedules : DOMAIN table = 1 .. n
         /\ DOMAIN schedules \subseteq DOMAIN table /\ table \in [DOMAIN table -> ScheduleType]
         /\ {seq} \subseteq Ids /\ disturbing \subseteq Ids
    BY <1>2 DEF SchedInv, SchedTyped
  <1> HIDE DEF table, disturbing, seq
  <1> QED
    BY <1>3, <1>6, <1>10, <1>11, SchedWriteKeeps, SchedIdleType

-----------------------------------------------------------------------------
LEMMA SchedInitKeeps ==
    ASSUME SchedInit
    PROVE  SchedInv
  <1>1. schedules \in FirstTables \cup {<<>>}
    BY DEF SchedInit
  <1>2. MaxSchedules \in Nat
    BY SchedulesAssumption DEF SchedulesAssumption
  <1>3. /\ \E n \in 0 .. MaxSchedules : DOMAIN schedules = 1 .. n
        /\ schedules \in [DOMAIN schedules -> ScheduleType]
        /\ \A s, t \in DOMAIN schedules :
              schedules[s].seq = schedules[t].seq /\ schedules[s].order = schedules[t].order => s = t
    <2>1. CASE schedules \in FirstTables
      BY <2>1, SchedulesAssumption DEF SchedulesAssumption
    <2>2. CASE schedules = <<>>
      <3>1. 0 \in 0 .. MaxSchedules /\ 1 .. 0 = {} /\ DOMAIN schedules = {}
        BY <1>2, <2>2
      <3>2. schedules \in [{} -> ScheduleType]
        BY <2>2
      <3> QED
        BY <3>1, <3>2
    <2> QED
      BY <1>1, <2>1, <2>2
  <1>4. sreq = [r \in Requests |-> SchedIdle] /\ overlapped = {} /\ disturbed = {}
    BY DEF SchedInit
  <1>5. \A r \in Requests : Carries(r) /\ Knows(r)
    BY <1>4, SchedIdleType DEF Carries, Knows
  <1>6. SchedTyped
    BY <1>3, <1>4, <1>5, SchedIdleType DEF SchedTyped
  <1> QED
    BY <1>3, <1>5, <1>6 DEF SchedInv, ScheduleOrdersUnique

LEMMA SchedStepKeeps ==
    ASSUME SchedInv, DOMAIN rows \subseteq Ids, [PlanNext]_planVars
    PROVE  SchedInv'
  <1>1. CASE UNCHANGED schedVars
    BY <1>1 DEF schedVars, SchedInv, SchedTyped, Carries, Knows, Settled, SchedOf, SchedAt,
                ScheduleOrdersUnique, Exchanging
  <1>2. CASE SchedNext
    <2>1. PICK r \in Requests :
             \/ SchedCalls(r)
             \/ CheckSequence(r) \/ ReadLast(r) \/ InsertSched(r)
             \/ ReadSched(r) \/ SaveSched(r)
             \/ FindOther(r) \/ SaveOther(r) \/ SaveSecond(r)
             \/ SchedFail(r)
      BY <1>2 DEF SchedNext
    <2> QED
      BY <2>1, SchedCallsKeep, CheckSequenceKeeps, ReadLastKeeps, InsertSchedKeeps, ReadSchedKeeps, SaveSchedKeeps,
         FindOtherKeeps, SaveOtherKeeps, SaveSecondKeeps, SchedFailKeeps
  <1> QED
    BY <1>1, <1>2 DEF PlanNext, planVars

(* The requests about schedules leave the lists, and their transactions,    *)
(* as they are.                                                             *)
THEOREM PlanningKeepsLists == PlanSpec => Spec
  <1>1. PlanInit => Init
    BY DEF PlanInit
  <1>2. [PlanNext]_planVars => [Next]_vars
    BY DEF PlanNext, planVars
  <1> QED
    BY <1>1, <1>2, PTL DEF PlanSpec, Spec

(* What a request about schedules has read is still so when it writes, if   *)
(* nobody has written meanwhile.                                            *)
THEOREM SchedulesAreKnown == PlanSpec => []SchedInv
  <1>1. PlanInit => SchedInv
    BY SchedInitKeeps DEF PlanInit
  <1>2. SchedInv /\ IInv /\ [PlanNext]_planVars => SchedInv'
    BY SchedStepKeeps DEF IInv, Typed, RowsType
  <1> QED
    BY <1>1, <1>2, PlanningKeepsLists, TransactionsAreApart, PTL DEF PlanSpec

(* Two schedules of a sequence have the same order only where requests      *)
(* overlapped, an exchange is between its saves or failed there, or a       *)
(* schedule came from another sequence.                                     *)
THEOREM ScheduleOrdersStayUnique == PlanSpec => []ScheduleOrdersUnique
  <1>1. SchedInv => ScheduleOrdersUnique
    BY DEF SchedInv
  <1> QED
    BY <1>1, SchedulesAreKnown, PTL

(* The query for the schedules of a day and the check of what it found      *)
(* agree, on every date and for every rule.                                 *)
THEOREM QueryAndCheckAgree == PlanSpec => []SchedulesAgree
  <1>1. SchedInv => SchedulesAgree
    <2> SUFFICES ASSUME SchedInv, NEW d \in Dates, NEW s \in DOMAIN schedules
                 PROVE  /\ Selected(schedules[s].rule, d) <=> IsDue(schedules[s].rule, d)
                        /\ s \in FindSchedulesForDate(d) <=> schedules[s].active /\ IsDue(schedules[s].rule, d)
      BY DEF SchedulesAgree
    <2>1. d \in DateType
      BY SchedulesAssumption DEF SchedulesAssumption
    <2>2. schedules[s].rule \in RuleType
      BY DEF SchedInv, SchedTyped, ScheduleType
    <2>3. Selected(schedules[s].rule, d) <=> IsDue(schedules[s].rule, d)
      BY <2>1, <2>2, RulesAgree
    <2> QED
      BY <2>3 DEF FindSchedulesForDate
  <1> QED
    BY <1>1, SchedulesAreKnown, PTL
=============================================================================
