----------------------------- MODULE Positions -----------------------------
(***************************************************************************)
(* The positions of the sites, in an order, and the users placed in each   *)
(* (position.service.ts).  Three operations, each of several statements    *)
(* and none with a transaction or a lock: create appends a position and    *)
(* places its users, update saves the row as it was read and places other  *)
(* users instead of those there are, updateOrder exchanges the orders of   *)
(* two positions by two saves.                                             *)
(*                                                                         *)
(* save(row) writes the columns in which the copy differs from the row: a  *)
(* copy carries its order and its site.                                    *)
(***************************************************************************)
EXTENDS Integers, FiniteSets, Sequences, FiniteSetsExt

CONSTANTS
    Requests,       \* handlers that may run at the same time
    Sites,
    Users,
    Nothing,        \* no position
    FirstPositions, \* the positions there are at first: id -> row
    MaxOrder,       \* the largest order a column of type tinyint holds
    MaxPositions,   \* bound on the ids of positions
    MaxNamed,       \* bound on how often a body names a user
    MaxCalls        \* bound on the requests

PositionIds == 1 .. MaxPositions
Orders == 1 .. MaxOrder
PositionType == [site : Sites, order : Orders]

\* The users that a body names, each as often as it does: every time is a row.
Named == [Users -> 0 .. MaxNamed]
Nobody == [u \in Users |-> 0]

\* At first no two positions of a site have the same order.
OrdersAssumption ==
    /\ MaxOrder \in Nat /\ MaxPositions \in Nat /\ MaxCalls \in Nat /\ MaxNamed \in Nat
    /\ Nothing \notin PositionIds
    /\ FirstPositions \in Seq(PositionType) /\ Len(FirstPositions) <= MaxPositions
    /\ \A p, q \in DOMAIN FirstPositions : FirstPositions[p] = FirstPositions[q] => p = q

VARIABLES
    positions,  \* table positions: id -> row
    placed,     \* table users_positions: id -> (user -> number of rows)
    req,        \* the requests
    calls,      \* how many there have been
    overtaken,  \* history: the requests since whose read another has written, or that read
                \* between the two saves of another
    torn,       \* history: the positions that such a request wrote, or one that failed half way,
                \* those put into another site or given an order with a fraction, and those
                \* that exchanged orders with one of these
    asked       \* history: whom the last request to place some named, and how often

vars == <<positions, placed, req, calls, overtaken, torn, asked>>

-----------------------------------------------------------------------------
FindBySiteId(s) == {p \in DOMAIN positions : positions[p].site = s}
WithOrder(s, n) == {p \in FindBySiteId(s) : positions[p].order = n}

\* Bug: they are counted.
NextOrder_Count(s) == Cardinality(FindBySiteId(s)) + 1

\* One past the last of the site.
NextOrder(s) == Max({0} \cup {positions[p].order : p \in FindBySiteId(s)}) + 1

-----------------------------------------------------------------------------
\* Where a request is, its position, the copy it has read or made, the other position
\* of an exchange, whether the order it gives is whole, whether users are placed and
\* which, and whether it has written.
Idle == [at |-> "idle", id |-> Nothing, copy |-> Nothing, other |-> Nothing, otherCopy |-> Nothing,
         whole |-> TRUE, places |-> FALSE, users |-> Nobody, began |-> FALSE]

Running == {r \in Requests : req[r].at # "idle"}
Exchanging == {r \in Running : req[r].at = "order" /\ req[r].began}
Placing == {r \in Running : req[r].at \in {"unplace", "place"}}
Go(r, q) == req' = [req EXCEPT ![r] = q]

\* What is read between the two saves of an exchange is not so for long.
Call(r, q) ==
    /\ calls' = calls + 1
    /\ Go(r, q)
    /\ overtaken' = IF Exchanging = {} THEN overtaken \ {r} ELSE overtaken \cup {r}
    /\ UNCHANGED <<positions, placed, torn, asked>>

\* A position is written: what another had read is not so any more.  It may be put where
\* nobody has looked whether its order is free.
Wrote(r, p, blindly) ==
    /\ overtaken' = overtaken \cup (Running \ {r})
    /\ torn' = IF r \in overtaken \/ {req[r].id, req[r].other} \cap torn # {} \/ blindly
               THEN torn \cup {p} ELSE torn
    /\ UNCHANGED calls

\* create: the level and the last order are read.
Create(r, s, places, users) ==
    Call(r, [Idle EXCEPT !.at = "insert", !.copy = [site |-> s, order |-> NextOrder(s)],
                         !.places = places, !.users = users])

\* A table with one more row.
Added(table, id, row) == [i \in DOMAIN table \cup {id} |-> IF i = id THEN row ELSE table[i]]

\* An order that the column cannot hold is an error.
InsertPosition(r) ==
    /\ req[r].at = "insert"
    /\ req[r].copy.order \in Orders
    /\ Cardinality(DOMAIN positions) < MaxPositions
    /\ LET p == Cardinality(DOMAIN positions) + 1
       IN  /\ positions' = Added(positions, p, req[r].copy)
           /\ placed' = Added(placed, p, Nobody)
           /\ asked' = Added(asked, p, Nobody)
           /\ Go(r, IF req[r].places THEN [req[r] EXCEPT !.at = "place", !.id = p, !.began = TRUE] ELSE Idle)
           /\ Wrote(r, p, FALSE)

\* update: the row is read, and the body says what becomes of it.
Update(r, p, s, places, users) ==
    Call(r, [Idle EXCEPT !.at = "save", !.id = p, !.copy = [positions[p] EXCEPT !.site = s],
                         !.places = places, !.users = users])

SavePosition(r) ==
    /\ req[r].at = "save"
    /\ LET q == req[r]
       IN  /\ positions' = [positions EXCEPT ![q.id] = q.copy]
           /\ Go(r, IF q.places THEN [q EXCEPT !.at = "unplace", !.began = TRUE] ELSE Idle)
           /\ Wrote(r, q.id, q.copy.site # positions[q.id].site)
    /\ UNCHANGED <<placed, asked>>

Unplace(r) ==
    /\ req[r].at = "unplace"
    /\ placed' = [placed EXCEPT ![req[r].id] = Nobody]
    /\ Go(r, [req[r] EXCEPT !.at = "place"])
    /\ Wrote(r, req[r].id, FALSE)
    /\ UNCHANGED <<positions, asked>>

Place(r) ==
    /\ req[r].at = "place"
    /\ LET q == req[r]
       IN  /\ placed' = [placed EXCEPT ![q.id] = [u \in Users |-> @[u] + q.users[u]]]
           /\ asked' = [asked EXCEPT ![q.id] = q.users]
           /\ Wrote(r, q.id, FALSE)
    /\ Go(r, Idle)
    /\ UNCHANGED positions

\* updateOrder: the position, and one of its site that has the new order, if there is any.
\* The body may give an order with a fraction: no position has it, and the column stores n.
UpdateOrder(r, p, n, whole) ==
    LET found == IF whole THEN WithOrder(positions[p].site, n) ELSE {}
        copy == [positions[p] EXCEPT !.order = n]
    IN  \/ /\ found = {}
           /\ Call(r, [Idle EXCEPT !.at = "order", !.id = p, !.copy = copy, !.whole = whole])
        \/ \E other \in found :
              Call(r, [Idle EXCEPT !.at = "other", !.id = p, !.copy = copy, !.other = other,
                                   !.otherCopy = [positions[other] EXCEPT !.order = positions[p].order]])

SaveOther(r) ==
    /\ req[r].at = "other"
    /\ positions' = [positions EXCEPT ![req[r].other] = req[r].otherCopy]
    /\ Go(r, [req[r] EXCEPT !.at = "order", !.began = TRUE])
    /\ Wrote(r, req[r].other, FALSE)
    /\ UNCHANGED <<placed, asked>>

SaveOrder(r) ==
    /\ req[r].at = "order"
    /\ req[r].copy.order \in Orders
    /\ positions' = [positions EXCEPT ![req[r].id] = req[r].copy]
    /\ Go(r, Idle)
    /\ Wrote(r, req[r].id, ~req[r].whole)
    /\ UNCHANGED <<placed, asked>>

\* A statement fails: what was written before stays.
Fail(r) ==
    /\ r \in Running
    /\ Go(r, Idle)
    /\ torn' = IF req[r].began THEN torn \cup ({req[r].id, req[r].other} \ {Nothing}) ELSE torn
    /\ UNCHANGED <<positions, placed, calls, overtaken, asked>>

-----------------------------------------------------------------------------
Init ==
    /\ positions = FirstPositions
    /\ placed = [p \in DOMAIN positions |-> Nobody]
    /\ asked = [p \in DOMAIN positions |-> Nobody]
    /\ req = [r \in Requests |-> Idle]
    /\ calls = 0
    /\ overtaken = {} /\ torn = {}

Calls(r) ==
    /\ r \notin Running
    /\ calls < MaxCalls
    /\ \/ \E s \in Sites, places \in BOOLEAN, users \in Named : Create(r, s, places, users)
       \/ \E p \in DOMAIN positions :
            \/ \E s \in Sites, places \in BOOLEAN, users \in Named : Update(r, p, s, places, users)
            \/ \E n \in 1 .. MaxOrder + 1, whole \in BOOLEAN : UpdateOrder(r, p, n, whole)

Next == \E r \in Requests :
    \/ Calls(r)
    \/ InsertPosition(r) \/ SavePosition(r) \/ Unplace(r) \/ Place(r)
    \/ SaveOther(r) \/ SaveOrder(r)
    \/ Fail(r)

Spec == Init /\ [][Next]_vars

-----------------------------------------------------------------------------
TypeOK ==
    /\ DOMAIN positions \subseteq PositionIds /\ positions \in [DOMAIN positions -> PositionType]
    /\ placed \in [DOMAIN positions -> [Users -> Nat]]
    /\ asked \in [DOMAIN positions -> Named]
    /\ calls \in 0 .. MaxCalls
    /\ overtaken \subseteq Requests
    /\ torn \subseteq PositionIds

\* No two positions of a site have the same order, but for those of an exchange between
\* its saves, and a position has a row for every time that the last request to place users
\* named one, no more and no fewer: else one of them was written by a request that another
\* had overtaken or that failed half way, or an update put it into another site with the
\* order that it had, or an order with a fraction was given, which no position has before
\* the column rounds it.
PositionsKept ==
    \A p \in DOMAIN positions \ torn :
      /\ \A q \in WithOrder(positions[p].site, positions[p].order) \ torn :
            p # q => \E r \in Exchanging : {p, q} = {req[r].id, req[r].other}
      /\ (\A r \in Placing : req[r].id # p) =>
            placed[p] = asked[p]
=============================================================================
