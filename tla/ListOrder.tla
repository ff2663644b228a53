----------------------------- MODULE ListOrder -----------------------------
(***************************************************************************)
(* What an ordered list promises (CILT masters and OPLs of a site, the     *)
(* sequences of a master, the details of an OPL): each element has a place *)
(* of its own, and an operation changes the places in one step, whatever   *)
(* the statements it is made of and whoever runs beside it.                *)
(***************************************************************************)
EXTENDS Integers, FiniteSets

CONSTANTS
    Ids,        \* elements
    Lists,      \* lists: of a site, or of an element
    Orders      \* the orders that a column holds

VARIABLES
    place,      \* element -> its list and its order there
    given       \* the places that a body has given, whoever was there

Place(l, o) == [list |-> l, order |-> o]
Elements == DOMAIN place
Among(l) == {i \in Elements : place[i].list = l}

\* The order after the last one of a list.
IsNext(l, o) ==
    IF Among(l) = {} THEN o = 1
    ELSE /\ \A i \in Among(l) : place[i].order < o
         /\ \E i \in Among(l) : place[i].order = o - 1

Init ==
    /\ place \in [Elements -> [list : Lists \cup Ids, order : Orders]]
    /\ \A i, j \in Elements : place[i] = place[j] => i = j \/ place[i] \in given

Add(i, l, o) ==
    /\ i \in Ids \ Elements /\ l \in Lists /\ o \in Orders
    /\ IsNext(l, o)
    /\ place' = [j \in Elements \cup {i} |-> IF j = i THEN Place(l, o) ELSE place[j]]
    /\ UNCHANGED given

\* An element and one of its list exchange their orders, or it takes a free order.
Exchange(i, j) ==
    /\ i \in Elements /\ j \in Among(place[i].list)
    /\ place' = [place EXCEPT ![i] = place[j], ![j] = place[i]]
    /\ UNCHANGED given

PutAt(i, o) ==
    /\ i \in Elements
    /\ \A j \in Among(place[i].list) : place[j].order # o
    /\ place' = [place EXCEPT ![i].order = o]
    /\ UNCHANGED given

\* A body's order is written although another element may have it.
Give(i, o) ==
    /\ i \in Elements
    /\ place' = [place EXCEPT ![i].order = o]
    /\ given' = given \cup {Place(place[i].list, o)}

Remove(i) ==
    /\ i \in Elements
    /\ place' = [j \in Elements \ {i} |-> place[j]]
    /\ UNCHANGED given

\* An element is copied to the end of its list, with what is in its own list.
Copy(i, c, o, original) ==
    /\ i \in Elements
    /\ c \in Ids \ Elements /\ Among(c) = {}
    /\ o \in Orders /\ IsNext(place[i].list, o)
    /\ DOMAIN original \subseteq Ids \ (Elements \cup {c})
    /\ \A j \in DOMAIN original : original[j] \in Among(i)
    /\ \A j, k \in DOMAIN original : original[j] = original[k] => j = k
    /\ \A k \in Among(i) : \E j \in DOMAIN original : original[j] = k
    /\ place' = [j \in Elements \cup {c} \cup DOMAIN original |->
                    IF j = c THEN Place(place[i].list, o)
                    ELSE IF j \in DOMAIN original THEN Place(c, place[original[j]].order)
                    ELSE place[j]]
    /\ given' = given \cup {Place(c, p.order) : p \in {q \in given : q.list = i}}

New == DOMAIN place' \ Elements

Next ==
    \/ \E i \in New : Add(i, place'[i].list, place'[i].order)
    \/ \E i, j \in Elements : Exchange(i, j)
    \/ \E i \in Elements : Remove(i) \/ \E o \in Orders : PutAt(i, o) \/ Give(i, o)
    \/ \E i \in Elements, c \in New :
          \E original \in [{j \in New : place'[j].list = c} -> Among(i)] : Copy(i, c, place'[c].order, original)

Spec == Init /\ [][Next]_<<place, given>>

\* No two elements share a place, unless a body gave it.
PlacesUnique == \A i, j \in Elements : i # j /\ place[i] = place[j] => place[i] \in given
=============================================================================
