--------------------------- MODULE MCCiltPlanning ---------------------------
(***************************************************************************)
(* A site with two masters, the first of which has two rows and a deleted  *)
(* one; the first of these has two schedules, one of them deleted, or one  *)
(* schedule with one of all kinds of rules.                                *)
(***************************************************************************)
EXTENDS CiltSchedules, Sequences, TLC

CONSTANTS s1, a, b, c, d, e, n1, n2, n3, r1, r2

TheRows ==
    a :> [list |-> s1, order |-> 1, live |-> TRUE] @@
    b :> [list |-> s1, order |-> 2, live |-> TRUE] @@
    c :> [list |-> a, order |-> 1, live |-> TRUE] @@
    d :> [list |-> a, order |-> 2, live |-> TRUE] @@
    e :> [list |-> a, order |-> 4, live |-> FALSE]

TheOrders == 1 .. 4
Asked == {[whole |-> TRUE, order |-> 1], [whole |-> TRUE, order |-> 2], [whole |-> FALSE, order |-> 2],
          [whole |-> TRUE, order |-> 4]}

\* The days around the ends of weeks, in months that begin on each day of the week.
TheDates ==
    {[month |-> 1, day |-> day, first |-> first, number |-> day] :
        day \in {1, 7, 8, 14, 15, 28, 29, 31}, first \in Days}
    \cup {[month |-> 2, day |-> day, first |-> first, number |-> 31 + day] : day \in {1, 15, 29}, first \in {4}}

AllRules ==
    [type : {"dai", "wee", "mon", "yea", "man"}, days : {{}, {1}, {0, 6}}, dayOfMonth : {0, 1, 15, 31},
     weekOfMonth : {0, 1, 2, 5}, monthOfYear : {0, 1, 2}, dateOfYear : {None, <<1, 15>>, <<2, 29>>},
     endDate : {None, 15}]

Daily == [type |-> "dai", days |-> {}, dayOfMonth |-> 0, weekOfMonth |-> 0, monthOfYear |-> 0,
          dateOfYear |-> None, endDate |-> None]
TheRules == {Daily}

Sched(order, rule, active) == [seq |-> c, order |-> order, rule |-> rule, active |-> active]
Tables == {<<Sched(1, Daily, TRUE), Sched(2, Daily, FALSE)>>} \cup {<<Sched(1, rule, TRUE)>> : rule \in AllRules}

\* The other rules are checked on the first states.  Of three requests on the lists the
\* last runs alone, on what two that overlapped have left.
Bounded ==
    /\ kind = "cilt" => schedules[1].rule = Daily /\ Len(schedules) >= 2
    /\ calls = MaxCalls => Cardinality({r \in Requests : Running(r)}) <= 1

Symmetry == Permutations(Requests) \cup Permutations({n1, n2, n3})
=============================================================================
