-------------------------- MODULE MCCiltExecutions --------------------------
(***************************************************************************)
(* A day of one sequence: an operator has it at one time, and twice in the *)
(* site's plan, by two positions.  An administrator edits what bodies may. *)
(***************************************************************************)
EXTENDS CiltExecutions, TLC

CONSTANTS clean, worker, boss, morning, now, r1, r2

ThisSlot == [sequence |-> clean, time |-> morning, user |-> worker]
Twice == <<ThisSlot, ThisSlot>>
Days == [u \in {worker, boss} |-> IF u = worker THEN <<ThisSlot>> ELSE <<>>]

Today == {[ThisSlot EXCEPT !.time = now]}

Stops == {[at |-> t, nok |-> FALSE, tag |-> None] : t \in Times}
Blank == [Filled(ThisSlot, Null) EXCEPT !.executor = None]
Updates == {[names |-> {"status", "stop"}, values |-> [Blank EXCEPT !.status = "R", !.stop = 1]]}
Creates == {Blank}

\* Behaviours are followed until a row is torn, a second one is edited, or one is
\* edited and one started.
FirstTear ==
    /\ \A a \in Aspects : torn[a] = {}
    /\ Cardinality(hand) <= 1
    /\ hand # {} => \A i \in Ids : execs[i].start = Null

Symmetry == Permutations(Requests)
=============================================================================
