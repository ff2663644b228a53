---------------------------- MODULE MCLevelTree ----------------------------
(***************************************************************************)
(* A plant with an area, a machine with two components, and a card on one. *)
(***************************************************************************)
EXTENDS LevelTree

CONSTANTS s1, m1, r1, r2

Row(superior, level, machine) ==
    [site |-> s1, superior |-> superior, level |-> level, status |-> "A", deleted |-> FALSE,
     machine |-> machine]
Plant == <<Row(0, 0, None), Row(1, 1, m1), Row(2, 2, None)>>
ItsCards == {OnCreation(Plant, 3)}

Symmetry == Permutations(Requests)
=============================================================================
