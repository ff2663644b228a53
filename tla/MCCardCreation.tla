--------------------------- MODULE MCCardCreation ---------------------------
(***************************************************************************)
(* Small instances of CardCreation.  The drafts: one with its evidence and *)
(* both notifications, another of the same site, and one of the first's    *)
(* UUID and of another site that sends the empty value for none.           *)
(***************************************************************************)
EXTENDS CardCreation, TLC

CONSTANTS x, y, s1, s2, text, note, low, high, safe, photo, responsible

Plain(uuid, site, content) ==
    [uuid |-> uuid, site |-> site, content |-> content, priority |-> low,
     date |-> "whole seconds", methodical |-> FALSE, value |-> NoValue, parts |-> {}]

Methodical(uuid, site, content) ==
    [Plain(uuid, site, content) EXCEPT !.methodical = TRUE, !.value = safe,
                                       !.parts = {photo, responsible}]

WithEmptyValue(d) == [d EXCEPT !.value = EmptyValue]

ThreeDrafts == {Methodical(x, s1, text), Plain(y, s1, text),
                WithEmptyValue(Plain(x, s2, note))}

Symmetry == Permutations(Requests)
=============================================================================
