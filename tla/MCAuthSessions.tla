--------------------------- MODULE MCAuthSessions ---------------------------
(***************************************************************************)
(* Small instances of AuthSessions: handlers, and users, may be swapped.   *)
(***************************************************************************)
EXTENDS AuthSessions, TLC

Symmetry ==
    {p @@ q : p \in Permutations(Requests), q \in Permutations(Users)}

\* A third session and a reset code are not both in play, and after a change that
\* closes sessions has committed no third one is opened.
Bounded ==
    /\ lastCode = 0 \/ lastSession <= 2
    /\ lastSession <= 2 \/ \A u \in Users : closings[u] = 0
=============================================================================
