------------------------ MODULE MCNotificationOutbox ------------------------
(***************************************************************************)
(* Small instances of NotificationOutbox.  The delays keep the order of    *)
(* the code's: first backoff < stale lock <= capped backoff.               *)
(***************************************************************************)
EXTENDS NotificationOutbox, TLC

CONSTANTS w1, w2, k1, k2, u1, u2, d1, d2

OneAudience == (k1 :> {u1, u2})
SameAudience == [k \in {k1, k2} |-> {u1}]

Symmetry == Permutations({w1, w2})
=============================================================================
