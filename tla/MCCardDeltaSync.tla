-------------------------- MODULE MCCardDeltaSync --------------------------
(***************************************************************************)
(* Small instances of CardDeltaSync: three cards, one with an evidence.    *)
(***************************************************************************)
EXTENDS CardDeltaSync, TLC

CONSTANTS card1, card2, card3, evidence1

WithEvidence == (card1 :> 1 @@ card2 :> 2 @@ card3 :> 3 @@ evidence1 :> 1)
TwoCards == (card1 :> 1 @@ card2 :> 2)
=============================================================================
