SPECIFICATION FairSpec
CONSTANTS
    card1 = card1
    card2 = card2
    card3 = card3
    evidence1 = evidence1
    Clients = {tablet}
    Cards = {1, 2, 3}
    Rows = {card1, card2, card3, evidence1}
    CardOf <- WithEvidence
    Writers = {w1, w2}
    Limit = 2
    Grain = 2
    InitialStamps = {0}
    MaxTime = 6
    MaxChanges = 3
    Spread = TRUE
INVARIANTS
    NothingSkipped
PROPERTIES
    EventuallyFresh
