----------------------- MODULE NotificationOutboxProofs -----------------------
(***************************************************************************)
(* Proofs about NotificationOutbox for any number of workers, events,      *)
(* faults and attempts.  The argument: a claim transaction holds its row   *)
(* from SELECT to COMMIT, so the row is still as it was selected when the  *)
(* attempt number is taken from it (ClaimHeld, LocksDisjoint); hence each  *)
(* number is taken once and lies at or below the row's (Numbered); what    *)
(* was pushed under a number is what its holder has already tried          *)
(* (PushedUnderOwnNumber, PushedAll).                                      *)
(***************************************************************************)
EXTENDS NotificationOutbox, TLAPS

InClaim(w) == pc[w] = "commit" \/ Holding(w)

ClaimHeld ==
    \A w \in Workers :
        /\ InClaim(w) => event[w] \in Ids
        /\ pc[w] = "commit" =>
            /\ event[w] \in rowLocks[w]
            /\ attempts[event[w]] < MaxClaims
            /\ status[event[w]] \notin {"ABSENT", "SENT", "DEAD"}

LocksDisjoint ==
    \A w \in Workers :
        /\ pc[w] # "commit" => rowLocks[w] = {}
        /\ \A v \in Workers : v # w =>
               \A e \in Ids : ~(e \in rowLocks[v] /\ e \in rowLocks[w])

NotYetInserted ==
    \A e \in Ids : e > lastId => status[e] = "ABSENT"

Numbered ==
    \A w \in Workers : Holding(w) => attempt[w] <= attempts[event[w]]

PushedUnderOwnNumber ==
    /\ \A e \in Ids : \A p \in pushed[e] : p[1] <= attempts[e]
    /\ \A w \in Workers : pc[w] = "resolve" =>
           \A t \in Tokens : <<attempt[w], t>> \notin pushed[event[w]]

PushedAll ==
    \A w \in Workers : pc[w] \in {"send", "mark"} /\ ~failed[w] =>
        \A t \in targets[w] :
            \/ <<attempt[w], t>> \in pushed[event[w]]
            \/ pc[w] = "send" /\ t \in todo[w]

IInv ==
    /\ TypeOK
    /\ ClaimHeld
    /\ LocksDisjoint
    /\ NotYetInserted
    /\ Numbered
    /\ AttemptNeverShared
    /\ PushedUnderOwnNumber
    /\ OncePerAttempt
    /\ PushedAll
    /\ DeadOnlyWhenExhausted

LEMMA DelayIsNat == ASSUME NEW a \in 0..MaxClaims PROVE RetryDelay(a) \in Nat
  BY ParameterAssumption, PowerAssumption DEF RetryDelay

LEMMA InitIInv == Init => IInv
<1> SUFFICES ASSUME Init PROVE IInv
  OBVIOUS
<1>1. TypeOK
  <2>1. (CHOOSE k \in Keys : TRUE) \in Keys
    BY PayloadAssumption
  <2> QED
    BY <2>1, ParameterAssumption DEF Init, TypeOK, Ids, Statuses, Steps
<1>2. ClaimHeld /\ LocksDisjoint /\ Numbered /\ AttemptNeverShared
  BY DEF Init, ClaimHeld, LocksDisjoint, Numbered, AttemptNeverShared, InClaim, Holding
<1>3. PushedUnderOwnNumber /\ OncePerAttempt /\ PushedAll
  BY DEF Init, PushedUnderOwnNumber, OncePerAttempt, PushedAll
<1>4. DeadOnlyWhenExhausted
  BY DEF Init, DeadOnlyWhenExhausted
<1>5. NotYetInserted
  BY DEF Init, NotYetInserted
<1> QED
  BY <1>1, <1>2, <1>3, <1>4, <1>5 DEF IInv

LEMMA EnqueueStep ==
  ASSUME IInv, NEW k \in Keys, NEW delay \in FirstDelays, Enqueue(k, delay)
  PROVE  IInv'
<1> USE ParameterAssumption
    DEF IInv, InClaim, Holding, Ids, Enqueue, workVars
<1>1. TypeOK'
  <2>1. (lastId \in 0..MaxEvents)'
    BY PayloadAssumption DEF TypeOK, ClaimHeld, Steps, Statuses
  <2>2. (key \in [Ids -> Keys])'
    BY PayloadAssumption DEF TypeOK, ClaimHeld, Steps, Statuses
  <2>3. (status \in [Ids -> Statuses])'
    BY PayloadAssumption DEF TypeOK, ClaimHeld, Steps, Statuses
  <2>4. (wait \in [Ids -> Nat])'
    BY PayloadAssumption DEF TypeOK, ClaimHeld, Steps, Statuses
  <2> QED
    BY <2>1, <2>2, <2>3, <2>4 DEF TypeOK
<1>2. ClaimHeld'
  BY DEF ClaimHeld, TypeOK, LocksDisjoint
<1>3. LocksDisjoint'
  BY DEF LocksDisjoint, TypeOK, ClaimHeld
<1>4. Numbered'
  BY DEF Numbered, TypeOK, ClaimHeld
<1>5. AttemptNeverShared'
  BY DEF AttemptNeverShared, TypeOK, Numbered
<1>6. PushedUnderOwnNumber'
  BY DEF PushedUnderOwnNumber, TypeOK, ClaimHeld, Numbered, AttemptNeverShared
<1>7. OncePerAttempt'
  BY DEF OncePerAttempt, TypeOK, ClaimHeld, PushedUnderOwnNumber, AttemptNeverShared
<1>8. PushedAll'
  BY DEF PushedAll, TypeOK, ClaimHeld
<1>9. DeadOnlyWhenExhausted'
  BY DEF DeadOnlyWhenExhausted, TypeOK, Numbered
<1>10. NotYetInserted'
  BY <1>1 DEF NotYetInserted, TypeOK
<1> QED
  BY <1>1, <1>2, <1>3, <1>4, <1>5, <1>6, <1>7, <1>8, <1>9, <1>10

LEMMA RegisterStep ==
  ASSUME IInv, NEW u \in Users, NEW t \in Tokens \cup {NoToken}, Register(u, t)
  PROVE  IInv'
<1> USE ParameterAssumption
    DEF IInv, InClaim, Holding, Ids, Register, tableVars, workVars
<1>1. TypeOK'
  BY DEF TypeOK, ClaimHeld, Steps, Statuses
<1>2. ClaimHeld'
  BY DEF ClaimHeld, TypeOK, LocksDisjoint
<1>3. LocksDisjoint'
  BY DEF LocksDisjoint, TypeOK, ClaimHeld
<1>4. Numbered'
  BY DEF Numbered, TypeOK, ClaimHeld
<1>5. AttemptNeverShared'
  BY DEF AttemptNeverShared, TypeOK, Numbered
<1>6. PushedUnderOwnNumber'
  BY DEF PushedUnderOwnNumber, TypeOK, ClaimHeld, Numbered, AttemptNeverShared
<1>7. OncePerAttempt'
  BY DEF OncePerAttempt, TypeOK, ClaimHeld, PushedUnderOwnNumber, AttemptNeverShared
<1>8. PushedAll'
  BY DEF PushedAll, TypeOK, ClaimHeld
<1>9. DeadOnlyWhenExhausted'
  BY DEF DeadOnlyWhenExhausted, TypeOK, Numbered
<1>10. NotYetInserted'
  BY DEF NotYetInserted
<1> QED
  BY <1>1, <1>2, <1>3, <1>4, <1>5, <1>6, <1>7, <1>8, <1>9, <1>10

LEMMA PollStep ==
  ASSUME IInv, NEW w \in Workers, Poll(w)
  PROVE  IInv'
<1> USE ParameterAssumption
    DEF IInv, InClaim, Holding, Ids, Poll, tableVars
<1>1. TypeOK'
  BY DEF TypeOK, ClaimHeld, Steps, Statuses
<1>2. ClaimHeld'
  BY DEF ClaimHeld, TypeOK, LocksDisjoint
<1>3. LocksDisjoint'
  BY DEF LocksDisjoint, TypeOK, ClaimHeld
<1>4. Numbered'
  BY DEF Numbered, TypeOK, ClaimHeld
<1>5. AttemptNeverShared'
  BY DEF AttemptNeverShared, TypeOK, Numbered
<1>6. PushedUnderOwnNumber'
  BY DEF PushedUnderOwnNumber, TypeOK, ClaimHeld, Numbered, AttemptNeverShared
<1>7. OncePerAttempt'
  BY DEF OncePerAttempt, TypeOK, ClaimHeld, PushedUnderOwnNumber, AttemptNeverShared
<1>8. PushedAll'
  BY DEF PushedAll, TypeOK, ClaimHeld
<1>9. DeadOnlyWhenExhausted'
  BY DEF DeadOnlyWhenExhausted, TypeOK, Numbered
<1>10. NotYetInserted'
  BY DEF NotYetInserted
<1> QED
  BY <1>1, <1>2, <1>3, <1>4, <1>5, <1>6, <1>7, <1>8, <1>9, <1>10

LEMMA SelectStep ==
  ASSUME IInv, NEW w \in Workers, NEW e \in Ids, Select(w, e)
  PROVE  IInv'
<1> USE ParameterAssumption
    DEF IInv, InClaim, Holding, Ids, Select, Due, tableVars, LockedByOther, Claimable
<1>1. TypeOK'
  <2>1. (pc \in [Workers -> Steps])'
    BY DEF TypeOK, ClaimHeld, Steps, Statuses
  <2>2. (event \in [Workers -> 0..MaxEvents])'
    BY DEF TypeOK, ClaimHeld, Steps, Statuses
  <2>3. (heldFor \in [Workers -> Nat])'
    BY DEF TypeOK, ClaimHeld, Steps, Statuses
  <2>4. (rowLocks \in [Workers -> SUBSET Ids])'
    BY DEF TypeOK, ClaimHeld, Steps, Statuses
  <2> QED
    BY <2>1, <2>2, <2>3, <2>4 DEF TypeOK
<1>2. ClaimHeld'
  <2>1. e \in Due(w)
    OBVIOUS
  <2>2. ASSUME NEW v \in Workers
        PROVE  /\ InClaim(v)' => event'[v] \in Ids
               /\ pc'[v] = "commit" => /\ event'[v] \in rowLocks'[v]
                                       /\ attempts'[event'[v]] < MaxClaims
                                       /\ status'[event'[v]] \notin {"ABSENT", "SENT", "DEAD"}
    <3>1. CASE v = w
      BY <2>1, <3>1 DEF TypeOK
    <3>2. CASE v # w
      BY <3>2 DEF TypeOK, ClaimHeld
    <3> QED
      BY <3>1, <3>2
  <2> QED
    BY <2>2 DEF ClaimHeld
<1>3. LocksDisjoint'
  BY DEF LocksDisjoint, TypeOK, ClaimHeld
<1>4. Numbered'
  BY DEF Numbered, TypeOK, ClaimHeld
<1>5. AttemptNeverShared'
  BY DEF AttemptNeverShared, TypeOK, Numbered
<1>6. PushedUnderOwnNumber'
  BY DEF PushedUnderOwnNumber, TypeOK, ClaimHeld, Numbered, AttemptNeverShared
<1>7. OncePerAttempt'
  BY DEF OncePerAttempt, TypeOK, ClaimHeld, PushedUnderOwnNumber, AttemptNeverShared
<1>8. PushedAll'
  BY DEF PushedAll, TypeOK, ClaimHeld
<1>9. DeadOnlyWhenExhausted'
  BY DEF DeadOnlyWhenExhausted, TypeOK, Numbered
<1>10. NotYetInserted'
  BY DEF NotYetInserted
<1> QED
  BY <1>1, <1>2, <1>3, <1>4, <1>5, <1>6, <1>7, <1>8, <1>9, <1>10

LEMMA SelectNoneStep ==
  ASSUME IInv, NEW w \in Workers, SelectNone(w)
  PROVE  IInv'
<1> USE ParameterAssumption
    DEF IInv, InClaim, Holding, Ids, SelectNone, tableVars
<1>1. TypeOK'
  BY DEF TypeOK, ClaimHeld, Steps, Statuses
<1>2. ClaimHeld'
  BY DEF ClaimHeld, TypeOK, LocksDisjoint
<1>3. LocksDisjoint'
  BY DEF LocksDisjoint, TypeOK, ClaimHeld
<1>4. Numbered'
  BY DEF Numbered, TypeOK, ClaimHeld
<1>5. AttemptNeverShared'
  BY DEF AttemptNeverShared, TypeOK, Numbered
<1>6. PushedUnderOwnNumber'
  BY DEF PushedUnderOwnNumber, TypeOK, ClaimHeld, Numbered, AttemptNeverShared
<1>7. OncePerAttempt'
  BY DEF OncePerAttempt, TypeOK, ClaimHeld, PushedUnderOwnNumber, AttemptNeverShared
<1>8. PushedAll'
  BY DEF PushedAll, TypeOK, ClaimHeld
<1>9. DeadOnlyWhenExhausted'
  BY DEF DeadOnlyWhenExhausted, TypeOK, Numbered
<1>10. NotYetInserted'
  BY DEF NotYetInserted
<1> QED
  BY <1>1, <1>2, <1>3, <1>4, <1>5, <1>6, <1>7, <1>8, <1>9, <1>10

LEMMA CommitStep ==
  ASSUME IInv, NEW w \in Workers, CommitClaim(w)
  PROVE  IInv'
<1> USE ParameterAssumption
    DEF IInv, InClaim, Holding, Ids, CommitClaim, NextAttempt
<1> DEFINE e == event[w]
<1>0. /\ e \in Ids
      /\ e \in rowLocks[w]
      /\ attempts[e] \in 0..MaxClaims
      /\ attempts[e] < MaxClaims
  BY DEF ClaimHeld, TypeOK
<1>a. /\ attempts' = [attempts EXCEPT ![e] = attempts[e] + 1]
      /\ attempts'[e] = attempts[e] + 1
      /\ \A x \in Ids : attempts[x] <= attempts'[x]
  <2>1. attempts' = [attempts EXCEPT ![e] = attempts[e] + 1]
    OBVIOUS
  <2>2. attempts'[e] = attempts[e] + 1
        /\ \A x \in Ids : x # e => attempts'[x] = attempts[x]
    BY <1>0, <2>1 DEF TypeOK
  <2>3. \A x \in Ids : attempts[x] \in Nat
    BY DEF TypeOK
  <2>4. ASSUME NEW x \in Ids PROVE attempts[x] <= attempts'[x]
    BY <2>2, <2>3
  <2> QED
    BY <2>1, <2>2, <2>4
<1>b. /\ pc'[w] = "resolve"
      /\ attempt'[w] = attempts[e] + 1
      /\ \A v \in Workers : v # w => pc'[v] = pc[v] /\ attempt'[v] = attempt[v]
  BY DEF TypeOK
<1>1. TypeOK'
  <2>1. attempts[e] + 1 \in 0..MaxClaims
    BY <1>0
  <2>2. (pc \in [Workers -> Steps])'
    BY DEF TypeOK, Steps
  <2>3. (status \in [Ids -> Statuses])'
    BY DEF TypeOK, Statuses
  <2>4. (lockAge \in [Ids -> Nat])'
    BY DEF TypeOK
  <2>5. (attempts \in [Ids -> 0..MaxClaims])'
    BY <2>1 DEF TypeOK
  <2>6. (attempt \in [Workers -> 0..MaxClaims])'
    BY <2>1 DEF TypeOK
  <2>7. (rowLocks \in [Workers -> SUBSET Ids])'
    BY DEF TypeOK
  <2> QED
    BY <2>2, <2>3, <2>4, <2>5, <2>6, <2>7 DEF TypeOK
<1>2. ClaimHeld'
  <2> SUFFICES ASSUME NEW v \in Workers
               PROVE  /\ InClaim(v)' => event'[v] \in Ids
                      /\ pc'[v] = "commit" =>
                           /\ event'[v] \in rowLocks'[v]
                           /\ attempts'[event'[v]] < MaxClaims
                           /\ status'[event'[v]] \notin {"ABSENT", "SENT", "DEAD"}
    BY DEF ClaimHeld
  <2>1. CASE v = w
    BY <1>0, <1>b, <2>1
  <2>2. CASE v # w
    <3>1. pc'[v] = pc[v] /\ event'[v] = event[v] /\ rowLocks'[v] = rowLocks[v]
      BY <2>2 DEF TypeOK
    <3>2. InClaim(v)' => event'[v] \in Ids
      BY <3>1 DEF ClaimHeld
    <3>3. ASSUME pc[v] = "commit"
          PROVE  event[v] # e /\ attempts'[event[v]] < MaxClaims
                 /\ status'[event[v]] \notin {"ABSENT", "SENT", "DEAD"}
      BY <1>0, <2>2, <3>3 DEF ClaimHeld, LocksDisjoint, TypeOK
    <3> QED
      BY <3>1, <3>2, <3>3 DEF ClaimHeld
  <2> QED
    BY <2>1, <2>2
<1>3. LocksDisjoint'
  <2>1. /\ rowLocks'[w] = {}
        /\ \A v \in Workers : v # w => rowLocks'[v] = rowLocks[v]
    BY DEF TypeOK
  <2> QED
    BY <1>b, <2>1 DEF LocksDisjoint
<1>4. Numbered'
  <2> SUFFICES ASSUME NEW v \in Workers, Holding(v)'
               PROVE  attempt'[v] <= attempts'[event'[v]]
    BY DEF Numbered
  <2>1. CASE v = w
    BY <1>a, <1>b, <2>1, <1>0
  <2>2. CASE v # w
    <3>1. Holding(v) /\ event[v] \in Ids
      BY <1>b, <2>2 DEF ClaimHeld
    <3>2. attempt[v] <= attempts[event[v]] /\ attempt'[v] = attempt[v]
      BY <1>b, <2>2, <3>1 DEF Numbered
    <3>3. attempts[event[v]] \in Nat /\ attempts'[event[v]] \in Nat /\ attempt[v] \in Nat
      BY <1>1, <3>1 DEF TypeOK
    <3> QED
      BY <1>a, <3>1, <3>2, <3>3
  <2> QED
    BY <2>1, <2>2
<1>5. AttemptNeverShared'
  <2>1. ASSUME NEW v \in Workers, v # w, Holding(v), event[v] = e
        PROVE  attempt'[v] # attempt'[w]
    BY <1>0, <1>b, <2>1 DEF Numbered, TypeOK
  <2> QED
    BY <1>b, <2>1 DEF AttemptNeverShared
<1>6. PushedUnderOwnNumber'
  <2>1. ASSUME NEW x \in Ids, NEW p \in pushed[x]
        PROVE  p[1] <= attempts'[x]
    <3>1. p[1] \in Nat /\ p[1] <= attempts[x] /\ attempts[x] \in Nat
      BY <2>1 DEF PushedUnderOwnNumber, TypeOK
    <3>2. attempts'[x] \in Nat
      BY <1>1 DEF TypeOK
    <3> QED
      BY <1>a, <3>1, <3>2
  <2>2. ASSUME NEW t \in Tokens
        PROVE  <<attempts[e] + 1, t>> \notin pushed[e]
    BY <1>0 DEF PushedUnderOwnNumber
  <2> QED
    BY <1>b, <2>1, <2>2 DEF PushedUnderOwnNumber
<1>7. OncePerAttempt'
  BY <1>0 DEF OncePerAttempt, TypeOK, ClaimHeld, PushedUnderOwnNumber, AttemptNeverShared
<1>8. PushedAll'
  BY <1>0 DEF PushedAll, TypeOK, ClaimHeld
<1>9. DeadOnlyWhenExhausted'
  BY <1>0 DEF DeadOnlyWhenExhausted, TypeOK, Numbered
<1>10. NotYetInserted'
  BY <1>0 DEF NotYetInserted, ClaimHeld, TypeOK
<1> QED
  BY <1>1, <1>2, <1>3, <1>4, <1>5, <1>6, <1>7, <1>8, <1>9, <1>10

LEMMA ResolveStep ==
  ASSUME IInv, NEW w \in Workers, Resolve(w)
  PROVE  IInv'
<1> USE ParameterAssumption
    DEF IInv, InClaim, Holding, Ids, Resolve, tableVars
<1>0. event[w] \in Ids
  BY DEF ClaimHeld
<1>a. ResolveTokens(event[w]) \in SUBSET Tokens
  <2>1. key[event[w]] \in Keys
    BY <1>0 DEF TypeOK
  <2>2. Audience[key[event[w]]] \subseteq Users
    BY <2>1, PayloadAssumption
  <2> QED
    BY <2>2 DEF TypeOK, ResolveTokens
<1>1. TypeOK'
  <2>1. (targets \in [Workers -> SUBSET Tokens])'
    BY <1>a DEF TypeOK
  <2>2. (todo \in [Workers -> SUBSET Tokens])'
    BY <1>a DEF TypeOK
  <2>3. (pc \in [Workers -> Steps])'
    BY <1>0 DEF TypeOK, Steps, Statuses
  <2> QED
    BY <2>1, <2>2, <2>3 DEF TypeOK
<1>2. ClaimHeld'
  BY <1>0 DEF ClaimHeld, TypeOK, LocksDisjoint
<1>3. LocksDisjoint'
  BY <1>0 DEF LocksDisjoint, TypeOK, ClaimHeld
<1>4. Numbered'
  BY <1>0 DEF Numbered, TypeOK, ClaimHeld
<1>5. AttemptNeverShared'
  BY <1>0 DEF AttemptNeverShared, TypeOK, Numbered
<1>6. PushedUnderOwnNumber'
  BY <1>0 DEF PushedUnderOwnNumber, TypeOK, ClaimHeld, Numbered, AttemptNeverShared
<1>7. OncePerAttempt'
  <2> SUFFICES ASSUME NEW v \in Workers, pc'[v] = "send", NEW t \in todo'[v]
               PROVE  <<attempt'[v], t>> \notin pushed'[event'[v]]
    BY DEF OncePerAttempt
  <2>1. t \in Tokens
    BY <1>1 DEF TypeOK
  <2>2. CASE v = w
    BY <2>1, <2>2 DEF PushedUnderOwnNumber
  <2>3. CASE v # w
    BY <2>3 DEF OncePerAttempt, TypeOK
  <2> QED
    BY <2>2, <2>3
<1>8. PushedAll'
  BY <1>0 DEF PushedAll, TypeOK, ClaimHeld
<1>9. DeadOnlyWhenExhausted'
  BY <1>0 DEF DeadOnlyWhenExhausted, TypeOK, Numbered
<1>10. NotYetInserted'
  BY DEF NotYetInserted
<1> QED
  BY <1>1, <1>2, <1>3, <1>4, <1>5, <1>6, <1>7, <1>8, <1>9, <1>10

LEMMA PushStep ==
  ASSUME IInv, NEW w \in Workers, NEW t \in Tokens, NEW reached \in BOOLEAN,
              NEW accepted \in BOOLEAN, Push(w, t, reached, accepted)
  PROVE  IInv'
<1> USE ParameterAssumption
    DEF IInv, InClaim, Holding, Ids, Push, PushesFailed, tableVars
<1>0. event[w] \in Ids
  BY DEF ClaimHeld
<1>1. TypeOK'
  <2>1. (todo \in [Workers -> SUBSET Tokens])'
    BY <1>0 DEF TypeOK, Steps, Statuses
  <2>2. (failed \in [Workers -> BOOLEAN])'
    BY <1>0 DEF TypeOK, Steps, Statuses
  <2>3. (pushed \in [Ids -> SUBSET (Nat \X Tokens)])'
    BY <1>0 DEF TypeOK, Steps, Statuses
  <2> QED
    BY <2>1, <2>2, <2>3 DEF TypeOK
<1>2. ClaimHeld'
  BY <1>0 DEF ClaimHeld, TypeOK, LocksDisjoint
<1>3. LocksDisjoint'
  BY <1>0 DEF LocksDisjoint, TypeOK, ClaimHeld
<1>4. Numbered'
  BY <1>0 DEF Numbered, TypeOK, ClaimHeld
<1>5. AttemptNeverShared'
  BY <1>0 DEF AttemptNeverShared, TypeOK, Numbered
<1>6. PushedUnderOwnNumber'
  <2>1. \A x \in Ids : \A p \in pushed'[x] :
            p \in pushed[x] \/ (x = event[w] /\ p = <<attempt[w], t>>)
    BY <1>0 DEF TypeOK
  <2>2. \A x \in Ids : \A p \in pushed'[x] : p[1] <= attempts[x]
    BY <1>0, <2>1 DEF PushedUnderOwnNumber, Numbered
  <2>3. ASSUME NEW v \in Workers, pc[v] = "resolve", NEW d \in Tokens
        PROVE  <<attempt[v], d>> \notin pushed'[event[v]]
    <3>1. <<attempt[v], d>> \notin pushed[event[v]] /\ event[v] \in Ids
      BY <2>3 DEF PushedUnderOwnNumber, ClaimHeld
    <3>2. event[v] = event[w] => attempt[v] # attempt[w]
      BY <2>3 DEF AttemptNeverShared
    <3> QED
      BY <2>1, <3>1, <3>2
  <2> QED
    BY <2>2, <2>3 DEF PushedUnderOwnNumber
<1>7. OncePerAttempt'
  BY <1>0 DEF OncePerAttempt, TypeOK, ClaimHeld, PushedUnderOwnNumber, AttemptNeverShared
<1>8. PushedAll'
  BY <1>0 DEF PushedAll, TypeOK, ClaimHeld
<1>9. DeadOnlyWhenExhausted'
  BY <1>0 DEF DeadOnlyWhenExhausted, TypeOK, Numbered
<1>10. NotYetInserted'
  BY DEF NotYetInserted
<1> QED
  BY <1>1, <1>2, <1>3, <1>4, <1>5, <1>6, <1>7, <1>8, <1>9, <1>10

LEMMA AllTriedStep ==
  ASSUME IInv, NEW w \in Workers, AllTried(w)
  PROVE  IInv'
<1> USE ParameterAssumption
    DEF IInv, InClaim, Holding, Ids, AllTried, tableVars
<1>1. TypeOK'
  BY DEF TypeOK, ClaimHeld, Steps, Statuses
<1>2. ClaimHeld'
  BY DEF ClaimHeld, TypeOK, LocksDisjoint
<1>3. LocksDisjoint'
  BY DEF LocksDisjoint, TypeOK, ClaimHeld
<1>4. Numbered'
  BY DEF Numbered, TypeOK, ClaimHeld
<1>5. AttemptNeverShared'
  BY DEF AttemptNeverShared, TypeOK, Numbered
<1>6. PushedUnderOwnNumber'
  BY DEF PushedUnderOwnNumber, TypeOK, ClaimHeld, Numbered, AttemptNeverShared
<1>7. OncePerAttempt'
  BY DEF OncePerAttempt, TypeOK, ClaimHeld, PushedUnderOwnNumber, AttemptNeverShared
<1>8. PushedAll'
  BY DEF PushedAll, TypeOK, ClaimHeld
<1>9. DeadOnlyWhenExhausted'
  BY DEF DeadOnlyWhenExhausted, TypeOK, Numbered
<1>10. NotYetInserted'
  BY DEF NotYetInserted
<1> QED
  BY <1>1, <1>2, <1>3, <1>4, <1>5, <1>6, <1>7, <1>8, <1>9, <1>10

\* What the two UPDATEs have in common.
LEMMA MarkStep ==
  ASSUME IInv, NEW w \in Workers, pc[w] = "mark",
         NextInBatch(w), ~LockedByOther(w, event[w]),
         status' \in [Ids -> Statuses],
         lockAge' \in [Ids -> Nat],
         wait' \in [Ids -> Nat],
         \A x \in Ids : x # event[w] => status'[x] = status[x],
         status'[event[w]] # status[event[w]] => status[event[w]] = "PROCESSING",
         status'[event[w]] = "DEAD" => attempts[event[w]] >= MaxAttempts,
         UNCHANGED <<lastId, key, attempts, device, pushed, faults>>
  PROVE  IInv'
<1> USE DEF IInv, InClaim, Holding
<1>0. event[w] \in Ids
  BY DEF ClaimHeld
<1>a. /\ pc'[w] \in {"select", "idle"}
      /\ rowLocks'[w] = {}
      /\ \A v \in Workers : v # w =>
            /\ pc'[v] = pc[v]
            /\ event'[v] = event[v]
            /\ attempt'[v] = attempt[v]
            /\ rowLocks'[v] = rowLocks[v]
            /\ targets'[v] = targets[v]
            /\ todo'[v] = todo[v]
            /\ failed'[v] = failed[v]
  BY DEF NextInBatch, Forget, TypeOK
<1>1. TypeOK'
  <2>1. (pc \in [Workers -> Steps])' /\ (batch \in [Workers -> Nat])'
    BY ParameterAssumption DEF NextInBatch, TypeOK, Steps
  <2>2. /\ (event \in [Workers -> 0..MaxEvents])'
        /\ (attempt \in [Workers -> 0..MaxClaims])'
        /\ (heldFor \in [Workers -> Nat])'
    BY ParameterAssumption DEF NextInBatch, Forget, TypeOK
  <2>3. /\ (rowLocks \in [Workers -> SUBSET Ids])'
        /\ (targets \in [Workers -> SUBSET Tokens])'
        /\ (todo \in [Workers -> SUBSET Tokens])'
        /\ (failed \in [Workers -> BOOLEAN])'
    BY DEF NextInBatch, Forget, TypeOK
  <2> QED
    BY <2>1, <2>2, <2>3 DEF TypeOK
<1>2. ClaimHeld'
  <2>1. ASSUME NEW v \in Workers, v # w, pc[v] = "commit"
        PROVE  event[v] # event[w] /\ event[v] \in Ids
    BY <2>1 DEF ClaimHeld, LockedByOther
  <2> QED
    BY <1>a, <2>1 DEF ClaimHeld
<1>3. LocksDisjoint'
  BY <1>a DEF LocksDisjoint
<1>4. Numbered'
  BY <1>a DEF Numbered
<1>5. AttemptNeverShared'
  BY <1>a DEF AttemptNeverShared
<1>6. PushedUnderOwnNumber'
  BY <1>a DEF PushedUnderOwnNumber
<1>7. OncePerAttempt'
  BY <1>a DEF OncePerAttempt
<1>8. PushedAll'
  BY <1>a DEF PushedAll
<1>9. DeadOnlyWhenExhausted'
  BY DEF DeadOnlyWhenExhausted
<1>10. NotYetInserted'
  BY DEF NotYetInserted
<1> QED
  BY <1>1, <1>2, <1>3, <1>4, <1>5, <1>6, <1>7, <1>8, <1>9, <1>10

LEMMA MarkSentStep ==
  ASSUME IInv, NEW w \in Workers, MarkSent(w)
  PROVE  IInv'
<1> DEFINE e == event[w]
<1>1. e \in Ids /\ TypeOK
  BY DEF IInv, ClaimHeld, InClaim, Holding, MarkSent
<1>2. \/ status[e] = "PROCESSING" /\ status' = [status EXCEPT ![e] = "SENT"]
         /\ lockAge' = [lockAge EXCEPT ![e] = 0]
      \/ UNCHANGED <<status, lockAge>>
  BY DEF MarkSent, MayMark
<1>3. /\ status' \in [Ids -> Statuses]
      /\ lockAge' \in [Ids -> Nat]
      /\ wait' \in [Ids -> Nat]
      /\ \A x \in Ids : x # e => status'[x] = status[x]
      /\ status'[e] # status[e] => status[e] = "PROCESSING"
      /\ status'[e] = "DEAD" => status[e] = "DEAD"
  BY <1>1, <1>2 DEF TypeOK, Statuses, MarkSent
<1>4. status'[e] = "DEAD" => attempts[e] >= MaxAttempts
  BY <1>1, <1>3 DEF IInv, DeadOnlyWhenExhausted
<1> QED
  BY <1>3, <1>4, MarkStep DEF MarkSent

LEMMA MarkFailedStep ==
  ASSUME IInv, NEW w \in Workers, MarkFailed(w)
  PROVE  IInv'
<1> DEFINE e == event[w]
           given == IF attempt[w] >= MaxAttempts THEN "DEAD" ELSE "FAILED"
<1>1. e \in Ids /\ TypeOK
  BY DEF IInv, ClaimHeld, InClaim, Holding, MarkFailed
<1>2. RetryDelay(attempt[w]) \in Nat
  BY <1>1, DelayIsNat DEF TypeOK
<1>3. \/ /\ status[e] = "PROCESSING"
         /\ status' = [status EXCEPT ![e] = given]
         /\ lockAge' = [lockAge EXCEPT ![e] = 0]
         /\ wait' = [wait EXCEPT ![e] = RetryDelay(attempt[w])]
      \/ UNCHANGED <<status, lockAge, wait>>
  BY DEF MarkFailed, MayMark, Exhausted
<1>4. given \in {"DEAD", "FAILED"}
  OBVIOUS
<1>5. /\ status' \in [Ids -> Statuses]
      /\ lockAge' \in [Ids -> Nat]
      /\ wait' \in [Ids -> Nat]
      /\ \A x \in Ids : x # e => status'[x] = status[x]
      /\ status'[e] # status[e] => status[e] = "PROCESSING"
      /\ status'[e] = "DEAD" => status[e] = "DEAD" \/ given = "DEAD"
  <2> HIDE DEF given
  <2> QED
    BY <1>1, <1>2, <1>3, <1>4 DEF TypeOK, Statuses
<1>6. ASSUME given = "DEAD" PROVE attempts[e] >= MaxAttempts
  <2>1. attempt[w] >= MaxAttempts
    BY <1>6
  <2>2. attempt[w] <= attempts[e]
    BY DEF IInv, Numbered, Holding, MarkFailed
  <2> QED
    BY <1>1, <2>1, <2>2, ParameterAssumption DEF TypeOK
<1>7. status'[e] = "DEAD" => attempts[e] >= MaxAttempts
  BY <1>1, <1>5, <1>6 DEF IInv, DeadOnlyWhenExhausted
<1> QED
  BY <1>5, <1>7, MarkStep DEF MarkFailed

LEMMA TryFailsStep ==
  ASSUME IInv, NEW w \in Workers, TryFails(w)
  PROVE  IInv'
<1> USE ParameterAssumption
    DEF IInv, InClaim, Holding, Ids, TryFails, tableVars
<1>1. TypeOK'
  BY DEF TypeOK, Steps
<1>2. ClaimHeld'
  BY DEF ClaimHeld, TypeOK, LocksDisjoint
<1>3. LocksDisjoint'
  BY DEF LocksDisjoint, TypeOK, ClaimHeld
<1>4. Numbered'
  BY DEF Numbered, TypeOK, ClaimHeld
<1>5. AttemptNeverShared'
  BY DEF AttemptNeverShared, TypeOK, Numbered
<1>6. PushedUnderOwnNumber'
  BY DEF PushedUnderOwnNumber, TypeOK, ClaimHeld, Numbered, AttemptNeverShared
<1>7. OncePerAttempt'
  BY DEF OncePerAttempt, TypeOK, ClaimHeld, PushedUnderOwnNumber, AttemptNeverShared
<1>8. PushedAll'
  BY DEF PushedAll, TypeOK, ClaimHeld
<1>9. DeadOnlyWhenExhausted'
  BY DEF DeadOnlyWhenExhausted, TypeOK, Numbered
<1>10. NotYetInserted'
  BY DEF NotYetInserted
<1> QED
  BY <1>1, <1>2, <1>3, <1>4, <1>5, <1>6, <1>7, <1>8, <1>9, <1>10

LEMMA PollAbortsStep ==
  ASSUME IInv, NEW w \in Workers, PollAborts(w)
  PROVE  IInv'
<1> USE ParameterAssumption
    DEF IInv, InClaim, Holding, Ids, PollAborts, tableVars, Forget
<1>1. TypeOK'
  <2>1. (faults \in Nat)'
    BY DEF TypeOK, ClaimHeld, Steps, Statuses
  <2>2. (pc \in [Workers -> Steps])'
    BY DEF TypeOK, ClaimHeld, Steps, Statuses
  <2>3. (batch \in [Workers -> Nat])'
    BY DEF TypeOK, ClaimHeld, Steps, Statuses
  <2>4. (event \in [Workers -> 0..MaxEvents])'
    BY DEF TypeOK, ClaimHeld, Steps, Statuses
  <2>5. (attempt \in [Workers -> 0..MaxClaims])'
    BY DEF TypeOK, ClaimHeld, Steps, Statuses
  <2>6. (heldFor \in [Workers -> Nat])'
    BY DEF TypeOK, ClaimHeld, Steps, Statuses
  <2>7. (rowLocks \in [Workers -> SUBSET Ids])'
    BY DEF TypeOK, ClaimHeld, Steps, Statuses
  <2>8. (targets \in [Workers -> SUBSET Tokens])'
    BY DEF TypeOK, ClaimHeld, Steps, Statuses
  <2>9. (todo \in [Workers -> SUBSET Tokens])'
    BY DEF TypeOK, ClaimHeld, Steps, Statuses
  <2>10. (failed \in [Workers -> BOOLEAN])'
    BY DEF TypeOK, ClaimHeld, Steps, Statuses
  <2> QED
    BY <2>1, <2>2, <2>3, <2>4, <2>5, <2>6, <2>7, <2>8, <2>9, <2>10 DEF TypeOK
<1>2. ClaimHeld'
  BY DEF ClaimHeld, TypeOK, LocksDisjoint
<1>3. LocksDisjoint'
  BY DEF LocksDisjoint, TypeOK, ClaimHeld
<1>4. Numbered'
  BY DEF Numbered, TypeOK, ClaimHeld
<1>5. AttemptNeverShared'
  BY DEF AttemptNeverShared, TypeOK, Numbered
<1>6. PushedUnderOwnNumber'
  BY DEF PushedUnderOwnNumber, TypeOK, ClaimHeld, Numbered, AttemptNeverShared
<1>7. OncePerAttempt'
  BY DEF OncePerAttempt, TypeOK, ClaimHeld, PushedUnderOwnNumber, AttemptNeverShared
<1>8. PushedAll'
  BY DEF PushedAll, TypeOK, ClaimHeld
<1>9. DeadOnlyWhenExhausted'
  BY DEF DeadOnlyWhenExhausted, TypeOK, Numbered
<1>10. NotYetInserted'
  BY DEF NotYetInserted
<1> QED
  BY <1>1, <1>2, <1>3, <1>4, <1>5, <1>6, <1>7, <1>8, <1>9, <1>10

LEMMA CrashStep ==
  ASSUME IInv, NEW w \in Workers, Crash(w)
  PROVE  IInv'
<1> USE ParameterAssumption
    DEF IInv, InClaim, Holding, Ids, Crash, tableVars, Forget
<1>1. TypeOK'
  <2>1. (faults \in Nat)'
    BY DEF TypeOK, ClaimHeld, Steps, Statuses
  <2>2. (pc \in [Workers -> Steps])'
    BY DEF TypeOK, ClaimHeld, Steps, Statuses
  <2>3. (batch \in [Workers -> Nat])'
    BY DEF TypeOK, ClaimHeld, Steps, Statuses
  <2>4. (event \in [Workers -> 0..MaxEvents])'
    BY DEF TypeOK, ClaimHeld, Steps, Statuses
  <2>5. (attempt \in [Workers -> 0..MaxClaims])'
    BY DEF TypeOK, ClaimHeld, Steps, Statuses
  <2>6. (heldFor \in [Workers -> Nat])'
    BY DEF TypeOK, ClaimHeld, Steps, Statuses
  <2>7. (rowLocks \in [Workers -> SUBSET Ids])'
    BY DEF TypeOK, ClaimHeld, Steps, Statuses
  <2>8. (targets \in [Workers -> SUBSET Tokens])'
    BY DEF TypeOK, ClaimHeld, Steps, Statuses
  <2>9. (todo \in [Workers -> SUBSET Tokens])'
    BY DEF TypeOK, ClaimHeld, Steps, Statuses
  <2>10. (failed \in [Workers -> BOOLEAN])'
    BY DEF TypeOK, ClaimHeld, Steps, Statuses
  <2> QED
    BY <2>1, <2>2, <2>3, <2>4, <2>5, <2>6, <2>7, <2>8, <2>9, <2>10 DEF TypeOK
<1>2. ClaimHeld'
  BY DEF ClaimHeld, TypeOK, LocksDisjoint
<1>3. LocksDisjoint'
  BY DEF LocksDisjoint, TypeOK, ClaimHeld
<1>4. Numbered'
  BY DEF Numbered, TypeOK, ClaimHeld
<1>5. AttemptNeverShared'
  BY DEF AttemptNeverShared, TypeOK, Numbered
<1>6. PushedUnderOwnNumber'
  BY DEF PushedUnderOwnNumber, TypeOK, ClaimHeld, Numbered, AttemptNeverShared
<1>7. OncePerAttempt'
  BY DEF OncePerAttempt, TypeOK, ClaimHeld, PushedUnderOwnNumber, AttemptNeverShared
<1>8. PushedAll'
  BY DEF PushedAll, TypeOK, ClaimHeld
<1>9. DeadOnlyWhenExhausted'
  BY DEF DeadOnlyWhenExhausted, TypeOK, Numbered
<1>10. NotYetInserted'
  BY DEF NotYetInserted
<1> QED
  BY <1>1, <1>2, <1>3, <1>4, <1>5, <1>6, <1>7, <1>8, <1>9, <1>10

LEMMA RestartStep ==
  ASSUME IInv, NEW w \in Workers, Restart(w)
  PROVE  IInv'
<1> USE ParameterAssumption
    DEF IInv, InClaim, Holding, Ids, Restart, tableVars
<1>1. TypeOK'
  BY DEF TypeOK, ClaimHeld, Steps, Statuses
<1>2. ClaimHeld'
  BY DEF ClaimHeld, TypeOK, LocksDisjoint
<1>3. LocksDisjoint'
  BY DEF LocksDisjoint, TypeOK, ClaimHeld
<1>4. Numbered'
  BY DEF Numbered, TypeOK, ClaimHeld
<1>5. AttemptNeverShared'
  BY DEF AttemptNeverShared, TypeOK, Numbered
<1>6. PushedUnderOwnNumber'
  BY DEF PushedUnderOwnNumber, TypeOK, ClaimHeld, Numbered, AttemptNeverShared
<1>7. OncePerAttempt'
  BY DEF OncePerAttempt, TypeOK, ClaimHeld, PushedUnderOwnNumber, AttemptNeverShared
<1>8. PushedAll'
  BY DEF PushedAll, TypeOK, ClaimHeld
<1>9. DeadOnlyWhenExhausted'
  BY DEF DeadOnlyWhenExhausted, TypeOK, Numbered
<1>10. NotYetInserted'
  BY DEF NotYetInserted
<1> QED
  BY <1>1, <1>2, <1>3, <1>4, <1>5, <1>6, <1>7, <1>8, <1>9, <1>10

LEMMA TickStep ==
  ASSUME IInv, Tick
  PROVE  IInv'
<1> USE ParameterAssumption
    DEF IInv, InClaim, Holding, Ids, Tick, AgeOf
<1>1. TypeOK'
  <2>1. (wait \in [Ids -> Nat])'
    BY DEF TypeOK, ClaimHeld, Steps, Statuses
  <2>2. (lockAge \in [Ids -> Nat])'
    BY DEF TypeOK, ClaimHeld, Steps, Statuses
  <2>3. (heldFor \in [Workers -> Nat])'
    BY DEF TypeOK, ClaimHeld, Steps, Statuses
  <2> QED
    BY <2>1, <2>2, <2>3 DEF TypeOK
<1>2. ClaimHeld'
  BY DEF ClaimHeld, TypeOK, LocksDisjoint
<1>3. LocksDisjoint'
  BY DEF LocksDisjoint, TypeOK, ClaimHeld
<1>4. Numbered'
  BY DEF Numbered, TypeOK, ClaimHeld
<1>5. AttemptNeverShared'
  BY DEF AttemptNeverShared, TypeOK, Numbered
<1>6. PushedUnderOwnNumber'
  BY DEF PushedUnderOwnNumber, TypeOK, ClaimHeld, Numbered, AttemptNeverShared
<1>7. OncePerAttempt'
  BY DEF OncePerAttempt, TypeOK, ClaimHeld, PushedUnderOwnNumber, AttemptNeverShared
<1>8. PushedAll'
  BY DEF PushedAll, TypeOK, ClaimHeld
<1>9. DeadOnlyWhenExhausted'
  BY DEF DeadOnlyWhenExhausted, TypeOK, Numbered
<1>10. NotYetInserted'
  BY DEF NotYetInserted
<1> QED
  BY <1>1, <1>2, <1>3, <1>4, <1>5, <1>6, <1>7, <1>8, <1>9, <1>10

LEMMA NextIInv == IInv /\ [Next]_vars => IInv'
<1> SUFFICES ASSUME IInv, [Next]_vars PROVE IInv'
  OBVIOUS
<1>1. CASE \E k \in Keys, delay \in FirstDelays : Enqueue(k, delay)
  BY <1>1, EnqueueStep
<1>2. CASE \E u \in Users, t \in Tokens \cup {NoToken} : Register(u, t)
  BY <1>2, RegisterStep
<1>3. ASSUME NEW w \in Workers, Work(w) PROVE IInv'
  <2>1. CASE Poll(w)
    BY <2>1, PollStep
  <2>2. CASE \E e \in Ids : Select(w, e)
    BY <2>2, SelectStep
  <2>3. CASE SelectNone(w)
    BY <2>3, SelectNoneStep
  <2>4. CASE CommitClaim(w)
    BY <2>4, CommitStep
  <2>5. CASE Resolve(w)
    BY <2>5, ResolveStep
  <2>6. CASE \E t \in Tokens, reached, accepted \in BOOLEAN : Push(w, t, reached, accepted)
    BY <2>6, PushStep
  <2>7. CASE AllTried(w)
    BY <2>7, AllTriedStep
  <2>8. CASE MarkSent(w)
    BY <2>8, MarkSentStep
  <2>9. CASE MarkFailed(w)
    BY <2>9, MarkFailedStep
  <2>10. CASE Restart(w)
    BY <2>10, RestartStep
  <2> QED
    BY <1>3, <2>1, <2>2, <2>3, <2>4, <2>5, <2>6, <2>7, <2>8, <2>9, <2>10 DEF Work
<1>4. ASSUME NEW w \in Workers, TryFails(w) \/ PollAborts(w) \/ Crash(w) PROVE IInv'
  BY <1>4, TryFailsStep, PollAbortsStep, CrashStep
<1>5. CASE Tick
  BY <1>5, TickStep
<1>6. CASE UNCHANGED vars
  <2> USE <1>6 DEF IInv, vars, tableVars, workVars
  <2>1. TypeOK' /\ ClaimHeld' /\ LocksDisjoint' /\ NotYetInserted'
    BY DEF TypeOK, ClaimHeld, LocksDisjoint, NotYetInserted, InClaim, Holding
  <2>2. Numbered' /\ AttemptNeverShared' /\ PushedUnderOwnNumber' /\ OncePerAttempt'
    BY DEF Numbered, AttemptNeverShared, PushedUnderOwnNumber, OncePerAttempt, Holding
  <2>3. PushedAll' /\ DeadOnlyWhenExhausted'
    BY DEF PushedAll, DeadOnlyWhenExhausted
  <2> QED
    BY <2>1, <2>2, <2>3
<1> QED
  BY <1>1, <1>2, <1>3, <1>4, <1>5, <1>6 DEF Next

(* The invariant of the whole argument holds in every reachable state.      *)
THEOREM Invariance == Spec => []IInv
BY InitIInv, NextIInv, PTL DEF Spec

(* Every column and every worker variable keeps its type; the attempts      *)
(* column never passes the bound on claims.                                 *)
THEOREM TypeCorrect == Spec => []TypeOK
<1>1. IInv => TypeOK
  BY DEF IInv
<1> QED
  BY <1>1, Invariance, PTL

(* However slow workers are and however often they crash, an attempt number *)
(* belongs to one claim: claimNext takes it from a locked row.              *)
THEOREM AttemptsAreOwned == Spec => []AttemptNeverShared
<1>1. IInv => AttemptNeverShared
  BY DEF IInv
<1> QED
  BY <1>1, Invariance, PTL

(* No device is pushed twice in one attempt, so the duplicates a device can *)
(* see are bounded by the claims of the event.                              *)
THEOREM PushedOncePerAttempt == Spec => []OncePerAttempt
<1>1. IInv => OncePerAttempt
  BY DEF IInv
<1> QED
  BY <1>1, Invariance, PTL

(* No event is DEAD before MAX_ATTEMPTS claims, though markFailed decides   *)
(* it from the worker's copy of the row.                                    *)
THEOREM DeadIsExhausted == Spec => []DeadOnlyWhenExhausted
<1>1. IInv => DeadOnlyWhenExhausted
  BY DEF IInv
<1> QED
  BY <1>1, Invariance, PTL

(* The attempts are counted: no number is given twice, and none is skipped  *)
(* on the way to DEAD.                                                      *)
THEOREM AttemptsAreCounted == Spec => []AttemptsCounted
<1>1. IInv => AttemptsCounted
  BY DEF IInv, AttemptsCounted
<1> QED
  BY <1>1, Invariance, PTL

-----------------------------------------------------------------------------

\* Which steps write the status column, and what they leave.
LEMMA StatusWriters ==
  ASSUME IInv, Next, NEW e \in Ids, status'[e] # status[e]
  PROVE  \/ status[e] = "ABSENT" /\ status'[e] = "PENDING"
         \/ \E w \in Workers : CommitClaim(w) /\ e = event[w]
         \/ \E w \in Workers : MarkSent(w) /\ e = event[w] /\ status[e] = "PROCESSING"
         \/ \E w \in Workers : /\ MarkFailed(w) /\ e = event[w]
                               /\ status[e] = "PROCESSING"
                               /\ status'[e] # "SENT"
<1> USE DEF IInv
<1>1. ASSUME NEW k \in Keys, NEW d \in FirstDelays, Enqueue(k, d)
      PROVE  status[e] = "ABSENT" /\ status'[e] = "PENDING"
  <2>1. e = lastId + 1 /\ status'[e] = "PENDING"
    BY <1>1 DEF Enqueue, TypeOK
  <2> QED
    BY <2>1 DEF NotYetInserted, TypeOK
<1>2. ASSUME NEW w \in Workers, CommitClaim(w)
      PROVE  e = event[w]
  BY <1>2 DEF CommitClaim, TypeOK
<1>3. ASSUME NEW w \in Workers, MarkSent(w)
      PROVE  e = event[w] /\ status[e] = "PROCESSING"
  BY <1>3 DEF MarkSent, MayMark, TypeOK
<1>4. ASSUME NEW w \in Workers, MarkFailed(w)
      PROVE  e = event[w] /\ status[e] = "PROCESSING" /\ status'[e] # "SENT"
  <2>1. /\ status[event[w]] = "PROCESSING"
        /\ \/ status' = [status EXCEPT ![event[w]] = "DEAD"]
           \/ status' = [status EXCEPT ![event[w]] = "FAILED"]
    BY <1>4 DEF MarkFailed, MayMark, Exhausted
  <2> QED
    BY <2>1 DEF TypeOK
<1>5. ASSUME NEW w \in Workers,
             \/ Poll(w) \/ SelectNone(w) \/ Resolve(w) \/ AllTried(w) \/ Restart(w)
             \/ TryFails(w) \/ PollAborts(w) \/ Crash(w)
      PROVE  FALSE
  BY <1>5 DEF Poll, SelectNone, Resolve, AllTried, Restart, TryFails, PollAborts,
     Crash, tableVars
<1>6. ASSUME NEW w \in Workers, NEW x \in Ids, Select(w, x) PROVE FALSE
  BY <1>6 DEF Select, tableVars
<1>7. ASSUME NEW w \in Workers, NEW t \in Tokens, NEW r \in BOOLEAN, NEW a \in BOOLEAN,
             Push(w, t, r, a)
      PROVE  FALSE
  BY <1>7 DEF Push, tableVars
<1>8. ASSUME NEW u \in Users, NEW t \in Tokens \cup {NoToken}, Register(u, t) PROVE FALSE
  BY <1>8 DEF Register, tableVars
<1>9. ASSUME Tick PROVE FALSE
  BY <1>9 DEF Tick
<1> QED
  BY <1>1, <1>2, <1>3, <1>4, <1>5, <1>6, <1>7, <1>8, <1>9 DEF Next, Work

(* SENT and DEAD are final: a claim never commits on such a row (the row it *)
(* selected stays locked), and both UPDATEs require PROCESSING.             *)
THEOREM TerminalStays == Spec => TerminalIsFinal
<1>1. ASSUME IInv, Next, NEW e \in Ids, status[e] \in {"SENT", "DEAD"}
      PROVE  status'[e] = status[e]
  <2>1. SUFFICES ASSUME status'[e] # status[e] PROVE FALSE
    OBVIOUS
  <2>2. ASSUME NEW w \in Workers, CommitClaim(w), e = event[w] PROVE FALSE
    BY <1>1, <2>2 DEF CommitClaim, IInv, ClaimHeld
  <2> QED
    BY <1>1, <2>1, <2>2, StatusWriters
<1>2. IInv /\ [Next]_vars =>
        [\A e \in Ids : status[e] \in {"SENT", "DEAD"} => status'[e] = status[e]]_vars
  BY <1>1
<1> QED
  BY <1>2, Invariance, PTL DEF Spec, TerminalIsFinal

(* An event becomes SENT only by a worker whose own attempt reached every   *)
(* device it resolved; no error path of processEvent loses the event.       *)
THEOREM SentIsDelivered == Spec => SentOnlyIfDelivered
<1> DEFINE Reached(e) ==
      \E w \in Workers :
          /\ Holding(w)
          /\ event[w] = e
          /\ \A t \in targets[w] : <<attempt[w], t>> \in pushed[e]
<1>1. ASSUME IInv, Next, NEW e \in Ids, status[e] # "SENT", status'[e] = "SENT"
      PROVE  Reached(e)
  <2>1. ASSUME NEW w \in Workers, CommitClaim(w), e = event[w] PROVE FALSE
    BY <1>1, <2>1 DEF CommitClaim, IInv, TypeOK
  <2>2. PICK w \in Workers : MarkSent(w) /\ e = event[w]
    BY <1>1, <2>1, StatusWriters
  <2>3. Holding(w) /\ pc[w] = "mark" /\ ~failed[w]
    BY <2>2 DEF MarkSent, Holding
  <2>4. \A t \in targets[w] : <<attempt[w], t>> \in pushed[e]
    BY <1>1, <2>2, <2>3 DEF IInv, PushedAll
  <2> QED
    BY <2>2, <2>3, <2>4
<1>2. IInv /\ [Next]_vars =>
        [\A e \in Ids : status[e] # "SENT" /\ status'[e] = "SENT" => Reached(e)]_vars
  BY <1>1
<1> QED
  BY <1>2, Invariance, PTL DEF Spec, SentOnlyIfDelivered

-----------------------------------------------------------------------------

\* With prompt workers: a holder's row is PROCESSING under its number and not
\* yet stale, and a row in an open claim transaction has no holder.
LeaseHeld ==
    \A w \in Workers : Holding(w) =>
        /\ status[event[w]] = "PROCESSING"
        /\ attempts[event[w]] = attempt[w]
        /\ lockAge[event[w]] <= heldFor[w]
        /\ heldFor[w] < StaleLock

ClaimIsFree ==
    \A w \in Workers : pc[w] = "commit" =>
        /\ heldFor[w] < StaleLock
        /\ \A v \in Workers : Holding(v) => event[v] # event[w]

OneHolder ==
    \A v, w \in Workers :
        v # w /\ Holding(v) /\ Holding(w) => event[v] # event[w]

LeaseInv == LeaseHeld /\ ClaimIsFree /\ OneHolder

LEMMA LeaseEnqueueStep ==
  ASSUME Prompt, IInv, IInv', LeaseInv, NEW k \in Keys, NEW delay \in FirstDelays, Enqueue(k, delay)
  PROVE  LeaseInv'
<1> USE ParameterAssumption
    DEF IInv, LeaseInv, Holding, InClaim, Enqueue, workVars
<1>1. LeaseHeld'
  <2>1. ASSUME NEW w \in Workers, Holding(w)
        PROVE  event[w] \in Ids /\ event[w] # lastId + 1
    BY <2>1 DEF TypeOK, ClaimHeld, LeaseHeld, NotYetInserted
  <2> QED
    BY <2>1 DEF TypeOK, LeaseHeld
<1>2. ClaimIsFree'
  BY DEF ClaimIsFree, TypeOK, ClaimHeld, LeaseHeld, LocksDisjoint
<1>3. OneHolder'
  BY DEF OneHolder, TypeOK, ClaimIsFree
<1> QED
  BY <1>1, <1>2, <1>3

LEMMA LeaseRegisterStep ==
  ASSUME Prompt, IInv, IInv', LeaseInv, NEW u \in Users, NEW t \in Tokens \cup {NoToken}, Register(u, t)
  PROVE  LeaseInv'
<1> USE ParameterAssumption
    DEF IInv, LeaseInv, Holding, InClaim, Register, tableVars, workVars
<1>1. LeaseHeld'
  BY DEF LeaseHeld, TypeOK, ClaimHeld, OneHolder
<1>2. ClaimIsFree'
  BY DEF ClaimIsFree, TypeOK, ClaimHeld, LeaseHeld, LocksDisjoint
<1>3. OneHolder'
  BY DEF OneHolder, TypeOK, ClaimIsFree
<1> QED
  BY <1>1, <1>2, <1>3

LEMMA LeasePollStep ==
  ASSUME Prompt, IInv, IInv', LeaseInv, NEW w \in Workers, Poll(w)
  PROVE  LeaseInv'
<1> USE ParameterAssumption
    DEF IInv, LeaseInv, Holding, InClaim, Poll, tableVars
<1>1. LeaseHeld'
  BY DEF LeaseHeld, TypeOK, ClaimHeld, OneHolder
<1>2. ClaimIsFree'
  BY DEF ClaimIsFree, TypeOK, ClaimHeld, LeaseHeld, LocksDisjoint
<1>3. OneHolder'
  BY DEF OneHolder, TypeOK, ClaimIsFree
<1> QED
  BY <1>1, <1>2, <1>3

LEMMA LeaseSelectStep ==
  ASSUME Prompt, IInv, IInv', LeaseInv, NEW w \in Workers, NEW e \in Ids, Select(w, e)
  PROVE  LeaseInv'
<1> USE ParameterAssumption
    DEF IInv, LeaseInv, Holding, InClaim, Select, Due, tableVars, LockedByOther, Claimable
<1>1. LeaseHeld'
  BY DEF LeaseHeld, TypeOK, ClaimHeld, OneHolder
<1>2. ClaimIsFree'
  BY DEF ClaimIsFree, TypeOK, ClaimHeld, LeaseHeld, LocksDisjoint
<1>3. OneHolder'
  BY DEF OneHolder, TypeOK, ClaimIsFree
<1> QED
  BY <1>1, <1>2, <1>3

LEMMA LeaseSelectNoneStep ==
  ASSUME Prompt, IInv, IInv', LeaseInv, NEW w \in Workers, SelectNone(w)
  PROVE  LeaseInv'
<1> USE ParameterAssumption
    DEF IInv, LeaseInv, Holding, InClaim, SelectNone, tableVars
<1>1. LeaseHeld'
  BY DEF LeaseHeld, TypeOK, ClaimHeld, OneHolder
<1>2. ClaimIsFree'
  BY DEF ClaimIsFree, TypeOK, ClaimHeld, LeaseHeld, LocksDisjoint
<1>3. OneHolder'
  BY DEF OneHolder, TypeOK, ClaimIsFree
<1> QED
  BY <1>1, <1>2, <1>3

LEMMA LeaseCommitStep ==
  ASSUME Prompt, IInv, IInv', LeaseInv, NEW w \in Workers, CommitClaim(w)
  PROVE  LeaseInv'
<1> USE ParameterAssumption
    DEF IInv, LeaseInv, Holding, InClaim, CommitClaim, NextAttempt
<1>1. LeaseHeld'
  <2>0. event[w] \in Ids /\ heldFor[w] \in Nat /\ heldFor[w] < StaleLock
    BY DEF ClaimHeld, ClaimIsFree, TypeOK
  <2>1. /\ status'[event[w]] = "PROCESSING"
        /\ attempts'[event[w]] = attempt'[w]
        /\ lockAge'[event[w]] = heldFor[w]
    BY <2>0 DEF TypeOK
  <2>2. ASSUME NEW v \in Workers, v # w, Holding(v)
        PROVE  /\ status'[event[v]] = status[event[v]]
               /\ attempts'[event[v]] = attempts[event[v]]
               /\ lockAge'[event[v]] = lockAge[event[v]]
               /\ attempt'[v] = attempt[v]
    <3>1. event[v] \in Ids /\ event[v] # event[w]
      BY <2>2 DEF ClaimHeld, ClaimIsFree
    <3> QED
      BY <2>2, <3>1 DEF TypeOK
  <2>3. \A v \in Workers : v # w /\ Holding(v)' => Holding(v)
    BY DEF TypeOK
  <2> QED
    BY <2>0, <2>1, <2>2, <2>3 DEF LeaseHeld
<1>2. ClaimIsFree'
  BY DEF ClaimIsFree, TypeOK, ClaimHeld, LeaseHeld, LocksDisjoint
<1>3. OneHolder'
  BY DEF OneHolder, TypeOK, ClaimIsFree
<1> QED
  BY <1>1, <1>2, <1>3

LEMMA LeaseResolveStep ==
  ASSUME Prompt, IInv, IInv', LeaseInv, NEW w \in Workers, Resolve(w)
  PROVE  LeaseInv'
<1> USE ParameterAssumption
    DEF IInv, LeaseInv, Holding, InClaim, Resolve, tableVars, ResolveTokens
<1>1. LeaseHeld'
  BY DEF LeaseHeld, TypeOK, ClaimHeld, OneHolder
<1>2. ClaimIsFree'
  BY DEF ClaimIsFree, TypeOK, ClaimHeld, LeaseHeld, LocksDisjoint
<1>3. OneHolder'
  BY DEF OneHolder, TypeOK, ClaimIsFree
<1> QED
  BY <1>1, <1>2, <1>3

LEMMA LeasePushStep ==
  ASSUME Prompt, IInv, IInv', LeaseInv, NEW w \in Workers, NEW t \in Tokens, NEW reached \in BOOLEAN,
              NEW accepted \in BOOLEAN, Push(w, t, reached, accepted)
  PROVE  LeaseInv'
<1> USE ParameterAssumption
    DEF IInv, LeaseInv, Holding, InClaim, Push, PushesFailed, tableVars
<1>1. LeaseHeld'
  BY DEF LeaseHeld, TypeOK, ClaimHeld, OneHolder
<1>2. ClaimIsFree'
  BY DEF ClaimIsFree, TypeOK, ClaimHeld, LeaseHeld, LocksDisjoint
<1>3. OneHolder'
  BY DEF OneHolder, TypeOK, ClaimIsFree
<1> QED
  BY <1>1, <1>2, <1>3

LEMMA LeaseAllTriedStep ==
  ASSUME Prompt, IInv, IInv', LeaseInv, NEW w \in Workers, AllTried(w)
  PROVE  LeaseInv'
<1> USE ParameterAssumption
    DEF IInv, LeaseInv, Holding, InClaim, AllTried, tableVars
<1>1. LeaseHeld'
  BY DEF LeaseHeld, TypeOK, ClaimHeld, OneHolder
<1>2. ClaimIsFree'
  BY DEF ClaimIsFree, TypeOK, ClaimHeld, LeaseHeld, LocksDisjoint
<1>3. OneHolder'
  BY DEF OneHolder, TypeOK, ClaimIsFree
<1> QED
  BY <1>1, <1>2, <1>3

LEMMA LeaseMarkSentStep ==
  ASSUME Prompt, IInv, IInv', LeaseInv, NEW w \in Workers, MarkSent(w)
  PROVE  LeaseInv'
<1> USE ParameterAssumption
    DEF IInv, LeaseInv, Holding, InClaim, MayMark, MarkSent, NextInBatch, Forget, LockedByOther
<1>1. LeaseHeld'
  BY DEF LeaseHeld, TypeOK, ClaimHeld, OneHolder
<1>2. ClaimIsFree'
  BY DEF ClaimIsFree, TypeOK, ClaimHeld, LeaseHeld, LocksDisjoint
<1>3. OneHolder'
  BY DEF OneHolder, TypeOK, ClaimIsFree
<1> QED
  BY <1>1, <1>2, <1>3

LEMMA LeaseMarkFailedStep ==
  ASSUME Prompt, IInv, IInv', LeaseInv, NEW w \in Workers, MarkFailed(w)
  PROVE  LeaseInv'
<1> USE ParameterAssumption
    DEF IInv, LeaseInv, Holding, InClaim, MayMark, Exhausted, MarkFailed, NextInBatch, Forget, LockedByOther
<1>1. LeaseHeld'
  BY DEF LeaseHeld, TypeOK, ClaimHeld, OneHolder
<1>2. ClaimIsFree'
  BY DEF ClaimIsFree, TypeOK, ClaimHeld, LeaseHeld, LocksDisjoint
<1>3. OneHolder'
  BY DEF OneHolder, TypeOK, ClaimIsFree
<1> QED
  BY <1>1, <1>2, <1>3

LEMMA LeaseTryFailsStep ==
  ASSUME Prompt, IInv, IInv', LeaseInv, NEW w \in Workers, TryFails(w)
  PROVE  LeaseInv'
<1> USE ParameterAssumption
    DEF IInv, LeaseInv, Holding, InClaim, TryFails, tableVars
<1>1. LeaseHeld'
  BY DEF LeaseHeld, TypeOK, ClaimHeld, OneHolder
<1>2. ClaimIsFree'
  BY DEF ClaimIsFree, TypeOK, ClaimHeld, LeaseHeld, LocksDisjoint
<1>3. OneHolder'
  BY DEF OneHolder, TypeOK, ClaimIsFree
<1> QED
  BY <1>1, <1>2, <1>3

LEMMA LeasePollAbortsStep ==
  ASSUME Prompt, IInv, IInv', LeaseInv, NEW w \in Workers, PollAborts(w)
  PROVE  LeaseInv'
<1> USE ParameterAssumption
    DEF IInv, LeaseInv, Holding, InClaim, PollAborts, tableVars, Forget
<1>1. LeaseHeld'
  BY DEF LeaseHeld, TypeOK, ClaimHeld, OneHolder
<1>2. ClaimIsFree'
  BY DEF ClaimIsFree, TypeOK, ClaimHeld, LeaseHeld, LocksDisjoint
<1>3. OneHolder'
  BY DEF OneHolder, TypeOK, ClaimIsFree
<1> QED
  BY <1>1, <1>2, <1>3

LEMMA LeaseCrashStep ==
  ASSUME Prompt, IInv, IInv', LeaseInv, NEW w \in Workers, Crash(w)
  PROVE  LeaseInv'
<1> USE ParameterAssumption
    DEF IInv, LeaseInv, Holding, InClaim, Crash, tableVars, Forget
<1>1. LeaseHeld'
  BY DEF LeaseHeld, TypeOK, ClaimHeld, OneHolder
<1>2. ClaimIsFree'
  BY DEF ClaimIsFree, TypeOK, ClaimHeld, LeaseHeld, LocksDisjoint
<1>3. OneHolder'
  BY DEF OneHolder, TypeOK, ClaimIsFree
<1> QED
  BY <1>1, <1>2, <1>3

LEMMA LeaseRestartStep ==
  ASSUME Prompt, IInv, IInv', LeaseInv, NEW w \in Workers, Restart(w)
  PROVE  LeaseInv'
<1> USE ParameterAssumption
    DEF IInv, LeaseInv, Holding, InClaim, Restart, tableVars
<1>1. LeaseHeld'
  BY DEF LeaseHeld, TypeOK, ClaimHeld, OneHolder
<1>2. ClaimIsFree'
  BY DEF ClaimIsFree, TypeOK, ClaimHeld, LeaseHeld, LocksDisjoint
<1>3. OneHolder'
  BY DEF OneHolder, TypeOK, ClaimIsFree
<1> QED
  BY <1>1, <1>2, <1>3

LEMMA LeaseTickStep ==
  ASSUME Prompt, IInv, IInv', LeaseInv, Tick
  PROVE  LeaseInv'
<1> USE ParameterAssumption
    DEF IInv, LeaseInv, Holding, InClaim, Tick, AgeOf
<1>1. LeaseHeld'
  BY DEF LeaseHeld, TypeOK, ClaimHeld, OneHolder
<1>2. ClaimIsFree'
  BY DEF ClaimIsFree, TypeOK, ClaimHeld, LeaseHeld, LocksDisjoint
<1>3. OneHolder'
  BY DEF OneHolder, TypeOK, ClaimIsFree
<1> QED
  BY <1>1, <1>2, <1>3

LEMMA NextLeaseInv ==
  ASSUME Prompt, IInv, IInv', LeaseInv, [Next]_vars
  PROVE  LeaseInv'
<1>1. CASE \E k \in Keys, delay \in FirstDelays : Enqueue(k, delay)
  BY <1>1, LeaseEnqueueStep
<1>2. CASE \E u \in Users, t \in Tokens \cup {NoToken} : Register(u, t)
  BY <1>2, LeaseRegisterStep
<1>3. ASSUME NEW w \in Workers, Work(w) PROVE LeaseInv'
  <2>1. CASE Poll(w)
    BY <2>1, LeasePollStep
  <2>2. CASE \E e \in Ids : Select(w, e)
    BY <2>2, LeaseSelectStep
  <2>3. CASE SelectNone(w)
    BY <2>3, LeaseSelectNoneStep
  <2>4. CASE CommitClaim(w)
    BY <2>4, LeaseCommitStep
  <2>5. CASE Resolve(w)
    BY <2>5, LeaseResolveStep
  <2>6. CASE \E t \in Tokens, reached, accepted \in BOOLEAN : Push(w, t, reached, accepted)
    BY <2>6, LeasePushStep
  <2>7. CASE AllTried(w)
    BY <2>7, LeaseAllTriedStep
  <2>8. CASE MarkSent(w)
    BY <2>8, LeaseMarkSentStep
  <2>9. CASE MarkFailed(w)
    BY <2>9, LeaseMarkFailedStep
  <2>10. CASE Restart(w)
    BY <2>10, LeaseRestartStep
  <2> QED
    BY <1>3, <2>1, <2>2, <2>3, <2>4, <2>5, <2>6, <2>7, <2>8, <2>9, <2>10 DEF Work
<1>4. ASSUME NEW w \in Workers, TryFails(w) \/ PollAborts(w) \/ Crash(w)
      PROVE  LeaseInv'
  BY <1>4, LeaseTryFailsStep, LeasePollAbortsStep, LeaseCrashStep
<1>5. CASE Tick
  BY <1>5, LeaseTickStep
<1>6. CASE UNCHANGED vars
  BY <1>6 DEF LeaseInv, LeaseHeld, ClaimIsFree, OneHolder, Holding, vars, tableVars,
     workVars
<1> QED
  BY <1>1, <1>2, <1>3, <1>4, <1>5, <1>6 DEF Next

(* While no live worker keeps a claim for STALE_LOCK, the lock column is a  *)
(* lease: no two workers ever handle one event, and a mark always lands on  *)
(* the claim it is meant for.                                               *)
THEOREM LeaseTheorem == Spec => []LeaseIsExclusive
<1>1. Init => (Prompt => LeaseInv)
  BY DEF Init, LeaseInv, LeaseHeld, ClaimIsFree, OneHolder, Holding
<1>2. IInv /\ IInv' /\ (Prompt => LeaseInv) /\ [Next]_vars => (Prompt => LeaseInv)'
  BY NextLeaseInv
<1>3. (Prompt => LeaseInv) => LeaseIsExclusive
  BY DEF LeaseInv, LeaseHeld, OneHolder, LeaseIsExclusive
<1> QED
  BY <1>1, <1>2, <1>3, Invariance, PTL DEF Spec
=============================================================================
