------------------------- MODULE CardCreationProofs -------------------------
(***************************************************************************)
(* Proofs of what CardCreation promises for any number of requests, sites, *)
(* drafts and batches.  The inductive invariant says what a request knows  *)
(* at each statement: which site it has locked, that nobody else has, that *)
(* the folio it has computed still follows the last one of that site, and  *)
(* that its card is the only one of its UUID when it has inserted it.      *)
(***************************************************************************)
EXTENDS CardCreation, SequenceTheorems, TLAPS

InTransaction == {"find", "insert", "attach"}
Validated == InTransaction \cup {"lock", "reread"}

\* What a request holds and knows at each of its statements.
Knows(r) ==
    /\ siteLocks[r] = IF pc[r] \in InTransaction THEN {Draft(r).site} ELSE {}
    /\ inserted[r] = IF pc[r] = "attach" THEN {CardOf(Draft(r), folio[r])} ELSE {}
    /\ pc[r] \in Validated => (Draft(r).methodical => Draft(r).value \in Values)
    /\ pc[r] \in {"insert", "attach"} =>
           folio[r] # 0 /\ After(At(Draft(r).site), folio[r])
    /\ pc[r] = "attach" => \A c \in cards : c.uuid # Draft(r).uuid
    /\ pc[r] = "reread" => \E c \in cards : c.uuid = Draft(r).uuid

\* No two requests have locked one site or inserted one UUID.
Apart(q, r) ==
    q # r =>
        /\ siteLocks[q] \cap siteLocks[r] = {}
        /\ \A b \in inserted[q], c \in inserted[r] : b.uuid # c.uuid

\* What a request has been told is so.
Truthful(r) ==
    /\ last[r].outcome # "duplicate record"
    /\ last[r].outcome \in {"created", "existing"} =>
           \E c \in cards :
              /\ c.uuid = last[r].draft.uuid
              /\ c.site = last[r].draft.site
              /\ c.content = last[r].draft.content

IInv ==
    /\ TypeOK
    /\ FoliosConsecutive
    /\ CardIsWhole
    /\ \A r \in Requests : Knows(r) /\ Truthful(r)
    /\ \A q, r \in Requests : Apart(q, r)

-----------------------------------------------------------------------------

LEMMA DraftFacts ==
    ASSUME NEW d \in Drafts
    PROVE  /\ d \in DraftType
           /\ d # NoDraft
BY DraftAssumption

LEMMA InHand ==
    ASSUME TypeOK, NEW r \in Requests, pc[r] # "idle"
    PROVE  /\ Draft(r) \in Drafts
           /\ Draft(r) \in DraftType
           /\ todo[r] \in Seq(Drafts)
           /\ todo[r] # <<>>
BY DraftAssumption DEF TypeOK, Draft

LEMMA CardOfType ==
    ASSUME NEW d \in Drafts, NEW n \in Nat \ {0}, d.methodical => d.value \in Values
    PROVE  /\ CardOf(d, n) \in CardType
           /\ CardOf(d, n).value = NoValue <=> ~d.methodical
           /\ CardOf(d, n).uuid = d.uuid
           /\ CardOf(d, n).site = d.site
           /\ CardOf(d, n).folio = n
           /\ CardOf(d, n).content = d.content
           /\ CardOf(d, n).draft = d
<1>1. d \in DraftType
  BY DraftAssumption
<1>2. NoValue \notin Values
  BY DraftAssumption
<1>3. StoredValue(d) \in Values \cup {NoValue}
  BY <1>1 DEF StoredValue, DraftType
<1>4. StoredValue(d) = NoValue <=> ~d.methodical
  BY <1>1, <1>2 DEF StoredValue, DraftType
<1>5. CardOf(d, n) \in CardType
  BY <1>1, <1>3 DEF CardOf, CardType, DraftType
<1> QED
  BY <1>4, <1>5 DEF CardOf

LEMMA TailFacts ==
    ASSUME NEW S, NEW s \in Seq(S), s # <<>>
    PROVE  Tail(s) \in Seq(S) /\ (Len(s) > 1 <=> Tail(s) # <<>>)
<1>1. Len(s) \in Nat \ {0}
  BY EmptySeq, LenProperties
<1>2. Tail(s) \in Seq(S) /\ Len(Tail(s)) = Len(s) - 1
  BY HeadTailProperties
<1>3. Tail(s) = <<>> <=> Len(Tail(s)) = 0
  BY <1>2, EmptySeq
<1>4. \A m \in Nat \ {0} : m > 1 <=> m - 1 # 0
  OBVIOUS
<1> QED
  BY <1>1, <1>2, <1>3, <1>4, Zenon

\* What every answer does to the request: nothing of its transaction is left.
LEMMA AnswerFacts ==
    ASSUME TypeOK, NEW r \in Requests, pc[r] # "idle", NEW o \in Outcomes, Answer(r, o)
    PROVE  /\ pc' \in [Requests -> Statements]
           /\ todo' \in [Requests -> Seq(Drafts)]
           /\ siteLocks' \in [Requests -> SUBSET Sites]
           /\ folio' \in [Requests -> Nat]
           /\ inserted' \in [Requests -> SUBSET CardType]
           /\ last' \in [Requests -> [draft : Drafts \cup {NoDraft}, outcome : Outcomes]]
           /\ pc'[r] \in {"idle", "check"}
           /\ pc'[r] = "idle" <=> todo'[r] = <<>>
           /\ siteLocks'[r] = {}
           /\ inserted'[r] = {}
           /\ last'[r].draft = Draft(r)
           /\ last'[r].outcome = o
           /\ \A q \in Requests \ {r} :
                 /\ pc'[q] = pc[q]
                 /\ todo'[q] = todo[q]
                 /\ siteLocks'[q] = siteLocks[q]
                 /\ folio'[q] = folio[q]
                 /\ inserted'[q] = inserted[q]
                 /\ last'[q] = last[q]
<1>1. Draft(r) \in Drafts /\ todo[r] \in Seq(Drafts) /\ todo[r] # <<>>
  BY InHand
<1>2. Tail(todo[r]) \in Seq(Drafts) /\ (Len(todo[r]) > 1 <=> Tail(todo[r]) # <<>>)
  BY <1>1, TailFacts
<1>3. todo' = [todo EXCEPT ![r] = Tail(todo[r])]
  BY DEF Answer
<1>4. pc' = [pc EXCEPT ![r] = IF Len(todo[r]) > 1 THEN "check" ELSE "idle"]
  BY DEF Answer
<1>5. last' = [last EXCEPT ![r] = [draft |-> Draft(r), outcome |-> o]]
  BY DEF Answer
<1>6. /\ siteLocks' = [siteLocks EXCEPT ![r] = {}]
      /\ folio' = [folio EXCEPT ![r] = 0]
      /\ inserted' = [inserted EXCEPT ![r] = {}]
  BY DEF Answer, Leave
<1>7. pc' \in [Requests -> Statements] /\ todo' \in [Requests -> Seq(Drafts)]
  BY <1>2, <1>3, <1>4 DEF TypeOK, Statements
<1>8. last' \in [Requests -> [draft : Drafts \cup {NoDraft}, outcome : Outcomes]]
  BY <1>1, <1>5 DEF TypeOK
<1>9. /\ siteLocks' \in [Requests -> SUBSET Sites]
      /\ folio' \in [Requests -> Nat]
      /\ inserted' \in [Requests -> SUBSET CardType]
  BY <1>6 DEF TypeOK
<1>10. /\ pc'[r] = IF Len(todo[r]) > 1 THEN "check" ELSE "idle"
       /\ todo'[r] = Tail(todo[r])
       /\ siteLocks'[r] = {}
       /\ inserted'[r] = {}
       /\ last'[r].draft = Draft(r)
       /\ last'[r].outcome = o
  BY <1>3, <1>4, <1>5, <1>6 DEF TypeOK
<1>11. \A q \in Requests \ {r} :
          /\ pc'[q] = pc[q]
          /\ todo'[q] = todo[q]
          /\ siteLocks'[q] = siteLocks[q]
          /\ folio'[q] = folio[q]
          /\ inserted'[q] = inserted[q]
          /\ last'[q] = last[q]
  BY <1>3, <1>4, <1>5, <1>6 DEF TypeOK
<1> QED
  BY <1>2, <1>7, <1>8, <1>9, <1>10, <1>11

\* A request that a step leaves alone knows what it knew, if the tables do not
\* change.
LEMMA OthersKeep ==
    ASSUME NEW q \in Requests, Knows(q), Truthful(q), cards' = cards,
           pc'[q] = pc[q], todo'[q] = todo[q], siteLocks'[q] = siteLocks[q],
           folio'[q] = folio[q], inserted'[q] = inserted[q], last'[q] = last[q]
    PROVE  Knows(q)' /\ Truthful(q)'
<1>1. Draft(q)' = Draft(q)
  BY DEF Draft
<1>2. At(Draft(q).site)' = At(Draft(q).site)
  BY <1>1 DEF At
<1>3. CardOf(Draft(q), folio[q])' = CardOf(Draft(q), folio[q])
  BY <1>1 DEF CardOf, StoredValue
<1>4. After(At(Draft(q).site), folio[q])' <=> After(At(Draft(q).site), folio[q])
  BY <1>1, <1>2 DEF After
<1>5. Knows(q)'
  BY <1>1, <1>3, <1>4 DEF Knows
<1>6. Truthful(q)'
  BY DEF Truthful
<1> QED
  BY <1>5, <1>6

\* A step of one request that leaves the tables alone.
LEMMA AloneKeeps ==
    ASSUME IInv, NEW r \in Requests, UNCHANGED <<cards, attached>>,
           TypeOK', Knows(r)', Truthful(r)',
           \A q \in Requests \ {r} :
               /\ pc'[q] = pc[q]
               /\ todo'[q] = todo[q]
               /\ siteLocks'[q] = siteLocks[q]
               /\ folio'[q] = folio[q]
               /\ inserted'[q] = inserted[q]
               /\ last'[q] = last[q]
               /\ siteLocks'[r] \cap siteLocks[q] = {}
               /\ \A b \in inserted'[r], c \in inserted[q] : b.uuid # c.uuid
    PROVE  IInv'
<1>1. FoliosConsecutive' /\ CardIsWhole'
  BY DEF IInv, FoliosConsecutive, CardIsWhole, Clash
<1>2. ASSUME NEW q \in Requests PROVE Knows(q)' /\ Truthful(q)'
  <2>1. CASE q = r
    BY <2>1
  <2>2. CASE q # r
    <3>1. Knows(q) /\ Truthful(q)
      BY DEF IInv
    <3> QED
      BY <2>2, <3>1, OthersKeep
  <2> QED
    BY <2>1, <2>2
<1>3. ASSUME NEW p \in Requests, NEW q \in Requests PROVE Apart(p, q)'
  <2>1. Apart(p, q)
    BY DEF IInv
  <2>2. CASE p # r /\ q # r
    BY <2>1, <2>2 DEF Apart
  <2>3. CASE p = r \/ q = r
    BY <2>3 DEF Apart
  <2> QED
    BY <2>2, <2>3
<1> QED
  BY <1>1, <1>2, <1>3 DEF IInv

\* An answer that tells the truth, and leaves the tables alone.
LEMMA AnswerKeeps ==
    ASSUME IInv, NEW r \in Requests, pc[r] # "idle",
           NEW o \in Outcomes \ {"duplicate record"}, Answer(r, o),
           UNCHANGED <<cards, attached>>,
           o \in {"created", "existing"} =>
               \E c \in cards : /\ c.uuid = Draft(r).uuid
                                /\ c.site = Draft(r).site
                                /\ c.content = Draft(r).content
    PROVE  IInv'
<1>1. TypeOK
  BY DEF IInv
<1>2. pc'[r] \in {"idle", "check"} /\ siteLocks'[r] = {} /\ inserted'[r] = {}
  BY <1>1, AnswerFacts
<1>3. last'[r].draft = Draft(r) /\ last'[r].outcome = o
  BY <1>1, AnswerFacts
<1>4. \A q \in Requests \ {r} :
         /\ pc'[q] = pc[q]
         /\ todo'[q] = todo[q]
         /\ siteLocks'[q] = siteLocks[q]
         /\ folio'[q] = folio[q]
         /\ inserted'[q] = inserted[q]
         /\ last'[q] = last[q]
  BY <1>1, AnswerFacts
<1>5. TypeOK'
  <2>1. ASSUME NEW q \in Requests PROVE pc'[q] = "idle" <=> todo'[q] = <<>>
    <3>1. CASE q = r
      BY <1>1, <3>1, AnswerFacts
    <3>2. CASE q # r
      <4>1. pc'[q] = pc[q] /\ todo'[q] = todo[q]
        BY <3>2, <1>4
      <4> QED
        BY <1>1, <4>1 DEF TypeOK
    <3> QED
      BY <3>1, <3>2
  <2>2. /\ cards' \subseteq CardType
        /\ \A c \in cards' : c.value = NoValue <=> ~c.draft.methodical
        /\ attached' \subseteq Uuids \X (Parts \cup {SiteEvent})
    BY <1>1 DEF TypeOK
  <2>3. /\ pc' \in [Requests -> Statements]
        /\ todo' \in [Requests -> Seq(Drafts)]
        /\ siteLocks' \in [Requests -> SUBSET Sites]
        /\ folio' \in [Requests -> Nat]
        /\ inserted' \in [Requests -> SUBSET CardType]
        /\ last' \in [Requests -> [draft : Drafts \cup {NoDraft}, outcome : Outcomes]]
    BY <1>1, AnswerFacts
  <2> QED
    BY <2>1, <2>2, <2>3 DEF TypeOK
<1>6. Knows(r)'
  BY <1>2 DEF Knows, InTransaction, Validated
<1>7. Truthful(r)'
  <2>1. cards' = cards
    OBVIOUS
  <2> QED
    BY <1>3, <2>1 DEF Truthful
<1> QED
  BY <1>2, <1>5, <1>6, <1>7, <1>4, AloneKeeps

\* A statement that is not the last of its draft, and what it may change.
LEMMA StatementKeeps ==
    ASSUME IInv, NEW r \in Requests, pc[r] # "idle", NEW next \in Statements \ {"idle"},
           Statement(r, next), UNCHANGED <<cards, attached>>,
           siteLocks' \in [Requests -> SUBSET Sites],
           folio' \in [Requests -> Nat],
           inserted' \in [Requests -> SUBSET CardType],
           \A q \in Requests \ {r} :
               /\ siteLocks'[q] = siteLocks[q]
               /\ folio'[q] = folio[q]
               /\ inserted'[q] = inserted[q]
               /\ siteLocks'[r] \cap siteLocks[q] = {}
               /\ \A b \in inserted'[r], c \in inserted[q] : b.uuid # c.uuid,
           siteLocks'[r] = IF next \in InTransaction THEN {Draft(r).site} ELSE {},
           inserted'[r] = IF next = "attach" THEN {CardOf(Draft(r), folio'[r])} ELSE {},
           next \in Validated => (Draft(r).methodical => Draft(r).value \in Values),
           next \in {"insert", "attach"} =>
               folio'[r] # 0 /\ After(At(Draft(r).site), folio'[r]),
           next = "attach" => \A c \in cards : c.uuid # Draft(r).uuid,
           next = "reread" => \E c \in cards : c.uuid = Draft(r).uuid
    PROVE  IInv'
<1>1. TypeOK
  BY DEF IInv
<1>2. pc' = [pc EXCEPT ![r] = next] /\ todo' = todo /\ last' = last
  BY DEF Statement
<1>3. pc'[r] = next
  BY <1>1, <1>2 DEF TypeOK
<1>4. \A q \in Requests \ {r} :
         /\ pc'[q] = pc[q]
         /\ todo'[q] = todo[q]
         /\ siteLocks'[q] = siteLocks[q]
         /\ folio'[q] = folio[q]
         /\ inserted'[q] = inserted[q]
         /\ last'[q] = last[q]
  BY <1>1, <1>2 DEF TypeOK
<1>5. TypeOK'
  <2>1. /\ cards' \subseteq CardType
        /\ \A c \in cards' : c.value = NoValue <=> ~c.draft.methodical
        /\ attached' \subseteq Uuids \X (Parts \cup {SiteEvent})
    BY <1>1 DEF TypeOK
  <2>2. /\ pc' \in [Requests -> Statements]
        /\ todo' \in [Requests -> Seq(Drafts)]
        /\ last' \in [Requests -> [draft : Drafts \cup {NoDraft}, outcome : Outcomes]]
    BY <1>1, <1>2 DEF TypeOK
  <2>3. \A q \in Requests : pc'[q] = "idle" <=> todo'[q] = <<>>
    BY <1>1, <1>2, <1>3, <1>4 DEF TypeOK
  <2> QED
    BY <2>1, <2>2, <2>3 DEF TypeOK
<1>6. Draft(r)' = Draft(r) /\ cards' = cards
  BY <1>2 DEF Draft
<1>7. Knows(r)'
  <2>1. CardOf(Draft(r), folio[r])' = CardOf(Draft(r), folio'[r])
    BY <1>6 DEF CardOf, StoredValue
  <2>2. After(At(Draft(r).site), folio[r])' <=> After(At(Draft(r).site), folio'[r])
    BY <1>6 DEF After, At
  <2> QED
    BY <1>3, <1>6, <2>1, <2>2 DEF Knows
<1>8. Truthful(r)'
  BY <1>2, <1>6 DEF Truthful, IInv
<1> QED
  BY <1>3, <1>4, <1>5, <1>7, <1>8, AloneKeeps

LEMMA CheckKeeps ==
    ASSUME IInv, NEW r \in Requests, Check(r)
    PROVE  IInv'
<1>1. pc[r] # "idle" /\ pc[r] \notin InTransaction /\ UNCHANGED <<cards, attached>>
  BY DEF Check, InTransaction
<1>2. CASE \E c \in cards :
             /\ c.uuid = Draft(r).uuid
             /\ Answer(r, IF MatchesSent(c, Draft(r)) THEN "existing" ELSE "duplicate uuid")
  <2>1. PICK c \in cards :
           /\ c.uuid = Draft(r).uuid
           /\ Answer(r, IF MatchesSent(c, Draft(r)) THEN "existing" ELSE "duplicate uuid")
    BY <1>2
  <2>2. CASE MatchesSent(c, Draft(r))
    BY <1>1, <2>1, <2>2, AnswerKeeps DEF MatchesSent, SameContent, Outcomes
  <2>3. CASE ~MatchesSent(c, Draft(r))
    BY <1>1, <2>1, <2>3, AnswerKeeps DEF Outcomes
  <2> QED
    BY <2>2, <2>3
<1>3. CASE /\ Statement(r, "validate")
           /\ UNCHANGED <<siteLocks, folio, inserted>>
  <2>1. TypeOK /\ Knows(r)
    BY DEF IInv
  <2>2. siteLocks[r] = {} /\ inserted[r] = {}
    BY <1>1, <2>1 DEF Knows, InTransaction
  <2>3. siteLocks' = siteLocks /\ folio' = folio /\ inserted' = inserted
    BY <1>3
  <2>4. "validate" \in Statements \ {"idle"} /\ "validate" \notin Validated
    BY DEF Statements, Validated, InTransaction
  <2>5. "validate" \notin InTransaction
    BY DEF InTransaction
  <2> QED
    BY <1>1, <1>3, <2>1, <2>2, <2>3, <2>4, <2>5, StatementKeeps DEF TypeOK
<1> QED
  BY <1>2, <1>3 DEF Check

LEMMA ValidateKeeps ==
    ASSUME IInv, NEW r \in Requests, Validate(r)
    PROVE  IInv'
<1>1. pc[r] # "idle" /\ pc[r] \notin InTransaction /\ UNCHANGED <<cards, attached>>
  BY DEF Validate, InTransaction
<1>2. CASE Answer(r, "refused")
  BY <1>1, <1>2, AnswerKeeps DEF Outcomes
<1>3. CASE /\ Draft(r).methodical => Draft(r).value \in Values
           /\ Statement(r, "lock")
           /\ UNCHANGED <<siteLocks, folio, inserted>>
  <2>1. TypeOK /\ Knows(r)
    BY DEF IInv
  <2>2. siteLocks[r] = {} /\ inserted[r] = {}
    BY <1>1, <2>1 DEF Knows, InTransaction
  <2>3. siteLocks' = siteLocks /\ folio' = folio /\ inserted' = inserted
    BY <1>3
  <2>4. "lock" \in Statements \ {"idle"} /\ "lock" \notin InTransaction
    BY DEF Statements, InTransaction
  <2> QED
    BY <1>1, <1>3, <2>1, <2>2, <2>3, <2>4, StatementKeeps DEF TypeOK
<1> QED
  BY <1>2, <1>3 DEF Validate

LEMMA LockSiteKeeps ==
    ASSUME IInv, NEW r \in Requests, LockSite(r)
    PROVE  IInv'
<1>1. /\ pc[r] = "lock"
      /\ Granted(r)
      /\ siteLocks' = [siteLocks EXCEPT ![r] = {Draft(r).site}]
      /\ Statement(r, "find")
      /\ UNCHANGED <<cards, attached, folio, inserted>>
  BY DEF LockSite
<1>2. TypeOK /\ Knows(r)
  BY DEF IInv
<1>3. Draft(r) \in DraftType
  BY <1>1, <1>2, InHand
<1>4. inserted[r] = {} /\ (Draft(r).methodical => Draft(r).value \in Values)
  BY <1>1, <1>2 DEF Knows, Validated
<1>5. \A q \in Requests \ {r} : Draft(r).site \notin siteLocks[q]
  BY <1>1 DEF Granted, Blocks
<1>6. siteLocks' \in [Requests -> SUBSET Sites]
  BY <1>1, <1>2, <1>3 DEF TypeOK, DraftType
<1>7. /\ siteLocks'[r] = {Draft(r).site}
      /\ \A q \in Requests \ {r} : siteLocks'[q] = siteLocks[q]
  BY <1>1, <1>2 DEF TypeOK
<1>8. folio' = folio /\ inserted' = inserted
  BY <1>1
<1>9. "find" \in Statements \ {"idle"} /\ "find" \in InTransaction
  BY DEF Statements, InTransaction
<1>10. \A q \in Requests \ {r} :
          /\ siteLocks'[r] \cap siteLocks[q] = {}
          /\ \A b \in inserted'[r], c \in inserted[q] : b.uuid # c.uuid
  BY <1>4, <1>5, <1>7, <1>8
<1>11. folio' \in [Requests -> Nat] /\ inserted' \in [Requests -> SUBSET CardType]
  BY <1>2, <1>8 DEF TypeOK
<1> QED
  BY <1>1, <1>4, <1>6, <1>7, <1>8, <1>9, <1>10, <1>11, StatementKeeps

LEMMA NextFolioFacts ==
    ASSUME TypeOK, NEW s, NEW n \in NextFolio(s)
    PROVE  n \in Nat \ {0} /\ After(At(s), n)
<1>1. n \in {1} \cup {c.folio + 1 : c \in At(s)} /\ After(At(s), n)
  BY DEF NextFolio
<1>2. \A c \in At(s) : c.folio \in Nat
  BY DEF At, TypeOK, CardType
<1> QED
  BY <1>1, <1>2

LEMMA FindKeeps ==
    ASSUME IInv, NEW r \in Requests, Find(r)
    PROVE  IInv'
<1>1. pc[r] = "find" /\ UNCHANGED <<cards, attached>>
  BY DEF Find
<1>2. CASE \E c \in cards :
             /\ c.uuid = Draft(r).uuid
             /\ Answer(r, IF MatchesStored(c, Draft(r)) THEN "existing" ELSE "duplicate uuid")
  <2>1. PICK c \in cards :
           /\ c.uuid = Draft(r).uuid
           /\ Answer(r, IF MatchesStored(c, Draft(r)) THEN "existing" ELSE "duplicate uuid")
    BY <1>2
  <2>2. CASE MatchesStored(c, Draft(r))
    BY <1>1, <2>1, <2>2, AnswerKeeps DEF MatchesStored, SameContent, Outcomes
  <2>3. CASE ~MatchesStored(c, Draft(r))
    BY <1>1, <2>1, <2>3, AnswerKeeps DEF Outcomes
  <2> QED
    BY <2>2, <2>3
<1>3. CASE /\ \E n \in NextFolio(Draft(r).site) : folio' = [folio EXCEPT ![r] = n]
           /\ Statement(r, "insert")
           /\ UNCHANGED <<siteLocks, inserted>>
  <2>1. TypeOK /\ Knows(r)
    BY DEF IInv
  <2>2. PICK n \in NextFolio(Draft(r).site) : folio' = [folio EXCEPT ![r] = n]
    BY <1>3
  <2>3. n \in Nat \ {0} /\ After(At(Draft(r).site), n)
    BY <2>1, NextFolioFacts
  <2>4. /\ folio' \in [Requests -> Nat]
        /\ folio'[r] = n
        /\ \A q \in Requests \ {r} : folio'[q] = folio[q]
    BY <2>1, <2>2, <2>3 DEF TypeOK
  <2>5. /\ siteLocks[r] = {Draft(r).site}
        /\ inserted[r] = {}
        /\ Draft(r).methodical => Draft(r).value \in Values
    BY <1>1, <2>1 DEF Knows, InTransaction, Validated
  <2>6. siteLocks' = siteLocks /\ inserted' = inserted
    BY <1>3
  <2>7. \A q \in Requests \ {r} : siteLocks[r] \cap siteLocks[q] = {}
    BY DEF IInv, Apart
  <2>8. "insert" \in Statements \ {"idle"} /\ "insert" \in InTransaction
    BY DEF Statements, InTransaction
  <2> QED
    BY <1>1, <1>3, <2>1, <2>3, <2>4, <2>5, <2>6, <2>7, <2>8, StatementKeeps DEF TypeOK
<1> QED
  BY <1>2, <1>3 DEF Find

LEMMA InsertKeeps ==
    ASSUME IInv, NEW r \in Requests, Insert(r)
    PROVE  IInv'
<1> DEFINE card == CardOf(Draft(r), folio[r])
<1>1. pc[r] = "insert" /\ Granted(r) /\ UNCHANGED <<cards, attached>>
  BY DEF Insert
<1>2. TypeOK /\ Knows(r)
  BY DEF IInv
<1>3. /\ siteLocks[r] = {Draft(r).site}
      /\ inserted[r] = {}
      /\ Draft(r).methodical => Draft(r).value \in Values
      /\ folio[r] # 0
      /\ After(At(Draft(r).site), folio[r])
  BY <1>1, <1>2 DEF Knows, InTransaction, Validated
<1>4. Draft(r) \in Drafts /\ folio[r] \in Nat \ {0}
  BY <1>1, <1>2, <1>3, InHand DEF TypeOK
<1>5. /\ card \in CardType
      /\ card.uuid = Draft(r).uuid
      /\ card.site = Draft(r).site
      /\ card.folio = folio[r]
  BY <1>3, <1>4, CardOfType
<1>6. \A q \in Requests \ {r} :
         /\ siteLocks[r] \cap siteLocks[q] = {}
         /\ \A c \in inserted[q] : card.uuid # c.uuid
  BY <1>1 DEF IInv, Apart, Granted, Blocks, Clash
<1>7. ASSUME NEW c \in cards, Clash(c, card)
      PROVE  c.uuid = Draft(r).uuid
  <2>1. CASE c.site = card.site /\ c.folio = card.folio
    <3>1. c \in At(Draft(r).site)
      BY <1>5, <2>1 DEF At
    <3>2. c.folio < folio[r] /\ c.folio \in Nat
      BY <1>2, <1>3, <3>1 DEF After, TypeOK, CardType
    <3> QED
      BY <1>4, <1>5, <2>1, <3>2
  <2> QED
    BY <1>5, <1>7, <2>1 DEF Clash
<1>8. CASE /\ \E c \in cards : Clash(c, card)
           /\ Statement(r, "reread")
           /\ Leave(r)
  <2>1. \E c \in cards : c.uuid = Draft(r).uuid
    BY <1>7, <1>8
  <2>2. /\ siteLocks' \in [Requests -> SUBSET Sites]
        /\ folio' \in [Requests -> Nat]
        /\ inserted' \in [Requests -> SUBSET CardType]
        /\ siteLocks'[r] = {}
        /\ inserted'[r] = {}
        /\ \A q \in Requests \ {r} :
              /\ siteLocks'[q] = siteLocks[q]
              /\ folio'[q] = folio[q]
              /\ inserted'[q] = inserted[q]
    BY <1>2, <1>8 DEF Leave, TypeOK
  <2>3. "reread" \in Statements \ {"idle"} /\ "reread" \notin InTransaction
    BY DEF Statements, InTransaction
  <2> QED
    BY <1>1, <1>3, <1>8, <2>1, <2>2, <2>3, StatementKeeps
<1>9. CASE /\ \A c \in cards : ~Clash(c, card)
           /\ inserted' = [inserted EXCEPT ![r] = {card}]
           /\ Statement(r, "attach")
           /\ UNCHANGED <<siteLocks, folio>>
  <2>1. \A c \in cards : c.uuid # Draft(r).uuid
    BY <1>5, <1>9 DEF Clash
  <2>2. /\ inserted' \in [Requests -> SUBSET CardType]
        /\ inserted'[r] = {card}
        /\ \A q \in Requests \ {r} : inserted'[q] = inserted[q]
    BY <1>2, <1>5, <1>9 DEF TypeOK
  <2>3. siteLocks' = siteLocks /\ folio' = folio
    BY <1>9
  <2>4. "attach" \in Statements \ {"idle"} /\ "attach" \in InTransaction
    BY DEF Statements, InTransaction
  <2>5. \A q \in Requests \ {r} : \A b \in {card}, c \in inserted[q] : b.uuid # c.uuid
    BY <1>6
  <2> HIDE DEF card
  <2>6. inserted'[r] = {CardOf(Draft(r), folio'[r])}
    BY <2>2, <2>3 DEF card
  <2> QED
    BY <1>1, <1>2, <1>3, <1>6, <1>9, <2>1, <2>2, <2>3, <2>4, <2>5, <2>6, StatementKeeps DEF TypeOK
<1> QED
  BY <1>8, <1>9 DEF Insert

LEMMA RereadKeeps ==
    ASSUME IInv, NEW r \in Requests, Reread(r)
    PROVE  IInv'
<1>1. pc[r] = "reread" /\ UNCHANGED <<cards, attached>>
  BY DEF Reread
<1>2. \E c \in cards : c.uuid = Draft(r).uuid
  BY <1>1 DEF IInv, Knows
<1>3. PICK c \in cards :
         /\ c.uuid = Draft(r).uuid
         /\ Answer(r, IF MatchesStored(c, Draft(r)) THEN "existing" ELSE "duplicate uuid")
  BY <1>2 DEF Reread
<1>4. CASE MatchesStored(c, Draft(r))
  BY <1>1, <1>3, <1>4, AnswerKeeps DEF MatchesStored, SameContent, Outcomes
<1>5. CASE ~MatchesStored(c, Draft(r))
  BY <1>1, <1>3, <1>5, AnswerKeeps DEF Outcomes
<1> QED
  BY <1>4, <1>5

LEMMA FailsKeeps ==
    ASSUME IInv, NEW r \in Requests, Fails(r)
    PROVE  IInv'
BY AnswerKeeps DEF Fails, Outcomes

\* A request without a transaction that starts anew, or ends.
LEMMA RestartKeeps ==
    ASSUME IInv, NEW r \in Requests, UNCHANGED <<cards, attached>>,
           NEW batch \in Seq(Drafts),
           todo' = [todo EXCEPT ![r] = batch],
           pc' = [pc EXCEPT ![r] = IF batch = <<>> THEN "idle" ELSE "check"],
           last' = [last EXCEPT ![r] = Nothing],
           siteLocks' \in [Requests -> SUBSET Sites],
           folio' \in [Requests -> Nat],
           inserted' \in [Requests -> SUBSET CardType],
           siteLocks'[r] = {},
           inserted'[r] = {},
           \A q \in Requests \ {r} :
               /\ siteLocks'[q] = siteLocks[q]
               /\ folio'[q] = folio[q]
               /\ inserted'[q] = inserted[q]
    PROVE  IInv'
<1>1. TypeOK
  BY DEF IInv
<1>2. /\ pc'[r] = IF batch = <<>> THEN "idle" ELSE "check"
      /\ todo'[r] = batch
      /\ last'[r] = Nothing
  BY <1>1 DEF TypeOK
<1>3. \A q \in Requests \ {r} :
         /\ pc'[q] = pc[q]
         /\ todo'[q] = todo[q]
         /\ siteLocks'[q] = siteLocks[q]
         /\ folio'[q] = folio[q]
         /\ inserted'[q] = inserted[q]
         /\ last'[q] = last[q]
  BY <1>1 DEF TypeOK
<1>4. TypeOK'
  <2>1. /\ cards' \subseteq CardType
        /\ \A c \in cards' : c.value = NoValue <=> ~c.draft.methodical
        /\ attached' \subseteq Uuids \X (Parts \cup {SiteEvent})
    BY <1>1 DEF TypeOK
  <2>2. pc' \in [Requests -> Statements] /\ todo' \in [Requests -> Seq(Drafts)]
    BY <1>1 DEF TypeOK, Statements
  <2>3. last' \in [Requests -> [draft : Drafts \cup {NoDraft}, outcome : Outcomes]]
    BY <1>1 DEF TypeOK, Nothing, Outcomes
  <2>4. \A q \in Requests : pc'[q] = "idle" <=> todo'[q] = <<>>
    BY <1>1, <1>2, <1>3 DEF TypeOK
  <2> QED
    BY <2>1, <2>2, <2>3, <2>4 DEF TypeOK
<1>5. pc'[r] \notin Validated /\ pc'[r] \notin InTransaction
  BY <1>2 DEF Validated, InTransaction
<1>6. Knows(r)'
  BY <1>2, <1>5 DEF Knows, InTransaction
<1>7. Truthful(r)'
  <2>1. last'[r].outcome = "none"
    BY <1>2 DEF Nothing
  <2> QED
    BY <2>1 DEF Truthful
<1> QED
  BY <1>2, <1>3, <1>4, <1>6, <1>7, AloneKeeps

LEMMA CrashKeeps ==
    ASSUME IInv, NEW r \in Requests, Crash(r)
    PROVE  IInv'
<1>1. <<>> \in Seq(Drafts)
  BY EmptySeq
<1>2. pc' = [pc EXCEPT ![r] = IF <<>> = <<>> THEN "idle" ELSE "check"]
  BY DEF Crash
<1>3. TypeOK
  BY DEF IInv
<1>4. /\ siteLocks' \in [Requests -> SUBSET Sites]
      /\ folio' \in [Requests -> Nat]
      /\ inserted' \in [Requests -> SUBSET CardType]
      /\ siteLocks'[r] = {}
      /\ inserted'[r] = {}
      /\ \A q \in Requests \ {r} :
            /\ siteLocks'[q] = siteLocks[q]
            /\ folio'[q] = folio[q]
            /\ inserted'[q] = inserted[q]
  BY <1>3 DEF Crash, Leave, TypeOK
<1>5. /\ todo' = [todo EXCEPT ![r] = <<>>]
      /\ last' = [last EXCEPT ![r] = Nothing]
      /\ UNCHANGED <<cards, attached>>
  BY DEF Crash
<1> QED
  BY <1>1, <1>2, <1>4, <1>5, RestartKeeps

LEMMA BatchFacts ==
    ASSUME NEW batch \in Batches
    PROVE  batch \in Seq(Drafts) /\ batch # <<>>
<1>1. PICK n \in 1..MaxBatch : batch \in [1..n -> Drafts]
  BY DEF Batches
<1>2. n \in Nat \ {0}
  BY <1>1, DraftAssumption
<1>3. batch \in Seq(Drafts)
  BY <1>1, <1>2, SeqDef
<1>4. 1 \in DOMAIN batch
  BY <1>1, <1>2
<1> QED
  BY <1>3, <1>4

LEMMA UploadKeeps ==
    ASSUME IInv, NEW r \in Requests, NEW batch \in Batches, Upload(r, batch)
    PROVE  IInv'
<1>1. batch \in Seq(Drafts) /\ batch # <<>>
  BY BatchFacts
<1>2. /\ pc[r] = "idle"
      /\ todo' = [todo EXCEPT ![r] = batch]
      /\ pc' = [pc EXCEPT ![r] = "check"]
      /\ last' = [last EXCEPT ![r] = Nothing]
      /\ UNCHANGED <<cards, attached, siteLocks, folio, inserted>>
  BY DEF Upload
<1>3. TypeOK /\ Knows(r)
  BY DEF IInv
<1>4. siteLocks[r] = {} /\ inserted[r] = {}
  BY <1>2, <1>3 DEF Knows, InTransaction
<1>5. pc' = [pc EXCEPT ![r] = IF batch = <<>> THEN "idle" ELSE "check"]
  BY <1>1, <1>2
<1>6. siteLocks' = siteLocks /\ folio' = folio /\ inserted' = inserted
  BY <1>2
<1> QED
  BY <1>1, <1>2, <1>3, <1>4, <1>5, <1>6, RestartKeeps DEF TypeOK

LEMMA AttachKeeps ==
    ASSUME IInv, NEW r \in Requests, Attach(r)
    PROVE  IInv'
<1> DEFINE card == CardOf(Draft(r), folio[r])
<1>1. /\ pc[r] = "attach"
      /\ cards' = cards \cup inserted[r]
      /\ attached' = attached \cup ({Draft(r).uuid} \X (Draft(r).parts \cup {SiteEvent}))
      /\ Answer(r, "created")
  BY DEF Attach
<1>2. TypeOK /\ Knows(r)
  BY DEF IInv
<1>3. /\ siteLocks[r] = {Draft(r).site}
      /\ inserted[r] = {card}
      /\ Draft(r).methodical => Draft(r).value \in Values
      /\ folio[r] # 0
      /\ After(At(Draft(r).site), folio[r])
      /\ \A c \in cards : c.uuid # Draft(r).uuid
  BY <1>1, <1>2 DEF Knows, InTransaction, Validated
<1>4. Draft(r) \in Drafts /\ Draft(r) \in DraftType /\ folio[r] \in Nat \ {0}
  BY <1>1, <1>2, <1>3, InHand DEF TypeOK
<1>5. /\ card \in CardType
      /\ card.value = NoValue <=> ~card.draft.methodical
      /\ card.uuid = Draft(r).uuid
      /\ card.site = Draft(r).site
      /\ card.folio = folio[r]
      /\ card.content = Draft(r).content
      /\ card.draft = Draft(r)
  BY <1>3, <1>4, CardOfType
<1>6. cards' = cards \cup {card}
  BY <1>1, <1>3
<1>7. /\ pc'[r] \in {"idle", "check"}
      /\ pc'[r] = "idle" <=> todo'[r] = <<>>
      /\ siteLocks'[r] = {}
      /\ inserted'[r] = {}
      /\ last'[r].draft = Draft(r)
      /\ last'[r].outcome = "created"
      /\ \A q \in Requests \ {r} :
            /\ pc'[q] = pc[q]
            /\ todo'[q] = todo[q]
            /\ siteLocks'[q] = siteLocks[q]
            /\ folio'[q] = folio[q]
            /\ inserted'[q] = inserted[q]
            /\ last'[q] = last[q]
  BY <1>1, <1>2, AnswerFacts DEF Outcomes
<1> HIDE DEF card
<1>8. TypeOK'
  <2>1. cards' \subseteq CardType /\ \A c \in cards' : c.value = NoValue <=> ~c.draft.methodical
    BY <1>2, <1>5, <1>6 DEF TypeOK
  <2>2. attached' \subseteq Uuids \X (Parts \cup {SiteEvent})
    BY <1>1, <1>2, <1>4 DEF TypeOK, DraftType
  <2>3. /\ pc' \in [Requests -> Statements]
        /\ todo' \in [Requests -> Seq(Drafts)]
        /\ siteLocks' \in [Requests -> SUBSET Sites]
        /\ folio' \in [Requests -> Nat]
        /\ inserted' \in [Requests -> SUBSET CardType]
        /\ last' \in [Requests -> [draft : Drafts \cup {NoDraft}, outcome : Outcomes]]
    BY <1>1, <1>2, AnswerFacts DEF Outcomes
  <2>4. \A q \in Requests : pc'[q] = "idle" <=> todo'[q] = <<>>
    BY <1>2, <1>7 DEF TypeOK
  <2> QED
    BY <2>1, <2>2, <2>3, <2>4 DEF TypeOK
<1>9. FoliosConsecutive'
  <2>1. \A c \in cards : c.site = card.site => c.folio < card.folio /\ c.folio \in Nat \ {0}
    BY <1>2, <1>3, <1>5 DEF After, At, TypeOK, CardType
  <2>2. \A c \in cards : ~Clash(c, card) /\ ~Clash(card, c)
    BY <1>3, <1>5, <2>1 DEF Clash
  <2>3. ASSUME NEW b \in cards', NEW c \in cards', Clash(b, c)
        PROVE  b = c
    BY <1>6, <2>2, <2>3 DEF IInv, FoliosConsecutive, Clash
  <2>4. ASSUME NEW c \in cards', NEW n \in 1..c.folio
        PROVE  \E b \in cards' : b.site = c.site /\ b.folio = n
    <3>1. CASE c \in cards
      BY <1>6, <3>1 DEF IInv, FoliosConsecutive
    <3>2. CASE c = card /\ n = card.folio
      BY <1>6, <3>2
    <3>3. CASE c = card /\ n # card.folio
      <4>1. card.folio \in Nat \ {0} /\ n \in Nat \ {0} /\ n < card.folio
        BY <1>4, <1>5, <3>3
      <4>2. PICK b \in At(card.site) : card.folio = b.folio + 1
        BY <1>3, <1>5, <4>1 DEF After
      <4>3. b \in cards /\ b.site = card.site /\ b.folio \in Nat
        BY <2>1, <4>2 DEF At
      <4>4. n \in 1..b.folio
        BY <4>1, <4>2, <4>3
      <4>5. \E a \in cards : a.site = b.site /\ a.folio = n
        BY <4>3, <4>4 DEF IInv, FoliosConsecutive
      <4> QED
        BY <1>6, <3>3, <4>3, <4>5
    <3> QED
      BY <1>6, <3>1, <3>2, <3>3
  <2> QED
    BY <2>3, <2>4 DEF FoliosConsecutive, Clash
<1>10. CardIsWhole'
  <2> SUFFICES ASSUME NEW u \in Uuids, NEW p \in Parts \cup {SiteEvent}
               PROVE  <<u, p>> \in attached' <=>
                          \E c \in cards' : c.uuid = u /\ p \in c.draft.parts \cup {SiteEvent}
    BY DEF CardIsWhole
  <2>1. <<u, p>> \in attached <=>
            \E c \in cards : c.uuid = u /\ p \in c.draft.parts \cup {SiteEvent}
    BY DEF IInv, CardIsWhole
  <2>2. <<u, p>> \in attached' <=>
            <<u, p>> \in attached \/ (u = card.uuid /\ p \in card.draft.parts \cup {SiteEvent})
    BY <1>1, <1>5
  <2> QED
    BY <1>6, <2>1, <2>2
<1>11. Knows(r)' /\ Truthful(r)'
  <2>1. Knows(r)'
    BY <1>7 DEF Knows, InTransaction, Validated
  <2>2. Truthful(r)'
    BY <1>5, <1>6, <1>7 DEF Truthful
  <2> QED
    BY <2>1, <2>2
<1>12. ASSUME NEW q \in Requests \ {r}
       PROVE  Knows(q)' /\ Truthful(q)'
  <2>1. Knows(q) /\ Truthful(q) /\ Apart(q, r)
    BY DEF IInv
  <2>2. /\ pc'[q] = pc[q]
        /\ todo'[q] = todo[q]
        /\ siteLocks'[q] = siteLocks[q]
        /\ folio'[q] = folio[q]
        /\ inserted'[q] = inserted[q]
        /\ last'[q] = last[q]
    BY <1>7
  <2>3. Draft(q)' = Draft(q)
    BY <2>2 DEF Draft
  <2>4. CardOf(Draft(q), folio[q])' = CardOf(Draft(q), folio[q])
    BY <2>2, <2>3 DEF CardOf, StoredValue
  <2>5. pc[q] \in {"insert", "attach"} => At(Draft(q).site)' = At(Draft(q).site)
    <3>1. SUFFICES ASSUME pc[q] \in {"insert", "attach"}
                   PROVE  At(Draft(q).site)' = At(Draft(q).site)
      OBVIOUS
    <3>2. siteLocks[q] = {Draft(q).site}
      BY <2>1, <3>1 DEF Knows, InTransaction
    <3>3. Draft(q).site # card.site
      BY <1>3, <1>5, <2>1, <3>2 DEF Apart
    <3> QED
      BY <1>6, <2>3, <3>3 DEF At
  <2>6. pc[q] \in {"insert", "attach"} =>
            (After(At(Draft(q).site), folio[q])' <=> After(At(Draft(q).site), folio[q]))
    BY <2>2, <2>3, <2>5 DEF After
  <2>7. pc[q] = "attach" => card.uuid # Draft(q).uuid
    BY <1>3, <1>5, <2>1 DEF Apart, Knows, CardOf
  <2>8. Knows(q)'
    BY <1>6, <2>1, <2>2, <2>3, <2>4, <2>6, <2>7 DEF Knows
  <2>9. Truthful(q)'
    BY <1>6, <2>1, <2>2 DEF Truthful
  <2> QED
    BY <2>8, <2>9
<1>13. ASSUME NEW p \in Requests, NEW q \in Requests
       PROVE  Apart(p, q)'
  BY <1>7 DEF IInv, Apart
<1> QED
  BY <1>8, <1>9, <1>10, <1>11, <1>12, <1>13 DEF IInv

\* Every card keeps all it is identified by when one changes priority.
LEMMA UpdatePriorityKeeps ==
    ASSUME IInv, NEW c \in cards, NEW p \in Priorities, UpdatePriority(c, p)
    PROVE  IInv'
<1> DEFINE changed == [c EXCEPT !.priority = p]
<1> DEFINE Same(a, b) == /\ a.uuid = b.uuid
                         /\ a.site = b.site
                         /\ a.folio = b.folio
                         /\ a.content = b.content
                         /\ a.value = b.value
                         /\ a.draft = b.draft
<1>1. TypeOK
  BY DEF IInv
<1>2. cards' = (cards \ {c}) \cup {changed}
  BY DEF UpdatePriority
<1>3. UNCHANGED <<attached, pc, todo, siteLocks, folio, inserted, last>>
  BY DEF UpdatePriority
<1>4. c \in CardType
  BY <1>1 DEF TypeOK
<1>5. changed \in CardType /\ Same(c, changed)
  BY <1>4 DEF CardType
<1> HIDE DEF changed
<1>6. \A b \in cards : \E a \in cards' : Same(a, b)
  BY <1>2, <1>5
<1>7. \A a \in cards' : \E b \in cards : Same(a, b)
  BY <1>2, <1>5
<1>8. TypeOK'
  <2>1. cards' \subseteq CardType /\ \A b \in cards' : b.value = NoValue <=> ~b.draft.methodical
    BY <1>1, <1>2, <1>5 DEF TypeOK
  <2> QED
    BY <1>1, <1>3, <2>1 DEF TypeOK
<1>9. FoliosConsecutive'
  <2>1. ASSUME NEW a \in cards', NEW b \in cards', Clash(a, b)
        PROVE  a = b
    BY <1>2, <1>5, <2>1 DEF IInv, FoliosConsecutive, Clash
  <2>2. ASSUME NEW a \in cards', NEW n \in 1..a.folio
        PROVE  \E b \in cards' : b.site = a.site /\ b.folio = n
    <3>1. PICK b \in cards : Same(a, b)
      BY <1>7
    <3>2. \E d \in cards : d.site = b.site /\ d.folio = n
      BY <2>2, <3>1 DEF IInv, FoliosConsecutive
    <3> QED
      BY <1>6, <3>1, <3>2
  <2> QED
    BY <2>1, <2>2 DEF FoliosConsecutive, Clash
<1>10. CardIsWhole'
  <2> SUFFICES ASSUME NEW u \in Uuids, NEW part \in Parts \cup {SiteEvent}
               PROVE  <<u, part>> \in attached' <=>
                          \E b \in cards' : b.uuid = u /\ part \in b.draft.parts \cup {SiteEvent}
    BY DEF CardIsWhole
  <2>1. <<u, part>> \in attached <=>
            \E b \in cards : b.uuid = u /\ part \in b.draft.parts \cup {SiteEvent}
    BY DEF IInv, CardIsWhole
  <2> QED
    BY <1>3, <1>6, <1>7, <2>1
<1>11. ASSUME NEW q \in Requests
       PROVE  Knows(q)' /\ Truthful(q)'
  <2>1. Knows(q) /\ Truthful(q)
    BY DEF IInv
  <2>2. Draft(q)' = Draft(q)
    BY <1>3 DEF Draft
  <2>3. CardOf(Draft(q), folio[q])' = CardOf(Draft(q), folio[q])
    BY <1>3, <2>2 DEF CardOf, StoredValue
  <2>4. After(At(Draft(q).site), folio[q]) => After(At(Draft(q).site), folio[q])'
    <3> SUFFICES ASSUME After(At(Draft(q).site), folio[q])
                 PROVE  After(At(Draft(q).site), folio[q])'
      OBVIOUS
    <3>1. \A a \in At(Draft(q).site)' : a.folio < folio'[q]
      BY <1>3, <1>7, <2>2 DEF After, At
    <3>2. folio'[q] = 1 \/ \E a \in At(Draft(q).site)' : folio'[q] = a.folio + 1
      BY <1>3, <1>6, <2>2 DEF After, At
    <3> QED
      BY <3>1, <3>2 DEF After
  <2>5. Knows(q)'
    BY <1>3, <1>6, <1>7, <2>1, <2>2, <2>3, <2>4 DEF Knows
  <2>6. Truthful(q)'
    <3>1. last'[q] = last[q]
      BY <1>3
    <3>2. ASSUME NEW b \in cards
          PROVE  \E a \in cards' : a.uuid = b.uuid /\ a.site = b.site /\ a.content = b.content
      BY <1>6
    <3>3. last'[q].outcome # "duplicate record"
      BY <2>1, <3>1 DEF Truthful
    <3>4. ASSUME last'[q].outcome \in {"created", "existing"}
          PROVE  \E a \in cards' : /\ a.uuid = last'[q].draft.uuid
                                   /\ a.site = last'[q].draft.site
                                   /\ a.content = last'[q].draft.content
      <4>1. PICK b \in cards : /\ b.uuid = last[q].draft.uuid
                               /\ b.site = last[q].draft.site
                               /\ b.content = last[q].draft.content
        BY <2>1, <3>1, <3>4 DEF Truthful
      <4> QED
        BY <3>1, <3>2, <4>1
    <3> QED
      BY <3>3, <3>4 DEF Truthful
  <2> QED
    BY <2>5, <2>6
<1>12. \A q, r \in Requests : Apart(q, r)'
  BY <1>3 DEF IInv, Apart
<1> QED
  BY <1>8, <1>9, <1>10, <1>11, <1>12 DEF IInv

-----------------------------------------------------------------------------

LEMMA InitFacts == Init => IInv
<1> SUFFICES ASSUME Init PROVE IInv
  OBVIOUS
<1>1. TypeOK
  BY EmptySeq DEF Init, TypeOK, Statements, Nothing, Outcomes
<1>2. FoliosConsecutive /\ CardIsWhole
  BY DEF Init, FoliosConsecutive, CardIsWhole
<1>3. \A r \in Requests : Knows(r)
  BY DEF Init, Knows, InTransaction, Validated
<1>4. \A r \in Requests : Truthful(r)
  BY DEF Init, Truthful, Nothing
<1>5. \A q, r \in Requests : Apart(q, r)
  BY DEF Init, Apart
<1> QED
  BY <1>1, <1>2, <1>3, <1>4, <1>5 DEF IInv

LEMMA StutterKeeps ==
    ASSUME IInv, UNCHANGED vars
    PROVE  IInv'
<1>1. /\ cards' = cards
      /\ attached' = attached
      /\ pc' = pc
      /\ todo' = todo
      /\ siteLocks' = siteLocks
      /\ folio' = folio
      /\ inserted' = inserted
      /\ last' = last
  BY DEF vars
<1>2. TypeOK' /\ FoliosConsecutive' /\ CardIsWhole'
  BY <1>1 DEF IInv, TypeOK, FoliosConsecutive, CardIsWhole, Clash
<1>3. \A q \in Requests : Knows(q)' /\ Truthful(q)'
  BY <1>1, OthersKeep DEF IInv
<1>4. \A q, r \in Requests : Apart(q, r)'
  BY <1>1 DEF IInv, Apart
<1> QED
  BY <1>2, <1>3, <1>4 DEF IInv

LEMMA NextKeeps == IInv /\ [Next]_vars => IInv'
<1> SUFFICES ASSUME IInv, [Next]_vars PROVE IInv'
  OBVIOUS
<1>1. CASE \E r \in Requests : Handle(r)
  BY <1>1, CheckKeeps, ValidateKeeps, LockSiteKeeps, FindKeeps, InsertKeeps,
     AttachKeeps, RereadKeeps DEF Handle
<1>2. CASE \E r \in Requests : Fails(r) \/ Crash(r)
  BY <1>2, FailsKeeps, CrashKeeps
<1>3. CASE \E r \in Requests, batch \in Batches : Upload(r, batch)
  BY <1>3, UploadKeeps
<1>4. CASE \E c \in cards, p \in Priorities : UpdatePriority(c, p)
  BY <1>4, UpdatePriorityKeeps
<1>5. CASE UNCHANGED vars
  BY <1>5, StutterKeeps
<1> QED
  BY <1>1, <1>2, <1>3, <1>4, <1>5 DEF Next

(* The inductive invariant holds in every state that uploads can reach.     *)
THEOREM CreationInvariance == Spec => []IInv
BY InitFacts, NextKeeps, PTL DEF Spec

(* Every table and every request stays of its type: no draft that a look    *)
(* refused or an error rolled back leaves a row of another shape.           *)
THEOREM CreationTypes == Spec => []TypeOK
<1>1. IInv => TypeOK
  BY DEF IInv
<1> QED
  BY <1>1, CreationInvariance, PTL

(* However many uploads race at a site, its folios have no gap and no       *)
(* repetition, and a UUID has one card: createCard's lock of the site's row *)
(* and the two unique keys.                                                 *)
THEOREM FoliosHaveNoGaps == Spec => []FoliosConsecutive
<1>1. IInv => FoliosConsecutive
  BY DEF IInv
<1> QED
  BY <1>1, CreationInvariance, PTL

(* A card and its evidences and notification events are stored together or  *)
(* not at all, once, for any interleaving, failure, crash and repetition.   *)
THEOREM CardsAreStoredWhole == Spec => []CardIsWhole
<1>1. IInv => CardIsWhole
  BY DEF IInv
<1> QED
  BY <1>1, CreationInvariance, PTL

(* The look after ER_DUP_ENTRY always finds the card that caused it.        *)
THEOREM DuplicateIsFound == Spec => []NeverDuplicateRecord
<1>1. IInv => NeverDuplicateRecord
  BY DEF IInv, Truthful, NeverDuplicateRecord
<1> QED
  BY <1>1, CreationInvariance, PTL

(* An upload answered "created" or "existing" is in the table.              *)
THEOREM SuccessIsStored == Spec => []SuccessIsTrue
<1>1. IInv => SuccessIsTrue
  BY DEF IInv, Truthful, SuccessIsTrue
<1> QED
  BY <1>1, CreationInvariance, PTL

(* No set of uploads waits for itself: one that waits for a site has locked *)
(* nothing, and one that waits for a UUID waits for one about to commit.    *)
THEOREM UploadsNeverDeadlock == Spec => []NoCircularWait
<1>1. ASSUME IInv, NEW circle \in (SUBSET Requests) \ {{}}
      PROVE  \E r \in circle : \A q \in circle : ~Blocks(q, r)
  <2>1. ASSUME NEW q \in Requests, NEW r \in Requests, Blocks(q, r)
        PROVE  /\ pc[r] \in {"lock", "insert"}
               /\ pc[r] = "lock" => pc[q] \in InTransaction
               /\ pc[r] = "insert" => pc[q] = "attach"
    <3>1. Knows(q) /\ pc[r] \in {"lock", "insert"}
      BY <1>1, <2>1 DEF IInv, Blocks
    <3> QED
      BY <2>1, <3>1 DEF Blocks, Knows
  <2>2. PICK r : r \in circle
    <3>1. circle # {}
      BY <1>1
    <3> QED
      BY <3>1
  <2>3. CASE \E q \in circle : pc[q] \notin {"lock", "insert"}
    BY <2>1, <2>3
  <2>4. CASE \A q \in circle : pc[q] \in {"lock", "insert"}
    <3>1. CASE \E q \in circle : pc[q] = "insert"
      BY <2>1, <2>4, <3>1
    <3>2. CASE \A q \in circle : pc[q] = "lock"
      BY <2>1, <2>2, <3>2 DEF InTransaction
    <3> QED
      BY <2>4, <3>1, <3>2
  <2> QED
    BY <2>3, <2>4
<1>2. IInv => NoCircularWait
  BY <1>1 DEF NoCircularWait
<1> QED
  BY <1>2, CreationInvariance, PTL

(* "created" is answered only by the upload that inserts the card.          *)
THEOREM CreatedIsInserted == Spec => CreatedMeansInserted
<1> DEFINE Told(r) ==
      last'[r] # last[r] /\ last'[r].outcome = "created" =>
          /\ \A c \in cards : c.uuid # last'[r].draft.uuid
          /\ \E c \in cards' : c.uuid = last'[r].draft.uuid
<1>1. ASSUME IInv, Next, NEW r \in Requests
      PROVE  Told(r)
  <2> SUFFICES ASSUME last'[r] # last[r], last'[r].outcome = "created"
               PROVE  /\ \A c \in cards : c.uuid # last'[r].draft.uuid
                      /\ \E c \in cards' : c.uuid = last'[r].draft.uuid
    OBVIOUS
  <2>1. TypeOK /\ Knows(r)
    BY <1>1 DEF IInv
  <2>2. ASSUME NEW q \in Requests, pc[q] # "idle", NEW o \in Outcomes, Answer(q, o)
        PROVE  q = r /\ o = "created" /\ last'[r].draft = Draft(r)
    BY <2>1, <2>2, AnswerFacts
  <2>3. ASSUME NEW q \in Requests, NEW next, Statement(q, next)
        PROVE  FALSE
    BY <2>3 DEF Statement
  <2>4. Attach(r)
    <3>1. ASSUME NEW q \in Requests, Handle(q) \/ Fails(q)
          PROVE  Attach(r)
      <4>1. CASE Attach(q)
        <5>1. pc[q] # "idle" /\ Answer(q, "created") /\ "created" \in Outcomes
          BY <4>1 DEF Attach, Outcomes
        <5> QED
          BY <2>2, <4>1, <5>1
      <4>2. CASE ~Attach(q)
        <5>1. PICK o \in Outcomes \ {"created"} : pc[q] # "idle" /\ Answer(q, o)
          BY <2>3, <3>1, <4>2
             DEF Handle, Fails, Check, Validate, LockSite, Find, Insert, Reread, Outcomes
        <5> QED
          BY <2>2, <5>1
      <4> QED
        BY <4>1, <4>2
    <3>2. ASSUME NEW q \in Requests, last' = [last EXCEPT ![q] = Nothing]
          PROVE  FALSE
      BY <2>1, <3>2 DEF TypeOK, Nothing
    <3>3. ~ \E q \in Requests : Crash(q)
      BY <3>2 DEF Crash
    <3>4. ~ \E q \in Requests, batch \in Batches : Upload(q, batch)
      BY <3>2 DEF Upload
    <3>5. ~ \E c \in cards, p \in Priorities : UpdatePriority(c, p)
      BY DEF UpdatePriority
    <3> QED
      BY <1>1, <3>1, <3>3, <3>4, <3>5 DEF Next
  <2>5. pc[r] = "attach" /\ cards' = cards \cup inserted[r] /\ Answer(r, "created")
    BY <2>4 DEF Attach
  <2>6. last'[r].draft = Draft(r)
    BY <2>2, <2>5 DEF Outcomes
  <2>7. inserted[r] = {CardOf(Draft(r), folio[r])} /\ \A c \in cards : c.uuid # Draft(r).uuid
    BY <2>1, <2>5 DEF Knows
  <2>8. CardOf(Draft(r), folio[r]).uuid = Draft(r).uuid
    BY DEF CardOf
  <2> QED
    BY <2>5, <2>6, <2>7, <2>8
<1>2. IInv /\ [Next]_vars => [\A r \in Requests : Told(r)]_vars
  BY <1>1
<1> QED
  BY <1>2, CreationInvariance, PTL DEF Spec, CreatedMeansInserted
=============================================================================
