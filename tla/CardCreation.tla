---------------------------- MODULE CardCreation ----------------------------
(***************************************************************************)
(* Creation of cards from drafts that devices wrote offline and upload,    *)
(* one by one or in batches, as often as they need to until an answer      *)
(* arrives: the service's unlocked look for the draft's UUID, its checks,  *)
(* and the transaction that gives the card the next folio of its site and  *)
(* saves it with its evidences and notification events.                    *)
(*                                                                         *)
(* A request is one handler on some instance and every SQL statement it    *)
(* issues is a step; the last statement of the transaction and its commit  *)
(* are one.  Tables hold committed rows, inserted keeps the row an open    *)
(* transaction has inserted, which other inserts of the same unique key    *)
(* wait for (InnoDB).                                                      *)
(*                                                                         *)
(* A draft's node, card type, preclassifier, creator, day and comments,    *)
(* which no operation here changes, are its content.                       *)
(***************************************************************************)
EXTENDS Naturals, Sequences

CONSTANTS
    Requests,    \* handlers that may run at the same time
    Uuids,       \* UUIDs the devices generate
    Sites,
    Contents,
    Priorities,
    Values,      \* card type values, safe and unsafe
    NoValue,     \* an absent, or null, card type value
    EmptyValue,  \* the empty string, which the DTO accepts for none
    Parts,       \* evidences, and the notification to the node's responsible
    SiteEvent,   \* the notification every new card has: to its site
    Drafts,      \* drafts devices hold
    NoDraft,
    MaxBatch     \* CARD_SYNC_BATCH_MAX_SIZE

\* How the device writes the creation date: the column keeps whole seconds,
\* and a 12-hour clock is understood only when it is converted.
Dates == {"whole seconds", "fraction", "12-hour"}

DraftType == [uuid : Uuids, site : Sites, content : Contents, priority : Priorities,
              date : Dates,
              methodical : BOOLEAN,   \* its card type's methodology is C
              value : Values \cup {NoValue, EmptyValue},
              parts : SUBSET Parts]

ASSUME DraftAssumption ==
    /\ NoValue \notin Values
    /\ EmptyValue \notin Values \cup {NoValue}
    /\ SiteEvent \notin Parts
    /\ Drafts \subseteq DraftType
    /\ NoDraft \notin Drafts
    /\ MaxBatch \in Nat \ {0}

VARIABLES
    cards,      \* table cards
    attached,   \* tables evidences and notification_outbox: <<UUID, part>> pairs
    pc,         \* the statement each request has come to
    todo,       \* its drafts not yet answered, the one in hand first
    siteLocks,  \* sites its open transaction has locked
    folio,      \* the folio it has computed
    inserted,   \* the rows its open transaction has inserted
    last        \* its last answer

vars == <<cards, attached, pc, todo, siteLocks, folio, inserted, last>>

Outcomes == {"none", "created", "existing", "duplicate uuid", "duplicate record",
             "refused", "error"}
Nothing == [draft |-> NoDraft, outcome |-> "none"]

CardType == [uuid : Uuids, site : Sites, folio : Nat \ {0}, content : Contents,
             priority : Priorities, value : Values \cup {NoValue},
             draft : Drafts]          \* history: what it was created from

Draft(r) == Head(todo[r])

(***************************************************************************)
(* Name_Bug is a plausible mistake in Name.                                *)
(***************************************************************************)

\* What the card keeps of the value it was sent with.
StoredValue(d) == IF d.methodical THEN d.value ELSE NoValue

\* assertIdempotentRetry, but for date and value.
SameContent(c, d) ==
    /\ c.site = d.site
    /\ c.content = d.content
    /\ c.priority = d.priority

\* The service compares the card with what the device sent,
MatchesSent(c, d) ==
    /\ SameContent(c, d)
    /\ d.date = "whole seconds"
    /\ d.value \in {NoValue, c.value}

MatchesStored_UuidOnly(c, d) == TRUE

\* the transaction with what it would store.
MatchesStored(c, d) ==
    /\ SameContent(c, d)
    /\ d.date # "fraction"
    /\ StoredValue(d) = c.value

At(s) == {c \in cards : c.site = s}

After(S, n) ==
    /\ \A c \in S : c.folio < n
    /\ n = 1 \/ \E c \in S : n = c.folio + 1

NextFolio_AllSites(s) == {n \in {1} \cup {c.folio + 1 : c \in cards} : After(cards, n)}

\* The one number that follows the last folio of the site.
NextFolio(s) == {n \in {1} \cup {c.folio + 1 : c \in At(s)} : After(At(s), n)}

CardOf(d, n) ==
    [uuid |-> d.uuid, site |-> d.site, folio |-> n, content |-> d.content,
     priority |-> d.priority, value |-> StoredValue(d), draft |-> d]

\* Two rows that cannot be in the table together.
Clash(b, c) == b.uuid = c.uuid \/ (b.site = c.site /\ b.folio = c.folio)

\* What the next statement of r waits for q to give up.
Blocks(q, r) ==
    /\ q # r
    /\ \/ pc[r] = "lock" /\ Draft(r).site \in siteLocks[q]
       \/ pc[r] = "insert" /\ \E c \in inserted[q] : Clash(c, CardOf(Draft(r), folio[r]))

Granted(r) == \A q \in Requests : ~Blocks(q, r)

-----------------------------------------------------------------------------

Init ==
    /\ cards = {}
    /\ attached = {}
    /\ pc = [r \in Requests |-> "idle"]
    /\ todo = [r \in Requests |-> <<>>]
    /\ siteLocks = [r \in Requests |-> {}]
    /\ folio = [r \in Requests |-> 0]
    /\ inserted = [r \in Requests |-> {}]
    /\ last = [r \in Requests |-> Nothing]

\* The batch has no two drafts of one UUID.
Upload(r, batch) ==
    /\ pc[r] = "idle"
    /\ \A i, j \in DOMAIN batch : batch[i].uuid = batch[j].uuid => i = j
    /\ todo' = [todo EXCEPT ![r] = batch]
    /\ pc' = [pc EXCEPT ![r] = "check"]
    /\ last' = [last EXCEPT ![r] = Nothing]
    /\ UNCHANGED <<cards, attached, siteLocks, folio, inserted>>

Statement(r, next) ==
    /\ pc' = [pc EXCEPT ![r] = next]
    /\ UNCHANGED <<todo, last>>

\* The transaction is over, by a commit or by a rollback.
Leave(r) ==
    /\ siteLocks' = [siteLocks EXCEPT ![r] = {}]
    /\ folio' = [folio EXCEPT ![r] = 0]
    /\ inserted' = [inserted EXCEPT ![r] = {}]

Answer_OneTransaction(r, outcome) ==
    /\ last' = [last EXCEPT ![r] = [draft |-> Draft(r), outcome |-> outcome]]
    /\ todo' = [todo EXCEPT ![r] = Tail(@)]
    /\ pc' = [pc EXCEPT ![r] = IF Len(todo[r]) > 1 THEN "check" ELSE "idle"]
    /\ siteLocks' = [siteLocks EXCEPT ![r] = IF Len(todo[r]) > 1 THEN @ ELSE {}]
    /\ folio' = [folio EXCEPT ![r] = 0]
    /\ inserted' = [inserted EXCEPT ![r] = {}]

\* The draft is answered, and the loop of syncOfflineCards goes on.
Answer(r, outcome) ==
    /\ last' = [last EXCEPT ![r] = [draft |-> Draft(r), outcome |-> outcome]]
    /\ todo' = [todo EXCEPT ![r] = Tail(@)]
    /\ pc' = [pc EXCEPT ![r] = IF Len(todo[r]) > 1 THEN "check" ELSE "idle"]
    /\ Leave(r)

\* The service looks for the UUID.
Check(r) ==
    /\ pc[r] = "check"
    /\ \/ \E c \in cards :
            /\ c.uuid = Draft(r).uuid
            /\ Answer(r, IF MatchesSent(c, Draft(r)) THEN "existing" ELSE "duplicate uuid")
       \/ /\ \A c \in cards : c.uuid # Draft(r).uuid
          /\ Statement(r, "validate")
          /\ UNCHANGED <<siteLocks, folio, inserted>>
    /\ UNCHANGED <<cards, attached>>

\* The checks of site, catalogs, node, creator, access and dates: what they
\* read is not modelled, so they may refuse any draft.
Validate(r) ==
    /\ pc[r] = "validate"
    /\ \/ Answer(r, "refused")
       \/ /\ Draft(r).methodical => Draft(r).value \in Values
          /\ Statement(r, "lock")
          /\ UNCHANGED <<siteLocks, folio, inserted>>
    /\ UNCHANGED <<cards, attached>>

LockSite_NoLock(r) ==
    /\ pc[r] = "lock"
    /\ Statement(r, "find")
    /\ UNCHANGED <<cards, attached, siteLocks, folio, inserted>>

LockSite(r) ==
    /\ pc[r] = "lock"
    /\ Granted(r)
    /\ siteLocks' = [siteLocks EXCEPT ![r] = {Draft(r).site}]
    /\ Statement(r, "find")
    /\ UNCHANGED <<cards, attached, folio, inserted>>

\* Again for the UUID, then for the last folio: two reads of one snapshot,
\* taken by the first of them, after the lock.
Find(r) ==
    /\ pc[r] = "find"
    /\ \/ \E c \in cards :
            /\ c.uuid = Draft(r).uuid
            /\ Answer(r, IF MatchesStored(c, Draft(r)) THEN "existing" ELSE "duplicate uuid")
       \/ /\ \A c \in cards : c.uuid # Draft(r).uuid
          /\ \E n \in NextFolio(Draft(r).site) : folio' = [folio EXCEPT ![r] = n]
          /\ Statement(r, "insert")
          /\ UNCHANGED <<siteLocks, inserted>>
    /\ UNCHANGED <<cards, attached>>

Insert_Autocommit(r) ==
    /\ pc[r] = "insert"
    /\ Granted(r)
    /\ \A c \in cards : ~Clash(c, CardOf(Draft(r), folio[r]))
    /\ cards' = cards \cup {CardOf(Draft(r), folio[r])}
    /\ Statement(r, "attach")
    /\ UNCHANGED <<attached, siteLocks, folio, inserted>>

\* ER_DUP_ENTRY if the table has a row of the same key: the transaction is
\* rolled back and the service looks for the UUID once more.
Insert(r) ==
    LET card == CardOf(Draft(r), folio[r]) IN
    /\ pc[r] = "insert"
    /\ Granted(r)
    /\ \/ /\ \E c \in cards : Clash(c, card)
          /\ Statement(r, "reread")
          /\ Leave(r)
       \/ /\ \A c \in cards : ~Clash(c, card)
          /\ inserted' = [inserted EXCEPT ![r] = {card}]
          /\ Statement(r, "attach")
          /\ UNCHANGED <<siteLocks, folio>>
    /\ UNCHANGED <<cards, attached>>

\* Evidences and notification events are saved, and the transaction commits.
Attach(r) ==
    /\ pc[r] = "attach"
    /\ cards' = cards \cup inserted[r]
    /\ attached' = attached \cup ({Draft(r).uuid} \X (Draft(r).parts \cup {SiteEvent}))
    /\ Answer(r, "created")

Reread(r) ==
    /\ pc[r] = "reread"
    /\ \/ \E c \in cards :
            /\ c.uuid = Draft(r).uuid
            /\ Answer(r, IF MatchesStored(c, Draft(r)) THEN "existing" ELSE "duplicate uuid")
       \/ /\ \A c \in cards : c.uuid # Draft(r).uuid
          /\ Answer(r, "duplicate record")
    /\ UNCHANGED <<cards, attached>>

\* A statement fails, by a timeout of its lock wait or a lost connection: a
\* rollback, and an error for this draft only.
Fails(r) ==
    /\ pc[r] # "idle"
    /\ Answer(r, "error")
    /\ UNCHANGED <<cards, attached>>

\* The instance dies, before the transaction is over or after its commit: the
\* device is not answered, nor are the rest of its drafts.
Crash(r) ==
    /\ pc[r] # "idle" \/ last[r] # Nothing
    /\ pc' = [pc EXCEPT ![r] = "idle"]
    /\ todo' = [todo EXCEPT ![r] = <<>>]
    /\ last' = [last EXCEPT ![r] = Nothing]
    /\ Leave(r)
    /\ UNCHANGED <<cards, attached>>

\* updatePriority: a transaction that locks the card's row.
UpdatePriority(c, p) ==
    /\ c \in cards
    /\ p # c.priority
    /\ cards' = (cards \ {c}) \cup {[c EXCEPT !.priority = p]}
    /\ UNCHANGED <<attached, pc, todo, siteLocks, folio, inserted, last>>

Batches == UNION {[1..n -> Drafts] : n \in 1..MaxBatch}

Handle(r) ==
    \/ Check(r) \/ Validate(r) \/ LockSite(r) \/ Find(r)
    \/ Insert(r) \/ Attach(r) \/ Reread(r)

Next ==
    \/ \E r \in Requests : Handle(r) \/ Fails(r) \/ Crash(r)
    \/ \E r \in Requests, batch \in Batches : Upload(r, batch)
    \/ \E c \in cards, p \in Priorities : UpdatePriority(c, p)

Spec == Init /\ [][Next]_vars

-----------------------------------------------------------------------------

Statements == {"idle", "check", "validate", "lock", "find", "insert", "attach", "reread"}

TypeOK ==
    /\ cards \subseteq CardType
    /\ \A c \in cards : c.value = NoValue <=> ~c.draft.methodical
    /\ attached \subseteq Uuids \X (Parts \cup {SiteEvent})
    /\ pc \in [Requests -> Statements]
    /\ todo \in [Requests -> Seq(Drafts)]
    /\ \A r \in Requests : pc[r] = "idle" <=> todo[r] = <<>>
    /\ siteLocks \in [Requests -> SUBSET Sites]
    /\ folio \in [Requests -> Nat]
    /\ inserted \in [Requests -> SUBSET CardType]
    /\ last \in [Requests -> [draft : Drafts \cup {NoDraft}, outcome : Outcomes]]

(* The folios of a site are 1, 2, 3, ... without a gap or a repetition, and *)
(* a UUID has one card, whatever uploads race, fail or are repeated.        *)
FoliosConsecutive ==
    /\ \A b, c \in cards : Clash(b, c) => b = c
    /\ \A c \in cards : \A n \in 1..c.folio :
          \E b \in cards : b.site = c.site /\ b.folio = n

(* A card is in the database with all the evidences and notification events *)
(* of the draft it came from, and neither is there without it: exactly once *)
(* for each card, however often the draft is uploaded.                      *)
CardIsWhole ==
    \A u \in Uuids, p \in Parts \cup {SiteEvent} :
        <<u, p>> \in attached <=>
            \E c \in cards : c.uuid = u /\ p \in c.draft.parts \cup {SiteEvent}

(* Nobody is refused for somebody else's upload: an insert is a duplicate   *)
(* only of its own UUID, never of a folio another transaction took, so the  *)
(* look after ER_DUP_ENTRY always finds the card.                           *)
NeverDuplicateRecord == \A r \in Requests : last[r].outcome # "duplicate record"

(* A device that is told its draft is stored can drop it: the card of its   *)
(* UUID is there, at its site and with its content.                         *)
SuccessIsTrue ==
    \A r \in Requests : last[r].outcome \in {"created", "existing"} =>
        \E c \in cards :
            /\ c.uuid = last[r].draft.uuid
            /\ c.site = last[r].draft.site
            /\ c.content = last[r].draft.content

(* Only the upload that inserts the card is answered "created".             *)
CreatedMeansInserted ==
    [][\A r \in Requests :
        last'[r] # last[r] /\ last'[r].outcome = "created" =>
            /\ \A c \in cards : c.uuid # last'[r].draft.uuid
            /\ \E c \in cards' : c.uuid = last'[r].draft.uuid]_vars

(* Uploads never wait for one another in a circle: the server has no        *)
(* deadlock to break, though a batch may visit the sites in any order.      *)
NoCircularWait ==
    \A circle \in (SUBSET Requests) \ {{}} :
        \E r \in circle : \A q \in circle : ~Blocks(q, r)

(* An exact retry of a draft that was stored is accepted as existing, never *)
(* refused as somebody else's UUID.                                         *)
RetryAccepted ==
    \A r \in Requests : last[r].outcome = "duplicate uuid" =>
        \A c \in cards : c.draft # last[r].draft
=============================================================================
