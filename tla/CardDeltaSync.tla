---------------------------- MODULE CardDeltaSync ----------------------------
(***************************************************************************)
(* Delta synchronisation of a site's cards.  The database stamps each row  *)
(* of cards and evidences with the time of the statement that wrote it; a  *)
(* device asks for a page of the cards stamped after its cursor, applies   *)
(* it and keeps the cursor that came with it.                              *)
(*                                                                         *)
(* Time is counted in units of the column's clock.  A cursor and the upper *)
(* bound of a page go through a Date, which keeps only every Grain-th of   *)
(* them (microseconds and milliseconds in the code).                       *)
(***************************************************************************)
EXTENDS Naturals, FiniteSets

CONSTANTS
    Clients,        \* devices that synchronise the site
    Cards,          \* ids of the site's cards
    Rows,           \* rows of cards and of evidences
    CardOf,         \* the card each belongs to
    Writers,        \* transactions that may be open at the same time
    Limit,          \* changes per page
    Grain,          \* clock units in a unit a Date can hold
    InitialStamps,  \* 0: no rows yet; else the time the migration gave them all
    MaxTime,        \* bound: the last time
    MaxChanges,     \* bound: changes ever made
    Spread          \* TRUE: fewer than Limit cards change in one Grain

ASSUME DeltaAssumption ==
    /\ Cards \subseteq Nat \ {0}
    /\ IsFiniteSet(Cards)
    /\ CardOf \in [Rows -> Cards]
    /\ \A k \in Cards : \E r \in Rows : CardOf[r] = k
    /\ Limit \in Nat \ {0}
    /\ Grain \in Nat \ {0}
    /\ MaxTime \in Nat
    /\ MaxTime % Grain = 0
    /\ InitialStamps \subseteq 0..MaxTime
    /\ MaxChanges \in Nat
    /\ Spread \in BOOLEAN

Times == 0..MaxTime

VARIABLES
    now,        \* the database's clock
    changedAt,  \* sync_changed_at of each committed row, 0 before it is there
    open,       \* the rows each open transaction has written and locked
    stamp,      \* the time it gave them
    cursor,     \* the last cursor each device was given
    pc,         \* what its request has come to
    until,      \* the upper bound of the page it is reading
    stale,      \* cards with a committed change it has not been sent
    crossed,    \* history: cards of changes that a page of its own overtook
    changes     \* changes made so far

vars == <<now, changedAt, open, stamp, cursor, pc, until, stale, crossed, changes>>

\* What a Date keeps of a time.
DateOf(t) == t - (t % Grain)

(***************************************************************************)
(* The query of readChangedCards over the committed rows.  Name_Bug is a   *)
(* plausible mistake in Name.                                              *)
(***************************************************************************)

\* The condition of the query on a row of card k stamped at t.
Past(cur, t, k) == t > cur.at \/ (t = cur.at /\ k > cur.id)

Selected(c) ==
    {r \in Rows : /\ changedAt[r] \in 1..until[c]
                  /\ Past(cursor[c], changedAt[r], CardOf[r])}

\* Each changed card with MAX(changes.changedAt) of its selected rows.
ChangesFor(c) ==
    LET selected == Selected(c)
        times(k) == {changedAt[r] : r \in {q \in selected : CardOf[q] = k}}
    IN  [k \in {CardOf[r] : r \in selected} |->
            CHOOSE t \in times(k) : \A u \in times(k) : u <= t]

\* By time and card, the order of the page.
Before(found, j, k) == found[j] < found[k] \/ (found[j] = found[k] /\ j < k)

PageOf(found) ==
    {k \in DOMAIN found : Cardinality({j \in DOMAIN found : Before(found, j, k)}) < Limit}

LastOf(found, page) == CHOOSE k \in page : \A j \in page : j = k \/ Before(found, j, k)

NextCursor_ToUpperBound(found, page, bound) == [at |-> bound, id |-> 0]

NextCursor_FirstRow(found, page, bound) ==
    LET first == CHOOSE k \in page : \A j \in page : j = k \/ Before(found, k, j) IN
    IF page # DOMAIN found
    THEN [at |-> DateOf(found[first]), id |-> first]
    ELSE [at |-> bound, id |-> 0]

\* createNextCursor; there is more when the page is not all that was found.
NextCursor(found, page, bound) ==
    LET last == LastOf(found, page) IN
    IF page # DOMAIN found
    THEN [at |-> DateOf(found[last]), id |-> last]
    ELSE [at |-> bound,
          id |-> IF page # {} /\ DateOf(found[last]) = bound THEN last ELSE 0]

-----------------------------------------------------------------------------

Init ==
    /\ now \in InitialStamps
    /\ changedAt = [r \in Rows |-> now]
    /\ open = [w \in Writers |-> {}]
    /\ stamp = [w \in Writers |-> 0]
    /\ cursor = [c \in Clients |-> [at |-> 0, id |-> 0]]
    /\ pc = [c \in Clients |-> "idle"]
    /\ until = [c \in Clients |-> 0]
    /\ stale = [c \in Clients |-> IF now = 0 THEN {} ELSE Cards]
    /\ crossed = [c \in Clients |-> {}]
    /\ changes = 0

Tick ==
    /\ now < MaxTime
    /\ now' = now + 1
    /\ UNCHANGED <<changedAt, open, stamp, cursor, pc, until, stale, crossed, changes>>

CardsOf(S) == {CardOf[r] : r \in S}

\* Cards with a change in the Grain of time t.
ChangedAround(t) ==
    CardsOf({q \in Rows : changedAt[q] # 0 /\ DateOf(changedAt[q]) = DateOf(t)})
        \cup CardsOf(UNION {open[w] : w \in Writers})

\* A transaction inserts or updates rows S in one statement.  A device whose
\* cursor is at this very instant has crossed the change.
Write(w, S) ==
    /\ changes < MaxChanges
    /\ 0 < now /\ now < MaxTime
    /\ open[w] = {}
    /\ S # {}
    /\ \A v \in Writers : open[v] \cap S = {}
    /\ Spread => Cardinality(ChangedAround(now) \cup CardsOf(S)) < Limit
    /\ changes' = changes + 1
    /\ open' = [open EXCEPT ![w] = S]
    /\ stamp' = [stamp EXCEPT ![w] = now]
    /\ crossed' = [c \in Clients |->
                      crossed[c] \cup {k \in CardsOf(S) : cursor[c].at = now}]
    /\ UNCHANGED <<now, changedAt, cursor, pc, until, stale>>

Commit(w) ==
    /\ open[w] # {}
    /\ changedAt' = [r \in Rows |-> IF r \in open[w] THEN stamp[w] ELSE changedAt[r]]
    /\ stale' = [c \in Clients |-> stale[c] \cup CardsOf(open[w])]
    /\ open' = [open EXCEPT ![w] = {}]
    /\ stamp' = [stamp EXCEPT ![w] = 0]
    /\ UNCHANGED <<now, cursor, pc, until, crossed, changes>>

Rollback(w) ==
    /\ open[w] # {}
    /\ open' = [open EXCEPT ![w] = {}]
    /\ stamp' = [stamp EXCEPT ![w] = 0]
    /\ UNCHANGED <<now, changedAt, cursor, pc, until, stale, crossed, changes>>

\* readSnapshotUpperBound: it reads no table, so the snapshot is taken later.
ReadUpperBound(c) ==
    /\ pc[c] = "idle"
    /\ pc' = [pc EXCEPT ![c] = "read"]
    /\ until' = [until EXCEPT ![c] = DateOf(now)]
    /\ UNCHANGED <<now, changedAt, open, stamp, cursor, stale, crossed, changes>>

\* Cards with a change in flight that belongs to the page of c: it is stamped
\* up to the upper bound, but the snapshot does not have it.
Overtaken(c) == UNION {CardsOf(open[w]) : w \in {v \in Writers : stamp[v] <= until[c]}}

\* The snapshot, the query and the cards, and the device that applies them.
ReadPage(c) ==
    /\ pc[c] = "read"
    /\ \E found \in {ChangesFor(c)} : \E page \in {PageOf(found)} :
        /\ cursor' = [cursor EXCEPT ![c] = NextCursor(found, page, until[c])]
        /\ stale' = [stale EXCEPT ![c] = @ \ page]
        /\ crossed' = [crossed EXCEPT ![c] = (@ \ page) \cup Overtaken(c)]
    /\ pc' = [pc EXCEPT ![c] = "idle"]
    /\ until' = [until EXCEPT ![c] = 0]
    /\ UNCHANGED <<now, changedAt, open, stamp, changes>>

\* The request fails or its answer is lost: the device keeps its cursor.
PageLost(c) ==
    /\ pc[c] = "read"
    /\ pc' = [pc EXCEPT ![c] = "idle"]
    /\ until' = [until EXCEPT ![c] = 0]
    /\ UNCHANGED <<now, changedAt, open, stamp, cursor, stale, crossed, changes>>

Next ==
    \/ Tick
    \/ \E w \in Writers, S \in SUBSET Rows : Write(w, S)
    \/ \E w \in Writers : Commit(w) \/ Rollback(w)
    \/ \E c \in Clients : ReadUpperBound(c) \/ ReadPage(c) \/ PageLost(c)

Spec == Init /\ [][Next]_vars

(***************************************************************************)
(* Fairness: time passes, transactions end, and a device that keeps asking *)
(* is answered some time.                                                  *)
(***************************************************************************)
FairSpec ==
    /\ Spec
    /\ WF_vars(Tick)
    /\ \A w \in Writers : WF_vars(Commit(w) \/ Rollback(w))
    /\ \A c \in Clients : WF_vars(ReadUpperBound(c)) /\ SF_vars(ReadPage(c))

-----------------------------------------------------------------------------

TypeOK ==
    /\ now \in Times
    /\ changedAt \in [Rows -> 0..now]
    /\ open \in [Writers -> SUBSET Rows]
    /\ stamp \in [Writers -> 0..now]
    /\ cursor \in [Clients -> [at : 0..now, id : Cards \cup {0}]]
    /\ pc \in [Clients -> {"idle", "read"}]
    /\ until \in [Clients -> 0..now]
    /\ stale \in [Clients -> SUBSET Cards]
    /\ crossed \in [Clients -> SUBSET Cards]
    /\ changes \in 0..MaxChanges

(* A cursor never passes a committed change that its device has not been    *)
(* sent: a later page has it.  The code takes no lock and leaves no margin, *)
(* so a change stamped within a page and committed after the page was read  *)
(* is passed; only the cards of such changes may be missed (`crossed`), and *)
(* only until a later change brings the card again.                         *)
NothingSkipped ==
    \A c \in Clients : \A k \in stale[c] \ crossed[c] :
        \E r \in Rows : CardOf[r] = k /\ changedAt[r] # 0 /\ Past(cursor[c], changedAt[r], k)

(* A device that keeps asking has in the end every change of the site, page *)
(* after page, each page beginning where the last one ended, but for those  *)
(* that were in flight while a page was read.                               *)
EventuallyFresh == \A c \in Clients : <>[](stale[c] \subseteq crossed[c])
=============================================================================
