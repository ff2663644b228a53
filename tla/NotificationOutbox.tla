------------------------- MODULE NotificationOutbox -------------------------
(***************************************************************************)
(* The transactional notification outbox: one table of events, and one     *)
(* NotificationOutboxProcessor per running instance of the service that    *)
(* claims due events, pushes them to the devices of their audience and     *)
(* marks them.  Workers share nothing but the table.                       *)
(*                                                                         *)
(* Time is kept as distances: a row's wait is how long it is until         *)
(* availableAt, its lockAge how long ago lockedAt was (0 while it is null, *)
(* no further than StaleLock, beyond which the code tells no difference),  *)
(* and heldFor how long ago a worker read the clock for its present claim. *)
(***************************************************************************)
EXTENDS Naturals, FiniteSets

CONSTANTS
    Workers,      \* processor instances, one per running service instance
    Keys,         \* deduplication keys
    Users,        \* the users a notification may address
    Tokens,       \* device tokens
    NoToken,      \* the absence of a registered device
    Audience,     \* the users each key's payload addresses
    FirstDelays,  \* distances availableAt may be from now when a row is inserted
    MaxEvents,    \* bound: rows ever inserted
    MaxClaims,    \* bound: claims of one row
    MaxFaults,    \* bound: instance crashes and database errors
    MaxAttempts,  \* MAX_ATTEMPTS
    StaleLock,    \* STALE_LOCK_MILLISECONDS
    BatchSize,    \* BATCH_SIZE
    BackoffUnit,  \* the 5 s that markFailed doubles
    BackoffCap,   \* the 3600 s it stops at
    Prompt        \* TRUE: no live worker keeps a claim as long as StaleLock

ASSUME ParameterAssumption ==
    /\ MaxEvents \in Nat
    /\ MaxClaims \in Nat
    /\ MaxFaults \in Nat
    /\ MaxAttempts \in Nat \ {0}
    /\ StaleLock \in Nat \ {0}
    /\ BatchSize \in Nat \ {0}
    /\ BackoffUnit \in Nat
    /\ BackoffCap \in Nat
    /\ Prompt \in BOOLEAN

ASSUME PayloadAssumption ==
    /\ Keys # {}
    /\ NoToken \notin Tokens
    /\ Audience \in [Keys -> SUBSET Users]
    /\ FirstDelays \subseteq Nat

\* 2 ** attempts is a number (the provers do not know exponentiation).
ASSUME PowerAssumption == \A n \in 0..MaxClaims : 2^n \in Nat

Ids == 1..MaxEvents

VARIABLES
    lastId,      \* the id given to the newest row
    key,         \* deduplicationKey of each row
    status,      \* status column; "ABSENT" before the row is inserted
    attempts,    \* attempts column
    wait,        \* availableAt - now, 0 once it has passed
    lockAge,     \* now - lockedAt, up to StaleLock
    device,      \* the token registered for each user
    pc,          \* where each worker is; "down" while its instance is
    batch,       \* events handled in the present poll
    event,       \* id of the event the worker has selected or claimed
    attempt,     \* the attempts value in the worker's copy of the event
    heldFor,     \* age of the clock reading of the worker's claim
    rowLocks,    \* rows the worker's open claim transaction has locked
    targets,     \* tokens its delivery is for
    todo,        \* of these, the ones not yet tried
    failed,      \* the try block of processEvent has failed
    pushed,      \* history: <<attempt, token>> pairs that reached a device
    faults       \* crashes and database errors so far

tableVars == <<lastId, key, status, attempts, wait, lockAge>>
workVars == <<pc, batch, event, attempt, heldFor, rowLocks, targets, todo, failed>>
vars == <<tableVars, workVars, device, pushed, faults>>

Statuses == {"ABSENT", "PENDING", "PROCESSING", "FAILED", "SENT", "DEAD"}
Steps == {"down", "idle", "select", "commit", "resolve", "send", "mark"}

\* Past the claim's commit, and not yet marked: the worker handles an event.
Holding(w) == pc[w] \in {"resolve", "send", "mark"}

AgeOf(n) == IF n < StaleLock THEN n + 1 ELSE n

RetryDelay(a) ==
    IF 2^a * BackoffUnit <= BackoffCap THEN 2^a * BackoffUnit ELSE BackoffCap

(***************************************************************************)
(* A definition Name_Bug below is a plausible mistake in Name: the         *)
(* properties are shown able to fail by putting it in Name's place.        *)
(***************************************************************************)

Claimable_AnyClaim(e) ==
    status[e] = "PROCESSING" \/ (status[e] \in {"PENDING", "FAILED"} /\ wait[e] = 0)

Claimable_NeverStale(e) == status[e] \in {"PENDING", "FAILED"} /\ wait[e] = 0

\* The where clause of claimNext.
Claimable(e) ==
    \/ status[e] \in {"PENDING", "FAILED"} /\ wait[e] = 0
    \/ status[e] = "PROCESSING" /\ lockAge[e] >= StaleLock

\* skip_locked, and an UPDATE that must wait for a row lock.
LockedByOther(w, e) == \E v \in Workers \ {w} : e \in rowLocks[v]

\* One entry per token, though several users may share a device.
ResolveTokens(e) ==
    {device[u] : u \in Audience[key[e]]} \ {NoToken}

NextAttempt_NotCounted(e) == IF attempts[e] = 0 THEN 1 ELSE attempts[e]

NextAttempt(e) == attempts[e] + 1

Exhausted(a) == a >= MaxAttempts

MayMark_Always(e) == status[e] # "ABSENT"

\* The condition on status of the two UPDATEs: not who claimed the row last.
MayMark(e) == status[e] = "PROCESSING"

PushesFailed_Swallowed(w, accepted) == failed[w]

\* sendMultipleMessage reports success only when no push failed.
PushesFailed(w, accepted) == failed[w] \/ ~accepted

-----------------------------------------------------------------------------

Init ==
    /\ lastId = 0
    /\ key = [e \in Ids |-> CHOOSE k \in Keys : TRUE]
    /\ status = [e \in Ids |-> "ABSENT"]
    /\ attempts = [e \in Ids |-> 0]
    /\ wait = [e \in Ids |-> 0]
    /\ lockAge = [e \in Ids |-> 0]
    /\ device \in [Users -> Tokens \cup {NoToken}]
    /\ pc = [w \in Workers |-> "idle"]
    /\ batch = [w \in Workers |-> 0]
    /\ event = [w \in Workers |-> 0]
    /\ attempt = [w \in Workers |-> 0]
    /\ heldFor = [w \in Workers |-> 0]
    /\ rowLocks = [w \in Workers |-> {}]
    /\ targets = [w \in Workers |-> {}]
    /\ todo = [w \in Workers |-> {}]
    /\ failed = [w \in Workers |-> FALSE]
    /\ pushed = [e \in Ids |-> {}]
    /\ faults = 0

\* enqueue / enqueueWithManager.  A second insert of a key fails on the unique
\* index and the caller is given the existing row: nothing changes.
Enqueue(k, delay) ==
    /\ lastId < MaxEvents
    /\ \A e \in 1..lastId : key[e] # k
    /\ lastId' = lastId + 1
    /\ key' = [key EXCEPT ![lastId + 1] = k]
    /\ status' = [status EXCEPT ![lastId + 1] = "PENDING"]
    /\ wait' = [wait EXCEPT ![lastId + 1] = delay]
    /\ UNCHANGED <<attempts, lockAge, workVars, device, pushed, faults>>

\* A login or a logout changes the device token the user's row carries.
Register(u, t) ==
    /\ device[u] # t
    /\ device' = [device EXCEPT ![u] = t]
    /\ UNCHANGED <<tableVars, workVars, pushed, faults>>

\* The interval fires and no poll of this instance is running.
Poll(w) ==
    /\ pc[w] = "idle"
    /\ pc' = [pc EXCEPT ![w] = "select"]
    /\ UNCHANGED <<tableVars, batch, event, attempt, heldFor, rowLocks, targets, todo,
                   failed, device, pushed, faults>>

\* claimNext up to its SELECT: every due row no other transaction has locked is
\* locked, and the one with the least id taken.
Due(w) == {e \in 1..lastId : Claimable(e) /\ ~LockedByOther(w, e)}

Select(w, e) ==
    /\ pc[w] = "select"
    /\ e \in Due(w)
    /\ \A other \in Due(w) : e <= other
    /\ attempts[e] < MaxClaims
    /\ pc' = [pc EXCEPT ![w] = "commit"]
    /\ event' = [event EXCEPT ![w] = e]
    /\ heldFor' = [heldFor EXCEPT ![w] = 0]
    /\ rowLocks' = [rowLocks EXCEPT ![w] = Due(w)]
    /\ UNCHANGED <<tableVars, batch, attempt, targets, todo, failed, device,
                   pushed, faults>>

\* No event: processPending returns.
SelectNone(w) ==
    /\ pc[w] = "select"
    /\ Due(w) = {}
    /\ pc' = [pc EXCEPT ![w] = "idle"]
    /\ batch' = [batch EXCEPT ![w] = 0]
    /\ UNCHANGED <<tableVars, event, attempt, heldFor, rowLocks, targets, todo,
                   failed, device, pushed, faults>>

\* The rest of claimNext: the claimed row is saved with the time read before
\* the SELECT, and the commit releases the locks.
CommitClaim(w) ==
    LET e == event[w] IN
    /\ pc[w] = "commit"
    /\ pc' = [pc EXCEPT ![w] = "resolve"]
    /\ status' = [status EXCEPT ![e] = "PROCESSING"]
    /\ lockAge' = [lockAge EXCEPT ![e] = heldFor[w]]
    /\ attempts' = [attempts EXCEPT ![e] = NextAttempt(e)]
    /\ attempt' = [attempt EXCEPT ![w] = NextAttempt(e)]
    /\ rowLocks' = [rowLocks EXCEPT ![w] = {}]
    /\ UNCHANGED <<lastId, key, wait, batch, event, heldFor, targets, todo,
                   failed, device, pushed, faults>>

Resolve(w) ==
    /\ pc[w] = "resolve"
    /\ targets' = [targets EXCEPT ![w] = ResolveTokens(event[w])]
    /\ todo' = [todo EXCEPT ![w] = ResolveTokens(event[w])]
    /\ pc' = [pc EXCEPT ![w] = "send"]
    /\ UNCHANGED <<tableVars, batch, event, attempt, heldFor, rowLocks, failed,
                   device, pushed, faults>>

\* One messaging.send of sendMultipleMessage, which tries every token and
\* reports whether all of them were accepted.  The answer of a push that
\* reached the device may still be lost.
Push(w, t, reached, accepted) ==
    /\ pc[w] = "send"
    /\ t \in todo[w]
    /\ accepted => reached
    /\ todo' = [todo EXCEPT ![w] = @ \ {t}]
    /\ failed' = [failed EXCEPT ![w] = PushesFailed(w, accepted)]
    /\ pushed' = [pushed EXCEPT ![event[w]] =
                     IF reached THEN @ \cup {<<attempt[w], t>>} ELSE @]
    /\ UNCHANGED <<tableVars, pc, batch, event, attempt, heldFor, rowLocks,
                   targets, device, faults>>

AllTried(w) ==
    /\ pc[w] = "send"
    /\ todo[w] = {}
    /\ pc' = [pc EXCEPT ![w] = "mark"]
    /\ UNCHANGED <<tableVars, batch, event, attempt, heldFor, rowLocks, targets,
                   todo, failed, device, pushed, faults>>

\* The variables of an iteration go out of scope with it.
Forget(w) ==
    /\ event' = [event EXCEPT ![w] = 0]
    /\ attempt' = [attempt EXCEPT ![w] = 0]
    /\ heldFor' = [heldFor EXCEPT ![w] = 0]
    /\ rowLocks' = [rowLocks EXCEPT ![w] = {}]
    /\ targets' = [targets EXCEPT ![w] = {}]
    /\ todo' = [todo EXCEPT ![w] = {}]
    /\ failed' = [failed EXCEPT ![w] = FALSE]

\* The for loop of processPending: on to the next event, or the poll is over.
NextInBatch(w) ==
    /\ Forget(w)
    /\ batch' = [batch EXCEPT ![w] = IF @ + 1 < BatchSize THEN @ + 1 ELSE 0]
    /\ pc' = [pc EXCEPT ![w] = IF batch[w] + 1 < BatchSize THEN "select" ELSE "idle"]

MarkSent(w) ==
    LET e == event[w] IN
    /\ pc[w] = "mark"
    /\ ~failed[w]
    /\ ~LockedByOther(w, e)
    /\ \/ /\ MayMark(e)
          /\ status' = [status EXCEPT ![e] = "SENT"]
          /\ lockAge' = [lockAge EXCEPT ![e] = 0]
       \/ /\ ~MayMark(e)
          /\ UNCHANGED <<status, lockAge>>
    /\ NextInBatch(w)
    /\ UNCHANGED <<lastId, key, attempts, wait, device, pushed, faults>>

\* Exhaustion and delay come from the
\* worker's copy of the event, not from the row.
MarkFailed(w) ==
    LET e == event[w] IN
    /\ pc[w] = "mark"
    /\ failed[w]
    /\ ~LockedByOther(w, e)
    /\ \/ /\ MayMark(e)
          /\ status' = [status EXCEPT ![e] =
                            IF Exhausted(attempt[w]) THEN "DEAD" ELSE "FAILED"]
          /\ wait' = [wait EXCEPT ![e] = RetryDelay(attempt[w])]
          /\ lockAge' = [lockAge EXCEPT ![e] = 0]
       \/ /\ ~MayMark(e)
          /\ UNCHANGED <<status, wait, lockAge>>
    /\ NextInBatch(w)
    /\ UNCHANGED <<lastId, key, attempts, device, pushed, faults>>

\* A database error while resolving tokens or in markSent is caught, and
\* markFailed runs.
TryFails(w) ==
    /\ faults < MaxFaults
    /\ faults' = faults + 1
    /\ pc[w] = "resolve" \/ (pc[w] = "mark" /\ ~failed[w])
    /\ pc' = [pc EXCEPT ![w] = "mark"]
    /\ failed' = [failed EXCEPT ![w] = TRUE]
    /\ UNCHANGED <<tableVars, batch, event, attempt, heldFor, rowLocks, targets,
                   todo, device, pushed>>

\* A database error in the claim transaction, or in markFailed, ends the poll:
\* the finally block of processPending, and an event left PROCESSING.
PollAborts(w) ==
    /\ faults < MaxFaults
    /\ faults' = faults + 1
    /\ pc[w] \in {"select", "commit"} \/ (pc[w] = "mark" /\ failed[w])
    /\ pc' = [pc EXCEPT ![w] = "idle"]
    /\ batch' = [batch EXCEPT ![w] = 0]
    /\ Forget(w)
    /\ UNCHANGED <<tableVars, device, pushed>>

\* The instance dies; an open transaction is rolled back.
Crash(w) ==
    /\ faults < MaxFaults
    /\ pc[w] # "down"
    /\ faults' = faults + 1
    /\ pc' = [pc EXCEPT ![w] = "down"]
    /\ batch' = [batch EXCEPT ![w] = 0]
    /\ Forget(w)
    /\ UNCHANGED <<tableVars, device, pushed>>

Restart(w) ==
    /\ pc[w] = "down"
    /\ pc' = [pc EXCEPT ![w] = "idle"]
    /\ UNCHANGED <<tableVars, batch, event, attempt, heldFor, rowLocks, targets,
                   todo, failed, device, pushed, faults>>

\* Time passes.  Under Prompt it never carries a live claim to StaleLock.
Tick ==
    /\ Prompt => \A w \in Workers :
                    (Holding(w) \/ pc[w] = "commit") => heldFor[w] + 1 < StaleLock
    /\ wait' = [e \in Ids |-> IF wait[e] > 0 THEN wait[e] - 1 ELSE 0]
    /\ lockAge' = [e \in Ids |-> IF status[e] = "PROCESSING"
                                 THEN AgeOf(lockAge[e]) ELSE lockAge[e]]
    /\ heldFor' = [w \in Workers |-> IF Holding(w) \/ pc[w] = "commit"
                                     THEN AgeOf(heldFor[w]) ELSE heldFor[w]]
    /\ UNCHANGED <<lastId, key, status, attempts, pc, batch, event, attempt,
                   rowLocks, targets, todo, failed, device, pushed, faults>>

Work(w) ==
    \/ Poll(w)
    \/ \E e \in Ids : Select(w, e)
    \/ SelectNone(w)
    \/ CommitClaim(w)
    \/ Resolve(w)
    \/ \E t \in Tokens, reached, accepted \in BOOLEAN : Push(w, t, reached, accepted)
    \/ AllTried(w)
    \/ MarkSent(w)
    \/ MarkFailed(w)
    \/ Restart(w)

Next ==
    \/ \E k \in Keys, delay \in FirstDelays : Enqueue(k, delay)
    \/ \E u \in Users, t \in Tokens \cup {NoToken} : Register(u, t)
    \/ \E w \in Workers : Work(w) \/ TryFails(w) \/ PollAborts(w) \/ Crash(w)
    \/ Tick

Spec == Init /\ [][Next]_vars

(***************************************************************************)
(* Fairness: the interval timer and the event loop of every live instance  *)
(* keep running, a stopped container is started again, and time passes.    *)
(***************************************************************************)
FairSpec == Spec /\ WF_vars(Tick) /\ \A w \in Workers : WF_vars(Work(w))

-----------------------------------------------------------------------------

TypeOK ==
    /\ lastId \in 0..MaxEvents
    /\ key \in [Ids -> Keys]
    /\ status \in [Ids -> Statuses]
    /\ attempts \in [Ids -> 0..MaxClaims]
    /\ wait \in [Ids -> Nat]
    /\ lockAge \in [Ids -> Nat]
    /\ device \in [Users -> Tokens \cup {NoToken}]
    /\ pc \in [Workers -> Steps]
    /\ batch \in [Workers -> Nat]
    /\ event \in [Workers -> 0..MaxEvents]
    /\ attempt \in [Workers -> 0..MaxClaims]
    /\ heldFor \in [Workers -> Nat]
    /\ rowLocks \in [Workers -> SUBSET Ids]
    /\ targets \in [Workers -> SUBSET Tokens]
    /\ todo \in [Workers -> SUBSET Tokens]
    /\ failed \in [Workers -> BOOLEAN]
    /\ pushed \in [Ids -> SUBSET (Nat \X Tokens)]
    /\ faults \in Nat

(* An attempt number belongs to one claim: two workers on the same event    *)
(* (the second reclaimed it from a slow first one) never carry the same     *)
(* number, so logs, backoff and exhaustion are of distinct attempts.        *)
AttemptNeverShared ==
    \A v, w \in Workers :
        v # w /\ Holding(v) /\ Holding(w) /\ event[v] = event[w]
            => attempt[v] # attempt[w]

(* A device is pushed at most once in one attempt: what a worker still has  *)
(* to try has not been pushed under its attempt number, even when users     *)
(* share a device, and a crash-and-reclaim never reuses a number.           *)
OncePerAttempt ==
    \A w \in Workers :
        pc[w] = "send" =>
            \A t \in todo[w] : <<attempt[w], t>> \notin pushed[event[w]]

(* An event is given up only after MAX_ATTEMPTS claims, though a late       *)
(* worker decides it from a stale copy of the row.                          *)
DeadOnlyWhenExhausted ==
    \A e \in Ids : status[e] = "DEAD" => attempts[e] >= MaxAttempts

(* The column attempts counts: each claim has a number of its own, and an   *)
(* event has all its attempts before it is given up.                        *)
AttemptsCounted == AttemptNeverShared /\ DeadOnlyWhenExhausted

(* SENT and DEAD are final: a slow worker's late mark, or a reclaim, never  *)
(* reopens an event (the status = PROCESSING condition of both UPDATEs).    *)
TerminalIsFinal ==
    [][\A e \in Ids : status[e] \in {"SENT", "DEAD"} => status'[e] = status[e]]_vars

(* No event is lost: it becomes SENT only in a step of a worker whose own   *)
(* attempt reached every device it resolved for the event's audience.       *)
SentOnlyIfDelivered ==
    [][\A e \in Ids :
        status[e] # "SENT" /\ status'[e] = "SENT" =>
            \E w \in Workers :
                /\ Holding(w)
                /\ event[w] = e
                /\ \A t \in targets[w] : <<attempt[w], t>> \in pushed[e]]_vars

(* With prompt workers the lock column is a lease: whoever handles an event *)
(* is the only one, its row is PROCESSING and carries its attempt number,   *)
(* so both UPDATEs mark the claim they are meant for.                       *)
LeaseIsExclusive ==
    Prompt => \A w \in Workers : Holding(w) =>
        /\ status[event[w]] = "PROCESSING"
        /\ attempts[event[w]] = attempt[w]
        /\ \A v \in Workers \ {w} : Holding(v) => event[v] # event[w]

(* Every enqueued event is eventually delivered or given up, whichever      *)
(* instance crashes while it holds it.                                      *)
EventuallySettled ==
    \A e \in Ids : (status[e] = "PENDING") ~> (status[e] \in {"SENT", "DEAD"})
=============================================================================
