# service-m2: models, checks and proofs

This directory is a TLA+ development of service-m2, the NestJS back end of One Smart Mate: cards
(anomalies reported on a plant floor), CILT routines (cleaning, inspection, lubrication,
tightening), the catalogs and the level tree they refer to, the people who use them and the
notifications they get. Mobile devices work offline and synchronise; the service runs as several
instances over one MySQL database, and **nearly everything that can go wrong goes wrong between two
statements of two instances**. So the models are of handlers as sequences of SQL statements over
shared tables. Where the code only computes - lists, charts, the plan of a day, the rules of a
schedule - they are operators over the tables, compared with each other.

Paths such as `card/card.service.ts` are below `src/src/modules/`. `PROJECT.json` maps every
definition to the lines it stands for, lists the hazards of the code with the properties about each,
and names a mutant for every property.

## 1. Inventory

| Component | State | Operations | Hard behaviour | What makes it correct |
|---|---|---|---|---|
| Notification outbox (`notifications`, `firebase`) | table `notification_outbox` (status, attempts, available and lock times), device tokens | insert with the transaction that causes the event; every instance polls: claim, resolve tokens, push, mark | claims race; a slow worker is overtaken by a reclaim; crash between claim and mark; one push of several fails | no event lost, an attempt counted for every claim, given up only when exhausted, final statuses final |
| Authentication and sessions (`auth`, `auth-session`, `users/user-logout`, `users/password-reset`) | table `auth_sessions`, columns of `users` | login, fast login (another user below one's own session), refresh (rotation), logout, reset by code, guard | rotation by two instances; a child is inserted while its parent is revoked; a reset against logins in flight; deadlocks | a fast session never outlives its primary session; a token is exchanged once; credential changes close everything |
| Users and credentials (`users`, `file-upload`) | tables `users`, `user_has_sites` | create, update, import, fast passwords, device tokens, deactivation | whole-row saves of copies read without a lock; uniqueness looked for and not enforced | an email is one user's, an assignment one row, a fast password one user's of a site |
| Card creation and offline upload (`card`) | tables `cards`, `evidences`, outbox | create one card, or a batch of drafts, each in its own transaction | folios of a site; the same UUID twice; a lost answer and a retry; part of a batch fails | folios without gap, one card per UUID, stored whole, true answers |
| Card delta synchronisation (`card/card-delta-sync.reader.ts`) | columns `sync_changed_at`, the cursor each device keeps | a page of changes after a cursor | stamps of uncommitted changes, precision of the cursor, lost pages | no change skipped but those in flight while a page is read; every device gets the others |
| Card lifecycle (`card-solution`, `card-mutation`) | the card's row, its notes and evidences | provisional and definitive solution, priority, mechanic, due date, discard | checks before the lock are stale in it; half a solution; push and rollback | operations are atomic, none is lost, solutions stand |
| CILT executions (`CiltSequencesExecutions`, `ciltMstr/services`, `task`) | table `cilt_sequences_executions` | generate by hand, by a listing and every midnight on every instance; start, stop, update, delete | read-check-save without locks; full-row writes; numbers without an index | one execution per slot, a completed one stays completed, unique numbers |
| CILT and OPL masters, sequences, details | rows with an order among their siblings | create, update, clone, reorder, delete | ranges without rows to lock; clones of what changes; deadlocks | places in a list are unique, each transaction is one step of the list |
| CILT schedules (`ciltSecuencesSchedule`) | recurrence rules, an order in their sequence | create, update, reorder, delete, the schedules of a date | two saves without a transaction; calendar arithmetic, once in SQL and once in code | orders are unique; the two conditions agree |
| Level tree (`level`) | adjacency list, cards that repeat their path | create, update with cascade, move, clone | many writes without a transaction, keys that are strings; circles | a forest; a card's path is its node's; what is active is reachable |
| Catalogs (`catalog`, `cardTypes`, `preclassifier`, `priority`) | rows and their lifecycle, the snapshot on each device | create, update, deactivate, offline snapshot with a revision | validated before the transaction that uses them; stamps of a second, before the commit | cards have what was in use; the revision tells every change |
| Positions (`position`) | rows with an order, the users placed in each | create, update, reorder | several writes without a transaction | orders unique, users placed as the body says |
| Lists, charts, reports (`card`, `CiltSequencesExecutions`, `ciltMstr`, `export`) | none | queries | filters and joins written many times | answers that stand side by side agree |
| Guards (`auth/guard`, `common/auth`) | none | decide by role, site and owner | fail closed | no operation on another site's rows |
| Sites, companies, roles, AI queries, mail, WhatsApp, incidents, evidence storage | rows of their own, or none | single rows, formatting, external calls | external failures | - |

**How they meet.** Card creation writes its events into the outbox in its own transaction, and the
outbox reads the tokens that logins and logouts write. Every write to cards and evidences stamps
the rows that the delta synchronisation reads. The lifecycle and the level tree write the same card
rows as creation, and a new colour of a card type is written to its cards; the lifecycle pushes to a
new mechanic directly, not through the outbox. A password reset, a change of password or a
deactivation is a user operation that revokes sessions. The nightly task reads the plan - masters,
sequences, schedules, positions, levels - and fills each site's day with executions; a listing of a
user's day does the same from the user's side.

## 2. Modules

| Module | Of | Role |
|---|---|---|
| `NotificationOutbox` | the outbox and its processors | detailed, proved |
| `AuthSessions` | sessions and credentials | detailed, proved |
| `CardCreation` | upload of drafts | detailed, proved |
| `CardDeltaSync` | pages and cursors | detailed, proved |
| `CardLedger` | what operations on a stored card promise: single steps | abstract |
| `CardLifecycle` | the handlers of those operations, by statement | detailed, implements `CardLedger`, proved |
| `CiltExecutions` | the executions of a day: task, listings, people | detailed, proved |
| `ListOrder` | what an ordered list promises: single steps | abstract, proved |
| `OrderedLists` | masters, sequences, OPLs and details, by statement with locks | detailed, implements `ListOrder`, proved |
| `CiltSchedules` | schedules over the sequences of `OrderedLists`; rules and dates | composition, proved |
| `LevelTree` | levels and the cards on them | detailed, proved |
| `UserAccounts` | people, their sites, their fast passwords, the import | detailed, proved |
| `Catalogs` | card types, preclassifiers, priorities, cards, snapshots | detailed, proved |
| `Positions` | positions of a site and who is placed | detailed, proved |
| `SiteSetup` | the last four: a site is set up | composition, proved |
| `CardReports`, `CiltReports` | lists, charts, reports, the plan of a day | operators |
| `SiteReports` | the tables they read, and what they must agree on | composition, model-checked |
| `SiteSetupInvariants` | the inductive invariants of the four parts of `SiteSetup` | definitions, for its proofs |
| `...Proofs` | of the modules marked proved; `CiltPlanningProofs` is of `ListOrder`, `OrderedLists` and `CiltSchedules`, `SiteSetupProofs` of `SiteSetup` and its four parts | theorems |
| `MC...` | small instances for TLC, one or more `.cfg` each | |

### What all of them assume of MySQL and TypeORM

These are the properties of code that is not in the repository. They are used in the same way in
every module and marked external in the map.

- The server's default isolation, REPEATABLE READ (the configuration sets no other). A locking read
  or an UPDATE sees the committed rows and keeps its row locks to the end of the transaction; an
  UPDATE or a locking read by an index range also keeps others from inserting there, and where it
  finds nothing it keeps the gap. A plain read sees one snapshot, taken by the first such read of the
  transaction.
- Locks on a gap do not conflict with one another: two transactions that both found nothing both
  hold it, each insert waits for the other, and one is the victim.
- An insert of a unique key waits while an open transaction has inserted the same key, and fails
  (`ER_DUP_ENTRY`) if that one commits.
- One SQL statement is one step; it gets its locks together. The last statement of a transaction
  and its commit are one step where nothing can happen in between that another request sees.
- Deadlock victims, lock-wait timeouts and lost connections are one thing (`Fails`, `Abort`, `Lose`):
  the transaction is rolled back and the client gets an error. It may happen at any statement. Where
  there is no transaction, what was written before the failure stays.
- `repository.save(entity)` of a row that was read before writes back every column in which the
  entity differs from the database: a change that another request committed in between is undone.
  Inside a transaction that has locked the row there is no such change. `repository.update(id, row)`
  writes every column it is given.
- DATETIME and TIMESTAMP columns without a precision keep whole seconds; a JavaScript `Date` keeps
  milliseconds; `sync_changed_at` keeps microseconds and is set by the database at the statement.
- Columns of type bigint come back as strings, so `===` and `includes` with a number are false
  (`BigintIsString` in `LevelTree`).

Where the code takes no lock, a request may be *overtaken*: another one writes between its read and
its write. Several properties of such modules would be false without more, and the models say
exactly where: history variables (`overtaken`, `torn`, `rushed`, `unseen`, `crossed`, `late`, `disturbed`, `misplaced`)
record which rows were written by an overtaken or half-failed request, and the property claims that
every other row is sound. What these properties show is that the damage of such a race stays with the
rows it touched, and that nothing *else* in the code breaks the
table: no guard is missing, no sequence of calls one after the other leads astray. **They do not show
that the race does not happen: it does**, and the hazard's note in `PROJECT.json` says so for each:
a page read while a change is in flight (`NothingSkipped`), overlapping starts and stops (`RecordedStays`), generation by
several instances (`PlannedOnce`), overlapping or half-failed exchanges of schedules and positions
(`ScheduleOrdersUnique`, `PositionsKept`), half and overlapping moves (`TreeIsForest`, `CardsFollowTree`),
fast passwords looked for too early or not at all (`FastPasswordsUnique`), a card beside a new colour
(`CatalogHolds`), a late commit or one of the same second (`RevisionTellsChange`).

### NotificationOutbox

`Enqueue` is the insert of `NotificationOutboxService` (the row appears when its transaction
commits). Each `Worker` is the processor of one instance: `Poll` is `processPending` up to its first
claim, `Select`/`CommitClaim` the transaction of `claimNext` (FOR UPDATE SKIP LOCKED, so a worker
never waits), `Resolve` reads the audience's tokens, `Push` is one call of the messaging service,
`MarkSent`/`MarkFailed` the two conditional UPDATEs. `TryFails` and `PollAborts` are database errors
inside and outside the `try` of `processEvent`; `Crash` and `Restart` are the instance.
Time is modelled as distances, so there is no clock to bound. The rows of one worker's claim are
held in `rowLocks` between `Select` and `CommitClaim`. Message texts and payloads are left out; the
audience of a key stands for the payload.

### AuthSessions

Sessions are a table in columns (`kind`, `owner`, `actor`, `parent`, `revoked`). A request is at a
statement (`pc`), has locked rows and index ranges (`locks`) and has revoked sessions that show when
it commits (`revoking`). `Login` and `LoginInsert`, `FastLogin`/`FastLock`/`FastInsert`,
`Refresh`/`Rotate...`, `Logout...`, `Reset`/`Update` with `ChangeUser`, `CloseOwn`, `CloseActed`,
`CloseFast` are the statements of the handlers in the order of the code; `Wants`, `Blocks` and
`Granted` say which statement waits for which request. `SendCode` and `SetAppToken` read a user's row
without a lock and `SaveUser` writes the whole copy. Passwords are counted, not spelled. The expiry of
codes and of fast sessions, which only refuses sooner, is left out.

### CardCreation

`Upload` starts a handler with a batch; `Check` is the service's look for the UUID, `Validate` its
other checks (which may refuse anything here; `Catalogs` models what they read), and `LockSite`,
`Find`, `Insert`, `Attach` are the transaction of `CardCreationPersistence`; `Reread` is the look after
`ER_DUP_ENTRY`. A draft keeps what the idempotency check compares: UUID, site, content, priority, the
way its date is written, and the card type value; `MatchesSent` and `MatchesStored` are that check
before and inside the transaction, which is where they differ. `UpdatePriority` is the one lifecycle
operation that changes what is compared.

### CardDeltaSync

`Write` is any statement that writes cards or evidences: it locks rows and stamps them with the
present time, and `Commit` makes them visible later. `ReadUpperBound` and `ReadPage` are the two reads
of `CardDeltaSyncReader.read`; the device is taken to keep the cursor it is sent, and `PageLost` loses
an answer. `DateOf` is the conversion to a `Date`, which drops microseconds. `stale` and `crossed` are history: the
cards whose committed change a device has not been sent, and those with a change that was stamped within
a page and not yet committed when the page was read (`Overtaken`), or stamped at the very instant of
its cursor. As the code has it: such a change is missed until the card changes again.

### CardLedger and CardLifecycle

In `CardLedger` an operation is one step, `Apply`: it changes the row as it then is (`Changed`), and
adds its audit note (`NotesOf`) and evidences. In `CardLifecycle` each request is a handler: `Read`
is the service's read without a lock and its checks, `Lock` the transaction's read FOR UPDATE and the
checks that are repeated there, `Save` the row, `Commit` evidences, note and commit, `Push` the
notification of a new mechanic. A solution is represented by the request it came with, which stands
for all its columns; a due date by the priority whose days it was computed from, or by the day that was
given. There is no operation that makes a card open again, and none asks for the status: a
provisional solution of a resolved card makes it provisional, and a resolved card can be discarded.
No document of the repository says otherwise, so the models say what the code does.

### CiltExecutions

A day of a site. `BeginTask` is the midnight task of an instance, `BeginList` a user's listing; both
go through the slots of a plan (`Find`, `TakeNumber`, `Insert`): look for an execution of the slot,
read the site's last number, insert. `BeginGenerate`/`InsertGenerated` and `Create` are the two
operations by hand. `CallStart`, `CallStop`, `CallUpdate`, `CallDelete` admit a request past the
owner guard (`OwnerPasses`, `KeepsOwner`), `ReadTo...` reads the row and makes the copy, `Put` writes
every column (start and stop use `update`), `Load` and `Write` are the two statements of `save`.
`torn` says of each row what was written on a stale read: the row itself, its slot or its number.

As the code has it: the chart of anomalies counts an execution that the task made, whose tag is the
default 0, as one; the duration is the whole seconds from the start *as it is stored* to the instant of the
stop, cut off (`SecondsSince`), while the columns round both to the nearest second (`Stored`), so it may be a second
less than what lies between them: a stop at the instant of its start may record -1; `generate` takes the number after the last *live* execution and so reuses those of
deleted ones; stop does not compare its date with the start; a listing fills the slots of suspended
masters, which the task skips.

### ListOrder, OrderedLists and CiltSchedules

`ListOrder` is the promise: `place` says where each element is, and `Add`, `Give`, `Exchange`, `PutAt`,
`Copy`, `Remove` are single steps. `OrderedLists` is one module for two pairs of tables that the code
handles alike (CILT masters with sequences, OPLs with details; `kind` says which, and guards keep
what only one has). A transaction locks rows for itself (`own`), shared (`share`) and list ends
(`gap`): `ReadMaster`/`ShareMaster`, `LockLast` and `Insert` create; `LockRow` and `SaveUpdate` or
`FindTarget` and `SaveMove` change; `ReadOriginal` and `InsertCopies` clone; `CheckDelete` and `Delete`
remove. `CiltSchedules` adds the schedules, whose handlers have neither transaction nor lock:
`CheckSequence`, `ReadLast`, `InsertSched`, `ReadSched`, `SaveSched`, `FindOther`, `SaveOther`, `SaveSecond`.
`Selected` is the SQL condition of a date, with its nulls, `IsDue` the filter in code, with its zeros; a
date is a month, a day, the weekday its month begins with, and a number to compare end dates by.

As the code has it: an order is a signed tinyint, so a list ends at 127; the update of a master writes
the order of its body, whatever else is there (`given` remembers where a body said so); a fractional new
order finds no row and is rounded when it is stored; two creations in an empty list, two clones of one
master, or two opposite moves end in a deadlock and one is aborted; a sequence may be created below a
master that is deleted meanwhile; the order of a new schedule counts inactive ones; an update to
status A leaves `deletedAt`; an update may take a schedule to another sequence with the order it had;
the master that a body names (`HasMaster`) is any live one, of the sequence or not, and a schedule may be created inactive.

### LevelTree

`levels` is the table, `cards` the columns that a card copies from its level's place (`OnCreation`,
`OnMove`). `CallCreate`/`CheckCreate`/`InsertLevel`, `CallUpdate`/`CheckUpdate`/`CommitUpdate` (with
everything below), `CallMove`/`CheckMove`/`ReadChildren`/`SaveMoved`/`Reassign`/`SaveChild`/`ReadAffected`/
`UpdateCardsForLevel` (a statement each, no transaction), `CallClone`/.../`CommitClone` (one
transaction, level by level), and the creation of cards. `FindAllChildLevels` and `ChainOf` are
the loops of the service; on a circle they do not end, and the request is `circling`.

As the code has it: the new superior is compared with string ids, so a level can be moved below
itself or what is below it; a move of a root with children fails half way; a card of a moved root has
superior 0; grandchildren keep the depth they had; a clone of an inactive level is inactive; the clone of
a root has depth 1, as its superior is a string and compared with the number 0 (`level.service.ts:933`;
`ClonesAreSound` compares the depths below the top copy only). Ids stand for names, so a rename
(`level.service.ts:223`) is not seen: it leaves the old name in the paths of the cards below until a move refreshes
them, and `CardsFollowTree` is about which levels are in a path, not about their present names.

### UserAccounts, Catalogs, Positions and SiteSetup

`UserAccounts`: `CallCreate`, `LookForEmail` (the locking read, which keeps the email for the request even
where it found nothing: `Reserves`), `InsertUser` or `AssignUser`; `CallUpdate`, `CallUpdatePartial`,
`CallRotate` with `LockUser` and `SaveUser`; `CallImport` with everything read before the transaction
`ImportUsers`; `CallSaveRow`/`SaveRow`, the handlers that save a whole row. `SiteAccess` is the guard of
the sites of an actor. `idx_users_email` gives the gap lock that makes creation safe; a unique index on
the email alone, or on the assignment, there is not. As the code has it: a creation overwrites the fast
password of a user who is already at other sites, and one given by hand is not looked for; an import
assigns a known user without looking for the fast password at the new site.

`Catalogs`: the three kinds of entries in one table with a `stamp`, which is the latest of the row's times
and has whole seconds; `Create`/`InsertEntry`, `Update`/`SaveEntry` (which writes a new colour to the cards of a
type in its transaction), `CreateCard`/`InsertCard`, and `ReadSnapshot` with `Revision` and `Content`. A
preclassifier may be active below a type that is not; it is then not `Listed`.

`Positions`: `Create`/`InsertPosition`/`Place`, `Update`/`SavePosition`/`Unplace`/`Place`,
`UpdateOrder`/`SaveOther`/`SaveOrder`, none in a transaction, any of which may `Fail`. An update may take a
position to another site with the order it had (`torn` says so), and writes a stale order back.
`UpdateOrder` exchanges with whichever position it finds that has the new order: there are two when an
earlier request has left them so. Its body may have a fraction (`whole`): no position is found, and the column
stores the order rounded, where another position may be (`torn` says so too). A body names users as often as it
likes (`Named`), and each time is a row: `PositionsKept` is that there are as many rows as the body has names. A request that reads between the two saves of an exchange, where two
positions have the same order, is `overtaken` at once.

`SiteSetup` puts the four together: `subject` says which of them a behaviour is about, as no step of one
reads what another writes.

### CardReports, CiltReports and SiteReports

`CardReports` has the lists in pages (`FilteredCards`, `OffsetOf`, the sorts), the charts by area, machine, creator,
mechanic, weeks and methodology, the cards behind a bar, and the stacked reports over the tree.
`CiltReports` has the day of an operator (`UTCRange`, in quarters of an hour; a zone has a distance to UTC before and
after the instant of its change of clocks), the slots planned from masters (the task) and
from users (the listing), the nested answers and the charts over executions. `SiteReports` lets the
tables grow row by row and states what must agree. As the code has it: some reports count deleted cards
and others do not, the weeks default to status A, what is due today is overdue; the total of a stacked report has a card once for every level its row names
(`card.service.ts:2398`), and `CountsAddUp` says that it is this multiple of what the grouped report counts;
the comparisons are only between answers that mean the same. A zone that shows hour 0 at noon UTC (UTC+12 to +12:59,
for which the runtime writes 24 or 00) is left out.

## 3. Runs

Passing runs:

| Run | Instance | Shows |
|---|---|---|
| `outbox_safety` | 2 workers, 1 event for 2 users that may share a device, 3 claims, 1 fault, any slowness | attempts are counted: a number is never shared and DEAD means exhausted (`AttemptsCounted`); SENT and DEAD are final (`TerminalIsFinal`); SENT means every resolved device was reached (`SentOnlyIfDelivered`) - even when a stale event is reclaimed from a worker that is still sending |
| `outbox_liveness` | 2 workers, 2 events, 1 fault, workers within the lock timeout | claims are leases (`LeaseIsExclusive`), and every event is settled (`EventuallySettled`) |
| `auth_sessions` | 2 users, 2 handlers, 3 sessions, 1 credential change, 1 code | `FastNeedsPrimary`, `ReplacedOnce`; a circle of waiting requests always includes a credential change (`OnlyCredentialChangesDeadlock`); a committed one leaves no session open (`ClosesEverySession`) |
| `card_creation` | 2 handlers with batches of 2, 3 drafts, 2 sites | `FoliosConsecutive`, `CardIsWhole`, `NeverDuplicateRecord`, `SuccessIsTrue`, `NoCircularWait` |
| `delta_sync` | 1 device, 3 cards and an evidence, pages of 2, 2 writers, 3 changes | with changes in flight while pages are read, `NothingSkipped` and `EventuallyFresh`: what was in flight aside, no change is passed and every one arrives |
| `card_lifecycle` | 3 requests of any kind on one card | the handlers implement the ledger (`LedgerSpec`); solutions are whole and statuses have their columns (`CardIsSupported`); `ToldTheTruth` |
| `cilt_executions` | 2 requests at a time, an operator with one slot that the site's plan has twice, an administrator, 2 rows | slots and numbers are filled once (`PlannedOnce`), two instants, of which the columns round one down and the other up: a completed execution has all its record, its duration within the rounding (`CompletedWhole`) and keeps it (`RecordedStays`), but for rows torn by an overlap |
| `cilt_planning` | a site with 2 masters, 3 sequences (or OPLs and details), 2 requests at a time; schedules of one sequence; 4,320 rules on 59 dates | the transactions implement the list (`ImplementsList`), with `OrdersUnique` and `DetailsHaveMasters`; `ScheduleOrdersUnique` beside them; SQL and code select the same schedules (`SchedulesAgree`) |
| `site_reports` | up to 4 rows of cards, executions, placements and plan over a tree of 5 levels | a bar and the list behind it (`DrillDownAgrees`), pages of both lists (`ListsAgree`), sums under joins, the totals of stacked reports, and days in four zones, with quarter hours and changes of clocks (`CountsAddUp`), both ways to plan a day (`PlansAgree`) |
| `site_setup` | one of: levels (a plant of 3, 3 requests), people (2 sites, 2 users), catalogs (3 entries, 1 card), positions (2 sites, 3 requests) | `TreeIsForest`, `ActiveIsReachable`, `CardsFollowTree`, `ClonesAreSound`; `PeopleUnique`, `FastPasswordsUnique`; `CatalogHolds`, `RevisionTellsChange`; `PositionsKept` |

Violation runs, each a disagreement of the code with a test or a comment of the repository (the
quotations are in `PROJECT.json`, "findings"):

| Run | What TLC finds |
|---|---|
| `card_retry` | a draft sent with an empty card type value is stored with null; the retry after a lost answer is compared as sent and refused as somebody else's UUID. |
| `level_move` | a level with children is moved: the children are given its old superior by one statement and are then saved as they were read, below the moved level again, where the controller says that they are reassigned. |

`delta_sync` restricts nothing about when pages are read: a change is stamped, a page is read whose cursor is the
present time, the change commits, and no later page selects it. The properties say that only the cards of such changes
are missed, and `crossed` says which they are. `Spread` (fewer than a page of cards change in one millisecond) is a
guard of the model that the code does not have; only `EventuallyFresh` needs it: without it the cursor, cut to a
millisecond, stays before the rows, and the same page comes for ever.

**Bounds, and why they are enough.** All hazards listed are about two handlers, or a
handler and a crash, meeting at one row: two workers or handlers reach every pair of statements, and
`card_lifecycle` has a third, so that something can happen between the two. Events, sessions, sites and
drafts are the fewest that tell the interesting cases apart: two sites for the order of
locks, a session and its child and its successor, a batch of two for one draft failing. `MaxClaims` is
one above `MaxAttempts`, so that a reclaim after exhaustion happens; `MaxFaults` is one, and a second
crash only repeats the first on a row that is again PROCESSING. In `CardDeltaSync`, `Grain` is two
clock units, enough for two rows to differ below a millisecond; in `CiltExecutions` a second is four instants, and
executions start and stop a quarter and a half past one, so that the one is rounded down and the other up. A body names a user up to twice. One card is enough for `card_lifecycle`:
no operation reads or writes two.

State constraints cut behaviours off at these places, after the states beyond the cut have been
checked themselves: in `auth_sessions`, `Bounded` (a third session and a reset code are not both in play, and no
third session is opened after a committed change); in `cilt_executions`, `FirstTear` (a behaviour is followed
until a row is torn or two rows have been edited: a torn row is excused from then on);
in `cilt_planning`, `Bounded` (each of the 4,320 rules is checked on a state with one schedule, and
the handlers run with the daily rule only; they never look into a rule; of three requests on the lists the last runs
alone, as in `site_setup`); in `site_reports`, `OneSubject`
(executions grow with the plan, cards with the placements: no report reads both); in `site_setup`,
`FirstTear` (levels are followed until one is torn, and of three requests the last runs alone: it meets
what two overlapping ones have left; a site has three positions at first, so that an exchange has two to
touch and one to leave alone). The 59 dates are the first and last day, the ends of
weeks and the days around them in a month that begins on each weekday, with 29 February.

Theorems hold for every value of the constants; the bounds on attempts, changes, sessions and calls are
guards that only cut behaviours off, and the proofs do not use any particular value of them.

Handlers are interchangeable (nothing but equality is asked of them), so the safety runs use symmetry;
the liveness runs do not.

Deadlock is checked by TLC where the system goes on for ever: `outbox_*`, `auth_sessions`,
`card_creation`, `delta_sync`, `cilt_executions`. In the others requests are counted or rows stop growing, and the system stops
when all are answered.

**Fairness.** `outbox_liveness`: each worker goes on (`WF(Work(w))`: the interval timer of
`onModuleInit` polls for ever and the event loop runs; a killed container is restarted), and time
passes. Nothing is assumed of pushes, which may be refused every time, or of faults. `delta_sync`:
transactions end, by a commit or by InnoDB's timeouts; time passes; the device keeps asking, and an
answer gets through again and again (`SF(ReadPage)`; without strong fairness the network could lose
every page, and no cursor would ever move).

Every property of a passing run has a mutant: a definition with a plausible mistake (`Name_Mistake`
beside `Name` in the modules), under which TLC finds the property violated.

## 4. Proofs

All proofs are checked by TLAPS with its SMT and Zenon backends, for any number of workers, requests,
users, cards, sites, drafts, rows and lists. They rest on the named assumptions about constants
(`ParameterAssumption`, `PayloadAssumption`, `PowerAssumption`, `AuthAssumption`, `DraftAssumption`,
`DeltaAssumption`, `LedgerAssumption`, `PeopleAssumption`, `ExecutionsAssumption`, `SchedulesAssumption`,
`TreeAssumption`, `CatalogAssumption`, `JobsAssumption`, and those of
`OrderedLists`), which TLC evaluates in the runs, and on the model of the database above. `PowerAssumption` says
that powers of two are numbers: the provers do not know exponentiation. `SchedulesAssumption` says that a null is
no date, and that the schedules of the beginning have different orders within a sequence. What the four parts of
`SiteSetup` assume is likewise of the beginning: levels that are a forest, below levels of their own site, those in
use below levels in use, no two of a site with a machine id and none with the id of another level as its machine
id, and cards that have the place of their level; entries and cards that agree; positions of a site that have
different orders.

No safety property here is inductive by itself: each talks about rows, and is true because of what the
requests in flight know. Each proof module therefore has an inductive invariant of two kinds of parts -
what a request at a given statement knows of the rows it has locked, and what the tables hold - with
one lemma for each action, and the theorems of the specification at its end.

- **Outbox** (`Invariance`): a claim transaction holds its row from SELECT to COMMIT (`ClaimHeld`,
  `LocksDisjoint`), so the row is still as selected when the attempt number is taken from it; hence
  every number is taken once and lies at or below the row's (`Numbered`); what was pushed under a
  number is what its holder has already tried (`PushedUnderOwnNumber`, `PushedAll`). From it
  `AttemptsAreCounted`, `TerminalStays`, `SentIsDelivered`, and that a device is pushed at most once in an
  attempt. `LeaseTheorem` needs a second invariant, about ages: a claim's lock is as old as its worker's
  clock reading, so a row is never stale while a prompt worker holds it.
- **Sessions** (`SessionInvariance`): two-phase locking. A session is locked by at most one request
  (`Exclusive`); what a request is about to revoke it has locked, and that is all its UPDATEs match
  (`Positions`), because nobody else can revoke a locked row, insert a child below a locked parent, or
  insert into a locked range. From it `FastSessionsAreSupported`, `RotationIsExclusive`,
  `CredentialChangeCloses`. `CirclesNeedCredentialChange` follows too: without a credential change in the circle,
  who holds a row waits, if at all, for somebody who waits for nothing (a logout for its session), so no
  circle closes.
- **Card creation** (`CreationInvariance`): who has locked which site, that the folio computed under
  the lock still follows the site's last one, and that the inserted card is the only one of its UUID.
  `UploadsNeverDeadlock` needs no induction over circles: whoever waits for a site holds nothing, and
  whoever waits for a UUID waits for a request whose next step is the commit.
- **Delta synchronisation** (`PagesSkipNothing`): without any assumption about when pages are read, and without `Spread`, which only
  the progress of pages needs. Two halves: what is in flight or still to come is stamped past every cursor, or is `crossed` (`Ahead`); and what a page leaves out is, in the page's
  order, past the last card that it has (`LastIsPassed`: the order is total, and a card on the page has
  fewer before it than one that is not). A Date never holds a time later than the one it was made from, so
  cutting a cursor only makes it select more.
- **Card lifecycle** (`LifecycleInvariance`, `ImplementsLedger`): a transaction holds, alone, what it
  computed from the row that is still there (`HoldsCurrent`), so its commit is the ledger's `Apply` and
  every other step a stutter: `Spec => LedgerSpec`. That the first solution of a kind is never overwritten is
  proved of the ledger, where it is immediate, and follows for the handlers; `CardsAreSupported` is what the
  run checks.
- **Ordered lists** (`TransactionsAreApart`, `TransactionsAreAtomic`): rows are locked exclusively by one
  transaction (`Exclusive`), and for each transaction `Work(r)` says what it knows: the last order
  of the list whose end it guards, the row at the place it moves to, the original of its clone, the OPL of
  its detail. `Work(r)` speaks only of rows and list ends that `r` has locked, so one frame lemma
  (`WorkFrame`: a step of another request that respects the locks `Evolves` keeps it) serves every action.
  Then each write maps to one step of `ListOrder` - insert to `Add`, update to `Give`, the exchange to
  `Exchange` or `PutAt`, the copies to `Copy`, deletion to `Remove` - and everything else to a stutter. That
  places stay unique (`PlacesStayUnique`) is proved of `ListOrder` and carried over (`OrdersStayUnique`);
  `DetailsStayBelowMasters` and `CopiesStayCurrent` come from the invariant.
- **Schedules** (`SchedulesAreKnown`): nothing is locked, so, as for executions, what a request has read is so
  unless another has overlapped it (`Knows`): the last order of the sequence, the orders that are still to be
  inserted, both rows of an exchange; between the two saves of an exchange, and after one that failed there, two
  rows may share an order, and `Settled` excuses exactly those. From it `ScheduleOrdersStayUnique`. That SQL and
  code select the same schedules (`QueryAndCheckAgree`) is proved for each kind of rule, beside the invariant that
  every stored rule is one.
- **Levels** (`TreeInvariance`): a circle can only be closed by a write that hangs a level on what is below it.
  New levels hang on older ones, or on one another in the order of their ids, so that only a move
  matters; a move that nobody has overlapped knows a set `D` of levels, its own among them, that takes along
  everything below it and does not have the new superior in it (`KnowsPath`). Cutting a set off that is closed
  downwards makes no circle that was not there before (`CutOff`, `CircleWasThere`), so a circle always passes
  through a level that an overlapped request, or a move below itself, has written. The loops of the code are recursive
  functions here, about which nothing can be proved by induction; what is needed of them follows from their
  fixpoints and from least counterexamples (`Smallest`), and that a chain of superiors that does not end leads
  round (`EndlessLeadsRound`) from the pigeonhole principle. From it `LevelsStayForest`.
- **Levels in use and clones** (`PlantInvariance`): a second invariant beside the first. Levels hang on levels of
  their site, those in use on levels in use (`ActiveHang`, but for the `Bad`), machine ids are unique, and a
  request knows that its machine id is free, that its deactivation has all below in its list, and which columns a
  move writes back (`KnowsRows`). The machine id of a copy is its own new id, so it has to be known too that no other
  level's machine id is a level's id (`MachinesOwned`). The clone is the hard part: what is below the level that is
  cloned is at any time divided into what has been copied and the subtrees of what is still to be copied
  (`CopiesOnce`), because the subtrees of two children have nothing in common (`SubtreesApart`); this needs that
  the level is in no circle, and in a circle the clone never comes to its end (`CirclesOn`), so that nothing has
  to be said of it. From it `ClonesStaySound`; and `ActiveStaysReachable`, for which the tree that is loaded grows
  by the children in use of what it has (`TreeGrows`), stops growing within as many steps as there can be levels
  (`GrowthStops`), and at its end has every level whose chain of superiors is in use (`CleanIsReached`).
- **Cards and their levels** (`CardsStayPlaced`): a third invariant, which rests on the two before. While a move runs
  cards are wrong, so it says of every card that it has the place of its level, or is excused, or that some
  move is still to refresh it (`CardsInPlace`, `Refreshes`): one whose own levels - the moved one and the children it
  listed - are above the card's, and which has the card's level in its list or will find it below the moved level.
  A move lists what is below the children before it writes and what is below the moved level afterwards; that the two lists miss
  nothing whose path it changed is the point of the proof. The first level of its own above a card is either
  the moved one, or everything from that level down is in the first list (`ListsAllBelow`, `FirstOwn`), and whatever
  has the moved level above it is found below it (`BelowWhatIsAbove`). A chain that no written level is in
  is as it was, and so is the place (`ChainsAgree`, `PlacesAgree`); the same lemma says that the map of the site, which a
  move reads once, has the places of the table. A move that fails after its first write has torn its own
  levels, and so excuses every card that it was still to refresh (`CardsFail`). When no move is under way nothing
  is left to refresh.
- **Catalogs** (`CatalogInvariance`): nothing is locked; what a request has read - that a code is free, a type's colour,
  that the entries of a card are active - is so unless another has overtaken it (`KnowsEntry`). The revision is
  the latest stamp, and a stamp is given when the handler runs, not when it commits: a change that is committed since a
  snapshot either has a stamp past the snapshot's revision, and then so has the catalog for as long as nothing
  `late` comes (`RevisionPasses`), or is itself late. From it `CatalogsHold` and `RevisionsTellChanges`.
- **Positions** (`JobsInvariance`): as for schedules, what a request has read is so unless another has overtaken it
  (`KnowsJob`), and whoever runs beside an exchange that is between its saves has been (`ExchangesAreAlone`), as
  what it has read of the two rows is not so for long. Without that an insert beside an exchange
  would get the order of one of its rows. `PositionsStayKept` is in two halves: orders, and placements.
- **A site is set up** (`SetupsHold`): the promises of people, catalogs, positions, levels and cards together, for
  `SetupSpec`. A step of one part leaves the variables of the others alone, so their invariants are
  framed (`PartsStay`); the counter of calls, which all of them read, is in each of them a bound only.
- **People** (`AccountsInvariance`): two kinds of knowledge. What a creation has found by its locking read is
  so until it commits (`Holds`): nobody has the email, or the user who has it is not at the site. What an
  update, an import or a saved copy has seen without a lock is so while nobody has overtaken it (`Saw`), and
  is forgotten with the first commit beside it. All writes go through `Commit`, so one lemma (`CommitKeeps`)
  says under which conditions a transaction keeps the invariant - it respects the others' locks, its emails
  and assignments are new, its fast passwords are new where they were looked for - and each handler has to
  meet them. From it `PeopleStayUnique` and `FastPasswordsStayUnique`.
- **Executions** (`ExecutionsInvariance`): nothing is locked, so a request knows only what nobody has
  overtaken (`Sees`): that its slot has no row and its number is free, at an insert, and that its copy is what the
  handler makes of the row as it is (`Current`), at a write. Two lemmas carry every change of the table:
  `InsertKeeps` (a new row is in a free slot under a free number, or is torn) and `RewriteKeeps` (a row is
  rewritten with its own number; if the writer was not overtaken, what it writes is what `WhatIsWritten` says
  of start, stop and deletion). Numbers never exceed the number of rows, so there is a last one to
  follow. From it `PlanIsFilledOnce`, `CompletedStaysWhole` and `RecordStays`.

**Only model-checked:** the liveness properties (`EventuallySettled`, `EventuallyFresh`), which are out of the
prover's reach, and of `SiteReports` everything (`DrillDownAgrees`, `ListsAgree`, `CountsAddUp`, `PlansAgree`), as it
compares sums and folds over tables, which are defined by induction over data.

**What the properties do not say.** `ClosesEverySession` is about sessions that exist when the change
commits. A login that compared the old password before a reset and inserts its session after it keeps that
session; nothing in the repository promises otherwise, and no property claims it. `AttemptsCounted` does
not bound the pushes of an event to one: a failed token makes the whole attempt fail, and the devices
that had accepted are pushed to again in the next. `ToldTheTruth` says nothing of requests that ended in
an error or were cut off: they may have committed. A push to a new mechanic may be lost.

**Behaviour of the code that no run contradicts but a reader should know,** besides what section 2 says of
each module: `firebaseAppToken` (`users/users.service.ts:772`) saves a user as it was read, so a reset code
that was consumed meanwhile opens the account again; a due date that was allowed for the wildcard priority
is stored under a regular one that another request gives meanwhile (`card/card.service.ts:1662`); the
"second Monday" of a rule is the Monday of the second calendar week (`ciltSecuencesSchedule.service.ts:203`);
the day of an operator is computed with the zone's distance at noon (`timezone.utils.ts:27`), so when the
clocks change an hour near midnight is on neither day or on both, which `CountsAddUp` confines to it; a listing that only reads counts up the use of the OPLs it shows; the orders of pages by
date have no second key, and `NULLS LAST` is not MySQL's; the parts of a snapshot are read in one
transaction, the paged catalogs are not.

## 5. Not modelled

Nothing of these is shared between requests in a way that a model would tell more than the code does:

- `site`, `company`, `roles`, `status`, `currency`, `amDiscardReason`, `ciltFrequencies`, `ciltTypes`, `oplTypes`: single rows stored
  and returned; `oplLevels` and `ciltMstrPositionLevels`: single rows that join two others, read in
  `CiltReports`; the counters of use of OPLs; the evidences of executions.
- Roles and placements of a user: written in the transactions of `UserAccounts`, and nothing reads them
  there.
- `ia`: a text policy over SQL and calls of an external service; `mail`, `whatsapp`, `incident`, the object
  store of evidences: external calls, no state kept.
- `repositoryOLD`, `ciltSequencesFrequenciesOLD`: superseded.
- Parsing of sheets, formatting of exports, logging, configuration and error mapping.

What would come next: an abstract delivery specification for the outbox (an event is delivered or given up,
with no worker in sight) in the manner of `CardLedger`; one table of cards for creation, lifecycle and delta
synchronisation, whose changes are `CardLedger!Apply`.
