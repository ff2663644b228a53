--------------------------- MODULE CiltExecutions ---------------------------
(***************************************************************************)
(* The executions of CILT sequences of one site and one day.  The daily    *)
(* task, which every instance of the service starts at midnight, and every *)
(* listing of a user's day fill it: an execution for each slot of the      *)
(* plan that has none.  Meanwhile users start, stop, edit, delete, create  *)
(* and generate executions.                                                *)
(*                                                                         *)
(* No operation opens a transaction or takes a lock.  A request is one     *)
(* handler on some instance and each statement it issues is a step, so     *)
(* between the read and the write of a row others may write it:            *)
(*   - update(id, row) writes every column of the row as it was read;      *)
(*   - save(row) reads the row again and writes the columns in which the   *)
(*     copy differs from it, those that others changed meanwhile too.      *)
(* What was decided from a row, a search or a number that another request  *)
(* has since overtaken is recorded in overtaken and torn (history).        *)
(*                                                                         *)
(* A body gives its instants to the millisecond, of which Second make a    *)
(* second; the columns of a row keep whole seconds.                        *)
(***************************************************************************)
EXTENDS Integers, Sequences, FiniteSets

CONSTANTS
    Requests,       \* handlers that may run at the same time
    Users,
    Admins,         \* the users that have one of SITE_ADMIN_ROLES
    Sequences_,     \* CILT sequences
    Schedules,      \* times of the day that schedules name
    Now,            \* the time of an execution generated by hand
    SiteDay,        \* the slots the site's plan of the day has, in the order it visits them
    UserDay,        \* the slots of each user, as a listing visits them
    Times,          \* the instants at which executions start and stop
    Second,         \* instants in a second
    Cards,          \* AM cards an execution may name
    ByHand,         \* what requests to generate ask for: slots of the time Now
    StopInputs,     \* bodies of the requests to stop
    UpdateInputs,   \* bodies of the requests to update
    CreateInputs,   \* bodies of the requests to create
    None,           \* an absent user, tag, body or row
    MaxExecutions   \* bound on the rows of the table

\* What a column keeps of an instant: MySQL rounds it to the nearest second.
Stored(t) == (t + Second \div 2) \div Second
Moments == {Stored(t) : t \in Times}

Null == 0           \* an absent start, stop, duration or number, and the tag 0

Slot == [sequence : Sequences_, time : Schedules \cup {Now}, user : Users]
Statuses == {"A", "R", "I"}

\* A row: whose and when it is, and what was recorded when it was executed.
ExecutionType ==
    [sequence : Sequences_, time : Schedules \cup {Now}, user : Users,
     executor : Users \cup {None}, number : Nat,
     start : Moments \cup {Null}, stop : Moments \cup {Null}, real : Int,
     nok : BOOLEAN, tag : Cards \cup {Null, None}, status : Statuses, deleted : BOOLEAN]

\* The columns a request may edit: the update DTO has no number, no deletion.
Editable == {"sequence", "time", "user", "executor", "start", "stop", "real", "nok", "tag", "status"}

StartType == [at : Times]
StopType == [at : Times, nok : BOOLEAN, tag : Cards \cup {Null, None}]

\* The body of an update: the columns it names and the values it gives them.
UpdateType == [names : SUBSET Editable, values : ExecutionType]

ASSUME ExecutionsAssumption ==
    /\ Second \in Nat \ {0}
    /\ Times \subseteq Nat
    /\ \A t \in Times : Second <= t
    /\ None \notin Users \cup Cards
    /\ Now \notin Schedules
    /\ Admins \subseteq Users
    /\ SiteDay \in Seq(Slot)
    /\ UserDay \in [Users -> Seq(Slot)]
    /\ ByHand \subseteq {slot \in Slot : slot.time = Now}
    /\ StopInputs \subseteq StopType
    /\ \A d \in UpdateInputs : d \in UpdateType
    /\ \A d \in CreateInputs : d \in ExecutionType /\ d.number = Null /\ ~d.deleted
    /\ MaxExecutions \in Nat

VARIABLES
    execs,      \* table cilt_sequences_executions: the row of each id
    req,        \* the requests
    overtaken,  \* history: what each relies on that another request has changed
    torn,       \* history: the rows written or inserted by an overtaken request
    hand        \* history: the rows edited, or created, with the values of a body

vars == <<execs, req, overtaken, torn, hand>>

\* A request: the statement it has come to, what it is for, the user a listing is of, the
\* slots it has still to fill, the row it is about, its body, the row as it
\* read it with its changes, the columns its save found different, and the
\* number it has computed.
New(k, u, at) ==
    [at |-> at, kind |-> k, user |-> u, todo |-> <<>>, id |-> 0, input |-> None,
     copy |-> None, columns |-> {}, number |-> 0]

\* What of a request may be overtaken: its row since it was read, the row since its
\* save compared the columns, its search, its number.
Aspects == {"row", "columns", "slot", "number"}

-----------------------------------------------------------------------------
Ids == 1 .. Len(execs)
Live == {i \in Ids : ~execs[i].deleted}
SlotOf(e) == [sequence |-> e.sequence, time |-> e.time, user |-> e.user]
\* Bugs: a row that has been executed is not found; one of another time is.
Holding_Bug(slot) == {i \in Live : SlotOf(execs[i]) = slot /\ execs[i].status = "A"}
Holding(slot) == {i \in Live : SlotOf(execs[i]) = slot}

Largest(S) == CHOOSE n \in S \cup {0} : \A m \in S : m <= n

\* The number of the row that fills a slot follows the site's last one, deleted or not.
NextNumber == Largest({execs[i].number : i \in Ids}) + 1

\* That of a row generated by hand follows the last one not deleted.
NextLiveNumber == Largest({execs[i].number : i \in Live}) + 1

\* The row that fills a slot: its tag is the column's default, 0.
Filled(slot, n) ==
    [sequence |-> slot.sequence, time |-> slot.time, user |-> slot.user, executor |-> slot.user,
     number |-> n, start |-> Null, stop |-> Null, real |-> Null, nok |-> FALSE, tag |-> Null,
     status |-> "A", deleted |-> FALSE]

\* The row generated by hand, to be executed now.
Generated(slot, n) == [Filled(slot, n) EXCEPT !.executor = None, !.tag = None]

\* The owner's guard: administrators pass, the others only for executions that
\* are theirs, and they give them to nobody else.
KeepsOwner(u, names, values) ==
    \A c \in {"user", "executor"} \cap names : values[c] \in {u, None}
OwnerPasses(u, i, names, values) ==
    \/ u \in Admins
    \/ u \in {execs[i].user, execs[i].executor} /\ KeepsOwner(u, names, values)
NewOwnerPasses(u, e) ==
    \/ u \in Admins
    \/ e.user = u /\ e.executor \in {u, None}

At(r, at) == req[r].at = at
Idle(r) == At(r, "idle")
Filling(r) == req[r].kind \in {"task", "list"}

\* The request's write of row i overtakes those that hold a copy of it.
Overtakes(r, i) ==
    overtaken' = [q \in Requests |->
        IF q = r THEN {}
        ELSE IF req[q].at \in {"load", "write", "put"} /\ req[q].id = i
        THEN overtaken[q] \cup {"row"} \cup (IF At(q, "write") THEN {"columns"} ELSE {})
        ELSE overtaken[q]]

\* Its insert of a row overtakes the numbers and the searches of the others.
InsertOvertakes(r, e) ==
    overtaken' = [q \in Requests |->
        IF q = r THEN {}
        ELSE IF req[q].at \notin {"number", "insert"} THEN overtaken[q]
        ELSE overtaken[q]
             \cup (IF At(q, "insert") THEN {"number"} ELSE {})
             \cup (IF Filling(q) /\ SlotOf(e) = Head(req[q].todo) THEN {"slot"} ELSE {})]

Tears(r, i) == torn' = [a \in Aspects |-> IF a \in overtaken[r] THEN torn[a] \cup {i} ELSE torn[a]]

\* The copy of a row with what the body of an update names.
Edited(e, d) == [c \in DOMAIN e |-> IF c \in d.names THEN d.values[c] ELSE e[c]]

\* The request leaves the slot in hand, or ends.
Ended == New("none", None, "idle")
Advanced(r) ==
    LET q == req[r] IN
    IF ~Filling(r) \/ Len(q.todo) = 1 THEN Ended
    ELSE [New(q.kind, q.user, "find") EXCEPT !.todo = Tail(q.todo)]
Advance(r) == req' = [req EXCEPT ![r] = Advanced(r)]
Fail(r) == req' = [req EXCEPT ![r] = Ended]
Forget(r) == overtaken' = [overtaken EXCEPT ![r] = {}]

-----------------------------------------------------------------------------
Init ==
    /\ execs = <<>>
    /\ req = [r \in Requests |-> Ended]
    /\ overtaken = [r \in Requests |-> {}]
    /\ torn = [a \in Aspects |-> {}]
    /\ hand = {}

\* The daily task on some instance comes to the site.
BeginTask(r) ==
    /\ Idle(r)
    /\ SiteDay # <<>>
    /\ req' = [req EXCEPT ![r] = [New("task", None, "find") EXCEPT !.todo = SiteDay]]
    /\ UNCHANGED <<execs, overtaken, torn, hand>>

\* A listing of the day of user u fills it first.
BeginList(r, u) ==
    /\ Idle(r)
    /\ UserDay[u] # <<>>
    /\ req' = [req EXCEPT ![r] = [New("list", u, "find") EXCEPT !.todo = UserDay[u]]]
    /\ UNCHANGED <<execs, overtaken, torn, hand>>

\* Bug: a row that is not executed is filled again.
Find_Bug(r) ==
    /\ At(r, "find")
    /\ LET rows == Holding(Head(req[r].todo)) IN
       \/ /\ rows = {}
          /\ req' = [req EXCEPT ![r].at = "number"]
       \/ \E i \in rows :
            IF execs[i].start # Null /\ execs[i].stop # Null
            THEN Advance(r)
            ELSE req' = [req EXCEPT ![r].at = "load", ![r].id = i,
                                    ![r].copy = Filled(Head(req[r].todo), execs[i].number)]
    /\ UNCHANGED <<execs, overtaken, torn, hand>>

\* The search for the slot in hand: a row that has been executed is left alone,
\* another one is saved as it was found, and where there is none one is inserted.
Find(r) ==
    /\ At(r, "find")
    /\ LET rows == Holding(Head(req[r].todo)) IN
       \/ /\ rows = {}
          /\ req' = [req EXCEPT ![r].at = "number"]
       \/ \E i \in rows :
            IF execs[i].start # Null /\ execs[i].stop # Null
            THEN Advance(r)
            ELSE req' = [req EXCEPT ![r].at = "load", ![r].id = i, ![r].copy = execs[i]]
    /\ UNCHANGED <<execs, overtaken, torn, hand>>

\* The site's last number is read just before the insert.
TakeNumber(r) ==
    /\ At(r, "number")
    /\ req' = [req EXCEPT ![r].at = "insert", ![r].number = NextNumber]
    /\ UNCHANGED <<execs, overtaken, torn, hand>>

\* The row of an insert is appended with the next id of the table.
Insert(r, e) ==
    /\ Len(execs) < MaxExecutions
    /\ execs' = Append(execs, e)
    /\ Tears(r, Len(execs) + 1)
    /\ Advance(r)
    /\ InsertOvertakes(r, e)

InsertFilled(r) ==
    /\ At(r, "insert") /\ Filling(r)
    /\ Insert(r, Filled(Head(req[r].todo), req[r].number))
    /\ UNCHANGED hand

\* An execution is generated now, by hand: its number is read first.
BeginGenerate(r, u, slot) ==
    /\ Idle(r)
    /\ LET e == Generated(slot, NextLiveNumber) IN
       /\ NewOwnerPasses(u, e)
       /\ req' = [req EXCEPT ![r] = [New("generate", None, "insert") EXCEPT !.copy = e]]
    /\ UNCHANGED <<execs, overtaken, torn, hand>>

InsertGenerated(r) ==
    /\ At(r, "insert") /\ req[r].kind = "generate"
    /\ Insert(r, req[r].copy)
    /\ UNCHANGED hand

\* An execution is created with the values of a body, without a number.
Create(r, u, e) ==
    /\ Idle(r)
    /\ NewOwnerPasses(u, e)
    /\ Insert(r, e)
    /\ hand' = hand \cup {Len(execs) + 1}

\* The guard reads the row, deleted or not; the handler reads it again.
Admit(r, k, i, d) ==
    /\ Idle(r)
    /\ i \in Ids
    /\ req' = [req EXCEPT ![r] = [New(k, None, "read") EXCEPT !.id = i, !.input = d]]
    /\ UNCHANGED <<execs, overtaken, torn, hand>>

CallStart(r, u, i, d) == OwnerPasses(u, i, {}, execs[i]) /\ Admit(r, "start", i, d)
CallStop(r, u, i, d) == OwnerPasses(u, i, {}, execs[i]) /\ Admit(r, "stop", i, d)
CallUpdate(r, u, i, d) == OwnerPasses(u, i, d.names, d.values) /\ Admit(r, "update", i, d)
CallDelete(r, u, i) == u \in Admins /\ Admit(r, "delete", i, None)

MayStart(e) == ~e.deleted /\ e.start = Null /\ e.status # "R"
\* Bug: an execution that was not started may be stopped.
MayStop_Bug(e) == ~e.deleted /\ e.stop = Null /\ e.status = "A"
MayStop(e) == ~e.deleted /\ e.start # Null /\ e.stop = Null /\ e.status = "A"

Started(e, d) == [e EXCEPT !.start = Stored(d.at)]

\* The whole seconds from the start, as it is stored, to an instant: of an instant
\* before it they are negative.
SecondsSince(start, t) == (t - start * Second) \div Second

\* What stop records; a tag the body does not have is left as it was.
Stopped(e, d) ==
    [e EXCEPT !.stop = Stored(d.at), !.real = SecondsSince(e.start, d.at), !.status = "R",
              !.nok = d.nok, !.tag = IF d.tag = None THEN @ ELSE d.tag]

\* The handler's read: what it refuses ends it, what it will write is decided here.
Holds(r, at, e) == req' = [req EXCEPT ![r].at = at, ![r].copy = e, ![r].input = None]

ReadToStart(r) ==
    /\ req[r].kind = "start"
    /\ LET e == execs[req[r].id] IN
       IF MayStart(e) THEN Holds(r, "put", Started(e, req[r].input)) ELSE Fail(r)

ReadToStop(r) ==
    /\ req[r].kind = "stop"
    /\ LET e == execs[req[r].id] IN
       IF MayStop(e) THEN Holds(r, "put", Stopped(e, req[r].input)) ELSE Fail(r)

ReadToUpdate(r) ==
    /\ req[r].kind = "update"
    /\ LET e == execs[req[r].id] IN
       IF ~e.deleted THEN Holds(r, "load", Edited(e, req[r].input)) ELSE Fail(r)

ReadToDelete(r) ==
    /\ req[r].kind = "delete"
    /\ LET e == execs[req[r].id] IN
       IF ~e.deleted THEN Holds(r, "load", [e EXCEPT !.deleted = TRUE]) ELSE Fail(r)

Read(r) ==
    /\ At(r, "read")
    /\ ReadToStart(r) \/ ReadToStop(r) \/ ReadToUpdate(r) \/ ReadToDelete(r)
    /\ UNCHANGED <<execs, overtaken, torn, hand>>

\* Row i becomes e.
Rewrite(r, i, e) ==
    /\ execs' = [execs EXCEPT ![i] = e]
    /\ Tears(r, i)
    /\ Overtakes(r, i)
    /\ hand' = IF req[r].kind = "update" THEN hand \cup {i} ELSE hand
    /\ Advance(r)

\* update(id, row): every column of the copy.
Put(r) ==
    /\ At(r, "put")
    /\ Rewrite(r, req[r].id, req[r].copy)

\* save(row), its read: the columns in which the copy differs from the row of now.
Load(r) ==
    /\ At(r, "load")
    /\ LET stored == execs[req[r].id]
           differing == {c \in DOMAIN stored : req[r].copy[c] # stored[c]}
       IN  IF differing = {} THEN Advance(r) /\ Forget(r)
           ELSE /\ req' = [req EXCEPT ![r].at = "write", ![r].columns = differing]
                /\ UNCHANGED overtaken
    /\ UNCHANGED <<execs, torn, hand>>

\* save(row), its write: those columns.
Write(r) ==
    /\ At(r, "write")
    /\ LET i == req[r].id IN
       Rewrite(r, i, [c \in DOMAIN execs[i] |->
                        IF c \in req[r].columns THEN req[r].copy[c] ELSE execs[i][c]])

\* A statement fails: the task goes on with the next site, a handler answers an
\* error; what was written stays.
Lose(r) ==
    /\ ~Idle(r)
    /\ Fail(r)
    /\ Forget(r)
    /\ UNCHANGED <<execs, torn, hand>>

Fill(r) ==
    \/ BeginTask(r)
    \/ \E u \in Users : BeginList(r, u)
    \/ Find(r)
    \/ TakeNumber(r)
    \/ InsertFilled(r)

Add(r, u) ==
    \/ \E slot \in ByHand : BeginGenerate(r, u, slot)
    \/ \E e \in CreateInputs : Create(r, u, e)

Call(r, u, i) ==
    \/ \E d \in StartType : CallStart(r, u, i, d)
    \/ \E d \in StopInputs : CallStop(r, u, i, d)
    \/ \E d \in UpdateInputs : CallUpdate(r, u, i, d)
    \/ CallDelete(r, u, i)

Step(r) == InsertGenerated(r) \/ Read(r) \/ Put(r) \/ Load(r) \/ Write(r) \/ Lose(r)

Next == \E r \in Requests :
    \/ Fill(r)
    \/ \E u \in Users : Add(r, u) \/ \E i \in Ids : Call(r, u, i)
    \/ Step(r)

Spec == Init /\ [][Next]_vars

-----------------------------------------------------------------------------
RequestType ==
    [at : {"idle", "find", "number", "insert", "read", "put", "load", "write"},
     kind : {"none", "task", "list", "generate", "start", "stop", "update", "delete"},
     user : Users \cup {None}, todo : Seq(Slot), id : Nat,
     input : StartType \cup StopType \cup UpdateType \cup {None},
     copy : ExecutionType \cup {None}, columns : SUBSET (Editable \cup {"number", "deleted"}),
     number : Nat]

\* The columns hold what their types allow, and a request refers to rows of the table.
TypeOK ==
    /\ execs \in Seq(ExecutionType)
    /\ req \in [Requests -> RequestType]
    /\ \A r \in Requests : req[r].id \in Ids \cup {0}
    /\ overtaken \in [Requests -> SUBSET Aspects]
    /\ torn \in [Aspects -> SUBSET Ids]
    /\ hand \subseteq Ids

\* A slot of the day has one execution, however many instances run the task and
\* however often it is listed: two live rows are there only when one of them was
\* inserted although another request had filled the slot since its search, or
\* was undeleted by a copy, or a body put it there.
SlotsUnique ==
    \A i, j \in Live :
        i # j /\ SlotOf(execs[i]) = SlotOf(execs[j]) /\ execs[i].time # Now
        => {i, j} \cap (torn["slot"] \cup torn["row"] \cup hand) # {}

\* The site's numbers are its own ids: two live executions share one only when
\* one was inserted after another insert had overtaken the number it had read,
\* or was undeleted by a copy.
NumbersUnique ==
    \A i, j \in Live :
        i # j /\ execs[i].number # Null /\ execs[i].number = execs[j].number
        => {i, j} \cap (torn["number"] \cup torn["row"]) # {}

\* Nothing is planned twice: a slot of the day has one execution, and a number is one's.
PlannedOnce == SlotsUnique /\ NumbersUnique

\* An execution is completed exactly when it was stopped, and then it was
\* started.  Its duration counts from the second the start was rounded to up to the
\* instant of the stop, and so is what lies between the two columns, or a second
\* less when the stop was rounded up: -1 of an execution stopped at once.  Starts,
\* stops, listings, the task and deletions keep it so however they overlap; only
\* the body of an update or create, or a save that another request overtook between
\* its two statements and that so mixes two versions of a row, do not.
CompletedWhole ==
    \A i \in Ids \ (torn["columns"] \cup hand) :
        LET e == execs[i] IN
        /\ (e.status = "R") <=> (e.stop # Null)
        /\ e.stop # Null => e.start # Null /\ e.stop - e.start - e.real \in {0, 1}

\* What was recorded of an execution stays: listing the day, the task, another
\* start or stop, or the deletion do not undo it, except through a copy that
\* was overtaken.
RecordedStays ==
    [][\A i \in Ids : \A c \in {"start", "stop"} :
        execs[i][c] \notin {Null, execs'[i][c]} => i \in torn'["row"] \cup hand']_vars
=============================================================================
