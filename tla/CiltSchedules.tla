--------------------------- MODULE CiltSchedules ---------------------------
(***************************************************************************)
(* The schedules of the sequences (ciltSecuencesSchedule.service.ts): on   *)
(* which days each is due, and their order in a sequence, which here is    *)
(* kept without transactions and without locks while masters and sequences *)
(* change (OrderedLists).                                                  *)
(*                                                                         *)
(* A step is a statement; save(row) writes the columns in which the copy   *)
(* differs from the row, so that the row becomes the copy.                 *)
(***************************************************************************)
EXTENDS OrderedLists

CONSTANTS
    Rules,          \* the rules of the schedules that bodies describe
    Dates,
    FirstTables,    \* the schedules that there may be at first: id -> row
    MaxSchedules,   \* bound on the ids of schedules
    MaxTimes,       \* bound on the times of a creation
    MaxSchedCalls,  \* bound on the requests about schedules
    MaxPlanCalls    \* bound on all requests, when some are about schedules

\* A null column and a zero are told apart by none of the conditions.
Days == 0 .. 6
RuleType ==
    [type : {"dai", "wee", "mon", "yea", "man"}, days : SUBSET Days, dayOfMonth : 0 .. 31, weekOfMonth : 0 .. 5,
     monthOfYear : 0 .. 12, dateOfYear : {None} \cup ((1 .. 12) \X (1 .. 31)), endDate : {None} \cup Int]

\* A date: where it is in its month, on which day of the week the month begins (0 is
\* Sunday), and its number among all dates.
DateType == [month : 1 .. 12, day : 1 .. 31, first : Days, number : Int]

ScheduleIds == 1 .. MaxSchedules
ScheduleType == [seq : Ids, order : Orders, rule : RuleType, active : BOOLEAN]

ASSUME SchedulesAssumption ==
    /\ Rules \subseteq RuleType /\ Dates \subseteq DateType
    /\ None \notin (1 .. 12) \X (1 .. 31)
    /\ MaxSchedules \in Nat /\ MaxTimes \in Nat \ {0} /\ MaxSchedCalls \in Nat /\ MaxPlanCalls \in Nat
    /\ \A table \in FirstTables :
         /\ \E n \in 0 .. MaxSchedules : DOMAIN table = 1 .. n
         /\ table \in [DOMAIN table -> ScheduleType]
         /\ \A s \in DOMAIN table : table[s].seq \in DOMAIN FirstRows
         /\ \A s, t \in DOMAIN table : table[s].seq = table[t].seq /\ table[s].order = table[t].order => s = t

VARIABLES
    schedules,  \* the table: id -> row
    sreq,       \* the requests about schedules
    schedCalls, \* how many there have been
    overlapped, \* history: the requests since whose first read another has written schedules
    disturbed   \* history: the sequences in which such a request wrote, one failed half way, or
                \* which got a schedule of another, or an order with a fraction

schedVars == <<schedules, sreq, schedCalls, overlapped, disturbed>>
planVars == <<vars, schedVars>>

-----------------------------------------------------------------------------
(* When a schedule is due.                                                 *)

DayOfWeek(d) == (d.first + d.day - 1) % 7
WeekOfMonth(d) == ((d.day + d.first - 1) \div 7) + 1
EndsBefore(rule, d) == rule.endDate # None /\ rule.endDate < d.number

\* Bug: a rule with a day is taken whether it has a week or not.
Selected_AnyWeek(rule, d) ==
    /\ ~EndsBefore(rule, d)
    /\ \/ rule.type = "dai"
       \/ rule.type = "wee" /\ DayOfWeek(d) \in rule.days
       \/ rule.type = "mon" /\ rule.dayOfMonth = d.day
       \/ rule.type = "mon" /\ rule.weekOfMonth = WeekOfMonth(d) /\ DayOfWeek(d) \in rule.days
       \/ rule.type = "yea" /\ rule.dateOfYear = <<d.month, d.day>>
       \/ rule.type = "yea" /\ rule.monthOfYear = d.month /\ rule.dayOfMonth = d.day
       \/ rule.type = "yea" /\ rule.monthOfYear = d.month /\ rule.weekOfMonth = WeekOfMonth(d)
          /\ DayOfWeek(d) \in rule.days

\* The conditions of the query (findSchedulesForDate).
Selected(rule, d) ==
    /\ ~EndsBefore(rule, d)
    /\ \/ rule.type = "dai"
       \/ rule.type = "wee" /\ DayOfWeek(d) \in rule.days
       \/ rule.type = "mon" /\ rule.dayOfMonth = d.day /\ rule.weekOfMonth = 0
       \/ /\ rule.type = "mon" /\ rule.weekOfMonth = WeekOfMonth(d) /\ rule.dayOfMonth = 0
          /\ DayOfWeek(d) \in rule.days
       \/ rule.type = "yea" /\ rule.dateOfYear = <<d.month, d.day>>
       \/ /\ rule.type = "yea" /\ rule.dateOfYear = None /\ rule.monthOfYear = d.month
          /\ \/ rule.dayOfMonth = d.day /\ rule.weekOfMonth = 0
             \/ rule.weekOfMonth = WeekOfMonth(d) /\ rule.dayOfMonth = 0 /\ DayOfWeek(d) \in rule.days

\* The same, as what the query has found is looked through again (isScheduleActiveForDate).
ByDay(rule, d) == rule.dayOfMonth > 0 /\ rule.weekOfMonth = 0 /\ d.day = rule.dayOfMonth
ByWeek(rule, d) ==
    /\ rule.weekOfMonth > 0 /\ rule.dayOfMonth = 0
    /\ WeekOfMonth(d) = rule.weekOfMonth /\ DayOfWeek(d) \in rule.days
IsDue(rule, d) ==
    /\ ~EndsBefore(rule, d)
    /\ CASE rule.type = "dai" -> TRUE
         [] rule.type = "wee" -> DayOfWeek(d) \in rule.days
         [] rule.type = "mon" -> ByDay(rule, d) \/ ByWeek(rule, d)
         [] rule.type = "yea" ->
              IF rule.dateOfYear # None THEN rule.dateOfYear = <<d.month, d.day>>
              ELSE rule.monthOfYear > 0 /\ d.month = rule.monthOfYear /\ (ByDay(rule, d) \/ ByWeek(rule, d))
         [] rule.type = "man" -> FALSE

FindSchedulesForDate(d) ==
    {s \in DOMAIN schedules : schedules[s].active /\ Selected(schedules[s].rule, d) /\ IsDue(schedules[s].rule, d)}

-----------------------------------------------------------------------------
(* Requests.                                                               *)

SchedOf(seq) == {s \in DOMAIN schedules : schedules[s].seq = seq}

\* What a request is about, the master its body names, the copy it has read, the row that
\* has the new order with its copy, and the orders it has still to insert.
SchedIdle == [at |-> "idle", op |-> "none", id |-> 0, cilt |-> None, row |-> None, new |-> None, other |-> 0, otherRow |-> None,
              todo |-> {}]

SchedAt(r, op, at) == sreq[r].op = op /\ sreq[r].at = at
SchedGo(r, q) == sreq' = [sreq EXCEPT ![r] = q]
SchedRunning == {r \in Requests : sreq[r].at # "idle"}

SchedCall(r, q) ==
    /\ r \notin SchedRunning
    /\ schedCalls < MaxSchedCalls
    /\ schedCalls' = schedCalls + 1
    /\ SchedGo(r, q)
    /\ overlapped' = overlapped \ {r}
    /\ UNCHANGED <<schedules, disturbed>>

SchedRead(r, q) == SchedGo(r, q) /\ UNCHANGED <<schedules, schedCalls, overlapped, disturbed>>
SchedRefuse(r) == SchedRead(r, SchedIdle)

\* Rows are written: the sequences are disturbed when another wrote since the first read.
SchedWrite(r, table, seqs, disturbing) ==
    /\ schedules' = table
    /\ overlapped' = overlapped \cup (SchedRunning \ {r})
    /\ disturbed' = disturbed \cup disturbing \cup IF r \in overlapped THEN seqs ELSE {}
    /\ UNCHANGED schedCalls

SchedInit ==
    /\ schedules \in IF kind = "cilt" THEN FirstTables ELSE {<<>>}
    /\ sreq = [r \in Requests |-> SchedIdle]
    /\ schedCalls = 0
    /\ overlapped = {} /\ disturbed = {}

-----------------------------------------------------------------------------
(* create: a schedule for each time of the day, after all of the sequence, *)
(* active or not, as the body says.                                        *)

CallCreateSched(r, cilt, seq, rule, active, times) ==
    SchedCall(r, [SchedIdle EXCEPT !.op = "create", !.at = "check", !.cilt = cilt, !.todo = 0 .. times - 1,
                                   !.row = [seq |-> seq, rule |-> rule, active |-> active]])

\* The master that a body names is any that is not deleted, of the sequence or not.  A body
\* must name one, and a sequence: for a 0 nothing is looked for, and the statement that
\* writes the row fails, as any may, by its foreign keys (SchedFail).
HasMaster(q) == q.op = "delete" \/ IsLive(q.cilt)

CheckSequence(r) ==
    /\ SchedAt(r, "create", "check")
    /\ LET q == sreq[r]
       IN  IF HasMaster(q) /\ IsLive(q.row.seq) THEN SchedRead(r, [q EXCEPT !.at = "last", !.cilt = None])
           ELSE SchedRefuse(r)

\* Bug: after the schedules that are active.
ReadLast_Active(r) ==
    /\ SchedAt(r, "create", "last")
    /\ LET q == sreq[r]
           orders == {schedules[s].order : s \in {t \in SchedOf(q.row.seq) : schedules[t].active}}
           first == IF orders = {} THEN 1 ELSE 1 + CHOOSE o \in orders : \A p \in orders : p <= o
       IN  SchedRead(r, [q EXCEPT !.at = "insert", !.todo = {first + k : k \in q.todo}])

ReadLast(r) ==
    /\ SchedAt(r, "create", "last")
    /\ LET q == sreq[r]
           orders == {schedules[s].order : s \in SchedOf(q.row.seq)}
           first == IF orders = {} THEN 1 ELSE 1 + CHOOSE o \in orders : \A p \in orders : p <= o
       IN  SchedRead(r, [q EXCEPT !.at = "insert", !.todo = {first + k : k \in q.todo}])

\* They are saved side by side, and one that fails does not keep the others from it.
InsertSched(r) ==
    /\ SchedAt(r, "create", "insert")
    /\ \E o \in sreq[r].todo :
         LET q == [sreq[r] EXCEPT !.todo = @ \ {o}]
             id == Cardinality(DOMAIN schedules) + 1
             row == [seq |-> q.row.seq, order |-> o, rule |-> q.row.rule, active |-> q.row.active]
         IN  /\ SchedGo(r, IF q.todo = {} THEN SchedIdle ELSE q)
             /\ IF o \in Orders
                THEN /\ id \in ScheduleIds
                     /\ SchedWrite(r, [s \in DOMAIN schedules \cup {id} |-> IF s = id THEN row ELSE schedules[s]],
                                   {row.seq}, {})
                ELSE UNCHANGED <<schedules, schedCalls, overlapped, disturbed>>

-----------------------------------------------------------------------------
(* update, delete, updateOrder.                                            *)

\* A body changes the rule, makes the schedule active or not, and names a master and the
\* sequence, the schedule's or another.
CallUpdateSched(r, id, cilt, seq, rule, active) ==
    SchedCall(r, [SchedIdle EXCEPT !.op = "update", !.at = "read", !.id = id, !.cilt = cilt,
                                   !.new = [seq |-> seq, rule |-> rule, active |-> active]])
CallDeleteSched(r, id) == SchedCall(r, [SchedIdle EXCEPT !.op = "delete", !.at = "read", !.id = id])
CallOrderSched(r, id, new) ==
    SchedCall(r, [SchedIdle EXCEPT !.op = "order", !.at = "read", !.id = id, !.new = new])

ReadSched(r) ==
    /\ sreq[r].at = "read"
    /\ LET q == sreq[r]
           row == schedules[q.id]
       IN  SchedRead(r, CASE q.op = "order" -> [q EXCEPT !.at = "target", !.row = row]
                          [] q.op = "delete" -> [q EXCEPT !.at = "save", !.row = [row EXCEPT !.active = FALSE]]
                          [] q.op = "update" ->
                               [q EXCEPT !.at = "save",
                                         !.row = [row EXCEPT !.rule = q.new.rule, !.active = q.new.active,
                                                             !.seq = q.new.seq]])

\* The master and the sequence that a body names must not be deleted.
SaveSched(r) ==
    /\ sreq[r].op \in {"update", "delete"} /\ sreq[r].at = "save"
    /\ LET q == sreq[r]
           moved == schedules[q.id].seq # q.row.seq
       IN  IF ~HasMaster(q) \/ (q.op = "update" /\ ~IsLive(q.row.seq)) THEN SchedRefuse(r)
           ELSE /\ SchedWrite(r, [schedules EXCEPT ![q.id] = q.row], {q.row.seq},
                              IF moved THEN {q.row.seq} ELSE {})
                /\ SchedGo(r, SchedIdle)

\* Any schedule of the sequence that has the order, active or not, and be it the same.
FindOther(r) ==
    /\ SchedAt(r, "order", "target")
    /\ LET q == sreq[r]
           others == {s \in SchedOf(q.row.seq) : q.new.whole /\ schedules[s].order = q.new.order}
           row == [q.row EXCEPT !.order = q.new.order]
       IN  IF q.new.order \notin Orders THEN SchedRefuse(r)
           ELSE IF others = {} THEN SchedRead(r, [q EXCEPT !.at = "second", !.row = row])
           ELSE \E s \in others :
                  SchedRead(r, [q EXCEPT !.at = "first", !.row = row, !.other = s,
                                         !.otherRow = [schedules[s] EXCEPT !.order = q.row.order]])

SaveOther(r) ==
    /\ SchedAt(r, "order", "first")
    /\ LET q == sreq[r]
       IN  /\ SchedWrite(r, [schedules EXCEPT ![q.other] = q.otherRow], {q.row.seq}, {})
           /\ SchedGo(r, [q EXCEPT !.at = "second"])

SaveSecond(r) ==
    /\ SchedAt(r, "order", "second")
    /\ LET q == sreq[r]
       IN  /\ SchedWrite(r, [schedules EXCEPT ![q.id] = q.row], {q.row.seq},
                         IF q.new.whole THEN {} ELSE {q.row.seq})
           /\ SchedGo(r, SchedIdle)

\* A statement fails: what was written before stays.
SchedFail(r) ==
    /\ r \in SchedRunning
    /\ SchedGo(r, SchedIdle)
    /\ disturbed' = disturbed \cup IF SchedAt(r, "order", "second") THEN {sreq[r].row.seq} ELSE {}
    /\ UNCHANGED <<schedules, schedCalls, overlapped>>

-----------------------------------------------------------------------------
MastersNamed == {i \in DOMAIN rows : IsMaster(i)}
SequencesNamed == {i \in DOMAIN rows : ~IsMaster(i)}

SchedCalls(r) ==
    \/ \E cilt \in MastersNamed, seq \in SequencesNamed, rule \in Rules, active \in BOOLEAN, times \in 1 .. MaxTimes :
          CallCreateSched(r, cilt, seq, rule, active, times)
    \/ \E id \in DOMAIN schedules :
          \/ \E cilt \in MastersNamed, seq \in SequencesNamed, rule \in Rules, active \in BOOLEAN :
                CallUpdateSched(r, id, cilt, seq, rule, active)
          \/ CallDeleteSched(r, id)
          \/ \E new \in NewOrders : CallOrderSched(r, id, new)

\* The lists of OPLs have no schedules.
SchedNext ==
    /\ kind = "cilt"
    /\ \E r \in Requests :
         \/ SchedCalls(r)
         \/ CheckSequence(r) \/ ReadLast(r) \/ InsertSched(r)
         \/ ReadSched(r) \/ SaveSched(r)
         \/ FindOther(r) \/ SaveOther(r) \/ SaveSecond(r)
         \/ SchedFail(r)

PlanInit == Init /\ SchedInit
PlanNext ==
    /\ (Next /\ UNCHANGED schedVars) \/ (SchedNext /\ UNCHANGED vars)
    /\ schedCalls' > 0 => calls' + schedCalls' <= MaxPlanCalls
PlanSpec == PlanInit /\ [][PlanNext]_planVars

-----------------------------------------------------------------------------
SchedTypeOK ==
    /\ DOMAIN schedules \subseteq ScheduleIds
    /\ schedules \in [DOMAIN schedules -> ScheduleType]
    /\ schedCalls \in 0 .. MaxSchedCalls
    /\ overlapped \subseteq Requests /\ disturbed \subseteq Ids

\* The sequences of which two schedules are being saved one after the other.
Exchanging == {sreq[r].row.seq : r \in {q \in Requests : SchedAt(q, "order", "second")}}

\* The order of a schedule is its own in its sequence, and stays so when schedules are
\* deleted and made active again; but where requests overlapped, an
\* exchange is between its two saves or failed there, or a schedule came from another sequence.
ScheduleOrdersUnique ==
    \A s, t \in DOMAIN schedules :
        /\ s # t
        /\ schedules[s].seq = schedules[t].seq
        /\ schedules[s].order = schedules[t].order
        => schedules[s].seq \in disturbed \cup Exchanging

\* The list for a day has each active schedule whose rule has the day: the query and
\* the check of what it found, written one by one, agree on every date.
SchedulesAgree ==
    \A d \in Dates :
        LET found == FindSchedulesForDate(d)
        IN  \A s \in DOMAIN schedules :
              /\ Selected(schedules[s].rule, d) <=> IsDue(schedules[s].rule, d)
              /\ s \in found <=> schedules[s].active /\ IsDue(schedules[s].rule, d)
=============================================================================
