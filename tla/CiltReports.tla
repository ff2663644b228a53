---------------------------- MODULE CiltReports ----------------------------
(***************************************************************************)
(* What is computed from the CILT tables without changing them: the slots  *)
(* that the plan of a day has, the day of a user in her time zone, the     *)
(* nested answers the mobile application shows and the charts of a site.   *)
(*                                                                         *)
(* Tables are sets of rows.  An instant is a quarter of an hour, counted   *)
(* from midnight, UTC, of day 0.  A chart's filters by site, position and  *)
(* level only choose the rows it sees.                                     *)
(***************************************************************************)
EXTENDS Integers, FiniteSets, SequencesExt, FiniteSetsExt

CONSTANT None       \* a null column

-----------------------------------------------------------------------------
(* The plan of a day.  A position level gives a CILT master to a position, *)
(* at a level; users have positions; a schedule names a sequence of a      *)
(* master and, or not, a time.                                             *)

\* Bug: a level that is not active counts.
ActiveLevels_Inactive(positionLevels, masters) ==
    SelectSeq(positionLevels, LAMBDA l : ~l.deleted /\ l.cilt \in masters)

ActiveLevels(positionLevels, masters) ==
    SelectSeq(positionLevels, LAMBDA l : l.status = "A" /\ ~l.deleted /\ l.cilt \in masters)

\* Those of positions, of any master that is not deleted.
LevelsOfPositions(positionLevels, positions, ciltMstr) ==
    SelectSeq(positionLevels, LAMBDA l : /\ l.status = "A" /\ ~l.deleted
                                         /\ l.position \in positions
                                         /\ \E m \in ciltMstr : m.id = l.cilt /\ ~m.deleted)

ActiveMasters(ciltMstr, site) ==
    {m \in ciltMstr : m.site = site /\ m.status = "A" /\ ~m.deleted}

\* The schedules of master l.cilt whose sequence is there become slots of user u.
SlotsAt(l, u, sequences, schedules) ==
    LET its == SelectSeq(schedules, LAMBDA s : /\ s.cilt = l.cilt
                                               /\ \E q \in sequences : q.id = s.sequence
                                                                       /\ q.cilt = l.cilt)
    IN  [k \in DOMAIN its |-> [sequence |-> its[k].sequence, time |-> its[k].time, user |-> u]]

\* The listing of a user goes through the levels of her positions.
UserPlan(u, levels, sequences, schedules) ==
    FlattenSeq([k \in DOMAIN levels |-> SlotsAt(levels[k], u, sequences, schedules)])

\* The task goes through the levels of the site and, at each, the users of its
\* position: one who has two positions of a master meets its slots twice.
SitePlan(levels, usersOf, sequences, schedules) ==
    FlattenSeq([k \in DOMAIN levels |->
        FlattenSeq([n \in DOMAIN usersOf[levels[k].position] |->
            SlotsAt(levels[k], usersOf[levels[k].position][n], sequences, schedules)])])

\* The first level the master has gives all its rows their route.
RouteOf(m, levels) ==
    LET its == SelectSeq(levels, LAMBDA l : l.cilt = m) IN IF its = <<>> THEN None ELSE its[1].level

-----------------------------------------------------------------------------
(* Days.  A zone is its distance to UTC, before and after the instant at   *)
(* which its clock is changed.                                             *)

Day == 96
DateOf(t) == t \div Day
Distance(zone, t) == IF t < zone.change THEN zone.before ELSE zone.after

\* The first and the last instant of a local date: the zone's distance is taken
\* at noon UTC and added to both ends.
UTCRange(date, zone) ==
    LET noon == date * Day + Day \div 2
        local == noon + Distance(zone, noon)
        offset == noon - local
    IN  <<date * Day + offset, date * Day + (Day - 1) + offset>>

Between(t, range) == range[1] <= t /\ t <= range[2]

-----------------------------------------------------------------------------
(* Lists of executions.                                                    *)

LiveRows(rows) == {e \in rows : ~e.deleted}
FindBy(rows, column, value) == {e \in LiveRows(rows) : e[column] = value}
FindBySequenceAndDate(rows, sequence, date) ==
    {e \in LiveRows(rows) : e.sequence = sequence /\ DateOf(e.schedule) = date /\ e.status = "A"}
ExecutionsForDate(rows, masters, range) ==
    {e \in LiveRows(rows) : e.cilt \in masters /\ Between(e.schedule, range)}
ExecutionsOfUser(rows, masters, range, u) ==
    {e \in ExecutionsForDate(rows, masters, range) : e.user = u}

\* The day of a user, nested: positions, in each the masters, in each the
\* sequences, in each the executions.
OfDay(rows, u, zone, date) ==
    LET mine == {e \in LiveRows(rows) : e.user = u /\ Between(e.schedule, UTCRange(date, zone))}
        at(p) == {e \in mine : e.position = p}
        of(p, c) == {e \in at(p) : e.cilt = c}
        in(p, c, s) == {e \in of(p, c) : e.sequence = s}
    IN  {[position |-> p,
          masters |-> {[cilt |-> c,
                        sequences |-> {[sequence |-> s, executions |-> in(p, c, s)]
                                       : s \in {e.sequence : e \in of(p, c)}}]
                       : c \in {e.cilt : e \in at(p)}}]
         : p \in {e.position : e \in mine}}

\* The answer to the listing of a user: under each of her positions the masters
\* it has, with their sequences that have executions.
BySequence(rows, s) == {e \in rows : e.sequence = s}
MasterAnswer(l, sequences, rows, levels) ==
    [cilt |-> l.cilt, route |-> RouteOf(l.cilt, levels),
     sequences |-> {[sequence |-> q.id, executions |-> BySequence(rows, q.id)]
                    : q \in {q \in sequences : q.cilt = l.cilt /\ BySequence(rows, q.id) # {}}}]
UserAnswer(positions, levels, sequences, rows) ==
    LET shown(l) == \E q \in sequences : q.cilt = l.cilt /\ BySequence(rows, q.id) # {}
        of(p) == SelectSeq(levels, LAMBDA l : l.position = p /\ shown(l))
    IN  [p \in positions |->
            [k \in DOMAIN of(p) |-> MasterAnswer(of(p)[k], sequences, rows, levels)]]

SiteAnswer(rows, levels) ==
    [executions |-> {[execution |-> e, route |-> RouteOf(e.cilt, levels)] : e \in rows},
     total |-> Cardinality(rows)]

-----------------------------------------------------------------------------
(* Charts of the dates from first to last.                                 *)

Charted(rows, first, last) ==
    {e \in LiveRows(rows) : DateOf(e.schedule) \in first .. last}
OnDate(rows, d) == {e \in rows : DateOf(e.schedule) = d}
Started(rows) == {e \in rows : e.start # None}

SumOver(rows, value(_)) == MapThenSumSet(value, rows)
Seconds(n) == IF n = None THEN 0 ELSE n

ExecutionChart(rows, first, last) ==
    LET its == Charted(rows, first, last) IN
    [d \in {DateOf(e.schedule) : e \in its} |->
        [programmed |-> Cardinality(OnDate(its, d)),
         executed |-> Cardinality(Started(OnDate(its, d)))]]

ComplianceChart(rows, first, last) ==
    LET its == {e \in Charted(rows, first, last) : e.user # None} IN
    [u \in {e.user : e \in its} |->
        [assigned |-> Cardinality({e \in its : e.user = u}),
         executed |-> Cardinality(Started({e \in its : e.user = u}))]]

TimeChart(rows, first, last) ==
    LET its == Charted(rows, first, last) IN
    [d \in {DateOf(e.schedule) : e \in its} |->
        [standard |-> SumOver(OnDate(its, d), LAMBDA e : Seconds(e.duration)),
         real |-> SumOver(OnDate(its, d), LAMBDA e : Seconds(e.real)),
         executed |-> Cardinality(Started(OnDate(its, d)))]]

AnomaliesChart(rows, first, last, cards) ==
    LET its == Started(Charted(rows, first, last)) IN
    [d \in {DateOf(e.schedule) : e \in its} |->
        LET day == OnDate(its, d)
            tagged == {e \in day : e.tag \notin {None, 0}}
        IN  [total |-> Cardinality({e \in day : e.nok \/ e.tag # None}),
             nok |-> Cardinality({e \in day : e.nok}),
             tags |-> Cardinality(tagged),
             stoppages |-> Cardinality({e \in day : e.stoppage}),
             cards |-> {c \in cards : ~c.deleted /\ \E e \in tagged : e.tag = c.id}]]
=============================================================================
