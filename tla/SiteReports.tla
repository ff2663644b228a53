---------------------------- MODULE SiteReports -----------------------------
(***************************************************************************)
(* The tables a site's reports read, growing row by row in any order, and  *)
(* what the reports of CardReports and CiltReports say of them.  Rows come *)
(* and go through other modules; here a row of each kind may appear.       *)
(***************************************************************************)
EXTENDS Integers, Sequences, FiniteSets

CONSTANTS
    None, Unassigned, NoName, Likes,
    Site,           \* the site: its id and days of history
    Today,          \* the day of the reports
    Zones,          \* time zones that a user may have
    Users,
    Levels,         \* the tree of levels of the site
    Positions,      \* positions that are not deleted
    Masters,        \* CILT masters
    CiltSequences,  \* their sequences
    CiltSchedules,  \* the schedules of the day, in the order of the query
    CardRows, ExecutionRows, PlacementRows, PositionLevelRows,  \* rows that may appear
    MaxRows         \* bound on the rows of all tables

INSTANCE CardReports
Cilt == INSTANCE CiltReports

VARIABLES
    cards,          \* table cards
    execs,          \* table cilt_sequences_executions
    placed,         \* table users_positions
    positionLevels  \* table cilt_mstr_position_levels, in the order of its ids

vars == <<cards, execs, placed, positionLevels>>

Rows == Cardinality(cards) + Cardinality(execs) + Cardinality(placed) + Len(positionLevels)

-----------------------------------------------------------------------------
Init == cards = {} /\ execs = {} /\ placed = {} /\ positionLevels = <<>>

\* A card gets the next id and, of its site, the next folio.
AddCard(row) ==
    /\ cards' = cards \cup {[row EXCEPT !.id = Cardinality(cards) + 1, !.uuid = Cardinality(cards) + 1,
                                        !.folio = Cardinality({c \in cards : c.site = row.site}) + 1]}
    /\ UNCHANGED <<execs, placed, positionLevels>>

AddExecution(row) ==
    /\ execs' = execs \cup {[row EXCEPT !.id = Cardinality(execs) + 1]}
    /\ UNCHANGED <<cards, placed, positionLevels>>

\* A user is placed at a position, at a time; or was, and is no longer.
Place(row) ==
    /\ placed' = placed \cup {[row EXCEPT !.id = Cardinality(placed) + 1]}
    /\ UNCHANGED <<cards, execs, positionLevels>>

AddPositionLevel(row) ==
    /\ positionLevels' = Append(positionLevels, row)
    /\ UNCHANGED <<cards, execs, placed>>

Next ==
    /\ Rows < MaxRows
    /\ \/ \E row \in CardRows : AddCard(row)
       \/ \E row \in ExecutionRows : AddExecution(row)
       \/ \E row \in PlacementRows : Place(row)
       \/ \E row \in PositionLevelRows : AddPositionLevel(row)

Spec == Init /\ [][Next]_vars

-----------------------------------------------------------------------------
(* Charts and what is behind their bars.                                   *)

Chart(statuses) == [site |-> Site.id, statuses |-> statuses, first |-> None, last |-> None]
AnyBar(statuses, type) ==
    [site |-> Site.id, statuses |-> statuses, type |-> type, area |-> None, mechanic |-> None,
     creator |-> None, definitive |-> None, node |-> None, preclassifier |-> None]
Named(name) == IF name = None THEN NoName ELSE name

Query(root, target) ==
    [site |-> Site.id, root |-> root, first |-> 0, last |-> Today, statuses |-> {},
     target |-> target, grouping |-> 1, g1 |-> 1, g2 |-> 2, origin |-> None, positions |-> {}]

\* The two queries behind a chart and the list of one of its bars agree: where
\* the client names the statuses, or both default to the active cards, and asks
\* for no dates, a bar is as high as its list is long; and so is a count of the
\* report of machines.
DrillDownAgrees ==
    \A statuses \in {{}, {"A", "R"}, {"R", "C"}} :
        LET f == Chart(statuses)
            behind(p) == Cardinality(GetCards(cards, p))
            byArea == GroupedByAreaMore(cards, f)
            byCreator == GroupedByCreator(cards, f)
            byUser == GroupedByDefinitiveUser(cards, f)
            byCode == GroupedByPreclassifier(cards, f)
            byMechanic == GroupedByMechanic(cards, f, Today)
        IN  /\ \A k \in DOMAIN byArea :
                 byArea[k] = behind([AnyBar(statuses, k[1]) EXCEPT !.area = k[2]])
            /\ \A area \in {c.area : c \in cards} :
                 LET machines == AreaGroupedByMachine(cards, f, area) IN
                 \A k \in DOMAIN machines :
                   machines[k] = behind([AnyBar(statuses, k[1]) EXCEPT !.area = area, !.node = k[2]])
            /\ \A k \in DOMAIN byCode :
                 byCode[k] <= behind([AnyBar(statuses, k[2]) EXCEPT !.preclassifier = k[1]])
            /\ \A k \in DOMAIN byCreator :
                 byCreator[k] = behind([AnyBar(statuses, k[1]) EXCEPT !.creator = k[2]])
            /\ statuses # {} => \A k \in DOMAIN byUser :
                 byUser[k] = behind([AnyBar(statuses, k[1]) EXCEPT !.definitive = Named(k[2])])
            /\ \A s \in byMechanic.series : \A k \in byMechanic.categories : s.data[k] \subseteq
                 GetCards(cards, [AnyBar(statuses, s.type) EXCEPT
                                    !.mechanic = IF k = Unassigned THEN NoName ELSE k])
    /\ LET details == CardReportDetails(cards, Levels, Query(1, 3)) IN
       \A k \in DOMAIN details :
         details[k].cards = Cardinality({c \in CardsByMachine(cards, Levels, Query(1, 3), k[1])
                                         : c \in CardsByComponents(cards, Query(1, 3), {k[2]})})

\* The pages of the list of a site, taken one after another while there is more,
\* show every card it has once, in the order of the folios.
PagesPartition ==
    \A limit \in 1 .. 2 :
        LET page(n) == FindSiteCards(cards, Site, Today, n, limit)
            shown == {c \in OfSite(cards, Site.id) : ShownByDefault(c, Site, Today)}
            last == CHOOSE n \in 1 .. Cardinality(shown) + 1 :
                        ~page(n).hasMore /\ \A m \in 1 .. n - 1 : page(m).hasMore
            at[n \in 0 .. last] == IF n = 0 THEN <<>> ELSE at[n - 1] \o page(n).data
        IN  /\ at[last] = ByFolio(shown)
            /\ last = LeastOf(last, page(1).totalPages) \/ shown = {}

NoFilter ==
    [statuses |-> {}, text |-> None, number |-> None, location |-> None, machine |-> None,
     creator |-> None, resolver |-> None, dateType |-> None, first |-> None, last |-> None,
     sort |-> None, mine |-> FALSE]
Filtered(f, u) == FilteredCards(cards, Site, Today, f, u)
Sorts == {"dueDate-asc", "dueDate-desc", "creationDate-asc", "creationDate-desc"}

\* The lists of the same cards that different queries make agree: the filtered
\* list without a filter is the plain one, page by page, and in any sort has its
\* cards; the calendar is the filtered list of its dates, the cards of a person
\* are among those the filter calls hers, those of a level among those of its
\* machine, and every open card has a column in the sheet.
ListsAgree ==
    /\ PagesPartition
    /\ FiltersAreLegal(NoFilter)
    /\ \A n \in 1 .. 2 : PageIsLegal(n, 2) =>
         {FindSiteCards(cards, Site, Today, n, 2)}
           = FindSiteCardsPaginated(cards, Site, Today, NoFilter, None, n, 2)
    /\ \A sort \in Sorts : \A page \in
         FindSiteCardsPaginated(cards, Site, Today, [NoFilter EXCEPT !.sort = sort], None, 1, MaxRows) :
           ToSet(page.data) = Filtered(NoFilter, None) /\ ~page.hasMore
    /\ LET due == [NoFilter EXCEPT !.statuses = {"A"}, !.dateType = "due", !.first = 0, !.last = Today]
           calendar == FindCardsForCalendar(cards, Site.id, 0, Today, {})
       IN  FiltersAreLegal(due) /\ UNION {calendar[d] : d \in DOMAIN calendar} = Filtered(due, None)
    /\ \A u \in Users :
         {c \in ToSet(FindUserCards(cards, u, {Site.id}, None)) : ShownByDefault(c, Site, Today)}
           \subseteq Filtered([NoFilter EXCEPT !.mine = TRUE], u)
    /\ \A l \in Levels :
         {c \in ToSet(GetCardsByLevelId(cards, Site, l.id, 1, MaxRows).data) : IsActive(c)}
           \subseteq ToSet(FindByLevelMachineId(cards, Site, Today, l.id, 1, MaxRows).data)
    /\ \A c \in FilteredCards(cards, Site, Today, NoFilter, None) :
         FindCardByUUID(cards, c.uuid) = {c} /\ FindCardByID(cards, c.id) = {c}
    /\ LET sheet == ExportXLS(cards, Site.id) IN
       {c.type : c \in {c \in sheet.rows : IsOpen(c)}} = sheet.columns

-----------------------------------------------------------------------------
(* Reports over the tree.                                                  *)

LevelOf(node) == (CHOOSE l \in Levels : l.id = node).level
Sum(f) == MapThenSumSet(LAMBDA k : f[k], DOMAIN f)

CardsAt(q) ==
    {c \in OfReport(cards, q) : c.status \in {"A", "R"}
        /\ \E t \in Tree(Levels, q.root) : t.id = c.node /\ t.level = q.target}

\* What the grouped report has for one node alone.
CountAt(node) ==
    LET alone == [Query(node, LevelOf(node)) EXCEPT !.grouping = LevelOf(node)]
        bars == CardReportGrouped(cards, Levels, alone)
    IN  IF node \in DOMAIN bars THEN bars[node] ELSE 0

\* The bars of the grouped report have each card of the target level once.  The stacked
\* report has one row for each node with cards at its second level or below, but its total
\* is not their number: it has a card once for every node the row names, the node itself
\* or above it (card.service.ts:2398 sums as many rows).  The other reports have a card
\* once: in its area; in its week; and in the series of its day, unless its creator was
\* placed at two positions at the same moment and has two latest ones.
CardsAddUp ==
    /\ \A root \in {l.id : l \in Levels}, target \in {l.level : l \in Levels} :
         Sum(CardReportGrouped(cards, Levels, Query(root, target)))
           = Cardinality(CardsAt(Query(root, target)))
    /\ \A root \in {l.id : l \in Levels}, target \in {3, 4} :
         LET q == Query(root, target)
             stacked == CardReportStacked(cards, Levels, q)
         IN  /\ {r.leaf : r \in stacked} =
                {t.id : t \in {t \in Tree(Levels, root) : t.level >= q.g2 /\ CountAt(t.id) > 0}}
             /\ \A r \in stacked : r.total = Cardinality(r.l3 \cup r.l4 \cup r.l6) * CountAt(r.leaf)
    /\ Sum(GroupedByArea(cards, Chart({}))) = Cardinality(OfSite(cards, Site.id))
    /\ \A statuses \in SUBSET {"A", "R"} :
         LET weeks == GroupedByWeeks(cards, Chart(statuses)) IN
         weeks # <<>> => Last(weeks).cumulativeIssued
                           = Cardinality(Selected(cards, Chart(statuses), IsActive))
    /\ LET q == [Query(None, None) EXCEPT !.root = None]
           series == CardTimeSeries(cards, Levels, placed, Positions, q)
       IN  (\A u \in Users : Cardinality(LatestPositions(placed, u)) <= 1)
           => Sum([k \in DOMAIN series |-> series[k].total])
                = Cardinality({c \in OfSite(cards, Site.id) : c.creation \in 0 .. Today})

-----------------------------------------------------------------------------
(* Executions.                                                             *)

UsersOf == [p \in Positions |->
    LET rows == SetToSortSeq({r \in placed : r.position = p /\ ~r.deleted}, LAMBDA a, b : a.id < b.id)
    IN  [k \in DOMAIN rows |-> rows[k].user]]
PositionsOf(u) == {r.position : r \in {r \in placed : r.user = u}}
LevelsListed(positions, masters) == Cilt!LevelsOfPositions(positionLevels, positions, masters)

Charted == Cilt!Charted(execs, 0, Today)

\* The days on which an operator finds an execution, at its place.
ListedOn(e, zone) ==
    {d \in Today - 3 .. Today + 3 :
        \E p \in Cilt!OfDay(execs, e.user, zone, d) : \E m \in p.masters : \E s \in m.sequences :
            e \in s.executions /\ <<p.position, m.cilt, s.sequence>> = <<e.position, e.cilt, e.sequence>>}

\* The dates of an instant by the distances that the zone has, earlier or later.
DatesIn(t, zone) == {Cilt!DateOf(t + zone.before), Cilt!DateOf(t + zone.after)}

\* An operator finds each of her executions on one day, its local date, in a zone that
\* changes its clock too: only one so near to midnight that the zone's two distances give
\* it two dates may be on neither day or on both (timezone.utils.ts:27 takes the distance
\* at noon for the whole day).  The charts of a
\* range, counted by three queries, agree; and the listing shows an execution under each
\* position that has its master.
ExecutionsAddUp ==
    /\ \A zone \in Zones : \A e \in Cilt!LiveRows(execs) : e.user \in Users =>
         LET dates == DatesIn(e.schedule, zone) IN
         /\ ListedOn(e, zone) \subseteq dates
         /\ Cardinality(dates) = 1 => ListedOn(e, zone) = dates
    /\ LET perDay == Cilt!ExecutionChart(execs, 0, Today)
           perUser == Cilt!ComplianceChart(execs, 0, Today)
           times == Cilt!TimeChart(execs, 0, Today)
           anomalies == Cilt!AnomaliesChart(execs, 0, Today, cards)
           nobodys == {e \in Charted : e.user = None}
       IN  /\ Sum([d \in DOMAIN perDay |-> perDay[d].executed])
                = Sum([u \in DOMAIN perUser |-> perUser[u].executed]) + Cardinality(Cilt!Started(nobodys))
           /\ \A d \in DOMAIN perDay : perDay[d].executed = times[d].executed
           /\ \A d \in DOMAIN anomalies : anomalies[d].total <= perDay[d].executed
    /\ \A u \in Users, zone \in Zones :
         LET mine == LevelsListed(PositionsOf(u), Masters)
             rows == Cilt!ExecutionsOfUser(execs, {l.cilt : l \in ToSet(mine)},
                                           Cilt!UTCRange(Today, zone), u)
             answer == Cilt!UserAnswer(PositionsOf(u), mine, CiltSequences, rows)
         IN  /\ \A e \in rows, l \in ToSet(mine) :
                  e.cilt = l.cilt /\ (\E q \in CiltSequences : q.id = e.sequence /\ q.cilt = e.cilt)
                  => \E k \in DOMAIN answer[l.position] :
                        \E s \in answer[l.position][k].sequences : e \in s.executions
             /\ Cilt!SiteAnswer(rows, mine).total = Cardinality(rows)

\* The numbers and the days of the reports, of cards and of executions, are those of the
\* rows they were made from.
CountsAddUp == CardsAddUp /\ ExecutionsAddUp

TaskSlots ==
    LET masters == {m.id : m \in Cilt!ActiveMasters(Masters, Site.id)}
    IN  ToSet(Cilt!SitePlan(Cilt!ActiveLevels(positionLevels, masters), UsersOf, CiltSequences, CiltSchedules))
ListedSlots(u, positions, masters) ==
    ToSet(Cilt!UserPlan(u, LevelsListed(positions, masters), CiltSequences, CiltSchedules))

\* What the task plans for a user at midnight is in what her listing plans; the
\* listing only adds the slots of a master that is suspended or of a position
\* that she has no longer.
PlansAgree ==
    \A u \in Users :
        LET planned == {s \in TaskSlots : s.user = u}
            kept == {r.position : r \in {r \in placed : r.user = u /\ ~r.deleted}}
        IN  /\ planned \subseteq ListedSlots(u, PositionsOf(u), Masters)
            /\ planned = ListedSlots(u, kept, Cilt!ActiveMasters(Masters, Site.id))
=============================================================================
