---------------------------- MODULE CardReports -----------------------------
(***************************************************************************)
(* What card.service.ts answers from the table of cards without changing   *)
(* it: lists in pages, charts, the cards behind a bar of a chart, and the  *)
(* reports over the tree of levels.                                        *)
(*                                                                         *)
(* Tables are sets of rows, days are integers, a name is a model value and *)
(* pattern matching (LIKE) is the relation Likes.  A filter that is not *)
(* given is None, a list of statuses not given is empty.                   *)
(***************************************************************************)
EXTENDS Integers, FiniteSets, SequencesExt, FiniteSetsExt

CONSTANTS
    None,           \* a null column, or a filter that is not given
    Unassigned,     \* the label of the cards without responsible, or mechanic
    NoName,         \* stringConstants.none, which a client sends for such a label
    Likes           \* <<text, pattern>>: the texts that a pattern matches

CARD_LIST_STATUSES == {"A", "P", "V", "C", "D", "R"}
CARD_MAX_LIMIT == 200
CARD_MAX_PAGE == 100000
DefaultHistory == 30
DaysOfWeek == 7

-----------------------------------------------------------------------------
(* The rows a query selects.                                               *)

OfSite(cards, site) == {c \in cards : c.site = site /\ ~c.deleted}

\* The default of most queries, and those of the others.
IsActive(c) == c.status = "A"
IsOpen(c) == c.status \notin {"C", "R"}
IsFinished(c) == c.status \in {"C", "R"}
IsAny(c) == TRUE

HasStatus(c, statuses, Default(_)) ==
    IF statuses = {} THEN Default(c) ELSE c.status \in statuses

\* A range counts when it has both ends; its last day counts whole.
Within(day, first, last) == first = None \/ last = None \/ day \in first .. last

\* Rows of a chart: f has the site, the statuses and the range of creation.
Selected(cards, f, Default(_)) ==
    {c \in OfSite(cards, f.site) : HasStatus(c, f.statuses, Default)
                                   /\ Within(c.createdAt, f.first, f.last)}

\* GROUP BY key, with COUNT(*).
Bars(rows, Key(_)) ==
    [k \in {Key(c) : c \in rows} |-> Cardinality({c \in rows : Key(c) = k})]

-----------------------------------------------------------------------------
(* Charts.                                                                 *)

GroupedByPreclassifier(cards, f) ==
    Bars(Selected(cards, f, IsActive), LAMBDA c : <<c.preclassifier, c.type>>)
GroupedByMethodology(cards, f) == Bars(Selected(cards, f, IsOpen), LAMBDA c : c.type)
GroupedByArea(cards, f) ==
    Bars(Selected(cards, [f EXCEPT !.statuses = {}], IsAny), LAMBDA c : <<c.type, c.area>>)
GroupedByAreaMore(cards, f) == Bars(Selected(cards, f, IsActive), LAMBDA c : <<c.type, c.area>>)
AreaGroupedByMachine(cards, f, area) ==
    Bars({c \in Selected(cards, f, IsActive) : c.area = area}, LAMBDA c : <<c.type, c.node>>)
GroupedByCreator(cards, f) == Bars(Selected(cards, f, IsActive), LAMBDA c : <<c.type, c.creator>>)
GroupedByDefinitiveUser(cards, f) ==
    Bars(Selected(cards, f, IsFinished), LAMBDA c : <<c.type, c.definitive>>)
DiscardedGroupedByUser(cards, f) ==
    Bars({c \in Selected(cards, [f EXCEPT !.statuses = {}], IsAny) : c.status = "D"},
         LAMBDA c : <<c.type, c.creator, c.reason>>)

\* On time is a due date not yet begun: one that is today is already overdue.
IsOnTime(c, today) == c.due # None /\ c.due > today

Labelled(name) == IF name = None THEN Unassigned ELSE name

\* Categories, and for each type the cards of each on time, and overdue: a
\* series without a card is left out.
TypeSeries(rows, Category(_), today) ==
    LET categories == {Category(c) : c \in rows}
        at(t, onTime) == {c \in rows : c.type = t /\ IsOnTime(c, today) = onTime}
    IN  [categories |-> categories,
         series |-> {[type |-> t, onTime |-> b,
                      data |-> [k \in categories |-> {c \in at(t, b) : Category(c) = k}]]
                     : <<t, b>> \in {p \in {c.type : c \in rows} \X BOOLEAN : at(p[1], p[2]) # {}}}]

GroupedByMachine(cards, f, today) ==
    TypeSeries(Selected(cards, f, IsActive), LAMBDA c : Labelled(c.responsible), today)
GroupedByMechanic(cards, f, today) ==
    TypeSeries(Selected(cards, f, IsActive), LAMBDA c : Labelled(c.mechanic), today)

\* Weeks in which cards were created, in order, with running totals.
WeekOf(day) == day \div DaysOfWeek
GroupedByWeeks(cards, f) ==
    LET its == Selected(cards, [f EXCEPT !.first = None], IsActive)
        weeks == SetToSortSeq({WeekOf(c.createdAt) : c \in its}, <)
        in(k) == {c \in its : WeekOf(c.createdAt) = weeks[k]}
        issued(k) == Cardinality(in(k))
        eradicated(k) == Cardinality({c \in in(k) : c.status = "R"})
        acc[k \in 0 .. Len(weeks)] ==
            IF k = 0 THEN [issued |-> 0, eradicated |-> 0]
            ELSE LET previous == acc[k - 1]
                 IN  [issued |-> previous.issued + issued(k),
                      eradicated |-> previous.eradicated + eradicated(k)]
    IN  [k \in DOMAIN weeks |->
            [week |-> weeks[k], issued |-> issued(k), eradicated |-> eradicated(k),
             cumulativeIssued |-> acc[k].issued, cumulativeEradicated |-> acc[k].eradicated]]

-----------------------------------------------------------------------------
(* The cards behind a bar: of its type and one of its area, mechanic,      *)
(* creator or definitive user, and beside it a machine and a preclassifier.*)

IsNamed(name, wanted) == IF wanted = NoName THEN name = None ELSE name = wanted

OfBar(c, p) ==
    CASE p.area # None -> c.area = p.area
      [] p.area = None /\ p.mechanic # None -> IsNamed(c.mechanic, p.mechanic)
      [] p.area = None /\ p.mechanic = None /\ p.creator # None -> c.creator = p.creator
      [] p.area = None /\ p.mechanic = None /\ p.creator = None /\ p.definitive # None ->
            IsNamed(c.definitive, p.definitive)
      [] OTHER -> TRUE

\* Bug: the cards of the list are not asked to be there still.
GetCards_WithDeleted(cards, p) ==
    {c \in cards : c.site = p.site /\ c.type = p.type /\ HasStatus(c, p.statuses, IsActive) /\ OfBar(c, p)}

GetCards(cards, p) ==
    {c \in OfSite(cards, p.site) :
        /\ c.type = p.type
        /\ HasStatus(c, p.statuses, IsActive)
        /\ OfBar(c, p)
        /\ p.node # None => c.node = p.node
        /\ p.preclassifier # None => <<c.preclassifier, p.preclassifier>> \in Likes}

-----------------------------------------------------------------------------
(* Lists.                                                                  *)

\* One card, wherever it is.
FindCard(cards, Is(_)) == {c \in cards : Is(c) /\ ~c.deleted}
FindCardByUUID(cards, uuid) == FindCard(cards, LAMBDA c : c.uuid = uuid)
FindCardByID(cards, id) == FindCard(cards, LAMBDA c : c.id = id)

\* Active cards are listed for ever, others for the days of history of the site.
IsRecent(c, site, today) ==
    c.creation >= today - (IF site.history = 0 THEN DefaultHistory ELSE site.history)
ShownByDefault(c, site, today) == IsActive(c) \/ IsRecent(c, site, today)

\* Pages: asked for within bounds, cut out of a list in its order.
PageIsLegal(page, limit) == page \in 1 .. CARD_MAX_PAGE /\ limit \in 1 .. CARD_MAX_LIMIT
\* Bug: pages are counted from 0.
OffsetOf_FromZero(page, limit) == page * limit
OffsetOf(page, limit) == (page - 1) * limit
LeastOf(a, b) == IF a < b THEN a ELSE b
PageOf(list, page, limit) ==
    [data |-> SubSeq(list, OffsetOf(page, limit) + 1, LeastOf(OffsetOf(page, limit) + limit, Len(list))),
     total |-> Len(list), page |-> page, limit |-> limit,
     totalPages |-> (Len(list) + limit - 1) \div limit,
     hasMore |-> page * limit < Len(list)]

ByFolio(rows) == SetToSortSeq(rows, LAMBDA a, b : a.folio > b.folio)

FindSiteCards(cards, site, today, page, limit) ==
    PageOf(ByFolio({c \in OfSite(cards, site.id) : ShownByDefault(c, site, today)}), page, limit)
FindByLevelMachineId(cards, site, today, level, page, limit) ==
    PageOf(ByFolio({c \in OfSite(cards, site.id) : c.node = level /\ ShownByDefault(c, site, today)}),
           page, limit)
GetCardsByLevelId(cards, site, level, page, limit) ==
    PageOf(ByFolio({c \in OfSite(cards, site.id) : c.node = level /\ IsOpen(c)}), page, limit)

\* Filters are normalized: statuses it knows, a date range whole and in order.
FiltersAreLegal(f) ==
    /\ f.statuses \subseteq CARD_LIST_STATUSES
    /\ f.dateType = None => f.first = None /\ f.last = None
    /\ f.dateType # None => f.first # None /\ f.last # None
    /\ f.dateType # None => f.dateType \in {"creation", "due"} /\ f.first <= f.last

StatusPasses(c, f, site, today) ==
    IF f.statuses = {} THEN ShownByDefault(c, site, today)
    ELSE c.status \in f.statuses /\ ShownByDefault(c, site, today)

Matches(names, pattern) == pattern = None \/ \E n \in names : <<n, pattern>> \in Likes

Names(c) == {c.creator, c.area, c.type, c.preclassifier, c.mechanic, c.responsible,
             c.provisional, c.definitive}
FiltersPass(c, f, u) ==
    /\ Matches(Names(c), f.text)
    /\ Matches({c.folio}, f.number)
    /\ Matches({c.route}, f.location)
    /\ Matches({c.machine}, f.machine)
    /\ Matches({c.creator}, f.creator)
    /\ Matches({c.responsible, c.provisional, c.definitive}, f.resolver)
    /\ f.dateType = "creation" => c.creation \in f.first .. f.last
    /\ f.dateType = "due" => c.due # None /\ c.due \in f.first .. f.last
    /\ f.mine => u \in {c.creatorId, c.mechanicId}

FilteredCards(cards, site, today, f, u) ==
    {c \in OfSite(cards, site.id) : StatusPasses(c, f, site, today) /\ FiltersPass(c, f, u)}

\* Two cards in the order a sort asks for; it says nothing of equal dates, and
\* puts a card without due date last.
DueBefore(a, b) == a.due # None /\ (b.due = None \/ a.due < b.due)
DueAfter(a, b) == a.due # None /\ (b.due = None \/ a.due > b.due)
Precedes(sort, a, b) ==
    CASE sort = "dueDate-asc" -> DueBefore(a, b)
      [] sort = "dueDate-desc" -> DueAfter(a, b)
      [] sort = "creationDate-asc" -> a.creation < b.creation
      [] sort = "creationDate-desc" -> a.creation > b.creation
      [] OTHER -> a.folio > b.folio

\* The lists that the database may make of the rows.
Lists(rows, sort) ==
    {l \in SetToSeqs(rows) : \A i, j \in DOMAIN l : i < j => ~Precedes(sort, l[j], l[i])}

\* The answers to a request for a page: each query sorts again.
FindSiteCardsPaginated(cards, site, today, f, u, page, limit) ==
    {PageOf(l, page, limit) : l \in Lists(FilteredCards(cards, site, today, f, u), f.sort)}

\* Cards of a person: accessible is None for one who may see every site.
FindResponsibleCards(cards, who, accessible) ==
    {c \in cards : c.responsibleId = who /\ ~c.deleted
                   /\ (accessible = None \/ c.site \in accessible)}
FindUserCards(cards, who, itsSites, accessible) ==
    ByFolio({c \in cards : c.mechanicId = who /\ ~c.deleted /\ c.site \in itsSites
                           /\ (accessible = None \/ c.site \in accessible)})

FindCardsForCalendar(cards, site, first, last, statuses) ==
    LET its == {c \in OfSite(cards, site) : HasStatus(c, statuses, IsActive)
                                            /\ c.due # None /\ c.due \in first .. last}
    IN  [d \in {c.due : c \in its} |-> {c \in its : c.due = d}]

\* The sheet with the cards of a site: a column for each methodology open.
ExportXLS(cards, site) ==
    [columns |-> DOMAIN GroupedByMethodology(cards, [site |-> site, statuses |-> {},
                                                    first |-> None, last |-> None]),
     rows |-> OfSite(cards, site)]

-----------------------------------------------------------------------------
(* Reports over the tree of levels.  They count deleted cards too, except  *)
(* the time series.                                                        *)

\* The rows reached from some, by a step, in as many steps as there are rows.
Reached(rows, from, Step(_, _)) ==
    LET reach[n \in 0 .. Cardinality(rows)] ==
            IF n = 0 THEN from
            ELSE LET before == reach[n - 1]
                 IN  before \cup {l \in rows : \E t \in before : Step(t, l)}
    IN  reach[Cardinality(rows)]

Tree(levels, root) ==
    Reached(levels, {l \in levels : l.id = root}, LAMBDA t, l : l.superior = t.id)

\* A node and those above it, up to the first that is at level top or above.
Ancestors(levels, node, top) ==
    Reached(levels, {l \in levels : l.id = node}, LAMBDA t, l : t.level > top /\ l.id = t.superior)

ReportStatuses(q) == IF q.statuses \in {{"A"}, {"R"}} THEN q.statuses ELSE {"A", "R"}
OfReport(cards, q) == {c \in cards : c.site = q.site /\ c.creation \in q.first .. q.last}
Counted(cards, q, node) ==
    Cardinality({c \in OfReport(cards, q) : c.node = node /\ c.status \in ReportStatuses(q)})

\* Cards of the nodes at the target level, under the node above each at the
\* grouping level.
CardReportGrouped(cards, levels, q) ==
    LET targets == {t \in Tree(levels, q.root) : t.level = q.target /\ Counted(cards, q, t.id) > 0}
        over(a) == {t \in targets : a \in Ancestors(levels, t.id, q.grouping)}
        groups == {a \in levels : a.level = q.grouping /\ over(a) # {}}
    IN  [a \in {a.id : a \in groups} |->
            MapThenSumSet(LAMBDA t : Counted(cards, q, t.id),
                          UNION {over(g) : g \in {g \in groups : g.id = a}})]

\* Nodes with cards, each with the nodes above it at two levels, and at the
\* target.  The rows of the node and of its ancestors are summed together.
CardReportStacked(cards, levels, q) ==
    LET above(t) == {a \in Ancestors(levels, t.id, q.g1) : a.level \in {q.g1, q.g2, q.target}}
        at(t, level) == {a.id : a \in {a \in above(t) : a.level = level}}
    IN  {[leaf |-> t.id, l3 |-> at(t, q.g1), l4 |-> at(t, q.g2), l6 |-> at(t, q.target),
          total |-> Cardinality(above(t)) * Counted(cards, q, t.id)]
         : t \in {t \in Tree(levels, q.root) :
                    Counted(cards, q, t.id) > 0 /\ at(t, q.g1) # {} /\ at(t, q.g2) # {}}}

\* Cards of each component at the target level, with the machine the card names.
CardReportDetails(cards, levels, q) ==
    LET tree == {t.id : t \in Tree(levels, q.root)} \cup {q.root}
        its == {c \in OfReport(cards, q) :
                  /\ c.superior \in tree /\ c.superior \in {l.id : l \in levels}
                  /\ c.node \in tree
                  /\ \E l \in levels : l.id = c.node /\ l.level = q.target}
        key(c) == <<c.superior, c.node>>
    IN  [k \in {key(c) : c \in its} |->
            [cards |-> Cardinality({c \in its : key(c) = k}),
             preclassifiers |-> {c.preclassifier : c \in {c \in its : key(c) = k}}]]

CardsByMachine(cards, levels, q, machine) ==
    {c \in OfReport(cards, q) :
        /\ c.superior = machine /\ machine \in {l.id : l \in levels}
        /\ \E l \in levels : l.id = c.node /\ l.level = q.target}
CardsByComponents(cards, q, components) == {c \in OfReport(cards, q) : c.node \in components}

-----------------------------------------------------------------------------
(* Cards of a day by the position of their creator: her latest, or none.   *)

LatestPositions(placed, u) ==
    {p \in placed : /\ p.user = u /\ ~p.deleted
                    /\ \A o \in placed : o.user = u /\ ~o.deleted => o.at <= p.at}

\* Bug: the join leaves out who has no position.
JoinedPositions_Inner(placed, positions, u) ==
    {[position |-> p.position, row |-> p]
     : p \in {p \in LatestPositions(placed, u) : p.position \in positions}}

\* LEFT JOIN: the latest positions that are there, or a row without one.
JoinedPositions(placed, positions, u) ==
    IF LatestPositions(placed, u) = {} THEN {[position |-> None]}
    ELSE {[position |-> IF p.position \in positions THEN p.position ELSE None, row |-> p]
          : p \in LatestPositions(placed, u)}

CardTimeSeries(cards, levels, placed, positions, q) ==
    LET its == {c \in OfSite(cards, q.site) :
                  /\ c.creation \in q.first .. q.last
                  /\ q.root # None => c.node \in {t.id : t \in Tree(levels, q.root)}
                  /\ q.origin # None => c.origin = q.origin}
        joined == UNION {{<<c, p>> : p \in JoinedPositions(placed, positions, c.creatorId)} : c \in its}
        rows == {j \in joined : q.positions = {} \/ j[2].position \in q.positions}
        in(k) == {j \in rows : <<j[1].creation, j[2].position>> = k}
    IN  [k \in {<<j[1].creation, j[2].position>> : j \in rows} |->
            [total |-> Cardinality(in(k)),
             open |-> Cardinality({j \in in(k) : j[1].status = "A"}),
             resolved |-> Cardinality({j \in in(k) : j[1].status = "R"})]]
=============================================================================
