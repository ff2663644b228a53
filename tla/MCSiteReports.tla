--------------------------- MODULE MCSiteReports ----------------------------
(***************************************************************************)
(* A site with an area, two machines and a component; two people, in zones *)
(* of which one is not whole hours from UTC and one changes its clock.     *)
(***************************************************************************)
EXTENDS SiteReports

CONSTANTS ana, bob, am, pm, press, oven, A1, B1, p1, p2, clean, oil, six

ThisSite == [id |-> 1, history |-> 2]

Node(id, superior, level) == [id |-> id, superior |-> superior, level |-> level]
Tree_ == {Node(1, 0, 1), Node(2, 1, 2), Node(3, 2, 3), Node(4, 2, 3), Node(5, 3, 4)}

Card == [id |-> 0, uuid |-> 0, folio |-> 0, site |-> 1, status |-> "A", deleted |-> FALSE,
         createdAt |-> 10, creation |-> 10, due |-> None, type |-> am, preclassifier |-> A1,
         area |-> press, node |-> 3, superior |-> 2, route |-> press, machine |-> press,
         creator |-> ana, creatorId |-> ana, mechanic |-> None, mechanicId |-> None,
         responsible |-> None, responsibleId |-> None, provisional |-> None, definitive |-> None,
         reason |-> None, origin |-> None]
TheCards ==
    {Card,
     [Card EXCEPT !.node = 5, !.superior = 3, !.due = 10, !.mechanic = bob],
     [Card EXCEPT !.status = "R", !.creation = 7, !.definitive = bob, !.node = 4],
     [Card EXCEPT !.status = "C", !.creation = 3, !.mechanic = bob, !.creator = bob, !.creatorId = bob],
     [Card EXCEPT !.deleted = TRUE, !.area = oven],
     [Card EXCEPT !.site = 2, !.node = 9]}

Hour == 4
At(day, hour) == day * Cilt!Day + hour * Hour

Execution == [id |-> 0, cilt |-> 1, sequence |-> clean, position |-> p1, user |-> ana,
              schedule |-> At(10, 8), start |-> None, duration |-> 5, real |-> None, nok |-> FALSE,
              stoppage |-> FALSE, tag |-> 0, deleted |-> FALSE, status |-> "A"]
TheExecutions ==
    {Execution,
     [Execution EXCEPT !.start = At(10, 9), !.real = 3, !.status = "R"],
     [Execution EXCEPT !.schedule = At(10, 5), !.start = At(10, 6), !.nok = TRUE],
     [Execution EXCEPT !.schedule = At(9, 18) + 1, !.start = At(10, 3)],
     [Execution EXCEPT !.schedule = At(11, 5) - 1, !.position = p2, !.cilt = 2, !.sequence = oil],
     [Execution EXCEPT !.user = None, !.start = At(10, 9), !.tag = None],
     [Execution EXCEPT !.deleted = TRUE, !.user = bob, !.start = At(10, 9)]}

Placement(u, p, at) == [id |-> 0, user |-> u, position |-> p, at |-> at, deleted |-> FALSE]
ThePlacements ==
    {Placement(ana, p1, 1), Placement(ana, p2, 1), Placement(ana, p2, 2),
     [Placement(ana, p1, 3) EXCEPT !.deleted = TRUE], Placement(bob, p1, 1)}

PositionLevel(c, p) == [cilt |-> c, position |-> p, level |-> 3, status |-> "A", deleted |-> FALSE]
ThePositionLevels ==
    {PositionLevel(1, p1), PositionLevel(2, p1), PositionLevel(3, p2), PositionLevel(1, p2),
     [PositionLevel(1, p1) EXCEPT !.status = "S"]}

TheMasters == {[id |-> 1, site |-> 1, status |-> "A", deleted |-> FALSE],
               [id |-> 2, site |-> 1, status |-> "S", deleted |-> FALSE],
               [id |-> 3, site |-> 1, status |-> "A", deleted |-> TRUE]}
TheSequences == {[id |-> clean, cilt |-> 1], [id |-> oil, cilt |-> 2]}
TheSchedules == <<[cilt |-> 1, sequence |-> clean, time |-> six],
                  [cilt |-> 2, sequence |-> oil, time |-> six],
                  [cilt |-> 2, sequence |-> clean, time |-> six]>>
\* West of UTC, with a summer that begins on day 10, or ends; and east.
West(before, after) == [before |-> before * Hour, after |-> after * Hour, change |-> At(10, 8)]
East == 23      \* five hours and three quarters
TheZones == {West(-6, -6), West(-6, -5), West(-5, -6), [before |-> East, after |-> East, change |-> 0]}
Exactly == {<<n, n>> : n \in {A1, B1}}

\* Executions grow with the plan, cards with the placements of their creators.
OneSubject == cards # {} => execs = {} /\ positionLevels = <<>>
=============================================================================
