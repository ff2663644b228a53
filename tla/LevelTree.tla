----------------------------- MODULE LevelTree -----------------------------
(***************************************************************************)
(* The levels of a plant (level.service.ts): a forest in which every row   *)
(* of levels names its superior, and the columns that each card copies     *)
(* from the place of its level.  Administrators create, update, move and   *)
(* clone levels while cards are created on them.                           *)
(*                                                                         *)
(* A step is a statement, or the reads that a handler makes one after      *)
(* another; save(row) writes the columns in which the copy differs from    *)
(* the row.  Only update and clone have a transaction; nothing is locked.  *)
(*                                                                         *)
(* Columns of type bigint come back from the database as strings, and a    *)
(* body's numbers are numbers: === between them is false (Same).           *)
(*                                                                         *)
(* Ids stand for names.  What the code does about names is so not seen:    *)
(* an update may rename a level, and cards keep the old name of it, and of *)
(* all that is above their level, until a move refreshes them.             *)
(***************************************************************************)
EXTENDS Integers, FiniteSets, SequencesExt, FiniteSetsExt

CONSTANTS
    Requests,       \* handlers that may run at the same time
    Sites,
    MachineIds,     \* the machine ids that bodies name
    None,           \* no machine id, no row
    BigintIsString, \* the driver's default, and the one of this service
    FirstLevels,    \* the levels there are at first: id -> row
    FirstCards,     \* the cards there are at first
    MaxLevels,      \* bound on the ids of levels
    MaxCards,       \* bound on the cards
    MaxCalls        \* bound on the requests

Ids == 1 .. MaxLevels
NoLevel == 0        \* the superior of a root

\* A clone's own machine id, drawn at random, is never drawn twice: it is its id.
LevelType ==
    [site : Sites, superior : Ids \cup {NoLevel}, level : Nat, status : {"A", "I"}, deleted : BOOLEAN,
     machine : MachineIds \cup Ids \cup {None}]

\* What a card copies: the root above its node, its superior, the depth of the
\* node and the path of the names, here of the ids, down to it.
CardType ==
    [node : Ids, area : Ids, superior : Ids \cup {NoLevel}, level : Nat, path : Seq(Ids)]

IsActive(l) == l.status = "A" /\ ~l.deleted

VARIABLES
    levels,     \* table levels: id -> row
    cards,      \* table cards
    lastId,     \* the last id given to a level
    req,        \* the requests
    calls,      \* how many there have been
    overlapped, \* history: the requests since whose first read another has written levels
    torn,       \* history: the levels that such a request wrote, or one that failed half way
    misplaced   \* history: the levels put, or made active, under one that was not, or put below itself

vars == <<levels, cards, lastId, req, calls, overlapped, torn, misplaced>>
tables == <<levels, cards, lastId>>
histories == <<overlapped, torn, misplaced>>

-----------------------------------------------------------------------------
(* The tree.                                                               *)

\* A stored bigint and a number of a body, or of the code.
Same(stored, given) == ~BigintIsString /\ stored = given

ChildrenOf(rows, id) == {c \in DOMAIN rows : rows[c].superior = id}

\* The levels below one and itself, by as many steps as there are rows.
FindAllChildLevels(rows, id) ==
    LET reach[n \in 0 .. Cardinality(DOMAIN rows)] ==
            IF n = 0 THEN {id} \cap DOMAIN rows
            ELSE LET before == reach[n - 1]
                 IN  before \cup {c \in DOMAIN rows : rows[c].superior \in before}
    IN  reach[Cardinality(DOMAIN rows)]

\* A level and those above it, from itself up: as many as there are, at most one
\* more than there are rows.
ChainOf(rows, id) ==
    LET up[n \in 0 .. Cardinality(DOMAIN rows)] ==
            IF n = 0 THEN <<id>>
            ELSE LET before == up[n - 1]
                     top == rows[Last(before)].superior
                 IN  IF top \in DOMAIN rows THEN Append(before, top) ELSE before
    IN  up[Cardinality(DOMAIN rows)]
InChain(rows, id) == ToSet(ChainOf(rows, id))
EndsAbove(rows, id) == rows[Last(ChainOf(rows, id))].superior \notin DOMAIN rows

\* The recursive query from a level never ends, and the database stops it with an
\* error, when the level is in a circle.
InCircle(rows, id) == \E c \in ChildrenOf(rows, id) : id \in FindAllChildLevels(rows, c)

\* What getSuperiorLevelsById makes of the map of a site: names from the top down.
SuperiorsOf(rows, id) ==
    LET chain == ChainOf(rows, id)
    IN  [area |-> Last(chain), path |-> Reverse(chain)]

SiteMap(site) == [id \in {i \in DOMAIN levels : levels[i].site = site} |-> levels[id]]

\* A table in which some rows are written, those that are there and new ones.
With(table, rows) == [i \in DOMAIN table \cup DOMAIN rows |-> IF i \in DOMAIN rows THEN rows[i] ELSE table[i]]

\* Levels in the order of their ids.
Ascending(ids) ==
    CHOOSE s \in [1 .. Cardinality(ids) -> ids] : \A i, j \in 1 .. Cardinality(ids) : i < j => s[i] < s[j]

\* The columns of a card on a level: at its creation, and when its level has been moved.
Place(rows, id, isRoot) ==
    [node |-> id, area |-> SuperiorsOf(rows, id).area, path |-> SuperiorsOf(rows, id).path,
     level |-> rows[id].level, superior |-> IF isRoot THEN id ELSE rows[id].superior]
OnCreation(rows, id) == Place(rows, id, rows[id].superior = NoLevel)
OnMove(rows, id) == Place(rows, id, Same(rows[id].superior, NoLevel))

\* At first the levels of a site are below one another, none below itself and none in
\* use below one that is not, no two have a machine id, and cards have the place of theirs.
LevelsAssumption ==
    /\ MaxLevels \in Nat \ {0} /\ MaxCards \in Nat /\ MaxCalls \in Nat
    /\ BigintIsString \in BOOLEAN
    /\ None \notin MachineIds \cup Ids /\ MachineIds \cap Ids = {}
    /\ \E n \in 0 .. MaxLevels : FirstLevels \in [1 .. n -> LevelType]
    /\ \A l \in DOMAIN FirstLevels :
         LET row == FirstLevels[l] IN
         /\ row.superior \in DOMAIN FirstLevels \cup {NoLevel}
         /\ row.superior # NoLevel =>
              /\ FirstLevels[row.superior].site = row.site
              /\ IsActive(row) => IsActive(FirstLevels[row.superior])
         /\ row.machine \in Ids => row.machine = l
         /\ \A m \in DOMAIN FirstLevels \ {l} :
              FirstLevels[m].site = row.site /\ FirstLevels[m].machine = row.machine => row.machine = None
    /\ \A S \in SUBSET DOMAIN FirstLevels \ {{}} : \E l \in S : FirstLevels[l].superior \notin S
    /\ \A c \in FirstCards :
         /\ c \in CardType /\ c.node \in DOMAIN FirstLevels
         /\ c \in {OnCreation(FirstLevels, c.node), OnMove(FirstLevels, c.node)}

-----------------------------------------------------------------------------
(* What is read of the tree.                                               *)

FindSiteLevels(site) == {l \in DOMAIN levels : levels[l].site = site}
FindSiteActiveLevels(site) == {l \in FindSiteLevels(site) : IsActive(levels[l])}
GetChildrenLevels(site, id) == {c \in FindSiteActiveLevels(site) : levels[c].superior = id}
RootLevels(site) == GetChildrenLevels(site, NoLevel)

\* The tree that is loaded from the roots, to a depth.
GetLevelTree(site, depth) ==
    LET tree[n \in 1 .. depth] ==
            IF n = 1 THEN RootLevels(site)
            ELSE LET above == tree[n - 1]
                 IN  above \cup {c \in DOMAIN levels : IsActive(levels[c]) /\ levels[c].superior \in above}
    IN  tree[depth]

GetLevelStats(site) ==
    [totalLevels |-> Cardinality(FindSiteLevels(site)),
     activeLevels |-> Cardinality(FindSiteActiveLevels(site)),
     rootLevels |-> Cardinality(RootLevels(site)),
     maxDepth |-> IF RootLevels(site) = {} THEN 0
                  ELSE CHOOSE d \in Ids : /\ GetLevelTree(site, d) = GetLevelTree(site, d + 1)
                                          /\ d = 1 \/ GetLevelTree(site, d - 1) # GetLevelTree(site, d)]

-----------------------------------------------------------------------------
(* Requests.                                                               *)

\* Where a request is, what it is about (a level, another, a body), and what it
\* has read or made: a copy of the level and its old superior, the children, the
\* levels to go through, the rows of the site or those to be inserted, the clone of
\* each level, how many children it has saved and whether it has written.
Idle == [at |-> "idle", kind |-> "none", id |-> NoLevel, to |-> NoLevel, site |-> None, status |-> "A",
         machine |-> None, copy |-> None, old |-> NoLevel, children |-> <<>>, todo |-> {},
         rows |-> <<>>, clones |-> <<>>, saved |-> 0, began |-> FALSE]

At(r, kind, at) == req[r].kind = kind /\ req[r].at = at
Running == {r \in Requests : req[r].at # "idle"}
Go(r, q) == req' = [req EXCEPT ![r] = q]
Done(r) == Go(r, Idle)

Call(r, q) ==
    /\ r \notin Running
    /\ calls < MaxCalls
    /\ calls' = calls + 1
    /\ Go(r, q)
    /\ overlapped' = overlapped \ {r}
    /\ UNCHANGED <<tables, torn, misplaced>>

Reads == UNCHANGED <<tables, calls, histories>>
Refuse(r) == Done(r) /\ Reads

\* The rows of ids are written: they are torn when another has written since the
\* request began to read, and the others are overlapped now.
Unsound(rows, id) ==
    IsActive(rows[id]) /\ rows[id].superior \in DOMAIN rows /\ ~IsActive(rows[rows[id].superior])
WriteLevels(r, rows, ids, below) ==
    /\ levels' = rows
    /\ torn' = IF r \in overlapped THEN torn \cup ids ELSE torn
    /\ misplaced' = misplaced \cup below \cup {i \in ids : Unsound(rows, i)}
    /\ overlapped' = overlapped \cup (Running \ {r})
    /\ UNCHANGED <<cards, calls>>

\* A statement fails, or finds nothing: what was written before stays.
Fail(r) ==
    /\ Done(r)
    /\ torn' = IF req[r].began
               THEN torn \cup {req[r].id} \cup {req[r].children[k].id : k \in DOMAIN req[r].children}
               ELSE torn
    /\ UNCHANGED <<tables, calls, overlapped, misplaced>>

Init ==
    /\ levels = FirstLevels
    /\ cards = FirstCards
    /\ lastId = Cardinality(DOMAIN FirstLevels)
    /\ req = [r \in Requests |-> Idle]
    /\ calls = 0
    /\ overlapped = {} /\ torn = {} /\ misplaced = {}

-----------------------------------------------------------------------------
(* create, update.                                                         *)

MachineTaken(site, machine, but) ==
    machine # None /\ \E l \in FindSiteLevels(site) \ {but} : levels[l].machine = machine

CallCreate(r, site, to, machine) ==
    Call(r, [Idle EXCEPT !.kind = "create", !.at = "check", !.site = site, !.to = to, !.machine = machine])

CheckCreate(r) ==
    /\ At(r, "create", "check")
    /\ LET q == req[r]
           parent == levels[q.to]
           refused == \/ MachineTaken(q.site, q.machine, NoLevel)
                      \/ q.to # NoLevel /\ (q.to \notin FindSiteLevels(q.site) \/ ~IsActive(parent))
           row == [site |-> q.site, superior |-> q.to, status |-> "A", deleted |-> FALSE, machine |-> q.machine,
                   level |-> IF q.to = NoLevel THEN 0 ELSE parent.level + 1]
       IN  IF refused THEN Refuse(r)
           ELSE Go(r, [q EXCEPT !.at = "insert", !.copy = row]) /\ Reads

NextId == lastId + 1
InsertLevel(r) ==
    /\ At(r, "create", "insert")
    /\ NextId \in Ids
    /\ lastId' = NextId
    /\ LET row == [req[r].copy EXCEPT !.machine = IF @ = None THEN NextId ELSE @]
       IN  WriteLevels(r, With(levels, [i \in {NextId} |-> row]), {NextId}, {})
    /\ Done(r)

CallUpdate(r, id, status, machine) ==
    Call(r, [Idle EXCEPT !.kind = "update", !.at = "check", !.id = id, !.status = status, !.machine = machine])

\* The status and what follows from it (applyCatalogLifecycle).
WithStatus(row, status) == [row EXCEPT !.status = status, !.deleted = status # "A"]

\* A status that changes is given to all levels below, as they are now.  The other
\* columns of a body (its name, who is responsible) are in none of the model's, and
\* no card is written: the names that cards copied stay as they were.
CheckUpdate(r) ==
    /\ At(r, "update", "check")
    /\ LET q == req[r]
           row == levels[q.id]
           changed == q.status # row.status
       IN  IF \/ q.id \notin DOMAIN levels
              \/ MachineTaken(row.site, q.machine, q.id)
              \/ changed /\ InCircle(levels, q.id)
           THEN Refuse(r)
           ELSE /\ Go(r, [q EXCEPT !.at = "commit",
                                   !.copy = WithStatus([row EXCEPT !.machine = q.machine], q.status),
                                   !.todo = IF changed THEN FindAllChildLevels(levels, q.id) \ {q.id} ELSE {}])
                /\ Reads

\* Bug: the levels below keep their status.
CommitUpdate_Alone(r) ==
    /\ At(r, "update", "commit")
    /\ WriteLevels(r, With(levels, [i \in {req[r].id} |-> req[r].copy]), {req[r].id}, {})
    /\ Done(r)
    /\ UNCHANGED lastId

CommitUpdate(r) ==
    /\ At(r, "update", "commit")
    /\ LET q == req[r]
           rows == [l \in {q.id} \cup q.todo |-> IF l = q.id THEN q.copy ELSE WithStatus(levels[l], q.status)]
       IN  WriteLevels(r, With(levels, rows), DOMAIN rows, {})
    /\ Done(r)
    /\ UNCHANGED lastId

-----------------------------------------------------------------------------
(* moveLevel.                                                              *)

CallMove(r, id, to) == Call(r, [Idle EXCEPT !.kind = "move", !.at = "check", !.id = id, !.to = to])

CheckMove(r) ==
    /\ At(r, "move", "check")
    /\ LET q == req[r]
           row == levels[q.id]
           refused == \/ q.id \notin DOMAIN levels \/ row.deleted
                      \/ /\ q.to # NoLevel
                         /\ \/ q.to \notin DOMAIN levels \/ levels[q.to].site # row.site
                            \/ InCircle(levels, q.id)
                            \/ \E l \in FindAllChildLevels(levels, q.id) : Same(l, q.to)
       IN  IF refused \/ Same(row.superior, q.to) THEN Refuse(r)
           ELSE Go(r, [q EXCEPT !.at = "children", !.copy = row, !.old = row.superior]) /\ Reads

\* The children, all that is below them, and the depth of the new superior.
ReadChildren(r) ==
    /\ At(r, "move", "children")
    /\ LET q == req[r]
           its == Ascending(ChildrenOf(levels, q.id))
       IN  IF \E c \in ChildrenOf(levels, q.id) : InCircle(levels, c) THEN Fail(r)
           ELSE /\ Go(r, [q EXCEPT
                      !.at = "save",
                      !.children = [k \in DOMAIN its |-> [id |-> its[k], row |-> levels[its[k]]]],
                      !.todo = UNION {FindAllChildLevels(levels, c) : c \in ChildrenOf(levels, q.id)},
                      !.copy = [@ EXCEPT !.superior = q.to,
                                         !.level = IF q.to = NoLevel THEN 0 ELSE levels[q.to].level + 1]])
                /\ Reads

SaveMoved(r) ==
    /\ At(r, "move", "save")
    /\ LET q == req[r]
           below == IF q.to \in FindAllChildLevels(levels, q.id) THEN {q.id} ELSE {}
       IN  /\ WriteLevels(r, With(levels, [i \in {q.id} |-> q.copy]), {q.id}, below)
           /\ Go(r, [q EXCEPT !.at = IF q.children = <<>> THEN "query" ELSE "reassign", !.began = TRUE])
    /\ UNCHANGED lastId

\* Bug: the rows of the superior's id are given, instead of the moved one's.
Reassign_Swapped(r) ==
    /\ At(r, "move", "reassign")
    /\ LET q == req[r]
           its == ChildrenOf(levels, q.to)
       IN  WriteLevels(r, With(levels, [l \in its |-> [levels[l] EXCEPT !.superior = q.old]]), its, {})
    /\ Go(r, [req[r] EXCEPT !.at = "depths"])
    /\ UNCHANGED lastId

\* Its children are given its old superior, in one statement.
Reassign(r) ==
    /\ At(r, "move", "reassign")
    /\ LET q == req[r]
           its == ChildrenOf(levels, q.id)
       IN  WriteLevels(r, With(levels, [l \in its |-> [levels[l] EXCEPT !.superior = q.old]]), its, {})
    /\ Go(r, [req[r] EXCEPT !.at = "depths"])
    /\ UNCHANGED lastId

\* Each child is saved as it was read, with a new depth.  That of a root is looked
\* for as any other is: there is no level 0, and the request fails.
SaveChild(r) ==
    /\ At(r, "move", "depths")
    /\ LET q == req[r]
           k == q.saved + 1
           child == q.children[k]
           depth == IF Same(q.old, NoLevel) THEN 0 ELSE levels[q.old].level + 1
       IN  IF ~Same(q.old, NoLevel) /\ q.old \notin DOMAIN levels THEN Fail(r)
           ELSE /\ WriteLevels(r, With(levels, [i \in {child.id} |-> [child.row EXCEPT !.level = depth]]), {child.id}, {})
                /\ Go(r, [q EXCEPT !.saved = k, !.at = IF k = Len(q.children) THEN "query" ELSE @])
                /\ UNCHANGED lastId

\* Bug: what stayed below the moved level is not asked for.
ReadAffected_OnlyMoved(r) ==
    /\ At(r, "move", "query")
    /\ LET q == req[r] IN
       IF InCircle(levels, q.id) THEN Fail(r)
       ELSE Go(r, [q EXCEPT !.at = "cards", !.todo = {q.id}, !.rows = SiteMap(q.copy.site)]) /\ Reads

\* The levels whose cards are to be refreshed: those below the moved one now, and
\* its children with what was below them.
ReadAffected(r) ==
    /\ At(r, "move", "query")
    /\ LET q == req[r] IN
       IF InCircle(levels, q.id) THEN Fail(r)
       ELSE Go(r, [q EXCEPT !.at = "cards", !.todo = @ \cup FindAllChildLevels(levels, q.id),
                            !.rows = SiteMap(q.copy.site)]) /\ Reads

\* The cards of a level are given its place, as the map has it.  The path of a
\* level that is below a circle has no end, and the handler never comes back.
UpdateCardsForLevel(r) ==
    /\ At(r, "move", "cards")
    /\ LET q == req[r]
           id == CHOOSE l \in q.todo : \A m \in q.todo : l <= m
       IN  IF q.todo = {} THEN Done(r) /\ UNCHANGED cards
           ELSE IF id \in DOMAIN q.rows /\ ~EndsAbove(q.rows, id)
                THEN Go(r, [q EXCEPT !.at = "circling"]) /\ UNCHANGED cards
                ELSE /\ cards' = IF id \notin DOMAIN q.rows THEN cards
                                 ELSE {IF c.node = id THEN OnMove(q.rows, id) ELSE c : c \in cards}
                     /\ Go(r, [q EXCEPT !.todo = @ \ {id}])
    /\ UNCHANGED <<levels, lastId, calls, overlapped, misplaced>>
    /\ torn' = IF r \in overlapped THEN torn \cup req[r].todo ELSE torn

-----------------------------------------------------------------------------
(* cloneLevel: the copies are inserted by a transaction, one level after   *)
(* another, and seen by others when it commits; what is copied is read     *)
(* outside of it.  req.rows are the copies, req.children what is to be     *)
(* copied, in order: a level, the superior and the depth of its copy's.    *)

CallClone(r, id) == Call(r, [Idle EXCEPT !.kind = "clone", !.at = "check", !.id = id])

Pending(id, row, to, depth) == [id |-> id, row |-> row, to |-> to, depth |-> depth]

CheckClone(r) ==
    /\ At(r, "clone", "check")
    /\ LET q == req[r]
           row == levels[q.id]
           depth == IF Same(row.superior, NoLevel) \/ row.level = 0 THEN 0 ELSE row.level - 1
       IN  IF q.id \notin DOMAIN levels THEN Refuse(r)
           ELSE Go(r, [q EXCEPT !.at = "copy", !.children = <<Pending(q.id, row, row.superior, depth)>>]) /\ Reads

\* Bug: the copy stays where the level is.
CopyOf_InPlace(p, id) ==
    [p.row EXCEPT !.level = IF Same(p.to, NoLevel) THEN 0 ELSE p.depth + 1,
                  !.deleted = FALSE, !.machine = IF @ = None THEN id ELSE None]

\* A machine id stays with its machine; a copy of a level without one gets its own.
CopyOf(p, id) ==
    [p.row EXCEPT !.superior = p.to, !.level = IF Same(p.to, NoLevel) THEN 0 ELSE p.depth + 1,
                  !.deleted = FALSE, !.machine = IF @ = None THEN id ELSE None]

CloneNext(r) ==
    /\ At(r, "clone", "copy")
    /\ req[r].children # <<>>
    /\ NextId \in Ids
    /\ lastId' = NextId
    /\ LET q == req[r]
           p == Head(q.children)
           its == Ascending(ChildrenOf(levels, p.id))
           depth == CopyOf(p, NextId).level
       IN  Go(r, [q EXCEPT
              !.rows = With(@, [i \in {NextId} |-> CopyOf(p, NextId)]),
              !.clones = With(@, [i \in {p.id} |-> NextId]),
              !.children = [k \in DOMAIN its |-> Pending(its[k], levels[its[k]], NextId, depth)] \o Tail(@)])
    /\ UNCHANGED <<levels, cards, calls, histories>>

CommitClone(r) ==
    /\ At(r, "clone", "copy")
    /\ req[r].children = <<>>
    /\ WriteLevels(r, With(levels, req[r].rows), DOMAIN req[r].rows, {})
    /\ Done(r)
    /\ UNCHANGED lastId

-----------------------------------------------------------------------------
(* A card is created on a level: the level and the map of its site are     *)
(* read some time before the card is there (card.service.ts).              *)

CallCard(r, id) == Call(r, [Idle EXCEPT !.kind = "card", !.at = "check", !.id = id])

CheckCard(r) ==
    /\ At(r, "card", "check")
    /\ LET q == req[r] IN
       IF q.id \notin DOMAIN levels \/ ~IsActive(levels[q.id]) THEN Refuse(r)
       ELSE /\ Reads
            /\ IF EndsAbove(levels, q.id)
               THEN Go(r, [q EXCEPT !.at = "insert", !.copy = OnCreation(levels, q.id)])
               ELSE Go(r, [q EXCEPT !.at = "circling"])

InsertCard(r) ==
    /\ At(r, "card", "insert")
    /\ Cardinality(cards) < MaxCards
    /\ cards' = cards \cup {req[r].copy}
    /\ torn' = IF r \in overlapped THEN torn \cup {req[r].id} ELSE torn
    /\ Done(r)
    /\ UNCHANGED <<levels, lastId, calls, overlapped, misplaced>>

\* A statement fails.
Lose(r) == r \in Running /\ req[r].at # "circling" /\ Fail(r)

-----------------------------------------------------------------------------
Calls(r) ==
    \/ \E site \in Sites, to \in DOMAIN levels \cup {NoLevel}, m \in MachineIds \cup {None} :
          CallCreate(r, site, to, m)
    \/ \E id \in DOMAIN levels :
          \/ \E s \in {"A", "I"}, m \in MachineIds \cup {None} : CallUpdate(r, id, s, m)
          \/ \E to \in DOMAIN levels \cup {NoLevel} : CallMove(r, id, to)
          \/ CallClone(r, id)
          \/ CallCard(r, id)

Move(r) ==
    \/ CheckMove(r) \/ ReadChildren(r) \/ SaveMoved(r) \/ Reassign(r) \/ SaveChild(r)
    \/ ReadAffected(r) \/ UpdateCardsForLevel(r)

Next == \E r \in Requests :
    \/ Calls(r)
    \/ CheckCreate(r) \/ InsertLevel(r)
    \/ CheckUpdate(r) \/ CommitUpdate(r)
    \/ Move(r)
    \/ CheckClone(r) \/ CloneNext(r) \/ CommitClone(r)
    \/ CheckCard(r) \/ InsertCard(r)
    \/ Lose(r)

Spec == Init /\ [][Next]_vars

-----------------------------------------------------------------------------
TypeOK ==
    /\ lastId \in 0 .. MaxLevels
    /\ DOMAIN levels \subseteq 1 .. lastId
    /\ levels \in [DOMAIN levels -> LevelType]
    /\ \A l \in DOMAIN levels : levels[l].superior \in DOMAIN levels \cup {NoLevel}
    /\ \A c \in cards : c \in CardType /\ c.node \in DOMAIN levels
    /\ calls \in 0 .. MaxCalls
    /\ overlapped \subseteq Requests
    /\ torn \cup misplaced \subseteq Ids

Excused(id) == InChain(levels, id) \cap (torn \cup misplaced) # {}

\* The superiors form a forest: following them ends at a root, for which getLevelPathById,
\* findLastLevelFromNode and getSuperiorLevelsById loop until it does.  Only a
\* level that was moved below itself, which moveLevel fails to refuse, or a write of a
\* request that another has overlapped closes a circle.
TreeIsForest == \A l \in DOMAIN levels : EndsAbove(levels, l) \/ Excused(l)

\* Every active level is in the tree that clients load from its roots, and the depth in
\* the statistics is the tree's: a deactivation takes all that is below along,
\* unless a level is moved, or made active, under one that is not, or one came below meanwhile.
ActiveIsReachable ==
    \A site \in Sites :
        LET tree == GetLevelTree(site, MaxLevels)
            stats == GetLevelStats(site)
        IN  /\ \A l \in FindSiteActiveLevels(site) : l \in tree \/ Excused(l)
            /\ tree \subseteq FindSiteActiveLevels(site)
            /\ \A l \in tree : Len(ChainOf(levels, l)) <= stats.maxDepth

\* When no move is under way every card has the place of its level in the tree,
\* however often levels were moved; except below a move that another write
\* overlapped or that failed half way.  A root's card may have no superior.  The
\* property is about which levels are in the path, not about what they are called
\* now: a rename leaves the names in the cards old.
CardsFollowTree ==
    (\A r \in Requests : req[r].kind = "move" => req[r].at = "check") =>
        \A c \in cards :
            c \in {OnCreation(levels, c.node), OnMove(levels, c.node)} \/ Excused(c.node)

\* A clone that is about to commit, and that no other write has overlapped, has
\* the shape of what it clones: each level once, below the copy of its superior, one deeper.
\* Nothing is said of the depth of the top copy: that of a root, which has depth 0, has
\* depth 1, as its superior is a string and is compared with the number 0.
ClonesAreCopies ==
    \A r \in Requests \ overlapped :
        LET q == req[r]
            original(id) == CHOOSE o \in DOMAIN q.clones : q.clones[o] = id
        IN  At(r, "clone", "copy") /\ q.children = <<>> =>
                /\ DOMAIN q.clones = FindAllChildLevels(levels, q.id)
                /\ IsInjective(q.clones)
                /\ \A o \in DOMAIN q.clones \ {q.id} :
                     LET copy == q.rows[q.clones[o]] IN
                     /\ copy.superior = q.clones[levels[o].superior]
                     /\ copy.level = q.rows[copy.superior].level + 1
                     /\ copy.status = levels[o].status
                /\ q.rows[q.clones[q.id]].superior = levels[q.id].superior

\* A machine id that bodies name is one level's of a site, unless a request was
\* overlapped between its search and its write.
MachineIdsUnique ==
    \A l, m \in DOMAIN levels :
        l # m /\ levels[l].site = levels[m].site /\ levels[l].machine = levels[m].machine
        => levels[l].machine = None \/ {l, m} \cap torn # {}

\* Both: a clone is another subtree, and neither it nor anything else takes the
\* identity of a machine that is there.
ClonesAreSound == ClonesAreCopies /\ MachineIdsUnique

\* After a move, that no other write overlaps, the children of the moved level
\* are where it was.
ChildrenReassigned ==
    \A r \in Requests \ overlapped :
        At(r, "move", "cards") =>
            \A k \in DOMAIN req[r].children : levels[req[r].children[k].id].superior = req[r].old
=============================================================================
