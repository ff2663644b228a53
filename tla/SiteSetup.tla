----------------------------- MODULE SiteSetup -----------------------------
(***************************************************************************)
(* A site is set up: its levels, its people, its catalogs and its          *)
(* positions.  None of the four reads what another writes, so a behaviour  *)
(* is about one of them, chosen at first.                                  *)
(***************************************************************************)
EXTENDS UserAccounts

CONSTANTS
    MoreCalls,      \* bound on the requests about levels
    Plants,         \* of LevelTree
    MachineIds,
    BigintIsString,
    FirstLevels,
    FirstCards,
    MaxLevels,
    MaxCards,
    Values,         \* of Catalogs
    FirstEntries,
    MaxEntries,
    MaxWorn,        \* bound on the cards that copy a colour
    MaxTime,
    Operators,      \* of Positions: the users that are placed
    FirstPositions,
    MaxOrder,
    MaxPositions,
    MaxNamed

VARIABLES subject, levels, cards, lastId, treeReq, torn, misplaced,
          entries, worn, snapshot, now, catalogReq, crossed, late,
          positions, placed, asked, jobReq, unsound

Tree == INSTANCE LevelTree WITH
    Sites <- Plants, None <- Nothing, MaxCalls <- MoreCalls,
    req <- treeReq, overlapped <- overtaken

Catalog == INSTANCE Catalogs WITH MaxCards <- MaxWorn, req <- catalogReq

Jobs == INSTANCE Positions WITH Users <- Operators, req <- jobReq, torn <- unsound

ASSUME TreeAssumption == Tree!LevelsAssumption
ASSUME CatalogAssumption == Catalog!EntriesAssumption
ASSUME JobsAssumption == Jobs!OrdersAssumption

treeVars == <<levels, cards, lastId, treeReq, torn, misplaced>>
peopleVars == <<users, posts, req, rushed, unseen>>
catalogVars == <<entries, worn, snapshot, now, catalogReq, crossed, late>>
jobVars == <<positions, placed, asked, jobReq, unsound>>

NoLevels ==
    /\ levels = <<>> /\ cards = {} /\ lastId = 0
    /\ treeReq = [r \in Requests |-> Tree!Idle]
    /\ torn = {} /\ misplaced = {}

SetupInit ==
    /\ subject \in {"levels", "people", "catalog", "jobs"}
    /\ Init /\ Catalog!Init /\ Jobs!Init
    /\ IF subject = "levels" THEN Tree!Init
       ELSE NoLevels

SetupNext ==
    /\ UNCHANGED subject
    /\ \/ subject = "levels" /\ Tree!Next /\ UNCHANGED <<peopleVars, catalogVars, jobVars>>
       \/ subject = "people" /\ Next /\ UNCHANGED <<treeVars, catalogVars, jobVars>>
       \/ subject = "catalog" /\ Catalog!Next /\ UNCHANGED <<treeVars, peopleVars, jobVars>>
       \/ subject = "jobs" /\ Jobs!Next /\ UNCHANGED <<treeVars, peopleVars, catalogVars>>

SetupSpec ==
    SetupInit /\ [][SetupNext]_<<subject, calls, overtaken, treeVars, peopleVars, catalogVars, jobVars>>

\* The promises of LevelTree: moveLevel closes no circle, a deactivation takes along what
\* is below, cards follow their level, a clone is another subtree.
TreeIsForest == Tree!TreeIsForest
ActiveIsReachable == Tree!ActiveIsReachable
CardsFollowTree == Tree!CardsFollowTree
ClonesAreSound == Tree!ClonesAreSound

\* Those of Catalogs: cards and codes agree with the catalog, and a device that finds
\* the revision of its snapshot unchanged has what it would read.
CatalogHolds == Catalog!CatalogHolds
RevisionTellsChange == Catalog!RevisionTellsChange

\* That of Positions: orders and placements are those that somebody asked for.
PositionsKept == Jobs!PositionsKept
=============================================================================
