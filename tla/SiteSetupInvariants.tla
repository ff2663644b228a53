------------------------- MODULE SiteSetupInvariants -------------------------
(***************************************************************************)
(* The inductive invariants of the parts of SiteSetup: with its promises, what *)
(* a request carries and what it has read that is still so.  The proofs that *)
(* every step keeps them are in SiteSetupProofs.                           *)
(***************************************************************************)
EXTENDS SiteSetup

(***************************************************************************)
(* Users and their sites.                                                  *)
(***************************************************************************)
\* users and posts have the ids 1 .. n.
Tables(rows, assigned) ==
    /\ \E n \in 0 .. MaxUsers : DOMAIN rows = 1 .. n
    /\ rows \in [DOMAIN rows -> UserType]
    /\ assigned \in [DOMAIN rows -> [Sites -> Nat]]

AccountStages == {"idle", "look", "insert", "assign", "save", "write"}
FreshType == {<<>>} \cup UNION {[E -> Digests] : E \in SUBSET Emails}
AccountRequest ==
    [at : AccountStages, kind : {"none", "create", "update", "partial", "import", "row"},
     user : UserIds \cup {Nothing}, email : Emails \cup {Nothing}, site : Sites \cup {Nothing},
     digest : Digests \cup {Nothing}, seen : SUBSET Sites, copy : UserType \cup {Nothing},
     fresh : FreshType, known : SUBSET UserIds]

AccountsTyped ==
    /\ Tables(users, posts)
    /\ req \in [Requests -> AccountRequest]
    /\ calls \in 0 .. MaxCalls
    /\ overtaken \subseteq Requests
    /\ rushed \subseteq UserIds
    /\ unseen \subseteq UserIds \X Sites

\* What the body of a request has, and where it may be.
Creating(r) ==
    /\ req[r].at \in {"idle", "look", "insert", "assign"}
    /\ req[r].email \in Emails /\ req[r].site \in Sites /\ req[r].digest \in Digests
    /\ req[r].seen \subseteq {req[r].site}
    /\ req[r].at = "assign" => req[r].user \in DOMAIN users
Updating(r) ==
    /\ req[r].at \in {"idle", "look", "save"}
    /\ req[r].user \in DOMAIN users
    /\ req[r].kind = "update" => req[r].site \in Sites
Importing(r) ==
    /\ req[r].at \in {"idle", "write"}
    /\ req[r].site \in Sites /\ req[r].seen = {req[r].site}
    /\ DOMAIN req[r].fresh \subseteq Emails /\ req[r].fresh \in [DOMAIN req[r].fresh -> Digests]
    /\ IsInjective(req[r].fresh)
    /\ req[r].known \subseteq DOMAIN users
Restoring(r) ==
    /\ req[r].at \in {"idle", "write"}
    /\ req[r].user \in DOMAIN users /\ req[r].copy \in UserType

Body(r) ==
    /\ req[r].kind = "none" => req[r].at = "idle"
    /\ req[r].kind = "create" => Creating(r)
    /\ req[r].kind \in {"update", "partial"} => Updating(r)
    /\ req[r].kind = "import" => Importing(r)
    /\ req[r].kind = "row" => Restoring(r)

\* What a request knows by its locks, whoever else commits: a creation that found no
\* user of the email that there is none, one that found a user that she is not at the site.
Holds(r) ==
    /\ At(r, "create", "insert") => FindByEmail(req[r].email) = {}
    /\ At(r, "create", "assign") => posts[req[r].user][req[r].site] = 0

\* Nobody has the fast password at the sites that were looked at.
Unused(d, sites, but) == \A s \in sites : FindByFastPassword(d, s) \subseteq but

\* And what it knows while nobody has overtaken it.
Saw(r) ==
    /\ req[r].kind = "create" => Unused(req[r].digest, req[r].seen, {})
    /\ req[r].at = "save" =>
         /\ req[r].email # Nothing => FindByEmail(req[r].email) \subseteq {req[r].user}
         /\ req[r].digest # Nothing => Unused(req[r].digest, req[r].seen, {req[r].user})
    /\ req[r].kind = "import" =>
         /\ \A e \in DOMAIN req[r].fresh :
              FindByEmail(e) = {} /\ Unused(req[r].fresh[e], req[r].seen, {})
         /\ \A u \in req[r].known : posts[u][req[r].site] = 0
    /\ req[r].kind = "row" => req[r].copy = users[req[r].user]

Knows(r) == Body(r) /\ Holds(r) /\ (r \in Running \ overtaken => Saw(r))

\* A row is locked by one request.
Exclusive == \A r, t \in Requests : r # t => \A u \in DOMAIN users : ~ (HasLocked(r, u) /\ HasLocked(t, u))

AccountsInv ==
    /\ AccountsTyped
    /\ Exclusive
    /\ \A r \in Requests : Knows(r)
    /\ PeopleUnique
    /\ FastPasswordsUnique

(***************************************************************************)
(* What a transaction on users is to write when it commits.                *)
(***************************************************************************)
\* An email that is new to a user is nobody else's, and nobody is assigned twice.
EmailsApart(rows) ==
    \A u \in DOMAIN rows : (u \in DOMAIN users => rows[u].email # users[u].email) =>
      \A v \in DOMAIN rows \ {u} : rows[v].email # rows[u].email
PostsOnce(assigned) ==
    \A u \in DOMAIN assigned, s \in Sites :
      assigned[u][s] <= 1 \/ (u \in DOMAIN posts /\ assigned[u][s] = posts[u][s])

\* Whoever gets a fast password is in digests, and where it was looked for it is new.
Looked(r) == IF r \in overtaken THEN {} ELSE req[r].seen
DigestsApart(r, rows, assigned, digests) ==
    /\ digests \subseteq DOMAIN rows
    /\ \A u \in DOMAIN rows \ digests : u \in DOMAIN users /\ rows[u].digest = users[u].digest
    /\ \A u \in digests, v \in DOMAIN rows : \A s \in Looked(r) :
         u # v /\ assigned[u][s] > 0 /\ assigned[v][s] > 0 /\ rows[u].digest = rows[v].digest =>
           v \in DOMAIN users \ digests /\ posts[v][s] = 0

\* The locks of the others are respected.
Respects(r, rows, assigned) ==
    \A t \in Requests \ {r} :
      /\ At(t, "create", "insert") => \A u \in DOMAIN rows : rows[u].email # req[t].email
      /\ At(t, "create", "assign") => assigned[req[t].user][req[t].site] = 0

Written(rows, assigned) ==
    {u \in DOMAIN rows : u \notin DOMAIN users \/ rows[u] # users[u]}
        \cup {u \in DOMAIN assigned : u \notin DOMAIN posts \/ assigned[u] # posts[u]}

(***************************************************************************)
(* Catalogs.                                                               *)
(***************************************************************************)
EntryStages == {"idle", "insert", "save", "card"}
EntryRequest ==
    [at : EntryStages, id : Catalog!EntryIds \cup {Nothing}, row : Catalog!EntryType \cup {Nothing},
     recolours : BOOLEAN, card : Catalog!CardType \cup {Nothing}]

CatalogTyped ==
    /\ \E n \in 0 .. MaxEntries : DOMAIN entries = 1 .. n
    /\ entries \in [DOMAIN entries -> Catalog!EntryType]
    /\ worn \in Seq(Catalog!CardType)
    /\ now \in 0 .. MaxTime
    /\ catalogReq \in [Requests -> EntryRequest]

\* A card is of a type, whatever has become of it.
IsOfType(card, table) == card.type \in DOMAIN table /\ table[card.type].kind = "type"

\* What a request carries fits the rows that there are.
CarriesEntry(r) ==
    LET q == catalogReq[r] IN
    /\ q.at = "insert" => q.row \in Catalog!EntryType
    /\ q.at = "save" =>
         q.row \in Catalog!EntryType /\ q.id \in DOMAIN entries /\ q.row.kind = entries[q.id].kind
    /\ q.at = "card" =>
         /\ q.card \in Catalog!CardType /\ IsOfType(q.card, entries)
         /\ {q.card.preclassifier, q.card.priority} \subseteq DOMAIN entries

\* No other priority in use has the code.
CodeIsFree(row, but) ==
    row.kind = "priority" =>
        \A j \in DOMAIN entries : entries[j].kind = "priority" /\ entries[j].active /\ j # but =>
            entries[j].value # row.value

\* What a request has read is so, unless another has written since.
KnowsEntry(r) ==
    LET q == catalogReq[r] IN
    r \notin overtaken =>
        /\ q.at = "insert" => CodeIsFree(q.row, Nothing)
        /\ q.at = "save" =>
             /\ CodeIsFree(q.row, q.id)
             /\ q.recolours <=> entries[q.id].kind = "type" /\ q.row.value # entries[q.id].value
        /\ q.at = "card" =>
             /\ \A i \in {q.card.type, q.card.preclassifier, q.card.priority} : entries[i].active
             /\ q.card.colour = entries[q.card.type].value

\* Whatever was written since the snapshot was read has a later stamp, or late says that not.
SnapshotKnown ==
    snapshot # Nothing =>
        /\ snapshot.revision \in Nat
        /\ ~late => Catalog!Content = snapshot.content \/ snapshot.revision < Catalog!Revision

CatalogInv ==
    /\ CatalogTyped
    /\ \A c \in DOMAIN worn : IsOfType(worn[c], entries)
    /\ \A r \in Requests : CarriesEntry(r) /\ KnowsEntry(r)
    /\ SnapshotKnown
    /\ CatalogHolds

(***************************************************************************)
(* Positions.                                                              *)
(***************************************************************************)
JobStages == {"idle", "insert", "save", "unplace", "place", "other", "order"}
CopyType == [site : Sites, order : Nat]
JobRequest ==
    [at : JobStages, id : Jobs!PositionIds \cup {Nothing}, copy : CopyType \cup {Nothing},
     other : Jobs!PositionIds \cup {Nothing}, otherCopy : CopyType \cup {Nothing},
     whole : BOOLEAN, places : BOOLEAN, users : Jobs!Named, began : BOOLEAN]

JobsTyped ==
    /\ \E n \in 0 .. MaxPositions : DOMAIN positions = 1 .. n
    /\ positions \in [DOMAIN positions -> Jobs!PositionType]
    /\ placed \in [DOMAIN positions -> [Operators -> Nat]]
    /\ asked \in [DOMAIN positions -> Jobs!Named]
    /\ jobReq \in [Requests -> JobRequest]
    /\ unsound \subseteq Jobs!PositionIds

\* What a request carries fits the rows that there are.
CarriesJob(r) ==
    LET q == jobReq[r] IN
    /\ q.at = "insert" => q.copy \in CopyType /\ q.id = Nothing /\ q.other = Nothing
    /\ q.at = "save" => q.copy \in Jobs!PositionType
    /\ q.at \in {"save", "unplace", "place"} => q.id \in DOMAIN positions /\ q.other = Nothing
    /\ q.at \in {"unplace", "place"} => q.began
    /\ q.at = "other" => q.other \in DOMAIN positions /\ q.otherCopy \in Jobs!PositionType
    /\ q.at \in {"other", "order"} => q.id \in DOMAIN positions /\ q.copy \in CopyType
    /\ q.at = "order" /\ q.began => q.other \in DOMAIN positions

HasPlace(p, place) == positions[p].site = place.site /\ positions[p].order = place.order

\* What a request has read is so, unless another has written since: a new position's order
\* is free; the other position of an exchange has the new order until it is saved; after
\* that, and when it had none, nobody has it but a position marked unsound, if the order
\* is whole.
KnowsJob(r) ==
    LET q == jobReq[r] IN
    r \notin overtaken =>
        /\ q.at = "insert" => \A p \in DOMAIN positions : ~HasPlace(p, q.copy)
        /\ q.at = "save" => q.copy.order = positions[q.id].order
        /\ q.at = "place" => placed[q.id] = Jobs!Nobody
        /\ q.at \in {"other", "order"} => positions[q.id].site = q.copy.site
        /\ q.at = "other" => HasPlace(q.other, q.copy) /\ HasPlace(q.id, q.otherCopy)
        /\ q.at = "order" /\ q.whole =>
             \A p \in DOMAIN positions \ {q.id} : HasPlace(p, q.copy) => {p, q.id, q.other} \cap unsound # {}

\* Whoever runs beside an exchange that is between its saves has been overtaken.
ExchangesAreAlone ==
    \A r \in Jobs!Exchanging : Jobs!Running \ {r} \subseteq overtaken

Clash(p, q) == p # q /\ HasPlace(q, positions[p])
OrdersKept ==
    \A p, q \in DOMAIN positions \ unsound :
        Clash(p, q) => \E r \in Jobs!Exchanging : {p, q} = {jobReq[r].id, jobReq[r].other}
PlacementsKept ==
    \A p \in DOMAIN positions \ unsound :
        (\A r \in Jobs!Placing : jobReq[r].id # p) => placed[p] = asked[p]

JobsInv ==
    /\ JobsTyped
    /\ \A r \in Requests : CarriesJob(r) /\ KnowsJob(r)
    /\ ExchangesAreAlone
    /\ OrdersKept
    /\ PlacementsKept

(***************************************************************************)
(* Walks in the tree, down and up, after some steps.                       *)
(***************************************************************************)
\* What the recursive query has after n steps.
ReachedIn(rows, id, n, before) ==
    IF n = 0 THEN {id} \cap DOMAIN rows
    ELSE before \cup {c \in DOMAIN rows : rows[c].superior \in before}

IsReach(rows, id, last, f) == f = [n \in 0 .. last |-> ReachedIn(rows, id, n, f[n - 1])]

\* A set of levels with all that is below each, and one that no superior leads out of.
TakesAlong(rows, D) == D \subseteq DOMAIN rows /\ \A x \in DOMAIN rows : rows[x].superior \in D => x \in D
LeadsRound(rows, S) == S \subseteq DOMAIN rows /\ \A x \in S : rows[x].superior \in S

\* A chain after n steps up.
ClimbedIn(rows, id, n, before) ==
    IF n = 0 THEN <<id>>
    ELSE IF rows[before[Len(before)]].superior \in DOMAIN rows
         THEN Append(before, rows[before[Len(before)]].superior)
         ELSE before
IsClimb(rows, id, last, f) == f = [n \in 0 .. last |-> ClimbedIn(rows, id, n, f[n - 1])]

Climbing(rows, chain, last) == \A i \in 1 .. last - 1 : chain[i + 1] = rows[chain[i]].superior

(***************************************************************************)
(* Levels hang on levels, and a circle has its excuse.                     *)
(***************************************************************************)
Bad == torn \cup misplaced

TreeStages == {"idle", "check", "insert", "commit", "children", "save", "reassign", "depths", "query",
               "cards", "circling", "copy"}
TreeKinds == {"none", "create", "update", "move", "clone", "card"}
ChildType == [id : Nat, row : Tree!LevelType]
CopyingType == [id : Nat, row : Tree!LevelType, to : Nat, depth : Nat]
CarriedType == Tree!LevelType \cup Tree!CardType \cup {Nothing}
ListedType == Seq(ChildType) \cup Seq(CopyingType)
CopiesType == {<<>>} \cup UNION {[D -> Tree!LevelType] : D \in SUBSET Nat}
ClonesType == {<<>>} \cup UNION {[D -> Nat] : D \in SUBSET Nat}
TreeRequest ==
    [at : TreeStages, kind : TreeKinds, id : Nat, to : Nat, site : Plants \cup {Nothing}, status : {"A", "I"},
     machine : MachineIds \cup {Nothing}, copy : CarriedType, old : Nat, children : ListedType,
     todo : SUBSET Nat, rows : CopiesType, clones : ClonesType, saved : Nat, began : BOOLEAN]

TreeTyped ==
    /\ lastId \in 0 .. MaxLevels
    /\ DOMAIN levels \subseteq 1 .. lastId
    /\ levels \in [DOMAIN levels -> Tree!LevelType]
    /\ \A l \in DOMAIN levels : levels[l].superior \in DOMAIN levels \cup {0}
    /\ treeReq \in [Requests -> TreeRequest]

\* A row that may be written: its superior is there.
Hangs(row) == row \in Tree!LevelType /\ row.superior \in DOMAIN levels \cup {0}

\* What a request carries fits the levels that there are.
CarriesLevels(r) ==
    LET q == treeReq[r] IN
    /\ q.kind = "create" => q.site \in Plants /\ q.to \in DOMAIN levels \cup {0}
    /\ q.kind = "create" /\ q.at = "insert" => Hangs(q.copy)
    /\ q.kind \in {"update", "move", "clone", "card"} => q.id \in DOMAIN levels
    /\ q.kind = "update" /\ q.at = "commit" => Hangs(q.copy) /\ q.todo \subseteq DOMAIN levels
    /\ q.kind = "move" => q.to \in DOMAIN levels \cup {0} /\ q.old \in DOMAIN levels \cup {0}
    /\ q.kind = "move" /\ q.at # "check" => Hangs(q.copy)
    /\ q.kind = "move" /\ q.at \in {"save", "reassign", "depths"} =>
         /\ q.children \in Seq(ChildType)
         /\ \A k \in DOMAIN q.children : q.children[k].id \in DOMAIN levels /\ Hangs(q.children[k].row)
         /\ q.at # "save" => q.saved < Len(q.children)
    /\ q.kind = "move" /\ q.at \in {"check", "children", "save"} => q.saved = 0
    /\ q.kind = "clone" /\ q.at = "check" => q.rows = <<>>
    /\ q.kind = "clone" /\ q.at = "copy" =>
         /\ q.children \in Seq(CopyingType)
         /\ \A k \in DOMAIN q.children :
              /\ q.children[k].id \in DOMAIN levels
              /\ q.children[k].to \in DOMAIN levels \cup {0} \cup DOMAIN q.rows
         /\ \A i \in DOMAIN q.rows :
              q.rows[i].superior \in DOMAIN levels \cup {0} \cup {j \in DOMAIN q.rows : j < i}
    /\ q.kind = "card" /\ q.at = "insert" => q.copy \in Tree!CardType /\ q.copy.node \in DOMAIN levels

\* What a request has read is so, unless another has written levels since: whose superior a
\* level is; and in a move that no child leads back to the moved level's old superior, so
\* that its children may be put there, and below it again, without a circle.
KnowsLevels(r) ==
    LET q == treeReq[r] IN
    r \notin overtaken =>
        /\ q.kind = "update" /\ q.at = "commit" => levels[q.id].superior = q.copy.superior
        /\ q.kind = "move" /\ q.at = "children" => levels[q.id].superior = q.old
        /\ q.kind = "move" /\ q.at = "save" =>
             /\ q.copy.superior = q.to
             /\ q.old \notin Tree!FindAllChildLevels(levels, q.id)
             /\ \A k \in DOMAIN q.children :
                  /\ q.children[k].id \in Tree!ChildrenOf(levels, q.id) \ {q.id}
                  /\ q.children[k].row.superior = q.id
        /\ q.kind = "move" /\ q.at \in {"reassign", "depths"} =>
             \E D \in SUBSET DOMAIN levels :
               /\ TakesAlong(levels, D) /\ q.id \in D /\ q.old \notin D
               /\ \A k \in DOMAIN q.children :
                    q.children[k].id \in D \ {q.id} /\ q.children[k].row.superior = q.id
               /\ q.id \in Bad \/ (q.to \notin D /\ levels[q.id].superior = q.to)

\* What a request about levels begins with.
Called(q) ==
    /\ q.at = "check"
    /\ q.kind = "create" => q.site \in Plants /\ q.to \in DOMAIN levels \cup {0}
    /\ q.kind \in {"update", "move", "clone", "card"} => q.id \in DOMAIN levels
    /\ q.kind = "move" => q.to \in DOMAIN levels \cup {0} /\ q.old = 0 /\ q.saved = 0
    /\ q.kind = "clone" => q.rows = <<>> /\ q.clones = <<>>

\* A request has read, and goes on with q.
WentOn(r, q) ==
    /\ treeReq' = [treeReq EXCEPT ![r] = q] /\ treeReq'[r] = q
    /\ levels' = levels /\ cards' = cards /\ lastId' = lastId
    /\ torn' = torn /\ misplaced' = misplaced /\ overtaken' = overtaken

\* The ids of the copies that a clone has made are nobody else's.
CopyIds(r) == IF Tree!At(r, "clone", "copy") THEN DOMAIN treeReq[r].rows ELSE {}
CopiesApart ==
    /\ \A r \in Requests : CopyIds(r) \subseteq (1 .. lastId) \ DOMAIN levels
    /\ \A r, t \in Requests : r # t => CopyIds(r) \cap CopyIds(t) = {}

NoCleanCircle == \A S \in SUBSET DOMAIN levels : S # {} /\ LeadsRound(levels, S) => S \cap Bad # {}

TreeInv ==
    /\ TreeTyped
    /\ \A r \in Requests : CarriesLevels(r) /\ KnowsLevels(r)
    /\ CopiesApart
    /\ NoCleanCircle

(***************************************************************************)
(* What is below one another is of a site, in use and has its own machine. *)
(***************************************************************************)
\* A row's superior is of its site, and a machine id that is a level's id is its own.
Beside(rows, row) == row.superior \in DOMAIN rows => rows[row.superior].site = row.site
OwnMachine(id, row) == row.machine \in Tree!Ids => row.machine = id
Suits(id, row) == row.site = levels[id].site /\ Beside(levels, row) /\ OwnMachine(id, row)

SameColumns(row, stored) ==
    row.status = stored.status /\ row.deleted = stored.deleted /\ row.machine = stored.machine

\* No other level of the site has the machine id of a row.
IsFreeFor(row, but) ==
    row.machine # Nothing =>
        \A l \in DOMAIN levels \ {but} : levels[l].site = row.site => levels[l].machine # row.machine

SitesHang == \A l \in DOMAIN levels : Beside(levels, levels[l])
MachinesOwned == \A l \in DOMAIN levels : OwnMachine(l, levels[l])
ActiveHang ==
    \A l \in DOMAIN levels : Tree!Unsound(levels, l) => {l, levels[l].superior} \cap Bad # {}

\* What a request carries suits the levels that there are, whose sites do not change.
CarriesPlaces(r) ==
    LET q == treeReq[r] IN
    /\ q.kind \in {"create", "update"} => q.machine \notin Tree!Ids
    /\ q.kind = "create" /\ q.at = "insert" => Beside(levels, q.copy) /\ q.copy.machine \notin Tree!Ids
    /\ q.kind = "update" /\ q.at = "commit" => Suits(q.id, q.copy)
    /\ q.kind = "move" /\ q.at # "check" =>
         /\ Suits(q.id, q.copy)
         /\ \A s \in {q.to, q.old} \ {0} : levels[s].site = q.copy.site
    /\ q.kind = "move" /\ q.at \in {"save", "reassign", "depths"} =>
         \A k \in DOMAIN q.children : Suits(q.children[k].id, q.children[k].row)
    /\ q.kind = "clone" /\ q.at = "copy" =>
         /\ \A i \in DOMAIN q.rows :
              q.rows[i].machine \in {i, Nothing} /\ Beside(levels, q.rows[i]) /\ Beside(q.rows, q.rows[i])
         /\ \A k \in DOMAIN q.children :
              LET p == q.children[k] IN
              /\ p.row.site = levels[p.id].site
              /\ p.to \in DOMAIN levels => levels[p.to].site = p.row.site
              /\ p.to \in DOMAIN q.rows => q.rows[p.to].site = p.row.site

\* What a clone is to copy is what it was read to be, and hangs on the copy of its superior.
PendingKnown(q, p) ==
    /\ p.row = levels[p.id]
    /\ IF p.id = q.id THEN p.to = levels[q.id].superior
       ELSE /\ levels[p.id].superior \in DOMAIN q.clones
            /\ p.to = q.clones[levels[p.id].superior]
            /\ p.depth = q.rows[p.to].level

\* A copy is one of its original, on the copy of its superior.
CopyKnown(q, original) ==
    LET copy == q.rows[q.clones[original]] IN
    /\ q.clones[original] \in DOMAIN q.rows
    /\ IF original = q.id THEN copy.superior = levels[original].superior
       ELSE /\ levels[original].superior \in DOMAIN q.clones
            /\ copy.superior = q.clones[levels[original].superior]
            /\ copy.level = q.rows[copy.superior].level + 1
            /\ copy.status = levels[original].status

BelowOf(id) == Tree!FindAllChildLevels(levels, id)

\* In a circle a clone always has a level to copy that leads back to the first.
CirclesOn(q) == \E k \in DOMAIN q.children : q.id \in BelowOf(q.children[k].id)

\* Without one, what is below the level has been copied or is below one that is to be
\* copied, and nothing is copied twice.
CopiesOnce(q) ==
    /\ DOMAIN q.clones \subseteq BelowOf(q.id)
    /\ \A x \in BelowOf(q.id) :
         x \in DOMAIN q.clones \/ \E k \in DOMAIN q.children : x \in BelowOf(q.children[k].id)
    /\ \A k \in DOMAIN q.children :
         /\ BelowOf(q.children[k].id) \subseteq BelowOf(q.id) \ DOMAIN q.clones
         /\ PendingKnown(q, q.children[k])
    /\ \A k, j \in DOMAIN q.children : k # j => BelowOf(q.children[k].id) \cap BelowOf(q.children[j].id) = {}
    /\ \A o \in DOMAIN q.clones : CopyKnown(q, o)
    /\ \A o, t \in DOMAIN q.clones : o # t => q.clones[o] # q.clones[t]

CopiesKnown(q) == IF Tree!InCircle(levels, q.id) THEN CirclesOn(q) ELSE CopiesOnce(q)

\* What a request has read is so, unless another has written levels since: that a machine
\* id is free, that a deactivation has all below in its list, the columns that a move
\* writes back, and what a clone copies.
KnowsRows(r) ==
    LET q == treeReq[r] IN
    /\ q.kind = "clone" /\ q.at = "check" => q.clones = <<>>
    /\ r \notin overtaken =>
        /\ q.kind = "create" /\ q.at = "insert" => IsFreeFor(q.copy, 0)
        /\ q.kind = "update" /\ q.at = "commit" =>
             /\ IsFreeFor(q.copy, q.id)
             /\ \/ TakesAlong(levels, {q.id} \cup q.todo)
                \/ q.todo = {} /\ (Tree!IsActive(levels[q.id]) => Tree!IsActive(q.copy))
        /\ q.kind = "move" /\ q.at \in {"children", "save"} => SameColumns(q.copy, levels[q.id])
        /\ q.kind = "move" /\ q.at \in {"save", "reassign", "depths"} =>
             \A k \in DOMAIN q.children : SameColumns(q.children[k].row, levels[q.children[k].id])
        /\ q.kind = "clone" /\ q.at = "copy" => CopiesKnown(q)

PlantInv ==
    /\ SitesHang /\ MachinesOwned /\ ActiveHang /\ Tree!MachineIdsUnique
    /\ \A r \in Requests : CarriesPlaces(r) /\ KnowsRows(r)

(***************************************************************************)
(* What a write of levels keeps, and what a clone has after one more level. *)
(***************************************************************************)
\* Levels are written, with the sites they had and machine ids that are theirs, and what
\* is below a level that falls out of use is written too.
Keeps(i, row) == i \in DOMAIN levels /\ row.machine = levels[i].machine

\* What a clone carries after one more level: its copy, and its children to be copied.
Copied(q0, q, n, new) ==
    LET p == q0.children[1]
        copy == q.rows[n]
    IN
    /\ q.id = q0.id /\ q.children = new \o Tail(q0.children)
    /\ DOMAIN q.rows = DOMAIN q0.rows \cup {n} /\ \A i \in DOMAIN q0.rows : q.rows[i] = q0.rows[i]
    /\ DOMAIN q.clones = DOMAIN q0.clones \cup {p.id} /\ q.clones[p.id] = n
    /\ \A o \in DOMAIN q0.clones \ {p.id} : q.clones[o] = q0.clones[o]
    /\ copy.superior = p.to /\ copy.status = p.row.status /\ (p.to # 0 => copy.level = p.depth + 1)
    /\ \A k \in DOMAIN new :
         /\ new[k].id \in Tree!ChildrenOf(levels, p.id)
         /\ new[k].row = levels[new[k].id] /\ new[k].to = n /\ new[k].depth = copy.level
    /\ \A k, j \in DOMAIN new : k # j => new[k].id # new[j].id
    /\ \A c \in Tree!ChildrenOf(levels, p.id) : \E k \in DOMAIN new : new[k].id = c

(***************************************************************************)
(* The tree that clients load from the roots.                              *)
(***************************************************************************)
\* What the tree of a site has when it is loaded to a depth.
LoadedIn(site, n, before) ==
    IF n = 1 THEN Tree!RootLevels(site)
    ELSE before \cup {c \in DOMAIN levels : Tree!IsActive(levels[c]) /\ levels[c].superior \in before}

IsLoad(site, last, f) == f = [n \in 1 .. last |-> LoadedIn(site, n, f[n - 1])]

(***************************************************************************)
(* Cards have the place of their level.                                    *)
(***************************************************************************)
\* A set that has, with a level, the one above it.
Upward(rows, E) == \A x \in E \cap DOMAIN rows : rows[x].superior \in DOMAIN rows => rows[x].superior \in E

\* The place of a level, as its cards have it.
PlacesIn(rows, id) == {Tree!OnCreation(rows, id), Tree!OnMove(rows, id)}

\* A move that has written, the levels it writes, and whose cards it is still to refresh:
\* those of levels that it has listed, and of those below the moved level, which it lists last.
Moving(r) ==
    treeReq[r].kind = "move" /\ treeReq[r].at \in {"reassign", "depths", "query", "cards", "circling"}
OwnLevels(q) == {q.id} \cup {q.children[k].id : k \in DOMAIN q.children}
Refreshes(r, n) ==
    LET q == treeReq[r] IN
    /\ Moving(r) /\ Tree!InChain(levels, n) \cap OwnLevels(q) # {}
    /\ n \in q.todo \/ (q.id \in Tree!InChain(levels, n) /\ q.at \notin {"cards", "circling"})

\* A card has the place of its level, unless a move is still to refresh it.
CardsInPlace ==
    \A c \in cards :
        /\ c.node \in DOMAIN levels
        /\ \/ c \in PlacesIn(levels, c.node) \/ Tree!Excused(c.node)
           \/ \E r \in Requests : Refreshes(r, c.node)

\* The list of a move has all that is below the children, of one site.
ListsAllBelow(q) ==
    /\ \A k \in DOMAIN q.children : q.children[k].id \in q.todo
    /\ \A l \in DOMAIN levels \ OwnLevels(q) : levels[l].superior \in q.todo => l \in q.todo
    /\ \A x \in q.todo : x \in DOMAIN levels /\ levels[x].site = q.copy.site

\* What a request has read is so, unless another has written levels since: the place of a
\* card, the depth of a level, the children of the moved level and what is below them, and
\* the map that cards are refreshed from.
KnowsCards(r) ==
    LET q == treeReq[r] IN
    /\ Moving(r) => q.began
    /\ q.kind = "card" /\ q.at = "insert" => q.copy.node = q.id
    /\ r \notin overtaken =>
        /\ q.kind = "card" /\ q.at = "insert" => q.copy = Tree!OnCreation(levels, q.id)
        /\ q.kind = "update" /\ q.at = "commit" => q.copy.level = levels[q.id].level
        /\ q.kind = "move" /\ q.at \in {"save", "reassign", "depths", "query"} => ListsAllBelow(q)
        /\ q.kind = "move" /\ q.at \in {"save", "reassign"} => Tree!ChildrenOf(levels, q.id) \subseteq OwnLevels(q)
        /\ q.kind = "move" /\ q.at = "cards" =>
             q.rows = Tree!SiteMap(q.copy.site) /\ q.todo \subseteq DOMAIN q.rows

CardsInv == CardsInPlace /\ \A r \in Requests : KnowsCards(r)

(***************************************************************************)
(* A site is set up.                                                       *)
(***************************************************************************)
\* What a behaviour is about is as above, and the rest stays as it was at first.
SetupInv ==
    /\ IF subject = "levels" THEN TreeInv /\ PlantInv /\ CardsInv ELSE NoLevels
    /\ IF subject = "people" THEN AccountsInv ELSE PeopleUnique /\ FastPasswordsUnique
    /\ IF subject = "catalog" THEN CatalogInv ELSE CatalogHolds /\ RevisionTellsChange
    /\ IF subject = "jobs" THEN JobsInv ELSE PositionsKept

SetupHolds ==
    /\ TreeIsForest /\ ActiveIsReachable /\ ClonesAreSound /\ CardsFollowTree
    /\ PeopleUnique /\ FastPasswordsUnique
    /\ CatalogHolds /\ RevisionTellsChange
    /\ PositionsKept
==============================================================================
