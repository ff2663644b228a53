------------------------------ MODULE Catalogs ------------------------------
(***************************************************************************)
(* The catalogs of a site - card types, the preclassifiers of each, and    *)
(* priorities (cardTypes.service.ts, preclassifier.service.ts,             *)
(* priority.service.ts) - with what depends on them: the cards, which copy *)
(* the colour of their type (card.service.ts), and the snapshot that a     *)
(* device keeps with its revision (catalog-snapshot.reader.ts).            *)
(*                                                                         *)
(* An operation reads, and writes the row some time after; only the update *)
(* of a card type has a transaction, and nothing is locked.  Rows are      *)
(* stamped with the second in which the handler ran, not with that of the  *)
(* commit.  The levels, the fourth part of a snapshot, are those of        *)
(* LevelTree; pushes that announce a change are left out.                  *)
(***************************************************************************)
EXTENDS Integers, FiniteSets, Sequences, FiniteSetsExt

CONSTANTS
    Requests,       \* handlers that may run at the same time
    Values,         \* what an entry is: the colour of a type, a code, a description
    Nothing,        \* no entry, no snapshot
    FirstEntries,   \* the entries there are at first: id -> row
    MaxEntries,     \* bound on the ids of entries
    MaxCards,       \* bound on the cards
    MaxCalls,       \* bound on the requests
    MaxTime         \* bound on the seconds that pass

EntryIds == 1 .. MaxEntries
Kinds == {"type", "preclassifier", "priority"}

\* stamp is the last of created_at, updated_at and deleted_at, which is set with status.
EntryType ==
    [kind : Kinds, of : EntryIds \cup {Nothing}, value : Values, active : BOOLEAN, stamp : 0 .. MaxTime]

\* At first no two priorities in use have a code.
EntriesAssumption ==
    /\ MaxEntries \in Nat /\ MaxCards \in Nat /\ MaxCalls \in Nat /\ MaxTime \in Nat
    /\ Nothing \notin EntryIds
    /\ FirstEntries \in Seq(EntryType) /\ Len(FirstEntries) <= MaxEntries
    /\ \A i, j \in DOMAIN FirstEntries :
         /\ FirstEntries[i].kind = "priority" /\ FirstEntries[i].active
         /\ FirstEntries[j].kind = "priority" /\ FirstEntries[j].active
         /\ FirstEntries[i].value = FirstEntries[j].value
         => i = j

VARIABLES
    entries,    \* tables card_types, preclassifiers and priorities: id -> row
    worn,       \* table cards: the entries of each and the colour it has copied
    snapshot,   \* what a device has read last
    now,        \* the second
    req,        \* the requests
    calls,      \* how many there have been
    overtaken,  \* history: the requests since whose reads another has written
    crossed,    \* history: the entries that such a request wrote, and the cards it inserted
    late        \* history: a change was committed with a stamp no later than the snapshot's revision

vars == <<entries, worn, snapshot, now, req, calls, overtaken, crossed, late>>

-----------------------------------------------------------------------------
(* Queries.                                                                *)

Active(kind) == {i \in DOMAIN entries : entries[i].kind = kind /\ entries[i].active}

\* What the select lists of CatalogSnapshotReader give: a preclassifier only below a type.
Listed(i) ==
    /\ entries[i].active
    /\ entries[i].kind = "preclassifier" => entries[i].of \in Active("type")
Content ==
    {[id |-> i, kind |-> entries[i].kind, of |-> entries[i].of, value |-> entries[i].value] :
        i \in {j \in DOMAIN entries : Listed(j)}}

\* Bug: the rows that are not listed are left out here too.
Revision_Listed == Max({0} \cup {entries[i].stamp : i \in {j \in DOMAIN entries : entries[j].active}})

\* The last stamp of all rows, of those that are not active too.
Revision == Max({0} \cup {entries[i].stamp : i \in DOMAIN entries})

\* The site's other priorities of a code.
SameCode(code, but) == {i \in Active("priority") : entries[i].value = code} \ {but}

-----------------------------------------------------------------------------
(* Requests.                                                               *)

\* Where a request is, the entry it is about, the row it will write, whether it
\* writes the cards of a type, and the card it will insert.
Idle == [at |-> "idle", id |-> Nothing, row |-> Nothing, recolours |-> FALSE, card |-> Nothing]

Running == {r \in Requests : req[r].at # "idle"}

Call(r, q) ==
    /\ calls' = calls + 1
    /\ req' = [req EXCEPT ![r] = q]
    /\ overtaken' = overtaken \ {r}
    /\ UNCHANGED <<entries, worn, snapshot, now, crossed, late>>

\* A table with one more row.
Added(table, id, row) == [i \in DOMAIN table \cup {id} |-> IF i = id THEN row ELSE table[i]]

\* Rows are there, and others are overtaken.
Written(r, rows, cards, marks) ==
    /\ entries' = rows
    /\ worn' = cards
    /\ req' = [req EXCEPT ![r] = Idle]
    /\ overtaken' = (overtaken \cup Running) \ {r}
    /\ crossed' = IF r \in overtaken THEN crossed \cup marks ELSE crossed
    /\ UNCHANGED <<snapshot, now, calls>>

\* applyCatalogLifecycle, and createdAt of a new row.
Stamped(kind, of, value, active) ==
    [kind |-> kind, of |-> of, value |-> value, active |-> active, stamp |-> now]

\* create: a preclassifier of an active type, a priority of a new code.
Create(r, kind, of, value) ==
    /\ IF kind = "preclassifier" THEN of \in Active("type") ELSE of = Nothing
    /\ kind = "priority" => SameCode(value, Nothing) = {}
    /\ Call(r, [Idle EXCEPT !.at = "insert", !.row = Stamped(kind, of, value, TRUE)])

InsertEntry(r) ==
    /\ req[r].at = "insert"
    /\ Cardinality(DOMAIN entries) < MaxEntries
    /\ LET id == Cardinality(DOMAIN entries) + 1
       IN  Written(r, Added(entries, id, req[r].row), worn, {<<"entry", id>>})
    /\ late' = (late \/ (snapshot # Nothing /\ req[r].row.stamp <= snapshot.revision))

\* Bug: the colour is compared when the row that was read has it already.
Recolours_Never(i, value) == FALSE
Recolours(i, value) == entries[i].kind = "type" /\ value # entries[i].value

\* update: the row is read, and a priority's new code looked for.
Update(r, i, value, active) ==
    /\ entries[i].kind = "priority" => SameCode(value, i) = {}
    /\ Call(r, [Idle EXCEPT !.at = "save", !.id = i,
                            !.row = Stamped(entries[i].kind, entries[i].of, value, active),
                            !.recolours = Recolours(i, value)])

\* save, and if the colour was another the cards of the type, in one transaction.
SaveEntry(r) ==
    /\ req[r].at = "save"
    /\ LET q == req[r]
           cards == [c \in DOMAIN worn |->
                        IF q.recolours /\ worn[c].type = q.id THEN [worn[c] EXCEPT !.colour = q.row.value]
                        ELSE worn[c]]
       IN  Written(r, [entries EXCEPT ![q.id] = q.row], cards, {<<"entry", q.id>>})
    /\ late' = (late \/ (snapshot # Nothing /\ req[r].row.stamp <= snapshot.revision))

\* A card is validated against the catalog before the transaction that inserts it.
CreateCard(r, type, preclassifier, priority) ==
    /\ type \in Active("type") /\ priority \in Active("priority")
    /\ preclassifier \in Active("preclassifier") /\ entries[preclassifier].of = type
    /\ Call(r, [Idle EXCEPT !.at = "card",
                            !.card = [type |-> type, preclassifier |-> preclassifier, priority |-> priority,
                                      colour |-> entries[type].value, fits |-> TRUE]])

\* fits is history: the card's entries were active when it was inserted.
InsertCard(r) ==
    /\ req[r].at = "card"
    /\ Len(worn) < MaxCards
    /\ LET card == req[r].card
           active == {card.type, card.preclassifier, card.priority} \subseteq {i \in DOMAIN entries : entries[i].active}
       IN  Written(r, entries, Append(worn, [card EXCEPT !.fits = active]), {<<"card", Len(worn) + 1>>})
    /\ UNCHANGED late

\* A statement fails.
Fail(r) ==
    /\ r \in Running
    /\ req' = [req EXCEPT ![r] = Idle]
    /\ UNCHANGED <<entries, worn, snapshot, now, calls, overtaken, crossed, late>>

\* One transaction reads all parts of a snapshot, and its revision.
ReadSnapshot ==
    /\ snapshot' = [revision |-> Revision, content |-> Content]
    /\ late' = FALSE
    /\ UNCHANGED <<entries, worn, now, req, calls, overtaken, crossed>>

Tick ==
    /\ now < MaxTime
    /\ now' = now + 1
    /\ UNCHANGED <<entries, worn, snapshot, req, calls, overtaken, crossed, late>>

-----------------------------------------------------------------------------
Init ==
    /\ entries = FirstEntries
    /\ worn = <<>>
    /\ snapshot = Nothing
    /\ now = 0
    /\ req = [r \in Requests |-> Idle]
    /\ calls = 0
    /\ overtaken = {} /\ crossed = {} /\ late = FALSE

Calls(r) ==
    /\ r \notin Running
    /\ calls < MaxCalls
    /\ \/ \E kind \in Kinds, of \in DOMAIN entries \cup {Nothing}, v \in Values : Create(r, kind, of, v)
       \/ \E i \in DOMAIN entries, v \in Values, active \in BOOLEAN : Update(r, i, v, active)
       \/ \E t, p, y \in DOMAIN entries : CreateCard(r, t, p, y)

Next ==
    \/ \E r \in Requests : Calls(r) \/ InsertEntry(r) \/ SaveEntry(r) \/ InsertCard(r) \/ Fail(r)
    \/ ReadSnapshot
    \/ Tick

Spec == Init /\ [][Next]_vars

-----------------------------------------------------------------------------
CardType ==
    [type : EntryIds, preclassifier : EntryIds, priority : EntryIds, colour : Values, fits : BOOLEAN]

TypeOK ==
    /\ DOMAIN entries \subseteq EntryIds /\ entries \in [DOMAIN entries -> EntryType]
    /\ worn \in Seq(CardType) /\ Len(worn) <= MaxCards
    /\ now \in 0 .. MaxTime /\ calls \in 0 .. MaxCalls
    /\ overtaken \subseteq Requests /\ late \in BOOLEAN

\* A card has the colour of its type and was given entries that were in use, and a code
\* is of one priority: the exceptions were written by a request that another had
\* overtaken between what it read and what it wrote.
CatalogHolds ==
    /\ \A c \in DOMAIN worn : <<"card", c>> \notin crossed =>
         /\ worn[c].fits
         /\ <<"entry", worn[c].type>> \notin crossed => worn[c].colour = entries[worn[c].type].value
    /\ \A i \in Active("priority") : <<"entry", i>> \notin crossed =>
         \A j \in SameCode(entries[i].value, i) : <<"entry", j>> \in crossed

\* The revision tells whether a snapshot is still true: while it is the same so is
\* everything a device would read again, unless a change has come with a stamp no later
\* than it - written in the same second, or handled before and committed after.
RevisionTellsChange ==
    snapshot # Nothing /\ ~late /\ Revision = snapshot.revision => Content = snapshot.content
=============================================================================
