----------------------------- MODULE CardLedger -----------------------------
(***************************************************************************)
(* What the operations on a stored card promise: each one changes the      *)
(* card, leaves its audit note and stores its evidences in one step, from  *)
(* the card as it then is.  CardLifecycle, which does it statement by      *)
(* statement, implements this.                                             *)
(***************************************************************************)
CONSTANTS
    Requests,
    Cards,
    Users,
    Priorities,
    Wildcard,    \* the priority XX, whose cards have the due date they are given
    Days,        \* the due dates that are given
    Evidences,
    None         \* an empty column

ASSUME LedgerAssumption ==
    /\ Wildcard \in Priorities
    /\ None \notin Requests \cup Users \cup Priorities \cup Days
    /\ Days \cap Priorities = {}

VARIABLES
    card,       \* table cards
    notes,      \* table card_notes
    evidences,  \* table evidences, as pairs of the request and what it brought
    applied     \* history: the requests that are in the tables

ledger == <<card, notes, evidences, applied>>

\* A solution is the request it came with: its user, actor, date and comments.
\* A due date is the priority whose days it was computed from, or a given day.
CardRow == [status : {"A", "P", "R", "D"},
            provisional : Requests \cup {None},
            definitive : Requests \cup {None},
            discarded : Requests \cup {None},
            priority : Priorities,
            due : Priorities \cup Days,
            mechanic : Users \cup {None}]

\* As createOptimized leaves it.
NewCards == {c \in CardRow :
    /\ c.status = "A"
    /\ c.provisional = None /\ c.definitive = None /\ c.discarded = None
    /\ IF c.priority = Wildcard THEN c.due \in Days ELSE c.due = c.priority}

SolutionKinds == {"provisional", "definitive"}
AuditedKinds == SolutionKinds \cup {"priority", "mechanic", "due date"}

Operations ==
    [kind : SolutionKinds, card : Cards, to : Users, brings : SUBSET Evidences]
    \cup [kind : {"mechanic", "discard"}, card : Cards, to : Users, brings : {{}}]
    \cup [kind : {"priority"}, card : Cards, to : Priorities, brings : {{}}]
    \cup [kind : {"due date"}, card : Cards, to : Days, brings : {{}}]

NoteRow == [by : Requests, card : Cards, kind : AuditedKinds,
            from : Priorities \cup Users \cup {None}, to : Priorities \cup Users \cup Days]

\* The card has the priority or the mechanic it would be given.
AlreadyHas(c, o) ==
    \/ o.kind = "priority" /\ c.priority = o.to
    \/ o.kind = "mechanic" /\ c.mechanic = o.to

\* The card has a solution of the kind it would be given.
AlreadySolved(c, o) ==
    \/ o.kind = "provisional" /\ c.provisional # None
    \/ o.kind = "definitive" /\ c.definitive # None

\* What the transactions check of the row they have locked.
Allowed(c, o) == ~AlreadyHas(c, o) /\ ~AlreadySolved(c, o)

\* The row after r, whatever its status was.
Changed(c, r, o) ==
    CASE o.kind = "provisional" -> [c EXCEPT !.provisional = r, !.status = "P"]
      [] o.kind = "definitive"  -> [c EXCEPT !.definitive = r, !.status = "R"]
      [] o.kind = "discard"     -> [c EXCEPT !.discarded = r, !.status = "D"]
      [] o.kind = "priority"    -> [c EXCEPT !.priority = o.to, !.due = o.to]
      [] o.kind = "mechanic"    -> [c EXCEPT !.mechanic = o.to]
      [] o.kind = "due date"    -> [c EXCEPT !.due = o.to]

\* What a note says the card had.
Former(c, o) ==
    CASE o.kind = "priority" -> c.priority
      [] o.kind = "mechanic" -> c.mechanic
      [] OTHER -> None

NoteOf(c, r, o) == [by |-> r, card |-> o.card, kind |-> o.kind,
                    from |-> Former(c, o), to |-> o.to]

\* A discard leaves none.
NotesOf(c, r, o) == IF o.kind \in AuditedKinds THEN {NoteOf(c, r, o)} ELSE {}

-----------------------------------------------------------------------------

LedgerInit ==
    /\ card \in [Cards -> NewCards]
    /\ notes = {}
    /\ evidences = {}
    /\ applied = {}

Apply(r, o) ==
    /\ r \notin applied
    /\ Allowed(card[o.card], o)
    /\ card' = [card EXCEPT ![o.card] = Changed(@, r, o)]
    /\ notes' = notes \cup NotesOf(card[o.card], r, o)
    /\ evidences' = evidences \cup ({r} \X o.brings)
    /\ applied' = applied \cup {r}

LedgerNext == \E r \in Requests, o \in Operations : Apply(r, o)

(* A card's row, its note and its evidences change together, by one request *)
(* at a time and from the committed row: no update of another is lost, and  *)
(* every note names the value it replaced.  This is the promise of          *)
(* CardSolutionPersistence and CardMutationPersistence.                     *)
LedgerSpec == LedgerInit /\ [][LedgerNext]_ledger

-----------------------------------------------------------------------------

LedgerTypeOK ==
    /\ card \in [Cards -> CardRow]
    /\ notes \subseteq NoteRow
    /\ evidences \subseteq Requests \X Evidences
    /\ applied \subseteq Requests

(* The first solution of each kind stands: two people who solve a card at   *)
(* the same time do not overwrite each other, and the second is refused.    *)
SolutionsStand ==
    [][\A c \in Cards :
        /\ card[c].provisional # None => card'[c].provisional = card[c].provisional
        /\ card[c].definitive # None => card'[c].definitive = card[c].definitive]_ledger

(* A card's status says nothing that its columns do not: resolved cards     *)
(* have a definitive solution, provisional ones a provisional one, discarded*)
(* ones a manager, and open ones nothing of the kind.                       *)
StatusIsSupported ==
    \A c \in Cards :
        /\ card[c].status = "P" => card[c].provisional # None
        /\ card[c].status = "R" => card[c].definitive # None
        /\ card[c].status = "D" => card[c].discarded # None
        /\ card[c].status = "A" =>
              card[c].provisional = None /\ card[c].definitive = None /\ card[c].discarded = None
=============================================================================
