---------------------------- MODULE CardLifecycle ----------------------------
(***************************************************************************)
(* The operations on a stored card: provisional and definitive solutions,  *)
(* changes of priority, mechanic and due date, and discards.  Each handler *)
(* reads the card without a lock, makes its checks, and then reads it again*)
(* and changes it in a transaction that has locked the row (FOR UPDATE).   *)
(*                                                                         *)
(* A request is one handler on some instance, for one operation, and every *)
(* SQL statement that can meet another request is a step.  A card's row,   *)
(* its notes and its evidences are what CardLedger says of them.           *)
(***************************************************************************)
EXTENDS CardLedger

VARIABLES
    op,      \* the operation each request is for
    pc,      \* the statement it has come to
    row,     \* the card as it read it, and then as it saves it
    note,    \* the audit note it saves, if any
    pushed,  \* the requests that sent their push notification
    answer   \* what the client was told

vars == <<card, notes, evidences, applied, op, pc, row, note, pushed, answer>>

Answers == {"none", "done", "unchanged", "refused", "error", "lost"}

InTransaction(r) == pc[r] \in {"save", "commit"}

\* What the service asks of the card it has read without a lock.
ServiceAllows(c, o) ==
    /\ Allowed(c, o)
    /\ o.kind = "due date" => c.priority = Wildcard

\* FOR UPDATE waits for the transaction that has locked the row.
Granted(r) == \A q \in Requests \ {r} : InTransaction(q) => op[q].card # op[r].card

-----------------------------------------------------------------------------

Init ==
    /\ LedgerInit
    /\ op \in [Requests -> Operations]
    /\ pc = [r \in Requests |-> "read"]
    /\ row = [r \in Requests |-> None]
    /\ note = [r \in Requests |-> {}]
    /\ pushed = {}
    /\ answer = [r \in Requests |-> "none"]

Statement(r, next) ==
    /\ pc' = [pc EXCEPT ![r] = next]
    /\ UNCHANGED answer

\* The handler is over, and what it had in memory.
Answer(r, outcome) ==
    /\ pc' = [pc EXCEPT ![r] = "answered"]
    /\ row' = [row EXCEPT ![r] = None]
    /\ note' = [note EXCEPT ![r] = {}]
    /\ answer' = [answer EXCEPT ![r] = outcome]

\* The service: nothing to do, a refusal by what it read of the card or by its
\* other checks, which may refuse anything, or on to the transaction.
Read(r) ==
    LET c == card[op[r].card] IN
    /\ pc[r] = "read"
    /\ \/ AlreadyHas(c, op[r]) /\ Answer(r, "unchanged")
       \/ ~AlreadyHas(c, op[r]) /\ Answer(r, "refused")
       \/ /\ ServiceAllows(c, op[r])
          /\ row' = [row EXCEPT ![r] = c]
          /\ Statement(r, "lock")
          /\ UNCHANGED note
    /\ UNCHANGED <<ledger, op, pushed>>

Lock_KeepsRow(r) ==
    /\ pc[r] = "lock"
    /\ Granted(r)
    /\ row' = [row EXCEPT ![r] = Changed(@, r, op[r])]
    /\ note' = [note EXCEPT ![r] = NotesOf(row[r], r, op[r])]
    /\ Statement(r, "save")
    /\ UNCHANGED <<ledger, op, pushed>>

\* The transaction locks and reads the row, and leaves if it is not as the
\* operation needs it.
Lock(r) ==
    LET c == card[op[r].card] IN
    /\ pc[r] = "lock"
    /\ Granted(r)
    /\ \/ AlreadyHas(c, op[r]) /\ Answer(r, "unchanged")
       \/ AlreadySolved(c, op[r]) /\ Answer(r, "refused")
       \/ /\ Allowed(c, op[r])
          /\ row' = [row EXCEPT ![r] = Changed(c, r, op[r])]
          /\ note' = [note EXCEPT ![r] = NotesOf(c, r, op[r])]
          /\ Statement(r, "save")
    /\ UNCHANGED <<ledger, op, pushed>>

Save_Autocommit(r) ==
    /\ pc[r] = "save"
    /\ card' = [card EXCEPT ![op[r].card] = row[r]]
    /\ Statement(r, "commit")
    /\ UNCHANGED <<notes, evidences, applied, op, row, note, pushed>>

Save_PushesToo(r) ==
    /\ pc[r] = "save"
    /\ pushed' = IF op[r].kind = "mechanic" THEN pushed \cup {r} ELSE pushed
    /\ Statement(r, "commit")
    /\ UNCHANGED <<ledger, op, row, note, answer>>

\* The row, which nobody else sees before the commit.
Save(r) ==
    /\ pc[r] = "save"
    /\ Statement(r, "commit")
    /\ UNCHANGED <<ledger, op, row, note, pushed>>

\* Evidences and note, and the commit.
Commit(r) ==
    /\ pc[r] = "commit"
    /\ card' = [card EXCEPT ![op[r].card] = row[r]]
    /\ notes' = notes \cup note[r]
    /\ evidences' = evidences \cup ({r} \X op[r].brings)
    /\ applied' = applied \cup {r}
    /\ Statement(r, "push")
    /\ UNCHANGED <<op, row, note, pushed>>

\* The new mechanic's devices, if there are any, are pushed to, and the
\* client is answered.
Push(r) ==
    /\ pc[r] = "push"
    /\ \/ op[r].kind = "mechanic" /\ pushed' = pushed \cup {r}
       \/ UNCHANGED pushed
    /\ Answer(r, "done")
    /\ UNCHANGED <<ledger, op>>

\* A statement fails, or the instance dies: what is not committed is rolled
\* back, and the client gets an error, or nothing.
Fails(r) ==
    /\ pc[r] # "answered"
    /\ \E outcome \in {"error", "lost"} : Answer(r, outcome)
    /\ UNCHANGED <<ledger, op, pushed>>

Handle(r) == Read(r) \/ Lock(r) \/ Save(r) \/ Commit(r) \/ Push(r)

Next == \E r \in Requests : Handle(r) \/ Fails(r)

Spec == Init /\ [][Next]_vars

-----------------------------------------------------------------------------

TypeOK ==
    /\ LedgerTypeOK
    /\ op \in [Requests -> Operations]
    /\ pc \in [Requests -> {"read", "lock", "save", "commit", "push", "answered"}]
    /\ row \in [Requests -> CardRow \cup {None}]
    /\ note \in [Requests -> SUBSET NoteRow]
    /\ pushed \subseteq Requests
    /\ answer \in [Requests -> Answers]
    /\ \A r \in Requests : pc[r] = "answered" <=> answer[r] # "none"

Solves(r) == r \in {card[op[r].card].provisional, card[op[r].card].definitive}

(* A solution is in the card with all its evidences and its audit note, and *)
(* none of them is in the database without it: a request that failed, was   *)
(* refused or died half-way has left nothing.                               *)
SolutionIsWhole ==
    \A r \in Requests : op[r].kind \in SolutionKinds =>
        /\ Solves(r) <=> \E n \in notes : n.by = r
        /\ \A e \in op[r].brings : Solves(r) <=> <<r, e>> \in evidences

(* What a card says of itself is in the database: the columns of its status,*)
(* and the evidences and the note of each of its solutions.                 *)
CardIsSupported == SolutionIsWhole /\ StatusIsSupported

(* What a client or a mechanic is told is so: "done" and a push only follow *)
(* a commit, and a client that is refused, or told there was nothing to do, *)
(* has changed nothing.                                                     *)
ToldTheTruth ==
    \A r \in Requests :
        /\ r \in pushed \/ answer[r] = "done" => r \in applied
        /\ answer[r] \in {"refused", "unchanged"} => r \notin applied
=============================================================================
