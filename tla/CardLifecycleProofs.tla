------------------------- MODULE CardLifecycleProofs -------------------------
(***************************************************************************)
(* Proofs about CardLifecycle, for every set of requests and of cards.     *)
(***************************************************************************)
EXTENDS CardLifecycle, TLAPS

(* A transaction holds what it computed from the row that is still there.   *)
HoldsCurrent(r) ==
    LET c == card[op[r].card] IN
    /\ Allowed(c, op[r])
    /\ row[r] = Changed(c, r, op[r])
    /\ note[r] = NotesOf(c, r, op[r])

Exclusive ==
    \A q, r \in Requests :
        q # r /\ InTransaction(q) /\ InTransaction(r) => op[q].card # op[r].card

(* Who is in the tables: the requests that have committed.                  *)
AppliedAreOver ==
    /\ \A r \in applied : pc[r] \in {"push", "answered"}
    /\ \A r \in Requests : pc[r] = "push" => r \in applied

(* The solution columns of the cards are those of the applied requests.     *)
ColumnsAreApplied ==
    /\ \A r \in Requests : op[r].kind = "provisional" =>
          (card[op[r].card].provisional = r <=> r \in applied)
    /\ \A r \in Requests : op[r].kind = "definitive" =>
          (card[op[r].card].definitive = r <=> r \in applied)
    /\ \A r \in Requests, c \in Cards :
          /\ card[c].provisional = r => op[r].kind = "provisional"
          /\ card[c].definitive = r => op[r].kind = "definitive"

(* And so are the notes and the evidences.                                  *)
PartsAreApplied ==
    /\ \A n \in notes : n.by \in applied
    /\ \A r \in applied : op[r].kind \in AuditedKinds => \E n \in notes : n.by = r
    /\ \A r \in Requests, e \in Evidences :
          <<r, e>> \in evidences <=> r \in applied /\ e \in op[r].brings

IInv ==
    /\ TypeOK
    /\ \A r \in Requests : InTransaction(r) => HoldsCurrent(r)
    /\ Exclusive
    /\ AppliedAreOver
    /\ ColumnsAreApplied
    /\ PartsAreApplied
    /\ StatusIsSupported
    /\ ToldTheTruth

-----------------------------------------------------------------------------

(* The operators on rows keep the types of their columns.                   *)
LEMMA ChangedType ==
    ASSUME NEW c \in CardRow, NEW r \in Requests, NEW o \in Operations
    PROVE  Changed(c, r, o) \in CardRow
  <1>1. o.kind \in SolutionKinds \cup {"mechanic", "discard", "priority", "due date"}
    BY DEF Operations
  <1>2. CASE o.kind = "provisional"
    BY <1>2 DEF Changed, CardRow
  <1>3. CASE o.kind = "definitive"
    BY <1>3 DEF Changed, CardRow
  <1>4. CASE o.kind = "discard"
    BY <1>4 DEF Changed, CardRow
  <1>5. CASE o.kind = "priority"
    <2>1. o.to \in Priorities
      BY <1>5 DEF Operations, SolutionKinds
    <2> QED
      BY <1>5, <2>1 DEF Changed, CardRow
  <1>6. CASE o.kind = "mechanic"
    <2>1. o.to \in Users
      BY <1>6 DEF Operations, SolutionKinds
    <2> QED
      BY <1>6, <2>1 DEF Changed, CardRow
  <1>7. CASE o.kind = "due date"
    <2>1. o.to \in Days
      BY <1>7 DEF Operations, SolutionKinds
    <2> QED
      BY <1>7, <2>1 DEF Changed, CardRow
  <1> QED
    BY <1>1, <1>2, <1>3, <1>4, <1>5, <1>6, <1>7 DEF SolutionKinds

LEMMA NotesType ==
    ASSUME NEW c \in CardRow, NEW r \in Requests, NEW o \in Operations
    PROVE  NotesOf(c, r, o) \subseteq NoteRow
  <1>1. o.card \in Cards /\ o.to \in Priorities \cup Users \cup Days
    BY DEF Operations
  <1>2. Former(c, o) \in Priorities \cup Users \cup {None}
    BY DEF Former, CardRow
  <1>3. ASSUME o.kind \in AuditedKinds
        PROVE  NoteOf(c, r, o) \in NoteRow
    BY <1>1, <1>2, <1>3 DEF NoteOf, NoteRow
  <1> QED
    BY <1>3 DEF NotesOf

(* What a note is signed with, and who leaves one.                          *)
LEMMA NotesBy ==
    ASSUME NEW c, NEW r, NEW o
    PROVE  /\ \A n \in NotesOf(c, r, o) : n.by = r
           /\ o.kind \in AuditedKinds => \E n \in NotesOf(c, r, o) : n.by = r
  <1>1. NoteOf(c, r, o).by = r
    BY DEF NoteOf
  <1>2. CASE o.kind \in AuditedKinds
    BY <1>1, <1>2, Zenon DEF NotesOf
  <1>3. CASE o.kind \notin AuditedKinds
    BY <1>3, Zenon DEF NotesOf
  <1> QED
    BY <1>2, <1>3

(* Which columns each operation leaves alone.                               *)
LEMMA ChangedColumns ==
    ASSUME NEW c \in CardRow, NEW r \in Requests, NEW o \in Operations
    PROVE  LET d == Changed(c, r, o) IN
           /\ d.provisional = IF o.kind = "provisional" THEN r ELSE c.provisional
           /\ d.definitive = IF o.kind = "definitive" THEN r ELSE c.definitive
           /\ d.discarded = IF o.kind = "discard" THEN r ELSE c.discarded
           /\ d.status = CASE o.kind = "provisional" -> "P"
                           [] o.kind = "definitive" -> "R"
                           [] o.kind = "discard" -> "D"
                           [] OTHER -> c.status
  <1>1. o.kind \in {"provisional", "definitive", "mechanic", "discard", "priority", "due date"}
    BY DEF Operations, SolutionKinds
  <1>2. CASE o.kind = "provisional"
    BY <1>2 DEF Changed, CardRow
  <1>3. CASE o.kind = "definitive"
    BY <1>3 DEF Changed, CardRow
  <1>4. CASE o.kind = "discard"
    BY <1>4 DEF Changed, CardRow
  <1>5. CASE o.kind \in {"mechanic", "priority", "due date"}
    BY <1>5 DEF Changed, CardRow
  <1> QED
    BY <1>1, <1>2, <1>3, <1>4, <1>5

-----------------------------------------------------------------------------

(* The first states.                                                        *)
LEMMA InitIInv == Init => IInv
  <1> SUFFICES ASSUME Init PROVE IInv
    OBVIOUS
  <1> USE LedgerAssumption DEF Init, LedgerInit
  <1>1. \A c \in Cards :
          /\ card[c] \in CardRow
          /\ card[c].status = "A"
          /\ card[c].provisional = None /\ card[c].definitive = None
          /\ card[c].discarded = None
    BY DEF NewCards
  <1>2. card \in [Cards -> CardRow]
    BY <1>1 DEF NewCards
  <1>3. TypeOK
    BY <1>2 DEF TypeOK, LedgerTypeOK, Answers
  <1>4. \A r \in Requests : ~InTransaction(r)
    BY DEF InTransaction
  <1>5. \A r \in Requests : op[r].card \in Cards
    BY DEF Operations
  <1>6. ColumnsAreApplied
    BY <1>1, <1>5 DEF ColumnsAreApplied
  <1>7. StatusIsSupported
    BY <1>1 DEF StatusIsSupported
  <1>8. PartsAreApplied
    BY DEF PartsAreApplied
  <1>9. AppliedAreOver /\ ToldTheTruth
    BY DEF AppliedAreOver, ToldTheTruth
  <1> QED
    BY <1>3, <1>4, <1>6, <1>7, <1>8, <1>9 DEF IInv, Exclusive

(* A step of one request that leaves the tables alone and is in no          *)
(* transaction afterwards, or goes on with the one it is in, keeps IInv.    *)
LEMMA QuietStep ==
    ASSUME IInv, NEW r \in Requests, NEW next, NEW outcome \in Answers,
           UNCHANGED <<ledger, op>>,
           pc' = [pc EXCEPT ![r] = next],
           next \in {"read", "lock", "save", "commit", "push", "answered"},
           answer' = [answer EXCEPT ![r] = outcome],
           next = "answered" <=> outcome # "none",
           row' \in [Requests -> CardRow \cup {None}],
           note' \in [Requests -> SUBSET NoteRow],
           \A q \in Requests \ {r} : row'[q] = row[q] /\ note'[q] = note[q],
           next \in {"save", "commit"} => HoldsCurrent(r)' /\ (InTransaction(r) \/ Granted(r)),
           next = "push" => r \in applied,
           r \in applied => next \in {"push", "answered"},
           pushed' \subseteq pushed \cup {r},
           r \in pushed' \/ outcome = "done" => r \in applied,
           outcome \in {"refused", "unchanged"} => r \notin applied
    PROVE  IInv'
  <1>0. card' = card /\ notes' = notes /\ evidences' = evidences /\ applied' = applied /\ op' = op
    BY DEF ledger
  <1>1. pc'[r] = next /\ answer'[r] = outcome
    BY DEF IInv, TypeOK
  <1>2. \A q \in Requests \ {r} : pc'[q] = pc[q] /\ answer'[q] = answer[q]
    BY DEF IInv, TypeOK
  <1>3. TypeOK'
    <2>1. LedgerTypeOK'
      BY <1>0 DEF IInv, TypeOK, LedgerTypeOK
    <2>2. pc' \in [Requests -> {"read", "lock", "save", "commit", "push", "answered"}]
      BY DEF IInv, TypeOK
    <2>3. answer' \in [Requests -> Answers]
      BY DEF IInv, TypeOK
    <2>4. \A q \in Requests : pc'[q] = "answered" <=> answer'[q] # "none"
      BY <1>1, <1>2 DEF IInv, TypeOK
    <2>5. pushed' \subseteq Requests
      BY DEF IInv, TypeOK
    <2> QED
      BY <1>0, <2>1, <2>2, <2>3, <2>4, <2>5 DEF IInv, TypeOK
  <1>4. \A q \in Requests : InTransaction(q)' => HoldsCurrent(q)'
    <2> TAKE q \in Requests
    <2>1. CASE q = r
      BY <2>1, <1>1 DEF InTransaction
    <2>2. CASE q # r
      BY <2>2, <1>0, <1>2 DEF IInv, InTransaction, HoldsCurrent
    <2> QED
      BY <2>1, <2>2
  <1>5. Exclusive'
    <2> SUFFICES ASSUME NEW p \in Requests, NEW q \in Requests, p # q,
                        InTransaction(p)', InTransaction(q)'
                 PROVE  op[p].card # op[q].card
      BY <1>0 DEF Exclusive
    <2>1. CASE p # r /\ q # r
      BY <2>1, <1>2 DEF IInv, Exclusive, InTransaction
    <2>2. CASE p = r
      BY <2>2, <1>1, <1>2 DEF IInv, Exclusive, InTransaction, Granted
    <2>3. CASE q = r
      BY <2>3, <1>1, <1>2 DEF IInv, Exclusive, InTransaction, Granted
    <2> QED
      BY <2>1, <2>2, <2>3
  <1>6. AppliedAreOver'
    BY <1>0, <1>1, <1>2 DEF IInv, AppliedAreOver, TypeOK, LedgerTypeOK
  <1>7. ColumnsAreApplied' /\ PartsAreApplied' /\ StatusIsSupported'
    BY <1>0 DEF IInv, ColumnsAreApplied, PartsAreApplied, StatusIsSupported
  <1>8. ToldTheTruth'
    BY <1>0, <1>1, <1>2 DEF IInv, ToldTheTruth
  <1> QED
    BY <1>3, <1>4, <1>5, <1>6, <1>7, <1>8 DEF IInv

(* Everything but the commit is a quiet step.                               *)
LEMMA ReadIInv == ASSUME IInv, NEW r \in Requests, Read(r) PROVE IInv'
  <1>1. card[op[r].card] \in CardRow
    BY DEF IInv, TypeOK, LedgerTypeOK, Operations
  <1>2. r \notin applied /\ r \notin pushed /\ answer[r] = "none" /\ ~InTransaction(r)
    BY DEF IInv, TypeOK, AppliedAreOver, ToldTheTruth, Read, InTransaction
  <1>3. CASE Answer(r, "unchanged") /\ UNCHANGED <<ledger, op, pushed>>
    BY <1>2, <1>3, QuietStep DEF Answer, Answers, IInv, TypeOK
  <1>4. CASE Answer(r, "refused") /\ UNCHANGED <<ledger, op, pushed>>
    BY <1>2, <1>4, QuietStep DEF Answer, Answers, IInv, TypeOK
  <1>5. CASE /\ row' = [row EXCEPT ![r] = card[op[r].card]]
             /\ Statement(r, "lock")
             /\ UNCHANGED <<ledger, op, note, pushed>>
    <2>1. answer' = [answer EXCEPT ![r] = "none"]
      BY <1>2, <1>5 DEF Statement, IInv, TypeOK
    <2> QED
      BY <1>1, <1>2, <1>5, <2>1, QuietStep DEF Statement, Answers, IInv, TypeOK
  <1> QED
    BY <1>3, <1>4, <1>5 DEF Read

LEMMA LockIInv == ASSUME IInv, NEW r \in Requests, Lock(r) PROVE IInv'
  <1> DEFINE c == card[op[r].card]
  <1>1. op[r] \in Operations /\ op[r].card \in Cards /\ c \in CardRow
    BY DEF IInv, TypeOK, LedgerTypeOK, Operations
  <1>2. r \notin applied /\ r \notin pushed /\ answer[r] = "none" /\ Granted(r)
    BY DEF IInv, TypeOK, AppliedAreOver, ToldTheTruth, Lock
  <1>3. CASE Answer(r, "unchanged") /\ UNCHANGED <<ledger, op, pushed>>
    BY <1>2, <1>3, QuietStep DEF Answer, Answers, IInv, TypeOK
  <1>4. CASE Answer(r, "refused") /\ UNCHANGED <<ledger, op, pushed>>
    BY <1>2, <1>4, QuietStep DEF Answer, Answers, IInv, TypeOK
  <1>5. CASE /\ Allowed(c, op[r])
             /\ row' = [row EXCEPT ![r] = Changed(c, r, op[r])]
             /\ note' = [note EXCEPT ![r] = NotesOf(c, r, op[r])]
             /\ Statement(r, "save")
             /\ UNCHANGED <<ledger, op, pushed>>
    <2> HIDE DEF c
    <2>1. answer' = [answer EXCEPT ![r] = "none"]
      BY <1>2, <1>5 DEF Statement, IInv, TypeOK
    <2>2. row' \in [Requests -> CardRow \cup {None}] /\ row'[r] = Changed(c, r, op[r])
      BY <1>1, <1>5, ChangedType DEF IInv, TypeOK
    <2>3. note' \in [Requests -> SUBSET NoteRow] /\ note'[r] = NotesOf(c, r, op[r])
      BY <1>1, <1>5, NotesType DEF IInv, TypeOK
    <2>4. HoldsCurrent(r)'
      BY <1>5, <2>2, <2>3 DEF HoldsCurrent, ledger, c
    <2>5. \A q \in Requests \ {r} : row'[q] = row[q] /\ note'[q] = note[q]
      BY <1>5 DEF IInv, TypeOK
    <2> QED
      BY <1>2, <1>5, <2>1, <2>2, <2>3, <2>4, <2>5, QuietStep DEF Statement, Answers
  <1> QED
    BY <1>3, <1>4, <1>5 DEF Lock

LEMMA SaveIInv == ASSUME IInv, NEW r \in Requests, Save(r) PROVE IInv'
  <1>1. r \notin applied /\ r \notin pushed /\ answer[r] = "none" /\ InTransaction(r)
    BY DEF IInv, TypeOK, AppliedAreOver, ToldTheTruth, Save, InTransaction
  <1>2. answer' = [answer EXCEPT ![r] = "none"]
    BY <1>1 DEF Save, Statement, IInv, TypeOK
  <1>3. HoldsCurrent(r)'
    BY <1>1 DEF Save, ledger, IInv, HoldsCurrent
  <1> QED
    BY <1>1, <1>2, <1>3, QuietStep DEF Save, Statement, Answers, IInv, TypeOK

LEMMA PushIInv == ASSUME IInv, NEW r \in Requests, Push(r) PROVE IInv'
  <1>1. r \in applied
    BY DEF Push, IInv, AppliedAreOver
  <1> QED
    BY <1>1, QuietStep DEF Push, Answer, Answers, IInv, TypeOK

LEMMA FailsIInv == ASSUME IInv, NEW r \in Requests, Fails(r) PROVE IInv'
  <1>1. PICK outcome \in {"error", "lost"} : Answer(r, outcome)
    BY DEF Fails
  <1>2. r \in pushed => r \in applied
    BY DEF IInv, ToldTheTruth
  <1> QED
    BY <1>1, <1>2, QuietStep DEF Fails, Answer, Answers, IInv, TypeOK

(* The commit publishes the row: nobody else has one of this card, and the  *)
(* solution it brings finds its column empty.                               *)
LEMMA CommitIInv == ASSUME IInv, NEW r \in Requests, Commit(r) PROVE IInv'
  <1> DEFINE c == op[r].card
             o == op[r]
  <1>1. o \in Operations /\ c \in Cards /\ card[c] \in CardRow
    BY DEF IInv, TypeOK, LedgerTypeOK, Operations
  <1>2. InTransaction(r) /\ pc[r] = "commit"
    BY DEF Commit, InTransaction
  <1>3. Allowed(card[c], o) /\ row[r] = Changed(card[c], r, o) /\ note[r] = NotesOf(card[c], r, o)
    BY <1>2 DEF IInv, HoldsCurrent
  <1>4. r \notin applied /\ answer[r] = "none"
    BY <1>2 DEF IInv, TypeOK, AppliedAreOver
  <1>5. /\ card' = [card EXCEPT ![c] = Changed(card[c], r, o)]
        /\ notes' = notes \cup NotesOf(card[c], r, o)
        /\ evidences' = evidences \cup ({r} \X o.brings)
        /\ applied' = applied \cup {r}
        /\ pc' = [pc EXCEPT ![r] = "push"]
        /\ UNCHANGED <<op, row, note, pushed, answer>>
    BY <1>3 DEF Commit, Statement
  <1> HIDE DEF c, o
  <1>6. /\ card'[c] = Changed(card[c], r, o)
        /\ \A d \in Cards \ {c} : card'[d] = card[d]
        /\ pc'[r] = "push"
        /\ \A q \in Requests \ {r} : pc'[q] = pc[q]
    BY <1>1, <1>5 DEF IInv, TypeOK, LedgerTypeOK
  <1>7. TypeOK'
    <2>1. Changed(card[c], r, o) \in CardRow /\ NotesOf(card[c], r, o) \subseteq NoteRow
      BY <1>1, ChangedType, NotesType
    <2>2. {r} \X o.brings \subseteq Requests \X Evidences
      BY <1>1 DEF Operations
    <2>3. LedgerTypeOK'
      BY <1>5, <2>1, <2>2 DEF IInv, TypeOK, LedgerTypeOK
    <2>4. pc' \in [Requests -> {"read", "lock", "save", "commit", "push", "answered"}]
      BY <1>5 DEF IInv, TypeOK
    <2>5. \A q \in Requests : pc'[q] = "answered" <=> answer'[q] # "none"
      BY <1>4, <1>5, <1>6 DEF IInv, TypeOK
    <2> QED
      BY <1>5, <2>3, <2>4, <2>5 DEF IInv, TypeOK
  <1>8. ~InTransaction(r)' /\ \A q \in Requests \ {r} : InTransaction(q)' <=> InTransaction(q)
    BY <1>6 DEF InTransaction
  <1>9. \A q \in Requests : InTransaction(q)' => HoldsCurrent(q)'
    <2> SUFFICES ASSUME NEW q \in Requests, InTransaction(q)'
                 PROVE  HoldsCurrent(q)'
      OBVIOUS
    <2>1. q # r /\ InTransaction(q)
      BY <1>8
    <2>2. op[q].card # c /\ op[q].card \in Cards
      BY <1>2, <2>1 DEF IInv, Exclusive, c, TypeOK, Operations
    <2>3. card'[op[q].card] = card[op[q].card]
      BY <1>6, <2>2
    <2> QED
      BY <1>5, <2>1, <2>3 DEF IInv, HoldsCurrent
  <1>10. Exclusive'
    BY <1>5, <1>8 DEF IInv, Exclusive
  <1>11. AppliedAreOver'
    BY <1>5, <1>6 DEF IInv, AppliedAreOver, TypeOK, LedgerTypeOK
  <1>12. ColumnsAreApplied'
    <2> DEFINE d == card'[c]
    <2>1. /\ d.provisional = IF o.kind = "provisional" THEN r ELSE card[c].provisional
          /\ d.definitive = IF o.kind = "definitive" THEN r ELSE card[c].definitive
      BY <1>1, <1>6, ChangedColumns
    <2>2. /\ o.kind = "provisional" => card[c].provisional = None
          /\ o.kind = "definitive" => card[c].definitive = None
      BY <1>3 DEF Allowed, AlreadySolved
    <2>3. None \notin Requests
      BY LedgerAssumption
    <2>4. ASSUME NEW q \in Requests
          PROVE  /\ op[q].kind = "provisional" =>
                      (card'[op[q].card].provisional = q <=> q \in applied')
                 /\ op[q].kind = "definitive" =>
                      (card'[op[q].card].definitive = q <=> q \in applied')
      <3>1. CASE q = r
        BY <1>4, <1>5, <2>1, <3>1 DEF c, o
      <3>2. CASE q # r
        <4>1. q \in applied' <=> q \in applied
          BY <1>5, <3>2
        <4>2. op[q].card \in Cards
          BY DEF IInv, TypeOK, Operations
        <4>3. CASE op[q].card = c
          BY <2>1, <2>2, <2>3, <3>2, <4>1, <4>3 DEF IInv, ColumnsAreApplied
        <4>4. CASE op[q].card # c
          BY <1>6, <4>1, <4>2, <4>4 DEF IInv, ColumnsAreApplied
        <4> QED
          BY <4>3, <4>4
      <3> QED
        BY <3>1, <3>2
    <2>5. ASSUME NEW q \in Requests, NEW k \in Cards
          PROVE  /\ card'[k].provisional = q => op[q].kind = "provisional"
                 /\ card'[k].definitive = q => op[q].kind = "definitive"
      <3>1. CASE k = c
        BY <2>1, <3>1 DEF IInv, ColumnsAreApplied, o
      <3>2. CASE k # c
        BY <1>6, <3>2 DEF IInv, ColumnsAreApplied
      <3> QED
        BY <3>1, <3>2
    <2> QED
      BY <1>5, <2>4, <2>5 DEF ColumnsAreApplied
  <1>13. PartsAreApplied'
    <2>1. /\ \A n \in NotesOf(card[c], r, o) : n.by = r
          /\ o.kind \in AuditedKinds => \E n \in NotesOf(card[c], r, o) : n.by = r
      BY NotesBy
    <2>2. \A n \in notes' : n.by \in applied'
      BY <1>5, <2>1 DEF IInv, PartsAreApplied
    <2>3. \A q \in applied' : op[q].kind \in AuditedKinds => \E n \in notes' : n.by = q
      BY <1>5, <2>1 DEF IInv, PartsAreApplied, o
    <2>4. \A q \in Requests, e \in Evidences :
             <<q, e>> \in evidences' <=> q \in applied' /\ e \in op[q].brings
      BY <1>4, <1>5 DEF IInv, PartsAreApplied, o
    <2> QED
      BY <1>5, <2>2, <2>3, <2>4 DEF PartsAreApplied
  <1>14. StatusIsSupported'
    <2> SUFFICES ASSUME NEW k \in Cards
                 PROVE  /\ card'[k].status = "P" => card'[k].provisional # None
                        /\ card'[k].status = "R" => card'[k].definitive # None
                        /\ card'[k].status = "D" => card'[k].discarded # None
                        /\ card'[k].status = "A" => /\ card'[k].provisional = None
                                                   /\ card'[k].definitive = None
                                                   /\ card'[k].discarded = None
      BY DEF StatusIsSupported
    <2>1. CASE k # c
      BY <1>6, <2>1 DEF IInv, StatusIsSupported
    <2>2. CASE k = c
      BY <1>1, <1>6, <2>2, ChangedColumns, LedgerAssumption DEF IInv, StatusIsSupported
    <2> QED
      BY <2>1, <2>2
  <1>15. ToldTheTruth'
    BY <1>4, <1>5 DEF IInv, ToldTheTruth
  <1> QED
    BY <1>7, <1>9, <1>10, <1>11, <1>12, <1>13, <1>14, <1>15 DEF IInv

-----------------------------------------------------------------------------

LEMMA NextIInv == IInv /\ [Next]_vars => IInv'
  <1> SUFFICES ASSUME IInv, [Next]_vars PROVE IInv'
    OBVIOUS
  <1>1. CASE UNCHANGED vars
    <2>1. /\ card' = card /\ notes' = notes /\ evidences' = evidences /\ applied' = applied
          /\ op' = op /\ pc' = pc /\ row' = row /\ note' = note
          /\ pushed' = pushed /\ answer' = answer
      BY <1>1 DEF vars
    <2>2. TypeOK'
      BY <2>1 DEF IInv, TypeOK, LedgerTypeOK
    <2>3. (\A r \in Requests : InTransaction(r) => HoldsCurrent(r))' /\ Exclusive'
      BY <2>1 DEF IInv, InTransaction, HoldsCurrent, Exclusive
    <2>4. /\ AppliedAreOver' /\ ColumnsAreApplied' /\ PartsAreApplied'
          /\ StatusIsSupported' /\ ToldTheTruth'
      BY <2>1 DEF IInv, AppliedAreOver, ColumnsAreApplied, PartsAreApplied,
                  StatusIsSupported, ToldTheTruth
    <2> QED
      BY <2>2, <2>3, <2>4 DEF IInv
  <1>2. CASE Next
    <2>1. PICK r \in Requests : Handle(r) \/ Fails(r)
      BY <1>2 DEF Next
    <2> QED
      BY <2>1, ReadIInv, LockIInv, SaveIInv, CommitIInv, PushIInv, FailsIInv DEF Handle
  <1> QED
    BY <1>1, <1>2

(* The inductive invariant of the operations on a card: a transaction holds *)
(* what it computed from the row that is still there, alone, and the tables *)
(* hold the requests that committed, each with all it brings.               *)
THEOREM LifecycleInvariance == Spec => []IInv
  BY InitIInv, NextIInv, PTL DEF Spec

(* Every variable, and every column of the card, keeps its type.            *)
THEOREM LifecycleTypes == Spec => []TypeOK
  <1>1. IInv => TypeOK
    BY DEF IInv
  <1> QED
    BY <1>1, LifecycleInvariance, PTL

(* A resolved, provisional or discarded card has what its status says.      *)
THEOREM StatusHasItsColumns == Spec => []StatusIsSupported
  <1>1. IInv => StatusIsSupported
    BY DEF IInv
  <1> QED
    BY <1>1, LifecycleInvariance, PTL

(* Nobody is told of a change that is not in the database.                  *)
THEOREM AnswersAreTrue == Spec => []ToldTheTruth
  <1>1. IInv => ToldTheTruth
    BY DEF IInv
  <1> QED
    BY <1>1, LifecycleInvariance, PTL

(* A solution, its evidences and its note are stored together or not at all.*)
THEOREM SolutionsAreWhole == Spec => []SolutionIsWhole
  <1>1. IInv => SolutionIsWhole
    <2> SUFFICES ASSUME IInv, NEW r \in Requests, op[r].kind \in SolutionKinds
                 PROVE  /\ Solves(r) <=> \E n \in notes : n.by = r
                        /\ \A e \in op[r].brings : Solves(r) <=> <<r, e>> \in evidences
      BY DEF SolutionIsWhole
    <2>1. op[r] \in Operations /\ op[r].card \in Cards
      BY DEF IInv, TypeOK, Operations
    <2>2. Solves(r) <=> r \in applied
      BY <2>1 DEF IInv, ColumnsAreApplied, Solves, SolutionKinds
    <2>3. (\E n \in notes : n.by = r) <=> r \in applied
      BY DEF IInv, PartsAreApplied, AuditedKinds
    <2>4. \A e \in op[r].brings : e \in Evidences
      BY <2>1 DEF Operations, SolutionKinds
    <2>5. \A e \in op[r].brings : <<r, e>> \in evidences <=> r \in applied
      BY <2>4 DEF IInv, PartsAreApplied
    <2> QED
      BY <2>2, <2>3, <2>5
  <1> QED
    BY <1>1, LifecycleInvariance, PTL

(* A card says nothing of itself that is not in the database.               *)
THEOREM CardsAreSupported == Spec => []CardIsSupported
  BY SolutionsAreWhole, StatusHasItsColumns, PTL DEF CardIsSupported

(* Statement by statement, with every interleaving, failure and crash, the  *)
(* handlers do what CardLedger does in single steps: the commit is Apply,   *)
(* and everything else leaves the tables alone.                             *)
THEOREM ImplementsLedger == Spec => LedgerSpec
  <1>1. Init => LedgerInit
    BY DEF Init
  <1>2. IInv /\ [Next]_vars => [LedgerNext]_ledger
    <2> SUFFICES ASSUME IInv, [Next]_vars PROVE [LedgerNext]_ledger
      OBVIOUS
    <2>1. ASSUME NEW r \in Requests, Commit(r) PROVE LedgerNext
      <3>1. InTransaction(r)
        BY <2>1 DEF Commit, InTransaction
      <3>2. op[r] \in Operations /\ op[r].card \in Cards
        BY DEF IInv, TypeOK, Operations
      <3>3. HoldsCurrent(r) /\ r \notin applied
        BY <2>1, <3>1 DEF IInv, AppliedAreOver, Commit
      <3>4. Apply(r, op[r])
        BY <2>1, <3>3 DEF Commit, HoldsCurrent, Apply
      <3> QED
        BY <3>2, <3>4 DEF LedgerNext
    <2>2. ASSUME NEW r \in Requests, Read(r) \/ Lock(r) \/ Save(r) \/ Push(r) \/ Fails(r)
          PROVE  UNCHANGED ledger
      BY <2>2 DEF Read, Lock, Save, Push, Fails
    <2>3. CASE UNCHANGED vars
      BY <2>3 DEF vars, ledger
    <2> QED
      BY <2>1, <2>2, <2>3 DEF Next, Handle
  <1> QED
    BY <1>1, <1>2, LifecycleInvariance, PTL DEF Spec, LedgerSpec

(* In the ledger a solution, once there, is never replaced.                 *)
THEOREM FirstSolutionStands == LedgerSpec => SolutionsStand
  <1>1. LedgerInit => LedgerTypeOK
    BY DEF LedgerInit, LedgerTypeOK, NewCards
  <1>2. LedgerTypeOK /\ [LedgerNext]_ledger => LedgerTypeOK'
    <2> SUFFICES ASSUME LedgerTypeOK, [LedgerNext]_ledger PROVE LedgerTypeOK'
      OBVIOUS
    <2>1. ASSUME NEW r \in Requests, NEW o \in Operations, Apply(r, o) PROVE LedgerTypeOK'
      <3>1. o.card \in Cards /\ o.brings \subseteq Evidences
        BY DEF Operations
      <3>2. card[o.card] \in CardRow
        BY <3>1 DEF LedgerTypeOK
      <3>3. /\ Changed(card[o.card], r, o) \in CardRow
            /\ NotesOf(card[o.card], r, o) \subseteq NoteRow
        BY <3>2, ChangedType, NotesType
      <3> QED
        BY <2>1, <3>1, <3>3 DEF Apply, LedgerTypeOK
    <2>2. CASE UNCHANGED ledger
      BY <2>2 DEF ledger, LedgerTypeOK
    <2> QED
      BY <2>1, <2>2 DEF LedgerNext
  <1>3. LedgerTypeOK /\ [LedgerNext]_ledger =>
          [\A c \in Cards :
              /\ card[c].provisional # None => card'[c].provisional = card[c].provisional
              /\ card[c].definitive # None => card'[c].definitive = card[c].definitive]_ledger
    <2> SUFFICES ASSUME LedgerTypeOK, NEW r \in Requests, NEW o \in Operations, Apply(r, o),
                        NEW c \in Cards
                 PROVE  /\ card[c].provisional # None => card'[c].provisional = card[c].provisional
                        /\ card[c].definitive # None => card'[c].definitive = card[c].definitive
      BY DEF LedgerNext
    <2>1. card[c] \in CardRow
      BY DEF LedgerTypeOK
    <2>2. CASE o.card # c
      BY <2>2 DEF Apply, LedgerTypeOK
    <2>3. CASE o.card = c
      <3>1. card'[c] = Changed(card[c], r, o) /\ ~AlreadySolved(card[c], o)
        BY <2>3 DEF Apply, LedgerTypeOK, Allowed
      <3> QED
        BY <2>1, <3>1, ChangedColumns DEF AlreadySolved
    <2> QED
      BY <2>2, <2>3
  <1> QED
    BY <1>1, <1>2, <1>3, PTL DEF LedgerSpec, SolutionsStand

(* And so it is with the handlers, however they race.                       *)
THEOREM SolutionsAreFinal == Spec => SolutionsStand
  BY ImplementsLedger, FirstSolutionStands
=============================================================================
