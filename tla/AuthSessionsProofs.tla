-------------------------- MODULE AuthSessionsProofs --------------------------
(***************************************************************************)
(* Proofs about AuthSessions for any number of users, requests, sessions   *)
(* and changes.                                                            *)
(*                                                                         *)
(* The argument is two-phase locking: a session is locked by one request   *)
(* at most (Exclusive); what a request is about to revoke it has locked,   *)
(* and it is all that its UPDATEs match (Position), because no one else    *)
(* can revoke a locked row, insert a child below a locked parent, or       *)
(* insert into a locked range.                                             *)
(***************************************************************************)
EXTENDS AuthSessions, TLAPS

Holds(r, s) == <<"session", s>> \in locks[r]

Exclusive ==
    \A q, r \in Requests, s \in Sessions : Holds(q, s) /\ Holds(r, s) => q = r

ByPrimary == {"rotate", "rotateChildren", "rotateInsert",
              "logout", "logoutSession", "logoutChildren"}
Closing == {"rotateChildren", "rotateInsert", "logoutChildren"}

Position(r) ==
    /\ pc[r] # "idle" => who[r] \in Users
    /\ pc[r] \in ByPrimary \cup {"touchFast", "fastLock", "fastInsert"} => cur[r] \in Stored
    /\ pc[r] \in ByPrimary => kind[cur[r]] = "primary" /\ owner[cur[r]] = who[r]
    /\ pc[r] = "fastInsert" => Holds(r, cur[r]) /\ MayBeParent(cur[r])
    /\ pc[r] \in Closing => Holds(r, cur[r]) /\ Live(cur[r])

Revokes(r) ==
    /\ \A s \in revoking[r] : Holds(r, s)
    /\ pc[r] \notin Closing \cup {"closeActed"} => revoking[r] = {}
    /\ pc[r] \in {"rotateChildren", "logoutChildren"} => revoking[r] = {cur[r]}
    /\ pc[r] = "rotateInsert" => revoking[r] = {cur[r]} \cup ChildrenOf(cur[r])
    /\ pc[r] = "closeActed" =>
          revoking[r] = OwnedBy(who[r]) /\ OwnerRange(who[r]) \in locks[r]

Positions == \A r \in Requests : Position(r) /\ Revokes(r)

IInv == TypeOK /\ Exclusive /\ Positions /\ FastNeedsPrimary /\ ReplacedOnce

-----------------------------------------------------------------------------

(***************************************************************************)
(* Steps that leave the table of sessions alone.                           *)
(***************************************************************************)

SameTable == UNCHANGED sessionVars

SameOthers(r) ==
    \A q \in Requests \ {r} :
        /\ pc'[q] = pc[q] /\ who'[q] = who[q] /\ cur'[q] = cur[q]
        /\ locks'[q] = locks[q] /\ revoking'[q] = revoking[q]

\* Properties of the rows survive a step that does not touch them.
LEMMA SameTableKeeps ==
    ASSUME SameTable, FastNeedsPrimary, ReplacedOnce
    PROVE  FastNeedsPrimary' /\ ReplacedOnce'
BY DEF SameTable, sessionVars, FastNeedsPrimary, ReplacedOnce, Live, Stored

\* So does what is known of the other requests.
LEMMA SameTableOthers ==
    ASSUME NEW r \in Requests, SameTable, SameOthers(r), Positions
    PROVE  \A q \in Requests \ {r} : Position(q)' /\ Revokes(q)'
<1> TAKE q \in Requests \ {r}
<1>1. Position(q) /\ Revokes(q)
  BY DEF Positions
<1>2. Position(q)'
  BY <1>1 DEF SameTable, SameOthers, sessionVars, Position, Holds, MayBeParent, Live, Stored
<1>3. Revokes(q)'
  BY <1>1 DEF SameTable, SameOthers, sessionVars, Revokes, Holds, ChildrenOf, OwnedBy, Stored
<1> QED BY <1>2, <1>3

\* A request that has ended, or not begun, satisfies its part.
LEMMA EndIsIdle ==
    ASSUME TypeOK, NEW r \in Requests, End(r)
    PROVE  SameOthers(r) /\ Position(r)' /\ Revokes(r)'
<1> USE DEF TypeOK, End
<1>1. SameOthers(r)
  BY DEF SameOthers
<1>2. pc'[r] = "idle" /\ revoking'[r] = {} /\ locks'[r] = {}
  BY DEF TypeOK
<1>3. Position(r)'
  BY <1>2 DEF Position, ByPrimary, Closing
<1>4. Revokes(r)'
  BY <1>2 DEF Revokes, Closing
<1> QED BY <1>1, <1>3, <1>4

\* A request that takes only sessions no one else holds keeps the locks exclusive.
LEMMA LocksStayExclusive ==
    ASSUME Exclusive, NEW r \in Requests, SameOthers(r),
           \A s \in Sessions : Holds(r, s)' =>
               Holds(r, s) \/ \A q \in Requests \ {r} : ~Holds(q, s)
    PROVE  Exclusive'
BY DEF Exclusive, SameOthers, Holds, Sessions

\* What the next statement wants, no one else holds.
LEMMA WantedIsFree ==
    ASSUME NEW r \in Requests, Granted(r), NEW s, <<"session", s>> \in Wants(r)
    PROVE  \A q \in Requests \ {r} : ~Holds(q, s)
BY DEF Granted, Blocks, Holds

LEMMA SameTableStep ==
    ASSUME IInv, NEW r \in Requests, SameTable, SameOthers(r),
           TypeOK', Position(r)', Revokes(r)',
           \A s \in Sessions : Holds(r, s)' =>
               Holds(r, s) \/ \A q \in Requests \ {r} : ~Holds(q, s)
    PROVE  IInv'
<1>1. Exclusive'
  BY LocksStayExclusive DEF IInv
<1>2. FastNeedsPrimary' /\ ReplacedOnce'
  BY SameTableKeeps DEF IInv
<1>3. \A q \in Requests \ {r} : Position(q)' /\ Revokes(q)'
  BY SameTableOthers DEF IInv
<1>4. Positions'
  BY <1>3 DEF Positions
<1> QED BY <1>1, <1>2, <1>4 DEF IInv

\* The type invariant when only a request, a user or a counter changes.
LEMMA SameTableType ==
    ASSUME TypeOK, SameTable,
           user' \in [Users -> Rows],
           pc' \in [Requests -> Statements],
           who' \in [Requests -> Users \cup {NoUser}],
           cur' \in [Requests -> Nat],
           copy' \in [Requests -> Rows],
           change' \in [Requests -> Changes],
           locks' \in [Requests -> SUBSET Locks],
           revoking' \in [Requests -> SUBSET Sessions],
           lastCode' \in Nat, closings' \in [Users -> Nat]
    PROVE  TypeOK'
BY DEF TypeOK, SameTable, sessionVars, PrimaryOrFast, Stored

LEMMA NoRowType == NoRow \in Rows
BY DEF NoRow, Rows, NoCode

\* A step that only ends a request, and may save its user.
LEMMA EndStep ==
    ASSUME IInv, NEW r \in Requests, End(r), SameTable, UNCHANGED ghosts,
           user' \in [Users -> Rows]
    PROVE  IInv'
<1>1. SameOthers(r) /\ Position(r)' /\ Revokes(r)'
  BY EndIsIdle DEF IInv
<1>2. TypeOK'
  <2>1. TypeOK
    BY DEF IInv
  <2>2. pc' \in [Requests -> Statements] /\ change' \in [Requests -> Changes]
    BY <2>1 DEF TypeOK, End, Statements, Changes
  <2>3. who' \in [Requests -> Users \cup {NoUser}] /\ cur' \in [Requests -> Nat]
    BY <2>1 DEF TypeOK, End
  <2>4. copy' \in [Requests -> Rows]
    BY <2>1, NoRowType DEF TypeOK, End
  <2>5. locks' \in [Requests -> SUBSET Locks] /\ revoking' \in [Requests -> SUBSET Sessions]
    BY <2>1 DEF TypeOK, End
  <2>6. lastCode' \in Nat /\ closings' \in [Users -> Nat]
    BY <2>1 DEF TypeOK, ghosts
  <2> QED BY <2>1, <2>2, <2>3, <2>4, <2>5, <2>6, SameTableType
<1>3. \A s \in Sessions : ~Holds(r, s)'
  BY DEF IInv, TypeOK, End, Holds
<1> QED BY <1>1, <1>2, <1>3, SameTableStep

\* A step that begins a request outside any transaction.
LEMMA BeginStep ==
    ASSUME IInv, NEW r \in Requests, NEW st, NEW u \in Users, NEW c \in Nat,
           Begin(r, st, u, c), SameTable, UNCHANGED <<user, closings>>,
           copy' \in [Requests -> Rows], change' \in [Requests -> Changes], lastCode' \in Nat,
           st \in {"touchLogin", "touchFast", "rotate", "logout", "change", "save"},
           st = "touchFast" => c \in Stored,
           st \in {"rotate", "logout"} =>
               c \in Stored /\ kind[c] = "primary" /\ owner[c] = u
    PROVE  IInv'
<1>0. TypeOK /\ Position(r) /\ Revokes(r) /\ pc[r] = "idle"
  BY DEF IInv, Positions, Begin
<1>1. SameOthers(r) /\ pc'[r] = st /\ who'[r] = u /\ cur'[r] = c
  BY <1>0 DEF SameOthers, Begin, TypeOK
<1>2. Position(r)'
  BY <1>0, <1>1 DEF Position, ByPrimary, Closing, SameTable, sessionVars, Stored
<1>3. Revokes(r)'
  BY <1>0, <1>1 DEF Revokes, Closing, Begin, Holds
<1>4. TypeOK'
  <2>1. pc' \in [Requests -> Statements]
    BY <1>0 DEF TypeOK, Begin, Statements
  <2>2. who' \in [Requests -> Users \cup {NoUser}] /\ cur' \in [Requests -> Nat]
    BY <1>0 DEF TypeOK, Begin
  <2>3. /\ user' \in [Users -> Rows]
        /\ locks' \in [Requests -> SUBSET Locks] /\ revoking' \in [Requests -> SUBSET Sessions]
        /\ closings' \in [Users -> Nat]
    BY <1>0 DEF TypeOK, Begin
  <2> QED BY <1>0, <2>1, <2>2, <2>3, SameTableType
<1>5. \A s \in Sessions : Holds(r, s)' => Holds(r, s)
  BY DEF Holds, Begin
<1> QED BY <1>1, <1>2, <1>3, <1>4, <1>5, SameTableStep

\* A statement inside a transaction that takes locks.
LEMMA ContinueStep ==
    ASSUME IInv, NEW r \in Requests, NEW st \in Statements,
           NEW L \in SUBSET Locks, NEW S \in SUBSET Sessions,
           Continue(r, st, L, S), SameTable, UNCHANGED <<user, change, ghosts>>,
           \A s \in Sessions : <<"session", s>> \in L =>
               \A q \in Requests \ {r} : ~Holds(q, s),
           Position(r)', Revokes(r)'
    PROVE  IInv'
<1>0. TypeOK
  BY DEF IInv
<1>1. SameOthers(r)
  BY <1>0 DEF SameOthers, Continue, TypeOK
<1>2. TypeOK'
  <2>1. pc' \in [Requests -> Statements]
    BY <1>0 DEF TypeOK, Continue
  <2>2. locks' \in [Requests -> SUBSET Locks] /\ revoking' \in [Requests -> SUBSET Sessions]
    BY <1>0 DEF TypeOK, Continue
  <2>3. /\ user' \in [Users -> Rows]
        /\ who' \in [Requests -> Users \cup {NoUser}] /\ cur' \in [Requests -> Nat]
        /\ copy' \in [Requests -> Rows] /\ change' \in [Requests -> Changes]
        /\ lastCode' \in Nat /\ closings' \in [Users -> Nat]
    BY <1>0 DEF TypeOK, Continue, ghosts
  <2> QED BY <1>0, <2>1, <2>2, <2>3, SameTableType
<1>3. \A s \in Sessions : Holds(r, s)' => Holds(r, s) \/ <<"session", s>> \in L
  BY <1>0 DEF Holds, Continue, TypeOK
<1> QED BY <1>1, <1>2, <1>3, SameTableStep

-----------------------------------------------------------------------------

LEMMA StartsKeep ==
    ASSUME IInv, NEW r \in Requests, Starts(r)
    PROVE  IInv'
<1> USE AuthAssumption
<1>0. TypeOK
  BY DEF IInv
<1>1. ASSUME NEW u \in Users, Login(r, u) PROVE IInv'
  <2>1. copy' \in [Requests -> Rows] /\ change' \in [Requests -> Changes] /\ lastCode' \in Nat
    BY <1>0, <1>1 DEF Login, TypeOK, ghosts
  <2>2. /\ Begin(r, "touchLogin", u, 0) /\ SameTable
        /\ UNCHANGED <<user, closings>>
    BY <1>1 DEF Login, NoSession, SameTable, ghosts
  <2> QED BY <2>1, <2>2, BeginStep
<1>2. ASSUME NEW u \in Users, SendCode(r, u) PROVE IInv'
  <2>1. [user[u] EXCEPT !.resetCode = lastCode + 1] \in Rows
    BY <1>0 DEF TypeOK, Rows
  <2>2. copy' \in [Requests -> Rows] /\ change' \in [Requests -> Changes] /\ lastCode' \in Nat
    BY <1>0, <1>2, <2>1 DEF SendCode, TypeOK
  <2>3. Begin(r, "save", u, 0) /\ SameTable /\ UNCHANGED <<user, closings>>
    BY <1>2 DEF SendCode, NoSession, SameTable
  <2> QED BY <2>2, <2>3, BeginStep
<1>3. ASSUME NEW s \in Sessions, NEW u \in Users, FastLogin(r, s, u) PROVE IInv'
  <2>1. copy' \in [Requests -> Rows] /\ change' \in [Requests -> Changes] /\ lastCode' \in Nat
    BY <1>0, <1>3 DEF FastLogin, TypeOK, ghosts
  <2>2. /\ Begin(r, "touchFast", u, s) /\ SameTable
        /\ UNCHANGED <<user, closings>>
    BY <1>3 DEF FastLogin, SameTable, ghosts
  <2>3. s \in Stored /\ s \in Nat
    BY <1>3 DEF FastLogin, Guard, Live, Stored
  <2> QED BY <2>1, <2>2, <2>3, BeginStep
<1>4. ASSUME NEW s \in Sessions, Refresh(r, s) \/ Logout(r, s) PROVE IInv'
  <2>1. copy' \in [Requests -> Rows] /\ change' \in [Requests -> Changes] /\ lastCode' \in Nat
    BY <1>0, <1>4 DEF Refresh, Logout, TypeOK, ghosts
  <2>2. s \in Stored /\ s \in Nat /\ kind[s] = "primary"
    BY <1>4 DEF Refresh, Logout, Guard, Live, Stored
  <2>3. owner[s] \in Users
    BY <1>0, <2>2 DEF TypeOK, PrimaryOrFast
  <2>4. PICK st \in {"rotate", "logout"} :
           /\ Begin(r, st, owner[s], s)
           /\ SameTable /\ UNCHANGED <<user, closings>>
    BY <1>4 DEF Refresh, Logout, SameTable, ghosts
  <2> QED BY <2>1, <2>2, <2>3, <2>4, BeginStep
<1>5. ASSUME NEW s \in Sessions, SetAppToken(r, s) PROVE IInv'
  <2>1. owner[s] \in Users
    BY <1>0, <1>5 DEF TypeOK, PrimaryOrFast, SetAppToken, Guard, Live
  <2>2. copy' \in [Requests -> Rows] /\ change' \in [Requests -> Changes] /\ lastCode' \in Nat
    BY <1>0, <1>5, <2>1 DEF SetAppToken, TypeOK, ghosts
  <2>3. /\ Begin(r, "save", owner[s], 0) /\ SameTable
        /\ UNCHANGED <<user, closings>>
    BY <1>5 DEF SetAppToken, NoSession, SameTable, ghosts
  <2> QED BY <2>1, <2>2, <2>3, BeginStep
<1>6. ASSUME NEW u \in Users, NEW c \in 1..lastCode, Reset(r, u, c) PROVE IInv'
  <2>1. copy' \in [Requests -> Rows] /\ lastCode' \in Nat /\ c \in Nat
    BY <1>0, <1>6 DEF Reset, TypeOK, ghosts
  <2>2. change' \in [Requests -> Changes]
    BY <1>0, <1>6 DEF Reset, TypeOK, Changes
  <2>3. Begin(r, "change", u, c) /\ SameTable /\ UNCHANGED <<user, closings>>
    BY <1>6 DEF Reset, SameTable, ghosts
  <2> QED BY <2>1, <2>2, <2>3, BeginStep
<1>7. ASSUME NEW u \in Users, NEW what \in Changes, Update(r, u, what) PROVE IInv'
  <2>1. copy' \in [Requests -> Rows] /\ lastCode' \in Nat
    BY <1>0, <1>7 DEF Update, TypeOK, ghosts
  <2>2. change' \in [Requests -> Changes]
    BY <1>0, <1>7 DEF Update, TypeOK
  <2>3. Begin(r, "change", u, 0) /\ SameTable /\ UNCHANGED <<user, closings>>
    BY <1>7 DEF Update, SameTable, ghosts
  <2> QED BY <2>1, <2>2, <2>3, BeginStep
<1> QED BY <1>1, <1>2, <1>3, <1>4, <1>5, <1>6, <1>7 DEF Starts

\* The statements that only lock, or find that they must not go on.
LEMMA LockingKeeps ==
    ASSUME IInv, NEW r \in Requests,
           Touch(r) \/ FastLock(r) \/ Rotate(r) \/ RotateChildren(r)
              \/ LogoutUser(r) \/ LogoutSession(r) \/ CloseOwn(r)
    PROVE  IInv'
<1> USE AuthAssumption
<1>0. TypeOK /\ Position(r) /\ Revokes(r)
  BY DEF IInv, Positions
<1>1. CASE Touch(r)
  <2>1. PICK st \in {"login", "fastLock"} :
           /\ Continue(r, st, {}, {}) /\ SameTable /\ UNCHANGED <<user, change, ghosts>>
           /\ pc[r] = IF st = "login" THEN "touchLogin" ELSE "touchFast"
    BY <1>1 DEF Touch, SameTable
  <2>2. Position(r)'
    BY <1>0, <2>1 DEF Position, Continue, TypeOK, ByPrimary, Closing, SameTable,
        sessionVars, Stored
  <2>3. Revokes(r)'
    BY <1>0, <2>1 DEF Revokes, Continue, TypeOK, Closing, Holds
  <2>4. st \in Statements
    BY DEF Statements
  <2> QED BY <2>1, <2>2, <2>3, <2>4, ContinueStep
<1>2. CASE FastLock(r)
  <2>1. CASE MayBeParent(cur[r])
    <3>1. /\ Continue(r, "fastInsert", SessionLocks({cur[r]}), {})
          /\ SameTable /\ UNCHANGED <<user, change, ghosts>>
          /\ Granted(r) /\ pc[r] = "fastLock"
      BY <1>2, <2>1 DEF FastLock, SameTable
    <3>2. Position(r)'
      BY <1>0, <2>1, <3>1 DEF Position, Continue, TypeOK, ByPrimary, Closing, SameTable,
          sessionVars, Stored, MayBeParent, Live, Holds, SessionLocks
    <3>3. Revokes(r)'
      BY <1>0, <3>1 DEF Revokes, Continue, TypeOK, Closing, Holds
    <3>4. SessionLocks({cur[r]}) \in SUBSET Locks
      BY <1>0, <3>1 DEF SessionLocks, Locks, Position, TypeOK, Stored, Sessions
    <3>5. \A s : <<"session", s>> \in SessionLocks({cur[r]}) => <<"session", s>> \in Wants(r)
      BY <3>1 DEF Wants
    <3>6. \A s \in Sessions : <<"session", s>> \in SessionLocks({cur[r]}) =>
              \A q \in Requests \ {r} : ~Holds(q, s)
      BY <3>1, <3>5, WantedIsFree
    <3>7. "fastInsert" \in Statements /\ {} \in SUBSET Sessions
      BY DEF Statements
    <3> QED BY <3>1, <3>2, <3>3, <3>4, <3>6, <3>7, ContinueStep
  <2>2. CASE ~MayBeParent(cur[r])
    BY <1>0, <1>2, <2>2, EndStep DEF FastLock, SameTable, TypeOK
  <2> QED BY <2>1, <2>2
<1>3. CASE Rotate(r)
  <2>1. CASE RotatesFrom(cur[r])
    <3>1. /\ Continue(r, "rotateChildren", SessionLocks({cur[r]}), {cur[r]})
          /\ SameTable /\ UNCHANGED <<user, change, ghosts>>
          /\ Granted(r) /\ pc[r] = "rotate"
      BY <1>3, <2>1 DEF Rotate, SameTable
    <3>2. Position(r)'
      BY <1>0, <2>1, <3>1 DEF Position, Continue, TypeOK, ByPrimary, Closing, SameTable,
          sessionVars, Stored, RotatesFrom, Live, Holds, SessionLocks
    <3>3. Revokes(r)'
      BY <1>0, <3>1 DEF Revokes, Continue, TypeOK, Closing, Holds, SessionLocks
    <3>4. SessionLocks({cur[r]}) \in SUBSET Locks /\ {cur[r]} \in SUBSET Sessions
      BY <1>0, <3>1 DEF SessionLocks, Locks, Position, ByPrimary, TypeOK, Stored, Sessions
    <3>5. \A s : <<"session", s>> \in SessionLocks({cur[r]}) => <<"session", s>> \in Wants(r)
      BY <3>1 DEF Wants
    <3> QED BY <3>1, <3>2, <3>3, <3>4, <3>5, WantedIsFree, ContinueStep DEF Statements
  <2>2. CASE ~RotatesFrom(cur[r])
    BY <1>0, <1>3, <2>2, EndStep DEF Rotate, SameTable, TypeOK
  <2> QED BY <2>1, <2>2
<1>4. CASE RotateChildren(r)
  <2> DEFINE L == SessionLocks(ChildrenOf(cur[r])) \cup {ParentRange(cur[r])}
  <2>1. /\ Continue(r, "rotateInsert", L, ChildrenOf(cur[r]))
        /\ SameTable /\ UNCHANGED <<user, change, ghosts>>
        /\ Granted(r) /\ pc[r] = "rotateChildren"
    BY <1>4 DEF RotateChildren, SameTable
  <2>2. Position(r)'
    BY <1>0, <2>1 DEF Position, Continue, TypeOK, ByPrimary, Closing, SameTable,
        sessionVars, Stored, Live, Holds
  <2>3. Revokes(r)'
    BY <1>0, <2>1 DEF Revokes, Continue, TypeOK, Closing, Holds, SessionLocks, ChildrenOf,
        SameTable, sessionVars, Stored
  <2>4. L \in SUBSET Locks /\ ChildrenOf(cur[r]) \in SUBSET Sessions
    BY <1>0, <2>1 DEF SessionLocks, ParentRange, Locks, Position, ByPrimary, TypeOK, Stored,
        Sessions, ChildrenOf
  <2>5. \A s : <<"session", s>> \in L => <<"session", s>> \in Wants(r)
    BY <2>1 DEF Wants, ParentRange
  <2> HIDE DEF L
  <2> QED BY <2>1, <2>2, <2>3, <2>4, <2>5, WantedIsFree, ContinueStep DEF Statements
<1>5. CASE LogoutUser(r)
  <2>1. /\ Continue(r, "logoutSession", {UserLock(who[r])}, {})
        /\ SameTable /\ UNCHANGED <<user, change, ghosts>>
        /\ pc[r] = "logout"
    BY <1>5 DEF LogoutUser, SameTable
  <2>2. Position(r)'
    BY <1>0, <2>1 DEF Position, Continue, TypeOK, ByPrimary, Closing, SameTable,
        sessionVars, Stored
  <2>3. Revokes(r)'
    BY <1>0, <2>1 DEF Revokes, Continue, TypeOK, Closing, Holds
  <2>4. {UserLock(who[r])} \in SUBSET Locks
    BY <1>0, <2>1 DEF UserLock, Locks, Position
  <2>5. \A s : <<"session", s>> \notin {UserLock(who[r])}
    BY DEF UserLock
  <2> QED BY <2>1, <2>2, <2>3, <2>4, <2>5, ContinueStep DEF Statements
<1>6. CASE LogoutSession(r)
  <2>1. CASE Live(cur[r])
    <3>1. /\ Continue(r, "logoutChildren", SessionLocks({cur[r]}), {cur[r]})
          /\ SameTable /\ UNCHANGED <<user, change, ghosts>>
          /\ Granted(r) /\ pc[r] = "logoutSession"
      BY <1>6, <2>1 DEF LogoutSession, SameTable
    <3>2. Position(r)'
      BY <1>0, <2>1, <3>1 DEF Position, Continue, TypeOK, ByPrimary, Closing, SameTable,
          sessionVars, Stored, Live, Holds, SessionLocks
    <3>3. Revokes(r)'
      BY <1>0, <3>1 DEF Revokes, Continue, TypeOK, Closing, Holds, SessionLocks
    <3>4. SessionLocks({cur[r]}) \in SUBSET Locks /\ {cur[r]} \in SUBSET Sessions
      BY <1>0, <3>1 DEF SessionLocks, Locks, Position, ByPrimary, TypeOK, Stored, Sessions
    <3>5. \A s : <<"session", s>> \in SessionLocks({cur[r]}) => <<"session", s>> \in Wants(r)
      BY <3>1 DEF Wants
    <3> QED BY <3>1, <3>2, <3>3, <3>4, <3>5, WantedIsFree, ContinueStep DEF Statements
  <2>2. CASE ~Live(cur[r])
    BY <1>0, <1>6, <2>2, EndStep DEF LogoutSession, SameTable, TypeOK
  <2> QED BY <2>1, <2>2
<1>7. CASE CloseOwn(r)
  <2> DEFINE L == SessionLocks(OwnedBy(who[r])) \cup {OwnerRange(who[r])}
  <2>1. /\ Continue(r, "closeActed", L, OwnedBy(who[r]))
        /\ SameTable /\ UNCHANGED <<user, change, ghosts>>
        /\ Granted(r) /\ pc[r] = "closeOwn"
    BY <1>7 DEF CloseOwn, SameTable
  <2>2. Position(r)'
    BY <1>0, <2>1 DEF Position, Continue, TypeOK, ByPrimary, Closing
  <2>3. Revokes(r)'
    BY <1>0, <2>1 DEF Revokes, Continue, TypeOK, Closing, Holds, SessionLocks, OwnedBy,
        SameTable, sessionVars, Stored
  <2>4. L \in SUBSET Locks /\ OwnedBy(who[r]) \in SUBSET Sessions
    BY <1>0, <2>1 DEF SessionLocks, OwnerRange, Locks, Position, TypeOK, Stored,
        Sessions, OwnedBy
  <2>5. \A s : <<"session", s>> \in L => <<"session", s>> \in Wants(r)
    BY <2>1 DEF Wants, OwnerRange
  <2> HIDE DEF L
  <2> QED BY <2>1, <2>2, <2>3, <2>4, <2>5, WantedIsFree, ContinueStep DEF Statements
<1> QED BY <1>1, <1>2, <1>3, <1>4, <1>5, <1>6, <1>7

\* The steps on the user's row.
LEMMA UserRowKeeps ==
    ASSUME IInv, NEW r \in Requests, ChangeUser(r) \/ SaveUser(r) \/ Fails(r)
    PROVE  IInv'
<1>0. TypeOK /\ Position(r) /\ Revokes(r)
  BY DEF IInv, Positions
<1>1. CASE Fails(r)
  BY <1>0, <1>1, EndStep DEF Fails, SameTable, TypeOK
<1>2. CASE SaveUser(r)
  <2>1. user' \in [Users -> Rows]
    BY <1>0, <1>2 DEF SaveUser, TypeOK
  <2> QED BY <1>2, <2>1, EndStep DEF SaveUser, SameTable
<1>3. ASSUME ChangeUser(r), NEW st \in {"closeOwn", "closeFast"},
             Continue(r, st, {UserLock(who[r])}, {}), UNCHANGED <<user, change>>
      PROVE  IInv'
  <2>1. SameTable /\ UNCHANGED <<user, change, ghosts>> /\ pc[r] = "change"
    BY <1>3 DEF ChangeUser, SameTable
  <2>2. Position(r)'
    BY <1>0, <1>3, <2>1 DEF Position, Continue, TypeOK, ByPrimary, Closing
  <2>3. Revokes(r)'
    BY <1>0, <1>3, <2>1 DEF Revokes, Continue, TypeOK, Closing, Holds
  <2>4. {UserLock(who[r])} \in SUBSET Locks /\ {} \in SUBSET Sessions
    BY <1>0, <2>1 DEF UserLock, Locks, Position
  <2>5. \A s : <<"session", s>> \notin {UserLock(who[r])}
    BY DEF UserLock
  <2>6. st \in Statements
    BY DEF Statements
  <2> QED BY <1>3, <2>1, <2>2, <2>3, <2>4, <2>5, <2>6, ContinueStep
<1>4. ASSUME ChangeUser(r), End(r), user' = [user EXCEPT ![who[r]].active = TRUE]
      PROVE  IInv'
  <2>1. user' \in [Users -> Rows]
    BY <1>0, <1>4 DEF TypeOK, Rows
  <2> QED BY <1>4, <2>1, EndStep DEF ChangeUser, SameTable
<1>5. ASSUME ChangeUser(r), End(r), UNCHANGED user
      PROVE  IInv'
  BY <1>0, <1>5, EndStep DEF ChangeUser, SameTable, TypeOK
<1> QED BY <1>1, <1>2, <1>3, <1>4, <1>5 DEF ChangeUser

-----------------------------------------------------------------------------

(***************************************************************************)
(* Steps that insert a row or commit revocations.                          *)
(***************************************************************************)

NewRow == lastSession + 1

\* The sessions in C are revoked, and a row may have been inserted.
TableStep(C) ==
    /\ lastSession' \in {lastSession, NewRow}
    /\ \A s \in Stored :
          /\ kind'[s] = kind[s] /\ owner'[s] = owner[s] /\ actor'[s] = actor[s]
          /\ parent'[s] = parent[s] /\ replaces'[s] = replaces[s]
          /\ revoked'[s] <=> (revoked[s] \/ s \in C)

Unlocked(r, C) == \A q \in Requests \ {r} : \A s \in C : ~Holds(q, s)

\* The row inserted is outside what other transactions have read.
OutOfRange(r) ==
    lastSession' # lastSession =>
        \A q \in Requests \ {r} :
            /\ Holds(q, parent'[NewRow]) => parent'[NewRow] = 0
            /\ OwnerRange(owner'[NewRow]) \notin locks[q]

LEMMA TableStepOthers ==
    ASSUME IInv, NEW r \in Requests, NEW C, TableStep(C), SameOthers(r),
           Unlocked(r, C), OutOfRange(r)
    PROVE  \A q \in Requests \ {r} : Position(q)' /\ Revokes(q)'
<1> TAKE q \in Requests \ {r}
<1>0. TypeOK /\ Position(q) /\ Revokes(q) /\ lastSession \in Nat
  BY AuthAssumption DEF IInv, Positions, TypeOK
<1>1. \A s \in Stored : s \in Stored' /\ s # NewRow
  BY <1>0 DEF TableStep, Stored, NewRow
<1>2. \A s : Holds(q, s)' <=> Holds(q, s)
  BY DEF SameOthers, Holds
<1>3. \A s \in Stored : Holds(q, s) => (revoked'[s] <=> revoked[s])
  BY DEF TableStep, Unlocked
<1>4. Position(q)'
  BY <1>0, <1>1, <1>2, <1>3 DEF Position, SameOthers, TableStep, MayBeParent, Live, ByPrimary
<1>5. \A s \in Stored' : s \in Stored \/ (s = NewRow /\ lastSession' # lastSession)
  BY <1>0 DEF TableStep, Stored, NewRow
<1>6. pc[q] = "rotateInsert" => ChildrenOf(cur[q])' = ChildrenOf(cur[q])
  <2> SUFFICES ASSUME pc[q] = "rotateInsert" PROVE ChildrenOf(cur[q])' = ChildrenOf(cur[q])
    OBVIOUS
  <2>1. Holds(q, cur[q]) /\ cur'[q] = cur[q] /\ cur[q] # 0
    BY <1>0 DEF Position, Closing, SameOthers, ByPrimary, Stored
  <2>2. \A s \in ChildrenOf(cur[q]) : Holds(q, s)
    BY <1>0 DEF Revokes
  <2>3. ASSUME NEW s \in ChildrenOf(cur[q]) PROVE s \in ChildrenOf(cur[q])'
    BY <1>1, <1>3, <2>1, <2>2, <2>3 DEF ChildrenOf, TableStep
  <2>4. ASSUME NEW s \in ChildrenOf(cur[q])' PROVE s \in ChildrenOf(cur[q])
    <3>1. s \in Stored
      BY <1>5, <2>1, <2>4 DEF ChildrenOf, OutOfRange
    <3>2. ~revoked[s]
      BY <2>4, <3>1 DEF ChildrenOf, TableStep
    <3>3. parent[s] = cur[q]
      BY <2>1, <2>4, <3>1 DEF ChildrenOf, TableStep
    <3> QED BY <3>1, <3>2, <3>3 DEF ChildrenOf
  <2> QED BY <2>3, <2>4
<1>7. pc[q] = "closeActed" => OwnedBy(who[q])' = OwnedBy(who[q])
  <2> SUFFICES ASSUME pc[q] = "closeActed" PROVE OwnedBy(who[q])' = OwnedBy(who[q])
    OBVIOUS
  <2>1. OwnerRange(who[q]) \in locks[q] /\ who'[q] = who[q]
    BY <1>0 DEF Revokes, SameOthers
  <2>2. \A s \in OwnedBy(who[q]) : Holds(q, s)
    BY <1>0 DEF Revokes
  <2>3. ASSUME NEW s \in OwnedBy(who[q]) PROVE s \in OwnedBy(who[q])'
    BY <1>1, <1>3, <2>1, <2>2, <2>3 DEF OwnedBy, TableStep
  <2>4. ASSUME NEW s \in OwnedBy(who[q])' PROVE s \in OwnedBy(who[q])
    <3>1. s \in Stored
      BY <1>5, <2>1, <2>4 DEF OwnedBy, OutOfRange, OwnerRange
    <3>2. ~revoked[s]
      BY <2>4, <3>1 DEF OwnedBy, TableStep
    <3>3. owner[s] = who[q]
      BY <2>1, <2>4, <3>1 DEF OwnedBy, TableStep
    <3> QED BY <3>1, <3>2, <3>3 DEF OwnedBy
  <2> QED BY <2>3, <2>4
<1>8. Revokes(q)'
  BY <1>0, <1>2, <1>6, <1>7 DEF Revokes, SameOthers, Closing
<1> QED BY <1>4, <1>8

\* What is revoked takes the fast sessions below it along, and the new row is a
\* primary session or stands on one that stays.
LEMMA TableStepFast ==
    ASSUME IInv, NEW C, TableStep(C),
           \A s \in Stored : kind[s] = "fast" /\ ~revoked[s] /\ parent[s] \in C => s \in C,
           lastSession' # lastSession /\ kind'[NewRow] = "fast" =>
               /\ MayBeParent(parent'[NewRow]) /\ parent'[NewRow] \notin C
               /\ owner[parent'[NewRow]] = actor'[NewRow]
    PROVE  FastNeedsPrimary'
<1>0. TypeOK /\ FastNeedsPrimary /\ lastSession \in Nat
  BY AuthAssumption DEF IInv, TypeOK
<1>1. \A s \in Stored : s \in Stored' /\ s \in Sessions
  BY <1>0, AuthAssumption DEF TableStep, Stored, NewRow, Sessions, TypeOK
<1>2. \A s \in Stored' : s \in Stored \/ (s = NewRow /\ lastSession' # lastSession)
  BY <1>0 DEF TableStep, Stored, NewRow
<1>3. ASSUME NEW s \in Sessions, Live(s)', kind'[s] = "fast"
      PROVE  Live(parent[s])' /\ kind'[parent'[s]] = "primary" /\ owner'[parent'[s]] = actor'[s]
  <2>1. CASE s \in Stored
    <3>1. kind[s] = "fast" /\ ~revoked[s] /\ s \notin C /\ parent'[s] = parent[s]
      BY <1>3, <2>1 DEF TableStep, Live
    <3>2. Live(parent[s]) /\ kind[parent[s]] = "primary" /\ owner[parent[s]] = actor[s]
      BY <1>0, <2>1, <3>1 DEF FastNeedsPrimary, Live
    <3>3. parent[s] \notin C
      BY <2>1, <3>1
    <3> QED BY <1>1, <2>1, <3>1, <3>2, <3>3 DEF Live, TableStep
  <2>2. CASE s = NewRow /\ lastSession' # lastSession
    BY <1>1, <1>3, <2>2 DEF Live, TableStep, MayBeParent
  <2> QED BY <1>2, <1>3, <2>1, <2>2 DEF Live
<1> QED BY <1>3 DEF FastNeedsPrimary

LEMMA TableStepReplaced ==
    ASSUME IInv, NEW C, TableStep(C),
           lastSession' # lastSession /\ replaces'[NewRow] # 0 =>
               Live(replaces'[NewRow]) /\ replaces'[NewRow] \in C
    PROVE  ReplacedOnce'
<1>0. TypeOK /\ ReplacedOnce /\ lastSession \in Nat
  BY AuthAssumption DEF IInv, TypeOK
<1>1. \A s \in Stored : s \in Stored' /\ s # NewRow
  BY <1>0 DEF TableStep, Stored, NewRow
<1>2. \A s \in Stored' : s \in Stored \/ (s = NewRow /\ lastSession' # lastSession)
  BY <1>0 DEF TableStep, Stored, NewRow
<1>3. ASSUME NEW s \in Stored', replaces'[s] # 0 PROVE revoked'[replaces'[s]]
  <2>1. CASE s \in Stored
    <3>1. replaces'[s] = replaces[s] /\ replaces[s] \in Stored /\ revoked[replaces[s]]
      BY <1>0, <1>3, <2>1 DEF TableStep, ReplacedOnce, NoSession, TypeOK, PrimaryOrFast
    <3> QED BY <3>1 DEF TableStep
  <2>2. CASE s = NewRow /\ lastSession' # lastSession
    BY <1>3, <2>2 DEF TableStep, Live
  <2> QED BY <1>2, <2>1, <2>2
<1>4. \A s, t \in Stored' : replaces'[s] # 0 /\ s # t => replaces'[t] # replaces'[s]
  BY <1>0, <1>1, <1>2 DEF TableStep, ReplacedOnce, Live, NoSession
<1> QED BY <1>3, <1>4 DEF ReplacedOnce, NoSession

TableType ==
    /\ lastSession \in 0..MaxSessions
    /\ kind \in [Sessions -> {"none", "primary", "fast"}]
    /\ owner \in [Sessions -> Users \cup {NoUser}]
    /\ actor \in [Sessions -> Users \cup {NoUser}]
    /\ parent \in [Sessions -> 0..MaxSessions]
    /\ revoked \in [Sessions -> BOOLEAN]
    /\ replaces \in [Sessions -> 0..MaxSessions]
    /\ \A s \in Stored : PrimaryOrFast(s)

LEMMA EndType ==
    ASSUME TypeOK, NEW r \in Requests, End(r), TableType',
           user' \in [Users -> Rows],
           lastCode' \in Nat, closings' \in [Users -> Nat]
    PROVE  TypeOK'
<1>1. pc' \in [Requests -> Statements] /\ change' \in [Requests -> Changes]
  BY DEF TypeOK, End, Statements, Changes
<1>2. who' \in [Requests -> Users \cup {NoUser}] /\ cur' \in [Requests -> Nat]
  BY DEF TypeOK, End
<1>3. copy' \in [Requests -> Rows]
  BY NoRowType DEF TypeOK, End
<1>4. locks' \in [Requests -> SUBSET Locks] /\ revoking' \in [Requests -> SUBSET Sessions]
  BY DEF TypeOK, End
<1> QED BY <1>1, <1>2, <1>3, <1>4 DEF TypeOK, TableType

LEMMA InsertTable ==
    ASSUME TypeOK,
           NEW k, NEW o \in Users, NEW a \in Users \cup {NoUser},
           NEW p \in Stored \cup {NoSession}, NEW old \in Stored \cup {NoSession},
           Insert(k, o, a, p, old),
           \/ k = "primary" /\ a = NoUser /\ p = NoSession
           \/ k = "fast" /\ a \in Users /\ p \in Stored,
           NEW C, revoked' = [s \in Sessions |-> revoked[s] \/ s \in C]
    PROVE  /\ TableType' /\ TableStep(C)
           /\ lastSession' = NewRow
           /\ kind'[NewRow] = k /\ owner'[NewRow] = o /\ actor'[NewRow] = a
           /\ parent'[NewRow] = p /\ replaces'[NewRow] = old
<1> USE AuthAssumption DEF TypeOK, Insert, NewRow, NoSession
<1>1. lastSession \in Nat /\ NewRow \in Sessions /\ lastSession' = NewRow
  BY DEF Sessions
<1>2. /\ kind'[NewRow] = k /\ owner'[NewRow] = o /\ actor'[NewRow] = a
      /\ parent'[NewRow] = p /\ replaces'[NewRow] = old
  BY <1>1
<1>3. \A s \in Stored : s \in Sessions /\ s # NewRow
  BY <1>1 DEF Stored, Sessions
<1>4. TableStep(C)
  BY <1>1, <1>3 DEF TableStep
<1>5. \A s \in Stored' : s \in Stored \/ s = NewRow
  BY <1>1 DEF Stored
<1>6. \A s \in Stored : s \in Stored'
  BY <1>1 DEF Stored
<1>7. ASSUME NEW s \in Stored' PROVE PrimaryOrFast(s)'
  <2>1. CASE s \in Stored
    BY <1>3, <1>6, <2>1 DEF PrimaryOrFast
  <2>2. CASE s = NewRow
    BY <1>2, <1>6, <2>2 DEF PrimaryOrFast
  <2> QED BY <1>5, <2>1, <2>2
<1>8. lastSession' \in 0..MaxSessions
  BY <1>1 DEF Sessions
<1>9. Stored \cup {0} \subseteq 0..MaxSessions
  BY <1>1 DEF Stored
<1>10. /\ kind' \in [Sessions -> {"none", "primary", "fast"}]
       /\ owner' \in [Sessions -> Users \cup {NoUser}]
       /\ actor' \in [Sessions -> Users \cup {NoUser}]
       /\ parent' \in [Sessions -> 0..MaxSessions]
       /\ replaces' \in [Sessions -> 0..MaxSessions]
       /\ revoked' \in [Sessions -> BOOLEAN]
  BY <1>9
<1> QED BY <1>1, <1>2, <1>4, <1>7, <1>8, <1>10 DEF TableType

LEMMA RevokeTable ==
    ASSUME TypeOK, rowsKept, NEW C,
           revoked' = [s \in Sessions |-> revoked[s] \/ s \in C]
    PROVE  TableType' /\ TableStep(C) /\ lastSession' = lastSession
<1> USE AuthAssumption DEF TypeOK, rowsKept
<1>1. \A s \in Stored : s \in Sessions
  BY DEF Stored, Sessions
<1>2. TableStep(C)
  BY <1>1 DEF TableStep
<1>3. \A s \in Stored' : PrimaryOrFast(s)'
  BY DEF PrimaryOrFast, Stored
<1>4. revoked' \in [Sessions -> BOOLEAN]
  OBVIOUS
<1> QED BY <1>2, <1>3, <1>4 DEF TableType

LEMMA TableEnd ==
    ASSUME IInv, NEW r \in Requests, NEW C, End(r), TableType', TableStep(C),
           user' \in [Users -> Rows],
           lastCode' \in Nat, closings' \in [Users -> Nat],
           Unlocked(r, C), OutOfRange(r),
           \A s \in Stored : kind[s] = "fast" /\ ~revoked[s] /\ parent[s] \in C => s \in C,
           lastSession' # lastSession /\ kind'[NewRow] = "fast" =>
               /\ MayBeParent(parent'[NewRow]) /\ parent'[NewRow] \notin C
               /\ owner[parent'[NewRow]] = actor'[NewRow],
           lastSession' # lastSession /\ replaces'[NewRow] # 0 =>
               Live(replaces'[NewRow]) /\ replaces'[NewRow] \in C
    PROVE  IInv'
<1>1. SameOthers(r) /\ Position(r)' /\ Revokes(r)'
  BY EndIsIdle DEF IInv
<1>2. TypeOK'
  BY EndType DEF IInv
<1>3. \A s \in Sessions : ~Holds(r, s)'
  BY DEF IInv, TypeOK, End, Holds
<1>4. Exclusive'
  BY <1>1, <1>3, LocksStayExclusive DEF IInv
<1>5. Positions'
  BY <1>1, TableStepOthers DEF Positions
<1>6. FastNeedsPrimary' /\ ReplacedOnce'
  BY TableStepFast, TableStepReplaced
<1> QED BY <1>2, <1>4, <1>5, <1>6 DEF IInv

-----------------------------------------------------------------------------

\* Of a live fast session the parent is stored, live, primary and its actor's.
LEMMA ParentOfFast ==
    ASSUME IInv, NEW s \in Stored, kind[s] = "fast", ~revoked[s]
    PROVE  /\ parent[s] \in Stored /\ kind[parent[s]] = "primary" /\ ~revoked[parent[s]]
           /\ owner[parent[s]] = actor[s] /\ actor[parent[s]] = NoUser
           /\ parent[parent[s]] = 0
<1>1. s \in Sessions /\ Live(s) /\ TypeOK /\ FastNeedsPrimary
  BY AuthAssumption DEF IInv, TypeOK, Stored, Sessions, Live
<1>2. Live(parent[s]) /\ kind[parent[s]] = "primary" /\ owner[parent[s]] = actor[s]
  BY <1>1 DEF FastNeedsPrimary
<1>3. PrimaryOrFast(parent[s])
  BY <1>1, <1>2 DEF TypeOK, Live
<1> QED BY <1>2, <1>3 DEF Live, PrimaryOrFast, NoSession

\* What a request holds, or is about to revoke, no one else holds.
LEMMA HeldIsUnlocked ==
    ASSUME IInv, NEW r \in Requests, NEW C \in SUBSET Sessions,
           \A s \in C : Holds(r, s) \/ (Granted(r) /\ <<"session", s>> \in Wants(r))
    PROVE  Unlocked(r, C)
BY WantedIsFree DEF IInv, Exclusive, Unlocked

LEMMA InsertsKeep ==
    ASSUME IInv, NEW r \in Requests, LoginInsert(r) \/ FastInsert(r) \/ RotateInsert(r)
    PROVE  IInv'
<1>0. TypeOK /\ Position(r) /\ Revokes(r) /\ Granted(r)
  BY DEF IInv, Positions, LoginInsert, FastInsert, RotateInsert
<1>1. who[r] \in Users /\ End(r) /\ UNCHANGED <<user, ghosts>>
  BY <1>0 DEF Position, LoginInsert, FastInsert, RotateInsert
<1>2. /\ user' \in [Users -> Rows] /\ lastCode' \in Nat
      /\ closings' \in [Users -> Nat]
  BY <1>0, <1>1 DEF TypeOK, ghosts
<1>3. \A q \in Requests \ {r} : OwnerRange(who[r]) \notin locks[q]
  <2>1. OwnerRange(who[r]) \in Wants(r)
    BY DEF Wants, FastInsertWants, LoginInsert, FastInsert, RotateInsert
  <2> QED BY <1>0, <2>1 DEF Granted, Blocks
<1>4. CASE LoginInsert(r)
  <2>1. revoked' = [s \in Sessions |-> revoked[s] \/ s \in {}]
    BY <1>0, <1>4 DEF LoginInsert, TypeOK
  <2>2. /\ TableType' /\ TableStep({}) /\ lastSession' = NewRow
        /\ kind'[NewRow] = "primary" /\ owner'[NewRow] = who[r]
        /\ parent'[NewRow] = 0 /\ replaces'[NewRow] = 0
    BY <1>0, <1>1, <1>4, <2>1, InsertTable DEF LoginInsert, NoSession
  <2>3. Unlocked(r, {}) /\ OutOfRange(r)
    BY <1>3, <2>2 DEF Unlocked, OutOfRange
  <2> QED BY <1>1, <1>2, <2>2, <2>3, TableEnd
<1>5. CASE FastInsert(r)
  <2>1. Holds(r, cur[r]) /\ MayBeParent(cur[r]) /\ cur[r] \in Stored
    BY <1>0, <1>5 DEF FastInsert, Position
  <2>2. owner[cur[r]] \in Users /\ cur[r] \in Sessions
    BY <1>0, <2>1, AuthAssumption DEF TypeOK, PrimaryOrFast, Stored, Sessions
  <2>3. revoked' = [s \in Sessions |-> revoked[s] \/ s \in {}]
    BY <1>0, <1>5 DEF FastInsert, TypeOK
  <2>4. /\ TableType' /\ TableStep({}) /\ lastSession' = NewRow
        /\ owner'[NewRow] = who[r] /\ actor'[NewRow] = owner[cur[r]]
        /\ parent'[NewRow] = cur[r] /\ replaces'[NewRow] = 0
    <3>1. Insert("fast", who[r], owner[cur[r]], cur[r], 0)
      BY <1>5 DEF FastInsert, NoSession
    <3>2. cur[r] \in Stored \cup {NoSession} /\ 0 \in Stored \cup {NoSession}
      BY <2>1 DEF NoSession
    <3>3. owner[cur[r]] \in Users \cup {NoUser}
      BY <2>2
    <3>4. /\ TableType' /\ TableStep({}) /\ lastSession' = NewRow
          /\ kind'[NewRow] = "fast" /\ owner'[NewRow] = who[r]
          /\ actor'[NewRow] = owner[cur[r]]
          /\ parent'[NewRow] = cur[r] /\ replaces'[NewRow] = 0
      BY ONLY <1>0, <1>1, <2>1, <2>2, <2>3, <3>1, <3>2, <3>3, InsertTable
    <3> QED BY <3>4
  <2>5. \A q \in Requests \ {r} : ~Holds(q, cur[r])
    BY <2>1, <2>2 DEF IInv, Exclusive
  <2>6. Unlocked(r, {}) /\ OutOfRange(r)
    BY <1>3, <2>4, <2>5 DEF Unlocked, OutOfRange
  <2> QED BY <1>1, <1>2, <2>1, <2>4, <2>6, TableEnd
<1>6. CASE RotateInsert(r)
  <2> DEFINE C == revoking[r]
  <2>1. /\ Holds(r, cur[r]) /\ Live(cur[r]) /\ cur[r] \in Stored /\ cur[r] # 0
        /\ C = {cur[r]} \cup ChildrenOf(cur[r])
    BY <1>0, <1>6 DEF RotateInsert, Position, ByPrimary, Closing, Revokes, Stored
  <2>2. revoked' = [s \in Sessions |-> revoked[s] \/ s \in C]
    BY <1>6 DEF RotateInsert, Revoke
  <2>3. /\ TableType' /\ TableStep(C) /\ lastSession' = NewRow
        /\ kind'[NewRow] = "primary" /\ owner'[NewRow] = who[r]
        /\ parent'[NewRow] = 0 /\ replaces'[NewRow] = cur[r]
    <3>1. Insert("primary", who[r], NoUser, 0, cur[r])
      BY <1>6 DEF RotateInsert, NoSession
    <3>2. cur[r] \in Stored \cup {NoSession} /\ 0 \in Stored \cup {NoSession}
      BY <2>1 DEF NoSession
    <3>3. NoUser \in Users \cup {NoUser} /\ 0 = NoSession
      BY DEF NoSession
    <3> HIDE DEF C
    <3> QED BY ONLY <1>0, <1>1, <2>1, <2>2, <3>1, <3>2, <3>3, InsertTable
  <2>4. \A s \in Stored : kind[s] = "fast" /\ ~revoked[s] /\ parent[s] \in C => s \in C
    BY <2>1, ParentOfFast DEF ChildrenOf
  <2>5. C \in SUBSET Sessions /\ \A s \in C : Holds(r, s)
    BY <1>0 DEF TypeOK, Revokes
  <2>6. Unlocked(r, C)
    BY <2>5, HeldIsUnlocked
  <2>7. OutOfRange(r)
    BY <1>3, <2>3 DEF OutOfRange
  <2>8. Live(replaces'[NewRow]) /\ replaces'[NewRow] \in C
    BY <2>1, <2>3
  <2> HIDE DEF C
  <2> QED BY <1>1, <1>2, <2>3, <2>4, <2>6, <2>7, <2>8, TableEnd
<1> QED BY <1>4, <1>5, <1>6

LEMMA RevocationsKeep ==
    ASSUME IInv, NEW r \in Requests, LogoutChildren(r) \/ CloseActed(r) \/ CloseFast(r)
    PROVE  IInv'
<1>0. TypeOK /\ Position(r) /\ Revokes(r) /\ Granted(r) /\ End(r) /\ rowsKept
  BY DEF IInv, Positions, LogoutChildren, CloseActed, CloseFast
<1>1. who[r] \in Users /\ lastSession' = lastSession /\ \A s \in Stored : s \in Sessions
  BY <1>0, AuthAssumption DEF Position, LogoutChildren, CloseActed, CloseFast, rowsKept,
      TypeOK, Stored, Sessions
<1>2. ASSUME NEW D \in SUBSET Stored, Revoke(r, D),
             \A s \in D : <<"session", s>> \in Wants(r),
             \A s \in Stored : kind[s] = "fast" /\ ~revoked[s]
                  /\ parent[s] \in revoking[r] \cup D => s \in revoking[r] \cup D,
             user' \in [Users -> Rows], lastCode' \in Nat,
             closings' \in [Users -> Nat]
      PROVE  IInv'
  <2> DEFINE C == revoking[r] \cup D
  <2>1. TableType' /\ TableStep(C)
    BY <1>0, <1>2, RevokeTable DEF Revoke
  <2>2. C \in SUBSET Sessions
    BY <1>0, <1>1 DEF TypeOK
  <2>3. \A s \in C : Holds(r, s) \/ (Granted(r) /\ <<"session", s>> \in Wants(r))
    BY <1>0, <1>2 DEF Revokes
  <2>4. Unlocked(r, C) /\ OutOfRange(r)
    BY <1>1, <2>2, <2>3, HeldIsUnlocked DEF OutOfRange
  <2>5. \A s \in Stored : kind[s] = "fast" /\ ~revoked[s] /\ parent[s] \in C => s \in C
    BY <1>2
  <2> HIDE DEF C
  <2> QED BY <1>0, <1>1, <1>2, <2>1, <2>4, <2>5, TableEnd
<1>3. CASE LogoutChildren(r)
  <2>1. /\ revoking[r] = {cur[r]} /\ cur[r] \in Stored /\ cur[r] # 0
        /\ pc[r] = "logoutChildren"
    BY <1>0, <1>3 DEF LogoutChildren, Position, ByPrimary, Revokes, Stored
  <2>2. ChildrenOf(cur[r]) \in SUBSET Stored /\ Revoke(r, ChildrenOf(cur[r]))
    BY <1>3 DEF LogoutChildren, ChildrenOf
  <2>3. \A s \in ChildrenOf(cur[r]) : <<"session", s>> \in Wants(r)
    BY <2>1 DEF Wants, SessionLocks
  <2>4. \A s \in Stored : kind[s] = "fast" /\ ~revoked[s]
            /\ parent[s] \in revoking[r] \cup ChildrenOf(cur[r])
            => s \in revoking[r] \cup ChildrenOf(cur[r])
    BY <2>1, ParentOfFast DEF ChildrenOf
  <2>5. /\ user' \in [Users -> Rows] /\ lastCode' \in Nat
        /\ closings' \in [Users -> Nat]
    BY <1>0, <1>3 DEF LogoutChildren, TypeOK, ghosts
  <2> QED BY <1>2, <2>2, <2>3, <2>4, <2>5
<1>4. CASE CloseActed(r)
  <2>1. revoking[r] = OwnedBy(who[r]) /\ pc[r] = "closeActed"
    BY <1>0, <1>4 DEF CloseActed, Revokes
  <2>2. ActedBy(who[r]) \in SUBSET Stored /\ Revoke(r, ActedBy(who[r]))
    BY <1>4 DEF CloseActed, ActedBy
  <2>3. \A s \in ActedBy(who[r]) : <<"session", s>> \in Wants(r)
    BY <2>1 DEF Wants, SessionLocks
  <2>4. \A s \in Stored : kind[s] = "fast" /\ ~revoked[s]
            /\ parent[s] \in revoking[r] \cup ActedBy(who[r])
            => s \in revoking[r] \cup ActedBy(who[r])
    BY <1>1, <2>1, ParentOfFast, AuthAssumption DEF OwnedBy, ActedBy
  <2>5. user' \in [Users -> Rows]
    <3> DEFINE n == closings[who[r]] + 1
    <3>1. user[who[r]] \in Rows /\ n \in Nat
      BY <1>0, <1>1 DEF TypeOK
    <3>2. Changed(user[who[r]], change[r], n) \in Rows
      BY <3>1 DEF Changed, Rows, NoCode
    <3>3. user' = [user EXCEPT ![who[r]] = Changed(user[who[r]], change[r], n)]
      BY <1>4 DEF CloseActed
    <3> HIDE DEF n
    <3> QED BY <1>0, <3>2, <3>3 DEF TypeOK
  <2>6. lastCode' \in Nat /\ closings' \in [Users -> Nat]
    <3>1. lastCode' \in Nat
      BY <1>0, <1>4 DEF CloseActed, TypeOK
    <3>2. closings' \in [Users -> Nat]
      <4>1. closings \in [Users -> Nat] /\ closings[who[r]] + 1 \in Nat
        BY <1>0, <1>1 DEF TypeOK
      <4>2. closings' = [closings EXCEPT ![who[r]] = closings[who[r]] + 1]
        BY <1>4 DEF CloseActed
      <4> QED BY <4>1, <4>2
    <3> QED BY <3>1, <3>2
  <2> QED BY <1>2, <2>2, <2>3, <2>4, <2>5, <2>6
<1>5. CASE CloseFast(r)
  <2> DEFINE D == {s \in OwnedBy(who[r]) : kind[s] = "fast"}
  <2>1. revoking[r] = {} /\ pc[r] = "closeFast"
    BY <1>0, <1>5 DEF CloseFast, Revokes, Closing
  <2>2. D \in SUBSET Stored /\ Revoke(r, D)
    BY <1>5 DEF CloseFast, OwnedBy
  <2>3. \A s \in D : <<"session", s>> \in Wants(r)
    BY <2>1 DEF Wants, SessionLocks
  <2>4. \A s \in Stored : kind[s] = "fast" /\ ~revoked[s]
            /\ parent[s] \in revoking[r] \cup D => s \in revoking[r] \cup D
    BY <2>1, ParentOfFast
  <2>5. /\ user' \in [Users -> Rows] /\ lastCode' \in Nat
        /\ closings' \in [Users -> Nat]
    BY <1>0, <1>5 DEF CloseFast, TypeOK, ghosts
  <2> HIDE DEF D
  <2> QED BY <1>2, <2>2, <2>3, <2>4, <2>5
<1> QED BY <1>3, <1>4, <1>5

-----------------------------------------------------------------------------

LEMMA InitHolds == Init => IInv
<1> SUFFICES ASSUME Init PROVE IInv
  OBVIOUS
<1> USE AuthAssumption DEF Init
<1>1. TypeOK
  BY DEF TypeOK, Rows, NoRow, NoCode, NoSession, Statements, Changes, Stored, Sessions
<1>2. Exclusive
  BY DEF Exclusive, Holds
<1>3. Positions
  BY DEF Positions, Position, Revokes, ByPrimary, Closing
<1>4. FastNeedsPrimary /\ ReplacedOnce
  BY DEF FastNeedsPrimary, ReplacedOnce, Live, Stored
<1> QED BY <1>1, <1>2, <1>3, <1>4 DEF IInv

LEMMA NextKeeps == IInv /\ [Next]_vars => IInv'
<1> SUFFICES ASSUME IInv, [Next]_vars PROVE IInv'
  OBVIOUS
<1>1. ASSUME NEW r \in Requests, Starts(r) PROVE IInv'
  BY <1>1, StartsKeep
<1>2. ASSUME NEW r \in Requests, Proceeds(r) PROVE IInv'
  BY <1>2, LockingKeeps, UserRowKeeps, InsertsKeep, RevocationsKeep DEF Proceeds
<1>3. ASSUME NEW r \in Requests, Fails(r) PROVE IInv'
  BY <1>3, UserRowKeeps
<1>4. CASE UNCHANGED vars
  <2> USE <1>4 DEF vars, sessionVars, requestVars, ghosts
  <2>1. TypeOK'
    BY DEF IInv, TypeOK, PrimaryOrFast, Stored
  <2>2. Exclusive'
    BY DEF IInv, Exclusive, Holds
  <2>3. FastNeedsPrimary' /\ ReplacedOnce'
    BY DEF IInv, FastNeedsPrimary, ReplacedOnce, Live, Stored
  <2>4. ASSUME NEW r \in Requests PROVE Position(r)' /\ Revokes(r)'
    <3>1. Position(r) /\ Revokes(r)
      BY DEF IInv, Positions
    <3>2. Position(r)'
      BY <3>1 DEF Position, Holds, MayBeParent, Live, Stored
    <3>3. Revokes(r)'
      BY <3>1 DEF Revokes, Holds, ChildrenOf, OwnedBy, Stored
    <3> QED BY <3>2, <3>3
  <2> QED BY <2>1, <2>2, <2>3, <2>4 DEF IInv, Positions
<1> QED BY <1>1, <1>2, <1>3, <1>4 DEF Next

(* The inductive invariant holds in every reachable state.                 *)
THEOREM SessionInvariance == Spec => []IInv
<1>1. Init => IInv
  BY InitHolds
<1>2. IInv /\ [Next]_vars => IInv'
  BY NextKeeps
<1> QED BY <1>1, <1>2, PTL DEF Spec

(* Every row of auth_sessions is a primary or a fast session, with the     *)
(* actor and the parent its kind requires, whatever the requests do.       *)
THEOREM SessionTypes == Spec => []TypeOK
<1>1. IInv => TypeOK
  BY DEF IInv
<1> QED BY <1>1, SessionInvariance, PTL

(* No interleaving of fast logins, refreshes, logouts and credential       *)
(* changes leaves a fast session live without its primary session.         *)
THEOREM FastSessionsAreSupported == Spec => []FastNeedsPrimary
<1>1. IInv => FastNeedsPrimary
  BY DEF IInv
<1> QED BY <1>1, SessionInvariance, PTL

(* However many refreshes race with one token, one new session results.    *)
THEOREM RotationIsExclusive == Spec => []ReplacedOnce
<1>1. IInv => ReplacedOnce
  BY DEF IInv
<1> QED BY <1>1, SessionInvariance, PTL

(* A committed reset, password change or deactivation leaves no session    *)
(* that existed when it committed.                                         *)
THEOREM CredentialChangeCloses == Spec => ClosesEverySession
<1> DEFINE A == \A u \in Users : closings'[u] # closings[u] =>
                   \A s \in Stored : owner[s] = u \/ actor[s] = u => revoked'[s]
<1>1. IInv /\ [Next]_vars => [A]_vars
  <2> SUFFICES ASSUME IInv, Next, NEW u \in Users, closings'[u] # closings[u]
               PROVE  \A s \in Stored : owner[s] = u \/ actor[s] = u => revoked'[s]
    OBVIOUS
  <2>1. PICK r \in Requests : CloseActed(r)
    BY DEF Next, Starts, Proceeds, ghosts, Fails, Login, FastLogin, Touch, LoginInsert,
        FastLock, FastInsert, Refresh, Rotate, RotateChildren, RotateInsert, Logout,
        LogoutUser, LogoutSession, LogoutChildren, Reset, Update, ChangeUser, CloseOwn,
        CloseFast, SendCode, SetAppToken, SaveUser
  <2>2. TypeOK /\ revoking[r] = OwnedBy(who[r])
    BY <2>1 DEF IInv, Positions, Revokes, CloseActed
  <2>3. who[r] = u
    BY <2>1, <2>2 DEF CloseActed, TypeOK
  <2>4. \A s \in Stored : s \in Sessions
    BY <2>2, AuthAssumption DEF TypeOK, Stored, Sessions
  <2>5. revoked' = [s \in Sessions |-> revoked[s] \/ s \in OwnedBy(u) \cup ActedBy(u)]
    BY <2>1, <2>2, <2>3 DEF CloseActed, Revoke
  <2> QED BY <2>4, <2>5 DEF OwnedBy, ActedBy
<1>2. ClosesEverySession <=> [][A]_vars
  BY DEF ClosesEverySession
<1> HIDE DEF A
<1> QED BY <1>1, <1>2, SessionInvariance, PTL DEF Spec

-----------------------------------------------------------------------------

(***************************************************************************)
(* What the requests other than credential changes hold.                   *)
(***************************************************************************)

Closes == {"closeOwn", "closeActed", "closeFast"}
InTransaction == {"fastInsert", "rotateChildren", "rotateInsert", "logoutSession", "logoutChildren"}

\* Below the session it came with, as far as it is there.
Below(r) == {c \in Stored : parent[c] = cur[r]}

Held(r) ==
    /\ pc[r] \notin InTransaction \cup Closes => locks[r] = {}
    /\ pc[r] \in {"fastInsert", "rotateChildren"} => locks[r] \subseteq SessionLocks({cur[r]})
    /\ pc[r] = "rotateInsert" =>
          locks[r] \subseteq SessionLocks({cur[r]} \cup Below(r)) \cup {ParentRange(cur[r])}
    /\ pc[r] = "logoutSession" => locks[r] \subseteq {UserLock(who[r])}
    /\ pc[r] = "logoutChildren" => locks[r] \subseteq SessionLocks({cur[r]}) \cup {UserLock(who[r])}

LEMMA HeldInit == Init => \A r \in Requests : Held(r)
BY DEF Init, Held, InTransaction, Closes

\* Rows that are there keep their parent.
LEMMA ParentsStay ==
    ASSUME IInv, Next
    PROVE  Stored \subseteq Stored' /\ \A c \in Stored : parent'[c] = parent[c]
<1>1. lastSession \in 0 .. MaxSessions /\ parent \in [Sessions -> 0 .. MaxSessions]
      /\ \A c \in Stored : c \in Sessions /\ c # lastSession + 1
  BY AuthAssumption DEF IInv, TypeOK, Stored, Sessions
<1>2. CASE \E k, o, a, p, old : Insert(k, o, a, p, old)
  BY <1>1, <1>2, AuthAssumption DEF Insert, Stored, Sessions
<1>3. CASE rowsKept
  BY <1>3 DEF rowsKept, Stored
<1>4. (\E k, o, a, p, old : Insert(k, o, a, p, old)) \/ rowsKept
  <2> PICK r \in Requests : Starts(r) \/ Proceeds(r) \/ Fails(r)
    BY DEF Next
  <2>1. CASE Starts(r) \/ Fails(r)
    BY <2>1 DEF Starts, Fails, Login, SendCode, FastLogin, Refresh, Logout, SetAppToken, Reset, Update,
                sessionVars, rowsKept
  <2>2. CASE LoginInsert(r) \/ FastInsert(r) \/ RotateInsert(r)
    BY <2>2 DEF LoginInsert, FastInsert, RotateInsert
  <2>3. CASE Proceeds(r) /\ ~ (LoginInsert(r) \/ FastInsert(r) \/ RotateInsert(r))
    BY <2>3 DEF Proceeds, Touch, FastLock, Rotate, RotateChildren, LogoutUser, LogoutSession, LogoutChildren,
                ChangeUser, CloseOwn, CloseActed, CloseFast, SaveUser, sessionVars, rowsKept
  <2> QED BY <2>1, <2>2, <2>3
<1> QED BY <1>2, <1>3, <1>4

\* A request that begins or ends holds nothing, and one that continues what its statement took.
LEMMA HeldByEnd ==
    ASSUME IInv, NEW r \in Requests, End(r)
    PROVE  Held(r)' /\ SameOthers(r)
<1>1. pc'[r] = "idle" /\ locks'[r] = {}
  BY DEF IInv, TypeOK, End
<1>2. SameOthers(r)
  BY EndIsIdle DEF IInv
<1> QED BY <1>1, <1>2 DEF Held, InTransaction, Closes

LEMMA HeldByBegin ==
    ASSUME IInv, NEW r \in Requests, Held(r), NEW st, NEW u, NEW c, Begin(r, st, u, c),
           st \notin InTransaction \cup Closes
    PROVE  Held(r)' /\ SameOthers(r)
<1>1. pc[r] = "idle" /\ locks'[r] = locks[r] /\ pc'[r] = st /\ SameOthers(r)
  BY DEF IInv, TypeOK, Begin, SameOthers
<1> QED BY <1>1 DEF Held, InTransaction, Closes

LEMMA HeldByContinue ==
    ASSUME IInv, NEW r \in Requests, NEW st, NEW L, NEW S, Continue(r, st, L, S)
    PROVE  /\ SameOthers(r) /\ pc'[r] = st /\ locks'[r] = locks[r] \cup L
           /\ who' = who /\ cur' = cur
BY DEF IInv, TypeOK, Continue, SameOthers

LEMMA HeldKept ==
    ASSUME IInv, \A r \in Requests : Held(r), Next
    PROVE  \A r \in Requests : Held(r)'
<1>0. Stored \subseteq Stored' /\ \A c \in Stored : parent'[c] = parent[c]
  BY ParentsStay
<1>1. ASSUME NEW r \in Requests, SameOthers(r), Held(r)', NEW q \in Requests
      PROVE  Held(q)'
  <2>1. CASE q = r
    BY <1>1, <2>1
  <2>2. CASE q # r
    <3>1. pc'[q] = pc[q] /\ who'[q] = who[q] /\ cur'[q] = cur[q] /\ locks'[q] = locks[q] /\ Held(q)
      BY <1>1, <2>2 DEF SameOthers
    <3>2. Below(q) \subseteq Below(q)'
      BY <1>0, <3>1 DEF Below
    <3> QED BY <3>1, <3>2 DEF Held, SessionLocks
  <2> QED BY <2>1, <2>2
<1> SUFFICES ASSUME NEW r \in Requests, Starts(r) \/ Proceeds(r) \/ Fails(r)
             PROVE  Held(r)' /\ SameOthers(r)
  BY <1>1 DEF Next
<1>2. CASE Starts(r)
  BY <1>2, HeldByBegin DEF Starts, Login, SendCode, FastLogin, Refresh, Logout, SetAppToken, Reset, Update,
                           InTransaction, Closes
<1>3. CASE End(r)
  BY <1>3, HeldByEnd
<1>12. ASSUME NEW st, NEW L, NEW S, Continue(r, st, L, S), pc[r] \notin InTransaction \cup Closes
      PROVE  SameOthers(r) /\ pc'[r] = st /\ locks'[r] = L /\ who' = who /\ cur' = cur
  <2>1. locks[r] = {}
    BY <1>12 DEF Held
  <2> QED BY <1>12, <2>1, HeldByContinue
<1>4. CASE Touch(r)
  <2>1. PICK st \in {"login", "fastLock"} : Continue(r, st, {}, {})
    BY <1>4 DEF Touch
  <2>2. pc[r] \in {"touchLogin", "touchFast"}
    BY <1>4 DEF Touch
  <2>3. SameOthers(r) /\ pc'[r] = st /\ locks'[r] = {}
    BY <1>12, <2>1, <2>2 DEF InTransaction, Closes
  <2> QED BY <2>3 DEF Held, InTransaction, Closes
<1>5. CASE Continue(r, "fastInsert", SessionLocks({cur[r]}), {}) /\ pc[r] = "fastLock"
  <2>1. SameOthers(r) /\ pc'[r] = "fastInsert" /\ locks'[r] = SessionLocks({cur[r]}) /\ cur' = cur
    BY <1>12, <1>5 DEF InTransaction, Closes
  <2> QED BY <2>1 DEF Held, InTransaction, Closes, SessionLocks
<1>6. CASE Continue(r, "rotateChildren", SessionLocks({cur[r]}), {cur[r]}) /\ pc[r] = "rotate"
  <2>1. SameOthers(r) /\ pc'[r] = "rotateChildren" /\ locks'[r] = SessionLocks({cur[r]}) /\ cur' = cur
    BY <1>12, <1>6 DEF InTransaction, Closes
  <2> QED BY <2>1 DEF Held, InTransaction, Closes, SessionLocks
<1>7. CASE RotateChildren(r)
  <2>1. ChildrenOf(cur[r]) \subseteq Below(r)'
    <3>1. cur' = cur /\ ChildrenOf(cur[r]) \subseteq Below(r)
      BY <1>7 DEF RotateChildren, Continue, ChildrenOf, Below
    <3> QED BY <1>0, <3>1 DEF Below
  <2>2. /\ SameOthers(r) /\ pc'[r] = "rotateInsert" /\ cur' = cur
        /\ locks'[r] = locks[r] \cup SessionLocks(ChildrenOf(cur[r])) \cup {ParentRange(cur[r])}
    BY <1>7, HeldByContinue DEF RotateChildren
  <2>3. locks[r] \subseteq SessionLocks({cur[r]})
    BY <1>7 DEF RotateChildren, Held
  <2> QED BY <2>1, <2>2, <2>3 DEF Held, SessionLocks, InTransaction, Closes
<1>8. CASE LogoutUser(r)
  <2>1. SameOthers(r) /\ pc'[r] = "logoutSession" /\ locks'[r] = {UserLock(who[r])} /\ who' = who
    BY <1>12, <1>8 DEF LogoutUser, InTransaction, Closes
  <2> QED BY <2>1 DEF Held, InTransaction, Closes, UserLock
<1>9. CASE Continue(r, "logoutChildren", SessionLocks({cur[r]}), {cur[r]}) /\ pc[r] = "logoutSession"
  <2>1. /\ SameOthers(r) /\ pc'[r] = "logoutChildren" /\ who' = who /\ cur' = cur
        /\ locks'[r] = locks[r] \cup SessionLocks({cur[r]})
    BY <1>9, HeldByContinue
  <2>2. locks[r] \subseteq {UserLock(who[r])}
    BY <1>9 DEF Held
  <2> QED BY <2>1, <2>2 DEF Held, InTransaction, Closes, UserLock, SessionLocks
<1>10. ASSUME NEW st \in Closes, NEW L, NEW S, Continue(r, st, L, S)
       PROVE  Held(r)' /\ SameOthers(r)
  BY <1>10, HeldByContinue DEF Held, InTransaction, Closes
<1>11. CASE CloseOwn(r) \/ ChangeUser(r)
  BY <1>3, <1>10, <1>11 DEF CloseOwn, ChangeUser, Closes
<1> QED
  BY <1>2, <1>3, <1>4, <1>5, <1>6, <1>7, <1>8, <1>9, <1>11
  DEF Proceeds, Fails, LoginInsert, FastLock, FastInsert, Rotate, RotateInsert, LogoutSession, LogoutChildren,
      CloseActed, CloseFast, SaveUser

LEMMA HeldStutters ==
    ASSUME \A r \in Requests : Held(r), UNCHANGED vars
    PROVE  \A r \in Requests : Held(r)'
BY DEF vars, sessionVars, requestVars, Held, Below, Stored

\* A request is blocked outside a credential change only by a request that is inside a
\* transaction, and inside one only where a logout waits for its session.
LEMMA WhoBlocks ==
    ASSUME IInv, \A t \in Requests : Held(t), NEW q \in Requests, NEW r \in Requests, Blocks(q, r),
           pc[q] \notin Closes, pc[r] \notin Closes
    PROVE  /\ pc[q] \in InTransaction
           /\ pc[r] \in InTransaction => pc[r] = "logoutSession" /\ pc[q] # "logoutSession"
<1>1. PICK l \in locks[q] : l \in Wants(r)
  BY DEF Blocks
<1>2. pc[q] \in InTransaction /\ q # r
  BY <1>1 DEF Held, Blocks
<1> DEFINE s == cur[q]
<1>3. \/ l = <<"session", s>>
      \/ pc[q] = "rotateInsert" /\ (l = ParentRange(s) \/ \E c \in Below(q) : l = <<"session", c>>)
      \/ pc[q] \in {"logoutSession", "logoutChildren"} /\ l = UserLock(who[q])
  BY <1>1, <1>2 DEF Held, InTransaction, SessionLocks
<1>4. l = <<"session", s>> => pc[q] # "logoutSession"
  <2>1. pc[q] = "logoutSession" => l = <<"user", who[q]>>
    BY <1>1 DEF Held, UserLock
  <2>2. <<"session", s>> # <<"user", who[q]>>
    OBVIOUS
  <2> QED BY <2>1, <2>2
<1>5. /\ pc[q] \in {"fastInsert", "rotateChildren", "rotateInsert", "logoutChildren"} =>
             Holds(q, s) /\ s \in Stored /\ kind[s] = "primary"
  BY <1>2 DEF IInv, Positions, Position, Closing, ByPrimary, MayBeParent
<1>6. \A c \in Stored : kind[c] = "primary" => parent[c] = NoSession /\ c # NoSession
  BY DEF IInv, TypeOK, PrimaryOrFast, Stored, NoSession
<1>7. ASSUME pc[r] \in {"fastInsert", "rotateChildren", "rotateInsert", "logoutChildren"}
      PROVE  FALSE
  <2>1. Holds(r, cur[r]) /\ cur[r] \in Stored /\ kind[cur[r]] = "primary"
    BY <1>7 DEF IInv, Positions, Position, Closing, ByPrimary, MayBeParent
  <2>2. cur[r] \in Sessions
    BY <2>1, AuthAssumption DEF IInv, TypeOK, Stored, Sessions
  <2>3. ~ Holds(q, cur[r])
    BY <1>2, <2>1, <2>2 DEF IInv, Exclusive
  <2>4. s # cur[r] \/ pc[q] = "logoutSession"
    BY <1>2, <1>5, <2>3 DEF InTransaction
  <2>5. CASE pc[r] \in {"rotateChildren", "logoutChildren"}
    <3>1. PICK c \in Stored : l = <<"session", c>> /\ parent[c] = cur[r]
      BY <1>1, <2>5 DEF Wants, SessionLocks, ChildrenOf
    <3>2. parent[c] # NoSession
      BY <2>1, <3>1, <1>6
    <3>3. l # <<"session", s>>
      BY <1>2, <1>4, <1>5, <1>6, <3>1, <3>2 DEF InTransaction
    <3>4. CASE \E d \in Below(q) : l = <<"session", d>>
      <4>1. PICK d \in Below(q) : l = <<"session", d>>
        BY <3>4
      <4>2. c = d /\ parent[d] = s
        BY <3>1, <4>1 DEF Below
      <4>3. pc[q] = "rotateInsert"
        BY <1>3, <3>1, <3>3, <3>4 DEF ParentRange, UserLock
      <4> QED BY <2>4, <3>1, <4>2, <4>3
    <3> QED BY <1>3, <3>1, <3>3, <3>4 DEF ParentRange, UserLock
  <2>6. CASE pc[r] \in {"fastInsert", "rotateInsert"}
    <3>1. l \in {OwnerRange(who[r]), ActorRange(owner[cur[r]]), ParentRange(cur[r])}
      BY <1>1, <2>6 DEF Wants, FastInsertWants
    <3>2. l = ParentRange(s) /\ pc[q] = "rotateInsert"
      BY <1>3, <3>1 DEF OwnerRange, ActorRange, ParentRange, UserLock
    <3>3. s = cur[r]
      BY <3>1, <3>2 DEF OwnerRange, ActorRange, ParentRange
    <3> QED BY <2>4, <3>2, <3>3
  <2> QED BY <1>7, <2>5, <2>6
<1>8. pc[r] = "logoutSession" => pc[q] # "logoutSession"
  BY <1>1, <1>3, <1>4 DEF Wants, SessionLocks, UserLock
<1> QED BY <1>2, <1>7, <1>8 DEF InTransaction

(* Fast logins, refreshes and logouts never wait for each other in a       *)
(* circle: who holds anything waits, if at all, for one that waits for     *)
(* nothing.                                                                *)
THEOREM CirclesNeedCredentialChange == Spec => []OnlyCredentialChangesDeadlock
<1>1. ASSUME IInv, \A r \in Requests : Held(r), NEW circle \in (SUBSET Requests) \ {{}},
             \A r \in circle : \E q \in circle : Blocks(q, r), \A r \in circle : pc[r] \notin Closes
      PROVE  FALSE
  <2>1. PICK r \in circle : TRUE
    OBVIOUS
  <2>2. PICK q \in circle : Blocks(q, r)
    BY <1>1
  <2>3. PICK p \in circle : Blocks(p, q)
    BY <1>1
  <2>4. PICK o \in circle : Blocks(o, p)
    BY <1>1
  <2>5. pc[q] \in InTransaction /\ pc[p] \in InTransaction
    BY <1>1, <2>2, <2>3, WhoBlocks
  <2>6. pc[q] = "logoutSession" /\ pc[p] # "logoutSession"
    BY <1>1, <2>3, <2>5, WhoBlocks
  <2>7. pc[p] = "logoutSession"
    BY <1>1, <2>4, <2>5, WhoBlocks
  <2> QED BY <2>6, <2>7
<1>2. IInv /\ (\A r \in Requests : Held(r)) => OnlyCredentialChangesDeadlock
  BY <1>1 DEF OnlyCredentialChangesDeadlock, Closes
<1> DEFINE H == \A r \in Requests : Held(r)
<1>3. IInv /\ H /\ [Next]_vars => H'
  BY HeldKept, HeldStutters
<1>4. Init => H
  BY HeldInit
<1>5. IInv /\ H => OnlyCredentialChangesDeadlock
  BY <1>2
<1> HIDE DEF H
<1> QED BY <1>3, <1>4, <1>5, SessionInvariance, PTL DEF Spec
=============================================================================
