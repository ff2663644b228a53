---------------------------- MODULE AuthSessions ----------------------------
(***************************************************************************)
(* Sessions and the credentials they rest on: primary sessions opened by a *)
(* login, fast sessions another user opens below one of them, and the      *)
(* transactions that rotate and revoke them (auth, auth-session and the    *)
(* credential operations of users).                                        *)
(*                                                                         *)
(* A request is one handler running on some instance; every SQL statement  *)
(* it issues is a step.  The tables hold committed rows.  A transaction    *)
(* keeps the rows it has updated or read FOR UPDATE locked until it ends,  *)
(* and an UPDATE by an indexed column also locks the range of the index it *)
(* read, so that no row can be inserted there (InnoDB, REPEATABLE READ,    *)
(* the server's default).  What it has revoked shows when it commits.  The *)
(* last statement of a transaction and its commit are one step.            *)
(*                                                                         *)
(* Passwords are counted, not spelled, and the other columns of users      *)
(* (device tokens, times) left out; so is the expiry of fast sessions and  *)
(* of reset codes, which only refuses requests sooner.                     *)
(***************************************************************************)
EXTENDS Naturals, FiniteSets

CONSTANTS
    Users,
    NoUser,       \* the null actor_id of a primary session
    Requests,     \* handlers that may run at the same time
    MaxSessions,  \* bound: sessions ever inserted
    MaxChanges,   \* bound: committed credential changes of one user
    MaxCodes      \* bound: reset codes ever sent

ASSUME AuthAssumption ==
    /\ NoUser \notin Users
    /\ MaxSessions \in Nat
    /\ MaxChanges \in Nat
    /\ MaxCodes \in Nat

Sessions == 1..MaxSessions
NoSession == 0
NoCode == 0

VARIABLES
    \* table users: a record per row
    user,
    \* table auth_sessions, by id in the order of insertion
    lastSession, kind, owner, actor, parent, revoked,
    replaces,     \* history: the session this one was rotated from
    \* the requests
    pc,           \* the statement each has come to
    who,          \* the user it is about
    cur,          \* the session it came with, or its reset code
    copy,         \* the user row it read without a lock, as it will save it
    change,       \* what its transaction will do to the user's row
    locks,        \* what its open transaction holds
    revoking,     \* sessions its open transaction has revoked
    \* counters and history
    lastCode,     \* the last reset code generated
    closings      \* committed changes that closed every session of a user

sessionVars == <<lastSession, kind, owner, actor, parent, revoked, replaces>>
requestVars == <<pc, who, cur, copy, change, locks, revoking>>
ghosts == <<lastCode, closings>>
vars == <<user, sessionVars, requestVars, ghosts>>

Rows == [active : BOOLEAN, password : Nat, resetCode : Nat]
NoRow == [active |-> FALSE, password |-> 0, resetCode |-> NoCode]

Changes == {"none", "reset", "password", "deactivate", "activate", "fast"}
ClosesAll == {"reset", "password", "deactivate"}
Statements == {"idle", "touchLogin", "login", "touchFast", "fastLock", "fastInsert",
               "rotate", "rotateChildren", "rotateInsert",
               "logout", "logoutSession", "logoutChildren",
               "change", "closeOwn", "closeActed", "closeFast", "save"}

UserLock(u) == <<"user", u>>
SessionLocks(S) == {<<"session", s>> : s \in S}
OwnerRange(u) == <<"user_id", u>>
ActorRange(u) == <<"actor_id", u>>
ParentRange(s) == <<"parent_session_id", s>>
Locks == ({"user", "user_id", "actor_id"} \X Users)
             \cup ({"session", "parent_session_id"} \X Sessions)

(***************************************************************************)
(* The rows each UPDATE reads.  Name_Bug is a plausible mistake in Name.   *)
(***************************************************************************)

Stored == 1..lastSession

OwnedBy_PrimaryOnly(u) == {s \in Stored : owner[s] = u /\ kind[s] = "primary" /\ ~revoked[s]}

OwnedBy(u) == {s \in Stored : owner[s] = u /\ ~revoked[s]}

ActedBy(u) == {s \in Stored : actor[s] = u /\ ~revoked[s]}

ChildrenOf(s) == {c \in Stored : parent[c] = s /\ ~revoked[c]}

Live(s) == s \in Stored /\ ~revoked[s]

\* AuthGuard: the session is not revoked, its owner and actor are not disabled.
Guard(s) ==
    /\ Live(s)
    /\ user[owner[s]].active
    /\ kind[s] = "fast" => user[actor[s]].active

FastInsertWants_LocksActor(r) == {UserLock(owner[cur[r]])}

\* The new row goes into a range of each index of the table.
FastInsertWants(r) == {OwnerRange(who[r]), ActorRange(owner[cur[r]]), ParentRange(cur[r])}

\* What the next statement of a request must find free.
Wants(r) ==
    CASE pc[r] \in {"touchLogin", "touchFast", "logout", "change", "save"} -> {UserLock(who[r])}
      [] pc[r] \in {"login", "rotateInsert"} -> {OwnerRange(who[r])}
      [] pc[r] \in {"fastLock", "rotate", "logoutSession"} -> SessionLocks({cur[r]})
      [] pc[r] = "fastInsert" -> FastInsertWants(r)
      [] pc[r] \in {"rotateChildren", "logoutChildren"} -> SessionLocks(ChildrenOf(cur[r]))
      [] pc[r] \in {"closeOwn", "closeFast"} -> SessionLocks(OwnedBy(who[r]))
      [] pc[r] = "closeActed" -> SessionLocks(ActedBy(who[r]))
      [] OTHER -> {}

Blocks(q, r) == q # r /\ locks[q] \cap Wants(r) # {}
Granted(r) == \A q \in Requests : ~Blocks(q, r)

-----------------------------------------------------------------------------

Init ==
    /\ user = [u \in Users |-> [active |-> TRUE, password |-> 0, resetCode |-> NoCode]]
    /\ lastSession = 0
    /\ kind = [s \in Sessions |-> "none"]
    /\ owner = [s \in Sessions |-> NoUser]
    /\ actor = [s \in Sessions |-> NoUser]
    /\ parent = [s \in Sessions |-> NoSession]
    /\ revoked = [s \in Sessions |-> FALSE]
    /\ replaces = [s \in Sessions |-> NoSession]
    /\ pc = [r \in Requests |-> "idle"]
    /\ who = [r \in Requests |-> NoUser]
    /\ cur = [r \in Requests |-> 0]
    /\ copy = [r \in Requests |-> NoRow]
    /\ change = [r \in Requests |-> "none"]
    /\ locks = [r \in Requests |-> {}]
    /\ revoking = [r \in Requests |-> {}]
    /\ lastCode = 0
    /\ closings = [u \in Users |-> 0]

\* A handler starts: request r comes about user u with session or code c.
Begin(r, statement, u, c) ==
    /\ pc[r] = "idle"
    /\ pc' = [pc EXCEPT ![r] = statement]
    /\ who' = [who EXCEPT ![r] = u]
    /\ cur' = [cur EXCEPT ![r] = c]
    /\ UNCHANGED <<locks, revoking>>

\* The response, or a rollback: nothing of the request is left.
End(r) ==
    /\ pc' = [pc EXCEPT ![r] = "idle"]
    /\ who' = [who EXCEPT ![r] = NoUser]
    /\ cur' = [cur EXCEPT ![r] = 0]
    /\ copy' = [copy EXCEPT ![r] = NoRow]
    /\ change' = [change EXCEPT ![r] = "none"]
    /\ locks' = [locks EXCEPT ![r] = {}]
    /\ revoking' = [revoking EXCEPT ![r] = {}]

\* A statement inside a transaction: it takes its locks and the next one follows.
Continue(r, statement, taken, closed) ==
    /\ pc' = [pc EXCEPT ![r] = statement]
    /\ locks' = [locks EXCEPT ![r] = @ \cup taken]
    /\ revoking' = [revoking EXCEPT ![r] = @ \cup closed]
    /\ UNCHANGED <<who, cur, copy>>

\* The commit of what r has revoked, the sessions of its last statement included.
Revoke(r, closed) ==
    revoked' = [s \in Sessions |-> revoked[s] \/ s \in revoking[r] \cup closed]

Insert(k, o, a, p, old) ==
    /\ lastSession < MaxSessions
    /\ lastSession' = lastSession + 1
    /\ kind' = [kind EXCEPT ![lastSession + 1] = k]
    /\ owner' = [owner EXCEPT ![lastSession + 1] = o]
    /\ actor' = [actor EXCEPT ![lastSession + 1] = a]
    /\ parent' = [parent EXCEPT ![lastSession + 1] = p]
    /\ replaces' = [replaces EXCEPT ![lastSession + 1] = old]

rowsKept == UNCHANGED <<lastSession, kind, owner, actor, parent, replaces>>

-----------------------------------------------------------------------------

\* login: the user is found active and the password compared, without a lock.
Login(r, u) ==
    /\ user[u].active
    /\ Begin(r, "touchLogin", u, NoSession)
    /\ UNCHANGED <<user, sessionVars, copy, change, ghosts>>

\* loginWithFastPassword: session s of an acting user; u is whom it found by
\* the digest at that user's site, without a lock.
FastLogin(r, s, u) ==
    /\ Guard(s)
    /\ user[u].active
    /\ Begin(r, "touchFast", u, s)
    /\ UNCHANGED <<user, sessionVars, copy, change, ghosts>>

\* updateLastLogin: an UPDATE of columns nothing here reads; it only waits.
Touch(r) ==
    /\ Granted(r)
    /\ \/ pc[r] = "touchLogin" /\ Continue(r, "login", {}, {})
       \/ pc[r] = "touchFast" /\ Continue(r, "fastLock", {}, {})
    /\ UNCHANGED <<user, sessionVars, change, ghosts>>

\* createSession
LoginInsert(r) ==
    /\ pc[r] = "login"
    /\ Granted(r)
    /\ Insert("primary", who[r], NoUser, NoSession, NoSession)
    /\ End(r)
    /\ UNCHANGED <<user, revoked, ghosts>>

\* The conditions on the parent in createChildSession.
MayBeParent(s) == Live(s) /\ kind[s] = "primary"

FastLock_NoLock(r) ==
    /\ pc[r] = "fastLock"
    /\ Granted(r)
    /\ MayBeParent(cur[r])
    /\ Continue(r, "fastInsert", {}, {})
    /\ UNCHANGED <<user, sessionVars, change, ghosts>>

\* SELECT ... FOR UPDATE of the parent.
FastLock(r) ==
    /\ pc[r] = "fastLock"
    /\ Granted(r)
    /\ \/ /\ MayBeParent(cur[r])
          /\ Continue(r, "fastInsert", SessionLocks({cur[r]}), {})
          /\ UNCHANGED change
       \/ /\ ~MayBeParent(cur[r])
          /\ End(r)
    /\ UNCHANGED <<user, sessionVars, ghosts>>

FastInsert(r) ==
    /\ pc[r] = "fastInsert"
    /\ Granted(r)
    /\ Insert("fast", who[r], owner[cur[r]], cur[r], NoSession)
    /\ End(r)
    /\ UNCHANGED <<user, revoked, ghosts>>

\* refreshToken, up to rotateSession.
Refresh(r, s) ==
    /\ Guard(s)
    /\ kind[s] = "primary"
    /\ Begin(r, "rotate", owner[s], s)
    /\ UNCHANGED <<user, sessionVars, copy, change, ghosts>>

RotatesFrom_Any(s) == s \in Stored

\* UPDATE ... WHERE id = s AND revoked_at IS NULL affects a row.
RotatesFrom(s) == Live(s)

Rotate(r) ==
    /\ pc[r] = "rotate"
    /\ Granted(r)
    /\ \/ /\ RotatesFrom(cur[r])
          /\ Continue(r, "rotateChildren", SessionLocks({cur[r]}), {cur[r]})
          /\ UNCHANGED change
       \/ /\ ~RotatesFrom(cur[r])
          /\ End(r)
    /\ UNCHANGED <<user, sessionVars, ghosts>>

RotateChildren(r) ==
    /\ pc[r] = "rotateChildren"
    /\ Granted(r)
    /\ Continue(r, "rotateInsert",
                SessionLocks(ChildrenOf(cur[r])) \cup {ParentRange(cur[r])},
                ChildrenOf(cur[r]))
    /\ UNCHANGED <<user, sessionVars, change, ghosts>>

RotateInsert(r) ==
    /\ pc[r] = "rotateInsert"
    /\ Granted(r)
    /\ Insert("primary", who[r], NoUser, NoSession, cur[r])
    /\ Revoke(r, {})
    /\ End(r)
    /\ UNCHANGED <<user, ghosts>>

-----------------------------------------------------------------------------

Logout(r, s) ==
    /\ Guard(s)
    /\ kind[s] = "primary"
    /\ Begin(r, "logout", owner[s], s)
    /\ UNCHANGED <<user, sessionVars, copy, change, ghosts>>

LogoutUser(r) ==
    /\ pc[r] = "logout"
    /\ Granted(r)
    /\ Continue(r, "logoutSession", {UserLock(who[r])}, {})
    /\ UNCHANGED <<user, sessionVars, change, ghosts>>

\* The session row is locked, the user saved and the session revoked.
LogoutSession(r) ==
    /\ pc[r] = "logoutSession"
    /\ Granted(r)
    /\ \/ /\ Live(cur[r])
          /\ Continue(r, "logoutChildren", SessionLocks({cur[r]}), {cur[r]})
          /\ UNCHANGED change
       \/ /\ ~Live(cur[r])
          /\ End(r)
    /\ UNCHANGED <<user, sessionVars, ghosts>>

LogoutChildren(r) ==
    /\ pc[r] = "logoutChildren"
    /\ Granted(r)
    /\ Revoke(r, ChildrenOf(cur[r]))
    /\ End(r)
    /\ rowsKept
    /\ UNCHANGED <<user, ghosts>>

-----------------------------------------------------------------------------

\* resetPassword with some code that was sent, or an administrator's or the
\* user's own update of the row.
Reset(r, u, code) ==
    /\ closings[u] < MaxChanges
    /\ Begin(r, "change", u, code)
    /\ change' = [change EXCEPT ![r] = "reset"]
    /\ UNCHANGED <<user, sessionVars, copy, ghosts>>

Update(r, u, what) ==
    /\ what \in Changes \ {"none", "reset"}
    /\ what \in ClosesAll => closings[u] < MaxChanges
    /\ Begin(r, "change", u, 0)
    /\ change' = [change EXCEPT ![r] = what]
    /\ UNCHANGED <<user, sessionVars, copy, ghosts>>

CodeAccepted(r) ==
    change[r] = "reset" => cur[r] # NoCode /\ user[who[r]].resetCode = cur[r]

\* The user row is locked; a reset checks the code; the row is saved.
ChangeUser(r) ==
    /\ pc[r] = "change"
    /\ Granted(r)
    /\ \/ /\ change[r] \in ClosesAll
          /\ CodeAccepted(r)
          /\ Continue(r, "closeOwn", {UserLock(who[r])}, {})
          /\ UNCHANGED <<user, change>>
       \/ /\ change[r] = "fast"
          /\ Continue(r, "closeFast", {UserLock(who[r])}, {})
          /\ UNCHANGED <<user, change>>
       \/ /\ change[r] = "activate"
          /\ user' = [user EXCEPT ![who[r]].active = TRUE]
          /\ End(r)
       \/ /\ ~CodeAccepted(r)
          /\ End(r)
          /\ UNCHANGED user
    /\ UNCHANGED <<sessionVars, ghosts>>

\* What the transaction leaves in the user's row.
Changed(row, what, n) ==
    IF what = "deactivate" THEN [row EXCEPT !.active = FALSE]
    ELSE [row EXCEPT !.password = n, !.resetCode = NoCode]

CloseOwn(r) ==
    /\ pc[r] = "closeOwn"
    /\ Granted(r)
    /\ Continue(r, "closeActed",
                SessionLocks(OwnedBy(who[r])) \cup {OwnerRange(who[r])},
                OwnedBy(who[r]))
    /\ UNCHANGED <<user, sessionVars, change, ghosts>>

CloseActed(r) ==
    /\ pc[r] = "closeActed"
    /\ Granted(r)
    /\ closings[who[r]] < MaxChanges
    /\ closings' = [closings EXCEPT ![who[r]] = @ + 1]
    /\ user' = [user EXCEPT ![who[r]] = Changed(@, change[r], closings[who[r]] + 1)]
    /\ Revoke(r, ActedBy(who[r]))
    /\ End(r)
    /\ rowsKept
    /\ UNCHANGED lastCode

\* A new fast password closes the fast sessions opened with the old one.
CloseFast(r) ==
    /\ pc[r] = "closeFast"
    /\ Granted(r)
    /\ Revoke(r, {s \in OwnedBy(who[r]) : kind[s] = "fast"})
    /\ End(r)
    /\ rowsKept
    /\ UNCHANGED <<user, ghosts>>

-----------------------------------------------------------------------------

\* sendCodeToEmail and firebaseAppToken read the row, change the copy and save
\* the whole of it.
SendCode(r, u) ==
    /\ lastCode < MaxCodes
    /\ Begin(r, "save", u, NoSession)
    /\ lastCode' = lastCode + 1
    /\ copy' = [copy EXCEPT ![r] = [user[u] EXCEPT !.resetCode = lastCode + 1]]
    /\ UNCHANGED <<user, sessionVars, change, closings>>

SetAppToken(r, s) ==
    /\ Guard(s)
    /\ Begin(r, "save", owner[s], NoSession)
    /\ copy' = [copy EXCEPT ![r] = user[owner[s]]]
    /\ UNCHANGED <<user, sessionVars, change, ghosts>>

SaveUser(r) ==
    /\ pc[r] = "save"
    /\ Granted(r)
    /\ user' = [user EXCEPT ![who[r]] = copy[r]]
    /\ End(r)
    /\ UNCHANGED <<sessionVars, ghosts>>

\* A deadlock victim or a lock wait that times out is rolled back; so is a
\* request whose connection or instance dies, blocked or not.
Fails(r) ==
    /\ pc[r] # "idle"
    /\ End(r)
    /\ UNCHANGED <<user, sessionVars, ghosts>>

Starts(r) ==
    \/ \E u \in Users : Login(r, u) \/ SendCode(r, u)
    \/ \E s \in Sessions, u \in Users : FastLogin(r, s, u)
    \/ \E s \in Sessions : Refresh(r, s) \/ Logout(r, s) \/ SetAppToken(r, s)
    \/ \E u \in Users, code \in 1..lastCode : Reset(r, u, code)
    \/ \E u \in Users, what \in Changes : Update(r, u, what)

Proceeds(r) ==
    \/ Touch(r) \/ LoginInsert(r) \/ FastLock(r) \/ FastInsert(r)
    \/ Rotate(r) \/ RotateChildren(r) \/ RotateInsert(r)
    \/ LogoutUser(r) \/ LogoutSession(r) \/ LogoutChildren(r)
    \/ ChangeUser(r) \/ CloseOwn(r) \/ CloseActed(r) \/ CloseFast(r)
    \/ SaveUser(r)

Next == \E r \in Requests : Starts(r) \/ Proceeds(r) \/ Fails(r)

Spec == Init /\ [][Next]_vars

-----------------------------------------------------------------------------

\* issueToken and createChildSession give a row these columns.
PrimaryOrFast(s) ==
    /\ owner[s] \in Users
    /\ replaces[s] \in Stored \cup {NoSession}
    /\ \/ kind[s] = "primary" /\ actor[s] = NoUser /\ parent[s] = NoSession
       \/ kind[s] = "fast" /\ actor[s] \in Users /\ parent[s] \in Stored

TypeOK ==
    /\ user \in [Users -> Rows]
    /\ lastSession \in 0..MaxSessions
    /\ kind \in [Sessions -> {"none", "primary", "fast"}]
    /\ owner \in [Sessions -> Users \cup {NoUser}]
    /\ actor \in [Sessions -> Users \cup {NoUser}]
    /\ parent \in [Sessions -> 0..MaxSessions]
    /\ revoked \in [Sessions -> BOOLEAN]
    /\ replaces \in [Sessions -> 0..MaxSessions]
    /\ \A s \in Stored : PrimaryOrFast(s)
    /\ pc \in [Requests -> Statements]
    /\ who \in [Requests -> Users \cup {NoUser}]
    /\ cur \in [Requests -> Nat]
    /\ copy \in [Requests -> Rows]
    /\ change \in [Requests -> Changes]
    /\ locks \in [Requests -> SUBSET Locks]
    /\ revoking \in [Requests -> SUBSET Sessions]
    /\ lastCode \in Nat
    /\ closings \in [Users -> Nat]

(* A live fast session stands on a live primary session of its actor: no   *)
(* logout, refresh or credential change of the actor that races with a     *)
(* fast login leaves the fast session behind (createChildSession locks the *)
(* parent that every revoking transaction updates before its children).    *)
FastNeedsPrimary ==
    \A s \in Sessions : Live(s) /\ kind[s] = "fast" =>
        /\ Live(parent[s])
        /\ kind[parent[s]] = "primary"
        /\ owner[parent[s]] = actor[s]

(* A session is exchanged for at most one other, and is then dead: of two  *)
(* concurrent refreshes with the same token one is refused.                *)
ReplacedOnce ==
    \A s \in Stored : replaces[s] # NoSession =>
        /\ revoked[replaces[s]]
        /\ \A t \in Stored \ {s} : replaces[t] # replaces[s]

(* A password reset, a password change or a deactivation closes every      *)
(* session of the user and every one the user opened as another, those     *)
(* inserted or rotated while it was running included.                      *)
ClosesEverySession ==
    [][\A u \in Users : closings'[u] # closings[u] =>
        \A s \in Stored : owner[s] = u \/ actor[s] = u => revoked'[s]]_vars

(* Requests that wait for each other in a circle, of which the server must *)
(* roll one back, always include a credential change: fast logins,         *)
(* refreshes and logouts take their locks in orders that agree.            *)
OnlyCredentialChangesDeadlock ==
    \A circle \in (SUBSET Requests) \ {{}} :
        (\A r \in circle : \E q \in circle : Blocks(q, r)) =>
            \E r \in circle : pc[r] \in {"closeOwn", "closeActed", "closeFast"}
=============================================================================
