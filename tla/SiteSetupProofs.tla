--------------------------- MODULE SiteSetupProofs ---------------------------
(***************************************************************************)
(* Proofs about the parts of SiteSetup, for every set of sites, people,    *)
(* entries, positions and requests: what a request has read is still so    *)
(* when it writes, but where the code lets another write in between.       *)
(***************************************************************************)
EXTENDS SiteSetupInvariants, FiniteSetTheorems, SequenceTheorems, WellFoundedInduction, TLAPS

(***************************************************************************)
(* Facts about the library's operators.                                    *)
(***************************************************************************)
Below == {p \in Nat \X Nat : p[1] < p[2]}

LEMMA Smallest ==
  ASSUME NEW S \in SUBSET Nat, S # {}
  PROVE  \E m \in S : \A k \in S : m <= k
<1>1. IsWellFoundedOn(Below, Nat) BY NatLessThanWellFounded DEF OpToRel, Below
<1>2. PICK m \in S : \A k \in S : ~ (<<k, m>> \in Below) BY <1>1, WFMin
<1>3. ASSUME NEW k \in S
      PROVE  m <= k
  <2>1. ~ (<<k, m>> \in Below) /\ <<k, m>> \in Nat \X Nat BY <1>2
  <2>2. ~ (k < m) BY <2>1 DEF Below
  <2> QED BY <2>2
<1> QED BY <1>3

LEMMA MinIsThere ==
  ASSUME NEW S \in SUBSET Nat, S # {}
  PROVE  Min(S) \in S
<1>1. \E m \in S : \A k \in S : m <= k BY Smallest
<1> QED BY <1>1, Zenon DEF Min

\* A set of numbers with a bound has a last one.
LEMMA Largest ==
  ASSUME NEW n \in Nat, NEW S \in SUBSET (0 .. n), S # {}
  PROVE  \E m \in S : \A k \in S : m >= k
<1> DEFINE T == {k \in Nat : \E x \in S : x = n - k}
<1>1. T # {} /\ T \in SUBSET Nat
  <2>1. PICK x \in S : x \in 0 .. n OBVIOUS
  <2>2. n - x \in Nat /\ x = n - (n - x) BY <2>1
  <2>3. n - x \in T BY <2>1, <2>2
  <2>4. T \in SUBSET Nat OBVIOUS
  <2> QED BY <2>3, <2>4
<1>2. PICK m \in T : \A k \in T : m <= k BY <1>1, Smallest
<1>3. PICK x \in S : x = n - m BY <1>2
<1>4. ASSUME NEW k \in S
      PROVE  x >= k
  <2>1. n - k \in T OBVIOUS
  <2>2. m <= n - k BY <2>1, <1>2
  <2>3. k \in Int /\ m \in Nat OBVIOUS
  <2> QED BY <2>2, <2>3, <1>3
<1> QED BY <1>4

LEMMA MaxIsThere ==
  ASSUME NEW n \in Nat, NEW S \in SUBSET (1 .. n), S # {}
  PROVE  Max(S) \in S
<1>1. S \in SUBSET (0 .. n) OBVIOUS
<1>2. \E m \in S : \A k \in S : m >= k BY <1>1, Largest
<1> QED BY <1>2, Zenon DEF Max

(***************************************************************************)
(* People (UserAccounts).                                                  *)
(***************************************************************************)
LEMMA ListOfSet ==
  ASSUME NEW S, IsFiniteSet(S)
  PROVE  /\ Cardinality(S) \in Nat
         /\ SetToSeq(S) \in [1 .. Cardinality(S) -> S]
         /\ IsInjective(SetToSeq(S))
<1>1. Cardinality(S) \in Nat /\ ExistsBijection(1 .. Cardinality(S), S) BY FS_CardinalityType
<1>2. \E f \in [1 .. Cardinality(S) -> S] : IsInjective(f)
  BY <1>1 DEF ExistsBijection, Bijection, Injection, IsInjective
<1> QED BY <1>1, <1>2, Zenon DEF SetToSeq

(***************************************************************************)
(* Users and their sites.                                                  *)
(***************************************************************************)
LEMMA IdleIsTyped == Idle \in AccountRequest
<1>1. <<>> \in FreshType BY DEF FreshType
<1> QED BY <1>1 DEF Idle, AccountRequest, AccountStages

LEMMA AccountsInit ==
  ASSUME UsersAssumption, Init
  PROVE  AccountsInv
<1>1. AccountsTyped
  <2>1. Tables(users, posts)
    <3>1. Len(FirstUsers) \in 0 .. MaxUsers /\ DOMAIN FirstUsers = 1 .. Len(FirstUsers)
      BY DEF UsersAssumption
    <3>2. FirstUsers \in [DOMAIN FirstUsers -> UserType] BY <3>1 DEF UsersAssumption
    <3>3. FirstPosts \in [DOMAIN FirstUsers -> [Sites -> Nat]] BY DEF UsersAssumption
    <3> QED BY <3>1, <3>2, <3>3 DEF Init, Tables
  <2>2. Idle \in AccountRequest BY IdleIsTyped
  <2> QED BY <2>1, <2>2 DEF Init, AccountsTyped, UsersAssumption
<1>2. Exclusive /\ \A r \in Requests : Knows(r)
  BY DEF Init, Exclusive, HasLocked, Knows, Body, Holds, At, Running, Idle
<1>3. PeopleUnique /\ FastPasswordsUnique
  BY DEF UsersAssumption, Init, PeopleUnique, FastPasswordsUnique, FindByEmail, FindSiteUsers
<1> QED BY <1>1, <1>2, <1>3 DEF AccountsInv

(***************************************************************************)
(* A transaction that commits.                                             *)
(***************************************************************************)
LEMMA CommitKeeps ==
  ASSUME UsersAssumption, AccountsInv, NEW r \in Requests, r \in Running,
         NEW rows, NEW assigned, NEW digests,
         Commit(r, rows, assigned, digests),
         Tables(rows, assigned), DOMAIN users \subseteq DOMAIN rows,
         Respects(r, rows, assigned),
         (r \in overtaken /\ req[r].kind # "create") \/ (EmailsApart(rows) /\ PostsOnce(assigned)),
         DigestsApart(r, rows, assigned, digests)
  PROVE  AccountsInv'
<1> DEFINE W == Written(rows, assigned)
<1>1. /\ users' = rows /\ posts' = assigned /\ calls' = calls
      /\ req' = [req EXCEPT ![r] = Idle]
      /\ overtaken' = (overtaken \cup Running) \ {r}
      /\ rushed' = IF r \in overtaken /\ req[r].kind # "create" THEN rushed \cup W ELSE rushed
  BY DEF Commit, Go, Written
<1>2. DOMAIN assigned = DOMAIN rows /\ DOMAIN posts = DOMAIN users /\ DOMAIN rows \subseteq UserIds
  <2>1. DOMAIN assigned = DOMAIN rows /\ DOMAIN posts = DOMAIN users
    BY DEF Tables, AccountsInv, AccountsTyped
  <2>2. PICK n \in 0 .. MaxUsers : DOMAIN rows = 1 .. n BY DEF Tables
  <2>3. DOMAIN rows \subseteq UserIds BY <2>2 DEF UserIds, UsersAssumption
  <2> QED BY <2>1, <2>3
<1>3. Idle \in AccountRequest /\ req \in [Requests -> AccountRequest]
  BY IdleIsTyped DEF AccountsInv, AccountsTyped
<1>4. AccountsTyped'
  <2>1. W \subseteq UserIds BY <1>2 DEF Written
  <2>2. Running \subseteq Requests BY DEF Running
  <2>3. unseen' \subseteq UserIds \X Sites
    <3> DEFINE at(x) == {s \in Sites : assigned[x][s] > 0}
               Y == (W \cap DOMAIN users) \ digests
    <3>1. unseen' = {x \in unseen : x[1] \notin digests}
                       \cup (UNION {{x} \X (at(x) \ Looked(r)) : x \in digests})
                       \cup (UNION {{x} \X (at(x) \ SitesOf(x)) : x \in Y})
      BY DEF Commit, Looked, Written
    <3>2. digests \subseteq UserIds /\ Y \subseteq UserIds /\ \A x : at(x) \subseteq Sites
      BY <1>2, <2>1 DEF DigestsApart
    <3> HIDE DEF at, Y
    <3>3. \A x \in digests : {x} \X (at(x) \ Looked(r)) \subseteq UserIds \X Sites BY <3>2
    <3>4. \A x \in Y : {x} \X (at(x) \ SitesOf(x)) \subseteq UserIds \X Sites BY <3>2
    <3>5. unseen \subseteq UserIds \X Sites BY DEF AccountsInv, AccountsTyped
    <3> QED BY <3>1, <3>3, <3>4, <3>5
  <2> QED BY <1>1, <1>3, <2>1, <2>2, <2>3 DEF AccountsInv, AccountsTyped, Tables
<1>5. req'[r] = Idle /\ \A t \in Requests \ {r} : req'[t] = req[t] BY <1>1, <1>3
<1>6. Exclusive'
  <2>1. ASSUME NEW t \in Requests, NEW u, HasLocked(t, u)'
        PROVE  t # r /\ HasLocked(t, u) /\ u \in DOMAIN users
    <3>1. t # r BY <2>1, <1>5 DEF HasLocked, Idle
    <3>2. HasLocked(t, u) BY <3>1, <2>1, <1>5 DEF HasLocked
    <3>3. Body(t) /\ req[t] \in AccountRequest BY <1>3 DEF AccountsInv, Knows
    <3> QED
      BY <3>1, <3>2, <3>3
         DEF HasLocked, Body, Creating, Updating, Importing, Restoring, AccountRequest
  <2> QED BY <2>1 DEF Exclusive, AccountsInv
<1>7. ASSUME NEW t \in Requests
      PROVE  Knows(t)'
  <2>1. CASE t = r BY <2>1, <1>5 DEF Idle, Knows, Body, Holds, At, Running
  <2>2. CASE t # r
    <3>1. Knows(t) /\ req'[t] = req[t] BY <2>2, <1>5 DEF AccountsInv
    <3>2. Body(t)' BY <3>1, <1>1 DEF Knows, Body, Creating, Updating, Importing, Restoring
    <3>3. Holds(t)' BY <2>2, <3>1, <1>1 DEF Holds, At, Respects, FindByEmail
    <3>4. t \notin (Running \ overtaken)' BY <3>1, <2>2, <1>1 DEF Running
    <3> QED BY <3>2, <3>3, <3>4 DEF Knows
  <2> QED BY <2>1, <2>2
<1>8. PeopleUnique'
  <2> SUFFICES ASSUME NEW u \in DOMAIN rows, u \notin rushed'
               PROVE  /\ \A v \in DOMAIN rows \ {u} : rows[v].email = rows[u].email => v \in rushed'
                      /\ \A s \in Sites : assigned[u][s] <= 1
    BY <1>1 DEF PeopleUnique, FindByEmail
  <2>1. u \in DOMAIN users => /\ \A v \in DOMAIN users \ {u} : users[v].email = users[u].email => v \in rushed
                              /\ \A s \in Sites : posts[u][s] <= 1
    BY <1>1 DEF AccountsInv, PeopleUnique, FindByEmail
  <2>2. CASE r \in overtaken /\ req[r].kind # "create" BY <2>1, <2>2, <1>1, <1>2 DEF Written
  <2>3. CASE EmailsApart(rows) /\ PostsOnce(assigned)
    BY <2>1, <2>3, <1>1, <1>2 DEF EmailsApart, PostsOnce
  <2> QED BY <2>2, <2>3
<1>9. FastPasswordsUnique'
  <2> SUFFICES ASSUME NEW s \in Sites, NEW u \in DOMAIN rows, NEW v \in DOMAIN rows,
                      assigned[u][s] > 0, assigned[v][s] > 0, u # v, rows[u].digest = rows[v].digest
               PROVE  {<<u, s>>, <<v, s>>} \cap unseen' # {}
    BY <1>1 DEF FastPasswordsUnique, FindSiteUsers
  <2> DEFINE at(x) == {t \in Sites : assigned[x][t] > 0}
  <2>0. unseen' = {x \in unseen : x[1] \notin digests}
                     \cup (UNION {{x} \X (at(x) \ Looked(r)) : x \in digests})
                     \cup (UNION {{x} \X (at(x) \ SitesOf(x)) : x \in (W \cap DOMAIN users) \ digests})
    BY DEF Commit, Looked, Written
  <2>1. \A x \in digests : assigned[x][s] > 0 /\ s \notin Looked(r) => <<x, s>> \in unseen'
    <3> SUFFICES ASSUME NEW x \in digests, assigned[x][s] > 0, s \notin Looked(r)
                 PROVE  <<x, s>> \in unseen'
      OBVIOUS
    <3>1. <<x, s>> \in {x} \X (at(x) \ Looked(r)) OBVIOUS
    <3> HIDE DEF at
    <3> QED BY <3>1, <2>0
  <2>2. \A x \in DOMAIN users \ digests : assigned[x][s] > 0 /\ posts[x][s] = 0 => <<x, s>> \in unseen'
    <3> SUFFICES ASSUME NEW x \in DOMAIN users \ digests, assigned[x][s] > 0, posts[x][s] = 0
                 PROVE  <<x, s>> \in unseen'
      OBVIOUS
    <3>1. x \in (W \cap DOMAIN users) \ digests BY <1>2 DEF Written
    <3>2. <<x, s>> \in {x} \X (at(x) \ SitesOf(x)) BY DEF SitesOf
    <3> DEFINE new(y) == {y} \X (at(y) \ SitesOf(y))
               Y == (W \cap DOMAIN users) \ digests
    <3> HIDE DEF at, W
    <3>3. UNION {new(y) : y \in Y} \subseteq unseen' BY <2>0
    <3>4. x \in Y /\ <<x, s>> \in new(x) BY <3>1, <3>2
    <3> HIDE DEF new, Y
    <3> QED BY <3>3, <3>4
  <2>3. \A x \in DOMAIN users \ digests : <<x, s>> \in unseen => <<x, s>> \in unseen'
    BY DEF Commit
  <2>4. CASE u \in digests \/ v \in digests BY <2>1, <2>2, <2>4, <1>1 DEF DigestsApart, SitesOf
  <2>5. CASE u \notin digests /\ v \notin digests
    <3>1. /\ u \in DOMAIN users /\ v \in DOMAIN users
          /\ users[u].digest = users[v].digest
      BY <2>5 DEF DigestsApart
    <3>2. posts[u][s] \in Nat /\ posts[v][s] \in Nat
      BY <3>1 DEF AccountsInv, AccountsTyped, Tables
    <3>3. CASE posts[u][s] = 0 \/ posts[v][s] = 0 BY <3>1, <3>3, <2>2, <2>5
    <3>4. CASE posts[u][s] > 0 /\ posts[v][s] > 0
      BY <3>1, <3>4, <2>3, <2>5 DEF AccountsInv, FastPasswordsUnique, FindSiteUsers
    <3> QED BY <3>2, <3>3, <3>4
  <2> QED BY <2>4, <2>5
<1> QED BY <1>4, <1>6, <1>7, <1>8, <1>9 DEF AccountsInv

(***************************************************************************)
(* A statement that writes nothing.                                        *)
(***************************************************************************)
LEMMA ReadKeeps ==
  ASSUME UsersAssumption, AccountsInv, NEW r \in Requests, NEW q \in AccountRequest,
         req' = [req EXCEPT ![r] = q], UNCHANGED <<tables, rushed, unseen>>,
         calls' \in 0 .. MaxCalls,
         overtaken' \subseteq Requests, overtaken' \ {r} = overtaken \ {r},
         Knows(r)',
         q.at \in {"assign", "save"} => RowFree(r, q.user)
  PROVE  AccountsInv'
<1>1. users' = users /\ posts' = posts /\ rushed' = rushed /\ unseen' = unseen BY DEF tables
<1>2. req \in [Requests -> AccountRequest] BY DEF AccountsInv, AccountsTyped
<1>3. AccountsTyped' BY <1>1, <1>2 DEF AccountsInv, AccountsTyped, Tables
<1>4. req'[r] = q /\ \A t \in Requests \ {r} : req'[t] = req[t] BY <1>2
<1>5. Exclusive' BY <1>1, <1>4 DEF Exclusive, HasLocked, RowFree, AccountsInv
<1>6. ASSUME NEW t \in Requests, t # r
      PROVE  Knows(t)'
  <2>1. Knows(t) /\ req'[t] = req[t] /\ (t \in overtaken' <=> t \in overtaken)
    BY <1>4, <1>6 DEF AccountsInv
  <2>2. Body(t)' /\ Holds(t)'
    BY <2>1, <1>1
       DEF Knows, Body, Creating, Updating, Importing, Restoring, Holds, At, FindByEmail
  <2>3. (t \in Running \ overtaken => Saw(t))'
    BY <2>1, <1>1 DEF Knows, Running, Saw, Unused, FindByEmail, FindByFastPassword, FindSiteUsers
  <2> QED BY <2>2, <2>3 DEF Knows
<1>7. PeopleUnique' /\ FastPasswordsUnique'
  BY <1>1 DEF AccountsInv, PeopleUnique, FastPasswordsUnique, FindByEmail, FindSiteUsers
<1> QED BY <1>3, <1>5, <1>6, <1>7 DEF AccountsInv

LEMMA RefuseKeeps ==
  ASSUME UsersAssumption, AccountsInv, NEW r \in Requests, Refuse(r)
  PROVE  AccountsInv'
<1>1. req'[r] = Idle BY DEF Refuse, Go, AccountsInv, AccountsTyped
<1>2. Knows(r)' BY <1>1 DEF Idle, Knows, Body, Holds, At, Running
<1>3. Idle \in AccountRequest /\ ~ (Idle.at \in {"assign", "save"}) BY IdleIsTyped DEF Idle
<1> QED BY <1>2, <1>3, ReadKeeps DEF Refuse, Go, AccountsInv, AccountsTyped

\* A request begins with a body, and with what it has just seen.
LEMMA CallKeeps ==
  ASSUME UsersAssumption, AccountsInv, NEW r \in Requests, NEW q \in AccountRequest,
         calls < MaxCalls, Call(r, q), q.at \in {"look", "write"},
         (Body(r) /\ Saw(r))'
  PROVE  AccountsInv'
<1>1. req'[r] = q BY DEF Call, Go, AccountsInv, AccountsTyped
<1>2. Knows(r)' BY <1>1 DEF Knows, Holds, At
<1>3. calls' \in 0 .. MaxCalls BY DEF Call, UsersAssumption, AccountsInv, AccountsTyped
<1> QED BY <1>2, <1>3, ReadKeeps DEF Call, Go, AccountsInv, AccountsTyped

(***************************************************************************)
(* create.                                                                 *)
(***************************************************************************)
LEMMA CallCreateKeeps ==
  ASSUME UsersAssumption, AccountsInv, calls < MaxCalls, NEW r \in Requests, NEW actor,
         NEW e \in Emails, NEW s \in Sites, NEW d \in Digests, NEW given \in BOOLEAN,
         CallCreate(r, actor, e, s, d, given)
  PROVE  AccountsInv'
<1> DEFINE q == [Idle EXCEPT !.kind = "create", !.at = "look", !.email = e, !.site = s, !.digest = d,
                             !.seen = IF given THEN {} ELSE {s}]
<1>1. Call(r, q) /\ (given \/ d \in UniqueFastPassword({s})) BY DEF CallCreate
<1>2. q \in AccountRequest /\ q.at = "look" /\ q.kind = "create" /\ q.email = e /\ q.site = s
      /\ q.digest = d /\ q.seen = (IF given THEN {} ELSE {s})
  BY IdleIsTyped DEF AccountRequest, Idle, AccountStages
<1> HIDE DEF q
<1>3. req'[r] = q /\ users' = users /\ posts' = posts
  BY <1>1 DEF Call, Go, tables, AccountsInv, AccountsTyped
<1>4. ~ given => FindByFastPassword(d, s) = {}
  <2>1. \A u \in FindByFastPassword(d, s) : u # Nothing
    BY DEF FindByFastPassword, FindSiteUsers, UsersAssumption, AccountsInv, AccountsTyped, Tables, UserIds
  <2> QED BY <2>1, <1>1 DEF UniqueFastPassword, HasDigest
<1>5. (Body(r) /\ Saw(r))'
  BY <1>2, <1>3, <1>4
     DEF Body, Creating, Saw, Unused, FindByFastPassword, FindSiteUsers
<1> QED BY <1>1, <1>2, <1>5, CallKeeps

LEMMA LookForEmailKeeps ==
  ASSUME UsersAssumption, AccountsInv, NEW r \in Requests, LookForEmail(r)
  PROVE  AccountsInv'
<1> DEFINE q == req[r]
           found == FindByEmail(q.email)
           u == Min(found)
<1>1. q \in AccountRequest /\ q.kind = "create" /\ q.at = "look" /\ Body(r) /\ Creating(r)
      /\ (r \notin overtaken => Saw(r))
  BY DEF LookForEmail, At, AccountsInv, AccountsTyped, Knows, Body, Running
<1>2. CASE found = {}
  <2> DEFINE p == [q EXCEPT !.at = "insert"]
  <2>1. /\ req' = [req EXCEPT ![r] = p]
        /\ UNCHANGED <<tables, calls, overtaken, rushed, unseen>>
    BY <1>2 DEF LookForEmail, Go
  <2>2. /\ p \in AccountRequest /\ p.at = "insert" /\ p.kind = "create" /\ p.email = q.email /\ p.site = q.site
        /\ p.digest = q.digest /\ p.seen = q.seen
    BY <1>1 DEF AccountRequest, AccountStages
  <2>3. req'[r] = p /\ users' = users /\ posts' = posts /\ overtaken' = overtaken
    BY <2>1 DEF tables, AccountsInv, AccountsTyped
  <2> HIDE DEF p
  <2>4. Knows(r)'
    BY <1>1, <1>2, <2>2, <2>3
       DEF Knows, Body, Creating, Holds, At, Saw, Unused, FindByEmail, FindByFastPassword, FindSiteUsers
  <2> QED BY <2>1, <2>2, <2>3, <2>4, ReadKeeps DEF AccountsInv, AccountsTyped
<1>3. CASE found # {} /\ posts[u][q.site] > 0 BY <1>3, RefuseKeeps DEF LookForEmail
<1>4. CASE found # {} /\ ~ (posts[u][q.site] > 0)
  <2> DEFINE p == [q EXCEPT !.at = "assign", !.user = u]
  <2>1. /\ req' = [req EXCEPT ![r] = p] /\ RowFree(r, u)
        /\ UNCHANGED <<tables, calls, overtaken, rushed, unseen>>
    BY <1>4 DEF LookForEmail, Go
  <2>2. u \in DOMAIN users /\ u \in UserIds
    <3>1. DOMAIN users \subseteq UserIds
      BY DEF AccountsInv, AccountsTyped, Tables, UserIds, UsersAssumption
    <3>2. found \subseteq DOMAIN users /\ found \subseteq Nat BY <3>1 DEF FindByEmail, UserIds
    <3>3. u \in found BY <3>2, <1>4, MinIsThere
    <3> QED BY <3>1, <3>2, <3>3
  <2>3. posts[u][q.site] = 0 BY <1>1, <1>4, <2>2 DEF Creating, AccountsInv, AccountsTyped, Tables
  <2> HIDE DEF u, found
  <2>4. /\ p \in AccountRequest /\ p.at = "assign" /\ p.kind = "create" /\ p.email = q.email /\ p.site = q.site
        /\ p.digest = q.digest /\ p.seen = q.seen /\ p.user = u
    BY <1>1, <2>2 DEF AccountRequest, AccountStages
  <2>5. req'[r] = p /\ users' = users /\ posts' = posts /\ overtaken' = overtaken
    BY <2>1 DEF tables, AccountsInv, AccountsTyped
  <2> HIDE DEF p
  <2>6. Knows(r)'
    BY <1>1, <2>2, <2>3, <2>4, <2>5
       DEF Knows, Body, Creating, Holds, At, Saw, Unused, FindByFastPassword, FindSiteUsers
  <2> QED BY <2>1, <2>4, <2>5, <2>6, ReadKeeps DEF AccountsInv, AccountsTyped
<1> QED BY <1>2, <1>3, <1>4

\* The ids of the users.
LEMMA Counted ==
  ASSUME UsersAssumption, AccountsInv
  PROVE  /\ Cardinality(DOMAIN users) \in 0 .. MaxUsers
         /\ DOMAIN users = 1 .. Cardinality(DOMAIN users)
<1>1. PICK n \in 0 .. MaxUsers : DOMAIN users = 1 .. n BY DEF AccountsInv, AccountsTyped, Tables
<1>2. Cardinality(1 .. n) = n BY FS_Interval, UsersAssumption DEF UsersAssumption
<1> QED BY <1>1, <1>2

LEMMA InsertUserKeeps ==
  ASSUME UsersAssumption, AccountsInv, NEW r \in Requests, InsertUser(r)
  PROVE  AccountsInv'
<1> DEFINE q == req[r]
           n == Cardinality(DOMAIN users)
           u == n + 1
           row == [email |-> q.email, site |-> q.site, home |-> Nothing, digest |-> q.digest]
           new == [k \in {u} |-> row]
           post == [k \in {u} |-> OnlyAt(q.site)]
           rows == With(users, new)
           assigned == With(posts, post)
<1>1. /\ q.kind = "create" /\ q.at = "insert" /\ Creating(r) /\ r \in Running
      /\ FindByEmail(q.email) = {} /\ (r \notin overtaken => Saw(r))
      /\ EmailFree(r, q.email) /\ n < MaxUsers
  BY DEF InsertUser, At, AccountsInv, Knows, Body, Holds, Running
<1>2. CASE ~ Fits(u, row) BY <1>2, RefuseKeeps DEF InsertUser
<1>3. CASE Fits(u, row)
  <2>1. Commit(r, rows, assigned, {u}) BY <1>3 DEF InsertUser
  <2>2. n \in Nat /\ DOMAIN users = 1 .. n /\ DOMAIN posts = DOMAIN users /\ u \notin DOMAIN users
    BY Counted DEF AccountsInv, AccountsTyped, Tables
  <2>3. /\ DOMAIN rows = DOMAIN users \cup {u} /\ rows[u] = row
        /\ \A v \in DOMAIN users : rows[v] = users[v]
        /\ DOMAIN assigned = DOMAIN users \cup {u} /\ assigned[u] = OnlyAt(q.site)
        /\ \A v \in DOMAIN users : assigned[v] = posts[v]
    <3>1. DOMAIN new = {u} /\ new[u] = row /\ DOMAIN post = {u} /\ post[u] = OnlyAt(q.site)
      OBVIOUS
    <3> HIDE DEF new, post, row
    <3>2. /\ DOMAIN rows = DOMAIN users \cup {u} /\ rows[u] = row
          /\ \A v \in DOMAIN users : rows[v] = users[v]
      BY <2>2, <3>1 DEF With
    <3>3. /\ DOMAIN assigned = DOMAIN posts \cup {u} /\ assigned[u] = OnlyAt(q.site)
          /\ \A v \in DOMAIN posts : assigned[v] = posts[v]
      BY <2>2, <3>1 DEF With
    <3> QED BY <2>2, <3>2, <3>3
  <2>4. rows = [v \in DOMAIN rows |-> rows[v]] /\ assigned = [v \in DOMAIN assigned |-> assigned[v]]
    BY DEF With
  <2> HIDE DEF rows, assigned
  <2>5. /\ row \in UserType /\ row.email = q.email /\ row.digest = q.digest
        /\ OnlyAt(q.site) \in [Sites -> Nat] /\ \A s \in Sites : OnlyAt(q.site)[s] <= 1
    BY <1>1 DEF UserType, Creating, OnlyAt
  <2>6. \A s \in Sites : OnlyAt(q.site)[s] > 0 => s = q.site BY DEF OnlyAt
  <2> HIDE DEF row
  <2>7. Tables(rows, assigned)
    <3>1. DOMAIN rows = 1 .. u /\ u \in 0 .. MaxUsers
      BY <1>1, <2>2, <2>3, UsersAssumption DEF UsersAssumption
    <3>2. \A v \in DOMAIN rows : rows[v] \in UserType /\ assigned[v] \in [Sites -> Nat]
      BY <2>2, <2>3, <2>5 DEF AccountsInv, AccountsTyped, Tables
    <3> QED BY <3>1, <3>2, <2>3, <2>4 DEF Tables
  <2>8. EmailsApart(rows) /\ PostsOnce(assigned)
    <3>1. EmailsApart(rows)
      <4>1. \A v \in DOMAIN users : rows[v].email # rows[u].email
        BY <1>1, <2>3, <2>5 DEF FindByEmail
      <4> QED BY <2>2, <2>3, <4>1 DEF EmailsApart
    <3>2. PostsOnce(assigned) BY <2>2, <2>3, <2>5 DEF PostsOnce
    <3> QED BY <3>1, <3>2
  <2>9. Respects(r, rows, assigned)
    <3> SUFFICES ASSUME NEW t \in Requests \ {r}
                 PROVE  /\ At(t, "create", "insert") => \A v \in DOMAIN rows : rows[v].email # req[t].email
                        /\ At(t, "create", "assign") => assigned[req[t].user][req[t].site] = 0
      BY DEF Respects
    <3>1. Knows(t) BY DEF AccountsInv
    <3>2. At(t, "create", "insert") => FindByEmail(req[t].email) = {} /\ req[t].email # q.email
      BY <3>1, <1>1 DEF Knows, Holds, EmailFree, Reserves, At
    <3> QED BY <3>1, <3>2, <2>3, <2>5 DEF Knows, Holds, Body, Creating, At, FindByEmail
  <2>10. DigestsApart(r, rows, assigned, {u})
    BY <1>1, <2>2, <2>3, <2>5, <2>6
       DEF DigestsApart, Looked, Saw, Unused, FindByFastPassword, FindSiteUsers, Creating
  <2> QED BY <1>1, <2>1, <2>3, <2>7, <2>8, <2>9, <2>10, CommitKeeps
<1> QED BY <1>2, <1>3

LEMMA AssignUserKeeps ==
  ASSUME UsersAssumption, AccountsInv, NEW r \in Requests, AssignUser(r)
  PROVE  AccountsInv'
<1> DEFINE q == req[r]
           u == q.user
           rows == [users EXCEPT ![u].digest = q.digest]
           assigned == [posts EXCEPT ![u] = Plus(@, q.site)]
           digests == IF users[u].digest = q.digest THEN {} ELSE {u}
<1>1. /\ q.kind = "create" /\ q.at = "assign" /\ Creating(r) /\ r \in Running /\ u \in DOMAIN users
      /\ posts[u][q.site] = 0 /\ (r \notin overtaken => Saw(r))
  BY DEF AssignUser, At, AccountsInv, Knows, Body, Holds, Running, Creating
<1>2. Commit(r, rows, assigned, digests) BY DEF AssignUser
<1>3. users \in [DOMAIN users -> UserType] /\ posts \in [DOMAIN users -> [Sites -> Nat]]
  BY DEF AccountsInv, AccountsTyped, Tables
<1>4. /\ DOMAIN rows = DOMAIN users /\ rows[u].digest = q.digest /\ rows[u].email = users[u].email
      /\ rows[u] \in UserType /\ \A v \in DOMAIN users \ {u} : rows[v] = users[v]
  BY <1>1, <1>3 DEF UserType, Creating
<1>5. /\ DOMAIN assigned = DOMAIN users /\ assigned[u] \in [Sites -> Nat]
      /\ assigned[u][q.site] = 1 /\ \A s \in Sites \ {q.site} : assigned[u][s] = posts[u][s]
      /\ \A v \in DOMAIN users \ {u} : assigned[v] = posts[v]
  BY <1>1, <1>3 DEF Plus, Creating
<1>6. Tables(rows, assigned) BY <1>3, <1>4, <1>5 DEF Tables, AccountsInv, AccountsTyped
<1> HIDE DEF rows, assigned
<1>7. EmailsApart(rows) /\ PostsOnce(assigned)
  <2>1. EmailsApart(rows) BY <1>4 DEF EmailsApart
  <2>2. \A s \in Sites : assigned[u][s] <= 1 \/ assigned[u][s] = posts[u][s] BY <1>5
  <2>3. DOMAIN posts = DOMAIN users BY <1>3
  <2>4. PostsOnce(assigned) BY <1>5, <2>2, <2>3 DEF PostsOnce
  <2> QED BY <2>1, <2>4
<1>8. Respects(r, rows, assigned)
  <2> SUFFICES ASSUME NEW t \in Requests \ {r}
               PROVE  /\ At(t, "create", "insert") => \A v \in DOMAIN rows : rows[v].email # req[t].email
                      /\ At(t, "create", "assign") => assigned[req[t].user][req[t].site] = 0
    BY DEF Respects
  <2>1. Knows(t) BY DEF AccountsInv
  <2>2. At(t, "create", "assign") => req[t].user # u
    BY <1>1, <2>1 DEF AccountsInv, Exclusive, HasLocked, At
  <2> QED BY <2>1, <2>2, <1>4, <1>5 DEF Knows, Holds, Body, Creating, At, FindByEmail
<1>9. DigestsApart(r, rows, assigned, digests)
  BY <1>1, <1>4, <1>5
     DEF DigestsApart, Looked, Saw, Unused, FindByFastPassword, FindSiteUsers, Creating
<1> QED BY <1>1, <1>2, <1>4, <1>6, <1>7, <1>8, <1>9, CommitKeeps

(***************************************************************************)
(* updateUser, updateUserPartial, rotateFastPasswordAndSend.               *)
(***************************************************************************)
LEMMA CallUpdateKeeps ==
  ASSUME UsersAssumption, AccountsInv, calls < MaxCalls, NEW r \in Requests,
         NEW q \in AccountRequest, Call(r, q), q.at = "look",
         q.kind \in {"update", "partial"}, q.user \in DOMAIN users,
         q.kind = "update" => q.site \in Sites
  PROVE  AccountsInv'
<1>1. req'[r] = q /\ users' = users BY DEF Call, Go, tables, AccountsInv, AccountsTyped
<1>2. (Body(r) /\ Saw(r))' BY <1>1 DEF Body, Updating, Saw
<1> QED BY <1>2, CallKeeps

LEMMA UserIdsTyped ==
  ASSUME UsersAssumption, AccountsInv
  PROVE  /\ DOMAIN users \subseteq UserIds
         /\ users \in [DOMAIN users -> UserType] /\ posts \in [DOMAIN users -> [Sites -> Nat]]
  BY DEF AccountsInv, AccountsTyped, Tables, UserIds, UsersAssumption

LEMMA LockUserKeeps ==
  ASSUME UsersAssumption, AccountsInv, NEW r \in Requests, LockUser(r)
  PROVE  AccountsInv'
<1> DEFINE q == req[r]
           others == FindByEmail(q.email) \ {q.user}
           refused == others # {} \/ (q.digest # Nothing /\ HasDigest(q.digest, LooksAt(q), q.user))
           p == [q EXCEPT !.at = "save", !.seen = LooksAt(q)]
<1>1. q \in AccountRequest /\ q.kind \in {"update", "partial"} /\ Updating(r) /\ RowFree(r, q.user)
  BY DEF LockUser, AccountsInv, AccountsTyped, Knows, Body
<1>2. CASE refused BY <1>2, RefuseKeeps DEF LockUser
<1>3. CASE ~ refused
  <2>1. /\ req' = [req EXCEPT ![r] = p]
        /\ overtaken' = overtaken \ {r} /\ UNCHANGED <<tables, calls, rushed, unseen>>
    BY <1>3 DEF LockUser, Go, LooksAt
  <2>2. LooksAt(q) \subseteq Sites BY <1>1 DEF LooksAt, Updating, SitesOf
  <2>3. /\ p \in AccountRequest /\ p.at = "save" /\ p.kind = q.kind /\ p.user = q.user
        /\ p.email = q.email /\ p.site = q.site /\ p.digest = q.digest /\ p.seen = LooksAt(q)
    BY <1>1, <2>2 DEF AccountRequest, AccountStages
  <2>4. req'[r] = p /\ users' = users /\ posts' = posts
    BY <2>1 DEF tables, AccountsInv, AccountsTyped
  <2> HIDE DEF p
  <2>5. Body(r)' /\ Holds(r)' BY <1>1, <2>3, <2>4 DEF Body, Updating, Holds, At
  <2>6. q.digest # Nothing => Unused(q.digest, LooksAt(q), {q.user}) BY <1>3 DEF HasDigest, Unused
  <2>7. Saw(r)'
    BY <1>1, <1>3, <2>3, <2>4, <2>6
       DEF Saw, Unused, FindByEmail, FindByFastPassword, FindSiteUsers
  <2>8. Knows(r)' BY <2>5, <2>7 DEF Knows
  <2> QED BY <1>1, <2>1, <2>3, <2>8, ReadKeeps DEF AccountsInv, AccountsTyped
<1> QED BY <1>2, <1>3

\* A row is written over that of a user.
LEMMA OneRow ==
  ASSUME UsersAssumption, AccountsInv, NEW r \in Requests, r \in Running, req[r].kind # "create",
         NEW u \in DOMAIN users, NEW row \in UserType,
         row.email = users[u].email \/ EmailFree(r, row.email),
         Commit(r, [users EXCEPT ![u] = row], posts, IF row.digest = users[u].digest THEN {} ELSE {u}),
         r \notin overtaken =>
           /\ row.email # users[u].email => FindByEmail(row.email) \subseteq {u}
           /\ row.digest # users[u].digest => Unused(row.digest, req[r].seen, {u})
  PROVE  AccountsInv'
<1> DEFINE rows == [users EXCEPT ![u] = row]
           digests == IF row.digest = users[u].digest THEN {} ELSE {u}
<1>1. users \in [DOMAIN users -> UserType] /\ posts \in [DOMAIN users -> [Sites -> Nat]]
  BY UserIdsTyped
<1>2. DOMAIN rows = DOMAIN users /\ rows[u] = row /\ \A v \in DOMAIN users \ {u} : rows[v] = users[v]
  BY <1>1
<1>3. Tables(rows, posts) BY <1>1, <1>2 DEF Tables, AccountsInv, AccountsTyped
<1> HIDE DEF rows
<1>4. Respects(r, rows, posts)
  <2> SUFFICES ASSUME NEW t \in Requests \ {r}
               PROVE  /\ At(t, "create", "insert") => \A v \in DOMAIN rows : rows[v].email # req[t].email
                      /\ At(t, "create", "assign") => posts[req[t].user][req[t].site] = 0
    BY DEF Respects
  <2>1. Holds(t) BY DEF AccountsInv, Knows
  <2>2. At(t, "create", "insert") /\ EmailFree(r, row.email) => row.email # req[t].email
    BY DEF At, EmailFree, Reserves
  <2> QED BY <1>2, <2>1, <2>2 DEF Holds, FindByEmail
<1>5. r \in overtaken \/ (EmailsApart(rows) /\ PostsOnce(posts))
  <2>1. r \notin overtaken => EmailsApart(rows) BY <1>2 DEF EmailsApart, FindByEmail
  <2>2. PostsOnce(posts) BY DEF PostsOnce
  <2> QED BY <2>1, <2>2
<1>6. DigestsApart(r, rows, posts, digests)
  <2>1. digests \subseteq DOMAIN rows /\ \A v \in DOMAIN rows \ digests : v \in DOMAIN users /\ rows[v].digest = users[v].digest
    BY <1>2
  <2>2. ASSUME NEW v \in DOMAIN rows, NEW s \in Looked(r), u \in digests,
               u # v, posts[v][s] > 0, rows[u].digest = rows[v].digest
        PROVE  FALSE
    <3>1. s \in req[r].seen /\ Unused(row.digest, req[r].seen, {u}) BY <2>2 DEF Looked
    <3>2. v \in FindByFastPassword(row.digest, s)
      BY <1>2, <2>2 DEF FindByFastPassword, FindSiteUsers
    <3> QED BY <2>2, <3>1, <3>2 DEF Unused
  <2> QED BY <2>1, <2>2 DEF DigestsApart
<1> QED BY <1>2, <1>3, <1>4, <1>5, <1>6, CommitKeeps DEF rows

LEMMA SaveUserKeeps ==
  ASSUME UsersAssumption, AccountsInv, NEW r \in Requests, SaveUser(r)
  PROVE  AccountsInv'
<1> DEFINE q == req[r]
           u == q.user
           row == Merged(users[u], q)
<1>1. /\ q \in AccountRequest /\ q.at = "save" /\ r \in Running /\ u \in DOMAIN users
      /\ q.kind \in {"update", "partial"} /\ (r \notin overtaken => Saw(r))
  BY DEF SaveUser, AccountsInv, AccountsTyped, Knows, Body, Running, Updating, Creating, Importing, Restoring, AccountRequest
<1>2. CASE ~ Fits(u, row) BY <1>2, RefuseKeeps DEF SaveUser
<1>3. CASE Fits(u, row)
  <2>1. /\ row.email = users[u].email \/ EmailFree(r, row.email)
        /\ Commit(r, [users EXCEPT ![u] = row], posts, IF row.digest = users[u].digest THEN {} ELSE {u})
    BY <1>3 DEF SaveUser
  <2>2. users[u] \in UserType BY <1>1, UserIdsTyped
  <2>3. row \in UserType BY <1>1, <2>2 DEF Merged, UserType, AccountRequest
  <2>4. /\ row.email # users[u].email => q.email # Nothing /\ row.email = q.email
        /\ row.digest # users[u].digest => q.digest # Nothing /\ row.digest = q.digest
    BY DEF Merged
  <2> HIDE DEF row
  <2>5. r \notin overtaken =>
          /\ row.email # users[u].email => FindByEmail(row.email) \subseteq {u}
          /\ row.digest # users[u].digest => Unused(row.digest, req[r].seen, {u})
    BY <1>1, <2>4 DEF Saw
  <2> QED BY <1>1, <2>1, <2>3, <2>5, OneRow
<1> QED BY <1>2, <1>3

(***************************************************************************)
(* firebaseAppToken and sendCodeToEmail.                                   *)
(***************************************************************************)
LEMMA CallSaveRowKeeps ==
  ASSUME UsersAssumption, AccountsInv, calls < MaxCalls, NEW r \in Requests, NEW u \in DOMAIN users, CallSaveRow(r, u)
  PROVE  AccountsInv'
<1> DEFINE q == [Idle EXCEPT !.kind = "row", !.at = "write", !.user = u, !.copy = users[u]]
<1>1. Call(r, q) BY DEF CallSaveRow
<1>2. users[u] \in UserType /\ u \in UserIds BY UserIdsTyped
<1>3. q \in AccountRequest /\ q.at = "write" /\ q.kind = "row" /\ q.user = u /\ q.copy = users[u]
  BY <1>2, IdleIsTyped DEF AccountRequest, Idle, AccountStages
<1> HIDE DEF q
<1>4. req'[r] = q /\ users' = users BY <1>1 DEF Call, Go, tables, AccountsInv, AccountsTyped
<1>5. (Body(r) /\ Saw(r))' BY <1>2, <1>3, <1>4 DEF Body, Restoring, Saw
<1> QED BY <1>1, <1>3, <1>5, CallKeeps

LEMMA SaveRowKeeps ==
  ASSUME UsersAssumption, AccountsInv, NEW r \in Requests, SaveRow(r)
  PROVE  AccountsInv'
<1> DEFINE u == req[r].user
           row == req[r].copy
<1>1. /\ r \in Running /\ u \in DOMAIN users /\ row \in UserType /\ req[r].kind = "row"
      /\ (r \notin overtaken => Saw(r))
  BY DEF SaveRow, At, AccountsInv, Knows, Body, Running, Restoring
<1>2. CASE ~ Fits(u, row) BY <1>2, RefuseKeeps DEF SaveRow
<1>3. CASE Fits(u, row)
  <2>1. /\ row.email = users[u].email \/ EmailFree(r, row.email)
        /\ Commit(r, [users EXCEPT ![u] = row], posts, IF row.digest = users[u].digest THEN {} ELSE {u})
    BY <1>3 DEF SaveRow
  <2>2. r \notin overtaken => row = users[u] BY <1>1 DEF Saw
  <2> QED BY <1>1, <2>1, <2>2, OneRow
<1> QED BY <1>2, <1>3

(***************************************************************************)
(* importUsers.                                                            *)
(***************************************************************************)
LEMMA CallImportKeeps ==
  ASSUME UsersAssumption, AccountsInv, calls < MaxCalls, NEW r \in Requests, NEW actor,
         NEW emails \in SUBSET Emails, NEW s \in Sites,
         NEW digestOf \in [FreshEmails(emails) -> Digests],
         CallImport(r, actor, emails, s, digestOf)
  PROVE  AccountsInv'
<1> DEFINE there == {users[u].email : u \in FindSiteUsers(s)}
           known == {Max(FindByEmail(e)) : e \in (emails \ there) \ FreshEmails(emails)}
           q == [Idle EXCEPT !.kind = "import", !.at = "write", !.site = s, !.seen = {s},
                             !.fresh = digestOf, !.known = known]
<1>1. /\ Call(r, q) /\ IsInjective(digestOf)
      /\ \A e \in DOMAIN digestOf : digestOf[e] \in UniqueFastPassword({s})
  BY DEF CallImport
<1>2. ASSUME NEW e \in (emails \ there) \ FreshEmails(emails)
      PROVE  /\ Max(FindByEmail(e)) \in DOMAIN users
             /\ posts[Max(FindByEmail(e))][s] = 0
  <2>1. PICK n \in 0 .. MaxUsers : DOMAIN users = 1 .. n BY DEF AccountsInv, AccountsTyped, Tables
  <2>2. FindByEmail(e) \in SUBSET (1 .. n) /\ FindByEmail(e) # {} /\ n \in Nat
    BY <2>1 DEF FindByEmail, FreshEmails
  <2>3. Max(FindByEmail(e)) \in FindByEmail(e) BY <2>2, MaxIsThere
  <2> DEFINE u == Max(FindByEmail(e))
  <2> HIDE DEF u
  <2>4. u \in DOMAIN users /\ users[u].email = e BY <2>3 DEF FindByEmail, u
  <2>5. u \notin FindSiteUsers(s) BY <2>4
  <2>6. posts[u][s] \in Nat /\ ~ (posts[u][s] > 0) BY <2>4, <2>5, UserIdsTyped DEF FindSiteUsers
  <2> QED BY <2>4, <2>6 DEF u
<1>3. known \subseteq DOMAIN users /\ \A u \in known : posts[u][s] = 0 BY <1>2
<1>4. digestOf \in FreshType /\ DOMAIN digestOf = FreshEmails(emails) /\ FreshEmails(emails) \in SUBSET Emails
  <2>1. FreshEmails(emails) \in SUBSET Emails BY DEF FreshEmails
  <2> QED BY <2>1 DEF FreshType
<1> HIDE DEF known
<1>5. /\ q \in AccountRequest /\ q.at = "write" /\ q.kind = "import" /\ q.site = s /\ q.seen = {s}
      /\ q.fresh = digestOf /\ q.known = known
  BY <1>3, <1>4, IdleIsTyped, UserIdsTyped DEF AccountRequest, Idle, AccountStages
<1> HIDE DEF q
<1>6. req'[r] = q /\ users' = users /\ posts' = posts
  BY <1>1 DEF Call, Go, tables, AccountsInv, AccountsTyped
<1>7. Body(r)' BY <1>1, <1>3, <1>4, <1>5, <1>6 DEF Body, Importing
<1>8. ASSUME NEW e \in DOMAIN digestOf
      PROVE  FindByEmail(e) = {} /\ FindByFastPassword(digestOf[e], s) = {}
  <2>1. FindByEmail(e) = {} BY <1>4 DEF FreshEmails
  <2>2. \A u \in FindByFastPassword(digestOf[e], s) : u # Nothing
    BY UserIdsTyped DEF FindByFastPassword, FindSiteUsers, UsersAssumption
  <2>3. FindByFastPassword(digestOf[e], s) = {} BY <2>2, <1>1 DEF UniqueFastPassword, HasDigest
  <2> QED BY <2>1, <2>3
<1>9. Saw(r)'
  BY <1>3, <1>5, <1>6, <1>8 DEF Saw, Unused, FindByEmail, FindByFastPassword, FindSiteUsers
<1> QED BY <1>1, <1>5, <1>7, <1>9, CallKeeps

LEMMA ImportUsersKeeps ==
  ASSUME UsersAssumption, AccountsInv, NEW r \in Requests, ImportUsers(r)
  PROVE  AccountsInv'
<1> DEFINE q == req[r]
           emails == SetToSeq(DOMAIN q.fresh)
           n == Cardinality(DOMAIN users)
           m == Len(emails)
           new == [k \in n + 1 .. n + m |->
                      [email |-> emails[k - n], site |-> q.site, home |-> q.site, digest |-> q.fresh[emails[k - n]]]]
           old == [u \in DOMAIN posts |-> IF u \in q.known THEN Plus(posts[u], q.site) ELSE posts[u]]
           post == [k \in DOMAIN new |-> OnlyAt(q.site)]
           rows == With(users, new)
           assigned == With(old, post)
<1>1. /\ q.kind = "import" /\ q.at = "write" /\ Importing(r) /\ r \in Running
      /\ (r \notin overtaken => Saw(r))
      /\ n + m <= MaxUsers
      /\ \A e \in DOMAIN q.fresh : EmailFree(r, e)
      /\ \A u \in q.known : RowFree(r, u)
  BY DEF ImportUsers, At, AccountsInv, Knows, Body, Running
<1>2. CASE ~ \A k \in DOMAIN new : Fits(k, new[k]) BY <1>2, RefuseKeeps DEF ImportUsers
<1>3. CASE \A k \in DOMAIN new : Fits(k, new[k])
  <2>1. Commit(r, rows, assigned, DOMAIN new) BY <1>3 DEF ImportUsers
  <2>2. /\ n \in Nat /\ DOMAIN users = 1 .. n /\ DOMAIN posts = DOMAIN users
        /\ posts \in [DOMAIN users -> [Sites -> Nat]]
    BY Counted, UserIdsTyped
  <2>3. /\ m \in Nat /\ DOMAIN emails = 1 .. m
        /\ \A i \in 1 .. m : emails[i] \in DOMAIN q.fresh
        /\ \A i, j \in 1 .. m : emails[i] = emails[j] => i = j
    <3>1. IsFiniteSet(DOMAIN q.fresh) BY <1>1, FS_Subset DEF Importing, UsersAssumption
    <3>2. /\ Cardinality(DOMAIN q.fresh) \in Nat
          /\ emails \in [1 .. Cardinality(DOMAIN q.fresh) -> DOMAIN q.fresh] /\ IsInjective(emails)
      BY <3>1, ListOfSet
    <3>3. emails \in Seq(DOMAIN q.fresh) BY <3>2
    <3> HIDE DEF emails
    <3>4. m = Cardinality(DOMAIN q.fresh) BY <3>2, <3>3
    <3> QED BY <3>2, <3>4 DEF IsInjective
  <2>4. /\ DOMAIN new = n + 1 .. n + m /\ DOMAIN users \cap DOMAIN new = {}
        /\ \A k \in DOMAIN new : /\ k - n \in 1 .. m
                                 /\ new[k].email = emails[k - n] /\ new[k].digest = q.fresh[emails[k - n]]
    BY <2>2, <2>3
  <2>5. \A k \in DOMAIN new : new[k] \in UserType
    <3>1. \A k \in DOMAIN new :
            new[k] = [email |-> emails[k - n], site |-> q.site, home |-> q.site, digest |-> q.fresh[emails[k - n]]]
      OBVIOUS
    <3> HIDE DEF new, emails, n, m
    <3>2. ASSUME NEW k \in DOMAIN new
          PROVE  emails[k - n] \in Emails /\ q.fresh[emails[k - n]] \in Digests /\ q.site \in Sites
      BY <1>1, <2>3, <2>4 DEF Importing
    <3> QED BY <3>1, <3>2 DEF UserType
  <2>6. DOMAIN post = DOMAIN new /\ \A k \in DOMAIN new : post[k] = OnlyAt(q.site) OBVIOUS
  <2>7. /\ DOMAIN old = DOMAIN users
        /\ \A u \in DOMAIN users : old[u] = IF u \in q.known THEN Plus(posts[u], q.site) ELSE posts[u]
    BY <2>2
  <2> HIDE DEF emails, new, old, post
  <2>8. /\ DOMAIN rows = DOMAIN users \cup DOMAIN new
        /\ \A k \in DOMAIN new : rows[k] = new[k]
        /\ \A u \in DOMAIN users : rows[u] = users[u]
        /\ rows = [u \in DOMAIN rows |-> rows[u]]
    BY <2>4 DEF With
  <2>9. /\ DOMAIN assigned = DOMAIN users \cup DOMAIN new
        /\ \A k \in DOMAIN new : assigned[k] = OnlyAt(q.site)
        /\ \A u \in DOMAIN users : assigned[u] = IF u \in q.known THEN Plus(posts[u], q.site) ELSE posts[u]
        /\ assigned = [u \in DOMAIN assigned |-> assigned[u]]
    BY <2>4, <2>6, <2>7 DEF With
  <2> HIDE DEF rows, assigned
  <2>10. /\ OnlyAt(q.site) \in [Sites -> Nat]
         /\ \A s \in Sites : OnlyAt(q.site)[s] <= 1 /\ (OnlyAt(q.site)[s] > 0 => s = q.site)
    BY DEF OnlyAt
  <2>11. ASSUME NEW u \in DOMAIN users
         PROVE  /\ assigned[u] \in [Sites -> Nat]
                /\ \A s \in Sites : assigned[u][s] = IF u \in q.known /\ s = q.site THEN posts[u][s] + 1 ELSE posts[u][s]
    <3>1. posts[u] \in [Sites -> Nat] /\ q.site \in Sites BY <2>2, <1>1 DEF Importing
    <3>2. CASE u \in q.known
      <4>1. assigned[u] = [posts[u] EXCEPT ![q.site] = @ + 1] BY <3>2, <2>9 DEF Plus
      <4> QED BY <3>1, <3>2, <4>1
    <3>3. CASE u \notin q.known BY <3>1, <3>3, <2>9
    <3> QED BY <3>2, <3>3
  <2>12. Tables(rows, assigned)
    <3>1. DOMAIN rows = 1 .. n + m /\ n + m \in 0 .. MaxUsers
      BY <1>1, <2>2, <2>3, <2>4, <2>8 DEF UsersAssumption
    <3>2. \A v \in DOMAIN rows : rows[v] \in UserType /\ assigned[v] \in [Sites -> Nat]
      BY <2>5, <2>8, <2>9, <2>10, <2>11, UserIdsTyped
    <3> QED BY <3>1, <3>2, <2>8, <2>9 DEF Tables
  <2>13. r \notin overtaken => EmailsApart(rows) /\ PostsOnce(assigned)
    <3> SUFFICES ASSUME r \notin overtaken
                 PROVE  EmailsApart(rows) /\ PostsOnce(assigned)
      OBVIOUS
    <3>1. \A e \in DOMAIN q.fresh : FindByEmail(e) = {} BY <1>1 DEF Saw
    <3>2. \A u \in DOMAIN users, k \in DOMAIN new : rows[u].email # rows[k].email
      BY <3>1, <2>3, <2>4, <2>8 DEF FindByEmail
    <3>3. \A j, k \in DOMAIN new : j # k => rows[j].email # rows[k].email
      BY <2>2, <2>3, <2>4, <2>8
    <3>4. EmailsApart(rows) BY <3>2, <3>3, <2>8 DEF EmailsApart
    <3>5. \A u \in q.known : posts[u][q.site] = 0 BY <1>1 DEF Saw
    <3>6. PostsOnce(assigned) BY <3>5, <2>2, <2>9, <2>10, <2>11 DEF PostsOnce
    <3> QED BY <3>4, <3>6
  <2>14. Respects(r, rows, assigned)
    <3> SUFFICES ASSUME NEW t \in Requests \ {r}
                 PROVE  /\ At(t, "create", "insert") => \A v \in DOMAIN rows : rows[v].email # req[t].email
                        /\ At(t, "create", "assign") => assigned[req[t].user][req[t].site] = 0
      BY DEF Respects
    <3>1. Body(t) /\ Holds(t) BY DEF AccountsInv, Knows
    <3>2. CASE At(t, "create", "insert")
      <4>1. \A u \in DOMAIN users : rows[u].email # req[t].email
        BY <3>1, <3>2, <2>8 DEF Holds, FindByEmail
      <4>2. \A e \in DOMAIN q.fresh : req[t].email # e BY <3>2, <1>1 DEF At, EmailFree, Reserves
      <4>3. \A k \in DOMAIN new : rows[k].email # req[t].email BY <4>2, <2>3, <2>4, <2>8
      <4> QED BY <4>1, <4>3, <2>8, <3>2 DEF At
    <3>3. CASE At(t, "create", "assign")
      <4>1. req[t].user \in DOMAIN users /\ req[t].site \in Sites /\ posts[req[t].user][req[t].site] = 0
        BY <3>1, <3>3 DEF Body, Holds, At, Creating
      <4>2. req[t].user \notin q.known BY <3>3, <1>1 DEF RowFree, HasLocked, At
      <4> QED BY <4>1, <4>2, <2>11, <3>3 DEF At
    <3> QED BY <3>2, <3>3
  <2>15. DigestsApart(r, rows, assigned, DOMAIN new)
    <3>1. /\ DOMAIN new \subseteq DOMAIN rows
          /\ \A v \in DOMAIN rows \ DOMAIN new : v \in DOMAIN users /\ rows[v].digest = users[v].digest
      BY <2>8
    <3>2. ASSUME NEW k \in DOMAIN new, NEW v \in DOMAIN rows, NEW s \in Looked(r),
                 k # v, assigned[v][s] > 0, rows[k].digest = rows[v].digest
          PROVE  v \in DOMAIN users \ DOMAIN new /\ posts[v][s] = 0
      <4>1. r \notin overtaken /\ s = q.site /\ s \in Sites /\ Saw(r)
        BY <1>1 DEF Looked, Importing
      <4>2. CASE v \in DOMAIN new
        <5>1. q.fresh[emails[k - n]] = q.fresh[emails[v - n]] BY <3>2, <4>2, <2>4, <2>8
        <5>2. emails[k - n] = emails[v - n]
          BY <5>1, <4>2, <1>1, <2>3, <2>4 DEF Importing, IsInjective
        <5>3. k - n = v - n BY <5>2, <4>2, <2>3, <2>4
        <5> QED BY <5>3, <3>2, <4>2, <2>2, <2>3, <2>4
      <4>3. CASE v \in DOMAIN users
        <5>1. emails[k - n] \in DOMAIN q.fresh /\ users[v].digest = q.fresh[emails[k - n]]
          BY <3>2, <4>3, <2>3, <2>4, <2>8
        <5>2. s \in q.seen BY <4>1, <1>1 DEF Importing
        <5>3. v \notin FindByFastPassword(users[v].digest, s)
          BY <4>1, <5>1, <5>2, <1>1 DEF Saw, Unused
        <5>4. ~ (posts[v][s] > 0) /\ posts[v][s] \in Nat
          BY <4>1, <4>3, <5>3, <2>2 DEF FindByFastPassword, FindSiteUsers
        <5> QED BY <4>3, <5>4, <2>4
      <4> QED BY <4>2, <4>3, <2>8
    <3> QED BY <3>1, <3>2 DEF DigestsApart
  <2>16. /\ DOMAIN users \subseteq DOMAIN rows
         /\ (r \in overtaken /\ req[r].kind # "create") \/ (EmailsApart(rows) /\ PostsOnce(assigned))
    BY <1>1, <2>8, <2>13
  <2> DEFINE digests == DOMAIN new
  <2>17. Commit(r, rows, assigned, digests) /\ DigestsApart(r, rows, assigned, digests) /\ r \in Running
    BY <1>1, <2>1, <2>15
  <2> HIDE DEF digests
  <2> QED BY <2>12, <2>14, <2>16, <2>17, CommitKeeps
<1> QED BY <1>2, <1>3

(***************************************************************************)
(* Every step.                                                             *)
(***************************************************************************)
LEMMA CallsKeep ==
  ASSUME UsersAssumption, AccountsInv, NEW r \in Requests, Calls(r)
  PROVE  AccountsInv'
<1>1. calls < MaxCalls /\ DOMAIN users \subseteq UserIds BY UserIdsTyped DEF Calls
<1>2. ASSUME NEW actor, NEW s \in Sites, NEW e \in Emails, NEW d \in Digests, NEW given \in BOOLEAN,
             CallCreate(r, actor, e, s, d, given)
      PROVE  AccountsInv'
  BY <1>1, <1>2, CallCreateKeeps
<1>3. ASSUME NEW actor, NEW s \in Sites, NEW u \in DOMAIN users, NEW e \in Emails,
             NEW d \in Digests \cup {Nothing}, CallUpdate(r, actor, u, e, s, d)
      PROVE  AccountsInv'
  <2> DEFINE q == [Idle EXCEPT !.kind = "update", !.at = "look", !.user = u, !.email = e, !.site = s, !.digest = d]
  <2>1. Call(r, q) BY <1>3 DEF CallUpdate
  <2>2. q \in AccountRequest /\ q.at = "look" /\ q.kind = "update" /\ q.user = u /\ q.site = s
    BY <1>1, IdleIsTyped DEF AccountRequest, Idle, AccountStages
  <2> HIDE DEF q
  <2> QED BY <1>1, <2>1, <2>2, CallUpdateKeeps
<1>4. ASSUME NEW actor, NEW s \in Sites, NEW emails \in SUBSET Emails,
             NEW digestOf \in [FreshEmails(emails) -> Digests], CallImport(r, actor, emails, s, digestOf)
      PROVE  AccountsInv'
  BY <1>1, <1>4, CallImportKeeps
<1>5. ASSUME NEW actor, NEW u \in DOMAIN users, NEW e \in Emails \cup {Nothing},
             NEW d \in Digests \cup {Nothing}, CallUpdatePartial(r, actor, u, e, d)
      PROVE  AccountsInv'
  <2> DEFINE q == [Idle EXCEPT !.kind = "partial", !.at = "look", !.user = u, !.email = e, !.digest = d]
  <2>1. Call(r, q) BY <1>5 DEF CallUpdatePartial
  <2>2. q \in AccountRequest /\ q.at = "look" /\ q.kind = "partial" /\ q.user = u
    BY <1>1, IdleIsTyped DEF AccountRequest, Idle, AccountStages
  <2> HIDE DEF q
  <2> QED BY <1>1, <2>1, <2>2, CallUpdateKeeps
<1>6. ASSUME NEW u \in DOMAIN users, NEW d \in Digests, CallRotate(r, u, d)
      PROVE  AccountsInv'
  <2> DEFINE q == [Idle EXCEPT !.kind = "partial", !.at = "look", !.user = u, !.digest = d]
  <2>1. Call(r, q) BY <1>6 DEF CallRotate
  <2>2. q \in AccountRequest /\ q.at = "look" /\ q.kind = "partial" /\ q.user = u
    BY <1>1, IdleIsTyped DEF AccountRequest, Idle, AccountStages
  <2> HIDE DEF q
  <2> QED BY <1>1, <2>1, <2>2, CallUpdateKeeps
<1>7. ASSUME NEW u \in DOMAIN users, CallSaveRow(r, u)
      PROVE  AccountsInv'
  BY <1>1, <1>7, CallSaveRowKeeps
<1> QED BY <1>2, <1>3, <1>4, <1>5, <1>6, <1>7 DEF Calls

LEMMA AccountsNextKeeps ==
  ASSUME UsersAssumption, AccountsInv, [Next]_vars
  PROVE  AccountsInv'
<1>1. CASE Next
  <2>1. PICK r \in Requests :
          \/ Calls(r)
          \/ LookForEmail(r) \/ InsertUser(r) \/ AssignUser(r)
          \/ LockUser(r) \/ SaveUser(r)
          \/ ImportUsers(r)
          \/ SaveRow(r)
          \/ Abort(r)
    BY <1>1 DEF Next
  <2> QED
    BY <2>1, CallsKeep, LookForEmailKeeps, InsertUserKeeps, AssignUserKeeps, LockUserKeeps,
       SaveUserKeeps, ImportUsersKeeps, SaveRowKeeps, RefuseKeeps DEF Abort
<1>2. CASE UNCHANGED vars
  <2>1. /\ users' = users /\ posts' = posts /\ req' = req /\ calls' = calls
        /\ overtaken' = overtaken /\ rushed' = rushed /\ unseen' = unseen
    BY <1>2 DEF vars
  <2>2. AccountsTyped' /\ Exclusive' /\ PeopleUnique' /\ FastPasswordsUnique'
    <3>1. AccountsTyped' /\ Exclusive' BY <2>1 DEF AccountsInv, AccountsTyped, Tables, Exclusive, HasLocked
    <3>2. PeopleUnique' BY <2>1 DEF AccountsInv, PeopleUnique, FindByEmail
    <3>3. FastPasswordsUnique' BY <2>1 DEF AccountsInv, FastPasswordsUnique, FindSiteUsers
    <3> QED BY <3>1, <3>2, <3>3
  <2>3. ASSUME NEW r \in Requests
        PROVE  Knows(r)'
    <3>1. Knows(r) BY DEF AccountsInv
    <3>2. Body(r)' /\ Holds(r)'
      BY <3>1, <2>1
         DEF Knows, Body, Creating, Updating, Importing, Restoring, Holds, At, FindByEmail
    <3>3. (r \in Running \ overtaken => Saw(r))'
      BY <3>1, <2>1 DEF Knows, Running, Saw, Unused, FindByEmail, FindByFastPassword, FindSiteUsers
    <3> QED BY <3>2, <3>3 DEF Knows
  <2> QED BY <2>2, <2>3 DEF AccountsInv
<1> QED BY <1>1, <1>2

\* The inductive invariant: a row is locked by one request, what a creation found by its
\* locking read is still so, and what another has seen is so until somebody commits.
THEOREM AccountsInvariance == Spec => []AccountsInv
<1>1. Init => AccountsInv BY PeopleAssumption, AccountsInit
<1>2. AccountsInv /\ [Next]_vars => AccountsInv' BY PeopleAssumption, AccountsNextKeeps
<1> QED BY <1>1, <1>2, PTL DEF Spec

\* Rows, assignments and what requests are about keep their types: the ids of the
\* users are 1 .. n, and a user has assignments from the day of her row.
THEOREM AccountTypes == Spec => []TypeOK
<1>1. ASSUME AccountsInv
      PROVE  TypeOK
  <2>1. DOMAIN users \subseteq UserIds BY <1>1, PeopleAssumption, UserIdsTyped
  <2> QED BY <1>1, <2>1 DEF AccountsInv, AccountsTyped, Tables, TypeOK
<1>2. AccountsInv => TypeOK BY <1>1
<1> QED BY <1>2, AccountsInvariance, PTL

\* An email is one user's and a user is assigned to a site once, whatever requests run
\* side by side, but for what an update, an import or a save of a copy wrote while
\* another committed (users.service.ts, user-creation.persistence.ts): the creation's
\* locking read of the email is enough for a creation.
THEOREM PeopleStayUnique == Spec => []PeopleUnique
<1>1. AccountsInv => PeopleUnique BY DEF AccountsInv
<1> QED BY <1>1, AccountsInvariance, PTL

\* Two users of a site share a fast password only where it was not looked for at that
\* site, or was while another request committed (fastPasswordExistsInSite of
\* users.service.ts and of user-update.persistence.ts).
THEOREM FastPasswordsStayUnique == Spec => []FastPasswordsUnique
<1>1. AccountsInv => FastPasswordsUnique BY DEF AccountsInv
<1> QED BY <1>1, AccountsInvariance, PTL

(***************************************************************************)
(* Catalogs.                                                               *)
(***************************************************************************)
LEMMA IdleEntryRequest ==
  /\ Catalog!Idle \in EntryRequest
  /\ Catalog!Idle.at = "idle"
BY DEF Catalog!Idle, EntryRequest, EntryStages

LEMMA CatalogConstants ==
  /\ MaxEntries \in Nat /\ MaxTime \in Nat /\ Nothing \notin Catalog!EntryIds
  /\ FirstEntries \in Seq(Catalog!EntryType) /\ Len(FirstEntries) <= MaxEntries
  /\ \A i, j \in DOMAIN FirstEntries :
       /\ FirstEntries[i].kind = "priority" /\ FirstEntries[i].active
       /\ FirstEntries[j].kind = "priority" /\ FirstEntries[j].active
       /\ FirstEntries[i].value = FirstEntries[j].value
       => i = j
BY CatalogAssumption, Zenon DEF Catalog!EntriesAssumption

LEMMA EntriesTyped ==
  ASSUME CatalogInv
  PROVE  /\ DOMAIN entries \subseteq Catalog!EntryIds
         /\ \A i \in DOMAIN entries :
              /\ entries[i].kind \in Catalog!Kinds /\ entries[i].of \in Catalog!EntryIds \cup {Nothing}
              /\ entries[i].value \in Values /\ entries[i].active \in BOOLEAN /\ entries[i].stamp \in 0 .. MaxTime
         /\ now \in 0 .. MaxTime
<1>1. PICK n \in 0 .. MaxEntries : DOMAIN entries = 1 .. n BY DEF CatalogInv, CatalogTyped
<1>2. 1 .. n \subseteq 1 .. MaxEntries BY CatalogConstants
<1> QED BY <1>1, <1>2 DEF CatalogInv, CatalogTyped, Catalog!EntryType, Catalog!EntryIds

\* The last of the stamps of a table is one of them, or 0, and none is past it.
LEMMA LastStamp ==
  ASSUME NEW n \in Nat, NEW table, \A i \in DOMAIN table : table[i].stamp \in 0 .. n
  PROVE  LET last == Catalog!Max({0} \cup {table[i].stamp : i \in DOMAIN table}) IN
         /\ last \in 0 .. n
         /\ \A i \in DOMAIN table : table[i].stamp <= last
<1> DEFINE S == {0} \cup {table[i].stamp : i \in DOMAIN table}
           last == Catalog!Max(S)
<1>1. S \in SUBSET (0 .. n) /\ S # {} OBVIOUS
<1>2. \A i \in DOMAIN table : table[i].stamp \in S OBVIOUS
<1> HIDE DEF S
<1>3. \E m \in S : \A k \in S : m >= k BY <1>1, Largest
<1>4. last \in S /\ \A k \in S : last >= k BY <1>3, Zenon DEF Catalog!Max
<1> HIDE DEF last
<1>5. last \in 0 .. n BY <1>1, <1>4
<1>6. \A i \in DOMAIN table : table[i].stamp <= last
  <2> TAKE i \in DOMAIN table
  <2>1. last >= table[i].stamp /\ table[i].stamp \in 0 .. n BY <1>2, <1>4
  <2> QED BY <2>1, <1>5
<1> QED BY <1>5, <1>6 DEF last, S

LEMMA CatalogInit == Catalog!Init => CatalogInv
<1> SUFFICES ASSUME Catalog!Init PROVE CatalogInv OBVIOUS
<1>1. /\ entries = FirstEntries /\ worn = <<>> /\ snapshot = Nothing /\ now = 0
      /\ catalogReq = [r \in Requests |-> Catalog!Idle]
      /\ crossed = {}
  BY DEF Catalog!Init
<1>2. CatalogTyped
  <2>1. DOMAIN entries = 1 .. Len(FirstEntries) /\ Len(FirstEntries) \in 0 .. MaxEntries
    BY <1>1, CatalogConstants
  <2>2. entries \in [DOMAIN entries -> Catalog!EntryType] BY <1>1, CatalogConstants
  <2>3. worn \in Seq(Catalog!CardType) BY <1>1
  <2>4. now \in 0 .. MaxTime BY <1>1, CatalogConstants
  <2>5. catalogReq \in [Requests -> EntryRequest] BY <1>1, IdleEntryRequest
  <2> QED BY <2>1, <2>2, <2>3, <2>4, <2>5 DEF CatalogTyped
<1>3. \A r \in Requests : CarriesEntry(r) /\ KnowsEntry(r)
  BY <1>1, IdleEntryRequest DEF CarriesEntry, KnowsEntry
<1>4. CatalogHolds
  BY <1>1, CatalogConstants DEF CatalogHolds, Catalog!CatalogHolds, Catalog!Active, Catalog!SameCode
<1>5. SnapshotKnown /\ DOMAIN worn = {} BY <1>1 DEF SnapshotKnown
<1> QED BY <1>2, <1>3, <1>4, <1>5 DEF CatalogInv

\* What is not written stays known, and a request that begins or ends knows what it has read.
LEMMA CatalogReadKeeps ==
  ASSUME CatalogInv, NEW r \in Requests, NEW q,
         q \in EntryRequest, catalogReq' = [catalogReq EXCEPT ![r] = q],
         UNCHANGED <<entries, worn, snapshot, now, crossed, late>>,
         overtaken' \in {overtaken, overtaken \ {r}},
         CarriesEntry(r)', KnowsEntry(r)'
  PROVE  CatalogInv'
<1>1. CatalogTyped' BY DEF CatalogInv, CatalogTyped
<1>2. ASSUME NEW s \in Requests, s # r
      PROVE  CarriesEntry(s)' /\ KnowsEntry(s)'
  <2>1. catalogReq'[s] = catalogReq[s] /\ (s \notin overtaken' => s \notin overtaken)
    BY <1>2 DEF CatalogInv, CatalogTyped
  <2>2. CarriesEntry(s) /\ KnowsEntry(s) BY DEF CatalogInv
  <2> QED BY <2>1, <2>2 DEF CarriesEntry, KnowsEntry, IsOfType, CodeIsFree
<1>3. SnapshotKnown' /\ CatalogHolds'
  BY DEF CatalogInv, SnapshotKnown, CatalogHolds, Catalog!CatalogHolds, Catalog!Content, Catalog!Listed, Catalog!Active,
         Catalog!Revision, Catalog!SameCode
<1>4. (\A c \in DOMAIN worn : IsOfType(worn[c], entries))' BY DEF CatalogInv, IsOfType
<1> QED BY <1>1, <1>2, <1>3, <1>4 DEF CatalogInv

LEMMA CreateEntryKeeps ==
  ASSUME CatalogInv, NEW r \in Requests, NEW kind \in Catalog!Kinds, NEW of \in DOMAIN entries \cup {Nothing},
         NEW value \in Values, Catalog!Create(r, kind, of, value)
  PROVE  CatalogInv'
<1> DEFINE row == Catalog!Stamped(kind, of, value, TRUE)
           q == [Catalog!Idle EXCEPT !.at = "insert", !.row = row]
<1>1. row \in Catalog!EntryType BY EntriesTyped DEF Catalog!EntryType, Catalog!Stamped
<1>2. row.kind = kind /\ row.value = value BY DEF Catalog!Stamped
<1>3. q \in EntryRequest /\ q.at = "insert" /\ q.row = row
  BY <1>1, IdleEntryRequest DEF EntryRequest, EntryStages, Catalog!Idle
<1>4. /\ catalogReq' = [catalogReq EXCEPT ![r] = q]
      /\ UNCHANGED <<entries, worn, snapshot, now, crossed, late>>
      /\ overtaken' = overtaken \ {r}
      /\ kind = "priority" => Catalog!SameCode(value, Nothing) = {}
  BY Zenon DEF Catalog!Create, Catalog!Call
<1>5. catalogReq'[r] = q BY <1>4 DEF CatalogInv, CatalogTyped
<1> HIDE DEF row, q
<1>6. CarriesEntry(r)' BY <1>1, <1>3, <1>5 DEF CarriesEntry
<1>7. CodeIsFree(row, Nothing)
  BY <1>2, <1>4, EntriesTyped, CatalogConstants DEF CodeIsFree, Catalog!SameCode, Catalog!Active
<1>8. KnowsEntry(r)' BY <1>3, <1>4, <1>5, <1>7 DEF KnowsEntry, CodeIsFree
<1> QED BY <1>3, <1>4, <1>6, <1>8, CatalogReadKeeps

LEMMA UpdateEntryKeeps ==
  ASSUME CatalogInv, NEW r \in Requests, NEW i \in DOMAIN entries, NEW value \in Values, NEW active \in BOOLEAN,
         Catalog!Update(r, i, value, active)
  PROVE  CatalogInv'
<1> DEFINE row == Catalog!Stamped(entries[i].kind, entries[i].of, value, active)
           q == [Catalog!Idle EXCEPT !.at = "save", !.id = i, !.row = row, !.recolours = Catalog!Recolours(i, value)]
<1>1. row \in Catalog!EntryType /\ i \in Catalog!EntryIds
  BY EntriesTyped DEF Catalog!EntryType, Catalog!Stamped
<1>2. row.kind = entries[i].kind /\ row.value = value BY DEF Catalog!Stamped
<1>3. q \in EntryRequest /\ q.at = "save" /\ q.id = i /\ q.row = row
      /\ (q.recolours <=> entries[i].kind = "type" /\ value # entries[i].value)
  BY <1>1, IdleEntryRequest DEF EntryRequest, EntryStages, Catalog!Idle, Catalog!Recolours
<1>4. /\ catalogReq' = [catalogReq EXCEPT ![r] = q]
      /\ UNCHANGED <<entries, worn, snapshot, now, crossed, late>>
      /\ overtaken' = overtaken \ {r}
      /\ entries[i].kind = "priority" => Catalog!SameCode(value, i) = {}
  BY Zenon DEF Catalog!Update, Catalog!Call
<1>5. catalogReq'[r] = q BY <1>4 DEF CatalogInv, CatalogTyped
<1> HIDE DEF row, q
<1>6. CarriesEntry(r)' BY <1>1, <1>2, <1>3, <1>4, <1>5 DEF CarriesEntry
<1>7. CodeIsFree(row, i)
  BY <1>2, <1>4, EntriesTyped, CatalogConstants DEF CodeIsFree, Catalog!SameCode, Catalog!Active
<1>8. KnowsEntry(r)' BY <1>2, <1>3, <1>4, <1>5, <1>7 DEF KnowsEntry, CodeIsFree
<1> QED BY <1>3, <1>4, <1>6, <1>8, CatalogReadKeeps

LEMMA CreateCardKeeps ==
  ASSUME CatalogInv, NEW r \in Requests, NEW t \in DOMAIN entries, NEW p \in DOMAIN entries, NEW y \in DOMAIN entries,
         Catalog!CreateCard(r, t, p, y)
  PROVE  CatalogInv'
<1> DEFINE card == [type |-> t, preclassifier |-> p, priority |-> y, colour |-> entries[t].value, fits |-> TRUE]
           q == [Catalog!Idle EXCEPT !.at = "card", !.card = card]
<1>1. card \in Catalog!CardType BY EntriesTyped DEF Catalog!CardType
<1>2. card.type = t /\ card.preclassifier = p /\ card.priority = y /\ card.colour = entries[t].value
  OBVIOUS
<1>3. q \in EntryRequest /\ q.at = "card" /\ q.card = card
  BY <1>1, IdleEntryRequest DEF EntryRequest, EntryStages, Catalog!Idle
<1>4. /\ catalogReq' = [catalogReq EXCEPT ![r] = q]
      /\ UNCHANGED <<entries, worn, snapshot, now, crossed, late>>
      /\ overtaken' = overtaken \ {r}
      /\ t \in Catalog!Active("type") /\ y \in Catalog!Active("priority") /\ p \in Catalog!Active("preclassifier")
  BY Zenon DEF Catalog!CreateCard, Catalog!Call
<1>5. catalogReq'[r] = q BY <1>4 DEF CatalogInv, CatalogTyped
<1> HIDE DEF card, q
<1>6. CarriesEntry(r)' BY <1>1, <1>2, <1>3, <1>4, <1>5 DEF CarriesEntry, IsOfType, Catalog!Active
<1>7. KnowsEntry(r)' BY <1>2, <1>3, <1>4, <1>5 DEF KnowsEntry, Catalog!Active
<1> QED BY <1>3, <1>4, <1>6, <1>7, CatalogReadKeeps

LEMMA FailEntryKeeps ==
  ASSUME CatalogInv, NEW r \in Requests, Catalog!Fail(r)
  PROVE  CatalogInv'
<1>1. /\ catalogReq' = [catalogReq EXCEPT ![r] = Catalog!Idle]
      /\ UNCHANGED <<entries, worn, snapshot, now, crossed, late>>
      /\ overtaken' = overtaken
  BY DEF Catalog!Fail
<1>2. catalogReq'[r].at = "idle" BY <1>1, IdleEntryRequest DEF CatalogInv, CatalogTyped
<1>3. CarriesEntry(r)' /\ KnowsEntry(r)' BY <1>2 DEF CarriesEntry, KnowsEntry
<1> QED BY <1>1, <1>3, IdleEntryRequest, CatalogReadKeeps

\* A request that writes overtakes the others, which know nothing any more.
LEMMA CatalogWriteKeeps ==
  ASSUME CatalogInv, NEW r \in Requests,
         catalogReq' = [catalogReq EXCEPT ![r] = Catalog!Idle],
         overtaken' = (overtaken \cup Catalog!Running) \ {r},
         now' = now,
         \E n \in 0 .. MaxEntries : DOMAIN entries' = 1 .. n,
         entries' \in [DOMAIN entries' -> Catalog!EntryType],
         DOMAIN entries \subseteq DOMAIN entries',
         \A i \in DOMAIN entries : entries'[i].kind = entries[i].kind,
         worn' \in Seq(Catalog!CardType), \A c \in DOMAIN worn' : IsOfType(worn'[c], entries'),
         SnapshotKnown', CatalogHolds'
  PROVE  CatalogInv'
<1>1. CatalogTyped' BY IdleEntryRequest DEF CatalogInv, CatalogTyped
<1>2. ASSUME NEW s \in Requests
      PROVE  CarriesEntry(s)' /\ KnowsEntry(s)'
  <2>1. CASE s = r
    <3>1. catalogReq'[s].at = "idle" BY <2>1, IdleEntryRequest DEF CatalogInv, CatalogTyped
    <3> QED BY <3>1 DEF CarriesEntry, KnowsEntry
  <2>2. CASE s # r
    <3>1. catalogReq'[s] = catalogReq[s] BY <2>2 DEF CatalogInv, CatalogTyped
    <3>2. CarriesEntry(s) BY DEF CatalogInv
    <3>3. CarriesEntry(s)' BY <3>1, <3>2 DEF CarriesEntry, IsOfType
    <3>4. s \notin overtaken' => catalogReq'[s].at = "idle" BY <2>2, <3>1 DEF Catalog!Running
    <3>5. KnowsEntry(s)' BY <3>4 DEF KnowsEntry
    <3> QED BY <3>3, <3>5
  <2> QED BY <2>1, <2>2
<1> QED BY <1>1, <1>2 DEF CatalogInv

\* A row with a stamp past the snapshot's revision takes the revision past it.
LEMMA RevisionPasses ==
  ASSUME CatalogInv, snapshot' = snapshot, entries' \in [DOMAIN entries' -> Catalog!EntryType],
         NEW i \in DOMAIN entries',
         late' = (late \/ (snapshot # Nothing /\ entries'[i].stamp <= snapshot.revision))
  PROVE  SnapshotKnown'
<1> SUFFICES ASSUME snapshot # Nothing
             PROVE  /\ snapshot.revision \in Nat
                    /\ ~late' => snapshot.revision < Catalog!Revision'
  BY DEF SnapshotKnown
<1>1. snapshot.revision \in Nat BY DEF CatalogInv, SnapshotKnown
<1>2. MaxTime \in Nat /\ \A j \in DOMAIN entries' : entries'[j].stamp \in 0 .. MaxTime
  BY CatalogConstants DEF Catalog!EntryType
<1>3. Catalog!Revision' = Catalog!Max({0} \cup {entries'[j].stamp : j \in DOMAIN entries'})
  BY DEF Catalog!Revision, Catalog!Max
<1>4. Catalog!Revision' \in 0 .. MaxTime /\ entries'[i].stamp <= Catalog!Revision'
  BY <1>2, <1>3, LastStamp
<1>5. ~late' => snapshot.revision < entries'[i].stamp
  <2>1. ~late' => ~ (entries'[i].stamp <= snapshot.revision) BY Zenon
  <2>2. entries'[i].stamp \in Nat BY <1>2
  <2> QED BY <1>1, <2>1, <2>2
<1> QED BY <1>1, <1>2, <1>4, <1>5

LEMMA SameCardinality == \A S : Catalog!Cardinality(S) = Cardinality(S)
BY DEF Catalog!Cardinality, Cardinality

LEMMA CardinalityOfEntries ==
  ASSUME CatalogInv
  PROVE  DOMAIN entries = 1 .. Cardinality(DOMAIN entries) /\ Cardinality(DOMAIN entries) \in 0 .. MaxEntries
<1>1. PICK n \in 0 .. MaxEntries : DOMAIN entries = 1 .. n BY DEF CatalogInv, CatalogTyped
<1>2. n \in Nat /\ Cardinality(1 .. n) = n BY FS_Interval, CatalogConstants
<1> QED BY <1>1, <1>2

LEMMA InsertEntryKeeps ==
  ASSUME CatalogInv, NEW r \in Requests, Catalog!InsertEntry(r)
  PROVE  CatalogInv'
<1> DEFINE id == Cardinality(DOMAIN entries) + 1
           row == catalogReq[r].row
<1>1. /\ catalogReq[r].at = "insert"
      /\ Cardinality(DOMAIN entries) < MaxEntries
      /\ entries' = Catalog!Added(entries, id, row) /\ worn' = worn
      /\ catalogReq' = [catalogReq EXCEPT ![r] = Catalog!Idle]
      /\ overtaken' = (overtaken \cup Catalog!Running) \ {r}
      /\ crossed' = IF r \in overtaken THEN crossed \cup {<<"entry", id>>} ELSE crossed
      /\ snapshot' = snapshot /\ now' = now
      /\ late' = (late \/ (snapshot # Nothing /\ row.stamp <= snapshot.revision))
  <2>1. /\ catalogReq[r].at = "insert"
        /\ Cardinality(DOMAIN entries) < MaxEntries
        /\ late' = (late \/ (snapshot # Nothing /\ row.stamp <= snapshot.revision))
    BY SameCardinality, Zenon DEF Catalog!InsertEntry
  <2>2. Catalog!Written(r, Catalog!Added(entries, id, row), worn, {<<"entry", id>>})
    BY SameCardinality, Zenon DEF Catalog!InsertEntry
  <2> QED BY <2>1, <2>2, Zenon DEF Catalog!Written
<1>2. row \in Catalog!EntryType BY <1>1 DEF CatalogInv, CarriesEntry
<1>3. DOMAIN entries = 1 .. (id - 1) /\ id \in 1 .. MaxEntries /\ id - 1 \in Nat
  BY <1>1, CardinalityOfEntries, CatalogConstants
<1>4. r \notin overtaken => CodeIsFree(row, Nothing) BY <1>1 DEF CatalogInv, KnowsEntry
<1> HIDE DEF id, row
<1>5. DOMAIN entries' = 1 .. id /\ id \in 0 .. MaxEntries /\ id \notin DOMAIN entries
  BY <1>1, <1>3 DEF Catalog!Added
<1>6. entries'[id] = row /\ id \in DOMAIN entries' /\ \A i \in DOMAIN entries : i \in DOMAIN entries' /\ entries'[i] = entries[i]
  BY <1>1, <1>5 DEF Catalog!Added
<1>7. entries' \in [DOMAIN entries' -> Catalog!EntryType]
  <2>1. entries' = [i \in DOMAIN entries \cup {id} |-> IF i = id THEN row ELSE entries[i]]
    BY <1>1 DEF Catalog!Added
  <2>2. entries \in [DOMAIN entries -> Catalog!EntryType] BY DEF CatalogInv, CatalogTyped
  <2> QED BY <1>2, <2>1, <2>2
<1>8. SnapshotKnown' BY <1>1, <1>6, <1>7, RevisionPasses
<1>9. CatalogHolds'
  <2> SUFFICES
        /\ \A c \in DOMAIN worn : <<"card", c>> \notin crossed' =>
             /\ worn[c].fits
             /\ <<"entry", worn[c].type>> \notin crossed' => worn[c].colour = entries'[worn[c].type].value
        /\ \A i, j \in DOMAIN entries' :
             /\ entries'[i].kind = "priority" /\ entries'[i].active /\ <<"entry", i>> \notin crossed'
             /\ entries'[j].kind = "priority" /\ entries'[j].active /\ i # j
             /\ entries'[i].value = entries'[j].value
             => <<"entry", j>> \in crossed'
    BY <1>1 DEF CatalogHolds, Catalog!CatalogHolds, Catalog!Active, Catalog!SameCode
  <2>1. CatalogHolds BY DEF CatalogInv
  <2>2. \A c \in DOMAIN worn : IsOfType(worn[c], entries) BY DEF CatalogInv
  <2>3. crossed \subseteq crossed' BY <1>1
  <2>4. ASSUME NEW c \in DOMAIN worn, <<"card", c>> \notin crossed'
        PROVE  /\ worn[c].fits
               /\ <<"entry", worn[c].type>> \notin crossed' => worn[c].colour = entries'[worn[c].type].value
    BY <2>1, <2>2, <2>3, <2>4, <1>6 DEF CatalogHolds, Catalog!CatalogHolds, IsOfType
  <2>5. ASSUME NEW i \in DOMAIN entries', NEW j \in DOMAIN entries',
               entries'[i].kind = "priority", entries'[i].active, <<"entry", i>> \notin crossed',
               entries'[j].kind = "priority", entries'[j].active, i # j,
               entries'[i].value = entries'[j].value
        PROVE  <<"entry", j>> \in crossed'
    <3>1. CASE i \in DOMAIN entries /\ j \in DOMAIN entries
      <4>1. /\ entries[i].kind = "priority" /\ entries[i].active /\ <<"entry", i>> \notin crossed
            /\ entries[j].kind = "priority" /\ entries[j].active
            /\ entries[i].value = entries[j].value
        BY <1>6, <2>3, <2>5, <3>1
      <4>2. i \in Catalog!Active("priority") /\ j \in Catalog!SameCode(entries[i].value, i)
        BY <2>5, <3>1, <4>1 DEF Catalog!Active, Catalog!SameCode
      <4> QED BY <2>1, <2>3, <4>1, <4>2 DEF CatalogHolds, Catalog!CatalogHolds
    <3>2. CASE r \in overtaken /\ (i = id \/ j = id) BY <1>1, <2>5, <3>2
    <3>3. CASE r \notin overtaken /\ i = id
      <4>1. j \in DOMAIN entries /\ j # Nothing
        BY <1>3, <1>5, <2>5, <3>3, EntriesTyped, CatalogConstants
      <4> QED BY <1>4, <1>6, <2>5, <3>3, <4>1 DEF CodeIsFree
    <3>4. CASE r \notin overtaken /\ j = id
      <4>1. i \in DOMAIN entries /\ i # Nothing
        BY <1>3, <1>5, <2>5, <3>4, EntriesTyped, CatalogConstants
      <4> QED BY <1>4, <1>6, <2>5, <3>4, <4>1 DEF CodeIsFree
    <3> QED BY <1>3, <1>5, <3>1, <3>2, <3>3, <3>4
  <2> QED BY <2>4, <2>5
<1>10. worn' \in Seq(Catalog!CardType) /\ \A c \in DOMAIN worn' : IsOfType(worn'[c], entries')
  BY <1>1, <1>5, <1>6 DEF CatalogInv, CatalogTyped, IsOfType
<1> QED BY <1>1, <1>5, <1>6, <1>7, <1>8, <1>9, <1>10, CatalogWriteKeeps

LEMMA SaveEntryKeeps ==
  ASSUME CatalogInv, NEW r \in Requests, Catalog!SaveEntry(r)
  PROVE  CatalogInv'
<1> DEFINE id == catalogReq[r].id
           row == catalogReq[r].row
           recolours == catalogReq[r].recolours
<1>1. /\ catalogReq[r].at = "save"
      /\ entries' = [entries EXCEPT ![id] = row]
      /\ worn' = [c \in DOMAIN worn |->
                     IF recolours /\ worn[c].type = id THEN [worn[c] EXCEPT !.colour = row.value] ELSE worn[c]]
      /\ catalogReq' = [catalogReq EXCEPT ![r] = Catalog!Idle]
      /\ overtaken' = (overtaken \cup Catalog!Running) \ {r}
      /\ crossed' = IF r \in overtaken THEN crossed \cup {<<"entry", id>>} ELSE crossed
      /\ snapshot' = snapshot /\ now' = now
      /\ late' = (late \/ (snapshot # Nothing /\ row.stamp <= snapshot.revision))
  BY Zenon DEF Catalog!SaveEntry, Catalog!Written
<1>2. row \in Catalog!EntryType /\ id \in DOMAIN entries /\ row.kind = entries[id].kind
  BY <1>1 DEF CatalogInv, CarriesEntry
<1>3. r \notin overtaken =>
        /\ CodeIsFree(row, id)
        /\ recolours <=> entries[id].kind = "type" /\ row.value # entries[id].value
  BY <1>1 DEF CatalogInv, KnowsEntry
<1> HIDE DEF id, row, recolours
<1>5. DOMAIN entries' = DOMAIN entries /\ DOMAIN worn' = DOMAIN worn BY <1>1
<1>6. entries'[id] = row /\ \A i \in DOMAIN entries : i # id => entries'[i] = entries[i]
  BY <1>1, <1>2
<1>7. entries' \in [DOMAIN entries' -> Catalog!EntryType]
  <2>1. entries \in [DOMAIN entries -> Catalog!EntryType] BY DEF CatalogInv, CatalogTyped
  <2> QED BY <1>1, <1>2, <2>1
<1>8. SnapshotKnown' BY <1>1, <1>2, <1>5, <1>6, <1>7, RevisionPasses
<1>w. ASSUME NEW c \in DOMAIN worn
      PROVE  /\ worn[c] \in Catalog!CardType /\ worn'[c] \in Catalog!CardType
             /\ worn'[c].type = worn[c].type /\ worn'[c].fits = worn[c].fits
             /\ worn'[c].colour = IF recolours /\ worn[c].type = id THEN row.value ELSE worn[c].colour
  <2>1. worn[c] \in Catalog!CardType BY DEF CatalogInv, CatalogTyped
  <2>2. row.value \in Values BY <1>2 DEF Catalog!EntryType
  <2> QED BY <1>1, <2>1, <2>2 DEF Catalog!CardType
<1>9. CatalogHolds'
  <2> SUFFICES
        /\ \A c \in DOMAIN worn : <<"card", c>> \notin crossed' =>
             /\ worn'[c].fits
             /\ <<"entry", worn'[c].type>> \notin crossed' => worn'[c].colour = entries'[worn'[c].type].value
        /\ \A i, j \in DOMAIN entries :
             /\ entries'[i].kind = "priority" /\ entries'[i].active /\ <<"entry", i>> \notin crossed'
             /\ entries'[j].kind = "priority" /\ entries'[j].active /\ i # j
             /\ entries'[i].value = entries'[j].value
             => <<"entry", j>> \in crossed'
    BY <1>5 DEF CatalogHolds, Catalog!CatalogHolds, Catalog!Active, Catalog!SameCode
  <2>1. CatalogHolds BY DEF CatalogInv
  <2>2. \A c \in DOMAIN worn : IsOfType(worn[c], entries) BY DEF CatalogInv
  <2>3. crossed \subseteq crossed' BY <1>1
  <2>4. ASSUME NEW c \in DOMAIN worn, <<"card", c>> \notin crossed'
        PROVE  /\ worn'[c].fits
               /\ <<"entry", worn'[c].type>> \notin crossed' => worn'[c].colour = entries'[worn'[c].type].value
    <3>1. /\ worn[c].fits
          /\ <<"entry", worn[c].type>> \notin crossed => worn[c].colour = entries[worn[c].type].value
      BY <2>1, <2>3, <2>4 DEF CatalogHolds, Catalog!CatalogHolds
    <3>2. worn[c].type \in DOMAIN entries /\ entries[worn[c].type].kind = "type"
      BY <2>2 DEF IsOfType
    <3>3. CASE worn[c].type # id BY <1>w, <1>6, <2>3, <3>1, <3>2, <3>3
    <3>4. CASE worn[c].type = id
      <4>1. <<"entry", worn[c].type>> \notin crossed' => r \notin overtaken BY <1>1, <3>4
      <4> QED BY <1>w, <1>3, <1>6, <2>3, <3>1, <3>2, <3>4, <4>1
    <3> QED BY <3>3, <3>4
  <2>5. ASSUME NEW i \in DOMAIN entries, NEW j \in DOMAIN entries,
               entries'[i].kind = "priority", entries'[i].active, <<"entry", i>> \notin crossed',
               entries'[j].kind = "priority", entries'[j].active, i # j,
               entries'[i].value = entries'[j].value
        PROVE  <<"entry", j>> \in crossed'
    <3>1. CASE i # id /\ j # id
      <4>1. /\ entries[i].kind = "priority" /\ entries[i].active /\ <<"entry", i>> \notin crossed
            /\ entries[j].kind = "priority" /\ entries[j].active
            /\ entries[i].value = entries[j].value
        BY <1>6, <2>3, <2>5, <3>1
      <4>2. i \in Catalog!Active("priority") /\ j \in Catalog!SameCode(entries[i].value, i)
        BY <2>5, <3>1, <4>1 DEF Catalog!Active, Catalog!SameCode
      <4> QED BY <2>1, <2>3, <4>1, <4>2 DEF CatalogHolds, Catalog!CatalogHolds
    <3>2. CASE r \in overtaken /\ (i = id \/ j = id) BY <1>1, <2>5, <3>2
    <3>3. CASE r \notin overtaken /\ i = id BY <1>3, <1>6, <2>5, <3>3 DEF CodeIsFree
    <3>4. CASE r \notin overtaken /\ j = id BY <1>3, <1>6, <2>5, <3>4 DEF CodeIsFree
    <3> QED BY <3>1, <3>2, <3>3, <3>4
  <2> QED BY <2>4, <2>5
<1>10. worn' \in Seq(Catalog!CardType)
  <2>1. worn \in Seq(Catalog!CardType) BY DEF CatalogInv, CatalogTyped
  <2>2. worn' = [c \in 1 .. Len(worn) |-> worn'[c]] BY <1>1, <2>1
  <2>3. \A c \in 1 .. Len(worn) : worn'[c] \in Catalog!CardType BY <1>w, <2>1
  <2>4. Len(worn) \in Nat /\ worn' \in [1 .. Len(worn) -> Catalog!CardType] BY <2>1, <2>2, <2>3
  <2> QED BY <2>2, <2>3, <2>4
<1>11. \A i \in DOMAIN entries : entries'[i].kind = entries[i].kind BY <1>2, <1>6
<1>12. ASSUME NEW c \in DOMAIN worn'
       PROVE  IsOfType(worn'[c], entries')
  <2>1. worn[c].type \in DOMAIN entries /\ entries[worn[c].type].kind = "type"
    BY <1>5 DEF CatalogInv, IsOfType
  <2>2. worn'[c].type \in DOMAIN entries' /\ entries'[worn'[c].type].kind = "type"
    BY <1>w, <1>5, <1>11, <2>1
  <2> QED BY <2>2 DEF IsOfType
<1>13. \E n \in 0 .. MaxEntries : DOMAIN entries' = 1 .. n BY <1>5 DEF CatalogInv, CatalogTyped
<1> QED BY <1>1, <1>5, <1>7, <1>8, <1>9, <1>10, <1>11, <1>12, <1>13, CatalogWriteKeeps

LEMMA InsertCardKeeps ==
  ASSUME CatalogInv, NEW r \in Requests, Catalog!InsertCard(r)
  PROVE  CatalogInv'
<1> DEFINE card == catalogReq[r].card
           new == {card.type, card.preclassifier, card.priority}
           fits == new \subseteq {i \in DOMAIN entries : entries[i].active}
           last == Len(worn) + 1
<1>1. /\ catalogReq[r].at = "card"
      /\ entries' = entries /\ worn' = Append(worn, [card EXCEPT !.fits = fits])
      /\ catalogReq' = [catalogReq EXCEPT ![r] = Catalog!Idle]
      /\ overtaken' = (overtaken \cup Catalog!Running) \ {r}
      /\ crossed' = IF r \in overtaken THEN crossed \cup {<<"card", last>>} ELSE crossed
      /\ snapshot' = snapshot /\ now' = now /\ late' = late
  <2>1. /\ catalogReq[r].at = "card"
        /\ Catalog!Written(r, entries, Append(worn, [card EXCEPT !.fits = fits]), {<<"card", last>>})
        /\ late' = late
    BY Zenon DEF Catalog!InsertCard
  <2> QED BY <2>1, Zenon DEF Catalog!Written
<1>2. card \in Catalog!CardType /\ IsOfType(card, entries) /\ {card.preclassifier, card.priority} \subseteq DOMAIN entries
  BY <1>1 DEF CatalogInv, CarriesEntry
<1>3. r \notin overtaken => (\A i \in new : entries[i].active) /\ card.colour = entries[card.type].value
  BY <1>1 DEF CatalogInv, KnowsEntry
<1>4. r \notin overtaken => fits BY <1>2, <1>3 DEF IsOfType
<1> HIDE DEF card
<1>5. fits \in BOOLEAN OBVIOUS
<1> HIDE DEF fits, new
<1>6. [card EXCEPT !.fits = fits] \in Catalog!CardType BY <1>2, <1>5 DEF Catalog!CardType
<1>7. [card EXCEPT !.fits = fits].fits = fits /\ [card EXCEPT !.fits = fits].type = card.type
      /\ [card EXCEPT !.fits = fits].colour = card.colour
  BY <1>2 DEF Catalog!CardType
<1>8. worn \in Seq(Catalog!CardType) BY DEF CatalogInv, CatalogTyped
<1>9. /\ worn' \in Seq(Catalog!CardType) /\ DOMAIN worn' = DOMAIN worn \cup {last}
      /\ worn'[last] = [card EXCEPT !.fits = fits]
      /\ \A c \in DOMAIN worn : c # last /\ worn'[c] = worn[c]
  BY <1>1, <1>6, <1>8
<1> HIDE DEF last
<1>10. CatalogHolds'
  <2> SUFFICES
        /\ \A c \in DOMAIN worn' : <<"card", c>> \notin crossed' =>
             /\ worn'[c].fits
             /\ <<"entry", worn'[c].type>> \notin crossed' => worn'[c].colour = entries[worn'[c].type].value
        /\ \A i \in Catalog!Active("priority") : <<"entry", i>> \notin crossed' =>
             \A j \in Catalog!SameCode(entries[i].value, i) : <<"entry", j>> \in crossed'
    BY <1>1 DEF CatalogHolds, Catalog!CatalogHolds, Catalog!Active, Catalog!SameCode
  <2>1. CatalogHolds BY DEF CatalogInv
  <2>2. crossed \subseteq crossed' BY <1>1
  <2>3. ASSUME NEW c \in DOMAIN worn', <<"card", c>> \notin crossed'
        PROVE  /\ worn'[c].fits
               /\ <<"entry", worn'[c].type>> \notin crossed' => worn'[c].colour = entries[worn'[c].type].value
    <3>1. CASE c \in DOMAIN worn
      BY <1>9, <2>1, <2>2, <2>3, <3>1 DEF CatalogHolds, Catalog!CatalogHolds
    <3>2. CASE c = last
      <4>1. r \notin overtaken BY <1>1, <2>3, <3>2
      <4> QED BY <1>3, <1>4, <1>7, <1>9, <3>2, <4>1
    <3> QED BY <1>9, <3>1, <3>2
  <2>4. \A i \in Catalog!Active("priority") : <<"entry", i>> \notin crossed' =>
           \A j \in Catalog!SameCode(entries[i].value, i) : <<"entry", j>> \in crossed'
    BY <2>1, <2>2, Zenon DEF CatalogHolds, Catalog!CatalogHolds
  <2> QED BY <2>3, <2>4
<1>11. SnapshotKnown'
  BY <1>1 DEF CatalogInv, SnapshotKnown, Catalog!Content, Catalog!Listed, Catalog!Active, Catalog!Revision
<1>12. ASSUME NEW c \in DOMAIN worn'
       PROVE  IsOfType(worn'[c], entries')
  <2>1. CASE c \in DOMAIN worn BY <1>1, <1>9, <2>1 DEF CatalogInv, IsOfType
  <2>2. CASE c = last BY <1>1, <1>2, <1>7, <1>9, <2>2 DEF IsOfType
  <2> QED BY <1>9, <2>1, <2>2
<1>13. entries' \in [DOMAIN entries' -> Catalog!EntryType] /\ \E n \in 0 .. MaxEntries : DOMAIN entries' = 1 .. n
  BY <1>1 DEF CatalogInv, CatalogTyped
<1> QED BY <1>1, <1>9, <1>10, <1>11, <1>12, <1>13, CatalogWriteKeeps

LEMMA ReadSnapshotKeeps ==
  ASSUME CatalogInv, Catalog!ReadSnapshot
  PROVE  CatalogInv'
<1>1. /\ snapshot' = [revision |-> Catalog!Revision, content |-> Catalog!Content]
      /\ UNCHANGED <<entries, worn, now, catalogReq, overtaken, crossed>>
  BY DEF Catalog!ReadSnapshot
<1>2. Catalog!Revision \in Nat
  <2>1. Catalog!Revision = Catalog!Max({0} \cup {entries[i].stamp : i \in DOMAIN entries})
    BY DEF Catalog!Revision
  <2>2. MaxTime \in Nat /\ \A i \in DOMAIN entries : entries[i].stamp \in 0 .. MaxTime
    BY EntriesTyped, CatalogConstants
  <2>3. Catalog!Revision \in 0 .. MaxTime BY <2>1, <2>2, LastStamp
  <2> QED BY <2>3
<1>3. Catalog!Content' = Catalog!Content
  BY <1>1 DEF Catalog!Content, Catalog!Listed, Catalog!Active
<1>4. SnapshotKnown' BY <1>1, <1>2, <1>3 DEF SnapshotKnown
<1>5. CatalogTyped' /\ CatalogHolds'
  BY <1>1 DEF CatalogInv, CatalogTyped, CatalogHolds, Catalog!CatalogHolds, Catalog!Active, Catalog!SameCode
<1>6. (\A c \in DOMAIN worn : IsOfType(worn[c], entries))'
      /\ \A r \in Requests : CarriesEntry(r)' /\ KnowsEntry(r)'
  BY <1>1 DEF CatalogInv, IsOfType, CarriesEntry, KnowsEntry, CodeIsFree
<1> QED BY <1>4, <1>5, <1>6 DEF CatalogInv

LEMMA CatalogQuietKeeps ==
  ASSUME CatalogInv, Catalog!Tick \/ UNCHANGED Catalog!vars
  PROVE  CatalogInv'
<1>1. UNCHANGED <<entries, worn, snapshot, catalogReq, overtaken, crossed, late>>
  BY DEF Catalog!Tick, Catalog!vars
<1>2. now' \in 0 .. MaxTime BY EntriesTyped, CatalogConstants DEF Catalog!Tick, Catalog!vars
<1>3. CatalogTyped' /\ CatalogHolds'
  BY <1>1, <1>2 DEF CatalogInv, CatalogTyped, CatalogHolds, Catalog!CatalogHolds, Catalog!Active, Catalog!SameCode
<1>4. SnapshotKnown'
  BY <1>1 DEF CatalogInv, SnapshotKnown, Catalog!Content, Catalog!Listed, Catalog!Active, Catalog!Revision
<1>5. (\A c \in DOMAIN worn : IsOfType(worn[c], entries))'
      /\ \A r \in Requests : CarriesEntry(r)' /\ KnowsEntry(r)'
  BY <1>1 DEF CatalogInv, IsOfType, CarriesEntry, KnowsEntry, CodeIsFree
<1> QED BY <1>3, <1>4, <1>5 DEF CatalogInv

LEMMA CatalogNextKeeps ==
  ASSUME CatalogInv, [Catalog!Next]_(Catalog!vars)
  PROVE  CatalogInv'
<1>1. ASSUME NEW r \in Requests, Catalog!Calls(r)
      PROVE  CatalogInv'
  BY <1>1, CreateEntryKeeps, UpdateEntryKeeps, CreateCardKeeps DEF Catalog!Calls
<1> QED
  BY <1>1, InsertEntryKeeps, SaveEntryKeeps, InsertCardKeeps, FailEntryKeeps, ReadSnapshotKeeps, CatalogQuietKeeps
  DEF Catalog!Next

\* The catalogs, for any entries, cards and requests: what a request has read is so when it
\* writes, unless another has written since, and a later stamp follows every snapshot.
THEOREM CatalogInvariance == Catalog!Spec => []CatalogInv
<1>1. CatalogInv /\ [Catalog!Next]_(Catalog!vars) => CatalogInv' BY CatalogNextKeeps
<1> QED BY CatalogInit, <1>1, PTL DEF Catalog!Spec

\* A card has the colour of its type and was given entries in use, and a code is one
\* priority's, but for what a request wrote that another had overtaken.
THEOREM CatalogsHold == Catalog!Spec => []CatalogHolds
<1>1. CatalogInv => CatalogHolds BY DEF CatalogInv
<1> QED BY <1>1, CatalogInvariance, PTL

LEMMA RevisionKnown == CatalogInv => RevisionTellsChange
<1> SUFFICES ASSUME CatalogInv, snapshot # Nothing, ~late, Catalog!Revision = snapshot.revision
             PROVE  Catalog!Content = snapshot.content
  BY DEF RevisionTellsChange, Catalog!RevisionTellsChange
<1>1. snapshot.revision \in Nat /\ (Catalog!Content = snapshot.content \/ snapshot.revision < Catalog!Revision)
  BY DEF CatalogInv, SnapshotKnown
<1> QED BY <1>1

\* A device that finds the revision of its snapshot unchanged has what it would read.
THEOREM RevisionsTellChanges == Catalog!Spec => []RevisionTellsChange
BY RevisionKnown, CatalogInvariance, PTL

(***************************************************************************)
(* Positions.                                                              *)
(***************************************************************************)
LEMMA KeptIsBoth == PositionsKept <=> OrdersKept /\ PlacementsKept
<1>1. OrdersKept <=>
        \A p \in DOMAIN positions \ unsound :
          \A q \in Jobs!WithOrder(positions[p].site, positions[p].order) \ unsound :
            p # q => \E r \in Jobs!Exchanging : {p, q} = {jobReq[r].id, jobReq[r].other}
  BY DEF OrdersKept, Clash, HasPlace, Jobs!WithOrder, Jobs!FindBySiteId
<1> QED BY <1>1, Zenon DEF PositionsKept, Jobs!PositionsKept, PlacementsKept

LEMMA JobsConstants ==
  /\ MaxPositions \in Nat /\ MaxOrder \in Nat /\ Nothing \notin Jobs!PositionIds
  /\ FirstPositions \in Seq(Jobs!PositionType) /\ Len(FirstPositions) <= MaxPositions
  /\ \A p, q \in DOMAIN FirstPositions : FirstPositions[p] = FirstPositions[q] => p = q
BY JobsAssumption, Zenon DEF Jobs!OrdersAssumption

LEMMA NobodyIsNamed ==
  /\ Jobs!Nobody \in Jobs!Named /\ Jobs!Nobody \in [Operators -> Nat]
  /\ \A f \in Jobs!Named : f \in [Operators -> Nat]
<1>1. MaxNamed \in Nat /\ 0 .. MaxNamed \subseteq Nat BY JobsAssumption DEF Jobs!OrdersAssumption
<1> QED BY <1>1 DEF Jobs!Nobody, Jobs!Named

LEMMA IdleJobRequest ==
  /\ Jobs!Idle \in JobRequest
  /\ Jobs!Idle.at = "idle" /\ Jobs!Idle.id = Nothing /\ Jobs!Idle.other = Nothing /\ Jobs!Idle.began = FALSE
BY NobodyIsNamed DEF Jobs!Idle, JobRequest, JobStages

LEMMA PositionsTyped ==
  ASSUME JobsInv
  PROVE  /\ DOMAIN positions \subseteq Jobs!PositionIds
         /\ \A p \in DOMAIN positions :
              positions[p] \in Jobs!PositionType /\ positions[p].site \in Sites /\ positions[p].order \in 1 .. MaxOrder
         /\ Nothing \notin unsound
<1>1. PICK n \in 0 .. MaxPositions : DOMAIN positions = 1 .. n BY DEF JobsInv, JobsTyped
<1>2. 1 .. n \subseteq 1 .. MaxPositions BY JobsConstants
<1> QED
  BY <1>1, <1>2, JobsConstants DEF JobsInv, JobsTyped, Jobs!PositionType, Jobs!PositionIds, Jobs!Orders

LEMMA JobsInit == Jobs!Init => JobsInv
<1> SUFFICES ASSUME Jobs!Init PROVE JobsInv OBVIOUS
<1>1. /\ positions = FirstPositions /\ unsound = {}
      /\ placed = [p \in DOMAIN positions |-> Jobs!Nobody]
      /\ asked = [p \in DOMAIN positions |-> Jobs!Nobody]
      /\ jobReq = [r \in Requests |-> Jobs!Idle]
  BY DEF Jobs!Init
<1>2. JobsTyped
  <2>1. DOMAIN positions = 1 .. Len(FirstPositions) /\ Len(FirstPositions) \in 0 .. MaxPositions
    BY <1>1, JobsConstants
  <2>2. positions \in [DOMAIN positions -> Jobs!PositionType] BY <1>1, JobsConstants
  <2>3. jobReq \in [Requests -> JobRequest] BY <1>1, IdleJobRequest
  <2>4. placed \in [DOMAIN positions -> [Operators -> Nat]] /\ asked \in [DOMAIN positions -> Jobs!Named]
    BY <1>1, NobodyIsNamed
  <2> QED BY <1>1, <2>1, <2>2, <2>3, <2>4 DEF JobsTyped
<1>3. \A r \in Requests : jobReq[r].at = "idle" BY <1>1, IdleJobRequest
<1>4. \A r \in Requests : CarriesJob(r) /\ KnowsJob(r) BY <1>3 DEF CarriesJob, KnowsJob
<1>5. ExchangesAreAlone BY <1>3 DEF ExchangesAreAlone, Jobs!Exchanging, Jobs!Running
<1>6. OrdersKept
  <2>1. ASSUME NEW p \in DOMAIN positions, NEW q \in DOMAIN positions, HasPlace(q, positions[p])
        PROVE  p = q
    <3>1. positions[p] \in Jobs!PositionType /\ positions[q] \in Jobs!PositionType
      BY <1>2 DEF JobsTyped
    <3>2. positions[p] = positions[q] BY <2>1, <3>1 DEF HasPlace, Jobs!PositionType
    <3> QED BY <1>1, <3>2, JobsConstants
  <2> QED BY <2>1 DEF OrdersKept, Clash
<1>7. PlacementsKept BY <1>1 DEF PlacementsKept
<1> QED BY <1>2, <1>4, <1>5, <1>6, <1>7 DEF JobsInv

\* A request begins: it has read what it knows, and is overtaken from the start when an
\* exchange is between its saves.
LEMMA JobCallKeeps ==
  ASSUME JobsInv, NEW r \in Requests, r \notin Jobs!Running, NEW q \in JobRequest,
         jobReq' = [jobReq EXCEPT ![r] = q], q.at \in {"insert", "save", "other", "order"}, ~q.began,
         UNCHANGED <<positions, placed, asked, unsound>>,
         overtaken' = IF Jobs!Exchanging = {} THEN overtaken \ {r} ELSE overtaken \cup {r},
         CarriesJob(r)', KnowsJob(r)'
  PROVE  JobsInv'
<1>1. JobsTyped' BY DEF JobsInv, JobsTyped
<1>2. jobReq'[r] = q /\ \A s \in Requests \ {r} : jobReq'[s] = jobReq[s] BY DEF JobsInv, JobsTyped
<1>3. Jobs!Exchanging' = Jobs!Exchanging /\ Jobs!Placing' = Jobs!Placing /\ r \notin Jobs!Exchanging \cup Jobs!Placing
      /\ Jobs!Running' = Jobs!Running \cup {r}
  BY <1>2 DEF Jobs!Exchanging, Jobs!Placing, Jobs!Running
<1>4. ASSUME NEW s \in Requests, s # r
      PROVE  CarriesJob(s)' /\ KnowsJob(s)'
  <2>1. jobReq'[s] = jobReq[s] /\ (s \notin overtaken' => s \notin overtaken) BY <1>2, <1>4
  <2>2. CarriesJob(s) /\ KnowsJob(s) BY DEF JobsInv
  <2> QED BY <2>1, <2>2 DEF CarriesJob, KnowsJob, HasPlace
<1>5. ExchangesAreAlone'
  <2> SUFFICES ASSUME NEW s \in Jobs!Exchanging, NEW t \in Jobs!Running \cup {r}, t # s
               PROVE  t \in overtaken'
    BY <1>3 DEF ExchangesAreAlone
  <2> QED BY DEF JobsInv, ExchangesAreAlone
<1>6. \A s \in Jobs!Exchanging \cup Jobs!Placing : jobReq'[s] = jobReq[s]
  BY <1>2, <1>3 DEF Jobs!Exchanging, Jobs!Placing, Jobs!Running
<1>7. OrdersKept' BY <1>3, <1>6 DEF JobsInv, OrdersKept, Clash, HasPlace
<1>8. PlacementsKept' BY <1>3, <1>6 DEF JobsInv, PlacementsKept
<1> QED BY <1>1, <1>4, <1>5, <1>7, <1>8 DEF JobsInv

\* The order after the last of a site is free.
LEMMA NextIsFree ==
  ASSUME JobsInv, NEW s \in Sites
  PROVE  /\ Jobs!NextOrder(s) \in Nat
         /\ \A p \in DOMAIN positions : positions[p].site = s => positions[p].order # Jobs!NextOrder(s)
<1> DEFINE S == {0} \cup {positions[p].order : p \in Jobs!FindBySiteId(s)}
           last == Jobs!Max(S)
<1>1. S \in SUBSET (0 .. MaxOrder) /\ S # {} /\ MaxOrder \in Nat
  BY PositionsTyped, JobsConstants DEF Jobs!FindBySiteId
<1>2. \A p \in DOMAIN positions : positions[p].site = s => positions[p].order \in S
  BY DEF Jobs!FindBySiteId
<1>3. Jobs!NextOrder(s) = last + 1 BY DEF Jobs!NextOrder
<1> HIDE DEF S
<1>4. \E m \in S : \A k \in S : m >= k BY <1>1, Largest
<1>5. last \in S /\ \A k \in S : last >= k BY <1>4, Zenon DEF Jobs!Max
<1> HIDE DEF last
<1>6. last \in Nat /\ \A k \in S : k \in Nat /\ k <= last BY <1>1, <1>5
<1> QED BY <1>2, <1>3, <1>6

LEMMA CreateJobKeeps ==
  ASSUME JobsInv, NEW r \in Requests, r \notin Jobs!Running, NEW s \in Sites, NEW places \in BOOLEAN,
         NEW people \in Jobs!Named, Jobs!Create(r, s, places, people)
  PROVE  JobsInv'
<1> DEFINE copy == [site |-> s, order |-> Jobs!NextOrder(s)]
           q == [Jobs!Idle EXCEPT !.at = "insert", !.copy = copy, !.places = places, !.users = people]
<1>1. copy \in CopyType /\ \A p \in DOMAIN positions : ~HasPlace(p, copy)
  BY NextIsFree DEF CopyType, HasPlace
<1>2. q \in JobRequest /\ q.at = "insert" /\ q.copy = copy /\ q.id = Nothing /\ q.other = Nothing /\ ~q.began
  BY <1>1, IdleJobRequest DEF JobRequest, JobStages, Jobs!Idle
<1>3. /\ jobReq' = [jobReq EXCEPT ![r] = q]
      /\ UNCHANGED <<positions, placed, asked, unsound>>
      /\ overtaken' = IF Jobs!Exchanging = {} THEN overtaken \ {r} ELSE overtaken \cup {r}
  BY Zenon DEF Jobs!Create, Jobs!Call, Jobs!Go
<1>4. jobReq'[r] = q BY <1>3 DEF JobsInv, JobsTyped
<1> HIDE DEF copy, q
<1>5. CarriesJob(r)' /\ KnowsJob(r)' BY <1>1, <1>2, <1>3, <1>4 DEF CarriesJob, KnowsJob, HasPlace
<1> QED BY <1>2, <1>3, <1>5, JobCallKeeps

LEMMA UpdateJobKeeps ==
  ASSUME JobsInv, NEW r \in Requests, r \notin Jobs!Running, NEW p \in DOMAIN positions, NEW s \in Sites,
         NEW places \in BOOLEAN, NEW people \in Jobs!Named, Jobs!Update(r, p, s, places, people)
  PROVE  JobsInv'
<1> DEFINE copy == [positions[p] EXCEPT !.site = s]
           q == [Jobs!Idle EXCEPT !.at = "save", !.id = p, !.copy = copy, !.places = places, !.users = people]
<1>1. copy \in Jobs!PositionType /\ copy \in CopyType /\ copy.order = positions[p].order
  BY PositionsTyped, JobsConstants DEF Jobs!PositionType, Jobs!Orders, CopyType
<1>2. q \in JobRequest /\ q.at = "save" /\ q.copy = copy /\ q.id = p /\ q.other = Nothing /\ ~q.began
  BY <1>1, IdleJobRequest, PositionsTyped DEF JobRequest, JobStages, Jobs!Idle
<1>3. /\ jobReq' = [jobReq EXCEPT ![r] = q]
      /\ UNCHANGED <<positions, placed, asked, unsound>>
      /\ overtaken' = IF Jobs!Exchanging = {} THEN overtaken \ {r} ELSE overtaken \cup {r}
  BY Zenon DEF Jobs!Update, Jobs!Call, Jobs!Go
<1>4. jobReq'[r] = q BY <1>3 DEF JobsInv, JobsTyped
<1> HIDE DEF copy, q
<1>5. CarriesJob(r)' /\ KnowsJob(r)' BY <1>1, <1>2, <1>3, <1>4 DEF CarriesJob, KnowsJob
<1> QED BY <1>2, <1>3, <1>5, JobCallKeeps

LEMMA UpdateOrderKeeps ==
  ASSUME JobsInv, NEW r \in Requests, r \notin Jobs!Running, NEW p \in DOMAIN positions, NEW n \in Nat,
         NEW whole \in BOOLEAN, Jobs!UpdateOrder(r, p, n, whole)
  PROVE  JobsInv'
<1> DEFINE found == IF whole THEN Jobs!WithOrder(positions[p].site, n) ELSE {}
           copy == [positions[p] EXCEPT !.order = n]
<1>1. copy \in CopyType /\ copy.site = positions[p].site /\ copy.order = n
  BY PositionsTyped DEF Jobs!PositionType, CopyType
<1>2. /\ found \subseteq {x \in DOMAIN positions : HasPlace(x, copy)}
      /\ found = {} => ~whole \/ \A x \in DOMAIN positions : ~HasPlace(x, copy)
  BY <1>1 DEF Jobs!WithOrder, Jobs!FindBySiteId, HasPlace
<1>3. CASE found = {} /\ Jobs!Call(r, [Jobs!Idle EXCEPT !.at = "order", !.id = p, !.copy = copy, !.whole = whole])
  <2> DEFINE q == [Jobs!Idle EXCEPT !.at = "order", !.id = p, !.copy = copy, !.whole = whole]
  <2>1. q \in JobRequest /\ q.at = "order" /\ q.copy = copy /\ q.id = p /\ q.other = Nothing /\ ~q.began
        /\ q.whole = whole
    BY <1>1, IdleJobRequest, PositionsTyped DEF JobRequest, JobStages, Jobs!Idle
  <2>2. /\ jobReq' = [jobReq EXCEPT ![r] = q]
        /\ UNCHANGED <<positions, placed, asked, unsound>>
        /\ overtaken' = IF Jobs!Exchanging = {} THEN overtaken \ {r} ELSE overtaken \cup {r}
    BY <1>3, Zenon DEF Jobs!Call, Jobs!Go
  <2>3. jobReq'[r] = q BY <2>2 DEF JobsInv, JobsTyped
  <2> HIDE DEF copy, q
  <2>4. CarriesJob(r)' /\ KnowsJob(r)'
    BY <1>1, <1>2, <1>3, <2>1, <2>2, <2>3 DEF CarriesJob, KnowsJob, HasPlace
  <2> QED BY <2>1, <2>2, <2>4, JobCallKeeps
<1>4. ASSUME NEW other \in found,
             Jobs!Call(r, [Jobs!Idle EXCEPT !.at = "other", !.id = p, !.copy = copy, !.other = other,
                                            !.otherCopy = [positions[other] EXCEPT !.order = positions[p].order]])
      PROVE  JobsInv'
  <2> DEFINE otherCopy == [positions[other] EXCEPT !.order = positions[p].order]
             q == [Jobs!Idle EXCEPT !.at = "other", !.id = p, !.copy = copy, !.other = other, !.otherCopy = otherCopy]
  <2>1. other \in DOMAIN positions /\ HasPlace(other, copy) BY <1>2
  <2>2. otherCopy \in Jobs!PositionType /\ otherCopy \in CopyType
        /\ otherCopy.site = positions[other].site /\ otherCopy.order = positions[p].order
    BY <2>1, PositionsTyped, JobsConstants DEF Jobs!PositionType, Jobs!Orders, CopyType
  <2>3. HasPlace(p, otherCopy) BY <1>1, <2>1, <2>2 DEF HasPlace
  <2>4. q \in JobRequest /\ q.at = "other" /\ q.copy = copy /\ q.id = p /\ q.other = other
        /\ q.otherCopy = otherCopy /\ ~q.began
    <3> HIDE DEF copy, otherCopy
    <3> QED
      BY <1>1, <2>1, <2>2, IdleJobRequest, PositionsTyped DEF JobRequest, JobStages, Jobs!Idle
  <2>5. /\ jobReq' = [jobReq EXCEPT ![r] = q]
        /\ UNCHANGED <<positions, placed, asked, unsound>>
        /\ overtaken' = IF Jobs!Exchanging = {} THEN overtaken \ {r} ELSE overtaken \cup {r}
    BY <1>4, Zenon DEF Jobs!Call, Jobs!Go
  <2>6. jobReq'[r] = q BY <2>5 DEF JobsInv, JobsTyped
  <2> HIDE DEF copy, q, otherCopy
  <2>7. CarriesJob(r)' /\ KnowsJob(r)'
    BY <1>1, <2>1, <2>2, <2>3, <2>4, <2>5, <2>6 DEF CarriesJob, KnowsJob, HasPlace
  <2> QED BY <2>4, <2>5, <2>7, JobCallKeeps
<1> QED BY <1>3, <1>4, Zenon DEF Jobs!UpdateOrder

\* A request writes, and others are overtaken: what they carry is still there, and they know
\* nothing any more.
LEMMA JobWriteKeeps ==
  ASSUME JobsInv, NEW r \in Jobs!Running, NEW q \in JobRequest, jobReq' = [jobReq EXCEPT ![r] = q],
         overtaken' = overtaken \cup (Jobs!Running \ {r}),
         \E n \in 0 .. MaxPositions : DOMAIN positions' = 1 .. n,
         positions' \in [DOMAIN positions' -> Jobs!PositionType],
         placed' \in [DOMAIN positions' -> [Operators -> Nat]],
         asked' \in [DOMAIN positions' -> Jobs!Named],
         unsound' \subseteq Jobs!PositionIds,
         DOMAIN positions \subseteq DOMAIN positions',
         CarriesJob(r)', KnowsJob(r)', OrdersKept', PlacementsKept'
  PROVE  JobsInv'
<1>1. JobsTyped' BY DEF JobsInv, JobsTyped
<1>2. r \in Requests /\ jobReq'[r] = q /\ \A s \in Requests \ {r} : jobReq'[s] = jobReq[s]
  BY DEF JobsInv, JobsTyped, Jobs!Running
<1>3. ASSUME NEW s \in Requests, s # r
      PROVE  CarriesJob(s)' /\ KnowsJob(s)'
  <2>1. jobReq'[s] = jobReq[s] /\ (s \notin overtaken' => jobReq'[s].at = "idle")
    BY <1>2, <1>3 DEF Jobs!Running
  <2>2. CarriesJob(s) BY DEF JobsInv
  <2>3. CarriesJob(s)' BY <2>1, <2>2 DEF CarriesJob
  <2>4. KnowsJob(s)' BY <2>1 DEF KnowsJob
  <2> QED BY <2>3, <2>4
<1>4. ExchangesAreAlone'
  <2> SUFFICES ASSUME NEW s \in Jobs!Exchanging', NEW t \in Jobs!Running', t # s
               PROVE  t \in overtaken'
    BY DEF ExchangesAreAlone
  <2>1. CASE t # r BY <1>2, <2>1 DEF Jobs!Running
  <2>2. CASE t = r
    <3>1. s \in Jobs!Exchanging BY <1>2, <2>2 DEF Jobs!Exchanging, Jobs!Running
    <3> QED BY <2>2, <3>1 DEF JobsInv, ExchangesAreAlone
  <2> QED BY <2>1, <2>2
<1> QED BY <1>1, <1>2, <1>3, <1>4 DEF JobsInv

\* Orders stay apart when one position is written, if it clashes with none, or only with the
\* other of an exchange, and the writer was exchanging no other before.
LEMMA OrdersWriteKeeps ==
  ASSUME JobsInv, NEW r \in Requests, NEW q, jobReq' = [jobReq EXCEPT ![r] = q], NEW w,
         DOMAIN positions' = DOMAIN positions \cup {w},
         \A p \in DOMAIN positions \ {w} : positions'[p] = positions[p],
         unsound \subseteq unsound',
         r \in Jobs!Exchanging => jobReq[r].id = w,
         \A p \in DOMAIN positions \ unsound' :
            p # w /\ w \notin unsound' /\ HasPlace(p, positions'[w]) =>
                r \in Jobs!Exchanging' /\ {p, w} = {q.id, q.other}
  PROVE  OrdersKept'
<1>1. jobReq'[r] = q /\ \A s \in Requests \ {r} : jobReq'[s] = jobReq[s] BY DEF JobsInv, JobsTyped
<1> SUFFICES ASSUME NEW p \in DOMAIN positions' \ unsound', NEW x \in DOMAIN positions' \ unsound',
                    p # x, positions'[x].site = positions'[p].site, positions'[x].order = positions'[p].order
             PROVE  \E s \in Jobs!Exchanging' : {p, x} = {jobReq'[s].id, jobReq'[s].other}
  BY DEF OrdersKept, Clash, HasPlace
<1>2. CASE p # w /\ x # w
  <2>1. p \in DOMAIN positions \ unsound /\ x \in DOMAIN positions \ unsound /\ Clash(p, x)
    BY <1>2 DEF Clash, HasPlace
  <2>2. PICK s \in Jobs!Exchanging : {p, x} = {jobReq[s].id, jobReq[s].other}
    BY <2>1 DEF JobsInv, OrdersKept
  <2>3. s # r BY <1>2, <2>2
  <2>4. s \in Jobs!Exchanging' /\ jobReq'[s] = jobReq[s]
    BY <1>1, <2>3 DEF Jobs!Exchanging, Jobs!Running
  <2> QED BY <2>2, <2>4
<1>3. CASE p = w
  <2>1. x \in DOMAIN positions \ unsound' /\ x # w /\ HasPlace(x, positions'[w])
    BY <1>3 DEF HasPlace
  <2> QED BY <1>1, <1>3, <2>1
<1>4. CASE x = w
  <2>1. p \in DOMAIN positions \ unsound' /\ p # w /\ HasPlace(p, positions'[w])
    BY <1>4 DEF HasPlace
  <2> QED BY <1>1, <1>4, <2>1
<1> QED BY <1>2, <1>3, <1>4

LEMMA PlacementsWriteKeep ==
  ASSUME JobsInv, NEW r \in Requests, NEW q, jobReq' = [jobReq EXCEPT ![r] = q], NEW w,
         DOMAIN positions' = DOMAIN positions \cup {w},
         unsound \subseteq unsound',
         jobReq[r].at \in {"unplace", "place"} => jobReq[r].id = w,
         \A p \in DOMAIN positions \ {w} : placed'[p] = placed[p] /\ asked'[p] = asked[p],
         w \notin unsound' /\ (\A s \in Jobs!Placing' : jobReq'[s].id # w) =>
             placed'[w] = asked'[w]
  PROVE  PlacementsKept'
<1>1. jobReq'[r] = q /\ \A s \in Requests \ {r} : jobReq'[s] = jobReq[s] BY DEF JobsInv, JobsTyped
<1> SUFFICES ASSUME NEW p \in DOMAIN positions' \ unsound', p # w, \A s \in Jobs!Placing' : jobReq'[s].id # p
             PROVE  placed'[p] = asked'[p]
  BY Zenon DEF PlacementsKept
<1>2. ASSUME NEW s \in Jobs!Placing
      PROVE  jobReq[s].id # p
  <2>1. CASE s = r BY <2>1 DEF Jobs!Placing
  <2>2. CASE s # r
    <3>1. s \in Jobs!Placing' /\ jobReq'[s] = jobReq[s]
      BY <1>1, <2>2 DEF Jobs!Placing, Jobs!Running
    <3> QED BY <3>1
  <2> QED BY <2>1, <2>2
<1>3. p \in DOMAIN positions \ unsound OBVIOUS
<1>4. placed[p] = asked[p]
  BY <1>2, <1>3 DEF JobsInv, PlacementsKept
<1> QED BY <1>3, <1>4

LEMMA JobsCardinality == \A S : Jobs!Cardinality(S) = Cardinality(S)
BY DEF Jobs!Cardinality, Cardinality

\* What a writer marks.
LEMMA JobWrote ==
  ASSUME JobsInv, NEW r \in Requests, NEW p \in Jobs!PositionIds, NEW elsewhere \in BOOLEAN,
         Jobs!Wrote(r, p, elsewhere)
  PROVE  /\ overtaken' = overtaken \cup (Jobs!Running \ {r})
         /\ unsound \subseteq unsound' /\ unsound' \subseteq unsound \cup {p} /\ unsound' \subseteq Jobs!PositionIds
         /\ (r \in overtaken \/ {jobReq[r].id, jobReq[r].other} \cap unsound # {} \/ elsewhere) => p \in unsound'
         /\ r \in Jobs!Running => (r \in overtaken' <=> r \in overtaken)
<1>1. /\ overtaken' = overtaken \cup (Jobs!Running \ {r})
      /\ unsound' = IF r \in overtaken \/ {jobReq[r].id, jobReq[r].other} \cap unsound # {} \/ elsewhere
                    THEN unsound \cup {p} ELSE unsound
  BY Zenon DEF Jobs!Wrote
<1>2. unsound \subseteq Jobs!PositionIds BY DEF JobsInv, JobsTyped
<1> QED BY <1>1, <1>2

LEMMA InsertPositionKeeps ==
  ASSUME JobsInv, NEW r \in Requests, Jobs!InsertPosition(r)
  PROVE  JobsInv'
<1> DEFINE w == Jobs!Cardinality(DOMAIN positions) + 1
           req0 == jobReq[r]
           next == [jobReq[r] EXCEPT !.at = "place", !.id = w, !.began = TRUE]
           q == IF jobReq[r].places THEN next ELSE Jobs!Idle
           none == Jobs!Nobody
<1>1. /\ req0.at = "insert" /\ req0.copy.order \in Jobs!Orders
      /\ Jobs!Cardinality(DOMAIN positions) < MaxPositions
      /\ positions' = Jobs!Added(positions, w, req0.copy)
      /\ placed' = Jobs!Added(placed, w, none)
      /\ asked' = Jobs!Added(asked, w, none)
      /\ jobReq' = [jobReq EXCEPT ![r] = q]
      /\ Jobs!Wrote(r, w, FALSE)
  BY Zenon DEF Jobs!InsertPosition, Jobs!Go
<1>2. PICK n \in 0 .. MaxPositions : DOMAIN positions = 1 .. n BY DEF JobsInv, JobsTyped
<1>3. w = n + 1 /\ w \in 1 .. MaxPositions /\ w \notin DOMAIN positions /\ DOMAIN positions \cup {w} = 1 .. w
  <2>1. Cardinality(1 .. n) = n BY FS_Interval
  <2>2. Jobs!Cardinality(DOMAIN positions) = n BY <1>2, <2>1, JobsCardinality
  <2> QED BY <1>1, <1>2, <2>2, JobsConstants
<1>4. w \in Jobs!PositionIds BY <1>3 DEF Jobs!PositionIds
<1>5. req0 \in JobRequest /\ req0.copy \in CopyType /\ req0.id = Nothing /\ req0.other = Nothing /\ r \in Jobs!Running
  BY <1>1 DEF JobsInv, JobsTyped, CarriesJob, Jobs!Running
<1>6. req0.copy \in Jobs!PositionType BY <1>1, <1>5 DEF CopyType, Jobs!PositionType
<1>7. q \in JobRequest /\ q.at \in {"place", "idle"}
      /\ (q.at = "place" => q.id = w /\ q.other = Nothing /\ q.began)
      /\ (q.at = "idle" <=> ~req0.places)
  BY <1>4, <1>5, IdleJobRequest DEF JobRequest, JobStages
<1> HIDE DEF next, q
<1>8. DOMAIN positions' = DOMAIN positions \cup {w} /\ positions'[w] = req0.copy
      /\ \A p \in DOMAIN positions \ {w} : positions'[p] = positions[p]
  BY <1>1 DEF Jobs!Added
<1>9. DOMAIN placed = DOMAIN positions /\ DOMAIN asked = DOMAIN positions
  BY DEF JobsInv, JobsTyped
<1>10. placed'[w] = none /\ asked'[w] = none
       /\ \A p \in DOMAIN positions \ {w} : placed'[p] = placed[p] /\ asked'[p] = asked[p]
  BY <1>1, <1>9 DEF Jobs!Added
<1>11. positions' \in [DOMAIN positions' -> Jobs!PositionType]
  BY <1>1, <1>6, <1>8 DEF Jobs!Added, JobsInv, JobsTyped
<1>12. placed' \in [DOMAIN positions' -> [Operators -> Nat]]
  BY NobodyIsNamed, <1>1, <1>8, <1>9 DEF Jobs!Added, JobsInv, JobsTyped
<1>13. asked' \in [DOMAIN positions' -> Jobs!Named]
  BY NobodyIsNamed, <1>1, <1>8, <1>9 DEF Jobs!Added, JobsInv, JobsTyped
<1>14. jobReq'[r] = q BY <1>1 DEF JobsInv, JobsTyped
<1> HIDE DEF w, none, req0
<1>15. /\ overtaken' = overtaken \cup (Jobs!Running \ {r})
       /\ unsound \subseteq unsound' /\ unsound' \subseteq Jobs!PositionIds
       /\ r \in overtaken => w \in unsound'
  BY <1>1, <1>4, JobWrote
<1>16. CarriesJob(r)' /\ KnowsJob(r)' BY <1>7, <1>8, <1>10, <1>14 DEF CarriesJob, KnowsJob, none
<1>17. OrdersKept'
  <2>1. r \notin Jobs!Exchanging BY <1>1 DEF Jobs!Exchanging, req0
  <2>2. r \notin overtaken => \A p \in DOMAIN positions : ~HasPlace(p, positions'[w])
    BY <1>1, <1>8 DEF JobsInv, KnowsJob, req0
  <2> QED BY <1>1, <1>8, <1>15, <2>1, <2>2, OrdersWriteKeeps, Zenon
<1>18. PlacementsKept'
  <2>1. placed'[w] = asked'[w] BY <1>10 DEF none
  <2>2. jobReq[r].at \notin {"unplace", "place"} BY <1>1 DEF req0
  <2> QED BY <1>1, <1>8, <1>10, <1>15, <2>1, <2>2, PlacementsWriteKeep
<1>19. \E k \in 0 .. MaxPositions : DOMAIN positions' = 1 .. k BY <1>3, <1>8
<1> QED
  BY <1>1, <1>5, <1>7, <1>8, <1>11, <1>12, <1>13, <1>15, <1>16, <1>17, <1>18, <1>19, JobWriteKeeps

\* The row a request writes is its copy.
LEMMA SavedPosition ==
  ASSUME JobsInv, NEW w \in DOMAIN positions, NEW copy \in Jobs!PositionType,
         positions' = [positions EXCEPT ![w] = copy]
  PROVE  /\ DOMAIN positions' = DOMAIN positions \cup {w} /\ DOMAIN positions' = DOMAIN positions
         /\ positions'[w] = copy
         /\ \A p \in DOMAIN positions \ {w} : positions'[p] = positions[p]
         /\ positions' \in [DOMAIN positions' -> Jobs!PositionType]
         /\ \E n \in 0 .. MaxPositions : DOMAIN positions' = 1 .. n
BY DEF JobsInv, JobsTyped

LEMMA SavePositionKeeps ==
  ASSUME JobsInv, NEW r \in Requests, Jobs!SavePosition(r)
  PROVE  JobsInv'
<1> DEFINE w == jobReq[r].id
           copy == jobReq[r].copy
           next == [jobReq[r] EXCEPT !.at = "unplace", !.began = TRUE]
           q == IF jobReq[r].places THEN next ELSE Jobs!Idle
           elsewhere == copy.site # positions[w].site
<1>1. /\ jobReq[r].at = "save"
      /\ positions' = [positions EXCEPT ![w] = copy]
      /\ jobReq' = [jobReq EXCEPT ![r] = q]
      /\ Jobs!Wrote(r, w, elsewhere)
      /\ placed' = placed /\ asked' = asked
  BY Zenon DEF Jobs!SavePosition, Jobs!Go
<1>2. jobReq[r] \in JobRequest /\ copy \in Jobs!PositionType /\ w \in DOMAIN positions
      /\ jobReq[r].other = Nothing /\ r \in Jobs!Running
  BY <1>1 DEF JobsInv, JobsTyped, CarriesJob, Jobs!Running
<1>3. w \in Jobs!PositionIds BY <1>2, PositionsTyped
<1>4. q \in JobRequest /\ q.at \in {"unplace", "idle"}
      /\ (q.at = "unplace" => q.id = w /\ q.other = Nothing /\ q.began)
      /\ (q.at = "idle" <=> ~jobReq[r].places)
  BY <1>2, IdleJobRequest DEF JobRequest, JobStages
<1>5. r \notin overtaken => copy.order = positions[w].order BY <1>1 DEF JobsInv, KnowsJob
<1>6. jobReq[r].at \notin {"unplace", "place", "order"} BY <1>1
<1> HIDE DEF next, q, w, copy
<1>7. jobReq'[r] = q BY <1>1 DEF JobsInv, JobsTyped
<1>8. /\ DOMAIN positions' = DOMAIN positions \cup {w} /\ DOMAIN positions' = DOMAIN positions
      /\ positions'[w] = copy
      /\ \A p \in DOMAIN positions \ {w} : positions'[p] = positions[p]
      /\ positions' \in [DOMAIN positions' -> Jobs!PositionType]
      /\ \E n \in 0 .. MaxPositions : DOMAIN positions' = 1 .. n
  BY <1>1, <1>2, SavedPosition
<1>9. /\ overtaken' = overtaken \cup (Jobs!Running \ {r})
      /\ unsound \subseteq unsound' /\ unsound' \subseteq Jobs!PositionIds
      /\ (r \in overtaken \/ elsewhere) => w \in unsound'
  BY <1>1, <1>3, JobWrote
<1> HIDE DEF elsewhere
<1>10. CarriesJob(r)' /\ KnowsJob(r)' BY <1>2, <1>4, <1>7, <1>8 DEF CarriesJob, KnowsJob
<1>11. OrdersKept'
  <2>1. r \notin Jobs!Exchanging BY <1>6 DEF Jobs!Exchanging
  <2>2. ASSUME NEW p \in DOMAIN positions \ unsound', p # w, w \notin unsound', HasPlace(p, positions'[w])
        PROVE  r \in Jobs!Exchanging' /\ {p, w} = {q.id, q.other}
    <3>1. HasPlace(p, positions[w]) BY <1>5, <1>8, <1>9, <2>2 DEF HasPlace, elsewhere
    <3>2. p \in DOMAIN positions \ unsound /\ w \in DOMAIN positions \ unsound /\ Clash(w, p)
      BY <1>2, <1>9, <2>2, <3>1 DEF Clash
    <3>3. PICK s \in Jobs!Exchanging : {w, p} = {jobReq[s].id, jobReq[s].other}
      BY <3>2 DEF JobsInv, OrdersKept
    <3>4. r \in overtaken BY <1>2, <2>1, <3>3 DEF JobsInv, ExchangesAreAlone
    <3> QED BY <1>9, <2>2, <3>4
  <2>3. \A p \in DOMAIN positions \ unsound' :
          p # w /\ w \notin unsound' /\ HasPlace(p, positions'[w]) =>
              r \in Jobs!Exchanging' /\ {p, w} = {q.id, q.other}
    BY <2>2
  <2> QED BY <1>1, <1>8, <1>9, <2>1, <2>3, OrdersWriteKeeps, Zenon
<1>12. PlacementsKept'
  <2>1. ASSUME w \notin unsound', \A s \in Jobs!Placing' : jobReq'[s].id # w
        PROVE  placed'[w] = asked'[w]
    <3>1. q.at = "idle" BY <1>4, <1>7, <2>1 DEF Jobs!Placing, Jobs!Running
    <3>2. ASSUME NEW s \in Jobs!Placing
          PROVE  jobReq[s].id # w
      <4>1. s # r BY <1>6 DEF Jobs!Placing
      <4>2. jobReq'[s] = jobReq[s] /\ s \in Jobs!Placing'
        BY <1>1, <4>1 DEF Jobs!Placing, Jobs!Running, JobsInv, JobsTyped
      <4> QED BY <2>1, <4>2
    <3>3. w \in DOMAIN positions \ unsound BY <1>2, <1>9, <2>1
    <3> QED BY <1>1, <3>2, <3>3 DEF JobsInv, PlacementsKept
  <2>2. \A p \in DOMAIN positions \ {w} : placed'[p] = placed[p] /\ asked'[p] = asked[p] BY <1>1
  <2> QED BY <1>1, <1>6, <1>8, <1>9, <2>1, <2>2, PlacementsWriteKeep
<1>13. placed' \in [DOMAIN positions' -> [Operators -> Nat]] /\ asked' \in [DOMAIN positions' -> Jobs!Named]
  BY <1>1, <1>8 DEF JobsInv, JobsTyped
<1> QED BY <1>1, <1>2, <1>4, <1>8, <1>9, <1>10, <1>11, <1>12, <1>13, JobWriteKeeps

\* No order changes: positions are as far apart as they were.
LEMMA SameOrdersKeep ==
  ASSUME JobsInv, positions' = positions, unsound \subseteq unsound',
         \A s \in Jobs!Exchanging : s \in Jobs!Exchanging' /\ jobReq'[s] = jobReq[s]
  PROVE  OrdersKept'
BY DEF JobsInv, OrdersKept, Clash, HasPlace

LEMMA UnplaceKeeps ==
  ASSUME JobsInv, NEW r \in Requests, Jobs!Unplace(r)
  PROVE  JobsInv'
<1> DEFINE w == jobReq[r].id
           q == [jobReq[r] EXCEPT !.at = "place"]
           none == Jobs!Nobody
<1>1. /\ jobReq[r].at = "unplace"
      /\ placed' = [placed EXCEPT ![w] = none]
      /\ jobReq' = [jobReq EXCEPT ![r] = q]
      /\ Jobs!Wrote(r, w, FALSE)
      /\ positions' = positions /\ asked' = asked
  BY Zenon DEF Jobs!Unplace, Jobs!Go
<1>2. jobReq[r] \in JobRequest /\ w \in DOMAIN positions /\ jobReq[r].began
      /\ jobReq[r].other = Nothing /\ r \in Jobs!Running
  BY <1>1 DEF JobsInv, JobsTyped, CarriesJob, Jobs!Running
<1>3. w \in Jobs!PositionIds BY <1>2, PositionsTyped
<1>4. q \in JobRequest /\ q.at = "place" /\ q.id = w /\ q.other = Nothing /\ q.began
  BY <1>2 DEF JobRequest, JobStages
<1>5. none \in [Operators -> Nat] BY NobodyIsNamed
<1> HIDE DEF q, w, none
<1>7. jobReq'[r] = q BY <1>1 DEF JobsInv, JobsTyped
<1>8. placed' \in [DOMAIN positions' -> [Operators -> Nat]] /\ asked' \in [DOMAIN positions' -> Jobs!Named]
      /\ placed'[w] = none /\ \A p \in DOMAIN positions \ {w} : placed'[p] = placed[p]
  BY <1>1, <1>2, <1>5 DEF JobsInv, JobsTyped
<1>9. /\ overtaken' = overtaken \cup (Jobs!Running \ {r})
      /\ unsound \subseteq unsound' /\ unsound' \subseteq Jobs!PositionIds
  BY <1>1, <1>3, JobWrote
<1>10. CarriesJob(r)' /\ KnowsJob(r)'
  BY <1>1, <1>2, <1>4, <1>7, <1>8 DEF CarriesJob, KnowsJob, none
<1>11. OrdersKept'
  <2>1. \A s \in Jobs!Exchanging : s \in Jobs!Exchanging' /\ jobReq'[s] = jobReq[s]
    BY <1>1 DEF Jobs!Exchanging, Jobs!Running, JobsInv, JobsTyped
  <2> QED BY <1>1, <1>9, <2>1, SameOrdersKeep
<1>12. PlacementsKept'
  <2>1. r \in Jobs!Placing' /\ jobReq'[r].id = w BY <1>4, <1>7 DEF Jobs!Placing, Jobs!Running
  <2>2. DOMAIN positions' = DOMAIN positions \cup {w} /\ jobReq[r].id = w BY <1>1, <1>2 DEF w
  <2> QED BY <1>1, <1>8, <1>9, <2>1, <2>2, PlacementsWriteKeep
<1>13. (\E n \in 0 .. MaxPositions : DOMAIN positions' = 1 .. n) /\ positions' \in [DOMAIN positions' -> Jobs!PositionType]
  BY <1>1 DEF JobsInv, JobsTyped
<1> QED BY <1>1, <1>2, <1>4, <1>8, <1>9, <1>10, <1>11, <1>12, <1>13, JobWriteKeeps

LEMMA PlaceKeeps ==
  ASSUME JobsInv, NEW r \in Requests, Jobs!Place(r)
  PROVE  JobsInv'
<1> DEFINE w == jobReq[r].id
           people == jobReq[r].users
           now1 == [u \in Operators |-> placed[w][u] + people[u]]
<1>1. /\ jobReq[r].at = "place"
      /\ placed' = [placed EXCEPT ![w] = [u \in Operators |-> @[u] + people[u]]]
      /\ asked' = [asked EXCEPT ![w] = people]
      /\ jobReq' = [jobReq EXCEPT ![r] = Jobs!Idle]
      /\ Jobs!Wrote(r, w, FALSE)
      /\ positions' = positions
  BY Zenon DEF Jobs!Place, Jobs!Go
<1>2. jobReq[r] \in JobRequest /\ w \in DOMAIN positions /\ people \in Jobs!Named
      /\ jobReq[r].other = Nothing /\ r \in Jobs!Running
  BY <1>1 DEF JobsInv, JobsTyped, CarriesJob, Jobs!Running, JobRequest
<1>3. w \in Jobs!PositionIds BY <1>2, PositionsTyped
<1>5. now1 \in [Operators -> Nat] BY <1>2, NobodyIsNamed DEF JobsInv, JobsTyped
<1>6. r \notin overtaken => now1 = people
  <2>1. r \notin overtaken => placed[w] = Jobs!Nobody BY <1>1 DEF JobsInv, KnowsJob
  <2>2. people \in [Operators -> Nat] BY <1>2, NobodyIsNamed
  <2> QED BY <2>1, <2>2 DEF Jobs!Nobody
<1>7. jobReq'[r] = Jobs!Idle BY <1>1 DEF JobsInv, JobsTyped
<1>8. placed' \in [DOMAIN positions' -> [Operators -> Nat]] /\ asked' \in [DOMAIN positions' -> Jobs!Named]
      /\ placed'[w] = now1 /\ asked'[w] = people
      /\ \A p \in DOMAIN positions \ {w} : placed'[p] = placed[p] /\ asked'[p] = asked[p]
  BY <1>1, <1>2, <1>5 DEF JobsInv, JobsTyped
<1>9. /\ overtaken' = overtaken \cup (Jobs!Running \ {r})
      /\ unsound \subseteq unsound' /\ unsound' \subseteq Jobs!PositionIds
      /\ r \in overtaken => w \in unsound'
  BY <1>1, <1>3, JobWrote
<1>10. CarriesJob(r)' /\ KnowsJob(r)' BY <1>7, IdleJobRequest DEF CarriesJob, KnowsJob
<1>11. OrdersKept'
  <2>1. \A s \in Jobs!Exchanging : s \in Jobs!Exchanging' /\ jobReq'[s] = jobReq[s]
    BY <1>1 DEF Jobs!Exchanging, Jobs!Running, JobsInv, JobsTyped
  <2> QED BY <1>1, <1>9, <2>1, SameOrdersKeep
<1>12. PlacementsKept'
  <2>1. w \notin unsound' => placed'[w] = asked'[w]
    BY <1>6, <1>8, <1>9
  <2>2. DOMAIN positions' = DOMAIN positions \cup {w} BY <1>1, <1>2
  <2> HIDE DEF now1
  <2> QED BY <1>1, <1>8, <1>9, <2>1, <2>2, PlacementsWriteKeep
<1>13. (\E n \in 0 .. MaxPositions : DOMAIN positions' = 1 .. n) /\ positions' \in [DOMAIN positions' -> Jobs!PositionType]
  BY <1>1 DEF JobsInv, JobsTyped
<1> HIDE DEF w, people, now1
<1> QED BY <1>1, <1>2, <1>8, <1>9, <1>10, <1>11, <1>12, <1>13, IdleJobRequest, JobWriteKeeps

\* Nobody is placed: placements are what they were.
LEMMA SamePlacementsKeep ==
  ASSUME JobsInv, DOMAIN positions' = DOMAIN positions, placed' = placed, asked' = asked, unsound \subseteq unsound',
         \A s \in Jobs!Placing : s \in Jobs!Placing' /\ jobReq'[s] = jobReq[s]
  PROVE  PlacementsKept'
<1> SUFFICES ASSUME NEW p \in DOMAIN positions' \ unsound', \A s \in Jobs!Placing' : jobReq'[s].id # p
             PROVE  placed'[p] = asked'[p]
  BY Zenon DEF PlacementsKept
<1>1. p \in DOMAIN positions \ unsound /\ \A s \in Jobs!Placing : jobReq[s].id # p OBVIOUS
<1> QED BY <1>1 DEF JobsInv, PlacementsKept

\* A request that nobody has overtaken finds no exchange between its saves: of two positions
\* with the same order one is marked.
LEMMA AloneMeansApart ==
  ASSUME JobsInv, NEW r \in Jobs!Running \ overtaken, r \notin Jobs!Exchanging,
         NEW p \in DOMAIN positions, NEW x \in DOMAIN positions, p # x,
         NEW place, HasPlace(p, place), HasPlace(x, place)
  PROVE  p \in unsound \/ x \in unsound
<1> SUFFICES ASSUME p \notin unsound, x \notin unsound PROVE FALSE OBVIOUS
<1>1. Clash(p, x) BY DEF Clash, HasPlace
<1>2. PICK s \in Jobs!Exchanging : {p, x} = {jobReq[s].id, jobReq[s].other}
  BY <1>1 DEF JobsInv, OrdersKept
<1> QED BY <1>2 DEF JobsInv, ExchangesAreAlone

LEMMA SaveOtherKeeps ==
  ASSUME JobsInv, NEW r \in Requests, Jobs!SaveOther(r)
  PROVE  JobsInv'
<1> DEFINE id == jobReq[r].id
           w == jobReq[r].other
           otherCopy == jobReq[r].otherCopy
           copy == jobReq[r].copy
           q == [jobReq[r] EXCEPT !.at = "order", !.began = TRUE]
<1>1. /\ jobReq[r].at = "other"
      /\ positions' = [positions EXCEPT ![w] = otherCopy]
      /\ jobReq' = [jobReq EXCEPT ![r] = q]
      /\ Jobs!Wrote(r, w, FALSE)
      /\ placed' = placed /\ asked' = asked
  BY Zenon DEF Jobs!SaveOther, Jobs!Go
<1>2. jobReq[r] \in JobRequest /\ copy \in CopyType /\ otherCopy \in Jobs!PositionType
      /\ id \in DOMAIN positions /\ w \in DOMAIN positions
      /\ r \in Jobs!Running /\ r \notin Jobs!Exchanging
  BY <1>1 DEF JobsInv, JobsTyped, CarriesJob, Jobs!Running, Jobs!Exchanging
<1>3. w \in Jobs!PositionIds BY <1>2, PositionsTyped
<1>4. q \in JobRequest /\ q.at = "order" /\ q.id = id /\ q.other = w /\ q.began /\ q.copy = copy
  BY <1>2 DEF JobRequest, JobStages
<1>5. r \notin overtaken =>
        positions[id].site = copy.site /\ HasPlace(w, copy) /\ HasPlace(id, otherCopy)
  BY <1>1 DEF JobsInv, KnowsJob
<1>6. jobReq[r].at \notin {"unplace", "place"} /\ jobReq[r].id = id /\ jobReq[r].other = w BY <1>1
<1> HIDE DEF q, w, id, copy, otherCopy
<1>7. jobReq'[r] = q /\ \A s \in Requests \ {r} : jobReq'[s] = jobReq[s]
  BY <1>1 DEF JobsInv, JobsTyped
<1>8. /\ DOMAIN positions' = DOMAIN positions \cup {w} /\ DOMAIN positions' = DOMAIN positions
      /\ positions'[w] = otherCopy
      /\ \A p \in DOMAIN positions \ {w} : positions'[p] = positions[p]
      /\ positions' \in [DOMAIN positions' -> Jobs!PositionType]
      /\ \E n \in 0 .. MaxPositions : DOMAIN positions' = 1 .. n
  BY <1>1, <1>2, SavedPosition
<1>9. /\ overtaken' = overtaken \cup (Jobs!Running \ {r})
      /\ unsound \subseteq unsound' /\ unsound' \subseteq Jobs!PositionIds
      /\ r \in overtaken \/ {id, w} \cap unsound # {} => w \in unsound'
      /\ r \in overtaken' <=> r \in overtaken
  <2>1. /\ overtaken' = overtaken \cup (Jobs!Running \ {r})
        /\ unsound \subseteq unsound' /\ unsound' \subseteq Jobs!PositionIds
        /\ (r \in overtaken \/ {jobReq[r].id, jobReq[r].other} \cap unsound # {}) => w \in unsound'
    BY <1>1, <1>3, JobWrote
  <2>2. {jobReq[r].id, jobReq[r].other} = {id, w} BY <1>6
  <2> QED BY <2>1, <2>2
<1>10. r \in Jobs!Exchanging' BY <1>4, <1>7 DEF Jobs!Exchanging, Jobs!Running
<1>11. CarriesJob(r)' BY <1>2, <1>4, <1>7, <1>8 DEF CarriesJob
<1>12. KnowsJob(r)'
  <2> SUFFICES ASSUME r \notin overtaken
               PROVE  /\ positions'[id].site = copy.site
                      /\ \A p \in DOMAIN positions \ {id} :
                           positions'[p].site = copy.site /\ positions'[p].order = copy.order =>
                              {p, id, w} \cap unsound' # {}
    BY <1>4, <1>7, <1>8, <1>9 DEF KnowsJob, HasPlace
  <2>1. positions'[id].site = copy.site BY <1>2, <1>5, <1>8 DEF HasPlace
  <2>2. ASSUME NEW p \in DOMAIN positions \ {id}, positions'[p].site = copy.site, positions'[p].order = copy.order
        PROVE  {p, id, w} \cap unsound' # {}
    <3>1. CASE p # w
      <4>1. HasPlace(p, copy) BY <1>8, <2>2, <3>1 DEF HasPlace
      <4>2. p \in unsound \/ w \in unsound BY <1>2, <1>5, <3>1, <4>1, AloneMeansApart
      <4> QED BY <1>9, <4>2
    <3>2. CASE p = w
      <4>1. HasPlace(id, copy) BY <1>5, <1>8, <2>2, <3>2 DEF HasPlace
      <4>2. id \in unsound \/ w \in unsound BY <1>2, <1>5, <2>2, <3>2, <4>1, AloneMeansApart
      <4> QED BY <1>9, <4>2
    <3> QED BY <3>1, <3>2
  <2> QED BY <2>1, <2>2
<1>13. OrdersKept'
  <2>1. ASSUME NEW p \in DOMAIN positions \ unsound', p # w, w \notin unsound', HasPlace(p, positions'[w])
        PROVE  {p, w} = {q.id, q.other}
    <3>1. r \notin overtaken /\ id \notin unsound /\ p \notin unsound BY <1>9, <2>1
    <3>2. HasPlace(p, otherCopy) BY <1>8, <2>1 DEF HasPlace
    <3>3. p = id BY <1>2, <1>5, <3>1, <3>2, AloneMeansApart
    <3> QED BY <1>4, <3>3
  <2>2. \A p \in DOMAIN positions \ unsound' :
          p # w /\ w \notin unsound' /\ HasPlace(p, positions'[w]) =>
              r \in Jobs!Exchanging' /\ {p, w} = {q.id, q.other}
    BY <1>10, <2>1
  <2> QED BY <1>1, <1>2, <1>8, <1>9, <2>2, OrdersWriteKeeps, Zenon
<1>14. PlacementsKept'
  <2>1. \A s \in Jobs!Placing : s \in Jobs!Placing' /\ jobReq'[s] = jobReq[s]
    BY <1>6, <1>7 DEF Jobs!Placing, Jobs!Running
  <2> QED BY <1>1, <1>8, <1>9, <2>1, SamePlacementsKeep
<1>15. placed' \in [DOMAIN positions' -> [Operators -> Nat]] /\ asked' \in [DOMAIN positions' -> Jobs!Named]
  BY <1>1, <1>8 DEF JobsInv, JobsTyped
<1> QED BY <1>1, <1>2, <1>4, <1>8, <1>9, <1>11, <1>12, <1>13, <1>14, <1>15, JobWriteKeeps

LEMMA SaveOrderKeeps ==
  ASSUME JobsInv, NEW r \in Requests, Jobs!SaveOrder(r)
  PROVE  JobsInv'
<1> DEFINE w == jobReq[r].id
           other == jobReq[r].other
           copy == jobReq[r].copy
           whole == jobReq[r].whole
<1>1. /\ jobReq[r].at = "order" /\ copy.order \in Jobs!Orders
      /\ positions' = [positions EXCEPT ![w] = copy]
      /\ jobReq' = [jobReq EXCEPT ![r] = Jobs!Idle]
      /\ Jobs!Wrote(r, w, ~whole)
      /\ placed' = placed /\ asked' = asked
  BY Zenon DEF Jobs!SaveOrder, Jobs!Go
<1>2. jobReq[r] \in JobRequest /\ copy \in CopyType /\ w \in DOMAIN positions /\ r \in Jobs!Running
      /\ whole \in BOOLEAN
  BY <1>1 DEF JobsInv, JobsTyped, CarriesJob, Jobs!Running, JobRequest
<1>3. w \in Jobs!PositionIds BY <1>2, PositionsTyped
<1>4. copy \in Jobs!PositionType BY <1>1, <1>2 DEF CopyType, Jobs!PositionType
<1>5. r \notin overtaken /\ whole =>
        \A p \in DOMAIN positions \ {w} : HasPlace(p, copy) => {p, w, other} \cap unsound # {}
  BY <1>1 DEF JobsInv, KnowsJob
<1>6. jobReq[r].at \notin {"unplace", "place"} /\ jobReq[r].id = w /\ jobReq[r].other = other
  BY <1>1
<1> HIDE DEF w, other, copy, whole
<1>7. jobReq'[r] = Jobs!Idle /\ \A s \in Requests \ {r} : jobReq'[s] = jobReq[s]
  BY <1>1 DEF JobsInv, JobsTyped
<1>8. /\ DOMAIN positions' = DOMAIN positions \cup {w} /\ DOMAIN positions' = DOMAIN positions
      /\ positions'[w] = copy
      /\ \A p \in DOMAIN positions \ {w} : positions'[p] = positions[p]
      /\ positions' \in [DOMAIN positions' -> Jobs!PositionType]
      /\ \E n \in 0 .. MaxPositions : DOMAIN positions' = 1 .. n
  BY <1>1, <1>2, <1>4, SavedPosition
<1>9. /\ overtaken' = overtaken \cup (Jobs!Running \ {r})
      /\ unsound \subseteq unsound' /\ unsound' \subseteq Jobs!PositionIds
      /\ r \in overtaken \/ {w, other} \cap unsound # {} \/ ~whole => w \in unsound'
  <2>1. /\ overtaken' = overtaken \cup (Jobs!Running \ {r})
        /\ unsound \subseteq unsound' /\ unsound' \subseteq Jobs!PositionIds
        /\ (r \in overtaken \/ {jobReq[r].id, jobReq[r].other} \cap unsound # {} \/ ~whole) => w \in unsound'
    BY <1>1, <1>3, JobWrote
  <2>2. {jobReq[r].id, jobReq[r].other} = {w, other} BY <1>6
  <2> QED BY <2>1, <2>2
<1>10. CarriesJob(r)' /\ KnowsJob(r)' BY <1>7, IdleJobRequest DEF CarriesJob, KnowsJob
<1>11. OrdersKept'
  <2>1. ASSUME NEW p \in DOMAIN positions \ unsound', p # w, w \notin unsound', HasPlace(p, positions'[w])
        PROVE  FALSE
    <3>1. r \notin overtaken /\ whole /\ {w, other} \cap unsound = {} /\ p \notin unsound BY <1>2, <1>9, <2>1
    <3>2. HasPlace(p, copy) BY <1>8, <2>1 DEF HasPlace
    <3> QED BY <1>5, <2>1, <3>1, <3>2
  <2>2. \A p \in DOMAIN positions \ unsound' : p = w \/ w \in unsound' \/ ~ HasPlace(p, positions'[w])
    BY <2>1
  <2> QED
    <3>1. r \in Jobs!Exchanging => jobReq[r].id = w BY <1>6
    <3>2. /\ DOMAIN positions' = DOMAIN positions \cup {w}
          /\ \A p \in DOMAIN positions \ {w} : positions'[p] = positions[p]
          /\ unsound \subseteq unsound'
      BY <1>8, <1>9
    <3> QED BY <1>1, <2>2, <3>1, <3>2, OrdersWriteKeeps, Zenon
<1>12. PlacementsKept'
  <2>1. \A s \in Jobs!Placing : s \in Jobs!Placing' /\ jobReq'[s] = jobReq[s]
    BY <1>6, <1>7 DEF Jobs!Placing, Jobs!Running
  <2> QED BY <1>1, <1>8, <1>9, <2>1, SamePlacementsKeep
<1>13. placed' \in [DOMAIN positions' -> [Operators -> Nat]] /\ asked' \in [DOMAIN positions' -> Jobs!Named]
  BY <1>1, <1>8 DEF JobsInv, JobsTyped
<1> QED BY <1>1, <1>2, <1>8, <1>9, <1>10, <1>11, <1>12, <1>13, IdleJobRequest, JobWriteKeeps

LEMMA FailJobKeeps ==
  ASSUME JobsInv, NEW r \in Requests, Jobs!Fail(r)
  PROVE  JobsInv'
<1>1. /\ r \in Jobs!Running
      /\ jobReq' = [jobReq EXCEPT ![r] = Jobs!Idle]
      /\ unsound' = IF jobReq[r].began THEN unsound \cup ({jobReq[r].id, jobReq[r].other} \ {Nothing}) ELSE unsound
      /\ UNCHANGED <<positions, placed, asked, overtaken>>
  BY Zenon DEF Jobs!Fail, Jobs!Go
<1>2. jobReq[r] \in JobRequest BY DEF JobsInv, JobsTyped
<1>3. unsound \subseteq unsound' /\ unsound' \subseteq Jobs!PositionIds
  BY <1>1, <1>2 DEF JobsInv, JobsTyped, JobRequest
<1>4. jobReq'[r] = Jobs!Idle /\ \A s \in Requests \ {r} : jobReq'[s] = jobReq[s]
  BY <1>1 DEF JobsInv, JobsTyped
<1>5. JobsTyped' BY <1>1, <1>3, IdleJobRequest DEF JobsInv, JobsTyped
<1>6. ASSUME NEW s \in Requests
      PROVE  CarriesJob(s)' /\ KnowsJob(s)'
  <2>1. CASE s = r BY <1>4, <2>1, IdleJobRequest DEF CarriesJob, KnowsJob
  <2>2. CASE s # r
    <3>1. CarriesJob(s) /\ KnowsJob(s) /\ jobReq'[s] = jobReq[s] BY <1>4, <2>2 DEF JobsInv
    <3>2. CarriesJob(s)' BY <1>1, <3>1 DEF CarriesJob
    <3>3. KnowsJob(s)' BY <1>1, <1>3, <3>1 DEF KnowsJob, HasPlace
    <3> QED BY <3>2, <3>3
  <2> QED BY <2>1, <2>2
<1>7. /\ Jobs!Running' = Jobs!Running \ {r}
      /\ Jobs!Exchanging' = Jobs!Exchanging \ {r}
      /\ Jobs!Placing' = Jobs!Placing \ {r}
  BY <1>4, IdleJobRequest DEF Jobs!Running, Jobs!Exchanging, Jobs!Placing
<1>8. ExchangesAreAlone' BY <1>1, <1>7 DEF JobsInv, ExchangesAreAlone
<1>9. jobReq[r].began => {jobReq[r].id, jobReq[r].other} \ {Nothing} \subseteq unsound' BY <1>1
<1>10. \A p \in DOMAIN positions : p # Nothing BY PositionsTyped, JobsConstants
<1>11. OrdersKept'
  <2> SUFFICES ASSUME NEW p \in DOMAIN positions \ unsound', NEW x \in DOMAIN positions \ unsound', Clash(p, x)
               PROVE  \E s \in Jobs!Exchanging' : {p, x} = {jobReq'[s].id, jobReq'[s].other}
    BY <1>1 DEF OrdersKept, Clash, HasPlace
  <2>1. PICK s \in Jobs!Exchanging : {p, x} = {jobReq[s].id, jobReq[s].other}
    BY <1>3 DEF JobsInv, OrdersKept
  <2>2. s # r BY <1>9, <1>10, <2>1 DEF Jobs!Exchanging
  <2> QED BY <1>4, <1>7, <2>1, <2>2 DEF Jobs!Exchanging, Jobs!Running
<1>12. PlacementsKept'
  <2> SUFFICES ASSUME NEW p \in DOMAIN positions \ unsound', \A s \in Jobs!Placing' : jobReq'[s].id # p
               PROVE  placed[p] = asked[p]
    BY <1>1, Zenon DEF PlacementsKept
  <2>1. ASSUME NEW s \in Jobs!Placing
        PROVE  jobReq[s].id # p
    <3>1. CASE s = r
      <4>1. jobReq[r].began BY <3>1 DEF Jobs!Placing, JobsInv, CarriesJob
      <4> QED BY <1>9, <1>10, <3>1, <4>1
    <3>2. CASE s # r BY <1>4, <1>7, <3>2 DEF Jobs!Placing, Jobs!Running
    <3> QED BY <3>1, <3>2
  <2> QED BY <1>3, <2>1 DEF JobsInv, PlacementsKept
<1> QED BY <1>5, <1>6, <1>8, <1>11, <1>12 DEF JobsInv

LEMMA JobsQuietStep ==
  ASSUME JobsInv, UNCHANGED <<positions, placed, jobReq, overtaken, unsound, asked>>
  PROVE  JobsInv'
<1>1. Jobs!Running' = Jobs!Running /\ Jobs!Exchanging' = Jobs!Exchanging /\ Jobs!Placing' = Jobs!Placing
  BY DEF Jobs!Running, Jobs!Exchanging, Jobs!Placing
<1>2. JobsTyped' BY DEF JobsInv, JobsTyped
<1>3. \A r \in Requests : CarriesJob(r)' /\ KnowsJob(r)'
  BY DEF JobsInv, CarriesJob, KnowsJob, HasPlace
<1>4. ExchangesAreAlone' BY <1>1 DEF JobsInv, ExchangesAreAlone
<1>5. OrdersKept' BY <1>1 DEF JobsInv, OrdersKept, Clash, HasPlace
<1>6. PlacementsKept' BY <1>1 DEF JobsInv, PlacementsKept
<1> QED BY <1>2, <1>3, <1>4, <1>5, <1>6 DEF JobsInv

LEMMA JobsNextKeeps ==
  ASSUME JobsInv, [Jobs!Next]_(Jobs!vars)
  PROVE  JobsInv'
<1>1. CASE UNCHANGED Jobs!vars
  <2>1. UNCHANGED <<positions, placed, jobReq, overtaken, unsound, asked>> BY <1>1 DEF Jobs!vars
  <2> QED BY <2>1, JobsQuietStep
<1>2. ASSUME NEW r \in Requests, Jobs!Calls(r)
      PROVE  JobsInv'
  <2>1. r \notin Jobs!Running BY <1>2 DEF Jobs!Calls
  <2>2. ASSUME NEW s \in Sites, NEW places \in BOOLEAN, NEW people \in Jobs!Named,
               Jobs!Create(r, s, places, people)
        PROVE  JobsInv'
    BY <2>1, <2>2, CreateJobKeeps
  <2>3. ASSUME NEW p \in DOMAIN positions, NEW s \in Sites, NEW places \in BOOLEAN,
               NEW people \in Jobs!Named, Jobs!Update(r, p, s, places, people)
        PROVE  JobsInv'
    BY <2>1, <2>3, UpdateJobKeeps
  <2>4. ASSUME NEW p \in DOMAIN positions, NEW n \in 1 .. MaxOrder + 1, NEW whole \in BOOLEAN,
               Jobs!UpdateOrder(r, p, n, whole)
        PROVE  JobsInv'
    <3>1. n \in Nat BY JobsConstants
    <3> QED BY <2>1, <2>4, <3>1, UpdateOrderKeeps
  <2> QED BY <1>2, <2>2, <2>3, <2>4, Zenon DEF Jobs!Calls
<1>3. ASSUME Jobs!Next PROVE JobsInv'
  BY <1>2, <1>3, InsertPositionKeeps, SavePositionKeeps, UnplaceKeeps, PlaceKeeps, SaveOtherKeeps,
     SaveOrderKeeps, FailJobKeeps, Zenon DEF Jobs!Next
<1> QED BY <1>1, <1>3, Zenon

\* The rows, placements and marks of positions, and what each request has read, are as
\* above in every state (position.service.ts).
THEOREM JobsInvariance == Jobs!Spec => []JobsInv
<1>1. JobsInv /\ [Jobs!Next]_(Jobs!vars) => JobsInv' BY JobsNextKeeps
<1> QED BY JobsInit, <1>1, PTL DEF Jobs!Spec

\* For any number of requests, sites, users and positions: unless one of them was written by
\* an overtaken or half failed request, was put into another site or was given an order
\* with a fraction, no two positions of a site have the same order but for an exchange
\* between its saves, and a position has the rows of users that it was last to have.
THEOREM PositionsStayKept == Jobs!Spec => []PositionsKept
<1>1. JobsInv => PositionsKept BY KeptIsBoth DEF JobsInv
<1> QED BY JobsInvariance, <1>1, PTL

(***************************************************************************)
(* Levels (LevelTree).                                                     *)
(***************************************************************************)
LEMMA TreeCardinality == \A S : Tree!Cardinality(S) = Cardinality(S)
BY DEF Tree!Cardinality, Cardinality

(***************************************************************************)
(* Walks in the tree.                                                      *)
(***************************************************************************)
LEMMA ReachSteps ==
  ASSUME NEW rows, NEW id, NEW last \in Nat
  PROVE  \E f : IsReach(rows, id, last, f)
<1> DEFINE Steps(f, k) == f = [n \in 0 .. k |-> ReachedIn(rows, id, n, f[n - 1])]
           Missing == {k \in Nat : ~ \E f : Steps(f, k)}
<1>1. ASSUME Missing # {}
      PROVE  FALSE
  <2>1. PICK k \in Missing : \A j \in Missing : k <= j BY <1>1, Smallest
  <2>2. CASE k = 0
    <3> DEFINE f == [n \in 0 .. 0 |-> ReachedIn(rows, id, 0, {})]
    <3>1. f = [n \in 0 .. 0 |-> ReachedIn(rows, id, n, f[n - 1])] BY DEF ReachedIn
    <3> QED BY <2>1, <2>2, <3>1
  <2>3. CASE k # 0
    <3>1. k - 1 \in Nat /\ k - 1 \notin Missing BY <2>1, <2>3
    <3>2. PICK g : Steps(g, k - 1) BY <3>1
    <3> DEFINE f == [n \in 0 .. k |-> IF n = k THEN ReachedIn(rows, id, k, g[k - 1]) ELSE g[n]]
    <3>3. ASSUME NEW n \in 0 .. k
          PROVE  f[n] = ReachedIn(rows, id, n, f[n - 1])
      <4>1. CASE n = k BY <2>3, <3>1, <4>1
      <4>2. CASE n # k
        <5>1. n \in 0 .. k - 1 /\ f[n] = g[n] /\ g[n] = ReachedIn(rows, id, n, g[n - 1])
          BY <3>1, <3>2, <4>2
        <5>2. n # 0 => f[n - 1] = g[n - 1] BY <3>1, <5>1
        <5> QED BY <5>1, <5>2 DEF ReachedIn
      <4> QED BY <4>1, <4>2
    <3>4. Steps(f, k) BY <3>3
    <3> QED BY <2>1, <3>4
  <2> QED BY <2>2, <2>3
<1> QED BY <1>1 DEF IsReach

LEMMA ReachIs ==
  ASSUME NEW rows, NEW id, Tree!Cardinality(DOMAIN rows) \in Nat
  PROVE  \E f : /\ IsReach(rows, id, Tree!Cardinality(DOMAIN rows), f)
                /\ Tree!FindAllChildLevels(rows, id) = f[Tree!Cardinality(DOMAIN rows)]
<1> DEFINE N == Tree!Cardinality(DOMAIN rows)
           Is(f) == f = [n \in 0 .. N |-> IF n = 0 THEN {id} \cap DOMAIN rows
             ELSE f[n-1] \cup {c \in DOMAIN rows : rows[c].superior \in f[n-1]}]
           reach == CHOOSE f : Is(f)
<1>1. Tree!FindAllChildLevels(rows, id) = reach[N] BY Zenon DEF Tree!FindAllChildLevels
<1>2. \E f : Is(f)
  <2>1. PICK f : IsReach(rows, id, N, f) BY ReachSteps
  <2>2. Is(f) BY <2>1, Zenon DEF ReachedIn, IsReach
  <2> QED BY <2>2, Zenon
<1>3. Is(reach) BY <1>2, Zenon
<1> QED BY <1>1, <1>3, Zenon DEF ReachedIn, IsReach

\* The levels below one are the least set that has it and takes along what is below.
LEMMA AllBelow ==
  ASSUME NEW rows, NEW id \in DOMAIN rows, IsFiniteSet(DOMAIN rows)
  PROVE  LET D == Tree!FindAllChildLevels(rows, id) IN
         /\ id \in D /\ TakesAlong(rows, D)
         /\ \A E : TakesAlong(rows, E) /\ id \in E => D \subseteq E
<1> DEFINE N == Cardinality(DOMAIN rows)
           D == Tree!FindAllChildLevels(rows, id)
<1>1. N \in Nat /\ N = Tree!Cardinality(DOMAIN rows) BY TreeCardinality, FS_CardinalityType
<1>2. PICK f : IsReach(rows, id, N, f) /\ D = f[N] BY <1>1, ReachIs
<1> HIDE DEF N, D
<1>3. f[0] = {id} /\ \A n \in 1 .. N : f[n] = f[n - 1] \cup {c \in DOMAIN rows : rows[c].superior \in f[n - 1]}
  BY <1>1, <1>2 DEF IsReach, ReachedIn
<1> DEFINE Grown(n) ==
             /\ id \in f[n] /\ f[n] \subseteq DOMAIN rows
             /\ TakesAlong(rows, f[n]) \/ Cardinality(f[n]) > n
             /\ \A E : TakesAlong(rows, E) /\ id \in E => f[n] \subseteq E
           Odd == {n \in 0 .. N : ~ Grown(n)}
<1>4. Grown(0)
  <2>1. Cardinality({id}) = 1 BY FS_Singleton
  <2> QED BY <1>3, <2>1
<1>5. ASSUME NEW n \in 1 .. N, Grown(n - 1)
      PROVE  Grown(n)
  <2> DEFINE new == {c \in DOMAIN rows : rows[c].superior \in f[n - 1]}
  <2>1. f[n] = f[n - 1] \cup new /\ new \subseteq DOMAIN rows BY <1>3
  <2>2. \A E : TakesAlong(rows, E) /\ id \in E => f[n] \subseteq E BY <1>5, <2>1 DEF TakesAlong
  <2>3. CASE new \subseteq f[n - 1]
    <3>1. f[n] = f[n - 1] /\ TakesAlong(rows, f[n - 1]) BY <1>5, <2>1, <2>3 DEF TakesAlong
    <3> QED BY <1>5, <3>1
  <2>4. CASE ~(new \subseteq f[n - 1])
    <3>1. ~TakesAlong(rows, f[n - 1]) BY <2>4 DEF TakesAlong
    <3>2. Cardinality(f[n - 1]) > n - 1 BY <1>5, <3>1
    <3>3. IsFiniteSet(f[n]) /\ f[n - 1] \subseteq f[n] /\ f[n - 1] # f[n] /\ IsFiniteSet(f[n - 1])
      BY <1>5, <2>1, <2>4, FS_Subset
    <3>4. Cardinality(f[n - 1]) <= Cardinality(f[n]) /\ Cardinality(f[n]) # Cardinality(f[n - 1])
      BY <3>3, FS_Subset
    <3>5. Cardinality(f[n]) \in Nat /\ Cardinality(f[n - 1]) \in Nat BY <3>3, FS_CardinalityType
    <3>6. Cardinality(f[n]) > n BY <1>1, <3>2, <3>4, <3>5
    <3> QED BY <1>5, <2>1, <2>2, <3>6
  <2> QED BY <2>3, <2>4
<1>6. Grown(N)
  <2> SUFFICES ASSUME ~ Grown(N) PROVE FALSE OBVIOUS
  <2> HIDE DEF Grown
  <2>1. N \in Odd /\ Odd \subseteq Nat BY <1>1
  <2>2. PICK n \in Odd : \A m \in Odd : n <= m BY <2>1, Smallest
  <2>3. n # 0 BY <1>4, <2>2
  <2>4. n - 1 \in 0 .. N /\ n - 1 \notin Odd /\ n \in 1 .. N BY <1>1, <2>2, <2>3
  <2> QED BY <1>5, <2>2, <2>4
<1>7. TakesAlong(rows, f[N])
  <2>1. Cardinality(f[N]) <= N BY <1>6, FS_Subset DEF N
  <2>2. Cardinality(f[N]) \in Nat BY <1>6, FS_Subset, FS_CardinalityType
  <2> QED BY <1>1, <1>6, <2>1, <2>2
<1> QED BY <1>2, <1>6, <1>7 DEF D

\* What is below a level: itself, and what is below its children.
LEMMA BelowChildren ==
  ASSUME NEW rows, NEW id \in DOMAIN rows, IsFiniteSet(DOMAIN rows), NEW x \in Tree!FindAllChildLevels(rows, id), x # id
  PROVE  \E c \in Tree!ChildrenOf(rows, id) : x \in Tree!FindAllChildLevels(rows, c)
<1> DEFINE D(c) == Tree!FindAllChildLevels(rows, c)
           E == {id} \cup {y \in DOMAIN rows : \E c \in Tree!ChildrenOf(rows, id) : y \in D(c)}
<1>1. \A c \in DOMAIN rows : c \in D(c) /\ TakesAlong(rows, D(c)) BY AllBelow
<1>2. \A E1 : TakesAlong(rows, E1) /\ id \in E1 => D(id) \subseteq E1 BY AllBelow
<1> HIDE DEF D
<1>3. TakesAlong(rows, E)
  <2>1. \A c \in Tree!ChildrenOf(rows, id) : c \in DOMAIN rows /\ rows[c].superior = id
    BY DEF Tree!ChildrenOf
  <2>2. ASSUME NEW y \in DOMAIN rows, rows[y].superior = id
        PROVE  y \in E
    BY <1>1, <2>2 DEF Tree!ChildrenOf
  <2>3. ASSUME NEW y \in DOMAIN rows, NEW c \in Tree!ChildrenOf(rows, id), rows[y].superior \in D(c)
        PROVE  y \in E
    BY <1>1, <2>1, <2>3 DEF TakesAlong
  <2> QED BY <2>2, <2>3 DEF TakesAlong
<1>4. x \in E BY <1>2, <1>3 DEF D
<1> QED BY <1>4 DEF D

\* A level of which no child is in a circle is not below itself.
LEMMA NotBelowItself ==
  ASSUME NEW rows, NEW id \in DOMAIN rows, IsFiniteSet(DOMAIN rows),
         \A c \in Tree!ChildrenOf(rows, id) : ~Tree!InCircle(rows, c)
  PROVE  rows[id].superior \notin Tree!FindAllChildLevels(rows, id)
<1> DEFINE D(c) == Tree!FindAllChildLevels(rows, c)
           old == rows[id].superior
<1>1. \A c \in DOMAIN rows : c \in D(c) /\ TakesAlong(rows, D(c)) BY AllBelow
<1>2. \A c \in DOMAIN rows : \A x \in D(c) : x # c => \E d \in Tree!ChildrenOf(rows, c) : x \in D(d)
  BY BelowChildren
<1>3. \A c \in Tree!ChildrenOf(rows, id) : \A d \in Tree!ChildrenOf(rows, c) : c \notin D(d)
  BY DEF Tree!InCircle
<1> HIDE DEF D
<1> SUFFICES ASSUME old \in D(id) PROVE FALSE BY DEF D
<1>4. \A c, d : d \in Tree!ChildrenOf(rows, c) <=> d \in DOMAIN rows /\ rows[d].superior = c
  BY DEF Tree!ChildrenOf
<1>5. old # id BY <1>1, <1>3, <1>4
<1>6. PICK c \in Tree!ChildrenOf(rows, id) : old \in D(c) BY <1>2, <1>5
<1>7. c \in DOMAIN rows /\ rows[c].superior = id BY <1>4
<1>8. id \in D(c) BY <1>1, <1>6, <1>7 DEF TakesAlong
<1>9. id # c BY <1>5, <1>7
<1>10. PICK d \in Tree!ChildrenOf(rows, c) : id \in D(d) BY <1>2, <1>7, <1>8, <1>9
<1>11. c \in D(d) BY <1>1, <1>4, <1>7, <1>10 DEF TakesAlong
<1> QED BY <1>3, <1>11

LEMMA ClimbSteps ==
  ASSUME NEW rows, NEW id, NEW last \in Nat
  PROVE  \E f : IsClimb(rows, id, last, f)
<1> DEFINE Steps(f, k) == f = [n \in 0 .. k |-> ClimbedIn(rows, id, n, f[n - 1])]
           Missing == {k \in Nat : ~ \E f : Steps(f, k)}
<1>1. ASSUME Missing # {}
      PROVE  FALSE
  <2>1. PICK k \in Missing : \A j \in Missing : k <= j BY <1>1, Smallest
  <2>2. CASE k = 0
    <3> DEFINE f == [n \in 0 .. 0 |-> ClimbedIn(rows, id, 0, <<>>)]
    <3>1. f = [n \in 0 .. 0 |-> ClimbedIn(rows, id, n, f[n - 1])] BY DEF ClimbedIn
    <3> QED BY <2>1, <2>2, <3>1
  <2>3. CASE k # 0
    <3>1. k - 1 \in Nat /\ k - 1 \notin Missing BY <2>1, <2>3
    <3>2. PICK g : Steps(g, k - 1) BY <3>1
    <3> DEFINE f == [n \in 0 .. k |-> IF n = k THEN ClimbedIn(rows, id, k, g[k - 1]) ELSE g[n]]
    <3>3. ASSUME NEW n \in 0 .. k
          PROVE  f[n] = ClimbedIn(rows, id, n, f[n - 1])
      <4>1. CASE n = k BY <2>3, <3>1, <4>1
      <4>2. CASE n # k
        <5>1. n \in 0 .. k - 1 /\ f[n] = g[n] /\ g[n] = ClimbedIn(rows, id, n, g[n - 1])
          BY <3>1, <3>2, <4>2
        <5>2. n # 0 => f[n - 1] = g[n - 1] BY <3>1, <5>1
        <5>3. CASE n = 0 BY <5>1, <5>3 DEF ClimbedIn
        <5>4. CASE n # 0 BY <5>1, <5>2, <5>4
        <5> QED BY <5>3, <5>4
      <4> QED BY <4>1, <4>2
    <3>4. Steps(f, k) BY <3>3
    <3> QED BY <2>1, <3>4
  <2> QED BY <2>2, <2>3
<1> QED BY <1>1 DEF IsClimb

LEMMA ChainIs ==
  ASSUME NEW rows, NEW id, Tree!Cardinality(DOMAIN rows) \in Nat
  PROVE  \E f : /\ IsClimb(rows, id, Tree!Cardinality(DOMAIN rows), f)
                /\ Tree!ChainOf(rows, id) = f[Tree!Cardinality(DOMAIN rows)]
<1> DEFINE N == Tree!Cardinality(DOMAIN rows)
           Is(f) == f = [n \in 0 .. N |-> IF n = 0 THEN <<id>>
             ELSE IF rows[f[n - 1][Len(f[n - 1])]].superior \in DOMAIN rows
                  THEN Append(f[n - 1], rows[f[n - 1][Len(f[n - 1])]].superior) ELSE f[n - 1]]
           up == CHOOSE f : Is(f)
<1>1. Tree!ChainOf(rows, id) = up[N] BY Zenon DEF Tree!ChainOf, Tree!Last
<1>2. \E f : Is(f)
  <2>1. PICK f : IsClimb(rows, id, N, f) BY ClimbSteps
  <2>2. Is(f) BY <2>1, Zenon DEF ClimbedIn, IsClimb
  <2> QED BY <2>2, Zenon
<1>3. Is(up) BY <1>2, Zenon
<1> QED BY <1>1, <1>3, Zenon DEF ClimbedIn, IsClimb

\* A chain starts at its level, each level of it is followed by its superior, and it ends
\* above all levels unless it has more of them than there are.
LEMMA ChainClimbs ==
  ASSUME NEW rows, NEW id \in DOMAIN rows, IsFiniteSet(DOMAIN rows)
  PROVE  LET chain == Tree!ChainOf(rows, id) IN
         /\ chain \in Seq(DOMAIN rows) /\ chain # <<>> /\ chain[1] = id
         /\ \A i \in 1 .. Len(chain) - 1 : chain[i + 1] = rows[chain[i]].superior
         /\ rows[chain[Len(chain)]].superior \notin DOMAIN rows \/ Len(chain) = Cardinality(DOMAIN rows) + 1
<1> DEFINE N == Cardinality(DOMAIN rows)
           chain == Tree!ChainOf(rows, id)
<1>1. N \in Nat /\ N = Tree!Cardinality(DOMAIN rows) BY TreeCardinality, FS_CardinalityType
<1>2. PICK f : IsClimb(rows, id, N, f) /\ chain = f[N] BY <1>1, ChainIs
<1> HIDE DEF N, chain
<1>3. f[0] = <<id>> BY <1>1, <1>2 DEF IsClimb, ClimbedIn
<1>4. ASSUME NEW n \in 1 .. N
      PROVE  LET last == f[n - 1][Len(f[n - 1])] IN
             f[n] = IF rows[last].superior \in DOMAIN rows
                    THEN Append(f[n - 1], rows[last].superior) ELSE f[n - 1]
  <2>1. n \in 0 .. N /\ n # 0 BY <1>1
  <2>2. f[n] = ClimbedIn(rows, id, n, f[n - 1]) BY <1>2, <2>1 DEF IsClimb
  <2> QED BY <2>1, <2>2 DEF ClimbedIn
<1> DEFINE Climbs(n) ==
             /\ f[n] \in Seq(DOMAIN rows) /\ Len(f[n]) >= 1 /\ f[n][1] = id
             /\ \A i \in 1 .. Len(f[n]) - 1 : f[n][i + 1] = rows[f[n][i]].superior
             /\ rows[f[n][Len(f[n])]].superior \notin DOMAIN rows \/ Len(f[n]) = n + 1
           Odd == {n \in 0 .. N : ~ Climbs(n)}
<1>5. Climbs(0) BY <1>3
<1>6. ASSUME NEW n \in 1 .. N, Climbs(n - 1)
      PROVE  Climbs(n)
  <2> DEFINE s == f[n - 1]
             top == rows[s[Len(s)]].superior
  <2>1. s \in Seq(DOMAIN rows) /\ Len(s) \in Nat /\ Len(s) >= 1 /\ s[1] = id
        /\ (\A i \in 1 .. Len(s) - 1 : s[i + 1] = rows[s[i]].superior)
        /\ (top \notin DOMAIN rows \/ Len(s) = n)
    BY <1>6
  <2>2. f[n] = IF top \in DOMAIN rows THEN Append(s, top) ELSE s BY <1>4
  <2>3. CASE top \notin DOMAIN rows BY <2>1, <2>2, <2>3
  <2>4. CASE top \in DOMAIN rows
    <3> HIDE DEF s
    <3>1. f[n] = Append(s, top) /\ Len(s) = n BY <2>1, <2>2, <2>4
    <3> DEFINE t == Append(s, top)
    <3>2. t \in Seq(DOMAIN rows) /\ Len(t) = n + 1 /\ t[n + 1] = top /\ \A i \in 1 .. n : t[i] = s[i]
      BY <2>1, <2>4, <3>1
    <3> HIDE DEF t
    <3>3. t[1] = id BY <2>1, <3>1, <3>2
    <3>4. ASSUME NEW i \in 1 .. n
          PROVE  t[i + 1] = rows[t[i]].superior
      <4>1. CASE i = n BY <3>1, <3>2, <4>1
      <4>2. CASE i # n
        <5>1. i \in 1 .. n - 1 /\ i + 1 \in 1 .. n BY <4>2
        <5> QED BY <2>1, <3>1, <3>2, <5>1
      <4> QED BY <4>1, <4>2
    <3>5. f[n] = t BY <3>1 DEF t
    <3> QED BY <3>2, <3>3, <3>4, <3>5
  <2> QED BY <2>3, <2>4
<1>7. Climbs(N)
  <2> SUFFICES ASSUME ~ Climbs(N) PROVE FALSE OBVIOUS
  <2> HIDE DEF Climbs
  <2>1. N \in Odd /\ Odd \subseteq Nat BY <1>1
  <2>2. PICK n \in Odd : \A m \in Odd : n <= m BY <2>1, Smallest
  <2>3. n # 0 BY <1>5, <2>2
  <2>4. n - 1 \in 0 .. N /\ n - 1 \notin Odd /\ n \in 1 .. N BY <1>1, <2>2, <2>3
  <2> QED BY <1>6, <2>2, <2>4
<1> QED BY <1>2, <1>7 DEF N, chain

\* Two places of a chain with the same level are followed by the same levels.
LEMMA ChainRepeats ==
  ASSUME NEW rows, NEW chain, NEW last \in Nat, Climbing(rows, chain, last)
  PROVE  \A i, j \in 1 .. last : i < j /\ chain[i] = chain[j] =>
            \A k \in 0 .. last - j : chain[i + k] = chain[j + k]
<1> SUFFICES ASSUME NEW i \in 1 .. last, NEW j \in 1 .. last, i < j, chain[i] = chain[j]
             PROVE  \A k \in 0 .. last - j : chain[i + k] = chain[j + k]
  OBVIOUS
<1> DEFINE Odd == {k \in 0 .. last - j : chain[i + k] # chain[j + k]}
<1> SUFFICES ASSUME Odd # {} PROVE FALSE OBVIOUS
<1>0. Odd \in SUBSET Nat OBVIOUS
<1>1. PICK k \in Odd : \A m \in Odd : k <= m
  <2> HIDE DEF Odd
  <2> QED BY <1>0, Smallest
<1>2. k \in 0 .. last - j /\ chain[i + k] # chain[j + k] BY <1>1
<1>3. k # 0 BY <1>2
<1>4. k - 1 \in 0 .. last - j /\ k - 1 \notin Odd
  <2>1. k - 1 \in 0 .. last - j /\ ~(k <= k - 1) BY <1>2, <1>3
  <2> HIDE DEF Odd
  <2> QED BY <1>1, <2>1
<1>5. chain[i + (k - 1)] = chain[j + (k - 1)] BY <1>4
<1>6. i + (k - 1) \in 1 .. last - 1 /\ j + (k - 1) \in 1 .. last - 1
      /\ i + (k - 1) + 1 = i + k /\ j + (k - 1) + 1 = j + k
  BY <1>2, <1>3
<1>7. chain[i + k] = rows[chain[i + (k - 1)]].superior /\ chain[j + k] = rows[chain[j + (k - 1)]].superior
  BY <1>6 DEF Climbing
<1> QED BY <1>2, <1>5, <1>7

\* A chain that does not end leads round.
LEMMA EndlessLeadsRound ==
  ASSUME NEW rows, NEW id \in DOMAIN rows, IsFiniteSet(DOMAIN rows), ~Tree!EndsAbove(rows, id)
  PROVE  id \in Tree!InChain(rows, id) /\ LeadsRound(rows, Tree!InChain(rows, id))
<1> DEFINE N == Cardinality(DOMAIN rows)
           chain == Tree!ChainOf(rows, id)
<1>1. /\ chain \in Seq(DOMAIN rows) /\ chain # <<>> /\ chain[1] = id
      /\ \A i \in 1 .. Len(chain) - 1 : chain[i + 1] = rows[chain[i]].superior
      /\ rows[chain[Len(chain)]].superior \notin DOMAIN rows \/ Len(chain) = N + 1
  BY ChainClimbs
<1>2. rows[chain[Len(chain)]].superior \in DOMAIN rows BY DEF Tree!EndsAbove, Tree!Last
<1>3. N \in Nat BY FS_CardinalityType
<1>4. Tree!InChain(rows, id) = {chain[i] : i \in DOMAIN chain} BY DEF Tree!InChain, Tree!ToSet
<1>5. IsFiniteSet(1 .. N + 1) /\ Cardinality(1 .. N + 1) = N + 1 BY <1>3, FS_Interval
<1> HIDE DEF chain, N
<1>6. Len(chain) = N + 1 /\ DOMAIN chain = 1 .. N + 1 /\ chain \in [1 .. N + 1 -> DOMAIN rows]
  BY <1>1, <1>2, <1>3
<1>7. PICK i \in 1 .. N + 1, j \in 1 .. N + 1 : i < j /\ chain[i] = chain[j]
  <2>1. \E x, y \in 1 .. N + 1 : x # y /\ chain[x] = chain[y]
    <3>1. Cardinality(DOMAIN rows) < Cardinality(1 .. N + 1) BY <1>3, <1>5 DEF N
    <3> QED BY <1>5, <1>6, <3>1, FS_PigeonHole
  <2> QED BY <1>3, <2>1
<1>8. \A k \in 0 .. (N + 1) - j : chain[i + k] = chain[j + k]
  <2> DEFINE last == N + 1
  <2>1. last \in Nat /\ Climbing(rows, chain, last) BY <1>1, <1>3, <1>6 DEF Climbing
  <2>2. i \in 1 .. last /\ j \in 1 .. last /\ i < j /\ chain[i] = chain[j] BY <1>7
  <2> HIDE DEF last
  <2>3. \A a, b \in 1 .. last : a < b /\ chain[a] = chain[b] =>
          \A k \in 0 .. last - b : chain[a + k] = chain[b + k]
    BY <2>1, ChainRepeats
  <2>4. \A k \in 0 .. last - j : chain[i + k] = chain[j + k] BY <2>2, <2>3
  <2> QED BY <2>4 DEF last
<1>9. chain[i + ((N + 1) - j)] = chain[N + 1]
  <2>1. (N + 1) - j \in 0 .. (N + 1) - j /\ j + ((N + 1) - j) = N + 1 BY <1>3
  <2> QED BY <1>8, <2>1
<1>10. ASSUME NEW k \in 1 .. N + 1
       PROVE  \E m \in 1 .. N + 1 : rows[chain[k]].superior = chain[m]
  <2>1. CASE k # N + 1
    <3>1. k \in 1 .. Len(chain) - 1 /\ k + 1 \in 1 .. N + 1 BY <1>3, <1>6, <2>1
    <3> QED BY <1>1, <3>1
  <2>2. CASE k = N + 1
    <3> DEFINE m == i + ((N + 1) - j)
    <3>1. m \in 1 .. Len(chain) - 1 /\ m + 1 \in 1 .. N + 1 BY <1>3, <1>6, <1>7
    <3>2. chain[m + 1] = rows[chain[m]].superior BY <1>1, <3>1
    <3> QED BY <1>9, <2>2, <3>1, <3>2
  <2> QED BY <2>1, <2>2
<1>11. id \in Tree!InChain(rows, id) BY <1>1, <1>3, <1>4, <1>6
<1>12. LeadsRound(rows, Tree!InChain(rows, id))
  <2> DEFINE S == {chain[k] : k \in 1 .. N + 1}
  <2>1. S \subseteq DOMAIN rows BY <1>6
  <2>2. ASSUME NEW x \in S
        PROVE  rows[x].superior \in S
    <3>1. PICK k \in 1 .. N + 1 : x = chain[k] OBVIOUS
    <3>2. PICK m \in 1 .. N + 1 : rows[chain[k]].superior = chain[m] BY <1>10
    <3> QED BY <3>1, <3>2
  <2>3. Tree!InChain(rows, id) = S BY <1>4, <1>6
  <2> HIDE DEF S
  <2> QED BY <2>1, <2>2, <2>3 DEF LeadsRound
<1> QED BY <1>11, <1>12

(***************************************************************************)
(* Levels hang on levels.                                                  *)
(***************************************************************************)
LEMMA LevelConstants ==
  /\ MaxLevels \in Nat /\ MaxCards \in Nat /\ BigintIsString \in BOOLEAN
  /\ Nothing \notin MachineIds /\ MachineIds \cap Tree!Ids = {}
  /\ \E n \in 0 .. MaxLevels : FirstLevels \in [1 .. n -> Tree!LevelType]
  /\ \A l \in DOMAIN FirstLevels : FirstLevels[l].superior \in DOMAIN FirstLevels \cup {0}
  /\ \A S \in SUBSET DOMAIN FirstLevels \ {{}} : \E l \in S : FirstLevels[l].superior \notin S
BY TreeAssumption, Zenon DEF Tree!LevelsAssumption, Tree!NoLevel

LEMMA IdleTreeRequest ==
  /\ Tree!Idle \in TreeRequest
  /\ Tree!Idle.at = "idle" /\ Tree!Idle.kind = "none"
<1>1. Tree!NoLevel \in Nat BY DEF Tree!NoLevel
<1>2. <<>> \in Seq(ChildType) OBVIOUS
<1> QED
  BY <1>1, <1>2 DEF Tree!Idle, TreeRequest, TreeStages, TreeKinds, CarriedType, ListedType, CopiesType, ClonesType

LEMMA LevelsAre ==
  ASSUME TreeTyped
  PROVE  /\ IsFiniteSet(DOMAIN levels) /\ DOMAIN levels \subseteq Tree!Ids /\ DOMAIN levels \subseteq Nat
         /\ 0 \notin DOMAIN levels /\ lastId \in Nat
         /\ \A l \in DOMAIN levels :
              /\ levels[l] \in Tree!LevelType /\ levels[l].superior \in DOMAIN levels \cup {0}
              /\ levels[l].level \in Nat
<1>1. lastId \in Nat /\ lastId <= MaxLevels /\ DOMAIN levels \subseteq 1 .. lastId
  BY LevelConstants DEF TreeTyped
<1>2. IsFiniteSet(DOMAIN levels) BY <1>1, FS_Interval, FS_Subset
<1>3. DOMAIN levels \subseteq 1 .. MaxLevels BY <1>1, LevelConstants
<1> QED BY <1>1, <1>2, <1>3 DEF TreeTyped, Tree!Ids, Tree!LevelType

LEMMA TreeInit == Tree!Init => TreeInv
<1> SUFFICES ASSUME Tree!Init PROVE TreeInv OBVIOUS
<1>1. /\ levels = FirstLevels /\ lastId = Tree!Cardinality(DOMAIN FirstLevels)
      /\ treeReq = [r \in Requests |-> Tree!Idle]
  BY Zenon DEF Tree!Init
<1>2. PICK n \in 0 .. MaxLevels : FirstLevels \in [1 .. n -> Tree!LevelType] BY LevelConstants
<1>3. lastId = n /\ DOMAIN levels = 1 .. n
  <2>1. Cardinality(1 .. n) = n BY FS_Interval
  <2> QED BY <1>1, <1>2, <2>1, TreeCardinality
<1>4. treeReq \in [Requests -> TreeRequest] /\ \A r \in Requests : treeReq[r].at = "idle" /\ treeReq[r].kind = "none"
  BY <1>1, IdleTreeRequest
<1>5. TreeTyped BY <1>1, <1>2, <1>3, <1>4, LevelConstants DEF TreeTyped
<1>6. \A r \in Requests : CarriesLevels(r) /\ KnowsLevels(r)
  BY <1>4 DEF CarriesLevels, KnowsLevels
<1>7. CopiesApart BY <1>4 DEF CopiesApart, CopyIds, Tree!At
<1>8. NoCleanCircle BY <1>1, LevelConstants DEF NoCleanCircle, LeadsRound
<1> QED BY <1>5, <1>6, <1>7, <1>8 DEF TreeInv

\* No level is written: what the others have read is still so.
LEMMA LevelsStay ==
  ASSUME TreeInv, NEW r \in Requests, NEW q \in TreeRequest, treeReq' = [treeReq EXCEPT ![r] = q],
         levels' = levels, lastId' \in lastId .. MaxLevels, torn \subseteq torn', misplaced \subseteq misplaced',
         overtaken \ {r} \subseteq overtaken',
         CarriesLevels(r)', KnowsLevels(r)',
         q.kind = "clone" /\ q.at = "copy" => DOMAIN q.rows \subseteq CopyIds(r) \cup (lastId + 1 .. lastId')
  PROVE  TreeInv'
<1>1. treeReq'[r] = q /\ \A s \in Requests \ {r} : treeReq'[s] = treeReq[s]
  BY DEF TreeInv, TreeTyped
<1>2. lastId \in Nat /\ lastId' \in Nat /\ lastId <= lastId' /\ lastId' <= MaxLevels
  BY LevelConstants DEF TreeInv, TreeTyped
<1>3. TreeTyped' BY <1>2, LevelConstants DEF TreeInv, TreeTyped
<1>4. Bad \subseteq Bad' BY DEF Bad
<1>5. ASSUME NEW s \in Requests, s # r
      PROVE  CarriesLevels(s)' /\ KnowsLevels(s)'
  <2>1. treeReq'[s] = treeReq[s] /\ CarriesLevels(s) /\ KnowsLevels(s) /\ (s \notin overtaken' => s \notin overtaken)
    BY <1>1, <1>5 DEF TreeInv
  <2>2. CarriesLevels(s)' BY <2>1 DEF CarriesLevels, Hangs
  <2>3. KnowsLevels(s)'
    <3> SUFFICES ASSUME s \notin overtaken'
                 PROVE  KnowsLevels(s)'
      BY DEF KnowsLevels
    <3> QED BY <1>4, <2>1 DEF KnowsLevels
  <2> QED BY <2>2, <2>3
<1>6. CopiesApart'
  <2>1. \A s \in Requests \ {r} : CopyIds(s)' = CopyIds(s) BY <1>1 DEF CopyIds, Tree!At
  <2>2. CopyIds(r)' \subseteq CopyIds(r) \cup (lastId + 1 .. lastId') BY <1>1 DEF CopyIds, Tree!At
  <2>3. /\ \A s \in Requests : CopyIds(s) \subseteq (1 .. lastId) \ DOMAIN levels
        /\ \A s, t \in Requests : s # t => CopyIds(s) \cap CopyIds(t) = {}
        /\ DOMAIN levels \subseteq 1 .. lastId
    BY DEF TreeInv, TreeTyped, CopiesApart
  <2>4. \A s \in Requests : CopyIds(s)' \subseteq (1 .. lastId') \ DOMAIN levels
    BY <1>2, <2>1, <2>2, <2>3
  <2>5. \A s \in Requests \ {r} : CopyIds(s)' \cap CopyIds(r)' = {} BY <1>2, <2>1, <2>2, <2>3
  <2>6. \A s, t \in Requests \ {r} : s # t => CopyIds(s)' \cap CopyIds(t)' = {} BY <2>1, <2>3
  <2> QED BY <2>4, <2>5, <2>6 DEF CopiesApart
<1>7. NoCleanCircle' BY <1>4 DEF TreeInv, NoCleanCircle, LeadsRound
<1> QED BY <1>1, <1>3, <1>5, <1>6, <1>7 DEF TreeInv

\* Levels are written: the others do not know any more.
LEMMA LevelsWritten ==
  ASSUME TreeInv, NEW r \in Requests, NEW q \in TreeRequest, treeReq' = [treeReq EXCEPT ![r] = q],
         lastId' \in lastId .. MaxLevels, NEW rows, levels' = Tree!With(levels, rows),
         rows \in [DOMAIN rows -> Tree!LevelType],
         DOMAIN rows \subseteq DOMAIN levels \cup CopyIds(r) \cup (lastId + 1 .. lastId'),
         \A i \in DOMAIN rows : rows[i].superior \in DOMAIN levels \cup DOMAIN rows \cup {0},
         overtaken' = overtaken \cup (Tree!Running \ {r}),
         ~(q.kind = "clone" /\ q.at = "copy"),
         CarriesLevels(r)', KnowsLevels(r)', NoCleanCircle'
  PROVE  TreeInv'
<1>1. treeReq'[r] = q /\ \A s \in Requests \ {r} : treeReq'[s] = treeReq[s]
  BY DEF TreeInv, TreeTyped
<1>2. lastId \in Nat /\ lastId' \in Nat /\ lastId <= lastId' /\ lastId' <= MaxLevels
  BY LevelConstants DEF TreeInv, TreeTyped
<1>3. /\ DOMAIN levels' = DOMAIN levels \cup DOMAIN rows
      /\ \A i \in DOMAIN rows : levels'[i] = rows[i]
      /\ \A i \in DOMAIN levels \ DOMAIN rows : levels'[i] = levels[i]
      /\ levels' = [i \in DOMAIN levels' |-> levels'[i]]
  BY DEF Tree!With
<1>4. /\ \A s \in Requests : CopyIds(s) \subseteq (1 .. lastId) \ DOMAIN levels
      /\ \A s, t \in Requests : s # t => CopyIds(s) \cap CopyIds(t) = {}
      /\ DOMAIN levels \subseteq 1 .. lastId
  BY DEF TreeInv, TreeTyped, CopiesApart
<1>5. TreeTyped'
  <2>1. \A l \in DOMAIN levels : levels[l] \in Tree!LevelType /\ levels[l].superior \in DOMAIN levels \cup {0}
    BY LevelsAre DEF TreeInv
  <2>2. \A l \in DOMAIN levels' : levels'[l] \in Tree!LevelType /\ levels'[l].superior \in DOMAIN levels' \cup {0}
    BY <1>3, <2>1
  <2>3. DOMAIN levels' \subseteq 1 .. lastId' BY <1>2, <1>3, <1>4
  <2>4. levels' \in [DOMAIN levels' -> Tree!LevelType] BY <1>3, <2>2
  <2>5. treeReq' \in [Requests -> TreeRequest] BY DEF TreeInv, TreeTyped
  <2> QED BY <1>2, <2>2, <2>3, <2>4, <2>5, LevelConstants DEF TreeTyped
<1>6. ASSUME NEW s \in Requests, s # r
      PROVE  CarriesLevels(s)' /\ KnowsLevels(s)'
  <2>1. treeReq'[s] = treeReq[s] /\ CarriesLevels(s) BY <1>1, <1>6 DEF TreeInv
  <2>2. CarriesLevels(s)' BY <1>3, <2>1 DEF CarriesLevels, Hangs
  <2>3. s \notin overtaken' => treeReq[s].at = "idle" BY <1>6 DEF Tree!Running
  <2>4. KnowsLevels(s)' BY <2>1, <2>3 DEF KnowsLevels
  <2> QED BY <2>2, <2>4
<1>7. CopiesApart'
  <2>1. \A s \in Requests \ {r} : CopyIds(s)' = CopyIds(s) BY <1>1 DEF CopyIds, Tree!At
  <2>2. CopyIds(r)' = {} BY <1>1 DEF CopyIds, Tree!At
  <2>3. \A s \in Requests \ {r} : CopyIds(s) \cap DOMAIN rows = {} BY <1>2, <1>4
  <2>4. \A s \in Requests : CopyIds(s)' \subseteq (1 .. lastId') \ DOMAIN levels'
    BY <1>2, <1>3, <1>4, <2>1, <2>2, <2>3
  <2> QED BY <1>4, <2>1, <2>2, <2>4 DEF CopiesApart
<1> QED BY <1>1, <1>5, <1>6, <1>7 DEF TreeInv

LEMMA LevelRequestEnds ==
  ASSUME TreeInv, NEW r \in Requests, treeReq' = [treeReq EXCEPT ![r] = Tree!Idle],
         levels' = levels, lastId' = lastId, torn \subseteq torn', misplaced \subseteq misplaced',
         overtaken \ {r} \subseteq overtaken'
  PROVE  TreeInv'
<1>1. treeReq'[r] = Tree!Idle BY DEF TreeInv, TreeTyped
<1>2. CarriesLevels(r)' /\ KnowsLevels(r)' BY <1>1, IdleTreeRequest DEF CarriesLevels, KnowsLevels
<1>3. lastId' \in lastId .. MaxLevels BY LevelConstants DEF TreeInv, TreeTyped
<1> DEFINE q == Tree!Idle
<1>4. q \in TreeRequest /\ q.kind = "none" BY IdleTreeRequest
<1>5. treeReq' = [treeReq EXCEPT ![r] = q] OBVIOUS
<1> HIDE DEF q
<1> QED BY <1>2, <1>3, <1>4, <1>5, LevelsStay

LEMMA RefuseLevels ==
  ASSUME TreeInv, NEW r \in Requests, Tree!Refuse(r)
  PROVE  TreeInv'
<1>1. /\ treeReq' = [treeReq EXCEPT ![r] = Tree!Idle]
      /\ levels' = levels /\ lastId' = lastId /\ torn' = torn /\ misplaced' = misplaced /\ overtaken' = overtaken
  BY Zenon DEF Tree!Refuse, Tree!Done, Tree!Go, Tree!Reads, Tree!tables, Tree!histories
<1> QED BY <1>1, LevelRequestEnds

LEMMA FailLevels ==
  ASSUME TreeInv, NEW r \in Requests, Tree!Fail(r)
  PROVE  TreeInv'
<1>1. /\ treeReq' = [treeReq EXCEPT ![r] = Tree!Idle]
      /\ levels' = levels /\ lastId' = lastId /\ misplaced' = misplaced /\ overtaken' = overtaken
  BY Zenon DEF Tree!Fail, Tree!Done, Tree!Go, Tree!tables
<1>2. torn \subseteq torn'
  <2>1. torn' = IF treeReq[r].began
                THEN torn \cup {treeReq[r].id} \cup {treeReq[r].children[k].id : k \in DOMAIN treeReq[r].children}
                ELSE torn
    BY Zenon DEF Tree!Fail
  <2> QED BY <2>1
<1> QED BY <1>1, <1>2, LevelRequestEnds

\* A request about levels that has read goes on, and the tables stay.
LEMMA LevelReads ==
  ASSUME TreeInv, NEW r \in Requests, NEW q, Tree!Go(r, q), Tree!Reads
  PROVE  WentOn(r, q)
<1>1. treeReq' = [treeReq EXCEPT ![r] = q] BY Zenon DEF Tree!Go
<1>2. treeReq'[r] = q BY <1>1 DEF TreeInv, TreeTyped
<1>3. levels' = levels /\ cards' = cards /\ lastId' = lastId BY Zenon DEF Tree!Reads, Tree!tables
<1>4. torn' = torn /\ misplaced' = misplaced /\ overtaken' = overtaken BY Zenon DEF Tree!Reads, Tree!histories
<1> QED BY <1>1, <1>2, <1>3, <1>4 DEF WentOn

\* A request about levels begins, or goes on after it has read.
LEMMA LevelReadKeeps ==
  ASSUME TreeInv, NEW r \in Requests, NEW q \in TreeRequest, treeReq' = [treeReq EXCEPT ![r] = q],
         levels' = levels, lastId' = lastId, torn' = torn, misplaced' = misplaced,
         overtaken \ {r} \subseteq overtaken',
         q.kind = "clone" /\ q.at = "copy" => q.rows = <<>>,
         CarriesLevels(r)', KnowsLevels(r)'
  PROVE  TreeInv'
<1>1. lastId' \in lastId .. MaxLevels BY LevelConstants DEF TreeInv, TreeTyped
<1>2. q.kind = "clone" /\ q.at = "copy" => DOMAIN q.rows \subseteq CopyIds(r) \cup (lastId + 1 .. lastId')
  OBVIOUS
<1> QED BY <1>1, <1>2, LevelsStay

\* A request about levels is called with levels that are there.
LEMMA LevelCalls ==
  ASSUME TreeInv, NEW r \in Requests, Tree!Calls(r)
  PROVE  \E q \in TreeRequest : Tree!Call(r, q) /\ Called(q)
<1>1. Tree!Idle = [at |-> "idle", kind |-> "none", id |-> 0, to |-> 0, site |-> Nothing, status |-> "A",
                   machine |-> Nothing, copy |-> Nothing, old |-> 0, children |-> <<>>, todo |-> {},
                   rows |-> <<>>, clones |-> <<>>, saved |-> 0, began |-> FALSE]
  BY DEF Tree!Idle, Tree!NoLevel
<1>2. DOMAIN levels \cup {0} \subseteq Nat BY LevelsAre DEF TreeInv
<1>3. ASSUME NEW site \in Plants, NEW to \in DOMAIN levels \cup {0}, NEW m \in MachineIds \cup {Nothing},
             Tree!CallCreate(r, site, to, m)
      PROVE  \E q \in TreeRequest : Tree!Call(r, q) /\ Called(q)
  <2> DEFINE q == [Tree!Idle EXCEPT !.kind = "create", !.at = "check", !.site = site, !.to = to, !.machine = m]
  <2>1. Tree!Call(r, q) BY <1>3, Zenon DEF Tree!CallCreate
  <2>2. q \in TreeRequest BY <1>2, IdleTreeRequest, Zenon DEF TreeRequest, TreeStages, TreeKinds
  <2>3. q.at = "check" /\ q.kind = "create" /\ q.site = site /\ q.to = to BY <1>1
  <2> HIDE DEF q
  <2>4. Called(q) BY <2>3 DEF Called
  <2> QED BY <2>1, <2>2, <2>4
<1>4. ASSUME NEW id \in DOMAIN levels, NEW s \in {"A", "I"}, NEW m \in MachineIds \cup {Nothing},
             Tree!CallUpdate(r, id, s, m)
      PROVE  \E q \in TreeRequest : Tree!Call(r, q) /\ Called(q)
  <2> DEFINE q == [Tree!Idle EXCEPT !.kind = "update", !.at = "check", !.id = id, !.status = s, !.machine = m]
  <2>1. Tree!Call(r, q) BY <1>4, Zenon DEF Tree!CallUpdate
  <2>2. q \in TreeRequest BY <1>2, IdleTreeRequest, Zenon DEF TreeRequest, TreeStages, TreeKinds
  <2>3. q.at = "check" /\ q.kind = "update" /\ q.id = id BY <1>1
  <2> HIDE DEF q
  <2>4. Called(q) BY <2>3 DEF Called
  <2> QED BY <2>1, <2>2, <2>4
<1>5. ASSUME NEW id \in DOMAIN levels, NEW to \in DOMAIN levels \cup {0}, Tree!CallMove(r, id, to)
      PROVE  \E q \in TreeRequest : Tree!Call(r, q) /\ Called(q)
  <2> DEFINE q == [Tree!Idle EXCEPT !.kind = "move", !.at = "check", !.id = id, !.to = to]
  <2>1. Tree!Call(r, q) BY <1>5, Zenon DEF Tree!CallMove
  <2>2. q \in TreeRequest BY <1>2, IdleTreeRequest, Zenon DEF TreeRequest, TreeStages, TreeKinds
  <2>3. q.at = "check" /\ q.kind = "move" /\ q.id = id /\ q.to = to /\ q.old = 0 /\ q.saved = 0 BY <1>1
  <2> HIDE DEF q
  <2>4. Called(q) BY <2>3 DEF Called
  <2> QED BY <2>1, <2>2, <2>4
<1>6. ASSUME NEW id \in DOMAIN levels, NEW kind \in {"clone", "card"},
             Tree!Call(r, [Tree!Idle EXCEPT !.kind = kind, !.at = "check", !.id = id])
      PROVE  \E q \in TreeRequest : Tree!Call(r, q) /\ Called(q)
  <2> DEFINE q == [Tree!Idle EXCEPT !.kind = kind, !.at = "check", !.id = id]
  <2>1. Tree!Call(r, q) BY <1>6
  <2>2. q \in TreeRequest BY <1>2, IdleTreeRequest, Zenon DEF TreeRequest, TreeStages, TreeKinds
  <2>3. q.at = "check" /\ q.kind = kind /\ q.id = id /\ q.rows = <<>> /\ q.clones = <<>> BY <1>1
  <2> HIDE DEF q
  <2>4. Called(q) BY <2>3 DEF Called
  <2> QED BY <2>1, <2>2, <2>4
<1>7. ASSUME NEW id \in DOMAIN levels, Tree!CallClone(r, id) \/ Tree!CallCard(r, id)
      PROVE  \E q \in TreeRequest : Tree!Call(r, q) /\ Called(q)
  BY <1>6, <1>7, Zenon DEF Tree!CallClone, Tree!CallCard
<1> QED BY <1>3, <1>4, <1>5, <1>7, Zenon DEF Tree!Calls, Tree!NoLevel

LEMMA CallsOnLevelsKeep ==
  ASSUME TreeInv, NEW r \in Requests, Tree!Calls(r)
  PROVE  TreeInv'
<1>1. PICK q \in TreeRequest : Tree!Call(r, q) /\ Called(q) BY LevelCalls
<1>2. /\ treeReq' = [treeReq EXCEPT ![r] = q]
      /\ levels' = levels /\ lastId' = lastId /\ torn' = torn /\ misplaced' = misplaced
      /\ overtaken' = overtaken \ {r}
  BY <1>1, Zenon DEF Tree!Call, Tree!Go, Tree!tables
<1>3. treeReq'[r] = q BY <1>2 DEF TreeInv, TreeTyped
<1>4. CarriesLevels(r)' /\ KnowsLevels(r)' BY <1>1, <1>2, <1>3 DEF CarriesLevels, KnowsLevels, Called
<1> QED BY <1>1, <1>2, <1>4, LevelReadKeeps DEF Called

LEMMA CheckCreateKeeps ==
  ASSUME TreeInv, NEW r \in Requests, Tree!CheckCreate(r)
  PROVE  TreeInv'
<1> DEFINE q0 == treeReq[r]
           row == [site |-> q0.site, superior |-> q0.to, status |-> "A", deleted |-> FALSE, machine |-> q0.machine,
                   level |-> IF q0.to = Tree!NoLevel THEN 0 ELSE levels[q0.to].level + 1]
           q == [q0 EXCEPT !.at = "insert", !.copy = row]
<1>1. q0.kind = "create" /\ q0.at = "check" BY Zenon DEF Tree!CheckCreate, Tree!At
<1>2. CASE Tree!Refuse(r) BY <1>2, RefuseLevels
<1>3. CASE Tree!Go(r, q) /\ Tree!Reads
  <2>1. q0 \in TreeRequest /\ q0.site \in Plants /\ q0.to \in DOMAIN levels \cup {0}
    BY <1>1 DEF TreeInv, TreeTyped, CarriesLevels
  <2>2. row.level \in Nat BY <2>1, LevelsAre DEF TreeInv, Tree!NoLevel
  <2>3. row \in Tree!LevelType /\ row.superior = q0.to
    <3>1. q0.to \in Tree!Ids \cup {Tree!NoLevel} BY <2>1, LevelsAre DEF TreeInv, Tree!NoLevel
    <3> QED BY <2>1, <2>2, <3>1 DEF Tree!LevelType, TreeRequest
  <2> HIDE DEF row
  <2>4. q \in TreeRequest /\ q.kind = "create" /\ q.at = "insert" /\ q.copy = row /\ q.site = q0.site /\ q.to = q0.to
    <3>1. row \in CarriedType BY <2>3 DEF CarriedType
    <3> QED BY <1>1, <2>1, <3>1 DEF TreeRequest, TreeStages
  <2>5. WentOn(r, q) BY <1>3, LevelReads
  <2> HIDE DEF q
  <2>7. CarriesLevels(r)' /\ KnowsLevels(r)'
    BY <2>1, <2>3, <2>4, <2>5 DEF WentOn, CarriesLevels, KnowsLevels, Hangs
  <2> QED BY <2>4, <2>5, <2>7, LevelReadKeeps DEF WentOn
<1> QED BY <1>2, <1>3, Zenon DEF Tree!CheckCreate

\* New levels that hang on levels there are, or on one another in the order of their ids,
\* close no circle.
LEMMA NewLevelsHang ==
  ASSUME TreeInv, NEW rows, levels' = Tree!With(levels, rows), DOMAIN rows \in SUBSET (Nat \ {0}),
         DOMAIN rows \cap DOMAIN levels = {}, Bad \subseteq Bad',
         \A i \in DOMAIN rows : rows[i].superior \in DOMAIN levels \cup {0} \cup {j \in DOMAIN rows : j < i}
  PROVE  NoCleanCircle'
<1>1. /\ DOMAIN levels' = DOMAIN levels \cup DOMAIN rows
      /\ \A i \in DOMAIN rows : levels'[i] = rows[i]
      /\ \A i \in DOMAIN levels : levels'[i] = levels[i]
  BY DEF Tree!With
<1> SUFFICES ASSUME NEW S \in SUBSET DOMAIN levels', S # {}, LeadsRound(levels', S)
             PROVE  S \cap Bad' # {}
  BY DEF NoCleanCircle
<1>2. \A x \in S : levels'[x].superior \in S BY DEF LeadsRound
<1>3. LeadsRound(levels, S \cap DOMAIN levels)
  <2>1. \A l \in DOMAIN levels : levels[l].superior \in DOMAIN levels \cup {0} /\ 0 \notin DOMAIN levels
    BY LevelsAre DEF TreeInv
  <2>2. 0 \notin S \/ 0 \in DOMAIN rows BY <1>1, <2>1
  <2>3. ASSUME NEW x \in S \cap DOMAIN levels
        PROVE  levels[x].superior \in S \cap DOMAIN levels
    <3>1. levels[x].superior \in S BY <1>1, <1>2
    <3>2. levels[x].superior # 0
      <4>1. 0 \notin DOMAIN rows OBVIOUS
      <4> QED BY <2>2, <3>1, <4>1
    <3> QED BY <2>1, <3>1, <3>2
  <2> QED BY <2>3 DEF LeadsRound
<1>4. S \cap DOMAIN levels # {}
  <2> SUFFICES ASSUME S \subseteq DOMAIN rows PROVE FALSE BY <1>1
  <2>1. PICK m \in S : \A k \in S : m <= k BY Smallest
  <2>2. rows[m].superior \in S BY <1>1, <1>2, <2>1
  <2>3. rows[m].superior \in DOMAIN rows /\ rows[m].superior \notin DOMAIN levels /\ m \in DOMAIN rows
    BY <2>1, <2>2
  <2>4. rows[m].superior < m BY <2>3
  <2>5. m <= rows[m].superior /\ m \in Nat /\ rows[m].superior \in Nat BY <2>1, <2>2, <2>3
  <2> QED BY <2>4, <2>5
<1>5. (S \cap DOMAIN levels) \cap Bad # {} BY <1>3, <1>4 DEF TreeInv, NoCleanCircle
<1> QED BY <1>5

\* What a writer of levels does to the histories.
LEMMA WritesLevels ==
  ASSUME NEW r \in Requests, NEW rows, NEW ids, NEW below, Tree!WriteLevels(r, rows, ids, below)
  PROVE  /\ levels' = rows /\ overtaken' = overtaken \cup (Tree!Running \ {r})
         /\ torn \subseteq torn' /\ misplaced \subseteq misplaced' /\ Bad \subseteq Bad'
         /\ r \in overtaken => ids \subseteq Bad'
         /\ below \subseteq Bad'
<1>1. /\ levels' = rows
      /\ torn' = IF r \in overtaken THEN torn \cup ids ELSE torn
      /\ misplaced' = misplaced \cup below \cup {i \in ids : Tree!Unsound(rows, i)}
      /\ overtaken' = overtaken \cup (Tree!Running \ {r})
  BY Zenon DEF Tree!WriteLevels
<1> QED BY <1>1 DEF Bad

LEMMA InsertLevelKeeps ==
  ASSUME TreeInv, NEW r \in Requests, Tree!InsertLevel(r)
  PROVE  TreeInv'
<1> DEFINE n == lastId + 1
           copy == treeReq[r].copy
           row == [copy EXCEPT !.machine = IF @ = Nothing THEN n ELSE @]
           rows == [i \in {n} |-> row]
           q == Tree!Idle
<1>1. /\ treeReq[r].kind = "create" /\ treeReq[r].at = "insert"
      /\ n \in Tree!Ids /\ lastId' = n
      /\ Tree!WriteLevels(r, Tree!With(levels, rows), {n}, {})
      /\ treeReq' = [treeReq EXCEPT ![r] = q]
  BY Zenon DEF Tree!InsertLevel, Tree!At, Tree!NextId, Tree!Done, Tree!Go
<1>2. Hangs(copy) BY <1>1 DEF TreeInv, CarriesLevels
<1>3. row \in Tree!LevelType /\ row.superior \in DOMAIN levels \cup {0}
  BY <1>1, <1>2 DEF Hangs, Tree!LevelType
<1> HIDE DEF row
<1>4. /\ levels' = Tree!With(levels, rows)
      /\ overtaken' = overtaken \cup (Tree!Running \ {r})
      /\ torn \subseteq torn' /\ misplaced \subseteq misplaced' /\ Bad \subseteq Bad'
  BY <1>1, WritesLevels, Zenon
<1>5. lastId \in Nat /\ DOMAIN levels \subseteq 1 .. lastId /\ n \in 1 .. MaxLevels
  BY <1>1, LevelConstants DEF TreeInv, TreeTyped, Tree!Ids
<1>6. DOMAIN rows = {n} /\ n \notin DOMAIN levels /\ rows[n] = row /\ rows \in [{n} -> Tree!LevelType]
  BY <1>3, <1>5
<1>7. q \in TreeRequest /\ q.kind = "none" /\ q.at = "idle" BY IdleTreeRequest
<1> HIDE DEF rows, q
<1>8. NoCleanCircle'
  <2>1. DOMAIN rows \in SUBSET (Nat \ {0}) /\ DOMAIN rows \cap DOMAIN levels = {} BY <1>5, <1>6
  <2>2. \A i \in DOMAIN rows : rows[i].superior \in DOMAIN levels \cup {0} \cup {j \in DOMAIN rows : j < i}
    BY <1>3, <1>6
  <2> QED BY <1>4, <2>1, <2>2, NewLevelsHang
<1>9. treeReq'[r] = q BY <1>1 DEF TreeInv, TreeTyped
<1>10. CarriesLevels(r)' /\ KnowsLevels(r)' BY <1>7, <1>9 DEF CarriesLevels, KnowsLevels
<1>11. lastId' \in lastId .. MaxLevels /\ DOMAIN rows \subseteq lastId + 1 .. lastId'
  BY <1>1, <1>5, <1>6
<1>12. \A i \in DOMAIN rows : rows[i].superior \in DOMAIN levels \cup DOMAIN rows \cup {0}
  BY <1>3, <1>6
<1> HIDE DEF n
<1> QED BY <1>1, <1>4, <1>6, <1>7, <1>8, <1>10, <1>11, <1>12, LevelsWritten

LEMMA StatusKeepsRow ==
  ASSUME NEW row \in Tree!LevelType, NEW status \in {"A", "I"}
  PROVE  Tree!WithStatus(row, status) \in Tree!LevelType /\ Tree!WithStatus(row, status).superior = row.superior
BY DEF Tree!WithStatus, Tree!LevelType

LEMMA CheckUpdateKeeps ==
  ASSUME TreeInv, NEW r \in Requests, Tree!CheckUpdate(r)
  PROVE  TreeInv'
<1> DEFINE q0 == treeReq[r]
           id == q0.id
           row == [levels[id] EXCEPT !.machine = q0.machine]
           copy == Tree!WithStatus(row, q0.status)
           todo == IF q0.status # levels[id].status THEN Tree!FindAllChildLevels(levels, id) \ {id} ELSE {}
           q == [q0 EXCEPT !.at = "commit", !.copy = copy, !.todo = todo]
<1>1. q0.kind = "update" /\ q0.at = "check" BY Zenon DEF Tree!CheckUpdate, Tree!At
<1>2. CASE Tree!Refuse(r) BY <1>2, RefuseLevels
<1>3. CASE Tree!Go(r, q) /\ Tree!Reads
  <2>1. q0 \in TreeRequest /\ id \in DOMAIN levels /\ q0.status \in {"A", "I"} /\ q0.machine \in MachineIds \cup {Nothing}
    BY <1>1 DEF TreeInv, TreeTyped, CarriesLevels, TreeRequest
  <2>2. row \in Tree!LevelType /\ row.superior = levels[id].superior
    BY <2>1, LevelsAre DEF TreeInv, Tree!LevelType
  <2>3. copy \in Tree!LevelType /\ copy.superior = levels[id].superior
    <3> HIDE DEF row
    <3> QED BY <2>1, <2>2, StatusKeepsRow
  <2>4. todo \subseteq DOMAIN levels /\ todo \in SUBSET Nat
    BY <2>1, AllBelow, LevelsAre DEF TreeInv, TakesAlong
  <2> HIDE DEF copy, todo
  <2>5. q \in TreeRequest /\ q.kind = "update" /\ q.at = "commit" /\ q.copy = copy /\ q.todo = todo /\ q.id = id
    <3>1. copy \in CarriedType BY <2>3 DEF CarriedType
    <3> QED BY <1>1, <2>1, <2>4, <3>1 DEF TreeRequest, TreeStages
  <2>6. WentOn(r, q) BY <1>3, LevelReads
  <2>8. levels[id].superior \in DOMAIN levels \cup {0} BY <2>1, LevelsAre DEF TreeInv
  <2> HIDE DEF q, id
  <2>9. CarriesLevels(r)' /\ KnowsLevels(r)'
    BY <2>1, <2>3, <2>4, <2>5, <2>6, <2>8 DEF WentOn, CarriesLevels, KnowsLevels, Hangs
  <2> QED BY <2>5, <2>6, <2>9, LevelReadKeeps DEF WentOn
<1> QED BY <1>2, <1>3, Zenon DEF Tree!CheckUpdate

\* If the superiors of levels are rewritten where they were, circles are where they were.
LEMMA SameSuperiors ==
  ASSUME TreeInv, DOMAIN levels' = DOMAIN levels, Bad \subseteq Bad',
         \A l \in DOMAIN levels : levels'[l].superior = levels[l].superior \/ l \in Bad'
  PROVE  NoCleanCircle'
<1> SUFFICES ASSUME NEW S \in SUBSET DOMAIN levels, S # {}, LeadsRound(levels', S), S \cap Bad' = {}
             PROVE  FALSE
  BY DEF NoCleanCircle
<1>1. LeadsRound(levels, S) BY DEF LeadsRound
<1> QED BY <1>1 DEF TreeInv, NoCleanCircle

LEMMA CommitUpdateKeeps ==
  ASSUME TreeInv, NEW r \in Requests, Tree!CommitUpdate(r)
  PROVE  TreeInv'
<1> DEFINE q0 == treeReq[r]
           id == q0.id
           rows == [l \in {id} \cup q0.todo |-> IF l = id THEN q0.copy ELSE Tree!WithStatus(levels[l], q0.status)]
           q == Tree!Idle
<1>1. /\ q0.kind = "update" /\ q0.at = "commit"
      /\ Tree!WriteLevels(r, Tree!With(levels, rows), DOMAIN rows, {})
      /\ treeReq' = [treeReq EXCEPT ![r] = q]
      /\ lastId' = lastId
  BY Zenon DEF Tree!CommitUpdate, Tree!At, Tree!Done, Tree!Go
<1>2. id \in DOMAIN levels /\ Hangs(q0.copy) /\ q0.todo \subseteq DOMAIN levels /\ q0.status \in {"A", "I"}
  BY <1>1 DEF TreeInv, TreeTyped, CarriesLevels, TreeRequest
<1>3. r \notin overtaken => levels[id].superior = q0.copy.superior
  BY <1>1 DEF TreeInv, KnowsLevels
<1>4. DOMAIN rows = {id} \cup q0.todo
      /\ \A l \in DOMAIN rows :
           /\ rows[l] \in Tree!LevelType /\ rows[l].superior \in DOMAIN levels \cup {0}
           /\ l # id => rows[l].superior = levels[l].superior
  <2>1. \A l \in q0.todo : /\ Tree!WithStatus(levels[l], q0.status) \in Tree!LevelType
                           /\ Tree!WithStatus(levels[l], q0.status).superior = levels[l].superior
                           /\ levels[l].superior \in DOMAIN levels \cup {0}
    BY <1>2, StatusKeepsRow, LevelsAre DEF TreeInv
  <2> QED BY <1>2, <2>1 DEF Hangs
<1>5. rows[id] = q0.copy /\ rows \in [DOMAIN rows -> Tree!LevelType] BY <1>4
<1>6. q \in TreeRequest /\ q.kind = "none" /\ q.at = "idle" BY IdleTreeRequest
<1> HIDE DEF rows, q
<1>7. /\ levels' = Tree!With(levels, rows)
      /\ overtaken' = overtaken \cup (Tree!Running \ {r})
      /\ torn \subseteq torn' /\ misplaced \subseteq misplaced' /\ Bad \subseteq Bad'
      /\ r \in overtaken => DOMAIN rows \subseteq Bad'
  BY <1>1, WritesLevels, Zenon
<1>8. NoCleanCircle'
  <2>1. DOMAIN levels' = DOMAIN levels BY <1>2, <1>4, <1>7 DEF Tree!With
  <2>2. \A l \in DOMAIN levels : levels'[l] = IF l \in DOMAIN rows THEN rows[l] ELSE levels[l]
    BY <1>7 DEF Tree!With
  <2>3. \A l \in DOMAIN levels : levels'[l].superior = levels[l].superior \/ l \in Bad'
    BY <1>3, <1>4, <1>5, <1>7, <2>2
  <2> QED BY <1>7, <2>1, <2>3, SameSuperiors
<1>9. treeReq'[r] = q BY <1>1 DEF TreeInv, TreeTyped
<1>10. CarriesLevels(r)' /\ KnowsLevels(r)' BY <1>6, <1>9 DEF CarriesLevels, KnowsLevels
<1>11. lastId' \in lastId .. MaxLevels BY <1>1, LevelConstants DEF TreeInv, TreeTyped
<1>12. DOMAIN rows \subseteq DOMAIN levels /\ \A i \in DOMAIN rows : rows[i].superior \in DOMAIN levels \cup {0}
  BY <1>2, <1>4
<1> QED BY <1>1, <1>5, <1>6, <1>7, <1>8, <1>10, <1>11, <1>12, LevelsWritten

\* A finite set of numbers can be listed in its order.
LEMMA AscendingIs ==
  ASSUME NEW max \in Nat, NEW ids \in SUBSET (0 .. max)
  PROVE  /\ IsFiniteSet(ids) /\ Cardinality(ids) \in Nat
         /\ Tree!Ascending(ids) \in [1 .. Cardinality(ids) -> ids]
         /\ \A i, j \in 1 .. Cardinality(ids) : i < j => Tree!Ascending(ids)[i] < Tree!Ascending(ids)[j]
<1> DEFINE InOrder(S, s) == s \in [1 .. Cardinality(S) -> S]
                            /\ \A i, j \in 1 .. Cardinality(S) : i < j => s[i] < s[j]
           Odd == {n \in Nat : \E S \in SUBSET (0 .. max) : Cardinality(S) = n /\ ~ \E s : InOrder(S, s)}
<1>1. \A S \in SUBSET (0 .. max) : IsFiniteSet(S) /\ Cardinality(S) \in Nat
  <2>1. IsFiniteSet(0 .. max) BY FS_Interval
  <2> QED BY <2>1, FS_Subset, FS_CardinalityType
<1>2. Odd = {}
  <2> SUFFICES ASSUME Odd # {} PROVE FALSE OBVIOUS
  <2>1. PICK n \in Odd : \A k \in Odd : n <= k
    <3> HIDE DEF Odd
    <3>1. Odd \subseteq Nat BY DEF Odd
    <3> QED BY <3>1, Smallest
  <2>2. PICK S \in SUBSET (0 .. max) : Cardinality(S) = n /\ ~ \E s : InOrder(S, s) BY <2>1
  <2>3. CASE S = {}
    <3>1. Cardinality(S) = 0 BY <2>3, FS_EmptySet
    <3>2. InOrder(S, [i \in 1 .. 0 |-> 0]) BY <2>3, <3>1
    <3> QED BY <2>2, <3>2
  <2>4. CASE S # {}
    <3>1. PICK m \in S : \A k \in S : m >= k BY <2>4, Largest
    <3> DEFINE T == S \ {m}
    <3>2. Cardinality(T) = n - 1 /\ n - 1 \in Nat
      <4>1. Cardinality(T) = Cardinality(S) - 1 BY <1>1, FS_RemoveElement
      <4>2. Cardinality(T) \in Nat BY <1>1
      <4> QED BY <2>2, <4>1, <4>2
    <3>3. n - 1 \notin Odd BY <2>1, <3>2
    <3>4. PICK t : InOrder(T, t) BY <3>2, <3>3
    <3> DEFINE s == [i \in 1 .. n |-> IF i = n THEN m ELSE t[i]]
    <3>5. \A i \in 1 .. n : i # n => i \in 1 .. n - 1 /\ s[i] = t[i] /\ t[i] \in T
      <4>1. n \in Nat /\ t \in [1 .. n - 1 -> T] BY <2>1, <3>2, <3>4
      <4> HIDE DEF T
      <4> QED BY <4>1
    <3>6. s \in [1 .. n -> S] BY <3>5
    <3>7. ASSUME NEW i \in 1 .. n, NEW j \in 1 .. n, i < j
          PROVE  s[i] < s[j]
      <4>1. s[i] = t[i] /\ t[i] \in T /\ i \in 1 .. n - 1 BY <3>5, <3>7
      <4>2. CASE j = n
        <5> HIDE DEF InOrder
        <5>1. t[i] \in S /\ t[i] # m /\ s[j] = m BY <4>1, <4>2
        <5>2. m \in Int /\ \A x \in S : x \in Int OBVIOUS
        <5> HIDE DEF s, T
        <5>3. m >= t[i] BY <3>1, <5>1
        <5> QED
          <6>1. t[i] \in Int BY <5>1, <5>2
          <6>2. \A a, b \in Int : a >= b /\ b # a => b < a OBVIOUS
          <6>3. t[i] < m BY <5>1, <5>2, <5>3, <6>1, <6>2
          <6> QED BY <4>1, <5>1, <6>3
      <4>3. CASE j # n
        <5>1. s[j] = t[j] /\ j \in 1 .. n - 1 BY <3>5, <4>3
        <5> QED BY <3>2, <3>4, <3>7, <4>1, <5>1
      <4> QED BY <4>2, <4>3
    <3>8. InOrder(S, s) BY <2>2, <3>6, <3>7
    <3> QED BY <2>2, <3>8
  <2> QED BY <2>3, <2>4
<1>3. \E s : InOrder(ids, s)
  <2>1. Cardinality(ids) \notin Odd /\ Cardinality(ids) \in Nat BY <1>1, <1>2
  <2> QED BY <2>1
<1>4. Tree!Ascending(ids) = CHOOSE s \in [1 .. Cardinality(ids) -> ids] :
                              \A i, j \in 1 .. Cardinality(ids) : i < j => s[i] < s[j]
  BY TreeCardinality, Zenon DEF Tree!Ascending
<1>5. InOrder(ids, Tree!Ascending(ids)) BY <1>3, <1>4, Zenon
<1> QED BY <1>1, <1>5

LEMMA CheckMoveKeeps ==
  ASSUME TreeInv, NEW r \in Requests, Tree!CheckMove(r)
  PROVE  TreeInv'
<1> DEFINE q0 == treeReq[r]
           row == levels[q0.id]
           q == [q0 EXCEPT !.at = "children", !.copy = row, !.old = row.superior]
<1>1. q0.kind = "move" /\ q0.at = "check" BY Zenon DEF Tree!CheckMove, Tree!At
<1>2. CASE Tree!Refuse(r) BY <1>2, RefuseLevels
<1>3. CASE Tree!Go(r, q) /\ Tree!Reads
  <2>1. q0 \in TreeRequest /\ q0.id \in DOMAIN levels /\ q0.to \in DOMAIN levels \cup {0} /\ q0.saved = 0
    BY <1>1 DEF TreeInv, TreeTyped, CarriesLevels
  <2>2. row \in Tree!LevelType /\ row.superior \in DOMAIN levels \cup {0} /\ row.superior \in Nat
    BY <2>1, LevelsAre DEF TreeInv
  <2> DEFINE old == row.superior
  <2> HIDE DEF row, old
  <2>3. q \in TreeRequest /\ q.kind = "move" /\ q.at = "children" /\ q.copy = row /\ q.old = old
        /\ q.id = q0.id /\ q.to = q0.to /\ q.saved = q0.saved
    <3>1. row \in CarriedType BY <2>2 DEF CarriedType
    <3> QED BY <1>1, <2>1, <2>2, <3>1 DEF TreeRequest, TreeStages, old
  <2>4. WentOn(r, q) BY <1>3, LevelReads
  <2> HIDE DEF q
  <2>6. levels[q.id].superior = q.old /\ Hangs(q.copy) /\ q.old \in DOMAIN levels \cup {0}
    BY <2>2, <2>3 DEF Hangs, row, old
  <2>7. CarriesLevels(r)' /\ KnowsLevels(r)'
    BY <2>1, <2>3, <2>4, <2>6 DEF WentOn, CarriesLevels, KnowsLevels, Hangs
  <2> QED BY <2>3, <2>4, <2>7, LevelReadKeeps DEF WentOn
<1> QED BY <1>2, <1>3, Zenon DEF Tree!CheckMove

LEMMA ReadChildrenKeeps ==
  ASSUME TreeInv, NEW r \in Requests, Tree!ReadChildren(r)
  PROVE  TreeInv'
<1> DEFINE q0 == treeReq[r]
           id == q0.id
           C == Tree!ChildrenOf(levels, id)
           its == Tree!Ascending(C)
           children == [k \in DOMAIN its |-> [id |-> its[k], row |-> levels[its[k]]]]
           todo == UNION {Tree!FindAllChildLevels(levels, c) : c \in C}
           copy == [q0.copy EXCEPT !.superior = q0.to,
                                   !.level = IF q0.to = Tree!NoLevel THEN 0 ELSE levels[q0.to].level + 1]
           q == [q0 EXCEPT !.at = "save", !.children = children, !.todo = todo, !.copy = copy]
<1>1. q0.kind = "move" /\ q0.at = "children" BY Zenon DEF Tree!ReadChildren, Tree!At
<1>2. CASE Tree!Fail(r) BY <1>2, FailLevels
<1>3. CASE (\A c \in C : ~Tree!InCircle(levels, c)) /\ Tree!Go(r, q) /\ Tree!Reads
  <2>1. q0 \in TreeRequest /\ id \in DOMAIN levels /\ q0.to \in DOMAIN levels \cup {0}
        /\ q0.old \in DOMAIN levels \cup {0} /\ Hangs(q0.copy) /\ q0.saved = 0
    BY <1>1 DEF TreeInv, TreeTyped, CarriesLevels
  <2>2. C \subseteq DOMAIN levels /\ \A c \in C : levels[c].superior = id BY DEF Tree!ChildrenOf
  <2>3. its \in Seq(C)
    <3>1. lastId \in Nat /\ C \subseteq 0 .. lastId BY <2>2, LevelsAre DEF TreeInv, TreeTyped
    <3>2. its \in [1 .. Cardinality(C) -> C] /\ Cardinality(C) \in Nat BY <3>1, AscendingIs
    <3> HIDE DEF its, C
    <3> QED BY <3>2
  <2>4. children \in Seq(ChildType)
        /\ \A k \in DOMAIN children :
             children[k].id \in C /\ children[k].row = levels[children[k].id]
    <3> HIDE DEF its, C
    <3>1. \A k \in DOMAIN its : its[k] \in C BY <2>3
    <3>2. \A k \in DOMAIN its : [id |-> its[k], row |-> levels[its[k]]] \in ChildType
      BY <2>2, <3>1, LevelsAre DEF ChildType, TreeInv
    <3>3. DOMAIN its = 1 .. Len(its) /\ Len(its) \in Nat BY <2>3
    <3> QED BY <3>1, <3>2, <3>3
  <2>5. todo \in SUBSET Nat
    <3>1. \A c \in C : Tree!FindAllChildLevels(levels, c) \subseteq DOMAIN levels
      BY <2>2, AllBelow, LevelsAre DEF TreeInv, TakesAlong
    <3> HIDE DEF C
    <3> QED BY <3>1, LevelsAre DEF TreeInv
  <2>6. copy \in Tree!LevelType /\ copy.superior = q0.to
    <3> DEFINE depth == IF q0.to = Tree!NoLevel THEN 0 ELSE levels[q0.to].level + 1
    <3>1. depth \in Nat BY <2>1, LevelsAre DEF TreeInv, Tree!NoLevel
    <3>2. q0.to \in Tree!Ids \cup {Tree!NoLevel} BY <2>1, LevelsAre DEF TreeInv, Tree!NoLevel
    <3> HIDE DEF depth
    <3>3. [q0.copy EXCEPT !.superior = q0.to, !.level = depth] \in Tree!LevelType
          /\ [q0.copy EXCEPT !.superior = q0.to, !.level = depth].superior = q0.to
      BY <2>1, <3>1, <3>2 DEF Hangs, Tree!LevelType
    <3> QED BY <3>3 DEF depth
  <2>7. r \notin overtaken =>
          /\ q0.old \notin Tree!FindAllChildLevels(levels, id)
          /\ id \notin C
    <3> SUFFICES ASSUME r \notin overtaken
                 PROVE  /\ q0.old \notin Tree!FindAllChildLevels(levels, id)
                        /\ id \notin C
      OBVIOUS
    <3>1. levels[id].superior = q0.old BY <1>1 DEF TreeInv, KnowsLevels
    <3>2. IsFiniteSet(DOMAIN levels) BY LevelsAre DEF TreeInv
    <3>3. q0.old \notin Tree!FindAllChildLevels(levels, id)
      BY <1>3, <2>1, <3>1, <3>2, NotBelowItself
    <3>4. id \in Tree!FindAllChildLevels(levels, id) BY <2>1, <3>2, AllBelow
    <3> QED BY <2>2, <3>1, <3>3, <3>4
  <2>8. WentOn(r, q) BY <1>3, LevelReads
  <2> HIDE DEF copy, children, todo
  <2>9. q \in TreeRequest /\ q.kind = "move" /\ q.at = "save" /\ q.copy = copy /\ q.children = children
        /\ q.old = q0.old /\ q.id = id /\ q.to = q0.to /\ q.saved = 0
    <3>1. copy \in CarriedType /\ children \in ListedType
      BY <2>4, <2>6 DEF CarriedType, ListedType
    <3> QED BY <1>1, <2>1, <2>5, <3>1 DEF TreeRequest, TreeStages
  <2>10. treeReq'[r] = q BY <2>8 DEF WentOn, TreeInv, TreeTyped
  <2>11. \A k \in DOMAIN children :
           /\ children[k].id \in C /\ children[k].id \in DOMAIN levels /\ Hangs(children[k].row)
           /\ children[k].row.superior = id
    BY <2>2, <2>4, LevelsAre DEF TreeInv, Hangs
  <2> HIDE DEF q, id
  <2>12. CarriesLevels(r)' BY <2>1, <2>4, <2>6, <2>8, <2>9, <2>10, <2>11 DEF WentOn, CarriesLevels, Hangs
  <2>13. KnowsLevels(r)'
    <3> SUFFICES ASSUME r \notin overtaken
                 PROVE  /\ q.copy.superior = q.to
                        /\ q.old \notin Tree!FindAllChildLevels(levels, q.id)
                        /\ \A k \in DOMAIN q.children :
                             /\ q.children[k].id \in Tree!ChildrenOf(levels, q.id) \ {q.id}
                             /\ q.children[k].row.superior = q.id
      BY <2>8, <2>9, <2>10 DEF WentOn, KnowsLevels
    <3> QED BY <2>6, <2>7, <2>9, <2>11
  <2> QED BY <2>8, <2>9, <2>12, <2>13, LevelReadKeeps DEF WentOn
<1> QED BY <1>2, <1>3, Zenon DEF Tree!ReadChildren

\* A circle that is cut off from what takes along what is below was there before.
LEMMA CutOff ==
  ASSUME TreeInv, Bad \subseteq Bad', NEW D, TakesAlong(levels, D),
         NEW S \in SUBSET DOMAIN levels, LeadsRound(levels', S), S \cap Bad' = {}, S \ D # {},
         \A x \in S \ D : levels'[x].superior = levels[x].superior
  PROVE  FALSE
<1> DEFINE T == S \ D
<1>1. ASSUME NEW x \in T
      PROVE  levels[x].superior \in T
  BY DEF LeadsRound, TakesAlong
<1>2. T # {} /\ T \in SUBSET DOMAIN levels /\ LeadsRound(levels, T) /\ T \cap Bad = {}
  BY <1>1 DEF LeadsRound
<1> QED BY <1>2 DEF TreeInv, NoCleanCircle

\* A circle of which no superior has been written was there before.
LEMMA CircleWasThere ==
  ASSUME TreeInv, Bad \subseteq Bad',
         NEW S \in SUBSET DOMAIN levels, S # {}, LeadsRound(levels', S), S \cap Bad' = {},
         \A x \in S : levels'[x].superior = levels[x].superior
  PROVE  FALSE
<1>1. LeadsRound(levels, S) BY DEF LeadsRound
<1> QED BY <1>1 DEF TreeInv, NoCleanCircle

LEMMA SaveMovedKeeps ==
  ASSUME TreeInv, NEW r \in Requests, Tree!SaveMoved(r)
  PROVE  TreeInv'
<1> DEFINE q0 == treeReq[r]
           id == q0.id
           D == Tree!FindAllChildLevels(levels, id)
           below == IF q0.to \in D THEN {id} ELSE {}
           rows == [i \in {id} |-> q0.copy]
           at == IF q0.children = <<>> THEN "query" ELSE "reassign"
           q == [q0 EXCEPT !.at = at, !.began = TRUE]
<1>1. /\ q0.kind = "move" /\ q0.at = "save"
      /\ Tree!WriteLevels(r, Tree!With(levels, rows), {id}, below)
      /\ treeReq' = [treeReq EXCEPT ![r] = q]
      /\ lastId' = lastId
  BY Zenon DEF Tree!SaveMoved, Tree!At, Tree!Go
<1>2. /\ q0 \in TreeRequest /\ id \in DOMAIN levels /\ q0.to \in DOMAIN levels \cup {0}
      /\ q0.old \in DOMAIN levels \cup {0} /\ Hangs(q0.copy) /\ q0.saved = 0 /\ q0.children \in Seq(ChildType)
      /\ \A k \in DOMAIN q0.children : q0.children[k].id \in DOMAIN levels /\ Hangs(q0.children[k].row)
  BY <1>1 DEF TreeInv, TreeTyped, CarriesLevels
<1>3. r \notin overtaken =>
        /\ q0.copy.superior = q0.to
        /\ q0.old \notin D
        /\ \A k \in DOMAIN q0.children :
             /\ q0.children[k].id \in Tree!ChildrenOf(levels, id) \ {id}
             /\ q0.children[k].row.superior = id
  BY <1>1 DEF TreeInv, KnowsLevels
<1>4. id \in D /\ TakesAlong(levels, D) BY <1>2, AllBelow, LevelsAre DEF TreeInv
<1>5. /\ levels' = Tree!With(levels, rows)
      /\ overtaken' = overtaken \cup (Tree!Running \ {r})
      /\ torn \subseteq torn' /\ misplaced \subseteq misplaced' /\ Bad \subseteq Bad'
      /\ r \in overtaken => id \in Bad'
      /\ q0.to \in D => id \in Bad'
  <2> HIDE DEF D, rows
  <2> QED BY <1>1, WritesLevels
<1>6. /\ DOMAIN levels' = DOMAIN levels
      /\ levels'[id].superior = q0.copy.superior
      /\ \A l \in DOMAIN levels : l # id => levels'[l] = levels[l]
  BY <1>2, <1>5 DEF Tree!With
<1>7. at \in {"query", "reassign"} /\ (at = "reassign" => q0.saved < Len(q0.children)) BY <1>2
<1>8. DOMAIN rows = {id} /\ rows[id] = q0.copy OBVIOUS
<1> HIDE DEF D, rows, at
<1>9. /\ q \in TreeRequest /\ q.kind = "move" /\ q.at = at /\ q.copy = q0.copy /\ q.children = q0.children
      /\ q.old = q0.old /\ q.id = id /\ q.to = q0.to /\ q.saved = q0.saved
  BY <1>1, <1>2, <1>7 DEF TreeRequest, TreeStages
<1>10. treeReq'[r] = q BY <1>1 DEF TreeInv, TreeTyped
<1> HIDE DEF q, id
<1>11. CarriesLevels(r)' BY <1>2, <1>6, <1>7, <1>9, <1>10 DEF CarriesLevels, Hangs
<1>12. KnowsLevels(r)'
  <2> SUFFICES ASSUME r \notin overtaken, at = "reassign"
               PROVE  /\ TakesAlong(levels', D) /\ id \in D /\ q0.old \notin D /\ D \subseteq DOMAIN levels
                      /\ \A k \in DOMAIN q0.children :
                           q0.children[k].id \in D \ {id} /\ q0.children[k].row.superior = id
                      /\ id \in Bad' \/ (q0.to \notin D /\ levels'[id].superior = q0.to)
    BY <1>5, <1>6, <1>7, <1>9, <1>10 DEF KnowsLevels
  <2>1. TakesAlong(levels', D) BY <1>4, <1>6 DEF TakesAlong
  <2>2. \A c \in Tree!ChildrenOf(levels, id) : c \in D BY <1>4 DEF TakesAlong, Tree!ChildrenOf
  <2> QED BY <1>3, <1>4, <1>5, <1>6, <2>1, <2>2 DEF TakesAlong
<1>13. NoCleanCircle'
  <2> SUFFICES ASSUME NEW S \in SUBSET DOMAIN levels, S # {}, LeadsRound(levels', S), S \cap Bad' = {}
               PROVE  FALSE
    BY <1>6 DEF NoCleanCircle
  <2>1. CASE id \notin S
    <3>1. \A x \in S : levels'[x].superior = levels[x].superior BY <1>6, <2>1
    <3> QED BY <1>5, <3>1, CircleWasThere
  <2>2. CASE id \in S
    <3>1. r \notin overtaken /\ q0.to \notin D BY <1>5, <2>2
    <3>2. q0.to \in S BY <1>3, <1>6, <2>2, <3>1 DEF LeadsRound
    <3>3. S \ D # {} /\ \A x \in S \ D : levels'[x].superior = levels[x].superior
      BY <1>4, <1>6, <3>1, <3>2
    <3> QED BY <1>4, <1>5, <3>3, CutOff
  <2> QED BY <2>1, <2>2
<1>14. lastId' \in lastId .. MaxLevels BY <1>1, LevelConstants DEF TreeInv, TreeTyped
<1>15. rows \in [DOMAIN rows -> Tree!LevelType] /\ DOMAIN rows \subseteq DOMAIN levels
       /\ \A i \in DOMAIN rows : rows[i].superior \in DOMAIN levels \cup {0}
  BY <1>2, <1>8 DEF Hangs, rows
<1> QED BY <1>1, <1>5, <1>9, <1>11, <1>12, <1>13, <1>14, <1>15, LevelsWritten

LEMMA ReassignKeeps ==
  ASSUME TreeInv, NEW r \in Requests, Tree!Reassign(r)
  PROVE  TreeInv'
<1> DEFINE q0 == treeReq[r]
           id == q0.id
           its == Tree!ChildrenOf(levels, id)
           rows == [l \in its |-> [levels[l] EXCEPT !.superior = q0.old]]
           q == [q0 EXCEPT !.at = "depths"]
<1>1. /\ q0.kind = "move" /\ q0.at = "reassign"
      /\ Tree!WriteLevels(r, Tree!With(levels, rows), its, {})
      /\ treeReq' = [treeReq EXCEPT ![r] = q]
      /\ lastId' = lastId
  BY Zenon DEF Tree!Reassign, Tree!At, Tree!Go
<1>2. /\ q0 \in TreeRequest /\ id \in DOMAIN levels /\ q0.to \in DOMAIN levels \cup {0}
      /\ q0.old \in DOMAIN levels \cup {0} /\ Hangs(q0.copy) /\ q0.children \in Seq(ChildType)
      /\ q0.saved < Len(q0.children)
      /\ \A k \in DOMAIN q0.children : q0.children[k].id \in DOMAIN levels /\ Hangs(q0.children[k].row)
  BY <1>1 DEF TreeInv, TreeTyped, CarriesLevels
<1>3. r \notin overtaken =>
        \E D \in SUBSET DOMAIN levels :
          /\ TakesAlong(levels, D) /\ id \in D /\ q0.old \notin D
          /\ \A k \in DOMAIN q0.children :
               q0.children[k].id \in D \ {id} /\ q0.children[k].row.superior = id
          /\ id \in Bad \/ (q0.to \notin D /\ levels[id].superior = q0.to)
  BY <1>1 DEF TreeInv, KnowsLevels
<1>4. its \subseteq DOMAIN levels /\ \A l \in DOMAIN levels : l \in its <=> levels[l].superior = id
  BY DEF Tree!ChildrenOf
<1>5. DOMAIN rows = its
      /\ \A l \in its : rows[l] \in Tree!LevelType /\ rows[l].superior = q0.old
  <2>1. q0.old \in Tree!Ids \cup {Tree!NoLevel} BY <1>2, LevelsAre DEF TreeInv, Tree!NoLevel
  <2>2. ASSUME NEW l \in its
        PROVE  [levels[l] EXCEPT !.superior = q0.old] \in Tree!LevelType
               /\ [levels[l] EXCEPT !.superior = q0.old].superior = q0.old
    <3>1. levels[l] \in Tree!LevelType BY <1>4, LevelsAre DEF TreeInv
    <3> QED BY <2>1, <3>1 DEF Tree!LevelType
  <2> QED BY <2>2
<1> HIDE DEF rows, its
<1>6. /\ levels' = Tree!With(levels, rows)
      /\ overtaken' = overtaken \cup (Tree!Running \ {r})
      /\ torn \subseteq torn' /\ misplaced \subseteq misplaced' /\ Bad \subseteq Bad'
      /\ r \in overtaken => its \subseteq Bad'
  BY <1>1, WritesLevels
<1>7. /\ DOMAIN levels' = DOMAIN levels
      /\ \A l \in its : levels'[l].superior = q0.old
      /\ \A l \in DOMAIN levels : l \notin its => levels'[l] = levels[l]
  BY <1>4, <1>5, <1>6 DEF Tree!With
<1>8. /\ q \in TreeRequest /\ q.kind = "move" /\ q.at = "depths" /\ q.copy = q0.copy /\ q.children = q0.children
      /\ q.old = q0.old /\ q.id = id /\ q.to = q0.to /\ q.saved = q0.saved
  BY <1>1, <1>2 DEF TreeRequest, TreeStages
<1>9. treeReq'[r] = q BY <1>1 DEF TreeInv, TreeTyped
<1> HIDE DEF q, id
<1>10. CarriesLevels(r)' BY <1>2, <1>7, <1>8, <1>9 DEF CarriesLevels, Hangs
<1>11. ASSUME NEW D \in SUBSET DOMAIN levels, TakesAlong(levels, D), id \in D, q0.old \notin D
       PROVE  TakesAlong(levels', D) /\ its \subseteq D
  BY <1>4, <1>7, <1>11 DEF TakesAlong
<1>12. KnowsLevels(r)'
  <2> SUFFICES ASSUME r \notin overtaken
               PROVE  \E D \in SUBSET DOMAIN levels :
                        /\ TakesAlong(levels', D) /\ id \in D /\ q0.old \notin D
                        /\ \A k \in DOMAIN q0.children :
                             q0.children[k].id \in D \ {id} /\ q0.children[k].row.superior = id
                        /\ id \in Bad' \/ (q0.to \notin D /\ levels'[id].superior = q0.to)
    BY <1>6, <1>7, <1>8, <1>9 DEF KnowsLevels
  <2>1. PICK D \in SUBSET DOMAIN levels :
          /\ TakesAlong(levels, D) /\ id \in D /\ q0.old \notin D
          /\ \A k \in DOMAIN q0.children :
               q0.children[k].id \in D \ {id} /\ q0.children[k].row.superior = id
          /\ id \in Bad \/ (q0.to \notin D /\ levels[id].superior = q0.to)
    BY <1>3
  <2>2. id \in Bad' \/ (q0.to \notin D /\ levels'[id].superior = q0.to)
    <3>1. CASE id \in Bad BY <1>6, <3>1
    <3>2. CASE q0.to \notin D /\ levels[id].superior = q0.to
      <4>1. id \notin its BY <1>2, <1>4, <2>1, <3>2
      <4> QED BY <1>2, <1>7, <3>2, <4>1
    <3> QED BY <2>1, <3>1, <3>2
  <2>3. TakesAlong(levels', D) BY <1>11, <2>1
  <2> QED BY <2>1, <2>2, <2>3
<1>13. NoCleanCircle'
  <2> SUFFICES ASSUME NEW S \in SUBSET DOMAIN levels, S # {}, LeadsRound(levels', S), S \cap Bad' = {}
               PROVE  FALSE
    BY <1>7 DEF NoCleanCircle
  <2>1. CASE S \cap its = {}
    <3>1. \A x \in S : levels'[x].superior = levels[x].superior BY <1>7, <2>1
    <3> QED BY <1>6, <3>1, CircleWasThere
  <2>2. CASE S \cap its # {}
    <3>1. r \notin overtaken BY <1>6, <2>2
    <3>2. PICK D \in SUBSET DOMAIN levels : TakesAlong(levels, D) /\ id \in D /\ q0.old \notin D
      BY <1>3, <3>1
    <3>3. q0.old \in S BY <1>7, <2>2 DEF LeadsRound
    <3>4. S \ D # {} /\ \A x \in S \ D : levels'[x].superior = levels[x].superior
      BY <1>7, <1>11, <3>2, <3>3
    <3> QED BY <1>6, <3>2, <3>4, CutOff
  <2> QED BY <2>1, <2>2
<1>14. lastId' \in lastId .. MaxLevels BY <1>1, LevelConstants DEF TreeInv, TreeTyped
<1>15. rows \in [DOMAIN rows -> Tree!LevelType] /\ DOMAIN rows \subseteq DOMAIN levels
       /\ \A i \in DOMAIN rows : rows[i].superior \in DOMAIN levels \cup {0}
  <2>1. rows = [l \in its |-> rows[l]] BY <1>5 DEF rows
  <2> QED BY <1>2, <1>4, <1>5, <2>1
<1> QED BY <1>1, <1>6, <1>8, <1>10, <1>12, <1>13, <1>14, <1>15, LevelsWritten

LEMMA SaveChildKeeps ==
  ASSUME TreeInv, NEW r \in Requests, Tree!SaveChild(r)
  PROVE  TreeInv'
<1> DEFINE q0 == treeReq[r]
           id == q0.id
           k == q0.saved + 1
           child == q0.children[k]
           depth == IF Tree!Same(q0.old, Tree!NoLevel) THEN 0 ELSE levels[q0.old].level + 1
           row == [child.row EXCEPT !.level = depth]
           rows == [i \in {child.id} |-> row]
           at == IF k = Len(q0.children) THEN "query" ELSE q0.at
           q == [q0 EXCEPT !.saved = k, !.at = at]
<1>1. q0.kind = "move" /\ q0.at = "depths" BY Zenon DEF Tree!SaveChild, Tree!At
<1>2. CASE Tree!Fail(r) BY <1>2, FailLevels
<1>3. CASE /\ Tree!Same(q0.old, Tree!NoLevel) \/ q0.old \in DOMAIN levels
           /\ Tree!WriteLevels(r, Tree!With(levels, rows), {child.id}, {})
           /\ treeReq' = [treeReq EXCEPT ![r] = [q0 EXCEPT !.saved = k, !.at = IF k = Len(q0.children) THEN "query" ELSE @]]
           /\ lastId' = lastId
  <2>1. /\ q0 \in TreeRequest /\ id \in DOMAIN levels /\ q0.to \in DOMAIN levels \cup {0}
        /\ q0.old \in DOMAIN levels \cup {0} /\ Hangs(q0.copy) /\ q0.children \in Seq(ChildType)
        /\ q0.saved < Len(q0.children)
        /\ \A n \in DOMAIN q0.children : q0.children[n].id \in DOMAIN levels /\ Hangs(q0.children[n].row)
    BY <1>1 DEF TreeInv, TreeTyped, CarriesLevels
  <2>2. r \notin overtaken =>
          \E D \in SUBSET DOMAIN levels :
            /\ TakesAlong(levels, D) /\ id \in D /\ q0.old \notin D
            /\ \A n \in DOMAIN q0.children :
                 q0.children[n].id \in D \ {id} /\ q0.children[n].row.superior = id
            /\ id \in Bad \/ (q0.to \notin D /\ levels[id].superior = q0.to)
    BY <1>1 DEF TreeInv, KnowsLevels
  <2>3. q0.saved \in Nat BY <2>1 DEF TreeRequest
  <2>4. k \in DOMAIN q0.children /\ k \in Nat BY <2>1, <2>3
  <2>5. treeReq' = [treeReq EXCEPT ![r] = q] BY <1>3
  <2>6. at \in {"query", "depths"} /\ (at = "depths" => k < Len(q0.children))
    <3>1. Len(q0.children) \in Nat /\ k <= Len(q0.children) BY <2>1, <2>3
    <3> QED BY <1>1, <2>4, <3>1
  <2>7. child.id \in DOMAIN levels /\ Hangs(child.row) BY <2>1, <2>4
  <2>8. depth \in Nat BY <1>3, LevelsAre DEF TreeInv
  <2> HIDE DEF depth, at, k
  <2>9. row \in Tree!LevelType /\ row.superior = child.row.superior
    BY <2>7, <2>8 DEF Hangs, Tree!LevelType
  <2>10. row.superior \in DOMAIN levels \cup {0} BY <2>7, <2>9 DEF Hangs
  <2> HIDE DEF row
  <2>11. rows = [i \in {child.id} |-> row] /\ DOMAIN rows = {child.id} /\ rows[child.id] = row
    OBVIOUS
  <2> DEFINE c == child.id
  <2> HIDE DEF rows
  <2>12. /\ levels' = Tree!With(levels, rows)
         /\ overtaken' = overtaken \cup (Tree!Running \ {r})
         /\ torn \subseteq torn' /\ misplaced \subseteq misplaced' /\ Bad \subseteq Bad'
         /\ r \in overtaken => c \in Bad'
    <3> HIDE DEF child
    <3> QED BY <1>3, WritesLevels
  <2>13. /\ DOMAIN levels' = DOMAIN levels
         /\ levels'[c].superior = child.row.superior
         /\ \A l \in DOMAIN levels : l # c => levels'[l] = levels[l]
    BY <2>7, <2>9, <2>11, <2>12 DEF Tree!With
  <2>14. /\ q \in TreeRequest /\ q.kind = "move" /\ q.at = at /\ q.copy = q0.copy /\ q.children = q0.children
         /\ q.old = q0.old /\ q.id = id /\ q.to = q0.to /\ q.saved = k
    <3>1. at \in TreeStages BY <2>6 DEF TreeStages
    <3> QED BY <1>1, <2>1, <2>4, <3>1 DEF TreeRequest
  <2>15. treeReq'[r] = q BY <2>5 DEF TreeInv, TreeTyped
  <2>16. \A n \in DOMAIN q0.children : n = k => q0.children[n].id = c /\ q0.children[n].row = child.row
    OBVIOUS
  <2> HIDE DEF q, id, c, child
  <2>17. CarriesLevels(r)' BY <2>1, <2>6, <2>13, <2>14, <2>15 DEF CarriesLevels, Hangs
  <2>18. KnowsLevels(r)'
    <3> SUFFICES ASSUME r \notin overtaken
                 PROVE  \E D \in SUBSET DOMAIN levels :
                          /\ TakesAlong(levels', D) /\ id \in D /\ q0.old \notin D
                          /\ \A n \in DOMAIN q0.children :
                               q0.children[n].id \in D \ {id} /\ q0.children[n].row.superior = id
                          /\ id \in Bad' \/ (q0.to \notin D /\ levels'[id].superior = q0.to)
      BY <2>6, <2>12, <2>13, <2>14, <2>15 DEF KnowsLevels
    <3>1. PICK D \in SUBSET DOMAIN levels :
            /\ TakesAlong(levels, D) /\ id \in D /\ q0.old \notin D
            /\ \A n \in DOMAIN q0.children :
                 q0.children[n].id \in D \ {id} /\ q0.children[n].row.superior = id
            /\ id \in Bad \/ (q0.to \notin D /\ levels[id].superior = q0.to)
      BY <2>2
    <3>2. c \in D \ {id} BY <2>4, <2>16, <3>1
    <3>3. TakesAlong(levels', D) BY <2>13, <3>1, <3>2 DEF TakesAlong
    <3>4. levels'[id] = levels[id] BY <2>1, <2>13, <3>2
    <3> QED BY <2>12, <3>1, <3>3, <3>4
  <2>19. NoCleanCircle'
    <3> SUFFICES ASSUME NEW S \in SUBSET DOMAIN levels, S # {}, LeadsRound(levels', S), S \cap Bad' = {}
                 PROVE  FALSE
      BY <2>13 DEF NoCleanCircle
    <3>1. CASE c \notin S
      <4>1. \A x \in S : levels'[x].superior = levels[x].superior BY <2>13, <3>1
      <4> QED BY <2>12, <4>1, CircleWasThere
    <3>2. CASE c \in S
      <4>1. r \notin overtaken BY <2>12, <3>2
      <4>2. PICK D \in SUBSET DOMAIN levels :
              /\ TakesAlong(levels, D) /\ id \in D
              /\ \A n \in DOMAIN q0.children :
                   q0.children[n].id \in D \ {id} /\ q0.children[n].row.superior = id
              /\ id \in Bad \/ (q0.to \notin D /\ levels[id].superior = q0.to)
        BY <2>2, <4>1
      <4>3. c \in D \ {id} /\ child.row.superior = id BY <2>4, <2>16, <4>2
      <4>4. id \in S BY <2>13, <3>2, <4>3 DEF LeadsRound
      <4>5. q0.to \in S /\ q0.to \notin D BY <2>1, <2>12, <2>13, <4>2, <4>3, <4>4 DEF LeadsRound
      <4>6. S \ D # {} /\ \A x \in S \ D : levels'[x].superior = levels[x].superior
        BY <2>13, <4>3, <4>5
      <4> QED BY <2>12, <4>2, <4>6, CutOff
    <3> QED BY <3>1, <3>2
  <2>20. lastId' \in lastId .. MaxLevels BY <1>3, LevelConstants DEF TreeInv, TreeTyped
  <2>21. rows \in [DOMAIN rows -> Tree!LevelType] /\ DOMAIN rows \subseteq DOMAIN levels
         /\ \A i \in DOMAIN rows : rows[i].superior \in DOMAIN levels \cup {0}
    BY <2>7, <2>9, <2>10, <2>11 DEF c
  <2> QED BY <2>5, <2>6, <2>12, <2>14, <2>17, <2>18, <2>19, <2>20, <2>21, LevelsWritten
<1> QED
  <2>1. ~(~Tree!Same(q0.old, Tree!NoLevel) /\ q0.old \notin DOMAIN levels) =>
          Tree!Same(q0.old, Tree!NoLevel) \/ q0.old \in DOMAIN levels
    OBVIOUS
  <2> QED BY <1>2, <1>3, <2>1, Zenon DEF Tree!SaveChild, Tree!Go

LEMMA ReadAffectedKeeps ==
  ASSUME TreeInv, NEW r \in Requests, Tree!ReadAffected(r)
  PROVE  TreeInv'
<1> DEFINE q0 == treeReq[r]
           id == q0.id
           todo == q0.todo \cup Tree!FindAllChildLevels(levels, id)
           rows == Tree!SiteMap(q0.copy.site)
           q == [q0 EXCEPT !.at = "cards", !.todo = todo, !.rows = rows]
<1>1. q0.kind = "move" /\ q0.at = "query" BY Zenon DEF Tree!ReadAffected, Tree!At
<1>2. CASE Tree!Fail(r) BY <1>2, FailLevels
<1>3. CASE /\ treeReq' = [treeReq EXCEPT ![r] = [q0 EXCEPT
                !.at = "cards", !.todo = @ \cup Tree!FindAllChildLevels(levels, id), !.rows = rows]]
           /\ Tree!Reads
  <2>1. /\ q0 \in TreeRequest /\ id \in DOMAIN levels /\ q0.to \in DOMAIN levels \cup {0}
        /\ q0.old \in DOMAIN levels \cup {0} /\ Hangs(q0.copy)
    BY <1>1 DEF TreeInv, TreeTyped, CarriesLevels
  <2>2. todo \in SUBSET Nat
    <3>1. Tree!FindAllChildLevels(levels, id) \subseteq DOMAIN levels
      BY <2>1, AllBelow, LevelsAre DEF TreeInv, TakesAlong
    <3>2. q0.todo \in SUBSET Nat BY <2>1 DEF TreeRequest
    <3> QED BY <3>1, <3>2, LevelsAre DEF TreeInv
  <2>3. rows \in CopiesType
    <3> DEFINE Its == {i \in DOMAIN levels : levels[i].site = q0.copy.site}
    <3>1. rows = [i \in Its |-> levels[i]] BY Zenon DEF Tree!SiteMap
    <3>2. rows \in [Its -> Tree!LevelType] /\ Its \in SUBSET Nat BY <3>1, LevelsAre DEF TreeInv
    <3> HIDE DEF rows, Its
    <3> QED BY <3>2 DEF CopiesType
  <2>4. treeReq' = [treeReq EXCEPT ![r] = q] BY <1>3
  <2>5. levels' = levels /\ lastId' = lastId /\ torn' = torn /\ misplaced' = misplaced /\ overtaken' = overtaken
    BY <1>3, Zenon DEF Tree!Reads, Tree!tables, Tree!histories
  <2> HIDE DEF todo, rows
  <2>6. /\ q \in TreeRequest /\ q.kind = "move" /\ q.at = "cards" /\ q.copy = q0.copy
        /\ q.old = q0.old /\ q.id = id /\ q.to = q0.to
    BY <1>1, <2>1, <2>2, <2>3 DEF TreeRequest, TreeStages
  <2>7. treeReq'[r] = q BY <2>4 DEF TreeInv, TreeTyped
  <2> HIDE DEF q, id
  <2>8. CarriesLevels(r)' /\ KnowsLevels(r)'
    BY <2>1, <2>5, <2>6, <2>7 DEF CarriesLevels, KnowsLevels, Hangs
  <2> QED BY <2>4, <2>5, <2>6, <2>8, LevelReadKeeps
<1> QED BY <1>2, <1>3, Zenon DEF Tree!ReadAffected, Tree!Go

LEMMA UpdateCardsKeeps ==
  ASSUME TreeInv, NEW r \in Requests, Tree!UpdateCardsForLevel(r)
  PROVE  TreeInv'
<1> DEFINE q0 == treeReq[r]
           l == CHOOSE l \in q0.todo : \A m \in q0.todo : l <= m
           circling == [q0 EXCEPT !.at = "circling"]
           left == [q0 EXCEPT !.todo = @ \ {l}]
<1>1. /\ q0.kind = "move" /\ q0.at = "cards"
      /\ levels' = levels /\ lastId' = lastId /\ misplaced' = misplaced /\ overtaken' = overtaken
      /\ torn' = IF r \in overtaken THEN torn \cup q0.todo ELSE torn
      /\ \/ treeReq' = [treeReq EXCEPT ![r] = Tree!Idle]
         \/ treeReq' = [treeReq EXCEPT ![r] = circling]
         \/ treeReq' = [treeReq EXCEPT ![r] = left]
  BY Zenon DEF Tree!UpdateCardsForLevel, Tree!At, Tree!Done, Tree!Go
<1>2. torn \subseteq torn' /\ lastId' \in lastId .. MaxLevels
  BY <1>1, LevelConstants DEF TreeInv, TreeTyped
<1>3. /\ q0 \in TreeRequest /\ q0.id \in DOMAIN levels /\ q0.to \in DOMAIN levels \cup {0}
      /\ q0.old \in DOMAIN levels \cup {0} /\ Hangs(q0.copy)
  BY <1>1 DEF TreeInv, TreeTyped, CarriesLevels
<1>4. ASSUME NEW q \in TreeRequest, treeReq' = [treeReq EXCEPT ![r] = q], q.kind = "move",
             q.at \in {"cards", "circling"}, q.copy = q0.copy, q.old = q0.old, q.id = q0.id, q.to = q0.to
      PROVE  TreeInv'
  <2>1. treeReq'[r] = q BY <1>4 DEF TreeInv, TreeTyped
  <2>2. CarriesLevels(r)' /\ KnowsLevels(r)'
    BY <1>1, <1>3, <1>4, <2>1 DEF CarriesLevels, KnowsLevels, Hangs
  <2> QED BY <1>1, <1>2, <1>4, <2>2, LevelsStay
<1>5. CASE treeReq' = [treeReq EXCEPT ![r] = Tree!Idle] BY <1>1, <1>2, <1>5, LevelRequestEnds
<1>6. CASE treeReq' = [treeReq EXCEPT ![r] = circling]
  <2>1. /\ circling \in TreeRequest /\ circling.kind = "move" /\ circling.at = "circling" /\ circling.copy = q0.copy
        /\ circling.old = q0.old /\ circling.id = q0.id /\ circling.to = q0.to
    BY <1>1, <1>3 DEF TreeRequest, TreeStages
  <2> HIDE DEF circling
  <2> QED BY <1>4, <1>6, <2>1
<1>7. CASE treeReq' = [treeReq EXCEPT ![r] = left]
  <2>1. /\ left \in TreeRequest /\ left.kind = "move" /\ left.at = "cards" /\ left.copy = q0.copy
        /\ left.old = q0.old /\ left.id = q0.id /\ left.to = q0.to
    <3> HIDE DEF l
    <3> QED BY <1>1, <1>3 DEF TreeRequest
  <2> HIDE DEF left
  <2> QED BY <1>4, <1>7, <2>1
<1> QED BY <1>1, <1>5, <1>6, <1>7

LEMMA CheckCloneKeeps ==
  ASSUME TreeInv, NEW r \in Requests, Tree!CheckClone(r)
  PROVE  TreeInv'
<1> DEFINE q0 == treeReq[r]
           id == q0.id
           row == levels[id]
           depth == IF Tree!Same(row.superior, Tree!NoLevel) \/ row.level = 0 THEN 0 ELSE row.level - 1
           first == Tree!Pending(id, row, row.superior, depth)
           q == [q0 EXCEPT !.at = "copy", !.children = <<first>>]
<1>1. q0.kind = "clone" /\ q0.at = "check" BY Zenon DEF Tree!CheckClone, Tree!At
<1>2. CASE Tree!Refuse(r) BY <1>2, RefuseLevels
<1>3. CASE Tree!Go(r, q) /\ Tree!Reads
  <2>1. q0 \in TreeRequest /\ id \in DOMAIN levels /\ q0.rows = <<>>
    BY <1>1 DEF TreeInv, TreeTyped, CarriesLevels
  <2>2. row \in Tree!LevelType /\ row.superior \in DOMAIN levels \cup {0} /\ row.level \in Nat /\ id \in Nat /\ row.superior \in Nat
    BY <2>1, LevelsAre DEF TreeInv
  <2>3. depth \in Nat BY <2>2
  <2> DEFINE to == row.superior
  <2> HIDE DEF depth
  <2>4. first \in CopyingType /\ first.id = id /\ first.to = to
    BY <2>2, <2>3 DEF CopyingType, Tree!Pending
  <2>5. to \in DOMAIN levels \cup {0} BY <2>2
  <2> HIDE DEF first, to, row
  <2>6. <<first>> \in Seq(CopyingType) /\ <<first>> \in ListedType
        /\ \A k \in DOMAIN <<first>> : <<first>>[k] = first
    BY <2>4 DEF ListedType
  <2> DEFINE list == <<first>>
  <2> HIDE DEF list
  <2>7. q = [q0 EXCEPT !.at = "copy", !.children = list] BY DEF list
  <2>8. WentOn(r, q) BY <1>3, LevelReads
  <2> HIDE DEF q
  <2>9. list \in ListedType BY <2>6 DEF list
  <2>10. q \in TreeRequest /\ q.kind = "clone" /\ q.at = "copy" /\ q.children = list /\ q.id = id /\ q.rows = <<>>
    BY <1>1, <2>1, <2>7, <2>9 DEF TreeRequest, TreeStages
  <2>11. treeReq'[r] = q BY <2>8 DEF WentOn, TreeInv, TreeTyped
  <2> HIDE DEF id
  <2>12. list \in Seq(CopyingType) /\ \A k \in DOMAIN list : list[k].id \in DOMAIN levels /\ list[k].to \in DOMAIN levels \cup {0}
    BY <2>1, <2>4, <2>5, <2>6 DEF list
  <2>13. DOMAIN q.rows = {} BY <2>10
  <2>14. CarriesLevels(r)' /\ KnowsLevels(r)'
    BY <2>1, <2>8, <2>10, <2>11, <2>12, <2>13 DEF WentOn, CarriesLevels, KnowsLevels
  <2> QED BY <2>8, <2>10, <2>14, LevelReadKeeps DEF WentOn
<1> QED BY <1>2, <1>3, Zenon DEF Tree!CheckClone

LEMMA Prepended ==
  ASSUME NEW S, NEW s \in Seq(S), NEW t \in Seq(S), t # <<>>
  PROVE  /\ s \o Tail(t) \in Seq(S)
         /\ \A k \in DOMAIN (s \o Tail(t)) :
              \/ \E i \in DOMAIN s : (s \o Tail(t))[k] = s[i]
              \/ \E i \in DOMAIN t : (s \o Tail(t))[k] = t[i]
<1>1. Tail(t) \in Seq(S) /\ Len(t) \in Nat \ {0} /\ Len(Tail(t)) = Len(t) - 1
      /\ \A i \in 1 .. Len(Tail(t)) : Tail(t)[i] = t[i + 1]
  BY HeadTailProperties
<1> DEFINE u == Tail(t)
<1>2. u \in Seq(S) /\ Len(u) = Len(t) - 1 /\ Len(t) \in Nat /\ \A i \in 1 .. Len(u) : u[i] = t[i + 1]
  BY <1>1
<1> HIDE DEF u
<1>3. /\ s \o u \in Seq(S) /\ Len(s \o u) = Len(s) + Len(u)
      /\ \A i \in 1 .. Len(s) + Len(u) : (s \o u)[i] = IF i <= Len(s) THEN s[i] ELSE u[i - Len(s)]
  BY <1>2, ConcatProperties
<1>4. ASSUME NEW k \in DOMAIN (s \o u)
      PROVE  \/ \E i \in DOMAIN s : (s \o u)[k] = s[i]
             \/ \E i \in DOMAIN t : (s \o u)[k] = t[i]
  <2>1. k \in 1 .. Len(s) + Len(u) /\ Len(s) \in Nat /\ Len(u) \in Nat BY <1>2, <1>3
  <2>2. CASE k <= Len(s) BY <1>3, <2>1, <2>2
  <2>3. CASE k > Len(s)
    <3>1. k - Len(s) \in 1 .. Len(u) /\ k - Len(s) + 1 \in 1 .. Len(t) BY <1>2, <2>1, <2>3
    <3>2. (s \o u)[k] = t[k - Len(s) + 1] BY <1>2, <1>3, <2>1, <2>3, <3>1
    <3>3. k - Len(s) + 1 \in DOMAIN t BY <3>1
    <3> QED BY <3>2, <3>3
  <2> QED BY <2>1, <2>2, <2>3
<1> QED BY <1>3, <1>4 DEF u

LEMMA CloneNextKeeps ==
  ASSUME TreeInv, NEW r \in Requests, Tree!CloneNext(r)
  PROVE  TreeInv'
<1> DEFINE q0 == treeReq[r]
           n == lastId + 1
           p == Head(q0.children)
           C == Tree!ChildrenOf(levels, p.id)
           its == Tree!Ascending(C)
           copy == Tree!CopyOf(p, n)
           rows == Tree!With(q0.rows, [i \in {n} |-> copy])
           clones == Tree!With(q0.clones, [i \in {p.id} |-> n])
           new == [k \in DOMAIN its |-> Tree!Pending(its[k], levels[its[k]], n, copy.level)]
           children == new \o Tail(q0.children)
           q == [q0 EXCEPT !.rows = rows, !.clones = clones, !.children = children]
<1>1. /\ q0.kind = "clone" /\ q0.at = "copy" /\ q0.children # <<>>
      /\ n \in Tree!Ids /\ lastId' = n
      /\ treeReq' = [treeReq EXCEPT ![r] = q]
      /\ levels' = levels /\ torn' = torn /\ misplaced' = misplaced /\ overtaken' = overtaken
  BY Zenon DEF Tree!CloneNext, Tree!At, Tree!Go, Tree!NextId, Tree!histories
<1>2. /\ q0 \in TreeRequest /\ q0.id \in DOMAIN levels /\ q0.children \in Seq(CopyingType)
      /\ \A k \in DOMAIN q0.children :
           /\ q0.children[k].id \in DOMAIN levels
           /\ q0.children[k].to \in DOMAIN levels \cup {0} \cup DOMAIN q0.rows
      /\ \A i \in DOMAIN q0.rows :
           q0.rows[i].superior \in DOMAIN levels \cup {0} \cup {j \in DOMAIN q0.rows : j < i}
  BY <1>1 DEF TreeInv, TreeTyped, CarriesLevels
<1>3. lastId \in Nat /\ n \in 1 .. MaxLevels /\ n \in Nat /\ DOMAIN levels \subseteq 1 .. lastId
  BY <1>1, LevelConstants DEF TreeInv, TreeTyped, Tree!Ids
<1>4. DOMAIN q0.rows \subseteq 1 .. lastId BY <1>1 DEF TreeInv, CopiesApart, CopyIds, Tree!At
<1>5. p \in CopyingType /\ p.id \in DOMAIN levels /\ p.to \in DOMAIN levels \cup {0} \cup DOMAIN q0.rows
  <2>1. p = q0.children[1] /\ 1 \in DOMAIN q0.children BY <1>1, <1>2
  <2> QED BY <1>2, <2>1
<1> HIDE DEF p, n
<1>6. copy \in Tree!LevelType /\ copy.superior = p.to /\ copy.level \in Nat
  <2> DEFINE level == IF Tree!Same(p.to, Tree!NoLevel) THEN 0 ELSE p.depth + 1
             machine == IF p.row.machine = Nothing THEN n ELSE Nothing
  <2>1. p.row \in Tree!LevelType /\ level \in Nat BY <1>5 DEF CopyingType
  <2>2. machine \in MachineIds \cup Tree!Ids \cup {Nothing} /\ p.to \in Tree!Ids \cup {Tree!NoLevel}
    BY <1>1, <1>3, <1>4, <1>5, LevelsAre, LevelConstants DEF Tree!Ids, Tree!NoLevel, TreeInv, TreeTyped
  <2>3. copy = [p.row EXCEPT !.superior = p.to, !.level = level, !.deleted = FALSE, !.machine = machine]
    BY <2>1 DEF Tree!CopyOf, Tree!LevelType
  <2> HIDE DEF level, machine, copy
  <2> QED BY <2>1, <2>2, <2>3 DEF Tree!LevelType
<1> HIDE DEF copy
<1>7. /\ DOMAIN rows = DOMAIN q0.rows \cup {n} /\ n \notin DOMAIN q0.rows
      /\ rows[n] = copy /\ \A i \in DOMAIN q0.rows : rows[i] = q0.rows[i]
      /\ rows = [i \in DOMAIN rows |-> rows[i]]
  BY <1>3, <1>4 DEF Tree!With, n
<1>8. rows \in CopiesType
  <2>1. \A i \in DOMAIN q0.rows : q0.rows[i] \in Tree!LevelType
    <3>1. q0.rows = <<>> \/ \E D \in SUBSET Nat : q0.rows \in [D -> Tree!LevelType]
      BY <1>2 DEF TreeRequest, CopiesType
    <3>2. CASE q0.rows = <<>> BY <3>2
    <3> QED BY <3>1, <3>2
  <2>2. DOMAIN rows \in SUBSET Nat BY <1>3, <1>4, <1>7
  <2> HIDE DEF rows
  <2>3. rows \in [DOMAIN rows -> Tree!LevelType] BY <1>6, <1>7, <2>1
  <2> QED BY <2>2, <2>3 DEF CopiesType
<1>9. clones \in ClonesType
  <2>1. q0.clones = <<>> \/ \E D \in SUBSET Nat : q0.clones \in [D -> Nat]
    BY <1>2 DEF TreeRequest, ClonesType
  <2>2. DOMAIN q0.clones \in SUBSET Nat /\ \A i \in DOMAIN q0.clones : q0.clones[i] \in Nat
    <3>1. CASE q0.clones = <<>> BY <3>1
    <3> QED BY <2>1, <3>1
  <2>3. DOMAIN clones = DOMAIN q0.clones \cup {p.id} /\ clones = [i \in DOMAIN clones |-> clones[i]]
        /\ \A i \in DOMAIN clones : clones[i] = IF i = p.id THEN n ELSE q0.clones[i]
    BY DEF Tree!With
  <2> HIDE DEF clones
  <2>4. clones \in [DOMAIN clones -> Nat] /\ DOMAIN clones \in SUBSET Nat
    BY <1>3, <1>5, <2>2, <2>3 DEF CopyingType
  <2> QED BY <2>4 DEF ClonesType
<1>10. new \in Seq(CopyingType)
       /\ \A k \in DOMAIN new : new[k].id \in DOMAIN levels /\ new[k].to = n
  <2>1. C \subseteq DOMAIN levels BY DEF Tree!ChildrenOf
  <2>2. its \in Seq(C)
    <3>1. lastId \in Nat /\ C \subseteq 0 .. lastId BY <1>3, <2>1
    <3>2. its \in [1 .. Cardinality(C) -> C] /\ Cardinality(C) \in Nat BY <3>1, AscendingIs
    <3> HIDE DEF its, C
    <3> QED BY <3>2
  <2> HIDE DEF its, C
  <2>3. ASSUME NEW k \in DOMAIN its
        PROVE  LET next == Tree!Pending(its[k], levels[its[k]], n, copy.level)
               IN  next \in CopyingType /\ next.id \in DOMAIN levels /\ next.to = n
    <3>1. its[k] \in DOMAIN levels /\ its[k] \in Nat /\ levels[its[k]] \in Tree!LevelType
      BY <2>1, <2>2, LevelsAre DEF TreeInv
    <3> QED BY <1>3, <1>6, <3>1 DEF Tree!Pending, CopyingType
  <2>4. DOMAIN its = 1 .. Len(its) /\ Len(its) \in Nat BY <2>2
  <2> QED BY <2>3, <2>4
<1> HIDE DEF new, rows, clones
<1>11. children \in Seq(CopyingType)
       /\ \A k \in DOMAIN children :
            \/ \E i \in DOMAIN new : children[k] = new[i]
            \/ \E i \in DOMAIN q0.children : children[k] = q0.children[i]
  <2> DEFINE t == q0.children
  <2>1. t \in Seq(CopyingType) /\ t # <<>> BY <1>1, <1>2
  <2> HIDE DEF t
  <2>2. /\ new \o Tail(t) \in Seq(CopyingType)
        /\ \A k \in DOMAIN (new \o Tail(t)) :
             \/ \E i \in DOMAIN new : (new \o Tail(t))[k] = new[i]
             \/ \E i \in DOMAIN t : (new \o Tail(t))[k] = t[i]
    BY SMTT(20), <1>10, <2>1, Prepended
  <2> QED BY <2>2 DEF t
<1> HIDE DEF children
<1>12. q \in TreeRequest /\ q.kind = "clone" /\ q.at = "copy" /\ q.children = children /\ q.id = q0.id /\ q.rows = rows
  <2>1. children \in ListedType BY <1>11 DEF ListedType
  <2> QED BY <1>1, <1>2, <1>8, <1>9, <2>1 DEF TreeRequest
<1>13. treeReq'[r] = q BY <1>1 DEF TreeInv, TreeTyped
<1> HIDE DEF q
<1>14. \A k \in DOMAIN children :
         /\ children[k].id \in DOMAIN levels
         /\ children[k].to \in DOMAIN levels \cup {0} \cup DOMAIN rows
  BY <1>2, <1>7, <1>10, <1>11
<1>15. \A i \in DOMAIN rows : rows[i].superior \in DOMAIN levels \cup {0} \cup {j \in DOMAIN rows : j < i}
  <2>1. \A i \in DOMAIN q0.rows : i < n BY <1>3, <1>4 DEF n
  <2>2. rows[n].superior \in DOMAIN levels \cup {0} \cup {j \in DOMAIN rows : j < n}
    BY <1>5, <1>6, <1>7, <2>1
  <2> QED BY <1>2, <1>7, <2>2
<1>16. CarriesLevels(r)' /\ KnowsLevels(r)'
  BY <1>1, <1>2, <1>11, <1>12, <1>13, <1>14, <1>15 DEF CarriesLevels, KnowsLevels
<1>17. lastId' \in lastId .. MaxLevels /\ DOMAIN q.rows \subseteq CopyIds(r) \cup (lastId + 1 .. lastId')
  <2>1. lastId' \in lastId .. MaxLevels /\ n \in lastId + 1 .. lastId'
    BY <1>1, <1>3, LevelConstants DEF n
  <2>2. CopyIds(r) = DOMAIN q0.rows BY <1>1 DEF CopyIds, Tree!At
  <2> QED BY <1>7, <1>12, <2>1, <2>2
<1> QED BY <1>1, <1>12, <1>16, <1>17, LevelsStay

LEMMA CommitCloneKeeps ==
  ASSUME TreeInv, NEW r \in Requests, Tree!CommitClone(r)
  PROVE  TreeInv'
<1> DEFINE q0 == treeReq[r]
           rows == q0.rows
           q == Tree!Idle
<1>1. /\ q0.kind = "clone" /\ q0.at = "copy"
      /\ Tree!WriteLevels(r, Tree!With(levels, rows), DOMAIN rows, {})
      /\ treeReq' = [treeReq EXCEPT ![r] = q]
      /\ lastId' = lastId
  BY Zenon DEF Tree!CommitClone, Tree!At, Tree!Done, Tree!Go
<1>2. \A i \in DOMAIN rows : rows[i].superior \in DOMAIN levels \cup {0} \cup {j \in DOMAIN rows : j < i}
  BY <1>1 DEF TreeInv, CarriesLevels
<1>3. rows \in [DOMAIN rows -> Tree!LevelType]
  <2>1. q0 \in TreeRequest BY DEF TreeInv, TreeTyped
  <2>2. rows = <<>> \/ \E D \in SUBSET Nat : rows \in [D -> Tree!LevelType]
    BY <2>1 DEF TreeRequest, CopiesType
  <2>3. CASE rows = <<>> BY <2>3
  <2>4. CASE \E D \in SUBSET Nat : rows \in [D -> Tree!LevelType] BY <2>4
  <2> QED BY <2>2, <2>3, <2>4
<1>4. CopyIds(r) = DOMAIN rows /\ DOMAIN rows \subseteq (1 .. lastId) \ DOMAIN levels /\ lastId \in Nat
  BY <1>1, LevelsAre DEF TreeInv, CopiesApart, CopyIds, Tree!At
<1>5. /\ levels' = Tree!With(levels, rows)
      /\ overtaken' = overtaken \cup (Tree!Running \ {r})
      /\ torn \subseteq torn' /\ misplaced \subseteq misplaced' /\ Bad \subseteq Bad'
  BY <1>1, WritesLevels
<1>6. NoCleanCircle'
  <2>1. DOMAIN rows \in SUBSET (Nat \ {0}) /\ DOMAIN rows \cap DOMAIN levels = {} BY <1>4
  <2> HIDE DEF rows
  <2> QED BY <1>2, <1>5, <2>1, NewLevelsHang
<1>7. q \in TreeRequest /\ q.kind = "none" /\ q.at = "idle" BY IdleTreeRequest
<1> HIDE DEF q
<1>8. treeReq'[r] = q BY <1>1 DEF TreeInv, TreeTyped
<1>9. CarriesLevels(r)' /\ KnowsLevels(r)' BY <1>7, <1>8 DEF CarriesLevels, KnowsLevels
<1>10. lastId' \in lastId .. MaxLevels BY <1>1, LevelConstants DEF TreeInv, TreeTyped
<1>11. /\ DOMAIN rows \subseteq DOMAIN levels \cup CopyIds(r) \cup (lastId + 1 .. lastId')
       /\ \A i \in DOMAIN rows : rows[i].superior \in DOMAIN levels \cup DOMAIN rows \cup {0}
       /\ ~(q.kind = "clone" /\ q.at = "copy")
  BY <1>2, <1>4, <1>7
<1> HIDE DEF rows
<1> QED BY <1>1, <1>3, <1>5, <1>6, <1>7, <1>9, <1>10, <1>11, LevelsWritten

LEMMA CheckCardKeeps ==
  ASSUME TreeInv, NEW r \in Requests, Tree!CheckCard(r)
  PROVE  TreeInv'
<1> DEFINE q0 == treeReq[r]
           id == q0.id
           card == Tree!OnCreation(levels, id)
           found == [q0 EXCEPT !.at = "insert", !.copy = card]
           lost == [q0 EXCEPT !.at = "circling"]
<1>1. q0.kind = "card" /\ q0.at = "check" BY Zenon DEF Tree!CheckCard, Tree!At
<1>2. q0 \in TreeRequest /\ id \in DOMAIN levels BY <1>1 DEF TreeInv, TreeTyped, CarriesLevels
<1>3. CASE Tree!Refuse(r) BY <1>3, RefuseLevels
<1>4. ASSUME NEW q \in TreeRequest, Tree!Go(r, q), Tree!Reads, q.kind = "card", q.id = id,
             q.at = "circling" \/ (q.at = "insert" /\ q.copy \in Tree!CardType /\ q.copy.node \in DOMAIN levels)
      PROVE  TreeInv'
  <2>1. WentOn(r, q) BY <1>4, LevelReads
  <2>3. CarriesLevels(r)' /\ KnowsLevels(r)'
    BY <1>2, <1>4, <2>1 DEF WentOn, CarriesLevels, KnowsLevels
  <2> QED BY <1>4, <2>1, <2>3, LevelReadKeeps DEF WentOn
<1>5. CASE Tree!Go(r, lost) /\ Tree!Reads
  <2>1. lost \in TreeRequest /\ lost.kind = "card" /\ lost.id = id /\ lost.at = "circling"
    BY <1>1, <1>2 DEF TreeRequest, TreeStages
  <2> HIDE DEF lost
  <2> QED BY <1>4, <1>5, <2>1
<1>6. CASE Tree!Go(r, found) /\ Tree!Reads
  <2> DEFINE chain == Tree!ChainOf(levels, id)
             root == levels[id].superior = Tree!NoLevel
             superior == IF root THEN id ELSE levels[id].superior
  <2>1. chain \in Seq(DOMAIN levels) /\ chain # <<>> BY <1>2, ChainClimbs, LevelsAre DEF TreeInv
  <2> HIDE DEF chain
  <2>2. Tree!Last(chain) \in DOMAIN levels /\ Tree!Reverse(chain) \in Seq(DOMAIN levels)
    <3>1. Len(chain) \in Nat /\ Len(chain) >= 1 BY <2>1
    <3>2. Tree!Last(chain) \in DOMAIN levels BY <2>1, <3>1 DEF Tree!Last
    <3>3. Tree!Reverse(chain) = [i \in 1 .. Len(chain) |-> chain[(Len(chain) - i) + 1]]
      BY Zenon DEF Tree!Reverse
    <3>4. \A i \in 1 .. Len(chain) : (Len(chain) - i) + 1 \in 1 .. Len(chain) BY <3>1
    <3>5. Tree!Reverse(chain) \in [1 .. Len(chain) -> DOMAIN levels] BY <2>1, <3>3, <3>4
    <3> QED BY <3>1, <3>2, <3>5
  <2>3. superior \in Tree!Ids \cup {Tree!NoLevel} /\ levels[id].level \in Nat /\ id \in Tree!Ids
    BY <1>2, LevelsAre DEF TreeInv, Tree!NoLevel
  <2>4. DOMAIN levels \subseteq Tree!Ids BY LevelsAre DEF TreeInv
  <2>5. Tree!Reverse(chain) \in Seq(Tree!Ids) BY <2>2, <2>4
  <2>6. card = [node |-> id, area |-> Tree!Last(chain), path |-> Tree!Reverse(chain),
                level |-> levels[id].level, superior |-> superior]
    BY DEF Tree!OnCreation, Tree!Place, Tree!SuperiorsOf, chain
  <2> HIDE DEF superior, card
  <2>7. card \in Tree!CardType /\ card.node \in DOMAIN levels
    BY <1>2, <2>2, <2>3, <2>4, <2>5, <2>6 DEF Tree!CardType
  <2>8. found \in TreeRequest /\ found.kind = "card" /\ found.id = id /\ found.at = "insert" /\ found.copy = card
    <3>1. card \in CarriedType BY <2>7 DEF CarriedType
    <3> QED BY <1>1, <1>2, <3>1 DEF TreeRequest, TreeStages
  <2> HIDE DEF found
  <2> QED BY <1>4, <1>6, <2>7, <2>8
<1> QED BY <1>3, <1>5, <1>6, Zenon DEF Tree!CheckCard

LEMMA InsertTreeCardKeeps ==
  ASSUME TreeInv, NEW r \in Requests, Tree!InsertCard(r)
  PROVE  TreeInv'
<1>1. /\ treeReq' = [treeReq EXCEPT ![r] = Tree!Idle]
      /\ levels' = levels /\ lastId' = lastId /\ misplaced' = misplaced /\ overtaken' = overtaken
      /\ torn' = IF r \in overtaken THEN torn \cup {treeReq[r].id} ELSE torn
  BY Zenon DEF Tree!InsertCard, Tree!Done, Tree!Go
<1> QED BY <1>1, LevelRequestEnds

\* A step of a request about levels.
LevelStep(r) ==
    \/ Tree!Calls(r) \/ Tree!CheckCreate(r) \/ Tree!InsertLevel(r)
    \/ Tree!CheckUpdate(r) \/ Tree!CommitUpdate(r)
    \/ Tree!CheckMove(r) \/ Tree!ReadChildren(r) \/ Tree!SaveMoved(r) \/ Tree!Reassign(r)
    \/ Tree!SaveChild(r) \/ Tree!ReadAffected(r) \/ Tree!UpdateCardsForLevel(r)
    \/ Tree!CheckClone(r) \/ Tree!CloneNext(r) \/ Tree!CommitClone(r)
    \/ Tree!CheckCard(r) \/ Tree!InsertCard(r) \/ Tree!Fail(r)

LEMMA LevelSteps ==
  ASSUME [Tree!Next]_Tree!vars
  PROVE  \/ /\ levels' = levels /\ cards' = cards /\ lastId' = lastId /\ treeReq' = treeReq
            /\ overtaken' = overtaken /\ torn' = torn /\ misplaced' = misplaced
         \/ \E r \in Requests : LevelStep(r)
<1>1. CASE UNCHANGED Tree!vars BY <1>1, Zenon DEF Tree!vars, Tree!tables, Tree!histories
<1>2. CASE Tree!Next BY <1>2, Zenon DEF Tree!Next, Tree!Move, Tree!Lose, LevelStep
<1> QED BY <1>1, <1>2

LEMMA TreeNextKeeps ==
  ASSUME TreeInv, [Tree!Next]_Tree!vars
  PROVE  TreeInv'
<1>1. CASE /\ levels' = levels /\ lastId' = lastId /\ treeReq' = treeReq /\ overtaken' = overtaken
           /\ torn' = torn /\ misplaced' = misplaced
  BY <1>1 DEF TreeInv, TreeTyped, CarriesLevels, KnowsLevels, CopiesApart, CopyIds, NoCleanCircle,
              Hangs, Bad, LeadsRound, Tree!At
<1>2. ASSUME NEW r \in Requests, LevelStep(r)
      PROVE  TreeInv'
  BY <1>2, CallsOnLevelsKeep, CheckCreateKeeps, InsertLevelKeeps, CheckUpdateKeeps, CommitUpdateKeeps,
     CheckMoveKeeps, ReadChildrenKeeps, SaveMovedKeeps, ReassignKeeps, SaveChildKeeps, ReadAffectedKeeps,
     UpdateCardsKeeps, CheckCloneKeeps, CloneNextKeeps, CommitCloneKeeps, CheckCardKeeps,
     InsertTreeCardKeeps, FailLevels, Zenon DEF LevelStep
<1> QED BY <1>1, <1>2, LevelSteps

\* What requests about levels carry and have read fits the levels, and no circle of
\* superiors is without a level that an overlapped or half-done request wrote or that was
\* moved below itself (create, update, moveLevel, cloneLevel of level.service.ts).
THEOREM TreeInvariance == Tree!Spec => []TreeInv
<1>1. TreeInv /\ [Tree!Next]_Tree!vars => TreeInv' BY TreeNextKeeps
<1> QED BY TreeInit, <1>1, PTL DEF Tree!Spec

LEMMA ForestWithoutCircles == TreeInv => TreeIsForest
<1> SUFFICES ASSUME TreeInv, NEW l \in DOMAIN levels, ~Tree!EndsAbove(levels, l)
             PROVE  Tree!Excused(l)
  BY Zenon DEF TreeIsForest, Tree!TreeIsForest
<1>1. l \in Tree!InChain(levels, l) /\ LeadsRound(levels, Tree!InChain(levels, l))
  BY EndlessLeadsRound, LevelsAre DEF TreeInv
<1>2. Tree!InChain(levels, l) \cap Bad # {} BY <1>1 DEF TreeInv, NoCleanCircle, LeadsRound
<1> QED BY <1>2 DEF Tree!Excused, Bad

\* Following superiors ends at a root for every level, unless its path has a level that an
\* overlapped or half-done request wrote or that was moved below itself: findLastLevelFromNode,
\* getLevelPathById and getSuperiorLevelsById come to an end otherwise.
THEOREM LevelsStayForest == Tree!Spec => []TreeIsForest
BY TreeInvariance, ForestWithoutCircles, PTL

(***************************************************************************)
(* What is below one another is of a site, in use and has its own machine. *)
(***************************************************************************)
LEMMA PlantConstants ==
  /\ Nothing \notin Tree!Ids
  /\ \A l \in DOMAIN FirstLevels :
       /\ FirstLevels[l].superior # 0 =>
            /\ FirstLevels[FirstLevels[l].superior].site = FirstLevels[l].site
            /\ Tree!IsActive(FirstLevels[l]) => Tree!IsActive(FirstLevels[FirstLevels[l].superior])
       /\ FirstLevels[l].machine \in Tree!Ids => FirstLevels[l].machine = l
       /\ \A m \in DOMAIN FirstLevels \ {l} :
            FirstLevels[m].site = FirstLevels[l].site /\ FirstLevels[m].machine = FirstLevels[l].machine
            => FirstLevels[l].machine = Nothing
<1>1. Nothing \notin MachineIds \cup Tree!Ids BY TreeAssumption, Zenon DEF Tree!LevelsAssumption
<1>2. \A l \in DOMAIN FirstLevels :
        LET row == FirstLevels[l] IN
        /\ row.superior \in DOMAIN FirstLevels \cup {Tree!NoLevel}
        /\ row.superior # Tree!NoLevel =>
             /\ FirstLevels[row.superior].site = row.site
             /\ Tree!IsActive(row) => Tree!IsActive(FirstLevels[row.superior])
        /\ row.machine \in Tree!Ids => row.machine = l
        /\ \A m \in DOMAIN FirstLevels \ {l} :
             FirstLevels[m].site = row.site /\ FirstLevels[m].machine = row.machine => row.machine = Nothing
  BY TreeAssumption, Zenon DEF Tree!LevelsAssumption
<1> QED BY <1>1, <1>2 DEF Tree!NoLevel

LEMMA PlantInit == Tree!Init => PlantInv
<1> SUFFICES ASSUME Tree!Init PROVE PlantInv OBVIOUS
<1>1. levels = FirstLevels /\ treeReq = [r \in Requests |-> Tree!Idle] BY Zenon DEF Tree!Init
<1>2. \A r \in Requests : treeReq[r].at = "idle" /\ treeReq[r].kind = "none"
  BY <1>1, IdleTreeRequest
<1>3. TreeTyped BY TreeInit DEF TreeInv
<1>4. 0 \notin DOMAIN levels BY <1>3, LevelsAre
<1>5. SitesHang /\ MachinesOwned
  BY <1>1, <1>4, PlantConstants DEF SitesHang, MachinesOwned, Beside, OwnMachine
<1>6. ActiveHang BY <1>1, <1>4, PlantConstants DEF ActiveHang, Tree!Unsound
<1>7. Tree!MachineIdsUnique BY <1>1, PlantConstants DEF Tree!MachineIdsUnique
<1>8. \A r \in Requests : CarriesPlaces(r) /\ KnowsRows(r) BY <1>2 DEF CarriesPlaces, KnowsRows
<1> QED BY <1>5, <1>6, <1>7, <1>8 DEF PlantInv

\* Sites do not change, so what a request carries goes on suiting the levels.
LEMMA PlacesStay ==
  ASSUME TreeInv, TreeInv', PlantInv, NEW s \in Requests, treeReq'[s] = treeReq[s],
         DOMAIN levels \subseteq DOMAIN levels',
         \A l \in DOMAIN levels : levels'[l].site = levels[l].site,
         \A l \in DOMAIN levels' \ DOMAIN levels : l \notin CopyIds(s)
  PROVE  CarriesPlaces(s)'
<1> DEFINE q == treeReq[s]
<1>1. CarriesLevels(s) /\ CarriesPlaces(s) /\ treeReq'[s] = q BY DEF TreeInv, PlantInv
<1>2. ASSUME NEW row, row.superior \in DOMAIN levels \cup {0}, Beside(levels, row)
      PROVE  Beside(levels', row)
  <2>1. 0 \notin DOMAIN levels'
    <3>1. TreeTyped' BY DEF TreeInv
    <3> QED BY <3>1, LevelConstants DEF TreeTyped
  <2> QED BY <1>2, <2>1 DEF Beside
<1>3. ASSUME NEW id \in DOMAIN levels, NEW row, Hangs(row), Suits(id, row)
      PROVE  row.site = levels'[id].site /\ Beside(levels', row) /\ OwnMachine(id, row)
  BY <1>2, <1>3 DEF Suits, Hangs
<1> HIDE DEF q
<1>4. CASE q.kind \in {"create", "update"}
  BY <1>1, <1>2, <1>3, <1>4 DEF CarriesPlaces, CarriesLevels, Hangs, Suits
<1>5. CASE q.kind = "move"
  <2>1. q.at # "check" =>
          /\ q.copy.site = levels'[q.id].site /\ Beside(levels', q.copy) /\ OwnMachine(q.id, q.copy)
          /\ \A l \in {q.to, q.old} \ {0} : levels'[l].site = q.copy.site
    BY <1>1, <1>3, <1>5 DEF CarriesPlaces, CarriesLevels, q
  <2>2. q.at \in {"save", "reassign", "depths"} =>
          \A k \in DOMAIN q.children :
            LET c == q.children[k] IN
            c.row.site = levels'[c.id].site /\ Beside(levels', c.row) /\ OwnMachine(c.id, c.row)
    BY <1>1, <1>3, <1>5 DEF CarriesPlaces, CarriesLevels, q
  <2> QED BY <1>1, <1>5, <2>1, <2>2 DEF CarriesPlaces, Suits
<1>6. CASE q.kind = "clone"
  <2> SUFFICES ASSUME q.at = "copy"
               PROVE  /\ \A i \in DOMAIN q.rows : Beside(levels', q.rows[i])
                      /\ \A k \in DOMAIN q.children :
                           LET p == q.children[k] IN
                           /\ p.row.site = levels'[p.id].site
                           /\ p.to \in DOMAIN levels' => levels'[p.to].site = p.row.site
    BY <1>1, <1>6 DEF CarriesPlaces, q
  <2>1. CopyIds(s) = DOMAIN q.rows BY <1>6 DEF CopyIds, Tree!At, q
  <2>2. \A l \in DOMAIN levels' : l \in DOMAIN levels \/ l \notin DOMAIN q.rows BY <2>1
  <2>3. 0 \notin DOMAIN levels'
    <3>1. TreeTyped' BY DEF TreeInv
    <3> QED BY <3>1, LevelConstants DEF TreeTyped
  <2>4. /\ \A i \in DOMAIN q.rows : Beside(levels, q.rows[i])
        /\ \A k \in DOMAIN q.children :
             LET p == q.children[k] IN
             /\ p.row.site = levels[p.id].site
             /\ p.to \in DOMAIN levels => levels[p.to].site = p.row.site
    BY <1>1, <1>6 DEF CarriesPlaces, q
  <2>5. /\ \A i \in DOMAIN q.rows : q.rows[i].superior \in DOMAIN levels \cup {0} \cup DOMAIN q.rows
        /\ \A k \in DOMAIN q.children :
             q.children[k].id \in DOMAIN levels /\ q.children[k].to \in DOMAIN levels \cup {0} \cup DOMAIN q.rows
    BY <1>1, <1>6 DEF CarriesLevels, q
  <2>6. \A i \in DOMAIN q.rows : Beside(levels', q.rows[i]) BY <2>2, <2>3, <2>4, <2>5 DEF Beside
  <2> QED BY <2>2, <2>3, <2>4, <2>5, <2>6
<1> QED BY <1>1, <1>4, <1>5, <1>6 DEF CarriesPlaces

LEMMA CopiesKnownStay ==
  ASSUME NEW q, levels' = levels, CopiesKnown(q)
  PROVE  CopiesKnown(q)'
<1>1. CirclesOn(q) => CirclesOn(q)' BY DEF CirclesOn, BelowOf
<1>2. \A p : PendingKnown(q, p) => PendingKnown(q, p)' BY DEF PendingKnown
<1>3. \A o : CopyKnown(q, o) => CopyKnown(q, o)' BY DEF CopyKnown
<1>4. CopiesOnce(q) => CopiesOnce(q)' BY <1>2, <1>3 DEF CopiesOnce, BelowOf
<1> QED BY <1>1, <1>4 DEF CopiesKnown

\* No level is written: what the others have read is still so.
LEMMA PlantStays ==
  ASSUME TreeInv, TreeInv', PlantInv, NEW r \in Requests, NEW q, treeReq' = [treeReq EXCEPT ![r] = q],
         levels' = levels, torn \subseteq torn', misplaced \subseteq misplaced', overtaken \ {r} \subseteq overtaken',
         CarriesPlaces(r)', KnowsRows(r)'
  PROVE  PlantInv'
<1>1. \A s \in Requests \ {r} : treeReq'[s] = treeReq[s] BY DEF TreeInv, TreeTyped
<1>2. Bad \subseteq Bad' BY DEF Bad
<1>3. ASSUME NEW s \in Requests, s # r
      PROVE  CarriesPlaces(s)' /\ KnowsRows(s)'
  <2>1. treeReq'[s] = treeReq[s] /\ KnowsRows(s) /\ (s \notin overtaken' => s \notin overtaken)
    BY <1>1, <1>3 DEF PlantInv
  <2>2. CarriesPlaces(s)' BY <2>1, PlacesStay
  <2>3. KnowsRows(s)'
    BY <2>1, CopiesKnownStay DEF KnowsRows, IsFreeFor, TakesAlong, Tree!IsActive, SameColumns
  <2> QED BY <2>2, <2>3
<1>4. SitesHang' /\ MachinesOwned' BY DEF PlantInv, SitesHang, MachinesOwned, Beside
<1>5. ActiveHang' BY <1>2 DEF PlantInv, ActiveHang, Tree!Unsound, Tree!IsActive
<1>6. Tree!MachineIdsUnique' BY DEF PlantInv, Tree!MachineIdsUnique
<1> QED BY <1>3, <1>4, <1>5, <1>6 DEF PlantInv

LEMMA PlantWritten ==
  ASSUME TreeInv, TreeInv', PlantInv, NEW r \in Requests, NEW q, treeReq' = [treeReq EXCEPT ![r] = q],
         NEW rows, NEW below, Tree!WriteLevels(r, Tree!With(levels, rows), DOMAIN rows, below),
         \A i \in DOMAIN rows \ DOMAIN levels : \A s \in Requests \ {r} : i \notin CopyIds(s),
         \A i \in DOMAIN rows :
           /\ i \in DOMAIN levels => rows[i].site = levels[i].site
           /\ Beside(levels, rows[i])
           /\ rows[i].superior \notin DOMAIN levels => Beside(rows, rows[i])
           /\ OwnMachine(i, rows[i]),
         r \notin overtaken =>
           \A i \in DOMAIN rows \cap DOMAIN levels : Tree!IsActive(levels[i]) /\ ~Tree!IsActive(rows[i])
             => Tree!ChildrenOf(levels, i) \subseteq DOMAIN rows,
         NEW one,
         r \notin overtaken =>
           \A i \in DOMAIN rows : Keeps(i, rows[i]) \/ rows[i].machine \in {i, Nothing} \/ (i = one /\ IsFreeFor(rows[i], i)),
         CarriesPlaces(r)', KnowsRows(r)'
  PROVE  PlantInv'
<1>1. treeReq'[r] = q /\ \A s \in Requests \ {r} : treeReq'[s] = treeReq[s]
  BY DEF TreeInv, TreeTyped
<1>3. /\ levels' = Tree!With(levels, rows)
      /\ torn' = IF r \in overtaken THEN torn \cup DOMAIN rows ELSE torn
      /\ misplaced' = misplaced \cup below \cup {i \in DOMAIN rows : Tree!Unsound(levels', i)}
      /\ overtaken' = overtaken \cup (Tree!Running \ {r})
  BY Zenon DEF Tree!WriteLevels
<1>4. /\ DOMAIN levels' = DOMAIN levels \cup DOMAIN rows
      /\ \A i \in DOMAIN rows : levels'[i] = rows[i]
      /\ \A i \in DOMAIN levels \ DOMAIN rows : levels'[i] = levels[i]
  BY <1>3 DEF Tree!With
<1>5. 0 \notin DOMAIN levels' /\ DOMAIN levels' \subseteq Tree!Ids
  <2>1. TreeTyped' BY DEF TreeInv
  <2> QED BY <2>1, LevelConstants DEF TreeTyped, Tree!Ids
<1>6. \A l \in DOMAIN levels : levels[l].superior \in DOMAIN levels \cup {0} /\ levels'[l].site = levels[l].site
  BY <1>4, LevelsAre DEF TreeInv
<1>7. ASSUME NEW s \in Requests, s # r
      PROVE  CarriesPlaces(s)' /\ KnowsRows(s)'
  <2>1. treeReq'[s] = treeReq[s] BY <1>1, <1>7
  <2>2. CarriesPlaces(s)' BY <1>4, <1>6, <1>7, <2>1, PlacesStay
  <2>3. s \notin overtaken' => treeReq[s].at = "idle" BY <1>3, <1>7 DEF Tree!Running
  <2>4. KnowsRows(s)'
    <3>1. KnowsRows(s) BY DEF PlantInv
    <3> QED BY <2>1, <2>3, <3>1 DEF KnowsRows
  <2> QED BY <2>2, <2>4
<1>8. SitesHang'
  <2> SUFFICES ASSUME NEW l \in DOMAIN levels', levels'[l].superior \in DOMAIN levels'
               PROVE  levels'[levels'[l].superior].site = levels'[l].site
    BY DEF SitesHang, Beside
  <2>1. CASE l \in DOMAIN rows
    <3>1. CASE rows[l].superior \in DOMAIN levels BY <1>4, <1>6, <2>1, <3>1 DEF Beside
    <3>2. CASE rows[l].superior \notin DOMAIN levels BY <1>4, <2>1, <3>2 DEF Beside
    <3> QED BY <3>1, <3>2
  <2>2. CASE l \notin DOMAIN rows
    <3>1. levels'[l] = levels[l] /\ levels[l].superior \in DOMAIN levels /\ l \in DOMAIN levels
      BY <1>4, <1>5, <1>6, <2>2
    <3>2. levels[levels[l].superior].site = levels[l].site BY <3>1 DEF PlantInv, SitesHang, Beside
    <3> QED BY <1>6, <3>1, <3>2
  <2> QED BY <2>1, <2>2
<1>9. MachinesOwned' BY <1>4 DEF PlantInv, MachinesOwned, OwnMachine
<1>10. Bad \subseteq Bad' /\ (r \in overtaken => DOMAIN rows \subseteq torn')
       /\ \A i \in DOMAIN rows : Tree!Unsound(levels', i) => i \in Bad'
  BY <1>3 DEF Bad
<1>11. ActiveHang'
  <2> SUFFICES ASSUME NEW l \in DOMAIN levels', Tree!Unsound(levels', l)
               PROVE  {l, levels'[l].superior} \cap Bad' # {}
    BY DEF ActiveHang
  <2>1. CASE l \in DOMAIN rows BY <1>10, <2>1
  <2>2. CASE l \notin DOMAIN rows
    <3> DEFINE s == levels[l].superior
    <3>1. /\ levels'[l] = levels[l] /\ l \in DOMAIN levels
          /\ s \in DOMAIN levels /\ Tree!IsActive(levels[l]) /\ ~Tree!IsActive(levels'[s])
      BY <1>4, <1>5, <1>6, <2>2 DEF Tree!Unsound
    <3>2. CASE ~Tree!IsActive(levels[s])
      <4>1. Tree!Unsound(levels, l) BY <3>1, <3>2 DEF Tree!Unsound
      <4> QED BY <1>10, <3>1, <4>1 DEF PlantInv, ActiveHang
    <3>3. CASE Tree!IsActive(levels[s])
      <4>1. s \in DOMAIN rows /\ levels'[s] = rows[s] BY <1>4, <3>1, <3>3
      <4>2. CASE r \in overtaken BY <1>10, <3>1, <4>1, <4>2 DEF Bad
      <4>3. CASE r \notin overtaken BY <2>2, <3>1, <3>3, <4>1, <4>3 DEF Tree!ChildrenOf
      <4> QED BY <4>2, <4>3
    <3> QED BY <3>2, <3>3
  <2> QED BY <2>1, <2>2
<1>12. Tree!MachineIdsUnique'
  <2> SUFFICES ASSUME NEW l \in DOMAIN levels', NEW m \in DOMAIN levels', l # m,
                      levels'[l].site = levels'[m].site, levels'[l].machine = levels'[m].machine,
                      levels'[l].machine # Nothing, {l, m} \cap torn' = {}
               PROVE  FALSE
    BY DEF Tree!MachineIdsUnique
  <2>1. levels'[l].machine \notin Tree!Ids BY <1>9 DEF MachinesOwned, OwnMachine
  <2>2. \A i \in {l, m} :
          \/ i \in DOMAIN levels /\ levels'[i].machine = levels[i].machine
          \/ i \in DOMAIN rows /\ i = one /\ IsFreeFor(rows[i], i)
    <3> SUFFICES ASSUME NEW i \in {l, m}
                 PROVE  \/ i \in DOMAIN levels /\ levels'[i].machine = levels[i].machine
                        \/ i \in DOMAIN rows /\ i = one /\ IsFreeFor(rows[i], i)
      OBVIOUS
    <3>1. CASE i \notin DOMAIN rows BY <1>4, <3>1
    <3>2. CASE i \in DOMAIN rows
      <4>1. r \notin overtaken BY <1>10, <3>2
      <4>2. rows[i].machine # i /\ rows[i].machine # Nothing BY <1>4, <1>5, <2>1, <3>2
      <4> QED BY <1>4, <3>2, <4>1, <4>2 DEF Keeps
    <3> QED BY <3>1, <3>2
  <2>3. torn \subseteq torn' BY <1>3
  <2>4. CASE \A i \in {l, m} : i \in DOMAIN levels /\ levels'[i].machine = levels[i].machine
    BY <1>6, <2>3, <2>4 DEF PlantInv, Tree!MachineIdsUnique
  <2>5. ASSUME NEW i \in {l, m}, NEW j \in {l, m}, i # j,
               i \in DOMAIN rows, IsFreeFor(rows[i], i), j \in DOMAIN levels, levels'[j].machine = levels[j].machine
        PROVE  FALSE
    <3>1. levels'[i] = rows[i] /\ levels[j].site = rows[i].site /\ levels[j].machine = rows[i].machine
          /\ rows[i].machine # Nothing
      BY <1>4, <1>6, <2>5
    <3> QED BY <2>5, <3>1 DEF IsFreeFor
  <2> QED BY <2>2, <2>4, <2>5
<1>13. CarriesPlaces(r)' /\ KnowsRows(r)' OBVIOUS
<1> QED BY <1>7, <1>8, <1>9, <1>11, <1>12, <1>13 DEF PlantInv

LEMMA PlantRequestEnds ==
  ASSUME TreeInv, TreeInv', PlantInv, NEW r \in Requests, treeReq' = [treeReq EXCEPT ![r] = Tree!Idle],
         levels' = levels, torn \subseteq torn', misplaced \subseteq misplaced', overtaken \ {r} \subseteq overtaken'
  PROVE  PlantInv'
<1>1. treeReq'[r] = Tree!Idle BY DEF TreeInv, TreeTyped
<1>2. CarriesPlaces(r)' /\ KnowsRows(r)' BY <1>1, IdleTreeRequest DEF CarriesPlaces, KnowsRows
<1> QED BY <1>2, PlantStays

LEMMA PlantRefuse ==
  ASSUME TreeInv, TreeInv', PlantInv, NEW r \in Requests, Tree!Refuse(r)
  PROVE  PlantInv'
<1>1. /\ treeReq' = [treeReq EXCEPT ![r] = Tree!Idle]
      /\ levels' = levels /\ torn' = torn /\ misplaced' = misplaced /\ overtaken' = overtaken
  BY Zenon DEF Tree!Refuse, Tree!Done, Tree!Go, Tree!Reads, Tree!tables, Tree!histories
<1> QED BY <1>1, PlantRequestEnds

LEMMA PlantFail ==
  ASSUME TreeInv, TreeInv', PlantInv, NEW r \in Requests, Tree!Fail(r)
  PROVE  PlantInv'
<1>1. /\ treeReq' = [treeReq EXCEPT ![r] = Tree!Idle]
      /\ levels' = levels /\ misplaced' = misplaced /\ overtaken' = overtaken
      /\ torn' = IF treeReq[r].began
                 THEN torn \cup {treeReq[r].id} \cup {treeReq[r].children[k].id : k \in DOMAIN treeReq[r].children}
                 ELSE torn
  BY Zenon DEF Tree!Fail, Tree!Done, Tree!Go, Tree!tables
<1>2. torn \subseteq torn' BY <1>1
<1> QED BY <1>1, <1>2, PlantRequestEnds

\* A request goes on after it has read.
LEMMA PlantReads ==
  ASSUME TreeInv, TreeInv', PlantInv, NEW r \in Requests, NEW q, treeReq' = [treeReq EXCEPT ![r] = q], Tree!Reads,
         treeReq'[r] = q /\ levels' = levels /\ overtaken' = overtaken => CarriesPlaces(r)' /\ KnowsRows(r)'
  PROVE  PlantInv'
<1>1. levels' = levels /\ torn' = torn /\ misplaced' = misplaced /\ overtaken' = overtaken
  BY Zenon DEF Tree!Reads, Tree!tables, Tree!histories
<1>2. treeReq'[r] = q BY DEF TreeInv, TreeTyped
<1> QED BY <1>1, <1>2, PlantStays

LEMMA PlantCalls ==
  ASSUME TreeInv, TreeInv', PlantInv, NEW r \in Requests, Tree!Calls(r)
  PROVE  PlantInv'
<1>1. PICK q \in TreeRequest : Tree!Call(r, q) /\ Called(q) BY LevelCalls
<1>2. /\ treeReq' = [treeReq EXCEPT ![r] = q]
      /\ levels' = levels /\ torn' = torn /\ misplaced' = misplaced
      /\ overtaken' = overtaken \ {r}
  BY <1>1, Zenon DEF Tree!Call, Tree!Go, Tree!tables
<1>3. treeReq'[r] = q BY <1>2 DEF TreeInv, TreeTyped
<1>4. q.machine \notin Tree!Ids BY LevelConstants, PlantConstants DEF TreeRequest
<1>5. CarriesPlaces(r)' /\ KnowsRows(r)' BY <1>1, <1>3, <1>4 DEF CarriesPlaces, KnowsRows, Called
<1> QED BY <1>2, <1>5, PlantStays

LEMMA PlantCheckCreate ==
  ASSUME TreeInv, TreeInv', PlantInv, NEW r \in Requests, Tree!CheckCreate(r)
  PROVE  PlantInv'
<1> DEFINE q0 == treeReq[r]
           refused == \/ Tree!MachineTaken(q0.site, q0.machine, Tree!NoLevel)
                      \/ q0.to # Tree!NoLevel
                         /\ (q0.to \notin Tree!FindSiteLevels(q0.site) \/ ~Tree!IsActive(levels[q0.to]))
           row == [site |-> q0.site, superior |-> q0.to, status |-> "A", deleted |-> FALSE, machine |-> q0.machine,
                   level |-> IF q0.to = Tree!NoLevel THEN 0 ELSE levels[q0.to].level + 1]
           q == [q0 EXCEPT !.at = "insert", !.copy = row]
<1>1. q0.kind = "create" /\ q0.at = "check" BY Zenon DEF Tree!CheckCreate, Tree!At
<1>2. CASE Tree!Refuse(r) BY <1>2, PlantRefuse
<1>3. CASE ~refused /\ Tree!Go(r, q) /\ Tree!Reads
  <2>1. q0 \in TreeRequest /\ q0.machine \notin Tree!Ids
    BY <1>1 DEF TreeInv, TreeTyped, PlantInv, CarriesPlaces
  <2>2. row.machine = q0.machine /\ row.site = q0.site /\ row.superior = q0.to OBVIOUS
  <2>3. Beside(levels, row)
    <3>1. q0.to \in DOMAIN levels => q0.to # Tree!NoLevel BY LevelsAre DEF TreeInv, Tree!NoLevel
    <3> HIDE DEF row
    <3> QED BY <1>3, <2>2, <3>1 DEF Beside, Tree!FindSiteLevels
  <2>4. IsFreeFor(row, 0)
    <3> HIDE DEF row
    <3> QED BY <1>3, <2>2 DEF IsFreeFor, Tree!MachineTaken, Tree!FindSiteLevels, Tree!NoLevel
  <2> HIDE DEF row, refused
  <2>5. q.kind = "create" /\ q.at = "insert" /\ q.copy = row /\ q.machine = q0.machine
    BY <1>1, <2>1 DEF TreeRequest
  <2>6. treeReq' = [treeReq EXCEPT ![r] = q] BY <1>3, Zenon DEF Tree!Go
  <2> HIDE DEF q
  <2>7. treeReq'[r] = q /\ levels' = levels /\ overtaken' = overtaken => CarriesPlaces(r)' /\ KnowsRows(r)'
    BY <2>1, <2>2, <2>3, <2>4, <2>5 DEF CarriesPlaces, KnowsRows, IsFreeFor
  <2> QED BY <1>3, <2>6, <2>7, PlantReads
<1> QED BY <1>2, <1>3, Zenon DEF Tree!CheckCreate

LEMMA PlantInsertLevel ==
  ASSUME TreeInv, TreeInv', PlantInv, NEW r \in Requests, Tree!InsertLevel(r)
  PROVE  PlantInv'
<1> DEFINE n == lastId + 1
           copy == treeReq[r].copy
           row == [copy EXCEPT !.machine = IF @ = Nothing THEN n ELSE @]
           rows == [i \in {n} |-> row]
           q == Tree!Idle
<1>1. /\ treeReq[r].kind = "create" /\ treeReq[r].at = "insert"
      /\ Tree!WriteLevels(r, Tree!With(levels, rows), {n}, {})
      /\ treeReq' = [treeReq EXCEPT ![r] = q]
  BY Zenon DEF Tree!InsertLevel, Tree!At, Tree!NextId, Tree!Done, Tree!Go
<1>2. Hangs(copy) /\ Beside(levels, copy) /\ copy.machine \notin Tree!Ids /\ (r \notin overtaken => IsFreeFor(copy, 0))
  BY <1>1 DEF TreeInv, CarriesLevels, PlantInv, CarriesPlaces, KnowsRows
<1>3. row.superior = copy.superior /\ row.site = copy.site
      /\ row.machine = IF copy.machine = Nothing THEN n ELSE copy.machine
  BY <1>2 DEF Hangs, Tree!LevelType
<1>4. lastId \in Nat /\ DOMAIN levels \subseteq 1 .. lastId
  BY LevelConstants DEF TreeInv, TreeTyped
<1>5. n \notin DOMAIN levels /\ \A s \in Requests : n \notin CopyIds(s)
  BY <1>4 DEF TreeInv, CopiesApart
<1> HIDE DEF row, n
<1>6. DOMAIN rows = {n} /\ rows[n] = row OBVIOUS
<1>7. 0 \notin {n} BY <1>4 DEF n
<1>8. row.superior \in DOMAIN levels \cup {0} BY <1>2, <1>3 DEF Hangs
<1> HIDE DEF rows
<1>9. /\ n \in DOMAIN levels => row.site = levels[n].site
      /\ Beside(levels, row)
      /\ row.superior \notin DOMAIN levels => Beside(rows, row)
      /\ OwnMachine(n, row)
  BY <1>2, <1>3, <1>5, <1>6, <1>7, <1>8 DEF Beside, OwnMachine
<1>10. r \notin overtaken => row.machine = n \/ IsFreeFor(row, n)
  <2> SUFFICES ASSUME r \notin overtaken, copy.machine # Nothing
               PROVE  IsFreeFor(row, n)
    BY <1>3
  <2>1. row.machine = copy.machine BY <1>3
  <2>2. \A l \in DOMAIN levels : l # 0 BY LevelsAre DEF TreeInv
  <2> QED BY <1>2, <1>3, <2>1, <2>2 DEF IsFreeFor
<1>11. treeReq'[r] = q BY <1>1 DEF TreeInv, TreeTyped
<1>12. CarriesPlaces(r)' /\ KnowsRows(r)' BY <1>11, IdleTreeRequest DEF CarriesPlaces, KnowsRows
<1> HIDE DEF q
<1>13. Tree!WriteLevels(r, Tree!With(levels, rows), DOMAIN rows, {}) BY <1>1, <1>6
<1>14. /\ \A i \in DOMAIN rows \ DOMAIN levels : \A s \in Requests \ {r} : i \notin CopyIds(s)
       /\ \A i \in DOMAIN rows :
            /\ i \in DOMAIN levels => rows[i].site = levels[i].site
            /\ Beside(levels, rows[i])
            /\ rows[i].superior \notin DOMAIN levels => Beside(rows, rows[i])
            /\ OwnMachine(i, rows[i])
  BY <1>5, <1>6, <1>9
<1>15. r \notin overtaken =>
         /\ \A i \in DOMAIN rows \cap DOMAIN levels : Tree!IsActive(levels[i]) /\ ~Tree!IsActive(rows[i])
              => Tree!ChildrenOf(levels, i) \subseteq DOMAIN rows
         /\ \A i \in DOMAIN rows : Keeps(i, rows[i]) \/ rows[i].machine \in {i, Nothing} \/ (i = n /\ IsFreeFor(rows[i], i))
  BY <1>5, <1>6, <1>10
<1> QED BY <1>1, <1>12, <1>13, <1>14, <1>15, PlantWritten

LEMMA StatusKeepsColumns ==
  ASSUME NEW row \in Tree!LevelType, NEW status \in {"A", "I"}
  PROVE  LET new == Tree!WithStatus(row, status) IN
         /\ new.site = row.site /\ new.superior = row.superior /\ new.machine = row.machine
         /\ new.status = status /\ (Tree!IsActive(new) <=> status = "A")
BY DEF Tree!WithStatus, Tree!LevelType, Tree!IsActive

LEMMA PlantCheckUpdate ==
  ASSUME TreeInv, TreeInv', PlantInv, NEW r \in Requests, Tree!CheckUpdate(r)
  PROVE  PlantInv'
<1> DEFINE q0 == treeReq[r]
           id == q0.id
           row == [levels[id] EXCEPT !.machine = q0.machine]
           copy == Tree!WithStatus(row, q0.status)
           changed == q0.status # levels[id].status
           todo == IF changed THEN Tree!FindAllChildLevels(levels, id) \ {id} ELSE {}
           q == [q0 EXCEPT !.at = "commit", !.copy = copy, !.todo = todo]
<1>1. q0.kind = "update" /\ q0.at = "check" BY Zenon DEF Tree!CheckUpdate, Tree!At
<1>2. CASE Tree!Refuse(r) BY <1>2, PlantRefuse
<1>3. CASE ~Tree!MachineTaken(levels[id].site, q0.machine, id) /\ Tree!Go(r, q) /\ Tree!Reads
  <2>1. q0 \in TreeRequest /\ id \in DOMAIN levels /\ q0.status \in {"A", "I"} /\ q0.machine \in MachineIds \cup {Nothing}
        /\ q0.machine \notin Tree!Ids
    BY <1>1 DEF TreeInv, TreeTyped, CarriesLevels, TreeRequest, PlantInv, CarriesPlaces
  <2>2. row \in Tree!LevelType /\ row.superior = levels[id].superior /\ row.site = levels[id].site
        /\ row.machine = q0.machine
    BY <2>1, LevelsAre DEF TreeInv, Tree!LevelType
  <2>3. /\ copy.site = levels[id].site /\ copy.superior = levels[id].superior /\ copy.machine = q0.machine
        /\ (Tree!IsActive(copy) <=> q0.status = "A")
    <3> HIDE DEF row
    <3> QED BY <2>1, <2>2, StatusKeepsColumns
  <2>4. IsFreeFor(copy, id)
    <3> HIDE DEF copy
    <3> QED BY <1>3, <2>3 DEF IsFreeFor, Tree!MachineTaken, Tree!FindSiteLevels
  <2>5. \/ TakesAlong(levels, {id} \cup todo)
        \/ todo = {} /\ (Tree!IsActive(levels[id]) => Tree!IsActive(copy))
    <3>1. CASE changed
      <4> DEFINE D == Tree!FindAllChildLevels(levels, id)
      <4>1. id \in D /\ TakesAlong(levels, D) BY <2>1, AllBelow, LevelsAre DEF TreeInv
      <4> HIDE DEF D
      <4>2. {id} \cup (D \ {id}) = D BY <4>1
      <4>3. todo = D \ {id} BY <3>1 DEF D
      <4> HIDE DEF todo
      <4> QED BY <4>1, <4>2, <4>3
    <3>2. CASE ~changed
      <4> HIDE DEF copy
      <4> QED BY <2>3, <3>2 DEF Tree!IsActive
    <3> QED BY <3>1, <3>2
  <2>6. Suits(id, copy)
    <3> HIDE DEF copy
    <3>1. Beside(levels, levels[id]) BY <2>1 DEF PlantInv, SitesHang
    <3> QED BY <2>1, <2>3, <3>1 DEF Suits, Beside, OwnMachine
  <2> HIDE DEF copy, todo, changed
  <2>7. q.kind = "update" /\ q.at = "commit" /\ q.copy = copy /\ q.todo = todo /\ q.id = id /\ q.machine = q0.machine
    BY <1>1, <2>1 DEF TreeRequest
  <2>8. treeReq' = [treeReq EXCEPT ![r] = q] BY <1>3, Zenon DEF Tree!Go
  <2> HIDE DEF q, id
  <2>9. treeReq'[r] = q /\ levels' = levels /\ overtaken' = overtaken => CarriesPlaces(r)' /\ KnowsRows(r)'
    <3> SUFFICES ASSUME treeReq'[r] = q, levels' = levels, overtaken' = overtaken
                 PROVE  CarriesPlaces(r)' /\ KnowsRows(r)'
      OBVIOUS
    <3>1. CarriesPlaces(r)' BY <2>1, <2>6, <2>7 DEF CarriesPlaces, Suits
    <3>2. KnowsRows(r)' BY <2>4, <2>5, <2>7 DEF KnowsRows, IsFreeFor, TakesAlong
    <3> QED BY <3>1, <3>2
  <2> QED BY <1>3, <2>8, <2>9, PlantReads
<1> QED BY <1>2, <1>3, Zenon DEF Tree!CheckUpdate

LEMMA PlantCommitUpdate ==
  ASSUME TreeInv, TreeInv', PlantInv, NEW r \in Requests, Tree!CommitUpdate(r)
  PROVE  PlantInv'
<1> DEFINE q0 == treeReq[r]
           id == q0.id
           rows == [l \in {id} \cup q0.todo |-> IF l = id THEN q0.copy ELSE Tree!WithStatus(levels[l], q0.status)]
           q == Tree!Idle
<1>1. /\ q0.kind = "update" /\ q0.at = "commit"
      /\ Tree!WriteLevels(r, Tree!With(levels, rows), DOMAIN rows, {})
      /\ treeReq' = [treeReq EXCEPT ![r] = q]
  BY Zenon DEF Tree!CommitUpdate, Tree!At, Tree!Done, Tree!Go
<1>2. id \in DOMAIN levels /\ Hangs(q0.copy) /\ q0.todo \subseteq DOMAIN levels /\ q0.status \in {"A", "I"}
  BY <1>1 DEF TreeInv, TreeTyped, CarriesLevels, TreeRequest
<1>3. Suits(id, q0.copy)
      /\ (r \notin overtaken =>
            /\ IsFreeFor(q0.copy, id)
            /\ \/ TakesAlong(levels, {id} \cup q0.todo)
               \/ q0.todo = {} /\ (Tree!IsActive(levels[id]) => Tree!IsActive(q0.copy)))
  BY <1>1 DEF PlantInv, CarriesPlaces, KnowsRows
<1>4. DOMAIN rows = {id} \cup q0.todo /\ rows[id] = q0.copy OBVIOUS
<1>5. \A l \in DOMAIN rows :
        l # id => rows[l].site = levels[l].site /\ rows[l].superior = levels[l].superior
                  /\ rows[l].machine = levels[l].machine
  <2>1. \A l \in q0.todo : levels[l] \in Tree!LevelType BY <1>2, LevelsAre DEF TreeInv
  <2> QED BY <1>2, <1>4, <2>1, StatusKeepsColumns
<1> HIDE DEF rows
<1>6. ASSUME NEW l \in DOMAIN rows
      PROVE  /\ l \in DOMAIN levels => rows[l].site = levels[l].site
             /\ Beside(levels, rows[l])
             /\ rows[l].superior \notin DOMAIN levels => Beside(rows, rows[l])
             /\ OwnMachine(l, rows[l])
  <2>1. DOMAIN rows \subseteq DOMAIN levels BY <1>2, <1>4
  <2>2. CASE l = id BY <1>3, <1>4, <2>1, <2>2 DEF Suits, Beside
  <2>3. CASE l # id
    <3>1. Beside(levels, levels[l]) /\ OwnMachine(l, levels[l])
      BY <2>1 DEF PlantInv, SitesHang, MachinesOwned
    <3> QED BY <1>5, <2>1, <2>3, <3>1 DEF Beside, OwnMachine
  <2> QED BY <2>2, <2>3
<1>7. r \notin overtaken =>
        \A i \in DOMAIN rows \cap DOMAIN levels : Tree!IsActive(levels[i]) /\ ~Tree!IsActive(rows[i])
          => Tree!ChildrenOf(levels, i) \subseteq DOMAIN rows
  <2> SUFFICES ASSUME r \notin overtaken, NEW i \in DOMAIN rows,
                      Tree!IsActive(levels[i]), ~Tree!IsActive(rows[i])
               PROVE  Tree!ChildrenOf(levels, i) \subseteq DOMAIN rows
    OBVIOUS
  <2>1. CASE TakesAlong(levels, {id} \cup q0.todo) BY <1>4, <2>1 DEF TakesAlong, Tree!ChildrenOf
  <2>2. CASE q0.todo = {} /\ (Tree!IsActive(levels[id]) => Tree!IsActive(q0.copy)) BY <1>4, <2>2
  <2> QED BY <1>3, <2>1, <2>2
<1>8. r \notin overtaken =>
        \A i \in DOMAIN rows : Keeps(i, rows[i]) \/ rows[i].machine \in {i, Nothing} \/ (i = id /\ IsFreeFor(rows[i], i))
  BY <1>2, <1>3, <1>4, <1>5 DEF Keeps
<1>9. treeReq'[r] = q BY <1>1 DEF TreeInv, TreeTyped
<1>10. CarriesPlaces(r)' /\ KnowsRows(r)' BY <1>9, IdleTreeRequest DEF CarriesPlaces, KnowsRows
<1>11. \A i \in DOMAIN rows \ DOMAIN levels : \A s \in Requests \ {r} : i \notin CopyIds(s)
  BY <1>2, <1>4
<1> HIDE DEF q, id
<1> QED BY <1>1, <1>6, <1>7, <1>8, <1>10, <1>11, PlantWritten

LEMMA PlantCheckMove ==
  ASSUME TreeInv, TreeInv', PlantInv, NEW r \in Requests, Tree!CheckMove(r)
  PROVE  PlantInv'
<1> DEFINE q0 == treeReq[r]
           row == levels[q0.id]
           q == [q0 EXCEPT !.at = "children", !.copy = row, !.old = row.superior]
<1>1. q0.kind = "move" /\ q0.at = "check" BY Zenon DEF Tree!CheckMove, Tree!At
<1>2. CASE Tree!Refuse(r) BY <1>2, PlantRefuse
<1>3. CASE /\ q0.to # Tree!NoLevel => q0.to \in DOMAIN levels /\ levels[q0.to].site = row.site
           /\ Tree!Go(r, q) /\ Tree!Reads
  <2>1. q0 \in TreeRequest /\ q0.id \in DOMAIN levels
    BY <1>1 DEF TreeInv, TreeTyped, CarriesLevels
  <2>2. Beside(levels, row) /\ OwnMachine(q0.id, row) /\ row.superior \in DOMAIN levels \cup {0}
    BY <2>1, LevelsAre DEF PlantInv, SitesHang, MachinesOwned, TreeInv
  <2>3. \A s \in {q0.to, row.superior} \ {0} : levels[s].site = row.site
    BY <1>3, <2>2 DEF Beside, Tree!NoLevel
  <2> DEFINE old == row.superior
  <2>4. /\ q.kind = "move" /\ q.at = "children" /\ q.copy = row /\ q.old = old
        /\ q.id = q0.id /\ q.to = q0.to
    BY <1>1, <2>1 DEF TreeRequest
  <2>5. treeReq' = [treeReq EXCEPT ![r] = q] BY <1>3, Zenon DEF Tree!Go
  <2>6. Suits(q.id, q.copy) /\ SameColumns(q.copy, levels[q.id])
    BY <2>2, <2>4 DEF Suits, SameColumns
  <2>7. \A s \in {q.to, q.old} \ {0} : levels[s].site = q.copy.site BY <2>3, <2>4
  <2> HIDE DEF q
  <2>8. treeReq'[r] = q /\ levels' = levels /\ overtaken' = overtaken => CarriesPlaces(r)' /\ KnowsRows(r)'
    BY <2>4, <2>6, <2>7 DEF CarriesPlaces, KnowsRows, Suits
  <2> QED BY <1>3, <2>5, <2>8, PlantReads
<1> QED
  <2>1. \/ Tree!Refuse(r)
        \/ /\ ~(\/ q0.id \notin DOMAIN levels \/ row.deleted
                \/ /\ q0.to # Tree!NoLevel
                   /\ \/ q0.to \notin DOMAIN levels \/ levels[q0.to].site # row.site
                      \/ Tree!InCircle(levels, q0.id)
                      \/ \E l \in Tree!FindAllChildLevels(levels, q0.id) : Tree!Same(l, q0.to))
           /\ Tree!Go(r, q) /\ Tree!Reads
    BY Zenon DEF Tree!CheckMove
  <2> HIDE DEF q
  <2> QED BY <1>2, <1>3, <2>1

LEMMA PlantReadChildren ==
  ASSUME TreeInv, TreeInv', PlantInv, NEW r \in Requests, Tree!ReadChildren(r)
  PROVE  PlantInv'
<1> DEFINE q0 == treeReq[r]
           id == q0.id
           C == Tree!ChildrenOf(levels, id)
           its == Tree!Ascending(C)
           children == [k \in DOMAIN its |-> [id |-> its[k], row |-> levels[its[k]]]]
           todo == UNION {Tree!FindAllChildLevels(levels, c) : c \in C}
           depth == IF q0.to = Tree!NoLevel THEN 0 ELSE levels[q0.to].level + 1
           copy == [q0.copy EXCEPT !.superior = q0.to, !.level = depth]
           q == [q0 EXCEPT !.at = "save", !.children = children, !.todo = todo, !.copy = copy]
<1>1. q0.kind = "move" /\ q0.at = "children" BY Zenon DEF Tree!ReadChildren, Tree!At
<1>2. CASE Tree!Fail(r) BY <1>2, PlantFail
<1>3. CASE Tree!Go(r, q) /\ Tree!Reads
  <2>1. q0 \in TreeRequest /\ id \in DOMAIN levels /\ Hangs(q0.copy) /\ q0.to \in DOMAIN levels \cup {0}
    BY <1>1 DEF TreeInv, TreeTyped, CarriesLevels
  <2>2. /\ Suits(id, q0.copy) /\ \A s \in {q0.to, q0.old} \ {0} : levels[s].site = q0.copy.site
        /\ r \notin overtaken => SameColumns(q0.copy, levels[id])
    BY <1>1 DEF PlantInv, CarriesPlaces, KnowsRows
  <2>3. \A k \in DOMAIN its : its[k] \in DOMAIN levels
    <3>1. lastId \in Nat /\ C \subseteq 0 .. lastId /\ C \subseteq DOMAIN levels
      BY LevelsAre DEF TreeInv, TreeTyped, Tree!ChildrenOf
    <3>2. its \in [1 .. Cardinality(C) -> C] BY <3>1, AscendingIs
    <3> HIDE DEF its, C
    <3> QED BY <3>1, <3>2
  <2>4. \A k \in DOMAIN children :
          /\ Suits(children[k].id, children[k].row)
          /\ SameColumns(children[k].row, levels[children[k].id])
    <3> HIDE DEF its
    <3>1. \A k \in DOMAIN children : children[k].id \in DOMAIN levels /\ children[k].row = levels[children[k].id]
      BY <2>3
    <3> HIDE DEF children
    <3> QED BY <3>1 DEF PlantInv, SitesHang, MachinesOwned, Suits, SameColumns
  <2> HIDE DEF depth
  <2>5. /\ copy.site = q0.copy.site /\ copy.superior = q0.to /\ copy.machine = q0.copy.machine
        /\ copy.status = q0.copy.status /\ copy.deleted = q0.copy.deleted
    BY <2>1 DEF Hangs, Tree!LevelType
  <2> HIDE DEF copy, children, todo
  <2>6. Suits(id, copy) /\ (r \notin overtaken => SameColumns(copy, levels[id]))
    <3>1. 0 \notin DOMAIN levels BY LevelsAre DEF TreeInv
    <3> QED BY <2>1, <2>2, <2>5, <3>1 DEF Suits, Beside, OwnMachine, SameColumns
  <2>7. /\ q.kind = "move" /\ q.at = "save" /\ q.copy = copy /\ q.children = children
        /\ q.old = q0.old /\ q.id = id /\ q.to = q0.to
    BY <1>1, <2>1 DEF TreeRequest
  <2>8. treeReq' = [treeReq EXCEPT ![r] = q] BY <1>3, Zenon DEF Tree!Go
  <2> HIDE DEF q, id
  <2>9. treeReq'[r] = q /\ levels' = levels /\ overtaken' = overtaken => CarriesPlaces(r)' /\ KnowsRows(r)'
    BY <2>2, <2>4, <2>5, <2>6, <2>7 DEF CarriesPlaces, KnowsRows, Suits
  <2> QED BY <1>3, <2>8, <2>9, PlantReads
<1> QED BY <1>2, <1>3, Zenon DEF Tree!ReadChildren

\* A move writes levels of the site, with the columns that they have.
LEMMA PlantMoves ==
  ASSUME TreeInv, TreeInv', PlantInv, NEW r \in Requests, treeReq[r].kind = "move",
         treeReq[r].at \in {"save", "reassign", "depths"},
         NEW q, treeReq' = [treeReq EXCEPT ![r] = q],
         NEW rows, NEW below, Tree!WriteLevels(r, Tree!With(levels, rows), DOMAIN rows, below),
         DOMAIN rows \subseteq DOMAIN levels,
         \A i \in DOMAIN rows :
           /\ rows[i].superior \in DOMAIN levels \cup {0} /\ Suits(i, rows[i])
           /\ r \notin overtaken => SameColumns(rows[i], levels[i]),
         q.kind = "move", q.at \in {"reassign", "depths", "query"}, q.copy = treeReq[r].copy, q.id = treeReq[r].id,
         q.to = treeReq[r].to, q.old = treeReq[r].old, q.children = treeReq[r].children
  PROVE  PlantInv'
<1> DEFINE q0 == treeReq[r]
<1>1. treeReq'[r] = q BY DEF TreeInv, TreeTyped
<1>2. /\ levels' = Tree!With(levels, rows)
      /\ overtaken' = overtaken \cup (Tree!Running \ {r})
  BY Zenon DEF Tree!WriteLevels
<1>3. /\ DOMAIN levels' = DOMAIN levels
      /\ \A i \in DOMAIN rows : levels'[i] = rows[i]
      /\ \A i \in DOMAIN levels \ DOMAIN rows : levels'[i] = levels[i]
  BY <1>2 DEF Tree!With
<1>4. \A l \in DOMAIN levels :
        /\ levels'[l].site = levels[l].site
        /\ r \notin overtaken => SameColumns(levels'[l], levels[l])
  <2>1. \A l \in DOMAIN levels : SameColumns(levels[l], levels[l]) BY DEF SameColumns
  <2> QED BY <1>3, <2>1 DEF Suits
<1>5. CarriesLevels(r) /\ CarriesPlaces(r) /\ KnowsRows(r) BY DEF TreeInv, PlantInv
<1> HIDE DEF q0
<1>6. /\ q0.id \in DOMAIN levels /\ {q0.to, q0.old} \subseteq DOMAIN levels \cup {0}
      /\ q0.copy.superior \in DOMAIN levels \cup {0}
      /\ \A k \in DOMAIN q0.children :
           q0.children[k].id \in DOMAIN levels /\ q0.children[k].row.superior \in DOMAIN levels \cup {0}
  BY <1>5 DEF CarriesLevels, Hangs, q0
<1>7. /\ Suits(q0.id, q0.copy)
      /\ \A s \in {q0.to, q0.old} \ {0} : levels[s].site = q0.copy.site
      /\ \A k \in DOMAIN q0.children : Suits(q0.children[k].id, q0.children[k].row)
  BY <1>5 DEF CarriesPlaces, q0
<1>8. r \notin overtaken => \A k \in DOMAIN q0.children : SameColumns(q0.children[k].row, levels[q0.children[k].id])
  BY <1>5 DEF KnowsRows, q0
<1>9. ASSUME NEW id \in DOMAIN levels, NEW row, Suits(id, row)
      PROVE  row.site = levels'[id].site /\ Beside(levels', row) /\ OwnMachine(id, row)
  BY SMTT(20), <1>3, <1>4, <1>9 DEF Suits, Beside
<1>10. CarriesPlaces(r)'
  <2>1. /\ q.copy.site = levels'[q.id].site /\ Beside(levels', q.copy) /\ OwnMachine(q.id, q.copy)
        /\ \A s \in {q.to, q.old} \ {0} : levels'[s].site = q.copy.site
    BY <1>4, <1>6, <1>7, <1>9 DEF q0
  <2>2. \A k \in DOMAIN q.children :
          LET c == q.children[k] IN
          c.row.site = levels'[c.id].site /\ Beside(levels', c.row) /\ OwnMachine(c.id, c.row)
    BY <1>6, <1>7, <1>9 DEF q0
  <2> QED BY <1>1, <2>1, <2>2 DEF CarriesPlaces, Suits
<1>11. KnowsRows(r)'
  <2> SUFFICES ASSUME r \notin overtaken
               PROVE  \A k \in DOMAIN q.children : SameColumns(q.children[k].row, levels'[q.children[k].id])
    BY <1>1, <1>2 DEF KnowsRows
  <2> QED BY <1>4, <1>6, <1>8 DEF SameColumns, q0
<1>12. r \notin overtaken =>
         /\ \A i \in DOMAIN rows \cap DOMAIN levels : Tree!IsActive(levels[i]) /\ ~Tree!IsActive(rows[i])
              => Tree!ChildrenOf(levels, i) \subseteq DOMAIN rows
         /\ \A i \in DOMAIN rows : Keeps(i, rows[i]) \/ rows[i].machine \in {i, Nothing} \/ (i = 0 /\ IsFreeFor(rows[i], i))
  BY DEF SameColumns, Tree!IsActive, Keeps
<1>13. /\ \A i \in DOMAIN rows \ DOMAIN levels : \A s \in Requests \ {r} : i \notin CopyIds(s)
       /\ \A i \in DOMAIN rows :
            /\ i \in DOMAIN levels => rows[i].site = levels[i].site
            /\ Beside(levels, rows[i])
            /\ rows[i].superior \notin DOMAIN levels => Beside(rows, rows[i])
            /\ OwnMachine(i, rows[i])
  <2>1. 0 \notin DOMAIN levels BY LevelsAre DEF TreeInv
  <2> QED BY <2>1 DEF Suits, Beside
<1> QED BY <1>10, <1>11, <1>12, <1>13, PlantWritten

LEMMA PlantSaveMoved ==
  ASSUME TreeInv, TreeInv', PlantInv, NEW r \in Requests, Tree!SaveMoved(r)
  PROVE  PlantInv'
<1> DEFINE q0 == treeReq[r]
           id == q0.id
           below == IF q0.to \in Tree!FindAllChildLevels(levels, id) THEN {id} ELSE {}
           rows == [i \in {id} |-> q0.copy]
           at == IF q0.children = <<>> THEN "query" ELSE "reassign"
           q == [q0 EXCEPT !.at = at, !.began = TRUE]
<1>1. /\ q0.kind = "move" /\ q0.at = "save"
      /\ Tree!WriteLevels(r, Tree!With(levels, rows), {id}, below)
      /\ treeReq' = [treeReq EXCEPT ![r] = q]
  BY Zenon DEF Tree!SaveMoved, Tree!At, Tree!Go
<1>2. q0 \in TreeRequest /\ id \in DOMAIN levels /\ Hangs(q0.copy)
  BY <1>1 DEF TreeInv, TreeTyped, CarriesLevels
<1>3. Suits(id, q0.copy) /\ (r \notin overtaken => SameColumns(q0.copy, levels[id]))
  BY <1>1 DEF PlantInv, CarriesPlaces, KnowsRows
<1>4. DOMAIN rows = {id} /\ rows[id] = q0.copy OBVIOUS
<1>5. at \in {"query", "reassign"} OBVIOUS
<1> HIDE DEF rows, at, below
<1>6. /\ q.kind = "move" /\ q.at = at /\ q.copy = q0.copy /\ q.children = q0.children
      /\ q.old = q0.old /\ q.id = id /\ q.to = q0.to
  BY <1>1, <1>2 DEF TreeRequest
<1> HIDE DEF q
<1>7. Tree!WriteLevels(r, Tree!With(levels, rows), DOMAIN rows, below) BY <1>1, <1>4
<1>8. /\ DOMAIN rows \subseteq DOMAIN levels
      /\ \A i \in DOMAIN rows :
           /\ rows[i].superior \in DOMAIN levels \cup {0} /\ Suits(i, rows[i])
           /\ r \notin overtaken => SameColumns(rows[i], levels[i])
  BY <1>2, <1>3, <1>4 DEF Hangs
<1> QED BY <1>1, <1>5, <1>6, <1>7, <1>8, PlantMoves

LEMMA PlantReassign ==
  ASSUME TreeInv, TreeInv', PlantInv, NEW r \in Requests, Tree!Reassign(r)
  PROVE  PlantInv'
<1> DEFINE q0 == treeReq[r]
           id == q0.id
           its == Tree!ChildrenOf(levels, id)
           rows == [l \in its |-> [levels[l] EXCEPT !.superior = q0.old]]
           q == [q0 EXCEPT !.at = "depths"]
<1>1. /\ q0.kind = "move" /\ q0.at = "reassign"
      /\ Tree!WriteLevels(r, Tree!With(levels, rows), its, {})
      /\ treeReq' = [treeReq EXCEPT ![r] = q]
  BY Zenon DEF Tree!Reassign, Tree!At, Tree!Go
<1>2. q0 \in TreeRequest /\ id \in DOMAIN levels /\ q0.old \in DOMAIN levels \cup {0}
  BY <1>1 DEF TreeInv, TreeTyped, CarriesLevels
<1>3. Suits(id, q0.copy) /\ (q0.old # 0 => levels[q0.old].site = q0.copy.site)
  BY <1>1 DEF PlantInv, CarriesPlaces
<1>4. its \subseteq DOMAIN levels /\ \A l \in its : levels[l].superior = id BY DEF Tree!ChildrenOf
<1>5. DOMAIN rows = its
      /\ \A l \in its : /\ rows[l].superior = q0.old /\ rows[l].site = levels[l].site
                        /\ SameColumns(rows[l], levels[l])
  <2>1. ASSUME NEW l \in its
        PROVE  LET row == [levels[l] EXCEPT !.superior = q0.old] IN
               row.superior = q0.old /\ row.site = levels[l].site /\ SameColumns(row, levels[l])
    <3>1. levels[l] \in Tree!LevelType BY <1>4, LevelsAre DEF TreeInv
    <3> QED BY <3>1 DEF Tree!LevelType, SameColumns
  <2> QED BY <2>1
<1> HIDE DEF rows, its
<1>6. ASSUME NEW l \in its
      PROVE  Suits(l, rows[l])
  <2>1. levels[l].site = q0.copy.site BY <1>2, <1>3, <1>4 DEF PlantInv, SitesHang, Beside, Suits
  <2>2. OwnMachine(l, levels[l]) BY <1>4 DEF PlantInv, MachinesOwned
  <2>3. 0 \notin DOMAIN levels BY LevelsAre DEF TreeInv
  <2> QED BY <1>2, <1>3, <1>5, <2>1, <2>2, <2>3 DEF Suits, Beside, OwnMachine, SameColumns
<1>7. /\ q.kind = "move" /\ q.at = "depths" /\ q.copy = q0.copy /\ q.children = q0.children
      /\ q.old = q0.old /\ q.id = id /\ q.to = q0.to
  BY <1>1, <1>2 DEF TreeRequest
<1> HIDE DEF q
<1>8. Tree!WriteLevels(r, Tree!With(levels, rows), DOMAIN rows, {}) BY <1>1, <1>5
<1>9. /\ DOMAIN rows \subseteq DOMAIN levels
      /\ \A i \in DOMAIN rows :
           /\ rows[i].superior \in DOMAIN levels \cup {0} /\ Suits(i, rows[i])
           /\ r \notin overtaken => SameColumns(rows[i], levels[i])
  BY <1>2, <1>4, <1>5, <1>6
<1> QED BY <1>1, <1>7, <1>8, <1>9, PlantMoves

LEMMA PlantSaveChild ==
  ASSUME TreeInv, TreeInv', PlantInv, NEW r \in Requests, Tree!SaveChild(r)
  PROVE  PlantInv'
<1> DEFINE q0 == treeReq[r]
           k == q0.saved + 1
           child == q0.children[k]
           depth == IF Tree!Same(q0.old, Tree!NoLevel) THEN 0 ELSE levels[q0.old].level + 1
           row == [child.row EXCEPT !.level = depth]
           rows == [i \in {child.id} |-> row]
           at == IF k = Len(q0.children) THEN "query" ELSE q0.at
           q == [q0 EXCEPT !.saved = k, !.at = at]
<1>1. q0.kind = "move" /\ q0.at = "depths" BY Zenon DEF Tree!SaveChild, Tree!At
<1>2. CASE Tree!Fail(r) BY <1>2, PlantFail
<1>3. CASE /\ Tree!WriteLevels(r, Tree!With(levels, rows), {child.id}, {})
           /\ treeReq' = [treeReq EXCEPT ![r] = [q0 EXCEPT !.saved = k, !.at = IF k = Len(q0.children) THEN "query" ELSE @]]
  <2>1. /\ q0 \in TreeRequest /\ q0.children \in Seq(ChildType) /\ q0.saved < Len(q0.children)
        /\ \A n \in DOMAIN q0.children : q0.children[n].id \in DOMAIN levels /\ Hangs(q0.children[n].row)
    BY <1>1 DEF TreeInv, TreeTyped, CarriesLevels
  <2>2. k \in DOMAIN q0.children BY <2>1 DEF TreeRequest
  <2>3. /\ Suits(child.id, child.row) /\ (r \notin overtaken => SameColumns(child.row, levels[child.id]))
        /\ child.id \in DOMAIN levels /\ Hangs(child.row)
    <3>1. /\ \A n \in DOMAIN q0.children : Suits(q0.children[n].id, q0.children[n].row)
          /\ r \notin overtaken =>
               \A n \in DOMAIN q0.children : SameColumns(q0.children[n].row, levels[q0.children[n].id])
      BY <1>1 DEF PlantInv, CarriesPlaces, KnowsRows
    <3> HIDE DEF k
    <3> QED BY <2>1, <2>2, <3>1
  <2>4. treeReq' = [treeReq EXCEPT ![r] = q] BY <1>3
  <2>5. at \in {"query", "depths"} BY <1>1
  <2> HIDE DEF depth, at, k, child
  <2>6. /\ row.superior = child.row.superior /\ row.site = child.row.site
        /\ row.machine = child.row.machine /\ row.status = child.row.status /\ row.deleted = child.row.deleted
    BY <2>3 DEF Hangs, Tree!LevelType
  <2> HIDE DEF row
  <2>7. DOMAIN rows = {child.id} /\ rows[child.id] = row OBVIOUS
  <2> HIDE DEF rows
  <2>8. /\ q.kind = "move" /\ q.at = at /\ q.copy = q0.copy /\ q.children = q0.children
        /\ q.old = q0.old /\ q.id = q0.id /\ q.to = q0.to
    BY <1>1, <2>1 DEF TreeRequest
  <2> HIDE DEF q
  <2>9. Tree!WriteLevels(r, Tree!With(levels, rows), DOMAIN rows, {}) BY <1>3, <2>7
  <2>10. row.superior \in DOMAIN levels \cup {0} /\ Suits(child.id, row)
         /\ (r \notin overtaken => SameColumns(row, levels[child.id]))
    BY <2>3, <2>6 DEF Hangs, Suits, Beside, OwnMachine, SameColumns
  <2>11. /\ DOMAIN rows \subseteq DOMAIN levels
         /\ \A i \in DOMAIN rows :
              /\ rows[i].superior \in DOMAIN levels \cup {0} /\ Suits(i, rows[i])
              /\ r \notin overtaken => SameColumns(rows[i], levels[i])
    BY <2>3, <2>7, <2>10
  <2> QED BY <1>1, <2>4, <2>5, <2>8, <2>9, <2>11, PlantMoves
<1> QED BY <1>2, <1>3, Zenon DEF Tree!SaveChild, Tree!Go

LEMMA PlantReadAffected ==
  ASSUME TreeInv, TreeInv', PlantInv, NEW r \in Requests, Tree!ReadAffected(r) \/ Tree!UpdateCardsForLevel(r)
  PROVE  PlantInv'
<1> DEFINE q0 == treeReq[r]
<1>1. q0 \in TreeRequest BY DEF TreeInv, TreeTyped
<1>2. ASSUME NEW q, treeReq' = [treeReq EXCEPT ![r] = q], levels' = levels, overtaken' = overtaken,
             torn \subseteq torn', misplaced' = misplaced, q0.kind = "move", q0.at # "check",
             q.kind = "move", q.at \in {"cards", "circling"}, q.copy = q0.copy, q.id = q0.id, q.to = q0.to, q.old = q0.old
      PROVE  PlantInv'
  <2>1. treeReq'[r] = q BY <1>2 DEF TreeInv, TreeTyped
  <2>2. Suits(q0.id, q0.copy) /\ \A s \in {q0.to, q0.old} \ {0} : levels[s].site = q0.copy.site
    BY <1>2 DEF PlantInv, CarriesPlaces
  <2>3. CarriesPlaces(r)' /\ KnowsRows(r)' BY <1>2, <2>1, <2>2 DEF CarriesPlaces, KnowsRows, Suits
  <2> QED BY <1>2, <2>3, PlantStays
<1>3. CASE Tree!ReadAffected(r)
  <2> DEFINE todo == q0.todo \cup Tree!FindAllChildLevels(levels, q0.id)
             rows == Tree!SiteMap(q0.copy.site)
             q == [q0 EXCEPT !.at = "cards", !.todo = todo, !.rows = rows]
  <2>1. q0.kind = "move" /\ q0.at = "query" BY <1>3, Zenon DEF Tree!ReadAffected, Tree!At
  <2>2. CASE Tree!Fail(r) BY <2>2, PlantFail
  <2>3. CASE /\ treeReq' = [treeReq EXCEPT ![r] = [q0 EXCEPT
                  !.at = "cards", !.todo = @ \cup Tree!FindAllChildLevels(levels, q0.id), !.rows = rows]]
             /\ Tree!Reads
    <3>1. treeReq' = [treeReq EXCEPT ![r] = q] BY <2>3
    <3>2. levels' = levels /\ torn' = torn /\ misplaced' = misplaced /\ overtaken' = overtaken
      BY <2>3, Zenon DEF Tree!Reads, Tree!tables, Tree!histories
    <3> HIDE DEF todo, rows
    <3>3. q.kind = "move" /\ q.at = "cards" /\ q.copy = q0.copy /\ q.id = q0.id /\ q.to = q0.to /\ q.old = q0.old
      BY <1>1, <2>1 DEF TreeRequest
    <3> HIDE DEF q, q0
    <3> QED BY <1>2, <2>1, <3>1, <3>2, <3>3 DEF q0
  <2> QED BY <1>3, <2>2, <2>3, Zenon DEF Tree!ReadAffected, Tree!Go
<1>4. CASE Tree!UpdateCardsForLevel(r)
  <2> DEFINE l == CHOOSE l \in q0.todo : \A m \in q0.todo : l <= m
             circling == [q0 EXCEPT !.at = "circling"]
             left == [q0 EXCEPT !.todo = @ \ {l}]
  <2>1. /\ q0.kind = "move" /\ q0.at = "cards"
        /\ levels' = levels /\ misplaced' = misplaced /\ overtaken' = overtaken
        /\ torn' = IF r \in overtaken THEN torn \cup q0.todo ELSE torn
        /\ \/ treeReq' = [treeReq EXCEPT ![r] = Tree!Idle]
           \/ treeReq' = [treeReq EXCEPT ![r] = circling]
           \/ treeReq' = [treeReq EXCEPT ![r] = left]
    BY <1>4, Zenon DEF Tree!UpdateCardsForLevel, Tree!At, Tree!Done, Tree!Go
  <2>2. torn \subseteq torn' BY <2>1
  <2> HIDE DEF l
  <2>3. CASE treeReq' = [treeReq EXCEPT ![r] = Tree!Idle] BY <2>1, <2>2, <2>3, PlantRequestEnds
  <2>4. CASE treeReq' = [treeReq EXCEPT ![r] = circling]
    <3>1. circling.kind = "move" /\ circling.at = "circling" /\ circling.copy = q0.copy
          /\ circling.id = q0.id /\ circling.to = q0.to /\ circling.old = q0.old
      BY <1>1, <2>1 DEF TreeRequest
    <3> HIDE DEF circling
    <3> QED BY <1>2, <2>1, <2>2, <2>4, <3>1
  <2>5. CASE treeReq' = [treeReq EXCEPT ![r] = left]
    <3>1. left.kind = "move" /\ left.at = "cards" /\ left.copy = q0.copy
          /\ left.id = q0.id /\ left.to = q0.to /\ left.old = q0.old
      BY <1>1, <2>1 DEF TreeRequest
    <3> HIDE DEF left
    <3> QED BY <1>2, <2>1, <2>2, <2>5, <3>1
  <2> QED BY <2>1, <2>3, <2>4, <2>5
<1> QED BY <1>3, <1>4

(***************************************************************************)
(* A clone is a copy.                                                      *)
(***************************************************************************)
\* The list of a finite set of numbers has each of them once.
LEMMA AscendingLists ==
  ASSUME NEW max \in Nat, NEW ids \in SUBSET (0 .. max)
  PROVE  LET its == Tree!Ascending(ids) IN
         /\ its \in Seq(ids)
         /\ \A i, j \in DOMAIN its : i # j => its[i] # its[j]
         /\ \A x \in ids : \E i \in DOMAIN its : its[i] = x
<1> DEFINE its == Tree!Ascending(ids)
           n == Cardinality(ids)
<1>1. IsFiniteSet(ids) /\ n \in Nat /\ its \in [1 .. n -> ids]
      /\ \A i, j \in 1 .. n : i < j => its[i] < its[j]
  BY AscendingIs
<1> HIDE DEF its
<1>2. \A i, j \in 1 .. n : i # j => its[i] # its[j]
  <2> SUFFICES ASSUME NEW i \in 1 .. n, NEW j \in 1 .. n, i # j, its[i] = its[j] PROVE FALSE
    OBVIOUS
  <2>1. its[i] \in Int /\ its[j] \in Int
    <3>1. its[i] \in ids /\ its[j] \in ids BY <1>1
    <3>2. ids \subseteq Int OBVIOUS
    <3> HIDE DEF n
    <3> QED BY <3>1, <3>2
  <2>2. i < j \/ j < i BY <1>1
  <2> QED BY <1>1, <2>1, <2>2
<1>3. ASSUME NEW x \in ids
      PROVE  \E i \in 1 .. n : its[i] = x
  <2> SUFFICES ASSUME \A i \in 1 .. n : its[i] # x PROVE FALSE OBVIOUS
  <2>1. its \in [1 .. n -> ids \ {x}] BY <1>1
  <2>2. IsFiniteSet(ids \ {x}) /\ Cardinality(ids \ {x}) = n - 1 BY <1>1, FS_RemoveElement
  <2>3. IsFiniteSet(1 .. n) /\ Cardinality(1 .. n) = n
    <3>1. \A m \in Nat : IsFiniteSet(1 .. m) /\ Cardinality(1 .. m) = m BY FS_Interval
    <3> QED BY <1>1, <3>1
  <2>4. Cardinality(ids \ {x}) < Cardinality(1 .. n) BY <1>1, <2>2, <2>3
  <2>5. \E i, j \in 1 .. n : i # j /\ its[i] = its[j]
    <3> DEFINE places == 1 .. n
               others == ids \ {x}
    <3>1. IsFiniteSet(places) /\ IsFiniteSet(others) /\ Cardinality(others) < Cardinality(places)
          /\ its \in [places -> others]
      BY <2>1, <2>2, <2>3, <2>4
    <3> HIDE DEF places, others
    <3>2. \E i, j \in places : i # j /\ its[i] = its[j] BY <3>1, FS_PigeonHole
    <3> QED BY <3>2 DEF places
  <2> QED BY <1>2, <2>5
<1>4. its \in Seq(ids) /\ DOMAIN its = 1 .. n
  <2> HIDE DEF n
  <2> QED BY <1>1
<1> HIDE DEF n
<1> QED BY <1>2, <1>3, <1>4 DEF its

\* Where the elements of a list before the tail of another are.
LEMMA PrependedAt ==
  ASSUME NEW S, NEW s \in Seq(S), NEW t \in Seq(S), t # <<>>
  PROVE  LET u == s \o Tail(t) IN
         /\ u \in Seq(S)
         /\ \A k \in DOMAIN u :
              IF k \in DOMAIN s THEN u[k] = s[k]
              ELSE (k - Len(s)) + 1 \in DOMAIN t \ {1} /\ u[k] = t[(k - Len(s)) + 1]
         /\ \A k \in DOMAIN s : k \in DOMAIN u
         /\ \A k \in DOMAIN t \ {1} : Len(s) + (k - 1) \in DOMAIN u \ DOMAIN s
<1> DEFINE v == Tail(t)
           u == s \o v
<1>1. v \in Seq(S) /\ Len(t) \in Nat \ {0} /\ Len(v) = Len(t) - 1
      /\ \A i \in 1 .. Len(v) : v[i] = t[i + 1]
  BY HeadTailProperties
<1> HIDE DEF v
<1>2. /\ u \in Seq(S) /\ Len(u) = Len(s) + Len(v) /\ Len(s) \in Nat /\ Len(v) \in Nat
      /\ \A i \in 1 .. Len(s) + Len(v) : u[i] = IF i <= Len(s) THEN s[i] ELSE v[i - Len(s)]
  <2>1. /\ s \o v \in Seq(S) /\ Len(s \o v) = Len(s) + Len(v)
        /\ \A i \in 1 .. Len(s) + Len(v) : (s \o v)[i] = IF i <= Len(s) THEN s[i] ELSE v[i - Len(s)]
    BY <1>1, ConcatProperties
  <2>2. Len(s) \in Nat /\ Len(v) \in Nat BY <1>1
  <2> QED BY <2>1, <2>2
<1>3. DOMAIN s = 1 .. Len(s) /\ DOMAIN t = 1 .. Len(t) /\ DOMAIN u = 1 .. Len(s) + Len(v) BY <1>2
<1> HIDE DEF u
<1>4. ASSUME NEW k \in DOMAIN u
      PROVE  IF k \in DOMAIN s THEN u[k] = s[k]
             ELSE (k - Len(s)) + 1 \in DOMAIN t \ {1} /\ u[k] = t[(k - Len(s)) + 1]
  <2>1. CASE k \in DOMAIN s BY <1>2, <1>3, <2>1
  <2>2. CASE k \notin DOMAIN s
    <3>1. k \in 1 .. Len(s) + Len(v) /\ ~(k <= Len(s)) /\ k - Len(s) \in 1 .. Len(v)
      BY <1>2, <1>3, <2>2
    <3>2. u[k] = v[k - Len(s)] /\ v[k - Len(s)] = t[(k - Len(s)) + 1] BY <1>1, <1>2, <3>1
    <3>3. (k - Len(s)) + 1 \in DOMAIN t \ {1} BY <1>1, <1>2, <1>3, <3>1
    <3> QED BY <2>2, <3>2, <3>3
  <2> QED BY <2>1, <2>2
<1>5. \A k \in DOMAIN s : k \in DOMAIN u BY <1>2, <1>3
<1>6. \A k \in DOMAIN t \ {1} : Len(s) + (k - 1) \in DOMAIN u \ DOMAIN s BY <1>1, <1>2, <1>3
<1> QED BY <1>2, <1>4, <1>5, <1>6 DEF u, v

\* What is below a level hangs on it, or on what is below it.
LEMMA BelowHangs ==
  ASSUME NEW rows, NEW id \in DOMAIN rows, IsFiniteSet(DOMAIN rows)
  PROVE  \A y \in Tree!FindAllChildLevels(rows, id) \ {id} :
            rows[y].superior \in Tree!FindAllChildLevels(rows, id)
<1> DEFINE D == Tree!FindAllChildLevels(rows, id)
           E == {y \in D : y = id \/ rows[y].superior \in D}
<1>1. /\ id \in D /\ TakesAlong(rows, D)
      /\ \A F : TakesAlong(rows, F) /\ id \in F => D \subseteq F
  BY AllBelow
<1> HIDE DEF D
<1>2. TakesAlong(rows, E) /\ id \in E BY <1>1 DEF TakesAlong
<1>3. D \subseteq E BY <1>1, <1>2
<1> QED BY <1>3 DEF D

\* Below a level that is in no circle, no level is in one, and what is below one child of
\* a level is not below another.
LEMMA SubtreesApart ==
  ASSUME NEW rows, NEW top \in DOMAIN rows, IsFiniteSet(DOMAIN rows), ~Tree!InCircle(rows, top),
         NEW p \in Tree!FindAllChildLevels(rows, top)
  PROVE  /\ p \in DOMAIN rows /\ p \in Tree!FindAllChildLevels(rows, p)
         /\ Tree!FindAllChildLevels(rows, p) \subseteq Tree!FindAllChildLevels(rows, top)
         /\ \A c \in Tree!ChildrenOf(rows, p) :
              /\ c # top /\ c \in DOMAIN rows /\ p \notin Tree!FindAllChildLevels(rows, c)
              /\ Tree!FindAllChildLevels(rows, c) \subseteq Tree!FindAllChildLevels(rows, p)
              /\ \A d \in Tree!ChildrenOf(rows, p) \ {c} :
                   Tree!FindAllChildLevels(rows, c) \cap Tree!FindAllChildLevels(rows, d) = {}
         /\ \A x \in Tree!FindAllChildLevels(rows, p) \ {p} :
              \E c \in Tree!ChildrenOf(rows, p) : x \in Tree!FindAllChildLevels(rows, c)
<1> DEFINE D(x) == Tree!FindAllChildLevels(rows, x)
<1>1. \A x \in DOMAIN rows : /\ x \in D(x) /\ TakesAlong(rows, D(x))
                             /\ \A F : TakesAlong(rows, F) /\ x \in F => D(x) \subseteq F
  BY AllBelow
<1>2. \A x \in DOMAIN rows : \A y \in D(x) \ {x} : rows[y].superior \in D(x) BY BelowHangs
<1>3. \A x \in DOMAIN rows : \A y \in D(x) : y # x => \E c \in Tree!ChildrenOf(rows, x) : y \in D(c)
  BY BelowChildren
<1>4. \A c \in Tree!ChildrenOf(rows, top) : top \notin D(c) BY DEF Tree!InCircle
<1>5. \A x, c : c \in Tree!ChildrenOf(rows, x) <=> c \in DOMAIN rows /\ rows[c].superior = x
  BY DEF Tree!ChildrenOf
<1>6. p \in D(top) OBVIOUS
<1> HIDE DEF D
<1>7. \A x \in DOMAIN rows : D(x) \subseteq DOMAIN rows /\ \A y \in D(x) : D(y) \subseteq D(x)
  BY <1>1 DEF TakesAlong
<1>8. p \in DOMAIN rows BY <1>6, <1>7
<1>9. \A c \in Tree!ChildrenOf(rows, p) : c \in DOMAIN rows /\ D(c) \subseteq D(p)
  BY <1>1, <1>5, <1>7, <1>8 DEF TakesAlong
<1>10. ASSUME top \in D(p)
       PROVE  p = top
  <2> SUFFICES ASSUME p # top PROVE FALSE OBVIOUS
  <2>1. PICK c \in Tree!ChildrenOf(rows, top) : p \in D(c) BY <1>3, <1>6
  <2>2. top \in D(c) BY <1>5, <1>7, <1>10, <2>1
  <2> QED BY <1>4, <2>2
<1>11. ASSUME NEW c \in Tree!ChildrenOf(rows, p), p \in D(c)
       PROVE  FALSE
  <2>1. CASE top \in D(p) BY <1>4, <1>10, <1>11, <2>1
  <2>2. CASE top \notin D(p)
    <3> DEFINE Z == D(top) \ D(p)
    <3>1. rows[p].superior \in D(p)
      <4>1. CASE p = c BY <1>1, <1>5, <1>8, <4>1
      <4>2. CASE p # c
        <5>1. rows[p].superior \in D(c) BY <1>2, <1>9, <1>11, <4>2
        <5> QED BY <1>9, <5>1
      <4> QED BY <4>1, <4>2
    <3>2. TakesAlong(rows, Z)
      <4>1. \A z \in DOMAIN rows : rows[z].superior \in Z => z \in D(top) BY <1>1 DEF TakesAlong
      <4>2. \A z \in DOMAIN rows : rows[z].superior \in Z => z \notin D(p) BY <1>2, <1>8, <3>1
      <4> QED BY <1>7, <4>1, <4>2 DEF TakesAlong
    <3>3. top \in Z BY <1>1, <2>2
    <3>4. D(top) \subseteq Z
      <4> HIDE DEF Z
      <4> QED BY <1>1, <3>2, <3>3
    <3> QED BY <1>1, <1>6, <1>8, <3>4
  <2> QED BY <2>1, <2>2
<1>12. ASSUME NEW c \in Tree!ChildrenOf(rows, p), c = top
       PROVE  FALSE
  <2>1. top \in D(p) BY <1>1, <1>9, <1>12
  <2>2. p = top BY <1>10, <2>1
  <2> QED BY <1>1, <1>4, <1>12, <2>2
<1>13. ASSUME NEW c \in Tree!ChildrenOf(rows, p), NEW d \in Tree!ChildrenOf(rows, p), c # d
       PROVE  D(c) \cap D(d) = {}
  <2> DEFINE Z == D(c) \ D(d)
  <2>1. /\ c \in DOMAIN rows /\ d \in DOMAIN rows /\ rows[c].superior = p /\ rows[d].superior = p
        /\ p \notin D(c) /\ p \notin D(d)
    BY <1>5, <1>11
  <2>2. c \in Z BY <1>1, <1>2, <1>13, <2>1
  <2>3. TakesAlong(rows, Z)
    <3>1. \A z \in DOMAIN rows : rows[z].superior \in Z => z \in D(c) BY <1>1, <2>1 DEF TakesAlong
    <3>2. \A z \in DOMAIN rows : rows[z].superior \in Z => z \notin D(d) BY <1>2, <2>1
    <3> QED BY <1>7, <2>1, <3>1, <3>2 DEF TakesAlong
  <2>4. D(c) \subseteq Z
    <3> HIDE DEF Z
    <3> QED BY <1>1, <2>1, <2>2, <2>3
  <2> QED BY <2>4
<1>14. p \in D(p) /\ D(p) \subseteq D(top) BY <1>1, <1>6, <1>7, <1>8
<1>15. \A x \in D(p) \ {p} : \E c \in Tree!ChildrenOf(rows, p) : x \in D(c) BY <1>3, <1>8
<1> QED BY <1>8, <1>9, <1>11, <1>12, <1>13, <1>14, <1>15 DEF D

LEMMA CopiesStart ==
  ASSUME TreeInv, NEW q, q.id \in DOMAIN levels, q.clones = <<>>, NEW first, q.children = <<first>>,
         first.id = q.id, first.row = levels[q.id], first.to = levels[q.id].superior
  PROVE  CopiesKnown(q)
<1>1. q.id \in BelowOf(q.id) BY AllBelow, LevelsAre DEF TreeInv, BelowOf
<1>2. DOMAIN q.children = {1} /\ q.children[1] = first /\ DOMAIN q.clones = {} OBVIOUS
<1>3. CirclesOn(q) BY <1>1, <1>2 DEF CirclesOn
<1>4. CopiesOnce(q) BY <1>1, <1>2 DEF CopiesOnce, PendingKnown
<1> QED BY <1>3, <1>4 DEF CopiesKnown

LEMMA CopiesGoOn ==
  ASSUME TreeInv, NEW q, NEW q0, NEW n, NEW new, Copied(q0, q, n, new), CopiesKnown(q0), q.id \in DOMAIN levels,
         q0.children \in Seq(CopyingType), q0.children # <<>>, new \in Seq(CopyingType),
         \A k \in DOMAIN q0.children : q0.children[k].id \in DOMAIN levels,
         n # 0, n \notin DOMAIN q0.rows, 0 \notin DOMAIN q0.rows
  PROVE  CopiesKnown(q)
<1> DEFINE p == q0.children[1]
           copy == q.rows[n]
<1>0. /\ q.id = q0.id /\ q.children = new \o Tail(q0.children)
      /\ DOMAIN q.rows = DOMAIN q0.rows \cup {n} /\ q.rows[n] = copy
      /\ \A i \in DOMAIN q0.rows : q.rows[i] = q0.rows[i]
      /\ DOMAIN q.clones = DOMAIN q0.clones \cup {p.id} /\ q.clones[p.id] = n
      /\ \A o \in DOMAIN q0.clones \ {p.id} : q.clones[o] = q0.clones[o]
      /\ copy.superior = p.to /\ copy.status = p.row.status /\ (p.to # 0 => copy.level = p.depth + 1)
      /\ \A k \in DOMAIN new :
           /\ new[k].id \in Tree!ChildrenOf(levels, p.id)
           /\ new[k].row = levels[new[k].id] /\ new[k].to = n /\ new[k].depth = copy.level
      /\ \A k, j \in DOMAIN new : k # j => new[k].id # new[j].id
      /\ \A c \in Tree!ChildrenOf(levels, p.id) : \E k \in DOMAIN new : new[k].id = c
  BY Zenon DEF Copied
<1>a. p = q0.children[1] OBVIOUS
<1> HIDE DEF p, copy
<1> USE <1>0, <1>a
<1> DEFINE D(x) == BelowOf(x)
           C == Tree!ChildrenOf(levels, p.id)
           From(k) == (k - Len(new)) + 1
           To(k) == Len(new) + (k - 1)
           t == q0.children
           u == q.children
<1> HIDE DEF t, u
<1>1. IsFiniteSet(DOMAIN levels) BY LevelsAre DEF TreeInv
<1>2. 1 \in DOMAIN t /\ t[1] = p /\ p.id \in DOMAIN levels BY DEF t
<1>3. /\ \A k \in DOMAIN u :
           IF k \in DOMAIN new THEN u[k] = new[k]
           ELSE From(k) \in DOMAIN t \ {1} /\ u[k] = t[From(k)]
      /\ \A k \in DOMAIN new : k \in DOMAIN u
      /\ \A k \in DOMAIN t \ {1} : To(k) \in DOMAIN u \ DOMAIN new
  <2>1. t \in Seq(CopyingType) /\ t # <<>> /\ u = new \o Tail(t) BY DEF t, u
  <2>2. LET v == new \o Tail(t) IN
        /\ \A k \in DOMAIN v :
             IF k \in DOMAIN new THEN v[k] = new[k]
             ELSE (k - Len(new)) + 1 \in DOMAIN t \ {1} /\ v[k] = t[(k - Len(new)) + 1]
        /\ \A k \in DOMAIN new : k \in DOMAIN v
        /\ \A k \in DOMAIN t \ {1} : Len(new) + (k - 1) \in DOMAIN v \ DOMAIN new
    BY <2>1, PrependedAt
  <2> QED BY <2>1, <2>2
<1>4. /\ \A k, j \in DOMAIN u \ DOMAIN new : k # j => From(k) # From(j)
      /\ \A k \in DOMAIN t \ {1} : From(To(k)) = k
  <2>1. Len(new) \in Int /\ DOMAIN u \subseteq Int /\ DOMAIN t \subseteq Int
    <3>1. u \in Seq(CopyingType) /\ t \in Seq(CopyingType) BY PrependedAt DEF t, u
    <3> QED BY <3>1
  <2> QED BY <2>1
<1> HIDE DEF From, To
<1>5. \A k \in DOMAIN t \ {1} : \E j \in DOMAIN u \ DOMAIN new : u[j] = t[k] BY <1>3, <1>4
<1>6. CASE Tree!InCircle(levels, q.id)
  <2>1. PICK k \in DOMAIN t : q.id \in D(t[k].id) BY <1>6 DEF CopiesKnown, CirclesOn, t
  <2>2. CASE k # 1
    <3>1. PICK j \in DOMAIN u : u[j] = t[k] BY <1>5, <2>2
    <3>2. q.id \in D(u[j].id) BY <2>1, <3>1
    <3>3. CirclesOn(q) BY <3>2 DEF CirclesOn, u
    <3> QED BY <1>6, <3>3 DEF CopiesKnown
  <2>3. CASE k = 1
    <3>1. \E c \in C : q.id \in D(c)
      <4>1. CASE q.id = p.id BY <1>6, <4>1 DEF Tree!InCircle, BelowOf
      <4>2. CASE q.id # p.id BY <1>1, <1>2, <2>1, <2>3, <4>2, BelowChildren DEF BelowOf
      <4> QED BY <4>1, <4>2
    <3>2. PICK j \in DOMAIN new : q.id \in D(new[j].id) BY <3>1
    <3> QED BY <1>3, <1>6, <3>2 DEF CopiesKnown, CirclesOn, u
  <2> QED BY <2>2, <2>3
<1>7. CASE ~Tree!InCircle(levels, q.id)
  <2>1. /\ DOMAIN q0.clones \subseteq D(q.id)
        /\ \A x \in D(q.id) : x \in DOMAIN q0.clones \/ \E k \in DOMAIN t : x \in D(t[k].id)
        /\ \A k \in DOMAIN t : D(t[k].id) \subseteq D(q.id) \ DOMAIN q0.clones /\ PendingKnown(q0, t[k])
        /\ \A k, j \in DOMAIN t : k # j => D(t[k].id) \cap D(t[j].id) = {}
        /\ \A o \in DOMAIN q0.clones : CopyKnown(q0, o)
        /\ \A o, s \in DOMAIN q0.clones : o # s => q0.clones[o] # q0.clones[s]
    BY <1>7 DEF CopiesKnown, CopiesOnce, t
  <2>2. p.id \in D(p.id) BY <1>1, <1>2, AllBelow DEF BelowOf
  <2>3. D(p.id) \subseteq D(q.id) \ DOMAIN q0.clones /\ PendingKnown(q0, p) BY <1>2, <2>1
  <2>4. /\ \A c \in C : /\ c # q.id /\ c \in DOMAIN levels /\ p.id \notin D(c) /\ D(c) \subseteq D(p.id)
                        /\ \A d \in C \ {c} : D(c) \cap D(d) = {}
        /\ \A x \in D(p.id) \ {p.id} : \E c \in C : x \in D(c)
    <3>1. p.id \in Tree!FindAllChildLevels(levels, q.id) BY <2>2, <2>3 DEF BelowOf
    <3> QED BY <1>1, <1>7, <3>1, SubtreesApart DEF BelowOf
  <2>5. \A c \in C : levels[c].superior = p.id BY DEF Tree!ChildrenOf
  <2> HIDE DEF C, D
  <2>6. \A o \in DOMAIN q0.clones : q0.clones[o] \in DOMAIN q0.rows /\ q.clones[o] = q0.clones[o]
    BY <2>1, <2>2, <2>3 DEF CopyKnown
  <2>7. DOMAIN q.clones \subseteq D(q.id) BY <2>1, <2>2, <2>3
  <2>8. ASSUME NEW x \in D(q.id)
        PROVE  x \in DOMAIN q.clones \/ \E k \in DOMAIN u : x \in D(u[k].id)
    <3>1. CASE x \in DOMAIN q0.clones BY <3>1
    <3>2. ASSUME NEW k \in DOMAIN t \ {1}, x \in D(t[k].id)
          PROVE  \E j \in DOMAIN u : x \in D(u[j].id)
      BY <1>5, <3>2
    <3>3. CASE x \in D(p.id) \ {p.id}
      <4>1. PICK c \in C : x \in D(c) BY <2>4, <3>3
      <4>2. PICK k \in DOMAIN new : new[k].id = c BY DEF C
      <4> QED BY <1>3, <4>1, <4>2
    <3> QED BY <1>2, <2>1, <3>1, <3>2, <3>3
  <2>9. ASSUME NEW k \in DOMAIN new
        PROVE  new[k].id \in C /\ D(new[k].id) \subseteq D(p.id) \ {p.id} /\ PendingKnown(q, new[k])
    <3>1. new[k].id \in C /\ new[k].row = levels[new[k].id] /\ new[k].to = n /\ new[k].depth = copy.level
      BY DEF C
    <3>2. levels[new[k].id].superior = p.id /\ new[k].id # q.id BY <2>4, <2>5, <3>1
    <3>3. PendingKnown(q, new[k]) BY <3>1, <3>2 DEF PendingKnown
    <3> QED BY <2>4, <3>1, <3>3
  <2>10. ASSUME NEW k \in DOMAIN t \ {1}
         PROVE  D(t[k].id) \subseteq D(q.id) \ DOMAIN q.clones /\ D(t[k].id) \cap D(p.id) = {}
                /\ PendingKnown(q, t[k])
    <3>1. D(t[k].id) \cap D(p.id) = {} BY <1>2, <2>1
    <3>2. D(t[k].id) \subseteq D(q.id) \ DOMAIN q.clones BY <2>1, <2>2, <3>1
    <3>3. PendingKnown(q, t[k])
      <4>1. PendingKnown(q0, t[k]) BY <2>1
      <4> DEFINE c == t[k]
      <4> HIDE DEF c
      <4> QED BY <2>6, <4>1 DEF PendingKnown, c
    <3> QED BY <3>1, <3>2, <3>3
  <2>11. \A k \in DOMAIN u : D(u[k].id) \subseteq D(q.id) \ DOMAIN q.clones /\ PendingKnown(q, u[k])
    <3> SUFFICES ASSUME NEW k \in DOMAIN u
                 PROVE  D(u[k].id) \subseteq D(q.id) \ DOMAIN q.clones /\ PendingKnown(q, u[k])
      OBVIOUS
    <3>1. CASE k \in DOMAIN new BY <1>3, <2>3, <2>9, <3>1
    <3>2. CASE k \notin DOMAIN new BY <1>3, <2>10, <3>2
    <3> QED BY <3>1, <3>2
  <2>12. ASSUME NEW k \in DOMAIN u, NEW j \in DOMAIN u, k # j
         PROVE  D(u[k].id) \cap D(u[j].id) = {}
    <3>1. \A i \in {k, j} : IF i \in DOMAIN new THEN u[i] = new[i]
                            ELSE From(i) \in DOMAIN t \ {1} /\ u[i] = t[From(i)]
      BY <1>3
    <3>2. CASE k \in DOMAIN new /\ j \in DOMAIN new
      <4>1. u[k].id \in C /\ u[j].id \in C /\ u[k].id # u[j].id BY <2>9, <2>12, <3>1, <3>2
      <4> QED BY <2>4, <4>1
    <3>3. CASE k \in DOMAIN new /\ j \notin DOMAIN new
      <4>1. D(u[k].id) \subseteq D(p.id) BY <2>9, <3>1, <3>3
      <4>2. D(u[j].id) \cap D(p.id) = {} BY <2>10, <3>1, <3>3
      <4> QED BY <4>1, <4>2
    <3>4. CASE k \notin DOMAIN new /\ j \in DOMAIN new
      <4>1. D(u[j].id) \subseteq D(p.id) BY <2>9, <3>1, <3>4
      <4>2. D(u[k].id) \cap D(p.id) = {} BY <2>10, <3>1, <3>4
      <4> QED BY <4>1, <4>2
    <3>5. CASE k \notin DOMAIN new /\ j \notin DOMAIN new
      <4>1. From(k) # From(j) BY <1>4, <2>12, <3>5
      <4>2. From(k) \in DOMAIN t /\ From(j) \in DOMAIN t /\ u[k] = t[From(k)] /\ u[j] = t[From(j)]
        BY <3>1, <3>5
      <4>3. D(t[From(k)].id) \cap D(t[From(j)].id) = {} BY <2>1, <4>1, <4>2
      <4> QED BY <4>2, <4>3
    <3> QED BY <3>2, <3>3, <3>4, <3>5
  <2>13. \A o \in DOMAIN q.clones : CopyKnown(q, o)
    <3>1. CopyKnown(q, p.id)
      <4>1. q.clones[p.id] = n /\ n \in DOMAIN q.rows /\ q.rows[q.clones[p.id]] = copy OBVIOUS
      <4>2. CASE p.id = q.id BY <2>3, <4>1, <4>2 DEF CopyKnown, PendingKnown
      <4>3. CASE p.id # q.id
        <5> DEFINE s == levels[p.id].superior
        <5>1. s \in DOMAIN q0.clones /\ p.to = q0.clones[s] /\ p.depth = q0.rows[p.to].level /\ p.row = levels[p.id]
          BY <2>3, <4>3 DEF PendingKnown
        <5>2. p.to \in DOMAIN q0.rows /\ q.clones[s] = p.to /\ s \in DOMAIN q.clones
          BY <2>6, <5>1, Zenon
        <5>3. p.to # 0 /\ q.rows[p.to] = q0.rows[p.to] BY <5>2
        <5> QED
          <6>1. copy.superior = q.clones[s] /\ copy.status = levels[p.id].status
            BY <5>1, <5>2, Zenon
          <6>2. copy.level = q.rows[copy.superior].level + 1
            <7>1. copy.level = p.depth + 1 BY <5>3
            <7>2. q.rows[copy.superior].level = p.depth
              <8>1. q.rows[copy.superior] = q0.rows[p.to] BY <5>3
              <8> QED BY <5>1, <8>1, Zenon
            <7> QED BY <7>1, <7>2
          <6> HIDE DEF s
          <6> QED BY <4>1, <4>3, <5>2, <6>1, <6>2 DEF CopyKnown, s
      <4> QED BY <4>2, <4>3
    <3>2. ASSUME NEW o \in DOMAIN q0.clones
          PROVE  CopyKnown(q, o)
      <4>1. CopyKnown(q0, o) /\ q.clones[o] = q0.clones[o] /\ q0.clones[o] \in DOMAIN q0.rows
            /\ q.rows[q0.clones[o]] = q0.rows[q0.clones[o]]
        BY <2>1, <2>6
      <4>2. CASE o = q.id BY <4>1, <4>2 DEF CopyKnown
      <4>3. CASE o # q.id
        <5> DEFINE s == levels[o].superior
        <5>1. s \in DOMAIN q0.clones /\ q0.rows[q0.clones[o]].superior = q0.clones[s]
              /\ q0.rows[q0.clones[o]].level = q0.rows[q0.clones[s]].level + 1
              /\ q0.rows[q0.clones[o]].status = levels[o].status
          BY <4>1, <4>3 DEF CopyKnown
        <5>2. q.clones[s] = q0.clones[s] /\ q.rows[q0.clones[s]] = q0.rows[q0.clones[s]] /\ s \in DOMAIN q.clones
          BY <2>6, <5>1
        <5> QED BY <4>1, <4>3, <5>1, <5>2 DEF CopyKnown
      <4> QED BY <4>2, <4>3
    <3> QED BY <3>1, <3>2
  <2>14. \A o, s \in DOMAIN q.clones : o # s => q.clones[o] # q.clones[s] BY <2>1, <2>6
  <2>15. CopiesOnce(q) BY <2>7, <2>8, <2>11, <2>12, <2>13, <2>14 DEF CopiesOnce, D, u
  <2> QED BY <1>7, <2>15 DEF CopiesKnown
<1> QED BY <1>6, <1>7

LEMMA PlantCheckClone ==
  ASSUME TreeInv, TreeInv', PlantInv, NEW r \in Requests, Tree!CheckClone(r)
  PROVE  PlantInv'
<1> DEFINE q0 == treeReq[r]
           id == q0.id
           row == levels[id]
           depth == IF Tree!Same(row.superior, Tree!NoLevel) \/ row.level = 0 THEN 0 ELSE row.level - 1
           first == Tree!Pending(id, row, row.superior, depth)
           q == [q0 EXCEPT !.at = "copy", !.children = <<first>>]
<1>1. q0.kind = "clone" /\ q0.at = "check" BY Zenon DEF Tree!CheckClone, Tree!At
<1>2. CASE Tree!Refuse(r) BY <1>2, PlantRefuse
<1>3. CASE Tree!Go(r, q) /\ Tree!Reads
  <2>1. q0 \in TreeRequest /\ id \in DOMAIN levels /\ q0.rows = <<>> /\ q0.clones = <<>>
    BY <1>1 DEF TreeInv, TreeTyped, CarriesLevels, PlantInv, KnowsRows
  <2>2. row.superior \in DOMAIN levels => levels[row.superior].site = row.site
    BY <2>1 DEF PlantInv, SitesHang, Beside
  <2>3. treeReq' = [treeReq EXCEPT ![r] = q] BY <1>3, Zenon DEF Tree!Go
  <2> HIDE DEF depth, id
  <2>4. first.id = id /\ first.row = row /\ first.to = row.superior BY DEF Tree!Pending
  <2> HIDE DEF first
  <2>5. q.kind = "clone" /\ q.at = "copy" /\ q.children = <<first>> /\ q.rows = <<>> /\ q.clones = <<>> /\ q.id = id
    BY <1>1, <2>1 DEF TreeRequest, id
  <2> HIDE DEF q
  <2>6. DOMAIN q.rows = {} /\ \A k \in DOMAIN q.children : q.children[k] = first BY <2>5
  <2>7. CopiesKnown(q) BY <2>1, <2>4, <2>5, CopiesStart
  <2> HIDE DEF row
  <2>8. treeReq'[r] = q /\ levels' = levels => CarriesPlaces(r)'
    BY <2>2, <2>4, <2>5, <2>6 DEF CarriesPlaces, row
  <2>9. treeReq'[r] = q /\ levels' = levels /\ overtaken' = overtaken => KnowsRows(r)'
    BY <2>5, <2>7, CopiesKnownStay DEF KnowsRows
  <2> QED BY <1>3, <2>3, <2>8, <2>9, PlantReads
<1> QED BY <1>2, <1>3, Zenon DEF Tree!CheckClone

LEMMA PlantCloneNext ==
  ASSUME TreeInv, TreeInv', PlantInv, NEW r \in Requests, Tree!CloneNext(r)
  PROVE  PlantInv'
<1> DEFINE q0 == treeReq[r]
           n == lastId + 1
           p == Head(q0.children)
           C == Tree!ChildrenOf(levels, p.id)
           its == Tree!Ascending(C)
           copy == Tree!CopyOf(p, n)
           rows == Tree!With(q0.rows, [i \in {n} |-> copy])
           clones == Tree!With(q0.clones, [i \in {p.id} |-> n])
           new == [k \in DOMAIN its |-> Tree!Pending(its[k], levels[its[k]], n, copy.level)]
           children == new \o Tail(q0.children)
           q == [q0 EXCEPT !.rows = rows, !.clones = clones, !.children = children]
<1>1. /\ q0.kind = "clone" /\ q0.at = "copy" /\ q0.children # <<>>
      /\ n \in Tree!Ids
      /\ treeReq' = [treeReq EXCEPT ![r] = q]
      /\ levels' = levels /\ torn' = torn /\ misplaced' = misplaced /\ overtaken' = overtaken
  BY Zenon DEF Tree!CloneNext, Tree!At, Tree!Go, Tree!NextId, Tree!histories
<1>2. /\ q0 \in TreeRequest /\ q0.children \in Seq(CopyingType) /\ q0.id \in DOMAIN levels
      /\ \A k \in DOMAIN q0.children :
           /\ q0.children[k].id \in DOMAIN levels
           /\ q0.children[k].to \in DOMAIN levels \cup {0} \cup DOMAIN q0.rows
      /\ \A i \in DOMAIN q0.rows :
           q0.rows[i].superior \in DOMAIN levels \cup {0} \cup {j \in DOMAIN q0.rows : j < i}
  BY <1>1, Zenon DEF TreeInv, TreeTyped, CarriesLevels
<1>3. /\ \A i \in DOMAIN q0.rows :
           q0.rows[i].machine \in {i, Nothing} /\ Beside(levels, q0.rows[i]) /\ Beside(q0.rows, q0.rows[i])
      /\ \A k \in DOMAIN q0.children :
           LET c == q0.children[k] IN
           /\ c.row.site = levels[c.id].site
           /\ c.to \in DOMAIN levels => levels[c.to].site = c.row.site
           /\ c.to \in DOMAIN q0.rows => q0.rows[c.to].site = c.row.site
  BY SMTT(20), <1>1 DEF PlantInv, CarriesPlaces
<1>4. lastId \in Nat /\ n \in 1 .. MaxLevels /\ n \in Nat /\ DOMAIN levels \subseteq 1 .. lastId
  BY <1>1, LevelConstants DEF TreeInv, TreeTyped, Tree!Ids
<1>5. DOMAIN q0.rows \subseteq 1 .. lastId BY <1>1 DEF TreeInv, CopiesApart, CopyIds, Tree!At
<1>6. p \in CopyingType /\ p = q0.children[1] /\ 1 \in DOMAIN q0.children
  <2>1. p = q0.children[1] /\ 1 \in DOMAIN q0.children BY <1>1, <1>2
  <2> QED BY <1>2, <2>1
<1>7. n \notin DOMAIN levels /\ n \notin DOMAIN q0.rows /\ n # 0 BY <1>4, <1>5
<1> HIDE DEF p, n
<1>8. /\ copy.superior = p.to /\ copy.site = p.row.site /\ copy.machine \in {n, Nothing}
      /\ copy.status = p.row.status /\ (p.to # 0 => copy.level = p.depth + 1)
  <2>1. p.to # 0 => ~Tree!Same(p.to, Tree!NoLevel) BY DEF Tree!Same, Tree!NoLevel
  <2> QED BY <1>6, <2>1 DEF Tree!CopyOf, CopyingType, Tree!LevelType
<1> HIDE DEF copy
<1>9. /\ DOMAIN rows = DOMAIN q0.rows \cup {n}
      /\ rows[n] = copy /\ \A i \in DOMAIN q0.rows : rows[i] = q0.rows[i]
  BY <1>7 DEF Tree!With
<1>18. /\ DOMAIN clones = DOMAIN q0.clones \cup {p.id} /\ clones[p.id] = n
       /\ \A o \in DOMAIN q0.clones \ {p.id} : clones[o] = q0.clones[o]
  BY DEF Tree!With
<1>10. /\ new \in Seq(CopyingType)
       /\ \A k \in DOMAIN new : /\ new[k].id \in C /\ new[k].row = levels[new[k].id]
                                /\ new[k].to = n /\ new[k].depth = copy.level
       /\ \A k, j \in DOMAIN new : k # j => new[k].id # new[j].id
       /\ \A c \in C : \E k \in DOMAIN new : new[k].id = c
  <2>1. C \subseteq DOMAIN levels BY DEF Tree!ChildrenOf
  <2>2. /\ its \in Seq(C)
        /\ \A i, j \in DOMAIN its : i # j => its[i] # its[j]
        /\ \A c \in C : \E i \in DOMAIN its : its[i] = c
    <3>1. C \subseteq 0 .. lastId BY <1>4, <2>1
    <3> QED BY <1>4, <3>1, AscendingLists
  <2>3. copy.level \in Nat
    <3> DEFINE level == IF Tree!Same(p.to, Tree!NoLevel) THEN 0 ELSE p.depth + 1
    <3>1. p.row \in Tree!LevelType /\ level \in Nat BY <1>6 DEF CopyingType
    <3> HIDE DEF level
    <3> QED BY <3>1 DEF copy, Tree!CopyOf, Tree!LevelType, level
  <2> HIDE DEF its, C
  <2>4. ASSUME NEW k \in DOMAIN its
        PROVE  LET next == Tree!Pending(its[k], levels[its[k]], n, copy.level)
               IN  next \in CopyingType /\ next.id = its[k] /\ next.row = levels[next.id] /\ next.to = n
                   /\ next.depth = copy.level
    <3>1. its[k] \in C /\ its[k] \in Nat /\ levels[its[k]] \in Tree!LevelType
      BY <2>1, <2>2, LevelsAre DEF TreeInv
    <3> QED BY <1>4, <2>3, <3>1 DEF Tree!Pending, CopyingType
  <2>5. DOMAIN its = 1 .. Len(its) /\ Len(its) \in Nat /\ \A k \in DOMAIN its : its[k] \in C
    BY <2>2
  <2>6. new \in Seq(CopyingType) BY <2>4, <2>5
  <2>7. DOMAIN new = DOMAIN its /\ \A k \in DOMAIN its : new[k] = Tree!Pending(its[k], levels[its[k]], n, copy.level)
    OBVIOUS
  <2> HIDE DEF new
  <2>8. \A k \in DOMAIN new : /\ new[k].id = its[k] /\ new[k].row = levels[new[k].id]
                              /\ new[k].to = n /\ new[k].depth = copy.level
    BY <2>4, <2>7
  <2> QED BY <2>2, <2>5, <2>6, <2>7, <2>8
<1>11. p.id \in DOMAIN levels /\ p.row.site = levels[p.id].site
       /\ \A c \in C : c \in DOMAIN levels /\ levels[c].site = p.row.site
  <2>1. p.id \in DOMAIN levels /\ p.row.site = levels[p.id].site BY <1>2, <1>3, <1>6
  <2>2. \A c \in C : c \in DOMAIN levels /\ levels[c].superior = p.id BY DEF Tree!ChildrenOf
  <2>3. \A c \in C : levels[p.id].site = levels[c].site
    BY <2>1, <2>2 DEF PlantInv, SitesHang, Beside
  <2> QED BY <2>1, <2>2, <2>3
<1> HIDE DEF new, rows, clones, C
<1>12. \A k \in DOMAIN children :
         \/ \E i \in DOMAIN new : children[k] = new[i]
         \/ \E i \in DOMAIN q0.children : children[k] = q0.children[i]
  <2> DEFINE t == q0.children
  <2>1. t \in Seq(CopyingType) /\ t # <<>> BY <1>1, <1>2
  <2> HIDE DEF t
  <2>2. \A k \in DOMAIN (new \o Tail(t)) :
             \/ \E i \in DOMAIN new : (new \o Tail(t))[k] = new[i]
             \/ \E i \in DOMAIN t : (new \o Tail(t))[k] = t[i]
    BY SMTT(20), <1>10, <2>1, Prepended
  <2> QED BY <2>2 DEF t
<1> HIDE DEF children
<1>13. q.kind = "clone" /\ q.at = "copy" /\ q.children = children /\ q.rows = rows /\ q.clones = clones /\ q.id = q0.id
  BY <1>1, <1>2 DEF TreeRequest
<1>14. treeReq'[r] = q BY <1>1 DEF TreeInv, TreeTyped
<1> HIDE DEF q
<1>15. \A i \in DOMAIN rows :
         rows[i].machine \in {i, Nothing} /\ Beside(levels, rows[i]) /\ Beside(rows, rows[i])
  <2>1. Beside(levels, copy) /\ Beside(rows, copy)
    BY <1>2, <1>3, <1>6, <1>7, <1>8, <1>9 DEF Beside
  <2>2. \A i \in DOMAIN q0.rows : Beside(rows, q0.rows[i]) BY <1>2, <1>3, <1>7, <1>9 DEF Beside
  <2> QED BY SMTT(20), <1>3, <1>8, <1>9, <2>1, <2>2
<1>16. ASSUME NEW k \in DOMAIN children
       PROVE  LET c == children[k] IN
              /\ c.row.site = levels[c.id].site
              /\ c.to \in DOMAIN levels => levels[c.to].site = c.row.site
              /\ c.to \in DOMAIN rows => rows[c.to].site = c.row.site
  <2>1. CASE \E i \in DOMAIN new : children[k] = new[i] BY <1>7, <1>8, <1>9, <1>10, <1>11, <2>1
  <2>2. CASE \E i \in DOMAIN q0.children : children[k] = q0.children[i]
    <3>1. PICK i \in DOMAIN q0.children : children[k] = q0.children[i] BY <2>2
    <3>2. q0.children[i].to # n BY <1>2, <1>7
    <3> QED BY <1>3, <1>9, <3>1, <3>2
  <2> QED BY <1>12, <2>1, <2>2
<1>17. CarriesPlaces(r)' BY <1>1, <1>13, <1>14, <1>15, <1>16 DEF CarriesPlaces
<1>19. r \notin overtaken => CopiesKnown(q)
  <2> SUFFICES ASSUME r \notin overtaken PROVE CopiesKnown(q) OBVIOUS
  <2>1. CopiesKnown(q0) BY <1>1 DEF PlantInv, KnowsRows
  <2>2. 0 \notin DOMAIN q0.rows BY <1>5
  <2>3. /\ \A k \in DOMAIN new :
             /\ new[k].id \in Tree!ChildrenOf(levels, p.id)
             /\ new[k].row = levels[new[k].id] /\ new[k].to = n /\ new[k].depth = copy.level
        /\ \A c \in Tree!ChildrenOf(levels, p.id) : \E k \in DOMAIN new : new[k].id = c
    BY <1>10 DEF C
  <2>4. q.children = new \o Tail(q0.children) BY <1>13 DEF children
  <2>5. /\ DOMAIN q.rows = DOMAIN q0.rows \cup {n} /\ q.rows[n] = copy
        /\ \A i \in DOMAIN q0.rows : q.rows[i] = q0.rows[i]
        /\ DOMAIN q.clones = DOMAIN q0.clones \cup {p.id} /\ q.clones[p.id] = n
        /\ \A o \in DOMAIN q0.clones \ {p.id} : q.clones[o] = q0.clones[o]
        /\ q.id = q0.id
    BY <1>9, <1>13, <1>18
  <2>6. Copied(q0, q, n, new) BY <1>6, <1>8, <1>10, <2>3, <2>4, <2>5 DEF Copied
  <2> DEFINE before == q0
  <2>7. /\ Copied(before, q, n, new) /\ CopiesKnown(before) /\ q.id \in DOMAIN levels
        /\ before.children \in Seq(CopyingType) /\ before.children # <<>> /\ new \in Seq(CopyingType)
        /\ \A k \in DOMAIN before.children : before.children[k].id \in DOMAIN levels
        /\ n # 0 /\ n \notin DOMAIN before.rows /\ 0 \notin DOMAIN before.rows
    BY <1>1, <1>2, <1>7, <1>10, <2>1, <2>2, <2>5, <2>6
  <2> HIDE DEF before
  <2> QED BY <2>7, CopiesGoOn
<1>20. KnowsRows(r)'
  <2>1. levels' = levels /\ overtaken' = overtaken BY <1>1
  <2> QED BY <1>13, <1>14, <1>19, <2>1, CopiesKnownStay DEF KnowsRows
<1> QED BY <1>1, <1>17, <1>20, PlantStays

LEMMA PlantCommitClone ==
  ASSUME TreeInv, TreeInv', PlantInv, NEW r \in Requests, Tree!CommitClone(r)
  PROVE  PlantInv'
<1> DEFINE q0 == treeReq[r]
           rows == q0.rows
           q == Tree!Idle
<1>1. /\ q0.kind = "clone" /\ q0.at = "copy"
      /\ Tree!WriteLevels(r, Tree!With(levels, rows), DOMAIN rows, {})
      /\ treeReq' = [treeReq EXCEPT ![r] = q]
  BY Zenon DEF Tree!CommitClone, Tree!At, Tree!Done, Tree!Go
<1>2. \A i \in DOMAIN rows :
           rows[i].machine \in {i, Nothing} /\ Beside(levels, rows[i]) /\ Beside(rows, rows[i])
  BY <1>1 DEF PlantInv, CarriesPlaces
<1>3. CopyIds(r) = DOMAIN rows /\ DOMAIN rows \cap DOMAIN levels = {}
  BY <1>1 DEF TreeInv, CopiesApart, CopyIds, Tree!At
<1>4. \A i \in DOMAIN rows \ DOMAIN levels : \A s \in Requests \ {r} : i \notin CopyIds(s)
  BY <1>3 DEF TreeInv, CopiesApart
<1>5. treeReq'[r] = q BY <1>1 DEF TreeInv, TreeTyped
<1>6. CarriesPlaces(r)' /\ KnowsRows(r)' BY <1>5, IdleTreeRequest DEF CarriesPlaces, KnowsRows
<1> HIDE DEF rows, q
<1>7. \A i \in DOMAIN rows :
         /\ i \in DOMAIN levels => rows[i].site = levels[i].site
         /\ Beside(levels, rows[i])
         /\ rows[i].superior \notin DOMAIN levels => Beside(rows, rows[i])
         /\ OwnMachine(i, rows[i])
  BY <1>2, <1>3, PlantConstants DEF OwnMachine
<1>8. \A i \in DOMAIN rows \cap DOMAIN levels : Tree!IsActive(levels[i]) /\ ~Tree!IsActive(rows[i])
           => Tree!ChildrenOf(levels, i) \subseteq DOMAIN rows
  BY <1>3
<1>9. \A i \in DOMAIN rows : Keeps(i, rows[i]) \/ rows[i].machine \in {i, Nothing} \/ (i = 0 /\ IsFreeFor(rows[i], i))
  BY <1>2
<1> QED BY <1>1, <1>4, <1>6, <1>7, <1>8, <1>9, PlantWritten

LEMMA PlantCards ==
  ASSUME TreeInv, TreeInv', PlantInv, NEW r \in Requests, Tree!CheckCard(r) \/ Tree!InsertCard(r)
  PROVE  PlantInv'
<1> DEFINE q0 == treeReq[r]
           card == Tree!OnCreation(levels, q0.id)
           found == [q0 EXCEPT !.at = "insert", !.copy = card]
           lost == [q0 EXCEPT !.at = "circling"]
<1>1. CASE Tree!InsertCard(r)
  <2>1. /\ treeReq' = [treeReq EXCEPT ![r] = Tree!Idle]
        /\ levels' = levels /\ misplaced' = misplaced /\ overtaken' = overtaken
        /\ torn' = IF r \in overtaken THEN torn \cup {q0.id} ELSE torn
    BY <1>1, Zenon DEF Tree!InsertCard, Tree!Done, Tree!Go
  <2>2. torn \subseteq torn' BY <2>1
  <2> QED BY <2>1, <2>2, PlantRequestEnds
<1>2. CASE Tree!CheckCard(r)
  <2>1. q0.kind = "card" /\ q0 \in TreeRequest
    BY <1>2, Zenon DEF Tree!CheckCard, Tree!At, TreeInv, TreeTyped
  <2>2. ASSUME NEW q, Tree!Go(r, q), Tree!Reads, q.kind = "card"
        PROVE  PlantInv'
    <3>1. treeReq' = [treeReq EXCEPT ![r] = q] BY <2>2, Zenon DEF Tree!Go
    <3>2. treeReq'[r] = q /\ levels' = levels /\ overtaken' = overtaken => CarriesPlaces(r)' /\ KnowsRows(r)'
      BY <2>2 DEF CarriesPlaces, KnowsRows
    <3> QED BY <2>2, <3>1, <3>2, PlantReads
  <2> HIDE DEF card
  <2>3. found.kind = "card" /\ lost.kind = "card" BY <2>1 DEF TreeRequest
  <2>4. Tree!Refuse(r) \/ (Tree!Reads /\ (Tree!Go(r, found) \/ Tree!Go(r, lost)))
    BY <1>2, Zenon DEF Tree!CheckCard, card
  <2> HIDE DEF found, lost
  <2> QED BY <2>2, <2>3, <2>4, PlantRefuse
<1> QED BY <1>1, <1>2

LEMMA PlantNextKeeps ==
  ASSUME TreeInv, PlantInv, [Tree!Next]_Tree!vars
  PROVE  PlantInv'
<1>0. TreeInv' BY TreeNextKeeps
<1>1. CASE /\ levels' = levels /\ treeReq' = treeReq /\ overtaken' = overtaken
           /\ torn' = torn /\ misplaced' = misplaced
  <2>1. SitesHang' /\ MachinesOwned' /\ ActiveHang' /\ Tree!MachineIdsUnique'
    BY <1>1 DEF PlantInv, SitesHang, MachinesOwned, ActiveHang, Tree!MachineIdsUnique, Beside, OwnMachine, Bad,
                Tree!Unsound, Tree!IsActive
  <2>2. ASSUME NEW r \in Requests
        PROVE  CarriesPlaces(r)' /\ KnowsRows(r)'
    <3>1. CarriesPlaces(r) /\ KnowsRows(r) BY DEF PlantInv
    <3>2. CarriesPlaces(r)' BY <1>0, <1>1, PlacesStay
    <3>3. KnowsRows(r)'
      BY <1>1, <3>1, CopiesKnownStay DEF KnowsRows, IsFreeFor, TakesAlong, Tree!IsActive, SameColumns
    <3> QED BY <3>2, <3>3
  <2> QED BY <2>1, <2>2 DEF PlantInv
<1>2. ASSUME NEW r \in Requests, LevelStep(r)
      PROVE  PlantInv'
  BY <1>0, <1>2, PlantCalls, PlantCheckCreate, PlantInsertLevel, PlantCheckUpdate, PlantCommitUpdate,
     PlantCheckMove, PlantReadChildren, PlantSaveMoved, PlantReassign, PlantSaveChild, PlantReadAffected,
     PlantCheckClone, PlantCloneNext, PlantCommitClone, PlantCards, PlantFail, Zenon DEF LevelStep
<1> QED BY <1>1, <1>2, LevelSteps

\* Levels hang on levels of their site, those in use on levels in use, and none has
\* another's machine id, unless an overlapped request or a move has written them
\* (create, update, moveLevel, cloneLevel of level.service.ts).
THEOREM PlantInvariance == Tree!Spec => [](TreeInv /\ PlantInv)
<1>1. Tree!Init => TreeInv /\ PlantInv BY TreeInit, PlantInit
<1>2. TreeInv /\ PlantInv /\ [Tree!Next]_Tree!vars => TreeInv' /\ PlantInv'
  BY TreeNextKeeps, PlantNextKeeps
<1> QED BY <1>1, <1>2, PTL DEF Tree!Spec

(***************************************************************************)
(* The tree that clients load from the roots.                              *)
(***************************************************************************)
LEMMA LoadSteps ==
  ASSUME NEW site, NEW last \in Nat
  PROVE  \E f : IsLoad(site, last, f)
<1> DEFINE Steps(f, k) == f = [n \in 1 .. k |-> LoadedIn(site, n, f[n - 1])]
           Missing == {k \in Nat : ~ \E f : Steps(f, k)}
<1>1. ASSUME Missing # {}
      PROVE  FALSE
  <2>1. PICK k \in Missing : \A j \in Missing : k <= j BY <1>1, Smallest
  <2>2. CASE k = 0
    <3> DEFINE f == [n \in 1 .. 0 |-> {}]
    <3>1. f = [n \in 1 .. 0 |-> LoadedIn(site, n, f[n - 1])] OBVIOUS
    <3> QED BY <2>1, <2>2, <3>1
  <2>3. CASE k # 0
    <3>1. k - 1 \in Nat /\ k - 1 \notin Missing
      <4>1. Missing \subseteq Nat OBVIOUS
      <4> HIDE DEF Missing
      <4> QED BY <2>1, <2>3, <4>1
    <3>2. PICK g : Steps(g, k - 1) BY <3>1
    <3> DEFINE f == [n \in 1 .. k |-> IF n = k THEN LoadedIn(site, k, g[k - 1]) ELSE g[n]]
    <3>3. ASSUME NEW n \in 1 .. k
          PROVE  f[n] = LoadedIn(site, n, f[n - 1])
      <4>1. n # 1 => n - 1 \in 1 .. k - 1 /\ f[n - 1] = g[n - 1] BY <3>1
      <4>2. CASE n = k BY <4>1, <4>2 DEF LoadedIn
      <4>3. CASE n # k
        <5>1. n \in 1 .. k - 1 /\ f[n] = g[n] /\ g[n] = LoadedIn(site, n, g[n - 1])
          BY <3>1, <3>2, <4>3
        <5> QED BY <4>1, <5>1 DEF LoadedIn
      <4> QED BY <4>2, <4>3
    <3>4. Steps(f, k) BY <3>3
    <3> QED BY <2>1, <3>4
  <2> QED BY <2>2, <2>3
<1> QED BY <1>1 DEF IsLoad

LEMMA LoadIs ==
  ASSUME NEW site, NEW depth \in Nat
  PROVE  \E f : IsLoad(site, depth, f) /\ Tree!GetLevelTree(site, depth) = f[depth]
<1> DEFINE Is(f) == f = [n \in 1 .. depth |->
             IF n = 1 THEN Tree!RootLevels(site)
             ELSE f[n-1] \cup {c \in DOMAIN levels : Tree!IsActive(levels[c]) /\ levels[c].superior \in f[n-1]}]
           tree == CHOOSE f : Is(f)
<1>1. Tree!GetLevelTree(site, depth) = tree[depth] BY Zenon DEF Tree!GetLevelTree
<1>2. \E f : Is(f)
  <2>1. PICK f : IsLoad(site, depth, f) BY LoadSteps
  <2>2. Is(f) BY <2>1, Zenon DEF LoadedIn, IsLoad
  <2> QED BY <2>2, Zenon
<1>3. Is(tree) BY <1>2, Zenon
<1> QED BY <1>1, <1>3, Zenon DEF LoadedIn, IsLoad

LEMMA LoadsAgree ==
  ASSUME NEW site, NEW last \in Nat, NEW f, IsLoad(site, last, f), NEW g, IsLoad(site, last + 1, g)
  PROVE  \A n \in 1 .. last : f[n] = g[n]
<1> DEFINE Odd == {n \in 1 .. last : f[n] # g[n]}
<1> SUFFICES ASSUME Odd # {} PROVE FALSE OBVIOUS
<1>1. PICK n \in Odd : \A m \in Odd : n <= m
  <2>1. Odd \in SUBSET Nat OBVIOUS
  <2> HIDE DEF Odd
  <2> QED BY <2>1, Smallest
<1>2. n # 1 => n - 1 \in 1 .. last /\ f[n - 1] = g[n - 1]
  <2>1. n - 1 \notin Odd
    <3> HIDE DEF Odd
    <3>1. n \in Nat /\ ~(n <= n - 1) BY DEF Odd
    <3> QED BY <1>1, <3>1
  <2> QED BY <2>1
<1>3. f[n] = LoadedIn(site, n, f[n - 1]) /\ g[n] = LoadedIn(site, n, g[n - 1])
  <2>1. n \in 1 .. last /\ n \in 1 .. last + 1 OBVIOUS
  <2> HIDE DEF Odd
  <2> QED BY <2>1 DEF IsLoad
<1> QED BY <1>2, <1>3 DEF LoadedIn

\* The tree to one depth more has the children in use of the tree.
LEMMA TreeGrows ==
  ASSUME NEW site
  PROVE  /\ Tree!GetLevelTree(site, 1) = Tree!RootLevels(site)
         /\ \A n \in Nat \ {0} :
              Tree!GetLevelTree(site, n + 1) =
                Tree!GetLevelTree(site, n) \cup
                {c \in DOMAIN levels : Tree!IsActive(levels[c]) /\ levels[c].superior \in Tree!GetLevelTree(site, n)}
<1>1. Tree!GetLevelTree(site, 1) = Tree!RootLevels(site)
  <2>1. PICK f : IsLoad(site, 1, f) /\ Tree!GetLevelTree(site, 1) = f[1] BY LoadIs
  <2>2. f[1] = LoadedIn(site, 1, f[1 - 1]) BY <2>1 DEF IsLoad
  <2> QED BY <2>1, <2>2 DEF LoadedIn
<1>2. ASSUME NEW n \in Nat \ {0}
      PROVE  Tree!GetLevelTree(site, n + 1) =
               Tree!GetLevelTree(site, n) \cup
               {c \in DOMAIN levels : Tree!IsActive(levels[c]) /\ levels[c].superior \in Tree!GetLevelTree(site, n)}
  <2>1. PICK f : IsLoad(site, n, f) /\ Tree!GetLevelTree(site, n) = f[n] BY LoadIs
  <2>2. PICK g : IsLoad(site, n + 1, g) /\ Tree!GetLevelTree(site, n + 1) = g[n + 1] BY LoadIs
  <2>3. f[n] = g[n] BY <2>1, <2>2, LoadsAgree
  <2>4. g[n + 1] = LoadedIn(site, n + 1, g[n])
    <3>1. n + 1 \in 1 .. n + 1 /\ (n + 1) - 1 = n OBVIOUS
    <3>2. g[n + 1] = LoadedIn(site, n + 1, g[(n + 1) - 1]) BY <2>2, <3>1 DEF IsLoad
    <3> QED BY <3>1, <3>2
  <2>5. n + 1 # 1 OBVIOUS
  <2> QED BY <2>1, <2>2, <2>3, <2>4, <2>5 DEF LoadedIn
<1> QED BY <1>1, <1>2

\* The tree to any depth has only levels of the site that are in use.
LEMMA TreeIsInUse ==
  ASSUME SitesHang, NEW site, NEW n \in Nat \ {0}
  PROVE  Tree!GetLevelTree(site, n) \subseteq Tree!FindSiteActiveLevels(site)
<1> DEFINE T(k) == Tree!GetLevelTree(site, k)
           Odd == {k \in Nat \ {0} : ~ (T(k) \subseteq Tree!FindSiteActiveLevels(site))}
<1> HIDE DEF T
<1>1. /\ T(1) = Tree!RootLevels(site)
      /\ \A k \in Nat \ {0} :
           T(k + 1) = T(k) \cup {c \in DOMAIN levels : Tree!IsActive(levels[c]) /\ levels[c].superior \in T(k)}
  BY TreeGrows DEF T
<1>2. T(1) \subseteq Tree!FindSiteActiveLevels(site)
  BY <1>1 DEF Tree!RootLevels, Tree!GetChildrenLevels
<1>3. ASSUME NEW k \in Nat \ {0}, T(k) \subseteq Tree!FindSiteActiveLevels(site)
      PROVE  T(k + 1) \subseteq Tree!FindSiteActiveLevels(site)
  BY <1>1, <1>3 DEF SitesHang, Beside, Tree!FindSiteActiveLevels, Tree!FindSiteLevels
<1>4. ASSUME Odd # {}
      PROVE  FALSE
  <2>1. PICK k \in Odd : \A m \in Odd : k <= m
    <3>1. Odd \in SUBSET Nat OBVIOUS
    <3> HIDE DEF Odd
    <3> QED BY <1>4, <3>1, Smallest
  <2>2. k \in Nat \ {0} /\ k # 1 /\ ~ (T(k) \subseteq Tree!FindSiteActiveLevels(site)) BY <1>2
  <2>3. k - 1 \in Nat \ {0} /\ (k - 1) + 1 = k /\ ~(k <= k - 1) BY <2>2
  <2>4. T(k - 1) \subseteq Tree!FindSiteActiveLevels(site) BY <2>1, <2>3
  <2> QED BY <1>3, <2>2, <2>3, <2>4
<1> QED BY <1>4 DEF T

\* A tree that grows until it has more than there can be stops before.
LEMMA GrowthStops ==
  ASSUME NEW T, NEW max \in Nat \ {0}, NEW all, IsFiniteSet(all), Cardinality(all) <= max,
         \A n \in 1 .. max + 1 : T[n] \subseteq all,
         \A n \in 1 .. max : T[n] \subseteq T[n + 1],
         T[1] # {}
  PROVE  \E d \in 1 .. max : T[d] = T[d + 1]
<1> SUFFICES ASSUME \A d \in 1 .. max : T[d] # T[d + 1] PROVE FALSE OBVIOUS
<1>1. \A n \in 1 .. max + 1 : IsFiniteSet(T[n]) /\ Cardinality(T[n]) \in Nat /\ Cardinality(T[n]) <= Cardinality(all)
  BY FS_Subset, FS_CardinalityType
<1> DEFINE Odd == {n \in 1 .. max + 1 : ~ (Cardinality(T[n]) >= n)}
<1>2. Cardinality(T[1]) >= 1
  <2>1. 1 \in 1 .. max + 1 OBVIOUS
  <2>2. IsFiniteSet(T[1]) /\ Cardinality(T[1]) \in Nat BY <1>1, <2>1
  <2>3. Cardinality(T[1]) # 0 BY <2>2, FS_EmptySet
  <2> QED BY <2>2, <2>3
<1>3. ASSUME NEW n \in 1 .. max, Cardinality(T[n]) >= n
      PROVE  Cardinality(T[n + 1]) >= n + 1
  <2>1. n \in 1 .. max + 1 /\ n + 1 \in 1 .. max + 1 OBVIOUS
  <2>2. IsFiniteSet(T[n + 1]) /\ Cardinality(T[n]) \in Nat /\ Cardinality(T[n + 1]) \in Nat
    BY <1>1, <2>1
  <2>3. T[n] \subseteq T[n + 1] /\ T[n] # T[n + 1] OBVIOUS
  <2>4. Cardinality(T[n]) < Cardinality(T[n + 1]) BY <2>2, <2>3, FS_Subset
  <2> QED BY <1>3, <2>2, <2>4
<1>4. ASSUME Odd # {}
      PROVE  FALSE
  <2>1. PICK n \in Odd : \A m \in Odd : n <= m
    <3>1. Odd \in SUBSET Nat OBVIOUS
    <3> HIDE DEF Odd
    <3> QED BY <1>4, <3>1, Smallest
  <2>2. n \in 1 .. max + 1 /\ n # 1 /\ ~ (Cardinality(T[n]) >= n) BY <1>2
  <2>3. n - 1 \in 1 .. max /\ n - 1 \in 1 .. max + 1 /\ (n - 1) + 1 = n /\ ~(n <= n - 1) BY <2>2
  <2>4. Cardinality(T[n - 1]) >= n - 1 BY <2>1, <2>3
  <2>5. Cardinality(T[(n - 1) + 1]) >= (n - 1) + 1 BY <1>3, <2>3, <2>4
  <2> QED BY <2>2, <2>3, <2>5
<1>5. Cardinality(T[max + 1]) >= max + 1
  <2>1. max + 1 \in 1 .. max + 1 OBVIOUS
  <2> QED BY <1>4, <2>1
<1>6. max + 1 \in 1 .. max + 1 /\ Cardinality(all) \in Nat BY FS_CardinalityType
<1> QED BY <1>1, <1>5, <1>6

\* The statistics find the depth at which the tree of a site is complete.
LEMMA DepthIsFound ==
  ASSUME TreeInv, SitesHang, NEW site, Tree!RootLevels(site) # {}
  PROVE  LET depth == Tree!GetLevelStats(site).maxDepth IN
         /\ depth \in 1 .. MaxLevels
         /\ Tree!GetLevelTree(site, depth) = Tree!GetLevelTree(site, depth + 1)
<1> DEFINE T(k) == Tree!GetLevelTree(site, k)
           Complete(d) == T(d) = T(d + 1) /\ (d = 1 \/ T(d - 1) # T(d))
           depth == CHOOSE d \in Tree!Ids : Complete(d)
<1>0. MaxLevels \in Nat \ {0} /\ Tree!Ids = 1 .. MaxLevels
  BY TreeAssumption, Zenon DEF Tree!LevelsAssumption, Tree!Ids
<1>1. Tree!GetLevelStats(site).maxDepth = depth
  <2>1. Tree!GetLevelStats(site).maxDepth =
          IF Tree!RootLevels(site) = {} THEN 0 ELSE depth
    BY DEF Tree!GetLevelStats
  <2> QED BY <2>1
<1> HIDE DEF T
<1>2. /\ T(1) = Tree!RootLevels(site)
      /\ \A k \in Nat \ {0} :
           T(k + 1) = T(k) \cup {c \in DOMAIN levels : Tree!IsActive(levels[c]) /\ levels[c].superior \in T(k)}
  BY TreeGrows DEF T
<1>3. \A n \in Nat \ {0} : T(n) \subseteq DOMAIN levels
  <2>1. \A n \in Nat \ {0} : T(n) \subseteq Tree!FindSiteActiveLevels(site) BY TreeIsInUse DEF T
  <2> QED BY <2>1 DEF Tree!FindSiteActiveLevels, Tree!FindSiteLevels
<1>4. \E d \in 1 .. MaxLevels : T(d) = T(d + 1)
  <2>1. IsFiniteSet(DOMAIN levels) /\ Cardinality(DOMAIN levels) <= MaxLevels
    <3>1. DOMAIN levels \subseteq 1 .. MaxLevels BY <1>0, LevelsAre DEF TreeInv
    <3>2. IsFiniteSet(1 .. MaxLevels) /\ Cardinality(1 .. MaxLevels) = MaxLevels
      BY <1>0, FS_Interval
    <3> QED BY <1>0, <3>1, <3>2, FS_Subset
  <2>2. /\ \A n \in 1 .. MaxLevels + 1 : T(n) \subseteq DOMAIN levels
        /\ \A n \in 1 .. MaxLevels : T(n) \subseteq T(n + 1)
        /\ T(1) # {}
    BY <1>0, <1>2, <1>3
  <2> DEFINE F == [n \in 1 .. MaxLevels + 1 |-> T(n)]
  <2>3. \A n \in 1 .. MaxLevels + 1 : F[n] = T(n) OBVIOUS
  <2> HIDE DEF F
  <2>4. 1 \in 1 .. MaxLevels + 1 /\ \A n \in 1 .. MaxLevels : n \in 1 .. MaxLevels + 1 /\ n + 1 \in 1 .. MaxLevels + 1
    BY <1>0
  <2>5. /\ \A n \in 1 .. MaxLevels + 1 : F[n] \subseteq DOMAIN levels
        /\ \A n \in 1 .. MaxLevels : F[n] \subseteq F[n + 1]
        /\ F[1] # {}
    BY <2>2, <2>3, <2>4
  <2>6. \E d \in 1 .. MaxLevels : F[d] = F[d + 1] BY <1>0, <2>1, <2>5, GrowthStops
  <2> QED BY <2>3, <2>4, <2>6
<1>5. \E d \in Tree!Ids : Complete(d)
  <2> DEFINE Still == {d \in 1 .. MaxLevels : T(d) = T(d + 1)}
  <2>1. PICK d \in Still : \A m \in Still : d <= m
    <3>1. Still \in SUBSET Nat /\ Still # {} BY <1>4
    <3> HIDE DEF Still
    <3> QED BY <3>1, Smallest
  <2>2. ASSUME d # 1
        PROVE  T(d - 1) # T(d)
    <3>1. d - 1 \in 1 .. MaxLevels /\ (d - 1) + 1 = d /\ ~(d <= d - 1) BY <1>0, <2>2
    <3> QED BY <2>1, <3>1
  <2> QED BY <1>0, <2>1, <2>2
<1> HIDE DEF Complete
<1>6. depth \in Tree!Ids /\ Complete(depth) BY <1>5
<1> QED BY <1>0, <1>1, <1>6 DEF Complete, T

\* What does not grow once does not grow again.
LEMMA TreeIsComplete ==
  ASSUME TreeInv, SitesHang, NEW site
  PROVE  LET tree == Tree!GetLevelTree(site, MaxLevels) IN
         /\ Tree!RootLevels(site) \subseteq tree
         /\ \A c \in DOMAIN levels : Tree!IsActive(levels[c]) /\ levels[c].superior \in tree => c \in tree
         /\ tree # {} => tree = Tree!GetLevelTree(site, Tree!GetLevelStats(site).maxDepth)
                         /\ Tree!GetLevelStats(site).maxDepth \in 1 .. MaxLevels
<1> DEFINE T(k) == Tree!GetLevelTree(site, k)
           Under(S) == {c \in DOMAIN levels : Tree!IsActive(levels[c]) /\ levels[c].superior \in S}
<1>0. MaxLevels \in Nat \ {0} BY TreeAssumption, Zenon DEF Tree!LevelsAssumption
<1> HIDE DEF T
<1>1. T(1) = Tree!RootLevels(site) /\ \A k \in Nat \ {0} : T(k + 1) = T(k) \cup Under(T(k))
  BY TreeGrows DEF T
<1> HIDE DEF Under
<1>2. ASSUME NEW d \in 1 .. MaxLevels, T(d) = T(d + 1)
      PROVE  T(MaxLevels) = T(d) /\ Under(T(MaxLevels)) \subseteq T(MaxLevels)
  <2> DEFINE Odd == {n \in Nat : d <= n /\ T(n) # T(d)}
  <2>1. Under(T(d)) \subseteq T(d) BY <1>1, <1>2
  <2>2. ASSUME Odd # {}
        PROVE  FALSE
    <3>1. PICK n \in Odd : \A m \in Odd : n <= m
      <4>1. Odd \in SUBSET Nat OBVIOUS
      <4> HIDE DEF Odd
      <4> QED BY <2>2, <4>1, Smallest
    <3>2. n \in Nat /\ d <= n /\ T(n) # T(d) /\ n # d OBVIOUS
    <3>3. n - 1 \in Nat \ {0} /\ d <= n - 1 /\ (n - 1) + 1 = n /\ ~(n <= n - 1) BY <1>2, <3>2
    <3>4. T(n - 1) = T(d) BY <3>1, <3>3
    <3>5. T((n - 1) + 1) = T(n - 1) \cup Under(T(n - 1)) BY <1>1, <3>3
    <3> QED BY <2>1, <3>2, <3>3, <3>4, <3>5
  <2>3. T(MaxLevels) = T(d) BY <1>0, <1>2, <2>2
  <2> QED BY <2>1, <2>3
<1>3. T(1) \subseteq T(MaxLevels)
  <2> DEFINE Odd == {n \in Nat \ {0} : ~ (T(1) \subseteq T(n))}
  <2>1. ASSUME Odd # {}
        PROVE  FALSE
    <3>1. PICK n \in Odd : \A m \in Odd : n <= m
      <4>1. Odd \in SUBSET Nat OBVIOUS
      <4> HIDE DEF Odd
      <4> QED BY <2>1, <4>1, Smallest
    <3>2. n \in Nat \ {0} /\ ~ (T(1) \subseteq T(n)) /\ n # 1 OBVIOUS
    <3>3. n - 1 \in Nat \ {0} /\ (n - 1) + 1 = n /\ ~(n <= n - 1) BY <3>2
    <3>4. T(1) \subseteq T(n - 1) BY <3>1, <3>3
    <3>5. T((n - 1) + 1) = T(n - 1) \cup Under(T(n - 1)) BY <1>1, <3>3
    <3> QED BY <3>2, <3>3, <3>4, <3>5
  <2> QED BY <1>0, <2>1
<1>4. CASE Tree!RootLevels(site) = {}
  <2>1. T(1) = T(1 + 1)
    <3>1. T(1 + 1) = T(1) \cup Under(T(1)) BY <1>1
    <3>2. Under(T(1)) = {} BY <1>1, <1>4 DEF Under
    <3> QED BY <3>1, <3>2
  <2>2. T(MaxLevels) = T(1) /\ Under(T(MaxLevels)) \subseteq T(MaxLevels) BY <1>0, <1>2, <2>1
  <2> QED BY <1>1, <1>4, <2>2 DEF T, Under
<1>5. CASE Tree!RootLevels(site) # {}
  <2> DEFINE depth == Tree!GetLevelStats(site).maxDepth
  <2>1. depth \in 1 .. MaxLevels /\ T(depth) = T(depth + 1) BY <1>5, DepthIsFound DEF T
  <2> HIDE DEF depth
  <2>2. T(MaxLevels) = T(depth) /\ Under(T(MaxLevels)) \subseteq T(MaxLevels) BY <1>2, <2>1
  <2> QED BY <1>1, <1>3, <2>1, <2>2 DEF T, Under, depth
<1> QED BY <1>4, <1>5

\* A level of the tree is no deeper than the tree is.
LEMMA ChainsFitTree ==
  ASSUME TreeInv, NEW site, NEW depth \in Nat \ {0}, NEW l \in Tree!GetLevelTree(site, depth), l \in DOMAIN levels
  PROVE  Len(Tree!ChainOf(levels, l)) <= depth
<1> DEFINE T(k) == Tree!GetLevelTree(site, k)
           chain == Tree!ChainOf(levels, l)
           Short(n) == \A i \in 1 .. Len(chain) : chain[i] \in T(n) => Len(chain) - i + 1 <= n
           Odd == {n \in Nat \ {0} : ~ Short(n)}
<1> HIDE DEF T
<1>1. /\ T(1) = Tree!RootLevels(site)
      /\ \A k \in Nat \ {0} :
           T(k + 1) = T(k) \cup {c \in DOMAIN levels : Tree!IsActive(levels[c]) /\ levels[c].superior \in T(k)}
  BY TreeGrows DEF T
<1>2. /\ chain \in Seq(DOMAIN levels) /\ Len(chain) \in Nat \ {0} /\ chain[1] = l
      /\ \A i \in 1 .. Len(chain) - 1 : chain[i + 1] = levels[chain[i]].superior
  <2>1. IsFiniteSet(DOMAIN levels) BY LevelsAre DEF TreeInv
  <2>2. /\ chain \in Seq(DOMAIN levels) /\ chain # <<>> /\ chain[1] = l
        /\ \A i \in 1 .. Len(chain) - 1 : chain[i + 1] = levels[chain[i]].superior
    BY <2>1, ChainClimbs
  <2> HIDE DEF chain
  <2> QED BY <2>2
<1> HIDE DEF chain
<1>3. 0 \notin DOMAIN levels BY LevelsAre DEF TreeInv
<1>4. Short(1)
  <2> SUFFICES ASSUME NEW i \in 1 .. Len(chain), chain[i] \in T(1)
               PROVE  Len(chain) - i + 1 <= 1
    OBVIOUS
  <2>1. levels[chain[i]].superior = 0
    BY <1>1 DEF Tree!RootLevels, Tree!GetChildrenLevels, Tree!NoLevel
  <2>2. ASSUME i # Len(chain)
        PROVE  FALSE
    <3>1. i \in 1 .. Len(chain) - 1 /\ i + 1 \in 1 .. Len(chain) BY <1>2, <2>2
    <3>2. chain[i + 1] \in DOMAIN levels BY <1>2, <3>1
    <3> QED BY <1>2, <1>3, <2>1, <3>1, <3>2
  <2> QED BY <1>2, <2>2
<1>5. ASSUME NEW n \in Nat \ {0}, Short(n)
      PROVE  Short(n + 1)
  <2> SUFFICES ASSUME NEW i \in 1 .. Len(chain), chain[i] \in T(n + 1)
               PROVE  Len(chain) - i + 1 <= n + 1
    OBVIOUS
  <2>1. CASE chain[i] \in T(n)
    <3>1. Len(chain) - i + 1 <= n BY <1>5, <2>1
    <3> QED BY <1>2, <3>1
  <2>2. CASE levels[chain[i]].superior \in T(n)
    <3>1. CASE i = Len(chain) BY <1>2, <3>1
    <3>2. CASE i # Len(chain)
      <4>1. i \in 1 .. Len(chain) - 1 /\ i + 1 \in 1 .. Len(chain) BY <1>2, <3>2
      <4>2. Len(chain) - (i + 1) + 1 <= n BY <1>2, <1>5, <2>2, <4>1
      <4> QED BY <1>2, <4>1, <4>2
    <3> QED BY <3>1, <3>2
  <2> QED BY <1>1, <2>1, <2>2
<1> HIDE DEF Short
<1>6. ASSUME Odd # {}
      PROVE  FALSE
  <2>1. PICK n \in Odd : \A m \in Odd : n <= m
    <3>1. Odd \in SUBSET Nat OBVIOUS
    <3> HIDE DEF Odd
    <3> QED BY <1>6, <3>1, Smallest
  <2>2. n \in Nat \ {0} /\ n # 1 /\ ~ Short(n) BY <1>4
  <2>3. n - 1 \in Nat \ {0} /\ (n - 1) + 1 = n /\ ~(n <= n - 1) BY <2>2
  <2>4. Short(n - 1) BY <2>1, <2>3
  <2>5. Short((n - 1) + 1) BY <1>5, <2>3, <2>4
  <2> QED BY <2>2, <2>3, <2>5
<1>7. Short(depth) BY <1>6
<1>8. 1 \in 1 .. Len(chain) /\ chain[1] \in T(depth) BY <1>2 DEF T
<1>9. Len(chain) - 1 + 1 <= depth BY <1>7, <1>8 DEF Short
<1>10. Len(chain) <= depth BY <1>2, <1>9
<1> QED BY <1>10 DEF chain

\* A level in use that is not in the tree has a level above it, or is one, that an overlapped
\* request or a move wrote.
LEMMA CleanIsReached ==
  ASSUME TreeInv, PlantInv, NEW site, NEW l \in Tree!FindSiteActiveLevels(site), ~Tree!Excused(l)
  PROVE  l \in Tree!GetLevelTree(site, MaxLevels)
<1> DEFINE tree == Tree!GetLevelTree(site, MaxLevels)
           chain == Tree!ChainOf(levels, l)
           Lost(i) == chain[i] \in Tree!FindSiteActiveLevels(site) /\ chain[i] \notin tree
           Odd == {i \in 1 .. Len(chain) : ~ Lost(i)}
<1> SUFFICES ASSUME l \notin tree PROVE FALSE OBVIOUS
<1>1. SitesHang /\ ActiveHang BY DEF PlantInv
<1>2. /\ Tree!RootLevels(site) \subseteq tree
      /\ \A c \in DOMAIN levels : Tree!IsActive(levels[c]) /\ levels[c].superior \in tree => c \in tree
  BY <1>1, TreeIsComplete
<1> HIDE DEF tree
<1>3. l \in DOMAIN levels /\ IsFiniteSet(DOMAIN levels) /\ 0 \notin DOMAIN levels
      /\ \A x \in DOMAIN levels : levels[x].superior \in DOMAIN levels \cup {0}
  BY LevelsAre DEF TreeInv, Tree!FindSiteActiveLevels, Tree!FindSiteLevels
<1>4. levels[chain[Len(chain)]].superior \notin DOMAIN levels
  <2>1. Tree!EndsAbove(levels, l)
    BY <1>3, ForestWithoutCircles DEF TreeIsForest, Tree!TreeIsForest
  <2> QED BY <2>1 DEF Tree!EndsAbove, Tree!Last
<1>5. /\ chain \in Seq(DOMAIN levels) /\ chain # <<>> /\ chain[1] = l
      /\ \A i \in 1 .. Len(chain) - 1 : chain[i + 1] = levels[chain[i]].superior
  BY <1>3, ChainClimbs
<1>6. \A i \in DOMAIN chain : chain[i] \notin Bad
  <2>1. Tree!InChain(levels, l) = {chain[i] : i \in DOMAIN chain} BY DEF Tree!InChain, Tree!ToSet
  <2>2. Tree!InChain(levels, l) \cap Bad = {} BY DEF Tree!Excused, Bad
  <2> HIDE DEF chain
  <2> QED BY <2>1, <2>2
<1> HIDE DEF chain
<1>7. Len(chain) \in Nat \ {0} /\ DOMAIN chain = 1 .. Len(chain) BY <1>5
<1>8. Lost(1) BY <1>5
<1>9. ASSUME NEW i \in 1 .. Len(chain), Lost(i)
      PROVE  i # Len(chain) /\ Lost(i + 1)
  <2> DEFINE x == chain[i]
  <2>1. x \in DOMAIN levels /\ levels[x].site = site /\ Tree!IsActive(levels[x]) /\ x \notin tree /\ x \notin Bad
    BY <1>6, <1>7, <1>9 DEF Tree!FindSiteActiveLevels, Tree!FindSiteLevels
  <2>2. levels[x].superior \in DOMAIN levels
    <3>1. levels[x].superior # 0
      BY <1>2, <2>1 DEF Tree!RootLevels, Tree!GetChildrenLevels, Tree!FindSiteActiveLevels, Tree!FindSiteLevels,
                        Tree!NoLevel
    <3> QED BY <1>3, <2>1, <3>1
  <2>3. i # Len(chain) BY <1>4, <2>2
  <2>4. i \in 1 .. Len(chain) - 1 /\ i + 1 \in 1 .. Len(chain) /\ i + 1 \in DOMAIN chain
    <3> DEFINE len == Len(chain)
    <3>1. i \in 1 .. len /\ i # len /\ len \in Nat BY <1>7, <2>3, Zenon
    <3> HIDE DEF len
    <3>2. i \in 1 .. len - 1 /\ i + 1 \in 1 .. len BY <3>1
    <3> QED BY <1>7, <3>2 DEF len
  <2>5. chain[i + 1] = levels[x].superior BY <1>5, <2>4
  <2>6. levels[levels[x].superior].site = site /\ levels[x].superior \notin tree
    BY <1>1, <1>2, <2>1, <2>2 DEF SitesHang, Beside
  <2>7. Tree!IsActive(levels[levels[x].superior])
    <3>1. levels[x].superior \notin Bad BY <1>6, <2>4, <2>5
    <3>2. ~Tree!Unsound(levels, x) BY <1>1, <2>1, <3>1 DEF ActiveHang
    <3> QED BY <2>1, <2>2, <3>2 DEF Tree!Unsound
  <2> QED BY <2>2, <2>3, <2>5, <2>6, <2>7 DEF Tree!FindSiteActiveLevels, Tree!FindSiteLevels
<1> HIDE DEF Lost
<1>10. ASSUME Odd # {}
       PROVE  FALSE
  <2>1. PICK i \in Odd : \A m \in Odd : i <= m
    <3>1. Odd \in SUBSET Nat BY <1>7
    <3> HIDE DEF Odd
    <3> QED BY <1>10, <3>1, Smallest
  <2>2. i \in 1 .. Len(chain) /\ i # 1 /\ ~ Lost(i) BY <1>8
  <2>3. i - 1 \in 1 .. Len(chain) /\ (i - 1) + 1 = i /\ ~(i <= i - 1) BY <1>7, <2>2
  <2>4. Lost(i - 1) BY <2>1, <2>3
  <2>5. Lost((i - 1) + 1) BY <1>9, <2>3, <2>4
  <2> QED BY <2>2, <2>3, <2>5
<1>11. Len(chain) \in 1 .. Len(chain) BY <1>7
<1>12. Lost(Len(chain)) BY <1>10, <1>11
<1> QED BY <1>9, <1>11, <1>12

LEMMA ReachableWhenHanging == TreeInv /\ PlantInv => ActiveIsReachable
<1> SUFFICES ASSUME TreeInv, PlantInv, NEW site \in Plants
             PROVE  LET tree == Tree!GetLevelTree(site, MaxLevels)
                        stats == Tree!GetLevelStats(site)
                    IN  /\ \A l \in Tree!FindSiteActiveLevels(site) : l \in tree \/ Tree!Excused(l)
                        /\ tree \subseteq Tree!FindSiteActiveLevels(site)
                        /\ \A l \in tree : Len(Tree!ChainOf(levels, l)) <= stats.maxDepth
  BY Zenon DEF ActiveIsReachable, Tree!ActiveIsReachable
<1> DEFINE tree == Tree!GetLevelTree(site, MaxLevels)
           depth == Tree!GetLevelStats(site).maxDepth
<1>1. \A l \in Tree!FindSiteActiveLevels(site) : l \in tree \/ Tree!Excused(l) BY CleanIsReached
<1>2. tree \subseteq Tree!FindSiteActiveLevels(site)
  <2>1. MaxLevels \in Nat \ {0} /\ SitesHang
    BY TreeAssumption, Zenon DEF Tree!LevelsAssumption, PlantInv
  <2> QED BY <2>1, TreeIsInUse
<1>3. tree # {} => tree = Tree!GetLevelTree(site, depth) /\ depth \in 1 .. MaxLevels
  BY TreeIsComplete DEF PlantInv
<1>4. ASSUME NEW l \in tree
      PROVE  Len(Tree!ChainOf(levels, l)) <= depth
  <2>1. l \in Tree!GetLevelTree(site, depth) /\ depth \in Nat \ {0} BY <1>3, <1>4
  <2>2. l \in DOMAIN levels BY <1>2, <1>4 DEF Tree!FindSiteActiveLevels, Tree!FindSiteLevels
  <2> QED BY <2>1, <2>2, ChainsFitTree
<1> QED BY <1>1, <1>2, <1>4

\* Every level in use is in the tree that clients load from the roots of its site, and the
\* depth in the statistics is the tree's, unless a request that another overlapped, or a move,
\* or a level made active by itself, wrote a level above it: getLevelTree, getLevelStats.
THEOREM ActiveStaysReachable == Tree!Spec => []ActiveIsReachable
BY PlantInvariance, ReachableWhenHanging, PTL

\* The clone of a request that has no children left to copy has all that is below its level.
LEMMA CopiesWhenKnown == TreeInv /\ PlantInv => ClonesAreSound
<1> SUFFICES ASSUME TreeInv, PlantInv PROVE Tree!ClonesAreCopies /\ Tree!MachineIdsUnique
  BY Zenon DEF ClonesAreSound, Tree!ClonesAreSound
<1>1. Tree!MachineIdsUnique BY DEF PlantInv
<1>2. ASSUME NEW r \in Requests \ overtaken, Tree!At(r, "clone", "copy"), treeReq[r].children = <<>>
      PROVE  LET q == treeReq[r] IN
             /\ DOMAIN q.clones = Tree!FindAllChildLevels(levels, q.id)
             /\ Tree!IsInjective(q.clones)
             /\ \A o \in DOMAIN q.clones \ {q.id} :
                  LET copy == q.rows[q.clones[o]] IN
                  /\ copy.superior = q.clones[levels[o].superior]
                  /\ copy.level = q.rows[copy.superior].level + 1
                  /\ copy.status = levels[o].status
             /\ q.rows[q.clones[q.id]].superior = levels[q.id].superior
  <2> DEFINE q == treeReq[r]
  <2>1. CopiesKnown(q) /\ q.id \in DOMAIN levels
    BY <1>2 DEF TreeInv, PlantInv, CarriesLevels, KnowsRows, Tree!At
  <2>2. q.children = <<>> BY <1>2
  <2> HIDE DEF q
  <2>3. DOMAIN q.children = {} BY <2>2
  <2>4. CopiesOnce(q) BY <2>1, <2>3 DEF CopiesKnown, CirclesOn
  <2>5. q.id \in BelowOf(q.id) BY <2>1, AllBelow, LevelsAre DEF TreeInv, BelowOf
  <2>6. DOMAIN q.clones = BelowOf(q.id) BY <2>3, <2>4 DEF CopiesOnce
  <2>7. Tree!IsInjective(q.clones) BY <2>4 DEF CopiesOnce, Tree!IsInjective
  <2>8. \A o \in DOMAIN q.clones : CopyKnown(q, o) BY <2>4 DEF CopiesOnce
  <2>9. \A o \in DOMAIN q.clones \ {q.id} :
           LET copy == q.rows[q.clones[o]] IN
           /\ copy.superior = q.clones[levels[o].superior]
           /\ copy.level = q.rows[copy.superior].level + 1
           /\ copy.status = levels[o].status
    BY <2>8 DEF CopyKnown
  <2>10. q.rows[q.clones[q.id]].superior = levels[q.id].superior BY <2>5, <2>6, <2>8 DEF CopyKnown
  <2> QED BY <2>6, <2>7, <2>9, <2>10, Zenon DEF q, BelowOf
<1>3. Tree!ClonesAreCopies BY <1>2, Zenon DEF Tree!ClonesAreCopies
<1> QED BY <1>1, <1>3

\* A clone that is about to commit, and that no other write has overlapped, has the shape of
\* what it clones; and no two levels of a site have a machine id, unless one was written by
\* an overlapped request: cloneLevel, and what create and update search before they write.
THEOREM ClonesStaySound == Tree!Spec => []ClonesAreSound
BY PlantInvariance, CopiesWhenKnown, PTL

(***************************************************************************)
(* Cards have the place of their level.                                    *)
(***************************************************************************)
\* A level and those above it are the least set that has it and the one above each.
LEMMA ChainIsLeast ==
  ASSUME NEW rows, NEW id \in DOMAIN rows, IsFiniteSet(DOMAIN rows)
  PROVE  LET C == Tree!InChain(rows, id) IN
         /\ id \in C /\ C \subseteq DOMAIN rows /\ Upward(rows, C)
         /\ \A E : Upward(rows, E) /\ id \in E => C \subseteq E
<1> DEFINE chain == Tree!ChainOf(rows, id)
           last == Len(chain)
           C == Tree!InChain(rows, id)
<1>1. /\ chain \in Seq(DOMAIN rows) /\ chain # <<>> /\ chain[1] = id
      /\ \A i \in 1 .. last - 1 : chain[i + 1] = rows[chain[i]].superior
  BY ChainClimbs
<1>2. C = {chain[i] : i \in DOMAIN chain} BY DEF Tree!InChain, Tree!ToSet
<1>3. Tree!EndsAbove(rows, id) => rows[chain[last]].superior \notin DOMAIN rows
  BY DEF Tree!EndsAbove, Tree!Last
<1>4. ~Tree!EndsAbove(rows, id) => LeadsRound(rows, C) BY EndlessLeadsRound
<1> HIDE DEF chain, C
<1>5. last \in Nat \ {0} /\ DOMAIN chain = 1 .. last /\ \A i \in 1 .. last : chain[i] \in DOMAIN rows
  BY <1>1
<1>6. id \in C /\ C \subseteq DOMAIN rows BY <1>1, <1>2, <1>5
<1> HIDE DEF last
<1>7. Upward(rows, C)
  <2> SUFFICES ASSUME NEW x \in C, rows[x].superior \in DOMAIN rows
               PROVE  rows[x].superior \in C
    BY DEF Upward
  <2>1. PICK i \in 1 .. last : x = chain[i] BY <1>2, <1>5
  <2>2. CASE i # last
    <3>1. i \in 1 .. last - 1 /\ i + 1 \in 1 .. last BY <1>5, <2>2
    <3> QED BY <1>1, <1>2, <1>5, <2>1, <3>1
  <2>3. CASE i = last BY <1>3, <1>4, <2>1, <2>3 DEF LeadsRound, last
  <2> QED BY <2>2, <2>3
<1>8. ASSUME NEW E, Upward(rows, E), id \in E
      PROVE  C \subseteq E
  <2> DEFINE Odd == {i \in 1 .. last : chain[i] \notin E}
  <2> SUFFICES ASSUME Odd # {} PROVE FALSE BY <1>2, <1>5
  <2>1. Odd \in SUBSET Nat BY <1>5
  <2>2. PICK i \in Odd : \A m \in Odd : i <= m
    <3> HIDE DEF Odd
    <3> QED BY <2>1, Smallest
  <2>3. i \in 1 .. last /\ chain[i] \notin E /\ i # 1 BY <1>1, <1>8, <2>2
  <2>4. i - 1 \in 1 .. last - 1 /\ i - 1 \in 1 .. last /\ (i - 1) + 1 = i /\ ~(i <= i - 1)
    BY <1>5, <2>3
  <2>5. chain[i - 1] \in E BY <2>2, <2>4
  <2>6. chain[i] = rows[chain[i - 1]].superior BY <1>1, <2>4 DEF last
  <2> QED BY <1>5, <1>8, <2>3, <2>4, <2>5, <2>6 DEF Upward
<1> QED BY <1>6, <1>7, <1>8 DEF C

\* Two tables have the same chain above a level when it ends in the one, and the other has
\* the same superior for each level of it and no more above the last.
LEMMA ChainsAgree ==
  ASSUME NEW rows, NEW other, NEW id \in DOMAIN rows, IsFiniteSet(DOMAIN rows), IsFiniteSet(DOMAIN other),
         Tree!EndsAbove(rows, id),
         \A x \in Tree!InChain(rows, id) :
           /\ x \in DOMAIN other /\ other[x].superior = rows[x].superior
           /\ rows[x].superior \in DOMAIN other => rows[x].superior \in DOMAIN rows
  PROVE  Tree!ChainOf(other, id) = Tree!ChainOf(rows, id)
<1> DEFINE a == Tree!ChainOf(rows, id)
           b == Tree!ChainOf(other, id)
           A == Tree!InChain(rows, id)
           B == Tree!InChain(other, id)
<1>1. /\ id \in A /\ Upward(rows, A)
      /\ \A E : Upward(rows, E) /\ id \in E => A \subseteq E
  BY ChainIsLeast
<1>2. /\ a \in Seq(DOMAIN rows) /\ a # <<>> /\ a[1] = id
      /\ \A i \in 1 .. Len(a) - 1 : a[i + 1] = rows[a[i]].superior
  BY ChainClimbs
<1>3. id \in DOMAIN other BY <1>1
<1>4. /\ b \in Seq(DOMAIN other) /\ b # <<>> /\ b[1] = id
      /\ \A i \in 1 .. Len(b) - 1 : b[i + 1] = other[b[i]].superior
  BY <1>3, ChainClimbs
<1>5. rows[a[Len(a)]].superior \notin DOMAIN rows BY DEF Tree!EndsAbove, Tree!Last
<1>6. A = {a[i] : i \in DOMAIN a} BY DEF Tree!InChain, Tree!ToSet
<1>7. Tree!EndsAbove(other, id) => other[b[Len(b)]].superior \notin DOMAIN other
  BY DEF Tree!EndsAbove, Tree!Last
<1>8. ~Tree!EndsAbove(other, id) => id \in B /\ LeadsRound(other, B) BY <1>3, EndlessLeadsRound
<1> HIDE DEF a, b, A, B
<1>9. /\ Len(a) \in Nat \ {0} /\ DOMAIN a = 1 .. Len(a) /\ \A i \in 1 .. Len(a) : a[i] \in A
      /\ Len(b) \in Nat \ {0} /\ DOMAIN b = 1 .. Len(b) /\ \A i \in 1 .. Len(b) : b[i] \in DOMAIN other
  BY <1>2, <1>4, <1>6
<1>10. /\ \A x \in A : x \in DOMAIN other /\ other[x].superior = rows[x].superior
       /\ \A x \in A : rows[x].superior \in DOMAIN other => rows[x].superior \in DOMAIN rows
  BY DEF A
<1>11. rows[a[Len(a)]].superior \notin DOMAIN other BY <1>5, <1>9, <1>10
<1>12. Tree!EndsAbove(other, id)
  <2> SUFFICES ASSUME id \in B, LeadsRound(other, B) PROVE FALSE BY <1>8
  <2>1. Upward(rows, A \cap B) BY <1>1, <1>10 DEF Upward, LeadsRound
  <2>2. A \subseteq B BY <1>1, <2>1
  <2>3. a[Len(a)] \in A BY <1>9
  <2> QED BY <1>10, <1>11, <2>2, <2>3 DEF LeadsRound
<1> DEFINE Odd == {i \in 1 .. Len(a) : i <= Len(b) /\ a[i] # b[i]}
<1>13. Odd = {}
  <2> SUFFICES ASSUME Odd # {} PROVE FALSE OBVIOUS
  <2>1. Odd \in SUBSET Nat BY <1>9
  <2>2. PICK i \in Odd : \A m \in Odd : i <= m
    <3> HIDE DEF Odd
    <3> QED BY <2>1, Smallest
  <2>3. i \in 1 .. Len(a) /\ i <= Len(b) /\ a[i] # b[i] /\ i # 1 BY <1>2, <1>4, <2>2
  <2>4. /\ i - 1 \in 1 .. Len(a) - 1 /\ i - 1 \in 1 .. Len(b) - 1 /\ i - 1 \in 1 .. Len(a)
        /\ (i - 1) + 1 = i /\ ~(i <= i - 1) /\ i - 1 <= Len(b)
    BY <1>9, <2>3
  <2>5. a[i - 1] = b[i - 1] /\ a[i - 1] \in A BY <1>9, <2>2, <2>4
  <2>6. a[i] = rows[a[i - 1]].superior /\ b[i] = other[b[i - 1]].superior BY <1>2, <1>4, <2>4
  <2> QED BY <1>10, <2>3, <2>5, <2>6
<1>14. \A i \in 1 .. Len(a) : i <= Len(b) => a[i] = b[i] BY <1>13
<1> HIDE DEF Odd
<1>15. CASE Len(a) < Len(b)
  <2>1. Len(a) \in 1 .. Len(b) - 1 /\ Len(a) + 1 \in 1 .. Len(b) /\ Len(a) \in 1 .. Len(a) /\ Len(a) <= Len(b)
    BY <1>9, <1>15
  <2>2. b[Len(a) + 1] = other[a[Len(a)]].superior BY <1>4, <1>14, <2>1
  <2>3. b[Len(a) + 1] \in DOMAIN other /\ other[a[Len(a)]].superior = rows[a[Len(a)]].superior
    BY <1>9, <1>10, <2>1
  <2> QED BY <1>11, <2>2, <2>3
<1>16. CASE Len(b) < Len(a)
  <2>1. Len(b) \in 1 .. Len(a) - 1 /\ Len(b) + 1 \in 1 .. Len(a) /\ Len(b) \in 1 .. Len(a) /\ Len(b) <= Len(b)
    BY <1>9, <1>16
  <2>2. a[Len(b) + 1] = rows[b[Len(b)]].superior /\ b[Len(b)] \in A BY <1>2, <1>9, <1>14, <2>1
  <2>3. a[Len(b) + 1] \in DOMAIN other BY <1>9, <1>10, <2>1
  <2> QED BY <1>7, <1>10, <1>12, <2>2, <2>3
<1>17. CASE Len(a) = Len(b)
  <2>1. \A i \in 1 .. Len(a) : a[i] = b[i] BY <1>9, <1>14, <1>17
  <2>2. a \in [1 .. Len(a) -> DOMAIN rows] /\ b \in [1 .. Len(a) -> DOMAIN other]
    BY <1>2, <1>4, <1>17
  <2>3. a = b BY <2>1, <2>2
  <2> QED BY <2>3 DEF a, b
<1>18. Len(a) < Len(b) \/ Len(b) < Len(a) \/ Len(a) = Len(b)
  <2>1. Len(a) \in Nat /\ Len(b) \in Nat BY <1>9
  <2> QED BY <2>1
<1> QED BY <1>15, <1>16, <1>17, <1>18, Zenon

LEMMA PlacesAgree ==
  ASSUME NEW rows, NEW other, NEW id \in DOMAIN rows, IsFiniteSet(DOMAIN rows), IsFiniteSet(DOMAIN other),
         Tree!EndsAbove(rows, id), other[id].level = rows[id].level,
         \A x \in Tree!InChain(rows, id) :
           /\ x \in DOMAIN other /\ other[x].superior = rows[x].superior
           /\ rows[x].superior \in DOMAIN other => rows[x].superior \in DOMAIN rows
  PROVE  Tree!InChain(other, id) = Tree!InChain(rows, id) /\ PlacesIn(other, id) = PlacesIn(rows, id)
<1>1. Tree!ChainOf(other, id) = Tree!ChainOf(rows, id) BY ChainsAgree
<1>2. other[id].superior = rows[id].superior BY ChainIsLeast
<1>3. Tree!InChain(other, id) = Tree!InChain(rows, id) BY <1>1, Zenon DEF Tree!InChain
<1>4. Tree!SuperiorsOf(other, id) = Tree!SuperiorsOf(rows, id) BY <1>1, Zenon DEF Tree!SuperiorsOf
<1>5. PlacesIn(other, id) = PlacesIn(rows, id)
  BY <1>2, <1>4 DEF PlacesIn, Tree!OnCreation, Tree!OnMove, Tree!Place
<1> QED BY <1>3, <1>5

LEMMA PlaceIsOf ==
  ASSUME NEW rows, NEW id, NEW c \in PlacesIn(rows, id)
  PROVE  c.node = id
BY DEF PlacesIn, Tree!OnCreation, Tree!OnMove, Tree!Place

\* What has a level above it is below that level.
LEMMA BelowWhatIsAbove ==
  ASSUME NEW rows, NEW n \in DOMAIN rows, IsFiniteSet(DOMAIN rows), NEW x \in Tree!InChain(rows, n)
  PROVE  n \in Tree!FindAllChildLevels(rows, x)
<1> DEFINE D(y) == Tree!FindAllChildLevels(rows, y)
           E == {y \in DOMAIN rows : n \in D(y)}
           C == Tree!InChain(rows, n)
<1>1. \A y \in DOMAIN rows : y \in D(y) /\ TakesAlong(rows, D(y)) BY AllBelow
<1>2. \A y \in DOMAIN rows : \A S : TakesAlong(rows, S) /\ y \in S => D(y) \subseteq S BY AllBelow
<1>3. \A S : Upward(rows, S) /\ n \in S => C \subseteq S BY ChainIsLeast
<1> HIDE DEF D, C
<1>4. ASSUME NEW y \in E, rows[y].superior \in DOMAIN rows
      PROVE  rows[y].superior \in E
  <2>1. y \in D(rows[y].superior) BY <1>1, <1>4 DEF TakesAlong
  <2> QED BY <1>1, <1>2, <1>4, <2>1
<1>5. Upward(rows, E) /\ n \in E BY <1>1, <1>4 DEF Upward
<1>6. C \subseteq E BY <1>3, <1>5
<1> QED BY <1>6 DEF C, D

\* No level is written: what the others have read is still so, and they go on refreshing.
LEMMA CardsStay ==
  ASSUME TreeInv, CardsInv, NEW r \in Requests, NEW q, treeReq' = [treeReq EXCEPT ![r] = q],
         levels' = levels, torn \subseteq torn', misplaced \subseteq misplaced', overtaken \ {r} \subseteq overtaken',
         KnowsCards(r)',
         \A c \in cards' :
           /\ c.node \in DOMAIN levels
           /\ \/ c \in PlacesIn(levels, c.node) \/ Tree!Excused(c.node) \/ Tree!Excused(c.node)'
              \/ Refreshes(r, c.node)' \/ \E s \in Requests \ {r} : Refreshes(s, c.node)
  PROVE  CardsInv'
<1>1. \A s \in Requests \ {r} : treeReq'[s] = treeReq[s] BY DEF TreeInv, TreeTyped
<1>2. ASSUME NEW s \in Requests, s # r
      PROVE  KnowsCards(s)'
  <2>1. treeReq'[s] = treeReq[s] /\ KnowsCards(s) /\ (s \notin overtaken' => s \notin overtaken)
    BY <1>1, <1>2 DEF CardsInv
  <2>2. /\ \A site : Tree!SiteMap(site)' = Tree!SiteMap(site)
        /\ ListsAllBelow(treeReq[s]) => ListsAllBelow(treeReq[s])'
    BY <2>1 DEF ListsAllBelow, Tree!SiteMap
  <2> QED BY <2>1, <2>2 DEF KnowsCards, Moving, Tree!ChildrenOf
<1>3. \A n : Tree!Excused(n) => Tree!Excused(n)' BY DEF Tree!Excused
<1>4. \A n : \A s \in Requests \ {r} : Refreshes(s, n) => Refreshes(s, n)'
  BY <1>1 DEF Refreshes, Moving
<1>5. CardsInPlace'
  <2> SUFFICES ASSUME NEW c \in cards'
               PROVE  /\ c.node \in DOMAIN levels'
                      /\ \/ c \in PlacesIn(levels', c.node) \/ Tree!Excused(c.node)'
                         \/ \E s \in Requests : Refreshes(s, c.node)'
    BY DEF CardsInPlace
  <2> QED BY <1>3, <1>4
<1> QED BY <1>2, <1>5 DEF CardsInv

\* The same cards, by a request that was not to refresh any, or still is.
LEMMA CardsUntouched ==
  ASSUME TreeInv, CardsInv, NEW r \in Requests, NEW q, treeReq' = [treeReq EXCEPT ![r] = q],
         levels' = levels, cards' = cards, torn \subseteq torn', misplaced \subseteq misplaced',
         overtaken \ {r} \subseteq overtaken', KnowsCards(r)',
         \A n \in DOMAIN levels : Refreshes(r, n) => Refreshes(r, n)' \/ Tree!Excused(n)'
  PROVE  CardsInv'
<1>1. ASSUME NEW c \in cards'
      PROVE  /\ c.node \in DOMAIN levels
             /\ \/ c \in PlacesIn(levels, c.node) \/ Tree!Excused(c.node) \/ Tree!Excused(c.node)'
                \/ Refreshes(r, c.node)' \/ \E s \in Requests \ {r} : Refreshes(s, c.node)
  BY DEF CardsInv, CardsInPlace
<1> QED BY <1>1, CardsStay

LEMMA WrittenLevelsAre ==
  ASSUME TreeTyped'
  PROVE  IsFiniteSet(DOMAIN levels') /\ 0 \notin DOMAIN levels'
<1>1. DOMAIN levels' \subseteq 1 .. lastId' /\ lastId' \in Int BY LevelConstants DEF TreeTyped
<1>2. IsFiniteSet(1 .. lastId') BY <1>1, FS_Interval
<1> QED BY <1>1, <1>2, FS_Subset

\* Levels are written: a chain that no written level is in is as it was, and so is the place.
LEMMA CardsWritten ==
  ASSUME TreeInv, TreeInv', CardsInv, NEW r \in Requests, NEW q, treeReq' = [treeReq EXCEPT ![r] = q],
         NEW changed, cards' = cards,
         DOMAIN levels \subseteq DOMAIN levels', DOMAIN levels' \subseteq DOMAIN levels \cup changed,
         \A l \in DOMAIN levels \ changed :
           levels'[l].superior = levels[l].superior /\ levels'[l].level = levels[l].level,
         torn \subseteq torn', misplaced \subseteq misplaced', overtaken' = overtaken \cup (Tree!Running \ {r}),
         KnowsCards(r)',
         \A n \in DOMAIN levels : Tree!InChain(levels', n) \cap changed # {} => Tree!Excused(n)' \/ Refreshes(r, n)',
         \A n \in DOMAIN levels : Refreshes(r, n) /\ Tree!InChain(levels', n) = Tree!InChain(levels, n)
           => Tree!Excused(n)' \/ Refreshes(r, n)'
  PROVE  CardsInv'
<1>1. \A s \in Requests \ {r} : treeReq'[s] = treeReq[s] BY DEF TreeInv, TreeTyped
<1>2. ASSUME NEW s \in Requests, s # r
      PROVE  KnowsCards(s)'
  <2>1. treeReq'[s] = treeReq[s] /\ KnowsCards(s) /\ (s \notin overtaken' => treeReq[s].at = "idle")
    BY <1>1, <1>2 DEF CardsInv, Tree!Running
  <2> QED BY <2>1 DEF KnowsCards, Moving
<1>3. IsFiniteSet(DOMAIN levels) /\ IsFiniteSet(DOMAIN levels')
  BY LevelsAre, WrittenLevelsAre DEF TreeInv
<1>4. ASSUME NEW n \in DOMAIN levels
      PROVE  \/ Tree!Excused(n)' \/ Refreshes(r, n)'
             \/ /\ Tree!InChain(levels, n) = Tree!InChain(levels', n)
                /\ PlacesIn(levels, n) = PlacesIn(levels', n)
  <2> DEFINE C == Tree!InChain(levels', n)
  <2>1. n \in C /\ C \subseteq DOMAIN levels' BY <1>3, ChainIsLeast
  <2>2. CASE C \cap changed # {} BY <2>2
  <2>3. CASE ~Tree!EndsAbove(levels', n)
    <3>1. LeadsRound(levels', C) BY <1>3, <2>3, EndlessLeadsRound
    <3> HIDE DEF C
    <3>2. C \cap (torn' \cup misplaced') # {} BY <2>1, <3>1 DEF TreeInv, NoCleanCircle, Bad
    <3> QED BY <3>2 DEF C, Tree!Excused
  <2>4. CASE C \cap changed = {} /\ Tree!EndsAbove(levels', n)
    <3> HIDE DEF C
    <3>1. \A x \in C : x \in DOMAIN levels /\ levels[x].superior = levels'[x].superior
                       /\ levels[x].level = levels'[x].level
      BY <2>1, <2>4
    <3>2. \A x \in C : levels'[x].superior \in DOMAIN levels => levels'[x].superior \in DOMAIN levels'
      OBVIOUS
    <3> QED BY <1>3, <2>1, <2>4, <3>1, <3>2, PlacesAgree DEF C
  <2> QED BY <2>2, <2>3, <2>4
<1>5. \A n : Tree!Excused(n) /\ Tree!InChain(levels', n) = Tree!InChain(levels, n) => Tree!Excused(n)'
  BY DEF Tree!Excused
<1>6. \A n : \A s \in Requests \ {r} :
        Refreshes(s, n) /\ Tree!InChain(levels', n) = Tree!InChain(levels, n) => Refreshes(s, n)'
  BY <1>1 DEF Refreshes, Moving
<1>7. CardsInPlace'
  <2> SUFFICES ASSUME NEW c \in cards
               PROVE  /\ c.node \in DOMAIN levels'
                      /\ \/ c \in PlacesIn(levels', c.node) \/ Tree!Excused(c.node)'
                         \/ \E s \in Requests : Refreshes(s, c.node)'
    BY DEF CardsInPlace
  <2>1. /\ c.node \in DOMAIN levels
        /\ \/ c \in PlacesIn(levels, c.node) \/ Tree!Excused(c.node)
           \/ \E s \in Requests : Refreshes(s, c.node)
    BY DEF CardsInv, CardsInPlace
  <2> QED BY <1>4, <1>5, <1>6, <2>1
<1> QED BY <1>2, <1>7 DEF CardsInv

LEMMA CardsQuiet ==
  ASSUME TreeInv, CardsInv, NEW r \in Requests, NEW q, treeReq' = [treeReq EXCEPT ![r] = q],
         levels' = levels, cards' = cards, torn \subseteq torn', misplaced \subseteq misplaced',
         overtaken \ {r} \subseteq overtaken', ~Moving(r),
         q.kind = "move" => q.at \in {"check", "children"},
         q.kind = "card" => q.at # "insert", q.kind = "update" => q.at # "commit"
  PROVE  CardsInv'
<1>1. treeReq'[r] = q BY DEF TreeInv, TreeTyped
<1>2. KnowsCards(r)' BY <1>1 DEF KnowsCards, Moving
<1>3. \A n \in DOMAIN levels : Refreshes(r, n) => Refreshes(r, n)' \/ Tree!Excused(n)'
  BY DEF Refreshes
<1> QED BY <1>2, <1>3, CardsUntouched

LEMMA CardsRefuse ==
  ASSUME TreeInv, CardsInv, NEW r \in Requests, Tree!Refuse(r), ~Moving(r)
  PROVE  CardsInv'
<1> DEFINE q == Tree!Idle
<1>1. /\ treeReq' = [treeReq EXCEPT ![r] = q]
      /\ levels' = levels /\ cards' = cards /\ torn' = torn /\ misplaced' = misplaced /\ overtaken' = overtaken
  BY Zenon DEF Tree!Refuse, Tree!Done, Tree!Go, Tree!Reads, Tree!tables, Tree!histories
<1>2. q.kind = "none" BY IdleTreeRequest
<1> HIDE DEF q
<1> QED BY <1>1, <1>2, CardsQuiet

\* A move that fails after it has written has torn the levels it writes.
LEMMA CardsFail ==
  ASSUME TreeInv, CardsInv, NEW r \in Requests, Tree!Fail(r)
  PROVE  CardsInv'
<1> DEFINE q == Tree!Idle
           q0 == treeReq[r]
<1>1. /\ treeReq' = [treeReq EXCEPT ![r] = q]
      /\ levels' = levels /\ cards' = cards /\ misplaced' = misplaced /\ overtaken' = overtaken
      /\ torn' = IF q0.began THEN torn \cup {q0.id} \cup {q0.children[k].id : k \in DOMAIN q0.children} ELSE torn
  BY Zenon DEF Tree!Fail, Tree!Done, Tree!Go, Tree!tables
<1>2. q.kind = "none" /\ treeReq'[r] = q BY <1>1, IdleTreeRequest DEF TreeInv, TreeTyped
<1>3. Moving(r) => OwnLevels(q0) \subseteq torn' BY <1>1 DEF CardsInv, KnowsCards, OwnLevels
<1>4. torn \subseteq torn' BY <1>1
<1> HIDE DEF q
<1>5. \A n \in DOMAIN levels : Refreshes(r, n) => Tree!Excused(n)'
  BY <1>1, <1>3 DEF Refreshes, Tree!Excused
<1>6. KnowsCards(r)' BY <1>2 DEF KnowsCards, Moving
<1> QED BY <1>1, <1>4, <1>5, <1>6, CardsUntouched

LEMMA CardsCalls ==
  ASSUME TreeInv, CardsInv, NEW r \in Requests, Tree!Calls(r)
  PROVE  CardsInv'
<1>1. PICK q \in TreeRequest : Tree!Call(r, q) /\ Called(q) BY LevelCalls
<1>2. /\ treeReq' = [treeReq EXCEPT ![r] = q]
      /\ levels' = levels /\ cards' = cards /\ torn' = torn /\ misplaced' = misplaced
      /\ overtaken' = overtaken \ {r} /\ r \notin Tree!Running
  BY <1>1, Zenon DEF Tree!Call, Tree!Go, Tree!tables
<1>3. ~Moving(r) BY <1>2 DEF Tree!Running, Moving
<1> QED BY <1>1, <1>2, <1>3, CardsQuiet DEF Called

\* Requests that read, or prepare a clone, touch no card.
LEMMA CardsChecks ==
  ASSUME TreeInv, CardsInv, NEW r \in Requests,
         Tree!CheckCreate(r) \/ Tree!CheckMove(r) \/ Tree!CheckClone(r) \/ Tree!CloneNext(r)
  PROVE  CardsInv'
<1> DEFINE q0 == treeReq[r]
<1>1. q0 \in TreeRequest BY DEF TreeInv, TreeTyped
<1>2. \/ q0.kind = "create" \/ q0.kind = "clone" \/ (q0.kind = "move" /\ q0.at = "check")
  BY Zenon DEF Tree!CheckCreate, Tree!CheckMove, Tree!CheckClone, Tree!CloneNext, Tree!At
<1>3. ~Moving(r) BY <1>2 DEF Moving
<1>4. ASSUME NEW q, treeReq' = [treeReq EXCEPT ![r] = q], q.kind = q0.kind, q.kind = "move" => q.at = "children",
             levels' = levels, cards' = cards, torn' = torn, misplaced' = misplaced, overtaken' = overtaken
      PROVE  CardsInv'
  BY <1>2, <1>3, <1>4, CardsQuiet
<1>5. CASE Tree!Refuse(r) BY <1>3, <1>5, CardsRefuse
<1>6. CASE Tree!CheckCreate(r) /\ ~Tree!Refuse(r)
  <2>1. PICK row : treeReq' = [treeReq EXCEPT ![r] = [q0 EXCEPT !.at = "insert", !.copy = row]] /\ Tree!Reads
    BY <1>6, Zenon DEF Tree!CheckCreate, Tree!Go
  <2>2. q0.kind = "create" BY <1>6, Zenon DEF Tree!CheckCreate, Tree!At
  <2> DEFINE q == [q0 EXCEPT !.at = "insert", !.copy = row]
  <2>3. q.kind = "create" BY <1>1, <2>2 DEF TreeRequest
  <2>4. treeReq' = [treeReq EXCEPT ![r] = q] /\ levels' = levels /\ cards' = cards /\ torn' = torn
        /\ misplaced' = misplaced /\ overtaken' = overtaken
    BY <2>1, Zenon DEF Tree!Reads, Tree!tables, Tree!histories
  <2> HIDE DEF q, q0
  <2> QED BY <1>4, <2>2, <2>3, <2>4
<1>7. CASE Tree!CheckMove(r) /\ ~Tree!Refuse(r)
  <2> DEFINE row == levels[q0.id]
             q == [q0 EXCEPT !.at = "children", !.copy = row, !.old = row.superior]
  <2>1. q0.kind = "move" /\ Tree!Go(r, q) /\ Tree!Reads BY <1>7, Zenon DEF Tree!CheckMove, Tree!At
  <2>2. q.kind = "move" /\ q.at = "children" BY <1>1, <2>1 DEF TreeRequest
  <2>3. treeReq' = [treeReq EXCEPT ![r] = q] /\ levels' = levels /\ cards' = cards /\ torn' = torn
        /\ misplaced' = misplaced /\ overtaken' = overtaken
    BY <2>1, Zenon DEF Tree!Go, Tree!Reads, Tree!tables, Tree!histories
  <2> HIDE DEF q, q0
  <2> QED BY <1>4, <2>1, <2>2, <2>3
<1>8. CASE Tree!CheckClone(r) /\ ~Tree!Refuse(r)
  <2>1. PICK children : treeReq' = [treeReq EXCEPT ![r] = [q0 EXCEPT !.at = "copy", !.children = children]] /\ Tree!Reads
    BY <1>8, Zenon DEF Tree!CheckClone, Tree!Go
  <2>2. q0.kind = "clone" BY <1>8, Zenon DEF Tree!CheckClone, Tree!At
  <2> DEFINE q == [q0 EXCEPT !.at = "copy", !.children = children]
  <2>3. q.kind = "clone" BY <1>1, <2>2 DEF TreeRequest
  <2>4. treeReq' = [treeReq EXCEPT ![r] = q] /\ levels' = levels /\ cards' = cards /\ torn' = torn
        /\ misplaced' = misplaced /\ overtaken' = overtaken
    BY <2>1, Zenon DEF Tree!Reads, Tree!tables, Tree!histories
  <2> HIDE DEF q, q0
  <2> QED BY <1>4, <2>2, <2>3, <2>4
<1>9. CASE Tree!CloneNext(r)
  <2>1. PICK q : treeReq' = [treeReq EXCEPT ![r] = q] /\ q.kind = q0.kind
    <3>1. \E rows, clones, children : treeReq' = [treeReq EXCEPT ![r] =
            [q0 EXCEPT !.rows = rows, !.clones = clones, !.children = children]]
      BY <1>9, Zenon DEF Tree!CloneNext, Tree!Go
    <3> QED BY <1>1, <3>1 DEF TreeRequest
  <2>2. q0.kind = "clone" /\ levels' = levels /\ cards' = cards /\ torn' = torn
        /\ misplaced' = misplaced /\ overtaken' = overtaken
    BY <1>9, Zenon DEF Tree!CloneNext, Tree!At, Tree!histories
  <2> HIDE DEF q0
  <2> QED BY <1>4, <2>1, <2>2
<1> QED BY <1>5, <1>6, <1>7, <1>8, <1>9

\* New levels are above no level that was there.
LEMMA CardsInsert ==
  ASSUME TreeInv, TreeInv', CardsInv, NEW r \in Requests, NEW rows, levels' = Tree!With(levels, rows),
         DOMAIN rows \cap DOMAIN levels = {}, treeReq' = [treeReq EXCEPT ![r] = Tree!Idle], cards' = cards,
         torn \subseteq torn', misplaced \subseteq misplaced', overtaken' = overtaken \cup (Tree!Running \ {r}),
         ~Moving(r)
  PROVE  CardsInv'
<1> DEFINE new == DOMAIN rows
           q == Tree!Idle
<1>1. DOMAIN levels' = DOMAIN levels \cup new /\ \A l \in DOMAIN levels : levels'[l] = levels[l]
  BY DEF Tree!With
<1>2. /\ \A l \in DOMAIN levels : levels[l].superior \in DOMAIN levels \cup {0}
      /\ IsFiniteSet(DOMAIN levels') /\ 0 \notin DOMAIN levels'
  BY LevelsAre, WrittenLevelsAre DEF TreeInv
<1>3. ASSUME NEW n \in DOMAIN levels
      PROVE  Tree!InChain(levels', n) \subseteq DOMAIN levels
  <2>1. Upward(levels', DOMAIN levels) BY <1>1, <1>2 DEF Upward
  <2> QED BY <1>1, <1>2, <2>1, ChainIsLeast
<1>4. q.kind = "none" /\ treeReq'[r] = q BY IdleTreeRequest DEF TreeInv, TreeTyped
<1> HIDE DEF q
<1>5. KnowsCards(r)' BY <1>4 DEF KnowsCards, Moving
<1>6. \A n \in DOMAIN levels : Tree!InChain(levels', n) \cap new = {} /\ ~Refreshes(r, n)
  BY <1>3 DEF Refreshes
<1>7. /\ DOMAIN levels \subseteq DOMAIN levels' /\ DOMAIN levels' \subseteq DOMAIN levels \cup new
      /\ \A l \in DOMAIN levels \ new :
           levels'[l].superior = levels[l].superior /\ levels'[l].level = levels[l].level
  BY <1>1
<1> HIDE DEF new
<1> QED BY <1>5, <1>6, <1>7, CardsWritten DEF q

LEMMA CardsInsertLevel ==
  ASSUME TreeInv, TreeInv', CardsInv, NEW r \in Requests, Tree!InsertLevel(r) \/ Tree!CommitClone(r)
  PROVE  CardsInv'
<1>1. ASSUME NEW rows, Tree!WriteLevels(r, Tree!With(levels, rows), DOMAIN rows, {}),
             DOMAIN rows \cap DOMAIN levels = {}, treeReq' = [treeReq EXCEPT ![r] = Tree!Idle], ~Moving(r)
      PROVE  CardsInv'
  <2>1. levels' = Tree!With(levels, rows) /\ torn \subseteq torn' /\ misplaced \subseteq misplaced'
        /\ overtaken' = overtaken \cup (Tree!Running \ {r})
    BY <1>1, WritesLevels, Zenon
  <2>2. cards' = cards BY <1>1, Zenon DEF Tree!WriteLevels
  <2> QED BY <1>1, <2>1, <2>2, CardsInsert
<1>2. CASE Tree!InsertLevel(r)
  <2> DEFINE n == lastId + 1
             row == [treeReq[r].copy EXCEPT !.machine = IF @ = Nothing THEN n ELSE @]
             rows == [i \in {n} |-> row]
  <2>1. /\ treeReq[r].kind = "create"
        /\ Tree!WriteLevels(r, Tree!With(levels, rows), {n}, {})
        /\ treeReq' = [treeReq EXCEPT ![r] = Tree!Idle]
    BY <1>2, Zenon DEF Tree!InsertLevel, Tree!At, Tree!NextId, Tree!Done, Tree!Go
  <2>2. DOMAIN rows = {n} /\ n \notin DOMAIN levels BY LevelConstants DEF TreeInv, TreeTyped
  <2>3. ~Moving(r) BY <2>1 DEF Moving
  <2>4. Tree!WriteLevels(r, Tree!With(levels, rows), DOMAIN rows, {}) BY <2>1, <2>2
  <2> HIDE DEF rows
  <2> QED BY <1>1, <2>1, <2>2, <2>3, <2>4
<1>3. CASE Tree!CommitClone(r)
  <2> DEFINE rows == treeReq[r].rows
  <2>1. /\ treeReq[r].kind = "clone" /\ treeReq[r].at = "copy"
        /\ Tree!WriteLevels(r, Tree!With(levels, rows), DOMAIN rows, {})
        /\ treeReq' = [treeReq EXCEPT ![r] = Tree!Idle]
    BY <1>3, Zenon DEF Tree!CommitClone, Tree!At, Tree!Done, Tree!Go
  <2>2. DOMAIN rows \cap DOMAIN levels = {} /\ ~Moving(r)
    BY <2>1 DEF TreeInv, CopiesApart, CopyIds, Tree!At, Moving
  <2> HIDE DEF rows
  <2> QED BY <1>1, <2>1, <2>2
<1> QED BY <1>2, <1>3

LEMMA StatusKeepsDepth ==
  ASSUME NEW row \in Tree!LevelType, NEW status
  PROVE  Tree!WithStatus(row, status).level = row.level
BY DEF Tree!WithStatus, Tree!LevelType

LEMMA CardsCheckUpdate ==
  ASSUME TreeInv, CardsInv, NEW r \in Requests, Tree!CheckUpdate(r)
  PROVE  CardsInv'
<1> DEFINE q0 == treeReq[r]
           id == q0.id
           row == [levels[id] EXCEPT !.machine = q0.machine]
           copy == Tree!WithStatus(row, q0.status)
           todo == IF q0.status # levels[id].status THEN Tree!FindAllChildLevels(levels, id) \ {id} ELSE {}
           q == [q0 EXCEPT !.at = "commit", !.copy = copy, !.todo = todo]
<1>1. q0.kind = "update" BY Zenon DEF Tree!CheckUpdate, Tree!At
<1>2. ~Moving(r) BY <1>1 DEF Moving
<1>3. CASE Tree!Refuse(r) BY <1>2, <1>3, CardsRefuse
<1>4. CASE Tree!Go(r, q) /\ Tree!Reads
  <2>1. q0 \in TreeRequest /\ id \in DOMAIN levels /\ q0.machine \in MachineIds \cup {Nothing}
    BY <1>1 DEF TreeInv, TreeTyped, CarriesLevels, TreeRequest
  <2>2. row \in Tree!LevelType /\ row.level = levels[id].level
    BY <2>1, LevelsAre DEF TreeInv, Tree!LevelType
  <2> HIDE DEF row
  <2>3. copy.level = levels[id].level BY <2>2, StatusKeepsDepth
  <2> HIDE DEF copy, todo
  <2>4. q.kind = "update" /\ q.at = "commit" /\ q.copy = copy /\ q.id = id
    BY <1>1, <2>1 DEF TreeRequest
  <2>5. WentOn(r, q) BY <1>4, LevelReads
  <2> HIDE DEF q
  <2>7. KnowsCards(r)' BY <2>3, <2>4, <2>5 DEF WentOn, KnowsCards, Moving
  <2>8. \A n \in DOMAIN levels : ~Refreshes(r, n) BY <1>2 DEF Refreshes
  <2> QED BY <2>5, <2>7, <2>8, CardsUntouched DEF WentOn
<1> QED BY <1>3, <1>4, Zenon DEF Tree!CheckUpdate

\* An update writes back the depth and the superior that it has read.
LEMMA CardsCommitUpdate ==
  ASSUME TreeInv, TreeInv', CardsInv, NEW r \in Requests, Tree!CommitUpdate(r)
  PROVE  CardsInv'
<1> DEFINE q0 == treeReq[r]
           id == q0.id
           rows == [l \in {id} \cup q0.todo |-> IF l = id THEN q0.copy ELSE Tree!WithStatus(levels[l], q0.status)]
           q == Tree!Idle
           changed == IF r \in overtaken THEN DOMAIN rows ELSE {}
<1>1. /\ q0.kind = "update" /\ q0.at = "commit"
      /\ Tree!WriteLevels(r, Tree!With(levels, rows), DOMAIN rows, {})
      /\ treeReq' = [treeReq EXCEPT ![r] = q]
  BY Zenon DEF Tree!CommitUpdate, Tree!At, Tree!Done, Tree!Go
<1>2. id \in DOMAIN levels /\ q0.todo \subseteq DOMAIN levels /\ q0.status \in {"A", "I"}
  BY <1>1 DEF TreeInv, TreeTyped, CarriesLevels, TreeRequest
<1>3. r \notin overtaken => levels[id].superior = q0.copy.superior /\ levels[id].level = q0.copy.level
  BY <1>1 DEF TreeInv, KnowsLevels, CardsInv, KnowsCards
<1>4. \A l \in q0.todo : /\ Tree!WithStatus(levels[l], q0.status).superior = levels[l].superior
                         /\ Tree!WithStatus(levels[l], q0.status).level = levels[l].level
  BY <1>2, StatusKeepsRow, StatusKeepsDepth, LevelsAre DEF TreeInv
<1>5. DOMAIN rows \subseteq DOMAIN levels
      /\ \A l \in DOMAIN rows : r \notin overtaken =>
           rows[l].superior = levels[l].superior /\ rows[l].level = levels[l].level
  BY <1>2, <1>3, <1>4
<1>6. cards' = cards BY <1>1, Zenon DEF Tree!WriteLevels
<1> HIDE DEF rows
<1>7. /\ levels' = Tree!With(levels, rows)
      /\ overtaken' = overtaken \cup (Tree!Running \ {r})
      /\ torn \subseteq torn' /\ misplaced \subseteq misplaced'
      /\ changed \subseteq torn' \cup misplaced'
  BY <1>1, WritesLevels DEF Bad
<1>8. /\ DOMAIN levels' = DOMAIN levels
      /\ \A l \in DOMAIN levels \ changed :
           levels'[l].superior = levels[l].superior /\ levels'[l].level = levels[l].level
  BY <1>5, <1>7 DEF Tree!With
<1>9. q.kind = "none" /\ treeReq'[r] = q BY <1>1, IdleTreeRequest DEF TreeInv, TreeTyped
<1> HIDE DEF q, changed
<1>10. KnowsCards(r)' BY <1>9 DEF KnowsCards, Moving
<1>11. \A n \in DOMAIN levels : ~Refreshes(r, n) BY <1>1 DEF Refreshes, Moving
<1>12. \A n \in DOMAIN levels : Tree!InChain(levels', n) \cap changed # {} => Tree!Excused(n)'
  BY <1>7 DEF Tree!Excused
<1> QED BY <1>1, <1>6, <1>7, <1>8, <1>10, <1>11, <1>12, CardsWritten

\* What is below a level is of its site.
LEMMA SiteBelow ==
  ASSUME TreeInv, PlantInv, NEW c \in DOMAIN levels
  PROVE  LET D == Tree!FindAllChildLevels(levels, c) IN
         c \in D /\ TakesAlong(levels, D) /\ \A x \in D : levels[x].site = levels[c].site
<1> DEFINE D == Tree!FindAllChildLevels(levels, c)
           E == {x \in DOMAIN levels : levels[x].site = levels[c].site}
<1>1. /\ c \in D /\ TakesAlong(levels, D)
      /\ \A S : TakesAlong(levels, S) /\ c \in S => D \subseteq S
  BY AllBelow, LevelsAre DEF TreeInv
<1> HIDE DEF D
<1>2. TakesAlong(levels, E) /\ c \in E BY DEF TakesAlong, PlantInv, SitesHang, Beside
<1>3. D \subseteq E BY <1>1, <1>2
<1> QED BY <1>1, <1>3 DEF D

LEMMA CardsReadChildren ==
  ASSUME TreeInv, PlantInv, CardsInv, NEW r \in Requests, Tree!ReadChildren(r)
  PROVE  CardsInv'
<1> DEFINE q0 == treeReq[r]
           id == q0.id
           C == Tree!ChildrenOf(levels, id)
           its == Tree!Ascending(C)
           children == [k \in DOMAIN its |-> [id |-> its[k], row |-> levels[its[k]]]]
           todo == UNION {Tree!FindAllChildLevels(levels, c) : c \in C}
           copy == [q0.copy EXCEPT !.superior = q0.to,
                                   !.level = IF q0.to = Tree!NoLevel THEN 0 ELSE levels[q0.to].level + 1]
           q == [q0 EXCEPT !.at = "save", !.children = children, !.todo = todo, !.copy = copy]
<1>1. q0.kind = "move" /\ q0.at = "children" BY Zenon DEF Tree!ReadChildren, Tree!At
<1>2. CASE Tree!Fail(r) BY <1>2, CardsFail
<1>3. CASE Tree!Go(r, q) /\ Tree!Reads
  <2>1. q0 \in TreeRequest /\ id \in DOMAIN levels /\ Hangs(q0.copy) /\ q0.copy.site = levels[id].site
    BY <1>1 DEF TreeInv, TreeTyped, CarriesLevels, PlantInv, CarriesPlaces, Suits
  <2>2. C \subseteq DOMAIN levels /\ \A c \in C : levels[c].superior = id /\ levels[c].site = q0.copy.site
    BY <2>1 DEF Tree!ChildrenOf, PlantInv, SitesHang, Beside
  <2>3. its \in Seq(C) /\ \A c \in C : \E k \in DOMAIN its : its[k] = c
    <3>1. lastId \in Nat /\ C \subseteq 0 .. lastId BY <2>2, LevelsAre DEF TreeInv, TreeTyped
    <3> HIDE DEF C
    <3> QED BY <3>1, AscendingLists
  <2>4. {children[k].id : k \in DOMAIN children} = C
    <3> HIDE DEF its, C
    <3>1. DOMAIN children = DOMAIN its /\ \A k \in DOMAIN its : children[k].id = its[k] /\ its[k] \in C
      BY <2>3
    <3> HIDE DEF children
    <3> QED BY <2>3, <3>1
  <2>5. /\ C \subseteq todo /\ TakesAlong(levels, todo)
        /\ \A x \in todo : x \in DOMAIN levels /\ levels[x].site = q0.copy.site
    <3> DEFINE D(c) == Tree!FindAllChildLevels(levels, c)
    <3>1. \A c \in C : c \in D(c) /\ TakesAlong(levels, D(c)) /\ \A x \in D(c) : levels[x].site = levels[c].site
      BY <2>2, SiteBelow
    <3> HIDE DEF D, C
    <3>2. todo = UNION {D(c) : c \in C} BY DEF D
    <3> HIDE DEF todo
    <3> QED BY <2>2, <3>1, <3>2 DEF TakesAlong
  <2>6. copy.site = q0.copy.site BY <2>1 DEF Hangs, Tree!LevelType
  <2> HIDE DEF copy, children, todo, C
  <2>7. q.kind = "move" /\ q.at = "save" /\ q.copy = copy /\ q.children = children /\ q.todo = todo /\ q.id = id
    BY <1>1, <2>1 DEF TreeRequest
  <2>8. WentOn(r, q) BY <1>3, LevelReads
  <2> HIDE DEF q, id
  <2>10. OwnLevels(q) = {id} \cup C BY <2>4, <2>7 DEF OwnLevels
  <2>11. ListsAllBelow(q) BY <2>4, <2>5, <2>6, <2>7 DEF ListsAllBelow, TakesAlong
  <2>12. KnowsCards(r)'
    <3>1. ListsAllBelow(treeReq[r])' BY <2>8, <2>11 DEF WentOn, ListsAllBelow, OwnLevels
    <3>2. Tree!ChildrenOf(levels', q.id) \subseteq OwnLevels(q) BY <2>7, <2>8, <2>10 DEF WentOn, C
    <3> QED BY <2>7, <2>8, <3>1, <3>2 DEF WentOn, KnowsCards, Moving, OwnLevels
  <2>13. \A n \in DOMAIN levels : ~Refreshes(r, n) BY <1>1 DEF Refreshes, Moving
  <2> QED BY <2>8, <2>12, <2>13, CardsUntouched DEF WentOn
<1> QED BY <1>2, <1>3, Zenon DEF Tree!ReadChildren

\* A level below one that a move writes is in the list, or below the moved level.
LEMMA FirstOwn ==
  ASSUME NEW rows, NEW n \in DOMAIN rows, IsFiniteSet(DOMAIN rows), NEW own, NEW todo, NEW id,
         own \ {id} \subseteq todo, \A l \in DOMAIN rows \ own : rows[l].superior \in todo => l \in todo,
         Tree!InChain(rows, n) \cap own # {}
  PROVE  n \in todo \/ id \in Tree!InChain(rows, n)
<1> DEFINE C == Tree!InChain(rows, n)
           E == C \ todo
<1>1. n \in C /\ C \subseteq DOMAIN rows /\ Upward(rows, C)
      /\ \A S : Upward(rows, S) /\ n \in S => C \subseteq S
  BY ChainIsLeast
<1>2. C \cap own # {} OBVIOUS
<1> HIDE DEF C
<1> SUFFICES ASSUME n \notin todo, id \notin C PROVE FALSE BY DEF C
<1>3. Upward(rows, E) BY <1>1 DEF Upward
<1>4. C \subseteq E BY <1>1, <1>3
<1> QED BY <1>2, <1>4

\* The list goes on having all below when only superiors and depths of own levels change.
LEMMA ListsStay ==
  ASSUME NEW r, NEW s, ListsAllBelow(treeReq[r]), OwnLevels(s) = OwnLevels(treeReq[r]), s.children = treeReq[r].children,
         s.todo = treeReq[r].todo, s.copy = treeReq[r].copy, treeReq'[r] = s, DOMAIN levels' = DOMAIN levels,
         \A l \in DOMAIN levels : levels'[l].site = levels[l].site,
         \A l \in DOMAIN levels \ OwnLevels(s) : levels'[l].superior = levels[l].superior
  PROVE  ListsAllBelow(treeReq[r])'
BY DEF ListsAllBelow, OwnLevels

LEMMA CardsSaveMoved ==
  ASSUME TreeInv, TreeInv', PlantInv, CardsInv, NEW r \in Requests, Tree!SaveMoved(r)
  PROVE  CardsInv'
<1> DEFINE q0 == treeReq[r]
           id == q0.id
           below == IF q0.to \in Tree!FindAllChildLevels(levels, id) THEN {id} ELSE {}
           rows == [i \in {id} |-> q0.copy]
           at == IF q0.children = <<>> THEN "query" ELSE "reassign"
           q == [q0 EXCEPT !.at = at, !.began = TRUE]
<1>1. /\ q0.kind = "move" /\ q0.at = "save"
      /\ Tree!WriteLevels(r, Tree!With(levels, rows), {id}, below)
      /\ treeReq' = [treeReq EXCEPT ![r] = q]
  BY Zenon DEF Tree!SaveMoved, Tree!At, Tree!Go
<1>2. q0 \in TreeRequest /\ id \in DOMAIN levels /\ q0.copy.site = levels[id].site
  BY <1>1 DEF TreeInv, TreeTyped, CarriesLevels, PlantInv, CarriesPlaces, Suits
<1>3. r \notin overtaken => ListsAllBelow(q0) /\ Tree!ChildrenOf(levels, id) \subseteq OwnLevels(q0)
  BY <1>1 DEF CardsInv, KnowsCards
<1>4. DOMAIN rows = {id} /\ rows[id] = q0.copy /\ at \in {"query", "reassign"} OBVIOUS
<1>5. cards' = cards BY <1>1, Zenon DEF Tree!WriteLevels
<1> HIDE DEF rows, at, below
<1>6. /\ levels' = Tree!With(levels, rows)
      /\ overtaken' = overtaken \cup (Tree!Running \ {r})
      /\ torn \subseteq torn' /\ misplaced \subseteq misplaced'
  BY <1>1, WritesLevels, Zenon
<1>7. /\ DOMAIN levels' = DOMAIN levels
      /\ \A l \in DOMAIN levels \ {id} : levels'[l] = levels[l]
      /\ levels'[id].site = levels[id].site
  BY <1>2, <1>4, <1>6 DEF Tree!With
<1>8. /\ q.kind = "move" /\ q.at = at /\ q.copy = q0.copy /\ q.children = q0.children
      /\ q.id = id /\ q.todo = q0.todo /\ q.began = TRUE
  BY <1>1, <1>2 DEF TreeRequest
<1>9. treeReq'[r] = q BY <1>1 DEF TreeInv, TreeTyped
<1> HIDE DEF q
<1>10. OwnLevels(q) = OwnLevels(q0) /\ id \in OwnLevels(q) BY <1>8 DEF OwnLevels
<1>11. KnowsCards(r)'
  <2>1. r \notin overtaken => ListsAllBelow(treeReq[r])'
    BY <1>3, <1>7, <1>8, <1>9, <1>10, ListsStay
  <2>2. r \notin overtaken => Tree!ChildrenOf(levels', q.id) \subseteq OwnLevels(q)
    BY <1>3, <1>7, <1>8, <1>10 DEF Tree!ChildrenOf
  <2> QED BY <1>4, <1>6, <1>8, <1>9, <2>1, <2>2 DEF KnowsCards, Moving, OwnLevels
<1>12. ASSUME NEW n \in DOMAIN levels, Tree!InChain(levels', n) \cap {id} # {}
       PROVE  Refreshes(r, n)'
  BY <1>4, <1>8, <1>9, <1>12 DEF Refreshes, Moving, OwnLevels
<1>13. \A n \in DOMAIN levels : ~Refreshes(r, n) BY <1>1 DEF Refreshes, Moving
<1> DEFINE changed == {id}
<1>14. /\ DOMAIN levels \subseteq DOMAIN levels' /\ DOMAIN levels' \subseteq DOMAIN levels \cup changed
       /\ \A l \in DOMAIN levels \ changed :
            levels'[l].superior = levels[l].superior /\ levels'[l].level = levels[l].level
       /\ \A n \in DOMAIN levels : Tree!InChain(levels', n) \cap changed # {} => Refreshes(r, n)'
  BY <1>7, <1>12
<1> HIDE DEF changed
<1> QED BY <1>1, <1>5, <1>6, <1>11, <1>13, <1>14, CardsWritten

\* The children of a moved level are written while their cards, and those below, are listed.
LEMMA CardsMoveOn ==
  ASSUME TreeInv, TreeInv', CardsInv, NEW r \in Requests, treeReq[r].kind = "move",
         treeReq[r].at \in {"reassign", "depths"}, NEW q, treeReq' = [treeReq EXCEPT ![r] = q],
         NEW rows, Tree!WriteLevels(r, Tree!With(levels, rows), DOMAIN rows, {}),
         DOMAIN rows \subseteq DOMAIN levels, \A i \in DOMAIN rows : rows[i].site = levels[i].site,
         r \notin overtaken => DOMAIN rows \subseteq OwnLevels(treeReq[r]),
         q.kind = "move", q.at \in {"depths", "query"}, q.copy = treeReq[r].copy, q.id = treeReq[r].id,
         q.children = treeReq[r].children, q.todo = treeReq[r].todo, q.began = treeReq[r].began
  PROVE  CardsInv'
<1> DEFINE changed == DOMAIN rows
           own == OwnLevels(treeReq[r])
<1>1. treeReq'[r] = q BY DEF TreeInv, TreeTyped
<1>2. /\ levels' = Tree!With(levels, rows)
      /\ overtaken' = overtaken \cup (Tree!Running \ {r})
      /\ torn \subseteq torn' /\ misplaced \subseteq misplaced'
      /\ r \in overtaken => changed \subseteq torn' \cup misplaced'
  BY WritesLevels DEF Bad
<1>3. cards' = cards BY Zenon DEF Tree!WriteLevels
<1>4. /\ DOMAIN levels' = DOMAIN levels
      /\ \A l \in DOMAIN levels \ changed : levels'[l] = levels[l]
      /\ \A l \in DOMAIN levels : levels'[l].site = levels[l].site
  BY <1>2 DEF Tree!With
<1>5. OwnLevels(q) = own BY DEF OwnLevels
<1>6. treeReq[r].began /\ (r \notin overtaken => ListsAllBelow(treeReq[r]))
  BY DEF CardsInv, KnowsCards, Moving
<1>7. r \notin overtaken => ListsAllBelow(treeReq[r])' BY <1>1, <1>4, <1>5, <1>6, ListsStay
<1>8. KnowsCards(r)' BY <1>1, <1>2, <1>6, <1>7 DEF KnowsCards, Moving
<1>9. ASSUME NEW n \in DOMAIN levels, Tree!InChain(levels', n) \cap changed # {}
      PROVE  Tree!Excused(n)' \/ Refreshes(r, n)'
  <2>1. CASE r \in overtaken BY <1>2, <1>9, <2>1 DEF Tree!Excused
  <2>2. CASE r \notin overtaken
    <3>1. Tree!InChain(levels', n) \cap own # {} BY <1>9, <2>2
    <3>2. /\ own \ {q.id} \subseteq q.todo
          /\ \A l \in DOMAIN levels' \ own : levels'[l].superior \in q.todo => l \in q.todo
      BY <1>1, <1>5, <1>7, <2>2 DEF ListsAllBelow, OwnLevels
    <3>3. n \in DOMAIN levels' /\ IsFiniteSet(DOMAIN levels')
      BY <1>4, WrittenLevelsAre DEF TreeInv
    <3> HIDE DEF own
    <3>4. n \in q.todo \/ q.id \in Tree!InChain(levels', n) BY <3>1, <3>2, <3>3, FirstOwn
    <3>5. treeReq'[r].todo = q.todo /\ treeReq'[r].id = q.id /\ treeReq'[r].kind = "move"
          /\ treeReq'[r].at \in {"depths", "query"} /\ OwnLevels(treeReq[r])' = own
      BY <1>1, <1>5 DEF OwnLevels
    <3> QED BY <3>1, <3>4, <3>5 DEF Refreshes, Moving
  <2> QED BY <2>1, <2>2
<1>10. ASSUME NEW n \in DOMAIN levels, Refreshes(r, n), Tree!InChain(levels', n) = Tree!InChain(levels, n)
       PROVE  Refreshes(r, n)'
  <2>1. OwnLevels(treeReq[r])' = own BY <1>1, <1>5 DEF OwnLevels
  <2> HIDE DEF own
  <2> QED BY <1>1, <1>10, <2>1 DEF Refreshes, Moving, own
<1>11. /\ DOMAIN levels \subseteq DOMAIN levels' /\ DOMAIN levels' \subseteq DOMAIN levels \cup changed
       /\ \A l \in DOMAIN levels \ changed :
            levels'[l].superior = levels[l].superior /\ levels'[l].level = levels[l].level
  BY <1>4
<1> HIDE DEF changed
<1> QED BY <1>2, <1>3, <1>8, <1>9, <1>10, <1>11, CardsWritten

LEMMA CardsReassign ==
  ASSUME TreeInv, TreeInv', CardsInv, NEW r \in Requests, Tree!Reassign(r)
  PROVE  CardsInv'
<1> DEFINE q0 == treeReq[r]
           its == Tree!ChildrenOf(levels, q0.id)
           rows == [l \in its |-> [levels[l] EXCEPT !.superior = q0.old]]
           q == [q0 EXCEPT !.at = "depths"]
<1>1. /\ q0.kind = "move" /\ q0.at = "reassign"
      /\ Tree!WriteLevels(r, Tree!With(levels, rows), its, {})
      /\ treeReq' = [treeReq EXCEPT ![r] = q]
  BY Zenon DEF Tree!Reassign, Tree!At, Tree!Go
<1>2. q0 \in TreeRequest BY DEF TreeInv, TreeTyped
<1>3. its \subseteq DOMAIN levels /\ (r \notin overtaken => its \subseteq OwnLevels(q0))
  BY <1>1 DEF Tree!ChildrenOf, CardsInv, KnowsCards
<1>4. DOMAIN rows = its /\ \A l \in its : rows[l].site = levels[l].site
  <2>1. \A l \in its : [levels[l] EXCEPT !.superior = q0.old].site = levels[l].site
    BY <1>3, LevelsAre DEF TreeInv, Tree!LevelType
  <2> QED BY <2>1
<1> HIDE DEF rows, its
<1>5. /\ q.kind = "move" /\ q.at = "depths" /\ q.copy = q0.copy /\ q.children = q0.children
      /\ q.id = q0.id /\ q.todo = q0.todo /\ q.began = q0.began
  BY <1>1, <1>2 DEF TreeRequest
<1> HIDE DEF q
<1>6. Tree!WriteLevels(r, Tree!With(levels, rows), DOMAIN rows, {}) BY <1>1, <1>4
<1>7. /\ DOMAIN rows \subseteq DOMAIN levels /\ \A i \in DOMAIN rows : rows[i].site = levels[i].site
      /\ r \notin overtaken => DOMAIN rows \subseteq OwnLevels(treeReq[r])
  BY <1>3, <1>4
<1> QED BY <1>1, <1>5, <1>6, <1>7, CardsMoveOn

LEMMA CardsSaveChild ==
  ASSUME TreeInv, TreeInv', PlantInv, CardsInv, NEW r \in Requests, Tree!SaveChild(r)
  PROVE  CardsInv'
<1> DEFINE q0 == treeReq[r]
           k == q0.saved + 1
           child == q0.children[k]
           depth == IF Tree!Same(q0.old, Tree!NoLevel) THEN 0 ELSE levels[q0.old].level + 1
           row == [child.row EXCEPT !.level = depth]
           rows == [i \in {child.id} |-> row]
           at == IF k = Len(q0.children) THEN "query" ELSE q0.at
           q == [q0 EXCEPT !.saved = k, !.at = at]
<1>1. q0.kind = "move" /\ q0.at = "depths" BY Zenon DEF Tree!SaveChild, Tree!At
<1>2. CASE Tree!Fail(r) BY <1>2, CardsFail
<1>3. CASE /\ Tree!WriteLevels(r, Tree!With(levels, rows), {child.id}, {})
           /\ treeReq' = [treeReq EXCEPT ![r] = [q0 EXCEPT !.saved = k, !.at = IF k = Len(q0.children) THEN "query" ELSE @]]
  <2>1. /\ q0 \in TreeRequest /\ q0.children \in Seq(ChildType) /\ q0.saved < Len(q0.children)
        /\ \A n \in DOMAIN q0.children : q0.children[n].id \in DOMAIN levels /\ Hangs(q0.children[n].row)
        /\ \A n \in DOMAIN q0.children : Suits(q0.children[n].id, q0.children[n].row)
    BY <1>1 DEF TreeInv, TreeTyped, CarriesLevels, PlantInv, CarriesPlaces
  <2>2. k \in DOMAIN q0.children BY <2>1 DEF TreeRequest
  <2>3. treeReq' = [treeReq EXCEPT ![r] = q] BY <1>3
  <2>4. at \in {"query", "depths"} BY <1>1
  <2> HIDE DEF depth, at, k
  <2>5. child.id \in OwnLevels(q0) /\ child.id \in DOMAIN levels /\ Hangs(child.row)
        /\ child.row.site = levels[child.id].site
    BY <2>1, <2>2 DEF OwnLevels, Suits
  <2> HIDE DEF child
  <2>6. row.site = levels[child.id].site BY <2>5 DEF Hangs, Tree!LevelType
  <2>7. DOMAIN rows = {child.id} /\ rows[child.id] = row OBVIOUS
  <2> HIDE DEF row, rows
  <2>8. /\ q.kind = "move" /\ q.at = at /\ q.copy = q0.copy /\ q.children = q0.children
        /\ q.id = q0.id /\ q.todo = q0.todo /\ q.began = q0.began
    BY <1>1, <2>1 DEF TreeRequest
  <2> HIDE DEF q
  <2>9. Tree!WriteLevels(r, Tree!With(levels, rows), DOMAIN rows, {}) BY <1>3, <2>7
  <2>10. /\ DOMAIN rows \subseteq DOMAIN levels /\ \A i \in DOMAIN rows : rows[i].site = levels[i].site
         /\ DOMAIN rows \subseteq OwnLevels(treeReq[r])
    BY <2>5, <2>6, <2>7
  <2> QED BY <1>1, <2>3, <2>4, <2>8, <2>9, <2>10, CardsMoveOn
<1> QED BY <1>2, <1>3, Zenon DEF Tree!SaveChild, Tree!Go

\* A move lists what is below the moved level, after all it has written.
LEMMA CardsReadAffected ==
  ASSUME TreeInv, PlantInv, CardsInv, NEW r \in Requests, Tree!ReadAffected(r)
  PROVE  CardsInv'
<1> DEFINE q0 == treeReq[r]
           id == q0.id
           below == Tree!FindAllChildLevels(levels, id)
           todo == q0.todo \cup below
           rows == Tree!SiteMap(q0.copy.site)
           q == [q0 EXCEPT !.at = "cards", !.todo = todo, !.rows = rows]
<1>1. q0.kind = "move" /\ q0.at = "query" BY Zenon DEF Tree!ReadAffected, Tree!At
<1>2. CASE Tree!Fail(r) BY <1>2, CardsFail
<1>3. CASE /\ treeReq' = [treeReq EXCEPT ![r] = [q0 EXCEPT
                !.at = "cards", !.todo = @ \cup Tree!FindAllChildLevels(levels, id), !.rows = rows]]
           /\ Tree!Reads
  <2>1. q0 \in TreeRequest /\ id \in DOMAIN levels /\ q0.copy.site = levels[id].site
    BY <1>1 DEF TreeInv, TreeTyped, CarriesLevels, PlantInv, CarriesPlaces, Suits
  <2>2. treeReq' = [treeReq EXCEPT ![r] = q] BY <1>3
  <2>3. levels' = levels /\ cards' = cards /\ torn' = torn /\ misplaced' = misplaced /\ overtaken' = overtaken
    BY <1>3, Zenon DEF Tree!Reads, Tree!tables, Tree!histories
  <2>4. /\ DOMAIN rows = {x \in DOMAIN levels : levels[x].site = q0.copy.site}
        /\ below \subseteq DOMAIN rows
    <3>1. below \subseteq DOMAIN levels /\ \A x \in below : levels[x].site = q0.copy.site
      BY <2>1, SiteBelow DEF TakesAlong
    <3> QED BY <3>1 DEF Tree!SiteMap
  <2>5. q0.began /\ (r \notin overtaken => q0.todo \subseteq DOMAIN rows)
    BY <1>1, <2>4 DEF CardsInv, KnowsCards, Moving, ListsAllBelow
  <2>6. \A n \in DOMAIN levels : id \in Tree!InChain(levels, n) => n \in below
    BY BelowWhatIsAbove, LevelsAre DEF TreeInv
  <2> HIDE DEF below, rows
  <2>7. /\ q.kind = "move" /\ q.at = "cards" /\ q.copy = q0.copy /\ q.children = q0.children
        /\ q.id = id /\ q.todo = todo /\ q.began = q0.began /\ q.rows = rows
    BY <1>1, <2>1 DEF TreeRequest
  <2>8. treeReq'[r] = q BY <2>2 DEF TreeInv, TreeTyped
  <2> HIDE DEF q
  <2>9. OwnLevels(q) = OwnLevels(q0) BY <2>7 DEF OwnLevels
  <2>10. KnowsCards(r)'
    <3>1. \A site : Tree!SiteMap(site)' = Tree!SiteMap(site) BY <2>3 DEF Tree!SiteMap
    <3>2. q.rows = Tree!SiteMap(q.copy.site) BY <2>7 DEF rows
    <3>3. r \notin overtaken' => q.todo \subseteq DOMAIN q.rows BY <2>3, <2>4, <2>5, <2>7
    <3> QED BY <2>5, <2>7, <2>8, <3>1, <3>2, <3>3 DEF KnowsCards, Moving
  <2>11. ASSUME NEW n \in DOMAIN levels, Refreshes(r, n)
         PROVE  Refreshes(r, n)'
    <3>1. n \in q.todo BY <2>6, <2>7, <2>11 DEF Refreshes
    <3>2. Tree!InChain(levels, n) \cap OwnLevels(q) # {} BY <2>9, <2>11 DEF Refreshes
    <3> QED BY <2>3, <2>7, <2>8, <3>1, <3>2 DEF Refreshes, Moving, OwnLevels
  <2> QED BY <2>2, <2>3, <2>10, <2>11, CardsUntouched
<1> QED BY <1>2, <1>3, Zenon DEF Tree!ReadAffected, Tree!Go

\* The cards of a listed level are given its place in the map of the site; when another has
\* written since it was read, the levels that are left are torn.
LEMMA CardsUpdateCards ==
  ASSUME TreeInv, PlantInv, CardsInv, NEW r \in Requests, Tree!UpdateCardsForLevel(r)
  PROVE  CardsInv'
<1> DEFINE q0 == treeReq[r]
           l == CHOOSE l \in q0.todo : \A m \in q0.todo : l <= m
           rows == q0.rows
           circling == [q0 EXCEPT !.at = "circling"]
           left == [q0 EXCEPT !.todo = @ \ {l}]
           there == l \in DOMAIN rows
<1>1. /\ q0.kind = "move" /\ q0.at = "cards"
      /\ levels' = levels /\ misplaced' = misplaced /\ overtaken' = overtaken
      /\ torn' = IF r \in overtaken THEN torn \cup q0.todo ELSE torn
      /\ \/ q0.todo = {} /\ treeReq' = [treeReq EXCEPT ![r] = Tree!Idle] /\ cards' = cards
         \/ treeReq' = [treeReq EXCEPT ![r] = circling] /\ cards' = cards
         \/ /\ q0.todo # {} /\ treeReq' = [treeReq EXCEPT ![r] = left]
            /\ ~(there /\ ~Tree!EndsAbove(rows, l))
            /\ cards' = IF ~there THEN cards ELSE {IF c.node = l THEN Tree!OnMove(rows, l) ELSE c : c \in cards}
  BY Zenon DEF Tree!UpdateCardsForLevel, Tree!At, Tree!Done, Tree!Go
<1>2. q0 \in TreeRequest /\ q0.todo \subseteq Nat BY <1>1 DEF TreeInv, TreeTyped, TreeRequest
<1>3. torn \subseteq torn' BY <1>1
<1>4. q0.began /\ (r \notin overtaken => rows = Tree!SiteMap(q0.copy.site) /\ q0.todo \subseteq DOMAIN rows)
  BY <1>1 DEF CardsInv, KnowsCards, Moving
<1>5. CASE q0.todo = {} /\ treeReq' = [treeReq EXCEPT ![r] = Tree!Idle] /\ cards' = cards
  <2> DEFINE q == Tree!Idle
  <2>1. q.kind = "none" /\ treeReq'[r] = q BY <1>5, IdleTreeRequest DEF TreeInv, TreeTyped
  <2> HIDE DEF q
  <2>2. KnowsCards(r)' BY <2>1 DEF KnowsCards, Moving
  <2>3. \A n \in DOMAIN levels : ~Refreshes(r, n) BY <1>1, <1>5 DEF Refreshes
  <2> QED BY <1>1, <1>3, <1>5, <2>2, <2>3, CardsUntouched DEF q
<1>6. CASE treeReq' = [treeReq EXCEPT ![r] = circling] /\ cards' = cards
  <2>1. /\ circling.kind = "move" /\ circling.at = "circling" /\ circling.id = q0.id
        /\ circling.children = q0.children /\ circling.todo = q0.todo /\ circling.began = q0.began
    BY <1>1, <1>2 DEF TreeRequest
  <2>2. treeReq'[r] = circling BY <1>6 DEF TreeInv, TreeTyped
  <2> DEFINE q == circling
  <2> HIDE DEF circling
  <2>3. KnowsCards(r)' BY <1>4, <2>1, <2>2 DEF KnowsCards, Moving
  <2>4. \A n \in DOMAIN levels : Refreshes(r, n) => Refreshes(r, n)'
    BY <1>1, <2>1, <2>2 DEF Refreshes, Moving, OwnLevels
  <2> QED BY <1>1, <1>3, <1>6, <2>3, <2>4, CardsUntouched
<1>7. CASE /\ q0.todo # {} /\ treeReq' = [treeReq EXCEPT ![r] = left]
           /\ ~(there /\ ~Tree!EndsAbove(rows, l))
           /\ cards' = IF ~there THEN cards ELSE {IF c.node = l THEN Tree!OnMove(rows, l) ELSE c : c \in cards}
  <2>1. l \in q0.todo
    <3>1. \E i \in q0.todo : \A m \in q0.todo : i <= m BY <1>2, <1>7, Smallest
    <3> QED BY <3>1
  <2> HIDE DEF l
  <2>2. /\ left.kind = "move" /\ left.at = "cards" /\ left.id = q0.id /\ left.copy = q0.copy /\ left.rows = rows
        /\ left.children = q0.children /\ left.todo = q0.todo \ {l} /\ left.began = q0.began
    BY <1>1, <1>2 DEF TreeRequest
  <2>3. treeReq'[r] = left BY <1>7 DEF TreeInv, TreeTyped
  <2> DEFINE q == left
  <2> HIDE DEF left
  <2>4. KnowsCards(r)'
    <3>1. \A site : Tree!SiteMap(site)' = Tree!SiteMap(site) BY <1>1 DEF Tree!SiteMap
    <3>2. r \notin overtaken' => q.rows = Tree!SiteMap(q.copy.site) /\ q.todo \subseteq DOMAIN q.rows
      BY <1>1, <1>4, <2>2
    <3> QED BY <1>4, <2>2, <2>3, <3>1, <3>2 DEF KnowsCards, Moving
  <2>5. \A n : n # l /\ Refreshes(r, n) => Refreshes(r, n)'
    BY <1>1, <2>2, <2>3 DEF Refreshes, Moving, OwnLevels
  <2>6. ASSUME NEW n \in DOMAIN levels, n = l, r \in overtaken
        PROVE  Tree!Excused(n)'
    <3>1. n \in Tree!InChain(levels, n) /\ n \in torn'
      BY <1>1, <2>1, <2>6, ChainIsLeast, LevelsAre DEF TreeInv
    <3> QED BY <1>1, <3>1 DEF Tree!Excused
  <2>7. ASSUME r \notin overtaken
        PROVE  there /\ Tree!OnMove(rows, l) \in PlacesIn(levels, l)
    <3>1. rows = Tree!SiteMap(q0.copy.site) /\ l \in DOMAIN rows /\ Tree!EndsAbove(rows, l)
      BY <1>4, <1>7, <2>1, <2>7
    <3>2. /\ DOMAIN rows = {i \in DOMAIN levels : levels[i].site = q0.copy.site}
          /\ \A i \in DOMAIN rows : rows[i] = levels[i]
      BY <3>1 DEF Tree!SiteMap
    <3> HIDE DEF rows, q0
    <3>3. IsFiniteSet(DOMAIN levels) /\ IsFiniteSet(DOMAIN rows)
      BY <3>2, LevelsAre, FS_Subset DEF TreeInv
    <3>4. \A x \in Tree!InChain(rows, l) :
            /\ x \in DOMAIN levels /\ levels[x].superior = rows[x].superior
            /\ rows[x].superior \in DOMAIN levels => rows[x].superior \in DOMAIN rows
      <4>1. Tree!InChain(rows, l) \subseteq DOMAIN rows BY <3>1, <3>3, ChainIsLeast
      <4> QED BY <3>2, <4>1 DEF PlantInv, SitesHang, Beside
    <3>5. PlacesIn(levels, l) = PlacesIn(rows, l) BY <3>1, <3>2, <3>3, <3>4, PlacesAgree
    <3> QED BY <3>1, <3>5 DEF PlacesIn
  <2>8. ASSUME NEW c \in cards'
        PROVE  /\ c.node \in DOMAIN levels
               /\ \/ c \in PlacesIn(levels, c.node) \/ Tree!Excused(c.node) \/ Tree!Excused(c.node)'
                  \/ Refreshes(r, c.node)' \/ \E s \in Requests \ {r} : Refreshes(s, c.node)
    <3>1. CASE c \in cards /\ c.node # l BY <2>5, <3>1 DEF CardsInv, CardsInPlace
    <3>2. CASE c \in cards /\ ~there /\ c.node = l BY <2>6, <2>7, <3>2 DEF CardsInv, CardsInPlace
    <3>3. CASE l \in DOMAIN levels /\ there /\ c = Tree!OnMove(rows, l)
      <4>1. c.node = l BY <3>3, PlaceIsOf DEF PlacesIn
      <4> QED BY <2>6, <2>7, <3>3, <4>1
    <3>4. \A d \in cards : d.node \in DOMAIN levels BY DEF CardsInv, CardsInPlace
    <3>5. CASE ~there BY <1>7, <3>1, <3>2, <3>5
    <3>6. CASE there
      <4>1. PICK d \in cards : c = IF d.node = l THEN Tree!OnMove(rows, l) ELSE d BY <1>7, <3>6
      <4> QED BY <3>1, <3>3, <3>4, <3>6, <4>1
    <3> QED BY <3>5, <3>6
  <2> QED BY <1>1, <1>3, <1>7, <2>4, <2>8, CardsStay
<1> QED BY <1>1, <1>5, <1>6, <1>7

\* A card that is to be created has the place that its level had when it was read.
LEMMA CardsCheckCard ==
  ASSUME TreeInv, CardsInv, NEW r \in Requests, Tree!CheckCard(r)
  PROVE  CardsInv'
<1> DEFINE q0 == treeReq[r]
           id == q0.id
           card == Tree!OnCreation(levels, id)
           found == [q0 EXCEPT !.at = "insert", !.copy = card]
           lost == [q0 EXCEPT !.at = "circling"]
<1>1. q0.kind = "card" /\ q0 \in TreeRequest
  BY Zenon DEF Tree!CheckCard, Tree!At, TreeInv, TreeTyped
<1>2. ~Moving(r) /\ \A n \in DOMAIN levels : ~Refreshes(r, n) BY <1>1 DEF Refreshes, Moving
<1>3. CASE Tree!Refuse(r) BY <1>2, <1>3, CardsRefuse
<1>4. ASSUME NEW q, Tree!Go(r, q), Tree!Reads, q.kind = "card", q.id = id, q.at = "insert" => q.copy = card
      PROVE  CardsInv'
  <2>1. WentOn(r, q) BY <1>4, LevelReads
  <2>3. card.node = id BY PlaceIsOf DEF PlacesIn
  <2>4. q.at = "insert" => q.copy = Tree!OnCreation(levels', q.id) BY <1>4, <2>1 DEF WentOn
  <2> HIDE DEF card, id
  <2>5. KnowsCards(r)' BY <1>4, <2>1, <2>3, <2>4 DEF WentOn, KnowsCards, Moving
  <2> QED BY <1>2, <2>1, <2>5, CardsUntouched DEF WentOn
<1>5. CASE Tree!Reads /\ (Tree!Go(r, found) \/ Tree!Go(r, lost))
  <2> HIDE DEF card
  <2>1. /\ found.kind = "card" /\ found.id = id /\ found.copy = card
        /\ lost.kind = "card" /\ lost.id = id /\ lost.at = "circling"
    BY <1>1 DEF TreeRequest
  <2> HIDE DEF found, lost
  <2> QED BY <1>4, <1>5, <2>1
<1> QED BY <1>3, <1>5, Zenon DEF Tree!CheckCard

LEMMA CardsInsertCard ==
  ASSUME TreeInv, CardsInv, NEW r \in Requests, Tree!InsertCard(r)
  PROVE  CardsInv'
<1> DEFINE q0 == treeReq[r]
           id == q0.id
           q == Tree!Idle
<1>1. /\ q0.kind = "card" /\ q0.at = "insert" /\ treeReq' = [treeReq EXCEPT ![r] = q]
      /\ levels' = levels /\ misplaced' = misplaced /\ overtaken' = overtaken
      /\ cards' = cards \cup {q0.copy}
      /\ torn' = IF r \in overtaken THEN torn \cup {id} ELSE torn
  BY Zenon DEF Tree!InsertCard, Tree!At, Tree!Done, Tree!Go
<1>2. q.kind = "none" /\ treeReq'[r] = q BY <1>1, IdleTreeRequest DEF TreeInv, TreeTyped
<1>3. torn \subseteq torn' BY <1>1
<1> HIDE DEF q
<1>4. KnowsCards(r)' BY <1>2 DEF KnowsCards, Moving
<1>5. id \in DOMAIN levels /\ id \in Tree!InChain(levels, id)
  BY <1>1, ChainIsLeast, LevelsAre DEF TreeInv, CarriesLevels
<1>6. q0.copy.node = id /\ (r \notin overtaken => q0.copy \in PlacesIn(levels, id))
  BY <1>1 DEF CardsInv, KnowsCards, PlacesIn
<1>9. ASSUME NEW n, n = id, r \in overtaken
      PROVE  Tree!Excused(n)'
  <2>1. n \in Tree!InChain(levels, n) /\ n \in torn' BY <1>1, <1>5, <1>9
  <2> QED BY <1>1, <2>1 DEF Tree!Excused
<1>7. \A n : ~Refreshes(r, n) BY <1>1 DEF Refreshes, Moving
<1>8. ASSUME NEW c \in cards'
      PROVE  /\ c.node \in DOMAIN levels
             /\ \/ c \in PlacesIn(levels, c.node) \/ Tree!Excused(c.node) \/ Tree!Excused(c.node)'
                \/ Refreshes(r, c.node)' \/ \E s \in Requests \ {r} : Refreshes(s, c.node)
  <2>1. CASE c \in cards BY <1>7, <2>1 DEF CardsInv, CardsInPlace
  <2>2. CASE c = q0.copy BY <1>5, <1>6, <1>9, <2>2
  <2> QED BY <1>1, <2>1, <2>2
<1> QED BY <1>1, <1>3, <1>4, <1>8, CardsStay

LEMMA CardsInit == Tree!Init => CardsInv
<1> SUFFICES ASSUME Tree!Init PROVE CardsInv OBVIOUS
<1>1. levels = FirstLevels /\ cards = FirstCards /\ treeReq = [r \in Requests |-> Tree!Idle]
  BY Zenon DEF Tree!Init
<1>2. \A c \in FirstCards :
        /\ c.node \in DOMAIN FirstLevels
        /\ c \in {Tree!OnCreation(FirstLevels, c.node), Tree!OnMove(FirstLevels, c.node)}
  BY TreeAssumption, Zenon DEF Tree!LevelsAssumption
<1>3. CardsInPlace BY <1>1, <1>2 DEF CardsInPlace, PlacesIn
<1>4. \A r \in Requests : treeReq[r].kind = "none" BY <1>1, IdleTreeRequest
<1> QED BY <1>3, <1>4 DEF CardsInv, KnowsCards, Moving

LEMMA CardsNextKeeps ==
  ASSUME TreeInv, PlantInv, CardsInv, [Tree!Next]_Tree!vars
  PROVE  CardsInv'
<1>0. TreeInv' BY TreeNextKeeps
<1>1. CASE /\ levels' = levels /\ cards' = cards /\ treeReq' = treeReq /\ overtaken' = overtaken
           /\ torn' = torn /\ misplaced' = misplaced
  <2>1. CardsInPlace'
    BY <1>1 DEF CardsInv, CardsInPlace, Refreshes, Moving, OwnLevels, Tree!Excused
  <2>2. \A site : Tree!SiteMap(site)' = Tree!SiteMap(site) BY <1>1 DEF Tree!SiteMap
  <2>3. ASSUME NEW r \in Requests
        PROVE  KnowsCards(r)'
    BY <1>1, <2>2 DEF CardsInv, KnowsCards, Moving, ListsAllBelow, OwnLevels
  <2> QED BY <2>1, <2>3 DEF CardsInv
<1>2. ASSUME NEW r \in Requests, LevelStep(r)
      PROVE  CardsInv'
  BY <1>0, <1>2, CardsCalls, CardsChecks, CardsInsertLevel, CardsCheckUpdate, CardsCommitUpdate,
     CardsReadChildren, CardsSaveMoved, CardsReassign, CardsSaveChild, CardsReadAffected, CardsUpdateCards,
     CardsCheckCard, CardsInsertCard, CardsFail, Zenon DEF LevelStep
<1> QED BY <1>1, <1>2, LevelSteps

\* When no move is under way none is to refresh a card.
LEMMA PlacedWhenQuiet == CardsInv => CardsFollowTree
<1> SUFFICES ASSUME CardsInv, \A r \in Requests : treeReq[r].kind = "move" => treeReq[r].at = "check",
                    NEW c \in cards
             PROVE  c \in {Tree!OnCreation(levels, c.node), Tree!OnMove(levels, c.node)} \/ Tree!Excused(c.node)
  BY Zenon DEF CardsFollowTree, Tree!CardsFollowTree
<1>1. \A r \in Requests : ~Refreshes(r, c.node) BY DEF Refreshes, Moving
<1> QED BY <1>1 DEF CardsInv, CardsInPlace, PlacesIn

\* When no move is under way every card has the area, superior, depth and path of its level,
\* however levels were moved, cloned and updated while cards were created on them, except
\* below a level that an overlapped or half-done request wrote or that came below itself:
\* moveLevel and updateCardsForLevel of level.service.ts, create of card.service.ts.
THEOREM CardsStayPlaced == Tree!Spec => []CardsFollowTree
<1>1. Tree!Init => TreeInv /\ PlantInv /\ CardsInv BY TreeInit, PlantInit, CardsInit
<1>2. TreeInv /\ PlantInv /\ CardsInv /\ [Tree!Next]_Tree!vars => TreeInv' /\ PlantInv' /\ CardsInv'
  BY TreeNextKeeps, PlantNextKeeps, CardsNextKeeps
<1>3. CardsInv => CardsFollowTree BY PlacedWhenQuiet
<1> QED BY <1>1, <1>2, <1>3, PTL DEF Tree!Spec

(***************************************************************************)
(* A site is set up.                                                       *)
(***************************************************************************)
\* Where there are no levels nothing can be wrong with them.
LEMMA NothingToReach == NoLevels => TreeIsForest /\ ActiveIsReachable /\ ClonesAreSound /\ CardsFollowTree
<1> SUFFICES ASSUME NoLevels PROVE TreeIsForest /\ ActiveIsReachable /\ ClonesAreSound /\ CardsFollowTree
  OBVIOUS
<1>1. DOMAIN levels = {} /\ \A r \in Requests : treeReq[r] = Tree!Idle BY DEF NoLevels
<1>2. TreeIsForest BY <1>1 DEF TreeIsForest, Tree!TreeIsForest
<1>3. ASSUME NEW site \in Plants
      PROVE  /\ Tree!FindSiteActiveLevels(site) = {}
             /\ Tree!GetLevelTree(site, MaxLevels) = {}
  <2>1. Tree!FindSiteActiveLevels(site) = {}
    BY <1>1 DEF Tree!FindSiteActiveLevels, Tree!FindSiteLevels
  <2>2. MaxLevels \in Nat \ {0} /\ SitesHang
    BY <1>1, TreeAssumption DEF Tree!LevelsAssumption, SitesHang
  <2>3. Tree!GetLevelTree(site, MaxLevels) \subseteq Tree!FindSiteActiveLevels(site)
    BY <2>2, TreeIsInUse
  <2> QED BY <2>1, <2>3, Zenon
<1>4. ActiveIsReachable BY <1>3 DEF ActiveIsReachable, Tree!ActiveIsReachable
<1>5. ClonesAreSound
  <2>1. \A r \in Requests : ~Tree!At(r, "clone", "copy") BY <1>1 DEF Tree!Idle, Tree!At
  <2>2. Tree!ClonesAreCopies BY <2>1, Zenon DEF Tree!ClonesAreCopies
  <2>3. Tree!MachineIdsUnique BY <1>1 DEF Tree!MachineIdsUnique
  <2> QED BY <2>2, <2>3 DEF ClonesAreSound, Tree!ClonesAreSound
<1>6. CardsFollowTree BY DEF NoLevels, CardsFollowTree, Tree!CardsFollowTree
<1> QED BY <1>2, <1>4, <1>5, <1>6

LEMMA PartsHold ==
  /\ TreeInv /\ PlantInv /\ CardsInv => TreeIsForest /\ ActiveIsReachable /\ ClonesAreSound /\ CardsFollowTree
  /\ NoLevels => TreeIsForest /\ ActiveIsReachable /\ ClonesAreSound /\ CardsFollowTree
  /\ AccountsInv => PeopleUnique /\ FastPasswordsUnique
  /\ CatalogInv => CatalogHolds /\ RevisionTellsChange
  /\ JobsInv => PositionsKept
<1>1. TreeInv /\ PlantInv /\ CardsInv => TreeIsForest /\ ActiveIsReachable /\ ClonesAreSound /\ CardsFollowTree
  BY ForestWithoutCircles, ReachableWhenHanging, CopiesWhenKnown, PlacedWhenQuiet
<1>2. AccountsInv => PeopleUnique /\ FastPasswordsUnique BY DEF AccountsInv
<1>3. CatalogInv => CatalogHolds /\ RevisionTellsChange BY RevisionKnown DEF CatalogInv
<1>4. JobsInv => PositionsKept BY KeptIsBoth DEF JobsInv
<1> QED BY <1>1, <1>2, <1>3, <1>4, NothingToReach

LEMMA SetupStarts == SetupInit => SetupInv
<1> SUFFICES ASSUME SetupInit PROVE SetupInv OBVIOUS
<1>1. /\ IF subject = "levels" THEN Tree!Init ELSE NoLevels
      /\ Init /\ Catalog!Init /\ Jobs!Init
  BY Zenon DEF SetupInit
<1>2. AccountsInv /\ CatalogInv /\ JobsInv
  BY <1>1, PeopleAssumption, AccountsInit, CatalogInit, JobsInit
<1>3. Tree!Init => TreeInv /\ PlantInv /\ CardsInv BY TreeInit, PlantInit, CardsInit
<1> QED BY <1>1, <1>2, <1>3, PartsHold, Zenon DEF SetupInv

\* A step that leaves a part's tables and requests alone leaves what it promises.
LEMMA PartsStay ==
  /\ UNCHANGED treeVars => NoLevels' = NoLevels
  /\ UNCHANGED peopleVars => PeopleUnique' = PeopleUnique /\ FastPasswordsUnique' = FastPasswordsUnique
  /\ UNCHANGED catalogVars => CatalogHolds' = CatalogHolds /\ RevisionTellsChange' = RevisionTellsChange
  /\ UNCHANGED jobVars => PositionsKept' = PositionsKept
<1>1. ASSUME UNCHANGED treeVars
      PROVE  NoLevels' = NoLevels
  BY <1>1 DEF treeVars, NoLevels
<1>2. ASSUME UNCHANGED peopleVars
      PROVE  PeopleUnique' = PeopleUnique /\ FastPasswordsUnique' = FastPasswordsUnique
  BY <1>2 DEF peopleVars, PeopleUnique, FastPasswordsUnique, FindByEmail, FindSiteUsers
<1>3. ASSUME UNCHANGED catalogVars
      PROVE  CatalogHolds' = CatalogHolds /\ RevisionTellsChange' = RevisionTellsChange
  <2>1. /\ entries' = entries /\ worn' = worn /\ snapshot' = snapshot /\ now' = now
        /\ catalogReq' = catalogReq /\ crossed' = crossed /\ late' = late
    BY <1>3, Zenon DEF catalogVars
  <2>2. CatalogHolds' = CatalogHolds
    BY <2>1 DEF CatalogHolds, Catalog!CatalogHolds, Catalog!Active, Catalog!SameCode
  <2>3. RevisionTellsChange' = RevisionTellsChange
    <3>1. Catalog!Content' = Catalog!Content
      BY <2>1 DEF Catalog!Content, Catalog!Listed, Catalog!Active
    <3>2. Catalog!Revision' = Catalog!Revision BY <2>1, Zenon DEF Catalog!Revision
    <3> QED BY <2>1, <3>1, <3>2 DEF RevisionTellsChange, Catalog!RevisionTellsChange
  <2> QED BY <2>2, <2>3
<1>4. ASSUME UNCHANGED jobVars
      PROVE  PositionsKept' = PositionsKept
  <2>1. positions' = positions /\ placed' = placed /\ asked' = asked /\ jobReq' = jobReq /\ unsound' = unsound
    BY <1>4, Zenon DEF jobVars
  <2>2. PositionsKept' = PositionsKept
    BY <2>1 DEF PositionsKept, Jobs!PositionsKept, Jobs!WithOrder, Jobs!FindBySiteId, Jobs!Exchanging,
                Jobs!Placing, Jobs!Running
  <2> QED BY <2>2
<1> QED BY <1>1, <1>2, <1>3, <1>4

LEMMA SetupNextKeeps ==
  ASSUME SetupInv,
         [SetupNext]_<<subject, calls, overtaken, treeVars, peopleVars, catalogVars, jobVars>>
  PROVE  SetupInv'
<1>1. CASE UNCHANGED <<subject, calls, overtaken, treeVars, peopleVars, catalogVars, jobVars>>
  <2>1. /\ subject' = subject /\ calls' = calls /\ overtaken' = overtaken
        /\ UNCHANGED treeVars /\ UNCHANGED peopleVars /\ UNCHANGED catalogVars /\ UNCHANGED jobVars
    BY <1>1, Zenon
  <2>2. /\ UNCHANGED Tree!vars /\ UNCHANGED vars /\ UNCHANGED Catalog!vars /\ UNCHANGED Jobs!vars
    BY <2>1 DEF treeVars, peopleVars, catalogVars, jobVars, vars, Tree!vars, Tree!tables, Tree!histories,
                Catalog!vars, Jobs!vars
  <2>3. /\ TreeInv /\ PlantInv /\ CardsInv => TreeInv' /\ PlantInv' /\ CardsInv'
        /\ AccountsInv => AccountsInv'
        /\ CatalogInv => CatalogInv'
        /\ JobsInv => JobsInv'
    BY <2>2, PeopleAssumption, TreeNextKeeps, PlantNextKeeps, CardsNextKeeps, AccountsNextKeeps,
       CatalogNextKeeps, JobsNextKeeps
  <2>4. /\ NoLevels => NoLevels'
        /\ PeopleUnique /\ FastPasswordsUnique => PeopleUnique' /\ FastPasswordsUnique'
        /\ CatalogHolds /\ RevisionTellsChange => CatalogHolds' /\ RevisionTellsChange'
        /\ PositionsKept => PositionsKept'
    BY <2>1, PartsStay
  <2> QED BY <2>1, <2>3, <2>4 DEF SetupInv
<1>2. CASE subject' = subject /\ subject = "levels" /\ Tree!Next /\ UNCHANGED <<peopleVars, catalogVars, jobVars>>
  <2>1. UNCHANGED peopleVars /\ UNCHANGED catalogVars /\ UNCHANGED jobVars BY <1>2, Zenon
  <2>2. TreeInv' /\ PlantInv' /\ CardsInv'
    BY <1>2, TreeNextKeeps, PlantNextKeeps, CardsNextKeeps DEF SetupInv
  <2> QED BY <1>2, <2>1, <2>2, PartsStay DEF SetupInv
<1>3. CASE subject' = subject /\ subject = "people" /\ Next /\ UNCHANGED <<treeVars, catalogVars, jobVars>>
  <2>1. UNCHANGED treeVars /\ UNCHANGED catalogVars /\ UNCHANGED jobVars BY <1>3, Zenon
  <2>2. AccountsInv' BY <1>3, PeopleAssumption, AccountsNextKeeps DEF SetupInv
  <2> QED BY <1>3, <2>1, <2>2, PartsStay DEF SetupInv
<1>4. CASE subject' = subject /\ subject = "catalog" /\ Catalog!Next /\ UNCHANGED <<treeVars, peopleVars, jobVars>>
  <2>1. UNCHANGED treeVars /\ UNCHANGED peopleVars /\ UNCHANGED jobVars BY <1>4, Zenon
  <2>2. CatalogInv' BY <1>4, CatalogNextKeeps DEF SetupInv
  <2> QED BY <1>4, <2>1, <2>2, PartsStay DEF SetupInv
<1>5. CASE subject' = subject /\ subject = "jobs" /\ Jobs!Next /\ UNCHANGED <<treeVars, peopleVars, catalogVars>>
  <2>1. UNCHANGED treeVars /\ UNCHANGED peopleVars /\ UNCHANGED catalogVars BY <1>5, Zenon
  <2>2. JobsInv' BY <1>5, JobsNextKeeps DEF SetupInv
  <2> QED BY <1>5, <2>1, <2>2, PartsStay DEF SetupInv
<1> QED BY <1>1, <1>2, <1>3, <1>4, <1>5, Zenon DEF SetupNext

\* While a site is set up its levels stay a forest that clients load whole and clone truly,
\* its cards have the place of their level, and its people, fast passwords, catalogs and
\* positions are what they promise, whichever of them the requests are about: the four
\* share nothing but the requests (level, users, catalog and position services).
THEOREM SetupsHold == SetupSpec => []SetupHolds
<1>1. SetupInit => SetupInv BY SetupStarts
<1>2. SetupInv /\ [SetupNext]_<<subject, calls, overtaken, treeVars, peopleVars, catalogVars, jobVars>> => SetupInv'
  BY SetupNextKeeps
<1>3. SetupInv => SetupHolds BY PartsHold, Zenon DEF SetupInv, SetupHolds
<1> QED BY <1>1, <1>2, <1>3, PTL DEF SetupSpec
=============================================================================
