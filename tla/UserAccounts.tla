---------------------------- MODULE UserAccounts ----------------------------
(***************************************************************************)
(* The people of the sites: rows of users, and rows of user_has_sites that *)
(* assign them to sites (users.service.ts, user-creation.persistence.ts,   *)
(* user-update.persistence.ts, file-upload.service.ts with                 *)
(* user-import.persistence.ts).  An email belongs to one user, a user is   *)
(* assigned to a site once, and a fast password tells the users of a site  *)
(* apart: the database enforces only that a site's code and an email occur *)
(* together once, so it is for the handlers to look first.                 *)
(*                                                                         *)
(* A creation looks for the email by a locking read, and keeps what it     *)
(* found, or that there was nothing, until it commits; an update locks the *)
(* row of its user and looks at others by plain reads; an import looks     *)
(* before its transaction.  The last statements of a transaction and its   *)
(* commit are one step.  Sessions that a new password closes are those of  *)
(* AuthSessions; roles, names and phones are left out.                     *)
(***************************************************************************)
EXTENDS Integers, FiniteSets, SequencesExt, FiniteSetsExt

CONSTANTS
    Requests,       \* handlers that may run at the same time
    Sites,
    Emails,
    Digests,        \* of fast passwords
    Nothing,        \* no site, no digest, no row
    FirstUsers,     \* the users there are at first: id -> row
    FirstPosts,     \* and the sites of each: id -> (site -> number of rows)
    Administrators, \* the users with a role that administers sites
    PlatformAdmins, \* and with the role that administers the platform
    MaxUsers,       \* bound on the ids of users
    MaxCalls        \* bound on the requests

UserIds == 1 .. MaxUsers

\* site is that of the siteCode, home the siteId.
UserType ==
    [email : Emails, site : Sites, home : Sites \cup {Nothing}, digest : Digests]

\* At first the people are as the properties below want them.
UsersAssumption ==
    /\ IsFiniteSet(Emails)
    /\ MaxUsers \in Nat /\ MaxCalls \in Nat
    /\ Nothing \notin Sites \cup Emails \cup Digests \cup UserIds
    /\ FirstUsers \in Seq(UserType) /\ Len(FirstUsers) <= MaxUsers
    /\ FirstPosts \in [DOMAIN FirstUsers -> [Sites -> {0, 1}]]
    /\ \A u, v \in DOMAIN FirstUsers : u # v =>
         /\ FirstUsers[u].email # FirstUsers[v].email
         /\ \A s \in Sites : FirstPosts[u][s] = 1 /\ FirstPosts[v][s] = 1 =>
              FirstUsers[u].digest # FirstUsers[v].digest

ASSUME PeopleAssumption == UsersAssumption

VARIABLES
    users,      \* table users: id -> row
    posts,      \* table user_has_sites: id -> (site -> number of rows)
    req,        \* the requests
    calls,      \* how many there have been
    overtaken,  \* history: the requests since whose look another has committed
    rushed,     \* history: the users that such a request wrote on what it had seen unlocked
    unseen      \* history: users and sites of theirs where their fast password was not looked for

vars == <<users, posts, req, calls, overtaken, rushed, unseen>>
tables == <<users, posts>>

-----------------------------------------------------------------------------
(* Queries.                                                                *)

SitesOf(u) == {s \in Sites : posts[u][s] > 0}
FindSiteUsers(s) == {u \in DOMAIN users : posts[u][s] > 0}
FindByEmail(e) == {u \in DOMAIN users : users[u].email = e}

\* Whom a fast login at a site may find.
FindByFastPassword(d, s) == {u \in FindSiteUsers(s) : users[u].digest = d}

\* Whom a look for a digest at some sites finds, but for one user.
HasDigest(d, sites, but) == \E s \in sites : FindByFastPassword(d, s) \ {but} # {}

\* generateUniqueFastPassword: any that no user of the sites has.
UniqueFastPassword(sites) == {d \in Digests : ~HasDigest(d, sites, Nothing)}

\* null is every site.
GetAccessibleSiteIds(u) == IF u \in PlatformAdmins THEN Sites ELSE SitesOf(u)

\* SiteAccessGuard: the sites that a request names, and those of the user it is about.
SiteAccess(actor, named, resources) ==
    /\ resources # {} \/ actor \in PlatformAdmins
    /\ named \cup resources \subseteq GetAccessibleSiteIds(actor)

-----------------------------------------------------------------------------
(* Requests.                                                               *)

\* Where a request is, its user, the email, site and digest of its body, the
\* sites at which it has looked for the digest, the row it has read, and what an
\* import has made of its file: the new users and those to be assigned.
Idle == [at |-> "idle", kind |-> "none", user |-> Nothing, email |-> Nothing, site |-> Nothing,
         digest |-> Nothing, seen |-> {}, copy |-> Nothing, fresh |-> <<>>, known |-> {}]

Running == {r \in Requests : req[r].at # "idle"}
At(r, kind, at) == req[r].kind = kind /\ req[r].at = at
Go(r, q) == req' = [req EXCEPT ![r] = q]

Call(r, q) ==
    /\ calls' = calls + 1
    /\ Go(r, q)
    /\ overtaken' = overtaken \ {r}
    /\ UNCHANGED <<tables, rushed, unseen>>

\* A refusal, an error or a deadlock: the transaction is rolled back.
Refuse(r) == Go(r, Idle) /\ UNCHANGED <<tables, calls, overtaken, rushed, unseen>>

\* The row of a user that a transaction has locked.
HasLocked(r, u) == req[r].at \in {"assign", "save"} /\ req[r].user = u

\* Bug: rows are locked, and not that there are none (READ COMMITTED).
Reserves_OnlyRows(r, e) == At(r, "create", "assign") /\ req[r].email = e

\* An email that a creation has looked for: nobody else gives it to a user.
Reserves(r, e) == req[r].kind = "create" /\ req[r].at \in {"insert", "assign"} /\ req[r].email = e
RowFree(r, u) == \A q \in Requests \ {r} : ~HasLocked(q, u)
EmailFree(r, e) == \A q \in Requests \ {r} : ~Reserves(q, e)

\* The unique index on the site's code and the email.
Fits(u, row) == \A v \in DOMAIN users \ {u} : <<users[v].site, users[v].email>> # <<row.site, row.email>>

\* Rows are written and committed.  From a creation's locked look for the email
\* nothing can have overtaken it; the fast password is not known to be new at the sites
\* where it was not looked for, or at any when the look was overtaken.
Commit(r, rows, assigned, digests) ==
    LET q == req[r]
        written == {u \in DOMAIN rows : u \notin DOMAIN users \/ rows[u] # users[u]}
                       \cup {u \in DOMAIN assigned : u \notin DOMAIN posts \/ assigned[u] # posts[u]}
        at(u) == {s \in Sites : assigned[u][s] > 0}
        seen == IF r \in overtaken THEN {} ELSE q.seen
    IN  /\ users' = rows
        /\ posts' = assigned
        /\ Go(r, Idle)
        /\ overtaken' = (overtaken \cup Running) \ {r}
        /\ rushed' = IF r \in overtaken /\ q.kind # "create" THEN rushed \cup written ELSE rushed
        /\ unseen' = {x \in unseen : x[1] \notin digests}
                         \cup (UNION {{u} \X (at(u) \ seen) : u \in digests})
                         \cup (UNION {{u} \X (at(u) \ SitesOf(u)) : u \in (written \cap DOMAIN users) \ digests})
        /\ UNCHANGED calls

\* A table with other rows, or more.
With(table, rows) ==
    [u \in DOMAIN table \cup DOMAIN rows |-> IF u \in DOMAIN rows THEN rows[u] ELSE table[u]]

Plus(counts, s) == [counts EXCEPT ![s] = @ + 1]
OnlyAt(s) == [t \in Sites |-> IF t = s THEN 1 ELSE 0]

-----------------------------------------------------------------------------
(* create.  The fast password is the body's, which is not looked for, or   *)
(* one that no user of the site had.                                       *)

CallCreate(r, actor, e, s, d, given) ==
    /\ s \in GetAccessibleSiteIds(actor)
    /\ given \/ d \in UniqueFastPassword({s})
    /\ Call(r, [Idle EXCEPT !.kind = "create", !.at = "look", !.email = e, !.site = s, !.digest = d,
                            !.seen = IF given THEN {} ELSE {s}])

\* One user of the email, or none: then nobody else gives it to one.
LookForEmail(r) ==
    /\ At(r, "create", "look")
    /\ LET q == req[r]
           found == FindByEmail(q.email)
           u == Min(found)
       IN  IF found = {}
           THEN Go(r, [q EXCEPT !.at = "insert"]) /\ UNCHANGED <<tables, calls, overtaken, rushed, unseen>>
           ELSE /\ RowFree(r, u)
                /\ IF posts[u][q.site] > 0 THEN Refuse(r)
                   ELSE /\ Go(r, [q EXCEPT !.at = "assign", !.user = u])
                        /\ UNCHANGED <<tables, calls, overtaken, rushed, unseen>>

\* Two creations may both have found nothing: each waits for the other, and one fails.
InsertUser(r) ==
    /\ At(r, "create", "insert")
    /\ EmailFree(r, req[r].email)
    /\ Cardinality(DOMAIN users) < MaxUsers
    /\ LET q == req[r]
           u == Cardinality(DOMAIN users) + 1
           row == [email |-> q.email, site |-> q.site, home |-> Nothing, digest |-> q.digest]
       IN  IF Fits(u, row) THEN Commit(r, With(users, [k \in {u} |-> row]), With(posts, [k \in {u} |-> OnlyAt(q.site)]), {u})
           ELSE Refuse(r)

\* A user of other sites is assigned to this one too, and gets the new fast password.
AssignUser(r) ==
    /\ At(r, "create", "assign")
    /\ LET q == req[r]
           u == q.user
       IN  Commit(r, [users EXCEPT ![u].digest = q.digest], [posts EXCEPT ![u] = Plus(@, q.site)],
                  IF users[u].digest = q.digest THEN {} ELSE {u})

-----------------------------------------------------------------------------
(* updateUser, updateUserPartial, rotateFastPasswordAndSend.               *)

CallUpdate(r, actor, u, e, s, d) ==
    /\ SiteAccess(actor, {s}, SitesOf(u))
    /\ Call(r, [Idle EXCEPT !.kind = "update", !.at = "look", !.user = u, !.email = e, !.site = s, !.digest = d])

CallUpdatePartial(r, actor, u, e, d) ==
    /\ SiteAccess(actor, {}, SitesOf(u))
    /\ Call(r, [Idle EXCEPT !.kind = "partial", !.at = "look", !.user = u, !.email = e, !.digest = d])

\* The new fast password is one that nobody has at the sites of the user.
CallRotate(r, u, d) ==
    /\ d \in UniqueFastPassword(SitesOf(u) \cup ({users[u].home} \ {Nothing}))
    /\ Call(r, [Idle EXCEPT !.kind = "partial", !.at = "look", !.user = u, !.digest = d])

\* Bug: only one of the sites of the user is looked at.
LooksAt_OneSite(q) == IF q.kind = "update" THEN {q.site} ELSE {CHOOSE s \in SitesOf(q.user) : TRUE}

\* Where the fast password is looked for: at the site of the body, or at all of the user's.
LooksAt(q) == IF q.kind = "update" THEN {q.site} ELSE SitesOf(q.user)

LockUser(r) ==
    /\ req[r].at = "look" /\ req[r].kind \in {"update", "partial"}
    /\ RowFree(r, req[r].user)
    /\ LET q == req[r]
           others == FindByEmail(q.email) \ {q.user}
           seen == IF q.kind = "update" THEN {q.site} ELSE SitesOf(q.user)
       IN  IF others # {} \/ (q.digest # Nothing /\ HasDigest(q.digest, LooksAt(q), q.user))
           THEN Refuse(r)
           ELSE /\ Go(r, [q EXCEPT !.at = "save", !.seen = seen])
                /\ overtaken' = overtaken \ {r}
                /\ UNCHANGED <<tables, calls, rushed, unseen>>

\* A null stays as it is.
Merged(row, q) ==
    [email |-> IF q.email = Nothing THEN row.email ELSE q.email,
     site |-> IF q.site = Nothing THEN row.site ELSE q.site,
     home |-> IF q.site = Nothing THEN row.home ELSE q.site,
     digest |-> IF q.digest = Nothing THEN row.digest ELSE q.digest]

SaveUser(r) ==
    /\ req[r].at = "save"
    /\ LET q == req[r]
           u == q.user
           row == Merged(users[u], q)
       IN  /\ row.email = users[u].email \/ EmailFree(r, row.email)
           /\ IF Fits(u, row)
              THEN Commit(r, [users EXCEPT ![u] = row], posts, IF row.digest = users[u].digest THEN {} ELSE {u})
              ELSE Refuse(r)

-----------------------------------------------------------------------------
(* importUsers: a file of emails, for one site.                            *)

FreshEmails(emails) == {e \in emails : FindByEmail(e) = {}}

CallImport(r, actor, emails, s, digestOf) ==
    LET there == {users[u].email : u \in FindSiteUsers(s)}
        known == {Max(FindByEmail(e)) : e \in (emails \ there) \ FreshEmails(emails)}
    IN  /\ s \in GetAccessibleSiteIds(actor)
        /\ \A e \in DOMAIN digestOf : digestOf[e] \in UniqueFastPassword({s})
        /\ IsInjective(digestOf)
        /\ DOMAIN digestOf # {} \/ known # {}
        /\ Call(r, [Idle EXCEPT !.kind = "import", !.at = "write", !.site = s, !.seen = {s},
                                !.fresh = digestOf, !.known = known])

\* The new users, their assignments and those of the known ones: all or none.  An
\* insert waits for who has reserved the email, an assignment for who has locked the user.
ImportUsers(r) ==
    /\ At(r, "import", "write")
    /\ LET q == req[r]
           emails == SetToSeq(DOMAIN q.fresh)
           n == Cardinality(DOMAIN users)
           rows == [k \in n + 1 .. n + Len(emails) |->
                       [email |-> emails[k - n], site |-> q.site, home |-> q.site, digest |-> q.fresh[emails[k - n]]]]
       IN  /\ n + Len(emails) <= MaxUsers
           /\ \A e \in DOMAIN q.fresh : EmailFree(r, e)
           /\ \A u \in q.known : RowFree(r, u)
           /\ IF \A k \in DOMAIN rows : Fits(k, rows[k])
              THEN Commit(r, With(users, rows),
                          With([u \in DOMAIN posts |-> IF u \in q.known THEN Plus(posts[u], q.site) ELSE posts[u]],
                               [k \in DOMAIN rows |-> OnlyAt(q.site)]),
                          DOMAIN rows)
              ELSE Refuse(r)

-----------------------------------------------------------------------------
(* firebaseAppToken and sendCodeToEmail save a row as they have read it,   *)
(* but for columns that are not modelled here.                             *)

CallSaveRow(r, u) ==
    Call(r, [Idle EXCEPT !.kind = "row", !.at = "write", !.user = u, !.copy = users[u]])

SaveRow(r) ==
    /\ At(r, "row", "write")
    /\ LET u == req[r].user
           row == req[r].copy
       IN  /\ RowFree(r, u)
           /\ row.email = users[u].email \/ EmailFree(r, row.email)
           /\ IF Fits(u, row)
              THEN Commit(r, [users EXCEPT ![u] = row], posts, IF row.digest = users[u].digest THEN {} ELSE {u})
              ELSE Refuse(r)

\* A statement fails, or two transactions wait for one another.
Abort(r) == r \in Running /\ Refuse(r)

-----------------------------------------------------------------------------
Init ==
    /\ users = FirstUsers
    /\ posts = FirstPosts
    /\ req = [r \in Requests |-> Idle]
    /\ calls = 0
    /\ overtaken = {} /\ rushed = {} /\ unseen = {}

Calls(r) ==
    /\ r \notin Running
    /\ calls < MaxCalls
    /\ \/ \E actor \in Administrators \cap DOMAIN users, s \in Sites :
             \/ \E e \in Emails, d \in Digests, given \in BOOLEAN : CallCreate(r, actor, e, s, d, given)
             \/ \E u \in DOMAIN users, e \in Emails, d \in Digests \cup {Nothing} : CallUpdate(r, actor, u, e, s, d)
             \/ \E emails \in SUBSET Emails : \E digestOf \in [FreshEmails(emails) -> Digests] :
                   CallImport(r, actor, emails, s, digestOf)
       \/ \E u \in DOMAIN users :
             \/ \E actor \in (Administrators \cup {u}) \cap DOMAIN users,
                   e \in Emails \cup {Nothing}, d \in Digests \cup {Nothing} : CallUpdatePartial(r, actor, u, e, d)
             \/ \E d \in Digests : CallRotate(r, u, d)
             \/ CallSaveRow(r, u)

Next == \E r \in Requests :
    \/ Calls(r)
    \/ LookForEmail(r) \/ InsertUser(r) \/ AssignUser(r)
    \/ LockUser(r) \/ SaveUser(r)
    \/ ImportUsers(r)
    \/ SaveRow(r)
    \/ Abort(r)

Spec == Init /\ [][Next]_vars

-----------------------------------------------------------------------------
TypeOK ==
    /\ DOMAIN users \subseteq UserIds /\ DOMAIN posts = DOMAIN users
    /\ users \in [DOMAIN users -> UserType]
    /\ \A u \in DOMAIN posts : posts[u] \in [Sites -> Nat]
    /\ calls \in 0 .. MaxCalls
    /\ overtaken \subseteq Requests
    /\ rushed \subseteq UserIds
    /\ unseen \subseteq UserIds \X Sites

\* An email is one user's and a user is assigned to a site once, although no index
\* says so: where not, an update, an import or a save of a copy wrote what it had
\* looked for without a lock while another request committed.  A creation never is to
\* blame, whatever runs beside it.
PeopleUnique ==
    \A u \in DOMAIN users :
      u \notin rushed =>
        /\ FindByEmail(users[u].email) \subseteq {u} \cup rushed
        /\ \A s \in Sites : posts[u][s] <= 1

\* A fast password tells whose it is among the users of a site, so that a fast login
\* opens a session of the user who has typed it: where two share one, it was not looked
\* for at that site when one of them got it, or while another request committed.
FastPasswordsUnique ==
    \A s \in Sites : \A u, v \in FindSiteUsers(s) :
      u # v /\ users[u].digest = users[v].digest => {<<u, s>>, <<v, s>>} \cap unseen # {}
=============================================================================
