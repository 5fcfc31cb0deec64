------------------------------- MODULE Access -------------------------------
(***************************************************************************)
(* Who may do what: accounts (src/internal/user, src/internal/auth),       *)
(* members and archiving of projects (src/internal/project) and the checks *)
(* of the API (src/internal/api/access.go).                                *)
(*                                                                         *)
(* A request reads its account once, when it is authenticated, is then     *)
(* authorized against the members of a project, and only then acts, in a   *)
(* transaction of its own.  These are separate steps here, as they are     *)
(* separate database calls in the code: others commit in between.          *)
(***************************************************************************)
EXTENDS Naturals, FiniteSets

CONSTANTS
  User,     \* accounts, by e-mail address
  Project,  \* project ids; a deleted project's id may be given again
  Request,  \* bound of the model: requests handled at a time
  None,     \* no role, no project
  AllowRegistration

ASSUME AccessAssumption ==
  /\ IsFiniteSet(User)
  /\ AllowRegistration \in BOOLEAN
  /\ None \notin Project /\ None \notin User

VARIABLES
  account,  \* table users: the accounts there are
  project,  \* tables projects and project_members
  request   \* the requests being handled

vars == <<account, project, request>>

Role == {"owner", "member"}
Account == [admin : BOOLEAN, active : BOOLEAN]

\* What is in the project is one bit, flipped by each change.
ProjectRow == [role : [User -> Role \cup {None}], archived : BOOLEAN, content : 0..1]

Level == {"read", "write", "manage"}
Idle == [at |-> "idle", user |-> None, admin |-> FALSE, project |-> None, level |-> "read"]

-----------------------------------------------------------------------------
(* Accounts *)

ActiveAdmins == {u \in DOMAIN account : account[u].admin /\ account[u].active}

Register(u) ==
  /\ u \notin DOMAIN account
  /\ DOMAIN account = {} \/ AllowRegistration
  /\ account' = [v \in DOMAIN account \cup {u} |->
                   IF v = u THEN [admin |-> DOMAIN account = {}, active |-> TRUE]
                            ELSE account[v]]
  /\ UNCHANGED <<project, request>>

\* Slip: deactivated administrators count.
SlipLosesLastAdmin(u, new) ==
  /\ account[u].admin /\ account[u].active
  /\ ~(new.admin /\ new.active)
  /\ Cardinality({v \in DOMAIN account : account[v].admin}) <= 1

\* The change would take away the last active administrator.
LosesLastAdmin(u, new) ==
  /\ account[u].admin /\ account[u].active
  /\ ~(new.admin /\ new.active)
  /\ Cardinality(ActiveAdmins) <= 1

-----------------------------------------------------------------------------
(* Projects and their members *)

Members(p) == {u \in User : project[p].role[u] # None}
Owners(p)  == {u \in User : project[p].role[u] = "owner"}

MembershipAccess(p, u, isAdmin) ==
  [read   |-> isAdmin \/ Members(p) = {} \/ u \in Members(p),
   write  |-> isAdmin \/ Members(p) = {} \/ u \in Members(p),
   manage |-> isAdmin \/ u \in Owners(p)]

AccessFor(p, u, isAdmin) ==
  LET a == MembershipAccess(p, u, isAdmin) IN [a EXCEPT !.write = @ /\ ~project[p].archived]

\* Slip: another member is enough.
SlipEnsureAnotherOwner(p, u) == u \in Owners(p) => Members(p) \ {u} # {}

EnsureAnotherOwner(p, u) == u \in Owners(p) => Owners(p) \ {u} # {}

\* Slip: the account is not looked up.
SlipCanJoin(u) == u \in DOMAIN account => account[u].active

CanJoin(u) == u \in DOMAIN account /\ account[u].active

-----------------------------------------------------------------------------
(* Requests *)

\* The session, or the token, is resolved to its account.
Authenticate(r, u) ==
  /\ request[r] = Idle
  /\ u \in DOMAIN account /\ account[u].active
  /\ request' = [request EXCEPT ![r] = [Idle EXCEPT !.at = "authenticated", !.user = u,
                                                    !.admin = account[u].admin]]
  /\ UNCHANGED <<account, project>>

Allows(access, level) ==
  /\ access.read
  /\ level = "manage" => access.manage
  /\ level = "write" => access.write

\* The archived flag, the count of members and the role are read one after the
\* other in the code; here they are one step.  Refused requests are answered.
Authorize(r, p, level) ==
  /\ request[r].at = "authenticated"
  /\ p \in DOMAIN project
  /\ request' = [request EXCEPT ![r] =
       IF Allows(AccessFor(p, @.user, @.admin), level)
       THEN [@ EXCEPT !.at = "authorized", !.project = p, !.level = level]
       ELSE Idle]
  /\ UNCHANGED <<account, project>>

Authorized(r, level) == request[r].at = "authorized" /\ request[r].level = level

Answer(r) == request' = [request EXCEPT ![r] = Idle]

\* A request that only reads, or is refused or fails on its way.
Finish(r) ==
  /\ request[r].at # "idle"
  /\ Answer(r)
  /\ UNCHANGED <<account, project>>

UpdateUser(r, u, new) ==
  /\ request[r].at = "authenticated" /\ request[r].admin
  /\ u \in DOMAIN account
  /\ ~LosesLastAdmin(u, new)
  /\ account' = [account EXCEPT ![u] = new]
  /\ Answer(r)
  /\ UNCHANGED project

CreateProject(r, p) ==
  /\ request[r].at = "authenticated"
  /\ p \notin DOMAIN project
  /\ project' = [q \in DOMAIN project \cup {p} |->
       IF q = p THEN [role |-> [u \in User |-> IF u = request[r].user THEN "owner" ELSE None],
                      archived |-> FALSE, content |-> 0]
                ELSE project[q]]
  /\ Answer(r)
  /\ UNCHANGED account

SetMember(r, u, role) ==
  LET p == request[r].project IN
  /\ Authorized(r, "manage")
  /\ p \in DOMAIN project
  /\ CanJoin(u)
  /\ role # "owner" => EnsureAnotherOwner(p, u)
  /\ project' = [project EXCEPT ![p].role[u] = role]
  /\ Answer(r)
  /\ UNCHANGED account

RemoveMember(r, u) ==
  LET p == request[r].project IN
  /\ Authorized(r, "manage")
  /\ p \in DOMAIN project
  /\ EnsureAnotherOwner(p, u)
  /\ project' = [project EXCEPT ![p].role[u] = None]
  /\ Answer(r)
  /\ UNCHANGED account

SetArchived(r, archived) ==
  LET p == request[r].project IN
  /\ Authorized(r, "manage")
  /\ p \in DOMAIN project
  /\ project' = [project EXCEPT ![p].archived = archived]
  /\ Answer(r)
  /\ UNCHANGED account

DeleteProject(r) ==
  LET p == request[r].project IN
  /\ Authorized(r, "manage")
  /\ p \in DOMAIN project
  /\ project' = [q \in DOMAIN project \ {p} |-> project[q]]
  /\ Answer(r)
  /\ UNCHANGED account

\* Any change of what is in the project: a story, a comment, a task, a label.
Write(r) ==
  LET p == request[r].project IN
  /\ Authorized(r, "write")
  /\ p \in DOMAIN project
  /\ project' = [project EXCEPT ![p].content = 1 - @]
  /\ Answer(r)
  /\ UNCHANGED account

-----------------------------------------------------------------------------
\* A database of any age: empty, or one where the first account is an
\* administrator and projects of the time before owners may have no members,
\* or members none of whom is an owner (they were viewers).
Init ==
  /\ \E known \in SUBSET User : \E first \in User :
       /\ known # {} => first \in known
       /\ account = [u \in known |-> [admin |-> u = first, active |-> TRUE]]
       /\ \E there \in SUBSET Project :
            /\ known = {} => there = {}
            /\ project \in [there -> {row \in ProjectRow :
                              /\ row.content = 0
                              /\ \A u \in User \ known : row.role[u] = None}]
  /\ request = [r \in Request |-> Idle]

Step(r) ==
  \/ Finish(r) \/ DeleteProject(r) \/ Write(r)
  \/ \E u \in User :
       \/ Authenticate(r, u) \/ RemoveMember(r, u)
       \/ \E new \in Account : UpdateUser(r, u, new)
       \/ \E role \in Role : SetMember(r, u, role)
  \/ \E p \in Project :
       \/ CreateProject(r, p)
       \/ \E level \in Level : Authorize(r, p, level)
  \/ \E archived \in BOOLEAN : SetArchived(r, archived)

Next == (\E u \in User : Register(u)) \/ (\E r \in Request : Step(r))

Spec == Init /\ [][Next]_vars
-----------------------------------------------------------------------------
(* Properties *)

RequestRow ==
  [at : {"idle", "authenticated", "authorized"}, user : User \cup {None}, admin : BOOLEAN,
   project : Project \cup {None}, level : Level]

TypeOK ==
  /\ DOMAIN account \subseteq User
  /\ account \in [DOMAIN account -> Account]
  /\ DOMAIN project \subseteq Project
  /\ project \in [DOMAIN project -> ProjectRow]
  /\ \A p \in DOMAIN project : Members(p) \subseteq DOMAIN account
  /\ request \in [Request -> RequestRow]
  /\ \A r \in Request :
       /\ request[r].at # "idle" => request[r].user \in DOMAIN account
       /\ request[r].at = "authorized" => request[r].project \in Project

\* Once there are accounts there is an active administrator, even when two of
\* them demote or deactivate each other at once, each by what it was when its
\* request was authenticated (user.go:108-109).
SomeAdmin == DOMAIN account # {} => ActiveAdmins # {}

\* A project with an owner keeps one as long as it exists: it never loses its
\* last manager, nor falls back to the projects without members that everyone
\* may read and write, whichever owners remove each other (members.go:143-145).
OwnedStaysOwned ==
  [][\A p \in DOMAIN project \cap DOMAIN project' : Owners(p) # {} => Owners(p)' # {}]_vars
=============================================================================
