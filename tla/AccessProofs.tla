---------------------------- MODULE AccessProofs ----------------------------
(***************************************************************************)
(* What Access keeps for any set of accounts, projects and requests: the   *)
(* tables are well formed, there is an administrator, and an owned project *)
(* stays owned.                                                            *)
(***************************************************************************)
EXTENDS Access, FiniteSetTheorems, TLAPS

\* The strengthening: a demotion leaves an administrator only if the count saw
\* another one, so the count and the types are enough.
IInv == TypeOK /\ SomeAdmin

-----------------------------------------------------------------------------
(* The administrators *)

\* The check in Update leaves an administrator: either the account keeps both
\* marks, or there are at least two (user.go:130-138).
LEMMA AnotherAdminStays ==
  ASSUME TypeOK, SomeAdmin, NEW u \in DOMAIN account, NEW new \in Account,
         ~LosesLastAdmin(u, new),
         account' = [account EXCEPT ![u] = new]
  PROVE  ActiveAdmins' # {}
<1>1. ActiveAdmins \in SUBSET User /\ IsFiniteSet(ActiveAdmins)
  BY AccessAssumption, FS_Subset DEF ActiveAdmins, TypeOK
<1>2. DOMAIN account' = DOMAIN account /\ account'[u] = new
  BY DEF TypeOK
<1>3. CASE new.admin /\ new.active
  BY <1>2, <1>3 DEF ActiveAdmins
<1>4. CASE ~(new.admin /\ new.active) /\ u \in ActiveAdmins
  <2>1. ~(Cardinality(ActiveAdmins) <= 1)
    BY <1>4 DEF LosesLastAdmin, ActiveAdmins
  <2>2. Cardinality(ActiveAdmins \ {u}) # 0
    <3>1. Cardinality(ActiveAdmins) \in Nat
      BY <1>1, FS_CardinalityType
    <3>2. Cardinality(ActiveAdmins \ {u}) = Cardinality(ActiveAdmins) - 1
      BY <1>1, <1>4, FS_RemoveElement
    <3> QED BY <2>1, <3>1, <3>2
  <2>3. ActiveAdmins \ {u} # {}
    BY <2>2, FS_EmptySet
  <2>4. ActiveAdmins \ {u} \subseteq ActiveAdmins'
    BY <1>2 DEF ActiveAdmins, TypeOK
  <2> QED BY <2>3, <2>4
<1>5. CASE ~(new.admin /\ new.active) /\ u \notin ActiveAdmins
  <2>1. ActiveAdmins # {}
    BY DEF SomeAdmin
  <2>2. ActiveAdmins \subseteq ActiveAdmins'
    BY <1>2, <1>5 DEF ActiveAdmins, TypeOK
  <2> QED BY <2>1, <2>2
<1> QED BY <1>3, <1>4, <1>5

-----------------------------------------------------------------------------
(* Steps that change one table only *)

\* What a step may leave behind in the table of requests.
RequestsOK(req, known) ==
  /\ req \in [Request -> RequestRow]
  /\ \A r \in Request :
       /\ req[r].at # "idle" => req[r].user \in known
       /\ req[r].at = "authorized" => req[r].project \in Project

\* What a step may leave behind in the table of projects.
ProjectsOK(prj, known) ==
  /\ DOMAIN prj \subseteq Project
  /\ prj \in [DOMAIN prj -> ProjectRow]
  /\ \A p \in DOMAIN prj : \A u \in User : prj[p].role[u] # None => u \in known

LEMMA TypeSplit ==
  TypeOK <=> /\ DOMAIN account \subseteq User
             /\ account \in [DOMAIN account -> Account]
             /\ ProjectsOK(project, DOMAIN account)
             /\ RequestsOK(request, DOMAIN account)
BY DEF TypeOK, ProjectsOK, RequestsOK, Members

LEMMA TypeSplitNext ==
  TypeOK' <=> /\ DOMAIN account' \subseteq User
              /\ account' \in [DOMAIN account' -> Account]
              /\ ProjectsOK(project', DOMAIN account')
              /\ RequestsOK(request', DOMAIN account')
BY DEF TypeOK, ProjectsOK, RequestsOK, Members

\* Answering a request leaves the others as they were.
LEMMA AnswerOK ==
  ASSUME TypeOK, NEW r \in Request, Answer(r)
  PROVE  RequestsOK(request', DOMAIN account)
BY DEF TypeOK, Answer, RequestsOK, RequestRow, Idle, Level

\* Setting one role of one project, to a role or to none.
LEMMA SetRoleOK ==
  ASSUME TypeOK, NEW p \in DOMAIN project, NEW u \in User, NEW role \in Role \cup {None},
         role # None => u \in DOMAIN account,
         project' = [project EXCEPT ![p].role[u] = role]
  PROVE  ProjectsOK(project', DOMAIN account)
<1>1. DOMAIN project' = DOMAIN project
  OBVIOUS
<1>2. project[p] \in ProjectRow /\ project'[p] = [project[p] EXCEPT !.role[u] = role]
  BY DEF TypeOK
<1>3. project'[p] \in ProjectRow
  BY <1>2 DEF ProjectRow
<1>4. \A q \in DOMAIN project : q # p => project'[q] = project[q] /\ project'[q] \in ProjectRow
  BY DEF TypeOK
<1>5. project' \in [DOMAIN project' -> ProjectRow]
  BY <1>1, <1>3, <1>4
<1>6. \A v \in User : project'[p].role[v] = IF v = u THEN role ELSE project[p].role[v]
  BY <1>2 DEF ProjectRow
<1>7. \A q \in DOMAIN project' : \A v \in User :
        project'[q].role[v] # None => v \in DOMAIN account
  BY <1>1, <1>4, <1>6 DEF TypeOK, Members
<1> QED BY <1>1, <1>5, <1>7 DEF TypeOK, ProjectsOK

-----------------------------------------------------------------------------
(* The invariant *)

LEMMA InitInv == Init => IInv
<1> SUFFICES ASSUME Init PROVE IInv
  OBVIOUS
<1>1. PICK known \in SUBSET User, first \in User :
        /\ known # {} => first \in known
        /\ account = [u \in known |-> [admin |-> u = first, active |-> TRUE]]
        /\ \E there \in SUBSET Project :
             /\ known = {} => there = {}
             /\ project \in [there -> {row \in ProjectRow :
                               /\ row.content = 0
                               /\ \A u \in User \ known : row.role[u] = None}]
  BY DEF Init
<1>2. DOMAIN account = known /\ account \in [known -> Account]
  BY <1>1 DEF Account
<1>3. SomeAdmin
  BY <1>1, <1>2 DEF SomeAdmin, ActiveAdmins
<1>4. ProjectsOK(project, known)
  BY <1>1 DEF ProjectsOK
<1>5. RequestsOK(request, known)
  BY DEF Init, RequestsOK, RequestRow, Idle, Level
<1> QED BY <1>2, <1>3, <1>4, <1>5, TypeSplit DEF IInv

\* A step that leaves the accounts alone keeps the administrator.
LEMMA SameAccounts ==
  ASSUME IInv, UNCHANGED account,
         ProjectsOK(project', DOMAIN account), RequestsOK(request', DOMAIN account)
  PROVE  IInv'
BY TypeSplit, TypeSplitNext DEF IInv, SomeAdmin, ActiveAdmins

LEMMA RegisterInv ==
  ASSUME IInv, NEW u \in User, Register(u)
  PROVE  IInv'
<1>1. DOMAIN account' = DOMAIN account \cup {u} /\ account' \in [DOMAIN account' -> Account]
  BY DEF Register, Account, IInv, TypeOK
<1>2. ProjectsOK(project', DOMAIN account') /\ RequestsOK(request', DOMAIN account')
  BY <1>1, TypeSplit DEF IInv, Register, ProjectsOK, RequestsOK
<1>3. CASE DOMAIN account = {}
  BY <1>1, <1>2, <1>3, TypeSplit, TypeSplitNext DEF IInv, Register, SomeAdmin, ActiveAdmins
<1>4. CASE DOMAIN account # {}
  <2>1. PICK a \in ActiveAdmins : TRUE
    BY <1>4 DEF IInv, SomeAdmin
  <2>2. a \in ActiveAdmins'
    BY <2>1, <1>1 DEF Register, ActiveAdmins
  <2> QED BY <1>1, <1>2, <2>2, TypeSplit, TypeSplitNext DEF IInv, SomeAdmin
<1> QED BY <1>3, <1>4

LEMMA FinishInv ==
  ASSUME IInv, NEW r \in Request, Finish(r)
  PROVE  IInv'
BY TypeSplit, AnswerOK, SameAccounts DEF Finish, IInv

LEMMA AuthenticateInv ==
  ASSUME IInv, NEW r \in Request, NEW u \in User, Authenticate(r, u)
  PROVE  IInv'
<1>1. ProjectsOK(project', DOMAIN account) /\ UNCHANGED account
  BY TypeSplit DEF IInv, Authenticate
<1>2. account[u].admin \in BOOLEAN
  BY DEF Authenticate, IInv, TypeOK, Account
<1>3. RequestsOK(request', DOMAIN account)
  BY <1>2 DEF Authenticate, IInv, TypeOK, RequestsOK, RequestRow, Idle, Level
<1> QED BY <1>1, <1>3, SameAccounts

LEMMA AuthorizeInv ==
  ASSUME IInv, NEW r \in Request, NEW p \in Project, NEW level \in Level,
         Authorize(r, p, level)
  PROVE  IInv'
<1>1. ProjectsOK(project', DOMAIN account) /\ UNCHANGED account
  BY TypeSplit DEF IInv, Authorize
<1>2. RequestsOK(request', DOMAIN account)
  BY DEF Authorize, IInv, TypeOK, RequestsOK, RequestRow, Idle, Level
<1> QED BY <1>1, <1>2, SameAccounts

LEMMA UpdateUserInv ==
  ASSUME IInv, NEW r \in Request, NEW u \in User, NEW new \in Account, UpdateUser(r, u, new)
  PROVE  IInv'
<1>1. DOMAIN account' = DOMAIN account /\ account' \in [DOMAIN account' -> Account]
  BY DEF UpdateUser, IInv, TypeOK
<1>2. ActiveAdmins' # {}
  BY AnotherAdminStays DEF UpdateUser, IInv
<1>3. ProjectsOK(project', DOMAIN account')
  BY <1>1, TypeSplit DEF IInv, UpdateUser
<1>4. RequestsOK(request', DOMAIN account')
  BY <1>1, AnswerOK DEF IInv, UpdateUser
<1> QED BY <1>1, <1>2, <1>3, <1>4, TypeSplit, TypeSplitNext DEF IInv, SomeAdmin

LEMMA CreateProjectInv ==
  ASSUME IInv, NEW r \in Request, NEW p \in Project, CreateProject(r, p)
  PROVE  IInv'
<1> DEFINE row == [role |-> [u \in User |-> IF u = request[r].user THEN "owner" ELSE None],
                   archived |-> FALSE, content |-> 0]
<1>1. row \in ProjectRow
  BY DEF ProjectRow, Role
<1>2. /\ DOMAIN project' = DOMAIN project \cup {p}
      /\ \A q \in DOMAIN project' : project'[q] = IF q = p THEN row ELSE project[q]
  BY DEF CreateProject
<1>3. \A u \in User : row.role[u] # None => u = request[r].user
  OBVIOUS
<1>4. request[r].user \in DOMAIN account
  BY DEF CreateProject, IInv, TypeOK
<1>5. project' \in [DOMAIN project' -> ProjectRow]
  BY <1>1, <1>2 DEF IInv, TypeOK, CreateProject
<1>6. ProjectsOK(project', DOMAIN account)
  BY <1>2, <1>3, <1>4, <1>5, TypeSplit DEF IInv, ProjectsOK
<1> QED BY <1>6, AnswerOK, SameAccounts DEF CreateProject, IInv

LEMMA MembersInv ==
  ASSUME IInv, NEW r \in Request, NEW u \in User, NEW role \in Role,
         SetMember(r, u, role) \/ RemoveMember(r, u)
  PROVE  IInv'
<1>1. Answer(r) /\ UNCHANGED account /\ request[r].project \in DOMAIN project
  BY DEF SetMember, RemoveMember
<1>2. ProjectsOK(project', DOMAIN account)
  BY <1>1, SetRoleOK DEF IInv, SetMember, RemoveMember, CanJoin
<1> QED BY <1>1, <1>2, AnswerOK, SameAccounts DEF IInv

\* Archiving, and changing what is in a project, leave its members alone.
LEMMA SameRolesOK ==
  ASSUME TypeOK, NEW p \in DOMAIN project, NEW row \in ProjectRow, row.role = project[p].role,
         project' = [project EXCEPT ![p] = row]
  PROVE  ProjectsOK(project', DOMAIN account)
BY DEF TypeOK, ProjectsOK, Members

LEMMA ProjectInv ==
  ASSUME IInv, NEW r \in Request, NEW archived \in BOOLEAN,
         SetArchived(r, archived) \/ DeleteProject(r) \/ Write(r)
  PROVE  IInv'
<1> DEFINE p == request[r].project
<1>1. Answer(r) /\ UNCHANGED account /\ p \in DOMAIN project /\ project[p] \in ProjectRow
  BY DEF SetArchived, DeleteProject, Write, IInv, TypeOK
<1>2. CASE SetArchived(r, archived)
  <2> DEFINE row == [project[p] EXCEPT !.archived = archived]
  <2>1. row \in ProjectRow /\ row.role = project[p].role
    BY <1>1 DEF ProjectRow
  <2>2. project' = [project EXCEPT ![p] = row]
    BY <1>2 DEF SetArchived
  <2>3. ProjectsOK(project', DOMAIN account)
    BY <1>1, <2>1, <2>2, SameRolesOK DEF IInv
  <2> QED BY <1>1, <2>3, AnswerOK, SameAccounts DEF IInv
<1>3. CASE DeleteProject(r)
  <2>1. ProjectsOK(project', DOMAIN account)
    BY <1>3, TypeSplit DEF IInv, DeleteProject, ProjectsOK
  <2> QED BY <1>1, <2>1, AnswerOK, SameAccounts DEF IInv
<1>4. CASE Write(r)
  <2> DEFINE row == [project[p] EXCEPT !.content = 1 - @]
  <2>1. row \in ProjectRow /\ row.role = project[p].role
    BY <1>1 DEF ProjectRow
  <2>2. project' = [project EXCEPT ![p] = row]
    BY <1>4 DEF Write
  <2>3. ProjectsOK(project', DOMAIN account)
    BY <1>1, <2>1, <2>2, SameRolesOK DEF IInv
  <2> QED BY <1>1, <2>3, AnswerOK, SameAccounts DEF IInv
<1> QED BY <1>2, <1>3, <1>4

LEMMA NextInv == IInv /\ [Next]_vars => IInv'
<1> SUFFICES ASSUME IInv, [Next]_vars PROVE IInv'
  OBVIOUS
<1>1. CASE \E u \in User : Register(u)
  BY <1>1, RegisterInv
<1>2. ASSUME NEW r \in Request, Step(r)
      PROVE  IInv'
  <2>1. CASE Finish(r)
    BY <2>1, FinishInv
  <2>2. CASE \E u \in User : Authenticate(r, u)
    BY <2>2, AuthenticateInv
  <2>3. CASE \E p \in Project : \E level \in Level : Authorize(r, p, level)
    BY <2>3, AuthorizeInv
  <2>4. CASE \E u \in User : \E new \in Account : UpdateUser(r, u, new)
    BY <2>4, UpdateUserInv
  <2>5. CASE \E p \in Project : CreateProject(r, p)
    BY <2>5, CreateProjectInv
  <2>6. CASE \E u \in User : RemoveMember(r, u) \/ \E role \in Role : SetMember(r, u, role)
    BY <2>6, MembersInv DEF Role
  <2>7. CASE DeleteProject(r) \/ Write(r) \/ \E archived \in BOOLEAN : SetArchived(r, archived)
    BY <2>7, ProjectInv
  <2> QED BY <1>2, <2>1, <2>2, <2>3, <2>4, <2>5, <2>6, <2>7 DEF Step
<1>3. CASE UNCHANGED vars
  BY <1>3, TypeSplit, SameAccounts DEF IInv, vars
<1> QED BY <1>1, <1>2, <1>3 DEF Next

\* The tables always have the columns of the schema, members are accounts, and a
\* request in hand names an account and a project id there is.
THEOREM TypeCorrect == Spec => []TypeOK
<1>1. IInv => TypeOK
  BY DEF IInv
<1> QED BY InitInv, NextInv, <1>1, PTL DEF Spec

\* Whatever administrators do to each other, and however late, an instance with
\* accounts has an active administrator (user.go:108-109).
THEOREM SomeAdminCorrect == Spec => []SomeAdmin
<1>1. IInv => SomeAdmin
  BY DEF IInv
<1> QED BY InitInv, NextInv, <1>1, PTL DEF Spec

-----------------------------------------------------------------------------
(* Owned projects *)

\* Setting one role of one project leaves it an owner if that role is an owner's
\* or the check found another owner (members.go:146-164).
LEMMA AnotherOwnerStays ==
  ASSUME TypeOK, NEW p \in DOMAIN project, NEW u \in User, NEW role \in Role \cup {None},
         role # "owner" => EnsureAnotherOwner(p, u),
         project' = [project EXCEPT ![p].role[u] = role],
         NEW q \in DOMAIN project, Owners(q) # {}
  PROVE  Owners(q)' # {}
<1>1. CASE q # p
  BY <1>1 DEF Owners
<1>2. CASE q = p
  <2>1. \A v \in User : project'[p].role[v] = IF v = u THEN role ELSE project[p].role[v]
    BY DEF TypeOK, ProjectRow
  <2>2. CASE role = "owner"
    BY <1>2, <2>1, <2>2 DEF Owners
  <2>3. CASE role # "owner" /\ u \in Owners(p)
    <3>1. PICK v \in Owners(p) \ {u} : TRUE
      BY <2>3 DEF EnsureAnotherOwner
    <3>2. v \in Owners(p)'
      BY <2>1, <3>1 DEF Owners
    <3> QED BY <1>2, <3>2
  <2>4. CASE role # "owner" /\ u \notin Owners(p)
    <3>1. PICK v \in Owners(p) : v # u
      BY <1>2, <2>4
    <3>2. v \in Owners(p)'
      BY <2>1, <3>1 DEF Owners
    <3> QED BY <1>2, <3>2
  <2> QED BY <2>2, <2>3, <2>4
<1> QED BY <1>1, <1>2

LEMMA OwnedStep ==
  ASSUME IInv, [Next]_vars, NEW q \in DOMAIN project \cap DOMAIN project', Owners(q) # {}
  PROVE  Owners(q)' # {}
<1>1. CASE UNCHANGED project
  BY <1>1 DEF Owners
<1>2. ASSUME NEW r \in Request, NEW u \in User, NEW role \in Role, SetMember(r, u, role)
      PROVE  Owners(q)' # {}
  BY <1>2, AnotherOwnerStays DEF SetMember, IInv
<1>3. ASSUME NEW r \in Request, NEW u \in User, RemoveMember(r, u)
      PROVE  Owners(q)' # {}
  <2>1. None \in Role \cup {None} /\ request[r].project \in DOMAIN project
    BY <1>3 DEF RemoveMember
  <2> QED BY <1>3, <2>1, AnotherOwnerStays DEF RemoveMember, IInv
<1>4. ASSUME NEW r \in Request, NEW archived \in BOOLEAN,
             SetArchived(r, archived) \/ Write(r) \/ DeleteProject(r)
      PROVE  Owners(q)' # {}
  <2>1. project'[q].role = project[q].role
    BY <1>4 DEF SetArchived, Write, DeleteProject, IInv, TypeOK, ProjectRow
  <2> QED BY <2>1 DEF Owners
<1>5. ASSUME NEW r \in Request, NEW p \in Project, CreateProject(r, p)
      PROVE  Owners(q)' # {}
  <2>1. project'[q] = project[q]
    BY <1>5 DEF CreateProject
  <2> QED BY <2>1 DEF Owners
<1> QED BY <1>1, <1>2, <1>3, <1>4, <1>5
    DEF Next, Step, Register, Finish, Authenticate, Authorize, UpdateUser, vars

\* An owned project keeps an owner as long as it exists, whichever owners remove
\* or demote each other (members.go:143-145).
THEOREM OwnedStaysOwnedCorrect == Spec => OwnedStaysOwned
<1>1. IInv /\ [Next]_vars =>
        [\A p \in DOMAIN project \cap DOMAIN project' : Owners(p) # {} => Owners(p)' # {}]_vars
  BY OwnedStep
<1> QED BY InitInv, NextInv, <1>1, PTL DEF Spec, OwnedStaysOwned
=============================================================================
