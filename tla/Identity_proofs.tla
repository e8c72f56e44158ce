--------------------------- MODULE Identity_proofs ---------------------------
(***************************************************************************)
(* Proofs about Identity, for every set of users, roles, permissions and   *)
(* tasks, every seed, and with or without Redis failures and crashes.      *)
(***************************************************************************)
EXTENDS Identity, TLAPS

(* TypeOK alone is not inductive: the permission names a lookup collects   *)
(* are names only because no grant outlives its permission.                *)
IInv == TypeOK /\ NoDanglingIds

-----------------------------------------------------------------------------
(* Every constructor builds a continuation.                                *)
LEMMA Constructors ==
  /\ Idle \in Tail
  /\ \A u \in Users, e \in {"refuse", "revoke"} : GetCached(u, e) \in Tail
  /\ \A x \in Tail : x \in Continuation
  /\ \A u \in Users, e \in {"refuse", "revoke"} : ReadUser(u, e) \in Continuation
  /\ \A u \in Users, f \in Profiles : ReadRoles(u, f) \in Continuation
  /\ \A u \in Users, f \in Profiles, rs \in SUBSET Roles, ns \in SUBSET RoleNames :
       ReadGrants(u, f, rs, ns) \in Continuation
  /\ \A u \in Users, i \in Information : SetCached(u, i) \in Continuation
  /\ \A us \in SUBSET Users, x \in Tail : Forget(us, x) \in Continuation
<1> USE DEF Continuation, Tail, Idle, GetCached, ReadUser, ReadRoles, ReadGrants, SetCached, Forget
<1> QED OBVIOUS

LEMMA UserConstructors ==
  ASSUME NEW u \in Users \cup {None}, NEW row \in [status : Status, profile : Profiles],
         NEW rs \in SUBSET Roles
  PROVE  AssertRoles(u, row, rs) \in Continuation /\ SaveUser(u, row, rs) \in Continuation
BY DEF Continuation, AssertRoles, SaveUser

LEMMA ProfileConstructors ==
  ASSUME NEW u \in Users, NEW f \in Profiles
  PROVE  SaveProfile(u, f) \in Continuation /\ SoftDelete(u) \in Continuation
BY DEF Continuation, SaveProfile, SoftDelete

LEMMA RoleConstructors ==
  ASSUME NEW r \in Roles \cup {None}, NEW n \in RoleNames, NEW ps \in SUBSET Permissions
  PROVE  /\ AssertName(r, n, ps) \in Continuation
         /\ AssertPermissions(r, n, ps) \in Continuation
         /\ SaveRole(r, n, ps) \in Continuation
BY DEF Continuation, AssertName, AssertPermissions, SaveRole

LEMMA PermissionConstructors ==
  /\ \A ns \in SUBSET PermissionNames : AddPermissions(ns) \in Continuation
  /\ \A p \in Permissions, n \in PermissionNames :
       AssertLabel(p, n) \in Continuation /\ RenamePermission(p, n) \in Continuation
BY DEF Continuation, AddPermissions, AssertLabel, RenamePermission

LEMMA HolderConstructors ==
  ASSUME NEW v \in Victims
  PROVE  /\ \A p \in Permissions : FindRoles(p, v) \in Continuation
         /\ \A rs \in SUBSET Roles : FindHolders(rs, v) \in Continuation
         /\ \A us \in SUBSET Users : v # None => DeleteRow(v, us) \in Continuation
BY DEF Continuation, FindRoles, FindHolders, DeleteRow, Victims

(* The fields of a continuation, by its pc.                                *)
LEMMA Fields ==
  ASSUME NEW r \in Continuation
  PROVE  /\ r.pc \in {"cacheGet", "readUser"} => r.user \in Users /\ r.orElse \in {"refuse", "revoke"}
         /\ r.pc = "readRoles" => r.user \in Users /\ r.profile \in Profiles
         /\ r.pc = "readGrants" =>
              /\ r.user \in Users
              /\ r.profile \in Profiles
              /\ r.held \in SUBSET Roles
              /\ r.names \in SUBSET RoleNames
         /\ r.pc = "cacheSet" => r.user \in Users /\ r.info \in Information
         /\ r.pc = "forget" => r.users \in SUBSET Users /\ r.then \in Tail
         /\ r.pc \in {"assertRoles", "saveUser"} =>
              /\ r.user \in Users \cup {None}
              /\ r.row \in [status : Status, profile : Profiles]
              /\ r.roles \in SUBSET Roles
         /\ r.pc = "saveProfile" => r.user \in Users /\ r.profile \in Profiles
         /\ r.pc = "softDelete" => r.user \in Users
         /\ r.pc \in {"assertName", "assertPermissions", "saveRole"} =>
              /\ r.role \in Roles \cup {None}
              /\ r.name \in RoleNames
              /\ r.permissions \in SUBSET Permissions
         /\ r.pc = "addPermissions" => r.names \in SUBSET PermissionNames
         /\ r.pc \in {"assertLabel", "renamePermission"} =>
              r.permission \in Permissions /\ r.name \in PermissionNames
         /\ r.pc = "findRoles" => r.permission \in Permissions /\ r.victim \in Victims
         /\ r.pc = "findHolders" => r.roles \in SUBSET Roles /\ r.victim \in Victims
         /\ r.pc = "deleteRow" => r.victim \in Roles \cup Permissions /\ r.users \in SUBSET Users
BY DEF Continuation, Tail, Idle

(* No continuation but the ones Known names asks anything of the database. *)
LEMMA TailKnown == \A x \in Tail : Known(x)
BY DEF Tail, Idle, Known

-----------------------------------------------------------------------------
(* A step that only moves a task on keeps the invariant when the task      *)
(* moves to a continuation that is typed and whose user is known.          *)
LEMMA OnlyContinues ==
  ASSUME IInv, NEW t \in Tasks, NEW r \in Continuation, Known(r), Become(t, r), UNCHANGED <<db, cache>>
  PROVE  IInv'
<1>1. TypeOK'
  BY DEF IInv, TypeOK, Become, db
<1>2. \A s \in Tasks : req'[s] = r \/ req'[s] = req[s]
  BY DEF IInv, TypeOK, Become
<1>3. NoDanglingIds'
  BY <1>2 DEF IInv, NoDanglingIds, Known, db, RoleExists, PermissionExists
<1> QED BY <1>1, <1>3 DEF IInv

LEMMA RequestKeeps == ASSUME IInv, NEW t \in Tasks, Request(t) PROVE IInv'
<1>a. \A r \in Continuation : Known(r) /\ Become(t, r) /\ UNCHANGED <<db, cache>> => IInv'
  BY OnlyContinues
<1>b. None \in Victims /\ Roles \subseteq Victims /\ Permissions \subseteq Victims
  BY DEF Victims
<1>1. CASE Authenticate(t)
  BY <1>a, <1>1, Constructors, TailKnown DEF Authenticate, Arrive
<1>2. CASE Login(t)
  <2>1. PICK u \in Users : Become(t, Forget({u}, GetCached(u, "refuse"))) /\ UNCHANGED <<db, cache>>
    BY <1>2 DEF Login, Arrive
  <2>2. Forget({u}, GetCached(u, "refuse")) \in Continuation
    BY Constructors
  <2>3. Known(Forget({u}, GetCached(u, "refuse")))
    BY DEF Known, Forget
  <2> QED BY <1>a, <2>1, <2>2, <2>3
<1>3. CASE Refresh(t)
  <2>1. PICK u \in Users : Become(t, Forget({u}, GetCached(u, "revoke"))) /\ UNCHANGED <<db, cache>>
    BY <1>3 DEF Refresh, Arrive
  <2>2. Forget({u}, GetCached(u, "revoke")) \in Continuation
    BY Constructors
  <2>3. Known(Forget({u}, GetCached(u, "revoke")))
    BY DEF Known, Forget
  <2> QED BY <1>a, <2>1, <2>2, <2>3
<1>4. CASE ChangePassword(t)
  <2>1. PICK u \in Users : Become(t, Forget({u}, Idle)) /\ UNCHANGED <<db, cache>>
    BY <1>4 DEF ChangePassword, Arrive
  <2>2. Forget({u}, Idle) \in Continuation
    BY Constructors
  <2>3. Known(Forget({u}, Idle))
    BY DEF Known, Forget
  <2> QED BY <1>a, <2>1, <2>2, <2>3
<1>5. CASE UpdateProfile(t)
  <2>1. PICK u \in Users, f \in Profiles :
          user[u] # Unborn /\ Become(t, SaveProfile(u, f)) /\ UNCHANGED <<db, cache>>
    BY <1>5 DEF UpdateProfile, Arrive
  <2>2. Known(SaveProfile(u, f))
    BY <2>1 DEF Known, SaveProfile
  <2> QED BY <1>a, <2>1, <2>2, ProfileConstructors
<1>6. CASE CreateUser(t)
  <2>1. PICK row \in [status : Status, profile : Profiles], rs \in SUBSET Roles :
          Become(t, AssertRoles(None, row, rs)) /\ UNCHANGED <<db, cache>>
    BY <1>6 DEF CreateUser, Arrive
  <2>2. Known(AssertRoles(None, row, rs))
    BY DEF Known, AssertRoles
  <2> QED BY <1>a, <2>1, <2>2, UserConstructors
<1>7. CASE UpdateUser(t)
  <2>1. PICK u \in Users, row \in [status : Status, profile : Profiles], rs \in SUBSET Roles :
          user[u] # Unborn /\ Become(t, AssertRoles(u, row, rs)) /\ UNCHANGED <<db, cache>>
    BY <1>7 DEF UpdateUser, Arrive, Live
  <2>2. Known(AssertRoles(u, row, rs))
    BY <2>1 DEF Known, AssertRoles
  <2> QED BY <1>a, <2>1, <2>2, UserConstructors
<1>8. CASE DeleteUser(t)
  <2>1. PICK u \in Users : user[u] # Unborn /\ Become(t, SoftDelete(u)) /\ UNCHANGED <<db, cache>>
    BY <1>8 DEF DeleteUser, Arrive, Live
  <2>2. Known(SoftDelete(u))
    BY <2>1 DEF Known, SoftDelete
  <2>3. SoftDelete(u) \in Continuation
    BY DEF SoftDelete, Continuation
  <2> QED BY <1>a, <2>1, <2>2, <2>3
<1>9. CASE CreateRole(t)
  <2>1. PICK n \in RoleNames, ps \in SUBSET Permissions :
          Become(t, AssertName(None, n, ps)) /\ UNCHANGED <<db, cache>>
    BY <1>9 DEF CreateRole, Arrive
  <2>2. Known(AssertName(None, n, ps))
    BY DEF Known, AssertName
  <2> QED BY <1>a, <2>1, <2>2, RoleConstructors
<1>10. CASE UpdateRole(t)
  <2>1. PICK r \in Roles, n \in RoleNames, ps \in SUBSET Permissions :
          Become(t, AssertName(r, n, ps)) /\ UNCHANGED <<db, cache>>
    BY <1>10 DEF UpdateRole, Arrive
  <2>2. Known(AssertName(r, n, ps))
    BY DEF Known, AssertName
  <2> QED BY <1>a, <2>1, <2>2, RoleConstructors
<1>11. CASE DeleteRole(t)
  <2>1. PICK r \in Roles : Become(t, FindHolders({r}, r)) /\ UNCHANGED <<db, cache>>
    BY <1>11 DEF DeleteRole, Arrive
  <2>2. Known(FindHolders({r}, r))
    BY DEF Known, FindHolders
  <2> QED BY <1>a, <1>b, <2>1, <2>2, HolderConstructors
<1>12. CASE CreatePermissions(t)
  <2>1. PICK ns \in SUBSET PermissionNames : Become(t, AddPermissions(ns)) /\ UNCHANGED <<db, cache>>
    BY <1>12 DEF CreatePermissions, Arrive
  <2>2. Known(AddPermissions(ns))
    BY DEF Known, AddPermissions
  <2> QED BY <1>a, <2>1, <2>2, PermissionConstructors
<1>13. CASE UpdatePermission(t)
  <2>1. PICK p \in Permissions, n \in PermissionNames :
          Become(t, AssertLabel(p, n)) /\ UNCHANGED <<db, cache>>
    BY <1>13 DEF UpdatePermission, Arrive
  <2>2. Known(AssertLabel(p, n))
    BY DEF Known, AssertLabel
  <2> QED BY <1>a, <2>1, <2>2, PermissionConstructors
<1>14. CASE DeletePermission(t)
  <2>1. PICK p \in Permissions : Become(t, FindRoles(p, p)) /\ UNCHANGED <<db, cache>>
    BY <1>14 DEF DeletePermission, Arrive
  <2>2. Known(FindRoles(p, p))
    BY DEF Known, FindRoles
  <2> QED BY <1>a, <1>b, <2>1, <2>2, HolderConstructors
<1> QED
  BY <1>1, <1>2, <1>3, <1>4, <1>5, <1>6, <1>7, <1>8, <1>9, <1>10, <1>11, <1>12, <1>13, <1>14 DEF Request

LEMMA LookupKeeps ==
  ASSUME IInv, NEW t \in Tasks,
         CacheHit(t) \/ CacheMiss(t) \/ FindUser(t) \/ FindRolesHeld(t) \/ FindGrants(t)
  PROVE  IInv'
<1>a. \A r \in Continuation : Known(r) /\ Become(t, r) /\ UNCHANGED <<db, cache>> => IInv'
  BY OnlyContinues
<1>b. req[t] \in Continuation /\ Known(req[t])
  BY DEF IInv, TypeOK, NoDanglingIds
<1>c. Idle \in Continuation /\ Known(Idle)
  BY Constructors, TailKnown
<1>1. CASE CacheHit(t)
  BY <1>a, <1>c, <1>1 DEF CacheHit
<1>2. CASE CacheMiss(t)
  <2>1. req[t].user \in Users /\ req[t].orElse \in {"refuse", "revoke"}
    BY <1>b, <1>2, Fields DEF CacheMiss
  <2>2. Known(ReadUser(req[t].user, req[t].orElse))
    BY DEF Known, ReadUser
  <2> QED BY <1>a, <1>2, <2>1, <2>2, Constructors DEF CacheMiss
<1>3. CASE FindUser(t)
  <2> DEFINE u == req[t].user
  <2>1. u \in Users
    BY <1>b, <1>3, Fields DEF FindUser
  <2>2. CASE Active(u)
    <3>1. u \in Users /\ user[u].profile \in Profiles /\ user[u] # Unborn
      BY <2>1, <2>2 DEF Active, Live, IInv, TypeOK, UserRow
    <3>2. Known(ReadRoles(u, user[u].profile))
      BY <3>1 DEF Known, ReadRoles
    <3>3. Become(t, ReadRoles(u, user[u].profile)) /\ UNCHANGED <<db, cache>>
      BY <1>3, <2>2 DEF FindUser
    <3> QED BY <1>a, <3>1, <3>2, <3>3, Constructors
  <2>3. CASE ~Active(u)
    <3>1. Forget({u}, Idle) \in Continuation
      BY <2>1, Constructors
    <3>2. Known(Forget({u}, Idle))
      BY DEF Known, Forget
    <3>3. (Become(t, Forget({u}, Idle)) \/ Become(t, Idle)) /\ UNCHANGED <<db, cache>>
      BY <1>3, <2>3 DEF FindUser
    <3> QED BY <1>a, <1>c, <3>1, <3>2, <3>3
  <2> QED BY <2>2, <2>3
<1>4. CASE FindRolesHeld(t)
  <2> DEFINE rs == RolesHeldBy(req[t].user)
             next == ReadGrants(req[t].user, req[t].profile, rs, RoleNamesOf(rs))
  <2>1. req[t].pc = "readRoles" /\ req[t].user \in Users /\ req[t].profile \in Profiles
    BY <1>b, <1>4, Fields DEF FindRolesHeld
  <2>2. rs \in SUBSET Roles /\ RoleNamesOf(rs) \in SUBSET RoleNames
    BY DEF RolesHeldBy, RoleNamesOf, IInv, NoDanglingIds, RoleExists
  <2>3. user[req[t].user] # Unborn
    BY <1>b, <2>1, IdsAreDistinct DEF Known
  <2>4. Known(next)
    BY <2>3 DEF Known, ReadGrants
  <2>5. Become(t, next) /\ UNCHANGED <<db, cache>>
    BY <1>4 DEF FindRolesHeld
  <2> QED BY <1>a, <2>1, <2>2, <2>4, <2>5, Constructors
<1>5. CASE FindGrants(t)
  <2> DEFINE r == req[t]
             info == [profile |-> r.profile, roles |-> r.names,
                      permissions |-> PermissionNamesOf(r.held)]
  <2>1. /\ r.pc = "readGrants" /\ r.user \in Users /\ r.profile \in Profiles
        /\ r.held \in SUBSET Roles /\ r.names \in SUBSET RoleNames
    BY <1>b, <1>5, Fields DEF FindGrants
  <2>2. PermissionNamesOf(r.held) \in SUBSET PermissionNames
    BY DEF PermissionNamesOf, IInv, NoDanglingIds, PermissionExists
  <2>3. info \in Information
    BY <2>1, <2>2 DEF Information
  <2>4. user[r.user] # Unborn
    BY <1>b, <2>1, IdsAreDistinct DEF Known
  <2>5. Known(SetCached(r.user, info))
    BY <2>4 DEF Known, SetCached
  <2>6. Become(t, SetCached(r.user, info)) /\ UNCHANGED <<db, cache>>
    BY <1>5 DEF FindGrants
  <2> QED BY <1>a, <2>1, <2>3, <2>5, <2>6, Constructors
<1> QED BY <1>1, <1>2, <1>3, <1>4, <1>5

(* The checks that precede a write, and the reads that find the holders.   *)
LEMMA CheckKeeps ==
  ASSUME IInv, NEW t \in Tasks,
         \/ AssertRolesExist(t) \/ AssertNameAvailable(t) \/ AssertPermissionsExist(t)
         \/ AssertLabelAvailable(t) \/ FindRoleIds(t) \/ FindHolderIds(t)
  PROVE  IInv'
<1>a. \A r \in Continuation : Known(r) /\ Become(t, r) /\ UNCHANGED <<db, cache>> => IInv'
  BY OnlyContinues
<1>b. req[t] \in Continuation /\ Known(req[t])
  BY DEF IInv, TypeOK, NoDanglingIds
<1>c. Idle \in Continuation /\ Known(Idle)
  BY Constructors, TailKnown
<1> DEFINE r == req[t]
<1>1. CASE AssertRolesExist(t)
  <2> DEFINE next == SaveUser(r.user, r.row, r.roles)
  <2>1. next \in Continuation
    BY <1>b, <1>1, Fields, UserConstructors DEF AssertRolesExist
  <2>2. Known(next)
    BY <1>b, <1>1 DEF AssertRolesExist, Known, SaveUser
  <2>3. (Become(t, next) \/ Become(t, Idle)) /\ UNCHANGED <<db, cache>>
    BY <1>1 DEF AssertRolesExist
  <2> QED BY <1>a, <1>c, <2>1, <2>2, <2>3
<1>2. CASE AssertNameAvailable(t)
  <2> DEFINE next == AssertPermissions(r.role, r.name, r.permissions)
  <2>1. next \in Continuation
    BY <1>b, <1>2, Fields, RoleConstructors DEF AssertNameAvailable
  <2>2. Known(next)
    BY DEF Known, AssertPermissions
  <2>3. (Become(t, next) \/ Become(t, Idle)) /\ UNCHANGED <<db, cache>>
    BY <1>2 DEF AssertNameAvailable
  <2> QED BY <1>a, <1>c, <2>1, <2>2, <2>3
<1>3. CASE AssertPermissionsExist(t)
  <2> DEFINE next == SaveRole(r.role, r.name, r.permissions)
  <2>1. next \in Continuation
    BY <1>b, <1>3, Fields, RoleConstructors DEF AssertPermissionsExist
  <2>2. Known(next)
    BY DEF Known, SaveRole
  <2>3. (Become(t, next) \/ Become(t, Idle)) /\ UNCHANGED <<db, cache>>
    BY <1>3 DEF AssertPermissionsExist
  <2> QED BY <1>a, <1>c, <2>1, <2>2, <2>3
<1>4. CASE AssertLabelAvailable(t)
  <2> DEFINE next == RenamePermission(r.permission, r.name)
  <2>1. next \in Continuation
    BY <1>b, <1>4, Fields, PermissionConstructors DEF AssertLabelAvailable
  <2>2. Known(next)
    BY DEF Known, RenamePermission
  <2>3. (Become(t, next) \/ Become(t, Idle)) /\ UNCHANGED <<db, cache>>
    BY <1>4 DEF AssertLabelAvailable
  <2> QED BY <1>a, <1>c, <2>1, <2>2, <2>3
<1>5. CASE FindRoleIds(t)
  <2> DEFINE next == FindHolders(RolesGranting(r.permission), r.victim)
  <2>1. next \in Continuation
    BY <1>b, <1>5, Fields, HolderConstructors DEF FindRoleIds, RolesGranting
  <2>2. Known(next)
    BY DEF Known, FindHolders
  <2> QED BY <1>a, <1>5, <2>1, <2>2 DEF FindRoleIds
<1>6. CASE FindHolderIds(t)
  <2> DEFINE us == Holders(r.roles)
  <2>1. us \in SUBSET Users /\ r.victim \in Victims
    BY <1>b, <1>6, Fields DEF FindHolderIds, Holders
  <2>2. Forget(us, Idle) \in Continuation /\ Known(Forget(us, Idle))
    BY <2>1, Constructors DEF Known, Forget
  <2>3. r.victim # None => DeleteRow(r.victim, us) \in Continuation
    BY <2>1, HolderConstructors
  <2>4. Known(DeleteRow(r.victim, us))
    BY DEF Known, DeleteRow
  <2>5. /\ Become(t, Forget(us, Idle)) \/ (r.victim # None /\ Become(t, DeleteRow(r.victim, us)))
        /\ UNCHANGED <<db, cache>>
    BY <1>6 DEF FindHolderIds
  <2> QED BY <1>a, <2>2, <2>3, <2>4, <2>5
<1> QED BY <1>1, <1>2, <1>3, <1>4, <1>5, <1>6

(* What a step does to the tasks when it writes: the others stay where     *)
(* they are, and no user they work on is lost.                             *)
LEMMA WriterMovesOn ==
  ASSUME IInv, NEW t \in Tasks, NEW r \in Continuation, Become(t, r),
         r.pc \in {"idle", "cacheGet", "forget", "findRoles", "findHolders"},
         \A u \in Users : user[u] # Unborn => user'[u] # Unborn
  PROVE  /\ req' \in [Tasks -> Continuation]
         /\ \A s \in Tasks : Known(req[s])'
<1>1. /\ req' \in [Tasks -> Continuation]
      /\ \A s \in Tasks : req'[s] = r \/ req'[s] = req[s]
  BY DEF IInv, TypeOK, Become
<1>2. ASSUME NEW s \in Tasks PROVE Known(req[s])'
  <2>1. CASE req'[s] = r
    BY <2>1 DEF Known
  <2>2. CASE req'[s] = req[s]
    <3>1. Known(req[s]) /\ req[s] \in Continuation
      BY DEF IInv, TypeOK, NoDanglingIds
    <3>2. SUFFICES ASSUME req[s].pc \in {"readRoles", "readGrants", "cacheSet", "assertRoles",
                                         "saveUser", "saveProfile", "softDelete"},
                          req[s].user # None
                   PROVE  user'[req[s].user] # Unborn
      BY <2>2 DEF Known
    <3>3. req[s].user \in Users
      BY <3>1, <3>2, Fields
    <3> QED BY <3>1, <3>2, <3>3 DEF Known
  <2> QED BY <1>1, <2>1, <2>2
<1> QED BY <1>1, <1>2

LEMMA CacheWriteKeeps ==
  ASSUME IInv, NEW t \in Tasks, CacheSet(t) \/ ForgetUsers(t) \/ ForgetLost(t) \/ Crash(t)
  PROVE  IInv'
<1>b. req[t] \in Continuation /\ Known(req[t])
  BY DEF IInv, TypeOK, NoDanglingIds
<1>c. /\ Idle \in Continuation /\ Known(Idle) /\ Idle.pc = "idle"
      /\ \A x \in Tail : x \in Continuation /\ Known(x) /\ x.pc \in {"idle", "cacheGet"}
  BY Constructors, TailKnown DEF Idle, Tail
<1>d. ASSUME UNCHANGED db, cache' \in [Users -> Information \cup {None}],
             \A u \in Users : cache'[u] # None => user[u] # Unborn,
             NEW x \in Tail, Become(t, x)
      PROVE  IInv'
  <2>1. req' \in [Tasks -> Continuation] /\ \A s \in Tasks : Known(req[s])'
    BY <1>c, <1>d, WriterMovesOn DEF db
  <2>2. TypeOK'
    BY <1>d, <2>1 DEF db, IInv, TypeOK
  <2>3. NoDanglingIds'
    BY <1>d, <2>1 DEF db, IInv, NoDanglingIds, RoleExists, PermissionExists
  <2> QED BY <2>2, <2>3 DEF IInv
<1>1. CASE CacheSet(t)
  <2>1. req[t].pc = "cacheSet" /\ req[t].user \in Users /\ req[t].info \in Information
    BY <1>b, <1>1, Fields DEF CacheSet
  <2>2. user[req[t].user] # Unborn
    BY <1>b, <2>1, IdsAreDistinct DEF Known
  <2>3. cache' \in [Users -> Information \cup {None}]
    BY <1>1, <2>1 DEF CacheSet, IInv, TypeOK
  <2>4. \A u \in Users : cache'[u] # None => user[u] # Unborn
    BY <1>1, <2>1, <2>2 DEF CacheSet, IInv, TypeOK, NoDanglingIds
  <2> QED BY <1>1, <1>d, <2>3, <2>4, Constructors DEF CacheSet
<1>2. CASE ForgetUsers(t)
  <2>1. req[t].then \in Tail
    BY <1>b, <1>2, Fields DEF ForgetUsers
  <2>2. cache' \in [Users -> Information \cup {None}]
    BY <1>2 DEF ForgetUsers, IInv, TypeOK
  <2>3. \A u \in Users : cache'[u] # None => user[u] # Unborn
    BY <1>2 DEF ForgetUsers, IInv, NoDanglingIds
  <2> QED BY <1>2, <1>d, <2>1, <2>2, <2>3 DEF ForgetUsers
<1>3. CASE ForgetLost(t)
  <2>1. req[t].then \in Tail
    BY <1>b, <1>3, Fields DEF ForgetLost
  <2> QED BY <1>3, <1>c, <2>1, OnlyContinues DEF ForgetLost
<1>4. CASE Crash(t)
  BY <1>4, <1>c, OnlyContinues DEF Crash
<1> QED BY <1>1, <1>2, <1>3, <1>4

LEMMA ExpireKeeps == ASSUME IInv, NEW u \in Users, Expire(u) PROVE IInv'
<1>1. TypeOK'
  BY DEF Expire, db, IInv, TypeOK
<1>2. NoDanglingIds'
  BY DEF Expire, db, IInv, TypeOK, NoDanglingIds, Known, RoleExists, PermissionExists
<1> QED BY <1>1, <1>2 DEF IInv

LEMMA UserWriteKeeps ==
  ASSUME IInv, NEW t \in Tasks, InsertUser(t) \/ CommitUser(t) \/ CommitProfile(t) \/ CommitDelete(t)
  PROVE  IInv'
<1> DEFINE r == req[t]
           u == r.user
<1>b. r \in Continuation /\ Known(r)
  BY DEF IInv, TypeOK, NoDanglingIds
<1>c. Idle \in Continuation /\ Idle.pc = "idle" /\ Idle \in Tail
  BY Constructors DEF Idle
<1>d. \A v \in Users, x \in Tail : Forget({v}, x) \in Continuation /\ Forget({v}, x).pc = "forget"
  BY Constructors DEF Forget
<1>e. ASSUME UNCHANGED <<role, permission, grants, cache>>, user' \in [Users -> UserRow \cup {Unborn}],
             holds' \in SUBSET (Users \X Roles),
             \A v \in Users : user[v] # Unborn => user'[v] # Unborn,
             \A h \in holds' : user'[h[1]] # Unborn /\ RoleExists(h[2]),
             NEW x \in Continuation, x.pc \in {"idle", "forget"}, Become(t, x)
      PROVE  IInv'
  <2>1. req' \in [Tasks -> Continuation] /\ \A s \in Tasks : Known(req[s])'
    BY <1>e, WriterMovesOn
  <2>2. TypeOK'
    BY <1>e, <2>1 DEF IInv, TypeOK
  <2>3. NoDanglingIds'
    BY <1>e, <2>1 DEF IInv, NoDanglingIds, RoleExists, PermissionExists
  <2> QED BY <2>2, <2>3 DEF IInv
<1>f. \A h \in holds : h \in Users \X Roles /\ user[h[1]] # Unborn /\ RoleExists(h[2])
  BY DEF IInv, TypeOK, NoDanglingIds
<1>1. CASE InsertUser(t)
  <2>1. r.row \in [status : Status, profile : Profiles] /\ r.roles \in SUBSET Roles
    BY <1>b, <1>1, Fields DEF InsertUser
  <2>2. CASE UNCHANGED <<user, holds>>
    <3>1. UNCHANGED <<db, cache>> /\ Become(t, Idle)
      BY <1>1, <2>2 DEF InsertUser, db
    <3> QED BY <1>c, <3>1, OnlyContinues, TailKnown
  <2>3. CASE \E v \in Users : /\ user[v] = Unborn
                              /\ user' = [user EXCEPT ![v] = [status |-> r.row.status, deleted |-> FALSE,
                                                              profile |-> r.row.profile]]
                              /\ holds' = holds \cup ({v} \X r.roles)
                              /\ \A y \in r.roles : RoleExists(y)
    <3>1. PICK v \in Users : /\ user' = [user EXCEPT ![v] = [status |-> r.row.status, deleted |-> FALSE,
                                                             profile |-> r.row.profile]]
                             /\ holds' = holds \cup ({v} \X r.roles)
                             /\ \A y \in r.roles : RoleExists(y)
      BY <2>3
    <3>2. [status |-> r.row.status, deleted |-> FALSE, profile |-> r.row.profile] \in UserRow
      BY <2>1 DEF UserRow
    <3>3. /\ user' \in [Users -> UserRow \cup {Unborn}]
          /\ \A w \in Users : user[w] # Unborn => user'[w] # Unborn
          /\ user'[v] # Unborn
      BY <3>1, <3>2, IdsAreDistinct DEF IInv, TypeOK
    <3>4. holds' \in SUBSET (Users \X Roles)
      BY <3>1, <2>1, <1>f
    <3>5. \A h \in holds' : user'[h[1]] # Unborn /\ RoleExists(h[2])
      BY <3>1, <3>3, <1>f
    <3>6. UNCHANGED <<role, permission, grants, cache>> /\ Become(t, Idle)
      BY <1>1 DEF InsertUser
    <3> QED BY <1>c, <1>e, <3>3, <3>4, <3>5, <3>6
  <2> QED BY <1>1, <2>2, <2>3 DEF InsertUser
<1>2. CASE CommitUser(t)
  <2>1. u \in Users /\ r.row \in [status : Status, profile : Profiles] /\ r.roles \in SUBSET Roles
    BY <1>b, <1>2, Fields DEF CommitUser
  <2>2. user[u] # Unborn
    BY <1>b, <1>2 DEF Known, CommitUser
  <2>3. CASE UNCHANGED <<user, holds>> /\ Become(t, Idle)
    <3>1. UNCHANGED <<db, cache>>
      BY <1>2, <2>3, ZenonT(40) DEF CommitUser, db
    <3> QED BY <1>c, <2>3, <3>1, OnlyContinues, TailKnown
  <2>4. CASE /\ \A y \in r.roles : RoleExists(y)
             /\ user' = [user EXCEPT ![u].status = r.row.status, ![u].profile = r.row.profile]
             /\ holds' = {h \in holds : h[1] # u} \cup ({u} \X r.roles)
             /\ Become(t, Forget({u}, Idle))
    <3>1. user[u] \in UserRow
      BY <2>1, <2>2 DEF IInv, TypeOK
    <3>2. /\ user' \in [Users -> UserRow \cup {Unborn}]
          /\ \A w \in Users : user[w] # Unborn => user'[w] # Unborn
      BY <3>1, <2>1, <2>4, IdsAreDistinct DEF IInv, TypeOK, UserRow
    <3>3. holds' \in SUBSET (Users \X Roles)
      BY <2>1, <2>4, <1>f, SMTT(30)
    <3>4. \A h \in holds' : user'[h[1]] # Unborn /\ RoleExists(h[2])
      BY <2>1, <2>2, <2>4, <3>2, <1>f
    <3> QED BY <1>2, <1>c, <1>d, <1>e, <2>1, <2>4, <3>2, <3>3, <3>4, Zenon DEF CommitUser
  <2> QED BY <1>2, <2>3, <2>4 DEF CommitUser
<1>3. CASE CommitProfile(t)
  <2>1. u \in Users /\ r.profile \in Profiles /\ user[u] # Unborn
    BY <1>b, <1>3, Fields, IdsAreDistinct DEF CommitProfile, Known
  <2>2. user[u] \in UserRow
    BY <2>1 DEF IInv, TypeOK
  <2>3. /\ user' \in [Users -> UserRow \cup {Unborn}]
        /\ \A w \in Users : user[w] # Unborn => user'[w] # Unborn
    BY <1>3, <2>1, <2>2, IdsAreDistinct DEF CommitProfile, IInv, TypeOK, UserRow
  <2>4. \A h \in holds' : user'[h[1]] # Unborn /\ RoleExists(h[2])
    BY <1>3, <2>3, <1>f DEF CommitProfile
  <2>5. GetCached(u, "refuse") \in Tail
    BY <2>1, Constructors
  <2>6. holds' \in SUBSET (Users \X Roles)
    BY <1>3, <1>f DEF CommitProfile
  <2> QED BY <1>3, <1>d, <1>e, <2>1, <2>3, <2>4, <2>5, <2>6 DEF CommitProfile
<1>4. CASE CommitDelete(t)
  <2>1. u \in Users /\ user[u] # Unborn
    BY <1>b, <1>4, Fields, IdsAreDistinct DEF CommitDelete, Known
  <2>2. user[u] \in UserRow
    BY <2>1 DEF IInv, TypeOK
  <2>3. /\ user' \in [Users -> UserRow \cup {Unborn}]
        /\ \A w \in Users : user[w] # Unborn => user'[w] # Unborn
    BY <1>4, <2>1, <2>2, IdsAreDistinct, ZenonT(60) DEF CommitDelete, IInv, TypeOK, UserRow
  <2>4. \A h \in holds' : user'[h[1]] # Unborn /\ RoleExists(h[2])
    BY <1>4, <2>3, <1>f DEF CommitDelete
  <2>5. holds' \in SUBSET (Users \X Roles)
    BY <1>4, <1>f DEF CommitDelete
  <2> QED BY <1>4, <1>c, <1>d, <1>e, <2>1, <2>3, <2>4, <2>5 DEF CommitDelete
<1> QED BY <1>1, <1>2, <1>3, <1>4

LEMMA RoleWriteKeeps ==
  ASSUME IInv, NEW t \in Tasks, InsertRole(t) \/ CommitRole(t) \/ CommitRoleDelete(t)
  PROVE  IInv'
<1> DEFINE r == req[t]
<1>b. r \in Continuation /\ Known(r)
  BY DEF IInv, TypeOK, NoDanglingIds
<1>c. Idle \in Continuation /\ Idle.pc = "idle" /\ Idle \in Tail
  BY Constructors DEF Idle
<1>d. \A us \in SUBSET Users : Forget(us, Idle) \in Continuation /\ Forget(us, Idle).pc = "forget"
  BY Constructors DEF Forget
<1>e. ASSUME UNCHANGED <<user, permission, cache>>,
             role' \in [Roles -> RoleNames \cup {Unborn, Gone}],
             holds' \in SUBSET (Users \X Roles), grants' \in SUBSET (Roles \X Permissions),
             \A h \in holds' : user[h[1]] # Unborn /\ role'[h[2]] \in RoleNames,
             \A g \in grants' : role'[g[1]] \in RoleNames /\ PermissionExists(g[2]),
             NEW x \in Continuation, x.pc \in {"idle", "forget", "findHolders"}, Become(t, x)
      PROVE  IInv'
  <2>1. req' \in [Tasks -> Continuation] /\ \A s \in Tasks : Known(req[s])'
    BY <1>e, WriterMovesOn
  <2>2. TypeOK'
    BY <1>e, <2>1 DEF IInv, TypeOK
  <2>3. NoDanglingIds'
    BY <1>e, <2>1 DEF IInv, NoDanglingIds, RoleExists, PermissionExists
  <2> QED BY <2>2, <2>3 DEF IInv
<1>f. /\ \A h \in holds : h \in Users \X Roles /\ user[h[1]] # Unborn /\ role[h[2]] \in RoleNames
      /\ \A g \in grants : g \in Roles \X Permissions /\ role[g[1]] \in RoleNames /\ PermissionExists(g[2])
  BY DEF IInv, TypeOK, NoDanglingIds, RoleExists
<1>g. role \in [Roles -> RoleNames \cup {Unborn, Gone}]
  BY DEF IInv, TypeOK
<1>h. ASSUME UNCHANGED <<user, role, permission, holds, grants, cache>>, Become(t, Idle) PROVE IInv'
  BY <1>c, <1>h, OnlyContinues, TailKnown DEF db
<1>i. ASSUME NEW y \in Roles, NEW n \in RoleNames, NEW ps \in SUBSET Permissions,
             NEW gs \in SUBSET grants, \A p \in ps : PermissionExists(p),
             role' = [role EXCEPT ![y] = n], grants' = gs \cup ({y} \X ps)
      PROVE  /\ role' \in [Roles -> RoleNames \cup {Unborn, Gone}]
             /\ grants' \in SUBSET (Roles \X Permissions)
             /\ \A h \in holds : user[h[1]] # Unborn /\ role'[h[2]] \in RoleNames
             /\ \A g \in grants' : role'[g[1]] \in RoleNames /\ PermissionExists(g[2])
  <2>1. role' \in [Roles -> RoleNames \cup {Unborn, Gone}] /\ role'[y] = n
    BY <1>g, <1>i
  <2>2. \A x \in Roles : role[x] \in RoleNames => role'[x] \in RoleNames
    BY <1>g, <1>i
  <2>3. grants' \in SUBSET (Roles \X Permissions)
    BY <1>f, <1>i
  <2>4. \A h \in holds : user[h[1]] # Unborn /\ role'[h[2]] \in RoleNames
    BY <1>f, <2>2
  <2>5. \A g \in grants' : role'[g[1]] \in RoleNames /\ PermissionExists(g[2])
    BY <1>f, <1>i, <2>1, <2>2
  <2> QED BY <2>1, <2>3, <2>4, <2>5
<1>1. CASE InsertRole(t)
  <2>1. r.name \in RoleNames /\ r.permissions \in SUBSET Permissions
    BY <1>b, <1>1, Fields DEF InsertRole
  <2>2. CASE UNCHANGED <<role, grants>>
    BY <1>1, <1>h, <2>2 DEF InsertRole
  <2>3. CASE RoleAccepted(r) /\ \E x \in Roles : /\ role' = [role EXCEPT ![x] = r.name]
                                                /\ grants' = grants \cup ({x} \X r.permissions)
    <3>1. PICK x \in Roles : /\ role' = [role EXCEPT ![x] = r.name]
                             /\ grants' = grants \cup ({x} \X r.permissions)
                             /\ \A p \in r.permissions : PermissionExists(p)
      BY <2>3 DEF RoleAccepted
    <3>2. UNCHANGED <<user, permission, holds, cache>> /\ Become(t, Idle)
      BY <1>1 DEF InsertRole
    <3>3. holds' \in SUBSET (Users \X Roles)
      BY <3>2, <1>f
    <3> QED BY <1>c, <1>e, <1>i, <2>1, <3>1, <3>2, <3>3
  <2> QED BY <1>1, <2>2, <2>3 DEF InsertRole
<1>2. CASE CommitRole(t)
  <2>1. r.role \in Roles /\ r.name \in RoleNames /\ r.permissions \in SUBSET Permissions
    BY <1>b, <1>2, Fields DEF CommitRole
  <2>2. CASE UNCHANGED <<role, grants>> /\ Become(t, Idle)
    BY <1>2, <1>h, <2>2 DEF CommitRole
  <2>3. CASE /\ RoleAccepted(r)
             /\ role' = [role EXCEPT ![r.role] = r.name]
             /\ grants' = {g \in grants : g[1] # r.role} \cup ({r.role} \X r.permissions)
             /\ Become(t, FindHolders({r.role}, None))
    <3>1. \A p \in r.permissions : PermissionExists(p)
      BY <2>3 DEF RoleAccepted
    <3>2. UNCHANGED <<user, permission, holds, cache>>
      BY <1>2 DEF CommitRole
    <3>3. holds' \in SUBSET (Users \X Roles)
      BY <3>2, <1>f
    <3>4. None \in Victims
      BY DEF Victims
    <3>5. FindHolders({r.role}, None) \in Continuation /\ FindHolders({r.role}, None).pc = "findHolders"
      BY <2>1, <3>4, HolderConstructors DEF FindHolders
    <3>6. /\ role' \in [Roles -> RoleNames \cup {Unborn, Gone}]
          /\ grants' \in SUBSET (Roles \X Permissions)
          /\ \A h \in holds : user[h[1]] # Unborn /\ role'[h[2]] \in RoleNames
          /\ \A g \in grants' : role'[g[1]] \in RoleNames /\ PermissionExists(g[2])
      <4> DEFINE gs == {g \in grants : g[1] # r.role}
      <4>1. gs \in SUBSET grants /\ grants' = gs \cup ({r.role} \X r.permissions)
        BY <2>3
      <4>2. role' = [role EXCEPT ![r.role] = r.name]
        BY <2>3
      <4> HIDE DEF gs
      <4> QED BY <1>i, <2>1, <3>1, <4>1, <4>2
    <3> QED BY <1>e, <2>3, <3>2, <3>3, <3>5, <3>6
  <2> QED BY <1>2, <2>2, <2>3 DEF CommitRole
<1>3. CASE CommitRoleDelete(t)
  <2> DEFINE y == r.victim
  <2>1. y \in Roles /\ r.users \in SUBSET Users
    BY <1>b, <1>3, Fields DEF CommitRoleDelete
  <2>2. CASE UNCHANGED <<role, holds, grants>> /\ Become(t, Idle)
    BY <1>3, <1>h, <2>2 DEF CommitRoleDelete
  <2>3. CASE /\ role' = [role EXCEPT ![y] = Gone]
             /\ holds' = {h \in holds : h[2] # y}
             /\ grants' = {g \in grants : g[1] # y}
             /\ Become(t, Forget(r.users, Idle))
    <3>1. /\ role' \in [Roles -> RoleNames \cup {Unborn, Gone}]
          /\ \A x \in Roles : x # y => role'[x] = role[x]
      BY <1>g, <2>1, <2>3
    <3>2. /\ holds' \in SUBSET (Users \X Roles)
          /\ \A h \in holds' : user[h[1]] # Unborn /\ role'[h[2]] \in RoleNames
      BY <1>f, <2>3, <3>1
    <3>3. /\ grants' \in SUBSET (Roles \X Permissions)
          /\ \A g \in grants' : role'[g[1]] \in RoleNames /\ PermissionExists(g[2])
      BY <1>f, <2>3, <3>1
    <3>4. UNCHANGED <<user, permission, cache>>
      BY <1>3 DEF CommitRoleDelete
    <3> QED BY <1>d, <1>e, <2>1, <2>3, <3>1, <3>2, <3>3, <3>4
  <2> QED BY <1>3, <2>2, <2>3 DEF CommitRoleDelete
<1> QED BY <1>1, <1>2, <1>3

LEMMA PermissionWriteKeeps ==
  ASSUME IInv, NEW t \in Tasks,
         InsertPermissions(t) \/ CommitPermission(t) \/ CommitPermissionDelete(t)
  PROVE  IInv'
<1> DEFINE r == req[t]
<1>b. r \in Continuation /\ Known(r)
  BY DEF IInv, TypeOK, NoDanglingIds
<1>c. Idle \in Continuation /\ Idle.pc = "idle" /\ Idle \in Tail
  BY Constructors DEF Idle
<1>e. ASSUME UNCHANGED <<user, role, holds, cache>>,
             permission' \in [Permissions -> PermissionNames \cup {Unborn, Gone}],
             grants' \in SUBSET grants,
             \A g \in grants' : permission'[g[2]] \in PermissionNames,
             NEW x \in Continuation, x.pc \in {"idle", "forget", "findRoles"}, Become(t, x)
      PROVE  IInv'
  <2>1. req' \in [Tasks -> Continuation] /\ \A s \in Tasks : Known(req[s])'
    BY <1>e, WriterMovesOn
  <2>2. TypeOK'
    BY <1>e, <2>1 DEF IInv, TypeOK
  <2>3. NoDanglingIds'
    BY <1>e, <2>1 DEF IInv, NoDanglingIds, RoleExists, PermissionExists
  <2> QED BY <2>2, <2>3 DEF IInv
<1>f. \A g \in grants : g \in Roles \X Permissions /\ permission[g[2]] \in PermissionNames
  BY DEF IInv, TypeOK, NoDanglingIds, PermissionExists
<1>g. permission \in [Permissions -> PermissionNames \cup {Unborn, Gone}]
  BY DEF IInv, TypeOK
<1>h. ASSUME UNCHANGED <<user, role, permission, holds, grants, cache>>, Become(t, Idle) PROVE IInv'
  BY <1>c, <1>h, OnlyContinues, TailKnown DEF db
<1>1. CASE InsertPermissions(t)
  <2>1. r.names \in SUBSET PermissionNames
    BY <1>b, <1>1, Fields DEF InsertPermissions
  <2>2. CASE UNCHANGED permission
    BY <1>1, <1>h, <2>2 DEF InsertPermissions
  <2>3. CASE \E new \in SUBSET {p \in Permissions : permission[p] = Unborn} :
               \E name \in Bijection(new, r.names) :
                 permission' = [p \in Permissions |-> IF p \in new THEN name[p] ELSE permission[p]]
    <3>a. PICK new \in SUBSET Permissions :
            \E name \in Bijection(new, r.names) :
              permission' = [p \in Permissions |-> IF p \in new THEN name[p] ELSE permission[p]]
      BY <2>3
    <3>1. PICK name \in [new -> r.names] :
            permission' = [p \in Permissions |-> IF p \in new THEN name[p] ELSE permission[p]]
      BY <3>a DEF Bijection, Injection
    <3>2. permission' \in [Permissions -> PermissionNames \cup {Unborn, Gone}]
      BY <1>g, <2>1, <3>1
    <3>3. \A p \in Permissions : permission[p] \in PermissionNames => permission'[p] \in PermissionNames
      BY <2>1, <3>1
    <3>4. UNCHANGED <<user, role, holds, grants, cache>> /\ Become(t, Idle)
      BY <1>1 DEF InsertPermissions
    <3>5. \A g \in grants' : permission'[g[2]] \in PermissionNames
      BY <1>f, <3>3, <3>4
    <3> QED BY <1>c, <1>e, <3>2, <3>4, <3>5
  <2> QED BY <1>1, <2>2, <2>3 DEF InsertPermissions
<1>2. CASE CommitPermission(t)
  <2> DEFINE p == r.permission
  <2>1. p \in Permissions /\ r.name \in PermissionNames
    BY <1>b, <1>2, Fields DEF CommitPermission
  <2>2. CASE UNCHANGED permission /\ Become(t, Idle)
    BY <1>2, <1>h, <2>2 DEF CommitPermission
  <2>3. CASE permission' = [permission EXCEPT ![p] = r.name] /\ Become(t, FindRoles(p, None))
    <3>1. /\ permission' \in [Permissions -> PermissionNames \cup {Unborn, Gone}]
          /\ \A q \in Permissions : permission[q] \in PermissionNames => permission'[q] \in PermissionNames
      BY <1>g, <2>1, <2>3
    <3>2. UNCHANGED <<user, role, holds, grants, cache>>
      BY <1>2 DEF CommitPermission
    <3>3. \A g \in grants' : permission'[g[2]] \in PermissionNames
      BY <1>f, <3>1, <3>2
    <3>4. None \in Victims
      BY DEF Victims
    <3>5. FindRoles(p, None) \in Continuation /\ FindRoles(p, None).pc = "findRoles"
      BY <2>1, <3>4, HolderConstructors DEF FindRoles
    <3> QED BY <1>e, <2>3, <3>1, <3>2, <3>3, <3>5
  <2> QED BY <1>2, <2>2, <2>3 DEF CommitPermission
<1>3. CASE CommitPermissionDelete(t)
  <2> DEFINE p == r.victim
  <2>1. p \in Permissions /\ r.users \in SUBSET Users
    BY <1>b, <1>3, Fields DEF CommitPermissionDelete
  <2>2. CASE UNCHANGED <<permission, grants>> /\ Become(t, Idle)
    BY <1>3, <1>h, <2>2 DEF CommitPermissionDelete
  <2>3. CASE /\ permission' = [permission EXCEPT ![p] = Gone]
             /\ grants' = {g \in grants : g[2] # p}
             /\ Become(t, Forget(r.users, Idle))
    <3>1. /\ permission' \in [Permissions -> PermissionNames \cup {Unborn, Gone}]
          /\ \A q \in Permissions : q # p => permission'[q] = permission[q]
      BY <1>g, <2>1, <2>3
    <3>2. \A g \in grants' : permission'[g[2]] \in PermissionNames
      BY <1>f, <2>3, <3>1
    <3>3. Forget(r.users, Idle) \in Continuation /\ Forget(r.users, Idle).pc = "forget"
      BY <2>1, Constructors DEF Forget
    <3>4. UNCHANGED <<user, role, holds, cache>> /\ grants' \in SUBSET grants
      BY <1>3, <2>3 DEF CommitPermissionDelete
    <3> QED BY <1>e, <2>3, <3>1, <3>2, <3>3, <3>4
  <2> QED BY <1>3, <2>2, <2>3 DEF CommitPermissionDelete
<1> QED BY <1>1, <1>2, <1>3

-----------------------------------------------------------------------------
LEMMA InitEstablishes == Init => IInv
<1> SUFFICES ASSUME Init PROVE IInv
  OBVIOUS
<1>1. TypeOK
  BY SeedIsConsistent, Constructors DEF Init, TypeOK
<1>2. \A t \in Tasks : Known(req[t])
  BY Constructors, TailKnown DEF Init
<1>3. NoDanglingIds
  BY <1>2, SeedIsConsistent DEF Init, NoDanglingIds, RoleExists, PermissionExists
<1> QED BY <1>1, <1>3 DEF IInv

LEMMA StepKeeps == ASSUME IInv, [Next]_vars PROVE IInv'
<1>1. CASE UNCHANGED vars
  BY <1>1 DEF vars, IInv, TypeOK, NoDanglingIds, Known, RoleExists, PermissionExists
<1>2. ASSUME NEW t \in Tasks, Request(t) PROVE IInv'
  BY <1>2, RequestKeeps
<1>3. ASSUME NEW t \in Tasks, Continue(t) PROVE IInv'
  BY <1>3, LookupKeeps, CheckKeeps, CacheWriteKeeps, UserWriteKeeps, RoleWriteKeeps,
     PermissionWriteKeeps DEF Continue
<1>4. ASSUME NEW t \in Tasks, Crash(t) PROVE IInv'
  BY <1>4, CacheWriteKeeps
<1>5. ASSUME NEW u \in Users, Expire(u) PROVE IInv'
  BY <1>5, ExpireKeeps
<1> QED BY <1>1, <1>2, <1>3, <1>4, <1>5 DEF Next

LEMMA InvariantHolds == Spec => []IInv
BY InitEstablishes, StepKeeps, PTL DEF Spec

(* Every table, the cache and every handler in flight keep their types: in *)
(* particular no null and no name of a deleted row is ever cached.         *)
THEOREM TypeCorrect == Spec => []TypeOK
<1>1. IInv => TypeOK
  BY DEF IInv
<1> QED BY <1>1, InvariantHolds, PTL

(* Neither the join tables nor the cache nor a handler in flight ever name *)
(* a row that does not exist.                                              *)
THEOREM NothingDangles == Spec => []NoDanglingIds
<1>1. IInv => NoDanglingIds
  BY DEF IInv
<1> QED BY <1>1, InvariantHolds, PTL

-----------------------------------------------------------------------------
(* A step makes no orphan of u's entry when it leaves alone the rows u's   *)
(* identity is computed from, the entry itself, and what is owed to u.     *)
LEMMA ViewKept ==
  ASSUME IInv, NEW u \in Users, NEW t \in Tasks,
         user'[u] = user[u], cache'[u] = cache[u],
         \A r \in Roles : <<u, r>> \in holds' <=> <<u, r>> \in holds,
         \A r \in Roles : <<u, r>> \in holds =>
           /\ role'[r] = role[r]
           /\ \A p \in Permissions : /\ <<r, p>> \in grants' <=> <<r, p>> \in grants
                                     /\ <<r, p>> \in grants => permission'[p] = permission[p],
         \A s \in Tasks \ {t} : req'[s] = req[s],
         u \in Owed(t) => (u \in Owed(t))'
  PROVE  Orphan(u)' => Orphan(u)
<1>1. RolesHeldBy(u)' = RolesHeldBy(u)
  BY DEF RolesHeldBy
<1>2. RoleNamesOf(RolesHeldBy(u))' = RoleNamesOf(RolesHeldBy(u))
  BY ZenonT(60) DEF RolesHeldBy, RoleNamesOf
<1>3. PermissionNamesOf(RolesHeldBy(u))' = PermissionNamesOf(RolesHeldBy(u))
  BY ZenonT(60) DEF RolesHeldBy, PermissionNamesOf
<1>4. Info(u)' = Info(u)
  BY <1>2, <1>3 DEF Info, Active, Live
<1>5. ASSUME NEW s \in Tasks, u \in Owed(s) PROVE (u \in Owed(s))'
  <2>1. CASE s = t
    BY <1>5, <2>1
  <2>2. CASE s # t
    <3>1. req'[s] = req[s] /\ req[s] \in Continuation
      BY <2>2 DEF IInv, TypeOK
    <3>2. req[s].pc = "findHolders" => req[s].roles \in SUBSET Roles
      BY <3>1, Fields
    <3>3. req[s].pc = "findRoles" => req[s].permission \in Permissions
      BY <3>1, Fields
    <3>4. CASE req[s].pc = "forget"
      BY <1>5, <3>1, <3>4 DEF Owed
    <3>5. CASE req[s].pc = "findHolders"
      BY <1>5, <3>1, <3>2, <3>5 DEF Owed, Holders
    <3>6. CASE req[s].pc = "findRoles"
      BY <1>5, <3>1, <3>3, <3>6 DEF Owed, Holders, RolesGranting
    <3> QED BY <1>5, <3>4, <3>5, <3>6 DEF Owed
  <2> QED BY <2>1, <2>2
<1> QED BY <1>4, <1>5 DEF Orphan

(* The same for the steps that write no row at all.                        *)
LEMMA RowsKept ==
  ASSUME IInv, NEW u \in Users, NEW t \in Tasks, UNCHANGED db, cache'[u] = cache[u],
         \A s \in Tasks \ {t} : req'[s] = req[s],
         u \in Owed(t) => (u \in Owed(t))'
  PROVE  Orphan(u)' => Orphan(u)
BY ViewKept DEF db

(* What the causes are, for one step of task t.                            *)
Caused(u) == \E t \in Tasks : SetLate(t, u) \/ DropLost(t, u) \/ HolderMissed(t, u)

(* Only three continuations owe anything.                                  *)
LEMMA OnlyDropsOwe ==
  ASSUME NEW t \in Tasks, req[t].pc \notin {"forget", "findHolders", "findRoles"}
  PROVE  Owed(t) = {}
BY DEF Owed

LEMMA OthersStay ==
  ASSUME IInv, NEW t \in Tasks, NEW r, Become(t, r)
  PROVE  req'[t] = r /\ \A s \in Tasks \ {t} : req'[s] = req[s]
BY DEF IInv, TypeOK, Become

LEMMA RequestOrphansNone ==
  ASSUME IInv, NEW t \in Tasks, Request(t), NEW u \in Users PROVE Orphan(u)' => Orphan(u)
<1>1. PICK op, r : Arrive(t, op, r)
  BY DEF Request, Authenticate, Login, Refresh, ChangePassword, UpdateProfile, CreateUser,
         UpdateUser, DeleteUser, CreateRole, UpdateRole, DeleteRole, CreatePermissions,
         UpdatePermission, DeletePermission
<1>2. Become(t, r) /\ req[t].pc = "idle" /\ UNCHANGED <<db, cache>>
  BY <1>1 DEF Arrive, Idle
<1>3. Owed(t) = {}
  BY <1>2, OnlyDropsOwe
<1> QED BY <1>2, <1>3, RowsKept, OthersStay

LEMMA ReadOrphansNone ==
  ASSUME IInv, NEW t \in Tasks, NEW u \in Users,
         \/ CacheHit(t) \/ CacheMiss(t) \/ FindUser(t) \/ FindRolesHeld(t) \/ FindGrants(t)
         \/ AssertRolesExist(t) \/ AssertNameAvailable(t) \/ AssertPermissionsExist(t)
         \/ AssertLabelAvailable(t)
  PROVE  Orphan(u)' => Orphan(u)
<1>1. UNCHANGED <<db, cache>> /\ \E r : Become(t, r)
  BY DEF CacheHit, CacheMiss, FindUser, FindRolesHeld, FindGrants, AssertRolesExist,
         AssertNameAvailable, AssertPermissionsExist, AssertLabelAvailable
<1>2. req[t].pc \notin {"forget", "findHolders", "findRoles"}
  BY DEF CacheHit, CacheMiss, FindUser, FindRolesHeld, FindGrants, AssertRolesExist,
         AssertNameAvailable, AssertPermissionsExist, AssertLabelAvailable
<1>3. Owed(t) = {}
  BY <1>2, OnlyDropsOwe
<1> QED BY <1>1, <1>3, RowsKept, OthersStay

(* Collecting the holders hands the debt on: who is owed before the read   *)
(* is among those it finds.                                                *)
LEMMA CollectOrphansNone ==
  ASSUME IInv, NEW t \in Tasks, NEW u \in Users, FindRoleIds(t) \/ FindHolderIds(t)
  PROVE  Orphan(u)' => Orphan(u)
<1>1. CASE FindRoleIds(t)
  <2> DEFINE next == FindHolders(RolesGranting(req[t].permission), req[t].victim)
  <2>1. UNCHANGED <<db, cache>> /\ Become(t, next)
    BY <1>1 DEF FindRoleIds
  <2>2. req'[t] = next /\ \A s \in Tasks \ {t} : req'[s] = req[s]
    BY <2>1, OthersStay
  <2>3. u \in Owed(t) => u \in Holders(RolesGranting(req[t].permission)) /\ req[t].victim = None
    BY <1>1 DEF FindRoleIds, Owed
  <2>4. u \in Owed(t) => (u \in Owed(t))'
    BY <2>1, <2>2, <2>3 DEF Owed, FindHolders, Holders, db
  <2> QED BY <2>1, <2>2, <2>4, RowsKept
<1>2. CASE FindHolderIds(t)
  <2> DEFINE us == Holders(req[t].roles)
  <2>1. UNCHANGED <<db, cache>> /\ \E r : Become(t, r)
    BY <1>2 DEF FindHolderIds
  <2>2. u \in Owed(t) => u \in us /\ req[t].victim = None
    BY <1>2 DEF FindHolderIds, Owed
  <2>3. u \in Owed(t) => req'[t] = Forget(us, Idle)
    BY <1>2, <2>2, OthersStay DEF FindHolderIds
  <2>4. u \in Owed(t) => (u \in Owed(t))'
    BY <2>2, <2>3 DEF Owed, Forget
  <2> QED BY <2>1, <2>4, RowsKept, OthersStay
<1> QED BY <1>1, <1>2

LEMMA CacheWriteOrphans ==
  ASSUME IInv, NEW t \in Tasks, NEW u \in Users, ~Orphan(u), Orphan(u)',
         CacheSet(t) \/ ForgetUsers(t) \/ ForgetLost(t) \/ Crash(t)
  PROVE  Caused(u)
<1>1. CASE CacheSet(t)
  <2>1. UNCHANGED db /\ req[t].pc = "cacheSet" /\ Become(t, Idle)
    BY <1>1 DEF CacheSet
  <2>2. CASE cache'[u] = cache[u]
    BY <2>1, <2>2, RowsKept, OthersStay, OnlyDropsOwe
  <2>3. CASE cache'[u] # cache[u]
    <3>1. req[t].user = u /\ cache'[u] = req[t].info
      BY <1>1, <2>3 DEF CacheSet, IInv, TypeOK
    <3>2. Info(u)' = Info(u)
      BY <2>1 DEF db, Info, Active, Live, RolesHeldBy, RoleNamesOf, PermissionNamesOf
    <3>3. req[t].info # Info(u)
      BY <3>1, <3>2 DEF Orphan
    <3> QED BY <1>1, <3>1, <3>3 DEF Caused, SetLate
  <2> QED BY <2>2, <2>3
<1>2. CASE ForgetUsers(t)
  <2>1. u \notin req[t].users /\ cache'[u] = cache[u]
    BY <1>2 DEF ForgetUsers, Orphan
  <2>2. u \notin Owed(t)
    BY <1>2, <2>1 DEF ForgetUsers, Owed
  <2>3. UNCHANGED db /\ Become(t, req[t].then)
    BY <1>2 DEF ForgetUsers
  <2> QED BY <2>1, <2>2, <2>3, RowsKept, OthersStay
<1>3. CASE ForgetLost(t) \/ Crash(t)
  <2>1. UNCHANGED <<db, cache>> /\ \E r : Become(t, r)
    BY <1>3 DEF ForgetLost, Crash
  <2>2. u \in Owed(t)
    BY <2>1, RowsKept, OthersStay
  <2> QED BY <1>3, <2>2 DEF Caused, DropLost
<1> QED BY <1>1, <1>2, <1>3

(* A write to one user row leaves every other user's view alone, and the   *)
(* writer owes that user; a new user's identity was never cached.          *)
LEMMA UserWriteOrphansNone ==
  ASSUME IInv, NEW t \in Tasks, NEW u \in Users, ~Orphan(u),
         InsertUser(t) \/ CommitUser(t) \/ CommitProfile(t) \/ CommitDelete(t)
  PROVE  ~Orphan(u)'
<1> DEFINE r == req[t]
           v == r.user
<1>a. r \in Continuation
  BY DEF IInv, TypeOK
<1>b. r.pc \in {"saveUser", "saveProfile", "softDelete"}
  BY DEF InsertUser, CommitUser, CommitProfile, CommitDelete
<1>c. Owed(t) = {}
  BY <1>b, OnlyDropsOwe
<1>d. /\ UNCHANGED <<role, permission, grants, cache>>
      /\ \E x : Become(t, x)
  BY DEF InsertUser, CommitUser, CommitProfile, CommitDelete
<1>e. \A s \in Tasks \ {t} : req'[s] = req[s]
  BY <1>d, OthersStay
<1>f. ASSUME user'[u] = user[u], \A x \in Roles : <<u, x>> \in holds' <=> <<u, x>> \in holds
      PROVE  ~Orphan(u)'
  BY <1>c, <1>d, <1>e, <1>f, ViewKept
<1>g. ASSUME NEW x, Become(t, Forget({u}, x)) PROVE ~Orphan(u)'
  <2>1. req'[t] = Forget({u}, x)
    BY <1>g, OthersStay
  <2>2. (u \in Owed(t))'
    BY <2>1 DEF Owed, Forget
  <2> QED BY <2>2 DEF Orphan
<1>1. CASE InsertUser(t)
  <2>1. CASE UNCHANGED <<user, holds>>
    BY <1>f, <2>1
  <2>2. CASE \E w \in Users : /\ user[w] = Unborn
                              /\ user' = [user EXCEPT ![w] = [status |-> r.row.status, deleted |-> FALSE,
                                                              profile |-> r.row.profile]]
                              /\ holds' = holds \cup ({w} \X r.roles)
    <3>1. PICK w \in Users : /\ user[w] = Unborn
                             /\ user' = [user EXCEPT ![w] = [status |-> r.row.status, deleted |-> FALSE,
                                                             profile |-> r.row.profile]]
                             /\ holds' = holds \cup ({w} \X r.roles)
      BY <2>2
    <3>2. CASE w = u
      BY <1>d, <3>1, <3>2 DEF Orphan, IInv, NoDanglingIds
    <3>3. CASE w # u
      BY <1>f, <3>1, <3>3 DEF IInv, TypeOK
    <3> QED BY <3>2, <3>3
  <2> QED BY <1>1, <2>1, <2>2 DEF InsertUser
<1>2. CASE CommitUser(t)
  <2>1. CASE UNCHANGED <<user, holds>>
    BY <1>f, <2>1
  <2>2. CASE /\ user' = [user EXCEPT ![v].status = r.row.status, ![v].profile = r.row.profile]
             /\ holds' = {h \in holds : h[1] # v} \cup ({v} \X r.roles)
             /\ Become(t, Forget({v}, Idle))
    <3>1. CASE v = u
      BY <1>g, <2>2, <3>1
    <3>2. CASE v # u
      <4>1. user'[u] = user[u]
        BY <2>2, <3>2 DEF IInv, TypeOK
      <4>2. \A x \in Roles : <<u, x>> \in holds' <=> <<u, x>> \in holds
        BY <2>2, <3>2
      <4> QED BY <1>f, <4>1, <4>2
    <3> QED BY <3>1, <3>2
  <2> QED BY <1>2, <2>1, <2>2 DEF CommitUser
<1>3. CASE CommitProfile(t)
  <2>1. CASE v = u
    BY <1>3, <1>g, <2>1 DEF CommitProfile
  <2>2. CASE v # u
    BY <1>3, <1>f, <2>2 DEF CommitProfile, IInv, TypeOK
  <2> QED BY <2>1, <2>2
<1>4. CASE CommitDelete(t)
  <2>1. CASE v = u
    BY <1>4, <1>g, <2>1 DEF CommitDelete
  <2>2. CASE v # u
    BY <1>4, <1>f, <2>2 DEF CommitDelete, IInv, TypeOK
  <2> QED BY <2>1, <2>2
<1> QED BY <1>1, <1>2, <1>3, <1>4

(* A role that is created has no holder yet; the update of a role owes     *)
(* every holder it has when it commits; its delete owes those read before. *)
LEMMA RoleWriteOrphans ==
  ASSUME IInv, NEW t \in Tasks, NEW u \in Users, ~Orphan(u), Orphan(u)',
         InsertRole(t) \/ CommitRole(t) \/ CommitRoleDelete(t)
  PROVE  Caused(u)
<1> DEFINE r == req[t]
<1>a. r \in Continuation
  BY DEF IInv, TypeOK
<1>b. r.pc \in {"saveRole", "deleteRow"}
  BY DEF InsertRole, CommitRole, CommitRoleDelete
<1>c. Owed(t) = {}
  BY <1>b, OnlyDropsOwe
<1>d. UNCHANGED <<user, permission, cache>> /\ \E x : Become(t, x)
  BY DEF InsertRole, CommitRole, CommitRoleDelete
<1>e. \A s \in Tasks \ {t} : req'[s] = req[s]
  BY <1>d, OthersStay
<1>f. ASSUME \A x \in Roles : <<u, x>> \in holds' <=> <<u, x>> \in holds,
             \A x \in Roles : <<u, x>> \in holds =>
               /\ role'[x] = role[x]
               /\ \A p \in Permissions : <<x, p>> \in grants' <=> <<x, p>> \in grants
      PROVE  FALSE
  BY <1>c, <1>d, <1>e, <1>f, ViewKept
<1>g. (u \notin Owed(t))'
  BY DEF Orphan
<1>1. CASE InsertRole(t)
  <2>1. CASE UNCHANGED <<role, grants>>
    BY <1>1, <1>f, <2>1 DEF InsertRole
  <2>2. CASE \E y \in Roles : /\ role[y] = Unborn
                              /\ role' = [role EXCEPT ![y] = r.name]
                              /\ grants' = grants \cup ({y} \X r.permissions)
    <3>1. PICK y \in Roles : /\ role[y] = Unborn
                             /\ role' = [role EXCEPT ![y] = r.name]
                             /\ grants' = grants \cup ({y} \X r.permissions)
      BY <2>2
    <3>2. <<u, y>> \notin holds
      BY <3>1, IdsAreDistinct DEF IInv, NoDanglingIds, RoleExists
    <3>3. \A x \in Roles : <<u, x>> \in holds => x # y
      BY <3>2
    <3>4. \A x \in Roles : <<u, x>> \in holds =>
               /\ role'[x] = role[x]
               /\ \A p \in Permissions : <<x, p>> \in grants' <=> <<x, p>> \in grants
      BY <3>1, <3>3 DEF IInv, TypeOK
    <3> QED BY <1>1, <1>f, <3>4 DEF InsertRole
  <2> QED BY <1>1, <2>1, <2>2 DEF InsertRole
<1>2. CASE CommitRole(t)
  <2> DEFINE y == r.role
  <2>0. y \in Roles /\ holds' = holds
    BY <1>a, <1>2, Fields DEF CommitRole
  <2>1. CASE UNCHANGED <<role, grants>>
    BY <1>f, <2>0, <2>1
  <2>2. CASE /\ role' = [role EXCEPT ![y] = r.name]
             /\ grants' = {g \in grants : g[1] # y} \cup ({y} \X r.permissions)
             /\ Become(t, FindHolders({y}, None))
    <3>1. CASE <<u, y>> \in holds
      <4>1. req'[t] = FindHolders({y}, None)
        BY <2>2, OthersStay
      <4>2. (u \in Owed(t))'
        BY <2>0, <3>1, <4>1 DEF Owed, FindHolders, Holders
      <4> QED BY <1>g, <4>2
    <3>2. CASE <<u, y>> \notin holds
      <4>1. \A x \in Roles : <<u, x>> \in holds => x # y
        BY <3>2
      <4>2. \A x \in Roles : <<u, x>> \in holds =>
               /\ role'[x] = role[x]
               /\ \A p \in Permissions : <<x, p>> \in grants' <=> <<x, p>> \in grants
        BY <2>2, <4>1 DEF IInv, TypeOK
      <4> QED BY <1>f, <2>0, <4>2
    <3> QED BY <3>1, <3>2
  <2> QED BY <1>2, <2>1, <2>2 DEF CommitRole
<1>3. CASE CommitRoleDelete(t)
  <2> DEFINE y == r.victim
  <2>1. CASE UNCHANGED <<role, holds, grants>>
    BY <1>f, <2>1
  <2>2. CASE Become(t, Forget(r.users, Idle))
    <3>1. req'[t] = Forget(r.users, Idle)
      BY <2>2, OthersStay
    <3>2. u \notin r.users
      BY <1>g, <3>1 DEF Owed, Forget
    <3> QED BY <1>3, <3>2 DEF Caused, HolderMissed
  <2> QED BY <1>3, <2>1, <2>2 DEF CommitRoleDelete
<1> QED BY <1>1, <1>2, <1>3

(* Likewise for permissions and the users that hold them through a role.   *)
LEMMA PermissionWriteOrphans ==
  ASSUME IInv, NEW t \in Tasks, NEW u \in Users, ~Orphan(u), Orphan(u)',
         InsertPermissions(t) \/ CommitPermission(t) \/ CommitPermissionDelete(t)
  PROVE  Caused(u)
<1> DEFINE r == req[t]
<1>a. r \in Continuation
  BY DEF IInv, TypeOK
<1>b. r.pc \in {"addPermissions", "renamePermission", "deleteRow"}
  BY DEF InsertPermissions, CommitPermission, CommitPermissionDelete
<1>c. Owed(t) = {}
  BY <1>b, OnlyDropsOwe
<1>d. UNCHANGED <<user, role, holds, cache>> /\ \E x : Become(t, x)
  BY DEF InsertPermissions, CommitPermission, CommitPermissionDelete
<1>e. \A s \in Tasks \ {t} : req'[s] = req[s]
  BY <1>d, OthersStay
<1>f. ASSUME grants' = grants,
             \A x \in Roles, p \in Permissions :
               <<u, x>> \in holds /\ <<x, p>> \in grants => permission'[p] = permission[p]
      PROVE  FALSE
  BY <1>c, <1>d, <1>e, <1>f, ViewKept
<1>g. (u \notin Owed(t))'
  BY DEF Orphan
<1>1. CASE InsertPermissions(t)
  <2>1. CASE UNCHANGED permission
    BY <1>1, <1>f, <2>1 DEF InsertPermissions
  <2>2. CASE \E new \in SUBSET {p \in Permissions : permission[p] = Unborn} :
               \E name \in Bijection(new, r.names) :
                 permission' = [p \in Permissions |-> IF p \in new THEN name[p] ELSE permission[p]]
    <3>1. PICK new \in SUBSET {p \in Permissions : permission[p] = Unborn} :
            \E name : permission' = [p \in Permissions |-> IF p \in new THEN name[p] ELSE permission[p]]
      BY <2>2
    <3>2. \A x \in Roles, p \in Permissions : <<x, p>> \in grants => permission[p] # Unborn
      BY IdsAreDistinct DEF IInv, NoDanglingIds, PermissionExists
    <3>3. \A p \in Permissions : permission[p] # Unborn => permission'[p] = permission[p]
      BY <3>1
    <3> QED BY <1>1, <1>f, <3>2, <3>3 DEF InsertPermissions
  <2> QED BY <1>1, <2>1, <2>2 DEF InsertPermissions
<1>2. CASE CommitPermission(t)
  <2> DEFINE q == r.permission
  <2>0. grants' = grants
    BY <1>2 DEF CommitPermission
  <2>1. CASE UNCHANGED permission
    BY <1>f, <2>0, <2>1
  <2>2. CASE permission' = [permission EXCEPT ![q] = r.name] /\ Become(t, FindRoles(q, None))
    <3>1. CASE \E x \in Roles : <<u, x>> \in holds /\ <<x, q>> \in grants
      <4>1. req'[t] = FindRoles(q, None)
        BY <2>2, OthersStay
      <4>2. (u \in Owed(t))'
        BY <1>d, <2>0, <3>1, <4>1 DEF Owed, FindRoles, Holders, RolesGranting
      <4> QED BY <1>g, <4>2
    <3>2. CASE ~\E x \in Roles : <<u, x>> \in holds /\ <<x, q>> \in grants
      <4>1. \A p \in Permissions : p # q => permission'[p] = permission[p]
        BY <2>2 DEF IInv, TypeOK
      <4> QED BY <1>f, <2>0, <3>2, <4>1
    <3> QED BY <3>1, <3>2
  <2> QED BY <1>2, <2>1, <2>2 DEF CommitPermission
<1>3. CASE CommitPermissionDelete(t)
  <2>1. CASE UNCHANGED <<permission, grants>>
    BY <1>f, <2>1
  <2>2. CASE Become(t, Forget(r.users, Idle))
    <3>1. req'[t] = Forget(r.users, Idle)
      BY <2>2, OthersStay
    <3>2. u \notin r.users
      BY <1>g, <3>1 DEF Owed, Forget
    <3> QED BY <1>3, <3>2 DEF Caused, HolderMissed
  <2> QED BY <1>3, <2>1, <2>2 DEF CommitPermissionDelete
<1> QED BY <1>1, <1>2, <1>3

(* One step of the system: an entry becomes an orphan only for a cause.    *)
LEMMA OrphanHasCause ==
  ASSUME IInv, Next, NEW u \in Users, ~Orphan(u), Orphan(u)' PROVE Caused(u)
<1>1. ASSUME NEW t \in Tasks, Request(t) PROVE Caused(u)
  BY <1>1, RequestOrphansNone
<1>2. ASSUME NEW t \in Tasks, Continue(t) PROVE Caused(u)
  BY <1>2, ReadOrphansNone, CollectOrphansNone, CacheWriteOrphans, UserWriteOrphansNone,
     RoleWriteOrphans, PermissionWriteOrphans DEF Continue
<1>3. ASSUME NEW t \in Tasks, Crash(t) PROVE Caused(u)
  BY <1>3, CacheWriteOrphans
<1>4. ASSUME NEW v \in Users, Expire(v) PROVE Caused(u)
  <2>1. cache'[u] = cache[u]
    BY <1>4 DEF Expire, Orphan, IInv, TypeOK
  <2>2. UNCHANGED <<db, req>>
    BY <1>4 DEF Expire
  <2>3. Info(u)' = Info(u)
    BY <2>2 DEF db, Info, Active, Live, RolesHeldBy, RoleNamesOf, PermissionNamesOf
  <2>4. \A t \in Tasks : Owed(t)' = Owed(t)
    BY <2>2 DEF db, Owed, Holders, RolesGranting
  <2> QED BY <2>1, <2>3, <2>4 DEF Orphan
<1> QED BY <1>1, <1>2, <1>3, <1>4 DEF Next

(* The main result: whatever the tables, the requests and their            *)
(* interleaving, a cached identity loses touch with the database without a *)
(* handler left to drop it only by a fill that raced a write, a DEL lost   *)
(* to Redis or to a crash, or a delete whose holders were read too early.  *)
THEOREM StaleOnlyByRaceHolds == Spec => StaleOnlyByRace
<1>1. ASSUME IInv, [Next]_vars
      PROVE  [\A u \in Users : ~Orphan(u) /\ Orphan(u)' =>
                \E t \in Tasks : SetLate(t, u) \/ DropLost(t, u) \/ HolderMissed(t, u)]_vars
  BY <1>1, OrphanHasCause DEF Caused
<1> QED BY <1>1, InvariantHolds, PTL DEF Spec, StaleOnlyByRace
==============================================================================
