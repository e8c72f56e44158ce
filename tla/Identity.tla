------------------------------ MODULE Identity ------------------------------
(***************************************************************************)
(* The identity cache and everything that fills or drops it.               *)
(*                                                                         *)
(* PostgreSQL holds users, roles and permissions with the two join tables  *)
(* between them.  Redis holds, per user, the UserInformation computed from *)
(* those tables (key user:<id>, one hour).  Session.getUserInformation     *)
(* fills an entry, Session.forgetUsers and Session.revokeSessions drop it. *)
(* Every handler of the API that does one or the other is an operation     *)
(* here; a handler in flight is the continuation its task still has to     *)
(* run, and it moves one awaited call at a time, so the handlers           *)
(* interleave at exactly their awaits.                                     *)
(*                                                                         *)
(* The refresh-token half of revokeSessions is the module RefreshTokens'.  *)
(* Email addresses and their uniqueness belong to the account handlers:    *)
(* here a profile (name and email) is an opaque value, and a request that  *)
(* fails the email check is one that is not made.                          *)
(***************************************************************************)

EXTENDS Functions

CONSTANTS
  Users, Roles, Permissions,   \* the ids the database ever hands out
  RoleNames, PermissionNames,  \* the values of the two unique name columns
  Profiles,                    \* a user's name and email, as one value
  Tasks,                       \* the requests the API serves at one time
  Operations,                  \* the kinds of request clients make
  RedisFails,                  \* whether a Redis command may fail
  Crashes,                     \* whether a worker process may die
  Seed,                        \* the rows the seeder leaves
  None, Unborn, Gone           \* no value, an unused id, a deleted row

Status == {"ACTIVE", "INACTIVE"}

UserRow == [status : Status, deleted : BOOLEAN, profile : Profiles]

Information == [profile : Profiles,
                roles : SUBSET RoleNames,
                permissions : SUBSET PermissionNames]

ASSUME IdsAreDistinct ==
  /\ None \notin Users \cup Roles \cup Permissions \cup Information
  /\ Roles \cap Permissions = {}
  /\ Unborn \notin UserRow \cup RoleNames \cup PermissionNames
  /\ Gone \notin RoleNames \cup PermissionNames
  /\ Unborn # Gone

ASSUME SwitchesAreBoolean == RedisFails \in BOOLEAN /\ Crashes \in BOOLEAN

ASSUME SeedIsConsistent ==
  /\ Seed.user \in [Users -> UserRow \cup {Unborn}]
  /\ Seed.role \in [Roles -> RoleNames \cup {Unborn}]
  /\ Seed.permission \in [Permissions -> PermissionNames \cup {Unborn}]
  /\ Seed.holds \in SUBSET (Users \X Roles)
  /\ Seed.grants \in SUBSET (Roles \X Permissions)
  /\ \A h \in Seed.holds : Seed.user[h[1]] # Unborn /\ Seed.role[h[2]] # Unborn
  /\ \A g \in Seed.grants : Seed.role[g[1]] # Unborn /\ Seed.permission[g[2]] # Unborn

VARIABLES
  user,        \* the users table: a row, or Unborn
  role,        \* the roles table: the name, or Unborn, or Gone
  permission,  \* the permissions table, likewise
  holds,       \* the user_roles table: <<user, role>>
  grants,      \* the role_permissions table: <<role, permission>>
  cache,       \* Redis user:<id>: an Information, or None
  req          \* what each task has still to do

db == <<user, role, permission, holds, grants>>
vars == <<user, role, permission, holds, grants, cache, req>>

-----------------------------------------------------------------------------
(* The reads of the repositories.                                          *)

Live(u) == user[u] # Unborn /\ ~user[u].deleted
Active(u) == Live(u) /\ user[u].status = "ACTIVE"
RoleExists(r) == role[r] \in RoleNames
PermissionExists(p) == permission[p] \in PermissionNames

RolesHeldBy(u) == {r \in Roles : <<u, r>> \in holds}
Holders(rs) == {u \in Users : \E r \in rs : <<u, r>> \in holds}
RolesGranting(p) == {r \in Roles : <<r, p>> \in grants}
PermissionNamesOf(rs) == {permission[p] : p \in {q \in Permissions : \E r \in rs : <<r, q>> \in grants}}
RoleNamesOf(rs) == {role[r] : r \in rs}

(* What findUserInformation would answer if it ran at one instant.         *)
Info(u) ==
  IF Active(u)
  THEN [profile |-> user[u].profile,
        roles |-> RoleNamesOf(RolesHeldBy(u)),
        permissions |-> PermissionNamesOf(RolesHeldBy(u))]
  ELSE None

-----------------------------------------------------------------------------
(* Continuations: what a task runs after the await it is suspended at.     *)

Idle == [pc |-> "idle"]

(* Session.getUserInformation(u), by the call that comes next.  orElse is  *)
(* what the caller does about a null: "refuse" answers 401, "revoke" also  *)
(* drops the user's session, as AuthService.refresh does.                  *)
GetCached(u, e) == [pc |-> "cacheGet", user |-> u, orElse |-> e]
ReadUser(u, e) == [pc |-> "readUser", user |-> u, orElse |-> e]
ReadRoles(u, f) == [pc |-> "readRoles", user |-> u, profile |-> f]
ReadGrants(u, f, rs, ns) ==
  [pc |-> "readGrants", user |-> u, profile |-> f, held |-> rs, names |-> ns]
SetCached(u, i) == [pc |-> "cacheSet", user |-> u, info |-> i]

(* Session.forgetUsers(us), and what the handler does after it.            *)
Forget(us, then) == [pc |-> "forget", users |-> us, then |-> then]

(* The writes.  A None for the id is the create, otherwise the update.     *)
AssertRoles(u, row, rs) == [pc |-> "assertRoles", user |-> u, row |-> row, roles |-> rs]
SaveUser(u, row, rs) == [pc |-> "saveUser", user |-> u, row |-> row, roles |-> rs]
SaveProfile(u, f) == [pc |-> "saveProfile", user |-> u, profile |-> f]
SoftDelete(u) == [pc |-> "softDelete", user |-> u]
AssertName(r, n, ps) == [pc |-> "assertName", role |-> r, name |-> n, permissions |-> ps]
AssertPermissions(r, n, ps) ==
  [pc |-> "assertPermissions", role |-> r, name |-> n, permissions |-> ps]
SaveRole(r, n, ps) == [pc |-> "saveRole", role |-> r, name |-> n, permissions |-> ps]
AddPermissions(ns) == [pc |-> "addPermissions", names |-> ns]
AssertLabel(p, n) == [pc |-> "assertLabel", permission |-> p, name |-> n]
RenamePermission(p, n) == [pc |-> "renamePermission", permission |-> p, name |-> n]

(* The holders to forget.  victim is the role or permission that is        *)
(* deleted once they are known; None when the write is already done.       *)
FindRoles(p, victim) == [pc |-> "findRoles", permission |-> p, victim |-> victim]
FindHolders(rs, victim) == [pc |-> "findHolders", roles |-> rs, victim |-> victim]
DeleteRow(victim, us) == [pc |-> "deleteRow", victim |-> victim, users |-> us]

Victims == Roles \cup Permissions \cup {None}
Tail == {Idle} \cup [pc : {"cacheGet"}, user : Users, orElse : {"refuse", "revoke"}]

Continuation ==
  Tail
  \cup [pc : {"readUser"}, user : Users, orElse : {"refuse", "revoke"}]
  \cup [pc : {"readRoles"}, user : Users, profile : Profiles]
  \cup [pc : {"readGrants"}, user : Users, profile : Profiles,
        held : SUBSET Roles, names : SUBSET RoleNames]
  \cup [pc : {"cacheSet"}, user : Users, info : Information]
  \cup [pc : {"forget"}, users : SUBSET Users, then : Tail]
  \cup [pc : {"assertRoles", "saveUser"}, user : Users \cup {None},
        row : [status : Status, profile : Profiles], roles : SUBSET Roles]
  \cup [pc : {"saveProfile"}, user : Users, profile : Profiles]
  \cup [pc : {"softDelete"}, user : Users]
  \cup [pc : {"assertName", "assertPermissions", "saveRole"}, role : Roles \cup {None},
        name : RoleNames, permissions : SUBSET Permissions]
  \cup [pc : {"addPermissions"}, names : SUBSET PermissionNames]
  \cup [pc : {"assertLabel", "renamePermission"}, permission : Permissions,
        name : PermissionNames]
  \cup [pc : {"findRoles"}, permission : Permissions, victim : Victims]
  \cup [pc : {"findHolders"}, roles : SUBSET Roles, victim : Victims]
  \cup [pc : {"deleteRow"}, victim : Roles \cup Permissions, users : SUBSET Users]

Become(t, r) == req' = [req EXCEPT ![t] = r]

-----------------------------------------------------------------------------
Init ==
  /\ user = Seed.user
  /\ role = Seed.role
  /\ permission = Seed.permission
  /\ holds = Seed.holds
  /\ grants = Seed.grants
  /\ cache = [u \in Users |-> None]
  /\ req = [t \in Tasks |-> Idle]

(* A request arrives and its handler runs up to its second await: the      *)
(* first read of the handler is made here.  A request whose first read     *)
(* refuses it changes nothing and is left out.                             *)
Arrive(t, op, r) ==
  /\ op \in Operations
  /\ req[t] = Idle
  /\ Become(t, r)
  /\ UNCHANGED <<db, cache>>

Authenticate(t) ==
  \E u \in {v \in Users : user[v] # Unborn} : Arrive(t, "authenticate", GetCached(u, "refuse"))

Login(t) ==
  \E u \in {v \in Users : Active(v)} :
    Arrive(t, "login", Forget({u}, GetCached(u, "refuse")))

Refresh(t) ==
  \E u \in {v \in Users : user[v] # Unborn} :
    Arrive(t, "refresh", Forget({u}, GetCached(u, "revoke")))

(* The handlers that set a password: only their revokeSessions shows here. *)
ChangePassword(t) ==
  \E u \in {v \in Users : user[v] # Unborn} : Arrive(t, "changePassword", Forget({u}, Idle))

UpdateProfile(t) ==
  \E u \in {v \in Users : user[v] # Unborn}, f \in Profiles :
    Arrive(t, "updateProfile", SaveProfile(u, f))

CreateUser(t) ==
  \E row \in [status : Status, profile : Profiles], rs \in SUBSET Roles :
    Arrive(t, "createUser", AssertRoles(None, row, rs))

UpdateUser(t) ==
  \E u \in {v \in Users : Live(v)}, row \in [status : Status, profile : Profiles],
     rs \in SUBSET Roles :
    Arrive(t, "updateUser", AssertRoles(u, row, rs))

DeleteUser(t) ==
  \E u \in {v \in Users : Live(v)} : Arrive(t, "deleteUser", SoftDelete(u))

CreateRole(t) ==
  \E n \in RoleNames, ps \in SUBSET Permissions :
    Arrive(t, "createRole", AssertName(None, n, ps))

UpdateRole(t) ==
  \E r \in {s \in Roles : RoleExists(s)}, n \in RoleNames, ps \in SUBSET Permissions :
    Arrive(t, "updateRole", AssertName(r, n, ps))

DeleteRole(t) ==
  \E r \in {s \in Roles : RoleExists(s)} : Arrive(t, "deleteRole", FindHolders({r}, r))

CreatePermissions(t) ==
  \E ns \in (SUBSET PermissionNames) \ {{}} :
    /\ \A p \in Permissions : permission[p] \notin ns
    /\ Arrive(t, "createPermissions", AddPermissions(ns))

UpdatePermission(t) ==
  \E p \in {q \in Permissions : PermissionExists(q)}, n \in PermissionNames :
    Arrive(t, "updatePermission", AssertLabel(p, n))

DeletePermission(t) ==
  \E p \in {q \in Permissions : PermissionExists(q)} :
    Arrive(t, "deletePermission", FindRoles(p, p))

-----------------------------------------------------------------------------
(* Session.getUserInformation.  Cache.get answers null when Redis fails.   *)
CacheHit(t) ==
  /\ req[t].pc = "cacheGet"
  /\ cache[req[t].user] # None
  /\ Become(t, Idle)
  /\ UNCHANGED <<db, cache>>

CacheMiss(t) ==
  /\ req[t].pc = "cacheGet"
  /\ cache[req[t].user] = None \/ RedisFails
  /\ Become(t, ReadUser(req[t].user, req[t].orElse))
  /\ UNCHANGED <<db, cache>>

(* Mutant: the lookup selects the wrong column.                            *)
FindUserTakesStatus(t) ==
  LET u == req[t].user IN
  /\ req[t].pc = "readUser"
  /\ Become(t, IF Active(u) THEN ReadRoles(u, user[u].status) ELSE Idle)
  /\ UNCHANGED <<db, cache>>

(* Mutant: the lookup forgets that deletion is a flag beside the status.   *)
FindUserIgnoresDeletion(t) ==
  LET u == req[t].user IN
  /\ req[t].pc = "readUser"
  /\ Become(t, IF user[u].status = "ACTIVE" THEN ReadRoles(u, user[u].profile) ELSE Idle)
  /\ UNCHANGED <<db, cache>>

(* findUserInformation is one call and several SELECTs: the user, then its *)
(* roles, then their grants.                                               *)
FindUser(t) ==
  LET u == req[t].user IN
  /\ req[t].pc = "readUser"
  /\ Become(t, IF Active(u) THEN ReadRoles(u, user[u].profile)
               ELSE IF req[t].orElse = "revoke" THEN Forget({u}, Idle) ELSE Idle)
  /\ UNCHANGED <<db, cache>>

FindRolesHeld(t) ==
  LET u == req[t].user
      rs == RolesHeldBy(u) IN
  /\ req[t].pc = "readRoles"
  /\ Become(t, ReadGrants(u, req[t].profile, rs, RoleNamesOf(rs)))
  /\ UNCHANGED <<db, cache>>

FindGrants(t) ==
  LET r == req[t] IN
  /\ r.pc = "readGrants"
  /\ Become(t, SetCached(r.user, [profile |-> r.profile,
                                  roles |-> r.names,
                                  permissions |-> PermissionNamesOf(r.held)]))
  /\ UNCHANGED <<db, cache>>

CacheSet(t) ==
  /\ req[t].pc = "cacheSet"
  /\ \/ cache' = [cache EXCEPT ![req[t].user] = req[t].info]
     \/ RedisFails /\ cache' = cache
  /\ Become(t, Idle)
  /\ UNCHANGED db

(* Cache.deleteMany: one DEL, whose failure is logged and swallowed.       *)
ForgetUsers(t) ==
  /\ req[t].pc = "forget"
  /\ cache' = [u \in Users |-> IF u \in req[t].users THEN None ELSE cache[u]]
  /\ Become(t, req[t].then)
  /\ UNCHANGED db

ForgetLost(t) ==
  /\ req[t].pc = "forget"
  /\ RedisFails
  /\ Become(t, req[t].then)
  /\ UNCHANGED <<db, cache>>

-----------------------------------------------------------------------------
(* The writes of users.                                                    *)

AssertRolesExist(t) ==
  LET r == req[t] IN
  /\ r.pc = "assertRoles"
  /\ Become(t, IF \A x \in r.roles : RoleExists(x) THEN SaveUser(r.user, r.row, r.roles) ELSE Idle)
  /\ UNCHANGED <<db, cache>>

(* UserRepository.create: the id is new; a role that is gone fails the     *)
(* foreign key and rolls the transaction back.  The three inserts also     *)
(* give up when the ids of the instance are used up: that is the bound.    *)
InsertUser(t) ==
  LET r == req[t] IN
  /\ r.pc = "saveUser"
  /\ r.user = None
  /\ Become(t, Idle)
  /\ \/ /\ \A x \in r.roles : RoleExists(x)
        /\ \E u \in {v \in Users : user[v] = Unborn} :
             /\ user' = [user EXCEPT ![u] = [status |-> r.row.status, deleted |-> FALSE,
                                             profile |-> r.row.profile]]
             /\ holds' = holds \cup ({u} \X r.roles)
     \/ /\ (\E x \in r.roles : ~RoleExists(x)) \/ (\A v \in Users : user[v] # Unborn)
        /\ UNCHANGED <<user, holds>>
  /\ UNCHANGED <<role, permission, grants, cache>>

(* Mutant: the update only ends the sessions of a user it deactivates.     *)
CommitUserForgetsInactive(t) ==
  LET r == req[t]
      u == r.user IN
  /\ r.pc = "saveUser"
  /\ u # None
  /\ \A x \in r.roles : RoleExists(x)
  /\ user' = [user EXCEPT ![u].status = r.row.status, ![u].profile = r.row.profile]
  /\ holds' = {h \in holds : h[1] # u} \cup ({u} \X r.roles)
  /\ Become(t, IF r.row.status = "ACTIVE" THEN Idle ELSE Forget({u}, Idle))
  /\ UNCHANGED <<role, permission, grants, cache>>

(* UserRepository.update keeps deletedAt, whatever it is by now.           *)
CommitUser(t) ==
  LET r == req[t]
      u == r.user IN
  /\ r.pc = "saveUser"
  /\ u # None
  /\ \/ /\ \A x \in r.roles : RoleExists(x)
        /\ user' = [user EXCEPT ![u].status = r.row.status, ![u].profile = r.row.profile]
        /\ holds' = {h \in holds : h[1] # u} \cup ({u} \X r.roles)
        /\ Become(t, Forget({u}, Idle))
     \/ /\ \E x \in r.roles : ~RoleExists(x)
        /\ Become(t, Idle)
        /\ UNCHANGED <<user, holds>>
  /\ UNCHANGED <<role, permission, grants, cache>>

CommitProfile(t) ==
  LET u == req[t].user IN
  /\ req[t].pc = "saveProfile"
  /\ user' = [user EXCEPT ![u].profile = req[t].profile]
  /\ Become(t, Forget({u}, GetCached(u, "refuse")))
  /\ UNCHANGED <<role, permission, holds, grants, cache>>

CommitDelete(t) ==
  LET u == req[t].user IN
  /\ req[t].pc = "softDelete"
  /\ user' = [user EXCEPT ![u].deleted = TRUE]
  /\ Become(t, Forget({u}, Idle))
  /\ UNCHANGED <<role, permission, holds, grants, cache>>

-----------------------------------------------------------------------------
(* The writes of roles.                                                    *)

RoleNameTaken(n, except) == \E r \in Roles \ {except} : role[r] = n

AssertNameAvailable(t) ==
  LET r == req[t] IN
  /\ r.pc = "assertName"
  /\ Become(t, IF RoleNameTaken(r.name, r.role) THEN Idle
               ELSE AssertPermissions(r.role, r.name, r.permissions))
  /\ UNCHANGED <<db, cache>>

AssertPermissionsExist(t) ==
  LET r == req[t] IN
  /\ r.pc = "assertPermissions"
  /\ Become(t, IF \A p \in r.permissions : PermissionExists(p)
               THEN SaveRole(r.role, r.name, r.permissions) ELSE Idle)
  /\ UNCHANGED <<db, cache>>

(* What the unique index and the foreign key still check at the commit.    *)
RoleAccepted(r) ==
  /\ ~RoleNameTaken(r.name, r.role)
  /\ \A p \in r.permissions : PermissionExists(p)

InsertRole(t) ==
  LET r == req[t] IN
  /\ r.pc = "saveRole"
  /\ r.role = None
  /\ Become(t, Idle)
  /\ \/ /\ RoleAccepted(r)
        /\ \E x \in {y \in Roles : role[y] = Unborn} :
             /\ role' = [role EXCEPT ![x] = r.name]
             /\ grants' = grants \cup ({x} \X r.permissions)
     \/ /\ ~RoleAccepted(r) \/ (\A y \in Roles : role[y] # Unborn)
        /\ UNCHANGED <<role, grants>>
  /\ UNCHANGED <<user, permission, holds, cache>>

CommitRole(t) ==
  LET r == req[t] IN
  /\ r.pc = "saveRole"
  /\ r.role # None
  /\ \/ /\ RoleExists(r.role)
        /\ RoleAccepted(r)
        /\ role' = [role EXCEPT ![r.role] = r.name]
        /\ grants' = {g \in grants : g[1] # r.role} \cup ({r.role} \X r.permissions)
        /\ Become(t, FindHolders({r.role}, None))
     \/ /\ ~(RoleExists(r.role) /\ RoleAccepted(r))
        /\ Become(t, Idle)
        /\ UNCHANGED <<role, grants>>
  /\ UNCHANGED <<user, permission, holds, cache>>

-----------------------------------------------------------------------------
(* The writes of permissions.                                              *)

LabelTaken(n, except) == \E p \in Permissions \ {except} : permission[p] = n

(* createMany is one INSERT: every name gets a new id, or, when one of     *)
(* them has been taken meanwhile, none does.                               *)
InsertPermissions(t) ==
  LET ns == req[t].names IN
  /\ req[t].pc = "addPermissions"
  /\ Become(t, Idle)
  /\ \/ /\ \A n \in ns : ~LabelTaken(n, None)
        /\ \E new \in SUBSET {p \in Permissions : permission[p] = Unborn} :
             \E name \in Bijection(new, ns) :
               permission' = [p \in Permissions |-> IF p \in new THEN name[p] ELSE permission[p]]
     \/ /\ \/ \E n \in ns : LabelTaken(n, None)
           \/ \A new \in SUBSET {p \in Permissions : permission[p] = Unborn} : ~ExistsBijection(new, ns)
        /\ UNCHANGED permission
  /\ UNCHANGED <<user, role, holds, grants, cache>>

AssertLabelAvailable(t) ==
  LET r == req[t] IN
  /\ r.pc = "assertLabel"
  /\ Become(t, IF LabelTaken(r.name, r.permission) THEN Idle
               ELSE RenamePermission(r.permission, r.name))
  /\ UNCHANGED <<db, cache>>

CommitPermission(t) ==
  LET p == req[t].permission
      n == req[t].name IN
  /\ req[t].pc = "renamePermission"
  /\ \/ /\ PermissionExists(p)
        /\ ~LabelTaken(n, p)
        /\ permission' = [permission EXCEPT ![p] = n]
        /\ Become(t, FindRoles(p, None))
     \/ /\ ~PermissionExists(p) \/ LabelTaken(n, p)
        /\ Become(t, Idle)
        /\ UNCHANGED permission
  /\ UNCHANGED <<user, role, holds, grants, cache>>

-----------------------------------------------------------------------------
(* Finding the holders, and the deletes that come after it.                *)

FindRoleIds(t) ==
  /\ req[t].pc = "findRoles"
  /\ Become(t, FindHolders(RolesGranting(req[t].permission), req[t].victim))
  /\ UNCHANGED <<db, cache>>

FindHolderIds(t) ==
  LET us == Holders(req[t].roles) IN
  /\ req[t].pc = "findHolders"
  /\ Become(t, IF req[t].victim = None THEN Forget(us, Idle) ELSE DeleteRow(req[t].victim, us))
  /\ UNCHANGED <<db, cache>>

(* Mutant: the delete leaves join rows behind.                             *)
CommitRoleDeleteNoCascade(t) ==
  LET r == req[t].victim IN
  /\ req[t].pc = "deleteRow"
  /\ r \in Roles
  /\ RoleExists(r)
  /\ role' = [role EXCEPT ![r] = Gone]
  /\ Become(t, Forget(req[t].users, Idle))
  /\ UNCHANGED <<user, permission, holds, grants, cache>>

(* The join rows go with the row; a row that is gone already is an error.  *)
CommitRoleDelete(t) ==
  LET r == req[t].victim IN
  /\ req[t].pc = "deleteRow"
  /\ r \in Roles
  /\ \/ /\ RoleExists(r)
        /\ role' = [role EXCEPT ![r] = Gone]
        /\ holds' = {h \in holds : h[2] # r}
        /\ grants' = {g \in grants : g[1] # r}
        /\ Become(t, Forget(req[t].users, Idle))
     \/ /\ ~RoleExists(r)
        /\ Become(t, Idle)
        /\ UNCHANGED <<role, holds, grants>>
  /\ UNCHANGED <<user, permission, cache>>

CommitPermissionDelete(t) ==
  LET p == req[t].victim IN
  /\ req[t].pc = "deleteRow"
  /\ p \in Permissions
  /\ \/ /\ PermissionExists(p)
        /\ permission' = [permission EXCEPT ![p] = Gone]
        /\ grants' = {g \in grants : g[2] # p}
        /\ Become(t, Forget(req[t].users, Idle))
     \/ /\ ~PermissionExists(p)
        /\ Become(t, Idle)
        /\ UNCHANGED <<permission, grants>>
  /\ UNCHANGED <<user, role, holds, cache>>

-----------------------------------------------------------------------------
(* Mutant: the entry is set without a TTL.                                 *)
NeverExpires(u) == FALSE /\ cache[u] # None /\ UNCHANGED vars

(* The environment: an entry reaches its TTL; a worker dies, and the       *)
(* request it served with it.                                              *)
Expire(u) ==
  /\ cache[u] # None
  /\ cache' = [cache EXCEPT ![u] = None]
  /\ UNCHANGED <<db, req>>

Crash(t) ==
  /\ Crashes
  /\ req[t] # Idle
  /\ Become(t, Idle)
  /\ UNCHANGED <<db, cache>>

Request(t) ==
  \/ Authenticate(t) \/ Login(t) \/ Refresh(t) \/ ChangePassword(t) \/ UpdateProfile(t)
  \/ CreateUser(t) \/ UpdateUser(t) \/ DeleteUser(t)
  \/ CreateRole(t) \/ UpdateRole(t) \/ DeleteRole(t)
  \/ CreatePermissions(t) \/ UpdatePermission(t) \/ DeletePermission(t)

Continue(t) ==
  \/ CacheHit(t) \/ CacheMiss(t) \/ FindUser(t) \/ FindRolesHeld(t) \/ FindGrants(t)
  \/ CacheSet(t) \/ ForgetUsers(t) \/ ForgetLost(t)
  \/ AssertRolesExist(t) \/ InsertUser(t) \/ CommitUser(t) \/ CommitProfile(t) \/ CommitDelete(t)
  \/ AssertNameAvailable(t) \/ AssertPermissionsExist(t) \/ InsertRole(t) \/ CommitRole(t)
  \/ InsertPermissions(t) \/ AssertLabelAvailable(t) \/ CommitPermission(t)
  \/ FindRoleIds(t) \/ FindHolderIds(t) \/ CommitRoleDelete(t) \/ CommitPermissionDelete(t)

Next ==
  \/ \E t \in Tasks : Request(t) \/ Continue(t) \/ Crash(t)
  \/ \E u \in Users : Expire(u)

Spec == Init /\ [][Next]_vars

Stores(t, u) == CacheSet(t) /\ req[t].user = u /\ cache'[u] = req[t].info

(* A handler that has started runs to its end, and an entry that is not    *)
(* set again expires.  That requests keep coming is never assumed.         *)
FairSpec ==
  /\ Spec
  /\ \A t \in Tasks : WF_vars(Continue(t))
  /\ \A u \in Users : WF_vars(Expire(u) \/ \E t \in Tasks : Stores(t, u))

-----------------------------------------------------------------------------
(* The type of every variable.                                             *)
TypeOK ==
  /\ user \in [Users -> UserRow \cup {Unborn}]
  /\ role \in [Roles -> RoleNames \cup {Unborn, Gone}]
  /\ permission \in [Permissions -> PermissionNames \cup {Unborn, Gone}]
  /\ holds \in SUBSET (Users \X Roles)
  /\ grants \in SUBSET (Roles \X Permissions)
  /\ cache \in [Users -> Information \cup {None}]
  /\ req \in [Tasks -> Continuation]

(* A handler that writes or caches a user works on one the database knows. *)
Known(r) ==
  r.pc \in {"readRoles", "readGrants", "cacheSet", "assertRoles", "saveUser", "saveProfile", "softDelete"}
    => r.user = None \/ user[r.user] # Unborn

(* Nothing names a row that does not exist: not the join tables, although  *)
(* the services check ids long before they insert the join rows and other  *)
(* handlers delete in between, nor the cache, nor a handler in flight.     *)
NoDanglingIds ==
  /\ \A h \in holds : user[h[1]] # Unborn /\ RoleExists(h[2])
  /\ \A g \in grants : RoleExists(g[1]) /\ PermissionExists(g[2])
  /\ \A u \in Users : cache[u] # None => user[u] # Unborn
  /\ \A t \in Tasks : Known(req[t])

(* The users task t is about to drop from the cache: those it has already  *)
(* collected, or those it would collect if it ran on now.                  *)
Owed(t) ==
  LET r == req[t] IN
  CASE r.pc = "forget" -> r.users
    [] r.pc = "findHolders" /\ r.victim = None -> Holders(r.roles)
    [] r.pc = "findRoles" /\ r.victim = None -> Holders(RolesGranting(r.permission))
    [] OTHER -> {}

(* An entry that no longer says what the database says, and that no        *)
(* handler in flight is going to drop: only the TTL will.                  *)
Orphan(u) ==
  /\ cache[u] # None
  /\ cache[u] # Info(u)
  /\ \A t \in Tasks : u \notin Owed(t)

(* The ways a handler can leave such an entry behind.                      *)
SetLate(t, u) == CacheSet(t) /\ req[t].user = u /\ req[t].info # Info(u)
DropLost(t, u) == u \in Owed(t) /\ (ForgetLost(t) \/ Crash(t))
HolderMissed(t, u) ==
  (CommitRoleDelete(t) \/ CommitPermissionDelete(t)) /\ u \notin req[t].users

(* "Any write that changes a user's status, roles, permissions,            *)
(* credentials or deletion calls forgetUsers or revokeSessions"            *)
(* (session.ts:7-12), for every interleaving: a cached identity loses      *)
(* touch with the database only by a fill that read before a write and set *)
(* after its DEL, by a DEL that Redis or a crash lost, or by a role or     *)
(* permission delete whose holders were read before somebody joined them.  *)
(* Whatever else happens, some handler still owes the entry's removal.     *)
StaleOnlyByRace ==
  [][\A u \in Users : ~Orphan(u) /\ Orphan(u)' =>
       \E t \in Tasks : SetLate(t, u) \/ DropLost(t, u) \/ HolderMissed(t, u)]_vars

(* A deleted user is gone for good: whatever fills are in flight at the    *)
(* delete and whatever Redis loses, from some time on no identity of the   *)
(* user is cached, so every later request is answered 401.                 *)
DeletedEventuallyForgotten ==
  \A u \in Users : [](user[u] # Unborn /\ user[u].deleted => <>[](cache[u] = None))

(* No write is in flight: only lookups are.                                *)
Quiet ==
  \A t \in Tasks : req[t].pc \in {"idle", "cacheGet", "readUser", "readRoles", "readGrants", "cacheSet"}

(* When the writes stop, the cache comes to agree with the database, and   *)
(* stays so, whatever races and faults there were before.                  *)
EventuallyCoherent ==
  <>[]Quiet => <>[](\A u \in Users : cache[u] \in {None, Info(u)})
=============================================================================
