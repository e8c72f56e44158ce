----------------------------- MODULE MCIdentity -----------------------------
(***************************************************************************)
(* Small instances of Identity for TLC: the ids, names and profiles the    *)
(* runs share, the seeds they start from and the operations they enable.   *)
(***************************************************************************)
EXTENDS Identity, TLC

CONSTANTS u1, u2, r1, r2, p1, p2, t1, t2, t3

AUser == [status |-> "ACTIVE", deleted |-> FALSE, profile |-> "ann"]

(* One user holding the one role, which grants the one permission.         *)
SeedUser ==
  [user |-> (u1 :> AUser),
   role |-> (r1 :> "admin"),
   permission |-> (p1 :> "user list"),
   holds |-> {<<u1, r1>>},
   grants |-> {<<r1, p1>>}]

(* u1, r1 and p1 are unused ids.                                           *)
SeedCatalogue ==
  [user |-> (u1 :> Unborn),
   role |-> (r1 :> Unborn),
   permission |-> (p1 :> Unborn),
   holds |-> {},
   grants |-> {}]

UserOperations ==
  {"authenticate", "login", "refresh", "changePassword", "updateProfile",
   "updateUser", "deleteUser"}
CatalogueOperations ==
  {"authenticate", "createUser", "updateUser", "createRole", "updateRole", "deleteRole",
   "createPermissions", "updatePermission", "deletePermission"}
RevocationOperations ==
  {"authenticate", "refresh", "updateProfile", "updateUser", "deleteUser", "updateRole"}
AllOperations == UserOperations \cup CatalogueOperations

Alike == Permutations(Tasks)
=============================================================================
