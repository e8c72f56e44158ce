--------------------------- MODULE MCRefreshTokens ---------------------------
(***************************************************************************)
(* Small instances of RefreshTokens for TLC.                               *)
(***************************************************************************)
EXTENDS RefreshTokens, TLC

AllOperations ==
  {"authenticate", "login", "refresh", "changePassword", "updateUser", "deleteUser"}

Alike == Permutations(Users) \cup Permutations(Tasks) \cup Permutations(Jtis)
=============================================================================
