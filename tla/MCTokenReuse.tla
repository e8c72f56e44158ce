----------------------------- MODULE MCTokenReuse -----------------------------
(***************************************************************************)
(* A small instance of TokenReuse for TLC.                                 *)
(***************************************************************************)
EXTENDS TokenReuse, TLC

PasswordOperations == {"login", "refresh", "changePassword"}

Alike == Permutations(Tasks) \cup Permutations(Jtis)
=============================================================================
