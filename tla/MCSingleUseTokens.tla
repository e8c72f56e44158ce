-------------------------- MODULE MCSingleUseTokens --------------------------
(***************************************************************************)
(* Small instances of SingleUseTokens for TLC.                             *)
(***************************************************************************)
EXTENDS SingleUseTokens

AllOperations ==
  {"register", "resendVerification", "sendVerificationEmail", "forgotPassword",
   "verifyEmail", "resetPassword"}
=============================================================================
