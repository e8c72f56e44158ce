--------------------------- MODULE MCMailDelivery ---------------------------
(***************************************************************************)
(* A small instance of MailDelivery for TLC.                               *)
(***************************************************************************)
EXTENDS MailDelivery

VerificationOperations == {"register", "sendVerificationEmail", "verifyEmail"}
=============================================================================
