------------------------------ MODULE TokenReuse ------------------------------
(***************************************************************************)
(* RefreshTokens with a history variable: which tokens have already been   *)
(* exchanged.  The code keeps no such record, and no step reads it.        *)
(***************************************************************************)
EXTENDS RefreshTokens

VARIABLE spent  \* the jtis exchanged for a new pair

(* The jtis of the pairs handed out by this step, and who exchanges what.  *)
HandedOut == {j \in Jtis : (token[j] = None /\ token'[j] # None) \/ j \in expired \ expired'}
Exchanges(t) == req[t].pc = "issue" /\ req'[t] = Idle /\ HandedOut # {}
Exchanged == {req[t].grant.from : t \in {s \in Tasks : Exchanges(s)}} \ {None}

ReuseSpec ==
  /\ Init /\ spent = {}
  /\ [][Next /\ spent' = (spent \ HandedOut) \cup Exchanged]_<<vars, spent>>

(* docs/SECURITY.md:31-32, "/auth/refresh accepts only the stored jti ...  *)
(* so a refresh token works once".                                         *)
TokenWorksOnce == [][Exchanged \cap spent = {}]_<<vars, spent>>
=============================================================================
