----------------------------- MODULE MCHttpApi -----------------------------
(* Two clients at once, of different languages: one sends a request to     *)
(* every route, the other the few that race with it.                       *)
EXTENDS HttpApi, TLC

CONSTANTS c1, c2, u1

MCSends ==
  c1 :> (DOMAIN Routes \cup {"unmatched"}) @@ c2 :> {"user delete", "login"}

MCSpeaks == c1 :> "id" @@ c2 :> "en"

MCIdentities ==
  {[roles |-> {"superuser"}, permissions |-> {}],
   [roles |-> {"clerk"}, permissions |-> {"user list", "role edit"}]}
=============================================================================
