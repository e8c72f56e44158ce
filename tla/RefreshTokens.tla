---------------------------- MODULE RefreshTokens ----------------------------
(***************************************************************************)
(* Refresh-token rotation and the end of sessions.                         *)
(*                                                                         *)
(* Redis holds one refresh-token id (jti) per user: login and refresh      *)
(* store a new one, revokeSessions drops it with the cached identity, and  *)
(* /auth/refresh accepts a token only while its jti is the stored one.     *)
(* The handlers interleave at their awaits, as in Identity, of which this  *)
(* module keeps what decides a refresh: whether the user is active, and    *)
(* whether an identity read while it was is still cached.                  *)
(*                                                                         *)
(* era[u] counts the events that must end the sessions of u: a password    *)
(* set by anyone, a status other than ACTIVE, the deletion.  A token       *)
(* carries the era in which its holder last proved who it is: the one of   *)
(* the login it descends from.  Eras are not in the code; the properties   *)
(* use them to tell a session that should have ended from one that began   *)
(* since.                                                                  *)
(***************************************************************************)
EXTENDS Naturals

CONSTANTS
  Users,
  Jtis,        \* the refresh-token ids; the bound on those anything remembers
  MaxEra,      \* the bound on the events that end a user's sessions
  Tasks,       \* the requests served at one time
  Operations,  \* the kinds of request clients make
  RedisFails,  \* whether a Redis command may fail
  Crashes,     \* whether a worker process may die
  None

ASSUME SwitchesAreBoolean == RedisFails \in BOOLEAN /\ Crashes \in BOOLEAN
ASSUME MaxEraIsNatural == MaxEra \in Nat
ASSUME NoneIsNothing == None \notin Jtis \cup Users

VARIABLES
  account,  \* the user row: "active", "inactive" or "deleted"
  era,      \* how often the sessions of a user had to end
  cached,   \* the users with an identity under user:<id>
  key,      \* Redis refresh_token:<id>: a jti, or None
  token,    \* the tokens handed out, by jti: whose, and of which era
  expired,  \* the jtis of the tokens whose signature no longer verifies
  req       \* what each task has still to do

vars == <<account, era, cached, key, token, expired, req>>

Eras == 0..MaxEra

(* What a lookup leads to: a pair for a login (from = None) or in exchange *)
(* for the token from.  Lookups of the auth plugin lead to neither.        *)
Grant == [era : Eras, from : Jtis \cup {None}]

ASSUME NoneIsNoRecord == None \notin Grant \cup [user : Users, era : Eras]

Idle == [pc |-> "idle"]
GetCached(u, g) == [pc |-> "cacheGet", user |-> u, grant |-> g]
ReadUser(u, g) == [pc |-> "readUser", user |-> u, grant |-> g]
SetCached(u, g) == [pc |-> "cacheSet", user |-> u, grant |-> g]
Issue(u, g) == [pc |-> "issue", user |-> u, grant |-> g]
Forget(u, then) == [pc |-> "forget", user |-> u, then |-> then]
Revoke(u) == [pc |-> "revoke", user |-> u]
Write(w, u) == [pc |-> w, user |-> u]

Writes == {"setPassword", "setActive", "setInactive", "softDelete"}

Lookups == [pc : {"cacheGet"}, user : Users, grant : Grant \cup {None}]

Continuation ==
  {Idle}
  \cup Lookups
  \cup [pc : {"readUser", "cacheSet"}, user : Users, grant : Grant \cup {None}]
  \cup [pc : {"issue"}, user : Users, grant : Grant]
  \cup [pc : {"forget"}, user : Users, then : Lookups \cup {Idle}]
  \cup [pc : {"revoke"} \cup Writes, user : Users]

(* The continuations of a request that presented the token j.              *)
Using(j) ==
  LET grants == [era : Eras, from : {j}]
      lookups == [pc : {"cacheGet"}, user : Users, grant : grants]
  IN  lookups \cup [pc : {"readUser", "cacheSet", "issue"}, user : Users, grant : grants]
      \cup [pc : {"forget"}, user : Users, then : lookups]

Become(t, r) == req' = [req EXCEPT ![t] = r]

Init ==
  /\ account \in [Users -> {"active", "inactive"}]
  /\ era = [u \in Users |-> 0]
  /\ cached = {}
  /\ key = [u \in Users |-> None]
  /\ token = [j \in Jtis |-> None]
  /\ expired = {}
  /\ req = [t \in Tasks |-> Idle]

-----------------------------------------------------------------------------
(* Requests, up to the await after their first read.                       *)
Arrive(t, op, r) ==
  /\ op \in Operations
  /\ req[t] = Idle
  /\ Become(t, r)
  /\ UNCHANGED <<account, era, cached, key, token, expired>>

Authenticate(t) == \E u \in Users : Arrive(t, "authenticate", GetCached(u, None))

(* findByEmail reads the hash that the password is compared with: the      *)
(* client proves itself in the era of that read.                           *)
Login(t) ==
  \E u \in {v \in Users : account[v] = "active"} :
    Arrive(t, "login", Forget(u, GetCached(u, [era |-> era[u], from |-> None])))

(* The signature is good, and the jti is the stored one at this moment.    *)
Refresh(t) ==
  \E j \in {i \in Jtis \ expired : token[i] # None} :
    LET u == token[j].user IN
    /\ key[u] = j
    /\ Arrive(t, "refresh", Forget(u, GetCached(u, [era |-> token[j].era, from |-> j])))

(* By the user or an admin while the user is live, by a mailed token also  *)
(* after the user was deleted.                                             *)
ChangePassword(t) ==
  \E u \in Users : Arrive(t, "changePassword", Write("setPassword", u))

UpdateUser(t) ==
  \E u \in {v \in Users : account[v] # "deleted"}, w \in {"setActive", "setInactive"} :
    Arrive(t, "updateUser", Write(w, u))

DeleteUser(t) ==
  \E u \in {v \in Users : account[v] # "deleted"} :
    Arrive(t, "deleteUser", Write("softDelete", u))

-----------------------------------------------------------------------------
(* Session.getUserInformation, and what login and refresh do after it.     *)

(* Mutant: every lookup hands out a pair, those of the auth plugin too.    *)
AfterIssues(u, g) == Issue(u, g)

After(u, g) == IF g = None THEN Idle ELSE Issue(u, g)

CacheHit(t) ==
  LET r == req[t] IN
  /\ r.pc = "cacheGet"
  /\ r.user \in cached
  /\ Become(t, After(r.user, r.grant))
  /\ UNCHANGED <<account, era, cached, key, token, expired>>

CacheMiss(t) ==
  LET r == req[t] IN
  /\ r.pc = "cacheGet"
  /\ r.user \notin cached \/ RedisFails
  /\ Become(t, ReadUser(r.user, r.grant))
  /\ UNCHANGED <<account, era, cached, key, token, expired>>

(* Mutant: the refresh trusts the token and does not re-check the user.    *)
FindUserRefreshes(t) ==
  LET r == req[t] IN
  /\ r.pc = "readUser"
  /\ Become(t, IF account[r.user] = "active" \/ r.grant # None THEN SetCached(r.user, r.grant) ELSE Idle)
  /\ UNCHANGED <<account, era, cached, key, token, expired>>

(* A null ends the request; one that refreshes first revokes the session.  *)
FindUser(t) ==
  LET r == req[t] IN
  /\ r.pc = "readUser"
  /\ Become(t, IF account[r.user] = "active" THEN SetCached(r.user, r.grant)
               ELSE IF r.grant # None /\ r.grant.from # None THEN Revoke(r.user)
               ELSE Idle)
  /\ UNCHANGED <<account, era, cached, key, token, expired>>

CacheSet(t) ==
  LET r == req[t] IN
  /\ r.pc = "cacheSet"
  /\ cached' = cached \cup {r.user} \/ (RedisFails /\ cached' = cached)
  /\ Become(t, After(r.user, r.grant))
  /\ UNCHANGED <<account, era, key, token, expired>>

(* Thirty-two random characters do not repeat themselves: an id is fresh   *)
(* when it was never handed out, or when nothing remembers it, neither a   *)
(* token that verifies, nor a key, nor a request under way.                *)
Fresh(j) ==
  \/ token[j] = None
  \/ j \in expired /\ (\A u \in Users : key[u] # j) /\ (\A t \in Tasks : req[t] \notin Using(j))

(* Mutant: the Redis key does not carry the user's id.                     *)
IssueTokensOneKey(t) ==
  LET r == req[t] IN
  /\ r.pc = "issue"
  /\ \E j \in {i \in Jtis : Fresh(i)} :
       /\ token' = [token EXCEPT ![j] = [user |-> r.user, era |-> r.grant.era]]
       /\ expired' = expired \ {j}
       /\ key' = [u \in Users |-> j]
  /\ Become(t, Idle)
  /\ UNCHANGED <<account, era, cached>>

(* issueTokens: a fresh jti is signed into the pair and stored; a SET that *)
(* fails is swallowed, and the pair is handed out all the same.  A request *)
(* fails while no jti of the instance is fresh: that is the bound.         *)
IssueTokens(t) ==
  LET r == req[t] IN
  /\ r.pc = "issue"
  /\ \/ \E j \in {i \in Jtis : Fresh(i)} :
          /\ token' = [token EXCEPT ![j] = [user |-> r.user, era |-> r.grant.era]]
          /\ expired' = expired \ {j}
          /\ key' = [key EXCEPT ![r.user] = j] \/ (RedisFails /\ key' = key)
     \/ /\ \A j \in Jtis : ~Fresh(j)
        /\ UNCHANGED <<token, expired, key>>
  /\ Become(t, Idle)
  /\ UNCHANGED <<account, era, cached>>

-----------------------------------------------------------------------------
(* Session.forgetUsers and Session.revokeSessions, each one DEL.           *)

ForgetUser(t) ==
  LET r == req[t] IN
  /\ r.pc = "forget"
  /\ cached' = cached \ {r.user} \/ (RedisFails /\ cached' = cached)
  /\ Become(t, r.then)
  /\ UNCHANGED <<account, era, key, token, expired>>

RevokeSessions(t) ==
  LET r == req[t] IN
  /\ r.pc = "revoke"
  /\ cached' = cached \ {r.user}
  /\ key' = [key EXCEPT ![r.user] = None]
  /\ Become(t, Idle)
  /\ UNCHANGED <<account, era, token, expired>>

RevokeLost(t) ==
  /\ req[t].pc = "revoke"
  /\ RedisFails
  /\ Become(t, Idle)
  /\ UNCHANGED <<account, era, cached, key, token, expired>>

(* Mutant: the handler drops the identity but leaves the refresh token.    *)
EndSessionsForgets(t, u, status) ==
  /\ era[u] < MaxEra
  /\ era' = [era EXCEPT ![u] = @ + 1]
  /\ account' = [account EXCEPT ![u] = status]
  /\ Become(t, Forget(u, Idle))
  /\ UNCHANGED <<cached, key, token, expired>>

(* The commits that must end the user's sessions go on to revoke them.  A  *)
(* request fails when the era is at its bound.                             *)
EndSessions(t, u, status) ==
  /\ \/ /\ era[u] < MaxEra
        /\ era' = [era EXCEPT ![u] = @ + 1]
        /\ account' = [account EXCEPT ![u] = status]
        /\ Become(t, Revoke(u))
     \/ /\ era[u] = MaxEra
        /\ Become(t, Idle)
        /\ UNCHANGED <<era, account>>
  /\ UNCHANGED <<cached, key, token, expired>>

CommitPassword(t) ==
  LET u == req[t].user IN
  /\ req[t].pc = "setPassword"
  /\ EndSessions(t, u, account[u])

(* The row of a user deleted meanwhile is updated too, and stays deleted.  *)
CommitInactive(t) ==
  LET u == req[t].user IN
  /\ req[t].pc = "setInactive"
  /\ EndSessions(t, u, IF account[u] = "deleted" THEN "deleted" ELSE "inactive")

CommitActive(t) ==
  LET u == req[t].user IN
  /\ req[t].pc = "setActive"
  /\ account' = [account EXCEPT ![u] = IF @ = "deleted" THEN "deleted" ELSE "active"]
  /\ Become(t, Forget(u, Idle))
  /\ UNCHANGED <<era, cached, key, token, expired>>

CommitDelete(t) ==
  /\ req[t].pc = "softDelete"
  /\ EndSessions(t, req[t].user, "deleted")

-----------------------------------------------------------------------------
(* The environment.                                                        *)

ExpireIdentity(u) ==
  /\ u \in cached
  /\ cached' = cached \ {u}
  /\ UNCHANGED <<account, era, key, token, expired, req>>

ExpireKey(u) ==
  /\ key[u] # None
  /\ key' = [key EXCEPT ![u] = None]
  /\ UNCHANGED <<account, era, cached, token, expired, req>>

(* jwt refuses the token from its exp on.  It was signed before its jti is *)
(* stored and for as long, so that its own key mostly outlives it, but not *)
(* a key that is overwritten, dropped or never stored.                     *)
ExpireToken(j) ==
  /\ token[j] # None
  /\ j \notin expired
  /\ expired' = expired \cup {j}
  /\ UNCHANGED <<account, era, cached, key, token, req>>

Crash(t) ==
  /\ Crashes
  /\ req[t] # Idle
  /\ Become(t, Idle)
  /\ UNCHANGED <<account, era, cached, key, token, expired>>

Request(t) ==
  \/ Authenticate(t) \/ Login(t) \/ Refresh(t)
  \/ ChangePassword(t) \/ UpdateUser(t) \/ DeleteUser(t)

Continue(t) ==
  \/ CacheHit(t) \/ CacheMiss(t) \/ FindUser(t) \/ CacheSet(t) \/ IssueTokens(t)
  \/ ForgetUser(t) \/ RevokeSessions(t) \/ RevokeLost(t)
  \/ CommitPassword(t) \/ CommitInactive(t) \/ CommitActive(t) \/ CommitDelete(t)

Next ==
  \/ \E t \in Tasks : Request(t) \/ Continue(t) \/ Crash(t)
  \/ \E u \in Users : ExpireIdentity(u) \/ ExpireKey(u)
  \/ \E j \in Jtis : ExpireToken(j)

Spec == Init /\ [][Next]_vars

(* Handlers run to their end, and what is not set again expires.           *)
FairSpec ==
  /\ Spec
  /\ \A t \in Tasks : WF_vars(Continue(t))
  /\ \A u \in Users :
       /\ WF_vars(ExpireIdentity(u) \/ \E t \in Tasks : CacheSet(t) /\ req[t].user = u)
       /\ WF_vars(ExpireKey(u) \/ \E t \in Tasks : IssueTokens(t) /\ key'[u] # key[u])

-----------------------------------------------------------------------------
(* The type of every variable.                                             *)
TypeOK ==
  /\ account \in [Users -> {"active", "inactive", "deleted"}]
  /\ era \in [Users -> Eras]
  /\ cached \in SUBSET Users
  /\ key \in [Users -> Jtis \cup {None}]
  /\ token \in [Jtis -> [user : Users, era : Eras] \cup {None}]
  /\ expired \in SUBSET Jtis
  /\ req \in [Tasks -> Continuation]

(* The stored jti of a user was handed out to that user, whether or not    *)
(* its token still verifies, and a request that presented a token acts for *)
(* the token's user, to its end: rotation never crosses two users.         *)
KeysAreOwnTokens ==
  /\ \A u \in Users : key[u] # None => token[key[u]] # None /\ token[key[u]].user = u
  /\ \A t \in Tasks, j \in Jtis : req[t] \in Using(j) =>
       token[j] # None /\ token[j].user = req[t].user

(* A stored jti whose lineage an event should have ended, while no handler *)
(* is on its way to drop it: its token is accepted until it expires.       *)
Survivor(u) ==
  /\ key[u] # None
  /\ token[key[u]].era # era[u]
  /\ \A t \in Tasks : req[t] # Revoke(u)

StoredLate(t, u) == IssueTokens(t) /\ req[t].user = u /\ req[t].grant.era # era[u]
DropLost(t, u) == req[t] = Revoke(u) /\ (RevokeLost(t) \/ Crash(t))

(* docs/SECURITY.md, "Session invalidation": a password set by anyone, a   *)
(* status other than ACTIVE and a deletion drop the refresh jti.  A token  *)
(* outlives such an event only by an issue that was already past its       *)
(* checks when the event committed, or by a DEL that was lost.             *)
SurvivesOnlyByRace ==
  [][\A u \in Users : ~Survivor(u) /\ Survivor(u)' =>
       \E t \in Tasks : StoredLate(t, u) \/ DropLost(t, u)]_vars

(* docs/SECURITY.md:33-34, a deleted user's refresh is refused and the jti *)
(* dropped: whatever was in flight at the deletion, a deleted user ends    *)
(* without a refresh token, and stays without.                             *)
DeletedSessionsEnd ==
  \A u \in Users : [](account[u] = "deleted" => <>[](key[u] = None))
=============================================================================
