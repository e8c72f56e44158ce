------------------------ MODULE RefreshTokens_proofs ------------------------
(***************************************************************************)
(* Proofs about RefreshTokens, for every set of users, jtis and tasks,     *)
(* every bound on the eras, and with or without Redis failures and         *)
(* crashes.                                                                *)
(***************************************************************************)
EXTENDS RefreshTokens, TLAPS

(* The lookup that follows a forget is of the same user.                   *)
Paired(r) == r.pc = "forget" => r.then = Idle \/ r.then.user = r.user

(* A request that presented a token acts for the token's user.             *)
Own(r) == \A j \in Jtis : r \in Using(j) => token[j] # None /\ token[j].user = r.user

IInv == TypeOK /\ KeysAreOwnTokens /\ \A t \in Tasks : Paired(req[t])

-----------------------------------------------------------------------------
(* The fields of a continuation, by its pc.                                *)
LEMMA Fields ==
  ASSUME NEW r \in Continuation
  PROVE  /\ r.pc \in {"cacheGet", "readUser", "cacheSet"} => r.user \in Users /\ r.grant \in Grant \cup {None}
         /\ r.pc = "issue" => r.user \in Users /\ r.grant \in Grant
         /\ r.pc = "forget" => r.user \in Users /\ r.then \in Lookups \cup {Idle}
         /\ r.pc \in {"revoke"} \cup Writes => r.user \in Users
BY DEF Continuation, Lookups, Idle, Writes

(* Every constructor builds a continuation.                                *)
LEMMA Constructors ==
  /\ Idle \in Continuation
  /\ \A u \in Users : Revoke(u) \in Continuation /\ Forget(u, Idle) \in Continuation
  /\ \A u \in Users, w \in Writes : Write(w, u) \in Continuation
  /\ \A u \in Users, g \in Grant \cup {None} :
       /\ GetCached(u, g) \in Lookups
       /\ GetCached(u, g) \in Continuation
       /\ ReadUser(u, g) \in Continuation
       /\ SetCached(u, g) \in Continuation
       /\ g # None => Issue(u, g) \in Continuation
  /\ \A u \in Users, x \in Lookups : Forget(u, x) \in Continuation /\ x \in Continuation
<1>1. Idle \in Continuation
  BY DEF Continuation
<1>2. ASSUME NEW u \in Users PROVE Revoke(u) \in Continuation /\ Forget(u, Idle) \in Continuation
  BY DEF Continuation, Revoke, Forget
<1>3. ASSUME NEW u \in Users, NEW w \in Writes PROVE Write(w, u) \in Continuation
  BY DEF Continuation, Write
<1>4. ASSUME NEW u \in Users, NEW g \in Grant \cup {None}
      PROVE  /\ GetCached(u, g) \in Lookups
             /\ GetCached(u, g) \in Continuation
             /\ ReadUser(u, g) \in Continuation
             /\ SetCached(u, g) \in Continuation
             /\ g # None => Issue(u, g) \in Continuation
  BY DEF Continuation, Lookups, GetCached, ReadUser, SetCached, Issue
<1>5. ASSUME NEW u \in Users, NEW x \in Lookups
      PROVE  Forget(u, x) \in Continuation /\ x \in Continuation
  BY DEF Continuation, Forget
<1> QED BY <1>1, <1>2, <1>3, <1>4, <1>5

(* Which continuations use the token j: those whose grant came from it.    *)
LEMMA UsingGrants ==
  ASSUME NEW j \in Jtis
  PROVE  /\ Idle \notin Using(j)
         /\ \A u : Revoke(u) \notin Using(j) /\ Forget(u, Idle) \notin Using(j)
         /\ \A w \in Writes : \A u : Write(w, u) \notin Using(j)
         /\ \A u, g : GetCached(u, g) \in Using(j) => u \in Users /\ g \in [era : Eras, from : {j}]
         /\ \A u, g : ReadUser(u, g) \in Using(j) => u \in Users /\ g \in [era : Eras, from : {j}]
         /\ \A u, g : SetCached(u, g) \in Using(j) => u \in Users /\ g \in [era : Eras, from : {j}]
         /\ \A u, g : Issue(u, g) \in Using(j) => u \in Users /\ g \in [era : Eras, from : {j}]
         /\ \A u, v, g : Forget(u, GetCached(v, g)) \in Using(j) =>
              u \in Users /\ g \in [era : Eras, from : {j}]
<1> USE DEF Using, Idle, Revoke, Forget, Write, Writes, GetCached, ReadUser, SetCached, Issue
<1>1. Idle \notin Using(j) /\ \A u : Revoke(u) \notin Using(j) /\ Forget(u, Idle) \notin Using(j)
  OBVIOUS
<1>2. \A w \in Writes : \A u : Write(w, u) \notin Using(j)
  OBVIOUS
<1>3. \A u, g : GetCached(u, g) \in Using(j) => u \in Users /\ g \in [era : Eras, from : {j}]
  OBVIOUS
<1>4. \A u, g : ReadUser(u, g) \in Using(j) => u \in Users /\ g \in [era : Eras, from : {j}]
  OBVIOUS
<1>5. \A u, g : SetCached(u, g) \in Using(j) => u \in Users /\ g \in [era : Eras, from : {j}]
  OBVIOUS
<1>6. \A u, g : Issue(u, g) \in Using(j) => u \in Users /\ g \in [era : Eras, from : {j}]
  OBVIOUS
<1>7. \A u, v, g : Forget(u, GetCached(v, g)) \in Using(j) =>
        u \in Users /\ g \in [era : Eras, from : {j}]
  OBVIOUS
<1> QED BY <1>1, <1>2, <1>3, <1>4, <1>5, <1>6, <1>7

(* A typed continuation whose grant came from j uses j.                    *)
LEMMA GrantsUse ==
  ASSUME NEW r \in Continuation, NEW j \in Jtis,
         r.pc \in {"cacheGet", "readUser", "cacheSet", "issue"}, r.grant \in [era : Eras, from : {j}]
  PROVE  r \in Using(j)
<1>1. r \in [pc : {"cacheGet", "readUser", "cacheSet", "issue"}, user : Users, grant : [era : Eras, from : {j}]]
  BY DEF Continuation, Lookups, Idle, Writes
<1> QED BY <1>1 DEF Using

-----------------------------------------------------------------------------
(* A step that moves one task on, and neither stores nor hands out a jti.  *)
LEMMA MovesKeep ==
  ASSUME IInv, NEW t \in Tasks, NEW r \in Continuation, Become(t, r), Own(r), Paired(r),
         UNCHANGED <<key, token, expired>>, cached' \in SUBSET Users,
         account' \in [Users -> {"active", "inactive", "deleted"}], era' \in [Users -> Eras]
  PROVE  IInv'
<1>1. TypeOK'
  BY DEF IInv, TypeOK, Become
<1>2. \A s \in Tasks : req'[s] = r \/ req'[s] = req[s]
  BY DEF IInv, TypeOK, Become
<1>3. KeysAreOwnTokens'
  BY <1>2 DEF IInv, KeysAreOwnTokens, Own, Using
<1>4. \A s \in Tasks : Paired(req[s])'
  BY <1>2 DEF IInv, Paired, Idle
<1> QED BY <1>1, <1>3, <1>4 DEF IInv

LEMMA Typed ==
  ASSUME IInv
  PROVE  /\ account \in [Users -> {"active", "inactive", "deleted"}]
         /\ era \in [Users -> Eras]
         /\ cached \in SUBSET Users
         /\ \A t \in Tasks : req[t] \in Continuation /\ Own(req[t]) /\ Paired(req[t])
BY DEF IInv, TypeOK, KeysAreOwnTokens, Own

LEMMA RequestKeeps == ASSUME IInv, NEW t \in Tasks, Request(t) PROVE IInv'
<1>a. \A r \in Continuation : Become(t, r) /\ Own(r) /\ Paired(r)
        /\ UNCHANGED <<account, era, cached, key, token, expired>> => IInv'
  BY MovesKeep, Typed
<1>1. CASE Authenticate(t)
  <2>1. PICK u \in Users : /\ Become(t, GetCached(u, None))
                           /\ UNCHANGED <<account, era, cached, key, token, expired>>
    BY <1>1 DEF Authenticate, Arrive
  <2>2. Own(GetCached(u, None))
    <3>1. \A j \in Jtis : None \notin [era : Eras, from : {j}]
      BY NoneIsNoRecord DEF Grant
    <3> QED BY <3>1, UsingGrants DEF Own
  <2>3. Paired(GetCached(u, None)) /\ GetCached(u, None) \in Continuation
    BY Constructors DEF Paired, GetCached
  <2> QED BY <1>a, <2>1, <2>2, <2>3
<1>2. CASE Login(t)
  <2>1. PICK u \in Users :
          /\ Become(t, Forget(u, GetCached(u, [era |-> era[u], from |-> None])))
          /\ UNCHANGED <<account, era, cached, key, token, expired>>
    BY <1>2 DEF Login, Arrive
  <2> DEFINE g == [era |-> era[u], from |-> None]
             next == Forget(u, GetCached(u, g))
  <2>2. g \in Grant /\ \A j \in Jtis : g \notin [era : Eras, from : {j}]
    BY Typed, NoneIsNothing DEF Grant
  <2>3. Own(next)
    BY <2>2, UsingGrants DEF Own
  <2>4. Paired(next)
    BY DEF Paired, Forget, GetCached
  <2>5. next \in Continuation
    BY <2>2, Constructors
  <2> QED BY <1>a, <2>1, <2>3, <2>4, <2>5
<1>3. CASE Refresh(t)
  <2>1. PICK j \in Jtis :
          /\ token[j] # None
          /\ Become(t, Forget(token[j].user, GetCached(token[j].user, [era |-> token[j].era, from |-> j])))
          /\ UNCHANGED <<account, era, cached, key, token, expired>>
    BY <1>3 DEF Refresh, Arrive
  <2> DEFINE u == token[j].user
             g == [era |-> token[j].era, from |-> j]
             next == Forget(u, GetCached(u, g))
  <2>2. u \in Users /\ g \in Grant /\ next.user = u
    BY <2>1 DEF IInv, TypeOK, Grant, Forget
  <2>3. \A i \in Jtis : next \in Using(i) => i = j
    BY UsingGrants
  <2>4. Own(next)
    BY <2>1, <2>2, <2>3 DEF Own
  <2>5. Paired(next)
    BY DEF Paired, Forget, GetCached
  <2>6. next \in Continuation
    BY <2>2, Constructors
  <2> QED BY <1>a, <2>1, <2>4, <2>5, <2>6
<1>4. CASE ChangePassword(t) \/ UpdateUser(t) \/ DeleteUser(t)
  <2>1. PICK u \in Users, w \in Writes :
          Become(t, Write(w, u)) /\ UNCHANGED <<account, era, cached, key, token, expired>>
    BY <1>4 DEF ChangePassword, UpdateUser, DeleteUser, Arrive, Writes
  <2>2. Own(Write(w, u))
    BY UsingGrants DEF Own
  <2>3. Paired(Write(w, u))
    BY DEF Paired, Write, Writes
  <2> QED BY <1>a, <2>1, <2>2, <2>3, Constructors
<1> QED BY <1>1, <1>2, <1>3, <1>4 DEF Request

LEMMA LookupKeeps ==
  ASSUME IInv, NEW t \in Tasks, CacheHit(t) \/ CacheMiss(t) \/ FindUser(t) \/ CacheSet(t)
  PROVE  IInv'
<1> DEFINE r == req[t]
           u == r.user
           g == r.grant
<1>1. r \in Continuation /\ Own(r) /\ r.pc \in {"cacheGet", "readUser", "cacheSet"}
  BY Typed DEF CacheHit, CacheMiss, FindUser, CacheSet
<1>2. u \in Users /\ g \in Grant \cup {None}
  BY <1>1, Fields
<1>3. \A j \in Jtis : g \in [era : Eras, from : {j}] => token[j] # None /\ token[j].user = u
  BY <1>1, GrantsUse DEF Own
<1>4. /\ Own(ReadUser(u, g)) /\ Paired(ReadUser(u, g)) /\ ReadUser(u, g) \in Continuation
  BY <1>2, <1>3, UsingGrants, Constructors DEF Own, Paired, ReadUser
<1>5. /\ Own(SetCached(u, g)) /\ Paired(SetCached(u, g)) /\ SetCached(u, g) \in Continuation
  BY <1>2, <1>3, UsingGrants, Constructors DEF Own, Paired, SetCached
<1>6. Own(Issue(u, g)) /\ Paired(Issue(u, g)) /\ (g # None => Issue(u, g) \in Continuation)
  BY <1>2, <1>3, UsingGrants, Constructors DEF Own, Paired, Issue
<1>7. Own(Idle) /\ Paired(Idle) /\ Idle \in Continuation
  BY UsingGrants, Constructors DEF Own, Paired, Idle
<1>8. Own(Revoke(u)) /\ Paired(Revoke(u)) /\ Revoke(u) \in Continuation
  BY <1>2, UsingGrants, Constructors DEF Own, Paired, Revoke
<1>9. Own(After(u, g)) /\ Paired(After(u, g)) /\ After(u, g) \in Continuation
  BY <1>6, <1>7 DEF After
<1>10. /\ UNCHANGED <<account, era, key, token, expired>>
       /\ cached' \in SUBSET Users
       /\ \/ Become(t, ReadUser(u, g)) \/ Become(t, SetCached(u, g)) \/ Become(t, Idle)
          \/ Become(t, Revoke(u)) \/ Become(t, After(u, g))
  BY <1>2, Typed DEF CacheHit, CacheMiss, FindUser, CacheSet
<1> QED BY <1>4, <1>5, <1>7, <1>8, <1>9, <1>10, Typed, MovesKeep

LEMMA WriteKeeps ==
  ASSUME IInv, NEW t \in Tasks,
         \/ ForgetUser(t) \/ RevokeLost(t) \/ Crash(t)
         \/ CommitPassword(t) \/ CommitInactive(t) \/ CommitActive(t) \/ CommitDelete(t)
  PROVE  IInv'
<1> DEFINE r == req[t]
           u == r.user
<1>1. r \in Continuation /\ Own(r) /\ Paired(r)
  BY Typed
<1>2. Own(Idle) /\ Paired(Idle) /\ Idle \in Continuation
  BY UsingGrants, Constructors DEF Own, Paired, Idle
<1>3. CASE RevokeLost(t) \/ Crash(t)
  BY <1>2, <1>3, Typed, MovesKeep DEF RevokeLost, Crash
<1>4. CASE ForgetUser(t)
  <2>1. r.pc = "forget" /\ u \in Users /\ r.then \in Lookups \cup {Idle}
    BY <1>1, <1>4, Fields DEF ForgetUser
  <2>2. Own(r.then)
    <3>1. CASE r.then = Idle
      BY <1>2, <3>1
    <3>2. CASE r.then \in Lookups
      <4> SUFFICES ASSUME NEW j \in Jtis, r.then \in Using(j)
                   PROVE  token[j] # None /\ token[j].user = r.then.user
        BY DEF Own
      <4>1. r.then \in [pc : {"cacheGet"}, user : Users, grant : [era : Eras, from : {j}]]
        BY <3>2 DEF Using, Lookups
      <4>2. r \in [pc : {"forget"}, user : Users, then : Lookups \cup {Idle}]
        BY <1>1, <2>1 DEF Continuation, Lookups, Idle, Writes
      <4>3. r \in Using(j)
        BY <4>1, <4>2 DEF Using
      <4>4. r.then.user = u
        BY <1>1, <2>1, <3>2 DEF Paired, Lookups, Idle
      <4> QED BY <1>1, <4>3, <4>4 DEF Own
    <3> QED BY <2>1, <3>1, <3>2
  <2>3. Paired(r.then) /\ r.then \in Continuation
    BY <2>1, <1>2, Constructors DEF Paired, Lookups
  <2>4. cached' \in SUBSET Users
    BY <1>4, Typed DEF ForgetUser
  <2> QED BY <1>4, <2>2, <2>3, <2>4, Typed, MovesKeep DEF ForgetUser
<1>5. CASE CommitPassword(t) \/ CommitInactive(t) \/ CommitActive(t) \/ CommitDelete(t)
  <2>1. u \in Users
    BY <1>1, <1>5, Fields DEF CommitPassword, CommitInactive, CommitActive, CommitDelete, Writes
  <2>2. Own(Revoke(u)) /\ Paired(Revoke(u)) /\ Revoke(u) \in Continuation
    BY <2>1, UsingGrants, Constructors DEF Own, Paired, Revoke
  <2>3. Own(Forget(u, Idle)) /\ Paired(Forget(u, Idle)) /\ Forget(u, Idle) \in Continuation
    BY <2>1, UsingGrants, Constructors DEF Own, Paired, Forget
  <2>4. UNCHANGED <<cached, key, token, expired>>
    BY <1>5 DEF CommitPassword, CommitInactive, CommitActive, CommitDelete, EndSessions
  <2>5. Become(t, Idle) \/ Become(t, Revoke(u)) \/ Become(t, Forget(u, Idle))
    BY <1>5 DEF CommitPassword, CommitInactive, CommitActive, CommitDelete, EndSessions
  <2>6. era' \in [Users -> Eras]
    BY <1>5, <2>1, Typed, MaxEraIsNatural
       DEF CommitPassword, CommitInactive, CommitActive, CommitDelete, EndSessions, Eras
  <2>7. account' \in [Users -> {"active", "inactive", "deleted"}]
    BY <1>5, <2>1, Typed
       DEF CommitPassword, CommitInactive, CommitActive, CommitDelete, EndSessions
  <2> QED BY <1>2, <2>2, <2>3, <2>4, <2>5, <2>6, <2>7, Typed, MovesKeep
<1> QED BY <1>3, <1>4, <1>5

(* An id that a key or a request remembers is not fresh.                   *)
LEMMA Remembered ==
  ASSUME IInv, NEW j \in Jtis, Fresh(j)
  PROVE  /\ \A u \in Users : key[u] # j
         /\ \A t \in Tasks : req[t] \notin Using(j)
<1>1. \A u \in Users : key[u] = j => token[j] # None
  BY NoneIsNothing DEF IInv, KeysAreOwnTokens
<1>2. \A t \in Tasks : req[t] \in Using(j) => token[j] # None
  BY Typed DEF Own
<1> QED BY <1>1, <1>2 DEF Fresh

(* A fresh jti is no request's, and becomes the key of its own user.       *)
LEMMA IssueKeeps == ASSUME IInv, NEW t \in Tasks, IssueTokens(t) PROVE IInv'
<1> DEFINE u == req[t].user
           g == req[t].grant
<1>1. u \in Users /\ g \in Grant
  BY Typed, Fields DEF IssueTokens
<1>2. Own(Idle) /\ Paired(Idle) /\ Idle \in Continuation
  BY UsingGrants, Constructors DEF Own, Paired, Idle
<1>3. CASE UNCHANGED <<token, expired, key>>
  BY <1>2, <1>3, Typed, MovesKeep DEF IssueTokens
<1>4. CASE ~UNCHANGED <<token, expired, key>>
  <2>1. PICK j \in Jtis :
          /\ Fresh(j)
          /\ token' = [token EXCEPT ![j] = [user |-> u, era |-> g.era]]
          /\ expired' = expired \ {j}
          /\ key' = [key EXCEPT ![u] = j] \/ key' = key
    BY <1>4 DEF IssueTokens
  <2>2. Become(t, Idle) /\ UNCHANGED <<account, era, cached>>
    BY DEF IssueTokens
  <2>3. [user |-> u, era |-> g.era] \in [user : Users, era : Eras]
    BY <1>1 DEF Grant
  <2>4. token' \in [Jtis -> [user : Users, era : Eras] \cup {None}]
    BY <2>1, <2>3 DEF IInv, TypeOK
  <2>5. key' \in [Users -> Jtis \cup {None}]
    BY <1>1, <2>1 DEF IInv, TypeOK
  <2>6. expired' \in SUBSET Jtis
    BY <1>1, <2>1 DEF IInv, TypeOK, Grant
  <2>7. \A s \in Tasks : req'[s] = Idle \/ req'[s] = req[s]
    BY <2>2 DEF IInv, TypeOK, Become
  <2>8. req' \in [Tasks -> Continuation]
    BY <1>2, <2>2 DEF IInv, TypeOK, Become
  <2>9. TypeOK'
    BY <2>2, <2>4, <2>5, <2>6, <2>8 DEF IInv, TypeOK
  <2>10. token'[j] # None /\ token'[j].user = u
    BY <2>1, <2>3, NoneIsNoRecord DEF IInv, TypeOK
  <2>11. \A i \in Jtis : i # j => token'[i] = token[i]
    BY <2>1 DEF IInv, TypeOK
  <2>12. ASSUME NEW v \in Users, key'[v] # None
         PROVE  token'[key'[v]] # None /\ token'[key'[v]].user = v
    <3>1. (v = u /\ key'[v] = j) \/ key'[v] = key[v]
      BY <1>1, <2>1 DEF IInv, TypeOK
    <3>2. CASE v = u /\ key'[v] = j
      BY <2>10, <3>2
    <3>3. CASE key'[v] = key[v]
      <4>1. key[v] \in Jtis /\ token[key[v]] # None /\ token[key[v]].user = v
        BY <2>12, <3>3 DEF IInv, TypeOK, KeysAreOwnTokens
      <4>2. key[v] # j
        BY <2>1, <4>1, Remembered
      <4> QED BY <2>11, <3>3, <4>1, <4>2
    <3> QED BY <3>1, <3>2, <3>3
  <2>13. ASSUME NEW s \in Tasks, NEW i \in Jtis, req'[s] \in Using(i)
         PROVE  token'[i] # None /\ token'[i].user = req'[s].user
    <3>1. req'[s] = req[s]
      BY <2>7, <2>13, UsingGrants
    <3>2. token[i] # None /\ token[i].user = req[s].user
      BY <2>13, <3>1, Typed DEF Own
    <3>3. i # j
      BY <2>1, <2>13, <3>1, Remembered
    <3> QED BY <2>11, <3>1, <3>2, <3>3
  <2>14. KeysAreOwnTokens'
    BY <2>12, <2>13 DEF KeysAreOwnTokens, Using, Eras
  <2>15. \A s \in Tasks : Paired(req[s])'
    BY <2>7, <1>2, Typed DEF Paired
  <2> QED BY <2>9, <2>14, <2>15 DEF IInv
<1> QED BY <1>3, <1>4

(* A step that only drops identities and keys, and lets tokens expire.     *)
LEMMA DropKeeps ==
  ASSUME IInv, UNCHANGED <<account, era, token, req>>,
         cached' \in SUBSET Users, expired' \in SUBSET Jtis,
         key' \in [Users -> Jtis \cup {None}],
         \A u \in Users : key'[u] \in {key[u], None}
  PROVE  IInv'
<1>1. TypeOK'
  BY DEF IInv, TypeOK
<1>2. \A v \in Users : key'[v] # None => token'[key'[v]] # None /\ token'[key'[v]].user = v
  BY DEF IInv, KeysAreOwnTokens
<1>3. \A s \in Tasks, i \in Jtis : req'[s] \in Using(i) =>
        token'[i] # None /\ token'[i].user = req'[s].user
  BY Typed DEF Own
<1>4. KeysAreOwnTokens'
  BY <1>2, <1>3 DEF KeysAreOwnTokens, Using, Eras
<1>5. \A s \in Tasks : Paired(req[s])'
  BY Typed DEF Paired
<1> QED BY <1>1, <1>4, <1>5 DEF IInv

LEMMA ExpiryKeeps ==
  ASSUME IInv,
         \/ \E u \in Users : ExpireIdentity(u) \/ ExpireKey(u)
         \/ \E j \in Jtis : ExpireToken(j)
  PROVE  IInv'
<1>1. /\ UNCHANGED <<account, era, token, req>>
      /\ cached' \in SUBSET Users
      /\ expired' \in SUBSET Jtis
      /\ key' \in [Users -> Jtis \cup {None}]
      /\ \A u \in Users : key'[u] \in {key[u], None}
  BY DEF IInv, TypeOK, ExpireIdentity, ExpireKey, ExpireToken
<1> QED BY <1>1, DropKeeps DEF IInv, TypeOK

LEMMA RevokeKeeps == ASSUME IInv, NEW t \in Tasks, RevokeSessions(t) PROVE IInv'
<1> DEFINE u == req[t].user
<1>1. u \in Users
  BY Typed, Fields DEF RevokeSessions
<1>2. Own(Idle) /\ Paired(Idle) /\ Idle \in Continuation
  BY UsingGrants, Constructors DEF Own, Paired, Idle
<1>3. /\ UNCHANGED <<account, era, token, expired>>
      /\ cached' = cached \ {u}
      /\ key' = [key EXCEPT ![u] = None]
      /\ Become(t, Idle)
  BY DEF RevokeSessions
<1>4. \A s \in Tasks : req'[s] = Idle \/ req'[s] = req[s]
  BY <1>3 DEF IInv, TypeOK, Become
<1>5. req' \in [Tasks -> Continuation]
  BY <1>2, <1>3 DEF IInv, TypeOK, Become
<1>6. key' \in [Users -> Jtis \cup {None}] /\ \A v \in Users : key'[v] \in {key[v], None}
  BY <1>1, <1>3 DEF IInv, TypeOK
<1>7. TypeOK'
  BY <1>3, <1>5, <1>6 DEF IInv, TypeOK
<1>8. KeysAreOwnTokens'
  <2>1. ASSUME NEW v \in Users, key'[v] # None
        PROVE  token'[key'[v]] # None /\ token'[key'[v]].user = v
    BY <1>3, <1>6, <2>1 DEF IInv, KeysAreOwnTokens
  <2>2. ASSUME NEW s \in Tasks, NEW i \in Jtis, req'[s] \in Using(i)
        PROVE  token'[i] # None /\ token'[i].user = req'[s].user
    BY <1>3, <1>4, <2>2, UsingGrants, Typed DEF Own
  <2> QED BY <2>1, <2>2 DEF KeysAreOwnTokens, Using, Eras
<1>9. \A s \in Tasks : Paired(req[s])'
  BY <1>2, <1>4, Typed DEF Paired
<1> QED BY <1>7, <1>8, <1>9 DEF IInv

-----------------------------------------------------------------------------
LEMMA InitEstablishes == ASSUME Init PROVE IInv
<1>1. TypeOK
  BY MaxEraIsNatural, Constructors DEF Init, TypeOK, Eras
<1>2. KeysAreOwnTokens
  BY UsingGrants DEF Init, KeysAreOwnTokens
<1>3. \A t \in Tasks : Paired(req[t])
  BY DEF Init, Paired, Idle
<1> QED BY <1>1, <1>2, <1>3 DEF IInv

LEMMA StepKeeps == ASSUME IInv, [Next]_vars PROVE IInv'
<1>1. CASE UNCHANGED vars
  <2>1. UNCHANGED <<account, era, req, cached, key, token, expired>>
    BY <1>1 DEF vars
  <2> QED BY <2>1, DropKeeps DEF IInv, TypeOK
<1>2. ASSUME NEW t \in Tasks, Request(t) \/ Continue(t) \/ Crash(t) PROVE IInv'
  BY <1>2, RequestKeeps, LookupKeeps, WriteKeeps, IssueKeeps, RevokeKeeps DEF Continue
<1>3. CASE \/ \E u \in Users : ExpireIdentity(u) \/ ExpireKey(u)
           \/ \E j \in Jtis : ExpireToken(j)
  BY <1>3, ExpiryKeeps
<1> QED BY <1>1, <1>2, <1>3 DEF Next

LEMMA InvariantHolds == Spec => []IInv
BY InitEstablishes, StepKeeps, PTL DEF Spec

(* Every variable keeps its type.                                          *)
THEOREM TypeCorrect == Spec => []TypeOK
<1>1. IInv => TypeOK
  BY DEF IInv
<1> QED BY <1>1, InvariantHolds, PTL

(* auth/service.ts, issueTokens and refresh: a stored jti was handed out   *)
(* to the user it is stored for, and an exchange acts for the user whose   *)
(* token was presented, however the handlers interleave and whichever of   *)
(* the token and its key expires first.                                    *)
THEOREM KeysAreOwn == Spec => []KeysAreOwnTokens
<1>1. IInv => KeysAreOwnTokens
  BY DEF IInv
<1> QED BY <1>1, InvariantHolds, PTL

-----------------------------------------------------------------------------
(* No session becomes a survivor while its era, its key and its token stay *)
(* and every revocation that was owed is still owed.                       *)
LEMMA NoNewSurvivor ==
  ASSUME IInv, NEW u \in Users, ~Survivor(u), era'[u] = era[u],
         key'[u] \in {key[u], None},
         key[u] # None => token'[key[u]] = token[key[u]],
         \A t \in Tasks : req[t] = Revoke(u) => req'[t] = Revoke(u)
  PROVE  ~Survivor(u)'
BY DEF Survivor, Revoke

(* The step of a task that was not about to revoke leaves them owed.       *)
LEMMA RevocationsOwed ==
  ASSUME IInv, NEW t \in Tasks, NEW u \in Users, NEW r, Become(t, r), req[t] # Revoke(u)
  PROVE  \A s \in Tasks : req[s] = Revoke(u) => req'[s] = Revoke(u)
BY DEF IInv, TypeOK, Become, Revoke

LEMMA QuietMoves ==
  ASSUME IInv, NEW t \in Tasks, NEW u \in Users, ~Survivor(u),
         \/ Request(t) \/ CacheHit(t) \/ CacheMiss(t) \/ FindUser(t) \/ CacheSet(t)
         \/ ForgetUser(t) \/ CommitActive(t)
  PROVE  ~Survivor(u)'
<1>1. UNCHANGED <<era, key, token>>
  BY DEF Request, Authenticate, Login, Refresh, ChangePassword, UpdateUser, DeleteUser, Arrive,
         CacheHit, CacheMiss, FindUser, CacheSet, ForgetUser, CommitActive
<1>2. req[t].pc # "revoke"
  <2>1. Request(t) => req[t] = Idle
    BY DEF Request, Authenticate, Login, Refresh, ChangePassword, UpdateUser, DeleteUser, Arrive
  <2>2. Idle.pc # "revoke"
    BY DEF Idle
  <2>3. ~Request(t) => req[t].pc \in {"cacheGet", "readUser", "cacheSet", "forget", "setActive"}
    BY DEF CacheHit, CacheMiss, FindUser, CacheSet, ForgetUser, CommitActive
  <2> QED BY <2>1, <2>2, <2>3
<1>3. \E r : Become(t, r)
  BY DEF Request, Authenticate, Login, Refresh, ChangePassword, UpdateUser, DeleteUser, Arrive,
         CacheHit, CacheMiss, FindUser, CacheSet, ForgetUser, CommitActive
<1>4. req[t] # Revoke(u)
  BY <1>2 DEF Revoke
<1>5. \A s \in Tasks : req[s] = Revoke(u) => req'[s] = Revoke(u)
  BY <1>3, <1>4, RevocationsOwed
<1> QED BY <1>1, <1>5, NoNewSurvivor

(* A commit that ends the sessions owes their revocation.                  *)
LEMMA EndingOwes ==
  ASSUME IInv, NEW t \in Tasks, NEW u \in Users, ~Survivor(u),
         CommitPassword(t) \/ CommitInactive(t) \/ CommitDelete(t)
  PROVE  ~Survivor(u)'
<1>1. req[t].pc \in Writes /\ req[t] # Revoke(u)
  BY DEF CommitPassword, CommitInactive, CommitDelete, Writes, Revoke
<1>2. UNCHANGED <<key, token>> /\ \E r : Become(t, r)
  BY DEF CommitPassword, CommitInactive, CommitDelete, EndSessions
<1>3. \A s \in Tasks : req[s] = Revoke(u) => req'[s] = Revoke(u)
  BY <1>1, <1>2, RevocationsOwed
<1>4. \/ era' = era
      \/ era' = [era EXCEPT ![req[t].user] = @ + 1] /\ Become(t, Revoke(req[t].user))
  BY DEF CommitPassword, CommitInactive, CommitDelete, EndSessions
<1>5. CASE era'[u] = era[u]
  BY <1>2, <1>3, <1>5, NoNewSurvivor
<1>6. CASE era'[u] # era[u]
  <2>1. req[t].user = u
    BY <1>4, <1>6 DEF IInv, TypeOK
  <2>2. req'[t] = Revoke(u)
    BY <1>4, <1>6, <2>1 DEF IInv, TypeOK, Become
  <2> QED BY <2>2 DEF Survivor, Revoke
<1> QED BY <1>5, <1>6

(* A pair of the current era makes no survivor; one of an earlier era was  *)
(* stored late.                                                            *)
LEMMA IssueSurvivor ==
  ASSUME IInv, NEW t \in Tasks, NEW u \in Users, ~Survivor(u), IssueTokens(t)
  PROVE  Survivor(u)' => StoredLate(t, u)
<1> DEFINE v == req[t].user
           g == req[t].grant
<1>1. v \in Users /\ g \in Grant
  BY Typed, Fields DEF IssueTokens
<1>2. era' = era /\ \E r : Become(t, r)
  BY DEF IssueTokens
<1>3. \A s \in Tasks : req[s] = Revoke(u) => req'[s] = Revoke(u)
  <2>1. req[t] # Revoke(u)
    BY DEF IssueTokens, Revoke
  <2> QED BY <1>2, <2>1, RevocationsOwed
<1>4. key[u] # None => token'[key[u]] = token[key[u]]
  <2>1. key[u] # None => key[u] \in Jtis
    BY DEF IInv, TypeOK
  <2>2. \A j \in Jtis : Fresh(j) \/ token'[j] = token[j]
    BY DEF IInv, TypeOK, IssueTokens
  <2>3. key[u] # None => ~Fresh(key[u])
    BY <2>1, Remembered
  <2> QED BY <2>1, <2>2, <2>3
<1>5. CASE key'[u] = key[u]
  BY <1>2, <1>3, <1>4, <1>5, NoNewSurvivor
<1>6. CASE key'[u] # key[u]
  <2>1. PICK j \in Jtis :
          /\ token' = [token EXCEPT ![j] = [user |-> v, era |-> g.era]]
          /\ key' = [key EXCEPT ![v] = j]
    BY <1>6 DEF IssueTokens
  <2>2. u = v /\ key'[u] = j
    BY <1>1, <1>6, <2>1 DEF IInv, TypeOK
  <2>3. token'[key'[u]].era = g.era
    BY <2>1, <2>2 DEF IInv, TypeOK
  <2>4. Survivor(u)' => g.era # era[u]
    BY <1>2, <2>3 DEF Survivor
  <2> QED BY <2>2, <2>4 DEF StoredLate
<1> QED BY <1>5, <1>6

(* An owed revocation is made, or lost.                                    *)
LEMMA RevokeSurvivor ==
  ASSUME IInv, NEW t \in Tasks, NEW u \in Users, ~Survivor(u),
         RevokeSessions(t) \/ RevokeLost(t) \/ Crash(t)
  PROVE  Survivor(u)' => DropLost(t, u)
<1>1. era' = era /\ token' = token /\ \E r : Become(t, r)
  BY DEF RevokeSessions, RevokeLost, Crash
<1>2. \A v \in Users : key'[v] \in {key[v], None}
  BY DEF IInv, TypeOK, RevokeSessions, RevokeLost, Crash
<1>3. CASE req[t] # Revoke(u)
  BY <1>1, <1>2, <1>3, RevocationsOwed, NoNewSurvivor
<1>4. CASE req[t] = Revoke(u) /\ RevokeSessions(t)
  <2>1. key'[u] = None
    BY <1>4 DEF IInv, TypeOK, RevokeSessions, Revoke
  <2> QED BY <2>1 DEF Survivor
<1>5. CASE req[t] = Revoke(u) /\ (RevokeLost(t) \/ Crash(t))
  BY <1>5 DEF DropLost
<1> QED BY <1>3, <1>4, <1>5

LEMMA ExpirySurvivor ==
  ASSUME IInv, NEW u \in Users, ~Survivor(u),
         \/ \E v \in Users : ExpireIdentity(v) \/ ExpireKey(v)
         \/ \E j \in Jtis : ExpireToken(j)
  PROVE  ~Survivor(u)'
<1>1. era' = era /\ req' = req
  BY DEF ExpireIdentity, ExpireKey, ExpireToken
<1>2. key'[u] \in {key[u], None}
  BY DEF IInv, TypeOK, ExpireIdentity, ExpireKey, ExpireToken
<1>3. token' = token
  BY DEF ExpireIdentity, ExpireKey, ExpireToken
<1> QED BY <1>1, <1>2, <1>3, NoNewSurvivor

(* docs/SECURITY.md, "Session invalidation": a token outlives the event    *)
(* that should have ended its session only by an issue that was past its   *)
(* checks when the event committed, or by a DEL that was lost.             *)
THEOREM SurvivesOnlyByRaceHolds == Spec => SurvivesOnlyByRace
<1>1. ASSUME IInv, [Next]_vars
      PROVE  [\A u \in Users : ~Survivor(u) /\ Survivor(u)' =>
                \E t \in Tasks : StoredLate(t, u) \/ DropLost(t, u)]_vars
  <2> SUFFICES ASSUME Next, NEW u \in Users, ~Survivor(u), Survivor(u)'
               PROVE  \E t \in Tasks : StoredLate(t, u) \/ DropLost(t, u)
    BY <1>1
  <2>1. ASSUME NEW t \in Tasks, Request(t) \/ Continue(t) \/ Crash(t)
        PROVE  StoredLate(t, u) \/ DropLost(t, u)
    BY <1>1, <2>1, QuietMoves, EndingOwes, IssueSurvivor, RevokeSurvivor DEF Continue
  <2>2. ~(\/ \E v \in Users : ExpireIdentity(v) \/ ExpireKey(v)
          \/ \E j \in Jtis : ExpireToken(j))
    BY <1>1, ExpirySurvivor
  <2> QED BY <2>1, <2>2 DEF Next
<1> QED BY <1>1, InvariantHolds, PTL DEF Spec, SurvivesOnlyByRace
=============================================================================
