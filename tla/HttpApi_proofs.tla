--------------------------- MODULE HttpApi_proofs ---------------------------
(***************************************************************************)
(* Proofs about HttpApi, for any number of clients, whatever they send and *)
(* whatever fails: the languages of requests that overlap, and the answers *)
(* they get.                                                               *)
(***************************************************************************)
EXTENDS HttpApi, TLAPS

(* What the proof needs of the types.                                      *)
Shaped ==
  /\ DOMAIN req = Clients /\ DOMAIN store = Clients
  /\ req = [c \in Clients |-> req[c]] /\ store = [c \in Clients |-> store[c]]
  /\ \A c \in Clients : "pc" \in DOMAIN req[c]

(* From its first hook to its answer a request finds its own locale.       *)
FindsItsLocale == \A c \in Clients : req[c] # Idle => store[c] = Speaks[c]

IInv == Shaped /\ FindsItsLocale /\ SpeaksTheAskedLanguage

-----------------------------------------------------------------------------
LEMMA Initially == Init => IInv
BY DEF Init, IInv, Shaped, FindsItsLocale, SpeaksTheAskedLanguage, Idle

(* A step of a request under way does not touch the locales; it answers    *)
(* with Send or goes on.                                                   *)
GoesOn(c, r) == Become(c, r) /\ "pc" \in DOMAIN r /\ r.pc # "sent"

Moves(c) ==
  \E r : /\ req' = [req EXCEPT ![c] = r] /\ "pc" \in DOMAIN r
         /\ r.pc = "sent" => r.message = Speaks[c] /\ r.header = Speaks[c]

LEMMA OneRequest ==
  ASSUME IInv, NEW c \in Clients, UNCHANGED store, req[c] # Idle,
         (\E body : Send(c, body)) \/ (\E r : GoesOn(c, r))
  PROVE  IInv'
<1>1. PICK r : /\ req' = [req EXCEPT ![c] = r] /\ "pc" \in DOMAIN r
               /\ r.pc = "sent" => r.message = Speaks[c] /\ r.header = Speaks[c]
  <2>1. ASSUME NEW body, Send(c, body)
        PROVE  Moves(c)
    <3> DEFINE a == [pc |-> "sent", route |-> req[c].route, status |-> body.status,
                     shape |-> body.shape, message |-> store[c], header |-> Speaks[c]]
    <3>1. store[c] = Speaks[c]
      BY DEF IInv, FindsItsLocale
    <3>2. "pc" \in DOMAIN a /\ a.message = Speaks[c] /\ a.header = Speaks[c]
      BY <3>1
    <3>3. req' = [req EXCEPT ![c] = a]
      BY <2>1 DEF Send, Become, Context
    <3> HIDE DEF a
    <3> QED BY <3>2, <3>3 DEF Moves
  <2>2. ASSUME NEW r, GoesOn(c, r) PROVE Moves(c)
    BY <2>2 DEF GoesOn, Become, Moves
  <2>3. Moves(c)
    BY <2>1, <2>2
  <2> QED BY <2>3 DEF Moves
<1>2. Shaped'
  BY <1>1 DEF IInv, Shaped
<1>3. FindsItsLocale'
  BY <1>1 DEF IInv, Shaped, FindsItsLocale
<1>4. SpeaksTheAskedLanguage'
  BY <1>1 DEF IInv, Shaped, SpeaksTheAskedLanguage
<1> QED BY <1>2, <1>3, <1>4 DEF IInv

LEMMA ArriveStep == ASSUME IInv, NEW c \in Clients, Arrive(c) PROVE IInv'
<1>1. PICK r : req' = [req EXCEPT ![c] = r] /\ "pc" \in DOMAIN r /\ r.pc # "sent"
  <2>1. PICK pc, route, who : /\ Become(c, At(pc, route, who))
                             /\ pc \in {"parse", "authenticate", "limit"}
    BY DEF Arrive
  <2>2. "pc" \in DOMAIN At(pc, route, who) /\ At(pc, route, who).pc = pc
    BY DEF At
  <2> QED BY <2>1, <2>2 DEF Become
<1>2. store' = [store EXCEPT ![c] = Speaks[c]]
  BY DEF Arrive, Context
<1>3. Shaped'
  BY <1>1, <1>2 DEF IInv, Shaped
<1>4. FindsItsLocale'
  BY <1>1, <1>2 DEF IInv, Shaped, FindsItsLocale
<1>5. SpeaksTheAskedLanguage'
  BY <1>1 DEF IInv, Shaped, SpeaksTheAskedLanguage
<1> QED BY <1>3, <1>4, <1>5 DEF IInv

LEMMA ContinueStep == ASSUME IInv, NEW c \in Clients, Continue(c) PROVE IInv'
<1> USE DEF Throw, Reply, GoesOn, Idle, At, Probed
<1>1. "pc" \in DOMAIN req[c]
  BY DEF IInv, Shaped
<1>2. CASE Authenticate(c)
  <2>1. (\E body : Send(c, body)) \/ (\E r : GoesOn(c, r))
    BY <1>2 DEF Authenticate
  <2> QED BY <1>2, <2>1, OneRequest DEF Authenticate
<1>3. CASE RateLimit(c)
  <2>1. (\E body : Send(c, body)) \/ (\E r : GoesOn(c, r))
    BY <1>1, <1>3 DEF RateLimit
  <2> QED BY <1>3, <2>1, OneRequest DEF RateLimit
<1>4. CASE Parse(c)
  <2>1. (\E body : Send(c, body)) \/ (\E r : GoesOn(c, r))
    BY <1>1, <1>4 DEF Parse
  <2> QED BY <1>4, <2>1, OneRequest DEF Parse
<1>5. CASE Handle(c)
  <2>1. \E body : Send(c, body)
    BY <1>5 DEF Handle
  <2> QED BY <1>5, <2>1, OneRequest DEF Handle
<1>6. CASE NotFound(c)
  BY <1>6, OneRequest DEF NotFound
<1>7. CASE CheckPassword(c)
  <2>1. (\E body : Send(c, body)) \/ (\E r : GoesOn(c, r))
    BY <1>1, <1>7 DEF CheckPassword
  <2> QED BY <1>7, <2>1, OneRequest DEF CheckPassword
<1>8. CASE LoadUser(c)
  <2>1. \E body : Send(c, body)
    BY <1>8 DEF LoadUser
  <2> QED BY <1>8, <2>1, OneRequest DEF LoadUser
<1>9. CASE ProbeDatabase(c)
  <2>1. \E r : GoesOn(c, r)
    BY <1>9 DEF ProbeDatabase
  <2> QED BY <1>9, <2>1, OneRequest DEF ProbeDatabase
<1>10. CASE ProbeRedis(c)
  <2>1. \E body : Send(c, body)
    BY <1>10 DEF ProbeRedis
  <2> QED BY <1>10, <2>1, OneRequest DEF ProbeRedis
<1> QED BY <1>2, <1>3, <1>4, <1>5, <1>6, <1>7, <1>8, <1>9, <1>10 DEF Continue

LEMMA Inductive == IInv /\ [Next]_vars => IInv'
<1> SUFFICES ASSUME IInv, [Next]_vars PROVE IInv'
  OBVIOUS
<1>1. CASE UNCHANGED <<req, store>>
  BY <1>1 DEF IInv, Shaped, FindsItsLocale, SpeaksTheAskedLanguage
<1>2. ASSUME NEW c \in Clients, Done(c) PROVE IInv'
  <2>1. GoesOn(c, Idle) /\ req[c] # Idle
    BY <1>2 DEF Done, GoesOn, Idle
  <2> QED BY <1>2, <2>1, OneRequest DEF Done
<1> QED BY <1>1, <1>2, ArriveStep, ContinueStep DEF Next, NewWindow, Outage, vars

(* However many requests of however many languages overlap, each is        *)
(* answered in its own, and the header says so.                            *)
THEOREM LanguagesDoNotMix == Spec => []SpeaksTheAskedLanguage
<1>1. IInv => SpeaksTheAskedLanguage
  BY DEF IInv
<1> QED BY <1>1, Initially, Inductive, PTL DEF Spec
-----------------------------------------------------------------------------
(* The second half: what is answered.  What the proof needs of the route   *)
(* table is that each route's list of statuses covers its own guard,       *)
(* schemas and services.                                                   *)
WellDeclared(r) ==
  /\ r.ok \in {200, 201} \cap r.declares
  /\ r.throws \subseteq {400, 401, 404, 422} \cap r.declares
  /\ r.validates => 422 \in r.declares
  /\ r.auth => {401, 500} \subseteq r.declares
  /\ r.needs # Open => 403 \in r.declares
  /\ r.changes \in {"nothing", "user", "catalogue"}

(* These three reach no dependency, so that no handler of theirs fails.    *)
Bare == {"/", "/live", "/health"}

Table(f) == \A n \in DOMAIN f : WellDeclared(f[n]) /\ (n \in Bare \/ 500 \in f[n].declares)

LEMMA NamedIsTable ==
  ASSUME NEW n, NEW r, WellDeclared(r), n \in Bare \/ 500 \in r.declares
  PROVE  Table(Named(n, r))
BY DEF Table, Named

LEMMA JoinIsTable ==
  ASSUME NEW f, NEW g, Table(f), Table(g) PROVE Table(f ++ g)
<1> SUFFICES ASSUME NEW n \in DOMAIN (f ++ g)
             PROVE  /\ WellDeclared((f ++ g)[n])
                    /\ n \in Bare \/ 500 \in (f ++ g)[n].declares
  BY DEF Table
<1>1. \/ (f ++ g)[n] = f[n] /\ n \in DOMAIN f
      \/ (f ++ g)[n] = g[n] /\ n \in DOMAIN g
  BY DEF ++
<1> QED BY <1>1 DEF Table

LEMMA JoinLooksUp ==
  ASSUME NEW f, NEW g, NEW n
  PROVE  /\ n \in DOMAIN f => n \in DOMAIN (f ++ g) /\ (f ++ g)[n] = f[n]
         /\ n \in DOMAIN g /\ n \notin DOMAIN f =>
              n \in DOMAIN (f ++ g) /\ (f ++ g)[n] = g[n]
         /\ n \in DOMAIN (f ++ g) <=> n \in DOMAIN f \/ n \in DOMAIN g
BY DEF ++

LEMMA PublicIsDeclared ==
  ASSUME NEW method, NEW takes, NEW ok \in {200, 201}, NEW throws, NEW declares,
         ok \in declares, throws \subseteq {400, 401, 404, 422} \cap declares,
         takes # {} => 422 \in declares
  PROVE  /\ WellDeclared(Public(method, takes, ok, throws, declares))
         /\ Public(method, takes, ok, throws, declares).declares = declares
<1> DEFINE r == Public(method, takes, ok, throws, declares)
<1>1. (r.validates => takes # {}) /\ ~r.auth
  BY Zenon DEF Public, Route
<1>2. /\ r.ok = ok /\ r.throws = throws /\ r.declares = declares /\ r.needs = Open
      /\ r.changes = "nothing"
  BY DEF Public, Route
<1> HIDE DEF r
<1>3. WellDeclared(r)
  BY <1>1, <1>2 DEF WellDeclared
<1> QED BY <1>2, <1>3 DEF r

Signed(method, needs, takes, ok, throws, declares) ==
  Route(method, TRUE, needs, takes, ok, throws, declares)

(* A route that says it may fail, as every one but those three does.       *)
Covered(r) == WellDeclared(r) /\ 500 \in r.declares

LEMMA SignedIsDeclared ==
  ASSUME NEW method, NEW needs, NEW takes, NEW ok \in {200, 201}, NEW throws, NEW declares,
         ok \in declares, throws \subseteq {400, 401, 404, 422} \cap declares,
         takes # {} => 422 \in declares, {401, 500} \subseteq declares,
         needs # Open => 403 \in declares,
         NEW what \in {"user", "catalogue"}
  PROVE  /\ Covered(Signed(method, needs, takes, ok, throws, declares))
         /\ Covered(Changing(what, Signed(method, needs, takes, ok, throws, declares)))
<1> DEFINE r == Signed(method, needs, takes, ok, throws, declares)
           s == Changing(what, r)
<1>1. r.validates => takes # {}
  BY ZenonT(40) DEF Signed, Route
<1>2. /\ r.ok = ok /\ r.throws = throws /\ r.declares = declares /\ r.needs = needs
      /\ r.changes = "nothing"
  BY DEF Signed, Route
<1>3. /\ (s.validates => takes # {}) /\ s.ok = ok /\ s.throws = throws
      /\ s.declares = declares /\ s.needs = needs /\ s.changes = what
  BY <1>1, <1>2 DEF Changing, Signed, Route
<1> HIDE DEF r, s
<1>4. Covered(r)
  BY <1>1, <1>2 DEF WellDeclared, Covered
<1>5. Covered(s)
  BY <1>1, <1>3 DEF WellDeclared, Covered
<1> QED BY <1>4, <1>5 DEF r, s

LEMMA PermittedIsDeclared ==
  ASSUME NEW method, NEW p, NEW takes, NEW ok \in {200, 201}, NEW throws, NEW declares,
         ok \in declares, throws \subseteq {400, 401, 404, 422} \cap declares,
         {401, 403, 422, 500} \subseteq declares,
         NEW what \in {"user", "catalogue"}
  PROVE  /\ Covered(Permitted(method, p, takes, ok, throws, declares))
         /\ Covered(Changing(what, Permitted(method, p, takes, ok, throws, declares)))
<1> DEFINE r == Permitted(method, p, takes, ok, throws, declares)
           q == Changing(what, r)
<1>1. /\ r.ok = ok /\ r.throws = throws /\ r.declares = declares /\ r.changes = "nothing"
      /\ q.ok = ok /\ q.throws = throws /\ q.declares = declares /\ q.changes = what
  BY DEF Permitted, Changing, Route
<1> HIDE DEF r, q
<1>2. Covered(r) /\ Covered(q)
  BY <1>1 DEF Covered, WellDeclared
<1> QED BY <1>2 DEF r, q

LEMMA PostIsTable ==
  ASSUME NEW n, NEW ok \in {200, 201}, NEW throws, NEW declares,
         ok \in declares, throws \subseteq {400, 401, 404, 422} \cap declares,
         422 \in declares, 500 \in declares
  PROVE  Table(Named(n, Public("POST", {"body"}, ok, throws, declares)))
<1> DEFINE r == Public("POST", {"body"}, ok, throws, declares)
<1>1. WellDeclared(r) /\ r.declares = declares
  <2>1. r.ok = ok /\ r.throws = throws /\ r.declares = declares /\ r.changes = "nothing"
    BY DEF Public, Route
  <2>2. r.needs = Open /\ ~r.auth
    BY Zenon DEF Public, Route
  <2> HIDE DEF r
  <2> QED BY <2>1, <2>2 DEF WellDeclared
<1> HIDE DEF r
<1>2. Table(Named(n, r))
  BY <1>1, NamedIsTable
<1> QED BY <1>2 DEF r

LEMMA PublicTables ==
  Table(HomeRoutes) /\ Table(HealthRoutes) /\ Table(RegistrationRoutes) /\ Table(RecoveryRoutes)
<1>1. Table(HomeRoutes)
  <2>1. WellDeclared(Public("GET", {}, 200, {}, {200}))
    BY PublicIsDeclared
  <2> QED BY <2>1, NamedIsTable, JoinIsTable DEF HomeRoutes, Bare
<1>2. Table(HealthRoutes)
  <2>1. WellDeclared(Public("GET", {}, 200, {}, {200, 503}))
    BY PublicIsDeclared
  <2> QED BY <2>1, NamedIsTable DEF HealthRoutes, Bare
<1>3. Table(RegistrationRoutes)
  <2> DEFINE A == Named("login", Public("POST", {"body"}, 200, {400}, {200, 400, 422, 500}))
             B == Named("register", Public("POST", {"body"}, 201, {422}, {201, 422, 500}))
             C == Named("resend-verification", Public("POST", {"body"}, 200, {}, {200, 422, 500}))
             D == Named("verify-email", Public("POST", {"body"}, 200, {400}, {200, 400, 422, 500}))
  <2>1. Table(A) /\ Table(D)
    BY PostIsTable
  <2>2. Table(B)
    BY PostIsTable
  <2>3. Table(C)
    BY PostIsTable
  <2>4. RegistrationRoutes = ((A ++ B) ++ C) ++ D
    BY DEF RegistrationRoutes
  <2> HIDE DEF A, B, C, D
  <2>5. Table((A ++ B) ++ C)
    BY <2>1, <2>2, <2>3, JoinIsTable
  <2> QED BY <2>1, <2>4, <2>5, JoinIsTable
<1>4. Table(RecoveryRoutes)
  <2> DEFINE A == Named("forgot-password", Public("POST", {"body"}, 200, {}, {200, 422, 500}))
             B == Named("reset-password", Public("POST", {"body"}, 200, {400}, {200, 400, 422, 500}))
             C == Named("refresh-token", Public("POST", {"body"}, 200, {401}, {200, 401, 422, 500}))
  <2>1. Table(A)
    BY PostIsTable
  <2>2. Table(B)
    BY PostIsTable
  <2>3. Table(C)
    BY PostIsTable
  <2>4. RecoveryRoutes = (A ++ B) ++ C
    BY DEF RecoveryRoutes
  <2> HIDE DEF A, B, C
  <2> QED BY <2>1, <2>2, <2>3, <2>4, JoinIsTable
<1> QED BY <1>1, <1>2, <1>3, <1>4

LEMMA ResourceTables ==
  ASSUME NEW p, NEW what \in {"user", "catalogue"}
  PROVE  Table(List(p)) /\ Table(Create(p)) /\ Table(Detail(p)) /\ Table(Edit(p, what))
         /\ Table(Delete(p, what))
<1> DEFINE all == {200} \cup ItemErrors
<1>1. {200, 401, 403, 404, 422, 500} \subseteq all
  BY DEF ItemErrors
<1> HIDE DEF all
<1>2. Covered(Permitted("GET", p, {"query"}, 200, {400}, {200, 400, 401, 403, 422, 500}))
  BY PermittedIsDeclared
<1>3. Covered(Permitted("POST", p, {"body"}, 201, {422}, {201, 401, 403, 422, 500}))
  BY PermittedIsDeclared
<1>4. /\ Covered(Permitted("GET", p, {"params"}, 200, {404}, all))
      /\ Covered(Changing(what, Permitted("DELETE", p, {"params"}, 200, {404}, all)))
  BY <1>1, PermittedIsDeclared
<1>5. Covered(Changing(what, Permitted("PATCH", p, {"params", "body"}, 200, {404, 422}, all)))
  BY <1>1, PermittedIsDeclared
<1> QED BY <1>2, <1>3, <1>4, <1>5, NamedIsTable
    DEF Covered, List, Create, Detail, Edit, Delete, all

LEMMA ResourceRoutes ==
  ASSUME NEW p1, NEW p2, NEW p3, NEW p4, NEW p5, NEW what \in {"user", "catalogue"}
  PROVE  Table(List(p1) ++ Create(p2) ++ Detail(p3) ++ Edit(p4, what) ++ Delete(p5, what))
<1>1. Table(List(p1) ++ Create(p2) ++ Detail(p3))
  BY ResourceTables, JoinIsTable
<1>2. Table(Edit(p4, what)) /\ Table(Delete(p5, what))
  BY ResourceTables
<1>3. Table((List(p1) ++ Create(p2) ++ Detail(p3)) ++ Edit(p4, what))
  BY <1>1, <1>2, JoinIsTable
<1> QED BY <1>2, <1>3, JoinIsTable

LEMMA AccountTables ==
  Table(ProfileRoutes) /\ Table(UserAccountRoutes) /\ Table(SelectOptionRoutes)
<1>1. Table(ProfileRoutes)
  <2> DEFINE a == Signed("GET", Open, {}, 200, {}, {200, 401, 500})
             b == Signed("PATCH", Open, {"body"}, 200, {401, 422}, {200, 401, 422, 500})
             A == Named("profile", a)
             B == Named("profile edit", Changing("user", b))
             C == Named("profile password", b)
  <2>1. Covered(a)
    BY SignedIsDeclared
  <2>2. Covered(b) /\ Covered(Changing("user", b))
    BY SignedIsDeclared
  <2>3. ProfileRoutes = (A ++ B) ++ C
    BY DEF ProfileRoutes, Signed
  <2> HIDE DEF a, b
  <2>4. Table(A) /\ Table(B) /\ Table(C)
    BY <2>1, <2>2, NamedIsTable DEF Covered
  <2> HIDE DEF A, B, C
  <2> QED BY <2>3, <2>4, JoinIsTable
<1> DEFINE all == {200} \cup ItemErrors
<1>2. {200, 401, 403, 404, 422, 500} \subseteq all
  BY DEF ItemErrors
<1>3. Table(UserAccountRoutes)
  <2> DEFINE g == RoleGuard({"superuser"})
             h == PermissionGuard({"user create"})
             a == Signed("POST", g, {"params", "body"}, 200, {404}, all)
             b == Signed("POST", h, {"params"}, 200, {404}, all)
             A == Named("user password", a)
             B == [s \in {"user verification", "user reset"} |-> b]
  <2>3. UserAccountRoutes = A ++ B
    BY DEF UserAccountRoutes, Signed
  <2> HIDE DEF all, g, h
  <2>1. Covered(a)
    BY <1>2, SignedIsDeclared
  <2>2. Covered(b)
    BY <1>2, SignedIsDeclared
  <2> HIDE DEF a, b
  <2>4. Table(A)
    BY <2>1, NamedIsTable DEF Covered
  <2>5. Table(B)
    BY <2>2 DEF Table, Covered
  <2> HIDE DEF A, B
  <2> QED BY <2>3, <2>4, <2>5, JoinIsTable
<1>4. Table(SelectOptionRoutes)
  <2> DEFINE g == RoleGuard({"superuser"})
             a == Signed("GET", g, {}, 200, {}, {200, 401, 403, 500})
  <2>1. SelectOptionRoutes = [s \in {"select permissions", "select roles"} |-> a]
    BY DEF SelectOptionRoutes, Signed
  <2> HIDE DEF g
  <2>2. Covered(a)
    BY SignedIsDeclared
  <2> HIDE DEF a
  <2> QED BY <2>1, <2>2, ZenonT(60) DEF Table, Covered
<1> QED BY <1>1, <1>3, <1>4

(* Every route's own hooks, schemas and services produce only what its     *)
(* schema.response lists.                                                  *)
LEMMA RoutesAreDeclared == Table(Routes)
<1>1. Table(UserRoutes)
  BY ResourceRoutes DEF UserRoutes
<1>2. Table(RoleRoutes) /\ Table(PermissionRoutes)
  BY ResourceRoutes DEF RoleRoutes, PermissionRoutes
<1>3. Table(HomeRoutes ++ HealthRoutes ++ RegistrationRoutes)
  BY PublicTables, JoinIsTable
<1>4. Table((HomeRoutes ++ HealthRoutes ++ RegistrationRoutes) ++ RecoveryRoutes)
  BY <1>3, PublicTables, JoinIsTable
<1> DEFINE a == HomeRoutes ++ HealthRoutes ++ RegistrationRoutes ++ RecoveryRoutes
<1>5. Routes = a ++ ProfileRoutes ++ UserRoutes ++ UserAccountRoutes ++ RoleRoutes
                 ++ PermissionRoutes ++ SelectOptionRoutes
  BY DEF Routes
<1> HIDE DEF a
<1>6. Table(a)
  BY <1>4 DEF a
<1>7. Table(a ++ ProfileRoutes ++ UserRoutes)
  BY <1>1, <1>6, AccountTables, JoinIsTable
<1> DEFINE b == a ++ ProfileRoutes ++ UserRoutes
<1>8. Routes = b ++ UserAccountRoutes ++ RoleRoutes ++ PermissionRoutes ++ SelectOptionRoutes
  BY <1>5
<1> HIDE DEF b
<1>9. Table(b)
  BY <1>7 DEF b
<1>10. Table(b ++ UserAccountRoutes ++ RoleRoutes)
  BY <1>2, <1>9, AccountTables, JoinIsTable
<1> DEFINE d == b ++ UserAccountRoutes ++ RoleRoutes
<1>11. Routes = d ++ PermissionRoutes ++ SelectOptionRoutes
  BY <1>8
<1> HIDE DEF d
<1>12. Table(d)
  BY <1>10 DEF d
<1> QED BY <1>2, <1>11, <1>12, AccountTables, JoinIsTable

(* What the first tables answer to, the rest leave alone.                  *)
LEMMA FirstRoutes ==
  ASSUME NEW n \in DOMAIN (HomeRoutes ++ HealthRoutes ++ RegistrationRoutes)
  PROVE  n \in DOMAIN Routes
         /\ Routes[n] = (HomeRoutes ++ HealthRoutes ++ RegistrationRoutes)[n]
<1> DEFINE a == HomeRoutes ++ HealthRoutes ++ RegistrationRoutes
           b == a ++ RecoveryRoutes ++ ProfileRoutes
           d == b ++ UserRoutes ++ UserAccountRoutes
           e == d ++ RoleRoutes ++ PermissionRoutes
<1>1. Routes = e ++ SelectOptionRoutes
  BY DEF Routes
<1>2. n \in DOMAIN a
  OBVIOUS
<1> HIDE DEF a
<1>3. n \in DOMAIN b /\ b[n] = a[n]
  BY <1>2, JoinLooksUp
<1> HIDE DEF b
<1>4. n \in DOMAIN d /\ d[n] = a[n]
  BY <1>3, JoinLooksUp
<1> HIDE DEF d
<1>5. n \in DOMAIN e /\ e[n] = a[n]
  BY <1>4, JoinLooksUp
<1> HIDE DEF e
<1>6. n \in DOMAIN Routes /\ Routes[n] = a[n]
  BY <1>1, <1>5, JoinLooksUp
<1> QED BY <1>6 DEF a

LEMMA HomeIsBare == {"/", "/live"} \subseteq DOMAIN HomeRoutes
BY Zenon DEF HomeRoutes, Named, ++

LEMMA HealthRoute ==
  /\ "/health" \in DOMAIN Routes
  /\ {200, 503} \subseteq Routes["/health"].declares
<1>1. "/health" \notin DOMAIN HomeRoutes
  <2> DEFINE r == Public("GET", {}, 200, {}, {200})
  <2>1. HomeRoutes = Named("/", r) ++ Named("/live", r)
    BY DEF HomeRoutes
  <2> HIDE DEF r
  <2>2. "/health" \notin DOMAIN Named("/", r) /\ "/health" \notin DOMAIN Named("/live", r)
    BY DEF Named
  <2> QED BY <2>1, <2>2, JoinLooksUp
<1>2. "/health" \in DOMAIN HealthRoutes
  BY DEF HealthRoutes, Named
<1>3. HealthRoutes["/health"] = Public("GET", {}, 200, {}, {200, 503})
  BY DEF HealthRoutes, Named
<1>4. /\ "/health" \in DOMAIN (HomeRoutes ++ HealthRoutes)
      /\ (HomeRoutes ++ HealthRoutes)["/health"] = HealthRoutes["/health"]
  BY <1>1, <1>2, JoinLooksUp
<1>5. /\ "/health" \in DOMAIN (HomeRoutes ++ HealthRoutes ++ RegistrationRoutes)
      /\ (HomeRoutes ++ HealthRoutes ++ RegistrationRoutes)["/health"] = HealthRoutes["/health"]
  BY <1>4, JoinLooksUp
<1>6. Public("GET", {}, 200, {}, {200, 503}).declares = {200, 503}
  BY DEF Public, Route
<1> QED BY <1>3, <1>5, <1>6, FirstRoutes

LEMMA LoginRoute ==
  /\ "login" \in DOMAIN Routes
  /\ {200, 400, 500} \subseteq Routes["login"].declares
  /\ ~Routes["login"].auth
<1> DEFINE r == Public("POST", {"body"}, 200, {400}, {200, 400, 422, 500})
           A == Named("login", r)
           B == Named("register", Public("POST", {"body"}, 201, {422}, {201, 422, 500}))
           C == Named("resend-verification", Public("POST", {"body"}, 200, {}, {200, 422, 500}))
           D == Named("verify-email", Public("POST", {"body"}, 200, {400}, {200, 400, 422, 500}))
<1>1. RegistrationRoutes = ((A ++ B) ++ C) ++ D
  BY DEF RegistrationRoutes
<1>2. "login" \notin DOMAIN (HomeRoutes ++ HealthRoutes)
  <2> DEFINE h == Public("GET", {}, 200, {}, {200})
             s == Public("GET", {}, 200, {}, {200, 503})
  <2>1. HomeRoutes = Named("/", h) ++ Named("/live", h) /\ HealthRoutes = Named("/health", s)
    BY DEF HomeRoutes, HealthRoutes
  <2> HIDE DEF h, s
  <2>2. /\ "login" \notin DOMAIN Named("/", h)
        /\ "login" \notin DOMAIN Named("/live", h)
        /\ "login" \notin DOMAIN Named("/health", s)
    BY DEF Named
  <2>3. "login" \notin DOMAIN (Named("/", h) ++ Named("/live", h))
    BY <2>2, JoinLooksUp
  <2> QED BY <2>1, <2>2, <2>3, JoinLooksUp
<1>3. r.declares = {200, 400, 422, 500} /\ ~r.auth
  BY DEF Public, Route
<1> HIDE DEF r
<1>4. "login" \in DOMAIN A /\ A["login"] = r
  BY DEF Named
<1> HIDE DEF A, B, C, D
<1>5. "login" \in DOMAIN ((A ++ B) ++ C) /\ ((A ++ B) ++ C)["login"] = r
  BY <1>4, JoinLooksUp
<1>6. "login" \in DOMAIN RegistrationRoutes /\ RegistrationRoutes["login"] = r
  BY <1>1, <1>5, JoinLooksUp
<1>7. /\ "login" \in DOMAIN (HomeRoutes ++ HealthRoutes ++ RegistrationRoutes)
      /\ (HomeRoutes ++ HealthRoutes ++ RegistrationRoutes)["login"] = r
  BY <1>2, <1>6, JoinLooksUp
<1> QED BY <1>3, <1>7, FirstRoutes

-----------------------------------------------------------------------------
(* What may be answered to a request, and the steps it takes.              *)
Allowed(r, status, shape) ==
  r.route # "unmatched" =>
    \/ status \in Routes[r.route].declares /\ shape \in Schema(status)
    \/ OfTheFramework(r, status)
    \/ r.route = "login" /\ r.pc = "load" /\ status = 401

Sound(r) ==
  /\ r.pc = "authenticate" => r.route \in DOMAIN Routes /\ Routes[r.route].auth
  /\ r.pc = "load" => r.route = "login"

(* Only routes whose module has the authenticate hook reach it, and only a *)
(* login loads an identity.                                                *)
Guarded == \A c \in Clients : Sound(req[c])

AnswersInv == TypeOK /\ Guarded

Answered(c) ==
  \E status \in Statuses, shape \in Shapes :
    /\ Send(c, Body(status, shape))
    /\ Allowed(req[c], status, shape)
    /\ req[c].route = "login" /\ status = 401 =>
         req[c].pc = "load" /\ identity[req[c].who] = None

Advances(c) == \E r \in Request : Become(c, r) /\ r.pc # "sent" /\ Sound(r)

Names == DOMAIN Routes \cup {"unmatched"}
Whos == Users \cup {None}

Stages == {"authenticate", "limit", "parse", "handle", "load"}

LEMMA StagesOfRequests ==
  ASSUME TypeOK, NEW c \in Clients
  PROVE  /\ req[c] \in Request
         /\ req[c].pc \in {"idle", "probed", "sent"} \cup Stages
         /\ req[c].pc = "idle" => req[c] = Idle
         /\ req[c].pc # "idle" => req[c].route \in Names
         /\ req[c].pc = "probed" => req[c].route = "/health"
         /\ req[c].pc \in Stages =>
              req[c] = At(req[c].pc, req[c].route, req[c].who) /\ req[c].who \in Whos
<1> DEFINE r == req[c]
<1>1. r \in Request
  BY DEF TypeOK
<1> HIDE DEF r
<1>2. CASE r = Idle
  BY <1>1, <1>2 DEF Idle, Stages, r
<1>3. CASE r \in [pc : Stages, route : Names, who : Whos]
  BY <1>1, <1>3 DEF At, Stages, r
<1>4. CASE r \in [pc : {"probed"}, route : {"/health"}, healthy : BOOLEAN]
  <2>1. r.pc = "probed" /\ r.route = "/health"
    BY <1>4
  <2> QED BY <1>1, <2>1, HealthRoute DEF r, Names, Stages
<1>5. CASE r \in [pc : {"sent"}, route : Names, status : Statuses, shape : Shapes,
                  message : Locales, header : Locales]
  BY <1>1, <1>5 DEF r, Stages
<1> QED BY <1>1, <1>2, <1>3, <1>4, <1>5 DEF Request, Names, Whos, Stages

LEMMA StageIsRequest ==
  ASSUME NEW pc \in Stages, NEW route \in Names, NEW who \in Whos
  PROVE  At(pc, route, who) \in Request /\ At(pc, route, who).pc = pc
         /\ At(pc, route, who).route = route
BY DEF At, Request, Names, Whos, Stages

(* The error handler's table.                                              *)
LEMMA ErrorBodies ==
  /\ \A s \in {400, 422} : ErrorHandler(HttpError(s)) = Body(s, "errors")
  /\ \A s \in {401, 403, 404} : ErrorHandler(HttpError(s)) = Body(s, "null")
  /\ ErrorHandler(Invalid) = Body(422, "errors")
  /\ ErrorHandler(Malformed) = Body(400, "errors")
  /\ ErrorHandler(TooLarge) = Body(413, "null")
  /\ ErrorHandler(WrongMedia) = Body(415, "null")
  /\ ErrorHandler(TooMany) = Body(429, "bare")
  /\ ErrorHandler(Unhandled) = Body(500, "null")
<1>1. \A s \in {400, 422} : ErrorHandler(HttpError(s)) = Body(s, "errors")
  BY DEF ErrorHandler, HttpError
<1>2. \A s \in {401, 403, 404} : ErrorHandler(HttpError(s)) = Body(s, "null")
  <2> SUFFICES ASSUME NEW s \in {401, 403, 404}
               PROVE  ErrorHandler(HttpError(s)) = Body(s, "null")
    OBVIOUS
  <2> DEFINE e == HttpError(s)
  <2>1. e.class = "HttpError" /\ e.status = s /\ e.code = "none"
    BY DEF HttpError
  <2>2. ~e.fields
    <3>1. s \notin {400, 422}
      OBVIOUS
    <3>2. e.fields => s \in {400, 422}
      BY ZenonT(40) DEF HttpError
    <3> QED BY <3>1, <3>2
  <2> HIDE DEF e
  <2>3. ErrorHandler(e) = Body(s, "null")
    BY <2>1, <2>2 DEF ErrorHandler
  <2> QED BY <2>3 DEF e
<1>3. ErrorHandler(Invalid) = Body(422, "errors")
  BY DEF ErrorHandler, FastifyError, Invalid
<1>4. ErrorHandler(Malformed) = Body(400, "errors")
  BY DEF ErrorHandler, FastifyError, Malformed
<1>5. ErrorHandler(TooLarge) = Body(413, "null")
  BY DEF ErrorHandler, FastifyError, TooLarge
<1>6. ErrorHandler(WrongMedia) = Body(415, "null")
  BY DEF ErrorHandler, FastifyError, WrongMedia
<1>7. ErrorHandler(TooMany) = Body(429, "bare")
  BY DEF ErrorHandler, FastifyError, TooMany
<1>8. ErrorHandler(Unhandled) = Body(500, "null")
  BY DEF ErrorHandler, FastifyError, Unhandled
<1> QED BY <1>1, <1>2, <1>3, <1>4, <1>5, <1>6, <1>7, <1>8

LEMMA SchemasOf ==
  /\ "data" \in Schema(200) /\ "data" \in Schema(201)
  /\ "errors" \in Schema(400) /\ "errors" \in Schema(422)
  /\ \A s \in {401, 403, 404, 500, 503} : "null" \in Schema(s)
BY DEF Schema

(* 500 is either declared, with a null body, or the limiter's.             *)
LEMMA FailureIsAnswered ==
  ASSUME NEW c \in Clients, Throw(c, Unhandled),
         req[c].pc = "limit" \/ 500 \in Routes[req[c].route].declares
  PROVE  Answered(c)
<1>1. Send(c, Body(500, "null"))
  BY ErrorBodies DEF Throw
<1>2. Allowed(req[c], 500, "null")
  BY SchemasOf DEF Allowed, OfTheFramework
<1> QED BY <1>1, <1>2 DEF Answered, Statuses, Shapes

LEMMA InRoutes ==
  ASSUME NEW n \in DOMAIN Routes
  PROVE  /\ WellDeclared(Routes[n])
         /\ n \notin Bare => 500 \in Routes[n].declares
BY RoutesAreDeclared DEF Table

-----------------------------------------------------------------------------
LEMMA AuthenticateOutcome ==
  ASSUME AnswersInv, NEW c \in Clients, Authenticate(c)
  PROVE  Answered(c) \/ Advances(c)
<1> DEFINE r == req[c]
           i == IF r.who = None THEN None ELSE identity[r.who]
<1>1. r.pc = "authenticate" /\ r.route \in DOMAIN Routes /\ Routes[r.route].auth
  BY DEF AnswersInv, Guarded, Sound, Authenticate
<1>2. r.route # "login"
  BY <1>1, LoginRoute
<1>3. /\ {401, 500} \subseteq Routes[r.route].declares
      /\ Routes[r.route].needs # Open => 403 \in Routes[r.route].declares
  BY <1>1, InRoutes DEF WellDeclared
<1>4. CASE Throw(c, HttpError(401))
  <2>1. Send(c, Body(401, "null"))
    BY <1>4, ErrorBodies DEF Throw
  <2>2. Allowed(r, 401, "null")
    BY <1>3, SchemasOf DEF Allowed
  <2> QED BY <1>2, <2>1, <2>2 DEF Answered, Statuses, Shapes
<1>5. CASE ~Passes(Routes[r.route].needs, i) /\ Throw(c, HttpError(403))
  <2>1. Send(c, Body(403, "null"))
    BY <1>5, ErrorBodies DEF Throw
  <2>2. Routes[r.route].needs # Open
    BY <1>5 DEF Passes, Open
  <2>3. Allowed(r, 403, "null")
    BY <1>3, <2>2, SchemasOf DEF Allowed
  <2> QED BY <1>2, <2>1, <2>3 DEF Answered, Statuses, Shapes
<1>6. CASE Become(c, At("limit", r.route, None))
  <2>1. At("limit", r.route, None) \in Request /\ At("limit", r.route, None).pc = "limit"
    BY <1>1, StageIsRequest DEF Names, Whos, Stages
  <2> QED BY <1>6, <2>1 DEF Advances, Sound
<1>7. CASE Throw(c, Unhandled)
  BY <1>3, <1>7, FailureIsAnswered
<1>8. \/ Throw(c, HttpError(401))
      \/ ~Passes(Routes[r.route].needs, i) /\ Throw(c, HttpError(403))
      \/ Become(c, At("limit", r.route, None))
      \/ Throw(c, Unhandled)
  BY DEF Authenticate
<1> QED BY <1>4, <1>5, <1>6, <1>7, <1>8

LEMMA MovesOn ==
  ASSUME AnswersInv, NEW c \in Clients, NEW to \in {"limit", "parse", "handle"},
         req[c].pc \in Stages, Become(c, [req[c] EXCEPT !.pc = to])
  PROVE  Advances(c)
<1> DEFINE r == req[c]
<1>1. r = At(r.pc, r.route, r.who) /\ r.who \in Whos /\ r.route \in Names
  <2>1. TypeOK /\ r.pc # "idle"
    BY DEF AnswersInv, Stages
  <2> QED BY <2>1, StagesOfRequests
<1>2. [r EXCEPT !.pc = to] = At(to, r.route, r.who)
  BY <1>1 DEF At
<1>3. At(to, r.route, r.who) \in Request /\ At(to, r.route, r.who).pc = to
  BY <1>1, StageIsRequest DEF Stages
<1> QED BY <1>2, <1>3 DEF Advances, Sound

LEMMA RateLimitOutcome ==
  ASSUME AnswersInv, NEW c \in Clients, RateLimit(c)
  PROVE  Answered(c) \/ Advances(c)
<1>1. CASE Become(c, [req[c] EXCEPT !.pc = "parse"])
  BY <1>1, MovesOn DEF RateLimit, Stages
<1>2. CASE Throw(c, TooMany)
  <2>1. Send(c, Body(429, "bare"))
    BY <1>2, ErrorBodies DEF Throw
  <2>2. Allowed(req[c], 429, "bare")
    BY DEF Allowed, OfTheFramework, RateLimit
  <2> QED BY <2>1, <2>2 DEF Answered, Statuses, Shapes
<1>3. CASE Throw(c, Unhandled)
  BY <1>3, FailureIsAnswered DEF RateLimit
<1> QED BY <1>1, <1>2, <1>3 DEF RateLimit

LEMMA ParseOutcome ==
  ASSUME AnswersInv, NEW c \in Clients, Parse(c)
  PROVE  Answered(c) \/ Advances(c)
<1> DEFINE route == req[c].route
<1>1. CASE Become(c, [req[c] EXCEPT !.pc = "handle"])
  BY <1>1, MovesOn DEF Parse, Stages
<1>2. route \in Names
  BY StagesOfRequests DEF AnswersInv, Parse
<1>3. ASSUME NEW e \in BodyErrors(route), Throw(c, e) PROVE Answered(c)
  <2>1. BodyErrors(route) # {} /\ e \in {TooLarge, WrongMedia, Malformed}
    BY <1>3 DEF BodyErrors
  <2>2. PICK s \in {<<413, "null">>, <<415, "null">>, <<400, "errors">>} :
          Send(c, Body(s[1], s[2]))
    BY <1>3, <2>1, ErrorBodies DEF Throw
  <2>3. Allowed(req[c], s[1], s[2])
    BY <2>1, <2>2 DEF Allowed, OfTheFramework, Parse
  <2> QED BY <2>2, <2>3 DEF Answered, Statuses, Shapes
<1>4. CASE route # "unmatched" /\ Routes[route].validates /\ Throw(c, Invalid)
  <2>1. Send(c, Body(422, "errors"))
    BY <1>4, ErrorBodies DEF Throw
  <2>2. 422 \in Routes[route].declares
    BY <1>2, <1>4, InRoutes DEF Names, WellDeclared
  <2>3. Allowed(req[c], 422, "errors")
    BY <2>2, SchemasOf DEF Allowed
  <2> QED BY <2>1, <2>3 DEF Answered, Statuses, Shapes
<1>5. ASSUME NEW e \in ParseErrors(route), Throw(c, e) PROVE Answered(c) \/ Advances(c)
  <2>1. \/ e \in BodyErrors(route)
        \/ route # "unmatched" /\ Routes[route].validates /\ e \in {Invalid}
    BY <1>5, Zenon DEF ParseErrors
  <2> QED BY <1>3, <1>4, <1>5, <2>1
<1> QED BY <1>1, <1>5 DEF Parse

LEMMA HandleOutcome ==
  ASSUME AnswersInv, NEW c \in Clients, Handle(c)
  PROVE  Answered(c)
<1> DEFINE route == req[c].route
<1>1. route \in DOMAIN Routes /\ route \notin {"login", "unmatched"}
  BY StagesOfRequests DEF AnswersInv, Handle, Names
<1>2. WellDeclared(Routes[route])
  BY <1>1, InRoutes
<1>3. CASE Reply(c, Routes[route].ok)
  <2>1. Send(c, Body(Routes[route].ok, "data"))
    BY <1>3 DEF Reply
  <2>2. Routes[route].ok \in {200, 201} /\ Routes[route].ok \in Routes[route].declares
    BY <1>2 DEF WellDeclared
  <2>3. Allowed(req[c], Routes[route].ok, "data")
    BY <2>2, SchemasOf DEF Allowed
  <2>4. Routes[route].ok \in Statuses /\ "data" \in Shapes
    BY <2>2 DEF Statuses, Shapes
  <2> HIDE DEF route
  <2> QED BY <1>1, <2>1, <2>3, <2>4 DEF Answered, route
<1>4. ASSUME NEW s \in Routes[route].throws, Throw(c, HttpError(s)) PROVE Answered(c)
  <2>1. s \in {400, 401, 404, 422} /\ s \in Routes[route].declares
    BY <1>2 DEF WellDeclared
  <2>2. PICK shape \in {"errors", "null"} : Send(c, Body(s, shape)) /\ shape \in Schema(s)
    BY <1>4, <2>1, ErrorBodies, SchemasOf DEF Throw
  <2>3. Allowed(req[c], s, shape)
    BY <2>1, <2>2 DEF Allowed
  <2> QED BY <1>1, <2>1, <2>2, <2>3 DEF Answered, Statuses, Shapes
<1>5. CASE route \notin DOMAIN HomeRoutes /\ Throw(c, Unhandled)
  <2>1. route \notin Bare
    BY <1>5, HomeIsBare DEF Handle, Bare
  <2> QED BY <1>1, <1>5, <2>1, InRoutes, FailureIsAnswered
<1> QED BY <1>3, <1>4, <1>5 DEF Handle

LEMMA NotFoundOutcome ==
  ASSUME AnswersInv, NEW c \in Clients, NotFound(c)
  PROVE  Answered(c)
<1>1. Allowed(req[c], 404, "null")
  BY DEF Allowed, NotFound
<1>2. req[c].route # "login" /\ Send(c, Body(404, "null"))
  BY DEF NotFound
<1> QED BY <1>1, <1>2 DEF Answered, Statuses, Shapes

LEMMA CheckPasswordOutcome ==
  ASSUME AnswersInv, NEW c \in Clients, CheckPassword(c)
  PROVE  Answered(c) \/ Advances(c)
<1> DEFINE r == req[c]
<1>1. r.route = "login" /\ r.pc = "handle"
  BY DEF CheckPassword
<1>2. CASE Throw(c, Unhandled)
  BY <1>1, <1>2, LoginRoute, FailureIsAnswered
<1>3. CASE Throw(c, HttpError(400))
  <2>1. Send(c, Body(400, "errors"))
    BY <1>3, ErrorBodies DEF Throw
  <2>2. Allowed(r, 400, "errors")
    BY <1>1, LoginRoute, SchemasOf DEF Allowed
  <2> QED BY <2>1, <2>2 DEF Answered, Statuses, Shapes
<1>4. CASE Become(c, [r EXCEPT !.pc = "load"])
  <2>1. r = At(r.pc, r.route, r.who) /\ r.who \in Whos /\ r.route \in Names
    BY <1>1, StagesOfRequests DEF AnswersInv, Stages
  <2>2. [r EXCEPT !.pc = "load"] = At("load", r.route, r.who)
    BY <2>1 DEF At
  <2>3. /\ At("load", r.route, r.who) \in Request /\ At("load", r.route, r.who).pc = "load"
        /\ At("load", r.route, r.who).route = "login"
    BY <1>1, <2>1, StageIsRequest DEF Stages
  <2> QED BY <1>4, <2>2, <2>3 DEF Advances, Sound
<1> QED BY <1>2, <1>3, <1>4 DEF CheckPassword

LEMMA LoadUserOutcome ==
  ASSUME AnswersInv, NEW c \in Clients, LoadUser(c)
  PROVE  Answered(c)
<1>1. req[c].route = "login" /\ req[c].pc = "load"
  BY DEF LoadUser, AnswersInv, Guarded, Sound
<1>2. CASE identity[req[c].who] = None /\ Throw(c, HttpError(401))
  <2>1. Send(c, Body(401, "null"))
    BY <1>2, ErrorBodies DEF Throw
  <2>2. Allowed(req[c], 401, "null")
    BY <1>1 DEF Allowed
  <2> QED BY <1>1, <1>2, <2>1, <2>2 DEF Answered, Statuses, Shapes
<1>3. CASE Reply(c, 200)
  <2>1. Allowed(req[c], 200, "data")
    BY <1>1, LoginRoute, SchemasOf DEF Allowed
  <2> QED BY <1>3, <2>1 DEF Answered, Reply, Statuses, Shapes
<1>4. CASE Throw(c, Unhandled)
  BY <1>1, <1>4, LoginRoute, FailureIsAnswered
<1> QED BY <1>2, <1>3, <1>4 DEF LoadUser

LEMMA ProbeOutcome ==
  ASSUME AnswersInv, NEW c \in Clients, ProbeDatabase(c) \/ ProbeRedis(c)
  PROVE  Answered(c) \/ Advances(c)
<1>1. CASE ProbeDatabase(c)
  <2> DEFINE r == Probed("/health", "database" \in up)
  <2>1. r \in Request /\ r.pc = "probed"
    BY DEF Probed, Request
  <2> QED BY <1>1, <2>1 DEF ProbeDatabase, Advances, Sound
<1>2. CASE ProbeRedis(c)
  <2>1. req[c].route = "/health"
    BY <1>2, StagesOfRequests DEF AnswersInv, ProbeRedis
  <2>2. Allowed(req[c], 200, "data") /\ Allowed(req[c], 503, "null")
    BY <2>1, HealthRoute, SchemasOf DEF Allowed
  <2>3. Send(c, Body(200, "data")) \/ Send(c, Body(503, "null"))
    BY <1>2 DEF ProbeRedis, Reply
  <2> QED BY <2>1, <2>2, <2>3 DEF Answered, Statuses, Shapes
<1> QED BY <1>1, <1>2

-----------------------------------------------------------------------------
LEMMA AnsweredOrAdvances ==
  ASSUME AnswersInv, NEW c \in Clients, Continue(c)
  PROVE  Answered(c) \/ Advances(c)
BY AuthenticateOutcome, RateLimitOutcome, ParseOutcome, HandleOutcome, NotFoundOutcome,
   CheckPasswordOutcome, LoadUserOutcome, ProbeOutcome DEF Continue

LEMMA ChangedIdentity ==
  ASSUME TypeOK, NEW what \in {"nothing", "user", "catalogue"}, NEW f \in Changed(what)
  PROVE  f \in [Users -> Identities \cup {None}]
<1>1. CASE what = "nothing"
  <2>1. f \in {identity}
    BY <1>1 DEF Changed
  <2> QED BY <2>1 DEF TypeOK
<1>2. CASE what = "user"
  <2>1. f \in {[identity EXCEPT ![u] = i] : u \in Users, i \in Identities \cup {None}}
    BY <1>2 DEF Changed
  <2> QED BY <2>1 DEF TypeOK
<1>3. CASE what = "catalogue"
  <2>1. f \in {g \in [Users -> Identities \cup {None}] :
                 \A u \in Users : g[u] = None <=> identity[u] = None}
    BY <1>3 DEF Changed
  <2> QED BY <2>1
<1> QED BY <1>1, <1>2, <1>3

(* What a step leaves of the rest of the state.                            *)
LEMMA ContinueKeepsTypes ==
  ASSUME AnswersInv, NEW c \in Clients, Continue(c)
  PROVE  /\ UNCHANGED <<store, up>>
         /\ identity' \in [Users -> Identities \cup {None}]
         /\ used' \in 0..Limit + 1
<1>1. identity \in [Users -> Identities \cup {None}] /\ used \in 0..Limit + 1 /\ Limit \in Nat
  BY LimitIsPositive DEF AnswersInv, TypeOK
<1>2. CASE Authenticate(c)
  BY <1>1, <1>2 DEF Authenticate
<1>3. CASE RateLimit(c)
  BY <1>1, <1>3 DEF RateLimit
<1>4. CASE Parse(c)
  BY <1>1, <1>4 DEF Parse
<1>5. CASE Handle(c)
  <2>1. req[c].route \in DOMAIN Routes
    BY <1>5, StagesOfRequests DEF AnswersInv, Handle, Names
  <2>2. Routes[req[c].route].changes \in {"nothing", "user", "catalogue"}
    BY <2>1, InRoutes DEF WellDeclared
  <2>3. UNCHANGED identity \/ identity' \in Changed(Routes[req[c].route].changes)
    BY <1>5 DEF Handle
  <2>4. identity' \in [Users -> Identities \cup {None}]
    BY <1>1, <2>2, <2>3, ChangedIdentity DEF AnswersInv
  <2> QED BY <1>1, <1>5, <2>4 DEF Handle
<1>6. CASE NotFound(c) \/ CheckPassword(c) \/ LoadUser(c)
  BY <1>1, <1>6 DEF NotFound, CheckPassword, LoadUser
<1>7. CASE ProbeDatabase(c) \/ ProbeRedis(c)
  BY <1>1, <1>7 DEF ProbeDatabase, ProbeRedis
<1> QED BY <1>2, <1>3, <1>4, <1>5, <1>6, <1>7 DEF Continue

LEMMA RequestReplaced ==
  ASSUME AnswersInv, NEW c \in Clients, NEW r \in Request, Sound(r), Become(c, r),
         store' \in [Clients -> Locales], identity' \in [Users -> Identities \cup {None}],
         used' \in 0..Limit + 1, up' \in SUBSET Dependencies
  PROVE  AnswersInv'
<1>1. req \in [Clients -> Request] /\ req' = [req EXCEPT ![c] = r]
  BY DEF AnswersInv, TypeOK, Become
<1>2. req' \in [Clients -> Request]
  BY <1>1
<1>3. \A d \in Clients : req'[d] = IF d = c THEN r ELSE req[d]
  BY <1>1
<1>4. \A d \in Clients : Sound(req'[d])
  BY <1>3 DEF AnswersInv, Guarded
<1> QED BY <1>2, <1>4 DEF AnswersInv, TypeOK, Guarded

LEMMA AnswerIsRequest ==
  ASSUME AnswersInv, NEW c \in Clients, req[c].pc # "idle", Answered(c)
  PROVE  \E r \in Request : Become(c, r) /\ Sound(r)
<1>1. PICK status \in Statuses, shape \in Shapes :
        Send(c, Body(status, shape)) /\ Allowed(req[c], status, shape)
  BY DEF Answered
<1> DEFINE r == [pc |-> "sent", route |-> req[c].route, status |-> status, shape |-> shape,
                 message |-> store[c], header |-> Speaks[c]]
<1>2. Become(c, r)
  BY <1>1 DEF Send, Body, Context
<1>3. req[c].route \in Names /\ store[c] \in Locales /\ Speaks[c] \in Locales
  BY StagesOfRequests, EveryClientSends DEF AnswersInv, TypeOK
<1>4. r \in Request
  BY <1>3 DEF Request, Names
<1>5. Sound(r)
  BY DEF Sound
<1> QED BY <1>2, <1>4, <1>5

LEMMA ArriveKeepsAnswers ==
  ASSUME AnswersInv, NEW c \in Clients, Arrive(c)
  PROVE  AnswersInv'
<1>1. PICK route \in Sends[c], who \in Users \cup {None} :
        /\ store' = [store EXCEPT ![Context(c)] = Speaks[c]]
        /\ Become(c, At(IF route = "unmatched" THEN "parse"
                        ELSE IF Routes[route].auth THEN "authenticate" ELSE "limit", route, who))
        /\ UNCHANGED <<identity, used, up>>
  BY DEF Arrive
<1>2. route \in Names
  BY RoutesExist DEF Names
<1>3. store' \in [Clients -> Locales]
  BY <1>1, EveryClientSends DEF Context, AnswersInv, TypeOK
<1>4. PICK pc \in {"parse", "authenticate", "limit"} :
        /\ Become(c, At(pc, route, who))
        /\ pc = "authenticate" => route # "unmatched" /\ Routes[route].auth
  <2>1. CASE route = "unmatched"
    BY <1>1, <2>1
  <2>2. CASE route # "unmatched" /\ Routes[route].auth
    BY <1>1, <2>2
  <2>3. CASE route # "unmatched" /\ ~Routes[route].auth
    BY <1>1, <2>3
  <2> QED BY <2>1, <2>2, <2>3
<1> DEFINE r == At(pc, route, who)
<1>5. r \in Request /\ r.pc = pc /\ r.route = route
  BY <1>2, StageIsRequest DEF Whos, Stages
<1> HIDE DEF r
<1>6. Sound(r)
  BY <1>2, <1>4, <1>5 DEF Sound, Names
<1>7. Become(c, r)
  BY <1>4 DEF r
<1>8. /\ identity' \in [Users -> Identities \cup {None}] /\ used' \in 0..Limit + 1
      /\ up' \in SUBSET Dependencies
  BY <1>1 DEF AnswersInv, TypeOK
<1> QED BY <1>3, <1>5, <1>6, <1>7, <1>8, RequestReplaced

LEMMA ContinueKeepsAnswers ==
  ASSUME AnswersInv, NEW c \in Clients, Continue(c)
  PROVE  AnswersInv'
<1>1. req[c].pc # "idle"
  BY DEF Continue, Authenticate, RateLimit, Parse, Handle, NotFound, CheckPassword, LoadUser,
         ProbeDatabase, ProbeRedis
<1>2. PICK r \in Request : Become(c, r) /\ Sound(r)
  BY <1>1, AnsweredOrAdvances, AnswerIsRequest DEF Advances
<1>3. /\ store' \in [Clients -> Locales] /\ up' \in SUBSET Dependencies
      /\ identity' \in [Users -> Identities \cup {None}] /\ used' \in 0..Limit + 1
  BY ContinueKeepsTypes DEF AnswersInv, TypeOK
<1> QED BY <1>2, <1>3, RequestReplaced

LEMMA AnswersInitially == Init => AnswersInv
<1> SUFFICES ASSUME Init PROVE AnswersInv
  OBVIOUS
<1>1. Idle \in Request /\ Sound(Idle)
  BY DEF Request, Idle, Sound
<1>2. req \in [Clients -> Request] /\ \A c \in Clients : Sound(req[c])
  BY <1>1 DEF Init
<1>3. 0 \in 0..Limit + 1
  BY LimitIsPositive
<1> QED BY <1>2, <1>3 DEF Init, AnswersInv, TypeOK, Guarded, Locales, Dependencies

LEMMA AnswersInductive == AnswersInv /\ [Next]_vars => AnswersInv'
<1> SUFFICES ASSUME AnswersInv, [Next]_vars PROVE AnswersInv'
  OBVIOUS
<1>1. ASSUME NEW c \in Clients, Done(c) PROVE AnswersInv'
  <2>1. Idle \in Request /\ Sound(Idle) /\ Become(c, Idle)
    BY <1>1 DEF Request, Idle, Sound, Done
  <2>2. /\ store' \in [Clients -> Locales] /\ up' \in SUBSET Dependencies
        /\ identity' \in [Users -> Identities \cup {None}] /\ used' \in 0..Limit + 1
    BY <1>1 DEF Done, AnswersInv, TypeOK
  <2> QED BY <2>1, <2>2, RequestReplaced
<1>2. CASE NewWindow
  <2>1. 0 \in 0..Limit + 1
    BY LimitIsPositive
  <2> QED BY <1>2, <2>1 DEF NewWindow, AnswersInv, TypeOK, Guarded
<1>3. CASE Outage
  <2>1. up' \in SUBSET Dependencies
    BY <1>3, FaultsAreDependencies DEF Outage, AnswersInv, TypeOK
  <2> QED BY <1>3, <2>1 DEF Outage, AnswersInv, TypeOK, Guarded
<1>4. CASE UNCHANGED vars
  BY <1>4 DEF vars, AnswersInv, TypeOK, Guarded
<1> QED BY <1>1, <1>2, <1>3, <1>4, ArriveKeepsAnswers, ContinueKeepsAnswers DEF Next

(* Every client has one well-formed request, whatever was thrown on its    *)
(* way, and the rest of the state its types.                               *)
THEOREM TypeCorrect == Spec => []TypeOK
<1>1. AnswersInv => TypeOK
  BY DEF AnswersInv
<1> QED BY <1>1, AnswersInitially, AnswersInductive, PTL DEF Spec

(* A step that answers a request leaves the rest alone, and what it        *)
(* answers is what Answered says of it.                                    *)
LEMMA AnswerOfStep ==
  ASSUME AnswersInv, Next, NEW c \in Clients, req[c].pc # "sent", req'[c].pc = "sent"
  PROVE  /\ req[c].pc # "idle"
         /\ req'[c].route = req[c].route
         /\ Allowed(req[c], req'[c].status, req'[c].shape)
         /\ req[c].route = "login" /\ req'[c].status = 401 =>
              req[c].pc = "load" /\ identity[req[c].who] = None
<1>1. req \in [Clients -> Request]
  BY DEF AnswersInv, TypeOK
<1>2. ASSUME NEW d \in Clients, NEW r, Become(d, r), d # c \/ r.pc # "sent"
      PROVE  FALSE
  BY <1>1, <1>2 DEF Become
<1>3. ~UNCHANGED req
  OBVIOUS
<1>4. ASSUME NEW d \in Clients, Arrive(d) PROVE FALSE
  <2>1. PICK pc, route, who : /\ Become(d, At(pc, route, who))
                             /\ pc \in {"parse", "authenticate", "limit"}
    BY <1>4 DEF Arrive
  <2>2. At(pc, route, who).pc # "sent"
    BY <2>1 DEF At
  <2> QED BY <1>2, <2>1, <2>2
<1>5. ASSUME NEW d \in Clients, Done(d) PROVE FALSE
  <2>1. Become(d, Idle) /\ Idle.pc # "sent"
    BY <1>5 DEF Done, Idle
  <2> QED BY <1>2, <2>1
<1>6. PICK d \in Clients : Continue(d)
  BY <1>3, <1>4, <1>5 DEF Next, NewWindow, Outage
<1>7. Answered(d)
  BY <1>2, <1>6, AnsweredOrAdvances DEF Advances
<1>8. PICK status, shape :
        /\ Send(d, Body(status, shape))
        /\ Allowed(req[d], status, shape)
        /\ req[d].route = "login" /\ status = 401 =>
             req[d].pc = "load" /\ identity[req[d].who] = None
  BY <1>7 DEF Answered
<1> DEFINE r == [pc |-> "sent", route |-> req[d].route, status |-> status,
                 shape |-> shape, message |-> store[d], header |-> Speaks[d]]
<1>9. Become(d, r)
  BY <1>8 DEF Send, Body, Context
<1>10. r.status = status /\ r.shape = shape /\ r.route = req[d].route
  OBVIOUS
<1> HIDE DEF r
<1>11. c = d
  BY <1>2, <1>9
<1>12. req'[c] = r
  BY <1>1, <1>9, <1>11 DEF Become
<1>13. req[c].pc # "idle"
  BY <1>6, <1>11 DEF Continue, Authenticate, RateLimit, Parse, Handle, NotFound, CheckPassword,
                     LoadUser, ProbeDatabase, ProbeRedis
<1> QED BY <1>8, <1>10, <1>11, <1>12, <1>13

(* No route of the table, in whatever order its requests meet the hooks,   *)
(* the limiter, the parser, their services' errors and failing             *)
(* dependencies, answers a status its schema.response does not list, but   *)
(* for the refusals of the limiter and of the parser of bodies, each from  *)
(* its own step, and the login whose user is gone.                         *)
THEOREM StatusesStayDeclared == Spec => StatusesAreDeclared
<1> DEFINE Declared(c) ==
      LET r == req[c]  a == req'[c] IN
        r.pc # "sent" /\ a.pc = "sent" /\ a.route # "unmatched" =>
          \/ a.status \in Routes[a.route].declares /\ a.shape \in Schema(a.status)
          \/ OfTheFramework(r, a.status)
          \/ r.route = "login" /\ r.pc = "load" /\ a.status = 401
<1>1. AnswersInv /\ [Next]_vars => [\A c \in Clients : Declared(c)]_vars
  <2> SUFFICES ASSUME AnswersInv, Next, NEW c \in Clients PROVE Declared(c)
    BY DEF vars
  <2> QED BY AnswerOfStep DEF Allowed
<1> QED BY <1>1, AnswersInitially, AnswersInductive, PTL DEF Spec, StatusesAreDeclared

(* A login's 401 comes from a step that loads a user who is gone: never    *)
(* from a wrong password or an unknown address.                            *)
THEOREM LoginsAreRefusedOnlyByRace == Spec => LoginRefusedOnlyByRace
<1> DEFINE Refused(c) ==
      req[c].pc \notin {"idle", "sent"} /\ req'[c].pc = "sent" /\ req[c].route = "login" =>
        (req'[c].status = 401 => req[c].pc = "load" /\ identity[req[c].who] = None)
<1>1. AnswersInv /\ [Next]_vars => [\A c \in Clients : Refused(c)]_vars
  <2> SUFFICES ASSUME AnswersInv, Next, NEW c \in Clients PROVE Refused(c)
    BY DEF vars
  <2> QED BY AnswerOfStep
<1> QED BY <1>1, AnswersInitially, AnswersInductive, PTL DEF Spec, LoginRefusedOnlyByRace
=============================================================================
