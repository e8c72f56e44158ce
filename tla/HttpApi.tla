------------------------------ MODULE HttpApi ------------------------------
(***************************************************************************)
(* A request on its way through the Fastify application: the i18n hook,    *)
(* the module's authenticate hook, the route's guard, the rate limiter     *)
(* (which adds itself behind the guard), the body parser and the Zod       *)
(* schemas, the handler, and the error handler every throw ends in.        *)
(*                                                                         *)
(* A step ends where the code awaits.  What the handlers write is modelled *)
(* by Identity, RefreshTokens and SingleUseTokens; here a handler is what  *)
(* it may answer, and what it may do to the identities requests run under. *)
(* Fastify and @fastify/rate-limit are external: the order of the hooks    *)
(* and the errors they throw are theirs.                                   *)
(***************************************************************************)
EXTENDS Naturals, FiniteSets

CONSTANTS
  Clients,     \* the connections; each has one request under way at a time
  Sends,       \* the routes each of them sends requests to
  Speaks,      \* the locale its Accept-Language header asks for
  Users,
  Identities,  \* the roles and permissions a user may have
  Limit,       \* RATE_LIMIT_MAX
  Faults,      \* the dependencies that may fail
  None

Locales == {"en", "id"}
Dependencies == {"database", "redis"}

ASSUME EveryClientSends == DOMAIN Sends = Clients /\ Speaks \in [Clients -> Locales]
ASSUME IdentityShape ==
  \A i \in Identities : DOMAIN i = {"roles", "permissions"} /\ i # None
ASSUME LimitIsPositive == Limit \in Nat \ {0}
ASSUME FaultsAreDependencies == Faults \subseteq Dependencies
ASSUME NoneIsNobody == None \notin Users

VARIABLES
  req,       \* each client's request
  store,     \* the AsyncLocalStorage of locales, by asynchronous context
  identity,  \* what the session cache answers for a user: None when not live and active
  used,      \* the limiter's counter in Redis, for the clients' one address
  up         \* the dependencies that answer

vars == <<req, store, identity, used, up>>

-----------------------------------------------------------------------------
(* The routes.  needs is the guard's list, validates whether a Zod schema  *)
(* stands before the handler, throws the statuses of what the services     *)
(* throw, and declares schema.response.                                    *)
Open == [roles |-> {}, permissions |-> {}]
PermissionGuard(p) == [roles |-> {}, permissions |-> p]
RoleGuard(r) == [roles |-> r, permissions |-> {}]

Route(method, auth, needs, takes, ok, throws, declares) ==
  [method |-> method, auth |-> auth, needs |-> needs, validates |-> takes # {},
   ok |-> ok, throws |-> throws, declares |-> declares, changes |-> "nothing"]

Changing(what, r) == [r EXCEPT !.changes = what]

ItemErrors == {401, 403, 404, 422, 500}

Public(method, takes, ok, throws, declares) ==
  Route(method, FALSE, Open, takes, ok, throws, declares)

(* A registration under a name, and one plugin's after another's.          *)
Named(name, r) == [n \in {name} |-> r]

f ++ g ==
  [n \in DOMAIN f \cup DOMAIN g |-> IF n \in DOMAIN f THEN f[n] ELSE g[n]]

HomeRoutes ==
  Named("/", Public("GET", {}, 200, {}, {200})) ++ Named("/live", Public("GET", {}, 200, {}, {200}))

HealthRoutes == Named("/health", Public("GET", {}, 200, {}, {200, 503}))

(* The two routes that end in a session, and the two that begin an account. *)
RegistrationRoutes ==
  Named("login", Public("POST", {"body"}, 200, {400}, {200, 400, 422, 500}))
  ++ Named("register", Public("POST", {"body"}, 201, {422}, {201, 422, 500}))
  ++ Named("resend-verification", Public("POST", {"body"}, 200, {}, {200, 422, 500}))
  ++ Named("verify-email", Public("POST", {"body"}, 200, {400}, {200, 400, 422, 500}))

RecoveryRoutes ==
  Named("forgot-password", Public("POST", {"body"}, 200, {}, {200, 422, 500}))
  ++ Named("reset-password", Public("POST", {"body"}, 200, {400}, {200, 400, 422, 500}))
  ++ Named("refresh-token", Public("POST", {"body"}, 200, {401}, {200, 401, 422, 500}))

ProfileRoutes ==
  Named("profile", Route("GET", TRUE, Open, {}, 200, {}, {200, 401, 500}))
  ++ Named("profile edit",
       Changing("user",
         Route("PATCH", TRUE, Open, {"body"}, 200, {401, 422}, {200, 401, 422, 500})))
  ++ Named("profile password",
       Route("PATCH", TRUE, Open, {"body"}, 200, {401, 422}, {200, 401, 422, 500}))

(* The five routes of a resource under /settings, each behind the          *)
(* permission that has its name.                                           *)
Permitted(method, p, takes, ok, throws, declares) ==
  Route(method, TRUE, PermissionGuard({p}), takes, ok, throws, declares)

List(p) ==
  Named(p, Permitted("GET", p, {"query"}, 200, {400}, {200, 400, 401, 403, 422, 500}))
Create(p) ==
  Named(p, Permitted("POST", p, {"body"}, 201, {422}, {201, 401, 403, 422, 500}))
Detail(p) ==
  Named(p, Permitted("GET", p, {"params"}, 200, {404}, {200} \cup ItemErrors))
Edit(p, what) ==
  Named(p, Changing(what,
    Permitted("PATCH", p, {"params", "body"}, 200, {404, 422}, {200} \cup ItemErrors)))
Delete(p, what) ==
  Named(p, Changing(what,
    Permitted("DELETE", p, {"params"}, 200, {404}, {200} \cup ItemErrors)))

UserRoutes ==
  List("user list") ++ Create("user create") ++ Detail("user detail")
  ++ Edit("user edit", "user") ++ Delete("user delete", "user")

UserAccountRoutes ==
  Named("user password",
    Route("POST", TRUE, RoleGuard({"superuser"}), {"params", "body"}, 200, {404},
          {200} \cup ItemErrors))
  ++ [s \in {"user verification", "user reset"} |->
        Route("POST", TRUE, PermissionGuard({"user create"}), {"params"}, 200, {404},
              {200} \cup ItemErrors)]

RoleRoutes ==
  List("role list") ++ Create("role create") ++ Detail("role detail")
  ++ Edit("role edit", "catalogue") ++ Delete("role delete", "catalogue")

PermissionRoutes ==
  List("permission list") ++ Create("permission create") ++ Detail("permission detail")
  ++ Edit("permission edit", "catalogue") ++ Delete("permission delete", "catalogue")

SelectOptionRoutes ==
  [s \in {"select permissions", "select roles"} |->
     Route("GET", TRUE, RoleGuard({"superuser"}), {}, 200, {}, {200, 401, 403, 500})]

Routes ==
  HomeRoutes ++ HealthRoutes ++ RegistrationRoutes ++ RecoveryRoutes ++ ProfileRoutes
  ++ UserRoutes ++ UserAccountRoutes ++ RoleRoutes ++ PermissionRoutes ++ SelectOptionRoutes

ASSUME RoutesExist == \A c \in Clients : Sends[c] \subseteq DOMAIN Routes \cup {"unmatched"}

-----------------------------------------------------------------------------
(* What is thrown, and what is made of it.  An HttpError carries a status  *)
(* of its own; a FastifyError a code, and a statusCode that is 400 for a   *)
(* schema failure too.                                                     *)
HttpError(status) ==
  [class |-> "HttpError", status |-> status, fields |-> status \in {400, 422}, code |-> "none"]
FastifyError(code, status) ==
  [class |-> "FastifyError", status |-> status, fields |-> FALSE, code |-> code]

Invalid == FastifyError("FST_ERR_VALIDATION", 400)
TooLarge == FastifyError("FST_ERR_CTP_BODY_TOO_LARGE", 413)
WrongMedia == FastifyError("FST_ERR_CTP_INVALID_MEDIA_TYPE", 415)
Malformed == FastifyError("FST_ERR_CTP_INVALID_JSON_BODY", 400)
TooMany == FastifyError("none", 429)
Unhandled == FastifyError("none", 0)

Body(status, shape) == [status |-> status, shape |-> shape]

(* Mutants: an unknown error's own status is sent, which it need not have; *)
(* the domain errors are answered before their fields are looked at.       *)
ErrorHandlerEchoes(e) ==
  IF e.class = "HttpError" /\ e.fields THEN Body(e.status, "errors")
  ELSE IF e.code = "FST_ERR_VALIDATION" THEN Body(422, "errors")
  ELSE IF e.code = "FST_ERR_CTP_INVALID_JSON_BODY" THEN Body(400, "errors")
  ELSE IF e.status = 429 THEN Body(429, "bare")
  ELSE Body(e.status, "null")

ErrorHandlerForgetsFields(e) ==
  IF e.class = "HttpError" THEN Body(e.status, "null")
  ELSE IF e.code = "FST_ERR_VALIDATION" THEN Body(422, "errors")
  ELSE IF e.code = "FST_ERR_CTP_INVALID_JSON_BODY" THEN Body(400, "errors")
  ELSE IF e.status = 429 THEN Body(429, "bare")
  ELSE IF e.status \in 400..499 THEN Body(e.status, "null")
  ELSE Body(500, "null")

ErrorHandler(e) ==
  IF e.class = "HttpError" /\ e.fields THEN Body(e.status, "errors")
  ELSE IF e.code = "FST_ERR_VALIDATION" THEN Body(422, "errors")
  ELSE IF e.class = "HttpError" THEN Body(e.status, "null")
  ELSE IF e.code = "FST_ERR_CTP_INVALID_JSON_BODY" THEN Body(400, "errors")
  ELSE IF e.status = 429 THEN Body(429, "bare")
  ELSE IF e.status \in 400..499 THEN Body(e.status, "null")
  ELSE Body(500, "null")

(* The bodies the shared response schemas accept.                          *)
Schema(status) ==
  IF status \in {200, 201} THEN {"data"}
  ELSE IF status = 400 THEN {"errors", "null"}
  ELSE IF status = 422 THEN {"errors"}
  ELSE {"null"}

-----------------------------------------------------------------------------
Idle == [pc |-> "idle"]
At(pc, route, who) == [pc |-> pc, route |-> route, who |-> who]
Probed(route, healthy) == [pc |-> "probed", route |-> route, healthy |-> healthy]

Statuses == {200, 201, 400, 401, 403, 404, 413, 415, 422, 429, 500, 503}
Shapes == {"data", "errors", "null", "bare"}

Request ==
  {Idle}
  \cup [pc : {"authenticate", "limit", "parse", "handle", "load"},
        route : DOMAIN Routes \cup {"unmatched"}, who : Users \cup {None}]
  \cup [pc : {"probed"}, route : {"/health"}, healthy : BOOLEAN]
  \cup [pc : {"sent"}, route : DOMAIN Routes \cup {"unmatched"}, status : Statuses,
        shape : Shapes, message : Locales, header : Locales]

Become(c, r) == req' = [req EXCEPT ![c] = r]

(* Mutant: the locale is kept in a variable of the module.                 *)
ContextOfTheModule(c) == CHOOSE d \in Clients : TRUE

(* enterWith binds the store to the request's own chain of callbacks.      *)
Context(c) == c

(* t() translates with the store's locale, the onSend hook names the       *)
(* request's own.                                                          *)
Send(c, body) ==
  Become(c, [pc |-> "sent", route |-> req[c].route, status |-> body.status, shape |-> body.shape,
             message |-> store[Context(c)], header |-> Speaks[c]])

Throw(c, e) == Send(c, ErrorHandler(e))
Reply(c, status) == Send(c, Body(status, "data"))

TypeOK ==
  /\ req \in [Clients -> Request]
  /\ store \in [Clients -> Locales]
  /\ identity \in [Users -> Identities \cup {None}]
  /\ used \in 0..Limit + 1
  /\ up \in SUBSET Dependencies

Init ==
  /\ req = [c \in Clients |-> Idle]
  /\ store = [c \in Clients |-> "en"]
  /\ identity \in [Users -> Identities \cup {None}]
  /\ used = 0
  /\ up = Dependencies

(* The first hook enters the locale; it does not wait for anything.  who   *)
(* is the user of the bearer token, or of the credentials; None when they  *)
(* are missing or invalid.                                                 *)
Arrive(c) ==
  \E route \in Sends[c], who \in Users \cup {None} :
    /\ req[c] = Idle
    /\ route \in DOMAIN Routes /\ ~Routes[route].auth /\ route # "login" => who = None
    /\ store' = [store EXCEPT ![Context(c)] = Speaks[c]]
    /\ Become(c, At(IF route = "unmatched" THEN "parse"
                    ELSE IF Routes[route].auth THEN "authenticate" ELSE "limit", route, who))
    /\ UNCHANGED <<identity, used, up>>

(* A superuser passes every guard; anyone else needs every name.           *)
Passes(needs, i) ==
  \/ "superuser" \in i.roles
  \/ needs.roles \subseteq i.roles /\ needs.permissions \subseteq i.permissions

(* authenticate and, with no await in between, the route's guard.          *)
Authenticate(c) ==
  LET r == req[c]
      i == IF r.who = None THEN None ELSE identity[r.who] IN
  /\ r.pc = "authenticate"
  /\ \/ /\ i = None
        /\ Throw(c, HttpError(401))
     \/ /\ i # None
        /\ IF Passes(Routes[r.route].needs, i) THEN Become(c, At("limit", r.route, None))
           ELSE Throw(c, HttpError(403))
     \/ "database" \notin up /\ Throw(c, Unhandled)
  /\ UNCHANGED <<store, identity, used, up>>

(* Mutant: a command waits until Redis is back.                            *)
RateLimitWaits(c) ==
  LET r == req[c] IN
  /\ r.pc = "limit"
  /\ "redis" \in up
  /\ used' = IF used <= Limit THEN used + 1 ELSE used
  /\ IF used < Limit THEN Become(c, [r EXCEPT !.pc = "parse"]) ELSE Throw(c, TooMany)
  /\ UNCHANGED <<store, identity, up>>

(* The limiter counts in Redis; skipOnError is left at its default, so a   *)
(* failing store is thrown.                                                *)
RateLimit(c) ==
  LET r == req[c] IN
  /\ r.pc = "limit"
  /\ \/ /\ "redis" \in up
        /\ used' = IF used <= Limit THEN used + 1 ELSE used
        /\ IF used < Limit THEN Become(c, [r EXCEPT !.pc = "parse"]) ELSE Throw(c, TooMany)
     \/ /\ "redis" \notin up
        /\ Throw(c, Unhandled)
        /\ UNCHANGED used
  /\ UNCHANGED <<store, identity, up>>

(* Fastify parses the body of every request whose method may have one,     *)
(* that no route answers included, whether or not a schema reads it: a     *)
(* DELETE, or a POST that takes only its URL, may be refused for its body. *)
BodyErrors(route) ==
  IF route = "unmatched" \/ Routes[route].method # "GET"
  THEN {TooLarge, WrongMedia, Malformed} ELSE {}

ParseErrors(route) ==
  BodyErrors(route)
  \cup (IF route # "unmatched" /\ Routes[route].validates THEN {Invalid} ELSE {})

Parse(c) ==
  LET r == req[c] IN
  /\ r.pc = "parse"
  /\ \/ Become(c, [r EXCEPT !.pc = "handle"])
     \/ \E e \in ParseErrors(r.route) : Throw(c, e)
  /\ UNCHANGED <<store, identity, used, up>>

-----------------------------------------------------------------------------
(* What a successful handler does to what others are authenticated as.     *)
Changed(what) ==
  CASE what = "nothing" -> {identity}
    [] what = "user" ->
         {[identity EXCEPT ![u] = i] : u \in Users, i \in Identities \cup {None}}
    [] what = "catalogue" ->
         {f \in [Users -> Identities \cup {None}] :
            \A u \in Users : f[u] = None <=> identity[u] = None}

(* Every handler but three: one answer, or one of its services' errors, or *)
(* what the database client or the mail queue throws, a unique violation   *)
(* among it.                                                               *)
Handle(c) ==
  LET r == req[c] IN
  /\ r.pc = "handle"
  /\ r.route \notin {"login", "/health", "unmatched"}
  /\ \/ /\ Reply(c, Routes[r.route].ok)
        /\ "database" \in up \/ r.route \in DOMAIN HomeRoutes
        /\ identity' \in Changed(Routes[r.route].changes)
     \/ /\ \E s \in Routes[r.route].throws : Throw(c, HttpError(s))
        /\ UNCHANGED identity
     \/ /\ r.route \notin DOMAIN HomeRoutes
        /\ Throw(c, Unhandled)
        /\ UNCHANGED identity
  /\ UNCHANGED <<store, used, up>>

NotFound(c) ==
  /\ req[c].pc = "handle"
  /\ req[c].route = "unmatched"
  /\ Send(c, Body(404, "null"))
  /\ UNCHANGED <<store, identity, used, up>>

(* Mutant: an unknown user is told from a wrong password.                  *)
CheckPasswordTells(c) ==
  LET r == req[c] IN
  /\ r.pc = "handle"
  /\ r.route = "login"
  /\ IF "database" \notin up THEN Throw(c, Unhandled)
     ELSE IF r.who = None \/ identity[r.who] = None THEN Throw(c, HttpError(401))
     ELSE Become(c, [r EXCEPT !.pc = "load"])
  /\ UNCHANGED <<store, identity, used, up>>

(* AuthService.login up to the check of the account's state ...            *)
CheckPassword(c) ==
  LET r == req[c] IN
  /\ r.pc = "handle"
  /\ r.route = "login"
  /\ IF "database" \notin up THEN Throw(c, Unhandled)
     ELSE IF r.who = None \/ identity[r.who] = None THEN Throw(c, HttpError(400))
     ELSE Become(c, [r EXCEPT !.pc = "load"])
  /\ UNCHANGED <<store, identity, used, up>>

(* ... and the identity it loads afterwards, and the tokens.               *)
LoadUser(c) ==
  LET r == req[c] IN
  /\ r.pc = "load"
  /\ \/ identity[r.who] = None /\ Throw(c, HttpError(401))
     \/ identity[r.who] # None /\ Reply(c, 200)
     \/ "database" \notin up /\ Throw(c, Unhandled)
  /\ UNCHANGED <<store, identity, used, up>>

ProbeDatabase(c) ==
  /\ req[c].pc = "handle"
  /\ req[c].route = "/health"
  /\ Become(c, Probed("/health", "database" \in up))
  /\ UNCHANGED <<store, identity, used, up>>

(* Mutant: the answer is the last probe's.                                 *)
ProbeOnlyRedis(c) ==
  /\ req[c].pc = "probed"
  /\ IF "redis" \in up THEN Reply(c, 200) ELSE Send(c, Body(503, "null"))
  /\ UNCHANGED <<store, identity, used, up>>

ProbeRedis(c) ==
  /\ req[c].pc = "probed"
  /\ IF req[c].healthy /\ "redis" \in up THEN Reply(c, 200) ELSE Send(c, Body(503, "null"))
  /\ UNCHANGED <<store, identity, used, up>>

(* The client has its answer.                                              *)
Done(c) ==
  /\ req[c].pc = "sent"
  /\ Become(c, Idle)
  /\ UNCHANGED <<store, identity, used, up>>

(* The limiter's minute is over.                                           *)
NewWindow ==
  /\ used > 0
  /\ used' = 0
  /\ UNCHANGED <<req, store, identity, up>>

Outage ==
  \E d \in Faults :
    /\ up' = IF d \in up THEN up \ {d} ELSE up \cup {d}
    /\ UNCHANGED <<req, store, identity, used>>

Continue(c) ==
  \/ Authenticate(c) \/ RateLimit(c) \/ Parse(c) \/ Handle(c) \/ NotFound(c)
  \/ CheckPassword(c) \/ LoadUser(c) \/ ProbeDatabase(c) \/ ProbeRedis(c)

Next ==
  \/ \E c \in Clients : Arrive(c) \/ Continue(c) \/ Done(c)
  \/ NewWindow
  \/ Outage

(* Node runs what is runnable; a dependency that is down fails rather than *)
(* hangs.  Clients owe nothing.                                            *)
Spec == Init /\ [][Next]_vars /\ \A c \in Clients : WF_vars(Continue(c)) /\ WF_vars(Done(c))

-----------------------------------------------------------------------------
(* docs/API_DOCUMENTATION.md:11-12: an answer is in the language its own   *)
(* request asked for, and says so in Content-Language, whatever requests   *)
(* of other languages ran while it waited.                                 *)
SpeaksTheAskedLanguage ==
  \A c \in Clients : req[c].pc = "sent" =>
    req[c].message = Speaks[c] /\ req[c].header = Speaks[c]

(* What the framework itself refuses, at the step it refuses it: the       *)
(* limiter and its store, and the parser of a body.                        *)
OfTheFramework(r, status) ==
  \/ r.pc = "limit" /\ status \in {429, 500}
  \/ r.pc = "parse" /\ BodyErrors(r.route) # {} /\ status \in {400, 413, 415}

(* docs/ERROR_HANDLING.md:76, "A route's schema.response lists every       *)
(* status it can return": whatever its hooks, its guard, its schemas, its  *)
(* services, its handler and the database produce is listed, with a body   *)
(* that status's schema accepts, so that the serializer never fails or     *)
(* strips a field.  Not listed are the framework's refusals, among them    *)
(* the 400 of an unreadable body (error.plugin.ts:92-99), which most       *)
(* routes with a body and every DELETE can answer and do not declare; and  *)
(* the 401 of a login whose user vanished between the password check and   *)
(* the load of the identity.                                               *)
StatusesAreDeclared ==
  [][\A c \in Clients : LET r == req[c]  a == req'[c] IN
       r.pc # "sent" /\ a.pc = "sent" /\ a.route # "unmatched" =>
         \/ a.status \in Routes[a.route].declares /\ a.shape \in Schema(a.status)
         \/ OfTheFramework(r, a.status)
         \/ r.route = "login" /\ r.pc = "load" /\ a.status = 401]_vars

(* That one: bad credentials get 400, so that a login tells nobody which   *)
(* addresses exist, and a 401 follows only credentials that were accepted  *)
(* for a user who is gone since.                                           *)
LoginRefusedOnlyByRace ==
  [][\A c \in Clients :
       req[c].pc \notin {"idle", "sent"} /\ req'[c].pc = "sent" /\ req[c].route = "login" =>
         (req'[c].status = 401 => req[c].pc = "load" /\ identity[req[c].who] = None)]_vars

(* Every request that arrives is answered, by one answer: no guard or      *)
(* error path leaves it hanging, and it is idle before the next.           *)
EveryRequestAnswered == \A c \in Clients : req[c].pc # "idle" ~> req[c].pc = "sent"

(* modules/health/index.ts:27, "503 when either probe fails": while a      *)
(* dependency stays down, /health stops answering 200 for good; and while  *)
(* both stay up, it stops answering 503.                                   *)
Answers(status) ==
  \E c \in Clients : req[c].pc = "sent" /\ req[c].route = "/health" /\ req[c].status = status

HealthTells ==
  /\ \A d \in Dependencies : <>[](d \notin up) => <>[]~Answers(200)
  /\ <>[](up = Dependencies) => <>[]~Answers(503)
=============================================================================
