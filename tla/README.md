# Verification of clean-fastify-prisma

TLA+ models of the backend in `src/`, the TLC configurations that check them on
small instances, and TLAPS proofs of the properties that matter most for every
value of the constants. Paths below are relative to the repository.

```
tlc -config Identity.cfg MCIdentity.tla    # model-check one run
tlapm Identity_proofs.tla                  # check the proofs of a module
```

## 1. The system

An HTTP API (Bun, Fastify) over PostgreSQL (Prisma), Redis, and a BullMQ queue
with a separate worker process. Both the API and the worker can run as a cluster
of processes. There is no shared memory between processes and no locking in the
code: handlers meet in PostgreSQL and in Redis, and interleave at every `await`.

| Component | State it keeps | Operations | What makes it correct |
| --- | --- | --- | --- |
| Session cache (`src/libs/cache`) | Redis `user:<id>` (1 h), `refresh_token:<id>` (7 d) | `getUserInformation`, `forgetUsers`, `revokeSessions` | an entry that disagrees with the database has somebody on the way to drop it; it never outlives its TTL |
| Auth plugin, guards (`src/libs/fastify`) | none | `authenticate`, `PermissionGuard`, `RoleGuard` | who lost access is refused; a guard asks for every listed permission |
| AuthService (`src/modules/auth`) | none of its own | `login`, `refresh`, `issueTokens`, `register`, `verifyEmail`, `resendVerification`, `forgotPassword`, `resetPassword` | one live refresh token per user, rotation, links that work once |
| ProfileService (`src/modules/profile`) | none | `updateProfile`, `updatePassword` | the identity is reloaded; a new password ends the sessions |
| UserService, RoleService, PermissionService (`src/modules/settings`) | none | create, update, delete of each; admin reset and mails | checks made before a write still hold when it commits, or the write fails; every holder of what changed is forgotten |
| Repositories and schema (`src/libs/database/postgres`, `prisma`) | users, roles, permissions, two join tables, two token tables | the SQL of the above | cascades leave no dangling rows |
| AuthMailService (`src/libs/mail`) | none | `issue*Token`, `queue*Email`, `send*Email` | only the newest link works; no mail for a token that was rolled back |
| Mail queue and worker (`src/bull`) | the BullMQ queue | `add`, the job processor, retries | a queued mail arrives or fails visibly; copies are faults' doing |
| Cluster primary (`src/libs/utils/cluster.ts`) | the workers, `shuttingDown`, `exitCode` | fork, `exit` handler, `shutdown` | crashed workers are replaced, failed startups are not, a shutdown ends |
| Request path: i18n hook, rate limiter, error plugin, health, routes | the locale of a request, the limiter's counter | hooks, `setErrorHandler`, `setNotFoundHandler`, probes | one answer to each request, in its language, as its route declares |
| List routes (`src/libs/utils/fastify/datatable.ts`, `findAll`) | none | filters, sorting, paging | no filter is lost, days are whole, rows are missed or repeated only for a reason |
| String, date, language helpers | none | pure functions | ranges, defaults, bounds |
| ClickHouse log and migrator | the migrations table | append, `migrate` | a migration is applied once and in order |
| Configuration, swagger, logging, seeders | configuration | | |

How they interact: every protected request calls `authenticate`, which fills the
cache from the database; every write of a user, role or permission commits first
and calls `forgetUsers` or `revokeSessions` afterwards; `login` and `refresh`
drop the cached identity, reload it and then store a new refresh jti; the account
handlers mint a token in a transaction and queue the mail after it; a worker
takes the mail from the queue; the primary keeps the API's and the worker's
processes running.

What is hard: a lookup and a write interleave between the database and the cache;
a Redis command fails and the failure is only logged; a worker dies between a
commit and the `DEL` that should follow, or between sending a mail and recording
it; ids and tokens are checked outside the transaction that relies on them;
transactions at READ COMMITTED do not see each other's inserts; requests of
several languages wait on one event loop; exits, disconnects and signals reach
the primary in any order; a page and its count are read from different states of a
table. `PROJECT.json` lists each hazard at its line, with the properties that
would catch it.

## 2. The modules

| Module | Models |
| --- | --- |
| `Identity` | the identity cache with every handler that fills or drops it, and the tables it is computed from |
| `RefreshTokens` | the refresh key, rotation, and the events that must end sessions |
| `TokenReuse` | `RefreshTokens` with a history variable: which tokens were already exchanged |
| `SingleUseTokens` | verification and reset links: their transactions, row locks, and the queueing of the mail |
| `MailQueue` | the `send-email` queue: attempts, backoff, stalled jobs, lost SMTP answers |
| `MailDelivery` | `SingleUseTokens` composed with `MailQueue`: the mail of a token is added in the step that queues it, and a user has a link only from a mail that went out |
| `HttpApi` | a request's way through hooks, guard, limiter, parser, handler and error handler |
| `ClusterPrimary` | `runWithCluster` and the processes it forks |
| `Supervisor` | what the primary promises; `ClusterPrimary` implements it |
| `Listings` | the pages of a list route over a table others write |
| `Toolkits` | pure algorithms: random strings, `Accept-Language`, the helpers that cut texts |
| `MC*` | small instances for TLC |
| `*_proofs` | theorems |

A handler in flight is a *continuation*, a record in `req[t]` that says which
awaited call task `t` makes next and with which local variables. Each action is
the code from one await to the next, so handlers interleave exactly where the
code can. The named constructors (`ReadUser`, `Forget`, `SaveRole`, ...) are the
suspension points. A request that its first read refuses changes nothing, and is
left out. Tasks stand for requests of any process of the cluster.

**Identity.** `user`, `role`, `permission`, `holds`, `grants` are the tables,
`cache` is Redis. `FindUser`, `FindRolesHeld`, `FindGrants` are
`findUserInformation`: Prisma answers a nested `select` with one SELECT per
relation and no snapshot around them; the five SELECTs are grouped in three, a
user, its roles with their names, and the names of what the roles grant. A write
transaction is one step at its commit: its first statement locks the row it
updates until the commit, the foreign keys lock the rows the join table names,
and what it wrote in between is invisible. What the transaction relies on but
does not lock is checked before it, in steps of its own (`AssertRolesExist`,
`AssertNameAvailable`, ...), and again at the commit by the unique index and the
foreign keys (`RoleAccepted`, the guards of `CommitUser`). A user's name and email
are one opaque `profile`; the three statuses other than `ACTIVE` are one,
`INACTIVE`, since the code only compares with `ACTIVE`. A permission's group is
part of its name.

**RefreshTokens.** The same cache reduced to whether an identity is cached, with
the refresh key and the tokens handed out. `era[u]` and `token[j].era` are not in
the code: they count the events that must end sessions, and remember in which
era the holder of a token last gave the password. Its database lookup is one
step (the status is one column of the first SELECT). jtis and eras are bounded:
`IssueTokens` fails while all jtis are in use, and `EndSessions` fails at
`MaxEra`. `ExpireToken` ends the life of a signed token at any time, whether or not
its jti is stored: the token is signed before the key is set with the same lifetime
and counts from a whole second, so that a key outlives its token by up to a second
and more when the `SET` is slow. `expired` are the tokens an exchange refuses for
it. A jti is drawn again (`Fresh`) only when its token has expired or was never
handed out, and no key and no request holds it: jtis are 32 random characters; the
model reuses them to stay finite. `TokenReuse` adds `spent`, the tokens already
exchanged, which the code does not record and only `TokenWorksOnce` reads.

**SingleUseTokens.** A transaction is its statements: the update of the user row
(a lock), the snapshot of `markAllUsed`'s UPDATE, its end once other
transactions have let go of those rows, the insert with the commit. The rows a
task has stamped stay in `req[t]` until then, so a rollback loses the task's
state and nothing else. An UPDATE takes all its row locks in one step; taking
them one by one ends with the same rows, and PostgreSQL takes them in index order
for every caller. The insert's foreign-key lock on the user row does not conflict
with an update of its other columns. An admin's create is an account that begins
unverified and without a link; nothing about a link depends on a later deletion
of its user, which is left out.

**MailQueue, MailDelivery.** BullMQ and the SMTP server are external and modelled
by what the code relies on: a job is held by one worker, tried again up to
`attempts` times, and put back once (`maxStalledCount`, left at its default) when
its worker died. `answered` is the moment between the server's answer and the
record of it: a death there repeats the mail. `Fail` covers a template that cannot
be read, a refusal, and a mail that was taken but whose answer was lost, which is
why it may count as sent.

**HttpApi.** Routes are records of what a request meets on its way: its method,
whether the module authenticates, the guard's list, the schemas before the handler,
what its services throw, what its `schema.response` declares. Fastify parses the body
of every request but a GET, of a `DELETE`, of a `POST` without a body schema and of one
no route answers too, so that each of these may be refused for it (`BodyErrors`). `store` is the `AsyncLocalStorage`: `Context`
says which entry of it a request's code sees. `identity` is what the session cache
answers; a handler that succeeds may change it, so that a request runs while the
permissions it was let in with are gone. Fastify's own order of hooks is
reproduced: the i18n hook, the module's `authenticate`, the route's guard, then the
limiter, which registers itself behind a route's own hooks. The limiter's Redis
failing is thrown, as `skipOnError` is left at its default: so every route
answers 500 while Redis is down, `/live` and `/health` too, although
`modules/index.ts:54` says `/live` checks no dependency. The read of the password
and the load of the identity are two steps of a login; other handlers are one.

**ClusterPrimary.** `events[i]` are the events of a dead worker that the primary
has not handled; node:cluster emits `exit` and `disconnect` in either order and
lists a worker until the later one. A worker dies, comes up, closes or grows old
at any time; a signal kills one that has no handler yet. SIGINT reaches the
workers from the terminal too.

**Listings.** One table for the users', the roles' and the permissions' lists, which
differ in columns and filters. `email` is searched and filtered as `name` is; a
search looks at the status too; `updatedAt`, which moves a row in its order as a
change of status does, is left out. A query carries the parameters of its URL in order
(`params`), as `parseFilter` meets them: a repeated key keeps its last value, a name
without its closing bracket or without a key is passed over. (`filter[__proto__]`,
which a JavaScript object does not keep either, is left out.) A text is the set of
what it contains; a value of a filter is the sequence of its parts, of which
`filterValues` leaves out the blank ones (`Kept`). A row may become visible after
a younger one, as its `createdAt` is fixed before its commit.
`FindMany` and `Count` are the two queries of a page in either order, with writes
in between. An ORDER BY is the set of the orders it allows (`Sorted`): over a column with
ties that is more than one, and each query may get its own. Time zones have a fixed offset: daylight saving is not modelled.

**Toolkits.** One call to a state. `Split` goes through the text as `String.split`
does, by a recursive function of the position (`Pieces`), and `Join` puts the pieces
together from the first one on (`Joined`). The sort of `parseAcceptLanguage` is
stable, so it is a sort of places: one candidate after the other is put in front of
the first that need not stay ahead of it (`Placed`), which gives the order of the
first n places of the header for every n (`Orders`). The helpers are specified
for a search that is not empty: `before("", "")` is `undefined` and
`chopEnd(s, "")` is `""` in the code, and no caller passes one. The application calls
only `random` and `isUuid` of `StrToolkit`.

### Fairness

`FairSpec` of `Identity`, `RefreshTokens` and `SingleUseTokens`, and the
specifications of `HttpApi` and `MailDelivery`, assume weak fairness of a handler
that has started: the runtime resumes every resolved await, and the clients of
PostgreSQL and Redis answer or time out. `Identity` and `RefreshTokens` add that a
Redis entry either expires or is set again (weak fairness of the two together): a
`SET` renews the TTL, and an entry that is renewed for ever never has to expire.
`SingleUseTokens` adds strong fairness of the two statements that wait for row
locks, `UpdateUser` and `EndMark`: other transactions may take the rows again and
again, but PostgreSQL queues waiters in the order they came. `MailQueue`'s jobs are
taken, tried, retried after the backoff and found when stalled: BullMQ's timers.
`ClusterPrimary`: a worker comes up or dies, closes, and the primary's event loop
turns. Nothing assumes that requests or signals come or that anything fails, or that what
is down comes back.

## 3. The runs

| Run | Instance | Question |
| --- | --- | --- |
| `identity` | 1 user, 1 role, 1 permission, all created in the run, 2 tasks, failures, crashes | do join rows dangle, and can an entry go stale with nobody left to drop it, over every handler that writes any of the tables? |
| `identity_liveness` | 1 user, 2 profiles, 2 tasks, failures | what the TTL guarantees in the end |
| `refresh_tokens` | 2 users, 2 jtis, 1 era, 2 tasks, failures, crashes | what can let a session survive; do users stay apart? |
| `refresh_tokens_liveness` | 1 user, 2 jtis, 2 eras, failures | do a deleted user's sessions end? |
| `single_use_tokens` | 1 user, 2 tokens, 2 tasks, failures, crashes | what overlapping transactions of either kind of link still guarantee; do lock waits end? |
| `mail_delivery` | 1 user, 2 tokens, 1 task, 1 worker, 2 attempts, deaths of requests and workers, a queue that refuses, lost answers | does every link arrive, visibly fail, or have a request that ended before it queued the mail; and what repeats it? |
| `http` | 2 clients of two languages, one of them on every route, limit 1, both stores failing | is every request answered, in its language, as declared? |
| `cluster` | 2 workers at a time, 4 processes in all | does the primary keep the supervisor's promise, and stop in the end? |
| `listings` | 3 rows, 4 contents, days of 2 ticks one behind UTC, 19 queries, pages of 1 and 2 | what can a client that turns pages miss? |
| `toolkits` | 256 bytes, 62 characters; headers of up to three ranges; texts of up to five characters of two letters | do the algorithms agree with their references? |
| `refresh_token_reuse` | 1 user | a counterexample: see below |
| `cluster_exit_code` | as `cluster` | a counterexample: see below |

Two tasks show every race of a pair of handlers. A second user matters only where
the code could mix users up: `refresh_tokens` has one, and for links the theorems
say it for any number of users. Two jtis let a rotation overlap the session it
replaces; two tokens let two issues overlap or one replace the other's link (more
tokens are the theorems' part). A limit of 1 makes the limiter refuse the second
request of a minute. Two more processes than run at a time let a crash be made good
twice, or once with a startup failure after it. Three rows over pages of one and
two give a first, a middle and a last page, and a row can move across each border.
Days of two ticks have a beginning and an end, and one tick of offset puts every
day's border elsewhere than UTC's. The URLs of `listings` have one to three filters,
with a repeated key, one without its bracket and one without a name among them.
Symmetry is over tasks, jtis and users, which no definition compares with constants;
the liveness runs use none. Deadlock is checked except where the system stops: a
primary that has ended, a client that has seen the last page, a toolkit call that has
returned.

The properties worth reading first:

- `StaleOnlyByRace` names every way a cached identity can come to disagree with
  the database while no handler is about to drop it: a fill that read before a
  write and stored after its `DEL`, a lost `DEL`, a delete that missed a holder.
- `SurvivesOnlyByRace` does the same for refresh tokens and password changes,
  suspensions and deletions.
- `SeenIsSpent`, `RepeatsAreRaces`, `SpentForAReason` say what the single-use
  links guarantee in spite of READ COMMITTED, and `EveryRequestEnds` that their row
  locks are no deadlock.
- `EveryLinkArrivesOrFails`: across the transaction, the queue and the worker, a
  committed link gets to its user or its job ends in `failed`, except when the request
  that minted it died, or the queue refused the mail, between the commit and the job
  (`Abandoned`): nothing queues that mail again.
- `StatusesAreDeclared`: what an error of any class becomes is in the route's
  schema. The exceptions are named in the property, each with the step it comes from:
  the limiter's refusals, the body parser's, and one race of a login.
- `FiltersNarrow`: a list shows no row that a parameter of its URL rules out; what
  `parseFilter` loses on the way is named.
- `KeepsItsPromise`: the primary refines `Supervisor`.
- `MissedForAReason`, `ShownTwiceForAReason` name everything that makes offset
  paging lose or repeat a row. Ties are among the reasons: the default sort,
  `createdAt`, is not unique, and a bulk insert makes rows that share it.
- `DeletedEventuallyForgotten`, `EventuallyCoherent`, `DeletedSessionsEnd`: what
  the system comes to in the end, whatever raced and whatever was lost.

### Disagreements between the code and its documents

Two runs end in a counterexample to a sentence of the repository
(`PROJECT.json`, `findings`).

| Run | Sentence | Behaviour |
| --- | --- | --- |
| `refresh_token_reuse` | `docs/SECURITY.md:31-32`, a refresh token works once | two concurrent refreshes both pass the comparison |
| `cluster_exit_code` | `cluster.ts:18-19`, the primary exits non-zero | the last worker's `exit` precedes its `disconnect`, nobody calls `process.exit`, and the process ends with 0 |

Other sentences hold but for races of a few milliseconds, which the passing
properties name as their exceptions; each named exception is needed, and TLC gives
the behaviour when it is left out.

| Sentence | Exception | Named in |
| --- | --- | --- |
| `docs/SECURITY.md:97`, access is lost on the next request | a lookup in flight caches the old identity after the `DEL` | `StaleOnlyByRace` |
| `docs/SECURITY.md:93-94`, every holder is dropped | holders are read before the delete; one who joins in between keeps the cached permissions | `StaleOnlyByRace` |
| `src/modules/profile/service.ts:30`, every session ends | a login or refresh in flight stores its jti after the password change | `SurvivesOnlyByRace` |
| `docs/SECURITY.md:44`, single use | the check is made outside the transaction, so requests that overlap each write | `RepeatsAreRaces` |
| `auth-mail.service.ts:16-17`, only the newest link works | two issues that overlap do not see each other | `SeenIsSpent` |
| `docs/ERROR_HANDLING.md:76`, a schema lists every status | a login whose user is gone since the password check gets 401 | `LoginRefusedOnlyByRace` |

Three do not hold of requests that need no race. The properties name them too.

| Sentence | Exception | Named in |
| --- | --- | --- |
| `docs/ERROR_HANDLING.md:76`, a schema lists every status | 413, 415, 429, the limiter's 500 on `/`, `/live` and `/health`, and the 400 of an unreadable body, on every `DELETE` and on `POST /settings/users/:id/send-*-email` too, are declared nowhere or on few routes | `StatusesAreDeclared` |
| `docs/API_DOCUMENTATION.md:156`, several filters are ANDed | of a key that is repeated only the last value counts | `FiltersNarrow` |
| `docs/API_DOCUMENTATION.md:154`, an unknown key is a 400 | `filter[]` and a name without its closing bracket are passed over | `FiltersNarrow` |

## 4. The proofs

All theorems hold for any sets of users, roles, permissions, tokens, tasks, clients,
workers and rows, and with or without faults. They assume:

- the marker values (`None`, `Unborn`, `Gone`) are no ids, no states, no records and
  no values of a filter;
- `MaxEra` is a natural number; `Attempts`, `Count`, `Limit`, `DayLength` and
  `Characters` are positive; instants, the offset of the time zone and the ids of
  rows, by which PostgreSQL can order them, are integers;
- an `Accept-Language` header is a sequence of ranges, each a string and a q that is
  a number or absent (`HeadersShape`);
- a text is a sequence of characters (`TextsAreSequences`);
- `Tasks` is finite (for `RepeatsAreRaces` alone), and so is the table of a list;
- the seed's join rows name seeded rows (`SeedIsConsistent`);
- clients send requests to routes of the table, or to none (`RoutesExist`), and
  queries have the fields the query schema lets through (`QueriesShape`).

TLC evaluates each of these on every run that uses them.

- `Identity_proofs`. The inductive invariant is `TypeOK /\ NoDanglingIds`.
  `NoDanglingIds` is needed for typing: `FindRolesHeld` reads the names of held
  roles, and only because no join row outlives its role are these names and not
  `Gone`. Its last conjunct, that a handler in flight works on a user the database
  knows, makes the update of a row well typed. `StaleOnlyByRaceHolds` follows step
  by step: an action that changes what `Info(u)` says goes on to a continuation
  that owes `u`'s removal, or has missed `u`; every other action leaves the entry,
  the database's answer, or both alone.
- `RefreshTokens_proofs`. The invariant is `TypeOK /\ KeysAreOwnTokens` with
  `Paired`: a refresh's lookup is of the user whose entry it dropped.
  `KeysAreOwnTokens` is needed for `SurvivesOnlyByRaceHolds`: that the jti under a key
  was handed out, and to the key's user, is what makes a fresh one differ from it. It
  holds of a key whose token has expired as of any other.
- `SingleUseTokens_proofs`. The invariant strengthens the four named ones with what
  a transaction knows: `SeenInFlight` (each row of its snapshot is stamped by it or
  spent already) and `WithInFlight` (the token it consumes is of its user and kind,
  and in the snapshot or spent). `SpentForAReasonHolds` uses the first: whatever a
  commit stamps is of the user and kind it mints or writes for. Nothing is said of
  locks: that a used token stays used is enough, so the argument would survive a
  change of the locking. `RepeatsAreRacesHolds` counts: the writes of a token and
  the requests that hold it are together no more than there are tasks
  (`Bounded`); a request comes to hold it only before its first write, because
  afterwards it is spent (`WrittenIsSpent`), and every write lets go of it.
- `MailDelivery_proofs`. The invariant adds to the types, for every mail, that a
  copy already sent is paid for by a counted failure or stall, except one while its
  answer is being recorded or once the job has ended (`Counts`), and that a mail
  still being tried has attempts left (`Chances`). A step moves one job, so each
  case looks at that job only.
- `ClusterPrimary_proofs`. Besides the types the invariant keeps the books: which
  workers are alive, listed or still to be reported, and that all of them are in
  `forkedAt`. `NoOrphans` is part of it; with it each step of the primary is mapped
  to a step of `Supervisor` or to a stutter (`KeepsPromise`).
- `HttpApi_proofs` has two invariants. From its first hook to its answer a request
  finds its own locale in its own context (`FindsItsLocale`), which gives
  `SpeaksTheAskedLanguage`. For the answers, the table of routes is taken apart
  first: each registration lists what its own guard, schemas and services can
  produce (`WellDeclared`), and joining tables keeps that (`RoutesAreDeclared`).
  Every route but `/`, `/live` and `/health`, whose handlers throw nothing, declares the
  500 of a failing store. `Guarded` then says that only a route of a module with the
  hook is ever at `authenticate`, so that its 401 is declared, and that only a login
  loads an identity. Every step of a request ends in an answer that is allowed there
  (`Allowed`) or in a later stage (`AnsweredOrAdvances`), and `AnswerOfStep` says it of
  the step that sends an answer: both action properties are read off it, since of the
  steps that answer the load alone sends a login a 401. `ErrorBodies` is the error handler's table, once for all steps.
- `Listings_proofs`. The invariant adds to the types that the query under way was
  accepted (`Asked`), that a page's rows match it (`RowsMatch`), that a page is as
  long as its count says (`Counted`), that what was seen was seen once unless rows
  came or tie (`Once`), and that whoever matched throughout was met unless rows left
  or tie (`Met`). The last two are about ranks: the rank of a row is the number of
  matching rows ahead of it, and without ties it is the row's position in the one
  order there is. While rows only go, those that were seen stay at ranks the client
  is past (`Once`); while rows only come, those that are still to be met stay at
  ranks the client has not reached (`Met`). `WholeDays` adds arithmetic: the range of
  instants `filterDateRange` computes is the set of instants whose local day lies
  between the first and the last day named (`RangeIsDays`). `FiltersOnlyNarrow` begins
  at the URL: the filter that is read has, for each key, the value of its last
  parameter (`LastIsKept`) and no key without one (`KeysAreGiven`).
- `Toolkits_proofs`. The bytes that are taken are those of whole rounds of the
  characters (`LimitIsWholeRounds`), and each round has one byte for each character
  (`OneByteARound`, a bijection), whatever the two numbers are. For the language, the
  recursive function `Orders` exists and satisfies its equation (`OrdersEquation`), and
  the order of the first n places is `Right` for every n: it names the candidates
  among them, the better ones first, the earlier of equals first (`PlacedIsRight`,
  `OrdersAreRight`). The library's induction theorems take an operator, which the
  provers cannot instantiate; the induction here is over a set of numbers
  (`SetInduction`, from the least element of its complement). The first supported
  language of the whole order is then the best there is (`BestOfHeader`).

  For the texts, `Pieces` is a recursion from the end of the text to its beginning and
  `Joined` one over the pieces; both exist and satisfy their equations
  (`PiecesEquation`, `JoinedEquation`). The pieces from i on, put together, are the
  text from i on (`SplitRebuilds`, by `TopDown`); occurrences of a text that does not
  overlap itself are apart (`Apart`), so that its last piece begins behind the last of
  them (`LastPiece`).

Model-checked only: the liveness properties, which are out of the prover's reach.
Every safety and action property a passing run checks has its theorem. The two
refuted sentences stay refuted for larger instances: a counterexample in a small one is one
in every larger one.

## 5. Not modelled, and what is left

`PROJECT.json`, `components`, gives the reason for each part. In short: wording,
formatting, templates, configuration, the API document and logging, detail
queries that only read, libraries' own state, helpers that nothing calls, and
ClickHouse, a log no handler writes to and a migrator that runs alone. Emails are
not modelled: that two accounts may come to share an address (`auth/service.ts:67`,
no unique index) is listed as a hazard without a property.

1. `Accounts`: register, create, update and profile against the email check without
   a unique index, and what a deleted account's address allows.
2. An abstract `CoherentCache` and `OneShotLinks`, implemented by the detailed
   modules outside the named races; the composition of `Identity` and
   `RefreshTokens`, whose common cache is abstracted twice now.
3. The ClickHouse migrator with crashes between statement and record.
