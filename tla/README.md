# A verification of grud in TLA+

grud is a pair of Go services behind a small admin panel. The *student service*
(HTTP, gin) keeps accounts and sessions in its own Postgres database; the *project
service* (gRPC) keeps projects and messages in another. Messages travel from the
first to the second over NATS. Both run in several replicas (`minReplicas: 2` in
`k8s/apps/values.yaml`), which share nothing but their database and NATS.

This directory holds TLA+ models of the parts where the order of events matters,
the TLC configurations that check them on small instances, and proofs checked by
TLAPS. Paths below are relative to `src/`; `SS` stands for
`services/student-service/internal` and `PS` for `services/project-service/internal`.

## 1. The system

| component | state | operations | talks to |
|---|---|---|---|
| auth (`SS/auth`) | table `refresh_tokens`; access tokens are signed and not stored | register, login, refresh, logout; `AuthMiddleware` | student repository |
| student (`SS/student`) | table `students`, unique `id` and `email`, a sequence for `id` | create, read, update, delete | - |
| message producer (`SS/message`, `SS/messaging`) | a NATS connection with its output buffer | `POST /api/messages` | NATS |
| message consumer (`PS/messaging`, `PS/message`) | a NATS connection, a subscription and its queue; table `messages` | the callback: insert, reload, count | NATS, database |
| message query (`PS/message`, `SS/projectclient`) | the `GrpcClient` | list of projects, list of messages by email, over gRPC, limit 5 s; a health check, limit 2 s | project service |
| project store (`PS/project`) | table `projects` | gRPC create, read, update, delete | - |
| service processes (`cmd/*/main.go`, `*/app/app.go`) | HTTP or gRPC server, goroutines, shutdown context | `New`, `Run`, `Shutdown`, signals | all of the above |
| dependency health (`common/metrics/health.go`, `checkDependencies`) | `Available` per dependency | a check every 30 s, the exporter's callback | Postgres, NATS, project service |
| gRPC metrics (`common/metrics/grpc.go`) | three counters | interceptor around each call | exporter |
| database set-up (`SS/db`, `PS/db`) | the pool of connections; tables, function and trigger | `NewWithDSN`, `configurePool`, `RunMigrations`; the gauges of `RegisterDB` | Postgres |
| admin panel (`services/admin`) | session in React state and `localStorage` | login, logout, lists, send | student service |
| telemetry, logging, configuration, CORS, other metrics, test containers, generated code | none that the behaviour depends on | - | - |

### What is hard

* No handler uses a transaction. Register reads, inserts, deletes tokens and
  inserts a token in four statements; login and refresh in three; handlers of other
  requests, in this replica or another, run between any two of them.
* A statement may fail, or be executed although its caller sees an error; a client
  that disconnects cancels the context of the request in the middle.
* Deleting an account leaves its rows in `refresh_tokens`.
* `PublishMsg` returns before anything is sent, the connection may break or close
  for good, processes stop without draining, and each replica of the project
  service subscribes on its own.
* Create and Update of the project service re-read in a second statement.
* Shutdown races the goroutine that serves, which ends the process when it returns.
* A call between the services races its limit, the shutdown and the death of the server;
  that `GracefulStop` returns at all depends on limits that the other service sets.
* All goroutines of a process share 25 connections; the ping of the health check waits for
  one without a deadline.
* Replicas migrate the same database, one statement at a time, while others serve.

### What makes each component correct

* auth: a refresh token that was logged out or exchanged is dead for good, whatever
  was in flight; sessions of one student are bounded; no request opens a session for
  an account that was gone when it came; requests end.
* student: accounts are unique; an account can be logged in to.
* messaging: per sender and replica, order is kept and nothing is repeated; what
  was refused does not arrive; what was accepted and is lost has met a fault.
* project store: a deleted project does not come back; an answer shows the project
  that was written, as it or a later write left it, with the time stamp of that write.
* processes: a signal ends the process; handlers are cut off only where the code
  means it, and none starts once the shutdown has begun; exit status 0 tells the truth
  about them.
* calls: every caller gets an answer; a shutdown takes none away.
* gRPC metrics: an export, which collects the counters one after another, shows more errors
  than requests only by calls under way, and the last one counts every answered call.
* database set-up: every statement gets a connection; who serves finds the whole schema.
* health: the gauge finds out in the end, NATS that came back too late excepted.
* admin panel: the list shown is the student's who is shown; a message is stored under
  the student who was shown.

## 2. The modules

    TokenLifecycle <- refined by - StudentAuth            Delivery <- refined by - Messaging
    ProjectCalls --> ProjectProcess (extends it, and implements its specification)
    PooledHealth --> DependencyHealth, ConnectionPool
    Projects     --> Migrations
    AdminPanel                                            StudentProcess

`MCStudentAuth`, `MCProjects` and `MCAdminPanel` give TLC the sets and permutations of an
instance; the other modules are run as they are. Theorems are in modules of their own:

| proofs | about |
|---|---|
| `StudentAuthProofs`, `StudentAuthRefinement` | StudentAuth; that it implements TokenLifecycle |
| `MessagingProofs` | Messaging, and that it implements Delivery |
| `StudentProcessProofs` | StudentProcess |
| `ProjectCallsProofs` | ProjectProcess, ProjectCalls, and that the second implements the first |
| `ProjectsProofs` | Projects and Migrations |
| `PooledHealthProofs` | PooledHealth, ConnectionPool, DependencyHealth |
| `AdminPanelProofs` | AdminPanel |

### StudentAuth: accounts and sessions

One action is one SQL statement, with the local code before it and the branch taken
on its result, the response included. Handlers with one statement (create, update,
delete, logout) are single actions. Register, login and refresh keep their progress in a *slot*
`req[p]`, `p \in Procs`: a slot is a goroutine serving a request in any replica,
since replicas share nothing else than the database.

| variable | code |
|---|---|
| `students`, `lastId` | table `students` (id, email, hash of the password) and the sequence of its id |
| `tokens` | table `refresh_tokens` |
| `now` | `time.Now()`, in steps |
| `req[p]` | local variables of the handler: next statement, student, presented and new token |
| `reply` | status sent by the last step |
| `held`, `spent` | history: pairs that reached a client; refresh tokens whose logout or exchange was acknowledged |
| `used` | history: strings that `GenerateRefreshToken` returned; 32 random bytes do not repeat |
| `absent[p]` | history: ids that had no account when the request in the slot arrived, and got none since |

| action | code |
|---|---|
| `Register`, `RegisterInsert` | `Service.Register`: `GetByEmail` (an error counts as "not found", the code drops it), `Create` |
| `Login` | `Service.Login` |
| `Refresh`, `RefreshStudent` | `Service.RefreshAccessToken`: `GetRefreshToken`, `GetByID` |
| `CleanTokens`, `StoreToken` | `generateTokenPair`: both tokens generated and `cleanTokens`; `CreateRefreshToken` and the response |
| `Logout` | `Handler.Logout`; its body is not validated, so the empty token (`NoToken`) is a possible input |
| `CreateStudent`, `UpdateStudent`, `DeleteStudent`, `Reject` | `/api/students` behind `AuthMiddleware` |
| `Abandon` | the process dies or the request's context is cancelled between two statements |
| `Tick` | time passes |

`DBWrite` gives every writing statement up to three outcomes: executed and
confirmed, not executed and reported as failed (`"failed" \in Faults`), executed
although the caller gets an error (`"lost"`). Reads fail when `Faults` is not empty.

Abstractions: a bcrypt hash is the password it was made from, an access token is its
expiry; names, major, year and JSON syntax are left out. A request with a malformed
body changes nothing and is left out. `Reject` stands for every request that
`AuthMiddleware` stops. The id in a body of `POST /students` (`http.go:42` decodes it,
`model.go:8`) comes from `ClientIds`, or is left out, as the admin panel does. A client may
so collide with the sequence, or take the id of a deleted account.
`Step` is what the service does; `Next` adds the history variable `absent`.

*TokenLifecycle* is the promise about one refresh token seen from outside: unborn,
live, dead, in this order, and "spent" only when dead. `Phase` and `Lifecycle` at the
end of StudentAuth are the refinement mapping. A token whose random string has been
drawn but whose insert has not happened is unborn; a token whose insert was given up
is dead.

### Messaging: from POST /messages to table messages

| variable | code |
|---|---|
| `link[r]` | the NATS connection of a replica: down (no process), absent (started without NATS), connected, reconnecting, closed for good |
| `out[p]` | messages in the publisher's buffer and socket |
| `subbed`, `inbox[c]` | subscriptions and their queues |
| `work[c]` | the message a callback has inserted and is reloading |
| `rows` | table `messages`, with the replica that inserted the row |
| `received` | what the metric counted |
| `failed` | history: what the callback has logged as not saved (`LogFailure`) |
| `order[p]`, `refused` | history: what was answered 200, what was answered with an error |

`StartProducer`, `SendMessage`, `StopProducer` are the student service's side,
`StartConsumer`, `Subscribe`, `SaveMessage`, `ReloadMessage`, `CloseConsumer`,
`StopConsumer` the project service's. The NATS client and server are not in this
repository; `Flush`, `BreakProducer`, `BreakConsumer`, `Reconnect`, `GiveUp`,
`CanPublish`, `CanStore` and `Listening` model them from how the services use them
(`nats.Connect` with default options, `PublishMsg`, `Subscribe`) and are marked external.

An event is accepted at most once, so that repetition can be recognised; clients may
retry what was refused. Trace headers and JSON are left out: the producer marshals
the same two strings that the consumer unmarshals.

*Delivery* is the abstract channel: a message is accepted once, by one sender, and each
replica stores, of each sender's accepted messages, an increasing subsequence. It keeps
`order` as it is, and `rows` is what it calls `stored`; buffers, connections, queues and
callbacks are not visible in it.

### StudentProcess, ProjectProcess: from start to exit

Each module is one process; its goroutines are the values of `main`, `run` and, in the
project service, `consumer`, which say where the goroutine is.

| variable | code |
|---|---|
| `main` | `main` and `App.Shutdown`, which runs on main's goroutine |
| `run` | the goroutine that calls `App.Run` and then `log.Fatal` on an error |
| `consumer` | the goroutine in which Run calls `Consumer.Start` |
| `server`, `grpc`, `nats` | `App.server` (nil until Run assigns it), the gRPC server, the NATS connection |
| `quit`, `asked`, `late` | the channel of signals, whether a signal came, whether the ten seconds of Shutdown are over |
| `reqs`, `work` | HTTP requests; gRPC calls and messages: unsent, queued, running, done, dropped, cut off |
| `exit` | how the process ended: main returned, `log.Fatal`, panic, killed by the signal |

The actions are the statements at which the goroutines can overtake each other:
`Notify` (a signal that comes before it kills), `AssignServer` and `BeginShutdown` (main
reads `App.server` without synchronisation; nil is a panic), `Listen`/`Serve`,
`StopServing`, `Fatal`, `Drained`/`Stopped`, `GiveUp`, `Close`, `Flush`, `Return`.
Requests, calls, messages and signals come from outside. `net/http`, grpc-go, nats.go and
`os/signal` are modelled from how they are used and marked external. A process
whose listener breaks later is left out.

### ProjectCalls: the calls between the services

Extends ProjectProcess: its calls get a caller in the student service and a handler in the
project service, each with its own steps, and its other actions go on as before (`Process`).

| variable | code |
|---|---|
| `client` | is there a `GrpcClient`? |
| `caller[w]` | the handler of the student service: waiting in the stub, answered, failed, refused, rejected before any call |
| `over` | calls whose context has ended, by the limit (`Limit`) or by the browser (`Disconnect`) |
| `handler[w]`, `status[w]` | the place of the handler inside the interceptor, and how it ends |
| `active`, `total`, `errors` | the three counters of `GrpcMetrics` |
| `seen` | the total that an export under way has collected |

`StartRequest`, `RecordTotal`, `RecordError` and `EndRequest` are the four counter updates of the
interceptor, in the order of the code; `GetAllProjects` and `GetMessagesByEmail` are the
statement between them, which fails, or is cut short once its context has ended
(`CutShort`). The caller's end of a call is `Receive`, `GiveUp`, `Refuse` or `Lose`. The health
check of the student service is a call of `GetAllProjects` with another limit. Limits and the
ends of contexts are not ordered: the answer may come before, at or after the limit.
The periodic reader of OpenTelemetry (`common/telemetry/telemetry.go:47`) collects one instrument
after another, in the order in which `NewGrpcMetrics` creates them: `CollectTotal`, `CollectErrors`,
with handlers going on in between. The export at shutdown, `Flush` of ProjectProcess, comes when no
handler runs any more, so that there the order does not matter.

`ImplementsProcess` says that this module implements ProjectProcess including its fairness:
ProjectProcess assumes that calls end, and here they end because of the client's limits.

### ConnectionPool, PooledHealth: who shares the database

`held[u]` counts the connections a goroutine holds, `waiting` those that wait, `idle` the free ones;
`Connections` are the ones in use, as pairs of a goroutine and a number, so that `InUse` is their count.
A statement takes a free connection, opens one, or waits (`TakeOrWait`); the connection of a
statement that ends goes to one that waits (`HandOver`), or is kept or closed (`Release`).
`Stats` is what `RegisterDB` exports. `database/sql` is modelled from how it is used. That who asks
for a connection holds none is an assumption of `Query` about the repositories of both services,
which run one statement after the other and no transaction; nothing enforces it.
PooledHealth puts the ping of the health check, which has no deadline, and the handlers on
one pool: the check of Postgres in DependencyHealth is the end of a statement here.

### Migrations, Projects: the project store and its replicas

In Migrations `step[r]` is the statement of `RunMigrations` a replica is at (0 without a process,
past the last one while it serves), `flight[r]` whether that statement runs, and whether another
replica has run the same one meanwhile, which Postgres may answer with an error (`Refuse`; the process
ends and is started again). `schema` is what exists. `Crash` ends a process anywhere. The trigger is
dropped and created in one simple query, that is, in one transaction.

`rows` and `lastId` are table `projects` and its sequence, `call[p]` the handler that has
written and not yet re-read, `reply` the response. `Create` and `Update` are the first
statement, `ReadBack` the second, `Delete` the only one. `version` counts the writes of a
row, `stampedBy` is the write that its `updated_at` comes from: the last one if the trigger was there,
an earlier one otherwise. The time itself is the start of that write's transaction (`PS/db/db.go:102`),
which may be earlier than that of a write before it; the model says nothing about the order of times.
A handler runs in a replica that serves (`Home`) and is gone with it. The empty id of a request is `0`.

### AdminPanel: tabs of one browser

`tab` is the React state of each tab (page, student, list), `storage` is `localStorage`,
`cookie` the student in the cookie's access token, `request` the fetches in flight, each
with the cookie it was sent with; `sent` is what users sent and the table of messages.
User actions are the buttons of `Login.tsx`, `Messages.tsx`, `Students.tsx` and a reload;
`Serve` is the student service; `LoginAnswered` to `Timer` are the continuations after
`await` and the one-second timer. An answer to a component or document that is gone changes
nothing (`Unmount`). An answer to a login sets the cookie when it arrives, before the code
after `await` sets the student; a reload in between leaves a cookie without a student.

### DependencyHealth: the gauge

`next` is the check that `checkDependencies` is at, `heard` its result before
`RecordDependencyCheck` stores it in `available`; `up` is the world. `clients`, chosen at the
start, are the dependencies whose client exists: always Postgres, without which neither service
starts. One order of checks serves both services: the project service checks Postgres and NATS, the
first two, and skips the third. The check of NATS asks only for the state of the connection
(`SS/messaging/producer.go:68`, `PS/messaging/consumer.go:98`): `link`, which nats.go changes in its own
time (`Break`, `Reconnect`) and closes for good when its attempts are used up (`GiveUp`).

### Mutants

Operators marked "mutant" are plausible bugs of the definition below them, listed in
`PROJECT.json` with the property that each one breaks. No specification uses them.

## 3. Runs

| run | question | instance |
|---|---|---|
| `auth_safety` | do accounts stay unique (`UniqueAccounts`), spent refresh tokens dead (`SpentTokensStayDead`), sessions bounded (`SessionBound`); is there no session for an account that was gone when the request came (`NoSessionAfterDelete`) | every request, 2 slots, 1 email, 3 tokens, ids 1..2, of which clients may choose 1, lost answers; 509 559 states |
| `auth_lifecycle` | does StudentAuth implement TokenLifecycle (`TokensLiveOnce`), does every request end (`RequestsTerminate`) | register, login, refresh, logout, delete; 2 slots, 2 tokens, 1 id, time 0..1, both faults; 159 020 states |
| `auth_password` | *violated*: can every account be logged in to (`EveryAccountOpens`) | 2 emails, 2 passwords, no faults |
| `messaging_faults` | `PipelineInOrder`, `RefusedIsNotStored`, `ReceivedAreStored`; does Messaging implement Delivery (`DeliversInOrder`); is what was accepted while a consumer listens stored or logged by it, unless a connection breaks or a process ends (`AcceptedIsAccountedFor`) | 2 producers, 1 consumer, 2 events, breaks, failing statements, stops; 179 884 states |
| `messaging_replicas` | *violated*: is a message stored once (`StoredOnce`) | 1 producer, 2 consumers, no faults |
| `student_process` | does status 0 mean that no handler was cut off (`CleanExitAnswersAll`), is nothing accepted once the shutdown has begun (`NoneAcceptedLate`), does a signal end the process (`EndsWhenDone`) | 2 requests; 382 states |
| `student_graceful` | *violated*: do handlers get their ten seconds (`GracefulShutdown`) | 2 requests |
| `project_calls` | are calls cut off only by a signal before `Notify` (`CallsAnswered`), does every caller get an answer (`CallersEnd`), does a shutdown take an answer away (`NoCallLostToShutdown`), does an export show more errors than requests only by calls under way (`ExcessIsUnderWay`), is the last export complete (`LastExportComplete`), does a signal end the process (`EndsWhenDone`), is ProjectProcess implemented (`ImplementsProcess`) | a call of each method, 1 message; 253 268 states |
| `projects` | does a deleted project stay deleted (`NoResurrection`), whose row, left by which write, is in an answer (`AnswersOwnOrLater`), is the schema complete while somebody serves (`ServingHasSchema`), do all replicas come to serve (`AllServe`) | 2 replicas, 2 handlers in one of them, 2 names, ids 1..2, 3 versions, both faults, 1 crash; 266 470 states |
| `panel_tabs` | is the list shown the student's (`ListIsOwn`), is a message stored under the student shown, with one tab in use (`OneTabSendsAsShown`) | 2 tabs, 2 students, 2 requests in flight, 2 messages; 578 789 states |
| `pooled_health` | does the gauge find out (`Converges`), does every statement get a connection (`StatementsRun`), does a wait show on the gauges of the pool (`WaitsAreVisible`) | every set of clients, NATS connection included; 2 handlers and the checker, 2 connections, 1 idle; 23 632 states |
| `pool_idle` | *violated*: does no idle connection mean a saturated pool (`NoIdleIsSaturated`) | as `pooled_health` |

Each module's type invariant is checked by its first run (`CallsTypeOK` includes that of
ProjectProcess, `TypeOK` of Projects that of Migrations); that of StudentProcess is only proved.

**Bounds.** `MaxId`, `MaxTime`, `Tokens` and `MaxPending` bound what is unbounded in the
code; in StudentAuth and Messaging the model reports, where one is reached, the error the
code would report for a failing sequence, generator or buffer, and never blocks. `MaxId`
and `MaxVersion` of Projects, and `Slots` and `MaxSent` of AdminPanel, stop new
creates, updates, requests and messages; what runs goes on. Two slots are enough for each
interleaving of two handlers; the multi-statement handlers are symmetric, and what a
third would add is only a larger `SessionBound`. Two ids let an account or a project be
deleted while another one exists or is made, an account with the same email; three tokens
let a session be replaced while a third pair is in flight. In time 0..1 with lifetimes of
one step a token expires between any two statements. Where time stands still
(`MaxTime = 0`) nothing expires, so stored rows stay acceptable, the harder case for those
properties. One email makes two registrations collide; of the two ids clients may choose the
first, so that the sequence runs into it and a deleted account's id is taken again. Collisions
of a `PUT` with another account's email are not in that instance: the
theorem `AccountsUnique` covers them for every number of emails and every `ClientIds`. With failed
statements too, `auth_safety` reaches the same states: an abandoned request leaves what a
failed one leaves.
In Messaging two events are the fewest that can be swapped or repeated, and
`MaxPending = 1` fills the buffer with one message; two producers with one consumer
interleave streams. Three versions let two
updates come between the statements of a create. Both handlers of that instance run in one
replica, so that the other one can crash, start and migrate under them; one crash lets a
replica end in the middle of its migrations or of its handlers, and refused statements end
more processes than that without a bound. Two calls let one be answered while another one is
cut off, and let a counter update of one come between those of the other. Two connections for three
goroutines exhaust the pool, with `MaxIdle` below `MaxOpen` so that connections are closed
rather than kept. Two requests in flight are the fewest
that can be answered in the other order, in one tab or in two.

**Symmetry.** Slots, tokens, replicas, events, tabs and students are interchangeable: no
definition tells two of them apart. Passwords are not, because of `DefaultPassword`.
Only `auth_safety` and `panel_tabs` use this; runs with liveness properties use no symmetry.

**Deadlock** is checked except where the system comes to rest: in the Messaging runs
without network and stop faults, once every event was sent and handled, and in the
process modules, once the process has ended.

**Fairness.** In StudentAuth each started handler is a goroutine whose current
statement returns, with a result or an error; `WF` on `Handle(p)` says that it then goes
on. Nothing is assumed about arrivals, time or faults. In
Messaging the flusher of the client library, the goroutine of `Start` and the goroutine
of callbacks go on when they can; nothing is assumed about starts, reconnections or faults.
In the processes the goroutines of `main`, `Run` and the consumer are scheduled and the
timer of Shutdown's context fires; HTTP handlers and callbacks may hang. ProjectProcess alone
assumes that gRPC calls end; in ProjectCalls this is not assumed but follows from the limits of
2 and 5 seconds (`SS/projectclient/grpc_client.go`) under weak fairness of `Limit`, of the caller
and of the handler, whose statement ends once its context has, but may otherwise take as
long as it likes. In PooledHealth the checker runs, statements end (the driver has a read timeout),
and a waiting goroutine is not passed over for ever: `database/sql` picks one at random, which is
strong fairness of `Served`. In Projects a replica whose process has ended is started again by
Kubernetes, and statements of migrations end.

## 4. What the violated runs show

* `auth_password`: `PUT /api/students/:id` writes all columns of the decoded body
  (`SS/student/repository.go:74`); the password is not part of any body (`json:"-"`), so the
  account keeps an empty hash that no password matches.
* `messaging_replicas`: a plain `Subscribe` in each of at least two replicas stores each
  message in each of them.
* `student_graceful`: `ListenAndServe` returns `ErrServerClosed` as soon as Shutdown begins;
  Run's goroutine then calls `log.Fatal`, which ends the process with status 1 while handlers
  are still answering, long before the ten seconds are over.
* `pool_idle`: `common/metrics/README.md:319` reads a pool without idle connections as saturated. Idle
  connections are closed after 60 seconds (`SS/db/db.go:73-77`), so a quiet service has none;
  what does hold is `WaitsAreVisible`, on the gauges `in_use` and `max_open`.

Other observations made while modelling, visible in the models but without a run:

* A registration that passes the lookup and loses the race on the unique index is answered
  500 (`RefuseRow`), where `SS/auth/handler_test.go:122` expects 409 of a duplicate email.
* When only the reload of `message.Repository.Create` fails, a stored message is logged as
  not saved (`ReloadMessage`, `PS/messaging/consumer.go:59`).
* The project service exits with status 0 while a callback runs: neither `Consumer.Close`
  nor `main` waits for it (`Return` after `Close`).
* `UpdateProject` may answer with the name that another update has written in between
  (`ReadBack`).
* The panel's logout never calls `/auth/logout` (`Logout`), although
  `services/admin/README.md:152` describes that call; the refresh token stays live.
* The interceptor counts the errors of a call that ran out of time as `Unknown`: the handlers return the
  error of the statement as it is, and `status.FromError` does not know it
  (`common/metrics/grpc.go:156`), while the client sees `DeadlineExceeded`.
* A health check of the student service is also a call of `GetAllProjects`, and counts as a list of
  projects viewed (`PS/project/grpc_server.go:51`).
* Nothing calls `RecordWaitTime`, so the histogram of waits that
  `common/metrics/README.md:314-316` evaluates stays empty.
* Without telemetry (`telemetry.Init` fails) the project service ends at `app.metrics.Grpc`
  (`PS/app/app.go:125`, a nil dereference), a start that fails in ProjectProcess.
* A client may give a new account the id of a deleted one (`CreateStudent`); the refresh tokens still
  stored for the old account then open sessions of the new one.
* Once nats.go has given up reconnecting, after two minutes with its defaults, the gauge of NATS stays
  down and messages are refused until the process is restarted (`GiveUp` in both modules); `/health`
  and `/ready` do not tell.
* Two tabs share the cookie but not the student they show: the later login decides under
  whom both tabs' messages are stored (`ServeSend`).

## 5. What is proved

TLAPS checks the theorems below for every value of the constants that satisfies the
assumptions of their modules. Every safety property of a run that holds is among them, so
what a run shows for two requests or three tokens holds for any number.

The assumptions say no more than what the constants stand for: special values are not members of
the sets they are special in (`ConstantsAssumption`, `MessagingAssumption`,
`AdminPanelAssumption`, `ProjectProcessAssumption`: calls are not messages), bounds are
numbers, `Faults` is a subset of what there is to choose from, `Home` puts each
handler in a replica, the pinger is a goroutine, the pool has a limit above 0 (which `configurePool` sees to), and
a process has finitely many handlers and calls (`FiniteSlots`, `PoolAssumption`,
`ProjectCallsAssumption`), which is used only where they are counted.

| module | theorem | property | rests on |
|---|---|---|---|
| `StudentAuthProofs` | `TypeCorrect` | `TypeOK` | inductive by itself |
| | `AccountsUnique` | `UniqueAccounts` | inductive by itself |
| | `SpentStayDead` | `SpentTokensStayDead` | `TokenInv` |
| | `SessionsBounded` | `SessionBound` | `BoundInv` |
| | `AbsentGetNoSession` | `NoSessionAfterDelete`, for every `ClientIds` | `AccountInv` |
| `StudentAuthRefinement` | `ImplementsLifecycle` | `TokensLiveOnce` | `TokenInv` |
| | `EndedForGood` | `SpentIsDead` and `DeadStaysDead` of TokenLifecycle | the refinement |
| `MessagingProofs` | `TypeCorrect` | `TypeOK` | inductive by itself |
| | `InOrder` | `PipelineInOrder` | `Inv` |
| | `RefusedNotStored` | `RefusedIsNotStored` | `Inv` |
| | `ReceivedStored` | `ReceivedAreStored` | `Inv` |
| | `Delivers` | `DeliversInOrder` | `Inv` |
| `StudentProcessProofs` | `TypeCorrect` | `TypeOK` | inductive by itself |
| | `CleanExit` | `CleanExitAnswersAll` | `Drains` |
| | `AcceptsNothingLate` | `NoneAcceptedLate` | `Drains` |
| `ProjectCallsProofs` | `ProcessTypeCorrect` | `TypeOK` of ProjectProcess | inductive by itself |
| | `CallsImplementProcess` | the safety half of `ImplementsProcess` | step by step |
| | `AnsweredUnlessKilled` | `CallsAnswered` | `Orderly`, and the refinement |
| | `CallsTypeCorrect` | `CallsTypeOK` | `CallsInv` |
| | `ExcessOnlyUnderWay` | `ExcessIsUnderWay` | `CallsInv` |
| | `ExportComplete` | `LastExportComplete` | `CallsInv` |
| | `AnswersSurviveShutdown` | `NoCallLostToShutdown` | `CallsInv` |
| `ProjectsProofs` | `TypeCorrect` | `TypeOK` | `Consistent` |
| | `SchemaServed` | `ServingHasSchema` | `Migrated` |
| | `AnswersTrue` | `AnswersOwnOrLater` | `StoreConsistent`, `Migrated` |
| | `Deleted` | `NoResurrection` | `Consistent` |
| `PooledHealthProofs` | `TypeCorrect` | `TypeOK` | `ChecksInv` |
| | `PoolTypeCorrect` | `PoolTypeOK` | `PoolInv` |
| | `WaitsVisible` | `WaitsAreVisible` | `PoolInv` |
| | `UncheckedStaysDown` | the gauge shows no dependency that has no client | `ChecksInv` |
| `AdminPanelProofs` | `TypeCorrect` | `TypeOK` | `Orderly` |
| | `OwnList` | `ListIsOwn` | `Orderly` |
| | `SendsAsShown` | `OneTabSendsAsShown` | `Alone` |

**StudentAuth.** `SpentTokensStayDead` is not inductive: a handler could store a token that is
already spent. `TokenInv` adds what rules this out: every stored, pending or held token was
generated (`Generated`), a token has one row and one owner (`OwnerUnique`), the token a
handler is about to store is in no row and in no other slot (`NewIsFresh`), the row of a
token presented by a handler belongs to the student whose rows that handler is about to clean, or is
gone once they are cleaned (`Presented`), and a spent token has no row (`SpentIsGone`).
The argument for an exchange is that `cleanTokens` deletes the presented row
because it deletes all rows of its student, and no one can insert that string again.
What TokenLifecycle promises (`LifecyclePromises`) is proved of that small module and carried
over by the refinement.

`SessionBound` counts the student's rows and the requests about to add one. It is inductive
once the rows are known to be finitely many (`BoundInv`): the insert turns a request into a
row, cleaning leaves only requests, and these are not more than the slots.

`NoSessionAfterDelete` looks at a handler that is past its last look at the table, where only its
local variables are left. `AccountInv` adds what holds before: an id that counts as absent for a request
in flight has no row. So the lookup of a refresh cannot find it, the lookup of a login cannot
either, and the insert of a registration, or of a `POST /students` with a chosen id, ends the absence
in the step in which it makes the account.

**Messaging.** `PipelineInOrder` speaks of one sequence, but no step treats it as one: rows are
appended in its middle, a break cuts a piece out of it. `Stages` says the same of its three
pieces (what a replica stored, its queue, the publisher's buffer): each is sorted by the
sender's order, and each is before the next. Lemmas about `Append`, `Tail` and `SubSeq` show
what each step does to pieces. A new event comes last because it was never accepted before
(`AcceptedOnce`), and is nowhere on the way because only accepted events are (`Genuine`). For
Delivery a `SaveMessage` that inserts is `Store`: the head of the queue is, by `Stages`, after
all that the replica has stored of that sender.

**Processes and calls.** `Drains` relates the places of `main` and `Run` to the server: from
the moment Shutdown has begun nothing is accepted, and once it has returned nil no handler
runs. `Orderly` says the same of the gRPC server and adds that a call is cut off only by the
end of the process. `Accounted` ties each counter to the handlers that have passed the line where
it changes. The handlers that have raised `errors` are then among those that have raised `total`, because
`total` is raised first; so errors above the total collected before mean that `total` has grown since.

**Projects and Migrations.** `Migrated`: whatever a replica is past has been executed, by it or by
another one. `StoreConsistent`: what a handler has written and not yet read back is still there,
or there in a later version, or gone (`Claims`), and every row bears the stamp of its last write
(`Keyed`). The two meet in `AnswersOwnOrLater`: an update goes through a replica that serves, and while
anybody serves the trigger exists.

**Pool and gauge.** `PoolInv`: a goroutine waits only while all connections are in use, and never
holds one meanwhile. The rest counts: taking, returning and handing over a connection changes
the number in use by one, by one, and not at all.

**AdminPanel.** `Orderly` says of each request in flight that it still fits its tab, unless its
component is gone and does not hear of it (`Fits`), and of any two that they do not await the
same login or send the same message (`Apart`). `Alone` adds, for one tab, that `localStorage`, the
cookie and the cookies of messages on their way follow that tab.

Each of these invariants was checked by TLC on the instance of its run before it was proved.

Only model-checked: liveness (`RequestsTerminate`, `AcceptedIsAccountedFor`, `EndsWhenDone`,
`CallersEnd`, `AllServe`, `Converges`, `StatementsRun`) and the fairness in `ImplementsProcess`,
which are beyond this prover.

## 6. Not modelled

Reads that change nothing (`GET /students`, gRPC `GetProject`, health endpoints);
`LogoutAll`, `DeleteAllStudentTokens`, `DeleteExpiredTokens`, which no code calls; cookies
beyond the lifetime of the access token; spinners, error banners and the list of students
of the panel; telemetry, logging, configuration, metric instruments and their labels: they run
once or are pure output. Generated message types are data. Deployment
files are read only for the number of replicas.

## 7. Plan

Done: StudentAuth with TokenLifecycle; Messaging with Delivery; the two
processes; the calls between them with the gRPC metrics; the project store with its migrations;
the pool; the panel; dependency health; the proofs of all safety properties that the runs check.

Next, in this order:

1. Which hypotheses are needed: the panel with several tabs, of which one is used after the
   others have gone.
2. More about Messaging without faults: with one replica that listens all along, a row for every accepted
   message that is neither on its way nor reported as failed, the safety half of
   `AcceptedIsAccountedFor`.
3. Composition of StudentAuth and Messaging: the email claim of an access token outlives a
   change of the email and the account itself. No document of the repository promises
   otherwise, so there is no property to state yet.
