# Verification of the backend template

TLA+ models of the API server and its workers (Express, PostgreSQL through `pg`,
BullMQ or RabbitMQ, Socket.IO), TLC configurations that check them on small
instances, and TLAPS proofs for every value of the constants. `src/...` below is
the repository; `PROJECT.json` maps each definition to the lines it models.

## 1. The system

| Part | State it keeps | Operations | Talks to |
|---|---|---|---|
| registration (`auth.service.ts`, `auth.repository.ts`, `base.repository.ts`, `postgres.provider.ts`, the migration) | tables `users` and `audit_logs`, the `pg` pool, `PostgresProvider.connected` | `POST /auth/register`: lookup, connect, transaction, event, answer | PostgreSQL; the event bus |
| reading requests (`auth.service.ts`, `users.*`, `auth.middleware.ts`, `validate.middleware.ts`, `audit.middleware.ts`, `system.routes.ts`) | nothing on the server; a client's JWT | login, current user, lookup by address, the health routes, the audit row after the answer | PostgreSQL |
| server process (`index.ts`, `server.ts`, `shutdown.ts`) | `Server.db`, `Server.io`, `httpServer.listening`, one pending shutdown per signal | setup, start, shutdown, exit | queue provider, Socket.IO, pool |
| events and realtime (`eventBus.ts`, `auth.events.ts`, `socket.ts`) | the listeners of each bus, connected clients | `emit`, the welcome listener, the broadcast | queue provider |
| queue, BullMQ (`bullmq.provider.ts`, `queues/index.ts`, `workers/index.ts`) | jobs in Redis, worker processes | `enqueue`, `startWorker`, `close` | Redis |
| queue, RabbitMQ (`rabbitmq.provider.ts`) | the connection and channel fields; messages on their way, ready or unacknowledged | `getChannel`, `enqueue`, `startWorker`, `close` | the broker |
| configuration (`config/`) | feature flags, middleware and pool settings | validated when the modules are imported | everything |
| utilities, logging, OpenAPI, scripts | none that another part depends on | - | - |

`IQueueProvider` has two implementations; the registration listener uses the one
`queues/index.ts` selects. A registration passes through four parts: it commits
(registration), emits (events), queues a job (queue), and a worker runs it, while
a signal may end the process at any of these points (server). `Onboarding` joins the
first parts of that path.

### What is hard

* **Interleaving.** Node.js runs one continuation at a time, so the places that
  matter are the awaits: between the lookup and the INSERT of `register`; between
  `pool.connect()` and the `SELECT 1` of the first connect, which needs a second
  client; in `getChannel`, where two first enqueues each connect and overwrite
  each other's fields; between two shutdowns started by two signals.
* **Atomicity and partial failure.** Account and audit row in one transaction;
  COMMIT whose reply is lost; ROLLBACK on every path; a query that rejects in any
  handler; an INSERT of an audit row, or a `queue.add`, whose failure only gets logged.
* **Stale state.** A row read before an await and compared after it; a token that
  outlives its account, or the account's permission to log in; a channel field
  whose connection the broker has closed.
* **Crash and redelivery.** A worker that dies while it runs a job, or after the
  processor has returned; acks that are lost; a job given up; an API process that
  dies between COMMIT and `queue.add` (there is no outbox).
* **Resources.** The pool at its limit, with queries that wait for a client when it
  ends; the prefetch window when jobs fail.
* **Ordering of the shutdown.** Queue provider, Socket.IO, HTTP server and pool
  close in this order, while requests are still answered, or while `setup` is still
  awaiting its first query.

`PROJECT.json` lists each of these at its line with the properties that catch it.

## 2. Modules

| Module | Role |
|---|---|
| `AccountRegistry` | what registration promises: atomic creation of account and audit row, one answer per request |
| `Registration` | `POST /auth/register` in detail; implements `AccountRegistry` |
| `Sessions` | what the API promises of accounts and sessions: every answer decided by one look at the accounts |
| `HttpApi` | the requests that read, middlewares that answer, tokens, the audit row of a request; implements `Sessions` |
| `ServerLifecycle` | the process from setup to `process.exit` |
| `JobQueue` | what a queue promises: a job leaves only after its processor has completed |
| `WelcomeJobs` | events, Socket.IO and the BullMQ jobs; implements `JobQueue` |
| `RabbitQueue` | the RabbitMQ provider, on the API's side and the workers'; implements `JobQueue` |
| `Onboarding` | `Registration` composed with `WelcomeJobs`: from the request to the welcome e-mail |
| `MC...` | instances for TLC |
| `...Proofs` | theorems of the module they are named after |

Every action runs from one await to the next: what Node.js executes without
interruption is one step. Operators named `X_Something` next to an operator `X`
are mistakes the code could contain; they are used to test that the properties
notice them and belong to no specification.

### Registration

A `users` row is named by the request that inserts it, so `users`, `auditLog`,
`openUsers`, `openAudit` are sets of requests (committed rows, and rows of open
transactions). `owner` says which request has each client of the pool. `pc` names
the await a request is suspended at:

    idle -> find_wait -> find -> connect_wait -> [probe_wait -> probe ->] begin
         -> insert -> audit -> commit -> committed -> done        (errors: rollback)

* `FindCheckOut`, `FindMatches`, `FindNothing`: `findByEmail`, case-insensitive,
  sees committed rows only.
* `ConnectCheckOut`, `ProbeCheckOut`, `ProbeReturns`, `ProbeFails`:
  `PostgresProvider.connect`. Not yet connected, it sends `SELECT 1` *through the
  pool* while it holds the client it has checked out.
* `InsertUser` waits for an open transaction with the same address, as the
  UNIQUE index does; `InsertViolatesUnique` is the 500 that follows.
* `Commit` and `Created` are two steps, so that the reply to COMMIT can be lost
  (`StatementFails` at `committed`): the account exists and the answer is 500.
* `CheckOutTimesOut` is the pool's timer, `CheckOutFails` a refused connection.
* `Crash` ends every request under way, rolls back, and leaves an empty pool and
  a provider that is not connected.

### HttpApi

Accounts are ids with an address (as written) and a password; `users` says what
has become of each row. A token is named after the login that gave it and stands
for the id in its payload. A request goes

    idle -> query -> reply | failed -> sent -> auditing -> done | unaudited
                                          \-> gone

* `config` says which middlewares `config.yaml` installs. `Malformed` is a body the
  parser refuses, on any route, before the rate limiter counts it or a token is
  looked at; `Limit` is a call over the limit of a window, `NewWindow` the end of one.
* `Arrive`: everything else before the first query, in the order of the routes:
  `Verify` (authenticate), then `Refusal` (401, or 400 of `validate`; without a body
  parser no login is valid).
* `Wanted` is the WHERE clause, `Found` the rows it selects: both lookups ignore case.
  `Read` is the moment PostgreSQL runs the query; `Reply` the moment the handler
  gets the result, which may be old by then. Two rows may match an address when
  they are spellings of it; `LIMIT 1` picks any.
* `Finish` is the `finish` event of the response: the client has its token and
  `audit_logger` sends its INSERT. `HangUp` is a client that has left: the event
  never comes. `WriteAudit` runs the INSERT, which the foreign key refuses for an
  account that is gone.
* `Create`, `Disable`, `Enable`, `Delete` change accounts at any time. No route
  calls `UsersRepository.update`, and nothing in the repository deletes; the schema
  provides for both (`is_active`, `ON DELETE SET NULL`) and operators do them.
* `ImplementsSessions` reads a stateless token as a session: `SessionOf` is the
  account in its payload, `Live` the tokens that are still accepted. What has been
  decided about a request (`Settled`) is nothing until its query has run and what the
  handler will say afterwards, so that `Read` is the step of `Sessions` that decides,
  `Reply` the one that answers, and audit rows and middlewares are stutters or part of
  a rejection.
* `barred` and `kept` are history variables, read by no guard: the accounts that the
  request could at no time, or at all times, have been let into or shown since it
  came. `Forget` drops them when the request is over.

### ServerLifecycle

`main` goes from `loading` (the modules are imported; `Load`, `LoadFails`) over
`connecting` (`setupDatabase`) to `running` (`Start`: the rest of `setup` and `start`,
in the turn in which `SELECT 1` is answered; or `SetupFails`). `config` is any setting of the flags that matter to it. Handlers of
signals exist once the modules are loaded; before, a signal kills (`Kill`).
`stage[s]` is where the shutdown started by signal `s` is suspended: closing the
queue provider (`queues`, `quit`), `io.close` (`io_wait`), `httpServer.close`
(`http_wait`), `pool.end` (`db_wait`). All shutdowns work on the same
fields `db`, `io`, `listening`, `redis`. `AfterQueues`, `AfterIo`, `AfterHttp` are
the tests of `this.io`, `listening`, `this.db` that run in one go up to the next
await.

The pool is that of `pg-pool`: `PoolSize` clients, an insert that finds none free
waits (`Waiting`) until one is handed on by an insert that has succeeded
(`AuditWritten`), the socket of one that has failed has closed (`PoolPulses`), or its
time is up (`AuditFails`). `end()` refuses new queries, lets those with a client finish,
serves none that waits, and has ended at once if no client is checked out
(`AfterHttp`), otherwise when the last socket has closed (`PoolEnded`), which is an event
of the network like any other. `this.db` is set until then, so that a shutdown which
begins while `setup` awaits `SELECT 1` does not stop `setup`: the server goes on to
listen with its pool ending, and what it accepts is cut off by exit 0. `early` is a
history variable, read by no guard: the signals that came before the server listened.

### JobQueue, WelcomeJobs, RabbitQueue

`JobQueue` keeps the set of jobs that are kept and the set of those whose
processor has completed; `Drop` is only allowed for the second. `WelcomeJobs` maps
the BullMQ states to it (kept: from `queue.add` until completed; a job that is
given up stays among the failed ones), `RabbitQueue` the messages that are ready
or unacknowledged.

`WelcomeJobs` starts with any setting of the four flags, has the two bus instances
of the code (`server.ts:40` and `eventBus.ts:45`), attempts, backoff, and BullMQ's
recovery of stalled jobs: a job whose worker died is run again once, and failed
the second time. `queue.add` puts the job into Redis (`Add`) or rejects
(`AddRejects`), which the listener logs and nobody retries; `rejected` is a history
variable of the accounts this has happened to.

`RabbitQueue` has both sides of the broker. In the API process an enqueue goes

    idle -> connect -> create -> assert -> sent | refused      (or idle -> assert)

with one await between any two. `link` names a connection after the enqueue that
opened it; `connection` and `channel` are the provider's two fields, which racing
first enqueues assign in any order, so that they may belong to different
connections; `via` is the channel an enqueue was given. `close()` may come at any
moment (`CloseBegins`, `ProviderChannelClosed`, `ProviderConnectionClosed`,
`CloseFails`), enqueues go on around it. `buffered` is what `sendToQueue` has
written and the broker has not received: a lost connection (`ConnectionBreaks`) or
process (`ProcessDies`) loses it, and the fields of a lost connection stay set. In
a worker, a processor that fails leaves its message unacknowledged, and one that
closes requeues what it holds without waiting.

### Onboarding

The composition extends `Registration` and instantiates `WelcomeJobs`; the accounts
of the second are the requests of the first that were answered 201 (`announced`).
The two meet in three actions: `Answer` joins `Created` with `Register`, because the
event is emitted and its listener runs up to `queue.add` before anything else can;
`Accept` needs a process that has been set up; `Die` is the crash of both. All other
actions, `Add` and `AddRejects` among them, belong to one part and leave the other alone.

## 3. Runs

| Run | Checks | Instance |
|---|---|---|
| `registration` | `Inv`, `UniqueEmail`, `AuditMatchesUsers`, `OpenTransactionHasClient`, `ErrorsHaveCauses`, `OnlyColdPoolBlocks`, `WarmPoolLosesNoClient`, `ImplementsRegistry`, `EveryRequestAnswered` | 3 requests (two of one spelling, one of another), 2 clients, 2 faults, 1 crash |
| `onboarding` | `OnboardingInv`, `JobsAreOfAccounts`, `OnlyFailuresForget`, `OnlyFailuresLeak`, `RegisteredIsWelcomed` | 2 requests with one address, 3 clients, no timeout, 1 fault, 1 worker, 2 attempts, 1 stop, 1 death, all settings of the flags |
| `cold_pool_leak` | finds `ReleasedWhenAnswered` violated | 2 requests, 2 clients, no fault |
| `repeated_address` | finds `RepeatedAddressGets409` violated | 2 requests with one address, 3 clients |
| `address_spelling` | finds `OneAccountPerAddress` violated | 3 requests, two spellings |
| `http_api` | `ApiInv`, `SessionShowsOwner`, `AnswersAreCurrent`, `PresentIsFound`, `AuditNamesBearer`, `EveryCallAnswered`, `AuthenticatedIsAudited`, `ImplementsSessions` | 2 calls of any route, 2 accounts, 1 fault, all middlewares on or all off, 1 call per window |
| `server` | `ShutdownInv`, `OrderlyCutsNobody`, `CleanExitKeepsAudit`, `PoolOutlivesServer`, `OneSignalExitsZero`, `SignalEndsProcess` | 3 requests, 2 pool clients, 2 signals, all settings of the flags |
| `late_enqueue` | finds `CleanExitKeepsJobs` violated | 2 requests, 1 pool client, 1 signal |
| `rabbit_queue` | `QueueInv`, `WorkerLoad`, `AcceptedIsKept`, `RefusalHasCause`, `ImplementsJobQueue`, `EnqueueSettles`, `QueuedJobIsTried` | 2 jobs, 2 workers, prefetch 1, 1 failure, 1 refusal, 1 lost connection or process, 1 close, 1 stop |
| `rabbit_stuck` | finds `QueuedJobIsTried` violated | 2 jobs, 1 worker, prefetch 1, 1 failure |
| `welcome_jobs` | `WelcomeInv`, `GivenUpIsExhausted`, `OnlyCrashesStrand`, `ImplementsJobQueue`, `JobSettles` | 2 accounts, 2 workers, 1 client, 2 attempts, 1 stop, 2 crashes, all 16 settings of the flags |
| `broadcast` | finds `RegistrationIsBroadcast` violated | 1 account, 1 client |

The inductive invariant of each module (`Inv`, `ShutdownInv`, `QueueInv`, `WelcomeInv`,
`ApiInv`, `OnboardingInv`) has the module's type invariant as a conjunct, and `WelcomeInv`
has `FlagsRespected`, so that their runs check these too.

### What the passing runs show

* **registration**: account and audit row never come apart, not even when a
  statement fails, the reply to COMMIT is lost or the process dies. The client of
  an open transaction is never back in the pool. A 409 always has another
  account behind it; without a timeout, a rollback or a 500 has a failed statement or
  another account with the address behind it. Requests wait for each other in a circle
  only when first connects hold every client that is left in the pool: the locks of the UNIQUE index never close one. Once the provider is connected and outside the first
  connects, no step loses a client. Every request is answered, thanks to the
  connection timeout.
* **onboarding**: a job always belongs to a committed account that was answered 201,
  so that no worker can look for an account that is not there. Short of a rejected
  `queue.add`, which the listener swallows, a failing statement (a COMMIT whose reply
  is lost) or a death of the process, every account gets its job; from its 201 on it is
  welcomed, or its job is in the queue, or that has failed as often as it may or has
  lost its worker twice (`OnlyFailuresForget`); and in the end it is one of the first
  and the last. With one
  client more than concurrent registrations a cold pool neither blocks nor loses a
  client, even without a timeout, until something fails.
* **http_api**: a session shows the account whose password opened it, even when
  that account has been deleted and its address has a new account. A login that
  begins after an account has been switched off does not get in, unless it is
  switched on again; one that has already read the row does, which is why the
  property speaks of "ever since the request came". The other way round, an account
  that is there all the time is found, unless another spelling of its address is
  returned instead. Tokens that the server does not store do what sessions kept in
  one place would do, and every answer is that of one moment. An audit row names the bearer
  of the token. An authenticated request is audited unless its client has left, the
  INSERT has failed or the account is gone: the sentence "every authenticated
  request is written to audit_logs" (`README.md:20`) holds with these exceptions.
* **server**: after one signal to a server that listens (`Orderly`), a shutdown that
  exits 0 has cut off no request and no insert was refused, and the pool is open while a
  request is served. One signal at any time, during `setup` too, does not make a
  server that runs exit 1. However many signals come and whenever they do, Redis and the
  pool are closed by one shutdown each, no insert is cut off half-way by a clean exit,
  and one that waits for a client is dropped only behind more answers than the
  pool has clients. A server without an early signal accepts no request once its
  pool is on its way out. The guarantees for requests are limited to one signal because a
  second one finds `httpServer.listening` false while the first still waits for its
  requests, and goes on to end the pool; and to servers that listen because a signal
  during `setup` ends the pool of a server that is about to. With any number of signals
  the process ends.
* **rabbit_queue**: racing first connects make no enqueue reject that RabbitMQ would
  have taken, and neither they nor a `close()` at any moment lose a job that was
  accepted; what does lose jobs is a lost connection or process, because nothing waits for a
  confirm. Every enqueue resolves or rejects.
* **rabbit_queue**, **welcome_jobs**: a job leaves the queue only after its
  processor has completed, through redelivery, stops and crashes. A worker is not
  given more than the prefetch, and one with nothing to do has room for a message
  until as many jobs have failed as its prefetch: nothing else blocks it. A BullMQ job is not given up early, and settles.

### What the other runs show

* **cold_pool_leak**: as many concurrent first registrations as the pool has
  clients: each holds one and waits for another for its `SELECT 1`. The timeouts
  answer them, and the clients are never released: `connect()` fails before
  `transaction()` has entered its `try` (`postgres.provider.ts:40`).
* **repeated_address**: both requests pass the lookup, the second INSERT violates
  the index and is answered 500; the OpenAPI document says 409.
* **address_spelling**: the lookup ignores case and the index does not, so that
  two spellings registered at the same time both get an account.
* **late_enqueue**: the queue provider is closed first; a registration answered
  afterwards loses its job.
* **rabbit_stuck**: a failed job is neither acked nor nacked and keeps its place in
  the prefetch window; as many of them as the prefetch stop the worker.
* **broadcast**: Socket.IO listens on the bus of the Server, the services emit on
  the one of the module.

### Bounds, and why they are enough

* *Pool.* The boundary is N concurrent first connects over N clients (all block)
  and N + 1 clients (one is always free for a `SELECT 1`). The instances sit on
  both sides; `registration` has more requests than clients.
* *Addresses.* Three requests give both a repeated spelling and a different one;
  each property about addresses relates two of them.
* *Faults and crashes.* Two failing statements hit the same request twice or two
  requests; after the one crash the pool is cold again.
* *http_api.* A login and a request with its token are two calls; two accounts are
  what deletion and a second registration of the address need, or two spellings.
  The call set has one call of each route and one that validation refuses. Each
  account has one password and both may be presented at the other's address.
  The two settings have each middleware on and off; with one call per window the
  second call is over the limit or comes in a new window.
* *Onboarding.* Two requests with one address give every pair of outcomes of a race;
  one death comes at each point of both; three clients are one more than the
  requests.
* *Signals.* Two signals are every pair of concurrent shutdowns; three requests
  can be served, answered and still to come, and with two clients of the pool the
  third insert is the one that waits.
* *Rabbit.* Two enqueues are every race of first connects; a third would assign the
  fields once more. One cut meets each await and each state of `close()`. One stop
  hits either worker. A failed job occupies one place for good: `QueuedJobIsTried` needs
  Prefetch x Workers > failures (2 > 1), and fails at equality, which
  `rabbit_stuck` shows.
* *BullMQ.* A job is given up for stalls on the second one, hence two crashes; two
  attempts are the smallest number where a retry happens.

### Fairness, and why the code justifies it

* Continuations of an await run, PostgreSQL answers or the connection fails, timers
  fire (`Registration`: `Proceed`, `HttpApi`: `Handle`, `ServerLifecycle`: `Start`
  or `SetupFails`, `Serve`, `Background`, `Shutdown`): Node.js starves no callback and handlers
  have no unbounded loops.
* Workers that have stopped are started again: `ecosystem.config.json` sets
  `autorestart`. Brokers deliver what a worker has room for; processors return or
  fail; a backoff ends.
* amqplib settles every call on a channel, open or gone (`RabbitQueue`: `Resume`); a
  message written to a socket need not arrive.
* `Onboarding` has the fairness of its parts, with `Answer` in the place of `Created`.
* Only weak fairness is used. Nothing is fair about arrivals, signals, faults,
  crashes, hang-ups, the expiry of tokens and what operators do to accounts.

## 4. Proofs

Each `...Proofs` module has one inductive invariant, a lemma that the initial
states satisfy it, a lemma that every action keeps it (one step per action), and
theorems that follow from it. They hold for all requests, accounts, clients,
workers, signals, flags and bounds.

| Module | Theorems |
|---|---|
| `RegistrationProofs` | `Invariance`, `TypeCorrect`, `EmailsAreUnique`, `AccountsAreAudited`, `ErrorsAreExcused`, `CanonicalAddressesAreUnique`, `PoolHoldsNoTransaction`, `WarmPoolIsSafe` (an action property), `NothingFailsNothingLeaks`, `OnlyFirstConnectsBlock`, `AmplePoolNeverBlocks`, `Refinement` (of `AccountRegistry`) |
| `OnboardingProofs` | `Composes`, `ComposesJobs` (each part behaves as it does alone), `ComposedRefinement` (of `AccountRegistry`), `ComposedQueue` (of `JobQueue`), `ComposedWelcomes`, `OnboardingInvariance`, `OnboardingTypeCorrect`, `WelcomesAreOfAccounts`, `AccountsAreNotForgotten`, `ComposedPoolLosesNothing`, `ComposedPoolNeverBlocks` |
| `HttpApiProofs` | `ApiInvariance`, `TypeCorrect`, `SessionsShowTheirOwner`, `AnswersStayCurrent`, `NobodyIsMissed`, `AuditIsTruthful`, `Refinement` (of `Sessions`) |
| `ServerLifecycleProofs` | `ShutdownInvariance`, `TypeCorrect`, `CutsNobody`, `KeepsAudit`, `PoolOutlives`, `ExitsZero` |
| `RabbitQueueProofs` | `QueueInvariance`, `TypeCorrect`, `LoadIsBounded`, `AcceptedJobsAreKept`, `RefusalsHaveCauses`, `Refinement` (of `JobQueue`) |
| `WelcomeJobsProofs` | `WelcomeInvariance`, `TypeCorrect`, `FlagsAreRespected`, `NothingIsGivenUpEarly`, `StoppedWorkersDrain`, `Refinement` (of `JobQueue`) |

Assumptions: the named ASSUMEs of each module (types of the constants, a
placeholder that is none of the others, bounds that are naturals, a positive
prefetch, at least one attempt, a finite pool; for the Server's pool a positive size, as
`config/index.ts:63` demands). `ServerLifecycle` assumes nothing of the signals. Two theorems have hypotheses of their own, because they answer a question about a
deployment: `CanonicalAddressesAreUnique` (every address arrives in the form in which
the lookup compares it) is what would make the violation of `address_spelling` go away,
and `AmplePoolNeverBlocks` (more clients than requests, no timeout) is the size of
the pool from which that of `cold_pool_leak` is gone.

Why the invariants need strengthening:

* *Registration.* "Account iff audit row" survives `Commit` only because both rows
  are in the open transaction when the request stands at `commit` (`RowsByStage`).
  Uniqueness needs the index to see open transactions (`UniqueRows`). That a client
  goes back without a transaction needs how many clients a request has at each
  await (`ClientsByStage`), which is also what `WarmPoolIsSafe` uses.
* *Circles.* A blocked request at `insert` waits for one that holds an open
  transaction, which is itself at a point where nothing but PostgreSQL can hold it up;
  so in a circle nobody is at `insert`. What is left waits for a client while none is
  free, every client that is not lost belongs to a first connect, and each of these has
  exactly one: a bijection between them and the clients (`OnlyFirstConnectsBlock`).
* *HttpApi.* That a session shows its owner needs the chain from the bearer's token
  to the login that was answered 200 (`TokensAreEarned`) to the row and the
  password it saw (`LoginWasEarned`), and that `me` looks up the token's id
  (`SeenWasThere`). That an answer is current needs that the history only leaves
  out what has really been there (`HistoryLags`). That nobody is missed needs the
  converse (`HistoryKeeps`), and that a query which found no row, or an inactive one,
  saw the table at a time when the kept accounts were in it (`NothingMissed`). The
  refinement has one lemma per action, and one that a settled request stays settled; a
  session opens at `Finish`, which needs that no token exists before its login is over.
* *ServerLifecycle.* One part of `ShutdownInv` holds however many shutdowns run side by
  side: whoever quits Redis or ends the pool is alone in it, and no insert is under way
  when the pool has ended (`ClosedOnce`); an insert that waits has found the clients of
  the pool with others, all of them answered requests, which takes facts about
  cardinalities (`WaitsBehindOthers`). The other parts are conditional on state predicates
  that can only turn false: under `OneSignal` what is closed has been closed by the one
  shutdown (`ClosedByStage`), under `Orderly` it ends the pool after the last request
  (`ServedBeforeEnd`).
* *RabbitQueue.* A worker's load is bounded by what it *holds*: processors that run
  are among the unacknowledged messages while the worker consumes
  (`RunningIsKept`, `WithinPrefetch`). The converse, that whatever it holds is running,
  being acknowledged or failed, is what leaves room for the next message. That an accepted job is kept needs that a
  message on its way has been neither delivered nor processed (`OnItsWay`); that a
  refusal has a cause, that every channel in use has been opened and is open while
  nothing is cut or closing (`LinksAreOpened`).
* *Onboarding.* Every step is a step or a stutter of each part (`Composes`,
  `ComposesJobs`), from which the parts' theorems follow, those of the queue as an
  instance of `WelcomeJobsProofs` whose assumptions are shown to hold here. That no account is forgotten
  needs that a process which listens has its listener (`Listens`) and that an account
  without announcement or without job has met a failure, if only that of its `queue.add`
  (`ForgottenMeetsFailure`).
* *The pool.* `NothingFailsNothingLeaks` strengthens "no client is lost" with the
  number of clients of a request at each await, and only for states without a fault.
* *WelcomeJobs.* A job is given up early only if its counters lie: attempts are left
  while it is not failed, and a second stall takes a second crash (`AttemptsLeft`).

Only model-checked: the liveness properties (`EveryRequestAnswered`,
`EveryCallAnswered`, `AuthenticatedIsAudited`, `SignalEndsProcess`,
`EnqueueSettles`, `QueuedJobIsTried`, `JobSettles`, `RegisteredIsWelcomed`), because fairness and ENABLED are out of the
prover's reach, and what the runs that find violations show.

## 5. Abstractions

* External and modelled by how the code uses them: `pg` (the order in which waiting
  requests get a client is left open), PostgreSQL's isolation (READ COMMITTED,
  unique index, foreign key), BullMQ, RabbitMQ, Socket.IO, Express.
* Passwords are values that are equal or not: the hash and its parameters are left
  out, and so are JWT signatures. A forged token is no token. The two JWT secrets
  are taken to differ, so that a refresh token opens nothing.
* The two pools (the Server's and the repositories') are separate, as in the code:
  `ServerLifecycle` has the first, `Registration` the second. `HttpApi` has no pool;
  a query that gets no client is a failed query there.
* `RabbitQueue` enqueues each job once; a worker's own connection is part of the
  worker. `ServerLifecycle` has QUEUE_PROVIDER=bullmq. BullMQ's removal of old
  completed and failed jobs is left out. Why Redis or BullMQ refuse a job is left open:
  every `queue.add` may be rejected.
* The limiter counts by client address; in `HttpApi` all calls come from one.
* `Onboarding` has no Socket.IO clients; they are in `WelcomeJobs`.
* Of the configuration, what changes control flow is modelled: validation that ends
  the process, the flags, the limiter, the body parser, the pool and the attempts.
  YAML, and settings that only reach a library (helmet, CORS, log format), are left
  out, and so are bodies, headers, logging and OpenAPI.

### Not modelled

* The second set of middlewares (`jwt.middleware.ts`, `validation.middleware.ts`,
  `requestId.middleware.ts`, `notFound.middleware.ts`), `health.controller.ts` and
  `api_response.ts`: nothing mounts or imports them.
* `pagination.ts`, `cache.ts`, `seed_utility.ts`, `email.ts`, `uid.ts`, `time.ts`: no
  module of the running server imports them, so that no state of the program depends
  on what they compute.
* Logging, the debug proxy and the OpenAPI documents: output and static data.

### Seen while modelling, and not the subject of a run

* The branch of `authenticate` for an expired token (`auth.middleware.ts:61`) is
  never taken, because `verifyAccessToken` turns every error into "invalid".
* `WORKFLOW.md` draws `validate` before `authenticate`; the routes have it after.
* `errorHandler` and `notFoundMiddleware` are registered nowhere: Express's own
  handler answers with the status of the error.
* Closing the RabbitMQ provider does not drain its worker (`rabbitmq.provider.ts:162`),
  unlike BullMQ's. Racing first enqueues leave a connection that no `close()` closes,
  and two SIGTERMs close a channel that is closing. The process ends all of these.
* The defaults of `env.ts` always override `server.host`, `port`, `environment` and the
  CORS origins of `config.yaml` (`config/index.ts:134`), where the comment at
  `index.ts:16` says "overrides config.yaml if set".
* A signal during `setup` (`index.ts:28` installs the handlers before `server.ts:91`
  has its answer) ends the pool before the HTTP server, which then starts to listen and
  is cut off by exit 0, where `WORKFLOW.md:109` has "closing the HTTP server, and ending
  the pg pool in that order".
* Audit rows that wait for a client of the Server's pool when it ends are lost, without
  a log line, by a clean exit.
* A `queue.add` that is rejected (`auth.events.ts:47`) is logged and forgotten. Releases of
  BullMQ that refuse a custom id with a colon would reject every welcome job, whose id
  is `welcome-email:<id>` (`queues/index.ts:39`).
* `security.rate_limit.skip_localhost` is parsed and used nowhere.
* With QUEUE_PROVIDER=rabbitmq and `queues.bullmq.enabled` off, the registration
  listener is not registered (`server.ts:100`), although RabbitMQ could take its jobs.
* pm2's `autorestart` starts again a worker that has exited with 0 because it is
  disabled.
* Nobody handles the error of `listen`; bodies the parser refuses are not counted by
  the limiter.

## 6. Plan

1. *Done*: registration and its registry; the server from import to exit; the queue
   contract and its two implementations, RabbitMQ's with the first connect and
   `close()`; events; the reading requests under the middleware settings and the sessions
   they implement; the composition of registration and welcome jobs; an invariant proof
   for each, and refinement proofs for registration, sessions, the composition and both
   queues; proofs for any number of signals; the sizes at which the pool and a worker block.
2. *Registration and sessions*: `HttpApi` with the abstract registry in place of
   `Create`, so that a login right after a 201 is shown to find its account.
3. *Shutdown of a RabbitMQ provider*: `ServerLifecycle` with `RabbitQueue`'s `close()` in
   place of BullMQ's.
4. *Utilities*: pagination (`NaN`, zero and limits) and the single-use cache, as
   operators checked against reference definitions, once a route uses them.
