-------------------------- MODULE ServerLifecycle --------------------------
(***************************************************************************)
(* The API process from its first line to process.exit:                    *)
(*                                                                         *)
(*   config/             env and config.yaml, read and validated on import *)
(*   index.ts            setup().then(start), one handler per signal       *)
(*   shared/server.ts    Server.setup, start, shutdown                     *)
(*   lib/shutdown.ts     shutdown_handler and the exit codes               *)
(*   bullmq.provider.ts  close(), and an enqueue that comes after it       *)
(*   audit.middleware.ts the insert that follows an answer                 *)
(*                                                                         *)
(* Every signal starts a shutdown of its own: SIGINT after SIGTERM, or a   *)
(* second Ctrl-C, runs Server.shutdown concurrently with the first one, on *)
(* the same fields.  A signal may also come while setup awaits its first   *)
(* query.  What runs between two awaits is one action.                     *)
(*                                                                         *)
(* The pool here is the Server's own; that of the repositories is never    *)
(* ended.  An ending pool of pg finishes the queries that have a client    *)
(* and serves none that waits for one; it has ended when the socket of the *)
(* last client has closed, and until then the process goes on.             *)
(***************************************************************************)
EXTENDS Naturals, FiniteSets

CONSTANTS
    Requests,    \* HTTP requests
    Signals,     \* deliveries of SIGTERM or SIGINT
    PoolSize     \* database.pool_size

ASSUME PoolSizeAssumption == PoolSize \in Nat \ {0}

VARIABLES
    config,      \* the flags of config.yaml
    main,        \* index.ts: imports, then setup().then(start)
    db,          \* Server.db: the pool, null before setup and at the end of a shutdown
    io,          \* is Server.io set?
    listening,   \* httpServer.listening
    redis,       \* BullMqQueueProvider.connection
    stage,       \* where each signal's shutdown is suspended
    early,       \* signals that came before the server listened (history, read by no guard)
    request,     \* each request
    job,         \* the queue.add its registration started
    audit,       \* the audit_logs insert its answer started
    exit         \* the process's exit code, once it has one

work == <<request, job, audit>>
server == <<config, main, db, io, listening, redis>>
shutdowns == <<stage, early>>
vars == <<server, shutdowns, work, exit>>

Stages == {"idle", "queues", "quit", "quit_again", "io_wait", "io_again", "http_wait", "db_wait"}

\* appConfigSchema: what it accepts, as far as the start depends on it.
Configs == [socketio : BOOLEAN, bullmq : BOOLEAN, notification_jobs : BOOLEAN]

\* Does the auth listener queue welcome jobs?
QueueJobs == config.bullmq /\ config.notification_jobs

Init ==
    /\ config \in Configs
    /\ main = "loading"
    /\ db = "none"
    /\ io = FALSE
    /\ listening = FALSE
    /\ redis = "none"
    /\ stage = [s \in Signals |-> "idle"]
    /\ early = {}
    /\ request = [r \in Requests |-> "none"]
    /\ job = [r \in Requests |-> "none"]
    /\ audit = [r \in Requests |-> "none"]
    /\ exit = "none"

Serving == {r \in Requests : request[r] = "serving"}

Audited == {r \in Requests : audit[r] # "none"}

\* The inserts that have a client of the pool, and those that wait for one.
Writing == {r \in Requests : audit[r] = "writing"}
Waiting == {r \in Requests : audit[r] = "waiting"}

\* A mistake to stand for PoolBusy: a pool that does not await its inserts.
PoolBusy_SetupOnly == main = "connecting"

\* Does a query have a client, that of setup or an insert?
PoolBusy == main = "connecting" \/ Writing # {}

Exit(code) == exit' = code /\ UNCHANGED <<server, shutdowns, work>>

-----------------------------------------------------------------------------
(* The modules are imported, which validates the environment and           *)
(* config.yaml; then setup, with the pool's SELECT 1 as its only await.     *)

\* Both are valid: the handlers of the signals are installed, setup creates
\* the pool.
Load ==
    /\ main = "loading"
    /\ main' = "connecting"
    /\ db' = "open"
    /\ UNCHANGED <<config, io, listening, redis, shutdowns, work, exit>>

\* A variable or a setting is missing or wrong: nothing catches the error.
LoadFails == main = "loading" /\ Exit("1")

\* A signal that comes before its handler has its default effect.
Kill == main = "loading" /\ Exit("killed")

\* SELECT 1 is answered: setupRealtime .. setupRoutes, then start().  The pool may
\* be ending by now: this.db is still set, and nothing looks further.
Start ==
    /\ main = "connecting"
    /\ main' = "running"
    /\ io' = config.socketio
    /\ listening' = TRUE
    /\ UNCHANGED <<config, db, redis, shutdowns, work, exit>>

\* Or it fails, or the port is taken: nobody handles the error of listen.  A pool
\* that is ending may have ended with its only client, just before.
SetupFails ==
    /\ main = "connecting"
    /\ Exit("1") \/ (db = "ending" /\ Exit("0"))

-----------------------------------------------------------------------------
(* Requests.                                                               *)

Accept(r) ==
    /\ listening
    /\ request[r] = "none"
    /\ request' = [request EXCEPT ![r] = "serving"]
    /\ UNCHANGED <<server, shutdowns, job, audit, exit>>

\* POST /auth/register: the answer and the event, whose listener calls
\* queue.add.  A provider that was closed opens a new connection, one that is
\* closing fails it.
AnswerRegistration(r) ==
    /\ request[r] = "serving"
    /\ request' = [request EXCEPT ![r] = "answered"]
    /\ job' = [job EXCEPT ![r] =
                  IF ~QueueJobs THEN "none" ELSE IF redis = "quitting" THEN "failed" ELSE "adding"]
    /\ redis' = IF QueueJobs /\ redis = "none" THEN "open" ELSE redis
    /\ UNCHANGED <<config, main, db, io, listening, shutdowns, audit, exit>>

JobAdded(r) ==
    /\ job[r] = "adding"
    /\ job' = [job EXCEPT ![r] = "added"]
    /\ UNCHANGED <<server, shutdowns, request, audit, exit>>

\* Redis or BullMQ refuses the job, which the listener only logs.
JobRejected(r) ==
    /\ job[r] = "adding"
    /\ job' = [job EXCEPT ![r] = "rejected"]
    /\ UNCHANGED <<server, shutdowns, request, audit, exit>>

\* An authenticated request: audit_logger inserts when the response is
\* finished, as soon as the pool has a client.  A pool that is ending refuses,
\* and that is only logged.
AnswerAuthenticated(r) ==
    /\ request[r] = "serving"
    /\ request' = [request EXCEPT ![r] = "answered"]
    /\ audit' = [audit EXCEPT ![r] = IF db # "open" THEN "refused"
                                     ELSE IF Cardinality(Writing) < PoolSize THEN "writing"
                                     ELSE "waiting"]
    /\ UNCHANGED <<server, shutdowns, job, exit>>

\* The client goes to an insert that waits for one, if the pool is not ending.
AuditWritten(r) ==
    /\ audit[r] = "writing"
    /\ \/ /\ db = "open"
          /\ \E q \in Waiting : audit' = [audit EXCEPT ![r] = "written", ![q] = "writing"]
       \/ /\ db # "open" \/ Waiting = {}
          /\ audit' = [audit EXCEPT ![r] = "written"]
    /\ UNCHANGED <<server, shutdowns, request, job, exit>>

\* The insert fails, and its client is closed; or it has waited too long for one
\* (connectionTimeoutMillis).  Both are only logged.
AuditFails(r) ==
    /\ audit[r] \in {"writing", "waiting"}
    /\ audit' = [audit EXCEPT ![r] = "logged"]
    /\ UNCHANGED <<server, shutdowns, request, job, exit>>

\* The socket of a failed insert has closed: there is room for another client.
PoolPulses(r) ==
    /\ db = "open"
    /\ r \in Waiting
    /\ Cardinality(Writing) < PoolSize
    /\ audit' = [audit EXCEPT ![r] = "writing"]
    /\ UNCHANGED <<server, shutdowns, request, job, exit>>

-----------------------------------------------------------------------------
(* Server.shutdown, once per signal.  The tests of this.io, listening and  *)
(* this.db are made in one go up to the next await; "this.db" is set as    *)
(* long as the process lives, for the shutdown that sets it to null exits. *)

Advance(s, from, to) == stage[s] = from /\ stage' = [stage EXCEPT ![s] = to]

\* The mistake of this.db = null before pool.end() has been awaited: a second
\* shutdown takes the pool for ended.
AfterHttp_NullFirst(s, from) ==
    \/ db = "open" /\ db' = "ending" /\ Advance(s, from, "db_wait") /\ UNCHANGED exit
    \/ db # "open" /\ stage[s] = from /\ exit' = "0" /\ UNCHANGED <<db, stage>>

\* A pool with a query under way ends after it, one without ends at once, and the
\* process exits; twice is an error: "Called end on pool more than once".
AfterHttp(s, from) ==
    \/ /\ db = "open" /\ PoolBusy
       /\ db' = "ending"
       /\ Advance(s, from, "db_wait")
       /\ UNCHANGED exit
    \/ /\ db = "open" /\ ~PoolBusy
       /\ stage[s] = from
       /\ db' = "none"
       /\ exit' = "0"
       /\ UNCHANGED stage
    \/ /\ db = "ending"
       /\ stage[s] = from
       /\ exit' = "1"
       /\ UNCHANGED <<db, stage>>

\* The mistake of httpServer.close() without the test of listening: an error
\* for a server that does not listen.
AfterIo_Unguarded(s, from) ==
    /\ stage[s] = from
    /\ \/ listening /\ listening' = FALSE /\ Advance(s, from, "http_wait") /\ UNCHANGED <<db, exit>>
       \/ ~listening /\ exit' = "1" /\ UNCHANGED <<stage, db, listening>>

\* "if (this.httpServer.listening)": false while another shutdown drains.
AfterIo(s, from) ==
    \/ listening /\ listening' = FALSE /\ Advance(s, from, "http_wait") /\ UNCHANGED <<db, exit>>
    \/ ~listening /\ AfterHttp(s, from) /\ UNCHANGED listening

\* The mistake of pool.end() before io.close().
AfterQueues_PoolFirst(s, from) ==
    \/ /\ io
       /\ Advance(s, from, IF listening THEN "io_wait" ELSE "io_again")
       /\ listening' = FALSE
       /\ db' = "ending"
       /\ UNCHANGED exit
    \/ ~io /\ AfterIo(s, from)

\* io.close() closes the HTTP server too.
AfterQueues(s, from) ==
    \/ /\ io
       /\ Advance(s, from, IF listening THEN "io_wait" ELSE "io_again")
       /\ listening' = FALSE
       /\ UNCHANGED <<db, exit>>
    \/ ~io /\ AfterIo(s, from)

-----------------------------------------------------------------------------
(* Mistakes this code could contain.  Each stands for the action it is     *)
(* named after, and has to break a property of a run.                      *)

\* The callback of io.close() is not awaited.
IoClosed_NotAwaited(s) ==
    /\ stage[s] \in {"io_wait", "io_again"}
    /\ io' = FALSE
    /\ AfterIo(s, stage[s])
    /\ UNCHANGED <<config, main, redis, early, work>>

\* shutdown_handler leaves the exit to the event loop, which the pool of the
\* repositories keeps alive.
PoolEnded_NoExit(s) == stage[s] = "db_wait" /\ ~PoolBusy /\ UNCHANGED vars

-----------------------------------------------------------------------------
Signal(s) ==
    /\ main # "loading"
    /\ Advance(s, "idle", "queues")
    /\ early' = IF main = "running" THEN early ELSE early \cup {s}
    /\ UNCHANGED <<server, work, exit>>

\* The end of provider.close(): quit the connection if there is one ...
CloseQueues(s) ==
    /\ redis = "none"
    /\ AfterQueues(s, "queues")
    /\ UNCHANGED <<config, main, io, redis, early, work>>

Quit(s) ==
    /\ redis # "none"
    /\ Advance(s, "queues", IF redis = "open" THEN "quit" ELSE "quit_again")
    /\ redis' = "quitting"
    /\ UNCHANGED <<config, main, db, io, listening, early, work, exit>>

QuitReplies(s) ==
    /\ redis' = "none"
    /\ AfterQueues(s, "quit")
    /\ UNCHANGED <<config, main, io, early, work>>

\* ... but one that another shutdown has quit rejects a second QUIT.
QuitRejected(s) ==
    /\ stage[s] = "quit_again"
    /\ \A t \in Signals : stage[t] # "quit"
    /\ Exit("1")

\* The last request is over.  To a shutdown that found the server closed the
\* callback comes with an error, at once or then: runtimes differ.
IoClosed(s) ==
    /\ \E from \in {"io_wait", "io_again"} : AfterIo(s, from)
    /\ stage[s] = "io_wait" => Serving = {}
    /\ io' = FALSE
    /\ UNCHANGED <<config, main, redis, early, work>>

HttpClosed(s) ==
    /\ Serving = {}
    /\ AfterHttp(s, "http_wait")
    /\ UNCHANGED <<config, main, io, listening, redis, early, work>>

\* The socket of the last client has closed, whatever has come in between.  The
\* shutdown returns and the process exits, with requests and all.
PoolEnded(s) ==
    /\ stage[s] = "db_wait" /\ ~PoolBusy
    /\ db' = "none"
    /\ exit' = "0"
    /\ UNCHANGED <<config, main, io, listening, redis, shutdowns, work>>

Serve(r) == AnswerRegistration(r) \/ AnswerAuthenticated(r)

Background(r) ==
    JobAdded(r) \/ JobRejected(r) \/ AuditWritten(r) \/ AuditFails(r) \/ PoolPulses(r)

Shutdown(s) ==
    \/ CloseQueues(s) \/ Quit(s) \/ QuitReplies(s) \/ QuitRejected(s)
    \/ IoClosed(s) \/ HttpClosed(s) \/ PoolEnded(s)

Exited == exit # "none" /\ UNCHANGED vars

Next ==
    \/ /\ exit = "none"
       /\ \/ Load \/ LoadFails \/ Kill \/ Start \/ SetupFails
          \/ \E r \in Requests : Accept(r) \/ Serve(r) \/ Background(r)
          \/ \E s \in Signals : Signal(s) \/ Shutdown(s)
    \/ Exited

Spec == Init /\ [][Next]_vars

Alive(A) == exit = "none" /\ A

\* PostgreSQL and Redis answer, sockets close and handlers answer their requests.
\* Requests and signals need not come.
FairSpec ==
    /\ Spec
    /\ WF_vars(Alive(Start \/ SetupFails))
    /\ \A r \in Requests : WF_vars(Alive(Serve(r))) /\ WF_vars(Alive(Background(r)))
    /\ \A s \in Signals : WF_vars(Alive(Shutdown(s)))
-----------------------------------------------------------------------------
(* Properties.                                                             *)

\* The type of every variable.
TypeOK ==
    /\ config \in Configs
    /\ main \in {"loading", "connecting", "running"}
    /\ db \in {"open", "ending", "none"}
    /\ io \in BOOLEAN
    /\ listening \in BOOLEAN
    /\ redis \in {"none", "open", "quitting"}
    /\ stage \in [Signals -> Stages]
    /\ early \subseteq Signals
    /\ request \in [Requests -> {"none", "serving", "answered"}]
    /\ job \in [Requests -> {"none", "adding", "added", "rejected", "failed"}]
    /\ audit \in [Requests -> {"none", "waiting", "writing", "written", "refused", "logged"}]
    /\ exit \in {"none", "0", "1", "killed"}

\* What the guarantees rest on: one signal at most, ...
OneSignal == \A s, t \in Signals : stage[s] # "idle" /\ stage[t] # "idle" => s = t

\* ... and that to a server that listens.  A signal during setup lets the server
\* listen with its pool ending, and exit 0 then cuts requests off.
Orderly == OneSignal /\ early = {}

\* A process that reports a graceful shutdown has cut no request off: exit
\* code 0 comes after the HTTP server has closed (Server.shutdown).
OrderlyCutsNobody == Orderly /\ exit = "0" => Serving = {}

\* Nor is the audit row of an answered request lost for the pool's end alone
\* (audit_logger, Server.shutdown).  Whenever signals come, a clean exit cuts no
\* insert off in the middle, and drops one that waits for a client only after
\* more answers than the pool has clients; an orderly one finds none refused.
CleanExitKeepsAudit ==
    exit = "0" =>
        \A r \in Requests :
            /\ audit[r] # "writing"
            /\ audit[r] = "waiting" => Cardinality(Audited) > PoolSize
            /\ Orderly => audit[r] # "refused"

\* A server that has got no signal before it listens accepts requests with its
\* pool open only, however many come then, and until a second one comes it serves
\* them so too: the HTTP server closes before the pool ends (Server.shutdown).
PoolOutlivesServer ==
    /\ early = {} /\ listening => db = "open"
    /\ Orderly /\ Serving # {} => db = "open"

\* Exit code 1 is for a server that could not start: until a second signal comes
\* the shutdown of one that runs does not trip over its own steps, not even when
\* the signal came during setup (shutdown_handler's catch).
OneSignalExitsZero == OneSignal /\ exit = "1" => main # "running"

\* A signal ends the process: no shutdown waits for ever, neither for requests
\* nor for another shutdown nor for the pool.
SignalEndsProcess == \A s \in Signals : stage[s] # "idle" ~> exit # "none"

\* A graceful shutdown keeps the welcome job of every registration it answered,
\* but for those Redis refuses (WORKFLOW.md: "The API enqueues a job and responds
\* immediately").
CleanExitKeepsJobs == exit = "0" => \A r \in Requests : job[r] \in {"none", "added", "rejected"}

\* What makes them inductive (ServerLifecycleProofs).  However many signals
\* come, before the server listens nothing has been served;
NothingBeforeStart ==
    main # "running" =>
        /\ ~listening /\ ~io
        /\ main = "loading" \/ early = {} => \A s \in Signals : stage[s] = "idle"
        /\ \A r \in Requests : request[r] = "none" /\ audit[r] = "none"

\* one shutdown quits Redis and one ends the pool, which has no insert under way
\* when it has ended, and is open while a server without an early signal listens;
ClosedOnce ==
    /\ \A s \in Signals : stage[s] \in {"io_wait", "io_again", "http_wait"} => main = "running" /\ ~listening
    /\ \A s, t \in Signals : stage[s] = stage[t] /\ stage[s] \in {"quit", "db_wait"} => s = t
    /\ exit = "none" => (redis = "quitting" <=> \E s \in Signals : stage[s] = "quit")
    /\ exit # "0" =>
          /\ db = "ending" <=> \E s \in Signals : stage[s] = "db_wait"
          /\ db = "none" <=> main = "loading"
    /\ exit = "0" => \A r \in Requests : audit[r] # "writing"
    /\ early = {} /\ listening => db = "open"

\* and an insert waits behind as many others as the pool has clients.
WaitsBehindOthers ==
    /\ \A r \in Audited : request[r] = "answered"
    /\ IsFiniteSet(Audited)
    /\ Waiting # {} => Cardinality(Audited) > PoolSize

\* Until a second one comes, what a shutdown closes is closed by it alone;
ClosedByStage ==
    /\ \A s \in Signals : stage[s] \notin {"io_again", "quit_again"}
    /\ main = "running" /\ ~listening => \E s \in Signals : stage[s] \notin {"idle", "queues", "quit"}
    /\ io => listening \/ \E s \in Signals : stage[s] = "io_wait"
    /\ exit = "1" => main # "running"

\* and if it came to a server that listened, it has seen the last request out
\* before it ends the pool.
ServedBeforeEnd ==
    /\ (\E s \in Signals : stage[s] = "db_wait") \/ exit = "0" => Serving = {}
    /\ \A r \in Requests : audit[r] # "refused"

\* The inductive invariant: what always holds, what holds until a second signal
\* comes, and what holds of an orderly shutdown.
ShutdownInv ==
    /\ TypeOK /\ NothingBeforeStart /\ ClosedOnce /\ WaitsBehindOthers
    /\ OneSignal => ClosedByStage
    /\ Orderly => ServedBeforeEnd
=============================================================================
