----------------------------- MODULE WelcomeJobs -----------------------------
(***************************************************************************)
(* What follows a registration: AuthService emits auth.user.registered on  *)
(* the event bus of shared/events, the listener of auth.events.ts adds a   *)
(* BullMQ job, Socket.IO (shared/realtime) broadcasts, and worker          *)
(* processes (workers/index.ts) run the job until it completes or has      *)
(* failed for good.                                                        *)
(*                                                                         *)
(* Server.setup gives its own bus to Socket.IO; AuthService and its        *)
(* listener use the singleton of the events module.  Redis survives every  *)
(* crash; what the API process has not added yet does not.                 *)
(***************************************************************************)
EXTENDS Naturals

CONSTANTS
    Users,       \* accounts that get registered
    Sockets,     \* Socket.IO clients
    Workers,     \* worker processes
    Nobody,      \* holder of a job that no worker runs
    Attempts,    \* queues.bullmq.default_attempts
    MaxStops,    \* bound: workers that are told to stop
    MaxCrashes   \* bound: processes that die

ASSUME NobodyAssumption == Nobody \notin Workers
ASSUME AttemptsAssumption == Attempts \in Nat \ {0}
ASSUME BoundsAssumption == MaxStops \in Nat /\ MaxCrashes \in Nat

VARIABLES
    flags,       \* config.yaml
    api,         \* the API process: is it up?
    listeners,   \* what listens on each event bus
    connected,   \* connected Socket.IO clients
    seen,        \* what each client was told
    registered,  \* accounts whose event has been emitted
    adding,      \* queue.add calls under way
    rejected,    \* accounts whose add was refused (history, read by no guard)
    job,         \* the job of each account, in Redis
    attempts,    \* failed attempts of each job
    stalled,     \* jobs that were found stalled once
    holder,      \* the worker that runs a job
    worker,      \* each worker process
    done,        \* jobs whose processor has completed
    stops,       \* workers told to stop so far
    crashes      \* processes that died so far

events == <<api, listeners, connected, seen, registered, adding, rejected>>
queue == <<job, attempts, stalled, holder, done>>
vars == <<flags, events, queue, worker, stops, crashes>>

Flags == [bullmq : BOOLEAN, notification_jobs : BOOLEAN, process : BOOLEAN, socketio : BOOLEAN]

Nothing == [server |-> {}, shared |-> {}]

Init ==
    /\ flags \in Flags
    /\ api = "down"
    /\ listeners = Nothing
    /\ connected = {}
    /\ seen = [c \in Sockets |-> {}]
    /\ registered = {}
    /\ adding = {}
    /\ rejected = {}
    /\ job = [u \in Users |-> "none"]
    /\ attempts = [u \in Users |-> 0]
    /\ stalled = {}
    /\ holder = [u \in Users |-> Nobody]
    /\ worker = [w \in Workers |-> "down"]
    /\ done = {}
    /\ stops = 0
    /\ crashes = 0

-----------------------------------------------------------------------------
(* The API process.                                                        *)

\* Server.setup: Socket.IO listens on the Server's bus, the queue listener on
\* the shared one.
SetUp ==
    /\ api = "down"
    /\ api' = "up"
    /\ listeners' = [server |-> IF flags.socketio THEN {"broadcast"} ELSE {},
                     shared |-> IF flags.bullmq THEN {"welcome"} ELSE {}]
    /\ UNCHANGED <<flags, connected, seen, registered, adding, rejected, queue, worker, stops, crashes>>

Connect(c) ==
    /\ api = "up" /\ flags.socketio
    /\ c \notin connected
    /\ connected' = connected \cup {c}
    /\ UNCHANGED <<flags, api, listeners, seen, registered, adding, rejected, queue, worker, stops,
                   crashes>>

\* What emit on the shared bus makes Socket.IO tell its clients.
Broadcast(event, u) ==
    IF "broadcast" \in listeners.shared
    THEN [c \in Sockets |-> IF c \in connected THEN seen[c] \cup {<<event, u>>} ELSE seen[c]]
    ELSE seen

\* The mistake of a listener that does not look at notification_jobs.
Register_Always(u) ==
    /\ api = "up"
    /\ u \notin registered
    /\ registered' = registered \cup {u}
    /\ adding' = IF "welcome" \in listeners.shared THEN adding \cup {u} ELSE adding
    /\ UNCHANGED <<flags, api, listeners, connected, seen, rejected, queue, worker, stops, crashes>>

\* emit calls every listener of the bus up to its first await.
Register(u) ==
    /\ api = "up"
    /\ u \notin registered
    /\ registered' = registered \cup {u}
    /\ seen' = Broadcast("auth:user-registered", u)
    /\ adding' = IF "welcome" \in listeners.shared /\ flags.notification_jobs
                 THEN adding \cup {u} ELSE adding
    /\ UNCHANGED <<flags, api, listeners, connected, rejected, queue, worker, stops, crashes>>

\* Redis reads queue.add, which has the account in the job id, and the listener
\* goes on to emit queue.job.enqueued.
Add(u) ==
    /\ u \in adding
    /\ adding' = adding \ {u}
    /\ job' = [job EXCEPT ![u] = "waiting"]
    /\ seen' = Broadcast("queue:job-enqueued", u)
    /\ UNCHANGED <<flags, api, listeners, connected, registered, rejected, attempts, stalled, holder,
                   done, worker, stops, crashes>>

\* Or queue.add rejects: Redis refuses the write, BullMQ the job's options.  The
\* listener logs it, and nobody adds the job again.
AddRejects(u) ==
    /\ u \in adding
    /\ adding' = adding \ {u}
    /\ rejected' = rejected \cup {u}
    /\ UNCHANGED <<flags, api, listeners, connected, seen, registered, queue, worker, stops, crashes>>

\* Adds that Redis has not read are lost.
CrashApi ==
    /\ api = "up" /\ crashes < MaxCrashes
    /\ crashes' = crashes + 1
    /\ api' = "down"
    /\ listeners' = Nothing
    /\ connected' = {}
    /\ adding' = {}
    /\ UNCHANGED <<flags, seen, registered, rejected, queue, worker, stops>>

-----------------------------------------------------------------------------
(* Worker processes.                                                       *)

\* The entry point exits when one of its flags is off.
StartWorker(w) ==
    /\ worker[w] = "down"
    /\ flags.process /\ flags.bullmq /\ flags.notification_jobs
    /\ worker' = [worker EXCEPT ![w] = "consuming"]
    /\ UNCHANGED <<flags, events, queue, stops, crashes>>

Take(w, u) ==
    /\ worker[w] = "consuming"
    /\ job[u] = "waiting"
    /\ job' = [job EXCEPT ![u] = "active"]
    /\ holder' = [holder EXCEPT ![u] = w]
    /\ UNCHANGED <<flags, events, attempts, stalled, done, worker, stops, crashes>>

ProcessorReturns(u) ==
    /\ job[u] = "active" /\ holder[u] # Nobody
    /\ job' = [job EXCEPT ![u] = "returned"]
    /\ done' = done \cup {u}
    /\ UNCHANGED <<flags, events, attempts, stalled, holder, worker, stops, crashes>>

MoveToCompleted(u) ==
    /\ job[u] = "returned" /\ holder[u] # Nobody
    /\ job' = [job EXCEPT ![u] = "completed"]
    /\ holder' = [holder EXCEPT ![u] = Nobody]
    /\ UNCHANGED <<flags, events, attempts, stalled, done, worker, stops, crashes>>

\* The mistake of a retry for every failure.
ProcessorFails_Forever(u) ==
    /\ job[u] = "active" /\ holder[u] # Nobody
    /\ job' = [job EXCEPT ![u] = "delayed"]
    /\ holder' = [holder EXCEPT ![u] = Nobody]
    /\ UNCHANGED <<flags, events, attempts, stalled, done, worker, stops, crashes>>

\* The mistake of enqueuing without the attempts of config.yaml: BullMQ's
\* default is a single one.
ProcessorFails_Once(u) ==
    /\ job[u] = "active" /\ holder[u] # Nobody
    /\ attempts' = [attempts EXCEPT ![u] = @ + 1]
    /\ job' = [job EXCEPT ![u] = "failed"]
    /\ holder' = [holder EXCEPT ![u] = Nobody]
    /\ UNCHANGED <<flags, events, stalled, done, worker, stops, crashes>>

\* The mistake of a processor that catches its own error.
ProcessorFails_Swallowed(u) ==
    /\ job[u] = "active" /\ holder[u] # Nobody
    /\ job' = [job EXCEPT ![u] = "completed"]
    /\ holder' = [holder EXCEPT ![u] = Nobody]
    /\ UNCHANGED <<flags, events, attempts, stalled, done, worker, stops, crashes>>

ProcessorFails(u) ==
    /\ job[u] = "active" /\ holder[u] # Nobody
    /\ attempts' = [attempts EXCEPT ![u] = @ + 1]
    /\ job' = [job EXCEPT ![u] = IF attempts[u] + 1 < Attempts THEN "delayed" ELSE "failed"]
    /\ holder' = [holder EXCEPT ![u] = Nobody]
    /\ UNCHANGED <<flags, events, stalled, done, worker, stops, crashes>>

\* The backoff is over.
Promote(u) ==
    /\ job[u] = "delayed"
    /\ job' = [job EXCEPT ![u] = "waiting"]
    /\ UNCHANGED <<flags, events, attempts, stalled, holder, done, worker, stops, crashes>>

\* The lock of a worker that died has expired, and another worker's check
\* finds the job: it is run again once.
Recover(u) ==
    /\ job[u] \in {"active", "returned"} /\ holder[u] = Nobody
    /\ \E w \in Workers : worker[w] # "down"
    /\ stalled' = stalled \cup {u}
    /\ job' = [job EXCEPT ![u] = IF u \in stalled THEN "failed" ELSE "waiting"]
    /\ UNCHANGED <<flags, events, attempts, holder, done, worker, stops, crashes>>

\* A signal: worker.close() takes no further job ...
Close(w) ==
    /\ worker[w] = "consuming" /\ stops < MaxStops
    /\ stops' = stops + 1
    /\ worker' = [worker EXCEPT ![w] = "closing"]
    /\ UNCHANGED <<flags, events, queue, crashes>>

\* The mistake of worker.close(true): exit without the jobs under way.
ExitWorker_Forced(w) ==
    /\ worker[w] = "closing"
    /\ worker' = [worker EXCEPT ![w] = "down"]
    /\ holder' = [u \in Users |-> IF holder[u] = w THEN Nobody ELSE holder[u]]
    /\ UNCHANGED <<flags, events, job, attempts, stalled, done, stops, crashes>>

\* ... and resolves when those it runs are over; then the process exits.
ExitWorker(w) ==
    /\ worker[w] = "closing"
    /\ \A u \in Users : holder[u] # w
    /\ worker' = [worker EXCEPT ![w] = "down"]
    /\ UNCHANGED <<flags, events, queue, stops, crashes>>

CrashWorker(w) ==
    /\ worker[w] # "down" /\ crashes < MaxCrashes
    /\ crashes' = crashes + 1
    /\ worker' = [worker EXCEPT ![w] = "down"]
    /\ holder' = [u \in Users |-> IF holder[u] = w THEN Nobody ELSE holder[u]]
    /\ UNCHANGED <<flags, events, job, attempts, stalled, done, stops>>

-----------------------------------------------------------------------------
(* The whole.                                                              *)

Run(u) ==
    \/ ProcessorReturns(u) \/ MoveToCompleted(u) \/ ProcessorFails(u) \/ Promote(u) \/ Recover(u)
    \/ \E w \in Workers : Take(w, u)

\* Every account is registered and nothing is on its way.
AtRest == registered = Users /\ adding = {} /\ UNCHANGED vars

Next ==
    \/ SetUp \/ CrashApi \/ AtRest
    \/ \E c \in Sockets : Connect(c)
    \/ \E u \in Users : Register(u) \/ Add(u) \/ AddRejects(u) \/ Run(u)
    \/ \E w \in Workers : StartWorker(w) \/ Close(w) \/ ExitWorker(w) \/ CrashWorker(w)

Spec == Init /\ [][Next]_vars

\* Processes are started again (ecosystem.config.json: autorestart), queue.add
\* settles one way or the other, processors return or fail, and backoffs end.
FairSpec ==
    /\ Spec
    /\ \A u \in Users : WF_vars(Add(u) \/ AddRejects(u)) /\ WF_vars(Run(u))
    /\ \A w \in Workers : WF_vars(StartWorker(w)) /\ WF_vars(ExitWorker(w))

-----------------------------------------------------------------------------
(* Properties.                                                             *)

\* The type of every variable.
TypeOK ==
    /\ flags \in Flags
    /\ api \in {"down", "up"}
    /\ listeners \in [server : SUBSET {"broadcast"}, shared : SUBSET {"welcome"}]
    /\ connected \subseteq Sockets
    /\ seen \in [Sockets -> SUBSET ({"auth:user-registered", "queue:job-enqueued"} \X Users)]
    /\ registered \subseteq Users
    /\ adding \subseteq Users
    /\ rejected \subseteq Users
    /\ job \in [Users -> {"none", "waiting", "active", "returned", "delayed", "completed", "failed"}]
    /\ attempts \in [Users -> 0..Attempts]
    /\ stalled \subseteq Users
    /\ holder \in [Users -> Workers \cup {Nobody}]
    /\ worker \in [Workers -> {"down", "consuming", "closing"}]
    /\ done \subseteq Users
    /\ stops \in 0..MaxStops
    /\ crashes \in 0..MaxCrashes

\* With a flag off there is no job and no worker, whenever the processes were
\* started (WORKFLOW.md, the table of feature flags).
FlagsRespected ==
    /\ adding # {} \/ (\E u \in Users : job[u] # "none") => flags.bullmq /\ flags.notification_jobs
    /\ (\E w \in Workers : worker[w] # "down") =>
          flags.process /\ flags.bullmq /\ flags.notification_jobs

\* A job is given up only after all its attempts, or when its workers have
\* died twice (enqueueWelcomeEmailJob passes default_attempts).
GivenUpIsExhausted ==
    \A u \in Users : job[u] = "failed" =>
        attempts[u] = Attempts \/ (u \in stalled /\ crashes >= 2)

\* A worker told to stop leaves no job half run: only a crash strands one
\* (WORKFLOW.md: "closeQueueResources() which drains the worker").
OnlyCrashesStrand ==
    \A u \in Users : job[u] \in {"active", "returned"} /\ holder[u] = Nobody => crashes > 0

\* What makes them inductive.  A job that runs is run by a live worker;
HolderRuns ==
    \A u \in Users : holder[u] # Nobody =>
        job[u] \in {"active", "returned"} /\ worker[holder[u]] # "down"

\* only a processor that has completed completes a job, and jobs follow events;
JobsFollowEvents ==
    /\ "welcome" \in listeners.shared => flags.bullmq
    /\ adding \subseteq registered /\ rejected \subseteq registered \ adding
    /\ \A u \in Users :
          /\ u \in adding \cup rejected \/ u \notin registered => job[u] = "none"
          /\ u \in done => job[u] # "none"
          /\ job[u] \in {"returned", "completed"} => u \in done

\* and attempts and stalls are counted while they are left.
AttemptsLeft ==
    \A u \in Users :
        /\ job[u] # "failed" => attempts[u] < Attempts
        /\ u \in stalled => crashes >= 1
        /\ u \in stalled /\ job[u] \in {"active", "returned"} /\ holder[u] = Nobody => crashes >= 2

\* The inductive invariant of WelcomeJobsProofs.
WelcomeInv ==
    /\ TypeOK
    /\ FlagsRespected
    /\ GivenUpIsExhausted
    /\ OnlyCrashesStrand
    /\ HolderRuns
    /\ JobsFollowEvents
    /\ AttemptsLeft

Kept == {u \in Users : job[u] \notin {"none", "completed"}}

Queue == INSTANCE JobQueue WITH Jobs <- Users, kept <- Kept

\* The BullMQ worker, with retries, crashes and shutdowns, implements the
\* queue: a job leaves it only after its processor has completed.
ImplementsJobQueue == Queue!Spec

\* With the flags on, a job that is in the queue completes or is given up.
JobSettles ==
    \A u \in Users : flags.process /\ job[u] # "none" ~> job[u] \in {"completed", "failed"}

\* Socket.IO tells every connected client of a registration (WORKFLOW.md:
\* "eventBus.on("auth.user.registered") ... broadcast to ALL clients").
RegistrationIsBroadcast ==
    [][\A u \in registered' \ registered, c \in connected :
            <<"auth:user-registered", u>> \in seen'[c]]_vars
=============================================================================
