----------------------------- MODULE Onboarding -----------------------------
(***************************************************************************)
(* A POST /auth/register from the socket to the welcome e-mail: the        *)
(* requests of Registration and the jobs of WelcomeJobs, which meet in the *)
(* API process.  AuthService.register emits auth.user.registered in the    *)
(* step in which it answers, and the listener of auth.events.ts adds the   *)
(* job.  The death of the process takes both with it: the requests in      *)
(* flight and their transactions, and the queue.add calls that Redis has   *)
(* not read.  Nothing ties the COMMIT to the job, there is no outbox.      *)
(*                                                                         *)
(* Registration is extended: its variables and actions keep their names.   *)
(* The clients of Socket.IO take no part here.                             *)
(***************************************************************************)
EXTENDS Registration

CONSTANTS
    Workers,     \* worker processes
    Attempts,    \* queues.bullmq.default_attempts
    MaxStops     \* bound: workers that are told to stop

ASSUME WorkersAssumption == Nobody \notin Workers
ASSUME AttemptsAssumption == Attempts \in Nat \ {0}
ASSUME StopsAssumption == MaxStops \in Nat

VARIABLES
    flags, api, listeners, adding, rejected, job, attempts, stalled, holder, worker, done, stops,
    deaths       \* of the API process and of workers: WelcomeJobs calls them crashes

W == INSTANCE WelcomeJobs
     WITH Users <- Requests, Sockets <- {}, connected <- {}, seen <- <<>>,
          registered <- announced, crashes <- deaths

register == <<pc, answer, owner, connected, db, bounds>>
welcome == <<flags, api, listeners, adding, rejected, job, attempts, stalled, holder, worker, done,
             stops, deaths>>
onboarding == <<vars, welcome>>

OnboardingInit == Init /\ W!Init

-----------------------------------------------------------------------------
(* The API process.                                                        *)

SetUp == W!SetUp /\ UNCHANGED register

\* The process listens after Server.setup only.
Accept(r) == api = "up" /\ Receive(r) /\ UNCHANGED welcome

\* Every step of register() up to the COMMIT, and every answer but a 201.
Serve(r) ==
    /\ \/ Lookup(r) \/ Connect(r) \/ CheckOutTimesOut(r)
       \/ Begin(r) \/ InsertUser(r) \/ InsertViolatesUnique(r) \/ InsertAudit(r)
       \/ Commit(r) \/ Rollback(r)
    /\ UNCHANGED welcome

Disturb(r) == GoesWrong(r) /\ UNCHANGED welcome

\* The mistake of a listener on another bus than AuthService's.
Answer_Unheard(r) == Created(r) /\ UNCHANGED welcome

\* transaction() has returned: the event is emitted, its listener runs up to
\* queue.add, and the caller is answered.
Answer(r) == Created(r) /\ W!Register(r)

\* Redis reads the queue.add, with the request long answered.
Add(r) == W!Add(r) /\ UNCHANGED register

\* Or it rejects, when the 201 has been sent and there is nobody left to tell.
AddRejects(r) == W!AddRejects(r) /\ UNCHANGED register

\* The process dies with everything it has in memory.
Die == Crash /\ W!CrashApi

-----------------------------------------------------------------------------
(* Worker processes.                                                       *)

RunJob(r) == W!Run(r) /\ UNCHANGED register

StartWorker(w) == W!StartWorker(w) /\ UNCHANGED register

StopWorker(w) == (W!Close(w) \/ W!CrashWorker(w)) /\ UNCHANGED register

ExitWorker(w) == W!ExitWorker(w) /\ UNCHANGED register

-----------------------------------------------------------------------------
AtRest == (\A r \in Requests : pc[r] = "done") /\ adding = {} /\ UNCHANGED onboarding

OnboardingNext ==
    \/ SetUp \/ Die \/ AtRest
    \/ \E r \in Requests :
          Accept(r) \/ Serve(r) \/ Disturb(r) \/ Answer(r)
          \/ Add(r) \/ AddRejects(r) \/ RunJob(r)
    \/ \E w \in Workers : StartWorker(w) \/ StopWorker(w) \/ ExitWorker(w)

OnboardingSpec == OnboardingInit /\ [][OnboardingNext]_onboarding

\* The fairness of the two parts.
FairOnboarding ==
    /\ OnboardingSpec
    /\ \A r \in Requests :
          /\ WF_onboarding(Serve(r) \/ Answer(r))
          /\ WF_onboarding(Add(r) \/ AddRejects(r))
          /\ WF_onboarding(RunJob(r))
    /\ \A w \in Workers : WF_onboarding(StartWorker(w)) /\ WF_onboarding(ExitWorker(w))

-----------------------------------------------------------------------------
(* Properties.  OnlyFailuresLeak is that of Registration.                  *)

QueueOn == flags.bullmq /\ flags.notification_jobs

\* The types of both parts.
OnboardingTypeOK == TypeOK /\ W!TypeOK

\* Nobody is welcomed who has no account: a job, or one being added, is for a
\* request that was answered 201 and whose users and audit_logs rows are
\* committed (register() emits after transaction() has returned).
JobsAreOfAccounts ==
    \A r \in Requests : r \in adding \cup done \/ job[r] # "none" =>
        r \in users \cap auditLog /\ answer[r] = "201"

\* An account whose request is over is welcomed, or about to be: its job is being
\* added or is in the queue.  Otherwise something has failed.  There is no job: its
\* queue.add was rejected, which the listener only logs, the API process died
\* between COMMIT and queue.add, or the reply to the COMMIT was lost; or the job
\* has used up its attempts or lost its worker twice (auth.service.ts,
\* auth.events.ts, BullMqQueueProvider, workers/index.ts).
OnlyFailuresForget ==
    \A r \in users : QueueOn /\ pc[r] = "done" /\ r \notin adding \cup done =>
        \/ job[r] \in {"waiting", "active", "delayed"}
        \/ job[r] = "none" /\ (r \in rejected \/ crashes > 0 \/ faults > 0)
        \/ job[r] = "failed" /\ (attempts[r] = Attempts \/ deaths >= 2)

\* Every request that has come is answered, and if the answer is 201 its
\* account is welcomed in the end or its job has used up its attempts, unless its
\* queue.add is rejected or the API process dies (WORKFLOW.md, the registration flow from the
\* controller to the worker).
RegisteredIsWelcomed ==
    \A r \in Requests :
        pc[r] # "idle" /\ QueueOn /\ flags.process ~>
            \/ pc[r] = "done" /\ (answer[r] = "201" => job[r] \in {"completed", "failed"})
            \/ r \in rejected
            \/ crashes > 0

\* What makes the invariants inductive: jobs are of announced accounts, a
\* process that listens has its listener, and an account that is not
\* announced, or whose add is gone without a job, has met a failure.
JobsAnnounced ==
    /\ \A r \in Requests : r \in adding \cup done \/ job[r] # "none" => r \in announced
    /\ \A r \in adding : job[r] = "none"
    /\ rejected \subseteq announced

Listens == api = "up" /\ flags.bullmq => "welcome" \in listeners.shared

ForgottenMeetsFailure ==
    /\ \A r \in users : pc[r] = "rollback" => faults > 0
    /\ \A r \in users : pc[r] = "done" /\ r \notin announced => crashes > 0 \/ faults > 0
    /\ \A r \in announced : QueueOn /\ r \notin adding /\ job[r] = "none" =>
          r \in rejected \/ crashes > 0

TriesLeft == \A r \in Requests : job[r] # "failed" => attempts[r] < Attempts

OnboardingInv == Inv /\ W!TypeOK /\ TriesLeft /\ JobsAnnounced /\ Listens /\ ForgottenMeetsFailure
=============================================================================
