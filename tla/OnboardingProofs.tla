-------------------------- MODULE OnboardingProofs --------------------------
(***************************************************************************)
(* The composition of register() and the welcome jobs, for any requests,   *)
(* addresses, pool, workers and bounds: it does to each part only what the *)
(* part does by itself, so that the theorems of RegistrationProofs hold of *)
(* it, and no account is welcomed too early or forgotten without cause.    *)
(***************************************************************************)
EXTENDS Onboarding, RegistrationProofs

\* A step of the composition is, for register(), one of its own or a stutter.
LEMMA RegisterStep == [OnboardingNext]_onboarding => [Next]_vars
BY DEF OnboardingNext, onboarding, register, SetUp, Die, AtRest, Accept, Serve, Disturb, Answer,
       Add, AddRejects, RunJob, StartWorker, StopWorker, ExitWorker, vars, Next, Proceed, Transaction,
       W!SetUp, W!Add, W!AddRejects, W!Run, W!ProcessorReturns, W!MoveToCompleted, W!ProcessorFails,
       W!Promote, W!Recover, W!Take, W!StartWorker, W!Close, W!CrashWorker, W!ExitWorker, W!events

\* The composition keeps every promise of register() alone ...
THEOREM Composes == OnboardingSpec => Spec
<1>1. OnboardingInit => Init
    BY DEF OnboardingInit
<1> QED
    BY <1>1, RegisterStep, PTL DEF OnboardingSpec, Spec

\* ... among them the one of the account registry.
THEOREM ComposedRefinement == OnboardingSpec => ImplementsRegistry
BY Composes, Refinement, PTL

\* For the welcome jobs too a step is one of their own or a stutter.
LEMMA WelcomeStep == [OnboardingNext]_onboarding => [W!Next]_(W!vars)
<1> SUFFICES ASSUME [OnboardingNext]_onboarding PROVE [W!Next]_(W!vars)
    OBVIOUS
<1> USE DEF W!vars, W!events, W!queue, W!Next, welcome
<1>1. ASSUME NEW r \in Requests, Accept(r) \/ Serve(r) \/ Disturb(r) PROVE UNCHANGED W!vars
    BY <1>1 DEF Accept, Serve, Disturb, Receive, Lookup, FindCheckOut, FindMatches, FindNothing,
                Connect, ConnectCheckOut, ProbeCheckOut, ProbeReturns, CheckOutTimesOut, Begin,
                InsertUser, InsertViolatesUnique, InsertAudit, Commit, Rollback, GoesWrong,
                FindFails, ProbeFails, CheckOutFails, StatementFails
<1>2. ASSUME NEW r \in Requests, Answer(r) \/ Add(r) \/ AddRejects(r) \/ RunJob(r) PROVE W!Next
    BY <1>2 DEF Answer, Add, AddRejects, RunJob
<1>3. ASSUME NEW w \in Workers, StartWorker(w) \/ StopWorker(w) \/ ExitWorker(w) PROVE W!Next
    BY <1>3 DEF StartWorker, StopWorker, ExitWorker
<1>4. CASE SetUp \/ Die
    BY <1>4 DEF SetUp, Die
<1>5. CASE AtRest \/ UNCHANGED onboarding
    BY <1>5 DEF AtRest, onboarding, vars
<1> QED
    BY <1>1, <1>2, <1>3, <1>4, <1>5 DEF OnboardingNext

\* The theorems about the welcome jobs, read with the accounts of requests.
Jobs == INSTANCE WelcomeJobsProofs
        WITH Users <- Requests, Sockets <- {}, connected <- {}, seen <- <<>>,
             registered <- announced, crashes <- deaths

LEMMA SameJobs == W!Spec => Jobs!Spec
<1>1. W!Init => Jobs!Init
    BY DEF W!Init, Jobs!Init, W!Flags, Jobs!Flags, W!Nothing, Jobs!Nothing
<1>2. [W!Next]_(W!vars) => [Jobs!Next]_(Jobs!vars)
    <2> SUFFICES ASSUME [W!Next]_(W!vars) PROVE [Jobs!Next]_(Jobs!vars)
        OBVIOUS
    <2> USE DEF W!vars, W!events, W!queue, Jobs!vars, Jobs!events, Jobs!queue
    <2>1. ASSUME W!SetUp \/ W!CrashApi PROVE Jobs!SetUp \/ Jobs!CrashApi
        BY <2>1 DEF W!SetUp, Jobs!SetUp, W!CrashApi, Jobs!CrashApi, W!Nothing, Jobs!Nothing
    <2>2. ASSUME NEW r \in Requests, W!Register(r) PROVE Jobs!Register(r)
        BY <2>2 DEF W!Register, Jobs!Register, W!Broadcast, Jobs!Broadcast
    <2>3. ASSUME NEW r \in Requests, W!Add(r) \/ W!AddRejects(r) PROVE Jobs!Add(r) \/ Jobs!AddRejects(r)
        BY <2>3 DEF W!Add, Jobs!Add, W!AddRejects, Jobs!AddRejects, W!Broadcast, Jobs!Broadcast
    <2>4. ASSUME NEW r \in Requests, W!Run(r) PROVE Jobs!Run(r)
        BY <2>4 DEF W!Run, Jobs!Run, W!ProcessorReturns, Jobs!ProcessorReturns,
                    W!MoveToCompleted, Jobs!MoveToCompleted, W!ProcessorFails, Jobs!ProcessorFails,
                    W!Promote, Jobs!Promote, W!Recover, Jobs!Recover, W!Take, Jobs!Take
    <2>5. ASSUME NEW w \in Workers, W!StartWorker(w) \/ W!Close(w) \/ W!ExitWorker(w) \/ W!CrashWorker(w)
          PROVE Jobs!StartWorker(w) \/ Jobs!Close(w) \/ Jobs!ExitWorker(w) \/ Jobs!CrashWorker(w)
        BY <2>5 DEF W!StartWorker, Jobs!StartWorker, W!Close, Jobs!Close, W!ExitWorker,
                    Jobs!ExitWorker, W!CrashWorker, Jobs!CrashWorker
    <2>6. CASE W!AtRest \/ UNCHANGED W!vars
        BY <2>6 DEF W!AtRest
    <2> QED
        BY <2>1, <2>2, <2>3, <2>4, <2>5, <2>6 DEF W!Next, Jobs!Next
<1> QED
    BY <1>1, <1>2, PTL DEF W!Spec, Jobs!Spec

\* The composition is a behaviour of the welcome jobs, too, whose accounts are
\* those of requests that were answered 201: it keeps every promise of theirs.
THEOREM ComposesJobs == OnboardingSpec => W!Spec /\ Jobs!Spec
<1>1. OnboardingInit => W!Init
    BY DEF OnboardingInit
<1> QED
    BY <1>1, WelcomeStep, SameJobs, PTL DEF OnboardingSpec, W!Spec

\* A welcome job leaves the queue only after its processor has completed,
\* whatever befalls the registrations it comes from.
THEOREM ComposedQueue == OnboardingSpec => Jobs!ImplementsJobQueue
<1>1. Jobs!Spec => Jobs!ImplementsJobQueue
    BY Jobs!Refinement, NobodyAssumption, WorkersAssumption, AttemptsAssumption, StopsAssumption,
       BoundsAssumption
<1> QED
    BY <1>1, ComposesJobs, PTL

\* Through a whole onboarding flags are respected, jobs are given up only when
\* their attempts are used up or their workers have died, and only crashes
\* strand them.
THEOREM ComposedWelcomes == OnboardingSpec => []Jobs!WelcomeInv
<1>1. Jobs!Spec => []Jobs!WelcomeInv
    BY Jobs!WelcomeInvariance, NobodyAssumption, WorkersAssumption, AttemptsAssumption,
       StopsAssumption, BoundsAssumption
<1> QED
    BY <1>1, ComposesJobs, PTL

LEMMA OnboardingInitInv == OnboardingInit => OnboardingInv
<1> SUFFICES ASSUME OnboardingInit PROVE OnboardingInv
    OBVIOUS
<1>1. Inv
    BY InitInv DEF OnboardingInit
<1>2. W!TypeOK
    BY AttemptsAssumption, StopsAssumption, BoundsAssumption
    DEF OnboardingInit, W!Init, W!TypeOK, W!Nothing
<1>3. TriesLeft
    <2>1. 0 < Attempts
        BY AttemptsAssumption
    <2> QED
        BY <2>1 DEF OnboardingInit, W!Init, TriesLeft
<1>4. JobsAnnounced /\ Listens /\ ForgottenMeetsFailure
    BY DEF OnboardingInit, Init, W!Init, JobsAnnounced, Listens, ForgottenMeetsFailure
<1> QED
    BY <1>1, <1>2, <1>3, <1>4 DEF OnboardingInv

\* The types of the welcome jobs, and the attempts they count.
LEMMA WelcomeTypeStep ==
    OnboardingInv /\ [OnboardingNext]_onboarding => W!TypeOK' /\ TriesLeft'
<1> SUFFICES ASSUME W!TypeOK, TriesLeft, JobsAnnounced, [OnboardingNext]_onboarding,
                    announced' \subseteq Requests
             PROVE W!TypeOK' /\ TriesLeft'
    BY RegisterStep, TypeStep DEF OnboardingInv, Inv, TypeOK
<1> USE AttemptsAssumption, StopsAssumption, BoundsAssumption
    DEF TriesLeft, W!TypeOK, W!Flags, W!Nothing, W!events, W!queue, welcome
<1>1. CASE SetUp
    BY <1>1 DEF SetUp, W!SetUp
<1>2. CASE Die
    BY <1>2 DEF Die, W!CrashApi
<1>3. ASSUME NEW r \in Requests, Accept(r) \/ Serve(r) \/ Disturb(r) PROVE W!TypeOK' /\ TriesLeft'
    BY <1>3 DEF Accept, Serve, Disturb
<1>4. ASSUME NEW r \in Requests, Answer(r) PROVE W!TypeOK' /\ TriesLeft'
    BY <1>4 DEF Answer, W!Register, W!Broadcast
<1>5. ASSUME NEW r \in Requests, Add(r) \/ AddRejects(r) PROVE W!TypeOK' /\ TriesLeft'
    BY <1>5 DEF Add, AddRejects, W!Add, W!AddRejects, W!Broadcast, JobsAnnounced
<1>6. ASSUME NEW r \in Requests, RunJob(r) PROVE W!TypeOK' /\ TriesLeft'
    <2> USE DEF RunJob, W!Run
    <2>1. CASE W!ProcessorReturns(r) \/ W!MoveToCompleted(r) \/ W!Promote(r) \/ W!Recover(r)
        BY <2>1 DEF W!ProcessorReturns, W!MoveToCompleted, W!Promote, W!Recover
    <2>2. CASE W!ProcessorFails(r)
        BY <2>2 DEF W!ProcessorFails
    <2>3. CASE \E w \in Workers : W!Take(w, r)
        BY <2>3 DEF W!Take
    <2> QED
        BY <1>6, <2>1, <2>2, <2>3
<1>7. ASSUME NEW w \in Workers, StartWorker(w) \/ StopWorker(w) \/ ExitWorker(w) PROVE W!TypeOK' /\ TriesLeft'
    BY <1>7 DEF StartWorker, StopWorker, ExitWorker, W!StartWorker, W!Close, W!CrashWorker,
                W!ExitWorker
<1>8. CASE AtRest \/ UNCHANGED onboarding
    BY <1>8 DEF AtRest, onboarding, vars
<1> QED
    BY <1>1, <1>2, <1>3, <1>4, <1>5, <1>6, <1>7, <1>8 DEF OnboardingNext

\* Where jobs come from, and what an account without one has met.
LEMMA ForgottenStep ==
    OnboardingInv /\ [OnboardingNext]_onboarding
        => JobsAnnounced' /\ Listens' /\ ForgottenMeetsFailure'
<1> SUFFICES ASSUME OnboardingInv, [OnboardingNext]_onboarding
             PROVE JobsAnnounced' /\ Listens' /\ ForgottenMeetsFailure'
    OBVIOUS
<1>0. TypeOK /\ RowsByStage /\ W!TypeOK
    BY DEF OnboardingInv, Inv
<1> DEFINE Goal == JobsAnnounced' /\ Listens' /\ ForgottenMeetsFailure'
<1> USE BoundsAssumption
    DEF OnboardingInv, JobsAnnounced, Listens, ForgottenMeetsFailure, QueueOn, TypeOK, W!TypeOK,
        W!events, W!queue, welcome, register, db, bounds
<1>1. CASE SetUp
    BY <1>0, <1>1 DEF SetUp, W!SetUp
<1>2. CASE Die
    BY <1>0, <1>2 DEF Die, W!CrashApi, Crash, RowsByStage
<1>3. ASSUME NEW r \in Requests, Accept(r) PROVE Goal
    BY <1>0, <1>3 DEF Accept, Receive, Goto
<1>4. ASSUME NEW r \in Requests, Serve(r) PROVE Goal
    <2>1. CASE Lookup(r)
        BY <1>0, <1>4, <2>1 DEF Serve, Lookup, FindCheckOut, FindMatches, FindNothing, Reply, Goto,
                                RowsByStage
    <2>2. CASE Connect(r)
        <3>1. /\ pc' = [pc EXCEPT ![r] = pc'[r]] /\ pc'[r] \in {"begin", "probe_wait", "probe"}
              /\ UNCHANGED <<answer, db, announced, bounds, welcome>>
            BY <1>0, <1>4, <2>2 DEF Serve, Connect, ConnectCheckOut, ProbeCheckOut, ProbeReturns, Goto
        <3> QED
            BY <1>0, <3>1
    <2>3. CASE CheckOutTimesOut(r)
        BY <1>0, <1>4, <2>3 DEF Serve, CheckOutTimesOut, WaitsForClient, Reply, Goto, RowsByStage
    <2>4. CASE Begin(r) \/ InsertUser(r) \/ InsertViolatesUnique(r) \/ InsertAudit(r)
        BY <1>0, <1>4, <2>4 DEF Serve, Begin, InsertUser, InsertViolatesUnique, InsertAudit, Goto,
                                RowsByStage
    <2>5. CASE Commit(r)
        BY <1>0, <1>4, <2>5 DEF Serve, Commit, Goto, RowsByStage
    <2>6. CASE Rollback(r)
        BY <1>0, <1>4, <2>6 DEF Serve, Rollback, Reply, Goto, RowsByStage
    <2> QED
        BY <1>4, <2>1, <2>2, <2>3, <2>4, <2>5, <2>6 DEF Serve
<1>5. ASSUME NEW r \in Requests, Disturb(r) PROVE Goal
    BY <1>0, <1>5 DEF Disturb, GoesWrong, FindFails, ProbeFails, CheckOutFails, StatementFails,
                      Fault, Reply, Goto, RowsByStage
<1>6. ASSUME NEW r \in Requests, Answer(r) PROVE Goal
    BY <1>0, <1>6 DEF Answer, Created, Reply, Goto, W!Register, RowsByStage
<1>7. ASSUME NEW r \in Requests, Add(r) \/ AddRejects(r) PROVE Goal
    BY <1>0, <1>7 DEF Add, AddRejects, W!Add, W!AddRejects
<1>8. ASSUME NEW r \in Requests, RunJob(r) PROVE Goal
    BY <1>0, <1>8 DEF RunJob, W!Run, W!ProcessorReturns, W!MoveToCompleted, W!ProcessorFails,
                      W!Promote, W!Recover, W!Take
<1>9. ASSUME NEW w \in Workers, StartWorker(w) \/ StopWorker(w) \/ ExitWorker(w) PROVE Goal
    BY <1>9 DEF StartWorker, StopWorker, ExitWorker, W!StartWorker, W!Close, W!CrashWorker,
                W!ExitWorker
<1>10. CASE AtRest \/ UNCHANGED onboarding
    BY <1>10 DEF AtRest, onboarding, vars
<1> QED
    BY <1>1, <1>2, <1>3, <1>4, <1>5, <1>6, <1>7, <1>8, <1>9, <1>10 DEF OnboardingNext

-----------------------------------------------------------------------------
(* Theorems.                                                               *)

\* The inductive invariant of the composition.
THEOREM OnboardingInvariance == OnboardingSpec => []OnboardingInv
<1>1. OnboardingInv /\ [OnboardingNext]_onboarding => OnboardingInv'
    <2>1. Inv /\ [Next]_vars => Inv'
        BY TypeStep, RowsStep, UniqueStep, ErrorsStep, ClientsStep DEF Inv
    <2> QED
        BY <2>1, RegisterStep, WelcomeTypeStep, ForgottenStep DEF OnboardingInv
<1> QED
    BY OnboardingInitInv, <1>1, PTL DEF OnboardingSpec

\* Every variable of the composition keeps its type.
THEOREM OnboardingTypeCorrect == OnboardingSpec => []OnboardingTypeOK
<1>1. OnboardingInv => OnboardingTypeOK
    BY DEF OnboardingInv, OnboardingTypeOK, Inv
<1> QED
    BY OnboardingInvariance, <1>1, PTL

\* Nobody is welcomed who has no account: jobs follow the COMMIT.
THEOREM WelcomesAreOfAccounts == OnboardingSpec => []JobsAreOfAccounts
<1>1. OnboardingInv => JobsAreOfAccounts
    BY DEF OnboardingInv, Inv, JobsAnnounced, JobsAreOfAccounts, RowsByStage, AuditMatchesUsers
<1> QED
    BY OnboardingInvariance, <1>1, PTL

\* An account that is neither welcomed nor about to be has met a failure, a
\* rejected queue.add included, and which one the queue tells.
THEOREM AccountsAreNotForgotten == OnboardingSpec => []OnlyFailuresForget
<1>1. OnboardingInv /\ Jobs!WelcomeInv => OnlyFailuresForget
    BY DEF OnboardingInv, ForgottenMeetsFailure, OnlyFailuresForget, W!TypeOK, Inv, TypeOK,
           Jobs!WelcomeInv, Jobs!GivenUpIsExhausted, Jobs!JobsFollowEvents
<1> QED
    BY OnboardingInvariance, ComposedWelcomes, <1>1, PTL

\* The pool keeps its clients through a whole onboarding, until something fails,
THEOREM ComposedPoolLosesNothing == OnboardingSpec => []OnlyFailuresLeak
BY Composes, NothingFailsNothingLeaks, PTL

\* and with more clients than requests no onboarding ever waits in a circle.
THEOREM ComposedPoolNeverBlocks ==
    ASSUME IsFiniteSet(Requests), Cardinality(Clients) > Cardinality(Requests), ~Timeouts
    PROVE  OnboardingSpec => [](faults = 0 => ~Stuck)
BY Composes, AmplePoolNeverBlocks, PTL
=============================================================================
