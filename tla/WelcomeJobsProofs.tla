------------------------- MODULE WelcomeJobsProofs -------------------------
(***************************************************************************)
(* The welcome jobs of WelcomeJobs, for any accounts, workers, attempts    *)
(* and flags: what leaves the queue, and why.                              *)
(***************************************************************************)
EXTENDS WelcomeJobs, TLAPS

LEMMA WelcomeInit == Init => WelcomeInv
<1> SUFFICES ASSUME Init PROVE WelcomeInv
    OBVIOUS
<1> USE DEF Init, Nothing
<1>1. TypeOK
    BY AttemptsAssumption, BoundsAssumption DEF TypeOK
<1>2. FlagsRespected /\ GivenUpIsExhausted /\ OnlyCrashesStrand
    BY DEF FlagsRespected, GivenUpIsExhausted, OnlyCrashesStrand
<1>3. HolderRuns /\ JobsFollowEvents
    BY DEF HolderRuns, JobsFollowEvents
<1>4. AttemptsLeft
    <2>1. 0 < Attempts
        BY AttemptsAssumption
    <2> QED
        BY <2>1 DEF AttemptsLeft
<1> QED
    BY <1>1, <1>2, <1>3, <1>4 DEF WelcomeInv

LEMMA WelcomeStep == WelcomeInv /\ [Next]_vars => WelcomeInv'
<1> SUFFICES ASSUME WelcomeInv, [Next]_vars PROVE WelcomeInv'
    OBVIOUS
<1> USE NobodyAssumption, AttemptsAssumption, BoundsAssumption
    DEF WelcomeInv, TypeOK, FlagsRespected, GivenUpIsExhausted, OnlyCrashesStrand, HolderRuns,
        JobsFollowEvents, AttemptsLeft, vars, events, queue
<1>1. CASE SetUp
    BY <1>1 DEF SetUp, Flags
<1>2. CASE CrashApi
    BY <1>2 DEF CrashApi, Nothing
<1>3. ASSUME NEW c \in Sockets, Connect(c) PROVE WelcomeInv'
    BY <1>3 DEF Connect
<1>4. ASSUME NEW u \in Users, Register(u) PROVE WelcomeInv'
    BY <1>4 DEF Register, Broadcast
<1>5. ASSUME NEW u \in Users, Add(u) \/ AddRejects(u) PROVE WelcomeInv'
    BY <1>5 DEF Add, AddRejects, Broadcast
<1>6. ASSUME NEW u \in Users, NEW w \in Workers, Take(w, u) PROVE WelcomeInv'
    BY <1>6 DEF Take
<1>7. ASSUME NEW u \in Users, ProcessorReturns(u) \/ MoveToCompleted(u) PROVE WelcomeInv'
    BY <1>7 DEF ProcessorReturns, MoveToCompleted
<1>8. ASSUME NEW u \in Users, ProcessorFails(u) PROVE WelcomeInv'
    BY <1>8 DEF ProcessorFails
<1>9. ASSUME NEW u \in Users, Promote(u) PROVE WelcomeInv'
    BY <1>9 DEF Promote
<1>10. ASSUME NEW u \in Users, Recover(u) PROVE WelcomeInv'
    BY <1>10 DEF Recover
<1>11. ASSUME NEW w \in Workers, StartWorker(w) \/ Close(w) PROVE WelcomeInv'
    BY <1>11 DEF StartWorker, Close, Flags
<1>12. ASSUME NEW w \in Workers, ExitWorker(w) PROVE WelcomeInv'
    BY <1>12 DEF ExitWorker
<1>13. ASSUME NEW w \in Workers, CrashWorker(w) PROVE WelcomeInv'
    BY <1>13 DEF CrashWorker
<1>14. CASE AtRest \/ UNCHANGED vars
    BY <1>14 DEF AtRest
<1> QED
    BY <1>1, <1>2, <1>3, <1>4, <1>5, <1>6, <1>7, <1>8, <1>9, <1>10, <1>11, <1>12, <1>13, <1>14
    DEF Next, Run

\* The inductive invariant holds in every reachable state (auth.events.ts,
\* BullMqQueueProvider, workers/index.ts; any accounts, workers and flags).
THEOREM WelcomeInvariance == Spec => []WelcomeInv
BY WelcomeInit, WelcomeStep, PTL DEF Spec

\* Every variable of WelcomeJobs keeps its type.
THEOREM TypeCorrect == Spec => []TypeOK
<1>1. WelcomeInv => TypeOK
    BY DEF WelcomeInv
<1> QED
    BY <1>1, WelcomeInvariance, PTL

\* With a flag of config.yaml off there is never a job or a worker.
THEOREM FlagsAreRespected == Spec => []FlagsRespected
<1>1. WelcomeInv => FlagsRespected
    BY DEF WelcomeInv
<1> QED
    BY <1>1, WelcomeInvariance, PTL

\* A job is given up only after all its attempts or two crashes.
THEOREM NothingIsGivenUpEarly == Spec => []GivenUpIsExhausted
<1>1. WelcomeInv => GivenUpIsExhausted
    BY DEF WelcomeInv
<1> QED
    BY <1>1, WelcomeInvariance, PTL

\* A worker that is told to stop strands no job: worker.close() drains it.
THEOREM StoppedWorkersDrain == Spec => []OnlyCrashesStrand
<1>1. WelcomeInv => OnlyCrashesStrand
    BY DEF WelcomeInv
<1> QED
    BY <1>1, WelcomeInvariance, PTL

\* A job leaves the queue only after its processor has completed: WelcomeJobs
\* implements the at-least-once queue of IQueueProvider.
THEOREM Refinement == Spec => ImplementsJobQueue
<1>1. Init => Queue!Init
    BY DEF Init, Queue!Init, Kept
<1>2. WelcomeInv /\ [Next]_vars => [Queue!Next]_(Queue!vars)
    <2> SUFFICES ASSUME WelcomeInv, [Next]_vars PROVE [Queue!Next]_(Queue!vars)
        OBVIOUS
    <2> USE DEF WelcomeInv, TypeOK, HolderRuns, JobsFollowEvents, Kept, vars, events, queue, Queue!vars
    <2>1. ASSUME NEW u \in Users, Add(u) PROVE Queue!Put(u)
        BY <2>1 DEF Add, Queue!Put
    <2>2. ASSUME NEW u \in Users, ProcessorReturns(u) PROVE Queue!Run(u)
        BY <2>2 DEF ProcessorReturns, Queue!Run
    <2>3. ASSUME NEW u \in Users, MoveToCompleted(u) PROVE Queue!Drop(u)
        BY <2>3 DEF MoveToCompleted, Queue!Drop
    <2>4. ASSUME NEW u \in Users, ProcessorFails(u) PROVE UNCHANGED Queue!vars
        BY <2>4 DEF ProcessorFails
    <2>5. ASSUME NEW u \in Users, Promote(u) \/ Recover(u) PROVE UNCHANGED Queue!vars
        BY <2>5 DEF Promote, Recover
    <2>6. ASSUME NEW u \in Users, NEW w \in Workers, Take(w, u) PROVE UNCHANGED Queue!vars
        BY <2>6 DEF Take
    <2>7. CASE UNCHANGED <<job, done>>
        BY <2>7
    <2> QED
        BY <2>1, <2>2, <2>3, <2>4, <2>5, <2>6, <2>7
        DEF Next, Run, Queue!Next, SetUp, CrashApi, AtRest, Connect, Register, AddRejects, StartWorker,
            Close, ExitWorker, CrashWorker
<1> QED
    BY <1>1, <1>2, WelcomeInvariance, PTL DEF Spec, ImplementsJobQueue, Queue!Spec
=============================================================================
