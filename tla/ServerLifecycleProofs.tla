----------------------- MODULE ServerLifecycleProofs -----------------------
(***************************************************************************)
(* Any number of requests and signals, and any size of the pool: each      *)
(* thing is closed once, and in order; a shutdown is graceful until a      *)
(* second signal comes, if the first came to a server that listened.       *)
(***************************************************************************)
EXTENDS ServerLifecycle, FiniteSetTheorems, TLAPS

LEMMA ShutdownInit == Init => ShutdownInv
<1> SUFFICES ASSUME Init PROVE ShutdownInv
    OBVIOUS
<1> USE DEF Init
<1>1. TypeOK
    BY DEF TypeOK, Stages
<1>2. NothingBeforeStart /\ ClosedOnce
    BY DEF NothingBeforeStart, ClosedOnce
<1>3. WaitsBehindOthers
    <2>1. Audited = {} /\ Waiting = {}
        BY DEF Audited, Waiting
    <2> QED
        BY <2>1, FS_EmptySet DEF WaitsBehindOthers
<1>4. ClosedByStage /\ ServedBeforeEnd
    BY DEF ClosedByStage, ServedBeforeEnd, Serving
<1> QED
    BY <1>1, <1>2, <1>3, <1>4 DEF ShutdownInv

LEMMA TypeStep == TypeOK /\ [Next]_vars => TypeOK'
<1> SUFFICES ASSUME TypeOK, [Next]_vars PROVE TypeOK'
    OBVIOUS
<1> USE DEF TypeOK, Stages, Advance, Exit, vars, server, shutdowns, work
<1>1. ASSUME Load \/ LoadFails \/ Kill \/ Start \/ SetupFails PROVE TypeOK'
    BY <1>1 DEF Load, LoadFails, Kill, Start, SetupFails, Configs
<1>2. ASSUME NEW r \in Requests, Accept(r) \/ Serve(r) PROVE TypeOK'
    BY <1>2 DEF Accept, Serve, AnswerRegistration, AnswerAuthenticated
<1>3. ASSUME NEW r \in Requests, Background(r) PROVE TypeOK'
    BY <1>3 DEF Background, JobAdded, JobRejected, AuditWritten, AuditFails, PoolPulses
<1>4. ASSUME NEW s \in Signals, Signal(s) \/ Shutdown(s) PROVE TypeOK'
    <2>1. CASE Signal(s) \/ Quit(s) \/ QuitRejected(s) \/ PoolEnded(s)
        BY <2>1 DEF Signal, Quit, QuitRejected, PoolEnded
    <2>2. CASE CloseQueues(s) \/ QuitReplies(s)
        <3>1. UNCHANGED <<config, main, io, early, work>> /\ redis' \in {"none", "open", "quitting"}
            BY <2>2 DEF CloseQueues, QuitReplies
        <3>2. PICK from \in Stages : AfterQueues(s, from)
            BY <2>2 DEF CloseQueues, QuitReplies
        <3>3. /\ stage' \in [Signals -> Stages]
              /\ db' \in {"open", "ending", "none"}
              /\ listening' \in BOOLEAN
              /\ exit' \in {"none", "0", "1", "killed"}
            BY <3>2 DEF AfterQueues, AfterIo, AfterHttp
        <3> QED
            BY <3>1, <3>3
    <2>3. CASE IoClosed(s)
        BY <2>3 DEF IoClosed, AfterIo, AfterHttp
    <2>4. CASE HttpClosed(s)
        BY <2>4 DEF HttpClosed, AfterHttp
    <2> QED
        BY <1>4, <2>1, <2>2, <2>3, <2>4 DEF Shutdown
<1>5. CASE Exited \/ UNCHANGED vars
    BY <1>5 DEF Exited
<1> QED
    BY <1>1, <1>2, <1>3, <1>4, <1>5 DEF Next

\* An insert waits only when all clients of the pool have one.
LEMMA WaitsStep == TypeOK /\ NothingBeforeStart /\ WaitsBehindOthers /\ [Next]_vars => WaitsBehindOthers'
<1> SUFFICES ASSUME TypeOK, NothingBeforeStart, WaitsBehindOthers, [Next]_vars PROVE WaitsBehindOthers'
    OBVIOUS
<1> USE DEF TypeOK, WaitsBehindOthers, Audited, Waiting, vars, server, shutdowns, work, Exit
<1>1. ASSUME NEW r \in Requests, AnswerAuthenticated(r) PROVE WaitsBehindOthers'
    <2>1. r \notin Audited /\ Audited' = Audited \cup {r}
        BY <1>1 DEF AnswerAuthenticated
    <2>2. IsFiniteSet(Audited') /\ Cardinality(Audited') = Cardinality(Audited) + 1
        <3> HIDE DEF Audited
        <3>1. /\ IsFiniteSet(Audited \cup {r})
              /\ Cardinality(Audited \cup {r}) = Cardinality(Audited) + 1
            BY <2>1, FS_AddElement
        <3> QED
            BY <2>1, <3>1
    <2>3. Cardinality(Audited) \in Nat
        BY FS_CardinalityType
    <2>4. \A q \in Audited' : request'[q] = "answered"
        BY <1>1 DEF AnswerAuthenticated
    <2>5. CASE audit'[r] = "waiting"
        <3>1. Writing \subseteq Audited
            BY DEF Writing
        <3>2. IsFiniteSet(Writing) /\ Cardinality(Writing) <= Cardinality(Audited)
            BY <3>1, FS_Subset
        <3>3. Cardinality(Writing) \in Nat
            BY <3>2, FS_CardinalityType
        <3>4. ~(Cardinality(Writing) < PoolSize)
            BY <1>1, <2>5 DEF AnswerAuthenticated
        <3>5. Cardinality(Audited') > PoolSize
            BY <2>2, <2>3, <3>2, <3>3, <3>4, PoolSizeAssumption
        <3> QED
            BY <2>2, <2>4, <3>5
    <2>6. CASE audit'[r] # "waiting"
        <3>1. Waiting' = Waiting
            BY <1>1, <2>6 DEF AnswerAuthenticated
        <3>2. Cardinality(Audited) > PoolSize => Cardinality(Audited') > PoolSize
            BY <2>2, <2>3, PoolSizeAssumption
        <3> QED
            BY <2>2, <2>4, <3>1, <3>2
    <2> QED
        BY <2>5, <2>6
<1>2. ASSUME NEW r \in Requests, AuditWritten(r) \/ AuditFails(r) \/ PoolPulses(r)
      PROVE WaitsBehindOthers'
    <2>1. Audited' = Audited /\ Waiting' \subseteq Waiting /\ UNCHANGED request
        BY <1>2 DEF AuditWritten, AuditFails, PoolPulses
    <2> QED
        BY <2>1
<1>3. ASSUME NEW r \in Requests, Accept(r) \/ AnswerRegistration(r) PROVE WaitsBehindOthers'
    <2>1. UNCHANGED audit /\ \A q \in Requests : request[q] = "answered" => request'[q] = "answered"
        BY <1>3 DEF Accept, AnswerRegistration
    <2>2. Audited' = Audited /\ Waiting' = Waiting
        BY <2>1
    <2> QED
        BY <2>1, <2>2
<1>4. CASE UNCHANGED <<request, audit>>
    BY <1>4
<1>5. ASSUME NEW s \in Signals, Signal(s) \/ Shutdown(s) PROVE UNCHANGED <<request, audit>>
    BY <1>5 DEF Signal, Shutdown, CloseQueues, Quit, QuitReplies, QuitRejected, IoClosed, HttpClosed,
                PoolEnded
<1> QED
    BY <1>1, <1>2, <1>3, <1>4, <1>5
       DEF Next, Load, LoadFails, Kill, Start, SetupFails, Serve, Background, JobAdded, JobRejected, Exited

\* What holds however many signals come.
Always == TypeOK /\ NothingBeforeStart /\ ClosedOnce

\* However many shutdowns run at the same time, each thing is closed by one.
LEMMA AlwaysStep == Always /\ TypeOK' /\ [Next]_vars => Always'
<1> SUFFICES ASSUME Always, TypeOK', [Next]_vars PROVE NothingBeforeStart' /\ ClosedOnce'
    BY DEF Always
<1> DEFINE Goal == NothingBeforeStart' /\ ClosedOnce'
<1> USE DEF Always, TypeOK, NothingBeforeStart, ClosedOnce, Advance, Exit, vars, server, shutdowns, work
<1>1. ASSUME exit = "none", Load \/ LoadFails \/ Kill \/ Start \/ SetupFails PROVE Goal
    <2>1. CASE Start
        BY <1>1, <2>1 DEF Start
    <2>2. CASE Load
        BY <1>1, <2>2 DEF Load
    <2>3. CASE SetupFails \/ LoadFails \/ Kill
        BY <1>1, <2>3 DEF SetupFails, LoadFails, Kill
    <2> QED
        BY <1>1, <2>1, <2>2, <2>3
<1>2. ASSUME exit = "none", NEW r \in Requests, Accept(r) \/ Serve(r) \/ Background(r) PROVE Goal
    <2>1. CASE Accept(r)
        BY <1>2, <2>1 DEF Accept
    <2>2. CASE AnswerRegistration(r)
        BY <1>2, <2>2 DEF AnswerRegistration
    <2>3. CASE AnswerAuthenticated(r)
        BY <1>2, <2>3 DEF AnswerAuthenticated
    <2>4. CASE Background(r)
        BY <1>2, <2>4
        DEF Background, JobAdded, JobRejected, AuditWritten, AuditFails, PoolPulses, Waiting
    <2> QED
        BY <1>2, <2>1, <2>2, <2>3, <2>4 DEF Serve
<1>3. ASSUME exit = "none", NEW s \in Signals, Signal(s) \/ Quit(s) \/ QuitRejected(s) PROVE Goal
    BY <1>3 DEF Signal, Quit, QuitRejected
<1>4. ASSUME exit = "none", NEW s \in Signals, CloseQueues(s) \/ QuitReplies(s) PROVE Goal
    <2>1. /\ stage[s] \in {"queues", "quit"} /\ AfterQueues(s, stage[s])
          /\ redis' = "none" /\ UNCHANGED <<config, main, io, early, work>>
          /\ \A t \in Signals : stage[t] = "quit" => s = t
        BY <1>4 DEF CloseQueues, QuitReplies, AfterQueues, AfterIo, AfterHttp
    <2>2. CASE io
        BY <1>4, <2>1, <2>2 DEF AfterQueues
    <2>3. CASE ~io /\ listening
        BY <1>4, <2>1, <2>3 DEF AfterQueues, AfterIo
    <2>4. CASE ~io /\ ~listening
        BY <1>4, <2>1, <2>4 DEF AfterQueues, AfterIo, AfterHttp, PoolBusy, Writing
    <2> QED
        BY <2>2, <2>3, <2>4
<1>5. ASSUME exit = "none", NEW s \in Signals, IoClosed(s) \/ HttpClosed(s) PROVE Goal
    <2>1. /\ stage[s] \in {"io_wait", "io_again", "http_wait"} /\ AfterHttp(s, stage[s])
          /\ io' \in {io, FALSE} /\ UNCHANGED <<config, main, listening, redis, early, work>>
        BY <1>5 DEF IoClosed, HttpClosed, AfterIo, AfterHttp
    <2> QED
        BY <1>5, <2>1 DEF AfterHttp, PoolBusy, Writing
<1>6. ASSUME exit = "none", NEW s \in Signals, PoolEnded(s) PROVE Goal
    BY <1>6 DEF PoolEnded, PoolBusy, Writing
<1>7. CASE Exited \/ UNCHANGED vars
    BY <1>7 DEF Exited
<1> QED
    BY <1>1, <1>2, <1>3, <1>4, <1>5, <1>6, <1>7 DEF Next, Shutdown

\* A shutdown that has begun never becomes idle again, nor is one taken for early
\* any later.
LEMMA SignalsStay == TypeOK /\ [Next]_vars => (OneSignal' => OneSignal) /\ (Orderly' => Orderly)
<1> SUFFICES ASSUME TypeOK, [Next]_vars
             PROVE  (\A s \in Signals : stage[s] # "idle" => stage'[s] # "idle") /\ early \subseteq early'
    BY DEF OneSignal, Orderly
<1> USE DEF TypeOK, Stages, Advance, Exit, vars, server, shutdowns, work
<1>1. ASSUME NEW s \in Signals, Signal(s) \/ Shutdown(s)
      PROVE (\A t \in Signals : stage[t] # "idle" => stage'[t] # "idle") /\ early \subseteq early'
    BY <1>1 DEF Signal, Shutdown, CloseQueues, Quit, QuitReplies, QuitRejected, IoClosed, HttpClosed,
                PoolEnded, AfterQueues, AfterIo, AfterHttp
<1>2. CASE UNCHANGED <<stage, early>>
    BY <1>2
<1> QED
    BY <1>1, <1>2
    DEF Next, Exited, Start, SetupFails, Load, LoadFails, Kill, Accept, Serve, AnswerRegistration,
        AnswerAuthenticated, Background, JobAdded, JobRejected, AuditWritten, AuditFails, PoolPulses

\* Until a second signal comes nothing is closed behind the back of a shutdown.
LEMMA ClosedStep == Always /\ Always' /\ OneSignal' /\ ClosedByStage /\ [Next]_vars => ClosedByStage'
<1> SUFFICES ASSUME Always, Always', OneSignal, OneSignal', ClosedByStage, [Next]_vars
             PROVE ClosedByStage'
    BY SignalsStay DEF Always
<1> USE DEF OneSignal, Always, TypeOK, NothingBeforeStart, ClosedOnce, ClosedByStage, Advance, Exit,
            vars, server, shutdowns, work
<1>1. ASSUME exit = "none", Load \/ LoadFails \/ Kill \/ Start \/ SetupFails PROVE ClosedByStage'
    <2>1. CASE Start
        BY <1>1, <2>1 DEF Start
    <2>2. CASE Load
        BY <1>1, <2>2 DEF Load
    <2>3. CASE SetupFails \/ LoadFails \/ Kill
        BY <1>1, <2>3 DEF SetupFails, LoadFails, Kill
    <2> QED
        BY <1>1, <2>1, <2>2, <2>3
<1>2. ASSUME NEW r \in Requests, Accept(r) \/ Serve(r) \/ Background(r) PROVE ClosedByStage'
    BY <1>2 DEF Accept, Serve, AnswerRegistration, AnswerAuthenticated, Background, JobAdded,
                JobRejected, AuditWritten, AuditFails, PoolPulses
<1>3. ASSUME exit = "none", NEW s \in Signals, Signal(s) \/ Quit(s) \/ QuitRejected(s)
      PROVE ClosedByStage'
    <2>1. ~QuitRejected(s)
        BY DEF QuitRejected
    <2>2. CASE Signal(s)
        BY <2>2 DEF Signal
    <2>3. CASE Quit(s)
        <3>1. redis = "open" /\ stage[s] = "queues"
            BY <1>3, <2>3 DEF Quit
        <3> QED
            BY <2>3, <3>1 DEF Quit
    <2> QED
        BY <1>3, <2>1, <2>2, <2>3
<1>4. ASSUME exit = "none", NEW s \in Signals, CloseQueues(s) \/ QuitReplies(s) PROVE ClosedByStage'
    <2>1. /\ stage[s] \in {"queues", "quit"} /\ AfterQueues(s, stage[s])
          /\ redis' = "none" /\ UNCHANGED <<main, io, work>>
        BY <1>4 DEF CloseQueues, QuitReplies, AfterQueues, AfterIo, AfterHttp
    <2>2. db = "open" /\ (main = "running" => listening)
        BY <1>4, <2>1
    <2>3. CASE io
        BY <2>1, <2>2, <2>3 DEF AfterQueues
    <2>4. CASE ~io /\ listening
        BY <2>1, <2>4 DEF AfterQueues, AfterIo
    <2>5. CASE ~io /\ ~listening
        BY <1>4, <2>1, <2>2, <2>5 DEF AfterQueues, AfterIo, AfterHttp
    <2> QED
        BY <2>3, <2>4, <2>5
<1>5. ASSUME exit = "none", NEW s \in Signals, IoClosed(s) \/ HttpClosed(s) PROVE ClosedByStage'
    <2>1. /\ stage[s] \in {"io_wait", "http_wait"} /\ AfterHttp(s, stage[s])
          /\ (stage[s] = "io_wait" => ~io') /\ (stage[s] = "http_wait" => io' = io)
          /\ UNCHANGED <<main, listening, redis, work>>
        BY <1>5 DEF IoClosed, HttpClosed, AfterIo, AfterHttp
    <2>2. db = "open"
        BY <1>5, <2>1
    <2> QED
        BY <1>5, <2>1, <2>2 DEF AfterHttp
<1>6. ASSUME NEW s \in Signals, PoolEnded(s) PROVE ClosedByStage'
    BY <1>6 DEF PoolEnded
<1>7. CASE Exited \/ UNCHANGED vars
    BY <1>7 DEF Exited
<1> QED
    BY <1>1, <1>2, <1>3, <1>4, <1>5, <1>6, <1>7 DEF Next, Shutdown

\* An orderly shutdown ends the pool after the last request.
LEMMA ServedStep ==
    Always /\ Always' /\ Orderly' /\ ClosedByStage /\ ServedBeforeEnd /\ [Next]_vars => ServedBeforeEnd'
<1> SUFFICES ASSUME Always, Always', Orderly, Orderly', ClosedByStage, ServedBeforeEnd, [Next]_vars
             PROVE ServedBeforeEnd'
    BY SignalsStay DEF Always
<1> USE DEF Orderly, OneSignal, Always, TypeOK, NothingBeforeStart, ClosedOnce, ClosedByStage,
            ServedBeforeEnd, Serving, Advance, Exit, vars, server, shutdowns, work
<1>1. ASSUME exit = "none", Load \/ LoadFails \/ Kill \/ Start \/ SetupFails PROVE ServedBeforeEnd'
    BY <1>1 DEF Load, LoadFails, Kill, Start, SetupFails
<1>2. ASSUME exit = "none", NEW r \in Requests, Accept(r) PROVE ServedBeforeEnd'
    BY <1>2 DEF Accept
<1>3. ASSUME exit = "none", NEW r \in Requests, Serve(r) PROVE ServedBeforeEnd'
    <2>1. Serving # {} /\ main = "running"
        BY <1>3 DEF Serve, AnswerRegistration, AnswerAuthenticated
    <2>2. db = "open" /\ \A s \in Signals : stage[s] # "db_wait"
        BY <1>3, <2>1
    <2> QED
        BY <1>3, <2>2 DEF Serve, AnswerRegistration, AnswerAuthenticated
<1>4. ASSUME NEW r \in Requests, Background(r) PROVE ServedBeforeEnd'
    BY <1>4 DEF Background, JobAdded, JobRejected, AuditWritten, AuditFails, PoolPulses
<1>5. ASSUME exit = "none", NEW s \in Signals, Signal(s) \/ Quit(s) \/ QuitRejected(s)
      PROVE ServedBeforeEnd'
    BY <1>5 DEF Signal, Quit, QuitRejected
<1>6. ASSUME exit = "none", NEW s \in Signals, CloseQueues(s) \/ QuitReplies(s)
      PROVE ServedBeforeEnd'
    <2>1. /\ stage[s] \in {"queues", "quit"} /\ AfterQueues(s, stage[s]) /\ UNCHANGED work
        BY <1>6 DEF CloseQueues, QuitReplies, AfterQueues, AfterIo, AfterHttp
    <2>2. main = "running" /\ listening
        BY <2>1
    <2> QED
        BY <1>6, <2>1, <2>2 DEF AfterQueues, AfterIo
<1>7. ASSUME NEW s \in Signals, IoClosed(s) \/ HttpClosed(s) PROVE ServedBeforeEnd'
    BY <1>7 DEF IoClosed, HttpClosed, AfterIo, AfterHttp
<1>8. ASSUME NEW s \in Signals, PoolEnded(s) PROVE ServedBeforeEnd'
    BY <1>8 DEF PoolEnded
<1>9. CASE Exited \/ UNCHANGED vars
    BY <1>9 DEF Exited
<1> QED
    BY <1>1, <1>2, <1>3, <1>4, <1>5, <1>6, <1>7, <1>8, <1>9 DEF Next, Shutdown

-----------------------------------------------------------------------------
\* The inductive invariant of the shutdown holds in every reachable state
\* (Server.shutdown, for any requests, signals, pool size and feature flags).
THEOREM ShutdownInvariance == Spec => []ShutdownInv
<1>1. Init => ShutdownInv
    BY ShutdownInit
<1>2. ShutdownInv /\ [Next]_vars => ShutdownInv'
    <2> SUFFICES ASSUME ShutdownInv, [Next]_vars PROVE ShutdownInv'
        OBVIOUS
    <2>1. Always /\ Always' /\ WaitsBehindOthers'
        BY TypeStep, AlwaysStep, WaitsStep DEF ShutdownInv, Always
    <2>2. OneSignal' => ClosedByStage'
        BY <2>1, SignalsStay, ClosedStep DEF ShutdownInv, Always
    <2>3. Orderly' => ServedBeforeEnd'
        <3>1. Orderly' => Orderly /\ ClosedByStage
            BY <2>1, SignalsStay DEF ShutdownInv, Always, Orderly
        <3> QED
            BY <2>1, <3>1, ServedStep DEF ShutdownInv
    <2> QED
        BY <2>1, <2>2, <2>3 DEF ShutdownInv, Always
<1> QED
    BY <1>1, <1>2, PTL DEF Spec

\* Every variable keeps its type, however many signals come.
THEOREM TypeCorrect == Spec => []TypeOK
<1>1. ShutdownInv => TypeOK
    BY DEF ShutdownInv
<1> QED
    BY <1>1, ShutdownInvariance, PTL

\* Of one signal, to a server that listens, exit code 0 means that no request was
\* cut off.
THEOREM CutsNobody == Spec => []OrderlyCutsNobody
<1>1. ShutdownInv => OrderlyCutsNobody
    BY DEF ShutdownInv, ServedBeforeEnd, OrderlyCutsNobody
<1> QED
    BY <1>1, ShutdownInvariance, PTL

\* Whatever signals came, exit code 0 means that no insert of an audit row was
\* cut off, and none dropped that did not wait behind as many others as the pool
\* has clients; after one signal, to a server that listens, none was refused.
THEOREM KeepsAudit == Spec => []CleanExitKeepsAudit
<1>1. ShutdownInv => CleanExitKeepsAudit
    BY DEF ShutdownInv, ClosedOnce, WaitsBehindOthers, Waiting, ServedBeforeEnd, CleanExitKeepsAudit
<1> QED
    BY <1>1, ShutdownInvariance, PTL

\* A server that got no signal before it listened accepts requests with its pool
\* open; until a second signal comes it serves them so too.
THEOREM PoolOutlives == Spec => []PoolOutlivesServer
<1>1. ShutdownInv => PoolOutlivesServer
    <2> SUFFICES ASSUME ShutdownInv PROVE PoolOutlivesServer
        OBVIOUS
    <2>1. early = {} /\ listening => db = "open"
        BY DEF ShutdownInv, ClosedOnce
    <2>2. ASSUME Orderly, Serving # {} PROVE db = "open"
        <3>1. main = "running"
            BY <2>2 DEF ShutdownInv, TypeOK, NothingBeforeStart, Serving
        <3>2. exit # "0" /\ \A s \in Signals : stage[s] # "db_wait"
            BY <2>2 DEF ShutdownInv, ServedBeforeEnd
        <3> QED
            BY <3>1, <3>2 DEF ShutdownInv, TypeOK, ClosedOnce
    <2> QED
        BY <2>1, <2>2 DEF PoolOutlivesServer
<1> QED
    BY <1>1, ShutdownInvariance, PTL

\* Until a second signal comes, a server that runs does not exit with code 1.
THEOREM ExitsZero == Spec => []OneSignalExitsZero
<1>1. ShutdownInv => OneSignalExitsZero
    BY DEF ShutdownInv, ClosedByStage, OneSignalExitsZero
<1> QED
    BY <1>1, ShutdownInvariance, PTL
=============================================================================
