------------------------- MODULE RabbitQueueProofs -------------------------
(***************************************************************************)
(* RabbitQueue for any jobs, workers and bounds: where a message is, how   *)
(* many a worker is given, that it is gone only after its processor has    *)
(* completed, and what the connections of the API process do to enqueues.  *)
(***************************************************************************)
EXTENDS RabbitQueue, FiniteSetTheorems, TLAPS

\* Where the messages are.
Placement == TypeOK /\ OnePlace /\ OnItsWay /\ RunningIsKept /\ AcceptedIsKept

\* What the provider of the API process refers to.
Provider == LinksAreOpened /\ RefusalHasCause

USE DEF Settled, Suspended, InGetChannel

LEMMA PlacementInit == Init => Placement /\ Provider
<1> SUFFICES ASSUME Init PROVE Placement /\ Provider
    OBVIOUS
<1> USE DEF Init
<1>1. TypeOK
    BY BoundsAssumption DEF TypeOK
<1>2. OnePlace /\ OnItsWay /\ RunningIsKept /\ AcceptedIsKept
    BY NobodyAssumption DEF OnePlace, OnItsWay, RunningIsKept, AcceptedIsKept, Kept, Held
<1>3. LinksAreOpened /\ RefusalHasCause
    BY DEF LinksAreOpened, RefusalHasCause
<1> QED
    BY <1>1, <1>2, <1>3 DEF Placement, Provider

\* Steps of the API process move messages from the socket to the queue only.
LEMMA ApiPlacementStep ==
    ASSUME Placement, Provider, UNCHANGED consumers, UNCHANGED broker,
           enqueue' \in [Jobs -> {"idle"} \cup Suspended \cup Settled],
           link' \in [Jobs -> {"none", "open", "shut", "lost"}],
           via' \in [Jobs -> Jobs \cup {Null}],
           connection' \in Jobs \cup {Null}, channel' \in Jobs \cup {Null},
           closing' \in {"no", "channel", "connection", "closed", "failed"},
           closee' \in Jobs \cup {Null}, cuts' \in 0..MaxCuts, refusals' \in 0..MaxRefusals,
           \A j \in Jobs : enqueue'[j] = "sent" <=> enqueue[j] = "sent",
           buffered' \subseteq buffered,
           (buffered' = buffered /\ cuts' = cuts) \/ cuts' # 0
    PROVE  Placement'
BY DEF Placement, TypeOK, OnePlace, OnItsWay, RunningIsKept, AcceptedIsKept, Kept, Held,
       consumers, broker

LEMMA PlacementStep == Placement /\ Provider /\ [Next]_vars => Placement'
<1> SUFFICES ASSUME Placement, Provider, [Next]_vars PROVE Placement'
    OBVIOUS
<1> USE NobodyAssumption, BoundsAssumption DEF vars, api, broker, consumers, provider
<1>1. ASSUME NEW j \in Jobs, GetChannel(j) PROVE Placement'
    BY <1>1, ApiPlacementStep
    DEF GetChannel, UseChannel, StartConnect, Connected, ChannelCreated, Goto, Placement, TypeOK
<1>2. ASSUME NEW j \in Jobs, GetChannelFails(j) \/ ChannelIsGone(j) PROVE Placement'
    BY <1>2, ApiPlacementStep DEF GetChannelFails, ChannelIsGone, Goto, Placement, TypeOK
<1>3. CASE Close
    BY <1>3, ApiPlacementStep
    DEF Close, CloseBegins, ProviderChannelClosed, ProviderConnectionClosed, CloseFails,
        CloseConnection, Placement, TypeOK
<1>4. ASSUME NEW l \in Jobs, ConnectionBreaks(l) PROVE Placement'
    <2>1. cuts' \in 0..MaxCuts /\ cuts' # 0
        BY <1>4 DEF ConnectionBreaks, Placement, TypeOK
    <2> QED
        BY <1>4, <2>1, ApiPlacementStep DEF ConnectionBreaks, Placement, TypeOK
<1>5. CASE ProcessDies
    <2>1. cuts' \in 0..MaxCuts /\ cuts' # 0
        BY <1>5 DEF ProcessDies, Placement, TypeOK
    <2>2. /\ enqueue' \in [Jobs -> {"idle"} \cup Suspended \cup Settled]
          /\ \A j \in Jobs : enqueue'[j] = "sent" <=> enqueue[j] = "sent"
        BY <1>5 DEF ProcessDies, Placement, TypeOK
    <2> QED
        BY <1>5, <2>1, <2>2, ApiPlacementStep DEF ProcessDies, Placement, TypeOK
<1> USE DEF Placement, TypeOK, OnePlace, OnItsWay, RunningIsKept, AcceptedIsKept, Kept, Held
<1>6. ASSUME NEW j \in Jobs, AssertReplies(j) PROVE Placement'
    BY <1>6 DEF AssertReplies, Goto
<1>7. ASSUME NEW j \in Jobs, Arrive(j) PROVE Placement'
    BY <1>7 DEF Arrive
<1>8. ASSUME NEW w \in Workers, StartWorker(w) PROVE Placement'
    BY <1>8 DEF StartWorker
<1>9. ASSUME NEW w \in Workers, NEW j \in Jobs, Deliver(w, j) PROVE Placement'
    BY <1>9 DEF Deliver
<1>10. ASSUME NEW w \in Workers, NEW j \in Jobs, Complete(w, j) PROVE Placement'
    BY <1>10 DEF Complete
<1>11. ASSUME NEW w \in Workers, NEW j \in Jobs, Fail(w, j) PROVE Placement'
    BY <1>11 DEF Fail
<1>12. ASSUME NEW w \in Workers, NEW j \in Jobs, AckArrives(w, j) PROVE Placement'
    BY <1>12 DEF AckArrives
<1>13. ASSUME NEW w \in Workers, StopWorker(w) PROVE Placement'
    BY <1>13 DEF StopWorker
<1>14. ASSUME NEW w \in Workers, ChannelClosed(w) PROVE Placement'
    BY <1>14 DEF ChannelClosed, Requeue
<1>15. ASSUME NEW w \in Workers, ExitWorker(w) PROVE Placement'
    BY <1>15 DEF ExitWorker
<1>16. ASSUME NEW w \in Workers, CrashWorker(w) PROVE Placement'
    BY <1>16 DEF CrashWorker, Requeue
<1>17. CASE Finished \/ UNCHANGED vars
    BY <1>17 DEF Finished
<1> QED
    BY <1>1, <1>2, <1>3, <1>4, <1>5, <1>6, <1>7, <1>8, <1>9, <1>10, <1>11, <1>12, <1>13, <1>14,
       <1>15, <1>16, <1>17
    DEF Next, Progress

\* A channel in use has been opened, and is lost only by cuts and close().
LEMMA ProviderStep == TypeOK /\ Provider /\ [Next]_vars => Provider'
<1> SUFFICES ASSUME TypeOK, Provider, [Next]_vars PROVE Provider'
    OBVIOUS
<1> USE NullAssumption, BoundsAssumption
    DEF Provider, TypeOK, LinksAreOpened, RefusalHasCause, provider, api, Goto
<1>1. ASSUME NEW j \in Jobs, UseChannel(j) \/ StartConnect(j) PROVE Provider'
    BY <1>1 DEF UseChannel, StartConnect
<1>2. ASSUME NEW j \in Jobs, Connected(j) PROVE Provider'
    BY <1>2 DEF Connected
<1>3. ASSUME NEW j \in Jobs, ChannelCreated(j) PROVE Provider'
    BY <1>3 DEF ChannelCreated
<1>4. ASSUME NEW j \in Jobs, GetChannelFails(j) PROVE Provider'
    BY <1>4 DEF GetChannelFails
<1>5. ASSUME NEW j \in Jobs, AssertReplies(j) \/ ChannelIsGone(j) \/ Arrive(j) PROVE Provider'
    BY <1>5 DEF AssertReplies, ChannelIsGone, Arrive
<1>6. CASE CloseBegins
    BY <1>6 DEF CloseBegins, CloseConnection
<1>7. CASE ProviderChannelClosed
    BY <1>7 DEF ProviderChannelClosed, CloseConnection
<1>8. CASE ProviderConnectionClosed \/ CloseFails
    BY <1>8 DEF ProviderConnectionClosed, CloseFails
<1>9. ASSUME NEW l \in Jobs, ConnectionBreaks(l) PROVE Provider'
    BY <1>9 DEF ConnectionBreaks
<1>10. CASE ProcessDies
    <2>1. cuts' > 0
        BY <1>10 DEF ProcessDies
    <2>2. \A j \in Jobs : enqueue'[j] \notin {"create", "assert"}
        BY <1>10 DEF ProcessDies
    <2> QED
        BY <1>10, <2>1, <2>2 DEF ProcessDies
<1>11. CASE UNCHANGED api
    BY <1>11
<1> QED
    BY <1>1, <1>2, <1>3, <1>4, <1>5, <1>6, <1>7, <1>8, <1>9, <1>10, <1>11
    DEF Next, GetChannel, Close, Progress, StartWorker, Deliver, Complete, Fail, AckArrives,
        StopWorker, ChannelClosed, ExitWorker, CrashWorker, Finished, vars

LEMMA HeldIsFinite == ASSUME NEW w \in Workers PROVE IsFiniteSet(Held(w))
    BY JobsAssumption, FS_Subset DEF Held

\* Only a delivery adds to what a worker holds, and it asks for room first.
LEMMA PrefetchStep == Placement /\ WithinPrefetch /\ [Next]_vars => WithinPrefetch'
<1> SUFFICES ASSUME Placement, WithinPrefetch, [Next]_vars, NEW v \in Workers
             PROVE Cardinality(Held(v)') <= Prefetch
    BY DEF WithinPrefetch
<1>0. /\ IsFiniteSet(Held(v))
      /\ Cardinality(Held(v)) \in Nat
      /\ Cardinality(Held(v)) <= Prefetch
    BY HeldIsFinite, FS_CardinalityType DEF WithinPrefetch
<1> USE PrefetchAssumption, NobodyAssumption DEF Placement, TypeOK
<1>1. ASSUME NEW w \in Workers, NEW j \in Jobs, Deliver(w, j)
      PROVE Cardinality(Held(v)') <= Prefetch
    <2>1. CASE v = w
        <3>1. Held(v)' = Held(v) \cup {j} /\ Cardinality(Held(v)) < Prefetch
            BY <1>1, <2>1 DEF Deliver, Held
        <3>2. Cardinality(Held(v) \cup {j}) \in {Cardinality(Held(v)), Cardinality(Held(v)) + 1}
            <4>1. Cardinality(Held(v) \cup {j})
                    = IF j \in Held(v) THEN Cardinality(Held(v)) ELSE Cardinality(Held(v)) + 1
                BY <1>0, FS_AddElement, Zenon
            <4> QED
                BY <4>1
        <3> QED
            BY <1>0, <3>1, <3>2
    <2>2. CASE v # w
        <3>1. holder[j] # v
            BY <1>1 DEF Deliver, OnePlace
        <3>2. Held(v)' = Held(v)
            BY <1>1, <2>2, <3>1 DEF Deliver, Held
        <3> QED
            BY <1>0, <3>2
    <2> QED
        BY <2>1, <2>2
<1>2. ASSUME Held(v)' \subseteq Held(v) PROVE Cardinality(Held(v)') <= Prefetch
    <2>1. Cardinality(Held(v)') \in Nat /\ Cardinality(Held(v)') <= Cardinality(Held(v))
        BY <1>0, <1>2, FS_Subset, FS_CardinalityType
    <2> QED
        BY <1>0, <2>1
<1>3. ASSUME UNCHANGED holder PROVE Held(v)' = Held(v)
    BY <1>3 DEF Held
<1>4. CASE \/ Close \/ ProcessDies \/ Finished \/ UNCHANGED vars
           \/ \E j \in Jobs : \/ GetChannel(j) \/ GetChannelFails(j) \/ AssertReplies(j)
                              \/ ChannelIsGone(j) \/ Arrive(j) \/ ConnectionBreaks(j)
    <2>1. UNCHANGED holder
        BY <1>4 DEF Close, CloseBegins, ProviderChannelClosed, ProviderConnectionClosed, CloseFails,
                    ProcessDies, Finished, vars, broker, GetChannel, UseChannel, StartConnect,
                    Connected, ChannelCreated, GetChannelFails, AssertReplies, ChannelIsGone, Arrive,
                    ConnectionBreaks
    <2> QED
        BY <1>2, <1>3, <2>1
<1>5. ASSUME NEW w \in Workers, Progress(w) \/ StopWorker(w) \/ CrashWorker(w)
      PROVE Held(v)' \subseteq Held(v)
    BY <1>5 DEF Progress, StartWorker, Complete, AckArrives, StopWorker, ChannelClosed, ExitWorker,
                CrashWorker, Requeue, Held, broker
<1>6. ASSUME NEW w \in Workers, NEW j \in Jobs, Fail(w, j) PROVE Held(v)' = Held(v)
    BY <1>6 DEF Fail, Held, broker
<1> QED
    BY <1>1, <1>2, <1>4, <1>5, <1>6 DEF Next

\* The inductive invariant of the queue holds in every reachable state
\* (RabbitMqQueueProvider, for any jobs, workers, prefetch and failures).
THEOREM QueueInvariance == Spec => []QueueInv
<1>1. Init => QueueInv
    <2>1. Init => WithinPrefetch
        <3> SUFFICES ASSUME Init, NEW w \in Workers PROVE Cardinality(Held(w)) <= Prefetch
            BY DEF WithinPrefetch
        <3>1. Held(w) = {}
            BY NobodyAssumption DEF Init, Held
        <3> QED
            BY <3>1, FS_EmptySet, PrefetchAssumption
    <2> QED
        BY <2>1, PlacementInit DEF QueueInv, Placement, Provider
<1>2. QueueInv /\ [Next]_vars => QueueInv'
    BY PlacementStep, ProviderStep, PrefetchStep DEF QueueInv, Placement, Provider
<1> QED
    BY <1>1, <1>2, PTL DEF Spec

\* Every variable of RabbitQueue keeps its type, whatever fails or breaks.
THEOREM TypeCorrect == Spec => []TypeOK
<1>1. QueueInv => TypeOK
    BY DEF QueueInv
<1> QED
    BY <1>1, QueueInvariance, PTL

\* A worker that consumes never awaits more than Prefetch processors
\* (channel.prefetch in startWorker), and has room for another message whenever it
\* has nothing to do, until Prefetch jobs have failed: the least number of failures
\* that stops a worker for good, for any number of jobs and workers.
THEOREM LoadIsBounded == Spec => []WorkerLoad
<1>1. ASSUME QueueInv, NEW w \in Workers, process[w] = "consuming"
      PROVE  /\ Cardinality(running[w]) <= Prefetch
             /\ running[w] \cup acking[w] = {} => Cardinality(Held(w)) <= Cardinality(failed)
             /\ Cardinality(Held(w)) \in Nat /\ Cardinality(failed) \in Nat
    <2>1. /\ running[w] \subseteq Held(w)
          /\ Held(w) \subseteq running[w] \cup acking[w] \cup failed
          /\ IsFiniteSet(Held(w))
          /\ Cardinality(Held(w)) <= Prefetch
        BY <1>1, HeldIsFinite DEF QueueInv, RunningIsKept, WithinPrefetch
    <2>2. Cardinality(running[w]) <= Cardinality(Held(w))
        BY <2>1, FS_Subset
    <2>3. Cardinality(running[w]) \in Nat /\ Cardinality(Held(w)) \in Nat
        BY <2>1, FS_Subset, FS_CardinalityType
    <2>4. IsFiniteSet(failed) /\ Cardinality(failed) \in Nat
        BY <1>1, JobsAssumption, FS_Subset, FS_CardinalityType DEF QueueInv, TypeOK
    <2>5. ASSUME running[w] \cup acking[w] = {} PROVE Cardinality(Held(w)) <= Cardinality(failed)
        <3>1. Held(w) \subseteq failed
            BY <2>1, <2>5
        <3> QED
            BY <2>4, <3>1, FS_Subset
    <2> QED
        BY <2>1, <2>2, <2>3, <2>4, <2>5, PrefetchAssumption
<1>2. QueueInv => WorkerLoad
    <2> SUFFICES ASSUME QueueInv, NEW w \in Workers, process[w] = "consuming"
                 PROVE /\ Cardinality(running[w]) <= Prefetch
                       /\ running[w] \cup acking[w] = {} /\ Cardinality(failed) < Prefetch =>
                             Cardinality(Held(w)) < Prefetch
        BY DEF WorkerLoad
    <2>1. Cardinality(running[w]) <= Prefetch
        BY <1>1
    <2>2. /\ running[w] \cup acking[w] = {} => Cardinality(Held(w)) <= Cardinality(failed)
          /\ Cardinality(Held(w)) \in Nat /\ Cardinality(failed) \in Nat
        BY <1>1
    <2> QED
        BY <2>1, <2>2, PrefetchAssumption
<1> QED
    BY <1>2, QueueInvariance, PTL

\* A job whose enqueue has resolved is not lost unless a connection or the
\* process is (getChannel, enqueue, close and the consumer together).
THEOREM AcceptedJobsAreKept == Spec => []AcceptedIsKept
<1>1. QueueInv => AcceptedIsKept
    BY DEF QueueInv
<1> QED
    BY <1>1, QueueInvariance, PTL

\* An enqueue rejects for a cause: however first enqueues race for the fields
\* of the provider, none of them rejects because of another.
THEOREM RefusalsHaveCauses == Spec => []RefusalHasCause
<1>1. QueueInv => RefusalHasCause
    BY DEF QueueInv
<1> QED
    BY <1>1, QueueInvariance, PTL

\* A message is gone from the broker only after its processor has completed:
\* the consumer implements the at-least-once queue of IQueueProvider.
THEOREM Refinement == Spec => ImplementsJobQueue
<1> USE DEF Queue!vars, Queue!Next, Queue!Put, Queue!Run, Queue!Drop
<1>1. Init => Queue!Init
    BY NobodyAssumption DEF Init, Queue!Init, Kept
<1>2. QueueInv /\ [Next]_vars => [Queue!Next]_(Queue!vars)
    <2> SUFFICES ASSUME QueueInv, [Next]_vars PROVE [Queue!Next]_(Queue!vars)
        OBVIOUS
    <2> USE NobodyAssumption DEF QueueInv, TypeOK, OnePlace, OnItsWay, RunningIsKept, Kept, Held,
                                 vars, broker, consumers
    <2>1. ASSUME NEW j \in Jobs, Arrive(j) PROVE Queue!Put(j)
        BY <2>1 DEF Arrive
    <2>2. ASSUME NEW w \in Workers, NEW j \in Jobs, Complete(w, j)
          PROVE Queue!Run(j) \/ UNCHANGED Queue!vars
        BY <2>2 DEF Complete
    <2>3. ASSUME NEW w \in Workers, NEW j \in Jobs, AckArrives(w, j) PROVE Queue!Drop(j)
        BY <2>3 DEF AckArrives
    <2>4. ASSUME NEW w \in Workers, NEW j \in Jobs, Deliver(w, j) \/ Fail(w, j)
          PROVE UNCHANGED Queue!vars
        BY <2>4 DEF Deliver, Fail
    <2>5. ASSUME NEW w \in Workers, StartWorker(w) \/ StopWorker(w) \/ ExitWorker(w)
          PROVE UNCHANGED Queue!vars
        BY <2>5 DEF StartWorker, StopWorker, ExitWorker
    <2>6. ASSUME NEW w \in Workers, ChannelClosed(w) \/ CrashWorker(w) PROVE UNCHANGED Queue!vars
        BY <2>6 DEF ChannelClosed, CrashWorker, Requeue
    <2>7. CASE \/ Close \/ ProcessDies \/ Finished \/ UNCHANGED vars
               \/ \E j \in Jobs : \/ GetChannel(j) \/ GetChannelFails(j) \/ AssertReplies(j)
                                  \/ ChannelIsGone(j) \/ ConnectionBreaks(j)
        <3>1. UNCHANGED <<broker, done>>
            BY <2>7 DEF Close, CloseBegins, ProviderChannelClosed, ProviderConnectionClosed,
                        CloseFails, ProcessDies, Finished, GetChannel, UseChannel, StartConnect,
                        Connected, ChannelCreated, GetChannelFails, AssertReplies, ChannelIsGone,
                        ConnectionBreaks
        <3> QED
            BY <3>1
    <2> QED
        BY <2>1, <2>2, <2>3, <2>4, <2>5, <2>6, <2>7 DEF Next, Progress
<1> QED
    BY <1>1, <1>2, QueueInvariance, PTL DEF Spec, ImplementsJobQueue, Queue!Spec
=============================================================================
