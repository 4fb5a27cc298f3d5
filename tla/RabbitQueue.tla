---------------------------- MODULE RabbitQueue ----------------------------
(***************************************************************************)
(* Welcome-email jobs through RabbitMQ: RabbitMqQueueProvider.enqueue and  *)
(* close in the API process, with the connection and channel they share,   *)
(* the durable queue "email-jobs" of the broker, and startWorker's         *)
(* consumer in worker processes that stop and are started again            *)
(* (providers/rabbitmq.provider.ts, workers/index.ts).                     *)
(*                                                                         *)
(* One message per job: a registration enqueues one.  A connection, with   *)
(* its channel, is named by the enqueue that opens it.  A message is ready *)
(* in the queue or unacknowledged at a worker; acknowledged, it is gone.   *)
(***************************************************************************)
EXTENDS Naturals, FiniteSets

CONSTANTS
    Jobs,          \* welcome-email:<userId>
    Workers,       \* worker processes
    Nobody,        \* holder of a message that no worker has
    Null,          \* value of a field of the provider that is not set
    Prefetch,      \* unacknowledged messages a channel may have
    MaxFailures,   \* bound: jobs whose processor fails
    MaxStops,      \* bound: workers that die or are told to stop
    MaxCuts,       \* bound: connections the API process loses, and its deaths
    MaxRefusals    \* bound: connects and createChannels that fail

ASSUME NobodyAssumption == Nobody \notin Workers
ASSUME NullAssumption == Null \notin Jobs
ASSUME JobsAssumption == IsFiniteSet(Jobs)
ASSUME PrefetchAssumption == Prefetch \in Nat \ {0}
ASSUME BoundsAssumption ==
    MaxFailures \in Nat /\ MaxStops \in Nat /\ MaxCuts \in Nat /\ MaxRefusals \in Nat

VARIABLES
    enqueue,     \* where each job's enqueue is suspended
    link,        \* the connection each enqueue has opened
    via,         \* the channel that getChannel gave to each enqueue
    connection,  \* the provider's field of that name
    channel,     \* and its other field
    closing,     \* where the provider's close() is
    closee,      \* the connection whose close it awaits
    buffered,    \* messages written to a socket, not yet at the broker
    cuts,        \* connections lost and deaths of the API process
    refusals,    \* connects and createChannels that have failed
    ready,       \* messages waiting in the queue
    holder,      \* the worker a message is unacknowledged at
    process,     \* each worker process
    running,     \* jobs whose processor each worker is awaiting
    acking,      \* acks each worker has sent and the broker has not seen
    done,        \* jobs whose processor has completed
    failed,      \* jobs whose processor has failed
    stops        \* times a worker has stopped

provider == <<link, via, connection, channel, closing, closee>>
api == <<enqueue, provider, buffered, cuts, refusals>>
broker == <<ready, holder>>
consumers == <<process, running, acking, done, failed, stops>>
vars == <<api, broker, consumers>>

InGetChannel == {"connect", "create"}
Suspended == InGetChannel \cup {"assert"}
Settled == {"sent", "refused"}

Held(w) == {j \in Jobs : holder[j] = w}

Init ==
    /\ enqueue = [j \in Jobs |-> "idle"]
    /\ link = [j \in Jobs |-> "none"]
    /\ via = [j \in Jobs |-> Null]
    /\ connection = Null
    /\ channel = Null
    /\ closing = "no"
    /\ closee = Null
    /\ buffered = {}
    /\ cuts = 0
    /\ refusals = 0
    /\ ready = {}
    /\ holder = [j \in Jobs |-> Nobody]
    /\ process = [w \in Workers |-> "down"]
    /\ running = [w \in Workers |-> {}]
    /\ acking = [w \in Workers |-> {}]
    /\ done = {}
    /\ failed = {}
    /\ stops = 0

Goto(j, from, to) == enqueue[j] = from /\ enqueue' = [enqueue EXCEPT ![j] = to]

-----------------------------------------------------------------------------
(* The API process: getChannel.  Enqueues that find no channel each open a *)
(* connection of their own, and the two fields keep whichever was assigned *)
(* last, not necessarily of the same one.                                  *)

UseChannel(j) ==
    /\ channel # Null
    /\ Goto(j, "idle", "assert")
    /\ via' = [via EXCEPT ![j] = channel]
    /\ UNCHANGED <<link, connection, channel, closing, closee, buffered, cuts, refusals, broker,
                   consumers>>

StartConnect(j) ==
    /\ channel = Null
    /\ Goto(j, "idle", "connect")
    /\ UNCHANGED <<provider, buffered, cuts, refusals, broker, consumers>>

\* The mistake of closing the connection that is there already.
Connected_ClosesPrevious(j) ==
    /\ Goto(j, "connect", "create")
    /\ link' = [l \in Jobs |-> IF l = j THEN "open" ELSE IF l = connection THEN "shut" ELSE link[l]]
    /\ connection' = j
    /\ UNCHANGED <<via, channel, closing, closee, buffered, cuts, refusals, broker, consumers>>

Connected(j) ==
    /\ Goto(j, "connect", "create")
    /\ link' = [link EXCEPT ![j] = "open"]
    /\ connection' = j
    /\ UNCHANGED <<via, channel, closing, closee, buffered, cuts, refusals, broker, consumers>>

ChannelCreated(j) ==
    /\ link[j] = "open"
    /\ Goto(j, "create", "assert")
    /\ channel' = j
    /\ via' = [via EXCEPT ![j] = j]
    /\ UNCHANGED <<link, connection, closing, closee, buffered, cuts, refusals, broker, consumers>>

\* RabbitMQ refuses the connection or the channel, or amqplib is missing or not
\* what is expected: the enqueue rejects, and a connection without a channel
\* stays in its field.
GetChannelFails(j) ==
    /\ refusals < MaxRefusals
    /\ refusals' = refusals + 1
    /\ \E from \in InGetChannel : Goto(j, from, "refused")
    /\ UNCHANGED <<provider, buffered, cuts, broker, consumers>>

-----------------------------------------------------------------------------
(* enqueue, from assertQueue on the channel it was given.                  *)

\* sendToQueue writes to the socket; enqueue returns without a confirm.
AssertReplies(j) ==
    /\ Goto(j, "assert", "sent")
    /\ link[via[j]] = "open"
    /\ buffered' = buffered \cup {j}
    /\ UNCHANGED <<provider, cuts, refusals, broker, consumers>>

\* The mistake of waiting for a channel that is gone.
ChannelIsGone_Waits(j) ==
    /\ \/ Goto(j, "create", "create") /\ link[j] \in {"shut", "lost"}
       \/ Goto(j, "assert", "assert") /\ link[via[j]] \in {"shut", "lost"}
    /\ UNCHANGED <<provider, buffered, cuts, refusals, broker, consumers>>

\* On a connection that is closing or gone createChannel and assertQueue
\* reject, and so does the enqueue: the job is lost.
ChannelIsGone(j) ==
    /\ \/ Goto(j, "create", "refused") /\ link[j] \in {"shut", "lost"}
       \/ Goto(j, "assert", "refused") /\ link[via[j]] \in {"shut", "lost"}
    /\ UNCHANGED <<provider, buffered, cuts, refusals, broker, consumers>>

Arrive(j) ==
    /\ j \in buffered
    /\ buffered' = buffered \ {j}
    /\ ready' = ready \cup {j}
    /\ UNCHANGED <<enqueue, provider, cuts, refusals, holder, consumers>>

-----------------------------------------------------------------------------
(* The provider's close(), at the shutdown of the API process.  Requests   *)
(* under way go on to enqueue, before, during and after it.                *)

Written(l) == {j \in buffered : via[j] = l}

\* The mistake of destroying the socket instead of closing the channel.
CloseBegins_Destroys ==
    /\ closing = "no" /\ channel # Null
    /\ closing' = "channel"
    /\ closee' = channel
    /\ link' = [link EXCEPT ![channel] = "shut"]
    /\ buffered' = buffered \ Written(channel)
    /\ UNCHANGED <<enqueue, via, connection, channel, cuts, refusals, broker, consumers>>

\* On to the connection, if the field has one.
CloseConnection ==
    /\ closing' = IF connection = Null THEN "closed" ELSE "connection"
    /\ closee' = connection
    /\ link' = [l \in Jobs |-> IF l = connection /\ link[l] = "open" THEN "shut" ELSE link[l]]

CloseBegins ==
    /\ closing = "no"
    /\ \/ /\ channel # Null /\ link[channel] # "lost"
          /\ closing' = "channel"
          /\ closee' = channel
          /\ link' = [link EXCEPT ![channel] = "shut"]
       \/ /\ channel = Null
          /\ CloseConnection
    /\ UNCHANGED <<enqueue, via, connection, channel, buffered, cuts, refusals, broker, consumers>>

\* The channel has been closed, and what was written to it received.  The
\* field is cleared, whatever has been assigned to it in the meantime.
ProviderChannelClosed ==
    /\ closing = "channel" /\ link[closee] = "shut"
    /\ Written(closee) = {}
    /\ channel' = Null
    /\ CloseConnection
    /\ UNCHANGED <<enqueue, via, connection, buffered, cuts, refusals, broker, consumers>>

ProviderConnectionClosed ==
    /\ closing = "connection" /\ link[closee] = "shut"
    /\ Written(closee) = {}
    /\ closing' = "closed"
    /\ closee' = Null
    /\ connection' = Null
    /\ UNCHANGED <<enqueue, link, via, channel, buffered, cuts, refusals, broker, consumers>>

\* A channel or connection that is gone cannot be closed: close() rejects.
CloseFails ==
    /\ \/ closing = "no" /\ channel # Null /\ link[channel] = "lost"
       \/ closing \in {"channel", "connection"} /\ link[closee] = "lost"
    /\ closing' = "failed"
    /\ closee' = Null
    /\ UNCHANGED <<enqueue, link, via, connection, channel, buffered, cuts, refusals, broker,
                   consumers>>

-----------------------------------------------------------------------------
(* What the API process loses.                                             *)

\* The broker closes a connection: what has been written to it and not yet
\* received is lost, and the fields keep what getChannel will return for ever.
ConnectionBreaks(l) ==
    /\ cuts < MaxCuts
    /\ cuts' = cuts + 1
    /\ link[l] \in {"open", "shut"}
    /\ link' = [link EXCEPT ![l] = "lost"]
    /\ buffered' = buffered \ Written(l)
    /\ UNCHANGED <<enqueue, via, connection, channel, closing, closee, refusals, broker, consumers>>

\* The process dies, of a connection error that nobody listens for or of
\* anything else, and its next instance has a provider without a connection.
ProcessDies ==
    /\ cuts < MaxCuts
    /\ cuts' = cuts + 1
    /\ enqueue' = [j \in Jobs |-> IF enqueue[j] \in Suspended THEN "refused" ELSE enqueue[j]]
    /\ link' = [l \in Jobs |-> "none"]
    /\ via' = [j \in Jobs |-> Null]
    /\ connection' = Null
    /\ channel' = Null
    /\ closing' = "no"
    /\ closee' = Null
    /\ buffered' = {}
    /\ UNCHANGED <<refusals, broker, consumers>>

-----------------------------------------------------------------------------
(* A worker process.                                                       *)

\* startWorker: prefetch, then consume with noAck: false.
StartWorker(w) ==
    /\ process[w] = "down"
    /\ process' = [process EXCEPT ![w] = "consuming"]
    /\ UNCHANGED <<api, broker, running, acking, done, failed, stops>>

\* The mistake of a startWorker without channel.prefetch.
Deliver_Unlimited(w, j) ==
    /\ process[w] = "consuming"
    /\ j \in ready
    /\ ready' = ready \ {j}
    /\ holder' = [holder EXCEPT ![j] = w]
    /\ running' = [running EXCEPT ![w] = @ \cup {j}]
    /\ UNCHANGED <<api, process, acking, done, failed, stops>>

\* The mistake of consuming with noAck: true.
Deliver_AutoAck(w, j) ==
    /\ process[w] = "consuming"
    /\ j \in ready
    /\ ready' = ready \ {j}
    /\ running' = [running EXCEPT ![w] = @ \cup {j}]
    /\ UNCHANGED <<api, holder, process, acking, done, failed, stops>>

Deliver(w, j) ==
    /\ process[w] = "consuming"
    /\ j \in ready
    /\ Cardinality(Held(w)) < Prefetch
    /\ ready' = ready \ {j}
    /\ holder' = [holder EXCEPT ![j] = w]
    /\ running' = [running EXCEPT ![w] = @ \cup {j}]
    /\ UNCHANGED <<api, process, acking, done, failed, stops>>

\* The mistake of returning from the callback without channel.ack.
Complete_NoAck(w, j) ==
    /\ j \in running[w]
    /\ running' = [running EXCEPT ![w] = @ \ {j}]
    /\ done' = done \cup {j}
    /\ UNCHANGED <<api, broker, process, acking, failed, stops>>

\* The processor returns and the message is acknowledged.  On a channel that
\* is closing or closed channel.ack throws, and the error is logged.
Complete(w, j) ==
    /\ j \in running[w]
    /\ running' = [running EXCEPT ![w] = @ \ {j}]
    /\ done' = done \cup {j}
    /\ acking' = IF process[w] = "consuming" THEN [acking EXCEPT ![w] = @ \cup {j}] ELSE acking
    /\ UNCHANGED <<api, broker, process, failed, stops>>

\* The mistake of acknowledging whatever the processor did.
Fail_Acks(w, j) ==
    /\ Cardinality(failed \cup {j}) <= MaxFailures
    /\ failed' = failed \cup {j}
    /\ j \in running[w]
    /\ running' = [running EXCEPT ![w] = @ \ {j}]
    /\ acking' = IF process[w] = "consuming" THEN [acking EXCEPT ![w] = @ \cup {j}] ELSE acking
    /\ UNCHANGED <<api, broker, process, done, stops>>

\* The processor fails: the error is logged, and the message is neither
\* acknowledged nor rejected.
Fail(w, j) ==
    /\ Cardinality(failed \cup {j}) <= MaxFailures
    /\ failed' = failed \cup {j}
    /\ j \in running[w]
    /\ running' = [running EXCEPT ![w] = @ \ {j}]
    /\ UNCHANGED <<api, broker, process, acking, done, stops>>

AckArrives(w, j) ==
    /\ j \in acking[w]
    /\ acking' = [acking EXCEPT ![w] = @ \ {j}]
    /\ holder' = [holder EXCEPT ![j] = Nobody]
    /\ UNCHANGED <<api, ready, process, running, done, failed, stops>>

\* The broker puts back what a channel leaves unacknowledged.
Requeue(w) ==
    /\ ready' = ready \cup Held(w)
    /\ holder' = [j \in Jobs |-> IF holder[j] = w THEN Nobody ELSE holder[j]]

\* A signal: closeQueueResources closes the channel at once, whatever the
\* processors are doing.
StopWorker(w) ==
    /\ stops < MaxStops
    /\ stops' = stops + 1
    /\ process[w] = "consuming"
    /\ process' = [process EXCEPT ![w] = "closing"]
    /\ UNCHANGED <<api, broker, running, acking, done, failed>>

\* The mistake of a close() that keeps the field of the channel it closed.
ChannelClosed_KeepsField(w) ==
    /\ process[w] = "closing"
    /\ acking[w] = {}
    /\ process' = [process EXCEPT ![w] = "half_closed"]
    /\ Requeue(w)
    /\ UNCHANGED <<api, running, acking, done, failed, stops>>

\* Acks were sent before the close and are seen before it.
ChannelClosed(w) ==
    /\ process[w] = "closing"
    /\ acking[w] = {}
    /\ process' = [process EXCEPT ![w] = "closed"]
    /\ Requeue(w)
    /\ UNCHANGED <<api, running, acking, done, failed, stops>>

\* The connection is closed and the process exits.
ExitWorker(w) ==
    /\ process[w] = "closed"
    /\ process' = [process EXCEPT ![w] = "down"]
    /\ running' = [running EXCEPT ![w] = {}]
    /\ UNCHANGED <<api, broker, acking, done, failed, stops>>

\* The process dies; acks on their way may be lost with it.
CrashWorker(w) ==
    /\ stops < MaxStops
    /\ stops' = stops + 1
    /\ process[w] # "down"
    /\ process' = [process EXCEPT ![w] = "down"]
    /\ running' = [running EXCEPT ![w] = {}]
    /\ acking' = [acking EXCEPT ![w] = {}]
    /\ Requeue(w)
    /\ UNCHANGED <<api, done, failed>>

-----------------------------------------------------------------------------
GetChannel(j) == UseChannel(j) \/ StartConnect(j) \/ Connected(j) \/ ChannelCreated(j)

\* An await of an enqueue is over, one way or the other.
Resume(j) == Connected(j) \/ ChannelCreated(j) \/ AssertReplies(j) \/ ChannelIsGone(j)

Close == CloseBegins \/ ProviderChannelClosed \/ ProviderConnectionClosed \/ CloseFails

Progress(w) ==
    \/ StartWorker(w) \/ ChannelClosed(w) \/ ExitWorker(w)
    \/ \E j \in Jobs : Complete(w, j) \/ AckArrives(w, j)

Finished == (\A j \in Jobs : enqueue[j] \in Settled) /\ buffered = {} /\ UNCHANGED vars

Next ==
    \/ \E j \in Jobs :
          \/ GetChannel(j) \/ GetChannelFails(j) \/ AssertReplies(j) \/ ChannelIsGone(j)
          \/ Arrive(j) \/ ConnectionBreaks(j)
    \/ Close \/ ProcessDies
    \/ \E w \in Workers :
          \/ Progress(w) \/ StopWorker(w) \/ CrashWorker(w)
          \/ \E j \in Jobs : Deliver(w, j) \/ Fail(w, j)
    \/ Finished

Spec == Init /\ [][Next]_vars

\* amqplib answers every call, the broker delivers what a worker has room for,
\* processors return, and a worker that has stopped is started again.
FairSpec ==
    /\ Spec
    /\ \A j \in Jobs : WF_vars(Resume(j))
    /\ \A w \in Workers : WF_vars(Progress(w)) /\ \A j \in Jobs : WF_vars(Deliver(w, j))

-----------------------------------------------------------------------------
(* Properties.                                                             *)

\* The type of every variable.
TypeOK ==
    /\ enqueue \in [Jobs -> {"idle"} \cup Suspended \cup Settled]
    /\ link \in [Jobs -> {"none", "open", "shut", "lost"}]
    /\ via \in [Jobs -> Jobs \cup {Null}]
    /\ connection \in Jobs \cup {Null}
    /\ channel \in Jobs \cup {Null}
    /\ closing \in {"no", "channel", "connection", "closed", "failed"}
    /\ closee \in Jobs \cup {Null}
    /\ buffered \subseteq Jobs
    /\ cuts \in 0..MaxCuts
    /\ refusals \in 0..MaxRefusals
    /\ ready \subseteq Jobs
    /\ holder \in [Jobs -> Workers \cup {Nobody}]
    /\ process \in [Workers -> {"down", "consuming", "closing", "closed"}]
    /\ running \in [Workers -> SUBSET Jobs]
    /\ acking \in [Workers -> SUBSET Jobs]
    /\ done \subseteq Jobs
    /\ failed \subseteq Jobs
    /\ stops \in 0..MaxStops

\* The messages that the broker has.
Kept == ready \cup {j \in Jobs : holder[j] # Nobody}

\* A job whose enqueue has resolved is on its way, in the queue, at a worker or
\* done, unless the API process or one of its connections was lost: neither
\* racing first enqueues, nor close(), nor workers that fail, stop or die lose
\* it (EnqueueJobInput of shared/queue/queue.ts, resolved without a confirm).
AcceptedIsKept ==
    \A j \in Jobs : enqueue[j] = "sent" /\ cuts = 0 => j \in buffered \cup Kept \cup done

\* An enqueue rejects only when RabbitMQ refused or cut a connection or the
\* provider is closing: racing first enqueues, which overwrite each other's
\* fields, make none of them reject (getChannel).
RefusalHasCause ==
    \A j \in Jobs : enqueue[j] = "refused" => refusals > 0 \/ cuts > 0 \/ closing # "no"

\* A message is in one place: on its way, in the queue, or with one worker
\* that is alive, and an ack is only sent for a message its sender still holds
\* and has processed.
OnePlace ==
    /\ buffered \cap ready = {}
    /\ \A j \in Jobs : holder[j] # Nobody =>
          j \notin buffered \cup ready /\ process[holder[j]] \in {"consuming", "closing"}
    /\ \A w \in Workers : acking[w] \subseteq Held(w) \cap done

\* A worker awaits at most Prefetch processors: consume() itself sets no
\* limit, what holds a delivery back is the acks that are missing.  And a worker
\* with nothing to do has room for another message until as many processors have
\* failed as its prefetch window has places: only failed jobs, whose messages are
\* neither acknowledged nor rejected, ever block it.
WorkerLoad ==
    \A w \in Workers : process[w] = "consuming" =>
        /\ Cardinality(running[w]) <= Prefetch
        /\ running[w] \cup acking[w] = {} /\ Cardinality(failed) < Prefetch =>
              Cardinality(Held(w)) < Prefetch

\* What makes them inductive.  A channel that is used or referred to has been
\* opened, and is open while nothing is cut or closing;
LinksAreOpened ==
    /\ \A j \in Jobs :
          /\ enqueue[j] = "create" => link[j] # "none"
          /\ enqueue[j] = "assert" => via[j] # Null /\ link[via[j]] # "none"
    /\ channel # Null => link[channel] # "none"
    /\ connection # Null => link[connection] # "none"
    /\ closing \in {"channel", "connection"} => closee # Null
    /\ cuts = 0 /\ closing = "no" => \A l \in Jobs : link[l] \in {"none", "open"}

\* a message still on its way has been neither delivered nor processed;
OnItsWay ==
    /\ \A j \in buffered \cup Kept \cup done : enqueue[j] = "sent"
    /\ buffered \cap done = {}
    /\ \A w \in Workers : running[w] \cap buffered = {}

\* a processor that runs was given its job by the broker, which keeps it, or
\* gave it to another worker that has processed it; one that consumes still
\* holds the messages of its processors, and no others but those it has just
\* acknowledged and those of processors that have failed;
RunningIsKept ==
    \A w \in Workers :
        /\ running[w] \subseteq Kept \cup done
        /\ process[w] = "consuming" =>
              running[w] \subseteq Held(w) /\ Held(w) \subseteq running[w] \cup acking[w] \cup failed
        /\ process[w] = "down" => running[w] = {}
        /\ running[w] \cap acking[w] = {}

\* and a worker holds no more messages than its channel allows.
WithinPrefetch == \A w \in Workers : Cardinality(Held(w)) <= Prefetch

\* The inductive invariant of RabbitQueueProofs.
QueueInv ==
    /\ TypeOK
    /\ AcceptedIsKept
    /\ RefusalHasCause
    /\ OnePlace
    /\ LinksAreOpened
    /\ OnItsWay
    /\ RunningIsKept
    /\ WithinPrefetch

Queue == INSTANCE JobQueue WITH kept <- Kept

\* The consumer with its acks, crashes and shutdowns implements the queue: a
\* message is gone only after its processor has completed.
ImplementsJobQueue == Queue!Spec

\* Every enqueue resolves or rejects, whatever becomes of its connection and
\* whenever the provider is closed.
EnqueueSettles == \A j \in Jobs : enqueue[j] \in Suspended ~> enqueue[j] \in Settled

\* A job in the queue is tried in the end: the processor completes or fails
\* (WORKFLOW.md: "a separate worker process picks it up and processes it").  A
\* failed job keeps its place in the prefetch window, so this takes more places
\* than there are jobs that fail.
QueuedJobIsTried == \A j \in Jobs : j \in ready ~> j \in done \cup failed
=============================================================================
