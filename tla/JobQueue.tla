------------------------------ MODULE JobQueue ------------------------------
(***************************************************************************)
(* What IQueueProvider promises of a job that has reached the queue        *)
(* (shared/queue/queue.ts): the queue keeps it until its processor has     *)
(* completed.  The processor may run more than once.                       *)
(***************************************************************************)
CONSTANT Jobs

VARIABLES
    kept,    \* jobs the queue answers for
    done     \* jobs whose processor has completed

vars == <<kept, done>>

Init == kept = {} /\ done = {}

Put(j) == j \notin kept \cup done /\ kept' = kept \cup {j} /\ UNCHANGED done

Run(j) == j \in kept /\ done' = done \cup {j} /\ UNCHANGED kept

Drop(j) == j \in kept \cap done /\ kept' = kept \ {j} /\ UNCHANGED done

Next == \E j \in Jobs : Put(j) \/ Run(j) \/ Drop(j)

Spec == Init /\ [][Next]_vars
=============================================================================
