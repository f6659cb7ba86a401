------------------------------ MODULE JobQueue ------------------------------
(***************************************************************************)
(* What a thread pool promises: each job is run once, and jobs are started *)
(* in the order in which they were put in.                                 *)
(***************************************************************************)
EXTENDS Sequences

CONSTANT Call   \* the calls of EnqueueJob that can be pending together

VARIABLES
    queue,      \* the jobs nobody has started
    running     \* the jobs that were started and have not ended

vars == <<queue, running>>

Queued == {queue[i] : i \in DOMAIN queue}

Init ==
    /\ queue = <<>>
    /\ running = {}

Enqueue(c) ==
    /\ c \notin Queued \cup running
    /\ queue' = Append(queue, c)
    /\ UNCHANGED running

Start ==
    /\ queue # <<>>
    /\ Head(queue) \notin running
    /\ running' = running \cup {Head(queue)}
    /\ queue' = Tail(queue)

Finish(c) ==
    /\ c \in running
    /\ running' = running \ {c}
    /\ UNCHANGED queue

Next ==
    \/ \E c \in Call : Enqueue(c) \/ Finish(c)
    \/ Start

Spec == Init /\ [][Next]_vars
=============================================================================
