----------------------------- MODULE ThreadPool -----------------------------
(***************************************************************************)
(* HSThreadPool: workers that take jobs from a queue under m_JobMutex and  *)
(* sleep on m_CVJob while there is none.                                   *)
(*                                                                         *)
(* A worker that found nothing to do holds the mutex until it sleeps       *)
(* ("dozing"); every other critical section is one action.  The destructor *)
(* writes m_StopAll without the mutex, so it can run in between.           *)
(*                                                                         *)
(* A call stands for a call of EnqueueJob and for its job; it can be made  *)
(* again when the job has ended.  Nobody may call a member of an object    *)
(* under destruction, so the destructor starts when no call is under way.  *)
(***************************************************************************)
EXTENDS Sequences, FiniteSets, Naturals

CONSTANTS
    Worker,     \* m_Workers
    Call,       \* the calls of EnqueueJob that can be pending together
    None        \* no job

ASSUME PoolAssumption ==
    /\ IsFiniteSet(Worker) /\ Worker # {}
    /\ IsFiniteSet(Call)
    /\ None \notin Call

VARIABLES
    m_Jobs,     \* the queue of jobs
    m_StopAll,  \* the destructor has begun
    worker,     \* where each worker is in Start
    job,        \* the job a worker runs
    call,       \* "pushed": EnqueueJob has pushed the job and not notified
    pool        \* how far the destructor is

vars == <<m_Jobs, m_StopAll, worker, job, call, pool>>

TypeOK ==
    /\ m_Jobs \in Seq(Call)
    /\ m_StopAll \in BOOLEAN
    /\ worker \in [Worker -> {"check", "dozing", "asleep", "run", "returned"}]
    /\ job \in [Worker -> Call \cup {None}]
    /\ call \in [Call -> {"idle", "pushed"}]
    /\ pool \in {"up", "stopping", "notified", "ended"}

Init ==
    /\ m_Jobs = <<>>
    /\ m_StopAll = FALSE
    /\ worker = [w \in Worker |-> "check"]
    /\ job = [w \in Worker |-> None]
    /\ call = [c \in Call |-> "idle"]
    /\ pool = "up"

At(place) == {w \in Worker : worker[w] = place}

JobMutexFree == At("dozing") = {}

Queued == {m_Jobs[i] : i \in DOMAIN m_Jobs}

Running == {job[w] : w \in At("run")}

-----------------------------------------------------------------------------
(* EnqueueJob. *)

Pushed(c) == Append(m_Jobs, c)

EnqueueJob(c) ==
    /\ ~m_StopAll
    /\ call[c] = "idle"
    /\ c \notin Queued \cup Running
    /\ JobMutexFree
    /\ m_Jobs' = Pushed(c)
    /\ call' = [call EXCEPT ![c] = "pushed"]
    /\ UNCHANGED <<m_StopAll, worker, job, pool>>

(* Mutant: nobody is woken. *)
WokenNobody == {worker}

(* Mutant: only the push to an empty queue wakes somebody. *)
WokenForFirst ==
    IF At("asleep") = {} \/ Len(m_Jobs) # 1 THEN {worker}
    ELSE {[worker EXCEPT ![w] = "check"] : w \in At("asleep")}

(***************************************************************************)
(* notify_one wakes one of the sleeping workers, if there is one.          *)
(***************************************************************************)
WokenOne ==
    IF At("asleep") = {} THEN {worker}
    ELSE {[worker EXCEPT ![w] = "check"] : w \in At("asleep")}

NotifyOne(c) ==
    /\ call[c] = "pushed"
    /\ call' = [call EXCEPT ![c] = "idle"]
    /\ worker' \in WokenOne
    /\ UNCHANGED <<m_Jobs, m_StopAll, job, pool>>

-----------------------------------------------------------------------------
(* Start, the loop of a worker. *)

Locks(w) == worker[w] = "check" /\ JobMutexFree

Goes(w, place) == worker' = [worker EXCEPT ![w] = place]

(* Mutant: the job stays in the queue. *)
NotPopped == m_Jobs

Popped == Tail(m_Jobs)

TakeJob(w) ==
    /\ Locks(w)
    /\ m_Jobs # <<>>
    /\ job' = [job EXCEPT ![w] = Head(m_Jobs)]
    /\ m_Jobs' = Popped
    /\ Goes(w, "run")
    /\ UNCHANGED <<m_StopAll, call, pool>>

FinishJob(w) ==
    /\ worker[w] = "run"
    /\ job' = [job EXCEPT ![w] = None]
    /\ Goes(w, "check")
    /\ UNCHANGED <<m_Jobs, m_StopAll, call, pool>>

(* Mutant: stopping does not wait for the jobs. *)
StoppedAnyway == m_StopAll

MayReturn == m_StopAll /\ m_Jobs = <<>>

Return(w) ==
    /\ Locks(w)
    /\ MayReturn
    /\ Goes(w, "returned")
    /\ UNCHANGED <<m_Jobs, m_StopAll, job, call, pool>>

FindNothing(w) ==
    /\ Locks(w)
    /\ m_Jobs = <<>>
    /\ ~m_StopAll
    /\ Goes(w, "dozing")
    /\ UNCHANGED <<m_Jobs, m_StopAll, job, call, pool>>

Sleep(w) ==
    /\ worker[w] = "dozing"
    /\ Goes(w, "asleep")
    /\ UNCHANGED <<m_Jobs, m_StopAll, job, call, pool>>

(* A condition variable may wake without being notified. *)
WakeUnasked(w) ==
    /\ worker[w] = "asleep"
    /\ Goes(w, "check")
    /\ UNCHANGED <<m_Jobs, m_StopAll, job, call, pool>>

-----------------------------------------------------------------------------
(* The destructor. *)

StopAll ==
    /\ pool = "up"
    /\ \A c \in Call : call[c] = "idle"
    /\ m_StopAll' = TRUE
    /\ pool' = "stopping"
    /\ UNCHANGED <<m_Jobs, worker, job, call>>

NotifyAll ==
    /\ pool = "stopping"
    /\ worker' = [w \in Worker |-> IF worker[w] = "asleep" THEN "check" ELSE worker[w]]
    /\ pool' = "notified"
    /\ UNCHANGED <<m_Jobs, m_StopAll, job, call>>

JoinAll ==
    /\ pool = "notified"
    /\ At("returned") = Worker
    /\ pool' = "ended"
    /\ UNCHANGED <<m_Jobs, m_StopAll, worker, job, call>>

Start(w) == TakeJob(w) \/ FinishJob(w) \/ Return(w) \/ FindNothing(w) \/ Sleep(w)

Destructor == StopAll \/ NotifyAll \/ JoinAll

Next ==
    \/ \E c \in Call : EnqueueJob(c) \/ NotifyOne(c)
    \/ \E w \in Worker : Start(w) \/ WakeUnasked(w)
    \/ Destructor

Spec == Init /\ [][Next]_vars

(***************************************************************************)
(* Threads that can go on do, jobs end, and nobody has to wake unasked.    *)
(***************************************************************************)
FairSpec ==
    /\ Spec
    /\ \A c \in Call : WF_vars(NotifyOne(c))
    /\ \A w \in Worker : WF_vars(Start(w))
    /\ WF_vars(NotifyAll \/ JoinAll)

-----------------------------------------------------------------------------
(***************************************************************************)
(* No wakeup is lost: while a worker sleeps, somebody comes for every job  *)
(* in the queue: a worker that is awake, or one about to be notified.      *)
(***************************************************************************)
SomebodyComes ==
    At("asleep") # {} =>
        Len(m_Jobs) <= Cardinality(At("check"))
                         + Cardinality({c \in Call : call[c] = "pushed"})

(***************************************************************************)
(* The destructor lets the queue run empty: when it is over, every job was *)
(* run to its end.                                                         *)
(***************************************************************************)
EndedIsDrained == pool = "ended" => m_Jobs = <<>> /\ Running = {}

(***************************************************************************)
(* A job that was enqueued is run and ends, even when the pool is being    *)
(* destroyed: the caller that waits for the future gets it.                *)
(***************************************************************************)
JobsEnd == \A c \in Call : c \in Queued ~> c \notin Queued \cup Running

(***************************************************************************)
(* README: when the pool is stopped it waits for the end of all threads;   *)
(* comment of the destructor: all of them are told.                        *)
(***************************************************************************)
StoppingEnds == pool = "stopping" ~> pool = "ended"

-----------------------------------------------------------------------------
(***************************************************************************)
(* Whatever the threads do, the pool is a queue whose jobs run once.       *)
(***************************************************************************)
Abstract == INSTANCE JobQueue WITH queue <- m_Jobs, running <- Running

ImplementsJobQueue == Abstract!Spec
=============================================================================
