-------------------------- MODULE ThreadPool_proofs --------------------------
(***************************************************************************)
(* Proofs about ThreadPool for every number of workers and calls.          *)
(***************************************************************************)
EXTENDS ThreadPool, FiniteSetTheorems, TLAPS

-----------------------------------------------------------------------------
(***************************************************************************)
(* What taking the head off a queue and adding an element do to its        *)
(* elements.                                                               *)
(***************************************************************************)
Elements(q) == {q[i] : i \in DOMAIN q}

NoRepeats(q) == \A i, j \in DOMAIN q : q[i] = q[j] => i = j

(* Taking the head off removes exactly that element. *)
LEMMA TailDropsHead ==
    ASSUME NEW S, NEW q \in Seq(S), q # <<>>, NoRepeats(q)
    PROVE  /\ Tail(q) \in Seq(S)
           /\ Elements(Tail(q)) = Elements(q) \ {Head(q)}
           /\ NoRepeats(Tail(q))
<1> DEFINE r == Tail(q)
<1>1. /\ Len(q) \in Nat \ {0} /\ Len(r) = Len(q) - 1 /\ r \in Seq(S)
      /\ DOMAIN q = 1 .. Len(q) /\ DOMAIN r = 1 .. (Len(q) - 1)
      /\ Head(q) = q[1]
  OBVIOUS
<1>2. \A i \in 1 .. (Len(q) - 1) : r[i] = q[i + 1] /\ i + 1 \in 1 .. Len(q)
  OBVIOUS
<1> HIDE DEF r
<1>3. ASSUME NEW x \in Elements(r) PROVE x \in Elements(q) \ {Head(q)}
  <2>1. PICK i \in 1 .. (Len(q) - 1) : x = r[i]
    BY <1>1 DEF Elements
  <2>2. x = q[i + 1] /\ i + 1 \in DOMAIN q /\ 1 \in DOMAIN q /\ i + 1 # 1
    BY <1>1, <1>2, <2>1
  <2>3. QED
    BY <1>1, <2>2 DEF Elements, NoRepeats
<1>4. ASSUME NEW x \in Elements(q) \ {Head(q)} PROVE x \in Elements(r)
  <2>1. PICK i \in 1 .. Len(q) : x = q[i]
    BY <1>1 DEF Elements
  <2>2. i - 1 \in 1 .. (Len(q) - 1)
    BY <1>1, <2>1
  <2>3. r[i - 1] = x
    BY <1>1, <1>2, <2>1, <2>2
  <2>4. QED
    BY <1>1, <2>2, <2>3 DEF Elements
<1>5. NoRepeats(r)
  BY <1>1, <1>2 DEF NoRepeats
<1>6. QED
  BY <1>1, <1>3, <1>4, <1>5 DEF r

(* Pushing adds exactly that element. *)
LEMMA AppendAddsElement ==
    ASSUME NEW S, NEW q \in Seq(S), NEW x \in S
    PROVE  /\ Append(q, x) \in Seq(S)
           /\ Elements(Append(q, x)) = Elements(q) \cup {x}
           /\ NoRepeats(q) /\ x \notin Elements(q) => NoRepeats(Append(q, x))
<1> DEFINE r == Append(q, x)
<1>1. /\ Len(q) \in Nat /\ Len(r) = Len(q) + 1 /\ r \in Seq(S)
      /\ DOMAIN q = 1 .. Len(q) /\ DOMAIN r = 1 .. (Len(q) + 1)
  OBVIOUS
<1>2. /\ \A i \in 1 .. Len(q) : r[i] = q[i] /\ i \in DOMAIN r
      /\ r[Len(q) + 1] = x /\ Len(q) + 1 \in DOMAIN r
  OBVIOUS
<1> HIDE DEF r
<1>3. ASSUME NEW y \in Elements(r) PROVE y \in Elements(q) \cup {x}
  <2>1. PICK i \in 1 .. (Len(q) + 1) : y = r[i]
    BY <1>1 DEF Elements
  <2>2. CASE i = Len(q) + 1
    BY <1>2, <2>1, <2>2
  <2>3. CASE i # Len(q) + 1
    <3>1. i \in 1 .. Len(q) /\ y = q[i]
      BY <1>1, <1>2, <2>1, <2>3
    <3>2. QED
      BY <1>1, <3>1 DEF Elements
  <2>4. QED
    BY <2>2, <2>3
<1>4. ASSUME NEW y \in Elements(q) \cup {x} PROVE y \in Elements(r)
  BY <1>1, <1>2 DEF Elements
<1>5. ASSUME NoRepeats(q), x \notin Elements(q) PROVE NoRepeats(r)
  <2>1. \A i \in 1 .. Len(q) : q[i] # x
    BY <1>1, <1>5 DEF Elements
  <2>2. QED
    BY <1>1, <1>2, <1>5, <2>1 DEF NoRepeats
<1>6. QED
  BY <1>1, <1>3, <1>4, <1>5 DEF r

-----------------------------------------------------------------------------
(***************************************************************************)
(* Jobs are at one place: once in the queue, or with one worker.           *)
(***************************************************************************)
JobsAtOnePlace ==
    /\ NoRepeats(m_Jobs)
    /\ Queued \cap Running = {}
    /\ \A w \in At("run") : job[w] \in Call
    /\ \A v, w \in At("run") : job[v] = job[w] => v = w

(***************************************************************************)
(* A worker that is about to sleep, or has returned, left no job behind.   *)
(***************************************************************************)
LeavesNothing == At("dozing") \cup At("returned") # {} => m_Jobs = <<>>

Stopping ==
    /\ m_StopAll <=> pool # "up"
    /\ At("returned") # {} => m_StopAll
    /\ pool = "ended" => At("returned") = Worker

PoolInv == TypeOK /\ JobsAtOnePlace /\ LeavesNothing /\ Stopping /\ SomebodyComes

-----------------------------------------------------------------------------
(* No action breaks the types. *)
LEMMA TypeStep == TypeOK /\ [Next]_vars => TypeOK'
<1> SUFFICES ASSUME TypeOK, [Next]_vars PROVE TypeOK'
  OBVIOUS
<1> USE DEF TypeOK, Goes, Locks
<1>1. ASSUME NEW c \in Call, EnqueueJob(c) PROVE TypeOK'
  BY <1>1, AppendAddsElement DEF EnqueueJob, Pushed
<1>2. ASSUME NEW c \in Call, NotifyOne(c) PROVE TypeOK'
  BY <1>2 DEF NotifyOne, WokenOne, At
<1>3. ASSUME NEW w \in Worker, TakeJob(w) PROVE TypeOK'
  BY <1>3 DEF TakeJob, Popped
<1>4. ASSUME NEW w \in Worker, FinishJob(w) PROVE TypeOK'
  BY <1>4 DEF FinishJob
<1>5. ASSUME NEW w \in Worker,
             Return(w) \/ FindNothing(w) \/ Sleep(w) \/ WakeUnasked(w)
      PROVE  TypeOK'
  BY <1>5 DEF Return, FindNothing, Sleep, WakeUnasked
<1>6. CASE Destructor
  BY <1>6 DEF Destructor, StopAll, NotifyAll, JoinAll
<1>7. CASE UNCHANGED vars
  BY <1>7 DEF vars
<1>8. QED
  BY <1>1, <1>2, <1>3, <1>4, <1>5, <1>6, <1>7 DEF Next, Start

(***************************************************************************)
(* The variables keep their types.                                         *)
(***************************************************************************)
THEOREM TypeCorrect == Spec => []TypeOK
<1>1. Init => TypeOK
  <2>1. <<>> \in Seq(Call)
    OBVIOUS
  <2>2. QED
    BY <2>1 DEF Init, TypeOK
<1>2. QED
  BY <1>1, TypeStep, PTL DEF Spec

-----------------------------------------------------------------------------
(* Counting workers and calls. *)

Notifying == {c \in Call : call[c] = "pushed"}

LEMMA Finite ==
    /\ \A place : IsFiniteSet(At(place)) /\ Cardinality(At(place)) \in Nat
    /\ IsFiniteSet(Notifying) /\ Cardinality(Notifying) \in Nat
<1>1. \A place : At(place) \in SUBSET Worker
  BY DEF At
<1>2. Notifying \in SUBSET Call
  BY DEF Notifying
<1>3. QED
  BY <1>1, <1>2, PoolAssumption, FS_Subset, FS_CardinalityType

LEMMA Moves ==
    ASSUME TypeOK, NEW w \in Worker, NEW place, Goes(w, place)
    PROVE  \A p : At(p)' = IF p = place THEN At(p) \cup {w} ELSE At(p) \ {w}
BY DEF TypeOK, Goes, At

(* A worker that comes to the check, or leaves it, changes their number by one. *)

LEMMA OneMore ==
    ASSUME TypeOK, NEW w \in Worker, worker[w] # "check", Goes(w, "check")
    PROVE  Cardinality(At("check")') = Cardinality(At("check")) + 1
<1>1. At("check")' = At("check") \cup {w} /\ w \notin At("check")
  BY Moves DEF At
<1>2. QED
  BY <1>1, Finite, FS_AddElement

LEMMA OneLess ==
    ASSUME TypeOK, NEW w \in Worker, worker[w] = "check",
           NEW place, place # "check", Goes(w, place)
    PROVE  Cardinality(At("check")') = Cardinality(At("check")) - 1
<1>1. At("check")' = At("check") \ {w} /\ w \in At("check")
  BY Moves DEF At
<1>2. QED
  BY <1>1, Finite, FS_RemoveElement

-----------------------------------------------------------------------------
(* Each part of the invariant is kept by every step. *)

LEMMA PlacesStep ==
    ASSUME PoolInv, [Next]_vars
    PROVE  LeavesNothing' /\ Stopping'
<1> USE DEF LeavesNothing, Stopping, Locks
<1>1. TypeOK /\ LeavesNothing /\ Stopping
  BY DEF PoolInv
<1>2. ASSUME NEW c \in Call, EnqueueJob(c) PROVE LeavesNothing' /\ Stopping'
  BY <1>1, <1>2 DEF EnqueueJob, JobMutexFree, At
<1>3. ASSUME NEW c \in Call, NotifyOne(c) PROVE LeavesNothing' /\ Stopping'
  <2>1. \A p \in {"dozing", "returned", "run"} : At(p)' = At(p)
    BY <1>1, <1>3 DEF NotifyOne, WokenOne, At, TypeOK
  <2>2. QED
    BY <1>1, <1>3, <2>1 DEF NotifyOne
<1>4. ASSUME NEW w \in Worker, TakeJob(w) PROVE LeavesNothing' /\ Stopping'
  BY <1>1, <1>4, Moves DEF TakeJob, At
<1>5. ASSUME NEW w \in Worker, FinishJob(w) PROVE LeavesNothing' /\ Stopping'
  BY <1>1, <1>5, Moves DEF FinishJob, At
<1>6. ASSUME NEW w \in Worker, Return(w) PROVE LeavesNothing' /\ Stopping'
  BY <1>1, <1>6, Moves DEF Return, MayReturn, At
<1>7. ASSUME NEW w \in Worker, FindNothing(w) \/ Sleep(w) \/ WakeUnasked(w)
      PROVE  LeavesNothing' /\ Stopping'
  <2>1. CASE FindNothing(w)
    <3>1. w \notin At("returned") /\ At("returned")' = At("returned") \ {w}
      BY <1>1, <2>1, Moves DEF FindNothing, At
    <3>2. QED
      BY <1>1, <2>1, <3>1 DEF FindNothing
  <2>2. CASE Sleep(w) \/ WakeUnasked(w)
    <3>1. /\ w \notin At("returned") /\ At("returned")' = At("returned") \ {w}
          /\ At("dozing")' = At("dozing") \ {w}
      <4>1. w \notin At("returned")
        BY <2>2 DEF Sleep, WakeUnasked, At
      <4>2. CASE Sleep(w)
        BY <1>1, <4>1, <4>2, Moves DEF Sleep
      <4>3. CASE WakeUnasked(w)
        BY <1>1, <4>1, <4>3, Moves DEF WakeUnasked
      <4>4. QED
        BY <2>2, <4>2, <4>3
    <3>2. QED
      BY <1>1, <2>2, <3>1 DEF Sleep, WakeUnasked
  <2>3. QED
    BY <1>7, <2>1, <2>2
<1>8. CASE StopAll \/ JoinAll
  BY <1>1, <1>8 DEF StopAll, JoinAll, At
<1>9. CASE NotifyAll
  <2>1. \A p \in {"dozing", "returned", "run"} : At(p)' = At(p)
    BY <1>1, <1>9 DEF NotifyAll, At, TypeOK
  <2>2. QED
    BY <1>1, <1>9, <2>1 DEF NotifyAll
<1>10. CASE UNCHANGED vars
  BY <1>1, <1>10 DEF vars, At
<1>11. QED
  BY <1>2, <1>3, <1>4, <1>5, <1>6, <1>7, <1>8, <1>9, <1>10 DEF Next, Start, Destructor

(***************************************************************************)
(* What a step does to the queue and to the running jobs: the steps of     *)
(* JobQueue.                                                               *)
(***************************************************************************)
Enqueues(c) ==
    /\ c \notin Queued \cup Running
    /\ m_Jobs' = Append(m_Jobs, c)
    /\ At("run")' = At("run") /\ UNCHANGED job

Starts(w) ==
    /\ m_Jobs # <<>>
    /\ m_Jobs' = Tail(m_Jobs)
    /\ w \notin At("run")
    /\ At("run")' = At("run") \cup {w}
    /\ job' = [job EXCEPT ![w] = Head(m_Jobs)]

Ends(w) ==
    /\ w \in At("run")
    /\ At("run")' = At("run") \ {w}
    /\ job' = [job EXCEPT ![w] = None]
    /\ UNCHANGED m_Jobs

Rests == UNCHANGED <<m_Jobs, job>> /\ At("run")' = At("run")

LEMMA StepsOfJobs ==
    ASSUME PoolInv, [Next]_vars
    PROVE  \/ \E c \in Call : Enqueues(c)
           \/ \E w \in Worker : Starts(w) \/ Ends(w)
           \/ Rests
<1> USE DEF Locks, Rests
<1>1. TypeOK
  BY DEF PoolInv
<1>2. ASSUME NEW c \in Call, EnqueueJob(c) PROVE Enqueues(c)
  BY <1>2 DEF EnqueueJob, Pushed, Enqueues, At
<1>3. ASSUME NEW c \in Call, NotifyOne(c) PROVE Rests
  BY <1>1, <1>3 DEF NotifyOne, WokenOne, At, TypeOK
<1>4. ASSUME NEW w \in Worker, TakeJob(w) PROVE Starts(w)
  BY <1>1, <1>4, Moves DEF TakeJob, Popped, Starts, At
<1>5. ASSUME NEW w \in Worker, FinishJob(w) PROVE Ends(w)
  BY <1>1, <1>5, Moves DEF FinishJob, Ends, At
<1>6. ASSUME NEW w \in Worker,
             Return(w) \/ FindNothing(w) \/ Sleep(w) \/ WakeUnasked(w)
      PROVE  Rests
  <2>1. CASE Return(w)
    BY <1>1, <2>1, Moves DEF Return, At
  <2>2. CASE FindNothing(w)
    BY <1>1, <2>2, Moves DEF FindNothing, At
  <2>3. CASE Sleep(w)
    BY <1>1, <2>3, Moves DEF Sleep, At
  <2>4. CASE WakeUnasked(w)
    BY <1>1, <2>4, Moves DEF WakeUnasked, At
  <2>5. QED
    BY <1>6, <2>1, <2>2, <2>3, <2>4
<1>7. CASE Destructor
  BY <1>1, <1>7 DEF Destructor, StopAll, NotifyAll, JoinAll, At, TypeOK
<1>8. CASE UNCHANGED vars
  BY <1>8 DEF vars, At
<1>9. QED
  BY <1>2, <1>3, <1>4, <1>5, <1>6, <1>7, <1>8 DEF Next, Start

LEMMA OnePlaceStep ==
    ASSUME PoolInv, [Next]_vars
    PROVE  /\ JobsAtOnePlace'
           /\ \A c \in Call : Enqueues(c) =>
                Queued' = Queued \cup {c} /\ Running' = Running
           /\ \A w \in Worker : Starts(w) =>
                /\ Head(m_Jobs) \in Queued /\ Queued' = Queued \ {Head(m_Jobs)}
                /\ Running' = Running \cup {Head(m_Jobs)}
           /\ \A w \in Worker : Ends(w) =>
                Queued' = Queued /\ job[w] \in Running /\ Running' = Running \ {job[w]}
           /\ Rests => Queued' = Queued /\ Running' = Running
<1>1. /\ m_Jobs \in Seq(Call) /\ job \in [Worker -> Call \cup {None}]
      /\ JobsAtOnePlace /\ Queued = Elements(m_Jobs)
      /\ Queued' = Elements(m_Jobs)' /\ At("run") \in SUBSET Worker
  BY DEF PoolInv, TypeOK, Queued, Elements, At
<1>2. ASSUME NEW c \in Call, Enqueues(c)
      PROVE  /\ JobsAtOnePlace'
             /\ Queued' = Queued \cup {c} /\ Running' = Running
  <2>1. Queued' = Queued \cup {c} /\ NoRepeats(m_Jobs')
    BY <1>1, <1>2, AppendAddsElement DEF Enqueues, JobsAtOnePlace
  <2>2. Running' = Running
    BY <1>2 DEF Enqueues, Running
  <2>3. QED
    BY <1>1, <1>2, <2>1, <2>2 DEF Enqueues, JobsAtOnePlace
<1>3. ASSUME NEW w \in Worker, Starts(w)
      PROVE  /\ JobsAtOnePlace'
             /\ Head(m_Jobs) \in Queued /\ Queued' = Queued \ {Head(m_Jobs)}
             /\ Running' = Running \cup {Head(m_Jobs)}
  <2>1. /\ Head(m_Jobs) \in Queued /\ Head(m_Jobs) \in Call
        /\ Queued' = Queued \ {Head(m_Jobs)} /\ NoRepeats(m_Jobs')
    <3>1. 1 \in DOMAIN m_Jobs /\ Head(m_Jobs) = m_Jobs[1] /\ Head(m_Jobs) \in Call
      BY <1>1, <1>3 DEF Starts
    <3>2. QED
      BY <1>1, <1>3, <3>1, TailDropsHead DEF Starts, JobsAtOnePlace, Elements
  <2>2. job'[w] = Head(m_Jobs) /\ \A v \in At("run") : v # w /\ job'[v] = job[v]
    BY <1>1, <1>3 DEF Starts
  <2>3. Running' = Running \cup {Head(m_Jobs)}
    BY <1>3, <2>2 DEF Starts, Running
  <2>4. \A v \in At("run") : job[v] \in Running
    BY DEF Running
  <2>5. \A v \in At("run") : job[v] # Head(m_Jobs)
    BY <1>1, <2>1, <2>4 DEF JobsAtOnePlace
  <2>6. \A v \in At("run")' : job'[v] \in Call
    BY <1>1, <1>3, <2>1, <2>2 DEF Starts, JobsAtOnePlace
  <2>7. \A u, v \in At("run")' : job'[u] = job'[v] => u = v
    BY <1>1, <1>3, <2>2, <2>5 DEF Starts, JobsAtOnePlace
  <2>8. Queued' \cap Running' = {}
    BY <1>1, <2>1, <2>3 DEF JobsAtOnePlace
  <2>9. QED
    BY <2>1, <2>3, <2>6, <2>7, <2>8 DEF JobsAtOnePlace
<1>4. ASSUME NEW w \in Worker, Ends(w)
      PROVE  /\ JobsAtOnePlace'
             /\ Queued' = Queued /\ job[w] \in Running /\ Running' = Running \ {job[w]}
  <2>1. Queued' = Queued /\ NoRepeats(m_Jobs')
    BY <1>1, <1>4 DEF Ends, Queued, JobsAtOnePlace
  <2>2. \A v \in At("run")' : v # w /\ v \in At("run") /\ job'[v] = job[v]
    BY <1>1, <1>4 DEF Ends
  <2>3. \A v \in At("run") \ {w} : job[v] # job[w] /\ job'[v] = job[v]
    BY <1>1, <1>4 DEF Ends, JobsAtOnePlace
  <2>4. Running' = Running \ {job[w]}
    BY <1>4, <2>3 DEF Ends, Running
  <2>5. job[w] \in Running
    BY <1>4 DEF Ends, Running
  <2>6. QED
    BY <1>1, <2>1, <2>2, <2>4, <2>5 DEF JobsAtOnePlace
<1>5. ASSUME Rests
      PROVE  JobsAtOnePlace' /\ Queued' = Queued /\ Running' = Running
  <2>1. Queued' = Queued /\ Running' = Running
    BY <1>5 DEF Rests, Queued, Running
  <2>2. QED
    BY <1>1, <1>5, <2>1 DEF Rests, JobsAtOnePlace
<1>6. QED
  BY <1>2, <1>3, <1>4, <1>5, StepsOfJobs

(***************************************************************************)
(* A push adds one job and one notification, a notification one awake      *)
(* worker, and a worker leaves the check with a job or after it saw none.  *)
(***************************************************************************)
LEMMA SomebodyComesStep ==
    ASSUME PoolInv, [Next]_vars
    PROVE  SomebodyComes'
<1> DEFINE free == Cardinality(At("check"))
           told == Cardinality(Notifying)
<1> SUFFICES ASSUME At("asleep")' # {}
             PROVE  Len(m_Jobs)' <= free' + told'
  BY DEF SomebodyComes, Notifying
<1>1. /\ TypeOK /\ LeavesNothing
      /\ free \in Nat /\ told \in Nat /\ Len(m_Jobs) \in Nat
      /\ At("asleep") # {} => Len(m_Jobs) <= free + told
  BY Finite DEF PoolInv, TypeOK, SomebodyComes, Notifying
<1>2. free' \in Nat /\ told' \in Nat
  <2>1. \A S \in SUBSET Worker : Cardinality(S) \in Nat
    BY PoolAssumption, FS_Subset, FS_CardinalityType
  <2>2. \A S \in SUBSET Call : Cardinality(S) \in Nat
    BY PoolAssumption, FS_Subset, FS_CardinalityType
  <2>3. At("check")' \in SUBSET Worker /\ Notifying' \in SUBSET Call
    BY DEF At, Notifying
  <2>4. QED
    BY <2>1, <2>2, <2>3
<1>3. m_Jobs' = <<>> => Len(m_Jobs)' <= free' + told'
  BY <1>2
<1>4. ASSUME NEW c \in Call, EnqueueJob(c) PROVE Len(m_Jobs)' <= free' + told'
  <2>1. Notifying' = Notifying \cup {c} /\ c \notin Notifying
    BY <1>1, <1>4 DEF EnqueueJob, Notifying, TypeOK
  <2>2. told' = told + 1
    BY <2>1, Finite, FS_AddElement
  <2>3. free' = free /\ At("asleep")' = At("asleep")
    BY <1>4 DEF EnqueueJob, At
  <2>4. Len(m_Jobs)' = Len(m_Jobs) + 1
    BY <1>1, <1>4 DEF EnqueueJob, Pushed, TypeOK
  <2>5. QED
    BY <1>1, <2>2, <2>3, <2>4
<1>5. ASSUME NEW c \in Call, NotifyOne(c) PROVE Len(m_Jobs)' <= free' + told'
  <2>1. Notifying' = Notifying \ {c} /\ c \in Notifying
    BY <1>1, <1>5 DEF NotifyOne, Notifying, TypeOK
  <2>2. told' = told - 1
    BY <2>1, Finite, FS_RemoveElement
  <2>3. At("asleep") # {}
    BY <1>5 DEF NotifyOne, WokenOne, At
  <2>4. PICK w \in At("asleep") : worker' = [worker EXCEPT ![w] = "check"]
    BY <1>5, <2>3 DEF NotifyOne, WokenOne
  <2>5. free' = free + 1
    BY <1>1, <2>4, OneMore DEF At, Goes
  <2>6. m_Jobs' = m_Jobs
    BY <1>5 DEF NotifyOne
  <2>7. QED
    BY <1>1, <2>2, <2>3, <2>5, <2>6
<1>6. ASSUME NEW w \in Worker, TakeJob(w) PROVE Len(m_Jobs)' <= free' + told'
  <2>1. free' = free - 1
    BY <1>1, <1>6, OneLess DEF TakeJob, Locks
  <2>2. told' = told /\ Len(m_Jobs)' = Len(m_Jobs) - 1
    BY <1>1, <1>6 DEF TakeJob, Popped, Notifying, TypeOK
  <2>3. At("asleep") # {}
    BY <1>1, <1>6, Moves DEF TakeJob, Locks, At
  <2>4. QED
    BY <1>1, <2>1, <2>2, <2>3
<1>7. ASSUME NEW w \in Worker, FinishJob(w) \/ WakeUnasked(w)
      PROVE  Len(m_Jobs)' <= free' + told'
  <2>1. Goes(w, "check") /\ worker[w] # "check" /\ m_Jobs' = m_Jobs /\ told' = told
    BY <1>7 DEF FinishJob, WakeUnasked, Notifying
  <2>2. free' = free + 1
    BY <1>1, <2>1, OneMore
  <2>3. At("asleep")' = At("asleep") \ {w}
    BY <1>1, <2>1, Moves
  <2>4. QED
    BY <1>1, <2>1, <2>2, <2>3
<1>8. ASSUME NEW w \in Worker, Return(w) \/ FindNothing(w) \/ Sleep(w)
      PROVE  m_Jobs' = <<>>
  BY <1>1, <1>8 DEF Return, MayReturn, FindNothing, Sleep, LeavesNothing, At
<1>9. CASE Destructor
  <2>1. ~NotifyAll
    BY DEF NotifyAll, At
  <2>2. UNCHANGED <<worker, m_Jobs, call>>
    BY <1>9, <2>1 DEF Destructor, StopAll, JoinAll
  <2>3. QED
    BY <1>1, <2>2 DEF At, Notifying
<1>10. CASE UNCHANGED vars
  BY <1>1, <1>10 DEF vars, At, Notifying
<1>11. QED
  BY <1>3, <1>4, <1>5, <1>6, <1>7, <1>8, <1>9, <1>10 DEF Next, Start

-----------------------------------------------------------------------------
(***************************************************************************)
(* At every point of EnqueueJob, Start and the destructor, the queue, the  *)
(* workers and the notifications agree.                                    *)
(***************************************************************************)
THEOREM Invariance == Spec => []PoolInv
<1>1. Init => PoolInv
  <2> SUFFICES ASSUME Init PROVE PoolInv
    OBVIOUS
  <2>1. \A p : p # "check" => At(p) = {}
    BY DEF Init, At
  <2>2. <<>> \in Seq(Call) /\ DOMAIN m_Jobs = {}
    BY DEF Init
  <2>3. TypeOK
    BY <2>2 DEF Init, TypeOK
  <2>4. JobsAtOnePlace
    BY <2>1, <2>2 DEF JobsAtOnePlace, NoRepeats, Running
  <2>5. QED
    BY <2>1, <2>3, <2>4 DEF Init, PoolInv, LeavesNothing, Stopping, SomebodyComes
<1>2. PoolInv /\ [Next]_vars => PoolInv'
  BY TypeStep, OnePlaceStep, PlacesStep, SomebodyComesStep DEF PoolInv
<1>3. QED
  BY <1>1, <1>2, PTL DEF Spec

(***************************************************************************)
(* notify_one after each push is enough: no job waits for a sleeping       *)
(* worker that nobody is about to wake.                                    *)
(***************************************************************************)
THEOREM NoWakeupIsLost == Spec => []SomebodyComes
<1>1. PoolInv => SomebodyComes
  BY DEF PoolInv
<1>2. QED
  BY <1>1, Invariance, PTL

(***************************************************************************)
(* When all workers are joined, all jobs have been run to their end.       *)
(***************************************************************************)
THEOREM DestructorDrains == Spec => []EndedIsDrained
<1>1. ASSUME PoolInv PROVE EndedIsDrained
  <2> SUFFICES ASSUME pool = "ended" PROVE m_Jobs = <<>> /\ Running = {}
    BY DEF EndedIsDrained
  <2>1. At("returned") = Worker
    BY <1>1 DEF PoolInv, Stopping
  <2>2. At("run") = {}
    BY <2>1 DEF At
  <2>3. m_Jobs = <<>>
    BY <1>1, <2>1, PoolAssumption DEF PoolInv, LeavesNothing
  <2>4. QED
    BY <2>2, <2>3 DEF Running
<1>2. QED
  BY <1>1, Invariance, PTL

(***************************************************************************)
(* The workers implement a queue whose jobs are started once, in order.    *)
(***************************************************************************)
THEOREM PoolImplementsJobQueue == Spec => ImplementsJobQueue
<1>1. Init => Abstract!Init
  BY DEF Init, Abstract!Init, Running, At
<1>2. PoolInv /\ [Next]_vars => [Abstract!Next]_(Abstract!vars)
  <2> SUFFICES ASSUME PoolInv, [Next]_vars PROVE [Abstract!Next]_(Abstract!vars)
    OBVIOUS
  <2>1. Abstract!Queued = Queued
    BY DEF Abstract!Queued, Queued
  <2>2. ASSUME NEW c \in Call, Enqueues(c) PROVE Abstract!Next
    <3>1. Abstract!Enqueue(c)
      BY <2>1, <2>2, OnePlaceStep DEF Enqueues, Abstract!Enqueue
    <3>2. QED
      BY <3>1 DEF Abstract!Next
  <2>3. ASSUME NEW w \in Worker, Starts(w) PROVE Abstract!Next
    <3>1. Head(m_Jobs) \notin Running
      BY <2>3, OnePlaceStep DEF PoolInv, JobsAtOnePlace
    <3>2. Abstract!Start
      BY <2>3, <3>1, OnePlaceStep DEF Starts, Abstract!Start
    <3>3. QED
      BY <3>2 DEF Abstract!Next
  <2>4. ASSUME NEW w \in Worker, Ends(w) PROVE Abstract!Next
    <3>1. job[w] \in Call
      BY <2>4 DEF Ends, PoolInv, JobsAtOnePlace
    <3>2. Abstract!Finish(job[w])
      BY <2>4, OnePlaceStep DEF Ends, Abstract!Finish
    <3>3. QED
      BY <3>1, <3>2 DEF Abstract!Next
  <2>5. ASSUME Rests PROVE UNCHANGED Abstract!vars
    BY <2>5, OnePlaceStep DEF Rests, Abstract!vars
  <2>6. QED
    BY <2>2, <2>3, <2>4, <2>5, StepsOfJobs
<1>3. QED
  BY <1>1, <1>2, Invariance, PTL DEF Spec, ImplementsJobQueue, Abstract!Spec
=============================================================================
