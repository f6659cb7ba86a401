---------------------------- MODULE RedisClient ----------------------------
(***************************************************************************)
(* CRedisClient: the threads of the server share one client and its pool   *)
(* of connections, and a thread of the client's own, the refresher, loads  *)
(* the pool anew when a command could not be sent.  Commands run under the *)
(* shared side of m_rwLock and the refresher under its exclusive side;     *)
(* pipelines are flushed under neither.                                    *)
(*                                                                         *)
(* The nodes of a cluster are taken as one server, which may answer that   *)
(* a slot has moved.  m_nSerTimeout is 0, as Redis has it unless it is     *)
(* configured otherwise: every command connects anew.                      *)
(***************************************************************************)
EXTENDS RedisReplies, FiniteSets

CONSTANTS
    Caller,      \* the threads that use the client
    Pipelining,  \* those that flush pipelines, the others execute commands
    Command,     \* the commands they use
    ConnNum      \* m_nConnNum, the connections of a full pool

ASSUME CallerAssumption == IsFiniteSet(Caller) /\ Pipelining \subseteq Caller
ASSUME CommandAssumption == Command \subseteq Interface
ASSUME ConnNumAssumption == ConnNum \in Nat \ {0}

VARIABLES
    m_bCluster,
    m_bValid,
    m_bExit,
    idle,       \* the length of m_queIdleConn
    call,       \* for each caller, where it is and with what
    thread,     \* where the refresher is
    destructor, \* where the destructor is
    up,         \* whether Redis answers
    overrun,    \* whether a pipeline was being flushed during a reload
    revived,    \* whether a reload set m_bValid after the destructor cleared it
    crashed     \* whether a server that was deleted has been used

client == <<m_bCluster, m_bValid, m_bExit>>
history == <<overrun, revived>>
vars == <<m_bCluster, m_bValid, m_bExit, idle, call, thread, destructor, up, overrun,
          revived, crashed>>

\* How often ConnRequest sends what it is given.
Tries(c) == IF c \in Pipelining THEN 1 ELSE 2

Away == [at |-> "away", command |-> "none", attempt |-> 0, sent |-> 0, executed |-> 0,
         result |-> RC_SUCCESS, reply |-> Nil, stale |-> FALSE]

\* In ServRequest, with a pointer to the server.
Using(c) == call[c].at \in {"matched", "holding"}

Holders == {c \in Caller : call[c].at = "holding"}

\* Who holds m_rwLock: the refresher in a reload, or the commands being sent.
Exclusive == thread \in {"reload", "fill"}

Shared == {c \in Caller \ Pipelining : Using(c)}

Flushing == {c \in Pipelining : Using(c)}

Init ==
    /\ m_bCluster \in BOOLEAN
    /\ m_bValid = TRUE
    /\ m_bExit = FALSE
    /\ idle \in 1..ConnNum
    /\ call = [c \in Caller |-> Away]
    /\ thread = "check"
    /\ destructor = "none"
    /\ up = TRUE
    /\ overrun = FALSE
    /\ revived = FALSE
    /\ crashed = FALSE

-----------------------------------------------------------------------------
(* The callers *)

Becomes(c, state) == call' = [call EXCEPT ![c] = state]

Goes(c, at) == Becomes(c, [call[c] EXCEPT !.at = at])

\* nRet, with which the attempt of c ends.
Ends(c, result) == Becomes(c, [call[c] EXCEPT !.at = "answered", !.result = result])

\* SimpleExecute takes the lock; FlushCommand does not.
FirstStep(c) == IF c \in Pipelining THEN "match" ELSE "lock"

Begins(c, command) == [Away EXCEPT !.at = FirstStep(c), !.command = command, !.attempt = 1]

Execute(c, command) ==
    /\ destructor = "none"
    /\ c \notin Pipelining
    /\ call[c] = Away
    /\ Becomes(c, IF m_bValid THEN Begins(c, command)
                  ELSE [Begins(c, command) EXCEPT !.at = "returning", !.result = RC_RQST_ERR])
    /\ UNCHANGED <<client, idle, thread, destructor, up, history, crashed>>

FlushPipeline(c, command) ==
    /\ destructor = "none"
    /\ c \in Pipelining
    /\ call[c] = Away
    /\ Becomes(c, Begins(c, command))
    /\ UNCHANGED <<client, idle, thread, destructor, up, history, crashed>>

MayLockShared == ~Exclusive

SimpleExecute(c) ==
    /\ call[c].at = "lock"
    /\ MayLockShared
    /\ IF m_bValid THEN Goes(c, "matched") ELSE Ends(c, RC_RQST_ERR)
    /\ UNCHANGED <<client, idle, thread, destructor, up, history, crashed>>

FlushCommand(c) ==
    /\ call[c].at = "match"
    /\ Goes(c, "matched")
    /\ UNCHANGED <<client, idle, thread, destructor, up, history, crashed>>

FetchConnection(c) ==
    /\ call[c].at = "matched"
    /\ ~call[c].stale
    /\ idle > 0
    /\ idle' = idle - 1
    /\ Goes(c, "holding")
    /\ UNCHANGED <<client, thread, destructor, up, history, crashed>>

\* RQST_RETRY_TIMES is over and no connection has been returned.
FindNoConnection(c) ==
    /\ call[c].at = "matched"
    /\ ~call[c].stale
    /\ idle = 0
    /\ Ends(c, RC_NO_RESOURCE)
    /\ UNCHANGED <<client, idle, thread, destructor, up, history, crashed>>

ReturnConnection(c) ==
    /\ call[c].at = "holding"
    /\ ~call[c].stale
    /\ idle' = idle + 1

\* The reply arrives, an error reply too: CmdRequest returns RC_SUCCESS.
GetReply(c, reply) ==
    /\ up
    /\ ReturnConnection(c)
    /\ Becomes(c, [call[c] EXCEPT !.at = "answered", !.result = RC_SUCCESS, !.reply = reply,
                                  !.executed = IF reply = Moved THEN @ ELSE @ + 1])
    /\ UNCHANGED <<client, thread, destructor, up, history, crashed>>

\* Without a reply Redis may have executed the command or not.
MayHaveExecuted(n) == IF up THEN {n, n + 1} ELSE {n}

GetNoReply(c) ==
    /\ ReturnConnection(c)
    /\ \E executed \in MayHaveExecuted(call[c].executed) :
           Becomes(c, [call[c] EXCEPT !.at = "answered", !.result = RC_RQST_ERR,
                                      !.executed = executed])
    /\ UNCHANGED <<client, thread, destructor, up, history, crashed>>

\* The clock has not gone on since the connection was made: it connects and
\* sends once more.
Resend(c) ==
    /\ call[c].at = "holding"
    /\ up
    /\ call[c].sent + 1 < Tries(c)
    /\ \E executed \in MayHaveExecuted(call[c].executed) :
           Becomes(c, [call[c] EXCEPT !.sent = @ + 1, !.executed = executed])
    /\ UNCHANGED <<client, idle, thread, destructor, up, history, crashed>>

UseDeletedServer(c) ==
    /\ Using(c)
    /\ call[c].stale
    /\ crashed' = TRUE
    /\ UNCHANGED <<client, idle, call, thread, destructor, up, history>>

-----------------------------------------------------------------------------
(* The second attempt *)

\* Mutant: every attempt that could not be sent is followed by another.
AsksEachTime(c) == call[c].result = RC_RQST_ERR

\* SimpleExecute returns RC_SUCCESS for every reply, so that it never returns
\* the RC_REPLY_ERR a moved slot is asked for with.
AsksForRefresh(c) ==
    /\ call[c].attempt = 1
    /\ \/ call[c].result = RC_RQST_ERR /\ (c \in Pipelining => m_bCluster)
       \/ c \notin Pipelining /\ m_bCluster
          /\ call[c].result = RC_REPLY_ERR /\ call[c].reply = Moved

Woken == IF thread = "waiting" THEN "woken" ELSE thread

WaitForRefresh(c) ==
    /\ call[c].at = "answered"
    /\ AsksForRefresh(c)
    /\ thread' = IF MayLockShared THEN Woken ELSE thread
    /\ Goes(c, "refresh")
    /\ UNCHANGED <<client, idle, destructor, up, history, crashed>>

Retry(c) ==
    /\ call[c].at = "refresh"
    /\ m_bValid
    /\ Becomes(c, [call[c] EXCEPT !.at = FirstStep(c), !.attempt = 2, !.sent = 0])
    /\ UNCHANGED <<client, idle, thread, destructor, up, history, crashed>>

\* WAIT_RETRY_TIMES is over.
GiveUp(c) ==
    /\ call[c].at = "refresh"
    /\ ~m_bValid
    /\ Goes(c, "returning")
    /\ UNCHANGED <<client, idle, thread, destructor, up, history, crashed>>

\* ExecuteImpl, or FetchReply for a pipeline, reads the reply.
Fetch(c) ==
    /\ call[c].at = "answered"
    /\ ~AsksForRefresh(c)
    /\ Becomes(c, [call[c] EXCEPT !.at = "returning",
                      !.result = IF @ = RC_SUCCESS
                                 THEN FetchResult(call[c].command, call[c].reply) ELSE @])
    /\ UNCHANGED <<client, idle, thread, destructor, up, history, crashed>>

Return(c) ==
    /\ call[c].at = "returning"
    /\ Becomes(c, Away)
    /\ UNCHANGED <<client, idle, thread, destructor, up, history, crashed>>

-----------------------------------------------------------------------------
(* The refresher, operator() *)

CheckExit ==
    /\ thread = "check"
    /\ thread' = IF m_bExit THEN "ended" ELSE "lock"
    /\ UNCHANGED <<client, idle, call, destructor, up, history, crashed>>

\* Mutant: the exclusive side does not wait for the shared one.
MayLockAmongReaders == ~Exclusive

MayLock == ~Exclusive /\ Shared = {}

\* Mutant: it waits without a look at m_bValid.
LockAndWait ==
    /\ thread = "lock"
    /\ MayLock
    /\ thread' = "waiting"
    /\ UNCHANGED <<client, idle, call, destructor, up, history, crashed>>

\* With the lock it sees whether to wait, which gives the lock back.
Lock ==
    /\ thread = "lock"
    /\ MayLock
    /\ thread' = IF m_bValid THEN "waiting" ELSE "reload"
    /\ UNCHANGED <<client, idle, call, destructor, up, history, crashed>>

WakeUnasked ==
    /\ thread = "waiting"
    /\ thread' = "woken"
    /\ UNCHANGED <<client, idle, call, destructor, up, history, crashed>>

Relock ==
    /\ thread = "woken"
    /\ MayLock
    /\ thread' = "reload"
    /\ UNCHANGED <<client, idle, call, destructor, up, history, crashed>>

\* The result of the reload, with which the refresher gives the lock back.
Loaded(valid) ==
    /\ m_bValid' = valid
    /\ revived' = (revived \/ (valid /\ destructor # "none"))
    /\ thread' = "check"
    /\ UNCHANGED <<m_bCluster, m_bExit>>

CleanConn ==
    /\ thread = "reload"
    /\ ~m_bCluster
    /\ idle' = 0
    /\ thread' = "fill"
    /\ overrun' = (overrun \/ Flushing # {})
    /\ UNCHANGED <<client, call, destructor, up, revived, crashed>>

\* Connections that cannot be made are left out.
Connected == IF up THEN 1..ConnNum ELSE {0}

Initialize ==
    /\ thread = "fill"
    /\ \E n \in Connected : idle' = idle + n
    /\ Loaded(idle' > 0)
    /\ overrun' = (overrun \/ Flushing # {})
    /\ UNCHANGED <<call, destructor, up, crashed>>

\* The slots are read over a connection of the old server, which is deleted
\* when the new one has connections.
LoadClusterSlots ==
    /\ thread = "reload"
    /\ m_bCluster
    /\ IF up /\ idle > 0
       THEN /\ idle' \in Connected
            /\ call' = [c \in Caller |-> [call[c] EXCEPT !.stale = Using(c)]]
            /\ overrun' = (overrun \/ Flushing # {})
            /\ Loaded(TRUE)
       ELSE /\ Loaded(FALSE)
            /\ UNCHANGED <<idle, call, overrun>>
    /\ UNCHANGED <<destructor, up, crashed>>

-----------------------------------------------------------------------------
(* The destructor, which runs when no caller is inside *)

Invalidate ==
    /\ destructor = "none"
    /\ \A c \in Caller : call[c] = Away
    /\ m_bValid' = FALSE
    /\ destructor' = "invalidated"
    /\ UNCHANGED <<m_bCluster, m_bExit, idle, call, thread, up, history, crashed>>

Exit ==
    /\ destructor = "invalidated"
    /\ m_bExit' = TRUE
    /\ destructor' = "exiting"
    /\ UNCHANGED <<m_bCluster, m_bValid, idle, call, thread, up, history, crashed>>

\* Mutant: the destructor notifies nobody.
NotifyNobody ==
    /\ destructor = "exiting"
    /\ MayLock
    /\ destructor' = "joining"
    /\ UNCHANGED <<client, idle, call, thread, up, history, crashed>>

NotifyAll ==
    /\ destructor = "exiting"
    /\ MayLock
    /\ thread' = Woken
    /\ destructor' = "joining"
    /\ UNCHANGED <<client, idle, call, up, history, crashed>>

Join ==
    /\ destructor = "joining"
    /\ thread = "ended"
    /\ idle' = 0
    /\ destructor' = "done"
    /\ UNCHANGED <<client, call, thread, up, history, crashed>>

\* Redis goes and comes.
Turn ==
    /\ up' = ~up
    /\ UNCHANGED <<client, idle, call, thread, destructor, history, crashed>>

-----------------------------------------------------------------------------
Attempt(c) ==
    \/ FlushCommand(c)
    \/ FetchConnection(c)
    \/ FindNoConnection(c)
    \/ \E reply \in Replies(call[c].command) \cup (IF m_bCluster THEN {Moved} ELSE {}) :
           GetReply(c, reply)
    \/ GetNoReply(c)

End(c) == WaitForRefresh(c) \/ Retry(c) \/ GiveUp(c) \/ Fetch(c) \/ Return(c)

Start(c) == \E command \in Command : Execute(c, command) \/ FlushPipeline(c, command)

Refresher ==
    \/ CheckExit \/ Lock \/ Relock
    \/ CleanConn \/ Initialize \/ LoadClusterSlots

Destructor == Exit \/ NotifyAll \/ Join

Next ==
    /\ ~crashed
    /\ \/ \E c \in Caller :
              \/ Start(c) \/ SimpleExecute(c) \/ Attempt(c) \/ Resend(c)
              \/ UseDeletedServer(c) \/ End(c)
       \/ Refresher \/ WakeUnasked
       \/ Invalidate \/ Destructor
       \/ Turn

Spec == Init /\ [][Next]_vars

(***************************************************************************)
(* A thread that can go on does.  Nobody has to call, the destructor need  *)
(* not start, Redis may be away for good, and no thread has to wake        *)
(* unasked.                                                                *)
(***************************************************************************)
FairSpec ==
    /\ Spec
    /\ \A c \in Caller : WF_vars(~crashed /\ (SimpleExecute(c) \/ Attempt(c) \/ End(c)))
    /\ WF_vars(~crashed /\ Refresher)
    /\ WF_vars(~crashed /\ Destructor)

-----------------------------------------------------------------------------
AnyReply == (UNION {Replies(command) : command \in Command}) \cup {Moved, Nil}

CallState ==
    [at : {"away", "lock", "match", "matched", "holding", "answered", "refresh", "returning"},
     command : Command \cup {"none"}, attempt : 0..2, sent : 0..1, executed : Nat,
     result : Int, reply : AnyReply, stale : BOOLEAN]

TypeOK ==
    /\ m_bCluster \in BOOLEAN /\ m_bValid \in BOOLEAN /\ m_bExit \in BOOLEAN
    /\ idle \in Nat
    /\ call \in [Caller -> CallState]
    /\ thread \in {"check", "lock", "waiting", "woken", "reload", "fill", "ended"}
    /\ destructor \in {"none", "invalidated", "exiting", "joining", "done"}
    /\ up \in BOOLEAN /\ overrun \in BOOLEAN /\ revived \in BOOLEAN /\ crashed \in BOOLEAN

(***************************************************************************)
(* m_rwLock keeps the reload apart from the commands: unless a pipeline    *)
(* was being flushed meanwhile, no deleted server is used and there are    *)
(* never more connections than m_nConnNum.                                 *)
(***************************************************************************)
ReloadIsExclusive ==
    ~overrun => ~crashed /\ idle + Cardinality(Holders) <= ConnNum

(***************************************************************************)
(* However often connections and attempts are repeated, Redis executes a   *)
(* command four times at most and a pipeline twice; a result that is no    *)
(* error comes of a command that was executed, and the lack of a           *)
(* connection in the first attempt means that it was not.                  *)
(***************************************************************************)
AnswersAreHonest ==
    \A c \in Caller :
        /\ call[c].executed <= Tries(c) * call[c].attempt
        /\ call[c].at = "returning" =>
              /\ call[c].result >= RC_SUCCESS => call[c].executed >= 1
              /\ call[c].result = RC_NO_RESOURCE /\ call[c].attempt = 1
                     => call[c].executed = 0

(***************************************************************************)
(* After an outage the refresher makes the client valid again, if no       *)
(* pipeline keeps the connections from it.                                 *)
(***************************************************************************)
RefreshRecovers ==
    <>[](up /\ Flushing = {}) => []<>(m_bValid \/ destructor # "none" \/ crashed)

(***************************************************************************)
(* The destructor ends, wherever the refresher is when it begins; but if a *)
(* reload ends between its two assignments, which leaves the refresher     *)
(* waiting for a notification that is over.                                *)
(***************************************************************************)
DestructorEnds == destructor # "none" ~> destructor = "done" \/ revived \/ crashed
=============================================================================
