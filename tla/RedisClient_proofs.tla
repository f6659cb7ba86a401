------------------------- MODULE RedisClient_proofs -------------------------
(***************************************************************************)
(* Theorems about RedisClient: what m_rwLock keeps apart and what the      *)
(* retries may do, for any callers, commands and size of the pool.         *)
(***************************************************************************)
EXTENDS RedisClient, FiniteSetTheorems, TLAPS

(* A reload has the lock alone. *)
LockInv == Exclusive => Shared = {}

(* As long as no pipeline met a reload: no server is used that was deleted, *)
(* and between CleanConn and Initialize there is no connection at all.      *)
PoolInv ==
    ~overrun =>
        /\ ~crashed
        /\ \A c \in Caller : ~call[c].stale
        /\ idle + Cardinality(Holders) <= ConnNum
        /\ thread = "fill" => idle = 0 /\ Holders = {}

(* How often a command was executed, from where its call is. *)
CallInv(c, r) ==
    /\ r.at # "away" => r.command \in Command
    /\ r.at = "match" => c \in Pipelining
    /\ r.at \in {"lock", "match", "matched"} => r.sent = 0
    /\ r.sent + 1 <= Tries(c)
    /\ r.at = "away" => r.executed = 0
    /\ r.at \in {"lock", "match", "matched", "holding"} =>
          r.attempt >= 1 /\ r.executed <= Tries(c) * (r.attempt - 1) + r.sent
    /\ r.executed <= Tries(c) * r.attempt
    /\ r.at = "answered" =>
          /\ r.result \in {RC_SUCCESS, RC_RQST_ERR, RC_NO_RESOURCE}
          /\ r.result = RC_SUCCESS /\ r.reply # Moved => r.executed >= 1
          /\ r.result = RC_NO_RESOURCE /\ r.attempt = 1 => r.executed = 0
    /\ r.at = "refresh" => r.attempt = 1 /\ r.result = RC_RQST_ERR
    /\ r.at = "returning" =>
          /\ r.result >= RC_SUCCESS => r.executed >= 1
          /\ r.result = RC_NO_RESOURCE /\ r.attempt = 1 => r.executed = 0

AllCalls == \A c \in Caller : CallInv(c, call[c])

IInv == TypeOK /\ LockInv /\ PoolInv /\ AllCalls

-----------------------------------------------------------------------------
(* What the fetch functions return *)

LEMMA ReadOfType == \A command \in Interface : ReadOf(command) \in Read
<1>1. \A command \in Interface : \E read \in Read : command \in Reading(read)
  BY Zenon DEF Interface
<1>2. QED
  BY <1>1, Zenon DEF ReadOf

LEMMA ReadCases ==
    \A read \in Read : read \in {"number", "text", "ok", "texts", "pairs", "success"}
  BY DEF Read, Generic

(* A reply is read as one of four results, a moved slot as an error. *)
LEMMA FetchResults ==
    ASSUME NEW command \in Interface, NEW reply
    PROVE  /\ FetchResult(command, reply)
                  \in {RC_SUCCESS, RC_OBJ_NOT_EXIST, RC_OBJ_EXIST, RC_REPLY_ERR}
           /\ reply = Moved => FetchResult(command, reply) = RC_REPLY_ERR
<1> DEFINE read == ReadOf(command)
<1>1. read \in {"number", "text", "ok", "texts", "pairs", "success"}
  BY ReadOfType, ReadCases, Zenon
<1> HIDE DEF read
<1>2. FetchInteger(reply) \in {RC_SUCCESS, RC_OBJ_NOT_EXIST, RC_REPLY_ERR}
  BY DEF FetchInteger
<1>3. /\ FetchString(reply) \in {RC_SUCCESS, RC_REPLY_ERR}
      /\ FetchStringArray(reply) \in {RC_SUCCESS, RC_REPLY_ERR}
      /\ FetchMap(reply) \in {RC_SUCCESS, RC_REPLY_ERR}
  BY DEF FetchString, FetchStringArray, FetchMap
<1>4. reply = Moved => /\ FetchInteger(reply) = RC_REPLY_ERR
                       /\ FetchString(reply) = RC_REPLY_ERR
                       /\ FetchStringArray(reply) = RC_REPLY_ERR
                       /\ FetchMap(reply) = RC_REPLY_ERR
  BY DEF FetchInteger, FetchString, FetchStringArray, FetchMap, Moved
<1>5. StuResConv(FetchString(reply), reply) \in {RC_SUCCESS, RC_REPLY_ERR}
  BY <1>3 DEF StuResConv
<1>6. reply = Moved => StuResConv(FetchString(reply), reply) = RC_REPLY_ERR
  BY <1>4 DEF StuResConv, RC_SUCCESS, RC_REPLY_ERR
<1>7. IntResConv(command, FetchInteger(reply), reply)
          \in {RC_SUCCESS, RC_OBJ_NOT_EXIST, RC_OBJ_EXIST, RC_REPLY_ERR}
  BY <1>2 DEF IntResConv
<1>8. reply = Moved => IntResConv(command, FetchInteger(reply), reply) = RC_REPLY_ERR
  BY <1>4 DEF IntResConv, RC_SUCCESS, RC_REPLY_ERR
<1>9. QED
  BY <1>1, <1>2, <1>3, <1>4, <1>5, <1>6, <1>7, <1>8 DEF FetchResult, read

-----------------------------------------------------------------------------
(* Types *)

LEMMA AwayType == Away \in CallState /\ Nil \in AnyReply
<1>1. Nil \in AnyReply
  BY Zenon DEF AnyReply
<1>2. RC_SUCCESS \in Int
  BY DEF RC_SUCCESS
<1>3. QED
  BY <1>1, <1>2 DEF Away, CallState

LEMMA TypeInit == Init => TypeOK /\ AllCalls
<1> SUFFICES ASSUME Init PROVE TypeOK /\ AllCalls
  OBVIOUS
<1>1. Away \in CallState /\ Away.at = "away"
  BY AwayType DEF Away
<1>3. idle \in Nat
  BY ConnNumAssumption DEF Init
<1>4. TypeOK
  BY <1>1, <1>3 DEF Init, TypeOK
<1>5. ASSUME NEW c \in Caller PROVE CallInv(c, Away)
  BY DEF CallInv, Away, Tries
<1>6. QED
  BY <1>4, <1>5 DEF Init, AllCalls

(* The step of a caller: what its call becomes is of the type and keeps the *)
(* invariant of calls.                                                      *)
StepOf(c, r) ==
    /\ r \in CallState
    /\ CallInv(c, r)
    /\ call' = [call EXCEPT ![c] = r]

CallerStep(c) ==
    \/ Start(c) \/ SimpleExecute(c) \/ Attempt(c) \/ Resend(c)
    \/ UseDeletedServer(c) \/ End(c)

LEMMA CallerKeepsCalls ==
    ASSUME TypeOK, NEW c \in Caller, CallInv(c, call[c]), CallerStep(c)
    PROVE  \E r \in CallState : StepOf(c, r)
<1> DEFINE r == call[c]
<1>1. /\ r \in CallState
      /\ r.at \in {"away", "lock", "match", "matched", "holding", "answered", "refresh",
                   "returning"}
      /\ r.command \in Command \cup {"none"} /\ r.attempt \in 0..2 /\ r.sent \in 0..1
      /\ r.executed \in Nat /\ r.result \in Int /\ r.reply \in AnyReply /\ r.stale \in BOOLEAN
  BY DEF TypeOK, CallState
<1>2. CallInv(c, r)
  OBVIOUS
<1>3. call \in [Caller -> CallState]
  BY DEF TypeOK
<1>4. Tries(c) \in 1..2 /\ Tries(c) * 1 = Tries(c) /\ Tries(c) * 0 = 0
  BY DEF Tries
<1>c. /\ RC_SUCCESS = 0 /\ RC_RQST_ERR = -3 /\ RC_NO_RESOURCE = -4
  BY DEF RC_SUCCESS, RC_RQST_ERR, RC_NO_RESOURCE
<1>d. /\ RC_SUCCESS \in Int /\ RC_RQST_ERR \in Int /\ RC_NO_RESOURCE \in Int
      /\ 1 \in 0..2 /\ 2 \in 0..2 /\ 0 \in 0..1 /\ 0 \in Nat
  BY DEF RC_SUCCESS, RC_RQST_ERR, RC_NO_RESOURCE
<1> DEFINE Good(s) == s \in CallState /\ CallInv(c, s)
<1>5. ASSUME NEW s, Good(s), Becomes(c, s) PROVE \E t \in CallState : StepOf(c, t)
  BY <1>5 DEF Becomes, StepOf
<1>6. CASE UNCHANGED call
  BY <1>1, <1>2, <1>3, <1>6 DEF StepOf
<1>7. ASSUME NEW command \in Command, Execute(c, command) \/ FlushPipeline(c, command)
      PROVE  \E t \in CallState : StepOf(c, t)
  <2> DEFINE begun == Begins(c, command)
             refused == [begun EXCEPT !.at = "returning", !.result = RC_RQST_ERR]
  <2>1. FirstStep(c) \in {"lock", "match"} /\ (FirstStep(c) = "match" => c \in Pipelining)
    BY DEF FirstStep
  <2>2. /\ Away \in CallState /\ Away.sent = 0 /\ Away.executed = 0
    BY AwayType DEF Away
  <2>3. /\ begun \in CallState
        /\ begun.at = FirstStep(c) /\ begun.command = command /\ begun.attempt = 1
        /\ begun.sent = 0 /\ begun.executed = 0
    BY <1>d, <2>1, <2>2 DEF Begins, CallState
  <2> HIDE DEF begun
  <2>4. CallInv(c, begun)
    BY <1>4, <2>1, <2>3 DEF CallInv
  <2>5. /\ refused \in CallState
        /\ refused.at = "returning" /\ refused.command = command /\ refused.attempt = 1
        /\ refused.sent = 0 /\ refused.executed = 0 /\ refused.result = RC_RQST_ERR
    BY <1>d, <2>3 DEF CallState
  <2> HIDE DEF refused
  <2>7. CallInv(c, refused)
    BY <1>c, <1>4, <2>5 DEF CallInv
  <2>8. Becomes(c, begun) \/ Becomes(c, refused)
    BY <1>7 DEF Execute, FlushPipeline, begun, refused
  <2>9. QED
    BY <1>5, <2>3, <2>4, <2>5, <2>7, <2>8
<1>8. CASE SimpleExecute(c)
  <2> DEFINE s == [r EXCEPT !.at = "matched"]
             e == [r EXCEPT !.at = "answered", !.result = RC_RQST_ERR]
  <2>1. (Becomes(c, s) \/ Becomes(c, e)) /\ r.at = "lock"
    BY <1>8 DEF SimpleExecute, Goes, Ends
  <2>2. s \in CallState /\ e \in CallState
    BY <1>1, <1>d DEF CallState
  <2>3. CallInv(c, s)
    BY <1>1, <1>2, <2>1 DEF CallInv
  <2>4. CallInv(c, e)
    BY <1>1, <1>2, <1>c, <2>1 DEF CallInv
  <2>5. QED
    BY <1>5, <2>1, <2>2, <2>3, <2>4
<1>9. CASE FlushCommand(c)
  <2> DEFINE s == [r EXCEPT !.at = "matched"]
  <2>1. Becomes(c, s) /\ r.at = "match"
    BY <1>9 DEF FlushCommand, Goes
  <2>2. s \in CallState
    BY <1>1, <1>d DEF CallState
  <2>3. CallInv(c, s)
    BY <1>1, <1>2, <1>4, <1>c, <2>1 DEF CallInv
  <2>4. QED
    BY <1>5, <2>1, <2>2, <2>3
<1>10. CASE FetchConnection(c)
  <2> DEFINE s == [r EXCEPT !.at = "holding"]
  <2>1. Becomes(c, s) /\ r.at = "matched"
    BY <1>10 DEF FetchConnection, Goes
  <2>2. s \in CallState
    BY <1>1, <1>d DEF CallState
  <2>3. CallInv(c, s)
    BY <1>1, <1>2, <1>4, <1>c, <2>1 DEF CallInv
  <2>4. QED
    BY <1>5, <2>1, <2>2, <2>3
<1>11. CASE FindNoConnection(c)
  <2> DEFINE s == [r EXCEPT !.at = "answered", !.result = RC_NO_RESOURCE]
  <2>1. Becomes(c, s) /\ r.at = "matched"
    BY <1>11 DEF FindNoConnection, Ends
  <2>2. s \in CallState
    BY <1>1, <1>d DEF CallState
  <2>3. CallInv(c, s)
    BY <1>1, <1>2, <1>4, <1>c, <2>1 DEF CallInv
  <2>4. QED
    BY <1>5, <2>1, <2>2, <2>3
<1>12. ASSUME NEW reply \in Replies(r.command) \cup (IF m_bCluster THEN {Moved} ELSE {}),
              GetReply(c, reply)
       PROVE  \E t \in CallState : StepOf(c, t)
  <2> DEFINE n == IF reply = Moved THEN r.executed ELSE r.executed + 1
             s == [r EXCEPT !.at = "answered", !.result = RC_SUCCESS, !.reply = reply,
                            !.executed = n]
  <2>1. Becomes(c, s) /\ r.at = "holding"
    BY <1>12 DEF GetReply, ReturnConnection
  <2>2. r.command \in Command
    BY <1>2, <2>1 DEF CallInv
  <2>3. reply \in AnyReply
    BY <1>12, <2>2 DEF AnyReply
  <2>4. n \in Nat /\ n <= r.executed + 1 /\ (reply # Moved => n >= 1)
    BY <1>1
  <2> HIDE DEF n
  <2>5. s \in CallState
    BY <1>1, <1>d, <2>3, <2>4 DEF CallState
  <2>6. CallInv(c, s)
    BY <1>1, <1>2, <1>4, <1>c, <2>1, <2>2, <2>4 DEF CallInv
  <2>7. QED
    BY <1>5, <2>1, <2>5, <2>6
<1>13. CASE GetNoReply(c)
  <2>1. PICK n \in MayHaveExecuted(r.executed) :
            Becomes(c, [r EXCEPT !.at = "answered", !.result = RC_RQST_ERR, !.executed = n])
    BY <1>13 DEF GetNoReply
  <2> DEFINE s == [r EXCEPT !.at = "answered", !.result = RC_RQST_ERR, !.executed = n]
  <2>2. r.at = "holding"
    BY <1>13 DEF GetNoReply, ReturnConnection
  <2>3. n \in Nat /\ n <= r.executed + 1
    BY <1>1 DEF MayHaveExecuted
  <2>4. s \in CallState
    BY <1>1, <1>d, <2>3 DEF CallState
  <2>5. CallInv(c, s)
    BY <1>1, <1>2, <1>4, <1>c, <2>2, <2>3 DEF CallInv
  <2>6. QED
    BY <1>5, <2>1, <2>4, <2>5
<1>14. CASE Resend(c)
  <2>1. PICK n \in MayHaveExecuted(r.executed) :
            Becomes(c, [r EXCEPT !.sent = r.sent + 1, !.executed = n])
    BY <1>14 DEF Resend
  <2> DEFINE s == [r EXCEPT !.sent = r.sent + 1, !.executed = n]
  <2>2. r.at = "holding" /\ r.sent + 1 < Tries(c)
    BY <1>14 DEF Resend
  <2>3. n \in Nat /\ n <= r.executed + 1
    BY <1>1 DEF MayHaveExecuted
  <2>4. s \in CallState
    <3>1. r.sent + 1 \in 0..1
      BY <1>1, <1>4, <2>2
    <3>2. QED
      BY <1>1, <2>3, <3>1 DEF CallState
  <2>5. CallInv(c, s)
    BY <1>1, <1>2, <1>4, <2>2, <2>3 DEF CallInv
  <2>6. QED
    BY <1>5, <2>1, <2>4, <2>5
<1>15. CASE UseDeletedServer(c)
  BY <1>6, <1>15 DEF UseDeletedServer
<1>16. CASE WaitForRefresh(c)
  <2> DEFINE s == [r EXCEPT !.at = "refresh"]
  <2>1. Becomes(c, s) /\ r.at = "answered" /\ AsksForRefresh(c)
    BY <1>16 DEF WaitForRefresh, Goes
  <2>2. r.attempt = 1 /\ r.result = RC_RQST_ERR
    BY <1>2, <1>c, <2>1 DEF AsksForRefresh, CallInv, RC_REPLY_ERR
  <2>3. s \in CallState
    BY <1>1 DEF CallState
  <2>4. CallInv(c, s)
    BY <1>1, <1>2, <2>1, <2>2 DEF CallInv
  <2>5. QED
    BY <1>5, <2>1, <2>3, <2>4
<1>17. CASE Retry(c)
  <2> DEFINE s == [r EXCEPT !.at = FirstStep(c), !.attempt = 2, !.sent = 0]
  <2>1. Becomes(c, s) /\ r.at = "refresh"
    BY <1>17 DEF Retry
  <2>2. FirstStep(c) \in {"lock", "match"} /\ (FirstStep(c) = "match" => c \in Pipelining)
    BY DEF FirstStep
  <2>3. s \in CallState
    BY <1>1, <1>d, <2>2 DEF CallState
  <2>4. CallInv(c, s)
    <3>1. r.attempt = 1 /\ r.executed <= Tries(c) * 1 /\ r.command \in Command
      BY <1>2, <2>1 DEF CallInv
    <3>2. s.executed = r.executed /\ s.sent = 0 /\ s.attempt = 2 /\ s.at \in {"lock", "match"}
          /\ s.command = r.command /\ (s.at = "match" => c \in Pipelining)
      BY <1>1, <2>2 DEF CallState
    <3>3. r.executed <= Tries(c) * (2 - 1) + 0 /\ r.executed <= Tries(c) * 2
      BY <1>1, <1>4, <3>1
    <3> HIDE DEF s
    <3>4. QED
      BY <1>4, <3>1, <3>2, <3>3 DEF CallInv
  <2>5. QED
    BY <1>5, <2>1, <2>3, <2>4
<1>18. CASE GiveUp(c)
  <2> DEFINE s == [r EXCEPT !.at = "returning"]
  <2>1. Becomes(c, s) /\ r.at = "refresh"
    BY <1>18 DEF GiveUp, Goes
  <2>2. s \in CallState
    BY <1>1 DEF CallState
  <2>3. CallInv(c, s)
    BY <1>1, <1>2, <1>c, <2>1 DEF CallInv
  <2>4. QED
    BY <1>5, <2>1, <2>2, <2>3
<1>19. CASE Fetch(c)
  <2> DEFINE result == IF r.result = RC_SUCCESS THEN FetchResult(r.command, r.reply)
                       ELSE r.result
             s == [r EXCEPT !.at = "returning", !.result = result]
  <2>1. Becomes(c, s) /\ r.at = "answered"
    BY <1>19 DEF Fetch
  <2>2. r.command \in Command /\ r.command \in Interface
    BY <1>2, <2>1, CommandAssumption DEF CallInv
  <2>3. /\ FetchResult(r.command, r.reply) \in {0, 3, 2, -2}
        /\ r.reply = Moved => FetchResult(r.command, r.reply) = -2
    BY <2>2, FetchResults DEF RC_SUCCESS, RC_OBJ_NOT_EXIST, RC_OBJ_EXIST, RC_REPLY_ERR
  <2>4. /\ result \in Int
        /\ result >= 0 => r.result = 0 /\ r.reply # Moved
        /\ result = -4 => r.result = -4
    BY <1>1, <1>2, <1>c, <2>1, <2>3 DEF CallInv
  <2> HIDE DEF result
  <2>5. s \in CallState
    BY <1>1, <2>4 DEF CallState
  <2>6. CallInv(c, s)
    BY <1>1, <1>2, <1>c, <2>1, <2>4 DEF CallInv
  <2>7. QED
    BY <1>5, <2>1, <2>5, <2>6
<1>20. CASE Return(c)
  <2>1. Becomes(c, Away)
    BY <1>20 DEF Return
  <2>2. CallInv(c, Away)
    BY DEF CallInv, Away, Tries
  <2>3. QED
    BY <1>5, <2>1, <2>2, AwayType
<1>21. QED
  BY <1>7, <1>8, <1>9, <1>10, <1>11, <1>12, <1>13, <1>14, <1>15, <1>16, <1>17, <1>18,
     <1>19, <1>20 DEF CallerStep, Start, Attempt, End

-----------------------------------------------------------------------------
(* What the step of a caller does to the pool *)

Takes(c) == idle > 0 /\ idle' = idle - 1 /\ call[c].at = "matched" /\ call'[c].at = "holding"

Gives(c) == idle' = idle + 1 /\ call[c].at = "holding" /\ call'[c].at = "answered"

Keeps(c) == idle' = idle /\ (call[c].at = "holding" <=> call'[c].at = "holding")

Effects(c) ==
    /\ call' = [call EXCEPT ![c] = call'[c]]
    /\ thread' \in {thread, Woken} /\ overrun' = overrun
    /\ call'[c].stale => call[c].stale
    /\ crashed' => crashed \/ call[c].stale
    /\ Keeps(c) \/ Gives(c) \/ Takes(c)
    /\ call'[c].at \in {"matched", "holding"} =>
          Using(c) \/ c \in Pipelining \/ ~Exclusive

LEMMA CallerEffects ==
    ASSUME TypeOK, NEW c \in Caller, CallInv(c, call[c]), CallerStep(c)
    PROVE  Effects(c)
<1> DEFINE r == call[c]
<1>1. call \in [Caller -> CallState] /\ r \in CallState
  BY DEF TypeOK
<1>2. ASSUME NEW s, Becomes(c, s), s.stale => r.stale, s.at \notin {"matched", "holding"},
             r.at # "holding",
             UNCHANGED <<idle, overrun, crashed>>, thread' \in {thread, Woken}
      PROVE  Effects(c)
  BY <1>1, <1>2 DEF Becomes, Effects, Keeps
<1>3. ASSUME NEW command \in Command, Execute(c, command) \/ FlushPipeline(c, command)
      PROVE  Effects(c)
  <2> DEFINE begun == Begins(c, command)
             refused == [begun EXCEPT !.at = "returning", !.result = RC_RQST_ERR]
  <2>1. r = Away /\ Away \in CallState /\ Away.at = "away" /\ Away.stale = FALSE
    BY <1>3, AwayType DEF Execute, FlushPipeline, Away
  <2>2. begun.stale = FALSE /\ begun.at \in {"lock", "match"}
        /\ refused.stale = FALSE /\ refused.at = "returning"
    BY <2>1 DEF Begins, FirstStep, CallState
  <2> HIDE DEF begun, refused
  <2>3. Becomes(c, begun) \/ Becomes(c, refused)
    BY <1>3 DEF Execute, FlushPipeline, begun, refused
  <2>4. UNCHANGED <<idle, overrun, crashed, thread>>
    BY <1>3 DEF Execute, FlushPipeline, history
  <2>5. QED
    BY <1>2, <2>1, <2>2, <2>3, <2>4
<1>4. CASE SimpleExecute(c)
  BY <1>1, <1>4 DEF SimpleExecute, MayLockShared, Goes, Ends, Becomes, Effects, Keeps,
     history, CallState
<1>5. CASE FlushCommand(c)
  <2>1. c \in Pipelining
    BY <1>5 DEF FlushCommand, CallInv
  <2>2. QED
    BY <1>1, <1>5, <2>1 DEF FlushCommand, Goes, Becomes, Effects, Keeps, history, CallState
<1>6. CASE FetchConnection(c)
  BY <1>1, <1>6 DEF FetchConnection, Goes, Becomes, Effects, Takes, Using, history, CallState
<1>7. CASE FindNoConnection(c)
  BY <1>1, <1>7 DEF FindNoConnection, Ends, Becomes, Effects, Keeps, history, CallState
<1>8. ASSUME NEW reply, GetReply(c, reply) PROVE Effects(c)
  BY <1>1, <1>8 DEF GetReply, ReturnConnection, Becomes, Effects, Gives, history, CallState
<1>9. CASE GetNoReply(c)
  BY <1>1, <1>9 DEF GetNoReply, ReturnConnection, Becomes, Effects, Gives, history, CallState
<1>10. CASE Resend(c)
  BY <1>1, <1>10 DEF Resend, Becomes, Effects, Keeps, Using, history, CallState
<1>11. CASE UseDeletedServer(c)
  <2>1. call' = call /\ idle' = idle /\ thread' = thread /\ overrun' = overrun
        /\ r.stale /\ Using(c)
    BY <1>11 DEF UseDeletedServer, history
  <2>2. call' = [call EXCEPT ![c] = call'[c]]
    BY <1>1, <2>1
  <2>3. QED
    BY <2>1, <2>2 DEF Effects, Keeps
<1>12. CASE WaitForRefresh(c)
  BY <1>1, <1>12 DEF WaitForRefresh, Goes, Becomes, Effects, Keeps, history, CallState
<1>13. CASE Retry(c)
  BY <1>1, <1>13 DEF Retry, FirstStep, Becomes, Effects, Keeps, history, CallState
<1>14. CASE GiveUp(c)
  BY <1>1, <1>14 DEF GiveUp, Goes, Becomes, Effects, Keeps, history, CallState
<1>15. CASE Fetch(c)
  BY <1>1, <1>15 DEF Fetch, Becomes, Effects, Keeps, history, CallState
<1>16. CASE Return(c)
  BY <1>1, <1>16, AwayType DEF Return, Becomes, Effects, Keeps, history, CallState, Away
<1>17. QED
  BY <1>3, <1>4, <1>5, <1>6, <1>7, <1>8, <1>9, <1>10, <1>11, <1>12, <1>13, <1>14, <1>15,
     <1>16 DEF CallerStep, Start, Attempt, End

-----------------------------------------------------------------------------
(* Every step keeps the types and the invariant of the calls. *)

LEMMA CallsNext ==
    ASSUME TypeOK, AllCalls, [Next]_vars
    PROVE  call' \in [Caller -> CallState] /\ AllCalls'
<1>1. call \in [Caller -> CallState]
  BY DEF TypeOK
<1>2. CASE UNCHANGED call
  BY <1>1, <1>2 DEF AllCalls, CallInv
<1>3. ASSUME NEW c \in Caller, CallerStep(c)
      PROVE  call' \in [Caller -> CallState] /\ AllCalls'
  <2>1. PICK r \in CallState : StepOf(c, r)
    BY <1>3, CallerKeepsCalls DEF AllCalls
  <2>2. call' \in [Caller -> CallState]
    BY <1>1, <2>1 DEF StepOf
  <2>3. ASSUME NEW d \in Caller PROVE CallInv(d, call'[d])
    <3>1. CASE d = c
      BY <1>1, <2>1, <3>1 DEF StepOf
    <3>2. CASE d # c
      <4>1. call'[d] = call[d]
        BY <1>1, <2>1, <3>2 DEF StepOf
      <4>2. QED
        BY <4>1 DEF AllCalls
    <3>3. QED
      BY <3>1, <3>2
  <2>4. QED
    BY <2>2, <2>3 DEF AllCalls
<1>4. CASE LoadClusterSlots
  <2>1. CASE call' = [c \in Caller |-> [call[c] EXCEPT !.stale = Using(c)]]
    <3>1. \A c \in Caller : Using(c) \in BOOLEAN
      BY DEF Using
    <3>2. call' \in [Caller -> CallState]
      BY <1>1, <2>1, <3>1 DEF CallState
    <3>3. ASSUME NEW c \in Caller PROVE CallInv(c, call'[c])
      <4> DEFINE r == call[c]
                 s == call'[c]
      <4>1. CallInv(c, r)
        BY DEF AllCalls
      <4>2. /\ s.at = r.at /\ s.command = r.command /\ s.attempt = r.attempt
            /\ s.sent = r.sent /\ s.executed = r.executed /\ s.result = r.result
            /\ s.reply = r.reply
        BY <1>1, <2>1 DEF CallState
      <4> HIDE DEF r, s
      <4>3. CallInv(c, s)
        BY <4>1, <4>2 DEF CallInv
      <4>4. QED
        BY <4>3 DEF s
    <3>4. QED
      BY <3>2, <3>3 DEF AllCalls
  <2>2. QED
    BY <1>2, <1>4, <2>1 DEF LoadClusterSlots
<1>5. CASE \/ CheckExit \/ Lock \/ Relock \/ CleanConn \/ Initialize \/ WakeUnasked
           \/ Invalidate \/ Destructor \/ Turn
  BY <1>2, <1>5 DEF CheckExit, Lock, Relock, CleanConn, Initialize, WakeUnasked, Invalidate,
     Destructor, Exit, NotifyAll, Join, Turn
<1>6. CASE UNCHANGED vars
  BY <1>2, <1>6 DEF vars
<1>7. QED
  BY <1>3, <1>4, <1>5, <1>6 DEF Next, CallerStep, Refresher

LEMMA TypeNext ==
    ASSUME TypeOK, AllCalls, [Next]_vars
    PROVE  TypeOK'
<1> DEFINE Rest == /\ m_bCluster' \in BOOLEAN /\ m_bValid' \in BOOLEAN /\ m_bExit' \in BOOLEAN
                   /\ idle' \in Nat
                   /\ thread' \in {"check", "lock", "waiting", "woken", "reload", "fill", "ended"}
                   /\ destructor' \in {"none", "invalidated", "exiting", "joining", "done"}
                   /\ up' \in BOOLEAN /\ overrun' \in BOOLEAN /\ revived' \in BOOLEAN
                   /\ crashed' \in BOOLEAN
<1> SUFFICES Rest
  BY CallsNext DEF TypeOK
<1>1. ASSUME NEW c \in Caller, CallerStep(c) PROVE Rest
  <2>1. Effects(c)
    BY <1>1, CallerEffects DEF AllCalls
  <2>2. idle' \in Nat
    BY <2>1 DEF Effects, Keeps, Gives, Takes, TypeOK
  <2>3. thread' \in {"check", "lock", "waiting", "woken", "reload", "fill", "ended"}
    BY <2>1 DEF Effects, Woken, TypeOK
  <2>4. UNCHANGED <<client, destructor, up, history>> /\ crashed' \in BOOLEAN
    BY <1>1, Zenon DEF CallerStep, Start, Attempt, End, Execute, FlushPipeline, SimpleExecute,
       FlushCommand, FetchConnection, FindNoConnection, GetReply, GetNoReply, Resend,
       UseDeletedServer, WaitForRefresh, Retry, GiveUp, Fetch, Return, TypeOK
  <2>5. QED
    BY <2>2, <2>3, <2>4 DEF TypeOK, client, history
<1>2. ConnNum \in Nat /\ Connected \subseteq Nat
  BY ConnNumAssumption DEF Connected
<1>3. CASE CheckExit \/ Lock \/ Relock \/ WakeUnasked
  BY <1>3 DEF CheckExit, Lock, Relock, WakeUnasked, TypeOK, client, history
<1>4. CASE CleanConn
  BY <1>4 DEF CleanConn, TypeOK, client
<1>5. CASE Initialize
  <2>1. idle' \in Nat
    BY <1>2, <1>5 DEF Initialize, TypeOK
  <2>2. QED
    BY <1>5, <2>1 DEF Initialize, Loaded, TypeOK
<1>6. CASE LoadClusterSlots
  <2>1. idle' \in Nat
    BY <1>2, <1>6 DEF LoadClusterSlots, TypeOK
  <2>2. overrun' \in BOOLEAN
    BY <1>6 DEF LoadClusterSlots, TypeOK
  <2>3. Loaded(TRUE) \/ Loaded(FALSE)
    BY <1>6 DEF LoadClusterSlots
  <2>4. /\ m_bValid' \in BOOLEAN /\ revived' \in BOOLEAN /\ thread' = "check"
        /\ m_bCluster' = m_bCluster /\ m_bExit' = m_bExit
    BY <2>3 DEF Loaded, TypeOK
  <2>5. UNCHANGED <<destructor, up, crashed>>
    BY <1>6, Zenon DEF LoadClusterSlots
  <2>6. QED
    BY <2>1, <2>2, <2>4, <2>5 DEF TypeOK
<1>7. CASE Invalidate \/ Destructor
  <2>1. CASE Invalidate
    BY <2>1 DEF Invalidate, TypeOK, history
  <2>2. CASE Exit
    BY <2>2 DEF Exit, TypeOK, history
  <2>3. CASE NotifyAll
    BY <2>3 DEF NotifyAll, Woken, TypeOK, client, history
  <2>4. CASE Join
    BY <2>4 DEF Join, TypeOK, client, history
  <2>5. QED
    BY <1>7, <2>1, <2>2, <2>3, <2>4 DEF Destructor
<1>8. CASE Turn
  BY <1>8 DEF Turn, TypeOK, client, history
<1>9. CASE UNCHANGED vars
  BY <1>9 DEF vars, TypeOK
<1> HIDE DEF Rest
<1>10. QED
  BY <1>1, <1>3, <1>4, <1>5, <1>6, <1>7, <1>8, <1>9 DEF Next, CallerStep, Refresher

-----------------------------------------------------------------------------
(* The lock *)

LEMMA LockNext ==
    ASSUME TypeOK, AllCalls, LockInv, [Next]_vars
    PROVE  LockInv'
<1>1. call \in [Caller -> CallState]
  BY DEF TypeOK
<1>2. ASSUME NEW c \in Caller, CallerStep(c) PROVE LockInv'
  <2>1. Effects(c)
    BY <1>2, CallerEffects DEF AllCalls
  <2>2. Exclusive' <=> Exclusive
    BY <2>1 DEF Effects, Woken, Exclusive
  <2>3. SUFFICES ASSUME Exclusive, NEW d \in Caller, d \notin Pipelining,
                        call'[d].at \in {"matched", "holding"}
                 PROVE  FALSE
    BY <2>2 DEF LockInv, Shared, Using
  <2>4. ~Using(d)
    BY <2>3 DEF LockInv, Shared
  <2>5. CASE d = c
    BY <2>1, <2>3, <2>4, <2>5 DEF Effects
  <2>6. CASE d # c
    <3>1. call'[d] = call[d]
      BY <1>1, <2>1, <2>6 DEF Effects
    <3>2. QED
      BY <2>3, <2>4, <3>1 DEF Using
  <2>7. QED
    BY <2>5, <2>6
<1>3. CASE CheckExit \/ WakeUnasked
  BY <1>3 DEF CheckExit, WakeUnasked, LockInv, Exclusive
<1>4. CASE Lock \/ Relock
  BY <1>4 DEF Lock, Relock, MayLock, LockInv, Shared, Using
<1>5. CASE CleanConn
  BY <1>5 DEF CleanConn, LockInv, Exclusive, Shared, Using
<1>6. CASE Initialize \/ LoadClusterSlots
  BY <1>6 DEF Initialize, LoadClusterSlots, Loaded, LockInv, Exclusive
<1>7. CASE UNCHANGED call /\ (Exclusive' => Exclusive)
  BY <1>7 DEF LockInv, Shared, Using
<1>8. CASE Invalidate \/ Destructor \/ Turn
  BY <1>7, <1>8 DEF Invalidate, Destructor, Exit, NotifyAll, Woken, Join, Turn, Exclusive
<1>9. CASE UNCHANGED vars
  BY <1>7, <1>9 DEF vars, Exclusive
<1>10. QED
  BY <1>2, <1>3, <1>4, <1>5, <1>6, <1>8, <1>9 DEF Next, CallerStep, Refresher

-----------------------------------------------------------------------------
(* The pool *)

LEMMA HoldersAreFinite == IsFiniteSet(Holders) /\ Cardinality(Holders) \in Nat
<1>1. Holders \subseteq Caller
  BY DEF Holders
<1>2. QED
  BY <1>1, CallerAssumption, FS_Subset, FS_CardinalityType

(* With the lock and without a pipeline nobody holds a connection. *)
LEMMA NobodyHolds ==
    ASSUME LockInv, Exclusive, Flushing = {}
    PROVE  Holders = {} /\ \A c \in Caller : ~Using(c)
<1>1. \A c \in Caller : ~Using(c)
  BY DEF LockInv, Shared, Flushing
<1>2. QED
  BY <1>1 DEF Holders, Using

(* A caller takes a connection from the pool, gives one back, or neither. *)
LEMMA CallerKeepsPool ==
    ASSUME TypeOK, PoolInv, ~overrun, NEW c \in Caller, Effects(c)
    PROVE  PoolInv'
<1>1. call \in [Caller -> CallState] /\ call' = [call EXCEPT ![c] = call'[c]]
  BY DEF TypeOK, Effects
<1>2. /\ ~crashed /\ \A d \in Caller : ~call[d].stale
      /\ idle + Cardinality(Holders) <= ConnNum
      /\ thread = "fill" => idle = 0 /\ Holders = {}
  BY DEF PoolInv
<1>3. \A d \in Caller : d # c => call'[d] = call[d]
  BY <1>1
<1>4. /\ ~crashed' /\ \A d \in Caller : ~call'[d].stale
      /\ thread' = "fill" => thread = "fill"
  BY <1>2, <1>3 DEF Effects, Woken
<1>5. idle \in Nat /\ ConnNum \in Nat
  BY ConnNumAssumption DEF TypeOK
<1>6. CASE Keeps(c)
  <2>1. Holders' = Holders
    BY <1>3, <1>6 DEF Keeps, Holders
  <2>2. QED
    BY <1>2, <1>4, <1>6, <2>1 DEF Keeps, PoolInv
<1>7. CASE Takes(c)
  <2>1. Holders' = Holders \cup {c} /\ c \notin Holders
    BY <1>3, <1>7 DEF Takes, Holders
  <2>2. Cardinality(Holders') = Cardinality(Holders) + 1
    BY <2>1, HoldersAreFinite, FS_AddElement
  <2>3. idle' + Cardinality(Holders') <= ConnNum
    BY <1>2, <1>5, <1>7, <2>2, HoldersAreFinite DEF Takes
  <2>4. thread' # "fill"
    BY <1>2, <1>4, <1>7 DEF Takes
  <2>5. QED
    BY <1>4, <2>3, <2>4 DEF PoolInv
<1>8. CASE Gives(c)
  <2>1. Holders' = Holders \ {c} /\ c \in Holders
    BY <1>3, <1>8 DEF Gives, Holders
  <2>2. Cardinality(Holders') = Cardinality(Holders) - 1
    BY <2>1, HoldersAreFinite, FS_RemoveElement
  <2>3. idle' + Cardinality(Holders') <= ConnNum
    BY <1>2, <1>5, <1>8, <2>2, HoldersAreFinite DEF Gives
  <2>4. thread' # "fill"
    BY <1>2, <1>4, <2>1
  <2>5. QED
    BY <1>4, <2>3, <2>4 DEF PoolInv
<1>9. QED
  BY <1>6, <1>7, <1>8 DEF Effects

LEMMA PoolNext ==
    ASSUME TypeOK, AllCalls, LockInv, PoolInv, [Next]_vars
    PROVE  PoolInv'
<1> SUFFICES ASSUME ~overrun' PROVE PoolInv'
  BY DEF PoolInv
<1>1. idle \in Nat /\ ConnNum \in Nat /\ ConnNum >= 1
  BY ConnNumAssumption DEF TypeOK
<1>2. ASSUME ~overrun
      PROVE  /\ ~crashed /\ \A d \in Caller : ~call[d].stale
             /\ idle + Cardinality(Holders) <= ConnNum
             /\ thread = "fill" => idle = 0 /\ Holders = {}
  BY <1>2 DEF PoolInv
<1>3. Cardinality({}) = 0
  BY FS_EmptySet
<1>4. ASSUME NEW c \in Caller, CallerStep(c) PROVE PoolInv'
  <2>1. Effects(c)
    BY <1>4, CallerEffects DEF AllCalls
  <2>2. ~overrun
    BY <2>1 DEF Effects
  <2>3. QED
    BY <2>1, <2>2, CallerKeepsPool
<1>5. CASE /\ UNCHANGED <<idle, call, crashed, overrun>>
           /\ thread' = "fill" => thread = "fill"
  <2>1. Holders' = Holders
    BY <1>5 DEF Holders
  <2>2. QED
    BY <1>2, <1>5, <2>1 DEF PoolInv
<1>6. CASE CheckExit \/ Lock \/ Relock \/ WakeUnasked
  BY <1>5, <1>6 DEF CheckExit, Lock, Relock, WakeUnasked, history
<1>7. CASE CleanConn
  <2>1. ~overrun /\ Flushing = {} /\ Exclusive
    BY <1>7 DEF CleanConn, Exclusive
  <2>2. Holders = {} /\ Holders' = Holders
    BY <1>7, <2>1, NobodyHolds DEF CleanConn, Holders
  <2>3. idle' = 0 /\ crashed' = crashed /\ call' = call
    BY <1>7 DEF CleanConn
  <2>4. QED
    BY <1>1, <1>2, <1>3, <2>1, <2>2, <2>3 DEF PoolInv
<1>8. CASE Initialize
  <2>1. ~overrun /\ thread = "fill"
    BY <1>8 DEF Initialize
  <2>2. idle = 0 /\ Holders = {} /\ Holders' = Holders
    BY <1>2, <1>8, <2>1 DEF Initialize, Holders
  <2>3. idle' \in Nat /\ idle' <= ConnNum
    BY <1>1, <1>8, <2>2 DEF Initialize, Connected
  <2>4. thread' = "check" /\ crashed' = crashed /\ call' = call
    BY <1>8 DEF Initialize, Loaded
  <2>5. QED
    BY <1>1, <1>2, <1>3, <2>1, <2>2, <2>3, <2>4 DEF PoolInv
<1>9. CASE LoadClusterSlots
  <2>1. thread' = "check" /\ crashed' = crashed /\ Exclusive
    BY <1>9 DEF LoadClusterSlots, Loaded, Exclusive
  <2>2. CASE UNCHANGED <<idle, call, overrun>>
    BY <1>5, <2>1, <2>2
  <2>3. CASE /\ idle' \in Connected
             /\ call' = [c \in Caller |-> [call[c] EXCEPT !.stale = Using(c)]]
             /\ overrun' = (overrun \/ Flushing # {})
    <3>1. ~overrun /\ Flushing = {}
      BY <2>3
    <3>2. Holders = {} /\ \A c \in Caller : ~Using(c)
      BY <2>1, <3>1, NobodyHolds
    <3>3. call \in [Caller -> CallState]
      BY DEF TypeOK
    <3>4. \A c \in Caller : call'[c].at = call[c].at /\ call'[c].stale = Using(c)
      BY <2>3, <3>3 DEF CallState
    <3>5. Holders' = {} /\ \A c \in Caller : ~call'[c].stale
      BY <3>2, <3>4 DEF Holders
    <3>6. idle' \in Nat /\ idle' <= ConnNum
      BY <1>1, <2>3 DEF Connected
    <3>7. QED
      BY <1>1, <1>2, <1>3, <2>1, <3>1, <3>5, <3>6 DEF PoolInv
  <2>4. QED
    BY <1>9, <2>2, <2>3 DEF LoadClusterSlots
<1>10. CASE Join
  <2>1. ~overrun /\ idle' = 0 /\ UNCHANGED <<call, thread, crashed>>
    BY <1>10 DEF Join, history
  <2>2. Holders' = Holders
    BY <2>1 DEF Holders
  <2>3. QED
    BY <1>1, <1>2, <2>1, <2>2, HoldersAreFinite DEF PoolInv
<1>11. CASE Invalidate \/ Exit \/ NotifyAll \/ Turn
  BY <1>5, <1>11 DEF Invalidate, Exit, NotifyAll, Woken, Turn, history
<1>12. CASE UNCHANGED vars
  BY <1>5, <1>12 DEF vars
<1>13. QED
  BY <1>4, <1>6, <1>7, <1>8, <1>9, <1>10, <1>11, <1>12
     DEF Next, CallerStep, Refresher, Destructor

-----------------------------------------------------------------------------
LEMMA PoolInit == Init => LockInv /\ PoolInv
<1> SUFFICES ASSUME Init PROVE LockInv /\ PoolInv
  OBVIOUS
<1>1. Holders = {} /\ \A c \in Caller : ~call[c].stale
  BY DEF Init, Holders, Away
<1>2. Cardinality(Holders) = 0 /\ idle \in Nat /\ idle <= ConnNum
  BY <1>1, ConnNumAssumption, FS_EmptySet DEF Init
<1>3. QED
  BY <1>1, <1>2 DEF Init, LockInv, PoolInv, Exclusive

LEMMA Inductive == Spec => []IInv
<1>1. Init => IInv
  BY TypeInit, PoolInit DEF IInv
<1>2. IInv /\ [Next]_vars => IInv'
  BY TypeNext, CallsNext, LockNext, PoolNext DEF IInv
<1>3. QED
  BY <1>1, <1>2, PTL DEF Spec

(* Every variable of the client keeps its type, whoever calls. *)
THEOREM ClientTypes == Spec => []TypeOK
  BY Inductive, PTL DEF IInv

(* The reload of the refresher (RedisClient.cpp:943) and the commands of     *)
(* SimpleExecute do not overlap: whatever the number of callers and the size *)
(* of the pool, if no pipeline was being flushed during a reload, no server  *)
(* that was deleted is used and there are m_nConnNum connections at most.    *)
THEOREM ReloadExcludesCommands == Spec => []ReloadIsExclusive
<1>1. IInv => ReloadIsExclusive
  BY DEF IInv, PoolInv, ReloadIsExclusive
<1>2. QED
  BY <1>1, Inductive, PTL

(* What Execute and FetchReply return (RedisClient.cpp:1887, 861) says       *)
(* truly whether Redis executed the command, and a command is executed four  *)
(* times at most and a pipeline twice, for any callers and commands.         *)
THEOREM RetriesAreBounded == Spec => []AnswersAreHonest
<1>1. IInv => AnswersAreHonest
  BY DEF IInv, AllCalls, CallInv, AnswersAreHonest
<1>2. QED
  BY <1>1, Inductive, PTL
=============================================================================
