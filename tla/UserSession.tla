---------------------------- MODULE UserSession -----------------------------
(***************************************************************************)
(* The server's end of a connection: UserSession, whose handlers run on    *)
(* the io thread, and the server thread that takes its messages.           *)
(*                                                                         *)
(* ReadBody pushes to the queue m_InputQueue points to, without m_QueueMutex:*)
(* it reads the pointer (BeginPush) and appends later (EndPush).  The      *)
(* server thread takes from m_OutputQueue and swaps the two pointers when  *)
(* it is empty.  If it takes from the very queue an append is under way    *)
(* on, the outcome is undefined: the append may be lost or the process end.*)
(***************************************************************************)
EXTENDS ByteStream

CONSTANTS
    Empty,          \* the messages without content
    Chatter,        \* what other users' messages make the server send here
    MaxChatter      \* bound on those

ASSUME UserSessionAssumption ==
    /\ Empty \cup Chatter \subseteq Message
    /\ MaxChatter \in Nat

VARIABLES
    session,        \* whether the server has verified the user
    m_IsActive,
    queue,          \* m_MessageQueue1 and m_MessageQueue2
    m_InputQueue,   \* which of them is the input queue
    pushing,        \* the push under way: its queue and message
    drainer,        \* "taking": the server thread is about to take a message
    posted,         \* messages whose AsyncWrite is posted to the io thread
    arrived,        \* history: the messages ReadBody parsed
    taken,          \* history: the messages the server thread got
    raced           \* history: both threads were at one queue

queueVars == <<queue, m_InputQueue, pushing, drainer, arrived, taken, raced>>
sessionVars == <<session, m_IsActive, posted, queueVars>>

m_OutputQueue == 3 - m_InputQueue

NoPush == [into |-> 0, message |-> None]

SessionTypeOK ==
    /\ session \in {"none", "waiting", "verified"}
    /\ m_IsActive \in BOOLEAN
    /\ queue \in [1..2 -> Seq(Message)]
    /\ m_InputQueue \in 1..2
    /\ pushing \in [into : 0..2, message : Message \cup {None}]
    /\ drainer \in {"idle", "taking", "crashed"}
    /\ posted \in Seq(Message)
    /\ arrived \in Seq(Message) /\ taken \in Seq(Message)
    /\ raced \in BOOLEAN

SessionInit ==
    /\ session = "none"
    /\ m_IsActive = TRUE
    /\ queue = [i \in 1..2 |-> <<>>]
    /\ m_InputQueue = 1
    /\ pushing = NoPush
    /\ drainer = "idle"
    /\ posted = <<>>
    /\ arrived = <<>> /\ taken = <<>>
    /\ raced = FALSE

\* The io thread is in no handler.
IoThreadFree == pushing = NoPush /\ drainer # "crashed"

-----------------------------------------------------------------------------
(* The io thread *)

\* WaitForClientConnection and OnAccept: the session starts to read.
Start ==
    /\ IoThreadFree
    /\ socket = "up" /\ session = "none"
    /\ session' = "waiting"
    /\ reader' = [reader EXCEPT !["server"] = ReadHeader]
    /\ UNCHANGED <<socket, m_Writebuf, writes, wire, sent, overlapped>>
    /\ UNCHANGED <<m_IsActive, posted, queueVars>>

ServerReadsHeader ==
    /\ reader["server"].at = "header"
    /\ IoThreadFree
    /\ \E p \in NextPiece("server") :
        /\ AnnouncesBody(p)
        /\ Reads("server", ReadBody(ServerBodySize(p.bytes)))
    /\ UNCHANGED sessionVars

\* Mutant of the next definition: reading is not taken up again.
NothingAfterBody == Off

AfterBody == ReadHeader

\* A message that cannot be parsed is passed over, and reading goes on.
BeginPush ==
    /\ reader["server"].at = "body"
    /\ IoThreadFree
    /\ \E p \in NextPiece("server") :
        /\ FillsBody("server", p)
        /\ Reads("server", AfterBody)
        /\ IF p.bytes = Garbage
             THEN UNCHANGED <<pushing, arrived>>
             ELSE /\ pushing' = [into |-> m_InputQueue, message |-> p.bytes]
                  /\ arrived' = Append(arrived, p.bytes)
    /\ UNCHANGED <<session, m_IsActive, posted, queue, m_InputQueue, drainer, taken, raced>>

\* Mutant: a null pointer is pushed.
PushedNull == [queue EXCEPT ![pushing.into] = Append(@, None)]

Pushed == [queue EXCEPT ![pushing.into] = Append(@, pushing.message)]

\* The server thread is at the queue that is being pushed to.
SharesQueue == drainer = "taking" /\ pushing.into = m_OutputQueue

EndPush ==
    /\ pushing # NoPush /\ drainer # "crashed"
    /\ raced' = (raced \/ SharesQueue)
    /\ \/ queue' = Pushed
       \/ raced' /\ queue' = queue
    /\ pushing' = NoPush
    /\ UNCHANGED <<session, m_IsActive, posted, m_InputQueue, drainer, arrived, taken>>
    /\ UNCHANGED streamVars

\* HandleError, of a read or of a write.
SessionReadFails ==
    /\ IoThreadFree
    /\ ReadFails("server")
    /\ m_IsActive' = FALSE
    /\ UNCHANGED <<session, posted, queueVars>>

SessionWriteFails ==
    /\ IoThreadFree
    /\ WriteFails("server")
    /\ m_IsActive' = FALSE
    /\ UNCHANGED <<session, posted, queueVars>>

RunPosted ==
    /\ IoThreadFree
    /\ posted # <<>>
    /\ AsyncWrite("server", Head(posted))
    /\ posted' = Tail(posted)
    /\ UNCHANGED <<session, m_IsActive, queueVars>>

SessionLosesFraming ==
    /\ IoThreadFree
    /\ LosesFraming("server")
    /\ UNCHANGED sessionVars

-----------------------------------------------------------------------------
(* The server thread *)

\* Send of a handler, to this session.
Post(messages) == posted' = posted \o messages

ToTake == queue[m_OutputQueue]

\* Mutant: the output queue need not be empty.
MaySwapAnyTime == queue[m_InputQueue] # <<>>

MaySwap == ToTake = <<>> /\ queue[m_InputQueue] # <<>>

\* GetMessageInUserQueue up to its look at the front.
LookForMessage ==
    /\ drainer = "idle"
    /\ \/ MaySwap /\ m_InputQueue' = m_OutputQueue
       \/ ToTake # <<>> /\ UNCHANGED m_InputQueue
    /\ drainer' = "taking"
    /\ UNCHANGED <<session, m_IsActive, posted, queue, pushing, arrived, taken, raced>>
    /\ UNCHANGED streamVars

\* Mutant: a session that was not verified is answered too.
AnsweredAnyway(m) ==
    /\ UNCHANGED session
    /\ Post(<<Answer>>)

\* VerifyUser finds the key and the user, or it does not and nobody asks again;
\* a verified user's message may be answered with itself, if it is not empty.
Handled(m) ==
    \/ session = "waiting" /\ m = Login /\ session' = "verified" /\ Post(<<Answer>>)
    \/ session = "waiting" /\ UNCHANGED <<session, posted>>
    \/ session = "verified" /\ m \notin Empty /\ UNCHANGED session /\ Post(<<m>>)
    \/ session = "verified" /\ UNCHANGED <<session, posted>>

TakeMessage ==
    /\ drainer = "taking"
    /\ queue' = [queue EXCEPT ![m_OutputQueue] = Tail(@)]
    /\ taken' = Append(taken, Head(ToTake))
    /\ raced' = (raced \/ SharesQueue)
    /\ Handled(Head(ToTake))
    /\ \/ drainer' = "idle"
       \/ SharesQueue /\ drainer' = "crashed"
    /\ UNCHANGED <<m_IsActive, m_InputQueue, pushing, arrived>>
    /\ UNCHANGED streamVars

\* SendAllUsers and the other handlers, on behalf of other users.
OtherUserSpeaks ==
    /\ drainer # "crashed"
    /\ session = "verified" /\ m_IsActive
    /\ \E m \in Chatter :
        /\ Len(SelectSeq(sent["server"] \o posted, LAMBDA x : x = m)) < MaxChatter
        /\ Post(<<m>>)
    /\ UNCHANGED <<session, m_IsActive, queueVars>>
    /\ UNCHANGED streamVars
=============================================================================
