----------------------------- MODULE Connection -----------------------------
(***************************************************************************)
(* A chat client, its session in the server and the connection between     *)
(* them, from the login to the last message.                               *)
(***************************************************************************)
EXTENDS UserSession, ChatClient

vars == <<streamVars, clientVars, sessionVars>>

TypeOK == StreamTypeOK /\ ClientTypeOK /\ SessionTypeOK

Init == StreamInit /\ ClientInit /\ SessionInit

\* The io thread of the server process and its network are up.
ServerUp == drainer # "crashed"

\* The operating systems' part of a connection.
Establish ==
    /\ socket = "connecting" /\ ServerUp
    /\ socket' = "up"
    /\ UNCHANGED <<m_Writebuf, writes, wire, reader, sent, overlapped>>
    /\ UNCHANGED <<clientVars, sessionVars>>

Refuse ==
    /\ socket = "connecting"
    /\ socket' = "closed"
    /\ UNCHANGED <<m_Writebuf, writes, wire, reader, sent, overlapped>>
    /\ UNCHANGED <<clientVars, sessionVars>>

Transmits(e) == Transmit(e) /\ UNCHANGED <<clientVars, sessionVars>>

Breaks == Break /\ UNCHANGED <<clientVars, sessionVars>>

\* A new connection has a new session; the one before is not followed further.
NewSession ==
    /\ session' = "none" /\ m_IsActive' = TRUE
    /\ queue' = [i \in 1..2 |-> <<>>] /\ m_InputQueue' = 1
    /\ pushing' = NoPush
    /\ drainer' = IF ServerUp THEN "idle" ELSE drainer
    /\ posted' = <<>> /\ arrived' = <<>> /\ taken' = <<>>
    /\ raced' = FALSE

Connects == Connect /\ IF Reconnects THEN NewSession ELSE UNCHANGED sessionVars

ConsoleStep ==
    /\ \/ SendSessionId \/ StartThread \/ SetVerificationCallback
       \/ StopWaiting \/ ChatLoop \/ InputEnds \/ JoinThread
    /\ UNCHANGED sessionVars

HandlerStep ==
    /\ console # "exited"
    /\ \/ OnConnect \/ OnConnectError \/ ClientReadsHeader \/ ClientReadsBody
       \/ ClientReadFails \/ ClientWriteFails \/ ClientLosesFraming \/ RunReturns
    /\ UNCHANGED sessionVars

IoThreadStep ==
    /\ \/ Start \/ ServerReadsHeader
       \/ BeginPush \/ EndPush
       \/ SessionReadFails \/ SessionWriteFails
       \/ RunPosted \/ SessionLosesFraming
    /\ UNCHANGED clientVars

ServerThreadStep ==
    /\ LookForMessage \/ TakeMessage
    /\ UNCHANGED clientVars

Next ==
    \/ Establish \/ Refuse \/ Breaks
    \/ \E e \in End : Transmits(e)
    \/ Connects \/ ConsoleStep \/ HandlerStep
    \/ IoThreadStep \/ ServerThreadStep
    \/ OtherUserSpeaks /\ UNCHANGED clientVars

Spec == Init /\ [][Next]_vars

\* Threads keep running and the network delivers; nothing makes the user type,
\* other users speak or the connection break.
FairSpec ==
    /\ Spec
    /\ WF_vars(Establish)
    /\ \A e \in End : WF_vars(Transmits(e))
    /\ WF_vars(ConsoleStep /\ console \notin {"chat", "joining"})
    /\ WF_vars(HandlerStep)
    /\ WF_vars(IoThreadStep)
    /\ WF_vars(ServerThreadStep)

-----------------------------------------------------------------------------
(* Properties *)

Received(e) == IF e = "client" THEN shown ELSE arrived

\* As long as no async_write of an end begins while another of it is under way
\* (AsyncWrite of UserSession.cpp:167 and ChatClient.cpp:323 share one buffer),
\* the other end keeps its place in the stream and gets the messages whole, in
\* order and once.
IntactUnlessOverlapped ==
    \A e \in End :
        ~overlapped[e] =>
            /\ reader[Other(e)] # Lost
            /\ IsPrefix(Received(Other(e)), sent[e])

\* The two queues and their swap (UserSession.cpp:85-117) behave as one queue:
\* also a push that goes to the output queue, because its pointer was read
\* before the swap, keeps the order, unless both threads were at it at once.
QueuesKeepOrder ==
    ~raced =>
        taken \o queue[3 - m_InputQueue] \o queue[m_InputQueue]
              \o (IF pushing = NoPush THEN <<>> ELSE <<pushing.message>>)
            = arrived

\* On the first login the user gets to chat only after the server has verified
\* the session, whatever the order of the four threads (Client.cpp:147-150).
FirstChatIsVerified ==
    (console = "chat" /\ logins = 1) => session = "verified"

\* What was sent over a connection that lasts is all taken by the server thread,
\* which polls and finds it in whichever queue (UserSession.cpp:85-117, 229).
SentIsTaken ==
    taken # sent["client"]
        ~> taken = sent["client"] \/ raced \/ overlapped["client"] \/ socket # "up"

\* If the callback is set before the server's answer is read, the console
\* thread stops to wait (Client.cpp:138-151), or the connection is gone.
AnswerIsNoticed ==
    (console = "waiting" /\ session = "verified" /\ shown = <<>>)
        ~> console # "waiting" \/ socket # "up" \/ overlapped["server"] \/ raced
=============================================================================
