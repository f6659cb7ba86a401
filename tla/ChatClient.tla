----------------------------- MODULE ChatClient -----------------------------
(***************************************************************************)
(* The client's end of a connection: the console thread, which logs in in  *)
(* StartChatClient, waits to be verified and sends what is typed, and the  *)
(* thread that runs the io_context, whose handlers read.                   *)
(*                                                                         *)
(* A second login is possible after the input of the first has ended.  It  *)
(* finds what the first one left: m_IsVerified still TRUE and an           *)
(* io_context that has stopped and is never restarted.                     *)
(***************************************************************************)
EXTENDS ByteStream

CONSTANTS
    Leftover,       \* the empty line that "cin >>" leaves to the first getline
    Line,           \* what the user may type
    MaxLines,       \* bound on the lines of one login
    MaxLogins       \* bound on the logins

ASSUME ChatClientAssumption ==
    /\ {Leftover} \cup Line \subseteq Message
    /\ MaxLines \in Nat /\ MaxLogins \in Nat

VARIABLES
    console,        \* where the console thread is
    logins,         \* logins begun
    m_IsVerified,   \* of Client, what the console thread waits for
    m_VerificationCallback,  \* whether it is set
    connecting,     \* async_connect is under way
    ioThread,       \* m_Thread
    stopped,        \* the io_context ran out of work once
    shown           \* history: the messages OnMessage got

clientVars == <<console, logins, m_IsVerified, m_VerificationCallback,
                connecting, ioThread, stopped, shown>>

ClientTypeOK ==
    /\ console \in {"menu", "connected", "idsent", "threaded", "waiting", "chat",
                    "joining", "exited"}
    /\ logins \in 0..MaxLogins
    /\ m_IsVerified \in BOOLEAN
    /\ m_VerificationCallback \in BOOLEAN
    /\ connecting \in BOOLEAN
    /\ ioThread \in {"none", "running", "ended"}
    /\ stopped \in BOOLEAN
    /\ shown \in Seq(Message)

ClientInit ==
    /\ console = "menu"
    /\ logins = 0
    /\ m_IsVerified = FALSE
    /\ m_VerificationCallback = FALSE
    /\ connecting = FALSE
    /\ ioThread = "none"
    /\ stopped = FALSE
    /\ shown = <<>>

ConsoleGoes(from, to) == console = from /\ console' = to

-----------------------------------------------------------------------------
(* The console thread *)

\* Connect on a socket that was never closed fails and leaves it as it is.
Reconnects == socket # "up"

\* The streams of a new connection are empty.
Connect ==
    /\ ConsoleGoes("menu", "connected")
    /\ logins < MaxLogins
    /\ logins' = logins + 1
    /\ connecting' = TRUE
    /\ IF Reconnects
         THEN /\ socket' = "connecting"
              /\ writes' = [e \in End |-> <<>>]
              /\ wire' = [e \in End |-> <<>>]
              /\ reader' = [e \in End |-> Off]
              /\ sent' = [e \in End |-> <<>>]
              /\ overlapped' = [e \in End |-> FALSE]
              /\ shown' = <<>>
              /\ UNCHANGED m_Writebuf
         ELSE UNCHANGED <<streamVars, shown>>
    /\ UNCHANGED <<m_IsVerified, m_VerificationCallback, ioThread, stopped>>

SendSessionId ==
    /\ ConsoleGoes("connected", "idsent")
    /\ AsyncWrite("client", Login)
    /\ UNCHANGED <<logins, m_IsVerified, m_VerificationCallback, connecting,
                   ioThread, stopped, shown>>

\* run() of a stopped io_context returns at once.
StartThread ==
    /\ ConsoleGoes("idsent", "threaded")
    /\ ioThread' = IF stopped THEN "ended" ELSE "running"
    /\ UNCHANGED <<logins, m_IsVerified, m_VerificationCallback, connecting, stopped, shown>>
    /\ UNCHANGED streamVars

SetVerificationCallback ==
    /\ ConsoleGoes("threaded", "waiting")
    /\ m_VerificationCallback' = TRUE
    /\ UNCHANGED <<logins, m_IsVerified, connecting, ioThread, stopped, shown>>
    /\ UNCHANGED streamVars

StopWaiting ==
    /\ ConsoleGoes("waiting", "chat")
    /\ m_IsVerified
    /\ UNCHANGED <<logins, m_IsVerified, m_VerificationCallback, connecting,
                   ioThread, stopped, shown>>
    /\ UNCHANGED streamVars

LinesSent == SelectSeq(sent["client"], LAMBDA m : m # Login)

\* Nothing of a line that is no valid command is sent.
ChatLoop ==
    /\ console = "chat"
    /\ Len(LinesSent) < MaxLines
    /\ \E m \in IF LinesSent = <<>> THEN {Leftover} ELSE Line : AsyncWrite("client", m)
    /\ UNCHANGED clientVars

InputEnds ==
    /\ ConsoleGoes("chat", "joining")
    /\ UNCHANGED <<logins, m_IsVerified, m_VerificationCallback, connecting,
                   ioThread, stopped, shown>>
    /\ UNCHANGED streamVars

JoinThread ==
    /\ ConsoleGoes("joining", "menu")
    /\ ioThread = "ended"
    /\ ioThread' = "none"
    /\ UNCHANGED <<logins, m_IsVerified, m_VerificationCallback, connecting, stopped, shown>>
    /\ UNCHANGED streamVars

-----------------------------------------------------------------------------
(* The handlers, on m_Thread *)

\* The last line of every handler below: it leaves the console thread alone.
KeepsConsole ==
    UNCHANGED <<logins, m_VerificationCallback, stopped, ioThread>>

OnConnect ==
    /\ ioThread = "running" /\ connecting /\ socket \in {"up", "broken"}
    /\ connecting' = FALSE
    /\ reader' = [reader EXCEPT !["client"] = ReadHeader]
    /\ KeepsConsole
    /\ UNCHANGED <<socket, m_Writebuf, writes, wire, sent, overlapped>>
    /\ UNCHANGED <<console, m_IsVerified, shown>>

\* exit(1)
OnConnectError ==
    /\ ioThread = "running" /\ connecting /\ socket = "closed"
    /\ connecting' = FALSE
    /\ console' = "exited"
    /\ KeepsConsole
    /\ UNCHANGED <<m_IsVerified, shown>>
    /\ UNCHANGED streamVars

\* A header that announces nothing ends the reading.
ClientReadsHeader ==
    /\ ioThread = "running"
    /\ reader["client"].at = "header"
    /\ \E p \in NextPiece("client") :
        /\ AnnouncesBody(p)
        /\ LET bodySize == ClientBodySize(p.bytes)
           IN  Reads("client", IF bodySize > 0 THEN ReadBody(bodySize) ELSE Off)
    /\ UNCHANGED clientVars

\* Mutant: the callback does not set what the console thread waits for.
OnMessageUnnoticed(m) ==
    /\ shown' = Append(shown, m)
    /\ UNCHANGED m_IsVerified

\* Of all messages only LOGIN_MESSAGE changes state: SetVerified calls the
\* callback if there is one.
OnMessage(m) ==
    /\ shown' = Append(shown, m)
    /\ m_IsVerified' = (m_IsVerified \/ (m = Answer /\ m_VerificationCallback))

\* A message that cannot be parsed ends the reading.
ClientReadsBody ==
    /\ ioThread = "running"
    /\ reader["client"].at = "body"
    /\ \E p \in NextPiece("client") :
        /\ FillsBody("client", p)
        /\ IF p.bytes = Garbage
             THEN Reads("client", Off) /\ UNCHANGED <<shown, m_IsVerified>>
             ELSE Reads("client", ReadHeader) /\ OnMessage(p.bytes)
    /\ KeepsConsole
    /\ UNCHANGED <<console, connecting>>

\* m_Socket.close(): what was still being written fails too.
ClientReadFails ==
    /\ ioThread = "running"
    /\ ReadFails("client")
    /\ UNCHANGED clientVars

\* OnWrite only logs.
ClientWriteFails ==
    /\ WriteFails("client")
    /\ UNCHANGED clientVars

ClientLosesFraming ==
    /\ ioThread = "running"
    /\ LosesFraming("client")
    /\ UNCHANGED clientVars

\* No operation is under way: run() returns and the io_context has stopped.
RunReturns ==
    /\ ioThread = "running"
    /\ ~connecting /\ reader["client"] = Off /\ writes["client"] = <<>>
    /\ ioThread' = "ended"
    /\ stopped' = TRUE
    /\ UNCHANGED <<console, logins, m_IsVerified, m_VerificationCallback, connecting, shown>>
    /\ UNCHANGED streamVars
=============================================================================
