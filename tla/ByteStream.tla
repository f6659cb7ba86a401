----------------------------- MODULE ByteStream -----------------------------
(***************************************************************************)
(* The TCP connection between a chat client and its session, as both ends  *)
(* use it: AsyncWrite serialises into the one buffer m_Writebuf and starts *)
(* async_write on it, without waiting for the write before; the other end  *)
(* reads a header, then as many bytes as it announces.                     *)
(*                                                                         *)
(* The bytes of a frame travel as two pieces, header and body.  A piece is *)
(* taken from the buffer when it is transmitted: a write whose buffer was  *)
(* filled again in the meantime sends what is there then, or what its      *)
(* pointer finds after the vector moved (Garbage).                         *)
(***************************************************************************)
EXTENDS MessageFraming, SequencesExt

CONSTANTS
    Message,    \* the messages the ends exchange
    Size,       \* ByteSizeLong of each
    Login,      \* LOGIN_MESSAGE with the session id, from the client
    Answer,     \* LOGIN_MESSAGE from the server
    Garbage,    \* bytes that are neither a message nor its header
    None        \* no message

ASSUME ByteStreamAssumption ==
    /\ Size \in [Message -> MessageSize]
    /\ {Login, Answer} \subseteq Message
    /\ Garbage \notin Message \cup Header
    /\ None \notin Message \cup {Garbage}

VARIABLES
    socket,     \* the connection
    m_Writebuf, \* per end: what it serialised last
    writes,     \* per end: its async_writes under way
    wire,       \* per end: the pieces it sent and the other end has not read
    reader,     \* per end: what its pending async_read waits for
    sent,       \* per end, history: the messages given to async_write
    overlapped  \* per end, history: a write began before another had ended

streamVars == <<socket, m_Writebuf, writes, wire, reader, sent, overlapped>>

End == {"client", "server"}

Other(e) == IF e = "client" THEN "server" ELSE "client"

Bytes == Message \cup {Garbage}

Write == [size : MessageSize, next : {"header", "body"}, intact : BOOLEAN]

Piece ==
    [part : {"header"}, bytes : Header \cup {Garbage}]
        \cup [part : {"body"}, size : MessageSize, bytes : Bytes]

\* "off": no read is pending;  "lost": the next bytes are no frame's start.
Reader == [at : {"off", "header", "lost"}] \cup [at : {"body"}, size : Int]

Off == [at |-> "off"]
ReadHeader == [at |-> "header"]
ReadBody(bodySize) == [at |-> "body", size |-> bodySize]
Lost == [at |-> "lost"]

StreamTypeOK ==
    /\ socket \in {"closed", "connecting", "up", "broken"}
    /\ m_Writebuf \in [End -> Bytes]
    /\ writes \in [End -> Seq(Write)]
    /\ wire \in [End -> Seq(Piece)]
    /\ reader \in [End -> Reader]
    /\ sent \in [End -> Seq(Message)]
    /\ overlapped \in [End -> BOOLEAN]

StreamInit ==
    /\ socket = "closed"
    /\ m_Writebuf = [e \in End |-> Garbage]
    /\ writes = [e \in End |-> <<>>]
    /\ wire = [e \in End |-> <<>>]
    /\ reader = [e \in End |-> Off]
    /\ sent = [e \in End |-> <<>>]
    /\ overlapped = [e \in End |-> FALSE]

-----------------------------------------------------------------------------
(* Writing *)

SizeHeader(e, m) ==
    IF e = "server" THEN SetSizeToBufferHeader(Size[m]) ELSE SizeAsBytes(Size[m])

NewWrite(m) == [size |-> Size[m], next |-> "header", intact |-> TRUE]

Overwritten(ws) == [i \in DOMAIN ws |-> [ws[i] EXCEPT !.intact = FALSE]]

\* A write on a socket that is not connected fails, and nobody tries again.
AsyncWrite(e, m) ==
    /\ m_Writebuf' = [m_Writebuf EXCEPT ![e] = m]
    /\ IF socket = "up"
         THEN /\ writes' = [writes EXCEPT ![e] = Append(Overwritten(@), NewWrite(m))]
              /\ sent' = [sent EXCEPT ![e] = Append(@, m)]
              /\ overlapped' = [overlapped EXCEPT ![e] = @ \/ writes[e] # <<>>]
         ELSE /\ writes' = [writes EXCEPT ![e] = Overwritten(@)]
              /\ UNCHANGED <<sent, overlapped>>
    /\ UNCHANGED <<socket, wire, reader>>

\* The bytes at the write's place in the buffer.
HeaderNow(e, w) ==
    IF w.intact THEN {SizeHeader(e, m_Writebuf[e])}
                ELSE {SizeHeader(e, m_Writebuf[e]), Garbage}

BodyNow(e, w) ==
    IF w.intact THEN {m_Writebuf[e]}
                ELSE {Garbage} \cup {m \in {m_Writebuf[e]} : Size[m] = w.size}

\* Of two writes under way either may have its bytes accepted first.
Transmit(e) ==
    \E i \in DOMAIN writes[e] :
        LET w == writes[e][i] IN
        /\ socket = "up"
        /\ \/ /\ w.next = "header"
              /\ \E bytes \in HeaderNow(e, w) :
                    wire' = [wire EXCEPT ![e] = Append(@, [part |-> "header", bytes |-> bytes])]
              /\ writes' = [writes EXCEPT ![e][i].next = "body"]
           \/ /\ w.next = "body"
              /\ \E bytes \in BodyNow(e, w) :
                    wire' = [wire EXCEPT ![e] =
                        Append(@, [part |-> "body", size |-> w.size, bytes |-> bytes])]
              /\ writes' = [writes EXCEPT ![e] = RemoveAt(@, i)]
        /\ UNCHANGED <<socket, m_Writebuf, reader, sent, overlapped>>

-----------------------------------------------------------------------------
(* Reading *)

\* The piece the pending read of end e finds, if there is one.
NextPiece(e) == {Head(pieces) : pieces \in {wire[Other(e)]} \ {<<>>}}

\* The pending read of end e takes that piece and is followed by next.
Reads(e, next) ==
    /\ wire' = [wire EXCEPT ![Other(e)] = Tail(@)]
    /\ reader' = [reader EXCEPT ![e] = next]
    /\ UNCHANGED <<socket, m_Writebuf, writes, sent, overlapped>>

AnnouncesBody(p) == p.part = "header" /\ p.bytes # Garbage

FillsBody(e, p) == p.part = "body" /\ p.size = reader[e].size

\* What is read is not what the frame should go on with.
LosesFraming(e) ==
    /\ \E p \in NextPiece(e) :
        \/ reader[e].at = "header" /\ ~AnnouncesBody(p)
        \/ reader[e].at = "body" /\ ~FillsBody(e, p)
    /\ Reads(e, Lost)

-----------------------------------------------------------------------------
(* The connection *)

\* Either process or the network ends it, and what is in flight is lost.
Break ==
    /\ socket = "up"
    /\ socket' = "broken"
    /\ wire' = [e \in End |-> <<>>]
    /\ UNCHANGED <<m_Writebuf, writes, reader, sent, overlapped>>

ReadFails(e) ==
    /\ socket = "broken"
    /\ reader[e] # Off
    /\ reader' = [reader EXCEPT ![e] = Off]
    /\ UNCHANGED <<socket, m_Writebuf, writes, wire, sent, overlapped>>

WriteFails(e) ==
    /\ socket = "broken"
    /\ writes[e] # <<>>
    /\ writes' = [writes EXCEPT ![e] = Tail(@)]
    /\ UNCHANGED <<socket, m_Writebuf, wire, reader, sent, overlapped>>
=============================================================================
