------------------------- MODULE Connection_proofs -------------------------
(***************************************************************************)
(* What a connection between a chat client and its session keeps, for any  *)
(* messages, sizes and bounds:                                             *)
(*                                                                         *)
(*   the two ends agree on the header;                                     *)
(*   types (TypeInv);                                                      *)
(*   the two queues of a session are one (QueueInv);                       *)
(*   nobody chats unverified on the first login (LoginInv);                *)
(*   what is read is what was written, in order (StreamInv).               *)
(***************************************************************************)
EXTENDS Connection, SequenceTheorems, TLAPS

-----------------------------------------------------------------------------
(* The header: what one end writes the other reads, and no two sizes share *)
(* a header.                                                               *)

(* The bytes of a size, the most significant first. *)
LEMMA BytesOfSize ==
    ASSUME NEW s \in MessageSize
    PROVE  /\ s \div Shift24 \in 0..127
           /\ (s \div Shift16) % 256 \in Byte
           /\ (s \div 256) % 256 \in Byte
           /\ s % 256 \in Byte
           /\ (s \div Shift24) * Shift24 + ((s \div Shift16) % 256) * Shift16
                + ((s \div 256) % 256) * 256 + (s % 256) = s
<1>0. s \in Nat /\ s < 2147483648
  BY SMT DEF MessageSize
<1>1. \A n \in Nat : /\ n \div 256 \in Nat /\ n % 256 \in 0..255
                     /\ n = 256 * (n \div 256) + (n % 256)
  BY SMT DEF Shift16, Shift24
<1>2. \A n \in Nat : n \div Shift16 = (n \div 256) \div 256
  BY SMT DEF Shift16, Shift24
<1>3. \A n \in Nat : n \div Shift24 = (n \div Shift16) \div 256
  BY SMT DEF Shift16, Shift24
<1> DEFINE x == s \div 256
           y == x \div 256
           z == y \div 256
<1>4. /\ x \in Nat /\ y \in Nat /\ z \in Nat
      /\ s = 256 * x + (s % 256) /\ s % 256 \in 0..255
      /\ x = 256 * y + (x % 256) /\ x % 256 \in 0..255
      /\ y = 256 * z + (y % 256) /\ y % 256 \in 0..255
  BY <1>0, <1>1, SMT DEF Shift16, Shift24
<1>5. s \div Shift16 = y /\ s \div Shift24 = z
  BY <1>0, <1>2, <1>3, SMT DEF Shift16, Shift24
<1> HIDE DEF x, y, z
<1>6. z \in 0..127
  BY <1>0, <1>4, SMT DEF Shift16, Shift24
<1>7. z * Shift24 + (y % 256) * Shift16 + (x % 256) * 256 + (s % 256) = s
  BY <1>0, <1>4, SMT DEF Shift16, Shift24
<1>8. s \div 256 = x
  BY SMT DEF x, Shift16, Shift24
<1>9. y % 256 \in Byte /\ x % 256 \in Byte /\ s % 256 \in Byte
  BY <1>4, SMT DEF Byte
<1>10. QED
  BY <1>5, <1>6, <1>7, <1>8, <1>9, Zenon

(* Both writers fill the same four bytes. *)
THEOREM WritersAgree ==
    ASSUME NEW s \in MessageSize
    PROVE  /\ SetSizeToBufferHeader(s) \in Header
           /\ SizeAsBytes(s) = SetSizeToBufferHeader(s)
<1>1. s \in Nat /\ s \div 1 = s
  BY SMT DEF MessageSize
<1>2. (s \div Shift24) % 256 = s \div Shift24
  BY BytesOfSize, <1>1, SMT DEF Shift16, Shift24
<1>3. /\ DOMAIN SizeAsBytes(s) = 1..4
      /\ SizeAsBytes(s)[1] = (s \div Shift24) % 256
      /\ SizeAsBytes(s)[2] = (s \div Shift16) % 256
      /\ SizeAsBytes(s)[3] = (s \div 256) % 256
      /\ SizeAsBytes(s)[4] = s % 256
  BY <1>1, SMT DEF SizeAsBytes, Weight, HEADER_SIZE, Shift16, Shift24
<1>4. SetSizeToBufferHeader(s) \in Header
  BY BytesOfSize, SMT DEF SetSizeToBufferHeader, Header, Byte, HEADER_SIZE, Shift16, Shift24
<1>5. SizeAsBytes(s) = SetSizeToBufferHeader(s)
  <2>1. \A i \in 1..4 : SizeAsBytes(s)[i] = SetSizeToBufferHeader(s)[i]
    BY <1>2, <1>3, SMT DEF SetSizeToBufferHeader, Shift16, Shift24
  <2>2. SizeAsBytes(s) \in [1..4 -> Int]
    BY <1>1, SMT DEF SizeAsBytes, HEADER_SIZE, Weight, Shift16, Shift24
  <2>3. SetSizeToBufferHeader(s) \in [1..4 -> Int]
    BY <1>4, SMT DEF Header, HEADER_SIZE, Byte
  <2>4. QED
    BY <2>1, <2>2, <2>3, SMT DEF Shift16, Shift24
<1>6. QED
  BY <1>4, <1>5, SMT DEF Shift16, Shift24

(* The header of a size, by its bytes. *)
LEMMA BytesOfHeader ==
    ASSUME NEW s \in MessageSize
    PROVE  LET h == SetSizeToBufferHeader(s) IN
           /\ h[1] \in 0..127 /\ h[2] \in Byte /\ h[3] \in Byte /\ h[4] \in Byte
           /\ h[1] * Shift24 + h[2] * Shift16 + h[3] * 256 + h[4] = s
<1> DEFINE h == SetSizeToBufferHeader(s)
<1>1. /\ h[1] = s \div Shift24 /\ h[2] = (s \div Shift16) % 256
      /\ h[3] = (s \div 256) % 256 /\ h[4] = s % 256
  BY SMT DEF SetSizeToBufferHeader, Shift16, Shift24
<1> HIDE DEF h
<1>2. /\ h[1] \in 0..127 /\ h[2] \in Byte /\ h[3] \in Byte /\ h[4] \in Byte
  BY <1>1, BytesOfSize
<1>3. h[1] * Shift24 + h[2] * Shift16 + h[3] * 256 + h[4] = s
  BY <1>1, BytesOfSize
<1>4. QED
  BY <1>2, <1>3, Zenon DEF h

(* The server reads the size the client wrote: the byte that counts as *)
(* signed is below 128 for every size (UserSession.cpp:200).           *)
THEOREM ServerReadsSize ==
    \A s \in MessageSize : ServerBodySize(SizeAsBytes(s)) = s
<1> SUFFICES ASSUME NEW s \in MessageSize PROVE ServerBodySize(SizeAsBytes(s)) = s
  OBVIOUS
<1> DEFINE h == SetSizeToBufferHeader(s)
           a == h[1]
           b == h[2]
           c == h[3]
           d == h[4]
<1>1. /\ a \in 0..127 /\ b \in 0..255 /\ c \in 0..255 /\ d \in 0..255
      /\ a * Shift24 + b * Shift16 + c * 256 + d = s
  BY BytesOfHeader, Zenon DEF Byte
<1>2. SizeAsBytes(s) = h
  BY WritersAgree, Zenon
<1>3. ServerBodySize(h) = d + c * 256 + b * Shift16 + SignedByte(a) * Shift24
  BY Zenon DEF ServerBodySize
<1> HIDE DEF h, a, b, c, d
<1>4. SignedByte(a) = a
  BY <1>1, SMT DEF SignedByte
<1>5. d + c * 256 + b * Shift16 + a * Shift24 = s
  BY <1>1, SMT DEF Shift16, Shift24
<1>6. QED
  BY <1>2, <1>3, <1>4, <1>5, Zenon

(* The client reads the size the server wrote. *)
THEOREM ClientReadsSize ==
    \A s \in MessageSize : ClientBodySize(SetSizeToBufferHeader(s)) = s
<1> SUFFICES ASSUME NEW s \in MessageSize
             PROVE  ClientBodySize(SetSizeToBufferHeader(s)) = s
  OBVIOUS
<1> DEFINE h == SetSizeToBufferHeader(s)
           a == h[1]
           b == h[2]
           c == h[3]
           d == h[4]
<1>1. /\ a \in 0..127 /\ b \in 0..255 /\ c \in 0..255 /\ d \in 0..255
      /\ a * Shift24 + b * Shift16 + c * 256 + d = s
  BY BytesOfHeader, Zenon DEF Byte
<1>2. ClientBodySize(h) = ((a * 256 + b) * 256 + c) * 256 + d
  BY Zenon DEF ClientBodySize
<1> HIDE DEF h, a, b, c, d
<1>3. ((a * 256 + b) * 256 + c) * 256 + d = s
  BY <1>1, SMT DEF Shift16, Shift24
<1>4. QED
  BY <1>2, <1>3, Zenon DEF h

(* The server takes a header that no message has for no size at all: the *)
(* result is below 0 (UserSession.cpp:200-203).                          *)
THEOREM OtherHeadersAreNegative ==
    \A h \in Header : ServerBodySize(h) \in MessageSize \/ ServerBodySize(h) < 0
<1> SUFFICES ASSUME NEW h \in Header
             PROVE  ServerBodySize(h) \in MessageSize \/ ServerBodySize(h) < 0
  OBVIOUS
<1> DEFINE a == h[1]
           b == h[2]
           c == h[3]
           d == h[4]
           top == SignedByte(a)
           sum == d + c * 256 + b * Shift16 + top * Shift24
<1>1. a \in 0..255 /\ b \in 0..255 /\ c \in 0..255 /\ d \in 0..255
  BY SMT DEF Header, HEADER_SIZE, Byte
<1>2. ServerBodySize(h) = sum
  BY Zenon DEF ServerBodySize
<1> HIDE DEF a, b, c, d
<1>3. top \in Int /\ top >= 0 - 128 /\ top <= 127
  BY <1>1, SMT DEF SignedByte
<1> HIDE DEF top
<1>4. sum \in Int /\ sum < 2147483648 /\ (top < 0 => sum < 0) /\ (top >= 0 => sum >= 0)
  BY <1>1, <1>3, SMT DEF Shift16, Shift24
<1> HIDE DEF sum
<1>5. sum \in MessageSize \/ sum < 0
  BY <1>3, <1>4, SMT DEF MessageSize
<1>6. QED
  BY <1>2, <1>5, Zenon

-----------------------------------------------------------------------------
(* The inductive invariants.                                               *)

\* Types, what a write finds in the buffer, what a push pushes and what the
\* server thread is about to take.
TypeInv ==
    /\ TypeOK
    /\ \A e \in End : writes[e] # <<>> => m_Writebuf[e] \in Message
    /\ pushing # NoPush => pushing.into \in 1..2 /\ pushing.message \in Message
    /\ drainer = "taking" => ToTake # <<>>

Pushing == IF pushing = NoPush THEN <<>> ELSE <<pushing.message>>

\* Where a push goes to the output queue, nothing is behind it.
QueueInv ==
    /\ QueuesKeepOrder
    /\ pushing # NoPush /\ pushing.into = m_OutputQueue => queue[m_InputQueue] = <<>>

\* Before the server has verified the session it has nothing to send.
LoginInv ==
    /\ session # "verified" =>
          posted = <<>> /\ writes["server"] = <<>> /\ wire["server"] = <<>>
    /\ session # "verified" /\ logins <= 1 => ~m_IsVerified
    /\ logins = 0 => ~m_IsVerified /\ session = "none"
    /\ console = "chat" => m_IsVerified

\* Each end begins to read a connection once.
ReadsOnce ==
    /\ stopped => ioThread # "running"
    /\ ioThread = "ended" => stopped
    /\ console = "menu" => stopped \/ logins = 0
    /\ logins = 0 => console = "menu" /\ socket = "closed" /\ ~connecting
    /\ connecting /\ ~stopped => reader["client"] = Off
    /\ session = "none" => reader["server"] = Off

\* End e reads or has yet to begin.
MayRead(e) ==
    \/ reader[e] # Off
    \/ e = "client" /\ connecting /\ ~stopped
    \/ e = "server" /\ session = "none"

\* What the other end waits for of what end e sends, and what it got of it.
ReaderOf(e) == reader[Other(e)]
Got(e) == Received(Other(e))

BeginsWith(s, got) == Len(got) <= Len(s) /\ \A i \in 1..Len(got) : got[i] = s[i]

HeaderOf(e, m) == [part |-> "header", bytes |-> SizeHeader(e, m)]
BodyOf(m) == [part |-> "body", size |-> Size[m], bytes |-> m]

PiecesRead(got, r) == 2 * Len(got) + (IF r.at = "body" THEN 1 ELSE 0)

PiecesToSend(ws) ==
    IF ws = <<>> THEN 0 ELSE IF ws[1].next = "header" THEN 2 ELSE 1

\* The one write under way, if there is one, is of the last message.
WritesLast(ws, buf, s) ==
    ws # <<>> => /\ Len(ws) = 1 /\ ws[1].intact
                 /\ s # <<>> /\ buf = s[Len(s)]
                 /\ ws[1].size = Size[buf]

\* The pieces on the wire are those of the messages from where the reader is.
OnTheWire(e, pieces, s, read) ==
    \A k \in 1..Len(s) :
        LET h == 2 * k - 1 - read IN
        /\ h \in 1..Len(pieces) => pieces[h] = HeaderOf(e, s[k])
        /\ h + 1 \in 1..Len(pieces) => pieces[h + 1] = BodyOf(s[k])

\* What end e sent (s) and the other end has not got is on the wire or in the
\* one write under way.
InStepWith(e, ws, buf, pieces, s, got, r) ==
    /\ WritesLast(ws, buf, s)
    /\ PiecesRead(got, r) + Len(pieces) + PiecesToSend(ws) = 2 * Len(s)
    /\ OnTheWire(e, pieces, s, PiecesRead(got, r))
    /\ r.at = "body" => r.size = Size[s[Len(got) + 1]]

InStep(e) ==
    InStepWith(e, writes[e], m_Writebuf[e], wire[e], sent[e], Got(e), ReaderOf(e))

DirectionInv(e) ==
    /\ socket # "up" => wire[e] = <<>>
    /\ socket \in {"closed", "connecting"} =>
          writes[e] = <<>> /\ sent[e] = <<>> /\ ReaderOf(e) = Off /\ Got(e) = <<>>
    /\ ~overlapped[e] => ReaderOf(e) # Lost /\ BeginsWith(sent[e], Got(e))
    /\ socket = "up" /\ ~overlapped[e] /\ MayRead(Other(e)) => InStep(e)

StreamInv == \A e \in End : DirectionInv(e)

-----------------------------------------------------------------------------
(* Types *)

(* What the next piece is, if there is one. *)
LEMMA NextPieceIsHead ==
    ASSUME NEW e \in End, NEW p, p \in NextPiece(e)
    PROVE  wire[Other(e)] # <<>> /\ p = Head(wire[Other(e)]) /\ Other(e) \in End
BY DEF NextPiece, End, Other

LEMMA PieceTypes ==
    ASSUME StreamTypeOK, NEW e \in End, NEW p \in NextPiece(e)
    PROVE  p \in Piece
<1>1. wire[Other(e)] \in Seq(Piece) /\ wire[Other(e)] # <<>> /\ p = Head(wire[Other(e)])
  BY NextPieceIsHead DEF StreamTypeOK
<1>2. QED
  BY <1>1

LEMMA HeaderTypes ==
    ASSUME NEW e \in End, NEW m \in Message
    PROVE  SizeHeader(e, m) \in Header
BY ByteStreamAssumption, WritersAgree DEF SizeHeader, ByteStreamAssumption

LEMMA OverwrittenTypes ==
    ASSUME NEW ws \in Seq(Write)
    PROVE  /\ Overwritten(ws) \in Seq(Write)
           /\ Len(Overwritten(ws)) = Len(ws)
           /\ Overwritten(ws) = <<>> <=> ws = <<>>
<1>1. \A i \in DOMAIN ws : [ws[i] EXCEPT !.intact = FALSE] \in Write
  <2>1. \A i \in DOMAIN ws : ws[i] \in Write
    OBVIOUS
  <2>2. \A w \in Write : [w EXCEPT !.intact = FALSE] \in Write
    BY DEF Write
  <2>3. QED
    BY <2>1, <2>2
<1>2. Overwritten(ws) \in [1..Len(ws) -> Write]
  BY <1>1 DEF Overwritten
<1>3. QED
  BY <1>2 DEF Overwritten

LEMMA NewWriteType == ASSUME NEW m \in Message PROVE NewWrite(m) \in Write
BY ByteStreamAssumption DEF NewWrite, Write

LEMMA AsyncWriteTypes ==
    ASSUME StreamTypeOK, NEW e \in End, NEW m \in Message, AsyncWrite(e, m)
    PROVE  /\ StreamTypeOK'
           /\ m_Writebuf' = [m_Writebuf EXCEPT ![e] = m]
           /\ \A f \in End : f # e => writes'[f] = writes[f]
<1>1. /\ Overwritten(writes[e]) \in Seq(Write)
      /\ Append(Overwritten(writes[e]), NewWrite(m)) \in Seq(Write)
      /\ Append(sent[e], m) \in Seq(Message)
  BY OverwrittenTypes, NewWriteType DEF StreamTypeOK
<1>2. StreamTypeOK'
  BY <1>1 DEF StreamTypeOK, AsyncWrite, Bytes
<1>3. QED
  BY <1>2 DEF AsyncWrite, StreamTypeOK

LEMMA RemoveAtTypes ==
    ASSUME NEW S, NEW s \in Seq(S), NEW i \in DOMAIN s
    PROVE  /\ RemoveAt(s, i) \in Seq(S)
           /\ Len(RemoveAt(s, i)) = Len(s) - 1
<1>1. SubSeq(s, 1, i - 1) \in Seq(S) /\ Len(SubSeq(s, 1, i - 1)) = i - 1
  OBVIOUS
<1>2. SubSeq(s, i + 1, Len(s)) \in Seq(S) /\ Len(SubSeq(s, i + 1, Len(s))) = Len(s) - i
  OBVIOUS
<1>3. i \in 1..Len(s) /\ Len(s) \in Nat
  OBVIOUS
<1> DEFINE before == SubSeq(s, 1, i - 1)
           after == SubSeq(s, i + 1, Len(s))
<1>4. RemoveAt(s, i) = before \o after
  BY DEF RemoveAt
<1> HIDE DEF before, after
<1>5. before \o after \in Seq(S) /\ Len(before \o after) = Len(before) + Len(after)
  BY <1>1, <1>2, ConcatProperties DEF before, after
<1>6. Len(before) = i - 1 /\ Len(after) = Len(s) - i
  BY <1>1, <1>2 DEF before, after
<1>7. QED
  BY <1>3, <1>4, <1>5, <1>6

LEMMA TransmitTypes ==
    ASSUME StreamTypeOK, NEW e \in End, Transmit(e),
           \A f \in End : writes[f] # <<>> => m_Writebuf[f] \in Message
    PROVE  /\ StreamTypeOK'
           /\ \A f \in End : writes'[f] # <<>> => writes[f] # <<>>
<1>1. PICK i \in DOMAIN writes[e] :
        /\ socket = "up"
        /\ \/ /\ writes[e][i].next = "header"
              /\ \E bytes \in HeaderNow(e, writes[e][i]) :
                    wire' = [wire EXCEPT ![e] = Append(@, [part |-> "header", bytes |-> bytes])]
              /\ writes' = [writes EXCEPT ![e][i].next = "body"]
           \/ /\ writes[e][i].next = "body"
              /\ \E bytes \in BodyNow(e, writes[e][i]) :
                    wire' = [wire EXCEPT ![e] =
                        Append(@, [part |-> "body", size |-> writes[e][i].size, bytes |-> bytes])]
              /\ writes' = [writes EXCEPT ![e] = RemoveAt(@, i)]
        /\ UNCHANGED <<socket, m_Writebuf, reader, sent, overlapped>>
  BY DEF Transmit
<1>2. /\ writes[e] \in Seq(Write) /\ writes[e] # <<>> /\ writes[e][i] \in Write
      /\ wire[e] \in Seq(Piece)
      /\ m_Writebuf[e] \in Message
  BY DEF StreamTypeOK
<1>3. /\ HeaderNow(e, writes[e][i]) \subseteq Header \cup {Garbage}
      /\ BodyNow(e, writes[e][i]) \subseteq Bytes
  BY <1>2, HeaderTypes DEF HeaderNow, BodyNow, Bytes
<1>4. CASE writes[e][i].next = "header"
  <2>1. PICK bytes \in HeaderNow(e, writes[e][i]) :
            wire' = [wire EXCEPT ![e] = Append(@, [part |-> "header", bytes |-> bytes])]
    BY <1>1, <1>4
  <2>2. [part |-> "header", bytes |-> bytes] \in Piece
    BY <1>3 DEF Piece
  <2>3. [writes[e] EXCEPT ![i].next = "body"] \in Seq(Write)
    <3>1. [writes[e][i] EXCEPT !.next = "body"] \in Write
      BY <1>2 DEF Write
    <3>2. QED
      BY <1>2, <3>1, ExceptSeq
  <2>4. writes' = [writes EXCEPT ![e] = [writes[e] EXCEPT ![i].next = "body"]]
    BY <1>1, <1>4
  <2>5. Append(wire[e], [part |-> "header", bytes |-> bytes]) \in Seq(Piece)
    BY <1>2, <2>2
  <2>6. writes' \in [End -> Seq(Write)] /\ wire' \in [End -> Seq(Piece)]
    BY <2>1, <2>3, <2>4, <2>5 DEF StreamTypeOK
  <2>7. QED
    BY <1>1, <1>2, <2>4, <2>6 DEF StreamTypeOK
<1>5. CASE writes[e][i].next = "body"
  <2>1. PICK bytes \in BodyNow(e, writes[e][i]) :
            wire' = [wire EXCEPT ![e] =
                Append(@, [part |-> "body", size |-> writes[e][i].size, bytes |-> bytes])]
    BY <1>1, <1>5
  <2>2. [part |-> "body", size |-> writes[e][i].size, bytes |-> bytes] \in Piece
    BY <1>2, <1>3 DEF Piece, Write
  <2>3. RemoveAt(writes[e], i) \in Seq(Write)
    BY <1>2, RemoveAtTypes
  <2>4. writes' = [writes EXCEPT ![e] = RemoveAt(writes[e], i)]
    BY <1>1, <1>5
  <2>5. Append(wire[e], [part |-> "body", size |-> writes[e][i].size, bytes |-> bytes])
          \in Seq(Piece)
    BY <1>2, <2>2
  <2>6. writes' \in [End -> Seq(Write)] /\ wire' \in [End -> Seq(Piece)]
    BY <2>1, <2>3, <2>4, <2>5 DEF StreamTypeOK
  <2>7. QED
    BY <1>1, <1>2, <2>4, <2>6 DEF StreamTypeOK
<1>6. QED
  BY <1>1, <1>4, <1>5

LEMMA ReadsTypes ==
    ASSUME StreamTypeOK, NEW e \in End, NEW p \in NextPiece(e), NEW next \in Reader,
           Reads(e, next)
    PROVE  StreamTypeOK' /\ p \in Piece
<1>1. /\ Other(e) \in End /\ wire[Other(e)] \in Seq(Piece) /\ wire[Other(e)] # <<>>
      /\ p = Head(wire[Other(e)])
  BY NextPieceIsHead DEF StreamTypeOK
<1>2. Tail(wire[Other(e)]) \in Seq(Piece) /\ p \in Piece
  BY <1>1
<1>3. QED
  BY <1>1, <1>2 DEF Reads, StreamTypeOK

LEMMA ReaderTypes ==
    /\ Off \in Reader /\ ReadHeader \in Reader /\ Lost \in Reader
    /\ \A size \in Int : ReadBody(size) \in Reader
BY DEF Off, ReadHeader, Lost, ReadBody, Reader

LEMMA BodySizeTypes ==
    ASSUME NEW h \in Header
    PROVE  ServerBodySize(h) \in Int /\ ClientBodySize(h) \in Int
<1>1. h[1] \in Int /\ h[2] \in Int /\ h[3] \in Int /\ h[4] \in Int
  BY DEF Header, HEADER_SIZE, Byte
<1>2. SignedByte(h[1]) \in Int
  BY <1>1 DEF SignedByte
<1>3. QED
  BY <1>1, <1>2, SMT DEF ServerBodySize, ClientBodySize, Shift16, Shift24

LEMMA LosesFramingTypes ==
    ASSUME StreamTypeOK, NEW e \in End, LosesFraming(e)
    PROVE  StreamTypeOK'
<1>1. PICK p \in NextPiece(e) : TRUE
  BY DEF LosesFraming
<1>2. QED
  BY <1>1, ReadsTypes, ReaderTypes DEF LosesFraming

LEMMA FailureTypes ==
    ASSUME StreamTypeOK, NEW e \in End, ReadFails(e) \/ WriteFails(e)
    PROVE  /\ StreamTypeOK'
           /\ \A f \in End : writes'[f] # <<>> => writes[f] # <<>>
<1>1. writes[e] # <<>> => Tail(writes[e]) \in Seq(Write)
  BY DEF StreamTypeOK
<1>2. QED
  BY <1>1, ReaderTypes DEF ReadFails, WriteFails, StreamTypeOK

(* TypeInv, by its parts. *)
LEMMA TypeInvParts ==
    ASSUME TypeInv
    PROVE  StreamTypeOK /\ ClientTypeOK /\ SessionTypeOK
BY DEF TypeInv, TypeOK

(* A step that leaves the session alone. *)
LEMMA ClientTypes ==
    ASSUME TypeInv, UNCHANGED sessionVars, StreamTypeOK', ClientTypeOK',
           \A e \in End : writes'[e] # <<>> => m_Writebuf'[e] \in Message
    PROVE  TypeInv'
BY DEF TypeInv, TypeOK, SessionTypeOK, sessionVars, queueVars, ToTake, m_OutputQueue

LEMMA ConsoleTypes == ASSUME TypeInv, ConsoleStep PROVE TypeInv'
<1>1. StreamTypeOK /\ ClientTypeOK /\ SessionTypeOK
  BY TypeInvParts
<1>2. CASE UNCHANGED streamVars /\ ClientTypeOK'
  BY <1>1, <1>2, ClientTypes DEF ConsoleStep, TypeInv, StreamTypeOK, streamVars
<1>3. ASSUME NEW m \in Message, AsyncWrite("client", m), ClientTypeOK'
      PROVE  TypeInv'
  <2>1. "client" \in End
    BY DEF End
  <2>2. /\ StreamTypeOK'
        /\ m_Writebuf' = [m_Writebuf EXCEPT !["client"] = m]
        /\ \A f \in End : f # "client" => writes'[f] = writes[f]
    BY <1>1, <1>3, <2>1, AsyncWriteTypes
  <2>3. \A e \in End : writes'[e] # <<>> => m_Writebuf'[e] \in Message
    BY <1>1, <2>2 DEF TypeInv, StreamTypeOK
  <2>4. QED
    BY <1>3, <2>2, <2>3, ClientTypes DEF ConsoleStep
<1>4. CASE SendSessionId
  BY <1>1, <1>3, <1>4, ByteStreamAssumption
     DEF SendSessionId, ByteStreamAssumption, ClientTypeOK, ConsoleGoes
<1>5. CASE ChatLoop
  <2>1. PICK m \in IF LinesSent = <<>> THEN {Leftover} ELSE Line : AsyncWrite("client", m)
    BY <1>5 DEF ChatLoop
  <2>2. m \in Message
    BY ChatClientAssumption DEF ChatClientAssumption
  <2>3. QED
    BY <1>1, <1>3, <1>5, <2>1, <2>2 DEF ChatLoop, ClientTypeOK, clientVars
<1>6. CASE StartThread \/ SetVerificationCallback \/ StopWaiting \/ InputEnds \/ JoinThread
  BY <1>1, <1>2, <1>6
     DEF StartThread, SetVerificationCallback, StopWaiting, InputEnds, JoinThread,
         ConsoleGoes, ClientTypeOK
<1>7. QED
  BY <1>4, <1>5, <1>6 DEF ConsoleStep

LEMMA HandlerTypes == ASSUME TypeInv, HandlerStep PROVE TypeInv'
<1>1. StreamTypeOK /\ ClientTypeOK /\ SessionTypeOK /\ "client" \in End
  BY TypeInvParts DEF End
<1>2. ASSUME StreamTypeOK', ClientTypeOK', m_Writebuf' = m_Writebuf,
             \A e \in End : writes'[e] # <<>> => writes[e] # <<>>
      PROVE  TypeInv'
  BY <1>2, ClientTypes DEF TypeInv, HandlerStep
<1>3. CASE OnConnect
  BY <1>1, <1>2, <1>3, ReaderTypes DEF OnConnect, KeepsConsole, StreamTypeOK, ClientTypeOK
<1>4. CASE OnConnectError
  BY <1>1, <1>2, <1>4 DEF OnConnectError, KeepsConsole, StreamTypeOK, ClientTypeOK, streamVars
<1>5. CASE ClientReadsHeader
  <2>1. PICK p \in NextPiece("client") :
            /\ AnnouncesBody(p)
            /\ Reads("client", IF ClientBodySize(p.bytes) > 0
                                 THEN ReadBody(ClientBodySize(p.bytes)) ELSE Off)
    BY <1>5 DEF ClientReadsHeader
  <2> DEFINE next == IF ClientBodySize(p.bytes) > 0
                       THEN ReadBody(ClientBodySize(p.bytes)) ELSE Off
  <2>2. p \in Piece
    BY <1>1, PieceTypes
  <2>3. p.bytes \in Header
    BY <2>1, <2>2 DEF AnnouncesBody, Piece
  <2>4. next \in Reader
    BY <2>3, BodySizeTypes, ReaderTypes
  <2>5. StreamTypeOK'
    BY <1>1, <2>1, <2>4, ReadsTypes
  <2>6. QED
    BY <1>1, <1>2, <1>5, <2>1, <2>5 DEF ClientReadsHeader, Reads, clientVars, ClientTypeOK
<1>6. CASE ClientReadsBody
  <2>1. PICK p \in NextPiece("client") :
            /\ FillsBody("client", p)
            /\ IF p.bytes = Garbage
                 THEN Reads("client", Off) /\ UNCHANGED <<shown, m_IsVerified>>
                 ELSE Reads("client", ReadHeader) /\ OnMessage(p.bytes)
    BY <1>6 DEF ClientReadsBody
  <2>2. StreamTypeOK' /\ p \in Piece
    BY <1>1, <2>1, ReaderTypes, ReadsTypes
  <2>3. p.bytes # Garbage => p.bytes \in Message
    BY <2>1, <2>2 DEF Piece, FillsBody, Bytes
  <2>4. ClientTypeOK'
    BY <1>1, <1>6, <2>1, <2>3 DEF ClientReadsBody, KeepsConsole, OnMessage, ClientTypeOK
  <2>5. QED
    BY <1>2, <2>1, <2>2, <2>4 DEF Reads
<1>7. CASE ClientReadFails \/ ClientWriteFails
  BY <1>1, <1>2, <1>7, FailureTypes
     DEF ClientReadFails, ClientWriteFails, ReadFails, WriteFails, clientVars, ClientTypeOK
<1>8. CASE ClientLosesFraming
  <2>1. StreamTypeOK'
    BY <1>1, <1>8, LosesFramingTypes DEF ClientLosesFraming
  <2>2. QED
    BY <1>1, <1>2, <1>8, <2>1
       DEF ClientLosesFraming, LosesFraming, Reads, clientVars, ClientTypeOK
<1>9. CASE RunReturns
  BY <1>1, <1>2, <1>9 DEF RunReturns, StreamTypeOK, ClientTypeOK, streamVars
<1>10. QED
  BY <1>3, <1>4, <1>5, <1>6, <1>7, <1>8, <1>9 DEF HandlerStep

(* A step that leaves the client alone. *)
LEMMA ServerTypes ==
    ASSUME TypeInv, UNCHANGED clientVars, StreamTypeOK', SessionTypeOK',
           \A e \in End : writes'[e] # <<>> => m_Writebuf'[e] \in Message,
           pushing' # NoPush => pushing'.into \in 1..2 /\ pushing'.message \in Message,
           drainer' = "taking" => ToTake' # <<>>
    PROVE  TypeInv'
BY DEF TypeInv, TypeOK, ClientTypeOK, clientVars

LEMMA IoThreadTypes == ASSUME TypeInv, IoThreadStep PROVE TypeInv'
<1>1. StreamTypeOK /\ ClientTypeOK /\ SessionTypeOK /\ "server" \in End
  BY TypeInvParts DEF End
<1>2. ASSUME StreamTypeOK', SessionTypeOK', UNCHANGED queueVars,
             \A e \in End : writes'[e] # <<>> => m_Writebuf'[e] \in Message
      PROVE  TypeInv'
  BY <1>2, ServerTypes DEF TypeInv, IoThreadStep, queueVars, ToTake, m_OutputQueue
<1>3. CASE Start
  <2>1. StreamTypeOK' /\ SessionTypeOK'
    BY <1>1, <1>3, ReaderTypes DEF Start, StreamTypeOK, SessionTypeOK, queueVars
  <2>2. QED
    BY <1>2, <1>3, <2>1 DEF Start, TypeInv
<1>4. CASE ServerReadsHeader
  <2>1. PICK p \in NextPiece("server") :
            /\ AnnouncesBody(p)
            /\ Reads("server", ReadBody(ServerBodySize(p.bytes)))
    BY <1>4 DEF ServerReadsHeader
  <2>2. p \in Piece
    BY <1>1, PieceTypes
  <2>3. p.bytes \in Header
    BY <2>1, <2>2 DEF AnnouncesBody, Piece
  <2>4. ReadBody(ServerBodySize(p.bytes)) \in Reader
    BY <2>3, BodySizeTypes, ReaderTypes
  <2>5. StreamTypeOK'
    BY <1>1, <2>1, <2>4, ReadsTypes
  <2>6. QED
    BY <1>1, <1>2, <1>4, <2>1, <2>5
       DEF ServerReadsHeader, Reads, sessionVars, queueVars, SessionTypeOK, TypeInv
<1>5. CASE BeginPush
  <2>1. PICK p \in NextPiece("server") :
            /\ FillsBody("server", p)
            /\ Reads("server", AfterBody)
            /\ IF p.bytes = Garbage
                 THEN UNCHANGED <<pushing, arrived>>
                 ELSE /\ pushing' = [into |-> m_InputQueue, message |-> p.bytes]
                      /\ arrived' = Append(arrived, p.bytes)
    BY <1>5 DEF BeginPush
  <2>2. StreamTypeOK' /\ p \in Piece
    BY <1>1, <2>1, ReaderTypes, ReadsTypes DEF AfterBody
  <2>3. p.bytes # Garbage => p.bytes \in Message
    BY <2>1, <2>2 DEF Piece, FillsBody, Bytes
  <2>4. /\ pushing' \in [into : 0..2, message : Message \cup {None}]
        /\ pushing' # NoPush => pushing'.into \in 1..2 /\ pushing'.message \in Message
        /\ arrived' \in Seq(Message)
    <3>1. CASE p.bytes = Garbage
      BY <1>1, <2>1, <3>1 DEF SessionTypeOK, TypeInv
    <3>2. CASE p.bytes # Garbage
      <4>1. /\ pushing' = [into |-> m_InputQueue, message |-> p.bytes]
            /\ m_InputQueue \in 1..2 /\ p.bytes \in Message /\ arrived \in Seq(Message)
            /\ arrived' = Append(arrived, p.bytes)
        BY <1>1, <2>1, <2>3, <3>2 DEF SessionTypeOK
      <4>2. QED
        BY <4>1, AppendProperties
    <3>3. QED
      BY <3>1, <3>2
  <2>5. SessionTypeOK'
    BY <1>1, <1>5, <2>4 DEF BeginPush, SessionTypeOK
  <2>6. drainer' = "taking" => ToTake' # <<>>
    BY <1>5 DEF BeginPush, TypeInv, ToTake, m_OutputQueue
  <2>7. QED
    BY <2>1, <2>2, <2>4, <2>5, <2>6, ServerTypes DEF Reads, TypeInv, IoThreadStep
<1>6. CASE EndPush
  <2>1. pushing.into \in 1..2 /\ pushing.message \in Message
    BY <1>6 DEF EndPush, TypeInv
  <2>2. Append(queue[pushing.into], pushing.message) \in Seq(Message)
    BY <1>1, <2>1 DEF SessionTypeOK
  <2>3. /\ Pushed \in [1..2 -> Seq(Message)]
        /\ \A i \in 1..2 : queue[i] # <<>> => Pushed[i] # <<>>
    <3>1. Pushed = [queue EXCEPT ![pushing.into] = Append(queue[pushing.into], pushing.message)]
      BY DEF Pushed
    <3>2. Append(queue[pushing.into], pushing.message) # <<>>
      BY <1>1, <2>1, AppendProperties DEF SessionTypeOK
    <3>3. QED
      BY <1>1, <2>1, <2>2, <3>1, <3>2 DEF SessionTypeOK
  <2>4. SessionTypeOK'
    <3>1. raced' \in BOOLEAN
      BY <1>1, <1>6 DEF EndPush, SessionTypeOK, SharesQueue
    <3>2. pushing' \in [into : 0..2, message : Message \cup {None}]
      BY <1>6 DEF EndPush, NoPush
    <3>3. queue' \in [1..2 -> Seq(Message)]
      BY <1>1, <1>6, <2>3 DEF EndPush, SessionTypeOK
    <3>4. QED
      BY <1>1, <1>6, <3>1, <3>2, <3>3 DEF EndPush, SessionTypeOK
  <2>5. drainer' = "taking" => ToTake' # <<>>
    <3>1. m_OutputQueue \in 1..2 /\ m_OutputQueue' = m_OutputQueue
      BY <1>1, <1>6 DEF SessionTypeOK, EndPush, m_OutputQueue
    <3>2. QED
      BY <1>6, <2>3, <3>1 DEF EndPush, TypeInv, ToTake
  <2>6. StreamTypeOK' /\ UNCHANGED <<writes, m_Writebuf>>
    BY <1>1, <1>6 DEF EndPush, streamVars, StreamTypeOK
  <2>7. QED
    BY <1>6, <2>4, <2>5, <2>6, ServerTypes DEF EndPush, TypeInv, IoThreadStep
<1>7. CASE SessionReadFails \/ SessionWriteFails
  <2>1. /\ StreamTypeOK'
        /\ \A e \in End : writes'[e] # <<>> => writes[e] # <<>>
    BY <1>1, <1>7, FailureTypes DEF SessionReadFails, SessionWriteFails
  <2>2. SessionTypeOK'
    BY <1>1, <1>7 DEF SessionReadFails, SessionWriteFails, queueVars, SessionTypeOK
  <2>3. QED
    BY <1>2, <1>7, <2>1, <2>2
       DEF SessionReadFails, SessionWriteFails, ReadFails, WriteFails, TypeInv
<1>8. CASE RunPosted
  <2>1. Head(posted) \in Message /\ Tail(posted) \in Seq(Message)
    BY <1>1, <1>8 DEF RunPosted, SessionTypeOK
  <2>2. /\ StreamTypeOK'
        /\ m_Writebuf' = [m_Writebuf EXCEPT !["server"] = Head(posted)]
        /\ \A f \in End : f # "server" => writes'[f] = writes[f]
    BY <1>1, <1>8, <2>1, AsyncWriteTypes DEF RunPosted
  <2>3. \A e \in End : writes'[e] # <<>> => m_Writebuf'[e] \in Message
    BY <1>1, <2>1, <2>2 DEF TypeInv, StreamTypeOK
  <2>4. SessionTypeOK'
    BY <1>1, <1>8, <2>1 DEF RunPosted, SessionTypeOK, queueVars
  <2>5. QED
    BY <1>2, <1>8, <2>2, <2>3, <2>4 DEF RunPosted
<1>9. CASE SessionLosesFraming
  <2>1. StreamTypeOK'
    BY <1>1, <1>9, LosesFramingTypes DEF SessionLosesFraming
  <2>2. QED
    BY <1>1, <1>2, <1>9, <2>1
       DEF SessionLosesFraming, LosesFraming, Reads, sessionVars, queueVars,
           SessionTypeOK, TypeInv
<1>10. QED
  BY <1>3, <1>4, <1>5, <1>6, <1>7, <1>8, <1>9 DEF IoThreadStep

(* What a handler may post. *)
LEMMA HandledTypes ==
    ASSUME SessionTypeOK, NEW m \in Message, Handled(m)
    PROVE  session' \in {"waiting", "verified"} /\ posted' \in Seq(Message)
<1>1. posted \in Seq(Message) /\ <<Answer>> \in Seq(Message) /\ <<m>> \in Seq(Message)
  BY ByteStreamAssumption DEF SessionTypeOK, ByteStreamAssumption
<1>2. posted \o <<Answer>> \in Seq(Message) /\ posted \o <<m>> \in Seq(Message)
  BY <1>1, ConcatProperties
<1>3. QED
  BY <1>1, <1>2 DEF Handled, Post

LEMMA ServerThreadTypes == ASSUME TypeInv, ServerThreadStep PROVE TypeInv'
<1>1. StreamTypeOK /\ ClientTypeOK /\ SessionTypeOK
  BY TypeInvParts
<1>2. m_OutputQueue \in 1..2
  BY <1>1 DEF SessionTypeOK, m_OutputQueue
<1>3. /\ UNCHANGED clientVars /\ UNCHANGED streamVars /\ StreamTypeOK'
      /\ \A e \in End : writes'[e] # <<>> => m_Writebuf'[e] \in Message
  BY <1>1 DEF ServerThreadStep, LookForMessage, TakeMessage, streamVars, StreamTypeOK, TypeInv
<1>4. CASE LookForMessage
  <2>1. m_InputQueue' \in 1..2 /\ SessionTypeOK'
    BY <1>1, <1>2, <1>4 DEF LookForMessage, SessionTypeOK
  <2>2. ToTake' # <<>>
    <3>1. CASE MaySwap /\ m_InputQueue' = m_OutputQueue
      <4>1. m_OutputQueue' = m_InputQueue
        BY <1>1, <3>1 DEF m_OutputQueue, SessionTypeOK
      <4>2. QED
        BY <1>4, <3>1, <4>1 DEF LookForMessage, MaySwap, ToTake
    <3>2. CASE ToTake # <<>> /\ UNCHANGED m_InputQueue
      BY <1>4, <3>2 DEF LookForMessage, ToTake, m_OutputQueue
    <3>3. QED
      BY <1>4, <3>1, <3>2 DEF LookForMessage
  <2>3. QED
    BY <1>3, <1>4, <2>1, <2>2, ServerTypes DEF LookForMessage, TypeInv
<1>5. CASE TakeMessage
  <2>1. /\ queue[m_OutputQueue] \in Seq(Message)
        /\ Head(ToTake) \in Message /\ Tail(ToTake) \in Seq(Message)
    BY <1>1, <1>2, <1>5 DEF TakeMessage, SessionTypeOK, TypeInv, ToTake
  <2>2. session' \in {"waiting", "verified"} /\ posted' \in Seq(Message)
    BY <1>1, <1>5, <2>1, HandledTypes DEF TakeMessage
  <2>3. queue' \in [1..2 -> Seq(Message)] /\ taken' \in Seq(Message)
    <3>1. queue' = [queue EXCEPT ![m_OutputQueue] = Tail(ToTake)]
      BY <1>5 DEF TakeMessage, ToTake
    <3>2. taken \in Seq(Message) /\ taken' = Append(taken, Head(ToTake))
      BY <1>1, <1>5 DEF TakeMessage, SessionTypeOK
    <3>3. QED
      BY <1>1, <1>2, <2>1, <3>1, <3>2, AppendProperties DEF SessionTypeOK
  <2>4. drainer' \in {"idle", "crashed"} /\ raced' \in BOOLEAN
    BY <1>1, <1>5 DEF TakeMessage, SessionTypeOK, SharesQueue
  <2>5. SessionTypeOK'
    BY <1>1, <1>5, <2>2, <2>3, <2>4 DEF TakeMessage, SessionTypeOK
  <2>6. QED
    BY <1>3, <1>5, <2>4, <2>5, ServerTypes DEF TakeMessage, TypeInv
<1>6. QED
  BY <1>4, <1>5 DEF ServerThreadStep

LEMMA OtherTypes ==
    ASSUME TypeInv, OtherUserSpeaks /\ UNCHANGED clientVars
    PROVE  TypeInv'
<1>1. StreamTypeOK /\ ClientTypeOK /\ SessionTypeOK
  BY TypeInvParts
<1>2. PICK m \in Chatter : posted' = posted \o <<m>>
  BY DEF OtherUserSpeaks, Post
<1>3. posted' \in Seq(Message)
  BY <1>1, <1>2, ConcatProperties, UserSessionAssumption
     DEF SessionTypeOK, UserSessionAssumption
<1>4. SessionTypeOK'
  BY <1>1, <1>3 DEF OtherUserSpeaks, SessionTypeOK, queueVars
<1>5. QED
  BY <1>1, <1>4, ServerTypes
     DEF OtherUserSpeaks, queueVars, streamVars, StreamTypeOK, TypeInv, ToTake, m_OutputQueue

LEMMA ConnectsTypes == ASSUME TypeInv, Connects PROVE TypeInv'
<1>1. StreamTypeOK /\ ClientTypeOK /\ SessionTypeOK
  BY TypeInvParts
<1>2. CASE Reconnects
  <2>1. StreamTypeOK'
    <3>1. /\ writes' = [e \in End |-> <<>>] /\ wire' = [e \in End |-> <<>>]
          /\ reader' = [e \in End |-> Off] /\ sent' = [e \in End |-> <<>>]
          /\ overlapped' = [e \in End |-> FALSE]
          /\ socket' = "connecting" /\ m_Writebuf' = m_Writebuf
      BY <1>2 DEF Connects, Connect
    <3>2. QED
      BY <1>1, <3>1, ReaderTypes, EmptySeq DEF StreamTypeOK
  <2>2. ClientTypeOK'
    BY <1>1, <1>2, ChatClientAssumption
       DEF Connects, Connect, ClientTypeOK, ConsoleGoes, ChatClientAssumption
  <2>3. SessionTypeOK'
    <3>1. NoPush \in [into : 0..2, message : Message \cup {None}]
      BY DEF NoPush
    <3>2. [i \in 1..2 |-> <<>>] \in [1..2 -> Seq(Message)]
      BY EmptySeq
    <3>3. /\ queue' = [i \in 1..2 |-> <<>>] /\ pushing' = NoPush
          /\ session' = "none" /\ m_IsActive' = TRUE /\ m_InputQueue' = 1
          /\ posted' = <<>> /\ arrived' = <<>> /\ taken' = <<>> /\ raced' = FALSE
      BY <1>2 DEF Connects, NewSession
    <3>4. drainer' \in {"idle", "taking", "crashed"}
      BY <1>1, <1>2 DEF Connects, NewSession, SessionTypeOK, ServerUp
    <3>5. <<>> \in Seq(Message)
      OBVIOUS
    <3>6. /\ session' \in {"none", "waiting", "verified"}
          /\ m_InputQueue' \in 1..2 /\ m_IsActive' \in BOOLEAN /\ raced' \in BOOLEAN
      <4>1. m_InputQueue' = 1
        BY <3>3, Zenon
      <4>2. m_InputQueue' \in 1..2
        BY <4>1
      <4>3. QED
        BY <3>3, <4>2, Zenon
    <3>7. queue' \in [1..2 -> Seq(Message)]
      BY <3>2, <3>3, Zenon
    <3>8. pushing' \in [into : 0..2, message : Message \cup {None}]
      BY <3>1, <3>3, Zenon
    <3>9. posted' \in Seq(Message) /\ arrived' \in Seq(Message) /\ taken' \in Seq(Message)
      BY <3>3, <3>5, Zenon
    <3>10. QED
      BY <3>4, <3>6, <3>7, <3>8, <3>9, Zenon DEF SessionTypeOK
  <2>4. /\ \A e \in End : writes'[e] = <<>>
        /\ pushing' = NoPush
    BY <1>2 DEF Connects, Connect, NewSession
  <2>5. drainer' # "taking"
    BY <1>1, <1>2 DEF Connects, NewSession, ServerUp
  <2>6. QED
    BY <2>1, <2>2, <2>3, <2>4, <2>5 DEF TypeInv, TypeOK
<1>3. CASE ~Reconnects
  <2>1. StreamTypeOK' /\ ClientTypeOK'
    BY <1>1, <1>3, ChatClientAssumption
       DEF Connects, Connect, StreamTypeOK, streamVars, ClientTypeOK, ConsoleGoes,
           ChatClientAssumption
  <2>2. QED
    BY <1>3, <2>1, ClientTypes DEF Connects, Connect, streamVars, TypeInv
<1>4. QED
  BY <1>2, <1>3

LEMMA NetworkTypes ==
    ASSUME TypeInv, Establish \/ Refuse \/ Breaks \/ \E e \in End : Transmits(e)
    PROVE  TypeInv'
<1>1. StreamTypeOK /\ ClientTypeOK /\ SessionTypeOK
  BY TypeInvParts
<1>2. UNCHANGED <<clientVars, sessionVars>> /\ m_Writebuf' = m_Writebuf
  BY DEF Establish, Refuse, Breaks, Transmits, Break, Transmit
<1>6. ClientTypeOK'
  BY <1>1, <1>2 DEF clientVars, ClientTypeOK
<1>3. CASE Establish \/ Refuse \/ Breaks
  <2>1. StreamTypeOK' /\ writes' = writes
    BY <1>1, <1>3, EmptySeq DEF Establish, Refuse, Breaks, Break, StreamTypeOK
  <2>2. QED
    BY <1>2, <1>6, <2>1, ClientTypes DEF TypeInv
<1>4. CASE \E e \in End : Transmits(e)
  BY <1>1, <1>2, <1>4, <1>6, TransmitTypes, ClientTypes DEF Transmits, TypeInv
<1>5. QED
  BY <1>3, <1>4

LEMMA InitTypes == Init => TypeInv
<1> SUFFICES ASSUME Init PROVE TypeInv
  OBVIOUS
<1>1. StreamTypeOK
  <2>1. /\ [e \in End |-> <<>>] \in [End -> Seq(Write)]
        /\ [e \in End |-> <<>>] \in [End -> Seq(Piece)]
        /\ [e \in End |-> <<>>] \in [End -> Seq(Message)]
    BY EmptySeq
  <2>2. [e \in End |-> Garbage] \in [End -> Bytes] /\ [e \in End |-> Off] \in [End -> Reader]
    BY ReaderTypes DEF Bytes
  <2>3. /\ writes \in [End -> Seq(Write)] /\ wire \in [End -> Seq(Piece)]
        /\ sent \in [End -> Seq(Message)] /\ m_Writebuf \in [End -> Bytes]
        /\ reader \in [End -> Reader]
    BY <2>1, <2>2, Zenon DEF Init, StreamInit
  <2>4. socket \in {"closed", "connecting", "up", "broken"} /\ overlapped \in [End -> BOOLEAN]
    BY DEF Init, StreamInit
  <2>5. QED
    BY <2>3, <2>4, Zenon DEF StreamTypeOK
<1>2. ClientTypeOK
  <2>1. logins = 0
    BY Zenon DEF Init, ClientInit
  <2>2. logins \in 0..MaxLogins
    BY <2>1, ChatClientAssumption DEF ChatClientAssumption
  <2>3. QED
    BY <2>2, EmptySeq, Zenon DEF Init, ClientInit, ClientTypeOK
<1>3. SessionTypeOK
  <2>1. NoPush \in [into : 0..2, message : Message \cup {None}]
    BY DEF NoPush
  <2>2. [i \in 1..2 |-> <<>>] \in [1..2 -> Seq(Message)] /\ <<>> \in Seq(Message)
    BY EmptySeq
  <2>3. /\ session \in {"none", "waiting", "verified"}
        /\ drainer \in {"idle", "taking", "crashed"}
        /\ m_InputQueue \in 1..2 /\ m_IsActive \in BOOLEAN /\ raced \in BOOLEAN
    <3>1. m_InputQueue = 1
      BY Zenon DEF Init, SessionInit
    <3>2. m_InputQueue \in 1..2
      BY <3>1
    <3>3. QED
      BY <3>2, Zenon DEF Init, SessionInit
  <2>4. /\ queue \in [1..2 -> Seq(Message)]
        /\ pushing \in [into : 0..2, message : Message \cup {None}]
        /\ posted \in Seq(Message) /\ arrived \in Seq(Message) /\ taken \in Seq(Message)
    BY <2>1, <2>2, Zenon DEF Init, SessionInit
  <2>5. QED
    BY <2>3, <2>4, Zenon DEF SessionTypeOK
<1>4. QED
  BY <1>1, <1>2, <1>3 DEF TypeInv, TypeOK, Init, StreamInit, SessionInit

LEMMA NextTypes == TypeInv /\ [Next]_vars => TypeInv'
<1> SUFFICES ASSUME TypeInv, [Next]_vars PROVE TypeInv'
  OBVIOUS
<1>1. CASE Next
  BY <1>1, NetworkTypes, ConnectsTypes, ConsoleTypes, HandlerTypes, IoThreadTypes,
     ServerThreadTypes, OtherTypes DEF Next
<1>2. CASE UNCHANGED vars
  <2>1. StreamTypeOK'
    BY <1>2, TypeInvParts DEF vars, streamVars, StreamTypeOK
  <2>2. ClientTypeOK'
    BY <1>2, TypeInvParts DEF vars, clientVars, ClientTypeOK
  <2>3. QED
    BY <1>2, <2>1, <2>2, ClientTypes DEF vars, streamVars, TypeInv
<1>3. QED
  BY <1>1, <1>2

(* Every variable keeps its type, a header on the wire is one of a message *)
(* and the server thread takes only what is there (UserSession.cpp:85-117). *)
THEOREM TypeCorrect == Spec => []TypeOK
<1>1. TypeInv => TypeOK
  BY DEF TypeInv
<1>2. QED
  BY <1>1, InitTypes, NextTypes, PTL DEF Spec

-----------------------------------------------------------------------------
(* The two queues of a session *)

(* Moving the head of one sequence to the end of the one before it. *)
LEMMA MovingKeepsConcat ==
    ASSUME NEW S, NEW s \in Seq(S), NEW t \in Seq(S), t # <<>>
    PROVE  Append(s, Head(t)) \o Tail(t) = s \o t
<1>1. Head(t) \in S /\ Tail(t) \in Seq(S) /\ <<Head(t)>> \in Seq(S)
  OBVIOUS
<1>2. <<Head(t)>> \o Tail(t) = t
  <2>1. /\ <<Head(t)>> \o Tail(t) \in Seq(S)
        /\ Len(<<Head(t)>> \o Tail(t)) = Len(t)
        /\ \A i \in 1..Len(t) : (<<Head(t)>> \o Tail(t))[i] = t[i]
    BY <1>1, ConcatProperties, HeadTailProperties
  <2>2. QED
    BY <2>1, SeqEqual
<1>3. Append(s, Head(t)) = s \o <<Head(t)>>
  BY <1>1, AppendIsConcat
<1>4. QED
  BY <1>1, <1>2, <1>3, ConcatAssociative

\* What the two queues and the push under way make of the messages taken.
Order(t, out, in, push) == t \o out \o in \o push

(* QueueInv, with the queues named by their roles. *)
LEMMA QueueInvRoles ==
    QueueInv <=>
        /\ ~raced => Order(taken, ToTake, queue[m_InputQueue], Pushing) = arrived
        /\ pushing # NoPush /\ pushing.into = m_OutputQueue => queue[m_InputQueue] = <<>>
BY DEF QueueInv, QueuesKeepOrder, Order, ToTake, m_OutputQueue, Pushing

LEMMA QueueInvRolesAfter ==
    QueueInv' <=>
        /\ ~raced' => Order(taken', ToTake', queue'[m_InputQueue'], Pushing') = arrived'
        /\ pushing' # NoPush /\ pushing'.into = m_OutputQueue' => queue'[m_InputQueue'] = <<>>
BY DEF QueueInv, QueuesKeepOrder, Order, ToTake, m_OutputQueue, Pushing

LEMMA QueueSteps ==
    ASSUME TypeInv, QueueInv, BeginPush \/ EndPush \/ LookForMessage \/ TakeMessage
    PROVE  QueueInv'
<1> DEFINE out == ToTake
           in == queue[m_InputQueue]
<1>1. /\ taken \in Seq(Message) /\ arrived \in Seq(Message)
      /\ queue \in [1..2 -> Seq(Message)]
      /\ m_InputQueue \in 1..2 /\ m_OutputQueue \in 1..2 /\ m_InputQueue # m_OutputQueue
      /\ m_OutputQueue = 3 - m_InputQueue
  BY DEF TypeInv, TypeOK, SessionTypeOK, m_OutputQueue
<1>2. out \in Seq(Message) /\ in \in Seq(Message)
  BY <1>1 DEF ToTake
<1>3. Pushing \in Seq(Message)
  BY DEF TypeInv, Pushing
<1>4. <<>> \in Seq(Message)
  OBVIOUS
<1>5. /\ ~raced => Order(taken, out, in, Pushing) = arrived
      /\ pushing # NoPush /\ pushing.into = m_OutputQueue => in = <<>>
  BY QueueInvRoles
<1>6. CASE BeginPush
  <2>1. /\ queue' = queue /\ m_InputQueue' = m_InputQueue /\ taken' = taken /\ raced' = raced
        /\ pushing = NoPush /\ ToTake' = ToTake /\ m_OutputQueue' = m_OutputQueue
    BY <1>6 DEF BeginPush, IoThreadFree, ToTake, m_OutputQueue
  <2>2. PICK p \in NextPiece("server") :
            /\ FillsBody("server", p)
            /\ IF p.bytes = Garbage
                 THEN UNCHANGED <<pushing, arrived>>
                 ELSE /\ pushing' = [into |-> m_InputQueue, message |-> p.bytes]
                      /\ arrived' = Append(arrived, p.bytes)
    BY <1>6 DEF BeginPush
  <2>3. CASE p.bytes = Garbage
    BY <1>5, <2>1, <2>2, <2>3, QueueInvRolesAfter DEF Pushing
  <2>4. CASE p.bytes # Garbage
    <3>1. p.bytes \in Message
      <4>1. p \in Piece
        BY PieceTypes, TypeInvParts DEF End
      <4>2. QED
        BY <2>2, <2>4, <4>1 DEF Piece, FillsBody, Bytes
    <3>2. /\ pushing' # NoPush /\ pushing'.into = m_InputQueue
          /\ Pushing' = <<p.bytes>> /\ arrived' = arrived \o <<p.bytes>>
      <4>1. pushing' = [into |-> m_InputQueue, message |-> p.bytes]
        BY <2>2, <2>4
      <4>2. pushing'.into = m_InputQueue /\ pushing'.message = p.bytes
        BY <4>1
      <4>3. NoPush.into = 0
        BY DEF NoPush
      <4>4. pushing' # NoPush
        BY <1>1, <4>2, <4>3
      <4>5. arrived' = arrived \o <<p.bytes>>
        BY <1>1, <2>2, <2>4, <3>1, AppendIsConcat
      <4>6. QED
        BY <4>2, <4>4, <4>5 DEF Pushing
    <3>3. Order(taken, out, in, <<>>) = taken \o out \o in
      BY <1>1, <1>2, ConcatProperties, ConcatEmptySeq DEF Order
    <3>4. ~raced => taken \o out \o in = arrived
      BY <1>5, <2>1, <3>3 DEF Pushing
    <3>5. ~raced' => Order(taken, out, in, <<p.bytes>>) = arrived'
      BY <2>1, <3>2, <3>4 DEF Order
    <3>6. QED
      BY <1>1, <2>1, <3>2, <3>5, QueueInvRolesAfter
  <2>5. QED
    BY <2>3, <2>4
<1>7. CASE EndPush
  <2> DEFINE m == pushing.message
  <2>1. /\ pushing # NoPush /\ pushing.into \in 1..2 /\ m \in Message
        /\ pushing' = NoPush /\ Pushing = <<m>> /\ Pushing' = <<>>
        /\ taken' = taken /\ arrived' = arrived
        /\ m_InputQueue' = m_InputQueue /\ m_OutputQueue' = m_OutputQueue
        /\ raced => raced'
    BY <1>7 DEF EndPush, TypeInv, Pushing, m_OutputQueue
  <2>2. SUFFICES ASSUME ~raced'
                 PROVE  Order(taken, ToTake', queue'[m_InputQueue], <<>>) = arrived
    BY <2>1, QueueInvRolesAfter
  <2>3. queue' = [queue EXCEPT ![pushing.into] = Append(queue[pushing.into], m)]
    BY <1>7, <2>2 DEF EndPush, Pushed
  <2>4. Order(taken, out, in, <<m>>) = arrived
    BY <1>5, <2>1, <2>2
  <2>5. taken \o out \in Seq(Message) /\ <<m>> \in Seq(Message)
    BY <1>1, <1>2, <2>1, ConcatProperties
  <2>6. CASE pushing.into = m_InputQueue
    <3>1. ToTake' = out /\ queue'[m_InputQueue] = in \o <<m>>
      BY <1>1, <1>2, <2>1, <2>3, <2>6, AppendIsConcat DEF ToTake
    <3>2. (taken \o out) \o (in \o <<m>>) = ((taken \o out) \o in) \o <<m>>
      <4> DEFINE before == taken \o out
                 last == <<m>>
      <4>1. before \in Seq(Message) /\ in \in Seq(Message) /\ last \in Seq(Message)
        BY <1>2, <2>5
      <4> HIDE DEF before, last, in
      <4>2. (before \o in) \o last = before \o (in \o last)
        BY <4>1, ConcatAssociative
      <4>3. QED
        BY <4>2, Zenon DEF before, last
    <3>3. ((taken \o out) \o (in \o <<m>>)) \o <<>> = (taken \o out) \o (in \o <<m>>)
      BY <1>2, <2>5, ConcatProperties, ConcatEmptySeq
    <3>4. QED
      BY <2>4, <3>1, <3>2, <3>3 DEF Order
  <2>7. CASE pushing.into = m_OutputQueue
    <3>1. /\ in = <<>> /\ queue'[m_InputQueue] = <<>>
          /\ ToTake' = out \o <<m>>
      BY <1>1, <1>2, <1>5, <2>1, <2>3, <2>7, AppendIsConcat DEF ToTake
    <3>2. taken \o (out \o <<m>>) = (taken \o out) \o <<m>>
      BY <1>1, <1>2, <2>5, ConcatAssociative
    <3>3. (taken \o out) \o <<>> = taken \o out
      BY <2>5, ConcatEmptySeq
    <3>4. ((taken \o (out \o <<m>>)) \o <<>>) \o <<>> = taken \o (out \o <<m>>)
      BY <1>1, <1>2, <2>5, ConcatProperties, ConcatEmptySeq
    <3>5. QED
      BY <2>4, <3>1, <3>2, <3>3, <3>4 DEF Order
  <2>8. QED
    BY <1>1, <2>1, <2>6, <2>7
<1>8. CASE LookForMessage
  <2>1. /\ UNCHANGED <<queue, pushing, arrived, taken, raced>>
        /\ Pushing' = Pushing
    BY <1>8 DEF LookForMessage, Pushing
  <2>2. CASE UNCHANGED m_InputQueue
    <3>1. ToTake' = ToTake /\ m_OutputQueue' = m_OutputQueue
      BY <2>1, <2>2 DEF ToTake, m_OutputQueue
    <3>2. QED
      BY <1>5, <2>1, <2>2, <3>1, QueueInvRolesAfter
  <2>3. CASE MaySwap /\ m_InputQueue' = m_OutputQueue
    <3>1. m_OutputQueue' = m_InputQueue
      BY <1>1, <2>3 DEF m_OutputQueue
    <3>2. /\ out = <<>> /\ in # <<>>
          /\ ToTake' = in /\ queue'[m_InputQueue'] = <<>>
      BY <2>1, <2>3, <3>1 DEF MaySwap, ToTake
    <3>3. Order(taken, in, <<>>, Pushing) = Order(taken, <<>>, in, Pushing)
      BY <1>1, <1>2, ConcatProperties, ConcatEmptySeq DEF Order
    <3>4. QED
      BY <1>5, <2>1, <3>2, <3>3, QueueInvRolesAfter
  <2>4. QED
    BY <1>8, <2>2, <2>3 DEF LookForMessage
<1>9. CASE TakeMessage
  <2>1. /\ UNCHANGED <<m_InputQueue, pushing, arrived>> /\ Pushing' = Pushing
        /\ m_OutputQueue' = m_OutputQueue /\ (raced => raced')
        /\ out # <<>>
    BY <1>9 DEF TakeMessage, Pushing, m_OutputQueue, TypeInv
  <2>2. queue' = [queue EXCEPT ![m_OutputQueue] = Tail(out)] /\ taken' = Append(taken, Head(out))
    BY <1>9 DEF TakeMessage, ToTake
  <2>3. ToTake' = Tail(out) /\ queue'[m_InputQueue'] = in
    BY <1>1, <2>1, <2>2 DEF ToTake
  <2>4. taken' \o Tail(out) = taken \o out
    BY <1>1, <1>2, <2>1, <2>2, MovingKeepsConcat
  <2>5. Order(taken', ToTake', in, Pushing) = Order(taken, out, in, Pushing)
    BY <2>3, <2>4 DEF Order
  <2>6. QED
    BY <1>5, <2>1, <2>3, <2>5, QueueInvRolesAfter
<1>10. QED
  BY <1>6, <1>7, <1>8, <1>9

LEMMA QueueNext == TypeInv /\ QueueInv /\ [Next]_vars => QueueInv'
<1> SUFFICES ASSUME TypeInv, QueueInv, [Next]_vars PROVE QueueInv'
  OBVIOUS
<1>1. CASE UNCHANGED queueVars
  BY <1>1 DEF queueVars, QueueInv, QueuesKeepOrder, m_OutputQueue
<1>2. CASE BeginPush \/ EndPush \/ LookForMessage \/ TakeMessage
  BY <1>2, QueueSteps
<1>3. CASE Connects
  <2>1. CASE Reconnects
    <3>1. /\ queue' = [i \in 1..2 |-> <<>>] /\ m_InputQueue' = 1 /\ pushing' = NoPush
          /\ taken' = <<>> /\ arrived' = <<>>
      BY <1>3, <2>1, Zenon DEF Connects, NewSession
    <3>2. queue'[1] = <<>> /\ queue'[2] = <<>> /\ m_OutputQueue' = 2
      BY <3>1 DEF m_OutputQueue
    <3>3. Order(<<>>, <<>>, <<>>, <<>>) = <<>>
      BY ConcatEmptySeq, EmptySeq DEF Order
    <3>4. QED
      BY <3>1, <3>2, <3>3, QueueInvRolesAfter DEF ToTake, Pushing
  <2>2. CASE ~Reconnects
    BY <1>1, <1>3, <2>2 DEF Connects, sessionVars
  <2>3. QED
    BY <2>1, <2>2
<1>4. CASE Start \/ ServerReadsHeader \/ SessionReadFails \/ SessionWriteFails
             \/ RunPosted \/ SessionLosesFraming
  BY <1>1, <1>4 DEF Start, ServerReadsHeader, SessionReadFails, SessionWriteFails, RunPosted,
                    SessionLosesFraming, sessionVars
<1>5. CASE UNCHANGED sessionVars \/ OtherUserSpeaks
  BY <1>1, <1>5 DEF sessionVars, OtherUserSpeaks
<1>6. CASE Next
  <2>1. CASE Establish \/ Refuse \/ Breaks \/ ConsoleStep \/ HandlerStep
    BY <1>5, <2>1 DEF Establish, Refuse, Breaks, ConsoleStep, HandlerStep
  <2>2. CASE \E e \in End : Transmits(e)
    BY <1>5, <2>2 DEF Transmits
  <2>3. QED
    BY <1>2, <1>3, <1>4, <1>5, <1>6, <2>1, <2>2 DEF Next, IoThreadStep, ServerThreadStep
<1>7. QED
  BY <1>5, <1>6 DEF vars

LEMMA QueueInit == Init => QueueInv
<1> SUFFICES ASSUME Init PROVE QueueInv
  OBVIOUS
<1>1. /\ queue = [i \in 1..2 |-> <<>>] /\ m_InputQueue = 1 /\ pushing = NoPush
      /\ taken = <<>> /\ arrived = <<>>
  BY Zenon DEF Init, SessionInit
<1>2. queue[1] = <<>> /\ queue[2] = <<>> /\ m_OutputQueue = 2
  BY <1>1 DEF m_OutputQueue
<1>3. Order(<<>>, <<>>, <<>>, <<>>) = <<>>
  BY ConcatEmptySeq, EmptySeq DEF Order
<1>4. QED
  BY <1>1, <1>2, <1>3, QueueInvRoles DEF ToTake, Pushing

(* The two queues and their swap are one queue: what was taken, what the     *)
(* queues hold and the push under way are what arrived, in its order, unless *)
(* both threads were at one queue at once (UserSession.cpp:85-117, 229).     *)
THEOREM QueuesAreOne == Spec => []QueuesKeepOrder
<1>1. QueueInv => QueuesKeepOrder
  BY DEF QueueInv
<1>2. QED
  BY <1>1, InitTypes, NextTypes, QueueInit, QueueNext, PTL DEF Spec

-----------------------------------------------------------------------------
(* Each end begins to read once *)

(* Who reads has begun to. *)
LEMMA ReaderHasBegun ==
    ASSUME NEW e \in End, reader[e].at # "off"
    PROVE  reader[e] # Off
<1>1. Off.at = "off"
  BY DEF Off
<1>2. QED
  BY <1>1

(* A step of the network, or of a reader that has begun. *)
LEMMA ReadsOnceKept ==
    ASSUME TypeInv, ReadsOnce,
           UNCHANGED <<console, logins, connecting, ioThread, stopped, session>>,
           socket' = socket \/ logins # 0,
           \A e \in End : reader'[e] = reader[e] \/ reader[e] # Off \/ reader'[e] = Off
    PROVE  ReadsOnce'
BY DEF ReadsOnce, End

LEMMA ReadsOnceNetwork ==
    ASSUME TypeInv, ReadsOnce,
           Establish \/ Refuse \/ Breaks \/ \E e \in End : Transmits(e)
    PROVE  ReadsOnce'
<1>1. UNCHANGED <<console, logins, connecting, ioThread, stopped, session, reader>>
  BY DEF Establish, Refuse, Breaks, Break, Transmits, Transmit, clientVars, sessionVars
<1>2. socket' = socket \/ logins # 0
  BY DEF Establish, Refuse, Breaks, Break, Transmits, Transmit, ReadsOnce
<1>3. QED
  BY <1>1, <1>2, ReadsOnceKept

LEMMA ReadsOnceConnects ==
    ASSUME TypeInv, ReadsOnce, Connects
    PROVE  ReadsOnce'
<1>1. /\ logins \in Nat /\ logins' = logins + 1
      /\ console = "menu" /\ console' = "connected"
      /\ UNCHANGED <<ioThread, stopped>>
  <2>1. logins \in 0..MaxLogins
    BY TypeInvParts DEF ClientTypeOK
  <2>2. QED
    BY <2>1, ChatClientAssumption DEF Connects, Connect, ConsoleGoes, ChatClientAssumption
<1>2. CASE Reconnects
  <2>1. reader' = [e \in End |-> Off]
    BY <1>2 DEF Connects, Connect
  <2>2. reader'["client"] = Off /\ reader'["server"] = Off
    BY <2>1 DEF End
  <2>3. QED
    BY <1>1, <2>2 DEF ReadsOnce
<1>3. CASE ~Reconnects
  <2>1. UNCHANGED <<streamVars, sessionVars>> /\ socket = "up"
    BY <1>3 DEF Connects, Connect, Reconnects
  <2>2. stopped
    BY <1>1, <2>1 DEF ReadsOnce
  <2>3. QED
    BY <1>1, <2>1, <2>2 DEF ReadsOnce, streamVars, sessionVars
<1>4. QED
  BY <1>2, <1>3

LEMMA ReadsOnceConsole ==
    ASSUME TypeInv, ReadsOnce, ConsoleStep
    PROVE  ReadsOnce'
<1>1. UNCHANGED <<socket, reader, logins, connecting, stopped, session>>
  BY DEF ConsoleStep, SendSessionId, StartThread, SetVerificationCallback, StopWaiting,
         ChatLoop, InputEnds, JoinThread, AsyncWrite, streamVars, clientVars, sessionVars
<1>2. console # "menu" \/ logins # 0
  BY DEF ConsoleStep, SendSessionId, StartThread, SetVerificationCallback, StopWaiting,
         ChatLoop, InputEnds, JoinThread, ConsoleGoes, ReadsOnce
<1>3. CASE StartThread \/ JoinThread
  BY <1>1, <1>2, <1>3 DEF StartThread, JoinThread, ConsoleGoes, ReadsOnce
<1>4. CASE UNCHANGED ioThread /\ (console' = console \/ console' # "menu")
  BY <1>1, <1>2, <1>4 DEF ReadsOnce
<1>5. QED
  BY <1>3, <1>4 DEF ConsoleStep, SendSessionId, SetVerificationCallback, StopWaiting,
                    ChatLoop, InputEnds, ConsoleGoes, clientVars

LEMMA ReadsOnceHandlers ==
    ASSUME TypeInv, ReadsOnce, HandlerStep
    PROVE  ReadsOnce'
<1>1. reader \in [End -> Reader] /\ session' = session
  BY TypeInvParts DEF StreamTypeOK, HandlerStep, sessionVars
<1>2. CASE OnConnect
  <2>1. reader'["server"] = reader["server"]
    BY <1>1, <1>2 DEF OnConnect, End
  <2>2. QED
    BY <1>1, <1>2, <2>1 DEF OnConnect, KeepsConsole, ReadsOnce
<1>3. CASE OnConnectError
  BY <1>1, <1>3 DEF OnConnectError, KeepsConsole, streamVars, ReadsOnce
<1>4. CASE RunReturns
  BY <1>1, <1>4 DEF RunReturns, streamVars, ReadsOnce
<1>5. CASE ClientReadsHeader \/ ClientReadsBody \/ ClientReadFails \/ ClientWriteFails
           \/ ClientLosesFraming
  <2>1. UNCHANGED <<console, logins, connecting, ioThread, stopped, session, socket>>
    BY <1>1, <1>5 DEF ClientReadsHeader, ClientReadsBody, ClientReadFails, ClientWriteFails,
       ClientLosesFraming, LosesFraming, Reads, ReadFails, WriteFails, KeepsConsole, clientVars
  <2>2. \/ reader' = reader
        \/ reader'["server"] = reader["server"] /\ reader["client"] # Off
    <3>1. CASE ClientReadsHeader \/ ClientReadsBody \/ ClientLosesFraming
      <4>1. reader["client"].at \in {"header", "body"}
        BY <3>1 DEF ClientReadsHeader, ClientReadsBody, ClientLosesFraming, LosesFraming
      <4>2. PICK next : reader' = [reader EXCEPT !["client"] = next]
        BY <3>1, Zenon DEF ClientReadsHeader, ClientReadsBody, ClientLosesFraming,
                           LosesFraming, Reads
      <4>3. QED
        BY <1>1, <4>1, <4>2, ReaderHasBegun DEF End
    <3>2. CASE ClientReadFails
      BY <1>1, <3>2 DEF ClientReadFails, ReadFails, End
    <3>3. CASE ClientWriteFails
      BY <3>3 DEF ClientWriteFails, WriteFails
    <3>4. QED
      BY <1>5, <3>1, <3>2, <3>3
  <2>3. QED
    BY <2>1, <2>2, ReadsOnceKept DEF End
<1>6. QED
  BY <1>2, <1>3, <1>4, <1>5 DEF HandlerStep

LEMMA ReadsOnceServer ==
    ASSUME TypeInv, ReadsOnce, IoThreadStep \/ ServerThreadStep
    PROVE  ReadsOnce'
<1>1. reader \in [End -> Reader] /\ UNCHANGED clientVars /\ socket' = socket
  BY TypeInvParts DEF StreamTypeOK, IoThreadStep, ServerThreadStep, Start, ServerReadsHeader,
     BeginPush, EndPush, SessionReadFails, SessionWriteFails, RunPosted, SessionLosesFraming,
     LosesFraming, Reads, ReadFails, WriteFails, AsyncWrite, LookForMessage, TakeMessage,
     streamVars
<1>2. CASE Start
  <2>1. reader'["client"] = reader["client"] /\ session' # "none"
    BY <1>1, <1>2 DEF Start, End
  <2>2. QED
    BY <1>1, <2>1 DEF clientVars, ReadsOnce
<1>3. CASE ServerReadsHeader \/ BeginPush \/ SessionLosesFraming
  <2>1. reader["server"].at \in {"header", "body"} /\ session' = session
    BY <1>3 DEF ServerReadsHeader, BeginPush, SessionLosesFraming, LosesFraming, sessionVars
  <2>2. PICK next : reader' = [reader EXCEPT !["server"] = next]
    BY <1>3, Zenon DEF ServerReadsHeader, BeginPush, SessionLosesFraming, LosesFraming, Reads
  <2>3. reader["server"] # Off /\ reader'["client"] = reader["client"]
    BY <1>1, <2>1, <2>2, ReaderHasBegun DEF End
  <2>4. QED
    BY <1>1, <2>1, <2>3, ReadsOnceKept DEF clientVars, End
<1>4. CASE SessionReadFails
  <2>1. reader'["server"] = Off /\ reader'["client"] = reader["client"] /\ session' = session
    BY <1>1, <1>4 DEF SessionReadFails, ReadFails, End
  <2>2. QED
    BY <1>1, <2>1, ReadsOnceKept DEF clientVars, End
<1>5. CASE EndPush \/ SessionWriteFails \/ RunPosted \/ ServerThreadStep
  <2>1. reader' = reader
    BY <1>5 DEF EndPush, SessionWriteFails, WriteFails, RunPosted, AsyncWrite,
                ServerThreadStep, LookForMessage, TakeMessage, streamVars
  <2>2. session' = session \/ (session = "waiting" /\ session' = "verified")
    <3>1. CASE TakeMessage
      BY <3>1, Zenon DEF TakeMessage, Handled
    <3>2. CASE LookForMessage
      BY <3>2 DEF LookForMessage
    <3>3. QED
      BY <1>5, <3>1, <3>2 DEF EndPush, SessionWriteFails, RunPosted, ServerThreadStep
  <2>3. QED
    BY <1>1, <2>1, <2>2 DEF clientVars, ReadsOnce
<1>6. QED
  BY <1>2, <1>3, <1>4, <1>5 DEF IoThreadStep

LEMMA ReadsOnceInit == Init => ReadsOnce
<1> SUFFICES ASSUME Init PROVE ReadsOnce
  OBVIOUS
<1>1. reader["client"] = Off /\ reader["server"] = Off
  BY DEF Init, StreamInit, End
<1>2. QED
  BY <1>1 DEF Init, StreamInit, ClientInit, ReadsOnce

LEMMA ReadsOnceNext == TypeInv /\ ReadsOnce /\ [Next]_vars => ReadsOnce'
<1> SUFFICES ASSUME TypeInv, ReadsOnce, [Next]_vars PROVE ReadsOnce'
  OBVIOUS
<1>1. CASE UNCHANGED vars
  BY <1>1 DEF vars, streamVars, clientVars, sessionVars, ReadsOnce
<1>2. CASE OtherUserSpeaks /\ UNCHANGED clientVars
  BY <1>2 DEF OtherUserSpeaks, streamVars, clientVars, ReadsOnce
<1>3. QED
  BY <1>1, <1>2, ReadsOnceNetwork, ReadsOnceConnects, ReadsOnceConsole, ReadsOnceHandlers,
     ReadsOnceServer DEF Next

-----------------------------------------------------------------------------
(* The first login *)

\* What the server has for the client, before the client has read it.
ForClient == <<posted, writes["server"], wire["server"]>>

(* A step that leaves the login alone. *)
LEMMA LoginKept ==
    ASSUME LoginInv, UNCHANGED <<session, logins, m_IsVerified>>,
           console' = "chat" => console = "chat" \/ m_IsVerified,
           session = "verified" \/ UNCHANGED ForClient
    PROVE  LoginInv'
BY DEF LoginInv, ForClient

(* Who reads or transmits what the server has, finds it verified. *)
LEMMA NothingBeforeLogin ==
    ASSUME LoginInv, TypeInv,
           \/ NextPiece("client") # {}
           \/ posted # <<>>
           \/ writes["server"] # <<>>
    PROVE  session = "verified"
BY DEF LoginInv, NextPiece, Other

LEMMA LoginNetwork ==
    ASSUME TypeInv, LoginInv, Establish \/ Refuse \/ Breaks \/ \E e \in End : Transmits(e)
    PROVE  LoginInv'
<1>1. writes \in [End -> Seq(Write)] /\ wire \in [End -> Seq(Piece)]
  BY TypeInvParts DEF StreamTypeOK
<1>2. UNCHANGED <<clientVars, sessionVars>>
  BY DEF Establish, Refuse, Breaks, Transmits
<1>3. CASE Establish \/ Refuse
  BY <1>2, <1>3, LoginKept DEF Establish, Refuse, clientVars, sessionVars, ForClient
<1>4. CASE Breaks
  <2>1. wire'["server"] = <<>> /\ writes' = writes
    BY <1>4 DEF Breaks, Break, End
  <2>2. QED
    BY <1>2, <2>1 DEF clientVars, sessionVars, LoginInv
<1>5. ASSUME NEW e \in End, Transmits(e) PROVE LoginInv'
  <2>1. CASE e = "server"
    <3>1. writes["server"] # <<>>
      BY <1>1, <1>5, <2>1 DEF Transmits, Transmit
    <3>2. QED
      BY <1>2, <3>1, LoginKept, NothingBeforeLogin DEF clientVars, sessionVars
  <2>2. CASE e = "client"
    <3>1. PICK i \in DOMAIN writes["client"] :
              /\ \/ writes' = [writes EXCEPT !["client"][i].next = "body"]
                 \/ writes' = [writes EXCEPT !["client"] = RemoveAt(@, i)]
              /\ \E b : wire' = [wire EXCEPT !["client"] = b]
      BY <1>5, <2>2, Zenon DEF Transmits, Transmit
    <3>2. writes'["server"] = writes["server"] /\ wire'["server"] = wire["server"]
      BY <1>1, <3>1 DEF End
    <3>3. QED
      BY <1>2, <3>2, LoginKept DEF clientVars, sessionVars, ForClient
  <2>3. QED
    BY <2>1, <2>2 DEF End
<1>6. QED
  BY <1>3, <1>4, <1>5

LEMMA LoginConnects ==
    ASSUME TypeInv, LoginInv, Connects
    PROVE  LoginInv'
<1>1. /\ logins \in Nat /\ logins' = logins + 1
      /\ console' = "connected" /\ m_IsVerified' = m_IsVerified
  <2>1. logins \in 0..MaxLogins
    BY TypeInvParts DEF ClientTypeOK
  <2>2. QED
    BY <2>1, ChatClientAssumption DEF Connects, Connect, ConsoleGoes, ChatClientAssumption
<1>2. logins' # 0 /\ (logins' <= 1 => ~m_IsVerified')
  BY <1>1 DEF LoginInv
<1>3. CASE Reconnects
  <2>1. /\ posted' = <<>>
        /\ writes' = [e \in End |-> <<>>] /\ wire' = [e \in End |-> <<>>]
    BY <1>3, Zenon DEF Connects, Connect, NewSession
  <2>2. writes'["server"] = <<>> /\ wire'["server"] = <<>>
    BY <2>1 DEF End
  <2>3. QED
    BY <1>1, <1>2, <2>1, <2>2 DEF LoginInv
<1>4. CASE ~Reconnects
  <2>1. UNCHANGED <<session, ForClient>>
    BY <1>4 DEF Connects, Connect, streamVars, sessionVars, ForClient
  <2>2. QED
    BY <1>1, <1>2, <2>1 DEF LoginInv, ForClient
<1>5. QED
  BY <1>3, <1>4

LEMMA LoginConsole ==
    ASSUME TypeInv, LoginInv, ConsoleStep
    PROVE  LoginInv'
<1>1. writes \in [End -> Seq(Write)]
  BY TypeInvParts DEF StreamTypeOK
<1>2. UNCHANGED <<session, posted, logins, m_IsVerified, wire>>
  BY DEF ConsoleStep, SendSessionId, StartThread, SetVerificationCallback, StopWaiting,
         ChatLoop, InputEnds, JoinThread, AsyncWrite, streamVars, clientVars, sessionVars
<1>3. console' = "chat" => console = "chat" \/ m_IsVerified
  BY DEF ConsoleStep, SendSessionId, StartThread, SetVerificationCallback, StopWaiting,
         ChatLoop, InputEnds, JoinThread, ConsoleGoes, clientVars
<1>4. writes'["server"] = writes["server"]
  <2>1. CASE \E m : AsyncWrite("client", m)
    <3>1. \E ws : writes' = [writes EXCEPT !["client"] = ws]
      BY <2>1, Zenon DEF AsyncWrite
    <3>2. QED
      BY <1>1, <3>1 DEF End
  <2>2. CASE UNCHANGED streamVars
    BY <2>2 DEF streamVars
  <2>3. QED
    BY <2>1, <2>2 DEF ConsoleStep, SendSessionId, StartThread, SetVerificationCallback,
                      StopWaiting, ChatLoop, InputEnds, JoinThread
<1>5. QED
  BY <1>2, <1>3, <1>4, LoginKept DEF ForClient

LEMMA LoginHandlers ==
    ASSUME TypeInv, LoginInv, HandlerStep
    PROVE  LoginInv'
<1>1. writes \in [End -> Seq(Write)] /\ UNCHANGED <<session, posted>>
  BY TypeInvParts DEF StreamTypeOK, HandlerStep, sessionVars
<1>2. CASE OnConnect \/ OnConnectError \/ RunReturns \/ ClientReadFails
  BY <1>1, <1>2, LoginKept DEF OnConnect, OnConnectError, RunReturns, ClientReadFails,
                          ReadFails, KeepsConsole, streamVars, clientVars, ForClient
<1>3. CASE ClientReadsHeader \/ ClientReadsBody \/ ClientLosesFraming
  <2>1. session = "verified"
    BY <1>3, NothingBeforeLogin DEF ClientReadsHeader, ClientReadsBody, ClientLosesFraming,
                               LosesFraming
  <2>2. UNCHANGED <<logins, console>>
    BY <1>3 DEF ClientReadsHeader, ClientReadsBody, ClientLosesFraming, KeepsConsole, clientVars
  <2>3. m_IsVerified => m_IsVerified'
    BY <1>3 DEF ClientReadsHeader, ClientReadsBody, ClientLosesFraming, OnMessage, clientVars
  <2>4. QED
    BY <1>1, <2>1, <2>2, <2>3 DEF LoginInv
<1>4. CASE ClientWriteFails
  <2>1. writes' = [writes EXCEPT !["client"] = Tail(@)] /\ wire' = wire
    BY <1>4 DEF ClientWriteFails, WriteFails
  <2>2. writes'["server"] = writes["server"]
    BY <1>1, <2>1 DEF End
  <2>3. QED
    BY <1>1, <1>4, <2>1, <2>2, LoginKept DEF ClientWriteFails, clientVars, ForClient
<1>5. QED
  BY <1>2, <1>3, <1>4 DEF HandlerStep

LEMMA LoginServer ==
    ASSUME TypeInv, ReadsOnce, LoginInv, IoThreadStep \/ ServerThreadStep
    PROVE  LoginInv'
<1>1. wire \in [End -> Seq(Piece)] /\ UNCHANGED clientVars
  BY TypeInvParts DEF StreamTypeOK, IoThreadStep, ServerThreadStep
<1>2. CASE Start
  BY <1>1, <1>2 DEF Start, clientVars, LoginInv, ReadsOnce
<1>3. CASE ServerReadsHeader \/ BeginPush \/ SessionLosesFraming
  <2>1. /\ wire' = [wire EXCEPT ![Other("server")] = Tail(@)]
        /\ UNCHANGED <<session, posted, writes>>
    BY <1>3 DEF ServerReadsHeader, BeginPush, SessionLosesFraming, LosesFraming, Reads,
                sessionVars
  <2>2. wire'["server"] = wire["server"]
    BY <1>1, <2>1 DEF Other, End
  <2>3. QED
    BY <1>1, <2>1, <2>2, LoginKept DEF clientVars, ForClient
<1>4. CASE EndPush \/ SessionReadFails \/ LookForMessage
  BY <1>1, <1>4, LoginKept DEF EndPush, SessionReadFails, ReadFails, LookForMessage,
                               streamVars, clientVars, ForClient
<1>5. CASE SessionWriteFails \/ RunPosted
  <2>1. session = "verified" /\ session' = session
    BY <1>5, NothingBeforeLogin DEF SessionWriteFails, WriteFails, RunPosted
  <2>2. QED
    BY <1>1, <2>1, LoginKept DEF clientVars
<1>6. CASE TakeMessage
  <2>1. UNCHANGED streamVars
    BY <1>6 DEF TakeMessage
  <2>2. \/ session = "waiting" /\ UNCHANGED <<session, posted>>
        \/ session \in {"waiting", "verified"} /\ session' = "verified"
    BY <1>6, Zenon DEF TakeMessage, Handled
  <2>3. QED
    BY <1>1, <2>1, <2>2 DEF streamVars, clientVars, LoginInv
<1>7. QED
  BY <1>2, <1>3, <1>4, <1>5, <1>6 DEF IoThreadStep, ServerThreadStep

LEMMA LoginInit == Init => LoginInv
<1> SUFFICES ASSUME Init PROVE LoginInv
  OBVIOUS
<1>1. writes = [e \in End |-> <<>>] /\ wire = [e \in End |-> <<>>]
  BY DEF Init, StreamInit
<1>2. writes["server"] = <<>> /\ wire["server"] = <<>>
  BY <1>1 DEF End
<1>3. posted = <<>> /\ session = "none" /\ ~m_IsVerified /\ console = "menu"
  BY Zenon DEF Init, SessionInit, ClientInit
<1>4. QED
  BY <1>2, <1>3 DEF LoginInv

LEMMA LoginNext == TypeInv /\ ReadsOnce /\ LoginInv /\ [Next]_vars => LoginInv'
<1> SUFFICES ASSUME TypeInv, ReadsOnce, LoginInv, [Next]_vars PROVE LoginInv'
  OBVIOUS
<1>1. CASE UNCHANGED vars
  BY <1>1, LoginKept DEF vars, streamVars, clientVars, sessionVars, ForClient
<1>2. CASE OtherUserSpeaks /\ UNCHANGED clientVars
  BY <1>2, LoginKept DEF OtherUserSpeaks, clientVars
<1>3. QED
  BY <1>1, <1>2, LoginNetwork, LoginConnects, LoginConsole, LoginHandlers, LoginServer DEF Next

(* On the first login nobody chats before the server has verified the      *)
(* session: m_IsVerified follows from an answer, an answer from the server *)
(* thread's verification (Client.cpp:138-151, TcpServer.cpp:131).          *)
THEOREM FirstChatVerified == Spec => []FirstChatIsVerified
<1>1. TypeInv /\ LoginInv => FirstChatIsVerified
  BY DEF LoginInv, FirstChatIsVerified
<1>2. QED
  BY <1>1, InitTypes, NextTypes, ReadsOnceInit, ReadsOnceNext, LoginInit, LoginNext, PTL
     DEF Spec

-----------------------------------------------------------------------------
(* One direction of the stream: the messages s sent by end e, the writes ws *)
(* under way from the buffer buf, the pieces on the wire, the messages got  *)
(* at the other end and its reader r.                                       *)

(* A write begins, and none is under way. *)
LEMMA InStepWrites ==
    ASSUME NEW e \in End, NEW m \in Message, NEW buf, NEW pieces \in Seq(Piece),
           NEW s \in Seq(Message), NEW got \in Seq(Message), NEW r \in Reader,
           InStepWith(e, <<>>, buf, pieces, s, got, r)
    PROVE  InStepWith(e, <<NewWrite(m)>>, m, pieces, Append(s, m), got, r)
<1> DEFINE t == Append(s, m)
           ws == <<NewWrite(m)>>
           read == PiecesRead(got, r)
<1>1. /\ Len(t) = Len(s) + 1 /\ t[Len(t)] = m /\ t # <<>> /\ t \in Seq(Message)
      /\ \A k \in 1..Len(s) : t[k] = s[k]
  BY AppendProperties
<1>2. /\ ws # <<>> /\ Len(ws) = 1
      /\ ws[1].intact = TRUE /\ ws[1].size = Size[m] /\ ws[1].next = "header"
  BY DEF NewWrite
<1>3. /\ Len(s) \in Nat /\ Len(got) \in Nat /\ Len(pieces) \in Nat
      /\ read \in Nat /\ read >= 2 * Len(got)
      /\ r.at = "body" => read = 2 * Len(got) + 1
  BY DEF PiecesRead
<1>4. read + Len(pieces) = 2 * Len(s)
  BY <1>3 DEF InStepWith, PiecesToSend
<1>5. WritesLast(ws, m, t)
  BY <1>1, <1>2 DEF WritesLast
<1>6. PiecesToSend(ws) = 2
  BY <1>2 DEF PiecesToSend
<1>7. OnTheWire(e, pieces, t, read)
  <2>1. OnTheWire(e, pieces, s, read)
    BY DEF InStepWith
  <2>2. SUFFICES ASSUME NEW k \in 1..Len(t)
                 PROVE  LET h == 2 * k - 1 - read IN
                        /\ h \in 1..Len(pieces) => pieces[h] = HeaderOf(e, t[k])
                        /\ h + 1 \in 1..Len(pieces) => pieces[h + 1] = BodyOf(t[k])
    BY DEF OnTheWire
  <2> HIDE DEF read, t
  <2>3. CASE k \in 1..Len(s)
    BY <1>1, <2>1, <2>3 DEF OnTheWire
  <2>4. CASE k = Len(s) + 1
    <3>1. 2 * k - 1 - read = Len(pieces) + 1
      <4>1. \A i, j, l \in Nat : i + j = 2 * l => 2 * (l + 1) - 1 - i = j + 1
        OBVIOUS
      <4>2. QED
        BY <1>3, <1>4, <2>4, <4>1
    <3>2. QED
      BY <1>3, <3>1
  <2>5. QED
    BY <1>1, <1>3, <2>3, <2>4
<1>8. r.at = "body" => r.size = Size[t[Len(got) + 1]]
  BY <1>1, <1>3, <1>4 DEF InStepWith
<1>9. read + Len(pieces) + PiecesToSend(ws) = 2 * Len(t)
  BY <1>1, <1>3, <1>4, <1>6
<1>10. QED
  BY <1>5, <1>7, <1>8, <1>9 DEF InStepWith

(* The piece that is next to be written comes to the end of the wire. *)
LEMMA AtTheEndOfTheWire ==
    ASSUME NEW e \in End, NEW pieces \in Seq(Piece), NEW s \in Seq(Message), s # <<>>,
           NEW read \in Nat, NEW p \in Piece, OnTheWire(e, pieces, s, read),
           \/ read + Len(pieces) + 2 = 2 * Len(s) /\ p = HeaderOf(e, s[Len(s)])
           \/ read + Len(pieces) + 1 = 2 * Len(s) /\ p = BodyOf(s[Len(s)])
    PROVE  OnTheWire(e, Append(pieces, p), s, read)
<1> DEFINE longer == Append(pieces, p)
           n == Len(pieces)
<1>1. /\ n \in Nat /\ Len(s) \in Nat /\ Len(longer) = n + 1 /\ longer[n + 1] = p
      /\ \A i \in 1..n : longer[i] = pieces[i]
  BY AppendProperties
<1> HIDE DEF longer
<1>2. SUFFICES ASSUME NEW k \in 1..Len(s)
               PROVE  LET h == 2 * k - 1 - read IN
                      /\ h \in 1..(n + 1) => longer[h] = HeaderOf(e, s[k])
                      /\ h + 1 \in 1..(n + 1) => longer[h + 1] = BodyOf(s[k])
  BY <1>1 DEF OnTheWire, longer
<1> DEFINE h == 2 * k - 1 - read
<1>3. /\ h \in 1..n => pieces[h] = HeaderOf(e, s[k])
      /\ h + 1 \in 1..n => pieces[h + 1] = BodyOf(s[k])
  BY DEF OnTheWire
<1>4. h \in Int
  BY <1>1
<1>5. /\ h = n + 1 => k = Len(s) /\ p = HeaderOf(e, s[Len(s)])
      /\ h + 1 = n + 1 => k = Len(s) /\ p = BodyOf(s[Len(s)])
  BY <1>1
<1> HIDE DEF h, n
<1>6. ASSUME h \in 1..(n + 1) PROVE longer[h] = HeaderOf(e, s[k])
  <2>1. CASE h = n + 1
    BY <1>1, <1>5, <2>1, Zenon
  <2>2. CASE h \in 1..n
    BY <1>1, <1>3, <2>2
  <2>3. QED
    BY <1>1, <1>4, <1>6, <2>1, <2>2
<1>7. ASSUME h + 1 \in 1..(n + 1) PROVE longer[h + 1] = BodyOf(s[k])
  <2>1. CASE h + 1 = n + 1
    BY <1>1, <1>5, <2>1, Zenon
  <2>2. CASE h + 1 \in 1..n
    BY <1>1, <1>3, <2>2
  <2>3. QED
    BY <1>1, <1>4, <1>7, <2>1, <2>2
<1>8. QED
  BY <1>6, <1>7 DEF h, n

(* The header of the write under way is transmitted. *)
LEMMA InStepTransmitsHeader ==
    ASSUME NEW e \in End, NEW ws, NEW vs, NEW buf \in Message, NEW pieces \in Seq(Piece),
           NEW s \in Seq(Message), NEW got \in Seq(Message), NEW r \in Reader,
           InStepWith(e, ws, buf, pieces, s, got, r),
           ws # <<>>, ws[1].next = "header",
           vs # <<>>, Len(vs) = 1, vs[1].next = "body",
           vs[1].intact = ws[1].intact, vs[1].size = ws[1].size
    PROVE  InStepWith(e, vs, buf, Append(pieces, HeaderOf(e, buf)), s, got, r)
<1> DEFINE read == PiecesRead(got, r)
           p == HeaderOf(e, buf)
<1>1. /\ Len(s) \in Nat /\ Len(pieces) \in Nat /\ read \in Nat
      /\ Len(Append(pieces, p)) = Len(pieces) + 1
  BY DEF PiecesRead
<1>2. p \in Piece
  BY HeaderTypes DEF HeaderOf, Piece
<1>3. WritesLast(ws, buf, s) /\ OnTheWire(e, pieces, s, read)
  BY DEF InStepWith
<1>4. read + Len(pieces) + 2 = 2 * Len(s)
  BY DEF InStepWith, PiecesToSend
<1>5. s # <<>> /\ buf = s[Len(s)] /\ WritesLast(vs, buf, s)
  BY <1>3 DEF WritesLast
<1>6. PiecesToSend(vs) = 1
  BY DEF PiecesToSend
<1> HIDE DEF read, p
<1>7. OnTheWire(e, Append(pieces, p), s, read)
  BY <1>1, <1>2, <1>3, <1>4, <1>5, AtTheEndOfTheWire DEF p
<1>8. read + Len(Append(pieces, p)) + PiecesToSend(vs) = 2 * Len(s)
  BY <1>1, <1>4, <1>6
<1>9. QED
  BY <1>5, <1>7, <1>8 DEF InStepWith, read, p

(* Its body is transmitted, and the write has ended. *)
LEMMA InStepTransmitsBody ==
    ASSUME NEW e \in End, NEW ws, NEW buf \in Message, NEW pieces \in Seq(Piece),
           NEW s \in Seq(Message), NEW got \in Seq(Message), NEW r \in Reader,
           InStepWith(e, ws, buf, pieces, s, got, r),
           ws # <<>>, ws[1].next = "body"
    PROVE  InStepWith(e, <<>>, buf, Append(pieces, BodyOf(buf)), s, got, r)
<1> DEFINE read == PiecesRead(got, r)
           p == BodyOf(buf)
<1>1. /\ Len(s) \in Nat /\ Len(pieces) \in Nat /\ read \in Nat
      /\ Len(Append(pieces, p)) = Len(pieces) + 1
  BY DEF PiecesRead
<1>2. p \in Piece
  BY ByteStreamAssumption DEF BodyOf, Piece, Bytes, ByteStreamAssumption
<1>3. WritesLast(ws, buf, s) /\ OnTheWire(e, pieces, s, read)
  BY DEF InStepWith
<1>4. read + Len(pieces) + 1 = 2 * Len(s)
  BY DEF InStepWith, PiecesToSend
<1>5. s # <<>> /\ buf = s[Len(s)] /\ WritesLast(<<>>, buf, s)
  BY <1>3 DEF WritesLast
<1>6. PiecesToSend(<<>>) = 0
  BY DEF PiecesToSend
<1> HIDE DEF read, p
<1>7. OnTheWire(e, Append(pieces, p), s, read)
  BY <1>1, <1>2, <1>3, <1>4, <1>5, AtTheEndOfTheWire DEF p
<1>8. read + Len(Append(pieces, p)) + PiecesToSend(<<>>) = 2 * Len(s)
  BY <1>1, <1>4, <1>6
<1>9. QED
  BY <1>5, <1>7, <1>8 DEF InStepWith, read, p

(* The first piece leaves the wire. *)
LEMMA FromTheHeadOfTheWire ==
    ASSUME NEW e \in End, NEW pieces \in Seq(Piece), pieces # <<>>, NEW s \in Seq(Message),
           NEW read \in Nat, OnTheWire(e, pieces, s, read)
    PROVE  OnTheWire(e, Tail(pieces), s, read + 1)
<1> DEFINE rest == Tail(pieces)
           n == Len(pieces)
<1>1. /\ n \in Nat /\ n >= 1 /\ Len(rest) = n - 1
      /\ \A i \in 1..(n - 1) : rest[i] = pieces[i + 1]
  BY HeadTailProperties
<1> HIDE DEF rest
<1>2. SUFFICES ASSUME NEW k \in 1..Len(s)
               PROVE  LET h == 2 * k - 1 - (read + 1) IN
                      /\ h \in 1..(n - 1) => rest[h] = HeaderOf(e, s[k])
                      /\ h + 1 \in 1..(n - 1) => rest[h + 1] = BodyOf(s[k])
  BY <1>1 DEF OnTheWire, rest
<1> DEFINE g == 2 * k - 1 - read
<1>3. /\ g \in 1..n => pieces[g] = HeaderOf(e, s[k])
      /\ g + 1 \in 1..n => pieces[g + 1] = BodyOf(s[k])
  BY DEF OnTheWire
<1>4. g \in Int /\ 2 * k - 1 - (read + 1) = g - 1 /\ (g - 1) + 1 = g
  OBVIOUS
<1> HIDE DEF g, n
<1>5. g - 1 \in 1..(n - 1) => rest[g - 1] = HeaderOf(e, s[k])
  BY <1>1, <1>3, <1>4
<1>6. g \in 1..(n - 1) => rest[g] = BodyOf(s[k])
  BY <1>1, <1>3, <1>4
<1>7. QED
  BY <1>4, <1>5, <1>6

(* A reader in step that waits for a header finds the one of the next *)
(* message.                                                           *)
LEMMA InStepReadsHeader ==
    ASSUME NEW e \in End, NEW ws, NEW buf, NEW pieces \in Seq(Piece), pieces # <<>>,
           NEW s \in Seq(Message), NEW got \in Seq(Message), NEW r \in Reader,
           InStepWith(e, ws, buf, pieces, s, got, r), r.at = "header"
    PROVE  LET k == Len(got) + 1 IN
           /\ k \in 1..Len(s)
           /\ Head(pieces) = HeaderOf(e, s[k])
           /\ InStepWith(e, ws, buf, Tail(pieces), s, got, ReadBody(Size[s[k]]))
<1> DEFINE read == PiecesRead(got, r)
           k == Len(got) + 1
           q == ReadBody(Size[s[k]])
<1>1. /\ Len(s) \in Nat /\ Len(pieces) \in Nat /\ Len(pieces) >= 1 /\ Len(got) \in Nat
      /\ Len(Tail(pieces)) = Len(pieces) - 1 /\ Head(pieces) = pieces[1]
      /\ PiecesToSend(ws) \in 0..2
  BY HeadTailProperties DEF PiecesToSend
<1>2. read = 2 * Len(got) /\ q.at = "body" /\ q.size = Size[s[k]] /\ PiecesRead(got, q) = read + 1
  BY <1>1 DEF PiecesRead, ReadBody
<1>3. /\ WritesLast(ws, buf, s) /\ OnTheWire(e, pieces, s, read)
      /\ read + Len(pieces) + PiecesToSend(ws) = 2 * Len(s)
  BY DEF InStepWith
<1> HIDE DEF read, q
<1>4. k \in 1..Len(s) /\ 2 * k - 1 - read = 1 /\ 1 \in 1..Len(pieces)
  BY <1>1, <1>2, <1>3
<1>5. Head(pieces) = HeaderOf(e, s[k])
  <2>1. pieces[1] = HeaderOf(e, s[k])
    BY <1>3, <1>4 DEF OnTheWire
  <2>2. QED
    BY <1>1, <2>1, Zenon
<1>6. OnTheWire(e, Tail(pieces), s, read + 1)
  BY <1>1, <1>2, <1>3, FromTheHeadOfTheWire
<1>7. (read + 1) + Len(Tail(pieces)) + PiecesToSend(ws) = 2 * Len(s)
  BY <1>1, <1>2, <1>3
<1>8. InStepWith(e, ws, buf, Tail(pieces), s, got, q)
  BY <1>2, <1>3, <1>6, <1>7 DEF InStepWith
<1>9. QED
  BY <1>4, <1>5, <1>8 DEF q

(* A reader in step that waits for a body finds the one of the next message. *)
LEMMA InStepReadsBody ==
    ASSUME NEW e \in End, NEW ws, NEW buf, NEW pieces \in Seq(Piece), pieces # <<>>,
           NEW s \in Seq(Message), NEW got \in Seq(Message), NEW r \in Reader,
           InStepWith(e, ws, buf, pieces, s, got, r), r.at = "body"
    PROVE  LET k == Len(got) + 1 IN
           /\ k \in 1..Len(s)
           /\ r.size = Size[s[k]] /\ Head(pieces) = BodyOf(s[k])
           /\ InStepWith(e, ws, buf, Tail(pieces), s, Append(got, s[k]), ReadHeader)
<1> DEFINE read == PiecesRead(got, r)
           k == Len(got) + 1
           more == Append(got, s[k])
<1>1. /\ Len(s) \in Nat /\ Len(pieces) \in Nat /\ Len(pieces) >= 1 /\ Len(got) \in Nat
      /\ Len(Tail(pieces)) = Len(pieces) - 1 /\ Head(pieces) = pieces[1]
      /\ PiecesToSend(ws) \in 0..2
  BY HeadTailProperties DEF PiecesToSend
<1>2. read = 2 * Len(got) + 1
  BY <1>1 DEF PiecesRead
<1>3. /\ WritesLast(ws, buf, s) /\ OnTheWire(e, pieces, s, read)
      /\ read + Len(pieces) + PiecesToSend(ws) = 2 * Len(s)
      /\ r.size = Size[s[k]]
  BY DEF InStepWith
<1> HIDE DEF read
<1>4. k \in 1..Len(s) /\ (2 * k - 1 - read) + 1 = 1 /\ 1 \in 1..Len(pieces)
  <2>1. read + Len(pieces) + PiecesToSend(ws) = 2 * Len(s)
    BY <1>3
  <2>2. Len(got) + 1 <= Len(s)
    BY <1>1, <1>2, <2>1
  <2>3. 2 * k - 1 - read = 0
    BY <1>1, <1>2
  <2>4. QED
    BY <1>1, <2>2, <2>3
<1>5. Head(pieces) = BodyOf(s[k])
  <2>1. pieces[1] = BodyOf(s[k])
    BY <1>3, <1>4 DEF OnTheWire
  <2>2. QED
    BY <1>1, <2>1, Zenon
<1>6. OnTheWire(e, Tail(pieces), s, read + 1)
  BY <1>1, <1>2, <1>3, FromTheHeadOfTheWire
<1>7. (read + 1) + Len(Tail(pieces)) + PiecesToSend(ws) = 2 * Len(s)
  BY <1>1, <1>2, <1>3
<1>8. PiecesRead(more, ReadHeader) = read + 1 /\ ReadHeader.at # "body"
  <2>1. s[k] \in Message
    BY <1>4
  <2>2. Len(more) = Len(got) + 1
    BY <2>1, AppendProperties
  <2>3. ReadHeader.at = "header"
    BY DEF ReadHeader
  <2>4. QED
    BY <1>1, <1>2, <2>2, <2>3 DEF PiecesRead
<1>9. InStepWith(e, ws, buf, Tail(pieces), s, more, ReadHeader)
  BY <1>3, <1>6, <1>7, <1>8 DEF InStepWith
<1>10. QED
  BY <1>3, <1>4, <1>5, <1>9

(* A reader between two messages may begin or end. *)
LEMMA InStepBetweenMessages ==
    ASSUME NEW e \in End, NEW ws, NEW buf, NEW pieces, NEW s, NEW got, NEW r, NEW q,
           InStepWith(e, ws, buf, pieces, s, got, r), r.at # "body", q.at # "body"
    PROVE  InStepWith(e, ws, buf, pieces, s, got, q)
BY DEF InStepWith, PiecesRead

(* Nothing was sent yet. *)
LEMMA InStepInitially ==
    ASSUME NEW e \in End, NEW buf
    PROVE  InStepWith(e, <<>>, buf, <<>>, <<>>, <<>>, Off)
<1>1. Off.at = "off"
  BY DEF Off
<1>2. PiecesRead(<<>>, Off) = 0 /\ PiecesToSend(<<>>) = 0 /\ Len(<<>>) = 0
  BY <1>1 DEF PiecesRead, PiecesToSend
<1>3. WritesLast(<<>>, buf, <<>>) /\ OnTheWire(e, <<>>, <<>>, 0)
  BY <1>2 DEF WritesLast, OnTheWire
<1>4. QED
  BY <1>1, <1>2, <1>3 DEF InStepWith

-----------------------------------------------------------------------------
(* The two directions of a connection *)

LEMMA StreamTypes ==
    ASSUME TypeInv, NEW e \in End
    PROVE  /\ writes[e] \in Seq(Write) /\ m_Writebuf[e] \in Bytes /\ wire[e] \in Seq(Piece)
           /\ sent[e] \in Seq(Message) /\ overlapped[e] \in BOOLEAN
           /\ Got(e) \in Seq(Message) /\ ReaderOf(e) \in Reader
           /\ Other(e) \in End /\ Other(e) # e /\ Other(Other(e)) = e
<1>1. StreamTypeOK /\ ClientTypeOK /\ SessionTypeOK
  BY TypeInvParts
<1>2. Other(e) \in End /\ Other(e) # e /\ Other(Other(e)) = e
  BY DEF Other, End
<1>3. shown \in Seq(Message) /\ arrived \in Seq(Message)
  BY <1>1 DEF ClientTypeOK, SessionTypeOK
<1>4. Got(e) \in Seq(Message)
  BY <1>3 DEF Got, Received
<1>5. QED
  BY <1>1, <1>2, <1>4 DEF StreamTypeOK, ReaderOf

Direction(e) ==
    <<writes[e], m_Writebuf[e], wire[e], sent[e], Got(e), ReaderOf(e), overlapped[e]>>

(* A step that leaves a direction alone. *)
LEMMA DirectionKept ==
    ASSUME NEW e \in End, DirectionInv(e), UNCHANGED Direction(e), socket' = socket,
           MayRead(Other(e))' => MayRead(Other(e))
    PROVE  DirectionInv(e)'
BY DEF DirectionInv, Direction, InStep

(* What is said of the readers. *)
LEMMA MayReadKept ==
    ASSUME NEW e \in End, reader'[e] = reader[e], connecting' => connecting,
           stopped => stopped', session' = "none" => session = "none"
    PROVE  MayRead(e)' => MayRead(e)
BY DEF MayRead

(* A step that leaves both directions alone. *)
LEMMA StreamKept ==
    ASSUME StreamInv, UNCHANGED <<streamVars, shown, arrived>>, connecting' => connecting,
           stopped => stopped', session' = "none" => session = "none"
    PROVE  StreamInv'
<1> SUFFICES ASSUME NEW e \in End PROVE DirectionInv(e)'
  BY DEF StreamInv
<1>1. DirectionInv(e) /\ UNCHANGED Direction(e) /\ socket' = socket
  BY DEF StreamInv, Direction, Got, Received, ReaderOf, streamVars
<1>2. Other(e) \in End /\ reader'[Other(e)] = reader[Other(e)]
  BY DEF Other, End, streamVars
<1>3. MayRead(Other(e))' => MayRead(Other(e))
  BY <1>2, MayReadKept
<1>4. QED
  BY <1>1, <1>3, DirectionKept

LEMMA AppendKeepsBeginning ==
    ASSUME NEW S, NEW s \in Seq(S), NEW got \in Seq(S), NEW m \in S, BeginsWith(s, got)
    PROVE  BeginsWith(Append(s, m), got)
BY AppendProperties DEF BeginsWith

LEMMA NextKeepsBeginning ==
    ASSUME NEW S, NEW s \in Seq(S), NEW got \in Seq(S), BeginsWith(s, got),
           Len(got) + 1 \in 1..Len(s)
    PROVE  BeginsWith(s, Append(got, s[Len(got) + 1]))
<1>1. s[Len(got) + 1] \in S /\ Len(got) \in Nat /\ Len(s) \in Nat
  OBVIOUS
<1> DEFINE more == Append(got, s[Len(got) + 1])
<1>2. /\ Len(more) = Len(got) + 1 /\ more[Len(got) + 1] = s[Len(got) + 1]
      /\ \A i \in 1..Len(got) : more[i] = got[i]
  BY <1>1, AppendProperties
<1> HIDE DEF more
<1>3. \A i \in 1..Len(more) : more[i] = s[i]
  BY <1>1, <1>2 DEF BeginsWith
<1>4. QED
  BY <1>1, <1>2, <1>3 DEF BeginsWith, more

LEMMA StreamAsyncWrite ==
    ASSUME TypeInv, StreamInv, NEW e \in End, NEW m \in Message, AsyncWrite(e, m),
           UNCHANGED <<connecting, stopped, session, shown, arrived>>
    PROVE  StreamInv'
<1>1. UNCHANGED <<socket, wire, reader>> /\ StreamTypeOK
  BY TypeInvParts DEF AsyncWrite
<1>2. \A f \in End : /\ MayRead(Other(f))' => MayRead(Other(f))
                     /\ Got(f)' = Got(f) /\ ReaderOf(f)' = ReaderOf(f)
  BY <1>1 DEF MayRead, Got, Received, ReaderOf
<1>3. ASSUME NEW f \in End, f # e PROVE DirectionInv(f)'
  <2>1. UNCHANGED <<writes[f], m_Writebuf[f], sent[f], overlapped[f]>>
    BY <1>1, <1>3, AsyncWriteTypes DEF AsyncWrite, StreamTypeOK
  <2>2. UNCHANGED Direction(f)
    BY <1>1, <1>2, <2>1 DEF Direction
  <2>3. QED
    BY <1>1, <1>2, <2>2, DirectionKept DEF StreamInv
<1>4. DirectionInv(e)'
  <2>1. DirectionInv(e) /\ overlapped[e] \in BOOLEAN /\ writes[e] \in Seq(Write)
        /\ sent[e] \in Seq(Message) /\ Got(e) \in Seq(Message)
    BY StreamTypes DEF StreamInv
  <2>2. Overwritten(writes[e]) = <<>> <=> writes[e] = <<>>
    BY <2>1, OverwrittenTypes
  <2>3. CASE socket # "up"
    <3>1. /\ writes'[e] = Overwritten(writes[e])
          /\ sent'[e] = sent[e] /\ overlapped'[e] = overlapped[e]
      BY <1>1, <2>3 DEF AsyncWrite, StreamTypeOK
    <3>2. QED
      BY <1>1, <1>2, <2>1, <2>2, <2>3, <3>1 DEF DirectionInv
  <2>4. CASE socket = "up"
    <3>1. /\ writes'[e] = Append(Overwritten(writes[e]), NewWrite(m))
          /\ sent'[e] = Append(sent[e], m) /\ m_Writebuf'[e] = m
          /\ overlapped'[e] = (overlapped[e] \/ writes[e] # <<>>)
      BY <1>1, <2>4 DEF AsyncWrite, StreamTypeOK
    <3>2. ASSUME ~overlapped'[e]
          PROVE  /\ ReaderOf(e) # Lost /\ BeginsWith(sent'[e], Got(e))
                 /\ MayRead(Other(e)) => InStep(e)'
      <4>1. ~overlapped[e] /\ writes[e] = <<>>
        BY <3>1, <3>2
      <4>2. ReaderOf(e) # Lost /\ BeginsWith(sent[e], Got(e))
        BY <2>1, <4>1 DEF DirectionInv
      <4>3. BeginsWith(sent'[e], Got(e))
        BY <2>1, <3>1, <4>2, AppendKeepsBeginning
      <4>4. ASSUME MayRead(Other(e)) PROVE InStep(e)'
        <5>1. InStepWith(e, <<>>, m_Writebuf[e], wire[e], sent[e], Got(e), ReaderOf(e))
          BY <2>1, <2>4, <4>1, <4>4 DEF DirectionInv, InStep
        <5>2. writes'[e] = <<NewWrite(m)>>
          <6>1. \A w : Append(<<>>, w) = <<w>>
            OBVIOUS
          <6>2. QED
            BY <2>2, <3>1, <4>1, <6>1, Zenon
        <5>3. InStepWith(e, <<NewWrite(m)>>, m, wire[e], Append(sent[e], m), Got(e), ReaderOf(e))
          BY <5>1, StreamTypes, InStepWrites
        <5>4. QED
          BY <1>1, <1>2, <3>1, <5>2, <5>3 DEF InStep
      <4>5. QED
        BY <4>2, <4>3, <4>4
    <3>3. QED
      BY <1>1, <1>2, <2>4, <3>2 DEF DirectionInv
  <2>5. QED
    BY <2>3, <2>4
<1>5. QED
  BY <1>3, <1>4 DEF StreamInv

LEMMA StreamTransmits ==
    ASSUME TypeInv, StreamInv, NEW e \in End, Transmits(e)
    PROVE  StreamInv'
<1>1. /\ socket = "up" /\ UNCHANGED <<socket, m_Writebuf, reader, sent, overlapped>>
      /\ UNCHANGED <<connecting, stopped, session, shown, arrived>>
  BY DEF Transmits, Transmit, clientVars, sessionVars, queueVars
<1>2. StreamTypeOK /\ writes[e] \in Seq(Write) /\ wire[e] \in Seq(Piece)
      /\ sent[e] \in Seq(Message) /\ Got(e) \in Seq(Message) /\ ReaderOf(e) \in Reader
  BY StreamTypes, TypeInvParts
<1>3. \A f \in End : /\ MayRead(Other(f))' => MayRead(Other(f))
                     /\ Got(f)' = Got(f) /\ ReaderOf(f)' = ReaderOf(f)
  BY <1>1 DEF MayRead, Got, Received, ReaderOf
<1>4. PICK i \in DOMAIN writes[e] :
        \/ /\ writes[e][i].next = "header"
           /\ \E bytes \in HeaderNow(e, writes[e][i]) :
                wire' = [wire EXCEPT ![e] = Append(@, [part |-> "header", bytes |-> bytes])]
           /\ writes' = [writes EXCEPT ![e][i].next = "body"]
        \/ /\ writes[e][i].next = "body"
           /\ \E bytes \in BodyNow(e, writes[e][i]) :
                wire' = [wire EXCEPT ![e] =
                    Append(@, [part |-> "body", size |-> writes[e][i].size, bytes |-> bytes])]
           /\ writes' = [writes EXCEPT ![e] = RemoveAt(@, i)]
  BY DEF Transmits, Transmit
<1>5. ASSUME NEW f \in End, f # e PROVE DirectionInv(f)'
  <2>1. writes'[f] = writes[f] /\ wire'[f] = wire[f]
    BY <1>2, <1>4, <1>5 DEF StreamTypeOK
  <2>2. UNCHANGED Direction(f)
    BY <1>1, <1>3, <2>1 DEF Direction
  <2>3. QED
    BY <1>1, <1>3, <2>2, DirectionKept DEF StreamInv
<1>6. DirectionInv(e)'
  <2>1. DirectionInv(e)
    BY DEF StreamInv
  <2>2. ASSUME ~overlapped[e], MayRead(Other(e)) PROVE InStep(e)'
    <3> DEFINE ws == writes[e]
               w == ws[1]
               buf == m_Writebuf[e]
    <3>1. InStepWith(e, ws, buf, wire[e], sent[e], Got(e), ReaderOf(e))
      BY <1>1, <2>1, <2>2 DEF DirectionInv, InStep
    <3>2. ws # <<>>
      BY <1>2, <1>4
    <3>3. /\ Len(ws) = 1 /\ w.intact /\ w.size = Size[buf] /\ buf \in Message
          /\ w \in Write
      <4>1. WritesLast(ws, buf, sent[e])
        BY <3>1 DEF InStepWith
      <4>2. QED
        BY <1>2, <3>2, <4>1 DEF WritesLast
    <3>4. i = 1
      BY <1>2, <3>3
    <3>5. HeaderNow(e, w) = {SizeHeader(e, buf)} /\ BodyNow(e, w) = {buf}
      BY <3>3 DEF HeaderNow, BodyNow
    <3>6. CASE w.next = "header"
      <4>1. /\ wire' = [wire EXCEPT ![e] = Append(@, HeaderOf(e, buf))]
            /\ writes' = [writes EXCEPT ![e][1].next = "body"]
        BY <1>4, <3>4, <3>5, <3>6 DEF HeaderOf
      <4> DEFINE vs == writes'[e]
      <4>2. wire'[e] = Append(wire[e], HeaderOf(e, buf)) /\ vs = [ws EXCEPT ![1].next = "body"]
        BY <1>2, <4>1 DEF StreamTypeOK
      <4>3. vs # <<>> /\ Len(vs) = 1 /\ vs[1] = [w EXCEPT !.next = "body"]
        BY <1>2, <3>2, <3>3, <4>2
      <4>4. vs[1].next = "body" /\ vs[1].intact = w.intact /\ vs[1].size = w.size
        BY <3>3, <4>3 DEF Write
      <4>5. InStepWith(e, vs, buf, wire'[e], sent[e], Got(e), ReaderOf(e))
        <5> HIDE DEF vs
        <5>1. InStepWith(e, vs, buf, Append(wire[e], HeaderOf(e, buf)), sent[e], Got(e),
                         ReaderOf(e))
          BY <1>2, <3>1, <3>2, <3>3, <3>6, <4>3, <4>4, InStepTransmitsHeader
        <5>2. QED
          BY <4>2, <5>1, Zenon
      <4>6. QED
        BY <1>1, <1>3, <4>5 DEF InStep
    <3>7. CASE w.next = "body"
      <4>1. /\ wire' = [wire EXCEPT ![e] = Append(@, BodyOf(buf))]
            /\ writes' = [writes EXCEPT ![e] = RemoveAt(@, 1)]
        BY <1>4, <3>3, <3>4, <3>5, <3>7 DEF BodyOf
      <4>2. wire'[e] = Append(wire[e], BodyOf(buf)) /\ writes'[e] = RemoveAt(ws, 1)
        BY <1>2, <4>1 DEF StreamTypeOK
      <4>3. writes'[e] = <<>>
        <5>1. ws \in Seq(Write) /\ 1 \in DOMAIN ws /\ Len(ws) = 1
          BY <1>2, <3>3
        <5> HIDE DEF ws
        <5>2. RemoveAt(ws, 1) \in Seq(Write) /\ Len(RemoveAt(ws, 1)) = Len(ws) - 1
          BY <5>1, RemoveAtTypes
        <5>3. RemoveAt(ws, 1) = <<>>
          BY <5>1, <5>2
        <5>4. QED
          BY <4>2, <5>3
      <4>4. InStepWith(e, <<>>, buf, wire'[e], sent[e], Got(e), ReaderOf(e))
        BY <1>2, <3>1, <3>2, <3>3, <3>7, <4>2, InStepTransmitsBody
      <4>5. QED
        BY <1>1, <1>3, <4>3, <4>4 DEF InStep
    <3>8. QED
      BY <3>3, <3>6, <3>7 DEF Write
  <2>3. QED
    BY <1>1, <1>3, <2>1, <2>2 DEF DirectionInv
<1>7. QED
  BY <1>5, <1>6 DEF StreamInv

(* A read of end r, of what end e sends. *)
LEMMA StreamReads ==
    ASSUME TypeInv, StreamInv, NEW r \in End, NEW e \in End, e = Other(r), NEW next,
           Reads(r, next), NextPiece(r) # {}, reader[r] # Off,
           Got(r)' = Got(r), UNCHANGED <<connecting, stopped, session>>,
           ~overlapped[e] =>
               /\ next # Lost /\ BeginsWith(sent[e], Got(e)')
               /\ MayRead(r)' => InStepWith(e, writes[e], m_Writebuf[e], Tail(wire[e]),
                                            sent[e], Got(e)', next)
    PROVE  StreamInv'
<1>1. /\ wire' = [wire EXCEPT ![e] = Tail(@)] /\ reader' = [reader EXCEPT ![r] = next]
      /\ UNCHANGED <<socket, m_Writebuf, writes, sent, overlapped>>
      /\ StreamTypeOK
  BY TypeInvParts DEF Reads
<1>2. Other(e) = r /\ e # r
  BY DEF Other, End
<1>3. wire'[e] = Tail(wire[e]) /\ ReaderOf(e)' = next
  BY <1>1, <1>2 DEF StreamTypeOK, ReaderOf
<1>4. socket = "up"
  BY <1>1 DEF NextPiece, StreamInv, DirectionInv
<1>5. DirectionInv(e)'
  BY <1>1, <1>2, <1>3, <1>4 DEF DirectionInv, InStep
<1>6. DirectionInv(r)'
  <2>1. wire'[r] = wire[r] /\ ReaderOf(r)' = ReaderOf(r) /\ reader'[e] = reader[e]
    BY <1>1, <1>2 DEF StreamTypeOK, ReaderOf
  <2>2. UNCHANGED Direction(r)
    BY <1>1, <2>1 DEF Direction
  <2>3. MayRead(Other(r))' => MayRead(Other(r))
    BY <2>1, MayReadKept
  <2>4. QED
    BY <1>1, <2>2, <2>3, DirectionKept DEF StreamInv
<1>7. \A f \in End : f = e \/ f = r
  BY <1>2 DEF End
<1>8. QED
  BY <1>5, <1>6, <1>7 DEF StreamInv

(* Unless writes overlapped, whoever reads is in step and knows what it gets. *)
LEMMA ReaderInStep ==
    ASSUME TypeInv, StreamInv, NEW r \in End, NEW e \in End, e = Other(r),
           NEW p \in NextPiece(r), reader[r] # Off, ~overlapped[e]
    PROVE  /\ InStepWith(e, writes[e], m_Writebuf[e], wire[e], sent[e], Got(e), reader[r])
           /\ wire[e] # <<>> /\ p = Head(wire[e])
           /\ reader[r] # Lost /\ BeginsWith(sent[e], Got(e))
<1>1. wire[e] # <<>> /\ p = Head(wire[e])
  BY NextPieceIsHead
<1>2. Other(e) = r /\ DirectionInv(e)
  BY DEF Other, End, StreamInv
<1>3. socket = "up" /\ MayRead(Other(e)) /\ ReaderOf(e) = reader[r]
  BY <1>1, <1>2 DEF DirectionInv, MayRead, ReaderOf
<1>4. QED
  BY <1>1, <1>2, <1>3 DEF DirectionInv, InStep

(* A header in step announces the size of the next message to either reader. *)
LEMMA HeaderAnnounces ==
    ASSUME NEW e \in End, NEW m \in Message
    PROVE  /\ AnnouncesBody(HeaderOf(e, m))
           /\ e = "client" => ServerBodySize(HeaderOf(e, m).bytes) = Size[m]
           /\ e = "server" => ClientBodySize(HeaderOf(e, m).bytes) = Size[m]
           /\ Size[m] \in Nat
<1>1. Size[m] \in MessageSize /\ Size[m] \in Nat
  BY ByteStreamAssumption DEF ByteStreamAssumption, MessageSize
<1>2. HeaderOf(e, m).part = "header" /\ HeaderOf(e, m).bytes = SizeHeader(e, m)
  BY DEF HeaderOf
<1>3. SizeHeader(e, m) # Garbage
  BY HeaderTypes, ByteStreamAssumption DEF ByteStreamAssumption
<1>4. e = "client" => ServerBodySize(SizeHeader(e, m)) = Size[m]
  BY <1>1, ServerReadsSize DEF SizeHeader
<1>5. e = "server" => ClientBodySize(SizeHeader(e, m)) = Size[m]
  BY <1>1, ClientReadsSize DEF SizeHeader
<1>6. QED
  BY <1>1, <1>2, <1>3, <1>4, <1>5 DEF AnnouncesBody

LEMMA StreamServerReadsHeader ==
    ASSUME TypeInv, StreamInv, ServerReadsHeader, UNCHANGED clientVars
    PROVE  StreamInv'
<1> DEFINE r == "server"
           e == "client"
           k == Len(Got(e)) + 1
           m == sent[e][k]
<1>1. /\ r \in End /\ e \in End /\ e = Other(r) /\ reader[r].at = "header"
      /\ UNCHANGED <<connecting, stopped, session, shown, arrived>>
  BY DEF ServerReadsHeader, clientVars, sessionVars, queueVars, End, Other
<1>2. reader[r] # Off
  BY <1>1, ReaderHasBegun
<1>3. PICK p \in NextPiece(r) : Reads(r, ReadBody(ServerBodySize(p.bytes)))
  BY DEF ServerReadsHeader
<1> DEFINE next == ReadBody(ServerBodySize(p.bytes))
<1>4. next.at = "body" /\ Lost.at = "lost"
  BY DEF ReadBody, Lost
<1>5. Got(r)' = Got(r) /\ Got(e)' = Got(e)
  BY <1>1 DEF Got, Received
<1>6. ASSUME ~overlapped[e]
      PROVE  InStepWith(e, writes[e], m_Writebuf[e], Tail(wire[e]), sent[e], Got(e), next)
             /\ BeginsWith(sent[e], Got(e))
  <2>1. /\ InStepWith(e, writes[e], m_Writebuf[e], wire[e], sent[e], Got(e), reader[r])
        /\ wire[e] # <<>> /\ p = Head(wire[e]) /\ BeginsWith(sent[e], Got(e))
    BY <1>1, <1>2, <1>3, <1>6, ReaderInStep
  <2>2. /\ wire[e] \in Seq(Piece) /\ sent[e] \in Seq(Message) /\ Got(e) \in Seq(Message)
        /\ reader[r] \in Reader
    BY <1>1, StreamTypes DEF ReaderOf
  <2>3. /\ k \in 1..Len(sent[e]) /\ p = HeaderOf(e, m)
        /\ InStepWith(e, writes[e], m_Writebuf[e], Tail(wire[e]), sent[e], Got(e),
                      ReadBody(Size[m]))
    BY <1>1, <2>1, <2>2, InStepReadsHeader
  <2>4. m \in Message
    BY <2>2, <2>3
  <2>5. ServerBodySize(p.bytes) = Size[m]
    BY <1>1, <2>3, <2>4, HeaderAnnounces
  <2>6. QED
    BY <2>1, <2>3, <2>5
<1> HIDE DEF next
<1>7. next # Lost
  BY <1>4
<1>8. QED
  BY <1>1, <1>2, <1>3, <1>5, <1>6, <1>7, StreamReads DEF next

LEMMA StreamClientReadsHeader ==
    ASSUME TypeInv, ReadsOnce, StreamInv, ClientReadsHeader, UNCHANGED sessionVars
    PROVE  StreamInv'
<1> DEFINE r == "client"
           e == "server"
           k == Len(Got(e)) + 1
           m == sent[e][k]
<1>1. /\ r \in End /\ e \in End /\ e = Other(r) /\ reader[r].at = "header"
      /\ UNCHANGED <<connecting, stopped, session, shown, arrived>>
  BY DEF ClientReadsHeader, clientVars, sessionVars, queueVars, End, Other
<1>2. reader[r] # Off
  BY <1>1, ReaderHasBegun
<1>3. PICK p \in NextPiece(r) :
          Reads(r, IF ClientBodySize(p.bytes) > 0 THEN ReadBody(ClientBodySize(p.bytes)) ELSE Off)
  BY DEF ClientReadsHeader
<1> DEFINE next == IF ClientBodySize(p.bytes) > 0 THEN ReadBody(ClientBodySize(p.bytes)) ELSE Off
<1>4. next # Lost
  <2>1. ReadBody(ClientBodySize(p.bytes)).at = "body" /\ Lost.at = "lost" /\ Off.at = "off"
    BY DEF ReadBody, Lost, Off
  <2>2. QED
    BY <2>1
<1>5. Got(r)' = Got(r) /\ Got(e)' = Got(e)
  BY <1>1 DEF Got, Received
<1>6. MayRead(r)' => next # Off
  <2>1. reader'[r] = next
    BY <1>1, <1>3, TypeInvParts DEF Reads, StreamTypeOK
  <2>2. ~(connecting /\ ~stopped)
    BY <1>2 DEF ReadsOnce
  <2>3. QED
    BY <1>1, <2>1, <2>2 DEF MayRead
<1>7. ASSUME ~overlapped[e]
      PROVE  /\ BeginsWith(sent[e], Got(e))
             /\ MayRead(r)' => InStepWith(e, writes[e], m_Writebuf[e], Tail(wire[e]),
                                          sent[e], Got(e), next)
  <2>1. /\ InStepWith(e, writes[e], m_Writebuf[e], wire[e], sent[e], Got(e), reader[r])
        /\ wire[e] # <<>> /\ p = Head(wire[e]) /\ BeginsWith(sent[e], Got(e))
    BY <1>1, <1>2, <1>3, <1>7, ReaderInStep
  <2>2. /\ wire[e] \in Seq(Piece) /\ sent[e] \in Seq(Message) /\ Got(e) \in Seq(Message)
        /\ reader[r] \in Reader
    BY <1>1, StreamTypes DEF ReaderOf
  <2>3. /\ k \in 1..Len(sent[e]) /\ p = HeaderOf(e, m)
        /\ InStepWith(e, writes[e], m_Writebuf[e], Tail(wire[e]), sent[e], Got(e),
                      ReadBody(Size[m]))
    BY <1>1, <2>1, <2>2, InStepReadsHeader
  <2>4. m \in Message
    BY <2>2, <2>3
  <2>5. ClientBodySize(p.bytes) = Size[m]
    BY <1>1, <2>3, <2>4, HeaderAnnounces
  <2>6. MayRead(r)' => next = ReadBody(Size[m])
    BY <1>6, <2>5
  <2>7. QED
    BY <2>1, <2>3, <2>6
<1> HIDE DEF next
<1>8. QED
  BY <1>1, <1>2, <1>3, <1>4, <1>5, <1>7, StreamReads DEF next

(* What a reader in step finds for a body is the next message. *)
LEMMA BodyIsNext ==
    ASSUME TypeInv, StreamInv, NEW r \in End, NEW e \in End, e = Other(r),
           NEW p \in NextPiece(r), reader[r].at = "body", ~overlapped[e]
    PROVE  LET m == sent[e][Len(Got(e)) + 1] IN
           /\ m \in Message /\ p = BodyOf(m) /\ FillsBody(r, p)
           /\ BeginsWith(sent[e], Append(Got(e), m))
           /\ InStepWith(e, writes[e], m_Writebuf[e], Tail(wire[e]), sent[e],
                         Append(Got(e), m), ReadHeader)
<1> DEFINE k == Len(Got(e)) + 1
           m == sent[e][k]
<1>1. reader[r] # Off
  BY ReaderHasBegun
<1>2. /\ InStepWith(e, writes[e], m_Writebuf[e], wire[e], sent[e], Got(e), reader[r])
      /\ wire[e] # <<>> /\ p = Head(wire[e]) /\ BeginsWith(sent[e], Got(e))
  BY <1>1, ReaderInStep
<1>3. Other(e) = r
  BY DEF Other, End
<1>4. /\ wire[e] \in Seq(Piece) /\ sent[e] \in Seq(Message) /\ Got(e) \in Seq(Message)
      /\ reader[r] \in Reader
  BY <1>3, StreamTypes DEF ReaderOf
<1>5. /\ k \in 1..Len(sent[e]) /\ reader[r].size = Size[m] /\ p = BodyOf(m)
      /\ InStepWith(e, writes[e], m_Writebuf[e], Tail(wire[e]), sent[e],
                    Append(Got(e), m), ReadHeader)
  BY <1>2, <1>4, InStepReadsBody
<1>6. m \in Message
  BY <1>4, <1>5
<1>7. BeginsWith(sent[e], Append(Got(e), m))
  BY <1>2, <1>4, <1>5, NextKeepsBeginning
<1>8. FillsBody(r, p)
  BY <1>5 DEF FillsBody, BodyOf
<1>9. QED
  BY <1>5, <1>6, <1>7, <1>8

LEMMA StreamServerReadsBody ==
    ASSUME TypeInv, StreamInv, BeginPush, UNCHANGED clientVars
    PROVE  StreamInv'
<1> DEFINE r == "server"
           e == "client"
           m == sent[e][Len(Got(e)) + 1]
<1>1. /\ r \in End /\ e \in End /\ e = Other(r) /\ reader[r].at = "body"
      /\ UNCHANGED <<connecting, stopped, session, shown>>
  BY DEF BeginPush, clientVars, End, Other
<1>2. reader[r] # Off
  BY <1>1, ReaderHasBegun
<1>3. PICK p \in NextPiece(r) :
          /\ Reads(r, ReadHeader)
          /\ arrived' = IF p.bytes = Garbage THEN arrived ELSE Append(arrived, p.bytes)
  BY DEF BeginPush, AfterBody
<1>4. ReadHeader # Lost
  <2>1. ReadHeader.at = "header" /\ Lost.at = "lost"
    BY DEF ReadHeader, Lost
  <2>2. QED
    BY <2>1
<1>5. Got(r)' = Got(r) /\ Got(e) = arrived /\ Got(e)' = arrived'
  BY <1>1 DEF Got, Received, Other
<1>6. ASSUME ~overlapped[e]
      PROVE  /\ BeginsWith(sent[e], Got(e)')
             /\ InStepWith(e, writes[e], m_Writebuf[e], Tail(wire[e]), sent[e], Got(e)',
                           ReadHeader)
  <2>1. /\ m \in Message /\ p = BodyOf(m)
        /\ BeginsWith(sent[e], Append(Got(e), m))
        /\ InStepWith(e, writes[e], m_Writebuf[e], Tail(wire[e]), sent[e],
                      Append(Got(e), m), ReadHeader)
    BY <1>1, <1>3, <1>6, BodyIsNext
  <2>2. p.bytes = m /\ m # Garbage
    BY <2>1, ByteStreamAssumption DEF BodyOf, ByteStreamAssumption
  <2>3. Got(e)' = Append(Got(e), m)
    BY <1>3, <1>5, <2>2
  <2>4. QED
    BY <2>1, <2>3, Zenon
<1>7. QED
  BY <1>1, <1>2, <1>3, <1>4, <1>5, <1>6, StreamReads

LEMMA StreamClientReadsBody ==
    ASSUME TypeInv, ReadsOnce, StreamInv, ClientReadsBody, UNCHANGED sessionVars
    PROVE  StreamInv'
<1> DEFINE r == "client"
           e == "server"
           m == sent[e][Len(Got(e)) + 1]
<1>1. /\ r \in End /\ e \in End /\ e = Other(r) /\ reader[r].at = "body"
      /\ UNCHANGED <<connecting, stopped, session, arrived>>
  BY DEF ClientReadsBody, KeepsConsole, sessionVars, queueVars, End, Other
<1>2. reader[r] # Off
  BY <1>1, ReaderHasBegun
<1>3. PICK p \in NextPiece(r) :
          IF p.bytes = Garbage
            THEN Reads(r, Off) /\ shown' = shown
            ELSE Reads(r, ReadHeader) /\ shown' = Append(shown, p.bytes)
  BY DEF ClientReadsBody, OnMessage
<1> DEFINE next == IF p.bytes = Garbage THEN Off ELSE ReadHeader
<1>4. next # Lost /\ Reads(r, next)
  <2>1. ReadHeader.at = "header" /\ Lost.at = "lost" /\ Off.at = "off"
    BY DEF ReadHeader, Lost, Off
  <2>2. QED
    BY <1>3, <2>1
<1>5. Got(r)' = Got(r) /\ Got(e) = shown /\ Got(e)' = shown'
  BY <1>1 DEF Got, Received, Other
<1>6. ASSUME ~overlapped[e]
      PROVE  /\ BeginsWith(sent[e], Got(e)')
             /\ InStepWith(e, writes[e], m_Writebuf[e], Tail(wire[e]), sent[e], Got(e)', next)
  <2>1. /\ m \in Message /\ p = BodyOf(m)
        /\ BeginsWith(sent[e], Append(Got(e), m))
        /\ InStepWith(e, writes[e], m_Writebuf[e], Tail(wire[e]), sent[e],
                      Append(Got(e), m), ReadHeader)
    BY <1>1, <1>3, <1>6, BodyIsNext
  <2>2. p.bytes = m /\ m # Garbage
    BY <2>1, ByteStreamAssumption DEF BodyOf, ByteStreamAssumption
  <2>3. Got(e)' = Append(Got(e), m) /\ next = ReadHeader
    BY <1>3, <1>5, <2>2
  <2> HIDE DEF next
  <2>4. QED
    BY <2>1, <2>3, Zenon
<1> HIDE DEF next
<1>7. QED
  BY <1>1, <1>2, <1>3, <1>4, <1>5, <1>6, StreamReads

(* Whoever loses its place was out of step. *)
LEMMA StreamLosesFraming ==
    ASSUME TypeInv, StreamInv, NEW r \in End, LosesFraming(r),
           UNCHANGED <<connecting, stopped, session, shown, arrived>>
    PROVE  StreamInv'
<1> DEFINE e == Other(r)
<1>1. e \in End /\ Other(e) = r
  BY DEF Other, End
<1>2. PICK p \in NextPiece(r) :
          \/ reader[r].at = "header" /\ ~AnnouncesBody(p)
          \/ reader[r].at = "body" /\ ~FillsBody(r, p)
  BY DEF LosesFraming
<1>3. reader[r] # Off
  BY <1>2, ReaderHasBegun
<1>4. overlapped[e]
  <2>1. SUFFICES ASSUME ~overlapped[e] PROVE FALSE
    OBVIOUS
  <2>2. CASE reader[r].at = "body"
    BY <1>1, <1>2, <2>1, <2>2, BodyIsNext
  <2>3. CASE reader[r].at = "header"
    <3> DEFINE k == Len(Got(e)) + 1
               m == sent[e][k]
    <3>1. /\ InStepWith(e, writes[e], m_Writebuf[e], wire[e], sent[e], Got(e), reader[r])
          /\ wire[e] # <<>> /\ p = Head(wire[e])
      BY <1>1, <1>2, <1>3, <2>1, ReaderInStep
    <3>2. /\ wire[e] \in Seq(Piece) /\ sent[e] \in Seq(Message) /\ Got(e) \in Seq(Message)
          /\ reader[r] \in Reader
      BY <1>1, StreamTypes DEF ReaderOf
    <3>3. k \in 1..Len(sent[e]) /\ p = HeaderOf(e, m)
      BY <1>1, <2>3, <3>1, <3>2, InStepReadsHeader
    <3>4. m \in Message
      BY <3>2, <3>3
    <3>5. QED
      BY <1>1, <1>2, <2>3, <3>3, <3>4, HeaderAnnounces
  <2>4. QED
    BY <1>2, <2>2, <2>3
<1>5. Got(r)' = Got(r)
  BY DEF Got, Received
<1>6. QED
  BY <1>1, <1>2, <1>3, <1>4, <1>5, StreamReads DEF LosesFraming

(* Reading begins, after the connection has: nothing was read yet. *)
LEMMA StreamBegins ==
    ASSUME TypeInv, StreamInv, NEW r \in End, socket \in {"up", "broken"},
           reader[r] = Off, MayRead(r),
           reader' = [reader EXCEPT ![r] = ReadHeader],
           UNCHANGED <<socket, m_Writebuf, writes, wire, sent, overlapped, shown, arrived>>,
           MayRead(Other(r))' => MayRead(Other(r))
    PROVE  StreamInv'
<1> DEFINE e == Other(r)
<1>1. e \in End /\ Other(e) = r /\ e # r /\ StreamTypeOK
  BY TypeInvParts DEF Other, End
<1>2. \A f \in End : Got(f)' = Got(f)
  BY DEF Got, Received
<1>3. DirectionInv(r)'
  <2>1. ReaderOf(r)' = ReaderOf(r)
    BY <1>1 DEF StreamTypeOK, ReaderOf
  <2>2. UNCHANGED Direction(r)
    BY <1>2, <2>1 DEF Direction
  <2>3. QED
    BY <2>2, DirectionKept DEF StreamInv
<1>4. DirectionInv(e)'
  <2>1. ReaderOf(e)' = ReadHeader /\ ReaderOf(e) = Off
    BY <1>1 DEF StreamTypeOK, ReaderOf
  <2>2. ReadHeader.at = "header" /\ Lost.at = "lost" /\ Off.at = "off"
    BY DEF ReadHeader, Lost, Off
  <2>3. ReadHeader # Lost
    BY <2>2
  <2>4. DirectionInv(e) /\ Got(e)' = Got(e)
    BY <1>1, <1>2 DEF StreamInv
  <2>5. InStep(e) => InStep(e)'
    <3>1. InStep(e) => InStepWith(e, writes[e], m_Writebuf[e], wire[e], sent[e], Got(e), ReadHeader)
      BY <1>1, <2>1, <2>2, InStepBetweenMessages DEF InStep
    <3>2. QED
      BY <2>1, <2>4, <3>1 DEF InStep
  <2>6. QED
    BY <1>1, <2>1, <2>3, <2>4, <2>5 DEF DirectionInv
<1>5. \A f \in End : f = e \/ f = r
  BY <1>1 DEF End
<1>6. QED
  BY <1>3, <1>4, <1>5 DEF StreamInv

LEMMA StreamNetwork ==
    ASSUME TypeInv, StreamInv, Establish \/ Refuse \/ Breaks
    PROVE  StreamInv'
<1> SUFFICES ASSUME NEW e \in End PROVE DirectionInv(e)'
  BY DEF StreamInv
<1>1. /\ UNCHANGED <<m_Writebuf, writes, reader, sent, overlapped>>
      /\ UNCHANGED <<clientVars, sessionVars>>
  BY DEF Establish, Refuse, Breaks, Break
<1>2. DirectionInv(e) /\ Got(e)' = Got(e) /\ ReaderOf(e)' = ReaderOf(e)
  BY <1>1 DEF StreamInv, Got, Received, ReaderOf, clientVars, sessionVars, queueVars
<1>3. CASE Establish
  <2>1. socket = "connecting" /\ socket' = "up" /\ wire' = wire
    BY <1>3 DEF Establish
  <2>2. writes[e] = <<>> /\ sent[e] = <<>> /\ ReaderOf(e) = Off /\ Got(e) = <<>> /\ wire[e] = <<>>
    BY <1>2, <2>1 DEF DirectionInv
  <2>3. InStep(e)'
    BY <1>1, <1>2, <2>1, <2>2, InStepInitially DEF InStep
  <2>4. QED
    BY <1>1, <1>2, <2>1, <2>3 DEF DirectionInv
<1>4. CASE Refuse
  BY <1>1, <1>2, <1>4 DEF Refuse, DirectionInv
<1>5. CASE Breaks
  <2>1. socket' = "broken" /\ wire'[e] = <<>>
    BY <1>5 DEF Breaks, Break
  <2>2. QED
    BY <1>1, <1>2, <2>1 DEF DirectionInv
<1>6. QED
  BY <1>3, <1>4, <1>5

(* What a connection is when it begins. *)
LEMMA NothingSent ==
    ASSUME NEW got, NEW r, got = <<>>, r = Off
    PROVE  r # Lost /\ BeginsWith(<<>>, got)
<1>1. Off.at = "off" /\ Lost.at = "lost"
  BY DEF Off, Lost
<1>2. Off # Lost
  BY <1>1
<1>3. QED
  BY <1>2 DEF BeginsWith

LEMMA StreamConnects ==
    ASSUME TypeInv, ReadsOnce, StreamInv, Connects
    PROVE  StreamInv'
<1>1. CASE Reconnects
  <2> SUFFICES ASSUME NEW e \in End PROVE DirectionInv(e)'
    BY DEF StreamInv
  <2>1. /\ socket' = "connecting" /\ shown' = <<>> /\ arrived' = <<>>
        /\ writes' = [f \in End |-> <<>>] /\ wire' = [f \in End |-> <<>>]
        /\ reader' = [f \in End |-> Off] /\ sent' = [f \in End |-> <<>>]
        /\ overlapped' = [f \in End |-> FALSE]
    BY <1>1, Zenon DEF Connects, Connect, NewSession
  <2>2. /\ writes'[e] = <<>> /\ wire'[e] = <<>> /\ sent'[e] = <<>>
        /\ ReaderOf(e)' = Off /\ Got(e)' = <<>>
    BY <2>1 DEF ReaderOf, Got, Received, Other, End
  <2>3. ReaderOf(e)' # Lost /\ BeginsWith(<<>>, Got(e)')
    BY <2>2, NothingSent
  <2>4. QED
    BY <2>1, <2>2, <2>3 DEF DirectionInv
<1>2. CASE ~Reconnects
  <2>1. UNCHANGED <<streamVars, sessionVars, shown, stopped>> /\ console = "menu" /\ socket = "up"
    BY <1>2 DEF Connects, Connect, Reconnects, ConsoleGoes
  <2>2. stopped
    BY <2>1 DEF ReadsOnce
  <2> SUFFICES ASSUME NEW e \in End PROVE DirectionInv(e)'
    BY DEF StreamInv
  <2>3. DirectionInv(e) /\ UNCHANGED Direction(e) /\ socket' = socket
    BY <2>1 DEF StreamInv, Direction, Got, Received, ReaderOf, streamVars, sessionVars, queueVars
  <2>4. MayRead(Other(e))' => MayRead(Other(e))
    BY <2>1, <2>2 DEF MayRead, streamVars, sessionVars
  <2>5. QED
    BY <2>3, <2>4, DirectionKept
<1>3. QED
  BY <1>1, <1>2

(* A write or a read of a connection that broke fails. *)
LEMMA StreamFails ==
    ASSUME TypeInv, StreamInv, NEW r \in End, ReadFails(r) \/ WriteFails(r),
           UNCHANGED <<shown, arrived>>
    PROVE  StreamInv'
<1> SUFFICES ASSUME NEW e \in End PROVE DirectionInv(e)'
  BY DEF StreamInv
<1>1. /\ socket = "broken" /\ UNCHANGED <<socket, wire, sent, overlapped>>
      /\ reader' = reader \/ reader' = [reader EXCEPT ![r] = Off]
      /\ StreamTypeOK
  BY TypeInvParts DEF ReadFails, WriteFails
<1>2. Off # Lost
  <2>1. Off.at = "off" /\ Lost.at = "lost"
    BY DEF Off, Lost
  <2>2. QED
    BY <2>1
<1>3. /\ DirectionInv(e) /\ Got(e)' = Got(e)
      /\ ReaderOf(e)' = ReaderOf(e) \/ ReaderOf(e)' = Off
  <2>1. Other(e) \in End
    BY DEF Other, End
  <2>2. ReaderOf(e)' = ReaderOf(e) \/ ReaderOf(e)' = Off
    BY <1>1, <2>1 DEF ReaderOf, StreamTypeOK
  <2>3. QED
    BY <2>2 DEF StreamInv, Got, Received
<1>4. QED
  BY <1>1, <1>2, <1>3 DEF DirectionInv

LEMMA StreamConsole ==
    ASSUME TypeInv, StreamInv, ConsoleStep
    PROVE  StreamInv'
<1>1. UNCHANGED <<connecting, stopped, session, shown, arrived>>
  BY DEF ConsoleStep, SendSessionId, StartThread, SetVerificationCallback, StopWaiting,
         ChatLoop, InputEnds, JoinThread, clientVars, sessionVars, queueVars
<1>2. CASE SendSessionId
  <2>1. AsyncWrite("client", Login) /\ "client" \in End /\ Login \in Message
    BY <1>2, ByteStreamAssumption DEF SendSessionId, End, ByteStreamAssumption
  <2>2. QED
    BY <1>1, <2>1, StreamAsyncWrite
<1>3. CASE ChatLoop
  <2>1. PICK m \in IF LinesSent = <<>> THEN {Leftover} ELSE Line : AsyncWrite("client", m)
    BY <1>3 DEF ChatLoop
  <2>2. m \in Message /\ "client" \in End
    BY <2>1, ChatClientAssumption DEF ChatClientAssumption, End
  <2>3. QED
    BY <1>1, <2>1, <2>2, StreamAsyncWrite
<1>4. CASE UNCHANGED streamVars
  BY <1>1, <1>4, StreamKept
<1>5. QED
  BY <1>2, <1>3, <1>4 DEF ConsoleStep, StartThread, SetVerificationCallback, StopWaiting,
                          InputEnds, JoinThread

LEMMA StreamHandlers ==
    ASSUME TypeInv, ReadsOnce, StreamInv, HandlerStep
    PROVE  StreamInv'
<1>1. UNCHANGED sessionVars /\ UNCHANGED <<session, arrived>> /\ "client" \in End
  BY DEF HandlerStep, sessionVars, queueVars, End
<1>2. CASE OnConnect
  <2>1. /\ socket \in {"up", "broken"} /\ connecting /\ ~stopped
        /\ reader["client"] = Off
        /\ reader' = [reader EXCEPT !["client"] = ReadHeader]
        /\ UNCHANGED <<socket, m_Writebuf, writes, wire, sent, overlapped, shown>>
    BY <1>2 DEF OnConnect, ReadsOnce
  <2>2. MayRead("client") /\ Other("client") = "server" /\ "server" \in End
    BY <2>1 DEF MayRead, Other, End
  <2>3. reader'["server"] = reader["server"]
    BY <2>1, TypeInvParts DEF StreamTypeOK, End
  <2>4. MayRead("server")' => MayRead("server")
    BY <1>1, <2>3 DEF MayRead
  <2>5. QED
    BY <1>1, <2>1, <2>2, <2>4, StreamBegins
<1>3. CASE OnConnectError \/ RunReturns
  BY <1>1, <1>3, StreamKept DEF OnConnectError, RunReturns, KeepsConsole
<1>4. CASE ClientReadFails \/ ClientWriteFails
  BY <1>1, <1>4, StreamFails DEF ClientReadFails, ClientWriteFails, clientVars
<1>5. CASE ClientLosesFraming
  BY <1>1, <1>5, StreamLosesFraming DEF ClientLosesFraming, clientVars
<1>6. QED
  BY <1>1, <1>2, <1>3, <1>4, <1>5, StreamClientReadsHeader, StreamClientReadsBody DEF HandlerStep

LEMMA StreamIoThread ==
    ASSUME TypeInv, ReadsOnce, StreamInv, IoThreadStep
    PROVE  StreamInv'
<1>1. UNCHANGED clientVars /\ UNCHANGED <<connecting, stopped, shown>> /\ "server" \in End
  BY DEF IoThreadStep, clientVars, End
<1>2. CASE Start
  <2>1. /\ socket = "up" /\ session = "none" /\ session' = "waiting"
        /\ reader["server"] = Off
        /\ reader' = [reader EXCEPT !["server"] = ReadHeader]
        /\ UNCHANGED <<socket, m_Writebuf, writes, wire, sent, overlapped, arrived>>
    BY <1>2 DEF Start, queueVars, ReadsOnce
  <2>2. MayRead("server") /\ Other("server") = "client" /\ "client" \in End
    BY <2>1 DEF MayRead, Other, End
  <2>3. reader'["client"] = reader["client"]
    BY <2>1, TypeInvParts DEF StreamTypeOK, End
  <2>4. MayRead("client")' => MayRead("client")
    BY <1>1, <2>3 DEF MayRead
  <2>5. QED
    BY <1>1, <2>1, <2>2, <2>4, StreamBegins
<1>3. CASE EndPush
  BY <1>1, <1>3, StreamKept DEF EndPush
<1>4. CASE SessionReadFails \/ SessionWriteFails
  BY <1>1, <1>4, StreamFails DEF SessionReadFails, SessionWriteFails, queueVars
<1>5. CASE RunPosted
  <2>1. /\ AsyncWrite("server", Head(posted)) /\ posted # <<>>
        /\ UNCHANGED <<session, arrived>>
    BY <1>5 DEF RunPosted, queueVars
  <2>2. Head(posted) \in Message
    BY <2>1, TypeInvParts DEF SessionTypeOK
  <2>3. QED
    BY <1>1, <2>1, <2>2, StreamAsyncWrite
<1>6. CASE SessionLosesFraming
  BY <1>1, <1>6, StreamLosesFraming DEF SessionLosesFraming, sessionVars, queueVars
<1>7. QED
  BY <1>1, <1>2, <1>3, <1>4, <1>5, <1>6, StreamServerReadsHeader, StreamServerReadsBody
     DEF IoThreadStep

LEMMA StreamServerThread ==
    ASSUME StreamInv, ServerThreadStep
    PROVE  StreamInv'
<1>1. UNCHANGED <<streamVars, shown, arrived>> /\ UNCHANGED <<connecting, stopped>>
  BY DEF ServerThreadStep, LookForMessage, TakeMessage, clientVars
<1>2. session' = "none" => session = "none"
  <2>1. CASE TakeMessage
    BY <2>1, Zenon DEF TakeMessage, Handled
  <2>2. CASE LookForMessage
    BY <2>2 DEF LookForMessage
  <2>3. QED
    BY <2>1, <2>2 DEF ServerThreadStep
<1>3. QED
  BY <1>1, <1>2, StreamKept

LEMMA StreamInitially == Init => StreamInv
<1> SUFFICES ASSUME Init, NEW e \in End PROVE DirectionInv(e)
  BY DEF StreamInv
<1>1. /\ socket = "closed" /\ shown = <<>> /\ arrived = <<>>
      /\ writes = [f \in End |-> <<>>] /\ wire = [f \in End |-> <<>>]
      /\ reader = [f \in End |-> Off] /\ sent = [f \in End |-> <<>>]
  BY Zenon DEF Init, StreamInit, ClientInit, SessionInit
<1>2. /\ writes[e] = <<>> /\ wire[e] = <<>> /\ sent[e] = <<>>
      /\ ReaderOf(e) = Off /\ Got(e) = <<>>
  BY <1>1 DEF ReaderOf, Got, Received, Other, End
<1>3. ReaderOf(e) # Lost /\ BeginsWith(<<>>, Got(e))
  BY <1>2, NothingSent
<1>4. QED
  BY <1>1, <1>2, <1>3 DEF DirectionInv

LEMMA StreamNext == TypeInv /\ ReadsOnce /\ StreamInv /\ [Next]_vars => StreamInv'
<1> SUFFICES ASSUME TypeInv, ReadsOnce, StreamInv, [Next]_vars PROVE StreamInv'
  OBVIOUS
<1>1. CASE UNCHANGED vars
  BY <1>1, StreamKept DEF vars, clientVars, sessionVars, queueVars
<1>2. CASE OtherUserSpeaks /\ UNCHANGED clientVars
  BY <1>2, StreamKept DEF OtherUserSpeaks, clientVars, queueVars
<1>3. QED
  BY <1>1, <1>2, StreamNetwork, StreamTransmits, StreamConnects, StreamConsole, StreamHandlers,
     StreamIoThread, StreamServerThread DEF Next

LEMMA BeginningIsPrefix ==
    ASSUME NEW S, NEW s \in Seq(S), NEW got \in Seq(S), BeginsWith(s, got)
    PROVE  IsPrefix(got, s)
<1> DEFINE n == Len(got)
           a == SubSeq(got, 1, n)
           b == SubSeq(s, 1, n)
<1>1. n \in Nat /\ n <= Len(s) /\ \A i \in 1..n : got[i] = s[i]
  BY DEF BeginsWith
<1>2. /\ a \in Seq(S) /\ Len(a) = n /\ b \in Seq(S) /\ Len(b) = n
      /\ \A i \in 1..n : a[i] = got[i] /\ b[i] = s[i]
  BY <1>1
<1>3. a = b
  BY <1>1, <1>2, SeqEqual
<1>4. QED
  BY <1>1, <1>3 DEF IsPrefix

(* As long as no two writes of an end overlap, the other end keeps its place *)
(* in the stream and gets the messages whole, in order and once              *)
(* (UserSession.cpp:167, ChatClient.cpp:323).                                *)
THEOREM StreamIsIntact == Spec => []IntactUnlessOverlapped
<1>1. TypeInv /\ StreamInv => IntactUnlessOverlapped
  <2> SUFFICES ASSUME TypeInv, StreamInv, NEW e \in End, ~overlapped[e]
               PROVE  reader[Other(e)] # Lost /\ IsPrefix(Received(Other(e)), sent[e])
    BY DEF IntactUnlessOverlapped
  <2>1. ReaderOf(e) # Lost /\ BeginsWith(sent[e], Got(e))
    BY DEF StreamInv, DirectionInv
  <2>2. IsPrefix(Got(e), sent[e])
    BY <2>1, StreamTypes, BeginningIsPrefix
  <2>3. QED
    BY <2>1, <2>2 DEF ReaderOf, Got
<1>2. QED
  BY <1>1, InitTypes, NextTypes, ReadsOnceInit, ReadsOnceNext, StreamInitially, StreamNext, PTL
     DEF Spec
=============================================================================
