--------------------------- MODULE MessageFraming ---------------------------
(***************************************************************************)
(* The four bytes in front of every chat message: its size, the most       *)
(* significant byte first.  Client and server each have their own code for *)
(* the header, and they must agree on it.                                  *)
(*                                                                         *)
(* The server adds up bytes shifted as int, so the top byte counts as      *)
(* signed; a negative sum stands for the size_t 2^64 + sum, which no       *)
(* buffer can be resized to.                                               *)
(***************************************************************************)
EXTENDS Integers, Sequences

HEADER_SIZE == 4

Byte == 0..255

Header == [1..HEADER_SIZE -> Byte]

\* The sizes of a message: protobuf refuses those beyond INT_MAX.
MessageSize == {size \in Nat : size <= 2147483647}

\* What a byte counts that is shifted by 16 or 24 bits.
Shift16 == 65536
Shift24 == 16777216

SetSizeToBufferHeader(size) ==
    <<size \div Shift24, (size \div Shift16) % 256, (size \div 256) % 256, size % 256>>

\* The header AsyncWrite of the client fills from the last byte to the first.
Weight == <<Shift24, Shift16, 256, 1>>

SizeAsBytes(size) == [i \in 1..HEADER_SIZE |-> (size \div Weight[i]) % 256]

\* GetMessageBodySize, which nothing calls: each byte replaces the ones before.
GetMessageBodySize(header) == header[4]

SignedByte(b) == IF b < 128 THEN b ELSE b - 256

\* bodySize in ReadHeader of the server.
ServerBodySize(header) ==
    header[4] + header[3] * 256 + header[2] * Shift16 + SignedByte(header[1]) * Shift24

\* bodySize in ReadHeader of the client.
ClientBodySize(header) ==
    ((header[1] * 256 + header[2]) * 256 + header[3]) * 256 + header[4]
=============================================================================
