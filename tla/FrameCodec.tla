----------------------------- MODULE FrameCodec -----------------------------
(***************************************************************************)
(* The wire format (internal/transport/frame.go and the responses that     *)
(* server.go lays out), at its real widths: bytes are 0 .. 255, a length   *)
(* has 32 bits and a count has 16.  What is in a payload is left out; its  *)
(* size is not.                                                            *)
(***************************************************************************)
EXTENDS Integers, Sequences

Byte == 0 .. 255

magicHigh == 241
magicLow == 161
headerSize == 7
maxPayloadSize == 10485760  \* 10 * 1024 * 1024

\* The frame types a request may have, and the command each one stands for.
Command == [t \in {5, 7, 8, 9, 10, 11, 12, 13} |->
               CASE t = 5 -> "PING" [] t = 7 -> "DEPOSIT" [] t = 8 -> "FETCH"
                 [] t = 9 -> "JOIN" [] t = 10 -> "LEAVE" [] t = 11 -> "INVITE_REQ"
                 [] t = 12 -> "REVOKE" [] t = 13 -> "LIST"]

Frames == [type : Byte, payload : Seq(Byte)]

-----------------------------------------------------------------------------
(* Headers.                                                                *)

\* binary.BigEndian.PutUint32(buf[3:7], uint32(n)), after the magic and type.
Header(type, n) ==
    <<magicHigh, magicLow, type,
      (n \div 16777216) % 256, (n \div 65536) % 256, (n \div 256) % 256, n % 256>>

\* binary.BigEndian.Uint32(header[3:7]).
PayloadLength(h) == 16777216 * h[4] + 65536 * h[5] + 256 * h[6] + h[7]

\* On a 64 bit machine int(uint32) is not negative.
HeaderAccepted(h) ==
    h[1] = magicHigh /\ h[2] = magicLow /\ PayloadLength(h) <= maxPayloadSize

-----------------------------------------------------------------------------
(* Frames.                                                                 *)

\* WriteFrame: the bytes of a frame.
Wire(f) == Header(f.type, Len(f.payload)) \o f.payload

\* Mistaken variant of Awaited: the length is taken for that of the whole frame,
\* and the header is read once more.
BugAwaited(s) ==
    IF Len(s) < headerSize THEN headerSize
    ELSE IF HeaderAccepted(s) THEN headerSize + headerSize + PayloadLength(s)
    ELSE headerSize

\* ReadFrame, when the bytes s have arrived: how many it waits for, and the
\* frame it returns.
Awaited(s) ==
    IF Len(s) < headerSize THEN headerSize
    ELSE IF HeaderAccepted(s) THEN headerSize + PayloadLength(s)
    ELSE headerSize

FrameRead(s) ==
    [type |-> s[3], payload |-> SubSeq(s, headerSize + 1, headerSize + PayloadLength(s))]

-----------------------------------------------------------------------------
(* Sizes and counts of responses.                                          *)

\* The count of FETCH_RESP and MEMBER_LIST: uint16(n).
CountWritten(n) == n % 65536

\* [idLen:2][id:36][sender:32][depositedAt:8][blobLen:4][blob], the id a UUID.
FetchEntrySize(blob) == 2 + 36 + 32 + 8 + 4 + blob

\* limits.max_message_size, by default and as the installer writes it.
maxMessageSize == 65536

\* FETCH_RESP of n messages with blobs of at most `blob` bytes: at most this.
FetchRespSize(n, blob) == 2 + n * FetchEntrySize(blob)

\* [pub:32][role:1][joinedAt:8].
MemberListSize(n) == 2 + n * (32 + 1 + 8)
=============================================================================
