-------------------------- MODULE FrameCodecProofs --------------------------
(***************************************************************************)
(* What is written to the wire is what is read from it, for every frame    *)
(* within the limits, and when a response stays within them.               *)
(***************************************************************************)
EXTENDS FrameCodec, SequenceTheorems, TLAPS

Word == {n \in Nat : n < 4294967296}     \* uint32: more than TLC's integers

-----------------------------------------------------------------------------
(* Headers.                                                                *)

\* The four bytes of a length are bytes and add up to it again.
LEMMA WordInBytes ==
    ASSUME NEW n \in Word
    PROVE  /\ (n \div 16777216) % 256 \in Byte
           /\ (n \div 65536) % 256 \in Byte
           /\ (n \div 256) % 256 \in Byte
           /\ (n % 256) \in Byte
           /\ n = 16777216 * ((n \div 16777216) % 256) + 65536 * ((n \div 65536) % 256)
                    + 256 * ((n \div 256) % 256) + (n % 256)
<1>1. n \in Nat /\ n < 4294967296
  BY SMT DEF Word
<1>2. \A k \in Nat : (k % 256) \in Byte /\ k = 256 * (k \div 256) + (k % 256)
  BY SMT DEF Byte
<1>3. n \div 16777216 \in Nat /\ n \div 65536 \in Nat /\ n \div 256 \in Nat
  BY <1>1, SMT
<1>4. n \div 256 = 256 * (n \div 65536) + ((n \div 256) % 256)
  BY <1>1, SMT
<1>5. n \div 65536 = 256 * (n \div 16777216) + ((n \div 65536) % 256)
  BY <1>1, SMT
<1>6. n \div 16777216 = (n \div 16777216) % 256
  BY <1>1, SMT
<1>7. n = 256 * (n \div 256) + (n % 256)
  BY <1>1, SMT
<1>8. n = 16777216 * ((n \div 16777216) % 256) + 65536 * ((n \div 65536) % 256)
            + 256 * ((n \div 256) % 256) + (n % 256)
  BY <1>1, <1>3, <1>4, <1>5, <1>6, <1>7, SMT
<1> QED BY <1>1, <1>2, <1>3, <1>8, SMT

\* And four bytes are the bytes of the word they add up to.
LEMMA BytesInWord ==
    ASSUME NEW a \in Byte, NEW b \in Byte, NEW c \in Byte, NEW d \in Byte,
           NEW n, n = 16777216 * a + 65536 * b + 256 * c + d
    PROVE  /\ n \in Word
           /\ (n \div 16777216) % 256 = a /\ (n \div 65536) % 256 = b
           /\ (n \div 256) % 256 = c /\ (n % 256) = d
<1>1. /\ a \in Nat /\ a < 256 /\ b \in Nat /\ b < 256
      /\ c \in Nat /\ c < 256 /\ d \in Nat /\ d < 256
  BY SMT DEF Byte
<1>2. n \in Word
  BY <1>1, SMT DEF Word
<1>3. n \div 16777216 = a
  BY <1>1, SMTT(30)
<1>4. n \div 65536 = 256 * a + b
  BY <1>1, SMTT(30)
<1>5. n \div 256 = 65536 * a + 256 * b + c
  BY <1>1, SMTT(30)
<1>6. (n % 256) = d
  BY <1>1, SMTT(30)
<1> QED BY <1>1, <1>2, <1>3, <1>4, <1>5, <1>6, SMTT(30)

\* ReadFrame gets the type and the length that WriteFrame put into the header,
\* for every length that fits into its four bytes.
THEOREM HeaderRoundTrip ==
    ASSUME NEW type \in Byte, NEW n \in Word
    PROVE  /\ Header(type, n) \in Seq(Byte) /\ Len(Header(type, n)) = headerSize
           /\ Header(type, n)[3] = type
           /\ PayloadLength(Header(type, n)) = n
<1>1. /\ Header(type, n)[3] = type
      /\ Header(type, n)[4] = (n \div 16777216) % 256
      /\ Header(type, n)[5] = (n \div 65536) % 256
      /\ Header(type, n)[6] = (n \div 256) % 256
      /\ Header(type, n)[7] = (n % 256)
  BY SMT DEF Header
<1>2. PayloadLength(Header(type, n)) = n
  BY SMT, <1>1, WordInBytes DEF PayloadLength
<1>3. magicHigh \in Byte /\ magicLow \in Byte
  BY SMT DEF magicHigh, magicLow, Byte
<1>4. Header(type, n) \in Seq(Byte) /\ Len(Header(type, n)) = headerSize
  BY SMT, <1>3, WordInBytes DEF Header, headerSize
<1> QED BY SMT, <1>1, <1>2, <1>4

\* No two headers read alike: the bytes ReadFrame accepts are exactly those
\* that WriteFrame writes for the type and length it reads.
THEOREM HeaderCanonical ==
    ASSUME NEW h \in Seq(Byte), Len(h) = headerSize, HeaderAccepted(h)
    PROVE  /\ PayloadLength(h) \in Word
           /\ Header(h[3], PayloadLength(h)) = h
<1>1. h[4] \in Byte /\ h[5] \in Byte /\ h[6] \in Byte /\ h[7] \in Byte
  <2>1. 4 \in 1 .. Len(h) /\ 5 \in 1 .. Len(h) /\ 6 \in 1 .. Len(h) /\ 7 \in 1 .. Len(h)
    BY SMT DEF headerSize
  <2> QED BY <2>1, ElementOfSeq, Zenon
<1>2. PayloadLength(h) = 16777216 * h[4] + 65536 * h[5] + 256 * h[6] + h[7]
  BY SMT DEF PayloadLength
<1> DEFINE n == PayloadLength(h)
<1> HIDE DEF n
<1>3. /\ n \in Word
      /\ (n \div 16777216) % 256 = h[4] /\ (n \div 65536) % 256 = h[5]
      /\ (n \div 256) % 256 = h[6] /\ (n % 256) = h[7]
  <2>1. n = 16777216 * h[4] + 65536 * h[5] + 256 * h[6] + h[7]
    BY SMT, <1>2 DEF n
  <2> QED BY SMTT(30), <2>1, <1>1, BytesInWord
<1>4. Header(h[3], n) = <<h[1], h[2], h[3], h[4], h[5], h[6], h[7]>>
  BY SMT, <1>3 DEF Header, HeaderAccepted
<1>5. h = <<h[1], h[2], h[3], h[4], h[5], h[6], h[7]>>
  BY SMT DEF headerSize
<1>6. n \in Word
  BY SMT, <1>3
<1> QED BY <1>4, <1>5, <1>6, Zenon DEF n

-----------------------------------------------------------------------------
(* Frames.                                                                 *)

\* A stream that begins with the header and the payload of a frame.
LEMMA ReadBack ==
    ASSUME NEW type \in Byte, NEW p \in Seq(Byte), Len(p) <= maxPayloadSize,
           NEW s \in Seq(Byte), Len(s) >= headerSize + Len(p),
           \A i \in 1 .. headerSize : s[i] = Header(type, Len(p))[i],
           \A i \in 1 .. Len(p) : s[headerSize + i] = p[i]
    PROVE  /\ HeaderAccepted(s)
           /\ Awaited(s) = headerSize + Len(p)
           /\ FrameRead(s) = [type |-> type, payload |-> p]
<1>1. Len(p) \in Nat /\ Len(p) \in Word
  BY SMT DEF Word, maxPayloadSize
<1>2. /\ s[1] = magicHigh /\ s[2] = magicLow /\ s[3] = type
      /\ PayloadLength(s) = PayloadLength(Header(type, Len(p)))
  <2>1. /\ s[1] = Header(type, Len(p))[1] /\ s[2] = Header(type, Len(p))[2]
        /\ s[3] = Header(type, Len(p))[3] /\ s[4] = Header(type, Len(p))[4]
        /\ s[5] = Header(type, Len(p))[5] /\ s[6] = Header(type, Len(p))[6]
        /\ s[7] = Header(type, Len(p))[7]
    BY SMT DEF headerSize
  <2>2. Header(type, Len(p))[1] = magicHigh /\ Header(type, Len(p))[2] = magicLow
    BY SMT DEF Header
  <2>3. Header(type, Len(p))[3] = type
    BY <1>1, HeaderRoundTrip, SMT
  <2> QED BY <2>1, <2>2, <2>3, SMT DEF PayloadLength
<1>3. PayloadLength(s) = Len(p)
  BY <1>1, <1>2, HeaderRoundTrip, SMT
<1>4. HeaderAccepted(s)
  BY <1>2, <1>3, SMT DEF HeaderAccepted
<1>5. Awaited(s) = headerSize + Len(p)
  BY <1>1, <1>3, <1>4, SMT DEF Awaited, headerSize
<1>6. SubSeq(s, headerSize + 1, headerSize + Len(p)) = p
  <2>1. /\ SubSeq(s, headerSize + 1, headerSize + Len(p)) \in Seq(Byte)
        /\ Len(SubSeq(s, headerSize + 1, headerSize + Len(p))) = Len(p)
        /\ \A i \in 1 .. Len(p) :
              SubSeq(s, headerSize + 1, headerSize + Len(p))[i] = s[headerSize + i]
    BY <1>1, SMT DEF headerSize
  <2> DEFINE q == SubSeq(s, headerSize + 1, headerSize + Len(p))
  <2>2. q \in Seq(Byte) /\ Len(q) = Len(p) /\ \A i \in 1 .. Len(q) : q[i] = p[i]
    BY <2>1, SMT
  <2> HIDE DEF q
  <2>3. q = p
    BY <2>2, SeqEqual
  <2> QED BY <2>3 DEF q
<1>7. FrameRead(s) = [type |-> type, payload |-> p]
  BY <1>2, <1>3, <1>6, Zenon DEF FrameRead
<1> QED BY <1>4, <1>5, <1>7, Zenon

\* Whatever follows it in the stream, a frame within the payload limit is
\* waited for to its last byte and read as it was written.
THEOREM FrameRoundTrip ==
    ASSUME NEW f \in Frames, Len(f.payload) <= maxPayloadSize, NEW rest \in Seq(Byte)
    PROVE  /\ HeaderAccepted(Wire(f) \o rest)
           /\ Awaited(Wire(f) \o rest) = Len(Wire(f))
           /\ FrameRead(Wire(f) \o rest) = f
<1>1. /\ f.type \in Byte /\ f.payload \in Seq(Byte) /\ Len(f.payload) \in Nat
      /\ f = [type |-> f.type, payload |-> f.payload]
  BY SMT DEF Frames
<1>2. Header(f.type, Len(f.payload)) \in Seq(Byte) /\ Len(Header(f.type, Len(f.payload))) = headerSize
  <2>1. Len(f.payload) \in Word
    BY <1>1, SMT DEF Word, maxPayloadSize
  <2> QED BY <1>1, <2>1, HeaderRoundTrip, SMT
<1> DEFINE s == Wire(f) \o rest
<1>3. Wire(f) \in Seq(Byte) /\ Len(Wire(f)) = headerSize + Len(f.payload)
  BY <1>1, <1>2, ConcatProperties, Zenon DEF Wire
<1>4. s \in Seq(Byte) /\ Len(s) >= headerSize + Len(f.payload)
  BY <1>1, <1>3, SMT DEF headerSize
<1>5. \A i \in 1 .. headerSize : s[i] = Header(f.type, Len(f.payload))[i]
  BY <1>1, <1>2, <1>3, SMT DEF Wire, headerSize
<1>6. \A i \in 1 .. Len(f.payload) : s[headerSize + i] = f.payload[i]
  BY <1>1, <1>2, <1>3, SMT DEF Wire, headerSize
<1> HIDE DEF s
<1>7. HeaderAccepted(s) /\ Awaited(s) = headerSize + Len(f.payload) /\ FrameRead(s) = f
  BY <1>1, <1>4, <1>5, <1>6, ReadBack, SMT
<1> QED BY <1>3, <1>7, SMT DEF s

\* Whatever bytes ReadFrame makes a frame of, it is the frame that stands at
\* their beginning: WriteFrame would write the very bytes that were read.
THEOREM ReadIsWritten ==
    ASSUME NEW s \in Seq(Byte), HeaderAccepted(s), Len(s) >= headerSize,
           Len(s) >= headerSize + PayloadLength(s)
    PROVE  /\ FrameRead(s) \in Frames
           /\ PayloadLength(s) \in Nat
           /\ Wire(FrameRead(s)) = SubSeq(s, 1, headerSize + PayloadLength(s))
<1> DEFINE h == SubSeq(s, 1, headerSize)
           n == PayloadLength(s)
           p == SubSeq(s, headerSize + 1, headerSize + n)
<1>1. /\ h \in Seq(Byte) /\ Len(h) = headerSize
      /\ h[1] = s[1] /\ h[2] = s[2] /\ h[3] = s[3] /\ h[4] = s[4]
      /\ h[5] = s[5] /\ h[6] = s[6] /\ h[7] = s[7]
  BY SMT DEF headerSize
<1> HIDE DEF h
<1>2. PayloadLength(h) = n /\ HeaderAccepted(h)
  BY <1>1, SMT DEF PayloadLength, HeaderAccepted
<1> HIDE DEF n
<1>3. n \in Nat /\ Header(s[3], n) = h
  <2>1. PayloadLength(h) \in Word /\ Header(h[3], PayloadLength(h)) = h
    BY <1>1, <1>2, HeaderCanonical, Zenon
  <2> QED BY <1>1, <1>2, <2>1, SMT DEF Word
<1>4. s[3] \in Byte
  <2>1. 3 \in 1 .. Len(s)
    BY SMT DEF headerSize
  <2> QED BY <2>1, ElementOfSeq, Zenon
<1>5. p \in Seq(Byte) /\ Len(p) = n /\ \A i \in 1 .. n : p[i] = s[headerSize + i]
  BY <1>3, SMT DEF n, headerSize
<1>6. FrameRead(s) = [type |-> s[3], payload |-> p]
  BY Zenon DEF FrameRead, n
<1>7. Wire(FrameRead(s)) = h \o p
  <2> HIDE DEF p
  <2>1. FrameRead(s).type = s[3] /\ FrameRead(s).payload = p
    BY <1>6, SMT
  <2>2. Wire(FrameRead(s)) = Header(s[3], Len(p)) \o p
    BY <2>1, Zenon DEF Wire
  <2> QED BY <1>3, <1>5, <2>2, Zenon
<1>8. h \o p = SubSeq(s, 1, headerSize + n)
  <2> HIDE DEF p
  <2> DEFINE q == SubSeq(s, 1, headerSize + n)
  <2>1. q \in Seq(Byte) /\ Len(q) = headerSize + n /\ \A i \in 1 .. Len(q) : q[i] = s[i]
    BY <1>3, SMT DEF n, headerSize
  <2>2. h \o p \in Seq(Byte) /\ Len(h \o p) = headerSize + n
    BY <1>1, <1>5, ConcatProperties, Zenon
  <2>3. \A i \in 1 .. headerSize + n : (h \o p)[i] = s[i]
    <3>1. \A i \in 1 .. headerSize : h[i] = s[i]
      BY SMT DEF h, headerSize
    <3>2. \A i \in 1 .. headerSize + n :
             (h \o p)[i] = IF i <= headerSize THEN h[i] ELSE p[i - headerSize]
      <4>1. \A i \in 1 .. Len(h) + Len(p) :
               (h \o p)[i] = IF i <= Len(h) THEN h[i] ELSE p[i - Len(h)]
        BY <1>1, <1>5, ConcatProperties, Zenon
      <4> QED BY <1>1, <1>5, <4>1, Zenon
    <3>3. ASSUME NEW i \in 1 .. headerSize + n, i > headerSize PROVE (h \o p)[i] = s[i]
      <4>1. i - headerSize \in 1 .. n /\ headerSize + (i - headerSize) = i
        BY <1>3, <3>3, SMT DEF headerSize
      <4>2. p[i - headerSize] = s[i]
        BY <1>5, <4>1, Zenon
      <4>3. ~(i <= headerSize)
        BY <1>3, <3>3, SMT DEF headerSize
      <4> QED BY <3>2, <4>2, <4>3, Zenon
    <3>4. ASSUME NEW i \in 1 .. headerSize + n, i <= headerSize PROVE (h \o p)[i] = s[i]
      <4>1. i \in 1 .. headerSize
        BY <1>3, <3>4, SMT DEF headerSize
      <4> QED BY <3>1, <3>2, <3>4, <4>1, Zenon
    <3>5. \A i \in 1 .. headerSize + n : i <= headerSize \/ i > headerSize
      BY <1>3, SMT DEF headerSize
    <3> QED BY <3>3, <3>4, <3>5, Zenon
  <2> HIDE DEF q
  <2>4. h \o p = q
    BY <2>1, <2>2, <2>3, SeqEqual
  <2> QED BY <2>4 DEF q
<1>9. FrameRead(s) \in Frames
  BY <1>4, <1>5, <1>6, SMT DEF Frames
<1> QED BY <1>3, <1>7, <1>8, <1>9, Zenon DEF n

-----------------------------------------------------------------------------
(* Sizes.                                                                  *)

\* A FETCH_RESP of n messages stays under the limit that ReadFrame puts on a
\* payload, whatever the sizes of the messages, exactly if n is at most 159.  The
\* 100 messages of config.go's default fit, and the 200 that the installer writes
\* (install.sh:513, 1127) do not: FETCH compares with nothing, deletes them and
\* writes a frame that no ReadFrame accepts.
THEOREM FullMailboxFits ==
    ASSUME NEW n \in Nat
    PROVE  /\ n <= 159 <=>
                 \A blob \in 0 .. maxMessageSize : FetchRespSize(n, blob) <= maxPayloadSize
           /\ FetchRespSize(100, maxMessageSize) <= maxPayloadSize
           /\ FetchRespSize(200, maxMessageSize) > maxPayloadSize
<1>1. ASSUME NEW blob \in 0 .. maxMessageSize, n <= 159
      PROVE  FetchRespSize(n, blob) <= maxPayloadSize
  <2> DEFINE e == FetchEntrySize(blob)
  <2>1. e \in Nat /\ e <= 65618
    BY SMT DEF FetchEntrySize, maxMessageSize
  <2> HIDE DEF e
  <2>2. n * e <= 159 * e /\ n * e \in Nat
    BY <1>1, <2>1, SMT
  <2> QED
    BY <2>1, <2>2, SMT DEF FetchRespSize, maxPayloadSize, e
<1>2. FetchRespSize(n, maxMessageSize) <= maxPayloadSize => n <= 159
  BY SMT DEF FetchRespSize, FetchEntrySize, maxMessageSize, maxPayloadSize
<1>3. maxMessageSize \in 0 .. maxMessageSize
  BY SMT DEF maxMessageSize
<1>4. /\ FetchRespSize(100, maxMessageSize) <= maxPayloadSize
      /\ FetchRespSize(200, maxMessageSize) > maxPayloadSize
  BY SMT DEF FetchRespSize, FetchEntrySize, maxMessageSize, maxPayloadSize
<1>5. n <= 159 <=> \A blob \in 0 .. maxMessageSize : FetchRespSize(n, blob) <= maxPayloadSize
  BY <1>1, <1>2, <1>3, Zenon
<1> QED
  BY <1>4, <1>5, Zenon

\* The count of a response tells its reader the truth as long as it has no
\* more than 65535 entries, and never beyond.
THEOREM CountIsExact ==
    ASSUME NEW n \in Nat
    PROVE  CountWritten(n) = n <=> n < 65536
  BY SMT DEF CountWritten
=============================================================================
