------------------------- MODULE SocketReaderProofs -------------------------
(***************************************************************************)
(* Proofs about SocketReader, for all messages, every number of them and   *)
(* every way recv may cut up the stream.                                   *)
(*                                                                         *)
(* The invariant does not compute the encoding of a sequence of messages:  *)
(* it says that bytes are one, by naming what follows each message.        *)
(***************************************************************************)
EXTENDS SocketReader, SequenceTheorems, TLAPS

Bytes == Seq(0..255)

UInt32 == {n \in Nat : n <= 4294967295}

\* t is the encoding of the messages of u: rest[i] is that of u[i], u[i+1], ...
Encodes(t, u) ==
    \E rest \in [1..(Len(u) + 1) -> Bytes] :
        /\ rest[1] = t
        /\ rest[Len(u) + 1] = <<>>
        /\ \A i \in 1..Len(u) : rest[i] = buildMessage(u[i]) \o rest[i + 1]

\* What readMessage has taken of the message it is reading.
header ==
    CASE stage = "tag"    -> <<>>
      [] stage = "length" -> <<tag>>
      [] stage = "body"   -> <<tag>> \o i32(len)

ReaderTypeOK ==
    /\ unread \in Seq(Messages)
    /\ count \in Nat
    /\ wire \in Bytes
    /\ peer \in {"open", "closed", "broken"}
    /\ buf \in Bytes
    /\ stage \in {"tag", "length", "body"}
    /\ tag \in 0..255
    /\ len \in UInt32
    /\ failed \in BOOLEAN

\* What has been taken, what is buffered, what is in flight and what a broken
\* connection has lost make up the messages that were not returned.
InStep ==
    \E lost \in Bytes :
        /\ peer # "broken" => lost = <<>>
        /\ Encodes((header \o (buf \o wire)) \o lost, unread)

\* A reader that has failed has nothing more to read, unless bytes were lost.
FailedLast == failed => peer # "open" /\ (peer = "closed" => unread = <<>>)

ReaderInv == ReaderTypeOK /\ InStep /\ FailedLast

-----------------------------------------------------------------------------
(* Encodings *)

\* The digits of a number in base 256, from the last.
d0(n) == n % 256
d1(n) == (n \div 256) % 256
d2(n) == (n \div 65536) % 256
d3(n) == (n \div 16777216) % 256

\* MsgWriter.i32 gives four bytes.
LEMMA I32Bytes ==
    ASSUME NEW n \in Nat
    PROVE  /\ i32(n) \in Bytes
           /\ Len(i32(n)) = 4
           /\ i32(n)[1] = d3(n) /\ i32(n)[2] = d2(n)
           /\ i32(n)[3] = d1(n) /\ i32(n)[4] = d0(n)
  <1>1. i32(n) = <<d3(n), d2(n), d1(n), d0(n)>>
    BY SMT DEF i32, d0, d1, d2, d3
  <1>2. d3(n) \in 0..255 /\ d2(n) \in 0..255 /\ d1(n) \in 0..255 /\ d0(n) \in 0..255
    BY SMT DEF d0, d1, d2, d3
  <1> QED BY <1>1, <1>2 DEF Bytes

\* A number of 32 bits is the sum of its digits.
LEMMA SumOfDigits ==
    ASSUME NEW m \in UInt32, NEW n \in UInt32,
           d0(m) = d0(n), d1(m) = d1(n), d2(m) = d2(n), d3(m) = d3(n)
    PROVE  m = n
  <1>1. ASSUME NEW k \in Nat, k <= 4294967295
        PROVE  k = 16777216 * d3(k) + 65536 * d2(k) + 256 * d1(k) + d0(k)
    <2>1. d3(k) = k \div 16777216
      BY <1>1, SMT DEF d3
    <2>2. k \div 65536 = 256 * (k \div 16777216) + d2(k)
      BY <1>1, SMT DEF d2
    <2>3. k \div 256 = 256 * (k \div 65536) + d1(k)
      BY <1>1, SMT DEF d1
    <2>4. k = 256 * (k \div 256) + d0(k)
      BY <1>1, SMT DEF d0
    <2>5. /\ k \div 16777216 \in Int /\ k \div 65536 \in Int /\ k \div 256 \in Int
          /\ d0(k) \in Int /\ d1(k) \in Int /\ d2(k) \in Int
      BY <1>1, SMT DEF d0, d1, d2
    <2> QED BY <1>1, <2>1, <2>2, <2>3, <2>4, <2>5, SMT
  <1>2. m \in Nat /\ m <= 4294967295 /\ n \in Nat /\ n <= 4294967295
    BY SMT DEF UInt32
  <1>3. m = 16777216 * d3(m) + 65536 * d2(m) + 256 * d1(m) + d0(m)
    BY <1>1, <1>2, SMT
  <1>4. n = 16777216 * d3(n) + 65536 * d2(n) + 256 * d1(n) + d0(n)
    BY <1>1, <1>2, SMT
  <1> QED BY <1>3, <1>4, SMT

\* Four bytes are the encoding of the number readInt32 makes of them.
LEMMA BytesOfInt32 ==
    ASSUME NEW b \in Bytes, Len(b) = 4
    PROVE  /\ readInt32(b) \in UInt32
           /\ i32(readInt32(b)) = b
  <1>1. b[1] \in 0..255 /\ b[2] \in 0..255 /\ b[3] \in 0..255 /\ b[4] \in 0..255
    <2>1. 1 \in 1..Len(b) /\ 2 \in 1..Len(b) /\ 3 \in 1..Len(b) /\ 4 \in 1..Len(b)
      OBVIOUS
    <2>2. \A i \in 1..Len(b) : b[i] \in 0..255
      BY ElementOfSeq DEF Bytes
    <2> QED BY <2>1, <2>2
  <1>2. PICK p \in 0..255, q \in 0..255, r \in 0..255, t \in 0..255 :
            b[1] = p /\ b[2] = q /\ b[3] = r /\ b[4] = t
    BY <1>1
  <1> DEFINE n == readInt32(b)
  <1>3. n = 16777216 * p + 65536 * q + 256 * r + t
    BY <1>2, SMT DEF readInt32
  <1> HIDE DEF n
  <1>4. n \in UInt32 /\ n \in Nat
    BY <1>3, SMT DEF UInt32
  <1>5. d3(n) = p /\ d2(n) = q /\ d1(n) = r /\ d0(n) = t
    <2>1. n \div 16777216 = p
      BY <1>3, <1>4, SMT
    <2>2. n \div 65536 = 256 * p + q
      BY <1>3, <1>4, SMT
    <2>3. n \div 256 = 65536 * p + 256 * q + r
      BY <1>3, <1>4, SMT
    <2>4. /\ p % 256 = p
          /\ (256 * p + q) % 256 = q
          /\ (65536 * p + 256 * q + r) % 256 = r
          /\ n % 256 = t
      BY <1>3, <1>4, SMT
    <2> QED BY <2>1, <2>2, <2>3, <2>4, SMT DEF d0, d1, d2, d3
  <1>6. \A k \in 1..4 : i32(n)[k] = b[k]
    <2>1. \A k \in 1..4 : k = 1 \/ k = 2 \/ k = 3 \/ k = 4
      OBVIOUS
    <2> QED BY <1>2, <1>4, <1>5, <2>1, I32Bytes
  <1>7. i32(n) = b
    BY <1>4, <1>6, I32Bytes, SeqEqual DEF Bytes
  <1> QED BY <1>4, <1>7 DEF n

\* Numbers that are encoded alike are equal.
LEMMA I32Injective ==
    ASSUME NEW m \in UInt32, NEW n \in UInt32, i32(m) = i32(n)
    PROVE  m = n
  <1>1. m \in Nat /\ n \in Nat
    BY SMT DEF UInt32
  <1> QED BY <1>1, I32Bytes, SumOfDigits

\* Concatenation of sequences of bytes.
LEMMA BytesConcat ==
    ASSUME NEW a \in Bytes, NEW b \in Bytes
    PROVE  /\ a \o b \in Bytes
           /\ Len(a) \in Nat /\ Len(b) \in Nat
           /\ Len(a \o b) = Len(a) + Len(b)
           /\ a \o <<>> = a /\ <<>> \o a = a
           /\ <<>> \in Bytes
  <1>1. a \o b \in Seq(0..255) /\ Len(a \o b) = Len(a) + Len(b)
    BY ConcatProperties DEF Bytes
  <1>2. Len(a) \in Nat /\ Len(b) \in Nat
    BY LenProperties DEF Bytes
  <1>3. a \o <<>> = a /\ <<>> \o a = a /\ <<>> \in Seq(0..255)
    BY ConcatEmptySeq, EmptySeq DEF Bytes
  <1> QED BY <1>1, <1>2, <1>3 DEF Bytes

LEMMA BytesAssociative ==
    ASSUME NEW a \in Bytes, NEW b \in Bytes, NEW c \in Bytes
    PROVE  (a \o b) \o c = a \o (b \o c)
  BY ConcatAssociative DEF Bytes

\* A sequence of bytes is what is taken of it and what is left.
LEMMA Cut ==
    ASSUME NEW b \in Bytes, NEW n \in 0..Len(b)
    PROVE  /\ SubSeq(b, 1, n) \in Bytes
           /\ Len(SubSeq(b, 1, n)) = n
           /\ SubSeq(b, n + 1, Len(b)) \in Bytes
           /\ SubSeq(b, 1, n) \o SubSeq(b, n + 1, Len(b)) = b
  <1>1. Len(b) \in Nat /\ \A i \in 1..Len(b) : b[i] \in 0..255
    BY ElementOfSeq, LenProperties DEF Bytes
  <1>2. /\ \A i \in 1..n : b[i] \in 0..255
        /\ \A i \in (n + 1)..Len(b) : b[i] \in 0..255
        /\ n \in Int /\ n + 1 \in Int /\ Len(b) \in Int
    BY <1>1
  <1>3. SubSeq(b, 1, n) \in Seq(0..255) /\ Len(SubSeq(b, 1, n)) = n
    BY <1>2, SubSeqProperties
  <1>4. SubSeq(b, n + 1, Len(b)) \in Seq(0..255)
    BY <1>2, SubSeqProperties
  <1>5. SubSeq(b, 1, n) \o SubSeq(b, n + 1, Len(b)) = SubSeq(b, 1, Len(b))
    <2>1. 1 \in 1..(Len(b) + 1) /\ n \in (1 - 1)..Len(b) /\ Len(b) \in n..Len(b)
      BY <1>1
    <2> QED BY <2>1, ConcatAdjacentSubSeq DEF Bytes
  <1> QED BY <1>3, <1>4, <1>5, SubSeqFull DEF Bytes

\* Sequences that agree have parts that agree, where they are cut alike.
LEMMA SplitEqual ==
    ASSUME NEW a \in Bytes, NEW b \in Bytes, NEW c \in Bytes, NEW d \in Bytes,
           Len(a) = Len(c), a \o b = c \o d
    PROVE  a = c /\ b = d
  <1>1. /\ Len(a) \in Nat /\ Len(b) \in Nat /\ Len(d) \in Nat
        /\ Len(a) + Len(b) = Len(c) + Len(d)
    <2>1. Len(a) \in Nat /\ Len(b) \in Nat /\ Len(a \o b) = Len(a) + Len(b)
      BY BytesConcat
    <2>2. Len(d) \in Nat /\ Len(c \o d) = Len(c) + Len(d)
      BY BytesConcat
    <2> QED BY <2>1, <2>2
  <1>2. \A i \in 1..Len(a) : a[i] = c[i]
    <2> TAKE i \in 1..Len(a)
    <2>1. /\ i \in 1..(Len(a) + Len(b)) /\ i \in 1..(Len(c) + Len(d))
          /\ i <= Len(a) /\ i <= Len(c)
      BY <1>1
    <2>2. (a \o b)[i] = a[i] /\ (c \o d)[i] = c[i]
      BY <2>1, ConcatProperties DEF Bytes
    <2> QED BY <2>2
  <1>3. a = c
    BY <1>2, SeqEqual DEF Bytes
  <1> QED BY <1>3, ConcatSimplifications, ZenonT(30) DEF Bytes

\* A message: type, length, body.
LEMMA MessageBytes ==
    ASSUME NEW m \in Messages
    PROVE  /\ m.tag \in 0..255
           /\ m.body \in Bytes
           /\ Len(m.body) + 4 \in UInt32
           /\ <<m.tag>> \in Bytes /\ Len(<<m.tag>>) = 1
           /\ <<m.tag>> \o i32(Len(m.body) + 4) \in Bytes
           /\ Len(<<m.tag>> \o i32(Len(m.body) + 4)) = 5
           /\ buildMessage(m) =
                 (<<m.tag>> \o i32(Len(m.body) + 4)) \o m.body
           /\ buildMessage(m) \in Bytes
           /\ Len(buildMessage(m)) = Len(m.body) + 5
  <1>1. m.tag \in 0..255 /\ m.body \in Bytes /\ Len(m.body) + 4 \in UInt32
    <2>1. /\ m.tag \in 0..255 /\ m.body \in Seq(0..255)
          /\ Len(m.body) + 4 <= 2147483647
      <3>1. m.tag \in Tags /\ m.body \in Bodies
        BY DEF Messages
      <3>2. m.tag \in 0..255
        <4>1. Tags \subseteq 0..255
          BY ReaderAssumption, SMT
        <4> QED BY <3>1, <4>1
      <3>3. m.body \in Seq(0..255) /\ Len(m.body) + 4 <= 2147483647
        BY <3>1, ReaderAssumption, SMT
      <3> QED BY <3>2, <3>3, SMT
    <2>2. Len(m.body) \in Nat
      BY <2>1, LenProperties, SMT
    <2>3. Len(m.body) + 4 \in UInt32
      BY <2>1, <2>2, SMT DEF UInt32
    <2> QED BY <2>1, <2>3, SMT DEF Bytes
  <1>2. Len(m.body) \in Nat /\ Len(m.body) + 4 \in Nat
    BY <1>1, LenProperties DEF Bytes
  <1>3. <<m.tag>> \in Bytes /\ Len(<<m.tag>>) = 1
    BY <1>1 DEF Bytes
  <1>4. i32(Len(m.body) + 4) \in Bytes /\ Len(i32(Len(m.body) + 4)) = 4
    BY <1>2, I32Bytes
  <1>5. /\ <<m.tag>> \o i32(Len(m.body) + 4) \in Bytes
        /\ Len(<<m.tag>> \o i32(Len(m.body) + 4)) = 5
    <2> DEFINE a == <<m.tag>>
               b == i32(Len(m.body) + 4)
    <2> HIDE DEF a, b
    <2>1. a \in Bytes /\ b \in Bytes /\ Len(a) = 1 /\ Len(b) = 4
      BY <1>3, <1>4 DEF a, b
    <2>2. a \o b \in Bytes /\ Len(a \o b) = 1 + 4
      BY <2>1, BytesConcat
    <2> QED BY <2>2 DEF a, b
  <1>6. buildMessage(m) = (<<m.tag>> \o i32(Len(m.body) + 4)) \o m.body
    BY DEF buildMessage
  <1>7. buildMessage(m) \in Bytes /\ Len(buildMessage(m)) = Len(m.body) + 5
    <2>1. Len(buildMessage(m)) = 5 + Len(m.body) /\ buildMessage(m) \in Bytes
      BY <1>1, <1>5, <1>6, BytesConcat
    <2> QED BY <1>2, <2>1
  <1> QED BY <1>1, <1>3, <1>5, <1>6, <1>7

\* No messages are no bytes.
LEMMA EncodesNothing ==
    /\ Encodes(<<>>, <<>>)
    /\ \A t : Encodes(t, <<>>) => t = <<>>
  <1>1. Encodes(<<>>, <<>>)
    <2> DEFINE rest == [i \in 1..1 |-> <<>>]
    <2>1. rest \in [1..(Len(<<>>) + 1) -> Bytes]
      BY EmptySeq DEF Bytes
    <2>2. rest[1] = <<>> /\ Len(<<>>) + 1 = 1
      BY EmptySeq
    <2>3. 1..Len(<<>>) = {}
      BY EmptySeq
    <2> HIDE DEF rest
    <2> QED BY <2>1, <2>2, <2>3 DEF Encodes
  <1>2. ASSUME NEW t, Encodes(t, <<>>)
        PROVE  t = <<>>
    <2>1. Len(<<>>) + 1 = 1
      BY EmptySeq
    <2> QED BY <1>2, <2>1 DEF Encodes
  <1> QED BY <1>1, <1>2

\* A message that is sent follows the bytes of the others.
LEMMA EncodesAppend ==
    ASSUME NEW u \in Seq(Messages), NEW m \in Messages, NEW t \in Bytes,
           Encodes(t, u)
    PROVE  Encodes(t \o buildMessage(m), Append(u, m))
  <1> DEFINE n == Len(u)
             v == Append(u, m)
             e == buildMessage(m)
  <1>1. PICK rest \in [1..(n + 1) -> Bytes] :
            /\ rest[1] = t
            /\ rest[n + 1] = <<>>
            /\ \A i \in 1..n : rest[i] = buildMessage(u[i]) \o rest[i + 1]
    BY DEF Encodes
  <1>2. n \in Nat /\ e \in Bytes
    BY MessageBytes, LenProperties
  <1>3. Len(v) = n + 1 /\ v[n + 1] = m /\ \A i \in 1..n : v[i] = u[i]
    BY AppendProperties
  <1>4. \A i \in 1..n : u[i] \in Messages
    BY ElementOfSeq
  <1> HIDE DEF n, v, e
  <1> DEFINE more == [i \in 1..(n + 2) |-> IF i = n + 2 THEN <<>> ELSE rest[i] \o e]
  <1>5. more \in [1..(n + 2) -> Bytes]
    <2>1. ASSUME NEW i \in 1..(n + 2)
          PROVE  more[i] \in Bytes
      <3>1. CASE i = n + 2
        BY <3>1, EmptySeq DEF Bytes
      <3>2. CASE i # n + 2
        <4>1. i \in 1..(n + 1)
          BY <1>2, <3>2
        <4>2. rest[i] \o e \in Bytes
          BY <1>2, <4>1, ConcatProperties DEF Bytes
        <4> QED BY <3>2, <4>2
      <3> QED BY <3>1, <3>2
    <2> QED BY <2>1
  <1>6. more[1] = t \o e /\ more[n + 2] = <<>>
    <2>1. 1 \in 1..(n + 2) /\ n + 2 \in 1..(n + 2) /\ 1 # n + 2
      BY <1>2
    <2> QED BY <1>1, <2>1
  <1>7. ASSUME NEW i \in 1..(n + 1)
        PROVE  more[i] = buildMessage(v[i]) \o more[i + 1]
    <2>1. CASE i = n + 1
      <3>1. more[i] = rest[n + 1] \o e /\ more[i + 1] = <<>>
        BY <1>2, <2>1
      <3>2. buildMessage(v[i]) = e
        BY <1>3, <2>1 DEF e
      <3> HIDE DEF more
      <3> QED BY <1>1, <1>2, <3>1, <3>2, BytesConcat
    <2>2. CASE i # n + 1
      <3>1. i \in 1..n /\ i + 1 \in 1..(n + 1) /\ i \in 1..(n + 1) /\ i + 1 # n + 2
        BY <1>2, <2>2
      <3>2. more[i] = rest[i] \o e /\ more[i + 1] = rest[i + 1] \o e
        BY <1>2, <3>1
      <3>3. rest[i] = buildMessage(v[i]) \o rest[i + 1]
        BY <1>1, <1>3, <3>1
      <3>4. buildMessage(v[i]) \in Bytes /\ rest[i + 1] \in Bytes
        BY <1>3, <1>4, <3>1, MessageBytes
      <3> HIDE DEF more
      <3>5. (buildMessage(v[i]) \o rest[i + 1]) \o e
                = buildMessage(v[i]) \o (rest[i + 1] \o e)
        BY <1>2, <3>4, BytesAssociative, ZenonT(30)
      <3> QED BY <3>2, <3>3, <3>5
    <2> QED BY <2>1, <2>2
  <1> HIDE DEF more
  <1>8. Len(v) + 1 = n + 2
    BY <1>2, <1>3
  <1> QED BY <1>3, <1>5, <1>6, <1>7, <1>8 DEF Encodes, v, e

\* The bytes of the first message come first, then those of the others.
LEMMA EncodesHead ==
    ASSUME NEW u \in Seq(Messages), NEW t, Encodes(t, u), u # <<>>
    PROVE  \E r \in Bytes : t = buildMessage(u[1]) \o r /\ Encodes(r, Tail(u))
  <1> DEFINE n == Len(u)
             v == Tail(u)
  <1>1. PICK rest \in [1..(n + 1) -> Bytes] :
            /\ rest[1] = t
            /\ rest[n + 1] = <<>>
            /\ \A i \in 1..n : rest[i] = buildMessage(u[i]) \o rest[i + 1]
    BY DEF Encodes
  <1>2. n \in Nat /\ n # 0
    BY EmptySeq, LenProperties
  <1>3. Len(v) = n - 1 /\ \A i \in 1..(n - 1) : v[i] = u[i + 1]
    BY HeadTailProperties
  <1> HIDE DEF n, v
  <1> DEFINE less == [i \in 1..n |-> rest[i + 1]]
  <1>4. less \in [1..n -> Bytes]
    <2>1. \A i \in 1..n : i + 1 \in 1..(n + 1)
      BY <1>2
    <2> QED BY <2>1
  <1>5. less[1] = rest[2] /\ less[n] = <<>>
    BY <1>1, <1>2
  <1>6. ASSUME NEW i \in 1..(n - 1)
        PROVE  less[i] = buildMessage(v[i]) \o less[i + 1]
    <2>1. i \in 1..n /\ i + 1 \in 1..n
      BY <1>2
    <2>2. less[i] = rest[i + 1] /\ less[i + 1] = rest[(i + 1) + 1]
      BY <2>1
    <2> QED BY <1>1, <1>3, <2>1, <2>2
  <1>7. t = buildMessage(u[1]) \o rest[2] /\ rest[2] \in Bytes
    <2>1. 1 \in 1..n /\ 2 \in 1..(n + 1) /\ 1 + 1 = 2
      BY <1>2
    <2> QED BY <1>1, <2>1
  <1>8. Len(v) + 1 = n
    BY <1>2, <1>3
  <1> HIDE DEF less
  <1>9. Encodes(rest[2], v)
    BY <1>3, <1>4, <1>5, <1>6, <1>8 DEF Encodes
  <1> QED BY <1>7, <1>9 DEF v

-----------------------------------------------------------------------------
(* What the reader knows of the message it is reading *)

\* What readMessage has taken is bytes.
LEMMA HeaderBytes ==
    ASSUME ReaderTypeOK
    PROVE  /\ header \in Bytes
           /\ stage = "tag" => header = <<>>
           /\ stage = "length" => header = <<tag>> /\ Len(header) = 1
           /\ stage = "body" => header = <<tag>> \o i32(len) /\ Len(header) = 5
           /\ <<tag>> \in Bytes /\ Len(<<tag>>) = 1
           /\ i32(len) \in Bytes /\ Len(i32(len)) = 4
  <1>1. <<tag>> \in Bytes /\ Len(<<tag>>) = 1
    BY DEF ReaderTypeOK, Bytes
  <1>2. i32(len) \in Bytes /\ Len(i32(len)) = 4
    <2>1. len \in Nat
      BY SMT DEF ReaderTypeOK, UInt32
    <2> QED BY <2>1, I32Bytes
  <1>3. <<tag>> \o i32(len) \in Bytes /\ Len(<<tag>> \o i32(len)) = 5
    <2> DEFINE a == <<tag>>
               b == i32(len)
    <2> HIDE DEF a, b
    <2>1. a \in Bytes /\ b \in Bytes /\ Len(a) = 1 /\ Len(b) = 4
      BY <1>1, <1>2 DEF a, b
    <2>2. a \o b \in Bytes /\ Len(a \o b) = 1 + 4
      BY <2>1, BytesConcat
    <2> QED BY <2>2 DEF a, b
  <1>4. <<>> \in Bytes
    BY EmptySeq DEF Bytes
  <1>5. CASE stage = "tag"
    BY <1>1, <1>2, <1>4, <1>5 DEF header
  <1>6. CASE stage = "length"
    BY <1>1, <1>2, <1>6 DEF header
  <1>7. CASE stage = "body"
    BY <1>1, <1>2, <1>3, <1>7 DEF header
  <1> QED BY <1>5, <1>6, <1>7 DEF ReaderTypeOK

\* Once it has read a length, that is the length of the first message not
\* returned, and the bytes that follow are those of its body.
LEMMA BodyFollows ==
    ASSUME ReaderTypeOK, stage = "body", NEW lost \in Bytes,
           Encodes((header \o (buf \o wire)) \o lost, unread)
    PROVE  /\ unread # <<>>
           /\ unread[1] \in Messages
           /\ tag = unread[1].tag
           /\ len = Len(unread[1].body) + 4
           /\ \E r \in Bytes : /\ (buf \o wire) \o lost = unread[1].body \o r
                               /\ Encodes(r, Tail(unread))
  <1> DEFINE h == header
             t == (buf \o wire) \o lost
             m == unread[1]
             g == <<m.tag>> \o i32(Len(m.body) + 4)
  <1>1. h \in Bytes /\ Len(h) = 5 /\ h = <<tag>> \o i32(len)
    BY HeaderBytes
  <1>2. buf \o wire \in Bytes /\ t \in Bytes
    BY BytesConcat DEF ReaderTypeOK
  <1> HIDE DEF h
  <1>3. Encodes(h \o t, unread)
    BY <1>1, <1>2, BytesAssociative DEF h
  <1>4. unread # <<>>
    <2>1. Len(h \o t) = Len(h) + Len(t) /\ Len(t) \in Nat
      BY <1>1, <1>2, BytesConcat
    <2>2. Len(h \o t) # 0
      BY <1>1, <2>1
    <2> HIDE DEF t
    <2> QED BY <1>3, <2>2, EncodesNothing, EmptySeq
  <1>5. m \in Messages
    <2>1. 1 \in 1..Len(unread)
      BY <1>4, EmptySeq, LenProperties DEF ReaderTypeOK
    <2> QED BY <2>1, ElementOfSeq DEF ReaderTypeOK
  <1> HIDE DEF t
  <1>6. PICK r \in Bytes : h \o t = buildMessage(m) \o r /\ Encodes(r, Tail(unread))
    BY <1>3, <1>4, EncodesHead DEF ReaderTypeOK
  <1>7. /\ g \in Bytes /\ Len(g) = 5 /\ m.body \in Bytes
        /\ buildMessage(m) = g \o m.body
    BY <1>5, MessageBytes
  <1> HIDE DEF m, g
  <1>8. m.body \o r \in Bytes /\ h \o t = g \o (m.body \o r)
    <2>1. (g \o m.body) \o r = g \o (m.body \o r)
      BY <1>7, BytesAssociative, ZenonT(30)
    <2>2. m.body \o r \in Bytes
      BY <1>7, BytesConcat
    <2> QED BY <1>6, <1>7, <2>1, <2>2
  <1>9. h = g /\ t = m.body \o r
    <2> DEFINE w == m.body \o r
    <2>1. w \in Bytes /\ h \o t = g \o w
      BY <1>8
    <2> HIDE DEF w
    <2>2. h = g /\ t = w
      BY <1>1, <1>2, <1>7, <2>1, SplitEqual
    <2> QED BY <2>2 DEF w
  <1>10. <<tag>> = <<m.tag>> /\ i32(len) = i32(Len(m.body) + 4)
    <2> DEFINE a == <<tag>>
               b == i32(len)
               c == <<m.tag>>
               d == i32(Len(m.body) + 4)
    <2>1. a \in Bytes /\ b \in Bytes /\ Len(a) = 1
      BY HeaderBytes
    <2>2. c \in Bytes /\ Len(c) = 1 /\ Len(m.body) + 4 \in UInt32
      BY <1>5, MessageBytes
    <2>3. d \in Bytes
      <3>1. Len(m.body) + 4 \in Nat
        BY <2>2, SMT DEF UInt32
      <3> QED BY <3>1, I32Bytes
    <2>4. a \o b = c \o d
      BY <1>1, <1>9 DEF g
    <2> HIDE DEF a, b, c, d
    <2>5. a = c /\ b = d
      BY <2>1, <2>2, <2>3, <2>4, SplitEqual
    <2> QED BY <2>5 DEF a, b, c, d
  <1>11. tag = m.tag
    <2>1. <<tag>>[1] = tag /\ <<m.tag>>[1] = m.tag
      OBVIOUS
    <2> QED BY <1>10, <2>1
  <1>12. len = Len(m.body) + 4
    <2>1. Len(m.body) + 4 \in UInt32 /\ len \in UInt32
      BY <1>5, MessageBytes DEF ReaderTypeOK
    <2> QED BY <1>10, <2>1, I32Injective
  <1> QED BY <1>4, <1>5, <1>6, <1>9, <1>11, <1>12 DEF m, t

\* The number of bytes asked for is never negative.
LEMMA NeedIsNat ==
    ASSUME ReaderTypeOK, InStep
    PROVE  need \in Nat
  <1>1. CASE stage = "tag"
    BY <1>1 DEF need
  <1>2. CASE stage = "length"
    BY <1>2 DEF need
  <1>3. CASE stage = "body"
    <2>1. PICK lost \in Bytes : Encodes((header \o (buf \o wire)) \o lost, unread)
      BY DEF InStep
    <2>2. unread[1] \in Messages /\ len = Len(unread[1].body) + 4
      BY <1>3, <2>1, BodyFollows
    <2>3. Len(unread[1].body) \in Nat
      BY <2>2, MessageBytes, LenProperties DEF Bytes
    <2>4. need = len - 4
      BY <1>3 DEF need
    <2> QED BY <2>2, <2>3, <2>4
  <1> QED BY <1>1, <1>2, <1>3 DEF ReaderTypeOK

-----------------------------------------------------------------------------
(* The steps of the reader *)

\* A step that only moves bytes along keeps the reader in step.
LEMMA BytesMove ==
    ASSUME InStep, unread' = unread, peer' = peer,
           (header \o (buf \o wire))' = header \o (buf \o wire)
    PROVE  InStep'
  BY DEF InStep

\* An iteration of _fill moves bytes from the wire to the buffer.
LEMMA FillStep ==
    ASSUME ReaderInv, NEW n \in 1..ChunkSize, _fill(n)
    PROVE  ReaderInv'
  <1>1. n \in 0..Len(wire)
    <2>1. Len(wire) \in Nat
      BY LenProperties DEF ReaderInv, ReaderTypeOK, Bytes
    <2>2. n \in Nat /\ n <= Len(wire)
      BY ReaderAssumption, SMT DEF _fill
    <2> QED BY <2>1, <2>2
  <1> DEFINE a == SubSeq(wire, 1, n)
             b == SubSeq(wire, n + 1, Len(wire))
  <1>2. a \in Bytes /\ b \in Bytes /\ a \o b = wire
    BY <1>1, Cut DEF ReaderInv, ReaderTypeOK
  <1>3. buf' = buf \o a /\ wire' = b
    BY DEF _fill
  <1>4. UNCHANGED <<unread, count, peer, stage, tag, len, last, failed>>
    BY DEF _fill
  <1> HIDE DEF a, b
  <1>5. buf \in Bytes /\ buf' \in Bytes /\ wire' \in Bytes
    BY <1>2, <1>3, BytesConcat DEF ReaderInv, ReaderTypeOK
  <1>6. ReaderTypeOK'
    BY <1>4, <1>5 DEF ReaderInv, ReaderTypeOK
  <1>7. InStep'
    <2>1. (buf \o a) \o b = buf \o wire
      BY <1>2, <1>5, BytesAssociative, ZenonT(30)
    <2>2. header' = header
      BY <1>4 DEF header
    <2> QED BY <1>3, <1>4, <2>1, <2>2, BytesMove DEF ReaderInv
  <1>8. FailedLast'
    BY <1>4 DEF ReaderInv, FailedLast
  <1> QED BY <1>6, <1>7, <1>8 DEF ReaderInv

\* What readBytes takes and what it leaves.
LEMMA TakenBytes ==
    ASSUME ReaderInv, readBytes
    PROVE  /\ taken \in Bytes
           /\ Len(taken) = need
           /\ buf' \in Bytes
           /\ taken \o buf' = buf
           /\ \A h \in Bytes : (h \o taken) \o (buf' \o wire) = h \o (buf \o wire)
  <1>1. buf \in Bytes /\ wire \in Bytes /\ need \in Nat /\ need <= Len(buf)
    <2>1. need \in Nat /\ Len(buf) >= need /\ buf \in Bytes /\ wire \in Bytes
      BY NeedIsNat DEF ReaderInv, ReaderTypeOK, readBytes
    <2>2. Len(buf) \in Nat
      BY <2>1, LenProperties DEF Bytes
    <2> QED BY <2>1, <2>2
  <1>2. need \in 0..Len(buf)
    <2>1. Len(buf) \in Nat
      BY <1>1, LenProperties DEF Bytes
    <2> QED BY <1>1, <2>1
  <1>3. buf' = SubSeq(buf, need + 1, Len(buf))
    BY DEF readBytes
  <1>4. taken \in Bytes /\ Len(taken) = need /\ buf' \in Bytes /\ taken \o buf' = buf
    BY <1>1, <1>2, <1>3, Cut DEF taken
  <1>5. ASSUME NEW h \in Bytes
        PROVE  (h \o taken) \o (buf' \o wire) = h \o (buf \o wire)
    <2> DEFINE a == taken
               b == buf'
    <2>1. a \in Bytes /\ b \in Bytes /\ a \o b = buf
      BY <1>4
    <2> HIDE DEF a, b
    <2>2. b \o wire \in Bytes
      BY <1>1, <2>1, BytesConcat
    <2>3. (h \o a) \o (b \o wire) = h \o (a \o (b \o wire))
      BY <2>1, <2>2, BytesAssociative, ZenonT(30)
    <2>4. (a \o b) \o wire = a \o (b \o wire)
      BY <1>1, <2>1, BytesAssociative, ZenonT(30)
    <2> QED BY <2>1, <2>3, <2>4 DEF a, b
  <1> QED BY <1>4, <1>5

\* The type byte moves from the buffer to tag.
LEMMA TagStep ==
    ASSUME ReaderInv, readTag
    PROVE  ReaderInv'
  <1>1. /\ stage = "tag" /\ stage' = "length" /\ tag' = taken[1] /\ readBytes
        /\ UNCHANGED <<unread, count, wire, peer, len, last, failed>>
    BY DEF readTag
  <1>2. /\ taken \in Bytes /\ Len(taken) = 1 /\ buf' \in Bytes
        /\ (<<>> \o taken) \o (buf' \o wire) = <<>> \o (buf \o wire)
    <2>1. need = 1
      BY <1>1 DEF need
    <2>2. <<>> \in Bytes
      BY EmptySeq DEF Bytes
    <2> QED BY <1>1, <2>1, <2>2, TakenBytes
  <1>3. tag' \in 0..255 /\ taken = <<tag'>>
    <2> DEFINE a == taken
    <2>1. a \in Bytes /\ Len(a) = 1 /\ tag' = a[1]
      BY <1>1, <1>2
    <2> HIDE DEF a
    <2>2. 1 \in 1..Len(a)
      BY <2>1
    <2>3. a[1] \in 0..255
      BY <2>1, <2>2, ElementOfSeq DEF Bytes
    <2>4. a = <<a[1]>>
      <3>1. <<a[1]>> \in Seq(0..255) /\ Len(<<a[1]>>) = 1 /\ <<a[1]>>[1] = a[1]
        BY <2>3
      <3>2. \A i \in 1..Len(a) : i = 1
        BY <2>1
      <3> QED BY <2>1, <3>1, <3>2, SeqEqual DEF Bytes
    <2> QED BY <2>1, <2>3, <2>4 DEF a
  <1>4. ReaderTypeOK'
    BY <1>1, <1>2, <1>3 DEF ReaderInv, ReaderTypeOK
  <1>5. header = <<>> /\ header' = taken
    BY <1>1, <1>3 DEF header
  <1>6. InStep'
    <2>1. <<>> \o taken = taken
      BY <1>2, BytesConcat
    <2> QED BY <1>1, <1>2, <1>5, <2>1, BytesMove DEF ReaderInv
  <1>7. FailedLast'
    BY <1>1 DEF ReaderInv, FailedLast
  <1> QED BY <1>4, <1>6, <1>7 DEF ReaderInv

\* The four bytes of the length move from the buffer to len.
LEMMA LengthStep ==
    ASSUME ReaderInv, readLength
    PROVE  ReaderInv'
  <1>1. /\ stage = "length" /\ stage' = "body" /\ len' = readInt32(taken)
        /\ readBytes /\ UNCHANGED <<unread, count, wire, peer, tag, last, failed>>
    BY DEF readLength
  <1>2. header = <<tag>> /\ <<tag>> \in Bytes
    BY <1>1, HeaderBytes DEF ReaderInv
  <1>3. /\ taken \in Bytes /\ Len(taken) = 4 /\ buf' \in Bytes
        /\ (<<tag>> \o taken) \o (buf' \o wire) = <<tag>> \o (buf \o wire)
    <2>1. need = 4
      BY <1>1 DEF need
    <2> QED BY <1>1, <1>2, <2>1, TakenBytes
  <1>4. len' \in UInt32 /\ i32(len') = taken
    BY <1>1, <1>3, BytesOfInt32
  <1>5. ReaderTypeOK'
    BY <1>1, <1>3, <1>4 DEF ReaderInv, ReaderTypeOK
  <1>6. header' = <<tag>> \o taken
    BY <1>1, <1>4 DEF header
  <1>7. InStep'
    BY <1>1, <1>2, <1>3, <1>6, BytesMove DEF ReaderInv
  <1>8. FailedLast'
    BY <1>1 DEF ReaderInv, FailedLast
  <1> QED BY <1>5, <1>7, <1>8 DEF ReaderInv

\* readMessage returns the first message and is in step with the others.
LEMMA MessageStep ==
    ASSUME ReaderInv, readMessage
    PROVE  /\ ReaderInv'
           /\ unread # <<>>
           /\ last' = Head(unread)
           /\ unread' = Tail(unread)
           /\ ~failed
  <1>1. /\ stage = "body" /\ stage' = "tag" /\ readBytes
        /\ last' = [tag |-> tag, body |-> taken]
        /\ unread' = SubSeq(unread, 2, Len(unread))
        /\ UNCHANGED <<count, wire, peer, tag, len, failed>>
    BY DEF readMessage
  <1>2. ~failed
    BY <1>1 DEF readBytes
  <1>3. PICK lost \in Bytes : /\ peer # "broken" => lost = <<>>
                              /\ Encodes((header \o (buf \o wire)) \o lost, unread)
    BY DEF ReaderInv, InStep
  <1> DEFINE m == unread[1]
  <1>4. /\ unread # <<>> /\ m \in Messages /\ tag = m.tag /\ len = Len(m.body) + 4
        /\ \E r \in Bytes : /\ (buf \o wire) \o lost = m.body \o r
                            /\ Encodes(r, Tail(unread))
    BY <1>1, <1>3, BodyFollows DEF ReaderInv
  <1>5. PICK r \in Bytes : /\ (buf \o wire) \o lost = m.body \o r
                           /\ Encodes(r, Tail(unread))
    BY <1>4
  <1>6. taken \in Bytes /\ Len(taken) = need /\ buf' \in Bytes /\ taken \o buf' = buf
    BY <1>1, TakenBytes
  <1>7. m.body \in Bytes /\ Len(m.body) = need
    <2>1. m.body \in Bytes
      BY <1>4, MessageBytes
    <2>2. Len(m.body) \in Nat /\ need = len - 4
      BY <1>1, <2>1, LenProperties DEF need, Bytes
    <2> QED BY <1>4, <2>1, <2>2
  <1>8. taken = m.body /\ (buf' \o wire) \o lost = r
    <2> DEFINE a == taken
               b == buf'
               c == m.body
               d == (b \o wire) \o lost
    <2>1. ((a \o b) \o wire) \o lost = c \o r
      BY <1>5, <1>6
    <2>2. a \in Bytes /\ b \in Bytes
      BY <1>6
    <2>3. c \in Bytes /\ Len(a) = Len(c)
      BY <1>6, <1>7
    <2> HIDE DEF a, b, c
    <2>4. wire \in Bytes
      BY DEF ReaderInv, ReaderTypeOK
    <2>5. b \o wire \in Bytes /\ d \in Bytes
      BY <2>2, <2>4, BytesConcat
    <2>6. (a \o b) \o wire = a \o (b \o wire)
      BY <2>2, <2>4, BytesAssociative, ZenonT(30)
    <2>7. (a \o (b \o wire)) \o lost = a \o d
      BY <2>2, <2>5, BytesAssociative, ZenonT(30)
    <2>8. a \o d = c \o r
      BY <2>1, <2>6, <2>7
    <2> HIDE DEF d
    <2>9. a = c /\ d = r
      BY <2>2, <2>3, <2>5, <2>8, SplitEqual
    <2> QED BY <2>9 DEF a, b, c, d
  <1>9. last' = Head(unread)
    <2>1. m = [tag |-> m.tag, body |-> m.body]
      BY <1>4 DEF Messages
    <2>2. Head(unread) = m
      BY <1>4 DEF ReaderInv, ReaderTypeOK
    <2> QED BY <1>1, <1>4, <1>8, <2>1, <2>2
  <1>10. unread' = Tail(unread) /\ unread' \in Seq(Messages)
    BY <1>1, <1>4, TailIsSubSeq, HeadTailProperties DEF ReaderInv, ReaderTypeOK
  <1>11. ReaderTypeOK'
    BY <1>1, <1>6, <1>10 DEF ReaderInv, ReaderTypeOK
  <1>12. InStep'
    <2>1. (header \o (buf \o wire))' = buf' \o wire
      <3>1. header' = <<>>
        BY <1>1 DEF header
      <3>2. buf' \o wire \in Bytes
        BY <1>6, BytesConcat DEF ReaderInv, ReaderTypeOK
      <3> QED BY <1>1, <3>1, <3>2, BytesConcat
    <2>2. Encodes((header \o (buf \o wire))' \o lost, unread')
      BY <1>5, <1>8, <1>10, <2>1
    <2> QED BY <1>1, <1>3, <2>2 DEF InStep
  <1>13. FailedLast'
    BY <1>1, <1>2 DEF FailedLast
  <1> QED BY <1>2, <1>4, <1>9, <1>10, <1>11, <1>12, <1>13 DEF ReaderInv

\* readMessage throws: a connection the server closed has been read to its end.
LEMMA ThrowStep ==
    ASSUME ReaderInv, _fillThrows
    PROVE  ReaderInv'
  <1>1. /\ ~failed /\ failed' = TRUE /\ Len(buf) < need /\ wire = <<>>
        /\ peer # "open"
        /\ UNCHANGED <<unread, count, wire, peer, buf, stage, tag, len, last>>
    BY DEF _fillThrows
  <1>2. ReaderTypeOK'
    BY <1>1 DEF ReaderInv, ReaderTypeOK
  <1>3. InStep'
    <2>1. header' = header
      BY <1>1 DEF header
    <2> QED BY <1>1, <2>1, BytesMove DEF ReaderInv
  <1>4. ASSUME peer = "closed", unread # <<>>
        PROVE  FALSE
    <2>1. header \in Bytes /\ buf \in Bytes /\ <<>> \in Bytes
      BY HeaderBytes, EmptySeq DEF ReaderInv, ReaderTypeOK, Bytes
    <2>2. /\ buf \o <<>> = buf /\ Len(buf) \in Nat /\ Len(header) \in Nat
          /\ header \o buf \in Bytes /\ (header \o buf) \o <<>> = header \o buf
          /\ Len(header \o buf) = Len(header) + Len(buf)
      <3>1. buf \o <<>> = buf /\ Len(buf) \in Nat
        BY <2>1, BytesConcat
      <3>2. /\ header \o buf \in Bytes /\ Len(header) \in Nat
            /\ Len(header \o buf) = Len(header) + Len(buf)
        BY <2>1, BytesConcat
      <3>3. (header \o buf) \o <<>> = header \o buf
        BY <3>2, BytesConcat
      <3> QED BY <3>1, <3>2, <3>3
    <2>3. Encodes(header \o (buf \o <<>>) \o <<>>, unread)
      BY <1>1, <1>4 DEF ReaderInv, InStep
    <2>4. Encodes(header \o buf, unread)
      BY <2>2, <2>3
    <2>5. PICK r \in Bytes : header \o buf = buildMessage(unread[1]) \o r
      BY <1>4, <2>4, EncodesHead DEF ReaderInv, ReaderTypeOK
    <2>6. unread[1] \in Messages
      <3>1. 1 \in 1..Len(unread)
        BY <1>4, EmptySeq, LenProperties DEF ReaderInv, ReaderTypeOK
      <3> QED BY <3>1, ElementOfSeq DEF ReaderInv, ReaderTypeOK
    <2> DEFINE n == Len(unread[1].body)
    <2>7. n \in Nat /\ Len(header) + Len(buf) >= n + 5
      <3>1. /\ buildMessage(unread[1]) \in Bytes /\ unread[1].body \in Bytes
            /\ Len(buildMessage(unread[1])) = n + 5
        BY <2>6, MessageBytes
      <3>2. n \in Nat
        BY <3>1, LenProperties DEF Bytes
      <3>3. /\ Len(r) \in Nat
            /\ Len(buildMessage(unread[1]) \o r) = Len(buildMessage(unread[1])) + Len(r)
        BY <3>1, BytesConcat
      <3> QED BY <2>2, <2>5, <3>1, <3>2, <3>3
    <2> HIDE DEF n
    <2>8. CASE stage = "tag"
      <3>1. Len(header) = 0 /\ need = 1
        BY <2>8, HeaderBytes, EmptySeq DEF ReaderInv, need
      <3> QED BY <1>1, <2>2, <2>7, <3>1
    <2>9. CASE stage = "length"
      <3>1. Len(header) = 1 /\ need = 4
        BY <2>9, HeaderBytes DEF ReaderInv, need
      <3> QED BY <1>1, <2>2, <2>7, <3>1
    <2>10. CASE stage = "body"
      <3>1. Len(header) = 5 /\ need = len - 4
        BY <2>10, HeaderBytes DEF ReaderInv, need
      <3>2. len = n + 4
        BY <1>1, <2>1, <2>3, <2>10, BodyFollows DEF ReaderInv, n
      <3> QED BY <1>1, <2>2, <2>7, <3>1, <3>2
    <2> QED BY <2>8, <2>9, <2>10 DEF ReaderInv, ReaderTypeOK
  <1>5. FailedLast'
    BY <1>1, <1>4 DEF FailedLast
  <1> QED BY <1>2, <1>3, <1>5 DEF ReaderInv

-----------------------------------------------------------------------------
(* The steps of the server *)

\* A message that is sent joins the bytes in flight.
LEMMA SendStep ==
    ASSUME ReaderInv, NEW m \in Messages, ServerSends(m)
    PROVE  ReaderInv'
  <1>1. /\ peer = "open" /\ count < MaxMessages /\ unread' = Append(unread, m)
        /\ count' = count + 1 /\ wire' = wire \o buildMessage(m)
        /\ UNCHANGED <<peer, buf, stage, tag, len, last, failed>>
    BY DEF ServerSends
  <1> DEFINE e == buildMessage(m)
  <1>2. e \in Bytes /\ header \in Bytes /\ buf \in Bytes /\ wire \in Bytes
    BY MessageBytes, HeaderBytes DEF ReaderInv, ReaderTypeOK
  <1>3. wire' = wire \o e
    BY <1>1
  <1> HIDE DEF e
  <1>4. /\ wire \o e \in Bytes /\ buf \o wire \in Bytes
        /\ header \o (buf \o wire) \in Bytes
    BY <1>2, BytesConcat
  <1>5. ReaderTypeOK'
    <2>1. unread' \in Seq(Messages) /\ count' \in Nat
      BY <1>1, AppendProperties DEF ReaderInv, ReaderTypeOK
    <2> QED BY <1>1, <1>3, <1>4, <2>1 DEF ReaderInv, ReaderTypeOK
  <1>6. InStep'
    <2>1. Encodes((header \o (buf \o wire)) \o <<>>, unread)
      BY <1>1 DEF ReaderInv, InStep
    <2>2. Encodes(header \o (buf \o wire), unread)
      BY <1>4, <2>1, BytesConcat
    <2>3. Encodes((header \o (buf \o wire)) \o e, unread')
      BY <1>1, <1>4, <2>2, EncodesAppend DEF ReaderInv, ReaderTypeOK, e
    <2>4. (header \o (buf \o wire)) \o e = header \o (buf \o (wire \o e))
      <3> DEFINE w == buf \o wire
      <3>1. w \in Bytes
        BY <1>4
      <3>2. w \o e = buf \o (wire \o e)
        BY <1>2, BytesAssociative, ZenonT(30)
      <3> HIDE DEF w
      <3>3. (header \o w) \o e = header \o (w \o e)
        BY <1>2, <3>1, BytesAssociative, ZenonT(30)
      <3> QED BY <3>2, <3>3 DEF w
    <2> DEFINE t == header \o (buf \o (wire \o e))
    <2>5. t \in Bytes /\ t \o <<>> = t /\ <<>> \in Bytes
      <3>1. buf \o (wire \o e) \in Bytes
        BY <1>2, <1>4, BytesConcat
      <3>2. t \in Bytes
        BY <1>2, <3>1, BytesConcat
      <3> HIDE DEF t
      <3> QED BY <3>2, BytesConcat
    <2>6. (header \o (buf \o wire))' = t
      BY <1>1, <1>3 DEF header
    <2>7. Encodes(t \o <<>>, unread')
      BY <2>3, <2>4, <2>5
    <2> HIDE DEF t
    <2> QED BY <2>5, <2>6, <2>7 DEF InStep
  <1>7. FailedLast'
    BY <1>1 DEF ReaderInv, FailedLast
  <1> QED BY <1>5, <1>6, <1>7 DEF ReaderInv

\* The connection ends, with or without a loss.
LEMMA EndStep ==
    ASSUME ReaderInv, ServerCloses \/ ConnectionBreaks
    PROVE  ReaderInv'
  <1>1. CASE ServerCloses
    <2>1. /\ peer = "open" /\ peer' = "closed"
          /\ UNCHANGED <<unread, count, wire, buf, stage, tag, len, last, failed>>
      BY <1>1 DEF ServerCloses
    <2>2. ReaderTypeOK' /\ FailedLast'
      BY <2>1 DEF ReaderInv, ReaderTypeOK, FailedLast
    <2>3. (header \o (buf \o wire))' = header \o (buf \o wire)
      BY <2>1 DEF header
    <2>4. InStep'
      BY <2>1, <2>3 DEF ReaderInv, InStep
    <2> QED BY <2>2, <2>4 DEF ReaderInv
  <1>2. CASE ConnectionBreaks
    <2>1. /\ peer = "open" /\ peer' = "broken"
          /\ UNCHANGED <<unread, count, buf, stage, tag, len, last, failed>>
      BY <1>2 DEF ConnectionBreaks
    <2>2. PICK n \in 0..Len(wire) : wire' = SubSeq(wire, 1, n)
      BY <1>2 DEF ConnectionBreaks
    <2> DEFINE a == SubSeq(wire, 1, n)
               b == SubSeq(wire, n + 1, Len(wire))
    <2>3. a \in Bytes /\ b \in Bytes /\ a \o b = wire /\ wire' = a
      BY <2>2, Cut DEF ReaderInv, ReaderTypeOK
    <2> HIDE DEF a, b
    <2>4. ReaderTypeOK' /\ FailedLast'
      BY <2>1, <2>3 DEF ReaderInv, ReaderTypeOK, FailedLast
    <2>5. header \in Bytes /\ buf \in Bytes
      BY HeaderBytes DEF ReaderInv, ReaderTypeOK
    <2>6. (header \o (buf \o a)) \o b = header \o (buf \o wire)
      <3> DEFINE w == buf \o a
      <3>1. w \in Bytes
        BY <2>3, <2>5, BytesConcat
      <3>2. w \o b = buf \o (a \o b)
        BY <2>3, <2>5, BytesAssociative, ZenonT(30)
      <3> HIDE DEF w
      <3>3. (header \o w) \o b = header \o (w \o b)
        BY <2>3, <2>5, <3>1, BytesAssociative, ZenonT(30)
      <3> QED BY <2>3, <3>2, <3>3 DEF w
    <2>7. (header \o (buf \o wire)) \o <<>> = header \o (buf \o wire)
      <3>1. wire \in Bytes /\ buf \o wire \in Bytes
        BY <2>5, BytesConcat DEF ReaderInv, ReaderTypeOK
      <3>2. header \o (buf \o wire) \in Bytes
        BY <2>5, <3>1, BytesConcat
      <3> QED BY <3>2, BytesConcat
    <2>8. Encodes((header \o (buf \o wire)) \o <<>>, unread)
      BY <2>1 DEF ReaderInv, InStep
    <2>9. (header \o (buf \o wire))' = header \o (buf \o a)
      BY <2>1, <2>3 DEF header
    <2>10. Encodes((header \o (buf \o wire))' \o b, unread')
      BY <2>1, <2>6, <2>7, <2>8, <2>9
    <2>11. InStep'
      BY <2>1, <2>3, <2>10 DEF InStep
    <2> QED BY <2>4, <2>11 DEF ReaderInv
  <1> QED BY <1>1, <1>2

-----------------------------------------------------------------------------
(* Theorems *)

\* The invariant holds before anything is sent.
LEMMA ReaderStart == ReaderInit => ReaderInv
  <1> SUFFICES ASSUME ReaderInit PROVE ReaderInv
    OBVIOUS
  <1>1. <<>> \in Bytes /\ <<>> \in Seq(Messages)
    BY EmptySeq DEF Bytes
  <1>2. 0 \in UInt32
    BY SMT DEF UInt32
  <1>3. ReaderTypeOK /\ FailedLast
    <2>1. 0 \in 0..255 /\ 0 \in Nat
      OBVIOUS
    <2> QED BY <1>1, <1>2, <2>1, Zenon DEF ReaderInit, ReaderTypeOK, FailedLast
  <1>4. <<>> \o <<>> = <<>>
    BY <1>1, BytesConcat
  <1>5. (header \o (buf \o wire)) \o <<>> = <<>> /\ unread = <<>>
    BY <1>4 DEF ReaderInit, header
  <1>6. InStep
    BY <1>1, <1>5, EncodesNothing DEF InStep
  <1> QED BY <1>3, <1>6 DEF ReaderInv

\* Every step keeps it.
LEMMA ReaderStepInv == ReaderInv /\ [ReaderNext]_readerVars => ReaderInv'
  <1> SUFFICES ASSUME ReaderInv, [ReaderNext]_readerVars PROVE ReaderInv'
    OBVIOUS
  <1>1. CASE UNCHANGED readerVars
    BY <1>1 DEF readerVars, ReaderInv, ReaderTypeOK, InStep, FailedLast, header
  <1>2. CASE \E m \in Messages : ServerSends(m)
    BY <1>2, SendStep
  <1>3. CASE ServerCloses \/ ConnectionBreaks
    BY <1>3, EndStep
  <1>4. CASE ReaderStep
    BY <1>4, FillStep, ThrowStep, TagStep, LengthStep, MessageStep DEF ReaderStep
  <1> QED BY <1>1, <1>2, <1>3, <1>4 DEF ReaderNext

\* A connection the server ends loses no message: readMessage throws only after
\* it has returned all of them, whatever the bodies and however recv cuts up
\* the stream.
THEOREM ReadsToTheEnd == ReaderSpec => []NothingLost
  <1>1. ReaderInv => NothingLost
    BY DEF ReaderInv, FailedLast, NothingLost
  <1> QED BY <1>1, ReaderStart, ReaderStepInv, PTL DEF ReaderSpec

\* SocketReader implements the message stream: readMessage returns the server's
\* messages whole, in order and once.
THEOREM ReaderRefinesStream == ReaderSpec => ImplementsStream
  <1>1. ReaderInit => Stream!StreamInit
    BY DEF ReaderInit, Stream!StreamInit
  <1>2. ReaderInv /\ [ReaderNext]_readerVars
            => [Stream!StreamNext]_Stream!streamVars
    <2> SUFFICES ASSUME ReaderInv, [ReaderNext]_readerVars
                 PROVE  Stream!StreamNext \/ UNCHANGED Stream!streamVars
      OBVIOUS
    <2>1. CASE UNCHANGED readerVars
      BY <2>1 DEF readerVars, Stream!streamVars
    <2>2. CASE \E m \in Messages : ServerSends(m)
      <3>1. PICK m \in Messages : ServerSends(m)
        BY <2>2
      <3>2. Stream!Send(m)
        BY <3>1 DEF ServerSends, Stream!Send
      <3> QED BY <3>2 DEF Stream!StreamNext
    <2>3. CASE ServerCloses \/ ConnectionBreaks
      BY <2>3 DEF ServerCloses, ConnectionBreaks, Stream!streamVars
    <2>4. CASE \E n \in 1..ChunkSize : _fill(n)
      BY <2>4 DEF _fill, Stream!streamVars
    <2>5. CASE _fillThrows
      <3>1. Stream!Fail
        BY <2>5 DEF _fillThrows, Stream!Fail
      <3> QED BY <3>1 DEF Stream!StreamNext
    <2>6. CASE readTag \/ readLength
      BY <2>6 DEF readTag, readLength, Stream!streamVars
    <2>7. CASE readMessage
      <3>1. UNCHANGED <<count, failed>>
        BY <2>7 DEF readMessage
      <3>2. Stream!Receive
        BY <2>7, <3>1, MessageStep DEF Stream!Receive
      <3> QED BY <3>2 DEF Stream!StreamNext
    <2> QED BY <2>1, <2>2, <2>3, <2>4, <2>5, <2>6, <2>7
            DEF ReaderNext, ReaderStep
  <1> QED BY <1>1, <1>2, ReaderStart, ReaderStepInv, PTL
          DEF ReaderSpec, ImplementsStream, Stream!StreamSpec

=============================================================================
