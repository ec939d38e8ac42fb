---------------------------- MODULE SocketReader ----------------------------
(***************************************************************************)
(* SocketReader of examples/pgwire.js over pljsFdwNet.recv: readMessage()  *)
(* cuts the byte stream of a connection into messages of a type byte, a    *)
(* big-endian 32-bit length that counts itself, and a body.  recv returns  *)
(* any number of the bytes in flight, and nothing once the server has      *)
(* closed the connection.                                                  *)
(*                                                                         *)
(* readMessage() is three calls of readBytes; stage tells which is next.   *)
(***************************************************************************)
EXTENDS Integers, Sequences

CONSTANTS
    Tags,           \* message types (byte values)
    Bodies,         \* bodies the server may send (sequences of bytes)
    MaxMessages,    \* bound: messages sent on one connection
    ChunkSize       \* maxLen of recv (65536 in the code)

ASSUME ReaderAssumption ==
    /\ Tags \subseteq 0..255
    \* the length on the wire is an Int32
    /\ \A b \in Bodies : b \in Seq(0..255) /\ Len(b) + 4 <= 2147483647
    /\ MaxMessages \in Nat
    /\ ChunkSize \in Nat \ {0}

VARIABLES
    unread,     \* ghost: messages sent that readMessage has not returned
    count,      \* number of messages sent
    wire,       \* bytes in flight
    peer,       \* "open", "closed" (by the server) or "broken"
    buf,        \* this.buf
    stage,      \* "tag", "length" or "body"
    tag, len,   \* what readMessage has read of the message so far
    last,       \* the message readMessage returned last
    failed      \* readMessage has thrown

readerVars == <<unread, count, wire, peer, buf, stage, tag, len, last, failed>>

Messages == [tag : Tags, body : Bodies]

-----------------------------------------------------------------------------
(* Encoding, as buildMessage and the server do it *)

\* MsgWriter.i32 of a non-negative number.
i32(n) ==
    <<(n \div 16777216) % 256, (n \div 65536) % 256, (n \div 256) % 256, n % 256>>

buildMessage(m) == <<m.tag>> \o i32(Len(m.body) + 4) \o m.body

-----------------------------------------------------------------------------

ServerSends(m) ==
    /\ peer = "open"
    /\ count < MaxMessages
    /\ unread' = Append(unread, m)
    /\ count' = count + 1
    /\ wire' = wire \o buildMessage(m)
    /\ UNCHANGED <<peer, buf, stage, tag, len, last, failed>>

\* The server ends the connection after its last message.
ServerCloses ==
    /\ peer = "open"
    /\ peer' = "closed"
    /\ UNCHANGED <<unread, count, wire, buf, stage, tag, len, last, failed>>

\* The server or the network fails: only a part of the bytes still arrives.
ConnectionBreaks ==
    /\ peer = "open"
    /\ peer' = "broken"
    /\ \E n \in 0..Len(wire) : wire' = SubSeq(wire, 1, n)
    /\ UNCHANGED <<unread, count, buf, stage, tag, len, last, failed>>

\* The number of bytes the readBytes call under way asks for.
need ==
    CASE stage = "tag"    -> 1
      [] stage = "length" -> 4
      [] stage = "body"   -> len - 4

\* A faulty variant: recv is expected to fill its buffer.
FaultyFill(n) ==
    /\ ~failed
    /\ Len(buf) < need
    /\ n = ChunkSize
    /\ n <= Len(wire)
    /\ buf' = buf \o SubSeq(wire, 1, n)
    /\ wire' = SubSeq(wire, n + 1, Len(wire))
    /\ UNCHANGED <<unread, count, peer, stage, tag, len, last, failed>>

\* An iteration of _fill(need): recv returns n bytes.
_fill(n) ==
    /\ ~failed
    /\ Len(buf) < need
    /\ n <= Len(wire)
    /\ buf' = buf \o SubSeq(wire, 1, n)
    /\ wire' = SubSeq(wire, n + 1, Len(wire))
    /\ UNCHANGED <<unread, count, peer, stage, tag, len, last, failed>>

\* A faulty variant: a short read passes for the end of the stream.
FaultyFillThrows ==
    /\ ~failed
    /\ Len(buf) < need
    /\ peer # "open"
    /\ failed' = TRUE
    /\ UNCHANGED <<unread, count, wire, peer, buf, stage, tag, len, last>>

\* recv returns an empty array, or throws: the connection is gone.
_fillThrows ==
    /\ ~failed
    /\ Len(buf) < need
    /\ wire = <<>>
    /\ peer # "open"
    /\ failed' = TRUE
    /\ UNCHANGED <<unread, count, wire, peer, buf, stage, tag, len, last>>

\* A faulty variant: everything that is buffered is returned.
FaultyTaken == buf

\* readBytes(need) has its bytes and leaves the rest in the buffer.
taken == SubSeq(buf, 1, need)
readBytes ==
    /\ ~failed
    /\ Len(buf) >= need
    /\ buf' = SubSeq(buf, need + 1, Len(buf))

\* The bytes of a big-endian number, combined as unsigned (>>> 0).
readInt32(b) == 16777216 * b[1] + 65536 * b[2] + 256 * b[3] + b[4]

readTag ==
    /\ stage = "tag"
    /\ readBytes
    /\ tag' = taken[1]
    /\ stage' = "length"
    /\ UNCHANGED <<unread, count, wire, peer, len, last, failed>>

readLength ==
    /\ stage = "length"
    /\ readBytes
    /\ len' = readInt32(taken)
    /\ stage' = "body"
    /\ UNCHANGED <<unread, count, wire, peer, tag, last, failed>>

\* readMessage returns {tag, body}.
readMessage ==
    /\ stage = "body"
    /\ readBytes
    /\ last' = [tag |-> tag, body |-> taken]
    /\ unread' = SubSeq(unread, 2, Len(unread))
    /\ stage' = "tag"
    /\ UNCHANGED <<count, wire, peer, tag, len, failed>>

ReaderInit ==
    /\ unread = <<>>
    /\ count = 0
    /\ wire = <<>>
    /\ peer = "open"
    /\ buf = <<>>
    /\ stage = "tag"
    /\ tag = 0
    /\ len = 0
    /\ last = <<>>
    /\ failed = FALSE

ReaderStep ==
    \/ \E n \in 1..ChunkSize : _fill(n)
    \/ _fillThrows
    \/ readTag
    \/ readLength
    \/ readMessage

ReaderNext ==
    \/ \E m \in Messages : ServerSends(m)
    \/ ServerCloses
    \/ ConnectionBreaks
    \/ ReaderStep

ReaderSpec == ReaderInit /\ [][ReaderNext]_readerVars

\* The client is blocked in recv or runs, and recv hands over what has arrived.
FairReaderSpec == ReaderSpec /\ WF_readerVars(ReaderStep)

-----------------------------------------------------------------------------
(* Properties *)

Stream == INSTANCE MessageStream WITH queue <- unread

\* SocketReader implements the message stream: however the bytes are cut up
\* by recv, readMessage returns the server's messages whole, in order, once.
ImplementsStream == Stream!StreamSpec

\* Every message sent is read in the end, or readMessage throws: a reader
\* never waits for bytes beyond the message it is reading.
AllMessagesRead == (unread # <<>>) ~> (unread = <<>> \/ failed)

\* A connection the server ends loses no message: readMessage throws only
\* after it has returned all of them.
NothingLost == failed /\ peer = "closed" => unread = <<>>

=============================================================================
