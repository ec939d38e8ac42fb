---------------------------- MODULE MessageStream ----------------------------
(***************************************************************************)
(* What a connection promises the code above SocketReader: the server's    *)
(* messages arrive whole, in order and once, until the connection fails.   *)
(***************************************************************************)
EXTENDS Sequences, Naturals

CONSTANTS Messages,     \* the server's messages
          MaxMessages   \* bound: messages sent on one connection

VARIABLES queue,        \* messages sent and not yet read
          count,        \* number of messages sent
          last,         \* the message readMessage returned last, or <<>>
          failed        \* readMessage has thrown

streamVars == <<queue, count, last, failed>>

StreamInit ==
    /\ queue = <<>>
    /\ count = 0
    /\ last = <<>>
    /\ failed = FALSE

Send(m) ==
    /\ count < MaxMessages
    /\ queue' = Append(queue, m)
    /\ count' = count + 1
    /\ UNCHANGED <<last, failed>>

Receive ==
    /\ ~failed
    /\ queue # <<>>
    /\ last' = Head(queue)
    /\ queue' = Tail(queue)
    /\ UNCHANGED <<count, failed>>

Fail ==
    /\ ~failed
    /\ failed' = TRUE
    /\ UNCHANGED <<queue, count, last>>

StreamNext == (\E m \in Messages : Send(m)) \/ Receive \/ Fail

StreamSpec == StreamInit /\ [][StreamNext]_streamVars
=============================================================================
