------------------------------ MODULE NetSocket ------------------------------
(***************************************************************************)
(* The sockets of pljsFdwNet (net.c): connect(), send() and close() and    *)
(* the finalizer of the socket class, against the file descriptor table of *)
(* the PostgreSQL backend they run in.                                     *)
(*                                                                         *)
(* A socket object stores nothing but a descriptor number, and the number  *)
(* of a closed descriptor may be given to the next file the backend opens. *)
(* What a descriptor refers to is therefore kept apart from its number.    *)
(***************************************************************************)
EXTENDS Integers, Sequences

CONSTANTS
    Fds,            \* descriptor numbers the kernel may hand out
    Objects,        \* addresses of PljsFdwSocket objects
    Payloads,       \* contents of the Uint8Arrays given to send()
    MaxAddresses,   \* bound: addresses getaddrinfo() resolves a host to
    MaxWire         \* bound: bytes written to one connection

ASSUME NetAssumption ==
    /\ Fds \subseteq Nat
    /\ MaxAddresses \in Nat
    /\ MaxWire \in Nat
    /\ \A data \in Payloads : data \in Seq(Nat)

Closed   == -1      \* the opaque value of a closed socket
NoObject == -2      \* there is no object at this address

StandardInput == 0

VARIABLES
    file,       \* what a descriptor refers to: nothing, a file of the backend,
                \* the connection connect() is making, or an object's connection
    opaque,     \* JS_GetOpaque of each socket object
    wire,       \* the bytes the kernel has taken over from each object
    accepted,   \* ghost: the payloads send() was given and did not reject
    call        \* the pljsFdwNet call under way

netVars == <<file, opaque, wire, accepted, call>>

Free       == [kind |-> "free"]
OfBackend  == [kind |-> "backend"]
Connecting == [kind |-> "connecting"]
OfObject(o) == [kind |-> "object", object |-> o]

NoCall == [op |-> "none"]

ConnectCall == [op : {"connect"}, addresses : 0..MaxAddresses,
                fd : Fds \cup {Closed}, connected : BOOLEAN]
SendCall == [op : {"send"}, object : Objects, data : Payloads, total : Nat]

FreeFds == {fd \in Fds : file[fd] = Free}

Close(fd) == [file EXCEPT ![fd] = Free]

-----------------------------------------------------------------------------
(* The backend around the JavaScript code *)

BackendOpens(fd) ==
    /\ call = NoCall
    /\ fd \in FreeFds
    /\ file' = [file EXCEPT ![fd] = OfBackend]
    /\ UNCHANGED <<opaque, wire, accepted, call>>

\* Its standard input stays open as long as it lives.
BackendCloses(fd) ==
    /\ call = NoCall
    /\ fd # StandardInput
    /\ file[fd] = OfBackend
    /\ file' = Close(fd)
    /\ UNCHANGED <<opaque, wire, accepted, call>>

-----------------------------------------------------------------------------
(* connect() *)

\* getaddrinfo() has resolved the host to n addresses.  When it fails the call
\* throws and changes nothing.
pljs_fdw_net_connect(n) ==
    /\ call = NoCall
    /\ call' = [op |-> "connect", addresses |-> n, fd |-> Closed,
                connected |-> FALSE]
    /\ UNCHANGED <<file, opaque, wire, accepted>>

\* A faulty variant: the loop goes one address too far.
FaultyTryingAddress ==
    call.op = "connect" /\ ~call.connected /\ call.addresses >= 0

\* The loop is at an address it has yet to try.
TryingAddress ==
    call.op = "connect" /\ ~call.connected /\ call.addresses > 0

\* socket() fails for the next address.
SocketFails ==
    /\ TryingAddress /\ call.fd = Closed
    /\ call' = [call EXCEPT !.addresses = @ - 1]
    /\ UNCHANGED <<file, opaque, wire, accepted>>

SocketOpens(fd) ==
    /\ TryingAddress /\ call.fd = Closed
    /\ fd \in FreeFds
    /\ file' = [file EXCEPT ![fd] = Connecting]
    /\ call' = [call EXCEPT !.fd = fd]
    /\ UNCHANGED <<opaque, wire, accepted>>

\* A faulty variant: only the variable is reset.
FaultyConnectRefused ==
    /\ TryingAddress /\ call.fd # Closed
    /\ call' = [call EXCEPT !.addresses = @ - 1, !.fd = Closed]
    /\ UNCHANGED <<file, opaque, wire, accepted>>

\* connect(2) fails: this address's descriptor is closed.
ConnectRefused ==
    /\ TryingAddress /\ call.fd # Closed
    /\ file' = Close(call.fd)
    /\ call' = [call EXCEPT !.addresses = @ - 1, !.fd = Closed]
    /\ UNCHANGED <<opaque, wire, accepted>>

ConnectSucceeds ==
    /\ TryingAddress /\ call.fd # Closed
    /\ call' = [call EXCEPT !.connected = TRUE]
    /\ UNCHANGED <<file, opaque, wire, accepted>>

\* Every address failed: the call throws.
ConnectThrows ==
    /\ call.op = "connect" /\ call.fd = Closed /\ call.addresses = 0
    /\ call' = NoCall
    /\ UNCHANGED <<file, opaque, wire, accepted>>

ConnectReturns(o) ==
    /\ call.op = "connect" /\ call.connected
    /\ opaque[o] = NoObject
    /\ file' = [file EXCEPT ![call.fd] = OfObject(o)]
    /\ opaque' = [opaque EXCEPT ![o] = call.fd]
    /\ wire' = [wire EXCEPT ![o] = <<>>]
    /\ accepted' = [accepted EXCEPT ![o] = <<>>]
    /\ call' = NoCall

\* JS_NewObjectClass fails: the connection is given up.
ConnectOutOfMemory ==
    /\ call.op = "connect" /\ call.connected
    /\ file' = Close(call.fd)
    /\ call' = NoCall
    /\ UNCHANGED <<opaque, wire, accepted>>

-----------------------------------------------------------------------------
(* send() *)

\* pljs_fdw_net_get_fd throws on a closed socket.
pljs_fdw_net_send(o, data) ==
    /\ call = NoCall
    /\ opaque[o] >= 0
    /\ Len(accepted[o]) + Len(data) <= MaxWire
    /\ call' = [op |-> "send", object |-> o, data |-> data, total |-> 0]
    /\ UNCHANGED <<file, opaque, wire, accepted>>

\* A faulty variant: after a partial write the payload starts over.
FaultySendSome(n) ==
    /\ call.op = "send" /\ call.total < Len(call.data)
    /\ n <= Len(call.data) - call.total
    /\ wire' = [wire EXCEPT ![call.object] = @ \o SubSeq(call.data, 1, n)]
    /\ call' = [call EXCEPT !.total = @ + n]
    /\ UNCHANGED <<file, opaque, accepted>>

\* send(2) takes n of the bytes from buf + total on; EINTR takes none.
SendSome(n) ==
    /\ call.op = "send" /\ call.total < Len(call.data)
    /\ n <= Len(call.data) - call.total
    /\ wire' = [wire EXCEPT ![call.object] =
                   @ \o SubSeq(call.data, call.total + 1, call.total + n)]
    /\ call' = [call EXCEPT !.total = @ + n]
    /\ UNCHANGED <<file, opaque, accepted>>

\* send(2) fails: the exception does not tell how much was written, and the
\* connection is of no further use.
SendThrows ==
    /\ call.op = "send" /\ call.total < Len(call.data)
    /\ accepted' = [accepted EXCEPT ![call.object] =
                       @ \o SubSeq(call.data, 1, call.total)]
    /\ call' = NoCall
    /\ UNCHANGED <<file, opaque, wire>>

SendReturns ==
    /\ call.op = "send" /\ call.total >= Len(call.data)
    /\ accepted' = [accepted EXCEPT ![call.object] = @ \o call.data]
    /\ call' = NoCall
    /\ UNCHANGED <<file, opaque, wire>>

-----------------------------------------------------------------------------
(* close() and the finalizer *)

\* A faulty variant: JS_SetOpaque(-1) is missing.
FaultyNetClose(o) ==
    /\ call = NoCall
    /\ opaque[o] # NoObject
    /\ file' = IF opaque[o] >= 0 THEN Close(opaque[o]) ELSE file
    /\ UNCHANGED <<opaque, wire, accepted, call>>

\* A socket that is closed already is left alone.  The argument is taken to be a
\* socket: for an object of another class JS_GetOpaque returns NULL, which the
\* code takes for descriptor 0.
pljs_fdw_net_close(o) ==
    /\ call = NoCall
    /\ opaque[o] # NoObject
    /\ IF opaque[o] >= 0
       THEN /\ file' = Close(opaque[o])
            /\ opaque' = [opaque EXCEPT ![o] = Closed]
       ELSE UNCHANGED <<file, opaque>>
    /\ UNCHANGED <<wire, accepted, call>>

\* The last reference to a socket is gone.
pljs_fdw_net_socket_finalizer(o) ==
    /\ opaque[o] # NoObject
    /\ call.op = "send" => call.object # o
    /\ file' = IF opaque[o] >= 0 THEN Close(opaque[o]) ELSE file
    /\ opaque' = [opaque EXCEPT ![o] = NoObject]
    /\ wire' = [wire EXCEPT ![o] = <<>>]
    /\ accepted' = [accepted EXCEPT ![o] = <<>>]
    /\ UNCHANGED call

-----------------------------------------------------------------------------

NetInit ==
    /\ file \in [Fds -> {Free, OfBackend}]
    /\ StandardInput \in Fds => file[StandardInput] = OfBackend
    /\ opaque = [o \in Objects |-> NoObject]
    /\ wire = [o \in Objects |-> <<>>]
    /\ accepted = [o \in Objects |-> <<>>]
    /\ call = NoCall

ConnectStep ==
    \/ \E n \in 0..MaxAddresses : pljs_fdw_net_connect(n)
    \/ SocketFails
    \/ \E fd \in Fds : SocketOpens(fd)
    \/ ConnectRefused
    \/ ConnectSucceeds
    \/ ConnectThrows
    \/ \E o \in Objects : ConnectReturns(o)
    \/ ConnectOutOfMemory

SendStep ==
    \/ \E o \in Objects, data \in Payloads : pljs_fdw_net_send(o, data)
    \/ \E n \in 0..MaxWire : SendSome(n)
    \/ SendThrows
    \/ SendReturns

NetNext ==
    \/ \E fd \in Fds : BackendOpens(fd) \/ BackendCloses(fd)
    \/ ConnectStep
    \/ SendStep
    \/ \E o \in Objects :
          pljs_fdw_net_close(o) \/ pljs_fdw_net_socket_finalizer(o)

NetSpec == NetInit /\ [][NetNext]_netVars

-----------------------------------------------------------------------------
(* Properties *)

\* Every variable has its type.
NetTypeOK ==
    /\ file \in [Fds -> {Free, OfBackend, Connecting}
                        \cup {OfObject(o) : o \in Objects}]
    /\ opaque \in [Objects -> Fds \cup {Closed, NoObject}]
    /\ wire \in [Objects -> Seq(Nat)]
    /\ accepted \in [Objects -> Seq(Nat)]
    /\ call \in {NoCall} \cup ConnectCall \cup SendCall

\* A socket object refers to its own connection and to nothing else, although
\* descriptor numbers are reused: after close() and the finalizer, in whatever
\* order and however often, no object still holds the number of a descriptor
\* that is no longer its own, so no call writes to or closes a stranger's file.
SocketsOwnTheirFd ==
    \A o \in Objects : opaque[o] >= 0 => file[opaque[o]] = OfObject(o)

\* No descriptor leaks: every connection belongs to an object that will close
\* it, or to the connect() that is making it.
NoFdLeak ==
    \A fd \in Fds :
        /\ file[fd] = Connecting => call.op = "connect" /\ call.fd = fd
        /\ \A o \in Objects : file[fd] = OfObject(o) => opaque[o] = fd

\* The part of the payload that a send() under way has written to o.
Written(o) ==
    IF call.op = "send" /\ call.object = o
    THEN SubSeq(call.data, 1, call.total) ELSE <<>>

\* "Writes every byte of data": whatever the kernel does with each write, the
\* connection carries the payloads in order, each byte once.
SendsWholePayload == \A o \in Objects : wire[o] = accepted[o] \o Written(o)

=============================================================================
