--------------------------- MODULE NetSocketProofs ---------------------------
(***************************************************************************)
(* Descriptor ownership in NetSocket for any number of descriptors,        *)
(* objects, addresses and payloads.                                        *)
(***************************************************************************)
EXTENDS NetSocket, SequenceTheorems, TLAPS

\* What a pljsFdwNet call under way holds: connect() its descriptor until it is
\* handed to an object or closed, send() an open socket.
CallOwns ==
    /\ call.op = "connect" => (call.fd # Closed => file[call.fd] = Connecting)
    /\ call.op = "connect" => (call.connected => call.fd # Closed)
    /\ call.op = "send" => opaque[call.object] >= 0

\* The inductive invariant: the two ownership properties need each other and
\* what the call under way holds.
Ownership == SocketsOwnTheirFd /\ NoFdLeak /\ CallOwns

\* The kinds of file a descriptor can refer to are told apart.
LEMMA FilesDiffer ==
    /\ Free # OfBackend /\ Free # Connecting /\ OfBackend # Connecting
    /\ \A o : /\ OfObject(o) # Free
              /\ OfObject(o) # OfBackend
              /\ OfObject(o) # Connecting
    /\ \A o, p : OfObject(o) = OfObject(p) => o = p
<1>1. \A o, p : OfObject(o) = OfObject(p) => OfObject(o).object = OfObject(p).object
  OBVIOUS
<1>2. \A o : OfObject(o).object = o /\ OfObject(o).kind = "object"
  BY DEF OfObject
<1>3. Free.kind = "free" /\ OfBackend.kind = "backend" /\ Connecting.kind = "connecting"
  BY DEF Free, OfBackend, Connecting
<1> QED
  BY <1>1, <1>2, <1>3

\* The values a call can have, field by field.
LEMMA CallFields ==
    ASSUME NetTypeOK
    PROVE  /\ call.op \in {"none", "connect", "send"}
           /\ call = NoCall => call.op = "none"
           /\ call.op = "connect" =>
                 /\ call \in ConnectCall
                 /\ call.fd \in Fds \cup {Closed}
                 /\ call.addresses \in 0..MaxAddresses
                 /\ call.connected \in BOOLEAN
           /\ call.op = "send" =>
                 /\ call \in SendCall
                 /\ call.object \in Objects
                 /\ call.data \in Payloads
                 /\ call.total \in Nat
  BY DEF NetTypeOK, NoCall, ConnectCall, SendCall

\* Descriptor numbers are not the values that say "closed" or "no object".
LEMMA FdsAreNumbers == \A fd \in Fds : fd \in Nat /\ fd # Closed /\ fd # NoObject
  BY NetAssumption DEF Closed, NoObject

\* A part of a byte sequence is a byte sequence.
LEMMA PartIsBytes ==
    ASSUME NEW s \in Seq(Nat), NEW i \in Nat, NEW j \in Nat, j <= Len(s)
    PROVE  SubSeq(s, i + 1, j) \in Seq(Nat)
<1>1. i + 1 \in Int /\ j \in Int
  OBVIOUS
<1>2. \A k \in (i + 1) .. j : s[k] \in Nat
  <2>1. TAKE k \in (i + 1) .. j
  <2>2. Len(s) \in Nat
    BY LenProperties
  <2>3. k \in 1 .. Len(s)
    BY <2>1, <2>2
  <2> QED
    BY <2>3, ElementOfSeq
<1> QED
  BY <1>1, <1>2, SubSeqProperties, Zenon

-----------------------------------------------------------------------------

\* The set a descriptor's file is taken from.
Files == {Free, OfBackend, Connecting} \cup {OfObject(o) : o \in Objects}

\* The initial state has the type.
LEMMA NetInitType == NetInit => NetTypeOK
  BY DEF NetInit, NetTypeOK

\* The steps of connect() keep the type.
LEMMA ConnectType ==
    ASSUME NetTypeOK, ConnectStep
    PROVE  NetTypeOK'
<1> DEFINE F == Files
<1>0. /\ file \in [Fds -> F]
      /\ opaque \in [Objects -> Fds \cup {Closed, NoObject}]
      /\ wire \in [Objects -> Seq(Nat)]
      /\ accepted \in [Objects -> Seq(Nat)]
      /\ call \in {NoCall} \cup ConnectCall \cup SendCall
      /\ Free \in F /\ OfBackend \in F /\ Connecting \in F
      /\ \A o \in Objects : OfObject(o) \in F
  BY DEF NetTypeOK, Files
<1>1. SUFFICES /\ file' \in [Fds -> F]
               /\ opaque' \in [Objects -> Fds \cup {Closed, NoObject}]
               /\ wire' \in [Objects -> Seq(Nat)]
               /\ accepted' \in [Objects -> Seq(Nat)]
               /\ call' \in {NoCall} \cup ConnectCall \cup SendCall
  BY DEF NetTypeOK, Files
<1> HIDE DEF F
<1>2. CASE \E n \in 0..MaxAddresses : pljs_fdw_net_connect(n)
  BY <1>0, <1>2 DEF pljs_fdw_net_connect, ConnectCall
<1>3. CASE SocketFails
  <2>1. call.addresses - 1 \in 0..MaxAddresses /\ call \in ConnectCall
    BY <1>3, CallFields, NetAssumption DEF SocketFails, TryingAddress
  <2>2. [call EXCEPT !.addresses = call.addresses - 1] \in ConnectCall
    BY <2>1 DEF ConnectCall
  <2> QED
    BY <1>0, <1>3, <2>2 DEF SocketFails
<1>4. CASE \E fd \in Fds : SocketOpens(fd)
  BY <1>0, <1>4, CallFields DEF SocketOpens, TryingAddress, ConnectCall
<1>5. CASE ConnectRefused
  <2>1. /\ call.addresses - 1 \in 0..MaxAddresses
        /\ call \in ConnectCall
        /\ call.fd \in Fds
    BY <1>5, CallFields, NetAssumption DEF ConnectRefused, TryingAddress
  <2>2. [call EXCEPT !.addresses = call.addresses - 1, !.fd = Closed]
            \in ConnectCall
    BY <2>1 DEF ConnectCall
  <2> QED
    BY <1>0, <1>5, <2>1, <2>2 DEF ConnectRefused, Close
<1>6. CASE ConnectSucceeds
  BY <1>0, <1>6, CallFields DEF ConnectSucceeds, TryingAddress, ConnectCall
<1>7. CASE ConnectThrows
  BY <1>0, <1>7 DEF ConnectThrows
<1>8. CASE \E o \in Objects : ConnectReturns(o)
  <2>1. PICK o \in Objects : ConnectReturns(o)
    BY <1>8
  <2>2. <<>> \in Seq(Nat) /\ call.fd \in Fds \cup {Closed}
    BY <2>1, CallFields DEF ConnectReturns
  <2>3. opaque' \in [Objects -> Fds \cup {Closed, NoObject}]
    BY <1>0, <2>1, <2>2 DEF ConnectReturns
  <2>4. wire' \in [Objects -> Seq(Nat)] /\ accepted' \in [Objects -> Seq(Nat)]
    BY <1>0, <2>1, <2>2 DEF ConnectReturns
  <2>5. file' \in [Fds -> F] /\ call' = NoCall
    BY <1>0, <2>1, <2>2 DEF ConnectReturns
  <2> QED
    BY <2>3, <2>4, <2>5
<1>9. CASE ConnectOutOfMemory
  BY <1>0, <1>9, CallFields DEF ConnectOutOfMemory, Close
<1> QED
  BY <1>2, <1>3, <1>4, <1>5, <1>6, <1>7, <1>8, <1>9 DEF ConnectStep

\* The steps of send() keep the type.
LEMMA SendType ==
    ASSUME NetTypeOK, SendStep
    PROVE  NetTypeOK'
<1>0. /\ wire \in [Objects -> Seq(Nat)]
      /\ accepted \in [Objects -> Seq(Nat)]
      /\ \A data \in Payloads : data \in Seq(Nat)
  BY NetAssumption DEF NetTypeOK
<1>1. CASE \E o \in Objects, data \in Payloads : pljs_fdw_net_send(o, data)
  BY <1>1 DEF pljs_fdw_net_send, NetTypeOK, SendCall
<1>2. CASE \E n \in 0..MaxWire : SendSome(n)
  <2>1. PICK n \in 0..MaxWire : SendSome(n)
    BY <1>2
  <2>2. call.op = "send" /\ n \in Nat
    BY <2>1, NetAssumption DEF SendSome
  <2>3. /\ SubSeq(call.data, call.total + 1, call.total + n) \in Seq(Nat)
        /\ wire[call.object] \in Seq(Nat)
    <3>1. call.data \in Seq(Nat) /\ call.total \in Nat /\ call.object \in Objects
      BY <2>2, <1>0, CallFields
    <3>2. n <= Len(call.data) - call.total
      BY <2>1 DEF SendSome
    <3>3. call.total + n \in Nat /\ call.total + n <= Len(call.data)
      BY <2>2, <3>1, <3>2, LenProperties
    <3>4. SubSeq(call.data, call.total + 1, call.total + n) \in Seq(Nat)
      BY <3>1, <3>3, PartIsBytes
    <3> QED
      BY <3>1, <3>4, <1>0
  <2>4. call' \in SendCall
    BY <2>1, <2>2, CallFields DEF SendSome, SendCall
  <2>5. wire' \in [Objects -> Seq(Nat)]
    <3> DEFINE part == SubSeq(call.data, call.total + 1, call.total + n)
    <3>1. wire' = [wire EXCEPT ![call.object] = wire[call.object] \o part]
      BY <2>1 DEF SendSome
    <3>2. wire[call.object] \o part \in Seq(Nat)
      BY <2>3
    <3> QED
      BY <3>1, <3>2, <1>0
  <2> QED
    BY <2>1, <2>4, <2>5 DEF SendSome, NetTypeOK
<1>3. CASE SendThrows
  <2>1. call.op = "send"
    BY <1>3 DEF SendThrows
  <2>2. call.data \in Seq(Nat) /\ call.total \in Nat /\ call.object \in Objects
    BY <2>1, <1>0, CallFields
  <2>3. call.total < Len(call.data)
    BY <1>3 DEF SendThrows
  <2>4. SubSeq(call.data, 1, call.total) \in Seq(Nat)
    <3>1. 0 \in Nat /\ 0 + 1 = 1 /\ call.total <= Len(call.data)
      BY <2>2, <2>3, LenProperties
    <3> QED
      BY <2>2, <3>1, PartIsBytes
  <2>5. accepted' \in [Objects -> Seq(Nat)]
    <3> DEFINE part == SubSeq(call.data, 1, call.total)
    <3>1. accepted' = [accepted EXCEPT ![call.object] = accepted[call.object] \o part]
      BY <1>3 DEF SendThrows
    <3>2. accepted[call.object] \o part \in Seq(Nat)
      BY <1>0, <2>2, <2>4
    <3> QED
      BY <3>1, <3>2, <1>0
  <2> QED
    BY <1>3, <2>5 DEF SendThrows, NetTypeOK
<1>4. CASE SendReturns
  <2>1. accepted' \in [Objects -> Seq(Nat)]
    BY <1>0, <1>4, CallFields DEF SendReturns
  <2> QED
    BY <1>4, <2>1 DEF SendReturns, NetTypeOK
<1> QED
  BY <1>1, <1>2, <1>3, <1>4 DEF SendStep

\* Every step keeps the type.
LEMMA NetNextType ==
    ASSUME NetTypeOK, [NetNext]_netVars
    PROVE  NetTypeOK'
<1>1. CASE ConnectStep
  BY <1>1, ConnectType
<1>2. CASE SendStep
  BY <1>2, SendType
<1>3. CASE \E fd \in Fds : BackendOpens(fd) \/ BackendCloses(fd)
  BY <1>3 DEF BackendOpens, BackendCloses, Close, NetTypeOK
<1>4. CASE \E o \in Objects :
              pljs_fdw_net_close(o) \/ pljs_fdw_net_socket_finalizer(o)
  <2>1. PICK o \in Objects :
            pljs_fdw_net_close(o) \/ pljs_fdw_net_socket_finalizer(o)
    BY <1>4
  <2>2. <<>> \in Seq(Nat)
    OBVIOUS
  <2>3. CASE pljs_fdw_net_close(o)
    BY <2>3 DEF pljs_fdw_net_close, Close, NetTypeOK
  <2>4. CASE pljs_fdw_net_socket_finalizer(o)
    <3>1. wire' \in [Objects -> Seq(Nat)] /\ accepted' \in [Objects -> Seq(Nat)]
      BY <2>2, <2>4 DEF pljs_fdw_net_socket_finalizer, NetTypeOK
    <3> QED
      BY <3>1, <2>4 DEF pljs_fdw_net_socket_finalizer, Close, NetTypeOK
  <2> QED
    BY <2>1, <2>3, <2>4
<1>5. CASE UNCHANGED netVars
  BY <1>5 DEF netVars, NetTypeOK
<1> QED
  BY <1>1, <1>2, <1>3, <1>4, <1>5 DEF NetNext

\* Type correctness of the socket layer.
THEOREM NetTypeCorrect == NetSpec => []NetTypeOK
  BY NetInitType, NetNextType, PTL DEF NetSpec

-----------------------------------------------------------------------------

\* What the steps below use of the type invariant and of the constants.
LEMMA NetFacts ==
    ASSUME NetTypeOK
    PROVE  /\ file \in [Fds -> Files]
           /\ opaque \in [Objects -> Fds \cup {Closed, NoObject}]
           /\ \A fd \in Fds : fd >= 0 /\ fd # Closed
           /\ ~(Closed >= 0) /\ ~(NoObject >= 0)
           /\ \A o \in Objects : opaque[o] >= 0 => opaque[o] \in Fds
<1>1. file \in [Fds -> Files]
  BY DEF NetTypeOK, Files
<1>2. opaque \in [Objects -> Fds \cup {Closed, NoObject}]
  BY DEF NetTypeOK
<1>3. \A fd \in Fds : fd >= 0 /\ fd # Closed
  BY NetAssumption DEF Closed
<1>4. ~(Closed >= 0) /\ ~(NoObject >= 0)
  BY DEF Closed, NoObject
<1> QED
  BY <1>1, <1>2, <1>3, <1>4

\* Ownership holds in the next state if it does for every descriptor, every
\* object and the call.
LEMMA OwnershipNext ==
    ASSUME \A o \in Objects : opaque'[o] >= 0 => file'[opaque'[o]] = OfObject(o),
           \A fd \in Fds : file'[fd] = Connecting =>
               call'.op = "connect" /\ call'.fd = fd,
           \A fd \in Fds : \A o \in Objects :
               file'[fd] = OfObject(o) => opaque'[o] = fd,
           CallOwns'
    PROVE  Ownership'
  BY DEF Ownership, SocketsOwnTheirFd, NoFdLeak

\* The steps of connect() keep ownership.
LEMMA ConnectOwnership ==
    ASSUME NetTypeOK, Ownership, ConnectStep
    PROVE  Ownership'
<1>0. /\ \A o \in Objects : opaque[o] >= 0 => file[opaque[o]] = OfObject(o)
      /\ \A fd \in Fds : file[fd] = Connecting =>
             call.op = "connect" /\ call.fd = fd
      /\ \A fd \in Fds : \A o \in Objects : file[fd] = OfObject(o) => opaque[o] = fd
      /\ CallOwns
  BY DEF Ownership, SocketsOwnTheirFd, NoFdLeak
<1> SUFFICES
      /\ \A o \in Objects : opaque'[o] >= 0 => file'[opaque'[o]] = OfObject(o)
      /\ \A fd \in Fds : file'[fd] = Connecting =>
             call'.op = "connect" /\ call'.fd = fd
      /\ \A fd \in Fds : \A o \in Objects :
             file'[fd] = OfObject(o) => opaque'[o] = fd
      /\ CallOwns'
  BY OwnershipNext
<1> USE <1>0, NetFacts, FilesDiffer, CallFields
<1>1. CASE \E n \in 0..MaxAddresses : pljs_fdw_net_connect(n)
  BY <1>1 DEF pljs_fdw_net_connect, CallOwns
<1>2. CASE SocketFails
  BY <1>2 DEF SocketFails, TryingAddress, CallOwns, ConnectCall
<1>3. CASE \E fd \in Fds : SocketOpens(fd)
  BY <1>3 DEF SocketOpens, TryingAddress, CallOwns, FreeFds, ConnectCall
<1>4. CASE ConnectRefused
  BY <1>4 DEF ConnectRefused, TryingAddress, CallOwns, Close, ConnectCall
<1>5. CASE ConnectSucceeds
  BY <1>5 DEF ConnectSucceeds, TryingAddress, CallOwns, ConnectCall
<1>6. CASE ConnectThrows
  BY <1>6 DEF ConnectThrows, CallOwns, NoCall
<1>7. CASE \E o \in Objects : ConnectReturns(o)
  BY <1>7 DEF ConnectReturns, CallOwns, NoCall
<1>8. CASE ConnectOutOfMemory
  BY <1>8 DEF ConnectOutOfMemory, CallOwns, NoCall, Close
<1> QED
  BY <1>1, <1>2, <1>3, <1>4, <1>5, <1>6, <1>7, <1>8 DEF ConnectStep

\* Every step keeps ownership.
LEMMA NextOwnership ==
    ASSUME NetTypeOK, Ownership, [NetNext]_netVars
    PROVE  Ownership'
<1>0. /\ \A o \in Objects : opaque[o] >= 0 => file[opaque[o]] = OfObject(o)
      /\ \A fd \in Fds : file[fd] = Connecting =>
             call.op = "connect" /\ call.fd = fd
      /\ \A fd \in Fds : \A o \in Objects : file[fd] = OfObject(o) => opaque[o] = fd
      /\ CallOwns
  BY DEF Ownership, SocketsOwnTheirFd, NoFdLeak
<1>1. CASE ConnectStep
  BY <1>1, ConnectOwnership
<1> SUFFICES
      ASSUME ~ConnectStep
      PROVE  /\ \A o \in Objects : opaque'[o] >= 0 => file'[opaque'[o]] = OfObject(o)
             /\ \A fd \in Fds : file'[fd] = Connecting =>
                    call'.op = "connect" /\ call'.fd = fd
             /\ \A fd \in Fds : \A o \in Objects :
                    file'[fd] = OfObject(o) => opaque'[o] = fd
             /\ CallOwns'
  BY <1>1, OwnershipNext
<1> USE <1>0, NetFacts, FilesDiffer, CallFields
<1>2. CASE SendStep
  <2>1. CASE \E o \in Objects, data \in Payloads : pljs_fdw_net_send(o, data)
    BY <2>1 DEF pljs_fdw_net_send, CallOwns
  <2>2. CASE \E n \in 0..MaxWire : SendSome(n)
    BY <2>2 DEF SendSome, CallOwns, SendCall
  <2>3. CASE SendThrows
    BY <2>3 DEF SendThrows, CallOwns, NoCall
  <2>4. CASE SendReturns
    BY <2>4 DEF SendReturns, CallOwns, NoCall
  <2> QED
    BY <1>2, <2>1, <2>2, <2>3, <2>4 DEF SendStep
<1>3. CASE \E fd \in Fds : BackendOpens(fd) \/ BackendCloses(fd)
  BY <1>3 DEF BackendOpens, BackendCloses, FreeFds, Close, CallOwns
<1>4. CASE \E o \in Objects : pljs_fdw_net_close(o)
  BY <1>4 DEF pljs_fdw_net_close, Close, CallOwns
<1>5. CASE \E o \in Objects : pljs_fdw_net_socket_finalizer(o)
  BY <1>5 DEF pljs_fdw_net_socket_finalizer, Close, CallOwns
<1>6. CASE UNCHANGED netVars
  BY <1>6 DEF netVars, CallOwns
<1> QED
  BY <1>2, <1>3, <1>4, <1>5, <1>6 DEF NetNext

\* No object owns anything at the start.
LEMMA InitOwnership == NetInit => Ownership
<1> SUFFICES ASSUME NetInit PROVE Ownership
  OBVIOUS
<1>1. ~(NoObject >= 0)
  BY DEF NoObject
<1> QED
  BY <1>1, FilesDiffer
     DEF NetInit, Ownership, SocketsOwnTheirFd, NoFdLeak, CallOwns, NoCall

\* Each open socket object refers to its own connection, whatever descriptor
\* numbers the kernel reuses (pljs_fdw_net_close, pljs_fdw_net_socket_finalizer).
THEOREM SocketsOwn == NetSpec => []SocketsOwnTheirFd
<1>1. NetSpec => []Ownership
  BY NetTypeCorrect, InitOwnership, NextOwnership, PTL DEF NetSpec
<1> QED
  BY <1>1, PTL DEF Ownership

\* No connection outlives the object or the connect() call that is to close it
\* (the error paths of pljs_fdw_net_connect, pljs_fdw_net_socket_finalizer).
THEOREM FdsNotLeaked == NetSpec => []NoFdLeak
<1>1. NetSpec => []Ownership
  BY NetTypeCorrect, InitOwnership, NextOwnership, PTL DEF NetSpec
<1> QED
  BY <1>1, PTL DEF Ownership

-----------------------------------------------------------------------------

\* SendsWholePayload with what makes it inductive: send() never counts more
\* bytes as written than there are.
Sending ==
    /\ SendsWholePayload
    /\ call.op = "send" => call.total <= Len(call.data)

\* Concatenation of byte sequences is associative.
LEMMA Associative ==
    \A a, b, c \in Seq(Nat) : (a \o b) \o c = a \o (b \o c)
<1> TAKE a, b, c \in Seq(Nat)
<1> QED
  BY ConcatAssociative

\* The steps of send() keep the connection's bytes those of the payloads.
LEMMA SendSending ==
    ASSUME NetTypeOK, Sending, SendStep
    PROVE  Sending'
<1>0. /\ wire \in [Objects -> Seq(Nat)]
      /\ accepted \in [Objects -> Seq(Nat)]
      /\ \A data \in Payloads : data \in Seq(Nat)
      /\ \A o \in Objects : wire[o] = accepted[o] \o Written(o)
  BY NetAssumption DEF NetTypeOK, Sending, SendsWholePayload
<1>1. CASE \E o \in Objects, data \in Payloads : pljs_fdw_net_send(o, data)
  <2>1. PICK o \in Objects, data \in Payloads : pljs_fdw_net_send(o, data)
    BY <1>1
  <2>2. \A p \in Objects : Written(p) = <<>>
    BY <2>1 DEF pljs_fdw_net_send, NoCall, Written
  <2>3. SubSeq(data, 1, 0) = <<>>
    BY SubSeqEmpty
  <2>4. /\ call'.op = "send" /\ call'.data = data /\ call'.total = 0
        /\ wire' = wire /\ accepted' = accepted
    BY <2>1 DEF pljs_fdw_net_send
  <2>5. \A p \in Objects : Written(p)' = <<>>
    BY <2>3, <2>4 DEF Written
  <2>6. 0 <= Len(data)
    BY <1>0
  <2> QED
    BY <1>0, <2>2, <2>4, <2>5, <2>6 DEF Sending, SendsWholePayload
<1>2. CASE \E n \in 0..MaxWire : SendSome(n)
  <2>1. PICK n \in 0..MaxWire : SendSome(n)
    BY <1>2
  <2> DEFINE o == call.object
             d == call.data
             t == call.total
  <2>2. /\ o \in Objects /\ d \in Seq(Nat) /\ t \in Nat /\ n \in Nat
        /\ t + n <= Len(d) /\ t < Len(d) /\ Len(d) \in Nat
    <3>1. o \in Objects /\ d \in Seq(Nat) /\ t \in Nat
      BY <1>0, <2>1, CallFields DEF SendSome
    <3>2. Len(d) \in Nat /\ n \in Nat
      BY <3>1, NetAssumption
    <3>3. t < Len(d) /\ n <= Len(d) - t
      BY <2>1 DEF SendSome
    <3> QED
      BY <3>1, <3>2, <3>3
  <2>3. SubSeq(d, 1, t) \o SubSeq(d, t + 1, t + n) = SubSeq(d, 1, t + n)
    <3>1. /\ 1 \in 1 .. Len(d) + 1
          /\ t \in 1 - 1 .. Len(d)
          /\ t + n \in t .. Len(d)
      BY <2>2
    <3> QED
      BY <2>2, <3>1, ConcatAdjacentSubSeq
  <2>4. SubSeq(d, 1, t) \in Seq(Nat) /\ SubSeq(d, t + 1, t + n) \in Seq(Nat)
    <3>1. 0 \in Nat /\ 0 + 1 = 1 /\ t <= Len(d) /\ t + n \in Nat
      BY <2>2
    <3>2. SubSeq(d, 0 + 1, t) \in Seq(Nat)
      BY <2>2, <3>1, PartIsBytes
    <3> HIDE DEF d, t
    <3> QED
      BY <2>2, <3>1, <3>2, PartIsBytes
  <2>5. /\ call' = [call EXCEPT !.total = t + n]
        /\ wire' = [wire EXCEPT ![o] = wire[o] \o SubSeq(d, t + 1, t + n)]
        /\ accepted' = accepted
        /\ call.op = "send"
    BY <2>1 DEF SendSome
  <2>6. call'.op = "send" /\ call'.object = o /\ call'.data = d /\ call'.total = t + n
    BY <2>5, CallFields DEF SendCall
  <2>7. wire'[o] = accepted[o] \o SubSeq(d, 1, t + n)
    <3>1. wire[o] = accepted[o] \o SubSeq(d, 1, t)
      BY <1>0, <2>2, <2>5 DEF Written
    <3>2. wire'[o] = (accepted[o] \o SubSeq(d, 1, t)) \o SubSeq(d, t + 1, t + n)
      BY <1>0, <2>2, <2>5, <3>1
    <3>3. accepted[o] \in Seq(Nat)
      BY <1>0, <2>2
    <3>4. (accepted[o] \o SubSeq(d, 1, t)) \o SubSeq(d, t + 1, t + n)
            = accepted[o] \o (SubSeq(d, 1, t) \o SubSeq(d, t + 1, t + n))
      BY <2>4, <3>3, Associative
    <3> QED
      BY <2>3, <3>2, <3>4
  <2>8. ASSUME NEW p \in Objects
        PROVE  wire'[p] = accepted'[p] \o Written(p)'
    <3>1. CASE p = o
      BY <2>5, <2>6, <2>7, <3>1 DEF Written
    <3>2. CASE p # o
      BY <1>0, <2>2, <2>5, <2>6, <3>2 DEF Written
    <3> QED
      BY <3>1, <3>2
  <2> QED
    BY <2>2, <2>6, <2>8 DEF Sending, SendsWholePayload
<1>3. ASSUME NEW o \in Objects, call.op = "send", call.object = o, call' = NoCall,
             wire' = wire,
             accepted' = [accepted EXCEPT
                            ![o] = accepted[o] \o SubSeq(call.data, 1, call.total)]
      PROVE  Sending'
  <2>1. call'.op = "none"
    BY <1>3 DEF NoCall
  <2>2. ASSUME NEW p \in Objects
        PROVE  wire'[p] = accepted'[p] \o Written(p)'
    <3>1. wire[p] = accepted'[p]
      <4>1. CASE p = o
        BY <1>0, <1>3, <4>1 DEF Written
      <4>2. CASE p # o
        BY <1>0, <1>3, <4>2, ConcatEmptySeq DEF Written
      <4> QED
        BY <4>1, <4>2
    <3>2. Written(p)' = <<>>
      BY <2>1 DEF Written
    <3> QED
      BY <1>0, <1>3, <3>1, <3>2, ConcatEmptySeq
  <2> QED
    BY <2>1, <2>2 DEF Sending, SendsWholePayload
<1>4. CASE SendThrows
  BY <1>3, <1>4, CallFields DEF SendThrows
<1>5. CASE SendReturns
  <2>1. /\ call.data \in Seq(Nat) /\ call.total = Len(call.data)
        /\ call.op = "send" /\ call.object \in Objects
    BY <1>0, <1>5, CallFields DEF SendReturns, Sending
  <2>2. SubSeq(call.data, 1, call.total) = call.data
    BY <2>1, SubSeqFull
  <2> QED
    BY <1>3, <1>5, <2>1, <2>2 DEF SendReturns
<1> QED
  BY <1>1, <1>2, <1>4, <1>5 DEF SendStep

\* Every step keeps the connections' bytes those of the payloads.
LEMMA NextSending ==
    ASSUME NetTypeOK, Sending, [NetNext]_netVars
    PROVE  Sending'
<1>0. /\ accepted \in [Objects -> Seq(Nat)]
      /\ wire \in [Objects -> Seq(Nat)]
      /\ \A o \in Objects : wire[o] = accepted[o] \o Written(o)
      /\ call.op = "send" => call.total <= Len(call.data)
  BY DEF NetTypeOK, Sending, SendsWholePayload
<1>1. CASE SendStep
  BY <1>1, SendSending
<1>2. ASSUME wire' = wire, accepted' = accepted, call.op # "send", call'.op # "send"
      PROVE  Sending'
  BY <1>0, <1>2 DEF Sending, SendsWholePayload, Written
<1>3. ASSUME wire' = wire, accepted' = accepted, call' = call
      PROVE  Sending'
  BY <1>0, <1>3 DEF Sending, SendsWholePayload, Written
<1>4. ASSUME NEW o \in Objects,
             wire' = [wire EXCEPT ![o] = <<>>],
             accepted' = [accepted EXCEPT ![o] = <<>>],
             call'.op = "send" => call' = call /\ call.object # o,
             call.op = "send" => call' = call
      PROVE  Sending'
  <2>1. ASSUME NEW p \in Objects
        PROVE  wire'[p] = accepted'[p] \o Written(p)'
    <3>1. CASE p = o
      <4>1. Written(p)' = <<>> /\ wire'[p] = <<>> /\ accepted'[p] = <<>>
        BY <1>0, <1>4, <3>1 DEF Written
      <4>2. <<>> \o <<>> = <<>>
        BY EmptySeq, ConcatEmptySeq
      <4> QED
        BY <4>1, <4>2
    <3>2. CASE p # o
      <4>1. Written(p)' = Written(p)
        BY <1>4 DEF Written
      <4> QED
        BY <1>0, <1>4, <3>2, <4>1
    <3> QED
      BY <3>1, <3>2
  <2> QED
    BY <1>0, <1>4, <2>1 DEF Sending, SendsWholePayload
<1>5. CASE ConnectStep
  <2>1. CASE \E o \in Objects : ConnectReturns(o)
    <3>1. PICK o \in Objects : ConnectReturns(o)
      BY <2>1
    <3>2. call'.op = "none" /\ call.op = "connect"
      BY <3>1 DEF ConnectReturns, NoCall
    <3> QED
      BY <1>4, <3>1, <3>2 DEF ConnectReturns
  <2>2. CASE \/ \E n \in 0..MaxAddresses : pljs_fdw_net_connect(n)
             \/ SocketFails \/ (\E fd \in Fds : SocketOpens(fd))
             \/ ConnectRefused \/ ConnectSucceeds \/ ConnectThrows
             \/ ConnectOutOfMemory
    <3>0. call.op = "none" \/ call.op = "connect"
      BY <2>2, CallFields
         DEF pljs_fdw_net_connect, SocketFails, SocketOpens, ConnectRefused,
             ConnectSucceeds, ConnectThrows, ConnectOutOfMemory, TryingAddress
    <3>1. call'.op # "send" /\ call.op # "send"
      <4>1. CASE \E n \in 0..MaxAddresses : pljs_fdw_net_connect(n)
        BY <3>0, <4>1 DEF pljs_fdw_net_connect
      <4>2. CASE \/ SocketFails \/ (\E fd \in Fds : SocketOpens(fd))
                 \/ ConnectRefused \/ ConnectSucceeds
        BY <3>0, <4>2, CallFields
           DEF SocketFails, SocketOpens, ConnectRefused, ConnectSucceeds,
               TryingAddress, ConnectCall
      <4>3. CASE ConnectThrows \/ ConnectOutOfMemory
        BY <3>0, <4>3 DEF ConnectThrows, ConnectOutOfMemory, NoCall
      <4> QED
        BY <2>2, <4>1, <4>2, <4>3
    <3>2. wire' = wire /\ accepted' = accepted
      BY <2>2
         DEF pljs_fdw_net_connect, SocketFails, SocketOpens, ConnectRefused,
             ConnectSucceeds, ConnectThrows, ConnectOutOfMemory
    <3> QED
      BY <1>2, <3>1, <3>2
  <2> QED
    BY <1>5, <2>1, <2>2 DEF ConnectStep
<1>6. CASE \E fd \in Fds : BackendOpens(fd) \/ BackendCloses(fd)
  BY <1>3, <1>6 DEF BackendOpens, BackendCloses
<1>7. CASE \E o \in Objects : pljs_fdw_net_close(o)
  BY <1>3, <1>7 DEF pljs_fdw_net_close
<1>8. CASE \E o \in Objects : pljs_fdw_net_socket_finalizer(o)
  <2>1. PICK o \in Objects : pljs_fdw_net_socket_finalizer(o)
    BY <1>8
  <2> QED
    BY <1>4, <2>1 DEF pljs_fdw_net_socket_finalizer
<1>9. CASE UNCHANGED netVars
  BY <1>3, <1>9 DEF netVars
<1> QED
  BY <1>1, <1>5, <1>6, <1>7, <1>8, <1>9 DEF NetNext

\* send() writes every byte of its payload, once and in order, however the
\* kernel splits the writes (the loop of pljs_fdw_net_send).
THEOREM SendsWhole == NetSpec => []SendsWholePayload
<1>1. NetInit => Sending
  <2>1. <<>> \o <<>> = <<>>
    BY EmptySeq, ConcatEmptySeq
  <2> QED
    BY <2>1 DEF NetInit, Sending, SendsWholePayload, Written, NoCall
<1>2. NetSpec => []Sending
  BY <1>1, NetTypeCorrect, NextSending, PTL DEF NetSpec
<1> QED
  BY <1>2, PTL DEF Sending
=============================================================================
