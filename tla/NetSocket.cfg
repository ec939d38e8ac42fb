\* Two sockets and a backend that opens files compete for three descriptors.
CONSTANTS
    Fds = {0, 1, 2, 3}
    Objects = {o1, o2}
    Payloads <- MCPayloads
    MaxAddresses = 2
    MaxWire = 4
SYMMETRY ObjectSymmetry
SPECIFICATION NetSpec
INVARIANTS
    NetTypeOK
    SocketsOwnTheirFd
    NoFdLeak
    SendsWholePayload
