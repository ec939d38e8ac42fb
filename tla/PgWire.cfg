\* NULL and one-byte values: with and without an answer that query() gives up.
CONSTANTS
    MaxRequests = 3
    MaxRows = 2
    MaxNotices = 1
    Word = 256
    FieldLengths <- MCNullable
SPECIFICATION FairWireSpec
\* A connection that is closed, or whose queries are used up, stops.
CHECK_DEADLOCK FALSE
INVARIANTS
    WireTypeOK
    ReturnsOwnResult
    InStepWhenIdle
PROPERTY QueryEnds
