CONSTANTS
    MaxRequests = 2
    MaxRows = 2
    MaxNotices = 1
    Word = 256
    FieldLengths <- MCNullable
CHECK_DEADLOCK FALSE
SPECIFICATION WireSpec
INVARIANT ReturnsNulls
