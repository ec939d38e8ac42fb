CONSTANTS
    Tags = {68, 90}
    Bodies <- MCBodies
    MaxMessages = 3
    ChunkSize = 7
SPECIFICATION FairReaderSpec
\* A reader whose connection has failed and whose server has sent its last
\* message has nothing left to do.
CHECK_DEADLOCK FALSE
INVARIANT NothingLost
PROPERTIES
    ImplementsStream
    AllMessagesRead
