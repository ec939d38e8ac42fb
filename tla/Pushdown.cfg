\* Every shape of clause, and every shape of ordering.
CONSTANTS
    Natts = 3
    Dropped = {2}
    Names <- MCNames
    NoName = NoName
    Values = {1, 2, 3}
    NULL = NULL
    Coerce <- Identity
    Apply <- Negate
    TableOid = 1
    Attnames <- MCAttnames
    Sources <- MCSources
    Queries <- MCQueries
SPECIFICATION PushSpec
\* A statement that has ended stops.
CHECK_DEADLOCK FALSE
INVARIANTS
    PushTypeOK
    ScanMatchesQuery
    ClaimedOrder
    ArgumentsCovered
    DirectModifiesMatching
