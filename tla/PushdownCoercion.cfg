\* A column under a coercion that does not keep values apart.
CONSTANTS
    Natts = 3
    Dropped = {2}
    Names <- MCNames
    NoName = NoName
    Values = {1, 2, 3}
    NULL = NULL
    Coerce <- Rounding
    Apply <- Negate
    TableOid = 1
    Attnames <- MCAttnames
    Sources <- MCSources
    Queries <- MCCoercedQueries
SPECIFICATION PushSpec
\* A statement that has ended stops.
CHECK_DEADLOCK FALSE
INVARIANT
    ScanMatchesQuery
