\* Up to five rows in batches of two, TRUNCATE of up to three tables, every kind
\* of UPDATE and DELETE of three rows, and plans that outlive their class.
CONSTANTS
    Columns = {id, name}
    OtherNames = {other}
    NoColumn = NoColumn
    NoResult = NoResult
    Classes <- MCClasses
    Statements <- MCStatements
    Results <- MCResults
    BatchSize = 2
    MaxCount = 4
SPECIFICATION ModifySpec
\* A statement that has ended stops.
CHECK_DEADLOCK FALSE
INVARIANTS
    ModifyTypeOK
    EffectInOrder
    TagCountsRows
    EveryRowLookedAt
    FallsBack
