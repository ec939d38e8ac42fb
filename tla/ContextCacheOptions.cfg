\* Option changes and invalidation against calls that do not nest.
CONSTANTS
    Users = {u1}
    Public = public
    Tables = {t1, t2}
    OptionNames <- MCOptionNames
    OptionValues = {p1, p2, empty}
    EmptyString = empty
    NoValue = NoValue
    NoMapping = NoMapping
    NoEntry = NoEntry
    NoRow = NoRow
    NoTxn = NoTxn
    NoFrame = NoFrame
    NoTid = NoTid
    NoSource = NoSource
    Contexts = {c1, c2}
    Sources = {s1}
    Tids = {1, 2}
    MappingInputs <- MCMappingInputs
    MaxDepth = 1
    MaxDDL = 2
    MaxXid = 2
    AllowFreeze = TRUE
    AllowCancel = FALSE
SPECIFICATION FairSpec
INVARIANTS
    TypeOK
    ContextsExclusive
    NoContextLeak
    StaleOptionsFlagged
PROPERTY AlterTakesEffect
