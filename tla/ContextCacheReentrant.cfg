\* Nested calls, failed and cancelled builds, and modules that are rewritten,
\* deleted and rolled back in reused item pointers.
CONSTANTS
    Users = {u1}
    Public = public
    Tables = {t1}
    OptionNames <- MCOptionNames
    OptionValues = {p1, empty}
    EmptyString = empty
    NoValue = NoValue
    NoMapping = NoMapping
    NoEntry = NoEntry
    NoRow = NoRow
    NoTxn = NoTxn
    NoFrame = NoFrame
    NoTid = NoTid
    NoSource = NoSource
    Contexts = {c1, c2, c3}
    Sources = {s1, s2}
    Tids = {1, 2, 3}
    MappingInputs <- MCNoMappings
    MaxDepth = 2
    MaxDDL = 1
    MaxXid = 4
    AllowFreeze = FALSE
    AllowCancel = TRUE
SYMMETRY ContextSymmetry
\* Contexts that a failed build leaks use up the bounded set Contexts.
CHECK_DEADLOCK FALSE
SPECIFICATION Spec
INVARIANTS
    ContextsExclusive
    ReturnsCurrentSource
