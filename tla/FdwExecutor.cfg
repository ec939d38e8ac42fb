\* Two plan nodes, every kind of ERROR, DDL and module writes around them.
CONSTANTS
    Users = {u1}
    Public = public
    Tables = {t1}
    OptionNames <- MCOptionNames
    OptionValues = {p1, empty}
    EmptyString = empty
    NoValue = NoValue
    NoMapping = NoMapping
    NoEntry = NoEntry
    NoRow = NoRow
    NoTxn = NoTxn
    NoFrame = NoFrame
    NoTid = NoTid
    NoSource = NoSource
    Contexts = {c1, c2}
    Sources = {s1}
    Tids = {1, 2}
    MappingInputs <- MCNoMappings
    MaxDepth = 1
    MaxDDL = 1
    MaxXid = 3
    AllowFreeze = FALSE
    AllowCancel = TRUE
    Nodes = {n1, n2}
    Iterators = {i1, i2}
    NoNode = NoNode
    NoIterator = NoIterator
    NoContext = NoContext
    NoTable = NoTable
SYMMETRY ExecutorSymmetry
SPECIFICATION ExecSpec
\* Contexts and iterators that ERRORs leave behind use up the bounded sets.
CHECK_DEADLOCK FALSE
INVARIANTS
    ExecTypeOK
    ScansHoldIterators
    OnlyErrorsLeak
