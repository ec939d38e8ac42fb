CONSTANTS
    Users = {u1}
    Public = public
    Tables = {t1}
    OptionNames <- MCOptionNames
    OptionValues = {p1, empty}
    EmptyString = empty
    NoValue = NoValue
    NoMapping = NoMapping
    NoEntry = NoEntry
    NoRow = NoRow
    NoTxn = NoTxn
    NoFrame = NoFrame
    NoTid = NoTid
    NoSource = NoSource
    Contexts = {c1, c2, c3}
    Sources = {s1}
    Tids = {1, 2}
    MappingInputs <- MCNoMappings
    MaxDepth = 1
    MaxDDL = 1
    MaxXid = 2
    AllowFreeze = FALSE
    AllowCancel = FALSE
    Nodes = {n1, n2}
    Iterators = {i1, i2, i3}
    NoNode = NoNode
    NoIterator = NoIterator
    NoContext = NoContext
    NoTable = NoTable
SPECIFICATION ExecSpec
INVARIANT HeldContextsLive
