\* Two statements, one after the other, on anything a module may describe.
CONSTANTS
    Users = {u1}
    Public = Public
    OptionNames = {"module", "column_name"}
    OptionValues = {"", "impl", "undefined"}
    EmptyString = ""
    NoValue = NoValue
    NoMapping = NoMapping
    TableNames = {"orders", "orders_long", "items"}
    ColumnNames = {"id", "id_long"}
    Ident <- MCIdent
    TypeNames = {"integer"}
    Undefined = Undefined
    Exception = Exception
    NotObject = NotObject
    Exports <- MCExports
    Statements <- MCStatements
    MaxImports = 2
SPECIFICATION ImportSpec
\* A session ends.
CHECK_DEADLOCK FALSE
INVARIANTS
    ImportTypeOK
    ImportsDescribed
    FailsForCause
    ContextsReleased
