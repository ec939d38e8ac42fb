---------------------------- MODULE ImportSchema ----------------------------
(***************************************************************************)
(* IMPORT FOREIGN SCHEMA: a schema module, run in a context of its own,    *)
(* describes tables; the FDW turns the selected ones into CREATE FOREIGN   *)
(* TABLE commands, which PostgreSQL then executes, all or none.            *)
(*                                                                         *)
(* A JavaScript object is a function on the names of its properties.       *)
(***************************************************************************)
EXTENDS Integers, FdwOptions

CONSTANTS
    TableNames,     \* names of tables, as properties and as identifiers
    ColumnNames,    \* names of columns, likewise
    Ident,          \* the identifier the parser makes of a name: it truncates
    TypeNames,      \* texts that name a type
    Undefined,      \* the JavaScript value
    Exception,      \* JS_EXCEPTION
    NotObject,      \* any JavaScript value that is not an object
    Exports,        \* what a schema module may export
    Statements,
    MaxImports      \* bound: statements in a session

\* An object with some of these names for properties.
IsObject(obj, names, IsValue(_)) ==
    DOMAIN obj \subseteq names /\ \A n \in DOMAIN obj : IsValue(obj[n])

\* 'type' alone, or {type, name}; name is NoValue when it is not a string.
ColumnDef ==
    {c \in [object : BOOLEAN, type : TypeNames \cup {Undefined},
            name : OptionValues \cup {NoValue}] : c.object \/ c.name = NoValue}

IsTableDef(def) ==
    \/ def = NotObject
    \/ /\ DOMAIN def = {"columns", "options"}
       /\ \/ def.columns = NotObject
          \/ IsObject(def.columns, ColumnNames, LAMBDA c : c \in ColumnDef)
       /\ \/ def.options = NotObject
          \/ IsObject(def.options, OptionNames,
                      LAMBDA v : v \in OptionValues \cup {Undefined})

\* load: what require() gives; call: what calling it with options does.
IsExport(e) ==
    /\ e.load \in {"throws", "function", "other"}
    /\ \A o \in OptionList :
          \/ e.call[o] \in {Exception, NotObject}
          \/ IsObject(e.call[o], TableNames, IsTableDef)

Statement == [list_type : {"ALL", "LIMIT_TO", "EXCEPT"},
              table_list : SUBSET TableNames, options : OptionList]

ASSUME ImportAssumption ==
    /\ "column_name" \in OptionNames
    /\ "undefined" \in OptionValues \ {EmptyString}
    /\ "undefined" \notin TypeNames
    /\ Undefined \notin OptionValues \cup TypeNames
    /\ Ident \in [TableNames \cup ColumnNames -> TableNames \cup ColumnNames]
    /\ \A n \in TableNames : Ident[n] \in TableNames /\ Ident[Ident[n]] = Ident[n]
    /\ \A n \in ColumnNames : Ident[n] \in ColumnNames
    /\ \A e \in Exports : IsExport(e)
    \* the parser has been over the statement's own list
    /\ \A s \in Statements :
          s \in Statement /\ \A n \in s.table_list : Ident[n] = n
    /\ MaxImports \in Nat

VARIABLES
    imports,        \* statements so far
    stmt,
    export,         \* what the module of this statement exports
    phase,
    schema,         \* the object it returned
    pending,        \* tables of schema the loop has yet to see
    commands,       \* the List of commands
    contexts,       \* contexts allocated and not freed
    leaked,         \* ghost: contexts lost to an ERROR inside the loop
    catalog,        \* the foreign tables of the local schema
    saved           \* ghost: catalog when the statement started

statementVars == <<imports, stmt, export, saved>>
importVars == <<statementVars, phase, schema, pending, commands, contexts,
                leaked, catalog>>

-----------------------------------------------------------------------------

\* A faulty variant: selection is left to PostgreSQL, which looks again.
FaultyAllIncluded(s, table_name) == TRUE

pljs_fdw_import_table_included(s, table_name) ==
    CASE s.list_type = "ALL"      -> TRUE
      [] s.list_type = "LIMIT_TO" -> table_name \in s.table_list
      [] s.list_type = "EXCEPT"   -> table_name \notin s.table_list

\* External (QuickJS): a value as text.
JS_ToCString(value) == IF value = Undefined THEN "undefined" ELSE value

\* A faulty variant: the remote name is dropped.
FaultyColumnClause(col_def) ==
    [type |-> JS_ToCString(col_def.type), options |-> NoOptions]

ColumnClause(col_def) ==
    [type |-> JS_ToCString(col_def.type),
     options |-> IF col_def.object /\ col_def.name # NoValue
                 THEN [NoOptions EXCEPT !["column_name"] = col_def.name]
                 ELSE NoOptions]

OptionsClause(options) ==
    IF options = NotObject THEN NoOptions
    ELSE [n \in OptionNames |-> IF n \in DOMAIN options
                                THEN JS_ToCString(options[n]) ELSE NoValue]

\* A faulty variant: a table without columns passes.
FaultyAppendCommand(table_name, table_def) ==
    IF table_def = NotObject \/ table_def.columns = NotObject THEN {}
    ELSE {[table |-> table_name,
           columns |-> [c \in DOMAIN table_def.columns |->
                           ColumnClause(table_def.columns[c])],
           options |-> OptionsClause(table_def.options)]}

\* The command, or none where the code raises an ERROR.
pljs_fdw_append_import_command(table_name, table_def) ==
    IF \/ table_def = NotObject
       \/ table_def.columns = NotObject
       \/ DOMAIN table_def.columns = {}
    THEN {}
    ELSE {[table |-> table_name,
           columns |-> [c \in DOMAIN table_def.columns |->
                           ColumnClause(table_def.columns[c])],
           options |-> OptionsClause(table_def.options)]}

-----------------------------------------------------------------------------
(* The callback *)

\* A statement starts: a new context, with PLJS's namespace.
ImportForeignSchema(s, e) ==
    /\ phase \in {"done", "error"}
    /\ imports < MaxImports
    /\ imports' = imports + 1
    /\ stmt' = s
    /\ export' = e
    /\ saved' = catalog
    /\ contexts' = contexts + 1
    /\ commands' = {}
    /\ phase' = "require"
    /\ UNCHANGED <<schema, pending, leaked, catalog>>

\* A faulty variant: the context is forgotten.
FaultyFailReleased ==
    /\ phase' = "error"
    /\ UNCHANGED <<statementVars, schema, pending, commands, contexts, leaked,
                   catalog>>

\* An ERROR raised after JS_FreeContext.
FailReleased ==
    /\ contexts' = contexts - 1
    /\ phase' = "error"
    /\ UNCHANGED <<statementVars, schema, pending, commands, leaked, catalog>>

RequireFails ==
    /\ phase = "require"
    /\ export.load # "function"
    /\ FailReleased

Described == export.call[SetProperties(NoOptions, stmt.options)]

CallFails ==
    /\ phase = "require"
    /\ export.load = "function"
    /\ Described \in {Exception, NotObject}
    /\ FailReleased

\* The module returned an object: the loop over its properties begins.
CallReturns ==
    /\ phase = "require"
    /\ export.load = "function"
    /\ Described \notin {Exception, NotObject}
    /\ schema' = Described
    /\ pending' = DOMAIN Described
    /\ phase' = "loop"
    /\ UNCHANGED <<statementVars, commands, contexts, leaked, catalog>>

AppendCommand(table_name) ==
    /\ phase = "loop"
    /\ table_name \in pending
    /\ pljs_fdw_import_table_included(stmt, table_name)
    /\ \E command \in
           pljs_fdw_append_import_command(table_name, schema[table_name]) :
          commands' = commands \cup {command}
    /\ pending' = pending \ {table_name}
    /\ UNCHANGED <<statementVars, phase, schema, contexts, leaked, catalog>>

\* The ERROR leaves the loop, and the callback, without JS_FreeContext.
AppendFails(table_name) ==
    /\ phase = "loop"
    /\ table_name \in pending
    /\ pljs_fdw_import_table_included(stmt, table_name)
    /\ pljs_fdw_append_import_command(table_name, schema[table_name]) = {}
    /\ leaked' = leaked + 1
    /\ phase' = "error"
    /\ UNCHANGED <<statementVars, schema, pending, commands, contexts, catalog>>

SkipTable(table_name) ==
    /\ phase = "loop"
    /\ table_name \in pending
    /\ ~pljs_fdw_import_table_included(stmt, table_name)
    /\ pending' = pending \ {table_name}
    /\ UNCHANGED <<statementVars, phase, schema, commands, contexts, leaked,
                   catalog>>

pljs_fdw_import_foreign_schema ==
    /\ phase = "loop"
    /\ pending = {}
    /\ contexts' = contexts - 1
    /\ phase' = "commands"
    /\ UNCHANGED <<statementVars, schema, pending, commands, leaked, catalog>>

-----------------------------------------------------------------------------
(* PostgreSQL executes the commands: external *)

\* The commands that pass its own look at LIMIT TO and EXCEPT.
Importable ==
    {c \in commands : CASE stmt.list_type = "ALL" -> TRUE
                        [] stmt.list_type = "LIMIT_TO"
                             -> Ident[c.table] \in stmt.table_list
                        [] stmt.list_type = "EXCEPT"
                             -> Ident[c.table] \notin stmt.table_list}

\* Column names that remain distinct, types that exist, admitted options.
Creatable(c) ==
    /\ \A m, n \in DOMAIN c.columns : m # n => Ident[m] # Ident[n]
    /\ \A n \in DOMAIN c.columns :
          /\ c.columns[n].type \in TypeNames
          /\ pljs_fdw_validator(c.columns[n].options, "Attribute")
    /\ pljs_fdw_validator(c.options, "ForeignTable")

AllCreatable ==
    /\ \A c \in Importable : Creatable(c) /\ Ident[c.table] \notin DOMAIN catalog
    /\ \A c, d \in Importable : c # d => Ident[c.table] # Ident[d.table]

Truncated(f) ==
    [n \in {Ident[m] : m \in DOMAIN f} |->
        f[CHOOSE m \in DOMAIN f : Ident[m] = n]]

CreateTables ==
    /\ phase = "commands"
    /\ AllCreatable
    /\ catalog' =
          [t \in DOMAIN catalog \cup {Ident[c.table] : c \in Importable} |->
              IF t \in DOMAIN catalog THEN catalog[t]
              ELSE LET c == CHOOSE x \in Importable : Ident[x.table] = t
                   IN  [columns |-> Truncated(c.columns), options |-> c.options]]
    /\ phase' = "done"
    /\ UNCHANGED <<statementVars, schema, pending, commands, contexts, leaked>>

\* The statement's transaction is rolled back.
CreateFails ==
    /\ phase = "commands"
    /\ ~AllCreatable
    /\ phase' = "error"
    /\ UNCHANGED <<statementVars, schema, pending, commands, contexts, leaked,
                   catalog>>

-----------------------------------------------------------------------------

Nothing == [n \in {} |-> NotObject]

ImportInit ==
    /\ imports = 0
    /\ stmt = [list_type |-> "ALL", table_list |-> {}, options |-> NoOptions]
    /\ export = [load |-> "other", call |-> [o \in OptionList |-> NotObject]]
    /\ phase = "done"
    /\ schema = Nothing
    /\ pending = {}
    /\ commands = {}
    /\ contexts = 0
    /\ leaked = 0
    /\ catalog = Nothing
    /\ saved = Nothing

ImportNext ==
    \/ \E s \in Statements, e \in Exports : ImportForeignSchema(s, e)
    \/ RequireFails
    \/ CallFails
    \/ CallReturns
    \/ \E t \in pending : AppendCommand(t) \/ AppendFails(t) \/ SkipTable(t)
    \/ pljs_fdw_import_foreign_schema
    \/ CreateTables
    \/ CreateFails

ImportSpec == ImportInit /\ [][ImportNext]_importVars

-----------------------------------------------------------------------------
(* Properties *)

Column == [type : TypeNames,
           options : {o \in OptionList : pljs_fdw_validator(o, "Attribute")}]

\* What the import keeps is well formed: every table it creates has columns, of
\* types that exist, and only options the validator admits.
ImportTypeOK ==
    /\ imports \in 0..MaxImports
    /\ phase \in {"require", "loop", "commands", "done", "error"}
    /\ pending \subseteq TableNames
    /\ \A c \in commands : c.table \in TableNames /\ c.options \in OptionList
    /\ contexts \in 0..MaxImports
    /\ leaked \in 0..MaxImports
    /\ \A f \in {catalog, saved} :
          IsObject(f, TableNames, LAMBDA table :
              /\ table.options \in TableOptions
              /\ IsObject(table.columns, ColumnNames, LAMBDA c : c \in Column)
              /\ DOMAIN table.columns # {})

\* What the module says, for the options of the statement.
Answer == export.call[stmt.options]

\* The tables the statement asks for.  A name in it is cut to the length of an
\* identifier and the module's is not: LIMIT TO never finds a longer one.
Asked ==
    {t \in DOMAIN Answer :
        CASE stmt.list_type = "ALL"      -> TRUE
          [] stmt.list_type = "LIMIT_TO" -> t \in stmt.table_list
          [] stmt.list_type = "EXCEPT"   -> Ident[t] \notin stmt.table_list}

\* def is what the catalog has of a table, described as desc.
AsDescribed(def, desc) ==
    /\ DOMAIN def.columns = {Ident[c] : c \in DOMAIN desc.columns}
    /\ \A c \in DOMAIN desc.columns :
          /\ def.columns[Ident[c]].type = desc.columns[c].type
          /\ def.columns[Ident[c]].options["column_name"] = desc.columns[c].name
    /\ IF desc.options = NotObject THEN Given(def.options) = {}
       ELSE /\ Given(def.options) = DOMAIN desc.options
            /\ \A n \in DOMAIN desc.options :
                  desc.options[n] # Undefined =>
                      def.options[n] = desc.options[n]

\* An import that succeeds adds exactly the tables that the statement asks for,
\* with the columns, remote names and options the module gives for its options;
\* one that fails adds none.
ImportsDescribed ==
    /\ phase = "done" /\ imports > 0 =>
          /\ DOMAIN catalog = DOMAIN saved \cup {Ident[t] : t \in Asked}
          /\ \A t \in DOMAIN saved : catalog[t] = saved[t]
          /\ \A t \in Asked : AsDescribed(catalog[Ident[t]], Answer[t])
    /\ phase = "error" => catalog = saved

\* Descriptions that cannot become a table.
Unusable(desc) ==
    \/ desc = NotObject
    \/ desc.columns = NotObject
    \/ DOMAIN desc.columns = {}
    \/ \E c \in DOMAIN desc.columns :
          \/ desc.columns[c].type = Undefined
          \/ desc.columns[c].name = EmptyString
          \/ \E d \in DOMAIN desc.columns \ {c} : Ident[d] = Ident[c]
    \/ /\ desc.options # NotObject
       /\ \E n \in DOMAIN desc.options :
             n # "module" \/ desc.options[n] = EmptyString

\* Only what a statement asks for can make it fail: a table it leaves out does
\* no harm, however it is described (where no name is longer than identifiers).
FailsForCause ==
    /\ phase = "error"
    /\ export.load = "function"
    /\ Answer \notin {Exception, NotObject}
    /\ \A t \in DOMAIN Answer : Ident[t] = t
    => \E t \in Asked : Unusable(Answer[t]) \/ t \in DOMAIN saved

\* Every way out of the callback frees its context, except the one the code
\* misses: an ERROR about one of the described tables.
ContextsReleased ==
    contexts = leaked + IF phase \in {"require", "loop"} THEN 1 ELSE 0
=============================================================================
