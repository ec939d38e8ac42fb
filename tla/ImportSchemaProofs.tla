------------------------- MODULE ImportSchemaProofs -------------------------
(***************************************************************************)
(* Proofs about ImportSchema, for every set of names, every way of cutting *)
(* names to identifiers, and everything a schema module may export.        *)
(***************************************************************************)
EXTENDS ImportSchema, TLAPS

-----------------------------------------------------------------------------
(* Descriptions *)

\* The options of the statement reach the module as they are.
LEMMA OptionsPassed ==
    ASSUME NEW o \in OptionList
    PROVE  SetProperties(NoOptions, o) = o
  BY DEF SetProperties, NoOptions, Given, OptionList

\* A description that an object property can hold.
Columns(columns) ==
    DOMAIN columns \subseteq ColumnNames
    /\ \A c \in DOMAIN columns : columns[c] \in ColumnDef

Options(options) ==
    DOMAIN options \subseteq OptionNames
    /\ \A n \in DOMAIN options : options[n] \in OptionValues \cup {Undefined}

\* What a module describes tables as.
LEMMA DescriptionFacts ==
    ASSUME NEW e, IsExport(e), NEW o \in OptionList,
           e.call[o] \notin {Exception, NotObject}
    PROVE  /\ DOMAIN e.call[o] \subseteq TableNames
           /\ \A t \in DOMAIN e.call[o] :
                 \/ e.call[o][t] = NotObject
                 \/ /\ \/ e.call[o][t].columns = NotObject
                       \/ Columns(e.call[o][t].columns)
                    /\ \/ e.call[o][t].options = NotObject
                       \/ Options(e.call[o][t].options)
  BY DEF IsExport, IsObject, IsTableDef, Columns, Options

\* A column in a command: its type as text, its options those of an attribute.
LEMMA ColumnFacts ==
    ASSUME NEW d \in ColumnDef
    PROVE  LET c == ColumnClause(d)
           IN  /\ c = [type |-> c.type, options |-> c.options]
               /\ c.options \in OptionList
               /\ c.options["column_name"] = d.name
               /\ Given(c.options) = IF d.name = NoValue THEN {} ELSE {"column_name"}
               /\ c.type \in TypeNames => c.type = d.type
               /\ c.type \notin TypeNames => d.type = Undefined
  <1> DEFINE c == ColumnClause(d)
  <1>1. /\ d.object \in BOOLEAN /\ d.type \in TypeNames \cup {Undefined}
        /\ d.name \in OptionValues \cup {NoValue}
        /\ d.object \/ d.name = NoValue
    BY DEF ColumnDef
  <1>2. c = [type |-> JS_ToCString(d.type),
             options |-> IF d.object /\ d.name # NoValue
                         THEN [NoOptions EXCEPT !["column_name"] = d.name]
                         ELSE NoOptions]
    BY DEF ColumnClause
  <1> HIDE DEF c
  <1>3. /\ c.type = JS_ToCString(d.type)
        /\ c.options = IF d.name # NoValue
                       THEN [NoOptions EXCEPT !["column_name"] = d.name]
                       ELSE NoOptions
    BY <1>1, <1>2
  <1>4. /\ c.options \in OptionList
        /\ c.options["column_name"] = d.name
        /\ Given(c.options) = IF d.name = NoValue THEN {} ELSE {"column_name"}
    BY <1>1, <1>3, ImportAssumption DEF OptionList, NoOptions, Given
  <1>5. /\ c.type \in TypeNames => c.type = d.type
        /\ c.type \notin TypeNames => d.type = Undefined
    BY <1>1, <1>3, ImportAssumption DEF JS_ToCString
  <1> QED BY <1>2, <1>3, <1>4, <1>5 DEF c

\* The options of a table in a command: those given, as text.
LEMMA OptionsFacts ==
    ASSUME NEW options, options = NotObject \/ Options(options)
    PROVE  LET o == OptionsClause(options)
           IN  /\ o \in OptionList
               /\ options = NotObject => Given(o) = {}
               /\ options # NotObject =>
                     /\ Given(o) = DOMAIN options
                     /\ \A n \in DOMAIN options : o[n] = JS_ToCString(options[n])
  <1> DEFINE o == OptionsClause(options)
  <1>1. CASE options = NotObject
    <2>1. o = NoOptions
      BY <1>1 DEF OptionsClause
    <2> QED BY <1>1, <2>1 DEF NoOptions, OptionList, Given
  <1>2. CASE options # NotObject
    <2>1. o = [n \in OptionNames |-> IF n \in DOMAIN options
                                     THEN JS_ToCString(options[n]) ELSE NoValue]
      BY <1>2 DEF OptionsClause
    <2>2. DOMAIN options \subseteq OptionNames
      BY <1>2 DEF Options
    <2>3. \A n \in DOMAIN options : JS_ToCString(options[n]) \in OptionValues
      BY <1>2, ImportAssumption DEF Options, JS_ToCString
    <2> HIDE DEF o
    <2>4. /\ \A n \in DOMAIN options : o[n] = JS_ToCString(options[n])
          /\ \A n \in OptionNames \ DOMAIN options : o[n] = NoValue
      BY <2>1, <2>2
    <2>5. o \in OptionList
      BY <2>1, <2>3 DEF OptionList
    <2>6. Given(o) = DOMAIN options
      BY <2>2, <2>3, <2>4, OptionAssumption DEF Given
    <2> QED BY <1>2, <2>4, <2>5, <2>6 DEF o
  <1> QED BY <1>1, <1>2

\* A command has the columns and the options of the description it comes from.
LEMMA CommandFacts ==
    ASSUME NEW t, NEW desc, NEW c \in pljs_fdw_append_import_command(t, desc),
           \/ desc = NotObject
           \/ /\ desc.columns = NotObject \/ Columns(desc.columns)
              /\ desc.options = NotObject \/ Options(desc.options)
    PROVE  /\ c.table = t
           /\ desc # NotObject /\ desc.columns # NotObject
           /\ Columns(desc.columns) /\ DOMAIN desc.columns # {}
           /\ desc.options = NotObject \/ Options(desc.options)
           /\ DOMAIN c.columns = DOMAIN desc.columns
           /\ \A n \in DOMAIN desc.columns :
                 c.columns[n] = ColumnClause(desc.columns[n])
           /\ c.options = OptionsClause(desc.options)
           /\ pljs_fdw_append_import_command(t, desc) = {c}
  <1> DEFINE command == [table |-> t,
                         columns |-> [n \in DOMAIN desc.columns |->
                                         ColumnClause(desc.columns[n])],
                         options |-> OptionsClause(desc.options)]
  <1>1. /\ desc # NotObject /\ desc.columns # NotObject
        /\ DOMAIN desc.columns # {}
        /\ pljs_fdw_append_import_command(t, desc) = {command}
    BY DEF pljs_fdw_append_import_command
  <1>2. c = command
    BY <1>1
  <1>3. /\ command.table = t
        /\ command.columns = [n \in DOMAIN desc.columns |->
                                 ColumnClause(desc.columns[n])]
        /\ command.options = OptionsClause(desc.options)
    OBVIOUS
  <1> HIDE DEF command
  <1> QED BY <1>1, <1>2, <1>3
\* What a description has to be, and is.
Description(desc) ==
    \/ desc = NotObject
    \/ /\ desc.columns = NotObject \/ Columns(desc.columns)
       /\ desc.options = NotObject \/ Options(desc.options)

\* The table a command creates.
TableOf(c) == [columns |-> Truncated(c.columns), options |-> c.options]

\* A foreign table of the catalog.
IsTable(table) ==
    /\ table.options \in TableOptions
    /\ DOMAIN table.columns \subseteq ColumnNames
    /\ \A n \in DOMAIN table.columns : table.columns[n] \in Column
    /\ DOMAIN table.columns # {}

\* Cutting the names of columns confuses none where they remain distinct.
LEMMA TruncatedFacts ==
    ASSUME NEW f, \A m, n \in DOMAIN f : m # n => Ident[m] # Ident[n]
    PROVE  /\ DOMAIN Truncated(f) = {Ident[n] : n \in DOMAIN f}
           /\ \A n \in DOMAIN f : Truncated(f)[Ident[n]] = f[n]
  <1>1. Truncated(f) = [n \in {Ident[m] : m \in DOMAIN f} |->
                           f[CHOOSE m \in DOMAIN f : Ident[m] = n]]
    BY DEF Truncated
  <1>2. ASSUME NEW n \in DOMAIN f
        PROVE  Truncated(f)[Ident[n]] = f[n]
    <2> DEFINE b == CHOOSE m \in DOMAIN f : Ident[m] = Ident[n]
    <2>1. b \in DOMAIN f /\ Ident[b] = Ident[n]
      OBVIOUS
    <2>2. b = n
      BY <2>1
    <2>3. Truncated(f)[Ident[n]] = f[b]
      BY <1>1
    <2> QED BY <2>2, <2>3
  <1> QED BY <1>1, <1>2

\* A table that can be created is what the module described.
LEMMA CreatedFits ==
    ASSUME NEW t, NEW desc, Description(desc),
           NEW c \in pljs_fdw_append_import_command(t, desc), Creatable(c)
    PROVE  IsTable(TableOf(c)) /\ AsDescribed(TableOf(c), desc)
  <1> DEFINE cols == desc.columns
             D    == DOMAIN cols
             tab  == TableOf(c)
  <1>1. /\ Columns(cols) /\ D # {}
        /\ desc.options = NotObject \/ Options(desc.options)
        /\ DOMAIN c.columns = D
        /\ \A n \in D : c.columns[n] = ColumnClause(cols[n])
        /\ c.options = OptionsClause(desc.options)
    BY CommandFacts DEF Description
  <1>2. /\ \A m, n \in D : m # n => Ident[m] # Ident[n]
        /\ \A n \in D : /\ c.columns[n].type \in TypeNames
                        /\ pljs_fdw_validator(c.columns[n].options, "Attribute")
        /\ pljs_fdw_validator(c.options, "ForeignTable")
    BY <1>1 DEF Creatable
  <1>3. tab.columns = Truncated(c.columns) /\ tab.options = c.options
    BY DEF TableOf
  <1> HIDE DEF tab
  <1>4. /\ DOMAIN tab.columns = {Ident[n] : n \in D}
        /\ \A n \in D : tab.columns[Ident[n]] = c.columns[n]
    <2> DEFINE f == c.columns
    <2> HIDE DEF f, D
    <2>1. DOMAIN f = D /\ tab.columns = Truncated(f)
      BY <1>1, <1>3 DEF f
    <2>2. \A m, n \in DOMAIN f : m # n => Ident[m] # Ident[n]
      BY <1>2, <2>1
    <2>3. /\ DOMAIN Truncated(f) = {Ident[n] : n \in DOMAIN f}
          /\ \A n \in DOMAIN f : Truncated(f)[Ident[n]] = f[n]
      BY <2>2, TruncatedFacts
    <2> QED BY <2>1, <2>3 DEF f
  <1> HIDE DEF D, cols
  <1>5. ASSUME NEW n \in D
        PROVE  /\ cols[n] \in ColumnDef /\ Ident[n] \in ColumnNames
               /\ tab.columns[Ident[n]] \in Column
               /\ tab.columns[Ident[n]].type = cols[n].type
               /\ tab.columns[Ident[n]].options["column_name"] = cols[n].name
    <2>1. cols[n] \in ColumnDef /\ n \in ColumnNames
      BY <1>1 DEF Columns, D
    <2> DEFINE x == ColumnClause(cols[n])
    <2>2. /\ x = [type |-> x.type, options |-> x.options]
          /\ x.options \in OptionList
          /\ x.options["column_name"] = cols[n].name
          /\ x.type \in TypeNames => x.type = cols[n].type
      BY <2>1, ColumnFacts
    <2>3. tab.columns[Ident[n]] = x /\ c.columns[n] = x
      BY <1>1, <1>4
    <2> HIDE DEF x
    <2>4. x.type \in TypeNames /\ pljs_fdw_validator(x.options, "Attribute")
      BY <1>2, <2>3
    <2>5. x \in Column
      BY <2>2, <2>4 DEF Column
    <2> QED BY <2>1, <2>2, <2>3, <2>4, <2>5, ImportAssumption
  <1>6. tab.options \in OptionList /\ tab.options \in TableOptions
    BY <1>1, <1>2, <1>3, OptionsFacts DEF TableOptions
  <1>7. IsTable(tab)
    BY <1>1, <1>4, <1>5, <1>6 DEF IsTable
  <1>8. CASE desc.options = NotObject
    <2>1. Given(tab.options) = {}
      BY <1>1, <1>3, <1>8, OptionsFacts
    <2> QED BY <1>4, <1>5, <1>7, <1>8, <2>1 DEF AsDescribed, D, cols, tab
  <1>9. CASE desc.options # NotObject
    <2>1. /\ Given(tab.options) = DOMAIN desc.options
          /\ \A n \in DOMAIN desc.options :
                tab.options[n] = JS_ToCString(desc.options[n])
      BY <1>1, <1>3, <1>9, OptionsFacts
    <2>2. \A n \in DOMAIN desc.options :
              desc.options[n] # Undefined => tab.options[n] = desc.options[n]
      BY <2>1 DEF JS_ToCString
    <2> QED BY <1>4, <1>5, <1>7, <1>9, <2>1, <2>2 DEF AsDescribed, D, cols, tab
  <1> QED BY <1>8, <1>9

\* A command that PostgreSQL refuses comes from a description it must refuse.
LEMMA RefusedForCause ==
    ASSUME NEW t, NEW desc, Description(desc),
           NEW c \in pljs_fdw_append_import_command(t, desc), ~Creatable(c)
    PROVE  Unusable(desc)
  <1> DEFINE cols == desc.columns
             D    == DOMAIN cols
  <1>1. /\ Columns(cols)
        /\ desc.options = NotObject \/ Options(desc.options)
        /\ DOMAIN c.columns = D
        /\ \A n \in D : c.columns[n] = ColumnClause(cols[n])
        /\ c.options = OptionsClause(desc.options)
    BY CommandFacts DEF Description
  <1>2. CASE \E m, n \in D : m # n /\ Ident[m] = Ident[n]
    BY <1>2 DEF Unusable
  <1>3. CASE \E n \in D : \/ c.columns[n].type \notin TypeNames
                          \/ ~pljs_fdw_validator(c.columns[n].options, "Attribute")
    <2>1. PICK n \in D : \/ c.columns[n].type \notin TypeNames
                         \/ ~pljs_fdw_validator(c.columns[n].options, "Attribute")
      BY <1>3
    <2> DEFINE x == ColumnClause(cols[n])
    <2>2. cols[n] \in ColumnDef /\ c.columns[n] = x
      BY <1>1 DEF Columns
    <2>3. /\ x.options["column_name"] = cols[n].name
          /\ Given(x.options) = IF cols[n].name = NoValue THEN {} ELSE {"column_name"}
          /\ x.type \notin TypeNames => cols[n].type = Undefined
      BY <2>2, ColumnFacts
    <2> HIDE DEF x
    <2>4. CASE x.type \notin TypeNames
      BY <2>3, <2>4 DEF Unusable
    <2>5. CASE ~pljs_fdw_validator(x.options, "Attribute")
      <3>1. \A k \in Given(x.options) : k = "column_name"
        BY <2>3
      <3>2. "column_name" \in RecognizedOptions("Attribute")
        BY DEF RecognizedOptions
      <3>3. x.options["column_name"] = EmptyString
        BY <2>5, <3>1, <3>2 DEF pljs_fdw_validator
      <3> QED BY <2>3, <3>3 DEF Unusable
    <2> QED BY <2>1, <2>2, <2>4, <2>5
  <1>4. CASE ~pljs_fdw_validator(c.options, "ForeignTable")
    <2>1. PICK n \in Given(c.options) :
              n \notin RecognizedOptions("ForeignTable") \/ c.options[n] = EmptyString
      BY <1>4 DEF pljs_fdw_validator
    <2>2. /\ desc.options # NotObject /\ n \in DOMAIN desc.options
          /\ c.options[n] = JS_ToCString(desc.options[n])
      BY <1>1, <2>1, OptionsFacts
    <2>3. "module" \in RecognizedOptions("ForeignTable")
      BY DEF RecognizedOptions
    <2>4. CASE n # "module"
      BY <2>2, <2>4 DEF Unusable
    <2>5. CASE n = "module"
      <3>1. JS_ToCString(desc.options[n]) = EmptyString
        BY <2>1, <2>2, <2>3, <2>5
      <3>2. desc.options[n] = EmptyString
        BY <3>1, ImportAssumption DEF JS_ToCString
      <3> QED BY <2>2, <3>2 DEF Unusable
    <2> QED BY <2>4, <2>5
  <1> QED BY <1>1, <1>2, <1>3, <1>4 DEF Creatable

\* A table the callback refuses cannot be used.
LEMMA AppendFailsForCause ==
    ASSUME NEW t, NEW desc, pljs_fdw_append_import_command(t, desc) = {}
    PROVE  Unusable(desc)
  BY DEF pljs_fdw_append_import_command, Unusable

-----------------------------------------------------------------------------
(* The inductive invariant *)

Included(t) == pljs_fdw_import_table_included(stmt, t)

\* The statement is one the parser has been over, its module an export.
Reading ==
    /\ imports \in 0..MaxImports
    /\ phase \in {"require", "loop", "commands", "done", "error"}
    /\ IsExport(export)
    /\ stmt \in Statement
    /\ \A n \in stmt.table_list : Ident[n] = n

\* Contexts are counted; no statement loses more than one.
Counted ==
    /\ leaked \in Nat
    /\ ContextsReleased
    /\ contexts <= imports

\* The commands are those of the included tables the loop has seen.
Collected ==
    /\ pending \subseteq TableNames
    /\ \A c \in commands : c.table \in TableNames /\ c.options \in OptionList
    /\ phase = "require" => commands = {}
    /\ phase \in {"loop", "commands"} =>
          /\ Answer \notin {Exception, NotObject} /\ schema = Answer
          /\ pending \subseteq DOMAIN schema
          /\ \A c \in commands :
                /\ c.table \in DOMAIN schema /\ c.table \notin pending
                /\ Included(c.table)
                /\ c \in pljs_fdw_append_import_command(c.table, schema[c.table])
          /\ \A t \in DOMAIN schema :
                t \in pending \/ ~Included(t) \/ \E c \in commands : c.table = t
    /\ phase = "commands" => pending = {}

WellFormed(f) ==
    DOMAIN f \subseteq TableNames /\ \A t \in DOMAIN f : IsTable(f[t])

\* Nothing is created before the commands are executed.
Kept ==
    /\ WellFormed(catalog)
    /\ WellFormed(saved)
    /\ phase \in {"require", "loop", "commands"} => catalog = saved

ImportInv == Reading /\ Counted /\ Collected /\ Kept

\* What the module described, once the statement's options are known to reach it.
LEMMA AnswerFacts ==
    ASSUME Reading
    PROVE  /\ Described = Answer
           /\ Answer \notin {Exception, NotObject} =>
                 /\ DOMAIN Answer \subseteq TableNames
                 /\ \A t \in DOMAIN Answer : Description(Answer[t])
  <1>1. stmt.options \in OptionList
    BY DEF Reading, Statement
  <1>2. Described = Answer
    BY <1>1, OptionsPassed DEF Described, Answer
  <1>3. ASSUME Answer \notin {Exception, NotObject}
        PROVE  /\ DOMAIN Answer \subseteq TableNames
               /\ \A t \in DOMAIN Answer : Description(Answer[t])
    BY <1>1, <1>3, DescriptionFacts DEF Reading, Answer, Description
  <1> QED BY <1>2, <1>3

\* The session starts with nothing imported.
LEMMA ImportStart == ImportInit => ImportInv
  <1> SUFFICES ASSUME ImportInit PROVE ImportInv
    OBVIOUS
  <1>1. NoOptions \in OptionList
    BY DEF NoOptions, OptionList
  <1>2. IsExport(export)
    BY DEF ImportInit, IsExport
  <1>3. Reading
    BY <1>1, <1>2, ImportAssumption DEF ImportInit, Reading, Statement
  <1>4. Counted
    BY DEF ImportInit, Counted, ContextsReleased
  <1>5. Collected
    BY DEF ImportInit, Collected
  <1>6. DOMAIN Nothing = {}
    BY DEF Nothing
  <1>7. Kept
    BY <1>6 DEF ImportInit, Kept, WellFormed
  <1> QED BY <1>3, <1>4, <1>5, <1>7 DEF ImportInv

\* The statement does not change before the next one.
LEMMA StatementKept ==
    ASSUME UNCHANGED statementVars
    PROVE  /\ UNCHANGED <<imports, stmt, export, saved>>
           /\ Answer' = Answer /\ Described' = Described
           /\ \A t : Included(t)' <=> Included(t)
  BY DEF statementVars, Answer, Described, SetProperties, Included,
         pljs_fdw_import_table_included

\* A statement starts.
LEMMA StartStep ==
    ASSUME ImportInv, NEW s \in Statements, NEW e \in Exports,
           ImportForeignSchema(s, e)
    PROVE  ImportInv'
  <1>1. /\ phase \in {"done", "error"} /\ phase' = "require"
        /\ imports < MaxImports /\ imports' = imports + 1
        /\ stmt' = s /\ export' = e /\ saved' = catalog
        /\ contexts' = contexts + 1 /\ commands' = {}
        /\ UNCHANGED <<schema, pending, leaked, catalog>>
    BY DEF ImportForeignSchema
  <1>2. /\ IsExport(e) /\ s \in Statement /\ MaxImports \in Nat
        /\ \A n \in s.table_list : Ident[n] = n
    BY ImportAssumption
  <1>3. Reading'
    BY <1>1, <1>2 DEF ImportInv, Reading
  <1>4. Counted'
    BY <1>1, <1>2 DEF ImportInv, Reading, Counted, ContextsReleased
  <1>5. Collected'
    BY <1>1 DEF ImportInv, Collected
  <1>6. Kept'
    BY <1>1 DEF ImportInv, Kept, WellFormed
  <1> QED BY <1>3, <1>4, <1>5, <1>6 DEF ImportInv

\* A statement fails after its context was freed.
LEMMA FailReleasedStep ==
    ASSUME ImportInv, phase \in {"require", "loop"}, FailReleased
    PROVE  ImportInv'
  <1>1. /\ phase' = "error" /\ contexts' = contexts - 1
        /\ UNCHANGED <<statementVars, schema, pending, commands, leaked, catalog>>
    BY DEF FailReleased
  <1>2. UNCHANGED <<imports, stmt, export, saved>>
    BY <1>1, StatementKept
  <1>3. Reading'
    BY <1>1, <1>2 DEF ImportInv, Reading
  <1>4. Counted'
    BY <1>1, <1>2 DEF ImportInv, Reading, Counted, ContextsReleased
  <1>5. Collected'
    BY <1>1 DEF ImportInv, Collected
  <1>6. Kept'
    BY <1>1, <1>2 DEF ImportInv, Kept, WellFormed
  <1> QED BY <1>3, <1>4, <1>5, <1>6 DEF ImportInv

\* The loop begins.
LEMMA ReturnsStep ==
    ASSUME ImportInv, CallReturns
    PROVE  ImportInv'
  <1>1. /\ phase = "require" /\ phase' = "loop"
        /\ Described \notin {Exception, NotObject}
        /\ schema' = Described /\ pending' = DOMAIN Described
        /\ UNCHANGED <<statementVars, commands, contexts, leaked, catalog>>
    BY DEF CallReturns
  <1>2. UNCHANGED <<imports, stmt, export, saved>> /\ Answer' = Answer
    BY <1>1, StatementKept
  <1>3. Reading'
    BY <1>1, <1>2 DEF ImportInv, Reading
  <1>4. Counted'
    BY <1>1, <1>2 DEF ImportInv, Reading, Counted, ContextsReleased
  <1>5. Described = Answer /\ DOMAIN Answer \subseteq TableNames
    BY <1>1, AnswerFacts DEF ImportInv
  <1>6. commands' = {}
    BY <1>1 DEF ImportInv, Collected
  <1>7. Collected'
    BY <1>1, <1>2, <1>5, <1>6 DEF Collected
  <1>8. Kept'
    BY <1>1, <1>2 DEF ImportInv, Kept, WellFormed
  <1> QED BY <1>3, <1>4, <1>7, <1>8 DEF ImportInv

\* The loop deals with a table.
LEMMA LoopStep ==
    ASSUME ImportInv, NEW t \in pending, AppendCommand(t) \/ SkipTable(t)
    PROVE  ImportInv'
  <1>1. /\ phase = "loop" /\ pending' = pending \ {t}
        /\ UNCHANGED <<statementVars, phase, schema, contexts, leaked, catalog>>
    BY DEF AppendCommand, SkipTable
  <1>2. /\ UNCHANGED <<imports, stmt, export, saved>> /\ Answer' = Answer
        /\ \A x : Included(x)' <=> Included(x)
    BY <1>1, StatementKept
  <1>3. Reading'
    BY <1>1, <1>2 DEF ImportInv, Reading
  <1>4. Counted'
    BY <1>1, <1>2 DEF ImportInv, Reading, Counted, ContextsReleased
  <1>5. Kept'
    BY <1>1, <1>2 DEF ImportInv, Kept, WellFormed
  <1>6. /\ Answer \notin {Exception, NotObject} /\ schema = Answer
        /\ pending \subseteq DOMAIN schema /\ t \in DOMAIN schema
        /\ \A c \in commands :
              /\ c.table \in DOMAIN schema /\ c.table \notin pending
              /\ Included(c.table)
              /\ c \in pljs_fdw_append_import_command(c.table, schema[c.table])
              /\ c.table \in TableNames /\ c.options \in OptionList
        /\ \A x \in DOMAIN schema :
              x \in pending \/ ~Included(x) \/ \E c \in commands : c.table = x
        /\ pending \subseteq TableNames
    BY <1>1 DEF ImportInv, Collected
  <1>7. CASE AppendCommand(t)
    <2>1. PICK command \in pljs_fdw_append_import_command(t, schema[t]) :
              commands' = commands \cup {command}
      BY <1>7 DEF AppendCommand
    <2>2. Included(t)
      BY <1>7 DEF AppendCommand, Included
    <2>3. Description(schema[t])
      BY <1>6, AnswerFacts DEF ImportInv
    <2>4. command.table = t /\ command.options \in OptionList
      BY <2>1, <2>3, CommandFacts, OptionsFacts DEF Description
    <2>5. /\ \A c \in commands' : c.table \in TableNames /\ c.options \in OptionList
          /\ \A c \in commands' :
                /\ c.table \in DOMAIN schema /\ c.table \notin pending'
                /\ Included(c.table)
                /\ c \in pljs_fdw_append_import_command(c.table, schema[c.table])
          /\ \A x \in DOMAIN schema :
                x \in pending' \/ ~Included(x) \/ \E c \in commands' : c.table = x
      BY <1>1, <1>6, <2>1, <2>2, <2>4
    <2>6. Collected'
      BY <1>1, <1>2, <1>6, <2>5 DEF Collected
    <2> QED BY <1>3, <1>4, <1>5, <2>6 DEF ImportInv
  <1>8. CASE SkipTable(t)
    <2>1. ~Included(t) /\ commands' = commands
      BY <1>8 DEF SkipTable, Included
    <2>2. Collected'
      BY <1>1, <1>2, <1>6, <2>1 DEF Collected
    <2> QED BY <1>3, <1>4, <1>5, <2>2 DEF ImportInv
  <1> QED BY <1>7, <1>8

\* The ERROR about a described table.
LEMMA AppendFailsStep ==
    ASSUME ImportInv, NEW t \in pending, AppendFails(t)
    PROVE  ImportInv'
  <1>1. /\ phase = "loop" /\ phase' = "error" /\ leaked' = leaked + 1
        /\ UNCHANGED <<statementVars, schema, pending, commands, contexts, catalog>>
    BY DEF AppendFails
  <1>2. UNCHANGED <<imports, stmt, export, saved>>
    BY <1>1, StatementKept
  <1>3. Reading'
    BY <1>1, <1>2 DEF ImportInv, Reading
  <1>4. Counted'
    BY <1>1, <1>2 DEF ImportInv, Reading, Counted, ContextsReleased
  <1>5. Collected'
    BY <1>1 DEF ImportInv, Collected
  <1>6. Kept'
    BY <1>1, <1>2 DEF ImportInv, Kept, WellFormed
  <1> QED BY <1>3, <1>4, <1>5, <1>6 DEF ImportInv

\* The loop ends and the context is freed.
LEMMA LoopEndStep ==
    ASSUME ImportInv, pljs_fdw_import_foreign_schema
    PROVE  ImportInv'
  <1>1. /\ phase = "loop" /\ phase' = "commands" /\ pending = {}
        /\ contexts' = contexts - 1
        /\ UNCHANGED <<statementVars, schema, pending, commands, leaked, catalog>>
    BY DEF pljs_fdw_import_foreign_schema
  <1>2. /\ UNCHANGED <<imports, stmt, export, saved>> /\ Answer' = Answer
        /\ \A x : Included(x)' <=> Included(x)
    BY <1>1, StatementKept
  <1>3. Reading'
    BY <1>1, <1>2 DEF ImportInv, Reading
  <1>4. Counted'
    BY <1>1, <1>2 DEF ImportInv, Reading, Counted, ContextsReleased
  <1>5. Collected'
    BY <1>1, <1>2 DEF ImportInv, Collected
  <1>6. Kept'
    BY <1>1, <1>2 DEF ImportInv, Kept, WellFormed
  <1> QED BY <1>3, <1>4, <1>5, <1>6 DEF ImportInv

\* PostgreSQL selects the commands of the tables the statement asks for, and
\* there is one for each.
LEMMA ImportableFacts ==
    ASSUME ImportInv, phase = "commands"
    PROVE  /\ \A c \in Importable :
                 /\ c \in commands /\ c.table \in Asked
                 /\ c \in pljs_fdw_append_import_command(c.table, Answer[c.table])
           /\ \A t \in Asked : \E c \in Importable : c.table = t
           /\ \A t \in Asked : t \in TableNames /\ Description(Answer[t])
           /\ \A c, d \in Importable : c.table = d.table => c = d
  <1>1. /\ Answer \notin {Exception, NotObject} /\ schema = Answer /\ pending = {}
        /\ \A c \in commands :
              /\ c.table \in DOMAIN Answer /\ Included(c.table)
              /\ c \in pljs_fdw_append_import_command(c.table, Answer[c.table])
        /\ \A t \in DOMAIN Answer :
              ~Included(t) \/ \E c \in commands : c.table = t
    BY DEF ImportInv, Collected
  <1>2. /\ DOMAIN Answer \subseteq TableNames
        /\ \A t \in DOMAIN Answer : Description(Answer[t])
    BY <1>1, AnswerFacts DEF ImportInv
  <1>3. /\ stmt.list_type \in {"ALL", "LIMIT_TO", "EXCEPT"}
        /\ \A n \in stmt.table_list : Ident[n] = n
    BY DEF ImportInv, Reading, Statement
  <1>4. ASSUME NEW c \in Importable
        PROVE  c \in commands /\ c.table \in Asked
    BY <1>1, <1>3, <1>4 DEF Importable, Asked, Included, pljs_fdw_import_table_included
  <1>5. ASSUME NEW t \in Asked
        PROVE  \E c \in Importable : c.table = t
    <2>1. t \in DOMAIN Answer /\ Included(t)
      BY <1>3 DEF Asked, Included, pljs_fdw_import_table_included
    <2>2. PICK c \in commands : c.table = t
      BY <1>1, <2>1
    <2>3. c \in Importable
      BY <1>3, <2>2 DEF Importable, Asked
    <2> QED BY <2>2, <2>3
  <1>6. \A t \in Asked : t \in DOMAIN Answer
    BY DEF Asked
  <1>7. ASSUME NEW c \in Importable, NEW d \in Importable, c.table = d.table
        PROVE  c = d
    <2>1. /\ c \in pljs_fdw_append_import_command(c.table, Answer[c.table])
          /\ d \in pljs_fdw_append_import_command(c.table, Answer[c.table])
          /\ Description(Answer[c.table])
      BY <1>1, <1>2, <1>4, <1>7
    <2>2. pljs_fdw_append_import_command(c.table, Answer[c.table]) = {c}
      BY <2>1, CommandFacts DEF Description
    <2> QED BY <2>1, <2>2
  <1> QED BY <1>1, <1>2, <1>4, <1>5, <1>6, <1>7

\* The catalog after the commands were executed.
LEMMA CreateFacts ==
    ASSUME ImportInv, CreateTables
    PROVE  /\ phase = "commands" /\ phase' = "done" /\ catalog = saved
           /\ UNCHANGED <<statementVars, schema, pending, commands, contexts, leaked>>
           /\ DOMAIN catalog' = DOMAIN catalog \cup {Ident[t] : t \in Asked}
           /\ \A t \in DOMAIN catalog : catalog'[t] = catalog[t]
           /\ \A t \in Asked : /\ IsTable(catalog'[Ident[t]])
                               /\ AsDescribed(catalog'[Ident[t]], Answer[t])
  <1> DEFINE new == {Ident[c.table] : c \in Importable}
  <1>1. /\ phase = "commands" /\ phase' = "done" /\ AllCreatable
        /\ UNCHANGED <<statementVars, schema, pending, commands, contexts, leaked>>
    BY DEF CreateTables
  <1>2. catalog = saved
    BY <1>1 DEF ImportInv, Kept
  <1>3. catalog' =
            [t \in DOMAIN catalog \cup new |->
                IF t \in DOMAIN catalog THEN catalog[t]
                ELSE TableOf(CHOOSE x \in Importable : Ident[x.table] = t)]
    BY DEF CreateTables, TableOf
  <1>4. /\ \A c \in Importable : Creatable(c) /\ Ident[c.table] \notin DOMAIN catalog
        /\ \A c, d \in Importable : c # d => Ident[c.table] # Ident[d.table]
    BY <1>1 DEF AllCreatable
  <1>5. new = {Ident[t] : t \in Asked}
    BY <1>1, ImportableFacts
  <1> HIDE DEF new
  <1>6. DOMAIN catalog' = DOMAIN catalog \cup {Ident[t] : t \in Asked}
    BY <1>3, <1>5
  <1>7. \A t \in DOMAIN catalog : catalog'[t] = catalog[t]
    BY <1>3
  <1>8. ASSUME NEW t \in Asked
        PROVE  /\ IsTable(catalog'[Ident[t]])
               /\ AsDescribed(catalog'[Ident[t]], Answer[t])
    <2>1. PICK c \in Importable : c.table = t
      BY <1>1, ImportableFacts
    <2> DEFINE x == CHOOSE y \in Importable : Ident[y.table] = Ident[t]
    <2>2. x \in Importable /\ Ident[x.table] = Ident[t]
      BY <2>1
    <2>3. x = c
      BY <1>4, <2>1, <2>2
    <2>4. Ident[t] \in new /\ Ident[t] \notin DOMAIN catalog
      BY <1>4, <1>5, <2>1
    <2>5. catalog'[Ident[t]] = TableOf(x)
      BY <1>3, <2>4
    <2> HIDE DEF x
    <2>6. Creatable(c) /\ Description(Answer[t])
          /\ c \in pljs_fdw_append_import_command(t, Answer[t])
      BY <1>1, <1>4, <2>1, ImportableFacts
    <2> QED BY <2>3, <2>5, <2>6, CreatedFits
  <1> QED BY <1>1, <1>2, <1>6, <1>7, <1>8

\* The commands are executed.
LEMMA CreateStep ==
    ASSUME ImportInv, CreateTables
    PROVE  ImportInv'
  <1>1. /\ phase = "commands" /\ phase' = "done"
        /\ UNCHANGED <<statementVars, schema, pending, commands, contexts, leaked>>
    BY CreateFacts
  <1>2. UNCHANGED <<imports, stmt, export, saved>>
    BY <1>1, StatementKept
  <1>3. Reading'
    BY <1>1, <1>2 DEF ImportInv, Reading
  <1>4. Counted'
    BY <1>1, <1>2 DEF ImportInv, Reading, Counted, ContextsReleased
  <1>5. Collected'
    BY <1>1 DEF ImportInv, Collected
  <1>6. /\ DOMAIN catalog' = DOMAIN catalog \cup {Ident[t] : t \in Asked}
        /\ \A t \in DOMAIN catalog : catalog'[t] = catalog[t]
        /\ \A t \in Asked : IsTable(catalog'[Ident[t]])
    BY CreateFacts
  <1>7. \A t \in Asked : Ident[t] \in TableNames
    BY <1>1, ImportableFacts, ImportAssumption
  <1>8. WellFormed(catalog) /\ WellFormed(saved)
    BY DEF ImportInv, Kept
  <1>9. DOMAIN catalog' \subseteq TableNames
    BY <1>6, <1>7, <1>8 DEF WellFormed
  <1>10. \A t \in DOMAIN catalog' : IsTable(catalog'[t])
    BY <1>6, <1>8 DEF WellFormed
  <1>11. WellFormed(catalog)' /\ WellFormed(saved)'
    BY <1>2, <1>8, <1>9, <1>10 DEF WellFormed
  <1>12. Kept'
    BY <1>1, <1>11 DEF Kept
  <1> QED BY <1>3, <1>4, <1>5, <1>12 DEF ImportInv

\* The commands are refused.
LEMMA CreateFailsStep ==
    ASSUME ImportInv, CreateFails
    PROVE  ImportInv'
  <1>1. /\ phase = "commands" /\ phase' = "error"
        /\ UNCHANGED <<statementVars, schema, pending, commands, contexts, leaked,
                       catalog>>
    BY DEF CreateFails
  <1>2. UNCHANGED <<imports, stmt, export, saved>>
    BY <1>1, StatementKept
  <1>3. Reading'
    BY <1>1, <1>2 DEF ImportInv, Reading
  <1>4. Counted'
    BY <1>1, <1>2 DEF ImportInv, Reading, Counted, ContextsReleased
  <1>5. Collected'
    BY <1>1 DEF ImportInv, Collected
  <1>6. Kept'
    BY <1>1, <1>2 DEF ImportInv, Kept, WellFormed
  <1> QED BY <1>3, <1>4, <1>5, <1>6 DEF ImportInv

\* Nothing happens.
LEMMA ImportStutter ==
    ASSUME ImportInv, UNCHANGED importVars
    PROVE  ImportInv'
  <1>1. UNCHANGED <<statementVars, phase, schema, pending, commands, contexts,
                    leaked, catalog>>
    BY DEF importVars
  <1>2. /\ UNCHANGED <<imports, stmt, export, saved>> /\ Answer' = Answer
        /\ \A x : Included(x)' <=> Included(x)
    BY <1>1, StatementKept
  <1>3. Reading' /\ Kept'
    BY <1>1, <1>2 DEF ImportInv, Reading, Kept, WellFormed
  <1>4. Counted'
    BY <1>1, <1>2 DEF ImportInv, Counted, ContextsReleased
  <1>5. Collected'
    BY <1>1, <1>2 DEF ImportInv, Collected
  <1> QED BY <1>3, <1>4, <1>5 DEF ImportInv

\* Every step keeps the invariant.
LEMMA ImportStep == ImportInv /\ [ImportNext]_importVars => ImportInv'
  <1> SUFFICES ASSUME ImportInv, [ImportNext]_importVars PROVE ImportInv'
    OBVIOUS
  <1>1. CASE RequireFails \/ CallFails
    BY <1>1, FailReleasedStep DEF RequireFails, CallFails
  <1> QED BY <1>1, ImportStutter, StartStep, ReturnsStep, LoopStep, AppendFailsStep,
             LoopEndStep, CreateStep, CreateFailsStep DEF ImportNext

-----------------------------------------------------------------------------
(* The theorems *)

\* What the import keeps is well formed.
LEMMA ImportTyped == ImportInv => ImportTypeOK
  <1> SUFFICES ASSUME ImportInv PROVE ImportTypeOK
    OBVIOUS
  <1>1. MaxImports \in Nat
    BY ImportAssumption
  <1>2. /\ imports \in 0..MaxImports
        /\ phase \in {"require", "loop", "commands", "done", "error"}
    BY DEF ImportInv, Reading
  <1>3. contexts \in 0..MaxImports /\ leaked \in 0..MaxImports
    BY <1>1, <1>2 DEF ImportInv, Counted, ContextsReleased
  <1>4. \A f \in {catalog, saved} :
            IsObject(f, TableNames, LAMBDA table :
                /\ table.options \in TableOptions
                /\ IsObject(table.columns, ColumnNames, LAMBDA c : c \in Column)
                /\ DOMAIN table.columns # {})
    BY DEF ImportInv, Kept, WellFormed, IsTable, IsObject
  <1> QED BY <1>2, <1>3, <1>4 DEF ImportInv, Collected, ImportTypeOK

\* Every table an import creates has columns, of types that exist, and only
\* options the validator admits, whatever a module describes.
THEOREM ImportTypeCorrect == ImportSpec => []ImportTypeOK
  BY ImportStart, ImportStep, ImportTyped, PTL DEF ImportSpec

\* Every way out of the callback frees its context, except an ERROR about one of
\* the described tables, in however many statements.
THEOREM ContextsAreReleased == ImportSpec => []ContextsReleased
  <1>1. ImportInv => ContextsReleased
    BY DEF ImportInv, Counted
  <1> QED BY <1>1, ImportStart, ImportStep, PTL DEF ImportSpec

\* What the two properties below speak of stays between statements.
LEMMA NothingHappens ==
    ASSUME UNCHANGED importVars
    PROVE  /\ ImportsDescribed => ImportsDescribed'
           /\ FailsForCause => FailsForCause'
  <1>1. UNCHANGED <<imports, stmt, export, saved, phase, catalog>>
    BY DEF importVars, statementVars
  <1>2. Answer' = Answer /\ Asked' = Asked
    BY <1>1 DEF Answer, Asked
  <1> QED BY <1>1, <1>2 DEF ImportsDescribed, FailsForCause

\* A step that does not end a statement.
LEMMA GoesOn ==
    ASSUME phase' \notin {"done", "error"}
    PROVE  ImportsDescribed' /\ FailsForCause'
  BY DEF ImportsDescribed, FailsForCause

\* Which steps end a statement.
LEMMA Endings ==
    ASSUME ImportNext
    PROVE  \/ phase' \notin {"done", "error"}
           \/ RequireFails \/ CallFails
           \/ \E t \in pending : AppendFails(t)
           \/ CreateTables
           \/ CreateFails
  <1>1. ASSUME NEW s, NEW e, ImportForeignSchema(s, e)
        PROVE  phase' \notin {"done", "error"}
    BY <1>1 DEF ImportForeignSchema
  <1>2. CallReturns \/ pljs_fdw_import_foreign_schema => phase' \notin {"done", "error"}
    BY DEF CallReturns, pljs_fdw_import_foreign_schema
  <1>3. ASSUME NEW t, AppendCommand(t) \/ SkipTable(t)
        PROVE  phase' \notin {"done", "error"}
    BY <1>3 DEF AppendCommand, SkipTable
  <1> QED BY <1>1, <1>2, <1>3 DEF ImportNext

\* Tables are created as described, all or none.
LEMMA DescribedStep ==
    ImportInv /\ ImportsDescribed /\ [ImportNext]_importVars => ImportsDescribed'
  <1> SUFFICES ASSUME ImportInv, ImportsDescribed, ImportNext
               PROVE  ImportsDescribed'
    BY NothingHappens
  <1>1. CASE phase' = "error" /\ phase \in {"require", "loop", "commands"}
             /\ UNCHANGED <<catalog, saved>>
    <2>1. catalog' = saved'
      BY <1>1 DEF ImportInv, Kept
    <2> QED BY <1>1, <2>1 DEF ImportsDescribed
  <1>2. CASE RequireFails \/ CallFails
    BY <1>1, <1>2 DEF RequireFails, CallFails, FailReleased, statementVars
  <1>3. CASE \E t \in pending : AppendFails(t)
    BY <1>1, <1>3 DEF AppendFails, statementVars
  <1>4. CASE CreateFails
    BY <1>1, <1>4 DEF CreateFails, statementVars
  <1>5. CASE CreateTables
    <2>1. /\ phase' = "done" /\ catalog = saved /\ UNCHANGED statementVars
          /\ DOMAIN catalog' = DOMAIN catalog \cup {Ident[t] : t \in Asked}
          /\ \A t \in DOMAIN catalog : catalog'[t] = catalog[t]
          /\ \A t \in Asked : AsDescribed(catalog'[Ident[t]], Answer[t])
      BY <1>5, CreateFacts
    <2>2. UNCHANGED <<imports, stmt, export, saved>>
      BY <2>1, StatementKept
    <2>3. Answer' = Answer /\ Asked' = Asked
      BY <2>2 DEF Answer, Asked
    <2> QED BY <2>1, <2>2, <2>3 DEF ImportsDescribed
  <1> QED BY <1>2, <1>3, <1>4, <1>5, GoesOn, Endings

\* An import that succeeds adds exactly the tables the statement asks for, as the
\* module describes them, and one that fails adds none: for all modules,
\* statements and names.
THEOREM ImportsAreDescribed == ImportSpec => []ImportsDescribed
  <1>1. ImportInit => ImportsDescribed
    <2>1. 0 > 0 <=> FALSE
      OBVIOUS
    <2> QED BY <2>1 DEF ImportInit, ImportsDescribed
  <1> QED BY <1>1, ImportStart, ImportStep, DescribedStep, PTL DEF ImportSpec

\* A refusal has its cause in a table the statement asks for.
LEMMA CauseStep ==
    ImportInv /\ FailsForCause /\ [ImportNext]_importVars => FailsForCause'
  <1> SUFFICES ASSUME ImportInv, FailsForCause, ImportNext
               PROVE  FailsForCause'
    BY NothingHappens
  <1>1. ASSUME UNCHANGED statementVars
        PROVE  /\ UNCHANGED <<stmt, export, saved>>
               /\ Answer' = Answer /\ Asked' = Asked
    <2>1. UNCHANGED <<stmt, export, saved>>
      BY <1>1 DEF statementVars
    <2> QED BY <2>1 DEF Answer, Asked
  <1>2. CASE RequireFails
    <2>1. export.load # "function" /\ UNCHANGED statementVars
      BY <1>2 DEF RequireFails, FailReleased
    <2> QED BY <1>1, <2>1 DEF FailsForCause
  <1>3. CASE CallFails
    <2>1. Described \in {Exception, NotObject} /\ UNCHANGED statementVars
      BY <1>3 DEF CallFails, FailReleased
    <2>2. Answer \in {Exception, NotObject}
      BY <2>1, AnswerFacts DEF ImportInv
    <2> QED BY <1>1, <2>1, <2>2 DEF FailsForCause
  <1>4. CASE \E t \in pending : AppendFails(t)
    <2>1. PICK t \in pending : AppendFails(t)
      BY <1>4
    <2>2. /\ phase = "loop" /\ Included(t) /\ UNCHANGED statementVars
          /\ pljs_fdw_append_import_command(t, schema[t]) = {}
      BY <2>1 DEF AppendFails, Included
    <2>3. schema = Answer /\ t \in DOMAIN Answer
      BY <2>2 DEF ImportInv, Collected
    <2>4. Unusable(Answer[t])
      BY <2>2, <2>3, AppendFailsForCause
    <2>5. Ident[t] = t => t \in Asked
      <3>1. stmt.list_type \in {"ALL", "LIMIT_TO", "EXCEPT"}
        BY DEF ImportInv, Reading, Statement
      <3> QED BY <2>2, <2>3, <3>1 DEF Asked, Included, pljs_fdw_import_table_included
    <2> QED BY <1>1, <2>2, <2>3, <2>4, <2>5 DEF FailsForCause
  <1>5. CASE CreateTables
    BY <1>5 DEF CreateTables, FailsForCause
  <1>6. CASE CreateFails
    <2>1. phase = "commands" /\ ~AllCreatable /\ UNCHANGED statementVars
      BY <1>6 DEF CreateFails
    <2>2. catalog = saved
      BY <2>1 DEF ImportInv, Kept
    <2>3. SUFFICES ASSUME \A t \in DOMAIN Answer : Ident[t] = t
                   PROVE  \E t \in Asked : Unusable(Answer[t]) \/ t \in DOMAIN saved
      BY <1>1, <2>1 DEF FailsForCause
    <2>4. \A c \in Importable : c.table \in Asked /\ Ident[c.table] = c.table
      BY <2>1, <2>3, ImportableFacts DEF Asked
    <2>5. \A c, d \in Importable : c # d => Ident[c.table] # Ident[d.table]
      BY <2>1, <2>4, ImportableFacts
    <2>6. PICK c \in Importable : ~Creatable(c) \/ Ident[c.table] \in DOMAIN catalog
      BY <2>1, <2>5 DEF AllCreatable
    <2>7. /\ c.table \in Asked /\ Description(Answer[c.table])
          /\ c \in pljs_fdw_append_import_command(c.table, Answer[c.table])
      BY <2>1, ImportableFacts
    <2>8. CASE ~Creatable(c)
      BY <2>7, <2>8, RefusedForCause
    <2>9. CASE Ident[c.table] \in DOMAIN catalog
      BY <2>2, <2>4, <2>7, <2>9
    <2> QED BY <2>6, <2>8, <2>9
  <1> QED BY <1>2, <1>3, <1>4, <1>5, <1>6, GoesOn, Endings

\* A table that a statement leaves out never makes it fail, however it is
\* described, for all modules and statements whose names are not cut.
THEOREM FailsOnlyForCause == ImportSpec => []FailsForCause
  <1>1. ImportInit => FailsForCause
    BY DEF ImportInit, FailsForCause
  <1> QED BY <1>1, ImportStart, ImportStep, CauseStep, PTL DEF ImportSpec

=============================================================================
