----------------------------- MODULE FdwOptions -----------------------------
(***************************************************************************)
(* The option helpers of fdw.c: looking an option up, merging the option   *)
(* lists of a server, a user mapping and a foreign table into the object   *)
(* the FDW class constructor receives, deciding which user mapping         *)
(* applies, and the validator that admits option lists at DDL time.        *)
(*                                                                         *)
(* A PostgreSQL option list (a List of DefElem whose names are distinct)   *)
(* is a function from OptionNames that is NoValue where the option is      *)
(* absent.                                                                 *)
(***************************************************************************)

CONSTANTS
    Users,          \* roles
    Public,         \* the pseudo-role of a PUBLIC user mapping (InvalidOid)
    OptionNames,    \* names an option list may hold; contains "module"
    OptionValues,   \* option values, the empty string included
    EmptyString,    \* the value ''
    NoValue,        \* the option is absent
    NoMapping       \* a role has no user mapping

ASSUME OptionAssumption ==
    /\ "module" \in OptionNames
    /\ EmptyString \in OptionValues
    /\ NoValue \notin OptionValues
    /\ Public \notin Users

-----------------------------------------------------------------------------

OptionList == [OptionNames -> OptionValues \cup {NoValue}]

ASSUME MappingAssumption == NoMapping \notin OptionList

NoOptions == [n \in OptionNames |-> NoValue]

pljs_fdw_get_option(options, name) == options[name]

\* The names of the options a list really holds.
Given(options) == {n \in OptionNames : options[n] # NoValue}

\* One pass of JS_SetPropertyStr over a list: its options override obj's.
SetProperties(obj, options) ==
    [n \in OptionNames |->
        IF n \in Given(options) THEN options[n] ELSE obj[n]]

pljs_fdw_build_options(server_options, user_mapping_options, table_options) ==
    LET fromServer  == SetProperties(NoOptions, server_options)
        fromMapping == SetProperties(fromServer, user_mapping_options)
    IN  SetProperties(fromMapping, table_options)

\* The "module" option of the table, else that of the server, else NoValue.
ModulePath(server_options, table_options) ==
    IF pljs_fdw_get_option(table_options, "module") # NoValue
    THEN pljs_fdw_get_option(table_options, "module")
    ELSE pljs_fdw_get_option(server_options, "module")

pljs_fdw_has_user_mapping(mappings, user) ==
    mappings[user] # NoMapping \/ mappings[Public] # NoMapping

\* External (foreign.c): the role's own mapping, else the PUBLIC one.
GetUserMapping(mappings, user) ==
    IF mappings[user] # NoMapping THEN mappings[user] ELSE mappings[Public]

\* The mapping options get_or_create_instance merges (NIL without a mapping).
UserMappingOptions(mappings, user) ==
    IF pljs_fdw_has_user_mapping(mappings, user)
    THEN GetUserMapping(mappings, user)
    ELSE NoOptions

\* Names with a fixed meaning for a catalog; their value may not be ''.
RecognizedOptions(catalog) ==
    {n \in {"module", "column_name"} :
        \/ n = "module" /\ catalog \in {"ForeignServer", "ForeignTable"}
        \/ n = "column_name" /\ catalog = "Attribute"}

\* A faulty variant: an empty value passes.
FaultyValidator(options, catalog) ==
    \A n \in Given(options) :
        n \in RecognizedOptions(catalog) \/ catalog = "UserMapping"

\* TRUE iff the validator returns, FALSE iff it raises an ERROR.
pljs_fdw_validator(options, catalog) ==
    \A n \in Given(options) :
        IF n \in RecognizedOptions(catalog)
        THEN options[n] # EmptyString
        ELSE catalog = "UserMapping"

\* The option lists the catalogs can hold.
ServerOptions == {o \in OptionList : pljs_fdw_validator(o, "ForeignServer")}
TableOptions  == {o \in OptionList : pljs_fdw_validator(o, "ForeignTable")}
MappingOptions == {o \in OptionList : pljs_fdw_validator(o, "UserMapping")}
=============================================================================
