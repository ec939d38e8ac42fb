--------------------------- MODULE MCImportSchema ---------------------------
(* A small instance of ImportSchema for TLC.                               *)
EXTENDS ImportSchema

MCIdent == [n \in TableNames \cup ColumnNames |->
               CASE n = "orders_long" -> "orders" [] n = "id_long" -> "id"
                 [] OTHER -> n]

Plain(type)        == [object |-> FALSE, type |-> type, name |-> NoValue]
Mapped(type, name) == [object |-> TRUE, type |-> type, name |-> name]

Cols(c, def) == [n \in {c} |-> def]
Opts(n, v)   == [m \in {n} |-> v]

Plainly(columns) == [columns |-> columns, options |-> NotObject]
With(options)    == [columns |-> Cols("id", Plain("integer")), options |-> options]

\* Descriptions of a table: good ones, and every way to be a bad one.
Good == {Plainly(Cols("id", Plain("integer"))),
         Plainly(Cols("id_long", Mapped("integer", "impl"))),
         Plainly(Cols("id", Mapped("integer", NoValue))),
         With(Nothing), With(Opts("module", "impl")),
         With(Opts("module", Undefined))}
Bad  == {NotObject, Plainly(NotObject), Plainly(Nothing),
         Plainly(Cols("id", Mapped(Undefined, "impl"))),
         Plainly(Cols("id", Mapped("integer", EmptyString))),
         Plainly([c \in {"id", "id_long"} |-> Plain("integer")]),
         With(Opts("column_name", "impl")), With(Opts("module", EmptyString))}

\* Two tables, whose names may become one.
Schemas ==
    {[t \in {"orders", other} |-> IF t = other THEN d ELSE g] :
        other \in {"items", "orders_long"}, g \in Good, d \in Good \cup Bad}
    \cup {Nothing}

Always(result) ==
    [load |-> "function", call |-> [o \in OptionList |-> result]]

\* A module that looks at the options it is given.
Choosing(s, t) ==
    [load |-> "function",
     call |-> [o \in OptionList |-> IF Given(o) = {} THEN s ELSE t]]

OnlyItems == [t \in {"items"} |-> With(Nothing)]

MCExports ==
    {Always(s) : s \in Schemas \cup {Exception, NotObject}}
    \cup {[load |-> l, call |-> [o \in OptionList |-> NotObject]] :
             l \in {"throws", "other"}}
    \cup {Choosing(Nothing, OnlyItems)}

MCStatements ==
    [list_type : {"LIMIT_TO", "EXCEPT"}, table_list : {{"orders"}, {"items"}},
     options : {NoOptions}]
    \cup [list_type : {"ALL"}, table_list : {{}},
          options : {NoOptions, [NoOptions EXCEPT !["module"] = "impl"]}]
=============================================================================
