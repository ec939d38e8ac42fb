----------------------------- MODULE MCPushdown -----------------------------
(* Small instances of Pushdown for TLC: a table of columns 1 and 3 whose   *)
(* attribute 2 was dropped.                                                *)
EXTENDS Pushdown

MCNames == {"a", "b", "x"}
MCAttnames == {[a \in Live |-> IF a = 1 THEN "a" ELSE "b"]}

Identity == [v \in Values |-> v]
\* A coercion that does not keep values apart, as bigint to double precision.
Rounding == [v \in Values |-> IF v = 1 THEN 2 ELSE v]
Negate   == [v \in Values |-> 4 - v]

Fields(a, b, x) == [n \in MCNames |-> CASE n = "a" -> a [] n = "b" -> b
                                        [] n = "x" -> x]

MCSources ==
    {<<Fields(1, 3, NULL), Fields(NULL, 1, 3), Fields(3, 1, 2)>>,
     <<Fields(2, 1, 1), Fields(2, NULL, NULL), Fields(3, 3, 2)>>,
     <<Fields(3, 3, 1), Fields(NULL, 2, NULL), Fields(2, 2, 2)>>}

-----------------------------------------------------------------------------

Columns1 == {Var(1), Coerced(1), Func(1), Var(TableOidAttr)}
Constants == {Const(2), CoercedConst(2), Const(NULL)}

\* One clause of every shape.
Shapes ==
    {OpExpr(o, l, r) : o \in Operators, l \in Columns1, r \in Constants}
    \cup {OpExpr(o, l, r) : o \in Operators, l \in Constants, r \in Columns1}
    \cup {OpExpr(o, Var(1), Var(3)) : o \in {"=", "<"}}
    \cup {OpExpr("<", Const(1), Const(2)), NullTest(1), NullTest(3)}

\* What stands next to it in the WHERE clause.
Beside == {{}, {OpExpr(">", Const(3), Var(3))}}

Filters ==
    {[clauses |-> {c} \cup d, target |-> t, pathkeys |-> <<>>, set |-> NoSet] :
        c \in Shapes, d \in Beside, t \in {{}, {3}, {WholeRow}}}

Key(members, cmptype, nulls_first) ==
    [volatile |-> FALSE, members |-> members, opfamily |-> "default",
     cmptype |-> cmptype, nulls_first |-> nulls_first]

This(e)  == [rel |-> "this", expr |-> e]
Other(e) == [rel |-> "other", expr |-> e]

FirstKeys ==
    {Key(<<This(Var(1))>>, c, nf) : c \in {"LT", "GT"}, nf \in BOOLEAN}
    \cup {Key(<<This(Func(1))>>, "LT", FALSE),
          Key(<<This(Coerced(1))>>, "LT", FALSE),
          Key(<<Other(Var(1)), This(Var(1))>>, "LT", FALSE),
          Key(<<Other(Var(1))>>, "LT", FALSE),
          Key(<<This(Var(1))>>, "EQ", FALSE),
          [Key(<<This(Var(1))>>, "LT", FALSE) EXCEPT !.opfamily = "other"],
          [Key(<<This(Var(1))>>, "LT", FALSE) EXCEPT !.volatile = TRUE]}

SecondKeys == {Key(<<This(Var(3))>>, "LT", nf) : nf \in BOOLEAN}

Equated ==
    {Key(<<This(Var(1)), This(Var(3))>>, "GT", FALSE),
     Key(<<This(Func(1)), This(Var(3))>>, "LT", FALSE)}

Orders ==
    {[clauses |-> cs, target |-> {1, 3}, pathkeys |-> pks, set |-> NoSet] :
        cs \in {{}, {OpExpr("<", Var(1), Const(2))}, {NullTest(1)}},
        pks \in {<<k>> : k \in FirstKeys}
                \cup {<<k1, k2>> : k1 \in FirstKeys, k2 \in SecondKeys}}
    \cup {[clauses |-> {OpExpr("=", k.members[1].expr, k.members[2].expr)},
           target |-> {3}, pathkeys |-> <<k>>, set |-> NoSet] : k \in Equated}

\* UPDATEs of one or both columns.
Updates ==
    {[clauses |-> {c}, target |-> {WholeRow}, pathkeys |-> <<>>, set |-> s] :
        c \in {OpExpr("<", Const(1), Var(1)), OpExpr("=", Func(1), Const(2))},
        s \in {[a \in {3} |-> e] : e \in {Const(NULL), CoercedConst(2), Var(1)}}
              \cup {[a \in {1, 3} |-> IF a = 1 THEN Const(2) ELSE e] :
                        e \in {Const(3), Func(1)}}}

MCQueries == Filters \cup Orders \cup Updates

\* One coerced column, for the run about coercions that change values.
MCCoercedQueries ==
    {[clauses |-> {OpExpr(o, Coerced(1), Const(2))}, target |-> {1},
      pathkeys |-> <<>>, set |-> NoSet] : o \in SupportedOperators}
=============================================================================
