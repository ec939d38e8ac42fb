------------------------------ MODULE Pushdown ------------------------------
(***************************************************************************)
(* What a query on a foreign table hands down to the FDW class and what it *)
(* leaves to the executor: recognising quals, needed columns and sort keys *)
(* at planning time, carrying them through fdw_private, giving them to     *)
(* execute() under the names the columns have then, and taking rows back.  *)
(*                                                                         *)
(* The class is external and keeps its contract (docs/FDW_API.md): it      *)
(* yields the rows that satisfy the quals, in the order of the sort keys,  *)
(* with the columns it was asked for and no others.  The properties        *)
(* compare the rows that leave the scan node with what the clauses of the  *)
(* query mean in SQL.                                                      *)
(***************************************************************************)
EXTENDS Integers, Sequences

CONSTANTS
    Natts,          \* number of attributes of the foreign table
    Dropped,        \* attributes that were dropped (attisdropped)
    Names,          \* local column names and names of remote fields
    NoName,         \* a column has no column_name option
    Values,         \* values that are not NULL
    NULL,
    Coerce,         \* what an implicit coercion of a column does to a value
    Apply,          \* what any other expression does to it
    TableOid,       \* the value of the system column tableoid
    Attnames,       \* namings of the columns
    Sources,        \* contents of the remote table
    Queries

Attnums == 1..Natts
Live    == Attnums \ Dropped

WholeRow     == 0       \* varattno of a whole-row reference
TableOidAttr == -6      \* TableOidAttributeNumber

\* Nodes of a clause or of SET: a column, a column under an implicit coercion, a
\* column in any other expression, a constant, and one under an implicit
\* coercion that the planner cannot compute beforehand.
Var(a)     == [node |-> "Var", attno |-> a]
Coerced(a) == [node |-> "Coerced", attno |-> a]
Func(a)    == [node |-> "Func", attno |-> a]
Const(v)   == [node |-> "Const", value |-> v]
CoercedConst(v) == [node |-> "CoercedConst", value |-> v]

Columnar == [node : {"Var", "Coerced", "Func"}, attno : Live \cup {TableOidAttr}]
Constant == [node : {"Const", "CoercedConst"}, value : Values \cup {NULL}]

\* "~~" stands for operators that have no commutator, "&&" for others that are
\* not in the list of the code.
Operators == {"=", "<>", "<", "<=", ">", ">=", "~~", "&&"}

OpExpr(o, l, r) == [node |-> "OpExpr", op |-> o, left |-> l, right |-> r]
NullTest(a)     == [node |-> "NullTest", attno |-> a]

Clause ==
    [node : {"OpExpr"}, op : Operators, left : Columnar \cup Constant,
     right : Columnar \cup Constant]
    \cup [node : {"NullTest"}, attno : Live]

\* A path key and its equivalence class.  The members are in the order of the
\* planner's list; those of "other" tables, or of children, are passed over.
Member  == [rel : {"this", "other"}, expr : Columnar]
PathKey == [volatile : BOOLEAN, members : Seq(Member),
            opfamily : {"default", "other"}, cmptype : {"LT", "GT", "EQ"},
            nulls_first : BOOLEAN]

AttrsOf(clause) ==
    IF clause.node = "NullTest" THEN {clause.attno}
    ELSE {x.attno : x \in {clause.left, clause.right} \ Constant}

\* set is what an UPDATE assigns; of any other statement it is NoSet.
NoSet == [a \in {} |-> NULL]

Query == [clauses : SUBSET Clause, target : SUBSET (Live \cup {WholeRow}),
          pathkeys : Seq(PathKey),
          set : UNION {[d -> Columnar \cup Constant] : d \in SUBSET Live}]

Mine(pathkey) ==
    {i \in DOMAIN pathkey.members : pathkey.members[i].rel = "this"}

\* External (the planner): columns of an ordering are in the target list or in
\* a clause, and columns share a class because a clause equates them.
WellFormedQuery(q) ==
    \A k \in DOMAIN q.pathkeys :
        LET pk == q.pathkeys[k]
        IN  /\ \A i \in Mine(pk) :
                  pk.members[i].expr.attno \in
                      q.target \cup UNION {AttrsOf(c) : c \in q.clauses}
            /\ \A i, j \in Mine(pk) :
                  i < j => OpExpr("=", pk.members[i].expr, pk.members[j].expr)
                               \in q.clauses

RemoteRow == [Names -> Values \cup {NULL}]

ASSUME PushdownAssumption ==
    /\ Natts \in Nat
    /\ Dropped \subseteq Attnums
    /\ NoName \notin Names
    /\ Values \subseteq Int
    /\ NULL \notin Values
    /\ Coerce \in [Values -> Values]
    /\ Apply \in [Values -> Values]
    /\ TableOid \in Values
    /\ Attnames \subseteq [Live -> Names]
    /\ \A f \in Attnames : \A a, b \in Live : a # b => f[a] # f[b]
    /\ Sources \subseteq Seq(RemoteRow)
    /\ \A q \in Queries : q \in Query /\ WellFormedQuery(q)

VARIABLES
    query,
    source,         \* the rows of the remote table
    attname,        \* attname of each live attribute
    column_name,    \* its column_name option
    phase,
    rel,            \* baserel->fdw_private
    paths,          \* the paths offered to the planner
    plan,           \* the ForeignScan node and the order its path claims
    iterator,       \* what the iterator has yet to yield
    out,            \* rows that have left the scan node
    cut,            \* ghost: the iterator yielded null
    direct          \* rows deleteWhere() or updateWhere() has changed, and how

catalogVars == <<attname, column_name>>
planVars    == <<rel, paths, plan>>
scanVars    == <<iterator, out, cut, direct>>
pushVars    == <<query, source, catalogVars, phase, planVars, scanVars>>

-----------------------------------------------------------------------------
(* What clauses and orderings mean in SQL *)

Compare(o, x, y) ==
    CASE o = "="  -> x = y
      [] o = "<>" -> x # y
      [] o = "<"  -> x < y
      [] o = "<=" -> x <= y
      [] o = ">"  -> x > y
      [] o = ">=" -> x >= y
      [] o = "~~" -> x = y + 1
      [] o = "&&" -> x + y = 4

\* NULL makes a comparison neither true nor false.
True(o, x, y) == x # NULL /\ y # NULL /\ Compare(o, x, y)

Image(f, v) == IF v = NULL THEN NULL ELSE f[v]

Attr(row, a) == IF a = TableOidAttr THEN TableOid ELSE row[a]

Eval(e, row) ==
    CASE e.node = "Var"     -> Attr(row, e.attno)
      [] e.node = "Coerced" -> Image(Coerce, Attr(row, e.attno))
      [] e.node = "Func"    -> Image(Apply, Attr(row, e.attno))
      [] e.node = "Const"   -> e.value
      [] e.node = "CoercedConst" -> Image(Coerce, e.value)

Holds(clause, row) ==
    IF clause.node = "NullTest" THEN row[clause.attno] = NULL
    ELSE True(clause.op, Eval(clause.left, row), Eval(clause.right, row))

\* x sorts strictly before y.
Before(x, y, desc, nulls_first) ==
    \/ x = NULL /\ y # NULL /\ nulls_first
    \/ x # NULL /\ y = NULL /\ ~nulls_first
    \/ x # NULL /\ y # NULL /\ (IF desc THEN x > y ELSE x < y)

\* Lexicographic: key(s, k) is the value of s under the k-th of n orderings.
Ordered(seq, n, key(_, _), desc(_), nulls_first(_)) ==
    \A i, j \in DOMAIN seq : i < j =>
        ~\E k \in 1..n :
            /\ Before(key(seq[j], k), key(seq[i], k), desc(k), nulls_first(k))
            /\ \A m \in 1..(k - 1) : key(seq[i], m) = key(seq[j], m)

-----------------------------------------------------------------------------
(* Quals *)

SupportedOperators == {"=", "<>", "<", "<=", ">", ">="}

\* External (pg_operator): get_commutator.
Commutator ==
    [o \in Operators |->
        CASE o = "<" -> ">" [] o = "<=" -> ">=" [] o = ">" -> "<"
          [] o = ">=" -> "<=" [] o = "~~" -> "none" [] OTHER -> o]

strip_implicit_coercions(e) ==
    CASE e.node = "Coerced"      -> Var(e.attno)
      [] e.node = "CoercedConst" -> Const(e.value)
      [] OTHER                   -> e

\* A faulty variant: a NULL constant passes.
FaultyNullQual(var, opname, cst) ==
    {q \in {[attnum |-> var.attno, opname |-> opname, value |-> cst.value]} :
        var.attno >= 1 /\ opname \in SupportedOperators}

\* At most one qual: var <opname> cst.
SimpleQual(var, opname, cst) ==
    {q \in {[attnum |-> var.attno, opname |-> opname, value |-> cst.value]} :
        /\ var.attno >= 1
        /\ cst.value # NULL
        /\ opname \in SupportedOperators}

\* A faulty variant: constant <op> column keeps its operator.
FaultySimpleQual(clause) ==
    IF clause.node # "OpExpr" THEN {}
    ELSE LET left  == strip_implicit_coercions(clause.left)
             right == strip_implicit_coercions(clause.right)
         IN  CASE left.node = "Var" /\ right.node = "Const"
                    -> SimpleQual(left, clause.op, right)
               [] right.node = "Var" /\ left.node = "Const"
                    -> SimpleQual(right, clause.op, left)
               [] OTHER -> {}

\* The qual a clause is recognised as, or none.
pljs_fdw_get_simple_qual(clause) ==
    IF clause.node # "OpExpr" THEN {}
    ELSE LET left  == strip_implicit_coercions(clause.left)
             right == strip_implicit_coercions(clause.right)
         IN  CASE left.node = "Var" /\ right.node = "Const"
                    -> SimpleQual(left, clause.op, right)
               [] right.node = "Var" /\ left.node = "Const"
                    -> SimpleQual(right, Commutator[clause.op], left)
               [] OTHER -> {}

\* Each qual with the clause (RestrictInfo) it stands for.
pljs_fdw_extract_pushable_quals(clauses) ==
    UNION {{[qual |-> q, rinfo |-> c] : q \in pljs_fdw_get_simple_qual(c)} :
               c \in clauses}

\* The triples of fdw_private, which drop the clause.
pljs_fdw_quals_to_plan_private(quals) == {q.qual : q \in quals}

pljs_fdw_quals_to_jsvalue(quals) ==
    {[column |-> attname[q.attnum], operator |-> q.opname, value |-> q.value] :
        q \in quals}

-----------------------------------------------------------------------------
(* Columns *)

\* A faulty variant: only the target list is looked at.
FaultyNeededAttrs(q) ==
    {a \in Live : a \in q.target \/ WholeRow \in q.target}

pljs_fdw_collect_needed_attrs(q) ==
    LET attrs_used == q.target \cup UNION {AttrsOf(c) : c \in q.clauses}
    IN  {a \in Live : a \in attrs_used \/ WholeRow \in attrs_used}

pljs_fdw_needed_attrs_to_jsvalue(attnums) == {attname[a] : a \in attnums}

\* {localName: remoteName} of the columns whose names differ.
pljs_fdw_column_map_to_jsvalue(attnums) ==
    LET mapped == {a \in attnums : column_name[a] \notin {NoName, attname[a]}}
    IN  [n \in {attname[a] : a \in mapped} |->
            column_name[CHOOSE a \in mapped : attname[a] = n]]

-----------------------------------------------------------------------------
(* Sort keys *)

\* The first member of this table decides, whatever expression it is.
FirstMine(pathkey) ==
    CHOOSE i \in Mine(pathkey) : \A j \in Mine(pathkey) : i <= j

Sortable(pathkey) ==
    /\ ~pathkey.volatile
    /\ Mine(pathkey) # {}
    /\ LET expr == pathkey.members[FirstMine(pathkey)].expr
       IN  expr.node = "Var" /\ expr.attno >= 1
    /\ pathkey.opfamily = "default"
    /\ pathkey.cmptype \in {"LT", "GT"}

Sortkey(pathkey) ==
    [attnum |-> pathkey.members[FirstMine(pathkey)].expr.attno,
     descending |-> pathkey.cmptype = "GT", nulls_first |-> pathkey.nulls_first]

\* A faulty variant: a path key that does not match is skipped.
FaultyMatchPathkeys(pathkeys) ==
    LET matching == SelectSeq(pathkeys, Sortable)
    IN  [k \in DOMAIN matching |-> Sortkey(matching[k])]

\* The longest prefix of sortable path keys.
pljs_fdw_match_pathkeys(pathkeys) ==
    LET prefix == {k \in DOMAIN pathkeys :
                      \A i \in 1..k : Sortable(pathkeys[i])}
    IN  [k \in prefix |-> Sortkey(pathkeys[k])]

Bit(b) == IF b THEN 1 ELSE 0

\* A flat list, three integers for each sort key.
pljs_fdw_sortkeys_to_plan_private(sortkeys) ==
    [i \in 1..(3 * Len(sortkeys)) |->
        LET sk == sortkeys[(i + 2) \div 3]
        IN  CASE i % 3 = 1 -> sk.attnum
              [] i % 3 = 2 -> Bit(sk.descending)
              [] i % 3 = 0 -> Bit(sk.nulls_first)]

pljs_fdw_sortkeys_to_jsvalue(private) ==
    [k \in 1..(Len(private) \div 3) |->
        [column |-> attname[private[3 * k - 2]],
         direction |-> IF private[3 * k - 1] # 0 THEN "desc" ELSE "asc",
         nullsFirst |-> private[3 * k] # 0]]

-----------------------------------------------------------------------------
(* The FDW class: external, from the contract of execute() *)

RemoteName(name, columnMap) ==
    IF name \in DOMAIN columnMap THEN columnMap[name] ELSE name

Satisfies(row, quals, columnMap) ==
    \A q \in quals :
        True(q.operator, row[RemoteName(q.column, columnMap)], q.value)

\* The sequences of row objects execute() may return.  from is a ghost: the
\* position of the row in the source.
Answers(args) ==
    LET rows == {i \in DOMAIN source :
                    Satisfies(source[i], args.quals, args.columnMap)}
        remote(i, k) ==
            source[i][RemoteName(args.sortkeys[k].column, args.columnMap)]
        desc(k) == args.sortkeys[k].direction = "desc"
        nulls_first(k) == args.sortkeys[k].nullsFirst
        object(i) == [n \in args.columns |->
                         source[i][RemoteName(n, args.columnMap)]]
    IN  {[k \in DOMAIN s |-> [from |-> s[k], row |-> object(s[k])]] :
            s \in {t \in UNION {[1..m -> rows] : m \in 0..Len(source)} :
                      /\ \A i \in rows : \E k \in DOMAIN t : t[k] = i
                      /\ \A j, k \in DOMAIN t : j # k => t[j] # t[k]
                      /\ Ordered(t, Len(args.sortkeys), remote, desc,
                                 nulls_first)}}

-----------------------------------------------------------------------------
(* Planning *)

NoRel  == [pushable_quals |-> {}, needed_attnums |-> {}]
NoPlan == [qual |-> {}, quals |-> {}, needed_attnums |-> {},
           sortkeys |-> <<>>, pathkeys |-> <<>>]

\* Without an estimate() method, or with one that returns a number.  The number
\* of rows only moves costs.
pljs_fdw_get_foreign_rel_size ==
    /\ phase = "new"
    /\ rel' = [pushable_quals |-> pljs_fdw_extract_pushable_quals(query.clauses),
               needed_attnums |-> pljs_fdw_collect_needed_attrs(query)]
    /\ phase' = "sized"
    /\ UNCHANGED <<query, source, catalogVars, paths, plan, scanVars>>

EstimateThrows ==
    /\ phase = "new"
    /\ phase' = "error"
    /\ UNCHANGED <<query, source, catalogVars, planVars, scanVars>>

\* A path without an order, and one for the order that can be claimed.
pljs_fdw_get_foreign_paths ==
    LET sortkeys == pljs_fdw_match_pathkeys(query.pathkeys)
        sorted   == [pathkeys |-> SubSeq(query.pathkeys, 1, Len(sortkeys)),
                     private  |-> pljs_fdw_sortkeys_to_plan_private(sortkeys)]
    IN  /\ phase = "sized"
        /\ paths' = {[pathkeys |-> <<>>, private |-> <<>>]}
                    \cup (IF sortkeys # <<>> THEN {sorted} ELSE {})
        /\ phase' = "pathed"
        /\ UNCHANGED <<query, source, catalogVars, rel, plan, scanVars>>

\* The clauses the executor evaluates on each row.
LocalClauses == query.clauses \ {q.rinfo : q \in rel.pushable_quals}

\* The planner has chosen a path.
pljs_fdw_get_foreign_plan(path) ==
    /\ phase = "pathed"
    /\ path \in paths
    /\ plan' = [qual |-> LocalClauses,
                quals |-> pljs_fdw_quals_to_plan_private(rel.pushable_quals),
                needed_attnums |-> rel.needed_attnums,
                sortkeys |-> path.private, pathkeys |-> path.pathkeys]
    /\ phase' = "planned"
    /\ UNCHANGED <<query, source, catalogVars, rel, paths, scanVars>>

\* External: a column is renamed or its column_name option set while a prepared
\* plan waits.  Bound: one such change.  Planning again would give the same plan,
\* which refers to columns by number.
AlterColumn(a, name, option) ==
    /\ phase = "planned"
    /\ \A b \in Live \ {a} : attname[b] # name
    /\ attname' = [attname EXCEPT ![a] = name]
    /\ column_name' = [column_name EXCEPT ![a] = option]
    /\ phase' = "altered"
    /\ UNCHANGED <<query, source, planVars, scanVars>>

-----------------------------------------------------------------------------
(* Execution *)

\* The arguments of execute(), under the names the columns have now.
ExecuteArgs ==
    [quals |-> pljs_fdw_quals_to_jsvalue(plan.quals),
     columns |-> pljs_fdw_needed_attrs_to_jsvalue(plan.needed_attnums),
     sortkeys |-> pljs_fdw_sortkeys_to_jsvalue(plan.sortkeys),
     columnMap |-> pljs_fdw_column_map_to_jsvalue(plan.needed_attnums)]

\* execute() is called: from BeginForeignScan, or again from ReScanForeignScan.
CallExecute ==
    /\ iterator' \in Answers(ExecuteArgs)
    /\ out' = <<>>
    /\ cut' = FALSE
    /\ phase' = "running"
    /\ UNCHANGED <<query, source, catalogVars, planVars, direct>>

pljs_fdw_begin_foreign_scan ==
    /\ phase \in {"planned", "altered"}
    /\ CallExecute

pljs_fdw_rescan_foreign_scan ==
    /\ phase \in {"running", "exhausted"}
    /\ CallExecute

\* execute(), next() or a direct modification throws.
ExecutionThrows ==
    /\ phase \in {"planned", "altered", "running", "exhausted"}
    /\ phase' = "error"
    /\ UNCHANGED <<query, source, catalogVars, planVars, scanVars>>

\* A faulty variant: rows are keyed by the names of remote fields.
FaultyApplyToSlot(row) ==
    [a \in Attnums |->
        IF a \notin Live THEN NULL
        ELSE LET n == IF column_name[a] # NoName THEN column_name[a]
                      ELSE attname[a]
             IN  IF n \in DOMAIN row THEN row[n] ELSE NULL]

\* A key the object does not have is left NULL.
pljs_fdw_apply_jsvalue_to_slot(row) ==
    [a \in Attnums |-> IF a \in Live /\ attname[a] \in DOMAIN row
                       THEN row[attname[a]] ELSE NULL]

\* next() yields a row, which the executor rechecks.
pljs_fdw_iterate_foreign_scan ==
    /\ phase = "running"
    /\ iterator # <<>>
    /\ LET slot == pljs_fdw_apply_jsvalue_to_slot(Head(iterator).row)
       IN  out' = IF \A c \in plan.qual : Holds(c, slot)
                  THEN Append(out, [from |-> Head(iterator).from, slot |-> slot])
                  ELSE out
    /\ iterator' = Tail(iterator)
    /\ UNCHANGED <<query, source, catalogVars, phase, planVars, cut, direct>>

\* next() is done: the slot stays empty and the scan ends.
IterateDone ==
    /\ phase = "running"
    /\ iterator = <<>>
    /\ phase' = "exhausted"
    /\ UNCHANGED <<query, source, catalogVars, planVars, scanVars>>

\* The iterator yields null or undefined, which leaves the slot empty as well.
IterateNull ==
    /\ phase = "running"
    /\ phase' = "exhausted"
    /\ cut' = TRUE
    /\ UNCHANGED <<query, source, catalogVars, planVars, iterator, out, direct>>

\* Nothing is left to recheck, so the whole statement becomes one call, which
\* is given quals and values, and no columnMap.
DirectModify(values) ==
    /\ phase \in {"planned", "altered"}
    /\ plan.qual = {}
    /\ direct' = [rows |-> {i \in DOMAIN source :
                               Satisfies(source[i],
                                         pljs_fdw_quals_to_jsvalue(plan.quals),
                                         <<>>)},
                  values |-> values]
    /\ phase' = "done"
    /\ UNCHANGED <<query, source, catalogVars, planVars, iterator, out, cut>>

\* DELETE with the same WHERE.
DirectDelete ==
    /\ query.set = NoSet
    /\ DirectModify(NoSet)

pljs_fdw_set_values_to_jsvalue(set_values) ==
    [n \in {attname[a] : a \in DOMAIN set_values} |->
        set_values[CHOOSE a \in DOMAIN set_values : attname[a] = n]]

\* UPDATE: every value assigned is a constant.
DirectUpdate ==
    LET expr(a) == strip_implicit_coercions(query.set[a])
    IN  /\ query.set # NoSet
        /\ \A a \in DOMAIN query.set : expr(a).node = "Const"
        /\ DirectModify(pljs_fdw_set_values_to_jsvalue(
                            [a \in DOMAIN query.set |-> expr(a).value]))

-----------------------------------------------------------------------------

PushInit ==
    /\ query \in Queries
    /\ source \in Sources
    /\ attname \in Attnames
    /\ column_name = [a \in Live |-> NoName]
    /\ phase = "new"
    /\ rel = NoRel
    /\ paths = {}
    /\ plan = NoPlan
    /\ iterator = <<>>
    /\ out = <<>>
    /\ cut = FALSE
    /\ direct = [rows |-> {}, values |-> NoSet]

PushNext ==
    \/ pljs_fdw_get_foreign_rel_size
    \/ EstimateThrows
    \/ pljs_fdw_get_foreign_paths
    \/ \E path \in paths : pljs_fdw_get_foreign_plan(path)
    \/ \E a \in Live, name \in Names, option \in Names \cup {NoName} :
          AlterColumn(a, name, option)
    \/ pljs_fdw_begin_foreign_scan
    \/ pljs_fdw_rescan_foreign_scan
    \/ ExecutionThrows
    \/ pljs_fdw_iterate_foreign_scan
    \/ IterateDone
    \/ IterateNull
    \/ DirectDelete
    \/ DirectUpdate

PushSpec == PushInit /\ [][PushNext]_pushVars

-----------------------------------------------------------------------------
(* Properties *)

Qual == [attnum : Live, opname : SupportedOperators, value : Values]

Slot == [Attnums -> Values \cup {NULL}]

\* What planning and the scan keep is well formed: in particular no qual has a
\* NULL constant or a column below 1 (pljs_fdw_get_simple_qual).
PushTypeOK ==
    /\ phase \in {"new", "sized", "pathed", "planned", "altered", "running",
                  "exhausted", "done", "error"}
    /\ attname \in [Live -> Names]
    /\ column_name \in [Live -> Names \cup {NoName}]
    /\ rel.pushable_quals \subseteq [qual : Qual, rinfo : query.clauses]
    /\ rel.needed_attnums \subseteq Live
    /\ plan.qual \subseteq query.clauses
    /\ plan.quals \subseteq Qual
    /\ plan.needed_attnums \subseteq Live
    /\ plan.sortkeys \in Seq(Nat)
    /\ \A k \in DOMAIN iterator : iterator[k].from \in DOMAIN source
    /\ \A k \in DOMAIN out : out[k].slot \in Slot
    /\ cut \in BOOLEAN
    /\ direct.rows \subseteq DOMAIN source
    /\ DOMAIN direct.values \subseteq Names

\* The remote field a column stands for, and the rows of the foreign table.
Field(a) == IF column_name[a] # NoName THEN column_name[a] ELSE attname[a]

LocalRow(i) == [a \in Attnums |-> IF a \in Live THEN source[i][Field(a)] ELSE NULL]

Matching ==
    {i \in DOMAIN source : \A c \in query.clauses : Holds(c, LocalRow(i))}

Visible == {a \in Live : a \in query.target \/ WholeRow \in query.target}

\* "A correctness contract": what is pushed down and what is rechecked make up
\* the whole WHERE clause, and pruning, renaming and column mapping lose no
\* value.  The rows that leave the scan are rows of the query's answer, each
\* once, with the values of their columns; when the class has yielded all its
\* rows (and did not end the scan by yielding null) none is missing.
ScanMatchesQuery ==
    /\ \A k \in DOMAIN out :
          /\ out[k].from \in Matching
          /\ \A a \in Visible : out[k].slot[a] = LocalRow(out[k].from)[a]
    /\ \A j, k \in DOMAIN out : j # k => out[j].from # out[k].from
    /\ phase = "exhausted" /\ ~cut
          => \A i \in Matching : \E k \in DOMAIN out : out[k].from = i

\* A path's order is "trusted, not verified": no Sort is added, so the rows that
\* leave the scan are in the order of the path keys the chosen path claims, as
\* the planner understands them: by any member of the class, under the path
\* key's own operator family.
ClaimedOrder ==
    LET key(row, k) ==
            LET pk == plan.pathkeys[k]
                v  == Eval(pk.members[CHOOSE i \in Mine(pk) : TRUE].expr, row.slot)
            IN  IF pk.opfamily = "default" THEN v ELSE Image(Apply, v)
        desc(k) == plan.pathkeys[k].cmptype = "GT"
        nulls_first(k) == plan.pathkeys[k].nulls_first
    IN  /\ \A k \in DOMAIN plan.pathkeys :
              Mine(plan.pathkeys[k]) # {} /\ ~plan.pathkeys[k].volatile
        /\ Ordered(out, Len(plan.pathkeys), key, desc, nulls_first)

\* execute() can do what it is asked with what it is given: every column a qual
\* or a sort key names is among the columns to return, and the column map has
\* the remote name of each that has one.
ArgumentsCovered ==
    phase \in {"planned", "altered", "running", "exhausted"} =>
        LET args  == ExecuteArgs
            named == {q.column : q \in args.quals}
                     \cup {args.sortkeys[k].column : k \in DOMAIN args.sortkeys}
        IN  /\ named \subseteq args.columns
            /\ \A a \in Live : attname[a] \in args.columns =>
                  RemoteName(attname[a], args.columnMap) = Field(a)

\* deleteWhere() and updateWhere() change the rows the WHERE clause means and
\* give each assigned column its value, and what they are not given keeps the
\* statement off this path, as long as columns go by their own names: unlike
\* execute() they are not told the names of remote fields.
DirectModifiesMatching ==
    phase = "done" /\ (\A a \in Live : Field(a) = attname[a])
        => /\ direct.rows = Matching
           /\ DOMAIN direct.values = {attname[a] : a \in DOMAIN query.set}
           /\ \A a \in DOMAIN query.set : \A i \in direct.rows :
                 direct.values[attname[a]] = Eval(query.set[a], LocalRow(i))
=============================================================================
