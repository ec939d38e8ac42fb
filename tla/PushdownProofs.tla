--------------------------- MODULE PushdownProofs ---------------------------
(***************************************************************************)
(* Proofs about Pushdown, for every table, naming of its columns, query    *)
(* and contents of the remote table.                                       *)
(***************************************************************************)
EXTENDS Pushdown, SequenceTheorems, WellFoundedInduction, TLAPS

-----------------------------------------------------------------------------
(* Sets of numbers *)

\* A set of natural numbers has a least one.
LEMMA LeastNat ==
    ASSUME NEW T, T \subseteq Nat, T # {}
    PROVE  \E x \in T : \A y \in T : x <= y
  <1>1. IsWellFoundedOn(OpToRel(<, Nat), Nat)
    BY NatLessThanWellFounded
  <1>2. PICK x \in T : \A y \in T : ~(<<y, x>> \in OpToRel(<, Nat))
    BY <1>1, WFMin
  <1>3. ASSUME NEW y \in T
        PROVE  x <= y
    <2>1. x \in Nat /\ y \in Nat
      OBVIOUS
    <2>2. ~(y < x)
      BY <1>2, <2>1 DEF OpToRel
    <2> QED BY <2>1, <2>2
  <1> QED BY <1>3

-----------------------------------------------------------------------------
(* Clauses *)

\* A node of a clause refers to a column or is a constant, not both.
LEMMA NodeFacts ==
    ASSUME NEW e \in Columnar \cup Constant
    PROVE  /\ e \in Columnar => /\ e.node \in {"Var", "Coerced", "Func"}
                                /\ e.attno \in Live \cup {TableOidAttr}
                                /\ e \notin Constant
           /\ e \in Constant => /\ e.node \in {"Const", "CoercedConst"}
                                /\ e.value \in Values \cup {NULL}
                                /\ e \notin Columnar
           /\ e.node \in {"Var", "Coerced", "Func"} => e \in Columnar
           /\ e.node \in {"Const", "CoercedConst"} => e \in Constant
  <1>1. e \in Columnar => /\ e.node \in {"Var", "Coerced", "Func"}
                          /\ e.attno \in Live \cup {TableOidAttr}
    BY DEF Columnar
  <1>2. e \in Constant => /\ e.node \in {"Const", "CoercedConst"}
                          /\ e.value \in Values \cup {NULL}
    BY DEF Constant
  <1> QED BY <1>1, <1>2

\* A clause is a NullTest or an OpExpr.
LEMMA ClauseFacts ==
    ASSUME NEW c \in Clause
    PROVE  \/ c.node = "NullTest" /\ c.attno \in Live /\ AttrsOf(c) = {c.attno}
           \/ /\ c.node = "OpExpr" /\ c.op \in Operators
              /\ c.left \in Columnar \cup Constant
              /\ c.right \in Columnar \cup Constant
              /\ c.left \in Columnar => c.left.attno \in AttrsOf(c)
              /\ c.right \in Columnar => c.right.attno \in AttrsOf(c)
  <1>1. CASE c \in [node : {"NullTest"}, attno : Live]
    BY <1>1 DEF AttrsOf
  <1>2. CASE c \in [node : {"OpExpr"}, op : Operators,
                    left : Columnar \cup Constant,
                    right : Columnar \cup Constant]
    <2>1. /\ c.node = "OpExpr" /\ c.op \in Operators
          /\ c.left \in Columnar \cup Constant /\ c.right \in Columnar \cup Constant
      BY <1>2
    <2>2. AttrsOf(c) = {x.attno : x \in {c.left, c.right} \ Constant}
      BY <2>1 DEF AttrsOf
    <2>3. /\ c.left \in Columnar => c.left.attno \in AttrsOf(c)
          /\ c.right \in Columnar => c.right.attno \in AttrsOf(c)
      BY <2>1, <2>2, NodeFacts
    <2> QED BY <2>1, <2>3
  <1> QED BY <1>1, <1>2 DEF Clause

\* The columns of a clause are columns of the table, or tableoid.
LEMMA AttrsType ==
    ASSUME NEW c \in Clause
    PROVE  AttrsOf(c) \subseteq Live \cup {TableOidAttr}
  <1>1. CASE c.node = "NullTest"
    BY <1>1, ClauseFacts
  <1>2. CASE c.node # "NullTest"
    <2>1. /\ c.left \in Columnar \cup Constant /\ c.right \in Columnar \cup Constant
      BY <1>2, ClauseFacts
    <2>2. AttrsOf(c) = {x.attno : x \in {c.left, c.right} \ Constant}
      BY <1>2 DEF AttrsOf
    <2>3. \A x \in {c.left, c.right} \ Constant :
              x.attno \in Live \cup {TableOidAttr}
      BY <2>1, NodeFacts
    <2> QED BY <2>2, <2>3
  <1> QED BY <1>1, <1>2

\* TableOidAttr is not the number of a column.
LEMMA LiveFacts ==
    /\ \A a \in Live : a \in Attnums /\ a \in Nat /\ a >= 1 /\ a # TableOidAttr
    /\ \A a \in Live \cup {TableOidAttr} : a \in Int /\ (a >= 1 => a \in Live)
  BY PushdownAssumption DEF Live, Attnums, TableOidAttr

\* An expression has the same value on rows that agree on its column.
LEMMA EvalAgree ==
    ASSUME NEW e \in Columnar \cup Constant, NEW r, NEW s,
           e \in Columnar /\ e.attno # TableOidAttr => r[e.attno] = s[e.attno]
    PROVE  Eval(e, r) = Eval(e, s)
  <1>1. CASE e \in Columnar
    <2>1. Attr(r, e.attno) = Attr(s, e.attno)
      BY <1>1 DEF Attr
    <2>2. e.node \in {"Var", "Coerced", "Func"}
      BY <1>1, NodeFacts
    <2> QED BY <2>1, <2>2 DEF Eval
  <1>2. CASE e \in Constant
    <2>1. e.node \in {"Const", "CoercedConst"}
      BY <1>2, NodeFacts
    <2> QED BY <2>1 DEF Eval
  <1> QED BY <1>1, <1>2

\* A clause holds of both or of none of two rows that agree on its columns.
LEMMA HoldsAgree ==
    ASSUME NEW c \in Clause, NEW r, NEW s,
           \A a \in AttrsOf(c) \cap Live : r[a] = s[a]
    PROVE  Holds(c, r) <=> Holds(c, s)
  <1>1. CASE c.node = "NullTest"
    <2>1. c.attno \in AttrsOf(c) \cap Live
      BY <1>1, ClauseFacts
    <2> QED BY <1>1, <2>1 DEF Holds
  <1>2. CASE c.node # "NullTest"
    <2>1. /\ c.left \in Columnar \cup Constant /\ c.right \in Columnar \cup Constant
          /\ c.left \in Columnar => c.left.attno \in AttrsOf(c)
          /\ c.right \in Columnar => c.right.attno \in AttrsOf(c)
      BY <1>2, ClauseFacts
    <2>2. Eval(c.left, r) = Eval(c.left, s)
      <3>1. ASSUME c.left \in Columnar, c.left.attno # TableOidAttr
            PROVE  r[c.left.attno] = s[c.left.attno]
        BY <2>1, <3>1, AttrsType
      <3> QED BY <2>1, <3>1, EvalAgree
    <2>3. Eval(c.right, r) = Eval(c.right, s)
      <3>1. ASSUME c.right \in Columnar, c.right.attno # TableOidAttr
            PROVE  r[c.right.attno] = s[c.right.attno]
        BY <2>1, <3>1, AttrsType
      <3> QED BY <2>1, <3>1, EvalAgree
    <2> QED BY <1>2, <2>2, <2>3 DEF Holds
  <1> QED BY <1>1, <1>2

\* Implicit coercions that change no value.
Lossless == \A v \in Values : Coerce[v] = v

\* Then strip_implicit_coercions keeps the value of an expression.
LEMMA StripKeeps ==
    ASSUME Lossless, NEW e \in Columnar \cup Constant, NEW row \in Slot
    PROVE  Eval(strip_implicit_coercions(e), row) = Eval(e, row)
  <1>1. \A v \in Values \cup {NULL} : Image(Coerce, v) = v
    BY DEF Lossless, Image
  <1>2. CASE e \in Columnar
    <2>1. e.node \in {"Var", "Coerced", "Func"} /\ e.attno \in Live \cup {TableOidAttr}
      BY <1>2, NodeFacts
    <2>2. Attr(row, e.attno) \in Values \cup {NULL}
      BY <2>1, PushdownAssumption, LiveFacts DEF Attr, Slot
    <2>3. CASE e.node = "Coerced"
      <3>1. strip_implicit_coercions(e) = Var(e.attno)
        BY <2>3 DEF strip_implicit_coercions
      <3>2. Eval(Var(e.attno), row) = Attr(row, e.attno)
        BY DEF Eval, Var
      <3>3. Eval(e, row) = Image(Coerce, Attr(row, e.attno))
        BY <2>3 DEF Eval
      <3> QED BY <1>1, <2>2, <3>1, <3>2, <3>3
    <2>4. CASE e.node # "Coerced"
      BY <2>1, <2>4 DEF strip_implicit_coercions
    <2> QED BY <2>3, <2>4
  <1>3. CASE e \in Constant
    <2>1. e.node \in {"Const", "CoercedConst"} /\ e.value \in Values \cup {NULL}
      BY <1>3, NodeFacts
    <2>2. CASE e.node = "CoercedConst"
      <3>1. strip_implicit_coercions(e) = Const(e.value)
        BY <2>2 DEF strip_implicit_coercions
      <3>2. Eval(Const(e.value), row) = e.value
        BY DEF Eval, Const
      <3>3. Eval(e, row) = Image(Coerce, e.value)
        BY <2>2 DEF Eval
      <3> QED BY <1>1, <2>1, <3>1, <3>2, <3>3
    <2>3. CASE e.node = "Const"
      BY <2>3 DEF strip_implicit_coercions
    <2> QED BY <2>1, <2>2, <2>3
  <1> QED BY <1>2, <1>3

\* The commutator of an operator that is pushed down turns it around.
LEMMA Commutes ==
    ASSUME NEW o \in Operators, Commutator[o] \in SupportedOperators,
           NEW x \in Values \cup {NULL}, NEW y \in Values \cup {NULL}
    PROVE  True(Commutator[o], x, y) <=> True(o, y, x)
  <1>1. CASE x = NULL \/ y = NULL
    BY <1>1 DEF True
  <1>2. CASE x # NULL /\ y # NULL
    <2>1. x \in Int /\ y \in Int
      BY <1>2, PushdownAssumption
    <2>2. o \in {"=", "<>", "<", "<=", ">", ">="}
      BY DEF Commutator, SupportedOperators, Operators
    <2>3. Compare(Commutator[o], x, y) <=> Compare(o, y, x)
      <3>1. CASE o = "="
        BY <3>1 DEF Compare, Commutator, Operators
      <3>2. CASE o = "<>"
        BY <3>2 DEF Compare, Commutator, Operators
      <3>3. CASE o = "<"
        <4>1. Commutator[o] = ">"
          BY <3>3 DEF Commutator, Operators
        <4> QED BY <2>1, <3>3, <4>1 DEF Compare
      <3>4. CASE o = "<="
        <4>1. Commutator[o] = ">="
          BY <3>4 DEF Commutator, Operators
        <4> QED BY <2>1, <3>4, <4>1 DEF Compare
      <3>5. CASE o = ">"
        <4>1. Commutator[o] = "<"
          BY <3>5 DEF Commutator, Operators
        <4> QED BY <2>1, <3>5, <4>1 DEF Compare
      <3>6. CASE o = ">="
        <4>1. Commutator[o] = "<="
          BY <3>6 DEF Commutator, Operators
        <4> QED BY <2>1, <3>6, <4>1 DEF Compare
      <3> QED BY <2>2, <3>1, <3>2, <3>3, <3>4, <3>5, <3>6
    <2> QED BY <1>2, <2>3 DEF True
  <1> QED BY <1>1, <1>2

\* What strip_implicit_coercions leaves of a node.
LEMMA StripFacts ==
    ASSUME NEW e \in Columnar \cup Constant
    PROVE  LET x == strip_implicit_coercions(e)
           IN  /\ x.node = "Var" => e \in Columnar /\ x.attno = e.attno
               /\ x.node = "Const" => e \in Constant /\ x.value = e.value
  <1>1. CASE e.node = "Coerced"
    <2>1. strip_implicit_coercions(e) = [node |-> "Var", attno |-> e.attno]
      BY <1>1 DEF strip_implicit_coercions, Var
    <2> QED BY <1>1, <2>1, NodeFacts
  <1>2. CASE e.node = "CoercedConst"
    <2>1. strip_implicit_coercions(e) = [node |-> "Const", value |-> e.value]
      BY <1>2 DEF strip_implicit_coercions, Const
    <2> QED BY <1>2, <2>1, NodeFacts
  <1>3. CASE e.node \notin {"Coerced", "CoercedConst"}
    <2>1. strip_implicit_coercions(e) = e
      BY <1>3 DEF strip_implicit_coercions
    <2> QED BY <2>1, NodeFacts
  <1> QED BY <1>1, <1>2, <1>3

\* A qual is that of an OpExpr with a column on one side, a constant that is not
\* NULL on the other, and an operator the code has in its list.
LEMMA QualShape ==
    ASSUME NEW c \in Clause, NEW q \in pljs_fdw_get_simple_qual(c)
    PROVE  LET left  == strip_implicit_coercions(c.left)
               right == strip_implicit_coercions(c.right)
           IN  /\ c.node = "OpExpr"
               /\ \/ /\ left.node = "Var" /\ right.node = "Const"
                     /\ q = [attnum |-> left.attno, opname |-> c.op,
                             value |-> right.value]
                  \/ /\ right.node = "Var" /\ left.node = "Const"
                     /\ q = [attnum |-> right.attno, opname |-> Commutator[c.op],
                             value |-> left.value]
               /\ q.attnum >= 1
               /\ q.value # NULL
               /\ q.opname \in SupportedOperators
  <1> DEFINE left  == strip_implicit_coercions(c.left)
             right == strip_implicit_coercions(c.right)
  <1>1. c.node = "OpExpr"
    BY DEF pljs_fdw_get_simple_qual
  <1>2. CASE left.node = "Var" /\ right.node = "Const"
    <2>1. q \in SimpleQual(left, c.op, right)
      BY <1>1, <1>2 DEF pljs_fdw_get_simple_qual
    <2>2. /\ q = [attnum |-> left.attno, opname |-> c.op, value |-> right.value]
          /\ left.attno >= 1 /\ right.value # NULL /\ c.op \in SupportedOperators
      BY <2>1 DEF SimpleQual
    <2> QED BY <1>1, <1>2, <2>2
  <1>3. CASE right.node = "Var" /\ left.node = "Const"
    <2>1. q \in SimpleQual(right, Commutator[c.op], left)
      BY <1>1, <1>3 DEF pljs_fdw_get_simple_qual
    <2>2. /\ q = [attnum |-> right.attno, opname |-> Commutator[c.op],
                  value |-> left.value]
          /\ right.attno >= 1 /\ left.value # NULL
          /\ Commutator[c.op] \in SupportedOperators
      BY <2>1 DEF SimpleQual
    <2> QED BY <1>1, <1>3, <2>2
  <1>4. CASE /\ ~(left.node = "Var" /\ right.node = "Const")
             /\ ~(right.node = "Var" /\ left.node = "Const")
    BY <1>1, <1>4 DEF pljs_fdw_get_simple_qual
  <1> QED BY <1>2, <1>3, <1>4

\* A qual is well formed, and its column is one of the clause's.
LEMMA QualType ==
    ASSUME NEW c \in Clause, NEW q \in pljs_fdw_get_simple_qual(c)
    PROVE  q \in Qual /\ q.attnum \in AttrsOf(c)
  <1> DEFINE left  == strip_implicit_coercions(c.left)
             right == strip_implicit_coercions(c.right)
  <1>1. /\ c.op \in Operators /\ c.left \in Columnar \cup Constant
        /\ c.right \in Columnar \cup Constant
        /\ c.left \in Columnar => c.left.attno \in AttrsOf(c)
        /\ c.right \in Columnar => c.right.attno \in AttrsOf(c)
    BY QualShape, ClauseFacts
  <1>2. q.attnum >= 1 /\ q.value # NULL /\ q.opname \in SupportedOperators
    BY QualShape
  <1>3. ASSUME NEW e \in Columnar \cup Constant, NEW d \in Columnar \cup Constant,
               NEW o, e \in Columnar => e.attno \in AttrsOf(c),
               strip_implicit_coercions(e).node = "Var",
               strip_implicit_coercions(d).node = "Const",
               q = [attnum |-> strip_implicit_coercions(e).attno, opname |-> o,
                    value |-> strip_implicit_coercions(d).value]
        PROVE  q \in Qual /\ q.attnum \in AttrsOf(c)
    <2>1. e \in Columnar /\ q.attnum = e.attno /\ d \in Constant /\ q.value = d.value
      BY <1>3, StripFacts
    <2>2. q.attnum \in Live
      BY <1>2, <2>1, NodeFacts, LiveFacts
    <2>3. q.value \in Values
      BY <1>2, <2>1, NodeFacts
    <2>4. q.opname = o
      BY <1>3
    <2> QED BY <1>2, <1>3, <2>1, <2>2, <2>3, <2>4 DEF Qual
  <1>4. CASE /\ left.node = "Var" /\ right.node = "Const"
             /\ q = [attnum |-> left.attno, opname |-> c.op,
                     value |-> right.value]
    BY <1>1, <1>3, <1>4
  <1>5. CASE /\ right.node = "Var" /\ left.node = "Const"
             /\ q = [attnum |-> right.attno, opname |-> Commutator[c.op],
                     value |-> left.value]
    BY <1>1, <1>3, <1>5
  <1> QED BY <1>4, <1>5, QualShape

\* A qual means the same as its clause, whichever side the column is on.
LEMMA QualMeans ==
    ASSUME Lossless, NEW c \in Clause, NEW q \in pljs_fdw_get_simple_qual(c),
           NEW row \in Slot
    PROVE  Holds(c, row) <=> True(q.opname, row[q.attnum], q.value)
  <1> DEFINE left  == strip_implicit_coercions(c.left)
             right == strip_implicit_coercions(c.right)
  <1>1. /\ c.node = "OpExpr" /\ c.op \in Operators
        /\ c.left \in Columnar \cup Constant /\ c.right \in Columnar \cup Constant
    BY QualShape, ClauseFacts
  <1>2. /\ q.attnum \in Live /\ q.attnum # TableOidAttr /\ q.value \in Values
        /\ row[q.attnum] \in Values \cup {NULL}
        /\ q.opname \in SupportedOperators
    BY QualType, LiveFacts DEF Qual, Slot
  <1>3. Holds(c, row) <=> True(c.op, Eval(left, row), Eval(right, row))
    BY <1>1, StripKeeps DEF Holds
  <1>4. ASSUME NEW e, e.node = "Var", e.attno = q.attnum
        PROVE  Eval(e, row) = row[q.attnum]
    BY <1>2, <1>4 DEF Eval, Attr
  <1>5. ASSUME NEW e, e.node = "Const", e.value = q.value
        PROVE  Eval(e, row) = q.value
    BY <1>5 DEF Eval
  <1>6. CASE /\ left.node = "Var" /\ right.node = "Const"
             /\ q = [attnum |-> left.attno, opname |-> c.op,
                     value |-> right.value]
    <2>1. left.attno = q.attnum /\ right.value = q.value /\ c.op = q.opname
      BY <1>6
    <2> HIDE DEF left, right
    <2>2. Eval(left, row) = row[q.attnum] /\ Eval(right, row) = q.value
      BY <1>4, <1>5, <1>6, <2>1
    <2> QED BY <1>3, <2>1, <2>2
  <1>7. CASE /\ right.node = "Var" /\ left.node = "Const"
             /\ q = [attnum |-> right.attno, opname |-> Commutator[c.op],
                     value |-> left.value]
    <2>1. right.attno = q.attnum /\ left.value = q.value /\ Commutator[c.op] = q.opname
      BY <1>7
    <2> HIDE DEF left, right
    <2>2. Eval(right, row) = row[q.attnum] /\ Eval(left, row) = q.value
      BY <1>4, <1>5, <1>7, <2>1
    <2>3. True(q.opname, row[q.attnum], q.value)
              <=> True(c.op, q.value, row[q.attnum])
      BY <1>1, <1>2, <2>1, Commutes
    <2> QED BY <1>3, <2>2, <2>3
  <1> QED BY <1>6, <1>7, QualShape

-----------------------------------------------------------------------------
(* The query, the table and what is pushed down *)

Quals  == pljs_fdw_extract_pushable_quals(query.clauses)
Needed == pljs_fdw_collect_needed_attrs(query)

\* The clauses that are handed to the class.
Pushed == {q.rinfo : q \in Quals}

Input == query \in Queries /\ source \in Sources

Catalog ==
    /\ attname \in [Live -> Names]
    /\ \A a, b \in Live : a # b => attname[a] # attname[b]
    /\ column_name \in [Live -> Names \cup {NoName}]

\* The parts of a query.
LEMMA QueryFacts ==
    ASSUME Input
    PROVE  /\ query.clauses \subseteq Clause
           /\ query.target \subseteq Live \cup {WholeRow}
           /\ query.pathkeys \in Seq(PathKey)
           /\ query.set \in UNION {[d -> Columnar \cup Constant] : d \in SUBSET Live}
           /\ WellFormedQuery(query)
  <1>1. query \in Query /\ WellFormedQuery(query)
    BY PushdownAssumption DEF Input
  <1> QED BY <1>1 DEF Query

\* Each qual stands for a clause of the query.
LEMMA QualsFacts ==
    ASSUME Input
    PROVE  /\ \A x \in Quals : /\ x.rinfo \in query.clauses
                               /\ x.qual \in pljs_fdw_get_simple_qual(x.rinfo)
                               /\ x = [qual |-> x.qual, rinfo |-> x.rinfo]
           /\ \A c \in query.clauses : \A q \in pljs_fdw_get_simple_qual(c) :
                 [qual |-> q, rinfo |-> c] \in Quals
           /\ Quals \subseteq [qual : Qual, rinfo : query.clauses]
           /\ Pushed \subseteq query.clauses
  <1>1. ASSUME NEW x \in Quals
        PROVE  /\ x.rinfo \in query.clauses
               /\ x.qual \in pljs_fdw_get_simple_qual(x.rinfo)
               /\ x = [qual |-> x.qual, rinfo |-> x.rinfo]
    <2>1. PICK c \in query.clauses : \E q \in pljs_fdw_get_simple_qual(c) :
              x = [qual |-> q, rinfo |-> c]
      BY DEF Quals, pljs_fdw_extract_pushable_quals
    <2> QED BY <2>1
  <1>2. ASSUME NEW c \in query.clauses, NEW q \in pljs_fdw_get_simple_qual(c)
        PROVE  [qual |-> q, rinfo |-> c] \in Quals
    BY DEF Quals, pljs_fdw_extract_pushable_quals
  <1>3. ASSUME NEW x \in Quals
        PROVE  x \in [qual : Qual, rinfo : query.clauses]
    <2>1. x.qual \in Qual
      BY <1>1, QualType, QueryFacts
    <2> QED BY <1>1, <2>1
  <1>4. Pushed \subseteq query.clauses
    BY <1>1 DEF Pushed
  <1> QED BY <1>1, <1>2, <1>3, <1>4

\* Every column of a clause, and every column of the result, is needed.
LEMMA NeededFacts ==
    ASSUME Input
    PROVE  /\ Needed \subseteq Live
           /\ Visible \subseteq Needed
           /\ \A c \in query.clauses : AttrsOf(c) \cap Live \subseteq Needed
           /\ \A a \in query.target : a \in Live => a \in Needed
  BY DEF Needed, pljs_fdw_collect_needed_attrs, Visible

\* The names of columns are their own.
LEMMA NamesKeepApart ==
    ASSUME Catalog, NEW N \in SUBSET Live, NEW a \in Live,
           attname[a] \in {attname[b] : b \in N}
    PROVE  a \in N
  BY DEF Catalog

\* The column map, with the name itself where it has none, is the remote name.
LEMMA RemoteNameIsField ==
    ASSUME Catalog, NEW N \in SUBSET Live, NEW a \in N
    PROVE  /\ RemoteName(attname[a], pljs_fdw_column_map_to_jsvalue(N)) = Field(a)
           /\ Field(a) \in Names
  <1> DEFINE mapped == {b \in N : column_name[b] \notin {NoName, attname[b]}}
             map    == [n \in {attname[b] : b \in mapped} |->
                           column_name[CHOOSE b \in mapped : attname[b] = n]]
  <1>1. pljs_fdw_column_map_to_jsvalue(N) = map
    BY DEF pljs_fdw_column_map_to_jsvalue
  <1>2. DOMAIN map = {attname[b] : b \in mapped}
    OBVIOUS
  <1>3. CASE a \in mapped
    <2>1. (CHOOSE b \in mapped : attname[b] = attname[a]) = a
      BY <1>3 DEF Catalog
    <2>2. map[attname[a]] = column_name[a]
      BY <1>3, <2>1
    <2>3. Field(a) = column_name[a] /\ Field(a) \in Names
      BY <1>3 DEF Field, Catalog
    <2> HIDE DEF map
    <2> QED BY <1>1, <1>2, <1>3, <2>2, <2>3 DEF RemoteName
  <1>4. CASE a \notin mapped
    <2>1. attname[a] \notin DOMAIN map
      BY <1>2, <1>4, NamesKeepApart
    <2>2. Field(a) = attname[a] /\ Field(a) \in Names
      BY <1>4 DEF Field, Catalog
    <2> HIDE DEF map
    <2> QED BY <1>1, <2>1, <2>2 DEF RemoteName
  <1> QED BY <1>3, <1>4

\* The rows of the foreign table are rows.
LEMMA LocalRowType ==
    ASSUME Input, Catalog, NEW i \in DOMAIN source
    PROVE  /\ LocalRow(i) \in Slot
           /\ \A a \in Live : LocalRow(i)[a] = source[i][Field(a)]
           /\ source[i] \in RemoteRow
  <1>1. source[i] \in RemoteRow
    <2>1. source \in Seq(RemoteRow)
      BY PushdownAssumption DEF Input
    <2> QED BY <2>1, ElementOfSeq, LenProperties
  <1>2. \A a \in Live : Field(a) \in Names /\ a \in Attnums
    BY RemoteNameIsField, LiveFacts
  <1>3. \A a \in Live : source[i][Field(a)] \in Values \cup {NULL}
    BY <1>1, <1>2 DEF RemoteRow
  <1> QED BY <1>1, <1>2, <1>3 DEF LocalRow, Slot

\* The row object the class makes of a row of its source.
Object(i, columns, columnMap) ==
    [n \in columns |-> source[i][RemoteName(n, columnMap)]]

\* The slot has the values of the columns that were asked for: neither pruning,
\* renaming nor the column map loses or confuses one.
LEMMA SlotIsRow ==
    ASSUME Input, Catalog, NEW N \in SUBSET Live, NEW i \in DOMAIN source
    PROVE  LET slot == pljs_fdw_apply_jsvalue_to_slot(
                           Object(i, pljs_fdw_needed_attrs_to_jsvalue(N),
                                  pljs_fdw_column_map_to_jsvalue(N)))
           IN  /\ slot \in Slot
               /\ \A a \in N : slot[a] = LocalRow(i)[a]
  <1> DEFINE columns == pljs_fdw_needed_attrs_to_jsvalue(N)
             map     == pljs_fdw_column_map_to_jsvalue(N)
             object  == Object(i, columns, map)
             slot    == pljs_fdw_apply_jsvalue_to_slot(object)
  <1>1. columns = {attname[a] : a \in N} /\ DOMAIN object = columns
    BY DEF pljs_fdw_needed_attrs_to_jsvalue, Object
  <1>2. \A a \in N : object[attname[a]] = source[i][Field(a)]
    BY <1>1, RemoteNameIsField DEF Object
  <1>3. \A a \in Live : LocalRow(i)[a] = source[i][Field(a)]
                        /\ LocalRow(i)[a] \in Values \cup {NULL}
    BY LocalRowType, LiveFacts DEF Slot
  <1> HIDE DEF columns, map, object
  <1>4. ASSUME NEW a \in N
        PROVE  slot[a] = LocalRow(i)[a]
    BY <1>1, <1>2, <1>3, LiveFacts DEF pljs_fdw_apply_jsvalue_to_slot
  <1>5. ASSUME NEW a \in Attnums
        PROVE  slot[a] \in Values \cup {NULL}
    <2>1. CASE a \in N
      BY <1>3, <1>4, <2>1
    <2>2. CASE a \notin N
      <3>1. ~(a \in Live /\ attname[a] \in DOMAIN object)
        BY <1>1, <2>2, NamesKeepApart
      <3> QED BY <3>1 DEF pljs_fdw_apply_jsvalue_to_slot
    <2> QED BY <2>1, <2>2
  <1>6. slot \in Slot
    BY <1>5 DEF Slot, pljs_fdw_apply_jsvalue_to_slot
  <1> QED BY <1>4, <1>6 DEF columns, map, object

\* Evaluating a clause of the query on the slot is evaluating it on the row.
LEMMA RecheckIsExact ==
    ASSUME Input, NEW c \in query.clauses, NEW slot, NEW i,
           \A a \in Needed : slot[a] = LocalRow(i)[a]
    PROVE  Holds(c, slot) <=> Holds(c, LocalRow(i))
  <1>1. c \in Clause /\ AttrsOf(c) \cap Live \subseteq Needed
    BY QueryFacts, NeededFacts
  <1> QED BY <1>1, HoldsAgree

\* The rows that satisfy the quals, under whatever map gives their columns the
\* names of their fields, are those of which the pushed clauses hold.
LEMMA QualsAreExact ==
    ASSUME Input, Catalog, Lossless, NEW i \in DOMAIN source, NEW map,
           \A a \in Needed : RemoteName(attname[a], map) = Field(a)
    PROVE  Satisfies(source[i],
                     pljs_fdw_quals_to_jsvalue(pljs_fdw_quals_to_plan_private(Quals)),
                     map)
               <=> \A c \in Pushed : Holds(c, LocalRow(i))
  <1> DEFINE js(q) == [column |-> attname[q.attnum], operator |-> q.opname,
                       value |-> q.value]
             means(q) == True(q.opname, LocalRow(i)[q.attnum], q.value)
             private == pljs_fdw_quals_to_plan_private(Quals)
  <1>1. private = {x.qual : x \in Quals}
    BY DEF pljs_fdw_quals_to_plan_private
  <1>2. pljs_fdw_quals_to_jsvalue(private) = {js(q) : q \in private}
    BY DEF pljs_fdw_quals_to_jsvalue
  <1>3. ASSUME NEW x \in Quals
        PROVE  /\ Holds(x.rinfo, LocalRow(i)) <=> means(x.qual)
               /\ source[i][RemoteName(attname[x.qual.attnum], map)]
                      = LocalRow(i)[x.qual.attnum]
    <2>1. /\ x.rinfo \in query.clauses /\ x.rinfo \in Clause
          /\ x.qual \in pljs_fdw_get_simple_qual(x.rinfo)
      BY QualsFacts, QueryFacts
    <2>2. x.qual.attnum \in AttrsOf(x.rinfo) /\ x.qual.attnum \in Live
      BY <2>1, QualType DEF Qual
    <2>3. x.qual.attnum \in Needed
      BY <2>1, <2>2, NeededFacts
    <2> QED BY <2>1, <2>2, <2>3, LocalRowType, QualMeans
  <1> HIDE DEF private
  <1>4. Satisfies(source[i], pljs_fdw_quals_to_jsvalue(private), map)
            <=> \A q \in private :
                    True(q.opname, source[i][RemoteName(attname[q.attnum], map)],
                         q.value)
    <2>1. \A q : js(q).column = attname[q.attnum] /\ js(q).operator = q.opname
                 /\ js(q).value = q.value
      OBVIOUS
    <2> HIDE DEF js
    <2> QED BY <1>2, <2>1 DEF Satisfies
  <1>5. (\A q \in private :
            True(q.opname, source[i][RemoteName(attname[q.attnum], map)], q.value))
            <=> \A x \in Quals : means(x.qual)
    BY <1>1, <1>3
  <1>6. (\A x \in Quals : means(x.qual))
            <=> \A c \in Pushed : Holds(c, LocalRow(i))
    BY <1>3 DEF Pushed
  <1> QED BY <1>4, <1>5, <1>6 DEF private

-----------------------------------------------------------------------------
(* Sort keys *)

SortKeys == pljs_fdw_match_pathkeys(query.pathkeys)

\* The parts of a path key.
LEMMA PathKeyFacts ==
    ASSUME NEW pk \in PathKey
    PROVE  /\ pk.volatile \in BOOLEAN /\ pk.nulls_first \in BOOLEAN
           /\ pk.members \in Seq(Member)
           /\ pk.opfamily \in {"default", "other"}
           /\ pk.cmptype \in {"LT", "GT", "EQ"}
           /\ Mine(pk) \subseteq Nat
           /\ \A i \in Mine(pk) : pk.members[i].expr \in Columnar
           /\ Mine(pk) # {} => /\ FirstMine(pk) \in Mine(pk)
                               /\ \A j \in Mine(pk) : FirstMine(pk) <= j
  <1>1. /\ pk.volatile \in BOOLEAN /\ pk.nulls_first \in BOOLEAN
        /\ pk.members \in Seq(Member)
        /\ pk.opfamily \in {"default", "other"}
        /\ pk.cmptype \in {"LT", "GT", "EQ"}
    BY DEF PathKey
  <1>2. /\ DOMAIN pk.members = 1..Len(pk.members) /\ Len(pk.members) \in Nat
        /\ \A i \in DOMAIN pk.members : pk.members[i] \in Member
    BY <1>1, ElementOfSeq, LenProperties
  <1>3. Mine(pk) \subseteq Nat
    BY <1>2 DEF Mine
  <1>4. \A i \in Mine(pk) : pk.members[i].expr \in Columnar
    BY <1>2 DEF Mine, Member
  <1>5. ASSUME Mine(pk) # {}
        PROVE  /\ FirstMine(pk) \in Mine(pk)
               /\ \A j \in Mine(pk) : FirstMine(pk) <= j
    <2>1. \E i \in Mine(pk) : \A j \in Mine(pk) : i <= j
      BY <1>3, <1>5, LeastNat
    <2> QED BY <2>1 DEF FirstMine
  <1> QED BY <1>1, <1>3, <1>4, <1>5

\* pljs_fdw_match_pathkeys returns the sort keys of a prefix of the path keys,
\* all of them sortable.
LEMMA MatchFacts ==
    ASSUME Input
    PROVE  /\ Len(SortKeys) \in 0..Len(query.pathkeys)
           /\ DOMAIN SortKeys = 1..Len(SortKeys)
           /\ \A k \in 1..Len(SortKeys) :
                 /\ k \in DOMAIN query.pathkeys
                 /\ query.pathkeys[k] \in PathKey
                 /\ Sortable(query.pathkeys[k])
                 /\ SortKeys[k] = Sortkey(query.pathkeys[k])
  <1> DEFINE pks    == query.pathkeys
             prefix == {k \in DOMAIN pks : \A i \in 1..k : Sortable(pks[i])}
             n      == Len(pks)
             T      == {k \in Nat : k >= 1 /\ k \notin prefix}
  <1>1. n \in Nat /\ DOMAIN pks = 1..n /\ \A k \in 1..n : pks[k] \in PathKey
    BY QueryFacts, LenProperties, ElementOfSeq
  <1>2. SortKeys = [k \in prefix |-> Sortkey(pks[k])]
    BY DEF SortKeys, pljs_fdw_match_pathkeys
  <1>3. n + 1 \in T
    BY <1>1
  <1>4. PICK x \in T : \A y \in T : x <= y
    BY <1>3, LeastNat
  <1>5. x - 1 \in 0..n
    BY <1>1, <1>3, <1>4
  <1>6. prefix = 1..(x - 1)
    <2>1. ASSUME NEW k \in 1..(x - 1)
          PROVE  k \in prefix
      <3>1. k \in Nat /\ k >= 1 /\ ~(x <= k)
        BY <1>4, <1>5
      <3> QED BY <1>4, <3>1
    <2>2. ASSUME NEW k \in prefix, k \notin 1..(x - 1)
          PROVE  FALSE
      <3>1. k \in 1..n /\ x \in Nat /\ x >= 1 /\ x <= k /\ x \notin prefix
        BY <1>1, <1>4, <2>2
      <3>2. x \in 1..n
        BY <1>1, <3>1
      <3>3. \A i \in 1..x : i \in 1..k
        BY <1>1, <3>1
      <3> QED BY <1>1, <3>1, <3>2, <3>3
    <2> QED BY <2>1, <2>2
  <1> DEFINE m == x - 1
  <1>7. m \in 0..n /\ prefix = 1..m
    BY <1>5, <1>6
  <1>8. \A k \in 1..m : k \in prefix /\ Sortable(pks[k])
    <2>1. ASSUME NEW k \in 1..m
          PROVE  Sortable(pks[k])
      <3>1. k \in prefix /\ k \in 1..k
        BY <1>7
      <3> QED BY <3>1
    <2> QED BY <1>7, <2>1
  <1> HIDE DEF m, prefix, T
  <1>9. SortKeys = [k \in 1..m |-> Sortkey(pks[k])]
    BY <1>2, <1>7
  <1>10. Len(SortKeys) = m /\ DOMAIN SortKeys = 1..m
    BY <1>7, <1>9
  <1>11. \A k \in 1..m : k \in DOMAIN pks /\ pks[k] \in PathKey
    BY <1>1, <1>7
  <1> QED BY <1>7, <1>8, <1>9, <1>10, <1>11

\* A sort key names a needed column.
LEMMA SortkeyFacts ==
    ASSUME Input, NEW k \in 1..Len(SortKeys)
    PROVE  /\ SortKeys[k].attnum \in Needed
           /\ SortKeys[k].attnum \in Nat
           /\ SortKeys[k].descending = (query.pathkeys[k].cmptype = "GT")
           /\ SortKeys[k].nulls_first = query.pathkeys[k].nulls_first
  <1> DEFINE pk == query.pathkeys[k]
             e  == pk.members[FirstMine(pk)].expr
  <1>1. /\ k \in DOMAIN query.pathkeys /\ pk \in PathKey /\ Sortable(pk)
        /\ SortKeys[k] = Sortkey(pk)
    BY MatchFacts
  <1>2. Mine(pk) # {} /\ e.node = "Var" /\ e.attno >= 1
    BY <1>1 DEF Sortable
  <1>3. FirstMine(pk) \in Mine(pk) /\ e \in Columnar
    BY <1>1, <1>2, PathKeyFacts
  <1>4. e.attno \in query.target \cup UNION {AttrsOf(c) : c \in query.clauses}
    BY <1>1, <1>3, QueryFacts DEF WellFormedQuery
  <1>5. e.attno \in Live /\ e.attno \in Nat
    BY <1>2, <1>3, NodeFacts, LiveFacts
  <1>6. e.attno \in Needed
    BY <1>4, <1>5, NeededFacts
  <1> QED BY <1>1, <1>5, <1>6 DEF Sortkey

\* The flat list of integers gives the sort keys back.
LEMMA PrivateRoundTrip ==
    ASSUME Input
    PROVE  LET private == pljs_fdw_sortkeys_to_plan_private(SortKeys)
               js == pljs_fdw_sortkeys_to_jsvalue(private)
           IN  /\ private \in Seq(Nat)
               /\ Len(js) = Len(SortKeys) /\ DOMAIN js = 1..Len(SortKeys)
               /\ \A k \in 1..Len(SortKeys) :
                     js[k] = [column |-> attname[SortKeys[k].attnum],
                              direction |-> IF SortKeys[k].descending
                                            THEN "desc" ELSE "asc",
                              nullsFirst |-> SortKeys[k].nulls_first]
  <1> DEFINE n == Len(SortKeys)
             private == pljs_fdw_sortkeys_to_plan_private(SortKeys)
             js == pljs_fdw_sortkeys_to_jsvalue(private)
  <1>1. n \in Nat
    BY MatchFacts, QueryFacts, LenProperties
  <1>2. \A k \in 1..n : /\ SortKeys[k].attnum \in Nat
                        /\ SortKeys[k].descending \in BOOLEAN
                        /\ SortKeys[k].nulls_first \in BOOLEAN
    BY SortkeyFacts, MatchFacts, PathKeyFacts
  <1> HIDE DEF n
  <1>3. private = [i \in 1..(3 * n) |->
                      LET sk == SortKeys[(i + 2) \div 3]
                      IN  CASE i % 3 = 1 -> sk.attnum
                            [] i % 3 = 2 -> Bit(sk.descending)
                            [] i % 3 = 0 -> Bit(sk.nulls_first)]
    BY DEF pljs_fdw_sortkeys_to_plan_private, n
  <1> HIDE DEF private
  <1>4. ASSUME NEW i \in 1..(3 * n)
        PROVE  private[i] \in Nat
    <2>1. (i + 2) \div 3 \in 1..n
      BY <1>1
    <2>2. i % 3 = 1 \/ i % 3 = 2 \/ i % 3 = 0
      BY <1>1
    <2> DEFINE sk == SortKeys[(i + 2) \div 3]
    <2>3. sk.attnum \in Nat /\ Bit(sk.descending) \in Nat /\ Bit(sk.nulls_first) \in Nat
      BY <1>2, <2>1 DEF Bit
    <2>4. private[i] = CASE i % 3 = 1 -> sk.attnum
                         [] i % 3 = 2 -> Bit(sk.descending)
                         [] i % 3 = 0 -> Bit(sk.nulls_first)
      BY <1>3
    <2> HIDE DEF sk
    <2> QED BY <2>2, <2>3, <2>4
  <1>5. Len(private) = 3 * n /\ private \in Seq(Nat)
    BY <1>1, <1>3, <1>4
  <1>6. ASSUME NEW k \in 1..n
        PROVE  /\ private[3 * k - 2] = SortKeys[k].attnum
               /\ private[3 * k - 1] = Bit(SortKeys[k].descending)
               /\ private[3 * k] = Bit(SortKeys[k].nulls_first)
    <2>1. /\ 3 * k - 2 \in 1..(3 * n) /\ 3 * k - 1 \in 1..(3 * n)
          /\ 3 * k \in 1..(3 * n)
      BY <1>1
    <2>2. /\ ((3 * k - 2) + 2) \div 3 = k /\ ((3 * k - 1) + 2) \div 3 = k
          /\ (3 * k + 2) \div 3 = k
      BY <1>1
    <2>3. (3 * k - 2) % 3 = 1 /\ (3 * k - 1) % 3 = 2 /\ (3 * k) % 3 = 0
      BY <1>1
    <2>4. private[3 * k - 2] = SortKeys[k].attnum
      <3> DEFINE i == 3 * k - 2
      <3>1. i \in 1..(3 * n) /\ (i + 2) \div 3 = k /\ i % 3 = 1
        BY <2>1, <2>2, <2>3
      <3> HIDE DEF i
      <3>2. private[i] = SortKeys[k].attnum
        BY <1>3, <3>1
      <3> QED BY <3>2 DEF i
    <2>5. private[3 * k - 1] = Bit(SortKeys[k].descending)
      BY <1>3, <2>1, <2>2, <2>3
    <2>6. private[3 * k] = Bit(SortKeys[k].nulls_first)
      BY <1>3, <2>1, <2>2, <2>3
    <2> QED BY <2>4, <2>5, <2>6
  <1>7. js = [k \in 1..n |->
                [column |-> attname[private[3 * k - 2]],
                 direction |-> IF private[3 * k - 1] # 0 THEN "desc" ELSE "asc",
                 nullsFirst |-> private[3 * k] # 0]]
    <2>1. Len(private) \div 3 = n
      BY <1>1, <1>5
    <2> QED BY <2>1 DEF pljs_fdw_sortkeys_to_jsvalue
  <1> HIDE DEF js
  <1>8. Len(js) = n /\ DOMAIN js = 1..n
    BY <1>1, <1>7
  <1>9. ASSUME NEW k \in 1..n
        PROVE  js[k] = [column |-> attname[SortKeys[k].attnum],
                        direction |-> IF SortKeys[k].descending
                                      THEN "desc" ELSE "asc",
                        nullsFirst |-> SortKeys[k].nulls_first]
    <2>1. /\ (private[3 * k - 1] # 0) = SortKeys[k].descending
          /\ (private[3 * k] # 0) = SortKeys[k].nulls_first
      BY <1>2, <1>6 DEF Bit
    <2> QED BY <1>6, <1>7, <2>1
  <1> QED BY <1>5, <1>8, <1>9 DEF n, private, js

-----------------------------------------------------------------------------
(* Planning *)

Unsorted == [pathkeys |-> <<>>, private |-> <<>>]
Sorted   == [pathkeys |-> SubSeq(query.pathkeys, 1, Len(SortKeys)),
             private  |-> pljs_fdw_sortkeys_to_plan_private(SortKeys)]

RelOf == [pushable_quals |-> Quals, needed_attnums |-> Needed]

PlanOf(path) ==
    [qual |-> query.clauses \ Pushed,
     quals |-> pljs_fdw_quals_to_plan_private(Quals),
     needed_attnums |-> Needed, sortkeys |-> path.private,
     pathkeys |-> path.pathkeys]

Plans == {PlanOf(Unsorted), PlanOf(Sorted)}

\* Once there is a plan it is one of two, which follow from the query alone.
Planning ==
    /\ phase \in {"new", "sized", "pathed", "planned", "altered", "running",
                  "exhausted", "done", "error"}
    /\ rel \in {NoRel, RelOf}
    /\ phase \in {"sized", "pathed"} => rel = RelOf
    /\ paths \subseteq {Unsorted, Sorted}
    /\ plan \in {NoPlan} \cup Plans
    /\ phase \in {"planned", "altered", "running", "exhausted", "done"}
          => plan \in Plans

PlanInv == Input /\ Catalog /\ Planning

\* What was said of the query follows it.
LEMMA QueryKept ==
    ASSUME UNCHANGED query
    PROVE  /\ Quals' = Quals /\ Needed' = Needed /\ Pushed' = Pushed
           /\ SortKeys' = SortKeys /\ Sorted' = Sorted /\ RelOf' = RelOf
           /\ Plans' = Plans
  <1>1. Quals' = Quals /\ Needed' = Needed
    BY DEF Quals, Needed, pljs_fdw_extract_pushable_quals,
           pljs_fdw_collect_needed_attrs
  <1>2. Pushed' = Pushed
    BY <1>1 DEF Pushed
  <1>3. SortKeys' = SortKeys
    BY DEF SortKeys, pljs_fdw_match_pathkeys
  <1>4. Sorted' = Sorted
    BY <1>3 DEF Sorted
  <1> QED BY <1>1, <1>2, <1>3, <1>4 DEF RelOf, Plans, PlanOf

\* The tables start with no plan.
LEMMA PlanStart == PushInit => PlanInv
  <1> SUFFICES ASSUME PushInit PROVE PlanInv
    OBVIOUS
  <1>1. Catalog
    BY PushdownAssumption DEF PushInit, Catalog
  <1> QED BY <1>1 DEF PushInit, PlanInv, Input, Planning

\* Steps that plan nothing and rename nothing keep the plan.
LEMMA PlanFrame ==
    ASSUME PlanInv, UNCHANGED <<query, source, catalogVars, planVars>>,
           \/ phase' = "error" \/ phase' = phase
           \/ /\ phase \in {"planned", "altered", "running", "exhausted"}
              /\ phase' \in {"running", "exhausted", "done"}
    PROVE  PlanInv'
  <1>1. Input' /\ Catalog'
    BY DEF PlanInv, Input, Catalog, catalogVars
  <1>2. UNCHANGED <<rel, paths, plan>>
    BY DEF planVars
  <1>3. Planning'
    BY <1>2, QueryKept DEF PlanInv, Planning
  <1> QED BY <1>1, <1>3 DEF PlanInv

\* Every step keeps the plan what it was.
LEMMA PlanStep == PlanInv /\ [PushNext]_pushVars => PlanInv'
  <1> SUFFICES ASSUME PlanInv, [PushNext]_pushVars PROVE PlanInv'
    OBVIOUS
  <1>1. CASE UNCHANGED pushVars
    BY <1>1, PlanFrame DEF pushVars
  <1>2. CASE pljs_fdw_get_foreign_rel_size
    <2>1. /\ UNCHANGED <<query, source, attname, column_name, paths, plan>>
          /\ rel' = RelOf /\ phase' = "sized"
      BY <1>2 DEF pljs_fdw_get_foreign_rel_size, RelOf, Quals, Needed, catalogVars
    <2> QED BY <2>1, QueryKept DEF PlanInv, Input, Catalog, Planning
  <1>3. CASE EstimateThrows
    BY <1>3, PlanFrame DEF EstimateThrows
  <1>4. CASE pljs_fdw_get_foreign_paths
    <2>1. /\ UNCHANGED <<query, source, attname, column_name, rel, plan>>
          /\ paths' \subseteq {Unsorted, Sorted} /\ phase = "sized"
          /\ phase' = "pathed"
      BY <1>4 DEF pljs_fdw_get_foreign_paths, SortKeys, Sorted, Unsorted, catalogVars
    <2> QED BY <2>1, QueryKept DEF PlanInv, Input, Catalog, Planning
  <1>5. CASE \E path \in paths : pljs_fdw_get_foreign_plan(path)
    <2>1. PICK path \in paths : pljs_fdw_get_foreign_plan(path)
      BY <1>5
    <2>2. /\ UNCHANGED <<query, source, attname, column_name, rel, paths>>
          /\ phase = "pathed" /\ phase' = "planned" /\ rel = RelOf
          /\ path \in {Unsorted, Sorted}
      BY <2>1 DEF pljs_fdw_get_foreign_plan, PlanInv, Planning, catalogVars
    <2>3. LocalClauses = query.clauses \ Pushed
      BY <2>2 DEF LocalClauses, Pushed, RelOf
    <2>4. plan' = PlanOf(path)
      BY <2>1, <2>2, <2>3 DEF pljs_fdw_get_foreign_plan, PlanOf, RelOf
    <2>5. plan' \in Plans
      BY <2>2, <2>4 DEF Plans
    <2> QED BY <2>2, <2>5, QueryKept DEF PlanInv, Input, Catalog, Planning
  <1>6. CASE \E a \in Live, name \in Names, option \in Names \cup {NoName} :
                 AlterColumn(a, name, option)
    <2>1. PICK a \in Live, name \in Names, option \in Names \cup {NoName} :
              AlterColumn(a, name, option)
      BY <1>6
    <2>2. Catalog'
      BY <2>1 DEF AlterColumn, PlanInv, Catalog
    <2>3. /\ UNCHANGED <<query, source, rel, paths, plan>>
          /\ phase = "planned" /\ phase' = "altered"
      BY <2>1 DEF AlterColumn, planVars
    <2> QED BY <2>2, <2>3, QueryKept DEF PlanInv, Input, Planning
  <1>7. CASE pljs_fdw_begin_foreign_scan \/ pljs_fdw_rescan_foreign_scan
    BY <1>7, PlanFrame DEF pljs_fdw_begin_foreign_scan,
                           pljs_fdw_rescan_foreign_scan, CallExecute
  <1>8. CASE ExecutionThrows
    BY <1>8, PlanFrame DEF ExecutionThrows
  <1>9. CASE pljs_fdw_iterate_foreign_scan \/ IterateDone \/ IterateNull
    BY <1>9, PlanFrame DEF pljs_fdw_iterate_foreign_scan, IterateDone, IterateNull
  <1>10. CASE DirectDelete \/ DirectUpdate
    BY <1>10, PlanFrame DEF DirectDelete, DirectUpdate, DirectModify
  <1> QED BY <1>1, <1>2, <1>3, <1>4, <1>5, <1>6, <1>7, <1>8, <1>9, <1>10
          DEF PushNext

\* The arguments of execute() follow from the plan and the names of columns.
LEMMA ArgsFacts ==
    ASSUME PlanInv, plan \in Plans
    PROVE  /\ plan.qual = query.clauses \ Pushed
           /\ plan.quals = pljs_fdw_quals_to_plan_private(Quals)
           /\ plan.needed_attnums = Needed
           /\ ExecuteArgs.quals = pljs_fdw_quals_to_jsvalue(plan.quals)
           /\ ExecuteArgs.columns = pljs_fdw_needed_attrs_to_jsvalue(Needed)
           /\ ExecuteArgs.columnMap = pljs_fdw_column_map_to_jsvalue(Needed)
           /\ ExecuteArgs.sortkeys = pljs_fdw_sortkeys_to_jsvalue(plan.sortkeys)
  <1>1. /\ plan.qual = query.clauses \ Pushed
        /\ plan.quals = pljs_fdw_quals_to_plan_private(Quals)
        /\ plan.needed_attnums = Needed
    BY DEF Plans, PlanOf
  <1> QED BY <1>1 DEF ExecuteArgs

\* The sort keys of a plan are none, or those of the path that claims an order.
LEMMA PlanSortkeys ==
    ASSUME PlanInv, plan \in Plans
    PROVE  /\ plan.sortkeys \in Seq(Nat)
           /\ \/ /\ plan.pathkeys = <<>>
                 /\ ExecuteArgs.sortkeys = <<>>
              \/ /\ plan.pathkeys = SubSeq(query.pathkeys, 1, Len(SortKeys))
                 /\ ExecuteArgs.sortkeys = pljs_fdw_sortkeys_to_jsvalue(
                        pljs_fdw_sortkeys_to_plan_private(SortKeys))
  <1>1. CASE plan = PlanOf(Unsorted)
    <2>1. plan.pathkeys = <<>> /\ plan.sortkeys = <<>>
      BY <1>1 DEF PlanOf, Unsorted
    <2>2. pljs_fdw_sortkeys_to_jsvalue(<<>>) = <<>>
      <3>1. Len(<<>>) \div 3 = 0
        BY EmptySeq
      <3> QED BY <3>1 DEF pljs_fdw_sortkeys_to_jsvalue
    <2> QED BY <2>1, <2>2, EmptySeq, ArgsFacts
  <1>2. CASE plan = PlanOf(Sorted)
    <2>1. /\ plan.pathkeys = SubSeq(query.pathkeys, 1, Len(SortKeys))
          /\ plan.sortkeys = pljs_fdw_sortkeys_to_plan_private(SortKeys)
      BY <1>2 DEF PlanOf, Sorted
    <2> QED BY <2>1, ArgsFacts, PrivateRoundTrip DEF PlanInv
  <1> QED BY <1>1, <1>2 DEF Plans

\* The names in the arguments of execute() are covered by them.
LEMMA PlanCovered == PlanInv => ArgumentsCovered
  <1> SUFFICES ASSUME PlanInv,
                      phase \in {"planned", "altered", "running", "exhausted"}
               PROVE  /\ {q.column : q \in ExecuteArgs.quals}
                             \cup {ExecuteArgs.sortkeys[k].column :
                                       k \in DOMAIN ExecuteArgs.sortkeys}
                             \subseteq ExecuteArgs.columns
                      /\ \A a \in Live : attname[a] \in ExecuteArgs.columns =>
                            RemoteName(attname[a], ExecuteArgs.columnMap) = Field(a)
    BY DEF ArgumentsCovered
  <1>1. plan \in Plans /\ Input /\ Catalog
    BY DEF PlanInv, Planning
  <1>2. ExecuteArgs.columns = {attname[a] : a \in Needed} /\ Needed \subseteq Live
    BY <1>1, ArgsFacts, NeededFacts DEF pljs_fdw_needed_attrs_to_jsvalue
  <1>3. ASSUME NEW q \in ExecuteArgs.quals
        PROVE  q.column \in ExecuteArgs.columns
    <2>1. PICK x \in Quals : q.column = attname[x.qual.attnum]
      BY <1>1, ArgsFacts DEF pljs_fdw_quals_to_jsvalue, pljs_fdw_quals_to_plan_private
    <2>2. /\ x.rinfo \in query.clauses /\ x.rinfo \in Clause
          /\ x.qual \in pljs_fdw_get_simple_qual(x.rinfo)
      BY <1>1, QualsFacts, QueryFacts
    <2>3. x.qual.attnum \in Needed
      BY <1>1, <2>2, QualType, NeededFacts DEF Qual
    <2> QED BY <1>2, <2>1, <2>3
  <1>4. ASSUME NEW k \in DOMAIN ExecuteArgs.sortkeys
        PROVE  ExecuteArgs.sortkeys[k].column \in ExecuteArgs.columns
    <2>1. CASE ExecuteArgs.sortkeys = <<>>
      BY <2>1, EmptySeq
    <2>2. CASE ExecuteArgs.sortkeys = pljs_fdw_sortkeys_to_jsvalue(
                   pljs_fdw_sortkeys_to_plan_private(SortKeys))
      <3>1. /\ k \in 1..Len(SortKeys)
            /\ ExecuteArgs.sortkeys[k].column = attname[SortKeys[k].attnum]
        BY <1>1, <2>2, PrivateRoundTrip
      <3>2. SortKeys[k].attnum \in Needed
        BY <1>1, <3>1, SortkeyFacts
      <3> QED BY <1>2, <3>1, <3>2
    <2> QED BY <1>1, <2>1, <2>2, PlanSortkeys
  <1>5. ASSUME NEW a \in Live, attname[a] \in ExecuteArgs.columns
        PROVE  RemoteName(attname[a], ExecuteArgs.columnMap) = Field(a)
    <2>1. a \in Needed
      BY <1>1, <1>2, <1>5, NamesKeepApart
    <2> QED BY <1>1, <1>2, <2>1, ArgsFacts, RemoteNameIsField
  <1> QED BY <1>3, <1>4, <1>5

\* execute() can do what it is asked with what it is given, for every query and
\* whatever was renamed since it was planned.
THEOREM ArgumentsAreCovered == PushSpec => []ArgumentsCovered
  BY PlanStart, PlanStep, PlanCovered, PTL DEF PushSpec

-----------------------------------------------------------------------------
(* The scan *)

\* Row objects, each with the position of its row in the source.
Items ==
    {[from |-> i, row |-> Object(i, ExecuteArgs.columns, ExecuteArgs.columnMap)] :
        i \in DOMAIN source}

RemoteKey(i, k) ==
    source[i][RemoteName(ExecuteArgs.sortkeys[k].column, ExecuteArgs.columnMap)]

\* The executor's recheck of a row object.
Passes(item) ==
    \A c \in plan.qual : Holds(c, pljs_fdw_apply_jsvalue_to_slot(item.row))

\* What execute() may return: every row that satisfies the quals, once, in order.
LEMMA AnswerFacts ==
    ASSUME Input, NEW s \in Answers(ExecuteArgs)
    PROVE  /\ s \in Seq(Items)
           /\ \A i \in 1..Len(s) :
                 /\ s[i].from \in DOMAIN source
                 /\ s[i].row = Object(s[i].from, ExecuteArgs.columns,
                                      ExecuteArgs.columnMap)
                 /\ Satisfies(source[s[i].from], ExecuteArgs.quals,
                              ExecuteArgs.columnMap)
           /\ \A i, j \in 1..Len(s) : i # j => s[i].from # s[j].from
           /\ \A f \in DOMAIN source :
                 Satisfies(source[f], ExecuteArgs.quals, ExecuteArgs.columnMap)
                     => \E i \in 1..Len(s) : s[i].from = f
           /\ \A i, j \in 1..Len(s) : i < j =>
                 ~\E k \in 1..Len(ExecuteArgs.sortkeys) :
                     /\ Before(RemoteKey(s[j].from, k), RemoteKey(s[i].from, k),
                               ExecuteArgs.sortkeys[k].direction = "desc",
                               ExecuteArgs.sortkeys[k].nullsFirst)
                     /\ \A l \in 1..(k - 1) :
                           RemoteKey(s[i].from, l) = RemoteKey(s[j].from, l)
  <1> DEFINE args == ExecuteArgs
  <1> HIDE DEF args
  <1> DEFINE rows == {i \in DOMAIN source :
                         Satisfies(source[i], args.quals, args.columnMap)}
             key(i, k) == source[i][RemoteName(args.sortkeys[k].column,
                                               args.columnMap)]
             object(i) == Object(i, args.columns, args.columnMap)
             whole(t) == \A i \in rows : \E k \in DOMAIN t : t[k] = i
             once(t)  == \A j, k \in DOMAIN t : j # k => t[j] # t[k]
             sorted(i, j) ==
                 ~\E k \in 1..Len(args.sortkeys) :
                     /\ Before(key(j, k), key(i, k),
                               args.sortkeys[k].direction = "desc",
                               args.sortkeys[k].nullsFirst)
                     /\ \A l \in 1..(k - 1) : key(i, l) = key(j, l)
             good(t) == /\ whole(t) /\ once(t)
                        /\ \A i, j \in DOMAIN t : i < j => sorted(t[i], t[j])
                        /\ s = [k \in DOMAIN t |->
                                   [from |-> t[k], row |-> object(t[k])]]
  <1>1. \E t \in UNION {[1..m -> rows] : m \in 0..Len(source)} : good(t)
    <2>1. s \in Answers(args)
      BY DEF args
    <2> QED BY <2>1 DEF Answers, Ordered, Object
  <1>2. PICK m \in 0..Len(source) : \E t \in [1..m -> rows] : good(t)
    <2> HIDE DEF good
    <2> QED BY <1>1
  <1>16. PICK t \in [1..m -> rows] : good(t)
    BY <1>2
  <1>3. m \in Nat
    <2>1. source \in Seq(RemoteRow)
      BY PushdownAssumption DEF Input
    <2>2. Len(source) \in Nat
      BY <2>1, LenProperties
    <2> QED BY <2>2
  <1>4. DOMAIN t = 1..m /\ \A k \in 1..m : t[k] \in rows
    OBVIOUS
  <1>5. s = [k \in 1..m |-> [from |-> t[k], row |-> object(t[k])]]
    BY <1>16, <1>4
  <1>6. \A k \in 1..m : s[k] \in Items
    BY <1>4, <1>5 DEF Items, args
  <1>7. Len(s) = m /\ s \in Seq(Items)
    BY <1>3, <1>5, <1>6
  <1>8. \A k \in 1..m : s[k].from = t[k] /\ s[k].row = object(t[k])
    BY <1>5
  <1> HIDE DEF whole, once, sorted
  <1>9. /\ whole(t) /\ once(t)
        /\ \A i, j \in 1..m : i < j => sorted(t[i], t[j])
    BY <1>4, <1>16
  <1>10. \A i \in 1..m : /\ s[i].from \in DOMAIN source
                         /\ s[i].row = Object(s[i].from, args.columns, args.columnMap)
                         /\ Satisfies(source[s[i].from], args.quals, args.columnMap)
    BY <1>4, <1>8
  <1>11. \A i, j \in 1..m : i # j => s[i].from # s[j].from
    <2>1. \A i, j \in 1..m : i # j => t[i] # t[j]
      BY <1>4, <1>9 DEF once
    <2> QED BY <1>8, <2>1
  <1>12. \A f \in DOMAIN source :
             Satisfies(source[f], args.quals, args.columnMap)
                 => \E i \in 1..m : s[i].from = f
    BY <1>4, <1>8, <1>9 DEF whole
  <1>13. \A i, j \in 1..m : i < j => sorted(s[i].from, s[j].from)
    BY <1>8, <1>9
  <1> QED BY <1>7, <1>10, <1>11, <1>12, <1>13 DEF args, RemoteKey, sorted

\* The first k of the rows s have been yielded; out holds those that passed the
\* recheck, pos tells where they were.
ScanAt(s, k, pos) ==
    /\ s \in Answers(ExecuteArgs)
    /\ k \in 0..Len(s)
    /\ iterator \in Seq(Items)
    /\ Len(iterator) = Len(s) - k
    /\ \A j \in 1..Len(iterator) : iterator[j] = s[k + j]
    /\ out \in Seq([from : DOMAIN source, slot : Slot])
    /\ pos \in [1..Len(out) -> 1..k]
    /\ \A i, j \in 1..Len(out) : i < j => pos[i] < pos[j]
    /\ \A j \in 1..Len(out) :
          /\ out[j] = [from |-> s[pos[j]].from,
                       slot |-> pljs_fdw_apply_jsvalue_to_slot(s[pos[j]].row)]
          /\ Passes(s[pos[j]])
    /\ \A i \in 1..k : Passes(s[i]) => \E j \in 1..Len(out) : pos[j] = i

\* Either nothing was scanned, or the scan is somewhere in an answer; a scan
\* that ended on its own has reached the end.
Scanning ==
    \/ /\ iterator = <<>> /\ out = <<>>
       /\ phase \notin {"running", "exhausted"}
    \/ /\ phase \in {"running", "exhausted", "error"}
       /\ plan \in Plans
       /\ \E s, k, pos : /\ ScanAt(s, k, pos)
                         /\ phase = "exhausted" /\ ~cut => iterator = <<>>

\* Slots of items are rows that agree with the source on the needed columns.
LEMMA ItemFacts ==
    ASSUME PlanInv, plan \in Plans, NEW f \in DOMAIN source
    PROVE  LET slot == pljs_fdw_apply_jsvalue_to_slot(
                           Object(f, ExecuteArgs.columns, ExecuteArgs.columnMap))
           IN  /\ slot \in Slot
               /\ \A a \in Needed : slot[a] = LocalRow(f)[a]
  <1>1. Input /\ Catalog /\ Needed \in SUBSET Live
    BY NeededFacts DEF PlanInv
  <1> QED BY <1>1, ArgsFacts, SlotIsRow

\* The scan reads the query, the source, names and the plan and changes none.
LEMMA ScanFrame ==
    ASSUME UNCHANGED <<query, source, attname, column_name, plan>>
    PROVE  /\ ExecuteArgs' = ExecuteArgs
           /\ Items' = Items
           /\ Answers(ExecuteArgs)' = Answers(ExecuteArgs)
           /\ \A x : Passes(x)' <=> Passes(x)
           /\ \A r : pljs_fdw_apply_jsvalue_to_slot(r)'
                         = pljs_fdw_apply_jsvalue_to_slot(r)
  <1>1. ExecuteArgs' = ExecuteArgs
    BY DEF ExecuteArgs, pljs_fdw_quals_to_jsvalue, pljs_fdw_needed_attrs_to_jsvalue,
           pljs_fdw_sortkeys_to_jsvalue, pljs_fdw_column_map_to_jsvalue
  <1>2. Items' = Items
    BY <1>1 DEF Items, Object
  <1>3. Answers(ExecuteArgs)' = Answers(ExecuteArgs)
    BY DEF Answers, Ordered, ExecuteArgs, pljs_fdw_quals_to_jsvalue,
           pljs_fdw_needed_attrs_to_jsvalue, pljs_fdw_sortkeys_to_jsvalue,
           pljs_fdw_column_map_to_jsvalue
  <1>4. ASSUME NEW r
        PROVE  pljs_fdw_apply_jsvalue_to_slot(r)'
                   = pljs_fdw_apply_jsvalue_to_slot(r)
    BY DEF pljs_fdw_apply_jsvalue_to_slot
  <1>5. ASSUME NEW x
        PROVE  Passes(x)' <=> Passes(x)
    BY <1>4 DEF Passes
  <1> QED BY <1>1, <1>2, <1>3, <1>4, <1>5

\* A step that leaves the scan alone leaves it where it was.
LEMMA ScanStays ==
    ASSUME UNCHANGED <<query, source, attname, column_name, plan, iterator, out>>,
           NEW s, NEW k, NEW pos, ScanAt(s, k, pos)
    PROVE  ScanAt(s, k, pos)'
  <1>1. UNCHANGED <<query, source, attname, column_name, plan>>
    OBVIOUS
  <1> QED BY <1>1, ScanFrame DEF ScanAt

\* execute() is called and nothing was yielded yet.
LEMMA ExecuteStep ==
    ASSUME PlanInv, plan \in Plans, CallExecute
    PROVE  Scanning'
  <1>1. /\ iterator' \in Answers(ExecuteArgs) /\ out' = <<>> /\ phase' = "running"
        /\ UNCHANGED <<query, source, attname, column_name, plan>>
    BY DEF CallExecute, catalogVars, planVars
  <1>2. PICK s : s = iterator'
    OBVIOUS
  <1>3. PICK pos : pos = [j \in 1..0 |-> 0]
    OBVIOUS
  <1>4. s \in Answers(ExecuteArgs) /\ s \in Seq(Items) /\ Len(s) \in Nat
    BY <1>1, <1>2, AnswerFacts, LenProperties DEF PlanInv
  <1>5. s \in Answers(ExecuteArgs)' /\ s \in Seq(Items')
    BY <1>1, <1>4, ScanFrame
  <1>6. Len(out') = 0 /\ out' \in Seq([from : DOMAIN source', slot : Slot])
    BY <1>1, EmptySeq
  <1>7. ScanAt(s, 0, pos)'
    <2>1. 0 \in 0..Len(s) /\ Len(s) = Len(s) - 0
      BY <1>4
    <2>2. \A j \in 1..Len(s) : s[j] = s[0 + j]
      BY <1>4
    <2>3. 1..Len(out') = {} /\ 1..0 = {}
      BY <1>6
    <2>4. pos \in [1..Len(out') -> 1..0]
      BY <1>3, <2>3
    <2> QED BY <1>2, <1>5, <1>6, <2>1, <2>2, <2>3, <2>4 DEF ScanAt
  <1>8. plan' \in Plans'
    BY <1>1, QueryKept
  <1> QED BY <1>1, <1>7, <1>8 DEF Scanning

\* A row is yielded, rechecked, and leaves the scan or not.
LEMMA YieldStep ==
    ASSUME PlanInv, plan \in Plans, pljs_fdw_iterate_foreign_scan,
           NEW s, NEW k, NEW pos, ScanAt(s, k, pos)
    PROVE  \E q : ScanAt(s, k + 1, q)'
  <1> DEFINE x    == Head(iterator)
             slot == pljs_fdw_apply_jsvalue_to_slot(x.row)
             item == [from |-> x.from, slot |-> slot]
             n    == Len(out)
  <1>1. /\ iterator # <<>> /\ iterator' = Tail(iterator)
        /\ out' = IF Passes(x) THEN Append(out, item) ELSE out
        /\ UNCHANGED <<query, source, attname, column_name, plan>>
    BY DEF pljs_fdw_iterate_foreign_scan, catalogVars, planVars, Passes
  <1>2. /\ s \in Answers(ExecuteArgs) /\ k \in 0..Len(s) /\ iterator \in Seq(Items)
        /\ Len(iterator) = Len(s) - k
        /\ \A j \in 1..Len(iterator) : iterator[j] = s[k + j]
        /\ out \in Seq([from : DOMAIN source, slot : Slot])
        /\ pos \in [1..n -> 1..k]
        /\ \A i, j \in 1..n : i < j => pos[i] < pos[j]
        /\ \A j \in 1..n :
              /\ out[j] = [from |-> s[pos[j]].from,
                           slot |-> pljs_fdw_apply_jsvalue_to_slot(s[pos[j]].row)]
              /\ Passes(s[pos[j]])
        /\ \A i \in 1..k : Passes(s[i]) => \E j \in 1..n : pos[j] = i
    BY DEF ScanAt
  <1>3. s \in Seq(Items) /\ Len(s) \in Nat /\ Len(iterator) \in Nat /\ n \in Nat
    BY <1>2, AnswerFacts, LenProperties DEF PlanInv
  <1>4. /\ Len(iterator) # 0 /\ 1 \in 1..Len(iterator)
        /\ k + 1 \in 1..Len(s) /\ k + 1 \in 0..Len(s) /\ k \in Nat
    BY <1>1, <1>2, <1>3, EmptySeq
  <1>5. x = s[k + 1]
    <2>1. x = iterator[1]
      BY <1>1, <1>2
    <2> QED BY <1>2, <1>4, <2>1
  <1>6. item \in [from : DOMAIN source, slot : Slot]
    <2>1. /\ x.from \in DOMAIN source
          /\ x.row = Object(x.from, ExecuteArgs.columns, ExecuteArgs.columnMap)
      BY <1>2, <1>4, <1>5, AnswerFacts DEF PlanInv
    <2>2. slot \in Slot
      BY <2>1, ItemFacts
    <2> QED BY <2>1, <2>2
  <1>7. /\ iterator' \in Seq(Items) /\ Len(iterator') = Len(s) - (k + 1)
        /\ \A j \in 1..Len(iterator') : iterator'[j] = s[(k + 1) + j]
    <2>1. /\ iterator' \in Seq(Items) /\ Len(iterator') = Len(iterator) - 1
          /\ \A j \in 1..Len(iterator') : iterator'[j] = iterator[j + 1]
      BY <1>1, <1>2, HeadTailProperties
    <2>2. ASSUME NEW j \in 1..Len(iterator')
          PROVE  iterator'[j] = s[(k + 1) + j]
      <3>1. j + 1 \in 1..Len(iterator) /\ k + (j + 1) = (k + 1) + j
        BY <1>3, <1>4, <2>1
      <3> QED BY <1>2, <2>1, <3>1
    <2> QED BY <1>2, <1>3, <1>4, <2>1, <2>2
  <1> HIDE DEF item
  <1>8. CASE ~Passes(x)
    <2>1. out' = out
      BY <1>1, <1>8
    <2>2. pos \in [1..n -> 1..(k + 1)]
      <3>1. \A j \in 1..n : pos[j] \in 1..(k + 1)
        <4>1. \A p \in 1..k : p \in 1..(k + 1)
          BY <1>4
        <4> QED BY <1>2, <4>1
      <3> QED BY <1>2, <3>1
    <2>3. ASSUME NEW i \in 1..(k + 1), Passes(s[i])
          PROVE  \E j \in 1..n : pos[j] = i
      <3>1. i # k + 1
        BY <1>5, <1>8, <2>3
      <3>2. i \in 1..k
        BY <1>4, <3>1
      <3> QED BY <1>2, <2>3, <3>2
    <2>4. ScanAt(s, k + 1, pos)'
      BY <1>1, <1>2, <1>4, <1>7, <2>1, <2>2, <2>3, ScanFrame DEF ScanAt
    <2> QED BY <2>4
  <1>9. CASE Passes(x)
    <2>10. PICK q : q = [j \in 1..(n + 1) |-> IF j = n + 1 THEN k + 1 ELSE pos[j]]
      OBVIOUS
    <2>1. /\ out' \in Seq([from : DOMAIN source, slot : Slot]) /\ Len(out') = n + 1
          /\ \A j \in 1..n : out'[j] = out[j]
          /\ out'[n + 1] = item
      BY <1>1, <1>2, <1>6, <1>9, AppendProperties
    <2>2. \A j \in 1..n : j \in 1..(n + 1) /\ j # n + 1 /\ pos[j] \in 1..k
      <3>1. \A j \in 1..n : pos[j] \in 1..k
        BY <1>2
      <3>2. \A j \in 1..n : j \in 1..(n + 1) /\ j # n + 1
        BY <1>3
      <3> QED BY <3>1, <3>2
    <2>3. n + 1 \in 1..(n + 1) /\ \A j \in 1..(n + 1) : j = n + 1 \/ j \in 1..n
      BY <1>3
    <2>4. q[n + 1] = k + 1 /\ \A j \in 1..n : q[j] = pos[j]
      BY <2>2, <2>3, <2>10
    <2>5. q \in [1..(n + 1) -> 1..(k + 1)]
      <3>1. ASSUME NEW j \in 1..(n + 1)
            PROVE  q[j] \in 1..(k + 1)
        <4>1. k + 1 \in 1..(k + 1) /\ \A p \in 1..k : p \in 1..(k + 1)
          BY <1>4
        <4> QED BY <2>2, <2>3, <2>4, <4>1
      <3> QED BY <2>10, <3>1
    <2>6. ASSUME NEW i \in 1..(n + 1), NEW j \in 1..(n + 1), i < j
          PROVE  q[i] < q[j]
      <3>1. i \in 1..n
        BY <1>3, <2>6
      <3>2. CASE j = n + 1
        BY <1>4, <2>2, <2>4, <3>1, <3>2
      <3>3. CASE j \in 1..n
        BY <1>2, <2>4, <2>6, <3>1, <3>3
      <3> QED BY <2>3, <3>2, <3>3
    <2>7. ASSUME NEW j \in 1..(n + 1)
          PROVE  /\ out'[j] = [from |-> s[q[j]].from,
                               slot |-> pljs_fdw_apply_jsvalue_to_slot(s[q[j]].row)]
                 /\ Passes(s[q[j]])
      <3>1. CASE j = n + 1
        BY <1>5, <1>9, <2>1, <2>4, <3>1 DEF item
      <3>2. CASE j \in 1..n
        BY <1>2, <2>1, <2>4, <3>2
      <3> QED BY <2>3, <3>1, <3>2
    <2>8. ASSUME NEW i \in 1..(k + 1), Passes(s[i])
          PROVE  \E j \in 1..(n + 1) : q[j] = i
      <3>1. CASE i = k + 1
        BY <2>3, <2>4, <3>1
      <3>2. CASE i # k + 1
        <4>1. i \in 1..k
          BY <1>4, <3>2
        <4> QED BY <1>2, <2>2, <2>4, <2>8, <4>1
      <3> QED BY <3>1, <3>2
    <2>9. ScanAt(s, k + 1, q)'
      <3>1. /\ s \in Answers(ExecuteArgs)' /\ iterator' \in Seq(Items')
            /\ out' \in Seq([from : DOMAIN source', slot : Slot])
        BY <1>1, <1>2, <1>7, <2>1, ScanFrame
      <3>2. \A j \in 1..Len(out') :
                /\ out'[j] = [from |-> s[q[j]].from,
                              slot |-> pljs_fdw_apply_jsvalue_to_slot(s[q[j]].row)']
                /\ Passes(s[q[j]])'
        BY <1>1, <2>1, <2>7, ScanFrame
      <3>3. \A i \in 1..(k + 1) : Passes(s[i])' => \E j \in 1..Len(out') : q[j] = i
        BY <1>1, <2>1, <2>8, ScanFrame
      <3> QED BY <1>4, <1>7, <2>1, <2>5, <2>6, <3>1, <3>2, <3>3 DEF ScanAt
    <2> QED BY <2>9
  <1> QED BY <1>8, <1>9

\* Every step keeps the scan in an answer.
LEMMA ScanStep == PlanInv /\ Scanning /\ [PushNext]_pushVars => Scanning'
  <1> SUFFICES ASSUME PlanInv, Scanning, [PushNext]_pushVars PROVE Scanning'
    OBVIOUS
  <1>1. ASSUME phase \notin {"running", "exhausted", "error"},
               phase' \notin {"running", "exhausted"},
               UNCHANGED <<iterator, out>>
        PROVE  Scanning'
    BY <1>1 DEF Scanning
  <1>2. ASSUME UNCHANGED <<query, source, catalogVars, planVars, iterator, out>>,
               phase \in {"planned", "altered", "running", "exhausted", "error"},
               phase' \in {"error", "exhausted"} \/ UNCHANGED <<phase, cut>>,
               phase' = "exhausted" => phase \in {"running", "exhausted"},
               phase' = "exhausted" /\ ~cut' =>
                   iterator = <<>> \/ UNCHANGED <<phase, cut>>
        PROVE  Scanning'
    <2>1. UNCHANGED <<query, source, attname, column_name, plan, iterator, out>>
      BY <1>2 DEF catalogVars, planVars
    <2>2. CASE iterator = <<>> /\ out = <<>> /\ phase \notin {"running", "exhausted"}
      BY <1>2, <2>1, <2>2 DEF Scanning
    <2>3. CASE /\ phase \in {"running", "exhausted", "error"}
               /\ plan \in Plans
               /\ \E s, k, pos : /\ ScanAt(s, k, pos)
                                 /\ phase = "exhausted" /\ ~cut => iterator = <<>>
      <3>1. PICK s, k, pos : /\ ScanAt(s, k, pos)
                             /\ phase = "exhausted" /\ ~cut => iterator = <<>>
        BY <2>3
      <3>2. ScanAt(s, k, pos)'
        BY <2>1, <3>1, ScanStays
      <3>3. plan' \in Plans'
        BY <2>1, <2>3, QueryKept
      <3>4. phase' = "exhausted" /\ ~cut' => iterator' = <<>>
        BY <1>2, <2>1, <3>1
      <3>5. phase' \in {"running", "exhausted", "error"}
        BY <1>2, <2>3
      <3> QED BY <3>2, <3>3, <3>4, <3>5 DEF Scanning
    <2> QED BY <2>2, <2>3 DEF Scanning
  <1>3. CASE UNCHANGED pushVars
    <2>1. UNCHANGED <<query, source, catalogVars, planVars, iterator, out, phase, cut>>
      BY <1>3 DEF pushVars, scanVars
    <2>2. CASE phase \in {"planned", "altered", "running", "exhausted", "error"}
      BY <1>2, <2>1, <2>2
    <2>3. CASE phase \notin {"planned", "altered", "running", "exhausted", "error"}
      BY <1>1, <2>1, <2>3
    <2> QED BY <2>2, <2>3
  <1>4. CASE \/ pljs_fdw_get_foreign_rel_size
             \/ pljs_fdw_get_foreign_paths
             \/ \E path \in paths : pljs_fdw_get_foreign_plan(path)
    BY <1>1, <1>4 DEF pljs_fdw_get_foreign_rel_size,
                      pljs_fdw_get_foreign_paths, pljs_fdw_get_foreign_plan, scanVars
  <1>5. CASE EstimateThrows
    BY <1>1, <1>5 DEF EstimateThrows, scanVars
  <1>6. CASE \E a \in Live, name \in Names, option \in Names \cup {NoName} :
                 AlterColumn(a, name, option)
    BY <1>1, <1>6 DEF AlterColumn, scanVars
  <1>7. CASE pljs_fdw_begin_foreign_scan \/ pljs_fdw_rescan_foreign_scan
    <2>1. CallExecute /\ phase \in {"planned", "altered", "running", "exhausted"}
      BY <1>7 DEF pljs_fdw_begin_foreign_scan, pljs_fdw_rescan_foreign_scan
    <2>2. plan \in Plans
      BY <2>1 DEF PlanInv, Planning
    <2> QED BY <2>1, <2>2, ExecuteStep
  <1>8. CASE ExecutionThrows
    <2>1. /\ UNCHANGED <<query, source, catalogVars, planVars, iterator, out>>
          /\ phase \in {"planned", "altered", "running", "exhausted"}
          /\ phase' = "error"
      BY <1>8 DEF ExecutionThrows, scanVars
    <2> QED BY <1>2, <2>1
  <1>9. CASE pljs_fdw_iterate_foreign_scan
    <2>1. phase = "running" /\ UNCHANGED <<query, phase, plan>>
      BY <1>9 DEF pljs_fdw_iterate_foreign_scan, planVars
    <2>2. PICK s, k, pos : ScanAt(s, k, pos)
      BY <2>1 DEF Scanning
    <2>3. plan \in Plans /\ plan' \in Plans'
      BY <2>1, QueryKept DEF Scanning
    <2>4. \E q : ScanAt(s, k + 1, q)'
      BY <1>9, <2>2, <2>3, YieldStep
    <2> QED BY <2>1, <2>3, <2>4 DEF Scanning
  <1>10. CASE IterateDone
    <2>1. /\ UNCHANGED <<query, source, catalogVars, planVars, iterator, out>>
          /\ phase = "running" /\ phase' = "exhausted" /\ iterator = <<>>
      BY <1>10 DEF IterateDone, scanVars
    <2> QED BY <1>2, <2>1
  <1>11. CASE IterateNull
    <2>1. /\ UNCHANGED <<query, source, catalogVars, planVars, iterator, out>>
          /\ phase = "running" /\ phase' = "exhausted" /\ cut' = TRUE
      BY <1>11 DEF IterateNull
    <2> QED BY <1>2, <2>1
  <1>12. CASE DirectDelete \/ DirectUpdate
    BY <1>1, <1>12 DEF DirectDelete, DirectUpdate, DirectModify
  <1> QED BY <1>3, <1>4, <1>5, <1>6, <1>7, <1>8, <1>9, <1>10, <1>11, <1>12
          DEF PushNext

\* The rows that leave the scan, and those the quals keep back, are as the WHERE
\* clause says.
LEMMA ScanMatches ==
    ASSUME Lossless, PlanInv, Scanning
    PROVE  ScanMatchesQuery
  <1>1. CASE iterator = <<>> /\ out = <<>> /\ phase \notin {"running", "exhausted"}
    <2>1. DOMAIN out = {}
      BY <1>1, EmptySeq
    <2> QED BY <1>1, <2>1 DEF ScanMatchesQuery
  <1>2. CASE /\ phase \in {"running", "exhausted", "error"}
             /\ plan \in Plans
             /\ \E s, k, pos : /\ ScanAt(s, k, pos)
                               /\ phase = "exhausted" /\ ~cut => iterator = <<>>
    <2>1. PICK s, k, pos : /\ ScanAt(s, k, pos)
                           /\ phase = "exhausted" /\ ~cut => iterator = <<>>
      BY <1>2
    <2>2. plan \in Plans /\ Input /\ Catalog
      BY <1>2 DEF PlanInv
    <2> DEFINE n == Len(out)
               slotOf(f) == pljs_fdw_apply_jsvalue_to_slot(
                               Object(f, ExecuteArgs.columns, ExecuteArgs.columnMap))
    <2>3. /\ s \in Answers(ExecuteArgs) /\ k \in 0..Len(s)
          /\ Len(iterator) = Len(s) - k
          /\ out \in Seq([from : DOMAIN source, slot : Slot])
          /\ pos \in [1..n -> 1..k]
          /\ \A i, j \in 1..n : i < j => pos[i] < pos[j]
          /\ \A j \in 1..n :
                /\ out[j] = [from |-> s[pos[j]].from,
                             slot |-> pljs_fdw_apply_jsvalue_to_slot(s[pos[j]].row)]
                /\ Passes(s[pos[j]])
          /\ \A i \in 1..k : Passes(s[i]) => \E j \in 1..n : pos[j] = i
      BY <2>1 DEF ScanAt
    <2>4. Len(s) \in Nat /\ n \in Nat /\ DOMAIN out = 1..n
      BY <2>2, <2>3, AnswerFacts, LenProperties
    <2>5. \A j \in 1..n : pos[j] \in 1..Len(s)
      <3>1. \A p \in 1..k : p \in 1..Len(s)
        BY <2>3, <2>4
      <3> QED BY <2>3, <3>1
    <2>6. ASSUME NEW f \in DOMAIN source
          PROVE  /\ Satisfies(source[f], ExecuteArgs.quals, ExecuteArgs.columnMap)
                        <=> \A c \in Pushed : Holds(c, LocalRow(f))
                 /\ (\A c \in plan.qual : Holds(c, slotOf(f)))
                        <=> \A c \in query.clauses \ Pushed : Holds(c, LocalRow(f))
      <3>1. Needed \in SUBSET Live
        BY <2>2, NeededFacts
      <3>2. \A a \in Needed : RemoteName(attname[a], ExecuteArgs.columnMap) = Field(a)
        BY <2>2, <3>1, ArgsFacts, RemoteNameIsField
      <3>3. ExecuteArgs.quals
                = pljs_fdw_quals_to_jsvalue(pljs_fdw_quals_to_plan_private(Quals))
        BY <2>2, ArgsFacts
      <3>4. Satisfies(source[f], ExecuteArgs.quals, ExecuteArgs.columnMap)
                <=> \A c \in Pushed : Holds(c, LocalRow(f))
        BY <2>2, <3>2, <3>3, QualsAreExact
      <3>5. plan.qual = query.clauses \ Pushed
        BY <2>2, ArgsFacts
      <3>6. \A a \in Needed : slotOf(f)[a] = LocalRow(f)[a]
        BY <2>2, ItemFacts
      <3> HIDE DEF slotOf
      <3>7. \A c \in query.clauses : Holds(c, slotOf(f)) <=> Holds(c, LocalRow(f))
        BY <2>2, <3>6, RecheckIsExact
      <3> QED BY <3>4, <3>5, <3>7
    <2>7. ASSUME NEW f \in DOMAIN source
          PROVE  f \in Matching
                     <=> /\ Satisfies(source[f], ExecuteArgs.quals,
                                      ExecuteArgs.columnMap)
                         /\ \A c \in plan.qual : Holds(c, slotOf(f))
      <3>1. f \in Matching <=> \A c \in query.clauses : Holds(c, LocalRow(f))
        BY DEF Matching
      <3>2. Pushed \subseteq query.clauses
        BY <2>2, QualsFacts
      <3> HIDE DEF slotOf
      <3> QED BY <2>6, <3>1, <3>2
    <2>8. ASSUME NEW i \in 1..Len(s)
          PROVE  /\ s[i].from \in DOMAIN source
                 /\ pljs_fdw_apply_jsvalue_to_slot(s[i].row) = slotOf(s[i].from)
                 /\ Passes(s[i]) <=> s[i].from \in Matching
      <3>1. /\ s[i].from \in DOMAIN source
            /\ s[i].row = Object(s[i].from, ExecuteArgs.columns, ExecuteArgs.columnMap)
            /\ Satisfies(source[s[i].from], ExecuteArgs.quals, ExecuteArgs.columnMap)
        BY <2>2, <2>3, AnswerFacts
      <3>2. Passes(s[i]) <=> \A c \in plan.qual : Holds(c, slotOf(s[i].from))
        BY <3>1 DEF Passes
      <3> QED BY <2>7, <3>1, <3>2
    <2>9. \A j \in 1..n : out[j].from = s[pos[j]].from
                          /\ out[j].slot = slotOf(s[pos[j]].from)
      <3> HIDE DEF slotOf
      <3> SUFFICES ASSUME NEW j \in 1..n
                   PROVE  /\ out[j].from = s[pos[j]].from
                          /\ out[j].slot = slotOf(s[pos[j]].from)
        OBVIOUS
      <3>1. PICK p \in 1..Len(s) : p = pos[j]
        BY <2>5
      <3>2. out[j] = [from |-> s[p].from, slot |-> pljs_fdw_apply_jsvalue_to_slot(s[p].row)]
        BY <2>3, <3>1
      <3>3. pljs_fdw_apply_jsvalue_to_slot(s[p].row) = slotOf(s[p].from)
        BY <2>8
      <3>4. out[j].from = s[p].from /\ out[j].slot = slotOf(s[p].from)
        BY <3>2, <3>3
      <3> QED BY <3>1, <3>4
    <2> HIDE DEF slotOf
    <2>10. ASSUME NEW j \in 1..n
           PROVE  /\ out[j].from \in Matching
                  /\ \A a \in Visible : out[j].slot[a] = LocalRow(out[j].from)[a]
      <3>1. out[j].from \in Matching
        BY <2>3, <2>5, <2>8, <2>9
      <3>2. Visible \subseteq Needed
        BY <2>2, NeededFacts
      <3>3. s[pos[j]].from \in DOMAIN source
        BY <2>5, <2>8
      <3>4. \A a \in Needed : slotOf(s[pos[j]].from)[a] = LocalRow(s[pos[j]].from)[a]
        BY <2>2, <3>3, ItemFacts DEF slotOf
      <3> QED BY <2>9, <3>1, <3>2, <3>4
    <2>11. ASSUME NEW i \in 1..n, NEW j \in 1..n, i # j
           PROVE  out[i].from # out[j].from
      <3>1. pos[i] # pos[j]
        <4>1. i < j \/ j < i
          BY <2>4, <2>11
        <4>2. pos[i] < pos[j] \/ pos[j] < pos[i]
          BY <2>3, <4>1
        <4> QED BY <2>4, <2>5, <4>2
      <3>2. PICK p \in 1..Len(s), q \in 1..Len(s) : p = pos[i] /\ q = pos[j]
        BY <2>5
      <3>3. s[p].from # s[q].from
        BY <2>2, <2>3, <3>1, <3>2, AnswerFacts
      <3> QED BY <2>9, <3>2, <3>3
    <2>12. ASSUME phase = "exhausted", ~cut, NEW f \in Matching
           PROVE  \E j \in 1..n : out[j].from = f
      <3>1. iterator = <<>>
        BY <2>1, <2>12
      <3>2. k = Len(s)
        BY <2>3, <2>4, <3>1, EmptySeq
      <3>3. /\ f \in DOMAIN source
            /\ Satisfies(source[f], ExecuteArgs.quals, ExecuteArgs.columnMap)
        BY <2>7 DEF Matching
      <3>4. PICK i \in 1..Len(s) : s[i].from = f
        BY <2>2, <2>3, <3>3, AnswerFacts
      <3>5. Passes(s[i])
        BY <2>8, <2>12, <3>4
      <3>6. PICK j \in 1..n : pos[j] = i
        BY <2>3, <3>2, <3>5
      <3> QED BY <2>9, <3>4, <3>6
    <2> QED BY <2>4, <2>10, <2>11, <2>12 DEF ScanMatchesQuery
  <1> QED BY <1>1, <1>2 DEF Scanning

\* What is pushed down and what is rechecked make up the WHERE clause, and no
\* value is lost to pruning, renaming or the column map, for every query on
\* every table, as long as implicit coercions change no value.
THEOREM ScanIsExact == Lossless => (PushSpec => []ScanMatchesQuery)
  <1> SUFFICES ASSUME Lossless PROVE PushSpec => []ScanMatchesQuery
    OBVIOUS
  <1>1. PushInit => Scanning
    BY DEF PushInit, Scanning
  <1>2. PlanInv /\ Scanning => ScanMatchesQuery
    BY ScanMatches
  <1> QED BY <1>1, <1>2, PlanStart, PlanStep, ScanStep, PTL DEF PushSpec

-----------------------------------------------------------------------------
(* The order of the rows *)

\* The path keys a plan claims are the first of the query's, each with its sort
\* key.
LEMMA ClaimFacts ==
    ASSUME PlanInv, plan \in Plans, NEW k \in 1..Len(plan.pathkeys)
    PROVE  /\ Len(plan.pathkeys) = Len(SortKeys)
           /\ Len(ExecuteArgs.sortkeys) = Len(SortKeys)
           /\ k \in 1..Len(SortKeys)
           /\ plan.pathkeys[k] = query.pathkeys[k]
           /\ ExecuteArgs.sortkeys[k].column = attname[SortKeys[k].attnum]
           /\ (ExecuteArgs.sortkeys[k].direction = "desc") = SortKeys[k].descending
           /\ ExecuteArgs.sortkeys[k].nullsFirst = SortKeys[k].nulls_first
  <1>1. Input
    BY DEF PlanInv
  <1>2. plan.pathkeys # <<>>
    <2>1. Len(<<>>) = 0
      OBVIOUS
    <2> QED BY <2>1
  <1>3. /\ plan.pathkeys = SubSeq(query.pathkeys, 1, Len(SortKeys))
        /\ ExecuteArgs.sortkeys = pljs_fdw_sortkeys_to_jsvalue(
               pljs_fdw_sortkeys_to_plan_private(SortKeys))
    BY <1>2, PlanSortkeys
  <1>4. /\ query.pathkeys \in Seq(PathKey) /\ Len(query.pathkeys) \in Nat
        /\ Len(SortKeys) \in 0..Len(query.pathkeys)
    BY <1>1, QueryFacts, MatchFacts, LenProperties
  <1>5. /\ Len(plan.pathkeys) = Len(SortKeys)
        /\ \A i \in 1..Len(SortKeys) : plan.pathkeys[i] = query.pathkeys[i]
    BY <1>3, <1>4, SubSeqProperties
  <1>6. k \in 1..Len(SortKeys) /\ SortKeys[k].descending \in BOOLEAN
    BY <1>1, <1>5, SortkeyFacts
  <1> DEFINE sk == ExecuteArgs.sortkeys
  <1>7. /\ Len(sk) = Len(SortKeys)
        /\ sk[k] = [column |-> attname[SortKeys[k].attnum],
                    direction |-> IF SortKeys[k].descending THEN "desc" ELSE "asc",
                    nullsFirst |-> SortKeys[k].nulls_first]
    BY <1>1, <1>3, <1>6, PrivateRoundTrip
  <1> HIDE DEF sk
  <1>8. /\ sk[k].column = attname[SortKeys[k].attnum]
        /\ (sk[k].direction = "desc") = SortKeys[k].descending
        /\ sk[k].nullsFirst = SortKeys[k].nulls_first
    BY <1>6, <1>7
  <1> QED BY <1>5, <1>6, <1>7, <1>8 DEF sk

\* A claimed path key is one that is sorted by a column of the table.
LEMMA ClaimSortable ==
    ASSUME PlanInv, plan \in Plans, NEW k \in 1..Len(plan.pathkeys)
    PROVE  LET pk == plan.pathkeys[k]
           IN  /\ pk \in PathKey /\ Sortable(pk)
               /\ SortKeys[k] = Sortkey(pk)
               /\ k \in DOMAIN query.pathkeys /\ pk = query.pathkeys[k]
               /\ SortKeys[k].attnum \in Needed /\ Needed \in SUBSET Live
  <1>1. Input
    BY DEF PlanInv
  <1> QED BY <1>1, ClaimFacts, MatchFacts, SortkeyFacts, NeededFacts

\* The value of the k-th claimed path key on a slot, by any member of its class.
ClaimKey(slot, k) ==
    LET pk == plan.pathkeys[k]
        v  == Eval(pk.members[CHOOSE i \in Mine(pk) : TRUE].expr, slot)
    IN  IF pk.opfamily = "default" THEN v ELSE Image(Apply, v)

\* A clause between two columns is never handed to the class.
LEMMA ColumnsNotPushed ==
    ASSUME Input, NEW c \in query.clauses, NEW x \in Columnar, NEW y \in Columnar,
           c = OpExpr("=", x, y)
    PROVE  c \in query.clauses \ Pushed
  <1>1. c \in Clause /\ c.left = x /\ c.right = y
    BY QueryFacts DEF OpExpr
  <1>2. x \notin Constant /\ y \notin Constant
    BY NodeFacts
  <1>3. ASSUME NEW q \in pljs_fdw_get_simple_qual(c)
        PROVE  FALSE
    <2>1. \/ strip_implicit_coercions(x).node = "Const"
          \/ strip_implicit_coercions(y).node = "Const"
      BY <1>1, QualShape
    <2> QED BY <1>2, <2>1, StripFacts
  <1> QED BY <1>3, QualsFacts DEF Pushed

\* On a row that passed the recheck, whichever member of the class one looks at
\* has the value the class sorted its row by.
LEMMA KeyIsSorted ==
    ASSUME PlanInv, plan \in Plans, NEW k \in 1..Len(plan.pathkeys),
           NEW f \in DOMAIN source, NEW slot,
           slot = pljs_fdw_apply_jsvalue_to_slot(
                      Object(f, ExecuteArgs.columns, ExecuteArgs.columnMap)),
           \A c \in plan.qual : Holds(c, slot)
    PROVE  ClaimKey(slot, k) = RemoteKey(f, k)
  <1> DEFINE pk == plan.pathkeys[k]
             first == FirstMine(pk)
             any == CHOOSE i \in Mine(pk) : TRUE
             x == pk.members[first].expr
             y == pk.members[any].expr
  <1>1. Input /\ Catalog
    BY DEF PlanInv
  <1>2. /\ pk \in PathKey /\ Sortable(pk) /\ SortKeys[k] = Sortkey(pk)
        /\ k \in DOMAIN query.pathkeys /\ pk = query.pathkeys[k]
        /\ SortKeys[k].attnum \in Needed /\ Needed \in SUBSET Live
    BY ClaimSortable
  <1> HIDE DEF pk
  <1>3. /\ Mine(pk) # {} /\ x.node = "Var" /\ pk.opfamily = "default"
        /\ x.attno = SortKeys[k].attnum
    BY <1>2 DEF Sortable, Sortkey
  <1>4. any \in Mine(pk) /\ first \in Mine(pk) /\ first <= any
        /\ first \in Nat /\ any \in Nat
    BY <1>2, <1>3, PathKeyFacts
  <1>5. x \in Columnar /\ y \in Columnar
    BY <1>2, <1>4, PathKeyFacts
  <1> HIDE DEF first, any
  <1>6. RemoteKey(f, k) = LocalRow(f)[x.attno]
    <2>1. ExecuteArgs.sortkeys[k].column = attname[x.attno]
      BY <1>3, ClaimFacts
    <2>2. RemoteName(attname[x.attno], ExecuteArgs.columnMap) = Field(x.attno)
      BY <1>1, <1>2, <1>3, ArgsFacts, RemoteNameIsField
    <2>3. x.attno \in Live
      BY <1>2, <1>3
    <2>4. LocalRow(f)[x.attno] = source[f][Field(x.attno)]
      BY <1>1, <2>3, LocalRowType
    <2> QED BY <2>1, <2>2, <2>4 DEF RemoteKey
  <1>7. Eval(x, slot) = LocalRow(f)[x.attno]
    <2>1. slot[x.attno] = LocalRow(f)[x.attno]
      BY <1>2, <1>3, ItemFacts
    <2>2. x.attno # TableOidAttr
      BY <1>2, <1>3, LiveFacts
    <2> QED BY <1>3, <2>1, <2>2 DEF Eval, Attr
  <1>8. Eval(y, slot) = Eval(x, slot)
    <2>1. CASE first = any
      BY <2>1
    <2>2. CASE first # any
      <3> DEFINE c == OpExpr("=", x, y)
      <3>1. first < any
        BY <1>4, <2>2
      <3>2. c \in query.clauses
        BY <1>1, <1>2, <1>4, <3>1, QueryFacts DEF WellFormedQuery
      <3>3. c \in plan.qual
        BY <1>1, <1>5, <3>2, ColumnsNotPushed, ArgsFacts
      <3>4. Holds(c, slot)
        BY <3>3
      <3>5. c.node = "OpExpr" /\ c.op = "=" /\ c.left = x /\ c.right = y
        BY DEF OpExpr
      <3>6. True("=", Eval(x, slot), Eval(y, slot))
        BY <3>4, <3>5 DEF Holds
      <3> QED BY <3>6 DEF True, Compare
    <2> QED BY <2>1, <2>2
  <1>9. ClaimKey(slot, k) = Eval(y, slot)
    BY <1>3 DEF ClaimKey, pk, any
  <1> QED BY <1>6, <1>7, <1>8, <1>9

\* Every claimed path key is a stable expression of this table.
LEMMA ClaimsMine ==
    ASSUME PlanInv
    PROVE  \A k \in DOMAIN plan.pathkeys :
               Mine(plan.pathkeys[k]) # {} /\ ~plan.pathkeys[k].volatile
  <1>1. CASE plan = NoPlan
    <2>1. plan.pathkeys = <<>>
      BY <1>1 DEF NoPlan
    <2> QED BY <2>1
  <1>2. CASE plan \in Plans
    <2>1. DOMAIN plan.pathkeys = 1..Len(plan.pathkeys)
      <3>1. <<>> \in Seq(PathKey)
        BY EmptySeq
      <3>2. SubSeq(query.pathkeys, 1, Len(SortKeys)) \in Seq(PathKey)
        <4>1. Input
          BY DEF PlanInv
        <4>2. /\ query.pathkeys \in Seq(PathKey) /\ Len(query.pathkeys) \in Nat
              /\ Len(SortKeys) \in 0..Len(query.pathkeys)
          BY <4>1, QueryFacts, MatchFacts, LenProperties
        <4> QED BY <4>2, SubSeqProperties
      <3>3. plan.pathkeys \in Seq(PathKey)
        BY <1>2, <3>1, <3>2, PlanSortkeys
      <3> QED BY <3>3, LenProperties
    <2> QED BY <1>2, <2>1, ClaimSortable DEF Sortable
  <1> QED BY <1>1, <1>2 DEF PlanInv, Planning

\* The rows that leave the scan keep the order the class gave them.
LEMMA ScanOrdered ==
    ASSUME PlanInv, Scanning
    PROVE  ClaimedOrder
  <1> SUFFICES ASSUME NEW i \in DOMAIN out, NEW j \in DOMAIN out, i < j,
                      NEW k \in 1..Len(plan.pathkeys),
                      Before(ClaimKey(out[j].slot, k), ClaimKey(out[i].slot, k),
                             plan.pathkeys[k].cmptype = "GT",
                             plan.pathkeys[k].nulls_first),
                      \A m \in 1..(k - 1) :
                          ClaimKey(out[i].slot, m) = ClaimKey(out[j].slot, m)
               PROVE  FALSE
    BY ClaimsMine DEF ClaimedOrder, Ordered, ClaimKey
  <1>1. out # <<>>
    OBVIOUS
  <1>2. PICK s, l, pos : ScanAt(s, l, pos)
    BY <1>1 DEF Scanning
  <1>3. plan \in Plans /\ Input
    BY <1>1 DEF Scanning, PlanInv
  <1> DEFINE n == Len(out)
  <1>4. /\ s \in Answers(ExecuteArgs) /\ l \in 0..Len(s)
        /\ out \in Seq([from : DOMAIN source, slot : Slot])
        /\ pos \in [1..n -> 1..l]
        /\ pos[i] < pos[j]
        /\ \A h \in 1..n :
              /\ out[h] = [from |-> s[pos[h]].from,
                           slot |-> pljs_fdw_apply_jsvalue_to_slot(s[pos[h]].row)]
              /\ Passes(s[pos[h]])
    BY <1>2, SMTT(30) DEF ScanAt
  <1>5. Len(s) \in Nat /\ n \in Nat /\ DOMAIN out = 1..n
    BY <1>3, <1>4, AnswerFacts, LenProperties
  <1>6. PICK p \in 1..Len(s), q \in 1..Len(s) : p = pos[i] /\ q = pos[j]
    <2>1. \A x \in 1..l : x \in 1..Len(s)
      BY <1>4, <1>5
    <2> QED BY <1>4, <1>5, <2>1
  <1>7. ASSUME NEW h \in 1..n, NEW r \in 1..Len(s), r = pos[h],
               NEW m \in 1..Len(plan.pathkeys)
        PROVE  ClaimKey(out[h].slot, m) = RemoteKey(s[r].from, m)
    <2>1. /\ s[r].from \in DOMAIN source
          /\ s[r].row = Object(s[r].from, ExecuteArgs.columns, ExecuteArgs.columnMap)
      BY <1>3, <1>4, AnswerFacts
    <2>2. /\ out[h] = [from |-> s[r].from,
                       slot |-> pljs_fdw_apply_jsvalue_to_slot(s[r].row)]
          /\ Passes(s[r])
      BY <1>4, <1>7
    <2>3. out[h].slot = pljs_fdw_apply_jsvalue_to_slot(s[r].row)
      BY <2>2
    <2>4. \A c \in plan.qual : Holds(c, out[h].slot)
      BY <2>2, <2>3 DEF Passes
    <2> QED BY <1>3, <2>1, <2>3, <2>4, KeyIsSorted
  <1>8. /\ ClaimKey(out[i].slot, k) = RemoteKey(s[p].from, k)
        /\ ClaimKey(out[j].slot, k) = RemoteKey(s[q].from, k)
    BY <1>5, <1>6, <1>7
  <1>9. /\ plan.pathkeys[k].nulls_first = ExecuteArgs.sortkeys[k].nullsFirst
        /\ (plan.pathkeys[k].cmptype = "GT")
               = (ExecuteArgs.sortkeys[k].direction = "desc")
        /\ k \in 1..Len(ExecuteArgs.sortkeys) /\ k \in Nat
    <2>1. /\ k \in 1..Len(SortKeys) /\ Len(ExecuteArgs.sortkeys) = Len(SortKeys)
          /\ plan.pathkeys[k] = query.pathkeys[k]
          /\ ExecuteArgs.sortkeys[k].nullsFirst = SortKeys[k].nulls_first
          /\ (ExecuteArgs.sortkeys[k].direction = "desc") = SortKeys[k].descending
      BY <1>3, ClaimFacts
    <2> QED BY <1>3, <2>1, SortkeyFacts
  <1>10. \A m \in 1..(k - 1) : RemoteKey(s[p].from, m) = RemoteKey(s[q].from, m)
    <2> SUFFICES ASSUME NEW m \in 1..(k - 1)
                 PROVE  RemoteKey(s[p].from, m) = RemoteKey(s[q].from, m)
      OBVIOUS
    <2>1. m \in 1..Len(plan.pathkeys)
      BY <1>3, <1>9, ClaimFacts
    <2> QED BY <1>5, <1>6, <1>7, <2>1
  <1>11. Before(RemoteKey(s[q].from, k), RemoteKey(s[p].from, k),
                ExecuteArgs.sortkeys[k].direction = "desc",
                ExecuteArgs.sortkeys[k].nullsFirst)
    BY <1>8, <1>9
  <1>12. p < q
    BY <1>4, <1>6
  <1>13. ~\E m \in 1..Len(ExecuteArgs.sortkeys) :
             /\ Before(RemoteKey(s[q].from, m), RemoteKey(s[p].from, m),
                       ExecuteArgs.sortkeys[m].direction = "desc",
                       ExecuteArgs.sortkeys[m].nullsFirst)
             /\ \A h \in 1..(m - 1) : RemoteKey(s[p].from, h) = RemoteKey(s[q].from, h)
    BY <1>3, <1>4, <1>12, AnswerFacts
  <1> QED BY <1>9, <1>10, <1>11, <1>13

\* No Sort is added above a path that claims an order, and none is needed: the
\* prefix of path keys, its way through fdw_private and the names columns have
\* when it is used keep the order, for every query on every table.
THEOREM OrderIsKept == PushSpec => []ClaimedOrder
  <1>1. PushInit => Scanning
    BY DEF PushInit, Scanning
  <1> QED BY <1>1, PlanStart, PlanStep, ScanStep, ScanOrdered, PTL DEF PushSpec

-----------------------------------------------------------------------------
(* Direct modification *)

\* The values an UPDATE assigns, by the names of columns.
Assigned ==
    IF query.set = NoSet THEN NoSet
    ELSE pljs_fdw_set_values_to_jsvalue(
             [a \in DOMAIN query.set |-> strip_implicit_coercions(query.set[a]).value])

\* Rows are only changed directly when nothing is left to recheck and every
\* value assigned is a constant.
Direct ==
    /\ cut \in BOOLEAN
    /\ \/ phase # "done" /\ direct = [rows |-> {}, values |-> NoSet]
       \/ /\ phase = "done"
          /\ plan.qual = {}
          /\ direct = [rows |-> {i \in DOMAIN source :
                                    Satisfies(source[i],
                                              pljs_fdw_quals_to_jsvalue(plan.quals),
                                              <<>>)},
                       values |-> Assigned]
          /\ \A a \in DOMAIN query.set :
                strip_implicit_coercions(query.set[a]).node = "Const"

\* NoSet assigns to no column.
LEMMA NoSetFacts == DOMAIN NoSet = {}
  BY DEF NoSet

\* A statement is carried out at most once.
LEMMA DirectStep == Direct /\ [PushNext]_pushVars => Direct'
  <1> SUFFICES ASSUME Direct, [PushNext]_pushVars PROVE Direct'
    OBVIOUS
  <1>1. CASE UNCHANGED pushVars
    <2>1. UNCHANGED <<query, source, attname, plan, cut, phase, direct>>
      BY <1>1 DEF pushVars, catalogVars, planVars, scanVars
    <2>2. Assigned' = Assigned
      BY <2>1 DEF Assigned, pljs_fdw_set_values_to_jsvalue
    <2>3. pljs_fdw_quals_to_jsvalue(plan.quals)' = pljs_fdw_quals_to_jsvalue(plan.quals)
      BY <2>1 DEF pljs_fdw_quals_to_jsvalue
    <2> QED BY <2>1, <2>2, <2>3 DEF Direct
  <1>2. ASSUME phase # "done", phase' # "done", UNCHANGED direct, cut' \in BOOLEAN
        PROVE  Direct'
    BY <1>2 DEF Direct
  <1>3. cut \in BOOLEAN
    BY DEF Direct
  <1>4. CASE \/ pljs_fdw_get_foreign_rel_size \/ EstimateThrows
             \/ pljs_fdw_get_foreign_paths
             \/ \E path \in paths : pljs_fdw_get_foreign_plan(path)
             \/ \E a \in Live, name \in Names, option \in Names \cup {NoName} :
                   AlterColumn(a, name, option)
    BY <1>2, <1>3, <1>4
       DEF pljs_fdw_get_foreign_rel_size, EstimateThrows, pljs_fdw_get_foreign_paths,
           pljs_fdw_get_foreign_plan, AlterColumn, scanVars
  <1>5. CASE pljs_fdw_begin_foreign_scan \/ pljs_fdw_rescan_foreign_scan
    BY <1>2, <1>5 DEF pljs_fdw_begin_foreign_scan, pljs_fdw_rescan_foreign_scan,
                      CallExecute
  <1>6. CASE ExecutionThrows \/ pljs_fdw_iterate_foreign_scan \/ IterateDone
             \/ IterateNull
    BY <1>2, <1>3, <1>6
       DEF ExecutionThrows, pljs_fdw_iterate_foreign_scan, IterateDone, IterateNull,
           scanVars
  <1>7. ASSUME NEW values, DirectModify(values), values = Assigned,
               \A a \in DOMAIN query.set :
                   strip_implicit_coercions(query.set[a]).node = "Const"
        PROVE  Direct'
    <2>1. /\ UNCHANGED <<query, source, attname, plan, cut>> /\ phase' = "done"
          /\ plan.qual = {}
          /\ direct' = [rows |-> {i \in DOMAIN source :
                                     Satisfies(source[i],
                                               pljs_fdw_quals_to_jsvalue(plan.quals),
                                               <<>>)},
                        values |-> Assigned]
      BY <1>7 DEF DirectModify, catalogVars, planVars
    <2>2. Assigned' = Assigned
      BY <2>1 DEF Assigned, pljs_fdw_set_values_to_jsvalue
    <2>3. pljs_fdw_quals_to_jsvalue(plan.quals)' = pljs_fdw_quals_to_jsvalue(plan.quals)
      BY <2>1 DEF pljs_fdw_quals_to_jsvalue
    <2> QED BY <1>3, <1>7, <2>1, <2>2, <2>3 DEF Direct
  <1>8. CASE DirectDelete
    <2>1. DirectModify(NoSet) /\ query.set = NoSet /\ NoSet = Assigned
      BY <1>8 DEF DirectDelete, Assigned
    <2> QED BY <1>7, <2>1, NoSetFacts
  <1>9. CASE DirectUpdate
    BY <1>7, <1>9 DEF DirectUpdate, Assigned
  <1> QED BY <1>1, <1>4, <1>5, <1>6, <1>8, <1>9 DEF PushNext

\* What an assigned column gets, and under which name.
LEMMA AssignedFacts ==
    ASSUME Input, Catalog
    PROVE  /\ DOMAIN query.set \subseteq Live
           /\ DOMAIN Assigned = {attname[a] : a \in DOMAIN query.set}
           /\ \A a \in DOMAIN query.set :
                 /\ query.set[a] \in Columnar \cup Constant
                 /\ Assigned[attname[a]]
                        = strip_implicit_coercions(query.set[a]).value
  <1> DEFINE D == DOMAIN query.set
             val == [a \in D |-> strip_implicit_coercions(query.set[a]).value]
  <1>1. PICK d \in SUBSET Live : query.set \in [d -> Columnar \cup Constant]
    BY QueryFacts
  <1>2. D = d /\ D \subseteq Live /\ \A a \in D : query.set[a] \in Columnar \cup Constant
    BY <1>1
  <1>3. CASE query.set = NoSet
    <2>1. D = {} /\ Assigned = NoSet
      BY <1>3, NoSetFacts DEF Assigned
    <2> QED BY <1>2, <2>1, NoSetFacts
  <1>4. CASE query.set # NoSet
    <2>1. Assigned = pljs_fdw_set_values_to_jsvalue(val)
      BY <1>4 DEF Assigned
    <2>2. DOMAIN val = D /\ \A a \in D : val[a] = strip_implicit_coercions(query.set[a]).value
      OBVIOUS
    <2> HIDE DEF val, D
    <2>3. Assigned = [n \in {attname[a] : a \in D} |->
                         val[CHOOSE a \in D : attname[a] = n]]
      BY <2>1, <2>2 DEF pljs_fdw_set_values_to_jsvalue
    <2>4. ASSUME NEW a \in D
          PROVE  Assigned[attname[a]] = val[a]
      <3> DEFINE b == CHOOSE x \in D : attname[x] = attname[a]
      <3>1. b \in D /\ attname[b] = attname[a]
        OBVIOUS
      <3>2. b = a
        BY <1>2, <3>1 DEF Catalog
      <3>3. Assigned[attname[a]] = val[b]
        BY <2>3
      <3> QED BY <3>2, <3>3
    <2>5. DOMAIN Assigned = {attname[a] : a \in D}
      BY <2>3
    <2> QED BY <1>2, <2>2, <2>4, <2>5 DEF D
  <1> QED BY <1>3, <1>4

\* Where columns go by their own names the rows changed, and the values they
\* get, are those of the statement.
LEMMA DirectMatches ==
    ASSUME Lossless, PlanInv, Direct
    PROVE  DirectModifiesMatching
  <1> SUFFICES ASSUME phase = "done", \A a \in Live : Field(a) = attname[a]
               PROVE  /\ direct.rows = Matching
                      /\ DOMAIN direct.values = {attname[a] : a \in DOMAIN query.set}
                      /\ \A a \in DOMAIN query.set : \A i \in direct.rows :
                            direct.values[attname[a]] = Eval(query.set[a], LocalRow(i))
    BY DEF DirectModifiesMatching
  <1>1. Input /\ Catalog /\ plan \in Plans
    BY DEF PlanInv, Planning
  <1>2. /\ plan.qual = {}
        /\ direct.rows = {i \in DOMAIN source :
                             Satisfies(source[i], pljs_fdw_quals_to_jsvalue(plan.quals),
                                       <<>>)}
        /\ direct.values = Assigned
        /\ \A a \in DOMAIN query.set :
              strip_implicit_coercions(query.set[a]).node = "Const"
    BY DEF Direct
  <1>3. Pushed = query.clauses
    BY <1>1, <1>2, ArgsFacts, QualsFacts
  <1>4. \A a \in Needed : RemoteName(attname[a], <<>>) = Field(a)
    <2>1. Needed \subseteq Live
      BY <1>1, NeededFacts
    <2>2. DOMAIN <<>> = {}
      OBVIOUS
    <2>3. ASSUME NEW n PROVE RemoteName(n, <<>>) = n
      BY <2>2 DEF RemoteName
    <2> QED BY <2>1, <2>3
  <1>5. ASSUME NEW i \in DOMAIN source
        PROVE  Satisfies(source[i], pljs_fdw_quals_to_jsvalue(plan.quals), <<>>)
                   <=> \A c \in query.clauses : Holds(c, LocalRow(i))
    <2>1. plan.quals = pljs_fdw_quals_to_plan_private(Quals)
      BY <1>1, ArgsFacts
    <2> QED BY <1>1, <1>3, <1>4, <2>1, QualsAreExact
  <1>6. direct.rows = Matching
    BY <1>2, <1>5 DEF Matching
  <1>7. ASSUME NEW a \in DOMAIN query.set, NEW i \in direct.rows
        PROVE  direct.values[attname[a]] = Eval(query.set[a], LocalRow(i))
    <2> DEFINE e == query.set[a]
    <2>1. e \in Columnar \cup Constant
          /\ Assigned[attname[a]] = strip_implicit_coercions(e).value
      BY <1>1, AssignedFacts
    <2>2. LocalRow(i) \in Slot
      BY <1>1, <1>6, LocalRowType DEF Matching
    <2>3. strip_implicit_coercions(e).node = "Const"
      BY <1>2
    <2> HIDE DEF e
    <2>4. Eval(strip_implicit_coercions(e), LocalRow(i))
              = strip_implicit_coercions(e).value
      BY <2>3 DEF Eval
    <2>5. Eval(e, LocalRow(i)) = Eval(strip_implicit_coercions(e), LocalRow(i))
      BY <2>1, <2>2, StripKeeps
    <2> QED BY <1>2, <2>1, <2>4, <2>5 DEF e
  <1> QED BY <1>1, <1>2, <1>6, <1>7, AssignedFacts

\* deleteWhere() and updateWhere() change the rows the statement means, and give
\* each assigned column its value, for every query, as long as implicit coercions
\* change no value and columns go by their own names.
THEOREM DirectModifiesExactly == Lossless => (PushSpec => []DirectModifiesMatching)
  <1> SUFFICES ASSUME Lossless PROVE PushSpec => []DirectModifiesMatching
    OBVIOUS
  <1>1. PushInit => Direct
    BY DEF PushInit, Direct
  <1>2. PlanInv /\ Direct => DirectModifiesMatching
    BY DirectMatches
  <1> QED BY <1>1, <1>2, PlanStart, PlanStep, DirectStep, PTL DEF PushSpec

\* What planning, the scan and a direct modification keep is well formed.
LEMMA PushTyped == PlanInv /\ Scanning /\ Direct => PushTypeOK
  <1> SUFFICES ASSUME PlanInv, Scanning, Direct PROVE PushTypeOK
    OBVIOUS
  <1>1. Input /\ Catalog /\ Planning
    BY DEF PlanInv
  <1>2. /\ phase \in {"new", "sized", "pathed", "planned", "altered", "running",
                      "exhausted", "done", "error"}
        /\ attname \in [Live -> Names]
        /\ column_name \in [Live -> Names \cup {NoName}]
    BY <1>1 DEF Catalog, Planning
  <1>3. /\ rel.pushable_quals \subseteq [qual : Qual, rinfo : query.clauses]
        /\ rel.needed_attnums \subseteq Live
    <2>1. rel.pushable_quals \in {{}, Quals} /\ rel.needed_attnums \in {{}, Needed}
      BY <1>1 DEF Planning, NoRel, RelOf
    <2> QED BY <1>1, <2>1, QualsFacts, NeededFacts
  <1>4. /\ plan.qual \subseteq query.clauses /\ plan.quals \subseteq Qual
        /\ plan.needed_attnums \subseteq Live /\ plan.sortkeys \in Seq(Nat)
    <2>1. CASE plan = NoPlan
      <3>1. <<>> \in Seq(Nat)
        BY EmptySeq
      <3> QED BY <2>1, <3>1 DEF NoPlan
    <2>2. CASE plan \in Plans
      <3>1. pljs_fdw_quals_to_plan_private(Quals) \subseteq Qual
        BY <1>1, QualsFacts DEF pljs_fdw_quals_to_plan_private
      <3> QED BY <1>1, <2>2, <3>1, ArgsFacts, PlanSortkeys, NeededFacts
    <2> QED BY <1>1, <2>1, <2>2 DEF Planning
  <1>5. /\ \A k \in DOMAIN iterator : iterator[k].from \in DOMAIN source
        /\ \A k \in DOMAIN out : out[k].slot \in Slot
    <2>1. CASE iterator = <<>> /\ out = <<>>
      BY <2>1
    <2>2. CASE iterator \in Seq(Items) /\ out \in Seq([from : DOMAIN source, slot : Slot])
      <3>1. \A x \in Items : x.from \in DOMAIN source
        BY DEF Items
      <3>2. \A k \in DOMAIN iterator : iterator[k] \in Items
        BY <2>2, LenProperties, ElementOfSeq
      <3>3. \A k \in DOMAIN out : out[k] \in [from : DOMAIN source, slot : Slot]
        BY <2>2, LenProperties, ElementOfSeq
      <3> QED BY <3>1, <3>2, <3>3
    <2> QED BY <2>1, <2>2 DEF Scanning, ScanAt
  <1>6. cut \in BOOLEAN
    BY DEF Direct
  <1>7. direct.rows \subseteq DOMAIN source /\ DOMAIN direct.values \subseteq Names
    <2>1. CASE direct = [rows |-> {}, values |-> NoSet]
      BY <2>1, NoSetFacts
    <2>2. CASE direct # [rows |-> {}, values |-> NoSet]
      <3>1. direct.rows \subseteq DOMAIN source /\ direct.values = Assigned
        BY <2>2 DEF Direct
      <3>2. DOMAIN Assigned \subseteq Names
        BY <1>1, AssignedFacts DEF Catalog
      <3> QED BY <3>1, <3>2
    <2> QED BY <2>1, <2>2
  <1> QED BY <1>2, <1>3, <1>4, <1>5, <1>6, <1>7 DEF PushTypeOK

\* What is planned, scanned and changed stays well formed: no qual has a NULL
\* constant or names a dropped or a system column.
THEOREM PushTypeCorrect == PushSpec => []PushTypeOK
  <1>1. PushInit => Scanning /\ Direct
    BY DEF PushInit, Scanning, Direct
  <1> QED BY <1>1, PlanStart, PlanStep, ScanStep, DirectStep, PushTyped, PTL
          DEF PushSpec

=============================================================================
