------------------------- MODULE ForeignModifyProofs -------------------------
(***************************************************************************)
(* Proofs about ForeignModify, for every class, statement and batch size.  *)
(***************************************************************************)
EXTENDS ForeignModify, SequenceTheorems, TLAPS

-----------------------------------------------------------------------------
(* Statements and classes *)

\* The fields of a statement, and the rows it is to change.
LEMMA StatementFacts ==
    ASSUME NEW s \in Statements
    PROVE  /\ s.op \in {"INSERT", "UPDATE", "DELETE", "TRUNCATE"}
           /\ s.n \in Nat
           /\ s.keep \subseteq 1..s.n
           /\ s.pushed \in BOOLEAN /\ s.plain \in BOOLEAN
           /\ s.constant \in BOOLEAN /\ s.tag \in BOOLEAN
           /\ s.op \in {"INSERT", "TRUNCATE"} => s.keep = 1..s.n
           /\ s.pushed /\ s.plain => s.keep = 1..s.n
  BY ModifyAssumption DEF Statement, WellFormed

\* A class names its row identity or has none.
LEMMA ClassFacts ==
    ASSUME NEW c \in Classes
    PROVE  /\ c.rowIdColumn \in Columns \cup OtherNames \cup {NoColumn}
           /\ c.counts \in BOOLEAN
  BY ModifyAssumption DEF Class

\* The slot after the call of a method is a slot.
LEMMA AppliedSlotType ==
    ASSUME NEW r \in Results \cup {NoResult}
    PROVE  pljs_fdw_apply_jsvalue_to_slot(GivenSlot, r)
               \in [Columns -> {"given", "source", "null"}]
  BY DEF pljs_fdw_apply_jsvalue_to_slot, GivenSlot

\* The rows of a direct modification.
LEMMA AllRowsType ==
    ASSUME stmt.n \in Nat
    PROVE  /\ AllRows \in Seq(1..stmt.n)
           /\ Len(AllRows) = stmt.n
           /\ \A k \in 0..stmt.n :
                 /\ SubSeq(AllRows, 1, k) \in Seq(1..stmt.n)
                 /\ Len(SubSeq(AllRows, 1, k)) = k
                 /\ \A i \in 1..k : SubSeq(AllRows, 1, k)[i] = i
  <1>1. AllRows \in Seq(1..stmt.n) /\ Len(AllRows) = stmt.n
    BY DEF AllRows
  <1>2. ASSUME NEW k \in 0..stmt.n
        PROVE  /\ SubSeq(AllRows, 1, k) \in Seq(1..stmt.n)
               /\ Len(SubSeq(AllRows, 1, k)) = k
               /\ \A i \in 1..k : SubSeq(AllRows, 1, k)[i] = i
    <2>1. 1 \in 1..Len(AllRows) + 1 /\ k \in 1 - 1..Len(AllRows)
      BY <1>1
    <2>2. /\ SubSeq(AllRows, 1, k) \in Seq(1..stmt.n)
          /\ Len(SubSeq(AllRows, 1, k)) = k - 1 + 1
          /\ \A i \in 1..(k - 1 + 1) :
                SubSeq(AllRows, 1, k)[i] = AllRows[1 + i - 1]
      BY <1>1, <2>1, SubSeqProperties
    <2> QED BY <2>2 DEF AllRows
  <1> QED BY <1>1, <1>2

-----------------------------------------------------------------------------
(* Type correctness *)

\* The initial state has the type.
LEMMA ModifyInitType == ModifyInit => ModifyTypeOK
  <1> SUFFICES ASSUME ModifyInit PROVE ModifyTypeOK
    OBVIOUS
  <1>1. stmt.n \in Nat
    BY StatementFacts DEF ModifyInit
  <1>2. next \in 1 .. stmt.n + 1 /\ Len(batch) <= BatchSize
    BY <1>1, ModifyAssumption, EmptySeq DEF ModifyInit
  <1> QED BY <1>2, EmptySeq DEF ModifyInit, ModifyTypeOK

\* The steps that only start or end a statement keep the type.
LEMMA ControlType ==
    ASSUME ModifyTypeOK,
           \/ PlanStatement \/ (\E c \in Classes : ReplaceInstance(c))
           \/ BeginModify \/ NotUpdatable \/ EndModify
    PROVE  ModifyTypeOK'
  <1>1. CASE PlanStatement
    <2>1. /\ pljs_fdw_plan_direct_modify(stmt) \in BOOLEAN
          /\ RowIdentity(stmt.op) \in Columns \cup OtherNames \cup {NoColumn}
      BY ClassFacts DEF ModifyTypeOK, pljs_fdw_plan_direct_modify, RowIdentity
    <2> QED BY <1>1, <2>1
            DEF ModifyTypeOK, PlanStatement, inputVars, effectVars
  <1>2. CASE \E c \in Classes : ReplaceInstance(c)
    BY <1>2 DEF ModifyTypeOK, ReplaceInstance, effectVars
  <1>3. CASE BeginModify
    BY <1>3 DEF ModifyTypeOK, BeginModify, inputVars, effectVars
  <1>4. CASE NotUpdatable
    BY <1>4 DEF ModifyTypeOK, NotUpdatable, Fails, inputVars, effectVars
  <1>5. CASE EndModify
    BY <1>5 DEF ModifyTypeOK, EndModify, inputVars, effectVars
  <1> QED BY <1>1, <1>2, <1>3, <1>4, <1>5

\* The steps of the path that goes row by row keep the type.
LEMMA RowType ==
    ASSUME ModifyTypeOK, RowStep \/ TruncateTable \/ TruncateFails
    PROVE  ModifyTypeOK'
  <1>0. stmt.n \in Nat /\ stmt.tag \in BOOLEAN
    BY StatementFacts DEF ModifyTypeOK
  <1>1. ASSUME NEW ops, AtRow(ops)
        PROVE  /\ next \in 1..stmt.n
               /\ next + 1 \in 1 .. stmt.n + 1
               /\ Append(applied, next) \in Seq(1..stmt.n)
    <2>1. next \in 1..stmt.n /\ next + 1 \in 1 .. stmt.n + 1
      BY <1>0, <1>1 DEF ModifyTypeOK, AtRow
    <2> QED BY <2>1, AppendProperties DEF ModifyTypeOK
  <1>2. CASE SkipRow
    BY <1>1, <1>2 DEF ModifyTypeOK, SkipRow, inputVars, effectVars
  <1>3. CASE ExecForeignRow
    <2>1. PICK result \in ResultsOf(stmt.op) : Look(result)
      BY <1>3 DEF ExecForeignRow
    <2>2. result \in Results \cup {NoResult}
      BY DEF ResultsOf
    <2>3. looked' \in Seq([row : 1..stmt.n, result : Results \cup {NoResult},
                           slot : [Columns -> {"given", "source", "null"}]])
      <3>1. next \in 1..stmt.n
        BY <1>1, <1>3 DEF ExecForeignRow, AtCall
      <3> QED BY <2>1, <2>2, <3>1, AppliedSlotType, AppendProperties
              DEF ModifyTypeOK, Look
    <2>4. processed' \in Nat
      BY <1>0, <1>3 DEF ModifyTypeOK, ExecForeignRow, CountRows
    <2> QED BY <1>1, <1>3, <2>3, <2>4
            DEF ModifyTypeOK, ExecForeignRow, AtCall, inputVars
  <1>4. CASE ExecForeignRowThrows
    BY <1>1, <1>4
    DEF ModifyTypeOK, ExecForeignRowThrows, AtCall, Fails, inputVars
  <1>5. CASE ExecForeignRowUnsupported
    BY <1>5 DEF ModifyTypeOK, ExecForeignRowUnsupported, Fails, inputVars,
                effectVars
  <1>6. CASE TruncateTable
    BY <1>1, <1>6 DEF ModifyTypeOK, TruncateTable, inputVars
  <1>7. CASE TruncateFails
    BY <1>1, <1>7 DEF ModifyTypeOK, TruncateFails, Fails, inputVars
  <1> QED BY <1>2, <1>3, <1>4, <1>5, <1>6, <1>7 DEF RowStep

\* A batch never holds more rows than there is room for.
LEMMA BatchType ==
    ASSUME ModifyTypeOK, BatchStep
    PROVE  ModifyTypeOK'
  <1>0. /\ stmt.n \in Nat /\ stmt.tag \in BOOLEAN
        /\ batch \in Seq(1..stmt.n) /\ Len(batch) \in Nat
        /\ applied \in Seq(1..stmt.n)
        /\ BatchSize \in Nat \ {0, 1}
        /\ pljs_fdw_get_foreign_modify_batch_size <= BatchSize
    BY StatementFacts, ModifyAssumption
    DEF ModifyTypeOK, pljs_fdw_get_foreign_modify_batch_size
  <1>1. CASE BufferRow
    <2>1. next \in 1..stmt.n /\ next + 1 \in 1 .. stmt.n + 1
      BY <1>0, <1>1 DEF ModifyTypeOK, BufferRow
    <2>2. /\ Append(batch, next) \in Seq(1..stmt.n)
          /\ Len(Append(batch, next)) = Len(batch) + 1
      BY <1>0, <2>1, AppendProperties
    <2>3. Len(batch) < BatchSize
      BY <1>0, <1>1
      DEF BufferRow, pljs_fdw_get_foreign_modify_batch_size
    <2>4. Len(Append(batch, next)) <= BatchSize
      BY <1>0, <2>2, <2>3
    <2> QED BY <1>1, <2>1, <2>2, <2>4
            DEF ModifyTypeOK, BufferRow, inputVars, effectVars
  <1>2. CASE pljs_fdw_exec_foreign_batch_insert
    <2>1. applied \o batch \in Seq(1..stmt.n)
      BY <1>0, ConcatProperties
    <2>2. processed' \in Nat
      BY <1>0, <1>2
      DEF ModifyTypeOK, pljs_fdw_exec_foreign_batch_insert, CountRows
    <2>3. <<>> \in Seq(1..stmt.n) /\ Len(<<>>) <= BatchSize
      BY <1>0, EmptySeq
    <2> QED BY <1>2, <2>1, <2>2, <2>3
            DEF ModifyTypeOK, pljs_fdw_exec_foreign_batch_insert, inputVars
  <1>3. CASE BatchInsertThrows
    <2>1. PICK k \in 0..Len(batch) : applied' = applied \o SubSeq(batch, 1, k)
      BY <1>3 DEF BatchInsertThrows
    <2>2. SubSeq(batch, 1, k) \in Seq(1..stmt.n)
      <3>1. 1 \in 1..Len(batch) + 1 /\ k \in 1 - 1..Len(batch)
        BY <1>0
      <3> QED BY <1>0, <3>1, SubSeqProperties
    <2>3. applied' \in Seq(1..stmt.n)
      BY <1>0, <2>1, <2>2, ConcatProperties
    <2> QED BY <1>3, <2>3 DEF ModifyTypeOK, BatchInsertThrows, Fails, inputVars
  <1> QED BY <1>1, <1>2, <1>3 DEF BatchStep

\* A direct modification keeps the type.
LEMMA DirectType ==
    ASSUME ModifyTypeOK, pljs_fdw_iterate_direct_modify \/ DirectModifyThrows
    PROVE  ModifyTypeOK'
  <1>0. /\ stmt.n \in Nat /\ stmt.tag \in BOOLEAN /\ class.counts \in BOOLEAN
        /\ MaxCount \in Nat
    BY StatementFacts, ClassFacts, ModifyAssumption DEF ModifyTypeOK
  <1>1. CASE pljs_fdw_iterate_direct_modify
    <2>1. processed' \in Nat
      BY <1>0, <1>1 DEF ModifyTypeOK, pljs_fdw_iterate_direct_modify, CountRows
    <2> QED BY <1>0, <1>1, <2>1, AllRowsType
            DEF ModifyTypeOK, pljs_fdw_iterate_direct_modify, inputVars
  <1>2. CASE DirectModifyThrows
    <2>1. applied' \in Seq(1..stmt.n)
      BY <1>0, <1>2, AllRowsType, ZenonT(60) DEF ModifyTypeOK, DirectModifyThrows
    <2> QED BY <1>2, <2>1 DEF ModifyTypeOK, DirectModifyThrows, Fails, inputVars
  <1> QED BY <1>1, <1>2

\* Every step keeps the type.
LEMMA ModifyNextType ==
    ASSUME ModifyTypeOK, [ModifyNext]_modifyVars
    PROVE  ModifyTypeOK'
  <1>1. CASE UNCHANGED modifyVars
    BY <1>1 DEF ModifyTypeOK, modifyVars, inputVars, effectVars
  <1> QED BY <1>1, ControlType, RowType, BatchType, DirectType DEF ModifyNext

\* The type invariant holds for every class, statement and batch size.
THEOREM ModifyTypeCorrect == ModifySpec => []ModifyTypeOK
  BY ModifyInitType, ModifyNextType, PTL DEF ModifySpec

-----------------------------------------------------------------------------
(* What the source is told *)

\* s lists, in order and once each, the rows before k that are to be changed.
Lists(s, k) ==
    /\ \A i \in 1..Len(s) : s[i] \in stmt.keep /\ s[i] < k
    /\ \A i, j \in 1..Len(s) : i < j => s[i] < s[j]
    /\ \A r \in stmt.keep : r < k => \E i \in 1..Len(s) : s[i] = r

\* Nothing lists the rows before the first one.
LEMMA ListsNothing ==
    ASSUME stmt.keep \subseteq 1..stmt.n, stmt.n \in Nat
    PROVE  Lists(<<>>, 1)
  BY DEF Lists

\* A row that is to be changed is appended ...
LEMMA ListsAppend ==
    ASSUME stmt.n \in Nat, stmt.keep \subseteq 1..stmt.n,
           NEW s \in Seq(1..stmt.n), NEW k \in stmt.keep, Lists(s, k)
    PROVE  Lists(Append(s, k), k + 1)
  <1> DEFINE t == Append(s, k)
  <1>1. /\ Len(s) \in Nat /\ Len(t) = Len(s) + 1
        /\ \A i \in 1..Len(s) : t[i] = s[i]
        /\ t[Len(s) + 1] = k
        /\ k \in Nat
    BY AppendProperties
  <1>2. \A i \in 1..Len(s) : s[i] \in Nat
    BY ElementOfSeq
  <1> HIDE DEF t
  <1>3. \A i \in 1..Len(t) : t[i] \in stmt.keep /\ t[i] < k + 1
    BY <1>1, <1>2 DEF Lists
  <1>4. ASSUME NEW i \in 1..Len(t), NEW j \in 1..Len(t), i < j
        PROVE  t[i] < t[j]
    <2>1. i \in 1..Len(s) /\ t[i] = s[i]
      BY <1>1, <1>4
    <2>2. CASE j \in 1..Len(s)
      BY <1>1, <1>4, <2>1, <2>2 DEF Lists
    <2>3. CASE j = Len(s) + 1
      BY <1>1, <2>1, <2>3 DEF Lists
    <2> QED BY <1>1, <2>2, <2>3
  <1>5. ASSUME NEW r \in stmt.keep, r < k + 1
        PROVE  \E i \in 1..Len(t) : t[i] = r
    <2>1. CASE r = k
      BY <1>1, <2>1
    <2>2. CASE r # k
      <3>1. r < k
        BY <1>1, <1>5, <2>2
      <3>2. PICK i \in 1..Len(s) : s[i] = r
        BY <3>1 DEF Lists
      <3>3. i \in 1..Len(t) /\ t[i] = r
        BY <1>1, <3>2
      <3> QED BY <3>3
    <2> QED BY <2>1, <2>2
  <1>6. Lists(t, k + 1)
    BY <1>3, <1>4, <1>5 DEF Lists
  <1> QED BY <1>6 DEF t

\* ... and one that is not is passed over.
LEMMA ListsSkip ==
    ASSUME stmt.n \in Nat, stmt.keep \subseteq 1..stmt.n,
           NEW s \in Seq(1..stmt.n), NEW k \in Nat, k \notin stmt.keep,
           Lists(s, k)
    PROVE  Lists(s, k + 1)
  <1>1. \A r \in stmt.keep : r \in Nat /\ (r < k + 1 <=> r < k)
    OBVIOUS
  <1> QED BY <1>1 DEF Lists

\* Consecutive rows, all of which are to be changed, are appended together.
LEMMA ListsConcat ==
    ASSUME stmt.n \in Nat, stmt.keep = 1..stmt.n,
           NEW s \in Seq(1..stmt.n), NEW b \in Seq(1..stmt.n), NEW k \in Nat,
           Lists(s, k), \A i \in 1..Len(b) : b[i] = k - 1 + i
    PROVE  Lists(s \o b, k + Len(b))
  <1> DEFINE t == s \o b
  <1>1. /\ Len(s) \in Nat /\ Len(b) \in Nat /\ Len(t) = Len(s) + Len(b)
        /\ \A i \in 1..Len(t) :
              t[i] = IF i <= Len(s) THEN s[i] ELSE b[i - Len(s)]
    BY ConcatProperties
  <1>2. /\ \A i \in 1..Len(s) : s[i] \in 1..stmt.n
        /\ \A i \in 1..Len(b) : b[i] \in 1..stmt.n
    BY ElementOfSeq
  <1> HIDE DEF t
  <1>3. ASSUME NEW i \in 1..Len(t)
        PROVE  \/ i \in 1..Len(s) /\ t[i] = s[i] /\ t[i] < k
               \/ i > Len(s) /\ t[i] = k - 1 + (i - Len(s))
    <2>1. CASE i <= Len(s)
      BY <1>1, <2>1 DEF Lists
    <2>2. CASE i > Len(s)
      <3>1. i - Len(s) \in 1..Len(b)
        BY <1>1, <2>2
      <3>2. t[i] = b[i - Len(s)]
        BY <1>1, <2>2
      <3>3. b[i - Len(s)] = k - 1 + (i - Len(s))
        BY <3>1
      <3> QED BY <2>2, <3>2, <3>3
    <2> QED BY <1>1, <2>1, <2>2
  <1>4. ASSUME NEW i \in 1..Len(t)
        PROVE  t[i] \in stmt.keep /\ t[i] < k + Len(b)
    <2>1. t[i] \in 1..stmt.n
      <3>1. t \in Seq(1..stmt.n)
        BY ConcatProperties DEF t
      <3> QED BY <3>1, ElementOfSeq
    <2> QED BY <1>1, <1>3, <2>1
  <1>5. ASSUME NEW i \in 1..Len(t), NEW j \in 1..Len(t), i < j
        PROVE  t[i] < t[j]
    <2>1. CASE j \in 1..Len(s)
      <3>1. i \in 1..Len(s) /\ t[i] = s[i] /\ t[j] = s[j]
        BY <1>1, <1>5, <2>1
      <3> QED BY <1>5, <2>1, <3>1 DEF Lists
    <2>2. CASE j > Len(s)
      <3>1. t[j] = k - 1 + (j - Len(s))
        BY <1>1, <1>3, <2>2
      <3>2. t[i] \in Nat
        BY <1>4
      <3> QED BY <1>1, <1>3, <1>5, <2>2, <3>1, <3>2
    <2> QED BY <1>1, <2>1, <2>2
  <1>6. ASSUME NEW r \in stmt.keep, r < k + Len(b)
        PROVE  \E i \in 1..Len(t) : t[i] = r
    <2>1. CASE r < k
      <3>1. PICK i \in 1..Len(s) : s[i] = r
        BY <2>1 DEF Lists
      <3>2. i \in 1..Len(t) /\ t[i] = r
        BY <1>1, <3>1
      <3> QED BY <3>2
    <2>2. CASE r >= k
      <3> DEFINE i == Len(s) + (r - k) + 1
      <3>1. i \in 1..Len(t) /\ i > Len(s)
        BY <1>1, <1>6, <2>2
      <3>2. t[i] = r
        BY <1>1, <1>3, <3>1
      <3> QED BY <3>1, <3>2
    <2> QED BY <2>1, <2>2
  <1>7. Lists(t, k + Len(b))
    BY <1>4, <1>5, <1>6 DEF Lists
  <1> QED BY <1>7 DEF t

\* A direct modification that changes everything goes through the rows in order.
LEMMA ListsAllRows ==
    ASSUME stmt.n \in Nat, stmt.keep = 1..stmt.n, NEW k \in 0..stmt.n
    PROVE  Lists(SubSeq(AllRows, 1, k), k + 1)
  <1>1. /\ Len(SubSeq(AllRows, 1, k)) = k
        /\ \A i \in 1..k : SubSeq(AllRows, 1, k)[i] = i
    BY AllRowsType
  <1> QED BY <1>1 DEF Lists

\* The inductive invariant.  Between its start and its end a statement has told
\* the source of the rows before the next one, except those of the batch, which
\* are the rows just before it; a direct modification is planned only for a
\* statement that changes all its rows.
Effect ==
    /\ phase \in {"new", "planned"} =>
          /\ next = 1 /\ batch = <<>> /\ ~executed
          /\ applied = <<>>
    /\ plan.direct =>
          /\ stmt.op \in {"UPDATE", "DELETE"} /\ stmt.uses = {}
          /\ stmt.keep = 1..stmt.n
    /\ \A i \in 1..Len(batch) : batch[i] = next - Len(batch) - 1 + i
    /\ batch # <<>> =>
          /\ stmt.op = "INSERT"
          /\ pljs_fdw_get_foreign_modify_batch_size # 1
    /\ phase = "running" /\ plan.direct =>
          Lists(applied, IF executed THEN stmt.n + 1 ELSE 1)
    /\ phase = "running" /\ ~plan.direct =>
          ~executed /\ Lists(applied, next - Len(batch))
    /\ phase = "done" => Lists(applied, stmt.n + 1)
    /\ phase = "error" => \E k \in Nat : Lists(applied, k)

\* Steps that start or end a statement.
LEMMA ControlEffect ==
    ASSUME ModifyTypeOK, Effect,
           \/ PlanStatement \/ (\E c \in Classes : ReplaceInstance(c))
           \/ BeginModify \/ NotUpdatable \/ EndModify
    PROVE  Effect'
  <1>0. /\ stmt \in Statements /\ stmt.n \in Nat /\ stmt.keep \subseteq 1..stmt.n
        /\ Lists(<<>>, 1) /\ Len(<<>>) = 0
    BY StatementFacts, ListsNothing, EmptySeq DEF ModifyTypeOK
  <1>1. CASE PlanStatement
    BY <1>0, <1>1, StatementFacts
    DEF Effect, PlanStatement, pljs_fdw_plan_direct_modify, inputVars,
        effectVars, Lists, pljs_fdw_get_foreign_modify_batch_size, Offers
  <1>2. CASE \E c \in Classes : ReplaceInstance(c)
    BY <1>0, <1>2 DEF Effect, ReplaceInstance, effectVars, Lists
  <1>3. CASE BeginModify
    BY <1>0, <1>3
    DEF Effect, BeginModify, inputVars, effectVars, Lists,
        pljs_fdw_get_foreign_modify_batch_size, Offers
  <1>4. CASE NotUpdatable
    BY <1>0, <1>4
    DEF Effect, NotUpdatable, Fails, inputVars, effectVars, Lists,
        pljs_fdw_get_foreign_modify_batch_size, Offers
  <1>5. CASE EndModify
    <2>1. Lists(applied, stmt.n + 1)
      <3>1. CASE plan.direct
        BY <1>5, <3>1 DEF Effect, EndModify
      <3>2. CASE ~plan.direct
        <4>1. next - Len(batch) = stmt.n + 1
          BY <1>0, <1>5, <3>2 DEF EndModify, ModifyTypeOK
        <4> QED BY <1>5, <3>2, <4>1 DEF Effect, EndModify
      <3> QED BY <3>1, <3>2
    <2> QED BY <1>5, <2>1
            DEF Effect, EndModify, inputVars, effectVars, Lists,
                pljs_fdw_get_foreign_modify_batch_size, Offers
  <1> QED BY <1>1, <1>2, <1>3, <1>4, <1>5

\* Steps that leave the statement, its plan, class and batch as they are.
LEMMA EffectFrame ==
    ASSUME UNCHANGED <<inputVars, plan>>
    PROVE  /\ \A k : Lists(applied, k)' <=> Lists(applied', k)
           /\ pljs_fdw_get_foreign_modify_batch_size'
                 = pljs_fdw_get_foreign_modify_batch_size
  BY DEF Lists, inputVars, pljs_fdw_get_foreign_modify_batch_size, Offers

\* Steps that go row by row tell the source of the row they are at, or stop.
LEMMA RowEffect ==
    ASSUME ModifyTypeOK, Effect, RowStep \/ TruncateTable \/ TruncateFails
    PROVE  Effect'
  <1>0. /\ stmt.n \in Nat /\ stmt.keep \subseteq 1..stmt.n
        /\ stmt.op \in {"INSERT", "TRUNCATE"} => stmt.keep = 1..stmt.n
        /\ applied \in Seq(1..stmt.n) /\ next \in Nat
    BY StatementFacts DEF ModifyTypeOK
  <1>1. /\ phase = "running" /\ ~plan.direct /\ batch = <<>> /\ batch' = batch
        /\ UNCHANGED <<inputVars, plan, executed>>
    BY <1>0
    DEF RowStep, SkipRow, ExecForeignRow, ExecForeignRowThrows,
        ExecForeignRowUnsupported, TruncateTable, TruncateFails, AtCall, AtRow,
        Fails, Effect
  <1>2. Lists(applied, next) /\ Len(batch) = 0
    <2>1. Len(batch) = 0 /\ next - Len(batch) = next
      BY <1>0, <1>1
    <2> QED BY <1>1, <2>1 DEF Effect
  <1>3. \A k : Lists(applied, k)' <=> Lists(applied', k)
    BY <1>1, EffectFrame
  <1>4. ASSUME phase' = "running", next' = next + 1, Lists(applied', next + 1)
        PROVE  Effect'
    <2>1. (next - Len(batch))' = next + 1
      BY <1>0, <1>1, <1>2, <1>4
    <2>2. Lists(applied, next - Len(batch))'
      BY <1>3, <1>4, <2>1 DEF Lists, inputVars
    <2> QED BY <1>1, <1>4, <2>2 DEF Effect, inputVars
  <1>5. ASSUME phase' = "error", \E k \in Nat : Lists(applied', k)
        PROVE  Effect'
    <2>1. (\E j \in Nat : Lists(applied, j))'
      BY <1>3, <1>5
    <2> QED BY <1>1, <1>5, <2>1 DEF Effect, inputVars
  <1>6. CASE SkipRow
    <2>1. Lists(applied, next + 1)
      BY <1>0, <1>2, <1>6, ListsSkip DEF SkipRow
    <2> QED BY <1>1, <1>4, <1>6, <2>1 DEF SkipRow, effectVars
  <1>7. CASE ExecForeignRow
    <2>1. Lists(Append(applied, next), next + 1)
      BY <1>0, <1>2, <1>7, ListsAppend DEF ExecForeignRow, AtCall
    <2> QED BY <1>1, <1>4, <1>7, <2>1 DEF ExecForeignRow
  <1>8. CASE ExecForeignRowThrows
    <2>1. Lists(Append(applied, next), next + 1)
      BY <1>0, <1>2, <1>8, ListsAppend DEF ExecForeignRowThrows, AtCall
    <2>2. next + 1 \in Nat /\ applied' \in {applied, Append(applied, next)}
      BY <1>0, <1>8 DEF ExecForeignRowThrows
    <2>3. \E k \in Nat : Lists(applied', k)
      BY <1>0, <1>2, <2>1, <2>2
    <2> QED BY <1>5, <1>8, <2>3 DEF ExecForeignRowThrows, Fails
  <1>9. CASE ExecForeignRowUnsupported
    BY <1>0, <1>2, <1>5, <1>9
    DEF ExecForeignRowUnsupported, Fails, effectVars
  <1>10. ASSUME TruncateTable \/ TruncateFails
         PROVE  Lists(Append(applied, next), next + 1)
    <2>1. next \in stmt.keep
      BY <1>0, <1>10 DEF TruncateTable, TruncateFails, AtRow, ModifyTypeOK
    <2> QED BY <1>0, <1>2, <2>1, ListsAppend
  <1>11. CASE TruncateTable
    BY <1>1, <1>4, <1>10, <1>11 DEF TruncateTable
  <1>12. CASE TruncateFails
    <2>1. next + 1 \in Nat /\ applied' \in {applied, Append(applied, next)}
      BY <1>0, <1>12 DEF TruncateFails
    <2>2. \E k \in Nat : Lists(applied', k)
      BY <1>0, <1>2, <1>10, <1>12, <2>1
    <2> QED BY <1>5, <1>12, <2>2 DEF TruncateFails, Fails
  <1> QED BY <1>6, <1>7, <1>8, <1>9, <1>11, <1>12 DEF RowStep

\* Steps of a batch: the rows in it are those the source is told of next.
LEMMA BatchEffect ==
    ASSUME ModifyTypeOK, Effect, BatchStep
    PROVE  Effect'
  <1>0. /\ stmt.n \in Nat /\ stmt.keep = 1..stmt.n
        /\ applied \in Seq(1..stmt.n) /\ batch \in Seq(1..stmt.n)
        /\ next \in 1 .. stmt.n + 1 /\ Len(batch) \in Nat
    BY StatementFacts
    DEF ModifyTypeOK, BatchStep, BufferRow, pljs_fdw_exec_foreign_batch_insert,
        BatchInsertThrows, FlushDue, Batching
  <1>1. /\ phase = "running" /\ stmt.op = "INSERT" /\ ~plan.direct
        /\ pljs_fdw_get_foreign_modify_batch_size # 1
        /\ UNCHANGED <<inputVars, plan, executed>>
    BY ModifyAssumption
    DEF BatchStep, BufferRow, pljs_fdw_exec_foreign_batch_insert, Effect,
        BatchInsertThrows, FlushDue, Batching, Fails,
        pljs_fdw_get_foreign_modify_batch_size
  <1>2. /\ \A k : Lists(applied, k)' <=> Lists(applied', k)
        /\ pljs_fdw_get_foreign_modify_batch_size' # 1
    BY <1>1, EffectFrame
  <1>3. /\ Lists(applied, next - Len(batch))
        /\ \A i \in 1..Len(batch) : batch[i] = next - Len(batch) - 1 + i
    BY <1>1 DEF Effect
  <1>4. next - Len(batch) \in Nat
    <2>1. CASE Len(batch) = 0
      BY <1>0, <2>1
    <2>2. CASE Len(batch) # 0
      <3>1. 1 \in 1..Len(batch) /\ batch[1] \in 1..stmt.n
        BY <1>0, <2>2, ElementOfSeq
      <3>2. batch[1] = next - Len(batch)
        BY <1>0, <1>3, <3>1
      <3> QED BY <3>1, <3>2
    <2> QED BY <2>1, <2>2
  <1>5. CASE BufferRow
    <2>1. /\ Len(batch') = Len(batch) + 1
          /\ \A i \in 1..Len(batch) : batch'[i] = batch[i]
          /\ batch'[Len(batch) + 1] = next
          /\ next' = next + 1 /\ phase' = phase /\ applied' = applied
      <3>1. next \in 1..stmt.n
        BY <1>0, <1>5 DEF BufferRow
      <3> QED BY <1>0, <1>5, <3>1, AppendProperties DEF BufferRow, effectVars
    <2>2. \A i \in 1..Len(batch') : batch'[i] = next' - Len(batch') - 1 + i
      <3> SUFFICES ASSUME NEW i \in 1..Len(batch')
                   PROVE  batch'[i] = next' - Len(batch') - 1 + i
        OBVIOUS
      <3>1. CASE i \in 1..Len(batch)
        BY <1>0, <1>3, <2>1, <3>1
      <3>2. CASE i = Len(batch) + 1
        BY <1>0, <2>1, <3>2
      <3> QED BY <1>0, <2>1, <3>1, <3>2
    <2>3. (next - Len(batch))' = next - Len(batch)
      BY <1>0, <2>1
    <2>4. Lists(applied, next - Len(batch))'
      BY <1>1, <1>3, <2>1, <2>3 DEF Lists, inputVars
    <2> QED BY <1>1, <1>2, <2>1, <2>2, <2>4 DEF Effect, inputVars
  <1>6. CASE pljs_fdw_exec_foreign_batch_insert
    <2>1. /\ applied' = applied \o batch /\ batch' = <<>>
          /\ next' = next /\ phase' = phase
      BY <1>6 DEF pljs_fdw_exec_foreign_batch_insert
    <2>2. Lists(applied \o batch, (next - Len(batch)) + Len(batch))
      BY <1>0, <1>3, <1>4, ListsConcat
    <2>3. /\ (next - Len(batch)) + Len(batch) = next
          /\ (next - Len(batch))' = next /\ Len(batch') = 0
      BY <1>0, <2>1
    <2>4. Lists(applied, next - Len(batch))'
      BY <1>1, <2>1, <2>2, <2>3 DEF Lists, inputVars
    <2> QED BY <1>1, <2>1, <2>3, <2>4 DEF Effect, inputVars
  <1>7. CASE BatchInsertThrows
    <2>1. PICK k \in 0..Len(batch) : applied' = applied \o SubSeq(batch, 1, k)
      BY <1>7 DEF BatchInsertThrows
    <2>2. /\ SubSeq(batch, 1, k) \in Seq(1..stmt.n)
          /\ Len(SubSeq(batch, 1, k)) = k
          /\ \A i \in 1..k : SubSeq(batch, 1, k)[i] = batch[i]
      <3>1. 1 \in 1..Len(batch) + 1 /\ k \in 1 - 1..Len(batch)
        BY <1>0
      <3>2. /\ SubSeq(batch, 1, k) \in Seq(1..stmt.n)
            /\ Len(SubSeq(batch, 1, k)) = k - 1 + 1
            /\ \A i \in 1..(k - 1 + 1) :
                  SubSeq(batch, 1, k)[i] = batch[1 + i - 1]
        BY <1>0, <3>1, SubSeqProperties
      <3> QED BY <3>2
    <2>3. \A i \in 1..k : SubSeq(batch, 1, k)[i] = next - Len(batch) - 1 + i
      BY <1>0, <1>3, <2>2
    <2>4. Lists(applied', (next - Len(batch)) + k)
      BY <1>0, <1>3, <1>4, <2>1, <2>2, <2>3, ListsConcat
    <2>5. (next - Len(batch)) + k \in Nat
      BY <1>4
    <2>6. (\E j \in Nat : Lists(applied, j))'
      BY <1>2, <2>4, <2>5
    <2> QED BY <1>1, <1>2, <1>3, <1>7, <2>6
            DEF Effect, BatchInsertThrows, Fails, inputVars
  <1> QED BY <1>5, <1>6, <1>7 DEF BatchStep

\* The one call of a direct modification.
LEMMA DirectEffect ==
    ASSUME ModifyTypeOK, Effect,
           pljs_fdw_iterate_direct_modify \/ DirectModifyThrows
    PROVE  Effect'
  <1>0. /\ stmt.n \in Nat /\ stmt.keep = 1..stmt.n /\ plan.direct
        /\ phase = "running" /\ ~executed /\ stmt.op # "INSERT"
        /\ Lists(applied, 1)
    BY StatementFacts
    DEF ModifyTypeOK, Effect, pljs_fdw_iterate_direct_modify, AtDirect,
        DirectModifyThrows
  <1>1. UNCHANGED <<inputVars, plan>> /\ batch = <<>> /\ batch' = <<>>
    BY <1>0 DEF Effect, pljs_fdw_iterate_direct_modify, DirectModifyThrows, Fails
  <1>2. \A k : Lists(applied, k)' <=> Lists(applied', k)
    BY <1>1, EffectFrame
  <1>3. CASE pljs_fdw_iterate_direct_modify
    <2>1. SubSeq(AllRows, 1, stmt.n) = AllRows
      BY <1>0, AllRowsType, SubSeqFull
    <2>2. Lists(AllRows, stmt.n + 1)
      <3>1. stmt.n \in 0..stmt.n
        BY <1>0
      <3> QED BY <1>0, <2>1, <3>1, ListsAllRows
    <2>3. Lists(applied, stmt.n + 1)'
      BY <1>1, <1>3, <2>2 DEF pljs_fdw_iterate_direct_modify, Lists, inputVars
    <2> QED BY <1>0, <1>1, <1>3, <2>3
            DEF Effect, pljs_fdw_iterate_direct_modify, inputVars
  <1>4. CASE DirectModifyThrows
    <2>1. \E k \in Nat : Lists(applied', k)
      <3>1. CASE UNCHANGED applied
        BY <1>0, <3>1
      <3>2. CASE \E k \in 0..stmt.n : applied' = SubSeq(AllRows, 1, k)
        <4>1. PICK k \in 0..stmt.n : applied' = SubSeq(AllRows, 1, k)
          BY <3>2
        <4>2. Lists(applied', k + 1) /\ k + 1 \in Nat
          BY <1>0, <4>1, ListsAllRows
        <4> QED BY <4>2
      <3> QED BY <1>4, <3>1, <3>2 DEF DirectModifyThrows
    <2>2. (\E k \in Nat : Lists(applied, k))'
      BY <1>2, <2>1
    <2> QED BY <1>0, <1>1, <1>4, <2>2
            DEF Effect, DirectModifyThrows, Fails, inputVars
  <1> QED BY <1>3, <1>4

\* Every step keeps the invariant.
LEMMA NextEffect ==
    ASSUME ModifyTypeOK, Effect, [ModifyNext]_modifyVars
    PROVE  Effect'
  <1>1. CASE UNCHANGED modifyVars
    BY <1>1, EffectFrame
    DEF Effect, modifyVars, inputVars, effectVars, Lists
  <1> QED BY <1>1, ControlEffect, RowEffect, BatchEffect, DirectEffect
          DEF ModifyNext

\* What has been listed is in order, and complete when the statement is done.
LEMMA EffectImplies ==
    ASSUME ModifyTypeOK, Effect
    PROVE  EffectInOrder
  <1>0. stmt.n \in Nat /\ stmt.keep \subseteq 1..stmt.n /\ Lists(<<>>, 1)
    BY StatementFacts, ListsNothing DEF ModifyTypeOK
  <1>1. \E k : Lists(applied, k) /\ k \in Int
    <2>1. CASE phase = "running" /\ ~plan.direct
      <3>1. next - Len(batch) \in Int
        BY <1>0 DEF ModifyTypeOK
      <3> QED BY <2>1, <3>1 DEF Effect
    <2>2. CASE phase \in {"new", "planned"}
      BY <1>0, <2>2 DEF Effect
    <2>3. CASE phase = "running" /\ plan.direct
      BY <1>0, <2>3 DEF Effect
    <2>4. CASE phase \in {"done", "error"}
      BY <1>0, <2>4 DEF Effect
    <2> QED BY <2>1, <2>2, <2>3, <2>4 DEF ModifyTypeOK
  <1>2. PICK k \in Int : Lists(applied, k)
    BY <1>1
  <1>3. /\ \A i \in 1..Len(applied) : applied[i] \in stmt.keep
        /\ \A i, j \in 1..Len(applied) : i < j => applied[i] < applied[j]
    BY <1>2 DEF Lists
  <1>4. ASSUME NEW r \in stmt.keep, NEW i \in 1..Len(applied), r < applied[i]
        PROVE  \E j \in 1..Len(applied) : applied[j] = r
    <2>1. r \in Int /\ applied[i] \in Int /\ applied[i] < k
      BY <1>0, <1>2 DEF Lists
    <2>2. r < k
      BY <1>4, <2>1
    <2> QED BY <1>2, <2>2 DEF Lists
  <1>5. ASSUME phase = "done", NEW r \in stmt.keep
        PROVE  \E i \in 1..Len(applied) : applied[i] = r
    <2>1. r < stmt.n + 1
      BY <1>0
    <2> QED BY <1>5, <2>1 DEF Effect, Lists
  <1> QED BY <1>3, <1>4, <1>5 DEF EffectInOrder

\* The source is told what the statement says: on every path, whatever class
\* the plan meets, it changes the rows of the statement in order and once, and
\* all of them if the statement succeeds.
THEOREM EffectsInOrder == ModifySpec => []EffectInOrder
  <1>1. ModifyInit => Effect
    BY EmptySeq DEF ModifyInit, Effect
  <1>2. ModifySpec => []Effect
    BY <1>1, ModifyTypeCorrect, NextEffect, PTL DEF ModifySpec
  <1> QED BY <1>2, ModifyTypeCorrect, EffectImplies, PTL

-----------------------------------------------------------------------------
(* The command tag *)

Counted == IF stmt.tag THEN Len(applied) ELSE 0

\* TagCountsRows holds from the start, not only at the end.
Tagged ==
    /\ phase \in {"new", "planned"} => processed = 0
    /\ phase # "error" /\ stmt.op # "TRUNCATE" /\ (plan.direct => class.counts)
          => processed = Counted

\* Every step counts the rows it tells the source of.
LEMMA NextTagged ==
    ASSUME ModifyTypeOK, Effect, Tagged, [ModifyNext]_modifyVars
    PROVE  Tagged'
  <1>0. /\ stmt.n \in Nat /\ stmt.tag \in BOOLEAN /\ class.counts \in BOOLEAN
        /\ applied \in Seq(1..stmt.n) /\ Len(applied) \in Nat
        /\ batch \in Seq(1..stmt.n) /\ Len(<<>>) = 0
    BY StatementFacts, ClassFacts DEF ModifyTypeOK
  <1>1. ASSUME phase \in {"new", "planned"}, phase' # "error",
               UNCHANGED <<stmt, applied, processed>>
        PROVE  Tagged'
    <2>1. processed = 0 /\ applied = <<>>
      BY <1>1 DEF Tagged, Effect
    <2> QED BY <1>0, <1>1, <2>1 DEF Tagged, Counted
  <1>2. ASSUME phase' = "error"
        PROVE  Tagged'
    BY <1>2 DEF Tagged
  <1>3. ASSUME phase = "running", phase' \notin {"new", "planned"},
               UNCHANGED <<class, stmt, plan>>,
               stmt.op = "TRUNCATE" \/ UNCHANGED <<applied, processed>>
        PROVE  Tagged'
    BY <1>3 DEF Tagged, Counted
  <1>4. CASE PlanStatement \/ BeginModify \/ \E c \in Classes : ReplaceInstance(c)
    <2>1. CASE phase' = "error"
      BY <1>2, <2>1
    <2>2. CASE phase' # "error"
      BY <1>1, <1>4, <2>2
      DEF PlanStatement, BeginModify, ReplaceInstance, inputVars, effectVars
    <2> QED BY <2>1, <2>2
  <1>5. CASE \/ NotUpdatable \/ ExecForeignRowThrows \/ ExecForeignRowUnsupported
             \/ BatchInsertThrows \/ DirectModifyThrows \/ TruncateFails
    BY <1>2, <1>5
    DEF NotUpdatable, ExecForeignRowThrows, ExecForeignRowUnsupported,
        BatchInsertThrows, DirectModifyThrows, TruncateFails, Fails
  <1>6. CASE SkipRow \/ BufferRow \/ EndModify \/ TruncateTable
    BY <1>3, <1>6
    DEF SkipRow, BufferRow, EndModify, TruncateTable, AtRow, Batching,
        inputVars, effectVars
  <1>7. ASSUME NEW m \in Nat, phase = "running", phase' = phase,
               Len(applied') = Len(applied) + m, CountRows(m),
               UNCHANGED <<class, stmt, plan>>
        PROVE  Tagged'
    BY <1>0, <1>7 DEF Tagged, Counted, CountRows
  <1>8. CASE ExecForeignRow
    <2>1. next \in 1..stmt.n
      BY <1>0, <1>8 DEF ModifyTypeOK, ExecForeignRow, AtCall, AtRow
    <2>2. Len(applied') = Len(applied) + 1
      BY <1>0, <1>8, <2>1, AppendProperties DEF ExecForeignRow
    <2> QED BY <1>7, <1>8, <2>2 DEF ExecForeignRow, AtCall, AtRow, inputVars
  <1>9. CASE pljs_fdw_exec_foreign_batch_insert
    <2>1. Len(applied') = Len(applied) + Len(batch) /\ Len(batch) \in Nat
      BY <1>0, <1>9, ConcatProperties DEF pljs_fdw_exec_foreign_batch_insert
    <2> QED BY <1>7, <1>9, <2>1
            DEF pljs_fdw_exec_foreign_batch_insert, FlushDue, Batching, inputVars
  <1>10. CASE pljs_fdw_iterate_direct_modify
    <2>1. /\ phase = "running" /\ plan.direct /\ ~executed
          /\ UNCHANGED <<class, stmt, plan, phase>>
          /\ stmt.op \in {"UPDATE", "DELETE"}
      BY <1>10 DEF pljs_fdw_iterate_direct_modify, AtDirect, inputVars, Effect
    <2>2. Len(applied) = 0
      <3>1. Lists(applied, 1) /\ stmt.keep = 1..stmt.n
        BY <2>1 DEF Effect
      <3>2. \A i \in 1..Len(applied) : FALSE
        BY <1>0, <3>1 DEF Lists
      <3> QED BY <1>0, <3>2
    <2>3. Len(applied') = Len(applied) + stmt.n
      BY <1>0, <1>10, <2>2, AllRowsType DEF pljs_fdw_iterate_direct_modify
    <2>4. CASE class.counts
      BY <1>0, <1>7, <1>10, <2>1, <2>3, <2>4 DEF pljs_fdw_iterate_direct_modify
    <2>5. CASE ~class.counts
      BY <2>1, <2>5 DEF Tagged
    <2> QED BY <2>4, <2>5
  <1>11. CASE UNCHANGED modifyVars
    BY <1>11 DEF Tagged, Counted, modifyVars, inputVars, effectVars
  <1> QED BY <1>4, <1>5, <1>6, <1>8, <1>9, <1>10, <1>11
          DEF ModifyNext, RowStep, BatchStep

\* The command tag counts the rows that were changed, whichever path the
\* statement took.
THEOREM TagsCountRows == ModifySpec => []TagCountsRows
  <1>1. ModifyInit => Effect /\ Tagged
    BY EmptySeq, StatementFacts
    DEF ModifyInit, Effect, Tagged, Counted
  <1>2. ModifySpec => [](Effect /\ Tagged)
    BY <1>1, ModifyTypeCorrect, NextEffect, NextTagged, PTL DEF ModifySpec
  <1>3. Tagged => TagCountsRows
    BY DEF Tagged, TagCountsRows, Counted
  <1> QED BY <1>2, <1>3, PTL

-----------------------------------------------------------------------------
(* What looks at the rows *)

Seen(entry) ==
    \A c \in Columns : stmt.op # "DELETE" =>
        /\ entry.result = NoResult => entry.slot[c] = "given"
        /\ entry.result # NoResult /\ c \in entry.result => entry.slot[c] = "source"

\* EveryRowLookedAt, row by row.
Looked ==
    /\ \A i \in 1..Len(looked) : Seen(looked[i])
    /\ phase # "error" /\ SlotUsed /\ stmt.op # "TRUNCATE" =>
          /\ Len(looked) = Len(applied)
          /\ \A i \in 1..Len(looked) : looked[i].row = applied[i]

\* A statement that nothing looks into uses no slot.
LEMMA NoUse == stmt.uses = {} => ~SlotUsed
  BY DEF SlotUsed, Uses

\* Every step keeps the rows that are looked at in line with the rows that are
\* changed.
LEMMA NextLooked ==
    ASSUME ModifyTypeOK, Effect, Looked, [ModifyNext]_modifyVars
    PROVE  Looked'
  <1>0. /\ stmt.n \in Nat
        /\ applied \in Seq(1..stmt.n)
        /\ looked \in Seq([row : 1..stmt.n, result : Results \cup {NoResult},
                            slot : [Columns -> {"given", "source", "null"}]])
        /\ Len(looked) \in Nat
    BY StatementFacts DEF ModifyTypeOK
  <1>1. ASSUME looked' = looked, stmt' = stmt,
               \/ phase' = "error"
               \/ phase # "error" /\ applied' = applied
               \/ ~SlotUsed
               \/ stmt.op = "TRUNCATE"
        PROVE  Looked'
    BY <1>1 DEF Looked, Seen, SlotUsed, Uses
  <1>2. CASE \/ PlanStatement \/ (\E c \in Classes : ReplaceInstance(c))
             \/ BeginModify \/ NotUpdatable \/ EndModify
    BY <1>1, <1>2
    DEF PlanStatement, ReplaceInstance, BeginModify, NotUpdatable, EndModify,
        Fails, inputVars, effectVars
  <1>3. CASE SkipRow \/ ExecForeignRowUnsupported \/ ExecForeignRowThrows
    BY <1>1, <1>3
    DEF SkipRow, ExecForeignRowUnsupported, ExecForeignRowThrows, AtRow, Fails,
        inputVars, effectVars
  <1>4. CASE BatchStep
    <2>1. stmt.uses = {} /\ looked' = looked /\ stmt' = stmt
      BY <1>4
      DEF BatchStep, BufferRow, pljs_fdw_exec_foreign_batch_insert,
          BatchInsertThrows, FlushDue, Batching, Fails, inputVars, effectVars,
          pljs_fdw_get_foreign_modify_batch_size
    <2> QED BY <1>1, <2>1, NoUse
  <1>5. CASE pljs_fdw_iterate_direct_modify \/ DirectModifyThrows
    BY <1>1, <1>5, NoUse
    DEF pljs_fdw_iterate_direct_modify, DirectModifyThrows, AtDirect, Effect,
        Fails, inputVars
  <1>6. CASE TruncateTable \/ TruncateFails
    BY <1>1, <1>6 DEF TruncateTable, TruncateFails, AtRow, Fails, inputVars
  <1>7. CASE ExecForeignRow
    <2>1. PICK result \in ResultsOf(stmt.op) : Look(result)
      BY <1>7 DEF ExecForeignRow
    <2>2. /\ applied' = Append(applied, next) /\ stmt' = stmt /\ phase' = phase
          /\ phase = "running" /\ stmt.op # "TRUNCATE" /\ next \in 1..stmt.n
      BY <1>0, <1>7
      DEF ExecForeignRow, AtCall, AtRow, inputVars, ModifyTypeOK
    <2>3. CASE ~SlotUsed
      BY <1>1, <2>1, <2>2, <2>3 DEF Look
    <2>4. CASE SlotUsed
      <3> DEFINE entry == [row |-> next, result |-> result,
                   slot |-> pljs_fdw_apply_jsvalue_to_slot(GivenSlot, result)]
      <3>2. Seen(entry) /\ entry.row = next
        BY DEF Seen, pljs_fdw_apply_jsvalue_to_slot, GivenSlot
      <3>3. /\ Len(looked') = Len(looked) + 1
            /\ \A i \in 1..Len(looked) : looked'[i] = looked[i]
            /\ looked'[Len(looked) + 1] = entry
        BY <1>0, <2>1, <2>4, AppendProperties DEF Look
      <3>4. /\ Len(applied') = Len(applied) + 1
            /\ \A i \in 1..Len(applied) : applied'[i] = applied[i]
            /\ applied'[Len(applied) + 1] = next
        BY <1>0, <2>2, AppendProperties
      <3>5. /\ Len(looked) = Len(applied)
            /\ \A i \in 1..Len(looked) : looked[i].row = applied[i]
            /\ \A i \in 1..Len(looked) : Seen(looked[i])
        BY <2>2, <2>4 DEF Looked
      <3> HIDE DEF entry
      <3>6. ASSUME NEW i \in 1..Len(looked')
            PROVE  Seen(looked'[i]) /\ looked'[i].row = applied'[i]
        <4>1. CASE i \in 1..Len(looked)
          BY <3>3, <3>4, <3>5, <4>1
        <4>2. CASE i = Len(looked) + 1
          BY <3>2, <3>3, <3>4, <3>5, <4>2
        <4>3. i \in 1..Len(looked) \/ i = Len(looked) + 1
          BY <1>0, <3>3, SMTT(30)
        <4> QED BY <4>1, <4>2, <4>3
      <3> QED BY <2>2, <3>3, <3>4, <3>5, <3>6 DEF Looked, Seen
    <2> QED BY <2>3, <2>4
  <1>8. CASE UNCHANGED modifyVars
    BY <1>8 DEF Looked, Seen, SlotUsed, Uses, modifyVars, inputVars, effectVars
  <1> QED BY <1>2, <1>3, <1>4, <1>5, <1>6, <1>7, <1>8 DEF ModifyNext, RowStep

\* RETURNING, row triggers and checks see every changed row, in order, with the
\* columns the class handed back, whatever objects insert() and update() return.
THEOREM RowsLookedAt == ModifySpec => []EveryRowLookedAt
  <1>1. ModifyInit => Effect /\ Looked
    BY EmptySeq DEF ModifyInit, Effect, Looked
  <1>2. ModifySpec => [](Effect /\ Looked)
    BY <1>1, ModifyTypeCorrect, NextEffect, NextLooked, PTL DEF ModifySpec
  <1>3. ModifyTypeOK /\ Looked => EveryRowLookedAt
    <2> SUFFICES ASSUME ModifyTypeOK, Looked PROVE EveryRowLookedAt
      OBVIOUS
    <2>1. \A i \in 1..Len(looked) : Seen(looked[i])
      BY DEF Looked
    <2>2. ASSUME phase # "error", SlotUsed, stmt.op # "TRUNCATE"
          PROVE  [i \in 1..Len(looked) |-> looked[i].row] = applied
      <3>1. /\ Len(looked) = Len(applied)
            /\ \A i \in 1..Len(looked) : looked[i].row = applied[i]
        BY <2>2 DEF Looked
      <3>2. applied = [i \in 1..Len(applied) |-> applied[i]]
        BY LenProperties DEF ModifyTypeOK
      <3> QED BY <3>1, <3>2
    <2> QED BY <2>1, <2>2 DEF EveryRowLookedAt, Seen
  <1> QED BY <1>2, <1>3, ModifyTypeCorrect, PTL

-----------------------------------------------------------------------------
(* Falling back to single rows *)

\* FallsBack with what makes it inductive: a plan knows the row identity of the
\* class it was made for, which is a column.
Fallback ==
    /\ phase \in {"planned", "running"} /\ stmt.op \in {"UPDATE", "DELETE"} =>
          /\ plan.identity = plan.class.rowIdColumn
          /\ plan.identity \in Columns \cup {NoColumn}
    /\ FallsBack

\* Every step keeps the identity known, and refuses for a reason.
LEMMA NextFallback ==
    ASSUME ModifyTypeOK, Fallback, [ModifyNext]_modifyVars
    PROVE  Fallback'
  <1>0. stmt.op \in {"INSERT", "UPDATE", "DELETE", "TRUNCATE"}
    BY StatementFacts DEF ModifyTypeOK
  <1>1. ASSUME reason' # "unsupported",
               phase' \in {"planned", "running"} =>
                   phase \in {"planned", "running"} /\ UNCHANGED <<stmt, plan>>
        PROVE  Fallback'
    BY <1>1 DEF Fallback, FallsBack
  <1>2. CASE PlanStatement
    <2>1. CASE UnknownIdentity(stmt.op)
      BY <1>1, <1>2, <2>1 DEF PlanStatement
    <2>2. CASE ~UnknownIdentity(stmt.op)
      BY <1>2, <2>2
      DEF PlanStatement, UnknownIdentity, RowIdentity, Fallback, FallsBack,
          inputVars, ModifyTypeOK
    <2> QED BY <2>1, <2>2
  <1>3. CASE NotUpdatable
    BY <1>0, <1>3
    DEF NotUpdatable, Fails, Updatable, Fallback, FallsBack, RowMethod, Offers,
        inputVars
  <1>4. CASE ExecForeignRowUnsupported
    BY <1>0, <1>4
    DEF ExecForeignRowUnsupported, Fails, AtCall, AtRow, RowSupported,
        IdentityFound, Fallback, FallsBack, RowMethod, Offers, inputVars
  <1>5. CASE TruncateFails
    BY <1>5 DEF TruncateFails, Fails, AtRow, Fallback, FallsBack, inputVars
  <1>6. CASE \/ ExecForeignRowThrows \/ BatchInsertThrows \/ DirectModifyThrows
    BY <1>1, <1>6
    DEF ExecForeignRowThrows, BatchInsertThrows, DirectModifyThrows, Fails
  <1>7. CASE \/ (\E c \in Classes : ReplaceInstance(c)) \/ BeginModify
             \/ SkipRow \/ ExecForeignRow \/ BufferRow
             \/ pljs_fdw_exec_foreign_batch_insert
             \/ pljs_fdw_iterate_direct_modify \/ TruncateTable \/ EndModify
    <2>1. /\ phase \in {"planned", "running"} /\ reason' = reason
          /\ UNCHANGED <<stmt, plan>>
      BY <1>7
      DEF ReplaceInstance, BeginModify, SkipRow, ExecForeignRow, BufferRow,
          pljs_fdw_exec_foreign_batch_insert, pljs_fdw_iterate_direct_modify,
          TruncateTable, EndModify, AtRow, AtCall, FlushDue, Batching, AtDirect,
          inputVars
    <2> QED BY <1>1, <2>1 DEF ModifyTypeOK
  <1>8. CASE UNCHANGED modifyVars
    BY <1>8
    DEF Fallback, FallsBack, RowMethod, Offers, modifyVars, inputVars
  <1> QED BY <1>2, <1>3, <1>4, <1>5, <1>6, <1>7, <1>8
          DEF ModifyNext, RowStep, BatchStep

\* "Otherwise it falls back to the per-row path automatically": a statement is
\* refused only if its class does not offer to change single rows, unless the
\* plan was made for another class.
THEOREM FallsBackToRows == ModifySpec => []FallsBack
  <1>1. ModifyInit => Fallback
    BY DEF ModifyInit, Fallback, FallsBack
  <1>2. ModifySpec => []Fallback
    BY <1>1, ModifyTypeCorrect, NextFallback, PTL DEF ModifySpec
  <1> QED BY <1>2, PTL DEF Fallback
=============================================================================
