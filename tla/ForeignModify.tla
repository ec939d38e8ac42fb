---------------------------- MODULE ForeignModify ----------------------------
(***************************************************************************)
(* INSERT (COPY FROM included), UPDATE, DELETE and TRUNCATE of a foreign   *)
(* table: which path the planner chooses from what the FDW class offers    *)
(* (one row at a time, batches, or one call for the whole statement), and  *)
(* what reaches the data source, the command tag and RETURNING on it.      *)
(*                                                                         *)
(* The rows a statement goes through are numbered: the rows to insert, the *)
(* rows execute() yields for the pushed-down quals, or the tables to       *)
(* truncate.  Of these, keep are the ones the statement is to change.      *)
(* fdw.c has no transaction callbacks: what the source was told stays.     *)
(***************************************************************************)
EXTENDS Naturals, Sequences

CONSTANTS
    Columns,        \* columns of the foreign table
    OtherNames,     \* names that are not columns of the table
    NoColumn,       \* the class has no rowIdColumn
    Classes,        \* FDW classes: [methods, rowIdColumn, counts]
    Statements,     \* statements that are run
    Results,        \* columns of the object insert()/update() returns
    NoResult,       \* insert()/update() returns no object
    BatchSize,      \* PLJS_FDW_DEFAULT_BATCH_SIZE (100 in the code)
    MaxCount        \* bound: what a meaningless count converts to

Methods == {"insert", "insertMany", "update", "delete", "updateWhere",
            "deleteWhere"}

\* counts: updateWhere() and deleteWhere() return their row count.
Class == [methods : SUBSET Methods,
          rowIdColumn : Columns \cup OtherNames \cup {NoColumn},
          counts : BOOLEAN]

\* uses: what looks at the rows one by one.  pushed: every clause of WHERE is
\* pushed down.  plain: the ForeignScan is right below the ModifyTable.
\* constant: SET assigns constants only.  tag: the statement sets the tag.
Statement ==
    [op : {"INSERT", "UPDATE", "DELETE", "TRUNCATE"}, n : Nat, keep : SUBSET Nat,
     uses : SUBSET {"returning", "check", "trigger"},
     pushed : BOOLEAN, plain : BOOLEAN, constant : BOOLEAN, tag : BOOLEAN]

\* A statement that goes through its rows without filtering changes them all.
WellFormed(s) ==
    /\ s.keep \subseteq 1..s.n
    /\ s.op \in {"INSERT", "TRUNCATE"} \/ (s.pushed /\ s.plain) => s.keep = 1..s.n

ASSUME ModifyAssumption ==
    /\ Classes \subseteq Class
    /\ Statements \subseteq Statement
    /\ \A s \in Statements : WellFormed(s)
    /\ Results \subseteq SUBSET Columns
    /\ NoResult \notin Results
    /\ NoColumn \notin Columns
    /\ OtherNames \cap Columns = {}
    /\ BatchSize \in Nat \ {0, 1}
    /\ MaxCount \in Nat

VARIABLES
    class,      \* the class of the cached instance
    stmt,       \* the statement
    phase,      \* "new", "planned", "running", "done" or "error"
    reason,     \* why an ERROR was raised
    plan,       \* the chosen path, and what planning saw of the class
    next,       \* number of the next row
    batch,      \* rows waiting for ExecForeignBatchInsert
    executed,   \* dmstate->executed
    applied,    \* rows the source has changed, in order
    looked,     \* the slots callbacks return, as they are looked at
    processed   \* es_processed

inputVars  == <<class, stmt>>
effectVars == <<applied, looked, processed>>
modifyVars ==
    <<inputVars, phase, reason, plan, next, batch, executed, effectVars>>

Offers(method) == method \in class.methods

Uses(use) == use \in stmt.uses

-----------------------------------------------------------------------------
(* Planning *)

\* A faulty variant: only DELETE gets its row identity.
FaultyRowIdentity(op) == IF op = "DELETE" THEN class.rowIdColumn ELSE NoColumn

\* add_foreign_update_targets: the column registered as row identity.
RowIdentity(op) == IF op \in {"UPDATE", "DELETE"} THEN class.rowIdColumn
                   ELSE NoColumn

DirectMethod(op) == IF op = "UPDATE" THEN "updateWhere" ELSE "deleteWhere"

\* A faulty variant: clauses left to recheck are not noticed.
FaultyPlanDirect(s) ==
    /\ s.op \in {"UPDATE", "DELETE"}
    /\ s.uses = {}
    /\ s.plain
    /\ Offers(DirectMethod(s.op))
    /\ s.op = "UPDATE" => s.constant

\* External (createplan.c): PlanDirectModify is not even called with a WITH
\* CHECK OPTION.
pljs_fdw_plan_direct_modify(s) ==
    /\ s.op \in {"UPDATE", "DELETE"}
    /\ s.uses = {}
    /\ s.plain
    /\ s.pushed
    /\ Offers(DirectMethod(s.op))
    /\ s.op = "UPDATE" => s.constant

\* rowIdColumn names a column that does not exist: planning raises an ERROR.
UnknownIdentity(op) == RowIdentity(op) \notin Columns \cup {NoColumn}

PlanStatement ==
    /\ phase = "new"
    /\ IF UnknownIdentity(stmt.op)
       THEN phase' = "error" /\ reason' = "identity"
       ELSE phase' = "planned" /\ UNCHANGED reason
    /\ plan' = [direct |-> pljs_fdw_plan_direct_modify(stmt),
                identity |-> RowIdentity(stmt.op), class |-> class]
    /\ UNCHANGED <<inputVars, next, batch, executed, effectVars>>

\* The module is rewritten and the instance replaced.  A prepared statement
\* keeps the plan that was made for the old one.
ReplaceInstance(c) ==
    /\ phase = "planned"
    /\ class' = c
    /\ UNCHANGED <<stmt, phase, reason, plan, next, batch, executed, effectVars>>

-----------------------------------------------------------------------------
(* The start of the execution *)

\* pljs_fdw_is_foreign_rel_updatable; TRUNCATE is not asked for.
Updatable(op) ==
    \/ op = "TRUNCATE"
    \/ op = "INSERT" /\ Offers("insert")
    \/ /\ op = "UPDATE"
       /\ \/ class.rowIdColumn # NoColumn /\ Offers("update")
          \/ Offers("updateWhere")
    \/ /\ op = "DELETE"
       /\ \/ class.rowIdColumn # NoColumn /\ Offers("delete")
          \/ Offers("deleteWhere")

\* ereport(ERROR).
Fails(why) ==
    /\ phase' = "error"
    /\ reason' = why
    /\ UNCHANGED <<inputVars, plan, next, batch>>

\* External (execMain.c): the executor asks before BeginForeignModify.
BeginModify ==
    /\ phase = "planned"
    /\ Updatable(stmt.op)
    /\ phase' = "running"
    /\ UNCHANGED <<inputVars, reason, plan, next, batch, executed, effectVars>>

NotUpdatable ==
    /\ phase = "planned"
    /\ ~Updatable(stmt.op)
    /\ Fails("unsupported")
    /\ UNCHANGED <<executed, effectVars>>

\* A faulty variant: one row too many.
FaultyBatchLimit ==
    IF stmt.uses # {} \/ ~Offers("insertMany") THEN 1 ELSE BatchSize + 1

pljs_fdw_get_foreign_modify_batch_size ==
    IF stmt.uses # {} \/ ~Offers("insertMany") THEN 1 ELSE BatchSize

\* BeginForeignModify found the row identity in the plan and its type.
IdentityFound ==
    class.rowIdColumn \in Columns /\ class.rowIdColumn = plan.identity

-----------------------------------------------------------------------------
(* One row at a time *)

\* A statement that is not a direct modification and the row it is at.
AtRow(ops) ==
    /\ phase = "running"
    /\ stmt.op \in ops
    /\ ~plan.direct
    /\ next <= stmt.n

\* A local clause or a join drops the row.
SkipRow ==
    /\ AtRow({"UPDATE", "DELETE"})
    /\ next \notin stmt.keep
    /\ next' = next + 1
    /\ UNCHANGED <<inputVars, phase, reason, plan, batch, executed, effectVars>>

\* The method that is called for the row, if the class supports the operation.
RowMethod ==
    CASE stmt.op = "INSERT" -> "insert"
      [] stmt.op = "UPDATE" -> "update"
      [] stmt.op = "DELETE" -> "delete"

RowSupported ==
    /\ stmt.op \in {"UPDATE", "DELETE"} => IdentityFound
    /\ Offers(RowMethod)

\* ExecForeignInsert, ExecForeignUpdate or ExecForeignDelete is called.
AtCall ==
    /\ AtRow({"INSERT", "UPDATE", "DELETE"})
    /\ next \in stmt.keep
    /\ stmt.op = "INSERT" => pljs_fdw_get_foreign_modify_batch_size = 1

\* External (nodeModifyTable.c): what the executor puts into the slot of a row.
\* DELETE gets an empty slot, which reads as NULLs if the callback leaves it so.
GivenSlot == [c \in Columns |-> IF stmt.op = "DELETE" THEN "null" ELSE "given"]

\* A faulty variant: the returned object is ignored.
FaultyApply(slot, result) == slot

\* Every column is overwritten; one the object does not have becomes NULL.
pljs_fdw_apply_jsvalue_to_slot(slot, result) ==
    IF result = NoResult THEN slot
    ELSE [c \in Columns |-> IF c \in result THEN "source" ELSE "null"]

\* What is made of the value the method returns: that of delete() is dropped.
ResultsOf(op) == IF op = "DELETE" THEN {NoResult} ELSE Results \cup {NoResult}

\* External (nodeModifyTable.c): what looks at the slot after the call.  A row
\* trigger of DELETE looks at the row that was scanned instead.
SlotUsed == IF stmt.op = "DELETE" THEN Uses("returning") ELSE stmt.uses # {}

Look(result) ==
    looked' =
        IF ~SlotUsed THEN looked
        ELSE Append(looked, [row |-> next, result |-> result,
                 slot |-> pljs_fdw_apply_jsvalue_to_slot(GivenSlot, result)])

CountRows(n) == processed' = IF stmt.tag THEN processed + n ELSE processed

\* The method returns.
ExecForeignRow ==
    /\ AtCall
    /\ RowSupported
    /\ applied' = Append(applied, next)
    /\ \E result \in ResultsOf(stmt.op) : Look(result)
    /\ CountRows(1)
    /\ next' = next + 1
    /\ UNCHANGED <<inputVars, phase, reason, plan, batch, executed>>

\* The method throws, before or after the source has changed the row.
ExecForeignRowThrows ==
    /\ AtCall
    /\ RowSupported
    /\ applied' \in {applied, Append(applied, next)}
    /\ Fails("exception")
    /\ UNCHANGED <<executed, looked, processed>>

\* "foreign table does not support ...".
ExecForeignRowUnsupported ==
    /\ AtCall
    /\ ~RowSupported
    /\ Fails("unsupported")
    /\ UNCHANGED <<executed, effectVars>>

-----------------------------------------------------------------------------
(* Batches *)

Batching ==
    /\ phase = "running"
    /\ stmt.op = "INSERT"
    /\ pljs_fdw_get_foreign_modify_batch_size > 1

\* External (nodeModifyTable.c): a row joins the batch while there is room.
BufferRow ==
    /\ Batching
    /\ next <= stmt.n
    /\ Len(batch) < pljs_fdw_get_foreign_modify_batch_size
    /\ batch' = Append(batch, next)
    /\ next' = next + 1
    /\ UNCHANGED <<inputVars, phase, reason, plan, executed, effectVars>>

\* External: the batch is full, or there are no more rows.
FlushDue ==
    /\ Batching
    /\ batch # <<>>
    /\ \/ Len(batch) = pljs_fdw_get_foreign_modify_batch_size
       \/ next > stmt.n

\* A faulty variant: a batch counts as one row.
FaultyBatchCount ==
    /\ FlushDue
    /\ applied' = applied \o batch
    /\ CountRows(1)
    /\ batch' = <<>>
    /\ UNCHANGED <<inputVars, phase, reason, plan, next, executed, looked>>

\* insertMany() of the batch.  With no trigger, check or RETURNING nothing
\* looks at the slots its result is written to.
pljs_fdw_exec_foreign_batch_insert ==
    /\ FlushDue
    /\ applied' = applied \o batch
    /\ CountRows(Len(batch))
    /\ batch' = <<>>
    /\ UNCHANGED <<inputVars, phase, reason, plan, next, executed, looked>>

\* insertMany() throws, with some of the rows inserted.
BatchInsertThrows ==
    /\ FlushDue
    /\ \E k \in 0..Len(batch) : applied' = applied \o SubSeq(batch, 1, k)
    /\ Fails("exception")
    /\ UNCHANGED <<executed, looked, processed>>

-----------------------------------------------------------------------------
(* Direct modification *)

AtDirect == phase = "running" /\ plan.direct /\ ~executed

AllRows == [i \in 1..stmt.n |-> i]

\* The one call.  What is not a number has no defined conversion to uint64.
pljs_fdw_iterate_direct_modify ==
    /\ AtDirect
    /\ Offers(DirectMethod(stmt.op))
    /\ executed' = TRUE
    /\ applied' = AllRows
    /\ IF class.counts THEN CountRows(stmt.n)
       ELSE \E count \in 0..MaxCount : CountRows(count)
    /\ UNCHANGED <<inputVars, phase, reason, plan, next, batch, looked>>

\* The method throws, with some of the rows changed (numbered in the order the
\* source changes them), or is no longer there.
DirectModifyThrows ==
    /\ AtDirect
    /\ executed' = TRUE
    /\ \/ /\ Offers(DirectMethod(stmt.op))
          /\ \E k \in 0..stmt.n : applied' = SubSeq(AllRows, 1, k)
       \/ ~Offers(DirectMethod(stmt.op)) /\ UNCHANGED applied
    /\ Fails("exception")
    /\ UNCHANGED <<looked, processed>>

-----------------------------------------------------------------------------
(* TRUNCATE, table by table *)

TruncateTable ==
    /\ AtRow({"TRUNCATE"})
    /\ applied' = Append(applied, next)
    /\ next' = next + 1
    /\ UNCHANGED <<inputVars, phase, reason, plan, batch, executed, looked,
                   processed>>

\* The table's class has no truncate(), or it throws.
TruncateFails ==
    /\ AtRow({"TRUNCATE"})
    /\ \/ UNCHANGED applied /\ Fails("unsupported")
       \/ applied' \in {applied, Append(applied, next)} /\ Fails("exception")
    /\ UNCHANGED <<executed, looked, processed>>

-----------------------------------------------------------------------------

\* The last row is through; a direct modification has executed.
EndModify ==
    /\ phase = "running"
    /\ IF plan.direct THEN executed ELSE next > stmt.n /\ batch = <<>>
    /\ phase' = "done"
    /\ UNCHANGED <<inputVars, reason, plan, next, batch, executed, effectVars>>

ModifyInit ==
    /\ class \in Classes
    /\ stmt \in Statements
    /\ phase = "new"
    /\ reason = "none"
    /\ plan = [direct |-> FALSE, identity |-> NoColumn, class |-> class]
    /\ next = 1
    /\ batch = <<>>
    /\ executed = FALSE
    /\ applied = <<>>
    /\ looked = <<>>
    /\ processed = 0

RowStep ==
    \/ SkipRow
    \/ ExecForeignRow
    \/ ExecForeignRowThrows
    \/ ExecForeignRowUnsupported

BatchStep ==
    \/ BufferRow
    \/ pljs_fdw_exec_foreign_batch_insert
    \/ BatchInsertThrows

ModifyNext ==
    \/ PlanStatement
    \/ \E c \in Classes : ReplaceInstance(c)
    \/ BeginModify
    \/ NotUpdatable
    \/ RowStep
    \/ BatchStep
    \/ pljs_fdw_iterate_direct_modify
    \/ DirectModifyThrows
    \/ TruncateTable
    \/ TruncateFails
    \/ EndModify

ModifySpec == ModifyInit /\ [][ModifyNext]_modifyVars

-----------------------------------------------------------------------------
(* Properties *)

\* Every variable has its type, and an ERROR has a reason.
ModifyTypeOK ==
    /\ class \in Classes
    /\ stmt \in Statements
    /\ phase \in {"new", "planned", "running", "done", "error"}
    /\ reason \in {"none", "identity", "unsupported", "exception"}
    /\ phase = "error" <=> reason # "none"
    /\ plan \in [direct : BOOLEAN, class : Classes,
                 identity : Columns \cup OtherNames \cup {NoColumn}]
    /\ next \in 1 .. stmt.n + 1
    /\ batch \in Seq(1..stmt.n)
    /\ Len(batch) <= BatchSize
    /\ executed \in BOOLEAN
    /\ applied \in Seq(1..stmt.n)
    /\ looked \in Seq([row : 1..stmt.n, result : Results \cup {NoResult},
                        slot : [Columns -> {"given", "source", "null"}]])
    /\ processed \in Nat

\* The source is told what the statement says, whichever path was planned and
\* whatever class the plan then meets: at any time it has changed, in order and
\* once each, the first of the rows the statement is to change, and when the
\* statement succeeds it has changed all of them.
EffectInOrder ==
    /\ \A i \in 1..Len(applied) : applied[i] \in stmt.keep
    /\ \A i, j \in 1..Len(applied) : i < j => applied[i] < applied[j]
    /\ \A r \in stmt.keep, i \in 1..Len(applied) :
          r < applied[i] => \E j \in 1..Len(applied) : applied[j] = r
    /\ phase = "done" =>
          \A r \in stmt.keep : \E i \in 1..Len(applied) : applied[i] = r

\* The command tag counts the rows that were changed, if the statement sets it
\* and its class returns row counts as it is asked to.
TagCountsRows ==
    phase = "done" /\ stmt.op # "TRUNCATE" /\ (plan.direct => class.counts) =>
        processed = IF stmt.tag THEN Len(applied) ELSE 0

\* "Returning an object overwrites the inserted row's values; returning nothing
\* leaves the given values as-is": what looks at the rows of an INSERT or UPDATE
\* after the call sees what the class handed back for that row, or what was given
\* if it handed nothing back; and where rows are looked at, each changed row is,
\* in order, up to the row under way.  (Columns that a returned object leaves out
\* are NULL, given or not.)
EveryRowLookedAt ==
    /\ \A i \in 1..Len(looked), c \in Columns :
          LET result == looked[i].result
          IN  stmt.op # "DELETE" =>
                 /\ result = NoResult => looked[i].slot[c] = "given"
                 /\ result # NoResult /\ c \in result => looked[i].slot[c] = "source"
    /\ SlotUsed /\ stmt.op # "TRUNCATE" /\ phase # "error" =>
          [i \in 1..Len(looked) |-> looked[i].row] = applied

\* "Otherwise it falls back to the per-row path automatically": a statement the
\* class was asked about is refused only if the class does not offer to change
\* single rows, unless its plan was made for another class.
FallsBack ==
    reason = "unsupported" /\ stmt.op # "TRUNCATE" /\ plan.class = class =>
        \/ ~Offers(RowMethod)
        \/ stmt.op \in {"UPDATE", "DELETE"} /\ class.rowIdColumn = NoColumn

=============================================================================
