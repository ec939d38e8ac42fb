--------------------------- MODULE MCForeignModify ---------------------------
(* Small instances of ForeignModify for TLC. *)
EXTENDS ForeignModify

MCClass(methods, rowIdColumn, counts) ==
    [methods |-> methods, rowIdColumn |-> rowIdColumn, counts |-> counts]

\* Classes that may or may not offer each way to insert, ...
MCInserters ==
    {MCClass(ms, NoColumn, TRUE) : ms \in SUBSET {"insert", "insertMany"}}

\* ... and each way to update or to delete; what updateWhere() and deleteWhere()
\* return matters only where there is one.
MCModifierMethods ==
    SUBSET {"update", "updateWhere"} \cup SUBSET {"delete", "deleteWhere"}

MCModifiers ==
    {MCClass(ms, col, TRUE) :
        ms \in MCModifierMethods,
        col \in Columns \cup OtherNames \cup {NoColumn}}
    \cup
    {MCClass(ms, col, FALSE) :
        ms \in {m \in MCModifierMethods :
                 m \cap {"updateWhere", "deleteWhere"} # {}},
        col \in {CHOOSE c \in Columns : TRUE, NoColumn}}

MCClasses == MCInserters \cup MCModifiers

MCStatement(op, n, keep, uses, pushed, plain, constant, tag) ==
    [op |-> op, n |-> n, keep |-> keep, uses |-> uses, pushed |-> pushed,
     plain |-> plain, constant |-> constant, tag |-> tag]

MCUses == {{}, {"returning"}, {"check"}, {"trigger"}, {"returning", "trigger"}}

MCInserts ==
    {MCStatement("INSERT", n, 1..n, uses, TRUE, TRUE, TRUE, tag) :
        n \in 0..5, uses \in MCUses, tag \in BOOLEAN}

MCTruncates ==
    {MCStatement("TRUNCATE", n, 1..n, {}, TRUE, TRUE, TRUE, FALSE) : n \in 1..3}

\* An UPDATE or DELETE whose clauses are all pushed down, or that drops rows.
MCModifications ==
    {MCStatement(op, 3, 1..3, uses, TRUE, TRUE, constant, tag) :
        op \in {"UPDATE", "DELETE"}, uses \in {{}, {"returning"}, {"trigger"}},
        constant \in BOOLEAN, tag \in BOOLEAN}
    \cup
    {MCStatement(op, 3, keep, uses, plain, ~plain, constant, TRUE) :
        op \in {"UPDATE", "DELETE"}, keep \in {{}, {2}, {1, 3}, 1..3},
        uses \in {{}, {"returning"}}, plain \in BOOLEAN, constant \in BOOLEAN}

MCStatements == MCInserts \cup MCTruncates \cup MCModifications

\* What a class hands back: one column (the generated id of FDW_API.md), or the
\* whole row.
MCResults == {{CHOOSE c \in Columns : TRUE}, Columns}
=============================================================================
