------------------------------ MODULE MCPgWire ------------------------------
(* Small instances of PgWire for TLC. *)
EXTENDS PgWire

\* A NULL and a value of one byte; two values of different lengths.
MCNullable    == {-1, 1}
MCNotNullable == {1, 2}
=============================================================================
