---------------------------- MODULE MCFdwExecutor ----------------------------
(* Small instances of FdwExecutor for TLC. *)
EXTENDS FdwExecutor, TLC

MCOptionNames == {"module", "secret"}
MCNoMappings == {}

ExecutorSymmetry ==
    Permutations(Contexts) \cup Permutations(Iterators) \cup Permutations(Nodes)
=============================================================================
