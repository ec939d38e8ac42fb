--------------------------- MODULE MCContextCache ---------------------------
(* Small instances of ContextCache for TLC. *)
EXTENDS ContextCache, TLC

MCOptionNames == {"module", "secret"}

\* A mapping without options, and mappings that set a credential or even
\* "module", which the validator does not restrict there.
MCMappingInputs ==
    LET p == CHOOSE v \in Paths : TRUE
    IN  {NoOptions,
         [NoOptions EXCEPT !["secret"] = p],
         [NoOptions EXCEPT !["module"] = p]}

MCNoMappings == {}

ContextSymmetry == Permutations(Contexts)
=============================================================================
