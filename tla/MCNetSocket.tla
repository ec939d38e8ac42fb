----------------------------- MODULE MCNetSocket -----------------------------
(* Small instances of NetSocket for TLC. *)
EXTENDS NetSocket, TLC

MCPayloads == {<<1, 2, 3>>, <<4>>}

ObjectSymmetry == Permutations(Objects)
=============================================================================
