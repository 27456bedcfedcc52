----------------------------- MODULE MCPCodeState -----------------------------
(* Instances of PCodeState for TLC: bytes are bits, addresses have two of them. *)
EXTENDS PCodeState, TLC

\* Two bytes of memory, a register with a half of it, a temporary.
FewOffsets == [Memory |-> {0, 1}, Register |-> {0, 1}, Temporary |-> {0}]
Op(space, offset, size) == [space |-> space, offset |-> offset, size |-> size]
FewOperands ==
    {Op("Memory", 0, 2), Op("Memory", 1, 1), Op("Memory", 1, 2),
     Op("Register", 0, 2), Op("Register", 1, 1), Op("Temporary", 0, 1),
     Op("Constant", 6, 2), Op("Constant", 6, 8), Op("Constant", 6, 3), Op("Constant", 6, 9)}

HandleSymmetry == Permutations(Handles)
=============================================================================
