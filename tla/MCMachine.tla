------------------------------ MODULE MCMachine ------------------------------
(* An instance of Machine for TLC: an instruction of one operation, one of  *)
(* two, one of none, and an address with no instruction; the last one runs  *)
(* over the end of the address space.                                       *)
EXTENDS Machine

MCCode == {0, 1, 3}
MCOps == [a \in MCCode |-> CASE a = 0 -> 2 [] a = 1 -> 1 [] a = 3 -> 0]
MCLength == [a \in MCCode |-> CASE a = 0 -> 1 [] a = 1 -> 2 [] a = 3 -> 2]
MCBounds == [kind : {"Steps"}, steps : 0..3]
               \cup [kind : {"Address"}, address : {1, 3}]
               \cup [kind : {"Unbounded"}]
MCEntries == {[address |-> 0, position |-> 0], [address |-> 0, position |-> 1],
              [address |-> 1, position |-> 2], [address |-> 2, position |-> 0],
              [address |-> 3, position |-> 0]}
MCBranches == {NextBranch} \cup [kind : {"Local"}, offset : {-1, 0, 1, 2}]
                 \cup [kind : {"Global"}, address : {0, 2, 3}]
=============================================================================
