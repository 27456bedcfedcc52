----------------------------- MODULE MCLiftCache -----------------------------
(* Instances of LiftCache for TLC: a byte that begins an instruction says how *)
(* long it is in the mode contexts begin with; in the other, all are short.   *)
EXTENDS LiftCache

FreshModes == [a \in Addresses |-> 1]
LengthOf == [v \in Contents |-> IF v.mode = 1 THEN v.byte ELSE 1]
=============================================================================
