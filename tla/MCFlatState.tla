----------------------------- MODULE MCFlatState -----------------------------
(* Instances of FlatState for TLC: the handles are interchangeable, and the *)
(* last call and its outcome have no influence on what follows, unless it   *)
(* was a panic.                                                             *)
EXTENDS FlatState, TLC

HandleSymmetry == Permutations(Handles)
Relevant == <<live, backing, indices, bitsmap, readable, writable, tracks, Running>>
=============================================================================
