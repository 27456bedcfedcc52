------------------------------- MODULE MCWalkers -------------------------------
(* A program for TLC: 1 and 3 branch on a condition, forwards and backwards,  *)
(* 2 branches over a branch of its own.                                       *)
EXTENDS Walkers, TLC

CONSTANT MaxWalk    \* length of walks

Global(a) == [local |-> FALSE, to |-> a]
Local(i) == [local |-> TRUE, to |-> i]

Program ==
    (0 :> [next |-> 1, branches |-> <<>>]) @@
    (1 :> [next |-> 2, branches |-> <<Global(3)>>]) @@
    (2 :> [next |-> 3, branches |-> <<Local(3), Global(3)>>]) @@
    (3 :> [next |-> 4, branches |-> <<Global(0)>>])

\* Walks along the paths of the program, over 1 and 3.
Way(a, b) == [from |-> a, to |-> b]
Ways == {Way(1, 2), Way(1, 3), Way(3, 4), Way(3, 0)}
Follows(e, f) == f.from = (CASE e.to \in {2, 3} -> 3 [] e.to = 0 -> 1 [] e.to = 4 -> 5)

Paths ==
    {w \in UNION {[1..n -> Ways] : n \in 0..MaxWalk} :
        /\ w # <<>> => w[1].from = 1
        /\ \A i \in 1..(Len(w) - 1) : Follows(w[i], w[i + 1])}

AllHookSets == SUBSET {"RandomWalker", "BranchTracker"}

\* Memory with a hole.
BytesWithHole == [a \in 0..4 |-> IF a = 0 THEN Unmapped ELSE a]
=============================================================================
