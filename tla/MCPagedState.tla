----------------------------- MODULE MCPagedState -----------------------------
(* Instances of PagedState for TLC.                                          *)
EXTENDS PagedState, TLC

Window(lo, hi, offset) ==
    [lo |-> lo, hi |-> hi, kind |-> "Static", name |-> "rom", offset |-> offset,
     regions |-> {}, writable |-> {}]

Heap(lo, hi, regions, writable) ==
    [lo |-> lo, hi |-> hi, kind |-> "Mapping", name |-> "heap", offset |-> 0,
     regions |-> regions, writable |-> writable]

\* Two windows on inner, in the other order there.  The second holds the last
\* address but one: an access from it runs past the end of the address space,
\* and in inner into the cell of the first and a third, which is read-only.
TwoWindows == {Window(0, 1, 1), Window(5, 6, 0)}

\* A heap between them with one region, whose first byte is denied.
OneHeap == {Heap(1, 4, {[lo |-> 1, hi |-> 3]}, {2})}

\* The place that is left for a mapping.
OneExtent == {[lo |-> 4, hi |-> 5]}

\* What is never written does not hold the default.
UnwrittenSet ==
    \A h \in live :
        /\ \A i \in ReadOnly : flat[h][Inner][i] # Default
        /\ \A s \in Heaps \cap segments[h] : \A a \in Inside(s) \ s.writable : flat[h][s.lo][a - s.lo] # Default

HandleSymmetry == Permutations(Handles)
Relevant == <<live, segments, flat, tracks, Running>>
=============================================================================
