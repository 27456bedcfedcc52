----------------------------- MODULE CopyRegion -----------------------------
(***************************************************************************)
(* The byte copies of FlatState::copy_values (fuguex-state/src/flat.rs) as *)
(* functions of the contents they start from.  b is a backing, s and d the *)
(* source and destination offsets, n the number of cells.                  *)
(***************************************************************************)
EXTENDS Integers

CONSTANT Size   \* backing.len()

ASSUME SizeAssumption == Size \in Nat

Cells == 0..(Size - 1)
Extent(a, n) == a..(a + n - 1)

\* What memmove leaves: every destination cell holds the old source cell.
Moved(b, s, d, n) ==
    [c \in Cells |-> IF c \in Extent(d, n) THEN b[s + (c - d)] ELSE b[c]]

\* The two element-by-element loops, each in closed form for every s and d
\* (module CopyLoop runs the loops): a loop that catches up with the cells it
\* has written itself repeats the first |d - s| of them.
AscendingCopy(b, s, d, n) ==
    [c \in Cells |->
        IF c \notin Extent(d, n) THEN b[c]
        ELSE IF d <= s THEN b[s + (c - d)]
        ELSE b[s + ((c - d) % (d - s))]]

DescendingCopy(b, s, d, n) ==
    [c \in Cells |->
        IF c \notin Extent(d, n) THEN b[c]
        ELSE IF s <= d THEN b[s + (c - d)]
        ELSE b[s + n - 1 - ((d + n - 1 - c) % (s - d))]]

\* (mutation) the direction of the loop is swapped.
OverlapCopySwapped(b, s, d, n) ==
    IF d < s THEN DescendingCopy(b, s, d, n) ELSE AscendingCopy(b, s, d, n)

\* The direction copy_values chooses.
OverlapCopy(b, s, d, n) ==
    IF d < s THEN AscendingCopy(b, s, d, n) ELSE DescendingCopy(b, s, d, n)

\* Ranges that do not overlap are copied slice to slice, and the upper slice
\* runs to the end of the backing: clone_from_slice panics unless the upper
\* range ends there too.
LengthsDiffer(s, d, n) ==
    \/ d >= s + n /\ d + n # Size
    \/ d < s + n /\ d + n <= s /\ s + n # Size

\* What a copy that does not panic leaves.
Copied(b, s, d, n) ==
    IF d >= s + n \/ d + n <= s THEN Moved(b, s, d, n) ELSE OverlapCopy(b, s, d, n)
=============================================================================
