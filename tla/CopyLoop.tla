------------------------------ MODULE CopyLoop ------------------------------
(***************************************************************************)
(* The unsafe loops of FlatState::copy_values for overlapping ranges       *)
(* (fuguex-state/src/flat.rs:172-190), one iteration per step: each reads  *)
(* a cell of the backing that an earlier iteration may have overwritten.   *)
(***************************************************************************)
EXTENDS CopyRegion

CONSTANT Contents   \* contents of a cell

VARIABLES
    loopSrc, loopDst, loopSize, \* the arguments of the copy
    loopUp,     \* the loop runs over 0..size, or over its reverse
    loopDone,   \* iterations done
    loopMem,    \* self.backing
    loopOrig    \* history: the backing when the loop started

loopVars == <<loopSrc, loopDst, loopSize, loopUp, loopDone, loopMem, loopOrig>>

Overlapping(s, d, n) == s # d /\ s < d + n /\ d < s + n

\* (mutation) the test at flat.rs:173 is reversed.
AscendsSwapped == loopSrc < loopDst

\* The loop that copy_values picks for these arguments.
Ascends == loopDst < loopSrc

LoopInit ==
    /\ loopSrc \in 0..Size /\ loopDst \in 0..Size /\ loopSize \in 0..Size
    /\ loopSrc + loopSize <= Size /\ loopDst + loopSize <= Size
    /\ Overlapping(loopSrc, loopDst, loopSize)
    /\ loopUp \in BOOLEAN
    /\ loopDone = 0
    /\ loopOrig \in [Cells -> Contents]
    /\ loopMem = loopOrig

\* The loop variable in the iteration that comes next.
Index == IF loopUp THEN loopDone ELSE loopSize - 1 - loopDone

\* (mutation) the loop steps over every other cell.
IterateByTwo ==
    /\ loopDone < loopSize
    /\ loopMem' = [loopMem EXCEPT ![loopDst + Index] = loopMem[loopSrc + Index]]
    /\ loopDone' = loopDone + 2
    /\ UNCHANGED <<loopSrc, loopDst, loopSize, loopUp, loopOrig>>

Iterate ==
    /\ loopDone < loopSize
    /\ loopMem' = [loopMem EXCEPT ![loopDst + Index] = loopMem[loopSrc + Index]]
    /\ loopDone' = loopDone + 1
    /\ UNCHANGED <<loopSrc, loopDst, loopSize, loopUp, loopOrig>>

LoopEnded == loopDone = loopSize

LoopNext == Iterate

LoopSpec == LoopInit /\ [][LoopNext]_loopVars

-----------------------------------------------------------------------------
LoopTypeOK ==
    /\ loopSrc \in 0..Size /\ loopDst \in 0..Size /\ loopSize \in 0..Size
    /\ loopSrc + loopSize <= Size /\ loopDst + loopSize <= Size
    /\ Overlapping(loopSrc, loopDst, loopSize)
    /\ loopUp \in BOOLEAN
    /\ loopDone \in 0..loopSize
    /\ loopMem \in [Cells -> Contents]
    /\ loopOrig \in [Cells -> Contents]

\* The loop copy_values picks (ascending exactly when the destination is below
\* the source) ends with the result of memmove: no iteration reads a cell an
\* earlier one has overwritten.  The other direction has no such promise.
EndsAsMemmove ==
    LoopEnded /\ loopUp = Ascends => loopMem = Moved(loopOrig, loopSrc, loopDst, loopSize)
=============================================================================
