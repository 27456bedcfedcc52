--------------------------- MODULE FlatStateProofs ---------------------------
(***************************************************************************)
(* FlatState proved for every size, block size and set of handles: types,  *)
(* the agreement of the two records of dirty blocks, that they stay in     *)
(* range, and that every difference from a snapshot a state may be rewound *)
(* to lies in its dirty blocks; and the loops of its copy_values.          *)
(***************************************************************************)
EXTENDS FlatState, CopyLoop, TLAPS

-----------------------------------------------------------------------------
(* The copies of CopyRegion are memmoves.                                  *)

\* In the direction copy_values chooses, the loop is a memmove.
LEMMA OverlapCopyIsMoved ==
    ASSUME NEW b, NEW s \in Nat, NEW d \in Nat, NEW n \in Nat
    PROVE  OverlapCopy(b, s, d, n) = Moved(b, s, d, n)
<1>1. CASE d < s
  BY <1>1 DEF OverlapCopy, AscendingCopy, Moved
<1>2. CASE ~ (d < s)
  BY <1>2 DEF OverlapCopy, DescendingCopy, Moved
<1> QED
  BY <1>1, <1>2

\* A copy that does not panic is a memmove (flat.rs:166-190).
LEMMA CopiedIsMoved ==
    ASSUME NEW b, NEW s \in Nat, NEW d \in Nat, NEW n \in Nat
    PROVE  Copied(b, s, d, n) = Moved(b, s, d, n)
BY OverlapCopyIsMoved DEF Copied

LEMMA MovedType ==
    ASSUME NEW V, NEW b \in [Cells -> V], NEW s \in Nat, NEW d \in Nat, NEW n \in Nat,
           s + n <= Size
    PROVE  Moved(b, s, d, n) \in [Cells -> V]
<1> SUFFICES ASSUME NEW c \in Cells, c \in Extent(d, n)
             PROVE  s + (c - d) \in Cells
  BY DEF Moved
<1> QED
  BY SizeAssumption DEF Cells, Extent

-----------------------------------------------------------------------------
(* Blocks.                                                                 *)

LEMMA DivBounds ==
    ASSUME NEW x \in Nat, NEW k \in Nat \ {0}
    PROVE  /\ x \div k \in Nat
           /\ (x \div k) * k <= x
           /\ x < (x \div k + 1) * k
OBVIOUS

LEMMA BlockOfNat ==
    ASSUME NEW a \in Nat
    PROVE  /\ BlockOf(a) \in Nat
           /\ BlockOf(a) * BlockSize <= a
           /\ a < (BlockOf(a) + 1) * BlockSize
BY DivBounds, FlatAssumption DEF BlockOf

LEMMA BlockOfMonotone ==
    ASSUME NEW a \in Nat, NEW b \in Nat, a <= b
    PROVE  BlockOf(a) <= BlockOf(b)
<1>1. /\ BlockOf(a) \in Nat /\ BlockOf(b) \in Nat
      /\ BlockOf(a) * BlockSize <= b
      /\ b < (BlockOf(b) + 1) * BlockSize
  BY BlockOfNat, FlatAssumption
<1>2. BlockOf(a) * BlockSize < (BlockOf(b) + 1) * BlockSize
  BY <1>1, FlatAssumption
<1> QED
  BY <1>1, <1>2, FlatAssumption

\* Every cell of a region lies in a block that dirty_region marks.
LEMMA SpanCovers ==
    ASSUME NEW a \in Nat, NEW n \in Nat, NEW c \in Extent(a, n)
    PROVE  BlockOf(c) \in SpanBlocks(a, n)
<1>1. c \in Nat /\ a <= c /\ c <= a + n
  BY DEF Extent
<1>2. BlockOf(a) <= BlockOf(c) /\ BlockOf(c) <= BlockOf(a + n)
  BY <1>1, BlockOfMonotone
<1> QED
  BY <1>1, <1>2, BlockOfNat DEF SpanBlocks

\* The blocks of a region inside the backing are blocks of the backing, the
\* one just past its end included.
LEMMA SpanInRange ==
    ASSUME NEW a \in Nat, NEW n \in Nat, InBounds(a, n)
    PROVE  SpanBlocks(a, n) \subseteq Blocks
<1>1. BlockOf(a + n) <= BlockOf(Size)
  BY BlockOfMonotone, SizeAssumption DEF InBounds
<1>2. BlockOf(a) \in Nat /\ BlockOf(a + n) \in Nat /\ BlockOf(Size) \in Nat
  BY BlockOfNat, SizeAssumption
<1> QED
  BY <1>1, <1>2 DEF SpanBlocks, Blocks

\* Every block of the backing has a bit in bitsmap and starts inside it.
LEMMA BlocksAddressable ==
    ASSUME NEW b \in Blocks
    PROVE  WordOf(b) < BitsmapLen /\ b * BlockSize <= Size
<1> DEFINE m == BlockOf(Size)
<1>1. m \in Nat /\ m * BlockSize <= Size
  BY BlockOfNat, SizeAssumption
<1>2. b \in Nat /\ b <= m
  BY <1>1 DEF Blocks
<1>3. b * BlockSize <= m * BlockSize
  BY <1>1, <1>2, FlatAssumption
<1>4. b \div WordBlocks < 1 + (1 + m) \div WordBlocks
  <2> DEFINE p == b \div WordBlocks
             q == (1 + m) \div WordBlocks
  <2>1. p \in Nat /\ p * WordBlocks <= b
    BY <1>2, DivBounds, FlatAssumption
  <2>2. q \in Nat /\ 1 + m < (q + 1) * WordBlocks
    <3> HIDE DEF m
    <3>1. 1 + m \in Nat
      BY <1>1
    <3> QED BY <3>1, DivBounds, FlatAssumption
  <2>3. p * WordBlocks < (q + 1) * WordBlocks
    BY <2>1, <2>2, <1>1, <1>2, FlatAssumption
  <2> QED
    BY <2>1, <2>2, <2>3, FlatAssumption
<1> QED
  BY <1>1, <1>2, <1>3, <1>4, SizeAssumption, FlatAssumption DEF WordOf, BitsmapLen

-----------------------------------------------------------------------------
(* The shapes a step can have.                                             *)

\* h receives contents that differ from its own in the region alone.
Stores(h, a, n, contents) ==
    /\ InBounds(a, n)
    /\ contents \in [Cells -> Values]
    /\ \A c \in Cells : c \notin Extent(a, n) => contents[c] = backing[h][c]
    /\ Store(h, a, n, contents)

Permits ==
    /\ readable' \in [Handles -> SUBSET Cells]
    /\ writable' \in [Handles -> SUBSET Cells]
    /\ result' = "Ok"
    /\ UNCHANGED <<live, backing, indices, bitsmap, tracks>>

LEMMA OverwrittenStores ==
    ASSUME TypeOK, NEW h \in live, NEW a \in Nat, NEW n \in Nat,
           NEW vals \in [0..(n - 1) -> Values], InBounds(a, n),
           Store(h, a, n, Overwritten(h, a, n, vals))
    PROVE  Stores(h, a, n, Overwritten(h, a, n, vals))
<1>1. backing[h] \in [Cells -> Values]
  BY DEF TypeOK
<1>2. \A c \in Extent(a, n) : c - a \in 0..(n - 1)
  BY DEF Extent
<1> QED
  BY <1>1, <1>2 DEF Stores, Overwritten

LEMMA MovedStores ==
    ASSUME TypeOK, NEW h \in live, NEW s \in Nat, NEW d \in Nat, NEW n \in Nat,
           InBounds(s, n), InBounds(d, n),
           Store(h, d, n, Moved(backing[h], s, d, n))
    PROVE  Stores(h, d, n, Moved(backing[h], s, d, n))
<1>1. backing[h] \in [Cells -> Values]
  BY DEF TypeOK
<1>2. Moved(backing[h], s, d, n) \in [Cells -> Values]
  BY <1>1, MovedType DEF InBounds
<1> QED
  BY <1>2 DEF Stores, Moved

LEMMA AccessShape ==
    ASSUME TypeOK, NEW h \in live, Access(h)
    PROVE  \/ \E status \in Statuses : Return(status)
           \/ \E a \in Nat, n \in Nat, contents \in [Cells -> Values] :
                 Stores(h, a, n, contents)
<1>1. PICK a \in Nat, n \in Nat :
        \/ ViewValues(h, a, n)
        \/ \E vals \in [0..(n - 1) -> Values] :
               SetValues(h, a, n, vals) \/ ViewValuesMut(h, a, n, vals)
        \/ \E d \in Nat : CopyValues(h, a, d, n)
  BY FlatAssumption DEF Access
<1>2. CASE ViewValues(h, a, n)
  BY <1>2 DEF ViewValues, Statuses, Faults
<1>3. CASE \E vals \in [0..(n - 1) -> Values] :
              SetValues(h, a, n, vals) \/ ViewValuesMut(h, a, n, vals)
  <2>1. PICK vals \in [0..(n - 1) -> Values] :
              SetValues(h, a, n, vals) \/ ViewValuesMut(h, a, n, vals)
    BY <1>3
  <2>2. \/ \E status \in Statuses : Return(status)
        \/ InBounds(a, n) /\ Store(h, a, n, Overwritten(h, a, n, vals))
    BY <2>1 DEF SetValues, ViewValuesMut, Statuses, Faults
  <2>3. Stores(h, a, n, Overwritten(h, a, n, vals)) =>
            Overwritten(h, a, n, vals) \in [Cells -> Values]
    BY DEF Stores
  <2> QED
    BY <2>2, <2>3, OverwrittenStores
<1>4. CASE \E d \in Nat : CopyValues(h, a, d, n)
  <2>1. PICK d \in Nat : CopyValues(h, a, d, n)
    BY <1>4
  <2>2. \/ \E status \in Statuses : Return(status)
        \/ InBounds(a, n) /\ InBounds(d, n)
              /\ Store(h, d, n, Moved(backing[h], a, d, n))
    BY <2>1, CopiedIsMoved DEF CopyValues, CopyAdmitted, Statuses, Faults
  <2>3. Stores(h, d, n, Moved(backing[h], a, d, n)) =>
            Moved(backing[h], a, d, n) \in [Cells -> Values]
    BY DEF Stores
  <2> QED
    BY <2>2, <2>3, MovedStores
<1> QED
  BY <1>1, <1>2, <1>3, <1>4

LEMMA PermitShape ==
    ASSUME TypeOK, NEW h \in live, Permit(h)
    PROVE  Permits
<1>1. PICK a \in Nat, n \in Nat, access \in Accesses :
        SetRegion(h, a, n, access) \/ ClearRegion(h, a, n, access)
  BY FlatAssumption DEF Permit
<1>2. InBounds(a, n)
  BY <1>1 DEF SetRegion, ClearRegion
<1>3. Extent(a, n) \subseteq Cells
  BY <1>2, SizeAssumption DEF InBounds, Extent, Cells
<1>4. CASE SetRegion(h, a, n, access)
  BY <1>3, <1>4 DEF SetRegion, Permits, TypeOK
<1>5. CASE ClearRegion(h, a, n, access)
  BY <1>3, <1>5 DEF ClearRegion, Permits, TypeOK
<1> QED
  BY <1>1, <1>4, <1>5

LEMMA NextShape ==
    ASSUME TypeOK, Next
    PROVE  \/ \E status \in Statuses : Return(status)
           \/ \E h \in live, a \in Nat, n \in Nat, contents \in [Cells -> Values] :
                 Stores(h, a, n, contents)
           \/ Permits
           \/ \E h \in live, k \in Handles : h # k /\ Fork(h, k)
           \/ \E h, k \in live : h # k /\ Restore(h, k)
BY AccessShape, PermitShape DEF Next

-----------------------------------------------------------------------------
(* Type correctness.                                                       *)

LEMMA StoresType ==
    ASSUME TypeOK, NEW h \in live, NEW a \in Nat, NEW n \in Nat,
           NEW contents, Stores(h, a, n, contents)
    PROVE  TypeOK'
<1>1. SpanBlocks(a, n) \subseteq Blocks
  BY SpanInRange DEF Stores
<1>2. tracks' \in [Handles -> SUBSET Handles]
  BY DEF Stores, Store, TracksAfterWrite, TypeOK
<1>3. /\ indices' \in [Handles -> SUBSET Blocks]
      /\ bitsmap' \in [Handles -> SUBSET Blocks]
  BY <1>1 DEF Stores, Store, DirtyRegion, TypeOK
<1>4. backing' \in [Handles -> [Cells -> Values]]
  BY DEF Stores, Store, TypeOK
<1> QED
  BY <1>2, <1>3, <1>4 DEF Stores, Store, TypeOK, Statuses

LEMMA BecomingType ==
    ASSUME TypeOK, NEW h \in Handles, NEW k \in Handles
    PROVE  /\ TracksAfterBecoming(h, k) \in [Handles -> SUBSET Handles]
           /\ TracksAfterLoss(h) \in [Handles -> SUBSET Handles]
BY DEF TypeOK, TracksAfterBecoming, TracksAfterLoss

LEMMA ForkType ==
    ASSUME TypeOK, NEW h \in live, NEW k \in Handles, Fork(h, k)
    PROVE  TypeOK'
<1>1. h \in Handles
  BY DEF TypeOK
<1>2. tracks' \in [Handles -> SUBSET Handles]
  BY <1>1, BecomingType DEF Fork
<1> QED
  BY <1>1, <1>2 DEF Fork, ForkDirty, TypeOK, Statuses

LEMMA RestoreType ==
    ASSUME TypeOK, NEW h \in live, NEW k \in live, Restore(h, k)
    PROVE  TypeOK'
<1>1. h \in Handles /\ k \in Handles
  BY DEF TypeOK
<1>2. tracks' \in [Handles -> SUBSET Handles]
  BY <1>1, BecomingType DEF Restore
<1>3. RestoredBacking(h, k) \in [Cells -> Values]
  BY <1>1 DEF RestoredBacking, TypeOK
<1>4. backing' \in [Handles -> [Cells -> Values]]
  BY <1>3 DEF Restore, TypeOK
<1> QED
  BY <1>1, <1>2, <1>4 DEF Restore, RestoreDirty, TypeOK, Statuses

\* Every run keeps every variable in its type; in particular the blocks marked
\* dirty are blocks of the backing.
THEOREM FlatTypeOK == Spec => []TypeOK
<1>1. Init => TypeOK
  BY FlatAssumption DEF Init, TypeOK, Statuses
<1>2. TypeOK /\ [Next]_vars => TypeOK'
  <2> SUFFICES ASSUME TypeOK, [Next]_vars PROVE TypeOK'
    OBVIOUS
  <2>1. ASSUME NEW status \in Statuses, Return(status) PROVE TypeOK'
    BY <2>1 DEF Return, TypeOK
  <2>2. CASE Permits
    BY <2>2 DEF Permits, TypeOK, Statuses
  <2>3. CASE UNCHANGED vars
    BY <2>3 DEF vars, TypeOK
  <2> QED
    BY <2>1, <2>2, <2>3, NextShape, StoresType, ForkType, RestoreType
<1> QED
  BY <1>1, <1>2, PTL DEF Spec

-----------------------------------------------------------------------------
(* The list and the bitmap of dirty blocks.                                *)

\* In every run the list of dirty blocks and the bitmap hold the same blocks
\* (flat.rs:383-393, and the clones made by fork and restore).
THEOREM FlatListMatchesBitsmap == Spec => []ListMatchesBitsmap
<1>1. Init => ListMatchesBitsmap
  BY DEF Init, ListMatchesBitsmap
<1>2. TypeOK /\ ListMatchesBitsmap /\ [Next]_vars => ListMatchesBitsmap'
  <2> SUFFICES ASSUME TypeOK, indices = bitsmap, [Next]_vars
               PROVE  indices' = bitsmap'
    BY DEF ListMatchesBitsmap
  <2>1. ASSUME NEW status \in Statuses, Return(status) PROVE indices' = bitsmap'
    BY <2>1 DEF Return
  <2>2. ASSUME NEW h \in live, NEW a \in Nat, NEW n \in Nat, NEW contents,
               Stores(h, a, n, contents)
        PROVE  indices' = bitsmap'
    BY <2>2 DEF Stores, Store, DirtyRegion
  <2>3. CASE Permits
    BY <2>3 DEF Permits
  <2>4. ASSUME NEW h \in live, NEW k \in Handles, Fork(h, k)
        PROVE  indices' = bitsmap'
    BY <2>4 DEF Fork, ForkDirty
  <2>5. ASSUME NEW h \in live, NEW k \in live, Restore(h, k)
        PROVE  indices' = bitsmap'
    BY <2>5 DEF Restore, RestoreDirty
  <2>6. CASE UNCHANGED vars
    BY <2>6 DEF vars
  <2> QED
    BY <2>1, <2>2, <2>3, <2>4, <2>5, <2>6, NextShape
<1> QED
  BY <1>1, <1>2, FlatTypeOK, PTL DEF Spec

\* In every run each dirty block has a bit in bitsmap and starts inside the
\* backing, so that neither dirty (flat.rs:383-393) nor restore (flat.rs:101-113)
\* can index out of bounds.
THEOREM FlatDirtyBlocksInRange == Spec => []DirtyBlocksInRange
<1>1. TypeOK => DirtyBlocksInRange
  <2> SUFFICES ASSUME TypeOK, NEW h \in live, NEW b \in indices[h]
               PROVE  WordOf(b) < BitsmapLen /\ b * BlockSize <= Size
    BY DEF DirtyBlocksInRange
  <2>1. b \in Blocks
    BY DEF TypeOK
  <2> QED
    BY <2>1, BlocksAddressable
<1> QED
  BY <1>1, FlatTypeOK, PTL

-----------------------------------------------------------------------------
(* Rewinding.  The invariant needs the agreement of list and bitmap: a     *)
(* write lists only the blocks whose bit was clear.                        *)

Covered(h, k) ==
    \A a \in Cells : backing[h][a] # backing[k][a] => BlockOf(a) \in indices[h]

RewindInv ==
    /\ TypeOK
    /\ ListMatchesBitsmap
    /\ \A h \in Handles : \A k \in tracks[h] : Covered(h, k)

LEMMA StoresCovered ==
    ASSUME RewindInv, NEW h \in live, NEW a \in Nat, NEW n \in Nat,
           NEW contents, Stores(h, a, n, contents),
           NEW j \in Handles, NEW k \in tracks'[j]
    PROVE  Covered(j, k)'
<1>1. /\ h \in Handles /\ k \in Handles
      /\ indices[h] = bitsmap[h]
      /\ tracks' = TracksAfterWrite(h)
      /\ tracks \in [Handles -> SUBSET Handles]
      /\ backing \in [Handles -> [Cells -> Values]]
      /\ indices \in [Handles -> SUBSET Blocks]
  BY DEF RewindInv, TypeOK, ListMatchesBitsmap, Stores, Store, TracksAfterWrite
<1>2. /\ backing' = [backing EXCEPT ![h] = contents]
      /\ indices' = [indices EXCEPT ![h] = @ \cup SpanBlocks(a, n)]
  BY <1>1 DEF Stores, Store, DirtyRegion
<1>3. k \in tracks[j] /\ (j # h => k # h)
  BY <1>1 DEF TracksAfterWrite
<1>4. Covered(j, k)
  BY <1>3 DEF RewindInv
<1>5. CASE j # h
  BY <1>1, <1>2, <1>3, <1>4, <1>5 DEF Covered
<1>6. CASE j = h
  <2> SUFFICES ASSUME NEW c \in Cells, backing'[h][c] # backing'[k][c]
               PROVE  BlockOf(c) \in indices'[h]
    BY <1>6 DEF Covered
  <2>1. CASE c \in Extent(a, n)
    BY <2>1, <1>1, <1>2, SpanCovers
  <2>2. CASE c \notin Extent(a, n)
    <3>1. contents[c] = backing[h][c]
      BY <2>2 DEF Stores
    <3>2. k # h
      BY <1>1, <1>2
    <3>3. backing[h][c] # backing[k][c]
      BY <3>1, <3>2, <1>1, <1>2
    <3> QED
      BY <3>3, <1>1, <1>2, <1>4, <1>6 DEF Covered
  <2> QED BY <2>1, <2>2
<1> QED
  BY <1>5, <1>6

\* A state that becomes an exact copy of another, marks included, inherits
\* what that one can be rewound to.
LEMMA BecomingCovered ==
    ASSUME RewindInv, NEW h \in Handles, NEW k \in Handles, h # k,
           backing' = [backing EXCEPT ![h] = backing[k]],
           indices' = [indices EXCEPT ![h] = indices[k]],
           tracks' = TracksAfterBecoming(h, k),
           NEW j \in Handles, NEW m \in tracks'[j]
    PROVE  Covered(j, m)'
<1>1. /\ tracks \in [Handles -> SUBSET Handles]
      /\ backing \in [Handles -> [Cells -> Values]]
      /\ indices \in [Handles -> SUBSET Blocks]
  BY DEF RewindInv, TypeOK
<1>2. m \in Handles
  BY <1>1 DEF TracksAfterBecoming
<1>3. CASE j = h
  <2>1. m # h /\ (m = k \/ m \in tracks[k])
    BY <1>1, <1>3 DEF TracksAfterBecoming
  <2>2. m \in tracks[k] => Covered(k, m)
    BY DEF RewindInv
  <2> QED
    BY <2>1, <2>2, <1>1, <1>2, <1>3 DEF Covered
<1>4. CASE j # h
  <2>1. \/ m = h /\ (j = k \/ k \in tracks[j])
        \/ m # h /\ m \in tracks[j]
    BY <1>1, <1>4 DEF TracksAfterBecoming
  <2>2. /\ k \in tracks[j] => Covered(j, k)
        /\ m \in tracks[j] => Covered(j, m)
    BY DEF RewindInv
  <2> QED
    BY <2>1, <2>2, <1>1, <1>2, <1>4 DEF Covered
<1> QED
  BY <1>3, <1>4

\* What restore leaves in h is the other state itself, when h may be rewound
\* to it: the cells it does not copy back were already equal.
LEMMA RestoredIsExact ==
    ASSUME RewindInv, NEW h \in Handles, NEW k \in tracks[h]
    PROVE  RestoredBacking(h, k) = backing[k]
<1>1. k \in Handles /\ backing[k] \in [Cells -> Values] /\ Covered(h, k)
  BY DEF RewindInv, TypeOK
<1> QED
  BY <1>1 DEF RestoredBacking, Covered

LEMMA LossCovered ==
    ASSUME RewindInv, NEW h \in Handles, NEW contents,
           backing' = [backing EXCEPT ![h] = contents],
           \A j \in Handles \ {h} : indices'[j] = indices[j],
           tracks' = TracksAfterLoss(h),
           NEW j \in Handles, NEW m \in tracks'[j]
    PROVE  Covered(j, m)'
<1>1. /\ tracks \in [Handles -> SUBSET Handles]
      /\ backing \in [Handles -> [Cells -> Values]]
  BY DEF RewindInv, TypeOK
<1>2. j # h /\ m # h /\ m \in tracks[j] /\ m \in Handles
  BY <1>1 DEF TracksAfterLoss
<1>3. Covered(j, m)
  BY <1>2 DEF RewindInv
<1> QED
  BY <1>1, <1>2, <1>3 DEF Covered

LEMMA RewindStep ==
    ASSUME RewindInv, TypeOK', ListMatchesBitsmap', [Next]_vars
    PROVE  RewindInv'
<1> SUFFICES ASSUME NEW j \in Handles, NEW m \in tracks'[j]
             PROVE  Covered(j, m)'
  BY DEF RewindInv
<1>0. TypeOK
  BY DEF RewindInv
<1>1. ASSUME UNCHANGED <<backing, indices, tracks>>
      PROVE  Covered(j, m)'
  BY <1>1 DEF RewindInv, Covered
<1>2. ASSUME NEW status \in Statuses, Return(status) PROVE Covered(j, m)'
  BY <1>1, <1>2 DEF Return
<1>3. CASE Permits
  BY <1>1, <1>3 DEF Permits
<1>4. CASE UNCHANGED vars
  BY <1>1, <1>4 DEF vars
<1>5. ASSUME NEW h \in live, NEW k \in Handles, h # k, Fork(h, k)
      PROVE  Covered(j, m)'
  <2>1. h \in Handles
    BY <1>0 DEF TypeOK
  <2> QED
    BY <2>1, <1>5, BecomingCovered DEF Fork, ForkDirty
<1>6. ASSUME NEW h \in live, NEW k \in live, h # k, Restore(h, k)
      PROVE  Covered(j, m)'
  <2>1. h \in Handles /\ k \in Handles
    BY <1>0 DEF TypeOK
  <2>2. indices' = [indices EXCEPT ![h] = indices[k]]
    BY <1>6 DEF Restore, RestoreDirty
  <2>3. CASE k \in tracks[h]
    <3>1. backing' = [backing EXCEPT ![h] = backing[k]]
      BY <2>1, <2>3, <1>6, RestoredIsExact DEF Restore
    <3>2. tracks' = TracksAfterBecoming(h, k)
      BY <2>3, <1>6 DEF Restore
    <3> QED
      BY <2>1, <2>2, <3>1, <3>2, <1>6, BecomingCovered
  <2>4. CASE k \notin tracks[h]
    <3>1. tracks' = TracksAfterLoss(h)
      BY <2>4, <1>6 DEF Restore
    <3>2. \A i \in Handles \ {h} : indices'[i] = indices[i]
      BY <2>2, <1>0 DEF TypeOK
    <3>3. backing' = [backing EXCEPT ![h] = RestoredBacking(h, k)]
      BY <1>6 DEF Restore
    <3> QED
      BY <2>1, <3>1, <3>2, <3>3, LossCovered
  <2> QED BY <2>3, <2>4
<1> QED
  BY <1>0, <1>2, <1>3, <1>4, <1>5, <1>6, NextShape, StoresCovered

LEMMA RewindInvariant == Spec => []RewindInv
<1>1. Init => RewindInv
  <2> SUFFICES ASSUME Init PROVE RewindInv
    OBVIOUS
  <2>1. TypeOK
    BY FlatAssumption DEF Init, TypeOK, Statuses
  <2> QED
    BY <2>1 DEF Init, RewindInv, ListMatchesBitsmap
<1>2. RewindInv /\ TypeOK' /\ ListMatchesBitsmap' /\ [Next]_vars => RewindInv'
  BY RewindStep
<1> QED
  BY <1>1, <1>2, FlatTypeOK, FlatListMatchesBitsmap, PTL DEF Spec

\* Whatever the sequence of accesses, forks and restores, a state differs from
\* a snapshot it may be rewound to only in its dirty blocks (flat.rs:101-113,
\* 383-403).
THEOREM FlatRewindCovered == Spec => []RewindCovered
<1>1. RewindInv => RewindCovered
  BY DEF RewindInv, RewindCovered, Covered, Differ
<1> QED
  BY <1>1, RewindInvariant, PTL

-----------------------------------------------------------------------------
(* Refinement: with the discipline, FlatState is SnapshotMemory.           *)

LEMMA RefusedMaps ==
    ASSUME NEW status \in Faults, Return(status)
    PROVE  Snapshots!Refused
BY DEF Return, Snapshots!Refused, Snapshots!Faults, Faults

LEMMA AdmittedMaps ==
    ASSUME TypeOK, NEW h \in Handles, NEW a \in Nat, NEW n \in Nat
    PROVE  /\ InBounds(a, n) /\ AllReadable(h, a, n)
                <=> Snapshots!Admitted(a, n, readable[h])
           /\ InBounds(a, n) /\ AllWritable(h, a, n)
                <=> Snapshots!Admitted(a, n, writable[h])
           /\ InBounds(a, n) /\ AllReadable(h, a, n) /\ AllWritable(h, a, n)
                <=> Snapshots!Admitted(a, n, readable[h] \cap writable[h])
<1> USE DEF InBounds, AllReadable, AllWritable, Snapshots!Admitted, Extent,
            Snapshots!Extent, Cells
<1>1. \A R \in SUBSET Cells :
         a <= Size /\ a + n <= Size /\ a..(a + n - 1) \subseteq R
            <=> a <= Size /\ a..(a + n - 1) \subseteq R
  <2> SUFFICES ASSUME NEW R \in SUBSET Cells, a <= Size, a..(a + n - 1) \subseteq R
               PROVE  a + n <= Size
    OBVIOUS
  <2>1. CASE n = 0
    BY <2>1, SizeAssumption
  <2>2. CASE n # 0
    <3>1. a + n - 1 \in R
      BY <2>2
    <3> QED BY <3>1, SizeAssumption
  <2> QED BY <2>1, <2>2
<1>2. readable[h] \in SUBSET Cells /\ writable[h] \in SUBSET Cells
  BY DEF TypeOK
<1> HIDE DEF Cells
<1> QED
  BY <1>1, <1>2

LEMMA StoreMaps ==
    ASSUME NEW h, NEW a, NEW n, NEW contents, Store(h, a, n, contents)
    PROVE  Snapshots!Done(h, contents)
BY DEF Store, Snapshots!Done

LEMMA ReadMaps ==
    ASSUME TypeOK, NEW h \in Handles, NEW a \in Nat, NEW n \in Nat,
           ViewValues(h, a, n)
    PROVE  Snapshots!Read(h, a, n)
<1>1. CASE InBounds(a, n) /\ AllReadable(h, a, n)
  <2>1. Return("Ok")
    BY <1>1 DEF ViewValues
  <2>2. Snapshots!Done(h, backing[h])
    BY <2>1 DEF Return, Snapshots!Done, TypeOK
  <2> QED
    BY <1>1, <2>2, AdmittedMaps DEF Snapshots!Read
<1>2. CASE ~ (InBounds(a, n) /\ AllReadable(h, a, n))
  <2>1. Snapshots!Refused
    BY <1>2, RefusedMaps DEF ViewValues, Faults
  <2> QED
    BY <1>2, <2>1, AdmittedMaps DEF Snapshots!Read
<1> QED
  BY <1>1, <1>2

\* A write that passes its checks and stores, or fails them and changes nothing.
LEMMA StoresOrRefuses ==
    ASSUME TypeOK, NEW h \in Handles, NEW a \in Nat, NEW n \in Nat,
           NEW vals \in [0..(n - 1) -> Values], NEW cells,
           \/ /\ Snapshots!Admitted(a, n, cells)
              /\ Store(h, a, n, Overwritten(h, a, n, vals))
           \/ /\ ~ Snapshots!Admitted(a, n, cells)
              /\ \E status \in Faults : Return(status)
    PROVE  Snapshots!Store(h, a, n, vals, cells)
<1>1. CASE /\ Snapshots!Admitted(a, n, cells)
           /\ Store(h, a, n, Overwritten(h, a, n, vals))
  <2>1. Snapshots!Done(h, Overwritten(h, a, n, vals))
    BY <1>1, StoreMaps
  <2> QED
    BY <1>1, <2>1 DEF Snapshots!Store, Overwritten, Cells, Extent, Snapshots!Cells,
                      Snapshots!Extent
<1>2. CASE /\ ~ Snapshots!Admitted(a, n, cells)
           /\ \E status \in Faults : Return(status)
  <2>1. Snapshots!Refused
    BY <1>2, RefusedMaps
  <2> QED
    BY <1>2, <2>1 DEF Snapshots!Store
<1> QED
  BY <1>1, <1>2

LEMMA WriteMaps ==
    ASSUME TypeOK, NEW h \in Handles, NEW a \in Nat, NEW n \in Nat,
           NEW vals \in [0..(n - 1) -> Values], SetValues(h, a, n, vals)
    PROVE  Snapshots!Write(h, a, n, vals)
<1>1. InBounds(a, n) /\ AllWritable(h, a, n) <=> Snapshots!Admitted(a, n, writable[h])
  BY AdmittedMaps
<1>2. \/ /\ InBounds(a, n) /\ AllWritable(h, a, n)
         /\ Store(h, a, n, Overwritten(h, a, n, vals))
      \/ /\ ~ (InBounds(a, n) /\ AllWritable(h, a, n))
         /\ \E status \in Faults : Return(status)
  BY DEF SetValues, Faults
<1> QED
  BY <1>1, <1>2, StoresOrRefuses DEF Snapshots!Write

LEMMA ModifyMaps ==
    ASSUME TypeOK, NEW h \in Handles, NEW a \in Nat, NEW n \in Nat,
           NEW vals \in [0..(n - 1) -> Values], ViewValuesMut(h, a, n, vals)
    PROVE  Snapshots!Modify(h, a, n, vals)
<1>1. InBounds(a, n) /\ AllReadable(h, a, n) /\ AllWritable(h, a, n)
          <=> Snapshots!Admitted(a, n, readable[h] \cap writable[h])
  BY AdmittedMaps
<1>2. \/ /\ InBounds(a, n) /\ AllReadable(h, a, n) /\ AllWritable(h, a, n)
         /\ Store(h, a, n, Overwritten(h, a, n, vals))
      \/ /\ ~ (InBounds(a, n) /\ AllReadable(h, a, n) /\ AllWritable(h, a, n))
         /\ \E status \in Faults : Return(status)
  BY DEF ViewValuesMut, Faults
<1> QED
  BY <1>1, <1>2, StoresOrRefuses DEF Snapshots!Modify

LEMMA CopyMaps ==
    ASSUME TypeOK, NEW h \in Handles, NEW s \in Nat, NEW d \in Nat, NEW n \in Nat,
           CopyValues(h, s, d, n)
    PROVE  Snapshots!Copy(h, s, d, n) \/ Snapshots!CopyAborts(s, d, n)
<1> DEFINE admitted == /\ InBounds(s, n) /\ AllReadable(h, s, n)
                       /\ InBounds(d, n) /\ AllWritable(h, d, n)
<1>1. admitted <=> /\ Snapshots!Admitted(s, n, readable[h])
                   /\ Snapshots!Admitted(d, n, writable[h])
  BY AdmittedMaps
<1>2. CASE ~admitted
  <2>1. Snapshots!Refused
    BY <1>2, RefusedMaps DEF CopyValues, Faults
  <2> QED
    BY <1>1, <1>2, <2>1 DEF Snapshots!Copy
<1>3. CASE admitted
  <2>1. CopyAdmitted(h, s, d, n)
    BY <1>3 DEF CopyValues
  <2>2. \/ d = s /\ Return("Ok")
        \/ (d >= s + n \/ d + n <= s) /\ Return("Panic")
        \/ Store(h, d, n, Moved(backing[h], s, d, n))
    BY <2>1, CopiedIsMoved DEF CopyAdmitted, LengthsDiffer
  <2>3. Snapshots!Done(h, Moved(backing[h], s, d, n)) => Snapshots!Copy(h, s, d, n)
    BY <1>1, <1>3 DEF Snapshots!Copy, Moved, Cells, Extent, Snapshots!Cells,
                      Snapshots!Extent
  <2>4. CASE d = s /\ Return("Ok")
    <3>1. Moved(backing[h], s, d, n) = backing[h]
      <4>1. backing[h] \in [Cells -> Values]
        BY DEF TypeOK
      <4>2. \A c \in Cells : c \in Int /\ s + (c - d) = c
        BY <2>4 DEF Cells
      <4> QED
        BY <4>1, <4>2 DEF Moved
    <3>2. Snapshots!Done(h, backing[h])
      BY <2>4 DEF Return, Snapshots!Done, TypeOK
    <3> QED
      BY <2>3, <3>1, <3>2
  <2>5. CASE (d >= s + n \/ d + n <= s) /\ Return("Panic")
    BY <2>5 DEF Return, Snapshots!CopyAborts, Snapshots!Extent
  <2>6. CASE Store(h, d, n, Moved(backing[h], s, d, n))
    BY <2>3, <2>6, StoreMaps
  <2> QED
    BY <2>2, <2>4, <2>5, <2>6
<1> QED
  BY <1>2, <1>3

LEMMA PermitMaps ==
    ASSUME TypeOK, NEW h \in Handles, NEW a \in Nat, NEW n \in Nat, NEW access,
           SetRegion(h, a, n, access) \/ ClearRegion(h, a, n, access)
    PROVE  Snapshots!Protect(h, a, n)
<1>1. Extent(a, n) \subseteq Cells
  BY SizeAssumption DEF SetRegion, ClearRegion, InBounds, Extent, Cells
<1>2. Extent(a, n) \in SUBSET (Snapshots!Extent(a, n) \cap Snapshots!Cells)
  BY <1>1 DEF Extent, Cells, Snapshots!Extent, Snapshots!Cells
<1>3. /\ {} \in SUBSET (Snapshots!Extent(a, n) \cap Snapshots!Cells)
      /\ readable = [readable EXCEPT ![h] = @ \cup {}]
      /\ writable = [writable EXCEPT ![h] = @ \cup {}]
  BY DEF TypeOK
<1> HIDE DEF Cells
<1>4. CASE SetRegion(h, a, n, access)
  <2>1. /\ \/ readable' = [readable EXCEPT ![h] = @ \cup Extent(a, n)]
           \/ readable' = [readable EXCEPT ![h] = @ \cup {}]
        /\ \/ writable' = [writable EXCEPT ![h] = @ \cup Extent(a, n)]
           \/ writable' = [writable EXCEPT ![h] = @ \cup {}]
        /\ result' = "Ok"
        /\ UNCHANGED <<live, backing>>
    BY <1>4 DEF SetRegion
  <2> QED BY <1>2, <1>3, <2>1 DEF Snapshots!Protect
<1>5. CASE ClearRegion(h, a, n, access)
  <2>1. /\ \/ readable' = [readable EXCEPT ![h] = @ \ Extent(a, n)]
           \/ readable' = [readable EXCEPT ![h] = @ \cup {}]
        /\ \/ writable' = [writable EXCEPT ![h] = @ \ Extent(a, n)]
           \/ writable' = [writable EXCEPT ![h] = @ \cup {}]
        /\ result' = "Ok"
        /\ UNCHANGED <<live, backing>>
    BY <1>5 DEF ClearRegion
  <2> QED BY <1>2, <1>3, <2>1 DEF Snapshots!Protect
<1> QED
  BY <1>4, <1>5

LEMMA StepMaps ==
    ASSUME RewindInv, [DisciplinedNext]_vars
    PROVE  [Snapshots!Next]_(Snapshots!vars)
<1>0. TypeOK /\ \A h \in live : h \in Handles
  BY DEF RewindInv, TypeOK
<1>1. Running => Snapshots!Running
  BY DEF Running, Snapshots!Running
<1>2. ASSUME NEW h \in live, Access(h), Running PROVE Snapshots!Next
  <2>1. PICK a \in Offsets, n \in Sizes :
        \/ ViewValues(h, a, n) /\ call' = <<"Read", h, a, n>>
        \/ \E vals \in [0..(n - 1) -> Values] :
               \/ SetValues(h, a, n, vals) /\ call' = <<"Write", h, a, n, vals>>
               \/ ViewValuesMut(h, a, n, vals) /\ call' = <<"Modify", h, a, n, vals>>
        \/ \E d \in Offsets : CopyValues(h, a, d, n) /\ call' = <<"Copy", h, a, d, n>>
    BY <1>2 DEF Access
  <2>2. a \in Nat /\ n \in Nat /\ \A d \in Offsets : d \in Nat
    BY FlatAssumption
  <2>3. CASE ViewValues(h, a, n) /\ call' = <<"Read", h, a, n>>
    <3>1. Snapshots!Read(h, a, n)
      BY <2>3, <2>2, <1>0, <1>2, ReadMaps
    <3> QED BY <3>1, <2>3, <1>1, <1>2 DEF Snapshots!Next
  <2>4. ASSUME NEW vals \in [0..(n - 1) -> Values], SetValues(h, a, n, vals),
               call' = <<"Write", h, a, n, vals>>
        PROVE  Snapshots!Next
    <3>1. Snapshots!Write(h, a, n, vals)
      BY <2>4, <2>2, <1>0, <1>2, WriteMaps
    <3> QED BY <3>1, <2>4, <1>1, <1>2 DEF Snapshots!Next
  <2>5. ASSUME NEW vals \in [0..(n - 1) -> Values], ViewValuesMut(h, a, n, vals),
               call' = <<"Modify", h, a, n, vals>>
        PROVE  Snapshots!Next
    <3>1. Snapshots!Modify(h, a, n, vals)
      BY <2>5, <2>2, <1>0, <1>2, ModifyMaps
    <3> QED BY <3>1, <2>5, <1>1, <1>2 DEF Snapshots!Next
  <2>6. ASSUME NEW d \in Offsets, CopyValues(h, a, d, n), call' = <<"Copy", h, a, d, n>>
        PROVE  Snapshots!Next
    <3>1. Snapshots!Copy(h, a, d, n) \/ Snapshots!CopyAborts(a, d, n)
      BY <2>6, <2>2, <1>0, <1>2, CopyMaps
    <3> QED BY <3>1, <2>6, <1>1, <1>2 DEF Snapshots!Next
  <2> QED BY <2>1, <2>3, <2>4, <2>5, <2>6
<1>3. ASSUME NEW h \in live, Permit(h), Running PROVE Snapshots!Next
  <2>1. PICK a \in Offsets, n \in Sizes, access \in Accesses :
        /\ SetRegion(h, a, n, access) \/ ClearRegion(h, a, n, access)
        /\ call' = <<"Protect", h, a, n>>
    BY <1>3 DEF Permit
  <2>2. Snapshots!Protect(h, a, n)
    BY <2>1, <1>0, <1>3, FlatAssumption, PermitMaps
  <2> QED
    BY <2>1, <2>2, <1>1, <1>3 DEF Snapshots!Next
<1>4. ASSUME NEW h \in live, NEW k \in Handles, h # k, Fork(h, k), Copying(k, h), Running
      PROVE  Snapshots!Next
  <2>1. Snapshots!Become(k, h)
    BY <1>4 DEF Fork, Snapshots!Become
  <2> QED
    BY <2>1, <1>1, <1>4 DEF Snapshots!Next, Copying
<1>5. ASSUME NEW h \in live, NEW k \in live, h # k, k \in tracks[h], Restore(h, k),
             Copying(h, k), Running
      PROVE  Snapshots!Next
  <2>1. RestoredBacking(h, k) = backing[k]
    BY <1>0, <1>5, RestoredIsExact
  <2>2. Snapshots!Become(h, k)
    BY <2>1, <1>5 DEF Restore, Snapshots!Become
  <2> QED
    BY <2>2, <1>0, <1>1, <1>5 DEF Snapshots!Next, Copying
<1>6. CASE UNCHANGED vars
  BY <1>6 DEF vars, Snapshots!vars
<1> QED
  BY <1>2, <1>3, <1>4, <1>5, <1>6 DEF DisciplinedNext

\* A program that rewinds a state only to snapshots it may be rewound to sees
\* the memory SnapshotMemory describes (flat.rs:89-309).
THEOREM FlatImplementsSnapshots == DisciplinedSpec => ImplementsSnapshots
<1>1. Init => Snapshots!Init
  BY DEF Init, Snapshots!Init, Cells, Snapshots!Cells
<1>2. RewindInv /\ [DisciplinedNext]_vars => [Snapshots!Next]_(Snapshots!vars)
  BY StepMaps
<1>3. [DisciplinedNext]_vars => [Next]_vars
  BY DEF DisciplinedNext, Next
<1>4. DisciplinedSpec => Spec
  BY <1>3, PTL DEF DisciplinedSpec, Spec
<1> QED
  BY <1>1, <1>2, <1>4, RewindInvariant, PTL
     DEF DisciplinedSpec, ImplementsSnapshots, Snapshots!Spec

-----------------------------------------------------------------------------
(* The loops of copy_values, run on variables of their own (module         *)
(* CopyLoop), compute memmove for any length.                              *)

\* The destination cells the iterations done have written.
LoopWritten ==
    IF loopUp THEN loopDst..(loopDst + loopDone - 1)
    ELSE (loopDst + loopSize - loopDone)..(loopDst + loopSize - 1)

\* In the direction copy_values picks, the written cells hold the old source
\* cells and every other cell, among them all cells still to be read, is old.
LoopProgress ==
    loopUp = Ascends =>
        \A c \in Cells :
            loopMem[c] =
                IF c \in LoopWritten THEN loopOrig[loopSrc + (c - loopDst)] ELSE loopOrig[c]

\* LoopTypeOK holds of every run: all the loop's indices stay inside the backing,
\* which the code needs because it addresses cells by raw pointers.
THEOREM LoopTyped == LoopSpec => []LoopTypeOK
<1>1. LoopInit => LoopTypeOK
  BY SizeAssumption DEF LoopInit, LoopTypeOK
<1>2. LoopTypeOK /\ [LoopNext]_loopVars => LoopTypeOK'
  <2> SUFFICES ASSUME LoopTypeOK, [LoopNext]_loopVars PROVE LoopTypeOK'
    OBVIOUS
  <2>1. CASE Iterate
    <3>1. Index \in 0..(loopSize - 1)
      BY <2>1, SizeAssumption DEF LoopTypeOK, Iterate, Index
    <3>2. loopSrc + Index \in Cells /\ loopDst + Index \in Cells
      BY <3>1, SizeAssumption DEF LoopTypeOK, Cells
    <3>3. loopMem' \in [Cells -> Contents]
      BY <2>1, <3>2 DEF LoopTypeOK, Iterate
    <3> QED
      BY <2>1, <3>3, SizeAssumption DEF LoopTypeOK, Iterate, Overlapping
  <2>2. CASE UNCHANGED loopVars
    BY <2>2 DEF LoopTypeOK, loopVars, Overlapping
  <2> QED
    BY <2>1, <2>2 DEF LoopNext
<1> QED
  BY <1>1, <1>2, PTL DEF LoopSpec

\* The loop that copy_values picks for overlapping ranges is a memmove
\* (flat.rs:172-190), for every length, offsets, size and contents.
THEOREM LoopIsMemmove == LoopSpec => []EndsAsMemmove
<1>1. LoopInit => LoopProgress
  BY SizeAssumption DEF LoopInit, LoopProgress, LoopWritten
<1>2. LoopTypeOK /\ LoopTypeOK' /\ LoopProgress /\ [LoopNext]_loopVars => LoopProgress'
  <2> SUFFICES ASSUME LoopTypeOK, LoopTypeOK', LoopProgress, [LoopNext]_loopVars,
                      (loopUp = Ascends)', NEW c \in Cells
               PROVE  (loopMem[c] = IF c \in LoopWritten THEN loopOrig[loopSrc + (c - loopDst)]
                                    ELSE loopOrig[c])'
    BY DEF LoopProgress
  <2>1. CASE Iterate
    <3> DEFINE x == loopDst + Index
               y == loopSrc + Index
    <3>1. /\ loopUp = Ascends /\ loopUp \in BOOLEAN
          /\ loopSrc \in Int /\ loopDst \in Int /\ loopSize \in Int /\ loopDone \in Int /\ c \in Int
          /\ 0 <= loopDone /\ loopDone < loopSize /\ loopSrc # loopDst
          /\ Index = IF loopUp THEN loopDone ELSE loopSize - 1 - loopDone
      BY <2>1, SizeAssumption
         DEF Iterate, LoopTypeOK, Ascends, Index, Cells, Overlapping
    <3>2. y \in Cells /\ x \in Cells
      BY <3>1, SizeAssumption DEF LoopTypeOK, Cells
    <3>3. y \notin LoopWritten
      <4>1. CASE loopUp
        <5>1. loopDst < loopSrc
          BY <4>1, <3>1 DEF Ascends
        <5>2. LoopWritten = loopDst..(loopDst + loopDone - 1) /\ y = loopSrc + loopDone
          BY <4>1, <3>1 DEF LoopWritten
        <5> QED BY <5>1, <5>2, <3>1
      <4>2. CASE ~loopUp
        <5>0. ~ (loopDst < loopSrc)
          BY <4>2, <3>1, Zenon DEF Ascends
        <5>1. loopSrc < loopDst
          BY <5>0, <3>1
        <5>2. /\ LoopWritten = (loopDst + loopSize - loopDone)..(loopDst + loopSize - 1)
              /\ y = loopSrc + (loopSize - 1 - loopDone)
          BY <4>2, <3>1 DEF LoopWritten
        <5> QED BY <5>1, <5>2, <3>1
      <4> QED BY <4>1, <4>2
    <3>4. loopMem[y] = loopOrig[y]
      BY <3>1, <3>2, <3>3 DEF LoopProgress
    <3>5. LoopWritten' = LoopWritten \cup {x} /\ x \notin LoopWritten
      <4>1. /\ x \in Int /\ x = IF loopUp THEN loopDst + loopDone
                                ELSE loopDst + (loopSize - 1 - loopDone)
            /\ loopDst' = loopDst /\ loopSize' = loopSize /\ loopUp' = loopUp
            /\ loopDone' = loopDone + 1
        BY <2>1, <3>1 DEF Iterate
      <4> HIDE DEF x
      <4>2. CASE loopUp
        <5>1. LoopWritten = loopDst..(loopDst + loopDone - 1) /\ x = loopDst + loopDone
          BY <4>1, <4>2 DEF LoopWritten
        <5>2. LoopWritten' = loopDst..(loopDst + loopDone)
          BY <3>1, <4>1, <4>2 DEF LoopWritten
        <5> QED BY <3>1, <5>1, <5>2
      <4>3. CASE ~loopUp
        <5>1. /\ LoopWritten = (loopDst + loopSize - loopDone)..(loopDst + loopSize - 1)
              /\ x = loopDst + loopSize - loopDone - 1
          BY <3>1, <4>1, <4>3 DEF LoopWritten
        <5>2. LoopWritten' = (loopDst + loopSize - loopDone - 1)..(loopDst + loopSize - 1)
          BY <3>1, <4>1, <4>3 DEF LoopWritten
        <5> QED BY <3>1, <5>1, <5>2
      <4> QED BY <4>2, <4>3
    <3>6. y = loopSrc + (x - loopDst)
      BY <3>1
    <3>7. /\ loopMem' = [loopMem EXCEPT ![x] = loopOrig[y]]
          /\ UNCHANGED <<loopSrc, loopDst, loopOrig>>
      BY <2>1, <3>4 DEF Iterate
    <3>8. loopMem \in [Cells -> Contents]
      BY DEF LoopTypeOK
    <3>9. CASE c = x
      BY <3>9, <3>2, <3>5, <3>6, <3>7, <3>8
    <3>10. CASE c # x
      <4>1. loopMem'[c] = loopMem[c] /\ (c \in LoopWritten' <=> c \in LoopWritten)
        BY <3>10, <3>5, <3>7, <3>8
      <4>2. loopMem[c] = IF c \in LoopWritten THEN loopOrig[loopSrc + (c - loopDst)]
                         ELSE loopOrig[c]
        BY <3>1 DEF LoopProgress
      <4> QED BY <4>1, <4>2, <3>7
    <3> QED BY <3>9, <3>10
  <2>2. CASE UNCHANGED loopVars
    BY <2>2 DEF loopVars, LoopProgress, LoopWritten, Ascends
  <2> QED
    BY <2>1, <2>2 DEF LoopNext
<1>3. LoopTypeOK /\ LoopProgress => EndsAsMemmove
  <2> SUFFICES ASSUME LoopTypeOK, LoopProgress, LoopEnded, loopUp = Ascends
               PROVE loopMem = Moved(loopOrig, loopSrc, loopDst, loopSize)
    BY DEF EndsAsMemmove
  <2>1. LoopWritten = Extent(loopDst, loopSize)
    BY DEF LoopWritten, Extent, LoopEnded, LoopTypeOK
  <2>2. loopMem \in [Cells -> Contents]
    BY DEF LoopTypeOK
  <2> QED
    BY <2>1, <2>2 DEF LoopProgress, Moved
<1> QED
  BY <1>1, <1>2, <1>3, LoopTyped, PTL DEF LoopSpec
=============================================================================
