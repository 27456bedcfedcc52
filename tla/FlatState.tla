------------------------------ MODULE FlatState ------------------------------
(***************************************************************************)
(* FlatState (fuguex-state/src/flat.rs): a flat byte store with per-byte   *)
(* permissions and dirty-block tracking.  A state is forked to take a      *)
(* snapshot and restored from one; restore copies back only the blocks     *)
(* that the restored state itself has marked dirty, so it is exact only    *)
(* when those blocks cover every difference from the snapshot.             *)
(*                                                                         *)
(* Handles are the FlatState values a program holds (a state, its forks).  *)
(* All of them descend from one state, so they have the same length.       *)
(***************************************************************************)
EXTENDS CopyRegion

CONSTANTS
    Handles,    \* the FlatState values the program can hold
    BlockSize,  \* BLOCK_SIZE (64 in the code)
    WordBlocks, \* blocks per bitsmap word (size_of::<Block>(), 8 in the code)
    Values,     \* contents of a cell
    Default,    \* T::default()
    Offsets,    \* offsets a call may name, in range or not
    Sizes,      \* sizes a call may name
    Accesses    \* the access kinds whose permission the callers change

ASSUME FlatAssumption ==
    /\ BlockSize \in Nat \ {0}
    /\ WordBlocks \in Nat \ {0}
    /\ Default \in Values
    /\ Offsets \subseteq Nat
    /\ Sizes \subseteq Nat
    /\ Accesses \subseteq {"Read", "Write", "ReadWrite"}

VARIABLES
    live,       \* handles that hold a state
    backing,    \* backing[h][a]: the cell a of state h
    indices,    \* indices[h]: the blocks listed in dirty.indices
    bitsmap,    \* bitsmap[h]: the blocks whose bit is set in dirty.bitsmap
    readable,   \* readable[h]: cells whose read bit is set
    writable,   \* writable[h]: cells whose write bit is set
    result,     \* outcome of the last call
    call,       \* history: the last call with its arguments
    tracks      \* history: k \in tracks[h] when h may be rewound to k (below)

vars == <<live, backing, indices, bitsmap, readable, writable, result, call, tracks>>

\* (mutation) the block after the last one is marked as well.
SpanBlocksPastEnd(a, n) == (a \div BlockSize)..((a + n) \div BlockSize + 1)

\* Block::from, and the blocks dirty_region marks: its last block is the one
\* of the first address past the region.
BlockOf(a) == a \div BlockSize
SpanBlocks(a, n) == BlockOf(a)..BlockOf(a + n)
Blocks == 0..BlockOf(Size)

\* (mutation) the word for the remaining blocks is forgotten.
BitsmapLenRoundedDown == (1 + BlockOf(Size)) \div WordBlocks

\* Number of words DirtyBacking::new reserves in bitsmap, and Block::index.
BitsmapLen == 1 + (1 + BlockOf(Size)) \div WordBlocks
WordOf(b) == b \div WordBlocks

Faults == {"OOBRead", "OOBWrite", "AccessViolation"}
Statuses == Faults \cup {"Ok", "Panic"}

Init ==
    /\ \E h \in Handles : live = {h}
    /\ backing = [h \in Handles |-> [a \in Cells |-> Default]]
    /\ indices = [h \in Handles |-> {}]
    /\ bitsmap = [h \in Handles |-> {}]
    /\ readable = [h \in Handles |-> Cells]
    /\ writable = [h \in Handles |-> Cells]
    /\ result = "Ok"
    /\ call = <<"New">>
    /\ tracks = [h \in Handles |-> {}]

-----------------------------------------------------------------------------
(* The tests at the head of every operation.                               *)

\* (mutation) only the first byte of the region is tested.
FirstByteWritable(h, a, n) == n = 0 \/ a \in writable[h]

InBounds(a, n) == a <= Size /\ a + n <= Size
AllReadable(h, a, n) == Extent(a, n) \subseteq readable[h]
AllWritable(h, a, n) == Extent(a, n) \subseteq writable[h]

Return(status) ==
    /\ result' = status
    /\ UNCHANGED <<live, backing, indices, bitsmap, readable, writable, tracks>>

(***************************************************************************)
(* History of rewindability.  k \in tracks[h] when the calls made so far   *)
(* guarantee that h can be restored from k without loss.  A write to h     *)
(* keeps what h can be rewound to (the write is in h's dirty blocks) but   *)
(* nobody can be rewound to the modified h; a state that becomes an exact  *)
(* copy of k takes over k's place in the relation.                         *)
(***************************************************************************)
TracksAfterWrite(h) ==
    [j \in Handles |-> IF j = h THEN tracks[h] ELSE tracks[j] \ {h}]

TracksAfterBecoming(h, k) ==
    [j \in Handles |->
        IF j = h THEN (tracks[k] \cup {k}) \ {h}
        ELSE IF j = k \/ k \in tracks[j] THEN tracks[j] \cup {h}
        ELSE tracks[j] \ {h}]

TracksAfterLoss(h) ==
    [j \in Handles |-> IF j = h THEN {} ELSE tracks[j] \ {h}]

\* dirty_region: push the blocks whose bit is not yet set, and set it.
DirtyRegion(h, a, n) ==
    LET fresh == SpanBlocks(a, n) \ bitsmap[h] IN
    /\ indices' = [indices EXCEPT ![h] = @ \cup fresh]
    /\ bitsmap' = [bitsmap EXCEPT ![h] = @ \cup fresh]

Store(h, a, n, contents) ==
    /\ backing' = [backing EXCEPT ![h] = contents]
    /\ DirtyRegion(h, a, n)
    /\ result' = "Ok"
    /\ tracks' = TracksAfterWrite(h)
    /\ UNCHANGED <<live, readable, writable>>

Overwritten(h, a, n, vals) ==
    [c \in Cells |-> IF c \in Extent(a, n) THEN vals[c - a] ELSE backing[h][c]]

-----------------------------------------------------------------------------
(* Operations.                                                             *)

\* get_values and view_values: both make the same tests; neither mutates.
ViewValues(h, a, n) ==
    \/ ~InBounds(a, n) /\ Return("OOBRead")
    \/ InBounds(a, n) /\ ~AllReadable(h, a, n) /\ Return("AccessViolation")
    \/ InBounds(a, n) /\ AllReadable(h, a, n) /\ Return("Ok")

SetValues(h, a, n, vals) ==
    \/ ~InBounds(a, n) /\ Return("OOBWrite")
    \/ InBounds(a, n) /\ ~AllWritable(h, a, n) /\ Return("AccessViolation")
    \/ /\ InBounds(a, n)
       /\ AllWritable(h, a, n)
       /\ Store(h, a, n, Overwritten(h, a, n, vals))

\* view_values_mut marks the region dirty and hands out a mutable slice,
\* through which the caller leaves the values vals.
ViewValuesMut(h, a, n, vals) ==
    LET admitted == AllReadable(h, a, n) /\ AllWritable(h, a, n) IN
    \/ ~InBounds(a, n) /\ Return("OOBRead")
    \/ InBounds(a, n) /\ ~admitted /\ Return("AccessViolation")
    \/ /\ InBounds(a, n)
       /\ admitted
       /\ Store(h, a, n, Overwritten(h, a, n, vals))

CopyAdmitted(h, s, d, n) ==
    \/ d = s /\ Return("Ok")
    \/ d # s /\ LengthsDiffer(s, d, n) /\ Return("Panic")
    \/ /\ d # s
       /\ ~LengthsDiffer(s, d, n)
       /\ Store(h, d, n, Copied(backing[h], s, d, n))

CopyValues(h, s, d, n) ==
    \/ ~InBounds(s, n) /\ Return("OOBRead")
    \/ /\ InBounds(s, n)
       /\ \/ ~AllReadable(h, s, n) /\ Return("AccessViolation")
          \/ AllReadable(h, s, n) /\ ~InBounds(d, n) /\ Return("OOBWrite")
          \/ /\ AllReadable(h, s, n) /\ InBounds(d, n) /\ ~AllWritable(h, d, n)
             /\ Return("AccessViolation")
          \/ /\ AllReadable(h, s, n) /\ InBounds(d, n) /\ AllWritable(h, d, n)
             /\ CopyAdmitted(h, s, d, n)

\* permissions_mut().set_region and clear_region (set_byte, clear_byte when
\* n = 1) for a region inside the backing.
ReadBits(access) == access \in {"Read", "ReadWrite"}
WriteBits(access) == access \in {"Write", "ReadWrite"}

SetRegion(h, a, n, access) ==
    /\ InBounds(a, n)
    /\ readable' = [readable EXCEPT ![h] =
                       IF ReadBits(access) THEN @ \cup Extent(a, n) ELSE @]
    /\ writable' = [writable EXCEPT ![h] =
                       IF WriteBits(access) THEN @ \cup Extent(a, n) ELSE @]
    /\ result' = "Ok"
    /\ UNCHANGED <<live, backing, indices, bitsmap, tracks>>

ClearRegion(h, a, n, access) ==
    /\ InBounds(a, n)
    /\ readable' = [readable EXCEPT ![h] =
                       IF ReadBits(access) THEN @ \ Extent(a, n) ELSE @]
    /\ writable' = [writable EXCEPT ![h] =
                       IF WriteBits(access) THEN @ \ Extent(a, n) ELSE @]
    /\ result' = "Ok"
    /\ UNCHANGED <<live, backing, indices, bitsmap, tracks>>

\* (mutation) the fork starts with no dirty block, as in the code that is
\* commented out at flat.rs:374-379.
ForkClean(h, k) ==
    /\ indices' = [indices EXCEPT ![k] = {}]
    /\ bitsmap' = [bitsmap EXCEPT ![k] = {}]

\* DirtyBacking::fork clones the marks of the forked state.
ForkDirty(h, k) ==
    /\ indices' = [indices EXCEPT ![k] = indices[h]]
    /\ bitsmap' = [bitsmap EXCEPT ![k] = bitsmap[h]]

\* k = h.fork(); a state k held before is dropped.
Fork(h, k) ==
    /\ live' = live \cup {k}
    /\ backing' = [backing EXCEPT ![k] = backing[h]]
    /\ ForkDirty(h, k)
    /\ readable' = [readable EXCEPT ![k] = readable[h]]
    /\ writable' = [writable EXCEPT ![k] = writable[h]]
    /\ result' = "Ok"
    /\ tracks' = TracksAfterBecoming(k, h)

\* The bytes restore leaves in h: those of k in the blocks h lists as dirty.
RestoredBacking(h, k) ==
    [a \in Cells |->
        IF BlockOf(a) \in indices[h] THEN backing[k][a] ELSE backing[h][a]]

\* (mutation) the list is taken from the other state, the bitmap is only reset.
RestoreDirtyList(h, k) ==
    /\ indices' = [indices EXCEPT ![h] = indices[k]]
    /\ bitsmap' = [bitsmap EXCEPT ![h] = {}]

\* self.dirty is drained, then cloned from the other's.
RestoreDirty(h, k) ==
    /\ indices' = [indices EXCEPT ![h] = indices[k]]
    /\ bitsmap' = [bitsmap EXCEPT ![h] = bitsmap[k]]

\* h.restore(&k)
Restore(h, k) ==
    /\ backing' = [backing EXCEPT ![h] = RestoredBacking(h, k)]
    /\ RestoreDirty(h, k)
    /\ readable' = [readable EXCEPT ![h] = readable[k]]
    /\ writable' = [writable EXCEPT ![h] = writable[k]]
    /\ result' = "Ok"
    /\ tracks' = IF k \in tracks[h] THEN TracksAfterBecoming(h, k)
                                    ELSE TracksAfterLoss(h)
    /\ UNCHANGED live

-----------------------------------------------------------------------------
Access(h) ==
    \E a \in Offsets, n \in Sizes :
        \/ ViewValues(h, a, n) /\ call' = <<"Read", h, a, n>>
        \/ \E vals \in [0..(n - 1) -> Values] :
               \/ SetValues(h, a, n, vals) /\ call' = <<"Write", h, a, n, vals>>
               \/ ViewValuesMut(h, a, n, vals) /\ call' = <<"Modify", h, a, n, vals>>
        \/ \E d \in Offsets : CopyValues(h, a, d, n) /\ call' = <<"Copy", h, a, d, n>>

Permit(h) ==
    \E a \in Offsets, n \in Sizes, access \in Accesses :
        /\ SetRegion(h, a, n, access) \/ ClearRegion(h, a, n, access)
        /\ call' = <<"Protect", h, a, n>>

Copying(h, k) == call' = <<"Become", h, k>>

\* After a panic the state is gone and no call follows.
Running == result # "Panic"

Next ==
    \/ Running /\ \E h \in live : Access(h) \/ Permit(h)
    \/ Running /\ \E h \in live, k \in Handles : h # k /\ Fork(h, k) /\ Copying(k, h)
    \/ Running /\ \E h, k \in live : h # k /\ Restore(h, k) /\ Copying(h, k)

Spec == Init /\ [][Next]_vars

\* The discipline under which restore is exact: rewind only to states the
\* history says the state can be rewound to.
DisciplinedNext ==
    \/ Running /\ \E h \in live : Access(h) \/ Permit(h)
    \/ Running /\ \E h \in live, k \in Handles : h # k /\ Fork(h, k) /\ Copying(k, h)
    \/ Running /\ \E h, k \in live :
           h # k /\ k \in tracks[h] /\ Restore(h, k) /\ Copying(h, k)

DisciplinedSpec == Init /\ [][DisciplinedNext]_vars

-----------------------------------------------------------------------------
(* Properties.                                                             *)

\* Every variable has its type (call is history, and not read by any action).
TypeOK ==
    /\ live \in SUBSET Handles
    /\ backing \in [Handles -> [Cells -> Values]]
    /\ indices \in [Handles -> SUBSET Blocks]
    /\ bitsmap \in [Handles -> SUBSET Blocks]
    /\ readable \in [Handles -> SUBSET Cells]
    /\ writable \in [Handles -> SUBSET Cells]
    /\ result \in Statuses
    /\ tracks \in [Handles -> SUBSET Handles]

\* The list and the bitmap of dirty blocks never drift apart: a block whose
\* bit is set without being listed would be skipped by every later restore
\* (flat.rs:383-393 pushes only when the bit was clear).
ListMatchesBitsmap == indices = bitsmap

\* A write at the very end of the backing marks the block past it; that block
\* must still have a bit in bitsmap (index in range, flat.rs:388) and a start
\* from which restore can slice the backing (flat.rs:102-108).
DirtyBlocksInRange ==
    \A h \in live : \A b \in indices[h] :
        WordOf(b) < BitsmapLen /\ b * BlockSize <= Size

Differ(h, k) == {a \in Cells : backing[h][a] # backing[k][a]}

\* Whatever sequence of writes, copies, forks and restores led here, a state
\* differs from a snapshot it may be rewound to only in blocks it has marked
\* dirty, so that restore (flat.rs:101-113) leaves no stale byte behind.
RewindCovered ==
    \A h \in Handles : \A k \in tracks[h] :
        \A a \in Differ(h, k) : BlockOf(a) \in indices[h]

\* Used with the discipline above, FlatState is the memory SnapshotMemory
\* describes, call by call: accesses are admitted by permission, copies are memmoves,
\* forks are independent and restores exact.
Snapshots == INSTANCE SnapshotMemory WITH mem <- backing
ImplementsSnapshots == Snapshots!Spec
=============================================================================
