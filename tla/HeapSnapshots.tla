----------------------------- MODULE HeapSnapshots -----------------------------
(***************************************************************************)
(* A ChunkState with a fork of it that is kept as a snapshot, and restored *)
(* (fuguex-state/src/chunked.rs:455-474).  The bytes and permissions of    *)
(* the backing are copied, as FlatState is proved to do where a state is   *)
(* restored to a fork of itself.                                           *)
(***************************************************************************)
EXTENDS ChunkHeap

VARIABLE saved  \* the snapshot

allvars == <<vars, saved>>

Heap == [chunks |-> chunks, regions |-> regions, writable |-> writable, data |-> data]

SnapshotInit == Init /\ saved = Heap

Fork ==
    /\ saved' = Heap
    /\ Return("Ok")

\* (mutation) the chunk list stays as it is.
ChunksKept == chunks

\* The chunk list and the regions are those of the snapshot, base_address is
\* the same.
ChunksRestored == saved.chunks

Restore ==
    /\ chunks' = ChunksRestored
    /\ regions' = saved.regions
    /\ writable' = saved.writable
    /\ data' = saved.data
    /\ result' = "Ok"
    /\ UNCHANGED <<torn, saved>>

SnapshotNext ==
    \/ Next /\ UNCHANGED saved
    \/ Running /\ (Fork \/ Restore)

SnapshotSpec == SnapshotInit /\ [][SnapshotNext]_allvars

-----------------------------------------------------------------------------
(* Properties.                                                             *)

RegionCells(rs) == UNION {r.lo..(r.hi - 1) : r \in rs}
ToBytes(h) == [a \in RegionCells(h.regions) |-> h.data[a]]
ToDenied(h) == RegionCells(h.regions) \ h.writable

Regions == INSTANCE RegionHeap WITH
    bytes <- ToBytes(Heap),
    denied <- ToDenied(Heap),
    status <- result,
    saved <- [regions |-> saved.regions, bytes |-> ToBytes(saved), denied |-> ToDenied(saved)]

\* However the chunk list was split and merged, and from whatever snapshot it
\* came back: regions are apart, keep their contents, are found whenever there
\* is room, and a store stays in one of them (chunked.rs:95-221, 296-474).
ImplementsRegions == Regions!Spec
=============================================================================
