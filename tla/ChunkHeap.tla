------------------------------ MODULE ChunkHeap ------------------------------
(***************************************************************************)
(* ChunkState (fuguex-state/src/chunked.rs): a heap over a FlatState.  A   *)
(* first-fit list of chunks hands out space, an interval set records the   *)
(* regions the client may use, and write permission of the backing guards  *)
(* them: each chunk is one byte longer than its region, and that last byte,*)
(* the red zone, is not writable.                                          *)
(*                                                                         *)
(* Addresses are relative to base_address.  Every byte of the backing is   *)
(* readable from the start and no operation changes that, so only write    *)
(* permission is a variable.                                               *)
(***************************************************************************)
EXTENDS CopyRegion, SequencesExt

CONSTANTS
    Values,      \* contents of a cell
    Default,     \* T::default()
    AllocSizes,  \* sizes a client asks for
    AccessSizes, \* sizes of reads, writes and copies
    Addresses    \* addresses a client names

ASSUME HeapAssumption ==
    /\ Size > 0
    /\ Default \in Values
    /\ AllocSizes \subseteq Nat
    /\ AccessSizes \subseteq Nat \ {0}
    /\ Addresses \subseteq Nat

VARIABLES
    chunks,     \* ChunkList: every chunk has a status, an offset and a size
    regions,    \* the interval set: lo is in the region, hi is not
    writable,   \* cells of the backing whose write bit is set
    data,       \* contents of the backing
    result,     \* outcome of the last call
    torn        \* history: a downward merge broke the chunk list (below)

vars == <<chunks, regions, writable, data, result, torn>>

Taken(offset, size) == [taken |-> TRUE, offset |-> offset, size |-> size]
Free(offset, size) == [taken |-> FALSE, offset |-> offset, size |-> size]

Region(offset, size) == [lo |-> offset, hi |-> offset + size]

Init ==
    /\ chunks = <<Free(0, Size)>>
    /\ regions = {}
    /\ writable = {}
    /\ data = [c \in Cells |-> Default]
    /\ result = "Ok"
    /\ torn = FALSE

Return(status) ==
    /\ result' = status
    /\ UNCHANGED <<chunks, regions, writable, data, torn>>

-----------------------------------------------------------------------------
(* ChunkList.  Its sizes include the red zone.                             *)

IsFree(cs, i) == i \in DOMAIN cs /\ ~cs[i].taken
FreeSize(cs, i) == IF IsFree(cs, i) THEN cs[i].size ELSE 0

\* (mutation) the size of the free chunk is not tested.
FirstFree(i, n) == IsFree(chunks, i) /\ \A j \in 1..(i - 1) : ~IsFree(chunks, j)

\* allocate takes the first free chunk that is large enough ...
FirstFit(i, n) ==
    /\ IsFree(chunks, i)
    /\ chunks[i].size >= n
    /\ \A j \in 1..(i - 1) : IsFree(chunks, j) => chunks[j].size < n

NoFit(n) == \A i \in DOMAIN chunks : IsFree(chunks, i) => chunks[i].size < n

\* ... and splits it when there is space left.
ChunkAllocated(i, n) ==
    LET c == chunks[i]
        head == [chunks EXCEPT ![i] = Taken(c.offset, n)]
    IN  IF c.size = n THEN head
        ELSE InsertAt(head, i + 1, Free(c.offset + n, c.size - n))

\* deallocate and reallocate work on the first taken chunk with the offset.
Holds(cs, i, offset) ==
    /\ i \in DOMAIN cs
    /\ cs[i].taken /\ cs[i].offset = offset
    /\ \A j \in 1..(i - 1) : ~(cs[j].taken /\ cs[j].offset = offset)

\* (mutation) deallocate merges with the chunk above only.
ChunkFreedUp(cs, i) ==
    LET above == IF IsFree(cs, i + 1) THEN RemoveAt(cs, i + 1) ELSE cs
    IN  [above EXCEPT ![i] = Free(cs[i].offset, cs[i].size + FreeSize(cs, i + 1))]

\* deallocate merges the chunk with its free neighbours.
ChunkFreed(cs, i) ==
    LET above == IF IsFree(cs, i + 1) THEN RemoveAt(cs, i + 1) ELSE cs
        size == cs[i].size + FreeSize(cs, i + 1)
    IN  IF IsFree(cs, i - 1)
        THEN [RemoveAt(above, i) EXCEPT
                 ![i - 1] = Free(cs[i - 1].offset, cs[i - 1].size + size)]
        ELSE [above EXCEPT ![i] = Free(cs[i].offset, size)]

\* (mutation) what is cut off goes to the chunk above only if that is free.
ChunkShrunkLeaky(i, n) ==
    LET c == chunks[i]
        diff == c.size - n
    IN  IF IsFree(chunks, i + 1)
        THEN [chunks EXCEPT ![i] = Taken(c.offset, n),
                            ![i + 1] = Free(@.offset - diff, @.size + diff)]
        ELSE chunks

\* The chunk list when chunk i shrinks to n, ...
ChunkShrunk(i, n) ==
    LET c == chunks[i]
        diff == c.size - n
    IN  IF IsFree(chunks, i + 1)
        THEN [chunks EXCEPT ![i] = Taken(c.offset, n),
                            ![i + 1] = Free(@.offset - diff, @.size + diff)]
        ELSE InsertAt([chunks EXCEPT ![i] = Taken(c.offset, n)],
                      i + 1, Free(c.offset + n, diff))

\* (mutation) the chunk above keeps its size.
ChunkGrownOver(i, n) ==
    [chunks EXCEPT ![i] = Taken(@.offset, n), ![i + 1] = Free(chunks[i].offset + n, @.size)]

\* ... when it grows into the free chunk above it, ...
ChunkGrownUp(i, n) ==
    LET c == chunks[i]
        total == c.size + FreeSize(chunks, i + 1)
        grown == [chunks EXCEPT ![i] = Taken(c.offset, n)]
    IN  IF total = n THEN RemoveAt(grown, i + 1)
        ELSE [grown EXCEPT ![i + 1] = Free(c.offset + n, total - n)]

\* ... and when it grows into the free chunk below it.  The code drops one
\* more chunk of the list in each case, whatever that chunk is.
ChunkGrownDown(i, n) ==
    LET offset == chunks[i - 1].offset
        total == FreeSize(chunks, i - 1) + chunks[i].size + FreeSize(chunks, i + 1)
        grown == [chunks EXCEPT ![i - 1] = Taken(offset, n)]
    IN  IF total = n THEN RemoveAt(RemoveAt(grown, i), i + 1)
        ELSE RemoveAt([grown EXCEPT ![i] = Free(offset + n, total - n)], i + 1)

\* The removals above are out of range, and Vec::remove panics.
GrowDownPanics(i, n) ==
    LET total == FreeSize(chunks, i - 1) + chunks[i].size + FreeSize(chunks, i + 1)
    IN  IF total = n THEN i + 1 > Len(chunks) - 1 ELSE i + 1 > Len(chunks)

\* They drop the right chunk only when the chunk above was free and a part
\* of it stays free.
GrowDownTears(i, n) ==
    LET total == FreeSize(chunks, i - 1) + chunks[i].size + FreeSize(chunks, i + 1)
    IN  ~(IsFree(chunks, i + 1) /\ total > n)

-----------------------------------------------------------------------------
(* Allocation.                                                             *)

\* (mutation) the red zone is not taken from the region's chunk.
GrantedWithoutRedZone(offset, n) == writable \cup Extent(offset, n)

\* Write permission after the region is opened and its red zone closed.
Granted(offset, n) == (writable \cup Extent(offset, n)) \ {offset + n}

\* allocate; an empty region makes IntervalSet::insert panic.
Allocate(n) ==
    \/ NoFit(n + 1) /\ Return("NotEnoughFreeSpace")
    \/ n = 0 /\ ~NoFit(n + 1) /\ Return("Panic")
    \/ /\ n > 0
       /\ \E i \in DOMAIN chunks :
             /\ FirstFit(i, n + 1)
             /\ chunks' = ChunkAllocated(i, n + 1)
             /\ writable' = Granted(chunks[i].offset, n)
             /\ regions' = regions \cup {Region(chunks[i].offset, n)}
       /\ result' = "Ok"
       /\ UNCHANGED <<data, torn>>

\* The first region, in address order, that holds the address.
RegionAt(r, a) ==
    /\ r \in regions
    /\ r.lo <= a /\ a < r.hi
    /\ \A q \in regions : q.lo <= a /\ a < q.hi => r.lo <= q.lo

Unmanaged(a) == \A r \in regions : RegionAt(r, a) => r.lo # a

\* The end of reallocate: permissions, the copy to the new place if it moved,
\* and the interval set.  cs and offset come from the chunk list, n is the new
\* size.  The source is readable and, as only growing chunks move, the
\* destination is inside the region just opened: copy_values never refuses.
Commit(r, cs, offset, n) ==
    LET old == r.hi - r.lo
        moved == offset # r.lo
    IN  \/ /\ n = 0 \/ (moved /\ LengthsDiffer(r.lo, offset, old))
           /\ Return("Panic")
        \/ /\ ~(n = 0 \/ (moved /\ LengthsDiffer(r.lo, offset, old)))
           /\ chunks' = cs
           /\ writable' = IF moved THEN Granted(offset, n) \ Extent(r.lo, old)
                                   ELSE Granted(offset, n)
           /\ data' = IF moved THEN Copied(data, r.lo, offset, old) ELSE data
           /\ regions' = (regions \ {r}) \cup {Region(offset, n)}
           /\ result' = "Ok"

\* reallocate, by what the chunk list does with chunk i of region r.  Sizes
\* compared with chunks include the red zone.
ReallocateKeep(r, i, n) ==
    /\ chunks[i].size = n + 1
    /\ Commit(r, chunks, r.lo, n)
    /\ UNCHANGED torn

ReallocateShrink(r, i, n) ==
    /\ chunks[i].size > n + 1
    /\ Commit(r, ChunkShrunk(i, n + 1), r.lo, n)
    /\ UNCHANGED torn

ReallocateUp(r, i, n) ==
    /\ chunks[i].size < n + 1
    /\ chunks[i].size + FreeSize(chunks, i + 1) >= n + 1
    /\ Commit(r, ChunkGrownUp(i, n + 1), r.lo, n)
    /\ UNCHANGED torn

ReallocateDown(r, i, n) ==
    LET up == chunks[i].size + FreeSize(chunks, i + 1) IN
    /\ up < n + 1
    /\ up + FreeSize(chunks, i - 1) >= n + 1
    /\ \/ GrowDownPanics(i, n + 1) /\ Return("Panic")
       \/ /\ ~GrowDownPanics(i, n + 1)
          /\ Commit(r, ChunkGrownDown(i, n + 1), chunks[i - 1].offset, n)
          /\ torn' = (result' = "Ok" /\ GrowDownTears(i, n + 1))

\* Neither neighbour helps: a new chunk is taken, then the old one freed.  By
\* then offset names the free chunk below if there is one, and nothing is freed.
ReallocateMove(r, i, n) ==
    /\ FreeSize(chunks, i - 1) + chunks[i].size + FreeSize(chunks, i + 1) < n + 1
    /\ \/ NoFit(n + 1) /\ Return("NotEnoughFreeSpace")
       \/ \E j \in DOMAIN chunks :
             /\ FirstFit(j, n + 1)
             /\ LET cs == ChunkAllocated(j, n + 1)
                IN  \E k \in DOMAIN cs :
                       /\ Holds(cs, k, r.lo)
                       /\ Commit(r, IF IsFree(chunks, i - 1) THEN cs ELSE ChunkFreed(cs, k),
                                 chunks[j].offset, n)
             /\ UNCHANGED torn

Reallocate(a, n) ==
    \/ Unmanaged(a) /\ Return("ReallocateUnmanaged")
    \/ \E r \in regions :
          /\ RegionAt(r, a) /\ r.lo = a
          /\ \/ \E i \in DOMAIN chunks :
                   /\ Holds(chunks, i, a)
                   /\ \/ ReallocateKeep(r, i, n)
                      \/ ReallocateShrink(r, i, n)
                      \/ ReallocateUp(r, i, n)
                      \/ ReallocateDown(r, i, n)
                      \/ ReallocateMove(r, i, n)
             \/ /\ \A i \in DOMAIN chunks : ~Holds(chunks, i, a)
                /\ Return("NotEnoughFreeSpace")

Deallocate(a) ==
    \/ Unmanaged(a) /\ Return("FreeUnmanaged")
    \/ \E r \in regions :
          /\ RegionAt(r, a) /\ r.lo = a
          /\ \/ /\ \E i \in DOMAIN chunks :
                      Holds(chunks, i, a) /\ chunks' = ChunkFreed(chunks, i)
                /\ writable' = writable \ Extent(r.lo, r.hi - r.lo)
                /\ regions' = regions \ {r}
                /\ result' = "Ok"
                /\ UNCHANGED <<data, torn>>
             \/ /\ \A i \in DOMAIN chunks : ~Holds(chunks, i, a)
                /\ Return("FreeUnmanaged")

-----------------------------------------------------------------------------
(* Access, by way of translate_checked and the checks of the backing.      *)

InBounds(a, n) == a + n <= Size
AllWritable(a, n) == Extent(a, n) \subseteq writable

Touched(a, n) == {r \in regions : r.lo < a + n /\ a < r.hi}

\* translate_checked accepts an access that overlaps exactly one region, even
\* in part.
Translates(a, n) == \E r \in regions : Touched(a, n) = {r}

Untranslated(a, n) ==
    \/ Touched(a, n) = {} /\ Return("AccessUnmanaged")
    \/ Touched(a, n) # {} /\ ~Translates(a, n) /\ Return("HeapOverflow")

\* get_values and view_values.
ViewValues(a, n) ==
    \/ Untranslated(a, n)
    \/ Translates(a, n) /\ ~InBounds(a, n) /\ Return("OOBRead")
    \/ Translates(a, n) /\ InBounds(a, n) /\ Return("Ok")

\* set_values, and view_values_mut with the values the caller leaves behind;
\* they differ in the fault they report.
SetValues(a, n, fault) ==
    \/ Untranslated(a, n)
    \/ Translates(a, n) /\ ~InBounds(a, n) /\ Return(fault)
    \/ Translates(a, n) /\ InBounds(a, n) /\ ~AllWritable(a, n) /\ Return("AccessViolation")
    \/ /\ Translates(a, n) /\ InBounds(a, n) /\ AllWritable(a, n)
       /\ \E vals \in [0..(n - 1) -> Values] :
             data' = [c \in Cells |-> IF c \in Extent(a, n) THEN vals[c - a] ELSE data[c]]
       /\ result' = "Ok"
       /\ UNCHANGED <<chunks, regions, writable, torn>>

CopyValues(s, d, n) ==
    \/ Untranslated(s, n)
    \/ Translates(s, n) /\ Untranslated(d, n)
    \/ /\ Translates(s, n) /\ Translates(d, n)
       /\ \/ ~InBounds(s, n) /\ Return("OOBRead")
          \/ InBounds(s, n) /\ ~InBounds(d, n) /\ Return("OOBWrite")
          \/ /\ InBounds(s, n) /\ InBounds(d, n) /\ ~AllWritable(d, n)
             /\ Return("AccessViolation")
          \/ /\ InBounds(s, n) /\ InBounds(d, n) /\ AllWritable(d, n)
             /\ \/ d # s /\ LengthsDiffer(s, d, n) /\ Return("Panic")
                \/ /\ d = s \/ ~LengthsDiffer(s, d, n)
                   /\ data' = IF d = s THEN data ELSE Copied(data, s, d, n)
                   /\ result' = "Ok"
                   /\ UNCHANGED <<chunks, regions, writable, torn>>

-----------------------------------------------------------------------------
\* A panic ends the program.  What the heap does after its chunk list is torn
\* is not modelled: the history ends there too.
Running == result # "Panic" /\ ~torn

Manage ==
    \/ \E n \in AllocSizes : Allocate(n)
    \/ \E a \in Addresses, n \in AllocSizes : Reallocate(a, n)
    \/ \E a \in Addresses : Deallocate(a)

Access ==
    \E a \in Addresses, n \in AccessSizes :
        \/ ViewValues(a, n)
        \/ \E fault \in {"OOBRead", "OOBWrite"} : SetValues(a, n, fault)
        \/ \E d \in Addresses : CopyValues(a, d, n)

Next == Running /\ (Manage \/ Access)

Spec == Init /\ [][Next]_vars

-----------------------------------------------------------------------------
(* Properties.                                                             *)

Statuses == {"Ok", "Panic", "NotEnoughFreeSpace", "ReallocateUnmanaged", "FreeUnmanaged",
             "AccessUnmanaged", "HeapOverflow", "AccessViolation", "OOBRead", "OOBWrite"}

Chunk == [taken : BOOLEAN, offset : Cells, size : 1..Size]

\* Every variable has its type.
TypeOK ==
    /\ chunks \in Seq(Chunk)
    /\ regions \in SUBSET [lo : Cells, hi : Cells]
    /\ writable \in SUBSET Cells
    /\ data \in [Cells -> Values]
    /\ result \in Statuses
    /\ torn \in BOOLEAN

End(c) == c.offset + c.size

\* The chunks partition the backing, in order and without gap or overlap
\* (chunked.rs:95-221), until a downward merge tears the list.
ChunksTileHeap ==
    ~torn =>
        /\ chunks # <<>>
        /\ chunks[1].offset = 0
        /\ End(chunks[Len(chunks)]) = Size
        /\ \A i \in 1..(Len(chunks) - 1) : End(chunks[i]) = chunks[i + 1].offset

\* Free space is never split in two neighbouring chunks: what first-fit cannot
\* find in one chunk is not there (chunked.rs:95-115, 195-221).
FreeChunksMerged ==
    ~torn => \A i \in 1..(Len(chunks) - 1) : chunks[i].taken \/ chunks[i + 1].taken

\* The two records of what is allocated agree: the regions are exactly the
\* taken chunks without their red zones.  Nothing is leaked, nothing handed out
\* twice (chunked.rs:296-431).
RegionsAreChunks ==
    ~torn =>
        regions = {Region(chunks[i].offset, chunks[i].size - 1) :
                      i \in {k \in DOMAIN chunks : chunks[k].taken}}

\* The last byte of every chunk is sealed, those of free chunks included, even
\* where freed or shrunk regions leave writable bytes behind (chunked.rs:300-315,
\* 370-392, 422-426).
ChunksSealed ==
    ~torn => \A i \in DOMAIN chunks : End(chunks[i]) - 1 \notin writable

\* Though translate_checked (chunked.rs:433-452) accepts an access that overlaps
\* a region in part, a write that passes all checks stays in one region.
WritesConfined ==
    ~torn =>
        \A a \in Cells, n \in 1..Size :
            Translates(a, n) /\ InBounds(a, n) /\ AllWritable(a, n) =>
                \E r \in regions : Extent(a, n) \subseteq r.lo..(r.hi - 1)

\* Allocating, freeing and resizing keep the contents of every region that
\* stays, and a resized region keeps its contents up to the smaller size,
\* moved or not (chunked.rs:331-400).
Prefix(r, q) == 0..(Min({r.hi - r.lo, q.hi - q.lo}) - 1)
ContentsKept ==
    [][ regions' # regions /\ Manage =>
          /\ \A r \in regions \cap regions' : \A a \in r.lo..(r.hi - 1) : data'[a] = data[a]
          /\ \A r \in regions \ regions', q \in regions' \ regions :
                \A j \in Prefix(r, q) : data'[q.lo + j] = data[r.lo + j] ]_vars

\* "copy if moved" (chunked.rs:380): a reallocation that has to move a region
\* to another free chunk completes.  It does not: the copy panics.
MovesComplete ==
    [][ \A r \in regions, i \in DOMAIN chunks, n \in AllocSizes :
            Holds(chunks, i, r.lo) /\ ReallocateMove(r, i, n) => result' # "Panic" ]_vars
=============================================================================
