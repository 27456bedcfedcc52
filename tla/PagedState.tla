------------------------------ MODULE PagedState ------------------------------
(***************************************************************************)
(* PagedState (fuguex-state/src/paged.rs): an address space assembled from *)
(* segments.  A Static segment is a window on the flat state `inner', a    *)
(* StaticMapping has a flat state of its own, a Mapping a heap.  Every     *)
(* access finds the segment of its first address, translates the address   *)
(* into a position of a flat state and leaves the rest to it.              *)
(*                                                                         *)
(* A flat state is an array that is copied by fork and restore, which is   *)
(* what FlatState is proved to implement for restores that keep the        *)
(* discipline `tracks'; only those are taken here.                         *)
(*                                                                         *)
(* A heap is its regions and the addresses with write permission.  They    *)
(* never change once it is in a PagedState: mapping_for_mut lends a shared *)
(* &ChunkState (paged.rs:95-98, 138-148), through which nothing can be     *)
(* allocated, resized or freed.  So a heap made by `mapping' stays without *)
(* a region, and those with regions are made before, by the operations of  *)
(* ChunkHeap, and given to new or from_parts in Segment::mapping.          *)
(***************************************************************************)
EXTENDS Rewinding, Integers, FiniteSets   \* Handles: the PagedState values

CONSTANTS
    Space,      \* number of addresses: address arithmetic is modulo Space
    Values,     \* contents of a cell
    Default,    \* T::default()
    InnerSize,  \* length of inner
    ReadOnly,   \* cells of inner without write permission
    Statics,    \* the Static segments the state is made with
    Heaps,      \* the Mapping segments it is made with
    Extents,    \* [lo, hi) of the mappings callers ask for
    Names,      \* their names
    Sizes       \* sizes of accesses

Inside(b) == b.lo..(b.hi - 1)
Extent(a, n) == a..(a + n - 1)
Addresses == 0..(Space - 1)
Interval == [lo : Addresses, hi : Addresses]

\* A segment of each kind; the regions and the addresses with write permission
\* are those of a heap.
SegmentsOf(kinds, names, offsets) ==
    [lo : Addresses, hi : Addresses, kind : kinds, name : names, offset : offsets,
     regions : SUBSET Interval, writable : SUBSET Addresses]

ASSUME PagedAssumption ==
    /\ Space \in Nat /\ InnerSize \in Nat
    /\ Default \in Values
    /\ ReadOnly \subseteq 0..(InnerSize - 1)
    /\ Sizes \subseteq 1..(Space - 1)
    /\ Extents \subseteq Interval
    /\ \A e \in Extents : e.lo < e.hi
    \* what the loader builds: windows apart in the address space and in inner
    /\ Statics \subseteq SegmentsOf({"Static"}, {s.name : s \in Statics}, Nat)
    /\ \A s \in Statics :
          /\ s.lo < s.hi /\ s.offset + (s.hi - s.lo) <= InnerSize
          /\ s.regions = {} /\ s.writable = {}
    /\ \A s, t \in Statics : s # t =>
          Extent(s.offset, s.hi - s.lo) \cap Extent(t.offset, t.hi - t.lo) = {}
    \* what ChunkHeap's RegionsAreChunks, ChunksTileHeap and ChunksSealed say of
    \* a heap: a byte that is not writable behind each region and before it
    /\ Heaps \subseteq SegmentsOf({"Mapping"}, {s.name : s \in Heaps}, {0})
    /\ \A s \in Heaps :
          /\ s.lo < s.hi /\ s.writable \subseteq Inside(s)
          /\ IsFiniteSet(s.regions)
          /\ \A r \in s.regions : s.lo <= r.lo /\ r.lo < r.hi /\ r.hi < s.hi
          /\ \A r \in s.regions : {r.lo - 1, r.hi} \cap s.writable = {}
          /\ \A q, r \in s.regions : q # r => q.hi < r.lo \/ r.hi < q.lo
    /\ \A s, t \in Statics \cup Heaps : s # t => Inside(s) \cap Inside(t) = {}

VARIABLES
    live,       \* handles that hold a state
    segments,   \* segments[h]: the interval map of h
    flat,       \* flat[h][f][i]: the cell i of the flat state f of h
    result,     \* outcome of the last call: status, address named, values seen
    call,       \* history: the last call with its arguments
    tracks      \* history: k \in tracks[h] when h may be rewound to k

vars == <<live, segments, flat, result, call, tracks>>

\* The flat states of h: inner, and one for every mapping, by its base.
Inner == -1
Flats(segs) == {Inner} \cup {s.lo : s \in {t \in segs : t.kind # "Static"}}
Cells(n) == 0..(n - 1)

\* The segments new and from_parts are given; the flat states behind them may
\* hold anything.
Given == Statics \cup Heaps

FlatStates == UNION {[Cells(n) -> Values] : n \in {InnerSize} \cup {s.hi - s.lo : s \in Heaps}}

\* new and from_parts.
Init ==
    /\ \E h \in Handles : live = {h}
    /\ segments = [h \in Handles |-> IF h \in live THEN Given ELSE {}]
    /\ \E cells \in [Flats(Given) -> FlatStates] :
          /\ DOMAIN cells[Inner] = Cells(InnerSize)
          /\ \A s \in Heaps : DOMAIN cells[s.lo] = Cells(s.hi - s.lo)
          /\ flat = [h \in Handles |->
                IF h \in live THEN cells
                ELSE [f \in {Inner} |-> [i \in Cells(InnerSize) |-> Default]]]
    /\ result = [status |-> "Ok", at |-> 0, seen |-> <<>>]
    /\ call = <<"New">>
    /\ tracks = [h \in Handles |-> {}]

Result(status, at, seen) == result' = [status |-> status, at |-> at, seen |-> seen]

Fail(status, at) ==
    /\ Result(status, at, <<>>)
    /\ UNCHANGED <<live, segments, flat, tracks>>

-----------------------------------------------------------------------------
(* Translation.                                                            *)

Plus(a, n) == (a + n) % Space
At(h, a) == {s \in segments[h] : a \in Inside(s)}
Unmapped(h, a) == Plus(a, 1) < a \/ At(h, a) = {}
SegmentAt(h, a) == CHOOSE s \in segments[h] : a \in Inside(s)

\* The flat state a segment stands for.
FlatOf(s) == IF s.kind = "Static" THEN Inner ELSE s.lo

\* The position in it of an address of the segment.
Position(s, a) == (a - s.lo) + s.offset

\* Where an access goes: a position of a flat state, or nowhere.
Found(f, p) == [status |-> "Ok", flat |-> f, at |-> p]
Missed(status, a) == [status |-> status, flat |-> Inner, at |-> a]

Touched(s, a, n) == {r \in s.regions : r.lo < a + n /\ a < r.hi}

\* translate_checked, for an access in heap s; IntervalSet::iter panics when
\* the end of the access wrapped round.
Translated(s, a, n) ==
    LET touched == Cardinality(Touched(s, a, n)) IN
    CASE Plus(a, n) <= a -> Missed("Panic", a)
      [] Plus(a, n) > a /\ touched = 0 -> Missed("AccessUnmanaged", a)
      [] Plus(a, n) > a /\ touched = 1 -> Found(s.lo, a - s.lo)
      [] Plus(a, n) > a /\ touched > 1 -> Missed("HeapOverflow", a)

\* (mutation) the end of the access is not compared with the segment's.
OverlapsNever(s, a, n) == FALSE

Overlaps(s, a, n) == Plus(a, n) > s.hi

\* What with_flat and with_flat_mut find for an access in segment s ...
InSegment(s, a, n) ==
    IF s.kind = "Mapping" THEN Translated(s, a, n) ELSE Found(FlatOf(s), Position(s, a))

\* ... and anywhere.
WithFlat(h, a, n) ==
    IF Unmapped(h, a) THEN Missed("UnmappedAddress", a)
    ELSE IF Overlaps(SegmentAt(h, a), a, n) THEN Missed("OverlappedAccess", a)
    ELSE InSegment(SegmentAt(h, a), a, n)

-----------------------------------------------------------------------------
(* The flat states, and the address Error::backing puts in their errors:   *)
(* its `base' is the translated address, as the closures shadow `address'. *)

InBounds(h, f, p, n) == p + n <= Cardinality(DOMAIN flat[h][f])
Rebased(p) == p + p

WritableCells(h, f) ==
    IF f = Inner THEN Cells(InnerSize) \ ReadOnly
    ELSE {i \in DOMAIN flat[h][f] :
             \A s \in segments[h] : s.lo = f /\ s.kind = "Mapping" => f + i \in s.writable}

See(h, f, p, n) ==
    \/ ~InBounds(h, f, p, n) /\ Fail("OOBRead", Rebased(p))
    \/ InBounds(h, f, p, n) /\ Result("Ok", 0, [i \in Cells(n) |-> flat[h][f][p + i]])
       /\ UNCHANGED <<live, segments, flat, tracks>>

Overwritten(cells, p, n, vals) ==
    [i \in DOMAIN cells |-> IF i \in Extent(p, n) THEN vals[i - p] ELSE cells[i]]

Put(h, f, p, n, vals, fault) ==
    \/ ~InBounds(h, f, p, n) /\ Fail(fault, Rebased(p))
    \/ /\ InBounds(h, f, p, n) /\ ~(Extent(p, n) \subseteq WritableCells(h, f))
       /\ Fail("AccessViolation", Rebased(p))
    \/ /\ InBounds(h, f, p, n) /\ Extent(p, n) \subseteq WritableCells(h, f)
       /\ flat' = [flat EXCEPT ![h][f] = Overwritten(@, p, n, vals)]
       /\ Result("Ok", 0, <<>>)
       /\ tracks' = AfterChange(tracks, h)
       /\ UNCHANGED <<live, segments>>

-----------------------------------------------------------------------------
(* Accesses.                                                               *)

SeeAt(h, w, n) ==
    \/ w.status # "Ok" /\ Fail(w.status, w.at)
    \/ w.status = "Ok" /\ See(h, w.flat, w.at, n)

\* get_values and view_values.
ViewValues(h, a, n) == SeeAt(h, WithFlat(h, a, n), n)

\* set_values (OOBWrite) and view_values_mut (OOBRead), through whose slice
\* the caller leaves vals.
SetValues(h, a, n, vals, fault) ==
    LET w == WithFlat(h, a, n) IN
    \/ w.status # "Ok" /\ Fail(w.status, w.at)
    \/ w.status = "Ok" /\ Put(h, w.flat, w.at, n, vals, fault)

\* copy_values views the source, clones it, and writes a mutable view.
CopyValues(h, s, d, n) ==
    LET w == WithFlat(h, s, n)
        seen == w.status = "Ok" /\ InBounds(h, w.flat, w.at, n)
    IN  \/ ~seen /\ SeeAt(h, w, n)
        \/ seen /\ SetValues(h, d, n, [i \in Cells(n) |-> flat[h][w.flat][w.at + i]], "OOBRead")

\* with_flat_from: the rest of the segment, but as many bytes as the whole
\* heap is long, whatever the address.
RestOf(s, a) == IF s.kind = "Mapping" THEN s.hi - s.lo ELSE s.hi - a

ViewValuesFrom(h, a) ==
    \/ Unmapped(h, a) /\ Fail("UnmappedAddress", a)
    \/ /\ ~Unmapped(h, a)
       /\ LET s == SegmentAt(h, a)
              n == RestOf(s, a)
          IN  SeeAt(h, InSegment(s, a, n), n)

-----------------------------------------------------------------------------
(* Segments.                                                               *)

HasOverlap(h, e) == \E s \in segments[h] : Inside(s) \cap Inside(e) # {}

\* (mutation) the backing is one cell too long.
NewFlatPastEnd(e) == [i \in Cells(e.hi - e.lo + 1) |-> Default]

NewFlat(e) == [i \in Cells(e.hi - e.lo) |-> Default]

\* static_mapping (kind StaticMapping) and mapping (kind Mapping), a heap that
\* has no region.
Map(h, e, kind, name) ==
    \/ HasOverlap(h, e) /\ Fail("OverlappedMapping", e.lo)
    \/ /\ ~HasOverlap(h, e)
       /\ segments' = [segments EXCEPT ![h] = @ \cup
              {[lo |-> e.lo, hi |-> e.hi, kind |-> kind, name |-> name, offset |-> 0,
                regions |-> {}, writable |-> {}]}]
       /\ flat' = [flat EXCEPT ![h] =
              [f \in DOMAIN @ \cup {e.lo} |->
                  IF f = e.lo THEN NewFlat(e) ELSE @[f]]]
       /\ Result("Ok", 0, <<>>)
       /\ tracks' = AfterChange(tracks, h)
       /\ UNCHANGED live

-----------------------------------------------------------------------------
(* Snapshots.                                                              *)

\* k = h.fork(): every segment and inner are forked.
Fork(h, k) ==
    /\ live' = live \cup {k}
    /\ segments' = [segments EXCEPT ![k] = segments[h]]
    /\ flat' = [flat EXCEPT ![k] = flat[h]]
    /\ Result("Ok", 0, <<>>)
    /\ tracks' = AfterBecoming(tracks, k, h)

SameInterval(s, t) == s.lo = t.lo /\ s.hi = t.hi

\* (mutation) mappings are dropped.
KeptStatic(h, k) ==
    {t \in segments[k] : t.kind = "Static" /\ \E s \in segments[h] : SameInterval(s, t)}

\* Of its own segments h keeps those whose interval the snapshot has too, and
\* they become the snapshot's ...
Kept(h, k) == {t \in segments[k] : \E s \in segments[h] : SameInterval(s, t)}

\* ... and Segment::restore panics when the two are not alike.
Incompatible(h, k) ==
    \E s \in segments[h], t \in segments[k] :
        SameInterval(s, t) /\ (s.kind # t.kind \/ s.name # t.name \/ s.offset # t.offset)

\* h.restore(&k)
Restore(h, k) ==
    \/ Incompatible(h, k) /\ Fail("Panic", 0)
    \/ /\ ~Incompatible(h, k)
       /\ segments' = [segments EXCEPT ![h] = Kept(h, k)]
       /\ flat' = [flat EXCEPT ![h] =
              [f \in Flats(Kept(h, k)) |-> flat[k][f]]]
       /\ Result("Ok", 0, <<>>)
       /\ tracks' = AfterBecoming(tracks, h, k)
       /\ UNCHANGED live

-----------------------------------------------------------------------------
Access(h) ==
    \E a \in Addresses :
        \/ ViewValuesFrom(h, a) /\ call' = <<"From", h, a>>
        \/ \E n \in Sizes :
              \/ ViewValues(h, a, n) /\ call' = <<"Read", h, a, n>>
              \/ \E vals \in [Cells(n) -> Values], fault \in {"OOBRead", "OOBWrite"} :
                    SetValues(h, a, n, vals, fault) /\ call' = <<"Write", h, a, n, vals>>
              \/ \E d \in Addresses :
                    CopyValues(h, a, d, n) /\ call' = <<"Copy", h, a, n, d>>

Running == result.status # "Panic"

Next ==
    \/ Running /\ \E h \in live : Access(h)
    \/ Running /\ \E h \in live, e \in Extents, name \in Names :
          /\ Map(h, e, "StaticMapping", name) \/ Map(h, e, "Mapping", name)
          /\ call' = <<"Map", h, e>>
    \/ Running /\ \E h \in live, k \in Handles :
          h # k /\ Fork(h, k) /\ call' = <<"Become", k, h>>
    \/ Running /\ \E h, k \in live :
          h # k /\ k \in tracks[h] /\ Restore(h, k) /\ call' = <<"Become", h, k>>

Spec == Init /\ [][Next]_vars

-----------------------------------------------------------------------------
(* Properties.                                                             *)

Segment == SegmentsOf({"Static", "StaticMapping", "Mapping"},
                      Names \cup {s.name : s \in Given}, Cells(InnerSize + 1))

\* Every variable has its type: the flat states of h are inner and those of
\* its mappings, each as long as its segment (call is history).
TypeOK ==
    /\ live \in SUBSET Handles
    /\ segments \in [Handles -> SUBSET Segment]
    /\ \A h \in Handles :
          /\ \A f \in DOMAIN flat[h] : \A i \in DOMAIN flat[h][f] : flat[h][f][i] \in Values
          /\ DOMAIN flat[h] = Flats(segments[h])
          /\ h \in live => DOMAIN flat[h][Inner] = Cells(InnerSize)
          /\ \A s \in segments[h] : s.kind # "Static" =>
                DOMAIN flat[h][s.lo] = Cells(s.hi - s.lo)
    /\ tracks \in [Handles -> SUBSET Handles]

\* An access from a window that runs past the end of the address space is not
\* refused, as paged.rs:410 compares the wrapped sum with the end of the window,
\* unless it also runs past the end of inner.
Astray ==
    {w \in Addresses \X Sizes : \E s \in Statics :
        /\ w[1] \in Inside(s)
        /\ w[1] + w[2] >= Space
        /\ Position(s, w[1]) + w[2] <= InnerSize}

\* What is never written: read-only cells of inner, and bytes of regions that
\* have lost write permission (chunked.rs:387).
Sealed ==
    {a \in Addresses :
        \/ \E s \in Statics : a \in Inside(s) /\ Position(s, a) \in ReadOnly
        \/ \E s \in Heaps : a \notin s.writable /\ \E r \in s.regions : a \in Inside(r)}

\* The mapping to SparseMemory: an address holds the cell it translates to.
Mapped(h) == UNION {Inside(s) : s \in segments[h]}

ToArea(s) == [lo |-> s.lo, hi |-> s.hi]
AreasOf(segs) == {ToArea(s) : s \in segs}
RegionsOf(segs) == UNION {s.regions : s \in segs}

Sparse == INSTANCE SparseMemory WITH
    Windows <- AreasOf(Statics),
    Heaps <- AreasOf(Heaps),
    Regions <- RegionsOf(Heaps),
    areas <- [h \in Handles |-> AreasOf(segments[h])],
    blocks <- [h \in Handles |->
        AreasOf({s \in segments[h] : s.kind # "Mapping"}) \cup RegionsOf(segments[h])],
    sealed <- Sealed,
    mem <- [h \in Handles |-> [a \in Mapped(h) |->
        LET s == SegmentAt(h, a) IN flat[h][FlatOf(s)][Position(s, a)]]],
    result <- [status |-> result.status, seen |-> result.seen]

\* Whatever is mapped, forked and restored, and wherever an access falls: an
\* address has one cell of its own, an access never leaves its segment or
\* region, but one from a window past the end of the address space, which
\* changes nothing but windows; a restore gives the snapshot's segments and
\* never panics (paged.rs:392-553, 590-636).
ImplementsSparse == Sparse!Spec
=============================================================================
