-------------------------- MODULE PagedStateProofs --------------------------
(***************************************************************************)
(* PagedState proved for every layout of windows and heaps, size of the    *)
(* address space, set of handles and of mappings: types, and that it       *)
(* implements SparseMemory; and the loader that makes the windows.         *)
(***************************************************************************)
EXTENDS PagedState, Loader, FiniteSetTheorems, TLAPS

-----------------------------------------------------------------------------
(* The invariant.                                                          *)

\* The regions of a segment, if it is a heap: apart, each with a byte before and
\* one behind it that cannot be written.
Parted(s) ==
    /\ IsFiniteSet(s.regions) /\ s.regions \subseteq Interval
    /\ \A r \in s.regions :
          /\ s.lo <= r.lo /\ r.lo < r.hi /\ r.hi < s.hi
          /\ r.lo - 1 \notin s.writable /\ r.hi \notin s.writable
    /\ \A q, r \in s.regions : q # r => q.hi < r.lo \/ r.hi < q.lo

\* Segments are not empty and lie apart, and windows and heaps with regions are
\* those the state was made with.
Laid(segs) ==
    /\ segs \subseteq Segment
    /\ \A s \in segs : s.lo < s.hi /\ Parted(s)
    /\ \A s \in segs : IF s.kind = "Static" THEN s \in Statics ELSE s.offset = 0
    /\ \A s \in segs : s.regions # {} => s \in Heaps
    /\ \A s, t \in segs : s # t => Inside(s) \cap Inside(t) = {}

\* There is a flat state for inner and for every mapping, as long as it.
Backed(segs, flats) ==
    /\ flats = [f \in Flats(segs) |-> flats[f]]
    /\ flats[Inner] \in [Cells(InnerSize) -> Values]
    /\ \A s \in segs : s.kind # "Static" => flats[s.lo] \in [Cells(s.hi - s.lo) -> Values]

Sound(segs, flats) == Laid(segs) /\ Backed(segs, flats)

Typed ==
    /\ live \in SUBSET Handles
    /\ segments = [h \in Handles |-> segments[h]]
    /\ flat = [h \in Handles |-> flat[h]]
    /\ tracks \in [Handles -> SUBSET Handles]

\* What a state may be rewound to has no segment that it lacks itself.
TracksGrow ==
    \A h \in Handles : \A k \in tracks[h] : k # h /\ segments[k] \subseteq segments[h]

PagedInv ==
    /\ Typed
    /\ \A h \in Handles : Sound(segments[h], flat[h])
    /\ \A h \in live : Given \subseteq segments[h]
    /\ TracksGrow

-----------------------------------------------------------------------------
(* Addresses and segments.                                                 *)

LEMMA Wrapped ==
    ASSUME NEW m \in Nat \ {0}, NEW a \in Nat, NEW n \in Nat, a + n < m + m
    PROVE  (a + n) % m = IF a + n < m THEN a + n ELSE a + n - m
OBVIOUS

LEMMA PlusIs ==
    ASSUME NEW a \in Addresses, NEW n \in 0..Space
    PROVE  /\ Space \in Nat /\ Space > 0
           /\ Plus(a, n) = IF a + n < Space THEN a + n ELSE a + n - Space
<1>1. /\ Space \in Nat \ {0} /\ a \in Nat /\ n \in Nat /\ a + n < Space + Space
      /\ Space \in Nat /\ Space > 0
  BY PagedAssumption DEF Addresses
<1>2. (a + n) % Space = IF a + n < Space THEN a + n ELSE a + n - Space
  BY <1>1, Wrapped
<1> QED
  BY <1>1, <1>2 DEF Plus

\* What a window is (PagedAssumption).
LEMMA WindowTyped ==
    ASSUME NEW s \in Statics
    PROVE  /\ s \in Segment /\ s.kind = "Static" /\ s.lo < s.hi
           /\ s.offset \in Nat /\ s.offset + (s.hi - s.lo) <= InnerSize
           /\ s.regions = {} /\ Parted(s)
<1>1. /\ s \in SegmentsOf({"Static"}, {t.name : t \in Statics}, Nat)
      /\ s.lo < s.hi /\ s.offset + (s.hi - s.lo) <= InnerSize
      /\ s.regions = {} /\ s.writable = {}
  BY PagedAssumption
<1>2. s.lo \in Int /\ s.hi \in Int /\ InnerSize \in Nat
  BY <1>1, PagedAssumption DEF Addresses, SegmentsOf
<1>3. s.offset \in Cells(InnerSize + 1)
  BY <1>1, <1>2 DEF Cells, SegmentsOf
<1>4. s \in Segment /\ s.kind = "Static" /\ s.offset \in Nat
  BY <1>1, <1>3 DEF Segment, SegmentsOf, Given
<1>5. Parted(s)
  BY <1>1, FS_EmptySet DEF Parted
<1> QED
  BY <1>1, <1>4, <1>5

\* What a heap is (PagedAssumption).
LEMMA HeapTyped ==
    ASSUME NEW s \in Heaps
    PROVE  /\ s \in Segment /\ s.kind = "Mapping" /\ s.lo < s.hi /\ s.offset = 0
           /\ s.lo \in Nat /\ s.hi \in Nat
           /\ Parted(s)
<1>1. /\ s \in SegmentsOf({"Mapping"}, {t.name : t \in Heaps}, {0})
      /\ s.lo < s.hi /\ s.writable \subseteq Inside(s)
      /\ IsFiniteSet(s.regions)
      /\ \A r \in s.regions : s.lo <= r.lo /\ r.lo < r.hi /\ r.hi < s.hi
      /\ \A r \in s.regions : {r.lo - 1, r.hi} \cap s.writable = {}
      /\ \A q, r \in s.regions : q # r => q.hi < r.lo \/ r.hi < q.lo
  BY PagedAssumption
<1>2. 0 \in Cells(InnerSize + 1)
  BY PagedAssumption DEF Cells
<1>3. s \in Segment /\ s.kind = "Mapping" /\ s.offset = 0
  BY <1>1, <1>2 DEF Segment, SegmentsOf, Given
<1>4. s.regions \subseteq Interval /\ s.lo \in Nat /\ s.hi \in Nat
  BY <1>1, PagedAssumption DEF SegmentsOf, Addresses
<1>5. Parted(s)
  BY <1>1, <1>4 DEF Parted
<1> QED
  BY <1>1, <1>3, <1>4, <1>5

\* The segment of an address is the only one.
LEMMA SegmentIs ==
    ASSUME NEW h, Laid(segments[h]), NEW s \in segments[h], NEW a \in Inside(s)
    PROVE  SegmentAt(h, a) = s
<1>1. \A t \in segments[h] : a \in Inside(t) => t = s
  BY DEF Laid
<1> QED
  BY <1>1 DEF SegmentAt

\* The length of the flat state of a segment.
FlatLen(s) == IF s.kind = "Static" THEN InnerSize ELSE s.hi - s.lo

\* Each segment has its flat state, which is long enough for it.
LEMMA FlatOfSegment ==
    ASSUME NEW segs, NEW flats, Laid(segs), Backed(segs, flats), NEW s \in segs
    PROVE  /\ s.lo \in Nat /\ s.hi \in Nat /\ s.lo < s.hi /\ s.hi < Space
           /\ s.offset \in Nat /\ s.offset + (s.hi - s.lo) <= FlatLen(s)
           /\ FlatOf(s) \in Flats(segs)
           /\ flats[FlatOf(s)] \in [Cells(FlatLen(s)) -> Values]
           /\ FlatLen(s) \in Nat
           /\ Cardinality(DOMAIN flats[FlatOf(s)]) = FlatLen(s)
<1>1. /\ s.lo \in Nat /\ s.hi \in Nat /\ s.lo < s.hi /\ s.hi < Space
      /\ s.offset \in Nat
  BY PagedAssumption DEF Laid, Segment, SegmentsOf, Addresses, Cells
<1>2. FlatLen(s) \in Nat /\ s.offset + (s.hi - s.lo) <= FlatLen(s)
  BY <1>1, WindowTyped, PagedAssumption DEF Laid, FlatLen
<1>3. FlatOf(s) \in Flats(segs)
  BY DEF FlatOf, Flats
<1>4. flats[FlatOf(s)] \in [Cells(FlatLen(s)) -> Values]
  BY DEF FlatOf, FlatLen, Backed
<1>5. Cardinality(Cells(FlatLen(s))) = FlatLen(s)
  <2>1. 0 \in Int /\ FlatLen(s) - 1 \in Int
    BY <1>2
  <2>2. Cardinality(0..(FlatLen(s) - 1)) = IF 0 > FlatLen(s) - 1 THEN 0 ELSE FlatLen(s) - 1 - 0 + 1
    BY <2>1, FS_Interval
  <2> QED
    BY <1>2, <2>2 DEF Cells
<1> QED
  BY <1>1, <1>2, <1>3, <1>4, <1>5

\* An address that is mapped has a segment.
LEMMA SegmentHere ==
    ASSUME NEW h, NEW a \in Addresses, ~Unmapped(h, a)
    PROVE  SegmentAt(h, a) \in segments[h] /\ a \in Inside(SegmentAt(h, a))
BY DEF Unmapped, At, SegmentAt

\* What a heap makes of an access, by the regions the access touches.
LEMMA TranslatedIs ==
    ASSUME NEW s, IsFiniteSet(s.regions), NEW a \in Addresses, NEW n \in 0..Space
    PROVE  \/ Plus(a, n) <= a /\ Translated(s, a, n) = Missed("Panic", a)
           \/ /\ Plus(a, n) > a
              /\ \/ Touched(s, a, n) = {} /\ Translated(s, a, n) = Missed("AccessUnmanaged", a)
                 \/ /\ \E r : Touched(s, a, n) = {r}
                    /\ Translated(s, a, n) = Found(s.lo, a - s.lo)
                 \/ /\ Touched(s, a, n) # {} /\ \A r : Touched(s, a, n) # {r}
                    /\ Translated(s, a, n) = Missed("HeapOverflow", a)
<1> DEFINE T == Touched(s, a, n)
           p == Plus(a, n)
           c == Cardinality(T)
           t == Translated(s, a, n)
<1>1. p \in Int /\ a \in Int
  BY PlusIs DEF Addresses
<1>2. IsFiniteSet(T)
  BY FS_Subset DEF Touched
<1>3. c \in Nat /\ (c = 0 <=> T = {}) /\ (c = 1 <=> \E r : T = {r})
  BY <1>2, FS_CardinalityType, FS_EmptySet, FS_Singleton
<1>4. t = CASE p <= a -> Missed("Panic", a)
            [] p > a /\ c = 0 -> Missed("AccessUnmanaged", a)
            [] p > a /\ c = 1 -> Found(s.lo, a - s.lo)
            [] p > a /\ c > 1 -> Missed("HeapOverflow", a)
  BY DEF Translated
<1> HIDE DEF T, p, c, t
<1>5. CASE p <= a
  <2>1. t = Missed("Panic", a)
    BY <1>1, <1>4, <1>5
  <2> QED
    BY <1>5, <2>1 DEF p, t
<1>6. CASE p > a /\ c = 0
  <2>1. t = Missed("AccessUnmanaged", a)
    BY <1>1, <1>4, <1>6
  <2> QED
    BY <1>3, <1>6, <2>1 DEF p, t, T
<1>7. CASE p > a /\ c = 1
  <2>1. t = Found(s.lo, a - s.lo)
    BY <1>1, <1>4, <1>7
  <2> QED
    BY <1>3, <1>7, <2>1 DEF p, t, T
<1>8. CASE p > a /\ c > 1
  <2>1. t = Missed("HeapOverflow", a)
    BY <1>1, <1>4, <1>8
  <2>2. c # 0 /\ c # 1
    BY <1>3, <1>8
  <2>3. T # {} /\ \A r : T # {r}
    BY <1>3, <2>2
  <2> QED
    BY <1>8, <2>1, <2>3 DEF p, t, T
<1>9. p <= a \/ (p > a /\ c = 0) \/ (p > a /\ c = 1) \/ (p > a /\ c > 1)
  BY <1>1, <1>3
<1> QED
  BY <1>5, <1>6, <1>7, <1>8, <1>9

\* Where an access is found, it is at the position of its first address.
LEMMA FoundAtPosition ==
    ASSUME NEW h, Laid(segments[h]), NEW s \in segments[h],
           NEW a \in Addresses, NEW n \in 0..Space,
           InSegment(s, a, n).status = "Ok"
    PROVE  InSegment(s, a, n) = Found(FlatOf(s), Position(s, a))
<1>1. CASE s.kind # "Mapping"
  BY <1>1 DEF InSegment
<1>2. CASE s.kind = "Mapping"
  <2>1. InSegment(s, a, n) = Translated(s, a, n) /\ s.offset = 0 /\ s.kind # "Static"
    BY <1>2 DEF InSegment, Laid
  <2>2. Translated(s, a, n) = Found(s.lo, a - s.lo)
    BY <2>1, TranslatedIs DEF Missed, Laid, Parted
  <2>3. a - s.lo = (a - s.lo) + 0
    BY PagedAssumption DEF Laid, Segment, SegmentsOf, Addresses
  <2> QED
    BY <2>1, <2>2, <2>3 DEF Position, FlatOf
<1> QED
  BY <1>1, <1>2

\* An access that is found lies in the segment of its first address.
LEMMA FoundIs ==
    ASSUME NEW h, Laid(segments[h]),
           NEW a \in Addresses, NEW n \in 0..Space, WithFlat(h, a, n).status = "Ok",
           NEW s, s = SegmentAt(h, a)
    PROVE  /\ s \in segments[h] /\ a \in Inside(s)
           /\ ~Unmapped(h, a) /\ ~Overlaps(s, a, n)
           /\ InSegment(s, a, n).status = "Ok"
           /\ WithFlat(h, a, n) = Found(FlatOf(s), Position(s, a))
<1>1. ~Unmapped(h, a) /\ ~Overlaps(s, a, n)
  BY DEF WithFlat, Missed
<1>2. s \in segments[h] /\ a \in Inside(s)
  BY <1>1, SegmentHere
<1>3. WithFlat(h, a, n) = InSegment(s, a, n)
  BY <1>1 DEF WithFlat
<1> QED
  BY <1>1, <1>2, <1>3, FoundAtPosition

-----------------------------------------------------------------------------
(* Steps that keep the invariant.                                          *)

Same == UNCHANGED <<live, segments, flat, tracks>>

LEMMA InvSame ==
    ASSUME PagedInv, Same
    PROVE  PagedInv'
BY DEF PagedInv, Same, Typed, Sound, Laid, Backed, TracksGrow

\* The backings are as long as before when one of them is overwritten.
LEMMA BackedWhenWritten ==
    ASSUME NEW segs, NEW flats, Backed(segs, flats), NEW f \in Flats(segs),
           NEW cells \in [DOMAIN flats[f] -> Values]
    PROVE  Backed(segs, [flats EXCEPT ![f] = cells])
<1> DEFINE new == [flats EXCEPT ![f] = cells]
<1>1. DOMAIN flats = Flats(segs)
  BY DEF Backed
<1>2. new = [g \in Flats(segs) |-> IF g = f THEN cells ELSE flats[g]]
  BY <1>1
<1>3. ASSUME NEW g \in Flats(segs), NEW D, flats[g] \in [D -> Values]
      PROVE  new[g] \in [D -> Values]
  BY <1>2, <1>3
<1>4. new[Inner] \in [Cells(InnerSize) -> Values]
  BY <1>3 DEF Backed, Flats
<1>5. \A s \in segs : s.kind # "Static" => new[s.lo] \in [Cells(s.hi - s.lo) -> Values]
  BY <1>3 DEF Backed, Flats
<1>6. new = [g \in Flats(segs) |-> new[g]]
  BY <1>2
<1> QED
  BY <1>4, <1>5, <1>6 DEF Backed

\* What a state may be rewound to, when h gains segments or none.
LEMMA TracksAfterChange ==
    ASSUME Typed, TracksGrow, NEW h \in Handles,
           tracks' = AfterChange(tracks, h),
           segments[h] \subseteq segments'[h],
           \A k \in Handles \ {h} : segments'[k] = segments[k]
    PROVE  TracksGrow' /\ tracks' \in [Handles -> SUBSET Handles]
<1>1. tracks' = [j \in Handles |-> IF j = h THEN tracks[h] ELSE tracks[j] \ {h}]
  BY DEF AfterChange
<1>2. tracks' \in [Handles -> SUBSET Handles]
  BY <1>1 DEF Typed
<1>3. ASSUME NEW j \in Handles, NEW k \in tracks'[j]
      PROVE  k # j /\ segments'[k] \subseteq segments'[j]
  <2>1. k \in tracks[j] /\ k # h /\ k \in Handles
    BY <1>1, <1>3 DEF Typed, TracksGrow
  <2> QED
    BY <2>1 DEF TracksGrow
<1> QED
  BY <1>2, <1>3 DEF TracksGrow

\* ... and when h becomes a copy of k.
LEMMA TracksAfterBecoming ==
    ASSUME Typed, TracksGrow, NEW h \in Handles, NEW k \in Handles, h # k,
           tracks' = AfterBecoming(tracks, h, k),
           segments' = [segments EXCEPT ![h] = segments[k]]
    PROVE  TracksGrow' /\ tracks' \in [Handles -> SUBSET Handles]
<1>1. tracks' = [j \in Handles |->
          IF j = h THEN (tracks[k] \cup {k}) \ {h}
          ELSE IF j = k \/ k \in tracks[j] THEN tracks[j] \cup {h}
          ELSE tracks[j] \ {h}]
  BY DEF AfterBecoming
<1>2. tracks' \in [Handles -> SUBSET Handles]
  BY <1>1 DEF Typed
<1>3. \A j \in Handles : segments'[j] = IF j = h THEN segments[k] ELSE segments[j]
  BY DEF Typed
<1>4. ASSUME NEW j \in Handles, NEW m \in tracks'[j]
      PROVE  m # j /\ segments'[m] \subseteq segments'[j]
  <2>1. m \in Handles
    BY <1>2
  <2>2. CASE j = h
    <3>1. m \in tracks[k] \cup {k} /\ m # h
      BY <1>1, <2>2
    <3> QED
      BY <1>3, <2>1, <2>2, <3>1 DEF TracksGrow
  <2>3. CASE j # h /\ m = h
    <3>1. j = k \/ k \in tracks[j]
      BY <1>1, <2>3 DEF TracksGrow
    <3> QED
      BY <1>3, <2>1, <2>3, <3>1 DEF TracksGrow
  <2>4. CASE j # h /\ m # h
    <3>1. m \in tracks[j]
      BY <1>1, <2>4
    <3> QED
      BY <1>3, <2>1, <2>4, <3>1 DEF TracksGrow
  <2> QED
    BY <2>2, <2>3, <2>4
<1> QED
  BY <1>2, <1>4 DEF TracksGrow

\* A write stores values of the right kind in one flat state.
LEMMA PutIs ==
    ASSUME PagedInv, NEW h \in live, NEW s \in segments[h], NEW a \in Inside(s),
           NEW n \in Nat, NEW vals \in [Cells(n) -> Values], NEW fault,
           Put(h, FlatOf(s), Position(s, a), n, vals, fault)
    PROVE  Same \/ PagedInv'
<1> DEFINE f == FlatOf(s)
           p == Position(s, a)
           cells == Overwritten(flat[h][f], p, n, vals)
<1>1. h \in Handles /\ Laid(segments[h]) /\ Backed(segments[h], flat[h]) /\ Typed
  BY DEF PagedInv, Typed, Sound
<1>2. /\ s.lo \in Nat /\ s.offset \in Nat /\ a \in Int /\ p \in Int
      /\ f \in Flats(segments[h])
      /\ flat[h][f] \in [Cells(FlatLen(s)) -> Values]
  <2>1. a \in Int
    BY DEF Inside
  <2> QED
    BY <1>1, <2>1, FlatOfSegment DEF Position
<1>3. cells \in [DOMAIN flat[h][f] -> Values]
  <2>1. \A i \in DOMAIN flat[h][f] : i \in Extent(p, n) => i - p \in Cells(n)
    BY <1>2 DEF Extent, Cells
  <2> QED
    BY <1>2, <2>1 DEF Overwritten
<1>4. CASE Same
  BY <1>4
<1>5. CASE /\ flat' = [flat EXCEPT ![h][f] = cells]
           /\ tracks' = AfterChange(tracks, h)
           /\ UNCHANGED <<live, segments>>
  <2>1. flat' = [k \in Handles |-> IF k = h THEN [flat[h] EXCEPT ![f] = cells] ELSE flat[k]]
    BY <1>1, <1>5 DEF Typed
  <2>2. Backed(segments[h], [flat[h] EXCEPT ![f] = cells])
    BY <1>1, <1>2, <1>3, BackedWhenWritten
  <2>3. \A k \in Handles : Sound(segments'[k], flat'[k])
    BY <1>5, <2>1, <2>2 DEF PagedInv, Sound
  <2>4. TracksGrow' /\ tracks' \in [Handles -> SUBSET Handles]
    BY <1>1, <1>5, TracksAfterChange DEF PagedInv
  <2>5. Typed'
    BY <1>1, <1>5, <2>1, <2>4 DEF Typed
  <2> QED
    BY <1>5, <2>3, <2>4, <2>5 DEF PagedInv
<1> QED
  BY <1>4, <1>5 DEF Put, Fail, Same, Result

LEMMA SameIsKept ==
    ASSUME PagedInv, Same \/ PagedInv'
    PROVE  PagedInv'
BY InvSame

LEMMA SizeIs ==
    ASSUME NEW n \in Sizes
    PROVE  n \in Nat /\ n > 0 /\ n < Space /\ n \in 0..Space
<1>1. n \in 1..(Space - 1) /\ Space \in Nat
  BY PagedAssumption
<1> QED
  BY <1>1

\* What holds of a live state.
LEMMA LiveIs ==
    ASSUME PagedInv, NEW h \in live
    PROVE  /\ h \in Handles /\ Laid(segments[h]) /\ Backed(segments[h], flat[h])
           /\ Given \subseteq segments[h]
BY DEF PagedInv, Typed, Sound

LEMMA SetIsKept ==
    ASSUME PagedInv, NEW h \in live, NEW a \in Addresses, NEW n \in Sizes,
           NEW vals \in [Cells(n) -> Values], NEW fault, SetValues(h, a, n, vals, fault)
    PROVE  PagedInv'
<1> DEFINE w == WithFlat(h, a, n)
           s == SegmentAt(h, a)
<1>1. h \in Handles /\ Laid(segments[h]) /\ n \in 0..Space /\ n \in Nat
  BY LiveIs, SizeIs
<1>2. CASE w.status # "Ok" /\ Fail(w.status, w.at)
  BY <1>2, InvSame DEF Fail, Same
<1>3. CASE w.status = "Ok" /\ Put(h, w.flat, w.at, n, vals, fault)
  <2>1. s \in segments[h] /\ a \in Inside(s) /\ w = Found(FlatOf(s), Position(s, a))
    BY <1>1, <1>3, FoundIs
  <2>2. Put(h, FlatOf(s), Position(s, a), n, vals, fault)
    BY <1>3, <2>1 DEF Found
  <2> QED
    BY <1>1, <2>1, <2>2, PutIs, SameIsKept
<1> QED
  BY <1>2, <1>3 DEF SetValues

LEMMA SeeIsSame ==
    ASSUME NEW h, NEW w, NEW n, SeeAt(h, w, n)
    PROVE  Same
BY DEF SeeAt, See, Fail, Same

\* What a copy reads are values.
LEMMA SeenTyped ==
    ASSUME NEW h, Laid(segments[h]), Backed(segments[h], flat[h]), NEW s \in segments[h],
           NEW a \in Inside(s), NEW n \in Nat, InBounds(h, FlatOf(s), Position(s, a), n)
    PROVE  [i \in Cells(n) |-> flat[h][FlatOf(s)][Position(s, a) + i]] \in [Cells(n) -> Values]
<1>1. /\ s.lo \in Nat /\ s.offset \in Nat /\ FlatLen(s) \in Nat
      /\ flat[h][FlatOf(s)] \in [Cells(FlatLen(s)) -> Values]
      /\ Cardinality(DOMAIN flat[h][FlatOf(s)]) = FlatLen(s)
  BY FlatOfSegment
<1>2. Position(s, a) \in Nat
  BY <1>1 DEF Position, Inside
<1>3. Position(s, a) + n <= FlatLen(s)
  BY <1>1 DEF InBounds
<1>4. \A i \in Cells(n) : Position(s, a) + i \in Cells(FlatLen(s))
  BY <1>1, <1>2, <1>3 DEF Cells
<1> QED
  BY <1>1, <1>4

LEMMA CopyIsKept ==
    ASSUME PagedInv, NEW h \in live, NEW a \in Addresses, NEW d \in Addresses,
           NEW n \in Sizes, CopyValues(h, a, d, n)
    PROVE  PagedInv'
<1> DEFINE w == WithFlat(h, a, n)
           s == SegmentAt(h, a)
           seen == w.status = "Ok" /\ InBounds(h, w.flat, w.at, n)
           vals == [i \in Cells(n) |-> flat[h][w.flat][w.at + i]]
<1>1. /\ h \in Handles /\ Laid(segments[h]) /\ Backed(segments[h], flat[h])
      /\ n \in 0..Space /\ n \in Nat
  BY LiveIs, SizeIs
<1>2. CASE ~seen /\ SeeAt(h, w, n)
  BY <1>2, SeeIsSame, InvSame
<1>3. CASE seen /\ SetValues(h, d, n, vals, "OOBRead")
  <2>1. s \in segments[h] /\ a \in Inside(s) /\ w = Found(FlatOf(s), Position(s, a))
    BY <1>1, <1>3, FoundIs
  <2>2. w.flat = FlatOf(s) /\ w.at = Position(s, a)
    BY <2>1 DEF Found
  <2>3. InBounds(h, FlatOf(s), Position(s, a), n)
    BY <1>3, <2>2
  <2>4. vals \in [Cells(n) -> Values]
    BY <1>1, <2>1, <2>2, <2>3, SeenTyped
  <2> QED
    BY <1>3, <2>4, SetIsKept
<1> QED
  BY <1>2, <1>3 DEF CopyValues

LEMMA AccessIsKept ==
    ASSUME PagedInv, NEW h \in live, Access(h)
    PROVE  PagedInv'
<1> PICK a \in Addresses :
        \/ ViewValuesFrom(h, a)
        \/ \E n \in Sizes :
              \/ ViewValues(h, a, n)
              \/ \E vals \in [Cells(n) -> Values], fault \in {"OOBRead", "OOBWrite"} :
                    SetValues(h, a, n, vals, fault)
              \/ \E d \in Addresses : CopyValues(h, a, d, n)
  BY DEF Access
<1>1. CASE ViewValuesFrom(h, a)
  <2>1. Same
    BY <1>1, SeeIsSame DEF ViewValuesFrom, Fail, Same
  <2> QED
    BY <2>1, InvSame
<1>2. ASSUME NEW n \in Sizes, ViewValues(h, a, n)
      PROVE  PagedInv'
  BY <1>2, SeeIsSame, InvSame DEF ViewValues
<1>3. ASSUME NEW n \in Sizes, NEW vals \in [Cells(n) -> Values],
             NEW fault \in {"OOBRead", "OOBWrite"}, SetValues(h, a, n, vals, fault)
      PROVE  PagedInv'
  BY <1>3, SetIsKept
<1>4. ASSUME NEW n \in Sizes, NEW d \in Addresses, CopyValues(h, a, d, n)
      PROVE  PagedInv'
  BY <1>4, CopyIsKept
<1> QED
  BY <1>1, <1>2, <1>3, <1>4

LEMMA MapIsKept ==
    ASSUME PagedInv, NEW h \in live, NEW e \in Extents,
           NEW kind \in {"StaticMapping", "Mapping"}, NEW name \in Names,
           Map(h, e, kind, name)
    PROVE  PagedInv'
<1> DEFINE s == [lo |-> e.lo, hi |-> e.hi, kind |-> kind, name |-> name, offset |-> 0,
                 regions |-> {}, writable |-> {}]
           segs == segments[h] \cup {s}
           flats == [f \in DOMAIN flat[h] \cup {e.lo} |-> IF f = e.lo THEN NewFlat(e) ELSE flat[h][f]]
<1>1. /\ h \in Handles /\ Laid(segments[h]) /\ Backed(segments[h], flat[h])
      /\ Typed
  BY LiveIs DEF PagedInv
<1>2. /\ e.lo \in Addresses /\ e.hi \in Addresses /\ e.lo < e.hi
      /\ e.lo \in Nat /\ e.hi \in Nat
  BY PagedAssumption DEF Addresses, Interval
<1>3. CASE HasOverlap(h, e) /\ Fail("OverlappedMapping", e.lo)
  BY <1>3, InvSame DEF Fail, Same
<1>4. CASE /\ ~HasOverlap(h, e)
           /\ segments' = [segments EXCEPT ![h] = segs]
           /\ flat' = [flat EXCEPT ![h] = flats]
           /\ tracks' = AfterChange(tracks, h)
           /\ UNCHANGED live
  <2>1. \A t \in segments[h] : Inside(t) \cap Inside(s) = {}
    BY <1>4 DEF HasOverlap, Inside
  <2>2. Laid(segs)
    <3>1. s \in Segment
      <4>1. 0 \in Cells(InnerSize + 1)
        BY PagedAssumption DEF Cells
      <4> QED
        BY <1>2, <4>1 DEF Segment, SegmentsOf
    <3>2. s.lo < s.hi /\ s.kind # "Static" /\ s.offset = 0 /\ s.regions = {}
      BY <1>2
    <3> HIDE DEF s
    <3>3. Parted(s)
      BY <3>2, FS_EmptySet DEF Parted
    <3> QED
      BY <1>1, <2>1, <3>1, <3>2, <3>3 DEF Laid
  <2>3. \A t \in segments[h] : t.lo # e.lo
    <3>1. ASSUME NEW t \in segments[h]
          PROVE  t.lo \in Inside(t) /\ e.lo \in Inside(s)
      <4>1. t.lo \in Nat /\ t.hi \in Nat /\ t.lo < t.hi
        BY <1>1, FlatOfSegment
      <4> QED
        BY <1>2, <4>1 DEF Inside
    <3> QED
      BY <2>1, <3>1
  <2>4. Backed(segs, flats)
    <3>1. DOMAIN flat[h] = Flats(segments[h])
      BY <1>1 DEF Backed
    <3>2. Flats(segs) = Flats(segments[h]) \cup {e.lo}
      <4>1. s.kind # "Static" /\ s.lo = e.lo
        OBVIOUS
      <4> HIDE DEF s
      <4>2. {t \in segs : t.kind # "Static"} = {t \in segments[h] : t.kind # "Static"} \cup {s}
        BY <4>1
      <4> QED
        BY <4>1, <4>2 DEF Flats
    <3>3. flats = [f \in Flats(segs) |-> flats[f]]
      BY <3>1, <3>2
    <3>4. e.lo # Inner
      BY <1>2 DEF Inner
    <3>5. flats[Inner] = flat[h][Inner]
      BY <3>1, <3>4 DEF Flats
    <3>6. flats[e.lo] = NewFlat(e)
      OBVIOUS
    <3>7. NewFlat(e) \in [Cells(e.hi - e.lo) -> Values]
      BY PagedAssumption DEF NewFlat
    <3>8. \A t \in segments[h] : t.kind # "Static" => flats[t.lo] = flat[h][t.lo]
      BY <2>3, <3>1 DEF Flats
    <3>9. flats[s.lo] \in [Cells(s.hi - s.lo) -> Values]
      BY <3>6, <3>7
    <3> HIDE DEF flats, s
    <3>10. \A t \in segs : t.kind # "Static" => flats[t.lo] \in [Cells(t.hi - t.lo) -> Values]
      BY <1>1, <3>8, <3>9 DEF Backed
    <3> HIDE DEF segs
    <3> QED
      BY <1>1, <3>3, <3>5, <3>10 DEF Backed
  <2>6. \A k \in Handles : /\ segments'[k] = IF k = h THEN segs ELSE segments[k]
                           /\ flat'[k] = IF k = h THEN flats ELSE flat[k]
    BY <1>1, <1>4 DEF Typed
  <2>7. segments' = [k \in Handles |-> segments'[k]] /\ flat' = [k \in Handles |-> flat'[k]]
    BY <1>1, <1>4 DEF Typed
  <2> HIDE DEF segs, flats
  <2>8. \A k \in Handles : Sound(segments'[k], flat'[k])
    BY <1>4, <2>2, <2>4, <2>6 DEF PagedInv, Sound
  <2>9. segments[h] \subseteq segs
    BY DEF segs
  <2>10. TracksGrow' /\ tracks' \in [Handles -> SUBSET Handles]
    BY <1>1, <1>4, <2>6, <2>9, TracksAfterChange DEF PagedInv
  <2>11. Typed'
    BY <1>1, <1>4, <2>7, <2>10 DEF Typed
  <2>12. \A k \in live' : Given \subseteq segments'[k]
    BY <1>4, <1>1, <2>6, <2>9 DEF PagedInv, Typed
  <2> QED
    BY <2>8, <2>10, <2>11, <2>12 DEF PagedInv
<1> QED
  BY <1>3, <1>4 DEF Map

-----------------------------------------------------------------------------
(* Snapshots.                                                              *)

\* h is now what k is.
Becomes(h, k) ==
    /\ live' = live \cup {h}
    /\ segments' = [segments EXCEPT ![h] = segments[k]]
    /\ flat' = [flat EXCEPT ![h] = flat[k]]
    /\ Result("Ok", 0, <<>>)
    /\ tracks' = AfterBecoming(tracks, h, k)

\* A restore along `tracks' does not panic, and is a copy: h has every segment
\* of the snapshot, and no segment of its own overlaps one without being it.
LEMMA RestoreIs ==
    ASSUME PagedInv, NEW h \in live, NEW k \in live, k \in tracks[h], Restore(h, k)
    PROVE  h # k /\ Becomes(h, k)
<1>1. /\ Laid(segments[h]) /\ Laid(segments[k]) /\ Backed(segments[k], flat[k])
      /\ Typed
      /\ k # h /\ segments[k] \subseteq segments[h] /\ live \cup {h} = live
  BY LiveIs DEF PagedInv, TracksGrow, Typed
<1>2. \A s \in segments[h], t \in segments[k] : SameInterval(s, t) => s = t
  <2> SUFFICES ASSUME NEW s \in segments[h], NEW t \in segments[k], SameInterval(s, t)
               PROVE  s = t
    OBVIOUS
  <2>1. s.lo \in Inside(s) /\ Inside(s) = Inside(t) /\ t \in segments[h]
    <3>1. s.lo \in Nat /\ s.hi \in Nat /\ s.lo < s.hi
      BY <1>1, PagedAssumption DEF Laid, Segment, SegmentsOf, Addresses
    <3> QED
      BY <1>1, <3>1 DEF Inside, SameInterval
  <2> QED
    BY <1>1, <2>1 DEF Laid
<1>3. ~Incompatible(h, k)
  BY <1>2 DEF Incompatible
<1>4. Kept(h, k) = segments[k]
  BY <1>1 DEF Kept, SameInterval
<1>5. [f \in Flats(segments[k]) |-> flat[k][f]] = flat[k]
  BY <1>1 DEF Backed
<1>6. /\ UNCHANGED live
      /\ segments' = [segments EXCEPT ![h] = Kept(h, k)]
      /\ flat' = [flat EXCEPT ![h] = [f \in Flats(Kept(h, k)) |-> flat[k][f]]]
      /\ Result("Ok", 0, <<>>)
      /\ tracks' = AfterBecoming(tracks, h, k)
  BY <1>3 DEF Restore
<1>7. live' = live \cup {h}
  BY <1>1, <1>6
<1>8. segments' = [segments EXCEPT ![h] = segments[k]]
  BY <1>4, <1>6
<1>9. flat' = [flat EXCEPT ![h] = flat[k]]
  BY <1>4, <1>5, <1>6
<1> QED
  BY <1>1, <1>6, <1>7, <1>8, <1>9 DEF Becomes

LEMMA BecomesIsKept ==
    ASSUME PagedInv, NEW h \in Handles, NEW k \in live, h # k, Becomes(h, k)
    PROVE  PagedInv'
<1>1. Typed /\ k \in Handles /\ TracksGrow
  BY DEF PagedInv, Typed
<1>2. \A j \in Handles : /\ segments'[j] = IF j = h THEN segments[k] ELSE segments[j]
                         /\ flat'[j] = IF j = h THEN flat[k] ELSE flat[j]
  BY <1>1 DEF Becomes, Typed
<1>3. TracksGrow' /\ tracks' \in [Handles -> SUBSET Handles]
  BY <1>1, TracksAfterBecoming DEF Becomes
<1>4. Typed'
  BY <1>1, <1>3 DEF Typed, Becomes
<1>5. \A j \in Handles : Sound(segments'[j], flat'[j])
  BY <1>1, <1>2 DEF PagedInv
<1>6. \A j \in live' : Given \subseteq segments'[j]
  BY <1>1, <1>2 DEF PagedInv, Becomes, Typed
<1> QED
  BY <1>3, <1>4, <1>5, <1>6 DEF PagedInv

-----------------------------------------------------------------------------
(* The invariant holds.                                                    *)

LEMMA GivenIs ==
    /\ Laid(Given) /\ Laid({}) /\ Flats({}) = {Inner}
    /\ \A s \in Given : s.kind # "Static" => s \in Heaps
<1>1. \A s \in Given : s \in Statics \/ s \in Heaps
  BY DEF Given
<1>2. \A s, t \in Given : s # t => Inside(s) \cap Inside(t) = {}
  BY PagedAssumption DEF Given
<1>3. \A s \in Given : s.kind = "Static" => s \in Statics
  BY <1>1, HeapTyped
<1>4. \A s \in Given : s.kind # "Static" => s \in Heaps
  BY <1>1, WindowTyped
<1>5. Laid(Given)
  BY <1>1, <1>2, <1>3, WindowTyped, HeapTyped DEF Laid
<1> QED
  BY <1>4, <1>5 DEF Laid, Flats

LEMMA InitPaged ==
    ASSUME Init
    PROVE  PagedInv
<1>1. Typed
  BY DEF Init, Typed
<1> PICK cells \in [Flats(Given) -> FlatStates] :
        /\ DOMAIN cells[Inner] = Cells(InnerSize)
        /\ \A s \in Heaps : DOMAIN cells[s.lo] = Cells(s.hi - s.lo)
        /\ flat = [h \in Handles |->
              IF h \in live THEN cells
              ELSE [f \in {Inner} |-> [i \in Cells(InnerSize) |-> Default]]]
  BY DEF Init
<1>2. ASSUME NEW f \in Flats(Given), NEW D, DOMAIN cells[f] = D
      PROVE  cells[f] \in [D -> Values]
  <2>1. cells[f] \in FlatStates
    OBVIOUS
  <2>2. PICK n : cells[f] \in [Cells(n) -> Values]
    BY <2>1 DEF FlatStates
  <2> QED
    BY <1>2, <2>2
<1>3. Backed(Given, cells)
  <2>1. cells = [f \in Flats(Given) |-> cells[f]]
    OBVIOUS
  <2>2. Inner \in Flats(Given)
    BY DEF Flats
  <2>3. cells[Inner] \in [Cells(InnerSize) -> Values]
    BY <1>2, <2>2
  <2>4. ASSUME NEW s \in Given, s.kind # "Static"
        PROVE  cells[s.lo] \in [Cells(s.hi - s.lo) -> Values]
    <3>1. s \in Heaps /\ s.lo \in Flats(Given)
      BY <2>4, GivenIs DEF Flats
    <3> QED
      BY <1>2, <3>1
  <2> QED
    BY <2>1, <2>3, <2>4 DEF Backed
<1>4. ASSUME NEW h \in Handles
      PROVE  Sound(segments[h], flat[h])
  <2>1. CASE h \in live
    <3>1. segments[h] = Given /\ flat[h] = cells
      BY <2>1 DEF Init
    <3> QED
      BY <1>3, <3>1, GivenIs DEF Sound
  <2>2. CASE h \notin live
    <3>1. segments[h] = {} /\ flat[h] = [f \in {Inner} |-> [i \in Cells(InnerSize) |-> Default]]
      BY <2>2 DEF Init
    <3>2. flat[h][Inner] \in [Cells(InnerSize) -> Values]
      BY <3>1, PagedAssumption
    <3>3. Backed({}, flat[h])
      BY <3>1, <3>2, GivenIs DEF Backed
    <3> QED
      BY <3>1, <3>3, GivenIs DEF Sound
  <2> QED
    BY <2>1, <2>2
<1>5. TracksGrow /\ \A h \in live : Given \subseteq segments[h]
  BY <1>1 DEF Init, TracksGrow, Typed
<1> QED
  BY <1>1, <1>4, <1>5 DEF PagedInv

LEMMA NextPaged ==
    ASSUME PagedInv, [Next]_vars
    PROVE  PagedInv'
<1>0. live \subseteq Handles
  BY DEF PagedInv, Typed
<1>1. ASSUME NEW h \in live, Access(h)
      PROVE  PagedInv'
  BY <1>1, AccessIsKept
<1>3. ASSUME NEW h \in live, NEW e \in Extents, NEW name \in Names,
             Map(h, e, "StaticMapping", name) \/ Map(h, e, "Mapping", name)
      PROVE  PagedInv'
  BY <1>3, MapIsKept
<1>4. ASSUME NEW h \in live, NEW k \in Handles, h # k, Fork(h, k)
      PROVE  PagedInv'
  <2>1. Becomes(k, h)
    BY <1>4 DEF Fork, Becomes
  <2> QED
    BY <1>4, <2>1, BecomesIsKept
<1>5. ASSUME NEW h \in live, NEW k \in live, k \in tracks[h], Restore(h, k)
      PROVE  PagedInv'
  BY <1>0, <1>5, RestoreIs, BecomesIsKept
<1>6. CASE UNCHANGED vars
  BY <1>6, InvSame DEF vars, Same
<1> QED
  BY <1>1, <1>3, <1>4, <1>5, <1>6 DEF Next

LEMMA PagedInvHolds == Spec => []PagedInv
<1> QED BY InitPaged, NextPaged, PTL DEF Spec

LEMMA PagedInvTyped ==
    ASSUME PagedInv
    PROVE  TypeOK
<1>1. /\ live \in SUBSET Handles /\ tracks \in [Handles -> SUBSET Handles]
      /\ segments \in [Handles -> SUBSET Segment]
  BY DEF PagedInv, Typed, Sound, Laid
<1>2. ASSUME NEW h \in Handles
      PROVE  /\ \A f \in DOMAIN flat[h] : \A i \in DOMAIN flat[h][f] : flat[h][f][i] \in Values
             /\ DOMAIN flat[h] = Flats(segments[h])
             /\ h \in live => DOMAIN flat[h][Inner] = Cells(InnerSize)
             /\ \A s \in segments[h] : s.kind # "Static" =>
                   DOMAIN flat[h][s.lo] = Cells(s.hi - s.lo)
  <2>1. Backed(segments[h], flat[h])
    BY DEF PagedInv, Sound
  <2>2. DOMAIN flat[h] = Flats(segments[h])
    BY <2>1 DEF Backed
  <2>3. \A f \in Flats(segments[h]) : f = Inner \/ \E s \in segments[h] : s.kind # "Static" /\ s.lo = f
    BY DEF Flats
  <2>4. flat[h][Inner] \in [Cells(InnerSize) -> Values]
    BY <2>1 DEF Backed
  <2>5. \A s \in segments[h] : s.kind # "Static" =>
            flat[h][s.lo] \in [Cells(s.hi - s.lo) -> Values]
    BY <2>1 DEF Backed
  <2>6. ASSUME NEW f \in DOMAIN flat[h], NEW i \in DOMAIN flat[h][f]
        PROVE  flat[h][f][i] \in Values
    <3>1. CASE f = Inner
      BY <2>4, <3>1
    <3>2. CASE f # Inner
      <4>1. PICK s \in segments[h] : s.kind # "Static" /\ s.lo = f
        BY <2>2, <2>3, <3>2
      <4> QED
        BY <2>5, <4>1
    <3> QED
      BY <3>1, <3>2
  <2>7. \A s \in segments[h] : s.kind # "Static" => DOMAIN flat[h][s.lo] = Cells(s.hi - s.lo)
    BY <2>5
  <2> QED
    BY <2>2, <2>4, <2>6, <2>7
<1> QED
  BY <1>1, <1>2 DEF TypeOK

\* Every variable of a paged state keeps its type: a flat state for inner and
\* for each mapping, as long as the segment, after every mapping, fork and
\* restore (paged.rs:590-636).
THEOREM PagedTyped == Spec => []TypeOK
<1>1. PagedInv => TypeOK
  BY PagedInvTyped
<1> QED BY <1>1, PagedInvHolds, PTL

-----------------------------------------------------------------------------
(* What SparseMemory sees of a state.                                      *)

Areas(h) == AreasOf(segments[h])
Blocks(h) == AreasOf({s \in segments[h] : s.kind # "Mapping"}) \cup RegionsOf(segments[h])
Cell(h, a) == flat[h][FlatOf(SegmentAt(h, a))][Position(SegmentAt(h, a), a)]
Mem(h) == [a \in Mapped(h) |-> Cell(h, a)]

Fits(h, a, n) == \E b \in Blocks(h) : Extent(a, n) \subseteq Inside(b)
Readable(h, a, n) ==
    /\ \E c \in Areas(h) : Extent(a, n) \subseteq Inside(c)
    /\ \E b \in Blocks(h) : {q \in Blocks(h) : Extent(a, n) \cap Inside(q) # {}} = {b}
Admits(h, a, n) == Fits(h, a, n) /\ Extent(a, n) \cap Sealed = {}

SoundAt(h) == Sound(segments[h], flat[h])

\* Intervals.
LEMMA ExtentInside ==
    ASSUME NEW a \in Int, NEW n \in Nat, n > 0, NEW b, b.lo \in Int, b.hi \in Int
    PROVE  Extent(a, n) \subseteq Inside(b) <=> b.lo <= a /\ a + n <= b.hi
<1>1. ASSUME Extent(a, n) \subseteq Inside(b)
      PROVE  b.lo <= a /\ a + n <= b.hi
  <2>1. a \in Extent(a, n) /\ a + n - 1 \in Extent(a, n)
    BY DEF Extent
  <2>2. a \in Inside(b) /\ a + n - 1 \in Inside(b)
    BY <1>1, <2>1
  <2> QED
    BY <2>2 DEF Inside
<1>2. ASSUME b.lo <= a, a + n <= b.hi
      PROVE  Extent(a, n) \subseteq Inside(b)
  BY <1>2 DEF Extent, Inside
<1> QED
  BY <1>1, <1>2

LEMMA ExtentMeets ==
    ASSUME NEW a \in Int, NEW n \in Nat, n > 0,
           NEW b, b.lo \in Int, b.hi \in Int, b.lo < b.hi
    PROVE  Extent(a, n) \cap Inside(b) # {} <=> b.lo < a + n /\ a < b.hi
<1>1. ASSUME NEW x \in Extent(a, n) \cap Inside(b)
      PROVE  b.lo < a + n /\ a < b.hi
  <2>1. x \in Int /\ a <= x /\ x <= a + n - 1 /\ b.lo <= x /\ x <= b.hi - 1
    BY <1>1 DEF Extent, Inside
  <2> QED
    BY <2>1
<1>2. ASSUME b.lo < a + n, a < b.hi
      PROVE  Extent(a, n) \cap Inside(b) # {}
  <2>1. CASE a <= b.lo
    <3>1. b.lo \in Extent(a, n) \cap Inside(b)
      BY <1>2, <2>1 DEF Extent, Inside
    <3> QED
      BY <3>1
  <2>2. CASE b.lo < a
    <3>1. a \in Extent(a, n) \cap Inside(b)
      BY <1>2, <2>2 DEF Extent, Inside
    <3> QED
      BY <3>1
  <2> QED
    BY <2>1, <2>2
<1> QED
  BY <1>1, <1>2

\* The bounds of segments; two of them that are not the same do not meet.
LEMMA SegmentBounds ==
    ASSUME NEW h, SoundAt(h), NEW s \in segments[h]
    PROVE  s.lo \in Nat /\ s.hi \in Nat /\ s.lo < s.hi /\ s.hi < Space
BY FlatOfSegment DEF SoundAt, Sound

LEMMA SegmentsApart ==
    ASSUME NEW h, SoundAt(h), NEW s \in segments[h], NEW t \in segments[h], s # t
    PROVE  s.hi <= t.lo \/ t.hi <= s.lo
<1>1. /\ s.lo \in Nat /\ s.hi \in Nat /\ s.lo < s.hi
      /\ t.lo \in Nat /\ t.hi \in Nat /\ t.lo < t.hi
  BY SegmentBounds
<1>2. s.lo \notin Inside(t) \/ s.lo \notin Inside(s)
  BY DEF SoundAt, Sound, Laid
<1>3. t.lo \notin Inside(t) \/ t.lo \notin Inside(s)
  BY DEF SoundAt, Sound, Laid
<1> QED
  BY <1>1, <1>2, <1>3 DEF Inside

\* A region lies in its heap, with a byte before and one behind it that cannot
\* be written.
LEMMA RegionIs ==
    ASSUME NEW h, SoundAt(h), NEW s \in segments[h], NEW r \in s.regions
    PROVE  /\ r.lo \in Nat /\ r.hi \in Nat /\ s.lo <= r.lo /\ r.lo < r.hi /\ r.hi < s.hi
           /\ r.lo - 1 \notin s.writable /\ r.hi \notin s.writable
           /\ s \in Heaps /\ s.kind = "Mapping"
           /\ Inside(r) \subseteq Inside(s)
<1>1. Parted(s) /\ s \in Heaps
  BY DEF SoundAt, Sound, Laid
<1>2. r.lo \in Nat /\ r.hi \in Nat
  BY <1>1, PagedAssumption DEF Parted, Interval, Addresses
<1>3. s.lo \in Nat /\ s.hi \in Nat /\ s.kind = "Mapping"
  BY <1>1, HeapTyped
<1>4. /\ s.lo <= r.lo /\ r.lo < r.hi /\ r.hi < s.hi
      /\ r.lo - 1 \notin s.writable /\ r.hi \notin s.writable
  BY <1>1 DEF Parted
<1>5. Inside(r) \subseteq Inside(s)
  BY <1>2, <1>3, <1>4 DEF Inside
<1> QED
  BY <1>1, <1>2, <1>3, <1>4, <1>5

\* A block is a segment that is no heap, or a region of a heap.
LEMMA BlockIs ==
    ASSUME NEW h, SoundAt(h), NEW b \in Blocks(h)
    PROVE  /\ b.lo \in Nat /\ b.hi \in Nat /\ b.lo < b.hi
           /\ \/ \E s \in segments[h] : s.kind # "Mapping" /\ b = ToArea(s)
              \/ \E s \in segments[h] :
                    s.kind = "Mapping" /\ b \in s.regions /\ s.lo <= b.lo /\ b.hi < s.hi
<1>1. CASE b \in RegionsOf(segments[h])
  <2>1. PICK s \in segments[h] : b \in s.regions
    BY <1>1 DEF RegionsOf
  <2> QED
    BY <2>1, RegionIs
<1>2. CASE b \in AreasOf({s \in segments[h] : s.kind # "Mapping"})
  <2>1. PICK s \in segments[h] : s.kind # "Mapping" /\ b = ToArea(s)
    BY <1>2 DEF AreasOf
  <2>2. b.lo = s.lo /\ b.hi = s.hi
    BY <2>1 DEF ToArea
  <2> QED
    BY <2>1, <2>2, SegmentBounds
<1> QED
  BY <1>1, <1>2 DEF Blocks

\* A block that an access of a segment meets: the segment, or one of its regions.
LEMMA BlockMet ==
    ASSUME NEW h, SoundAt(h), NEW s \in segments[h], NEW a \in Int, NEW n \in Nat, n > 0,
           s.lo <= a, a + n <= s.hi, NEW b \in Blocks(h)
    PROVE  Extent(a, n) \cap Inside(b) # {} <=>
               IF s.kind = "Mapping" THEN b \in Touched(s, a, n) ELSE b = ToArea(s)
<1>1. s.lo \in Nat /\ s.hi \in Nat /\ s.lo < s.hi
  BY SegmentBounds
<1>2. b.lo \in Nat /\ b.hi \in Nat /\ b.lo < b.hi
  BY BlockIs
<1>3. Extent(a, n) \cap Inside(b) # {} <=> b.lo < a + n /\ a < b.hi
  BY <1>2, ExtentMeets
<1>4. CASE \E t \in segments[h] : t.kind # "Mapping" /\ b = ToArea(t)
  <2>1. PICK t \in segments[h] : t.kind # "Mapping" /\ b = ToArea(t)
    BY <1>4
  <2>2. b.lo = t.lo /\ b.hi = t.hi
    BY <2>1 DEF ToArea
  <2>3. CASE t = s
    <3>1. b.lo < a + n /\ a < b.hi
      BY <1>1, <2>2, <2>3
    <3> QED
      BY <1>3, <2>1, <2>3, <3>1
  <2>4. CASE t # s
    <3>1. t.hi <= s.lo \/ s.hi <= t.lo
      BY <2>4, SegmentsApart
    <3>2. ~(b.lo < a + n /\ a < b.hi)
      BY <1>1, <1>2, <2>2, <3>1
    <3>3. b # ToArea(s)
      <4>1. b.lo # s.lo
        BY <1>1, <1>2, <2>2, <3>1
      <4> QED
        BY <4>1 DEF ToArea
    <3>4. b \notin Touched(s, a, n)
      BY <3>2 DEF Touched
    <3> QED
      BY <1>3, <3>2, <3>3, <3>4
  <2> QED
    BY <2>3, <2>4
<1>5. CASE \E t \in segments[h] :
              t.kind = "Mapping" /\ b \in t.regions /\ t.lo <= b.lo /\ b.hi < t.hi
  <2>1. PICK t \in segments[h] :
            t.kind = "Mapping" /\ b \in t.regions /\ t.lo <= b.lo /\ b.hi < t.hi
    BY <1>5
  <2>2. t.lo \in Nat /\ t.hi \in Nat
    BY SegmentBounds
  <2>3. CASE t = s
    <3>1. b \in Touched(s, a, n) <=> b.lo < a + n /\ a < b.hi
      BY <2>1, <2>3 DEF Touched
    <3> QED
      BY <1>3, <2>1, <2>3, <3>1
  <2>4. CASE t # s
    <3>1. t.hi <= s.lo \/ s.hi <= t.lo
      BY <2>4, SegmentsApart
    <3>2. ~(b.lo < a + n /\ a < b.hi)
      BY <1>1, <1>2, <2>1, <2>2, <3>1
    <3>3. b # ToArea(s)
      <4>1. b.lo # s.lo
        BY <1>1, <1>2, <2>1, <2>2, <3>1
      <4> QED
        BY <4>1 DEF ToArea
    <3>4. b \notin Touched(s, a, n)
      BY <3>2 DEF Touched
    <3> QED
      BY <1>3, <3>2, <3>3, <3>4
  <2> QED
    BY <2>3, <2>4
<1> QED
  BY <1>4, <1>5, BlockIs

LEMMA FitsHere ==
    ASSUME NEW h, SoundAt(h), NEW s \in segments[h], NEW a \in Inside(s),
           NEW n \in Nat, n > 0, Fits(h, a, n)
    PROVE  /\ a + n <= s.hi
           /\ s.kind = "Mapping" => \E r \in s.regions : r.lo <= a /\ a + n <= r.hi
<1>1. s.lo \in Nat /\ s.hi \in Nat /\ a \in Int /\ s.lo <= a /\ a < s.hi
  BY SegmentBounds DEF Inside
<1>2. PICK b \in Blocks(h) : Extent(a, n) \subseteq Inside(b)
  BY DEF Fits
<1>3. b.lo \in Nat /\ b.hi \in Nat /\ b.lo < b.hi
  BY BlockIs
<1>4. b.lo <= a /\ a + n <= b.hi
  BY <1>1, <1>2, <1>3, ExtentInside
<1>5. ASSUME NEW t \in segments[h], t.lo <= b.lo, b.hi <= t.hi
      PROVE  t = s
  <2>1. t.lo \in Nat /\ t.hi \in Nat
    BY SegmentBounds
  <2>2. ~(s.hi <= t.lo \/ t.hi <= s.lo)
    BY <1>1, <1>3, <1>4, <1>5, <2>1
  <2> QED
    BY <2>2, SegmentsApart
<1>6. CASE \E t \in segments[h] : t.kind # "Mapping" /\ b = ToArea(t)
  <2>1. PICK t \in segments[h] : t.kind # "Mapping" /\ b = ToArea(t)
    BY <1>6
  <2>2. b.lo = t.lo /\ b.hi = t.hi
    BY <2>1 DEF ToArea
  <2>3. t = s
    BY <1>3, <1>5, <2>2
  <2> QED
    BY <1>4, <2>1, <2>2, <2>3
<1>7. CASE \E t \in segments[h] :
              t.kind = "Mapping" /\ b \in t.regions /\ t.lo <= b.lo /\ b.hi < t.hi
  <2>1. PICK t \in segments[h] :
            t.kind = "Mapping" /\ b \in t.regions /\ t.lo <= b.lo /\ b.hi < t.hi
    BY <1>7
  <2>2. t.hi \in Nat
    BY SegmentBounds
  <2>3. t = s
    BY <1>3, <1>5, <2>1, <2>2
  <2> QED
    BY <1>1, <1>3, <1>4, <1>7, <2>1, <2>3
<1> QED
  BY <1>6, <1>7, BlockIs

OneTouched(s, a, n) == \E r : Touched(s, a, n) = {r}

\* An access that stays in its segment, and in a heap meets one region, reads.
LEMMA ReadableIn ==
    ASSUME NEW h, SoundAt(h), NEW s \in segments[h], NEW a \in Int, NEW n \in Nat, n > 0,
           s.lo <= a, a + n <= s.hi,
           s.kind = "Mapping" => OneTouched(s, a, n)
    PROVE  Readable(h, a, n)
<1> DEFINE met == {b \in Blocks(h) : Extent(a, n) \cap Inside(b) # {}}
<1>1. \E c \in Areas(h) : Extent(a, n) \subseteq Inside(c)
  <2>1. ToArea(s) \in Areas(h) /\ ToArea(s).lo = s.lo /\ ToArea(s).hi = s.hi
    BY DEF Areas, AreasOf, ToArea
  <2>2. s.lo \in Int /\ s.hi \in Int
    BY SegmentBounds
  <2>3. Extent(a, n) \subseteq Inside(ToArea(s))
    BY <2>1, <2>2, ExtentInside
  <2> QED
    BY <2>1, <2>3
<1>2. \E b \in Blocks(h) : met = {b}
  <2>1. CASE s.kind = "Mapping"
    <3>1. PICK r : Touched(s, a, n) = {r}
      BY <2>1 DEF OneTouched
    <3>2. r \in Blocks(h)
      BY <3>1 DEF Touched, Blocks, RegionsOf
    <3>3. met = {r}
      BY <2>1, <3>1, <3>2, BlockMet
    <3> QED
      BY <3>2, <3>3
  <2>2. CASE s.kind # "Mapping"
    <3>1. ToArea(s) \in Blocks(h)
      BY <2>2 DEF Blocks, AreasOf
    <3>2. met = {ToArea(s)}
      BY <2>2, <3>1, BlockMet
    <3> QED
      BY <3>1, <3>2
  <2> QED
    BY <2>1, <2>2
<1> QED
  BY <1>1, <1>2 DEF Readable

\* The cell of an address.
LEMMA CellIs ==
    ASSUME NEW h, SoundAt(h), NEW s \in segments[h], NEW c \in Inside(s)
    PROVE  /\ c \in Mapped(h) /\ SegmentAt(h, c) = s
           /\ Mem(h)[c] = flat[h][FlatOf(s)][Position(s, c)]
<1>1. c \in Mapped(h)
  BY DEF Mapped
<1>2. SegmentAt(h, c) = s
  BY SegmentIs DEF SoundAt, Sound
<1> QED
  BY <1>1, <1>2 DEF Mem, Cell

LEMMA MemTyped ==
    ASSUME NEW h, SoundAt(h), NEW s \in segments[h], NEW c \in Inside(s)
    PROVE  Mem(h)[c] \in Values
<1>1. /\ s.lo \in Nat /\ s.hi \in Nat /\ s.offset \in Nat /\ FlatLen(s) \in Nat
      /\ s.offset + (s.hi - s.lo) <= FlatLen(s)
      /\ flat[h][FlatOf(s)] \in [Cells(FlatLen(s)) -> Values]
  BY FlatOfSegment DEF SoundAt, Sound
<1>2. Position(s, c) \in Int /\ 0 <= Position(s, c) /\ Position(s, c) <= FlatLen(s) - 1
  BY <1>1 DEF Position, Inside
<1>3. Position(s, c) \in Cells(FlatLen(s))
  BY <1>1, <1>2 DEF Cells
<1> QED
  BY <1>1, <1>3, CellIs

LEMMA SeenIs ==
    ASSUME NEW h, SoundAt(h), NEW s \in segments[h], NEW a \in Int, NEW n \in Nat,
           s.lo <= a, a + n <= s.hi
    PROVE  [i \in Cells(n) |-> flat[h][FlatOf(s)][Position(s, a) + i]]
               = [i \in 0..(n - 1) |-> Mem(h)[a + i]]
<1>1. s.lo \in Nat /\ s.hi \in Nat /\ s.offset \in Nat
  BY FlatOfSegment DEF SoundAt, Sound
<1>2. ASSUME NEW i \in 0..(n - 1)
      PROVE  flat[h][FlatOf(s)][Position(s, a) + i] = Mem(h)[a + i]
  <2>1. a + i \in Inside(s) /\ Position(s, a + i) = Position(s, a) + i
    BY <1>1 DEF Inside, Position
  <2> QED
    BY <2>1, CellIs
<1> QED
  BY <1>2 DEF Cells

-----------------------------------------------------------------------------
(* What becomes of an access.                                              *)

Refusals == {"UnmappedAddress", "OverlappedAccess", "AccessUnmanaged",
             "HeapOverflow", "OOBRead", "OOBWrite", "AccessViolation"}
Refuses(status, a, n) == status \in Refusals \/ (a + n >= Space /\ status = "Panic")

\* No block holds an address that is not mapped.
LEMMA UnmappedFits ==
    ASSUME NEW h, SoundAt(h), NEW a \in Addresses, Unmapped(h, a)
    PROVE  \A s \in segments[h] : a \notin Inside(s)
<1> SUFFICES ASSUME NEW s \in segments[h], a \in Inside(s)
             PROVE  FALSE
  OBVIOUS
<1>1. s.hi \in Nat /\ s.hi < Space /\ a \in Nat /\ a < s.hi /\ Space \in Nat
  BY SegmentBounds, PagedAssumption DEF Inside, Addresses
<1>2. Plus(a, 1) = a + 1
  BY <1>1, PlusIs
<1>3. At(h, a) # {}
  BY DEF At
<1> QED
  BY <1>1, <1>2, <1>3 DEF Unmapped

LEMMA FitsSomewhere ==
    ASSUME NEW h, SoundAt(h), NEW a \in Int, NEW n \in Nat, n > 0, Fits(h, a, n)
    PROVE  \E s \in segments[h] : a \in Inside(s)
<1>1. PICK b \in Blocks(h) : Extent(a, n) \subseteq Inside(b)
  BY DEF Fits
<1>2. b.lo \in Nat /\ b.hi \in Nat /\ b.lo <= a /\ a < b.hi
  <2>1. b.lo \in Nat /\ b.hi \in Nat
    BY BlockIs
  <2>2. b.lo <= a /\ a + n <= b.hi
    BY <1>1, <2>1, ExtentInside
  <2> QED
    BY <2>1, <2>2
<1>3. \E s \in segments[h] : s.lo <= b.lo /\ b.hi <= s.hi
  <2>1. CASE \E s \in segments[h] : s.kind # "Mapping" /\ b = ToArea(s)
    <3>1. PICK s \in segments[h] : b = ToArea(s)
      BY <2>1
    <3>2. b.lo = s.lo /\ b.hi = s.hi
      BY <3>1 DEF ToArea
    <3> QED
      BY <1>2, <3>2
  <2>2. CASE \E s \in segments[h] :
                s.kind = "Mapping" /\ b \in s.regions /\ s.lo <= b.lo /\ b.hi < s.hi
    <3>1. PICK s \in segments[h] : s.lo <= b.lo /\ b.hi < s.hi
      BY <2>2
    <3>2. b.hi <= s.hi
      BY <1>2, <3>1, SegmentBounds
    <3> QED
      BY <3>1, <3>2
  <2> QED
    BY <2>1, <2>2, BlockIs
<1>4. PICK s \in segments[h] : s.lo <= b.lo /\ b.hi <= s.hi
  BY <1>3
<1>5. s.lo <= a /\ a <= s.hi - 1
  BY <1>2, <1>4, SegmentBounds
<1> QED
  BY <1>5, SegmentBounds DEF Inside

LEMMA HeapReaches ==
    ASSUME NEW h, SoundAt(h), NEW s \in segments[h], s.kind = "Mapping",
           NEW a \in Addresses, a \in Inside(s), NEW n \in 0..Space, n > 0
    PROVE  \/ /\ Translated(s, a, n).status # "Ok"
              /\ Refuses(Translated(s, a, n).status, a, n)
              /\ ~Fits(h, a, n)
           \/ /\ Translated(s, a, n).status = "Ok"
              /\ OneTouched(s, a, n)
<1> DEFINE t == Translated(s, a, n)
<1>1. /\ s.lo \in Nat /\ s.hi \in Nat /\ s.hi < Space /\ s.lo <= a /\ a < s.hi
      /\ a \in Nat /\ n \in Nat /\ Space \in Nat
  BY SegmentBounds, PagedAssumption DEF Inside, Addresses
<1>2. IsFiniteSet(s.regions)
  BY DEF SoundAt, Sound, Laid, Parted
<1>3. \A r \in s.regions : r.lo \in Nat /\ r.hi \in Nat /\ r.lo < r.hi
  BY RegionIs
<1>4. ASSUME Fits(h, a, n)
      PROVE  /\ Plus(a, n) > a
             /\ \E r \in s.regions : r.lo <= a /\ a + n <= r.hi
  <2>1. a + n <= s.hi /\ \E r \in s.regions : r.lo <= a /\ a + n <= r.hi
    BY <1>1, <1>4, FitsHere
  <2>2. a + n < Space
    BY <1>1, <2>1
  <2>3. Plus(a, n) = a + n
    BY <1>1, <2>2, PlusIs
  <2> QED
    BY <1>1, <2>1, <2>3
<1>5. ASSUME Fits(h, a, n)
      PROVE  OneTouched(s, a, n)
  <2>1. PICK r \in s.regions : r.lo <= a /\ a + n <= r.hi
    BY <1>4, <1>5
  <2>2. r \in Touched(s, a, n)
    BY <1>1, <1>3, <2>1 DEF Touched
  <2>3. ASSUME NEW q \in Touched(s, a, n), q # r
        PROVE  FALSE
    <3>1. q \in s.regions /\ q.lo < a + n /\ a < q.hi
      BY DEF Touched
    <3>2. q.hi < r.lo \/ r.hi < q.lo
      BY <2>3, <3>1 DEF SoundAt, Sound, Laid, Parted
    <3> QED
      BY <1>1, <1>3, <2>1, <3>1, <3>2
  <2> QED
    BY <2>2, <2>3 DEF OneTouched
<1>6. CASE Plus(a, n) <= a /\ t = Missed("Panic", a)
  <2>1. a + n >= Space
    <3> SUFFICES ASSUME a + n < Space
                 PROVE  FALSE
      BY <1>1
    <3>1. Plus(a, n) = a + n
      BY <1>1, PlusIs
    <3> QED
      BY <1>1, <1>6, <3>1
  <2>2. ~(Plus(a, n) > a)
    <3>1. Plus(a, n) \in Int
      BY <1>1, PlusIs
    <3> QED
      BY <1>1, <1>6, <3>1
  <2>3. ~Fits(h, a, n)
    BY <1>4, <2>2
  <2>4. t.status = "Panic"
    BY <1>6 DEF Missed
  <2> HIDE DEF t
  <2>5. t.status # "Ok" /\ Refuses(t.status, a, n)
    BY <2>1, <2>4 DEF Refuses
  <2> QED
    BY <2>3, <2>5 DEF t
<1>7. CASE Touched(s, a, n) = {} /\ t = Missed("AccessUnmanaged", a)
  <2>1. ~Fits(h, a, n)
    BY <1>5, <1>7 DEF OneTouched
  <2>2. t.status = "AccessUnmanaged"
    BY <1>7 DEF Missed
  <2> QED
    BY <2>1, <2>2 DEF Refuses, Refusals
<1>8. CASE ~OneTouched(s, a, n) /\ t = Missed("HeapOverflow", a)
  <2>1. ~Fits(h, a, n)
    BY <1>5, <1>8
  <2>2. t.status = "HeapOverflow"
    BY <1>8 DEF Missed
  <2> QED
    BY <2>1, <2>2 DEF Refuses, Refusals
<1>9. CASE OneTouched(s, a, n) /\ t = Found(s.lo, a - s.lo)
  BY <1>9 DEF Found
<1> QED
  BY <1>2, <1>6, <1>7, <1>8, <1>9, TranslatedIs DEF OneTouched

\* The flat state behind a segment: an access inside the segment is in bounds.
LEMMA InsideInBounds ==
    ASSUME NEW h, SoundAt(h), NEW s \in segments[h], NEW a \in Int, s.lo <= a, NEW n \in Nat
    PROVE  /\ a + n <= s.hi => InBounds(h, FlatOf(s), Position(s, a), n)
           /\ InBounds(h, FlatOf(s), Position(s, a), n) =>
                 IF s.kind = "Static" THEN Position(s, a) + n <= InnerSize ELSE a + n <= s.hi
<1>1. /\ s.lo \in Nat /\ s.hi \in Nat /\ s.offset \in Nat /\ FlatLen(s) \in Nat
      /\ s.offset + (s.hi - s.lo) <= FlatLen(s)
      /\ Cardinality(DOMAIN flat[h][FlatOf(s)]) = FlatLen(s)
  BY FlatOfSegment DEF SoundAt, Sound
<1>2. InBounds(h, FlatOf(s), Position(s, a), n) <=> (a - s.lo) + s.offset + n <= FlatLen(s)
  BY <1>1 DEF InBounds, Position
<1>3. s.kind # "Static" => s.offset = 0 /\ FlatLen(s) = s.hi - s.lo
  BY DEF SoundAt, Sound, Laid, FlatLen
<1>4. s.kind = "Static" => FlatLen(s) = InnerSize
  BY DEF FlatLen
<1> QED
  BY <1>1, <1>2, <1>3, <1>4 DEF Position

\* An access is refused, and no block holds it, or it stays in its segment, or
\* it is astray.
LEMMA Reaches ==
    ASSUME NEW h, SoundAt(h), NEW a \in Addresses, NEW n \in Sizes,
           NEW w, w = WithFlat(h, a, n), NEW s, s = SegmentAt(h, a)
    PROVE  \/ w.status # "Ok" /\ Refuses(w.status, a, n) /\ ~Fits(h, a, n)
           \/ w.status = "Ok" /\ ~InBounds(h, w.flat, w.at, n) /\ ~Fits(h, a, n)
           \/ /\ w.status = "Ok" /\ w.flat = FlatOf(s) /\ w.at = Position(s, a)
              /\ InBounds(h, w.flat, w.at, n)
              /\ s \in segments[h] /\ s.lo <= a /\ a \in Inside(s)
              /\ \/ a + n <= s.hi /\ (s.kind = "Mapping" => OneTouched(s, a, n))
                 \/ s \in Statics /\ s.kind = "Static" /\ <<a, n>> \in Astray /\ ~Fits(h, a, n)
<1>1. /\ n \in Nat /\ n > 0 /\ n < Space /\ n \in 0..Space
      /\ a \in Nat /\ a \in Int /\ Space \in Nat
  BY SizeIs, PagedAssumption DEF Addresses
<1>2. Laid(segments[h])
  BY DEF SoundAt, Sound
<1>3. CASE Unmapped(h, a)
  <2>1. w.status = "UnmappedAddress"
    BY <1>3 DEF WithFlat, Missed
  <2>2. ~Fits(h, a, n)
    BY <1>1, <1>3, FitsSomewhere, UnmappedFits
  <2> QED
    BY <2>1, <2>2 DEF Refuses, Refusals
<1>4. CASE ~Unmapped(h, a) /\ Overlaps(s, a, n)
  <2>1. w.status = "OverlappedAccess"
    BY <1>4 DEF WithFlat, Missed
  <2>2. s \in segments[h] /\ a \in Inside(s)
    BY <1>4, SegmentHere
  <2>3. ~Fits(h, a, n)
    <3> SUFFICES ASSUME Fits(h, a, n)
                 PROVE  FALSE
      OBVIOUS
    <3>1. a + n <= s.hi
      BY <1>1, <2>2, FitsHere
    <3>2. s.hi \in Nat /\ s.hi < Space
      BY <2>2, SegmentBounds
    <3>3. Plus(a, n) = a + n
      BY <1>1, <3>1, <3>2, PlusIs
    <3>4. Plus(a, n) > s.hi
      BY <1>4 DEF Overlaps
    <3> QED
      BY <1>1, <3>1, <3>2, <3>3, <3>4
  <2> QED
    BY <2>1, <2>3 DEF Refuses, Refusals
<1>5. CASE ~Unmapped(h, a) /\ ~Overlaps(s, a, n)
  <2>1. s \in segments[h] /\ a \in Inside(s)
    BY <1>5, SegmentHere
  <2>2. s.lo \in Nat /\ s.hi \in Nat /\ s.hi < Space /\ s.lo <= a
    BY <2>1, SegmentBounds DEF Inside
  <2>3. w = InSegment(s, a, n)
    BY <1>5 DEF WithFlat
  <2>4. CASE w.status # "Ok"
    <3>1. s.kind = "Mapping"
      BY <2>3, <2>4 DEF InSegment, Found
    <3>2. w = Translated(s, a, n)
      BY <2>3, <3>1 DEF InSegment
    <3> QED
      BY <1>1, <2>1, <2>4, <3>1, <3>2, HeapReaches
  <2>5. CASE w.status = "Ok"
    <3>1. w = Found(FlatOf(s), Position(s, a))
      BY <1>1, <1>2, <2>1, <2>3, <2>5, FoundAtPosition
    <3>2. w.flat = FlatOf(s) /\ w.at = Position(s, a)
      BY <3>1 DEF Found
    <3>3. CASE ~InBounds(h, w.flat, w.at, n)
      <4>1. ~Fits(h, a, n)
        BY <1>1, <2>1, <2>2, <3>2, <3>3, FitsHere, InsideInBounds
      <4> QED
        BY <2>5, <3>3, <4>1
    <3>4. CASE InBounds(h, w.flat, w.at, n)
      <4>1. IF s.kind = "Static" THEN Position(s, a) + n <= InnerSize ELSE a + n <= s.hi
        BY <1>1, <2>1, <2>2, <3>2, <3>4, InsideInBounds
      <4>2. a + n <= s.hi \/ (s \in Statics /\ <<a, n>> \in Astray /\ ~Fits(h, a, n))
        <5>1. CASE s.kind = "Static" /\ a + n < Space
          <6>1. Plus(a, n) = a + n
            BY <1>1, <5>1, PlusIs
          <6>2. ~(Plus(a, n) > s.hi)
            BY <1>5 DEF Overlaps
          <6> QED
            BY <1>1, <2>2, <6>1, <6>2
        <5>2. CASE s.kind = "Static" /\ a + n >= Space
          <6>1. s \in Statics
            BY <1>2, <2>1, <5>2 DEF Laid
          <6>2. <<a, n>> \in Astray
            BY <2>1, <4>1, <5>2, <6>1 DEF Astray
          <6>3. ~Fits(h, a, n)
            <7> SUFFICES ASSUME Fits(h, a, n)
                         PROVE  FALSE
              OBVIOUS
            <7>1. a + n <= s.hi
              BY <1>1, <2>1, FitsHere
            <7> QED
              BY <1>1, <2>2, <5>2, <7>1
          <6> QED
            BY <6>1, <6>2, <6>3
        <5>3. CASE s.kind # "Static"
          BY <4>1, <5>3
        <5> QED
          BY <1>1, <5>1, <5>2, <5>3
      <4>3. s.kind = "Mapping" => OneTouched(s, a, n)
        <5> SUFFICES ASSUME s.kind = "Mapping"
                     PROVE  OneTouched(s, a, n)
          OBVIOUS
        <5>1. Translated(s, a, n).status = "Ok"
          BY <2>3, <2>5 DEF InSegment
        <5>2. n \in 0..Space /\ n > 0 /\ a \in Inside(s) /\ s \in segments[h]
          BY <1>1, <2>1
        <5> QED
          BY <5>1, <5>2, HeapReaches
      <4> QED
        BY <2>1, <2>2, <2>5, <3>2, <3>4, <4>2, <4>3, WindowTyped
    <3> QED
      BY <3>3, <3>4
  <2> QED
    BY <2>4, <2>5
<1> QED
  BY <1>3, <1>4, <1>5

\* A block that holds an access is enough.
LEMMA FitsSegment ==
    ASSUME NEW h, SoundAt(h), NEW s \in segments[h], s.kind # "Mapping",
           NEW a \in Int, NEW n \in Nat, n > 0, s.lo <= a, a + n <= s.hi
    PROVE  Fits(h, a, n)
<1>1. ToArea(s) \in Blocks(h) /\ ToArea(s).lo = s.lo /\ ToArea(s).hi = s.hi
  BY DEF Blocks, AreasOf, ToArea
<1>2. s.lo \in Int /\ s.hi \in Int
  BY SegmentBounds
<1>3. Extent(a, n) \subseteq Inside(ToArea(s))
  BY <1>1, <1>2, ExtentInside
<1> QED
  BY <1>1, <1>3 DEF Fits

\* The segment of an address of segment s is s.
LEMMA OnlySegment ==
    ASSUME NEW h, SoundAt(h), NEW s \in segments[h], NEW t \in segments[h],
           NEW c \in Inside(s), c \in Inside(t)
    PROVE  t = s
BY DEF SoundAt, Sound, Laid

\* When an address of a segment is sealed.
LEMMA SealedHere ==
    ASSUME NEW h, SoundAt(h), Given \subseteq segments[h], NEW s \in segments[h],
           NEW c \in Inside(s)
    PROVE  c \in Sealed <=>
              \/ s.kind = "Static" /\ Position(s, c) \in ReadOnly
              \/ s \in Heaps /\ c \notin s.writable /\ \E r \in s.regions : c \in Inside(r)
<1>1. c \in Addresses
  BY SegmentBounds, PagedAssumption DEF Inside, Addresses
<1>2. s.kind = "Static" => s \in Statics
  BY DEF SoundAt, Sound, Laid
<1>3. \A t \in Statics : c \in Inside(t) => t = s /\ s.kind = "Static"
  BY OnlySegment, WindowTyped DEF Given
<1>4. ASSUME NEW t \in Heaps, NEW r \in t.regions, c \in Inside(r)
      PROVE  t = s
  <2>1. t \in segments[h]
    BY DEF Given
  <2>2. c \in Inside(t)
    BY <1>4, <2>1, RegionIs
  <2> QED
    BY <2>1, <2>2, OnlySegment
<1> QED
  BY <1>1, <1>2, <1>3, <1>4 DEF Sealed

\* The cells an access may change are writable exactly when a block holds it
\* and it meets no sealed address.
LEMMA AdmitsIs ==
    ASSUME NEW h, SoundAt(h), Given \subseteq segments[h], NEW s \in segments[h],
           NEW a \in Nat, NEW n \in Nat, n > 0, s.lo <= a, a + n <= s.hi,
           s.kind = "Mapping" => OneTouched(s, a, n)
    PROVE  Admits(h, a, n) <=> Extent(Position(s, a), n) \subseteq WritableCells(h, FlatOf(s))
<1> DEFINE p == Position(s, a)
           f == FlatOf(s)
<1>1. /\ s.lo \in Nat /\ s.hi \in Nat /\ s.hi < Space /\ s.offset \in Nat
      /\ FlatLen(s) \in Nat /\ s.offset + (s.hi - s.lo) <= FlatLen(s)
      /\ DOMAIN flat[h][f] = Cells(FlatLen(s))
      /\ Space \in Nat
  BY FlatOfSegment, PagedAssumption DEF SoundAt, Sound
<1>2. /\ s.kind = "Static" => s \in Statics /\ FlatLen(s) = InnerSize /\ f = Inner
      /\ s.kind # "Static" => s.offset = 0 /\ FlatLen(s) = s.hi - s.lo /\ f = s.lo /\ f # Inner
  BY <1>1 DEF SoundAt, Sound, Laid, FlatLen, FlatOf, Inner
<1>3. ASSUME NEW c \in Extent(a, n)
      PROVE  c \in Inside(s) /\ c \in Addresses /\ Position(s, c) \in Extent(p, n)
  BY <1>1 DEF Extent, Inside, Position, Addresses
<1>4. ASSUME NEW i \in Extent(p, n)
      PROVE  \E c \in Extent(a, n) : Position(s, c) = i
  <2>1. i \in Int /\ p \in Int /\ p <= i /\ i <= p + n - 1 /\ p = (a - s.lo) + s.offset
    BY <1>1 DEF Extent, Position
  <2> HIDE DEF p
  <2>2. a + (i - p) \in Extent(a, n) /\ Position(s, a + (i - p)) = i
    BY <1>1, <2>1 DEF Extent, Position
  <2> QED
    BY <2>2
<1>5. ASSUME NEW i \in Extent(p, n)
      PROVE  i \in Cells(FlatLen(s))
  <2>1. i \in Int /\ p \in Int /\ p <= i /\ i <= p + n - 1 /\ p = (a - s.lo) + s.offset
    BY <1>1 DEF Extent, Position
  <2> DEFINE len == FlatLen(s)
  <2>2. s.offset + (s.hi - s.lo) <= len /\ len \in Nat
    BY <1>1
  <2> HIDE DEF p, len
  <2>3. 0 <= i /\ i <= len - 1
    BY <1>1, <2>1, <2>2
  <2>4. i \in Cells(len)
    BY <2>1, <2>2, <2>3 DEF Cells
  <2> QED
    BY <2>4 DEF len
<1>6. ASSUME NEW c \in Extent(a, n)
      PROVE  c \in Sealed <=>
                \/ s.kind = "Static" /\ Position(s, c) \in ReadOnly
                \/ s \in Heaps /\ c \notin s.writable /\ \E r \in s.regions : c \in Inside(r)
  BY <1>3, SealedHere
<1> HIDE DEF p, f
<1>7. CASE s.kind = "Static"
  <2>1. Fits(h, a, n)
    BY <1>7, FitsSegment
  <2>2. WritableCells(h, f) = Cells(FlatLen(s)) \ ReadOnly
    BY <1>2, <1>7 DEF WritableCells
  <2>3. Extent(a, n) \cap Sealed = {} <=> Extent(p, n) \cap ReadOnly = {}
    <3>1. s \notin Heaps
      BY <1>7, HeapTyped
    <3>2. \A c \in Extent(a, n) : c \in Sealed <=> Position(s, c) \in ReadOnly
      BY <1>6, <1>7, <3>1
    <3> QED
      BY <1>3, <1>4, <3>2
  <2>4. Extent(p, n) \subseteq WritableCells(h, f) <=> Extent(p, n) \cap ReadOnly = {}
    BY <1>5, <2>2
  <2> QED
    BY <2>1, <2>3, <2>4 DEF Admits, p, f
<1>8. CASE s.kind # "Static"
  <2>1. \A t \in segments[h] : t.lo = f => t = s
    <3> SUFFICES ASSUME NEW t \in segments[h], t.lo = s.lo
                 PROVE  t = s
      BY <1>2, <1>8
    <3>1. t.lo \in Nat /\ t.hi \in Nat /\ t.lo < t.hi
      BY SegmentBounds
    <3>2. t.lo \in Inside(t) /\ t.lo \in Inside(s)
      BY <1>1, <3>1, SegmentBounds DEF Inside
    <3> QED
      BY <3>2, OnlySegment
  <2>2. WritableCells(h, f) =
            {i \in Cells(FlatLen(s)) : s.kind = "Mapping" => f + i \in s.writable}
    <3>1. f = s.lo /\ f # Inner
      BY <1>2, <1>8
    <3> QED
      BY <1>1, <2>1, <3>1 DEF WritableCells
  <2>3. CASE s.kind # "Mapping"
    <3>1. Fits(h, a, n)
      BY <2>3, FitsSegment
    <3>2. Extent(p, n) \subseteq WritableCells(h, f)
      BY <1>5, <2>2, <2>3
    <3>3. Extent(a, n) \cap Sealed = {}
      BY <1>6, <1>8, <2>3, HeapTyped
    <3> QED
      BY <3>1, <3>2, <3>3 DEF Admits, p, f
  <2>4. CASE s.kind = "Mapping"
    <3>1. \A c \in Extent(a, n) : f + Position(s, c) = c
      BY <1>1, <1>2, <2>4 DEF Position, Extent
    <3>2. Extent(p, n) \subseteq WritableCells(h, f) <=> Extent(a, n) \subseteq s.writable
      <4>1. Extent(p, n) \subseteq WritableCells(h, f)
               <=> \A i \in Extent(p, n) : f + i \in s.writable
        BY <1>5, <2>2, <2>4
      <4>2. ASSUME \A i \in Extent(p, n) : f + i \in s.writable, NEW c \in Extent(a, n)
            PROVE  c \in s.writable
        BY <1>3, <3>1, <4>2
      <4>3. ASSUME Extent(a, n) \subseteq s.writable, NEW i \in Extent(p, n)
            PROVE  f + i \in s.writable
        BY <1>4, <3>1, <4>3
      <4> QED
        BY <4>1, <4>2, <4>3
    <3>3. ASSUME Fits(h, a, n), Extent(a, n) \cap Sealed = {}, NEW c \in Extent(a, n)
          PROVE  c \in s.writable
      <4>1. a \in Inside(s)
        BY <1>1 DEF Inside
      <4>2. PICK r \in s.regions : r.lo <= a /\ a + n <= r.hi
        BY <2>4, <3>3, <4>1, FitsHere
      <4>3. c \in Inside(r) /\ s \in Heaps
        BY <4>2, RegionIs DEF Extent, Inside
      <4> QED
        BY <1>6, <3>3, <4>2, <4>3
    <3>4. ASSUME Extent(a, n) \subseteq s.writable
          PROVE  Fits(h, a, n) /\ Extent(a, n) \cap Sealed = {}
      <4>1. PICK r : Touched(s, a, n) = {r}
        BY <2>4 DEF OneTouched
      <4>2. r \in s.regions /\ r.lo < a + n /\ a < r.hi
        BY <4>1 DEF Touched
      <4>3. r.lo \in Nat /\ r.hi \in Nat /\ r.lo - 1 \notin s.writable /\ r.hi \notin s.writable
        BY <4>2, RegionIs
      <4>4. r.lo - 1 \notin Extent(a, n) /\ r.hi \notin Extent(a, n)
        BY <3>4, <4>3
      <4>5. r.lo <= a /\ a + n <= r.hi
        BY <4>2, <4>3, <4>4 DEF Extent
      <4>6. Extent(a, n) \subseteq Inside(r)
        BY <4>3, <4>5 DEF Extent, Inside
      <4>7. r \in Blocks(h)
        BY <4>2 DEF Blocks, RegionsOf
      <4>8. Extent(a, n) \cap Sealed = {}
        BY <1>6, <1>8, <3>4
      <4> QED
        BY <4>6, <4>7, <4>8 DEF Fits
    <3> QED
      BY <3>2, <3>3, <3>4 DEF Admits, p, f
  <2> QED
    BY <2>3, <2>4
<1> QED
  BY <1>7, <1>8

\* Two segments on one flat state are windows on inner, and apart there.
LEMMA FlatShared ==
    ASSUME NEW h, SoundAt(h), NEW s \in segments[h], NEW t \in segments[h], s # t,
           FlatOf(s) = FlatOf(t), NEW c \in Inside(t),
           NEW a \in Int, NEW n \in Nat, s.lo <= a, a + n <= s.hi
    PROVE  Position(t, c) \notin Extent(Position(s, a), n)
<1>1. /\ s.lo \in Nat /\ s.hi \in Nat /\ s.lo < s.hi /\ s.offset \in Nat
      /\ t.lo \in Nat /\ t.hi \in Nat /\ t.lo < t.hi /\ t.offset \in Nat
  BY FlatOfSegment DEF SoundAt, Sound
<1>2. s.lo # t.lo
  <2>1. s.lo \in Inside(s) /\ t.lo \in Inside(t)
    BY <1>1 DEF Inside
  <2> QED
    BY <2>1, OnlySegment
<1>3. s.kind = "Static" /\ t.kind = "Static"
  BY <1>1, <1>2 DEF FlatOf, Inner
<1>4. s \in Statics /\ t \in Statics
  BY <1>3 DEF SoundAt, Sound, Laid
<1>5. Extent(s.offset, s.hi - s.lo) \cap Extent(t.offset, t.hi - t.lo) = {}
  BY <1>4, PagedAssumption
<1>6. Position(t, c) \in Extent(t.offset, t.hi - t.lo)
  BY <1>1 DEF Position, Extent, Inside
<1>7. Extent(Position(s, a), n) \subseteq Extent(s.offset, s.hi - s.lo)
  BY <1>1 DEF Position, Extent
<1> QED
  BY <1>5, <1>6, <1>7

\* The memory after a write: what was written, in the cells of one flat state.
Overwrites(h, s, p, n, vals) ==
    /\ flat' = [flat EXCEPT ![h][FlatOf(s)] = Overwritten(@, p, n, vals)]
    /\ segments' = segments

MemAfter(h, s, p, n, vals) ==
    /\ \A k \in Handles : Mapped(k)' = Mapped(k) /\ (k # h => Mem(k)' = Mem(k))
    /\ Mem(h)' = [c \in Mapped(h) |-> Mem(h)'[c]]
    /\ \A t \in segments[h] : \A c \in Inside(t) :
          Mem(h)'[c] = IF FlatOf(t) = FlatOf(s) /\ Position(t, c) \in Extent(p, n)
                       THEN vals[Position(t, c) - p] ELSE Mem(h)[c]

LEMMA WrittenCells ==
    ASSUME PagedInv, NEW h \in live, NEW s \in segments[h], NEW p, NEW n, NEW vals,
           Overwrites(h, s, p, n, vals)
    PROVE  MemAfter(h, s, p, n, vals)
<1>0. h \in Handles /\ SoundAt(h) /\ Typed /\ \A k \in Handles : Mapped(k)' = Mapped(k)
  BY LiveIs DEF PagedInv, SoundAt, Mapped, Overwrites
<1> DEFINE f == FlatOf(s)
<1>1. flat' = [j \in Handles |->
          IF j = h THEN [flat[h] EXCEPT ![f] = Overwritten(@, p, n, vals)] ELSE flat[j]]
  BY <1>0 DEF Typed, Overwrites
<1>2. ASSUME NEW k \in Handles, k # h
      PROVE  Mem(k)' = Mem(k)
  <2>1. flat'[k] = flat[k]
    BY <1>1, <1>2
  <2> QED
    BY <1>0, <1>2, <2>1 DEF Mem, Mapped, Cell, SegmentAt, Overwrites
<1>3. Mem(h)' = [c \in Mapped(h) |-> Cell(h, c)']
  BY <1>0 DEF Mem
<1>4. ASSUME NEW t \in segments[h], NEW c \in Inside(t)
      PROVE  Mem(h)'[c] = IF FlatOf(t) = FlatOf(s) /\ Position(t, c) \in Extent(p, n)
                          THEN vals[Position(t, c) - p] ELSE Mem(h)[c]
  <2>1. SegmentAt(h, c) = t /\ Mem(h)[c] = flat[h][FlatOf(t)][Position(t, c)]
    BY <1>0, CellIs
  <2>2. Mem(h)'[c] = flat'[h][FlatOf(t)][Position(t, c)]
    <3>1. Cell(h, c)' = flat'[h][FlatOf(t)][Position(t, c)]
      BY <2>1 DEF Cell, SegmentAt, Overwrites
    <3>2. c \in Mapped(h)
      BY <1>0, CellIs
    <3> QED
      BY <1>3, <3>1, <3>2
  <2>3. /\ t.lo \in Nat /\ t.hi \in Nat /\ t.offset \in Nat
        /\ t.offset + (t.hi - t.lo) <= FlatLen(t) /\ FlatLen(t) \in Nat
        /\ FlatOf(t) \in DOMAIN flat[h]
        /\ DOMAIN flat[h][FlatOf(t)] = Cells(FlatLen(t))
    <3>1. Laid(segments[h]) /\ Backed(segments[h], flat[h])
      BY <1>0 DEF SoundAt, Sound
    <3>2. DOMAIN flat[h] = Flats(segments[h])
      BY <3>1 DEF Backed
    <3> QED
      BY <3>1, <3>2, FlatOfSegment
  <2>4. Position(t, c) \in DOMAIN flat[h][FlatOf(t)]
    <3>1. Position(t, c) \in Int /\ 0 <= Position(t, c) /\ Position(t, c) <= FlatLen(t) - 1
      BY <2>3 DEF Position, Inside
    <3> QED
      BY <2>3, <3>1 DEF Cells
  <2>5. CASE FlatOf(t) # f
    <3>1. flat'[h][FlatOf(t)] = flat[h][FlatOf(t)]
      BY <1>1, <1>0, <2>5
    <3> QED
      BY <2>1, <2>2, <2>5, <3>1
  <2>6. CASE FlatOf(t) = f
    <3>1. flat'[h][f] = Overwritten(flat[h][f], p, n, vals)
      BY <1>1, <1>0, <2>3, <2>6
    <3> QED
      BY <2>1, <2>2, <2>4, <2>6, <3>1 DEF Overwritten
  <2> QED
    BY <2>5, <2>6
<1>5. Mem(h)' = [c \in Mapped(h) |-> Mem(h)'[c]]
  BY <1>3
<1> QED
  BY <1>0, <1>2, <1>4, <1>5 DEF MemAfter

\* One that stays in its segment is stored there and nowhere else.
LEMMA WrittenMem ==
    ASSUME PagedInv, NEW h \in live, NEW s \in segments[h], NEW a \in Nat,
           NEW n \in Nat, NEW vals, s.lo <= a, a + n <= s.hi,
           flat' = [flat EXCEPT ![h][FlatOf(s)] = Overwritten(@, Position(s, a), n, vals)],
           segments' = segments, NEW k \in Handles
    PROVE  /\ Mapped(k)' = Mapped(k)
           /\ Mem(k)' = IF k = h
                        THEN [c \in Mapped(h) |->
                                 IF c \in Extent(a, n) THEN vals[c - a] ELSE Mem(h)[c]]
                        ELSE Mem(k)
<1> DEFINE f == FlatOf(s)
           p == Position(s, a)
<1>0. h \in Handles /\ SoundAt(h)
  BY LiveIs DEF PagedInv, SoundAt
<1>1. /\ \A j \in Handles : Mapped(j)' = Mapped(j) /\ (j # h => Mem(j)' = Mem(j))
      /\ Mem(h)' = [c \in Mapped(h) |-> Mem(h)'[c]]
      /\ \A t \in segments[h] : \A c \in Inside(t) :
            Mem(h)'[c] = IF FlatOf(t) = f /\ Position(t, c) \in Extent(p, n)
                         THEN vals[Position(t, c) - p] ELSE Mem(h)[c]
  <2>1. MemAfter(h, s, p, n, vals)
    BY WrittenCells DEF Overwrites
  <2> QED
    BY <2>1 DEF MemAfter
<1>2. ASSUME NEW c \in Mapped(h)
      PROVE  Mem(h)'[c] = IF c \in Extent(a, n) THEN vals[c - a] ELSE Mem(h)[c]
  <2>1. PICK t \in segments[h] : c \in Inside(t)
    BY <1>2 DEF Mapped
  <2>2. Mem(h)'[c] = IF FlatOf(t) = f /\ Position(t, c) \in Extent(p, n)
                     THEN vals[Position(t, c) - p] ELSE Mem(h)[c]
    BY <1>1, <2>1
  <2>3. c \in Int /\ (c \in Extent(a, n) => c \in Inside(s))
    BY <1>0, <2>1, SegmentBounds DEF Inside, Extent
  <2>4. CASE t = s
    <3>1. s.lo \in Nat /\ s.offset \in Nat
      BY <1>0, FlatOfSegment DEF SoundAt, Sound
    <3>2. p \in Int /\ Position(s, c) \in Int /\ Position(s, c) - p = c - a
      BY <2>3, <3>1 DEF Position
    <3>3. Position(s, c) \in Extent(p, n) <=> c \in Extent(a, n)
      BY <2>3, <3>1 DEF Position, Extent
    <3> QED
      BY <2>2, <2>4, <3>2, <3>3
  <2>5. CASE t # s
    <3>1. c \notin Extent(a, n)
      BY <1>0, <2>1, <2>3, <2>5, OnlySegment
    <3>2. FlatOf(t) = f => Position(t, c) \notin Extent(p, n)
      BY <1>0, <2>1, <2>5, FlatShared
    <3> QED
      BY <2>2, <3>1, <3>2
  <2> QED
    BY <2>4, <2>5
<1>3. CASE k = h
  BY <1>0, <1>1, <1>2, <1>3
<1> QED
  BY <1>1, <1>3

-----------------------------------------------------------------------------
(* The steps of SparseMemory, in the words used above.                     *)

AreasBar == [h \in Handles |-> Areas(h)]
BlocksBar == [h \in Handles |-> Blocks(h)]
MemBar == [h \in Handles |-> Mem(h)]

LEMMA SparseTests ==
    ASSUME NEW h \in Handles, NEW a, NEW n
    PROVE  /\ Sparse!Fits(h, a, n) <=> Fits(h, a, n)
           /\ Sparse!Readable(h, a, n) <=> Readable(h, a, n)
           /\ Sparse!Admits(h, a, n) <=> Admits(h, a, n)
<1>1. Sparse!Fits(h, a, n) <=> Fits(h, a, n)
  BY DEF Sparse!Fits, Sparse!Within, Sparse!Inside, Fits, Blocks, Extent, Inside
<1>2. Sparse!Readable(h, a, n) <=> Readable(h, a, n)
  BY DEF Sparse!Readable, Sparse!Within, Sparse!Inside, Readable, Areas, Blocks, Extent, Inside
<1>3. Sparse!Admits(h, a, n) <=> Admits(h, a, n)
  BY <1>1 DEF Sparse!Admits, Sparse!Within, Admits, Extent
<1> QED
  BY <1>1, <1>2, <1>3

LEMMA SparseRefused ==
    ASSUME Same, NEW a, NEW n, Refuses(result'.status, a, n)
    PROVE  Sparse!Refused(a, n)
BY DEF Sparse!Refused, Same, Refuses, Refusals, Mapped, SegmentAt

LEMMA SparseReturned ==
    ASSUME Same, NEW h \in Handles, NEW a, NEW n,
           result'.status = "Ok", result'.seen = [i \in 0..(n - 1) |-> Mem(h)[a + i]]
    PROVE  Sparse!Returned(h, a, n)
BY DEF Sparse!Returned, Sparse!Returns, Same, Mapped, SegmentAt, Mem, Cell

LEMMA SparseStored ==
    ASSUME UNCHANGED <<live, segments>>,
           NEW h \in Handles, NEW a, NEW n, NEW vals,
           result'.status = "Ok", result'.seen = <<>>,
           MemBar' = [MemBar EXCEPT ![h] =
               [c \in DOMAIN @ |-> IF c \in Extent(a, n) THEN vals[c - a] ELSE @[c]]]
    PROVE  Sparse!Stored(h, a, n, vals)
BY DEF Sparse!Stored, Sparse!Returns, Sparse!Within, Extent, MemBar, Mem, Cell, Mapped, SegmentAt

\* A write that is astray.
WindowCells == UNION {Inside(w) : w \in AreasOf(Statics)}

LEMMA SparseSpilt ==
    ASSUME UNCHANGED <<live, segments>>,
           NEW h \in Handles, NEW a, NEW n, NEW vals, NEW b \in Blocks(h),
           NEW spill \in [WindowCells \ Sealed -> Values],
           <<a, n>> \in Astray, a \in Inside(b), Extent(a, n) \cap Inside(b) \cap Sealed = {},
           result'.status = "Ok", result'.seen = <<>>,
           MemBar' = [MemBar EXCEPT ![h] =
               [c \in DOMAIN @ |->
                   IF c \in Extent(a, n) \cap Inside(b) THEN vals[c - a]
                   ELSE IF c \in DOMAIN spill THEN spill[c] ELSE @[c]]]
    PROVE  Sparse!Spilt(h, a, n, vals)
<1>1. Sparse!Strays(h, a, n, b)
  BY DEF Sparse!Strays, Sparse!Inside, Inside, Blocks
<1>2. UNION {Sparse!Inside(w) : w \in AreasOf(Statics)} = WindowCells
  BY DEF WindowCells, Sparse!Inside, Inside
<1>3. Sparse!Within(a, n) = Extent(a, n) /\ Sparse!Inside(b) = Inside(b)
  BY DEF Sparse!Within, Sparse!Inside, Inside, Extent
<1>4. UNCHANGED Sealed
  BY DEF Sealed
<1>5. Sparse!Scattered(h, a, n, vals, b, spill)
  BY <1>3 DEF Sparse!Scattered, MemBar, Mem, Cell
<1>6. Sparse!Within(a, n) \cap Sparse!Inside(b) \cap Sealed = {}
  BY <1>3
<1>7. /\ b \in [j \in Handles |-> Blocks(j)][h]
      /\ spill \in [(UNION {Sparse!Inside(w) : w \in AreasOf(Statics)}) \ Sealed -> Values]
  BY <1>2
<1>8. Sparse!Returns("Ok", <<>>)
  BY DEF Sparse!Returns
<1> QED
  BY <1>1, <1>4, <1>5, <1>6, <1>7, <1>8 DEF Sparse!Spilt, Blocks

\* What fails changes nothing but the result.
LEMMA FailIs ==
    ASSUME NEW status, NEW at, Fail(status, at)
    PROVE  Same /\ result'.status = status
BY DEF Fail, Same, Result

LEMMA LiveSound ==
    ASSUME PagedInv, NEW h \in live
    PROVE  h \in Handles /\ SoundAt(h) /\ Given \subseteq segments[h]
BY DEF PagedInv, Typed, SoundAt

\* A read that is not seen is refused.
LEMMA UnseenRefused ==
    ASSUME PagedInv, NEW h \in live, NEW a \in Addresses, NEW n \in Sizes,
           NEW w, w = WithFlat(h, a, n),
           ~(w.status = "Ok" /\ InBounds(h, w.flat, w.at, n)), SeeAt(h, w, n)
    PROVE  Sparse!Refused(a, n) /\ ~Sparse!Fits(h, a, n)
<1>1. h \in Handles /\ SoundAt(h)
  BY LiveSound
<1>2. \/ w.status # "Ok" /\ Refuses(w.status, a, n) /\ ~Fits(h, a, n)
      \/ w.status = "Ok" /\ ~InBounds(h, w.flat, w.at, n) /\ ~Fits(h, a, n)
  BY <1>1, Reaches
<1>3. CASE w.status # "Ok"
  <2>1. Same /\ result'.status = w.status
    BY <1>3, FailIs DEF SeeAt
  <2> QED
    BY <1>1, <1>2, <1>3, <2>1, SparseRefused, SparseTests
<1>4. CASE w.status = "Ok"
  <2>1. Fail("OOBRead", Rebased(w.at))
    BY <1>4 DEF SeeAt, See
  <2>2. Same /\ result'.status = "OOBRead"
    BY <2>1, FailIs
  <2>3. Refuses(result'.status, a, n)
    BY <2>2 DEF Refuses, Refusals
  <2> QED
    BY <1>1, <1>2, <1>4, <2>2, <2>3, SparseRefused, SparseTests
<1> QED
  BY <1>3, <1>4

\* The window of an access that is astray is a block.
LEMMA WindowBlock ==
    ASSUME NEW h, NEW s \in segments[h], s.kind # "Mapping"
    PROVE  /\ ToArea(s) \in Blocks(h)
           /\ Inside(ToArea(s)) = Inside(s) /\ Sparse!Inside(ToArea(s)) = Inside(s)
BY DEF Blocks, AreasOf, ToArea, Inside, Sparse!Inside

LEMMA SparseSees ==
    ASSUME NEW h \in Handles, NEW a, NEW n, NEW vals, NEW b \in Blocks(h),
           <<a, n>> \in Astray, a \in Sparse!Inside(b),
           \A i \in 0..(n - 1) : a + i \in Sparse!Inside(b) => vals[i] = MemBar[h][a + i]
    PROVE  Sparse!Sees(h, a, n, vals)
BY DEF Sparse!Sees, Sparse!Strays, MemBar, Mem, Cell, Blocks

\* What is seen without a fault.
LEMMA SeesIs ==
    ASSUME NEW h \in Handles, SoundAt(h), NEW a \in Addresses, NEW n \in Sizes,
           NEW w, w = WithFlat(h, a, n), w.status = "Ok", InBounds(h, w.flat, w.at, n),
           NEW vals, vals = [i \in Cells(n) |-> flat[h][w.flat][w.at + i]]
    PROVE  vals \in [0..(n - 1) -> Values] /\ Sparse!Sees(h, a, n, vals)
<1> DEFINE s == SegmentAt(h, a)
<1>1. n \in Nat /\ n > 0 /\ a \in Int
  BY SizeIs DEF Addresses
<1>2. /\ w.flat = FlatOf(s) /\ w.at = Position(s, a)
      /\ s \in segments[h] /\ s.lo <= a /\ a \in Inside(s)
      /\ \/ a + n <= s.hi /\ (s.kind = "Mapping" => OneTouched(s, a, n))
         \/ s.kind = "Static" /\ <<a, n>> \in Astray
  BY Reaches
<1> HIDE DEF s
<1>3. vals \in [0..(n - 1) -> Values]
  <2>1. vals = [i \in Cells(n) |-> flat[h][FlatOf(s)][Position(s, a) + i]]
    BY <1>2
  <2>2. InBounds(h, FlatOf(s), Position(s, a), n)
    BY <1>2
  <2>3. vals \in [Cells(n) -> Values]
    BY <1>1, <1>2, <2>1, <2>2, SeenTyped DEF SoundAt, Sound
  <2> QED
    BY <2>3 DEF Cells
<1>4. CASE a + n <= s.hi /\ (s.kind = "Mapping" => OneTouched(s, a, n))
  <2>1. Sparse!Readable(h, a, n)
    BY <1>1, <1>2, <1>4, ReadableIn, SparseTests
  <2>2. vals = [i \in 0..(n - 1) |-> Mem(h)[a + i]]
    BY <1>1, <1>2, <1>4, SeenIs
  <2>3. \A i \in 0..(n - 1) : vals[i] = MemBar[h][a + i]
    BY <2>2 DEF MemBar
  <2> QED
    BY <1>3, <2>1, <2>3 DEF Sparse!Sees, MemBar, Mem, Cell
<1>5. CASE s.kind = "Static" /\ <<a, n>> \in Astray
  <2>1. s.lo \in Nat /\ s.hi \in Nat /\ s.offset \in Nat
    BY <1>2, FlatOfSegment DEF SoundAt, Sound
  <2>2. ASSUME NEW i \in 0..(n - 1), a + i \in Inside(s)
        PROVE  vals[i] = MemBar[h][a + i]
    <3>1. Position(s, a + i) = Position(s, a) + i
      BY <1>1, <2>1 DEF Position
    <3>2. Mem(h)[a + i] = flat[h][FlatOf(s)][Position(s, a) + i]
      BY <1>2, <2>2, <3>1, CellIs
    <3> QED
      BY <1>2, <3>2 DEF Cells, MemBar
  <2>3. ToArea(s) \in Blocks(h) /\ Sparse!Inside(ToArea(s)) = Inside(s)
    BY <1>2, <1>5, WindowBlock
  <2> QED
    BY <1>2, <1>3, <1>5, <2>2, <2>3, SparseSees
<1> QED
  BY <1>2, <1>4, <1>5

LEMMA ReadImplements ==
    ASSUME PagedInv, NEW h \in live, NEW a \in Addresses, NEW n \in Sizes,
           ViewValues(h, a, n)
    PROVE  Sparse!Read(h, a, n)
<1> DEFINE w == WithFlat(h, a, n)
           vals == [i \in Cells(n) |-> flat[h][w.flat][w.at + i]]
<1>1. h \in Handles /\ SoundAt(h)
  BY LiveSound
<1>2. SeeAt(h, w, n)
  BY DEF ViewValues
<1>3. CASE ~(w.status = "Ok" /\ InBounds(h, w.flat, w.at, n))
  BY <1>2, <1>3, UnseenRefused DEF Sparse!Read
<1>4. CASE w.status = "Ok" /\ InBounds(h, w.flat, w.at, n)
  <2>1. Same /\ result'.status = "Ok" /\ result'.seen = vals
    BY <1>2, <1>4 DEF SeeAt, See, Result, Same
  <2>2. vals \in [0..(n - 1) -> Values] /\ Sparse!Sees(h, a, n, vals)
    BY <1>1, <1>4, SeesIs
  <2> HIDE DEF vals
  <2>3. Sparse!Returns("Ok", vals)
    BY <2>1 DEF Sparse!Returns
  <2> QED
    BY <2>1, <2>2, <2>3 DEF Sparse!Read, Same, Mapped, SegmentAt
<1> QED
  BY <1>3, <1>4

\* An astray write stores its values in its window, and changes nothing but
\* windows.
LEMMA SpillIs ==
    ASSUME PagedInv, NEW h \in live, NEW a \in Addresses, NEW n \in Sizes,
           NEW s \in segments[h], s.kind = "Static", a \in Inside(s), <<a, n>> \in Astray,
           NEW vals \in [Cells(n) -> Values],
           Extent(Position(s, a), n) \subseteq WritableCells(h, FlatOf(s)),
           Overwrites(h, s, Position(s, a), n, vals), UNCHANGED <<live, segments>>,
           result'.status = "Ok", result'.seen = <<>>
    PROVE  Sparse!Spilt(h, a, n, vals)
<1> DEFINE p == Position(s, a)
           b == ToArea(s)
           spill == [c \in WindowCells \ Sealed |-> Mem(h)'[c]]
<1>1. /\ h \in Handles /\ SoundAt(h) /\ Given \subseteq segments[h]
      /\ n \in Nat /\ n > 0 /\ a \in Nat
  BY LiveSound, SizeIs, PagedAssumption DEF Addresses
<1>2. /\ s.lo \in Nat /\ s.hi \in Nat /\ s.offset \in Nat /\ p \in Nat
      /\ FlatOf(s) = Inner
  BY <1>1, FlatOfSegment DEF SoundAt, Sound, FlatOf, Position, Inside
<1>3. b \in Blocks(h) /\ Inside(b) = Inside(s)
  BY WindowBlock
<1> HIDE DEF b, p
<1>4. Extent(p, n) \cap ReadOnly = {}
  BY <1>2 DEF WritableCells, p
<1>5. /\ \A k \in Handles : Mapped(k)' = Mapped(k) /\ (k # h => Mem(k)' = Mem(k))
      /\ Mem(h)' = [c \in Mapped(h) |-> Mem(h)'[c]]
      /\ \A t \in segments[h] : \A c \in Inside(t) :
            Mem(h)'[c] = IF FlatOf(t) = Inner /\ Position(t, c) \in Extent(p, n)
                         THEN vals[Position(t, c) - p] ELSE Mem(h)[c]
  <2>1. MemAfter(h, s, p, n, vals)
    BY WrittenCells DEF p
  <2> QED
    BY <1>2, <2>1 DEF MemAfter
<1>6. ASSUME NEW t \in segments[h], NEW c \in Inside(t), c \in Sealed, FlatOf(t) = Inner
      PROVE  Mem(h)'[c] = Mem(h)[c]
  <2>1. t.kind = "Static"
    BY <1>1, <1>6, FlatOfSegment DEF SoundAt, Sound, FlatOf, Inner
  <2>2. Position(t, c) \in ReadOnly
    BY <1>1, <1>6, <2>1, SealedHere, HeapTyped
  <2> QED
    BY <1>4, <1>5, <2>2
<1>7. ASSUME NEW c \in Extent(a, n), c \in Inside(s)
      PROVE  Mem(h)'[c] = vals[c - a] /\ c \notin Sealed
  <2>1. c \in Int /\ Position(s, c) - p = c - a /\ Position(s, c) \in Extent(p, n)
    BY <1>1, <1>2, <1>7 DEF Extent, Position, p
  <2>2. Mem(h)'[c] = vals[c - a]
    BY <1>2, <1>5, <1>7, <2>1
  <2>3. c \notin Sealed
    BY <1>1, <1>4, <1>7, <2>1, SealedHere, HeapTyped
  <2> QED
    BY <2>2, <2>3
<1>8. ASSUME NEW c \in WindowCells
      PROVE  \E t \in segments[h] : t \in Statics /\ c \in Inside(t)
  <2>1. PICK t \in Statics : c \in Inside(ToArea(t))
    BY DEF WindowCells, AreasOf
  <2>2. c \in Inside(t)
    BY <2>1 DEF ToArea, Inside
  <2> QED
    BY <1>1, <2>2 DEF Given
<1>9. spill \in [WindowCells \ Sealed -> Values]
  <2> SUFFICES ASSUME NEW c \in WindowCells
               PROVE  Mem(h)'[c] \in Values
    OBVIOUS
  <2>1. PICK t \in segments[h] : t \in Statics /\ c \in Inside(t)
    BY <1>8
  <2>2. Mem(h)[c] \in Values
    BY <1>1, <2>1, MemTyped
  <2>3. CASE Position(t, c) \in Extent(p, n)
    <3>1. Position(t, c) - p \in Cells(n)
      BY <1>1, <1>2, <2>3 DEF Extent, Cells
    <3> QED
      BY <1>5, <2>1, <2>2, <3>1
  <2>4. CASE Position(t, c) \notin Extent(p, n)
    BY <1>5, <2>1, <2>2, <2>4
  <2> QED
    BY <2>3, <2>4
<1>10. DOMAIN spill = WindowCells \ Sealed /\ \A c \in DOMAIN spill : spill[c] = Mem(h)'[c]
  OBVIOUS
<1> HIDE DEF spill
<1>11. ASSUME NEW c \in Mapped(h)
       PROVE  Mem(h)'[c] = IF c \in Extent(a, n) \cap Inside(b) THEN vals[c - a]
                           ELSE IF c \in DOMAIN spill THEN spill[c] ELSE Mem(h)[c]
  <2>1. PICK t \in segments[h] : c \in Inside(t)
    BY DEF Mapped
  <2>2. CASE c \in Extent(a, n) \cap Inside(b)
    BY <1>3, <1>7, <2>2
  <2>3. CASE c \notin Extent(a, n) \cap Inside(b) /\ c \in DOMAIN spill
    BY <1>10, <2>3
  <2>4. CASE c \notin Extent(a, n) \cap Inside(b) /\ c \notin DOMAIN spill
    <3>1. CASE FlatOf(t) # Inner
      BY <1>5, <2>1, <2>4, <3>1
    <3>2. CASE FlatOf(t) = Inner
      <4>1. t \in Statics
        BY <1>1, <3>2, FlatOfSegment DEF SoundAt, Sound, Laid, FlatOf, Inner
      <4>2. c \in WindowCells
        <5>1. ToArea(t) \in AreasOf(Statics)
          BY <4>1 DEF AreasOf
        <5>2. c \in Inside(ToArea(t))
          BY <2>1 DEF ToArea, Inside
        <5> QED
          BY <5>1, <5>2 DEF WindowCells
      <4>3. c \in Sealed
        BY <1>10, <2>4, <4>2
      <4> QED
        BY <1>6, <2>1, <2>4, <3>2, <4>3
    <3> QED
      BY <3>1, <3>2
  <2> QED
    BY <2>2, <2>3, <2>4
<1>12. MemBar' = [MemBar EXCEPT ![h] =
           [c \in DOMAIN @ |->
               IF c \in Extent(a, n) \cap Inside(b) THEN vals[c - a]
               ELSE IF c \in DOMAIN spill THEN spill[c] ELSE @[c]]]
  <2>1. DOMAIN Mem(h) = Mapped(h)
    BY DEF Mem
  <2>2. MemBar' = [k \in Handles |-> Mem(k)']
    BY DEF MemBar
  <2>3. Mem(h)' = [c \in Mapped(h) |->
            IF c \in Extent(a, n) \cap Inside(b) THEN vals[c - a]
            ELSE IF c \in DOMAIN spill THEN spill[c] ELSE Mem(h)[c]]
    BY <1>5, <1>11
  <2> QED
    BY <1>1, <1>5, <2>1, <2>2, <2>3 DEF MemBar
<1>13. Extent(a, n) \cap Inside(b) \cap Sealed = {}
  BY <1>3, <1>7
<1> QED
  BY <1>1, <1>3, <1>9, <1>12, <1>13, SparseSpilt

\* A write is stored where it is admitted, and refused elsewhere, or astray.
LEMMA SetImplements ==
    ASSUME PagedInv, NEW h \in live, NEW a \in Addresses, NEW n \in Sizes,
           NEW vals \in [Cells(n) -> Values], NEW fault \in {"OOBRead", "OOBWrite"},
           SetValues(h, a, n, vals, fault)
    PROVE  \/ Sparse!Changes(h, a, n, vals)
           \/ ~Sparse!Admits(h, a, n) /\ Sparse!Refused(a, n)
<1> DEFINE w == WithFlat(h, a, n)
           s == SegmentAt(h, a)
<1>1. /\ h \in Handles /\ SoundAt(h) /\ Given \subseteq segments[h]
      /\ n \in Nat /\ n > 0 /\ a \in Nat /\ Typed
  BY LiveSound, SizeIs, PagedAssumption DEF Addresses, PagedInv
<1>2. ASSUME Fail(w.status, w.at), Refuses(w.status, a, n), ~Fits(h, a, n)
      PROVE  ~Sparse!Admits(h, a, n) /\ Sparse!Refused(a, n)
  <2>1. Same /\ result'.status = w.status
    BY <1>2, FailIs
  <2>2. Sparse!Refused(a, n)
    BY <1>2, <2>1, SparseRefused
  <2>3. ~Admits(h, a, n)
    BY <1>2 DEF Admits
  <2> QED
    BY <1>1, <2>2, <2>3, SparseTests
<1>3. ASSUME NEW status \in Refusals, NEW at, Fail(status, at), ~Admits(h, a, n)
      PROVE  ~Sparse!Admits(h, a, n) /\ Sparse!Refused(a, n)
  <2>1. Same /\ Refuses(result'.status, a, n)
    BY <1>3, FailIs DEF Refuses
  <2> QED
    BY <1>1, <1>3, <2>1, SparseRefused, SparseTests
<1>4. CASE w.status # "Ok"
  <2>1. Refuses(w.status, a, n) /\ ~Fits(h, a, n)
    BY <1>1, <1>4, Reaches
  <2>2. Fail(w.status, w.at)
    BY <1>4 DEF SetValues
  <2> QED
    BY <1>2, <2>1, <2>2
<1>5. CASE w.status = "Ok" /\ ~InBounds(h, w.flat, w.at, n)
  <2>1. ~Fits(h, a, n)
    BY <1>1, <1>5, Reaches
  <2>2. Fail(fault, Rebased(w.at))
    BY <1>5 DEF SetValues, Put
  <2>3. ~Admits(h, a, n) /\ fault \in Refusals
    BY <2>1 DEF Admits, Refusals
  <2> QED
    BY <1>3, <2>2, <2>3
<1>6. CASE w.status = "Ok" /\ InBounds(h, w.flat, w.at, n)
  <2>1. /\ w.flat = FlatOf(s) /\ w.at = Position(s, a)
        /\ s \in segments[h] /\ s.lo <= a /\ a \in Inside(s)
        /\ \/ a + n <= s.hi /\ (s.kind = "Mapping" => OneTouched(s, a, n))
           \/ s.kind = "Static" /\ <<a, n>> \in Astray /\ ~Fits(h, a, n)
    BY <1>1, <1>6, Reaches
  <2> HIDE DEF s
  <2>2. CASE ~(Extent(w.at, n) \subseteq WritableCells(h, w.flat))
    <3>1. Fail("AccessViolation", Rebased(w.at))
      BY <1>6, <2>2 DEF SetValues, Put
    <3>2. "AccessViolation" \in Refusals
      BY DEF Refusals
    <3>3. ~Admits(h, a, n)
      <4>1. CASE ~Fits(h, a, n)
        BY <4>1 DEF Admits
      <4>2. CASE a + n <= s.hi /\ (s.kind = "Mapping" => OneTouched(s, a, n))
        BY <1>1, <2>1, <2>2, <4>2, AdmitsIs
      <4> QED
        BY <2>1, <4>1, <4>2
    <3> QED
      BY <1>3, <3>1, <3>2, <3>3
  <2>3. CASE Extent(w.at, n) \subseteq WritableCells(h, w.flat)
    <3>1. /\ flat' = [flat EXCEPT ![h][w.flat] = Overwritten(@, w.at, n, vals)]
          /\ Result("Ok", 0, <<>>)
          /\ UNCHANGED <<live, segments>>
      BY <1>6, <2>3 DEF SetValues, Put
    <3>2. flat' = [flat EXCEPT ![h][FlatOf(s)] = Overwritten(@, Position(s, a), n, vals)]
      BY <2>1, <3>1
    <3>3. result'.status = "Ok" /\ result'.seen = <<>>
      BY <3>1 DEF Result
    <3>4. CASE a + n <= s.hi /\ (s.kind = "Mapping" => OneTouched(s, a, n))
      <4>1. Admits(h, a, n)
        BY <1>1, <2>1, <2>3, <3>4, AdmitsIs
      <4>2. ASSUME NEW k \in Handles
            PROVE  /\ Mapped(k)' = Mapped(k)
                   /\ Mem(k)' = IF k = h
                                THEN [c \in Mapped(h) |->
                                         IF c \in Extent(a, n) THEN vals[c - a] ELSE Mem(h)[c]]
                                ELSE Mem(k)
        BY <1>1, <2>1, <3>1, <3>2, <3>4, WrittenMem
      <4>3. DOMAIN Mem(h) = Mapped(h)
        BY DEF Mem
      <4>4. MemBar' = [k \in Handles |-> Mem(k)']
        BY DEF MemBar
      <4>5. MemBar' = [MemBar EXCEPT ![h] =
                 [c \in DOMAIN @ |-> IF c \in Extent(a, n) THEN vals[c - a] ELSE @[c]]]
        BY <1>1, <4>2, <4>3, <4>4 DEF MemBar
      <4>6. Sparse!Stored(h, a, n, vals)
        BY <1>1, <3>1, <3>3, <4>5, SparseStored
      <4> QED
        BY <1>1, <4>1, <4>6, SparseTests DEF Sparse!Changes
    <3>5. CASE s.kind = "Static" /\ <<a, n>> \in Astray
      <4>1. Overwrites(h, s, Position(s, a), n, vals)
        BY <3>1, <3>2 DEF Overwrites
      <4>2. Extent(Position(s, a), n) \subseteq WritableCells(h, FlatOf(s))
        BY <2>1, <2>3
      <4>3. Sparse!Spilt(h, a, n, vals)
        BY <2>1, <3>1, <3>3, <3>5, <4>1, <4>2, SpillIs
      <4> QED
        BY <4>3 DEF Sparse!Changes
    <3> QED
      BY <2>1, <3>4, <3>5
  <2> QED
    BY <2>2, <2>3
<1> QED
  BY <1>4, <1>5, <1>6

LEMMA CopyImplements ==
    ASSUME PagedInv, NEW h \in live, NEW a \in Addresses, NEW d \in Addresses,
           NEW n \in Sizes, CopyValues(h, a, d, n)
    PROVE  Sparse!Copy(h, a, d, n)
<1> DEFINE w == WithFlat(h, a, n)
           seen == w.status = "Ok" /\ InBounds(h, w.flat, w.at, n)
           vals == [i \in Cells(n) |-> flat[h][w.flat][w.at + i]]
<1>1. h \in Handles /\ SoundAt(h)
  BY LiveSound
<1>2. CASE ~seen
  <2>1. SeeAt(h, w, n)
    BY <1>2 DEF CopyValues
  <2>2. Sparse!Refused(a, n) /\ ~Sparse!Fits(h, a, n)
    BY <1>2, <2>1, UnseenRefused
  <2> QED
    BY <2>2 DEF Sparse!Copy
<1>3. CASE seen
  <2>1. vals \in [0..(n - 1) -> Values] /\ Sparse!Sees(h, a, n, vals)
    BY <1>1, <1>3, SeesIs
  <2>2. SetValues(h, d, n, vals, "OOBRead")
    BY <1>3 DEF CopyValues
  <2> HIDE DEF vals
  <2>3. vals \in [Cells(n) -> Values]
    BY <2>1 DEF Cells
  <2>4. CASE Sparse!Changes(h, d, n, vals)
    BY <2>1, <2>4 DEF Sparse!Copy
  <2>5. CASE ~Sparse!Admits(h, d, n) /\ Sparse!Refused(d, n)
    BY <2>5 DEF Sparse!Copy
  <2> QED
    BY <2>2, <2>3, <2>4, <2>5, SetImplements
<1> QED
  BY <1>2, <1>3

\* No block is the whole of a heap.
LEMMA HeapIsNoBlock ==
    ASSUME NEW h, SoundAt(h), NEW s \in segments[h], s.kind = "Mapping",
           NEW b \in Blocks(h), b.lo = s.lo, b.hi = s.hi
    PROVE  FALSE
<1>1. s.lo \in Nat /\ s.hi \in Nat /\ s.lo < s.hi /\ s.lo \in Inside(s)
  BY SegmentBounds DEF Inside
<1>2. CASE \E t \in segments[h] : t.kind # "Mapping" /\ b = ToArea(t)
  <2>1. PICK t \in segments[h] : t.kind # "Mapping" /\ b = ToArea(t)
    BY <1>2
  <2>2. t.lo = s.lo /\ t.hi = s.hi
    BY <2>1 DEF ToArea
  <2>3. s.lo \in Inside(t)
    BY <1>1, <2>2 DEF Inside
  <2> QED
    BY <1>1, <2>1, <2>3, OnlySegment
<1>3. CASE \E t \in segments[h] : t.kind = "Mapping" /\ t.lo <= b.lo /\ b.hi < t.hi
  <2>1. PICK t \in segments[h] : t.lo <= b.lo /\ b.hi < t.hi
    BY <1>3
  <2>2. t.lo \in Nat /\ t.hi \in Nat
    BY SegmentBounds
  <2>3. s.lo \in Inside(t)
    BY <1>1, <2>1, <2>2 DEF Inside
  <2>4. t = s
    BY <1>1, <2>3, OnlySegment
  <2> QED
    BY <1>1, <2>1, <2>4
<1> QED
  BY <1>2, <1>3, BlockIs

\* The areas that are blocks are the segments that are no heaps.
LEMMA WholeBlocks ==
    ASSUME NEW h, SoundAt(h)
    PROVE  /\ \A b \in Blocks(h) \cap Areas(h) :
                 \E s \in segments[h] : s.kind # "Mapping" /\ b = ToArea(s) /\ Inside(b) = Inside(s)
           /\ \A s \in segments[h] : s.kind # "Mapping" => ToArea(s) \in Blocks(h) \cap Areas(h)
<1>1. ASSUME NEW b \in Blocks(h) \cap Areas(h)
      PROVE  \E s \in segments[h] : s.kind # "Mapping" /\ b = ToArea(s) /\ Inside(b) = Inside(s)
  <2>1. PICK s \in segments[h] : b = ToArea(s)
    BY <1>1 DEF Areas, AreasOf
  <2>2. b.lo = s.lo /\ b.hi = s.hi
    BY <2>1 DEF ToArea
  <2>3. s.kind # "Mapping"
    BY <2>2, HeapIsNoBlock
  <2> QED
    BY <2>1, <2>2, <2>3 DEF Inside
<1>2. ASSUME NEW s \in segments[h], s.kind # "Mapping"
      PROVE  ToArea(s) \in Blocks(h) \cap Areas(h)
  BY <1>2 DEF Blocks, Areas, AreasOf
<1> QED
  BY <1>1, <1>2

LEMMA SparseFrom ==
    ASSUME NEW h \in Handles, NEW a
    PROVE  Sparse!ReadFrom(h, a) <=>
               \/ \E b \in Blocks(h) \cap Areas(h) :
                     a \in Inside(b) /\ Sparse!Returned(h, a, b.hi - a)
               \/ /\ \A b \in Blocks(h) \cap Areas(h) : a \notin Inside(b)
                  /\ \/ Sparse!Refused(a, Space)
                     \/ \E n \in 1..Space : Sparse!Readable(h, a, n) /\ Sparse!Returned(h, a, n)
BY DEF Sparse!ReadFrom, Sparse!Inside, Inside, Blocks, Areas

LEMMA FromImplements ==
    ASSUME PagedInv, NEW h \in live, NEW a \in Addresses, ViewValuesFrom(h, a)
    PROVE  Sparse!ReadFrom(h, a)
<1>1. h \in Handles /\ SoundAt(h) /\ a \in Nat /\ a \in Int /\ Space \in Nat
      /\ Laid(segments[h])
  BY LiveSound, LiveIs, PagedAssumption DEF Addresses
<1>2. ASSUME \A s \in segments[h] : s.kind # "Mapping" => a \notin Inside(s)
      PROVE  \A b \in Blocks(h) \cap Areas(h) : a \notin Inside(b)
  BY <1>1, <1>2, WholeBlocks
<1>3. ASSUME NEW status, NEW at, Fail(status, at), status \in Refusals \cup {"Panic"}
      PROVE  Sparse!Refused(a, Space)
  <2>1. Same /\ result'.status = status
    BY <1>3, FailIs
  <2>2. Refuses(result'.status, a, Space)
    BY <1>1, <1>3, <2>1 DEF Refuses
  <2> QED
    BY <2>1, <2>2, SparseRefused
<1>4. CASE Unmapped(h, a)
  <2>1. Fail("UnmappedAddress", a)
    BY <1>4 DEF ViewValuesFrom
  <2>2. Sparse!Refused(a, Space)
    BY <1>3, <2>1 DEF Refusals
  <2>3. \A b \in Blocks(h) \cap Areas(h) : a \notin Inside(b)
    BY <1>1, <1>2, <1>4, UnmappedFits
  <2> QED
    BY <1>1, <2>2, <2>3, SparseFrom
<1>5. CASE ~Unmapped(h, a)
  <2> DEFINE s == SegmentAt(h, a)
             n == RestOf(s, a)
             w == InSegment(s, a, n)
  <2>1. s \in segments[h] /\ a \in Inside(s) /\ SeeAt(h, w, n)
    BY <1>5, SegmentHere DEF ViewValuesFrom
  <2>2. s.lo \in Nat /\ s.hi \in Nat /\ s.hi < Space /\ s.lo <= a /\ a < s.hi
    BY <1>1, <2>1, SegmentBounds DEF Inside
  <2>3. n \in Nat /\ n > 0 /\ n \in 1..Space /\ n \in 0..Space
    BY <1>1, <2>2 DEF RestOf
  <2>4. ASSUME w.status = "Ok"
        PROVE  w.flat = FlatOf(s) /\ w.at = Position(s, a)
    <3>1. w = Found(FlatOf(s), Position(s, a))
      BY <1>1, <2>1, <2>3, <2>4, FoundAtPosition
    <3> QED
      BY <3>1 DEF Found
  <2>5. ASSUME w.status = "Ok", InBounds(h, w.flat, w.at, n), a + n <= s.hi
        PROVE  Sparse!Returned(h, a, n)
    <3>1. Same /\ result'.status = "Ok"
          /\ result'.seen = [i \in Cells(n) |-> flat[h][w.flat][w.at + i]]
      BY <2>1, <2>5 DEF SeeAt, See, Result, Same
    <3>2. result'.seen = [i \in 0..(n - 1) |-> Mem(h)[a + i]]
      BY <1>1, <2>1, <2>2, <2>3, <2>4, <2>5, <3>1, SeenIs
    <3> QED
      BY <1>1, <3>1, <3>2, SparseReturned
  <2>6. CASE s.kind # "Mapping"
    <3>1. w.status = "Ok" /\ n = s.hi - a
      BY <2>6 DEF InSegment, Found, RestOf
    <3>2. a + n <= s.hi
      BY <1>1, <2>2, <3>1
    <3>3. InBounds(h, w.flat, w.at, n)
      BY <1>1, <2>1, <2>2, <2>3, <2>4, <3>1, <3>2, InsideInBounds
    <3>4. Sparse!Returned(h, a, n)
      BY <2>5, <3>1, <3>2, <3>3
    <3>5. ToArea(s) \in Blocks(h) \cap Areas(h) /\ ToArea(s).hi = s.hi /\ ToArea(s).lo = s.lo
      BY <1>1, <2>1, <2>6, WholeBlocks DEF ToArea
    <3>6. a \in Inside(ToArea(s))
      BY <2>1, <3>5 DEF Inside
    <3> HIDE DEF w
    <3>7. Sparse!Returned(h, a, ToArea(s).hi - a)
      BY <3>1, <3>4, <3>5
    <3> QED
      BY <1>1, <3>5, <3>6, <3>7, SparseFrom
  <2>7. CASE s.kind = "Mapping"
    <3>1. \A t \in segments[h] : t.kind # "Mapping" => a \notin Inside(t)
      BY <1>1, <2>1, <2>7, OnlySegment
    <3>2. \A b \in Blocks(h) \cap Areas(h) : a \notin Inside(b)
      BY <1>2, <3>1
    <3>3. w = Translated(s, a, n)
      BY <2>7 DEF InSegment
    <3>4. CASE w.status # "Ok"
      <4>1. Fail(w.status, w.at)
        BY <2>1, <3>4 DEF SeeAt
      <4>2. Refuses(w.status, a, n)
        BY <1>1, <2>1, <2>3, <2>7, <3>3, <3>4, HeapReaches
      <4>3. Sparse!Refused(a, Space)
        BY <1>3, <4>1, <4>2 DEF Refuses
      <4> QED
        BY <1>1, <3>2, <4>3, SparseFrom
    <3>5. CASE w.status = "Ok" /\ ~InBounds(h, w.flat, w.at, n)
      <4>1. Fail("OOBRead", Rebased(w.at))
        BY <2>1, <3>5 DEF SeeAt, See
      <4>2. Sparse!Refused(a, Space)
        BY <1>3, <4>1 DEF Refusals
      <4> QED
        BY <1>1, <3>2, <4>2, SparseFrom
    <3>6. CASE w.status = "Ok" /\ InBounds(h, w.flat, w.at, n)
      <4>1. a + n <= s.hi
        BY <1>1, <2>1, <2>2, <2>3, <2>4, <2>7, <3>6, InsideInBounds
      <4>2. OneTouched(s, a, n)
        BY <1>1, <2>1, <2>3, <2>7, <3>3, <3>6, HeapReaches
      <4>3. Sparse!Readable(h, a, n)
        BY <1>1, <2>1, <2>2, <2>3, <4>1, <4>2, ReadableIn, SparseTests
      <4>4. Sparse!Returned(h, a, n)
        BY <2>5, <3>6, <4>1
      <4> QED
        BY <1>1, <2>3, <3>2, <4>3, <4>4, SparseFrom
    <3> QED
      BY <3>4, <3>5, <3>6
  <2> QED
    BY <2>6, <2>7
<1> QED
  BY <1>4, <1>5

-----------------------------------------------------------------------------
(* Mappings and snapshots.                                                 *)

LEMMA SparseMapped ==
    ASSUME NEW h \in Handles, NEW e,
           \A b \in Areas(h) : Inside(b) \cap Inside(e) = {},
           AreasBar' = [AreasBar EXCEPT ![h] = @ \cup {e}],
           BlocksBar' \in {BlocksBar, [BlocksBar EXCEPT ![h] = @ \cup {e}]},
           MemBar' = [MemBar EXCEPT ![h] =
               [a \in DOMAIN @ \cup Inside(e) |-> IF a \in Inside(e) THEN Default ELSE @[a]]],
           result'.status = "Ok", result'.seen = <<>>, UNCHANGED live
    PROVE  Sparse!Map(h, e)
BY DEF Sparse!Map, Sparse!Apart, Sparse!Inside, Sparse!Returns, AreasBar, Areas, BlocksBar,
       Blocks, MemBar, Mem, Cell, Inside

LEMMA SparseNotMapped ==
    ASSUME NEW h \in Handles, NEW e, \E b \in Areas(h) : Inside(b) \cap Inside(e) # {},
           Same, result'.status = "OverlappedMapping", result'.seen = <<>>
    PROVE  Sparse!Map(h, e)
<1>1. \E b \in AreasBar[h] : ~(Inside(b) \cap Inside(e) = {})
  BY DEF AreasBar
<1>2. AreasBar' = AreasBar /\ BlocksBar' = BlocksBar
  BY DEF AreasBar, Areas, BlocksBar, Blocks, Same
<1>3. MemBar' = MemBar /\ UNCHANGED live
  BY DEF MemBar, Mem, Cell, Mapped, SegmentAt, Same
<1> QED
  BY <1>1, <1>2, <1>3 DEF Sparse!Map, Sparse!Apart, Sparse!Inside, Sparse!Returns, Inside,
     AreasBar, Areas, BlocksBar, Blocks, MemBar, Mem, Cell

LEMMA SparseBecome ==
    ASSUME NEW h \in Handles, NEW k \in Handles, live' = live \cup {h},
           AreasBar' = [AreasBar EXCEPT ![h] = AreasBar[k]],
           BlocksBar' = [BlocksBar EXCEPT ![h] = BlocksBar[k]],
           MemBar' = [MemBar EXCEPT ![h] = MemBar[k]],
           result'.status = "Ok", result'.seen = <<>>
    PROVE  Sparse!Become(h, k)
BY DEF Sparse!Become, Sparse!Returns, AreasBar, Areas, BlocksBar, Blocks, MemBar, Mem, Cell

LEMMA MapImplements ==
    ASSUME PagedInv, NEW h \in live, NEW e \in Extents,
           NEW kind \in {"StaticMapping", "Mapping"}, NEW name \in Names,
           Map(h, e, kind, name)
    PROVE  Sparse!Map(h, e)
<1> DEFINE s == [lo |-> e.lo, hi |-> e.hi, kind |-> kind, name |-> name, offset |-> 0,
                 regions |-> {}, writable |-> {}]
           segs == segments[h] \cup {s}
           flats == [f \in DOMAIN flat[h] \cup {e.lo} |-> IF f = e.lo THEN NewFlat(e) ELSE flat[h][f]]
<1>1. h \in Handles /\ SoundAt(h) /\ Typed
  BY LiveSound DEF PagedInv
<1>2. /\ e.lo \in Nat /\ e.hi \in Nat /\ e.lo < e.hi
      /\ e = [lo |-> e.lo, hi |-> e.hi]
  BY PagedAssumption DEF Addresses, Interval
<1>3. HasOverlap(h, e) <=> \E b \in Areas(h) : Inside(b) \cap Inside(e) # {}
  <2>1. \A t : Inside(ToArea(t)) = Inside(t)
    BY DEF Inside, ToArea
  <2> QED
    BY <2>1 DEF HasOverlap, Areas, AreasOf
<1>4. CASE HasOverlap(h, e)
  <2>1. Fail("OverlappedMapping", e.lo)
    BY <1>4 DEF Map
  <2>2. Same /\ result'.status = "OverlappedMapping" /\ result'.seen = <<>>
    BY <2>1 DEF Fail, Same, Result
  <2> QED
    BY <1>1, <1>3, <1>4, <2>2, SparseNotMapped
<1>5. CASE ~HasOverlap(h, e)
  <2>1. /\ segments' = [segments EXCEPT ![h] = segs]
        /\ flat' = [flat EXCEPT ![h] = flats]
        /\ result'.status = "Ok" /\ result'.seen = <<>>
        /\ UNCHANGED live
    BY <1>5 DEF Map, Result
  <2>2. \A k \in Handles : /\ segments'[k] = IF k = h THEN segs ELSE segments[k]
                           /\ flat'[k] = IF k = h THEN flats ELSE flat[k]
    BY <1>1, <2>1 DEF Typed
  <2>3. s.lo = e.lo /\ s.hi = e.hi /\ s.kind = kind /\ s.offset = 0
        /\ s.regions = {} /\ ToArea(s) = e
    BY <1>2 DEF ToArea
  <2>4. Inside(s) = Inside(e)
    BY <2>3 DEF Inside
  <2>5. \A t \in segments[h] : Inside(t) \cap Inside(e) = {}
    BY <1>5 DEF HasOverlap
  <2> HIDE DEF s, flats
  <2>6. AreasBar' = [AreasBar EXCEPT ![h] = @ \cup {e}]
    <3>1. AreasOf(segs) = AreasOf(segments[h]) \cup {e}
      BY <2>3 DEF AreasOf
    <3> HIDE DEF segs
    <3> QED
      BY <1>1, <2>2, <3>1 DEF AreasBar, Areas
  <2>7. BlocksBar' \in {BlocksBar, [BlocksBar EXCEPT ![h] = @ \cup {e}]}
    <3> DEFINE Whole(ss) == {t \in ss : t.kind # "Mapping"}
    <3>0. RegionsOf(segs) = RegionsOf(segments[h])
      BY <2>3 DEF RegionsOf
    <3>1. CASE kind = "Mapping"
      <4>1. Whole(segs) = Whole(segments[h])
        BY <2>3, <3>1
      <4>2. \A k \in Handles : Blocks(k)' = Blocks(k)
        BY <2>1, <2>2, <3>0, <4>1 DEF Blocks
      <4> QED
        BY <4>2 DEF BlocksBar
    <3>2. CASE kind = "StaticMapping"
      <4>1. Whole(segs) = Whole(segments[h]) \cup {s}
        BY <2>3, <3>2
      <4>2. AreasOf(Whole(segs)) = AreasOf(Whole(segments[h])) \cup {e}
        BY <2>3, <4>1 DEF AreasOf
      <4>3. \A k \in Handles : Blocks(k)' = IF k = h THEN Blocks(h) \cup {e} ELSE Blocks(k)
        BY <2>1, <2>2, <3>0, <4>2 DEF Blocks
      <4> QED
        BY <1>1, <4>3 DEF BlocksBar
    <3> QED
      BY <3>1, <3>2
  <2>8. ASSUME NEW a \in Inside(e)
        PROVE  Cell(h, a)' = Default
    <3>1. \A t \in segs : a \in Inside(t) => t = s
      BY <2>4, <2>5
    <3>2. s \in segs /\ a \in Inside(s)
      BY <2>4
    <3>3. SegmentAt(h, a)' = CHOOSE t \in segs : a \in Inside(t)
      BY <1>1, <2>2 DEF SegmentAt
    <3>4. SegmentAt(h, a)' = s
      BY <3>1, <3>2, <3>3
    <3>5. FlatOf(s) = e.lo /\ Position(s, a) \in Cells(e.hi - e.lo)
      BY <1>2, <2>3 DEF FlatOf, Position, Cells, Inside
    <3>6. flat'[h][e.lo] = NewFlat(e)
      BY <1>1, <2>2 DEF flats
    <3>7. Cell(h, a)' = flat'[h][FlatOf(s)][Position(s, a)]
      BY <3>4 DEF Cell
    <3> QED
      BY <3>5, <3>6, <3>7 DEF NewFlat
  <2>9. ASSUME NEW a \in Mapped(h)
        PROVE  a \notin Inside(e) /\ Cell(h, a)' = Cell(h, a)
    <3>1. PICK t \in segments[h] : a \in Inside(t)
      BY <2>9 DEF Mapped
    <3>2. a \notin Inside(e)
      BY <2>5, <3>1
    <3>3. SegmentAt(h, a) = t
      BY <1>1, <3>1, CellIs
    <3>4. \A u \in segs : a \in Inside(u) => u = t
      BY <1>1, <2>4, <3>1, <3>2, OnlySegment
    <3>5. SegmentAt(h, a)' = CHOOSE u \in segs : a \in Inside(u)
      BY <1>1, <2>2 DEF SegmentAt
    <3>6. SegmentAt(h, a)' = t
      BY <3>1, <3>4, <3>5
    <3>7. FlatOf(t) # e.lo /\ FlatOf(t) \in DOMAIN flat[h]
      <4>1. t.lo \in Inside(t) /\ e.lo \in Inside(e)
        BY <1>1, <1>2, SegmentBounds DEF Inside
      <4>2. t.lo # e.lo
        BY <2>5, <4>1
      <4>3. FlatOf(t) # e.lo
        BY <1>2, <4>2 DEF FlatOf, Inner
      <4>4. DOMAIN flat[h] = Flats(segments[h])
        BY <1>1 DEF SoundAt, Sound, Backed
      <4> QED
        BY <4>3, <4>4 DEF FlatOf, Flats
    <3>8. flat'[h][FlatOf(t)] = flat[h][FlatOf(t)]
      BY <1>1, <2>2, <3>7 DEF flats
    <3>9. Cell(h, a)' = flat'[h][FlatOf(t)][Position(t, a)]
      BY <3>6 DEF Cell
    <3>10. Cell(h, a) = flat[h][FlatOf(t)][Position(t, a)]
      BY <3>3 DEF Cell
    <3> QED
      BY <3>2, <3>8, <3>9, <3>10
  <2>10. Mapped(h)' = Mapped(h) \cup Inside(e)
    <3>1. segments'[h] = segments[h] \cup {s}
      BY <1>1, <2>2
    <3> QED
      BY <2>4, <3>1 DEF Mapped
  <2>11. Mem(h)' = [a \in Mapped(h) \cup Inside(e) |->
                       IF a \in Inside(e) THEN Default ELSE Mem(h)[a]]
    <3>1. Mem(h)' = [a \in Mapped(h)' |-> Cell(h, a)']
      BY DEF Mem
    <3>2. \A a \in Mapped(h) : Mem(h)[a] = Cell(h, a)
      BY DEF Mem
    <3> QED
      BY <2>8, <2>9, <2>10, <3>1, <3>2
  <2>12. ASSUME NEW k \in Handles, k # h
         PROVE  Mem(k)' = Mem(k)
    <3>1. segments'[k] = segments[k] /\ flat'[k] = flat[k]
      BY <2>2, <2>12
    <3> QED
      BY <3>1 DEF Mem, Mapped, Cell, SegmentAt
  <2>13. MemBar' = [MemBar EXCEPT ![h] =
               [a \in DOMAIN @ \cup Inside(e) |-> IF a \in Inside(e) THEN Default ELSE @[a]]]
    <3>1. DOMAIN Mem(h) = Mapped(h)
      BY DEF Mem
    <3>2. MemBar' = [k \in Handles |-> Mem(k)']
      BY DEF MemBar
    <3> QED
      BY <1>1, <2>11, <2>12, <3>1, <3>2 DEF MemBar
  <2>14. \A b \in Areas(h) : Inside(b) \cap Inside(e) = {}
    BY <1>3, <1>5
  <2> QED
    BY <1>1, <2>1, <2>6, <2>7, <2>13, <2>14, SparseMapped
<1> QED
  BY <1>4, <1>5

LEMMA BecomesImplements ==
    ASSUME PagedInv, NEW h \in Handles, NEW k \in live, Becomes(h, k)
    PROVE  Sparse!Become(h, k)
<1>1. k \in Handles /\ Typed
  BY DEF PagedInv, Typed
<1>2. \A j \in Handles : /\ segments'[j] = IF j = h THEN segments[k] ELSE segments[j]
                         /\ flat'[j] = IF j = h THEN flat[k] ELSE flat[j]
  BY <1>1 DEF Becomes, Typed
<1>3. ASSUME NEW j \in Handles, NEW i \in Handles,
             segments'[j] = segments[i], flat'[j] = flat[i]
      PROVE  Areas(j)' = Areas(i) /\ Blocks(j)' = Blocks(i) /\ Mem(j)' = Mem(i)
  BY <1>3 DEF Areas, Blocks, Mem, Mapped, Cell, SegmentAt
<1>4. ASSUME NEW j \in Handles
      PROVE  /\ Areas(j)' = IF j = h THEN Areas(k) ELSE Areas(j)
             /\ Blocks(j)' = IF j = h THEN Blocks(k) ELSE Blocks(j)
             /\ Mem(j)' = IF j = h THEN Mem(k) ELSE Mem(j)
  BY <1>1, <1>2, <1>3
<1>5. AreasBar' = [AreasBar EXCEPT ![h] = AreasBar[k]]
  BY <1>1, <1>4 DEF AreasBar
<1>6. BlocksBar' = [BlocksBar EXCEPT ![h] = BlocksBar[k]]
  BY <1>1, <1>4 DEF BlocksBar
<1>7. MemBar' = [MemBar EXCEPT ![h] = MemBar[k]]
  BY <1>1, <1>4 DEF MemBar
<1>8. live' = live \cup {h} /\ result'.status = "Ok" /\ result'.seen = <<>>
  BY DEF Becomes, Result
<1> QED
  BY <1>1, <1>5, <1>6, <1>7, <1>8, SparseBecome

LEMMA MappedIs ==
    ASSUME NEW h
    PROVE  Mapped(h) = UNION {Inside(b) : b \in Areas(h)}
<1>1. \A s : Inside(ToArea(s)) = Inside(s)
  BY DEF Inside, ToArea
<1>2. {Inside(b) : b \in Areas(h)} = {Inside(s) : s \in segments[h]}
  BY <1>1 DEF Areas, AreasOf
<1> QED
  BY <1>2 DEF Mapped

LEMMA InitImplements ==
    ASSUME Init
    PROVE  Sparse!Init
<1> DEFINE layout == AreasOf(Statics) \cup AreasOf(Heaps)
           first == AreasOf(Statics) \cup RegionsOf(Heaps)
           whole(bs) == UNION {Inside(b) : b \in bs}
<1>1. PagedInv
  BY InitPaged
<1>2. ASSUME NEW h \in Handles
      PROVE  /\ Areas(h) = IF h \in live THEN layout ELSE {}
             /\ Blocks(h) = IF h \in live THEN first ELSE {}
  <2>1. segments[h] = IF h \in live THEN Given ELSE {}
    BY DEF Init
  <2>2. {s \in Given : s.kind # "Mapping"} = Statics
    BY WindowTyped, HeapTyped DEF Given
  <2>3. RegionsOf(Given) = RegionsOf(Heaps)
    BY WindowTyped DEF Given, RegionsOf
  <2>4. AreasOf(Given) = layout
    BY DEF Given, AreasOf
  <2>5. AreasOf({}) = {} /\ RegionsOf({}) = {}
    BY DEF AreasOf, RegionsOf
  <2>6. CASE h \in live
    BY <2>1, <2>2, <2>3, <2>4, <2>6 DEF Areas, Blocks
  <2>7. CASE h \notin live
    BY <2>1, <2>5, <2>7 DEF Areas, Blocks
  <2> QED
    BY <2>6, <2>7
<1>3. /\ AreasBar = [h \in Handles |-> IF h \in live THEN layout ELSE {}]
      /\ BlocksBar = [h \in Handles |-> IF h \in live THEN first ELSE {}]
  BY <1>2 DEF AreasBar, BlocksBar
<1>4. Sealed \in SUBSET whole(layout)
  <2>1. \A s \in Given : Inside(ToArea(s)) = Inside(s) /\ ToArea(s) \in layout
    BY DEF Inside, ToArea, AreasOf, Given
  <2>2. ASSUME NEW s \in Heaps, NEW r \in s.regions
        PROVE  Inside(r) \subseteq Inside(s)
    <3>1. /\ s.lo \in Nat /\ s.hi \in Nat /\ r \in Interval
          /\ s.lo <= r.lo /\ r.hi < s.hi
      BY HeapTyped DEF Parted
    <3>2. r.lo \in Nat /\ r.hi \in Nat
      BY <3>1, PagedAssumption DEF Interval, Addresses
    <3> QED
      BY <3>1, <3>2 DEF Inside
  <2> QED
    BY <2>1, <2>2 DEF Sealed, Given
<1>5. ASSUME NEW h \in Handles
      PROVE  /\ DOMAIN Mem(h) = whole(AreasBar[h])
             /\ Mem(h) \in [whole(AreasBar[h]) -> Values]
  <2>1. AreasBar[h] = Areas(h) /\ Mapped(h) = whole(AreasBar[h])
    BY MappedIs DEF AreasBar
  <2>2. SoundAt(h)
    BY <1>1 DEF PagedInv, SoundAt
  <2>3. ASSUME NEW a \in Mapped(h)
        PROVE  Mem(h)[a] \in Values
    BY <2>2, MemTyped DEF Mapped
  <2>4. Mem(h) = [a \in Mapped(h) |-> Mem(h)[a]]
    BY DEF Mem
  <2> QED
    BY <2>1, <2>3, <2>4
<1>6. \A h \in Handles : AreasBar[h] \in {{}, layout}
  BY <1>3
<1> DEFINE Mems == UNION {[whole(bs) -> Values] : bs \in {{}, layout}}
<1>7. MemBar \in [Handles -> Mems]
  <2>1. \A h \in Handles : Mem(h) \in Mems
    BY <1>5, <1>6
  <2> HIDE DEF Mems
  <2> QED
    BY <2>1 DEF MemBar
<1>8. \A h \in Handles : DOMAIN MemBar[h] = whole(AreasBar[h])
  BY <1>5 DEF MemBar
<1>9. /\ \E h \in Handles : live = {h}
      /\ result.status = "Ok" /\ result.seen = <<>> /\ call = <<"New">>
  BY DEF Init
<1> QED
  BY <1>3, <1>4, <1>7, <1>8, <1>9 DEF Sparse!Init, Sparse!Layout, Sparse!Inside, Inside, AreasBar, Areas,
     BlocksBar, Blocks, MemBar, Mem, Cell, Sealed

LEMMA NextImplements ==
    ASSUME PagedInv, [Next]_vars
    PROVE  [Sparse!Next]_(Sparse!vars)
<1>0. live \subseteq Handles /\ Sparse!Addresses = Addresses
  BY DEF PagedInv, Typed, Sparse!Addresses, Addresses
<1>1. Running <=> Sparse!Running
  BY DEF Running, Sparse!Running
<1>2. ASSUME Running, NEW h \in live, Access(h)
      PROVE  Sparse!Next
  <2>1. PICK a \in Addresses :
            \/ ViewValuesFrom(h, a) /\ call' = <<"From", h, a>>
            \/ \E n \in Sizes :
                  \/ ViewValues(h, a, n) /\ call' = <<"Read", h, a, n>>
                  \/ \E vals \in [Cells(n) -> Values], fault \in {"OOBRead", "OOBWrite"} :
                        SetValues(h, a, n, vals, fault) /\ call' = <<"Write", h, a, n, vals>>
                  \/ \E d \in Addresses :
                        CopyValues(h, a, d, n) /\ call' = <<"Copy", h, a, n, d>>
    BY <1>2 DEF Access
  <2>2. CASE ViewValuesFrom(h, a) /\ call' = <<"From", h, a>>
    <3>1. Sparse!ReadFrom(h, a)
      BY <2>2, FromImplements
    <3> QED
      BY <1>0, <1>1, <1>2, <2>2, <3>1 DEF Sparse!Next
  <2>3. ASSUME NEW n \in Sizes, ViewValues(h, a, n), call' = <<"Read", h, a, n>>
        PROVE  Sparse!Next
    <3>1. Sparse!Read(h, a, n)
      BY <2>3, ReadImplements
    <3> QED
      BY <1>0, <1>1, <1>2, <2>3, <3>1 DEF Sparse!Next
  <2>4. ASSUME NEW n \in Sizes, NEW vals \in [Cells(n) -> Values],
               NEW fault \in {"OOBRead", "OOBWrite"}, SetValues(h, a, n, vals, fault),
               call' = <<"Write", h, a, n, vals>>
        PROVE  Sparse!Next
    <3>1. Sparse!Write(h, a, n, vals)
      BY <2>4, SetImplements DEF Sparse!Write
    <3>2. vals \in [0..(n - 1) -> Values]
      BY DEF Cells
    <3> QED
      BY <1>0, <1>1, <1>2, <2>4, <3>1, <3>2 DEF Sparse!Next
  <2>5. ASSUME NEW n \in Sizes, NEW d \in Addresses, CopyValues(h, a, d, n),
               call' = <<"Copy", h, a, n, d>>
        PROVE  Sparse!Next
    <3>1. Sparse!Copy(h, a, d, n)
      BY <2>5, CopyImplements
    <3> QED
      BY <1>0, <1>1, <1>2, <2>5, <3>1 DEF Sparse!Next
  <2> QED
    BY <2>1, <2>2, <2>3, <2>4, <2>5
<1>3. ASSUME Running, NEW h \in live, NEW e \in Extents, NEW name \in Names,
             Map(h, e, "StaticMapping", name) \/ Map(h, e, "Mapping", name),
             call' = <<"Map", h, e>>
      PROVE  Sparse!Next
  <2>1. Sparse!Map(h, e)
    BY <1>3, MapImplements
  <2> QED
    BY <1>1, <1>3, <2>1 DEF Sparse!Next
<1>4. ASSUME Running, NEW h \in Handles, NEW k \in live, h # k, Becomes(h, k),
             call' = <<"Become", h, k>>
      PROVE  Sparse!Next
  <2>1. Sparse!Become(h, k)
    BY <1>4, BecomesImplements
  <2> QED
    BY <1>1, <1>4, <2>1 DEF Sparse!Next
<1>5. ASSUME Running, NEW h \in live, NEW k \in Handles, h # k, Fork(h, k),
             call' = <<"Become", k, h>>
      PROVE  Sparse!Next
  <2>1. Becomes(k, h)
    BY <1>5 DEF Fork, Becomes
  <2> QED
    BY <1>4, <1>5, <2>1
<1>6. ASSUME Running, NEW h \in live, NEW k \in live, k \in tracks[h], Restore(h, k),
             call' = <<"Become", h, k>>
      PROVE  Sparse!Next
  <2>1. h # k /\ Becomes(h, k)
    BY <1>6, RestoreIs
  <2> QED
    BY <1>0, <1>4, <1>6, <2>1
<1>7. CASE UNCHANGED vars
  <2>1. UNCHANGED Sparse!vars
    BY <1>7 DEF vars, Sparse!vars, Mapped, SegmentAt
  <2> QED
    BY <2>1
<1> QED
  BY <1>2, <1>3, <1>5, <1>6, <1>7 DEF Next

\* Whatever is mapped, forked and restored, and wherever an access falls: an
\* address has one cell of its own, an access never leaves its segment or
\* region, but one from a window past the end of the address space, which
\* changes nothing but windows; a restore gives the snapshot's segments and
\* never panics (paged.rs:392-553, 590-636).
THEOREM PagedImplementsSparse == Spec => ImplementsSparse
<1>1. Init => Sparse!Init
  BY InitImplements
<1>2. PagedInv /\ [Next]_vars => [Sparse!Next]_(Sparse!vars)
  BY NextImplements
<1> QED
  BY <1>1, <1>2, PagedInvHolds, PTL DEF Spec, ImplementsSparse, Sparse!Spec

-----------------------------------------------------------------------------
(* The loader lays windows down apart from one another, each with its own  *)
(* bytes behind it, for every database and every filter: what              *)
(* PagedAssumption asks of Statics and inner.                              *)

DbSegment == [start : Nat, end : Nat, bytes : Seq(Bytes)]

\* Ranges of segments are not empty.
LeftForward == \A i \in DOMAIN left : left[i].start <= left[i].end

LoadInv == LoadTypeOK /\ LeftForward /\ WindowsApart /\ BytesLoaded

LEMMA RangeLenType ==
    ASSUME NEW s \in DbSegment, s.start <= s.end
    PROVE  RangeLen(s) \in Nat \ {0}
  <1>1. s.start \in Nat /\ s.end \in Nat BY DEF DbSegment
  <1> QED BY <1>1 DEF RangeLen

\* The padding fills the range up with default bytes.
LEMMA PaddingFills ==
    ASSUME NEW s \in DbSegment, s.start <= s.end
    PROVE  /\ Padding(s) \in Seq(Bytes)
           /\ Len(s.bytes) + Len(Padding(s)) >= RangeLen(s)
           /\ \A i \in 1..Len(Padding(s)) : Padding(s)[i] = DefaultByte
  <1> DEFINE short == RangeLen(s) - Len(s.bytes)
  <1>1. RangeLen(s) \in Nat /\ s.bytes \in Seq(Bytes) /\ Len(s.bytes) \in Nat
    BY RangeLenType DEF DbSegment
  <1>2. DefaultByte \in Bytes BY LoaderAssumption
  <1>3. CASE Len(s.bytes) < RangeLen(s)
    <2>1. short \in Nat BY <1>1, <1>3
    <2>2. Padding(s) = [i \in 1..short |-> DefaultByte] BY <1>3 DEF Padding
    <2> HIDE DEF short
    <2>3. Padding(s) \in Seq(Bytes) /\ Len(Padding(s)) = short BY <1>2, <2>1, <2>2
    <2>4. Len(s.bytes) + short = RangeLen(s) BY <1>1 DEF short
    <2> QED BY <2>1, <2>2, <2>3, <2>4
  <1>4. CASE ~(Len(s.bytes) < RangeLen(s))
    <2>1. Padding(s) = <<>> BY <1>4 DEF Padding
    <2> QED BY <1>1, <1>4, <2>1
  <1> QED BY <1>3, <1>4

\* The backing grows at its end, by the bytes of the segment and the padding.
LEMMA LaidDown ==
    ASSUME NEW b \in Seq(Bytes), NEW s \in DbSegment, s.start <= s.end,
           NEW d, d = b \o s.bytes \o Padding(s)
    PROVE  /\ d \in Seq(Bytes)
           /\ Len(d) >= Len(b) + RangeLen(s)
           /\ \A i \in 1..Len(b) : d[i] = b[i]
           /\ \A i \in 0..(RangeLen(s) - 1) :
                 d[Len(b) + i + 1] = IF i < Len(s.bytes) THEN s.bytes[i + 1] ELSE DefaultByte
  <1> DEFINE p == Padding(s)
             t == s.bytes
  <1>1. t \in Seq(Bytes) /\ p \in Seq(Bytes) /\ Len(t) + Len(p) >= RangeLen(s)
    BY PaddingFills DEF DbSegment
  <1>2. RangeLen(s) \in Nat /\ Len(b) \in Nat /\ Len(t) \in Nat /\ Len(p) \in Nat
    BY <1>1, RangeLenType
  <1>3. \A i \in 1..Len(p) : p[i] = DefaultByte BY PaddingFills
  <1>4. d = (b \o t) \o p OBVIOUS
  <1> HIDE DEF p, t
  <1>5. b \o t \in Seq(Bytes) /\ Len(b \o t) = Len(b) + Len(t) BY <1>1
  <1>6. d \in Seq(Bytes) /\ Len(d) = Len(b) + Len(t) + Len(p) BY <1>1, <1>4, <1>5
  <1>7. \A i \in 1..Len(b) : d[i] = b[i]
    <2> SUFFICES ASSUME NEW i \in 1..Len(b) PROVE d[i] = b[i] OBVIOUS
    <2>1. (b \o t)[i] = b[i] BY <1>1
    <2>2. i \in 1..Len(b \o t) BY <1>2, <1>5
    <2> QED BY <1>1, <1>4, <1>5, <2>1, <2>2
  <1>8. \A i \in 0..(RangeLen(s) - 1) :
            d[Len(b) + i + 1] = IF i < Len(t) THEN t[i + 1] ELSE DefaultByte
    <2> SUFFICES ASSUME NEW i \in 0..(RangeLen(s) - 1)
                 PROVE  d[Len(b) + i + 1] = IF i < Len(t) THEN t[i + 1] ELSE DefaultByte
      OBVIOUS
    <2> DEFINE k == Len(b) + i + 1
    <2>1. CASE i < Len(t)
      <3>1. k \in 1..Len(b \o t) /\ ~(k <= Len(b)) /\ k - Len(b) = i + 1
            /\ k \in 1..(Len(b) + Len(t))
        BY <1>2, <1>5, <2>1
      <3> HIDE DEF k
      <3>2. d[k] = (b \o t)[k] BY <1>1, <1>4, <1>5, <3>1
      <3>3. (b \o t)[k] = t[k - Len(b)] BY <1>1, <3>1
      <3>4. d[k] = t[i + 1] BY <3>1, <3>2, <3>3
      <3> QED BY <2>1, <3>4 DEF k
    <2>2. CASE ~(i < Len(t))
      <3>1. /\ ~(k <= Len(b \o t)) /\ k - Len(b \o t) = i + 1 - Len(t)
            /\ i + 1 - Len(t) \in 1..Len(p)
            /\ k \in 1..(Len(b \o t) + Len(p))
        BY <1>1, <1>2, <1>5, <2>2
      <3> HIDE DEF k
      <3>2. d[k] = p[k - Len(b \o t)] BY <1>1, <1>4, <1>5, <3>1
      <3>3. d[k] = DefaultByte BY <1>3, <3>1, <3>2
      <3> QED BY <2>2, <3>3 DEF k
    <2> QED BY <2>1, <2>2
  <1>9. Len(d) >= Len(b) + RangeLen(s) BY <1>1, <1>2, <1>6
  <1> QED BY <1>6, <1>7, <1>8, <1>9 DEF t

LEMMA InitLoad == LoadInit => LoadInv
  <1> SUFFICES ASSUME LoadInit PROVE LoadInv OBVIOUS
  <1>1. left \in Seq(DbSegment) /\ LeftForward
    BY LoaderAssumption DEF LoadInit, DbSegment, LeftForward
  <1> QED BY <1>1 DEF LoadInit, LoadInv, LoadTypeOK, DbSegment, WindowsApart, BytesLoaded

\* A segment is laid behind the windows there are.
LEMMA LoadStep ==
    ASSUME LoadInv, NEW s \in DbSegment, s.start <= s.end, Load(s)
    PROVE  /\ windows' \subseteq [lo : Nat, hi : Nat, offset : Nat, bytes : Seq(Bytes)]
           /\ backing' \in Seq(Bytes)
           /\ WindowsApart' /\ BytesLoaded'
  <1> DEFINE w == Window(s)
  <1> USE DEF LoadInv
  <1>0. backing \in Seq(Bytes) /\ Len(backing) \in Nat BY DEF LoadTypeOK
  <1>1. /\ backing' \in Seq(Bytes) /\ Len(backing') \in Nat
        /\ Len(backing') >= Len(backing) + RangeLen(s)
        /\ \A i \in 1..Len(backing) : backing'[i] = backing[i]
        /\ \A i \in 0..(RangeLen(s) - 1) :
              backing'[Len(backing) + i + 1] =
                  IF i < Len(s.bytes) THEN s.bytes[i + 1] ELSE DefaultByte
    <2> DEFINE d == backing \o s.bytes \o Padding(s)
    <2>1. /\ d \in Seq(Bytes)
          /\ Len(d) >= Len(backing) + RangeLen(s)
          /\ \A i \in 1..Len(backing) : d[i] = backing[i]
          /\ \A i \in 0..(RangeLen(s) - 1) :
                d[Len(backing) + i + 1] = IF i < Len(s.bytes) THEN s.bytes[i + 1] ELSE DefaultByte
      BY <1>0, LaidDown
    <2>2. backing' = d BY DEF Load
    <2> HIDE DEF d
    <2>3. Len(d) \in Nat BY <2>1
    <2> QED BY <2>1, <2>2, <2>3
  <1>2. /\ w.lo = s.start /\ w.hi = 1 + s.end /\ w.offset = Len(backing) /\ w.bytes = s.bytes
        /\ w \in [lo : Nat, hi : Nat, offset : Nat, bytes : Seq(Bytes)]
    BY <1>0 DEF Window, DbSegment
  <1>3. windows' = windows \cup {w} BY DEF Load
  <1>4. /\ RangeLen(s) \in Nat \ {0} /\ w.hi - w.lo = RangeLen(s) /\ w.lo < w.hi
        /\ w.offset + (w.hi - w.lo) <= Len(backing')
    BY <1>0, <1>1, <1>2, RangeLenType DEF RangeLen, DbSegment
  <1>5. \A v \in windows :
            /\ v.lo \in Nat /\ v.hi \in Nat /\ v.offset \in Nat
            /\ v.lo < v.hi /\ v.offset + (v.hi - v.lo) <= Len(backing)
    BY DEF LoadTypeOK, WindowsApart
  <1> HIDE DEF w
  <1>6. \A v \in windows : Positions(v) \cap Positions(w) = {}
    <2> SUFFICES ASSUME NEW v \in windows, NEW i \in Positions(v), i \in Positions(w)
                 PROVE  FALSE
      OBVIOUS
    <2>1. i \in Int /\ i <= v.offset + (v.hi - v.lo) - 1 BY <1>5 DEF Positions
    <2>2. i >= Len(backing) BY <1>0, <1>2, <1>4 DEF Positions
    <2> QED BY <1>0, <1>5, <2>1, <2>2
  <1>7. WindowsApart'
    <2>1. \A v \in windows' : v.lo < v.hi /\ v.offset + (v.hi - v.lo) <= Len(backing')
      <3> SUFFICES ASSUME NEW v \in windows'
                   PROVE  v.lo < v.hi /\ v.offset + (v.hi - v.lo) <= Len(backing')
        OBVIOUS
      <3>1. CASE v = w BY <1>4, <3>1
      <3>2. CASE v \in windows BY <1>0, <1>1, <1>4, <1>5, <3>2
      <3> QED BY <1>3, <3>1, <3>2
    <2>2. \A u, v \in windows' : u # v => Positions(u) \cap Positions(v) = {}
      BY <1>3, <1>6 DEF WindowsApart
    <2> QED BY <2>1, <2>2 DEF WindowsApart, Positions
  <1>8. BytesLoaded'
    <2> SUFFICES ASSUME NEW v \in windows', NEW i \in 0..(v.hi - v.lo - 1)
                 PROVE  /\ v.offset + i + 1 \in DOMAIN backing'
                        /\ backing'[v.offset + i + 1] =
                              IF i < Len(v.bytes) THEN v.bytes[i + 1] ELSE DefaultByte
      BY DEF BytesLoaded
    <2>1. DOMAIN backing' = 1..Len(backing') BY <1>1
    <2>2. CASE v = w
      <3>1. i \in 0..(RangeLen(s) - 1) /\ v.offset = Len(backing) /\ v.bytes = s.bytes
        BY <1>2, <1>4, <2>2
      <3>2. v.offset + i + 1 \in 1..Len(backing') BY <1>0, <1>1, <1>4, <3>1
      <3> QED BY <1>1, <2>1, <3>1, <3>2
    <2>3. CASE v \in windows
      <3>1. backing[v.offset + i + 1] = IF i < Len(v.bytes) THEN v.bytes[i + 1] ELSE DefaultByte
        BY <2>3 DEF BytesLoaded
      <3>3. /\ v.lo \in Nat /\ v.hi \in Nat /\ v.offset \in Nat
            /\ v.lo < v.hi /\ v.offset + (v.hi - v.lo) <= Len(backing)
        BY <1>5, <2>3
      <3>4. i \in Nat /\ i < v.hi - v.lo BY <3>3
      <3>5. Len(backing) \in Nat /\ Len(backing') \in Nat /\ Len(backing) <= Len(backing')
        BY <1>0, <1>1, <1>4
      <3>2. v.offset + i + 1 \in 1..Len(backing) /\ v.offset + i + 1 \in 1..Len(backing')
        <4> DEFINE o == v.offset
                   d == v.hi - v.lo
                   m == Len(backing)
                   n == Len(backing')
        <4>1. /\ o \in Nat /\ d \in Int /\ m \in Nat /\ n \in Nat
              /\ i \in Nat /\ i < d /\ o + d <= m /\ m <= n
          BY <3>3, <3>4, <3>5
        <4> HIDE DEF o, d, m, n
        <4>2. o + i + 1 \in 1..m /\ o + i + 1 \in 1..n
          BY ONLY <4>1
        <4> QED BY <4>2 DEF o, m, n
      <3> QED BY <1>1, <2>1, <3>1, <3>2
    <2> QED BY <1>3, <2>2, <2>3
  <1> QED BY <1>1, <1>2, <1>3, <1>7, <1>8 DEF LoadTypeOK

LEMMA LoaderStep == LoadInv /\ [LoadNext]_loadVars => LoadInv'
  <1> SUFFICES ASSUME LoadInv, [LoadNext]_loadVars PROVE LoadInv' OBVIOUS
  <1>1. CASE LoadNext
    <2>1. left \in Seq(DbSegment) /\ left # <<>> BY <1>1 DEF LoadInv, LoadTypeOK, DbSegment, LoadNext
    <2>2. Head(left) = left[1] /\ 1 \in DOMAIN left /\ left[1] \in DbSegment BY <2>1
    <2>3. Head(left) \in DbSegment /\ Head(left).start <= Head(left).end
      BY <2>2 DEF LoadInv, LeftForward
    <2>4. Tail(left) \in Seq(DbSegment) /\ left' = Tail(left) BY <1>1, <2>1 DEF LoadNext
    <2>5. LeftForward'
      <3> SUFFICES ASSUME NEW i \in DOMAIN Tail(left)
                   PROVE  Tail(left)[i].start <= Tail(left)[i].end
        BY <2>4 DEF LeftForward
      <3>1. Tail(left)[i] = left[i + 1] /\ i + 1 \in DOMAIN left BY <2>1
      <3> QED BY <3>1 DEF LoadInv, LeftForward
    <2>6. CASE Load(Head(left)) BY <2>3, <2>4, <2>5, <2>6, LoadStep DEF LoadInv, LoadTypeOK, DbSegment
    <2>7. CASE UNCHANGED <<windows, backing>>
      BY <2>4, <2>5, <2>7 DEF LoadInv, LoadTypeOK, DbSegment, WindowsApart, BytesLoaded, Positions
    <2> QED BY <1>1, <2>6, <2>7 DEF LoadNext
  <1>2. CASE UNCHANGED loadVars
    BY <1>2 DEF loadVars, LoadInv, LoadTypeOK, LeftForward, WindowsApart, BytesLoaded, Positions
  <1> QED BY <1>1, <1>2

LEMMA LoaderInvariant == LoadSpec => []LoadInv
  <1>1. LoadInit => LoadInv BY InitLoad
  <1>2. LoadInv /\ [LoadNext]_loadVars => LoadInv' BY LoaderStep
  <1> QED BY <1>1, <1>2, PTL DEF LoadSpec

\* No two segments share a byte of the backing, and none reaches past its end,
\* whatever their ranges and bytes (lib.rs:52-70).
THEOREM LoaderWindowsApart == LoadSpec => []WindowsApart
  <1>1. LoadInv => WindowsApart BY DEF LoadInv
  <1> QED BY <1>1, LoaderInvariant, PTL

\* Every address of a segment shows the segment's byte, or the default past its
\* last one, and segments laid down later do not change that (lib.rs:52-70).
THEOREM LoaderBytesLoaded == LoadSpec => []BytesLoaded
  <1>1. LoadInv => BytesLoaded BY DEF LoadInv
  <1> QED BY <1>1, LoaderInvariant, PTL
=============================================================================
