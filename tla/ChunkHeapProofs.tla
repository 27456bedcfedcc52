--------------------------- MODULE ChunkHeapProofs ---------------------------
(***************************************************************************)
(* ChunkHeap proved for every size of the backing and every set of inputs. *)
(* Each operation on the chunk list replaces a few neighbouring chunks by  *)
(* one or two that cover the same bytes; what such a splice preserves is   *)
(* proved once.                                                            *)
(***************************************************************************)
EXTENDS HeapSnapshots, SequenceTheorems, WellFoundedInduction, TLAPS

-----------------------------------------------------------------------------
(* The copies of CopyRegion are memmoves.                                  *)

\* In the direction copy_values chooses, the loop is a memmove.
LEMMA OverlapCopyIsMoved ==
    ASSUME NEW b, NEW s \in Nat, NEW d \in Nat, NEW n \in Nat
    PROVE  OverlapCopy(b, s, d, n) = Moved(b, s, d, n)
<1>1. CASE d < s
  BY <1>1 DEF OverlapCopy, AscendingCopy, Moved
<1>2. CASE ~ (d < s)
  BY <1>2 DEF OverlapCopy, DescendingCopy, Moved
<1> QED
  BY <1>1, <1>2

\* A copy that does not panic is a memmove (flat.rs:166-190).
LEMMA CopiedIsMoved ==
    ASSUME NEW b, NEW s \in Nat, NEW d \in Nat, NEW n \in Nat
    PROVE  Copied(b, s, d, n) = Moved(b, s, d, n)
BY OverlapCopyIsMoved DEF Copied

LEMMA MovedType ==
    ASSUME NEW V, NEW b \in [Cells -> V], NEW s \in Nat, NEW d \in Nat, NEW n \in Nat,
           s + n <= Size
    PROVE  Moved(b, s, d, n) \in [Cells -> V]
<1> SUFFICES ASSUME NEW c \in Cells, c \in Extent(d, n)
             PROVE  s + (c - d) \in Cells
  BY DEF Moved
<1> QED
  BY SizeAssumption DEF Cells, Extent

-----------------------------------------------------------------------------
(* Sequences.                                                              *)

LEMMA InsertAtElements ==
    ASSUME NEW S, NEW s \in Seq(S), NEW i \in 1..(Len(s) + 1), NEW e \in S
    PROVE  /\ InsertAt(s, i, e) \in Seq(S)
           /\ Len(InsertAt(s, i, e)) = Len(s) + 1
           /\ \A j \in 1..(Len(s) + 1) :
                 InsertAt(s, i, e)[j] = IF j < i THEN s[j]
                                        ELSE IF j = i THEN e ELSE s[j - 1]
<1> DEFINE a == SubSeq(s, 1, i - 1)
           b == SubSeq(s, i, Len(s))
           t == a \o <<e>>
<1>1. /\ a \in Seq(S) /\ Len(a) = i - 1
      /\ \A j \in 1..(i - 1) : a[j] = s[j]
  OBVIOUS
<1>2. /\ b \in Seq(S) /\ Len(b) = Len(s) - i + 1
      /\ \A j \in 1..(Len(s) - i + 1) : b[j] = s[i + j - 1]
  OBVIOUS
<1> HIDE DEF a, b
<1>3. /\ t \in Seq(S) /\ Len(t) = i
      /\ \A j \in 1..i : t[j] = IF j < i THEN s[j] ELSE e
  BY <1>1
<1> HIDE DEF t
<1>4. /\ t \o b \in Seq(S) /\ Len(t \o b) = Len(s) + 1
      /\ \A j \in 1..(Len(s) + 1) :
            (t \o b)[j] = IF j <= i THEN t[j] ELSE b[j - i]
  <2>1. Len(t) + Len(b) = Len(s) + 1
    BY <1>2, <1>3
  <2>2. t \in Seq(S) /\ b \in Seq(S)
    BY <1>2, <1>3
  <2>3. \A j \in 1..(Len(s) + 1) :
            (t \o b)[j] = IF j <= Len(t) THEN t[j] ELSE b[j - Len(t)]
    BY <2>1, <2>2, ConcatProperties
  <2>4. t \o b \in Seq(S) /\ Len(t \o b) = Len(s) + 1
    BY <2>1, <2>2, ConcatProperties
  <2> QED
    BY <2>3, <2>4, <1>3
<1>5. InsertAt(s, i, e) = t \o b
  BY DEF InsertAt, a, b, t
<1> DEFINE r == t \o b
<1>6. ASSUME NEW j \in 1..(Len(s) + 1)
      PROVE  r[j] = IF j < i THEN s[j] ELSE IF j = i THEN e ELSE s[j - 1]
  <2>1. r[j] = IF j <= i THEN t[j] ELSE b[j - i]
    BY <1>4
  <2> HIDE DEF r
  <2>2. CASE j <= i
    <3>1. j \in 1..i BY <2>2
    <3> QED BY <1>3, <2>1, <2>2, <3>1
  <2>3. CASE ~(j <= i)
    <3>1. j - i \in 1..(Len(s) - i + 1) /\ i + (j - i) - 1 = j - 1 /\ ~(j < i) /\ j # i
      BY <2>3
    <3>2. b[j - i] = s[j - 1] BY <1>2, <3>1
    <3> QED BY <2>1, <2>3, <3>1, <3>2
  <2> QED BY <2>2, <2>3
<1>7. r \in Seq(S) /\ Len(r) = Len(s) + 1 /\ InsertAt(s, i, e) = r
  BY <1>4, <1>5
<1> HIDE DEF r
<1> QED
  BY <1>6, <1>7

LEMMA RemoveAtElements ==
    ASSUME NEW S, NEW s \in Seq(S), NEW i \in 1..Len(s)
    PROVE  /\ RemoveAt(s, i) \in Seq(S)
           /\ Len(RemoveAt(s, i)) = Len(s) - 1
           /\ \A j \in 1..(Len(s) - 1) :
                 RemoveAt(s, i)[j] = IF j < i THEN s[j] ELSE s[j + 1]
<1> DEFINE a == SubSeq(s, 1, i - 1)
           b == SubSeq(s, i + 1, Len(s))
<1>1. /\ a \in Seq(S) /\ Len(a) = i - 1
      /\ \A j \in 1..(i - 1) : a[j] = s[j]
  OBVIOUS
<1>2. /\ b \in Seq(S) /\ Len(b) = Len(s) - i
      /\ \A j \in 1..(Len(s) - i) : b[j] = s[i + j]
  OBVIOUS
<1> HIDE DEF a, b
<1>3. /\ a \o b \in Seq(S) /\ Len(a \o b) = Len(s) - 1
      /\ \A j \in 1..(Len(s) - 1) :
            (a \o b)[j] = IF j < i THEN a[j] ELSE b[j - i + 1]
  <2>1. Len(a) + Len(b) = Len(s) - 1
    BY <1>1, <1>2
  <2>2. \A j \in 1..(Len(s) - 1) :
            (a \o b)[j] = IF j <= Len(a) THEN a[j] ELSE b[j - Len(a)]
    BY SMTT(60), <2>1, <1>1, <1>2, ConcatProperties
  <2>3. \A j \in 1..(Len(s) - 1) : (j < i <=> j <= Len(a)) /\ j - Len(a) = j - i + 1
    BY SMTT(60), <1>1
  <2>4. a \o b \in Seq(S) /\ Len(a \o b) = Len(s) - 1
    BY <2>1, <1>1, <1>2, ConcatProperties
  <2> QED
    BY <2>2, <2>3, <2>4
<1>4. RemoveAt(s, i) = a \o b
  BY DEF RemoveAt, a, b
<1> QED
  BY SMTT(60), <1>1, <1>2, <1>3, <1>4

LEMMA ExceptElements ==
    ASSUME NEW S, NEW s \in Seq(S), NEW i \in 1..Len(s), NEW e \in S
    PROVE  /\ [s EXCEPT ![i] = e] \in Seq(S)
           /\ Len([s EXCEPT ![i] = e]) = Len(s)
           /\ \A j \in 1..Len(s) : [s EXCEPT ![i] = e][j] = IF j = i THEN e ELSE s[j]
OBVIOUS

-----------------------------------------------------------------------------
(* Lists of chunks.                                                        *)

\* The chunks of cs partition the backing.
Tiles(cs) ==
    /\ cs \in Seq(Chunk) /\ Len(cs) >= 1
    /\ cs[1].offset = 0
    /\ End(cs[Len(cs)]) = Size
    /\ \A i \in 1..(Len(cs) - 1) : End(cs[i]) = cs[i + 1].offset
    /\ \A i, j \in 1..Len(cs) : i < j => End(cs[i]) <= cs[j].offset

Merged(cs) == \A i \in 1..(Len(cs) - 1) : cs[i].taken \/ cs[i + 1].taken

RegionOf(c) == Region(c.offset, c.size - 1)

\* ds is cs with the chunks p..q replaced by a, or by a and b when n = 2,
\* which cover the same bytes.
Splice(cs, ds, p, q, n, a, b) ==
    /\ p \in 1..Len(cs) /\ q \in p..Len(cs) /\ n \in {1, 2}
    /\ a \in Chunk /\ b \in Chunk /\ ds \in Seq(Chunk)
    /\ Len(ds) = Len(cs) - (q - p + 1) + n
    /\ \A k \in 1..(p - 1) : ds[k] = cs[k]
    /\ ds[p] = a
    /\ n = 2 => ds[p + 1] = b /\ End(a) = b.offset
    /\ \A k \in (p + n)..Len(ds) : ds[k] = cs[k - n + (q - p + 1)]
    /\ a.offset = cs[p].offset
    /\ n = 1 => End(a) = End(cs[q])
    /\ n = 2 => End(b) = End(cs[q])

LEMMA ChunkFields ==
    ASSUME NEW c \in Chunk
    PROVE  /\ c.offset \in Nat /\ c.size \in Nat /\ c.size >= 1
           /\ c.taken \in BOOLEAN
           /\ End(c) = c.offset + c.size /\ End(c) \in Nat /\ c.offset < End(c)
BY SizeAssumption DEF Chunk, Cells, End

LEMMA TilesFields ==
    ASSUME NEW cs, Tiles(cs)
    PROVE  /\ Len(cs) \in Nat
           /\ \A k \in 1..Len(cs) :
                 /\ cs[k] \in Chunk
                 /\ cs[k].offset \in Nat /\ End(cs[k]) \in Nat
                 /\ cs[k].offset < End(cs[k])
BY ChunkFields DEF Tiles

\* Where the chunks of a spliced list lie.
LEMMA SplicePlaces ==
    ASSUME NEW cs, NEW ds, NEW p, NEW q, NEW n, NEW a, NEW b,
           Tiles(cs), Splice(cs, ds, p, q, n, a, b)
    PROVE  /\ \A k \in 1..(p - 1) : End(ds[k]) <= cs[p].offset
           /\ \A k \in p..(p + n - 1) :
                 cs[p].offset <= ds[k].offset /\ End(ds[k]) <= End(cs[q])
           /\ \A k \in (p + n)..Len(ds) : End(cs[q]) <= ds[k].offset
<1>1. /\ p \in Int /\ q \in Int /\ n \in {1, 2} /\ Len(cs) \in Nat /\ Len(ds) \in Int
      /\ 1 <= p /\ p <= q /\ q <= Len(cs)
      /\ Len(ds) = Len(cs) - (q - p + 1) + n
  BY TilesFields DEF Splice
<1>2. ASSUME NEW k \in 1..(p - 1) PROVE End(ds[k]) <= cs[p].offset
  <2>1. ds[k] = cs[k]
    BY <1>2 DEF Splice
  <2>2. k \in 1..Len(cs) /\ p \in 1..Len(cs) /\ k < p
    BY <1>1, <1>2
  <2>3. End(cs[k]) <= cs[p].offset
    BY <2>2 DEF Tiles
  <2> QED BY <2>1, <2>3
<1>3. ASSUME NEW k \in p..(p + n - 1)
      PROVE  cs[p].offset <= ds[k].offset /\ End(ds[k]) <= End(cs[q])
  <2>1. /\ a.offset \in Nat /\ b.offset \in Nat /\ End(a) \in Nat /\ End(b) \in Nat
        /\ a.offset < End(a) /\ b.offset < End(b)
    BY ChunkFields DEF Splice
  <2>2. /\ a.offset = cs[p].offset /\ ds[p] = a
        /\ n = 1 => End(a) = End(cs[q])
        /\ n = 2 => ds[p + 1] = b /\ End(a) = b.offset /\ End(b) = End(cs[q])
    BY DEF Splice
  <2>3. k = p \/ (n = 2 /\ k = p + 1)
    BY <1>1, <1>3
  <2> QED BY <1>1, <2>1, <2>2, <2>3
<1>4. ASSUME NEW k \in (p + n)..Len(ds) PROVE End(cs[q]) <= ds[k].offset
  <2> DEFINE m == k - n + (q - p + 1)
  <2>1. m \in 1..Len(cs) /\ q \in 1..Len(cs) /\ q < m
    BY <1>1, <1>4
  <2>2. ds[k] = cs[m]
    BY <1>4 DEF Splice
  <2>3. End(cs[q]) <= cs[m].offset
    BY <2>1 DEF Tiles
  <2> QED
    BY <2>2, <2>3
<1> QED
  BY <1>2, <1>3, <1>4

\* A chunk of a spliced list is an old chunk or one of the new ones.
LEMMA SpliceElement ==
    ASSUME NEW cs, NEW ds, NEW p, NEW q, NEW n, NEW a, NEW b,
           Tiles(cs), Splice(cs, ds, p, q, n, a, b), NEW k \in 1..Len(ds)
    PROVE  \/ /\ k < p /\ k \in 1..Len(cs) /\ ds[k] = cs[k]
           \/ /\ k = p /\ ds[k] = a
           \/ /\ n = 2 /\ k = p + 1 /\ ds[k] = b
           \/ /\ k >= p + n /\ k - n + (q - p + 1) \in (q + 1)..Len(cs)
              /\ ds[k] = cs[k - n + (q - p + 1)]
<1>1. /\ p \in Int /\ q \in Int /\ n \in {1, 2} /\ Len(cs) \in Nat /\ Len(ds) \in Int
      /\ 1 <= p /\ p <= q /\ q <= Len(cs)
      /\ Len(ds) = Len(cs) - (q - p + 1) + n
  BY TilesFields DEF Splice
<1>2. CASE k < p
  <2>1. k \in 1..(p - 1) /\ k \in 1..Len(cs)
    BY <1>1, <1>2
  <2> QED BY <2>1, <1>2 DEF Splice
<1>3. CASE k = p
  BY <1>3 DEF Splice
<1>4. CASE n = 2 /\ k = p + 1
  BY <1>4 DEF Splice
<1>5. CASE k >= p + n
  <2>1. k \in (p + n)..Len(ds) /\ k - n + (q - p + 1) \in (q + 1)..Len(cs)
    BY <1>1, <1>5
  <2> QED BY <2>1, <1>5 DEF Splice
<1> QED
  BY <1>1, <1>2, <1>3, <1>4, <1>5

LEMMA SpliceTiles ==
    ASSUME NEW cs, NEW ds, NEW p, NEW q, NEW n, NEW a, NEW b,
           Tiles(cs), Splice(cs, ds, p, q, n, a, b)
    PROVE  Tiles(ds)
<1>0. /\ p \in Int /\ q \in Int /\ n \in {1, 2} /\ Len(cs) \in Nat /\ Len(ds) \in Int
      /\ 1 <= p /\ p <= q /\ q <= Len(cs)
      /\ Len(ds) = Len(cs) - (q - p + 1) + n
  BY TilesFields DEF Splice
<1>1. /\ ds \in Seq(Chunk) /\ ds[p] = a /\ a.offset = cs[p].offset
      /\ n = 1 => End(a) = End(cs[q])
      /\ n = 2 => ds[p + 1] = b /\ End(a) = b.offset /\ End(b) = End(cs[q])
  BY DEF Splice
<1>2. \A k \in 1..Len(ds) : ds[k].offset \in Nat /\ End(ds[k]) \in Nat
  BY <1>1, ChunkFields
<1>3. ds[1].offset = 0
  <2>1. CASE p = 1
    BY <2>1, <1>1 DEF Tiles
  <2>2. CASE p # 1
    <3>1. 1 \in 1..(p - 1)
      BY <2>2, <1>0
    <3> QED BY <3>1 DEF Splice, Tiles
  <2> QED BY <2>1, <2>2
<1>4. End(ds[Len(ds)]) = Size
  <2>1. CASE q = Len(cs)
    <3>1. Len(ds) = p + n - 1
      BY <1>0, <2>1
    <3>2. End(cs[q]) = Size
      BY <2>1 DEF Tiles
    <3>3. ds[p + n - 1] = IF n = 1 THEN a ELSE b
      BY SMTT(60), <1>0, <1>1
    <3> QED
      BY <3>1, <3>2, <3>3, <1>0, <1>1
  <2>2. CASE q # Len(cs)
    <3>1. Len(ds) \in (p + n)..Len(ds) /\ Len(ds) - n + (q - p + 1) = Len(cs)
      BY <1>0, <2>2
    <3>2. ds[Len(ds)] = cs[Len(cs)]
      BY <3>1 DEF Splice
    <3> QED
      BY <3>2 DEF Tiles
  <2> QED BY <2>1, <2>2
<1>5. ASSUME NEW i \in 1..(Len(ds) - 1) PROVE End(ds[i]) = ds[i + 1].offset
  <2>0. i \in 1..Len(ds) /\ i + 1 \in 1..Len(ds)
    BY <1>0, <1>5
  <2>1. CASE i + 1 <= p
    <3>1. i \in 1..(p - 1) /\ i \in 1..(Len(cs) - 1)
      BY <1>0, <2>1, <1>5
    <3>2. ds[i] = cs[i] /\ End(cs[i]) = cs[i + 1].offset
      BY <3>1 DEF Splice, Tiles
    <3>3. ds[i + 1].offset = cs[i + 1].offset
      <4>1. CASE i + 1 = p
        BY <4>1, <1>1
      <4>2. CASE i + 1 # p
        <5>1. i + 1 \in 1..(p - 1)
          BY <4>2, <2>1, <1>0, <3>1
        <5> QED BY <5>1 DEF Splice
      <4> QED BY <4>1, <4>2
    <3> QED BY <3>2, <3>3
  <2>2. CASE i = p /\ n = 2
    BY <2>2, <1>1
  <2>3. CASE i = p + n - 1
    <3>1. i + 1 \in (p + n)..Len(ds) /\ (i + 1) - n + (q - p + 1) = q + 1
      BY <1>0, <2>3, <2>0
    <3>2. ds[i + 1] = cs[q + 1]
      BY <3>1 DEF Splice
    <3>3. End(ds[i]) = End(cs[q])
      <4>1. CASE n = 1
        BY <4>1, <1>0, <1>1, <2>3
      <4>2. CASE n = 2
        BY <4>2, <1>0, <1>1, <2>3
      <4> QED BY <4>1, <4>2, <1>0
    <3>4. q \in 1..(Len(cs) - 1)
      BY <1>0, <2>3, <2>0
    <3>5. End(cs[q]) = cs[q + 1].offset
      BY <3>4 DEF Tiles
    <3> QED BY <3>2, <3>3, <3>5
  <2>4. CASE i >= p + n
    <3> DEFINE m == i - n + (q - p + 1)
    <3>1. /\ m \in 1..(Len(cs) - 1) /\ m + 1 = (i + 1) - n + (q - p + 1)
          /\ i \in (p + n)..Len(ds) /\ i + 1 \in (p + n)..Len(ds)
      BY <1>0, <2>0, <2>4
    <3>2. ds[i] = cs[m] /\ ds[i + 1] = cs[m + 1]
      BY <3>1 DEF Splice
    <3>3. End(cs[m]) = cs[m + 1].offset
      BY <3>1 DEF Tiles
    <3> QED
      BY <3>2, <3>3
  <2> QED
    BY <1>0, <1>5, <2>1, <2>2, <2>3, <2>4
<1>6. ASSUME NEW i \in 1..Len(ds), NEW j \in 1..Len(ds), i < j
      PROVE  End(ds[i]) <= ds[j].offset
  <2>0. /\ cs[p].offset \in Nat /\ End(cs[q]) \in Nat /\ cs[p].offset < End(cs[q])
        /\ ds[i].offset \in Nat /\ ds[j].offset \in Nat
        /\ End(ds[i]) \in Nat /\ End(ds[j]) \in Nat
    <3>1. p \in 1..Len(cs) /\ q \in 1..Len(cs)
      BY <1>0
    <3>2. p < q => End(cs[p]) <= cs[q].offset
      BY <3>1 DEF Tiles
    <3> QED
      BY <1>0, <1>2, <1>6, <3>1, <3>2, TilesFields
  <2>p. /\ \A k \in 1..(p - 1) : End(ds[k]) <= cs[p].offset
        /\ \A k \in p..(p + n - 1) :
              cs[p].offset <= ds[k].offset /\ End(ds[k]) <= End(cs[q])
        /\ \A k \in (p + n)..Len(ds) : End(cs[q]) <= ds[k].offset
    BY SplicePlaces
  <2>1. CASE j < p
    <3>1. i \in 1..(p - 1) /\ j \in 1..(p - 1) /\ i \in 1..Len(cs) /\ j \in 1..Len(cs)
      BY <1>0, <1>6, <2>1
    <3>2. ds[i] = cs[i] /\ ds[j] = cs[j]
      BY <3>1 DEF Splice
    <3> QED BY <3>1, <3>2, <1>6 DEF Tiles
  <2>2. CASE i < p /\ p <= j
    <3>1. End(ds[i]) <= cs[p].offset
      BY <1>0, <1>6, <2>2, <2>p
    <3>2. cs[p].offset <= ds[j].offset
      <4>1. CASE j < p + n
        <5>1. j \in p..(p + n - 1)
          BY <1>0, <2>2, <4>1
        <5> QED BY <5>1, <2>p
      <4>2. CASE j >= p + n
        <5>1. j \in (p + n)..Len(ds)
          BY <1>0, <4>2
        <5>2. End(cs[q]) <= ds[j].offset
          BY <5>1, <2>p
        <5> QED BY <5>2, <2>0
      <4> QED BY <4>1, <4>2, <1>0, <1>6
    <3> QED BY <3>1, <3>2, <2>0
  <2>3. CASE p <= i /\ j < p + n
    <3>1. n = 2 /\ i = p /\ j = p + 1
      BY <1>0, <1>6, <2>3
    <3> QED BY <3>1, <1>1, <2>0
  <2>4. CASE p <= i /\ i < p + n /\ p + n <= j
    <3>1. End(ds[i]) <= End(cs[q]) /\ End(cs[q]) <= ds[j].offset
      BY <1>0, <1>6, <2>4, <2>p
    <3> QED BY <3>1, <2>0
  <2>5. CASE p + n <= i
    <3> DEFINE k == i - n + (q - p + 1)
               m == j - n + (q - p + 1)
    <3>1. /\ k \in 1..Len(cs) /\ m \in 1..Len(cs) /\ k < m
          /\ i \in (p + n)..Len(ds) /\ j \in (p + n)..Len(ds)
      BY <1>0, <1>6, <2>5
    <3>2. ds[i] = cs[k] /\ ds[j] = cs[m]
      BY <3>1 DEF Splice
    <3> HIDE DEF k, m
    <3> QED BY <3>1, <3>2 DEF Tiles
  <2> QED
    BY <1>0, <1>6, <2>1, <2>2, <2>3, <2>4, <2>5
<1>7. Len(ds) >= 1
  BY <1>0
<1> QED
  BY <1>1, <1>3, <1>4, <1>5, <1>6, <1>7 DEF Tiles

LEMMA SpliceMerged ==
    ASSUME NEW cs, NEW ds, NEW p, NEW q, NEW n, NEW a, NEW b,
           Tiles(cs), Splice(cs, ds, p, q, n, a, b), Merged(cs),
           p = 1 \/ cs[p - 1].taken \/ a.taken,
           q = Len(cs) \/ cs[q + 1].taken \/ IF n = 1 THEN a.taken ELSE b.taken,
           n = 2 => a.taken \/ b.taken
    PROVE  Merged(ds)
<1>0. /\ p \in Int /\ q \in Int /\ n \in {1, 2} /\ Len(cs) \in Nat /\ Len(ds) \in Int
      /\ 1 <= p /\ p <= q /\ q <= Len(cs)
      /\ Len(ds) = Len(cs) - (q - p + 1) + n
  BY TilesFields DEF Splice
<1>1. ds[p] = a /\ (n = 2 => ds[p + 1] = b)
  BY DEF Splice
<1> SUFFICES ASSUME NEW i \in 1..(Len(ds) - 1) PROVE ds[i].taken \/ ds[i + 1].taken
  BY DEF Merged
<1>2. CASE i + 1 < p
  <2>1. i \in 1..(p - 1) /\ i + 1 \in 1..(p - 1) /\ i \in 1..(Len(cs) - 1)
    BY <1>0, <1>2
  <2>2. ds[i] = cs[i] /\ ds[i + 1] = cs[i + 1]
    BY <2>1 DEF Splice
  <2> QED BY <2>1, <2>2 DEF Merged
<1>3. CASE i + 1 = p
  <2>1. i \in 1..(p - 1) /\ i = p - 1 /\ p # 1
    BY <1>0, <1>3
  <2>2. ds[i] = cs[p - 1]
    BY <2>1 DEF Splice
  <2> QED BY <2>1, <2>2, <1>1, <1>3
<1>4. CASE i = p /\ n = 2
  BY <1>4, <1>1
<1>5. CASE i = p + n - 1
  <2>1. i + 1 \in (p + n)..Len(ds) /\ (i + 1) - n + (q - p + 1) = q + 1 /\ q # Len(cs)
    BY <1>0, <1>5
  <2>2. ds[i + 1] = cs[q + 1]
    BY <2>1 DEF Splice
  <2>3. ds[i] = IF n = 1 THEN a ELSE b
    BY <1>0, <1>1, <1>5
  <2> QED BY <2>1, <2>2, <2>3, <1>0
<1>6. CASE i >= p + n
  <2> DEFINE m == i - n + (q - p + 1)
  <2>1. /\ m \in 1..(Len(cs) - 1) /\ m + 1 = (i + 1) - n + (q - p + 1)
        /\ i \in (p + n)..Len(ds) /\ i + 1 \in (p + n)..Len(ds)
    BY <1>0, <1>6
  <2>2. ds[i] = cs[m] /\ ds[i + 1] = cs[m + 1]
    BY <2>1 DEF Splice
  <2> QED BY <2>1, <2>2 DEF Merged
<1> QED
  BY <1>0, <1>2, <1>3, <1>4, <1>5, <1>6

-----------------------------------------------------------------------------
(* The shapes of splice the code uses.                                     *)

LEMMA ChunkMade ==
    ASSUME NEW o \in Nat, NEW n \in Nat \ {0}, o + n <= Size
    PROVE  /\ Taken(o, n) \in Chunk /\ Free(o, n) \in Chunk
           /\ End(Taken(o, n)) = o + n /\ End(Free(o, n)) = o + n
           /\ Taken(o, n).taken /\ ~Free(o, n).taken
           /\ Taken(o, n).offset = o /\ Free(o, n).offset = o
           /\ Taken(o, n).size = n /\ Free(o, n).size = n
BY SizeAssumption DEF Taken, Free, Chunk, Cells, End

LEMMA TilesBounds ==
    ASSUME NEW cs, Tiles(cs)
    PROVE  /\ \A k \in 1..Len(cs) :
                 /\ cs[k] \in Chunk
                 /\ cs[k].offset \in Nat /\ cs[k].size \in Nat \ {0}
                 /\ cs[k].taken \in BOOLEAN
                 /\ End(cs[k]) = cs[k].offset + cs[k].size /\ End(cs[k]) <= Size
           /\ \A k \in 1..(Len(cs) - 1) : cs[k].offset + cs[k].size = cs[k + 1].offset
           /\ Len(cs) \in Nat \ {0} /\ DOMAIN cs = 1..Len(cs)
           /\ cs \in Seq(Chunk)
<1>1. cs \in Seq(Chunk) /\ Len(cs) \in Nat \ {0} /\ DOMAIN cs = 1..Len(cs)
  BY DEF Tiles
<1>2. \A k \in 1..Len(cs) :
         /\ cs[k] \in Chunk
         /\ cs[k].offset \in Nat /\ cs[k].size \in Nat \ {0}
         /\ cs[k].taken \in BOOLEAN
         /\ End(cs[k]) = cs[k].offset + cs[k].size
  BY <1>1, ChunkFields
<1>3. ASSUME NEW k \in 1..Len(cs) PROVE End(cs[k]) <= Size
  <2>1. End(cs[Len(cs)]) = Size
    BY DEF Tiles
  <2>2. CASE k < Len(cs)
    <3>1. Len(cs) \in 1..Len(cs) /\ End(cs[k]) <= cs[Len(cs)].offset
      BY <1>1, <2>2 DEF Tiles
    <3>2. /\ cs[Len(cs)].offset \in Nat /\ cs[Len(cs)].size \in Nat
          /\ Size = cs[Len(cs)].offset + cs[Len(cs)].size
      BY <1>2, <2>1, <3>1
    <3>3. End(cs[k]) \in Nat
      BY <1>2
    <3> QED BY <3>1, <3>2, <3>3
  <2>3. CASE k = Len(cs)
    BY <2>1, <2>3, SizeAssumption
  <2>4. k < Len(cs) \/ k = Len(cs)
    <3>1. Len(cs) \in Nat
      BY <1>1
    <3> QED BY <3>1
  <2> QED BY <2>2, <2>3, <2>4
<1>4. \A k \in 1..(Len(cs) - 1) : cs[k].offset + cs[k].size = cs[k + 1].offset
  <2>1. \A k \in 1..(Len(cs) - 1) : End(cs[k]) = cs[k + 1].offset /\ k \in 1..Len(cs)
    BY <1>1 DEF Tiles
  <2> QED BY <1>2, <2>1
<1> QED BY <1>1, <1>2, <1>3, <1>4

LEMMA SpliceReplace ==
    ASSUME NEW cs, Tiles(cs), NEW i \in 1..Len(cs), NEW a \in Chunk,
           a.offset = cs[i].offset, End(a) = End(cs[i])
    PROVE  Splice(cs, [cs EXCEPT ![i] = a], i, i, 1, a, a)
<1> DEFINE ds == [cs EXCEPT ![i] = a]
<1>1. /\ ds \in Seq(Chunk) /\ Len(ds) = Len(cs)
      /\ \A j \in 1..Len(cs) : ds[j] = IF j = i THEN a ELSE cs[j]
  BY TilesBounds, ExceptElements
<1>2. Len(cs) \in Nat
  BY TilesBounds
<1> HIDE DEF ds
<1>3. \A k \in 1..(i - 1) : ds[k] = cs[k]
  BY <1>1, <1>2
<1>4. \A k \in (i + 1)..Len(ds) : ds[k] = cs[k - 1 + (i - i + 1)]
  BY <1>1, <1>2
<1>5. Splice(cs, ds, i, i, 1, a, a)
  BY <1>1, <1>2, <1>3, <1>4 DEF Splice
<1> QED BY <1>5 DEF ds

LEMMA SpliceSplit ==
    ASSUME NEW cs, Tiles(cs), NEW i \in 1..Len(cs), NEW a \in Chunk, NEW b \in Chunk,
           a.offset = cs[i].offset, End(a) = b.offset, End(b) = End(cs[i])
    PROVE  Splice(cs, InsertAt([cs EXCEPT ![i] = a], i + 1, b), i, i, 2, a, b)
<1> DEFINE es == [cs EXCEPT ![i] = a]
           ds == InsertAt(es, i + 1, b)
<1>1. /\ es \in Seq(Chunk) /\ Len(es) = Len(cs)
      /\ \A j \in 1..Len(cs) : es[j] = IF j = i THEN a ELSE cs[j]
  BY TilesBounds, ExceptElements
<1>2. Len(cs) \in Nat
  BY TilesBounds
<1> HIDE DEF es
<1>3. i + 1 \in 1..(Len(es) + 1)
  BY <1>1, <1>2
<1> HIDE DEF ds
<1>4. /\ ds \in Seq(Chunk) /\ Len(ds) = Len(es) + 1
      /\ \A j \in 1..(Len(es) + 1) :
            ds[j] = IF j < i + 1 THEN es[j] ELSE IF j = i + 1 THEN b ELSE es[j - 1]
  <2> DEFINE m == i + 1
  <2>1. m \in 1..(Len(es) + 1)
    BY <1>3
  <2> HIDE DEF m
  <2>2. /\ InsertAt(es, m, b) \in Seq(Chunk)
        /\ Len(InsertAt(es, m, b)) = Len(es) + 1
        /\ \A j \in 1..(Len(es) + 1) :
              InsertAt(es, m, b)[j] = IF j < m THEN es[j]
                                      ELSE IF j = m THEN b ELSE es[j - 1]
    BY <1>1, <2>1, InsertAtElements
  <2> QED BY <2>2 DEF ds, m
<1>5. \A k \in 1..(i - 1) : ds[k] = cs[k]
  BY <1>1, <1>2, <1>4
<1>6. ds[i] = a /\ ds[i + 1] = b
  BY <1>1, <1>2, <1>4
<1>7. \A k \in (i + 2)..Len(ds) : ds[k] = cs[k - 2 + (i - i + 1)]
  <2> TAKE k \in (i + 2)..Len(ds)
  <2>1. k \in 1..(Len(es) + 1) /\ k > i + 1 /\ k - 1 \in 1..Len(cs) /\ k - 1 # i
        /\ k - 2 + (i - i + 1) = k - 1
    BY <1>1, <1>2, <1>4
  <2>2. ds[k] = es[k - 1]
    BY <2>1, <1>4
  <2> QED BY <2>1, <2>2, <1>1
<1>8. Splice(cs, ds, i, i, 2, a, b)
  BY <1>1, <1>2, <1>4, <1>5, <1>6, <1>7 DEF Splice
<1> QED BY <1>8 DEF ds, es

LEMMA SpliceShift ==
    ASSUME NEW cs, Tiles(cs), NEW i \in 1..(Len(cs) - 1), NEW a \in Chunk, NEW b \in Chunk,
           a.offset = cs[i].offset, End(a) = b.offset, End(b) = End(cs[i + 1])
    PROVE  Splice(cs, [cs EXCEPT ![i] = a, ![i + 1] = b], i, i + 1, 2, a, b)
<1> DEFINE es == [cs EXCEPT ![i] = a]
           ds == [es EXCEPT ![i + 1] = b]
<1>2. Len(cs) \in Nat /\ i \in 1..Len(cs) /\ i + 1 \in 1..Len(cs)
  BY TilesBounds
<1>1. /\ es \in Seq(Chunk) /\ Len(es) = Len(cs)
      /\ \A j \in 1..Len(cs) : es[j] = IF j = i THEN a ELSE cs[j]
  BY <1>2, TilesBounds, ExceptElements
<1> HIDE DEF es
<1>3. /\ ds \in Seq(Chunk) /\ Len(ds) = Len(cs)
      /\ \A j \in 1..Len(cs) : ds[j] = IF j = i + 1 THEN b ELSE es[j]
  BY <1>1, <1>2, ExceptElements
<1> HIDE DEF ds
<1>4. \A k \in 1..(i - 1) : ds[k] = cs[k]
  BY <1>1, <1>2, <1>3
<1>5. ds[i] = a /\ ds[i + 1] = b
  BY <1>1, <1>2, <1>3
<1>6. \A k \in (i + 2)..Len(ds) : ds[k] = cs[k - 2 + ((i + 1) - i + 1)]
  BY <1>1, <1>2, <1>3
<1>7. Splice(cs, ds, i, i + 1, 2, a, b)
  BY <1>2, <1>3, <1>4, <1>5, <1>6 DEF Splice
<1> QED BY <1>7 DEF ds, es

LEMMA SpliceJoin ==
    ASSUME NEW cs, Tiles(cs), NEW i \in 1..(Len(cs) - 1), NEW a \in Chunk,
           a.offset = cs[i].offset, End(a) = End(cs[i + 1])
    PROVE  /\ Splice(cs, RemoveAt([cs EXCEPT ![i] = a], i + 1), i, i + 1, 1, a, a)
           /\ Splice(cs, [RemoveAt(cs, i + 1) EXCEPT ![i] = a], i, i + 1, 1, a, a)
           /\ Splice(cs, [RemoveAt(cs, i) EXCEPT ![i] = a], i, i + 1, 1, a, a)
<1>2. Len(cs) \in Nat /\ i \in 1..Len(cs) /\ i + 1 \in 1..Len(cs) /\ cs \in Seq(Chunk)
  BY TilesBounds
<1>a. ASSUME NEW ds \in Seq(Chunk), Len(ds) = Len(cs) - 1,
             \A j \in 1..(Len(cs) - 1) :
                ds[j] = IF j = i THEN a ELSE IF j < i THEN cs[j] ELSE cs[j + 1]
      PROVE  Splice(cs, ds, i, i + 1, 1, a, a)
  <2>1. ASSUME NEW k \in 1..(i - 1) PROVE ds[k] = cs[k]
    <3>1. k \in 1..(Len(cs) - 1) /\ k # i /\ k < i
      BY <1>2
    <3> QED BY <1>a, <3>1
  <2>2. ds[i] = a
    BY <1>a, <1>2
  <2>3. ASSUME NEW k \in (i + 1)..Len(ds)
        PROVE  ds[k] = cs[k - 1 + ((i + 1) - i + 1)]
    <3>1. /\ k \in 1..(Len(cs) - 1) /\ k # i /\ ~(k < i)
          /\ k - 1 + ((i + 1) - i + 1) = k + 1
      BY <1>a, <1>2
    <3> QED BY <1>a, <3>1
  <2> QED BY <1>a, <1>2, <2>1, <2>2, <2>3 DEF Splice
<1>3. Splice(cs, RemoveAt([cs EXCEPT ![i] = a], i + 1), i, i + 1, 1, a, a)
  <2> DEFINE es == [cs EXCEPT ![i] = a]
             ds == RemoveAt(es, i + 1)
  <2>1. /\ es \in Seq(Chunk) /\ Len(es) = Len(cs)
        /\ \A j \in 1..Len(cs) : es[j] = IF j = i THEN a ELSE cs[j]
    BY <1>2, ExceptElements
  <2> HIDE DEF es
  <2>2. /\ ds \in Seq(Chunk) /\ Len(ds) = Len(cs) - 1
        /\ \A j \in 1..(Len(cs) - 1) : ds[j] = IF j < i + 1 THEN es[j] ELSE es[j + 1]
    BY <1>2, <2>1, RemoveAtElements
  <2> HIDE DEF ds
  <2>3. Splice(cs, ds, i, i + 1, 1, a, a)
    BY <1>2, <2>1, <2>2, <1>a
  <2> QED BY <2>3 DEF ds, es
<1>4. ASSUME NEW m \in {i, i + 1}
      PROVE  Splice(cs, [RemoveAt(cs, m) EXCEPT ![i] = a], i, i + 1, 1, a, a)
  <2> DEFINE es == RemoveAt(cs, m)
             ds == [es EXCEPT ![i] = a]
  <2>1. /\ es \in Seq(Chunk) /\ Len(es) = Len(cs) - 1
        /\ \A j \in 1..(Len(cs) - 1) : es[j] = IF j < m THEN cs[j] ELSE cs[j + 1]
    BY <1>2, RemoveAtElements
  <2> HIDE DEF es
  <2>2. /\ ds \in Seq(Chunk) /\ Len(ds) = Len(cs) - 1
        /\ \A j \in 1..(Len(cs) - 1) : ds[j] = IF j = i THEN a ELSE es[j]
    BY <1>2, <2>1, ExceptElements
  <2> HIDE DEF ds
  <2>3. Splice(cs, ds, i, i + 1, 1, a, a)
    BY <1>2, <2>1, <2>2, <1>a
  <2> QED BY <2>3 DEF ds, es
<1> QED BY <1>3, <1>4

\* Removing one more chunk: both neighbours of a chunk go with it, or a chunk
\* grows down and leaves a free rest.
LEMMA SpliceBetween ==
    ASSUME NEW cs, Tiles(cs), NEW i \in 2..(Len(cs) - 1), NEW a \in Chunk,
           a.offset = cs[i - 1].offset
    PROVE  /\ End(a) = End(cs[i + 1]) =>
                 Splice(cs, [RemoveAt(RemoveAt(cs, i + 1), i) EXCEPT ![i - 1] = a],
                        i - 1, i + 1, 1, a, a)
           /\ \A b \in Chunk :
                 End(a) = b.offset /\ End(b) = End(cs[i + 1]) =>
                     Splice(cs, RemoveAt([cs EXCEPT ![i - 1] = a, ![i] = b], i + 1),
                            i - 1, i + 1, 2, a, b)
<1>1. /\ Len(cs) \in Nat /\ i \in 1..Len(cs) /\ i + 1 \in 1..Len(cs) /\ i - 1 \in 1..Len(cs)
      /\ cs \in Seq(Chunk) /\ i \in Int
  BY TilesBounds
<1>2. ASSUME End(a) = End(cs[i + 1])
      PROVE  Splice(cs, [RemoveAt(RemoveAt(cs, i + 1), i) EXCEPT ![i - 1] = a],
                    i - 1, i + 1, 1, a, a)
  <2> DEFINE es == RemoveAt(cs, i + 1)
             fs == RemoveAt(es, i)
             ds == [fs EXCEPT ![i - 1] = a]
  <2>1. /\ es \in Seq(Chunk) /\ Len(es) = Len(cs) - 1
        /\ \A j \in 1..(Len(cs) - 1) : es[j] = IF j < i + 1 THEN cs[j] ELSE cs[j + 1]
    BY <1>1, RemoveAtElements
  <2> HIDE DEF es
  <2>2. i \in 1..Len(es)
    BY <1>1, <2>1
  <2>3. /\ fs \in Seq(Chunk) /\ Len(fs) = Len(es) - 1
        /\ \A j \in 1..(Len(es) - 1) : fs[j] = IF j < i THEN es[j] ELSE es[j + 1]
    BY <2>1, <2>2, RemoveAtElements
  <2> HIDE DEF fs
  <2>4. i - 1 \in 1..Len(fs)
    BY <1>1, <2>1, <2>3
  <2>5. /\ ds \in Seq(Chunk) /\ Len(ds) = Len(fs)
        /\ \A j \in 1..Len(fs) : ds[j] = IF j = i - 1 THEN a ELSE fs[j]
    BY <2>3, <2>4, ExceptElements
  <2> HIDE DEF ds
  <2>6. Len(ds) = Len(cs) - 2
    BY <1>1, <2>1, <2>3, <2>5
  <2>7. \A k \in 1..((i - 1) - 1) : ds[k] = cs[k]
    <3> TAKE k \in 1..((i - 1) - 1)
    <3>1. /\ k \in 1..Len(fs) /\ k # i - 1 /\ k \in 1..(Len(es) - 1) /\ k < i
          /\ k \in 1..(Len(cs) - 1) /\ k < i + 1
      BY <1>1, <2>1, <2>3
    <3> QED BY <3>1, <2>1, <2>3, <2>5
  <2>8. ds[i - 1] = a
    BY <1>1, <2>4, <2>5
  <2>9. \A k \in ((i - 1) + 1)..Len(ds) : ds[k] = cs[k - 1 + ((i + 1) - (i - 1) + 1)]
    <3> TAKE k \in ((i - 1) + 1)..Len(ds)
    <3>1. /\ k \in 1..Len(fs) /\ k # i - 1 /\ k \in 1..(Len(es) - 1) /\ ~(k < i)
          /\ k + 1 \in 1..(Len(cs) - 1) /\ ~(k + 1 < i + 1)
          /\ k - 1 + ((i + 1) - (i - 1) + 1) = k + 1 + 1
      BY <1>1, <2>1, <2>3, <2>5, <2>6
    <3>2. ds[k] = es[k + 1]
      BY <3>1, <2>3, <2>5
    <3> QED BY <3>1, <3>2, <2>1
  <2>10. i - 1 \in 1..Len(cs) /\ i + 1 \in (i - 1)..Len(cs)
         /\ Len(ds) = Len(cs) - ((i + 1) - (i - 1) + 1) + 1
    BY <1>1, <2>6
  <2>11. Splice(cs, ds, i - 1, i + 1, 1, a, a)
    BY <1>2, <2>5, <2>7, <2>8, <2>9, <2>10 DEF Splice
  <2> QED BY <2>11 DEF ds, es, fs
<1>3. ASSUME NEW b \in Chunk, End(a) = b.offset, End(b) = End(cs[i + 1])
      PROVE  Splice(cs, RemoveAt([cs EXCEPT ![i - 1] = a, ![i] = b], i + 1),
                    i - 1, i + 1, 2, a, b)
  <2> DEFINE es == [cs EXCEPT ![i - 1] = a]
             fs == [es EXCEPT ![i] = b]
             ds == RemoveAt(fs, i + 1)
  <2>1. /\ es \in Seq(Chunk) /\ Len(es) = Len(cs)
        /\ \A j \in 1..Len(cs) : es[j] = IF j = i - 1 THEN a ELSE cs[j]
    BY <1>1, ExceptElements
  <2> HIDE DEF es
  <2>2. /\ fs \in Seq(Chunk) /\ Len(fs) = Len(cs)
        /\ \A j \in 1..Len(cs) : fs[j] = IF j = i THEN b ELSE es[j]
    BY <1>1, <1>3, <2>1, ExceptElements
  <2> HIDE DEF fs
  <2>3. /\ ds \in Seq(Chunk) /\ Len(ds) = Len(fs) - 1
        /\ \A j \in 1..(Len(fs) - 1) : ds[j] = IF j < i + 1 THEN fs[j] ELSE fs[j + 1]
    BY <1>1, <2>2, RemoveAtElements
  <2> HIDE DEF ds
  <2>7. \A k \in 1..((i - 1) - 1) : ds[k] = cs[k]
    <3> TAKE k \in 1..((i - 1) - 1)
    <3>1. /\ k \in 1..Len(cs) /\ k # i - 1 /\ k # i
          /\ k \in 1..(Len(fs) - 1) /\ k < i + 1
      BY <1>1, <2>2
    <3> QED BY <3>1, <2>1, <2>2, <2>3
  <2>8. ds[i - 1] = a /\ ds[(i - 1) + 1] = b
    <3>1. /\ i - 1 \in 1..(Len(fs) - 1) /\ i \in 1..(Len(fs) - 1) /\ i - 1 # i
          /\ i - 1 < i + 1 /\ i < i + 1 /\ (i - 1) + 1 = i
      BY <1>1, <2>2
    <3>2. ds[i - 1] = fs[i - 1] /\ ds[i] = fs[i]
      BY <3>1, <2>3
    <3>3. fs[i - 1] = es[i - 1] /\ fs[i] = b /\ es[i - 1] = a
      BY <1>1, <3>1, <2>1, <2>2
    <3> QED BY <3>1, <3>2, <3>3
  <2>9. \A k \in ((i - 1) + 2)..Len(ds) : ds[k] = cs[k - 2 + ((i + 1) - (i - 1) + 1)]
    <3> TAKE k \in ((i - 1) + 2)..Len(ds)
    <3>1. /\ k \in 1..(Len(fs) - 1) /\ ~(k < i + 1) /\ k + 1 \in 1..Len(cs)
          /\ k + 1 # i /\ k + 1 # i - 1
          /\ k - 2 + ((i + 1) - (i - 1) + 1) = k + 1
      BY <1>1, <2>2, <2>3
    <3> QED BY <3>1, <2>1, <2>2, <2>3
  <2>10. i - 1 \in 1..Len(cs) /\ i + 1 \in (i - 1)..Len(cs)
         /\ Len(ds) = Len(cs) - ((i + 1) - (i - 1) + 1) + 2
    BY <1>1, <2>2, <2>3
  <2>11. Splice(cs, ds, i - 1, i + 1, 2, a, b)
    BY <1>3, <2>3, <2>7, <2>8, <2>9, <2>10 DEF Splice
  <2> QED BY <2>11 DEF ds, es, fs
<1> QED BY <1>2, <1>3

-----------------------------------------------------------------------------
(* What a splice does to the regions and to the seals.                     *)

TakenRegions(cs) == {RegionOf(cs[i]) : i \in {k \in 1..Len(cs) : cs[k].taken}}

\* Two chunks never have the same offset.
LEMMA OffsetsDiffer ==
    ASSUME NEW cs, Tiles(cs), NEW i \in 1..Len(cs), NEW j \in 1..Len(cs),
           cs[i].offset = cs[j].offset
    PROVE  i = j
<1>1. /\ cs[i].offset \in Nat /\ End(cs[i]) \in Nat /\ cs[i].offset < End(cs[i])
      /\ cs[j].offset \in Nat /\ End(cs[j]) \in Nat /\ cs[j].offset < End(cs[j])
  BY TilesFields
<1>2. i < j => End(cs[i]) <= cs[j].offset
  BY DEF Tiles
<1>3. j < i => End(cs[j]) <= cs[i].offset
  BY DEF Tiles
<1> QED BY <1>1, <1>2, <1>3

\* Of the chunks replaced only m may be taken, of the new ones only a.
LEMMA SpliceRegions ==
    ASSUME NEW cs, NEW ds, NEW p, NEW q, NEW n, NEW a, NEW b,
           Tiles(cs), Splice(cs, ds, p, q, n, a, b),
           n = 2 => ~b.taken,
           NEW m \in p..q, \A k \in p..q : k # m => ~cs[k].taken
    PROVE  TakenRegions(ds) =
               (TakenRegions(cs) \ (IF cs[m].taken THEN {RegionOf(cs[m])} ELSE {}))
                   \cup (IF a.taken THEN {RegionOf(a)} ELSE {})
<1>0. /\ p \in Int /\ q \in Int /\ n \in {1, 2} /\ Len(cs) \in Nat /\ Len(ds) \in Int
      /\ 1 <= p /\ p <= q /\ q <= Len(cs)
      /\ Len(ds) = Len(cs) - (q - p + 1) + n
  BY TilesFields DEF Splice
<1> DEFINE old == IF cs[m].taken THEN {RegionOf(cs[m])} ELSE {}
           new == IF a.taken THEN {RegionOf(a)} ELSE {}
<1>1. ASSUME NEW r \in TakenRegions(ds)
      PROVE  r \in (TakenRegions(cs) \ old) \cup new
  <2>1. PICK k \in 1..Len(ds) : ds[k].taken /\ r = RegionOf(ds[k])
    BY <1>1 DEF TakenRegions
  <2>2. ASSUME NEW j \in 1..Len(cs), ds[k] = cs[j], j \notin p..q
        PROVE  r \in TakenRegions(cs) \ old
    <3>1. r = RegionOf(cs[j]) /\ cs[j].taken
      BY <2>1, <2>2
    <3>2. r \in TakenRegions(cs)
      BY <3>1 DEF TakenRegions
    <3>3. cs[m].taken => r # RegionOf(cs[m])
      <4>1. m \in 1..Len(cs) /\ m # j
        BY <1>0, <2>2
      <4>2. cs[j].offset # cs[m].offset
        BY <4>1, OffsetsDiffer
      <4> QED BY <3>1, <4>2 DEF RegionOf, Region
    <3> QED BY <3>2, <3>3
  <2>3. CASE k < p /\ k \in 1..Len(cs) /\ ds[k] = cs[k]
    <3>1. k \notin p..q
      BY <2>3, <1>0
    <3> QED BY <3>1, <2>2, <2>3
  <2>4. CASE k = p /\ ds[k] = a
    BY <2>1, <2>4
  <2>5. CASE n = 2 /\ k = p + 1 /\ ds[k] = b
    BY <2>1, <2>5
  <2>6. CASE /\ k >= p + n /\ k - n + (q - p + 1) \in (q + 1)..Len(cs)
             /\ ds[k] = cs[k - n + (q - p + 1)]
    <3> DEFINE j == k - n + (q - p + 1)
    <3>1. j \in 1..Len(cs) /\ j \notin p..q
      BY <1>0, <2>6
    <3>2. ds[k] = cs[j]
      BY <2>6
    <3> HIDE DEF j
    <3> QED BY <3>1, <3>2, <2>2
  <2> QED BY <2>3, <2>4, <2>5, <2>6, SpliceElement
<1>2. ASSUME NEW r \in TakenRegions(cs), r \notin old PROVE r \in TakenRegions(ds)
  <2>1. PICK k \in 1..Len(cs) : cs[k].taken /\ r = RegionOf(cs[k])
    BY <1>2 DEF TakenRegions
  <2>2. k \notin p..q
    BY <2>1, <1>2
  <2>3. CASE k < p
    <3>1. k \in 1..(p - 1) /\ k \in 1..Len(ds)
      BY <1>0, <2>3
    <3>2. ds[k] = cs[k]
      BY <3>1 DEF Splice
    <3> QED BY <3>1, <3>2, <2>1 DEF TakenRegions
  <2>4. CASE k > q
    <3> DEFINE j == k + n - (q - p + 1)
    <3>1. j \in (p + n)..Len(ds) /\ j \in 1..Len(ds) /\ j - n + (q - p + 1) = k
      BY <1>0, <2>4
    <3> HIDE DEF j
    <3>2. ds[j] = cs[k]
      BY <3>1 DEF Splice
    <3> QED BY <3>1, <3>2, <2>1 DEF TakenRegions
  <2> QED BY <1>0, <2>2, <2>3, <2>4
<1>3. ASSUME a.taken PROVE RegionOf(a) \in TakenRegions(ds)
  <2>1. p \in 1..Len(ds) /\ ds[p] = a
    BY <1>0 DEF Splice
  <2> QED BY <2>1, <1>3 DEF TakenRegions
<1> QED BY <1>1, <1>2, <1>3

Sealed(cs, w) == \A i \in 1..Len(cs) : End(cs[i]) - 1 \notin w

\* Write permission given only inside the replaced chunks, and not for the
\* last bytes of the new ones.
LEMMA SpliceSealed ==
    ASSUME NEW cs, NEW ds, NEW p, NEW q, NEW n, NEW a, NEW b, NEW w, NEW v,
           Tiles(cs), Splice(cs, ds, p, q, n, a, b), Sealed(cs, w), v \in SUBSET Cells,
           \A c \in v : c \in w \/ (cs[p].offset <= c /\ c < End(cs[q])),
           End(a) - 1 \notin v, n = 2 => End(b) - 1 \notin v
    PROVE  Sealed(ds, v)
<1>0. p \in 1..Len(cs) /\ q \in 1..Len(cs) /\ p <= q /\ p \in Int /\ q \in Int
  <2>1. Len(cs) \in Nat
    BY TilesFields
  <2> QED BY <2>1 DEF Splice
<1>1. cs[p].offset \in Nat /\ End(cs[q]) \in Nat
  BY <1>0, TilesFields
<1> SUFFICES ASSUME NEW k \in 1..Len(ds) PROVE End(ds[k]) - 1 \notin v
  BY DEF Sealed
<1>2. CASE k < p /\ k \in 1..Len(cs) /\ ds[k] = cs[k]
  <2>1. End(cs[k]) <= cs[p].offset /\ End(cs[k]) \in Nat
    BY <1>0, <1>2, TilesFields DEF Tiles
  <2>2. ~(cs[p].offset <= End(cs[k]) - 1)
    BY <2>1, <1>1
  <2>3. End(cs[k]) - 1 \notin w
    BY <1>2 DEF Sealed
  <2> QED BY <1>2, <2>2, <2>3
<1>3. CASE k = p /\ ds[k] = a
  BY <1>3
<1>4. CASE n = 2 /\ k = p + 1 /\ ds[k] = b
  BY <1>4
<1>5. CASE /\ k >= p + n /\ k - n + (q - p + 1) \in (q + 1)..Len(cs)
           /\ ds[k] = cs[k - n + (q - p + 1)]
  <2> DEFINE j == k - n + (q - p + 1)
  <2>0. j \in (q + 1)..Len(cs) /\ ds[k] = cs[j]
    BY <1>5
  <2> HIDE DEF j
  <2>1. j \in 1..Len(cs) /\ q < j
    <3>1. Len(cs) \in Nat
      BY TilesFields
    <3> QED BY <3>1, <2>0, <1>0
  <2>2. End(cs[q]) <= cs[j].offset
    BY <1>0, <2>1 DEF Tiles
  <2>3. cs[j].offset \in Nat /\ End(cs[j]) \in Nat /\ cs[j].offset < End(cs[j])
    BY <2>1, TilesFields
  <2>4. ~(End(cs[j]) - 1 < End(cs[q]))
    BY <1>1, <2>2, <2>3
  <2>5. End(cs[j]) - 1 \notin w
    BY <2>1 DEF Sealed
  <2> QED BY <2>0, <2>4, <2>5
<1> QED BY <1>2, <1>3, <1>4, <1>5, SpliceElement

-----------------------------------------------------------------------------
(* The invariant of the heap, as long as no downward merge tears its list. *)

\* A region has at least one byte.
Roomy(cs) == \A i \in 1..Len(cs) : cs[i].taken => cs[i].size >= 2

HeapOK(cs, rs, w) ==
    /\ Tiles(cs)
    /\ Merged(cs)
    /\ Roomy(cs)
    /\ rs = TakenRegions(cs)
    /\ w \in SUBSET Cells
    /\ Sealed(cs, w)

HeapInv == TypeOK /\ (~torn => HeapOK(chunks, regions, writable))

LEMMA SpliceHeap ==
    ASSUME NEW cs, NEW ds, NEW p, NEW q, NEW n, NEW a, NEW b, NEW rs, NEW w, NEW v,
           HeapOK(cs, rs, w), Splice(cs, ds, p, q, n, a, b),
           n = 2 => a.taken /\ ~b.taken,
           a.taken => a.size >= 2,
           NEW m \in p..q, \A k \in p..q : k # m => ~cs[k].taken,
           p = 1 \/ cs[p - 1].taken \/ a.taken,
           q = Len(cs) \/ cs[q + 1].taken \/ (n = 1 /\ a.taken),
           v \in SUBSET Cells,
           \A c \in v : c \in w \/ (cs[p].offset <= c /\ c < End(cs[q])),
           End(a) - 1 \notin v, n = 2 => End(b) - 1 \notin v
    PROVE  HeapOK(ds,
                  (rs \ (IF cs[m].taken THEN {RegionOf(cs[m])} ELSE {}))
                      \cup (IF a.taken THEN {RegionOf(a)} ELSE {}),
                  v)
<1>0. Tiles(cs) /\ n \in {1, 2}
  BY DEF HeapOK, Splice
<1>1. Tiles(ds)
  BY <1>0, SpliceTiles
<1>2. Merged(ds)
  BY <1>0, SpliceMerged DEF HeapOK
<1>3. Roomy(ds)
  <2> SUFFICES ASSUME NEW k \in 1..Len(ds), ds[k].taken PROVE ds[k].size >= 2
    BY DEF Roomy
  <2>1. CASE k < p /\ k \in 1..Len(cs) /\ ds[k] = cs[k]
    BY <2>1 DEF HeapOK, Roomy
  <2>2. CASE k = p /\ ds[k] = a
    BY <2>2
  <2>3. CASE n = 2 /\ k = p + 1 /\ ds[k] = b
    BY <2>3
  <2>4. CASE /\ k >= p + n /\ k - n + (q - p + 1) \in (q + 1)..Len(cs)
             /\ ds[k] = cs[k - n + (q - p + 1)]
    <3> DEFINE j == k - n + (q - p + 1)
    <3>1. j \in (q + 1)..Len(cs) /\ ds[k] = cs[j]
      BY <2>4
    <3> HIDE DEF j
    <3>2. j \in 1..Len(cs)
      <4>1. Len(cs) \in Nat /\ q \in Int /\ 1 <= q
        BY <1>0, TilesFields DEF Splice
      <4> QED BY <4>1, <3>1
    <3> QED BY <3>1, <3>2 DEF HeapOK, Roomy
  <2> QED BY <1>0, <2>1, <2>2, <2>3, <2>4, SpliceElement
<1>4. Sealed(ds, v)
  BY <1>0, SpliceSealed DEF HeapOK
<1>5. TakenRegions(ds) =
          (rs \ (IF cs[m].taken THEN {RegionOf(cs[m])} ELSE {}))
              \cup (IF a.taken THEN {RegionOf(a)} ELSE {})
  BY <1>0, SpliceRegions DEF HeapOK
<1> QED
  BY <1>1, <1>2, <1>3, <1>4, <1>5 DEF HeapOK

\* The regions of a sound heap are typed and in the backing, and lead back to
\* their chunks.
LEMMA HeapRegions ==
    ASSUME NEW cs, NEW rs, NEW w, HeapOK(cs, rs, w)
    PROVE  /\ rs \in SUBSET [lo : Cells, hi : Cells]
           /\ \A r \in rs : \E i \in 1..Len(cs) : cs[i].taken /\ r = RegionOf(cs[i])
           /\ \A r \in rs, i \in 1..Len(cs) :
                 cs[i].taken /\ cs[i].offset = r.lo => r = RegionOf(cs[i])
           /\ \A i \in 1..Len(cs) :
                 cs[i].taken => /\ RegionOf(cs[i]).lo = cs[i].offset
                                /\ RegionOf(cs[i]).hi = cs[i].offset + cs[i].size - 1
                                /\ cs[i].size >= 2
<1>1. rs = TakenRegions(cs) /\ Tiles(cs)
  BY DEF HeapOK
<1>2. \A i \in 1..Len(cs) : cs[i].taken =>
          /\ cs[i].size >= 2
          /\ RegionOf(cs[i]).lo = cs[i].offset
          /\ RegionOf(cs[i]).hi = cs[i].offset + cs[i].size - 1
          /\ RegionOf(cs[i]) \in [lo : Cells, hi : Cells]
  <2> TAKE i \in 1..Len(cs)
  <2> HAVE cs[i].taken
  <2>1. /\ cs[i].size >= 2
        /\ cs[i].offset \in Nat /\ cs[i].size \in Nat \ {0}
        /\ End(cs[i]) = cs[i].offset + cs[i].size /\ End(cs[i]) <= Size
    BY <1>1, TilesBounds DEF HeapOK, Roomy
  <2>2. RegionOf(cs[i]) = [lo |-> cs[i].offset, hi |-> cs[i].offset + (cs[i].size - 1)]
    BY DEF RegionOf, Region
  <2>3. cs[i].offset \in Cells /\ cs[i].offset + (cs[i].size - 1) \in Cells
    BY <2>1, SizeAssumption DEF Cells
  <2> QED BY <2>1, <2>2, <2>3
<1>3. \A r \in rs : \E i \in 1..Len(cs) : cs[i].taken /\ r = RegionOf(cs[i])
  BY <1>1 DEF TakenRegions
<1>4. ASSUME NEW r \in rs, NEW i \in 1..Len(cs), cs[i].taken, cs[i].offset = r.lo
      PROVE  r = RegionOf(cs[i])
  <2>1. PICK j \in 1..Len(cs) : cs[j].taken /\ r = RegionOf(cs[j])
    BY <1>3
  <2>2. cs[i].offset = cs[j].offset
    BY <1>2, <1>4, <2>1
  <2>3. i = j
    BY <1>1, <2>2, OffsetsDiffer
  <2> QED BY <2>1, <2>3
<1> QED BY <1>2, <1>3, <1>4

-----------------------------------------------------------------------------
(* The operations on the chunk list are splices.                           *)

\* ds is the chunk list with chunk i, and free neighbours, replaced by a taken
\* chunk of n bytes at offset and what is left of them.
Resized(i, offset, n, ds) ==
    \E p, q \in 1..Len(chunks), k \in {1, 2}, b \in Chunk :
        /\ Splice(chunks, ds, p, q, k, Taken(offset, n), b)
        /\ i \in p..q
        /\ \A j \in p..q : j # i => ~chunks[j].taken
        /\ k = 2 => ~b.taken
        /\ k = 2 => q = Len(chunks) \/ chunks[q + 1].taken

LEMMA ResizedBy ==
    ASSUME NEW i, NEW offset, NEW n, NEW ds,
           NEW p \in 1..Len(chunks), NEW q \in 1..Len(chunks), NEW k \in {1, 2}, NEW b \in Chunk,
           Splice(chunks, ds, p, q, k, Taken(offset, n), b),
           i \in p..q, \A j \in p..q : j # i => ~chunks[j].taken,
           k = 2 => ~b.taken, k = 2 => q = Len(chunks) \/ chunks[q + 1].taken
    PROVE  Resized(i, offset, n, ds)
BY Zenon DEF Resized

LEMMA KeepResizes ==
    ASSUME Tiles(chunks), NEW i \in 1..Len(chunks), chunks[i].taken
    PROVE  Resized(i, chunks[i].offset, chunks[i].size, chunks)
<1>0. Len(chunks) \in Nat /\ i \in Int /\ chunks[i] \in Chunk /\ chunks \in Seq(Chunk)
  BY TilesBounds
<1>1. chunks[i] = Taken(chunks[i].offset, chunks[i].size)
  BY <1>0 DEF Chunk, Taken
<1>2. \A k \in (i + 1)..Len(chunks) : chunks[k] = chunks[k - 1 + (i - i + 1)]
  BY <1>0
<1>3. /\ i \in i..Len(chunks) /\ i \in i..i /\ \A j \in i..i : j = i
      /\ Len(chunks) = Len(chunks) - (i - i + 1) + 1
  BY <1>0
<1>4. Splice(chunks, chunks, i, i, 1, chunks[i], chunks[i])
  BY <1>0, <1>2, <1>3 DEF Splice
<1> DEFINE a == Taken(chunks[i].offset, chunks[i].size)
<1>5. /\ Splice(chunks, chunks, i, i, 1, a, chunks[i])
      /\ i \in i..i /\ \A j \in i..i : j # i => ~chunks[j].taken
  BY <1>1, <1>3, <1>4
<1> HIDE DEF a
<1>6. \E k \in {1, 2}, b \in Chunk :
          /\ Splice(chunks, chunks, i, i, k, a, b)
          /\ i \in i..i
          /\ \A j \in i..i : j # i => ~chunks[j].taken
          /\ k = 2 => ~b.taken
          /\ k = 2 => i = Len(chunks) \/ chunks[i + 1].taken
  BY <1>0, <1>5
<1> QED BY <1>6 DEF Resized, a

LEMMA FreeNeighbours ==
    ASSUME Tiles(chunks), NEW i \in 1..Len(chunks)
    PROVE  /\ IsFree(chunks, i) <=> ~chunks[i].taken
           /\ IsFree(chunks, i + 1) <=> i # Len(chunks) /\ ~chunks[i + 1].taken
           /\ IsFree(chunks, i - 1) <=> i # 1 /\ ~chunks[i - 1].taken
           /\ i # Len(chunks) => i + 1 \in 1..Len(chunks) /\ i \in 1..(Len(chunks) - 1)
           /\ i # 1 => i - 1 \in 1..(Len(chunks) - 1)
           /\ Len(chunks) \in Nat /\ i \in Nat
<1>1. Len(chunks) \in Nat
  BY TilesBounds
<1>2. /\ i \in DOMAIN chunks /\ i \in Nat
      /\ i + 1 \in DOMAIN chunks <=> i # Len(chunks)
      /\ i - 1 \in DOMAIN chunks <=> i # 1
  <2>1. DOMAIN chunks = 1..Len(chunks)
    BY TilesBounds
  <2>2. /\ i \in Nat
        /\ i + 1 \in 1..Len(chunks) <=> i # Len(chunks)
        /\ i - 1 \in 1..Len(chunks) <=> i # 1
    BY <1>1
  <2> QED BY <2>1, <2>2
<1>3. /\ i # Len(chunks) => i + 1 \in 1..Len(chunks) /\ i \in 1..(Len(chunks) - 1)
      /\ i # 1 => i - 1 \in 1..(Len(chunks) - 1)
  BY <1>1
<1> QED BY <1>1, <1>2, <1>3 DEF IsFree

LEMMA ShrinkResizes ==
    ASSUME Tiles(chunks), Merged(chunks), NEW i \in 1..Len(chunks), chunks[i].taken,
           NEW n \in Nat \ {0}, chunks[i].size > n
    PROVE  Resized(i, chunks[i].offset, n, ChunkShrunk(i, n))
<1> DEFINE o == chunks[i].offset
           z == chunks[i].size
           a == Taken(o, n)
<1>1. /\ o \in Nat /\ z \in Nat \ {0} /\ n < z /\ o + z <= Size
      /\ End(chunks[i]) = o + z /\ Len(chunks) \in Nat /\ i \in Nat
  <2>1. o \in Nat /\ z \in Nat \ {0} /\ End(chunks[i]) = o + z /\ End(chunks[i]) <= Size
    BY TilesBounds
  <2>2. Len(chunks) \in Nat /\ i \in Nat
    BY FreeNeighbours
  <2> QED BY <2>1, <2>2
<1>2. a \in Chunk /\ a.offset = o /\ End(a) = o + n
  <2> HIDE DEF o, z
  <2>1. o + n <= Size
    BY <1>1, SizeAssumption
  <2> QED BY <1>1, <2>1, ChunkMade
<1>3. CASE IsFree(chunks, i + 1)
  <2> DEFINE c == chunks[i + 1]
             b == Free(c.offset - (z - n), c.size + (z - n))
  <2>1. /\ i \in 1..(Len(chunks) - 1) /\ i + 1 \in 1..Len(chunks) /\ ~c.taken
    BY <1>3, FreeNeighbours
  <2>2. /\ c.offset \in Nat /\ c.size \in Nat \ {0} /\ c.offset = o + z
        /\ End(c) = c.offset + c.size /\ End(c) <= Size
    BY <2>1, TilesBounds
  <2>3. /\ c.offset - (z - n) = o + n /\ o + n \in Nat
        /\ c.size + (z - n) \in Nat \ {0} /\ (o + n) + (c.size + (z - n)) = End(c)
    <3> DEFINE d == c.size
               e == c.offset
    <3>1. e \in Nat /\ d \in Nat \ {0} /\ e = o + z /\ End(c) = e + d
      BY <2>2
    <3> HIDE DEF o, z, d, e
    <3>2. /\ e - (z - n) = o + n /\ o + n \in Nat
          /\ d + (z - n) \in Nat \ {0} /\ (o + n) + (d + (z - n)) = e + d
      BY <1>1, <3>1
    <3> QED BY <3>1, <3>2 DEF d, e
  <2>4. b \in Chunk /\ b.offset = o + n /\ End(b) = End(c) /\ ~b.taken
    BY <2>2, <2>3, ChunkMade
  <2> HIDE DEF a, b
  <2>5. Splice(chunks, [chunks EXCEPT ![i] = a, ![i + 1] = b], i, i + 1, 2, a, b)
    BY <1>2, <2>1, <2>4, SpliceShift
  <2>6. ChunkShrunk(i, n) = [chunks EXCEPT ![i] = a, ![i + 1] = b]
    BY <1>1, <1>3, <2>1 DEF ChunkShrunk, a, b
  <2>7. i + 1 = Len(chunks) \/ chunks[i + 1 + 1].taken
    BY <1>1, <2>1 DEF Merged
  <2>8. i \in i..(i + 1) /\ \A j \in i..(i + 1) : j # i => ~chunks[j].taken
    BY <1>1, <2>1
  <2>9. Splice(chunks, ChunkShrunk(i, n), i, i + 1, 2, Taken(chunks[i].offset, n), b)
    BY <2>5, <2>6 DEF a
  <2>10. i \in 1..Len(chunks) /\ 2 \in {1, 2}
    OBVIOUS
  <2> QED
    BY ONLY <2>1, <2>4, <2>7, <2>8, <2>9, <2>10, ResizedBy, Zenon
<1>4. CASE ~IsFree(chunks, i + 1)
  <2> DEFINE b == Free(o + n, z - n)
  <2>1. o + n \in Nat /\ z - n \in Nat \ {0} /\ (o + n) + (z - n) = o + z
    BY SMTT(60), <1>1
  <2>2. b \in Chunk /\ b.offset = o + n /\ End(b) = o + z /\ ~b.taken
    BY SMTT(60), <1>1, <2>1, ChunkMade
  <2> HIDE DEF a, b
  <2>3. Splice(chunks, InsertAt([chunks EXCEPT ![i] = a], i + 1, b), i, i, 2, a, b)
    BY <1>1, <1>2, <2>2, SpliceSplit
  <2>4. ChunkShrunk(i, n) = InsertAt([chunks EXCEPT ![i] = a], i + 1, b)
    BY <1>4 DEF ChunkShrunk, a, b
  <2>5. i = Len(chunks) \/ chunks[i + 1].taken
    BY <1>4, FreeNeighbours
  <2>6. i \in i..i /\ \A j \in i..i : j # i => ~chunks[j].taken
    BY <1>1
  <2> QED
    BY <2>2, <2>3, <2>4, <2>5, <2>6 DEF Resized, a
<1> QED BY <1>3, <1>4

LEMMA GrowUpResizes ==
    ASSUME Tiles(chunks), Merged(chunks), NEW i \in 1..Len(chunks), chunks[i].taken,
           NEW n \in Nat \ {0}, chunks[i].size < n,
           chunks[i].size + FreeSize(chunks, i + 1) >= n
    PROVE  Resized(i, chunks[i].offset, n, ChunkGrownUp(i, n))
<1> DEFINE c == chunks[i + 1]
           o == chunks[i].offset
           z == chunks[i].size
           d == c.size
           e == c.offset
           a == Taken(o, n)
<1>1. /\ o \in Nat /\ z \in Nat \ {0} /\ z < n
      /\ Len(chunks) \in Nat /\ i \in Nat /\ chunks \in Seq(Chunk)
  BY TilesBounds, FreeNeighbours
<1>2. IsFree(chunks, i + 1)
  BY <1>1 DEF FreeSize
<1>3. i \in 1..(Len(chunks) - 1) /\ i + 1 \in 1..Len(chunks) /\ ~c.taken
  BY <1>2, FreeNeighbours
<1>4. /\ e \in Nat /\ d \in Nat \ {0} /\ e = o + z /\ End(c) = e + d /\ End(c) <= Size
  BY <1>3, TilesBounds
<1>5. z + d >= n
  BY <1>2 DEF FreeSize
<1>6. i \in i..(i + 1) /\ \A j \in i..(i + 1) : j # i => ~chunks[j].taken
  BY <1>1, <1>3
<1>7. i + 1 = Len(chunks) \/ chunks[i + 1 + 1].taken
  BY <1>1, <1>3 DEF Merged
<1>8. a \in Chunk /\ a.offset = o /\ End(a) = o + n
  <2> HIDE DEF o, z, d, e
  <2>1. o + n <= Size
    BY <1>1, <1>4, <1>5, SizeAssumption
  <2> QED BY <1>1, <2>1, ChunkMade
<1>9. CASE z + d = n
  <2>1. End(a) = End(c)
    <3> HIDE DEF o, z, d, e
    <3> QED BY <1>1, <1>4, <1>8, <1>9
  <2> HIDE DEF a
  <2>2. Splice(chunks, RemoveAt([chunks EXCEPT ![i] = a], i + 1), i, i + 1, 1, a, a)
    BY <1>3, <1>8, <2>1, SpliceJoin
  <2>3. ChunkGrownUp(i, n) = RemoveAt([chunks EXCEPT ![i] = a], i + 1)
    BY <1>2, <1>9 DEF ChunkGrownUp, FreeSize, a
  <2> QED
    BY <1>3, <1>6, <1>8, <2>2, <2>3 DEF Resized, a
<1>10. CASE z + d # n
  <2> DEFINE b == Free(o + n, (z + d) - n)
  <2>1. b \in Chunk /\ b.offset = o + n /\ End(b) = End(c) /\ ~b.taken
    <3> HIDE DEF o, z, d, e
    <3>0. o \in Nat /\ z \in Nat /\ d \in Nat /\ e = o + z /\ z + d > n
      BY <1>1, <1>4, <1>5, <1>10
    <3>1. /\ o + n \in Nat /\ (z + d) - n \in Nat \ {0}
          /\ (o + n) + ((z + d) - n) = e + d
      BY <3>0
    <3> QED BY <1>4, <3>1, ChunkMade
  <2> HIDE DEF a, b
  <2>2. Splice(chunks, [chunks EXCEPT ![i] = a, ![i + 1] = b], i, i + 1, 2, a, b)
    BY <1>3, <1>8, <2>1, SpliceShift
  <2>3. ChunkGrownUp(i, n) = [[chunks EXCEPT ![i] = a] EXCEPT ![i + 1] = b]
    BY <1>2, <1>10 DEF ChunkGrownUp, FreeSize, a, b
  <2>4. Splice(chunks, ChunkGrownUp(i, n), i, i + 1, 2, Taken(chunks[i].offset, n), b)
    BY <2>2, <2>3 DEF a
  <2>5. i \in 1..Len(chunks) /\ 2 \in {1, 2}
    OBVIOUS
  <2> QED
    BY ONLY <1>3, <1>6, <1>7, <2>1, <2>4, <2>5, ResizedBy, Zenon
<1> QED BY <1>9, <1>10

\* The downward merge the code gets right.
LEMMA GrowDownResizes ==
    ASSUME Tiles(chunks), Merged(chunks), NEW i \in 1..Len(chunks), chunks[i].taken,
           NEW n \in Nat \ {0},
           IsFree(chunks, i - 1), ~GrowDownTears(i, n)
    PROVE  Resized(i, chunks[i - 1].offset, n, ChunkGrownDown(i, n))
<1> DEFINE c == chunks[i + 1]
           o == chunks[i - 1].offset
           y == chunks[i - 1].size
           z == chunks[i].size
           d == c.size
           a == Taken(o, n)
           b == Free(o + n, (y + z + d) - n)
<1>1. IsFree(chunks, i + 1) /\ y + z + d > n
  BY DEF GrowDownTears, FreeSize
<1>2. /\ i \in 2..(Len(chunks) - 1) /\ i - 1 \in 1..Len(chunks) /\ i + 1 \in 1..Len(chunks)
      /\ i - 1 \in 1..(Len(chunks) - 1) /\ i \in 1..(Len(chunks) - 1)
      /\ ~chunks[i - 1].taken /\ ~c.taken
      /\ Len(chunks) \in Nat /\ i \in Nat
  <2>1. /\ i # 1 /\ i # Len(chunks) /\ ~chunks[i - 1].taken /\ ~c.taken
        /\ Len(chunks) \in Nat /\ i \in Nat
    BY <1>1, FreeNeighbours
  <2> QED BY <2>1
<1>3. /\ o \in Nat /\ y \in Nat \ {0} /\ z \in Nat \ {0} /\ d \in Nat \ {0}
      /\ o + y = chunks[i].offset /\ chunks[i].offset + z = c.offset
      /\ End(c) = c.offset + d /\ End(c) <= Size
  <2>1. /\ o \in Nat /\ y \in Nat \ {0} /\ z \in Nat \ {0} /\ d \in Nat \ {0}
        /\ End(c) = c.offset + d /\ End(c) <= Size
    BY <1>2, TilesBounds
  <2>2. chunks[i - 1].offset + chunks[i - 1].size = chunks[(i - 1) + 1].offset
    BY <1>2, TilesBounds
  <2>3. chunks[i].offset + chunks[i].size = chunks[i + 1].offset
    BY <1>2, TilesBounds
  <2>4. (i - 1) + 1 = i
    BY <1>2
  <2> QED BY <2>1, <2>2, <2>3, <2>4
<1>4. a \in Chunk /\ a.offset = o /\ End(a) = o + n
  <2>1. o + n <= Size
    <3> DEFINE x == chunks[i].offset
               e == c.offset
    <3>1. o + y = x /\ x + z = e /\ End(c) = e + d
      BY <1>3
    <3> HIDE DEF o, y, z, d, e, x
    <3> QED BY <1>1, <1>3, <3>1, SizeAssumption
  <2> HIDE DEF o, y, z, d
  <2> QED BY <1>3, <2>1, ChunkMade
<1>5. b \in Chunk /\ b.offset = o + n /\ End(b) = End(c) /\ ~b.taken
  <2>1. /\ o + n \in Nat /\ (y + z + d) - n \in Nat \ {0}
        /\ (o + n) + ((y + z + d) - n) = End(c)
    <3> DEFINE x == chunks[i].offset
               e == c.offset
    <3>1. o + y = x /\ x + z = e /\ End(c) = e + d
      BY <1>3
    <3> HIDE DEF o, y, z, d, e, x
    <3> QED BY SMTT(60), <1>1, <1>3, <3>1
  <2> HIDE DEF o, y, z, d
  <2> QED BY <1>3, <2>1, ChunkMade
<1>6. ChunkGrownDown(i, n) = RemoveAt([chunks EXCEPT ![i - 1] = a, ![i] = b], i + 1)
  <2>1. FreeSize(chunks, i - 1) = y /\ FreeSize(chunks, i + 1) = d
    BY <1>1 DEF FreeSize
  <2>2. y + z + d # n
    BY <1>1, <1>3
  <2>3. ChunkGrownDown(i, n) =
            RemoveAt([[chunks EXCEPT ![i - 1] = a] EXCEPT ![i] = b], i + 1)
    BY <2>1, <2>2 DEF ChunkGrownDown
  <2> QED BY <2>3
<1> HIDE DEF a, b
<1>7. Splice(chunks, ChunkGrownDown(i, n), i - 1, i + 1, 2, a, b)
  <2>1. i \in 2..(Len(chunks) - 1) /\ a.offset = chunks[i - 1].offset
        /\ End(a) = b.offset /\ End(b) = End(chunks[i + 1]) /\ a \in Chunk /\ b \in Chunk
    BY <1>2, <1>4, <1>5
  <2>2. Splice(chunks, RemoveAt([chunks EXCEPT ![i - 1] = a, ![i] = b], i + 1),
               i - 1, i + 1, 2, a, b)
    BY <2>1, SpliceBetween
  <2> QED BY <2>2, <1>6
<1>8. /\ i \in (i - 1)..(i + 1)
      /\ \A j \in (i - 1)..(i + 1) : j # i => ~chunks[j].taken
  BY <1>2
<1>9. i + 1 = Len(chunks) \/ chunks[i + 1 + 1].taken
  BY <1>2 DEF Merged
<1> QED
  BY <1>2, <1>5, <1>7, <1>8, <1>9 DEF Resized, a

\* A free chunk becomes a taken one and what is left of it.
LEMMA AllocateSplices ==
    ASSUME Tiles(chunks), Merged(chunks), NEW i \in 1..Len(chunks), ~chunks[i].taken,
           NEW n \in Nat \ {0}, chunks[i].size >= n
    PROVE  \E k \in {1, 2}, b \in Chunk :
              /\ Splice(chunks, ChunkAllocated(i, n), i, i, k, Taken(chunks[i].offset, n), b)
              /\ k = 2 => ~b.taken
              /\ k = 2 => i = Len(chunks) \/ chunks[i + 1].taken
<1> DEFINE o == chunks[i].offset
           z == chunks[i].size
           a == Taken(o, n)
           b == Free(o + n, z - n)
<1>1. /\ o \in Nat /\ z \in Nat \ {0} /\ n <= z /\ o + z <= Size
      /\ End(chunks[i]) = o + z /\ Len(chunks) \in Nat /\ i \in Nat
  BY TilesBounds, FreeNeighbours
<1>2. a \in Chunk /\ a.offset = o /\ End(a) = o + n
  <2> HIDE DEF o, z
  <2>1. o + n <= Size
    BY <1>1, SizeAssumption
  <2> QED BY <1>1, <2>1, ChunkMade
<1>3. i = Len(chunks) \/ chunks[i + 1].taken
  BY <1>1 DEF Merged
<1>4. CASE z = n
  <2>1. End(a) = End(chunks[i])
    BY <1>1, <1>2, <1>4
  <2>2. ChunkAllocated(i, n) = [chunks EXCEPT ![i] = a]
    BY <1>4 DEF ChunkAllocated
  <2> HIDE DEF a, b
  <2>3. Splice(chunks, [chunks EXCEPT ![i] = a], i, i, 1, a, a)
    BY <1>2, <2>1, SpliceReplace
  <2>4. Splice(chunks, ChunkAllocated(i, n), i, i, 1, a, a)
    BY <2>2, <2>3
  <2> QED
    BY <1>2, <2>4 DEF a
<1>5. CASE z # n
  <2>1. b \in Chunk /\ b.offset = o + n /\ End(b) = o + z /\ ~b.taken
    <3> HIDE DEF o, z
    <3>1. o + n \in Nat /\ z - n \in Nat \ {0} /\ (o + n) + (z - n) = o + z
      BY <1>1, <1>5
    <3> QED BY <1>1, <3>1, ChunkMade
  <2>2. ChunkAllocated(i, n) = InsertAt([chunks EXCEPT ![i] = a], i + 1, b)
    BY <1>5 DEF ChunkAllocated
  <2> HIDE DEF a, b
  <2>3. Splice(chunks, ChunkAllocated(i, n), i, i, 2, a, b)
    BY <1>1, <1>2, <2>1, <2>2, SpliceSplit
  <2> QED
    BY <1>3, <2>1, <2>3 DEF a
<1> QED BY <1>4, <1>5

\* A taken chunk and its free neighbours become one free chunk.
LEMMA FreeSplices ==
    ASSUME Tiles(chunks), Merged(chunks), NEW i \in 1..Len(chunks), chunks[i].taken
    PROVE  \E p, q \in 1..Len(chunks), a \in Chunk :
              /\ Splice(chunks, ChunkFreed(chunks, i), p, q, 1, a, a)
              /\ ~a.taken
              /\ i \in p..q /\ \A j \in p..q : j # i => ~chunks[j].taken
              /\ p = 1 \/ chunks[p - 1].taken
              /\ q = Len(chunks) \/ chunks[q + 1].taken
<1> DEFINE o == chunks[i].offset
           z == chunks[i].size
           x == chunks[i - 1].offset
           y == chunks[i - 1].size
           d == chunks[i + 1].size
           p == IF IsFree(chunks, i - 1) THEN i - 1 ELSE i
           q == IF IsFree(chunks, i + 1) THEN i + 1 ELSE i
           up == FreeSize(chunks, i + 1)
           a == IF IsFree(chunks, i - 1) THEN Free(x, y + (z + up)) ELSE Free(o, z + up)
<1>1. /\ o \in Nat /\ z \in Nat \ {0} /\ o + z <= Size
      /\ End(chunks[i]) = o + z /\ Len(chunks) \in Nat /\ i \in Nat
  BY TilesBounds, FreeNeighbours
<1>2. IsFree(chunks, i + 1) =>
          /\ i \in 1..(Len(chunks) - 1) /\ i + 1 \in 1..Len(chunks) /\ ~chunks[i + 1].taken
          /\ d \in Nat \ {0} /\ End(chunks[i + 1]) = o + (z + d) /\ o + (z + d) <= Size
          /\ up = d
  <2> HAVE IsFree(chunks, i + 1)
  <2>1. /\ i \in 1..(Len(chunks) - 1) /\ i + 1 \in 1..Len(chunks) /\ ~chunks[i + 1].taken
    BY FreeNeighbours
  <2>2. /\ d \in Nat \ {0} /\ chunks[i + 1].offset = o + z
        /\ End(chunks[i + 1]) = chunks[i + 1].offset + d /\ End(chunks[i + 1]) <= Size
    BY <2>1, TilesBounds
  <2>3. End(chunks[i + 1]) = o + (z + d)
    <3> HIDE DEF o, z, d
    <3> QED BY <1>1, <2>2
  <2> QED BY <2>1, <2>2, <2>3 DEF FreeSize
<1>3. ~IsFree(chunks, i + 1) => up = 0 /\ (i = Len(chunks) \/ chunks[i + 1].taken)
  BY FreeNeighbours DEF FreeSize
<1>4. IsFree(chunks, i - 1) =>
          /\ i - 1 \in 1..(Len(chunks) - 1) /\ ~chunks[i - 1].taken /\ i # 1
          /\ x \in Nat /\ y \in Nat \ {0} /\ x + y = o
  <2> HAVE IsFree(chunks, i - 1)
  <2>1. i - 1 \in 1..(Len(chunks) - 1) /\ ~chunks[i - 1].taken /\ i # 1
    BY FreeNeighbours
  <2>2. i - 1 \in 1..Len(chunks) /\ (i - 1) + 1 = i
    BY <1>1, <2>1
  <2>3. chunks[i - 1].offset + chunks[i - 1].size = chunks[(i - 1) + 1].offset
    BY <2>1, TilesBounds
  <2> QED BY <2>1, <2>2, <2>3, TilesBounds
<1>5. ~IsFree(chunks, i - 1) => i = 1 \/ chunks[i - 1].taken
  BY FreeNeighbours
<1>6. p \in 1..Len(chunks) /\ q \in 1..Len(chunks) /\ i \in p..q
  BY <1>1, <1>2, <1>4
<1>7. \A j \in p..q : j # i => ~chunks[j].taken
  <2> TAKE j \in p..q
  <2>1. j = i \/ (IsFree(chunks, i - 1) /\ j = i - 1) \/ (IsFree(chunks, i + 1) /\ j = i + 1)
    BY <1>1
  <2> QED BY <2>1, <1>2, <1>4
<1>8. p = 1 \/ chunks[p - 1].taken
  <2>1. CASE IsFree(chunks, i - 1) /\ i - 1 # 1
    <3>1. i - 2 \in 1..(Len(chunks) - 1) /\ (i - 2) + 1 = i - 1 /\ p - 1 = i - 2
      BY <1>1, <1>4, <2>1
    <3> QED BY <3>1, <1>4, <2>1 DEF Merged
  <2> QED BY <2>1, <1>5
<1>9. q = Len(chunks) \/ chunks[q + 1].taken
  <2>1. CASE IsFree(chunks, i + 1) /\ i + 1 # Len(chunks)
    <3>1. i + 1 \in 1..(Len(chunks) - 1) /\ q = i + 1
      BY <1>1, <1>2, <2>1
    <3> QED BY <3>1, <1>2, <2>1 DEF Merged
  <2> QED BY <2>1, <1>3
<1>10. /\ z + up \in Nat \ {0}
       /\ o + (z + up) = End(chunks[q]) /\ o + (z + up) <= Size
  BY <1>1, <1>2, <1>3
<1>11. a \in Chunk /\ ~a.taken /\ a.offset = chunks[p].offset /\ End(a) = End(chunks[q])
  <2> HIDE DEF o, z, x, y, d, up, q
  <2>1. CASE IsFree(chunks, i - 1)
    <3>1. /\ x \in Nat /\ y + (z + up) \in Nat \ {0} /\ x + (y + (z + up)) = o + (z + up)
          /\ x + (y + (z + up)) <= Size
      BY SMTT(60), <1>1, <1>4, <1>10, <2>1
    <3>2. p = i - 1 /\ a = Free(x, y + (z + up)) /\ chunks[p].offset = x
      BY <2>1 DEF x
    <3> HIDE DEF a, p
    <3> QED BY <3>1, <3>2, <1>10, ChunkMade
  <2>2. CASE ~IsFree(chunks, i - 1)
    <3>1. p = i /\ a = Free(o, z + up) /\ chunks[p].offset = o
      BY <2>2 DEF o
    <3> HIDE DEF a, p
    <3> QED BY <3>1, <1>1, <1>10, ChunkMade
  <2> QED BY <2>1, <2>2
<1>12. Splice(chunks, ChunkFreed(chunks, i), p, q, 1, a, a)
  <2>1. CASE IsFree(chunks, i - 1) /\ IsFree(chunks, i + 1)
    <3>1. p = i - 1 /\ q = i + 1 /\ i \in 2..(Len(chunks) - 1)
      BY <1>1, <1>2, <1>4, <2>1
    <3>2. ChunkFreed(chunks, i) = [RemoveAt(RemoveAt(chunks, i + 1), i) EXCEPT ![i - 1] = a]
      BY <2>1 DEF ChunkFreed
    <3> HIDE DEF a, p, q
    <3>3. a \in Chunk /\ a.offset = chunks[i - 1].offset /\ End(a) = End(chunks[i + 1])
      BY <1>11, <3>1
    <3>4. Splice(chunks, [RemoveAt(RemoveAt(chunks, i + 1), i) EXCEPT ![i - 1] = a],
                 i - 1, i + 1, 1, a, a)
      BY <3>1, <3>3, SpliceBetween
    <3> QED BY <3>1, <3>2, <3>4
  <2>2. CASE IsFree(chunks, i - 1) /\ ~IsFree(chunks, i + 1)
    <3>1. p = i - 1 /\ q = i /\ i - 1 \in 1..(Len(chunks) - 1) /\ (i - 1) + 1 = i
      BY <1>1, <1>4, <2>2
    <3>2. ChunkFreed(chunks, i) = [RemoveAt(chunks, i) EXCEPT ![i - 1] = a]
      BY <2>2 DEF ChunkFreed
    <3> HIDE DEF a, p, q
    <3> DEFINE m == i - 1
    <3>4. m \in 1..(Len(chunks) - 1) /\ m + 1 = i /\ a \in Chunk
          /\ a.offset = chunks[m].offset /\ End(a) = End(chunks[m + 1])
      BY <1>11, <3>1
    <3> HIDE DEF m
    <3>5. Splice(chunks, [RemoveAt(chunks, m + 1) EXCEPT ![m] = a], m, m + 1, 1, a, a)
      BY <3>4, SpliceJoin
    <3> QED BY <3>1, <3>2, <3>4, <3>5 DEF m
  <2>3. CASE ~IsFree(chunks, i - 1) /\ IsFree(chunks, i + 1)
    <3>1. p = i /\ q = i + 1 /\ i \in 1..(Len(chunks) - 1)
      BY <1>2, <2>3
    <3>2. ChunkFreed(chunks, i) = [RemoveAt(chunks, i + 1) EXCEPT ![i] = a]
      BY <2>3 DEF ChunkFreed
    <3> HIDE DEF a, p, q
    <3>3. Splice(chunks, [RemoveAt(chunks, i + 1) EXCEPT ![i] = a], i, i + 1, 1, a, a)
      BY <1>11, <3>1, SpliceJoin
    <3> QED BY <3>1, <3>2, <3>3
  <2>4. CASE ~IsFree(chunks, i - 1) /\ ~IsFree(chunks, i + 1)
    <3>1. p = i /\ q = i
      BY <2>4
    <3>2. ChunkFreed(chunks, i) = [chunks EXCEPT ![i] = a]
      BY <2>4 DEF ChunkFreed
    <3> HIDE DEF a, p, q
    <3>3. Splice(chunks, [chunks EXCEPT ![i] = a], i, i, 1, a, a)
      BY <1>11, <3>1, SpliceReplace
    <3> QED BY <3>1, <3>2, <3>3
  <2> QED BY <2>1, <2>2, <2>3, <2>4
<1> HIDE DEF a, p, q
<1> QED
  BY <1>6, <1>7, <1>8, <1>9, <1>11, <1>12

-----------------------------------------------------------------------------
(* Every step keeps the invariant.                                         *)

\* A region of n bytes opened where a splice put its chunk.
LEMMA GrantKeeps ==
    ASSUME HeapOK(chunks, regions, writable),
           NEW ds, NEW p, NEW q, NEW k, NEW b, NEW offset, NEW n \in Nat \ {0},
           Splice(chunks, ds, p, q, k, Taken(offset, n + 1), b),
           NEW m \in p..q, \A j \in p..q : j # m => ~chunks[j].taken,
           k = 2 => ~b.taken,
           k = 2 => q = Len(chunks) \/ chunks[q + 1].taken,
           NEW v, v \subseteq Granted(offset, n)
    PROVE  HeapOK(ds,
                  (regions \ (IF chunks[m].taken THEN {RegionOf(chunks[m])} ELSE {}))
                      \cup {Region(offset, n)},
                  v)
<1> DEFINE a == Taken(offset, n + 1)
<1>0. Tiles(chunks) /\ k \in {1, 2} /\ q \in 1..Len(chunks) /\ p \in 1..Len(chunks)
  <2>1. p \in Int /\ q \in Int /\ 1 <= p /\ p <= q /\ q <= Len(chunks) /\ Len(chunks) \in Nat
        /\ k \in {1, 2} /\ Tiles(chunks)
    BY TilesFields DEF Splice, HeapOK
  <2> QED BY <2>1
<1>1. /\ a.offset = offset /\ a.taken /\ a.size = n + 1 /\ a.size >= 2
      /\ End(a) = offset + (n + 1) /\ RegionOf(a) = Region(offset, n)
  BY DEF Taken, End, RegionOf, Region
<1>2. /\ offset = chunks[p].offset /\ offset \in Nat
      /\ k = 1 => End(a) = End(chunks[q])
      /\ k = 2 => End(a) = b.offset /\ End(b) = End(chunks[q]) /\ b \in Chunk
  BY <1>0, <1>1, TilesFields DEF Splice
<1>3. /\ k = 2 => b.offset \in Nat /\ End(b) \in Nat /\ b.offset < End(b)
      /\ End(chunks[q]) \in Nat /\ End(chunks[q]) <= Size
      /\ End(chunks[q]) - 1 \notin writable
  BY <1>0, <1>2, ChunkFields, TilesFields, TilesBounds DEF HeapOK, Sealed
<1>4. End(a) <= End(chunks[q])
  BY <1>0, <1>1, <1>2, <1>3
<1>5. \A c \in v : (c \in writable \/ (offset <= c /\ c < offset + n)) /\ c # offset + n
  BY <1>2 DEF Granted, Extent
<1>6. v \in SUBSET Cells
  <2> SUFFICES ASSUME NEW c \in v PROVE c \in Cells
    OBVIOUS
  <2>1. CASE c \in writable
    BY <2>1 DEF HeapOK
  <2>2. CASE c \notin writable
    <3>1. c \in Extent(offset, n)
      BY <2>2 DEF Granted
    <3>2. c \in Nat /\ offset <= c /\ c < offset + n
      BY <1>2, <3>1 DEF Extent
    <3>3. offset + (n + 1) <= Size
      BY <1>1, <1>2, <1>3, <1>4, SizeAssumption
    <3> QED BY <1>2, <3>2, <3>3, SizeAssumption DEF Cells
  <2> QED BY <2>1, <2>2
<1>7. \A c \in v : c \in writable \/ (chunks[p].offset <= c /\ c < End(chunks[q]))
  <2> TAKE c \in v
  <2>1. CASE c \notin writable
    <3>1. c \in Nat /\ offset <= c /\ c < offset + n
      BY <1>2, <1>5, <1>6, <2>1 DEF Cells
    <3> QED BY <1>1, <1>2, <1>3, <1>4, <3>1
  <2> QED BY <2>1
<1>8. End(a) - 1 \notin v
  <2>1. End(a) - 1 = offset + n
    BY <1>1, <1>2
  <2> QED BY <1>5, <2>1
<1>9. k = 2 => End(b) - 1 \notin v
  <2> HAVE k = 2
  <2>1. End(b) - 1 \notin writable /\ ~(End(b) - 1 < offset + n)
    BY <1>1, <1>2, <1>3
  <2> QED BY <1>5, <2>1
<1>10. HeapOK(ds,
              (regions \ (IF chunks[m].taken THEN {RegionOf(chunks[m])} ELSE {}))
                  \cup (IF a.taken THEN {RegionOf(a)} ELSE {}),
              v)
  <2> HIDE DEF a
  <2>1. Splice(chunks, ds, p, q, k, a, b)
    BY DEF a
  <2>2. q = Len(chunks) \/ chunks[q + 1].taken \/ (k = 1 /\ a.taken)
    BY <1>0, <1>1
  <2> QED
    BY <1>1, <1>6, <1>7, <1>8, <1>9, <2>1, <2>2, SpliceHeap
<1> QED BY <1>1, <1>10

LEMMA ResizeKeeps ==
    ASSUME HeapOK(chunks, regions, writable),
           NEW i \in 1..Len(chunks), chunks[i].taken,
           NEW ds, NEW offset, NEW n \in Nat \ {0}, Resized(i, offset, n + 1, ds),
           NEW v, v \subseteq Granted(offset, n)
    PROVE  HeapOK(ds, (regions \ {RegionOf(chunks[i])}) \cup {Region(offset, n)}, v)
<1>1. PICK p, q \in 1..Len(chunks), k \in {1, 2}, b \in Chunk :
          /\ Splice(chunks, ds, p, q, k, Taken(offset, n + 1), b)
          /\ i \in p..q
          /\ \A j \in p..q : j # i => ~chunks[j].taken
          /\ k = 2 => ~b.taken
          /\ k = 2 => q = Len(chunks) \/ chunks[q + 1].taken
  BY DEF Resized
<1>2. HeapOK(ds,
             (regions \ (IF chunks[i].taken THEN {RegionOf(chunks[i])} ELSE {}))
                 \cup {Region(offset, n)},
             v)
  BY <1>1, GrantKeeps
<1> QED BY <1>2

LEMMA AllocateKeeps ==
    ASSUME HeapInv, ~torn, NEW n \in Nat, Allocate(n)
    PROVE  HeapInv'
<1>1. CASE \E status \in Statuses : Return(status)
  BY <1>1 DEF HeapInv, TypeOK, Return
<1>2. CASE /\ n > 0
           /\ \E i \in DOMAIN chunks :
                 /\ FirstFit(i, n + 1)
                 /\ chunks' = ChunkAllocated(i, n + 1)
                 /\ writable' = Granted(chunks[i].offset, n)
                 /\ regions' = regions \cup {Region(chunks[i].offset, n)}
           /\ result' = "Ok"
           /\ UNCHANGED <<data, torn>>
  <2>0. HeapOK(chunks, regions, writable) /\ Tiles(chunks) /\ Merged(chunks)
    BY DEF HeapInv, HeapOK
  <2>1. PICK i \in 1..Len(chunks) :
                 /\ FirstFit(i, n + 1)
                 /\ chunks' = ChunkAllocated(i, n + 1)
                 /\ writable' = Granted(chunks[i].offset, n)
                 /\ regions' = regions \cup {Region(chunks[i].offset, n)}
    BY <1>2, <2>0, TilesBounds
  <2>2. ~chunks[i].taken /\ chunks[i].size >= n + 1 /\ n \in Nat \ {0} /\ n + 1 \in Nat \ {0}
    BY <1>2, <2>1 DEF FirstFit, IsFree
  <2>3. PICK k \in {1, 2}, b \in Chunk :
              /\ Splice(chunks, chunks', i, i, k, Taken(chunks[i].offset, n + 1), b)
              /\ k = 2 => ~b.taken
              /\ k = 2 => i = Len(chunks) \/ chunks[i + 1].taken
    BY <2>0, <2>1, <2>2, AllocateSplices
  <2>4. i \in i..i /\ \A j \in i..i : j # i => ~chunks[j].taken
    BY <2>0, FreeNeighbours
  <2>5. HeapOK(chunks',
               (regions \ (IF chunks[i].taken THEN {RegionOf(chunks[i])} ELSE {}))
                   \cup {Region(chunks[i].offset, n)},
               writable')
    BY <2>0, <2>1, <2>2, <2>3, <2>4, GrantKeeps
  <2>6. HeapOK(chunks', regions', writable')
    BY <2>1, <2>2, <2>5
  <2>7. chunks' \in Seq(Chunk) /\ writable' \in SUBSET Cells
        /\ regions' \in SUBSET [lo : Cells, hi : Cells]
    BY <2>6, HeapRegions DEF HeapOK, Tiles
  <2> QED
    BY <1>2, <2>6, <2>7 DEF HeapInv, TypeOK, Statuses
<1> QED BY <1>1, <1>2 DEF Allocate, Statuses

LEMMA DeallocateKeeps ==
    ASSUME HeapInv, ~torn, NEW addr, Deallocate(addr)
    PROVE  HeapInv'
<1>1. CASE \E status \in Statuses : Return(status)
  BY <1>1 DEF HeapInv, TypeOK, Return
<1>2. ASSUME NEW r \in regions, r.lo = addr,
             NEW i \in DOMAIN chunks, Holds(chunks, i, addr),
             chunks' = ChunkFreed(chunks, i),
             writable' = writable \ Extent(r.lo, r.hi - r.lo),
             regions' = regions \ {r}, result' = "Ok", UNCHANGED <<data, torn>>
      PROVE  HeapInv'
  <2>0. HeapOK(chunks, regions, writable) /\ Tiles(chunks) /\ Merged(chunks)
    BY DEF HeapInv, HeapOK
  <2>1. i \in 1..Len(chunks) /\ chunks[i].taken /\ chunks[i].offset = r.lo
    BY <1>2, <2>0, TilesBounds DEF Holds
  <2>2. r = RegionOf(chunks[i])
    BY <2>0, <2>1, HeapRegions
  <2>3. PICK p, q \in 1..Len(chunks), a \in Chunk :
              /\ Splice(chunks, ChunkFreed(chunks, i), p, q, 1, a, a)
              /\ ~a.taken
              /\ i \in p..q /\ \A j \in p..q : j # i => ~chunks[j].taken
              /\ p = 1 \/ chunks[p - 1].taken
              /\ q = Len(chunks) \/ chunks[q + 1].taken
    BY <2>0, <2>1, FreeSplices
  <2>4. writable' \in SUBSET Cells /\ \A c \in writable' : c \in writable
    BY <1>2, <2>0 DEF HeapOK
  <2>5. End(a) - 1 \notin writable'
    <3>1. End(a) = End(chunks[q])
      BY <2>3 DEF Splice
    <3>2. End(chunks[q]) - 1 \notin writable
      BY <2>0 DEF HeapOK, Sealed
    <3> QED BY <2>4, <3>1, <3>2
  <2>6. HeapOK(ChunkFreed(chunks, i),
               (regions \ (IF chunks[i].taken THEN {RegionOf(chunks[i])} ELSE {}))
                   \cup (IF a.taken THEN {RegionOf(a)} ELSE {}),
               writable')
    BY <2>0, <2>3, <2>4, <2>5, SpliceHeap
  <2>7. HeapOK(chunks', regions', writable')
    BY <1>2, <2>1, <2>2, <2>3, <2>6
  <2>8. chunks' \in Seq(Chunk) /\ writable' \in SUBSET Cells
        /\ regions' \in SUBSET [lo : Cells, hi : Cells]
    BY <2>7, HeapRegions DEF HeapOK, Tiles
  <2> QED
    BY <1>2, <2>7, <2>8 DEF HeapInv, TypeOK, Statuses
<1> QED BY <1>1, <1>2 DEF Deallocate, RegionAt, Statuses

\* What a committed reallocation of region r leaves.
Committed(r, ds, offset, n) ==
    /\ n > 0
    /\ chunks' = ds
    /\ regions' = (regions \ {r}) \cup {Region(offset, n)}
    /\ writable' \subseteq Granted(offset, n)
    /\ data' = IF offset # r.lo THEN Moved(data, r.lo, offset, r.hi - r.lo) ELSE data
    /\ result' = "Ok"

\* A region lies in its chunk, below the red zone.
LEMMA RegionPlace ==
    ASSUME HeapOK(chunks, regions, writable), NEW r \in regions,
           NEW i \in 1..Len(chunks), chunks[i].taken, chunks[i].offset = r.lo
    PROVE  /\ r = RegionOf(chunks[i])
           /\ r.lo \in Nat /\ r.hi \in Nat /\ r.lo < r.hi
           /\ r.hi + 1 = End(chunks[i]) /\ r.hi < Size
           /\ r.hi - r.lo \in Nat /\ r.lo + (r.hi - r.lo) = r.hi
           /\ chunks[i].size = (r.hi - r.lo) + 1
<1>1. r = RegionOf(chunks[i]) /\ r.hi = chunks[i].offset + chunks[i].size - 1
      /\ chunks[i].size >= 2
  BY HeapRegions
<1>2. /\ chunks[i].offset \in Nat /\ chunks[i].size \in Nat
      /\ End(chunks[i]) = chunks[i].offset + chunks[i].size /\ End(chunks[i]) <= Size
  BY TilesBounds DEF HeapOK
<1> DEFINE o == chunks[i].offset
           z == chunks[i].size
<1>3. r.hi = o + z - 1 /\ z >= 2 /\ o \in Nat /\ z \in Nat /\ End(chunks[i]) = o + z
      /\ o + z <= Size /\ r.lo = o
  BY <1>1, <1>2
<1> HIDE DEF o, z
<1>4. /\ r.lo \in Nat /\ r.hi \in Nat /\ r.lo < r.hi
      /\ r.hi + 1 = End(chunks[i]) /\ r.hi < Size
      /\ r.hi - r.lo \in Nat /\ r.lo + (r.hi - r.lo) = r.hi
      /\ z = (r.hi - r.lo) + 1
  BY <1>3, SizeAssumption
<1> QED BY <1>1, <1>4 DEF z

LEMMA CommitShape ==
    ASSUME HeapInv, HeapOK(chunks, regions, writable), NEW r \in regions,
           NEW i \in 1..Len(chunks), chunks[i].taken, chunks[i].offset = r.lo,
           NEW ds, NEW offset \in Nat, NEW n \in Nat, Commit(r, ds, offset, n)
    PROVE  \/ Return("Panic")
           \/ Committed(r, ds, offset, n)
<1>1. CASE Return("Panic")
  BY <1>1
<1>2. CASE /\ ~(n = 0 \/ (offset # r.lo /\ LengthsDiffer(r.lo, offset, r.hi - r.lo)))
           /\ chunks' = ds
           /\ writable' = IF offset # r.lo
                          THEN Granted(offset, n) \ Extent(r.lo, r.hi - r.lo)
                          ELSE Granted(offset, n)
           /\ data' = IF offset # r.lo THEN Copied(data, r.lo, offset, r.hi - r.lo)
                                       ELSE data
           /\ regions' = (regions \ {r}) \cup {Region(offset, n)}
           /\ result' = "Ok"
  <2>1. Copied(data, r.lo, offset, r.hi - r.lo) = Moved(data, r.lo, offset, r.hi - r.lo)
    BY RegionPlace, CopiedIsMoved
  <2> QED BY <1>2, <2>1 DEF Committed
<1> QED BY <1>1, <1>2 DEF Commit

LEMMA DataMoved ==
    ASSUME HeapInv, HeapOK(chunks, regions, writable), NEW r \in regions,
           NEW i \in 1..Len(chunks), chunks[i].taken, chunks[i].offset = r.lo,
           NEW offset \in Nat
    PROVE  Moved(data, r.lo, offset, r.hi - r.lo) \in [Cells -> Values]
<1>1. /\ r.lo \in Nat /\ r.hi - r.lo \in Nat /\ r.lo + (r.hi - r.lo) <= Size
  BY RegionPlace, SizeAssumption
<1> QED BY <1>1, MovedType DEF HeapInv, TypeOK

\* A committed reallocation that resizes its chunk keeps the invariant.
LEMMA ResizeCommits ==
    ASSUME HeapInv, ~torn, NEW r \in regions,
           NEW i \in 1..Len(chunks), chunks[i].taken, chunks[i].offset = r.lo,
           NEW ds, NEW offset \in Nat, NEW n \in Nat,
           n > 0 => Resized(i, offset, n + 1, ds),
           Commit(r, ds, offset, n), torn' \in BOOLEAN
    PROVE  HeapInv'
<1>0. HeapOK(chunks, regions, writable)
  BY DEF HeapInv
<1>1. CASE Return("Panic")
  BY <1>1 DEF Return, HeapInv, TypeOK, Statuses
<1>2. CASE Committed(r, ds, offset, n)
  <2>1. n \in Nat \ {0}
    BY <1>2 DEF Committed
  <2>2. r = RegionOf(chunks[i])
    BY <1>0, RegionPlace
  <2>3. HeapOK(chunks', regions', writable')
    BY <1>0, <1>2, <2>1, <2>2, ResizeKeeps DEF Committed
  <2>4. chunks' \in Seq(Chunk) /\ writable' \in SUBSET Cells
        /\ regions' \in SUBSET [lo : Cells, hi : Cells]
    BY <2>3, HeapRegions DEF HeapOK, Tiles
  <2>5. data' \in [Cells -> Values]
    BY <1>0, <1>2, DataMoved DEF Committed, HeapInv, TypeOK
  <2> QED
    BY <1>2, <2>3, <2>4, <2>5 DEF HeapInv, TypeOK, Statuses, Committed
<1> QED BY <1>0, <1>1, <1>2, CommitShape

LEMMA FreeSizeNat ==
    ASSUME Tiles(chunks), NEW i \in 1..Len(chunks)
    PROVE  FreeSize(chunks, i + 1) \in Nat /\ FreeSize(chunks, i - 1) \in Nat
<1>1. /\ IsFree(chunks, i + 1) => i + 1 \in 1..Len(chunks)
      /\ IsFree(chunks, i - 1) => i - 1 \in 1..Len(chunks)
  BY FreeNeighbours
<1> QED BY <1>1, TilesBounds DEF FreeSize

\* A reallocation that has to move its region never completes.
LEMMA MoveNeverCommits ==
    ASSUME HeapInv, ~torn, NEW r \in regions,
           NEW i \in 1..Len(chunks), chunks[i].taken, chunks[i].offset = r.lo,
           NEW n \in Nat, ReallocateMove(r, i, n)
    PROVE  Return("NotEnoughFreeSpace") \/ Return("Panic")
<1>0. HeapOK(chunks, regions, writable) /\ Tiles(chunks)
  BY DEF HeapInv, HeapOK
<1>1. CASE Return("NotEnoughFreeSpace")
  BY <1>1
<1>2. ASSUME NEW j \in DOMAIN chunks, FirstFit(j, n + 1), NEW cs,
             Commit(r, cs, chunks[j].offset, n)
      PROVE  Return("Panic")
  <2> DEFINE s == r.lo
             d == chunks[j].offset
             m == r.hi - r.lo
             z == chunks[j].size
  <2>1. j \in 1..Len(chunks) /\ ~chunks[j].taken /\ z >= n + 1
    BY <1>0, <1>2, TilesBounds DEF FirstFit, IsFree
  <2>2. m < n
    <3>1. chunks[i].size = m + 1 /\ m \in Nat
      BY <1>0, RegionPlace
    <3>2. FreeSize(chunks, i - 1) + chunks[i].size + FreeSize(chunks, i + 1) < n + 1
      BY DEF ReallocateMove
    <3> HIDE DEF m
    <3> QED BY <1>0, <3>1, <3>2, FreeSizeNat
  <2>3. i # j
    BY <2>1
  <2>4. /\ s \in Nat /\ m \in Nat /\ s + m + 1 = End(chunks[i]) /\ s + m < Size
        /\ d \in Nat /\ z \in Nat /\ d + z = End(chunks[j]) /\ d + z <= Size
    <3>1. /\ s \in Nat /\ m \in Nat /\ s + m = r.hi /\ r.hi + 1 = End(chunks[i])
          /\ r.hi < Size
      BY <1>0, RegionPlace
    <3>2. d \in Nat /\ z \in Nat /\ d + z = End(chunks[j]) /\ End(chunks[j]) <= Size
      BY <1>0, <2>1, TilesBounds
    <3> HIDE DEF s, d, m, z
    <3> QED BY <3>1, <3>2
  <2>5. (i < j /\ End(chunks[i]) <= d) \/ (j < i /\ End(chunks[j]) <= s)
    <3>1. i < j => End(chunks[i]) <= d
      BY <1>0, <2>1 DEF Tiles
    <3>2. j < i => End(chunks[j]) <= s
      BY <1>0, <2>1 DEF Tiles
    <3>3. i < j \/ j < i
      BY <2>1, <2>3, <1>0, FreeNeighbours
    <3> QED BY <3>1, <3>2, <3>3
  <2>6. d # s /\ LengthsDiffer(s, d, m)
    <3> HIDE DEF s, d, m, z
    <3>1. CASE End(chunks[i]) <= d
      BY <2>1, <2>2, <2>4, <3>1, SizeAssumption DEF LengthsDiffer
    <3>2. CASE End(chunks[j]) <= s
      BY <2>1, <2>2, <2>4, <3>2, SizeAssumption DEF LengthsDiffer
    <3> QED BY <2>5, <3>1, <3>2
  <2> QED BY <1>2, <2>6 DEF Commit
<1> QED BY <1>1, <1>2 DEF ReallocateMove

\* A downward merge that does not panic leaves a list of chunks, torn or not.
LEMMA GrowDownType ==
    ASSUME Tiles(chunks), NEW i \in 1..Len(chunks), NEW n \in Nat \ {0},
           IsFree(chunks, i - 1), ~GrowDownPanics(i, n),
           chunks[i].size + FreeSize(chunks, i + 1) + FreeSize(chunks, i - 1) >= n
    PROVE  /\ ChunkGrownDown(i, n) \in Seq(Chunk)
           /\ chunks[i - 1].offset \in Nat /\ chunks[i - 1].offset + n <= Size
<1> DEFINE o == chunks[i - 1].offset
           y == FreeSize(chunks, i - 1)
           z == chunks[i].size
           d == FreeSize(chunks, i + 1)
           a == Taken(o, n)
           b == Free(o + n, (y + z + d) - n)
           grown == [chunks EXCEPT ![i - 1] = a]
<1>1. /\ i # 1 /\ i - 1 \in 1..(Len(chunks) - 1) /\ i - 1 \in 1..Len(chunks)
      /\ Len(chunks) \in Nat /\ i \in Nat /\ chunks \in Seq(Chunk)
  <2>1. i # 1 /\ i - 1 \in 1..(Len(chunks) - 1) /\ Len(chunks) \in Nat /\ i \in Nat
    BY FreeNeighbours
  <2> QED BY <2>1, TilesBounds
<1>2. /\ o \in Nat /\ y \in Nat \ {0} /\ z \in Nat \ {0} /\ d \in Nat
      /\ o + y + z + d <= Size
  <2>1. y = chunks[i - 1].size
    BY DEF FreeSize
  <2>2. o \in Nat /\ y \in Nat \ {0} /\ z \in Nat \ {0}
    BY <1>1, <2>1, TilesBounds
  <2>3. chunks[i - 1].offset + chunks[i - 1].size = chunks[(i - 1) + 1].offset
    BY <1>1, TilesBounds
  <2>4. o + y = chunks[i].offset
    BY <1>1, <2>1, <2>3
  <2>5. chunks[i].offset \in Nat /\ chunks[i].offset + z <= Size
    BY TilesBounds
  <2>6. CASE IsFree(chunks, i + 1)
    <3>1. i + 1 \in 1..Len(chunks) /\ i \in 1..(Len(chunks) - 1)
      BY <2>6, FreeNeighbours
    <3>2. d = chunks[i + 1].size
      BY <2>6 DEF FreeSize
    <3>3. /\ d \in Nat /\ chunks[i + 1].offset + d <= Size
          /\ chunks[i].offset + z = chunks[i + 1].offset
      BY <3>1, <3>2, TilesBounds
    <3> HIDE DEF o, y, z, d
    <3> QED BY <2>2, <2>4, <2>5, <3>3, SizeAssumption
  <2>7. CASE ~IsFree(chunks, i + 1)
    <3>1. d = 0
      BY <2>7 DEF FreeSize
    <3> HIDE DEF o, y, z, d
    <3> QED BY <2>2, <2>4, <2>5, <3>1, SizeAssumption
  <2> QED BY <2>6, <2>7
<1>3. y + z + d >= n
  <2>1. z + d + y >= n
    OBVIOUS
  <2> HIDE DEF o, y, z, d
  <2> QED BY <1>2, <2>1
<1>4. o + n <= Size
  <2> HIDE DEF o, y, z, d
  <2> QED BY <1>2, <1>3, SizeAssumption
<1>5. a \in Chunk
  <2> HIDE DEF o
  <2> QED BY <1>2, <1>4, ChunkMade
<1> HIDE DEF a
<1>6. grown \in Seq(Chunk) /\ Len(grown) = Len(chunks)
  BY <1>1, <1>5, ExceptElements
<1>7. CASE y + z + d = n
  <2>1. ChunkGrownDown(i, n) = RemoveAt(RemoveAt(grown, i), i + 1)
    BY <1>7 DEF ChunkGrownDown, a
  <2>2. i + 1 <= Len(chunks) - 1
    BY <1>1, <1>7 DEF GrowDownPanics
  <2> HIDE DEF grown
  <2>3. i \in 1..Len(grown)
    BY <1>6
  <2> DEFINE cut == RemoveAt(grown, i)
  <2>4. cut \in Seq(Chunk) /\ Len(cut) = Len(chunks) - 1
    BY <1>6, <2>3, RemoveAtElements
  <2> HIDE DEF cut
  <2>5. i + 1 \in 1..Len(cut)
    BY <1>1, <2>2, <2>4
  <2>6. RemoveAt(cut, i + 1) \in Seq(Chunk)
    BY <2>4, <2>5, RemoveAtElements
  <2> QED BY <1>2, <1>4, <2>1, <2>6 DEF cut
<1>8. CASE y + z + d # n
  <2>1. b \in Chunk
    <3> HIDE DEF o, y, z, d
    <3>1. /\ o + n \in Nat /\ (y + z + d) - n \in Nat \ {0}
          /\ (o + n) + ((y + z + d) - n) <= Size
      BY <1>2, <1>3, <1>8, SizeAssumption
    <3> QED BY <3>1, ChunkMade
  <2> HIDE DEF b
  <2>2. ChunkGrownDown(i, n) = RemoveAt([grown EXCEPT ![i] = b], i + 1)
    BY <1>8 DEF ChunkGrownDown, a, b
  <2>3. i + 1 <= Len(chunks)
    BY <1>1, <1>8 DEF GrowDownPanics
  <2> HIDE DEF grown
  <2> DEFINE split == [grown EXCEPT ![i] = b]
  <2>4. split \in Seq(Chunk) /\ Len(split) = Len(chunks)
    BY <1>6, <2>1, ExceptElements
  <2> HIDE DEF split
  <2>5. i + 1 \in 1..Len(split)
    BY <1>1, <2>3, <2>4
  <2>6. RemoveAt(split, i + 1) \in Seq(Chunk)
    BY <2>4, <2>5, RemoveAtElements
  <2> QED BY <1>2, <1>4, <2>2, <2>6 DEF split
<1> QED BY <1>7, <1>8

LEMMA DownKeeps ==
    ASSUME HeapInv, ~torn, NEW r \in regions,
           NEW i \in 1..Len(chunks), chunks[i].taken, chunks[i].offset = r.lo,
           NEW n \in Nat, ReallocateDown(r, i, n)
    PROVE  HeapInv'
<1>0. HeapOK(chunks, regions, writable) /\ Tiles(chunks) /\ Merged(chunks)
  BY DEF HeapInv, HeapOK
<1>1. CASE Return("Panic")
  BY <1>1 DEF Return, HeapInv, TypeOK, Statuses
<1>2. CASE /\ ~GrowDownPanics(i, n + 1)
           /\ Commit(r, ChunkGrownDown(i, n + 1), chunks[i - 1].offset, n)
           /\ torn' = (result' = "Ok" /\ GrowDownTears(i, n + 1))
  <2>1. /\ chunks[i].size + FreeSize(chunks, i + 1) < n + 1
        /\ chunks[i].size + FreeSize(chunks, i + 1) + FreeSize(chunks, i - 1) >= n + 1
    BY DEF ReallocateDown
  <2>2. IsFree(chunks, i - 1)
    <3>1. chunks[i].size \in Nat /\ FreeSize(chunks, i + 1) \in Nat
      BY <1>0, FreeSizeNat, TilesBounds
    <3>2. ~IsFree(chunks, i - 1) => FreeSize(chunks, i - 1) = 0
      BY DEF FreeSize
    <3> QED BY <2>1, <3>1, <3>2
  <2>3. /\ ChunkGrownDown(i, n + 1) \in Seq(Chunk)
        /\ chunks[i - 1].offset \in Nat /\ chunks[i - 1].offset + (n + 1) <= Size
    <3>1. n + 1 \in Nat \ {0}
      OBVIOUS
    <3> QED BY <1>0, <1>2, <2>1, <2>2, <3>1, GrowDownType
  <2>4. torn' \in BOOLEAN
    BY <1>2
  <2>5. CASE ~GrowDownTears(i, n + 1)
    <3>1. Resized(i, chunks[i - 1].offset, n + 1, ChunkGrownDown(i, n + 1))
      BY <1>0, <2>2, <2>5, GrowDownResizes
    <3> QED
      BY <1>2, <2>3, <2>4, <3>1, ResizeCommits
  <2>6. CASE GrowDownTears(i, n + 1)
    <3>1. CASE Return("Panic")
      BY <3>1 DEF Return, HeapInv, TypeOK, Statuses
    <3>2. CASE Committed(r, ChunkGrownDown(i, n + 1), chunks[i - 1].offset, n)
      <4>1. torn' = TRUE
        BY <1>2, <2>6, <3>2 DEF Committed
      <4>2. chunks' \in Seq(Chunk)
        BY <2>3, <3>2 DEF Committed
      <4>3. Region(chunks[i - 1].offset, n) \in [lo : Cells, hi : Cells]
        <5> DEFINE o == chunks[i - 1].offset
        <5>1. o \in Nat /\ o + (n + 1) <= Size
          BY <2>3
        <5> HIDE DEF o
        <5>2. o \in Cells /\ o + n \in Cells
          BY <5>1, SizeAssumption DEF Cells
        <5>3. Region(o, n) \in [lo : Cells, hi : Cells]
          BY <5>2 DEF Region
        <5> QED BY <5>3 DEF o
      <4>4. regions' \in SUBSET [lo : Cells, hi : Cells]
        BY <3>2, <4>3 DEF Committed, HeapInv, TypeOK
      <4>5. writable' \in SUBSET Cells
        <5>1. Extent(chunks[i - 1].offset, n) \subseteq Cells
          BY <2>3, SizeAssumption DEF Extent, Cells
        <5> QED BY <3>2, <5>1 DEF Committed, Granted, HeapInv, TypeOK
      <4>6. data' \in [Cells -> Values]
        BY <1>0, <2>3, <3>2, DataMoved DEF Committed, HeapInv, TypeOK
      <4> QED
        BY <3>2, <4>1, <4>2, <4>4, <4>5, <4>6 DEF HeapInv, TypeOK, Statuses, Committed
    <3> QED
      BY <1>0, <1>2, <2>3, <3>1, <3>2, CommitShape
  <2> QED BY <2>5, <2>6
<1> QED BY <1>1, <1>2 DEF ReallocateDown

LEMMA ReallocateKeeps ==
    ASSUME HeapInv, ~torn, NEW addr, NEW n \in Nat, Reallocate(addr, n)
    PROVE  HeapInv'
<1>0. HeapOK(chunks, regions, writable) /\ Tiles(chunks) /\ Merged(chunks)
  BY DEF HeapInv, HeapOK
<1>1. CASE \E status \in Statuses : Return(status)
  BY <1>1 DEF HeapInv, TypeOK, Return
<1>2. ASSUME NEW r \in regions, r.lo = addr,
             NEW i \in DOMAIN chunks, Holds(chunks, i, addr),
             \/ ReallocateKeep(r, i, n)
             \/ ReallocateShrink(r, i, n)
             \/ ReallocateUp(r, i, n)
             \/ ReallocateDown(r, i, n)
             \/ ReallocateMove(r, i, n)
      PROVE  HeapInv'
  <2>1. i \in 1..Len(chunks) /\ chunks[i].taken /\ chunks[i].offset = r.lo
    BY <1>0, <1>2, TilesBounds DEF Holds
  <2>2. r.lo \in Nat /\ n + 1 \in Nat \ {0}
    BY <1>0, <2>1, RegionPlace
  <2>3. torn' = torn => torn' \in BOOLEAN
    BY DEF HeapInv, TypeOK
  <2>4. CASE ReallocateKeep(r, i, n)
    <3>1. Resized(i, r.lo, n + 1, chunks)
      BY <1>0, <2>1, <2>4, KeepResizes DEF ReallocateKeep
    <3> QED BY <2>1, <2>2, <2>3, <2>4, <3>1, ResizeCommits DEF ReallocateKeep
  <2>5. CASE ReallocateShrink(r, i, n)
    <3>1. Resized(i, r.lo, n + 1, ChunkShrunk(i, n + 1))
      BY <1>0, <2>1, <2>2, <2>5, ShrinkResizes DEF ReallocateShrink
    <3> QED BY <2>1, <2>2, <2>3, <2>5, <3>1, ResizeCommits DEF ReallocateShrink
  <2>6. CASE ReallocateUp(r, i, n)
    <3>1. Resized(i, r.lo, n + 1, ChunkGrownUp(i, n + 1))
      BY <1>0, <2>1, <2>2, <2>6, GrowUpResizes DEF ReallocateUp
    <3> QED BY <2>1, <2>2, <2>3, <2>6, <3>1, ResizeCommits DEF ReallocateUp
  <2>7. CASE ReallocateDown(r, i, n)
    BY <2>1, <2>7, DownKeeps
  <2>8. CASE ReallocateMove(r, i, n)
    <3>1. Return("NotEnoughFreeSpace") \/ Return("Panic")
      BY <2>1, <2>8, MoveNeverCommits
    <3> QED BY <1>1, <3>1 DEF Statuses
  <2> QED BY <1>2, <2>4, <2>5, <2>6, <2>7, <2>8
<1> QED BY <1>1, <1>2 DEF Reallocate, RegionAt, Statuses

\* Accesses change contents alone.
LEMMA AccessShape ==
    ASSUME HeapInv, Access
    PROVE  /\ UNCHANGED <<chunks, regions, writable, torn>>
           /\ data' \in [Cells -> Values]
           /\ result' \in Statuses
<1>0. data \in [Cells -> Values]
  BY DEF HeapInv, TypeOK
<1>1. ASSUME NEW status \in Statuses, Return(status)
      PROVE  /\ UNCHANGED <<chunks, regions, writable, torn>>
             /\ data' \in [Cells -> Values]
             /\ result' \in Statuses
  BY <1>0, <1>1 DEF Return
<1>2. PICK a \in Addresses, n \in AccessSizes :
        \/ ViewValues(a, n)
        \/ \E fault \in {"OOBRead", "OOBWrite"} : SetValues(a, n, fault)
        \/ \E d \in Addresses : CopyValues(a, d, n)
  BY DEF Access
<1>3. a \in Nat /\ n \in Nat /\ n # 0
  BY HeapAssumption
<1>4. CASE ViewValues(a, n)
  BY <1>1, <1>4 DEF ViewValues, Untranslated, Statuses
<1>5. ASSUME NEW fault \in {"OOBRead", "OOBWrite"}, SetValues(a, n, fault)
      PROVE  /\ UNCHANGED <<chunks, regions, writable, torn>>
             /\ data' \in [Cells -> Values]
             /\ result' \in Statuses
  <2>1. CASE \E status \in Statuses : Return(status)
    BY <1>1, <2>1
  <2>2. ASSUME NEW vals \in [0..(n - 1) -> Values],
               /\ data' = [c \in Cells |-> IF c \in Extent(a, n) THEN vals[c - a] ELSE data[c]]
               /\ result' = "Ok"
               /\ UNCHANGED <<chunks, regions, writable, torn>>
        PROVE  /\ UNCHANGED <<chunks, regions, writable, torn>>
               /\ data' \in [Cells -> Values]
               /\ result' \in Statuses
    <3>1. \A c \in Extent(a, n) : c - a \in 0..(n - 1)
      BY <1>3 DEF Extent
    <3> QED BY <1>0, <1>5, <2>2, <3>1 DEF Statuses
  <2> QED BY <1>5, <2>1, <2>2 DEF SetValues, Untranslated, Statuses
<1>6. ASSUME NEW d \in Addresses, CopyValues(a, d, n)
      PROVE  /\ UNCHANGED <<chunks, regions, writable, torn>>
             /\ data' \in [Cells -> Values]
             /\ result' \in Statuses
  <2>1. CASE \E status \in Statuses : Return(status)
    BY <1>1, <2>1
  <2>2. CASE /\ InBounds(a, n)
             /\ data' = IF d = a THEN data ELSE Copied(data, a, d, n)
             /\ result' = "Ok"
             /\ UNCHANGED <<chunks, regions, writable, torn>>
    <3>1. d \in Nat /\ a + n <= Size
      BY <2>2, HeapAssumption DEF InBounds
    <3>2. Copied(data, a, d, n) \in [Cells -> Values]
      BY <1>0, <1>3, <3>1, CopiedIsMoved, MovedType
    <3> QED BY <1>0, <2>2, <3>2 DEF Statuses
  <2> QED BY <1>6, <2>1, <2>2 DEF CopyValues, Untranslated, Statuses
<1> QED BY <1>2, <1>4, <1>5, <1>6

LEMMA HeapInit == Init => HeapInv
<1> SUFFICES ASSUME Init PROVE HeapInv
  OBVIOUS
<1> DEFINE c == Free(0, Size)
<1>1. c \in Chunk /\ c.offset = 0 /\ End(c) = Size /\ ~c.taken
  <2>1. Size \in Nat \ {0} /\ 0 + Size <= Size
    BY SizeAssumption, HeapAssumption
  <2> QED BY <2>1, ChunkMade
<1> HIDE DEF c
<1>2. chunks = <<c>>
  BY DEF Init, c
<1>3. chunks \in Seq(Chunk) /\ Len(chunks) = 1 /\ chunks[1] = c
  BY <1>1, <1>2
<1>4. regions = TakenRegions(chunks)
  BY <1>1, <1>3 DEF Init, TakenRegions
<1>5. HeapOK(chunks, regions, writable)
  BY <1>1, <1>3, <1>4 DEF Init, HeapOK, Tiles, Merged, Roomy, Sealed
<1>6. data \in [Cells -> Values]
  BY HeapAssumption DEF Init
<1> QED
  BY <1>3, <1>5, <1>6 DEF Init, HeapInv, TypeOK, Statuses

LEMMA HeapStep == HeapInv /\ [Next]_vars => HeapInv'
<1> SUFFICES ASSUME HeapInv, [Next]_vars PROVE HeapInv'
  OBVIOUS
<1>1. CASE UNCHANGED vars
  BY <1>1 DEF vars, HeapInv, TypeOK
<1>2. CASE Next
  <2>0. ~torn
    BY <1>2 DEF Next, Running
  <2>1. ASSUME NEW n \in AllocSizes, Allocate(n) PROVE HeapInv'
    BY <2>0, <2>1, AllocateKeeps, HeapAssumption
  <2>2. ASSUME NEW a \in Addresses, NEW n \in AllocSizes, Reallocate(a, n) PROVE HeapInv'
    BY <2>0, <2>2, ReallocateKeeps, HeapAssumption
  <2>3. ASSUME NEW a \in Addresses, Deallocate(a) PROVE HeapInv'
    BY <2>0, <2>3, DeallocateKeeps
  <2>4. CASE Access
    BY <2>4, AccessShape DEF HeapInv, TypeOK
  <2> QED BY <1>2, <2>1, <2>2, <2>3, <2>4 DEF Next, Manage
<1> QED BY <1>1, <1>2

-----------------------------------------------------------------------------
(* Snapshots.                                                              *)

\* There are regions only if a size asked for is not zero.
Sized(rs) == rs # {} => \E n \in AllocSizes : n > 0

\* The snapshot is a sound heap as well: it is taken before a list is torn.
SnapshotInv ==
    /\ HeapInv
    /\ HeapOK(saved.chunks, saved.regions, saved.writable)
    /\ saved.data \in [Cells -> Values]
    /\ Sized(regions) /\ Sized(saved.regions)

LEMMA NextSized == HeapInv /\ Next /\ Sized(regions) => Sized(regions')
<1> SUFFICES ASSUME HeapInv, Next, Sized(regions), regions' # {}
             PROVE  \E n \in AllocSizes : n > 0
  BY DEF Sized
<1>1. CASE regions # {}
  BY <1>1 DEF Sized
<1>2. CASE regions = {}
  <2>1. ASSUME NEW n \in AllocSizes, Allocate(n) PROVE n > 0
    BY <1>2, <2>1 DEF Allocate, Return
  <2>2. ASSUME NEW a \in Addresses, NEW n \in AllocSizes, Reallocate(a, n) PROVE FALSE
    BY <1>2, <2>2 DEF Reallocate, Return
  <2>3. ASSUME NEW a \in Addresses, Deallocate(a) PROVE FALSE
    BY <1>2, <2>3 DEF Deallocate, Return
  <2>4. ~Access
    BY <1>2, AccessShape
  <2> QED BY <2>1, <2>2, <2>3, <2>4 DEF Next, Manage
<1> QED BY <1>1, <1>2

LEMMA SnapshotInvInit == SnapshotInit => SnapshotInv
<1> SUFFICES ASSUME SnapshotInit PROVE SnapshotInv
  OBVIOUS
<1>1. HeapInv /\ ~torn /\ regions = {}
  BY HeapInit DEF SnapshotInit, Init
<1>2. /\ saved.chunks = chunks /\ saved.regions = regions
      /\ saved.writable = writable /\ saved.data = data
  BY DEF SnapshotInit, Heap
<1> QED BY <1>1, <1>2 DEF SnapshotInv, HeapInv, TypeOK, Sized

LEMMA SnapshotInvStep == SnapshotInv /\ [SnapshotNext]_allvars => SnapshotInv'
<1> SUFFICES ASSUME SnapshotInv, [SnapshotNext]_allvars PROVE SnapshotInv'
  OBVIOUS
<1>1. CASE UNCHANGED allvars
  BY <1>1 DEF allvars, vars, SnapshotInv, HeapInv, TypeOK
<1>2. CASE Next /\ UNCHANGED saved
  BY <1>2, HeapStep, NextSized DEF SnapshotInv
<1>3. CASE Running /\ Fork
  <2>1. ~torn /\ HeapInv'
    BY <1>3 DEF Running, Fork, Return, SnapshotInv, HeapInv, TypeOK, Statuses
  <2>2. /\ saved'.chunks = chunks /\ saved'.regions = regions
        /\ saved'.writable = writable /\ saved'.data = data
    BY <1>3 DEF Fork, Heap
  <2>3. regions' = regions
    BY <1>3 DEF Fork, Return
  <2> QED BY <2>1, <2>2, <2>3 DEF SnapshotInv, HeapInv, TypeOK
<1>4. CASE Running /\ Restore
  <2>1. /\ chunks' = saved.chunks /\ regions' = saved.regions
        /\ writable' = saved.writable /\ data' = saved.data /\ saved' = saved
        /\ result' = "Ok" /\ torn' = torn
    BY <1>4 DEF Restore, ChunksRestored
  <2>2. chunks' \in Seq(Chunk) /\ writable' \in SUBSET Cells
        /\ regions' \in SUBSET [lo : Cells, hi : Cells]
    BY <2>1, HeapRegions DEF SnapshotInv, HeapOK, Tiles
  <2> QED BY <2>1, <2>2 DEF SnapshotInv, HeapInv, TypeOK, Statuses
<1> QED BY <1>1, <1>2, <1>3, <1>4 DEF SnapshotNext

LEMMA SnapshotInvariant == SnapshotSpec => []SnapshotInv
BY SnapshotInvInit, SnapshotInvStep, PTL DEF SnapshotSpec

\* The heap is sound, with snapshots and without.
LEMMA HeapInvariant == Spec \/ SnapshotSpec => []HeapInv
<1>1. Spec => []HeapInv
  BY HeapInit, HeapStep, PTL DEF Spec
<1>2. SnapshotInv => HeapInv
  BY DEF SnapshotInv
<1> QED BY <1>1, <1>2, SnapshotInvariant, PTL

-----------------------------------------------------------------------------
(* Theorems.                                                               *)

\* Every run of the heap is type correct, a torn list included.
THEOREM HeapTypeOK == Spec \/ SnapshotSpec => []TypeOK
<1>1. HeapInv => TypeOK
  BY DEF HeapInv
<1> QED BY <1>1, HeapInvariant, PTL

\* Chunks always partition the backing: allocation, freeing and resizing
\* neither leak, nor overlap, nor hand out bytes past its end.
THEOREM HeapChunksTile == Spec \/ SnapshotSpec => []ChunksTileHeap
<1>1. HeapInv => ChunksTileHeap
  BY DEF HeapInv, HeapOK, Tiles, ChunksTileHeap
<1> QED BY <1>1, HeapInvariant, PTL

\* No two neighbouring chunks are free.
THEOREM HeapFreeChunksMerged == Spec \/ SnapshotSpec => []FreeChunksMerged
<1>1. HeapInv => FreeChunksMerged
  BY DEF HeapInv, HeapOK, Merged, FreeChunksMerged
<1> QED BY <1>1, HeapInvariant, PTL

\* The interval set and the chunk list always describe the same regions.
THEOREM HeapRegionsAreChunks == Spec \/ SnapshotSpec => []RegionsAreChunks
<1>1. HeapInv => RegionsAreChunks
  <2> SUFFICES ASSUME HeapOK(chunks, regions, writable) PROVE RegionsAreChunks
    BY DEF HeapInv, RegionsAreChunks
  <2>1. DOMAIN chunks = 1..Len(chunks)
    BY TilesBounds DEF HeapOK
  <2> QED BY <2>1 DEF HeapOK, TakenRegions, RegionOf, RegionsAreChunks
<1> QED BY <1>1, HeapInvariant, PTL

\* The last byte of every chunk is always sealed.
THEOREM HeapChunksSealed == Spec \/ SnapshotSpec => []ChunksSealed
<1>1. HeapInv => ChunksSealed
  <2> SUFFICES ASSUME HeapOK(chunks, regions, writable) PROVE ChunksSealed
    BY DEF HeapInv, ChunksSealed
  <2>1. DOMAIN chunks = 1..Len(chunks)
    BY TilesBounds DEF HeapOK
  <2> QED BY <2>1 DEF HeapOK, Sealed, ChunksSealed
<1> QED BY <1>1, HeapInvariant, PTL

\* A write that passes all checks stays in one region: below a region lies the
\* sealed byte of the chunk before it, above it its own red zone.
LEMMA WriteConfined ==
    ASSUME HeapOK(chunks, regions, writable), NEW a \in Cells, NEW n \in 1..Size,
           Translates(a, n), AllWritable(a, n)
    PROVE  \E r \in regions : Extent(a, n) \subseteq r.lo..(r.hi - 1)
<1>1. PICK r \in regions : r.lo < a + n /\ a < r.hi
  BY DEF Translates, Touched
<1>2. PICK i \in 1..Len(chunks) : chunks[i].taken /\ r = RegionOf(chunks[i])
  BY HeapRegions
<1>3. chunks[i].offset = r.lo
  BY <1>2, HeapRegions
<1>4. /\ r.lo \in Nat /\ r.hi \in Nat /\ r.hi + 1 = End(chunks[i]) /\ a \in Nat /\ n \in Nat
  BY <1>2, <1>3, RegionPlace, SizeAssumption DEF Cells
<1>5. \A c \in Nat : a <= c /\ c < a + n => c \in writable
  BY <1>4 DEF AllWritable, Extent
<1>6. End(chunks[i]) - 1 \notin writable
  BY DEF HeapOK, Sealed
<1>7. a + n <= r.hi
  <2> SUFFICES ASSUME ~(a + n <= r.hi) PROVE FALSE
    OBVIOUS
  <2>1. r.hi = End(chunks[i]) - 1 /\ a <= r.hi /\ r.hi < a + n
    BY <1>1, <1>4
  <2> QED BY <1>4, <1>5, <1>6, <2>1
<1>8. r.lo <= a
  <2> SUFFICES ASSUME ~(r.lo <= a) PROVE FALSE
    OBVIOUS
  <2>1. i # 1
    BY <1>3, <1>4 DEF HeapOK, Tiles
  <2> DEFINE j == i - 1
  <2>2. j \in 1..(Len(chunks) - 1) /\ j + 1 = i /\ j \in 1..Len(chunks)
    <3>1. Len(chunks) \in Nat
      BY TilesBounds DEF HeapOK
    <3> QED BY <2>1, <3>1
  <2> HIDE DEF j
  <2>3. End(chunks[j]) = r.lo
    BY <1>3, <2>2 DEF HeapOK, Tiles
  <2>4. End(chunks[j]) - 1 \notin writable
    BY <2>2 DEF HeapOK, Sealed
  <2>5. r.lo - 1 \in Nat /\ a <= r.lo - 1 /\ r.lo - 1 < a + n
    BY <1>1, <1>4
  <2> QED BY <1>5, <2>3, <2>4, <2>5
<1>9. Extent(a, n) \subseteq r.lo..(r.hi - 1)
  BY <1>4, <1>7, <1>8 DEF Extent
<1> QED BY <1>9

\* No write that passes all checks leaves its region.
THEOREM HeapWritesConfined == Spec \/ SnapshotSpec => []WritesConfined
<1>1. HeapInv => WritesConfined
  BY WriteConfined DEF HeapInv, WritesConfined
<1> QED BY <1>1, HeapInvariant, PTL

-----------------------------------------------------------------------------
(* Contents.                                                               *)

Kept ==
    regions' # regions /\ Manage =>
        /\ \A r \in regions \cap regions' : \A a \in r.lo..(r.hi - 1) : data'[a] = data[a]
        /\ \A r \in regions \ regions', q \in regions' \ regions :
              \A j \in Prefix(r, q) : data'[q.lo + j] = data[r.lo + j]

LEMMA PrefixBound ==
    ASSUME NEW r, NEW q, r.hi - r.lo \in Int, q.hi - q.lo \in Int, NEW j \in Prefix(r, q)
    PROVE  j \in Nat /\ j < r.hi - r.lo /\ j < q.hi - q.lo
<1> DEFINE x == r.hi - r.lo
           y == q.hi - q.lo
           m == Min({x, y})
<1>1. \E z \in {x, y} : \A w \in {x, y} : z <= w
  <2> HIDE DEF x, y
  <2>1. x \in Int /\ y \in Int
    BY DEF x, y
  <2> QED BY <2>1
<1>2. m \in {x, y} /\ \A w \in {x, y} : m <= w
  BY <1>1 DEF Min
<1>3. j \in 0..(m - 1)
  BY DEF Prefix
<1>4. x \in Int /\ y \in Int
  OBVIOUS
<1>5. m \in Int /\ m <= x /\ m <= y
  BY <1>2, <1>4
<1> HIDE DEF x, y, m
<1>6. j \in Nat /\ j < x /\ j < y
  BY <1>3, <1>4, <1>5
<1> QED BY <1>6 DEF x, y

\* A region moved down over free space keeps its contents, and so do the others.
LEMMA DownKeepsContents ==
    ASSUME HeapInv, ~torn, NEW r \in regions,
           NEW i \in 1..Len(chunks), chunks[i].taken, chunks[i].offset = r.lo,
           IsFree(chunks, i - 1), NEW ds, NEW n \in Nat,
           Committed(r, ds, chunks[i - 1].offset, n)
    PROVE  Kept
<1> DEFINE o == chunks[i - 1].offset
           m == r.hi - r.lo
<1>0. HeapOK(chunks, regions, writable) /\ Tiles(chunks)
  BY DEF HeapInv, HeapOK
<1>1. i # 1 /\ ~chunks[i - 1].taken /\ i - 1 \in 1..Len(chunks) /\ Len(chunks) \in Nat /\ i \in Nat
  <2>1. i # 1 /\ ~chunks[i - 1].taken /\ i - 1 \in 1..(Len(chunks) - 1)
        /\ Len(chunks) \in Nat /\ i \in Nat
    BY <1>0, FreeNeighbours
  <2> QED BY <2>1
<1>2. /\ r = RegionOf(chunks[i])
      /\ r.lo \in Nat /\ r.hi \in Nat /\ r.hi + 1 = End(chunks[i]) /\ r.hi < Size
      /\ m \in Nat /\ r.lo + m = r.hi
  BY <1>0, RegionPlace
<1>3. o \in Nat /\ o < r.lo
  <2>1. chunks[i - 1].offset \in Nat /\ End(chunks[i - 1]) \in Nat
        /\ chunks[i - 1].offset < End(chunks[i - 1])
    BY <1>0, <1>1, TilesFields
  <2>2. End(chunks[i - 1]) <= chunks[i].offset
    BY <1>0, <1>1 DEF Tiles
  <2> QED BY <1>2, <2>1, <2>2
<1> HIDE DEF o, m
<1>4. /\ regions' = (regions \ {r}) \cup {Region(o, n)}
      /\ data' = Moved(data, r.lo, o, m)
  BY <1>3 DEF Committed, o, m
<1>5. Region(o, n).lo = o /\ Region(o, n).hi - Region(o, n).lo = n
  <2>1. Region(o, n).lo = o /\ Region(o, n).hi = o + n
    BY DEF Region
  <2> QED BY <1>3, <2>1
<1>6. ASSUME NEW p \in regions \cap regions', NEW a \in p.lo..(p.hi - 1)
      PROVE  data'[a] = data[a]
  <2>1. PICK k \in 1..Len(chunks) : chunks[k].taken /\ p = RegionOf(chunks[k])
    BY <1>0, HeapRegions
  <2>2. chunks[k].offset = p.lo
    BY <1>0, <2>1, HeapRegions
  <2>3. p.lo \in Nat /\ p.hi \in Nat /\ p.hi + 1 = End(chunks[k]) /\ p.hi < Size
    BY <1>0, <2>1, <2>2, RegionPlace
  <2>4. k # i - 1
    BY <1>1, <2>1
  <2>5. p # Region(o, n)
    <3> SUFFICES ASSUME p = Region(o, n) PROVE FALSE
      OBVIOUS
    <3>1. chunks[k].offset = chunks[i - 1].offset
      BY <1>5, <2>2 DEF o
    <3> QED BY <1>0, <1>1, <2>4, <3>1, OffsetsDiffer
  <2>6. k # i
    BY <1>2, <1>4, <2>1, <2>5
  <2>7. a \notin Extent(o, m)
    <3>1. CASE k < i - 1
      <4>1. End(chunks[k]) <= o
        BY <1>0, <1>1, <3>1 DEF Tiles, o
      <4> QED BY <1>2, <1>3, <2>3, <4>1 DEF Extent
    <3>2. CASE i < k
      <4>1. End(chunks[i]) <= p.lo
        BY <1>0, <1>1, <2>2, <3>2 DEF Tiles
      <4> QED BY SMTT(60), <1>2, <1>3, <2>3, <4>1 DEF Extent
    <3> QED BY <1>1, <2>4, <2>6, <3>1, <3>2
  <2>8. a \in Cells
    BY SMTT(60), <2>3, SizeAssumption DEF Cells
  <2> QED BY <1>4, <2>7, <2>8 DEF Moved
<1>7. ASSUME NEW p \in regions \ regions', NEW q \in regions' \ regions, NEW j \in Prefix(p, q)
      PROVE  data'[q.lo + j] = data[p.lo + j]
  <2>1. p = r /\ q = Region(o, n)
    BY <1>4
  <2>2. j \in Nat /\ j < m
    <3>1. p.hi - p.lo = m /\ q.hi - q.lo = n
      BY <1>5, <2>1 DEF m
    <3>2. p.hi - p.lo \in Int /\ q.hi - q.lo \in Int
      BY <1>2, <3>1
    <3>3. j \in Nat /\ j < p.hi - p.lo
      BY <3>2, PrefixBound
    <3> QED BY <3>1, <3>3
  <2>3. o + j \in Cells /\ o + j \in Extent(o, m) /\ (o + j) - o = j
    BY <1>2, <1>3, <2>2, SizeAssumption DEF Cells, Extent
  <2>4. data'[o + j] = data[r.lo + ((o + j) - o)]
    BY <1>4, <2>3 DEF Moved
  <2> QED BY <1>5, <2>1, <2>3, <2>4
<1> QED BY <1>6, <1>7 DEF Kept

\* So do all regions when one is resized in place.
LEMMA InPlaceKeepsContents ==
    ASSUME NEW r \in regions, NEW ds, NEW n, Committed(r, ds, r.lo, n)
    PROVE  Kept
<1>1. data' = data /\ regions' = (regions \ {r}) \cup {Region(r.lo, n)}
      /\ Region(r.lo, n).lo = r.lo
  BY DEF Committed, Region
<1>2. \A p \in regions \ regions', q \in regions' \ regions : p.lo = r.lo /\ q.lo = r.lo
  BY <1>1
<1> QED BY <1>1, <1>2 DEF Kept

LEMMA ReallocateKeepsContents ==
    ASSUME HeapInv, ~torn, NEW addr, NEW n \in Nat, Reallocate(addr, n)
    PROVE  Kept
<1>0. HeapOK(chunks, regions, writable) /\ Tiles(chunks)
  BY DEF HeapInv, HeapOK
<1>1. CASE \E status \in Statuses : Return(status)
  BY <1>1 DEF Return, Kept
<1>2. ASSUME NEW r \in regions, r.lo = addr,
             NEW i \in DOMAIN chunks, Holds(chunks, i, addr),
             \/ ReallocateKeep(r, i, n)
             \/ ReallocateShrink(r, i, n)
             \/ ReallocateUp(r, i, n)
             \/ ReallocateDown(r, i, n)
             \/ ReallocateMove(r, i, n)
      PROVE  Kept
  <2>1. i \in 1..Len(chunks) /\ chunks[i].taken /\ chunks[i].offset = r.lo
    BY <1>0, <1>2, TilesBounds DEF Holds
  <2>2. r.lo \in Nat
    BY <1>0, <2>1, RegionPlace
  <2>3. ASSUME NEW ds, Commit(r, ds, r.lo, n) PROVE Kept
    <3>1. Return("Panic") \/ Committed(r, ds, r.lo, n)
      BY <1>0, <2>1, <2>2, <2>3, CommitShape
    <3> QED BY <1>1, <3>1, InPlaceKeepsContents DEF Statuses
  <2>4. CASE ReallocateKeep(r, i, n) \/ ReallocateShrink(r, i, n) \/ ReallocateUp(r, i, n)
    BY <2>3, <2>4 DEF ReallocateKeep, ReallocateShrink, ReallocateUp
  <2>5. CASE ReallocateDown(r, i, n)
    <3>1. CASE Return("Panic")
      BY <1>1, <3>1 DEF Statuses
    <3>2. CASE Commit(r, ChunkGrownDown(i, n + 1), chunks[i - 1].offset, n)
      <4>1. IsFree(chunks, i - 1)
        <5>1. /\ chunks[i].size + FreeSize(chunks, i + 1) < n + 1
              /\ chunks[i].size + FreeSize(chunks, i + 1) + FreeSize(chunks, i - 1) >= n + 1
          BY <2>5 DEF ReallocateDown
        <5>2. chunks[i].size \in Nat /\ FreeSize(chunks, i + 1) \in Nat
          BY <1>0, <2>1, FreeSizeNat, TilesBounds
        <5>3. ~IsFree(chunks, i - 1) => FreeSize(chunks, i - 1) = 0
          BY DEF FreeSize
        <5> QED BY <5>1, <5>2, <5>3
      <4>2. chunks[i - 1].offset \in Nat
        <5>1. i - 1 \in 1..Len(chunks)
          <6>1. i - 1 \in 1..(Len(chunks) - 1) /\ Len(chunks) \in Nat
            BY <1>0, <2>1, <4>1, FreeNeighbours
          <6> QED BY <6>1
        <5> QED BY <1>0, <5>1, TilesBounds
      <4>3. \/ Return("Panic")
            \/ Committed(r, ChunkGrownDown(i, n + 1), chunks[i - 1].offset, n)
        BY <1>0, <2>1, <3>2, <4>2, CommitShape
      <4> QED BY <1>1, <2>1, <4>1, <4>3, DownKeepsContents DEF Statuses
    <3> QED BY <2>5, <3>1, <3>2 DEF ReallocateDown
  <2>6. CASE ReallocateMove(r, i, n)
    <3>1. Return("NotEnoughFreeSpace") \/ Return("Panic")
      BY <2>1, <2>6, MoveNeverCommits
    <3> QED BY <1>1, <3>1 DEF Statuses
  <2> QED BY <1>2, <2>4, <2>5, <2>6
<1> QED BY <1>1, <1>2 DEF Reallocate, RegionAt, Statuses

\* Every region keeps its contents through allocation, freeing and resizing,
\* the resized one up to the smaller size, torn list or not.
THEOREM HeapContentsKept == Spec \/ SnapshotSpec => ContentsKept
<1>1. ASSUME HeapInv, ~torn PROVE Kept
  <2> SUFFICES ASSUME Manage PROVE Kept
    BY DEF Kept
  <2>1. ASSUME NEW n \in AllocSizes, Allocate(n) PROVE Kept
    BY <2>1 DEF Allocate, Return, Kept
  <2>2. ASSUME NEW a \in Addresses, NEW n \in AllocSizes, Reallocate(a, n) PROVE Kept
    BY <1>1, <2>2, ReallocateKeepsContents, HeapAssumption
  <2>3. ASSUME NEW a \in Addresses, Deallocate(a) PROVE Kept
    BY <2>3 DEF Deallocate, Return, Kept
  <2> QED BY <2>1, <2>2, <2>3 DEF Manage
<1>2. HeapInv /\ [Next]_vars => [Kept]_vars
  BY <1>1 DEF Next, Running
<1>3. HeapInv /\ [SnapshotNext]_allvars => [Kept]_vars
  BY <1>1 DEF SnapshotNext, Next, Running, allvars
<1>4. Spec \/ SnapshotSpec => [][Kept]_vars
  BY <1>2, <1>3, HeapInvariant, PTL DEF Spec, SnapshotSpec
<1> QED BY <1>4 DEF ContentsKept, Kept

-----------------------------------------------------------------------------
(* Regions, seen without chunks.                                           *)

Bytes(rs, d) == [a \in RegionCells(rs) |-> d[a]]
Denied(rs, w) == RegionCells(rs) \ w

LEMMA MappedIs ==
    /\ ToBytes(Heap) = Bytes(regions, data)
    /\ ToDenied(Heap) = Denied(regions, writable)
    /\ ToBytes(Heap)' = Bytes(regions', data')
    /\ ToDenied(Heap)' = Denied(regions', writable')
BY DEF ToBytes, ToDenied, Heap, Bytes, Denied, RegionCells

LEMMA RegionIs ==
    ASSUME NEW o, NEW n
    PROVE  Region(o, n).lo = o /\ Region(o, n).hi = o + n /\ Region(o, n) = Regions!Placed(o, n)
BY DEF Region, Regions!Placed

\* A region lies in its chunk, below the red zone, in any sound heap.
LEMMA RegionIn ==
    ASSUME NEW cs, NEW rs, NEW w, HeapOK(cs, rs, w), NEW r \in rs
    PROVE  \E i \in 1..Len(cs) :
              /\ cs[i].taken /\ cs[i].offset = r.lo
              /\ r.lo \in Nat /\ r.hi \in Nat /\ r.lo < r.hi
              /\ r.hi + 1 = End(cs[i]) /\ r.hi < Size
<1>1. PICK i \in 1..Len(cs) : cs[i].taken /\ r = RegionOf(cs[i])
  BY HeapRegions
<1> DEFINE o == cs[i].offset
           z == cs[i].size
<1>2. r.lo = o /\ r.hi = o + z - 1 /\ z >= 2
  BY <1>1, HeapRegions
<1>3. o \in Nat /\ z \in Nat /\ End(cs[i]) = o + z /\ End(cs[i]) <= Size
  BY TilesBounds DEF HeapOK
<1> HIDE DEF o, z
<1>4. r.lo \in Nat /\ r.hi \in Nat /\ r.lo < r.hi /\ r.hi + 1 = End(cs[i]) /\ r.hi < Size
  BY <1>2, <1>3, SizeAssumption
<1> QED BY <1>1, <1>2, <1>4 DEF o

LEMMA RegionsApart ==
    ASSUME NEW cs, NEW rs, NEW w, HeapOK(cs, rs, w)
    PROVE  Regions!Apart(rs)
<1>1. ASSUME NEW r \in rs, NEW q \in rs
      PROVE  r = q \/ r.hi < q.lo \/ q.hi < r.lo
  <2>1. PICK i \in 1..Len(cs) :
              /\ cs[i].taken /\ cs[i].offset = r.lo
              /\ r.lo \in Nat /\ r.hi \in Nat /\ r.hi + 1 = End(cs[i])
    BY RegionIn
  <2>2. PICK j \in 1..Len(cs) :
              /\ cs[j].taken /\ cs[j].offset = q.lo
              /\ q.lo \in Nat /\ q.hi \in Nat /\ q.hi + 1 = End(cs[j])
    BY RegionIn
  <2>3. i < j => End(cs[i]) <= cs[j].offset
    BY DEF HeapOK, Tiles
  <2>4. j < i => End(cs[j]) <= cs[i].offset
    BY DEF HeapOK, Tiles
  <2>5. i = j => r = q
    BY <2>1, <2>2, HeapRegions
  <2>6. i < j \/ j < i \/ i = j
    <3>1. Len(cs) \in Nat
      BY TilesFields DEF HeapOK
    <3> QED BY <3>1
  <2>7. i < j => r.hi + 1 <= q.lo
    BY <2>1, <2>2, <2>3
  <2>8. j < i => q.hi + 1 <= r.lo
    BY <2>1, <2>2, <2>4
  <2>9. CASE i < j
    <3>1. r.hi < q.lo
      BY <2>1, <2>2, <2>7, <2>9
    <3> QED BY <3>1
  <2>10. CASE j < i
    <3>1. q.hi < r.lo
      BY <2>1, <2>2, <2>8, <2>10
    <3> QED BY <3>1
  <2> QED BY <2>5, <2>6, <2>9, <2>10
<1>2. \A r \in rs : 0 <= r.lo /\ r.lo < r.hi /\ r.hi < Size
  BY RegionIn
<1> QED BY <1>1, <1>2 DEF Regions!Apart

\* The chunks around a free or resized chunk keep the other regions off it.
LEMMA SpanClear ==
    ASSUME HeapOK(chunks, regions, writable), NEW i \in 1..Len(chunks),
           NEW q \in regions, q.lo # chunks[i].offset,
           NEW o, o = chunks[i].offset \/ (IsFree(chunks, i - 1) /\ o = chunks[i - 1].offset),
           NEW e \in Nat, e <= End(chunks[i]) + FreeSize(chunks, i + 1)
    PROVE  q.hi < o \/ e <= q.lo
<1>0. Tiles(chunks) /\ Len(chunks) \in Nat /\ i \in Nat
  BY FreeNeighbours DEF HeapOK
<1>1. PICK k \in 1..Len(chunks) :
              /\ chunks[k].taken /\ chunks[k].offset = q.lo
              /\ q.lo \in Nat /\ q.hi \in Nat /\ q.hi + 1 = End(chunks[k])
  BY RegionIn
<1>2. k # i
  BY <1>1
<1>3. CASE k < i
  <2>1. CASE o = chunks[i].offset
    <3>1. End(chunks[k]) <= o /\ o \in Nat
      BY <1>0, <1>3, <2>1, TilesBounds DEF Tiles
    <3> QED BY <1>1, <3>1
  <2>2. CASE IsFree(chunks, i - 1) /\ o = chunks[i - 1].offset
    <3>1. i - 1 \in 1..(Len(chunks) - 1) /\ ~chunks[i - 1].taken
      BY <1>0, <2>2, FreeNeighbours
    <3>2. i - 1 \in 1..Len(chunks) /\ k < i - 1
      <4>1. k # i - 1
        BY <1>1, <3>1
      <4> QED BY <1>0, <1>3, <3>1, <4>1
    <3>3. End(chunks[k]) <= o /\ o \in Nat
      BY <1>0, <2>2, <3>2, TilesBounds DEF Tiles
    <3> QED BY <1>1, <3>3
  <2> QED BY <2>1, <2>2
<1>4. CASE i < k
  <2>0. End(chunks[i]) \in Nat
    BY <1>0, TilesFields
  <2>1. CASE IsFree(chunks, i + 1)
    <3>1. i + 1 \in 1..Len(chunks) /\ i \in 1..(Len(chunks) - 1) /\ ~chunks[i + 1].taken
      BY <1>0, <2>1, FreeNeighbours
    <3>2. i + 1 < k
      BY <1>0, <1>1, <1>4, <3>1
    <3>3. End(chunks[i + 1]) <= q.lo
      BY <1>0, <1>1, <3>1, <3>2 DEF Tiles
    <3>4. /\ End(chunks[i + 1]) = chunks[i + 1].offset + chunks[i + 1].size
          /\ chunks[i + 1].offset = End(chunks[i])
          /\ FreeSize(chunks, i + 1) = chunks[i + 1].size
      BY <1>0, <2>1, <3>1 DEF Tiles, End, FreeSize
    <3>5. End(chunks[i + 1]) \in Nat
      BY <1>0, <3>1, TilesFields
    <3> QED BY <1>1, <2>0, <3>3, <3>4, <3>5
  <2>2. CASE ~IsFree(chunks, i + 1)
    <3>1. End(chunks[i]) <= q.lo
      BY <1>0, <1>1, <1>4 DEF Tiles
    <3>2. FreeSize(chunks, i + 1) = 0
      BY <2>2 DEF FreeSize
    <3> QED BY <1>1, <2>0, <3>1, <3>2
  <2> QED BY <2>1, <2>2
<1> QED BY <1>0, <1>2, <1>3, <1>4

LEMMA BytesTyped ==
    ASSUME NEW rs \in SUBSET [lo : Cells, hi : Cells], NEW d \in [Cells -> Values]
    PROVE  /\ RegionCells(rs) \subseteq Cells
           /\ RegionCells(rs) = Regions!Allotted(rs)
           /\ Bytes(rs, d) \in [Regions!Allotted(rs) -> Values]
<1>1. ASSUME NEW r \in rs, NEW a \in r.lo..(r.hi - 1)
      PROVE  a \in Cells
  BY SizeAssumption DEF Cells
<1>2. RegionCells(rs) \subseteq Cells
  BY <1>1 DEF RegionCells
<1>3. RegionCells(rs) = Regions!Allotted(rs)
  BY DEF RegionCells, Regions!Allotted, Regions!Inside
<1> QED BY <1>2, <1>3 DEF Bytes

LEMMA InCells ==
    ASSUME NEW rs, NEW r \in rs, NEW a \in r.lo..(r.hi - 1)
    PROVE  a \in RegionCells(rs)
BY DEF RegionCells

\* Every address is in a chunk.
LEMMA ChunkWith ==
    ASSUME NEW cs, Tiles(cs), NEW x \in 0..(Size - 1)
    PROVE  \E i \in 1..Len(cs) : cs[i].offset <= x /\ x < End(cs[i])
<1> DEFINE R == {ss \in Nat \X Nat : ss[1] < ss[2]}
           T == {i \in 1..Len(cs) : x < End(cs[i])}
<1>0. Len(cs) \in Nat \ {0} /\ x \in Nat /\ x < Size
  BY TilesBounds, SizeAssumption
<1>1. IsWellFoundedOn(R, Nat)
  BY NatLessThanWellFounded DEF OpToRel
<1>2. Len(cs) \in T
  BY <1>0 DEF Tiles
<1>3. T \subseteq Nat
  BY <1>0
<1> HIDE DEF R, T
<1>4. PICK i \in T : \A j \in T : ~(<<j, i>> \in R)
  BY <1>1, <1>2, <1>3, WFMin
<1>5. i \in 1..Len(cs) /\ x < End(cs[i])
  BY <1>4 DEF T
<1>6. CASE i = 1
  BY <1>0, <1>5, <1>6 DEF Tiles
<1>7. CASE i # 1
  <2> DEFINE j == i - 1
  <2>1. j \in 1..(Len(cs) - 1) /\ j \in 1..Len(cs) /\ j + 1 = i /\ j < i /\ j \in Nat /\ i \in Nat
    BY <1>0, <1>5, <1>7
  <2> HIDE DEF j
  <2>2. <<j, i>> \in R
    BY <2>1 DEF R
  <2>3. ~(x < End(cs[j]))
    BY <1>4, <2>1, <2>2 DEF T
  <2>4. End(cs[j]) = cs[i].offset /\ End(cs[j]) \in Nat
    BY <2>1, TilesFields DEF Tiles
  <2>5. cs[i].offset <= x
    BY <1>0, <2>3, <2>4
  <2> QED BY <1>5, <2>5
<1> QED BY <1>6, <1>7, <1>5

KeepOff(rs, x, n) == \A r \in rs : r.hi < x \/ x + n < r.lo

\* Bytes that keep off the regions, with a byte behind them, are in a free chunk.
LEMMA NoRoomHere ==
    ASSUME HeapOK(chunks, regions, writable), NEW n \in Nat \ {0}, NoFit(n + 1),
           NEW x \in Nat, x + n < Size,
           KeepOff(regions, x, n)
    PROVE  FALSE
<1>0. Tiles(chunks) /\ Merged(chunks) /\ DOMAIN chunks = 1..Len(chunks)
  BY TilesBounds DEF HeapOK
<1>b. Len(chunks) \in Nat /\ Size \in Nat
  BY <1>0, TilesBounds, SizeAssumption
<1> DEFINE lo(k) == chunks[k].offset
           top(k) == End(chunks[k])
           size(k) == chunks[k].size
<1>1. /\ \A k \in 1..Len(chunks) : /\ lo(k) \in Nat /\ top(k) \in Nat /\ size(k) \in Nat
                                  /\ top(k) = lo(k) + size(k) /\ lo(k) < top(k)
      /\ \A k \in 1..(Len(chunks) - 1) : top(k) = lo(k + 1)
      /\ top(Len(chunks)) = Size
  BY <1>0, TilesBounds, TilesFields DEF Tiles
<1>2. PICK i \in 1..Len(chunks) : lo(i) <= x /\ x < top(i)
  <2>1. x \in 0..(Size - 1)
    BY SizeAssumption
  <2> QED BY <1>0, <2>1, ChunkWith
<1>3. ASSUME NEW k \in 1..Len(chunks), chunks[k].taken
      PROVE  x + n < lo(k) \/ top(k) <= x
  <2> DEFINE r == RegionOf(chunks[k])
  <2>1. r \in regions
    BY <1>3 DEF HeapOK, TakenRegions
  <2>2. r.lo = lo(k) /\ r.hi = lo(k) + size(k) - 1
    BY <1>3, HeapRegions
  <2>3. r.hi < x \/ x + n < r.lo
    BY <2>1 DEF KeepOff
  <2> HIDE DEF lo, top, size, r
  <2>4. lo(k) + size(k) - 1 < x \/ x + n < lo(k)
    BY <2>2, <2>3
  <2>5. lo(k) \in Nat /\ top(k) \in Nat /\ size(k) \in Nat /\ top(k) = lo(k) + size(k)
    BY <1>1
  <2> QED BY <2>4, <2>5, <1>b
<1> HIDE DEF lo, top, size
<1>4. ~chunks[i].taken
  <2> SUFFICES ASSUME chunks[i].taken PROVE FALSE
    OBVIOUS
  <2>1. x + n < lo(i) \/ top(i) <= x
    BY <1>3
  <2>2. lo(i) \in Nat /\ top(i) \in Nat
    BY <1>1
  <2> QED BY <1>2, <2>1, <2>2
<1>5. x + n < top(i)
  <2>1. CASE i = Len(chunks)
    BY <1>b, <1>1, <2>1
  <2>2. CASE i # Len(chunks)
    <3>1. i + 1 \in 1..Len(chunks) /\ i \in 1..(Len(chunks) - 1)
      BY <1>b, <2>2
    <3>2. chunks[i + 1].taken
      BY <1>0, <1>4, <3>1 DEF Merged
    <3>3. x + n < lo(i + 1) \/ top(i + 1) <= x
      BY <1>3, <3>1, <3>2
    <3>4. top(i) = lo(i + 1) /\ lo(i + 1) < top(i + 1) /\ top(i + 1) \in Nat /\ lo(i + 1) \in Nat
      BY <1>b, <1>1, <3>1
    <3> QED BY <1>b, <1>2, <3>3, <3>4
  <2> QED BY <2>1, <2>2
<1>6. size(i) < n + 1
  BY <1>0, <1>4 DEF NoFit, IsFree, size
<1> QED BY <1>b, <1>1, <1>2, <1>5, <1>6

\* Where there is no large enough free chunk, there is no room.
LEMMA NoFitNoRoom ==
    ASSUME HeapOK(chunks, regions, writable), NEW n \in Nat, NoFit(n + 1)
    PROVE  Regions!Room(n) = {}
<1> SUFFICES ASSUME NEW x \in Regions!Room(n) PROVE FALSE
  OBVIOUS
<1> DEFINE new == Region(x, n)
<1>1. /\ x \in Nat /\ new \notin regions /\ Regions!Apart(regions \cup {new})
  <2>1. new = Regions!Placed(x, n)
    BY RegionIs
  <2> HIDE DEF new
  <2> QED BY <2>1, SizeAssumption DEF Regions!Room
<1>2. new.lo = x /\ new.hi = x + n
  BY RegionIs
<1> HIDE DEF new
<1>3. new.lo < new.hi /\ new.hi < Size /\ \A r \in regions : r.hi < new.lo \/ new.hi < r.lo
  BY <1>1 DEF Regions!Apart
<1>4. x < x + n /\ x + n < Size /\ KeepOff(regions, x, n)
  BY <1>2, <1>3 DEF KeepOff
<1>5. n \in Nat \ {0}
  BY <1>1, <1>4
<1> QED BY <1>1, <1>4, <1>5, NoRoomHere

LEMMA CellsAdd ==
    ASSUME NEW rs, NEW r
    PROVE  RegionCells(rs \cup {r}) = RegionCells(rs) \cup (r.lo..(r.hi - 1))
<1>1. \A a : a \in RegionCells(rs \cup {r}) <=> \E q \in rs \cup {r} : a \in q.lo..(q.hi - 1)
  BY DEF RegionCells
<1>2. \A a : a \in RegionCells(rs) <=> \E q \in rs : a \in q.lo..(q.hi - 1)
  BY DEF RegionCells
<1> QED BY Zenon, <1>1, <1>2

\* Write permission v after a region is opened at o and x sealed.
Opens(w, v, o, n, x) == v = ((w \cup Extent(o, n)) \ {o + n}) \ x

RegionsTyped(rs) == rs \subseteq [lo : Cells, hi : Cells]
OffRegions(x, rs) == x \cap RegionCells(rs) = {}

\* What cannot be written once a region is opened at o and x sealed.
LEMMA GrantDenies ==
    ASSUME NEW rs, RegionsTyped(rs), NEW o \in Nat, NEW n \in Nat,
           KeepOff(rs, o, n), NEW x, OffRegions(x, rs)
    PROVE  \A w, v : Opens(w, v, o, n, x) =>
              Denied(rs \cup {Region(o, n)}, v) = Denied(rs, w) \cup (Extent(o, n) \cap x)
<1> SUFFICES ASSUME NEW w, NEW v, Opens(w, v, o, n, x)
             PROVE  Denied(rs \cup {Region(o, n)}, v)
                      = Denied(rs, w) \cup (Extent(o, n) \cap x)
  OBVIOUS
<1>1. RegionCells(rs \cup {Region(o, n)}) = RegionCells(rs) \cup Extent(o, n)
  <2>1. Region(o, n).lo..(Region(o, n).hi - 1) = Extent(o, n)
    BY RegionIs DEF Extent
  <2> QED BY <2>1, CellsAdd
<1>2. ASSUME NEW a \in RegionCells(rs)
      PROVE  a # o + n /\ a \notin Extent(o, n)
  <2>1. PICK q \in rs : a \in q.lo..(q.hi - 1)
    BY DEF RegionCells
  <2>2. q.lo \in Nat /\ q.hi \in Nat
    BY SizeAssumption DEF Cells, RegionsTyped
  <2>3. a \in Int /\ q.lo <= a /\ a < q.hi
    BY <2>1, <2>2
  <2>4. q.hi < o \/ o + n < q.lo
    BY DEF KeepOff
  <2>5. a < o \/ o + n < a
    BY <2>2, <2>3, <2>4
  <2> QED BY <2>3, <2>5 DEF Extent
<1>3. o + n \notin Extent(o, n)
  BY DEF Extent
<1> QED BY <1>1, <1>2, <1>3 DEF Denied, Opens, OffRegions

\* An allocation takes a place where there is room, and opens it.
LEMMA AllocateMaps ==
    ASSUME HeapInv, ~torn, NEW n \in Nat \ {0}, Allocate(n), saved' = saved
    PROVE  Regions!Allocate(n)
<1>0. HeapOK(chunks, regions, writable) /\ Tiles(chunks)
  BY DEF HeapInv, HeapOK
<1>1. CASE NoFit(n + 1) /\ Return("NotEnoughFreeSpace")
  <2>1. Regions!Room(n) = {}
    BY <1>0, <1>1, NoFitNoRoom
  <2>2. regions' = regions /\ data' = data /\ writable' = writable /\ result' = "NotEnoughFreeSpace"
    BY <1>1 DEF Return
  <2> QED BY <2>1, <2>2, MappedIs DEF Regions!Allocate, Regions!Full
<1>2. ASSUME NEW i \in DOMAIN chunks, FirstFit(i, n + 1),
             writable' = Granted(chunks[i].offset, n),
             regions' = regions \cup {Region(chunks[i].offset, n)},
             result' = "Ok", UNCHANGED <<data, torn>>
      PROVE  Regions!Allocate(n)
  <2> DEFINE o == chunks[i].offset
             R == Region(o, n)
  <2>1. i \in 1..Len(chunks) /\ ~chunks[i].taken /\ o \in Nat
    BY <1>0, <1>2, TilesBounds DEF FirstFit, IsFree
  <2>2. HeapInv'
    BY AllocateKeeps
  <2>3. HeapOK(chunks', regions', writable') /\ data' \in [Cells -> Values]
    BY <1>2, <2>2 DEF HeapInv, TypeOK
  <2>4. Regions!Apart(regions') /\ regions' \in SUBSET [lo : Cells, hi : Cells]
    BY <2>3, RegionsApart, HeapRegions
  <2>5. R.lo = o /\ R.hi = o + n /\ R = Regions!Placed(o, n)
    BY RegionIs
  <2>6. R \notin regions
    <3> SUFFICES ASSUME R \in regions PROVE FALSE
      OBVIOUS
    <3>1. PICK k \in 1..Len(chunks) : chunks[k].taken /\ chunks[k].offset = R.lo
      BY <1>0, RegionIn
    <3> QED BY <1>0, <2>1, <2>5, <3>1, OffsetsDiffer
  <2> HIDE DEF o, R
  <2>7. regions' = regions \cup {R} /\ writable' = (writable \cup Extent(o, n)) \ {o + n}
    BY <1>2 DEF Granted, o, R
  <2>8. o \in Regions!Room(n)
    <3>1. R \in [lo : Cells, hi : Cells]
      BY <2>4, <2>7
    <3>2. o \in 0..Size
      BY <2>1, <2>5, <3>1, SizeAssumption DEF Cells
    <3> QED BY <2>4, <2>5, <2>6, <2>7, <3>2 DEF Regions!Room
  <2>9. ToBytes(Heap)' \in [Regions!Allotted(regions') -> Values]
    BY <2>3, <2>4, BytesTyped, MappedIs
  <2>10. ASSUME NEW r \in regions, NEW a \in Regions!Inside(r)
         PROVE  ToBytes(Heap)'[a] = ToBytes(Heap)[a]
    <3>1. a \in RegionCells(regions) /\ a \in RegionCells(regions')
      BY <2>7 DEF RegionCells, Regions!Inside
    <3> QED BY <1>2, <3>1, MappedIs DEF Bytes
  <2>11. ToDenied(Heap)' = ToDenied(Heap)
    <3>1. KeepOff(regions, o, n)
      BY <2>4, <2>5, <2>6, <2>7 DEF Regions!Apart, KeepOff
    <3> DEFINE none == {}
    <3>2. RegionsTyped(regions) /\ OffRegions(none, regions)
      BY DEF HeapInv, TypeOK, RegionsTyped, OffRegions
    <3>3. o \in Nat /\ n \in Nat /\ Opens(writable, writable', o, n, none)
      BY <2>1, <2>7 DEF Opens
    <3>4. none = {}
      OBVIOUS
    <3> HIDE DEF none
    <3>5. Denied(regions \cup {Region(o, n)}, writable')
            = Denied(regions, writable) \cup (Extent(o, n) \cap none)
      BY <3>1, <3>2, <3>3, GrantDenies
    <3>6. Denied(regions', writable') = Denied(regions, writable)
      BY <2>7, <3>4, <3>5 DEF R
    <3> QED BY <3>6, MappedIs
  <2> QED
    BY <1>2, <2>5, <2>7, <2>8, <2>9, <2>10, <2>11
    DEF Regions!Allocate, Regions!Typed, Regions!Keeps
<1>3. n > 0
  OBVIOUS
<1> QED BY <1>1, <1>2, <1>3 DEF Allocate

\* The other regions keep off a place between the chunks around region r.
LEMMA ResizedApart ==
    ASSUME HeapOK(chunks, regions, writable), NEW r \in regions,
           NEW i \in 1..Len(chunks), chunks[i].taken, chunks[i].offset = r.lo,
           NEW o, o = chunks[i].offset \/ (IsFree(chunks, i - 1) /\ o = chunks[i - 1].offset),
           NEW n \in Nat \ {0}, o + n + 1 <= End(chunks[i]) + FreeSize(chunks, i + 1)
    PROVE  /\ o \in Nat /\ o <= r.lo
           /\ KeepOff(regions \ {r}, o, n)
           /\ Regions!Apart((regions \ {r}) \cup {Region(o, n)})
<1>0. Tiles(chunks)
  BY DEF HeapOK
<1>1. o \in Nat /\ o <= r.lo
  <2>1. CASE o = chunks[i].offset
    BY <1>0, <2>1, TilesFields
  <2>2. CASE IsFree(chunks, i - 1) /\ o = chunks[i - 1].offset
    <3> DEFINE j == i - 1
    <3>1. j \in 1..(Len(chunks) - 1) /\ j \in 1..Len(chunks) /\ j + 1 = i
      <4>1. i - 1 \in 1..(Len(chunks) - 1) /\ Len(chunks) \in Nat /\ i \in Nat
        BY <1>0, <2>2, FreeNeighbours
      <4> QED BY <4>1
    <3>2. o = chunks[j].offset
      BY <2>2
    <3> HIDE DEF j
    <3>3. End(chunks[j]) = r.lo
      BY <1>0, <3>1 DEF Tiles
    <3>4. chunks[j].offset \in Nat /\ End(chunks[j]) \in Nat /\ chunks[j].offset < End(chunks[j])
      BY <1>0, <3>1, TilesFields
    <3> QED BY <3>2, <3>3, <3>4
  <2> QED BY <2>1, <2>2
<1>2. End(chunks[i]) + FreeSize(chunks, i + 1) <= Size
  <2>1. End(chunks[i]) \in Nat /\ End(chunks[i]) <= Size
    BY <1>0, TilesBounds, TilesFields
  <2>2. CASE IsFree(chunks, i + 1)
    <3>1. i + 1 \in 1..Len(chunks) /\ i \in 1..(Len(chunks) - 1)
      BY <1>0, <2>2, FreeNeighbours
    <3>2. /\ End(chunks[i + 1]) = chunks[i + 1].offset + chunks[i + 1].size
          /\ chunks[i + 1].offset = End(chunks[i])
          /\ FreeSize(chunks, i + 1) = chunks[i + 1].size
      BY <1>0, <2>2, <3>1 DEF Tiles, End, FreeSize
    <3>3. End(chunks[i + 1]) <= Size
      BY <1>0, <3>1, TilesBounds
    <3> QED BY <3>2, <3>3
  <2>3. CASE ~IsFree(chunks, i + 1)
    BY <2>1, <2>3 DEF FreeSize
  <2> QED BY <2>2, <2>3
<1>3. ASSUME NEW q \in regions, q # r
      PROVE  q.hi < o \/ o + n < q.lo
  <2>1. q.lo # chunks[i].offset
    <3> SUFFICES ASSUME q.lo = chunks[i].offset PROVE FALSE
      OBVIOUS
    <3>1. q = RegionOf(chunks[i]) /\ r = RegionOf(chunks[i])
      BY HeapRegions
    <3> QED BY <1>3, <3>1
  <2> DEFINE e == o + n + 1
  <2>2. e \in Nat /\ e <= End(chunks[i]) + FreeSize(chunks, i + 1)
    BY <1>1
  <2> HIDE DEF e
  <2>3. q.hi < o \/ e <= q.lo
    BY <2>1, <2>2, SpanClear
  <2>4. q.lo \in Nat
    BY RegionIn
  <2> QED BY <1>1, <2>3, <2>4 DEF e
<1>4. Regions!Apart(regions)
  BY RegionsApart
<1>5. o + n < Size
  <2>1. FreeSize(chunks, i + 1) \in Nat /\ End(chunks[i]) \in Nat
    BY <1>0, FreeSizeNat, TilesFields
  <2> QED BY <1>1, <1>2, <2>1, SizeAssumption
<1> DEFINE new == Region(o, n)
<1>6. new.lo = o /\ new.hi = o + n
  BY RegionIs
<1>7. 0 <= new.lo /\ new.lo < new.hi /\ new.hi < Size
  BY <1>1, <1>5, <1>6
<1> HIDE DEF new
<1>8. Regions!Apart((regions \ {r}) \cup {new})
  BY <1>3, <1>4, <1>6, <1>7 DEF Regions!Apart
<1> QED BY <1>1, <1>3, <1>8 DEF KeepOff, new

LEMMA InsidePlaced ==
    ASSUME NEW o \in Nat, NEW n \in Nat
    PROVE  Regions!Inside(Regions!Placed(o, n)) = Extent(o, n)
<1>1. Regions!Placed(o, n).lo = o /\ Regions!Placed(o, n).hi = o + n
  BY DEF Regions!Placed
<1> QED BY <1>1 DEF Regions!Inside, Extent

LEMMA ExtentOf ==
    ASSUME NEW lo \in Nat, NEW hi \in Nat
    PROVE  Extent(lo, hi - lo) = lo..(hi - 1)
BY DEF Extent

LEMMA RangesApart ==
    ASSUME NEW l \in Nat, NEW h \in Nat, NEW lo \in Nat, NEW hi \in Nat, h < lo \/ hi < l
    PROVE  (l..(h - 1)) \cap (lo..(hi - 1)) = {}
OBVIOUS

LEMMA ExtentsApart ==
    ASSUME NEW o \in Nat, NEW n \in Nat, NEW m \in Nat, m <= n,
           NEW lo \in Nat, NEW hi \in Nat, hi < o \/ o + n < lo, NEW a \in lo..(hi - 1)
    PROVE  a \notin Extent(o, m)
BY DEF Extent

LEMMA MovedTo ==
    ASSUME NEW s \in Nat, NEW m \in Nat, s + m < Size, NEW o \in Nat, o <= s, NEW n \in Nat
    PROVE  \A j \in 0..(n - 1) : j < m =>
              /\ s + j \in Extent(s, m) /\ o + j \in Extent(o, n)
              /\ o + j \in Cells /\ o + j \in Extent(o, m) /\ (o + j) - o = j
BY SizeAssumption DEF Cells, Extent

\* n bytes at o, and the one behind them, are in chunk i and its free
\* neighbours.
Within(i, o, n) ==
    /\ o = chunks[i].offset \/ (IsFree(chunks, i - 1) /\ o = chunks[i - 1].offset)
    /\ o + n + 1 <= End(chunks[i]) + FreeSize(chunks, i + 1)

\* Only a growing region moves.
MovesToGrow(r, o, n) == o # r.lo => r.hi - r.lo <= n

\* A committed reallocation moves region r there, or resizes it in place.
LEMMA CommitMaps ==
    ASSUME HeapInv, HeapOK(chunks, regions, writable), NEW r \in regions,
           NEW i \in 1..Len(chunks), chunks[i].taken, chunks[i].offset = r.lo,
           NEW ds, NEW n \in Nat, NEW o, Within(i, o, n), MovesToGrow(r, o, n),
           Commit(r, ds, o, n), HeapInv', saved' = saved
    PROVE  Return("Panic") \/ Regions!Reallocate(r, n)
<1> DEFINE m == r.hi - r.lo
           x == IF o # r.lo THEN Extent(r.lo, m) ELSE {}
           new == Region(o, n)
<1>0. /\ r.lo \in Nat /\ r.hi \in Nat /\ r.lo < r.hi /\ r.hi < Size
      /\ m \in Nat /\ r.lo + m = r.hi /\ Size \in Nat /\ Len(chunks) \in Nat
  BY RegionPlace, SizeAssumption, TilesBounds DEF HeapOK
<1>e. Extent(r.lo, m) = r.lo..(r.hi - 1)
  BY <1>0, ExtentOf
<1>1. CASE Return("Panic")
  BY <1>1
<1>2. CASE /\ ~(n = 0 \/ (o # r.lo /\ LengthsDiffer(r.lo, o, m)))
           /\ chunks' = ds
           /\ writable' = IF o # r.lo THEN Granted(o, n) \ Extent(r.lo, m) ELSE Granted(o, n)
           /\ data' = IF o # r.lo THEN Copied(data, r.lo, o, m) ELSE data
           /\ regions' = (regions \ {r}) \cup {new}
           /\ result' = "Ok"
  <2>0. n \in Nat \ {0}
    BY <1>2
  <2>1. /\ o \in Nat /\ o <= r.lo
        /\ KeepOff(regions \ {r}, o, n)
        /\ Regions!Apart((regions \ {r}) \cup {new})
    BY <2>0, ResizedApart DEF Within
  <2>2. new.lo = o /\ new.hi = o + n /\ new = Regions!Placed(o, n)
    BY RegionIs
  <2>c. RegionCells(regions') = RegionCells(regions \ {r}) \cup Extent(o, n)
    <3>1. new.lo..(new.hi - 1) = Extent(o, n)
      BY <2>0, <2>1, <2>2, InsidePlaced DEF Regions!Inside
    <3> QED BY <1>2, <3>1, CellsAdd
  <2> HIDE DEF m, x, new
  <2>3. data' = IF o # r.lo THEN Moved(data, r.lo, o, m) ELSE data
    BY <1>0, <1>2, <2>1, CopiedIsMoved
  <2>4. /\ RegionsTyped(regions) /\ RegionsTyped(regions')
        /\ data \in [Cells -> Values] /\ data' \in [Cells -> Values]
    BY DEF HeapInv, TypeOK, RegionsTyped
  <2>5. ToBytes(Heap)' \in [Regions!Allotted(regions') -> Values]
    BY <2>4, BytesTyped, MappedIs DEF RegionsTyped
  <2>6. ASSUME NEW a, a \notin Extent(o, m) \/ o = r.lo, a \in Cells
        PROVE  data'[a] = data[a]
    BY <2>3, <2>6 DEF Moved
  <2>7. ASSUME NEW q \in regions \ {r}, NEW a \in Regions!Inside(q)
        PROVE  ToBytes(Heap)'[a] = ToBytes(Heap)[a]
    <3>1. a \in RegionCells(regions) /\ a \in RegionCells(regions')
      BY <1>2 DEF RegionCells, Regions!Inside
    <3>2. q.lo \in Nat /\ q.hi \in Nat /\ q.hi < Size
      BY RegionIn
    <3>3. a \in Nat /\ q.lo <= a /\ a < q.hi /\ a \in Cells
      BY <3>2, SizeAssumption DEF Regions!Inside, Cells
    <3>4. q.hi < o \/ o + n < q.lo
      BY <2>1 DEF KeepOff
    <3>5. o # r.lo => m <= n
      BY DEF m, MovesToGrow
    <3>6. a \notin Extent(o, m) \/ o = r.lo
      <4> SUFFICES ASSUME m <= n PROVE a \notin Extent(o, m)
        BY <3>5
      <4>1. a \in q.lo..(q.hi - 1)
        BY DEF Regions!Inside
      <4>2. q.lo \in Nat /\ q.hi \in Nat /\ o \in Nat /\ m \in Nat
        BY <1>0, <2>1, <3>2
      <4> QED BY <4>1, <4>2, <3>4, ExtentsApart
    <3>7. data'[a] = data[a]
      BY <2>6, <3>3, <3>6
    <3> QED BY <3>1, <3>7, MappedIs DEF Bytes
  <2>8. ASSUME NEW j \in 0..(n - 1), r.lo + j < r.hi
        PROVE  ToBytes(Heap)'[o + j] = ToBytes(Heap)[r.lo + j]
    <3>1. /\ r.lo + j \in Extent(r.lo, m) /\ o + j \in Extent(o, n)
          /\ o + j \in Cells /\ o + j \in Extent(o, m) /\ (o + j) - o = j
      <4>1. r.lo + m < Size /\ j < m
        BY <1>0, <2>8
      <4> QED BY <1>0, <2>1, <4>1, MovedTo
    <3>2. r.lo + j \in RegionCells(regions) /\ o + j \in RegionCells(regions')
      <4>1. r.lo + j \in r.lo..(r.hi - 1)
        BY <1>e, <3>1
      <4> QED BY <2>c, <3>1, <4>1, InCells
    <3>3. data'[o + j] = data[r.lo + j]
      BY <2>3, <3>1 DEF Moved
    <3> QED BY <3>2, <3>3, MappedIs DEF Bytes
  <2>9. OffRegions(x, regions \ {r})
    <3> SUFFICES ASSUME NEW a \in x, NEW q \in regions \ {r}, a \in q.lo..(q.hi - 1)
                 PROVE  FALSE
      BY DEF OffRegions, RegionCells
    <3>1. q.lo \in Nat /\ q.hi \in Nat /\ r.lo \in Nat /\ r.hi \in Nat /\ Len(chunks) \in Nat
      BY <1>0, RegionIn
    <3>2. r.hi < q.lo \/ q.hi < r.lo
      BY RegionsApart DEF Regions!Apart
    <3>3. a \in r.lo..(r.hi - 1)
      BY <1>e DEF x
    <3>4. (r.lo..(r.hi - 1)) \cap (q.lo..(q.hi - 1)) = {}
      BY <3>1, <3>2, RangesApart
    <3> QED BY <3>3, <3>4
  <2>10. Opens(writable, writable', o, n, x)
    BY <1>2 DEF Opens, Granted, x, m
  <2>11. Denied(regions', writable') = Denied(regions \ {r}, writable) \cup (Extent(o, n) \cap x)
    <3> DEFINE rest == regions \ {r}
    <3>1. RegionsTyped(rest)
      BY <2>4 DEF RegionsTyped
    <3>2. KeepOff(rest, o, n) /\ OffRegions(x, rest)
      BY <2>1, <2>9
    <3>3. regions' = rest \cup {Region(o, n)}
      BY <1>2 DEF new
    <3> HIDE DEF rest
    <3>4. Denied(rest \cup {Region(o, n)}, writable')
            = Denied(rest, writable) \cup (Extent(o, n) \cap x)
      BY <2>0, <2>1, <2>10, <3>1, <3>2, GrantDenies
    <3> QED BY <3>3, <3>4 DEF rest
  <2>12. ToDenied(Heap)' \ ToDenied(Heap)
             \subseteq (IF o < r.lo THEN Regions!Inside(Regions!Placed(o, n)) ELSE {})
    <3>1. Denied(regions \ {r}, writable) \subseteq Denied(regions, writable)
      BY DEF Denied, RegionCells
    <3>2. Regions!Inside(Regions!Placed(o, n)) = Extent(o, n)
      BY <2>0, <2>1, InsidePlaced
    <3>3. o = r.lo => x = {}
      BY DEF x
    <3>4. o < r.lo \/ o = r.lo
      BY <1>0, <2>1
    <3> QED BY <2>11, <3>1, <3>2, <3>3, <3>4, MappedIs
  <2>13. ToDenied(Heap)' \subseteq Regions!Allotted(regions')
    BY <2>4, BytesTyped, MappedIs DEF RegionsTyped, Denied
  <2>14. o \in 0..r.lo
    BY <1>0, <2>1
  <2> QED
    BY <1>2, <2>1, <2>2, <2>5, <2>7, <2>8, <2>12, <2>13, <2>14
    DEF Regions!Reallocate, Regions!Typed, Regions!Keeps
<1> QED BY <1>1, <1>2 DEF Commit

LEMMA WithinAbove ==
    ASSUME Tiles(chunks), NEW i \in 1..Len(chunks), NEW n \in Nat,
           chunks[i].size + FreeSize(chunks, i + 1) >= n + 1
    PROVE  Within(i, chunks[i].offset, n)
<1> DEFINE o == chunks[i].offset
           z == chunks[i].size
           f == FreeSize(chunks, i + 1)
           e == End(chunks[i])
<1>1. o \in Nat /\ z \in Nat /\ f \in Nat /\ e = o + z /\ z + f >= n + 1
  BY TilesBounds, FreeSizeNat
<1> HIDE DEF o, z, f, e
<1>2. o + n + 1 <= e + f
  BY <1>1
<1> QED BY <1>2 DEF Within, o, f, e

LEMMA WithinBelow ==
    ASSUME Tiles(chunks), NEW i \in 1..Len(chunks), NEW n \in Nat, IsFree(chunks, i - 1),
           chunks[i].size + FreeSize(chunks, i + 1) + FreeSize(chunks, i - 1) >= n + 1
    PROVE  Within(i, chunks[i - 1].offset, n)
<1> DEFINE o == chunks[i - 1].offset
           b == FreeSize(chunks, i - 1)
           z == chunks[i].size
           f == FreeSize(chunks, i + 1)
           e == End(chunks[i])
<1>1. i - 1 \in 1..Len(chunks) /\ i - 1 \in 1..(Len(chunks) - 1) /\ (i - 1) + 1 = i
  <2>1. i - 1 \in 1..(Len(chunks) - 1) /\ Len(chunks) \in Nat /\ i \in Nat
    BY FreeNeighbours
  <2> QED BY <2>1
<1>2. chunks[i].offset = o + b
  <2>1. b = chunks[i - 1].size
    BY DEF FreeSize
  <2> QED BY <1>1, <2>1 DEF Tiles, End
<1>3. /\ o \in Nat /\ b \in Nat /\ z \in Nat /\ f \in Nat
      /\ e = chunks[i].offset + z /\ z + f + b >= n + 1
  BY <1>1, TilesBounds, FreeSizeNat
<1> HIDE DEF o, b, z, f, e
<1>4. e = o + b + z
  BY <1>2, <1>3
<1>5. \A u, v, w, x \in Nat : w + x + v >= n + 1 => u + n + 1 <= (u + v + w) + x
  OBVIOUS
<1>6. o + n + 1 <= e + f
  BY <1>3, <1>4, <1>5
<1> QED BY <1>6 DEF Within, o, f, e

\* Regions are found by their offset.
LEMMA RegionHeld ==
    ASSUME HeapOK(chunks, regions, writable), NEW r \in regions
    PROVE  \E i \in DOMAIN chunks : Holds(chunks, i, r.lo)
<1>1. PICK i \in 1..Len(chunks) : chunks[i].taken /\ chunks[i].offset = r.lo
  BY RegionIn
<1>2. ASSUME NEW j \in 1..(i - 1)
      PROVE  ~(chunks[j].taken /\ chunks[j].offset = r.lo)
  <2>1. j \in 1..Len(chunks) /\ j # i
    <3>1. Len(chunks) \in Nat
      BY TilesBounds DEF HeapOK
    <3> QED BY <3>1
  <2> QED BY <1>1, <2>1, OffsetsDiffer DEF HeapOK
<1>3. DOMAIN chunks = 1..Len(chunks)
  BY TilesBounds DEF HeapOK
<1> QED BY <1>1, <1>2, <1>3 DEF Holds

\* A reallocation resizes a region, is refused, finds no room, or panics.
LEMMA ReallocateMaps ==
    ASSUME HeapInv, ~torn, NEW addr, NEW n \in Nat, Reallocate(addr, n), saved' = saved
    PROVE  \/ Return("ReallocateUnmanaged")
           \/ Return("Panic") /\ regions # {}
           \/ n # 0 /\ \E r \in regions : Regions!Reallocate(r, n)
<1>0. HeapOK(chunks, regions, writable) /\ Tiles(chunks)
  BY DEF HeapInv, HeapOK
<1>1. CASE Return("ReallocateUnmanaged")
  BY <1>1
<1>2. ASSUME NEW r \in regions, r.lo = addr, \A i \in DOMAIN chunks : ~Holds(chunks, i, addr)
      PROVE  FALSE
  BY <1>0, <1>2, RegionHeld
<1>3. ASSUME NEW r \in regions, r.lo = addr,
             NEW i \in DOMAIN chunks, Holds(chunks, i, addr),
             \/ ReallocateKeep(r, i, n)
             \/ ReallocateShrink(r, i, n)
             \/ ReallocateUp(r, i, n)
             \/ ReallocateDown(r, i, n)
             \/ ReallocateMove(r, i, n)
      PROVE  \/ Return("Panic")
             \/ n # 0 /\ Regions!Reallocate(r, n)
  <2>1. i \in 1..Len(chunks) /\ chunks[i].taken /\ chunks[i].offset = r.lo
    BY <1>0, <1>3, TilesBounds DEF Holds
  <2>2. HeapInv'
    BY ReallocateKeeps
  <2>3. ASSUME NEW ds, NEW o, Within(i, o, n), MovesToGrow(r, o, n), Commit(r, ds, o, n)
        PROVE  \/ Return("Panic")
               \/ n # 0 /\ Regions!Reallocate(r, n)
    <3>1. Return("Panic") \/ Regions!Reallocate(r, n)
      BY <1>0, <2>1, <2>2, <2>3, CommitMaps
    <3>2. n = 0 => Return("Panic")
      BY <2>3 DEF Commit
    <3> QED BY <3>1, <3>2
  <2> DEFINE z == chunks[i].size
             f == FreeSize(chunks, i + 1)
             b == FreeSize(chunks, i - 1)
  <2>4. z \in Nat /\ f \in Nat /\ b \in Nat
    BY <1>0, <2>1, TilesBounds, FreeSizeNat
  <2>5. r.hi - r.lo \in Nat /\ r.lo < r.hi /\ r.lo \in Nat /\ r.hi \in Nat
        /\ z = (r.hi - r.lo) + 1
    BY <1>0, <2>1, RegionPlace
  <2>6. CASE ReallocateKeep(r, i, n) \/ ReallocateShrink(r, i, n) \/ ReallocateUp(r, i, n)
    <3>1. z + f >= n + 1
      <4>1. z >= n + 1 \/ z + f >= n + 1
        BY <2>4, <2>6 DEF ReallocateKeep, ReallocateShrink, ReallocateUp
      <4> HIDE DEF z, f
      <4> QED BY <2>4, <4>1
    <3>2. Within(i, r.lo, n) /\ MovesToGrow(r, r.lo, n)
      BY <1>0, <2>1, <3>1, WithinAbove DEF MovesToGrow
    <3> QED BY <2>3, <2>6, <3>2 DEF ReallocateKeep, ReallocateShrink, ReallocateUp
  <2>7. CASE ReallocateDown(r, i, n)
    <3>1. z + f < n + 1 /\ z + f + b >= n + 1
      BY <2>7 DEF ReallocateDown
    <3>2. IsFree(chunks, i - 1)
      <4>1. ~IsFree(chunks, i - 1) => b = 0
        BY DEF FreeSize
      <4> HIDE DEF z, f, b
      <4> QED BY <2>4, <3>1, <4>1
    <3>3. Within(i, chunks[i - 1].offset, n)
      BY <1>0, <2>1, <3>1, <3>2, WithinBelow
    <3>4. r.hi - r.lo <= n
      <4> DEFINE m == r.hi - r.lo
      <4>1. m \in Nat /\ z = m + 1
        BY <2>5
      <4> HIDE DEF z, f, m
      <4>2. m <= n
        BY <2>4, <3>1, <4>1
      <4> QED BY <4>2 DEF m
    <3>5. MovesToGrow(r, chunks[i - 1].offset, n)
      BY <3>4 DEF MovesToGrow
    <3> QED BY <2>3, <2>7, <3>3, <3>5 DEF ReallocateDown
  <2>8. CASE ReallocateMove(r, i, n)
    <3>1. Return("NotEnoughFreeSpace") \/ Return("Panic")
      BY <2>1, <2>8, MoveNeverCommits
    <3>2. CASE Return("NotEnoughFreeSpace")
      <4>1. NoFit(n + 1)
        BY <2>8, <3>2 DEF ReallocateMove, Commit, Return
      <4>2. Regions!Room(n) = {}
        BY <1>0, <4>1, NoFitNoRoom
      <4>3. n > r.hi - r.lo
        <5> DEFINE m == r.hi - r.lo
        <5>1. b + z + f < n + 1 /\ m \in Nat /\ z = m + 1
          BY <2>5, <2>8 DEF ReallocateMove
        <5> HIDE DEF z, f, b, m
        <5>2. n > m
          BY <2>4, <5>1
        <5> QED BY <5>2 DEF m
      <4>4. n # 0
        BY <2>5, <4>3
      <4> QED BY <3>2, <4>2, <4>3, <4>4, MappedIs
          DEF Return, Regions!Reallocate, Regions!Full
    <3> QED BY <3>1, <3>2
  <2> QED BY <1>3, <2>6, <2>7, <2>8
<1> QED BY <1>1, <1>2, <1>3 DEF Reallocate, RegionAt

\* A region is given back, contents and permissions of the others are kept.
LEMMA DeallocateMaps ==
    ASSUME HeapInv, ~torn, NEW addr, Deallocate(addr), saved' = saved
    PROVE  \/ Return("FreeUnmanaged")
           \/ \E r \in regions : Regions!Deallocate(r)
<1>0. HeapOK(chunks, regions, writable)
  BY DEF HeapInv
<1>1. CASE Return("FreeUnmanaged")
  BY <1>1
<1>2. ASSUME NEW r \in regions,
             writable' = writable \ Extent(r.lo, r.hi - r.lo),
             regions' = regions \ {r}, result' = "Ok", data' = data
      PROVE  Regions!Deallocate(r)
  <2>1. /\ regions \in SUBSET [lo : Cells, hi : Cells]
        /\ regions' \in SUBSET [lo : Cells, hi : Cells] /\ data' \in [Cells -> Values]
    BY <1>2 DEF HeapInv, TypeOK
  <2>2. ToBytes(Heap)' \in [Regions!Allotted(regions') -> Values]
    BY <2>1, BytesTyped, MappedIs
  <2>3. RegionCells(regions') \subseteq RegionCells(regions)
    BY <1>2 DEF RegionCells
  <2>4. ASSUME NEW q \in regions', NEW a \in Regions!Inside(q)
        PROVE  ToBytes(Heap)'[a] = ToBytes(Heap)[a]
    <3>1. a \in RegionCells(regions')
      BY InCells DEF Regions!Inside
    <3> QED BY <1>2, <2>3, <3>1, MappedIs DEF Bytes
  <2>5. Extent(r.lo, r.hi - r.lo) \cap RegionCells(regions') = {}
    <3> SUFFICES ASSUME NEW q \in regions'
                 PROVE  Extent(r.lo, r.hi - r.lo) \cap (q.lo..(q.hi - 1)) = {}
      BY DEF RegionCells
    <3>1. q \in regions /\ q # r
      BY <1>2
    <3>2. q.lo \in Nat /\ q.hi \in Nat /\ r.lo \in Nat /\ r.hi \in Nat
      BY <1>0, <3>1, RegionIn
    <3>3. r.hi < q.lo \/ q.hi < r.lo
      BY <1>0, <3>1, RegionsApart DEF Regions!Apart
    <3>4. Extent(r.lo, r.hi - r.lo) = r.lo..(r.hi - 1)
      BY <3>2, ExtentOf
    <3>5. (r.lo..(r.hi - 1)) \cap (q.lo..(q.hi - 1)) = {}
      BY <3>2, <3>3, RangesApart
    <3> QED BY <3>4, <3>5
  <2>6. ToDenied(Heap)' = ToDenied(Heap) \cap Regions!Allotted(regions')
    <3>1. Denied(regions', writable') = Denied(regions, writable) \cap RegionCells(regions')
      BY <1>2, <2>3, <2>5 DEF Denied
    <3> QED BY <2>1, <3>1, BytesTyped, MappedIs
  <2> QED
    BY <1>2, <2>2, <2>4, <2>6 DEF Regions!Deallocate, Regions!Typed, Regions!Keeps
<1> QED BY <1>1, <1>2 DEF Deallocate, RegionAt

\* Without a free chunk there is a region, and no room for another.
LEMMA FullForAny ==
    ASSUME HeapOK(chunks, regions, writable), NoFit(1), NEW n \in Nat
    PROVE  regions # {} /\ Regions!Room(n) = {}
<1>1. DOMAIN chunks = 1..Len(chunks) /\ 1 \in 1..Len(chunks) /\ Len(chunks) \in Nat
  BY TilesBounds DEF HeapOK
<1>2. \A i \in 1..Len(chunks) : chunks[i].taken
  <2> TAKE i \in 1..Len(chunks)
  <2>1. chunks[i].size \in Nat \ {0}
    BY TilesBounds DEF HeapOK
  <2>2. ~(chunks[i].size < 1)
    BY <2>1
  <2> QED BY <1>1, <2>2 DEF NoFit, IsFree
<1>3. RegionOf(chunks[1]) \in regions
  BY <1>1, <1>2 DEF HeapOK, TakenRegions
<1>4. NoFit(n + 1)
  BY <1>1, <1>2 DEF NoFit, IsFree
<1> QED BY <1>3, <1>4, NoFitNoRoom

\* Bytes written where all checks pass are of one region, and not denied.
LEMMA WriteMaps ==
    ASSUME HeapInv, ~torn, NEW a \in Nat, NEW n \in Nat \ {0},
           Translates(a, n), InBounds(a, n), AllWritable(a, n),
           regions' = regions, writable' = writable, result' = "Ok", saved' = saved,
           data' \in [Cells -> Values], \A c \in Cells \ Extent(a, n) : data'[c] = data[c]
    PROVE  Regions!Access
<1>0. HeapOK(chunks, regions, writable) /\ regions \in SUBSET [lo : Cells, hi : Cells]
  BY DEF HeapInv, TypeOK
<1>1. a \in Cells /\ n \in 1..Size
  BY SizeAssumption DEF InBounds, Cells
<1>2. PICK r \in regions : Extent(a, n) \subseteq r.lo..(r.hi - 1)
  BY <1>0, <1>1, WriteConfined
<1>3. ToBytes(Heap)' \in [Regions!Allotted(regions') -> Values]
  BY <1>0, BytesTyped, MappedIs
<1>4. RegionCells(regions) \subseteq Cells
  BY <1>0, BytesTyped
<1>5. ASSUME NEW c \in RegionCells(regions), c \notin Extent(a, n)
      PROVE  ToBytes(Heap)'[c] = ToBytes(Heap)[c]
  <2>1. data'[c] = data[c]
    BY <1>4, <1>5
  <2> QED BY <1>5, <2>1, MappedIs DEF Bytes
<1>6. ASSUME NEW c \in ToDenied(Heap)
      PROVE  ToBytes(Heap)'[c] = ToBytes(Heap)[c]
  <2>1. c \in RegionCells(regions) /\ c \notin writable
    BY MappedIs DEF Denied
  <2>2. c \notin Extent(a, n)
    BY <2>1 DEF AllWritable
  <2> QED BY <1>5, <2>1, <2>2
<1>7. ASSUME NEW q \in regions \ {r}, NEW c \in Regions!Inside(q)
      PROVE  ToBytes(Heap)'[c] = ToBytes(Heap)[c]
  <2>1. c \in RegionCells(regions) /\ c \in q.lo..(q.hi - 1)
    BY InCells DEF Regions!Inside
  <2>2. q.lo \in Nat /\ q.hi \in Nat /\ r.lo \in Nat /\ r.hi \in Nat
    BY <1>0, RegionIn
  <2>3. r.hi < q.lo \/ q.hi < r.lo
    BY <1>0, RegionsApart DEF Regions!Apart
  <2>4. (r.lo..(r.hi - 1)) \cap (q.lo..(q.hi - 1)) = {}
    BY <2>2, <2>3, RangesApart
  <2> QED BY <1>2, <1>5, <2>1, <2>4
<1>8. ToDenied(Heap)' = ToDenied(Heap)
  BY MappedIs
<1> QED
  BY <1>3, <1>6, <1>7, <1>8 DEF Regions!Access, Regions!Typed, Regions!Keeps

\* A read changes nothing.
LEMMA ReadMaps ==
    ASSUME HeapInv, regions # {}, Return("Ok"), saved' = saved
    PROVE  Regions!Access
<1>1. /\ regions' = regions /\ data' = data /\ writable' = writable /\ result' = "Ok"
      /\ regions \in SUBSET [lo : Cells, hi : Cells] /\ data \in [Cells -> Values]
  BY DEF Return, HeapInv, TypeOK
<1>2. ToBytes(Heap)' = ToBytes(Heap) /\ ToDenied(Heap)' = ToDenied(Heap)
  BY <1>1, MappedIs
<1>3. ToBytes(Heap)' \in [Regions!Allotted(regions') -> Values]
  BY <1>1, BytesTyped, MappedIs
<1>4. \E r \in regions : TRUE
  OBVIOUS
<1> QED BY <1>1, <1>2, <1>3, <1>4 DEF Regions!Access, Regions!Typed, Regions!Keeps

Refusals == Statuses \ {"Ok", "NotEnoughFreeSpace", "Panic"}

LEMMA AccessMaps ==
    ASSUME HeapInv, ~torn, Access, saved' = saved
    PROVE  \/ \E status \in Refusals : Return(status)
           \/ Return("Panic") /\ regions # {}
           \/ Regions!Access
<1>1. PICK a \in Addresses, n \in AccessSizes :
        \/ ViewValues(a, n)
        \/ \E fault \in {"OOBRead", "OOBWrite"} : SetValues(a, n, fault)
        \/ \E d \in Addresses : CopyValues(a, d, n)
  BY DEF Access
<1>2. a \in Nat /\ n \in Nat \ {0}
  BY HeapAssumption
<1>3. CASE \E status \in Refusals : Return(status)
  BY <1>3
<1>4. ASSUME NEW b, Untranslated(b, n)
      PROVE  \E status \in Refusals : Return(status)
  BY <1>4 DEF Untranslated, Refusals, Statuses
<1>5. ASSUME NEW b, Translates(b, n)
      PROVE  regions # {}
  BY <1>5 DEF Translates
<1>6. data \in [Cells -> Values] /\ data' \in [Cells -> Values]
  BY AccessShape DEF HeapInv, TypeOK
<1>7. CASE ViewValues(a, n)
  <2>1. CASE Translates(a, n) /\ Return("Ok")
    BY <1>5, <2>1, ReadMaps
  <2>2. CASE Return("OOBRead")
    BY <1>3, <2>2 DEF Refusals, Statuses
  <2> QED BY <1>3, <1>4, <1>7, <2>1, <2>2 DEF ViewValues
<1>8. ASSUME NEW fault \in {"OOBRead", "OOBWrite"}, SetValues(a, n, fault)
      PROVE  (\E status \in Refusals : Return(status)) \/ Regions!Access
  <2>1. CASE Return(fault) \/ Return("AccessViolation")
    BY <2>1 DEF Refusals, Statuses
  <2>2. ASSUME Translates(a, n), InBounds(a, n), AllWritable(a, n),
               NEW vals,
               data' = [c \in Cells |-> IF c \in Extent(a, n) THEN vals[c - a] ELSE data[c]],
               result' = "Ok", UNCHANGED <<chunks, regions, writable, torn>>
        PROVE  Regions!Access
    <3>1. \A c \in Cells \ Extent(a, n) : data'[c] = data[c]
      BY <2>2
    <3> QED BY <1>2, <1>6, <2>2, <3>1, WriteMaps
  <2> QED BY <1>4, <1>8, <2>1, <2>2 DEF SetValues
<1>9. ASSUME NEW d \in Addresses, CopyValues(a, d, n)
      PROVE  \/ \E status \in Refusals : Return(status)
             \/ Return("Panic") /\ regions # {}
             \/ Regions!Access
  <2>0. d \in Nat
    BY HeapAssumption
  <2>1. CASE Return("OOBRead") \/ Return("OOBWrite") \/ Return("AccessViolation")
    BY <2>1 DEF Refusals, Statuses
  <2>2. CASE Translates(a, n) /\ Return("Panic")
    BY <1>5, <2>2
  <2>3. CASE /\ Translates(d, n) /\ InBounds(d, n) /\ AllWritable(d, n)
             /\ data' = IF d = a THEN data ELSE Copied(data, a, d, n)
             /\ result' = "Ok"
             /\ UNCHANGED <<chunks, regions, writable, torn>>
    <3>1. \A c \in Cells \ Extent(d, n) : data'[c] = data[c]
      <4>1. data' = data \/ data' = Moved(data, a, d, n)
        BY <1>2, <2>0, <2>3, CopiedIsMoved
      <4> QED BY <4>1 DEF Moved
    <3> QED BY <1>2, <1>6, <2>0, <2>3, <3>1, WriteMaps
  <2> QED BY <1>4, <1>9, <2>1, <2>2, <2>3 DEF CopyValues
<1> QED BY <1>1, <1>7, <1>8, <1>9

LEMMA RefusalMaps ==
    ASSUME NEW status \in Refusals, Return(status), saved' = saved
    PROVE  Regions!Refuse
BY MappedIs DEF Regions!Refuse, Refusals, Return

LEMMA PanicMaps ==
    ASSUME Return("Panic"), regions # {} \/ 0 \in AllocSizes, saved' = saved
    PROVE  Regions!Abort
BY MappedIs DEF Regions!Abort, Return

\* Every step of the heap is one of the abstract heap.
LEMMA NextMaps ==
    ASSUME HeapInv, Sized(regions), Next, saved' = saved
    PROVE  Regions!Next
<1>0. ~torn /\ HeapOK(chunks, regions, writable)
  BY DEF Next, Running, HeapInv
<1>1. ASSUME NEW status \in Refusals, Return(status) PROVE Regions!Next
  BY <1>1, RefusalMaps DEF Regions!Next
<1>2. ASSUME Return("Panic"), regions # {} \/ 0 \in AllocSizes PROVE Regions!Next
  BY <1>2, PanicMaps DEF Regions!Next
<1>3. ASSUME NEW n \in AllocSizes, Allocate(n) PROVE Regions!Next
  <2>1. n \in Nat
    BY HeapAssumption
  <2>2. CASE n # 0
    <3>1. Regions!Allocate(n)
      BY <1>0, <1>3, <2>1, <2>2, AllocateMaps
    <3> QED BY <2>2, <3>1 DEF Regions!Next
  <2>3. CASE n = 0 /\ Return("Panic")
    BY <1>2, <2>3
  <2>4. CASE n = 0 /\ NoFit(1) /\ Return("NotEnoughFreeSpace")
    <3>1. regions # {}
      BY <1>0, <2>4, FullForAny
    <3>2. PICK k \in AllocSizes : k > 0
      BY <3>1 DEF Sized
    <3>3. k \in AllocSizes \ {0} /\ k \in Nat
      BY <3>2, HeapAssumption
    <3>4. Regions!Room(k) = {}
      BY <1>0, <2>4, <3>3, FullForAny
    <3>5. Regions!Allocate(k)
      BY <2>4, <3>4, MappedIs DEF Return, Regions!Allocate, Regions!Full
    <3> QED BY <3>3, <3>5 DEF Regions!Next
  <2> QED BY <1>3, <2>1, <2>2, <2>3, <2>4 DEF Allocate
<1>4. ASSUME NEW a \in Addresses, NEW n \in AllocSizes, Reallocate(a, n) PROVE Regions!Next
  <2>1. n \in Nat
    BY HeapAssumption
  <2>2. \/ Return("ReallocateUnmanaged")
        \/ Return("Panic") /\ regions # {}
        \/ n # 0 /\ \E r \in regions : Regions!Reallocate(r, n)
    BY <1>0, <1>4, <2>1, ReallocateMaps
  <2>3. CASE Return("ReallocateUnmanaged")
    BY <1>1, <2>3 DEF Refusals, Statuses
  <2>4. CASE n # 0 /\ \E r \in regions : Regions!Reallocate(r, n)
    BY <2>4 DEF Regions!Next
  <2> QED BY <1>2, <2>2, <2>3, <2>4
<1>5. ASSUME NEW a \in Addresses, Deallocate(a) PROVE Regions!Next
  <2>1. \/ Return("FreeUnmanaged")
        \/ \E r \in regions : Regions!Deallocate(r)
    BY <1>0, <1>5, DeallocateMaps
  <2>2. CASE Return("FreeUnmanaged")
    BY <1>1, <2>2 DEF Refusals, Statuses
  <2>3. CASE \E r \in regions : Regions!Deallocate(r)
    BY <2>3 DEF Regions!Next
  <2> QED BY <2>1, <2>2, <2>3
<1>6. CASE Access
  <2>1. \/ \E status \in Refusals : Return(status)
        \/ Return("Panic") /\ regions # {}
        \/ Regions!Access
    BY <1>0, <1>6, AccessMaps
  <2>2. CASE Regions!Access
    BY <2>2 DEF Regions!Next
  <2> QED BY <1>1, <1>2, <2>1, <2>2
<1> QED BY <1>3, <1>4, <1>5, <1>6 DEF Next, Manage

\* What a client of the heap relies on: however its chunk list was split and
\* merged, and from whatever snapshot it came back, regions are apart, keep
\* their contents, are found whenever there is room, and a store stays in one.
THEOREM HeapImplementsRegions == SnapshotSpec => ImplementsRegions
<1>1. SnapshotInit => Regions!Init
  <2> SUFFICES ASSUME SnapshotInit PROVE Regions!Init
    OBVIOUS
  <2>1. regions = {} /\ result = "Ok" /\ RegionCells(regions) = {}
    BY DEF SnapshotInit, Init, RegionCells
  <2>2. ToBytes(Heap) = [a \in {} |-> 0] /\ ToDenied(Heap) = {}
    BY <2>1, MappedIs DEF Bytes, Denied
  <2>3. saved = Heap /\ saved.regions = regions
    BY DEF SnapshotInit, Heap
  <2>4. /\ ToBytes(saved) = ToBytes(Heap)
        /\ ToDenied(saved) = ToDenied(Heap)
    BY <2>3
  <2> QED BY <2>1, <2>2, <2>3, <2>4 DEF Regions!Init
<1>2. SnapshotInv /\ [SnapshotNext]_allvars => [Regions!Next]_(Regions!vars)
  <2> SUFFICES ASSUME SnapshotInv, [SnapshotNext]_allvars
               PROVE  [Regions!Next]_(Regions!vars)
    OBVIOUS
  <2>1. CASE UNCHANGED allvars
    BY <2>1, MappedIs DEF allvars, vars, Regions!vars
  <2>2. CASE Next /\ UNCHANGED saved
    BY <2>2, NextMaps DEF SnapshotInv
  <2>3. CASE Running /\ Fork
    <3>1. saved' = Heap /\ Return("Ok")
      BY <2>3 DEF Fork
    <3>2. /\ saved'.regions = regions
          /\ ToBytes(saved') = ToBytes(Heap) /\ ToDenied(saved') = ToDenied(Heap)
      BY <3>1 DEF Heap
    <3>3. /\ regions' = regions /\ result' = "Ok"
          /\ ToBytes(Heap)' = ToBytes(Heap) /\ ToDenied(Heap)' = ToDenied(Heap)
      BY <3>1, MappedIs DEF Return
    <3>4. Regions!Fork
      BY <3>2, <3>3 DEF Regions!Fork
    <3> QED BY <3>4 DEF Regions!Next
  <2>4. CASE Running /\ Restore
    <3>1. /\ regions' = saved.regions /\ writable' = saved.writable /\ data' = saved.data
          /\ saved' = saved /\ result' = "Ok"
      BY <2>4 DEF Restore
    <3>2. ToBytes(saved) = ToBytes(Heap)' /\ ToDenied(saved) = ToDenied(Heap)'
      BY <3>1, MappedIs DEF ToBytes, ToDenied, Bytes, Denied
    <3>3. Regions!Restore
      BY <3>1, <3>2 DEF Regions!Restore
    <3> QED BY <3>3 DEF Regions!Next
  <2> QED BY <2>1, <2>2, <2>3, <2>4 DEF SnapshotNext
<1> QED
  BY <1>1, <1>2, SnapshotInvariant, PTL DEF SnapshotSpec, ImplementsRegions, Regions!Spec
=============================================================================
