----------------------------- MODULE SparseMemory -----------------------------
(***************************************************************************)
(* What a PagedState promises its callers: a family of memories with       *)
(* holes.  A memory maps some areas of the address space; an access has to *)
(* stay inside one block, which is an area or a part of one.  Nothing is   *)
(* said of segments, offsets, backings or of how a snapshot is taken.      *)
(* Reads return what they saw.                                             *)
(*                                                                         *)
(* The promise has a hole of its own: accesses that are astray, which run  *)
(* past the end of the address space from a window, may go through.  What  *)
(* they see past the window is not said; what they write there may change  *)
(* any window, but nothing that is sealed and nothing that is no window.   *)
(***************************************************************************)
EXTENDS Integers

CONSTANTS
    Handles,   \* the memories the program can hold
    Space,     \* number of addresses
    Values,    \* contents of an address
    Default,   \* contents of a new area
    Sizes,     \* sizes of accesses, at least 1
    Windows,   \* the areas mapped at first that are blocks,
    Heaps,     \* ... those that are not,
    Regions,   \* ... and the blocks inside these
    Extents,   \* the areas a caller may map
    Astray     \* <<a, n>>: the accesses of n from a in a window that are astray

VARIABLES
    live,      \* handles that hold a memory
    areas,     \* areas[h]: the intervals [lo, hi) mapped in h
    blocks,    \* blocks[h]: the intervals an access may not leave
    sealed,    \* addresses that are never written
    mem,       \* mem[h][a] for every mapped address a of h
    result,    \* outcome of the last call, with the values it returned
    call       \* the last call with its arguments

vars == <<live, areas, blocks, sealed, mem, result, call>>

Within(a, n) == a..(a + n - 1)
Inside(b) == b.lo..(b.hi - 1)
Apart(b, c) == Inside(b) \cap Inside(c) = {}

Layout == Windows \cup Heaps

Init ==
    /\ \E h \in Handles : live = {h}
    /\ areas = [h \in Handles |-> IF h \in live THEN Layout ELSE {}]
    /\ blocks = [h \in Handles |-> IF h \in live THEN Windows \cup Regions ELSE {}]
    /\ sealed \in SUBSET (UNION {Inside(b) : b \in Layout})
    /\ mem \in [Handles -> UNION {[UNION {Inside(b) : b \in bs} -> Values] : bs \in {{}, Layout}}]
    /\ \A h \in Handles : DOMAIN mem[h] = UNION {Inside(b) : b \in areas[h]}
    /\ result = [status |-> "Ok", seen |-> <<>>]
    /\ call = <<"New">>

Returns(status, seen) == result' = [status |-> status, seen |-> seen]

\* A call that is refused has no effect.  Only an access that reaches the end
\* of the address space may abort instead.
Refused(a, n) ==
    /\ \/ result'.status \in {"UnmappedAddress", "OverlappedAccess", "AccessUnmanaged",
                              "HeapOverflow", "OOBRead", "OOBWrite", "AccessViolation"}
       \/ a + n >= Space /\ result'.status = "Panic"
    /\ UNCHANGED <<live, areas, blocks, sealed, mem>>

Returned(h, a, n) ==
    /\ Returns("Ok", [i \in 0..(n - 1) |-> mem[h][a + i]])
    /\ UNCHANGED <<live, areas, blocks, sealed, mem>>

Fits(h, a, n) == \E b \in blocks[h] : Within(a, n) \subseteq Inside(b)

\* A read that fits succeeds.  One that only touches a single block of an
\* area may: what it sees is still the memory.
Readable(h, a, n) ==
    /\ \E c \in areas[h] : Within(a, n) \subseteq Inside(c)
    /\ \E b \in blocks[h] : {q \in blocks[h] : Within(a, n) \cap Inside(q) # {}} = {b}

\* An astray read sees the memory as far as its window goes.
Strays(h, a, n, b) == <<a, n>> \in Astray /\ b \in blocks[h] /\ a \in Inside(b)

Sees(h, a, n, vals) ==
    \/ Readable(h, a, n) /\ \A i \in 0..(n - 1) : vals[i] = mem[h][a + i]
    \/ \E b \in blocks[h] :
          /\ Strays(h, a, n, b)
          /\ \A i \in 0..(n - 1) : a + i \in Inside(b) => vals[i] = mem[h][a + i]

Read(h, a, n) ==
    \/ /\ \E vals \in [0..(n - 1) -> Values] : Sees(h, a, n, vals) /\ Returns("Ok", vals)
       /\ UNCHANGED <<live, areas, blocks, sealed, mem>>
    \/ ~Fits(h, a, n) /\ Refused(a, n)

\* A read without a size runs to the end of the area, where that is one block.
ReadFrom(h, a) ==
    \/ \E b \in blocks[h] \cap areas[h] : a \in Inside(b) /\ Returned(h, a, b.hi - a)
    \/ /\ \A b \in blocks[h] \cap areas[h] : a \notin Inside(b)
       /\ Refused(a, Space) \/ \E n \in 1..Space : Readable(h, a, n) /\ Returned(h, a, n)

\* A write succeeds exactly when it fits and meets no sealed address, and
\* stores its values there and nowhere else.
Admits(h, a, n) == Fits(h, a, n) /\ Within(a, n) \cap sealed = {}

Stored(h, a, n, vals) ==
    /\ mem' = [mem EXCEPT ![h] =
                  [c \in DOMAIN @ |-> IF c \in Within(a, n) THEN vals[c - a] ELSE @[c]]]
    /\ Returns("Ok", <<>>)
    /\ UNCHANGED <<live, areas, blocks, sealed>>

\* An astray write stores its values in its window b, and spills.
Scattered(h, a, n, vals, b, spill) ==
    mem' = [mem EXCEPT ![h] =
               [c \in DOMAIN @ |->
                   IF c \in Within(a, n) \cap Inside(b) THEN vals[c - a]
                   ELSE IF c \in DOMAIN spill THEN spill[c] ELSE @[c]]]

Spilt(h, a, n, vals) ==
    /\ \E b \in blocks[h], spill \in [(UNION {Inside(w) : w \in Windows}) \ sealed -> Values] :
          /\ Strays(h, a, n, b)
          /\ Within(a, n) \cap Inside(b) \cap sealed = {}
          /\ Scattered(h, a, n, vals, b, spill)
    /\ Returns("Ok", <<>>)
    /\ UNCHANGED <<live, areas, blocks, sealed>>

Changes(h, a, n, vals) == (Admits(h, a, n) /\ Stored(h, a, n, vals)) \/ Spilt(h, a, n, vals)

Write(h, a, n, vals) ==
    \/ Changes(h, a, n, vals)
    \/ ~Admits(h, a, n) /\ Refused(a, n)

\* A copy is a memmove between any two places of the memory.
Copy(h, s, d, n) ==
    \/ \E vals \in [0..(n - 1) -> Values] : Sees(h, s, n, vals) /\ Changes(h, d, n, vals)
    \/ /\ ~(Fits(h, s, n) /\ Admits(h, d, n))
       /\ Refused(s, n) \/ Refused(d, n)

\* A new area is apart from the others and holds default values; it is one
\* block or has none.
Map(h, e) ==
    \/ /\ \A b \in areas[h] : Apart(b, e)
       /\ areas' = [areas EXCEPT ![h] = @ \cup {e}]
       /\ blocks' \in {blocks, [blocks EXCEPT ![h] = @ \cup {e}]}
       /\ mem' = [mem EXCEPT ![h] =
                     [a \in DOMAIN @ \cup Inside(e) |-> IF a \in Inside(e) THEN Default ELSE @[a]]]
       /\ Returns("Ok", <<>>)
       /\ UNCHANGED <<live, sealed>>
    \/ /\ \E b \in areas[h] : ~Apart(b, e)
       /\ Returns("OverlappedMapping", <<>>)
       /\ UNCHANGED <<live, areas, blocks, sealed, mem>>

\* h becomes an exact and independent copy of k.
Become(h, k) ==
    /\ live' = live \cup {h}
    /\ areas' = [areas EXCEPT ![h] = areas[k]]
    /\ blocks' = [blocks EXCEPT ![h] = blocks[k]]
    /\ mem' = [mem EXCEPT ![h] = mem[k]]
    /\ Returns("Ok", <<>>)
    /\ UNCHANGED sealed

Running == result.status # "Panic"
Addresses == 0..(Space - 1)

Next ==
    /\ Running
    /\ \/ \E h \in live, a \in Addresses, n \in Sizes :
             \/ call' = <<"Read", h, a, n>> /\ Read(h, a, n)
             \/ \E vals \in [0..(n - 1) -> Values] :
                   call' = <<"Write", h, a, n, vals>> /\ Write(h, a, n, vals)
             \/ \E d \in Addresses : call' = <<"Copy", h, a, n, d>> /\ Copy(h, a, d, n)
       \/ \E h \in live, a \in Addresses : call' = <<"From", h, a>> /\ ReadFrom(h, a)
       \/ \E h \in live, e \in Extents : call' = <<"Map", h, e>> /\ Map(h, e)
       \/ \E k \in live, h \in Handles :
             h # k /\ call' = <<"Become", h, k>> /\ Become(h, k)

Spec == Init /\ [][Next]_vars
=============================================================================
