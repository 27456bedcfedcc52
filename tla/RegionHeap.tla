------------------------------ MODULE RegionHeap ------------------------------
(***************************************************************************)
(* What a heap promises its client: regions apart from one another, with   *)
(* contents of their own, found wherever there is room for them, and one   *)
(* snapshot to go back to.  Nothing is said of chunks or permissions, but  *)
(* that a resized region may be left with bytes that cannot be written.    *)
(***************************************************************************)
EXTENDS Integers

CONSTANTS
    Size,       \* length of the heap
    AllocSizes, \* sizes asked for
    Values      \* contents of a byte

VARIABLES
    regions,    \* [lo, hi) of each region
    bytes,      \* bytes[a]: contents of the address a of a region
    denied,     \* addresses of regions whose bytes cannot be written
    status,     \* of the last call
    saved       \* the snapshot: regions, bytes, denied

vars == <<regions, bytes, denied, status, saved>>

Inside(r) == r.lo..(r.hi - 1)
Allotted(rs) == UNION {Inside(r) : r \in rs}

\* A byte between a region and the next, and one at the end.
Apart(rs) ==
    /\ \A r \in rs : 0 <= r.lo /\ r.lo < r.hi /\ r.hi < Size
    /\ \A r, q \in rs : r = q \/ r.hi < q.lo \/ q.hi < r.lo

Placed(lo, n) == [lo |-> lo, hi |-> lo + n]
Room(n) == {lo \in 0..Size : Placed(lo, n) \notin regions /\ Apart(regions \cup {Placed(lo, n)})}

Init ==
    /\ regions = {} /\ bytes = [a \in {} |-> 0] /\ denied = {}
    /\ status = "Ok"
    /\ saved = [regions |-> regions, bytes |-> bytes, denied |-> denied]

Refuse ==
    /\ status' \notin {"Ok", "NotEnoughFreeSpace", "Panic"}
    /\ UNCHANGED <<regions, bytes, denied, saved>>

\* The regions in rs keep their contents; what others hold is not said.
Keeps(rs) == \A r \in rs : \A a \in Inside(r) : bytes'[a] = bytes[a]
Typed == bytes' \in [Allotted(regions') -> Values]

\* There is no space only if there is no room, however often regions were
\* allocated, resized and freed before.
Full(n) ==
    /\ Room(n) = {}
    /\ status' = "NotEnoughFreeSpace"
    /\ UNCHANGED <<regions, bytes, denied, saved>>

Allocate(n) ==
    \/ Full(n)
    \/ /\ \E lo \in Room(n) : regions' = regions \cup {Placed(lo, n)}
       /\ Typed /\ Keeps(regions)
       /\ denied' = denied
       /\ status' = "Ok"
       /\ UNCHANGED saved

\* A region keeps its contents as far as they fit.  If it grows below its old
\* place it may be left with bytes denied.
Reallocate(r, n) ==
    \/ Full(n) /\ n > r.hi - r.lo
    \/ \E lo \in 0..r.lo :
          /\ regions' = (regions \ {r}) \cup {Placed(lo, n)}
          /\ Apart(regions')
          /\ Typed /\ Keeps(regions \ {r})
          /\ \A i \in 0..(n - 1) : r.lo + i < r.hi => bytes'[lo + i] = bytes[r.lo + i]
          /\ denied' \ denied \subseteq (IF lo < r.lo THEN Inside(Placed(lo, n)) ELSE {})
          /\ denied' \subseteq Allotted(regions')
          /\ status' = "Ok"
          /\ UNCHANGED saved

Deallocate(r) ==
    /\ regions' = regions \ {r}
    /\ Typed /\ Keeps(regions')
    /\ denied' = denied \cap Allotted(regions')
    /\ status' = "Ok"
    /\ UNCHANGED saved

\* A write or a copy changes bytes of one region that are not denied; a read none.
Access ==
    /\ UNCHANGED <<regions, denied, saved>>
    /\ status' = "Ok"
    /\ Typed
    /\ \A a \in denied : bytes'[a] = bytes[a]
    /\ \E r \in regions : Keeps(regions \ {r})

Fork ==
    /\ saved' = [regions |-> regions, bytes |-> bytes, denied |-> denied]
    /\ status' = "Ok"
    /\ UNCHANGED <<regions, bytes, denied>>

Restore ==
    /\ regions' = saved.regions /\ bytes' = saved.bytes /\ denied' = saved.denied
    /\ status' = "Ok"
    /\ UNCHANGED saved

\* A call that would have to move a region, or is of no byte, panics.
Abort ==
    /\ regions # {} \/ 0 \in AllocSizes
    /\ status' = "Panic"
    /\ UNCHANGED <<regions, bytes, denied, saved>>

Next ==
    \/ \E n \in AllocSizes \ {0} : Allocate(n) \/ \E r \in regions : Reallocate(r, n)
    \/ \E r \in regions : Deallocate(r)
    \/ Access \/ Fork \/ Restore \/ Refuse \/ Abort

Spec == Init /\ [][Next]_vars
=============================================================================
