-------------------------------- MODULE Loader --------------------------------
(***************************************************************************)
(* MappedDatabase::from_database_with (fuguex-loader/src/lib.rs): the      *)
(* segments of a database that pass a filter are laid one after the other  *)
(* in a backing, each with a window on it.  A PagedState is made of both.  *)
(***************************************************************************)
EXTENDS Integers, Sequences

CONSTANTS
    Databases,  \* sequences of segments: [start, end, bytes], end included
    Bytes,      \* what a byte may be
    DefaultByte \* u8::default()

\* Segments are the entries of an interval map: apart from one another, none
\* ending with the address space.
ASSUME LoaderAssumption ==
    /\ DefaultByte \in Bytes
    /\ Databases \subseteq Seq([start : Nat, end : Nat, bytes : Seq(Bytes)])
    /\ \A db \in Databases : \A i \in DOMAIN db : db[i].start <= db[i].end

VARIABLES
    left,       \* segments not yet looked at
    windows,    \* the segments made, with the offset of each in the backing
    backing     \* the bytes laid down

loadVars == <<left, windows, backing>>

LoadInit ==
    /\ left \in Databases
    /\ windows = {}
    /\ backing = <<>>

RangeLen(s) == 1 + s.end - s.start

\* (mutation) the last byte of the range is not padded.
PaddingShort(s) ==
    IF Len(s.bytes) < RangeLen(s) THEN [i \in 1..(RangeLen(s) - Len(s.bytes) - 1) |-> DefaultByte] ELSE <<>>

\* Segments hold fewer bytes than their range, or more.
Padding(s) ==
    IF Len(s.bytes) < RangeLen(s) THEN [i \in 1..(RangeLen(s) - Len(s.bytes)) |-> DefaultByte] ELSE <<>>

\* (mutation) the offset is taken once the bytes are there.
WindowAfter(s) ==
    [lo |-> s.start, hi |-> 1 + s.end, offset |-> Len(backing) + Len(s.bytes), bytes |-> s.bytes]

\* The window of a segment; its bytes are history.
Window(s) ==
    [lo |-> s.start, hi |-> 1 + s.end, offset |-> Len(backing), bytes |-> s.bytes]

Load(s) ==
    /\ windows' = windows \cup {Window(s)}
    /\ backing' = backing \o s.bytes \o Padding(s)

\* The filter takes a segment or leaves it.
LoadNext ==
    /\ left # <<>>
    /\ left' = Tail(left)
    /\ Load(Head(left)) \/ UNCHANGED <<windows, backing>>

LoadSpec == LoadInit /\ [][LoadNext]_loadVars

-----------------------------------------------------------------------------
(* Properties.                                                             *)

LoadTypeOK ==
    /\ left \in Seq([start : Nat, end : Nat, bytes : Seq(Bytes)])
    /\ windows \subseteq [lo : Nat, hi : Nat, offset : Nat, bytes : Seq(Bytes)]
    /\ backing \in Seq(Bytes)

Positions(w) == w.offset..(w.offset + (w.hi - w.lo) - 1)

\* Windows lie in the backing, none in another: what a paged state relies on
\* for an address to have a byte of its own (lib.rs:52-70).
WindowsApart ==
    /\ \A w \in windows : w.lo < w.hi /\ w.offset + (w.hi - w.lo) <= Len(backing)
    /\ \A v, w \in windows : v # w => Positions(v) \cap Positions(w) = {}

\* Through its window every address shows the segment's byte, or the default
\* where the segment has none, also after later segments are laid down.
BytesLoaded ==
    \A w \in windows : \A i \in 0..(w.hi - w.lo - 1) :
        /\ w.offset + i + 1 \in DOMAIN backing
        /\ backing[w.offset + i + 1] = IF i < Len(w.bytes) THEN w.bytes[i + 1] ELSE DefaultByte
=============================================================================
