------------------------------- MODULE MCLoader -------------------------------
(* Databases for TLC: segments of one to three addresses with as many bytes,  *)
(* fewer or more.                                                             *)
EXTENDS Loader

Segments(start) ==
    {[start |-> start, end |-> start + n, bytes |-> b] :
        n \in 0..2, b \in UNION {[1..k -> Bytes] : k \in 0..3}}

SmallDatabases ==
    {<<s, t>> : s \in Segments(0), t \in Segments(4)} \cup
    {<<s, t, u>> : s \in {v \in Segments(0) : v.end = 1}, t \in {v \in Segments(4) : v.end = 5},
                   u \in {v \in Segments(7) : Len(v.bytes) = 1}}
=============================================================================
