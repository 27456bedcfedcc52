---------------------------- MODULE MCHeapSnapshots ----------------------------
(* HeapSnapshots for TLC: the outcome of the last call has no influence on     *)
(* what follows, unless it was a panic.                                        *)
EXTENDS HeapSnapshots

Relevant == <<chunks, regions, writable, data, torn, saved, Running>>
=============================================================================
