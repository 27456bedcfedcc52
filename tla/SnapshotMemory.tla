--------------------------- MODULE SnapshotMemory ---------------------------
(***************************************************************************)
(* What a FlatState promises its callers, with the mechanism left out:     *)
(* a family of flat memories, each with its own bytes and its own read and *)
(* write permissions.  A memory is created by forking another and may be   *)
(* rewound to another; nothing is said of blocks, dirty sets or loops.     *)
(***************************************************************************)
EXTENDS Integers

CONSTANTS
    Handles,    \* the FlatState values the program can hold
    Size,       \* number of cells of every memory
    Values,     \* contents of a cell
    Default,    \* T::default()
    Offsets,    \* offsets a call may name, in range or not
    Sizes       \* sizes a call may name

VARIABLES
    live,       \* handles that hold a memory
    mem,        \* mem[h][a]: the cell a of memory h
    readable,   \* readable[h]: the cells of h with read permission
    writable,   \* writable[h]: the cells of h with write permission
    result,     \* outcome of the last call
    call        \* the last call with its arguments

vars == <<live, mem, readable, writable, result, call>>

Cells == 0..(Size - 1)
Extent(a, n) == a..(a + n - 1)
Faults == {"OOBRead", "OOBWrite", "AccessViolation"}

Init ==
    /\ \E h \in Handles : live = {h}
    /\ mem = [h \in Handles |-> [a \in Cells |-> Default]]
    /\ readable = [h \in Handles |-> Cells]
    /\ writable = [h \in Handles |-> Cells]
    /\ result = "Ok"
    /\ call = <<"New">>

Done(h, contents) ==
    /\ mem' = [mem EXCEPT ![h] = contents]
    /\ result' = "Ok"
    /\ UNCHANGED <<live, readable, writable>>

\* A call that is refused has no effect on any memory.
Refused ==
    /\ result' \in Faults
    /\ UNCHANGED <<live, mem, readable, writable>>

\* A range can be accessed when it lies inside the memory and has the
\* permission asked for.
Admitted(a, n, cells) == a <= Size /\ Extent(a, n) \subseteq cells

\* A read succeeds exactly on readable cells, and changes nothing.
Read(h, a, n) ==
    \/ Admitted(a, n, readable[h]) /\ Done(h, mem[h])
    \/ ~Admitted(a, n, readable[h]) /\ Refused

\* A write stores its values in the cells named, and nowhere else.  It
\* succeeds exactly on writable cells, ...
Store(h, a, n, vals, cells) ==
    \/ /\ Admitted(a, n, cells)
       /\ Done(h, [c \in Cells |->
                      IF c \in Extent(a, n) THEN vals[c - a] ELSE mem[h][c]])
    \/ ~Admitted(a, n, cells) /\ Refused

Write(h, a, n, vals) == Store(h, a, n, vals, writable[h])

\* ... or, through a mutable view, on cells both readable and writable.
Modify(h, a, n, vals) == Store(h, a, n, vals, readable[h] \cap writable[h])

\* A copy is a memmove: every destination cell receives the value the
\* corresponding source cell had before the call, overlap or not.
Copy(h, s, d, n) ==
    LET admitted == Admitted(s, n, readable[h]) /\ Admitted(d, n, writable[h]) IN
    \/ /\ admitted
       /\ Done(h, [c \in Cells |->
                      IF c \in Extent(d, n) THEN mem[h][s + (c - d)] ELSE mem[h][c]])
    \/ ~admitted /\ Refused

\* A copy may also abort the program, but never between ranges that overlap.
CopyAborts(s, d, n) ==
    /\ Extent(s, n) \cap Extent(d, n) = {}
    /\ result' = "Panic"
    /\ UNCHANGED <<live, mem, readable, writable>>

\* Permissions change only on request, for the named cells of the named
\* memory alone.
Protect(h, a, n) ==
    /\ \E s \in SUBSET (Extent(a, n) \cap Cells) :
           readable' \in {[readable EXCEPT ![h] = @ \cup s], [readable EXCEPT ![h] = @ \ s]}
    /\ \E s \in SUBSET (Extent(a, n) \cap Cells) :
           writable' \in {[writable EXCEPT ![h] = @ \cup s], [writable EXCEPT ![h] = @ \ s]}
    /\ result' = "Ok"
    /\ UNCHANGED <<live, mem>>

\* h becomes an exact and independent copy of k: a fork when h is a new
\* value, a rewind when it held a memory before.
Become(h, k) ==
    /\ live' = live \cup {h}
    /\ mem' = [mem EXCEPT ![h] = mem[k]]
    /\ readable' = [readable EXCEPT ![h] = readable[k]]
    /\ writable' = [writable EXCEPT ![h] = writable[k]]
    /\ result' = "Ok"

Running == result # "Panic"

Next ==
    /\ Running
    /\ \/ \E h \in live, a \in Offsets, n \in Sizes :
             call' = <<"Read", h, a, n>> /\ Read(h, a, n)
       \/ \E h \in live, a \in Offsets, n \in Sizes :
             \E vals \in [0..(n - 1) -> Values] :
                \/ call' = <<"Write", h, a, n, vals>> /\ Write(h, a, n, vals)
                \/ call' = <<"Modify", h, a, n, vals>> /\ Modify(h, a, n, vals)
       \/ \E h \in live, s \in Offsets, d \in Offsets, n \in Sizes :
             /\ call' = <<"Copy", h, s, d, n>>
             /\ Copy(h, s, d, n) \/ CopyAborts(s, d, n)
       \/ \E k \in live : \E h \in Handles \ {k} :
             call' = <<"Become", h, k>> /\ Become(h, k)
       \/ \E h \in live, a \in Offsets, n \in Sizes :
             call' = <<"Protect", h, a, n>> /\ Protect(h, a, n)

Spec == Init /\ [][Next]_vars
=============================================================================
