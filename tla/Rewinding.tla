------------------------------- MODULE Rewinding -------------------------------
(* The history FlatState, PagedState and PCodeState keep of what may be       *)
(* rewound to what: k \in tracks[h] when restoring h from k is exact.         *)
CONSTANT Handles

\* A state that changed is no longer what others started from; what it may
\* itself be rewound to stays.
AfterChange(tracks, h) ==
    [j \in Handles |-> IF j = h THEN tracks[h] ELSE tracks[j] \ {h}]

\* A state h that becomes a copy of k takes over k's place.
AfterBecoming(tracks, h, k) ==
    [j \in Handles |->
        IF j = h THEN (tracks[k] \cup {k}) \ {h}
        ELSE IF j = k \/ k \in tracks[j] THEN tracks[j] \cup {h}
        ELSE tracks[j] \ {h}]
=============================================================================
