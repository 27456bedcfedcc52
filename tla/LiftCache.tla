------------------------------ MODULE LiftCache ------------------------------
(***************************************************************************)
(* ConcreteContext::lift (fuguex-concrete/src/interpreter.rs): contexts    *)
(* forked from one another run on threads of their own and share one map   *)
(* from addresses to lifted instructions, behind an RwLock.  A lift looks  *)
(* the address up under the read lock, lifts from its own memory without   *)
(* a lock if it is missing, and inserts under the write lock.              *)
(*                                                                         *)
(* What a lift makes of the bytes depends on the translator's context      *)
(* database too, which says in what mode each address is decoded (ARM or   *)
(* Thumb, for one).  A lift may set it; every context has its own.         *)
(*                                                                         *)
(* The lock is parking_lot's: a writer waits for the readers that hold it, *)
(* and once it waits no new reader enters before it.                       *)
(***************************************************************************)
EXTENDS Integers

CONSTANTS
    Contexts,   \* the contexts, each on a thread of its own
    Addresses,  \* addresses of code
    Codes,      \* contents of an address
    Modes,      \* what a context database says of an address
    Fresh,      \* Fresh[a]: what a new one says of it
    Stores,     \* addresses the program stores to
    Marked,     \* addresses whose mode a lift may set
    Length      \* Length[v]: addresses of the instruction that begins with v

Contents == [byte : Codes, mode : Modes]

ASSUME LiftAssumption ==
    /\ Addresses \subseteq Nat /\ Addresses # {}
    /\ Stores \subseteq Addresses /\ Marked \subseteq Addresses
    /\ Fresh \in [Addresses -> Modes]
    /\ Length \in [Contents -> Nat \ {0}]

None == <<>>

VARIABLES
    code,       \* code[c][a]: memory of context c
    context,    \* context[c][a]: translator_context of context c
    cache,      \* the shared map: the instruction cached for a, or None
    phase,      \* phase[c]: where the lift of c is
    target,     \* target[c]: its address
    step,       \* step[c]: the instruction it has found
    pc,         \* pc[c]: the program counter register
    readers,    \* contexts that hold the read lock
    waiting,    \* contexts that wait for the write lock
    touched     \* history: addresses whose byte or mode some context changed

vars == <<code, context, cache, phase, target, step, pc, readers, waiting, touched>>

\* What the translator is given of an address.
Seen(c) == [a \in Addresses |-> [byte |-> code[c][a], mode |-> context[c][a]]]

\* The instruction at a: its bytes, and how they are decoded.  Lifting fails at
\* the end of memory.
Span(m, a) == a..(a + Length[m[a]] - 1)
Decoded(m, a) == [i \in Span(m, a) |-> m[i]]
Decodes(m, a) == Span(m, a) \subseteq Addresses

\* Contexts just forked from one that is new.
Init ==
    /\ \E m \in [Addresses -> Codes] : code = [c \in Contexts |-> m]
    /\ context = [c \in Contexts |-> Fresh]
    /\ cache = [a \in Addresses |-> None]
    /\ phase = [c \in Contexts |-> "Idle"]
    /\ target \in [Contexts -> {CHOOSE a \in Addresses : TRUE}]
    /\ step = [c \in Contexts |-> None]
    /\ pc = target
    /\ readers = {}
    /\ waiting = {}
    /\ touched = {}

Goes(c, from, to) == phase[c] = from /\ phase' = [phase EXCEPT ![c] = to]

-----------------------------------------------------------------------------
(* lift.                                                                   *)

Begin(c, a) ==
    /\ Goes(c, "Idle", "ReadLock")
    /\ target' = [target EXCEPT ![c] = a]
    /\ step' = [step EXCEPT ![c] = None]
    /\ UNCHANGED <<code, context, cache, pc, readers, waiting, touched>>

ReadLock(c) ==
    /\ waiting = {}
    /\ Goes(c, "ReadLock", "Lookup")
    /\ readers' = readers \cup {c}
    /\ UNCHANGED <<code, context, cache, target, step, pc, waiting, touched>>

\* (mutation) the guard is dropped only where the address was found.
ReleasedOnHit(c) == IF cache[target[c]] = None THEN readers ELSE readers \ {c}

Released(c) == readers \ {c}

\* The entry is cloned and the guard dropped.
Lookup(c) ==
    /\ Goes(c, "Lookup", IF cache[target[c]] = None THEN "Decode" ELSE "Hooks")
    /\ step' = [step EXCEPT ![c] = cache[target[c]]]
    /\ readers' = Released(c)
    /\ UNCHANGED <<code, context, cache, target, pc, waiting, touched>>

\* (mutation) a lift that fails is tried again.
FailedAgain == "ReadLock"

\* An error ends the lift.
Failed == "Idle"

\* What a lift, or one that fails, leaves in the context database it is lent.
Commit(c, modes) ==
    /\ context' = [context EXCEPT ![c] = [a \in Addresses |->
                      IF a \in Marked THEN modes[a] ELSE context[c][a]]]
    /\ touched' = touched \cup {a \in Marked : modes[a] # context[c][a]}

\* view_values_from and lift_pcode, from the memory and the context of c.
Decode(c) ==
    /\ \/ /\ Decodes(Seen(c), target[c])
          /\ Goes(c, "Decode", "WriteLock")
          /\ step' = [step EXCEPT ![c] = Decoded(Seen(c), target[c])]
          /\ waiting' = waiting \cup {c}
       \/ /\ ~Decodes(Seen(c), target[c])
          /\ Goes(c, "Decode", Failed)
          /\ UNCHANGED <<step, waiting>>
    /\ \E modes \in [Marked -> Modes] : Commit(c, modes)
    /\ UNCHANGED <<code, cache, target, pc, readers>>

\* (mutation) it is cached at the program counter, which is set later.
CachedAtCounter(c) == [cache EXCEPT ![pc[c]] = step[c]]

\* Whatever another thread put there in the meantime is replaced.
Cached(c) == [cache EXCEPT ![target[c]] = step[c]]

Insert(c) ==
    /\ readers = {}
    /\ Goes(c, "WriteLock", "Hooks")
    /\ cache' = Cached(c)
    /\ waiting' = waiting \ {c}
    /\ UNCHANGED <<code, context, target, step, pc, readers, touched>>

\* The hooks see the step; then the program counter is set.  A hook that fails
\* ends the lift, and the step is lost.
Hooks(c) ==
    /\ Goes(c, "Hooks", "Idle")
    /\ \/ pc' = [pc EXCEPT ![c] = target[c]] /\ UNCHANGED step
       \/ step' = [step EXCEPT ![c] = None] /\ UNCHANGED pc
    /\ UNCHANGED <<code, context, cache, target, readers, waiting, touched>>

-----------------------------------------------------------------------------
(* Between lifts.                                                          *)

\* An operation of the program stores to code.
Write(c, a, v) ==
    /\ phase[c] = "Idle"
    /\ code[c][a] # v
    /\ code' = [code EXCEPT ![c][a] = v]
    /\ step' = [step EXCEPT ![c] = None]
    /\ touched' = touched \cup {a}
    /\ UNCHANGED <<context, cache, phase, target, pc, readers, waiting>>

\* The state of c becomes that of k.
Take(c, k) ==
    /\ phase[c] = "Idle" /\ phase[k] = "Idle"
    /\ code' = [code EXCEPT ![c] = code[k]]
    /\ pc' = [pc EXCEPT ![c] = pc[k]]
    /\ step' = [step EXCEPT ![c] = None]
    /\ UNCHANGED <<cache, phase, target, readers, waiting, touched>>

\* c.restore(&k): neither the map nor the context database is restored.
Restore(c, k) == Take(c, k) /\ UNCHANGED context

\* c = k.fork(): the database is a new one.
Fork(c, k) == Take(c, k) /\ context' = [context EXCEPT ![c] = Fresh]

\* lifted_cache() hands a read guard to the caller, who drops it later.
Inspect(c) ==
    /\ waiting = {}
    /\ Goes(c, "Idle", "Inspecting")
    /\ readers' = readers \cup {c}
    /\ UNCHANGED <<code, context, cache, target, step, pc, waiting, touched>>

EndInspect(c) ==
    /\ Goes(c, "Inspecting", "Idle")
    /\ readers' = readers \ {c}
    /\ UNCHANGED <<code, context, cache, target, step, pc, waiting, touched>>

Lift(c) == ReadLock(c) \/ Lookup(c) \/ Decode(c) \/ Insert(c) \/ Hooks(c)

Next ==
    \/ \E c \in Contexts : Lift(c) \/ Inspect(c) \/ EndInspect(c)
    \/ \E c \in Contexts, a \in Addresses : Begin(c, a)
    \/ \E c \in Contexts, a \in Stores, v \in Codes : Write(c, a, v)
    \/ \E c, k \in Contexts : c # k /\ (Restore(c, k) \/ Fork(c, k))

\* Threads that can go on do, and guards are dropped.  No more is asked of the
\* lock: the map only grows, so writers cannot keep a reader out for ever.
Fairness ==
    \A c \in Contexts : WF_vars(Lift(c)) /\ WF_vars(EndInspect(c))

Spec == Init /\ [][Next]_vars /\ Fairness

-----------------------------------------------------------------------------
(* Properties.                                                             *)

Phases == {"Idle", "ReadLock", "Lookup", "Decode", "WriteLock", "Hooks", "Inspecting"}
Steps == UNION {[span -> Contents] : span \in SUBSET Addresses}

\* Every variable has its type; the lock is held where the phase says so.
TypeOK ==
    /\ code \in [Contexts -> [Addresses -> Codes]]
    /\ context \in [Contexts -> [Addresses -> Modes]]
    /\ cache \in [Addresses -> Steps]
    /\ phase \in [Contexts -> Phases]
    /\ target \in [Contexts -> Addresses]
    /\ step \in [Contexts -> Steps]
    /\ pc \in [Contexts -> Addresses]
    /\ readers = {c \in Contexts : phase[c] \in {"Lookup", "Inspecting"}}
    /\ waiting = {c \in Contexts : phase[c] = "WriteLock"}
    /\ touched \in SUBSET Addresses

Untouched(s) == DOMAIN s \cap touched = {}

\* A context takes its instructions from what any other context put in the map.
\* Where no context ever stored to the bytes of the instruction, and no lift set
\* how they are decoded, it is the one the context itself would lift, however
\* lifts, stores, forks and restores interleave, between the look-up and the
\* insertion too (interpreter.rs:1518-1553).
StepsFaithful ==
    \A c \in Contexts :
        step[c] # None /\ Untouched(step[c]) =>
            /\ Decodes(Seen(c), target[c])
            /\ step[c] = Decoded(Seen(c), target[c])

\* "possible race here, if another thread populates the same address"
\* (interpreter.rs:1536): of code nobody stores to, in a mode no lift sets, the
\* second insertion puts back what the first did.
RaceHarmless ==
    [][ \A a \in Addresses :
            cache[a] # None /\ Untouched(cache[a]) /\ Untouched(cache'[a]) =>
                cache'[a] = cache[a] ]_vars

\* A lift ends, whoever else lifts or looks at the map: no thread waits for the
\* lock for ever (interpreter.rs:218-220, 1528-1551).
Lifting(c) == phase[c] \in {"ReadLock", "Lookup", "Decode", "WriteLock", "Hooks"}
LiftsEnd == \A c \in Contexts : Lifting(c) ~> phase[c] = "Idle"
=============================================================================
