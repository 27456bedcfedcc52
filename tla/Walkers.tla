-------------------------------- MODULE Walkers --------------------------------
(***************************************************************************)
(* The hooks that steer and record conditional branches:                   *)
(* PathWalker and RandomWalker (fuguex-concrete/src/driver.rs) and         *)
(* BranchTracker (tracker.rs), called by a ConcreteContext that runs a     *)
(* program one conditional branch at a time, and rewound with it.          *)
(*                                                                         *)
(* An instruction is its conditional branches, in order, and where it goes *)
(* if none is taken.  What the conditions are is left open.                *)
(***************************************************************************)
EXTENDS Integers, Sequences

CONSTANTS
    Code,       \* Code[a]: [next, branches] of the instruction at a
    Entry,      \* where the program begins
    Walks,      \* walks callers ask for: sequences of [from, to]
    HookSets,   \* sets of hooks that may be added besides the path walker
    Held,       \* Held[a]: the address read from memory at a, or Unmapped
    Rewinds,    \* bound: snapshots restored
    MaxMet      \* bound: branches tracked

Unmapped == -1

Edge == [from : Nat, to : Nat]

\* A branch goes to an address, or to a later branch of its instruction.
ASSUME WalkersAssumption ==
    /\ DOMAIN Code \subseteq Nat /\ Entry \in DOMAIN Code
    /\ HookSets \subseteq SUBSET {"RandomWalker", "BranchTracker"}
    /\ Rewinds \in Nat /\ MaxMet \in Nat
    /\ \A a \in DOMAIN Code :
          /\ Code[a] \in [next : Nat, branches : Seq([local : BOOLEAN, to : Nat])]
          /\ \A i \in DOMAIN Code[a].branches :
                LET b == Code[a].branches[i] IN
                IF b.local THEN b.to \in (i + 1)..(Len(Code[a].branches) + 1)
                           ELSE Held[b.to] \in Nat \cup {Unmapped}

\* A walk names a conditional branch by its instruction, so that the branch must
\* be the only one of it and leave it; and an entry asks for one of its ways.
ASSUME WalksAssumption ==
    /\ Walks \subseteq Seq(Edge)
    /\ \A w \in Walks : \A i \in DOMAIN w :
          w[i].from \in DOMAIN Code =>
              LET ins == Code[w[i].from] IN
              /\ Len(ins.branches) = 1 /\ ~ins.branches[1].local
              /\ w[i].to \in {ins.next, ins.branches[1].to}

VARIABLES
    hooked,     \* hooks added besides the path walker
    loc,        \* the instruction to execute
    at,         \* the branch of it that comes next; 0 before it is lifted
    pc,         \* the program counter
    walker,     \* the path walker: the walk left, fallthrough of the instruction
    tracker,    \* the tracker: branches tracked, fallthrough
    status,     \* Running, or Error once a hook failed
    rewinds,
    saved,      \* a fork of the context, with its histories
    wanted,     \* history: the walk asked for
    asked,      \* history: the entry used up, and whether it asked for a flip
    followed,   \* history: [from, to] of instructions that used up an entry
    met         \* history: [from, to, next] of the branches met

context == <<loc, at, pc, walker, tracker, status, asked, followed, met>>
Context ==
    [loc |-> loc, at |-> at, pc |-> pc, walker |-> walker, tracker |-> tracker,
     status |-> status, asked |-> asked, followed |-> followed, met |-> met]
vars == <<context, hooked, wanted, rewinds, saved>>

NoEntry == [from |-> Unmapped, to |-> Unmapped, flip |-> FALSE]

Init ==
    /\ hooked \in HookSets
    /\ loc = Entry /\ at = 0 /\ pc = 0
    /\ wanted \in Walks
    /\ walker = [next |-> 0, walk |-> wanted]
    /\ tracker = [next |-> 0, tracked |-> <<>>]
    /\ status = "Running"
    /\ rewinds = 0
    /\ asked = NoEntry
    /\ followed = <<>>
    /\ met = <<>>
    /\ saved = Context

-----------------------------------------------------------------------------
Here == Code[pc].branches[at]
Branch == [from |-> pc, to |-> Here.to, next |-> Code[pc].next]

\* (mutation) the fallthrough is not noted.
NotedNever(hook) == hook

\* hook_architectural_step of the path walker and of the tracker.
Noted(hook) == [hook EXCEPT !.next = Code[loc].next]

\* lift calls the hooks before it sets the program counter.
Lift ==
    /\ at = 0 /\ loc \in DOMAIN Code
    /\ walker' = Noted(walker)
    /\ tracker' = Noted(tracker)
    /\ pc' = loc
    /\ at' = 1
    /\ asked' = NoEntry
    /\ UNCHANGED <<loc, status, followed, met>>

-----------------------------------------------------------------------------
(* hook_cbranch.                                                           *)

Expected == walker.walk # <<>> /\ Head(walker.walk).from = pc

\* The entry says where to go; the branch is flipped if it would go elsewhere.
FlipToFollow(cond) ==
    IF Head(walker.walk).to = walker.next THEN cond ELSE ~cond

PathFlips(cond) == Expected /\ FlipToFollow(cond)
Popped == IF Expected THEN [walker EXCEPT !.walk = Tail(@)] ELSE walker

RandomFlips == IF "RandomWalker" \in hooked THEN BOOLEAN ELSE {FALSE}

\* get_address reads what is at the destination, unless it is a constant.
TakenAddress == IF Here.local THEN Here.to ELSE Held[Here.to]

Tracked ==
    [tracker EXCEPT !.tracked =
        Append(@, [from |-> pc, taken |-> TakenAddress, next |-> tracker.next])]

\* (mutation) two hooks that flip undo each other.
FlipAgain(p, r) == p # r

\* One flip is enough.
Flip(p, r) == p \/ r

\* Where the instruction ends, followed is what its entry led to.
Arrive(a) ==
    /\ loc' = a /\ at' = 0
    /\ followed' = IF asked'.from = pc THEN Append(followed, [from |-> pc, to |-> a]) ELSE followed

Go(taken) ==
    \/ taken /\ ~Here.local /\ Arrive(Here.to)
    \/ taken /\ Here.local /\ at' = Here.to /\ UNCHANGED <<loc, followed>>
    \/ ~taken /\ at' = at + 1 /\ UNCHANGED <<loc, followed>>

CBranch ==
    /\ at \in 1..Len(Code[pc].branches)
    /\ Len(met) < MaxMet
    /\ walker' = Popped
    /\ \E cond \in BOOLEAN, r \in RandomFlips :
          /\ asked' = IF Expected
                     THEN [from |-> pc, to |-> Head(walker.walk).to, flip |-> PathFlips(cond)]
                     ELSE asked
          /\ \/ /\ "BranchTracker" \in hooked /\ TakenAddress = Unmapped
                /\ status' = "Error"
                /\ UNCHANGED <<loc, at, tracker, followed, met>>
             \/ /\ "BranchTracker" \in hooked => TakenAddress # Unmapped
                /\ IF "BranchTracker" \in hooked
                   THEN tracker' = Tracked /\ met' = Append(met, Branch)
                   ELSE UNCHANGED <<tracker, met>>
                /\ Go(IF Flip(PathFlips(cond), r) THEN ~cond ELSE cond)
                /\ UNCHANGED status
    /\ UNCHANGED pc

Fallthrough ==
    /\ at = Len(Code[pc].branches) + 1 /\ pc = loc
    /\ UNCHANGED <<pc, walker, tracker, status, asked, met>>
    /\ Arrive(Code[pc].next)

Execute ==
    /\ status = "Running"
    /\ Lift \/ CBranch \/ Fallthrough
    /\ UNCHANGED <<hooked, wanted, rewinds, saved>>

-----------------------------------------------------------------------------
(* fork and restore of the context between instructions: hooks are cloned. *)

Fork ==
    /\ at = 0 /\ rewinds < Rewinds
    /\ saved' = Context
    /\ UNCHANGED <<context, hooked, wanted, rewinds>>

\* (mutation) the hooks stay as they are.
HooksKept == UNCHANGED <<walker, tracker>>

HooksRestored == walker' = saved.walker /\ tracker' = saved.tracker

Restore ==
    /\ at = 0 /\ rewinds < Rewinds
    /\ HooksRestored
    /\ loc' = saved.loc /\ at' = saved.at /\ pc' = saved.pc
    /\ status' = saved.status
    /\ asked' = saved.asked /\ followed' = saved.followed /\ met' = saved.met
    /\ rewinds' = rewinds + 1
    /\ UNCHANGED <<hooked, wanted, saved>>

Next == Execute \/ Fork \/ Restore

Spec == Init /\ [][Next]_vars /\ WF_vars(Execute)

-----------------------------------------------------------------------------
(* Properties.                                                             *)

\* The instructions that used up entries went where the entries said, in their
\* order, whatever the conditions were and however often the context was
\* rewound (driver.rs:69-98): what was followed and what is left is the walk.
\* It is asked of walks over instructions with one conditional branch, which
\* leaves the instruction, and without a random walker, which takes no heed.
WalkFollowed ==
    at = 0 /\ "RandomWalker" \notin hooked => followed \o walker.walk = wanted

\* A walk along the program's paths is used up, and then only
\* (driver.rs:85-97): no entry is taken too early or passed by.  Histories of
\* the tracker are bounded, so it is asked of programs without hooks besides.
WalkConsumed == hooked = {} => <>(walker.walk = <<>>)

\* Two hooks that flip the same branch do not undo each other: what the path
\* walker asked to flip goes the walk's way (interpreter.rs:766-776).
FlipsNotUndone ==
    at = 0 /\ asked.flip =>
        followed # <<>> /\ followed[Len(followed)] = [from |-> asked.from, to |-> asked.to]

\* Every conditional branch met is tracked once, in order, with the address and
\* the fallthrough of its own instruction (tracker.rs:49-73).
BranchesTracked ==
    status = "Running" =>
        /\ Len(tracker.tracked) = Len(met)
        /\ \A i \in DOMAIN met :
              tracker.tracked[i].from = met[i].from /\ tracker.tracked[i].next = met[i].next
=============================================================================
