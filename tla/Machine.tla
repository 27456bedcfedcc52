------------------------------- MODULE Machine -------------------------------
(***************************************************************************)
(* Machine::step_until (fuguex-machine/src/machine.rs): instructions are   *)
(* lifted and executed operation by operation until a bound is reached.    *)
(* The interpreter is the environment: each of its calls may answer with   *)
(* anything its type allows.  It is asked to lift an instruction, then,    *)
(* for each operation, first whether to go on (its hooks may redirect      *)
(* execution to another location) and then to execute it.                  *)
(*                                                                         *)
(* A step that is redirected calls itself for the new location: the bound  *)
(* is checked between steps, not between redirections.                     *)
(***************************************************************************)
EXTENDS Integers

CONSTANTS
    AddressSpace, \* number of addresses; address arithmetic wraps
    Code,         \* addresses at which an instruction can be lifted
    Ops,          \* Ops[a]: number of operations of the instruction at a
    Length,       \* Length[a]: its length in bytes
    Bounds,       \* the bounds a caller asks for
    Entries,      \* the locations execution starts at, or is redirected to
    Branches      \* the branches an operation may answer with

Addresses == 0..(AddressSpace - 1)
Locations == [address : Addresses, position : Nat]
AnyBound == [kind : {"Steps"}, steps : Nat]
               \cup [kind : {"Address"}, address : Addresses]
               \cup [kind : {"Unbounded"}]
NextBranch == [kind |-> "Next"]

ASSUME MachineAssumption ==
    /\ AddressSpace \in Nat \ {0}
    /\ Code \subseteq Addresses
    /\ Ops \in [Code -> Nat]
    /\ Length \in [Code -> Nat]
    /\ Bounds \subseteq AnyBound
    /\ Entries \subseteq Locations
    /\ Branches \subseteq {NextBranch}
                   \cup [kind : {"Local"}, offset : Int]
                   \cup [kind : {"Global"}, address : Addresses]

VARIABLES
    phase,       \* the call that comes next, or "done"
    location,    \* where the next instruction is lifted
    at,          \* step_state: the instruction lifted last, and the position in it
    bound,       \* what is left of the bound
    ignore_errors,
    outcome,     \* what step_until has returned; "None" while it runs
    asked,       \* history: the bound at the start
    redirected,  \* history: location was set by a redirection in this step
    begun        \* history: steps begun, when the bound is in steps

vars == <<phase, location, at, bound, ignore_errors, outcome, asked, redirected, begun>>

Init ==
    /\ phase = "check"
    /\ location \in Entries
    /\ at \in [address : Code, position : {0}]  \* left by an earlier run
    /\ bound \in Bounds
    /\ ignore_errors \in BOOLEAN
    /\ outcome = "None"
    /\ asked = bound
    /\ redirected = FALSE
    /\ begun = 0

-----------------------------------------------------------------------------
(* Bound and StepState (types.rs).                                         *)

\* (mutation) the last step is not taken.
ReachedEarly(b, address) ==
    \/ b.kind = "Address" /\ b.address = address
    \/ b.kind = "Steps" /\ b.steps <= 1

Reached(b, address) ==
    \/ b.kind = "Address" /\ b.address = address
    \/ b.kind = "Steps" /\ b.steps = 0

\* (mutation) the steps are not counted down.
NotDepleted(b) == b

Depleted(b) ==
    IF b.kind = "Steps" /\ b.steps > 0 THEN [b EXCEPT !.steps = @ - 1] ELSE b

Fallthrough(address) == (address + Length[address]) % AddressSpace
Current(l) == l.position < Ops[l.address]

\* A branch leads to a position of this instruction, or to another address;
\* a position past the last operation is the next instruction.
Moves(b) == b.kind # "Global"
Distance(b) == IF b.kind = "Local" THEN b.offset ELSE 1

\* (mutation) a branch to the position before the first one is let through.
PanicsLate(l, b) == Moves(b) /\ l.position + Distance(b) < -1

Panics(l, b) == Moves(b) /\ l.position + Distance(b) < 0

\* (mutation) a branch forward is tested before it is taken.
BranchesLocallyBefore(l, b) == Moves(b) /\ Current(l)

BranchesLocally(l, b) ==
    Moves(b) /\ Current([l EXCEPT !.position = @ + Distance(b)])

\* StepState::branch_location tells where a branch leads without taking it.
BranchLocation(l, b) ==
    IF b.kind = "Global" THEN [address |-> b.address, position |-> 0]
    ELSE LET there == l.position + Distance(b)
         IN  IF there < Ops[l.address] THEN [l EXCEPT !.position = there]
             ELSE [address |-> Fallthrough(l.address), position |-> 0]

-----------------------------------------------------------------------------
Return(o) ==
    /\ phase' = "done"
    /\ outcome' = o

\* StepOutcome::Branch: the step is over, step_until goes on at an address.
GoOnAt(address) ==
    /\ phase' = "check"
    /\ location' = [address |-> address, position |-> 0]
    /\ outcome' = outcome

\* OrOutcome::Branch: the step starts again, at another location.
Redirect ==
    /\ phase' = "lift"
    /\ location' \in Entries
    /\ redirected' = TRUE
    /\ outcome' = outcome

Check ==
    /\ phase = "check"
    /\ \/ Reached(bound, location.address) /\ Return("Reached") /\ UNCHANGED bound
       \/ /\ ~Reached(bound, location.address)
          /\ bound' = Depleted(bound)
          /\ phase' = "lift"
          /\ outcome' = outcome
    /\ redirected' = FALSE
    /\ UNCHANGED <<location, at, ignore_errors, asked, begun>>

\* Steps are counted up to one more than asked for.
Counts == asked.kind = "Steps" /\ ~redirected /\ begun <= asked.steps

\* A hook may also end the run here, and an address may hold no instruction.
Lift ==
    /\ phase = "lift"
    /\ \/ Redirect /\ UNCHANGED at
       \/ /\ location.address \in Code
          /\ at' = location
          /\ phase' = "operation"
          /\ UNCHANGED <<location, outcome, redirected>>
       \/ /\ \E o \in {"Halt", "Error"} : Return(o)
          /\ UNCHANGED <<location, at, redirected>>
    /\ begun' = IF Counts THEN begun + 1 ELSE begun
    /\ UNCHANGED <<bound, ignore_errors, asked>>

\* The end of the operations is a branch to the next instruction.
Operation ==
    /\ phase = "operation"
    /\ \/ /\ ~Current(at)
          /\ GoOnAt(Fallthrough(at.address))
          /\ UNCHANGED redirected
       \/ Current(at) /\ Redirect
       \/ /\ Current(at)
          /\ phase' = "dispatch"
          /\ UNCHANGED <<location, outcome, redirected>>
       \/ /\ Current(at)
          /\ \E o \in {"Halt", "Error"} : Return(o)
          /\ UNCHANGED <<location, redirected>>
    /\ UNCHANGED <<at, bound, ignore_errors, asked, begun>>

\* step_state.branch(b); only a position of this instruction is kept in it.
Follow(b) ==
    \/ Panics(at, b) /\ Return("Panic") /\ UNCHANGED <<location, at>>
    \/ /\ ~Panics(at, b)
       /\ at' = IF Moves(b) THEN [at EXCEPT !.position = @ + Distance(b)] ELSE at
       /\ \/ /\ BranchesLocally(at, b)
             /\ phase' = "operation"
             /\ UNCHANGED <<location, outcome>>
          \/ /\ ~BranchesLocally(at, b)
             /\ GoOnAt(IF Moves(b) THEN Fallthrough(at.address) ELSE b.address)

\* An error of the operation itself can be ignored: the next one follows.
Execute ==
    /\ phase = "dispatch"
    /\ \/ \E b \in Branches : Follow(b)
       \/ ignore_errors /\ Follow(NextBranch)
       \/ ~ignore_errors /\ Return("Error") /\ UNCHANGED <<location, at>>
       \/ Return("Halt") /\ UNCHANGED <<location, at>>
    /\ UNCHANGED <<bound, ignore_errors, asked, redirected, begun>>

Next == Check \/ Lift \/ Operation \/ Execute

\* step_until is a loop of one thread: it goes on as long as it can.
Spec == Init /\ [][Next]_vars /\ WF_vars(Next)

-----------------------------------------------------------------------------
(* Properties.                                                             *)

\* Every variable has its type, and an operation is executed only where the
\* instruction has one.
TypeOK ==
    /\ phase \in {"check", "lift", "operation", "dispatch", "done"}
    /\ location \in Locations
    /\ at \in [address : Code, position : Nat]
    /\ bound \in AnyBound
    /\ asked \in Bounds
    /\ ignore_errors \in BOOLEAN
    /\ outcome \in {"None", "Reached", "Halt", "Error", "Panic"}
    /\ redirected \in BOOLEAN
    /\ begun \in Nat
    /\ phase = "dispatch" => Current(at)

\* step_until (machine.rs:307-330) begins as many steps as it was asked for,
\* neither more nor, when it reports that the bound is reached, fewer; and it
\* does not execute the instruction at the address it was asked to stop at,
\* unless a hook redirects the step to it.
BoundRespected ==
    /\ asked.kind = "Steps" =>
           begun <= asked.steps /\ (outcome = "Reached" => begun = asked.steps)
    /\ asked.kind = "Address" /\ phase \in {"operation", "dispatch"} /\ ~redirected =>
           at.address # asked.address

\* The location StepState::branch_location (types.rs:174-205) announces for a
\* branch is the one StepState::branch (types.rs:145-172) and the next step
\* take it to, wherever in an instruction execution is.
LocationsAgree ==
    phase = "dispatch" =>
        \A b \in Branches : ~Panics(at, b) =>
            BranchLocation(at, b) =
                IF BranchesLocally(at, b) THEN [at EXCEPT !.position = @ + Distance(b)]
                ELSE [address |-> IF Moves(b) THEN Fallthrough(at.address) ELSE b.address,
                      position |-> 0]

\* A run bounded in steps ends, unless hooks redirect it for ever or an
\* instruction branches backwards within itself for ever.
Redirected == phase' = "lift" /\ phase # "check"
BranchesBack == at'.address = at.address /\ at'.position <= at.position /\ phase = "dispatch"
                   /\ phase' = "operation"
StepsEnd ==
    (asked.kind = "Steps" /\ <>[][~Redirected /\ ~BranchesBack]_vars) => <>(phase = "done")
=============================================================================
