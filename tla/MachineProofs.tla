---------------------------- MODULE MachineProofs ----------------------------
(***************************************************************************)
(* Machine::step_until respects its bound, for every program, bound and    *)
(* behaviour of the interpreter.  The invariant says what is left of a     *)
(* bound in steps at each phase of a step.                                 *)
(***************************************************************************)
EXTENDS Machine, TLAPS

\* A step that has passed the check and not yet asked for its instruction.
Owed == IF phase = "lift" /\ ~redirected THEN 1 ELSE 0

\* The bound keeps its kind and its target; steps begun, owed and left are
\* always those asked for.
BoundKept ==
    /\ asked.kind = "Steps" => bound.kind = "Steps" /\ begun + Owed + bound.steps = asked.steps
    /\ asked.kind # "Steps" => bound = asked

\* What the last check has found.
Checked ==
    /\ outcome = "Reached" => Reached(bound, location.address) /\ phase = "done"
    /\ asked.kind = "Address" /\ phase = "lift" /\ ~redirected =>
           location.address # asked.address
    /\ asked.kind = "Address" /\ phase \in {"operation", "dispatch"} /\ ~redirected =>
           at.address # asked.address

MachineInv == TypeOK /\ BoundKept /\ Checked

\* The three kinds of bound, by their fields.
LEMMA BoundForms ==
    ASSUME NEW b \in AnyBound
    PROVE  \/ b.kind = "Steps" /\ b.steps \in Nat /\ b = [kind |-> "Steps", steps |-> b.steps]
           \/ b.kind = "Address" /\ b.address \in Addresses
           \/ b.kind = "Unbounded"
  BY DEF AnyBound

\* A check that does not end the run takes one step from a bound in steps.
LEMMA DepletedBound ==
    ASSUME NEW b \in AnyBound, NEW a \in Addresses, ~Reached(b, a)
    PROVE  /\ Depleted(b) \in AnyBound
           /\ Depleted(b).kind = b.kind
           /\ b.kind = "Steps" => b.steps > 0 /\ Depleted(b).steps = b.steps - 1
           /\ b.kind # "Steps" => Depleted(b) = b
  <1>1. CASE b.kind = "Steps"
    <2>1. b.steps \in Nat /\ b.steps > 0 /\ b = [kind |-> "Steps", steps |-> b.steps]
      BY <1>1, BoundForms DEF Reached
    <2>2. Depleted(b) = [kind |-> "Steps", steps |-> b.steps - 1]
      BY <1>1, <2>1 DEF Depleted
    <2> QED BY <1>1, <2>1, <2>2 DEF AnyBound
  <1>2. CASE b.kind # "Steps"
    BY <1>2 DEF Depleted
  <1> QED BY <1>1, <1>2

\* Arithmetic of addresses stays in the address space.
LEMMA FallthroughType ==
    ASSUME NEW a \in Code PROVE Fallthrough(a) \in Addresses
  <1>1. a \in Int /\ Length[a] \in Int /\ AddressSpace \in Nat \ {0}
    BY MachineAssumption DEF Addresses
  <1> QED BY <1>1 DEF Fallthrough, Addresses

\* Locations and bounds a caller may give, without the rest of the assumption.
LEMMA InputTypes == Entries \subseteq Locations /\ Bounds \subseteq AnyBound
  BY MachineAssumption

LEMMA InitInv == Init => MachineInv
  <1> SUFFICES ASSUME Init PROVE MachineInv OBVIOUS
  <1>1. bound \in AnyBound BY MachineAssumption DEF Init
  <1>2. TypeOK
    <2>1. location \in Locations /\ at \in [address : Code, position : Nat]
      BY InputTypes DEF Init
    <2> QED BY <1>1, <2>1 DEF Init, TypeOK
  <1>3. BoundKept
    BY <1>1, BoundForms DEF Init, BoundKept, Owed
  <1> QED BY <1>2, <1>3 DEF Init, Checked, MachineInv

LEMMA CheckInv == MachineInv /\ Check => MachineInv'
  <1> SUFFICES ASSUME MachineInv, Check PROVE MachineInv' OBVIOUS
  <1> USE DEF MachineInv
  <1>0. location.address \in Addresses BY DEF TypeOK, Locations
  <1>1. CASE /\ Reached(bound, location.address) /\ Return("Reached") /\ UNCHANGED bound
    <2>1. TypeOK' BY <1>1 DEF Check, Return, TypeOK
    <2>2. BoundKept' BY <1>1 DEF Check, Return, BoundKept, Owed
    <2>3. Checked' BY <1>1 DEF Check, Return, Checked, Reached
    <2> QED BY <2>1, <2>2, <2>3
  <1>2. CASE ~Reached(bound, location.address) /\ bound' = Depleted(bound)
                 /\ phase' = "lift" /\ outcome' = outcome
    <2>1. bound \in AnyBound BY DEF TypeOK
    <2>2. /\ bound' \in AnyBound /\ bound'.kind = bound.kind
          /\ bound.kind = "Steps" => bound.steps > 0 /\ bound'.steps = bound.steps - 1
          /\ bound.kind # "Steps" => bound' = bound
      BY <1>0, <1>2, <2>1, DepletedBound
    <2>3. TypeOK' BY <1>2, <2>2 DEF Check, TypeOK
    <2>4. BoundKept'
      <3>1. asked.kind = "Steps" => bound.steps \in Nat /\ begun \in Nat /\ asked.steps \in Nat
        BY <2>1, BoundForms, MachineAssumption DEF TypeOK, BoundKept
      <3> QED BY <1>2, <2>2, <3>1 DEF Check, BoundKept, Owed
    <2>5. Checked'
      <3>1. asked.kind = "Address" => location.address # asked.address
        BY <1>2 DEF BoundKept, Reached
      <3> QED BY <1>2, <3>1 DEF Check, Checked
    <2> QED BY <2>3, <2>4, <2>5
  <1> QED BY <1>1, <1>2 DEF Check

LEMMA LiftInv == MachineInv /\ Lift => MachineInv'
  <1> SUFFICES ASSUME MachineInv, Lift PROVE MachineInv' OBVIOUS
  <1> USE DEF MachineInv
  <1>1. TypeOK'
    <2>1. location' \in Locations
      BY InputTypes DEF TypeOK, Lift, Redirect
    <2>2. at' \in [address : Code, position : Nat]
      BY DEF TypeOK, Lift, Locations
    <2>3. phase' \in {"lift", "operation", "done"} /\ redirected' \in BOOLEAN
      BY DEF TypeOK, Lift, Redirect, Return
    <2>4. outcome' \in {"None", "Reached", "Halt", "Error", "Panic"}
      BY DEF TypeOK, Lift, Redirect, Return
    <2>5. begun' \in Nat /\ UNCHANGED <<bound, ignore_errors, asked>>
      BY DEF TypeOK, Lift, Counts
    <2> QED BY <2>1, <2>2, <2>3, <2>4, <2>5 DEF TypeOK
  <1>2. BoundKept'
    <2>1. phase' # "lift" \/ redirected'
      BY DEF Lift, Redirect, Return
    <2>2. asked.kind = "Steps" => begun' = begun + Owed
      <3>1. asked.kind = "Steps" => begun <= asked.steps
        <4> SUFFICES ASSUME asked.kind = "Steps" PROVE begun <= asked.steps OBVIOUS
        <4>1. bound.steps \in Nat /\ begun \in Nat /\ asked.steps \in Nat /\ Owed \in Nat
          BY BoundForms, InputTypes DEF TypeOK, BoundKept, Owed
        <4> QED BY <4>1 DEF BoundKept
      <3> QED BY <3>1 DEF Lift, Counts, Owed, TypeOK
    <2>3. Owed' = 0 BY <2>1 DEF Owed
    <2>4. begun' \in Nat /\ UNCHANGED <<bound, asked>> BY <1>1 DEF Lift, TypeOK
    <2> QED BY <2>2, <2>3, <2>4 DEF BoundKept
  <1>3. Checked'
    <2>1. outcome' # "Reached"
      BY DEF Lift, Redirect, Return, Checked
    <2>2. phase' # "lift" \/ redirected'
      BY DEF Lift, Redirect, Return
    <2>3. phase' \in {"operation", "dispatch"} =>
              at' = location /\ phase = "lift" /\ redirected' = redirected
      BY DEF Lift, Redirect, Return
    <2>4. asked' = asked BY DEF Lift
    <2> QED BY <2>1, <2>2, <2>3, <2>4 DEF Checked
  <1> QED BY <1>1, <1>2, <1>3

\* What the two later phases of a step have in common.
LEMMA LaterInv ==
    ASSUME MachineInv, TypeOK', phase \in {"operation", "dispatch"}, outcome' # "Reached",
           UNCHANGED <<bound, asked, begun>>, at'.address = at.address,
           phase' = "lift" => redirected',
           phase' \in {"operation", "dispatch"} => redirected' = redirected
    PROVE  MachineInv'
  <1>1. BoundKept'
    <2>1. Owed = 0 /\ Owed' = 0 BY DEF Owed
    <2> QED BY <2>1 DEF MachineInv, BoundKept
  <1>2. Checked' BY DEF MachineInv, Checked
  <1> QED BY <1>1, <1>2 DEF MachineInv

LEMMA OperationInv == MachineInv /\ Operation => MachineInv'
  <1> SUFFICES ASSUME MachineInv, Operation PROVE MachineInv' OBVIOUS
  <1>1. at \in [address : Code, position : Nat] /\ Fallthrough(at.address) \in Addresses
    BY FallthroughType DEF MachineInv, TypeOK
  <1>2. TypeOK'
    <2>1. location' \in Locations
      BY <1>1, InputTypes DEF MachineInv, TypeOK, Operation, GoOnAt, Redirect, Locations
    <2>2. phase' \in {"check", "lift", "dispatch", "done"} /\ redirected' \in BOOLEAN
      BY DEF MachineInv, TypeOK, Operation, GoOnAt, Redirect, Return
    <2>3. outcome' \in {"None", "Reached", "Halt", "Error", "Panic"}
      BY DEF MachineInv, TypeOK, Operation, GoOnAt, Redirect, Return
    <2>4. phase' = "dispatch" => Current(at)
      BY DEF Operation, GoOnAt, Redirect, Return
    <2>5. UNCHANGED <<at, bound, ignore_errors, asked, begun>>
      BY DEF Operation
    <2> QED BY <2>1, <2>2, <2>3, <2>4, <2>5 DEF MachineInv, TypeOK, Current
  <1>3. outcome' # "Reached"
    BY DEF MachineInv, Checked, Operation, GoOnAt, Redirect, Return
  <1>4. /\ phase' = "lift" => redirected'
        /\ phase' \in {"operation", "dispatch"} => redirected' = redirected
    BY DEF Operation, GoOnAt, Redirect, Return
  <1> QED BY <1>2, <1>3, <1>4, LaterInv DEF Operation

\* A branch keeps the machine within its types.
LEMMA FollowType ==
    ASSUME MachineInv, phase = "dispatch", NEW b \in Branches \cup {NextBranch}, Follow(b)
    PROVE  /\ location' \in Locations
           /\ at' \in [address : Code, position : Nat] /\ at'.address = at.address
           /\ \/ phase' = "done" /\ outcome' = "Panic"
              \/ phase' \in {"operation", "check"} /\ outcome' = outcome
  <1>1. at \in [address : Code, position : Nat] /\ Fallthrough(at.address) \in Addresses
    BY FallthroughType DEF MachineInv, TypeOK
  <1>2. Distance(b) \in Int /\ (~Moves(b) => b.address \in Addresses)
    BY MachineAssumption DEF Distance, Moves, NextBranch
  <1>3. CASE Panics(at, b) /\ Return("Panic") /\ UNCHANGED <<location, at>>
    BY <1>1, <1>3 DEF Return, MachineInv, TypeOK
  <1>4. CASE ~Panics(at, b) /\ ~(Panics(at, b) /\ Return("Panic"))
    <2>1. at' \in [address : Code, position : Nat] /\ at'.address = at.address
      BY <1>1, <1>2, <1>4 DEF Follow, Panics
    <2>2. CASE BranchesLocally(at, b)
      BY <1>4, <2>1, <2>2 DEF Follow, MachineInv, TypeOK
    <2>3. CASE ~BranchesLocally(at, b)
      <3>1. GoOnAt(IF Moves(b) THEN Fallthrough(at.address) ELSE b.address)
        BY <1>4, <2>3 DEF Follow
      <3> QED BY <1>1, <1>2, <2>1, <3>1 DEF GoOnAt, Locations
    <2> QED BY <2>2, <2>3
  <1> QED BY <1>3, <1>4 DEF Follow

LEMMA ExecuteInv == MachineInv /\ Execute => MachineInv'
  <1> SUFFICES ASSUME MachineInv, Execute PROVE MachineInv' OBVIOUS
  <1>0. phase = "dispatch" /\ outcome # "Reached" /\ UNCHANGED <<bound, ignore_errors, asked, redirected, begun>>
    BY DEF Execute, MachineInv, Checked
  <1>1. CASE \E b \in Branches \cup {NextBranch} : Follow(b)
    <2>1. /\ location' \in Locations
          /\ at' \in [address : Code, position : Nat] /\ at'.address = at.address
          /\ \/ phase' = "done" /\ outcome' = "Panic"
             \/ phase' \in {"operation", "check"} /\ outcome' = outcome
      BY <1>0, <1>1, FollowType
    <2>2. TypeOK' BY <1>0, <2>1 DEF MachineInv, TypeOK
    <2> QED BY <1>0, <2>1, <2>2, LaterInv
  <1>2. CASE (Return("Error") \/ Return("Halt")) /\ UNCHANGED <<location, at>>
    <2>1. TypeOK' BY <1>0, <1>2 DEF MachineInv, TypeOK, Return
    <2> QED BY <1>0, <1>2, <2>1, LaterInv DEF Return
  <1> QED BY <1>1, <1>2 DEF Execute

LEMMA NextInv == MachineInv /\ [Next]_vars => MachineInv'
  <1> SUFFICES ASSUME MachineInv, [Next]_vars PROVE MachineInv' OBVIOUS
  <1>1. CASE UNCHANGED vars
    BY <1>1 DEF vars, MachineInv, TypeOK, BoundKept, Owed, Checked, Reached, Current
  <1> QED BY <1>1, CheckInv, LiftInv, OperationInv, ExecuteInv DEF Next

LEMMA MachineInvariant == Spec => []MachineInv
  BY InitInv, NextInv, PTL DEF Spec

\* Every run of step_until is type correct, for every program and every
\* interpreter: in particular no branch leads out of the instruction but by
\* its end, and an operation is executed only where there is one.
THEOREM MachineTypeOK == Spec => []TypeOK
  <1>1. MachineInv => TypeOK BY DEF MachineInv
  <1> QED BY <1>1, MachineInvariant, PTL

\* step_until begins exactly the steps it was asked for when it reports that
\* the bound is reached, never more, and only a redirection makes it execute
\* the instruction at the address where it was to stop.
THEOREM MachineBoundRespected == Spec => []BoundRespected
  <1>1. MachineInv => BoundRespected
    <2> SUFFICES ASSUME MachineInv PROVE BoundRespected OBVIOUS
    <2>1. CASE asked.kind = "Steps"
      <3>1. bound.steps \in Nat /\ begun \in Nat /\ Owed \in Nat /\ asked.steps \in Nat
        BY <2>1, BoundForms, MachineAssumption DEF MachineInv, TypeOK, BoundKept, Owed
      <3>2. begun + Owed + bound.steps = asked.steps
        BY <2>1 DEF MachineInv, BoundKept
      <3>3. begun <= asked.steps BY <3>1, <3>2
      <3>4. outcome = "Reached" => bound.steps = 0 /\ Owed = 0
        BY <2>1 DEF MachineInv, BoundKept, Checked, Reached, Owed
      <3> QED BY <2>1, <3>1, <3>2, <3>3, <3>4 DEF BoundRespected
    <2>2. CASE asked.kind # "Steps"
      BY <2>2 DEF MachineInv, Checked, BoundRespected
    <2> QED BY <2>1, <2>2
  <1> QED BY <1>1, MachineInvariant, PTL

\* branch_location and branch agree on where every branch leads, at every
\* position of every instruction.
THEOREM MachineLocationsAgree == Spec => []LocationsAgree
  <1>1. TypeOK => LocationsAgree
    <2> SUFFICES ASSUME TypeOK, phase = "dispatch", NEW b \in Branches, ~Panics(at, b)
                 PROVE  BranchLocation(at, b) =
                            IF BranchesLocally(at, b) THEN [at EXCEPT !.position = @ + Distance(b)]
                            ELSE [address |-> IF Moves(b) THEN Fallthrough(at.address)
                                              ELSE b.address,
                                  position |-> 0]
      BY DEF LocationsAgree
    <2>1. at \in [address : Code, position : Nat] BY DEF TypeOK
    <2> QED BY <2>1 DEF BranchLocation, BranchesLocally, Moves, Current
  <1> QED BY <1>1, MachineTypeOK, PTL
-----------------------------------------------------------------------------
(* What is left to do of a run bounded in steps: the steps of the bound,   *)
(* what is left of the step, and of the operations of its instruction.     *)

Stage == CASE phase = "lift" -> 3
           [] phase \in {"operation", "dispatch"} -> 2
           [] phase = "check" -> 1
           [] OTHER -> 0

OpsLeft == IF Current(at) THEN Ops[at.address] - at.position ELSE 0
Inner == 2 * OpsLeft + (IF phase = "operation" THEN 1 ELSE 0)

\* A step of the run makes it less, in the lexicographic order.
Shrinks ==
    \/ bound'.steps < bound.steps
    \/ bound'.steps = bound.steps /\ Stage' < Stage
    \/ bound'.steps = bound.steps /\ Stage' = Stage /\ Inner' < Inner

\* Nothing is ever left of less than nothing: the order is well-founded.
LeftIsNat == asked.kind = "Steps" => bound.steps \in Nat /\ Stage \in Nat /\ Inner \in Nat

LEMMA OpsLeftType == ASSUME TypeOK PROVE OpsLeft \in Nat
  <1>1. Ops[at.address] \in Nat /\ at.position \in Nat
    BY MachineAssumption DEF TypeOK
  <1> QED BY <1>1 DEF OpsLeft, Current

LEMMA LeftType == MachineInv => LeftIsNat
  <1> SUFFICES ASSUME MachineInv, asked.kind = "Steps"
               PROVE  bound.steps \in Nat /\ Stage \in Nat /\ Inner \in Nat
    BY DEF LeftIsNat
  <1>1. bound.steps \in Nat
    BY BoundForms DEF MachineInv, TypeOK, BoundKept
  <1>2. Stage \in Nat
    BY DEF Stage, MachineInv, TypeOK
  <1>3. Inner \in Nat
    BY OpsLeftType DEF Inner, MachineInv
  <1> QED BY <1>1, <1>2, <1>3

LEMMA CheckShrinks == MachineInv /\ asked.kind = "Steps" /\ Check => Shrinks
  <1> SUFFICES ASSUME MachineInv, asked.kind = "Steps", Check PROVE Shrinks OBVIOUS
  <1>1. CASE Return("Reached") /\ UNCHANGED bound
    BY <1>1 DEF Check, Return, Stage, Shrinks
  <1>2. CASE ~Reached(bound, location.address) /\ bound' = Depleted(bound)
    <2>1. bound \in AnyBound /\ bound.kind = "Steps" /\ location.address \in Addresses
      BY DEF MachineInv, TypeOK, BoundKept, Locations
    <2>2. bound.steps \in Nat BY <2>1, BoundForms
    <2>3. bound'.steps = bound.steps - 1 BY <1>2, <2>1, DepletedBound
    <2> QED BY <2>2, <2>3 DEF Shrinks
  <1> QED BY <1>1, <1>2 DEF Check

LEMMA LiftShrinks == Lift /\ ~Redirected => Shrinks
  <1> SUFFICES ASSUME Lift, ~Redirected PROVE Shrinks OBVIOUS
  <1>1. phase = "lift" /\ phase' \in {"operation", "done"} /\ bound' = bound
    BY DEF Lift, Redirect, Return, Redirected
  <1> QED BY <1>1 DEF Stage, Shrinks

LEMMA OperationShrinks == MachineInv /\ Operation /\ ~Redirected => Shrinks
  <1> SUFFICES ASSUME MachineInv, Operation, ~Redirected PROVE Shrinks OBVIOUS
  <1>1. phase = "operation" /\ phase' \in {"check", "dispatch", "done"} /\ UNCHANGED <<bound, at>>
    BY DEF Operation, GoOnAt, Redirect, Return, Redirected
  <1>2. CASE phase' = "dispatch"
    <2>1. OpsLeft' = OpsLeft BY <1>1 DEF OpsLeft, Current
    <2>2. OpsLeft \in Nat BY OpsLeftType DEF MachineInv
    <2>3. Inner' < Inner /\ Stage' = Stage BY <1>1, <1>2, <2>1, <2>2 DEF Inner, Stage
    <2> QED BY <1>1, <2>3 DEF Shrinks
  <1>3. CASE phase' # "dispatch"
    BY <1>1, <1>3 DEF Stage, Shrinks
  <1> QED BY <1>2, <1>3

LEMMA FollowShrinks ==
    ASSUME MachineInv, MachineInv', phase = "dispatch", ~BranchesBack, bound' = bound,
           NEW b \in Branches \cup {NextBranch}, Follow(b)
    PROVE  Shrinks
  <1>1. CASE phase' = "operation"
    <2>1. Current(at) BY DEF MachineInv, TypeOK
    <2>2. /\ BranchesLocally(at, b) /\ Moves(b)
          /\ at' = [at EXCEPT !.position = @ + Distance(b)]
      BY <1>1 DEF Follow, GoOnAt, Return, BranchesLocally
    <2>3. at \in [address : Code, position : Nat] /\ at' \in [address : Code, position : Nat]
      BY DEF MachineInv, TypeOK
    <2>4. at'.address = at.address BY <2>2, <2>3
    <2>5. at'.position > at.position BY <1>1, <2>3, <2>4 DEF BranchesBack
    <2>6. Current(at') BY <2>2 DEF BranchesLocally
    <2>7. Ops[at.address] \in Nat BY <2>3, MachineAssumption
    <2>8. OpsLeft' < OpsLeft /\ OpsLeft \in Nat /\ OpsLeft' \in Nat
      BY <2>1, <2>3, <2>4, <2>5, <2>6, <2>7 DEF OpsLeft, Current
    <2>9. Stage' = Stage BY <1>1 DEF Stage
    <2>10. Inner = 2 * OpsLeft /\ Inner' = 2 * OpsLeft' + 1
      BY <1>1, <2>8 DEF Inner
    <2>11. \A m, n \in Nat : m < n => 2 * m + 1 < 2 * n OBVIOUS
    <2>12. 2 * OpsLeft' + 1 < 2 * OpsLeft BY <2>8, <2>11
    <2>13. Inner' < Inner BY <2>10, <2>12, Zenon
    <2> QED BY <1>1, <2>9, <2>13 DEF Shrinks
  <1>2. CASE phase' # "operation"
    <2>1. phase' \in {"check", "done"} BY <1>2, FollowType
    <2> QED BY <2>1 DEF Stage, Shrinks
  <1> QED BY <1>1, <1>2

LEMMA ExecuteShrinks == MachineInv /\ MachineInv' /\ Execute /\ ~BranchesBack => Shrinks
  <1> SUFFICES ASSUME MachineInv, MachineInv', Execute, ~BranchesBack PROVE Shrinks OBVIOUS
  <1>1. phase = "dispatch" /\ bound' = bound BY DEF Execute
  <1>2. CASE \E b \in Branches \cup {NextBranch} : Follow(b)
    BY <1>1, <1>2, FollowShrinks
  <1>3. CASE Return("Error") \/ Return("Halt")
    BY <1>1, <1>3 DEF Return, Stage, Shrinks
  <1> QED BY <1>2, <1>3 DEF Execute

\* A run bounded in steps gets nearer to its end with every step, but one
\* that a hook redirects or a branch backwards within an instruction: these
\* are the only two ways step_until has of going on for ever.
THEOREM MachineStepsShrink ==
    Spec => [][asked.kind = "Steps" /\ ~Redirected /\ ~BranchesBack =>
                   Shrinks /\ LeftIsNat /\ LeftIsNat']_vars
  <1>1. ASSUME MachineInv, MachineInv', [Next]_vars
        PROVE  [asked.kind = "Steps" /\ ~Redirected /\ ~BranchesBack =>
                    Shrinks /\ LeftIsNat /\ LeftIsNat']_vars
    <2> SUFFICES ASSUME Next, asked.kind = "Steps", ~Redirected, ~BranchesBack
                 PROVE  Shrinks /\ LeftIsNat /\ LeftIsNat'
      BY <1>1
    <2>1. Shrinks
      BY <1>1, CheckShrinks, LiftShrinks, OperationShrinks, ExecuteShrinks DEF Next
    <2>2. LeftIsNat BY <1>1, LeftType
    <2>3. LeftIsNat'
      <3>1. (MachineInv => LeftIsNat)' BY LeftType, PTL
      <3> QED BY <1>1, <3>1
    <2> QED BY <2>1, <2>2, <2>3
  <1> QED BY <1>1, MachineInvariant, PTL DEF Spec
=============================================================================
