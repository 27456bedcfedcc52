---------------------------- MODULE ConcreteContext ----------------------------
(***************************************************************************)
(* The p-code operations of ConcreteContext                                *)
(* (fuguex-concrete/src/interpreter.rs), seen as the accesses they make to *)
(* operands and the hooks they call on the way.  Each hook is called with  *)
(* the state to change as it likes; it may fail, claim that it changed the *)
(* state, answer an invalid access or steer a branch.                      *)
(*                                                                         *)
(* An operation is a sequence of tasks, `todo'; the first is done at each  *)
(* step and may put others in its place.  What an operand holds is one     *)
(* value whatever its width, and values are also addresses: PCodeState     *)
(* and PagedState say what widths and translation add.                     *)
(***************************************************************************)
EXTENDS Integers, SequencesExt

CONSTANTS
    Top,          \* 0..Top: values, and addresses of memory
    Registers,    \* registers and temporaries; "sp" and "pc" among them
    NumHooks,     \* number of hooks
    Policies,     \* the hooks that are PolicyHooks with the zero policy
    Operations,   \* the operations programs are made of
    Touchable,    \* places hooks change
    LinkRegister, \* calls leave their return address in "lr", not on the stack
    ExtraPop      \* extra_pop of the calling convention

ASSUME ConcreteAssumption ==
    /\ Top \in Nat \ {0}
    /\ {"sp", "pc"} \subseteq Registers
    /\ LinkRegister \in BOOLEAN
    /\ LinkRegister => "lr" \in Registers
    /\ NumHooks \in Nat
    /\ Policies \subseteq 1..NumHooks
    /\ ExtraPop \in 0..Top

VARIABLES
    store,      \* store[o]: the value of operand o, or Unmapped
    todo,       \* tasks left of the current operation
    buf,        \* the value read or computed last
    answers,    \* what hooks said of the invalid access at hand
    steer,      \* hooks asked to flip the branch, or to skip the call
    outcome,    \* of the last operation
    last,       \* history: the last task done
    wrote       \* history: the places the operation has written

vars == <<store, todo, buf, answers, steer, outcome, last, wrote>>

Values == 0..Top
Hooks == 1..NumHooks
Unmapped == -1
Cell(a) == [space |-> "Address", at |-> a]
Reg(r) == [space |-> "Register", at |-> r]
Const(v) == [space |-> "Constant", at |-> v]
Cells == {Cell(a) : a \in Values}
Places == Cells \cup {Reg(r) : r \in Registers}
Operands == Places \cup {Const(v) : v \in Values}

OpKinds ==
    {"Copy", "Load", "Store", "Branch", "CBranch", "IBranch", "Call", "ICall", "Return",
     "Int1", "Int2", "Divide", "Bool1", "Bool2", "Float1", "Float2", "Subpiece", "Intrinsic"}

ASSUME OperationsAssumption ==
    /\ Touchable \subseteq Places
    /\ Operations \subseteq [kind : OpKinds, x : Operands, y : Operands, z : Operands]
    \* a condition is one byte (interpreter.rs:761): it is not the stack pointer
    /\ \A op \in Operations : op.kind = "CBranch" => op.x # Reg("sp")

Task(do, o) == [do |-> do, on |-> o, hook |-> 0, via |-> "Read"]

Init ==
    /\ store \in [Places -> Values \cup {Unmapped}]
    /\ \A r \in Registers : store[Reg(r)] # Unmapped
    /\ todo = <<>>
    /\ buf = 0
    /\ answers = <<>>
    /\ steer = FALSE
    /\ outcome = "Next"
    /\ last = Task("None", Const(0))
    /\ wrote = {}

-----------------------------------------------------------------------------
(* Operations as tasks.                                                    *)

ForHooks(do, o, via) ==
    [i \in Hooks |-> [do |-> do, on |-> o, hook |-> i, via |-> via]]

\* read_operand_with and write_operand.
Read(o, via) == ForHooks("ReadHook", o, via) \o <<[Task("Fetch", o) EXCEPT !.via = via]>>
Stored(o) == <<Task("Store", o)>> \o ForHooks("WriteHook", o, "Write")

\* (mutation) what was written is read back after the hooks.
WriteReadBack(o) == Stored(o) \o Read(o, "Read")

Write(o) == Stored(o)

\* Operands of unsupported sizes are refused.
Size(o) == <<Task("Size", o)>>

\* get_address_value calls the read hooks, and so does the read it makes.
ReadPointer(o, via) == ForHooks("ReadHook", o, via) \o Size(o) \o Read(o, via)

\* copy_operand.
Copy(s, d) == Size(s) \o Read(s, "Read") \o Write(d)

\* A result that expand_as widens or narrows to fit, and writes.
Result(d) == <<Task("Compute", d)>> \o Size(d) \o Write(d)

\* lift_int1 and lift_float1, whose operand must have a float format; lift_int2
\* and lift_float2.
Lift1(d, x) == Size(x) \o Read(x, "Read") \o Result(d)
Operands2(x, y) == Size(x) \o Read(x, "Read") \o Read(y, "Read")
Lift2(d, x, y) == Operands2(x, y) \o Result(d)

\* lift_bool1 and lift_bool2: one byte each, which is a supported size.
Bool1(d, x) == Read(x, "Read") \o <<Task("Compute", d)>> \o Write(d)
Bool2(d, x, y) == Read(x, "Read") \o Bool1(d, y)

CallHooks(o) == ForHooks("CallHook", o, "Read") \o <<Task("Enter", o)>>

\* The tasks of an operation with operands x and y and destination z.
DataTasks(op) ==
    CASE op.kind = "Copy" -> Copy(op.x, op.z)
      [] op.kind = "Load" -> ReadPointer(op.x, "ReadVia") \o <<Task("LoadFrom", op.z)>>
      [] op.kind = "Store" -> ReadPointer(op.z, "WriteVia") \o <<Task("StoreTo", op.x)>>

BranchTasks(op) ==
    CASE op.kind = "Branch" -> <<Task("BranchTo", op.z)>>
      [] op.kind = "CBranch" ->
            ForHooks("CBranchHook", op.x, "Read") \o Read(op.x, "Read") \o
            <<Task("Decide", op.x), Task("BranchTo", op.z)>>
      [] op.kind = "Call" -> <<Task("Aim", op.z)>> \o CallHooks(op.z)
      [] op.kind = "ICall" \/ (op.kind = "IBranch" /\ op.z = Reg("pc")) ->
            ReadPointer(op.z, "ReadVia") \o CallHooks(op.z)
      [] op.kind = "Return" \/ (op.kind = "IBranch" /\ op.z # Reg("pc")) ->
            ReadPointer(op.z, "ReadVia") \o <<Task("Jump", op.z)>>

IntTasks(op) == IF op.kind = "Int1" THEN Lift1(op.z, op.x) ELSE Lift2(op.z, op.x, op.y)

\* int_div, int_sdiv, int_rem and int_srem: the divisor is read last.
DivideTasks(op) == Operands2(op.x, op.y) \o <<Task("Divide", op.y)>> \o Result(op.z)

BoolTasks(op) == IF op.kind = "Bool1" THEN Bool1(op.z, op.x) ELSE Bool2(op.z, op.x, op.y)
FloatTasks(op) == IF op.kind = "Float1" THEN Lift1(op.z, op.x) ELSE Lift2(op.z, op.x, op.y)

\* All sizes are looked at first, and the amount is read before the operand.
SubpieceTasks(op) ==
    Operands2(op.y, op.x) \o <<Task("Compute", op.z)>> \o Write(op.z)

Tasks(op) ==
    CASE op.kind \in {"Copy", "Load", "Store"} -> DataTasks(op)
      [] op.kind \in {"Branch", "CBranch", "Call", "ICall", "IBranch", "Return"} -> BranchTasks(op)
      [] op.kind \in {"Int1", "Int2"} -> IntTasks(op)
      [] op.kind = "Divide" -> DivideTasks(op)
      [] op.kind \in {"Bool1", "Bool2"} -> BoolTasks(op)
      [] op.kind \in {"Float1", "Float2"} -> FloatTasks(op)
      [] op.kind = "Subpiece" -> SubpieceTasks(op)
      [] op.kind = "Intrinsic" -> <<Task("Handle", op.z)>>

Running == outcome = "Running"

Begin(op) ==
    /\ outcome \notin {"Running", "Panic"}
    /\ todo' = Tasks(op)
    /\ buf' = 0 /\ answers' = <<>> /\ steer' = FALSE
    /\ outcome' = "Running"
    /\ wrote' = {} /\ last' = Task("None", Const(0))
    /\ UNCHANGED store

-----------------------------------------------------------------------------
Now == Head(todo)
Rest == Tail(todo)
Doing(what) == Now.do = what

Ends(result) ==
    /\ outcome' = result
    /\ todo' = <<>>

\* The rest of the operation, or its end with the outcome Next.
Goes(tasks) ==
    /\ todo' = tasks
    /\ outcome' = IF tasks = <<>> THEN "Next" ELSE "Running"

\* What a hook leaves of the state; only memory is mapped and unmapped.
Touched ==
    {store} \cup
    {[store EXCEPT ![o] = v] : o \in Touchable, v \in Values} \cup
    {[store EXCEPT ![o] = Unmapped] : o \in Touchable \cap Cells}

\* A PolicyHook has methods of its own for invalid accesses only.
HookChanges ==
    IF Now.hook \in Policies THEN UNCHANGED store ELSE store' \in Touched

HookFails ==
    /\ \E what \in {"ReadHook", "WriteHook", "InvalidHook", "CBranchHook", "CallHook"} : Doing(what)
    /\ Now.hook \notin Policies
    /\ HookChanges
    /\ Ends("Error")
    /\ UNCHANGED <<buf, answers, steer, wrote>>

\* hook_operand_read and hook_operand_write; what they return is ignored.
AccessHook ==
    /\ Doing("ReadHook") \/ Doing("WriteHook")
    /\ HookChanges
    /\ Goes(Rest)
    /\ UNCHANGED <<buf, answers, steer, wrote>>

\* hook_cbranch and hook_call: one flip or skip is enough, a halt is final.
SteerHook ==
    /\ Doing("CBranchHook") \/ Doing("CallHook")
    /\ HookChanges
    /\ \/ UNCHANGED steer /\ Goes(Rest)
       \/ /\ Now.hook \notin Policies
          /\ \/ steer' = TRUE /\ Goes(Rest)
             \/ Ends("Halt") /\ UNCHANGED steer
    /\ UNCHANGED <<buf, answers, wrote>>

\* PolicyHook gives zeros to reads of data and skips all else.
PolicyAnswer(via) ==
    [changed |-> FALSE, action |-> IF via = "Read" THEN "Value" ELSE "Skip", value |-> 0]

Answers == [changed : BOOLEAN, action : {"Pass", "Skip", "Halt", "Value"}, value : {Top}]

InvalidHook ==
    /\ Doing("InvalidHook")
    /\ HookChanges
    /\ \/ Now.hook \in Policies /\ answers' = Append(answers, PolicyAnswer(Now.via))
       \/ Now.hook \notin Policies /\ \E a \in Answers : answers' = Append(answers, a)
    /\ Goes(Rest)
    /\ UNCHANGED <<buf, steer, wrote>>

-----------------------------------------------------------------------------
(* read_operand_with.                                                      *)

Valid(o) == o \in Places => store[o] # Unmapped
Value(o) == IF o.space = "Constant" THEN o.at ELSE store[o]

\* The access failed: ask every hook, then decide what to do.
Asking(via, decide) ==
    Goes(ForHooks("InvalidHook", Now.on, via) \o <<[Now EXCEPT !.do = decide]>> \o Rest)

Fetch ==
    /\ Doing("Fetch")
    /\ \/ Valid(Now.on) /\ buf' = Value(Now.on) /\ Goes(Rest)
       \/ ~Valid(Now.on) /\ Asking(Now.via, "Refetch") /\ UNCHANGED buf
    /\ answers' = <<>>
    /\ UNCHANGED <<store, steer, wrote>>

\* The last answer that gives a value or claims a change is the one taken.
Useful == {i \in DOMAIN answers : answers[i].changed \/ answers[i].action = "Value"}

\* (mutation) the first such answer.
TakenFirst == answers[Min(Useful)]

Taken == answers[Max(Useful)]

\* (mutation) as long as a hook claims a change the access is tried again.
RetriedAgain == Goes(<<[Now EXCEPT !.do = "Fetch"]>> \o Rest) /\ UNCHANGED buf

\* The second attempt is final.
Retried ==
    \/ Valid(Now.on) /\ buf' = Value(Now.on) /\ Goes(Rest)
    \/ ~Valid(Now.on) /\ Ends("Error") /\ UNCHANGED buf

Refetch ==
    /\ Doing("Refetch")
    /\ \/ Useful = {} /\ Ends("Error") /\ UNCHANGED buf
       \/ Useful # {} /\ Taken.action = "Value" /\ buf' = Taken.value /\ Goes(Rest)
       \/ Useful # {} /\ Taken.action # "Value" /\ Retried
    /\ UNCHANGED <<store, answers, steer, wrote>>

-----------------------------------------------------------------------------
(* write_operand.                                                          *)

\* with_operand_values_mut panics on a constant.
Put(v, tasks) ==
    \/ Now.on.space = "Constant" /\ Ends("Panic") /\ UNCHANGED <<store, wrote>>
    \/ /\ Now.on.space # "Constant"
       /\ store' = [store EXCEPT ![Now.on] = v]
       /\ wrote' = wrote \cup {Now.on}
       /\ Goes(tasks)

Store ==
    /\ Doing("Store")
    /\ \/ Valid(Now.on) /\ Put(buf, Rest)
       \/ ~Valid(Now.on) /\ Asking("Write", "Restore") /\ UNCHANGED <<store, wrote>>
    /\ answers' = <<>>
    /\ UNCHANGED <<buf, steer>>

Changed == \E i \in DOMAIN answers : answers[i].changed
Skipped == \E i \in DOMAIN answers : answers[i].action = "Skip"

\* One more attempt if some hook claims a change; what fails then, or is not
\* tried, is forgiven if some hook said to skip it.
Restore ==
    /\ Doing("Restore")
    /\ \/ Changed /\ Valid(Now.on) /\ Put(buf, Rest)
       \/ /\ ~(Changed /\ Valid(Now.on))
          /\ IF Skipped THEN Goes(Rest) ELSE Ends("Error")
          /\ UNCHANGED <<store, wrote>>
    /\ UNCHANGED <<buf, answers, steer>>

-----------------------------------------------------------------------------
(* The operations' own steps.                                              *)

Sized ==
    /\ Doing("Size")
    /\ Goes(Rest) \/ Ends("Error")
    /\ UNCHANGED <<store, buf, answers, steer, wrote>>

\* What an operation makes of the values read: any result.
Compute ==
    /\ Doing("Compute")
    /\ buf' \in Values
    /\ Goes(Rest)
    /\ UNCHANGED <<store, answers, steer, wrote>>

Divide ==
    /\ Doing("Divide")
    /\ IF buf = 0 THEN Ends("Error") ELSE Goes(Rest)
    /\ UNCHANGED <<store, buf, answers, steer, wrote>>

\* load and store make an operand of the pointer they read.
Dereference ==
    /\ \/ Doing("LoadFrom") /\ Goes(Copy(Cell(buf), Now.on))
       \/ Doing("StoreTo") /\ Goes(Copy(Now.on, Cell(buf)))
    /\ UNCHANGED <<store, buf, answers, steer, wrote>>

\* The target of a branch is the operand itself, and of an indirect one what
\* was read; only addresses, and constants within an instruction, are targets.
Jump ==
    /\ \/ Doing("Jump") /\ Ends("Branch") /\ UNCHANGED buf
       \/ /\ Doing("BranchTo")
          /\ \/ Now.on.space # "Register" /\ buf' = Now.on.at /\ Ends("Branch")
             \/ Now.on.space = "Register" /\ Ends("Error") /\ UNCHANGED buf
    /\ UNCHANGED <<store, answers, steer, wrote>>

Negated(v) == IF v = 0 THEN 1 ELSE 0

\* (mutation) the flip decides the branch but is not written back.
FlippedInPassing(v) ==
    /\ Goes(IF v # 0 THEN Rest ELSE <<>>)
    /\ UNCHANGED <<store, wrote>>

\* A flip is written to the condition, without calling hooks.
Flipped(v) ==
    \/ Valid(Now.on) /\ Put(v, IF v # 0 THEN Rest ELSE <<>>)
    \/ ~Valid(Now.on) /\ Ends("Error") /\ UNCHANGED <<store, wrote>>

Decide ==
    /\ Doing("Decide")
    /\ \/ steer /\ Flipped(Negated(buf))
       \/ ~steer /\ Goes(IF buf # 0 THEN Rest ELSE <<>>) /\ UNCHANGED <<store, wrote>>
    /\ UNCHANGED <<buf, answers, steer>>

\* A direct call goes to an address of memory.
Aim ==
    /\ Doing("Aim")
    /\ \/ Now.on.space = "Address" /\ buf' = Now.on.at /\ Goes(Rest)
       \/ Now.on.space # "Address" /\ Ends("Error") /\ UNCHANGED buf
    /\ UNCHANGED <<store, answers, steer, wrote>>

ReturnLocation(sp) == IF LinkRegister THEN Reg("lr") ELSE Cell(sp)

\* (mutation) the stack pointer runs out of the address space.
PoppedPast(sp) == sp + ExtraPop

Popped(sp) == (sp + ExtraPop) % (Top + 1)

\* (mutation) the pop comes first and the return address is read above it.
ReturnPoppedFirst(sp) ==
    /\ buf' = Popped(sp)
    /\ \/ Valid(ReturnLocation(Popped(sp))) /\
          Goes(Write(Reg("sp")) \o <<Task("BranchTo", Cell(Value(ReturnLocation(Popped(sp)))))>>)
       \/ ~Valid(ReturnLocation(Popped(sp))) /\ Ends("Error")

\* skip_return: the return address is read, without hooks, and then the stack
\* is popped as any register is written.
SkipReturn(sp) ==
    /\ buf' = Popped(sp)
    /\ \/ /\ Valid(ReturnLocation(sp))
          /\ Goes((IF ExtraPop > 0 THEN Write(Reg("sp")) ELSE <<>>) \o
                  <<Task("BranchTo", Cell(Value(ReturnLocation(sp))))>>)
       \/ ~Valid(ReturnLocation(sp)) /\ Ends("Error")

Enter ==
    /\ Doing("Enter")
    /\ \/ steer /\ SkipReturn(store[Reg("sp")])
       \/ ~steer /\ Ends("Branch") /\ UNCHANGED buf
    /\ UNCHANGED <<store, answers, steer, wrote>>

\* No handler is ever registered with the context: the default is to pass.
Handle ==
    /\ Doing("Handle")
    /\ Goes(Rest)
    /\ UNCHANGED <<store, buf, answers, steer, wrote>>

Step ==
    /\ Running
    /\ last' = Now
    /\ \/ HookFails \/ AccessHook \/ SteerHook \/ InvalidHook
       \/ Fetch \/ Refetch \/ Store \/ Restore
       \/ Sized \/ Compute \/ Divide \/ Dereference \/ Jump \/ Decide \/ Aim \/ Enter \/ Handle

Next == Step \/ \E op \in Operations : Begin(op)

Spec == Init /\ [][Next]_vars /\ WF_vars(Step)

-----------------------------------------------------------------------------
(* Properties.                                                             *)

\* Memory is mapped or not, registers always hold a value; an operation has
\* tasks left as long as it runs.
TypeOK ==
    /\ store \in [Places -> Values \cup {Unmapped}]
    /\ \A r \in Registers : store[Reg(r)] \in Values
    /\ buf \in Values /\ steer \in BOOLEAN
    /\ outcome \in {"Running", "Next", "Branch", "Halt", "Error", "Panic"}
    /\ Running <=> todo # <<>>
    /\ Len(answers) <= NumHooks
    /\ wrote \subseteq Places

\* Every operation ends, also when hooks go on claiming at each attempt that
\* they changed the state and never make the access valid
\* (interpreter.rs:258-268, 314-328).
OpsEnd == Running ~> ~Running

\* A conditional branch is taken if and only if its condition holds in the
\* state it leaves, flipped or not, so that code that reads the condition again
\* decides the same (interpreter.rs:778-798); a value that hooks supplied for a
\* condition in unmapped memory is in no state.
BranchesAsHeld ==
    last.do = "Decide" /\ outcome \in {"Running", "Next"} /\ (steer \/ answers = <<>>) =>
        (Running <=> Value(last.on) # 0)

\* The micro-execution policy keeps a program going on memory it does not
\* have, whatever other hooks answer: no write fails, and no read of data if
\* the policy is asked last (interpreter.rs:243-273, 294-328; microx.rs:130-146).
ViolationsAnswered ==
    /\ Policies # {} => ~(outcome = "Error" /\ last.do = "Restore")
    /\ NumHooks \in Policies => ~(outcome = "Error" /\ last.do = "Refetch" /\ last.via = "Read")

\* A call that a hook skips goes where the return of the function would have
\* gone, leaving the stack as it would (interpreter.rs:511-553), as long as
\* hooks leave both alone.
SkippedCallReturns ==
    LET sp == (store[Reg("sp")] + Top + 1 - ExtraPop) % (Top + 1)
    IN  outcome = "Branch" /\ last.do = "BranchTo" /\ steer /\ Reg("sp") \in wrote
        /\ {Reg("sp"), ReturnLocation(sp)} \cap Touchable = {} =>
            buf = Value(ReturnLocation(sp))

\* An operation that fails has written nothing, unless a hook failed that was
\* told of the write, or a flipped branch has no valid target.
FailsClean ==
    outcome = "Error" /\ wrote # {} =>
        \/ last.do = "WriteHook"
        \/ last.do = "BranchTo" /\ steer
=============================================================================
