------------------------------ MODULE PCodeState ------------------------------
(***************************************************************************)
(* PCodeState (fuguex-state/src/pcode.rs): the memory, the registers and   *)
(* the temporaries of a program, reached through p-code operands.  Bytes   *)
(* are digits of radix Base (256 in the code), so that numbers as long as  *)
(* the longest pointer can be enumerated.  Each of the three parts is an   *)
(* array copied by fork and restore, as FlatState and PagedState implement *)
(* it for restores that keep the discipline `tracks'.                      *)
(***************************************************************************)
EXTENDS Rewinding, Integers   \* Handles: the PCodeState values

CONSTANTS
    Base,        \* number of values of a byte
    BigEndian,   \* O::ENDIAN.is_big()
    AddressSize, \* bytes of an address of the memory space
    Offsets,     \* Offsets[space]: the offsets that exist (are mapped)
    Operands,    \* [space, offset, size]; the offset of a constant is its value
    Numbers,     \* the values callers set addresses to
    Bytes        \* the byte values callers write

Parts == {"Memory", "Register", "Temporary"}
MaxPointerSize == 8
PointerSizes == {1, 2, 4, 8}

\* What the digit number i of a number weighs.
Power[i \in Nat] == IF i = 0 THEN 1 ELSE Base * Power[i - 1]

ASSUME PCodeAssumption ==
    /\ Base \in Nat \ {0, 1}
    /\ BigEndian \in BOOLEAN
    /\ AddressSize \in 1..MaxPointerSize
    /\ Offsets \in [Parts -> SUBSET Nat]
    /\ Operands \subseteq [space : Parts \cup {"Constant"}, offset : Nat, size : Nat \ {0}]
    /\ Numbers \subseteq 0..(Power[AddressSize] - 1)
    /\ Bytes \subseteq 0..(Base - 1)

VARIABLES
    live,       \* handles that hold a state
    cells,      \* cells[h][space][offset]
    result,     \* status of the last call and what it returned
    call,       \* history: the last call with its arguments
    tracks      \* history: see Rewinding

vars == <<live, cells, result, call, tracks>>

Init ==
    /\ \E h \in Handles : live = {h}
    /\ cells = [h \in Handles |-> [s \in Parts |-> [o \in Offsets[s] |-> 0]]]
    /\ result = [status |-> "Ok", value |-> 0]
    /\ call = <<"New">>
    /\ tracks = [h \in Handles |-> {}]

-----------------------------------------------------------------------------
(* Numbers and bytes (ByteCast, u64::to_be_bytes and to_le_bytes).         *)

Digits(n) == 0..(n - 1)
Digit(v, i) == (v \div Power[i]) % Base

\* Digit i of a number is byte Place(i, n) of n bytes, and byte i digit Place(i, n).
Place(i, n) == IF BigEndian THEN n - 1 - i ELSE i
IntoBytes(v, n) == [i \in Digits(n) |-> Digit(v, Place(i, n))]

FromBytes(bytes, n) ==
    LET upTo[i \in 0..n] ==
            IF i = 0 THEN 0 ELSE upTo[i - 1] + bytes[Place(i - 1, n)] * Power[i - 1]
    IN  upTo[n]

\* (mutation) the leading bytes of the big-endian form are taken.
ConstantBytesLeading(value, n) == [i \in Digits(n) |-> IntoBytes(value, 8)[i]]

\* The low n bytes of a constant, from its 8-byte form.
ConstantBytes(value, n) ==
    LET word == IntoBytes(value, 8)
    IN  [i \in Digits(n) |-> word[IF BigEndian THEN 8 - n + i ELSE i]]

-----------------------------------------------------------------------------
Extent(op) == op.offset..(op.offset + op.size - 1)
Exists(op) == op.space \in Parts /\ Extent(op) \subseteq Offsets[op.space]

Return(status, value) ==
    /\ result' = [status |-> status, value |-> value]
    /\ UNCHANGED <<live, cells, tracks>>

\* The bytes with_operand_values finds in an operand; the buffer of constants
\* has room for 8.
OperandValues(h, op) ==
    IF op.space = "Constant" THEN ConstantBytes(op.offset, op.size)
    ELSE [i \in Digits(op.size) |-> cells[h][op.space][op.offset + i]]

NoOperandValues(op) ==
    \/ op.space = "Constant" /\ op.size > 8 /\ Return("Panic", 0)
    \/ op.space \in Parts /\ ~Exists(op) /\ Return(op.space, 0)

HasOperandValues(op) == Exists(op) \/ (op.space = "Constant" /\ op.size <= 8)

Put(h, op, bytes) ==
    [cells EXCEPT ![h][op.space] = [o \in DOMAIN @ |->
        IF o \in Extent(op) THEN bytes[o - op.offset] ELSE @[o]]]

\* with_operand_values_mut, with the bytes the caller leaves in the operand.
WithOperandValuesMut(h, op, bytes) ==
    \/ op.space = "Constant" /\ Return("Panic", 0)
    \/ op.space \in Parts /\ ~Exists(op) /\ Return(op.space, 0)
    \/ /\ Exists(op)
       /\ cells' = Put(h, op, bytes)
       /\ result' = [status |-> "Ok", value |-> 0]
       /\ tracks' = AfterChange(tracks, h)
       /\ UNCHANGED live

GetOperand(h, op) ==
    \/ NoOperandValues(op)
    \/ HasOperandValues(op) /\ Return("Ok", OperandValues(h, op))

SetOperand(h, op, bytes) == WithOperandValuesMut(h, op, bytes)

\* Address::new wraps to the size of the memory space.
Wrapped(v) == v % Power[AddressSize]

GetAddress(h, op) ==
    \/ op.size \notin PointerSizes /\ Return("UnsupportedAddressSize", 0)
    \/ /\ op.size \in PointerSizes
       /\ \/ NoOperandValues(op)
          \/ /\ HasOperandValues(op)
             /\ Return("Ok", Wrapped(FromBytes(OperandValues(h, op), op.size)))

\* (mutation) the first bytes of the longest form are taken.
AddressBytesFirst(address, n) == [i \in Digits(n) |-> IntoBytes(address, MaxPointerSize)[i]]

\* u64, u32, u16 or u8 ::from(address): the low bytes.
AddressBytes(address, n) == IntoBytes(address, n)

SetAddress(h, op, address) ==
    \/ op.size \notin PointerSizes /\ Return("UnsupportedAddressSize", 0)
    \/ /\ op.size \in PointerSizes
       /\ WithOperandValuesMut(h, op, AddressBytes(address, op.size))

\* copy_values, the one operation on memory that is not an operand's.
CopyValues(h, s, d, n) ==
    LET from == [space |-> "Memory", offset |-> s, size |-> n]
        to == [space |-> "Memory", offset |-> d, size |-> n]
    IN  \/ ~(Exists(from) /\ Exists(to)) /\ Return("Memory", 0)
        \/ /\ Exists(from) /\ Exists(to)
           /\ SetOperand(h, to, [i \in Digits(n) |-> cells[h].Memory[s + i]])

-----------------------------------------------------------------------------
Becomes(h, k, parts) ==
    /\ cells' = [cells EXCEPT ![h] =
                    [s \in Parts |-> IF s \in parts THEN cells[k][s] ELSE @[s]]]
    /\ result' = [status |-> "Ok", value |-> 0]
    /\ tracks' = AfterBecoming(tracks, h, k)

\* (mutation) the temporaries are not restored.
RestoredWithoutTemporaries == {"Memory", "Register"}

\* restore goes through the registers, the temporaries and the memory.
Restored == {"Register", "Temporary", "Memory"}

Fork(h, k) == live' = live \cup {k} /\ Becomes(k, h, Parts)
Restore(h, k) == Becomes(h, k, Restored) /\ UNCHANGED live

Access(h) ==
    \/ \E op \in Operands :
          \/ GetOperand(h, op) /\ call' = <<"GetOperand", h, op>>
          \/ GetAddress(h, op) /\ call' = <<"GetAddress", h, op>>
          \/ \E b \in Bytes :
                /\ SetOperand(h, op, [i \in Digits(op.size) |-> b])
                /\ call' = <<"SetOperand", h, op>>
          \/ \E v \in Numbers : SetAddress(h, op, v) /\ call' = <<"SetAddress", h, op, v>>
    \/ \E s, d \in Offsets.Memory, n \in 1..2 :
          /\ CopyValues(h, s, d, n)
          /\ call' = <<"CopyValues", h, [space |-> "Memory", offset |-> d, size |-> n]>>

Running == result.status # "Panic"

Next ==
    \/ Running /\ \E h \in live : Access(h)
    \/ Running /\ \E h \in live, k \in Handles : h # k /\ Fork(h, k) /\ call' = <<"Become", k, h>>
    \/ Running /\ \E h, k \in live :
          h # k /\ k \in tracks[h] /\ Restore(h, k) /\ call' = <<"Become", h, k>>

Spec == Init /\ [][Next]_vars

-----------------------------------------------------------------------------
(* Properties.                                                             *)

\* The value an operand stands for, told without going through its bytes one
\* by one: the cells are its digits, the lowest first or last.
Holds(h, op, v) ==
    \A o \in Extent(op) :
        cells[h][op.space][o] =
            Digit(v, IF BigEndian THEN op.offset + op.size - 1 - o ELSE o - op.offset)

\* Whatever the width, the byte order and the part it is in, an address is read
\* as what the operand holds: a constant as the low bytes of its value, a cell
\* range as the number whose digits it holds, cut to the memory space
\* (pcode.rs:105-143, 207-236).
AddressesRead ==
    call[1] = "GetAddress" /\ result.status = "Ok" =>
        LET h == call[2]
            op == call[3]
        IN  IF op.space = "Constant"
            THEN result.value = Wrapped(op.offset % Power[op.size])
            ELSE \E v \in 0..(Power[op.size] - 1) : Holds(h, op, v) /\ result.value = Wrapped(v)

\* An address that is set is held from then on, cut to the width, and a width no
\* pointer has is refused (pcode.rs:248-275).
AddressesSet ==
    call[1] = "SetAddress" /\ result.status = "Ok" =>
        /\ call[3].size \in PointerSizes
        /\ Holds(call[2], call[3], call[4] % Power[call[3].size])

Changed(h, s) == {o \in Offsets[s] : cells'[h][s][o] # cells[h][s][o]}

\* A call changes the operand it names and nothing else: no neighbour of a
\* narrow register, no other part at the same offset, no other state; and a
\* state that is rewound has all three parts of the snapshot (pcode.rs:145-179,
\* 281-303).
OthersKept ==
    [][ \A h \in Handles, s \in Parts :
            /\ call'[1] = "Become" /\ call'[2] = h => cells'[h] = cells[call'[3]]
            /\ Changed(h, s) # {} =>
                  /\ call'[2] = h
                  /\ call'[1] # "Become" => call'[3].space = s /\ Changed(h, s) \subseteq Extent(call'[3])
      ]_vars
=============================================================================
