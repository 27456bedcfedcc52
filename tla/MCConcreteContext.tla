--------------------------- MODULE MCConcreteContext ---------------------------
(* Instances of ConcreteContext for TLC.                                       *)
EXTENDS ConcreteContext

Op(kind, x, y, z) == [kind |-> kind, x |-> x, y |-> y, z |-> z]

\* Data moved between a register, memory and pointers; a call for its errors.
DataOperations ==
    {Op("Copy", s, Reg("r"), d) : s \in {Cell(1), Const(1)}, d \in {Reg("r"), Cell(0)}} \cup
    {Op("Int1", Cell(1), Cell(1), Cell(0)), Op("Int2", Reg("r"), Cell(0), Cell(1)),
     Op("Divide", Reg("r"), Cell(1), Cell(0)), Op("Bool1", Cell(1), Cell(1), Reg("r")),
     Op("Bool2", Reg("r"), Cell(1), Reg("r")), Op("Float1", Cell(0), Cell(0), Cell(1)),
     Op("Float2", Cell(1), Cell(0), Reg("r")), Op("Subpiece", Cell(1), Const(1), Reg("r")),
     Op("Load", Reg("r"), Reg("r"), Reg("r")), Op("Load", Cell(0), Reg("r"), Reg("r")),
     Op("Store", Reg("r"), Reg("r"), Reg("sp")), Op("Store", Reg("r"), Reg("r"), Cell(1)),
     Op("Call", Reg("r"), Reg("r"), Cell(1))}

\* Branches to every kind of destination, on conditions anywhere.
FlowOperations ==
    {Op("CBranch", c, c, d) :
        c \in {Reg("r"), Cell(0), Cell(1)}, d \in {Cell(1), Const(1), Reg("r")}} \cup
    {Op("CBranch", Const(1), Const(1), Cell(1))} \cup
    {Op(kind, d, d, d) : kind \in {"Branch", "Call"}, d \in {Cell(1), Reg("r"), Const(0)}} \cup
    {Op(kind, d, d, d) : kind \in {"IBranch", "ICall", "Return"}, d \in {Cell(1), Reg("pc")}} \cup
    {Op("Intrinsic", Const(0), Const(0), Const(0))}

AllOperations == DataOperations \cup FlowOperations

ConditionAndCell == {Reg("r"), Cell(1)}
=============================================================================
