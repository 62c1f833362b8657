--------------------------- MODULE MCVectorEngine ---------------------------
(***************************************************************************)
(* The vector engine on a register file of 16 registers.  Registers 1 to 7 *)
(* hold the addresses, strides and lengths of the programs; the others are  *)
(* distinct symbols.                                                        *)
(***************************************************************************)
EXTENDS VectorEngine

MCNumRegs == 16

MCInitRegs == [r \in 0 .. 15 |->
  CASE r = 0 -> Zero
    [] r = 1 -> Scalar(64)       \* aligned base
    [] r = 2 -> Scalar(67)       \* base of a byte array inside a word
    [] r = 3 -> Scalar(4)        \* strides
    [] r = 4 -> Scalar(3)
    [] r = 5 -> Scalar(6)        \* a vector length
    [] r = 6 -> Scalar(124)      \* base whose next word is faulty
    [] r = 7 -> Scalar(130)      \* inside the faulty word
    [] OTHER -> <<"reg", r>>]

Vector(op, mode, size, rd, rs1, rs2) ==
  [op |-> op, mode |-> mode, size |-> size, rd |-> rd, rs1 |-> rs1, rs2 |-> rs2]

Arithmetic ==
  {Vector("vadd", "unit", "32", 8, 8, 12), Vector("vadd", "unit", "32", 9, 9, 10),
   Vector("vmul", "unit", "32", 8, 8, 12), Vector("vmac", "unit", "32", 9, 8, 12),
   Vector("vcsr", "unit", "32", 5, 1, 0)}
Loads ==
  {Vector("lw", "unit", "32", 9, 1, 0),
   Vector("vload", "unit", "32", 8, 1, 0), Vector("vload", "unit", "8", 8, 1, 0),
   Vector("vload", "unit", "8", 8, 2, 0), Vector("vload", "strided", "32", 8, 1, 3),
   Vector("vload", "strided", "8", 8, 2, 4)}
StoresOf ==
  {Vector("vstore", "unit", "32", 0, 1, 8),
   Vector("vstore", "strided", "32", 3, 1, 8), Vector("vstore", "strided", "8", 4, 2, 8)}
Faulting ==
  {Vector("lw", "unit", "32", 9, 7, 0), Vector("vload", "unit", "32", 8, 6, 0),
   Vector("vload", "unit", "8", 8, 6, 0), Vector("vstore", "unit", "32", 0, 6, 8)}

(* What is in i_reg in the cycles in which it is not executed: an           *)
(* arithmetic instruction or a store, for the faults are mostly of loads.   *)
ShownInstrs ==
  {Vector("vadd", "unit", "32", 8, 8, 12), Vector("vstore", "unit", "8", 0, 1, 8)}
AllInstrs == Arithmetic \union Loads \union StoresOf \union Faulting

(* A strided access that runs into the faulty word. *)
StridedFaults == {Vector("vload", "strided", "32", 8, 6, 3), Vector("lw", "unit", "32", 9, 1, 0)}
=============================================================================
