---------------------------- MODULE VectorInstr ----------------------------
(***************************************************************************)
(* Vocabulary of the custom vector instructions of the CPU and of the      *)
(* values they move: what the opcodes, the register fields and the symbolic *)
(* contents of a register mean.  The instruction words are decoded in the   *)
(* EXECUTE state of neorv32_cpu_control.vhd; here an instruction is a       *)
(* record of the fields that the engine looks at.                           *)
(*                                                                          *)
(* A register or memory word is a symbolic value, tagged by how it came to  *)
(* be: an integer the control logic looks at (an address, a stride, a       *)
(* vector length), bytes named by the address they were loaded from, or a   *)
(* sum or a product of other values.  Two equal terms are equal words.      *)
(***************************************************************************)
EXTENDS Integers, Sequences, FiniteSets

CONSTANTS
  NumRegs,    (* Registers of the register file (32 in the code).           *)
  Instrs,     (* The instructions a program may issue.                      *)
  InitRegs,   (* The register file a program starts from.                   *)
  VLs,        (* Values csr_vl may have before it is first written.         *)
  FaultWords  (* Word addresses that the bus answers with an error.         *)

Regs == 0 .. NumRegs - 1

(* csr_vl, counter_1 and counter_2 are std_ulogic_vector(6 downto 0). *)
Counter == 0 .. 127
Count(n) == n % 128

VectorOps == {"vload", "vstore", "vadd", "vmul", "vmac", "vcsr"}
InstrType ==
  [op : VectorOps \union {"lw"}, mode : {"unit", "strided"},
   size : {"8", "16", "32"}, rd : Regs, rs1 : Regs, rs2 : Regs]

ASSUME NumRegsAssumption == NumRegs \in Nat \ {0}
ASSUME InstrsAssumption == Instrs \subseteq InstrType
ASSUME VLsAssumption == VLs \subseteq Counter

IsMem(i) == i.op \in {"vload", "vstore"}

-----------------------------------------------------------------------------
(* Symbolic words. *)

Scalar(n)      == <<"int", n>>
Bytes(s)    == <<"ld", s>>          \* s: addresses of the bytes, low byte first
Mul(x, y)   == <<"mul", x, y>>
MulByte(x, y, b) == <<"mul8", x, y, b>>   \* byte b of x times byte b of y
Zero        == Scalar(0)
IsWord(x)   == x[1] = "int" => x[2] \in Int
Num(x)      == IF x[1] = "int" THEN x[2] ELSE 0
Add(x, y)   ==
  IF x[1] = "int" /\ y[1] = "int" THEN Scalar(x[2] + y[2])
  ELSE IF y = Zero THEN x
  ELSE IF x = Zero THEN y
  ELSE <<"add", x, y>>

Word(a)     == a - (a % 4)          \* the aligned word that holds byte a
WordBytes(a) == [j \in 1 .. 4 - (a % 4) |-> a + j - 1]  \* from byte a to its word's end
Faulty(a)   == Word(a) \in FaultWords
Reg(r, k)   == (r + k) % NumRegs    \* register numbers wrap at 5 bits

ASSUME InitRegsAssumption ==
  InitRegs = [r \in Regs |-> InitRegs[r]] /\ \A r \in Regs : IsWord(InitRegs[r])

-----------------------------------------------------------------------------
(* What the fields of a memory instruction say, given the registers R. *)

Base(i, R)   == Num(R[i.rs1])
Stride(i, R) == Num(R[IF i.op = "vload" THEN i.rs2 ELSE i.rd])
Width(i)     == IF i.size = "8" THEN 1 ELSE IF i.size = "16" THEN 2 ELSE 4
(* A unit-stride store always moves whole words (ctrl_ir_funct3 = "10"). *)
StoreSize(i) == IF i.mode = "unit" THEN "32" ELSE i.size
ElemAddr(i, R, k) ==
  IF i.mode = "strided" THEN Base(i, R) + k * Stride(i, R)
  ELSE Base(i, R) + k * (IF i.op = "vstore" THEN 4 ELSE Width(i))
Groups(n)    == (n + 3) \div 4      \* registers that n bytes fill
(* Registers written by instruction i at vector length vl. *)
DestCount(i, vl) ==
  CASE i.op \in {"vadd", "vmul"} -> vl
    [] i.op = "vload" -> IF i.size = "8" THEN Groups(vl) ELSE vl
    [] i.op \in {"vmac", "lw"} -> 1
    [] OTHER -> 0
Dest(i, vl) == {Reg(i.rd, k) : k \in 0 .. DestCount(i, vl) - 1}
=============================================================================
