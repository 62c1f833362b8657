----------------------------- MODULE VectorIsa -----------------------------
(***************************************************************************)
(* What the vector instructions promise to the program, with no clock, bus *)
(* or state machine: an instruction is issued, then it either completes,   *)
(* writing exactly its destination registers and memory words from the     *)
(* values its sources had when it was issued, or it is cut off by an       *)
(* exception at some element, leaving every later element undone.          *)
(***************************************************************************)
EXTENDS VectorInstr

CONSTANT None   \* no instruction is being executed

VARIABLES
  regs,   (* The architectural registers.                                  *)
  vl,     (* The vector length (csr_vl).                                   *)
  mem,    (* The stores done so far, in order: <<address, size, word>>.    *)
  cur     (* The instruction being executed, or None.                      *)

isaVars == <<regs, vl, mem, cur>>

(* Byte j of element register m of a load of vl elements; j, m from 0. *)
LoadedByte(i, m, j) ==
  IF i.size = "8" THEN ElemAddr(i, regs, 4 * m + j) ELSE ElemAddr(i, regs, m) + j

(* Word w holds the elements that belong into register m of a vector load; *)
(* bytes past the last element (the tail) may hold anything.               *)
Holds(w, i, m) ==
  /\ w[1] = "ld"
  /\ \A j \in 0 .. 3 :
       (i.size = "8" => 4 * m + j < vl) =>
         /\ j + 1 \in DOMAIN w[2]
         /\ w[2][j + 1] = LoadedByte(i, m, j)

Product(i, k) ==
  MulByte(regs[Reg(i.rs1, k \div 4)], regs[Reg(i.rs2, k \div 4)], k % 4)
DotProduct(i) ==
  LET sum[k \in 0 .. vl] == IF k = 0 THEN Zero ELSE Add(sum[k - 1], Product(i, k - 1))
  IN  sum[vl]

(* Register m of the destination group after a completed instruction. *)
Result(w, i, m) ==
  CASE i.op = "vload" -> Holds(w, i, m)
    [] i.op = "vadd"  -> w = Add(regs[Reg(i.rs1, m)], regs[Reg(i.rs2, m)])
    [] i.op = "vmul"  -> w = Mul(regs[Reg(i.rs1, m)], regs[Reg(i.rs2, m)])
    [] i.op = "vmac"  -> w = DotProduct(i)
    [] i.op = "lw"    -> w = Bytes(WordBytes(Base(i, regs)))

Stores(i, n) ==
  [k \in 1 .. n |->
     <<ElemAddr(i, regs, k - 1), StoreSize(i), regs[Reg(i.rs2, k - 1)]>>]

-----------------------------------------------------------------------------

Init ==
  /\ regs = InitRegs
  /\ vl \in VLs
  /\ mem = <<>>
  /\ cur = None

Issue ==
  /\ cur = None
  /\ cur' \in Instrs
  /\ UNCHANGED <<regs, vl, mem>>

Complete ==
  /\ cur # None
  /\ \A r \in Regs \ Dest(cur, vl) : regs'[r] = regs[r]
  /\ \A m \in 0 .. DestCount(cur, vl) - 1 : Result(regs'[Reg(cur.rd, m)], cur, m)
  /\ vl' = IF cur.op = "vcsr" THEN Count(Num(regs[cur.rd])) ELSE vl
  /\ mem' = IF cur.op = "vstore" THEN mem \o Stores(cur, vl) ELSE mem
  /\ cur' = None

(* A bus error at the address; a scalar load is also cut off when it is not *)
(* aligned.                                                                 *)
Fails(i, a) == Faulty(a) \/ (i.op = "lw" /\ a % Width(i) # 0)

(* An exception at element n, the first that fails: the elements before it  *)
(* are done (a register of a byte load once all its bytes are there), the   *)
(* ones from n on are not, and the instruction is over.                     *)
Elements(i) == IF i.op = "lw" THEN 1 ELSE vl
LoadedBefore(i, m, n) == IF i.size = "8" THEN 4 * m + 3 < n ELSE m < n

Abort(n) ==
  /\ cur # None
  /\ cur.op \in {"vload", "vstore", "lw"}
  /\ n < Elements(cur)
  /\ Fails(cur, ElemAddr(cur, regs, n))
  /\ \A k \in 0 .. n - 1 : ~Fails(cur, ElemAddr(cur, regs, k))
  /\ \A r \in Regs \ Dest(cur, vl) : regs'[r] = regs[r]
  /\ \A m \in 0 .. DestCount(cur, vl) - 1 :
       IF LoadedBefore(cur, m, n)
       THEN Result(regs'[Reg(cur.rd, m)], cur, m)
       ELSE regs'[Reg(cur.rd, m)] = regs[Reg(cur.rd, m)]
  /\ mem' = IF cur.op = "vstore" THEN mem \o Stores(cur, n) ELSE mem
  /\ vl' = vl
  /\ cur' = None

Next == Issue \/ Complete \/ \E n \in Counter : Abort(n)

Spec == Init /\ [][Next]_isaVars
=============================================================================
