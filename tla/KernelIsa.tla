----------------------------- MODULE KernelIsa -----------------------------
(***************************************************************************)
(* The vector instructions as the kernels use them: what each does to the  *)
(* register file and to memory at the current vector length.  VectorIsa is  *)
(* the same contract, shown of the hardware; this is its executable form.   *)
(*                                                                          *)
(* Values are symbols.  An int8 array is never written by a kernel, so the  *)
(* byte at an address is named by the address; a 32-bit word is a loaded    *)
(* word, four bytes, a sum, a product or a bag of products.                 *)
(***************************************************************************)
EXTENDS Integers, Sequences, FiniteSets, Bags

NumRegs == 32
Regs    == 0 .. NumRegs - 1
Group(r, k) == (r + k) % NumRegs

Filler == "tail"    \* bytes of a register past the last element
FourBytes(f(_))    == <<"bytes", <<f(0), f(1), f(2), f(3)>>>>
Op(op, x, y)       == <<op, {x, y}>>     \* + and * commute
Dot(bag)           == <<"dot", bag>>
(* The bag of the n values f[0], ..., f[n-1], and of v(0), ..., v(n-1). *)
Tally(n, f) ==
  [x \in {f[k] : k \in 0 .. n - 1} |-> Cardinality({k \in 0 .. n - 1 : f[k] = x})]
BagOfValues(n, v(_)) == Tally(n, [k \in 0 .. n - 1 |-> v(k)])

ByteOf(word, b) == IF word[1] = "bytes" THEN word[2][b + 1] ELSE <<word, b>>

-----------------------------------------------------------------------------
(* A machine: registers, memory words, csr_vl and the pointers of the loop. *)

Unset == -1    \* csr_vl before the first configuration

ReadWord(m, x) == IF x \in DOMAIN m.mem THEN m.mem[x] ELSE FourBytes(LAMBDA b : x + b)

(* Registers r, r+1, ... of a group of count take the values v(0), v(1), ... *)
(* A group longer than the register file wraps: the last write stays.       *)
Into(r, count, x) == {k \in 0 .. count - 1 : Group(r, k) = x}
Last(ks) == CHOOSE k \in ks : \A l \in ks : l <= k
Write(m, r, count, v(_)) ==
  [m EXCEPT !.regs = [x \in Regs |->
     IF Into(r, count, x) = {} THEN @[x] ELSE v(Last(Into(r, count, x)))]]

(* The count words from p on take the registers r, r+1, ... of a group. *)
Stored(m, r, count, p) ==
  [x \in DOMAIN m.mem |->
     IF x \in {p + 4 * k : k \in 0 .. count - 1}
     THEN m.regs[Group(r, (x - p) \div 4)] ELSE m.mem[x]]
Store(m, r, count, p) == [m EXCEPT !.mem = Stored(m, r, count, p)]

Pair(m, i, k) ==
  {ByteOf(m.regs[Group(i.rs1, k \div 4)], k % 4), ByteOf(m.regs[Group(i.rs2, k \div 4)], k % 4)}

(* The four bytes of word k of n bytes at p, and the products of n pairs. *)
BytesAt(n, p, k) == FourBytes(LAMBDA b : IF 4 * k + b < n THEN p + 4 * k + b ELSE Filler)
Products(m, i)   == BagOfValues(m.csr, LAMBDA e : Pair(m, i, e))

Exec(m, i) ==
  LET p == IF i.op \in {"vload8", "vload32", "vload32s", "vstore32"} THEN m[i.ptr] ELSE 0
      n == m.csr
  IN  CASE i.op = "vload8"   -> Write(m, i.rd, (n + 3) \div 4, LAMBDA k : BytesAt(n, p, k))
        [] i.op = "vload32"  -> Write(m, i.rd, n, LAMBDA k : ReadWord(m, p + 4 * k))
        [] i.op = "vload32s" -> Write(m, i.rd, n, LAMBDA k : ReadWord(m, p + k * i.stride))
        [] i.op \in {"vadd", "vmul"} ->
             Write(m, i.rd, n, LAMBDA k :
               Op(i.op, m.regs[Group(i.rs1, k)], m.regs[Group(i.rs2, k)]))
        [] i.op = "vmac"     -> Write(m, i.rd, 1, LAMBDA k : Dot(Products(m, i)))
        [] i.op = "vstore32" -> Store(m, i.rs2, n, p)

-----------------------------------------------------------------------------
(* The .insn lines of the kernels. *)

VLoad8(rd, ptr)           == [op |-> "vload8", rd |-> rd, ptr |-> ptr]
VLoad32(rd, ptr)          == [op |-> "vload32", rd |-> rd, ptr |-> ptr]
VLoad32s(rd, ptr, stride) == [op |-> "vload32s", rd |-> rd, ptr |-> ptr, stride |-> stride]
VStore32(rs2, ptr)        == [op |-> "vstore32", rs2 |-> rs2, ptr |-> ptr]
VAdd(rd, rs1, rs2)        == [op |-> "vadd", rd |-> rd, rs1 |-> rs1, rs2 |-> rs2]
VMul(rd, rs1, rs2)        == [op |-> "vmul", rd |-> rd, rs1 |-> rs1, rs2 |-> rs2]
VMac(rd, rs1, rs2)        == [op |-> "vmac", rd |-> rd, rs1 |-> rs1, rs2 |-> rs2]
=============================================================================
