--------------------------- MODULE Kernels_proofs ---------------------------
(***************************************************************************)
(* Proofs about Kernels, for every call of any size.  First what a function *)
(* gives at any point of its loops (Shape, ProductIs, ElementwiseIs); then  *)
(* how a tile changes the machine (Put, ExecPuts, ExecKeeps, TileIs); then  *)
(* the invariants: Counting (types, and where the loops can be), LengthSet  *)
(* (what csr_vl holds), Sweeping (the tiles are a sweep of TileLoop) and    *)
(* Spared (the registers that no tile has written).  The second half is     *)
(* about the results: Reworked (an element-wise kernel has replaced the     *)
(* elements done, and no other word) and Summed (the accumulator is the bag *)
(* of the products of the terms before this one, and the results stored are *)
(* full sums), where the sums of the scalar functions are bags over the     *)
(* same terms, named otherwise.                                             *)
(***************************************************************************)
EXTENDS Kernels, FiniteSetTheorems, TLAPS

USE DEF MAX_VLEN_MAC, MAX_VLEN_ADD

(* What a function does that depends on the call alone.                     *)
ResultsOf(c) ==
  CASE c.fn \in ElementwiseFns \union {"tiled_inner_product"} -> 1
    [] c.fn \in MatvecFns -> c.rows
    [] c.fn = "tiled_matmul" -> c.rows * c.cols
    [] OTHER -> c.batch_size * c.out_rows * c.out_cols * c.out_channels
SegmentsOf(c) == IF c.fn = "tiled_conv" THEN c.kernel_rows * c.kernel_cols ELSE 1
LengthOf(c) ==
  CASE c.fn \in ElementwiseFns \union {"tiled_inner_product"} -> c.n
    [] c.fn \in MatvecFns -> c.cols
    [] c.fn = "tiled_matmul" -> c.red
    [] OTHER -> c.in_channels
CapOf(c) == IF c.fn \in ElementwiseFns \union {"mat_vec_mul_32_8"} THEN 8 ELSE 32
RefitOf(c) == c.fn \notin NeverRefitted \union {"mat_vec_mul_32_32", "mat_vec_mul_32_8"}
FirstOf(c) ==
  IF c.fn \in {"mat_vec_mul", "mat_vec_mul_32_32", "mat_vec_mul_32_8"} THEN c.cols ELSE CapOf(c)

Fns == ElementwiseFns \union MatvecFns \union {"tiled_matmul", "tiled_inner_product", "tiled_conv"}

(* The record a function gives, as far as it is the same in all its loops.  *)
Shape(c, h) ==
  /\ h.results = ResultsOf(c) /\ h.segments = SegmentsOf(c) /\ h.length = LengthOf(c)
  /\ h.cap = CapOf(c) /\ h.refit = RefitOf(c) /\ h.vl = FirstOf(c)

LEMMA ShapeElementwise ==
  ASSUME NEW c, NEW o, NEW s, NEW p, NEW z, c.fn \in ElementwiseFns
  PROVE  Shape(c, Function(c, o, s, p, z))
<1>1. PICK tile, stepB : Function(c, o, s, p, z) = Elementwise(c, p, tile, RefitOf(c), stepB)
  BY DEF Function, ElementwiseFns, RefitOf, NeverRefitted, tiled_inplace_elementwise_mul,
     tiled_inplace_elementwise_add, tiled_inplace_mul_scalar, tiled_inplace_add_scalar,
     inplace_point32_twise_multiplication, inplace_multiplication_vector_scalar,
     inplace_point32_twise_multiplication_32, inplace_point32_twise_add,
     inplace_point32_twise_add_scalar
<1>2. c.fn \notin MatvecFns \union {"tiled_matmul", "tiled_conv"}
  BY DEF ElementwiseFns, MatvecFns
<1>3. c.fn \notin {"mat_vec_mul", "mat_vec_mul_32_32", "mat_vec_mul_32_8"}
  BY <1>2 DEF MatvecFns
<1> QED  BY <1>1, <1>2, <1>3 DEF Shape, Elementwise, ResultsOf, SegmentsOf, LengthOf, CapOf, FirstOf

LEMMA ShapeMatvec ==
  ASSUME NEW c, NEW o, NEW s, NEW p, NEW z, c.fn \in MatvecFns
  PROVE  Shape(c, Function(c, o, s, p, z))
<1>1. c.fn \notin ElementwiseFns \union {"tiled_inner_product", "tiled_matmul", "tiled_conv"} \union NeverRefitted
  BY DEF ElementwiseFns, MatvecFns, NeverRefitted
<1>2. ResultsOf(c) = c.rows /\ SegmentsOf(c) = 1 /\ LengthOf(c) = c.cols
  BY <1>1 DEF ResultsOf, SegmentsOf, LengthOf
<1>3. CASE c.fn = "tiled_matvec_mul"
  <2>1. Function(c, o, s, p, z) = MatVec(c, p)
    BY <1>3 DEF Function, tiled_matvec_mul
  <2>2. CapOf(c) = 32 /\ FirstOf(c) = 32 /\ RefitOf(c) = TRUE
    BY <1>1, <1>3 DEF CapOf, FirstOf, RefitOf
  <2> QED  BY <1>2, <2>1, <2>2 DEF Shape, MatVec
<1>4. CASE c.fn = "mat_vec_mul"
  <2>1. Function(c, o, s, p, z) = mat_vec_mul(c, o, s, p)
    BY <1>4 DEF Function
  <2> QED  BY <1>1, <1>2, <1>4, <2>1 DEF Shape, mat_vec_mul, MatVec, CapOf, FirstOf, RefitOf
<1>5. CASE c.fn = "mat_vec_mul_32_32"
  <2>1. Function(c, o, s, p, z) = mat_vec_mul_32_32(c, o, s, p)
    BY <1>5 DEF Function
  <2> QED  BY <1>1, <1>2, <1>5, <2>1 DEF Shape, mat_vec_mul_32_32, MatVec, CapOf, FirstOf, RefitOf
<1>6. CASE c.fn = "mat_vec_mul_32_8"
  <2>1. Function(c, o, s, p, z) = mat_vec_mul_32_8(c, o, s, p)
    BY <1>6 DEF Function
  <2> QED  BY <1>1, <1>2, <1>6, <2>1 DEF Shape, mat_vec_mul_32_8, MatVec, CapOf, FirstOf, RefitOf
<1> QED  BY <1>3, <1>4, <1>5, <1>6 DEF MatvecFns

LEMMA ShapeProduct ==
  ASSUME NEW c, NEW o, NEW s, NEW p, NEW z,
         c.fn \in {"tiled_matmul", "tiled_inner_product", "tiled_conv"}
  PROVE  Shape(c, Function(c, o, s, p, z))
<1>1. c.fn \notin ElementwiseFns \union MatvecFns \union NeverRefitted
  BY DEF ElementwiseFns, MatvecFns, NeverRefitted
<1>2. c.fn \notin {"mat_vec_mul", "mat_vec_mul_32_32", "mat_vec_mul_32_8"}
  OBVIOUS
<1>3. CapOf(c) = 32 /\ FirstOf(c) = 32 /\ RefitOf(c) = TRUE
  BY <1>1, <1>2 DEF CapOf, FirstOf, RefitOf
<1>4. CASE c.fn = "tiled_matmul"
  <2>1. Function(c, o, s, p, z) = tiled_matmul(c, o, s, p)
    BY <1>4 DEF Function
  <2> QED  BY <1>1, <1>3, <1>4, <2>1
           DEF Shape, tiled_matmul, MatVec, ResultsOf, SegmentsOf, LengthOf
<1>5. CASE c.fn = "tiled_inner_product"
  <2>1. Function(c, o, s, p, z) = tiled_inner_product(c, o, s, p)
    BY <1>5 DEF Function
  <2> QED  BY <1>1, <1>3, <1>5, <2>1
           DEF Shape, tiled_inner_product, MatVec, ResultsOf, SegmentsOf, LengthOf
<1>6. CASE c.fn = "tiled_conv"
  <2>1. Function(c, o, s, p, z) = tiled_conv(c, o, s, p, z)
    BY <1>6 DEF Function
  <2> QED  BY <1>1, <1>3, <1>6, <2>1
           DEF Shape, tiled_conv, MatVec, ResultsOf, SegmentsOf, LengthOf
<1> QED  BY <1>4, <1>5, <1>6

LEMMA Shapes ==
  ASSUME NEW c \in Calls
  PROVE  /\ \A o, s, p, z : Shape(c, Function(c, o, s, p, z))
         /\ LengthOf(c) \in Positive /\ CapOf(c) \in {8, 32} /\ FirstOf(c) \in 1 .. CapOf(c)
         /\ ResultsOf(c) \in Nat /\ SegmentsOf(c) \in Nat
         /\ FirstOf(c) = CapOf(c) \/ FirstOf(c) = LengthOf(c)
         /\ ~RefitOf(c) => \E q \in 0 .. LengthOf(c) : LengthOf(c) = q * FirstOf(c)
<1>1. Conventional(c)
  BY CallsAssumption
<1>2. CASE c.fn \in ElementwiseFns
  <2>1. c.n \in Positive /\ (c.fn \in NeverRefitted => c.n % 8 = 0)
    BY <1>1, <1>2 DEF Conventional, ElementwiseFns, MatvecFns
  <2>2. /\ c.fn \notin MatvecFns \union {"tiled_matmul", "tiled_conv"}
        /\ c.fn \notin {"mat_vec_mul", "mat_vec_mul_32_32", "mat_vec_mul_32_8"}
    BY <1>2 DEF ElementwiseFns, MatvecFns
  <2>3. /\ LengthOf(c) = c.n /\ CapOf(c) = 8 /\ FirstOf(c) = 8 /\ ResultsOf(c) = 1 /\ SegmentsOf(c) = 1
        /\ ~RefitOf(c) => c.fn \in NeverRefitted
    BY <1>2, <2>2 DEF LengthOf, CapOf, FirstOf, ResultsOf, SegmentsOf, RefitOf
  <2>4. c.n % 8 = 0 => \E q \in 0 .. c.n : c.n = q * 8
    <3> SUFFICES ASSUME c.n % 8 = 0
                 PROVE  \E q \in 0 .. c.n : c.n = q * 8
      OBVIOUS
    <3>1. c.n = (c.n \div 8) * 8 /\ c.n \div 8 \in 0 .. c.n
      BY <2>1 DEF Positive
    <3> QED  BY <3>1
  <2> QED  BY <1>2, <2>1, <2>3, <2>4, ShapeElementwise
<1>3. CASE c.fn \in MatvecFns
  <2>1. c.rows \in Nat /\ c.cols \in Positive /\ RowFits(c)
    BY <1>1, <1>3 DEF Conventional, ElementwiseFns, MatvecFns
  <2>2. c.fn \notin ElementwiseFns \union {"tiled_inner_product", "tiled_matmul", "tiled_conv"} \union NeverRefitted
    BY <1>3 DEF ElementwiseFns, MatvecFns, NeverRefitted
  <2>3. LengthOf(c) = c.cols /\ ResultsOf(c) = c.rows /\ SegmentsOf(c) = 1
    BY <1>3, <2>2 DEF LengthOf, ResultsOf, SegmentsOf
  <2>4. CapOf(c) \in {8, 32} /\ FirstOf(c) \in 1 .. CapOf(c) /\ (FirstOf(c) = CapOf(c) \/ FirstOf(c) = c.cols)
    BY <1>3, <2>1, <2>2 DEF CapOf, FirstOf, RowFits, MatvecFns, Positive
  <2>5. ~RefitOf(c) => FirstOf(c) = c.cols
    BY <1>3, <2>2 DEF RefitOf, FirstOf
  <2>6. c.cols = 1 * c.cols /\ 1 \in 0 .. c.cols
    BY <2>1 DEF Positive
  <2> QED  BY <1>3, <2>1, <2>3, <2>4, <2>5, <2>6, ShapeMatvec
<1>4. CASE c.fn \in {"tiled_matmul", "tiled_inner_product", "tiled_conv"}
  <2>1. c.fn \notin ElementwiseFns \union MatvecFns \union NeverRefitted
    BY <1>4 DEF ElementwiseFns, MatvecFns, NeverRefitted
  <2>2. CapOf(c) = 32 /\ FirstOf(c) = 32 /\ RefitOf(c) = TRUE
    BY <1>4, <2>1 DEF CapOf, FirstOf, RefitOf, MatvecFns
  <2>3. LengthOf(c) \in Positive
    BY <1>1, <1>4, <2>1 DEF Conventional, LengthOf
  <2>4. ResultsOf(c) \in Nat
    <3>1. CASE c.fn = "tiled_matmul"
      <4>1. c.rows \in Nat /\ c.cols \in Nat /\ ResultsOf(c) = c.rows * c.cols
        BY <1>1, <2>1, <3>1 DEF Conventional, ResultsOf, Positive
      <4> QED  BY <4>1
    <3>2. CASE c.fn = "tiled_inner_product"
      BY <2>1, <3>2 DEF ResultsOf
    <3>3. CASE c.fn = "tiled_conv"
      <4>1. /\ c.batch_size \in Nat /\ c.out_rows \in Nat /\ c.out_cols \in Nat /\ c.out_channels \in Nat
            /\ ResultsOf(c) = c.batch_size * c.out_rows * c.out_cols * c.out_channels
        BY <1>1, <2>1, <3>3 DEF Conventional, ResultsOf, Positive
      <4>2. c.batch_size * c.out_rows \in Nat
        BY <4>1
      <4>3. c.batch_size * c.out_rows * c.out_cols \in Nat
        BY <4>1, <4>2
      <4> QED  BY <4>1, <4>3
    <3> QED  BY <1>4, <3>1, <3>2, <3>3
  <2>5. SegmentsOf(c) \in Nat
    <3>1. c.fn = "tiled_conv" => c.kernel_rows \in Nat /\ c.kernel_cols \in Nat
      BY <1>1, <2>1 DEF Conventional, Positive
    <3>2. c.fn = "tiled_conv" => c.kernel_rows * c.kernel_cols \in Nat
      BY <3>1
    <3> QED  BY <3>2 DEF SegmentsOf
  <2> QED  BY <1>4, <2>2, <2>3, <2>4, <2>5, ShapeProduct
<1> QED  BY <1>1, <1>2, <1>3, <1>4 DEF Conventional
-----------------------------------------------------------------------------
(* One sweep of the loop, over values: what the tiles keep.                 *)

(* A positive multiple is at least its factor, and the factor less is one   *)
(* again.                                                                   *)
LEMMA MultipleMinus ==
  ASSUME NEW q \in Nat, NEW v \in Nat \ {0}, q * v > 0
  PROVE  q - 1 \in Nat /\ q * v >= v /\ q * v - v = (q - 1) * v
<1>1. q > 0
  <2>1. CASE q = 0  BY <2>1
  <2> QED  BY <2>1
<1>2. q * v - v = (q - 1) * v  OBVIOUS
<1>3. (q - 1) * v >= 0  BY <1>1
<1> QED  BY <1>1, <1>2, <1>3

(* TileLoop!Inv of the values n, cap, ...: a refitted length is the cap     *)
(* until the last tile, and a length below the cap is either the whole      *)
(* array or replaced by the first refit of the next sweep.                  *)
Sweeping(n, cap, fixed, v, k) ==
  /\ n \in Nat \ {0} /\ cap \in Nat \ {0} /\ fixed \in BOOLEAN
  /\ v \in 1 .. cap /\ k \in 0 .. n
  /\ fixed => (\E q \in 0 .. n : n = q * v) /\ (\E q \in 0 .. n : n - k = q * v)
  /\ ~fixed => /\ v = cap \/ (v <= n /\ (k = 0 \/ k = n) /\ (n <= cap => v = n))
               /\ 0 < k /\ k < n => k >= cap

Fit(n, cap, fixed, v, k) == IF fixed THEN v ELSE IF k + v < n THEN cap ELSE n - k

LEMMA FirstSweep ==
  ASSUME NEW n \in Nat \ {0}, NEW cap \in Nat \ {0}, NEW fixed \in BOOLEAN, NEW v \in 1 .. cap,
         v = cap \/ (n <= cap /\ v = n),
         fixed => \E q \in 0 .. n : n = q * v
  PROVE  Sweeping(n, cap, fixed, v, n)
<1>1. n - n = 0 * v /\ 0 \in 0 .. n
  OBVIOUS
<1>2. \E q \in 0 .. n : n - n = q * v
  BY <1>1
<1> QED  BY <1>2 DEF Sweeping

LEMMA NextSweep ==
  ASSUME NEW n, NEW cap, NEW fixed, NEW v, NEW k, Sweeping(n, cap, fixed, v, k), k = n
  PROVE  Sweeping(n, cap, fixed, v, 0)
<1>1. fixed => \E q \in 0 .. n : n - 0 = q * v
  BY DEF Sweeping
<1> QED  BY <1>1 DEF Sweeping

LEMMA NextTile ==
  ASSUME NEW n, NEW cap, NEW fixed, NEW v, NEW k, NEW w,
         Sweeping(n, cap, fixed, v, k), k < n, w = Fit(n, cap, fixed, v, k)
  PROVE  /\ w \in 1 .. cap /\ k + w \in 0 .. n
         /\ Sweeping(n, cap, fixed, w, k + w)
<1>0. n \in Nat /\ cap \in Nat /\ fixed \in BOOLEAN /\ v \in 1 .. cap /\ k \in Nat /\ k < n
  BY DEF Sweeping
<1>1. CASE fixed
  <2>1. w = v
    BY <1>1 DEF Fit
  <2>2. PICK q \in 0 .. n : n - k = q * v
    BY <1>1 DEF Sweeping
  <2>3. v \in Nat \ {0} /\ q \in Nat /\ q * v > 0
    BY <1>0, <2>2
  <2>4. q - 1 \in 0 .. n /\ q * v >= v /\ n - k - v = (q - 1) * v
    BY <1>0, <2>2, <2>3, MultipleMinus
  <2>5. k + v \in 0 .. n /\ n - (k + v) = n - k - v
    BY <1>0, <2>2, <2>3, <2>4
  <2>6. \E r \in 0 .. n : n - (k + v) = r * v
    BY <2>4, <2>5
  <2>7. \E r \in 0 .. n : n = r * v
    BY <1>1 DEF Sweeping
  <2>8. w \in 1 .. cap /\ k + w \in 0 .. n /\ n \in Nat \ {0} /\ cap \in Nat \ {0}
    BY <1>0, <2>1, <2>5
  <2>9. /\ \E r \in 0 .. n : n = r * w
        /\ \E r \in 0 .. n : n - (k + w) = r * w
    BY <2>1, <2>6, <2>7
  <2> QED  BY <1>0, <1>1, <2>8, <2>9 DEF Sweeping
<1>2. CASE ~fixed
  <2>1. v = cap \/ (v <= n /\ k = 0 /\ (n <= cap => v = n))
    BY <1>0, <1>2 DEF Sweeping
  <2>2. k > 0 => k >= cap
    BY <1>0, <1>2 DEF Sweeping
  <2>3. CASE k + v < n
    <3>1. w = cap /\ k + cap <= n
      BY <1>0, <1>2, <2>1, <2>3 DEF Fit
    <3> QED  BY <1>0, <1>2, <2>1, <2>2, <2>3, <3>1 DEF Sweeping
  <2>4. CASE ~(k + v < n)
    <3>1. w = n - k /\ w \in 1 .. cap
      BY <1>0, <1>2, <2>1, <2>4 DEF Fit
    <3>2. n <= cap => (w = n \/ w = cap)
      BY <1>0, <2>2, <3>1
    <3>3. k + w = n /\ w <= n /\ ~(k + w < n)
      BY <1>0, <3>1
    <3>4. n \in Nat \ {0} /\ cap \in Nat \ {0} /\ k + w \in 0 .. n
      BY <1>0, <3>1, <3>3
    <3>5. w = cap \/ (w <= n /\ (n <= cap => w = n))
      BY <3>2, <3>3
    <3> QED  BY <1>0, <1>2, <3>1, <3>3, <3>4, <3>5 DEF Sweeping
  <2> QED  BY <2>3, <2>4
<1> QED  BY <1>0, <1>1, <1>2

-----------------------------------------------------------------------------
(* The instructions: what they leave in the registers of their group.       *)

Ops == {"vload8", "vload32", "vload32s", "vadd", "vmul", "vmac", "vstore32"}

LEMMA GroupOnce ==
  ASSUME NEW r \in Regs, NEW k \in 0 .. 31, NEW l \in 0 .. 31, Group(r, k) = Group(r, l)
  PROVE  k = l
BY DEF Regs, Group, NumRegs

(* The registers r, r + 1, ... of a group take the values of f.             *)
Put(regs, r, n, f) ==
  [x \in Regs |-> IF Into(r, n, x) = {} THEN regs[x] ELSE f[Last(Into(r, n, x))]]

(* Within 32 registers, the last element written to one is the only one. *)
LEMMA IntoOnce ==
  ASSUME NEW r \in Regs, NEW n \in 0 .. 32, NEW k \in 0 .. n - 1
  PROVE  /\ Group(r, k) \in Regs
         /\ Into(r, n, Group(r, k)) = {k} /\ Last({k}) = k
<1>1. \A l \in 0 .. n - 1 : l \in 0 .. 31
  OBVIOUS
<1>2. \A l \in 0 .. n - 1 : Group(r, l) = Group(r, k) => l = k
  BY <1>1, GroupOnce
<1>3. Into(r, n, Group(r, k)) = {k}
  BY <1>2 DEF Into
<1>4. Last({k}) = k
  <2>1. \A q \in {k} : q = k  OBVIOUS
  <2>2. k \in {k} /\ \A l \in {k} : l <= k  OBVIOUS
  <2> QED  BY <2>1, <2>2 DEF Last
<1> QED  BY <1>3, <1>4 DEF Group, Regs, NumRegs

LEMMA PutOne ==
  ASSUME NEW regs, NEW r \in Regs, NEW f
  PROVE  Put(regs, r, 1, f)[r] = f[0]
<1>1. Group(r, 0) = r
  BY DEF Group, Regs, NumRegs
<1>2. 1 \in 0 .. 32 /\ 0 \in 0 .. 1 - 1
  OBVIOUS
<1>3. Into(r, 1, r) = {0} /\ Last({0}) = 0
  BY <1>1, <1>2, IntoOnce
<1> QED  BY <1>3 DEF Put

LEMMA LastIn ==
  ASSUME NEW r \in Regs, NEW n \in 0 .. 32, NEW x, Into(r, n, x) # {}
  PROVE  Last(Into(r, n, x)) \in 0 .. n - 1
<1>1. PICK k \in 0 .. n - 1 : Group(r, k) = x
  BY DEF Into
<1>2. Into(r, n, x) = {k} /\ Last({k}) = k
  BY <1>1, IntoOnce
<1> QED  BY <1>2

(* The values an instruction gives its group, and how many. *)
Count(m, i) ==
  CASE i.op = "vload8" -> (m.csr + 3) \div 4
    [] i.op = "vmac" -> 1
    [] OTHER -> m.csr
Values(m, i) ==
  CASE i.op = "vload8"   -> [k \in 0 .. Count(m, i) - 1 |-> BytesAt(m.csr, m[i.ptr], k)]
    [] i.op = "vload32"  -> [k \in 0 .. m.csr - 1 |-> ReadWord(m, m[i.ptr] + 4 * k)]
    [] i.op = "vload32s" -> [k \in 0 .. m.csr - 1 |-> ReadWord(m, m[i.ptr] + k * i.stride)]
    [] i.op \in {"vadd", "vmul"} -> [k \in 0 .. m.csr - 1 |-> Op(i.op, m.regs[Group(i.rs1, k)], m.regs[Group(i.rs2, k)])]
    [] i.op = "vmac" -> [k \in 0 .. 0 |-> Dot(Products(m, i))]

LEMMA ExecPuts ==
  ASSUME NEW m, NEW i, i.op \in Ops \ {"vstore32"}, i.rd \in Regs, m.csr \in 0 .. 32
  PROVE  /\ Exec(m, i) = [m EXCEPT !.regs = Put(m.regs, i.rd, Count(m, i), Values(m, i))]
         /\ Count(m, i) \in 0 .. 32
<1> DEFINE last(x) == Last(Into(i.rd, Count(m, i), x))
           ptr == IF i.op \in {"vload8", "vload32", "vload32s", "vstore32"} THEN m[i.ptr] ELSE 0
           Put1(v(_)) == Exec(m, i) = [m EXCEPT !.regs = [x \in Regs |->
             IF Into(i.rd, Count(m, i), x) = {} THEN m.regs[x] ELSE v(last(x))]]
<1>0. Count(m, i) \in 0 .. 32
  BY DEF Count
<1>10. \A x \in Regs : Into(i.rd, Count(m, i), x) # {} => last(x) \in 0 .. Count(m, i) - 1
  BY <1>0, LastIn
<1>1. CASE i.op = "vload8"
  <2>1. Count(m, i) = (m.csr + 3) \div 4
    BY <1>1 DEF Count
  <2>2. Exec(m, i) = Write(m, i.rd, (m.csr + 3) \div 4, LAMBDA k : BytesAt(m.csr, ptr, k))
    BY <1>1 DEF Exec
  <2>3. Put1(LAMBDA k : BytesAt(m.csr, m[i.ptr], k))
    BY <1>1, <2>1, <2>2 DEF Write
  <2>4. Values(m, i) = [k \in 0 .. Count(m, i) - 1 |-> BytesAt(m.csr, m[i.ptr], k)]
    BY <1>1 DEF Values
  <2> HIDE DEF last
  <2> QED  BY <1>0, <1>10, <2>3, <2>4 DEF Put, last
<1>2. CASE i.op = "vload32"
  <2>1. Count(m, i) = m.csr
    BY <1>2 DEF Count
  <2>2. Exec(m, i) = Write(m, i.rd, m.csr, LAMBDA k : ReadWord(m, ptr + 4 * k))
    BY <1>2 DEF Exec
  <2>3. Put1(LAMBDA k : ReadWord(m, m[i.ptr] + 4 * k))
    BY <1>2, <2>1, <2>2 DEF Write
  <2>4. Values(m, i) = [k \in 0 .. Count(m, i) - 1 |-> ReadWord(m, m[i.ptr] + 4 * k)]
    BY <1>2, <2>1 DEF Values
  <2> QED  BY <1>0, <1>10, <2>3, <2>4 DEF Put
<1>3. CASE i.op = "vload32s"
  <2>1. Count(m, i) = m.csr
    BY <1>3 DEF Count
  <2>2. Exec(m, i) = Write(m, i.rd, m.csr, LAMBDA k : ReadWord(m, ptr + k * i.stride))
    BY <1>3 DEF Exec
  <2>3. Put1(LAMBDA k : ReadWord(m, m[i.ptr] + k * i.stride))
    BY <1>3, <2>1, <2>2 DEF Write
  <2>4. Values(m, i) = [k \in 0 .. Count(m, i) - 1 |-> ReadWord(m, m[i.ptr] + k * i.stride)]
    BY <1>3, <2>1 DEF Values
  <2> QED  BY <1>0, <1>10, <2>3, <2>4 DEF Put
<1>4. CASE i.op \in {"vadd", "vmul"}
  <2>1. Count(m, i) = m.csr
    BY <1>4 DEF Count
  <2>2. Exec(m, i) = Write(m, i.rd, m.csr, LAMBDA k : Op(i.op, m.regs[Group(i.rs1, k)], m.regs[Group(i.rs2, k)]))
    BY <1>4 DEF Exec
  <2>3. Put1(LAMBDA k : Op(i.op, m.regs[Group(i.rs1, k)], m.regs[Group(i.rs2, k)]))
    BY <1>4, <2>1, <2>2 DEF Write
  <2>4. Values(m, i) = [k \in 0 .. Count(m, i) - 1 |-> Op(i.op, m.regs[Group(i.rs1, k)], m.regs[Group(i.rs2, k)])]
    BY <1>4, <2>1 DEF Values
  <2> QED  BY <1>0, <1>10, <2>3, <2>4 DEF Put
<1>5. CASE i.op = "vmac"
  <2>1. Count(m, i) = 1
    BY <1>5 DEF Count
  <2> DEFINE sum == Dot(Products(m, i))
  <2>2. Exec(m, i) = Write(m, i.rd, 1, LAMBDA k : sum)
    BY <1>5 DEF Exec
  <2>4. Values(m, i) = [k \in 0 .. 0 |-> sum]
    BY <1>5, <2>1 DEF Values
  <2> HIDE DEF sum
  <2>3. Put1(LAMBDA k : sum)
    BY <1>5, <2>1, <2>2 DEF Write
  <2> QED  BY <1>0, <1>10, <2>1, <2>3, <2>4 DEF Put
<1> QED  BY <1>0, <1>1, <1>2, <1>3, <1>4, <1>5 DEF Ops
-----------------------------------------------------------------------------
(* What the functions do in a tile.                                         *)

MulFns ==
  {"tiled_inplace_elementwise_mul", "inplace_point32_twise_multiplication",
   "inplace_point32_twise_multiplication_32", "tiled_inplace_mul_scalar",
   "inplace_multiplication_vector_scalar"}
ScalarFns ==
  {"tiled_inplace_mul_scalar", "inplace_multiplication_vector_scalar", "tiled_inplace_add_scalar",
   "inplace_point32_twise_add_scalar"}
OpOf(c)   == IF c.fn \in MulFns THEN "vmul" ELSE "vadd"
LoadOf(c) == IF c.fn \in ScalarFns THEN VLoad32s(24, "b", 0) ELSE VLoad32(24, "b")
StepOf(c) == IF c.fn \in ScalarFns THEN 0 ELSE 4

LEMMA ElementwiseIs ==
  ASSUME NEW c, NEW o, NEW s, NEW p, NEW z, c.fn \in ElementwiseFns
  PROVE  Function(c, o, s, p, z) = Elementwise(c, p, InPlace(LoadOf(c), OpOf(c)), RefitOf(c), StepOf(c))
<1> USE DEF OpOf, LoadOf, StepOf, RefitOf, MulFns, ScalarFns, NeverRefitted, Function
<1>1. CASE c.fn = "tiled_inplace_elementwise_mul"  BY <1>1 DEF tiled_inplace_elementwise_mul
<1>2. CASE c.fn = "tiled_inplace_elementwise_add"  BY <1>2 DEF tiled_inplace_elementwise_add
<1>3. CASE c.fn = "tiled_inplace_mul_scalar"  BY <1>3 DEF tiled_inplace_mul_scalar
<1>4. CASE c.fn = "tiled_inplace_add_scalar"  BY <1>4 DEF tiled_inplace_add_scalar
<1>5. CASE c.fn = "inplace_point32_twise_multiplication"
  BY <1>5 DEF inplace_point32_twise_multiplication
<1>6. CASE c.fn = "inplace_multiplication_vector_scalar"
  BY <1>6 DEF inplace_multiplication_vector_scalar
<1>7. CASE c.fn = "inplace_point32_twise_multiplication_32"
  BY <1>7 DEF inplace_point32_twise_multiplication_32
<1>8. CASE c.fn = "inplace_point32_twise_add"  BY <1>8 DEF inplace_point32_twise_add
<1>9. CASE c.fn = "inplace_point32_twise_add_scalar"  BY <1>9 DEF inplace_point32_twise_add_scalar
<1> QED  BY <1>1, <1>2, <1>3, <1>4, <1>5, <1>6, <1>7, <1>8, <1>9 DEF ElementwiseFns

(* The groups of the two operands of a product and the register of its sum. *)
GroupB(c) == IF c.fn = "mat_vec_mul_32_8" THEN 28 ELSE 24
GroupA(c) == IF c.fn = "mat_vec_mul_32_8" THEN 30 ELSE 16
SumOf(c)  == IF c.fn = "mat_vec_mul_32_8" THEN 28 ELSE 16

(* The tile of a product: the two loads, of words or of bytes, and the sum. *)
Product(c, h, z) ==
  /\ Len(h.tile) = 3
  /\ h.tile[1].op \in {"vload8", "vload32s"} /\ h.tile[1].rd = GroupB(c)
  /\ h.tile[2].op \in {"vload8", "vload32s"} 
  /\ h.tile[2].rd = IF c.fn = "tiled_conv" /\ z THEN GroupB(c) ELSE GroupA(c)
  /\ h.tile[1].op = "vload32s" => c.fn \in {"tiled_matmul", "tiled_inner_product"} /\ ~c.unit
  /\ h.tile[2].op = "vload32s" => c.fn = "tiled_conv" /\ z # FALSE
  /\ h.tile[3] \in {VMac(SumOf(c), GroupB(c), GroupA(c)), VMac(SumOf(c), GroupA(c), GroupB(c))}
  /\ h.sum \in {"add", "replace"}
  /\ h.stepA \in {0, 1} /\ h.stepB \in {0, 1}

LEMMA ProductIs ==
  ASSUME NEW c, NEW o, NEW s, NEW p, NEW z, c.fn \in Fns \ ElementwiseFns
  PROVE  Product(c, Function(c, o, s, p, z), z)
<1> USE DEF Product, GroupA, GroupB, SumOf, Function, MatVec, Reduction, VLoad8, VLoad32s
<1>1. CASE c.fn = "tiled_matvec_mul"  BY <1>1 DEF tiled_matvec_mul
<1>2. CASE c.fn = "mat_vec_mul"  BY <1>2 DEF mat_vec_mul
<1>3. CASE c.fn = "mat_vec_mul_32_32"  BY <1>3 DEF mat_vec_mul_32_32
<1>4. CASE c.fn = "mat_vec_mul_32_8"
  <2>1. Function(c, o, s, p, z) = mat_vec_mul_32_8(c, o, s, p)
    BY <1>4
  <2>2. /\ mat_vec_mul_32_8(c, o, s, p).tile = <<VLoad8(28, "b"), VLoad8(30, "a"), VMac(28, 30, 28)>>
        /\ mat_vec_mul_32_8(c, o, s, p).sum = "replace"
        /\ mat_vec_mul_32_8(c, o, s, p).stepA = 1 /\ mat_vec_mul_32_8(c, o, s, p).stepB = 0
    BY DEF mat_vec_mul_32_8
  <2> HIDE DEF Function, MatVec
  <2> QED  BY <1>4, <2>1, <2>2
<1>5. CASE c.fn = "tiled_matmul"  BY <1>5 DEF tiled_matmul
<1>6. CASE c.fn = "tiled_inner_product"  BY <1>6 DEF tiled_inner_product
<1>7. CASE c.fn = "tiled_conv"
  <2>1. Function(c, o, s, p, z) = tiled_conv(c, o, s, p, z)
    BY <1>7
  <2> QED  BY <1>7, <2>1 DEF tiled_conv
<1> QED  BY <1>1, <1>2, <1>3, <1>4, <1>5, <1>6, <1>7 DEF Fns, MatvecFns
-----------------------------------------------------------------------------
(* A tile: its instructions one after another.                              *)

After(m, t) ==
  LET m3 == Exec(Exec(Exec(m, t[1]), t[2]), t[3])
  IN  IF Len(t) = 4 THEN Exec(m3, t[4]) ELSE m3

Advanced(m, da, db) == [m EXCEPT !.a = @ + da, !.b = @ + db]

Configured(h) == [machine EXCEPT !.csr = IF h.refit THEN Refitted(h) ELSE @]

LEMMA TileIs ==
  ASSUME Tile
  PROVE  /\ pc = "tile" /\ UNCHANGED <<call, res, zp>>
         /\ vl' = Refitted(Here) /\ j' = j + Refitted(Here)
         /\ pc' = IF j' < Here.length THEN pc ELSE "segment"
         /\ seg' = IF j' < Here.length THEN seg ELSE seg + 1
         /\ machine' = Advanced(After(Configured(Here), Here.tile),
                                Here.stepA * Refitted(Here), Here.stepB * Refitted(Here))
         /\ acc' = LET sum == PartialSum(After(Configured(Here), Here.tile), Here)
                   IN  CASE Here.sum = "add" -> acc (+) sum
                         [] Here.sum = "replace" -> sum
                         [] OTHER -> acc
BY DEF Tile, AfterTile, After, Configured, Advanced
Machine(c, m) ==
  /\ m = [regs |-> m.regs, mem |-> m.mem, csr |-> m.csr, a |-> m.a, b |-> m.b]
  /\ m.regs = [x \in Regs |-> m.regs[x]]
  /\ m.mem = [x \in Memory(c) |-> m.mem[x]]
  /\ m.csr \in Int /\ m.a \in Int /\ m.b \in Int

LEMMA StoreIs ==
  ASSUME NEW m, NEW i, i.op = "vstore32",
         NEW p, p = IF i.op \in {"vload8", "vload32", "vload32s", "vstore32"} THEN m[i.ptr] ELSE 0
  PROVE  Exec(m, i) = Store(m, i.rs2, m.csr, p)
BY Zenon DEF Exec

LEMMA ExecKeeps ==
  ASSUME NEW c, NEW m, NEW i, Machine(c, m), i.op \in Ops, m.csr \in 0 .. 32,
         i.op # "vstore32" => i.rd \in Regs
  PROVE  /\ Machine(c, Exec(m, i))
         /\ Exec(m, i).csr = m.csr /\ Exec(m, i).a = m.a /\ Exec(m, i).b = m.b
         /\ i.op # "vstore32" =>
              Exec(m, i).mem = m.mem /\ Exec(m, i).regs = Put(m.regs, i.rd, Count(m, i), Values(m, i))
         /\ i.op = "vstore32" => Exec(m, i).regs = m.regs /\ Exec(m, i).mem = Stored(m, i.rs2, m.csr, m[i.ptr])
<1>1. CASE i.op # "vstore32"
  <2>1. Exec(m, i) = [m EXCEPT !.regs = Put(m.regs, i.rd, Count(m, i), Values(m, i))]
    BY <1>1, ExecPuts
  <2>2. Put(m.regs, i.rd, Count(m, i), Values(m, i))
          = [x \in Regs |-> Put(m.regs, i.rd, Count(m, i), Values(m, i))[x]]
    BY DEF Put
  <2> QED  BY <1>1, <2>1, <2>2 DEF Machine
<1>2. CASE i.op = "vstore32"
  <2>1. Exec(m, i) = Store(m, i.rs2, m.csr, m[i.ptr])
    <3>1. m[i.ptr] = IF i.op \in {"vload8", "vload32", "vload32s", "vstore32"} THEN m[i.ptr] ELSE 0
      BY <1>2
    <3> QED  BY <1>2, <3>1, StoreIs
  <2>2. Stored(m, i.rs2, m.csr, m[i.ptr]) = [x \in DOMAIN m.mem |-> Stored(m, i.rs2, m.csr, m[i.ptr])[x]]
    BY DEF Stored
  <2> QED  BY <1>2, <2>1, <2>2 DEF Machine, Store
<1> QED  BY <1>1, <1>2

LEMMA ElementwiseKeeps ==
  ASSUME NEW c, NEW m, Machine(c, m), m.csr \in 0 .. 32
  PROVE  /\ Machine(c, After(m, InPlace(LoadOf(c), OpOf(c))))
         /\ After(m, InPlace(LoadOf(c), OpOf(c))).csr = m.csr
         /\ After(m, InPlace(LoadOf(c), OpOf(c))).a = m.a
         /\ After(m, InPlace(LoadOf(c), OpOf(c))).b = m.b
<1> DEFINE t == InPlace(LoadOf(c), OpOf(c))
<1>1. /\ Len(t) = 4
      /\ t[1].op \in Ops \ {"vstore32"} /\ t[1].rd \in Regs
      /\ t[2].op \in Ops \ {"vstore32"} /\ t[2].rd \in Regs
      /\ t[3].op \in Ops \ {"vstore32"} /\ t[3].rd \in Regs
      /\ t[4].op = "vstore32"
  BY DEF InPlace, LoadOf, OpOf, VLoad32, VLoad32s, VMul, VAdd, VStore32, Ops, Regs, NumRegs
<1> HIDE DEF t
<1>2. Machine(c, Exec(m, t[1])) /\ Exec(m, t[1]).csr = m.csr /\ Exec(m, t[1]).a = m.a /\ Exec(m, t[1]).b = m.b
  BY <1>1, ExecKeeps
<1> DEFINE m1 == Exec(m, t[1])
           m2 == Exec(m1, t[2])
           m3 == Exec(m2, t[3])
<1>3. Machine(c, m1) /\ m1.csr \in 0 .. 32 /\ m1.csr = m.csr /\ m1.a = m.a /\ m1.b = m.b
  BY <1>2
<1> HIDE DEF m1
<1>4. Machine(c, m2) /\ m2.csr \in 0 .. 32 /\ m2.csr = m.csr /\ m2.a = m.a /\ m2.b = m.b
  BY <1>1, <1>3, ExecKeeps
<1> HIDE DEF m2
<1>5. Machine(c, m3) /\ m3.csr \in 0 .. 32 /\ m3.csr = m.csr /\ m3.a = m.a /\ m3.b = m.b
  BY <1>1, <1>4, ExecKeeps
<1> HIDE DEF m3
<1>6. Machine(c, Exec(m3, t[4])) /\ Exec(m3, t[4]).csr = m.csr
      /\ Exec(m3, t[4]).a = m.a /\ Exec(m3, t[4]).b = m.b
  BY <1>1, <1>5, ExecKeeps DEF Ops
<1>7. After(m, t) = Exec(m3, t[4])
  BY <1>1 DEF After, m1, m2, m3
<1> QED  BY <1>6, <1>7 DEF t

(* Each value that is tallied counts.                                       *)
LEMMA TallyBag ==
  ASSUME NEW n \in Nat, NEW f
  PROVE  IsABag(Tally(n, f))
<1>1. ASSUME NEW k \in 0 .. n - 1
      PROVE  Cardinality({l \in 0 .. n - 1 : f[l] = f[k]}) \in Nat \ {0}
  <2> DEFINE S == {l \in 0 .. n - 1 : f[l] = f[k]}
  <2>1. IsFiniteSet(S)
    <3>1. IsFiniteSet(0 .. n - 1) /\ S \in SUBSET (0 .. n - 1)
      BY FS_Interval
    <3> QED  BY <3>1, FS_Subset
  <2>2. S # {}
    OBVIOUS
  <2> QED  BY <2>1, <2>2, FS_CardinalityType, FS_EmptySet
<1> QED  BY <1>1 DEF IsABag, Tally

LEMMA ProductKeeps ==
  ASSUME NEW c, NEW m, NEW h, NEW z, Machine(c, m), m.csr \in 0 .. 32, Product(c, h, z)
  PROVE  /\ Machine(c, After(m, h.tile))
         /\ After(m, h.tile).mem = m.mem /\ After(m, h.tile).csr = m.csr
         /\ IsABag(PartialSum(After(m, h.tile), h))
<1>1. /\ Len(h.tile) = 3
      /\ h.tile[1].op \in {"vload8", "vload32s"} /\ h.tile[1].rd \in Regs
      /\ h.tile[2].op \in {"vload8", "vload32s"} /\ h.tile[2].rd \in Regs
      /\ h.tile[3].op = "vmac" /\ h.tile[3].rd \in Regs
  BY DEF Product, GroupA, GroupB, SumOf, VMac, Regs, NumRegs
<1> DEFINE i1 == h.tile[1]
           i2 == h.tile[2]
           i3 == h.tile[3]
           m1 == Exec(m, i1)
           m2 == Exec(m1, i2)
           m3 == Exec(m2, i3)
<1> HIDE DEF i1, i2, i3, m1, m2, m3
<1>2. /\ i1.op \in Ops /\ i1.op # "vstore32" /\ i1.rd \in Regs
      /\ i2.op \in Ops /\ i2.op # "vstore32" /\ i2.rd \in Regs
      /\ i3.op \in Ops /\ i3.op # "vstore32" /\ i3.rd \in Regs
  BY <1>1 DEF Ops, i1, i2, i3
<1>3. Machine(c, m1) /\ m1.csr \in 0 .. 32 /\ m1.mem = m.mem /\ m1.csr = m.csr
  BY <1>2, ExecKeeps DEF m1
<1>4. Machine(c, m2) /\ m2.csr \in 0 .. 32 /\ m2.mem = m.mem /\ m2.csr = m.csr
  BY <1>2, <1>3, ExecKeeps DEF m2
<1>5. /\ Machine(c, m3) /\ m3.mem = m.mem /\ m3.csr = m.csr
      /\ m3.regs = Put(m2.regs, i3.rd, Count(m2, i3), Values(m2, i3))
  BY <1>2, <1>4, ExecKeeps DEF m3
<1>6. After(m, h.tile) = m3
  BY <1>1 DEF After, i1, i2, i3, m1, m2, m3
<1> DEFINE bag == Products(m2, i3)
<1>7. IsABag(bag)
  <2>1. bag = Tally(m2.csr, [k \in 0 .. m2.csr - 1 |-> Pair(m2, i3, k)])
    BY DEF BagOfValues, Products
  <2>2. m2.csr \in Nat
    BY <1>4
  <2> QED  BY <2>1, <2>2, TallyBag
<1>8. Count(m2, i3) = 1 /\ Values(m2, i3) = [k \in 0 .. 0 |-> Dot(bag)]
  BY <1>1 DEF Count, Values, i3
<1> HIDE DEF bag
<1>9. m3.regs[i3.rd] = Dot(bag)
  <2>1. i3.rd \in Regs
    BY <1>1 DEF i3
  <2>2. Put(m2.regs, i3.rd, 1, Values(m2, i3))[i3.rd] = Values(m2, i3)[0]
    BY <2>1, PutOne
  <2> QED  BY <1>5, <1>8, <2>2
<1>10. PartialSum(m3, h) = bag
  BY <1>1, <1>9 DEF PartialSum, Dot, i3
<1> QED  BY <1>5, <1>6, <1>7, <1>10
-----------------------------------------------------------------------------
(* Types, the lengths, and csr_vl.                                          *)

LEMMA Operands ==
  ASSUME NEW c \in Calls, NEW o \in Nat, NEW s \in Nat, NEW z, NEW p, p.a \in Int, p.b \in Int
  PROVE  Function(c, o, s, p, z).a \in Int /\ Function(c, o, s, p, z).b \in Int
<1>1. Conventional(c) /\ c.a \in Int /\ c.b \in Int
  BY CallsAssumption DEF Conventional
<1>2. CASE c.fn \in ElementwiseFns
  BY <1>1, <1>2, ElementwiseIs DEF Elementwise
<1>3. CASE c.fn \in MatvecFns
  <2>1. Function(c, o, s, p, z).a = p.a /\ Function(c, o, s, p, z).b = c.b
    BY <1>3 DEF Function, MatvecFns, tiled_matvec_mul, mat_vec_mul, mat_vec_mul_32_32,
       mat_vec_mul_32_8, MatVec
  <2> QED  BY <1>1, <2>1
<1>4. CASE c.fn = "tiled_matmul"
  <2>1. c.cols \in Positive /\ c.red \in Positive
    BY <1>1, <1>4 DEF Conventional, ElementwiseFns, MatvecFns
  <2>2. o \div c.cols \in Int /\ o % c.cols \in Int /\ c.red \in Int
    BY <2>1 DEF Positive
  <2>3. c.a + (o \div c.cols) * c.red \in Int /\ c.b + c.red * (o % c.cols) \in Int
        /\ c.b + (o % c.cols) \in Int
    BY <1>1, <2>2
  <2>4. Function(c, o, s, p, z) = tiled_matmul(c, o, s, p)
    BY <1>4 DEF Function
  <2> QED  BY <2>3, <2>4 DEF tiled_matmul, MatVec
<1>5. CASE c.fn = "tiled_inner_product"
  <2>1. Function(c, o, s, p, z) = tiled_inner_product(c, o, s, p)
    BY <1>5 DEF Function
  <2> QED  BY <1>1, <2>1 DEF tiled_inner_product, MatVec
<1>6. CASE c.fn = "tiled_conv"
  <2>1. /\ {c.out_rows, c.out_cols, c.out_channels, c.in_rows, c.in_cols,
            c.in_channels, c.kernel_rows, c.kernel_cols} \subseteq Nat \ {0}
        /\ c.padding \in Nat /\ c.stride \in Nat
    BY <1>1, <1>6 DEF Conventional, ElementwiseFns, MatvecFns, Positive
  <2>2. ConvRow(c, o, s) \in Int /\ ConvCol(c, o, s) \in Int
    <3>1. c.out_channels * c.out_cols \in Nat \ {0}
      BY <2>1
    <3>2. (o \div (c.out_channels * c.out_cols)) % c.out_rows \in Nat
          /\ (o \div c.out_channels) % c.out_cols \in Nat
          /\ s \div c.kernel_cols \in Nat /\ s % c.kernel_cols \in Nat
      BY <2>1, <3>1
    <3> QED  BY <2>1, <3>2 DEF ConvRow, ConvCol
  <2>3. \A row, col \in Int : ConvInput(c, o, row, col) \in Int
    <3>0. c.out_channels * c.out_cols \in Nat \ {0}
      BY <2>1
    <3>1. c.out_channels * c.out_cols * c.out_rows \in Nat \ {0}
      BY <2>1, <3>0
    <3>2. o \div (c.out_channels * c.out_cols * c.out_rows) \in Int
      BY <3>1
    <3> QED  BY <1>1, <2>1, <3>2 DEF ConvInput
  <2>4. ConvKernel(c, o, s) \in Int
    BY <1>1, <2>1 DEF ConvKernel
  <2>5. Function(c, o, s, p, z) = tiled_conv(c, o, s, p, z)
    BY <1>6 DEF Function
  <2> QED  BY <2>2, <2>3, <2>4, <2>5 DEF tiled_conv, MatVec
<1> QED  BY <1>1, <1>2, <1>3, <1>4, <1>5, <1>6 DEF Conventional

Counting ==
  /\ call \in Calls
  /\ pc \in {"enter", "result", "segment", "tile", "done"}
  /\ res \in Nat /\ seg \in Nat /\ j \in Nat
  /\ zp \in BOOLEAN
  /\ IsABag(acc)
  /\ Machine(call, machine)
  /\ Sweeping(LengthOf(call), CapOf(call), ~RefitOf(call), vl,
              IF pc = "tile" THEN j ELSE LengthOf(call))
  /\ pc = "tile" => j < LengthOf(call)

(* csr_vl is the length of the tile from the first one on; where it is      *)
(* configured once, from there on.                                          *)
LengthSet ==
  /\ j > 0 => machine.csr = vl
  /\ pc # "enter" /\ ~RefitOf(call) => machine.csr = vl

LEMMA HereIs ==
  ASSUME call \in Calls
  PROVE  Shape(call, Here)
BY Shapes DEF Here

LEMMA InitCounts == Init => Counting /\ LengthSet
<1> SUFFICES ASSUME Init PROVE Counting /\ LengthSet
  OBVIOUS
<1>1. call \in Calls /\ pc = "enter" /\ res = 0 /\ seg = 0 /\ j = 0 /\ zp = FALSE /\ acc = EmptyBag
  BY DEF Init
<1>2. IsABag(acc)
  BY <1>1 DEF EmptyBag, SetToBag, IsABag
<1>3. call.a \in Int /\ call.b \in Int
  BY <1>1, CallsAssumption DEF Conventional
<1>4. Machine(call, machine)
  BY <1>3 DEF Init, Machine, Unset
<1>5. vl = FirstOf(call)
  BY <1>1, HereIs DEF Init, Shape
<1>6. Sweeping(LengthOf(call), CapOf(call), ~RefitOf(call), vl, LengthOf(call))
  <2>1. /\ LengthOf(call) \in Nat \ {0} /\ CapOf(call) \in Nat \ {0} /\ vl \in 1 .. CapOf(call)
        /\ (~RefitOf(call)) \in BOOLEAN
        /\ vl = CapOf(call) \/ vl = LengthOf(call)
        /\ ~RefitOf(call) => \E q \in 0 .. LengthOf(call) : LengthOf(call) = q * vl
    BY <1>1, <1>5, Shapes DEF Positive
  <2>2. vl = CapOf(call) \/ (LengthOf(call) <= CapOf(call) /\ vl = LengthOf(call))
    BY <2>1
  <2> QED  BY <2>1, <2>2, FirstSweep
<1>7. LengthSet
  BY <1>1 DEF LengthSet
<1>8. Counting
  BY <1>1, <1>2, <1>4, <1>6 DEF Counting
<1> QED  BY <1>7, <1>8

LEMMA TileLength ==
  ASSUME Counting, LengthSet, Tile
  PROVE  LET w == Refitted(Here)
         IN  /\ w = Fit(LengthOf(call), CapOf(call), ~RefitOf(call), vl, j)
             /\ w \in 1 .. CapOf(call) /\ j + w \in 0 .. LengthOf(call)
             /\ Sweeping(LengthOf(call), CapOf(call), ~RefitOf(call), w, j + w)
             /\ Configured(Here).csr = w /\ w \in 1 .. 32
             /\ Machine(call, Configured(Here))
<1> DEFINE w == Refitted(Here)
<1>1. pc = "tile" /\ call \in Calls /\ j < LengthOf(call) /\ j \in Nat
      /\ Sweeping(LengthOf(call), CapOf(call), ~RefitOf(call), vl, j)
      /\ Machine(call, machine)
  BY DEF Counting, Tile
<1>2. Shape(call, Here)
  BY <1>1, HereIs
<1>3. w = Fit(LengthOf(call), CapOf(call), ~RefitOf(call), vl, j)
  BY <1>2 DEF Shape, Refitted, Fit
<1>4. /\ w \in 1 .. CapOf(call) /\ j + w \in 0 .. LengthOf(call)
      /\ Sweeping(LengthOf(call), CapOf(call), ~RefitOf(call), w, j + w)
  BY <1>1, <1>3, NextTile
<1>5. CapOf(call) \in {8, 32}
  BY <1>1, Shapes
<1>6. w \in 1 .. 32
  BY <1>4, <1>5
<1>7. ~RefitOf(call) => machine.csr = vl /\ w = vl
  BY <1>1, <1>3 DEF LengthSet, Fit
<1>8. Here.refit = RefitOf(call)
  BY <1>2 DEF Shape
<1> HIDE DEF w
<1>9. Configured(Here).csr = w /\ Machine(call, Configured(Here))
  <2>1. Configured(Here) = [machine EXCEPT !.csr = w]
    BY <1>1, <1>7, <1>8 DEF Configured, w, Machine
  <2> QED  BY <1>1, <1>6, <2>1 DEF Machine
<1> QED  BY <1>3, <1>4, <1>6, <1>9 DEF w

(* A tile leaves a machine with the length it was given; a product leaves   *)
(* memory alone and a bag in the register of its sum.                       *)
LEMMA AfterIs ==
  ASSUME NEW c \in Calls, NEW o, NEW s, NEW p, NEW z, NEW m, NEW h,
         Machine(c, m), m.csr \in 0 .. 32, h = Function(c, o, s, p, z)
  PROVE  /\ Machine(c, After(m, h.tile)) /\ After(m, h.tile).csr = m.csr
         /\ h.sum # "none" => IsABag(PartialSum(After(m, h.tile), h))
         /\ h.sum \in {"none", "add", "replace"} /\ h.stepA \in Int /\ h.stepB \in Int
<1>1. CASE c.fn \in ElementwiseFns
  <2>1. h.tile = InPlace(LoadOf(c), OpOf(c)) /\ h.sum = "none" /\ h.stepA = 4 /\ h.stepB = StepOf(c)
    BY <1>1, ElementwiseIs DEF Elementwise
  <2>2. StepOf(c) \in Int
    BY DEF StepOf
  <2> QED  BY <2>1, <2>2, ElementwiseKeeps
<1>2. CASE c.fn \notin ElementwiseFns
  <2>1. c.fn \in Fns \ ElementwiseFns
    BY <1>2, CallsAssumption DEF Fns, Conventional
  <2>2. Product(c, h, z)
    BY <2>1, ProductIs
  <2>3. h.sum \in {"add", "replace"} /\ h.stepA \in Int /\ h.stepB \in Int
    BY <2>2 DEF Product
  <2> QED  BY <2>2, <2>3, ProductKeeps
<1> QED  BY <1>1, <1>2

LEMMA SumIsBag ==
  ASSUME NEW x, NEW y, IsABag(x), IsABag(y)
  PROVE  IsABag(x (+) y)
<1>1. \A e \in DOMAIN x : x[e] \in Nat \ {0}
  BY DEF IsABag
<1>2. \A e \in DOMAIN y : y[e] \in Nat \ {0}
  BY DEF IsABag
<1> QED  BY <1>1, <1>2 DEF IsABag, (+)

LEMMA Advance ==
  ASSUME NEW c, NEW m, Machine(c, m), NEW da \in Int, NEW db \in Int,
         NEW w, w = Advanced(m, da, db)
  PROVE  /\ Machine(c, w) /\ w.csr = m.csr /\ w.regs = m.regs /\ w.mem = m.mem
         /\ w.a = m.a + da /\ w.b = m.b + db
<1>1. w = [regs |-> m.regs, mem |-> m.mem, csr |-> m.csr, a |-> m.a + da, b |-> m.b + db]
  BY DEF Machine, Advanced
<1>2. m.a + da \in Int /\ m.b + db \in Int
  BY DEF Machine
<1> QED  BY <1>1, <1>2 DEF Machine

LEMMA TileCounts ==
  ASSUME Counting, LengthSet, Tile
  PROVE  (Counting /\ LengthSet)'
<1> DEFINE w == Refitted(Here)
           m == After(Configured(Here), Here.tile)
<1>1. /\ call \in Calls /\ pc = "tile" /\ res \in Nat /\ seg \in Nat /\ j \in Nat /\ zp \in BOOLEAN
      /\ IsABag(acc) /\ Machine(call, machine)
  BY DEF Counting, Tile
<1>2. /\ w \in 1 .. CapOf(call) /\ j + w \in 0 .. LengthOf(call)
      /\ Sweeping(LengthOf(call), CapOf(call), ~RefitOf(call), w, j + w)
      /\ Configured(Here).csr = w /\ w \in 1 .. 32
      /\ Machine(call, Configured(Here))
  BY TileLength
<1>3. /\ UNCHANGED <<call, res, zp>>
      /\ vl' = w /\ j' = j + w
      /\ pc' = IF j' < Here.length THEN pc ELSE "segment"
      /\ seg' = IF j' < Here.length THEN seg ELSE seg + 1
      /\ machine' = Advanced(m, Here.stepA * w, Here.stepB * w)
      /\ acc' = CASE Here.sum = "add" -> acc (+) PartialSum(m, Here)
                  [] Here.sum = "replace" -> PartialSum(m, Here)
                  [] OTHER -> acc
  BY TileIs
<1>4. Here.length = LengthOf(call) /\ LengthOf(call) \in Nat /\ CapOf(call) \in Nat
  BY <1>1, HereIs, Shapes DEF Shape, Positive
<1>5. /\ Machine(call, m) /\ m.csr = w
      /\ Here.sum # "none" => IsABag(PartialSum(m, Here))
      /\ Here.sum \in {"none", "add", "replace"} /\ Here.stepA \in Int /\ Here.stepB \in Int
  <2>1. Configured(Here).csr \in 0 .. 32
    BY <1>2
  <2> QED  BY <1>1, <1>2, <2>1, AfterIs DEF Here
<1> HIDE DEF w, m
<1>6. IsABag(acc')
  BY <1>1, <1>3, <1>5, SumIsBag
<1>7. Machine(call, machine') /\ machine'.csr = w
  <2>1. Here.stepA * w \in Int /\ Here.stepB * w \in Int
    BY <1>2, <1>5
  <2>2. machine' = Advanced(m, Here.stepA * w, Here.stepB * w)
    BY <1>3
  <2>3. Machine(call, m) /\ m.csr = w
    BY <1>5
  <2> DEFINE da == Here.stepA * w
             db == Here.stepB * w
  <2>4. da \in Int /\ db \in Int /\ machine' = Advanced(m, da, db)
    BY <2>1, <2>2
  <2> HIDE DEF da, db
  <2>5. Machine(call, machine')
    BY <2>3, <2>4, Advance
  <2>6. machine'.csr = m.csr
    BY <2>3, <2>4, Advance
  <2> QED  BY <2>3, <2>5, <2>6
<1>8. /\ pc' \in {"segment", "tile"} /\ seg' \in Nat /\ j' \in Nat /\ res' \in Nat
      /\ pc' = "tile" => j' < LengthOf(call)
      /\ pc' # "tile" => j' = LengthOf(call)
  BY <1>1, <1>2, <1>3, <1>4
<1>9. Sweeping(LengthOf(call), CapOf(call), ~RefitOf(call), vl',
               IF pc' = "tile" THEN j' ELSE LengthOf(call))
  BY <1>2, <1>3, <1>8
<1>10. call' = call /\ zp' = zp
  BY <1>3
<1> QED  BY <1>1, <1>3, <1>6, <1>7, <1>8, <1>9, <1>10 DEF Counting, LengthSet

LEMMA EnterCounts ==
  ASSUME Counting, LengthSet, Enter
  PROVE  (Counting /\ LengthSet)'
<1>1. Shape(call, Here)
  BY HereIs DEF Counting
<1>2. machine' = [machine EXCEPT !.csr = IF Here.refit THEN machine.csr ELSE vl]
      /\ pc = "enter" /\ pc' = "result" /\ UNCHANGED <<call, res, seg, j, vl, acc, zp>>
  BY DEF Enter
<1>3. vl \in Int
  BY DEF Counting, Sweeping
<1>4. Machine(call, machine') /\ (~RefitOf(call) => machine'.csr = vl)
  BY <1>1, <1>2, <1>3 DEF Counting, Machine, Shape
<1> QED  BY <1>2, <1>4 DEF Counting, LengthSet

LEMMA ResultCounts ==
  ASSUME Counting, LengthSet, BeginResult
  PROVE  (Counting /\ LengthSet)'
<1>1. IsABag(acc')
  <2>1. IsABag(EmptyBag) /\ IsABag(SetToBag({{call.res}}))
    BY DEF EmptyBag, SetToBag, IsABag
  <2> QED  BY <2>1 DEF BeginResult
<1> QED  BY <1>1 DEF BeginResult, Counting, LengthSet

LEMMA SegmentCounts ==
  ASSUME Counting, LengthSet, BeginSegment
  PROVE  (Counting /\ LengthSet)'
<1>1. pc = "segment" /\ call \in Calls /\ res \in Nat /\ seg \in Nat /\ Machine(call, machine)
      /\ UNCHANGED <<call, res, vl, acc>>
  BY DEF Counting, BeginSegment
<1>2. zp' \in BOOLEAN
  <2>1. zp' = LoadsZeroPoint(call, res, seg, zp) /\ zp \in BOOLEAN
    BY DEF BeginSegment, Counting
  <2> QED  BY <2>1 DEF LoadsZeroPoint
<1>3. CASE Here.skip
  <2>1. seg' = seg + 1 /\ UNCHANGED <<pc, j, machine>>
    BY <1>3 DEF BeginSegment
  <2> QED  BY <1>1, <1>2, <2>1 DEF Counting, LengthSet
<1>4. CASE ~Here.skip
  <2>1. machine' = [machine EXCEPT !.a = Here.a, !.b = Here.b] /\ j' = 0 /\ pc' = "tile" /\ seg' = seg
    BY <1>4 DEF BeginSegment
  <2>2. Here.a \in Int /\ Here.b \in Int
    BY <1>1, Operands DEF Here, Machine
  <2>3. Machine(call, machine') /\ machine'.csr = machine.csr
    BY <1>1, <2>1, <2>2 DEF Machine
  <2>4. Sweeping(LengthOf(call), CapOf(call), ~RefitOf(call), vl, LengthOf(call))
    BY <1>1 DEF Counting
  <2>5. Sweeping(LengthOf(call), CapOf(call), ~RefitOf(call), vl, 0)
    BY <2>4, NextSweep
  <2>6. 0 < LengthOf(call)
    BY <2>4 DEF Sweeping
  <2> QED  BY <1>1, <1>2, <2>1, <2>3, <2>5, <2>6 DEF Counting, LengthSet
<1> QED  BY <1>3, <1>4

LEMMA EndCounts ==
  ASSUME Counting, LengthSet, EndResult
  PROVE  (Counting /\ LengthSet)'
<1>1. Machine(call, machine') /\ machine'.csr = machine.csr
  BY DEF EndResult, Counting, Machine
<1> QED  BY <1>1 DEF EndResult, Counting, LengthSet

LEMMA StepCounts == Counting /\ LengthSet /\ [Next]_vars => (Counting /\ LengthSet)'
<1> SUFFICES ASSUME Counting, LengthSet, [Next]_vars
             PROVE  (Counting /\ LengthSet)'
  OBVIOUS
<1>1. CASE Enter  BY <1>1, EnterCounts
<1>2. CASE BeginResult  BY <1>2, ResultCounts
<1>3. CASE BeginSegment  BY <1>3, SegmentCounts
<1>4. CASE Tile  BY <1>4, TileCounts
<1>5. CASE EndResult  BY <1>5, EndCounts
<1>6. CASE Return  BY <1>6 DEF Return, Counting, LengthSet
<1>7. CASE UNCHANGED vars  BY <1>7 DEF vars, Counting, LengthSet
<1> QED  BY <1>1, <1>2, <1>3, <1>4, <1>5, <1>6, <1>7 DEF Next

LEMMA CountsAlways == Spec => [](Counting /\ LengthSet)
<1> QED  BY InitCounts, StepCounts, PTL DEF Spec

(* The registers, memory and the accumulator of a kernel keep their shape:  *)
(* whatever lengths and sizes the call has.                                 *)
THEOREM TypeCorrect == Spec => []TypeOK
<1>1. Counting => TypeOK
  <2> SUFFICES ASSUME Counting PROVE TypeOK
    OBVIOUS
  <2>1. vl \in Nat
    BY DEF Counting, Sweeping
  <2>2. DOMAIN machine.regs = Regs /\ DOMAIN machine.mem = Memory(call)
        /\ machine.csr \in Int /\ machine.a \in Int /\ machine.b \in Int
    BY DEF Counting, Machine
  <2> QED  BY <2>1, <2>2 DEF Counting, TypeOK
<1> QED  BY <1>1, CountsAlways, PTL

(* For calls of every size: after every tile, csr_vl is the length that the *)
(* kernel counted the tile's elements with and that the next refit starts   *)
(* from, and it is one that the engine carries out.                         *)
THEOREM LengthConfiguredCorrect == Spec => []LengthConfigured
<1>1. Counting /\ LengthSet => LengthConfigured
  <2> SUFFICES ASSUME Counting, LengthSet, j > 0
               PROVE  machine.csr = vl /\ vl \in 1 .. Here.cap
    BY DEF LengthConfigured
  <2>1. machine.csr = vl /\ vl \in 1 .. CapOf(call)
    BY DEF Counting, LengthSet, Sweeping
  <2> QED  BY <2>1, HereIs DEF Counting, Shape
<1> QED  BY <1>1, CountsAlways, PTL
-----------------------------------------------------------------------------
(* The tiles are those of the loop, whatever is computed in them.           *)

LEMMA LoopIs ==
  ASSUME Counting
  PROVE  /\ Here.length = LengthOf(call) /\ Here.cap = CapOf(call) /\ Here.refit = RefitOf(call)
         /\ LengthOf(call) \in Nat \ {0} /\ CapOf(call) \in Nat \ {0} /\ RefitOf(call) \in BOOLEAN
<1>1. call \in Calls
  BY DEF Counting
<1> QED  BY <1>1, HereIs, Shapes DEF Shape, Positive, RefitOf

LEMMA NextHereIs ==
  ASSUME call \in Calls, call' = call
  PROVE  Shape(call, Here')
BY Shapes DEF Here

(* The parameters of the loop stay, and so does its place outside a sweep.  *)
LEMMA LoopStays ==
  ASSUME Counting, Counting', UNCHANGED <<call, vl>>, pc # "tile", pc' # "tile"
  PROVE  UNCHANGED Loop!tileVars
<1>1. /\ Here.length = LengthOf(call) /\ Here.cap = CapOf(call) /\ Here.refit = RefitOf(call)
  BY LoopIs
<1>2. /\ Here'.length = LengthOf(call) /\ Here'.cap = CapOf(call) /\ Here'.refit = RefitOf(call)
  BY NextHereIs DEF Counting, Shape
<1> QED  BY <1>1, <1>2 DEF Loop!tileVars

LEMMA LoopBegins == Init => Loop!Init
<1> SUFFICES ASSUME Init PROVE Loop!Init
  OBVIOUS
<1>1. Counting /\ pc = "enter"
  BY InitCounts DEF Init
<1>2. /\ Here.length = LengthOf(call) /\ Here.cap = CapOf(call) /\ Here.refit = RefitOf(call)
      /\ LengthOf(call) \in Nat \ {0} /\ CapOf(call) \in Nat \ {0} /\ RefitOf(call) \in BOOLEAN
  BY <1>1, LoopIs
<1>3. vl = FirstOf(call) /\ call \in Calls
  BY HereIs DEF Init, Shape
<1>4. /\ vl = CapOf(call) \/ vl = LengthOf(call)
      /\ vl \in 1 .. CapOf(call)
      /\ ~RefitOf(call) => \E q \in 0 .. LengthOf(call) : LengthOf(call) = q * vl
  BY <1>3, Shapes
<1>5. vl = CapOf(call) \/ (LengthOf(call) <= CapOf(call) /\ vl = LengthOf(call))
  BY <1>2, <1>4
<1> QED  BY <1>1, <1>2, <1>4, <1>5 DEF Loop!Init

LEMMA LoopSweeps ==
  ASSUME Counting, BeginSegment
  PROVE  [Loop!Next]_(Loop!tileVars)
<1>1. /\ pc = "segment" /\ call \in Calls /\ call' = call /\ vl' = vl
      /\ pc' \in {"segment", "tile"} /\ (pc' = "tile" => j' = 0)
  BY DEF Counting, BeginSegment
<1>2. /\ Here.length = LengthOf(call) /\ Here.cap = CapOf(call) /\ Here.refit = RefitOf(call)
      /\ Here'.length = LengthOf(call) /\ Here'.cap = CapOf(call) /\ Here'.refit = RefitOf(call)
  BY <1>1, LoopIs, NextHereIs DEF Shape
<1>3. CASE pc' = "tile"
  BY <1>1, <1>2, <1>3 DEF Loop!Next, Loop!Sweep
<1>4. CASE pc' = "segment"
  BY <1>1, <1>2, <1>4 DEF Loop!tileVars
<1> QED  BY <1>1, <1>3, <1>4

LEMMA LoopTiles ==
  ASSUME Counting, LengthSet, Tile
  PROVE  Loop!Tile
<1> DEFINE w == Fit(LengthOf(call), CapOf(call), ~RefitOf(call), vl, j)
<1>1. pc = "tile" /\ call \in Calls /\ call' = call /\ j \in Nat
  BY TileIs DEF Counting
<1>2. /\ Here.length = LengthOf(call) /\ Here.cap = CapOf(call) /\ Here.refit = RefitOf(call)
      /\ Here'.length = LengthOf(call) /\ Here'.cap = CapOf(call) /\ Here'.refit = RefitOf(call)
      /\ LengthOf(call) \in Nat
  BY <1>1, LoopIs, NextHereIs DEF Shape
<1>3. /\ w \in Nat /\ j + w <= LengthOf(call) /\ vl' = w /\ j' = j + w
      /\ pc' = IF j' < LengthOf(call) THEN "tile" ELSE "segment"
  <2>1. CapOf(call) \in {8, 32}
    BY <1>1, Shapes
  <2> QED  BY <1>1, <1>2, <2>1, TileLength, TileIs
<1>4. Loop!Refitted = w
  BY <1>1, <1>2 DEF Loop!Refitted, Fit
<1> HIDE DEF w
<1> QED  BY <1>1, <1>2, <1>3, <1>4 DEF Loop!Tile

LEMMA LoopSteps ==
  ASSUME Counting, LengthSet, [Next]_vars
  PROVE  [Loop!Next]_(Loop!tileVars)
<1>1. Counting'
  BY StepCounts
<1>2. CASE Enter
  BY <1>1, <1>2, LoopStays DEF Enter
<1>3. CASE BeginResult
  BY <1>1, <1>3, LoopStays DEF BeginResult
<1>4. CASE BeginSegment
  BY <1>4, LoopSweeps
<1>5. CASE Tile
  BY <1>5, LoopTiles DEF Loop!Next
<1>6. CASE EndResult
  BY <1>1, <1>6, LoopStays DEF EndResult
<1>7. CASE Return
  BY <1>1, <1>7, LoopStays DEF Return
<1>8. CASE UNCHANGED vars
  BY <1>8 DEF vars, Loop!tileVars, Here
<1> QED  BY <1>2, <1>3, <1>4, <1>5, <1>6, <1>7, <1>8 DEF Next

(* Every kernel, for calls of every size, goes through its operands in the  *)
(* tiles of the loop.                                                       *)
THEOREM KernelsTile == Spec => ImplementsTileLoop
<1>1. Init => Loop!Init
  BY LoopBegins
<1>2. Counting /\ LengthSet /\ [Next]_vars => [Loop!Next]_(Loop!tileVars)
  BY LoopSteps
<1> QED  BY <1>1, <1>2, CountsAlways, PTL DEF Spec, ImplementsTileLoop, Loop!Spec

(* No tile of a kernel reaches behind the operands, and the engine is only  *)
(* given lengths from 1 to what the groups hold.                            *)
THEOREM TilesInBounds == Spec => [](Loop!InBounds /\ Loop!LegalLength)
<1>1. Counting => Loop!InBounds /\ Loop!LegalLength
  <2> SUFFICES ASSUME Counting PROVE Loop!InBounds /\ Loop!LegalLength
    OBVIOUS
  <2>1. vl \in 1 .. CapOf(call) /\ LengthOf(call) \in Nat /\ (pc = "tile" => j <= LengthOf(call))
    BY DEF Counting, Sweeping
  <2> QED  BY <2>1, LoopIs DEF Loop!InBounds, Loop!LegalLength
<1> QED  BY <1>1, CountsAlways, PTL

-----------------------------------------------------------------------------
(* The loop takes each element of a sweep once.                             *)

LEMMA TileTakes ==
  ASSUME Counting, LengthSet, Tile
  PROVE  Loop!Abstract!Take
<1> DEFINE n == LengthOf(call)
           w == Refitted(Here)
           Rest == j .. n - 1
<1>1. /\ w \in 1 .. CapOf(call) /\ j + w \in 0 .. n
      /\ pc = "tile" /\ call \in Calls /\ call' = call /\ j \in Nat /\ j' = j + w
      /\ pc' = IF j' < n THEN "tile" ELSE "segment"
  BY TileLength, TileIs, LoopIs DEF Counting
<1>2. /\ Here.length = n /\ Here.cap = CapOf(call) /\ Here'.length = n /\ Here'.cap = CapOf(call)
      /\ n \in Nat /\ CapOf(call) \in Nat
  BY <1>1, LoopIs, NextHereIs DEF Shape
<1> HIDE DEF n, w
<1>3. j \in Rest /\ j + w - 1 \in Rest
  BY <1>1, <1>2
<1>4. \A x \in Rest : j <= x
  BY <1>1, <1>2
<1>5. j <= j + w - 1 /\ j + w - 1 < j + CapOf(call)
  BY <1>1, <1>2
<1>6. (IF pc' = "tile" THEN j' ELSE n) .. n - 1 = {x \in Rest : x > j + w - 1}
  BY <1>1, <1>2
<1> HIDE DEF Rest
<1>7. \E lo, hi \in Rest :
        /\ \A x \in Rest : lo <= x
        /\ lo <= hi /\ hi < lo + CapOf(call)
        /\ (IF pc' = "tile" THEN j' ELSE n) .. n - 1 = {x \in Rest : x > hi}
  BY <1>3, <1>4, <1>5, <1>6
<1> QED  BY <1>1, <1>2, <1>7 DEF Loop!Abstract!Take, Rest

LEMMA CoverSweeps ==
  ASSUME Counting, [Next]_vars, ~Tile
  PROVE  [Loop!Abstract!Next]_(Loop!Abstract!coverVars)
<1>1. call \in Calls /\ call' = call
  BY DEF Counting, Next, Enter, BeginResult, BeginSegment, EndResult, Return, vars
<1>2. /\ Here.length = LengthOf(call) /\ Here.cap = CapOf(call)
      /\ Here'.length = LengthOf(call) /\ Here'.cap = CapOf(call) /\ LengthOf(call) \in Nat
  BY <1>1, LoopIs, NextHereIs DEF Shape
<1>3. CASE UNCHANGED <<pc, j>> \/ (pc # "tile" /\ pc' # "tile")
  BY <1>2, <1>3 DEF Loop!Abstract!coverVars
<1>4. CASE pc # "tile" /\ pc' = "tile" /\ j' = 0
  <2>1. LengthOf(call) .. LengthOf(call) - 1 = {}
    BY <1>2
  <2> QED  BY <1>2, <1>4, <2>1 DEF Loop!Abstract!Next, Loop!Abstract!Sweep, Loop!Abstract!Elements
<1> QED  BY <1>3, <1>4 DEF Next, Enter, BeginResult, BeginSegment, EndResult, Return, vars

(* For calls of every size: each sweep of a kernel takes each element of    *)
(* its operands once, in order, in tiles that fit.                          *)
THEOREM KernelsCover == Spec => Loop!ImplementsCoverage
<1>1. Init => Loop!Abstract!Init
  <2> SUFFICES ASSUME Init PROVE Loop!Abstract!Init
    OBVIOUS
  <2>1. /\ Here.length = LengthOf(call) /\ Here.cap = CapOf(call) /\ pc = "enter"
        /\ LengthOf(call) \in Nat \ {0} /\ CapOf(call) \in Nat \ {0}
    BY InitCounts, LoopIs DEF Init
  <2>2. LengthOf(call) .. LengthOf(call) - 1 = {}
    BY <2>1
  <2> QED  BY <2>1, <2>2 DEF Loop!Abstract!Init
<1>2. Counting /\ LengthSet /\ [Next]_vars => [Loop!Abstract!Next]_(Loop!Abstract!coverVars)
  BY TileTakes, CoverSweeps DEF Loop!Abstract!Next
<1> QED  BY <1>1, <1>2, CountsAlways, PTL DEF Spec, Loop!ImplementsCoverage, Loop!Abstract!Spec
-----------------------------------------------------------------------------
(* The registers a kernel may overwrite.                                    *)

Declared(c) == IF c.fn = "mat_vec_mul_32_8" THEN 28 .. 31 ELSE 16 .. 31

(* Positions of a convolution never reach the padding.                      *)
NeverPadded(c) ==
  \A o \in 0 .. ResultsOf(c) - 1, s \in 0 .. SegmentsOf(c) - 1 :
    ~ConvPadded(c, ConvRow(c, o, s), ConvCol(c, o, s))

(* A strided load gives each element of int8 a register of its own: more    *)
(* than eight run over the last register into the compiler's.               *)
WordLoadsFit(c) ==
  /\ c.fn \in {"tiled_matmul", "tiled_inner_product"} => c.unit \/ LengthOf(c) <= 8
  /\ c.fn = "tiled_conv" => c.zero_point = 0 \/ LengthOf(c) <= 8 \/ NeverPadded(c)

LEMMA ExecSpares ==
  ASSUME NEW c, NEW m, NEW i, NEW r \in Regs, Machine(c, m), i.op \in Ops, m.csr \in 0 .. 32,
         i.op # "vstore32" => i.rd \in Regs /\ i.rd + Count(m, i) <= 32,
         i.op # "vstore32" => r \notin i.rd .. i.rd + Count(m, i) - 1
  PROVE  Exec(m, i).regs[r] = m.regs[r]
<1>1. CASE i.op = "vstore32"
  BY <1>1, ExecKeeps
<1>2. CASE i.op # "vstore32"
  <2>1. i.rd \in Regs /\ i.rd + Count(m, i) <= 32 /\ r \notin i.rd .. i.rd + Count(m, i) - 1
    BY <1>2
  <2>2. Count(m, i) \in 0 .. 32
    BY <1>2, <2>1, ExecPuts
  <2>4. Exec(m, i).regs = Put(m.regs, i.rd, Count(m, i), Values(m, i))
    BY <1>2, <2>1, ExecKeeps
  <2> DEFINE first == i.rd
             count == Count(m, i)
             values == Values(m, i)
             before == m.regs
  <2>5. first \in Regs /\ count \in 0 .. 32 /\ first + count <= 32
    BY <2>1, <2>2
  <2>6. r \notin first .. first + count - 1
    BY <2>1
  <2>7. Exec(m, i).regs = Put(before, first, count, values)
    BY <2>4
  <2> HIDE DEF first, count, values, before
  <2>8. ASSUME NEW k \in 0 .. count - 1
        PROVE  Group(first, k) # r
    <3>1. first + k \in 0 .. 31 /\ first + k # r
      BY <2>5, <2>6 DEF Regs, NumRegs
    <3>2. (first + k) % 32 = first + k
      BY <3>1
    <3> QED  BY <3>1, <3>2 DEF Group, NumRegs
  <2>9. Into(first, count, r) = {}
    BY <2>8 DEF Into
  <2> QED  BY <2>7, <2>9 DEF before, Put
<1> QED  BY <1>1, <1>2

LEMMA ElementwiseSpares ==
  ASSUME NEW c, NEW m, NEW r \in Regs \ 16 .. 31, Machine(c, m), m.csr \in 0 .. 8
  PROVE  After(m, InPlace(LoadOf(c), OpOf(c))).regs[r] = m.regs[r]
<1> DEFINE t == InPlace(LoadOf(c), OpOf(c))
           m1 == Exec(m, t[1])
           m2 == Exec(m1, t[2])
           m3 == Exec(m2, t[3])
<1>1. /\ Len(t) = 4
      /\ t[1].op \in {"vload32", "vload32s"} /\ t[1].rd = 24
      /\ t[2].op = "vload32" /\ t[2].rd = 16
      /\ t[3].op \in {"vadd", "vmul"} /\ t[3].rd = 16
      /\ t[4].op = "vstore32"
  BY DEF InPlace, LoadOf, OpOf, VLoad32, VLoad32s, VMul, VAdd, VStore32
<1>2. 16 \in Regs /\ 24 \in Regs
  BY DEF Regs, NumRegs
<1> HIDE DEF t, m1, m2, m3
<1>3. Machine(c, m1) /\ m1.csr = m.csr /\ m1.regs[r] = m.regs[r]
  <2>1. Count(m, t[1]) = m.csr /\ t[1].op \in Ops /\ t[1].op # "vstore32"
    BY <1>1 DEF Count, Ops
  <2>2. 24 + m.csr <= 32 /\ r \notin 24 .. 24 + m.csr - 1
    BY DEF Regs, NumRegs
  <2> QED  BY <1>1, <1>2, <2>1, <2>2, ExecKeeps, ExecSpares DEF m1
<1>4. Machine(c, m2) /\ m2.csr = m.csr /\ m2.regs[r] = m.regs[r]
  <2>1. Count(m1, t[2]) = m1.csr /\ t[2].op \in Ops /\ t[2].op # "vstore32"
    BY <1>1 DEF Count, Ops
  <2>2. m1.csr \in 0 .. 32 /\ 16 + m1.csr <= 32 /\ r \notin 16 .. 16 + m1.csr - 1
    BY <1>3 DEF Regs, NumRegs
  <2> QED  BY <1>1, <1>2, <1>3, <2>1, <2>2, ExecKeeps, ExecSpares DEF m2
<1>5. Machine(c, m3) /\ m3.csr = m.csr /\ m3.regs[r] = m.regs[r]
  <2>1. Count(m2, t[3]) = m2.csr /\ t[3].op \in Ops /\ t[3].op # "vstore32"
    BY <1>1 DEF Count, Ops
  <2>2. m2.csr \in 0 .. 32 /\ 16 + m2.csr <= 32 /\ r \notin 16 .. 16 + m2.csr - 1
    BY <1>4 DEF Regs, NumRegs
  <2> QED  BY <1>1, <1>2, <1>4, <2>1, <2>2, ExecKeeps, ExecSpares DEF m3
<1>6. Exec(m3, t[4]).regs[r] = m.regs[r]
  <2>1. m3.csr \in 0 .. 32 /\ t[4].op \in Ops
    BY <1>1, <1>5 DEF Ops
  <2> QED  BY <1>1, <1>5, <2>1, ExecKeeps
<1>7. After(m, t) = Exec(m3, t[4])
  BY <1>1 DEF After, m1, m2, m3
<1> QED  BY <1>6, <1>7 DEF t

(* A tile of one product per element whose loads stay within their group:  *)
(* a strided load and the kernel of 32-bit sums take at most 8 elements.    *)
Narrow(c, m, z) ==
  /\ m.csr \in 0 .. 32
  /\ c.fn = "mat_vec_mul_32_8" => m.csr <= 8
  /\ c.fn \in {"tiled_matmul", "tiled_inner_product"} => c.unit \/ m.csr <= 8
  /\ c.fn = "tiled_conv" => z = FALSE \/ m.csr <= 8

LEMMA ProductSpares ==
  ASSUME NEW c, NEW m, NEW h, NEW z, NEW r \in Regs \ Declared(c),
         Machine(c, m), Product(c, h, z), Narrow(c, m, z)
  PROVE  After(m, h.tile).regs[r] = m.regs[r]
<1> DEFINE i1 == h.tile[1]
           i2 == h.tile[2]
           i3 == h.tile[3]
           m1 == Exec(m, i1)
           m2 == Exec(m1, i2)
           m3 == Exec(m2, i3)
<1>1. /\ Len(h.tile) = 3
      /\ i1.op \in {"vload8", "vload32s"} /\ i1.rd = GroupB(c)
      /\ i2.op \in {"vload8", "vload32s"} /\ i2.rd \in {GroupA(c), GroupB(c)}
      /\ i3.op = "vmac" /\ i3.rd = SumOf(c)
  BY DEF Product, VMac
<1>2. /\ i1.op = "vload32s" => m.csr <= 8 /\ c.fn # "mat_vec_mul_32_8"
      /\ i2.op = "vload32s" => m.csr <= 8 /\ c.fn # "mat_vec_mul_32_8"
  BY DEF Product, Narrow
<1>3. /\ Regs = 0 .. 31 /\ m.csr \in 0 .. 32
      /\ c.fn = "mat_vec_mul_32_8" => m.csr <= 8
      /\ Declared(c) = IF c.fn = "mat_vec_mul_32_8" THEN 28 .. 31 ELSE 16 .. 31
  BY DEF Declared, Regs, NumRegs, Narrow
<1> HIDE DEF i1, i2, i3, m1, m2, m3
<1>4. Machine(c, m1) /\ m1.csr = m.csr /\ m1.regs[r] = m.regs[r]
  <2>1. i1.op \in Ops /\ i1.op # "vstore32"
    BY <1>1 DEF Ops
  <2>2. i1.rd \in Regs /\ i1.rd + Count(m, i1) <= 32 /\ r \notin i1.rd .. i1.rd + Count(m, i1) - 1
    <3>1. CASE c.fn = "mat_vec_mul_32_8"
      <4>1. Count(m, i1) = (m.csr + 3) \div 4 /\ i1.rd = 28 /\ m.csr \in 0 .. 8
        BY <1>1, <1>2, <1>3, <3>1 DEF Count, GroupB
      <4>2. Count(m, i1) \in 0 .. 2
        BY <4>1
      <4> QED  BY <1>3, <3>1, <4>1, <4>2
    <3>2. CASE c.fn # "mat_vec_mul_32_8"
      <4>1. Count(m, i1) \in 0 .. 8 /\ i1.rd = 24
        BY <1>1, <1>2, <1>3, <3>2 DEF Count, GroupB
      <4> QED  BY <1>3, <3>2, <4>1
    <3> QED  BY <3>1, <3>2
  <2> QED  BY <1>3, <2>1, <2>2, ExecKeeps, ExecSpares DEF m1
<1>5. Machine(c, m2) /\ m2.csr = m.csr /\ m2.regs[r] = m.regs[r]
  <2>1. i2.op \in Ops /\ i2.op # "vstore32"
    BY <1>1 DEF Ops
  <2>2. i2.rd \in Regs /\ i2.rd + Count(m1, i2) <= 32 /\ r \notin i2.rd .. i2.rd + Count(m1, i2) - 1
    <3>1. CASE c.fn = "mat_vec_mul_32_8"
      <4>1. Count(m1, i2) = (m.csr + 3) \div 4 /\ i2.rd \in {28, 30} /\ m.csr \in 0 .. 8
        BY <1>1, <1>2, <1>3, <1>4, <3>1 DEF Count, GroupA, GroupB
      <4>2. Count(m1, i2) \in 0 .. 2
        BY <4>1
      <4> QED  BY <1>3, <3>1, <4>1, <4>2
    <3>2. CASE c.fn # "mat_vec_mul_32_8"
      <4>1. Count(m1, i2) \in 0 .. 8 /\ i2.rd \in {16, 24}
        BY <1>1, <1>2, <1>3, <1>4, <3>2 DEF Count, GroupA, GroupB
      <4> QED  BY <1>3, <3>2, <4>1
    <3> QED  BY <3>1, <3>2
  <2> QED  BY <1>3, <1>4, <2>1, <2>2, ExecKeeps, ExecSpares DEF m2
<1>6. m3.regs[r] = m.regs[r]
  <2>1. i3.op \in Ops /\ i3.op # "vstore32"
    BY <1>1 DEF Ops
  <2>2. i3.rd \in Regs /\ i3.rd + Count(m2, i3) <= 32 /\ r \notin i3.rd .. i3.rd + Count(m2, i3) - 1
    BY <1>1, <1>3 DEF Count, SumOf
  <2> QED  BY <1>3, <1>5, <2>1, <2>2, ExecSpares DEF m3
<1>7. After(m, h.tile) = m3
  BY <1>1 DEF After, i1, i2, i3, m1, m2, m3
<1> QED  BY <1>6, <1>7

(* No result beyond the last is begun, a zero point is loaded only by a     *)
(* padded convolution, and undeclared registers hold what they held.        *)
Spared ==
  /\ pc \in {"segment", "tile"} => res < ResultsOf(call)
  /\ zp => /\ call.fn = "tiled_conv" /\ call.zero_point # 0
           /\ ~NeverPadded(call)
  /\ \A r \in Regs \ Declared(call) : machine.regs[r] = <<"reg", r>>

LEMMA TileSpares ==
  ASSUME \A c \in Calls : WordLoadsFit(c), Counting, LengthSet, Spared, Tile
  PROVE  Spared'
<1> DEFINE w == Refitted(Here)
           m == After(Configured(Here), Here.tile)
<1>1. /\ call \in Calls /\ call' = call /\ zp' = zp /\ res' = res /\ zp \in BOOLEAN
      /\ pc = "tile" /\ pc' \in {"tile", "segment"}
  BY TileIs DEF Counting
<1>2. /\ w \in 1 .. CapOf(call) /\ j + w \in 0 .. LengthOf(call) /\ w \in 1 .. 32
      /\ Machine(call, Configured(Here)) /\ Configured(Here).csr = w
      /\ j \in Nat /\ LengthOf(call) \in Nat
  BY TileLength, LoopIs DEF Counting
<1>3. w <= LengthOf(call)
  BY <1>2
<1>4. Configured(Here).regs = machine.regs
  BY DEF Configured, Counting, Machine
<1>5. /\ Machine(call, m)
      /\ Here.stepA \in Int /\ Here.stepB \in Int
  <2>1. Configured(Here).csr \in 0 .. 32
    BY <1>2
  <2> QED  BY <1>1, <1>2, <2>1, AfterIs DEF Here
<1>6. machine' = Advanced(m, Here.stepA * w, Here.stepB * w)
  BY TileIs
<1>7. ASSUME NEW r \in Regs \ Declared(call)
      PROVE  m.regs[r] = machine.regs[r]
  <2>1. CASE call.fn \in ElementwiseFns
    <3>1. Here.tile = InPlace(LoadOf(call), OpOf(call))
      BY <2>1, ElementwiseIs DEF Here, Elementwise
    <3>2. Configured(Here).csr \in 0 .. 8 /\ call.fn # "mat_vec_mul_32_8"
      BY <1>2, <2>1 DEF CapOf, ElementwiseFns
    <3>3. r \in Regs \ 16 .. 31
      BY <3>2 DEF Declared
    <3> QED  BY <1>2, <1>4, <3>1, <3>2, <3>3, ElementwiseSpares
  <2>2. CASE call.fn \notin ElementwiseFns
    <3>1. call.fn \in Fns \ ElementwiseFns
      BY <1>1, <2>2, CallsAssumption DEF Fns, Conventional
    <3>2. Product(call, Here, zp)
      BY <3>1, ProductIs DEF Here
    <3>3. WordLoadsFit(call)
      BY <1>1
    <3> DEFINE before == Configured(Here)
               h == Here
    <3>4. /\ before.csr \in 0 .. 32
          /\ call.fn = "mat_vec_mul_32_8" => before.csr <= 8
      BY <1>2 DEF CapOf
    <3>5. call.fn \in {"tiled_matmul", "tiled_inner_product"} => call.unit \/ before.csr <= 8
      BY <1>2, <1>3, <3>3 DEF WordLoadsFit
    <3>6. call.fn = "tiled_conv" => zp = FALSE \/ before.csr <= 8
      BY <1>1, <1>2, <1>3, <3>3 DEF WordLoadsFit, Spared
    <3>7. Narrow(call, before, zp)
      BY <3>4, <3>5, <3>6 DEF Narrow
    <3>10. Machine(call, before) /\ Product(call, h, zp) /\ m = After(before, h.tile)
      BY <1>2, <3>2
    <3>8. before.regs = machine.regs
      BY <1>4
    <3> HIDE DEF before, h, m
    <3>9. After(before, h.tile).regs[r] = before.regs[r]
      BY <3>7, <3>10, ProductSpares
    <3> QED  BY <3>8, <3>9, <3>10
  <2> QED  BY <2>1, <2>2
<1> HIDE DEF w, m
<1>8. machine'.regs = m.regs
  <2> DEFINE da == Here.stepA * w
             db == Here.stepB * w
  <2>1. da \in Int /\ db \in Int /\ machine' = Advanced(m, da, db)
    BY <1>2, <1>5, <1>6
  <2> HIDE DEF da, db
  <2> QED  BY <1>5, <2>1, Advance
<1> QED  BY <1>1, <1>7, <1>8 DEF Spared

LEMMA StepSpares ==
  ASSUME \A c \in Calls : WordLoadsFit(c), Counting, LengthSet, Spared, [Next]_vars
  PROVE  Spared'
<1>1. call \in Calls /\ Machine(call, machine) /\ zp \in BOOLEAN /\ res \in Nat /\ seg \in Nat
  BY DEF Counting
<1>2. Here.results = ResultsOf(call) /\ Here.segments = SegmentsOf(call)
      /\ ResultsOf(call) \in Nat /\ SegmentsOf(call) \in Nat
  BY <1>1, HereIs, Shapes DEF Shape
<1>3. CASE Enter
  BY <1>1, <1>3 DEF Enter, Spared, Machine
<1>4. CASE BeginResult
  BY <1>1, <1>2, <1>4 DEF BeginResult, Spared
<1>5. CASE BeginSegment
  <2>1. /\ call' = call /\ res' = res /\ machine'.regs = machine.regs /\ res < ResultsOf(call)
        /\ seg < SegmentsOf(call) /\ zp' = LoadsZeroPoint(call, res, seg, zp)
    BY <1>1, <1>2, <1>5 DEF BeginSegment, Spared, Machine
  <2>2. zp' => call.fn = "tiled_conv" /\ call.zero_point # 0 /\ ~NeverPadded(call)
    <3>1. CASE call.fn = "tiled_conv" /\ ConvPadded(call, ConvRow(call, res, seg), ConvCol(call, res, seg))
      <4>1. res \in 0 .. ResultsOf(call) - 1 /\ seg \in 0 .. SegmentsOf(call) - 1
        BY <1>1, <1>2, <2>1
      <4>2. ~NeverPadded(call)
        BY <3>1, <4>1 DEF NeverPadded
      <4> QED  BY <2>1, <3>1, <4>2 DEF LoadsZeroPoint
    <3>2. CASE ~(call.fn = "tiled_conv" /\ ConvPadded(call, ConvRow(call, res, seg), ConvCol(call, res, seg)))
      BY <2>1, <3>2 DEF LoadsZeroPoint, Spared
    <3> QED  BY <3>1, <3>2
  <2> QED  BY <2>1, <2>2 DEF Spared
<1>6. CASE Tile
  BY <1>6, TileSpares
<1>7. CASE EndResult
  <2>1. call' = call /\ zp' = zp /\ pc' = "result" /\ machine'.regs = machine.regs
    BY <1>1, <1>7 DEF EndResult, Machine
  <2> QED  BY <2>1 DEF Spared
<1>8. CASE Return
  BY <1>8 DEF Return, Spared
<1>9. CASE UNCHANGED vars
  BY <1>9 DEF vars, Spared
<1> QED  BY <1>3, <1>4, <1>5, <1>6, <1>7, <1>8, <1>9 DEF Next

(* A kernel overwrites only the registers that its asm statements declare,  *)
(* for calls of every size whose strided loads stay within their group.     *)
THEOREM ClobbersCorrect ==
  ASSUME \A c \in Calls : WordLoadsFit(c)
  PROVE  Spec => []ClobbersDeclared
<1>1. Init => Spared
  BY DEF Init, Spared
<1>2. Counting /\ LengthSet /\ Spared /\ [Next]_vars => Spared'
  BY StepSpares
<1>3. Spared => ClobbersDeclared
  BY DEF Spared, ClobbersDeclared, Declared
<1> QED  BY <1>1, <1>2, <1>3, CountsAlways, PTL DEF Spec
-----------------------------------------------------------------------------
(* The bag of the values that f takes on S.                                 *)
Copies(S, f, x) == {s \in S : f[s] = x}
BagOf(S, f) == [x \in {f[s] : s \in S} |-> Cardinality(Copies(S, f, x))]

LEMMA TallyIs ==
  ASSUME NEW n, NEW f
  PROVE  Tally(n, f) = BagOf(0 .. n - 1, f)
BY DEF Tally, BagOf, Copies

LEMMA CopiesFinite ==
  ASSUME NEW S, IsFiniteSet(S), NEW f, NEW x
  PROVE  /\ IsFiniteSet(Copies(S, f, x)) /\ Cardinality(Copies(S, f, x)) \in Nat
         /\ x \notin {f[s] : s \in S} => Cardinality(Copies(S, f, x)) = 0
<1>1. IsFiniteSet(Copies(S, f, x))
  <2>1. Copies(S, f, x) \in SUBSET S
    BY DEF Copies
  <2> QED  BY <2>1, FS_Subset
<1>2. x \notin {f[s] : s \in S} => Copies(S, f, x) = {}
  BY DEF Copies
<1> QED  BY <1>1, <1>2, FS_CardinalityType, FS_EmptySet

(* The values of two disjoint sets of indices are counted separately.       *)
LEMMA BagOfUnion ==
  ASSUME NEW S, NEW T, NEW f, IsFiniteSet(S), IsFiniteSet(T), S \cap T = {}
  PROVE  BagOf(S \union T, f) = BagOf(S, f) (+) BagOf(T, f)
<1> DEFINE B == BagOf(S, f)
           C == BagOf(T, f)
           U == BagOf(S \union T, f)
<1>1. DOMAIN U = DOMAIN B \union DOMAIN C
  BY DEF BagOf
<1>2. ASSUME NEW x \in DOMAIN U
      PROVE  U[x] = (IF x \in DOMAIN B THEN B[x] ELSE 0) + (IF x \in DOMAIN C THEN C[x] ELSE 0)
  <2> DEFINE P == Copies(S, f, x)
             Q == Copies(T, f, x)
  <2>1. Copies(S \union T, f, x) = P \union Q /\ P \cap Q = {}
    BY DEF Copies
  <2>2. /\ IsFiniteSet(P) /\ Cardinality(P) \in Nat
        /\ x \notin {f[s] : s \in S} => Cardinality(P) = 0
    BY CopiesFinite
  <2>3. /\ IsFiniteSet(Q) /\ Cardinality(Q) \in Nat
        /\ x \notin {f[s] : s \in T} => Cardinality(Q) = 0
    BY CopiesFinite
  <2>4. U[x] = Cardinality(Copies(S \union T, f, x))
    BY DEF BagOf
  <2>5. (IF x \in DOMAIN B THEN B[x] ELSE 0) = Cardinality(P)
    BY <2>2 DEF BagOf
  <2>6. (IF x \in DOMAIN C THEN C[x] ELSE 0) = Cardinality(Q)
    BY <2>3 DEF BagOf
  <2> HIDE DEF P, Q, U, B, C
  <2>7. Cardinality(P \union Q) = Cardinality(P) + Cardinality(Q)
    <3>1. Cardinality(P \union Q) = Cardinality(P) + Cardinality(Q) - Cardinality(P \cap Q)
      BY <2>2, <2>3, FS_Union
    <3>2. Cardinality(P \cap Q) = 0
      BY <2>1, FS_EmptySet
    <3> QED  BY <2>2, <2>3, <3>1, <3>2
  <2> QED  BY <2>1, <2>4, <2>5, <2>6, <2>7
<1>3. U = [x \in DOMAIN U |-> U[x]]
  BY DEF BagOf
<1> HIDE DEF U, B, C
<1>4. U = [x \in DOMAIN B \union DOMAIN C |->
             (IF x \in DOMAIN B THEN B[x] ELSE 0) + (IF x \in DOMAIN C THEN C[x] ELSE 0)]
  BY <1>1, <1>2, <1>3
<1>5. U = B (+) C
  BY <1>4 DEF (+)
<1> QED  BY <1>5 DEF U, B, C

LEMMA BagOfNone ==
  ASSUME NEW f
  PROVE  BagOf({}, f) = EmptyBag
<1>1. {f[s] : s \in {}} = {}
  OBVIOUS
<1>2. BagOf({}, f) = [x \in {} |-> Cardinality(Copies({}, f, x))]
  BY <1>1 DEF BagOf
<1> QED  BY <1>2 DEF EmptyBag, SetToBag

(* Renaming the indices leaves the bag.                                     *)
Renames(h, S, T, f, g) ==
  /\ \A s \in S : h[s] \in T /\ f[s] = g[h[s]]
  /\ \A s, t \in S : h[s] = h[t] => s = t
  /\ \A t \in T : \E s \in S : h[s] = t

LEMMA BagOfRenamed ==
  ASSUME NEW S, NEW T, NEW f, NEW g, NEW h, IsFiniteSet(S), Renames(h, S, T, f, g)
  PROVE  BagOf(S, f) = BagOf(T, g)
<1>0. /\ \A s \in S : h[s] \in T /\ f[s] = g[h[s]]
      /\ \A s, t \in S : h[s] = h[t] => s = t
      /\ \A t \in T : \E s \in S : h[s] = t
  BY DEF Renames
<1>1. {f[s] : s \in S} = {g[t] : t \in T}
  BY <1>0
<1>2. ASSUME NEW x
      PROVE  Cardinality(Copies(S, f, x)) = Cardinality(Copies(T, g, x))
  <2> DEFINE P == Copies(S, f, x)
             Q == Copies(T, g, x)
             b == [s \in P |-> h[s]]
  <2>1. b \in [P -> Q]
    BY <1>0 DEF Copies
  <2>2. \A s, t \in P : b[s] = b[t] => s = t
    BY <1>0 DEF Copies
  <2>3. \A q \in Q : \E p \in P : b[p] = q
    BY <1>0 DEF Copies
  <2>4. IsFiniteSet(P)
    BY CopiesFinite
  <2> HIDE DEF P, Q, b
  <2>5. b \in Bijection(P, Q)
    BY <2>1, <2>2, <2>3 DEF Bijection, Injection, Surjection, IsInjective
  <2>6. ExistsBijection(P, Q)
    BY <2>5 DEF ExistsBijection
  <2> QED  BY <2>4, <2>6, FS_Bijection DEF P, Q
<1> QED  BY <1>1, <1>2 DEF BagOf
-----------------------------------------------------------------------------
(* A tile of an element-wise kernel, by element.                            *)

LEMMA Apart ==
  ASSUME NEW k \in 0 .. 7, NEW l \in 0 .. 7
  PROVE  Group(16, l) # Group(24, k) /\ Group(16, l) \in Regs /\ Group(24, k) \in Regs
BY DEF Group, Regs, NumRegs

LEMMA PutAt ==
  ASSUME NEW regs, NEW r \in Regs, NEW n \in 0 .. 32, NEW f, NEW k \in 0 .. n - 1
  PROVE  Put(regs, r, n, f)[Group(r, k)] = f[k]
<1>1. Group(r, k) \in Regs /\ Into(r, n, Group(r, k)) = {k} /\ Last({k}) = k
  BY IntoOnce
<1>2. Into(r, n, Group(r, k)) # {} /\ Last(Into(r, n, Group(r, k))) = k
  BY <1>1
<1> QED  BY <1>1, <1>2 DEF Put

LEMMA PutElsewhere ==
  ASSUME NEW regs, NEW r, NEW n, NEW f, NEW x \in Regs, \A k \in 0 .. n - 1 : Group(r, k) # x
  PROVE  Put(regs, r, n, f)[x] = regs[x]
BY DEF Put, Into

(* The registers w are regs with n values of f put at r.                   *)
Took(w, regs, r, n, f) == w = Put(regs, r, n, f) /\ r \in Regs /\ n \in 0 .. 32

LEMMA TookIs ==
  ASSUME NEW regs, NEW r, NEW n, NEW f, NEW w, Took(w, regs, r, n, f)
  PROVE  /\ \A k \in 0 .. n - 1 : w[Group(r, k)] = f[k]
         /\ \A x \in Regs : (\A k \in 0 .. n - 1 : Group(r, k) # x) => w[x] = regs[x]
<1>1. w = Put(regs, r, n, f) /\ r \in Regs /\ n \in 0 .. 32
  BY DEF Took
<1>2. ASSUME NEW k \in 0 .. n - 1
      PROVE  w[Group(r, k)] = f[k]
  BY <1>1, PutAt
<1>3. ASSUME NEW x \in Regs, \A k \in 0 .. n - 1 : Group(r, k) # x
      PROVE  w[x] = regs[x]
  BY <1>1, <1>3, PutElsewhere
<1> QED  BY <1>2, <1>3

LEMMA ReadIs ==
  ASSUME NEW c, NEW m, NEW x, Machine(c, m), x \in Memory(c)
  PROVE  ReadWord(m, x) = m.mem[x]
BY DEF ReadWord, Machine

LEMMA FetchB ==
  ASSUME NEW c, NEW m, NEW i, Machine(c, m), m.csr \in 0 .. 8, i = LoadOf(c),
         NEW k \in 0 .. m.csr - 1, m.b + StepOf(c) * k \in Memory(c)
  PROVE  Values(m, i)[k] = m.mem[m.b + StepOf(c) * k]
<1>1. m.b \in Int /\ m.csr \in Int
  BY DEF Machine
<1>2. CASE c.fn \in ScalarFns
  <2>1. i.op = "vload32s" /\ m[i.ptr] = m.b /\ i.stride = 0
    BY <1>2 DEF LoadOf, VLoad32s
  <2>2. Values(m, i)[k] = ReadWord(m, m[i.ptr] + k * i.stride)
    BY <2>1 DEF Values
  <2>3. m[i.ptr] + k * i.stride = m.b + StepOf(c) * k
    BY <1>1, <1>2, <2>1 DEF StepOf
  <2> QED  BY <2>2, <2>3, ReadIs
<1>3. CASE c.fn \notin ScalarFns
  <2>1. i.op = "vload32" /\ m[i.ptr] = m.b
    BY <1>3 DEF LoadOf, VLoad32
  <2>2. Values(m, i)[k] = ReadWord(m, m[i.ptr] + 4 * k)
    BY <2>1 DEF Values
  <2>3. m[i.ptr] + 4 * k = m.b + StepOf(c) * k
    BY <1>1, <1>3, <2>1 DEF StepOf
  <2> QED  BY <2>2, <2>3, ReadIs
<1> QED  BY <1>2, <1>3

LEMMA FetchA ==
  ASSUME NEW c, NEW m, NEW i, Machine(c, m), m.csr \in 0 .. 8, i = VLoad32(16, "a"),
         NEW k \in 0 .. m.csr - 1, m.a + 4 * k \in Memory(c)
  PROVE  Values(m, i)[k] = m.mem[m.a + 4 * k]
<1>1. i.op = "vload32" /\ m[i.ptr] = m.a
  BY DEF VLoad32
<1>2. Values(m, i)[k] = ReadWord(m, m[i.ptr] + 4 * k)
  BY <1>1 DEF Values
<1> QED  BY <1>1, <1>2, ReadIs

LEMMA Computed ==
  ASSUME NEW c, NEW m, NEW i, m.csr \in 0 .. 8,
         i = IF OpOf(c) = "vmul" THEN VMul(16, 24, 16) ELSE VAdd(16, 24, 16),
         NEW k \in 0 .. m.csr - 1
  PROVE  Values(m, i)[k] = Op(OpOf(c), m.regs[Group(24, k)], m.regs[Group(16, k)])
<1>1. i.op = OpOf(c) /\ i.op \in {"vadd", "vmul"} /\ i.rs1 = 24 /\ i.rs2 = 16
  BY DEF OpOf, VMul, VAdd
<1> HIDE DEF Op
<1> QED  BY <1>1 DEF Values

(* Where a tile can find the words it loads.                                *)
Reachable(c, m) ==
  \A k \in 0 .. m.csr - 1 : m.a + 4 * k \in Memory(c) /\ m.b + StepOf(c) * k \in Memory(c)

LEMMA ElementwiseTile ==
  ASSUME NEW c, NEW m, Machine(c, m), m.csr \in 0 .. 8, Reachable(c, m)
  PROVE  LET mem == After(m, InPlace(LoadOf(c), OpOf(c))).mem
         IN  /\ \A k \in 0 .. m.csr - 1 :
                  mem[m.a + 4 * k] = Op(OpOf(c), m.mem[m.b + StepOf(c) * k], m.mem[m.a + 4 * k])
             /\ \A x \in Memory(c) : (\A k \in 0 .. m.csr - 1 : x # m.a + 4 * k) => mem[x] = m.mem[x]
<1> DEFINE t == InPlace(LoadOf(c), OpOf(c))
           i1 == LoadOf(c)
           i2 == VLoad32(16, "a")
           i3 == IF OpOf(c) = "vmul" THEN VMul(16, 24, 16) ELSE VAdd(16, 24, 16)
           i4 == VStore32(16, "a")
           n  == m.csr
           m1 == Exec(m, i1)
           m2 == Exec(m1, i2)
           m3 == Exec(m2, i3)
           m4 == Exec(m3, i4)
<1>1. After(m, t) = m4
  <2>1. Len(t) = 4 /\ t[1] = i1 /\ t[2] = i2 /\ t[3] = i3 /\ t[4] = i4
    BY DEF InPlace
  <2> HIDE DEF t, i1, i2, i3, i4
  <2> QED  BY <2>1 DEF After, m1, m2, m3, m4
<1>2. /\ i1.op \in {"vload32", "vload32s"} /\ i1.rd = 24
      /\ i2.op = "vload32" /\ i2.rd = 16
      /\ i3.op \in {"vadd", "vmul"} /\ i3.rd = 16
      /\ i4.op = "vstore32" /\ i4.rs2 = 16 /\ i4.ptr = "a"
      /\ 16 \in Regs /\ 24 \in Regs /\ n \in 0 .. 32
  BY DEF LoadOf, VLoad32, VLoad32s, VMul, VAdd, VStore32, Regs, NumRegs
<1>3. /\ Machine(c, m1) /\ m1.csr = n /\ m1.a = m.a /\ m1.b = m.b /\ m1.mem = m.mem
      /\ m1.regs = Put(m.regs, 24, n, Values(m, i1))
  <2> HIDE DEF i1
  <2>1. Count(m, i1) = n /\ i1.op \in Ops /\ i1.op # "vstore32"
    BY <1>2 DEF Count, Ops
  <2> QED  BY <1>2, <2>1, ExecKeeps
<1> HIDE DEF m1
<1>4. /\ Machine(c, m2) /\ m2.csr = n /\ m2.a = m.a /\ m2.mem = m.mem
      /\ m2.regs = Put(m1.regs, 16, n, Values(m1, i2))
  <2> HIDE DEF i2
  <2>1. Count(m1, i2) = n /\ i2.op \in Ops /\ i2.op # "vstore32"
    BY <1>2, <1>3 DEF Count, Ops
  <2> QED  BY <1>2, <1>3, <2>1, ExecKeeps
<1> HIDE DEF m2
<1>5. /\ Machine(c, m3) /\ m3.csr = n /\ m3.a = m.a /\ m3.mem = m.mem
      /\ m3.regs = Put(m2.regs, 16, n, Values(m2, i3))
  <2> HIDE DEF i3
  <2>1. Count(m2, i3) = n /\ i3.op \in Ops /\ i3.op # "vstore32"
    BY <1>2, <1>4 DEF Count, Ops
  <2> QED  BY <1>2, <1>4, <2>1, ExecKeeps
<1> HIDE DEF m3
<1>6. m4.mem = Stored(m3, 16, n, m.a)
  <2> HIDE DEF i4
  <2>1. i4.op \in Ops /\ m3[i4.ptr] = m.a
    BY <1>2, <1>5 DEF Ops
  <2> QED  BY <1>2, <1>5, <2>1, ExecKeeps
<1> HIDE DEF m4
<1> HIDE DEF n, i1, i2, i3
<1>7. ASSUME NEW k \in 0 .. n - 1
      PROVE  m3.regs[Group(16, k)] = Op(OpOf(c), m.mem[m.b + StepOf(c) * k], m.mem[m.a + 4 * k])
  <2>1. k \in 0 .. 7 /\ \A l \in 0 .. n - 1 : l \in 0 .. 7
    BY DEF n
  <2>2. m1.regs[Group(24, k)] = m.mem[m.b + StepOf(c) * k]
    <3>1. Took(m1.regs, m.regs, 24, n, Values(m, i1))
      BY <1>2, <1>3 DEF Took
    <3>2. m1.regs[Group(24, k)] = Values(m, i1)[k]
      BY <3>1, TookIs
    <3>3. m.b + StepOf(c) * k \in Memory(c)
      BY DEF Reachable, n
    <3> QED  BY <3>2, <3>3, FetchB DEF n, i1
  <2>3. /\ m2.regs[Group(24, k)] = m1.regs[Group(24, k)]
        /\ m2.regs[Group(16, k)] = m.mem[m.a + 4 * k]
    <3>1. Took(m2.regs, m1.regs, 16, n, Values(m1, i2))
      BY <1>2, <1>4 DEF Took
    <3>2. Group(24, k) \in Regs /\ \A l \in 0 .. n - 1 : Group(16, l) # Group(24, k)
      BY <2>1, Apart
    <3>3. /\ m2.regs[Group(24, k)] = m1.regs[Group(24, k)]
          /\ m2.regs[Group(16, k)] = Values(m1, i2)[k]
      BY <3>1, <3>2, TookIs
    <3>4. m1.a + 4 * k \in Memory(c) /\ k \in 0 .. m1.csr - 1 /\ m1.csr \in 0 .. 8
      BY <1>3 DEF Reachable, n
    <3> QED  BY <1>3, <3>3, <3>4, FetchA DEF i2
  <2>4. m3.regs[Group(16, k)] = Values(m2, i3)[k]
    <3>1. Took(m3.regs, m2.regs, 16, n, Values(m2, i3))
      BY <1>2, <1>5 DEF Took
    <3> QED  BY <3>1, TookIs
  <2>6. Values(m2, i3)[k] = Op(OpOf(c), m2.regs[Group(24, k)], m2.regs[Group(16, k)])
    BY <1>4, Computed DEF n, i3
  <2> QED  BY <2>2, <2>3, <2>4, <2>6
<1>11. n \in Nat
  BY DEF n
<1>8. m.a \in Int /\ m3.mem = [x \in Memory(c) |-> m3.mem[x]] /\ DOMAIN m3.mem = Memory(c)
  BY <1>5 DEF Machine
<1>9. ASSUME NEW k \in 0 .. n - 1
      PROVE  m4.mem[m.a + 4 * k] = m3.regs[Group(16, k)]
  <2>1. m.a + 4 * k \in Memory(c)
    BY DEF Reachable, n
  <2>2. ((m.a + 4 * k) - m.a) \div 4 = k
    BY <1>8, <1>11
  <2>3. m.a + 4 * k \in {m.a + 4 * l : l \in 0 .. n - 1}
    OBVIOUS
  <2> QED  BY <1>6, <1>8, <2>1, <2>2, <2>3 DEF Stored
<1>10. ASSUME NEW x \in Memory(c), \A k \in 0 .. n - 1 : x # m.a + 4 * k
       PROVE  m4.mem[x] = m.mem[x]
  BY <1>5, <1>6, <1>8, <1>10 DEF Stored
<1> QED  BY <1>1, <1>7, <1>9, <1>10 DEF t, n
-----------------------------------------------------------------------------
(* What an element-wise kernel has done to memory.                          *)

(* The operands are words of memory, and none is read after it has been     *)
(* overwritten by the result of an earlier element.                         *)
OperandsStand(c) ==
  /\ \A i \in 0 .. c.n - 1 : c.a + 4 * i \in Memory(c) /\ c.b + StepOf(c) * i \in Memory(c)
  /\ \A i, k \in 0 .. c.n - 1 : c.b + StepOf(c) * i = c.a + 4 * k => i <= k

(* The first d words of the result are in place, the rest is as it was.     *)
Replaced(c, mem, d) ==
  /\ \A i \in 0 .. c.n - 1 :
       mem[c.a + 4 * i] = IF i < d THEN Scalar(c, i) ELSE Initial(c.a + 4 * i)
  /\ \A x \in Memory(c) : (\A i \in 0 .. c.n - 1 : x # c.a + 4 * i) => mem[x] = Initial(x)

LEMMA ScalarIs ==
  ASSUME NEW c, NEW i \in Int, c.fn \in ElementwiseFns, c.a \in Int, c.b \in Int
  PROVE  Scalar(c, i) = Op(OpOf(c), Initial(c.b + StepOf(c) * i), Initial(c.a + 4 * i))
<1> USE DEF Scalar, Op, OpOf, StepOf, MulFns, ScalarFns, elementwise_mul_cpu, elementwise_add_cpu,
            scalar_multiplication, scalar_add
<1>0. c.b + 0 * i = c.b
  OBVIOUS
<1>1. CASE c.fn = "tiled_inplace_elementwise_mul"  BY <1>1
<1>2. CASE c.fn = "tiled_inplace_elementwise_add"  BY <1>2
<1>3. CASE c.fn = "tiled_inplace_mul_scalar"  BY <1>0, <1>3
<1>4. CASE c.fn = "tiled_inplace_add_scalar"  BY <1>0, <1>4
<1>5. CASE c.fn = "inplace_point32_twise_multiplication"  BY <1>5
<1>6. CASE c.fn = "inplace_multiplication_vector_scalar"  BY <1>0, <1>6
<1>7. CASE c.fn = "inplace_point32_twise_multiplication_32"  BY <1>7
<1>8. CASE c.fn = "inplace_point32_twise_add"  BY <1>8
<1>9. CASE c.fn = "inplace_point32_twise_add_scalar"  BY <1>0, <1>9
<1> QED  BY <1>1, <1>2, <1>3, <1>4, <1>5, <1>6, <1>7, <1>8, <1>9 DEF ElementwiseFns

LEMMA TileReplaces ==
  ASSUME NEW c, NEW m, NEW d \in Nat,
         c.fn \in ElementwiseFns, c.n \in Positive, c.a \in Int, c.b \in Int, OperandsStand(c),
         Machine(c, m), m.csr \in 1 .. 8, d + m.csr <= c.n,
         m.a = c.a + 4 * d, m.b = c.b + StepOf(c) * d, Replaced(c, m.mem, d)
  PROVE  Replaced(c, After(m, InPlace(LoadOf(c), OpOf(c))).mem, d + m.csr)
<1> DEFINE w == m.csr
           mem == After(m, InPlace(LoadOf(c), OpOf(c))).mem
<1>0. w \in 1 .. 8 /\ w \in 0 .. 8 /\ c.n \in Nat /\ StepOf(c) \in {0, 4}
  BY DEF Positive, StepOf
<1>1. ASSUME NEW k \in 0 .. w - 1
      PROVE  /\ d + k \in 0 .. c.n - 1
             /\ m.a + 4 * k = c.a + 4 * (d + k)
             /\ m.b + StepOf(c) * k = c.b + StepOf(c) * (d + k)
  BY <1>0
<1>2. Reachable(c, m)
  BY <1>1 DEF Reachable, OperandsStand
<1>3. /\ \A k \in 0 .. w - 1 :
           mem[m.a + 4 * k] = Op(OpOf(c), m.mem[m.b + StepOf(c) * k], m.mem[m.a + 4 * k])
      /\ \A x \in Memory(c) : (\A k \in 0 .. w - 1 : x # m.a + 4 * k) => mem[x] = m.mem[x]
  BY <1>0, <1>2, ElementwiseTile
<1> HIDE DEF mem, w
<1>4. ASSUME NEW i \in 0 .. c.n - 1
      PROVE  mem[c.a + 4 * i] = IF i < d + w THEN Scalar(c, i) ELSE Initial(c.a + 4 * i)
  <2>1. CASE i \in d .. d + w - 1
    <3>1. i - d \in 0 .. w - 1 /\ d + (i - d) = i
      BY <1>0, <2>1
    <3>2. mem[c.a + 4 * i] = Op(OpOf(c), m.mem[c.b + StepOf(c) * i], m.mem[c.a + 4 * i])
      BY <1>1, <1>3, <3>1
    <3>3. m.mem[c.a + 4 * i] = Initial(c.a + 4 * i)
      BY <1>0, <2>1 DEF Replaced
    <3>4. m.mem[c.b + StepOf(c) * i] = Initial(c.b + StepOf(c) * i)
      <4> DEFINE x == c.b + StepOf(c) * i
      <4>1. x \in Memory(c)
        BY DEF OperandsStand
      <4>2. CASE \E k \in 0 .. c.n - 1 : x = c.a + 4 * k
        <5>1. PICK k \in 0 .. c.n - 1 : x = c.a + 4 * k
          BY <4>2
        <5>2. i <= k
          BY <5>1 DEF OperandsStand
        <5>3. ~(k < d)
          BY <1>0, <2>1, <5>2
        <5> QED  BY <5>1, <5>3 DEF Replaced
      <4>3. CASE ~ \E k \in 0 .. c.n - 1 : x = c.a + 4 * k
        BY <4>1, <4>3 DEF Replaced
      <4> QED  BY <4>2, <4>3
    <3>5. i < d + w /\ i \in Int
      BY <1>0, <2>1
    <3> QED  BY <3>2, <3>3, <3>4, <3>5, ScalarIs
  <2>2. CASE i \notin d .. d + w - 1
    <3>1. \A k \in 0 .. w - 1 : c.a + 4 * i # m.a + 4 * k
      <4> SUFFICES ASSUME NEW k \in 0 .. w - 1, c.a + 4 * i = m.a + 4 * k
                   PROVE  FALSE
        OBVIOUS
      <4>1. i = d + k
        BY <1>0, <1>1
      <4> QED  BY <1>0, <2>2, <4>1
    <3>2. c.a + 4 * i \in Memory(c)
      BY DEF OperandsStand
    <3>3. mem[c.a + 4 * i] = m.mem[c.a + 4 * i]
      BY <1>3, <3>1, <3>2
    <3>4. i < d + w <=> i < d
      BY <1>0, <2>2
    <3> QED  BY <3>3, <3>4 DEF Replaced
  <2> QED  BY <2>1, <2>2
<1>5. ASSUME NEW x \in Memory(c), \A i \in 0 .. c.n - 1 : x # c.a + 4 * i
      PROVE  mem[x] = Initial(x)
  <2>1. \A k \in 0 .. w - 1 : x # m.a + 4 * k
    BY <1>1, <1>5
  <2> QED  BY <1>3, <1>5, <2>1 DEF Replaced
<1> QED  BY <1>4, <1>5 DEF Replaced, mem, w
-----------------------------------------------------------------------------
(* How many elements of an element-wise call are done.                      *)
Done ==
  IF pc = "tile" THEN j
  ELSE IF pc = "enter" \/ (pc = "result" /\ res = 0) \/ (pc = "segment" /\ seg = 0) THEN 0
  ELSE call.n

Reworked ==
  /\ pc \in {"enter", "segment", "tile"} => res = 0
  /\ pc = "result" => res \in {0, 1}
  /\ pc = "segment" => seg \in {0, 1}
  /\ pc = "tile" => /\ seg = 0
                    /\ machine.a = call.a + 4 * j /\ machine.b = call.b + StepOf(call) * j
  /\ Replaced(call, machine.mem, Done)

LEMMA ElementwiseHere ==
  ASSUME call.fn \in ElementwiseFns
  PROVE  /\ Here.results = 1 /\ Here.segments = 1 /\ Here.length = call.n /\ ~Here.skip
         /\ Here.a = call.a /\ Here.b = call.b /\ Here.stepA = 4 /\ Here.stepB = StepOf(call)
         /\ Here.tile = InPlace(LoadOf(call), OpOf(call)) /\ Here.sum = "none" /\ ~Here.stored
BY ElementwiseIs DEF Here, Elementwise

LEMMA ElementwiseCall ==
  ASSUME call \in Calls, call.fn \in ElementwiseFns
  PROVE  /\ call.n \in Positive /\ call.a \in Int /\ call.b \in Int
         /\ LengthOf(call) = call.n /\ CapOf(call) = 8
BY CallsAssumption DEF Conventional, ElementwiseFns, MatvecFns, LengthOf, CapOf

LEMMA InitReworks ==
  ASSUME Init, call.fn \in ElementwiseFns, OperandsStand(call)
  PROVE  Reworked
<1>1. call \in Calls /\ pc = "enter" /\ res = 0 /\ machine.mem = [x \in Memory(call) |-> Initial(x)]
  BY DEF Init, Initial
<1>2. Done = 0
  BY <1>1 DEF Done
<1>3. Replaced(call, machine.mem, 0)
  BY <1>1 DEF Replaced, OperandsStand
<1> QED  BY <1>1, <1>2, <1>3 DEF Reworked

LEMMA TileReworks ==
  ASSUME Counting, LengthSet, Reworked, Tile, call.fn \in ElementwiseFns, OperandsStand(call)
  PROVE  Reworked'
<1> DEFINE w == Refitted(Here)
           m == Configured(Here)
           t == Here.tile
<1>1. /\ call \in Calls /\ call' = call /\ res' = res
      /\ pc = "tile" /\ j' = j + w
      /\ pc' = IF j' < Here.length THEN pc ELSE "segment"
      /\ seg' = IF j' < Here.length THEN seg ELSE seg + 1
      /\ machine' = Advanced(After(m, t), Here.stepA * w, Here.stepB * w)
  BY TileIs DEF Counting
<1>2. /\ w \in 1 .. CapOf(call) /\ j + w \in 0 .. LengthOf(call)
      /\ m.csr = w /\ Machine(call, m)
  BY TileLength
<1>3. /\ call.n \in Positive /\ call.a \in Int /\ call.b \in Int
      /\ LengthOf(call) = call.n /\ CapOf(call) = 8
  BY <1>1, ElementwiseCall
<1>4. /\ Here.length = call.n /\ Here.stepA = 4 /\ Here.stepB = StepOf(call)
      /\ t = InPlace(LoadOf(call), OpOf(call))
  BY ElementwiseHere
<1>5. /\ res = 0 /\ seg = 0 /\ j \in Nat
      /\ machine.a = call.a + 4 * j /\ machine.b = call.b + StepOf(call) * j
      /\ Replaced(call, machine.mem, j)
  BY <1>1 DEF Counting, Reworked, Done
<1>6. m.a = machine.a /\ m.b = machine.b /\ m.mem = machine.mem
  BY DEF Configured, Counting, Machine
<1>7. Machine(call, After(m, t))
  <2>1. m.csr \in 0 .. 32
    BY <1>2, <1>3
  <2> HIDE DEF m
  <2> QED  BY <1>2, <1>4, <2>1, ElementwiseKeeps
<1>10. After(m, t).a = m.a /\ After(m, t).b = m.b
  <2>1. m.csr \in 0 .. 32
    BY <1>2, <1>3
  <2> HIDE DEF m
  <2> QED  BY <1>2, <1>4, <2>1, ElementwiseKeeps
<1>8. Replaced(call, After(m, t).mem, j + w)
  <2>1. m.csr \in 1 .. 8 /\ j + m.csr <= call.n
    BY <1>2, <1>3, <1>5
  <2>2. m.a = call.a + 4 * j /\ m.b = call.b + StepOf(call) * j /\ Replaced(call, m.mem, j)
    BY <1>5, <1>6
  <2> HIDE DEF m, w
  <2> QED  BY <1>2, <1>3, <1>4, <1>5, <2>1, <2>2, TileReplaces
<1> HIDE DEF w, m, t
<1>9. /\ machine'.mem = After(m, t).mem
      /\ machine'.a = call.a + 4 * (j + w) /\ machine'.b = call.b + StepOf(call) * (j + w)
  <2> DEFINE da == Here.stepA * w
             db == Here.stepB * w
             n == After(m, t)
  <2>1. da = 4 * w /\ db = StepOf(call) * w /\ w \in Int /\ StepOf(call) \in {0, 4}
    BY <1>2, <1>3, <1>4 DEF StepOf
  <2>2. da \in Int /\ db \in Int /\ machine' = Advanced(n, da, db) /\ Machine(call, n)
    BY <1>1, <1>7, <2>1
  <2> HIDE DEF da, db, n
  <2>3. machine'.mem = n.mem /\ machine'.a = n.a + da /\ machine'.b = n.b + db
    BY <2>2, Advance
  <2>4. n.a = call.a + 4 * j /\ n.b = call.b + StepOf(call) * j
    BY <1>5, <1>6, <1>10 DEF n
  <2>5. n.a + da = call.a + 4 * (j + w) /\ n.b + db = call.b + StepOf(call) * (j + w)
    BY <1>3, <1>5, <2>1, <2>4
  <2> QED  BY <2>3, <2>5 DEF n
<1>11. Done' = j + w
  BY <1>1, <1>2, <1>3, <1>4, <1>5 DEF Done, Positive
<1>12. pc' \in {"tile", "segment"} /\ (pc' = "segment" => seg' = 1) /\ (pc' = "tile" => seg' = 0)
  BY <1>1, <1>5
<1> QED  BY <1>1, <1>5, <1>8, <1>9, <1>11, <1>12 DEF Reworked

LEMMA StepReworks ==
  ASSUME Counting, LengthSet, Reworked, [Next]_vars, call.fn \in ElementwiseFns, OperandsStand(call)
  PROVE  Reworked'
<1>1. call \in Calls /\ Machine(call, machine) /\ res \in Nat /\ seg \in Nat /\ j \in Nat
  BY DEF Counting
<1>2. /\ Here.results = 1 /\ Here.segments = 1 /\ ~Here.skip /\ ~Here.stored
      /\ Here.a = call.a /\ Here.b = call.b
  BY ElementwiseHere
<1>3. CASE Enter
  <2>1. /\ pc = "enter" /\ pc' = "result" /\ UNCHANGED <<call, res, seg, j>> /\ machine'.mem = machine.mem
    BY <1>1, <1>3 DEF Enter, Machine
  <2> QED  BY <2>1 DEF Reworked, Done
<1>4. CASE BeginResult
  BY <1>1, <1>2, <1>4 DEF BeginResult, Reworked, Done
<1>5. CASE BeginSegment
  <2>1. /\ pc = "segment" /\ seg = 0 /\ UNCHANGED <<call, res, seg>>
        /\ pc' = "tile" /\ j' = 0
        /\ machine'.mem = machine.mem /\ machine'.a = call.a /\ machine'.b = call.b
    <3>1. /\ pc = "segment" /\ seg < 1 /\ UNCHANGED <<call, res>> /\ UNCHANGED seg
          /\ pc' = "tile" /\ j' = 0
          /\ machine' = [machine EXCEPT !.a = call.a, !.b = call.b]
      BY <1>2, <1>5 DEF BeginSegment
    <3> QED  BY <1>1, <3>1 DEF Machine
  <2>2. call.a + 4 * 0 = call.a /\ call.b + StepOf(call) * 0 = call.b
    BY <1>1, ElementwiseCall DEF StepOf
  <2>3. Done = 0 /\ Done' = 0
    BY <2>1 DEF Done
  <2> QED  BY <2>1, <2>2, <2>3 DEF Reworked
<1>6. CASE Tile
  BY <1>6, TileReworks
<1>7. CASE EndResult
  <2>1. pc = "segment" /\ seg = 1 /\ res = 0 /\ res' = 1 /\ pc' = "result" /\ UNCHANGED <<call, seg, j, machine>>
    BY <1>2, <1>7 DEF EndResult, Reworked
  <2>2. Done = call.n /\ Done' = call.n
    BY <2>1 DEF Done
  <2> QED  BY <2>1, <2>2 DEF Reworked
<1>8. CASE Return
  <2>1. pc = "result" /\ res = 1 /\ pc' = "done" /\ UNCHANGED <<call, res, seg, j, machine>>
    BY <1>2, <1>8 DEF Return
  <2>2. Done = call.n /\ Done' = call.n
    BY <2>1 DEF Done
  <2> QED  BY <2>1, <2>2 DEF Reworked
<1>9. CASE UNCHANGED vars
  BY <1>9 DEF vars, Reworked, Done
<1> QED  BY <1>3, <1>4, <1>5, <1>6, <1>7, <1>8, <1>9 DEF Next

LEMMA ReworkedIsScalar ==
  ASSUME Counting, Reworked, pc = "done", call.fn \in ElementwiseFns, OperandsStand(call)
  PROVE  machine.mem = Expected(LAMBDA i : Scalar(call, i))
<1>1. /\ machine.mem = [x \in Memory(call) |-> machine.mem[x]]
      /\ call \in Calls /\ Replaced(call, machine.mem, call.n)
  BY DEF Counting, Machine, Reworked, Done
<1>2. call.a \in Int /\ call.n \in Nat
  BY <1>1, ElementwiseCall DEF Positive
<1> DEFINE words == {call.a + 4 * i : i \in 0 .. call.n - 1}
<1>3. Expected(LAMBDA i : Scalar(call, i)) =
        [x \in Memory(call) |-> IF x \in words THEN Scalar(call, (x - call.a) \div 4) ELSE Initial(x)]
  BY ElementwiseHere DEF Expected
<1>4. ASSUME NEW x \in Memory(call)
      PROVE  machine.mem[x] = IF x \in words THEN Scalar(call, (x - call.a) \div 4) ELSE Initial(x)
  <2>1. CASE x \in words
    <3>1. PICK i \in 0 .. call.n - 1 : x = call.a + 4 * i
      BY <2>1
    <3>2. (x - call.a) \div 4 = i /\ i < call.n
      BY <1>2, <3>1
    <3> QED  BY <1>1, <2>1, <3>1, <3>2 DEF Replaced
  <2>2. CASE x \notin words
    BY <1>1, <2>2 DEF Replaced
  <2> QED  BY <2>1, <2>2
<1> QED  BY <1>1, <1>3, <1>4
-----------------------------------------------------------------------------
(* A tile of products, by element.                                          *)

LEMMA Quarters ==
  ASSUME NEW e \in Nat
  PROVE  e = 4 * (e \div 4) + (e % 4) /\ e % 4 \in 0 .. 3 /\ e \div 4 \in Nat
OBVIOUS

LEMMA ByteAt ==
  ASSUME NEW n \in Nat, NEW p \in Int, NEW e \in 0 .. n - 1
  PROVE  ByteOf(BytesAt(n, p, e \div 4), e % 4) = p + e
<1>1. e = 4 * (e \div 4) + (e % 4) /\ e % 4 \in 0 .. 3 /\ e \div 4 \in Nat
  <2>1. e \in Nat
    OBVIOUS
  <2> QED  BY <2>1, Quarters
<1> DEFINE q == e \div 4
           b == e % 4
<1>2. BytesAt(n, p, q)[1] = "bytes" /\ BytesAt(n, p, q)[2][b + 1] = IF 4 * q + b < n THEN p + 4 * q + b ELSE Filler
  <2>1. b \in 0 .. 3
    BY <1>1
  <2> HIDE DEF q, b
  <2>2. CASE b = 0  BY <2>2 DEF BytesAt, FourBytes
  <2>3. CASE b = 1  BY <2>3 DEF BytesAt, FourBytes
  <2>4. CASE b = 2  BY <2>4 DEF BytesAt, FourBytes
  <2>5. CASE b = 3  BY <2>5 DEF BytesAt, FourBytes
  <2> QED  BY <2>1, <2>2, <2>3, <2>4, <2>5
<1>3. 4 * q + b < n /\ p + 4 * q + b = p + e
  BY <1>1
<1> HIDE DEF q, b
<1>4. ByteOf(BytesAt(n, p, q), b) = p + e
  BY <1>2, <1>3 DEF ByteOf
<1> QED  BY <1>4 DEF q, b

(* Both operands are loaded as bytes, the first from b, the second from a. *)
Plain(c, h) ==
  \E i3 \in {VMac(SumOf(c), GroupB(c), GroupA(c)), VMac(SumOf(c), GroupA(c), GroupB(c))} :
    h.tile = <<VLoad8(GroupB(c), "b"), VLoad8(GroupA(c), "a"), i3>>

LEMMA GroupsApart ==
  ASSUME NEW c, NEW n \in 1 .. 32, c.fn = "mat_vec_mul_32_8" => n <= 8
  PROVE  /\ (n + 3) \div 4 \in 0 .. 32
         /\ GroupA(c) \in Regs /\ GroupB(c) \in Regs /\ SumOf(c) \in Regs
         /\ \A k, l \in 0 .. (n + 3) \div 4 - 1 :
              Group(GroupA(c), l) # Group(GroupB(c), k) /\ Group(GroupB(c), k) \in Regs
<1>1. CASE c.fn = "mat_vec_mul_32_8"
  <2>1. (n + 3) \div 4 \in 0 .. 2 /\ GroupA(c) = 30 /\ GroupB(c) = 28 /\ SumOf(c) = 28
    BY <1>1 DEF GroupA, GroupB, SumOf
  <2>2. \A k \in 0 .. (n + 3) \div 4 - 1 : k \in {0, 1}
    BY <2>1
  <2> QED  BY <2>1, <2>2 DEF Group, Regs, NumRegs
<1>2. CASE c.fn # "mat_vec_mul_32_8"
  <2>1. (n + 3) \div 4 \in 0 .. 8 /\ GroupA(c) = 16 /\ GroupB(c) = 24 /\ SumOf(c) = 16
    BY <1>2 DEF GroupA, GroupB, SumOf
  <2>2. \A k \in 0 .. (n + 3) \div 4 - 1 : k \in 0 .. 7
    BY <2>1
  <2> QED  BY <2>1, <2>2, Apart DEF Regs, NumRegs
<1> QED  BY <1>1, <1>2

(* The words of n bytes at x. *)
Loaded(n, x) == [k \in 0 .. (n + 3) \div 4 - 1 |-> BytesAt(n, x, k)]

LEMMA LoadsBytes ==
  ASSUME NEW c, NEW m, NEW r \in Regs, NEW p, Machine(c, m), m.csr \in 1 .. 32
  PROVE  LET w == Exec(m, VLoad8(r, p))
         IN  /\ Machine(c, w) /\ w.csr = m.csr /\ w.a = m.a /\ w.b = m.b
             /\ Took(w.regs, m.regs, r, (m.csr + 3) \div 4, Loaded(m.csr, m[p]))
<1> DEFINE i == VLoad8(r, p)
<1>1. i.op = "vload8" /\ i.rd = r /\ i.ptr = p
  BY DEF VLoad8
<1> HIDE DEF i
<1>2. Count(m, i) = (m.csr + 3) \div 4 /\ (m.csr + 3) \div 4 \in 0 .. 32
  BY <1>1 DEF Count
<1>3. Values(m, i) = Loaded(m.csr, m[p])
  BY <1>1, <1>2 DEF Values, Loaded
<1>4. /\ Machine(c, Exec(m, i)) /\ Exec(m, i).csr = m.csr /\ Exec(m, i).a = m.a /\ Exec(m, i).b = m.b
      /\ Exec(m, i).regs = Put(m.regs, i.rd, Count(m, i), Values(m, i))
  <2>1. i.op \in Ops /\ i.op # "vstore32" /\ m.csr \in 0 .. 32
    BY <1>1 DEF Ops
  <2> QED  BY <1>1, <2>1, ExecKeeps
<1> QED  BY <1>1, <1>2, <1>3, <1>4 DEF Took, i

(* The products of n bytes from a and from b on. *)
TileProducts(n, a, b) == Tally(n, [e \in 0 .. n - 1 |-> {a + e, b + e}])

LEMMA ProductSum ==
  ASSUME NEW c, NEW m, NEW h, Machine(c, m), Plain(c, h), m.csr \in 1 .. 32,
         c.fn = "mat_vec_mul_32_8" => m.csr <= 8
  PROVE  /\ PartialSum(After(m, h.tile), h) = TileProducts(m.csr, m.a, m.b)
         /\ After(m, h.tile).a = m.a /\ After(m, h.tile).b = m.b
<1> DEFINE n  == m.csr
           q  == (n + 3) \div 4
           ga == GroupA(c)
           gb == GroupB(c)
           i1 == VLoad8(gb, "b")
           i2 == VLoad8(ga, "a")
<1>1. PICK i3 \in {VMac(SumOf(c), gb, ga), VMac(SumOf(c), ga, gb)} : h.tile = <<i1, i2, i3>>
  BY DEF Plain
<1> DEFINE m1 == Exec(m, i1)
           m2 == Exec(m1, i2)
           m3 == Exec(m2, i3)
<1>2. After(m, h.tile) = m3
  <2>1. Len(h.tile) = 3 /\ h.tile[1] = i1 /\ h.tile[2] = i2 /\ h.tile[3] = i3
    BY <1>1
  <2> HIDE DEF i1, i2
  <2> QED  BY <2>1 DEF After
<1>3. /\ q \in 0 .. 32 /\ n \in 1 .. 32
      /\ ga \in Regs /\ gb \in Regs /\ SumOf(c) \in Regs
      /\ \A k, l \in 0 .. q - 1 : Group(ga, l) # Group(gb, k) /\ Group(gb, k) \in Regs
  BY GroupsApart
<1>4. m["a"] = m.a /\ m["b"] = m.b /\ m1["a"] = m1.a
  OBVIOUS
<1>5. /\ Machine(c, m1) /\ m1.csr = n /\ m1.a = m.a /\ m1.b = m.b
      /\ Took(m1.regs, m.regs, gb, q, Loaded(n, m.b))
  <2> HIDE DEF ga, gb
  <2> QED  BY <1>3, <1>4, LoadsBytes
<1>6. /\ Machine(c, m2) /\ m2.csr = n /\ m2.a = m.a /\ m2.b = m.b
      /\ Took(m2.regs, m1.regs, ga, q, Loaded(n, m.a))
  <2> DEFINE w == Exec(m1, VLoad8(ga, "a"))
  <2>1. Machine(c, m1) /\ m1.csr \in 1 .. 32 /\ ga \in Regs
    BY <1>3, <1>5
  <2> HIDE DEF ga, m1, w
  <2>2. /\ Machine(c, w) /\ w.csr = m1.csr /\ w.a = m1.a /\ w.b = m1.b
        /\ Took(w.regs, m1.regs, ga, (m1.csr + 3) \div 4, Loaded(m1.csr, m1["a"]))
    BY <2>1, LoadsBytes DEF w
  <2>3. m1.csr = n /\ m1["a"] = m.a
    BY <1>4, <1>5
  <2> QED  BY <1>5, <2>2, <2>3 DEF w
<1> HIDE DEF m1, m2
<1>7. ASSUME NEW e \in 0 .. n - 1
      PROVE  Pair(m2, i3, e) = {m.a + e, m.b + e}
  <2>1. e \div 4 \in 0 .. q - 1
    BY <1>3
  <2>2. m.a \in Int /\ m.b \in Int /\ n \in Nat
    BY DEF Machine
  <2> DEFINE k == e \div 4
  <2>3. m2.regs[Group(ga, k)] = BytesAt(n, m.a, k)
    <3>1. m2.regs[Group(ga, k)] = Loaded(n, m.a)[k]
      <4> HIDE DEF q, ga
      <4> QED  BY <1>6, <2>1, TookIs
    <3> QED  BY <2>1, <3>1 DEF Loaded
  <2>4. m2.regs[Group(gb, k)] = BytesAt(n, m.b, k)
    <3>1. m1.regs[Group(gb, k)] = Loaded(n, m.b)[k]
      <4> HIDE DEF q, gb
      <4> QED  BY <1>5, <2>1, TookIs
    <3>2. m2.regs[Group(gb, k)] = m1.regs[Group(gb, k)]
      <4>1. Group(gb, k) \in Regs /\ \A l \in 0 .. q - 1 : Group(ga, l) # Group(gb, k)
        BY <1>3, <2>1
      <4> HIDE DEF k, q, ga, gb
      <4> QED  BY <1>6, <4>1, TookIs
    <3> QED  BY <2>1, <3>1, <3>2 DEF Loaded
  <2>5. ByteOf(m2.regs[Group(ga, k)], e % 4) = m.a + e
        /\ ByteOf(m2.regs[Group(gb, k)], e % 4) = m.b + e
    BY <2>2, <2>3, <2>4, ByteAt
  <2>6. \/ i3.rs1 = gb /\ i3.rs2 = ga
        \/ i3.rs1 = ga /\ i3.rs2 = gb
    BY DEF VMac
  <2> QED  BY <2>5, <2>6 DEF Pair
<1>8. i3.op = "vmac" /\ i3.rd = SumOf(c)
  BY DEF VMac
<1> DEFINE bag == Tally(n, [e \in 0 .. n - 1 |-> {m.a + e, m.b + e}])
<1>9. Products(m2, i3) = bag
  <2>1. [e \in 0 .. n - 1 |-> Pair(m2, i3, e)] = [e \in 0 .. n - 1 |-> {m.a + e, m.b + e}]
    BY <1>7
  <2>2. Products(m2, i3) = Tally(n, [e \in 0 .. n - 1 |-> Pair(m2, i3, e)])
    BY <1>6 DEF Products, BagOfValues
  <2> QED  BY <2>1, <2>2
<1> HIDE DEF bag, n, q, ga, gb
<1> DEFINE values == Values(m2, i3)
<1>10. Count(m2, i3) = 1 /\ values[0] = Dot(bag)
  BY <1>8, <1>9 DEF Count, Values
<1>11. /\ m3.a = m.a /\ m3.b = m.b
       /\ m3.regs = Put(m2.regs, SumOf(c), 1, values)
  <2>1. i3.op \in Ops /\ i3.op # "vstore32" /\ m2.csr \in 0 .. 32
    BY <1>3, <1>6, <1>8 DEF Ops
  <2> QED  BY <1>3, <1>6, <1>8, <1>10, <2>1, ExecKeeps
<1>12. m3.regs[SumOf(c)] = Dot(bag)
  BY <1>3, <1>10, <1>11, PutOne
<1> HIDE DEF m3
<1>13. PartialSum(m3, h) = bag
  <2>1. Len(h.tile) = 3 /\ h.tile[3] = i3
    BY <1>1
  <2> HIDE DEF i1, i2
  <2> QED  BY <1>8, <1>12, <2>1 DEF PartialSum, Dot
<1> QED  BY <1>2, <1>11, <1>13 DEF bag, n, TileProducts
-----------------------------------------------------------------------------
(* The products of a result.  A term is a segment and an element of it.     *)

StoredFns == MatvecFns \union {"tiled_matmul", "tiled_conv"}

(* int8 operands: B is transposed, and no zero point is loaded.             *)
BytesOnly(c) ==
  /\ c.fn = "tiled_matmul" => c.unit
  /\ c.fn = "tiled_conv" => c.zero_point = 0 \/ NeverPadded(c)

Skipped(c, o, s) == c.fn = "tiled_conv" /\ ConvPadded(c, ConvRow(c, o, s), ConvCol(c, o, s))
StartA(c, o, s) ==
  CASE c.fn = "tiled_matmul" -> c.a + (o \div c.cols) * c.red
    [] c.fn = "tiled_conv" -> ConvInput(c, o, ConvRow(c, o, s), ConvCol(c, o, s))
    [] OTHER -> c.a + o * c.cols
StartB(c, o, s) ==
  CASE c.fn = "tiled_matmul" -> c.b + c.red * (o % c.cols)
    [] c.fn = "tiled_conv" -> ConvKernel(c, o, s)
    [] OTHER -> c.b

Terms(c) == (0 .. SegmentsOf(c) - 1) \X (0 .. LengthOf(c) - 1)
Factors(c, o) == [t \in Terms(c) |-> {StartA(c, o, t[1]) + t[2], StartB(c, o, t[1]) + t[2]}]
(* The terms before element k of segment s. *)
Before(c, o, s, k) ==
  {t \in Terms(c) : ~Skipped(c, o, t[1]) /\ (t[1] < s \/ (t[1] = s /\ t[2] < k))}
Sum(c, o, s, k) == BagOf(Before(c, o, s, k), Factors(c, o))

LEMMA StoredIs ==
  ASSUME NEW c, NEW o, NEW s, NEW p, NEW h, c.fn \in StoredFns, BytesOnly(c),
         h = Function(c, o, s, p, FALSE)
  PROVE  /\ Plain(c, h) /\ h.stored /\ h.stepA = 1
         /\ h.sum = IF RefitOf(c) THEN "add" ELSE "replace"
         /\ RefitOf(c) => h.stepB = 1
         /\ h.a = IF c.fn \in MatvecFns THEN p.a ELSE StartA(c, o, s)
         /\ h.b = StartB(c, o, s)
         /\ h.skip <=> Skipped(c, o, s) /\ c.zero_point = 0
<1> USE DEF Plain, GroupA, GroupB, SumOf, MatVec, Reduction, StartA, StartB, Skipped, RefitOf, NeverRefitted
<1>1. CASE c.fn = "tiled_matvec_mul"
  BY <1>1 DEF Function, tiled_matvec_mul, MatvecFns
<1>2. CASE c.fn = "mat_vec_mul"
  BY <1>2 DEF Function, mat_vec_mul, MatvecFns
<1>3. CASE c.fn = "mat_vec_mul_32_32"
  BY <1>3 DEF Function, mat_vec_mul_32_32, MatvecFns
<1>4. CASE c.fn = "mat_vec_mul_32_8"
  BY <1>4 DEF Function, mat_vec_mul_32_8, MatvecFns
<1>5. CASE c.fn = "tiled_matmul"
  BY <1>5 DEF Function, tiled_matmul, MatvecFns, BytesOnly
<1>6. CASE c.fn = "tiled_conv"
  BY <1>6 DEF Function, tiled_conv, MatvecFns
<1> QED  BY <1>1, <1>2, <1>3, <1>4, <1>5, <1>6 DEF StoredFns, MatvecFns

LEMMA TermsFinite ==
  ASSUME NEW c \in Calls, NEW S, S \subseteq Terms(c)
  PROVE  IsFiniteSet(S)
<1>1. SegmentsOf(c) \in Nat /\ LengthOf(c) \in Nat
  BY Shapes DEF Positive
<1>2. IsFiniteSet(0 .. SegmentsOf(c) - 1) /\ IsFiniteSet(0 .. LengthOf(c) - 1)
  <2>1. ASSUME NEW n \in Nat PROVE IsFiniteSet(0 .. n - 1)
    <3>1. 0 \in Int /\ n - 1 \in Int
      OBVIOUS
    <3>2. QED  BY <3>1, FS_Interval
  <2>2. QED  BY <1>1, <2>1
<1>3. IsFiniteSet(Terms(c))
  BY <1>2, FS_Product DEF Terms
<1> QED  BY <1>3, FS_Subset

LEMMA NothingSummed ==
  ASSUME NEW c \in Calls, NEW o
  PROVE  Sum(c, o, 0, 0) = EmptyBag
<1>1. Before(c, o, 0, 0) = {}
  BY DEF Before, Terms
<1> QED  BY <1>1, BagOfNone DEF Sum

LEMMA SegmentSkipped ==
  ASSUME NEW c \in Calls, NEW o, NEW s \in Nat, Skipped(c, o, s)
  PROVE  Sum(c, o, s + 1, 0) = Sum(c, o, s, 0)
<1>1. Before(c, o, s + 1, 0) = Before(c, o, s, 0)
  BY DEF Before, Terms
<1> QED  BY <1>1 DEF Sum

LEMMA SegmentSummed ==
  ASSUME NEW c \in Calls, NEW o, NEW s \in Nat
  PROVE  Sum(c, o, s + 1, 0) = Sum(c, o, s, LengthOf(c))
<1>1. Before(c, o, s + 1, 0) = Before(c, o, s, LengthOf(c))
  <2>1. LengthOf(c) \in Nat
    BY Shapes DEF Positive
  <2> QED  BY <2>1 DEF Before, Terms
<1> QED  BY <1>1 DEF Sum

(* The pointers a and b are at element k of segment s.                      *)
PointAt(c, o, s, k, a, b) ==
  /\ s \in 0 .. SegmentsOf(c) - 1 /\ ~Skipped(c, o, s) /\ k \in Nat
  /\ StartA(c, o, s) \in Int /\ StartB(c, o, s) \in Int
  /\ a = StartA(c, o, s) + k /\ b = StartB(c, o, s) + k

(* A tile of w elements from k on adds the products of its elements.        *)
LEMMA TileSummed ==
  ASSUME NEW c \in Calls, NEW o, NEW s, NEW k, NEW a, NEW b, PointAt(c, o, s, k, a, b),
         NEW w \in Nat, k + w <= LengthOf(c)
  PROVE  /\ Sum(c, o, s, k + w) = Sum(c, o, s, k) (+) TileProducts(w, a, b)
         /\ s = 0 /\ k = 0 => Sum(c, o, s, w) = TileProducts(w, a, b)
<1> DEFINE S == Before(c, o, s, k)
           h == [e \in 0 .. w - 1 |-> <<s, k + e>>]
           T == {h[e] : e \in 0 .. w - 1}
           f == [e \in 0 .. w - 1 |-> {a + e, b + e}]
           F == Factors(c, o)
<1>1. SegmentsOf(c) \in Nat /\ LengthOf(c) \in Nat
  BY Shapes DEF Positive
<1>0. /\ s \in 0 .. SegmentsOf(c) - 1 /\ k \in Nat /\ ~Skipped(c, o, s)
      /\ a \in Int /\ b \in Int /\ StartA(c, o, s) \in Int /\ StartB(c, o, s) \in Int
      /\ a = StartA(c, o, s) + k /\ b = StartB(c, o, s) + k
  BY DEF PointAt
<1>2. T \subseteq Terms(c) /\ S \subseteq Terms(c)
  BY <1>0, <1>1 DEF Before, Terms
<1>3. S \cap T = {}
  BY <1>0, <1>1 DEF Before, Terms
<1>4. Before(c, o, s, k + w) = S \union T
  <2>1. ASSUME NEW t \in Before(c, o, s, k + w), t \notin S
        PROVE  t \in T
    <3>1. t[1] = s /\ t[2] < k + w /\ t[2] >= k /\ t = <<t[1], t[2]>> /\ t[2] \in Nat
      BY <1>0, <1>1, <2>1 DEF Before, Terms
    <3>2. t[2] - k \in 0 .. w - 1 /\ k + (t[2] - k) = t[2]
      BY <1>0, <3>1
    <3>3. h[t[2] - k] = t
      BY <3>1, <3>2
    <3> QED  BY <3>2, <3>3
  <2>2. S \subseteq Before(c, o, s, k + w)
    BY <1>0, <1>1 DEF Before, Terms
  <2>3. T \subseteq Before(c, o, s, k + w)
    BY <1>0, <1>1 DEF Before, Terms
  <2> QED  BY <2>1, <2>2, <2>3
<1>5. BagOf(0 .. w - 1, f) = BagOf(T, F)
  <2>1. IsFiniteSet(0 .. w - 1)
    BY FS_Interval
  <2>2. \A e \in 0 .. w - 1 : h[e] \in T /\ f[e] = F[h[e]]
    <3> SUFFICES ASSUME NEW e \in 0 .. w - 1 PROVE h[e] \in T /\ f[e] = F[h[e]]
      OBVIOUS
    <3>1. h[e] = <<s, k + e>> /\ h[e] \in Terms(c)
      BY <1>2
    <3>2. F[h[e]] = {StartA(c, o, s) + (k + e), StartB(c, o, s) + (k + e)}
      BY <3>1 DEF Factors
    <3>3. StartA(c, o, s) + (k + e) = a + e /\ StartB(c, o, s) + (k + e) = b + e
      BY <1>0
    <3> QED  BY <3>2, <3>3
  <2>3. \A d, e \in 0 .. w - 1 : h[d] = h[e] => d = e
    BY <1>0
  <2>4. \A t \in T : \E e \in 0 .. w - 1 : h[e] = t
    OBVIOUS
  <2> HIDE DEF h, f, F, T
  <2>5. Renames(h, 0 .. w - 1, T, f, F)
    BY <2>2, <2>3, <2>4 DEF Renames
  <2> QED  BY <2>1, <2>5, BagOfRenamed
<1> HIDE DEF T, F, f, S
<1>6. Sum(c, o, s, k + w) = BagOf(S, F) (+) BagOf(T, F)
  <2>1. IsFiniteSet(S) /\ IsFiniteSet(T)
    BY <1>2, TermsFinite
  <2>2. BagOf(S \union T, F) = BagOf(S, F) (+) BagOf(T, F)
    BY <1>3, <2>1, BagOfUnion
  <2> QED  BY <1>4, <2>2 DEF Sum, F
<1>7. s = 0 /\ k = 0 => Before(c, o, s, w) = T
  <2> SUFFICES ASSUME s = 0, k = 0 PROVE Before(c, o, s, w) = T
    OBVIOUS
  <2>1. S = {}
    BY <1>0, <1>1 DEF S, Before, Terms
  <2> QED  BY <1>4, <2>1
<1>8. Tally(w, f) = BagOf(T, F)
  BY <1>5, TallyIs
<1> QED  BY <1>6, <1>7, <1>8 DEF Sum, F, S, f, TileProducts
-----------------------------------------------------------------------------
(* The scalar functions, as sums over the same terms.                       *)

LEMMA StoredCall ==
  ASSUME NEW c \in Calls, c.fn \in StoredFns
  PROVE  /\ c.a \in Int /\ c.b \in Int /\ c.res \in Int
         /\ c.fn \in MatvecFns => /\ c.cols \in Positive /\ c.rows \in Nat
                                  /\ LengthOf(c) = c.cols /\ SegmentsOf(c) = 1 /\ ResultsOf(c) = c.rows
         /\ c.fn = "tiled_matmul" => /\ c.cols \in Positive /\ c.red \in Positive /\ c.rows \in Nat
                                     /\ LengthOf(c) = c.red /\ SegmentsOf(c) = 1
         /\ c.fn = "tiled_conv" =>
              /\ {c.batch_size, c.out_rows, c.out_cols, c.out_channels, c.in_rows, c.in_cols,
                  c.in_channels, c.kernel_rows, c.kernel_cols} \subseteq Nat \ {0}
              /\ {c.padding, c.stride} \subseteq Nat
              /\ LengthOf(c) = c.in_channels /\ SegmentsOf(c) = c.kernel_rows * c.kernel_cols
<1>1. Conventional(c)
  BY CallsAssumption
<1>2. CASE c.fn \in MatvecFns
  BY <1>1, <1>2 DEF Conventional, ElementwiseFns, MatvecFns, LengthOf, SegmentsOf, ResultsOf
<1>3. CASE c.fn = "tiled_matmul"
  BY <1>1, <1>3 DEF Conventional, ElementwiseFns, MatvecFns, LengthOf, SegmentsOf
<1>4. CASE c.fn = "tiled_conv"
  BY <1>1, <1>4 DEF Conventional, ElementwiseFns, MatvecFns, LengthOf, SegmentsOf, Positive
<1> QED  BY <1>2, <1>3, <1>4 DEF StoredFns, MatvecFns

(* Where the pointers of a segment start. *)
LEMMA Starts ==
  ASSUME NEW c \in Calls, NEW o \in Nat, NEW s \in Nat, c.fn \in StoredFns, BytesOnly(c)
  PROVE  StartA(c, o, s) \in Int /\ StartB(c, o, s) \in Int
<1> DEFINE p == [a |-> 0, b |-> 0]
           h == Function(c, o, s, p, FALSE)
<1>1. h.a \in Int /\ h.b \in Int
  <2>1. p.a \in Int /\ p.b \in Int
    OBVIOUS
  <2> HIDE DEF p
  <2> QED  BY <2>1, Operands
<1>2. h.b = StartB(c, o, s) /\ h.a = IF c.fn \in MatvecFns THEN p.a ELSE StartA(c, o, s)
  <2> HIDE DEF p
  <2> QED  BY StoredIs
<1>3. c.fn \in MatvecFns => StartA(c, o, s) = c.a + o * c.cols
  BY DEF MatvecFns, StartA
<1>4. c.fn \in MatvecFns => c.a + o * c.cols \in Int
  BY StoredCall DEF Positive
<1> QED  BY <1>1, <1>2, <1>3, <1>4

LEMMA SingleSegment ==
  ASSUME NEW c \in Calls, NEW o \in Nat, NEW f, c.fn \in StoredFns, BytesOnly(c), c.fn # "tiled_conv",
         f = [k \in 0 .. LengthOf(c) - 1 |-> {StartA(c, o, 0) + k, StartB(c, o, 0) + k}]
  PROVE  Sum(c, o, 1, 0) = Tally(LengthOf(c), f)
<1> DEFINE L == LengthOf(c)
           a == StartA(c, o, 0)
           b == StartB(c, o, 0)
<1>1. SegmentsOf(c) = 1 /\ L \in Nat
  BY StoredCall, Shapes DEF StoredFns, Positive
<1>2. a \in Int /\ b \in Int
  BY Starts
<1>3. Sum(c, o, 0 + 1, 0) = Sum(c, o, 0, L)
  BY SegmentSummed
<1>4. ~Skipped(c, o, 0)
  BY DEF Skipped
<1>5. Sum(c, o, 0, L) = Tally(L, [e \in 0 .. L - 1 |-> {a + e, b + e}])
  <2>1. PointAt(c, o, 0, 0, a, b)
    BY <1>1, <1>2, <1>4 DEF PointAt
  <2>2. 0 + L <= LengthOf(c)
    BY <1>1
  <2> HIDE DEF L, a, b
  <2>3. Sum(c, o, 0, L) = TileProducts(L, a, b)
    BY <1>1, <2>1, <2>2, TileSummed
  <2> QED  BY <2>3 DEF TileProducts
<1> QED  BY <1>3, <1>5

(* Division by k of a multiple of k and a remainder. *)
Splits(x, q, k, r) == q \in Nat /\ k \in Nat \ {0} /\ r \in 0 .. k - 1 /\ x = q * k + r

LEMMA DivMod ==
  ASSUME NEW x, NEW q, NEW k, NEW r, Splits(x, q, k, r)
  PROVE  x \in Nat /\ x \div k = q /\ x % k = r
<1> DEFINE d == x \div k
           m == x % k
<1>0. q \in Nat /\ k \in Nat \ {0} /\ r \in 0 .. k - 1 /\ x = q * k + r
  BY DEF Splits
<1>1. x \in Nat /\ d \in Nat /\ m \in 0 .. k - 1 /\ x = d * k + m
  <2>1. x \in Nat
    BY <1>0
  <2> QED  BY <1>0, <2>1
<1>2. (q - d) * k = m - r
  BY <1>0, <1>1
<1> HIDE DEF d, m
<1>3. ~(q > d)
  <2> SUFFICES ASSUME q > d PROVE FALSE
    OBVIOUS
  <2>1. (q - d) * k >= k
    <3>1. q - d >= 1 /\ q - d \in Int
      BY <1>0, <1>1
    <3> DEFINE z == q - d
    <3>2. z >= 1 /\ z \in Int => z * k >= k
      <4> HIDE DEF z
      <4> QED  BY <1>0
    <3> QED  BY <3>1, <3>2
  <2> QED  BY <1>0, <1>1, <1>2, <2>1
<1>4. ~(q < d)
  <2> SUFFICES ASSUME q < d PROVE FALSE
    OBVIOUS
  <2>1. (d - q) * k >= k
    <3>1. d - q >= 1 /\ d - q \in Int
      BY <1>0, <1>1
    <3> DEFINE z == d - q
    <3>2. z >= 1 /\ z \in Int => z * k >= k
      <4> HIDE DEF z
      <4> QED  BY <1>0
    <3> QED  BY <3>1, <3>2
  <2>2. (d - q) * k = r - m
    BY <1>0, <1>1, <1>2
  <2> QED  BY <1>0, <1>1, <2>1, <2>2
<1>5. q = d
  BY <1>0, <1>1, <1>3, <1>4
<1>6. m = r
  BY <1>0, <1>1, <1>5
<1> QED  BY <1>1, <1>5, <1>6 DEF d, m
-----------------------------------------------------------------------------
LEMMA MatvecScalar ==
  ASSUME NEW c \in Calls, NEW o \in Nat, c.fn \in MatvecFns
  PROVE  Scalar(c, o) = Dot(Sum(c, o, SegmentsOf(c), 0))
<1> DEFINE f == [k \in 0 .. c.cols - 1 |-> {c.a + o * c.cols + k, c.b + k}]
<1>1. c.fn \in StoredFns /\ BytesOnly(c) /\ c.fn # "tiled_conv" /\ c.fn # "tiled_matmul"
  BY DEF StoredFns, BytesOnly, MatvecFns
<1>2. LengthOf(c) = c.cols /\ SegmentsOf(c) = 1
  BY <1>1, StoredCall
<1>3. StartA(c, o, 0) = c.a + o * c.cols /\ StartB(c, o, 0) = c.b
  BY <1>1 DEF StartA, StartB
<1>4. Sum(c, o, 1, 0) = Tally(c.cols, f)
  <2>1. f = [k \in 0 .. LengthOf(c) - 1 |-> {StartA(c, o, 0) + k, StartB(c, o, 0) + k}]
    BY <1>2, <1>3
  <2> HIDE DEF f
  <2> QED  BY <1>1, <1>2, <2>1, SingleSegment
<1>5. matvec_mul_cpu(c, o) = Tally(c.cols, f)
  BY DEF matvec_mul_cpu, BagOfValues
<1>6. Scalar(c, o) = Dot(matvec_mul_cpu(c, o))
  BY DEF Scalar, MatvecFns
<1> QED  BY <1>2, <1>4, <1>5, <1>6

LEMMA MatmulScalar ==
  ASSUME NEW c \in Calls, NEW o \in Nat, c.fn = "tiled_matmul", c.unit
  PROVE  Scalar(c, o) = Dot(Sum(c, o, SegmentsOf(c), 0))
<1> DEFINE f == [k \in 0 .. c.red - 1 |-> {c.a + (o \div c.cols) * c.red + k, c.b + (o % c.cols) * c.red + k}]
<1>1. c.fn \in StoredFns /\ BytesOnly(c) /\ c.fn # "tiled_conv"
  BY DEF StoredFns, BytesOnly
<1>2. LengthOf(c) = c.red /\ SegmentsOf(c) = 1 /\ c.cols \in Positive /\ c.red \in Positive /\ c.b \in Int
  BY <1>1, StoredCall
<1>3. StartA(c, o, 0) = c.a + (o \div c.cols) * c.red /\ StartB(c, o, 0) = c.b + (o % c.cols) * c.red
  <2>1. c.red * (o % c.cols) = (o % c.cols) * c.red
    BY <1>2 DEF Positive
  <2> QED  BY <2>1 DEF StartA, StartB
<1>4. Sum(c, o, 1, 0) = Tally(c.red, f)
  <2>1. f = [k \in 0 .. LengthOf(c) - 1 |-> {StartA(c, o, 0) + k, StartB(c, o, 0) + k}]
    BY <1>2, <1>3
  <2> HIDE DEF f
  <2> QED  BY <1>1, <1>2, <2>1, SingleSegment
<1>5. matmul_cpu(c, o) = Tally(c.red, f)
  BY DEF matmul_cpu, BagOfValues
<1>6. Scalar(c, o) = Dot(matmul_cpu(c, o))
  BY DEF Scalar
<1> QED  BY <1>2, <1>4, <1>5, <1>6

(* The taps of a convolution, as conv_cpu runs through them.                *)
TapRow(c, o, r) == ((o \div (c.out_cols * c.out_channels)) % c.out_rows) * c.stride + r - c.padding
TapCol(c, o, t) == ((o \div c.out_channels) % c.out_cols) * c.stride + t - c.padding
Taps(c, o) ==
  {w \in (0 .. c.kernel_rows - 1) \X (0 .. c.kernel_cols - 1) \X (0 .. c.in_channels - 1) :
     ~ConvPadded(c, TapRow(c, o, w[1]), TapCol(c, o, w[2]))}
TapA(c, o, w) ==
  c.a + (o \div (c.out_rows * c.out_cols * c.out_channels)) * c.in_rows * c.in_cols * c.in_channels
      + TapRow(c, o, w[1]) * c.in_cols * c.in_channels
      + TapCol(c, o, w[2]) * c.in_channels + w[3]
TapB(c, o, w) ==
  c.b + w[1] * c.kernel_cols * c.out_channels * c.in_channels
      + w[2] * c.out_channels * c.in_channels
      + (o % c.out_channels) * c.in_channels + w[3]
TapFactors(c, o) == [w \in Taps(c, o) |-> {TapA(c, o, w), TapB(c, o, w)}]

LEMMA ConvCpuIs ==
  ASSUME NEW c, NEW o
  PROVE  conv_cpu(c, o) = BagOf(Taps(c, o), TapFactors(c, o))
<1> DEFINE T == Taps(c, o)
<1>1. conv_cpu(c, o) = [pair \in {{TapA(c, o, w), TapB(c, o, w)} : w \in T} |->
                          Cardinality({w \in T : {TapA(c, o, w), TapB(c, o, w)} = pair})]
  BY DEF conv_cpu, ConvolutionWith, Coords, Taps, TapA, TapB, TapRow, TapCol, ConvPadded
<1> HIDE DEF T
<1> DEFINE F == [w \in T |-> {TapA(c, o, w), TapB(c, o, w)}]
<1>2. \A w \in T : F[w] = {TapA(c, o, w), TapB(c, o, w)}
  OBVIOUS
<1>3. {{TapA(c, o, w), TapB(c, o, w)} : w \in T} = {F[w] : w \in T}
  OBVIOUS
<1>4. \A x : {w \in T : {TapA(c, o, w), TapB(c, o, w)} = x} = Copies(T, F, x)
  BY <1>2 DEF Copies
<1> HIDE DEF F
<1>5. conv_cpu(c, o) = BagOf(T, F)
  BY <1>1, <1>3, <1>4 DEF BagOf
<1> QED  BY <1>5 DEF T, F, TapFactors
-----------------------------------------------------------------------------
LEMMA ConvTerm ==
  ASSUME NEW c \in Calls, c.fn = "tiled_conv", NEW o \in Nat,
         NEW r \in Nat, NEW t \in 0 .. c.kernel_cols - 1, NEW k \in Nat, NEW s, s = r * c.kernel_cols + t
  PROVE  /\ ConvRow(c, o, s) = TapRow(c, o, r) /\ ConvCol(c, o, s) = TapCol(c, o, t)
         /\ StartA(c, o, s) + k = TapA(c, o, <<r, t, k>>)
         /\ StartB(c, o, s) + k = TapB(c, o, <<r, t, k>>)
<1>1. /\ {c.out_rows, c.out_cols, c.out_channels, c.in_rows, c.in_cols,
          c.in_channels, c.kernel_cols} \subseteq Nat \ {0}
      /\ c.padding \in Nat /\ c.stride \in Nat /\ c.a \in Int /\ c.b \in Int
  BY StoredCall DEF StoredFns
<1>2. s \div c.kernel_cols = r /\ s % c.kernel_cols = t /\ s \in Nat
  <2>1. Splits(s, r, c.kernel_cols, t)
    BY <1>1 DEF Splits
  <2> QED  BY <2>1, DivMod
<1>3. c.out_channels * c.out_cols = c.out_cols * c.out_channels
  BY <1>1
<1>4. ConvRow(c, o, s) = TapRow(c, o, r) /\ ConvCol(c, o, s) = TapCol(c, o, t)
  BY <1>2, <1>3 DEF ConvRow, ConvCol, TapRow, TapCol
<1>5. c.out_channels * c.out_cols * c.out_rows = c.out_rows * c.out_cols * c.out_channels
  BY <1>1
<1> DEFINE n   == o \div (c.out_rows * c.out_cols * c.out_channels)
           row == TapRow(c, o, r)
           col == TapCol(c, o, t)
           oc  == c.out_channels
           ic  == c.in_channels
           ir  == c.in_rows
           icl == c.in_cols
           kc  == c.kernel_cols
           x   == o % c.out_channels
<1>6. n \in Int /\ row \in Int /\ col \in Int /\ x \in Nat
  <2>1. c.out_rows * c.out_cols * c.out_channels \in Nat \ {0} /\ c.out_cols * c.out_channels \in Nat \ {0}
    <3>1. c.out_cols * c.out_channels \in Nat \ {0} /\ c.out_rows * c.out_cols \in Nat \ {0}
      BY <1>1
    <3> QED  BY <1>1, <3>1
  <2>2. (o \div (c.out_cols * c.out_channels)) % c.out_rows \in Nat
        /\ (o \div c.out_channels) % c.out_cols \in Nat
    BY <1>1, <2>1
  <2> QED  BY <1>1, <2>1, <2>2 DEF TapRow, TapCol
<1>7. oc \in Nat /\ ic \in Nat /\ ir \in Nat /\ icl \in Nat /\ kc \in Nat
  BY <1>1
<1>8. StartA(c, o, s) = c.a + ((n * ir + row) * icl + col) * ic
  BY <1>4, <1>5 DEF StartA, ConvInput
<1>9. TapA(c, o, <<r, t, k>>) = c.a + n * ir * icl * ic + row * icl * ic + col * ic + k
  BY DEF TapA
<1>10. StartB(c, o, s) = c.b + (s * oc + x) * ic
  BY DEF StartB, ConvKernel
<1>11. TapB(c, o, <<r, t, k>>) = c.b + r * kc * oc * ic + t * oc * ic + x * ic + k
  BY DEF TapB
<1>12. s = r * kc + t
  OBVIOUS
<1> HIDE DEF n, row, col, oc, ic, ir, icl, kc, x
<1>13. ((n * ir + row) * icl + col) * ic = n * ir * icl * ic + row * icl * ic + col * ic
  BY <1>6, <1>7
<1>14. (s * oc + x) * ic = r * kc * oc * ic + t * oc * ic + x * ic
  BY <1>6, <1>7, <1>12
<1>15. StartA(c, o, s) + k = TapA(c, o, <<r, t, k>>)
  <2> DEFINE u == n * ir * icl * ic
             v == row * icl * ic
             y == col * ic
  <2>1. u \in Int /\ v \in Int /\ y \in Int
    <3>1. n * ir \in Int /\ row * icl \in Int
      BY <1>6, <1>7
    <3>2. n * ir * icl \in Int
      BY <1>7, <3>1
    <3> QED  BY <1>6, <1>7, <3>1, <3>2
  <2>2. StartA(c, o, s) = c.a + (u + v + y) /\ TapA(c, o, <<r, t, k>>) = c.a + u + v + y + k
    BY <1>8, <1>9, <1>13
  <2> HIDE DEF u, v, y
  <2> QED  BY <1>1, <2>1, <2>2
<1>16. StartB(c, o, s) + k = TapB(c, o, <<r, t, k>>)
  <2> DEFINE u == r * kc * oc * ic
             v == t * oc * ic
             y == x * ic
  <2>1. u \in Int /\ v \in Int /\ y \in Int
    <3>1. r * kc \in Int /\ t * oc \in Int
      BY <1>6, <1>7
    <3>2. r * kc * oc \in Int
      BY <1>7, <3>1
    <3> QED  BY <1>6, <1>7, <3>1, <3>2
  <2>2. StartB(c, o, s) = c.b + (u + v + y) /\ TapB(c, o, <<r, t, k>>) = c.b + u + v + y + k
    BY <1>10, <1>11, <1>14
  <2> HIDE DEF u, v, y
  <2> QED  BY <1>1, <2>1, <2>2
<1> QED  BY <1>4, <1>15, <1>16

LEMMA ConvScalar ==
  ASSUME NEW c \in Calls, NEW o \in Nat, c.fn = "tiled_conv", BytesOnly(c)
  PROVE  Scalar(c, o) = Dot(Sum(c, o, SegmentsOf(c), 0))
<1> DEFINE S == Before(c, o, SegmentsOf(c), 0)
           kc == c.kernel_cols
           h == [t \in S |-> <<t[1] \div kc, t[1] % kc, t[2]>>]
           f == Factors(c, o)
           T == Taps(c, o)
           g == TapFactors(c, o)
<1>1. /\ kc \in Nat \ {0} /\ c.kernel_rows \in Nat \ {0} /\ c.in_channels \in Nat
      /\ LengthOf(c) = c.in_channels /\ SegmentsOf(c) = c.kernel_rows * kc
      /\ SegmentsOf(c) \in Nat
  BY StoredCall, Shapes DEF StoredFns
<1>2. ASSUME NEW t \in S
      PROVE  LET r == t[1] \div kc
                 q == t[1] % kc
             IN  /\ t = <<t[1], t[2]>> /\ t[1] \in 0 .. SegmentsOf(c) - 1 /\ t[2] \in 0 .. c.in_channels - 1
                 /\ ~Skipped(c, o, t[1])
                 /\ r \in 0 .. c.kernel_rows - 1 /\ q \in 0 .. kc - 1 /\ t[1] = r * kc + q
                 /\ t \in Terms(c)
  <2>1. t = <<t[1], t[2]>> /\ t[1] \in 0 .. SegmentsOf(c) - 1 /\ t[2] \in 0 .. c.in_channels - 1
        /\ ~Skipped(c, o, t[1]) /\ t \in Terms(c)
    BY <1>1 DEF Before, Terms
  <2> DEFINE s == t[1]
             r == s \div kc
             q == s % kc
  <2>2. s \in Nat /\ s < c.kernel_rows * kc
    BY <1>1, <2>1
  <2> HIDE DEF s, kc
  <2>3. r \in Nat /\ q \in 0 .. kc - 1 /\ s = r * kc + q
    BY <1>1, <2>2
  <2>4. r < c.kernel_rows
    <3> SUFFICES ASSUME r >= c.kernel_rows PROVE FALSE
      BY <1>1, <2>3
    <3> DEFINE z == r - c.kernel_rows
    <3>1. z \in Nat /\ r = c.kernel_rows + z
      BY <1>1, <2>3
    <3> HIDE DEF z, r, q
    <3>2. r * kc = c.kernel_rows * kc + z * kc
      BY <1>1, <3>1
    <3>3. z * kc >= 0 /\ c.kernel_rows * kc \in Int
      BY <1>1, <3>1
    <3> QED  BY <1>1, <2>2, <2>3, <3>2, <3>3
  <2> QED  BY <1>1, <2>1, <2>3, <2>4 DEF s
<1>3. ASSUME NEW t \in S
      PROVE  h[t] \in T /\ f[t] = g[h[t]]
  <2> DEFINE r == t[1] \div kc
             q == t[1] % kc
             s == t[1]
             k == t[2]
  <2>1. /\ t = <<s, k>> /\ s \in 0 .. SegmentsOf(c) - 1 /\ k \in 0 .. c.in_channels - 1
        /\ ~Skipped(c, o, s) /\ t \in Terms(c)
        /\ r \in 0 .. c.kernel_rows - 1 /\ q \in 0 .. kc - 1 /\ s = r * kc + q
    BY <1>2
  <2>2. h[t] = <<r, q, k>>
    OBVIOUS
  <2>3. f[t] = {StartA(c, o, s) + k, StartB(c, o, s) + k}
    BY <2>1 DEF Factors
  <2> HIDE DEF r, q, s, k, h, f
  <2>4. /\ ConvRow(c, o, s) = TapRow(c, o, r) /\ ConvCol(c, o, s) = TapCol(c, o, q)
        /\ StartA(c, o, s) + k = TapA(c, o, <<r, q, k>>)
        /\ StartB(c, o, s) + k = TapB(c, o, <<r, q, k>>)
    BY <2>1, ConvTerm
  <2>5. <<r, q, k>> \in T
    BY <2>1, <2>4 DEF Taps, Skipped
  <2>6. g[<<r, q, k>>] = {TapA(c, o, <<r, q, k>>), TapB(c, o, <<r, q, k>>)}
    BY <2>5 DEF TapFactors
  <2> QED  BY <2>2, <2>3, <2>4, <2>5, <2>6
<1>4. ASSUME NEW t \in S, NEW u \in S, h[t] = h[u]
      PROVE  t = u
  <2>1. t[1] \div kc = u[1] \div kc /\ t[1] % kc = u[1] % kc /\ t[2] = u[2]
    BY <1>4
  <2>2. t[1] = (t[1] \div kc) * kc + (t[1] % kc) /\ u[1] = (u[1] \div kc) * kc + (u[1] % kc)
    BY <1>2
  <2>3. t[1] = u[1]
    BY <2>1, <2>2
  <2> QED  BY <1>2, <2>1, <2>3
<1>5. ASSUME NEW w \in T
      PROVE  \E t \in S : h[t] = w
  <2> DEFINE r == w[1]
             q == w[2]
             k == w[3]
             s == r * kc + q
             t == <<s, k>>
  <2>1. /\ w = <<r, q, k>> /\ r \in 0 .. c.kernel_rows - 1 /\ q \in 0 .. kc - 1 /\ k \in 0 .. c.in_channels - 1
        /\ ~ConvPadded(c, TapRow(c, o, r), TapCol(c, o, q))
    BY DEF Taps
  <2> HIDE DEF r, q, k
  <2>2. s \div kc = r /\ s % kc = q /\ s \in Nat
    <3>1. Splits(s, r, kc, q)
      BY <1>1, <2>1 DEF Splits
    <3> HIDE DEF s, kc
    <3> QED  BY <3>1, DivMod
  <2>3. s < c.kernel_rows * kc
    <3> DEFINE z == c.kernel_rows - 1 - r
    <3>1. z \in Nat /\ c.kernel_rows = r + 1 + z
      BY <1>1, <2>1
    <3> HIDE DEF z, kc
    <3>2. c.kernel_rows * kc = r * kc + kc + z * kc
      BY <1>1, <2>1, <3>1
    <3>3. z * kc >= 0 /\ r * kc \in Int /\ z * kc \in Int
      BY <1>1, <2>1, <3>1
    <3> QED  BY <1>1, <2>1, <3>2, <3>3
  <2>4. ConvRow(c, o, s) = TapRow(c, o, r) /\ ConvCol(c, o, s) = TapCol(c, o, q)
    <3>1. r \in Nat /\ k \in Nat
      BY <2>1
    <3> QED  BY <2>1, <3>1, ConvTerm
  <2> HIDE DEF s
  <2>5. t \in S
    BY <1>1, <2>1, <2>2, <2>3, <2>4 DEF Before, Terms, Skipped
  <2>6. h[t] = <<s \div kc, s % kc, k>>
    BY <2>5
  <2> QED  BY <2>1, <2>2, <2>5, <2>6
<1> HIDE DEF S, T, h, f, g
<1>6. Renames(h, S, T, f, g)
  BY <1>3, <1>4, <1>5 DEF Renames
<1>7. IsFiniteSet(S)
  <2>1. S \subseteq Terms(c)
    BY DEF S, Before
  <2> QED  BY <2>1, TermsFinite
<1>8. BagOf(S, f) = BagOf(T, g)
  BY <1>6, <1>7, BagOfRenamed
<1>9. Scalar(c, o) = Dot(conv_cpu(c, o))
  BY DEF Scalar
<1> QED  BY <1>8, <1>9, ConvCpuIs DEF Sum, S, T, f, g
-----------------------------------------------------------------------------
(* What a kernel of products has summed and stored.                         *)

ResultWords(c, d) == {c.res + 4 * i : i \in 0 .. d - 1}
FullSum(c, o) == Dot(Sum(c, o, SegmentsOf(c), 0))

(* The first d results are stored, the rest of memory is as it was.         *)
Written(c, mem, d) ==
  \A x \in Memory(c) :
    mem[x] = IF x \in ResultWords(c, d) THEN FullSum(c, (x - c.res) \div 4) ELSE Initial(x)

Summed ==
  /\ zp = FALSE
  /\ pc = "enter" => res = 0
  /\ pc \in {"segment", "tile"} => res < ResultsOf(call)
  /\ pc = "result" => res <= ResultsOf(call)
  /\ pc = "done" => res = ResultsOf(call)
  /\ ~RefitOf(call) => vl = LengthOf(call) /\ (pc = "tile" => j = 0)
  /\ pc = "segment" => seg <= SegmentsOf(call) /\ acc = Sum(call, res, seg, 0)
  /\ pc = "tile" => /\ PointAt(call, res, seg, j, machine.a, machine.b)
                    /\ acc = Sum(call, res, seg, j)
  /\ call.fn \in MatvecFns =>
       /\ pc \in {"enter", "result"} => machine.a = call.a + res * call.cols
       /\ pc = "segment" => machine.a = call.a + (res + seg) * call.cols
  /\ Written(call, machine.mem, res)

LEMMA StoredHere ==
  ASSUME Counting, Summed, call.fn \in StoredFns, BytesOnly(call)
  PROVE  /\ Shape(call, Here) /\ Plain(call, Here) /\ Product(call, Here, zp)
         /\ Here.stored /\ Here.stepA = 1
         /\ Here.sum = (IF RefitOf(call) THEN "add" ELSE "replace")
         /\ RefitOf(call) => Here.stepB = 1
         /\ Here.stepB \in {0, 1}
         /\ Here.a = IF call.fn \in MatvecFns THEN machine.a ELSE StartA(call, res, seg)
         /\ Here.b = StartB(call, res, seg)
         /\ Here.skip <=> Skipped(call, res, seg) /\ call.zero_point = 0
         /\ LengthOf(call) \in Nat \ {0} /\ SegmentsOf(call) \in Nat /\ ResultsOf(call) \in Nat
<1>1. call \in Calls /\ zp = FALSE
  BY DEF Counting, Summed
<1>2. Shape(call, Here)
  BY <1>1, HereIs
<1>3. call.fn \in Fns \ ElementwiseFns
  BY DEF StoredFns, Fns, ElementwiseFns, MatvecFns
<1>4. Product(call, Here, zp)
  BY <1>3, ProductIs DEF Here
<1>5. LengthOf(call) \in Nat \ {0} /\ SegmentsOf(call) \in Nat /\ ResultsOf(call) \in Nat
  BY <1>1, Shapes DEF Positive
<1>6. Here = Function(call, res, seg, machine, FALSE)
  BY <1>1 DEF Here
<1>7. Here.stepB \in {0, 1}
  BY <1>4 DEF Product
<1> QED  BY <1>2, <1>4, <1>5, <1>6, <1>7, StoredIs

LEMMA InitSums ==
  ASSUME Init, call.fn \in StoredFns
  PROVE  Summed
<1>1. /\ call \in Calls /\ pc = "enter" /\ res = 0 /\ zp = FALSE
      /\ machine.a = call.a /\ \A x \in Memory(call) : machine.mem[x] = Initial(x)
      /\ vl = FirstOf(call)
  BY HereIs DEF Init, Initial, Shape
<1>2. ResultWords(call, 0) = {}
  BY DEF ResultWords
<1>3. Written(call, machine.mem, 0)
  BY <1>1, <1>2 DEF Written
<1>4. ~RefitOf(call) => vl = LengthOf(call)
  BY <1>1 DEF RefitOf, StoredFns, NeverRefitted, MatvecFns, FirstOf, LengthOf, ElementwiseFns
<1>5. call.fn \in MatvecFns => machine.a = call.a + res * call.cols
  BY <1>1, StoredCall DEF Positive
<1> QED  BY <1>1, <1>3, <1>4, <1>5 DEF Summed

LEMMA EnterSums ==
  ASSUME Counting, Summed, Enter, call.fn \in StoredFns
  PROVE  Summed'
<1>1. /\ pc = "enter" /\ pc' = "result" /\ UNCHANGED <<call, res, seg, j, vl, acc, zp>>
      /\ machine'.mem = machine.mem /\ machine'.a = machine.a
  BY DEF Enter, Counting, Machine
<1>2. ResultsOf(call) \in Nat
  BY Shapes DEF Counting
<1> QED  BY <1>1, <1>2 DEF Summed

LEMMA ResultSums ==
  ASSUME Counting, Summed, BeginResult, call.fn \in StoredFns, BytesOnly(call)
  PROVE  Summed'
<1>1. /\ pc = "result" /\ pc' = "segment" /\ seg' = 0 /\ UNCHANGED <<call, res, j, vl, zp, machine>>
      /\ res < ResultsOf(call) /\ call \in Calls /\ res \in Nat
      /\ acc' = EmptyBag
  BY StoredHere DEF BeginResult, Counting, Shape, StoredFns, MatvecFns
<1>2. Sum(call, res, 0, 0) = EmptyBag
  BY <1>1, NothingSummed
<1>3. SegmentsOf(call) \in Nat
  BY <1>1, Shapes
<1> QED  BY <1>1, <1>2, <1>3 DEF Summed

LEMMA SegmentSums ==
  ASSUME Counting, Summed, BeginSegment, call.fn \in StoredFns, BytesOnly(call)
  PROVE  Summed'
<1>1. /\ call \in Calls /\ res \in Nat /\ seg \in Nat /\ zp = FALSE /\ pc = "segment"
      /\ res < ResultsOf(call) /\ seg < SegmentsOf(call)
      /\ UNCHANGED <<call, res, vl, acc>>
      /\ acc = Sum(call, res, seg, 0)
  BY StoredHere DEF Counting, Summed, BeginSegment, Shape
<1>2. Skipped(call, res, seg) => call.zero_point = 0
  <2> SUFFICES ASSUME Skipped(call, res, seg) PROVE call.zero_point = 0
    OBVIOUS
  <2>1. ~NeverPadded(call)
    <3>1. res \in 0 .. ResultsOf(call) - 1 /\ seg \in 0 .. SegmentsOf(call) - 1
      BY <1>1, Shapes
    <3> QED  BY <3>1 DEF Skipped, NeverPadded
  <2> QED  BY <2>1 DEF BytesOnly, Skipped
<1>3. zp' = FALSE
  BY <1>1, <1>2 DEF BeginSegment, LoadsZeroPoint, Skipped
<1>4. CASE Skipped(call, res, seg)
  <2>1. seg' = seg + 1 /\ UNCHANGED <<pc, j, machine>>
    BY <1>2, <1>4, StoredHere DEF BeginSegment
  <2>2. Sum(call, res, seg + 1, 0) = acc
    BY <1>1, <1>4, SegmentSkipped
  <2>3. call.fn \notin MatvecFns
    BY <1>4 DEF Skipped, MatvecFns
  <2>4. seg + 1 <= SegmentsOf(call)
    BY <1>1, Shapes
  <2> QED  BY <1>1, <1>3, <2>1, <2>2, <2>3, <2>4 DEF Summed
<1>5. CASE ~Skipped(call, res, seg)
  <2>1. /\ seg' = seg /\ j' = 0 /\ pc' = "tile"
        /\ machine' = [machine EXCEPT !.a = Here.a, !.b = Here.b]
    BY <1>5, StoredHere DEF BeginSegment
  <2>2. machine'.a = Here.a /\ machine'.b = Here.b /\ machine'.mem = machine.mem
    BY <2>1 DEF Counting, Machine
  <2>3. StartA(call, res, seg) \in Int /\ StartB(call, res, seg) \in Int
    BY <1>1, Starts
  <2>4. Here.b = StartB(call, res, seg)
    BY StoredHere
  <2>5. Here.a = StartA(call, res, seg)
    <3>1. CASE call.fn \in MatvecFns
      <4>1. SegmentsOf(call) = 1
        BY <1>1, <3>1, StoredCall
      <4>2. seg = 0
        BY <1>1, <4>1
      <4>3. machine.a = call.a + (res + seg) * call.cols
        BY <1>1, <3>1 DEF Summed
      <4>4. res + seg = res
        BY <1>1, <4>2
      <4>5. StartA(call, res, seg) = call.a + res * call.cols
        BY <3>1 DEF StartA, MatvecFns
      <4> QED  BY <3>1, <4>3, <4>4, <4>5, StoredHere
    <3>2. CASE call.fn \notin MatvecFns
      BY <3>2, StoredHere
    <3> QED  BY <3>1, <3>2
  <2>6. PointAt(call, res, seg, 0, machine'.a, machine'.b)
    BY <1>1, <1>5, <2>2, <2>3, <2>4, <2>5, Shapes DEF PointAt
  <2> QED  BY <1>1, <1>3, <2>1, <2>2, <2>6 DEF Summed
<1> QED  BY <1>4, <1>5

LEMMA EndSums ==
  ASSUME Counting, Summed, EndResult, call.fn \in StoredFns, BytesOnly(call)
  PROVE  Summed'
<1>1. /\ call \in Calls /\ res \in Nat /\ zp = FALSE /\ pc = "segment" /\ pc' = "result"
      /\ res' = res + 1 /\ UNCHANGED <<call, seg, j, vl, acc, zp>>
      /\ res < ResultsOf(call) /\ seg = SegmentsOf(call) /\ ResultsOf(call) \in Nat
      /\ machine' = [machine EXCEPT !.mem[call.res + 4 * res] = Dot(acc)]
      /\ Machine(call, machine)
  BY StoredHere DEF Counting, Summed, EndResult, Shape
<1>2. Dot(acc) = FullSum(call, res)
  BY <1>1 DEF Summed, FullSum
<1>3. machine'.a = machine.a
      /\ \A x \in Memory(call) :
           machine'.mem[x] = IF x = call.res + 4 * res THEN FullSum(call, res) ELSE machine.mem[x]
  BY <1>1, <1>2 DEF Machine
<1>4. call.res \in Int
  BY <1>1, StoredCall
<1>5. Written(call, machine'.mem, res + 1)
  <2> SUFFICES ASSUME NEW x \in Memory(call)
               PROVE  machine'.mem[x] = IF x \in ResultWords(call, res + 1)
                        THEN FullSum(call, (x - call.res) \div 4) ELSE Initial(x)
    BY DEF Written
  <2>1. CASE x = call.res + 4 * res
    <3>1. x \in ResultWords(call, res + 1)
      BY <1>1, <2>1 DEF ResultWords
    <3>2. (x - call.res) \div 4 = res
      BY <1>1, <1>4, <2>1
    <3> QED  BY <1>3, <2>1, <3>1, <3>2
  <2>2. CASE x # call.res + 4 * res
    <3>1. x \in ResultWords(call, res + 1) <=> x \in ResultWords(call, res)
      BY <1>1, <2>2 DEF ResultWords
    <3> QED  BY <1>3, <2>2, <3>1 DEF Summed, Written
  <2> QED  BY <2>1, <2>2
<1>6. call.fn \in MatvecFns => machine.a = call.a + (res + 1) * call.cols
  <2> SUFFICES ASSUME call.fn \in MatvecFns PROVE machine.a = call.a + (res + 1) * call.cols
    OBVIOUS
  <2>1. seg = 1 /\ machine.a = call.a + (res + seg) * call.cols
    BY <1>1, StoredCall DEF Summed
  <2> QED  BY <2>1
<1> QED  BY <1>1, <1>3, <1>5, <1>6 DEF Summed
-----------------------------------------------------------------------------
LEMMA TileSums ==
  ASSUME Counting, LengthSet, Summed, Tile, call.fn \in StoredFns, BytesOnly(call)
  PROVE  Summed'
<1> DEFINE w == Refitted(Here)
           m == Configured(Here)
           n == After(m, Here.tile)
           new == TileProducts(w, machine.a, machine.b)
<1>1. /\ call \in Calls /\ UNCHANGED <<call, res, zp>> /\ zp = FALSE /\ res \in Nat /\ seg \in Nat /\ j \in Nat
      /\ pc = "tile" /\ vl' = w /\ j' = j + w /\ res < ResultsOf(call)
      /\ pc' = IF j' < Here.length THEN pc ELSE "segment"
      /\ seg' = IF j' < Here.length THEN seg ELSE seg + 1
      /\ machine' = Advanced(n, Here.stepA * w, Here.stepB * w)
      /\ acc' = CASE Here.sum = "add" -> acc (+) PartialSum(n, Here)
                  [] Here.sum = "replace" -> PartialSum(n, Here)
                  [] OTHER -> acc
  BY TileIs DEF Counting, Summed
<1>2. /\ w \in 1 .. CapOf(call) /\ j + w \in 0 .. LengthOf(call)
      /\ w = Fit(LengthOf(call), CapOf(call), ~RefitOf(call), vl, j)
      /\ m.csr = w /\ w \in 1 .. 32 /\ Machine(call, m)
  BY TileLength
<1>3. /\ Shape(call, Here) /\ Plain(call, Here) /\ Product(call, Here, zp)
      /\ Here.stepA = 1 /\ Here.stepB \in {0, 1} /\ (RefitOf(call) => Here.stepB = 1)
      /\ Here.sum = (IF RefitOf(call) THEN "add" ELSE "replace")
      /\ LengthOf(call) \in Nat \ {0} /\ SegmentsOf(call) \in Nat
  BY StoredHere
<1>4. Here.length = LengthOf(call)
  BY <1>3 DEF Shape
<1>5. /\ PointAt(call, res, seg, j, machine.a, machine.b) /\ acc = Sum(call, res, seg, j)
      /\ ~RefitOf(call) => vl = LengthOf(call) /\ j = 0
      /\ Written(call, machine.mem, res)
  BY <1>1 DEF Summed
<1>6. m.a = machine.a /\ m.b = machine.b /\ m.mem = machine.mem
  BY DEF Configured, Counting, Machine
<1>7. PartialSum(n, Here) = new /\ n.a = machine.a /\ n.b = machine.b
  <2>1. call.fn = "mat_vec_mul_32_8" => m.csr <= 8
    BY <1>2 DEF CapOf
  <2> DEFINE h == Here
  <2>2. Machine(call, m) /\ Plain(call, h) /\ m.csr \in 1 .. 32
    BY <1>2, <1>3
  <2> HIDE DEF m, w, h
  <2>3. /\ PartialSum(After(m, h.tile), h) = TileProducts(m.csr, m.a, m.b)
        /\ After(m, h.tile).a = m.a /\ After(m, h.tile).b = m.b
    BY <2>1, <2>2, ProductSum
  <2> QED  BY <1>2, <1>6, <2>3 DEF h
<1>8. n.mem = machine.mem /\ Machine(call, n)
  <2>1. m.csr \in 0 .. 32
    BY <1>2
  <2> DEFINE h == Here
  <2>2. Machine(call, m) /\ Product(call, h, zp)
    BY <1>2, <1>3
  <2> HIDE DEF m, h
  <2>3. Machine(call, After(m, h.tile)) /\ After(m, h.tile).mem = m.mem
    BY <2>1, <2>2, ProductKeeps
  <2> QED  BY <1>6, <2>3 DEF h
<1> HIDE DEF m, n
<1>9. /\ machine'.mem = machine.mem
      /\ machine'.a = machine.a + w /\ machine'.b = machine.b + Here.stepB * w
  <2> DEFINE da == Here.stepA * w
             db == Here.stepB * w
  <2>1. da \in Int /\ db \in Int /\ machine' = Advanced(n, da, db) /\ da = w
    BY <1>1, <1>2, <1>3
  <2> HIDE DEF da, db, w
  <2>2. machine'.mem = n.mem /\ machine'.a = n.a + da /\ machine'.b = n.b + db
    BY <1>8, <2>1, Advance
  <2> QED  BY <1>7, <1>8, <2>1, <2>2 DEF db
<1>10. acc' = Sum(call, res, seg, j + w)
  <2>1. w \in Nat /\ j + w <= LengthOf(call)
    BY <1>2
  <2> HIDE DEF w
  <2>2. /\ Sum(call, res, seg, j + w) = Sum(call, res, seg, j) (+) new
        /\ seg = 0 /\ j = 0 => Sum(call, res, seg, w) = new
    BY <1>1, <1>5, <2>1, TileSummed
  <2>3. CASE RefitOf(call)
    BY <1>1, <1>3, <1>5, <1>7, <2>2, <2>3
  <2>4. CASE ~RefitOf(call)
    <3>1. call.fn \in MatvecFns
      BY <2>4 DEF RefitOf, StoredFns, NeverRefitted, MatvecFns
    <3>2. seg = 0
      <4>1. SegmentsOf(call) = 1
        BY <1>1, <3>1, StoredCall
      <4> QED  BY <1>1, <1>5, <4>1 DEF PointAt
    <3>3. acc' = PartialSum(n, Here)
      BY <1>1, <1>3, <2>4
    <3>4. j = 0 /\ j + w = w
      BY <1>5, <2>1, <2>4
    <3> QED  BY <1>7, <2>2, <3>2, <3>3, <3>4
  <2> QED  BY <2>3, <2>4
<1>11. ~RefitOf(call) => w = LengthOf(call) /\ j + w = LengthOf(call)
  BY <1>2, <1>3, <1>5 DEF Fit
<1>12. /\ seg \in 0 .. SegmentsOf(call) - 1 /\ ~Skipped(call, res, seg)
       /\ StartA(call, res, seg) \in Int /\ StartB(call, res, seg) \in Int
       /\ machine.a = StartA(call, res, seg) + j /\ machine.b = StartB(call, res, seg) + j
  BY <1>5 DEF PointAt
<1> HIDE DEF w, new
<1>13. CASE j + w < LengthOf(call)
  <2>1. pc' = "tile" /\ seg' = seg
    BY <1>1, <1>4, <1>13
  <2>2. RefitOf(call) /\ Here.stepB = 1
    BY <1>3, <1>11, <1>13
  <2>3. machine'.a = StartA(call, res, seg) + (j + w) /\ machine'.b = StartB(call, res, seg) + (j + w)
    BY <1>1, <1>2, <1>9, <1>12, <2>2
  <2>4. j + w \in Nat
    BY <1>2
  <2>5. PointAt(call, res, seg, j + w, machine'.a, machine'.b)
    BY <1>12, <2>3, <2>4 DEF PointAt
  <2> QED  BY <1>1, <1>5, <1>9, <1>10, <2>1, <2>2, <2>5 DEF Summed
<1>14. CASE ~(j + w < LengthOf(call))
  <2>1. pc' = "segment" /\ seg' = seg + 1
    BY <1>1, <1>4, <1>14
  <2>2. j + w = LengthOf(call)
    BY <1>2, <1>3, <1>14
  <2>3. acc' = Sum(call, res, seg + 1, 0)
    BY <1>1, <1>10, <2>2, SegmentSummed
  <2>4. seg + 1 <= SegmentsOf(call)
    BY <1>3, <1>12
  <2>5. call.fn \in MatvecFns => machine'.a = call.a + (res + (seg + 1)) * call.cols
    <3> SUFFICES ASSUME call.fn \in MatvecFns
                 PROVE  machine'.a = call.a + (res + (seg + 1)) * call.cols
      OBVIOUS
    <3>1. SegmentsOf(call) = 1 /\ LengthOf(call) = call.cols /\ call.cols \in Nat /\ call.a \in Int
      BY <1>1, StoredCall DEF Positive
    <3>2. seg = 0 /\ StartA(call, res, seg) = call.a + res * call.cols
      BY <1>12, <3>1 DEF StartA, MatvecFns
    <3>3. machine'.a = call.a + res * call.cols + (j + w)
      BY <1>1, <1>2, <1>9, <1>12, <3>1, <3>2
    <3>4. (res + (seg + 1)) * call.cols = res * call.cols + call.cols
      <4>1. \A r, k \in Nat : (r + (0 + 1)) * k = r * k + k
        OBVIOUS
      <4> QED  BY <1>1, <3>1, <3>2, <4>1
    <3>5. res * call.cols \in Int
      BY <1>1, <3>1
    <3> QED  BY <2>2, <3>1, <3>3, <3>4, <3>5
  <2> QED  BY <1>1, <1>5, <1>9, <1>11, <2>1, <2>3, <2>4, <2>5 DEF Summed
<1> QED  BY <1>13, <1>14

LEMMA StepSums ==
  ASSUME Counting, LengthSet, Summed, [Next]_vars, call.fn \in StoredFns, BytesOnly(call)
  PROVE  Summed'
<1>1. CASE Enter
  BY <1>1, EnterSums
<1>2. CASE BeginResult
  BY <1>2, ResultSums
<1>3. CASE BeginSegment
  BY <1>3, SegmentSums
<1>4. CASE Tile
  BY <1>4, TileSums
<1>5. CASE EndResult
  BY <1>5, EndSums
<1>6. CASE Return
  <2>1. /\ pc = "result" /\ pc' = "done" /\ UNCHANGED <<call, res, seg, j, vl, acc, zp, machine>>
        /\ res = ResultsOf(call)
    BY <1>6, HereIs DEF Return, Counting, Shape
  <2> QED  BY <2>1 DEF Summed
<1>7. CASE UNCHANGED vars
  BY <1>7 DEF vars, Summed
<1> QED  BY <1>1, <1>2, <1>3, <1>4, <1>5, <1>6, <1>7 DEF Next

LEMMA SummedIsScalar ==
  ASSUME Counting, Summed, pc = "done", call.fn \in StoredFns, BytesOnly(call)
  PROVE  machine.mem = Expected(LAMBDA i : Scalar(call, i))
<1>1. /\ machine.mem = [x \in Memory(call) |-> machine.mem[x]]
      /\ call \in Calls /\ Written(call, machine.mem, ResultsOf(call))
  BY DEF Counting, Machine, Summed
<1>2. Here.stored /\ Here.results = ResultsOf(call) /\ call.fn \notin ElementwiseFns
  BY StoredHere DEF Shape, StoredFns, MatvecFns, ElementwiseFns
<1>3. ResultsOf(call) \in Nat /\ call.res \in Int
  BY <1>1, Shapes, StoredCall
<1> DEFINE words == ResultWords(call, ResultsOf(call))
<1>4. Expected(LAMBDA i : Scalar(call, i)) =
        [x \in Memory(call) |-> IF x \in words THEN Scalar(call, (x - call.res) \div 4) ELSE Initial(x)]
  BY <1>2 DEF Expected, ResultWords
<1>5. ASSUME NEW x \in Memory(call)
      PROVE  machine.mem[x] = IF x \in words THEN Scalar(call, (x - call.res) \div 4) ELSE Initial(x)
  <2>1. CASE x \in words
    <3>1. PICK i \in 0 .. ResultsOf(call) - 1 : x = call.res + 4 * i
      BY <2>1 DEF ResultWords
    <3>2. (x - call.res) \div 4 = i /\ i \in Nat
      BY <1>3, <3>1
    <3>3. Scalar(call, i) = FullSum(call, i)
      <4>1. CASE call.fn \in MatvecFns
        BY <1>1, <3>2, <4>1, MatvecScalar DEF FullSum
      <4>2. CASE call.fn = "tiled_matmul"
        BY <1>1, <3>2, <4>2, MatmulScalar DEF FullSum, BytesOnly
      <4>3. CASE call.fn = "tiled_conv"
        BY <1>1, <3>2, <4>3, ConvScalar DEF FullSum
      <4> QED  BY <4>1, <4>2, <4>3 DEF StoredFns
    <3> QED  BY <1>1, <2>1, <3>2, <3>3 DEF Written
  <2>2. CASE x \notin words
    BY <1>1, <2>2 DEF Written
  <2> QED  BY <2>1, <2>2
<1> QED  BY <1>1, <1>4, <1>5

-----------------------------------------------------------------------------
(* The product that is not stored leaves memory as it was.                  *)
Untouched == \A x \in Memory(call) : machine.mem[x] = Initial(x)

LEMMA InnerHere ==
  ASSUME call.fn = "tiled_inner_product"
  PROVE  ~Here.stored /\ Product(call, Here, zp) /\ call.fn \notin ElementwiseFns
<1>1. call.fn \in Fns \ ElementwiseFns
  BY DEF Fns, ElementwiseFns
<1>2. Here = tiled_inner_product(call, res, seg, machine)
  BY DEF Here, Function
<1>3. ~Here.stored
  BY <1>2 DEF tiled_inner_product, MatVec
<1> QED  BY <1>1, <1>3, ProductIs DEF Here

LEMMA StepLeaves ==
  ASSUME Counting, LengthSet, Untouched, [Next]_vars, call.fn = "tiled_inner_product"
  PROVE  Untouched'
<1>1. Machine(call, machine) /\ call \in Calls
  BY DEF Counting
<1>2. CASE Tile
  <2> DEFINE w == Refitted(Here)
             m == Configured(Here)
             n == After(m, Here.tile)
  <2>1. /\ call' = call /\ machine' = Advanced(n, Here.stepA * w, Here.stepB * w)
    BY <1>2, TileIs
  <2>2. Machine(call, m) /\ m.csr \in 0 .. 32 /\ w \in 1 .. 32
    BY <1>2, TileLength
  <2>3. Product(call, Here, zp) /\ Here.stepA \in {0, 1} /\ Here.stepB \in {0, 1}
    BY InnerHere DEF Product
  <2>4. m.mem = machine.mem
    BY <1>1 DEF Configured, Machine
  <2>5. n.mem = machine.mem /\ Machine(call, n)
    <3> DEFINE h == Here
    <3>1. Machine(call, m) /\ m.csr \in 0 .. 32 /\ Product(call, h, zp)
      BY <2>2, <2>3
    <3> HIDE DEF m, h
    <3>2. Machine(call, After(m, h.tile)) /\ After(m, h.tile).mem = m.mem
      BY <3>1, ProductKeeps
    <3> QED  BY <2>4, <3>2 DEF h
  <2>6. machine'.mem = n.mem
    <3> DEFINE da == Here.stepA * w
               db == Here.stepB * w
    <3>1. da \in Int /\ db \in Int /\ machine' = Advanced(n, da, db)
      BY <2>1, <2>2, <2>3
    <3> HIDE DEF da, db, n
    <3> QED  BY <2>5, <3>1, Advance
  <2> QED  BY <2>1, <2>5, <2>6 DEF Untouched
<1>3. CASE ~Tile
  <2>1. call' = call /\ machine'.mem = machine.mem
    BY <1>1, <1>3, InnerHere DEF Next, vars, Enter, BeginResult, BeginSegment, EndResult, Return, Machine
  <2> QED  BY <2>1 DEF Untouched
<1> QED  BY <1>2, <1>3

(* Of the call that returns nothing through acc: whatever its length and    *)
(* the words around acc, tiled_inner_product leaves memory as it was.       *)
NothingStored ==
  call.fn = "tiled_inner_product" => \A x \in Memory(call) : machine.mem[x] = Initial(x)
THEOREM InnerProductStoresNothing == Spec => []NothingStored
<1> DEFINE Kept == call.fn = "tiled_inner_product" => Untouched
<1>1. Init => Kept
  BY DEF Init, Initial, Untouched
<1>2. Counting /\ LengthSet /\ Kept /\ [Next]_vars => Kept'
  <2> SUFFICES ASSUME Counting, LengthSet, Kept, [Next]_vars, call'.fn = "tiled_inner_product"
               PROVE  Untouched'
    OBVIOUS
  <2>1. call' = call
    BY DEF Next, vars, Enter, BeginResult, BeginSegment, Tile, AfterTile, EndResult, Return
  <2> QED  BY <2>1, StepLeaves
<1>3. Kept => NothingStored
  BY DEF Untouched, NothingStored
<1> HIDE DEF Kept
<1> QED  BY <1>1, <1>2, <1>3, CountsAlways, PTL DEF Spec

-----------------------------------------------------------------------------
(* A call whose operands a vector kernel reads as the scalar function does. *)
WellPlaced(c) == (c.fn \in ElementwiseFns => OperandsStand(c)) /\ BytesOnly(c)

Tracked ==
  /\ WellPlaced(call)
  /\ call.fn \in ElementwiseFns => Reworked
  /\ call.fn \in StoredFns => Summed

(* Calls of every size leave in memory what the scalar function does: every *)
(* product is in the sum of its result once, and no other word is written.  *)
(* It is a theorem of all functions but tiled_inner_product, of which       *)
(* InnerProductStoresNothing shows the opposite.                            *)
THEOREM SameAsScalarCorrect ==
  ASSUME \A c \in Calls : WellPlaced(c)
  PROVE  Spec => []SameAsScalar
<1>1. Init => Tracked
  <2> SUFFICES ASSUME Init PROVE Tracked
    OBVIOUS
  <2>1. call \in Calls /\ machine.mem = [x \in Memory(call) |-> Initial(x)]
    BY DEF Init, Initial
  <2>2. WellPlaced(call) /\ (call.fn \in ElementwiseFns => OperandsStand(call))
    BY <2>1 DEF WellPlaced
  <2> QED  BY <2>2, InitReworks, InitSums DEF Tracked
<1>2. Counting /\ LengthSet /\ Tracked /\ [Next]_vars => Tracked'
  <2> SUFFICES ASSUME Counting, LengthSet, Tracked, [Next]_vars PROVE Tracked'
    OBVIOUS
  <2>1. call' = call
    BY DEF Next, vars, Enter, BeginResult, BeginSegment, Tile, AfterTile, EndResult, Return
  <2>2. WellPlaced(call) /\ BytesOnly(call) /\ (call.fn \in ElementwiseFns => OperandsStand(call))
    BY DEF Tracked, WellPlaced
  <2>3. call.fn \in ElementwiseFns => Reworked'
    BY <2>2, StepReworks DEF Tracked
  <2>4. call.fn \in StoredFns => Summed'
    BY <2>2, StepSums DEF Tracked
  <2> QED  BY <2>1, <2>2, <2>3, <2>4 DEF Tracked
<1>3. Counting /\ Tracked => SameAsScalar
  <2> SUFFICES ASSUME Counting, Tracked, pc = "done", call.fn # "tiled_inner_product"
               PROVE  machine.mem = Expected(LAMBDA i : Scalar(call, i))
    BY DEF SameAsScalar
  <2>1. BytesOnly(call) /\ (call.fn \in ElementwiseFns => OperandsStand(call))
    BY DEF Tracked, WellPlaced
  <2>2. call.fn \in Fns
    BY CallsAssumption DEF Counting, Conventional, Fns
  <2>3. call.fn \in ElementwiseFns \/ call.fn \in StoredFns
    BY <2>2 DEF Fns, StoredFns
  <2>4. CASE call.fn \in ElementwiseFns
    BY <2>1, <2>4, ReworkedIsScalar DEF Tracked
  <2>5. CASE call.fn \in StoredFns
    BY <2>1, <2>5, SummedIsScalar DEF Tracked
  <2> QED  BY <2>3, <2>4, <2>5
<1> QED  BY <1>1, <1>2, <1>3, CountsAlways, PTL DEF Spec
=============================================================================
