------------------------------ MODULE Kernels ------------------------------
(***************************************************************************)
(* The vector kernels of the C runtime (kernels.h) and of the LSTM          *)
(* application (lstm_vec/matrix_operations.c).  A kernel writes a number of *)
(* results; for each it reduces some segments of its operands, a segment    *)
(* in tiles of vl elements.  One step of the model is one tile, one pass of *)
(* the address calculation or one store of a result.                        *)
(*                                                                          *)
(* Every C function is an operator of its name: given the call c, the       *)
(* result o and the segment s that the loops are at and the pointers p as   *)
(* the function last left them, it gives the limits of its loops, where the *)
(* pointers go for this segment, and the vector instructions of a tile.     *)
(***************************************************************************)
EXTENDS ScalarKernels

CONSTANTS
  Calls,    (* The calls that are made: records of function and arguments.  *)
  Memory(_) (* The word addresses a kernel can reach for a call.             *)

VARIABLES
  call,     (* The call being executed.                                     *)
  pc,       (* Where the function is.                                       *)
  res, seg, (* The loop indices, flattened: the result, the segment of it.  *)
  j,        (* Elements of the segment done (j, col_dim, red_dim).          *)
  vl,       (* The local variable vl.                                       *)
  acc,      (* The local accumulator, a bag of products.                    *)
  zp,       (* a_load_zero_point of tiled_conv.                             *)
  machine   (* Registers, memory, csr_vl and the pointers a and b.          *)

vars == <<call, pc, res, seg, j, vl, acc, zp, machine>>

MAX_VLEN_MAC == 32
MAX_VLEN_ADD == 8

-----------------------------------------------------------------------------
(* The functions, and the arguments that their callers give them.           *)

ElementwiseFns ==
  {"tiled_inplace_elementwise_mul", "tiled_inplace_elementwise_add", "tiled_inplace_mul_scalar",
   "tiled_inplace_add_scalar", "inplace_point32_twise_multiplication",
   "inplace_multiplication_vector_scalar", "inplace_point32_twise_multiplication_32",
   "inplace_point32_twise_add", "inplace_point32_twise_add_scalar"}

MatvecFns == {"tiled_matvec_mul", "mat_vec_mul", "mat_vec_mul_32_32", "mat_vec_mul_32_8"}

(* A length that is configured once has to be one of whole tiles, a row     *)
(* that is one tile has to fit.                                             *)
NeverRefitted ==
  {"inplace_point32_twise_multiplication_32", "inplace_point32_twise_add",
   "inplace_point32_twise_add_scalar"}
RowFits(c) ==
  CASE c.fn \in {"mat_vec_mul", "mat_vec_mul_32_32"} -> c.cols <= MAX_VLEN_MAC
    [] c.fn = "mat_vec_mul_32_8" -> c.cols <= MAX_VLEN_ADD
    [] OTHER -> TRUE

Positive == Nat \ {0}

Conventional(c) ==
  /\ {c.a, c.b} \subseteq Int
  /\ \/ /\ c.fn \in ElementwiseFns
        /\ c.n \in Positive
        /\ c.fn \in NeverRefitted => c.n % MAX_VLEN_ADD = 0
     \/ /\ c.fn \in MatvecFns
        /\ c.rows \in Nat /\ c.cols \in Positive /\ RowFits(c) /\ c.res \in Int
     \/ /\ c.fn = "tiled_matmul"
        /\ c.rows \in Nat /\ {c.cols, c.red} \subseteq Positive /\ c.unit \in BOOLEAN /\ c.res \in Int
     \/ /\ c.fn = "tiled_inner_product"
        /\ c.n \in Positive /\ c.unit \in BOOLEAN
     \/ /\ c.fn = "tiled_conv"
        /\ {c.batch_size, c.out_rows, c.out_cols, c.out_channels, c.in_rows, c.in_cols,
            c.in_channels, c.kernel_rows, c.kernel_cols} \subseteq Positive
        /\ {c.padding, c.stride} \subseteq Nat
        /\ {c.zero_point, c.res} \subseteq Int

ASSUME CallsAssumption == \A c \in Calls : Conventional(c)

-----------------------------------------------------------------------------
(* Element-wise kernels: one segment, no result beyond what a tile stores.  *)

Elementwise(c, p, tile, refit, stepB) ==
  [results |-> 1, segments |-> 1, length |-> c.n, skip |-> FALSE,
   a |-> c.a, b |-> c.b, stepA |-> 4, stepB |-> stepB,
   vl |-> MAX_VLEN_ADD, refit |-> refit, cap |-> MAX_VLEN_ADD, tile |-> tile,
   sum |-> "none", stored |-> FALSE]

InPlace(load, op) ==
  <<load, VLoad32(16, "a"), IF op = "vmul" THEN VMul(16, 24, 16) ELSE VAdd(16, 24, 16),
    VStore32(16, "a")>>

tiled_inplace_elementwise_mul(c, p) == Elementwise(c, p, InPlace(VLoad32(24, "b"), "vmul"), TRUE, 4)
tiled_inplace_elementwise_add(c, p) == Elementwise(c, p, InPlace(VLoad32(24, "b"), "vadd"), TRUE, 4)
tiled_inplace_mul_scalar(c, p) == Elementwise(c, p, InPlace(VLoad32s(24, "b", 0), "vmul"), TRUE, 0)
tiled_inplace_add_scalar(c, p) == Elementwise(c, p, InPlace(VLoad32s(24, "b", 0), "vadd"), TRUE, 0)

inplace_point32_twise_multiplication(c, p) ==
  Elementwise(c, p, InPlace(VLoad32(24, "b"), "vmul"), TRUE, 4)
inplace_multiplication_vector_scalar(c, p) ==
  Elementwise(c, p, InPlace(VLoad32s(24, "b", 0), "vmul"), TRUE, 0)
(* These three configure a length of 8 before the loop and never refit it. *)
inplace_point32_twise_multiplication_32(c, p) ==
  Elementwise(c, p, InPlace(VLoad32(24, "b"), "vmul"), FALSE, 4)
inplace_point32_twise_add(c, p) ==
  Elementwise(c, p, InPlace(VLoad32(24, "b"), "vadd"), FALSE, 4)
inplace_point32_twise_add_scalar(c, p) ==
  Elementwise(c, p, InPlace(VLoad32s(24, "b", 0), "vadd"), FALSE, 0)

-----------------------------------------------------------------------------
(* Reductions: a tile leaves its partial sum in one register.               *)

Reduction(loadB, rd, groupB, groupA) ==
  <<loadB, VLoad8(groupA, "a"), VMac(rd, groupB, groupA)>>

(* The matrix pointer runs on from row to row, the vector starts again. *)
MatVec(c, p) ==
  [results |-> c.rows, segments |-> 1, length |-> c.cols, skip |-> FALSE,
   a |-> p.a, b |-> c.b, stepA |-> 1, stepB |-> 1,
   vl |-> MAX_VLEN_MAC, refit |-> TRUE, cap |-> MAX_VLEN_MAC,
   tile |-> Reduction(VLoad8(24, "b"), 16, 24, 16), sum |-> "add", stored |-> TRUE]

tiled_matvec_mul(c, o, s, p) == MatVec(c, p)
mat_vec_mul(c, o, s, p) == [MatVec(c, p) EXCEPT !.vl = c.cols]

(* Mutant: the group of the vector starts one register too low. *)
mat_vec_mul_32_8_WideGroup(c, o, s, p) ==
  [MatVec(c, p) EXCEPT
     !.vl = c.cols, !.refit = FALSE, !.cap = 8, !.sum = "replace", !.stepB = 0,
     !.tile = <<VLoad8(27, "b"), VLoad8(30, "a"), VMac(27, 30, 27)>>]

(* One row is one tile, its sum is stored from the register. *)
mat_vec_mul_32_32(c, o, s, p) ==
  [MatVec(c, p) EXCEPT !.vl = c.cols, !.refit = FALSE, !.sum = "replace", !.stepB = 0]
mat_vec_mul_32_8(c, o, s, p) ==
  [MatVec(c, p) EXCEPT
     !.vl = c.cols, !.refit = FALSE, !.cap = 8, !.sum = "replace", !.stepB = 0,
     !.tile = <<VLoad8(28, "b"), VLoad8(30, "a"), VMac(28, 30, 28)>>]

(* Mutant: the row of A is not rewound for the next column. *)
tiled_matmul_NoRewind(c, o, s, p) ==
  [MatVec(c, p) EXCEPT
     !.results = c.rows * c.cols, !.length = c.red, !.b = c.b + c.red * (o % c.cols)]

(* The reduction dimension is the length of a row of A and, with unit       *)
(* stride, of a row of the transposed B.                                    *)
tiled_matmul(c, o, s, p) ==
  LET i   == o \div c.cols
      col == o % c.cols
  IN  [MatVec(c, p) EXCEPT
         !.results = c.rows * c.cols, !.length = c.red,
         !.a = c.a + i * c.red,
         !.b = IF c.unit THEN c.b + c.red * col ELSE c.b + col,
         !.tile = Reduction(IF c.unit THEN VLoad8(24, "b") ELSE VLoad32s(24, "b", c.red),
                            16, 24, 16)]

(* The accumulator is the caller's pointer, passed by value: the partial    *)
(* sums are added to the pointer, and nothing is stored through it; neither *)
(* operand pointer is advanced.                                             *)
tiled_inner_product(c, o, s, p) ==
  [MatVec(c, p) EXCEPT
     !.results = 1, !.length = c.n, !.a = c.a, !.stepA = 0, !.stepB = 0, !.stored = FALSE,
     !.tile = Reduction(IF c.unit THEN VLoad8(24, "b") ELSE VLoad32s(24, "b", c.n), 16, 24, 16)]

(* NHWC input, one segment per kernel position; positions over the padding  *)
(* are skipped unless there is a zero point to be multiplied there.  The    *)
(* indices are uint32_t: below zero they wrap to large numbers.             *)
ConvRow(c, o, s) ==
  LET p == (o \div (c.out_channels * c.out_cols)) % c.out_rows
      r == s \div c.kernel_cols
  IN  p * c.stride + r - c.padding
ConvCol(c, o, s) ==
  LET q == (o \div c.out_channels) % c.out_cols
      x == s % c.kernel_cols
  IN  q * c.stride + x - c.padding
ConvPadded(c, row, col) == row < 0 \/ col < 0 \/ row > c.in_rows \/ col > c.in_cols
ConvInput(c, o, row, col) ==
  LET n == o \div (c.out_channels * c.out_cols * c.out_rows)
  IN  c.a + ((n * c.in_rows + row) * c.in_cols + col) * c.in_channels
ConvKernel(c, o, s) == c.b + (s * c.out_channels + (o % c.out_channels)) * c.in_channels

tiled_conv(c, o, s, p, load_zero_point) ==
  LET row    == ConvRow(c, o, s)
      col    == ConvCol(c, o, s)
      padded == ConvPadded(c, row, col)
  IN  [MatVec(c, p) EXCEPT
         !.results = c.batch_size * c.out_rows * c.out_cols * c.out_channels,
         !.segments = c.kernel_rows * c.kernel_cols,
         !.length = c.in_channels,
         !.skip = padded /\ c.zero_point = 0,
         !.a = ConvInput(c, o, row, col),
         !.b = ConvKernel(c, o, s),
         !.tile = IF load_zero_point
                  THEN <<VLoad8(24, "b"), VLoad32s(24, "a", 0), VMac(16, 24, 16)>>
                  ELSE Reduction(VLoad8(24, "b"), 16, 24, 16)]

(* a_load_zero_point after the test of one position. *)
LoadsZeroPoint(c, o, s, load_zero_point) ==
  IF c.fn = "tiled_conv" /\ ConvPadded(c, ConvRow(c, o, s), ConvCol(c, o, s))
  THEN c.zero_point # 0 ELSE load_zero_point

Function(c, o, s, p, z) ==
  CASE c.fn = "tiled_inplace_elementwise_mul" -> tiled_inplace_elementwise_mul(c, p)
    [] c.fn = "tiled_inplace_elementwise_add" -> tiled_inplace_elementwise_add(c, p)
    [] c.fn = "tiled_inplace_mul_scalar" -> tiled_inplace_mul_scalar(c, p)
    [] c.fn = "tiled_inplace_add_scalar" -> tiled_inplace_add_scalar(c, p)
    [] c.fn = "inplace_point32_twise_multiplication" -> inplace_point32_twise_multiplication(c, p)
    [] c.fn = "inplace_multiplication_vector_scalar" -> inplace_multiplication_vector_scalar(c, p)
    [] c.fn = "inplace_point32_twise_multiplication_32" ->
         inplace_point32_twise_multiplication_32(c, p)
    [] c.fn = "inplace_point32_twise_add" -> inplace_point32_twise_add(c, p)
    [] c.fn = "inplace_point32_twise_add_scalar" -> inplace_point32_twise_add_scalar(c, p)
    [] c.fn = "tiled_matvec_mul" -> tiled_matvec_mul(c, o, s, p)
    [] c.fn = "mat_vec_mul" -> mat_vec_mul(c, o, s, p)
    [] c.fn = "mat_vec_mul_32_32" -> mat_vec_mul_32_32(c, o, s, p)
    [] c.fn = "mat_vec_mul_32_8" -> mat_vec_mul_32_8(c, o, s, p)
    [] c.fn = "tiled_matmul" -> tiled_matmul(c, o, s, p)
    [] c.fn = "tiled_inner_product" -> tiled_inner_product(c, o, s, p)
    [] c.fn = "tiled_conv" -> tiled_conv(c, o, s, p, z)

(* The function as it is at this point of its loops. *)
Here == Function(call, res, seg, machine, zp)

-----------------------------------------------------------------------------

Init ==
  /\ call \in Calls
  /\ pc = "enter"
  /\ res = 0 /\ seg = 0 /\ j = 0
  /\ acc = EmptyBag
  /\ zp = FALSE
  /\ machine = [regs |-> [r \in Regs |-> <<"reg", r>>],
                mem  |-> [x \in Memory(call) |-> <<"mem", x>>],
                csr  |-> Unset, a |-> call.a, b |-> call.b]
  /\ vl = Here.vl

(* Mutant: the vector length is never configured. *)
Enter_NoConfigure ==
  /\ pc = "enter"
  /\ pc' = "result"
  /\ UNCHANGED <<call, res, seg, j, vl, acc, zp, machine>>

(* The locals are set up; a kernel that never refits configures vl here. *)
Enter ==
  /\ pc = "enter"
  /\ pc' = "result"
  /\ machine' = [machine EXCEPT !.csr = IF Here.refit THEN @ ELSE vl]
  /\ UNCHANGED <<call, res, seg, j, vl, acc, zp>>

BeginResult ==
  /\ pc = "result"
  /\ res < Here.results
  /\ acc' = IF call.fn = "tiled_inner_product" THEN SetToBag({{call.res}}) ELSE EmptyBag
  /\ seg' = 0
  /\ pc' = "segment"
  /\ UNCHANGED <<call, res, j, vl, zp, machine>>

BeginSegment ==
  /\ pc = "segment"
  /\ seg < Here.segments
  /\ zp' = LoadsZeroPoint(call, res, seg, zp)
  /\ IF Here.skip
     THEN /\ seg' = seg + 1
          /\ UNCHANGED <<pc, j, machine>>
     ELSE /\ machine' = [machine EXCEPT !.a = Here.a, !.b = Here.b]
          /\ j' = 0
          /\ pc' = "tile"
          /\ UNCHANGED seg
  /\ UNCHANGED <<call, res, vl, acc>>

(* Mutants: wrong comparison, wrong variable. *)
Refitted_OffByOne(h) ==
  IF ~h.refit THEN vl ELSE IF j + vl <= h.length THEN h.cap ELSE h.length - j
Refitted_Swapped(h) ==
  IF ~h.refit THEN vl ELSE IF j + vl < h.length THEN h.cap ELSE h.length - vl

Refitted(h) ==
  IF ~h.refit THEN vl ELSE IF j + vl < h.length THEN h.cap ELSE h.length - j

(* Register that holds the result of the last instruction of a tile. *)
PartialSum(m, h) == m.regs[h.tile[Len(h.tile)].rd][2]

(* One pass of the do-while: refit, configure, the vector instructions,     *)
(* the scalar addition to acc, and the pointers move on.                    *)
(* Elementwise tiles have four instructions, reductions three. *)
AfterTile(m, t, final(_)) ==
  \E m1 \in {Exec(m, t[1])} : \E m2 \in {Exec(m1, t[2])} : \E m3 \in {Exec(m2, t[3])} :
    final(IF Len(t) = 4 THEN Exec(m3, t[4]) ELSE m3)

Tile ==
  LET h == Here
      v == Refitted(h)
      EndOfTile(m) ==
        /\ machine' = [m EXCEPT !.a = @ + h.stepA * v, !.b = @ + h.stepB * v]
        /\ acc' = CASE h.sum = "add"     -> acc (+) PartialSum(m, h)
                    [] h.sum = "replace" -> PartialSum(m, h)
                    [] OTHER             -> acc
  IN  /\ pc = "tile"
      /\ vl' = v
      /\ AfterTile([machine EXCEPT !.csr = IF h.refit THEN v ELSE @], h.tile, EndOfTile)
      /\ j' = j + v
      /\ IF j' < h.length THEN UNCHANGED <<pc, seg>> ELSE pc' = "segment" /\ seg' = seg + 1
      /\ UNCHANGED <<call, res, zp>>

EndResult ==
  /\ pc = "segment"
  /\ seg = Here.segments
  /\ machine' =
       IF Here.stored THEN [machine EXCEPT !.mem[call.res + 4 * res] = Dot(acc)] ELSE machine
  /\ res' = res + 1
  /\ pc' = "result"
  /\ UNCHANGED <<call, seg, j, vl, acc, zp>>

Return ==
  /\ pc = "result"
  /\ res = Here.results
  /\ pc' = "done"
  /\ UNCHANGED <<call, res, seg, j, vl, acc, zp, machine>>

Next == Enter \/ BeginResult \/ BeginSegment \/ Tile \/ EndResult \/ Return

Spec == Init /\ [][Next]_vars /\ WF_vars(Next)
-----------------------------------------------------------------------------

TypeOK ==
  /\ call \in Calls
  /\ pc \in {"enter", "result", "segment", "tile", "done"}
  /\ {res, seg, j, vl} \subseteq Nat
  /\ IsABag(acc)
  /\ zp \in BOOLEAN
  /\ DOMAIN machine.regs = Regs
  /\ DOMAIN machine.mem = Memory(call)
  /\ {machine.csr, machine.a, machine.b} \subseteq Int

(* What the scalar function of the same purpose leaves in word i.           *)
Scalar(c, i) ==
  CASE c.fn \in {"tiled_inplace_elementwise_mul", "inplace_point32_twise_multiplication",
                 "inplace_point32_twise_multiplication_32"} -> elementwise_mul_cpu(c, i)
    [] c.fn \in {"tiled_inplace_elementwise_add", "inplace_point32_twise_add"} ->
         elementwise_add_cpu(c, i)
    [] c.fn \in {"tiled_inplace_mul_scalar", "inplace_multiplication_vector_scalar"} ->
         scalar_multiplication(c, i)
    [] c.fn \in {"tiled_inplace_add_scalar", "inplace_point32_twise_add_scalar"} -> scalar_add(c, i)
    [] c.fn \in {"tiled_matvec_mul", "mat_vec_mul", "mat_vec_mul_32_32", "mat_vec_mul_32_8"} ->
         Dot(matvec_mul_cpu(c, i))
    [] c.fn = "tiled_matmul" -> Dot(matmul_cpu(c, i))
    [] c.fn = "tiled_inner_product" -> Dot(inner_product(c))
    [] c.fn = "tiled_conv" -> Dot(conv_cpu(c, i))

(* Memory after the call: the scalar results in the words of the result     *)
(* (or of vector_a, for the functions that work in place), the rest as it   *)
(* was, the words before and behind the arrays included.                    *)
Expected(value(_)) ==
  LET base  == IF call.fn \in ElementwiseFns THEN call.a ELSE call.res
      words == IF call.fn \in ElementwiseFns THEN call.n ELSE Here.results
  IN  [x \in Memory(call) |->
         IF x \in {base + 4 * i : i \in 0 .. words - 1}
         THEN value((x - base) \div 4) ELSE Initial(x)]

(* The vector kernel leaves in memory exactly what the scalar one does,     *)
(* for every length around the tile and group sizes: no element is left     *)
(* out, used twice or taken from another row, no partial sum is lost and    *)
(* nothing outside the result is written.  tiled_inner_product is left out  *)
(* by name: of it InnerProductStored says the same, and is false.           *)
SameAsScalar ==
  pc = "done" /\ call.fn # "tiled_inner_product" =>
    machine.mem = Expected(LAMBDA i : Scalar(call, i))

(* The instructions of a tile, the last and an only one included, are       *)
(* executed with the length that the kernel has configured for it, and one  *)
(* that the engine carries out: csr_vl has no reset value, a length of 0    *)
(* makes the engine count through 127, and one that exceeds the groups      *)
(* overwrites the other operand.  From the first tile of a segment on, j    *)
(* counts the elements done until the next segment starts.                  *)
LengthConfigured == j > 0 => machine.csr = vl /\ vl \in 1 .. Here.cap

(* The asm statements declare x16 to x31 (x28 to x31) as clobbered; the     *)
(* compiler keeps its stack pointer and its locals in the others.           *)
ClobbersDeclared ==
  \A r \in Regs : machine.regs[r] # <<"reg", r>> =>
    IF call.fn = "mat_vec_mul_32_8" THEN r \in 28 .. 31 ELSE r \in 16 .. 31

Loop == INSTANCE TileLoop WITH
  n <- Here.length, cap <- Here.cap, fixed <- ~Here.refit,
  at <- IF pc = "tile" THEN "tile" ELSE "out",
  j  <- IF pc = "tile" THEN j ELSE Here.length

(* The tiles of every kernel are those of the loop that is proved about:    *)
(* what TileLoop shows for all lengths is shown of the kernels.             *)
ImplementsTileLoop == Loop!Spec

(* "Results are stored to acc" (kernels.h:257): after the call the word     *)
(* that acc points to holds the inner product.                              *)
InnerProductStored ==
  pc = "done" /\ call.fn = "tiled_inner_product" =>
    machine.mem = Expected(LAMBDA i : Scalar(call, i))

(* A position outside the input counts as padding, as the comment of the    *)
(* test asks ("Are we in a padded dimension?").                             *)
PaddingIsZero ==
  pc = "done" /\ call.fn = "tiled_conv" =>
    machine.mem = Expected(LAMBDA i : Dot(Convolution(call, i)))
=============================================================================
