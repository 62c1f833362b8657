----------------------------- MODULE MCKernels -----------------------------
(***************************************************************************)
(* The kernels at their real sizes (32 registers, groups of 8): every       *)
(* length around one, two and three tiles, matrices of few rows, and small  *)
(* convolutions with and without padding and stride.                        *)
(***************************************************************************)
EXTENDS Kernels

(* int8 operands start inside a word; the results have a word to spare on   *)
(* either side of them.                                                     *)
A == 1000
B == 4001
R == 8000

MCMemory(c) ==
  IF c.fn \in ElementwiseFns
  THEN {x \in A - 32 .. A + 4 * (c.n + 8) : x % 4 = 0} \union
       {x \in c.b .. c.b + 4 * (c.n + 8) : x % 4 = 0}
  ELSE {x \in R - 4 .. R + 4 * 17 : x % 4 = 0}

Fixed == {"inplace_point32_twise_multiplication_32", "inplace_point32_twise_add",
          "inplace_point32_twise_add_scalar"}

ElementwiseCalls ==
  {[fn |-> f, a |-> A, b |-> 4000, n |-> n] : f \in ElementwiseFns \ Fixed, n \in 1 .. 20} \union
  {[fn |-> f, a |-> A, b |-> 4000, n |-> n] : f \in Fixed, n \in {8, 16, 24, 32}}

Matvec(f, widths) ==
  {[fn |-> f, a |-> A, b |-> B, res |-> R, rows |-> r, cols |-> w] : r \in 1 .. 3, w \in widths}
MatvecCalls ==
  Matvec("tiled_matvec_mul", {1, 3, 4, 31, 32, 33, 40, 64, 65}) \union
  Matvec("mat_vec_mul", {1, 7, 31, 32}) \union
  Matvec("mat_vec_mul_32_32", {4, 31, 32}) \union
  Matvec("mat_vec_mul_32_8", {1, 7, 8})

MatmulCalls ==
  {[fn |-> "tiled_matmul", a |-> A, b |-> B, res |-> R, rows |-> r, cols |-> w, red |-> k,
    unit |-> TRUE] : r \in 1 .. 2, w \in {1, 3}, k \in {1, 5, 32, 33, 64, 70}}

InnerCalls ==
  {[fn |-> "tiled_inner_product", a |-> A, b |-> B, res |-> R, n |-> k, rows |-> 1, cols |-> 1,
    unit |-> TRUE] : k \in {1, 31, 32, 33, 70}}

Conv(batches, in, channels, kernel, outs, padding, stride, zero_point) ==
  LET out == (in + 2 * padding - kernel) \div stride + 1
  IN  [fn |-> "tiled_conv", a |-> A, b |-> B, res |-> R, batch_size |-> batches,
       in_rows |-> in, in_cols |-> in, in_channels |-> channels,
       out_rows |-> out, out_cols |-> out, out_channels |-> outs,
       kernel_rows |-> kernel, kernel_cols |-> kernel, rows |-> 1, cols |-> 1,
       padding |-> padding, stride |-> stride, zero_point |-> zero_point]

ConvCalls ==
  {Conv(1, 3, ch, 2, 2, 0, 1, z) : ch \in {1, 3, 33}, z \in {0, 5}} \union
  {Conv(2, 3, 2, 2, 1, 0, 1, 0), Conv(1, 3, 2, 3, 1, 1, 1, 0), Conv(1, 4, 2, 2, 2, 0, 2, 0),
   Conv(1, 4, 2, 3, 1, 1, 2, 0), Conv(1, 2, 1, 2, 1, 1, 1, 0)}

MCCalls == ElementwiseCalls \union MatvecCalls \union MatmulCalls \union InnerCalls \union ConvCalls

PaddedConv == {Conv(1, 3, 2, 3, 1, 1, 1, 0)}
=============================================================================
