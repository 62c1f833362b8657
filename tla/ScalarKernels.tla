--------------------------- MODULE ScalarKernels ---------------------------
(***************************************************************************)
(* The same operations on the scalar unit: the _cpu functions of kernels.h  *)
(* and the loops of lstm_normal/matrix_operations.c.  Each gives what the   *)
(* function leaves in memory at one index, over the symbols of KernelIsa.   *)
(***************************************************************************)
EXTENDS KernelIsa

Initial(x) == <<"mem", x>>    \* a memory word before the call

(* vec_a[i] += vec_b[i] and vec_a[i] *= vec_b[i] *)
elementwise_add_cpu(c, i) == Op("vadd", Initial(c.a + 4 * i), Initial(c.b + 4 * i))
elementwise_mul_cpu(c, i) == Op("vmul", Initial(c.a + 4 * i), Initial(c.b + 4 * i))
(* a_vector[i] *= *b_scalar and a_vector[i] += *b_scalar *)
scalar_multiplication(c, i) == Op("vmul", Initial(c.a + 4 * i), Initial(c.b))
scalar_add(c, i)            == Op("vadd", Initial(c.a + 4 * i), Initial(c.b))

(* The sum over k of a[i*cols + k] * b[k] *)
matvec_mul_cpu(c, i) == BagOfValues(c.cols, LAMBDA k : {c.a + i * c.cols + k, c.b + k})

matmul_cpu(c, o) ==
  LET i == o \div c.cols
      j == o % c.cols
  IN  BagOfValues(c.red, LAMBDA k :
        {c.a + i * c.red + k, IF c.unit THEN c.b + j * c.red + k ELSE c.b + k * c.cols + j})

inner_product(c) == BagOfValues(c.n, LAMBDA k : {c.a + k, c.b + k})

-----------------------------------------------------------------------------
(* Convolution, NHWC input.  outside(row, col) is the test for the padding; *)
(* products with the padding are zero and left out of the bag.              *)

Coords(c, o) ==
  [n |-> o \div (c.out_rows * c.out_cols * c.out_channels),
   p |-> (o \div (c.out_cols * c.out_channels)) % c.out_rows,
   q |-> (o \div c.out_channels) % c.out_cols,
   k |-> o % c.out_channels]

ConvolutionWith(c, o, outside(_, _)) ==
  LET x == Coords(c, o)
      row(r) == x.p * c.stride + r - c.padding
      col(t) == x.q * c.stride + t - c.padding
      taps == {w \in (0 .. c.kernel_rows - 1) \X (0 .. c.kernel_cols - 1) \X (0 .. c.in_channels - 1) :
                 ~outside(row(w[1]), col(w[2]))}
      input(w) == c.a + x.n * c.in_rows * c.in_cols * c.in_channels
                      + row(w[1]) * c.in_cols * c.in_channels
                      + col(w[2]) * c.in_channels + w[3]
      kernel(w) == c.b + w[1] * c.kernel_cols * c.out_channels * c.in_channels
                       + w[2] * c.out_channels * c.in_channels
                       + x.k * c.in_channels + w[3]
  IN  [pair \in {{input(w), kernel(w)} : w \in taps} |->
         Cardinality({w \in taps : {input(w), kernel(w)} = pair})]

conv_cpu(c, o) ==
  ConvolutionWith(c, o, LAMBDA row, col :
    row < 0 \/ col < 0 \/ row > c.in_rows \/ col > c.in_cols)

(* What a convolution over padded input is. *)
Convolution(c, o) ==
  ConvolutionWith(c, o, LAMBDA row, col :
    row \notin 0 .. c.in_rows - 1 \/ col \notin 0 .. c.in_cols - 1)
=============================================================================
