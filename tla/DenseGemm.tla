----------------------------- MODULE DenseGemm ------------------------------
(***************************************************************************)
(* The quantised matrix products of csrc/xpu/onednn: what each operator    *)
(* makes of its tensors (the problem, the strides, the scales, the key),   *)
(* what oneDNN computes from that, and what the tensors ask for.  The      *)
(* calls run through PrimitiveCache.                                       *)
(*                                                                         *)
(* Strides and addresses count values; PerWord 4-bit weights are a word of *)
(* a tensor of integers, and two fp4 values an element.                    *)
(***************************************************************************)
EXTENDS PrimitiveCache, Integers, SequencesExt, Bitwise

CONSTANTS
  Products,     (* bound: the calls a process may make, by number           *)
  PerWord,      (* 4-bit weights of an int, 8                              *)
  Shifted,      (* 2^8: the numbers of scales in a key are this far apart  *)
  Word,         (* 2^32: what an int holds                                 *)
  HashBase,     (* 131: of the hash of a tensor's sizes                    *)
  Mxfp4Group    (* elements under a scale of fp4_gemm, 32                  *)

Product(sizes) == FoldLeft(LAMBDA acc, size : acc * size, 1, sizes)
Final(seq) == seq[Len(seq)]
BeforeFinal(seq) == seq[Len(seq) - 1]

-----------------------------------------------------------------------------
(* A call: [op, types, device, a, b, given, sa, sb, za, zb, e8m0, group,   *)
(* bias]; a and b are [sizes, strides], given the strides of the caller's  *)
(* output (<<>>: none), sa, sb, za, zb and bias the sizes of scales, zero  *)
(* points and bias (<<>>: none).                                           *)
Batched(c) == c.op = "fp8_bmm"
Int4(c) == c.op \in {"int4_gemm_w4a16", "int4_gemm_w4a8"}
PackedInput(c) == IF c.op = "fp4_gemm" THEN 2 ELSE 1

Batch(c) == IF Batched(c) THEN c.a.sizes[1] ELSE 1
RowsOf(c) == Product(Front(c.a.sizes)) \div Batch(c)
ColsOf(c) == Final(c.b.sizes)
DepthOf(c) == PackedInput(c) * Final(c.a.sizes)

(* check_and_create_output_tensor: the input's layout, with its rows       *)
(* scaled to the new length.                                               *)
OutStrides(c) ==
  IF c.given # <<>> THEN c.given
  ELSE [i \in 1 .. Len(c.a.strides) |->
          IF i = Len(c.a.strides) THEN c.a.strides[i]
          ELSE (c.a.strides[i] \div Final(c.a.sizes)) * ColsOf(c)]

(* Mutant of LeadingDim: rows are never outside batches. *)
LeadingDimInner(c) == IF Len(c.a.sizes) = 2 THEN 1 ELSE 2
LeadingDim(c) ==
  IF Len(c.a.sizes) = 2 \/ c.a.strides[1] < c.a.strides[2] THEN 1 ELSE 2
Transposed(c) == Int4(c) \/ BeforeFinal(c.b.strides) = 1
Lda(c) == PackedInput(c) * c.a.strides[LeadingDim(c)]
Ldb(c) ==
  IF Int4(c) THEN PerWord * Final(c.b.strides)
  ELSE IF Final(c.b.strides) = 1 THEN BeforeFinal(c.b.strides)
  ELSE PackedInput(c) * Final(c.b.strides)
Ldc(c) == OutStrides(c)[LeadingDim(c)]

(* get_bias_type: the first shape that fits; of a batched product the rows *)
(* are those of all batches.                                               *)
Fits(c, shape) ==
  LET m == Batch(c) * RowsOf(c)
      n == ColsOf(c)
      numel == Product(c.bias)
  IN CASE shape = "scalar" -> numel = 1
       [] shape = "mn" -> numel = m * n
       [] shape = "n" -> numel = n /\ Final(c.bias) = n
       [] shape = "m" -> numel = m /\ Final(c.bias) = 1
       [] shape = "none" -> numel = 0
       [] shape = "unsupported" -> TRUE
BiasShape(c) ==
  IF c.bias = <<>> THEN "none"
  ELSE Head(SelectSeq(<<"scalar", "mn", "n", "m", "none", "unsupported">>, LAMBDA shape : Fits(c, shape)))
(* Its TORCH_CHECK, and that of dnnl_batch_matmul_w8a8_fp8. *)
Accepted(c) == BiasShape(c) \in {"none", "scalar", "n"} \cup (IF Batched(c) THEN {} ELSE {"m", "mn"})

-----------------------------------------------------------------------------
(* Attributes of a primitive: the dimensions along which there are several *)
(* scales, slowest first, and how many elements of each share one.         *)
Along(dim, group) == [dim |-> dim, group |-> group]
PerTensor == <<>>

GroupK(c) == DepthOf(c) \div c.sb[1]
ByChannel(c) == IF Product(c.sb) = 1 THEN PerTensor ELSE <<Along("n", 1)>>
Grouped(c) == <<Along("k", c.group), Along("n", 1)>>

(* What an operator makes of a call: the layouts of its scales and zero    *)
(* points, what they add to the key, and the slots it fills with them.     *)
Unscaled == [src |-> PerTensor, wei |-> PerTensor]
Makes(scales, zeros, key, zeroKey, slots) ==
  [scales |-> scales, zeros |-> zeros, key |-> key, zeroKey |-> zeroKey, slots |-> slots]

(* Two numbers of scales side by side in an int, with a bit for the format *)
E8m0Bit(c, bits) == IF c.e8m0 THEN bits + Word \div 4 ELSE bits
SideBySide(c) == (Product(c.sa) * Shifted) | Product(c.sb)

MatmulW8A8(c) ==
  LET block == Len(c.sa) = 2 /\ c.sa[2] > 1
  IN Makes([src |-> IF block THEN <<Along("m", 1), Along("k", GroupK(c))>>
                    ELSE IF Product(c.sa) = 1 THEN PerTensor
                    ELSE <<Along("m", 1), Along("k", DepthOf(c))>>,
            wei |-> IF block THEN <<Along("k", GroupK(c)), Along("n", ColsOf(c) \div c.sb[2])>>
                    ELSE ByChannel(c)],
           Unscaled, E8m0Bit(c, SideBySide(c)), 1, <<"sb", "sa">>)

(* A weight scale of one row is per channel; other blocks are square.      *)
MatmulW8A16(c) ==
  Makes([src |-> PerTensor,
         wei |-> IF Len(c.sb) = 2 /\ c.sb[1] > 1 THEN <<Along("k", GroupK(c)), Along("n", GroupK(c))>>
                 ELSE ByChannel(c)],
        Unscaled, Product(c.sb), 1, <<"sb">>)

MatmulW4A4(c) ==
  Makes([src |-> <<Along("m", 1), Along("k", Mxfp4Group)>>,
         wei |-> <<Along("k", Mxfp4Group), Along("n", 1)>>],
        Unscaled, SideBySide(c), 1, <<"sb", "sa">>)

(* The lengths of both scales' dimensions, hashed. *)
HashDims(sizes) == FoldLeft(LAMBDA acc, size : acc * HashBase + size, Len(sizes), sizes)
BatchMatmulW8A8(c) ==
  Makes([src |-> IF Product(c.sa) = 1 THEN PerTensor
                 ELSE IF Len(c.sa) = 3
                 THEN <<Along("b", 1), Along("m", 1), Along("k", DepthOf(c) \div c.sa[3])>>
                 ELSE <<Along("b", 1), Along("m", 1)>>,
         wei |-> IF Product(c.sb) = 1 THEN PerTensor
                 ELSE IF Len(c.sb) = 3
                 THEN <<Along("b", 1), Along("k", DepthOf(c) \div c.sb[2]), Along("n", ColsOf(c) \div c.sb[3])>>
                 ELSE <<Along("b", 1), Along("n", 1)>>],
        Unscaled, E8m0Bit(c, (HashDims(c.sa) * Shifted) ^^ HashDims(c.sb)), 1, <<"sb", "sa">>)

MatmulW4A16(c) ==
  LET symmetric == Len(c.zb) = 1
  IN Makes([src |-> PerTensor, wei |-> Grouped(c)],
           [src |-> PerTensor, wei |-> IF symmetric THEN PerTensor ELSE Grouped(c)],
           c.group, IF symmetric THEN 1 ELSE c.group, <<"sb", "zb">>)

(* Two numbers 32 bits apart, of which an int keeps the lower.             *)
Apart(high, low) == (Product(high) * Word + Product(low)) % Word
MatmulW4A8(c) ==
  LET inputs == IF Product(c.sa) = RowsOf(c) THEN <<Along("m", 1), Along("k", DepthOf(c))>> ELSE PerTensor
  IN Makes([src |-> inputs, wei |-> Grouped(c)],
           [src |-> inputs, wei |-> IF Product(c.zb) = 1 THEN PerTensor ELSE Grouped(c)],
           Apart(c.sa, c.sb), Apart(c.za, c.zb), <<"sa", "za", "sb", "zb">>)

Matmul(c) ==
  CASE c.op = "fp8_gemm" -> MatmulW8A8(c)
    [] c.op = "fp8_gemm_w8a16" -> MatmulW8A16(c)
    [] c.op = "fp4_gemm" -> MatmulW4A4(c)
    [] c.op = "fp8_bmm" -> BatchMatmulW8A8(c)
    [] c.op = "int4_gemm_w4a16" -> MatmulW4A16(c)
    [] c.op = "int4_gemm_w4a8" -> MatmulW4A8(c)

-----------------------------------------------------------------------------
(* get_strides and the descriptors of matmul_primitive_cache_t::get.       *)
SrcStrides(c) == <<Lda(c), 1>>
WeiStrides(c) == IF Transposed(c) THEN <<1, Ldb(c)>> ELSE <<Ldb(c), 1>>
DensePrimitive(c) ==
  [batch |-> Batch(c), m |-> RowsOf(c), n |-> ColsOf(c), k |-> DepthOf(c), types |-> c.types,
   e8m0 |-> c.e8m0,
   src |-> <<RowsOf(c) * Lda(c)>> \o SrcStrides(c),
   wei |-> <<(IF Transposed(c) THEN ColsOf(c) ELSE DepthOf(c)) * Ldb(c)>> \o WeiStrides(c),
   dst |-> <<RowsOf(c) * Ldc(c), Ldc(c), 1>>,
   bias |-> BiasShape(c), scales |-> Matmul(c).scales, zeros |-> Matmul(c).zeros]

DenseKey(c) ==
  <<SrcStrides(c), WeiStrides(c), RowsOf(c), ColsOf(c), DepthOf(c),
    IF Batched(c) THEN Batch(c) ELSE -1, BiasShape(c), Matmul(c).key, Matmul(c).zeroKey>>

(* One instance of the cache for the transposition, the types and the      *)
(* operator (its lambda's type), and in each a list for every device.      *)
DenseSpace(c) == <<Transposed(c), c.types, c.op, c.device>>

DenseAttributes(c) == Matmul(c).slots
DenseArguments(c) ==
  <<"a", "b", "out">> \o (IF BiasShape(c) = "none" THEN <<>> ELSE <<"bias">>) \o <<"scratchpad">>

-----------------------------------------------------------------------------
(* oneDNN: what a primitive reads and writes for an element of the result. *)
At(strides, i) == i[1] * strides[1] + i[2] * strides[2] + i[3] * strides[3]
ScaleIndex(p, layout, coordinate) ==
  LET extent == [b |-> p.batch, m |-> p.m, n |-> p.n, k |-> p.k]
  IN FoldLeft(LAMBDA acc, d : (acc * (extent[d.dim] \div d.group)) + (coordinate[d.dim] \div d.group),
              0, layout)
BiasIndex(p, i, j) ==
  CASE p.bias = "none" -> -1
    [] p.bias = "scalar" -> 0
    [] p.bias = "m" -> i
    [] p.bias = "n" -> j
    [] p.bias = "mn" -> i * p.n + j

Computed(p) ==
  {LET b == cell[1]
       i == cell[2]
       j == cell[3]
       at(kk) == [b |-> b, m |-> i, n |-> j, k |-> kk]
   IN [out |-> At(p.dst, <<b, i, j>>), bias |-> BiasIndex(p, i, j),
       terms |-> {[a |-> At(p.src, <<b, i, kk>>), b |-> At(p.wei, <<b, kk, j>>),
                   sa |-> ScaleIndex(p, p.scales.src, at(kk)), sb |-> ScaleIndex(p, p.scales.wei, at(kk)),
                   za |-> ScaleIndex(p, p.zeros.src, at(kk)), zb |-> ScaleIndex(p, p.zeros.wei, at(kk))] :
                  kk \in 0 .. p.k - 1}] :
     cell \in (0 .. p.batch - 1) \X (0 .. p.m - 1) \X (0 .. p.n - 1)}

-----------------------------------------------------------------------------
(* What the tensors ask for.  A row is a position in all of the input's    *)
(* dimensions but the last; a tensor of scales divides each dimension into *)
(* as many equal parts as it has entries along it.                         *)
Divided(sizes, extents, index) ==
  FoldLeft(LAMBDA acc, d : (acc * sizes[d]) + (index[d] \div (extents[d] \div sizes[d])), 0,
           [d \in 1 .. Len(sizes) |-> d])

Positions(c) ==
  IF Len(c.a.sizes) = 2 THEN {<<i>> : i \in 0 .. c.a.sizes[1] - 1}
  ELSE (0 .. c.a.sizes[1] - 1) \X (0 .. c.a.sizes[2] - 1)
RowNumber(c, pos) == IF Len(pos) = 1 THEN pos[1] ELSE pos[1] * c.a.sizes[2] + pos[2]
Address(strides, pos, last) ==
  last + FoldLeft(LAMBDA acc, d : acc + pos[d] * strides[d], 0, [d \in 1 .. Len(pos) |-> d])

(* Sizes along the rows (of a batch) and columns they are about.           *)
Single(sizes) == Product(sizes) = 1
OfRows(c, sizes) ==
  IF Batched(c) THEN IF Single(sizes) THEN <<1, 1, 1>> ELSE IF Len(sizes) = 2 THEN sizes \o <<1>> ELSE sizes
  ELSE IF Single(sizes) THEN <<1, 1>> ELSE IF Len(sizes) = 1 THEN sizes \o <<1>> ELSE sizes
OfCols(c, sizes) ==
  IF Batched(c)
  THEN IF Single(sizes) THEN <<1, 1, 1>>
       ELSE IF Len(sizes) = 3 THEN sizes ELSE <<Batch(c), 1, ColsOf(c)>>
  ELSE IF Single(sizes) THEN <<1, 1>> ELSE IF Len(sizes) = 1 THEN <<1>> \o sizes ELSE sizes

AskedRow(c, pos, kk, sizes) ==
  IF Batched(c) THEN Divided(OfRows(c, sizes), c.a.sizes, pos \o <<kk>>)
  ELSE Divided(OfRows(c, sizes), <<RowsOf(c), DepthOf(c)>>, <<RowNumber(c, pos), kk>>)
AskedCol(c, pos, kk, j, sizes) ==
  IF Batched(c) THEN Divided(OfCols(c, sizes), c.b.sizes, <<pos[1], kk, j>>)
  ELSE Divided(OfCols(c, sizes), <<DepthOf(c), ColsOf(c)>>, <<kk, j>>)
PackedWeight(c) == IF Int4(c) THEN PerWord ELSE PackedInput(c)
Packed(width, address, kk) == (width * address) + (kk % width)
AskedA(c, pos, kk) ==
  Packed(PackedInput(c), Address(c.a.strides, pos, (kk \div PackedInput(c)) * Final(c.a.strides)), kk)
AskedB(c, pos, kk, j) ==
  LET w == PackedWeight(c)
  IN Packed(w, Address(c.b.strides, IF Batched(c) THEN <<pos[1], kk \div w>> ELSE <<kk \div w>>,
                       j * Final(c.b.strides)), kk)
AskedBias(c, pos, j) ==
  IF c.bias = <<>> \/ Product(c.bias) = 0 THEN -1
  ELSE LET sizes == IF Single(c.bias) THEN <<1, 1>> ELSE IF Len(c.bias) = 1 THEN <<1>> \o c.bias ELSE c.bias
       IN Divided(sizes, <<Batch(c) * RowsOf(c), ColsOf(c)>>, <<RowNumber(c, pos), j>>)

Asked(c) ==
  {[out |-> Address(OutStrides(c), cell[1], cell[2] * Final(OutStrides(c))),
    bias |-> AskedBias(c, cell[1], cell[2]),
    terms |-> {[a |-> AskedA(c, cell[1], kk), b |-> AskedB(c, cell[1], kk, cell[2]),
                sa |-> AskedRow(c, cell[1], kk, c.sa), sb |-> AskedCol(c, cell[1], kk, cell[2], c.sb),
                za |-> AskedRow(c, cell[1], kk, c.za), zb |-> AskedCol(c, cell[1], kk, cell[2], c.zb)] :
                 kk \in 0 .. DepthOf(c) - 1}] :
     cell \in Positions(c) \X (0 .. ColsOf(c) - 1)}

-----------------------------------------------------------------------------
(* A call by its number, as the cache sees it.                             *)
SpaceOf == [i \in 1 .. Len(Products) |-> DenseSpace(Products[i])]
KeyOf == [i \in 1 .. Len(Products) |-> DenseKey(Products[i])]
PrimitiveOf == [i \in 1 .. Len(Products) |-> DensePrimitive(Products[i])]
AttributesOf == [i \in 1 .. Len(Products) |-> DenseAttributes(Products[i])]
ArgumentsOf == [i \in 1 .. Len(Products) |-> DenseArguments(Products[i])]
AskedOf == [i \in 1 .. Len(Products) |-> Asked(Products[i])]
NumberedSpace(i) == SpaceOf[i]
NumberedKey(i) == KeyOf[i]
NumberedPrimitive(i) == PrimitiveOf[i]
NumberedAttributes(i) == AttributesOf[i]
NumberedArguments(i) == ArgumentsOf[i]

(* Whatever a thread has multiplied before, each element of its result is  *)
(* the sum of the products its tensors ask for, each under the scales and  *)
(* zero points of its row, column and group, with its bias, where a reader *)
(* of the output finds it (csrc/xpu/onednn/onednn_matmul.cpp).             *)
Multiplied ==
  \A t \in Thread : submitted[t] # None =>
    Computed(submitted[t].primitive) = AskedOf[submitted[t].call]
=============================================================================
