----------------------------- MODULE RowKernels -----------------------------
(* The row operators.  First their kernels, as programs of passes, and how *)
(* each operator launches them: how wide, with how many work-items, for    *)
(* how many rows each.  Then the kernels at work: the work-items of a      *)
(* group take their passes in any order between the points where they wait *)
(* for each other.                                                         *)
EXTENDS RowPasses

NumRows == FoldLeft(LAMBDA n, size : n * size, 1, rowCall.shape)
NumDims == Len(rowCall.shape) + 1
Stride == rowCall.strides
HiddenSize == rowCall.len
ScaleGroups == HiddenSize \div rowCall.group

HasWeight == IF rowCall.weight = "none" THEN <<>> ELSE <<"weight">>
HasBias == IF rowCall.bias THEN <<"bias">> ELSE <<>>

-----------------------------------------------------------------------------
(* csrc/layernorm.cpp *)
RmsNorm ==
  <<Collect("in", <<>>), SumOver, Publish("rms"), Barrier, StoreOut("in", <<"rms">> \o HasWeight)>>

RmsNormMultiRow ==
  <<Collect("in", <<>>), TreeOver, Publish("rms"), Barrier, StoreOut("in", <<"rms">> \o HasWeight)>>

(* Mutant of FusedAddRmsNorm: nothing waits for the statistic. *)
FusedAddRmsNormUnordered ==
  <<AddResidual, SumOver, Publish("rms"), StoreOut("res", <<"rms">> \o HasWeight)>>

(* The sum goes to the residual and is read back from there. *)
FusedAddRmsNorm ==
  <<AddResidual, SumOver, Publish("rms"), Barrier, StoreOut("res", <<"rms">> \o HasWeight)>>

LayerNorm ==
  <<Collect("in", <<>>), SumOver, Publish("mean"), Barrier,
    Collect("in", <<"mean">>), SumOver, Publish("rms"), Barrier,
    StoreOut("in", <<"mean", "rms">> \o HasWeight \o HasBias)>>

FusedAddLayerNorm ==
  <<AddResidual, SumOver, Publish("mean"), Barrier,
    Collect("res", <<"mean">>), SumOver, Publish("rms"), Barrier,
    StoreOut("res", <<"mean", "rms">> \o HasWeight \o HasBias)>>

(* csrc/layernorm_quant.cpp *)
RmsNormDynamicPerToken ==
  LET source == IF rowCall.add THEN "res" ELSE "in"
  IN <<IF rowCall.add THEN AddResidual ELSE Collect("in", <<>>), SumOver, Publish("rms"), Barrier,
       Collect(source, <<"rms", "weight">>), MaxOver, Publish("scale"), Barrier,
       StoreOut(source, <<"rms", "weight", "scale">>)>>

(* A work-item reads back from local memory what it has put there itself.  *)
RmsNormPerBlock ==
  <<IF rowCall.add THEN AddResidualKeep ELSE CollectKeep, SumOver, Publish("rms"), Barrier,
    Segments("row", <<"rms", "weight">>)>>

RmsNormMxfp4 ==
  <<IF rowCall.add THEN AddResidualKeep ELSE CollectKeep, SumOver, Publish("rms"), Barrier,
    Segments("row", <<"rms", "weight">>)>>

RmsNormStatic ==
  <<Collect("in", <<>>), SumOver, Publish("rms"), Barrier, StoreOut("in", <<"rms", "weight", "given">>)>>

FusedAddRmsNormStatic ==
  <<AddResidual, SumOver, Publish("rms"), Barrier, StoreOut("res", <<"rms", "weight", "given">>)>>

(* csrc/quantization *)
ScaledGroupShape == <<Convert(<<"given">>)>>

MaxReduction ==
  <<Collect("in", <<>>), Cached, Barrier>> \o
  FlattenSeq([j \in DOMAIN Halvings(MaxItems) |-> <<Halve(Halvings(MaxItems)[j]), Barrier>>]) \o
  <<AtomicMax>>
ScaledDynamic == <<Convert(<<"tensor">>)>>

PerTokenGroup ==
  <<Collect("in", <<>>), SubMaxOver, Publish("scale"), Barrier, Convert(<<"scale">>)>>
PerTokenGroupVec == <<Segments("in", <<>>)>>
DynamicPerToken ==
  <<Collect("in", <<>>), MaxOver, Publish("scale"), Barrier, Convert(<<"scale">>)>>
Mxfp4Group ==
  <<Collect("in", <<>>), SubMaxOver, Publish("scale"), Barrier, StoreOut("in", <<"scale">>)>>
Mxfp4Vec == <<Segments("in", <<>>)>>
SiluMulPerBlock == <<Segments("gated", <<>>)>>
SiluMulMxfp4 == <<Segments("gated", <<>>)>>

(* csrc/activation.cpp *)
Act == <<StoreOut("plain", <<>>)>>
ActAndMul == <<StoreOut(IF rowCall.op = "mul_and_silu" THEN "gatedSecond" ELSE "gated", <<>>)>>
ActAndMulQuant == <<StoreOut("gated", <<"given">>)>>
ActAndMulWithParam == <<StoreOut("gated", <<>>)>>
SwigluOai == <<StoreOut("pairs", <<>>)>>
SwigluStep == <<StoreOut("gated", <<>>)>>
SituAndMul == <<StoreOut("gated", <<>>)>>

-----------------------------------------------------------------------------
Aligned(tensors) == rowCall.skew \cap tensors = {}
Divides(width, numbers) == \A n \in numbers : n % width = 0
Items(width) == Least(HiddenSize \div width, MaxItems)
OneRow(program, width) == Kernel(program, width, 1, Items(width), NumRows, HiddenSize)
(* Whole sub-groups, as many as have a vector each. *)
WholeSubGroups(program) ==
  Kernel(program, VecWidth, 1, Least(RoundUp(HiddenSize \div VecWidth, SubGroup), MaxItems), NumRows,
         HiddenSize)

(* Mutant of CallRmsNorm: a tree over any number of work-items. *)
CallRmsNormAnyTree ==
  LET vectors == HiddenSize \div VecWidth
      canVec == Aligned({"in", "out", "weight"}) /\ Divides(VecWidth, {HiddenSize} \cup Range(Stride))
  IN IF canVec /\ vectors <= SubGroup /\ NumRows % RowsPerWG = 0
     THEN Kernel(RmsNormMultiRow, VecWidth, RowsPerWG, vectors, NumRows \div RowsPerWG, HiddenSize)
     ELSE OneRow(RmsNorm, IF canVec THEN VecWidth ELSE 1)

(* Vectors only where every row starts at one; short rows share a group,   *)
(* each with a whole share of a sub-group.                                 *)
CallRmsNorm ==
  LET vectors == HiddenSize \div VecWidth
      canVec == Aligned({"in", "out", "weight"}) /\ Divides(VecWidth, {HiddenSize} \cup Range(Stride))
  IN IF canVec /\ vectors <= SubGroup /\ NumRows % RowsPerWG = 0 /\ SubGroup % vectors = 0
     THEN Kernel(RmsNormMultiRow, VecWidth, RowsPerWG, vectors, NumRows \div RowsPerWG, HiddenSize)
     ELSE OneRow(RmsNorm, IF canVec THEN VecWidth ELSE 1)

CallFusedAddRmsNorm ==
  OneRow(FusedAddRmsNorm,
    IF Aligned({"in", "res", "weight"}) /\ Divides(VecWidth, {HiddenSize, Last(Stride)})
    THEN VecWidth ELSE 1)

CallLayerNorm ==
  OneRow(LayerNorm,
    IF Aligned({"in", "out", "weight", "bias"}) /\ HiddenSize % VecWidth = 0 THEN VecWidth ELSE 1)

CallFusedAddLayerNorm ==
  OneRow(FusedAddLayerNorm,
    IF Aligned({"in", "res", "weight", "bias"}) /\ Divides(VecWidth, {HiddenSize, Last(Stride)})
    THEN VecWidth ELSE 1)

CallRmsNormDynamicPerToken == OneRow(RmsNormDynamicPerToken, 1)

(* As many work-items as elements, each with a vector or none. *)
CallRmsNormPerBlock ==
  [OneRow(RmsNormPerBlock, VecWidth) EXCEPT !.items = Least(HiddenSize, MaxItems)]
CallRmsNormMxfp4 ==
  [OneRow(RmsNormMxfp4, VecWidth) EXCEPT !.items = Least(HiddenSize, MaxItems)]

(* The widest vector that divides the row: std::gcd with a power of two, a *)
(* loop of halvings (csrc/activation.cpp).                                 *)
WidestDividing(n) ==
  CHOOSE w \in 1 .. VecWidth :
    /\ VecWidth % w = 0 /\ n % w = 0
    /\ \A v \in 1 .. VecWidth : VecWidth % v = 0 /\ n % v = 0 => v <= w

StaticWidth ==
  LET w == WidestDividing(HiddenSize) IN IF Last(Stride) % w = 0 THEN w ELSE 1
CallRmsNormStatic == OneRow(RmsNormStatic, StaticWidth)
CallFusedAddRmsNormStatic == OneRow(FusedAddRmsNormStatic, StaticWidth)

StaticScaledFp8Quant == Kernel(ScaledGroupShape, VecWidth, 1, MaxItems, NumRows, HiddenSize)

(* The number of sub-groups that share a work-group. *)
GroupsPerBlock(n) ==
  CHOOSE b \in {16, 8, 4, 2, 1} : n % b = 0 /\ \A c \in {16, 8, 4, 2, 1} : n % c = 0 => c <= b
GroupKernel(program) ==
  LET n == NumRows * ScaleGroups
      b == GroupsPerBlock(n)
  IN Kernel(program, IF rowCall.group % VecWidth = 0 THEN VecWidth ELSE 1, b, SubGroup, n \div b,
            rowCall.group)

PerTokenGroupQuantFp8 ==
  IF rowCall.group % VecWidth = 0 /\ HiddenSize % VecWidth = 0 /\ rowCall.group \div VecWidth <= SubGroup
  THEN WholeSubGroups(PerTokenGroupVec)
  ELSE GroupKernel(PerTokenGroup)

PerTokenGroupQuantMxfp4 ==
  IF HiddenSize % rowCall.group = 0 /\ rowCall.group % VecWidth = 0
  THEN WholeSubGroups(Mxfp4Vec) ELSE GroupKernel(Mxfp4Group)

CallDynamicPerToken ==
  [OneRow(DynamicPerToken, IF HiddenSize % VecWidth = 0 THEN VecWidth ELSE 1)
     EXCEPT !.items = Least(HiddenSize, MaxItems)]

LaunchActivation == OneRow(Act, 1)
LaunchActivationGate == OneRow(ActAndMul, WidestDividing(HiddenSize))
LaunchActivationWithParam == OneRow(ActAndMulWithParam, WidestDividing(HiddenSize))
LaunchActivationQuant == OneRow(ActAndMulQuant, WidestDividing(HiddenSize))

(* The narrowest vector with which the group covers the row at once. *)
SituWidth ==
  LET enough == {w \in 1 .. VecWidth : VecWidth % w = 0 /\ w * Least(HiddenSize, MaxItems) >= HiddenSize}
      w == IF enough = {} THEN VecWidth ELSE CHOOSE n \in enough : \A v \in enough : n <= v
  IN IF HiddenSize % w = 0 THEN w ELSE 1
LaunchSitu == OneRow(SituAndMul, SituWidth)

(* What each operator puts in the queue: gemma's and nemotron's norms are  *)
(* the same kernels, with one added to the weight.                         *)
NormsLaunched ==
  CASE rowCall.op = "rms_norm" -> <<CallRmsNorm>>
    [] rowCall.op = "fused_add_rms_norm" -> <<CallFusedAddRmsNorm>>
LayerNormsLaunched ==
  CASE rowCall.op = "layer_norm" -> <<CallLayerNorm>>
    [] rowCall.op = "fused_add_layer_norm" -> <<CallFusedAddLayerNorm>>
QuantNormsLaunched ==
  CASE rowCall.op = "rms_norm_dynamic_per_token_quant" -> <<CallRmsNormDynamicPerToken>>
    [] rowCall.op = "rms_norm_per_block_quant" -> <<CallRmsNormPerBlock>>
    [] rowCall.op = "rms_norm_mxfp4_quant" -> <<CallRmsNormMxfp4>>
    [] rowCall.op = "rms_norm_static_fp8_quant" -> <<CallRmsNormStatic>>
    [] rowCall.op = "fused_add_rms_norm_static_fp8_quant" -> <<CallFusedAddRmsNormStatic>>
ActivationsLaunched ==
  CASE rowCall.op = "gelu_new" -> <<LaunchActivation>>
    [] rowCall.op \in {"silu_and_mul", "mul_and_silu"} -> <<LaunchActivationGate>>
    [] rowCall.op = "silu_and_mul_quant" -> <<LaunchActivationQuant>>
    [] rowCall.op = "fatrelu_and_mul" -> <<LaunchActivationWithParam>>
    [] rowCall.op = "situ_and_mul" -> <<LaunchSitu>>
    [] rowCall.op = "swigluoai_and_mul" -> <<OneRow(SwigluOai, 1)>>
    [] rowCall.op = "swiglustep_and_mul" -> <<OneRow(SwigluStep, 1)>>
(* Over a maximum the first of the two kernels leaves.                     *)
DynamicScaledFp8Quant ==
  LET whole(program) == Kernel(program, 1, 1, MaxItems, NumRows, HiddenSize)
  IN <<whole(MaxReduction), whole(ScaledDynamic)>>
SiluMulPerBlockQuant == WholeSubGroups(SiluMulPerBlock)
SiluMulMxfp4Quant == WholeSubGroups(SiluMulMxfp4)

Launched ==
  CASE rowCall.op \in {"rms_norm", "fused_add_rms_norm"} -> NormsLaunched
    [] rowCall.op \in {"layer_norm", "fused_add_layer_norm"} -> LayerNormsLaunched
    [] rowCall.op \in {"rms_norm_dynamic_per_token_quant", "rms_norm_per_block_quant",
                       "rms_norm_mxfp4_quant", "rms_norm_static_fp8_quant",
                       "fused_add_rms_norm_static_fp8_quant"} -> QuantNormsLaunched
    [] rowCall.op = "static_scaled_fp8_quant" -> <<StaticScaledFp8Quant>>
    [] rowCall.op = "dynamic_scaled_fp8_quant" -> DynamicScaledFp8Quant
    [] rowCall.op = "per_token_group_quant_fp8" -> <<PerTokenGroupQuantFp8>>
    [] rowCall.op = "per_token_group_quant_mxfp4" -> <<PerTokenGroupQuantMxfp4>>
    [] rowCall.op = "dynamic_per_token_scaled_fp8_quant" -> <<CallDynamicPerToken>>
    [] rowCall.op = "silu_and_mul_per_block_quant" -> <<SiluMulPerBlockQuant>>
    [] rowCall.op = "silu_and_mul_mxfp4_quant" -> <<SiluMulMxfp4Quant>>
    [] OTHER -> ActivationsLaunched

-----------------------------------------------------------------------------
Running == rowQueue[1]
Item == 0 .. Running.rows * Running.items - 1
Row(t) == rowGroup * Running.rows + t \div Running.items   \* row (or group) of a work-item
Column(t) == t % Running.items

-----------------------------------------------------------------------------
(* Where the rows of the input start, by the strides of up to three outer  *)
(* dimensions; the first of them selects the row of a stacked weight.      *)
Outer(r) ==
  LET size2 == Last(rowCall.shape)
      size3 == rowCall.shape[NumDims - 2]
  IN CASE NumDims = 2 -> <<r>>
       [] NumDims = 3 -> <<r \div size2, r % size2>>
       [] NumDims = 4 -> <<r \div (size3 * size2), (r % (size3 * size2)) \div size2,
                        (r % (size3 * size2)) % size2>>
Dot(index) == FoldFunction(+, 0, [d \in DOMAIN Stride |-> index[d] * Stride[d]])
Gated == rowCall.op \in {"silu_and_mul", "mul_and_silu", "silu_and_mul_quant", "swigluoai_and_mul",
                         "swiglustep_and_mul", "fatrelu_and_mul", "situ_and_mul",
                         "silu_and_mul_per_block_quant", "silu_and_mul_mxfp4_quant"}
InRow(r) ==
  IF Gated THEN r * 2 * HiddenSize
  ELSE IF Running.len # HiddenSize THEN r * Running.len   \* a group
  ELSE Dot(Outer(r))
WeightRow(r) == IF rowCall.weight = "stacked" THEN Outer(r)[1] * HiddenSize ELSE 0
(* The fused adds put their answer where the input was. *)
InPlace == rowCall.op \in {"fused_add_rms_norm", "fused_add_layer_norm"}
Target == IF InPlace THEN "in" ELSE "out"
OutAt(r, c) == IF InPlace THEN InRow(r) + c ELSE r * Running.len + c

(* A vector at an address that is not a multiple of its size reads         *)
(* anything.                                                               *)
Fetch(tensor, value, rowStart) ==
  IF (rowStart + (IF tensor \in rowCall.skew THEN 1 ELSE 0)) % Running.width = 0
  THEN value ELSE Lost

InValue(r, c) == Fetch("in", rowMem["in"][InRow(r) + c], InRow(r))
ResValue(r, c) == Fetch("res", rowMem["res"][r * HiddenSize + c], r * HiddenSize)
Gate(r, gate, up) ==
  By(rowMem["in"][InRow(r) + gate], "act", One(rowMem["in"][InRow(r) + up]))

Source(from, r, c) ==
  CASE from = "in" -> InValue(r, c)
    [] from = "res" -> ResValue(r, c)
    [] from = "both" -> Val(InValue(r, c).x \cup ResValue(r, c).x)
    [] from = "row" -> rowLocal.row[c]
    [] from = "plain" -> By(InValue(r, c), "act", EmptyBag)
    [] from = "gated" -> Gate(r, c, HiddenSize + c)
    [] from = "gatedSecond" -> Gate(r, HiddenSize + c, c)
    [] from = "pairs" -> Gate(r, 2 * c, 2 * c + 1)

(* static_scaled_fp8_quant: one scale for every group of rows and columns; *)
(* of a flat tensor of scales the dimension in which there is one has      *)
(* stride 0.                                                               *)
Shaped == rowCall.op = "static_scaled_fp8_quant"
GroupM == NumRows \div rowCall.scaleShape[1]
GroupN == HiddenSize \div rowCall.scaleShape[2]
StrideI ==
  IF rowCall.scaleRank = 2 THEN rowCall.scaleShape[2] ELSE IF rowCall.scaleShape[1] = 1 THEN 0 ELSE 1
StrideJ == IF rowCall.scaleRank = 1 /\ rowCall.scaleShape[2] = 1 THEN 0 ELSE 1
GivenScale(r, c) ==
  IF Shaped THEN (r \div GroupM) * StrideI + (c \div GroupN) * StrideJ ELSE 0

(* What a link of a chain multiplies, subtracts or divides by.             *)
Operand(what, t, c) ==
  CASE what \in {"mean", "rms", "scale"} -> rowLocal[what][t \div Running.items]
    [] what = "weight" ->
         One(Fetch("weight", Val({<<"weight", WeightRow(Row(t)) + c>>}), WeightRow(Row(t))))
    [] what = "bias" -> One(Val({<<"bias", c>>}))
    [] what = "given" -> One(Val({<<"scale", GivenScale(Row(t), c)>>}))
    [] what = "tensor" -> rowMem["scales"][0]
Processed(from, chain, t, c) ==
  FoldLeft(LAMBDA v, what : By(v, what, Operand(what, t, c)), Source(from, Row(t), c), chain)

-----------------------------------------------------------------------------
(* The elements a work-item goes over: whole vectors, strided.             *)
Visited(t) ==
  {c \in 0 .. (Running.len \div Running.width) * Running.width - 1 :
     (c \div Running.width) % Running.items = Column(t)}

(* vectorize_with_alignment: up to the first vector, vectors, the rest.    *)
Covered(t, start, n) ==
  LET head == IF start % VecWidth = 0 THEN 0 ELSE Least(VecWidth - (start % VecWidth), n)
      tail == head + ((n - head) \div VecWidth) * VecWidth
      strided(a, b, w) == {c \in a .. b - 1 : ((c - a) \div w) % Running.items = Column(t)}
  IN strided(0, head, 1) \cup strided(head, tail, VecWidth) \cup strided(tail, n, 1)

(* By row where it has one scale, by column group where those hold whole   *)
(* vectors, element by element; kernels with a scale of their own convert  *)
(* rows of whole vectors in vectors.                                       *)
Converted(t) ==
  LET start == InRow(Row(t)) + (IF "in" \in rowCall.skew THEN 1 ELSE 0)
  IN IF Shaped
     THEN IF StrideJ = 0 /\ HiddenSize % VecWidth = 0 THEN Covered(t, start, HiddenSize)
          ELSE IF GroupN % VecWidth = 0
               THEN UNION {{g * GroupN + c : c \in Covered(t, start + g * GroupN, GroupN)} :
                             g \in 0 .. HiddenSize \div GroupN - 1}
               ELSE {c \in 0 .. HiddenSize - 1 : c % Running.items = Column(t)}
     ELSE IF rowCall.op = "dynamic_scaled_fp8_quant" \/ Running.len % VecWidth = 0
          THEN Covered(t, start, Running.len)
          ELSE {c \in 0 .. Running.len - 1 : c % Running.items = Column(t)}

(* Scales by token and group, or by group and token.                       *)
ScaleAt(r, g) == IF rowCall.transposed THEN g * NumRows + r ELSE r * ScaleGroups + g
ScaleOfRow(r) ==
  IF Running.len # HiddenSize THEN ScaleAt(r \div ScaleGroups, r % ScaleGroups) ELSE r

-----------------------------------------------------------------------------
On(t, do) == rowAt[t] \in DOMAIN Running.program /\ Running.program[rowAt[t]].do = do
PassOf(t) == Running.program[rowAt[t]]
AdvanceItems(s) == rowAt' = [t \in Item |-> IF t \in s THEN rowAt[t] + 1 ELSE rowAt[t]]

CollectPass(t) ==
  /\ On(t, "collect")
  /\ LET p == PassOf(t)
         got == [c \in Visited(t) |-> Processed(p.from, p.chain, t, c)]
     IN /\ rowAcc' = [rowAcc EXCEPT ![t] = BagOfValues(got)]
        /\ rowLocal' = IF "row" \in p.into THEN [rowLocal EXCEPT !.row = got @@ @] ELSE rowLocal
        /\ rowMem' = IF "res" \in p.into
                     THEN [rowMem EXCEPT !["res"] =
                             [a \in {Row(t) * HiddenSize + c : c \in Visited(t)} |->
                                got[a - Row(t) * HiddenSize]] @@ @]
                     ELSE rowMem
  /\ AdvanceItems({t})

Stores(t, columns) ==
  LET p == PassOf(t)
      r == Row(t)
  IN rowMem' = [rowMem EXCEPT ![Target] =
       [a \in {OutAt(r, c) : c \in columns} |->
          Processed(p.from, p.chain, t, a - OutAt(r, 0))] @@ @]

StorePass(t) ==
  /\ On(t, "store") /\ Stores(t, Visited(t)) /\ AdvanceItems({t})
  /\ UNCHANGED <<rowAcc, rowLocal>>
ConvertPass(t) ==
  /\ On(t, "convert") /\ Stores(t, Converted(t)) /\ AdvanceItems({t})
  /\ UNCHANGED <<rowAcc, rowLocal>>

(* Of a scale every kernel stores a copy for the caller.                   *)
PublishPass(t) ==
  /\ On(t, "publish")
  /\ LET stat == PassOf(t).from
         r == t \div Running.items
     IN IF Column(t) = 0
        THEN /\ rowLocal' = [rowLocal EXCEPT ![stat] = (r :> rowAcc[t]) @@ @]
             /\ rowMem' = IF stat = "scale"
                          THEN [rowMem EXCEPT !["scales"] = (ScaleOfRow(Row(t)) :> rowAcc[t]) @@ @]
                          ELSE rowMem
        ELSE UNCHANGED <<rowLocal, rowMem>>
  /\ AdvanceItems({t})
  /\ UNCHANGED rowAcc

(* shift_group_left by each offset: within a row's work-items, as long as  *)
(* the rows' shares of the sub-group are whole.                            *)
TreeSums(s) ==
  LET lane(t) == t % SubGroup
      from(t, offset) == IF t + offset \in s THEN t + offset ELSE t
      step(acc, offset) ==
        [t \in s |-> IF lane(t) % Running.items < offset THEN acc[t] (+) acc[from(t, offset)] ELSE acc[t]]
  IN FoldLeft(step, [t \in s |-> rowAcc[t]], Halvings(Running.items))

Subgroups == {{t \in Item : t \div SubGroup = k} : k \in {t \div SubGroup : t \in Item}}
Together(s, do) == \A t \in s : On(t, do)

(* The group, or a sub-group, reduces: every work-item has to come.        *)
ReducePass ==
  /\ \/ /\ Together(Item, "sum")
        /\ LET total == FoldSet(LAMBDA t, acc : acc (+) rowAcc[t], EmptyBag, Item)
           IN rowAcc' = [t \in Item |-> total]
        /\ AdvanceItems(Item)
     \/ /\ Together(Item, "max")
        /\ LET largest == Distinct(FoldSet(LAMBDA t, acc : acc (+) rowAcc[t], EmptyBag, Item))
           IN rowAcc' = [t \in Item |-> largest]
        /\ AdvanceItems(Item)
     \/ \E s \in Subgroups :
          /\ \/ /\ Together(s, "tree")
                /\ rowAcc' = TreeSums(s) @@ rowAcc
             \/ /\ Together(s, "submax")
                /\ LET largest == Distinct(FoldSet(LAMBDA t, acc : acc (+) rowAcc[t], EmptyBag, s))
                   IN rowAcc' = [t \in s |-> largest] @@ rowAcc
          /\ AdvanceItems(s)
  /\ UNCHANGED <<rowLocal, rowMem>>

BarrierPass ==
  /\ Together(Item, "barrier") /\ AdvanceItems(Item)
  /\ UNCHANGED <<rowAcc, rowLocal, rowMem>>

(* The first lane of each group's share stores the scale, every lane its   *)
(* vector, wave by wave.                                                   *)
SegmentsPass(s) ==
  /\ Together(s, "segments")
  /\ LET t0 == CHOOSE t \in s : TRUE
         p == PassOf(t0)
         r == Row(t0)
         chunks == HiddenSize \div VecWidth
         lanes == rowCall.group \div VecWidth
         waves == 0 .. (chunks + Running.items - 1) \div Running.items - 1
         chunk(t, w) == w * Running.items + t
         active == {<<t, w>> \in s \X waves : chunk(t, w) < chunks}
         elements(i) == {chunk(i[1], i[2]) * VecWidth + k : k \in 0 .. VecWidth - 1}
         value(t, c) == Processed(p.from, p.chain, t, c)
         block(t) == (t % SubGroup) \div Reach(lanes)
         peers(i) == {j \in active : j[2] = i[2] /\ block(j[1]) = block(i[1])}
         scale(i) == SetToBag(UNION {{value(j[1], c) : c \in elements(j)} : j \in peers(i)})
         holder(c) == CHOOSE i \in active : c \in elements(i)
         storing == {i \in active : (i[1] % SubGroup) % lanes = 0}
         slot(i) == ScaleAt(r, chunk(i[1], i[2]) \div lanes)
     IN rowMem' = [rowMem EXCEPT
          !["out"] = [a \in {OutAt(r, c) : c \in UNION {elements(i) : i \in active}} |->
                        LET c == a - OutAt(r, 0)
                        IN By(value(holder(c)[1], c), "scale", scale(holder(c)))] @@ @,
          !["scales"] = [a \in {slot(i) : i \in storing} |->
                           scale(CHOOSE i \in storing : slot(i) = a)] @@ @]
  /\ AdvanceItems(s)
  /\ UNCHANGED <<rowAcc, rowLocal>>

(* segmented_max_reduction_strided: the tree in local memory.              *)
CachePass(t) ==
  /\ On(t, "cache")
  /\ rowLocal' = [rowLocal EXCEPT !.cache = (t :> Distinct(rowAcc[t])) @@ @]
  /\ AdvanceItems({t})
  /\ UNCHANGED <<rowAcc, rowMem>>
HalvePass(t) ==
  /\ On(t, "halve")
  /\ LET offset == PassOf(t).chain[1]
         cells == rowLocal.cache
     IN rowLocal' = IF t < offset
                    THEN [rowLocal EXCEPT !.cache = (t :> Distinct(cells[t] (+) cells[t + offset])) @@ @]
                    ELSE rowLocal
  /\ AdvanceItems({t})
  /\ UNCHANGED <<rowAcc, rowMem>>
AtomicMaxPass(t) ==
  /\ On(t, "atomic")
  /\ rowMem' = IF t = 0
               THEN [rowMem EXCEPT !["scales"] = (0 :> Distinct(@[0] (+) rowLocal.cache[0])) @@ @]
               ELSE rowMem
  /\ AdvanceItems({t})
  /\ UNCHANGED <<rowAcc, rowLocal>>

-----------------------------------------------------------------------------
Lanes(kernel) == 0 .. kernel.rows * kernel.items - 1
NoLocal(kernel) ==
  LET none == [k \in 0 .. kernel.rows - 1 |-> EmptyBag]
  IN [mean |-> none, rms |-> none, scale |-> none, row |-> [c \in 0 .. kernel.len - 1 |-> Lost],
      cache |-> [t \in 0 .. MaxItems - 1 |-> EmptyBag]]

(* Outputs are as the caller allocated them; a maximum starts from zero    *)
(* (queue.memset).                                                         *)
RowInit ==
  /\ rowCall \in RowCalls
  /\ rowQueue = Launched
  /\ rowGroup = 0
  /\ rowAt = [t \in Lanes(rowQueue[1]) |-> 1]
  /\ rowAcc = [t \in Lanes(rowQueue[1]) |-> EmptyBag]
  /\ rowLocal = NoLocal(rowQueue[1])
  /\ LET last == FoldFunction(+, 0, [d \in DOMAIN Stride |-> (rowCall.shape[d] - 1) * Stride[d]])
         size == IF Gated THEN 2 * NumRows * HiddenSize ELSE last + HiddenSize
     IN rowMem = [in |-> [a \in 0 .. size - 1 |-> Val({<<"in", a>>})],
                  res |-> [a \in 0 .. NumRows * HiddenSize - 1 |-> Val({<<"res", a>>})],
                  out |-> [a \in 0 .. NumRows * HiddenSize - 1 |-> Lost],
                  scales |-> [a \in 0 .. NumRows * ScaleGroups - 1 |-> EmptyBag]]

(* The work-group is done: the next one, or the next kernel of the queue.  *)
NextGroup ==
  /\ \A t \in Item : rowAt[t] > Len(Running.program)
  /\ IF rowGroup + 1 < Running.groups
     THEN rowGroup' = rowGroup + 1 /\ UNCHANGED rowQueue
     ELSE rowGroup' = 0 /\ rowQueue' = Tail(rowQueue)
  /\ IF rowQueue' = <<>> THEN UNCHANGED <<rowAt, rowAcc, rowLocal>>
     ELSE /\ rowAt' = [t \in Lanes(rowQueue'[1]) |-> 1]
          /\ rowAcc' = [t \in Lanes(rowQueue'[1]) |-> EmptyBag]
          /\ rowLocal' = NoLocal(rowQueue'[1])
  /\ UNCHANGED rowMem

RowNext ==
  /\ rowQueue # <<>>
  /\ \/ \E t \in Item : \/ CollectPass(t) \/ StorePass(t) \/ ConvertPass(t) \/ PublishPass(t)
                          \/ CachePass(t) \/ HalvePass(t) \/ AtomicMaxPass(t)
     \/ \E s \in Subgroups : SegmentsPass(s)
     \/ ReducePass \/ BarrierPass
  /\ UNCHANGED <<rowCall, rowQueue, rowGroup>>

rowVars == <<rowCall, rowQueue, rowGroup, rowAt, rowAcc, rowLocal, rowMem>>
RowStep == RowNext \/ (rowQueue # <<>> /\ NextGroup /\ UNCHANGED rowCall)
RowSpec == RowInit /\ [][RowStep]_rowVars /\ WF_rowVars(RowStep)

-----------------------------------------------------------------------------
(* What an operator promises of a row, whoever computes it: r is the index *)
(* of a token, c of an element.                                            *)
RowIndex == 0 .. NumRows - 1
ColIndex == 0 .. HiddenSize - 1

Adds == InPlace \/ rowCall.op = "fused_add_rms_norm_static_fp8_quant" \/ rowCall.add
Norms ==
  CASE rowCall.op \in {"layer_norm", "fused_add_layer_norm"} -> <<"mean", "rms">>
    [] rowCall.op \in {"rms_norm", "fused_add_rms_norm", "rms_norm_dynamic_per_token_quant",
                       "rms_norm_per_block_quant", "rms_norm_mxfp4_quant", "rms_norm_static_fp8_quant",
                       "fused_add_rms_norm_static_fp8_quant"} -> <<"rms">>
    [] OTHER -> <<>>
ScaledBy ==
  CASE rowCall.op \in {"static_scaled_fp8_quant", "silu_and_mul_quant", "rms_norm_static_fp8_quant",
                       "fused_add_rms_norm_static_fp8_quant"} -> "given"
    [] rowCall.op = "dynamic_scaled_fp8_quant" -> "tensor"
    [] rowCall.op \in {"dynamic_per_token_scaled_fp8_quant", "rms_norm_dynamic_per_token_quant"} -> "token"
    [] rowCall.op \in {"per_token_group_quant_fp8", "per_token_group_quant_mxfp4",
                       "rms_norm_per_block_quant", "rms_norm_mxfp4_quant",
                       "silu_and_mul_per_block_quant", "silu_and_mul_mxfp4_quant"} -> "group"
    [] OTHER -> "none"

(* The dimensions of a token, the last one fastest. *)
Coordinate(r, d) ==
  (r \div FoldLeft(LAMBDA n, size : n * size, 1, SubSeq(rowCall.shape, d + 1, Len(rowCall.shape))))
    % rowCall.shape[d]
StartOf(r) == FoldFunction(+, 0, [d \in DOMAIN Stride |-> Coordinate(r, d) * Stride[d]])
RowElements(r) ==
  LET in(c) == <<"in", StartOf(r) + c>>
      half(c) == <<"in", r * 2 * HiddenSize + c>>
      gate(a, b) == By(Val({half(a)}), "act", One(Val({half(b)})))
  IN [c \in ColIndex |->
        CASE rowCall.op = "gelu_new" -> By(Val({in(c)}), "act", EmptyBag)
          [] rowCall.op = "mul_and_silu" -> gate(HiddenSize + c, c)
          [] rowCall.op = "swigluoai_and_mul" -> gate(2 * c, 2 * c + 1)
          [] Gated /\ rowCall.op \notin {"mul_and_silu", "swigluoai_and_mul"} -> gate(c, HiddenSize + c)
          [] Adds -> Val({in(c), <<"res", r * HiddenSize + c>>})
          [] OTHER -> Val({in(c)})]

(* A statistic is of the whole row, each element once. *)
Normalised(r) ==
  FoldLeft(LAMBDA row, stat : [c \in ColIndex |-> By(row[c], stat, SetToBag(Range(row)))],
           RowElements(r), Norms)
Affine(r) ==
  LET row == IF rowCall.weight = "stacked" THEN Coordinate(r, 1) ELSE 0
      weight(c) == <<"weight", row * HiddenSize + c>>
      weighted == [c \in ColIndex |-> IF rowCall.weight = "none" THEN Normalised(r)[c]
                                      ELSE By(Normalised(r)[c], "weight", One(Val({weight(c)})))]
  IN [c \in ColIndex |-> IF rowCall.bias THEN By(weighted[c], "bias", One(Val({<<"bias", c>>})))
                         ELSE weighted[c]]

(* What shares a scale, and which of the given scales is an element's.     *)
SameScale(c) == {k \in ColIndex : k \div rowCall.group = c \div rowCall.group}
ScaleOf(r, c) ==
  CASE ScaledBy = "tensor" -> SetToBag(UNION {Range(Affine(q)) : q \in RowIndex})
    [] ScaledBy = "token" -> SetToBag(Range(Affine(r)))
    [] ScaledBy = "group" -> SetToBag({Affine(r)[k] : k \in SameScale(c)})
    [] ScaledBy = "given" ->
         LET part(n, parts, i) == CHOOSE k \in 0 .. parts - 1 : i \in k * (n \div parts) .. (k + 1) * (n \div parts) - 1
             scales == rowCall.scaleShape
         IN One(Val({<<"scale", part(NumRows, scales[1], r) * scales[2] + part(HiddenSize, scales[2], c)>>}))
Promised(r, c) ==
  IF ScaledBy = "none" THEN Affine(r)[c]
  ELSE By(Affine(r)[c], IF ScaledBy \in {"token", "group"} THEN "scale" ELSE ScaledBy, ScaleOf(r, c))

(* Every operator leaves in every element of every row what it promises:   *)
(* normalised by statistics of the whole row and of no other, each element *)
(* counted once, weighted by the weights of its own column (and, stacked,  *)
(* of its own leading index), divided by the scale of exactly the elements *)
(* that share one; the caller finds each scale where its layout says; a    *)
(* fused add leaves the sum in the residual; and nothing else is written.  *)
RowsComputed ==
  rowQueue = <<>> =>
    /\ \A r \in RowIndex, c \in ColIndex :
         rowMem[Target][IF InPlace THEN StartOf(r) + c ELSE r * HiddenSize + c] = Promised(r, c)
    /\ Adds => \A r \in RowIndex, c \in ColIndex : rowMem["res"][r * HiddenSize + c] = RowElements(r)[c]
    /\ ScaledBy = "tensor" => rowMem["scales"][0] = ScaleOf(0, 0)
    /\ ScaledBy = "token" => \A r \in RowIndex : rowMem["scales"][r] = ScaleOf(r, 0)
    /\ ScaledBy = "group" =>
         \A r \in RowIndex, g \in 0 .. ScaleGroups - 1 :
           rowMem["scales"][IF rowCall.transposed THEN g * NumRows + r ELSE r * ScaleGroups + g]
             = ScaleOf(r, g * rowCall.group)
    /\ \A a \in DOMAIN rowMem["in"] :
         (~InPlace \/ \A r \in RowIndex, c \in ColIndex : a # StartOf(r) + c)
           => rowMem["in"][a] = Val({<<"in", a>>})
=============================================================================
