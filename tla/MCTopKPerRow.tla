---------------------------- MODULE MCTopKPerRow ----------------------------
(* An instance of TopKPerRow for TLC, and of the sampler, its mask and the *)
(* routers: four bins scanned by two work-items in two rounds, two         *)
(* elements to select and room to sort two. Rounding to half precision     *)
(* parts keys 8 to 15, alike in their high bits, and takes 7 in with the   *)
(* first of them; small logits share a bin.                                *)
EXTENDS TopKPerRow, Sampler, ExpertTopK, GroupedTopK

MCHalfBin ==
  [x \in Key |-> CASE x < 7 -> 0 [] x \in 7 .. 11 -> 1 [] x \in 12 .. 15 -> 2 [] x > 15 -> 3]

(* A pair alike but for the lowest bit, one that differs in the middle,    *)
(* one in another half bin and one above all of these.                     *)
Sample == {3, 8, 9, 10, 12}

Row(from, to, contiguous, skew, keys, wide) ==
  [logits |-> keys, from |-> from, to |-> to, contiguous |-> contiguous, skew |-> skew,
   wide |-> wide]

(* Prefill rows with a start, strided or not; decode rows by their         *)
(* sequence's length, whole and split.                                     *)
MCInputs ==
  LET Logits(keys, to) == [0 .. to - 1 -> keys]
  IN UNION {
       {Row(1, 5, contiguous, 1, keys, FALSE) :
          contiguous \in BOOLEAN, keys \in {f \in Logits(Sample \ {12}, 5) : f[0] = 3}},
       {Row(0, RowEnd(5, 2, 0), TRUE, skew, keys, FALSE) :
          skew \in 0 .. 1, keys \in Logits(Sample, RowEnd(5, 2, 0))},
       UNION {{Row(0, to, TRUE, 0, keys, TRUE) : keys \in Logits({3, 8, 10}, to)} :
          to \in {RowEnd(s, 2, r) : s \in {2, 6}, r \in 0 .. 1}}}

-----------------------------------------------------------------------------
(* Calls of the sampler. *)
MCNegInf == -1000
MCExp == [x \in {-1000} \cup (-2 .. 40) |->
  IF x = -1000 THEN 0 ELSE IF x < 1 THEN 100 ELSE 100 + 60 * x]
MCNoise(d) == ((d.seed + 3 * d.subsequence + 2 * d.vector + d.at) % 3) + 1
(* Rows of nine tokens of four kinds: logits one apart cannot be told      *)
(* apart, and the wide ones have weights far apart.                        *)
Spread(f) == [t \in Tokens |-> f[t % 4]]
MCRows ==
  {Spread(f) : f \in {f \in [0 .. 3 -> {-1000, 0, 1, 4, 10}] : f[0] <= f[2] /\ f[1] # f[3]}}
WideRows ==
  {Spread(f) : f \in {f \in [0 .. 3 -> {-1000, 3, 17, 25, 40}] : f[0] < f[1] /\ f[1] <= f[2] /\ f[3] # -1000}}
Call(rows, k, p, mode, seeds, perRow) ==
  [rows |-> rows, k |-> k, p |-> p, mode |-> mode, seeds |-> seeds, perRow |-> perRow]
TwoRows == {Spread([i \in 0 .. 3 |-> IF i = 0 THEN -1000 ELSE 6 - i]), Spread([i \in 0 .. 3 |-> 5])}
MCCalls ==
  {Call(<<f>>, k, p, "logprobs", <<1>>, FALSE) :
     f \in MCRows, k \in {<<2>>, <<5>>, <<Vocab>>}, p \in {<<>>, <<70>>}} \cup
  {Call(<<f>>, <<>>, p, "logprobs", <<1>>, FALSE) : f \in WideRows, p \in {<<>>, <<10>>, <<70>>, <<95>>}} \cup
  {Call(<<f, g>>, k, p, mode, seeds, perRow) :
     f \in TwoRows, g \in TwoRows, k \in {<<>>, <<1, 3>>}, p \in {<<>>, <<50, 100>>},
     mode \in {"default", "logits"}, seeds \in {<<1, 2>>, <<1, 1>>}, perRow \in BOOLEAN}

-----------------------------------------------------------------------------
(* The routers of a MoE layer. *)
MCWeigh == [x \in -1 .. 4 |-> IF x = -1 THEN 0 ELSE 2 ^ x]
MCNaN == -1
Routing(op, rows, k, bias) ==
  [op |-> op, rows |-> rows, k |-> k, bias |-> bias, renormalize |-> TRUE, padding |-> {},
   ids |-> [r \in DOMAIN rows |-> r], table |-> <<>>, vlBias |-> <<>>]
Wide(f, n) == [e \in 1 .. n |-> f[(e * e) % 4]]
MCGateCalls ==
  \* Every row of four experts, two lanes of two; ties within and across lanes.
  {Routing(op, <<f>>, 3, bias) : op \in {"softmax", "sigmoid", "softplus"},
     f \in {f \in [1 .. 4 -> {0, 1, 3}] : f[1] <= f[4]}, bias \in {<<>>, <<9, 0, 7, 0>>}}
  \* One expert, eight on all lanes, sixteen in two vectors, twelve in three.
  \cup {[Routing(op, <<Wide(f, n), Wide(f, n)>>, Min({n, 5}), bias) EXCEPT !.padding = pad, !.renormalize = pad = {}] :
     op \in {"sigmoid", "softplus"}, n \in {1, 8, 12, 16},
     f \in {f \in [0 .. 3 -> {1, 2, 4}] : f[0] = 2}, bias \in {<<>>}, pad \in {{}, {1}}}
  \* Numbers of experts that fill no lanes.
  \cup {Routing(op, <<f>>, 4, bias) : op \in {"softmax", "sigmoid"},
     f \in [1 .. 5 -> {0, 3}], bias \in {<<>>, <<9, -7, 0, 7, -50>>}}
  \* Experts by table, a token of an image, logits that are no numbers.
  \cup {[Routing("softplus", <<f, f, f>>, 2, <<0, 8, 1, 0>>) EXCEPT
           !.ids = tids, !.padding = {3}, !.vlBias = vl,
           !.table = table] :
     f \in {f \in [1 .. 4 -> {MCNaN, 0, 2}] : f[2] # f[3]}, tids \in {<<>>, <<1, 5, 2>>}, vl \in {<<>>, <<3, 0, 0, 2>>},
     table \in {<<>>, <<<<3, 1>>, <<0, 2>>, <<1, 1>>, <<2, 3>>, <<3, 0>>>>}}

MCInfinite == -1000
MCSigmoid == [x \in {-1000} \cup 0 .. 3 |-> IF x = -1000 THEN 0 ELSE 10 + x]
Grouping(logits, groups, topkGroups, k, bias, sigmoid) ==
  [logits |-> logits, groups |-> groups, topkGroups |-> topkGroups, k |-> k,
   bias |-> [e \in DOMAIN logits |-> bias[e % 4]], renormalize |-> sigmoid, sigmoid |-> sigmoid]
MCUnset == {-1, 9}
MCGroupedCalls ==
  \* Two groups of six, of which five adds are made; three of three; four of two.
  {Grouping(f \o [e \in 1 .. 6 |-> f[7 - e]], 2, 2, 4, [e \in 0 .. 3 |-> e % 2], sigmoid) :
     f \in {f \in [1 .. 6 -> {MCInfinite, 0, 2}] : f[1] > f[2] /\ f[3] <= f[4] /\ f[5] # 2}, sigmoid \in BOOLEAN}
  \cup {Grouping(f, 4, 2, 3, [e \in 0 .. 3 |-> (e \div 2) * 2], sigmoid) :
     f \in {f \in [1 .. 8 -> {MCInfinite, 0, 1}] : f[1] = 0 /\ f[5] = 1 /\ f[2] > f[6] /\ f[8] # f[3]}, sigmoid \in {FALSE}}

(* The sampler and the routers are called once a certain row has had its   *)
(* answer, one of them.                                                    *)
Idle == Answered /\ RowLen = 1 /\ in.logits[0] = 8 /\ call.rows = <<>> /\ gateCall = <<>> /\ asked = <<>>

MCInit == Init /\ SamplerIdle /\ MaskIdle /\ GateIdle /\ GroupedIdle
MCNext ==
  \/ Next /\ UNCHANGED <<samplerVars, maskVars, gateVars, groupedVars>>
  \/ (Idle \/ call.rows # <<>>) /\ SamplingNext /\ UNCHANGED <<vars, gateVars, groupedVars>>
  \/ Idle /\ CallGate /\ UNCHANGED <<vars, samplerVars, maskVars, groupedVars>>
  \/ GateNext /\ UNCHANGED <<vars, samplerVars, maskVars, groupedVars>>
  \/ Idle /\ CallGrouped /\ UNCHANGED <<vars, samplerVars, maskVars, gateVars>>
  \/ GroupedNext /\ UNCHANGED <<vars, samplerVars, maskVars, gateVars>>
MCSpec ==
  MCInit /\ [][MCNext]_<<vars, samplerVars, maskVars, gateVars, groupedVars>> /\ WF_vars(Next)
=============================================================================
