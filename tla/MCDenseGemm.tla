---------------------------- MODULE MCDenseGemm -----------------------------
(* Processes that make a few products each, from one thread or two. *)
EXTENDS DenseGemm

Tensor(sizes, strides) == [sizes |-> sizes, strides |-> strides]
Dense(sizes) ==
  Tensor(sizes, [d \in 1 .. Len(sizes) |-> Product(SubSeq(sizes, d + 1, Len(sizes)))])
(* A weight stored by columns: two last dimensions swapped. *)
ByColumn(k, n) == Tensor(<<k, n>>, <<1, k>>)

Call(op, a, b) ==
  [op |-> op, types |-> "f16", device |-> 0, a |-> a, b |-> b, given |-> <<>>, sa |-> <<1>>, sb |-> <<1>>,
   za |-> <<>>, zb |-> <<>>, e8m0 |-> FALSE, group |-> 0, bias |-> <<>>]
Scaled(call, sa, sb) == [call EXCEPT !.sa = sa, !.sb = sb]
Fp8(m) == Call("fp8_gemm", Dense(<<m, 4>>), ByColumn(4, 6))
W4A16(m, zb) ==
  [Call("int4_gemm_w4a16", Dense(<<m, 4>>), ByColumn(2, 3)) EXCEPT
     !.sb = <<2, 3>>, !.zb = zb, !.group = 2]
W4A8(m, sa, zb) ==
  [Call("int4_gemm_w4a8", Dense(<<m, 4>>), ByColumn(2, 3)) EXCEPT
     !.sa = sa, !.za = sa, !.sb = <<2, 3>>, !.zb = zb, !.group = 2]
Bmm(a, b, sa, sb) == Scaled(Call("fp8_bmm", a, b), sa, sb)

Processes ==
  { \* the same product with every bias (that of two elements is refused), for two types of output
    {[Fp8(2) EXCEPT !.bias = bias] : bias \in {<<>>, <<0>>, <<1>>, <<6>>, <<2>>, <<2, 1>>, <<2, 6>>}},
    {[Fp8(2) EXCEPT !.types = types, !.device = device] : types \in {"f16", "bf16"}, device \in {0, 1}},
    \* scales of tensors, rows and columns, of blocks, in two formats
    {Scaled(Fp8(2), <<2, 1>>, <<6>>), Scaled(Fp8(3), <<1>>, <<1, 6>>), Scaled(Fp8(1), <<1, 1>>, <<6>>)},
    {Scaled(Fp8(2), <<2, 2>>, <<2, 3>>), [Scaled(Fp8(2), <<2, 2>>, <<2, 3>>) EXCEPT !.e8m0 = TRUE],
     Scaled(Fp8(3), <<3, 2>>, <<2, 1>>)},
    \* inputs of three dimensions, by batch and by row; padded rows; an output of the caller's
    {Call("fp8_gemm", Dense(<<2, 3, 2>>), Dense(<<2, 3>>)),
     Call("fp8_gemm", Tensor(<<2, 3, 2>>, <<2, 4, 1>>), Dense(<<2, 3>>)),
     Call("fp8_gemm", Tensor(<<3, 4>>, <<5, 1>>), Tensor(<<4, 3>>, <<4, 1>>)),
     [Call("fp8_gemm", Dense(<<6, 2>>), Dense(<<2, 3>>)) EXCEPT !.given = <<3, 1>>]},
    {[Call("fp8_gemm_w8a16", Dense(<<2, 4>>), b) EXCEPT !.sb = sb] :
       b \in {Dense(<<4, 4>>), ByColumn(4, 4)}, sb \in {<<1>>, <<4>>}},
    {[Call("fp8_gemm_w8a16", Dense(<<2, 4>>), Dense(<<4, 6>>)) EXCEPT !.sb = <<1, 6>>],
     [Call("fp8_gemm_w8a16", Dense(<<3, 4>>), Dense(<<4, 6>>)) EXCEPT !.sb = <<2, 3>>]},
    {Scaled(Call("fp4_gemm", Dense(<<m, 4>>), ByColumn(4, 3)), <<m, 2>>, <<2, 3>>) : m \in {1, 2}},
    {W4A16(m, zb) : m \in {1, 2}, zb \in {<<1>>, <<2, 3>>}},
    {W4A8(2, <<2, 1>>, <<1>>), W4A8(2, <<2, 1>>, <<2, 3>>), W4A8(3, <<1>>, <<2, 3>>)},
    {Bmm(Dense(<<2, 2, 4>>), Dense(<<2, 4, 4>>), sa, sb) :
       sa \in {<<1>>, <<2, 2>>, <<2, 2, 2>>}, sb \in {<<1>>, <<2, 4>>, <<2, 2, 2>>}},
    {[Bmm(Dense(<<1, m, 2>>), Tensor(<<1, 2, 3>>, <<6, 1, 2>>), <<1>>, <<3>>) EXCEPT !.bias = bias] :
       m \in {1, 2}, bias \in {<<>>, <<1>>, <<3>>, <<2, 1>>}} }

RECURSIVE Listed(_)
Listed(set) == IF set = {} THEN <<>> ELSE LET c == CHOOSE c \in set : TRUE IN <<c>> \o Listed(set \ {c})
Numbers(list, set) == {i \in 1 .. Len(list) : list[i] \in set /\ Accepted(list[i])}
MCThread == {"main", "other"}

(* One thread makes the calls of a process; or two threads the same ones.  *)
MCProducts == Listed(UNION Processes)
MCScenario ==
  {[main |-> Numbers(MCProducts, s), other |-> {}] : s \in Processes}
  \cup {[main |-> Numbers(MCProducts, s), other |-> Numbers(MCProducts, s)] :
          s \in {{Fp8(2), [Fp8(2) EXCEPT !.bias = <<6>>]}}}

(* Inputs quantised by row, then as a whole, under one shape. *)
TwoLayouts == {W4A8(2, <<2, 1>>, <<1>>), W4A8(2, <<1>>, <<1>>)}
MCTwoProducts == Listed(TwoLayouts)
MCTwoLayouts == {[main |-> Numbers(MCTwoProducts, TwoLayouts), other |-> {}]}
=============================================================================
