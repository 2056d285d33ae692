----------------------------- MODULE GdnProofs ------------------------------
(***************************************************************************)
(* Proofs about GdnAttention for any convolution width, number of drafts,  *)
(* chunk size, sequences, tokens and calls: whatever the order of the      *)
(* work-groups, a call answers every token from all the sequence said      *)
(* before it, and leaves the line of the convolution and the state of the  *)
(* rule as the next call will read them.                                   *)
(*                                                                         *)
(* The invariant relates what the host made of the sequences to what has   *)
(* run of the call: an entry of a chain serves one sequence, its work-     *)
(* groups write rows, slots and outputs that no other entry has, and which *)
(* of them have run says what is in each.                                  *)
(***************************************************************************)
EXTENDS GdnAttention, NatLemmas, FiniteSetTheorems, SequenceTheorems, TLAPS

-----------------------------------------------------------------------------
(* What a sequence has: the tokens it said before the call, those it is    *)
(* fed, and the two together; the x-th of them, zero before the first; and *)
(* the rows of the rule they make.                                         *)
Said(s) == said[s]
Fed(s) == call.fed[s]
Whole(s) == said[s] \o call.fed[s]
Nth(h, x) == IF x < 1 THEN Zero ELSE h[x]
Win(h, x) == [j \in 1 .. Width |-> Nth(h, x - Width + j)]
Row == [win : [1 .. Width -> Int], ba : Int]

PadRow == [j \in 0 .. NumSpec - 1 |-> Pad]
ChainIds == DOMAIN call.chains
InCall == call # NoCall

(* Entry b of a chain serves sequence s.                                   *)
Serves(c, b, s) == c.slot[b] = SlotsOf(s)

(* What the host makes of the sequence an entry serves.                    *)
EntryOK(c, b, s) ==
  /\ Fed(s) # <<>>
  /\ c.slot[b] = SlotsOf(s)
  /\ c.start[b + 1] = c.start[b] + Len(Fed(s))
  /\ \A i \in 1 .. Len(Fed(s)) : c.indx[c.start[b] + i - 1] = call.at[s] + i - 1
  /\ c.init[b] = (c.path = "native" \/ said[s] # <<>>)
  /\ c.acc[b] = acc[s]
  /\ c.path = "spec" <=> s \in spec
  /\ c.path # "chunk" => said[s] # <<>>
  /\ c.path = "native" => Len(Fed(s)) = 1
  /\ c.path = "spec" => Len(Fed(s)) <= NumSpec

PadOK(c, b) ==
  /\ c.slot[b] = PadRow
  /\ c.start[b + 1] = c.start[b]
  /\ c.path # "chunk"
  /\ c.init[b] = (c.path = "native")

ChainOK(c) ==
  /\ c.path \in {"spec", "native", "chunk"}
  /\ c.batch \in Nat \ {0}
  /\ c.start \in [0 .. c.batch -> Nat] /\ c.start[0] = 0 /\ c.start[c.batch] > 0
  /\ \E m \in Nat : DOMAIN c.indx = 0 .. m - 1 /\ m >= c.start[c.batch]
  /\ \A b \in Entries(c) : PadOK(c, b) \/ \E s \in Seqs : EntryOK(c, b, s)
  /\ \A t \in Tokens(c) : t >= c.start[c.batch] =>
       c.path = "native" /\ c.slot[c.batch - 1] = PadRow /\ c.indx[t] \in 0 .. Len(call.tokens) - 1

(* The tokens of a call, and where each sequence has its own.              *)
FeedOK ==
  /\ call.tokens \in Seq(Int)
  /\ call.fed \in [Seqs -> Seq(Int)] /\ call.at \in [Seqs -> Nat]
  /\ \A s \in Seqs : \A i \in 1 .. Len(Fed(s)) :
       /\ call.at[s] + i <= Len(call.tokens)
       /\ call.tokens[call.at[s] + i] = Fed(s)[i]
  /\ \A s, r \in Seqs : s # r /\ Fed(s) # <<>> /\ Fed(r) # <<>> =>
       \/ call.at[s] + Len(Fed(s)) <= call.at[r]
       \/ call.at[r] + Len(Fed(r)) <= call.at[s]

CallOK ==
  /\ call.chains # <<>> /\ \E m \in Nat : ChainIds = 1 .. m
  /\ FeedOK
  /\ \A k \in ChainIds : ChainOK(call.chains[k])
  /\ \A s \in Seqs : Fed(s) # <<>> =>
       \E k \in ChainIds : \E b \in Entries(call.chains[k]) : Serves(call.chains[k], b, s)
  /\ \A k, l \in ChainIds : \A b \in Entries(call.chains[k]), d \in Entries(call.chains[l]) :
       \A s \in Seqs : Serves(call.chains[k], b, s) /\ Serves(call.chains[l], d, s) => k = l /\ b = d

-----------------------------------------------------------------------------
Height(c) == IF c.path = "chunk" THEN Cardinality(Tokens(c)) + c.batch * (ChunkSize - 1)
             ELSE Cardinality(Tokens(c))

WorkType ==
  /\ mid = [k \in ChainIds |-> mid[k]] /\ tmp = [k \in ChainIds |-> tmp[k]]
  /\ \A k \in ChainIds : mid[k] \in [0 .. Height(call.chains[k]) - 1 -> Row]
  /\ \A k \in ChainIds : tmp[k] \in [Entries(call.chains[k]) -> [0 .. Width - 2 -> Int]]
  /\ out \in [0 .. Len(call.tokens) - 1 -> Seq(Row)]
  /\ z \in [0 .. Len(call.tokens) - 1 -> Int]

GdnType ==
  /\ conv \in [Slots -> [0 .. StateLen - 1 -> Int]]
  /\ ssm \in [Slots \cup {Pad} -> Seq(Row)]
  /\ said \in [Seqs -> Seq(Int)] /\ acc \in [Seqs -> 1 .. NumSpec] /\ spec \subseteq Seqs
  /\ calls \in Nat
  /\ InCall => WorkType

-----------------------------------------------------------------------------
(* The kernels of a path, in the order of its chain.                       *)
KernelsOf(path) ==
  CASE path = "spec"   -> {"causal_conv1d_spec", "gated_delta_rule_spec"}
    [] path = "native" -> {"causal_conv1d", "gated_delta_rule"}
    [] path = "chunk"  -> {"chunk_causal_conv1d", "chunk_reorder_zba", "update_states", "chunk_gated_delta_rule"}
Kernel == {"causal_conv1d_spec", "gated_delta_rule_spec", "causal_conv1d", "gated_delta_rule",
           "chunk_causal_conv1d", "chunk_reorder_zba", "update_states", "chunk_gated_delta_rule"}
Stage(kernel) ==
  IF kernel \in {"causal_conv1d_spec", "causal_conv1d", "chunk_causal_conv1d"} THEN 1
  ELSE IF kernel = "chunk_reorder_zba" THEN 2 ELSE IF kernel = "update_states" THEN 3 ELSE 4

(* The work-groups of a kernel that have run.                              *)
Ran(kernel, k, w) ==
  /\ \A i \in 2 .. Len(queue) : queue[i] # <<kernel, k>>
  /\ queue # <<>> /\ queue[1] = <<kernel, k>> => w \notin todo

QueueOK ==
  /\ queue \in Seq(Kernel \X ChainIds)
  /\ \A i \in 1 .. Len(queue) : queue[i][1] \in KernelsOf(call.chains[queue[i][2]].path)
  /\ \A i, j \in 1 .. Len(queue) : i < j /\ queue[i][2] = queue[j][2] =>
       Stage(queue[i][1]) < Stage(queue[j][1])
  /\ queue # <<>> => todo # {} /\ todo \subseteq Groups(queue[1][1], call.chains[queue[1][2]])
  /\ queue = <<>> => todo = {}

InOrder ==
  \A k \in ChainIds : \A e, f \in KernelsOf(call.chains[k].path) :
    Stage(e) < Stage(f) =>
      \A v \in Groups(e, call.chains[k]), w \in Groups(f, call.chains[k]) : Ran(f, k, w) => Ran(e, k, v)

-----------------------------------------------------------------------------
(* What the state holds for the sequence s that entry b of chain k serves, *)
(* and which of the work-groups concerned with its tokens have run.        *)
RowAt(c, b, i) ==
  IF c.path = "chunk" THEN (ChunksBefore(c, b) * ChunkSize) + i - 1 ELSE c.start[b] + i - 1
WorkAt(kernel, c, b, i) == IF kernel \in PerToken THEN c.start[b] + i - 1 ELSE b

Did(kernel, k, b, s) == {i \in 1 .. Len(Fed(s)) : Ran(kernel, k, WorkAt(kernel, call.chains[k], b, i))}

View(k, b, s) ==
  [line |-> conv[SlotsOf(s)[0]],
   cols |-> [j \in 0 .. NumSpec - 1 |-> ssm[SlotsOf(s)[j]]],
   rows |-> [i \in 1 .. Len(Fed(s)) |-> mid[k][RowAt(call.chains[k], b, i)]],
   outs |-> [i \in 1 .. Len(Fed(s)) |-> out[call.at[s] + i - 1]],
   zs |-> [i \in 1 .. Len(Fed(s)) |-> z[call.at[s] + i - 1]],
   saved |-> tmp[k][b],
   did |-> [e \in Kernel |-> Did(e, k, b, s)]]

(* A line holds the last Width - 1 tokens of h from row a - 1 on.          *)
LineHolds(line, a, h) == \A i \in 0 .. Width - 2 : line[a - 1 + i] = Nth(h, Len(h) - Width + i + 2)

(* The rule over h and the first i of the tokens fed.                      *)
StateAt(h, f, i) == Taken(h \o SubSeq(f, 1, i))
RowFor(h, f, i) == [win |-> Win(h \o f, Len(h) + i), ba |-> f[i]]

NativeInv(v, h, f) ==
  /\ IF v.did["causal_conv1d"] = {} THEN LineHolds(v.line, 1, h)
     ELSE v.rows[1] = RowFor(h, f, 1) /\ v.zs[1] = f[1] /\ LineHolds(v.line, 1, h \o f)
  /\ IF v.did["gated_delta_rule"] = {} THEN v.cols[0] = Taken(h)
     ELSE v.cols[0] = StateAt(h, f, 1) /\ v.outs[1] = StateAt(h, f, 1)

ChunkInv(v, h, f) ==
  /\ \A i \in v.did["chunk_causal_conv1d"] : v.rows[i].win = Win(h \o f, Len(h) + i)
  /\ \A i \in v.did["chunk_reorder_zba"] : v.rows[i].ba = f[i] /\ v.zs[i] = f[i]
  /\ Len(f) > 1 /\ Len(f) \in v.did["chunk_causal_conv1d"] => LineHolds(v.saved, 1, h \o f)
  /\ IF v.did["update_states"] # {} \/ (Len(f) = 1 /\ v.did["chunk_causal_conv1d"] # {})
     THEN LineHolds(v.line, 1, h \o f)
     ELSE h # <<>> => LineHolds(v.line, 1, h)
  /\ IF v.did["chunk_gated_delta_rule"] = {} THEN h # <<>> => v.cols[0] = Taken(h)
     ELSE /\ v.cols[0] = Taken(h \o f)
          /\ \A i \in 1 .. Len(f) : v.outs[i] = StateAt(h, f, i)

SpecInv(v, h, f, a) ==
  /\ IF v.did["causal_conv1d_spec"] = {} THEN LineHolds(v.line, a, h)
     ELSE /\ \A i \in 1 .. Len(f) : v.rows[i] = RowFor(h, f, i) /\ v.zs[i] = f[i]
          /\ \A j \in 1 .. Width - 2 + Len(f) : v.line[j - 1] = Nth(h \o f, Len(h) - Width + 2 + j)
  /\ IF v.did["gated_delta_rule_spec"] = {} THEN v.cols[a - 1] = Taken(h)
     ELSE \A i \in 1 .. Len(f) : v.cols[i - 1] = StateAt(h, f, i) /\ v.outs[i] = StateAt(h, f, i)

EntryInv(k, b, s) ==
  CASE call.chains[k].path = "native" -> NativeInv(View(k, b, s), said[s], Fed(s))
    [] call.chains[k].path = "chunk"  -> ChunkInv(View(k, b, s), said[s], Fed(s))
    [] call.chains[k].path = "spec"   -> SpecInv(View(k, b, s), said[s], Fed(s), acc[s])

(* Between calls, and for a sequence that is not in the call.              *)
AtRest(s) ==
  said[s] # <<>> =>
    /\ ssm[SlotsOf(s)[acc[s] - 1]] = Taken(said[s])
    /\ LineHolds(conv[SlotsOf(s)[0]], acc[s], said[s])

GdnInv ==
  /\ GdnType
  /\ \A s \in Seqs : (s \notin spec => acc[s] = 1) /\ (s \in spec => said[s] # <<>>)
  /\ ~InCall => queue = <<>> /\ todo = {} /\ \A s \in Seqs : AtRest(s)
  /\ InCall =>
       /\ CallOK /\ QueueOK /\ InOrder
       /\ \A s \in Seqs : Fed(s) = <<>> => AtRest(s)
       /\ \A k \in ChainIds : \A b \in Entries(call.chains[k]) : \A s \in Seqs :
            Serves(call.chains[k], b, s) => EntryInv(k, b, s)

-----------------------------------------------------------------------------
LEMMA Sizes ==
  /\ Width \in Nat /\ Width >= 2 /\ NumSpec \in Nat \ {0} /\ ChunkSize \in Nat \ {0}
  /\ StateLen \in Nat /\ StateLen = (Width - 2) + NumSpec
  /\ IsFiniteSet(Seqs) /\ Cardinality(Seqs) \in Nat /\ Seqs = 1 .. Cardinality(Seqs)
<1>1. IsFiniteSet(Seqs) /\ Cardinality(Seqs) \in Nat
  BY GdnAssumption, FS_CardinalityType
<1> QED BY <1>1, GdnAssumption DEF StateLen

LEMMA ProductMonotone ==
  ASSUME NEW a \in Nat, NEW b \in Nat, NEW c \in Nat, a <= b
  PROVE  a * c <= b * c
<1>1. PICK d \in Nat : b = a + d
  BY b - a \in Nat
<1>2. b * c = (a * c) + (d * c) /\ a * c \in Nat /\ d * c \in Nat
  BY <1>1
<1> QED BY <1>2

(* A sequence's slots are its own.                                         *)
LEMMA SlotFacts ==
  ASSUME NEW s \in Seqs
  PROVE  /\ SlotsOf(s) = [j \in 0 .. NumSpec - 1 |-> SlotsOf(s)[j]]
         /\ \A j \in 0 .. NumSpec - 1 : SlotsOf(s)[j] \in Slots /\ SlotsOf(s)[j] # Pad
         /\ 0 \in 0 .. NumSpec - 1
<1>0. NumSpec \in Nat \ {0} /\ Cardinality(Seqs) \in Nat /\ s \in 1 .. Cardinality(Seqs)
  BY Sizes
<1>1. PICK q \in Nat : s = q + 1 /\ q + 1 <= Cardinality(Seqs)
  BY <1>0
<1>2. ASSUME NEW j \in 0 .. NumSpec - 1 PROVE SlotsOf(s)[j] \in Slots /\ SlotsOf(s)[j] # Pad
  <2>1. SlotsOf(s)[j] = (q * NumSpec) + j
    BY <1>0, <1>1 DEF SlotsOf
  <2>2. (q + 1) * NumSpec <= Cardinality(Seqs) * NumSpec
    BY <1>0, <1>1, ProductMonotone
  <2>3. (q * NumSpec) \in Nat /\ (q + 1) * NumSpec = (q * NumSpec) + NumSpec
        /\ Cardinality(Seqs) * NumSpec \in Nat
    BY <1>0, <1>1
  <2> QED BY <1>0, <2>1, <2>2, <2>3 DEF Slots, Pad
<1>3. SlotsOf(s) = [j \in 0 .. NumSpec - 1 |-> SlotsOf(s)[j]]
  BY DEF SlotsOf
<1> QED BY <1>0, <1>2, <1>3

(* No two columns of the cache are one slot.                               *)
LEMMA SlotsApart ==
  ASSUME NEW s \in Seqs, NEW r \in Seqs, NEW i \in 0 .. NumSpec - 1, NEW j \in 0 .. NumSpec - 1,
         SlotsOf(s)[i] = SlotsOf(r)[j]
  PROVE  s = r /\ i = j
<1>0. NumSpec \in Nat \ {0} /\ s \in 1 .. Cardinality(Seqs) /\ r \in 1 .. Cardinality(Seqs) /\ Cardinality(Seqs) \in Nat
  BY Sizes
<1>1. PICK p \in Nat : s = p + 1
  BY <1>0
<1>2. PICK q \in Nat : r = q + 1
  BY <1>0
<1>3. (p * NumSpec) + i = (q * NumSpec) + j
  BY <1>0, <1>1, <1>2 DEF SlotsOf
<1>4. ((p * NumSpec) + i) \div NumSpec = p /\ ((p * NumSpec) + i) % NumSpec = i
  BY <1>0, DivModUnique
<1>5. ((q * NumSpec) + j) \div NumSpec = q /\ ((q * NumSpec) + j) % NumSpec = j
  BY <1>0, DivModUnique
<1> QED BY <1>1, <1>2, <1>3, <1>4, <1>5

LEMMA SlotsDiffer ==
  ASSUME NEW s \in Seqs
  PROVE  /\ SlotsOf(s) # PadRow
         /\ \A r \in Seqs : SlotsOf(s) = SlotsOf(r) => s = r
<1>1. 0 \in 0 .. NumSpec - 1 /\ SlotsOf(s)[0] # Pad
  BY SlotFacts
<1>2. SlotsOf(s) # PadRow
  BY <1>1 DEF PadRow
<1>3. ASSUME NEW r \in Seqs, SlotsOf(s) = SlotsOf(r) PROVE s = r
  BY <1>1, <1>3, SlotsApart
<1> QED BY <1>2, <1>3

-----------------------------------------------------------------------------
(* Sums of sizes.                                                          *)
LEMMA RunningFacts ==
  ASSUME NEW size, NEW m \in Nat, \A i \in 0 .. m - 1 : size[i] \in Nat
  PROVE  /\ PartialSums(size)[0] = 0
         /\ \A i \in 0 .. m : PartialSums(size)[i] \in Nat
         /\ \A i \in 0 .. m - 1 : PartialSums(size)[i + 1] = PartialSums(size)[i] + size[i]
         /\ \A i \in 0 .. m : \A j \in i .. m : PartialSums(size)[i] <= PartialSums(size)[j]
<1>1. RunningSum(PartialSums(size), size)
  <2>1. \E g : g = [n \in Nat |-> IF n = 0 THEN 0 ELSE g[n - 1] + size[n - 1]]
    BY SumExists, Zenon DEF RunningSum
  <2> QED BY <2>1, Zenon DEF PartialSums, RunningSum
<1> DEFINE g == PartialSums(size)
<1>2. RunningSum(g, size)
  BY <1>1
<1> HIDE DEF g
<1>3. /\ g[0] = 0
      /\ \A i \in 0 .. m : g[i] \in Nat
      /\ \A i \in 0 .. m - 1 : g[i + 1] = g[i] + size[i]
  BY <1>2, RunningSumFacts
<1>4. ASSUME NEW i \in 0 .. m PROVE \A j \in i .. m : g[i] <= g[j]
  BY <1>2, RunningSumMonotone
<1> QED BY <1>3, <1>4 DEF g

-----------------------------------------------------------------------------
(* The entry of a token.                                                   *)
LEMMA LeastOf ==
  ASSUME NEW T, T \subseteq Nat, NEW x \in T, \A y \in T : x <= y
  PROVE  First(T) = x
<1> DEFINE f == First(T)
<1>1. f \in T /\ \A y \in T : f <= y
  BY DEF First
<1> HIDE DEF f
<1>2. f <= x /\ x <= f /\ f \in Nat /\ x \in Nat
  BY <1>1
<1>3. f = x
  BY <1>2
<1> QED BY <1>3 DEF f

(* The entries of a chain lie one after the other.                         *)
LEMMA StartsRise ==
  ASSUME NEW c, ChainOK(c), InCall, FeedOK
  PROVE  \A b \in 0 .. c.batch : \A d \in b .. c.batch : c.start[b] <= c.start[d]
<1>1. c.batch \in Nat /\ c.start \in [0 .. c.batch -> Nat]
  BY DEF ChainOK
<1>2. ASSUME NEW b \in 0 .. c.batch - 1 PROVE c.start[b] <= c.start[b + 1]
  <2>1. c.start[b] \in Nat /\ b \in Entries(c)
    BY <1>1 DEF Entries
  <2>2. CASE PadOK(c, b)
    BY <2>1, <2>2 DEF PadOK
  <2>3. CASE \E s \in Seqs : EntryOK(c, b, s)
    <3>1. PICK s \in Seqs : EntryOK(c, b, s)
      BY <2>3
    <3>2. Len(Fed(s)) \in Nat
      BY LenProperties DEF Fed, FeedOK
    <3> QED BY <2>1, <3>1, <3>2 DEF EntryOK
  <2> QED BY <2>1, <2>2, <2>3 DEF ChainOK
<1> SUFFICES ASSUME NEW b \in 0 .. c.batch PROVE \A d \in b .. c.batch : c.start[b] <= c.start[d]
  OBVIOUS
<1> DEFINE T == {n \in Nat : b + n <= c.batch => c.start[b] <= c.start[b + n]}
<1>3. 0 \in T
  BY <1>1
<1>4. ASSUME NEW n \in Nat, n \in T PROVE n + 1 \in T
  <2> SUFFICES ASSUME b + (n + 1) <= c.batch PROVE c.start[b] <= c.start[b + (n + 1)]
    OBVIOUS
  <2>1. b + n \in 0 .. c.batch - 1 /\ (b + n) + 1 = b + (n + 1)
    BY <1>1
  <2>2. c.start[b] <= c.start[b + n]
    BY <1>1, <1>4
  <2>3. c.start[b + n] <= c.start[(b + n) + 1]
    BY <1>2, <2>1
  <2>4. c.start[b] \in Nat /\ c.start[b + n] \in Nat /\ c.start[b + (n + 1)] \in Nat
    BY <1>1, <2>1
  <2> QED BY <2>1, <2>2, <2>3, <2>4
<1> HIDE DEF T
<1>5. Nat \subseteq T
  BY <1>3, <1>4, NatInduct, Zenon
<1> SUFFICES ASSUME NEW d \in b .. c.batch PROVE c.start[b] <= c.start[d]
  OBVIOUS
<1>6. PICK n \in Nat : d = b + n
  BY <1>1, d - b \in Nat
<1> QED BY <1>1, <1>5, <1>6 DEF T

(* A token of an entry finds it, as the kernels look for it.               *)
LEMMA InEntry ==
  ASSUME NEW c, ChainOK(c), InCall, FeedOK, NEW b \in Entries(c), NEW t,
         t \in c.start[b] .. c.start[b + 1] - 1
  PROVE  /\ t \in Nat /\ b \in Nat /\ t \in Tokens(c)
         /\ Holding(c, t) # {} /\ BatchOf(c, t) = b
         /\ SeqStart(c, t) = c.start[b] /\ SeqEnd(c, t) = c.start[b + 1]
<1>1. /\ c.batch \in Nat /\ c.start \in [0 .. c.batch -> Nat] /\ b \in Nat /\ b \in 0 .. c.batch /\ b + 1 \in 0 .. c.batch
      /\ t \in Nat
  <2>1. c.batch \in Nat /\ c.start \in [0 .. c.batch -> Nat]
    BY DEF ChainOK
  <2>2. b \in Nat /\ b \in 0 .. c.batch /\ b + 1 \in 0 .. c.batch
    BY <2>1 DEF Entries
  <2> QED BY <2>1, <2>2
<1>2. b \in Holding(c, t) /\ Holding(c, t) \subseteq Nat
  BY <1>1 DEF Holding, Entries
<1>3. ASSUME NEW i \in Holding(c, t) PROVE b <= i
  <2>1. i \in 0 .. c.batch - 1 /\ t < c.start[i + 1]
    BY DEF Holding, Entries
  <2>2. ASSUME i < b PROVE FALSE
    <3>1. i + 1 \in 0 .. c.batch /\ b \in (i + 1) .. c.batch
      BY <1>1, <2>1, <2>2
    <3>2. c.start[i + 1] <= c.start[b]
      BY <3>1, StartsRise
    <3>3. PICK x \in Nat, y \in Nat, n \in Nat : x = c.start[b] /\ y = c.start[i + 1] /\ n = c.start[b + 1]
      BY <1>1, <3>1
    <3>4. x <= t
      <4>1. t \in x .. n - 1
        BY <3>3
      <4> QED BY <4>1
    <3>5. t < y /\ y <= x
      BY <2>1, <3>2, <3>3
    <3> QED BY <1>1, <3>3, <3>4, <3>5
  <2> QED BY <1>1, <2>1, <2>2
<1>4. First(Holding(c, t)) = b
  BY <1>2, <1>3, LeastOf
<1>5. t \in Tokens(c)
  <2>1. PICK m \in Nat : DOMAIN c.indx = 0 .. m - 1 /\ m >= c.start[c.batch]
    BY DEF ChainOK
  <2>2. c.start[b + 1] <= c.start[c.batch] /\ c.start[b + 1] \in Nat /\ c.start[c.batch] \in Nat
    <3>1. c.batch \in (b + 1) .. c.batch /\ c.batch \in 0 .. c.batch
      BY <1>1
    <3> QED BY <1>1, <3>1, StartsRise
  <2> QED BY <1>1, <2>1, <2>2 DEF Tokens
<1> QED BY <1>1, <1>2, <1>4, <1>5 DEF BatchOf, SeqStart, SeqEnd

(* Every token is a sequence's, or padding behind all of them.             *)
LEMMA TokenCases ==
  ASSUME NEW c, ChainOK(c), InCall, FeedOK, NEW t \in Tokens(c)
  PROVE  \/ \E b \in Entries(c) : \E s \in Seqs :
              EntryOK(c, b, s) /\ t \in c.start[b] .. c.start[b + 1] - 1
         \/ /\ c.path = "native" /\ Padded(c, t)
            /\ t >= c.start[c.batch] /\ Holding(c, t) = {}
<1>1. /\ c.batch \in Nat \ {0} /\ c.start \in [0 .. c.batch -> Nat] /\ c.start[0] = 0 /\ t \in Nat
  BY DEF ChainOK, Tokens
<1>2. CASE t >= c.start[c.batch]
  <2>1. Holding(c, t) = {}
    <3> SUFFICES ASSUME NEW i \in Entries(c), t < c.start[i + 1] PROVE FALSE
      BY DEF Holding
    <3>1. i + 1 \in 0 .. c.batch /\ c.batch \in (i + 1) .. c.batch
      BY <1>1 DEF Entries
    <3>2. c.start[i + 1] <= c.start[c.batch]
      BY <3>1, StartsRise
    <3> QED BY <1>1, <1>2, <3>1, <3>2
  <2>2. c.path = "native" /\ c.slot[c.batch - 1] = PadRow
    BY <1>2 DEF ChainOK
  <2>3. Padded(c, t)
    BY <2>1, <2>2, Sizes DEF Padded, BatchOf, PadRow
  <2> QED BY <1>2, <2>1, <2>2, <2>3
<1>3. CASE t < c.start[c.batch]
  <2> DEFINE T == {i \in Nat : i + 1 <= c.batch /\ t < c.start[i + 1]}
  <2>1. c.batch - 1 \in T
    BY <1>1, <1>3
  <2>2. PICK b \in T : \A i \in T : b <= i
    <3>1. T \subseteq Nat
      OBVIOUS
    <3> HIDE DEF T
    <3> QED BY <2>1, <3>1, LeastNat
  <2>3. b \in Entries(c) /\ t < c.start[b + 1]
    BY <1>1, <2>2 DEF Entries
  <2>4. c.start[b] <= t
    <3>1. CASE b = 0
      BY <1>1, <3>1
    <3>2. CASE b # 0
      <4>1. b - 1 \in Nat /\ (b - 1) + 1 <= c.batch /\ b - 1 \notin T /\ (b - 1) + 1 = b
        BY <1>1, <2>2, <3>2
      <4>2. ~(t < c.start[b])
        BY <4>1
      <4>3. c.start[b] \in Nat
        BY <1>1, <4>1
      <4> QED BY <1>1, <4>2, <4>3
    <3> QED BY <3>1, <3>2
  <2>5. t \in c.start[b] .. c.start[b + 1] - 1
    BY <1>1, <2>3, <2>4 DEF Entries
  <2>6. ~PadOK(c, b)
    BY <1>1, <2>3, <2>4 DEF PadOK, Entries
  <2>7. \E s \in Seqs : EntryOK(c, b, s)
    BY <2>3, <2>6 DEF ChainOK
  <2> QED BY <2>3, <2>5, <2>7
<1> QED BY <1>1, <1>2, <1>3 DEF ChainOK

-----------------------------------------------------------------------------
(* Where the rows of an entry lie in the buffers of its chain.             *)
LEMMA WholeChunks ==
  ASSUME NEW n \in Nat
  PROVE  LET q == (n + ChunkSize - 1) \div ChunkSize
         IN q \in Nat /\ n <= q * ChunkSize /\ q * ChunkSize <= n + (ChunkSize - 1) /\ q * ChunkSize \in Nat
<1>0. ChunkSize \in Nat \ {0}
  BY Sizes
<1>1. PICK a \in Nat : a = n + ChunkSize - 1
  BY <1>0, n + ChunkSize - 1 \in Nat
<1>2. PICK q \in Nat, r \in 0 .. ChunkSize - 1 : q = a \div ChunkSize /\ a = (q * ChunkSize) + r
  BY <1>0, <1>1, DivMod
<1>3. q * ChunkSize \in Nat
  BY <1>0
<1>4. n <= q * ChunkSize /\ q * ChunkSize <= n + (ChunkSize - 1)
  BY <1>0, <1>1, <1>2, <1>3
<1> QED BY <1>1, <1>2, <1>3, <1>4

LEMMA FeedLengths ==
  ASSUME FeedOK, NEW s \in Seqs
  PROVE  Fed(s) \in Seq(Int) /\ Len(Fed(s)) \in Nat /\ (Fed(s) # <<>> => Len(Fed(s)) >= 1)
<1>1. Fed(s) \in Seq(Int)
  BY DEF FeedOK, Fed
<1> QED BY <1>1, EmptySeq, LenProperties

(* What an entry of a chain says of its sequence, in numbers.              *)
LEMMA EntryFacts ==
  ASSUME NEW c, ChainOK(c), InCall, FeedOK, NEW b \in Entries(c), NEW s \in Seqs, EntryOK(c, b, s)
  PROVE  /\ b \in Nat /\ c.batch \in Nat /\ b < c.batch
         /\ c.start[b] \in Nat /\ c.start[b + 1] \in Nat /\ c.start[c.batch] \in Nat
         /\ c.start[b + 1] = c.start[b] + Len(Fed(s)) /\ c.start[b + 1] <= c.start[c.batch]
         /\ Len(Fed(s)) \in Nat \ {0}
         /\ call.at[s] \in Nat /\ call.at[s] + Len(Fed(s)) <= Len(call.tokens)
         /\ \A i \in 1 .. Len(Fed(s)) :
              /\ c.start[b] + i - 1 \in c.start[b] .. c.start[b + 1] - 1
              /\ call.at[s] + i - 1 \in 0 .. Len(call.tokens) - 1
              /\ c.indx[c.start[b] + i - 1] = call.at[s] + i - 1
              /\ call.tokens[call.at[s] + i] = Fed(s)[i]
<1>1. c.batch \in Nat \ {0} /\ c.start \in [0 .. c.batch -> Nat] /\ b \in 0 .. c.batch - 1
  BY DEF ChainOK, Entries
<1>2. b \in Nat /\ b < c.batch /\ b \in 0 .. c.batch /\ b + 1 \in 0 .. c.batch /\ c.batch \in (b + 1) .. c.batch
      /\ c.batch \in 0 .. c.batch
  BY <1>1
<1>3. c.start[b] \in Nat /\ c.start[b + 1] \in Nat /\ c.start[c.batch] \in Nat
  BY <1>1, <1>2
<1>4. c.start[b + 1] <= c.start[c.batch]
  BY <1>2, StartsRise
<1>5. c.start[b + 1] = c.start[b] + Len(Fed(s)) /\ Fed(s) # <<>>
      /\ \A i \in 1 .. Len(Fed(s)) : c.indx[c.start[b] + i - 1] = call.at[s] + i - 1
  BY DEF EntryOK
<1>6. Len(Fed(s)) \in Nat \ {0}
  BY <1>5, FeedLengths
<1>7. call.at[s] \in Nat /\ call.tokens \in Seq(Int) /\ Len(call.tokens) \in Nat
  BY LenProperties DEF FeedOK
<1>8. \A i \in 1 .. Len(Fed(s)) : call.at[s] + i <= Len(call.tokens) /\ call.tokens[call.at[s] + i] = Fed(s)[i]
  BY DEF FeedOK
<1>9. call.at[s] + Len(Fed(s)) <= Len(call.tokens)
  BY <1>6, <1>8
<1>10. ASSUME NEW i \in 1 .. Len(Fed(s))
       PROVE  /\ c.start[b] + i - 1 \in c.start[b] .. c.start[b + 1] - 1
              /\ call.at[s] + i - 1 \in 0 .. Len(call.tokens) - 1
  <2>1. i \in Nat /\ 1 <= i /\ i <= Len(Fed(s))
    BY <1>6
  <2>2. c.start[b + 1] = c.start[b] + Len(Fed(s))
    BY <1>5
  <2>3. c.start[b] + i - 1 \in c.start[b] .. c.start[b + 1] - 1
    BY <1>3, <1>6, <2>1, <2>2
  <2>4. call.at[s] + i <= Len(call.tokens)
    BY <1>8
  <2>5. call.at[s] + i - 1 \in 0 .. Len(call.tokens) - 1
    BY <1>7, <2>1, <2>4
  <2> QED BY <2>3, <2>5
<1> QED BY <1>1, <1>2, <1>3, <1>4, <1>5, <1>6, <1>7, <1>8, <1>9, <1>10

(* The padded segments of the chunked path lie one after the other.        *)
LEMMA ChunkSums ==
  ASSUME NEW c, ChainOK(c), InCall, FeedOK
  PROVE  /\ \A b \in 0 .. c.batch : ChunksBefore(c, b) \in Nat /\ ChunksBefore(c, b) * ChunkSize \in Nat
         /\ \A b \in Entries(c) :
              (ChunksBefore(c, b) * ChunkSize) + (c.start[b + 1] - c.start[b]) <= ChunksBefore(c, b + 1) * ChunkSize
         /\ \A b \in 0 .. c.batch : \A d \in b .. c.batch :
              ChunksBefore(c, b) * ChunkSize <= ChunksBefore(c, d) * ChunkSize
         /\ \A b \in 0 .. c.batch : ChunksBefore(c, b) * ChunkSize <= c.start[b] + (b * (ChunkSize - 1))
<1> DEFINE size == [i \in Entries(c) |-> (c.start[i + 1] - c.start[i] + ChunkSize - 1) \div ChunkSize]
           g == PartialSums(size)
<1>0. c.batch \in Nat \ {0} /\ c.start \in [0 .. c.batch -> Nat] /\ Entries(c) = 0 .. c.batch - 1 /\ c.start[0] = 0
      /\ ChunkSize \in Nat \ {0} /\ ChunkSize - 1 \in Nat
  BY Sizes DEF ChainOK, Entries
<1>1. \A b : ChunksBefore(c, b) = g[b]
  BY DEF ChunksBefore
<1>2. ASSUME NEW b \in Entries(c)
      PROVE  /\ c.start[b + 1] - c.start[b] \in Nat /\ size[b] \in Nat /\ size[b] * ChunkSize \in Nat
             /\ c.start[b + 1] - c.start[b] <= size[b] * ChunkSize
             /\ size[b] * ChunkSize <= (c.start[b + 1] - c.start[b]) + (ChunkSize - 1)
  <2>1. b \in 0 .. c.batch /\ b + 1 \in b .. c.batch /\ b + 1 \in 0 .. c.batch
    BY <1>0
  <2>2. c.start[b] \in Nat /\ c.start[b + 1] \in Nat /\ c.start[b] <= c.start[b + 1]
    BY <1>0, <2>1, StartsRise
  <2>3. PICK n \in Nat : n = c.start[b + 1] - c.start[b]
    BY <2>2
  <2>4. size[b] = (n + ChunkSize - 1) \div ChunkSize
    BY <2>3
  <2> HIDE DEF size
  <2> QED BY <2>3, <2>4, WholeChunks
<1> HIDE DEF g, size
<1>3. /\ g[0] = 0
      /\ \A i \in 0 .. c.batch : g[i] \in Nat
      /\ \A i \in 0 .. c.batch - 1 : g[i + 1] = g[i] + size[i]
      /\ \A i \in 0 .. c.batch : \A j \in i .. c.batch : g[i] <= g[j]
  <2>1. \A i \in 0 .. c.batch - 1 : size[i] \in Nat
    BY <1>0, <1>2
  <2> QED BY <1>0, <2>1, RunningFacts DEF g
<1>4. ASSUME NEW b \in Entries(c)
      PROVE  g[b + 1] * ChunkSize = (g[b] * ChunkSize) + (size[b] * ChunkSize)
  <2>1. g[b] \in Nat /\ g[b + 1] = g[b] + size[b] /\ size[b] \in Nat
    BY <1>0, <1>2, <1>3
  <2> QED BY <1>0, <2>1
<1>5. \A b \in 0 .. c.batch : g[b] * ChunkSize \in Nat
  BY <1>0, <1>3
<1>6. ASSUME NEW b \in Entries(c) PROVE (g[b] * ChunkSize) + (c.start[b + 1] - c.start[b]) <= g[b + 1] * ChunkSize
  <2>1. g[b] * ChunkSize \in Nat
    BY <1>0, <1>5
  <2> QED BY <1>2, <1>4, <2>1
<1>7. ASSUME NEW b \in 0 .. c.batch, NEW d \in b .. c.batch PROVE g[b] * ChunkSize <= g[d] * ChunkSize
  <2>1. g[b] \in Nat /\ g[d] \in Nat /\ g[b] <= g[d]
    BY <1>0, <1>3
  <2> QED BY <1>0, <2>1, ProductMonotone
<1> DEFINE T == {b \in Nat : b <= c.batch => g[b] * ChunkSize <= c.start[b] + (b * (ChunkSize - 1))}
<1>8. 0 \in T
  BY <1>0, <1>3
<1>9. ASSUME NEW b \in Nat, b \in T PROVE b + 1 \in T
  <2> SUFFICES ASSUME b + 1 <= c.batch
               PROVE  g[b + 1] * ChunkSize <= c.start[b + 1] + ((b + 1) * (ChunkSize - 1))
    OBVIOUS
  <2>1. b \in Entries(c) /\ b \in 0 .. c.batch /\ b + 1 \in 0 .. c.batch
    BY <1>0
  <2>2. g[b] * ChunkSize <= c.start[b] + (b * (ChunkSize - 1))
    BY <1>9, <2>1
  <2>3. (b + 1) * (ChunkSize - 1) = (b * (ChunkSize - 1)) + (ChunkSize - 1) /\ b * (ChunkSize - 1) \in Nat
    BY <1>0
  <2>4. g[b + 1] * ChunkSize <= (g[b] * ChunkSize) + ((c.start[b + 1] - c.start[b]) + (ChunkSize - 1))
    <3>1. PICK u \in Nat : u = g[b] * ChunkSize
      BY <1>5, <2>1
    <3>2. PICK v \in Nat : v = size[b] * ChunkSize
      BY <1>2, <2>1
    <3>3. PICK n \in Nat : n = c.start[b + 1] - c.start[b]
      BY <1>2, <2>1
    <3>4. v <= n + (ChunkSize - 1)
      BY <1>2, <2>1, <3>2, <3>3
    <3>5. g[b + 1] * ChunkSize = u + v
      BY <1>4, <2>1, <3>1, <3>2
    <3>6. u + v <= u + (n + (ChunkSize - 1))
      BY <1>0, <3>4
    <3> QED BY <3>1, <3>3, <3>5, <3>6
  <2>5. c.start[b] \in Nat /\ c.start[b + 1] \in Nat /\ g[b] * ChunkSize \in Nat /\ g[b + 1] * ChunkSize \in Nat
    BY <1>0, <1>5, <2>1
  <2>6. PICK u \in Nat, w \in Nat, x \in Nat, y \in Nat, e \in Nat, d \in Nat :
          /\ u = g[b] * ChunkSize /\ w = g[b + 1] * ChunkSize /\ x = c.start[b] /\ y = c.start[b + 1]
          /\ e = b * (ChunkSize - 1) /\ d = ChunkSize - 1
    BY <1>0, <2>3, <2>5
  <2>7. u <= x + e /\ w <= u + ((y - x) + d) /\ (b + 1) * (ChunkSize - 1) = e + d
    BY <2>2, <2>3, <2>4, <2>6
  <2>8. w <= y + (e + d)
    BY <2>7
  <2> QED BY <2>6, <2>7, <2>8
<1> HIDE DEF T
<1>10. Nat \subseteq T
  BY <1>8, <1>9, NatInduct, Zenon
<1>11. \A b \in 0 .. c.batch : g[b] * ChunkSize <= c.start[b] + (b * (ChunkSize - 1))
  <2> SUFFICES ASSUME NEW b \in 0 .. c.batch PROVE g[b] * ChunkSize <= c.start[b] + (b * (ChunkSize - 1))
    OBVIOUS
  <2>1. b \in Nat /\ b <= c.batch
    BY <1>0
  <2>2. b \in T
    BY <1>10, <2>1
  <2> QED BY <2>1, <2>2 DEF T
<1> QED BY <1>1, <1>3, <1>5, <1>6, <1>7, <1>11

LEMMA RowFacts ==
  ASSUME NEW c, ChainOK(c), InCall, FeedOK, NEW b \in Entries(c), NEW s \in Seqs, EntryOK(c, b, s),
         NEW i \in 1 .. Len(Fed(s))
  PROVE  RowAt(c, b, i) \in 0 .. Height(c) - 1
<1>0. /\ b \in Nat /\ c.batch \in Nat /\ b < c.batch
      /\ c.start[b] \in Nat /\ c.start[b + 1] \in Nat /\ c.start[c.batch] \in Nat
      /\ c.start[b + 1] = c.start[b] + Len(Fed(s)) /\ c.start[b + 1] <= c.start[c.batch]
      /\ Len(Fed(s)) \in Nat \ {0}
  BY EntryFacts
<1>1. PICK m \in Nat : Tokens(c) = 0 .. m - 1 /\ m >= c.start[c.batch]
  BY DEF ChainOK, Tokens
<1>2. Cardinality(Tokens(c)) = m
  <2>1. Cardinality(0 .. m - 1) = m
    BY <1>1, FS_Interval
  <2> QED BY <1>1, <2>1
<1>p. i \in Nat /\ 1 <= i /\ i <= Len(Fed(s))
  BY <1>0
<1>e. c.start[b] + Len(Fed(s)) <= c.start[c.batch]
  BY <1>0
<1>3. CASE c.path # "chunk"
  <2>0. PICK x \in Nat, y \in Nat, n \in Nat : x = c.start[b] /\ y = c.start[c.batch] /\ n = Len(Fed(s))
    BY <1>0
  <2>m. m \in Nat /\ y <= m /\ x + n <= y /\ i <= n /\ i \in Nat /\ 1 <= i
    BY <1>1, <1>p, <1>e, <2>0
  <2>1. x + i - 1 \in 0 .. m - 1
    BY <2>m
  <2> QED BY <1>2, <1>3, <2>0, <2>1 DEF RowAt, Height
<1>4. CASE c.path = "chunk"
  <2>1. ChunkSize - 1 \in Nat /\ b * (ChunkSize - 1) <= c.batch * (ChunkSize - 1)
        /\ b * (ChunkSize - 1) \in Nat /\ c.batch * (ChunkSize - 1) \in Nat
    <3>1. ChunkSize - 1 \in Nat
      BY Sizes
    <3> QED BY <1>0, <3>1, ProductMonotone
  <2>2. ChunksBefore(c, b) * ChunkSize \in Nat
        /\ ChunksBefore(c, b) * ChunkSize <= c.start[b] + (b * (ChunkSize - 1))
    <3>1. b \in 0 .. c.batch
      BY <1>0
    <3> QED BY <3>1, ChunkSums
  <2>3. PICK u \in Nat, x \in Nat, y \in Nat, p \in Nat, q \in Nat, n \in Nat :
          /\ u = ChunksBefore(c, b) * ChunkSize /\ x = c.start[b] /\ y = c.start[c.batch]
          /\ p = b * (ChunkSize - 1) /\ q = c.batch * (ChunkSize - 1) /\ n = Len(Fed(s))
    BY <1>0, <2>1, <2>2
  <2>4. u <= x + p /\ p <= q /\ x + n <= y /\ y <= m /\ i <= n /\ i \in Nat /\ 1 <= i /\ m \in Nat
    BY <1>1, <1>p, <1>e, <2>1, <2>2, <2>3
  <2>5. u + i - 1 \in 0 .. (m + q) - 1
    BY <2>4
  <2>6. RowAt(c, b, i) = u + i - 1
    BY <1>4, <2>3 DEF RowAt
  <2>7. Height(c) = m + q
    BY <1>2, <1>4, <2>3 DEF Height
  <2> QED BY <2>5, <2>6, <2>7
<1> QED BY <1>3, <1>4

(* No row of the buffers is of two tokens.                                 *)
LEMMA RowsApart ==
  ASSUME NEW c, ChainOK(c), InCall, FeedOK,
         NEW b \in Entries(c), NEW s \in Seqs, EntryOK(c, b, s), NEW i \in 1 .. Len(Fed(s)),
         NEW d \in Entries(c), NEW r \in Seqs, EntryOK(c, d, r), NEW j \in 1 .. Len(Fed(r)),
         RowAt(c, b, i) = RowAt(c, d, j)
  PROVE  b = d /\ i = j
<1>0. /\ b \in Nat /\ c.batch \in Nat /\ b < c.batch
      /\ c.start[b] \in Nat /\ c.start[b + 1] = c.start[b] + Len(Fed(s)) /\ Len(Fed(s)) \in Nat \ {0}
  BY EntryFacts
<1>1. /\ d \in Nat /\ d < c.batch
      /\ c.start[d] \in Nat /\ c.start[d + 1] = c.start[d] + Len(Fed(r)) /\ Len(Fed(r)) \in Nat \ {0}
  BY EntryFacts
<1> DEFINE base(x) == IF c.path = "chunk" THEN ChunksBefore(c, x) * ChunkSize ELSE c.start[x]
<1>2. RowAt(c, b, i) = base(b) + i - 1 /\ RowAt(c, d, j) = base(d) + j - 1
  BY DEF RowAt
<1>3. /\ base(b) \in Nat /\ base(d) \in Nat
      /\ b < d => base(b) + Len(Fed(s)) <= base(d)
      /\ d < b => base(d) + Len(Fed(r)) <= base(b)
  <2>0. b \in 0 .. c.batch /\ d \in 0 .. c.batch /\ b + 1 \in 0 .. c.batch /\ d + 1 \in 0 .. c.batch
        /\ (b < d => d \in (b + 1) .. c.batch) /\ (d < b => b \in (d + 1) .. c.batch)
    <3>1. PICK n \in Nat : n = c.batch
      BY <1>0
    <3>2. b \in Nat /\ d \in Nat /\ b < n /\ d < n
      BY <1>0, <1>1, <3>1
    <3>3. /\ b \in 0 .. n /\ d \in 0 .. n /\ b + 1 \in 0 .. n /\ d + 1 \in 0 .. n
          /\ (b < d => d \in (b + 1) .. n) /\ (d < b => b \in (d + 1) .. n)
      BY <3>2
    <3> QED BY <3>1, <3>3
  <2>1. CASE c.path # "chunk"
    <3>1. /\ b < d => c.start[b + 1] <= c.start[d]
          /\ d < b => c.start[d + 1] <= c.start[b]
      BY <2>0, StartsRise
    <3> QED BY <1>0, <1>1, <2>1, <3>1
  <2>2. CASE c.path = "chunk"
    <3> DEFINE g(x) == ChunksBefore(c, x) * ChunkSize
    <3>1. /\ g(b) \in Nat /\ g(d) \in Nat /\ g(b + 1) \in Nat /\ g(d + 1) \in Nat
          /\ g(b) + (c.start[b + 1] - c.start[b]) <= g(b + 1)
          /\ g(d) + (c.start[d + 1] - c.start[d]) <= g(d + 1)
          /\ b < d => g(b + 1) <= g(d)
          /\ d < b => g(d + 1) <= g(b)
      BY <2>0, ChunkSums
    <3>2. base(b) = g(b) /\ base(d) = g(d)
      BY <2>2
    <3>3. c.start[b + 1] - c.start[b] = Len(Fed(s)) /\ c.start[d + 1] - c.start[d] = Len(Fed(r))
      <4>1. PICK x \in Nat, n \in Nat : x = c.start[b] /\ n = Len(Fed(s)) /\ c.start[b + 1] = x + n
        BY <1>0
      <4>2. PICK y \in Nat, o \in Nat : y = c.start[d] /\ o = Len(Fed(r)) /\ c.start[d + 1] = y + o
        BY <1>1
      <4>3. (x + n) - x = n /\ (y + o) - y = o
        OBVIOUS
      <4> QED BY <4>1, <4>2, <4>3
    <3> HIDE DEF g, base
    <3>n. Len(Fed(s)) \in Nat /\ Len(Fed(r)) \in Nat
      BY <1>0, <1>1
    <3>m. g(b) + Len(Fed(s)) <= g(b + 1) /\ g(d) + Len(Fed(r)) <= g(d + 1)
      BY <3>1, <3>3
    <3>4. b < d => g(b) + Len(Fed(s)) <= g(d)
      BY <3>1, <3>n, <3>m
    <3>5. d < b => g(d) + Len(Fed(r)) <= g(b)
      BY <3>1, <3>n, <3>m
    <3> QED BY <3>1, <3>2, <3>4, <3>5
  <2> QED BY <2>1, <2>2
<1> HIDE DEF base
<1>4. b = d
  <2>0. i \in Nat /\ 1 <= i /\ i <= Len(Fed(s)) /\ j \in Nat /\ 1 <= j /\ j <= Len(Fed(r))
    BY <1>0, <1>1
  <2>1. base(b) + i - 1 = base(d) + j - 1
    BY <1>2
  <2>2. ASSUME b < d PROVE FALSE
    BY <1>0, <1>3, <2>0, <2>1, <2>2
  <2>3. ASSUME d < b PROVE FALSE
    BY <1>1, <1>3, <2>0, <2>1, <2>3
  <2> QED BY <1>0, <1>1, <2>2, <2>3
<1>5. i = j
  <2>0. i \in Nat /\ j \in Nat
    BY <1>0, <1>1
  <2>1. base(b) + i - 1 = base(b) + j - 1
    BY <1>2, <1>4
  <2> QED BY <1>3, <2>0, <2>1
<1> QED BY <1>4, <1>5

(* The row the chunked kernels compute for a token is its entry's.         *)
LEMMA OutTokens ==
  ASSUME NEW c, ChainOK(c), InCall, FeedOK, NEW b \in Entries(c), NEW s \in Seqs, EntryOK(c, b, s),
         NEW i \in 1 .. Len(Fed(s)), c.path = "chunk"
  PROVE  OutToken(c, c.start[b] + i - 1) = RowAt(c, b, i)
<1>0. /\ c.start[b] \in Nat /\ Len(Fed(s)) \in Nat
      /\ c.start[b] + i - 1 \in c.start[b] .. c.start[b + 1] - 1
  BY EntryFacts
<1> DEFINE t == c.start[b] + i - 1
<1>1. Holding(c, t) # {} /\ BatchOf(c, t) = b /\ SeqStart(c, t) = c.start[b]
  BY <1>0, InEntry
<1>2. ChunksBefore(c, b) * ChunkSize \in Nat
  <2>1. b \in 0 .. c.batch
    BY EntryFacts
  <2> QED BY <2>1, ChunkSums
<1>3. OutToken(c, t) = t - c.start[b] + (ChunksBefore(c, b) * ChunkSize)
  BY <1>1 DEF OutToken
<1> QED BY <1>0, <1>2, <1>3 DEF RowAt

-----------------------------------------------------------------------------
(* The rows of the rule a sequence makes.                                  *)
LEMMA SeqOfFunction ==
  ASSUME NEW S, NEW n \in Nat, NEW f \in [1 .. n -> S]
  PROVE  f \in Seq(S) /\ Len(f) = n /\ DOMAIN f = 1 .. n
  OBVIOUS

LEMMA Joined ==
  ASSUME NEW h \in Seq(Int), NEW f \in Seq(Int)
  PROVE  /\ h \o f \in Seq(Int) /\ Len(h \o f) = Len(h) + Len(f) /\ Len(h) \in Nat /\ Len(f) \in Nat
         /\ \A x \in 1 .. Len(h) : (h \o f)[x] = h[x]
         /\ \A i \in 1 .. Len(f) : (h \o f)[Len(h) + i] = f[i]
<1>1. h \o f \in Seq(Int) /\ Len(h \o f) = Len(h) + Len(f) /\ Len(h) \in Nat /\ Len(f) \in Nat
  BY LenProperties, ConcatProperties
<1>2. \A x \in 1 .. Len(h) : (h \o f)[x] = h[x]
  BY ConcatProperties, LenProperties
<1>3. ASSUME NEW i \in 1 .. Len(f) PROVE (h \o f)[Len(h) + i] = f[i]
  <2>1. Len(h) + i \in 1 .. Len(h) + Len(f) /\ ~(Len(h) + i <= Len(h)) /\ Len(h) + i - Len(h) = i
    BY <1>1
  <2> QED BY <1>1, <2>1
<1> QED BY <1>1, <1>2, <1>3

LEMMA FirstOf ==
  ASSUME NEW f \in Seq(Int), NEW n \in 0 .. Len(f)
  PROVE  /\ SubSeq(f, 1, n) \in Seq(Int) /\ Len(SubSeq(f, 1, n)) = n
         /\ \A i \in 1 .. n : SubSeq(f, 1, n)[i] = f[i]
<1>1. Len(f) \in Nat /\ f \in [1 .. Len(f) -> Int]
  BY LenProperties
<1>2. \A i \in 1 .. n : f[i] \in Int
  BY <1>1
<1>3. SubSeq(f, 1, n) = [i \in 1 .. n |-> f[i]]
  BY <1>1
<1> QED BY <1>1, <1>2, <1>3

(* A token of a prefix is the token of the whole.                          *)
LEMMA NthPrefix ==
  ASSUME NEW h \in Seq(Int), NEW f \in Seq(Int), NEW n \in 0 .. Len(f), NEW x \in Int, x <= Len(h) + n
  PROVE  /\ Nth(h \o SubSeq(f, 1, n), x) = Nth(h \o f, x)
         /\ Nth(h \o f, x) \in Int
         /\ x <= Len(h) => Nth(h, x) = Nth(h \o f, x)
<1> DEFINE e == SubSeq(f, 1, n)
<1>1. e \in Seq(Int) /\ Len(e) = n /\ \A i \in 1 .. n : e[i] = f[i]
  BY FirstOf
<1> HIDE DEF e
<1>2. /\ Len(h) \in Nat /\ Len(f) \in Nat
      /\ \A y \in 1 .. Len(h) : (h \o f)[y] = h[y] /\ (h \o e)[y] = h[y] /\ h[y] \in Int
      /\ \A i \in 1 .. n : (h \o f)[Len(h) + i] = f[i] /\ (h \o e)[Len(h) + i] = e[i] /\ f[i] \in Int
  <2>1. /\ Len(h) \in Nat /\ Len(f) \in Nat
        /\ \A y \in 1 .. Len(h) : (h \o f)[y] = h[y]
        /\ \A i \in 1 .. Len(f) : (h \o f)[Len(h) + i] = f[i]
    BY Joined
  <2>2. /\ \A y \in 1 .. Len(h) : (h \o e)[y] = h[y]
        /\ \A i \in 1 .. n : (h \o e)[Len(h) + i] = e[i]
    BY <1>1, Joined
  <2>3. (\A y \in 1 .. Len(h) : h[y] \in Int) /\ \A i \in 1 .. Len(f) : f[i] \in Int
    BY LenProperties
  <2>4. \A i \in 1 .. n : i \in 1 .. Len(f)
    BY <2>1
  <2> QED BY <2>1, <2>2, <2>3, <2>4
<1>3. CASE x < 1
  BY <1>3 DEF Nth, Zero
<1>4. CASE 1 <= x /\ x <= Len(h)
  BY <1>2, <1>4 DEF Nth, e
<1>5. CASE x > Len(h)
  <2>1. x - Len(h) \in 1 .. n /\ Len(h) + (x - Len(h)) = x /\ ~(x < 1)
    BY <1>2, <1>5
  <2>2. (h \o f)[x] = f[x - Len(h)] /\ (h \o e)[x] = e[x - Len(h)] /\ f[x - Len(h)] \in Int
    BY <1>2, <2>1
  <2>3. e[x - Len(h)] = f[x - Len(h)]
    BY <1>1, <2>1
  <2> QED BY <1>2, <1>5, <2>1, <2>2, <2>3 DEF Nth, e
<1> QED BY <1>2, <1>3, <1>4, <1>5

LEMMA WinFacts ==
  ASSUME NEW h \in Seq(Int), NEW x \in Int, x <= Len(h)
  PROVE  /\ Win(h, x) \in [1 .. Width -> Int]
         /\ \A j \in 1 .. Width : Win(h, x)[j] = Nth(h, x - Width + j) /\ x - Width + j \in Int
<1>1. Width \in Nat /\ Len(h) \in Nat
  BY Sizes, LenProperties
<1>2. ASSUME NEW j \in 1 .. Width PROVE x - Width + j \in Int /\ Nth(h, x - Width + j) \in Int
  <2>1. x - Width + j \in Int /\ x - Width + j <= Len(h) /\ <<>> \in Seq(Int) /\ 0 \in 0 .. Len(<<>>)
    BY <1>1, EmptySeq
  <2>2. Nth(h \o <<>>, x - Width + j) \in Int /\ Nth(h, x - Width + j) = Nth(h \o <<>>, x - Width + j)
    <3>1. x - Width + j <= Len(h) + 0
      BY <1>1, <2>1
    <3> QED BY <2>1, <3>1, NthPrefix
  <2> QED BY <2>1, <2>2
<1> QED BY <1>2 DEF Win

LEMMA WinPrefix ==
  ASSUME NEW h \in Seq(Int), NEW f \in Seq(Int), NEW n \in 0 .. Len(f), NEW x \in Int, x <= Len(h) + n
  PROVE  /\ Win(h \o SubSeq(f, 1, n), x) = Win(h \o f, x)
         /\ x <= Len(h) => Win(h, x) = Win(h \o f, x)
<1>1. Width \in Nat /\ Len(h) \in Nat /\ n \in Nat
  BY Sizes, LenProperties
<1>2. ASSUME NEW j \in 1 .. Width
      PROVE  /\ Nth(h \o SubSeq(f, 1, n), x - Width + j) = Nth(h \o f, x - Width + j)
             /\ x <= Len(h) => Nth(h, x - Width + j) = Nth(h \o f, x - Width + j)
  <2>1. x - Width + j \in Int /\ x - Width + j <= Len(h) + n /\ (x <= Len(h) => x - Width + j <= Len(h))
    BY <1>1
  <2> QED BY <2>1, NthPrefix
<1> QED BY <1>2 DEF Win

LEMMA TakenFacts ==
  ASSUME NEW h \in Seq(Int)
  PROVE  /\ Taken(h) \in Seq(Row) /\ Len(Taken(h)) = Len(h) /\ DOMAIN Taken(h) = 1 .. Len(h)
         /\ \A i \in 1 .. Len(h) : Taken(h)[i] = [win |-> Win(h, i), ba |-> h[i]] /\ Taken(h)[i] \in Row
         /\ Taken(h) = [i \in 1 .. Len(h) |-> [win |-> Win(h, i), ba |-> h[i]]]
<1>1. Len(h) \in Nat /\ DOMAIN h = 1 .. Len(h) /\ \A i \in 1 .. Len(h) : h[i] \in Int
  BY LenProperties
<1>2. \A i \in 1 .. Len(h) : Win(h, i) \in [1 .. Width -> Int]
  BY <1>1, WinFacts
<1>3. Taken(h) = [i \in 1 .. Len(h) |-> [win |-> Win(h, i), ba |-> h[i]]]
  BY <1>1 DEF Taken, Win, Nth
<1>4. \A i \in 1 .. Len(h) : [win |-> Win(h, i), ba |-> h[i]] \in Row
  BY <1>1, <1>2 DEF Row
<1>5. Taken(h) \in Seq(Row) /\ Len(Taken(h)) = Len(h) /\ DOMAIN Taken(h) = 1 .. Len(h)
  <2> DEFINE g == [i \in 1 .. Len(h) |-> [win |-> Win(h, i), ba |-> h[i]]]
  <2>1. g \in [1 .. Len(h) -> Row]
    BY <1>4
  <2> HIDE DEF g
  <2>2. g \in Seq(Row) /\ Len(g) = Len(h) /\ DOMAIN g = 1 .. Len(h)
    BY <1>1, <2>1, SeqOfFunction
  <2> QED BY <1>3, <2>2 DEF g
<1> QED BY <1>3, <1>4, <1>5

LEMMA RowForFacts ==
  ASSUME NEW h \in Seq(Int), NEW f \in Seq(Int), NEW i \in 1 .. Len(f)
  PROVE  RowFor(h, f, i) \in Row /\ Win(h \o f, Len(h) + i) \in [1 .. Width -> Int] /\ f[i] \in Int
<1>1. h \o f \in Seq(Int) /\ Len(h) + i \in Int /\ Len(h) + i <= Len(h \o f)
  BY Joined
<1>2. f[i] \in Int
  BY LenProperties
<1> QED BY <1>1, <1>2, WinFacts DEF RowFor, Row

(* The rule's state after n more rows.                                     *)
LEMMA Absorb ==
  ASSUME NEW h \in Seq(Int), NEW f \in Seq(Int), NEW n \in 0 .. Len(f),
         NEW rows, \A i \in 1 .. n : rows[i] = RowFor(h, f, i)
  PROVE  /\ Taken(h) \o [i \in 1 .. n |-> rows[i]] = StateAt(h, f, n)
         /\ StateAt(h, f, n) \in Seq(Row)
<1> DEFINE e == SubSeq(f, 1, n)
           x == [i \in 1 .. n |-> rows[i]]
<1>0. Len(h) \in Nat /\ Len(f) \in Nat /\ n \in Nat /\ \A i \in 1 .. n : i \in 1 .. Len(f)
  BY LenProperties
<1>1. e \in Seq(Int) /\ Len(e) = n /\ \A i \in 1 .. n : e[i] = f[i]
  BY FirstOf
<1>2. h \o e \in Seq(Int) /\ Len(h \o e) = Len(h) + n
      /\ (\A y \in 1 .. Len(h) : (h \o e)[y] = h[y]) /\ \A i \in 1 .. n : (h \o e)[Len(h) + i] = f[i]
  <2> HIDE DEF e
  <2> QED BY <1>1, Joined
<1>3. \A i \in 1 .. n : rows[i] \in Row
  BY <1>0, RowForFacts
<1>4. x \in Seq(Row) /\ Len(x) = n /\ \A i \in 1 .. n : x[i] = rows[i]
  <2>1. x \in [1 .. n -> Row] /\ \A i \in 1 .. n : x[i] = rows[i]
    BY <1>3
  <2> HIDE DEF x
  <2> QED BY <1>0, <2>1, SeqOfFunction
<1>5. /\ Taken(h) \in Seq(Row) /\ Len(Taken(h)) = Len(h)
      /\ \A i \in 1 .. Len(h) : Taken(h)[i] = [win |-> Win(h, i), ba |-> h[i]]
  BY TakenFacts
<1>6. /\ Taken(h \o e) \in Seq(Row) /\ Len(Taken(h \o e)) = Len(h) + n
      /\ \A i \in 1 .. Len(h) + n : Taken(h \o e)[i] = [win |-> Win(h \o e, i), ba |-> (h \o e)[i]]
  BY <1>2, TakenFacts
<1> HIDE DEF x
<1>7. /\ Taken(h) \o x \in Seq(Row) /\ Len(Taken(h) \o x) = Len(h) + n
      /\ \A i \in 1 .. Len(h) + n : (Taken(h) \o x)[i] = IF i <= Len(h) THEN Taken(h)[i] ELSE x[i - Len(h)]
  <2> DEFINE y == Taken(h)
  <2>1. y \in Seq(Row) /\ Len(y) = Len(h)
    BY <1>5
  <2> HIDE DEF y
  <2>2. y \o x \in Seq(Row) /\ Len(y \o x) = Len(y) + Len(x)
        /\ \A i \in 1 .. Len(y) + Len(x) : (y \o x)[i] = IF i <= Len(y) THEN y[i] ELSE x[i - Len(y)]
    <3>1. x \in Seq(Row)
      BY <1>4
    <3> QED BY <2>1, <3>1, ConcatProperties, Zenon
  <2> QED BY <1>4, <2>1, <2>2 DEF y
<1>8. ASSUME NEW i \in 1 .. Len(h) + n PROVE (Taken(h) \o x)[i] = Taken(h \o e)[i]
  <2>0. i \in Nat /\ i <= Len(h) + n
    BY <1>0
  <2>1. Win(h \o e, i) = Win(h \o f, i) /\ (i <= Len(h) => Win(h, i) = Win(h \o f, i))
    BY <2>0, WinPrefix
  <2>2. CASE i <= Len(h)
    <3>1. i \in 1 .. Len(h)
      BY <1>0, <2>2
    <3>2. (Taken(h) \o x)[i] = [win |-> Win(h, i), ba |-> h[i]]
      BY <1>5, <1>7, <2>2, <3>1
    <3>3. (h \o e)[i] = h[i]
      BY <1>2, <3>1
    <3> QED BY <1>6, <2>1, <2>2, <3>2, <3>3
  <2>3. CASE i > Len(h)
    <3>1. PICK j \in 1 .. n : i = Len(h) + j /\ i - Len(h) = j
      <4>1. i - Len(h) \in 1 .. n /\ i = Len(h) + (i - Len(h))
        BY <1>0, <2>0, <2>3
      <4> QED BY <4>1
    <3>2. (Taken(h) \o x)[i] = RowFor(h, f, j)
      <4>1. ~(i <= Len(h))
        BY <1>0, <2>0, <2>3
      <4> QED BY <1>4, <1>7, <3>1, <4>1
    <3>3. (h \o e)[i] = f[j]
      BY <1>2, <3>1
    <3>4. RowFor(h, f, j) = [win |-> Win(h \o f, i), ba |-> f[j]]
      BY <3>1 DEF RowFor
    <3> QED BY <1>6, <2>1, <3>2, <3>3, <3>4
  <2>4. i <= Len(h) \/ i > Len(h)
    BY <1>0, <2>0
  <2> QED BY <2>2, <2>3, <2>4, Zenon
<1>9. Taken(h) \o x = Taken(h \o e)
  BY <1>6, <1>7, <1>8, SeqEqual
<1> QED BY <1>6, <1>9 DEF StateAt, x

(* The state after the last token fed is that of the whole sequence.       *)
LEMMA WholeState ==
  ASSUME NEW h \in Seq(Int), NEW f \in Seq(Int)
  PROVE  StateAt(h, f, Len(f)) = Taken(h \o f) /\ Taken(<<>>) = <<>>
<1>1. SubSeq(f, 1, Len(f)) = f
  <2>1. Len(f) \in 0 .. Len(f)
    BY LenProperties
  <2>2. /\ SubSeq(f, 1, Len(f)) \in Seq(Int) /\ Len(SubSeq(f, 1, Len(f))) = Len(f)
        /\ \A i \in 1 .. Len(f) : SubSeq(f, 1, Len(f))[i] = f[i]
    BY <2>1, FirstOf
  <2> QED BY <2>2, SeqEqual
<1>2. Taken(<<>>) = <<>>
  <2>1. <<>> \in Seq(Int) /\ Len(<<>>) = 0
    BY EmptySeq
  <2>2. Taken(<<>>) \in Seq(Row) /\ Len(Taken(<<>>)) = 0
    BY <2>1, TakenFacts
  <2> QED BY <2>2, EmptySeq
<1> QED BY <1>1, <1>2 DEF StateAt

-----------------------------------------------------------------------------
(* The queue: a kernel starts when the kernels before it have run.         *)
LEMMA TailOf ==
  ASSUME NEW S, NEW q \in Seq(S), q # <<>>
  PROVE  /\ Len(q) \in Nat /\ Len(q) >= 1 /\ Tail(q) \in Seq(S) /\ Len(Tail(q)) = Len(q) - 1
         /\ \A i \in 1 .. Len(q) - 1 : Tail(q)[i] = q[i + 1]
         /\ Tail(q) = <<>> <=> Len(q) = 1
<1>1. Len(q) \in Nat /\ Len(q) # 0
  BY EmptySeq, LenProperties
<1>2. Tail(q) \in Seq(S) /\ Len(Tail(q)) = Len(q) - 1 /\ \A i \in 1 .. Len(q) - 1 : Tail(q)[i] = q[i + 1]
  BY HeadTailProperties
<1>3. Tail(q) = <<>> <=> Len(Tail(q)) = 0
  BY <1>2, EmptySeq
<1> QED BY <1>1, <1>2, <1>3

(* Of the chain that runs, earlier kernels are done, later ones are not.   *)
LEMMA HeadFacts ==
  ASSUME QueueOK, InOrder, queue # <<>>, NEW e, NEW k, queue[1] = <<e, k>>, NEW w \in todo
  PROVE  /\ e \in Kernel /\ k \in ChainIds /\ e \in KernelsOf(call.chains[k].path)
         /\ w \in Groups(e, call.chains[k]) /\ ~Ran(e, k, w)
         /\ \A f \in KernelsOf(call.chains[k].path) : Stage(f) < Stage(e) => \A v : Ran(f, k, v)
         /\ \A f \in KernelsOf(call.chains[k].path) : Stage(e) < Stage(f) =>
              \A v \in Groups(f, call.chains[k]) : ~Ran(f, k, v)
<1>1. Len(queue) \in Nat /\ Len(queue) >= 1 /\ queue \in [1 .. Len(queue) -> Kernel \X ChainIds]
      /\ 1 \in 1 .. Len(queue)
  <2>1. queue \in Seq(Kernel \X ChainIds)
    BY DEF QueueOK
  <2>2. Len(queue) \in Nat /\ Len(queue) >= 1
    BY <2>1, TailOf
  <2> QED BY <2>1, <2>2, LenProperties
<1>2. e \in Kernel /\ k \in ChainIds
  BY <1>1
<1>3. e \in KernelsOf(call.chains[k].path) /\ w \in Groups(e, call.chains[k])
  BY <1>1 DEF QueueOK
<1>4. ~Ran(e, k, w)
  BY DEF Ran
<1>5. ASSUME NEW f \in KernelsOf(call.chains[k].path), Stage(f) < Stage(e), NEW v PROVE Ran(f, k, v)
  <2>1. f # e
    <3>1. Stage(e) \in Nat
      BY DEF Stage
    <3> QED BY <1>5, <3>1
  <2>2. queue[1] # <<f, k>>
    BY <2>1
  <2>3. ASSUME NEW i \in 2 .. Len(queue), queue[i] = <<f, k>> PROVE FALSE
    <3>1. i \in 1 .. Len(queue) /\ 1 < i
      BY <1>1
    <3>2. Stage(queue[1][1]) < Stage(queue[i][1])
      BY <1>1, <2>3, <3>1 DEF QueueOK
    <3>3. Stage(e) < Stage(f)
      BY <2>3, <3>2
    <3>4. Stage(e) \in Nat /\ Stage(f) \in Nat
      BY DEF Stage
    <3> QED BY <1>5, <3>3, <3>4
  <2> QED BY <2>2, <2>3 DEF Ran
<1>6. ASSUME NEW f \in KernelsOf(call.chains[k].path), Stage(e) < Stage(f),
             NEW v \in Groups(f, call.chains[k]), Ran(f, k, v)
      PROVE  FALSE
  BY <1>2, <1>3, <1>4, <1>6 DEF InOrder
<1> QED BY <1>2, <1>3, <1>4, <1>5, <1>6

(* One work-group has run, and the queue holds the others.                 *)
QueueStepped(e, k, w) ==
  /\ QueueOK'
  /\ \A l \in ChainIds : \A f \in Kernel : \A v \in Groups(f, call.chains[l]) :
       Ran(f, l, v)' <=> (Ran(f, l, v) \/ (f = e /\ l = k /\ v = w))

(* A work-group has run: only it is new among those that ran.              *)
LEMMA QueueStep ==
  ASSUME QueueOK, InOrder, queue # <<>>, NEW e, NEW k, queue[1] = <<e, k>>, NEW w \in todo,
         \A l \in ChainIds : \A f \in Kernel : Groups(f, call.chains[l]) # {},
         call' = call,
         queue' = IF todo = {w} THEN Tail(queue) ELSE queue,
         todo' = IF todo # {w} THEN todo \ {w}
                 ELSE IF Len(queue) = 1 THEN {} ELSE Groups(queue[2][1], call.chains[queue[2][2]])
  PROVE  QueueStepped(e, k, w)
<1>0. queue \in Seq(Kernel \X ChainIds)
  BY DEF QueueOK
<1>1. Len(queue) \in Nat /\ Len(queue) >= 1 /\ queue \in [1 .. Len(queue) -> Kernel \X ChainIds]
      /\ 1 \in 1 .. Len(queue)
  <2>1. Len(queue) \in Nat /\ Len(queue) >= 1
    BY <1>0, TailOf
  <2> QED BY <1>0, <2>1, LenProperties
<1>2. Tail(queue) \in Seq(Kernel \X ChainIds) /\ Len(Tail(queue)) = Len(queue) - 1
      /\ (\A i \in 1 .. Len(queue) - 1 : Tail(queue)[i] = queue[i + 1])
      /\ (Tail(queue) = <<>> <=> Len(queue) = 1)
  BY <1>0, TailOf
<1>3. ChainIds' = ChainIds
  BY DEF ChainIds
<1>4. todo \subseteq Groups(e, call.chains[k]) /\ todo # {}
  BY DEF QueueOK
<1>a. /\ \A i \in 1 .. Len(queue) : queue[i][1] \in KernelsOf(call.chains[queue[i][2]].path)
      /\ \A i, j \in 1 .. Len(queue) : i < j /\ queue[i][2] = queue[j][2] =>
           Stage(queue[i][1]) < Stage(queue[j][1])
  BY DEF QueueOK
<1>5. CASE todo # {w}
  <2>1. queue' = queue /\ todo' = todo \ {w}
    BY <1>5
  <2>2. todo' # {} /\ todo' \subseteq todo
    BY <1>5, <2>1
  <2>3. QueueOK'
    <3>1. queue' \in Seq(Kernel \X ChainIds')
      BY <1>0, <1>3, <2>1
    <3>2. queue' # <<>> => todo' # {} /\ todo' \subseteq Groups(queue'[1][1], call'.chains[queue'[1][2]])
      BY <1>4, <2>1, <2>2
    <3>3. queue' = <<>> => todo' = {}
      BY <2>1
    <3> QED BY <1>a, <2>1, <3>1, <3>2, <3>3 DEF QueueOK
  <2>4. ASSUME NEW l \in ChainIds, NEW f \in Kernel, NEW v \in Groups(f, call.chains[l])
        PROVE  Ran(f, l, v)' <=> (Ran(f, l, v) \/ (f = e /\ l = k /\ v = w))
    <3>1. Ran(f, l, v)' <=> ((\A i \in 2 .. Len(queue) : queue[i] # <<f, l>>)
                             /\ (queue[1] = <<f, l>> => v \notin todo \/ v = w))
      BY <2>1 DEF Ran
    <3>2. Ran(f, l, v) <=> ((\A i \in 2 .. Len(queue) : queue[i] # <<f, l>>)
                             /\ (queue[1] = <<f, l>> => v \notin todo))
      BY DEF Ran
    <3>3. ASSUME f = e, l = k PROVE \A i \in 2 .. Len(queue) : queue[i] # <<f, l>>
      <4> SUFFICES ASSUME NEW i \in 2 .. Len(queue), queue[i] = <<f, l>> PROVE FALSE
        OBVIOUS
      <4>1. i \in 1 .. Len(queue) /\ 1 < i
        BY <1>1
      <4>2. Stage(queue[1][1]) < Stage(queue[i][1])
        BY <1>1, <1>a, <3>3, <4>1
      <4>3. Stage(e) < Stage(e) /\ Stage(e) \in Nat
        BY <3>3, <4>2 DEF Stage
      <4> QED BY <4>3
    <3> QED BY <3>1, <3>2, <3>3
  <2> QED BY <2>3, <2>4 DEF QueueStepped
<1>6. CASE todo = {w}
  <2>1. queue' = Tail(queue)
        /\ todo' = IF Len(queue) = 1 THEN {} ELSE Groups(queue[2][1], call.chains[queue[2][2]])
    BY <1>6
  <2>2. Len(queue') = Len(queue) - 1 /\ (queue' = <<>> <=> Len(queue) = 1)
        /\ (\A i \in 1 .. Len(queue) - 1 : queue'[i] = queue[i + 1])
    BY <1>2, <2>1
  <2>l. PICK n \in Nat : n >= 1 /\ Len(queue) = n /\ Len(queue') = n - 1
    BY <1>1, <2>2
  <2>q. /\ queue' = <<>> <=> n = 1
        /\ \A i \in 1 .. n - 1 : queue'[i] = queue[i + 1]
        /\ \A i \in 1 .. n : queue[i] \in Kernel \X ChainIds
    BY <1>1, <2>2, <2>l
  <2>3. QueueOK'
    <3>1. queue' \in Seq(Kernel \X ChainIds')
      BY <1>2, <1>3, <2>1
    <3>2. \A i \in 1 .. Len(queue') : i \in 1 .. Len(queue) /\ i + 1 \in 1 .. Len(queue) /\ queue'[i] = queue[i + 1]
      <4> SUFFICES ASSUME NEW i \in 1 .. n - 1
                   PROVE  i \in 1 .. n /\ i + 1 \in 1 .. n /\ queue'[i] = queue[i + 1]
        BY <2>l
      <4> QED BY <2>l, <2>q
    <3>3. \A i \in 1 .. Len(queue') : queue'[i][1] \in KernelsOf(call'.chains[queue'[i][2]].path)
      BY <1>a, <3>2
    <3>4. \A i, j \in 1 .. Len(queue') : i < j /\ queue'[i][2] = queue'[j][2] =>
           Stage(queue'[i][1]) < Stage(queue'[j][1])
      <4> SUFFICES ASSUME NEW i \in 1 .. Len(queue'), NEW j \in 1 .. Len(queue'), i < j, queue'[i][2] = queue'[j][2]
                   PROVE  Stage(queue'[i][1]) < Stage(queue'[j][1])
        OBVIOUS
      <4>1. i + 1 < j + 1 /\ i + 1 \in 1 .. Len(queue) /\ j + 1 \in 1 .. Len(queue)
        BY <1>1, <3>2
      <4> QED BY <1>a, <3>2, <4>1
    <3>5. queue' # <<>> => todo' # {} /\ todo' \subseteq Groups(queue'[1][1], call'.chains[queue'[1][2]])
      <4> SUFFICES ASSUME queue' # <<>>
                   PROVE  todo' # {} /\ todo' \subseteq Groups(queue'[1][1], call'.chains[queue'[1][2]])
        OBVIOUS
      <4>1. n # 1 /\ 1 \in 1 .. n - 1 /\ 2 \in 1 .. n /\ 1 + 1 = 2
        BY <2>l, <2>q
      <4>2. queue'[1] = queue[2] /\ queue[2] \in Kernel \X ChainIds
        BY <2>q, <4>1
      <4>3. todo' = Groups(queue[2][1], call.chains[queue[2][2]])
        BY <2>1, <2>l, <4>1
      <4> QED BY <4>2, <4>3
    <3>6. queue' = <<>> => todo' = {}
      BY <2>1, <2>2
    <3> QED BY <3>1, <3>3, <3>4, <3>5, <3>6 DEF QueueOK
  <2>4. ASSUME NEW l \in ChainIds, NEW f \in Kernel, NEW v \in Groups(f, call.chains[l])
        PROVE  Ran(f, l, v)' <=> (Ran(f, l, v) \/ (f = e /\ l = k /\ v = w))
    <3>1. Ran(f, l, v)' <=> \A i \in 2 .. Len(queue) : queue[i] # <<f, l>>
      <4>1. ASSUME Ran(f, l, v)', NEW i \in 2 .. Len(queue), queue[i] = <<f, l>> PROVE FALSE
        <5>1. CASE i = 2
          <6>0. n # 1 /\ 1 \in 1 .. n - 1 /\ 1 + 1 = 2
            BY <2>l, <5>1
          <6>1. queue' # <<>> /\ queue'[1] = <<f, l>>
            BY <2>q, <4>1, <5>1, <6>0
          <6>2. v \notin todo'
            BY <4>1, <6>1 DEF Ran
          <6>3. todo' = Groups(f, call.chains[l])
            BY <2>1, <2>l, <4>1, <5>1, <6>0
          <6> QED BY <6>2, <6>3
        <5>2. CASE i > 2
          <6>1. i - 1 \in 2 .. n - 1 /\ i - 1 \in 1 .. n - 1 /\ (i - 1) + 1 = i
            BY <2>l, <5>2
          <6> QED BY <2>l, <2>q, <4>1, <6>1 DEF Ran
        <5> QED BY <5>1, <5>2
      <4>2. ASSUME \A i \in 2 .. Len(queue) : queue[i] # <<f, l>> PROVE Ran(f, l, v)'
        <5>1. ASSUME NEW i \in 1 .. Len(queue') PROVE queue'[i] # <<f, l>>
          <6>1. i + 1 \in 2 .. n /\ i \in 1 .. n - 1
            BY <2>l
          <6> QED BY <2>l, <2>q, <4>2, <6>1
        <5>2. queue' # <<>> => 1 \in 1 .. n - 1
          BY <2>l, <2>q
        <5>3. \A i \in 2 .. n - 1 : i \in 1 .. n - 1
          BY <2>l
        <5>4. Len(queue') = n - 1
          BY <2>l
        <5> QED BY <5>1, <5>2, <5>3, <5>4 DEF Ran
      <4> QED BY <4>1, <4>2
    <3>2. Ran(f, l, v) <=> ((\A i \in 2 .. Len(queue) : queue[i] # <<f, l>>)
                             /\ (queue[1] = <<f, l>> => v # w))
      BY <1>6 DEF Ran
    <3>3. ASSUME f = e, l = k PROVE \A i \in 2 .. Len(queue) : queue[i] # <<f, l>>
      <4> SUFFICES ASSUME NEW i \in 2 .. Len(queue), queue[i] = <<f, l>> PROVE FALSE
        OBVIOUS
      <4>1. i \in 1 .. Len(queue) /\ 1 < i
        BY <1>1
      <4>2. Stage(queue[1][1]) < Stage(queue[i][1])
        BY <1>1, <1>a, <3>3, <4>1
      <4>3. Stage(e) < Stage(e) /\ Stage(e) \in Nat
        BY <3>3, <4>2 DEF Stage
      <4> QED BY <4>3
    <3> QED BY <3>1, <3>2, <3>3
  <2> QED BY <2>3, <2>4 DEF QueueStepped
<1> QED BY <1>5, <1>6

(* A kernel still starts when the earlier ones of its chain are done.      *)
LEMMA OrderStep ==
  ASSUME QueueOK, InOrder, queue # <<>>, NEW e, NEW k, queue[1] = <<e, k>>, NEW w \in todo,
         call' = call, \A l \in ChainIds : KernelsOf(call.chains[l].path) \subseteq Kernel,
         \A l \in ChainIds : \A f \in Kernel : \A v \in Groups(f, call.chains[l]) :
              Ran(f, l, v)' <=> (Ran(f, l, v) \/ (f = e /\ l = k /\ v = w))
  PROVE  InOrder'
<1> SUFFICES ASSUME NEW l \in ChainIds, NEW d \in KernelsOf(call.chains[l].path),
                    NEW f \in KernelsOf(call.chains[l].path), Stage(d) < Stage(f),
                    NEW v \in Groups(d, call.chains[l]), NEW x \in Groups(f, call.chains[l]), Ran(f, l, x)'
             PROVE  Ran(d, l, v)'
  BY DEF InOrder, ChainIds
<1>1. d \in Kernel /\ f \in Kernel
  OBVIOUS
<1>2. Ran(f, l, x) \/ (f = e /\ l = k /\ x = w)
  BY <1>1
<1>3. Ran(d, l, v)
  <2>1. CASE Ran(f, l, x)
    BY <2>1 DEF InOrder
  <2>2. CASE f = e /\ l = k
    BY <2>2, HeadFacts
  <2> QED BY <1>2, <2>1, <2>2
<1> QED BY <1>1, <1>3

-----------------------------------------------------------------------------
(* A work-group of the kernel at the head of the queue, and what it may    *)
(* change: what belongs to the sequence its entry serves.                  *)
Underway == GdnType /\ InCall /\ CallOK /\ QueueOK /\ InOrder

Runs(e, k, w) ==
  /\ queue # <<>> /\ queue[1] = <<e, k>> /\ w \in todo
  /\ UNCHANGED <<call, said, acc, spec, calls>>
  /\ \A l \in ChainIds : \A f \in Kernel : \A v \in Groups(f, call.chains[l]) :
       Ran(f, l, v)' <=> (Ran(f, l, v) \/ (f = e /\ l = k /\ v = w))

Same(k, b, s) ==
  /\ conv'[SlotsOf(s)[0]] = conv[SlotsOf(s)[0]]
  /\ \A j \in 0 .. NumSpec - 1 : ssm'[SlotsOf(s)[j]] = ssm[SlotsOf(s)[j]]
  /\ \A i \in 1 .. Len(Fed(s)) :
       /\ mid'[k][RowAt(call.chains[k], b, i)] = mid[k][RowAt(call.chains[k], b, i)]
       /\ out'[call.at[s] + i - 1] = out[call.at[s] + i - 1]
       /\ z'[call.at[s] + i - 1] = z[call.at[s] + i - 1]
  /\ tmp'[k][b] = tmp[k][b]

Only(k, b, s) ==
  /\ GdnType'
  /\ \A x \in Slots : x # SlotsOf(s)[0] => conv'[x] = conv[x]
  /\ \A x \in Slots : (\A j \in 0 .. NumSpec - 1 : x # SlotsOf(s)[j]) => ssm'[x] = ssm[x]
  /\ \A l \in ChainIds : \A y \in 0 .. Height(call.chains[l]) - 1 :
       (l = k => \A i \in 1 .. Len(Fed(s)) : y # RowAt(call.chains[k], b, i)) => mid'[l][y] = mid[l][y]
  /\ \A l \in ChainIds : \A d \in Entries(call.chains[l]) : (l = k => d # b) => tmp'[l][d] = tmp[l][d]
  /\ \A g \in 0 .. Len(call.tokens) - 1 :
       (\A i \in 1 .. Len(Fed(s)) : g # call.at[s] + i - 1) => out'[g] = out[g] /\ z'[g] = z[g]

LEMMA EntryBasics ==
  ASSUME Underway, NEW k \in ChainIds, NEW b \in Entries(call.chains[k]), NEW s \in Seqs,
         EntryOK(call.chains[k], b, s)
  PROVE  /\ ChainOK(call.chains[k]) /\ FeedOK /\ WorkType /\ InCall
         /\ said[s] \in Seq(Int) /\ Fed(s) \in Seq(Int) /\ Len(Fed(s)) \in Nat \ {0}
         /\ acc[s] \in 1 .. NumSpec
         /\ SlotsOf(s)[0] \in Slots /\ conv[SlotsOf(s)[0]] \in [0 .. StateLen - 1 -> Int]
         /\ \A j \in 0 .. NumSpec - 1 : SlotsOf(s)[j] \in Slots /\ ssm[SlotsOf(s)[j]] \in Seq(Row)
         /\ call.chains[k].slot[b] = SlotsOf(s)
         /\ mid[k] \in [0 .. Height(call.chains[k]) - 1 -> Row] /\ tmp[k][b] \in [0 .. Width - 2 -> Int]
<1>1. ChainOK(call.chains[k]) /\ FeedOK /\ WorkType /\ InCall
  BY DEF Underway, CallOK, GdnType
<1>2. said[s] \in Seq(Int) /\ acc[s] \in 1 .. NumSpec
  BY DEF Underway, GdnType
<1>3. Fed(s) \in Seq(Int) /\ Len(Fed(s)) \in Nat \ {0}
  <2>1. Fed(s) # <<>>
    BY DEF EntryOK
  <2> QED BY <1>1, <2>1, FeedLengths
<1>4. /\ SlotsOf(s)[0] \in Slots /\ conv[SlotsOf(s)[0]] \in [0 .. StateLen - 1 -> Int]
      /\ \A j \in 0 .. NumSpec - 1 : SlotsOf(s)[j] \in Slots /\ ssm[SlotsOf(s)[j]] \in Seq(Row)
  <2>1. SlotsOf(s)[0] \in Slots /\ \A j \in 0 .. NumSpec - 1 : SlotsOf(s)[j] \in Slots
    BY SlotFacts
  <2> QED BY <2>1 DEF Underway, GdnType
<1>5. call.chains[k].slot[b] = SlotsOf(s)
  BY DEF EntryOK
<1>6. mid[k] \in [0 .. Height(call.chains[k]) - 1 -> Row] /\ tmp[k][b] \in [0 .. Width - 2 -> Int]
  BY <1>1 DEF WorkType
<1> QED BY <1>1, <1>2, <1>3, <1>4, <1>5, <1>6

(* An entry's work-groups, one for each of its tokens or one for all.      *)
LEMMA WorkFacts ==
  ASSUME Underway, NEW k \in ChainIds, NEW b \in Entries(call.chains[k]), NEW s \in Seqs,
         EntryOK(call.chains[k], b, s), NEW e \in Kernel, NEW i \in 1 .. Len(Fed(s))
  PROVE  /\ WorkAt(e, call.chains[k], b, i) \in Groups(e, call.chains[k])
         /\ e \in PerToken =>
              /\ WorkAt(e, call.chains[k], b, i) \in call.chains[k].start[b] .. call.chains[k].start[b + 1] - 1
              /\ \A j \in 1 .. Len(Fed(s)) : WorkAt(e, call.chains[k], b, i) = WorkAt(e, call.chains[k], b, j) => i = j
         /\ e \notin PerToken => WorkAt(e, call.chains[k], b, i) = b
<1> DEFINE c == call.chains[k]
<1>0. ChainOK(c) /\ FeedOK /\ InCall
  BY EntryBasics
<1>1. /\ c.start[b] \in Nat /\ c.start[b + 1] \in Nat /\ Len(Fed(s)) \in Nat
      /\ \A j \in 1 .. Len(Fed(s)) : c.start[b] + j - 1 \in c.start[b] .. c.start[b + 1] - 1
  BY <1>0, EntryFacts
<1>2. c.start[b] + i - 1 \in Tokens(c)
  BY <1>0, <1>1, InEntry
<1>3. ASSUME NEW j \in 1 .. Len(Fed(s)), c.start[b] + i - 1 = c.start[b] + j - 1 PROVE i = j
  <2>1. i \in Nat /\ j \in Nat
    BY <1>1
  <2> QED BY <1>1, <1>3, <2>1
<1> QED BY <1>1, <1>2, <1>3 DEF WorkAt, Groups

(* A running work-group is of a kernel the chain's path has.               *)
LEMMA AtWork ==
  ASSUME Underway, NEW e, NEW k, NEW w, Runs(e, k, w)
  PROVE  /\ call' = call /\ said' = said /\ acc' = acc /\ UNCHANGED <<call, said, acc, spec, calls>>
         /\ k \in ChainIds /\ e \in Kernel /\ e \in KernelsOf(call.chains[k].path)
         /\ call.chains[k].path \in {"spec", "native", "chunk"}
         /\ w \in Groups(e, call.chains[k])
<1>1. QueueOK /\ InOrder
  BY DEF Underway
<1>2. k \in ChainIds /\ e \in Kernel /\ e \in KernelsOf(call.chains[k].path) /\ w \in Groups(e, call.chains[k])
  BY <1>1, HeadFacts DEF Runs
<1>3. call.chains[k].path \in {"spec", "native", "chunk"}
  BY <1>2 DEF Underway, CallOK, ChainOK
<1> QED BY <1>2, <1>3 DEF Runs

(* What a work-group that runs adds to what has run for an entry.          *)
DidStep(e, k, w, b, s) ==
  /\ \A f \in Kernel : Did(f, k, b, s) \subseteq 1 .. Len(Fed(s))
  /\ \A f \in Kernel \ {e} : Did(f, k, b, s)' = Did(f, k, b, s)
  /\ e \notin PerToken /\ w = b => Did(e, k, b, s) = {} /\ Did(e, k, b, s)' = 1 .. Len(Fed(s))
  /\ e \in PerToken =>
       \A i \in 1 .. Len(Fed(s)) : w = call.chains[k].start[b] + i - 1 =>
         i \notin Did(e, k, b, s) /\ Did(e, k, b, s)' = Did(e, k, b, s) \cup {i}
  /\ \A f \in KernelsOf(call.chains[k].path) : Stage(f) < Stage(e) => Did(f, k, b, s) = 1 .. Len(Fed(s))
  /\ \A f \in KernelsOf(call.chains[k].path) : Stage(e) < Stage(f) => Did(f, k, b, s) = {}

(* What of an entry's tokens a running work-group is for.                  *)
LEMMA DidRun ==
  ASSUME Underway, NEW e, NEW k, NEW w, Runs(e, k, w),
         NEW b \in Entries(call.chains[k]), NEW s \in Seqs, EntryOK(call.chains[k], b, s)
  PROVE  DidStep(e, k, w, b, s)
<1>0. QueueOK /\ InOrder /\ queue # <<>> /\ queue[1] = <<e, k>> /\ w \in todo /\ call' = call
  BY DEF Underway, Runs
<1>1. /\ e \in Kernel /\ k \in ChainIds /\ ~Ran(e, k, w)
      /\ \A f \in KernelsOf(call.chains[k].path) : Stage(f) < Stage(e) => \A v : Ran(f, k, v)
      /\ \A f \in KernelsOf(call.chains[k].path) : Stage(e) < Stage(f) =>
              \A v \in Groups(f, call.chains[k]) : ~Ran(f, k, v)
  BY <1>0, HeadFacts
<1>k. KernelsOf(call.chains[k].path) \subseteq Kernel
  <2>1. call.chains[k].path \in {"spec", "native", "chunk"}
    BY <1>1 DEF Underway, CallOK, ChainOK
  <2> QED BY <2>1 DEF KernelsOf, Kernel
<1>2. \A f \in Kernel : \A i \in 1 .. Len(Fed(s)) : WorkAt(f, call.chains[k], b, i) \in Groups(f, call.chains[k])
  BY <1>1, WorkFacts
<1>3. \A f \in Kernel : \A i \in 1 .. Len(Fed(s)) :
        Ran(f, k, WorkAt(f, call.chains[k], b, i))' <=>
          (Ran(f, k, WorkAt(f, call.chains[k], b, i)) \/ (f = e /\ WorkAt(f, call.chains[k], b, i) = w))
  <2> SUFFICES ASSUME NEW f \in Kernel, NEW i \in 1 .. Len(Fed(s))
               PROVE  Ran(f, k, WorkAt(f, call.chains[k], b, i))' <=>
                        (Ran(f, k, WorkAt(f, call.chains[k], b, i)) \/ (f = e /\ WorkAt(f, call.chains[k], b, i) = w))
    OBVIOUS
  <2> DEFINE v == WorkAt(f, call.chains[k], b, i)
  <2>1. v \in Groups(f, call.chains[k]) /\ v' = v
    BY <1>0, <1>2 DEF WorkAt
  <2> HIDE DEF v
  <2>2. Ran(f, k, v)' <=> (Ran(f, k, v) \/ (f = e /\ k = k /\ v = w))
    <3>1. \A x \in Groups(f, call.chains[k]) : Ran(f, k, x)' <=> (Ran(f, k, x) \/ (f = e /\ k = k /\ x = w))
      BY <1>1 DEF Runs
    <3> QED BY <2>1, <3>1 DEF Ran
  <2> QED BY <2>2 DEF v
<1>4. \A f \in Kernel : /\ Did(f, k, b, s) = {i \in 1 .. Len(Fed(s)) : Ran(f, k, WorkAt(f, call.chains[k], b, i))}
                        /\ Did(f, k, b, s)' = {i \in 1 .. Len(Fed(s)) : Ran(f, k, WorkAt(f, call.chains[k], b, i))'}
  BY <1>0 DEF Did, Fed
<1>5. \A f \in Kernel : Did(f, k, b, s) \subseteq 1 .. Len(Fed(s))
  BY <1>4
<1>6. \A f \in Kernel \ {e} : Did(f, k, b, s)' = Did(f, k, b, s)
  BY <1>3, <1>4
<1>7. /\ Did(e, k, b, s)' \subseteq 1 .. Len(Fed(s))
      /\ \A i \in 1 .. Len(Fed(s)) :
           i \in Did(e, k, b, s)' <=> (i \in Did(e, k, b, s) \/ WorkAt(e, call.chains[k], b, i) = w)
  BY <1>1, <1>3, <1>4
<1>8. \A i \in Did(e, k, b, s) : WorkAt(e, call.chains[k], b, i) # w
  BY <1>1, <1>4
<1>9. \A f \in KernelsOf(call.chains[k].path) : Stage(f) < Stage(e) => Did(f, k, b, s) = 1 .. Len(Fed(s))
  BY <1>1, <1>k, <1>4
<1>10. \A f \in KernelsOf(call.chains[k].path) : Stage(e) < Stage(f) => Did(f, k, b, s) = {}
  BY <1>1, <1>k, <1>2, <1>4
<1>11. ASSUME e \notin PerToken, w = b PROVE Did(e, k, b, s) = {} /\ Did(e, k, b, s)' = 1 .. Len(Fed(s))
  <2>1. \A i \in 1 .. Len(Fed(s)) : WorkAt(e, call.chains[k], b, i) = w
    BY <1>11 DEF WorkAt
  <2> QED BY <1>1, <1>5, <1>7, <1>8, <2>1
<1>12. ASSUME e \in PerToken, NEW i \in 1 .. Len(Fed(s)), w = call.chains[k].start[b] + i - 1
       PROVE  i \notin Did(e, k, b, s) /\ Did(e, k, b, s)' = Did(e, k, b, s) \cup {i}
  <2>1. WorkAt(e, call.chains[k], b, i) = w
    BY <1>12 DEF WorkAt
  <2>2. e \in PerToken =>
              /\ WorkAt(e, call.chains[k], b, i) \in call.chains[k].start[b] .. call.chains[k].start[b + 1] - 1
              /\ \A j \in 1 .. Len(Fed(s)) : WorkAt(e, call.chains[k], b, i) = WorkAt(e, call.chains[k], b, j) => i = j
    BY <1>1, WorkFacts, Zenon
  <2>3. \A j \in 1 .. Len(Fed(s)) : WorkAt(e, call.chains[k], b, j) = w => i = j
    BY <1>12, <2>1, <2>2
  <2> QED BY <1>1, <1>5, <1>7, <1>8, <2>1, <2>3
<1> QED BY <1>5, <1>6, <1>9, <1>10, <1>11, <1>12 DEF DidStep

(* What a work-group does not touch stays as it was.                       *)
LEMMA Untouched ==
  ASSUME Underway, NEW e, NEW k \in ChainIds, NEW w, Runs(e, k, w),
         NEW l \in ChainIds, NEW d \in Entries(call.chains[l]), NEW r \in Seqs, EntryOK(call.chains[l], d, r),
         Same(l, d, r), EntryInv(l, d, r),
         \A f \in Kernel : \A i \in 1 .. Len(Fed(r)) : ~(f = e /\ l = k /\ WorkAt(f, call.chains[l], d, i) = w)
  PROVE  EntryInv(l, d, r)'
<1>0. call' = call /\ said' = said /\ acc' = acc
  BY DEF Runs
<1>1. Fed(r)' = Fed(r)
  BY <1>0 DEF Fed
<1>2. \A f \in Kernel : Did(f, l, d, r)' = Did(f, l, d, r)
  <2> SUFFICES ASSUME NEW f \in Kernel, NEW i \in 1 .. Len(Fed(r))
               PROVE  Ran(f, l, WorkAt(f, call.chains[l], d, i))' <=> Ran(f, l, WorkAt(f, call.chains[l], d, i))
    BY <1>0, <1>1 DEF Did
  <2> DEFINE v == WorkAt(f, call.chains[l], d, i)
  <2>1. v \in Groups(f, call.chains[l]) /\ v' = v
    BY <1>0, WorkFacts DEF WorkAt
  <2>2. ~(f = e /\ l = k /\ v = w)
    OBVIOUS
  <2> HIDE DEF v
  <2>3. \A x \in Groups(f, call.chains[l]) : Ran(f, l, x)' <=> (Ran(f, l, x) \/ (f = e /\ l = k /\ x = w))
    BY DEF Runs
  <2>4. Ran(f, l, v)' <=> Ran(f, l, v)
    BY <2>1, <2>2, <2>3 DEF Ran
  <2> QED BY <2>4 DEF v
<1>3. \A i : RowAt(call.chains[l], d, i)' = RowAt(call.chains[l], d, i)
  BY <1>0 DEF RowAt, ChunksBefore, Entries
<1>4. View(l, d, r)' = View(l, d, r)
  <2>1. conv'[SlotsOf(r)[0]] = conv[SlotsOf(r)[0]]
    BY DEF Same
  <2>2. [j \in 0 .. NumSpec - 1 |-> ssm'[SlotsOf(r)[j]]] = [j \in 0 .. NumSpec - 1 |-> ssm[SlotsOf(r)[j]]]
    BY DEF Same
  <2>3. [i \in 1 .. Len(Fed(r)) |-> mid'[l][RowAt(call.chains[l], d, i)]]
         = [i \in 1 .. Len(Fed(r)) |-> mid[l][RowAt(call.chains[l], d, i)]]
    BY DEF Same
  <2>4. [i \in 1 .. Len(Fed(r)) |-> out'[call.at[r] + i - 1]] = [i \in 1 .. Len(Fed(r)) |-> out[call.at[r] + i - 1]]
    BY DEF Same
  <2>5. [i \in 1 .. Len(Fed(r)) |-> z'[call.at[r] + i - 1]] = [i \in 1 .. Len(Fed(r)) |-> z[call.at[r] + i - 1]]
    BY DEF Same
  <2>6. tmp'[l][d] = tmp[l][d]
    BY DEF Same
  <2>7. [f \in Kernel |-> Did(f, l, d, r)'] = [f \in Kernel |-> Did(f, l, d, r)]
    BY <1>2
  <2>8. [i \in 1 .. Len(Fed(r)) |-> mid[l][RowAt(call.chains[l], d, i)]]'
         = [i \in 1 .. Len(Fed(r)) |-> mid'[l][RowAt(call.chains[l], d, i)]]
    BY <1>0, <1>1, <1>3
  <2> QED BY <1>0, <1>1, <2>1, <2>2, <2>3, <2>4, <2>5, <2>6, <2>7, <2>8 DEF View
<1>5. EntryInv(l, d, r)' = EntryInv(l, d, r)
  BY <1>0, <1>1, <1>4 DEF EntryInv
<1> QED BY <1>5

(* The caches of another sequence, and the work of another entry.          *)
LEMMA OtherCaches ==
  ASSUME NEW k, NEW b, NEW s \in Seqs, Only(k, b, s), NEW r \in Seqs, r # s
  PROVE  /\ conv'[SlotsOf(r)[0]] = conv[SlotsOf(r)[0]]
         /\ \A j \in 0 .. NumSpec - 1 : ssm'[SlotsOf(r)[j]] = ssm[SlotsOf(r)[j]]
<1>1. 0 \in 0 .. NumSpec - 1 /\ \A j \in 0 .. NumSpec - 1 : SlotsOf(r)[j] \in Slots
  BY SlotFacts
<1>2. \A i, j \in 0 .. NumSpec - 1 : SlotsOf(r)[i] # SlotsOf(s)[j]
  BY SlotsApart
<1> QED BY <1>1, <1>2 DEF Only

(* An entry keeps its facts while a work-group of another one runs.        *)
LEMMA OtherEntries ==
  ASSUME Underway, NEW k \in ChainIds, NEW b \in Entries(call.chains[k]), NEW s \in Seqs,
         EntryOK(call.chains[k], b, s), Only(k, b, s),
         NEW l \in ChainIds, NEW d \in Entries(call.chains[l]), NEW r \in Seqs, EntryOK(call.chains[l], d, r),
         r # s
  PROVE  Same(l, d, r) /\ (l = k => d # b)
<1>0. FeedOK /\ InCall /\ ChainOK(call.chains[k]) /\ ChainOK(call.chains[l])
  BY EntryBasics
<1>1. l = k => d # b
  <2>1. call.chains[k].slot[b] = SlotsOf(s) /\ call.chains[l].slot[d] = SlotsOf(r)
    BY DEF EntryOK
  <2>2. SlotsOf(s) # SlotsOf(r)
    BY SlotsDiffer
  <2> QED BY <2>1, <2>2
<1>2. tmp'[l][d] = tmp[l][d]
  BY <1>1 DEF Only
<1>3. ASSUME NEW j \in 1 .. Len(Fed(r))
      PROVE  mid'[l][RowAt(call.chains[l], d, j)] = mid[l][RowAt(call.chains[l], d, j)]
  <2>1. RowAt(call.chains[l], d, j) \in 0 .. Height(call.chains[l]) - 1
    BY <1>0, RowFacts
  <2>2. ASSUME l = k, NEW i \in 1 .. Len(Fed(s)) PROVE RowAt(call.chains[l], d, j) # RowAt(call.chains[k], b, i)
    <3>1. ASSUME RowAt(call.chains[k], d, j) = RowAt(call.chains[k], b, i) PROVE FALSE
      <4>1. d \in Entries(call.chains[k]) /\ EntryOK(call.chains[k], d, r)
        BY <2>2
      <4>2. d = b
        BY <1>0, <3>1, <4>1, RowsApart
      <4> QED BY <1>1, <2>2, <4>2
    <3> QED BY <2>2, <3>1
  <2> QED BY <2>1, <2>2 DEF Only
<1>4. ASSUME NEW j \in 1 .. Len(Fed(r))
      PROVE  out'[call.at[r] + j - 1] = out[call.at[r] + j - 1] /\ z'[call.at[r] + j - 1] = z[call.at[r] + j - 1]
  <2>1. call.at[r] + j - 1 \in 0 .. Len(call.tokens) - 1
    BY <1>0, EntryFacts
  <2>2. ASSUME NEW i \in 1 .. Len(Fed(s)) PROVE call.at[r] + j - 1 # call.at[s] + i - 1
    <3>1. call.at[s] + Len(Fed(s)) <= call.at[r] \/ call.at[r] + Len(Fed(r)) <= call.at[s]
      BY <1>0 DEF FeedOK, EntryOK
    <3>2. PICK x \in Nat, y \in Nat, n \in Nat, m \in Nat :
            x = call.at[s] /\ y = call.at[r] /\ n = Len(Fed(s)) /\ m = Len(Fed(r))
      BY <1>0, EntryFacts
    <3>3. x + n <= y \/ y + m <= x
      BY <3>1, <3>2
    <3>4. i \in 1 .. n /\ j \in 1 .. m
      BY <3>2
    <3>5. y + j - 1 # x + i - 1
      BY <3>3, <3>4
    <3> QED BY <3>2, <3>5
  <2> QED BY <2>1, <2>2 DEF Only
<1> QED BY <1>1, <1>2, <1>3, <1>4, OtherCaches DEF Same

(* A line, and what LineHolds says of it.                                  *)
LEMMA LineFacts ==
  /\ \A i \in 0 .. Width - 2 : i \in 0 .. StateLen - 1
  /\ \A a \in 1 .. NumSpec : \A i \in 0 .. Width - 2 : (a - 1) + i \in 0 .. StateLen - 1
  BY Sizes

(* The window saved last holds the last tokens of the whole sequence.      *)
LEMMA SavedWindow ==
  ASSUME NEW h \in Seq(Int), NEW line,
         \A i \in 0 .. Width - 2 : line[i] = Win(h, Len(h))[i + 2]
  PROVE  LineHolds(line, 1, h)
<1> SUFFICES ASSUME NEW i \in 0 .. Width - 2 PROVE line[1 - 1 + i] = Nth(h, Len(h) - Width + i + 2)
  BY DEF LineHolds
<1>1. Width \in Nat /\ Width >= 2 /\ Len(h) \in Nat
  BY Sizes, LenProperties
<1>2. i + 2 \in 1 .. Width /\ 1 - 1 + i = i /\ Len(h) - Width + (i + 2) = Len(h) - Width + i + 2
  BY <1>1
<1>3. Win(h, Len(h))[i + 2] = Nth(h, Len(h) - Width + (i + 2))
  BY <1>2 DEF Win
<1> QED BY <1>2, <1>3

(* The window of a token, when the line holds what its sequence said.      *)
LEMMA WindowIs ==
  ASSUME Underway, NEW k \in ChainIds, NEW b \in Entries(call.chains[k]), NEW s \in Seqs,
         EntryOK(call.chains[k], b, s), NEW i \in 1 .. Len(Fed(s)),
         IF call.chains[k].init[b] THEN LineHolds(conv[SlotsOf(s)[0]], 1, said[s]) ELSE said[s] = <<>>
  PROVE  LET c == call.chains[k]
             t == c.start[b] + i - 1
         IN Window(c, t) = Win(Whole(s), Len(said[s]) + i) /\ Input(c, t) = Fed(s)[i] /\ BatchOf(c, t) = b
            /\ SeqEnd(c, t) - SeqStart(c, t) = Len(Fed(s))
            /\ (SeqEnd(c, t) - 1 = t <=> i = Len(Fed(s)))
<1> DEFINE c == call.chains[k]
           t == c.start[b] + i - 1
           h == said[s]
           f == Fed(s)
<1>0. /\ ChainOK(c) /\ FeedOK /\ InCall /\ h \in Seq(Int) /\ f \in Seq(Int) /\ Len(f) \in Nat \ {0}
      /\ c.slot[b] = SlotsOf(s)
  BY EntryBasics
<1>1. /\ c.start[b] \in Nat /\ c.start[b + 1] = c.start[b] + Len(f)
      /\ \A j \in 1 .. Len(f) : /\ c.start[b] + j - 1 \in c.start[b] .. c.start[b + 1] - 1
                                /\ c.indx[c.start[b] + j - 1] = call.at[s] + j - 1
                                /\ call.tokens[call.at[s] + j] = f[j]
      /\ call.at[s] \in Nat
  <2>0. ChainOK(c) /\ FeedOK /\ InCall /\ b \in Entries(c) /\ EntryOK(c, b, s)
    BY <1>0
  <2> HIDE DEF c
  <2>1. c.start[b] \in Nat /\ c.start[b + 1] = c.start[b] + Len(Fed(s)) /\ call.at[s] \in Nat
    BY <2>0, EntryFacts
  <2>2. \A j \in 1 .. Len(Fed(s)) :
           /\ c.start[b] + j - 1 \in c.start[b] .. c.start[b + 1] - 1
           /\ c.indx[c.start[b] + j - 1] = call.at[s] + j - 1
           /\ call.tokens[call.at[s] + j] = Fed(s)[j]
    BY <2>0, EntryFacts
  <2> QED BY <2>1, <2>2
<1>2. BatchOf(c, t) = b /\ SeqStart(c, t) = c.start[b] /\ SeqEnd(c, t) = c.start[b + 1]
  BY <1>0, <1>1, InEntry
<1>i. i \in Nat /\ 1 <= i /\ i <= Len(f)
  BY <1>0
<1>3. \A j \in 1 .. Len(f) : Input(c, c.start[b] + j - 1) = f[j]
  <2> SUFFICES ASSUME NEW j \in 1 .. Len(f) PROVE Input(c, c.start[b] + j - 1) = f[j]
    OBVIOUS
  <2>0. PICK x \in Nat : x = call.at[s]
    BY <1>1
  <2>1. c.indx[c.start[b] + j - 1] + 1 = call.at[s] + j
    <3>1. j \in Nat
      BY <1>0
    <3>2. c.indx[c.start[b] + j - 1] = x + j - 1
      BY <1>1, <2>0
    <3>3. (x + j - 1) + 1 = x + j
      BY <3>1
    <3> QED BY <2>0, <3>2, <3>3
  <2> QED BY <1>1, <2>1 DEF Input
<1>4. SeqEnd(c, t) - SeqStart(c, t) = Len(f) /\ (SeqEnd(c, t) - 1 = t <=> i = Len(f))
  <2>1. PICK x \in Nat, n \in Nat : x = c.start[b] /\ n = Len(f)
    BY <1>0, <1>1
  <2>2. SeqEnd(c, t) = x + n /\ SeqStart(c, t) = x /\ t = x + i - 1
    BY <1>1, <1>2, <2>1
  <2>3. (x + n) - x = n /\ ((x + n) - 1 = x + i - 1 <=> i = n)
    <3>1. i \in Nat /\ x \in Nat /\ n \in Nat
      BY <1>i, <2>1
    <3> HIDE DEF c, t, f, h
    <3>2. (x + n) - x = n
      BY <3>1
    <3>3. (x + n) - 1 = x + i - 1 <=> i = n
      BY <3>1
    <3> QED BY <3>2, <3>3
  <2> QED BY <2>1, <2>2, <2>3
<1>5. Window(c, t) = Win(h \o f, Len(h) + i)
  <2> DEFINE load == IF i >= Width THEN Width ELSE i
             states == Width - load
  <2>w. Width \in Nat /\ Width >= 2 /\ load \in Nat /\ states \in Nat /\ load >= 1 /\ load <= i
    BY <1>i, Sizes
  <2>1. t - SeqStart(c, t) + 1 = i
    <3>1. PICK x \in Nat : x = c.start[b]
      BY <1>1
    <3> QED BY <1>2, <1>i, <3>1
  <2>2. Window(c, t) = [j \in 1 .. Width |->
          IF j > states THEN Input(c, t - load + j - states)
          ELSE IF c.init[b] THEN conv[SlotsOf(s)[0]][Width - 2 - states + j] ELSE Zero]
    BY <1>0, <1>2, <2>1 DEF Window
  <2>l. Len(h) \in Nat
    BY <1>0, LenProperties
  <2>3. ASSUME NEW j \in 1 .. Width
        PROVE  (IF j > states THEN Input(c, t - load + j - states)
                ELSE IF c.init[b] THEN conv[SlotsOf(s)[0]][Width - 2 - states + j] ELSE Zero)
               = Nth(h \o f, (Len(h) + i) - Width + j)
    <3>j. j \in Nat /\ 1 <= j /\ j <= Width
      BY <2>w
    <3>1. CASE j > states
      <4>1. PICK x \in Nat : x = c.start[b]
        BY <1>1
      <4>2. i - Width + j \in 1 .. Len(f) /\ t - load + j - states = x + (i - Width + j) - 1
        <5>1. PICK n \in Nat : n = Len(f)
          BY <1>i
        <5>2. i \in Nat /\ i <= n /\ load <= i /\ load \in Nat /\ states + load = Width /\ t = x + i - 1
          BY <1>i, <1>1, <2>w, <4>1, <5>1
        <5> HIDE DEF load, states, f, h, c, t
        <5>3. i - Width + j \in 1 .. n /\ t - load + j - states = x + (i - Width + j) - 1
          BY <2>w, <3>j, <3>1, <5>2
        <5> QED BY <5>1, <5>3
      <4>3. Input(c, t - load + j - states) = f[i - Width + j]
        BY <1>3, <4>1, <4>2
      <4>4. Nth(h \o f, (Len(h) + i) - Width + j) = f[i - Width + j]
        <5> DEFINE y == i - Width + j
        <5>1. (Len(h) + i) - Width + j = Len(h) + y /\ y \in 1 .. Len(f) /\ ~(Len(h) + y < 1)
          <6>1. PICK n \in Nat, m \in Nat : n = Len(f) /\ m = Len(h)
            BY <1>i, <2>l
          <6>2. y \in 1 .. n /\ i \in Nat
            BY <1>i, <4>2, <6>1
          <6> HIDE DEF f, h, c, t, load, states
          <6>3. (m + i) - Width + j = m + y /\ ~(m + y < 1)
            BY <2>w, <3>j, <6>2
          <6> QED BY <6>1, <6>2, <6>3
        <5> HIDE DEF y
        <5>2. (h \o f)[Len(h) + y] = f[y]
          BY <1>0, <5>1, Joined
        <5>3. Nth(h \o f, Len(h) + y) = f[y]
          BY <5>1, <5>2 DEF Nth
        <5> QED BY <5>1, <5>3 DEF y
      <4> QED BY <3>1, <4>3, <4>4
    <3>2. CASE ~(j > states) /\ c.init[b]
      <4>1. LineHolds(conv[SlotsOf(s)[0]], 1, h)
        BY <3>2
      <4>2. load = i /\ states = Width - i /\ j <= Width - i
        BY <1>i, <2>w, <3>j, <3>2
      <4>3. i - 2 + j \in 0 .. Width - 2 /\ Width - 2 - states + j = 1 - 1 + (i - 2 + j)
            /\ Len(h) - Width + (i - 2 + j) + 2 = (Len(h) + i) - Width + j
        <5> HIDE DEF load, states
        <5>1. i \in Nat /\ j \in Nat /\ Width \in Nat /\ Len(h) \in Nat /\ 1 <= i /\ 1 <= j /\ j <= Width - i
              /\ states = Width - i
          BY <1>i, <2>w, <2>l, <3>j, <4>2
        <5> HIDE DEF h, f, c, t
        <5> QED BY <5>1
      <4>4. conv[SlotsOf(s)[0]][1 - 1 + (i - 2 + j)] = Nth(h, Len(h) - Width + (i - 2 + j) + 2)
        <5> DEFINE y == i - 2 + j
        <5>1. y \in 0 .. Width - 2
          BY <4>3
        <5> HIDE DEF y
        <5>2. conv[SlotsOf(s)[0]][1 - 1 + y] = Nth(h, Len(h) - Width + y + 2)
          BY <4>1, <5>1 DEF LineHolds
        <5> QED BY <5>2 DEF y
      <4>5. Nth(h, (Len(h) + i) - Width + j) = Nth(h \o f, (Len(h) + i) - Width + j)
        <5> DEFINE y == (Len(h) + i) - Width + j
        <5>1. y \in Int /\ y <= Len(h) /\ y <= Len(h) + 0 /\ 0 \in 0 .. Len(f)
          <6>1. PICK n \in Nat, m \in Nat : n = Len(f) /\ m = Len(h)
            BY <1>i, <2>l
          <6>2. i \in Nat /\ j <= Width - i
            BY <1>i, <4>2
          <6> HIDE DEF f, h, c, t, load, states
          <6>3. (m + i) - Width + j \in Int /\ (m + i) - Width + j <= m /\ (m + i) - Width + j <= m + 0 /\ 0 \in 0 .. n
            BY <2>w, <3>j, <6>1, <6>2
          <6> QED BY <6>1, <6>3
        <5> HIDE DEF y
        <5>2. Nth(h, y) = Nth(h \o f, y)
          BY <1>0, <5>1, NthPrefix
        <5> QED BY <5>2 DEF y
      <4> QED BY <3>2, <4>3, <4>4, <4>5
    <3>3. CASE ~(j > states) /\ ~c.init[b]
      <4>1. h = <<>> /\ Len(h) = 0
        BY <3>3
      <4>2. (Len(h) + i) - Width + j < 1
        BY <1>i, <2>w, <3>j, <3>3, <4>1
      <4> QED BY <3>3, <4>2 DEF Nth
    <3> QED BY <3>1, <3>2, <3>3
  <2> HIDE DEF load, states
  <2> QED BY <2>2, <2>3 DEF Win
<1> QED BY <1>2, <1>3, <1>4, <1>5 DEF Whole, Fed

-----------------------------------------------------------------------------
(* The kernels.                                                            *)
LEMMA Viewed ==
  ASSUME NEW k, NEW b, NEW s
  PROVE  /\ View(k, b, s).line = conv[SlotsOf(s)[0]] /\ View(k, b, s).saved = tmp[k][b]
         /\ \A j \in 0 .. NumSpec - 1 : View(k, b, s).cols[j] = ssm[SlotsOf(s)[j]]
         /\ \A i \in 1 .. Len(Fed(s)) : /\ View(k, b, s).rows[i] = mid[k][RowAt(call.chains[k], b, i)]
                                        /\ View(k, b, s).outs[i] = out[call.at[s] + i - 1]
                                        /\ View(k, b, s).zs[i] = z[call.at[s] + i - 1]
         /\ \A f \in Kernel : View(k, b, s).did[f] = Did(f, k, b, s)
  BY DEF View

LEMMA ViewedNext ==
  ASSUME NEW k, NEW b, NEW s, call' = call
  PROVE  /\ View(k, b, s)'.line = conv'[SlotsOf(s)[0]] /\ View(k, b, s)'.saved = tmp'[k][b]
         /\ \A j \in 0 .. NumSpec - 1 : View(k, b, s)'.cols[j] = ssm'[SlotsOf(s)[j]]
         /\ \A i \in 1 .. Len(Fed(s)) : /\ View(k, b, s)'.rows[i] = mid'[k][RowAt(call.chains[k], b, i)]
                                        /\ View(k, b, s)'.outs[i] = out'[call.at[s] + i - 1]
                                        /\ View(k, b, s)'.zs[i] = z'[call.at[s] + i - 1]
         /\ \A f \in Kernel : View(k, b, s)'.did[f] = Did(f, k, b, s)'
<1>1. Fed(s)' = Fed(s)
  BY DEF Fed
<1>2. \A i : RowAt(call.chains[k], b, i)' = RowAt(call.chains[k], b, i)
  BY DEF RowAt, ChunksBefore, Entries
<1>3. [i \in 1 .. Len(Fed(s)) |-> mid[k][RowAt(call.chains[k], b, i)]]'
       = [i \in 1 .. Len(Fed(s)) |-> mid'[k][RowAt(call.chains[k], b, i)]]
  BY <1>1, <1>2
<1> QED BY <1>1, <1>3 DEF View

LEMMA TypeNext ==
  ASSUME Underway, UNCHANGED <<call, said, acc, spec, calls>>,
         conv' \in [Slots -> [0 .. StateLen - 1 -> Int]], ssm' \in [Slots \cup {Pad} -> Seq(Row)],
         mid' = [l \in ChainIds |-> mid'[l]], tmp' = [l \in ChainIds |-> tmp'[l]],
         \A l \in ChainIds : mid'[l] \in [0 .. Height(call.chains[l]) - 1 -> Row],
         \A l \in ChainIds : tmp'[l] \in [Entries(call.chains[l]) -> [0 .. Width - 2 -> Int]],
         out' \in [0 .. Len(call.tokens) - 1 -> Seq(Row)], z' \in [0 .. Len(call.tokens) - 1 -> Int]
  PROVE  GdnType'
<1>1. WorkType'
  BY DEF WorkType, ChainIds, Height, Tokens, Entries
<1> QED BY <1>1 DEF GdnType, Underway

(* One row of the buffers is written.                                      *)
MidWritten(k, y, row) ==
  /\ mid' = [l \in ChainIds |-> mid'[l]]
  /\ \A l \in ChainIds : mid'[l] \in [0 .. Height(call.chains[l]) - 1 -> Row]
  /\ \A l \in ChainIds : \A x \in 0 .. Height(call.chains[l]) - 1 : (l = k => x # y) => mid'[l][x] = mid[l][x]
  /\ mid'[k][y] = row

LEMMA MidWrite ==
  ASSUME WorkType, NEW k \in ChainIds, NEW y \in 0 .. Height(call.chains[k]) - 1, NEW row \in Row,
         mid' = [mid EXCEPT ![k][y] = row]
  PROVE  MidWritten(k, y, row)
<1>1. mid = [l \in ChainIds |-> mid[l]] /\ \A l \in ChainIds : mid[l] \in [0 .. Height(call.chains[l]) - 1 -> Row]
  BY DEF WorkType
<1>2. mid' = [l \in ChainIds |-> IF l = k THEN [mid[k] EXCEPT ![y] = row] ELSE mid[l]]
  BY <1>1
<1>3. [mid[k] EXCEPT ![y] = row] \in [0 .. Height(call.chains[k]) - 1 -> Row]
      /\ [mid[k] EXCEPT ![y] = row][y] = row
      /\ \A x \in 0 .. Height(call.chains[k]) - 1 : x # y => [mid[k] EXCEPT ![y] = row][x] = mid[k][x]
  BY <1>1
<1> QED BY <1>1, <1>2, <1>3 DEF MidWritten

(* The window is saved to the line, or kept for a later kernel.            *)
LEMMA SaveEffect ==
  ASSUME Underway, NEW k \in ChainIds, NEW b \in Entries(call.chains[k]), NEW s \in Seqs,
         EntryOK(call.chains[k], b, s), NEW i \in 1 .. Len(Fed(s)),
         IF call.chains[k].init[b] THEN LineHolds(conv[SlotsOf(s)[0]], 1, said[s]) ELSE said[s] = <<>>,
         SaveStates(k, call.chains[k].start[b] + i - 1)
  PROVE  /\ conv' \in [Slots -> [0 .. StateLen - 1 -> Int]]
         /\ \A x \in Slots : x # SlotsOf(s)[0] => conv'[x] = conv[x]
         /\ tmp' = [l \in ChainIds |-> tmp'[l]]
         /\ \A l \in ChainIds : tmp'[l] \in [Entries(call.chains[l]) -> [0 .. Width - 2 -> Int]]
         /\ \A l \in ChainIds : \A d \in Entries(call.chains[l]) : (l = k => d # b) => tmp'[l][d] = tmp[l][d]
         /\ IF Len(Fed(s)) = 1 THEN LineHolds(conv'[SlotsOf(s)[0]], 1, Whole(s))
            ELSE conv'[SlotsOf(s)[0]] = conv[SlotsOf(s)[0]]
         /\ IF Len(Fed(s)) > 1 /\ i = Len(Fed(s)) THEN LineHolds(tmp'[k][b], 1, Whole(s))
            ELSE tmp'[k][b] = tmp[k][b]
<1> DEFINE c == call.chains[k]
           t == c.start[b] + i - 1
           g == Win(Whole(s), Len(said[s]) + i)
           old == conv[SlotsOf(s)[0]]
           line == [j \in 0 .. StateLen - 1 |-> IF j <= Width - 2 THEN g[j + 2] ELSE old[j]]
           save == [j \in 0 .. Width - 2 |-> g[j + 2]]
<1>0. /\ ChainOK(c) /\ FeedOK /\ WorkType /\ InCall /\ said[s] \in Seq(Int) /\ Fed(s) \in Seq(Int)
      /\ Len(Fed(s)) \in Nat \ {0} /\ SlotsOf(s)[0] \in Slots /\ old \in [0 .. StateLen - 1 -> Int]
      /\ c.slot[b] = SlotsOf(s)
  BY EntryBasics
<1>n. Len(Fed(s)) \in Nat /\ Len(Fed(s)) >= 1 /\ i \in Nat /\ 1 <= i /\ i <= Len(Fed(s))
  BY <1>0
<1>t. conv \in [Slots -> [0 .. StateLen - 1 -> Int]]
  BY DEF Underway, GdnType
<1>1. Window(c, t) = g /\ BatchOf(c, t) = b /\ SeqEnd(c, t) - SeqStart(c, t) = Len(Fed(s))
      /\ (SeqEnd(c, t) - 1 = t <=> i = Len(Fed(s)))
  BY WindowIs
<1>2. /\ Whole(s) \in Seq(Int) /\ Len(Whole(s)) = Len(said[s]) + Len(Fed(s)) /\ Len(said[s]) \in Nat
      /\ g \in [1 .. Width -> Int]
  <2>1. Whole(s) \in Seq(Int) /\ Len(Whole(s)) = Len(said[s]) + Len(Fed(s)) /\ Len(said[s]) \in Nat
    BY <1>0, Joined DEF Whole, Fed
  <2>2. g \in [1 .. Width -> Int]
    BY <1>0, RowForFacts DEF Whole, Fed
  <2> QED BY <2>1, <2>2
<1>w. Width \in Nat /\ Width >= 2 /\ StateLen \in Nat /\ StateLen = (Width - 2) + NumSpec /\ NumSpec \in Nat \ {0}
  BY Sizes
<1>3. /\ line \in [0 .. StateLen - 1 -> Int] /\ save \in [0 .. Width - 2 -> Int]
      /\ \A j \in 0 .. Width - 2 : line[j] = g[j + 2] /\ save[j] = g[j + 2]
  <2>1. \A j \in 0 .. Width - 2 : g[j + 2] \in Int
    <3> SUFFICES ASSUME NEW j \in 0 .. Width - 2 PROVE g[j + 2] \in Int
      OBVIOUS
    <3>1. j + 2 \in 1 .. Width
      BY <1>w
    <3> HIDE DEF g
    <3> QED BY <1>2, <3>1
  <2>2. \A j \in 0 .. StateLen - 1 : j <= Width - 2 => j \in 0 .. Width - 2
    BY <1>w
  <2>3. \A j \in 0 .. Width - 2 : j <= Width - 2 /\ j \in 0 .. StateLen - 1
    BY <1>w
  <2> QED BY <1>0, <2>1, <2>2, <2>3
<1>4. i = Len(Fed(s)) => LineHolds(line, 1, Whole(s)) /\ LineHolds(save, 1, Whole(s))
  <2> SUFFICES ASSUME i = Len(Fed(s)) PROVE LineHolds(line, 1, Whole(s)) /\ LineHolds(save, 1, Whole(s))
    OBVIOUS
  <2>1. g = Win(Whole(s), Len(Whole(s)))
    BY <1>2
  <2> HIDE DEF g, line, save
  <2> QED BY <1>2, <1>3, <2>1, SavedWindow
<1>5. CASE Len(Fed(s)) > 1
  <2>1. /\ tmp' = (IF SeqEnd(c, t) - 1 = t THEN [tmp EXCEPT ![k][b] = save] ELSE tmp)
        /\ conv' = conv
    BY <1>1, <1>5 DEF SaveStates
  <2>2. Len(Fed(s)) # 1
    <3>1. PICK n \in Nat : n = Len(Fed(s))
      BY <1>n
    <3> QED BY <1>5, <3>1
  <2>3. CASE i = Len(Fed(s))
    <3>1. tmp' = [tmp EXCEPT ![k][b] = save]
      BY <1>1, <2>1, <2>3
    <3> HIDE DEF save
    <3>2. /\ tmp' = [l \in ChainIds |-> tmp'[l]]
          /\ \A l \in ChainIds : tmp'[l] \in [Entries(call.chains[l]) -> [0 .. Width - 2 -> Int]]
          /\ \A l \in ChainIds : \A d \in Entries(call.chains[l]) : (l = k => d # b) => tmp'[l][d] = tmp[l][d]
          /\ tmp'[k][b] = save
      BY <1>0, <1>3, <3>1 DEF WorkType
    <3> QED BY <1>4, <1>5, <1>t, <2>1, <2>2, <2>3, <3>2
  <2>4. CASE i # Len(Fed(s))
    <3>1. tmp' = tmp
      BY <1>1, <2>1, <2>4
    <3> QED BY <1>0, <1>t, <2>1, <2>2, <2>4, <3>1 DEF WorkType
  <2> QED BY <2>3, <2>4
<1>6. CASE ~(Len(Fed(s)) > 1)
  <2>1. i = Len(Fed(s)) /\ Len(Fed(s)) = 1
    <3>1. PICK n \in Nat : n = Len(Fed(s))
      BY <1>n
    <3>2. n = 1
      BY <1>n, <1>6, <3>1
    <3>3. 1 <= i /\ i <= 1 /\ i \in Nat
      BY <1>n, <3>1, <3>2
    <3> QED BY <3>1, <3>2, <3>3
  <2>2. conv' = [conv EXCEPT ![c.slot[b][0]] = [j \in DOMAIN @ |-> IF j <= Width - 2 THEN g[j + 2] ELSE @[j]]]
        /\ tmp' = tmp
    BY <1>1, <1>6 DEF SaveStates
  <2>3. conv' = [conv EXCEPT ![SlotsOf(s)[0]] = line]
    <3>1. DOMAIN old = 0 .. StateLen - 1
      BY <1>0
    <3> QED BY <1>0, <2>2, <3>1
  <2> HIDE DEF line
  <2>4. /\ conv' \in [Slots -> [0 .. StateLen - 1 -> Int]] /\ conv'[SlotsOf(s)[0]] = line
        /\ \A x \in Slots : x # SlotsOf(s)[0] => conv'[x] = conv[x]
    BY <1>0, <1>t, <1>3, <2>3
  <2> QED BY <1>0, <1>4, <1>6, <2>1, <2>2, <2>4 DEF WorkType
<1> QED BY <1>5, <1>6

(* causal_conv1d, for a token of an entry.                                 *)
LEMMA NativeConv ==
  ASSUME Underway, NEW k, NEW w, Runs("causal_conv1d", k, w), NEW b \in Entries(call.chains[k]), NEW s \in Seqs,
         EntryOK(call.chains[k], b, s), NEW i \in 1 .. Len(Fed(s)), w = call.chains[k].start[b] + i - 1,
         EntryInv(k, b, s), CausalConv1d(k, w)
  PROVE  Only(k, b, s) /\ EntryInv(k, b, s)'
<1> DEFINE c == call.chains[k]
           e == "causal_conv1d"
<1>h. call' = call /\ said' = said /\ UNCHANGED <<call, said, acc, spec, calls>> /\ k \in ChainIds
      /\ e \in KernelsOf(c.path) /\ e \in Kernel
  <2>1. QueueOK /\ InOrder
    BY DEF Underway
  <2>2. k \in ChainIds /\ e \in KernelsOf(c.path) /\ e \in Kernel
    BY <2>1, HeadFacts DEF Runs
  <2> QED BY <2>2 DEF Runs
<1>0. /\ ChainOK(c) /\ FeedOK /\ WorkType /\ InCall /\ said[s] \in Seq(Int) /\ Fed(s) \in Seq(Int)
      /\ Len(Fed(s)) \in Nat \ {0} /\ SlotsOf(s)[0] \in Slots /\ c.slot[b] = SlotsOf(s)
      /\ mid[k] \in [0 .. Height(c) - 1 -> Row]
  BY <1>h, EntryBasics
<1>p. c.path = "native"
  BY <1>0, <1>h DEF ChainOK, KernelsOf
<1>1. c.init[b] /\ Len(Fed(s)) = 1 /\ i = 1
  <2>1. c.init[b] /\ Len(Fed(s)) = 1
    BY <1>p DEF EntryOK
  <2>2. i \in 1 .. 1
    BY <2>1
  <2> QED BY <2>1, <2>2
<1>3. Did(e, k, b, s) = {} /\ Did(e, k, b, s)' # {} /\ Did("gated_delta_rule", k, b, s)' = {}
      /\ Did("gated_delta_rule", k, b, s) = {}
  <2>1. e \in PerToken /\ "gated_delta_rule" \in Kernel \ {e} /\ "gated_delta_rule" \in KernelsOf(c.path)
        /\ Stage(e) < Stage("gated_delta_rule")
    BY <1>p DEF PerToken, KernelsOf, Stage, Kernel
  <2>2. /\ i \notin Did(e, k, b, s) /\ Did(e, k, b, s)' = Did(e, k, b, s) \cup {i}
        /\ Did(e, k, b, s) \subseteq 1 .. Len(Fed(s))
        /\ Did("gated_delta_rule", k, b, s)' = Did("gated_delta_rule", k, b, s)
        /\ Did("gated_delta_rule", k, b, s) = {}
    <3>s. DidStep(e, k, w, b, s)
      BY <1>h, DidRun
    <3>1. e \in PerToken =>
              \A j \in 1 .. Len(Fed(s)) : w = call.chains[k].start[b] + j - 1 =>
                j \notin Did(e, k, b, s) /\ Did(e, k, b, s)' = Did(e, k, b, s) \cup {j}
      BY <3>s DEF DidStep
    <3>2. /\ \A f \in Kernel : Did(f, k, b, s) \subseteq 1 .. Len(Fed(s))
          /\ \A f \in Kernel \ {e} : Did(f, k, b, s)' = Did(f, k, b, s)
          /\ \A f \in KernelsOf(c.path) : Stage(e) < Stage(f) => Did(f, k, b, s) = {}
      BY <3>s DEF DidStep
    <3> QED BY <1>h, <2>1, <3>1, <3>2
  <2>3. \A j \in 1 .. Len(Fed(s)) : j = i
    BY <1>1
  <2> QED BY <2>2, <2>3
<1>4. /\ LineHolds(conv[SlotsOf(s)[0]], 1, said[s])
      /\ ssm[SlotsOf(s)[0]] = Taken(said[s])
  <2>1. NativeInv(View(k, b, s), said[s], Fed(s))
    BY <1>p DEF EntryInv
  <2>2. e \in Kernel /\ "gated_delta_rule" \in Kernel /\ 0 \in 0 .. NumSpec - 1
    BY Sizes DEF Kernel
  <2> QED BY <1>3, <2>1, <2>2, Viewed DEF NativeInv
<1>5. /\ Window(c, w) = Win(Whole(s), Len(said[s]) + 1) /\ Input(c, w) = Fed(s)[1] /\ BatchOf(c, w) = b
  <2>1. IF c.init[b] THEN LineHolds(conv[SlotsOf(s)[0]], 1, said[s]) ELSE said[s] = <<>>
    BY <1>1, <1>4
  <2>2. /\ Window(c, c.start[b] + i - 1) = Win(Whole(s), Len(said[s]) + i)
        /\ Input(c, c.start[b] + i - 1) = Fed(s)[i] /\ BatchOf(c, c.start[b] + i - 1) = b
    BY <1>h, <2>1, WindowIs
  <2> QED BY <1>1, <2>2
<1>6. ~Padded(c, w)
  BY <1>0, <1>5, SlotFacts DEF Padded
<1>7. /\ mid' = [mid EXCEPT ![k][w] = Convolved(c, w)]
      /\ z' = [z EXCEPT ![c.indx[w]] = Input(c, w)]
      /\ SaveStates(k, w) /\ ssm' = ssm /\ out' = out
  BY <1>6 DEF CausalConv1d
<1>8. Convolved(c, w) = RowFor(said[s], Fed(s), 1) /\ RowFor(said[s], Fed(s), 1) \in Row /\ Fed(s)[1] \in Int
  BY <1>0, <1>1, <1>5, RowForFacts DEF Convolved, RowFor, Whole, Fed
<1>9. RowAt(c, b, 1) = w /\ w \in 0 .. Height(c) - 1 /\ c.indx[w] = call.at[s] + 1 - 1
      /\ call.at[s] + 1 - 1 \in 0 .. Len(call.tokens) - 1
  <2>1. RowAt(c, b, 1) = w
    BY <1>p, <1>1 DEF RowAt
  <2>2. RowAt(c, b, 1) \in 0 .. Height(c) - 1
    BY <1>0, <1>1, RowFacts
  <2>3. c.indx[w] = call.at[s] + 1 - 1 /\ call.at[s] + 1 - 1 \in 0 .. Len(call.tokens) - 1
    <3> HIDE DEF c
    <3>1. \A j \in 1 .. Len(Fed(s)) : c.indx[c.start[b] + j - 1] = call.at[s] + j - 1
                                       /\ call.at[s] + j - 1 \in 0 .. Len(call.tokens) - 1
      <4>1. ChainOK(c) /\ FeedOK /\ InCall /\ b \in Entries(c) /\ EntryOK(c, b, s)
        BY <1>0 DEF c
      <4> QED BY <4>1, EntryFacts
    <3>2. w = c.start[b] + i - 1
      BY DEF c
    <3> QED BY <1>1, <3>1, <3>2
  <2> QED BY <2>1, <2>2, <2>3
<1>10. /\ mid' = [l \in ChainIds |-> mid'[l]]
       /\ \A l \in ChainIds : mid'[l] \in [0 .. Height(call.chains[l]) - 1 -> Row]
       /\ \A l \in ChainIds : \A y \in 0 .. Height(call.chains[l]) - 1 : (l = k => y # w) => mid'[l][y] = mid[l][y]
       /\ mid'[k][w] = RowFor(said[s], Fed(s), 1)
  <2> DEFINE row == RowFor(said[s], Fed(s), 1)
  <2>1. mid' = [mid EXCEPT ![k][w] = row] /\ row \in Row
    BY <1>7, <1>8
  <2> HIDE DEF row
  <2>2. k \in ChainIds /\ WorkType /\ w \in 0 .. Height(call.chains[k]) - 1
    BY <1>h, <1>0, <1>9
  <2>3. /\ mid' = [l \in ChainIds |-> mid'[l]]
        /\ \A l \in ChainIds : mid'[l] \in [0 .. Height(call.chains[l]) - 1 -> Row]
        /\ \A l \in ChainIds : \A y \in 0 .. Height(call.chains[l]) - 1 : (l = k => y # w) => mid'[l][y] = mid[l][y]
        /\ mid'[k][w] = row
    <3>1. MidWritten(k, w, row)
      BY <2>1, <2>2, MidWrite
    <3> QED BY <3>1 DEF MidWritten
  <2> QED BY <2>3 DEF row
<1>11. /\ z' \in [0 .. Len(call.tokens) - 1 -> Int] /\ z'[call.at[s] + 1 - 1] = Fed(s)[1]
       /\ \A g \in 0 .. Len(call.tokens) - 1 : g # call.at[s] + 1 - 1 => z'[g] = z[g]
  BY <1>0, <1>5, <1>7, <1>8, <1>9 DEF WorkType
<1>12. /\ conv' \in [Slots -> [0 .. StateLen - 1 -> Int]]
       /\ \A x \in Slots : x # SlotsOf(s)[0] => conv'[x] = conv[x]
       /\ tmp' = [l \in ChainIds |-> tmp'[l]]
       /\ \A l \in ChainIds : tmp'[l] \in [Entries(call.chains[l]) -> [0 .. Width - 2 -> Int]]
       /\ \A l \in ChainIds : \A d \in Entries(call.chains[l]) : (l = k => d # b) => tmp'[l][d] = tmp[l][d]
       /\ LineHolds(conv'[SlotsOf(s)[0]], 1, Whole(s))
  BY <1>h, <1>1, <1>4, <1>7, SaveEffect
<1>13. GdnType'
  <2>1. ssm' \in [Slots \cup {Pad} -> Seq(Row)] /\ out' \in [0 .. Len(call.tokens) - 1 -> Seq(Row)]
    BY <1>0, <1>7 DEF WorkType, Underway, GdnType
  <2> QED BY <1>h, <1>10, <1>11, <1>12, <2>1, TypeNext
<1>14. Only(k, b, s)
  <2>1. 1 \in 1 .. Len(Fed(s))
    BY <1>1
  <2>2. \A l \in ChainIds : \A y \in 0 .. Height(call.chains[l]) - 1 :
       (l = k => \A j \in 1 .. Len(Fed(s)) : y # RowAt(call.chains[k], b, j)) => mid'[l][y] = mid[l][y]
    BY <1>9, <1>10, <2>1
  <2>3. \A g \in 0 .. Len(call.tokens) - 1 :
       (\A j \in 1 .. Len(Fed(s)) : g # call.at[s] + j - 1) => out'[g] = out[g] /\ z'[g] = z[g]
    BY <1>7, <1>11, <2>1
  <2> QED BY <1>7, <1>12, <1>13, <2>2, <2>3 DEF Only
<1>15. EntryInv(k, b, s)'
  <2>1. NativeInv(View(k, b, s)', said[s], Fed(s))
    <3>1. e \in Kernel /\ "gated_delta_rule" \in Kernel /\ 0 \in 0 .. NumSpec - 1 /\ 1 \in 1 .. Len(Fed(s))
      BY <1>1, Sizes DEF Kernel
    <3>2. View(k, b, s)'.did[e] # {} /\ View(k, b, s)'.did["gated_delta_rule"] = {}
      BY <1>h, <1>3, <3>1, ViewedNext
    <3>3. View(k, b, s)'.rows[1] = RowFor(said[s], Fed(s), 1) /\ View(k, b, s)'.zs[1] = Fed(s)[1]
          /\ View(k, b, s)'.line = conv'[SlotsOf(s)[0]] /\ View(k, b, s)'.cols[0] = Taken(said[s])
      <4>1. /\ View(k, b, s)'.line = conv'[SlotsOf(s)[0]] /\ View(k, b, s)'.cols[0] = ssm'[SlotsOf(s)[0]]
            /\ View(k, b, s)'.rows[1] = mid'[k][RowAt(c, b, 1)] /\ View(k, b, s)'.zs[1] = z'[call.at[s] + 1 - 1]
        BY <1>h, <3>1, ViewedNext
      <4> QED BY <1>4, <1>7, <1>9, <1>10, <1>11, <4>1
    <3> QED BY <1>12, <3>2, <3>3 DEF NativeInv, Whole, Fed
  <2> QED BY <1>h, <1>p, <2>1 DEF EntryInv, Fed
<1> QED BY <1>14, <1>15

(* The tokens of an entry and their places in the output.                  *)
LEMMA TokenOf ==
  ASSUME NEW c, ChainOK(c), InCall, FeedOK, NEW b \in Entries(c), NEW s \in Seqs, EntryOK(c, b, s)
  PROVE  /\ \A i \in 1 .. Len(Fed(s)) :
              /\ c.start[b] + i - 1 \in c.start[b] .. c.start[b + 1] - 1
              /\ \A t \in c.start[b] .. c.start[b + 1] - 1 :
                    c.indx[t] = call.at[s] + i - 1 <=> t = c.start[b] + i - 1
         /\ \A t \in c.start[b] .. c.start[b + 1] - 1 :
              \E i \in 1 .. Len(Fed(s)) : c.indx[t] = call.at[s] + i - 1
<1> DEFINE mine == c.start[b] .. c.start[b + 1] - 1
<1>1. /\ c.start[b] \in Nat /\ c.start[b + 1] \in Nat /\ c.start[b + 1] = c.start[b] + Len(Fed(s))
      /\ Len(Fed(s)) \in Nat /\ call.at[s] \in Nat
  BY EntryFacts
<1>2. \A i \in 1 .. Len(Fed(s)) : c.start[b] + i - 1 \in mine /\ c.indx[c.start[b] + i - 1] = call.at[s] + i - 1
  BY EntryFacts
<1>3. ASSUME NEW t \in mine PROVE \E i \in 1 .. Len(Fed(s)) : t = c.start[b] + i - 1
  <2>1. PICK x \in Nat, n \in Nat : x = c.start[b] /\ n = Len(Fed(s)) /\ c.start[b + 1] = x + n
    BY <1>1
  <2>2. t \in x .. (x + n) - 1
    BY <2>1
  <2>3. (t - x) + 1 \in 1 .. n /\ t = x + ((t - x) + 1) - 1
    BY <2>1, <2>2
  <2> QED BY <2>1, <2>3
<1>4. ASSUME NEW i \in 1 .. Len(Fed(s)), NEW t \in mine, c.indx[t] = call.at[s] + i - 1
      PROVE  t = c.start[b] + i - 1
  <2>1. PICK j \in 1 .. Len(Fed(s)) : t = c.start[b] + j - 1
    BY <1>3
  <2>2. call.at[s] + j - 1 = call.at[s] + i - 1
    BY <1>2, <1>4, <2>1
  <2>3. PICK y \in Nat : y = call.at[s]
    BY <1>1
  <2>4. i \in Nat /\ j \in Nat /\ y + j - 1 = y + i - 1
    BY <1>1, <2>2, <2>3
  <2>5. i = j
    BY <2>4
  <2> QED BY <2>1, <2>5
<1> QED BY <1>2, <1>3, <1>4

(* The rule over the rows of a sequence is the state they make.            *)
LEMMA AfterIs ==
  ASSUME NEW h \in Seq(Int), NEW f \in Seq(Int), NEW n \in 0 .. Len(f), NEW k, NEW row,
         \A i \in 1 .. n : mid[k][row + i - 1] = RowFor(h, f, i)
  PROVE  After(k, row, Taken(h), n) = StateAt(h, f, n) /\ StateAt(h, f, n) \in Seq(Row)
<1> DEFINE rows == [i \in 1 .. n |-> mid[k][row + i - 1]]
<1>1. \A i \in 1 .. n : rows[i] = RowFor(h, f, i)
  OBVIOUS
<1>2. [i \in 1 .. n |-> rows[i]] = [i \in 1 .. n |-> mid[k][row + i - 1]]
  OBVIOUS
<1> HIDE DEF rows
<1>3. /\ Taken(h) \o [i \in 1 .. n |-> rows[i]] = StateAt(h, f, n)
      /\ StateAt(h, f, n) \in Seq(Row)
  BY <1>1, Absorb
<1>4. After(k, row, Taken(h), n) = Taken(h) \o [i \in 1 .. n |-> mid[k][row + i - 1]]
  BY DEF After
<1> QED BY <1>2, <1>3, <1>4, Zenon

(* Each output row of an entry's tokens is read from its own state.        *)
LEMMA OutWrite ==
  ASSUME WorkType, FeedOK, NEW s \in Seqs, NEW new, \A i \in 1 .. Len(Fed(s)) : new[i] \in Seq(Row),
         DOMAIN out' = DOMAIN out, out' = [g \in DOMAIN out |-> out'[g]],
         \A i \in 1 .. Len(Fed(s)) : call.at[s] + i - 1 \in 0 .. Len(call.tokens) - 1 => out'[call.at[s] + i - 1] = new[i],
         \A g \in 0 .. Len(call.tokens) - 1 : (\A i \in 1 .. Len(Fed(s)) : g # call.at[s] + i - 1) => out'[g] = out[g]
  PROVE  out' \in [0 .. Len(call.tokens) - 1 -> Seq(Row)]
<1>1. out \in [0 .. Len(call.tokens) - 1 -> Seq(Row)]
  BY DEF WorkType
<1>2. ASSUME NEW g \in 0 .. Len(call.tokens) - 1 PROVE out'[g] \in Seq(Row)
  <2>1. CASE \A i \in 1 .. Len(Fed(s)) : g # call.at[s] + i - 1
    BY <1>1, <2>1
  <2>2. CASE \E i \in 1 .. Len(Fed(s)) : g = call.at[s] + i - 1
    BY <2>2
  <2> QED BY <2>1, <2>2
<1> QED BY <1>1, <1>2

(* gated_delta_rule, for an entry.                                         *)
LEMMA NativeRule ==
  ASSUME NEW k, NEW s \in Seqs,
         Underway, NEW w, Runs("gated_delta_rule", k, w), NEW b \in Entries(call.chains[k]),
         EntryOK(call.chains[k], b, s), w = b, EntryInv(k, b, s), GatedDeltaRule(k, w)
  PROVE  Only(k, b, s) /\ EntryInv(k, b, s)'
<1> DEFINE c == call.chains[k]
           e == "gated_delta_rule"
<1>h. /\ call' = call /\ said' = said /\ UNCHANGED <<call, said, acc, spec, calls>> /\ k \in ChainIds
      /\ e \in KernelsOf(c.path) /\ c.path \in {"spec", "native", "chunk"} /\ e \in Kernel
  BY AtWork
<1>0. /\ ChainOK(c) /\ FeedOK /\ WorkType /\ InCall /\ said[s] \in Seq(Int) /\ Fed(s) \in Seq(Int)
      /\ Len(Fed(s)) \in Nat \ {0} /\ SlotsOf(s)[0] \in Slots /\ c.slot[b] = SlotsOf(s)
      /\ mid[k] \in [0 .. Height(c) - 1 -> Row]
  BY <1>h, EntryBasics
<1>p. c.path = "native"
  BY <1>h DEF KernelsOf
<1>1. c.init[b] /\ Len(Fed(s)) = 1 /\ 1 \in 1 .. Len(Fed(s))
  <2>1. c.init[b] /\ Len(Fed(s)) = 1
    BY <1>p DEF EntryOK
  <2> QED BY <2>1
<1>2. /\ Did("causal_conv1d", k, b, s) = 1 .. Len(Fed(s)) /\ Did(e, k, b, s) = {} /\ Did(e, k, b, s)' = 1 .. Len(Fed(s))
      /\ Did("causal_conv1d", k, b, s)' = Did("causal_conv1d", k, b, s)
  <2>1. /\ "causal_conv1d" \in Kernel \ {e} /\ "causal_conv1d" \in KernelsOf(c.path)
        /\ Stage("causal_conv1d") < Stage(e)
    BY <1>p DEF Kernel, KernelsOf, Stage
  <2>2. e \notin PerToken
    BY DEF PerToken
  <2>3. DidStep(e, k, w, b, s)
    BY <1>h, DidRun
  <2>4. Did(e, k, b, s) = {} /\ Did(e, k, b, s)' = 1 .. Len(Fed(s))
    BY <2>2, <2>3 DEF DidStep
  <2>5. /\ \A f \in Kernel \ {e} : Did(f, k, b, s)' = Did(f, k, b, s)
        /\ \A f \in KernelsOf(c.path) : Stage(f) < Stage(e) => Did(f, k, b, s) = 1 .. Len(Fed(s))
    BY <2>3 DEF DidStep
  <2> QED BY <2>1, <2>4, <2>5
<1>3. /\ ssm[SlotsOf(s)[0]] = Taken(said[s]) /\ LineHolds(conv[SlotsOf(s)[0]], 1, said[s] \o Fed(s))
      /\ mid[k][RowAt(c, b, 1)] = RowFor(said[s], Fed(s), 1) /\ z[call.at[s] + 1 - 1] = Fed(s)[1]
  <2>1. NativeInv(View(k, b, s), said[s], Fed(s))
    BY <1>p DEF EntryInv
  <2>2. "causal_conv1d" \in Kernel /\ 0 \in 0 .. NumSpec - 1
    BY Sizes DEF Kernel
  <2>3. View(k, b, s).did["causal_conv1d"] # {} /\ View(k, b, s).did[e] = {}
    <3>1. /\ View(k, b, s).did["causal_conv1d"] = Did("causal_conv1d", k, b, s)
          /\ View(k, b, s).did[e] = Did(e, k, b, s)
      BY <2>2, Viewed DEF Kernel
    <3> QED BY <1>1, <1>2, <3>1
  <2>4. /\ View(k, b, s).line = conv[SlotsOf(s)[0]] /\ View(k, b, s).cols[0] = ssm[SlotsOf(s)[0]]
        /\ View(k, b, s).rows[1] = mid[k][RowAt(c, b, 1)] /\ View(k, b, s).zs[1] = z[call.at[s] + 1 - 1]
    BY <1>1, <2>2, Viewed
  <2> QED BY <2>1, <2>3, <2>4 DEF NativeInv
<1>4. c.start[b] \in Nat /\ c.start[b + 1] = c.start[b] + 1 /\ c.start[b + 1] - c.start[b] = 1
      /\ call.at[s] \in Nat /\ call.at[s] + 1 - 1 \in 0 .. Len(call.tokens) - 1
  <2>1. c.start[b] \in Nat /\ c.start[b + 1] = c.start[b] + Len(Fed(s)) /\ call.at[s] \in Nat
    BY <1>0, EntryFacts
  <2>2. call.at[s] + 1 - 1 \in 0 .. Len(call.tokens) - 1
    BY <1>0, <1>1, EntryFacts
  <2>3. c.start[b + 1] = c.start[b] + 1
    BY <1>1, <2>1
  <2>4. (c.start[b] + 1) - c.start[b] = 1
    BY <2>1
  <2> QED BY <2>1, <2>2, <2>3, <2>4
<1>5. /\ After(k, c.start[b], Taken(said[s]), 1) = StateAt(said[s], Fed(s), 1) /\ StateAt(said[s], Fed(s), 1) \in Seq(Row)
  <2>1. \A i \in 1 .. 1 : mid[k][c.start[b] + i - 1] = RowFor(said[s], Fed(s), i)
    BY <1>p, <1>3, <1>4 DEF RowAt
  <2>2. 1 \in 0 .. Len(Fed(s))
    BY <1>1
  <2> QED BY <1>0, <2>1, <2>2, AfterIs
<1>6. /\ ssm' = [ssm EXCEPT ![SlotsOf(s)[0]] = StateAt(said[s], Fed(s), 1)]
      /\ conv' = conv /\ tmp' = tmp /\ mid' = mid /\ z' = z
  BY <1>0, <1>1, <1>3, <1>4, <1>5 DEF GatedDeltaRule
<1>7. /\ out' = [g \in DOMAIN out |-> out'[g]] /\ DOMAIN out' = DOMAIN out
      /\ out'[call.at[s] + 1 - 1] = StateAt(said[s], Fed(s), 1)
      /\ \A g \in 0 .. Len(call.tokens) - 1 : (\A i \in 1 .. Len(Fed(s)) : g # call.at[s] + i - 1) => out'[g] = out[g]
  <2> DEFINE mine == c.start[b] .. c.start[b + 1] - 1
  <2>1. out' = [g \in DOMAIN out |->
                  IF \E t \in mine : c.indx[t] = g
                  THEN After(k, c.start[b], Taken(said[s]), (CHOOSE t \in mine : c.indx[t] = g) - c.start[b] + 1) ELSE out[g]]
    BY <1>0, <1>1, <1>3 DEF GatedDeltaRule
  <2>2. DOMAIN out = 0 .. Len(call.tokens) - 1
    BY <1>0 DEF WorkType
  <2>3. /\ \E t \in mine : c.indx[t] = call.at[s] + 1 - 1
        /\ (CHOOSE t \in mine : c.indx[t] = call.at[s] + 1 - 1) = c.start[b] + 1 - 1
        /\ \A g : (\A i \in 1 .. Len(Fed(s)) : g # call.at[s] + i - 1) => ~\E t \in mine : c.indx[t] = g
    <3>1. ChainOK(c) /\ FeedOK /\ InCall /\ b \in Entries(c) /\ EntryOK(c, b, s)
          /\ mine = c.start[b] .. c.start[b + 1] - 1
      BY <1>0
    <3> HIDE DEF c, mine
    <3>2. /\ \A i \in 1 .. Len(Fed(s)) :
              /\ c.start[b] + i - 1 \in mine
              /\ \A t \in mine : c.indx[t] = call.at[s] + i - 1 <=> t = c.start[b] + i - 1
          /\ \A t \in mine : \E i \in 1 .. Len(Fed(s)) : c.indx[t] = call.at[s] + i - 1
      <4>1. /\ \A i \in 1 .. Len(Fed(s)) :
              /\ c.start[b] + i - 1 \in c.start[b] .. c.start[b + 1] - 1
              /\ \A t \in c.start[b] .. c.start[b + 1] - 1 :
                    c.indx[t] = call.at[s] + i - 1 <=> t = c.start[b] + i - 1
            /\ \A t \in c.start[b] .. c.start[b + 1] - 1 :
              \E i \in 1 .. Len(Fed(s)) : c.indx[t] = call.at[s] + i - 1
        BY <3>1, TokenOf
      <4> QED BY <3>1, <4>1
    <3>3. /\ c.start[b] + 1 - 1 \in mine
          /\ \A t \in mine : c.indx[t] = call.at[s] + 1 - 1 <=> t = c.start[b] + 1 - 1
      BY <1>1, <3>2
    <3>4. (CHOOSE t \in mine : c.indx[t] = call.at[s] + 1 - 1) = c.start[b] + 1 - 1
      <4> DEFINE u == CHOOSE t \in mine : c.indx[t] = call.at[s] + 1 - 1
      <4>1. \E t \in mine : c.indx[t] = call.at[s] + 1 - 1
        BY <3>3
      <4>2. u \in mine /\ c.indx[u] = call.at[s] + 1 - 1
        BY <4>1
      <4> HIDE DEF u
      <4>3. u = c.start[b] + 1 - 1
        BY <3>3, <4>2
      <4> QED BY <4>3 DEF u
    <3> QED BY <3>2, <3>3, <3>4
  <2>4. (c.start[b] + 1 - 1) - c.start[b] + 1 = 1
    BY <1>4
  <2> QED BY <1>4, <1>5, <2>1, <2>2, <2>3, <2>4
<1>8. GdnType'
  <2>1. out' \in [0 .. Len(call.tokens) - 1 -> Seq(Row)]
    <3> DEFINE new == [i \in 1 .. Len(Fed(s)) |-> StateAt(said[s], Fed(s), 1)]
    <3>1. \A i \in 1 .. Len(Fed(s)) : new[i] \in Seq(Row)
      BY <1>5
    <3>2. \A i \in 1 .. Len(Fed(s)) : i = 1 /\ out'[call.at[s] + i - 1] = new[i]
      BY <1>1, <1>7
    <3> HIDE DEF new
    <3> QED BY <1>0, <1>7, <3>1, <3>2, OutWrite
  <2>2. ssm' \in [Slots \cup {Pad} -> Seq(Row)]
    BY <1>0, <1>5, <1>6 DEF Underway, GdnType
  <2>3. /\ conv' \in [Slots -> [0 .. StateLen - 1 -> Int]]
        /\ mid' = [l \in ChainIds |-> mid'[l]] /\ tmp' = [l \in ChainIds |-> tmp'[l]]
        /\ \A l \in ChainIds : mid'[l] \in [0 .. Height(call.chains[l]) - 1 -> Row]
        /\ \A l \in ChainIds : tmp'[l] \in [Entries(call.chains[l]) -> [0 .. Width - 2 -> Int]]
        /\ z' \in [0 .. Len(call.tokens) - 1 -> Int]
    BY <1>0, <1>6 DEF Underway, GdnType, WorkType
  <2> QED BY <1>h, <2>1, <2>2, <2>3, TypeNext
<1>9. ssm'[SlotsOf(s)[0]] = StateAt(said[s], Fed(s), 1) /\ \A x \in Slots : x # SlotsOf(s)[0] => ssm'[x] = ssm[x]
  BY <1>0, <1>6 DEF Underway, GdnType
<1>10. Only(k, b, s)
  <2>1. \A x \in Slots : (\A j \in 0 .. NumSpec - 1 : x # SlotsOf(s)[j]) => ssm'[x] = ssm[x]
    <3>1. 0 \in 0 .. NumSpec - 1
      BY Sizes
    <3> QED BY <1>9, <3>1
  <2> QED BY <1>6, <1>7, <1>8, <2>1 DEF Only
<1>11. EntryInv(k, b, s)'
  <2>1. NativeInv(View(k, b, s)', said[s], Fed(s))
    <3>1. "causal_conv1d" \in Kernel /\ 0 \in 0 .. NumSpec - 1
      BY Sizes DEF Kernel
    <3>2. View(k, b, s)'.did[e] # {} /\ View(k, b, s)'.did["causal_conv1d"] # {}
      <4>1. /\ View(k, b, s)'.did[e] = Did(e, k, b, s)'
            /\ View(k, b, s)'.did["causal_conv1d"] = Did("causal_conv1d", k, b, s)'
        BY <1>h, <3>1, ViewedNext
      <4> QED BY <1>1, <1>2, <4>1
    <3>3. /\ View(k, b, s)'.line = conv'[SlotsOf(s)[0]] /\ View(k, b, s)'.cols[0] = ssm'[SlotsOf(s)[0]]
          /\ View(k, b, s)'.rows[1] = mid'[k][RowAt(c, b, 1)] /\ View(k, b, s)'.zs[1] = z'[call.at[s] + 1 - 1]
          /\ View(k, b, s)'.outs[1] = out'[call.at[s] + 1 - 1]
      <4>1. /\ View(k, b, s)'.line = conv'[SlotsOf(s)[0]] /\ View(k, b, s)'.cols[0] = ssm'[SlotsOf(s)[0]]
        BY <1>h, <3>1, ViewedNext
      <4>2. \A i \in 1 .. Len(Fed(s)) : /\ View(k, b, s)'.rows[i] = mid'[k][RowAt(call.chains[k], b, i)]
                                        /\ View(k, b, s)'.outs[i] = out'[call.at[s] + i - 1]
                                        /\ View(k, b, s)'.zs[i] = z'[call.at[s] + i - 1]
        BY <1>h, ViewedNext
      <4> QED BY <1>1, <4>1, <4>2
    <3> QED BY <1>3, <1>6, <1>7, <1>9, <3>2, <3>3 DEF NativeInv
  <2> QED BY <1>h, <1>p, <2>1 DEF EntryInv, Fed
<1> QED BY <1>10, <1>11

LEMMA ChunkBegin ==
  ASSUME Underway, NEW e, NEW k, NEW w, Runs(e, k, w), NEW b \in Entries(call.chains[k]), NEW s \in Seqs,
         EntryOK(call.chains[k], b, s), e \in KernelsOf("chunk"), EntryInv(k, b, s)
  PROVE  /\ call.chains[k].path = "chunk" /\ (call.chains[k].init[b] <=> said[s] # <<>>)
         /\ ChunkInv(View(k, b, s), said[s], Fed(s))
         /\ \A f \in KernelsOf("chunk") : f \in Kernel
<1>1. e \in KernelsOf(call.chains[k].path) /\ call.chains[k].path \in {"spec", "native", "chunk"}
  BY AtWork
<1>2. call.chains[k].path = "chunk"
  BY <1>1 DEF KernelsOf
<1>3. call.chains[k].init[b] <=> said[s] # <<>>
  BY <1>2 DEF EntryOK
<1>4. ChunkInv(View(k, b, s), said[s], Fed(s))
  BY <1>2 DEF EntryInv
<1> QED BY <1>2, <1>3, <1>4 DEF KernelsOf, Kernel

(* chunk_causal_conv1d, for a token of an entry.                           *)
LEMMA ChunkConv ==
  ASSUME Underway, NEW k, NEW w, Runs("chunk_causal_conv1d", k, w), NEW b \in Entries(call.chains[k]), NEW s \in Seqs,
         EntryOK(call.chains[k], b, s), NEW i \in 1 .. Len(Fed(s)), w = call.chains[k].start[b] + i - 1,
         EntryInv(k, b, s), ChunkCausalConv1d(k, w)
  PROVE  Only(k, b, s) /\ EntryInv(k, b, s)'
<1> DEFINE c == call.chains[k]
           e == "chunk_causal_conv1d"
           y == RowAt(c, b, i)
<1>h. /\ call' = call /\ said' = said /\ UNCHANGED <<call, said, acc, spec, calls>> /\ k \in ChainIds
      /\ e \in Kernel
  BY AtWork
<1>0. /\ ChainOK(c) /\ FeedOK /\ WorkType /\ InCall /\ said[s] \in Seq(Int) /\ Fed(s) \in Seq(Int)
      /\ Len(Fed(s)) \in Nat \ {0} /\ SlotsOf(s)[0] \in Slots /\ c.slot[b] = SlotsOf(s)
      /\ mid[k] \in [0 .. Height(c) - 1 -> Row]
  BY <1>h, EntryBasics
<1>p. /\ c.path = "chunk" /\ (c.init[b] <=> said[s] # <<>>) /\ ChunkInv(View(k, b, s), said[s], Fed(s))
      /\ \A f \in KernelsOf("chunk") : f \in Kernel
  <2>1. e \in KernelsOf("chunk")
    BY DEF KernelsOf
  <2> QED BY <2>1, ChunkBegin
<1>s. DidStep(e, k, w, b, s)
  BY <1>h, DidRun
<1>2. /\ i \notin Did(e, k, b, s) /\ Did(e, k, b, s)' = Did(e, k, b, s) \cup {i} /\ Did(e, k, b, s) \subseteq 1 .. Len(Fed(s))
      /\ \A f \in KernelsOf("chunk") \ {e} : Did(f, k, b, s) = {} /\ Did(f, k, b, s)' = {}
  <2>1. e \in PerToken =>
              \A j \in 1 .. Len(Fed(s)) : w = call.chains[k].start[b] + j - 1 =>
                j \notin Did(e, k, b, s) /\ Did(e, k, b, s)' = Did(e, k, b, s) \cup {j}
    BY <1>s DEF DidStep
  <2>2. /\ \A f \in Kernel : Did(f, k, b, s) \subseteq 1 .. Len(Fed(s))
        /\ \A f \in Kernel \ {e} : Did(f, k, b, s)' = Did(f, k, b, s)
        /\ \A f \in KernelsOf(c.path) : Stage(e) < Stage(f) => Did(f, k, b, s) = {}
    BY <1>s DEF DidStep
  <2>3. e \in PerToken /\ \A f \in KernelsOf("chunk") \ {e} : f \in Kernel \ {e} /\ Stage(e) < Stage(f)
    BY DEF PerToken, KernelsOf, Kernel, Stage
  <2> QED BY <1>h, <1>p, <2>1, <2>2, <2>3
<1>d. \A f \in KernelsOf("chunk") : View(k, b, s).did[f] = Did(f, k, b, s) /\ View(k, b, s)'.did[f] = Did(f, k, b, s)'
  <2>1. \A f \in Kernel : View(k, b, s).did[f] = Did(f, k, b, s)
    BY Viewed
  <2>2. \A f \in Kernel : View(k, b, s)'.did[f] = Did(f, k, b, s)'
    BY <1>h, ViewedNext
  <2> QED BY <1>p, <2>1, <2>2
<1>k. e \in KernelsOf("chunk") /\ "chunk_reorder_zba" \in KernelsOf("chunk") \ {e}
      /\ "update_states" \in KernelsOf("chunk") \ {e} /\ "chunk_gated_delta_rule" \in KernelsOf("chunk") \ {e}
  BY DEF KernelsOf
<1>3. /\ \A j \in Did(e, k, b, s) : View(k, b, s).rows[j].win = Win(said[s] \o Fed(s), Len(said[s]) + j)
      /\ Len(Fed(s)) > 1 /\ Len(Fed(s)) \in Did(e, k, b, s) => LineHolds(View(k, b, s).saved, 1, said[s] \o Fed(s))
      /\ said[s] # <<>> => LineHolds(View(k, b, s).line, 1, said[s]) /\ View(k, b, s).cols[0] = Taken(said[s])
  <2>1. View(k, b, s).did[e] = Did(e, k, b, s) /\ View(k, b, s).did["update_states"] = {}
        /\ View(k, b, s).did["chunk_gated_delta_rule"] = {}
    BY <1>2, <1>d, <1>k
  <2>2. ~(Len(Fed(s)) = 1 /\ Did(e, k, b, s) # {})
    <3> SUFFICES ASSUME Len(Fed(s)) = 1, NEW j \in Did(e, k, b, s) PROVE FALSE
      OBVIOUS
    <3>1. j = 1 /\ i = 1
      BY <1>2
    <3> QED BY <1>2, <3>1
  <2> QED BY <1>p, <2>1, <2>2 DEF ChunkInv
<1>4. /\ View(k, b, s).line = conv[SlotsOf(s)[0]] /\ View(k, b, s).saved = tmp[k][b]
      /\ View(k, b, s).cols[0] = ssm[SlotsOf(s)[0]]
      /\ \A j \in 1 .. Len(Fed(s)) : View(k, b, s).rows[j] = mid[k][RowAt(c, b, j)]
  <2>1. 0 \in 0 .. NumSpec - 1
    BY Sizes
  <2> QED BY <2>1, Viewed
<1>5. /\ View(k, b, s)'.line = conv'[SlotsOf(s)[0]] /\ View(k, b, s)'.saved = tmp'[k][b]
      /\ View(k, b, s)'.cols[0] = ssm'[SlotsOf(s)[0]]
      /\ \A j \in 1 .. Len(Fed(s)) : View(k, b, s)'.rows[j] = mid'[k][RowAt(c, b, j)]
  <2>1. 0 \in 0 .. NumSpec - 1
    BY Sizes
  <2> QED BY <1>h, <2>1, ViewedNext
<1>6. IF c.init[b] THEN LineHolds(conv[SlotsOf(s)[0]], 1, said[s]) ELSE said[s] = <<>>
  BY <1>p, <1>3, <1>4
<1>7. /\ Window(c, c.start[b] + i - 1) = Win(Whole(s), Len(said[s]) + i)
      /\ BatchOf(c, c.start[b] + i - 1) = b
  BY <1>h, <1>6, WindowIs
<1>8. ~Padded(c, w)
  BY <1>0, <1>7, SlotFacts DEF Padded
<1>9. /\ mid' = [mid EXCEPT ![k][OutToken(c, w)].win = Window(c, w)] /\ SaveStates(k, w)
      /\ ssm' = ssm /\ out' = out /\ z' = z
  BY <1>8 DEF ChunkCausalConv1d
<1>10. OutToken(c, w) = y /\ y \in 0 .. Height(c) - 1
  <2>1. ChainOK(c) /\ FeedOK /\ InCall /\ b \in Entries(c) /\ EntryOK(c, b, s) /\ c.path = "chunk"
    BY <1>0, <1>p
  <2>2. w = c.start[b] + i - 1
    OBVIOUS
  <2> HIDE DEF c
  <2> QED BY <2>1, <2>2, OutTokens, RowFacts
<1>11. Window(c, w) \in [1 .. Width -> Int] /\ Window(c, w) = Win(said[s] \o Fed(s), Len(said[s]) + i)
  BY <1>0, <1>7, RowForFacts DEF Whole, Fed
<1> DEFINE row == [win |-> Window(c, w), ba |-> mid[k][y].ba]
<1>12. mid' = [mid EXCEPT ![k][y] = row] /\ row \in Row
  <2>1. mid[k][y] \in Row
    BY <1>0, <1>10
  <2>2. row \in Row
    BY <1>11, <2>1 DEF Row
  <2>3. [mid[k][y] EXCEPT !.win = Window(c, w)] = row
    BY <2>1 DEF Row
  <2>4. mid' = [mid EXCEPT ![k] = [mid[k] EXCEPT ![y] = [mid[k][y] EXCEPT !.win = Window(c, w)]]]
    BY <1>h, <1>0, <1>9, <1>10 DEF WorkType
  <2> QED BY <1>h, <1>0, <2>2, <2>3, <2>4
<1>13. /\ mid' = [l \in ChainIds |-> mid'[l]]
       /\ \A l \in ChainIds : mid'[l] \in [0 .. Height(call.chains[l]) - 1 -> Row]
       /\ \A l \in ChainIds : \A x \in 0 .. Height(call.chains[l]) - 1 : (l = k => x # y) => mid'[l][x] = mid[l][x]
       /\ mid'[k][y] = row
  <2> HIDE DEF row, y
  <2>1. WorkType /\ k \in ChainIds /\ y \in 0 .. Height(call.chains[k]) - 1 /\ row \in Row
        /\ mid' = [mid EXCEPT ![k][y] = row]
    BY <1>h, <1>0, <1>10, <1>12
  <2>2. MidWritten(k, y, row)
    BY <2>1, MidWrite
  <2> QED BY <2>2 DEF MidWritten
<1>14. /\ conv' \in [Slots -> [0 .. StateLen - 1 -> Int]]
       /\ \A x \in Slots : x # SlotsOf(s)[0] => conv'[x] = conv[x]
       /\ tmp' = [l \in ChainIds |-> tmp'[l]]
       /\ \A l \in ChainIds : tmp'[l] \in [Entries(call.chains[l]) -> [0 .. Width - 2 -> Int]]
       /\ \A l \in ChainIds : \A d \in Entries(call.chains[l]) : (l = k => d # b) => tmp'[l][d] = tmp[l][d]
       /\ IF Len(Fed(s)) = 1 THEN LineHolds(conv'[SlotsOf(s)[0]], 1, Whole(s))
          ELSE conv'[SlotsOf(s)[0]] = conv[SlotsOf(s)[0]]
       /\ IF Len(Fed(s)) > 1 /\ i = Len(Fed(s)) THEN LineHolds(tmp'[k][b], 1, Whole(s))
          ELSE tmp'[k][b] = tmp[k][b]
  BY <1>h, <1>6, <1>9, SaveEffect
<1>15. Only(k, b, s)
  <2>1. \A l \in ChainIds : \A x \in 0 .. Height(call.chains[l]) - 1 :
       (l = k => \A j \in 1 .. Len(Fed(s)) : x # RowAt(call.chains[k], b, j)) => mid'[l][x] = mid[l][x]
    BY <1>13
  <2>2. ssm' \in [Slots \cup {Pad} -> Seq(Row)] /\ out' \in [0 .. Len(call.tokens) - 1 -> Seq(Row)]
        /\ z' \in [0 .. Len(call.tokens) - 1 -> Int]
    BY <1>0, <1>9 DEF WorkType, Underway, GdnType
  <2>3. GdnType'
    BY <1>h, <1>13, <1>14, <2>2, TypeNext
  <2> QED BY <1>9, <1>14, <2>1, <2>3 DEF Only
<1>16. \A j \in 1 .. Len(Fed(s)) : j # i => mid'[k][RowAt(c, b, j)] = mid[k][RowAt(c, b, j)]
  <2> SUFFICES ASSUME NEW j \in 1 .. Len(Fed(s)), j # i PROVE mid'[k][RowAt(c, b, j)] = mid[k][RowAt(c, b, j)]
    OBVIOUS
  <2>1. ChainOK(c) /\ FeedOK /\ InCall /\ b \in Entries(c) /\ EntryOK(c, b, s)
    BY <1>0
  <2>2. RowAt(c, b, j) \in 0 .. Height(c) - 1 /\ RowAt(c, b, j) # RowAt(c, b, i)
    <3> HIDE DEF c
    <3>1. RowAt(c, b, j) \in 0 .. Height(c) - 1
      BY <2>1, RowFacts
    <3>2. RowAt(c, b, j) = RowAt(c, b, i) => j = i
      BY <2>1, RowsApart
    <3> QED BY <3>1, <3>2
  <2> QED BY <1>h, <1>13, <2>2
<1>17. ChunkInv(View(k, b, s)', said[s], Fed(s))
  <2> DEFINE v == View(k, b, s)'
  <2>1. /\ v.did[e] = Did(e, k, b, s) \cup {i} /\ v.did["chunk_reorder_zba"] = {} /\ v.did["update_states"] = {}
        /\ v.did["chunk_gated_delta_rule"] = {}
    BY <1>2, <1>d, <1>k
  <2>2. \A j \in v.did[e] : v.rows[j].win = Win(said[s] \o Fed(s), Len(said[s]) + j)
    <3> SUFFICES ASSUME NEW j \in v.did[e] PROVE v.rows[j].win = Win(said[s] \o Fed(s), Len(said[s]) + j)
      OBVIOUS
    <3>1. CASE j = i
      BY <1>5, <1>11, <1>13, <3>1
    <3>2. CASE j # i
      <4>1. j \in Did(e, k, b, s) /\ j \in 1 .. Len(Fed(s))
        BY <1>2, <2>1, <3>2
      <4>2. v.rows[j] = mid'[k][RowAt(c, b, j)] /\ View(k, b, s).rows[j] = mid[k][RowAt(c, b, j)]
        BY <1>4, <1>5, <4>1
      <4> QED BY <1>3, <1>16, <3>2, <4>1, <4>2
    <3> QED BY <3>1, <3>2
  <2>3. Len(Fed(s)) > 1 /\ Len(Fed(s)) \in v.did[e] => LineHolds(v.saved, 1, said[s] \o Fed(s))
    BY <1>3, <1>4, <1>5, <1>14, <2>1 DEF Whole, Fed
  <2>4. IF Len(Fed(s)) = 1 THEN LineHolds(v.line, 1, said[s] \o Fed(s))
        ELSE said[s] # <<>> => LineHolds(v.line, 1, said[s])
    BY <1>3, <1>4, <1>5, <1>14 DEF Whole, Fed
  <2>5. said[s] # <<>> => v.cols[0] = Taken(said[s])
    BY <1>3, <1>4, <1>5, <1>9
  <2>6. v.did[e] # {}
    BY <2>1
  <2> HIDE DEF v
  <2>7. ChunkInv(v, said[s], Fed(s))
    <3>1. \A j \in v.did["chunk_reorder_zba"] : v.rows[j].ba = Fed(s)[j] /\ v.zs[j] = Fed(s)[j]
      BY <2>1
    <3>2. IF v.did["update_states"] # {} \/ (Len(Fed(s)) = 1 /\ v.did[e] # {})
          THEN LineHolds(v.line, 1, said[s] \o Fed(s))
          ELSE said[s] # <<>> => LineHolds(v.line, 1, said[s])
      BY <2>1, <2>4, <2>6
    <3>3. IF v.did["chunk_gated_delta_rule"] = {} THEN said[s] # <<>> => v.cols[0] = Taken(said[s])
          ELSE /\ v.cols[0] = Taken(said[s] \o Fed(s))
               /\ \A j \in 1 .. Len(Fed(s)) : v.outs[j] = StateAt(said[s], Fed(s), j)
      BY <2>1, <2>5
    <3> QED BY <2>2, <2>3, <3>1, <3>2, <3>3, Zenon DEF ChunkInv
  <2> QED BY <2>7 DEF v
<1>18. EntryInv(k, b, s)'
  BY <1>h, <1>p, <1>17 DEF EntryInv, Fed
<1> QED BY <1>15, <1>18

(* What a kernel of the chunked chain finds of an entry, and leaves.       *)
LEMMA ChunkViews ==
  ASSUME Underway, NEW e, NEW k, NEW w, Runs(e, k, w), NEW b \in Entries(call.chains[k]), NEW s \in Seqs,
         EntryOK(call.chains[k], b, s), e \in KernelsOf("chunk"), EntryInv(k, b, s)
  PROVE  /\ ChunkInv(View(k, b, s), said[s], Fed(s))
         /\ ChunkInv(View(k, b, s)', said[s], Fed(s)) => EntryInv(k, b, s)'
         /\ \A f \in KernelsOf("chunk") :
              /\ f # e => View(k, b, s)'.did[f] = View(k, b, s).did[f]
              /\ Stage(f) < Stage(e) => View(k, b, s).did[f] = 1 .. Len(Fed(s))
              /\ Stage(e) < Stage(f) => View(k, b, s).did[f] = {}
         /\ e \notin PerToken /\ w = b => View(k, b, s).did[e] = {} /\ View(k, b, s)'.did[e] = 1 .. Len(Fed(s))
         /\ e \in PerToken =>
              \A i \in 1 .. Len(Fed(s)) : w = call.chains[k].start[b] + i - 1 =>
                View(k, b, s)'.did[e] = View(k, b, s).did[e] \cup {i}
         /\ View(k, b, s).did[e] \subseteq 1 .. Len(Fed(s))
<1>h. /\ call' = call /\ said' = said /\ k \in ChainIds /\ e \in Kernel
  BY AtWork
<1>p. /\ call.chains[k].path = "chunk" /\ ChunkInv(View(k, b, s), said[s], Fed(s))
      /\ \A f \in KernelsOf("chunk") : f \in Kernel
  BY ChunkBegin
<1>d. \A f \in KernelsOf("chunk") : View(k, b, s).did[f] = Did(f, k, b, s) /\ View(k, b, s)'.did[f] = Did(f, k, b, s)'
  <2>1. \A f \in Kernel : View(k, b, s).did[f] = Did(f, k, b, s)
    BY Viewed
  <2>2. \A f \in Kernel : View(k, b, s)'.did[f] = Did(f, k, b, s)'
    BY <1>h, ViewedNext
  <2> QED BY <1>p, <2>1, <2>2
<1>s. DidStep(e, k, w, b, s)
  BY <1>h, DidRun
<1>1. /\ \A f \in Kernel : Did(f, k, b, s) \subseteq 1 .. Len(Fed(s))
      /\ \A f \in Kernel \ {e} : Did(f, k, b, s)' = Did(f, k, b, s)
  <2>1. \A f \in Kernel : Did(f, k, b, s) \subseteq 1 .. Len(Fed(s))
    BY <1>s DEF DidStep
  <2>2. \A f \in Kernel \ {e} : Did(f, k, b, s)' = Did(f, k, b, s)
    BY <1>s DEF DidStep
  <2> QED BY <2>1, <2>2
<1>2. e \notin PerToken /\ w = b => Did(e, k, b, s) = {} /\ Did(e, k, b, s)' = 1 .. Len(Fed(s))
  BY <1>s DEF DidStep
<1>3. e \in PerToken =>
        \A i \in 1 .. Len(Fed(s)) : w = call.chains[k].start[b] + i - 1 =>
          i \notin Did(e, k, b, s) /\ Did(e, k, b, s)' = Did(e, k, b, s) \cup {i}
  BY <1>s DEF DidStep
<1>4. /\ \A f \in KernelsOf(call.chains[k].path) : Stage(f) < Stage(e) => Did(f, k, b, s) = 1 .. Len(Fed(s))
      /\ \A f \in KernelsOf(call.chains[k].path) : Stage(e) < Stage(f) => Did(f, k, b, s) = {}
  BY <1>s DEF DidStep
<1>5. \A f \in KernelsOf("chunk") :
        /\ Stage(f) < Stage(e) => Did(f, k, b, s) = 1 .. Len(Fed(s))
        /\ Stage(e) < Stage(f) => Did(f, k, b, s) = {}
  BY <1>4, <1>p
<1>6. ChunkInv(View(k, b, s)', said[s], Fed(s)) => EntryInv(k, b, s)'
  BY <1>h, <1>p DEF EntryInv, Fed
<1>7. \A f \in KernelsOf("chunk") : f # e => Did(f, k, b, s)' = Did(f, k, b, s)
  BY <1>p, <1>1
<1> HIDE DEF View, Did
<1>8. \A f \in KernelsOf("chunk") :
        /\ f # e => View(k, b, s)'.did[f] = View(k, b, s).did[f]
        /\ Stage(f) < Stage(e) => View(k, b, s).did[f] = 1 .. Len(Fed(s))
        /\ Stage(e) < Stage(f) => View(k, b, s).did[f] = {}
  BY <1>d, <1>5, <1>7
<1>9. View(k, b, s).did[e] = Did(e, k, b, s) /\ View(k, b, s)'.did[e] = Did(e, k, b, s)'
  BY <1>d
<1> QED BY <1>h, <1>p, <1>1, <1>2, <1>3, <1>6, <1>8, <1>9

(* What each kernel does to the view of an entry.                          *)
LEMMA Reordered ==
  ASSUME NEW v, NEW u, NEW h, NEW f, NEW i, ChunkInv(v, h, f),
         u.did["chunk_causal_conv1d"] = v.did["chunk_causal_conv1d"],
         u.did["chunk_reorder_zba"] = v.did["chunk_reorder_zba"] \cup {i},
         u.did["update_states"] = {}, v.did["update_states"] = {},
         u.did["chunk_gated_delta_rule"] = {}, v.did["chunk_gated_delta_rule"] = {},
         u.line = v.line, u.saved = v.saved, u.cols[0] = v.cols[0],
         \A j \in v.did["chunk_causal_conv1d"] : u.rows[j].win = v.rows[j].win,
         \A j \in v.did["chunk_reorder_zba"] \ {i} : u.rows[j].ba = v.rows[j].ba /\ u.zs[j] = v.zs[j],
         u.rows[i].ba = f[i] /\ u.zs[i] = f[i]
  PROVE  ChunkInv(u, h, f)
<1>1. \A j \in u.did["chunk_causal_conv1d"] : u.rows[j].win = Win(h \o f, Len(h) + j)
  BY DEF ChunkInv
<1>2. \A j \in u.did["chunk_reorder_zba"] : u.rows[j].ba = f[j] /\ u.zs[j] = f[j]
  BY DEF ChunkInv
<1>3. Len(f) > 1 /\ Len(f) \in u.did["chunk_causal_conv1d"] => LineHolds(u.saved, 1, h \o f)
  BY DEF ChunkInv
<1>4. IF u.did["update_states"] # {} \/ (Len(f) = 1 /\ u.did["chunk_causal_conv1d"] # {})
      THEN LineHolds(u.line, 1, h \o f)
      ELSE h # <<>> => LineHolds(u.line, 1, h)
  BY DEF ChunkInv
<1>5. IF u.did["chunk_gated_delta_rule"] = {} THEN h # <<>> => u.cols[0] = Taken(h)
      ELSE /\ u.cols[0] = Taken(h \o f)
           /\ \A j \in 1 .. Len(f) : u.outs[j] = StateAt(h, f, j)
  BY DEF ChunkInv
<1> QED BY <1>1, <1>2, <1>3, <1>4, <1>5, Zenon DEF ChunkInv

LEMMA Updated ==
  ASSUME NEW v, NEW u, NEW h, NEW f, ChunkInv(v, h, f),
         u.did["chunk_causal_conv1d"] = v.did["chunk_causal_conv1d"],
         u.did["chunk_reorder_zba"] = v.did["chunk_reorder_zba"],
         u.did["update_states"] # {},
         u.did["chunk_gated_delta_rule"] = {}, v.did["chunk_gated_delta_rule"] = {},
         LineHolds(u.line, 1, h \o f), u.saved = v.saved, u.cols[0] = v.cols[0],
         \A j \in v.did["chunk_causal_conv1d"] : u.rows[j] = v.rows[j],
         \A j \in v.did["chunk_reorder_zba"] : u.rows[j] = v.rows[j] /\ u.zs[j] = v.zs[j]
  PROVE  ChunkInv(u, h, f)
<1>1. \A j \in u.did["chunk_causal_conv1d"] : u.rows[j].win = Win(h \o f, Len(h) + j)
  BY DEF ChunkInv
<1>2. \A j \in u.did["chunk_reorder_zba"] : u.rows[j].ba = f[j] /\ u.zs[j] = f[j]
  BY DEF ChunkInv
<1>3. Len(f) > 1 /\ Len(f) \in u.did["chunk_causal_conv1d"] => LineHolds(u.saved, 1, h \o f)
  BY DEF ChunkInv
<1>4. IF u.did["update_states"] # {} \/ (Len(f) = 1 /\ u.did["chunk_causal_conv1d"] # {})
      THEN LineHolds(u.line, 1, h \o f)
      ELSE h # <<>> => LineHolds(u.line, 1, h)
  OBVIOUS
<1>5. IF u.did["chunk_gated_delta_rule"] = {} THEN h # <<>> => u.cols[0] = Taken(h)
      ELSE /\ u.cols[0] = Taken(h \o f)
           /\ \A j \in 1 .. Len(f) : u.outs[j] = StateAt(h, f, j)
  BY DEF ChunkInv
<1> QED BY <1>1, <1>2, <1>3, <1>4, <1>5, Zenon DEF ChunkInv

LEMMA Answered ==
  ASSUME NEW v, NEW u, NEW h, NEW f, ChunkInv(v, h, f),
         u.did["chunk_causal_conv1d"] = v.did["chunk_causal_conv1d"],
         u.did["chunk_reorder_zba"] = v.did["chunk_reorder_zba"],
         u.did["update_states"] = v.did["update_states"],
         u.did["chunk_gated_delta_rule"] # {},
         u.line = v.line, u.saved = v.saved, u.cols[0] = Taken(h \o f),
         \A j \in v.did["chunk_causal_conv1d"] : u.rows[j] = v.rows[j],
         \A j \in v.did["chunk_reorder_zba"] : u.rows[j] = v.rows[j] /\ u.zs[j] = v.zs[j],
         \A j \in 1 .. Len(f) : u.outs[j] = StateAt(h, f, j)
  PROVE  ChunkInv(u, h, f)
<1>1. \A j \in u.did["chunk_causal_conv1d"] : u.rows[j].win = Win(h \o f, Len(h) + j)
  BY DEF ChunkInv
<1>2. \A j \in u.did["chunk_reorder_zba"] : u.rows[j].ba = f[j] /\ u.zs[j] = f[j]
  BY DEF ChunkInv
<1>3. Len(f) > 1 /\ Len(f) \in u.did["chunk_causal_conv1d"] => LineHolds(u.saved, 1, h \o f)
  BY DEF ChunkInv
<1>4. IF u.did["update_states"] # {} \/ (Len(f) = 1 /\ u.did["chunk_causal_conv1d"] # {})
      THEN LineHolds(u.line, 1, h \o f)
      ELSE h # <<>> => LineHolds(u.line, 1, h)
  BY DEF ChunkInv
<1>5. IF u.did["chunk_gated_delta_rule"] = {} THEN h # <<>> => u.cols[0] = Taken(h)
      ELSE /\ u.cols[0] = Taken(h \o f)
           /\ \A j \in 1 .. Len(f) : u.outs[j] = StateAt(h, f, j)
  OBVIOUS
<1> QED BY <1>1, <1>2, <1>3, <1>4, <1>5, Zenon DEF ChunkInv

LEMMA InputIs ==
  ASSUME NEW c, ChainOK(c), InCall, FeedOK, NEW b \in Entries(c), NEW s \in Seqs, EntryOK(c, b, s),
         NEW i \in 1 .. Len(Fed(s))
  PROVE  /\ Input(c, c.start[b] + i - 1) = Fed(s)[i] /\ Fed(s)[i] \in Int
         /\ c.indx[c.start[b] + i - 1] = call.at[s] + i - 1
         /\ call.at[s] + i - 1 \in 0 .. Len(call.tokens) - 1
<1>1. /\ c.indx[c.start[b] + i - 1] = call.at[s] + i - 1 /\ call.at[s] \in Nat
      /\ call.at[s] + i - 1 \in 0 .. Len(call.tokens) - 1
      /\ call.tokens[call.at[s] + i] = Fed(s)[i] /\ Len(Fed(s)) \in Nat \ {0}
  BY EntryFacts
<1>2. (call.at[s] + i - 1) + 1 = call.at[s] + i
  <2>1. PICK x \in Nat : x = call.at[s]
    BY <1>1
  <2>2. i \in Nat /\ (x + i - 1) + 1 = x + i
    BY <1>1
  <2> QED BY <2>1, <2>2
<1>3. Fed(s)[i] \in Int
  <2>1. Fed(s) \in Seq(Int)
    BY FeedLengths
  <2> QED BY <2>1
<1> QED BY <1>1, <1>2, <1>3 DEF Input

LEMMA RowKept ==
  ASSUME NEW c, ChainOK(c), InCall, FeedOK, NEW b \in Entries(c), NEW s \in Seqs, EntryOK(c, b, s),
         NEW i \in 1 .. Len(Fed(s)), NEW m, NEW n,
         \A x \in 0 .. Height(c) - 1 : x # RowAt(c, b, i) => m[x] = n[x]
  PROVE  \A j \in 1 .. Len(Fed(s)) : j # i => m[RowAt(c, b, j)] = n[RowAt(c, b, j)]
<1> SUFFICES ASSUME NEW j \in 1 .. Len(Fed(s)), j # i PROVE m[RowAt(c, b, j)] = n[RowAt(c, b, j)]
  OBVIOUS
<1>1. RowAt(c, b, j) \in 0 .. Height(c) - 1
  BY RowFacts
<1>2. RowAt(c, b, j) = RowAt(c, b, i) => j = i
  BY RowsApart
<1> QED BY <1>1, <1>2

LEMMA ZWrite ==
  ASSUME WorkType, FeedOK, NEW s \in Seqs, NEW i \in 1 .. Len(Fed(s)), call.at[s] \in Nat, Len(Fed(s)) \in Nat,
         call.at[s] + i - 1 \in 0 .. Len(call.tokens) - 1,
         NEW x \in Int, z' = [z EXCEPT ![call.at[s] + i - 1] = x]
  PROVE  /\ z' \in [0 .. Len(call.tokens) - 1 -> Int] /\ z'[call.at[s] + i - 1] = x
         /\ \A g \in 0 .. Len(call.tokens) - 1 : (\A j \in 1 .. Len(Fed(s)) : g # call.at[s] + j - 1) => z'[g] = z[g]
         /\ \A j \in 1 .. Len(Fed(s)) : j # i => z'[call.at[s] + j - 1] = z[call.at[s] + j - 1]
<1>1. z \in [0 .. Len(call.tokens) - 1 -> Int]
  BY DEF WorkType
<1>2. z' \in [0 .. Len(call.tokens) - 1 -> Int] /\ z'[call.at[s] + i - 1] = x
      /\ \A g \in 0 .. Len(call.tokens) - 1 : g # call.at[s] + i - 1 => z'[g] = z[g]
  BY <1>1
<1>3. \A j \in 1 .. Len(Fed(s)) : j # i => z'[call.at[s] + j - 1] = z[call.at[s] + j - 1]
  <2> SUFFICES ASSUME NEW j \in 1 .. Len(Fed(s)), j # i PROVE z'[call.at[s] + j - 1] = z[call.at[s] + j - 1]
    OBVIOUS
  <2>1. call.at[s] + j - 1 # call.at[s] + i - 1
    OBVIOUS
  <2>2. call.at[s] + j <= Len(call.tokens)
    BY DEF FeedOK
  <2>3. call.at[s] + j - 1 \in 0 .. Len(call.tokens) - 1
    <3>1. Len(call.tokens) \in Nat
      BY DEF FeedOK
    <3>2. PICK y \in Nat : y = call.at[s]
      OBVIOUS
    <3>3. j \in Nat /\ 1 <= j
      OBVIOUS
    <3>4. y + j <= Len(call.tokens)
      BY <2>2, <3>2
    <3>5. y + j - 1 \in 0 .. Len(call.tokens) - 1
      BY <3>1, <3>3, <3>4
    <3> QED BY <3>2, <3>5
  <2> QED BY <1>2, <2>1, <2>3
<1> QED BY <1>2, <1>3

(* chunk_reorder_zba, for a token of an entry.                             *)
LEMMA ChunkReorder ==
  ASSUME Underway, NEW k, NEW w, Runs("chunk_reorder_zba", k, w), NEW b \in Entries(call.chains[k]), NEW s \in Seqs,
         EntryOK(call.chains[k], b, s), NEW i \in 1 .. Len(Fed(s)), w = call.chains[k].start[b] + i - 1,
         EntryInv(k, b, s), ChunkReorderZba(k, w)
  PROVE  Only(k, b, s) /\ EntryInv(k, b, s)'
<1> DEFINE c == call.chains[k]
           e == "chunk_reorder_zba"
           y == RowAt(c, b, i)
           v == View(k, b, s)
           u == View(k, b, s)'
<1>h. /\ call' = call /\ said' = said /\ UNCHANGED <<call, said, acc, spec, calls>> /\ k \in ChainIds
      /\ e \in Kernel
  BY AtWork
<1>0. /\ ChainOK(c) /\ FeedOK /\ WorkType /\ InCall /\ said[s] \in Seq(Int) /\ Fed(s) \in Seq(Int)
      /\ Len(Fed(s)) \in Nat \ {0} /\ SlotsOf(s)[0] \in Slots /\ c.slot[b] = SlotsOf(s)
      /\ mid[k] \in [0 .. Height(c) - 1 -> Row]
  BY <1>h, EntryBasics
<1>e. e \in KernelsOf("chunk") /\ "chunk_causal_conv1d" \in KernelsOf("chunk") /\ "update_states" \in KernelsOf("chunk")
      /\ "chunk_gated_delta_rule" \in KernelsOf("chunk") /\ e \in PerToken
      /\ Stage(e) < Stage("update_states") /\ Stage(e) < Stage("chunk_gated_delta_rule")
      /\ e # "chunk_causal_conv1d" /\ e # "update_states" /\ e # "chunk_gated_delta_rule"
      /\ Stage("chunk_causal_conv1d") < Stage(e)
  BY DEF KernelsOf, PerToken, Stage
<1>p. c.path = "chunk"
  BY <1>e, ChunkBegin
<1>c. /\ c.start[b] \in Nat /\ call.at[s] \in Nat /\ Len(Fed(s)) \in Nat
  <2>1. ChainOK(c) /\ FeedOK /\ InCall /\ b \in Entries(c) /\ EntryOK(c, b, s)
    BY <1>0
  <2> HIDE DEF c
  <2> QED BY <2>1, EntryFacts
<1>1. /\ ChunkInv(v, said[s], Fed(s))
      /\ ChunkInv(u, said[s], Fed(s)) => EntryInv(k, b, s)'
      /\ u.did["chunk_causal_conv1d"] = v.did["chunk_causal_conv1d"]
      /\ u.did["update_states"] = {} /\ v.did["update_states"] = {}
      /\ u.did["chunk_gated_delta_rule"] = {} /\ v.did["chunk_gated_delta_rule"] = {}
      /\ u.did[e] = v.did[e] \cup {i} /\ v.did[e] \subseteq 1 .. Len(Fed(s))
      /\ v.did["chunk_causal_conv1d"] = 1 .. Len(Fed(s))
  <2> HIDE DEF e
  <2>1. /\ ChunkInv(View(k, b, s), said[s], Fed(s))
        /\ ChunkInv(View(k, b, s)', said[s], Fed(s)) => EntryInv(k, b, s)'
        /\ \A f \in KernelsOf("chunk") :
              /\ f # e => View(k, b, s)'.did[f] = View(k, b, s).did[f]
              /\ Stage(f) < Stage(e) => View(k, b, s).did[f] = 1 .. Len(Fed(s))
              /\ Stage(e) < Stage(f) => View(k, b, s).did[f] = {}
    BY <1>e, ChunkViews DEF e
  <2>2. /\ e \in PerToken =>
              \A j \in 1 .. Len(Fed(s)) : w = call.chains[k].start[b] + j - 1 =>
                View(k, b, s)'.did[e] = View(k, b, s).did[e] \cup {j}
        /\ View(k, b, s).did[e] \subseteq 1 .. Len(Fed(s))
    BY <1>e, ChunkViews DEF e
  <2> HIDE DEF View
  <2> QED BY <1>e, <2>1, <2>2
<1>2. OutToken(c, w) = y /\ y \in 0 .. Height(c) - 1 /\ Input(c, w) = Fed(s)[i] /\ Fed(s)[i] \in Int
      /\ c.indx[w] = call.at[s] + i - 1 /\ call.at[s] + i - 1 \in 0 .. Len(call.tokens) - 1
  <2>1. ChainOK(c) /\ FeedOK /\ InCall /\ b \in Entries(c) /\ EntryOK(c, b, s) /\ c.path = "chunk"
        /\ w = c.start[b] + i - 1
    BY <1>0, <1>p
  <2> HIDE DEF c
  <2>2. OutToken(c, w) = y /\ y \in 0 .. Height(c) - 1
    BY <2>1, OutTokens, RowFacts
  <2>3. Input(c, w) = Fed(s)[i] /\ Fed(s)[i] \in Int /\ c.indx[w] = call.at[s] + i - 1
        /\ call.at[s] + i - 1 \in 0 .. Len(call.tokens) - 1
    BY <2>1, InputIs
  <2> QED BY <2>2, <2>3
<1> DEFINE row == [win |-> mid[k][y].win, ba |-> Fed(s)[i]]
<1>3. /\ mid' = [mid EXCEPT ![k][y] = row] /\ row \in Row
      /\ z' = [z EXCEPT ![call.at[s] + i - 1] = Fed(s)[i]]
      /\ conv' = conv /\ ssm' = ssm /\ tmp' = tmp /\ out' = out
  <2>1. mid[k][y] \in Row
    BY <1>0, <1>2
  <2>2. row \in Row
    BY <1>2, <2>1 DEF Row
  <2>3. [mid[k][y] EXCEPT !.ba = Fed(s)[i]] = row
    BY <2>1 DEF Row
  <2>4. mid' = [mid EXCEPT ![k] = [mid[k] EXCEPT ![y] = [mid[k][y] EXCEPT !.ba = Fed(s)[i]]]]
    BY <1>h, <1>0, <1>2 DEF WorkType, ChunkReorderZba
  <2>5. mid' = [mid EXCEPT ![k][y] = row]
    BY <1>h, <1>0, <2>3, <2>4
  <2>6. /\ z' = [z EXCEPT ![call.at[s] + i - 1] = Fed(s)[i]]
        /\ conv' = conv /\ ssm' = ssm /\ tmp' = tmp /\ out' = out
    BY <1>2 DEF ChunkReorderZba, cache
  <2> QED BY <2>2, <2>5, <2>6
<1>4. /\ mid' = [l \in ChainIds |-> mid'[l]]
      /\ \A l \in ChainIds : mid'[l] \in [0 .. Height(call.chains[l]) - 1 -> Row]
      /\ \A l \in ChainIds : \A x \in 0 .. Height(call.chains[l]) - 1 : (l = k => x # y) => mid'[l][x] = mid[l][x]
      /\ mid'[k][y] = row
  <2> HIDE DEF row, y
  <2>1. WorkType /\ k \in ChainIds /\ y \in 0 .. Height(call.chains[k]) - 1 /\ row \in Row
        /\ mid' = [mid EXCEPT ![k][y] = row]
    BY <1>h, <1>0, <1>2, <1>3
  <2>2. MidWritten(k, y, row)
    BY <2>1, MidWrite
  <2> QED BY <2>2 DEF MidWritten
<1>5. /\ z' \in [0 .. Len(call.tokens) - 1 -> Int] /\ z'[call.at[s] + i - 1] = Fed(s)[i]
      /\ \A g \in 0 .. Len(call.tokens) - 1 : (\A j \in 1 .. Len(Fed(s)) : g # call.at[s] + j - 1) => z'[g] = z[g]
      /\ \A j \in 1 .. Len(Fed(s)) : j # i => z'[call.at[s] + j - 1] = z[call.at[s] + j - 1]
  <2>1. z' = [z EXCEPT ![call.at[s] + i - 1] = Fed(s)[i]]
    BY <1>3
  <2> QED BY <1>0, <1>c, <1>2, <2>1, ZWrite
<1>6. \A j \in 1 .. Len(Fed(s)) : j # i => mid'[k][RowAt(c, b, j)] = mid[k][RowAt(c, b, j)]
  <2>1. ChainOK(c) /\ FeedOK /\ InCall /\ b \in Entries(c) /\ EntryOK(c, b, s)
        /\ \A x \in 0 .. Height(c) - 1 : x # RowAt(c, b, i) => mid'[k][x] = mid[k][x]
    BY <1>h, <1>0, <1>4
  <2> DEFINE m == mid'[k]
             n == mid[k]
  <2>2. \A x \in 0 .. Height(c) - 1 : x # RowAt(c, b, i) => m[x] = n[x]
    BY <2>1
  <2> HIDE DEF c, m, n
  <2>3. \A j \in 1 .. Len(Fed(s)) : j # i => m[RowAt(c, b, j)] = n[RowAt(c, b, j)]
    BY <2>1, <2>2, RowKept
  <2> QED BY <2>3 DEF m, n
<1>7. Only(k, b, s)
  <2>1. \A l \in ChainIds : \A x \in 0 .. Height(call.chains[l]) - 1 :
       (l = k => \A j \in 1 .. Len(Fed(s)) : x # RowAt(call.chains[k], b, j)) => mid'[l][x] = mid[l][x]
    BY <1>4
  <2>2. ssm' \in [Slots \cup {Pad} -> Seq(Row)] /\ out' \in [0 .. Len(call.tokens) - 1 -> Seq(Row)]
        /\ conv' \in [Slots -> [0 .. StateLen - 1 -> Int]] /\ tmp' = [l \in ChainIds |-> tmp'[l]]
        /\ \A l \in ChainIds : tmp'[l] \in [Entries(call.chains[l]) -> [0 .. Width - 2 -> Int]]
    BY <1>0, <1>3 DEF WorkType, Underway, GdnType
  <2>3. GdnType'
    BY <1>h, <1>4, <1>5, <2>2, TypeNext
  <2> QED BY <1>3, <1>5, <2>1, <2>3 DEF Only
<1>8. /\ u.line = v.line /\ u.saved = v.saved /\ u.cols[0] = v.cols[0]
      /\ \A j \in 1 .. Len(Fed(s)) :
           /\ u.rows[j].win = v.rows[j].win
           /\ j # i => u.rows[j].ba = v.rows[j].ba /\ u.zs[j] = v.zs[j]
      /\ u.rows[i].ba = Fed(s)[i] /\ u.zs[i] = Fed(s)[i]
  <2>0. 0 \in 0 .. NumSpec - 1
    BY Sizes
  <2>1. /\ v.line = conv[SlotsOf(s)[0]] /\ v.saved = tmp[k][b] /\ v.cols[0] = ssm[SlotsOf(s)[0]]
        /\ \A j \in 1 .. Len(Fed(s)) : v.rows[j] = mid[k][RowAt(c, b, j)] /\ v.zs[j] = z[call.at[s] + j - 1]
    BY <2>0, Viewed
  <2>2. /\ u.line = conv'[SlotsOf(s)[0]] /\ u.saved = tmp'[k][b] /\ u.cols[0] = ssm'[SlotsOf(s)[0]]
        /\ \A j \in 1 .. Len(Fed(s)) : u.rows[j] = mid'[k][RowAt(c, b, j)] /\ u.zs[j] = z'[call.at[s] + j - 1]
    BY <1>h, <2>0, ViewedNext
  <2> HIDE DEF u, v
  <2>3. u.line = v.line /\ u.saved = v.saved /\ u.cols[0] = v.cols[0]
    BY <1>3, <2>1, <2>2
  <2>4. mid'[k][RowAt(c, b, i)].win = mid[k][RowAt(c, b, i)].win /\ mid'[k][RowAt(c, b, i)].ba = Fed(s)[i]
    BY <1>4
  <2> QED BY <1>5, <1>6, <2>1, <2>2, <2>3, <2>4
<1> HIDE DEF u, v
<1>9. ChunkInv(u, said[s], Fed(s))
  <2>1. /\ \A j \in v.did["chunk_causal_conv1d"] : u.rows[j].win = v.rows[j].win
        /\ \A j \in v.did["chunk_reorder_zba"] \ {i} : u.rows[j].ba = v.rows[j].ba /\ u.zs[j] = v.zs[j]
    BY <1>1, <1>8
  <2> DEFINE h == said[s]
             f == Fed(s)
  <2>2. u.rows[i].ba = f[i] /\ u.zs[i] = f[i] /\ ChunkInv(v, h, f)
    BY <1>1, <1>8
  <2> HIDE DEF h, f
  <2>3. ChunkInv(u, h, f)
    BY <1>1, <1>8, <2>1, <2>2, Reordered
  <2> QED BY <2>3 DEF h, f
<1> QED BY <1>1, <1>7, <1>9

LEMMA EntryViews ==
  ASSUME Underway, NEW e, NEW k, NEW w, Runs(e, k, w), NEW b \in Entries(call.chains[k]), NEW s \in Seqs,
         EntryOK(call.chains[k], b, s), e \notin PerToken, w = b
  PROVE  View(k, b, s).did[e] = {} /\ View(k, b, s)'.did[e] = 1 .. Len(Fed(s))
<1>s. DidStep(e, k, w, b, s)
  BY DidRun
<1>1. Did(e, k, b, s) = {}
  BY <1>s DEF DidStep
<1>2. Did(e, k, b, s)' = 1 .. Len(Fed(s))
  BY <1>s DEF DidStep
<1>3. e \in Kernel /\ call' = call
  BY AtWork
<1>4. View(k, b, s).did[e] = Did(e, k, b, s)
  BY <1>3, Viewed
<1>5. View(k, b, s)'.did[e] = Did(e, k, b, s)'
  BY <1>3, ViewedNext
<1> QED BY <1>1, <1>2, <1>4, <1>5

(* update_states, for an entry.                                            *)
LEMMA ChunkUpdate ==
  ASSUME Underway, NEW k, NEW w, Runs("update_states", k, w), NEW b \in Entries(call.chains[k]), NEW s \in Seqs,
         EntryOK(call.chains[k], b, s), w = b, EntryInv(k, b, s), UpdateStates(k, w)
  PROVE  Only(k, b, s) /\ EntryInv(k, b, s)'
<1> DEFINE c == call.chains[k]
           e == "update_states"
           v == View(k, b, s)
           u == View(k, b, s)'
           old == conv[SlotsOf(s)[0]]
           line == [i \in 0 .. StateLen - 1 |-> IF i <= Width - 2 THEN tmp[k][b][i] ELSE old[i]]
<1>h. /\ call' = call /\ said' = said /\ UNCHANGED <<call, said, acc, spec, calls>> /\ k \in ChainIds
      /\ e \in Kernel
  BY AtWork
<1>0. /\ ChainOK(c) /\ FeedOK /\ WorkType /\ InCall /\ said[s] \in Seq(Int) /\ Fed(s) \in Seq(Int)
      /\ Len(Fed(s)) \in Nat \ {0} /\ SlotsOf(s)[0] \in Slots /\ old \in [0 .. StateLen - 1 -> Int]
      /\ c.slot[b] = SlotsOf(s) /\ tmp[k][b] \in [0 .. Width - 2 -> Int]
  BY <1>h, EntryBasics
<1>e. e \in KernelsOf("chunk") /\ "chunk_causal_conv1d" \in KernelsOf("chunk") /\ "chunk_reorder_zba" \in KernelsOf("chunk")
      /\ "chunk_gated_delta_rule" \in KernelsOf("chunk") /\ e \notin PerToken
      /\ Stage(e) < Stage("chunk_gated_delta_rule")
      /\ e # "chunk_causal_conv1d" /\ e # "chunk_reorder_zba" /\ e # "chunk_gated_delta_rule"
      /\ Stage("chunk_causal_conv1d") < Stage(e) /\ Stage("chunk_reorder_zba") < Stage(e)
  BY DEF KernelsOf, PerToken, Stage
<1>1. /\ ChunkInv(v, said[s], Fed(s))
      /\ ChunkInv(u, said[s], Fed(s)) => EntryInv(k, b, s)'
      /\ u.did["chunk_causal_conv1d"] = v.did["chunk_causal_conv1d"]
      /\ u.did["chunk_reorder_zba"] = v.did["chunk_reorder_zba"]
      /\ u.did["chunk_gated_delta_rule"] = {} /\ v.did["chunk_gated_delta_rule"] = {}
      /\ v.did[e] = {} /\ u.did[e] = 1 .. Len(Fed(s))
      /\ v.did["chunk_causal_conv1d"] = 1 .. Len(Fed(s)) /\ v.did["chunk_reorder_zba"] = 1 .. Len(Fed(s))
  <2> HIDE DEF e
  <2>1. /\ ChunkInv(View(k, b, s), said[s], Fed(s))
        /\ ChunkInv(View(k, b, s)', said[s], Fed(s)) => EntryInv(k, b, s)'
        /\ \A f \in KernelsOf("chunk") :
              /\ f # e => View(k, b, s)'.did[f] = View(k, b, s).did[f]
              /\ Stage(f) < Stage(e) => View(k, b, s).did[f] = 1 .. Len(Fed(s))
              /\ Stage(e) < Stage(f) => View(k, b, s).did[f] = {}
    BY <1>e, ChunkViews DEF e
  <2>2. View(k, b, s).did[e] = {} /\ View(k, b, s)'.did[e] = 1 .. Len(Fed(s))
    BY <1>e, EntryViews DEF e
  <2> HIDE DEF View
  <2> QED BY <1>e, <2>1, <2>2
<1>2. c.start[b + 1] - c.start[b] = Len(Fed(s)) /\ 1 \in 1 .. Len(Fed(s)) /\ Len(Fed(s)) \in 1 .. Len(Fed(s))
  <2>1. ChainOK(c) /\ FeedOK /\ InCall /\ b \in Entries(c) /\ EntryOK(c, b, s)
    BY <1>0
  <2> HIDE DEF c
  <2>2. c.start[b] \in Nat /\ c.start[b + 1] = c.start[b] + Len(Fed(s)) /\ Len(Fed(s)) \in Nat \ {0}
    BY <2>1, EntryFacts
  <2> QED BY <2>2
<1>3. conv' = IF Len(Fed(s)) = 1 THEN conv
              ELSE [conv EXCEPT ![SlotsOf(s)[0]] = line]
  <2>1. conv' = IF Len(Fed(s)) = 1 THEN conv
                ELSE [conv EXCEPT ![SlotsOf(s)[0]] =
                        [i \in DOMAIN old |-> IF i <= Width - 2 THEN tmp[k][b][i] ELSE old[i]]]
    BY <1>0, <1>2 DEF UpdateStates
  <2>2. DOMAIN old = 0 .. StateLen - 1
    BY <1>0
  <2> QED BY <2>1, <2>2
<1>4. mid' = mid /\ tmp' = tmp /\ ssm' = ssm /\ out' = out /\ z' = z
  BY DEF UpdateStates, works
<1>5. line \in [0 .. StateLen - 1 -> Int]
  <2> SUFFICES ASSUME NEW i \in 0 .. StateLen - 1
               PROVE  (IF i <= Width - 2 THEN tmp[k][b][i] ELSE old[i]) \in Int
    OBVIOUS
  <2>1. CASE i <= Width - 2
    <3>1. i \in 0 .. Width - 2
      BY <2>1, Sizes
    <3> QED BY <1>0, <2>1, <3>1
  <2> QED BY <1>0, <2>1
<1>6. /\ conv' \in [Slots -> [0 .. StateLen - 1 -> Int]] /\ \A x \in Slots : x # SlotsOf(s)[0] => conv'[x] = conv[x]
      /\ conv'[SlotsOf(s)[0]] = IF Len(Fed(s)) = 1 THEN old ELSE line
  <2>1. conv \in [Slots -> [0 .. StateLen - 1 -> Int]]
    BY DEF Underway, GdnType
  <2> HIDE DEF line, old
  <2> QED BY <1>0, <1>3, <1>5, <2>1 DEF old
<1>v. /\ v.line = old /\ v.saved = tmp[k][b] /\ v.cols[0] = ssm[SlotsOf(s)[0]]
      /\ \A j \in 1 .. Len(Fed(s)) : v.rows[j] = mid[k][RowAt(c, b, j)] /\ v.zs[j] = z[call.at[s] + j - 1]
  <2>0. 0 \in 0 .. NumSpec - 1
    BY Sizes
  <2> QED BY <2>0, Viewed
<1>u. /\ u.line = conv'[SlotsOf(s)[0]] /\ u.saved = tmp'[k][b] /\ u.cols[0] = ssm'[SlotsOf(s)[0]]
      /\ \A j \in 1 .. Len(Fed(s)) : u.rows[j] = mid'[k][RowAt(c, b, j)] /\ u.zs[j] = z'[call.at[s] + j - 1]
  <2>0. 0 \in 0 .. NumSpec - 1
    BY Sizes
  <2> QED BY <1>h, <2>0, ViewedNext
<1> HIDE DEF u, v
<1>7. LineHolds(conv'[SlotsOf(s)[0]], 1, said[s] \o Fed(s))
  <2>1. CASE Len(Fed(s)) = 1
    BY <1>1, <1>2, <1>6, <1>v, <2>1 DEF ChunkInv
  <2>2. CASE Len(Fed(s)) # 1
    <3>1. LineHolds(tmp[k][b], 1, said[s] \o Fed(s))
      <4>0. PICK n \in Nat \ {0} : n = Len(Fed(s))
        BY <1>0
      <4>1. n > 1
        <5>1. n # 1
          BY <2>2, <4>0
        <5> QED BY <5>1
      <4>2. Len(Fed(s)) > 1
        BY <4>0, <4>1
      <4> QED BY <1>1, <1>2, <1>v, <4>2 DEF ChunkInv
    <3>2. \A i \in 0 .. Width - 2 : line[1 - 1 + i] = tmp[k][b][1 - 1 + i]
      <4> SUFFICES ASSUME NEW i \in 0 .. Width - 2 PROVE line[1 - 1 + i] = tmp[k][b][1 - 1 + i]
        OBVIOUS
      <4>1. i \in 0 .. StateLen - 1 /\ 1 - 1 + i = i /\ i <= Width - 2
        BY LineFacts, Sizes
      <4> QED BY <4>1
    <3> HIDE DEF line
    <3>3. LineHolds(line, 1, said[s] \o Fed(s))
      BY <3>1, <3>2 DEF LineHolds
    <3> QED BY <1>6, <2>2, <3>3
  <2> QED BY <2>1, <2>2
<1>8. Only(k, b, s)
  <2>1. /\ ssm' \in [Slots \cup {Pad} -> Seq(Row)] /\ out' \in [0 .. Len(call.tokens) - 1 -> Seq(Row)]
        /\ tmp' = [l \in ChainIds |-> tmp'[l]] /\ mid' = [l \in ChainIds |-> mid'[l]]
        /\ \A l \in ChainIds : tmp'[l] \in [Entries(call.chains[l]) -> [0 .. Width - 2 -> Int]]
        /\ \A l \in ChainIds : mid'[l] \in [0 .. Height(call.chains[l]) - 1 -> Row]
        /\ z' \in [0 .. Len(call.tokens) - 1 -> Int]
    BY <1>0, <1>4 DEF WorkType, Underway, GdnType
  <2>2. GdnType'
    BY <1>h, <1>6, <2>1, TypeNext
  <2> QED BY <1>4, <1>6, <2>2 DEF Only
<1>9. ChunkInv(u, said[s], Fed(s))
  <2>1. u.did[e] # {} /\ LineHolds(u.line, 1, said[s] \o Fed(s)) /\ u.saved = v.saved /\ u.cols[0] = v.cols[0]
        /\ \A j \in 1 .. Len(Fed(s)) : u.rows[j] = v.rows[j] /\ u.zs[j] = v.zs[j]
    <3>1. u.did[e] # {}
      BY <1>1, <1>2
    <3>2. u.saved = v.saved /\ u.cols[0] = v.cols[0]
      BY <1>4, <1>v, <1>u
    <3>3. LineHolds(u.line, 1, said[s] \o Fed(s))
      BY <1>7, <1>u
    <3>4. \A j \in 1 .. Len(Fed(s)) : u.rows[j] = v.rows[j] /\ u.zs[j] = v.zs[j]
      BY <1>4, <1>v, <1>u
    <3> QED BY <3>1, <3>2, <3>3, <3>4
  <2> QED BY <1>1, <2>1, Updated
<1> QED BY <1>1, <1>8, <1>9

(* The chunked rule writes the output of the n-th token at its place.      *)
LEMMA Places ==
  ASSUME NEW c, ChainOK(c), InCall, FeedOK, NEW b \in Entries(c), NEW s \in Seqs, EntryOK(c, b, s),
         NEW n \in 0 .. Len(Fed(s)) - 1
  PROVE  c.indx[c.start[b] + (n \div ChunkSize) * ChunkSize] + (n % ChunkSize) = call.at[s] + n
<1>1. c.start[b] \in Nat /\ call.at[s] \in Nat /\ Len(Fed(s)) \in Nat \ {0}
      /\ \A i \in 1 .. Len(Fed(s)) : c.indx[c.start[b] + i - 1] = call.at[s] + i - 1
  BY EntryFacts
<1>2. ChunkSize \in Nat \ {0} /\ n \in Nat /\ n < Len(Fed(s))
  BY <1>1, Sizes
<1>3. PICK q \in Nat, r \in 0 .. ChunkSize - 1 :
        q = n \div ChunkSize /\ r = n % ChunkSize /\ n = (q * ChunkSize) + r
  BY <1>2, DivMod
<1>4. n = (q * ChunkSize) + r
  BY <1>3
<1>5. PICK m \in Nat : m = q * ChunkSize
  BY <1>2
<1>6. PICK x \in Nat, y \in Nat : x = c.start[b] /\ y = call.at[s]
  BY <1>1
<1>7. m + 1 \in 1 .. Len(Fed(s)) /\ x + (m + 1) - 1 = x + m /\ (y + (m + 1) - 1) + r = y + n
  BY <1>1, <1>2, <1>4, <1>5
<1>8. c.indx[x + m] = y + (m + 1) - 1
  BY <1>1, <1>6, <1>7
<1> QED BY <1>3, <1>5, <1>6, <1>7, <1>8

(* chunk_gated_delta_rule, for an entry.                                   *)
LEMMA ChunkRule ==
  ASSUME Underway, NEW k, NEW w, Runs("chunk_gated_delta_rule", k, w), NEW b \in Entries(call.chains[k]), NEW s \in Seqs,
         EntryOK(call.chains[k], b, s), w = b, EntryInv(k, b, s), ChunkGatedDeltaRule(k, w)
  PROVE  Only(k, b, s) /\ EntryInv(k, b, s)'
<1> DEFINE c == call.chains[k]
           e == "chunk_gated_delta_rule"
           v == View(k, b, s)
           u == View(k, b, s)'
           h == said[s]
           f == Fed(s)
           row == ChunksBefore(c, b) * ChunkSize
           place(n) == c.indx[c.start[b] + (n \div ChunkSize) * ChunkSize] + (n % ChunkSize)
<1>h. /\ call' = call /\ said' = said /\ UNCHANGED <<call, said, acc, spec, calls>> /\ k \in ChainIds
      /\ e \in Kernel
  BY AtWork
<1>0. /\ ChainOK(c) /\ FeedOK /\ WorkType /\ InCall /\ h \in Seq(Int) /\ f \in Seq(Int)
      /\ Len(f) \in Nat \ {0} /\ SlotsOf(s)[0] \in Slots
      /\ c.slot[b] = SlotsOf(s) /\ mid[k] \in [0 .. Height(c) - 1 -> Row]
  BY <1>h, EntryBasics
<1>e. e \in KernelsOf("chunk") /\ "chunk_causal_conv1d" \in KernelsOf("chunk") /\ "chunk_reorder_zba" \in KernelsOf("chunk")
      /\ "update_states" \in KernelsOf("chunk") /\ e \notin PerToken
      /\ Stage("update_states") < Stage(e)
      /\ e # "chunk_causal_conv1d" /\ e # "chunk_reorder_zba" /\ e # "update_states"
      /\ Stage("chunk_causal_conv1d") < Stage(e) /\ Stage("chunk_reorder_zba") < Stage(e)
  BY DEF KernelsOf, PerToken, Stage
<1>1. /\ ChunkInv(v, h, f)
      /\ ChunkInv(u, h, f) => EntryInv(k, b, s)'
      /\ u.did["chunk_causal_conv1d"] = v.did["chunk_causal_conv1d"]
      /\ u.did["chunk_reorder_zba"] = v.did["chunk_reorder_zba"]
      /\ u.did["update_states"] = v.did["update_states"]
      /\ v.did[e] = {} /\ u.did[e] = 1 .. Len(f)
      /\ v.did["chunk_causal_conv1d"] = 1 .. Len(f) /\ v.did["chunk_reorder_zba"] = 1 .. Len(f)
  <2> HIDE DEF e
  <2>1. /\ ChunkInv(View(k, b, s), said[s], Fed(s))
        /\ ChunkInv(View(k, b, s)', said[s], Fed(s)) => EntryInv(k, b, s)'
        /\ \A g \in KernelsOf("chunk") :
              /\ g # e => View(k, b, s)'.did[g] = View(k, b, s).did[g]
              /\ Stage(g) < Stage(e) => View(k, b, s).did[g] = 1 .. Len(Fed(s))
              /\ Stage(e) < Stage(g) => View(k, b, s).did[g] = {}
    BY <1>e, ChunkViews DEF e
  <2>2. View(k, b, s).did[e] = {} /\ View(k, b, s)'.did[e] = 1 .. Len(Fed(s))
    BY <1>e, EntryViews DEF e
  <2> HIDE DEF View
  <2> QED BY <1>e, <2>1, <2>2
<1>c. ChainOK(c) /\ FeedOK /\ InCall /\ b \in Entries(c) /\ EntryOK(c, b, s)
  BY <1>0
<1>p. c.path = "chunk" /\ (c.init[b] <=> h # <<>>)
  BY <1>e, ChunkBegin
<1>2. c.start[b + 1] - c.start[b] = Len(f) /\ call.at[s] \in Nat /\ row \in Nat
      /\ \A i \in 1 .. Len(f) : call.at[s] + i - 1 \in 0 .. Len(call.tokens) - 1
  <2> HIDE DEF c
  <2>1. /\ c.start[b] \in Nat /\ c.start[b + 1] = c.start[b] + Len(Fed(s)) /\ Len(Fed(s)) \in Nat \ {0}
        /\ call.at[s] \in Nat
    BY <1>c, EntryFacts
  <2>2. \A i \in 1 .. Len(Fed(s)) : call.at[s] + i - 1 \in 0 .. Len(call.tokens) - 1
    BY <1>c, EntryFacts
  <2>3. row \in Nat
    <3>1. b \in 0 .. c.batch
      BY <1>c DEF Entries, ChainOK
    <3> QED BY <1>c, <3>1, ChunkSums
  <2> QED BY <2>1, <2>2, <2>3
<1>v. /\ v.line = conv[SlotsOf(s)[0]] /\ v.saved = tmp[k][b] /\ v.cols[0] = ssm[SlotsOf(s)[0]]
      /\ \A j \in 1 .. Len(f) : v.rows[j] = mid[k][RowAt(c, b, j)] /\ v.zs[j] = z[call.at[s] + j - 1]
  <2>0. 0 \in 0 .. NumSpec - 1
    BY Sizes
  <2> QED BY <2>0, Viewed
<1>u. /\ u.line = conv'[SlotsOf(s)[0]] /\ u.saved = tmp'[k][b] /\ u.cols[0] = ssm'[SlotsOf(s)[0]]
      /\ \A j \in 1 .. Len(f) : u.rows[j] = mid'[k][RowAt(c, b, j)] /\ u.zs[j] = z'[call.at[s] + j - 1]
                                /\ u.outs[j] = out'[call.at[s] + j - 1]
  <2>0. 0 \in 0 .. NumSpec - 1
    BY Sizes
  <2>1. /\ u.line = conv'[SlotsOf(s)[0]] /\ u.saved = tmp'[k][b] /\ u.cols[0] = ssm'[SlotsOf(s)[0]]
    BY <1>h, <2>0, ViewedNext
  <2>2. \A i \in 1 .. Len(Fed(s)) : /\ View(k, b, s)'.rows[i] = mid'[k][RowAt(call.chains[k], b, i)]
                                    /\ View(k, b, s)'.outs[i] = out'[call.at[s] + i - 1]
                                    /\ View(k, b, s)'.zs[i] = z'[call.at[s] + i - 1]
    BY <1>h, ViewedNext
  <2> QED BY <2>1, <2>2
<1> HIDE DEF u, v
<1>3. \A i \in 1 .. Len(f) : mid[k][row + i - 1] = RowFor(h, f, i)
  <2> SUFFICES ASSUME NEW i \in 1 .. Len(f) PROVE mid[k][row + i - 1] = RowFor(h, f, i)
    OBVIOUS
  <2>1. v.rows[i].win = Win(h \o f, Len(h) + i) /\ v.rows[i].ba = f[i]
    BY <1>1 DEF ChunkInv
  <2>2. RowAt(c, b, i) \in 0 .. Height(c) - 1
    <3> HIDE DEF c
    <3> QED BY <1>c, RowFacts
  <2>3. mid[k][RowAt(c, b, i)] \in Row
    BY <1>0, <2>2
  <2>4. RowAt(c, b, i) = row + i - 1
    BY <1>p DEF RowAt
  <2> QED BY <1>v, <2>1, <2>3, <2>4 DEF RowFor, Row
<1>4. (IF c.init[b] THEN ssm[SlotsOf(s)[0]] ELSE <<>>) = Taken(h)
  <2>1. CASE h = <<>>
    BY <1>0, <1>p, <2>1, WholeState
  <2>2. CASE h # <<>>
    BY <1>1, <1>p, <1>v, <2>2 DEF ChunkInv
  <2> QED BY <2>1, <2>2
<1>5. \A n \in 0 .. Len(f) : After(k, row, Taken(h), n) = StateAt(h, f, n) /\ StateAt(h, f, n) \in Seq(Row)
  <2> SUFFICES ASSUME NEW n \in 0 .. Len(f)
               PROVE  After(k, row, Taken(h), n) = StateAt(h, f, n) /\ StateAt(h, f, n) \in Seq(Row)
    OBVIOUS
  <2>1. \A i \in 1 .. n : mid[k][row + i - 1] = RowFor(h, f, i)
    BY <1>0, <1>3
  <2> HIDE DEF row, h, f
  <2> QED BY <1>0, <2>1, AfterIs
<1>6. /\ ssm' = [ssm EXCEPT ![SlotsOf(s)[0]] = Taken(h \o f)] /\ Taken(h \o f) \in Seq(Row)
      /\ conv' = conv /\ tmp' = tmp /\ mid' = mid /\ z' = z
  <2>1. ssm' = [ssm EXCEPT ![SlotsOf(s)[0]] = After(k, row, Taken(h), Len(f))]
        /\ conv' = conv /\ tmp' = tmp /\ mid' = mid /\ z' = z
    BY <1>0, <1>2, <1>4 DEF ChunkGatedDeltaRule
  <2>2. Len(f) \in 0 .. Len(f)
    BY <1>0
  <2>3. After(k, row, Taken(h), Len(f)) = Taken(h \o f) /\ Taken(h \o f) \in Seq(Row)
    BY <1>0, <1>5, <2>2, WholeState
  <2> QED BY <2>1, <2>3
<1>7. \A n \in 0 .. Len(f) - 1 : place(n) = call.at[s] + n
  <2> SUFFICES ASSUME NEW n \in 0 .. Len(f) - 1 PROVE place(n) = call.at[s] + n
    OBVIOUS
  <2> HIDE DEF c
  <2> QED BY <1>c, Places
<1>8. /\ out' = [g \in DOMAIN out |-> out'[g]] /\ DOMAIN out' = DOMAIN out
      /\ \A i \in 1 .. Len(f) : out'[call.at[s] + i - 1] = StateAt(h, f, i)
      /\ \A g \in 0 .. Len(call.tokens) - 1 : (\A i \in 1 .. Len(f) : g # call.at[s] + i - 1) => out'[g] = out[g]
  <2> DEFINE len == c.start[b + 1] - c.start[b]
             state == IF c.init[b] THEN ssm[SlotsOf(s)[0]] ELSE <<>>
  <2>1. out' = [g \in DOMAIN out |->
                  IF \E n \in 0 .. len - 1 : place(n) = g
                  THEN After(k, row, state, (CHOOSE n \in 0 .. len - 1 : place(n) = g) + 1) ELSE out[g]]
    BY <1>0 DEF ChunkGatedDeltaRule
  <2>2. DOMAIN out = 0 .. Len(call.tokens) - 1
    BY <1>0 DEF WorkType
  <2>l. len = Len(f) /\ state = Taken(h)
    BY <1>2, <1>4
  <2> HIDE DEF place, len, row, state
  <2>3. ASSUME NEW i \in 1 .. Len(f) PROVE out'[call.at[s] + i - 1] = StateAt(h, f, i)
    <3> DEFINE n == CHOOSE n \in 0 .. len - 1 : place(n) = call.at[s] + i - 1
    <3>i. PICK m \in Nat, y \in Nat : m = Len(f) /\ y = call.at[s]
      BY <1>0, <1>2
    <3>1. i \in Nat /\ i - 1 \in 0 .. m - 1 /\ y + (i - 1) = y + i - 1
      BY <3>i
    <3>2. i - 1 \in 0 .. len - 1 /\ place(i - 1) = call.at[s] + i - 1
      BY <1>7, <2>l, <3>i, <3>1
    <3>3. n \in 0 .. len - 1 /\ place(n) = call.at[s] + i - 1
      BY <3>2
    <3> HIDE DEF n
    <3>4. n \in Nat /\ y + n = y + i - 1
      BY <1>7, <2>l, <3>i, <3>3
    <3>5. n + 1 = i
      BY <3>1, <3>4
    <3>6. \E x \in 0 .. len - 1 : place(x) = call.at[s] + i - 1
      BY <3>2
    <3>7. out'[call.at[s] + i - 1] = After(k, row, state, n + 1)
      BY <1>2, <2>1, <2>2, <3>6 DEF n
    <3>8. i \in 0 .. Len(f)
      BY <3>i
    <3> QED BY <1>5, <2>l, <3>5, <3>7, <3>8
  <2>4. ASSUME NEW g \in 0 .. Len(call.tokens) - 1, \A i \in 1 .. Len(f) : g # call.at[s] + i - 1
        PROVE  out'[g] = out[g]
    <3>1. ASSUME NEW x \in 0 .. len - 1, place(x) = g PROVE FALSE
      <4>1. PICK m \in Nat, y \in Nat : m = Len(f) /\ y = call.at[s]
        BY <1>0, <1>2
      <4>2. g = y + x /\ x \in 0 .. m - 1
        BY <1>7, <2>l, <3>1, <4>1
      <4>3. x + 1 \in 1 .. m /\ y + (x + 1) - 1 = y + x
        BY <4>2
      <4> QED BY <2>4, <4>1, <4>2, <4>3
    <3> QED BY <2>1, <2>2, <3>1
  <2> QED BY <2>1, <2>2, <2>3, <2>4
<1>9. GdnType'
  <2>1. out' \in [0 .. Len(call.tokens) - 1 -> Seq(Row)]
    <3> DEFINE new == [i \in 1 .. Len(Fed(s)) |-> StateAt(said[s], Fed(s), i)]
    <3>1. \A i \in 1 .. Len(Fed(s)) : new[i] \in Seq(Row)
      BY <1>0, <1>5
    <3>2. \A i \in 1 .. Len(Fed(s)) : out'[call.at[s] + i - 1] = new[i]
      BY <1>8
    <3>3. WorkType /\ FeedOK /\ out' = [g \in DOMAIN out |-> out'[g]] /\ DOMAIN out' = DOMAIN out
          /\ \A g \in 0 .. Len(call.tokens) - 1 : (\A i \in 1 .. Len(Fed(s)) : g # call.at[s] + i - 1) => out'[g] = out[g]
      BY <1>0, <1>8
    <3> HIDE DEF new, c, h, f
    <3>4. \A i \in 1 .. Len(Fed(s)) : call.at[s] + i - 1 \in 0 .. Len(call.tokens) - 1 => out'[call.at[s] + i - 1] = new[i]
      BY <3>2
    <3> QED BY <3>1, <3>3, <3>4, OutWrite
  <2>2. ssm' \in [Slots \cup {Pad} -> Seq(Row)]
    BY <1>0, <1>6 DEF Underway, GdnType
  <2>3. /\ conv' \in [Slots -> [0 .. StateLen - 1 -> Int]]
        /\ mid' = [l \in ChainIds |-> mid'[l]] /\ tmp' = [l \in ChainIds |-> tmp'[l]]
        /\ \A l \in ChainIds : mid'[l] \in [0 .. Height(call.chains[l]) - 1 -> Row]
        /\ \A l \in ChainIds : tmp'[l] \in [Entries(call.chains[l]) -> [0 .. Width - 2 -> Int]]
        /\ z' \in [0 .. Len(call.tokens) - 1 -> Int]
    BY <1>0, <1>6 DEF Underway, GdnType, WorkType
  <2> QED BY <1>h, <2>1, <2>2, <2>3, TypeNext
<1>10. ssm'[SlotsOf(s)[0]] = Taken(h \o f) /\ \A x \in Slots : x # SlotsOf(s)[0] => ssm'[x] = ssm[x]
  BY <1>0, <1>6 DEF Underway, GdnType
<1>11. Only(k, b, s)
  <2>1. \A x \in Slots : (\A j \in 0 .. NumSpec - 1 : x # SlotsOf(s)[j]) => ssm'[x] = ssm[x]
    <3>1. 0 \in 0 .. NumSpec - 1
      BY Sizes
    <3> QED BY <1>10, <3>1
  <2> QED BY <1>6, <1>8, <1>9, <2>1 DEF Only
<1>12. ChunkInv(u, h, f)
  <2>1. u.did[e] # {} /\ u.line = v.line /\ u.saved = v.saved /\ u.cols[0] = Taken(h \o f)
        /\ \A j \in 1 .. Len(f) : u.rows[j] = v.rows[j] /\ u.zs[j] = v.zs[j] /\ u.outs[j] = StateAt(h, f, j)
    <3>1. 1 \in 1 .. Len(f)
      BY <1>0
    <3> QED BY <1>1, <1>6, <1>8, <1>10, <1>v, <1>u, <3>1
  <2> HIDE DEF h, f
  <2> QED BY <1>1, <2>1, Answered
<1> QED BY <1>1, <1>11, <1>12

(* Writing the places 0, 1, ... of a line one after the other, each from   *)
(* what the places past it held at the start.                              *)
Rolls(F, m, n, old, T) ==
  /\ m \in Nat /\ n \in 0 .. m /\ old \in [0 .. m - 1 -> Int] /\ T \in [0 .. m - 1 -> Int]
  /\ \A j \in 1 .. n : F[j] \in [[0 .. m - 1 -> Int] -> [0 .. m - 1 -> Int]]
  /\ \A j \in 1 .. n : \A line \in [0 .. m - 1 -> Int] :
       (\A x \in j .. m - 1 : line[x] = old[x]) => F[j][line] = [line EXCEPT ![j - 1] = T[j - 1]]
RolledTo(g, F, m, n, old, T) ==
  /\ Iterates(g, old, F, n) /\ \A i \in 0 .. n : g[i] \in [0 .. m - 1 -> Int]
  /\ \A x \in 0 .. m - 1 : g[n][x] = IF x < n THEN T[x] ELSE old[x]

LEMMA Rolling ==
  ASSUME NEW m, NEW n, NEW old, NEW T, NEW F, Rolls(F, m, n, old, T)
  PROVE  \E g : RolledTo(g, F, m, n, old, T)
<1>0. /\ m \in Nat /\ n \in 0 .. m /\ old \in [0 .. m - 1 -> Int] /\ T \in [0 .. m - 1 -> Int]
      /\ \A j \in 1 .. n : F[j] \in [[0 .. m - 1 -> Int] -> [0 .. m - 1 -> Int]]
      /\ \A j \in 1 .. n : \A line \in [0 .. m - 1 -> Int] :
           (\A x \in j .. m - 1 : line[x] = old[x]) => F[j][line] = [line EXCEPT ![j - 1] = T[j - 1]]
  BY DEF Rolls
<1> DEFINE S == [0 .. m - 1 -> Int]
<1>1. PICK g : Iterates(g, old, F, n) /\ \A i \in 0 .. n : g[i] \in S
  <2>1. old \in S /\ \A j \in 1 .. n : F[j] \in [S -> S]
    BY <1>0
  <2>2. n \in Nat
    BY <1>0
  <2> HIDE DEF S
  <2> QED BY <2>1, <2>2, IteratesIn
<1>2. \A i \in 0 .. n : g[i] = IF i = 0 THEN old ELSE F[i][g[i - 1]]
  BY <1>1, Zenon DEF Iterates
<1> DEFINE P == {i \in Nat : i <= n => \A x \in 0 .. m - 1 : g[i][x] = IF x < i THEN T[x] ELSE old[x]}
<1>3. 0 \in P
  <2>1. g[0] = old
    BY <1>0, <1>2
  <2> QED BY <1>0, <2>1
<1>4. ASSUME NEW i \in Nat, i \in P PROVE i + 1 \in P
  <2> SUFFICES ASSUME i + 1 <= n, NEW x \in 0 .. m - 1
               PROVE  g[i + 1][x] = IF x < i + 1 THEN T[x] ELSE old[x]
    OBVIOUS
  <2>1. i + 1 \in 1 .. n /\ i + 1 \in 0 .. n /\ i \in 0 .. n /\ (i + 1) - 1 = i /\ i + 1 # 0 /\ i \in 0 .. m - 1
    BY <1>0
  <2>2. \A y \in 0 .. m - 1 : g[i][y] = IF y < i THEN T[y] ELSE old[y]
    BY <1>4, <2>1
  <2>3. g[i] \in S
    BY <1>1, <2>1
  <2>4. \A y \in i + 1 .. m - 1 : g[i][y] = old[y]
    BY <1>0, <2>1, <2>2
  <2>5. F[i + 1][g[i]] = [g[i] EXCEPT ![(i + 1) - 1] = T[(i + 1) - 1]]
    BY <1>0, <2>1, <2>3, <2>4
  <2>6. g[i + 1] = [g[i] EXCEPT ![i] = T[i]]
    BY <1>2, <2>1, <2>5
  <2>7. CASE x = i
    BY <1>0, <2>1, <2>3, <2>6, <2>7
  <2>8. CASE x # i
    <3>1. g[i + 1][x] = g[i][x]
      BY <1>0, <2>3, <2>6, <2>8
    <3>2. x < i + 1 <=> x < i
      BY <2>8
    <3> QED BY <2>2, <3>1, <3>2
  <2> QED BY <2>7, <2>8
<1> HIDE DEF P
<1>5. Nat \subseteq P
  BY <1>3, <1>4, NatInduct, Zenon
<1>6. \A x \in 0 .. m - 1 : g[n][x] = IF x < n THEN T[x] ELSE old[x]
  BY <1>0, <1>5 DEF P
<1> QED BY <1>1, <1>6 DEF RolledTo

(* The line rolled by a draft: its last inputs, from the next row on.      *)
LEMMA RolledIs ==
  ASSUME Underway, NEW k \in ChainIds, NEW b \in Entries(call.chains[k]), NEW s \in Seqs,
         EntryOK(call.chains[k], b, s), call.chains[k].path = "spec"
  PROVE  LET line == RolledLine(call.chains[k], b)
             old  == conv[SlotsOf(s)[0]]
         IN /\ line \in [0 .. StateLen - 1 -> Int]
            /\ \A x \in 0 .. Width - 3 : line[x] = old[(acc[s] - 1) + (x + 1)]
            /\ \A i \in 1 .. Len(Fed(s)) : line[Width - 3 + i] = Fed(s)[i]
<1> DEFINE c == call.chains[k]
           old == conv[SlotsOf(s)[0]]
           drafts == c.start[b + 1] - c.start[b]
           length == StateLen - (NumSpec - drafts)
           hist == length - drafts
           a == acc[s] - 1
           roll(line, j) == [line EXCEPT ![j - 1] =
             IF j - 1 < hist THEN line[InitRow(c, b) + j] ELSE Input(c, c.start[b] + j - 1 - hist)]
           S == [0 .. StateLen - 1 -> Int]
           T == [x \in 0 .. StateLen - 1 |-> IF x < length THEN (IF x < hist THEN old[a + (x + 1)] ELSE Fed(s)[x - hist + 1]) ELSE 0]
           F == [j \in 1 .. length |-> [line \in S |-> roll(line, j)]]
<1>0. /\ ChainOK(c) /\ FeedOK /\ WorkType /\ InCall /\ Fed(s) \in Seq(Int)
      /\ Len(Fed(s)) \in Nat \ {0} /\ SlotsOf(s)[0] \in Slots /\ old \in S
      /\ c.slot[b] = SlotsOf(s) /\ acc[s] \in 1 .. NumSpec
  BY EntryBasics
<1>c. ChainOK(c) /\ FeedOK /\ InCall /\ b \in Entries(c) /\ EntryOK(c, b, s)
  BY <1>0
<1>1. InitRow(c, b) = a /\ a \in 0 .. NumSpec - 1 /\ Len(Fed(s)) <= NumSpec
  <2>1. c.acc[b] = acc[s] /\ Len(Fed(s)) <= NumSpec
    BY DEF EntryOK
  <2>2. acc[s] \in Nat /\ ~(acc[s] - 1 < 0) /\ a \in 0 .. NumSpec - 1
    <3>1. PICK y \in 1 .. NumSpec : y = acc[s]
      BY <1>0
    <3>2. y \in Nat /\ ~(y - 1 < 0) /\ y - 1 \in 0 .. NumSpec - 1
      BY <3>1, Sizes
    <3> QED BY <3>1, <3>2
  <2> QED BY <2>1, <2>2 DEF InitRow
<1>2. c.start[b] \in Nat /\ c.start[b + 1] = c.start[b] + Len(Fed(s))
      /\ \A i \in 1 .. Len(Fed(s)) : Input(c, c.start[b] + i - 1) = Fed(s)[i] /\ Fed(s)[i] \in Int
  <2> HIDE DEF c
  <2> QED BY <1>c, EntryFacts, InputIs
<1>3. PICK d \in Nat, x0 \in Nat : d = Len(Fed(s)) /\ x0 = c.start[b]
  BY <1>0, <1>2
<1>4. /\ drafts = d /\ length = (Width - 2) + d /\ hist = Width - 2 /\ d <= NumSpec /\ d >= 1
      /\ StateLen = (Width - 2) + NumSpec /\ StateLen \in Nat /\ Width \in Nat /\ Width >= 2 /\ length \in 0 .. StateLen
      /\ NumSpec \in Nat
  <2>1. /\ StateLen = (Width - 2) + NumSpec /\ StateLen \in Nat /\ Width \in Nat /\ Width >= 2 /\ NumSpec \in Nat
    BY Sizes
  <2>2. d <= NumSpec /\ d >= 1
    BY <1>0, <1>1, <1>3
  <2>3. c.start[b + 1] = x0 + d
    BY <1>2, <1>3
  <2>4. drafts = (x0 + d) - x0
    BY <1>3, <2>3
  <2>5. drafts = d
    BY <2>4
  <2> QED BY <2>1, <2>2, <2>5
<1>5. \A j \in 1 .. length : ~(j - 1 < hist) =>
         Input(c, c.start[b] + j - 1 - hist) = Fed(s)[(j - 1) - hist + 1] /\ Fed(s)[(j - 1) - hist + 1] \in Int
  <2> SUFFICES ASSUME NEW j \in 1 .. length, ~(j - 1 < hist)
               PROVE Input(c, c.start[b] + j - 1 - hist) = Fed(s)[(j - 1) - hist + 1] /\ Fed(s)[(j - 1) - hist + 1] \in Int
    OBVIOUS
  <2> DEFINE i == (j - 1) - hist + 1
  <2> HIDE DEF length, hist, drafts
  <2>1. i \in 1 .. d /\ x0 + j - 1 - hist = x0 + i - 1
    BY <1>4
  <2> HIDE DEF i
  <2>2. Input(c, x0 + i - 1) = Fed(s)[i] /\ Fed(s)[i] \in Int
    BY <1>2, <1>3, <2>1
  <2> QED BY <1>3, <2>1, <2>2 DEF i
<1>6. \A x \in 0 .. length - 1 : x < hist => a + (x + 1) \in 0 .. StateLen - 1
  <2> HIDE DEF a, length, hist
  <2> QED BY <1>1, <1>4
<1>7. T \in S
  <2> SUFFICES ASSUME NEW x \in 0 .. StateLen - 1
               PROVE (IF x < length THEN (IF x < hist THEN old[a + (x + 1)] ELSE Fed(s)[x - hist + 1]) ELSE 0) \in Int
    OBVIOUS
  <2>1. CASE x < length /\ x < hist
    <3>1. a + (x + 1) \in 0 .. StateLen - 1
      BY <1>4, <1>6, <2>1
    <3> QED BY <1>0, <2>1, <3>1
  <2>2. CASE x < length /\ ~(x < hist)
    <3>1. x + 1 \in 1 .. length /\ (x + 1) - 1 = x
      BY <1>4, <2>2
    <3>2. Fed(s)[((x + 1) - 1) - hist + 1] \in Int
      BY <1>5, <2>2, <3>1
    <3> QED BY <2>2, <3>1, <3>2
  <2> QED BY <2>1, <2>2
<1>8. ASSUME NEW j \in 1 .. length, NEW line \in S
      PROVE  (IF j - 1 < hist THEN line[InitRow(c, b) + j] ELSE Input(c, c.start[b] + j - 1 - hist)) \in Int
             /\ roll(line, j) \in S
  <2>1. CASE j - 1 < hist
    <3>1. j - 1 \in 0 .. length - 1 /\ (j - 1) + 1 = j
      BY <1>4
    <3>2. InitRow(c, b) + j \in 0 .. StateLen - 1
      BY <1>1, <1>6, <2>1, <3>1
    <3> QED BY <2>1, <3>2
  <2>2. CASE ~(j - 1 < hist)
    BY <1>5, <2>2
  <2> QED BY <2>1, <2>2
<1>9. \A j \in 1 .. length : F[j] \in [S -> S]
  BY <1>8
<1>10. ASSUME NEW j \in 1 .. length, NEW line \in S, \A x \in j .. StateLen - 1 : line[x] = old[x]
       PROVE  F[j][line] = [line EXCEPT ![j - 1] = T[j - 1]]
  <2>0. j - 1 \in 0 .. StateLen - 1 /\ j - 1 < length /\ j - 1 \in 0 .. length - 1 /\ (j - 1) + 1 = j
    BY <1>4
  <2>1. F[j][line] = roll(line, j)
    OBVIOUS
  <2>2. CASE j - 1 < hist
    <3>1. a + j \in 0 .. StateLen - 1
      BY <1>6, <2>0, <2>2
    <3>2. a + j \in j .. StateLen - 1
      BY <1>1, <3>1
    <3>3. line[InitRow(c, b) + j] = T[j - 1]
      BY <1>1, <1>10, <2>0, <2>2, <3>2
    <3> QED BY <2>1, <2>2, <3>3
  <2>3. CASE ~(j - 1 < hist)
    <3>1. Input(c, c.start[b] + j - 1 - hist) = T[j - 1]
      BY <1>5, <2>0, <2>3
    <3> QED BY <2>1, <2>3, <3>1
  <2> QED BY <2>2, <2>3
<1> HIDE DEF T, F
<1>11. PICK g : /\ Iterates(g, old, F, length) /\ \A i \in 0 .. length : g[i] \in S
                /\ \A x \in 0 .. StateLen - 1 : g[length][x] = IF x < length THEN T[x] ELSE old[x]
  <2>1. /\ StateLen \in Nat /\ length \in 0 .. StateLen
        /\ old \in [0 .. StateLen - 1 -> Int] /\ T \in [0 .. StateLen - 1 -> Int]
        /\ \A j \in 1 .. length : F[j] \in [[0 .. StateLen - 1 -> Int] -> [0 .. StateLen - 1 -> Int]]
    BY <1>0, <1>4, <1>7, <1>9
  <2>2. \A j \in 1 .. length : \A line \in [0 .. StateLen - 1 -> Int] :
          (\A x \in j .. StateLen - 1 : line[x] = old[x]) => F[j][line] = [line EXCEPT ![j - 1] = T[j - 1]]
    BY <1>10
  <2>3. Rolls(F, StateLen, length, old, T)
    BY <2>1, <2>2 DEF Rolls
  <2> HIDE DEF length, old
  <2>4. \E g : RolledTo(g, F, StateLen, length, old, T)
    BY <2>3, Rolling
  <2> QED BY <2>4 DEF RolledTo
<1> DEFINE rolled[j \in 0 .. length] == IF j = 0 THEN old ELSE roll(rolled[j - 1], j)
<1>12. g = [j \in 0 .. length |-> IF j = 0 THEN old ELSE roll(g[j - 1], j)]
  <2>1. g = [j \in 0 .. length |-> IF j = 0 THEN old ELSE F[j][g[j - 1]]]
    BY <1>11 DEF Iterates
  <2>2. ASSUME NEW j \in 0 .. length, j # 0 PROVE F[j][g[j - 1]] = roll(g[j - 1], j)
    <3>1. j \in 1 .. length /\ j - 1 \in 0 .. length
      BY <1>4, <2>2
    <3> QED BY <1>11, <3>1 DEF F
  <2> HIDE DEF length, roll
  <2> QED BY <2>1, <2>2
<1>13. rolled = [j \in 0 .. length |-> IF j = 0 THEN old ELSE roll(rolled[j - 1], j)]
  <2> HIDE DEF length, old, roll
  <2>1. \E r : r = [j \in 0 .. length |-> IF j = 0 THEN old ELSE roll(r[j - 1], j)]
    BY <1>12
  <2> QED BY <2>1, Zenon
<1> HIDE DEF rolled
<1>14. rolled[length] = g[length]
  <2> DEFINE P == {j \in Nat : j <= length => rolled[j] = g[j]}
  <2>0. length \in Nat
    BY <1>4
  <2> HIDE DEF length, old, roll
  <2>a. \A j \in 0 .. length : rolled[j] = IF j = 0 THEN old ELSE roll(rolled[j - 1], j)
    BY <1>13, Zenon
  <2>b. \A j \in 0 .. length : g[j] = IF j = 0 THEN old ELSE roll(g[j - 1], j)
    BY <1>12, Zenon
  <2>1. 0 \in P
    BY <2>0, <2>a, <2>b
  <2>2. ASSUME NEW j \in Nat, j \in P PROVE j + 1 \in P
    <3> SUFFICES ASSUME j + 1 <= length PROVE rolled[j + 1] = g[j + 1]
      OBVIOUS
    <3>1. j + 1 \in 0 .. length /\ (j + 1) - 1 = j /\ j + 1 # 0 /\ rolled[j] = g[j]
      BY <2>0, <2>2
    <3>2. rolled[j + 1] = roll(rolled[j], j + 1)
      BY <2>a, <3>1
    <3>3. g[j + 1] = roll(g[j], j + 1)
      BY <2>b, <3>1
    <3> QED BY <3>1, <3>2, <3>3
  <2> HIDE DEF P
  <2>3. Nat \subseteq P
    BY <2>1, <2>2, NatInduct, Zenon
  <2> QED BY <2>0, <2>3 DEF P
<1>15. RolledLine(c, b) = rolled[length]
  BY <1>0 DEF RolledLine, rolled
<1>16. \A x \in 0 .. StateLen - 1 : RolledLine(c, b)[x] = IF x < length THEN T[x] ELSE old[x]
  BY <1>11, <1>14, <1>15
<1>17. RolledLine(c, b) \in S
  <2> HIDE DEF length
  <2>1. length \in 0 .. length
    BY <1>4
  <2> QED BY <1>11, <1>14, <1>15, <2>1
<1>18. \A x \in 0 .. Width - 3 : RolledLine(c, b)[x] = old[(acc[s] - 1) + (x + 1)]
  <2> SUFFICES ASSUME NEW x \in 0 .. Width - 3 PROVE RolledLine(c, b)[x] = old[(acc[s] - 1) + (x + 1)]
    OBVIOUS
  <2>1. x \in 0 .. StateLen - 1 /\ x < length /\ x < hist
    BY <1>4
  <2> QED BY <1>16, <2>1 DEF T
<1>19. \A i \in 1 .. Len(Fed(s)) : RolledLine(c, b)[Width - 3 + i] = Fed(s)[i]
  <2> SUFFICES ASSUME NEW i \in 1 .. d PROVE RolledLine(c, b)[Width - 3 + i] = Fed(s)[i]
    BY <1>3
  <2>1. Width - 3 + i \in 0 .. StateLen - 1 /\ Width - 3 + i < length /\ ~(Width - 3 + i < hist)
        /\ (Width - 3 + i) - hist + 1 = i
    BY <1>4
  <2> QED BY <1>16, <2>1 DEF T
<1> QED BY <1>17, <1>18, <1>19

(* The window of a draft starts at the last accepted row.                  *)
LEMMA DraftWindow ==
  ASSUME Underway, NEW k \in ChainIds, NEW b \in Entries(call.chains[k]), NEW s \in Seqs,
         EntryOK(call.chains[k], b, s), call.chains[k].path = "spec",
         LineHolds(conv[SlotsOf(s)[0]], acc[s], said[s]), NEW i \in 1 .. Len(Fed(s))
  PROVE  [win |-> SpecWindow(call.chains[k], b, i - 1), ba |-> Input(call.chains[k], call.chains[k].start[b] + i - 1)]
           = RowFor(said[s], Fed(s), i)
<1> DEFINE c == call.chains[k]
           line == conv[SlotsOf(s)[0]]
           h == said[s]
           f == Fed(s)
           a == acc[s]
<1>0. /\ ChainOK(c) /\ FeedOK /\ WorkType /\ InCall /\ h \in Seq(Int) /\ f \in Seq(Int)
      /\ Len(f) \in Nat \ {0} /\ c.slot[b] = SlotsOf(s) /\ a \in 1 .. NumSpec
  BY EntryBasics
<1>c. ChainOK(c) /\ FeedOK /\ InCall /\ b \in Entries(c) /\ EntryOK(c, b, s)
  BY <1>0
<1>1. InitRow(c, b) = a - 1 /\ a \in Nat /\ a >= 1
  <2>1. c.acc[b] = acc[s]
    BY DEF EntryOK
  <2>2. a \in Nat /\ a >= 1 /\ ~(a - 1 < 0)
    <3>1. PICK y \in 1 .. NumSpec : y = a
      BY <1>0
    <3> QED BY <3>1
  <2> QED BY <2>1, <2>2 DEF InitRow
<1>2. c.start[b] \in Nat /\ \A j \in 1 .. Len(f) : Input(c, c.start[b] + j - 1) = f[j]
  <2> HIDE DEF c
  <2> QED BY <1>c, EntryFacts, InputIs
<1>3. c.slot[b][0] # Pad /\ c.slot[b][0] = SlotsOf(s)[0]
  BY <1>0, SlotFacts
<1>4. Width \in Nat /\ Width >= 2 /\ Len(h) \in Nat /\ i \in Nat /\ 1 <= i /\ i <= Len(f)
  BY <1>0, Sizes, LenProperties
<1>5. SpecWindow(c, b, i - 1) =
        [j \in 1 .. Width |-> IF j + (i - 1) < Width THEN line[(a - 1) + (j + (i - 1)) - 1]
                              ELSE Input(c, c.start[b] + j + (i - 1) - Width)]
  BY <1>1, <1>3 DEF SpecWindow
<1>6. ASSUME NEW j \in 1 .. Width
      PROVE  (IF j + (i - 1) < Width THEN line[(a - 1) + (j + (i - 1)) - 1]
              ELSE Input(c, c.start[b] + j + (i - 1) - Width)) = Nth(h \o f, (Len(h) + i) - Width + j)
  <2>j. j \in Nat /\ 1 <= j /\ j <= Width
    BY <1>4
  <2>1. CASE j + (i - 1) < Width
    <3> DEFINE x == j + i - 2
    <3>1. x \in 0 .. Width - 2 /\ (a - 1) + (j + (i - 1)) - 1 = a - 1 + x
          /\ Len(h) - Width + x + 2 = (Len(h) + i) - Width + j
      <4> HIDE DEF a, h, f, c, line
      <4> QED BY <1>1, <1>4, <2>j, <2>1
    <3> HIDE DEF x
    <3>2. line[a - 1 + x] = Nth(h, Len(h) - Width + x + 2)
      BY <3>1 DEF LineHolds
    <3>3. Nth(h, (Len(h) + i) - Width + j) = Nth(h \o f, (Len(h) + i) - Width + j)
      <4> DEFINE y == (Len(h) + i) - Width + j
      <4>1. y \in Int /\ y <= Len(h) /\ y <= Len(h) + 0 /\ 0 \in 0 .. Len(f)
        <5>1. PICK n \in Nat, m \in Nat : n = Len(f) /\ m = Len(h)
          BY <1>0, <1>4
        <5> HIDE DEF a, h, f, c, line
        <5>2. (m + i) - Width + j \in Int /\ (m + i) - Width + j <= m /\ (m + i) - Width + j <= m + 0 /\ 0 \in 0 .. n
          BY <1>4, <2>j, <2>1, <5>1
        <5> QED BY <5>1, <5>2
      <4> HIDE DEF y
      <4>2. Nth(h, y) = Nth(h \o f, y)
        BY <1>0, <4>1, NthPrefix
      <4> QED BY <4>2 DEF y
    <3> QED BY <2>1, <3>1, <3>2, <3>3
  <2>2. CASE ~(j + (i - 1) < Width)
    <3> DEFINE y == i - Width + j
    <3>1. PICK x \in Nat, n \in Nat : x = c.start[b] /\ n = Len(f)
      BY <1>0, <1>2
    <3>2. y \in 1 .. n /\ x + j + (i - 1) - Width = x + y - 1 /\ (Len(h) + i) - Width + j = Len(h) + y /\ ~(Len(h) + y < 1)
      <4> HIDE DEF a, h, f, c, line
      <4>1. n \in Nat /\ i <= n
        BY <1>4, <3>1
      <4>2. x \in Nat
        BY <3>1
      <4>3. Len(h) \in Nat /\ i \in Nat /\ j \in Nat /\ Width \in Nat /\ j <= Width /\ j + i - 1 >= Width
        BY <1>4, <2>j, <2>2
      <4>4. y \in 1 .. n
        BY <4>1, <4>3
      <4>5. x + j + (i - 1) - Width = x + y - 1
        BY <4>2, <4>3
      <4>6. (Len(h) + i) - Width + j = Len(h) + y /\ ~(Len(h) + y < 1)
        BY <4>3, <4>4
      <4> QED BY <4>4, <4>5, <4>6
    <3> HIDE DEF y
    <3>3. Input(c, x + y - 1) = f[y]
      BY <1>2, <3>1, <3>2
    <3>4. (h \o f)[Len(h) + y] = f[y]
      BY <1>0, <3>1, <3>2, Joined
    <3>5. Nth(h \o f, Len(h) + y) = f[y]
      BY <3>2, <3>4 DEF Nth
    <3> QED BY <2>2, <3>1, <3>2, <3>3, <3>5
  <2> QED BY <2>1, <2>2
<1>7. SpecWindow(c, b, i - 1) = Win(h \o f, Len(h) + i)
  <2> HIDE DEF c, line, h, f, a
  <2> QED BY <1>5, <1>6 DEF Win
<1> QED BY <1>2, <1>7 DEF RowFor

(* The line after the window has rolled over the draft.                    *)
RollsOver(line, old, a, f) ==
  /\ \A x \in 0 .. Width - 3 : line[x] = old[(a - 1) + (x + 1)]
  /\ \A i \in 1 .. Len(f) : line[Width - 3 + i] = f[i]

LEMMA DraftLine ==
  ASSUME NEW h \in Seq(Int), NEW f \in Seq(Int), NEW a \in Nat \ {0}, NEW old, NEW line, LineHolds(old, a, h),
         RollsOver(line, old, a, f), NEW j \in 1 .. (Width - 2) + Len(f)
  PROVE  line[j - 1] = Nth(h \o f, Len(h) - Width + 2 + j)
<1>0. /\ \A x \in 0 .. Width - 3 : line[x] = old[(a - 1) + (x + 1)]
      /\ \A i \in 1 .. Len(f) : line[Width - 3 + i] = f[i]
  BY DEF RollsOver
<1>1. Width \in Nat /\ Width >= 2 /\ Len(h) \in Nat /\ Len(f) \in Nat /\ j \in Nat /\ 1 <= j /\ j <= (Width - 2) + Len(f)
  BY Sizes, LenProperties
<1>2. CASE j <= Width - 2
  <2>1. j - 1 \in 0 .. Width - 3 /\ (j - 1) + 1 = j /\ j \in 0 .. Width - 2
    BY <1>1, <1>2
  <2>2. line[j - 1] = old[(a - 1) + j]
    BY <1>0, <2>1
  <2>3. old[a - 1 + j] = Nth(h, Len(h) - Width + j + 2)
    BY <2>1 DEF LineHolds
  <2> DEFINE y == Len(h) - Width + 2 + j
  <2>4. y \in Int /\ y <= Len(h) /\ y <= Len(h) + 0 /\ 0 \in 0 .. Len(f) /\ Len(h) - Width + j + 2 = y
    BY <1>1, <1>2
  <2> HIDE DEF y
  <2>5. Nth(h, y) = Nth(h \o f, y)
    BY <2>4, NthPrefix
  <2> QED BY <2>2, <2>3, <2>4, <2>5 DEF y
<1>3. CASE ~(j <= Width - 2)
  <2> DEFINE i == j - (Width - 2)
  <2>1. i \in 1 .. Len(f) /\ j - 1 = Width - 3 + i /\ Len(h) - Width + 2 + j = Len(h) + i /\ ~(Len(h) + i < 1)
    BY <1>1, <1>3
  <2> HIDE DEF i
  <2>2. line[Width - 3 + i] = f[i] /\ (h \o f)[Len(h) + i] = f[i]
    BY <1>0, <2>1, Joined
  <2> QED BY <2>1, <2>2 DEF Nth
<1> QED BY <1>2, <1>3

LEMMA SpecViews ==
  ASSUME Underway, NEW e, NEW k, NEW b, Runs(e, k, b), b \in Entries(call.chains[k]), NEW s \in Seqs,
         EntryOK(call.chains[k], b, s), e \in KernelsOf("spec"), EntryInv(k, b, s)
  PROVE  /\ call.chains[k].path = "spec"
         /\ SpecInv(View(k, b, s), said[s], Fed(s), acc[s])
         /\ SpecInv(View(k, b, s)', said[s], Fed(s), acc[s]) => EntryInv(k, b, s)'
         /\ View(k, b, s).did[e] = {} /\ View(k, b, s)'.did[e] = 1 .. Len(Fed(s))
         /\ \A f \in KernelsOf("spec") :
              /\ f # e => View(k, b, s)'.did[f] = View(k, b, s).did[f]
              /\ Stage(f) < Stage(e) => View(k, b, s).did[f] = 1 .. Len(Fed(s))
              /\ Stage(e) < Stage(f) => View(k, b, s).did[f] = {}
<1>h. /\ call' = call /\ said' = said /\ acc' = acc /\ k \in ChainIds /\ e \in Kernel
      /\ e \in KernelsOf(call.chains[k].path) /\ call.chains[k].path \in {"spec", "native", "chunk"}
  BY AtWork
<1>p. call.chains[k].path = "spec"
  BY <1>h DEF KernelsOf
<1>i. SpecInv(View(k, b, s), said[s], Fed(s), acc[s])
  BY <1>p DEF EntryInv
<1>j. SpecInv(View(k, b, s)', said[s], Fed(s), acc[s]) => EntryInv(k, b, s)'
  BY <1>h, <1>p DEF EntryInv, Fed
<1>k. e \notin PerToken /\ \A f \in KernelsOf("spec") : f \in Kernel
  BY DEF KernelsOf, PerToken, Kernel
<1>1. View(k, b, s).did[e] = {} /\ View(k, b, s)'.did[e] = 1 .. Len(Fed(s))
  BY <1>k, EntryViews
<1>d. \A f \in KernelsOf("spec") : View(k, b, s).did[f] = Did(f, k, b, s) /\ View(k, b, s)'.did[f] = Did(f, k, b, s)'
  <2>1. \A f \in Kernel : View(k, b, s).did[f] = Did(f, k, b, s)
    BY Viewed
  <2>2. \A f \in Kernel : View(k, b, s)'.did[f] = Did(f, k, b, s)'
    BY <1>h, ViewedNext
  <2> QED BY <1>k, <2>1, <2>2
<1>s. DidStep(e, k, b, b, s)
  BY <1>h, DidRun
<1>2. \A f \in Kernel \ {e} : Did(f, k, b, s)' = Did(f, k, b, s)
  BY <1>s DEF DidStep
<1>3. /\ \A f \in KernelsOf(call.chains[k].path) : Stage(f) < Stage(e) => Did(f, k, b, s) = 1 .. Len(Fed(s))
      /\ \A f \in KernelsOf(call.chains[k].path) : Stage(e) < Stage(f) => Did(f, k, b, s) = {}
  BY <1>s DEF DidStep
<1>4. \A f \in KernelsOf("spec") :
        /\ Stage(f) < Stage(e) => Did(f, k, b, s) = 1 .. Len(Fed(s))
        /\ Stage(e) < Stage(f) => Did(f, k, b, s) = {}
  BY <1>3, <1>p
<1>5. \A f \in KernelsOf("spec") : f # e => Did(f, k, b, s)' = Did(f, k, b, s)
  BY <1>k, <1>2
<1> HIDE DEF View, Did
<1>6. \A f \in KernelsOf("spec") :
              /\ f # e => View(k, b, s)'.did[f] = View(k, b, s).did[f]
              /\ Stage(f) < Stage(e) => View(k, b, s).did[f] = 1 .. Len(Fed(s))
              /\ Stage(e) < Stage(f) => View(k, b, s).did[f] = {}
  BY <1>d, <1>4, <1>5
<1> QED BY <1>p, <1>i, <1>j, <1>1, <1>6

LEMMA TokenAt ==
  ASSUME NEW c, ChainOK(c), InCall, FeedOK, NEW b \in Entries(c), NEW s \in Seqs, EntryOK(c, b, s)
  PROVE  /\ \A i \in 1 .. Len(Fed(s)) : /\ c.start[b] + i - 1 \in c.start[b] .. c.start[b + 1] - 1
                                        /\ (c.start[b] + i - 1) - c.start[b] = i - 1
                                        /\ (c.start[b] + i - 1) - c.start[b] + 1 = i
         /\ \A t \in c.start[b] .. c.start[b + 1] - 1 : \E i \in 1 .. Len(Fed(s)) : t = c.start[b] + i - 1
<1>1. /\ c.start[b] \in Nat /\ c.start[b + 1] = c.start[b] + Len(Fed(s)) /\ Len(Fed(s)) \in Nat
      /\ \A i \in 1 .. Len(Fed(s)) : c.start[b] + i - 1 \in c.start[b] .. c.start[b + 1] - 1
  BY EntryFacts
<1>2. PICK x \in Nat, n \in Nat : x = c.start[b] /\ n = Len(Fed(s)) /\ c.start[b + 1] = x + n
  BY <1>1
<1>3. \A i \in 1 .. n : (x + i - 1) - x = i - 1 /\ (x + i - 1) - x + 1 = i
  OBVIOUS
<1>4. \A t \in x .. (x + n) - 1 : (t - x) + 1 \in 1 .. n /\ t = x + ((t - x) + 1) - 1
  OBVIOUS
<1> QED BY <1>1, <1>2, <1>3, <1>4

(* causal_conv1d_spec, for an entry.                                       *)
LEMMA SpecConv ==
  ASSUME Underway, NEW k, NEW w, Runs("causal_conv1d_spec", k, w), NEW b \in Entries(call.chains[k]), NEW s \in Seqs,
         EntryOK(call.chains[k], b, s), w = b, EntryInv(k, b, s), CausalConv1dSpec(k, w)
  PROVE  Only(k, b, s) /\ EntryInv(k, b, s)'
<1> DEFINE c == call.chains[k]
           e == "causal_conv1d_spec"
           v == View(k, b, s)
           u == View(k, b, s)'
           h == said[s]
           f == Fed(s)
           mine == c.start[b] .. c.start[b + 1] - 1
           new == [t \in 0 .. Height(c) - 1 |->
                     IF t \in mine THEN [win |-> SpecWindow(c, b, t - c.start[b]), ba |-> Input(c, t)] ELSE mid[k][t]]
<1>h. /\ call' = call /\ said' = said /\ UNCHANGED <<call, said, acc, spec, calls>> /\ k \in ChainIds
      /\ e \in Kernel
  BY AtWork
<1>0. /\ ChainOK(c) /\ FeedOK /\ WorkType /\ InCall /\ h \in Seq(Int) /\ f \in Seq(Int)
      /\ Len(f) \in Nat \ {0} /\ SlotsOf(s)[0] \in Slots /\ acc[s] \in 1 .. NumSpec
      /\ c.slot[b] = SlotsOf(s) /\ mid[k] \in [0 .. Height(c) - 1 -> Row]
  BY <1>h, EntryBasics
<1>c. ChainOK(c) /\ FeedOK /\ InCall /\ b \in Entries(c) /\ EntryOK(c, b, s)
  BY <1>0
<1>e. e \in KernelsOf("spec") /\ "gated_delta_rule_spec" \in KernelsOf("spec")
      /\ Stage(e) < Stage("gated_delta_rule_spec") /\ e # "gated_delta_rule_spec"
  BY DEF KernelsOf, Stage
<1>1. /\ c.path = "spec" /\ SpecInv(v, h, f, acc[s])
      /\ SpecInv(u, h, f, acc[s]) => EntryInv(k, b, s)'
      /\ v.did[e] = {} /\ u.did[e] = 1 .. Len(f)
      /\ u.did["gated_delta_rule_spec"] = {} /\ v.did["gated_delta_rule_spec"] = {}
  <2> HIDE DEF e
  <2>0. Runs(e, k, b)
    BY DEF e
  <2>1. /\ call.chains[k].path = "spec"
        /\ SpecInv(View(k, b, s), said[s], Fed(s), acc[s])
        /\ SpecInv(View(k, b, s)', said[s], Fed(s), acc[s]) => EntryInv(k, b, s)'
        /\ View(k, b, s).did[e] = {} /\ View(k, b, s)'.did[e] = 1 .. Len(Fed(s))
    BY <1>e, <2>0, SpecViews
  <2>2. \A g \in KernelsOf("spec") :
              /\ g # e => View(k, b, s)'.did[g] = View(k, b, s).did[g]
              /\ Stage(e) < Stage(g) => View(k, b, s).did[g] = {}
    BY <1>e, <2>0, SpecViews
  <2> HIDE DEF View
  <2> QED BY <1>e, <2>1, <2>2
<1>2. /\ \A i \in 1 .. Len(f) : /\ c.start[b] + i - 1 \in mine /\ (c.start[b] + i - 1) - c.start[b] = i - 1
                                /\ c.indx[c.start[b] + i - 1] = call.at[s] + i - 1
                                /\ call.at[s] + i - 1 \in 0 .. Len(call.tokens) - 1
                                /\ Input(c, c.start[b] + i - 1) = f[i] /\ f[i] \in Int
                                /\ RowAt(c, b, i) = c.start[b] + i - 1 /\ RowAt(c, b, i) \in 0 .. Height(c) - 1
      /\ \A t \in mine : \E i \in 1 .. Len(f) : t = c.start[b] + i - 1
  <2> HIDE DEF c
  <2>1. /\ \A i \in 1 .. Len(Fed(s)) : /\ c.start[b] + i - 1 \in c.start[b] .. c.start[b + 1] - 1
                                        /\ (c.start[b] + i - 1) - c.start[b] = i - 1
        /\ \A t \in c.start[b] .. c.start[b + 1] - 1 : \E i \in 1 .. Len(Fed(s)) : t = c.start[b] + i - 1
    BY <1>c, TokenAt
  <2>2. \A i \in 1 .. Len(Fed(s)) : /\ c.indx[c.start[b] + i - 1] = call.at[s] + i - 1
                                    /\ call.at[s] + i - 1 \in 0 .. Len(call.tokens) - 1
                                    /\ Input(c, c.start[b] + i - 1) = Fed(s)[i] /\ Fed(s)[i] \in Int
    BY <1>c, InputIs
  <2>3. \A i \in 1 .. Len(Fed(s)) : RowAt(c, b, i) = c.start[b] + i - 1 /\ RowAt(c, b, i) \in 0 .. Height(c) - 1
    <3>1. \A i \in 1 .. Len(Fed(s)) : RowAt(c, b, i) \in 0 .. Height(c) - 1
      BY <1>c, RowFacts
    <3> QED BY <1>1, <3>1 DEF RowAt
  <2> QED BY <2>1, <2>2, <2>3
<1>v. /\ v.line = conv[SlotsOf(s)[0]] /\ \A j \in 0 .. NumSpec - 1 : v.cols[j] = ssm[SlotsOf(s)[j]]
  BY Viewed
<1>u. /\ u.line = conv'[SlotsOf(s)[0]] /\ \A j \in 0 .. NumSpec - 1 : u.cols[j] = ssm'[SlotsOf(s)[j]]
      /\ \A j \in 1 .. Len(f) : u.rows[j] = mid'[k][RowAt(c, b, j)] /\ u.zs[j] = z'[call.at[s] + j - 1]
  <2>1. /\ u.line = conv'[SlotsOf(s)[0]] /\ \A j \in 0 .. NumSpec - 1 : u.cols[j] = ssm'[SlotsOf(s)[j]]
    BY <1>h, ViewedNext
  <2>2. \A i \in 1 .. Len(Fed(s)) : /\ View(k, b, s)'.rows[i] = mid'[k][RowAt(call.chains[k], b, i)]
                                    /\ View(k, b, s)'.outs[i] = out'[call.at[s] + i - 1]
                                    /\ View(k, b, s)'.zs[i] = z'[call.at[s] + i - 1]
    BY <1>h, ViewedNext
  <2> QED BY <2>1, <2>2
<1> HIDE DEF u, v
<1>3. /\ LineHolds(conv[SlotsOf(s)[0]], acc[s], h) /\ ssm[SlotsOf(s)[acc[s] - 1]] = Taken(h)
      /\ acc[s] \in Nat \ {0} /\ acc[s] - 1 \in 0 .. NumSpec - 1
  <2>1. acc[s] \in Nat \ {0} /\ acc[s] - 1 \in 0 .. NumSpec - 1
    <3>1. PICK y \in 1 .. NumSpec : y = acc[s]
      BY <1>0
    <3> QED BY <3>1, Sizes
  <2> QED BY <1>1, <1>v, <2>1 DEF SpecInv
<1>4. \A i \in 1 .. Len(f) : new[RowAt(c, b, i)] = RowFor(h, f, i) /\ RowFor(h, f, i) \in Row
  <2> SUFFICES ASSUME NEW i \in 1 .. Len(f) PROVE new[RowAt(c, b, i)] = RowFor(h, f, i) /\ RowFor(h, f, i) \in Row
    OBVIOUS
  <2>1. [win |-> SpecWindow(call.chains[k], b, i - 1), ba |-> Input(call.chains[k], call.chains[k].start[b] + i - 1)]
           = RowFor(said[s], Fed(s), i)
    BY <1>h, <1>1, <1>3, DraftWindow
  <2>2. RowFor(h, f, i) \in Row
    BY <1>0, RowForFacts
  <2> QED BY <1>2, <2>1, <2>2
<1>5. new \in [0 .. Height(c) - 1 -> Row]
  <2> SUFFICES ASSUME NEW t \in 0 .. Height(c) - 1 PROVE new[t] \in Row
    BY DEF new
  <2>1. CASE t \in mine
    <3>1. PICK i \in 1 .. Len(f) : t = RowAt(c, b, i)
      BY <1>2, <2>1
    <3> HIDE DEF new
    <3> QED BY <1>4, <3>1
  <2>2. CASE t \notin mine
    BY <1>0, <2>2
  <2> QED BY <2>1, <2>2
<1>6. \A y \in 0 .. Height(c) - 1 : (\A i \in 1 .. Len(f) : y # RowAt(c, b, i)) => new[y] = mid[k][y]
  <2> SUFFICES ASSUME NEW y \in 0 .. Height(c) - 1, \A i \in 1 .. Len(f) : y # RowAt(c, b, i) PROVE new[y] = mid[k][y]
    OBVIOUS
  <2>1. y \notin mine
    BY <1>2
  <2> QED BY <2>1
<1>7. /\ mid' = [mid EXCEPT ![k] = new]
      /\ z' = [g \in DOMAIN z |-> IF \E t \in mine : c.indx[t] = g THEN call.tokens[g + 1] ELSE z[g]]
      /\ conv' = [conv EXCEPT ![SlotsOf(s)[0]] = RolledLine(c, b)]
      /\ ssm' = ssm /\ tmp' = tmp /\ out' = out
  <2>1. DOMAIN mid[k] = 0 .. Height(c) - 1 /\ mid = [l \in ChainIds |-> mid[l]]
    BY <1>0 DEF WorkType
  <2>2. c.slot[b][0] # Pad /\ c.slot[b][0] = SlotsOf(s)[0]
    BY <1>0, SlotFacts
  <2>3. mid' = [mid EXCEPT ![k] = [t \in DOMAIN mid[k] |->
                  IF t \in mine THEN [win |-> SpecWindow(c, b, t - c.start[b]), ba |-> Input(c, t)]
                  ELSE mid[k][t]]]
    BY <1>h, <2>1 DEF CausalConv1dSpec
  <2> QED BY <2>1, <2>2, <2>3 DEF CausalConv1dSpec
<1> HIDE DEF new
<1>8. /\ mid' = [l \in ChainIds |-> mid'[l]] /\ mid'[k] = new
      /\ \A l \in ChainIds : mid'[l] \in [0 .. Height(call.chains[l]) - 1 -> Row]
      /\ \A l \in ChainIds : l # k => mid'[l] = mid[l]
  <2>1. mid = [l \in ChainIds |-> mid[l]] /\ \A l \in ChainIds : mid[l] \in [0 .. Height(call.chains[l]) - 1 -> Row]
    BY <1>0 DEF WorkType
  <2>2. mid' = [l \in ChainIds |-> IF l = k THEN new ELSE mid[l]]
    BY <1>7, <2>1
  <2> QED BY <1>h, <1>5, <2>1, <2>2
<1>9. /\ z' \in [0 .. Len(call.tokens) - 1 -> Int]
      /\ \A i \in 1 .. Len(f) : z'[call.at[s] + i - 1] = f[i]
      /\ \A g \in 0 .. Len(call.tokens) - 1 : (\A i \in 1 .. Len(f) : g # call.at[s] + i - 1) => z'[g] = z[g]
  <2>0. z \in [0 .. Len(call.tokens) - 1 -> Int]
    BY <1>0 DEF WorkType
  <2>1. ASSUME NEW g \in 0 .. Len(call.tokens) - 1, \A i \in 1 .. Len(f) : g # call.at[s] + i - 1
        PROVE  z'[g] = z[g]
    <3>1. ~\E t \in mine : c.indx[t] = g
      <4> SUFFICES ASSUME NEW t \in mine, c.indx[t] = g PROVE FALSE
        OBVIOUS
      <4>1. PICK i \in 1 .. Len(f) : t = c.start[b] + i - 1
        BY <1>2
      <4> QED BY <1>2, <2>1, <4>1
    <3> QED BY <1>7, <2>0, <3>1
  <2>2. ASSUME NEW i \in 1 .. Len(f) PROVE z'[call.at[s] + i - 1] = f[i]
    <3>1. \E t \in mine : c.indx[t] = call.at[s] + i - 1
      BY <1>2
    <3>2. call.tokens[(call.at[s] + i - 1) + 1] = f[i]
      BY <1>2 DEF Input
    <3> QED BY <1>2, <1>7, <2>0, <3>1, <3>2
  <2>3. ASSUME NEW g \in 0 .. Len(call.tokens) - 1 PROVE z'[g] \in Int
    <3>1. CASE \A i \in 1 .. Len(f) : g # call.at[s] + i - 1
      BY <2>0, <2>1, <3>1
    <3>2. CASE \E i \in 1 .. Len(f) : g = call.at[s] + i - 1
      BY <1>2, <2>2, <3>2
    <3> QED BY <3>1, <3>2
  <2>4. z' = [g \in 0 .. Len(call.tokens) - 1 |-> z'[g]]
    BY <1>7, <2>0
  <2> QED BY <2>1, <2>2, <2>3, <2>4
<1>10. LET line == RolledLine(c, b)
           old  == conv[SlotsOf(s)[0]]
       IN /\ line \in [0 .. StateLen - 1 -> Int]
          /\ \A x \in 0 .. Width - 3 : line[x] = old[(acc[s] - 1) + (x + 1)]
          /\ \A i \in 1 .. Len(Fed(s)) : line[Width - 3 + i] = Fed(s)[i]
  BY <1>h, <1>1, RolledIs
<1>11. \A j \in 1 .. (Width - 2) + Len(f) : RolledLine(c, b)[j - 1] = Nth(h \o f, Len(h) - Width + 2 + j)
  <2> DEFINE line == RolledLine(c, b)
             old  == conv[SlotsOf(s)[0]]
  <2>1. /\ LineHolds(old, acc[s], h) /\ acc[s] \in Nat \ {0} /\ h \in Seq(Int) /\ f \in Seq(Int)
        /\ RollsOver(line, old, acc[s], f)
    BY <1>0, <1>3, <1>10 DEF RollsOver
  <2> HIDE DEF line, old, h, f
  <2>2. \A j \in 1 .. (Width - 2) + Len(f) : line[j - 1] = Nth(h \o f, Len(h) - Width + 2 + j)
    BY <2>1, DraftLine
  <2> QED BY <2>2 DEF line
<1>12. /\ conv' \in [Slots -> [0 .. StateLen - 1 -> Int]] /\ \A x \in Slots : x # SlotsOf(s)[0] => conv'[x] = conv[x]
       /\ conv'[SlotsOf(s)[0]] = RolledLine(c, b)
  <2>1. conv \in [Slots -> [0 .. StateLen - 1 -> Int]] /\ RolledLine(c, b) \in [0 .. StateLen - 1 -> Int]
    BY <1>10 DEF Underway, GdnType
  <2> QED BY <1>0, <1>7, <2>1
<1>13. Only(k, b, s)
  <2>1. /\ ssm' \in [Slots \cup {Pad} -> Seq(Row)] /\ out' \in [0 .. Len(call.tokens) - 1 -> Seq(Row)]
        /\ tmp' = [l \in ChainIds |-> tmp'[l]]
        /\ \A l \in ChainIds : tmp'[l] \in [Entries(call.chains[l]) -> [0 .. Width - 2 -> Int]]
    BY <1>0, <1>7 DEF WorkType, Underway, GdnType
  <2>2. GdnType'
    BY <1>h, <1>8, <1>9, <1>12, <2>1, TypeNext
  <2>3. \A l \in ChainIds : \A x \in 0 .. Height(call.chains[l]) - 1 :
       (l = k => \A j \in 1 .. Len(Fed(s)) : x # RowAt(call.chains[k], b, j)) => mid'[l][x] = mid[l][x]
    BY <1>6, <1>8
  <2> QED BY <1>7, <1>9, <1>12, <2>2, <2>3 DEF Only
<1>14. SpecInv(u, h, f, acc[s])
  <2>1. u.did[e] # {}
    <3>1. 1 \in 1 .. Len(f)
      BY <1>0
    <3> QED BY <1>1, <3>1
  <2>2. \A i \in 1 .. Len(f) : u.rows[i] = RowFor(h, f, i) /\ u.zs[i] = f[i]
    BY <1>4, <1>8, <1>9, <1>u
  <2>3. \A j \in 1 .. Width - 2 + Len(f) : u.line[j - 1] = Nth(h \o f, Len(h) - Width + 2 + j)
    BY <1>11, <1>12, <1>u
  <2>4. u.cols[acc[s] - 1] = Taken(h)
    BY <1>3, <1>7, <1>u
  <2> QED BY <1>1, <2>1, <2>2, <2>3, <2>4 DEF SpecInv
<1> QED BY <1>1, <1>13, <1>14

(* gated_delta_rule_spec, for an entry.                                    *)
LEMMA SpecRule ==
  ASSUME Underway, NEW k, NEW w, Runs("gated_delta_rule_spec", k, w), NEW b \in Entries(call.chains[k]), NEW s \in Seqs,
         EntryOK(call.chains[k], b, s), w = b, EntryInv(k, b, s), GatedDeltaRuleSpec(k, w)
  PROVE  Only(k, b, s) /\ EntryInv(k, b, s)'
<1> DEFINE c == call.chains[k]
           e == "gated_delta_rule_spec"
           v == View(k, b, s)
           u == View(k, b, s)'
           h == said[s]
           f == Fed(s)
           row == c.start[b]
           mine == row .. c.start[b + 1] - 1
           state == Taken(h)
           nth(t) == After(k, row, state, t - row + 1)
<1>h. /\ call' = call /\ said' = said /\ UNCHANGED <<call, said, acc, spec, calls>> /\ k \in ChainIds
      /\ e \in Kernel
  BY AtWork
<1>0. /\ ChainOK(c) /\ FeedOK /\ WorkType /\ InCall /\ h \in Seq(Int) /\ f \in Seq(Int)
      /\ Len(f) \in Nat \ {0} /\ SlotsOf(s)[0] \in Slots /\ acc[s] \in 1 .. NumSpec
      /\ c.slot[b] = SlotsOf(s) /\ mid[k] \in [0 .. Height(c) - 1 -> Row]
      /\ \A j \in 0 .. NumSpec - 1 : SlotsOf(s)[j] \in Slots
  BY <1>h, EntryBasics
<1>c. ChainOK(c) /\ FeedOK /\ InCall /\ b \in Entries(c) /\ EntryOK(c, b, s)
  BY <1>0
<1>e. e \in KernelsOf("spec") /\ "causal_conv1d_spec" \in KernelsOf("spec")
      /\ Stage("causal_conv1d_spec") < Stage(e) /\ e # "causal_conv1d_spec"
  BY DEF KernelsOf, Stage
<1>1. /\ c.path = "spec" /\ SpecInv(v, h, f, acc[s])
      /\ SpecInv(u, h, f, acc[s]) => EntryInv(k, b, s)'
      /\ v.did[e] = {} /\ u.did[e] = 1 .. Len(f)
      /\ v.did["causal_conv1d_spec"] = 1 .. Len(f) /\ u.did["causal_conv1d_spec"] = v.did["causal_conv1d_spec"]
  <2> HIDE DEF e
  <2>0. Runs(e, k, b)
    BY DEF e
  <2>1. /\ call.chains[k].path = "spec"
        /\ SpecInv(View(k, b, s), said[s], Fed(s), acc[s])
        /\ SpecInv(View(k, b, s)', said[s], Fed(s), acc[s]) => EntryInv(k, b, s)'
        /\ View(k, b, s).did[e] = {} /\ View(k, b, s)'.did[e] = 1 .. Len(Fed(s))
    BY <1>e, <2>0, SpecViews
  <2>2. \A g \in KernelsOf("spec") :
              /\ g # e => View(k, b, s)'.did[g] = View(k, b, s).did[g]
              /\ Stage(g) < Stage(e) => View(k, b, s).did[g] = 1 .. Len(Fed(s))
    BY <1>e, <2>0, SpecViews
  <2> HIDE DEF View
  <2> QED BY <1>e, <2>1, <2>2
<1>l. Len(f) <= NumSpec /\ NumSpec \in Nat
  BY <1>1, Sizes DEF EntryOK
<1>2. /\ \A i \in 1 .. Len(f) : /\ row + i - 1 \in mine /\ (row + i - 1) - row = i - 1 /\ (row + i - 1) - row + 1 = i
                                /\ c.indx[row + i - 1] = call.at[s] + i - 1
                                /\ call.at[s] + i - 1 \in 0 .. Len(call.tokens) - 1
                                /\ RowAt(c, b, i) = row + i - 1
                                /\ \A t \in mine : c.indx[t] = call.at[s] + i - 1 <=> t = row + i - 1
      /\ \A t \in mine : \E i \in 1 .. Len(f) : t = row + i - 1
  <2> HIDE DEF c
  <2>1. /\ \A i \in 1 .. Len(Fed(s)) : /\ c.start[b] + i - 1 \in c.start[b] .. c.start[b + 1] - 1
                                        /\ (c.start[b] + i - 1) - c.start[b] = i - 1
                                        /\ (c.start[b] + i - 1) - c.start[b] + 1 = i
        /\ \A t \in c.start[b] .. c.start[b + 1] - 1 : \E i \in 1 .. Len(Fed(s)) : t = c.start[b] + i - 1
    BY <1>c, TokenAt
  <2>2. \A i \in 1 .. Len(Fed(s)) : /\ c.indx[c.start[b] + i - 1] = call.at[s] + i - 1
                                    /\ call.at[s] + i - 1 \in 0 .. Len(call.tokens) - 1
    BY <1>c, InputIs
  <2>3. \A i \in 1 .. Len(Fed(s)) : RowAt(c, b, i) = c.start[b] + i - 1
    BY <1>1 DEF RowAt
  <2>4. \A i \in 1 .. Len(Fed(s)) : \A t \in c.start[b] .. c.start[b + 1] - 1 :
                    c.indx[t] = call.at[s] + i - 1 <=> t = c.start[b] + i - 1
    BY <1>c, TokenOf
  <2> QED BY <2>1, <2>2, <2>3, <2>4
<1>v. /\ v.line = conv[SlotsOf(s)[0]] /\ \A j \in 0 .. NumSpec - 1 : v.cols[j] = ssm[SlotsOf(s)[j]]
      /\ \A j \in 1 .. Len(f) : v.rows[j] = mid[k][RowAt(c, b, j)] /\ v.zs[j] = z[call.at[s] + j - 1]
  <2>1. /\ v.line = conv[SlotsOf(s)[0]] /\ \A j \in 0 .. NumSpec - 1 : v.cols[j] = ssm[SlotsOf(s)[j]]
    BY Viewed
  <2>2. \A j \in 1 .. Len(f) : v.rows[j] = mid[k][RowAt(c, b, j)] /\ v.zs[j] = z[call.at[s] + j - 1]
    BY Viewed
  <2> QED BY <2>1, <2>2
<1>u. /\ u.line = conv'[SlotsOf(s)[0]] /\ \A j \in 0 .. NumSpec - 1 : u.cols[j] = ssm'[SlotsOf(s)[j]]
      /\ \A j \in 1 .. Len(f) : u.rows[j] = mid'[k][RowAt(c, b, j)] /\ u.zs[j] = z'[call.at[s] + j - 1]
                                /\ u.outs[j] = out'[call.at[s] + j - 1]
  <2>1. /\ u.line = conv'[SlotsOf(s)[0]] /\ \A j \in 0 .. NumSpec - 1 : u.cols[j] = ssm'[SlotsOf(s)[j]]
    BY <1>h, ViewedNext
  <2>2. \A i \in 1 .. Len(Fed(s)) : /\ View(k, b, s)'.rows[i] = mid'[k][RowAt(call.chains[k], b, i)]
                                    /\ View(k, b, s)'.outs[i] = out'[call.at[s] + i - 1]
                                    /\ View(k, b, s)'.zs[i] = z'[call.at[s] + i - 1]
    BY <1>h, ViewedNext
  <2> QED BY <2>1, <2>2
<1> HIDE DEF u, v
<1>3. /\ ssm[SlotsOf(s)[acc[s] - 1]] = Taken(h) /\ acc[s] - 1 \in 0 .. NumSpec - 1 /\ InitRow(c, b) = acc[s] - 1
      /\ \A i \in 1 .. Len(f) : mid[k][row + i - 1] = RowFor(h, f, i) /\ v.rows[i] = RowFor(h, f, i) /\ v.zs[i] = f[i]
      /\ \A j \in 1 .. Width - 2 + Len(f) : v.line[j - 1] = Nth(h \o f, Len(h) - Width + 2 + j)
  <2>1. acc[s] - 1 \in 0 .. NumSpec - 1 /\ ~(acc[s] - 1 < 0)
    <3>1. PICK y \in 1 .. NumSpec : y = acc[s]
      BY <1>0
    <3> QED BY <3>1, Sizes
  <2>2. InitRow(c, b) = acc[s] - 1
    BY <2>1 DEF InitRow, EntryOK
  <2>3. v.did["causal_conv1d_spec"] # {}
    <3>1. 1 \in 1 .. Len(f)
      BY <1>0
    <3> QED BY <1>1, <3>1
  <2>4. /\ v.cols[acc[s] - 1] = Taken(h)
        /\ \A i \in 1 .. Len(f) : v.rows[i] = RowFor(h, f, i) /\ v.zs[i] = f[i]
        /\ \A j \in 1 .. Width - 2 + Len(f) : v.line[j - 1] = Nth(h \o f, Len(h) - Width + 2 + j)
    BY <1>1, <2>3 DEF SpecInv
  <2>5. \A i \in 1 .. Len(f) : mid[k][row + i - 1] = RowFor(h, f, i)
    BY <1>2, <1>v, <2>4
  <2> QED BY <1>v, <2>1, <2>2, <2>4, <2>5
<1>5. \A n \in 0 .. Len(f) : After(k, row, state, n) = StateAt(h, f, n) /\ StateAt(h, f, n) \in Seq(Row)
  <2> SUFFICES ASSUME NEW n \in 0 .. Len(f)
               PROVE  After(k, row, state, n) = StateAt(h, f, n) /\ StateAt(h, f, n) \in Seq(Row)
    OBVIOUS
  <2>1. \A i \in 1 .. n : mid[k][row + i - 1] = RowFor(h, f, i)
    BY <1>0, <1>3
  <2>2. h \in Seq(Int) /\ f \in Seq(Int)
    BY <1>0
  <2> HIDE DEF row, h, f
  <2> QED BY <2>1, <2>2, AfterIs
<1>6. /\ out' = [g \in DOMAIN out |->
                  IF \E t \in mine : c.indx[t] = g THEN nth(CHOOSE t \in mine : c.indx[t] = g) ELSE out[g]]
      /\ ssm' = [x \in DOMAIN ssm |->
                  IF \E t \in mine : SlotsOf(s)[t - row] = x
                  THEN nth(CHOOSE t \in mine : SlotsOf(s)[t - row] = x) ELSE ssm[x]]
      /\ conv' = conv /\ tmp' = tmp /\ mid' = mid /\ z' = z
  <2>1. w = b /\ c.slot[b] = SlotsOf(s) /\ ssm[c.slot[b][InitRow(c, b)]] = state
    BY <1>0, <1>3
  <2> DEFINE was == ssm[c.slot[b][InitRow(c, b)]]
             at(t) == After(k, row, was, t - row + 1)
  <2>2. /\ out' = [g \in DOMAIN out |->
                    IF \E t \in mine : c.indx[t] = g THEN at(CHOOSE t \in mine : c.indx[t] = g) ELSE out[g]]
        /\ ssm' = [x \in DOMAIN ssm |->
                    IF \E t \in mine : c.slot[b][t - row] = x
                    THEN at(CHOOSE t \in mine : c.slot[b][t - row] = x) ELSE ssm[x]]
        /\ conv' = conv /\ tmp' = tmp /\ mid' = mid /\ z' = z
    BY <2>1 DEF GatedDeltaRuleSpec
  <2>3. was = state /\ c.slot[b] = SlotsOf(s)
    BY <2>1
  <2> HIDE DEF was, state, mine, c
  <2> QED BY <2>2, <2>3
<1>i. \A i \in 1 .. Len(f) : i \in 0 .. Len(f) /\ i - 1 \in 0 .. NumSpec - 1
  <2>1. PICK n \in Nat : n = Len(f)
    BY <1>0
  <2> QED BY <1>l, <2>1
<1> HIDE DEF c, row, state
<1>7. \A i \in 1 .. Len(f) : nth(row + i - 1) = StateAt(h, f, i) /\ StateAt(h, f, i) \in Seq(Row)
  BY <1>2, <1>5, <1>i
<1> HIDE DEF nth
<1>8. /\ out' = [g \in DOMAIN out |-> out'[g]] /\ DOMAIN out' = DOMAIN out
      /\ \A i \in 1 .. Len(f) : out'[call.at[s] + i - 1] = StateAt(h, f, i)
      /\ \A g \in 0 .. Len(call.tokens) - 1 : (\A i \in 1 .. Len(f) : g # call.at[s] + i - 1) => out'[g] = out[g]
  <2>0. DOMAIN out = 0 .. Len(call.tokens) - 1
    BY <1>0 DEF WorkType
  <2>1. ASSUME NEW i \in 1 .. Len(f) PROVE out'[call.at[s] + i - 1] = StateAt(h, f, i)
    <3> DEFINE q == CHOOSE t \in mine : c.indx[t] = call.at[s] + i - 1
    <3>1. \E t \in mine : c.indx[t] = call.at[s] + i - 1
      BY <1>2
    <3>2. q \in mine /\ c.indx[q] = call.at[s] + i - 1
      BY <3>1
    <3> HIDE DEF q
    <3>3. q = row + i - 1
      BY <1>2, <3>2
    <3>4. out'[call.at[s] + i - 1] = nth(q)
      BY <1>2, <1>6, <2>0, <3>1 DEF q
    <3> QED BY <1>7, <3>3, <3>4
  <2>2. ASSUME NEW g \in 0 .. Len(call.tokens) - 1, \A i \in 1 .. Len(f) : g # call.at[s] + i - 1
        PROVE  out'[g] = out[g]
    <3>1. ~\E t \in mine : c.indx[t] = g
      <4> SUFFICES ASSUME NEW t \in mine, c.indx[t] = g PROVE FALSE
        OBVIOUS
      <4>1. PICK i \in 1 .. Len(f) : t = row + i - 1
        BY <1>2
      <4> QED BY <1>2, <2>2, <4>1
    <3> QED BY <1>6, <2>0, <3>1
  <2> QED BY <1>6, <2>0, <2>1, <2>2
<1>9. /\ \A i \in 1 .. Len(f) : ssm'[SlotsOf(s)[i - 1]] = StateAt(h, f, i)
      /\ \A x \in Slots \cup {Pad} : (\A j \in 0 .. NumSpec - 1 : x # SlotsOf(s)[j]) => ssm'[x] = ssm[x]
      /\ ssm' \in [Slots \cup {Pad} -> Seq(Row)]
  <2>0. ssm \in [Slots \cup {Pad} -> Seq(Row)]
    BY DEF Underway, GdnType
  <2>s. \A t \in mine : \E i \in 1 .. Len(f) : t = row + i - 1 /\ t - row = i - 1
    BY <1>2
  <2>1. ASSUME NEW i \in 1 .. Len(f) PROVE ssm'[SlotsOf(s)[i - 1]] = StateAt(h, f, i)
    <3> DEFINE q == CHOOSE t \in mine : SlotsOf(s)[t - row] = SlotsOf(s)[i - 1]
    <3>1. \E t \in mine : SlotsOf(s)[t - row] = SlotsOf(s)[i - 1]
      BY <1>2
    <3>2. q \in mine /\ SlotsOf(s)[q - row] = SlotsOf(s)[i - 1]
      BY <3>1
    <3> HIDE DEF q
    <3>3. q = row + i - 1
      <4>1. PICK j \in 1 .. Len(f) : q = row + j - 1 /\ q - row = j - 1
        BY <2>s, <3>2
      <4>2. SlotsOf(s)[j - 1] = SlotsOf(s)[i - 1] /\ j - 1 \in 0 .. NumSpec - 1 /\ i - 1 \in 0 .. NumSpec - 1
        BY <1>i, <3>2, <4>1
      <4>3. j - 1 = i - 1
        BY <4>2, SlotsApart
      <4>4. j = i
        BY <1>0, <4>3
      <4> QED BY <4>1, <4>4
    <3>4. SlotsOf(s)[i - 1] \in DOMAIN ssm
      BY <1>0, <1>i, <2>0
    <3>5. ssm'[SlotsOf(s)[i - 1]] = nth(q)
      BY <1>6, <3>1, <3>4 DEF q
    <3> QED BY <1>7, <3>3, <3>5
  <2>2. ASSUME NEW x \in Slots \cup {Pad}, \A i \in 1 .. Len(f) : x # SlotsOf(s)[i - 1] PROVE ssm'[x] = ssm[x]
    <3>1. ~\E t \in mine : SlotsOf(s)[t - row] = x
      BY <2>s, <2>2
    <3> QED BY <1>6, <2>0, <3>1
  <2>3. \A x \in Slots \cup {Pad} : (\A j \in 0 .. NumSpec - 1 : x # SlotsOf(s)[j]) => ssm'[x] = ssm[x]
    BY <1>i, <2>2
  <2>4. ASSUME NEW x \in Slots \cup {Pad} PROVE ssm'[x] \in Seq(Row)
    <3>1. CASE \A i \in 1 .. Len(f) : x # SlotsOf(s)[i - 1]
      BY <2>0, <2>2, <3>1
    <3>2. CASE \E i \in 1 .. Len(f) : x = SlotsOf(s)[i - 1]
      BY <1>7, <2>1, <3>2
    <3> QED BY <3>1, <3>2
  <2>5. ssm' = [x \in Slots \cup {Pad} |-> ssm'[x]]
    BY <1>6, <2>0
  <2> QED BY <2>1, <2>3, <2>4, <2>5
<1>10. GdnType'
  <2>1. out' \in [0 .. Len(call.tokens) - 1 -> Seq(Row)]
    <3> DEFINE new == [i \in 1 .. Len(Fed(s)) |-> StateAt(said[s], Fed(s), i)]
    <3>1. \A i \in 1 .. Len(Fed(s)) : new[i] \in Seq(Row)
      BY <1>7
    <3>2. \A i \in 1 .. Len(Fed(s)) : out'[call.at[s] + i - 1] = new[i]
      BY <1>8
    <3>3. WorkType /\ FeedOK /\ out' = [g \in DOMAIN out |-> out'[g]] /\ DOMAIN out' = DOMAIN out
          /\ \A g \in 0 .. Len(call.tokens) - 1 : (\A i \in 1 .. Len(Fed(s)) : g # call.at[s] + i - 1) => out'[g] = out[g]
      BY <1>0, <1>8
    <3> HIDE DEF new, h, f
    <3>4. \A i \in 1 .. Len(Fed(s)) : call.at[s] + i - 1 \in 0 .. Len(call.tokens) - 1 => out'[call.at[s] + i - 1] = new[i]
      BY <3>2
    <3> QED BY <3>1, <3>3, <3>4, OutWrite
  <2>3. /\ conv' \in [Slots -> [0 .. StateLen - 1 -> Int]]
        /\ mid' = [l \in ChainIds |-> mid'[l]] /\ tmp' = [l \in ChainIds |-> tmp'[l]]
        /\ \A l \in ChainIds : mid'[l] \in [0 .. Height(call.chains[l]) - 1 -> Row]
        /\ \A l \in ChainIds : tmp'[l] \in [Entries(call.chains[l]) -> [0 .. Width - 2 -> Int]]
        /\ z' \in [0 .. Len(call.tokens) - 1 -> Int]
    BY <1>0, <1>6 DEF Underway, GdnType, WorkType
  <2> QED BY <1>h, <1>9, <2>1, <2>3, TypeNext
<1>11. Only(k, b, s)
  BY <1>6, <1>8, <1>9, <1>10 DEF Only
<1>12. SpecInv(u, h, f, acc[s])
  <2>0. 1 \in 1 .. Len(f)
    BY <1>0
  <2>1. u.did[e] # {} /\ u.did["causal_conv1d_spec"] # {}
    BY <1>1, <2>0
  <2>2. \A i \in 1 .. Len(f) : u.rows[i] = RowFor(h, f, i) /\ u.zs[i] = f[i]
    <3> SUFFICES ASSUME NEW i \in 1 .. Len(f) PROVE u.rows[i] = RowFor(h, f, i) /\ u.zs[i] = f[i]
      OBVIOUS
    <3>1. v.rows[i] = mid[k][RowAt(c, b, i)] /\ v.zs[i] = z[call.at[s] + i - 1]
      BY <1>v
    <3>2. u.rows[i] = mid'[k][RowAt(c, b, i)] /\ u.zs[i] = z'[call.at[s] + i - 1]
      BY <1>u
    <3>3. v.rows[i] = RowFor(h, f, i) /\ v.zs[i] = f[i]
      BY <1>3
    <3>4. mid' = mid /\ z' = z
      BY <1>6
    <3> HIDE DEF h, f
    <3> QED BY <3>1, <3>2, <3>3, <3>4
  <2>3. \A j \in 1 .. Width - 2 + Len(f) : u.line[j - 1] = Nth(h \o f, Len(h) - Width + 2 + j)
    BY <1>3, <1>6, <1>v, <1>u
  <2>4. \A i \in 1 .. Len(f) : u.cols[i - 1] = StateAt(h, f, i) /\ u.outs[i] = StateAt(h, f, i)
    BY <1>i, <1>8, <1>9, <1>u
  <2> QED BY <2>1, <2>2, <2>3, <2>4 DEF SpecInv
<1> QED BY <1>1, <1>11, <1>12

-----------------------------------------------------------------------------
(* Entries and tokens that serve no sequence.                              *)
Nobody ==
  /\ GdnType' /\ conv' = conv /\ tmp' = tmp /\ out' = out /\ z' = z
  /\ \A x \in Slots : ssm'[x] = ssm[x]
  /\ \A l \in ChainIds : \A y \in 0 .. Height(call.chains[l]) - 1 :
       call.chains[l].path = "chunk" \/ y < call.chains[l].start[call.chains[l].batch] => mid'[l][y] = mid[l][y]

LEMMA NobodySame ==
  ASSUME Underway, Nobody, NEW l \in ChainIds, NEW d \in Entries(call.chains[l]), NEW r \in Seqs,
         EntryOK(call.chains[l], d, r)
  PROVE  Same(l, d, r)
<1> DEFINE c == call.chains[l]
<1>0. /\ ChainOK(c) /\ FeedOK /\ WorkType /\ InCall /\ SlotsOf(r)[0] \in Slots
      /\ \A j \in 0 .. NumSpec - 1 : SlotsOf(r)[j] \in Slots
  BY EntryBasics
<1>1. ASSUME NEW i \in 1 .. Len(Fed(r)) PROVE mid'[l][RowAt(c, d, i)] = mid[l][RowAt(c, d, i)]
  <2>1. ChainOK(c) /\ FeedOK /\ InCall /\ d \in Entries(c) /\ EntryOK(c, d, r)
    BY <1>0
  <2>2. RowAt(c, d, i) \in 0 .. Height(c) - 1 /\ (c.path = "chunk" \/ RowAt(c, d, i) < c.start[c.batch])
    <3> HIDE DEF c
    <3>1. RowAt(c, d, i) \in 0 .. Height(c) - 1
      BY <2>1, RowFacts
    <3>2. /\ c.start[d] \in Nat /\ c.start[d + 1] \in Nat /\ c.start[c.batch] \in Nat
          /\ c.start[d + 1] = c.start[d] + Len(Fed(r)) /\ c.start[d + 1] <= c.start[c.batch]
          /\ Len(Fed(r)) \in Nat \ {0}
      BY <2>1, EntryFacts
    <3>3. PICK x \in Nat, y \in Nat, n \in Nat : x = c.start[d] /\ n = Len(Fed(r)) /\ y = c.start[c.batch] /\ x + n <= y
      BY <3>2
    <3>4. i \in Nat /\ 1 <= i /\ i <= n
      BY <3>3
    <3>5. x + i - 1 < y
      BY <3>3, <3>4
    <3> QED BY <3>1, <3>3, <3>5 DEF RowAt
  <2> QED BY <2>2 DEF Nobody
<1> QED BY <1>0, <1>1 DEF Same, Nobody

(* A token of the padding writes nothing a sequence reads.                 *)
LEMMA PadToken ==
  ASSUME Underway, NEW k, NEW w, Runs("causal_conv1d", k, w), Padded(call.chains[k], w),
         call.chains[k].path = "native", w >= call.chains[k].start[call.chains[k].batch], CausalConv1d(k, w)
  PROVE  Nobody
<1> DEFINE c == call.chains[k]
<1>h. /\ UNCHANGED <<call, said, acc, spec, calls>> /\ k \in ChainIds
      /\ w \in Groups("causal_conv1d", call.chains[k])
  BY AtWork
<1>0. ChainOK(c) /\ FeedOK /\ WorkType /\ InCall
  BY <1>h DEF Underway, GdnType, CallOK
<1>1. w \in Tokens(c)
  BY <1>h DEF Groups, PerToken
<1>2. c.indx[w] \in 0 .. Len(call.tokens) - 1
  BY <1>0, <1>1 DEF ChainOK
<1>3. Input(c, w) \in Int
  <2>1. call.tokens \in Seq(Int)
    BY <1>0 DEF FeedOK
  <2>2. Len(call.tokens) \in Nat /\ c.indx[w] + 1 \in 1 .. Len(call.tokens)
    BY <1>2, <2>1
  <2> QED BY <2>1, <2>2 DEF Input
<1>4. w \in 0 .. Height(c) - 1
  <2>1. PICK m \in Nat : DOMAIN c.indx = 0 .. m - 1
    BY <1>0 DEF ChainOK
  <2>2. Cardinality(Tokens(c)) = m
    <3>1. Tokens(c) = 0 .. m - 1
      BY <2>1 DEF Tokens
    <3>2. Cardinality(0 .. m - 1) = (m - 1) - 0 + 1
      <4>1. CASE m = 0
        <5>1. 0 .. m - 1 = {}
          BY <4>1
        <5> QED BY <4>1, <5>1, FS_EmptySet
      <4>2. CASE m # 0
        BY <4>2, FS_Interval
      <4> QED BY <4>1, <4>2
    <3> QED BY <3>1, <3>2
  <2>3. Height(c) = m
    BY <2>2 DEF Height
  <2> QED BY <1>1, <2>1, <2>3 DEF Tokens
<1>5. /\ mid' = [mid EXCEPT ![k][w].ba = Input(c, w)]
      /\ conv' = conv /\ ssm' = ssm /\ tmp' = tmp /\ z' = z /\ out' = out
  BY DEF CausalConv1d, cache
<1> DEFINE row == [win |-> mid[k][w].win, ba |-> Input(c, w)]
<1>6. mid' = [mid EXCEPT ![k][w] = row] /\ row \in Row
  <2>0. mid[k] \in [0 .. Height(c) - 1 -> Row]
    BY <1>h, <1>0 DEF WorkType
  <2>1. mid[k][w] \in Row
    BY <1>4, <2>0
  <2>2. row \in Row
    BY <1>3, <2>1 DEF Row
  <2>3. [mid[k][w] EXCEPT !.ba = Input(c, w)] = row
    BY <2>1 DEF Row
  <2>4. mid' = [mid EXCEPT ![k] = [mid[k] EXCEPT ![w] = [mid[k][w] EXCEPT !.ba = Input(c, w)]]]
    BY <1>h, <1>0, <1>5 DEF WorkType
  <2> QED BY <1>h, <1>0, <2>2, <2>3, <2>4
<1>7. /\ mid' = [l \in ChainIds |-> mid'[l]]
      /\ \A l \in ChainIds : mid'[l] \in [0 .. Height(call.chains[l]) - 1 -> Row]
      /\ \A l \in ChainIds : \A x \in 0 .. Height(call.chains[l]) - 1 : (l = k => x # w) => mid'[l][x] = mid[l][x]
  <2> HIDE DEF row
  <2>1. WorkType /\ k \in ChainIds /\ w \in 0 .. Height(call.chains[k]) - 1 /\ row \in Row
        /\ mid' = [mid EXCEPT ![k][w] = row]
    <3>1. k \in ChainIds /\ WorkType
      BY <1>h, <1>0
    <3>2. w \in 0 .. Height(call.chains[k]) - 1
      BY <1>4
    <3> QED BY <1>6, <3>1, <3>2
  <2>2. MidWritten(k, w, row)
    BY <2>1, MidWrite
  <2> QED BY <2>2 DEF MidWritten
<1>8. GdnType'
  <2>1. ssm' \in [Slots \cup {Pad} -> Seq(Row)] /\ out' \in [0 .. Len(call.tokens) - 1 -> Seq(Row)]
        /\ conv' \in [Slots -> [0 .. StateLen - 1 -> Int]] /\ tmp' = [l \in ChainIds |-> tmp'[l]]
        /\ \A l \in ChainIds : tmp'[l] \in [Entries(call.chains[l]) -> [0 .. Width - 2 -> Int]]
        /\ z' \in [0 .. Len(call.tokens) - 1 -> Int]
    BY <1>0, <1>5 DEF WorkType, Underway, GdnType
  <2> QED BY <1>h, <1>7, <2>1, TypeNext
<1>9. \A l \in ChainIds : \A y \in 0 .. Height(call.chains[l]) - 1 :
       call.chains[l].path = "chunk" \/ y < call.chains[l].start[call.chains[l].batch] => mid'[l][y] = mid[l][y]
  <2> SUFFICES ASSUME NEW l \in ChainIds, NEW y \in 0 .. Height(call.chains[l]) - 1,
                      call.chains[l].path = "chunk" \/ y < call.chains[l].start[call.chains[l].batch]
               PROVE  mid'[l][y] = mid[l][y]
    OBVIOUS
  <2>1. l = k => y # w
    <3> SUFFICES ASSUME l = k, y = w PROVE FALSE
      OBVIOUS
    <3>1. w < c.start[c.batch]
      OBVIOUS
    <3>2. c.start[c.batch] \in Nat /\ w \in Nat
      BY <1>0, <1>4 DEF ChainOK
    <3> QED BY <3>1, <3>2
  <2> QED BY <1>7, <2>1
<1> QED BY <1>5, <1>8, <1>9 DEF Nobody

(* Nor does an entry of the padding.                                       *)
LEMMA PadEntry ==
  ASSUME Underway, NEW e, NEW k, NEW b, Runs(e, k, b), b \in Entries(call.chains[k]),
         PadOK(call.chains[k], b), e \in {"gated_delta_rule", "causal_conv1d_spec", "gated_delta_rule_spec"},
         Group(e, k, b)
  PROVE  Nobody
<1> DEFINE c == call.chains[k]
           mine == c.start[b] .. c.start[b + 1] - 1
<1>h. /\ UNCHANGED <<call, said, acc, spec, calls>> /\ k \in ChainIds /\ e \in KernelsOf(c.path)
      /\ c.path \in {"spec", "native", "chunk"}
  BY AtWork
<1>0. /\ ChainOK(c) /\ FeedOK /\ WorkType /\ InCall /\ conv \in [Slots -> [0 .. StateLen - 1 -> Int]]
      /\ ssm \in [Slots \cup {Pad} -> Seq(Row)]
  BY <1>h DEF Underway, GdnType, CallOK
<1>1. c.slot[b] = PadRow /\ c.start[b + 1] = c.start[b] /\ c.init[b] = (c.path = "native")
  BY DEF PadOK
<1>2. c.start[b] \in Nat
  <2>1. ChainOK(c) /\ b \in Entries(c)
    BY <1>0
  <2> HIDE DEF c
  <2>2. c.batch \in Nat /\ c.start \in [0 .. c.batch -> Nat] /\ b \in 0 .. c.batch - 1
    BY <2>1 DEF ChainOK, Entries
  <2>3. b \in 0 .. c.batch
    BY <2>2
  <2> QED BY <2>2, <2>3
<1>3. mine = {}
  BY <1>1, <1>2
<1>4. c.slot[b][0] = Pad
  BY <1>1, Sizes DEF PadRow
<1>n. Pad \notin Slots
  BY DEF Pad, Slots
<1>5. CASE e = "gated_delta_rule"
  <2>1. GatedDeltaRule(k, b)
    BY <1>5 DEF Group
  <2>2. c.path = "native" /\ c.init[b]
    BY <1>1, <1>5, <1>h DEF KernelsOf
  <2>3. out' = [g \in DOMAIN out |-> out[g]] /\ conv' = conv /\ tmp' = tmp /\ mid' = mid /\ z' = z
    BY <1>3, <2>1 DEF GatedDeltaRule
  <2>4. ssm' = [ssm EXCEPT ![Pad] = After(k, c.start[b], ssm[Pad], c.start[b + 1] - c.start[b])]
    BY <1>4, <2>1, <2>2 DEF GatedDeltaRule
  <2>5. After(k, c.start[b], ssm[Pad], c.start[b + 1] - c.start[b]) \in Seq(Row)
    <3>1. PICK x \in Nat : x = c.start[b]
      BY <1>2
    <3>2. c.start[b + 1] - c.start[b] = 0
      BY <1>1, <3>1
    <3>3. [i \in 1 .. 0 |-> mid[k][c.start[b] + i - 1]] \in Seq(Row)
      OBVIOUS
    <3>4. ssm[Pad] \in Seq(Row)
      BY <1>0
    <3> QED BY <3>2, <3>3, <3>4 DEF After
  <2>6. ssm' \in [Slots \cup {Pad} -> Seq(Row)] /\ \A x \in Slots : ssm'[x] = ssm[x]
    <3> HIDE DEF After
    <3> QED BY <1>0, <1>n, <2>4, <2>5
  <2>7. out' = out
    BY <1>0, <2>3 DEF WorkType
  <2>8. /\ out' \in [0 .. Len(call.tokens) - 1 -> Seq(Row)]
        /\ conv' \in [Slots -> [0 .. StateLen - 1 -> Int]]
        /\ mid' = [l \in ChainIds |-> mid'[l]] /\ tmp' = [l \in ChainIds |-> tmp'[l]]
        /\ \A l \in ChainIds : mid'[l] \in [0 .. Height(call.chains[l]) - 1 -> Row]
        /\ \A l \in ChainIds : tmp'[l] \in [Entries(call.chains[l]) -> [0 .. Width - 2 -> Int]]
        /\ z' \in [0 .. Len(call.tokens) - 1 -> Int]
    BY <1>0, <2>3, <2>7 DEF WorkType
  <2>9. GdnType'
    BY <1>h, <2>6, <2>8, TypeNext
  <2> QED BY <2>3, <2>6, <2>7, <2>9 DEF Nobody
<1>6. CASE e = "causal_conv1d_spec" \/ e = "gated_delta_rule_spec"
  <2>1. conv' = conv /\ tmp' = tmp /\ mid' = mid /\ z' = z /\ out' = out /\ ssm' = ssm
    <3>w. mid = [l \in ChainIds |-> mid[l]] /\ mid[k] \in [0 .. Height(c) - 1 -> Row]
          /\ z \in [0 .. Len(call.tokens) - 1 -> Int] /\ out \in [0 .. Len(call.tokens) - 1 -> Seq(Row)]
      BY <1>h, <1>0 DEF WorkType
    <3>1. CASE e = "causal_conv1d_spec"
      <4>1. CausalConv1dSpec(k, b)
        BY <3>1 DEF Group
      <4>2. conv' = conv /\ tmp' = tmp /\ out' = out /\ ssm' = ssm
        BY <1>4, <4>1 DEF CausalConv1dSpec
      <4>3. z' = [g \in DOMAIN z |-> z[g]]
        BY <1>3, <4>1 DEF CausalConv1dSpec
      <4>4. mid' = [mid EXCEPT ![k] = [t \in DOMAIN mid[k] |-> mid[k][t]]]
        <5>1. mid' = [mid EXCEPT ![k] = [t \in DOMAIN @ |->
                  IF t \in mine THEN [win |-> SpecWindow(c, b, t - c.start[b]), ba |-> Input(c, t)] ELSE @[t]]]
          BY <4>1 DEF CausalConv1dSpec
        <5> HIDE DEF mine
        <5> QED BY <1>h, <1>3, <3>w, <5>1
      <4>5. mid' = mid
        BY <1>h, <3>w, <4>4
      <4> QED BY <3>w, <4>2, <4>3, <4>5
    <3>2. CASE e = "gated_delta_rule_spec"
      <4>1. GatedDeltaRuleSpec(k, b)
        BY <3>2 DEF Group
      <4>2. conv' = conv /\ tmp' = tmp /\ mid' = mid /\ z' = z
        BY <4>1 DEF GatedDeltaRuleSpec
      <4>3. out' = [g \in DOMAIN out |-> out[g]]
        BY <1>3, <4>1 DEF GatedDeltaRuleSpec
      <4>4. ssm' = [x \in DOMAIN ssm |-> ssm[x]]
        BY <1>3, <4>1 DEF GatedDeltaRuleSpec
      <4> QED BY <1>0, <3>w, <4>2, <4>3, <4>4
    <3> QED BY <1>6, <3>1, <3>2
  <2>2. /\ out' \in [0 .. Len(call.tokens) - 1 -> Seq(Row)] /\ ssm' \in [Slots \cup {Pad} -> Seq(Row)]
        /\ conv' \in [Slots -> [0 .. StateLen - 1 -> Int]]
        /\ mid' = [l \in ChainIds |-> mid'[l]] /\ tmp' = [l \in ChainIds |-> tmp'[l]]
        /\ \A l \in ChainIds : mid'[l] \in [0 .. Height(call.chains[l]) - 1 -> Row]
        /\ \A l \in ChainIds : tmp'[l] \in [Entries(call.chains[l]) -> [0 .. Width - 2 -> Int]]
        /\ z' \in [0 .. Len(call.tokens) - 1 -> Int]
    BY <1>0, <2>1 DEF WorkType
  <2>3. GdnType'
    BY <1>h, <2>2, TypeNext
  <2> QED BY <2>1, <2>3 DEF Nobody
<1> QED BY <1>5, <1>6

-----------------------------------------------------------------------------
(* A work-group serves the sequence of an entry, or nobody.                *)
Owns(e, k, w, b, s) ==
  /\ b \in Entries(call.chains[k]) /\ s \in Seqs /\ EntryOK(call.chains[k], b, s)
  /\ e \in PerToken => \E i \in 1 .. Len(Fed(s)) : w = call.chains[k].start[b] + i - 1
  /\ e \notin PerToken => w = b

OwnsNone(e, k, w) ==
  \/ /\ e = "causal_conv1d" /\ Padded(call.chains[k], w) /\ call.chains[k].path = "native"
     /\ w >= call.chains[k].start[call.chains[k].batch]
  \/ /\ e \in {"gated_delta_rule", "causal_conv1d_spec", "gated_delta_rule_spec"}
     /\ w \in Entries(call.chains[k]) /\ PadOK(call.chains[k], w)

(* An entry that has the slots of a sequence was made for it.              *)
LEMMA ServesOne ==
  ASSUME NEW c, ChainOK(c), NEW b \in Entries(c), NEW s \in Seqs, Serves(c, b, s)
  PROVE  EntryOK(c, b, s)
<1>1. PadOK(c, b) \/ \E r \in Seqs : EntryOK(c, b, r)
  BY DEF ChainOK
<1>2. ~PadOK(c, b)
  BY SlotsDiffer DEF PadOK, Serves
<1>3. PICK r \in Seqs : EntryOK(c, b, r)
  BY <1>1, <1>2
<1>4. SlotsOf(r) = SlotsOf(s)
  BY <1>3 DEF EntryOK, Serves
<1>5. r = s
  BY <1>4, SlotsDiffer
<1> QED BY <1>3, <1>5

LEMMA GroupsFull ==
  ASSUME NEW c, ChainOK(c), NEW e
  PROVE  Groups(e, c) # {}
<1>1. PICK m \in Nat : DOMAIN c.indx = 0 .. m - 1 /\ m >= c.start[c.batch]
  BY DEF ChainOK
<1>2. c.batch \in Nat \ {0} /\ c.start[c.batch] \in Nat /\ c.start[c.batch] > 0
  <2>1. c.batch \in Nat \ {0} /\ c.start \in [0 .. c.batch -> Nat] /\ c.start[c.batch] > 0
    BY DEF ChainOK
  <2>2. c.batch \in 0 .. c.batch
    BY <2>1
  <2> QED BY <2>1, <2>2
<1>3. 0 \in 0 .. m - 1 /\ 0 \in 0 .. c.batch - 1
  BY <1>1, <1>2
<1> QED BY <1>1, <1>3 DEF Groups, Tokens, Entries

(* A work-group is of one entry, or of the padding.                        *)
LEMMA Owners ==
  ASSUME Underway, NEW e, NEW k, NEW w, Runs(e, k, w)
  PROVE  (\E b, s : Owns(e, k, w, b, s)) \/ OwnsNone(e, k, w)
<1> DEFINE c == call.chains[k]
<1>h. /\ k \in ChainIds /\ e \in Kernel /\ e \in KernelsOf(c.path) /\ c.path \in {"spec", "native", "chunk"}
      /\ w \in Groups(e, c)
  BY AtWork
<1>0. ChainOK(c) /\ FeedOK /\ InCall
  BY <1>h DEF Underway, CallOK
<1>1. CASE e \in PerToken
  <2>1. w \in Tokens(c)
    BY <1>h, <1>1 DEF Groups
  <2>2. CASE \E b \in Entries(c) : \E s \in Seqs : EntryOK(c, b, s) /\ w \in c.start[b] .. c.start[b + 1] - 1
    <3>1. PICK b \in Entries(c), s \in Seqs : EntryOK(c, b, s) /\ w \in c.start[b] .. c.start[b + 1] - 1
      BY <2>2
    <3>2. \E i \in 1 .. Len(Fed(s)) : w = c.start[b] + i - 1
      <4>1. ChainOK(c) /\ b \in Entries(c) /\ EntryOK(c, b, s)
        BY <1>0, <3>1
      <4> HIDE DEF c
      <4>2. c.start[b] \in Nat /\ c.start[b + 1] = c.start[b] + Len(Fed(s)) /\ Len(Fed(s)) \in Nat
        BY <1>0, <4>1, EntryFacts
      <4>3. PICK x \in Nat, n \in Nat : x = c.start[b] /\ n = Len(Fed(s)) /\ c.start[b + 1] = x + n
        BY <4>2
      <4>4. w \in x .. (x + n) - 1
        BY <3>1, <4>3
      <4>5. (w - x) + 1 \in 1 .. n /\ w = x + ((w - x) + 1) - 1
        BY <4>4
      <4> QED BY <4>3, <4>5
    <3> QED BY <1>1, <3>1, <3>2 DEF Owns
  <2>3. CASE c.path = "native" /\ Padded(c, w) /\ w >= c.start[c.batch]
    <3>1. e = "causal_conv1d"
      BY <1>h, <1>1, <2>3 DEF KernelsOf, PerToken
    <3> QED BY <2>3, <3>1 DEF OwnsNone
  <2>4. \/ \E b \in Entries(c) : \E s \in Seqs : EntryOK(c, b, s) /\ w \in c.start[b] .. c.start[b + 1] - 1
        \/ c.path = "native" /\ Padded(c, w) /\ w >= c.start[c.batch]
    <3>1. ChainOK(c)
      BY <1>0
    <3> HIDE DEF c
    <3> QED BY <1>0, <2>1, <3>1, TokenCases
  <2> QED BY <2>2, <2>3, <2>4
<1>2. CASE e \notin PerToken
  <2>1. w \in Entries(c)
    BY <1>h, <1>2 DEF Groups
  <2>2. PadOK(c, w) \/ \E s \in Seqs : EntryOK(c, w, s)
    BY <1>0, <2>1 DEF ChainOK
  <2>3. CASE PadOK(c, w)
    <3>1. c.path # "chunk"
      BY <2>3 DEF PadOK
    <3>2. e \in {"gated_delta_rule", "causal_conv1d_spec", "gated_delta_rule_spec"}
      BY <1>h, <1>2, <3>1 DEF KernelsOf, PerToken
    <3> QED BY <2>1, <2>3, <3>2 DEF OwnsNone
  <2>4. CASE \E s \in Seqs : EntryOK(c, w, s)
    BY <1>2, <2>1, <2>4 DEF Owns
  <2> QED BY <2>2, <2>3, <2>4
<1> QED BY <1>1, <1>2

(* Whatever the kernel, its work-group changes only what is its            *)
(* sequence's, and keeps what its entry claims.                            *)
LEMMA KernelStep ==
  ASSUME Underway, NEW e, NEW k, NEW w, Runs(e, k, w), NEW b, NEW s, Owns(e, k, w, b, s),
         EntryInv(k, b, s), Group(e, k, w)
  PROVE  Only(k, b, s) /\ EntryInv(k, b, s)'
<1>h. e \in Kernel
  BY AtWork
<1>0. b \in Entries(call.chains[k]) /\ s \in Seqs /\ EntryOK(call.chains[k], b, s)
  BY DEF Owns
<1>1. ASSUME e \in {"causal_conv1d", "chunk_causal_conv1d", "chunk_reorder_zba"}
      PROVE  Only(k, b, s) /\ EntryInv(k, b, s)'
  <2>1. PICK i \in 1 .. Len(Fed(s)) : w = call.chains[k].start[b] + i - 1
    BY <1>1 DEF Owns, PerToken
  <2>2. CASE e = "causal_conv1d"
    <3>1. Runs("causal_conv1d", k, w) /\ CausalConv1d(k, w)
      BY <2>2 DEF Group
    <3> QED BY <1>0, <2>1, <3>1, NativeConv
  <2>3. CASE e = "chunk_causal_conv1d"
    <3>1. Runs("chunk_causal_conv1d", k, w) /\ ChunkCausalConv1d(k, w)
      BY <2>3 DEF Group
    <3> QED BY <1>0, <2>1, <3>1, ChunkConv
  <2>4. CASE e = "chunk_reorder_zba"
    <3>1. Runs("chunk_reorder_zba", k, w) /\ ChunkReorderZba(k, w)
      BY <2>4 DEF Group
    <3> QED BY <1>0, <2>1, <3>1, ChunkReorder
  <2> QED BY <1>1, <2>2, <2>3, <2>4
<1>2. ASSUME e \notin PerToken PROVE Only(k, b, s) /\ EntryInv(k, b, s)'
  <2>1. w = b
    BY <1>2 DEF Owns
  <2>2. CASE e = "gated_delta_rule"
    <3>1. Runs("gated_delta_rule", k, w) /\ GatedDeltaRule(k, w)
      BY <2>2 DEF Group
    <3> QED BY <1>0, <2>1, <3>1, NativeRule
  <2>3. CASE e = "update_states"
    <3>1. Runs("update_states", k, w) /\ UpdateStates(k, w)
      BY <2>3 DEF Group
    <3> QED BY <1>0, <2>1, <3>1, ChunkUpdate
  <2>4. CASE e = "chunk_gated_delta_rule"
    <3>1. Runs("chunk_gated_delta_rule", k, w) /\ ChunkGatedDeltaRule(k, w)
      BY <2>4 DEF Group
    <3> QED BY <1>0, <2>1, <3>1, ChunkRule
  <2>5. CASE e = "causal_conv1d_spec"
    <3>1. Runs("causal_conv1d_spec", k, w) /\ CausalConv1dSpec(k, w)
      BY <2>5 DEF Group
    <3> QED BY <1>0, <2>1, <3>1, SpecConv
  <2>6. CASE e = "gated_delta_rule_spec"
    <3>1. Runs("gated_delta_rule_spec", k, w) /\ GatedDeltaRuleSpec(k, w)
      BY <2>6 DEF Group
    <3> QED BY <1>0, <2>1, <3>1, SpecRule
  <2> QED BY <1>h, <1>2, <2>2, <2>3, <2>4, <2>5, <2>6 DEF Kernel, PerToken
<1> QED BY <1>1, <1>2 DEF PerToken

(* A work-group of the padding leaves every entry as it was.               *)
LEMMA NobodyStep ==
  ASSUME Underway, NEW e, NEW k, NEW w, Runs(e, k, w), OwnsNone(e, k, w), Group(e, k, w)
  PROVE  Nobody
<1>1. CASE /\ e = "causal_conv1d" /\ Padded(call.chains[k], w) /\ call.chains[k].path = "native"
           /\ w >= call.chains[k].start[call.chains[k].batch]
  <2>1. Runs("causal_conv1d", k, w) /\ CausalConv1d(k, w)
    BY <1>1 DEF Group
  <2> QED BY <1>1, <2>1, PadToken
<1>2. CASE /\ e \in {"gated_delta_rule", "causal_conv1d_spec", "gated_delta_rule_spec"}
           /\ w \in Entries(call.chains[k]) /\ PadOK(call.chains[k], w)
  BY <1>2, PadEntry
<1> QED BY <1>1, <1>2 DEF OwnsNone

(* It is not a work-group of any other entry.                              *)
LEMMA OthersWork ==
  ASSUME Underway, NEW e, NEW k, NEW w, Runs(e, k, w),
         NEW l \in ChainIds, NEW d \in Entries(call.chains[l]), NEW r \in Seqs, EntryOK(call.chains[l], d, r),
         OwnsNone(e, k, w) \/ \E b, s : Owns(e, k, w, b, s) /\ s # r,
         NEW f \in Kernel, NEW i \in 1 .. Len(Fed(r))
  PROVE  ~(f = e /\ l = k /\ WorkAt(f, call.chains[l], d, i) = w)
<1> SUFFICES ASSUME f = e, l = k, WorkAt(f, call.chains[l], d, i) = w PROVE FALSE
  OBVIOUS
<1> DEFINE c == call.chains[l]
<1>0. ChainOK(c) /\ FeedOK /\ InCall /\ d \in Entries(c) /\ EntryOK(c, d, r)
  BY EntryBasics
<1>h. c = call.chains[k] /\ WorkAt(e, c, d, i) = w
  OBVIOUS
<1> HIDE DEF c
<1>1. /\ c.start[d] + i - 1 \in c.start[d] .. c.start[d + 1] - 1 /\ c.start[d] \in Nat /\ c.start[d + 1] \in Nat
      /\ c.start[d + 1] <= c.start[c.batch] /\ c.start[c.batch] \in Nat
  BY <1>0, EntryFacts
<1>2. c.slot[d] = SlotsOf(r)
  BY <1>0 DEF EntryOK
<1>3. CASE OwnsNone(e, k, w)
  <2>1. CASE e = "causal_conv1d" /\ w >= c.start[c.batch]
    <3>1. w = c.start[d] + i - 1
      BY <1>h, <2>1 DEF WorkAt, PerToken
    <3> QED BY <1>1, <2>1, <3>1
  <2>2. CASE e \in {"gated_delta_rule", "causal_conv1d_spec", "gated_delta_rule_spec"} /\ PadOK(c, w)
    <3>1. w = d
      BY <1>h, <2>2 DEF WorkAt, PerToken
    <3> QED BY <1>2, <2>2, <3>1, SlotsDiffer DEF PadOK
  <2> QED BY <1>3, <1>h, <2>1, <2>2 DEF OwnsNone
<1>4. CASE \E b, s : Owns(e, k, w, b, s) /\ s # r
  <2>1. PICK b, s : Owns(e, k, w, b, s) /\ s # r
    BY <1>4
  <2>2. b \in Entries(c) /\ s \in Seqs /\ EntryOK(c, b, s)
    BY <2>1, <1>h DEF Owns
  <2>3. c.slot[b] = SlotsOf(s)
    BY <2>2 DEF EntryOK
  <2>4. b # d
    BY <1>2, <2>1, <2>2, <2>3, SlotsDiffer
  <2>5. CASE e \in PerToken
    <3>1. PICK j \in 1 .. Len(Fed(s)) : w = c.start[b] + j - 1
      BY <1>h, <2>1, <2>5 DEF Owns
    <3>2. w = c.start[d] + i - 1
      BY <1>h, <2>5 DEF WorkAt
    <3>3. c.start[b] + j - 1 \in c.start[b] .. c.start[b + 1] - 1
      BY <1>0, <2>2, EntryFacts
    <3>4. BatchOf(c, w) = b
      BY <1>0, <2>2, <3>1, <3>3, InEntry
    <3>5. BatchOf(c, w) = d
      BY <1>0, <1>1, <3>2, InEntry
    <3> QED BY <2>4, <3>4, <3>5
  <2>6. CASE e \notin PerToken
    <3>1. w = d /\ w = b
      BY <1>h, <2>1, <2>6 DEF Owns, WorkAt
    <3> QED BY <2>4, <3>1
  <2> QED BY <2>5, <2>6
<1> QED BY <1>3, <1>4

(* Two entries that serve a sequence are one.                              *)
LEMMA ServedOnce ==
  ASSUME CallOK, NEW k \in ChainIds, NEW l \in ChainIds, NEW b \in Entries(call.chains[k]),
         NEW d \in Entries(call.chains[l]), NEW s \in Seqs,
         Serves(call.chains[k], b, s), Serves(call.chains[l], d, s)
  PROVE  k = l /\ b = d
<1>1. \A i, j \in ChainIds : \A x \in Entries(call.chains[i]), y \in Entries(call.chains[j]) :
        \A r \in Seqs : Serves(call.chains[i], x, r) /\ Serves(call.chains[j], y, r) => i = j /\ x = y
  BY DEF CallOK
<1> QED BY <1>1

Served ==
  \A k \in ChainIds : \A b \in Entries(call.chains[k]) : \A s \in Seqs :
    Serves(call.chains[k], b, s) => EntryInv(k, b, s)

(* A work-group leaves every entry as the invariant says.                  *)
LEMMA EntriesStep ==
  ASSUME Underway, NEW e, NEW k, NEW w, Runs(e, k, w), Group(e, k, w), Served
  PROVE  GdnType' /\ Served'
<1>h. /\ k \in ChainIds /\ call' = call
  BY AtWork
<1>1. CallOK
  BY DEF Underway
<1>2. \A l \in ChainIds : ChainOK(call.chains[l])
  BY <1>1 DEF CallOK
<1>3. CASE OwnsNone(e, k, w)
  <2>1. Nobody
    BY <1>3, NobodyStep
  <2>2. GdnType'
    BY <2>1 DEF Nobody
  <2>3. ASSUME NEW l \in ChainIds, NEW d \in Entries(call.chains[l]), NEW r \in Seqs, Serves(call.chains[l], d, r)
        PROVE  EntryInv(l, d, r)'
    <3>1. EntryOK(call.chains[l], d, r) /\ EntryInv(l, d, r)
      BY <1>2, <2>3, ServesOne DEF Served
    <3>2. Same(l, d, r)
      BY <2>1, <3>1, NobodySame
    <3>3. \A f \in Kernel : \A i \in 1 .. Len(Fed(r)) : ~(f = e /\ l = k /\ WorkAt(f, call.chains[l], d, i) = w)
      BY <1>3, <3>1, OthersWork
    <3> QED BY <1>h, <3>1, <3>2, <3>3, Untouched
  <2> QED BY <1>h, <2>2, <2>3 DEF Served, ChainIds, Entries, Serves
<1>4. ASSUME NEW b, NEW s, Owns(e, k, w, b, s) PROVE GdnType' /\ Served'
  <2>0. b \in Entries(call.chains[k]) /\ s \in Seqs /\ EntryOK(call.chains[k], b, s)
    BY <1>4 DEF Owns
  <2>1. Serves(call.chains[k], b, s)
    BY <2>0 DEF Serves, EntryOK
  <2>2. EntryInv(k, b, s)
    BY <1>h, <2>0, <2>1 DEF Served
  <2>3. Only(k, b, s) /\ EntryInv(k, b, s)'
    BY <1>4, <2>2, KernelStep
  <2>4. GdnType'
    BY <2>3 DEF Only
  <2>5. ASSUME NEW l \in ChainIds, NEW d \in Entries(call.chains[l]), NEW r \in Seqs, Serves(call.chains[l], d, r)
        PROVE  EntryInv(l, d, r)'
    <3>1. EntryOK(call.chains[l], d, r) /\ EntryInv(l, d, r)
      BY <1>2, <2>5, ServesOne DEF Served
    <3>2. CASE r = s
      <4>1. l = k /\ d = b
        BY <1>h, <1>1, <2>0, <2>1, <2>5, <3>2, ServedOnce
      <4> QED BY <2>3, <3>2, <4>1
    <3>3. CASE r # s
      <4>1. Same(l, d, r)
        BY <1>h, <2>0, <2>3, <3>1, <3>3, OtherEntries
      <4>2. \A f \in Kernel : \A i \in 1 .. Len(Fed(r)) : ~(f = e /\ l = k /\ WorkAt(f, call.chains[l], d, i) = w)
        BY <1>4, <3>1, <3>3, OthersWork
      <4> QED BY <1>h, <3>1, <4>1, <4>2, Untouched
    <3> QED BY <3>2, <3>3
  <2> QED BY <1>h, <2>4, <2>5 DEF Served, ChainIds, Entries, Serves
<1> QED BY <1>3, <1>4, Owners

(* A sequence that is not in the call keeps its caches.                    *)
LEMMA RestStep ==
  ASSUME Underway, NEW e, NEW k, NEW w, Runs(e, k, w), Group(e, k, w), Served,
         NEW s \in Seqs, Fed(s) = <<>>, AtRest(s)
  PROVE  AtRest(s)'
<1>h. said' = said /\ acc' = acc
  BY AtWork
<1>0. acc[s] - 1 \in 0 .. NumSpec - 1
  <2>1. acc[s] \in 1 .. NumSpec /\ NumSpec \in Nat
    BY Sizes DEF Underway, GdnType
  <2> QED BY <2>1
<1>1. /\ conv'[SlotsOf(s)[0]] = conv[SlotsOf(s)[0]]
      /\ \A j \in 0 .. NumSpec - 1 : ssm'[SlotsOf(s)[j]] = ssm[SlotsOf(s)[j]]
  <2>1. CASE OwnsNone(e, k, w)
    <3>1. Nobody
      BY <2>1, NobodyStep
    <3> QED BY <3>1, SlotFacts DEF Nobody
  <2>2. ASSUME NEW b, NEW r, Owns(e, k, w, b, r)
        PROVE  /\ conv'[SlotsOf(s)[0]] = conv[SlotsOf(s)[0]]
               /\ \A j \in 0 .. NumSpec - 1 : ssm'[SlotsOf(s)[j]] = ssm[SlotsOf(s)[j]]
    <3>0. b \in Entries(call.chains[k]) /\ r \in Seqs /\ EntryOK(call.chains[k], b, r) /\ k \in ChainIds
      BY <2>2, AtWork DEF Owns
    <3>1. Serves(call.chains[k], b, r)
      BY <3>0 DEF Serves, EntryOK
    <3>2. Only(k, b, r)
      BY <2>2, <3>0, <3>1, KernelStep DEF Served
    <3>3. s # r
      BY <3>0 DEF EntryOK
    <3> QED BY <3>0, <3>2, <3>3, OtherCaches
  <2> QED BY <2>1, <2>2, Owners
<1> QED BY <1>h, <1>0, <1>1 DEF AtRest

LEMMA KernelsKnown ==
  ASSUME NEW c, ChainOK(c)
  PROVE  KernelsOf(c.path) \subseteq Kernel
<1>1. c.path \in {"spec", "native", "chunk"}
  BY DEF ChainOK
<1> QED BY <1>1 DEF KernelsOf, Kernel

(* What the host made of the call stays true while its kernels run.        *)
LEMMA CallKept ==
  ASSUME CallOK, UNCHANGED <<call, said, acc, spec>>
  PROVE  CallOK'
<1>0. call' = call /\ said' = said /\ acc' = acc /\ spec' = spec
  OBVIOUS
<1>1. \A s : Fed(s)' = Fed(s)
  BY <1>0 DEF Fed
<1>2. \A c, b, s : EntryOK(c, b, s)' <=> EntryOK(c, b, s)
  BY <1>0, <1>1 DEF EntryOK
<1>3. \A c : ChainOK(c)' <=> ChainOK(c)
  BY <1>0, <1>2 DEF ChainOK, Entries, Tokens, PadOK
<1>4. FeedOK'
  BY <1>0, <1>1 DEF FeedOK, CallOK
<1>5. ChainIds' = ChainIds
  BY <1>0 DEF ChainIds
<1>6. (\A k \in ChainIds : ChainOK(call.chains[k]))'
  BY <1>0, <1>3, <1>5 DEF CallOK
<1>7. \A c, b, s : Serves(c, b, s)' <=> Serves(c, b, s)
  BY DEF Serves
<1>8. (call.chains # <<>> /\ \E m \in Nat : ChainIds = 1 .. m)'
  BY <1>0, <1>5 DEF CallOK
<1>9. (\A s \in Seqs : Fed(s) # <<>> =>
         \E k \in ChainIds : \E b \in Entries(call.chains[k]) : Serves(call.chains[k], b, s))'
  BY <1>0, <1>1, <1>5, <1>7 DEF CallOK, Entries
<1>10. (\A k, l \in ChainIds : \A b \in Entries(call.chains[k]), d \in Entries(call.chains[l]) :
         \A s \in Seqs : Serves(call.chains[k], b, s) /\ Serves(call.chains[l], d, s) => k = l /\ b = d)'
  BY <1>0, <1>5, <1>7 DEF CallOK, Entries
<1> QED BY <1>4, <1>6, <1>8, <1>9, <1>10, Zenon DEF CallOK

(* The invariant is kept by a work-group,                                  *)
LEMMA RunStep ==
  ASSUME GdnInv, Run
  PROVE  GdnInv'
<1>1. InCall /\ queue # <<>> /\ UNCHANGED <<call, said, acc, spec, calls>>
  BY DEF Run, GdnInv
<1>2. /\ Underway /\ GdnType /\ CallOK /\ QueueOK /\ InOrder /\ Served
      /\ \A s \in Seqs : Fed(s) = <<>> => AtRest(s)
  BY <1>1 DEF GdnInv, Underway, Served
<1>u. call' = call
  BY <1>1
<1>3. PICK w \in todo :
        /\ Group(queue[1][1], queue[1][2], w)
        /\ queue' = IF todo = {w} THEN Tail(queue) ELSE queue
        /\ todo' = IF todo # {w} THEN todo \ {w}
                   ELSE IF Len(queue) = 1 THEN {}
                   ELSE Groups(queue[2][1], call.chains[queue[2][2]])
  BY DEF Run
<1>4. PICK e, k : queue[1] = <<e, k>> /\ queue[1][1] = e /\ queue[1][2] = k
  <2>1. queue \in Seq(Kernel \X ChainIds)
    BY <1>2 DEF QueueOK
  <2>2. Len(queue) \in Nat /\ Len(queue) >= 1
    BY <1>1, <2>1, TailOf
  <2>3. queue[1] \in Kernel \X ChainIds
    BY <2>1, <2>2
  <2> QED BY <2>3
<1>5. \A l \in ChainIds : ChainOK(call.chains[l])
  BY <1>2 DEF CallOK
<1>6. \A l \in ChainIds : \A f \in Kernel : Groups(f, call.chains[l]) # {}
  BY <1>5, GroupsFull
<1>7. /\ QueueOK'
      /\ \A l \in ChainIds : \A f \in Kernel : \A v \in Groups(f, call.chains[l]) :
           Ran(f, l, v)' <=> (Ran(f, l, v) \/ (f = e /\ l = k /\ v = w))
  <2>1. QueueOK /\ InOrder /\ queue # <<>> /\ queue[1] = <<e, k>>
    BY <1>1, <1>2, <1>4
  <2>2. queue' = IF todo = {w} THEN Tail(queue) ELSE queue
    BY <1>3
  <2>3. todo' = IF todo # {w} THEN todo \ {w}
                ELSE IF Len(queue) = 1 THEN {} ELSE Groups(queue[2][1], call.chains[queue[2][2]])
    BY <1>3
  <2>4. QueueStepped(e, k, w)
    BY <1>u, <1>6, <2>1, <2>2, <2>3, QueueStep
  <2> QED BY <2>4 DEF QueueStepped
<1>8. Runs(e, k, w)
  BY <1>1, <1>3, <1>4, <1>7 DEF Runs
<1>9. InOrder'
  <2>1. \A l \in ChainIds : KernelsOf(call.chains[l].path) \subseteq Kernel
    BY <1>5, KernelsKnown
  <2> QED BY <1>1, <1>2, <1>4, <1>7, <2>1, OrderStep
<1>10. GdnType' /\ Served'
  BY <1>2, <1>3, <1>4, <1>8, EntriesStep
<1>11. \A s \in Seqs : (Fed(s) = <<>> => AtRest(s))'
  <2> SUFFICES ASSUME NEW s \in Seqs, Fed(s) = <<>> PROVE AtRest(s)'
    BY <1>1 DEF Fed
  <2> QED BY <1>2, <1>3, <1>4, <1>8, RestStep
<1>12. CallOK'
  BY <1>1, <1>2, CallKept
<1>13. InCall'
  BY <1>1 DEF InCall
<1>14. \A s \in Seqs : (s \notin spec' => acc'[s] = 1) /\ (s \in spec' => said'[s] # <<>>)
  BY <1>1 DEF GdnInv
<1> QED BY <1>7, <1>9, <1>10, <1>11, <1>12, <1>13, <1>14 DEF GdnInv, Served

-----------------------------------------------------------------------------
(* When the queue is empty every work-group has run.                       *)
LEMMA AllDid ==
  ASSUME queue = <<>>, NEW k, NEW b, NEW s
  PROVE  \A f \in Kernel : View(k, b, s).did[f] = 1 .. Len(Fed(s))
<1>1. Len(queue) = 0
  BY EmptySeq
<1>2. \A f, w : Ran(f, k, w)
  BY <1>1 DEF Ran
<1>3. \A f \in Kernel : Did(f, k, b, s) = 1 .. Len(Fed(s))
  BY <1>2 DEF Did
<1> QED BY <1>3, Viewed

(* What a call leaves of the sequence of an entry: its outputs, and its    *)
(* caches as the next call will look for them.                             *)
LEMMA EntryDone ==
  ASSUME GdnInv, InCall, queue = <<>>, NEW k \in ChainIds, NEW b \in Entries(call.chains[k]), NEW s \in Seqs,
         Serves(call.chains[k], b, s), EntryOK(call.chains[k], b, s)
  PROVE  LET h == said[s]
             f == Fed(s)
             line == conv[SlotsOf(s)[0]]
         IN /\ \A i \in 1 .. Len(f) : out[call.at[s] + i - 1] = StateAt(h, f, i) /\ z[call.at[s] + i - 1] = f[i]
            /\ s \notin spec => ssm[SlotsOf(s)[0]] = Taken(h \o f) /\ LineHolds(line, 1, h \o f)
            /\ s \in spec =>
                 /\ \A i \in 1 .. Len(f) : ssm[SlotsOf(s)[i - 1]] = StateAt(h, f, i)
                 /\ \A j \in 1 .. Width - 2 + Len(f) : line[j - 1] = Nth(h \o f, Len(h) - Width + 2 + j)
<1> DEFINE h == said[s]
           f == Fed(s)
           v == View(k, b, s)
           c == call.chains[k]
<1>0. EntryInv(k, b, s) /\ Underway
  BY DEF GdnInv, Underway
<1>1. /\ h \in Seq(Int) /\ f \in Seq(Int) /\ Len(f) \in Nat \ {0} /\ acc[s] \in 1 .. NumSpec /\ NumSpec \in Nat
      /\ ChainOK(c)
  BY <1>0, EntryBasics, Sizes
<1>2. \A e \in Kernel : v.did[e] = 1 .. Len(f)
  BY AllDid
<1>3. 1 \in 1 .. Len(f) /\ 1 .. Len(f) # {} /\ Len(f) \in 1 .. Len(f)
  <2>1. PICK n \in Nat \ {0} : n = Len(f)
    BY <1>1
  <2>2. 1 \in 1 .. n /\ n \in 1 .. n
    OBVIOUS
  <2> QED BY <2>1, <2>2
<1>4. /\ v.line = conv[SlotsOf(s)[0]] /\ \A j \in 0 .. NumSpec - 1 : v.cols[j] = ssm[SlotsOf(s)[j]]
      /\ \A i \in 1 .. Len(f) : v.outs[i] = out[call.at[s] + i - 1] /\ v.zs[i] = z[call.at[s] + i - 1]
  BY Viewed
<1>5. 0 \in 0 .. NumSpec - 1
  BY SlotFacts
<1>6. (c.path = "spec" <=> s \in spec) /\ (c.path = "native" => Len(f) = 1)
      /\ (c.path = "spec" => Len(f) <= NumSpec) /\ c.path \in {"spec", "native", "chunk"}
  BY <1>1 DEF EntryOK, ChainOK
<1>7. {"causal_conv1d_spec", "gated_delta_rule_spec", "causal_conv1d", "gated_delta_rule",
       "chunk_causal_conv1d", "chunk_reorder_zba", "update_states", "chunk_gated_delta_rule"} = Kernel
  BY DEF Kernel
<1>8. StateAt(h, f, Len(f)) = Taken(h \o f)
  BY <1>1, WholeState
<1> HIDE DEF v, h, f
<1>9. CASE c.path = "native"
  <2>1. NativeInv(v, h, f)
    BY <1>0, <1>9 DEF EntryInv, v, h, f
  <2>2. v.did["causal_conv1d"] # {} /\ v.did["gated_delta_rule"] # {}
    BY <1>2, <1>3, <1>7
  <2>3. /\ v.zs[1] = f[1] /\ LineHolds(v.line, 1, h \o f)
        /\ v.cols[0] = StateAt(h, f, 1) /\ v.outs[1] = StateAt(h, f, 1)
    BY <2>1, <2>2 DEF NativeInv
  <2>4. \A i \in 1 .. Len(f) : i = 1
    <3>1. Len(f) = 1
      BY <1>6, <1>9
    <3> QED BY <3>1
  <2>5. \A i \in 1 .. Len(f) : out[call.at[s] + i - 1] = StateAt(h, f, i) /\ z[call.at[s] + i - 1] = f[i]
    BY <1>3, <1>4, <2>3, <2>4
  <2>6. s \notin spec
    BY <1>6, <1>9
  <2>7. ssm[SlotsOf(s)[0]] = Taken(h \o f) /\ LineHolds(conv[SlotsOf(s)[0]], 1, h \o f)
    BY <1>3, <1>4, <1>5, <1>8, <2>3, <2>4
  <2> QED BY <2>5, <2>6, <2>7 DEF h, f
<1>10. CASE c.path = "chunk"
  <2>1. ChunkInv(v, h, f)
    BY <1>0, <1>10 DEF EntryInv, v, h, f
  <2>2. v.did["chunk_reorder_zba"] = 1 .. Len(f) /\ v.did["update_states"] # {} /\ v.did["chunk_gated_delta_rule"] # {}
    BY <1>2, <1>3, <1>7
  <2>3. \A i \in 1 .. Len(f) : v.zs[i] = f[i]
    BY <2>1, <2>2 DEF ChunkInv
  <2>4. LineHolds(v.line, 1, h \o f)
    BY <2>1, <2>2 DEF ChunkInv
  <2>5. v.cols[0] = Taken(h \o f) /\ \A i \in 1 .. Len(f) : v.outs[i] = StateAt(h, f, i)
    BY <2>1, <2>2 DEF ChunkInv
  <2>6. s \notin spec
    BY <1>6, <1>10
  <2>7. \A i \in 1 .. Len(f) : out[call.at[s] + i - 1] = StateAt(h, f, i) /\ z[call.at[s] + i - 1] = f[i]
    BY <1>4, <2>3, <2>5
  <2>8. ssm[SlotsOf(s)[0]] = Taken(h \o f) /\ LineHolds(conv[SlotsOf(s)[0]], 1, h \o f)
    BY <1>4, <1>5, <2>4, <2>5
  <2> QED BY <2>6, <2>7, <2>8 DEF h, f
<1>11. CASE c.path = "spec"
  <2>1. SpecInv(v, h, f, acc[s])
    BY <1>0, <1>11 DEF EntryInv, v, h, f
  <2>2. v.did["causal_conv1d_spec"] # {} /\ v.did["gated_delta_rule_spec"] # {}
    BY <1>2, <1>3, <1>7
  <2>3. /\ \A i \in 1 .. Len(f) : v.zs[i] = f[i]
        /\ \A j \in 1 .. Width - 2 + Len(f) : v.line[j - 1] = Nth(h \o f, Len(h) - Width + 2 + j)
    BY <2>1, <2>2 DEF SpecInv
  <2>4. \A i \in 1 .. Len(f) : v.cols[i - 1] = StateAt(h, f, i) /\ v.outs[i] = StateAt(h, f, i)
    BY <2>1, <2>2 DEF SpecInv
  <2>5. s \in spec
    BY <1>6, <1>11
  <2>6. \A i \in 1 .. Len(f) : out[call.at[s] + i - 1] = StateAt(h, f, i) /\ z[call.at[s] + i - 1] = f[i]
    BY <1>4, <2>3, <2>4
  <2>7. \A i \in 1 .. Len(f) : ssm[SlotsOf(s)[i - 1]] = StateAt(h, f, i)
    <3> SUFFICES ASSUME NEW i \in 1 .. Len(f) PROVE ssm[SlotsOf(s)[i - 1]] = StateAt(h, f, i)
      OBVIOUS
    <3>1. PICK n \in Nat : n = Len(f) /\ n <= NumSpec
      BY <1>1, <1>6, <1>11 DEF f
    <3>2. i - 1 \in 0 .. NumSpec - 1
      <4>1. i \in 1 .. n /\ NumSpec \in Nat
        BY <1>1, <3>1
      <4> QED BY <4>1, <3>1
    <3> QED BY <1>4, <2>4, <3>2
  <2>8. \A j \in 1 .. Width - 2 + Len(f) : conv[SlotsOf(s)[0]][j - 1] = Nth(h \o f, Len(h) - Width + 2 + j)
    BY <1>4, <2>3
  <2> QED BY <2>5, <2>6, <2>7, <2>8 DEF h, f
<1> QED BY <1>6, <1>9, <1>10, <1>11

LEMMA EntryFound ==
  ASSUME GdnInv, InCall, NEW s \in Seqs, Fed(s) # <<>>
  PROVE  \E k \in ChainIds : \E b \in Entries(call.chains[k]) :
           Serves(call.chains[k], b, s) /\ EntryOK(call.chains[k], b, s)
<1>1. CallOK
  BY DEF GdnInv
<1>2. PICK k \in ChainIds : \E b \in Entries(call.chains[k]) : Serves(call.chains[k], b, s)
  BY <1>1 DEF CallOK
<1>b. PICK b \in Entries(call.chains[k]) : Serves(call.chains[k], b, s)
  BY <1>2
<1>3. ChainOK(call.chains[k])
  BY <1>1 DEF CallOK
<1> QED BY <1>b, <1>3, ServesOne

(* Accepting the first a tokens of a draft moves the window by a rows.     *)
LEMMA DraftAccepted ==
  ASSUME NEW h \in Seq(Int), NEW f \in Seq(Int), NEW a \in 1 .. Len(f), NEW line,
         \A j \in 1 .. Width - 2 + Len(f) : line[j - 1] = Nth(h \o f, Len(h) - Width + 2 + j)
  PROVE  LineHolds(line, a, h \o SubSeq(f, 1, a))
<1>0. Len(f) \in Nat /\ Len(h) \in Nat /\ Width \in Nat /\ Width >= 2
  BY Sizes, LenProperties
<1>1. a \in 0 .. Len(f)
  BY <1>0
<1> DEFINE g == SubSeq(f, 1, a)
<1>2. g \in Seq(Int) /\ Len(g) = a
  BY <1>1, FirstOf
<1>3. Len(h \o g) = Len(h) + a
  <2> HIDE DEF g
  <2> QED BY <1>2, Joined
<1> SUFFICES ASSUME NEW i \in 0 .. Width - 2
             PROVE  line[a - 1 + i] = Nth(h \o g, Len(h \o g) - Width + i + 2)
  BY DEF LineHolds
<1>4. PICK n \in Nat, m \in Nat : n = Len(f) /\ m = Len(h)
  BY <1>0
<1>5. /\ a + i \in 1 .. Width - 2 + n /\ (a + i) - 1 = a - 1 + i
      /\ m - Width + 2 + (a + i) = (m + a) - Width + i + 2
      /\ m - Width + 2 + (a + i) \in Int /\ m - Width + 2 + (a + i) <= m + a
  <2>1. a \in 1 .. n
    BY <1>4
  <2> QED BY <1>0, <2>1
<1>6. line[(a + i) - 1] = Nth(h \o f, m - Width + 2 + (a + i))
  BY <1>4, <1>5
<1>7. Nth(h \o g, m - Width + 2 + (a + i)) = Nth(h \o f, m - Width + 2 + (a + i))
  <2> DEFINE x == m - Width + 2 + (a + i)
  <2>1. x \in Int /\ x <= Len(h) + a
    BY <1>4, <1>5
  <2> HIDE DEF x
  <2>2. Nth(h \o SubSeq(f, 1, a), x) = Nth(h \o f, x)
    BY <1>1, <2>1, NthPrefix
  <2> QED BY <2>2 DEF x
<1> QED BY <1>3, <1>4, <1>5, <1>6, <1>7

(* by the end of a call, however many drafts are accepted,                 *)
LEMMA AcceptStep ==
  ASSUME GdnInv, Accept
  PROVE  GdnInv'
<1>1. /\ InCall /\ queue = <<>> /\ call' = NoCall
      /\ UNCHANGED <<conv, ssm, queue, todo, spec, calls>>
  BY DEF Accept, InCall, cache
<1>2. PICK a \in [Seqs -> 1 .. NumSpec] :
        LET fed == {s \in Seqs : call.fed[s] # <<>>}
            taken(s) == IF s \in spec \cap fed THEN SubSeq(call.fed[s], 1, a[s]) ELSE call.fed[s]
        IN /\ \A s \in Seqs : IF s \in spec \cap fed THEN a[s] <= Len(call.fed[s]) ELSE a[s] = acc[s]
           /\ said' = [s \in Seqs |-> said[s] \o taken(s)]
           /\ acc' = a
  BY DEF Accept
<1> DEFINE taken(s) == IF s \in spec /\ Fed(s) # <<>> THEN SubSeq(Fed(s), 1, a[s]) ELSE Fed(s)
<1>3. /\ \A s \in Seqs : IF s \in spec /\ Fed(s) # <<>> THEN a[s] <= Len(Fed(s)) ELSE a[s] = acc[s]
      /\ said' = [s \in Seqs |-> said[s] \o taken(s)]
      /\ acc' = a
  BY <1>2 DEF Fed
<1>4. GdnType /\ CallOK /\ QueueOK /\ FeedOK /\ \A s \in Seqs : (s \notin spec => acc[s] = 1) /\ (s \in spec => said[s] # <<>>)
  BY <1>1 DEF GdnInv, CallOK
<1>5. ASSUME NEW s \in Seqs
      PROVE  said[s] \in Seq(Int) /\ taken(s) \in Seq(Int) /\ Fed(s) \in Seq(Int)
             /\ (s \in spec /\ Fed(s) # <<>> => a[s] \in 1 .. Len(Fed(s)))
  <2>1. said[s] \in Seq(Int) /\ Fed(s) \in Seq(Int) /\ Len(Fed(s)) \in Nat
    BY <1>4, FeedLengths DEF GdnType
  <2>2. a[s] \in 1 .. NumSpec /\ NumSpec \in Nat
    BY Sizes
  <2>3. s \in spec /\ Fed(s) # <<>> => a[s] \in 1 .. Len(Fed(s)) /\ a[s] \in 0 .. Len(Fed(s))
    BY <1>3, <2>1, <2>2
  <2>4. s \in spec /\ Fed(s) # <<>> => SubSeq(Fed(s), 1, a[s]) \in Seq(Int)
    BY <2>1, <2>3, FirstOf
  <2> QED BY <2>1, <2>3, <2>4
<1>6. said' \in [Seqs -> Seq(Int)]
  <2>1. \A s \in Seqs : said[s] \o taken(s) \in Seq(Int)
    <3> SUFFICES ASSUME NEW s \in Seqs PROVE said[s] \o taken(s) \in Seq(Int)
      OBVIOUS
    <3>1. said[s] \in Seq(Int) /\ taken(s) \in Seq(Int)
      BY <1>5
    <3> HIDE DEF taken
    <3> QED BY <3>1, Joined
  <2> HIDE DEF taken
  <2> QED BY <1>3, <2>1
<1>7. ~InCall'
  BY <1>1 DEF InCall
<1>8. GdnType'
  BY <1>1, <1>3, <1>4, <1>6, <1>7 DEF GdnType
<1>9. ASSUME NEW s \in Seqs
      PROVE  (s \notin spec' => acc'[s] = 1) /\ (s \in spec' => said'[s] # <<>>)
  <2>1. s \notin spec => acc'[s] = 1
    BY <1>3, <1>4
  <2>2. s \in spec => said'[s] # <<>>
    <3> SUFFICES ASSUME s \in spec PROVE said'[s] # <<>>
      OBVIOUS
    <3>1. said[s] \in Seq(Int) /\ taken(s) \in Seq(Int) /\ said[s] # <<>>
      BY <1>4, <1>5
    <3>2. said'[s] = said[s] \o taken(s)
      BY <1>3
    <3> HIDE DEF taken
    <3>3. Len(said[s] \o taken(s)) = Len(said[s]) + Len(taken(s)) /\ Len(said[s]) # 0
          /\ Len(said[s]) \in Nat /\ Len(taken(s)) \in Nat
      BY <3>1, Joined, EmptySeq
    <3>4. Len(said[s] \o taken(s)) # 0
      BY <3>3
    <3> QED BY <3>2, <3>4, EmptySeq
  <2> QED BY <1>1, <2>1, <2>2
<1>10. queue' = <<>> /\ todo' = {}
  BY <1>1, <1>4 DEF QueueOK
<1>11. ASSUME NEW s \in Seqs PROVE AtRest(s)'
  <2>0. /\ said'[s] = said[s] \o taken(s) /\ acc'[s] = a[s] /\ conv' = conv /\ ssm' = ssm
    BY <1>1, <1>3
  <2>1. CASE Fed(s) = <<>>
    <3>1. taken(s) = <<>> /\ a[s] = acc[s] /\ said[s] \in Seq(Int)
      BY <1>3, <1>5, <2>1
    <3>2. said'[s] = said[s] /\ acc'[s] = acc[s]
      BY <2>0, <3>1
    <3>3. AtRest(s)
      BY <1>1, <2>1 DEF GdnInv
    <3> QED BY <2>0, <3>2, <3>3 DEF AtRest
  <2>2. CASE Fed(s) # <<>>
    <3>1. PICK k \in ChainIds : \E b \in Entries(call.chains[k]) :
            Serves(call.chains[k], b, s) /\ EntryOK(call.chains[k], b, s)
      BY <1>1, <2>2, EntryFound
    <3>b. PICK b \in Entries(call.chains[k]) : Serves(call.chains[k], b, s) /\ EntryOK(call.chains[k], b, s)
      BY <3>1
    <3>2. CASE s \notin spec
      <4>1. taken(s) = Fed(s) /\ a[s] = acc[s] /\ acc[s] = 1
        BY <1>3, <1>4, <3>2
      <4>2. ssm[SlotsOf(s)[0]] = Taken(said[s] \o Fed(s)) /\ LineHolds(conv[SlotsOf(s)[0]], 1, said[s] \o Fed(s))
        BY <1>1, <3>b, <3>2, EntryDone
      <4>3. said'[s] = said[s] \o Fed(s) /\ acc'[s] = 1 /\ acc'[s] - 1 = 0
        <5>1. said'[s] = said[s] \o Fed(s)
          BY <2>0, <4>1
        <5>2. acc'[s] = 1
          BY <2>0, <4>1
        <5> QED BY <5>1, <5>2
      <4> QED BY <2>0, <4>2, <4>3 DEF AtRest
    <3>3. CASE s \in spec
      <4>1. taken(s) = SubSeq(Fed(s), 1, a[s]) /\ a[s] \in 1 .. Len(Fed(s))
        BY <1>5, <2>2, <3>3
      <4>2. /\ \A i \in 1 .. Len(Fed(s)) : ssm[SlotsOf(s)[i - 1]] = StateAt(said[s], Fed(s), i)
            /\ \A j \in 1 .. Width - 2 + Len(Fed(s)) :
                 conv[SlotsOf(s)[0]][j - 1] = Nth(said[s] \o Fed(s), Len(said[s]) - Width + 2 + j)
        BY <1>1, <3>b, <3>3, EntryDone
      <4>3. ssm[SlotsOf(s)[a[s] - 1]] = Taken(said[s] \o SubSeq(Fed(s), 1, a[s]))
        BY <4>1, <4>2 DEF StateAt
      <4>4. LineHolds(conv[SlotsOf(s)[0]], a[s], said[s] \o SubSeq(Fed(s), 1, a[s]))
        <5>1. said[s] \in Seq(Int) /\ Fed(s) \in Seq(Int)
          BY <1>5
        <5>2. PICK line : line = conv[SlotsOf(s)[0]]
          OBVIOUS
        <5>3. \A j \in 1 .. Width - 2 + Len(Fed(s)) :
                 line[j - 1] = Nth(said[s] \o Fed(s), Len(said[s]) - Width + 2 + j)
          BY <4>2, <5>2
        <5>4. LineHolds(line, a[s], said[s] \o SubSeq(Fed(s), 1, a[s]))
          BY <4>1, <5>1, <5>3, DraftAccepted
        <5> QED BY <5>2, <5>4
      <4>5. said'[s] = said[s] \o SubSeq(Fed(s), 1, a[s]) /\ acc'[s] = a[s]
        BY <2>0, <4>1
      <4> QED BY <2>0, <4>3, <4>4, <4>5 DEF AtRest
    <3> QED BY <3>2, <3>3
  <2> QED BY <2>1, <2>2
<1> QED BY <1>7, <1>8, <1>9, <1>10, <1>11 DEF GdnInv

(* The invariant holds at first,                                           *)
LEMMA GdnInit ==
  Init => GdnInv
<1> SUFFICES ASSUME Init PROVE GdnInv
  OBVIOUS
<1>1. ~InCall
  BY DEF Init, InCall
<1>2. Width \in Nat /\ NumSpec \in Nat \ {0} /\ StateLen \in Nat /\ Width >= 2
  BY Sizes
<1>3. conv \in [Slots -> [0 .. StateLen - 1 -> Int]]
  BY DEF Init, Junk
<1>4. ssm \in [Slots \cup {Pad} -> Seq(Row)]
  <2>1. JunkRow \in Row
    BY DEF JunkRow, Row, Junk
  <2>2. <<JunkRow>> \in Seq(Row)
    BY <2>1
  <2> QED BY <2>2 DEF Init
<1>5. said \in [Seqs -> Seq(Int)] /\ acc \in [Seqs -> 1 .. NumSpec] /\ spec \subseteq Seqs /\ calls \in Nat
  <2>1. 1 \in 1 .. NumSpec /\ <<>> \in Seq(Int)
    BY <1>2
  <2> QED BY <2>1 DEF Init
<1>6. \A s \in Seqs : (s \notin spec => acc[s] = 1) /\ (s \in spec => said[s] # <<>>)
  BY DEF Init
<1>7. \A s \in Seqs : AtRest(s)
  BY DEF Init, AtRest
<1>8. queue = <<>> /\ todo = {}
  BY DEF Init
<1> QED BY <1>1, <1>3, <1>4, <1>5, <1>6, <1>7, <1>8 DEF GdnInv, GdnType

(* and when nothing happens.                                               *)
LEMMA GdnStutter ==
  ASSUME GdnInv, UNCHANGED vars
  PROVE  GdnInv'
<1>1. /\ conv' = conv /\ ssm' = ssm /\ call' = call /\ mid' = mid /\ tmp' = tmp /\ out' = out /\ z' = z
      /\ queue' = queue /\ todo' = todo /\ said' = said /\ acc' = acc /\ spec' = spec /\ calls' = calls
  BY DEF vars
<1>2. CASE ~InCall
  BY <1>1, <1>2 DEF GdnInv, GdnType, InCall, AtRest, LineHolds
<1>3. CASE InCall
  <2>t. GdnType'
    BY <1>1, <1>3 DEF GdnInv, GdnType, WorkType, InCall, ChainIds, Height, Tokens, Entries
  <2>q. QueueOK'
    BY <1>1, <1>3 DEF GdnInv, QueueOK, ChainIds, Groups, Tokens, Entries
  <2>o. InOrder'
    <3>1. \A e, k, w : Ran(e, k, w)' <=> Ran(e, k, w)
      BY <1>1 DEF Ran
    <3> QED BY <1>1, <1>3, <3>1 DEF GdnInv, InOrder, ChainIds, Groups, Tokens, Entries
  <2>1. GdnType' /\ QueueOK' /\ InOrder'
    BY <2>t, <2>q, <2>o
  <2>2. CallOK'
    BY <1>1, <1>3, CallKept DEF GdnInv
  <2>3. \A s : AtRest(s)' <=> AtRest(s)
    BY <1>1 DEF AtRest, LineHolds
  <2>4. \A s : Fed(s)' = Fed(s)
    BY <1>1 DEF Fed
  <2>5. \A e, k, w : Ran(e, k, w)' <=> Ran(e, k, w)
    BY <1>1 DEF Ran
  <2>6. \A e, k, b, s : Did(e, k, b, s)' = Did(e, k, b, s)
    BY <1>1, <2>4, <2>5 DEF Did, WorkAt
  <2>7. \A k, b, i : RowAt(call.chains[k], b, i)' = RowAt(call.chains[k], b, i)
    BY <1>1 DEF RowAt, ChunksBefore, Entries
  <2>8. ASSUME NEW k, NEW b, NEW s PROVE View(k, b, s)' = View(k, b, s)
    <3>1. [i \in 1 .. Len(Fed(s)) |-> mid[k][RowAt(call.chains[k], b, i)]]'
           = [i \in 1 .. Len(Fed(s)) |-> mid[k][RowAt(call.chains[k], b, i)]]
      BY <1>1, <2>4, <2>7
    <3>2. [i \in 1 .. Len(Fed(s)) |-> out[call.at[s] + i - 1]]' = [i \in 1 .. Len(Fed(s)) |-> out[call.at[s] + i - 1]]
      BY <1>1, <2>4
    <3>3. [i \in 1 .. Len(Fed(s)) |-> z[call.at[s] + i - 1]]' = [i \in 1 .. Len(Fed(s)) |-> z[call.at[s] + i - 1]]
      BY <1>1, <2>4
    <3>4. [e \in Kernel |-> Did(e, k, b, s)]' = [e \in Kernel |-> Did(e, k, b, s)]
      BY <2>6
    <3> QED BY <1>1, <3>1, <3>2, <3>3, <3>4 DEF View
  <2>9. \A k, b, s : EntryInv(k, b, s)' <=> EntryInv(k, b, s)
    BY <1>1, <2>4, <2>8 DEF EntryInv
  <2>10. InCall' /\ ChainIds' = ChainIds
    BY <1>1, <1>3 DEF InCall, ChainIds
  <2>11. (\A k \in ChainIds : \A b \in Entries(call.chains[k]) : \A s \in Seqs :
            Serves(call.chains[k], b, s) => EntryInv(k, b, s))'
    BY <1>1, <1>3, <2>9, <2>10 DEF GdnInv, Entries, Serves
  <2>12. (\A s \in Seqs : Fed(s) = <<>> => AtRest(s))'
    BY <1>3, <2>3, <2>4 DEF GdnInv
  <2>13. (\A s \in Seqs : (s \notin spec => acc[s] = 1) /\ (s \in spec => said[s] # <<>>))'
    BY <1>1 DEF GdnInv
  <2> QED BY <2>1, <2>2, <2>10, <2>11, <2>12, <2>13 DEF GdnInv
<1> QED BY <1>2, <1>3

(* What the invariant says of the answers and of the caches.               *)
LEMMA GdnAnswers ==
  GdnInv => AnswersRight
<1> SUFFICES ASSUME GdnInv, InCall, queue = <<>>, NEW s \in Seqs, NEW i \in DOMAIN call.fed[s]
             PROVE  /\ out[call.at[s] + i - 1] = Taken(said[s] \o SubSeq(call.fed[s], 1, i))
                    /\ z[call.at[s] + i - 1] = call.fed[s][i]
  BY DEF AnswersRight, InCall
<1>1. FeedOK
  BY DEF GdnInv, CallOK
<1>2. Fed(s) \in Seq(Int) /\ i \in 1 .. Len(Fed(s)) /\ Fed(s) # <<>>
  <2>1. Fed(s) \in Seq(Int)
    BY <1>1, FeedLengths
  <2>2. i \in DOMAIN Fed(s)
    BY DEF Fed
  <2> QED BY <2>1, <2>2
<1>3. PICK k \in ChainIds : \E b \in Entries(call.chains[k]) :
        Serves(call.chains[k], b, s) /\ EntryOK(call.chains[k], b, s)
  BY <1>2, EntryFound
<1>4. PICK b \in Entries(call.chains[k]) : Serves(call.chains[k], b, s) /\ EntryOK(call.chains[k], b, s)
  BY <1>3
<1>5. \A j \in 1 .. Len(Fed(s)) :
        out[call.at[s] + j - 1] = StateAt(said[s], Fed(s), j) /\ z[call.at[s] + j - 1] = Fed(s)[j]
  BY <1>4, EntryDone
<1> QED BY <1>2, <1>5 DEF StateAt, Fed

(* Between calls it is that the caches hold what was said.                 *)
LEMMA GdnCaches ==
  GdnInv => CachesHold
<1> SUFFICES ASSUME GdnInv, call = NoCall, NEW s \in Seqs, said[s] # <<>>
             PROVE  /\ ssm[SlotsOf(s)[acc[s] - 1]] = Taken(said[s])
                    /\ \A i \in 0 .. Width - 2 :
                         conv[SlotsOf(s)[0]][acc[s] - 1 + i] = Taken(said[s])[Len(said[s])].win[i + 2]
  BY DEF CachesHold
<1>1. ssm[SlotsOf(s)[acc[s] - 1]] = Taken(said[s]) /\ LineHolds(conv[SlotsOf(s)[0]], acc[s], said[s])
  BY DEF GdnInv, InCall, AtRest
<1>2. said[s] \in Seq(Int) /\ Len(said[s]) \in Nat \ {0}
  <2>1. said[s] \in Seq(Int)
    BY DEF GdnInv, GdnType
  <2> QED BY <2>1, EmptySeq, LenProperties
<1>3. Taken(said[s])[Len(said[s])] = [win |-> Win(said[s], Len(said[s])), ba |-> said[s][Len(said[s])]]
  BY <1>2, TakenFacts
<1>4. ASSUME NEW i \in 0 .. Width - 2
      PROVE  Win(said[s], Len(said[s]))[i + 2] = Nth(said[s], Len(said[s]) - Width + i + 2)
  <2>1. PICK n \in Nat : n = Len(said[s])
    BY <1>2
  <2>2. i + 2 \in 1 .. Width /\ n - Width + (i + 2) = n - Width + i + 2
    BY Sizes
  <2> QED BY <2>1, <2>2 DEF Win
<1> QED BY <1>1, <1>3, <1>4 DEF LineHolds

-----------------------------------------------------------------------------
(* The calls.  Those of a list, taken one by one.                          *)
LEMMA ThoseSteps ==
  ASSUME NEW list \in Seq(Seqs), NEW these
  PROVE  \E g : /\ Those(list, these) = g[Len(list)] /\ g[0] = <<>>
                /\ \A i \in 0 .. Len(list) : g[i] \in Seq(Seqs)
                /\ \A i \in 1 .. Len(list) : g[i] = IF list[i] \in these THEN Append(g[i - 1], list[i]) ELSE g[i - 1]
<1> DEFINE m == Len(list)
           S == Seq(Seqs)
           step(q, i) == IF list[i] \in these THEN Append(q, list[i]) ELSE q
           F == [i \in 1 .. m |-> [q \in S |-> step(q, i)]]
           those[i \in 0 .. m] == IF i = 0 THEN <<>>
                                  ELSE IF list[i] \in these THEN Append(those[i - 1], list[i]) ELSE those[i - 1]
<1>0. m \in Nat /\ \A i \in 1 .. m : list[i] \in Seqs
  BY LenProperties
<1>1. ASSUME NEW i \in 1 .. m, NEW q \in S PROVE step(q, i) \in S
  BY <1>0, AppendProperties
<1>2. \A i \in 1 .. m : F[i] \in [S -> S]
  BY <1>1
<1>3. <<>> \in S
  BY EmptySeq
<1> HIDE DEF S, F
<1>4. PICK g : Iterates(g, <<>>, F, m) /\ \A i \in 0 .. m : g[i] \in S
  <2> HIDE DEF m
  <2> QED BY <1>0, <1>2, <1>3, IteratesIn
<1>5. g = [i \in 0 .. m |-> IF i = 0 THEN <<>>
                           ELSE IF list[i] \in these THEN Append(g[i - 1], list[i]) ELSE g[i - 1]]
  <2>1. g = [i \in 0 .. m |-> IF i = 0 THEN <<>> ELSE F[i][g[i - 1]]]
    BY <1>4 DEF Iterates
  <2>2. ASSUME NEW i \in 0 .. m, i # 0 PROVE F[i][g[i - 1]] = step(g[i - 1], i)
    <3>1. i \in 1 .. m /\ i - 1 \in 0 .. m
      BY <1>0, <2>2
    <3> HIDE DEF step
    <3> QED BY <1>4, <3>1 DEF F
  <2> HIDE DEF m
  <2> QED BY <2>1, <2>2
<1>6. those = [i \in 0 .. m |-> IF i = 0 THEN <<>>
                               ELSE IF list[i] \in these THEN Append(those[i - 1], list[i]) ELSE those[i - 1]]
  <2> HIDE DEF m
  <2>1. \E r : r = [i \in 0 .. m |-> IF i = 0 THEN <<>>
                                    ELSE IF list[i] \in these THEN Append(r[i - 1], list[i]) ELSE r[i - 1]]
    BY <1>5
  <2> QED BY <2>1, Zenon
<1>7. Those(list, these) = those[m]
  BY DEF Those
<1> HIDE DEF those
<1>8. \A i \in 0 .. m : those[i] = IF i = 0 THEN <<>>
                               ELSE IF list[i] \in these THEN Append(those[i - 1], list[i]) ELSE those[i - 1]
  <2> HIDE DEF m
  <2> QED BY <1>6, Zenon
<1>9. \A i \in 0 .. m : those[i] \in S
  <2> DEFINE P == {i \in Nat : i <= m => those[i] \in S}
  <2> HIDE DEF m
  <2>1. 0 \in P
    BY <1>0, <1>3, <1>8
  <2>2. ASSUME NEW i \in Nat, i \in P PROVE i + 1 \in P
    <3> SUFFICES ASSUME i + 1 <= m PROVE those[i + 1] \in S
      OBVIOUS
    <3>1. i + 1 \in 0 .. m /\ i + 1 \in 1 .. m /\ (i + 1) - 1 = i /\ i + 1 # 0 /\ those[i] \in S
      BY <1>0, <2>2
    <3>2. those[i + 1] = step(those[i], i + 1)
      BY <1>8, <3>1
    <3> QED BY <1>1, <3>1, <3>2
  <2> HIDE DEF P
  <2>3. Nat \subseteq P
    BY <2>1, <2>2, NatInduct, Zenon
  <2> QED BY <1>0, <2>3 DEF P
<1>10. those[0] = <<>>
  <2>1. 0 \in 0 .. m
    BY <1>0
  <2> QED BY <1>8, <2>1
<1>11. ASSUME NEW i \in 1 .. m
       PROVE  those[i] = IF list[i] \in these THEN Append(those[i - 1], list[i]) ELSE those[i - 1]
  <2>1. i \in 0 .. m /\ i # 0
    BY <1>0
  <2> QED BY <1>8, <2>1
<1> QED BY <1>7, <1>9, <1>10, <1>11 DEF S

Distinct(q) == \A i, j \in 1 .. Len(q) : q[i] = q[j] => i = j

(* They are the list's, each once.                                         *)
LEMMA ThoseFacts ==
  ASSUME NEW list \in Seq(Seqs), Distinct(list), NEW these
  PROVE  /\ Those(list, these) \in Seq(Seqs) /\ Distinct(Those(list, these))
         /\ Len(Those(list, these)) <= Len(list)
         /\ \A i \in 1 .. Len(Those(list, these)) : Those(list, these)[i] \in these \cap ToSet(list)
         /\ \A x \in these \cap ToSet(list) : \E i \in 1 .. Len(Those(list, these)) : Those(list, these)[i] = x
<1>a. PICK g : /\ Those(list, these) = g[Len(list)] /\ g[0] = <<>>
               /\ \A i \in 0 .. Len(list) : g[i] \in Seq(Seqs)
               /\ \A i \in 1 .. Len(list) : g[i] = IF list[i] \in these THEN Append(g[i - 1], list[i]) ELSE g[i - 1]
  <2> HIDE DEF Distinct
  <2> QED BY ThoseSteps
<1> DEFINE m == Len(list)
<1>0. m \in Nat /\ (\A i \in 1 .. m : list[i] \in Seqs) /\ ToSet(list) = {list[i] : i \in 1 .. m}
  BY LenProperties DEF ToSet
<1>1. /\ Those(list, these) = g[m] /\ g[0] = <<>>
      /\ \A i \in 0 .. m : g[i] \in Seq(Seqs)
      /\ \A i \in 1 .. m : g[i] = IF list[i] \in these THEN Append(g[i - 1], list[i]) ELSE g[i - 1]
  BY <1>a
<1> DEFINE Good(q, n) ==
             /\ Len(q) <= n /\ Distinct(q)
             /\ \A i \in 1 .. Len(q) : q[i] \in these /\ \E j \in 1 .. n : q[i] = list[j]
             /\ \A j \in 1 .. n : list[j] \in these => \E i \in 1 .. Len(q) : q[i] = list[j]
           P == {n \in Nat : n <= m => Good(g[n], n)}
<1> HIDE DEF m
<1>2. 0 \in P
  <2>1. Len(g[0]) = 0
    BY <1>1, EmptySeq
  <2> QED BY <2>1 DEF Distinct
<1>3. ASSUME NEW n \in Nat, n \in P PROVE n + 1 \in P
  <2> SUFFICES ASSUME n + 1 <= m PROVE Good(g[n + 1], n + 1)
    OBVIOUS
  <2>1. n + 1 \in 1 .. m /\ (n + 1) - 1 = n /\ n \in 0 .. m /\ n + 1 \in 0 .. m /\ Good(g[n], n) /\ g[n] \in Seq(Seqs)
    BY <1>0, <1>1, <1>3
  <2> DEFINE q == g[n]
             y == list[n + 1]
  <2>q. q \in Seq(Seqs) /\ Len(q) \in Nat /\ y \in Seqs
    BY <1>0, <2>1, LenProperties
  <2>2. CASE y \notin these
    <3>1. g[n + 1] = q
      BY <1>1, <2>1, <2>2
    <3>2. \A j \in 1 .. n + 1 : j \in 1 .. n \/ j = n + 1
      OBVIOUS
    <3>3. \A j \in 1 .. n : j \in 1 .. n + 1
      OBVIOUS
    <3>4. Len(q) <= n + 1
      BY <2>1, <2>q
    <3> HIDE DEF q
    <3> QED BY <2>1, <2>2, <3>1, <3>2, <3>3, <3>4 DEF q
  <2>3. CASE y \in these
    <3> DEFINE w == Append(q, y)
    <3>1. g[n + 1] = w
      BY <1>1, <2>1, <2>3
    <3>g. Good(q, n)
      BY <2>1
    <3> HIDE DEF q, y
    <3>2. Len(w) = Len(q) + 1 /\ w[Len(q) + 1] = y /\ \A i \in 1 .. Len(q) : w[i] = q[i]
      BY <2>q, AppendProperties
    <3> HIDE DEF w
    <3>3. PICK l \in Nat : l = Len(q)
      BY <2>q
    <3>4. Len(w) = l + 1 /\ l + 1 \in 1 .. l + 1 /\ l <= n
          /\ (\A i \in 1 .. l + 1 : i \in 1 .. l \/ i = l + 1) /\ \A i \in 1 .. l : i \in 1 .. l + 1
      BY <3>g, <3>2, <3>3
    <3>5. /\ \A i \in 1 .. l : q[i] \in these /\ \E j \in 1 .. n : q[i] = list[j]
          /\ \A j \in 1 .. n : list[j] \in these => \E i \in 1 .. l : q[i] = list[j]
          /\ \A i, j \in 1 .. l : q[i] = q[j] => i = j
      BY <3>g, <3>3 DEF Distinct
    <3>6. w[l + 1] = y /\ \A i \in 1 .. l : w[i] = q[i]
      BY <3>2, <3>3
    <3>7. \A i \in 1 .. l : q[i] # y
      <4> SUFFICES ASSUME NEW i \in 1 .. l, q[i] = y PROVE FALSE
        OBVIOUS
      <4>1. PICK j \in 1 .. n : q[i] = list[j]
        BY <3>5
      <4>2. j \in 1 .. m /\ n + 1 \in 1 .. m /\ list[j] = list[n + 1]
        BY <1>0, <2>1, <4>1 DEF y
      <4>3. j = n + 1
        BY <4>2 DEF Distinct, m
      <4> QED BY <4>3
    <3>8. (\A j \in 1 .. n + 1 : j \in 1 .. n \/ j = n + 1) /\ n + 1 \in 1 .. n + 1 /\ \A j \in 1 .. n : j \in 1 .. n + 1
      OBVIOUS
    <3>9. Distinct(w)
      BY <3>4, <3>5, <3>6, <3>7 DEF Distinct
    <3>10. \A i \in 1 .. Len(w) : w[i] \in these /\ \E j \in 1 .. n + 1 : w[i] = list[j]
      BY <2>3, <3>4, <3>5, <3>6, <3>8 DEF y
    <3>11. \A j \in 1 .. n + 1 : list[j] \in these => \E i \in 1 .. Len(w) : w[i] = list[j]
      BY <3>4, <3>5, <3>6, <3>8 DEF y
    <3>12. Len(w) <= n + 1
      BY <3>4
    <3> QED BY <3>1, <3>9, <3>10, <3>11, <3>12
  <2> QED BY <2>2, <2>3
<1>n. m \in Nat
  BY <1>0
<1> HIDE DEF P
<1>4. Nat \subseteq P
  BY <1>2, <1>3, NatInduct, Zenon
<1>5. Good(g[m], m) /\ g[m] \in Seq(Seqs)
  <2>1. m \in P /\ m <= m /\ m \in 0 .. m
    BY <1>4, <1>n
  <2> HIDE DEF Good
  <2>2. Good(g[m], m)
    BY <2>1 DEF P
  <2> QED BY <1>1, <2>1, <2>2
<1> DEFINE q == g[m]
<1>6. Those(list, these) = q
  BY <1>1
<1>7. /\ Len(q) <= m /\ Distinct(q) /\ q \in Seq(Seqs)
      /\ \A i \in 1 .. Len(q) : q[i] \in these /\ q[i] \in ToSet(list)
      /\ \A x \in these \cap ToSet(list) : \E i \in 1 .. Len(q) : q[i] = x
  <2>1. Len(q) <= m /\ Distinct(q) /\ q \in Seq(Seqs)
    BY <1>5
  <2>2. ASSUME NEW i \in 1 .. Len(q) PROVE q[i] \in these /\ q[i] \in ToSet(list)
    <3>1. q[i] \in these /\ \E j \in 1 .. m : q[i] = list[j]
      BY <1>5
    <3> HIDE DEF q
    <3> QED BY <1>0, <3>1
  <2>3. ASSUME NEW x \in these \cap ToSet(list) PROVE \E i \in 1 .. Len(q) : q[i] = x
    <3>1. PICK j \in 1 .. m : x = list[j]
      BY <1>0
    <3>2. list[j] \in these => \E i \in 1 .. Len(q) : q[i] = list[j]
      BY <1>5
    <3> HIDE DEF q
    <3> QED BY <3>1, <3>2
  <2> QED BY <2>1, <2>2, <2>3
<1> HIDE DEF q
<1> QED BY <1>6, <1>7 DEF m

(* What the host hands a chain: a list of sequences, how many tokens each  *)
(* has, and where they start.                                              *)
Handed(list, n, pads) ==
  /\ list \in Seq(Seqs) /\ list # <<>> /\ Distinct(list) /\ pads \in 0 .. 1
  /\ \A b \in 1 .. Len(list) : n[list[b]] \in Nat \ {0}

ChainStarts(c, path, list, n, pads) ==
  /\ c.path = path /\ c.batch = Len(list) + pads /\ c.batch \in Nat \ {0} /\ Len(list) \in Nat \ {0}
  /\ c.start \in [0 .. c.batch -> Nat] /\ c.start[0] = 0
  /\ \A b \in 0 .. Len(list) - 1 : c.start[b + 1] = c.start[b] + n[list[b + 1]]
  /\ \A b \in Len(list) .. c.batch - 1 : c.start[b + 1] = c.start[b]
  /\ \A b \in 0 .. c.batch : \A d \in b .. c.batch : c.start[b] <= c.start[d]

(* The host's prefix sums are the places of a chain's entries.             *)
LEMMA ChainStartsRight ==
  ASSUME NEW path, NEW list, NEW n, NEW at, NEW pads, Handed(list, n, pads),
         NEW c, c = Chain(path, list, n, at, pads)
  PROVE  ChainStarts(c, path, list, n, pads)
<1> DEFINE m == Len(list)
           size == [b \in 0 .. m + pads - 1 |-> IF b < m THEN n[list[b + 1]] ELSE 0]
           begin == PartialSums(size)
<1>0. m \in Nat \ {0} /\ pads \in 0 .. 1
  BY LenProperties DEF Handed
<1>1. c.path = path /\ c.batch = m + pads /\ c.start = [b \in 0 .. m + pads |-> begin[b]]
  BY DEF Chain
<1>2. \A b \in 0 .. m - 1 : n[list[b + 1]] \in Nat
  <2>1. \A b \in 0 .. m - 1 : b + 1 \in 1 .. m
    BY <1>0
  <2> HIDE DEF m
  <2> QED BY <2>1 DEF Handed, m
<1> HIDE DEF m, begin
<1>3. \A b \in 0 .. (m + pads) - 1 : size[b] \in Nat
  BY <1>0, <1>2
<1>4. m + pads \in Nat \ {0}
  BY <1>0
<1>5. /\ begin[0] = 0
      /\ \A i \in 0 .. m + pads : begin[i] \in Nat
      /\ \A i \in 0 .. (m + pads) - 1 : begin[i + 1] = begin[i] + size[i]
      /\ \A i \in 0 .. m + pads : \A j \in i .. m + pads : begin[i] <= begin[j]
  <2> HIDE DEF size
  <2> QED BY <1>3, <1>4, RunningFacts DEF begin
<1>6. c.start \in [0 .. c.batch -> Nat] /\ \A b \in 0 .. m + pads : c.start[b] = begin[b]
  BY <1>1, <1>5
<1>7. c.start[0] = 0
  BY <1>4, <1>5, <1>6
<1>8. ASSUME NEW b \in 0 .. m - 1 PROVE c.start[b + 1] = c.start[b] + n[list[b + 1]]
  <2>1. b \in 0 .. m + pads - 1 /\ b \in 0 .. m + pads /\ b + 1 \in 0 .. m + pads /\ b < m
    BY <1>0
  <2>2. size[b] = n[list[b + 1]]
    BY <2>1
  <2> HIDE DEF size
  <2>3. begin[b + 1] = begin[b] + size[b]
    BY <1>0, <1>5, <2>1
  <2>4. c.start[b + 1] = begin[b + 1] /\ c.start[b] = begin[b]
    BY <1>6, <2>1
  <2> QED BY <2>2, <2>3, <2>4
<1>9. ASSUME NEW b \in m .. c.batch - 1 PROVE c.start[b + 1] = c.start[b]
  <2>1. b \in 0 .. m + pads - 1 /\ b \in 0 .. m + pads /\ b + 1 \in 0 .. m + pads /\ ~(b < m)
    BY <1>0, <1>1
  <2>2. size[b] = 0
    BY <2>1
  <2>3. begin[b] \in Nat
    BY <1>5, <2>1
  <2> HIDE DEF size
  <2>4. begin[b + 1] = begin[b] + size[b]
    BY <1>0, <1>5, <2>1
  <2>5. c.start[b + 1] = begin[b + 1] /\ c.start[b] = begin[b]
    BY <1>6, <2>1
  <2> QED BY <2>2, <2>3, <2>4, <2>5
<1>10. ASSUME NEW b \in 0 .. c.batch, NEW d \in b .. c.batch PROVE c.start[b] <= c.start[d]
  <2>1. b \in 0 .. m + pads /\ d \in b .. m + pads /\ d \in 0 .. m + pads
    BY <1>1, <1>4
  <2> QED BY <1>5, <1>6, <2>1
<1>11. c.batch \in Nat \ {0}
  BY <1>1, <1>4
<1> QED BY <1>0, <1>1, <1>6, <1>7, <1>8, <1>9, <1>10, <1>11 DEF m, ChainStarts

(* Its entries, and the tokens of each.                                    *)
ChainEntries(c, path, list, n, at, pads) ==
  /\ \A b \in 0 .. Len(list) - 1 :
       /\ c.slot[b] = SlotsOf(list[b + 1]) /\ c.acc[b] = acc[list[b + 1]]
       /\ c.init[b] = (path = "native" \/ said[list[b + 1]] # <<>>)
       /\ \A i \in 1 .. n[list[b + 1]] : c.indx[c.start[b] + i - 1] = at[list[b + 1]] + i - 1
  /\ \A b \in Len(list) .. c.batch - 1 : c.slot[b] = PadRow /\ c.init[b] = (path = "native")
  /\ DOMAIN c.indx = 0 .. c.start[Len(list)] + (IF path = "native" THEN pads ELSE 0) - 1
  /\ \A t \in DOMAIN c.indx : t >= c.start[Len(list)] => c.indx[t] = t

(* The entries the host makes are those of the listed sequences.           *)
LEMMA ChainEntriesRight ==
  ASSUME NEW path, NEW list, NEW n, NEW at, NEW pads, Handed(list, n, pads), at \in [Seqs -> Nat],
         NEW c, c = Chain(path, list, n, at, pads)
  PROVE  ChainEntries(c, path, list, n, at, pads)
<1> DEFINE m == Len(list)
           size == [b \in 0 .. m + pads - 1 |-> IF b < m THEN n[list[b + 1]] ELSE 0]
           begin == PartialSums(size)
           of(t) == First({b \in 0 .. m - 1 : t < begin[b + 1]})
           extra == IF path = "native" THEN pads ELSE 0
<1>1. ChainStarts(c, path, list, n, pads)
  <2>1. ChainStarts(Chain(path, list, n, at, pads), path, list, n, pads)
    BY ChainStartsRight
  <2> QED BY <2>1
<1>2. /\ c.slot = [b \in 0 .. m + pads - 1 |-> IF b < m THEN SlotsOf(list[b + 1]) ELSE [j \in 0 .. NumSpec - 1 |-> Pad]]
      /\ c.acc = [b \in 0 .. m + pads - 1 |-> IF b < m THEN acc[list[b + 1]] ELSE 0]
      /\ c.init = [b \in 0 .. m + pads - 1 |-> path = "native" \/ (b < m /\ said[list[b + 1]] # <<>>)]
      /\ c.start = [b \in 0 .. m + pads |-> begin[b]]
  BY DEF Chain
<1>3. c.indx = [t \in 0 .. begin[m] + extra - 1 |-> IF t < begin[m] THEN at[list[of(t) + 1]] + t - begin[of(t)] ELSE t]
  BY DEF Chain
<1>4. m \in Nat \ {0} /\ pads \in 0 .. 1 /\ c.batch = m + pads /\ extra \in 0 .. 1 /\ m \in 0 .. m + pads
  BY <1>1 DEF ChainStarts, Handed
<1>5. \A b \in 0 .. m - 1 : list[b + 1] \in Seqs /\ b + 1 \in 1 .. m /\ n[list[b + 1]] \in Nat \ {0}
  <2>1. \A b \in 0 .. m - 1 : b + 1 \in 1 .. m
    BY <1>4
  <2>2. \A b \in 1 .. m : list[b] \in Seqs
    BY LenProperties DEF Handed
  <2>3. \A b \in 1 .. m : n[list[b]] \in Nat \ {0}
    BY DEF Handed
  <2> HIDE DEF m
  <2> QED BY <2>1, <2>2, <2>3
<1>6. /\ \A b \in 0 .. m + pads : begin[b] = c.start[b] /\ begin[b] \in Nat
      /\ \A b \in 0 .. m - 1 : c.start[b + 1] = c.start[b] + n[list[b + 1]]
      /\ \A b \in 0 .. m + pads : \A d \in b .. m + pads : c.start[b] <= c.start[d]
  <2>1. \A b \in 0 .. m + pads : begin[b] = c.start[b]
    BY <1>2
  <2> HIDE DEF m, begin
  <2> QED BY <1>1, <1>4, <2>1 DEF ChainStarts, m
<1> HIDE DEF m, begin, extra
<1>7. ASSUME NEW b \in 0 .. m - 1
      PROVE  /\ c.slot[b] = SlotsOf(list[b + 1]) /\ c.acc[b] = acc[list[b + 1]]
             /\ c.init[b] = (path = "native" \/ said[list[b + 1]] # <<>>)
  <2>1. b \in 0 .. m + pads - 1 /\ b < m
    BY <1>4
  <2> QED BY <1>2, <2>1
<1>8. ASSUME NEW b \in m .. c.batch - 1 PROVE c.slot[b] = PadRow /\ c.init[b] = (path = "native")
  <2>1. b \in 0 .. m + pads - 1 /\ ~(b < m)
    BY <1>4
  <2> QED BY <1>2, <2>1 DEF PadRow
<1>9. DOMAIN c.indx = 0 .. c.start[m] + extra - 1
  <2>1. DOMAIN c.indx = 0 .. begin[m] + extra - 1
    BY <1>3
  <2>2. begin[m] = c.start[m]
    BY <1>4, <1>6
  <2> QED BY <2>1, <2>2
<1>10. ASSUME NEW t \in DOMAIN c.indx, t >= c.start[m] PROVE c.indx[t] = t
  <2>1. begin[m] = c.start[m] /\ begin[m] \in Nat
    BY <1>4, <1>6
  <2>2. t \in 0 .. begin[m] + extra - 1 /\ ~(t < begin[m])
    BY <1>4, <1>9, <1>10, <2>1
  <2> QED BY <1>3, <2>2
<1>11. ASSUME NEW b \in 0 .. m - 1, NEW i \in 1 .. n[list[b + 1]]
       PROVE  c.indx[c.start[b] + i - 1] = at[list[b + 1]] + i - 1
  <2> DEFINE t == c.start[b] + i - 1
  <2>0. b \in 0 .. m + pads /\ b + 1 \in 0 .. m + pads /\ b + 1 \in 1 .. m /\ m \in (b + 1) .. m + pads
    BY <1>4
  <2>1. /\ c.start[b] \in Nat /\ c.start[b + 1] \in Nat /\ c.start[m] \in Nat
        /\ c.start[b + 1] = c.start[b] + n[list[b + 1]] /\ c.start[b + 1] <= c.start[m]
        /\ begin[b] = c.start[b] /\ begin[m] = c.start[m] /\ begin[b + 1] = c.start[b + 1]
    BY <1>4, <1>6, <2>0
  <2>2. t \in Nat /\ t < c.start[b + 1] /\ t >= c.start[b] /\ t < begin[m] /\ t - c.start[b] = i - 1
    BY <1>5, <2>1
  <2> HIDE DEF t
  <2>3. of(t) = b
    <3> DEFINE T == {d \in 0 .. m - 1 : t < begin[d + 1]}
    <3>1. T \subseteq Nat /\ b \in T
      BY <1>4, <2>1, <2>2
    <3>2. ASSUME NEW d \in T PROVE b <= d
      <4> SUFFICES ASSUME d < b PROVE FALSE
        BY <3>1
      <4>1. d + 1 \in 0 .. m + pads /\ b \in (d + 1) .. m + pads
        BY <1>4
      <4>2. c.start[d + 1] <= c.start[b] /\ begin[d + 1] = c.start[d + 1] /\ begin[d + 1] \in Nat
        BY <1>6, <4>1
      <4> QED BY <2>1, <2>2, <4>2
    <3> HIDE DEF T
    <3>3. First(T) = b
      BY <3>1, <3>2, LeastOf
    <3> QED BY <3>3 DEF T
  <2>4. t \in 0 .. begin[m] + extra - 1
    BY <1>4, <2>1, <2>2
  <2>5. c.indx[t] = at[list[of(t) + 1]] + t - begin[of(t)]
    <3> HIDE DEF of
    <3> QED BY <1>3, <2>2, <2>4
  <2>6. c.indx[t] = at[list[b + 1]] + t - begin[b]
    <3> HIDE DEF of
    <3> QED BY <2>3, <2>5
  <2>7. at[list[b + 1]] \in Nat
    BY <1>5
  <2> QED BY <2>1, <2>2, <2>6, <2>7 DEF t
<1> QED BY <1>7, <1>8, <1>9, <1>10, <1>11 DEF m, extra, ChainEntries

(* Sizes of at least one sum to at least their number.                     *)
LEMMA RunningAtLeast ==
  ASSUME NEW size, NEW m \in Nat, \A i \in 0 .. m - 1 : size[i] \in Nat \ {0}
  PROVE  /\ \A i \in 0 .. m : PartialSums(size)[i] >= i
         /\ (\A i \in 0 .. m - 1 : size[i] = 1) => PartialSums(size)[m] = m
<1> DEFINE g == PartialSums(size)
<1>1. /\ g[0] = 0
      /\ \A i \in 0 .. m : g[i] \in Nat
      /\ \A i \in 0 .. m - 1 : g[i + 1] = g[i] + size[i]
  BY RunningFacts
<1> HIDE DEF g
<1> DEFINE P == {i \in Nat : i <= m => g[i] >= i /\ ((\A j \in 0 .. m - 1 : size[j] = 1) => g[i] = i)}
<1>2. 0 \in P
  BY <1>1
<1>3. ASSUME NEW i \in Nat, i \in P PROVE i + 1 \in P
  <2> SUFFICES ASSUME i + 1 <= m
               PROVE  g[i + 1] >= i + 1 /\ ((\A j \in 0 .. m - 1 : size[j] = 1) => g[i + 1] = i + 1)
    OBVIOUS
  <2>1. i \in 0 .. m - 1 /\ i \in 0 .. m
    OBVIOUS
  <2>2. g[i + 1] = g[i] + size[i] /\ g[i] \in Nat /\ size[i] \in Nat \ {0} /\ g[i] >= i
        /\ ((\A j \in 0 .. m - 1 : size[j] = 1) => g[i] = i)
    BY <1>1, <1>3, <2>1
  <2>3. g[i + 1] >= i + 1
    BY <2>2
  <2>4. ASSUME \A j \in 0 .. m - 1 : size[j] = 1 PROVE g[i + 1] = i + 1
    <3>1. size[i] = 1 /\ g[i] = i
      BY <2>1, <2>2, <2>4
    <3> QED BY <2>2, <3>1
  <2> QED BY <2>3, <2>4
<1> HIDE DEF P
<1>4. Nat \subseteq P
  BY <1>2, <1>3, NatInduct, Zenon
<1>5. ASSUME NEW i \in 0 .. m PROVE g[i] >= i
  <2>1. i \in P /\ i <= m
    BY <1>4
  <2> QED BY <2>1 DEF P
<1>6. ASSUME \A j \in 0 .. m - 1 : size[j] = 1 PROVE g[m] = m
  <2>1. m \in P /\ m <= m
    BY <1>4
  <2> QED BY <1>6, <2>1 DEF P
<1> QED BY <1>5, <1>6 DEF g

-----------------------------------------------------------------------------
(* An order of the callers names its sequences once.                       *)
LEMMA OrderFacts ==
  ASSUME NEW order \in Orders
  PROVE  /\ order \in Seq(Seqs) /\ order # <<>> /\ Distinct(order) /\ DOMAIN order = 1 .. Len(order)
         /\ Len(order) \in Nat \ {0}
         /\ ToSet(order) = {order[i] : i \in 1 .. Len(order)} /\ ToSet(order) \subseteq Seqs
<1>1. order # <<>> /\ IsInjective(order) /\ \E m \in 0 .. Cardinality(Seqs) : order \in [1 .. m -> Seqs]
  BY DEF Orders, SeqOf
<1>2. PICK m \in 0 .. Cardinality(Seqs) : order \in [1 .. m -> Seqs]
  BY <1>1
<1>3. order \in Seq(Seqs) /\ Len(order) = m /\ m \in Nat /\ DOMAIN order = 1 .. m
  BY <1>2, Sizes
<1>4. m # 0
  BY <1>1, <1>3, EmptySeq
<1>5. Distinct(order)
  BY <1>1, <1>3 DEF IsInjective, Distinct
<1>6. ToSet(order) = {order[i] : i \in 1 .. m}
  BY <1>3 DEF ToSet
<1>7. ToSet(order) \subseteq Seqs
  BY <1>2, <1>6
<1> QED BY <1>1, <1>3, <1>4, <1>5, <1>6, <1>7

(* Where the tokens of the sequences lie in the call.                      *)
Placed(order, n, at, total) ==
  /\ total \in Nat \ {0} /\ total >= Len(order)
  /\ at \in [Seqs -> Nat]
  /\ \A s \in ToSet(order) : n[s] \in Nat \ {0} /\ at[s] + n[s] <= total
  /\ \A s, r \in ToSet(order) : s # r => at[s] + n[s] <= at[r] \/ at[r] + n[r] <= at[s]

(* The tokens of a call are those of its sequences, each at its place.     *)
LEMMA PlacesFit ==
  ASSUME NEW order \in Orders, NEW n, \A s \in ToSet(order) : n[s] \in Nat \ {0},
         NEW begin, begin = PartialSums([i \in 0 .. Len(order) - 1 |-> n[order[i + 1]]]),
         NEW at, at = [s \in Seqs |-> IF s \in ToSet(order)
                                      THEN begin[(CHOOSE i \in DOMAIN order : order[i] = s) - 1] ELSE 0]
  PROVE  Placed(order, n, at, begin[Len(order)])
<1> DEFINE m == Len(order)
           size == [i \in 0 .. m - 1 |-> n[order[i + 1]]]
           place(s) == CHOOSE i \in DOMAIN order : order[i] = s
<1>0. /\ m \in Nat \ {0} /\ DOMAIN order = 1 .. m /\ ToSet(order) = {order[i] : i \in 1 .. m}
      /\ Distinct(order) /\ ToSet(order) \subseteq Seqs
  BY OrderFacts
<1>1. ASSUME NEW i \in 0 .. m - 1 PROVE i + 1 \in 1 .. m /\ size[i] = n[order[i + 1]] /\ size[i] \in Nat \ {0}
  <2>1. i + 1 \in 1 .. m
    BY <1>0
  <2>2. order[i + 1] \in ToSet(order)
    BY <1>0, <2>1
  <2> QED BY <2>1, <2>2
<1>2. begin = PartialSums(size)
  OBVIOUS
<1> HIDE DEF m, size
<1>3. /\ begin[0] = 0 /\ \A i \in 0 .. m : begin[i] \in Nat /\ begin[i] >= i
      /\ \A i \in 0 .. m - 1 : begin[i + 1] = begin[i] + size[i]
      /\ \A i \in 0 .. m : \A j \in i .. m : begin[i] <= begin[j]
  <2>1. \A i \in 0 .. m - 1 : size[i] \in Nat
    BY <1>1
  <2>2. m \in Nat
    BY <1>0
  <2>3. /\ begin[0] = 0 /\ \A i \in 0 .. m : begin[i] \in Nat
        /\ \A i \in 0 .. m - 1 : begin[i + 1] = begin[i] + size[i]
        /\ \A i \in 0 .. m : \A j \in i .. m : begin[i] <= begin[j]
    BY <1>2, <2>1, <2>2, RunningFacts
  <2>4. \A i \in 0 .. m : begin[i] >= i
    BY <1>1, <1>2, <2>2, RunningAtLeast
  <2> QED BY <2>3, <2>4
<1>4. ASSUME NEW s \in ToSet(order)
      PROVE  /\ place(s) - 1 \in 0 .. m - 1 /\ order[place(s)] = s /\ at[s] = begin[place(s) - 1]
             /\ at[s] \in Nat /\ begin[place(s)] = at[s] + n[s] /\ begin[place(s)] <= begin[m]
             /\ place(s) \in 1 .. m
  <2>1. \E i \in DOMAIN order : order[i] = s
    BY <1>0
  <2>2. place(s) \in 1 .. m /\ order[place(s)] = s
    BY <1>0, <2>1
  <2>3. at[s] = begin[place(s) - 1]
    BY <1>0
  <2> HIDE DEF place
  <2>4. place(s) - 1 \in 0 .. m - 1 /\ (place(s) - 1) + 1 = place(s) /\ place(s) - 1 \in 0 .. m
        /\ m \in place(s) .. m /\ place(s) \in 0 .. m
    BY <1>0, <2>2
  <2>5. size[place(s) - 1] = n[s]
    BY <1>1, <2>2, <2>4
  <2>6. begin[place(s)] = begin[place(s) - 1] + size[place(s) - 1]
    BY <1>3, <2>4
  <2>7. begin[place(s) - 1] \in Nat /\ begin[place(s)] <= begin[m]
    BY <1>3, <2>4
  <2> QED BY <2>2, <2>3, <2>4, <2>5, <2>6, <2>7
<1>5. at \in [Seqs -> Nat]
  <2>1. \A s \in Seqs : s \notin ToSet(order) => at[s] = 0
    OBVIOUS
  <2>2. \A s \in ToSet(order) : at[s] \in Nat
    BY <1>4
  <2>3. at = [s \in Seqs |-> at[s]]
    OBVIOUS
  <2>4. \A s \in Seqs : at[s] \in Nat
    BY <2>1, <2>2
  <2> QED BY <2>3, <2>4
<1> HIDE DEF place
<1>6. ASSUME NEW s \in ToSet(order), NEW r \in ToSet(order), place(s) < place(r)
      PROVE  at[s] + n[s] <= at[r]
  <2>a. place(s) \in 1 .. m /\ begin[place(s)] = at[s] + n[s]
    BY <1>4, Zenon
  <2>b. place(r) \in 1 .. m /\ at[r] = begin[place(r) - 1]
    BY <1>4, Zenon
  <2>1. place(s) \in 0 .. m /\ place(r) - 1 \in place(s) .. m
    BY <1>0, <1>6, <2>a, <2>b
  <2>2. begin[place(s)] <= begin[place(r) - 1]
    BY <1>3, <2>1, Zenon
  <2> QED BY <2>2, <2>a, <2>b
<1>7. ASSUME NEW s \in ToSet(order), NEW r \in ToSet(order), s # r
      PROVE  at[s] + n[s] <= at[r] \/ at[r] + n[r] <= at[s]
  <2>a. place(s) \in 1 .. m /\ order[place(s)] = s
    BY <1>4, Zenon
  <2>b. place(r) \in 1 .. m /\ order[place(r)] = r
    BY <1>4, Zenon
  <2>1. place(s) \in 1 .. m /\ place(r) \in 1 .. m /\ place(s) # place(r)
    BY <1>7, <2>a, <2>b, Zenon
  <2>2. place(s) < place(r) \/ place(r) < place(s)
    BY <1>0, <2>1
  <2> QED BY <1>6, <2>2
<1>8. begin[m] \in Nat \ {0} /\ begin[m] >= m
  <2>1. m \in 0 .. m
    BY <1>0
  <2> QED BY <1>0, <1>3, <2>1
<1>9. ASSUME NEW s \in ToSet(order) PROVE n[s] \in Nat \ {0} /\ at[s] + n[s] <= begin[m]
  <2>1. begin[place(s)] = at[s] + n[s] /\ begin[place(s)] <= begin[m]
    BY <1>4
  <2> QED BY <2>1
<1> DEFINE total == begin[m]
<1>10. /\ total \in Nat \ {0} /\ total >= m
       /\ \A s \in ToSet(order) : n[s] \in Nat \ {0} /\ at[s] + n[s] <= total
  BY <1>8, <1>9
<1>11. total = begin[Len(order)] /\ m = Len(order)
  BY DEF m
<1> HIDE DEF total
<1>12. Placed(order, n, at, total)
  BY <1>5, <1>7, <1>10, <1>11 DEF Placed
<1> QED BY <1>11, <1>12

-----------------------------------------------------------------------------
(* The chains of a call: the sequences of some kinds each, every kind in   *)
(* one of them.                                                            *)
OfKind(order, kind, kinds) == Those(order, {s \in ToSet(order) : kind[s] \in kinds})

ChainFor(c, path, kinds, order, kind, n, at, pads) ==
  /\ OfKind(order, kind, kinds) # <<>>
  /\ c = Chain(path, OfKind(order, kind, kinds), n, at, pads)
  /\ path \in {"spec", "native", "chunk"}
  /\ path = "spec" => kinds = {"spec"}
  /\ path = "native" => kinds = {"decode"}
  /\ path = "chunk" => kinds \subseteq {"decode", "prefill"} /\ pads = 0

Divided(chains, m, path, kinds, order, kind, n, at, pads) ==
  /\ m \in {1, 2} /\ Len(chains) = m /\ DOMAIN chains = 1 .. m
  /\ \A k \in 1 .. m : ChainFor(chains[k], path[k], kinds[k], order, kind, n, at, pads)
  /\ \A k, l \in 1 .. m : k # l => kinds[k] \cap kinds[l] = {}
  /\ \A s \in ToSet(order) : \E k \in 1 .. m : kind[s] \in kinds[k]

LEMMA OfKindFacts ==
  ASSUME NEW order \in Orders, NEW kind, NEW kinds
  PROVE  /\ OfKind(order, kind, kinds) \in Seq(Seqs) /\ Distinct(OfKind(order, kind, kinds))
         /\ Len(OfKind(order, kind, kinds)) \in Nat /\ Len(OfKind(order, kind, kinds)) <= Len(order)
         /\ \A i \in 1 .. Len(OfKind(order, kind, kinds)) :
              /\ OfKind(order, kind, kinds)[i] \in ToSet(order)
              /\ kind[OfKind(order, kind, kinds)[i]] \in kinds
         /\ \A s \in ToSet(order) : kind[s] \in kinds =>
              \E i \in 1 .. Len(OfKind(order, kind, kinds)) : OfKind(order, kind, kinds)[i] = s
         /\ OfKind(order, kind, kinds) = <<>> => \A s \in ToSet(order) : kind[s] \notin kinds
<1> DEFINE these == {s \in ToSet(order) : kind[s] \in kinds}
           q == Those(order, these)
<1>1. order \in Seq(Seqs) /\ Distinct(order)
  BY OrderFacts
<1>2. /\ q \in Seq(Seqs) /\ Distinct(q) /\ Len(q) <= Len(order)
      /\ \A i \in 1 .. Len(q) : q[i] \in these \cap ToSet(order)
      /\ \A x \in these \cap ToSet(order) : \E i \in 1 .. Len(q) : q[i] = x
  <2> HIDE DEF these
  <2> QED BY <1>1, ThoseFacts
<1>3. OfKind(order, kind, kinds) = q
  BY DEF OfKind
<1> HIDE DEF q
<1>4. Len(q) \in Nat /\ (q = <<>> => Len(q) = 0)
  BY <1>2, LenProperties, EmptySeq
<1>5. \A s \in ToSet(order) : kind[s] \in kinds => \E i \in 1 .. Len(q) : q[i] = s
  BY <1>2
<1>6. q = <<>> => \A s \in ToSet(order) : kind[s] \notin kinds
  BY <1>4, <1>5
<1>7. \A i \in 1 .. Len(q) : q[i] \in ToSet(order) /\ kind[q[i]] \in kinds
  BY <1>2
<1> QED BY <1>2, <1>3, <1>4, <1>5, <1>6, <1>7

LEMMA OneChain ==
  ASSUME NEW order \in Orders, NEW kind, NEW kinds, NEW n, NEW at, NEW pads, NEW path, NEW c,
         ChainFor(c, path, kinds, order, kind, n, at, pads),
         \A s \in ToSet(order) : kind[s] \in kinds
  PROVE  \E m, p, q : Divided(<<c>>, m, p, q, order, kind, n, at, pads)
<1>1. Divided(<<c>>, 1, <<path>>, <<kinds>>, order, kind, n, at, pads)
  <2>1. Len(<<c>>) = 1 /\ DOMAIN <<c>> = 1 .. 1 /\ 1 .. 1 = {1}
        /\ <<c>>[1] = c /\ <<path>>[1] = path /\ <<kinds>>[1] = kinds
    OBVIOUS
  <2> HIDE DEF ChainFor
  <2> QED BY <2>1 DEF Divided
<1> QED BY <1>1

LEMMA TwoChains ==
  ASSUME NEW order \in Orders, NEW kind, NEW ka, NEW kb, NEW n, NEW at, NEW pads, NEW pa, NEW pb, NEW a, NEW b,
         ChainFor(a, pa, ka, order, kind, n, at, pads), ChainFor(b, pb, kb, order, kind, n, at, pads),
         ka \cap kb = {}, \A s \in ToSet(order) : kind[s] \in ka \cup kb
  PROVE  \E m, p, q : Divided(<<a, b>>, m, p, q, order, kind, n, at, pads)
<1>1. Divided(<<a, b>>, 2, <<pa, pb>>, <<ka, kb>>, order, kind, n, at, pads)
  <2>1. Len(<<a, b>>) = 2 /\ DOMAIN <<a, b>> = 1 .. 2 /\ 1 .. 2 = {1, 2}
        /\ <<a, b>>[1] = a /\ <<pa, pb>>[1] = pa /\ <<ka, kb>>[1] = ka
        /\ <<a, b>>[2] = b /\ <<pa, pb>>[2] = pb /\ <<ka, kb>>[2] = kb
    OBVIOUS
  <2>2. ASSUME NEW s \in ToSet(order) PROVE \E k \in 1 .. 2 : kind[s] \in <<ka, kb>>[k]
    BY <2>1
  <2>3. \A k \in 1 .. 2 : ChainFor(<<a, b>>[k], <<pa, pb>>[k], <<ka, kb>>[k], order, kind, n, at, pads)
    <3> HIDE DEF ChainFor
    <3> SUFFICES ASSUME NEW k \in 1 .. 2
                 PROVE  ChainFor(<<a, b>>[k], <<pa, pb>>[k], <<ka, kb>>[k], order, kind, n, at, pads)
      OBVIOUS
    <3>1. CASE k = 1
      BY <2>1, <3>1
    <3>2. CASE k = 2
      BY <2>1, <3>2
    <3> QED BY <3>1, <3>2
  <2>4. \A k, l \in 1 .. 2 : k # l => <<ka, kb>>[k] \cap <<ka, kb>>[l] = {}
    BY <2>1
  <2>5. 2 \in {1, 2} /\ Len(<<a, b>>) = 2 /\ DOMAIN <<a, b>> = 1 .. 2
    BY <2>1
  <2> HIDE DEF ChainFor
  <2> QED BY <2>2, <2>3, <2>4, <2>5, Zenon DEF Divided
<1> QED BY <1>1

(* Two chains, unless there is nothing for one of them.                    *)
LEMMA ChainsOfTwo ==
  ASSUME NEW order \in Orders, NEW kind, NEW ka, NEW kb, NEW n, NEW at, NEW pads, NEW pa, NEW pb,
         OfKind(order, kind, ka) # <<>> =>
           ChainFor(Chain(pa, OfKind(order, kind, ka), n, at, pads), pa, ka, order, kind, n, at, pads),
         OfKind(order, kind, kb) # <<>> =>
           ChainFor(Chain(pb, OfKind(order, kind, kb), n, at, pads), pb, kb, order, kind, n, at, pads),
         ka \cap kb = {}, \A s \in ToSet(order) : kind[s] \in ka \cup kb
  PROVE  \E m, p, q :
           Divided((IF OfKind(order, kind, ka) = <<>> THEN <<>>
                    ELSE <<Chain(pa, OfKind(order, kind, ka), n, at, pads)>>)
                   \o (IF OfKind(order, kind, kb) = <<>> THEN <<>>
                       ELSE <<Chain(pb, OfKind(order, kind, kb), n, at, pads)>>),
                   m, p, q, order, kind, n, at, pads)
<1> DEFINE la == OfKind(order, kind, ka)
           lb == OfKind(order, kind, kb)
           a == Chain(pa, la, n, at, pads)
           b == Chain(pb, lb, n, at, pads)
<1>1. /\ la = <<>> => \A s \in ToSet(order) : kind[s] \notin ka
      /\ lb = <<>> => \A s \in ToSet(order) : kind[s] \notin kb
  BY OfKindFacts
<1>2. \E s : s \in ToSet(order)
  <2>1. Len(order) \in Nat \ {0} /\ ToSet(order) = {order[i] : i \in 1 .. Len(order)}
    BY OrderFacts
  <2>2. 1 \in 1 .. Len(order)
    BY <2>1
  <2> QED BY <2>1, <2>2
<1>3. /\ la # <<>> => ChainFor(a, pa, ka, order, kind, n, at, pads)
      /\ lb # <<>> => ChainFor(b, pb, kb, order, kind, n, at, pads)
  OBVIOUS
<1> SUFFICES \E m, p, q : Divided((IF la = <<>> THEN <<>> ELSE <<a>>) \o (IF lb = <<>> THEN <<>> ELSE <<b>>),
                                  m, p, q, order, kind, n, at, pads)
  OBVIOUS
<1> HIDE DEF la, lb, a, b
<1>4. CASE la = <<>>
  <2>1. lb # <<>> /\ \A s \in ToSet(order) : kind[s] \in kb
    BY <1>1, <1>2, <1>4
  <2>2. (IF la = <<>> THEN <<>> ELSE <<a>>) \o (IF lb = <<>> THEN <<>> ELSE <<b>>) = <<b>>
    BY <1>4, <2>1
  <2>3. \E m, p, q : Divided(<<b>>, m, p, q, order, kind, n, at, pads)
    BY <1>3, <2>1, OneChain
  <2> QED BY <2>2, <2>3
<1>5. CASE la # <<>> /\ lb = <<>>
  <2>1. \A s \in ToSet(order) : kind[s] \in ka
    BY <1>1, <1>5
  <2>2. (IF la = <<>> THEN <<>> ELSE <<a>>) \o (IF lb = <<>> THEN <<>> ELSE <<b>>) = <<a>>
    BY <1>5
  <2>3. \E m, p, q : Divided(<<a>>, m, p, q, order, kind, n, at, pads)
    BY <1>3, <1>5, <2>1, OneChain
  <2> QED BY <2>2, <2>3
<1>6. CASE la # <<>> /\ lb # <<>>
  <2>1. (IF la = <<>> THEN <<>> ELSE <<a>>) \o (IF lb = <<>> THEN <<>> ELSE <<b>>) = <<a, b>>
    <3>1. <<a>> \o <<b>> = <<a, b>>
      <4> DEFINE S == {a, b}
      <4>1. <<a>> \in Seq(S) /\ b \in S /\ Len(<<a>>) = 1
        OBVIOUS
      <4> HIDE DEF S
      <4>2. Append(<<a>>, b) = <<a>> \o <<b>>
        BY <4>1, AppendIsConcat
      <4>3. Append(<<a>>, b) = <<a, b>>
        <5> DEFINE q == Append(<<a>>, b)
                   r == <<a, b>>
        <5>1. q \in Seq(S) /\ Len(q) = 2 /\ q[2] = b /\ q[1] = <<a>>[1]
          BY <4>1, AppendProperties
        <5>2. r \in Seq(S) /\ Len(r) = 2 /\ r[1] = a /\ r[2] = b /\ <<a>>[1] = a
          BY DEF S
        <5> HIDE DEF q, r
        <5>3. \A i \in 1 .. Len(q) : i = 1 \/ i = 2
          BY <5>1
        <5>4. \A i \in 1 .. Len(q) : q[i] = r[i]
          BY <5>1, <5>2, <5>3
        <5>5. q = r
          BY <5>1, <5>2, <5>4, SeqEqual
        <5> QED BY <5>5 DEF q, r
      <4> QED BY <4>2, <4>3
    <3>2. (IF la = <<>> THEN <<>> ELSE <<a>>) = <<a>> /\ (IF lb = <<>> THEN <<>> ELSE <<b>>) = <<b>>
      BY <1>6
    <3> QED BY <3>1, <3>2
  <2>2. \E m, p, q : Divided(<<a, b>>, m, p, q, order, kind, n, at, pads)
    BY <1>3, <1>6, TwoChains
  <2> QED BY <2>1, <2>2
<1> QED BY <1>4, <1>5, <1>6

(* The chains of a call part its sequences by kind.                        *)
LEMMA ChainsDivided ==
  ASSUME NEW order \in Orders, NEW kind \in [ToSet(order) -> {"spec", "decode", "prefill"}], NEW n, NEW at,
         NEW split \in BOOLEAN, NEW pads \in 0 .. 1, Packed(order, kind, split, pads)
  PROVE  \E m, p, q : Divided(Chains(order, kind, n, at, split, pads), m, p, q, order, kind, n, at, pads)
<1> DEFINE Of(kinds) == OfKind(order, kind, kinds)
           only(path, kinds) == IF Of(kinds) = <<>> THEN <<>> ELSE <<Chain(path, Of(kinds), n, at, pads)>>
<1>1. Chains(order, kind, n, at, split, pads) =
        IF Of({"spec"}) # <<>> THEN only("spec", {"spec"}) \o only("chunk", {"decode", "prefill"})
        ELSE IF split THEN only("native", {"decode"}) \o only("chunk", {"prefill"})
        ELSE IF Of({"prefill"}) # <<>> THEN only("chunk", {"decode", "prefill"})
        ELSE only("native", {"decode"})
  BY DEF Chains, OfKind
<1>2. \A s \in ToSet(order) : kind[s] \in {"spec", "decode", "prefill"} /\ kind[s] \in Range(kind)
  BY DEF Range
<1>3. /\ split => Range(kind) = {"decode", "prefill"}
      /\ pads # 0 => Range(kind) \in {{"decode"}, {"spec"}}
  BY DEF Packed
<1>4. ASSUME NEW kinds, Of(kinds) # <<>> PROVE \E s \in ToSet(order) : kind[s] \in kinds
  <2> DEFINE q == Of(kinds)
  <2>1. q \in Seq(Seqs) /\ Len(q) \in Nat /\ \A i \in 1 .. Len(q) : q[i] \in ToSet(order) /\ kind[q[i]] \in kinds
    BY OfKindFacts
  <2>2. q # <<>>
    BY <1>4
  <2> HIDE DEF q
  <2>3. Len(q) # 0
    BY <2>1, <2>2, EmptySeq
  <2>4. 1 \in 1 .. Len(q)
    BY <2>1, <2>3
  <2> QED BY <2>1, <2>4
<1>5. ASSUME NEW kinds PROVE Of(kinds) = <<>> => \A s \in ToSet(order) : kind[s] \notin kinds
  BY OfKindFacts
<1>6. \E s : s \in ToSet(order)
  <2>1. Len(order) \in Nat \ {0} /\ ToSet(order) = {order[i] : i \in 1 .. Len(order)}
    BY OrderFacts
  <2>2. 1 \in 1 .. Len(order)
    BY <2>1
  <2> QED BY <2>1, <2>2
<1>7. ASSUME NEW kinds, kinds \subseteq {"decode", "prefill"}, Of(kinds) # <<>>,
             \E s \in ToSet(order) : kind[s] # "decode"
      PROVE  ChainFor(Chain("chunk", Of(kinds), n, at, pads), "chunk", kinds, order, kind, n, at, pads)
  <2>1. PICK s \in ToSet(order) : kind[s] \in kinds
    BY <1>4, <1>7
  <2>2. PICK r \in ToSet(order) : kind[r] # "decode"
    BY <1>7
  <2>3. pads = 0
    BY <1>2, <1>3, <1>7, <2>1, <2>2
  <2> HIDE DEF OfKind
  <2> QED BY <1>7, <2>3 DEF ChainFor
<1>8. Of({"spec"}) # <<>> => ChainFor(Chain("spec", Of({"spec"}), n, at, pads), "spec", {"spec"}, order, kind, n, at, pads)
  BY DEF ChainFor
<1>9. Of({"decode"}) # <<>> =>
        ChainFor(Chain("native", Of({"decode"}), n, at, pads), "native", {"decode"}, order, kind, n, at, pads)
  BY DEF ChainFor
<1>10. CASE Of({"spec"}) # <<>>
  <2>1. PICK s \in ToSet(order) : kind[s] = "spec"
    BY <1>4, <1>10
  <2>2. Of({"decode", "prefill"}) # <<>> =>
          ChainFor(Chain("chunk", Of({"decode", "prefill"}), n, at, pads), "chunk", {"decode", "prefill"},
                   order, kind, n, at, pads)
    BY <1>7, <2>1
  <2>3. \A r \in ToSet(order) : kind[r] \in {"spec"} \cup {"decode", "prefill"}
    BY <1>2
  <2>4. {"spec"} \cap {"decode", "prefill"} = {}
    OBVIOUS
  <2>5. \E m, p, q : Divided(only("spec", {"spec"}) \o only("chunk", {"decode", "prefill"}),
                             m, p, q, order, kind, n, at, pads)
    <3> HIDE DEF OfKind, ChainFor, Divided
    <3> QED BY <1>8, <2>2, <2>3, <2>4, ChainsOfTwo
  <2>6. Chains(order, kind, n, at, split, pads) = only("spec", {"spec"}) \o only("chunk", {"decode", "prefill"})
    BY <1>1, <1>10
  <2> QED BY <2>5, <2>6
<1>11. CASE Of({"spec"}) = <<>> /\ split
  <2>1. "prefill" \in Range(kind)
    BY <1>3, <1>11
  <2>2. PICK s \in ToSet(order) : kind[s] = "prefill"
    BY <2>1 DEF Range
  <2>3. Of({"prefill"}) # <<>> =>
          ChainFor(Chain("chunk", Of({"prefill"}), n, at, pads), "chunk", {"prefill"}, order, kind, n, at, pads)
    BY <1>7, <2>2
  <2>4. \A r \in ToSet(order) : kind[r] \in {"decode"} \cup {"prefill"}
    BY <1>2, <1>5, <1>11
  <2>5. {"decode"} \cap {"prefill"} = {}
    OBVIOUS
  <2>6. \E m, p, q : Divided(only("native", {"decode"}) \o only("chunk", {"prefill"}),
                             m, p, q, order, kind, n, at, pads)
    <3> HIDE DEF OfKind, ChainFor, Divided
    <3> QED BY <1>9, <2>3, <2>4, <2>5, ChainsOfTwo
  <2>7. Chains(order, kind, n, at, split, pads) = only("native", {"decode"}) \o only("chunk", {"prefill"})
    BY <1>1, <1>11
  <2> QED BY <2>6, <2>7
<1>12. CASE Of({"spec"}) = <<>> /\ ~split /\ Of({"prefill"}) # <<>>
  <2>1. PICK s \in ToSet(order) : kind[s] = "prefill"
    BY <1>4, <1>12
  <2>2. \A r \in ToSet(order) : kind[r] \in {"decode", "prefill"}
    BY <1>2, <1>5, <1>12
  <2>3. Of({"decode", "prefill"}) # <<>>
    BY <1>5, <2>1
  <2>4. ChainFor(Chain("chunk", Of({"decode", "prefill"}), n, at, pads), "chunk", {"decode", "prefill"},
                 order, kind, n, at, pads)
    BY <1>7, <2>1, <2>3
  <2>5. Chains(order, kind, n, at, split, pads) = <<Chain("chunk", Of({"decode", "prefill"}), n, at, pads)>>
    BY <1>1, <1>12, <2>3
  <2> HIDE DEF OfKind, ChainFor, Divided
  <2> QED BY <2>2, <2>4, <2>5, OneChain
<1>13. CASE Of({"spec"}) = <<>> /\ ~split /\ Of({"prefill"}) = <<>>
  <2>1. \A r \in ToSet(order) : kind[r] \in {"decode"}
    BY <1>2, <1>5, <1>13
  <2>2. Of({"decode"}) # <<>>
    BY <1>5, <1>6, <2>1
  <2>3. Chains(order, kind, n, at, split, pads) = <<Chain("native", Of({"decode"}), n, at, pads)>>
    BY <1>1, <1>13, <2>2
  <2> HIDE DEF OfKind, ChainFor, Divided
  <2> QED BY <1>9, <2>1, <2>2, <2>3, OneChain
<1> QED BY <1>10, <1>11, <1>12, <1>13

-----------------------------------------------------------------------------
(* The kernels a chain submits are those of its path, one stage after the  *)
(* other.                                                                  *)
KernelsListed(c) ==
  /\ Len(Kernels(c)) \in Nat \ {0}
  /\ \A i \in 1 .. Len(Kernels(c)) : Kernels(c)[i] \in KernelsOf(c.path) /\ Kernels(c)[i] \in Kernel
  /\ \A i, j \in 1 .. Len(Kernels(c)) : i < j => Stage(Kernels(c)[i]) < Stage(Kernels(c)[j])
  /\ \A f \in KernelsOf(c.path) : \E i \in 1 .. Len(Kernels(c)) : Kernels(c)[i] = f

(* The kernels of a chain come in the order of their stages.               *)
LEMMA KernelList ==
  ASSUME NEW c, c.path \in {"spec", "native", "chunk"}
  PROVE  KernelsListed(c)
<1>1. CASE c.path = "spec"
  <2> DEFINE q == <<"causal_conv1d_spec", "gated_delta_rule_spec">>
  <2>1. Kernels(c) = q
    BY <1>1 DEF Kernels
  <2>2. Len(q) = 2 /\ q[1] = "causal_conv1d_spec" /\ q[2] = "gated_delta_rule_spec"
    OBVIOUS
  <2>3. KernelsOf(c.path) = {"causal_conv1d_spec", "gated_delta_rule_spec"}
    BY <1>1 DEF KernelsOf
  <2> HIDE DEF q
  <2>4. \A i \in 1 .. Len(q) : i = 1 \/ i = 2
    BY <2>2
  <2>5. 1 \in 1 .. Len(q) /\ 2 \in 1 .. Len(q)
    BY <2>2
  <2>6. \A i, j \in 1 .. Len(q) : i < j => Stage(q[i]) < Stage(q[j])
    BY <2>2, <2>4 DEF Stage
  <2> QED BY <2>1, <2>2, <2>3, <2>4, <2>5, <2>6 DEF Kernel, KernelsListed
<1>2. CASE c.path = "native"
  <2> DEFINE q == <<"causal_conv1d", "gated_delta_rule">>
  <2>1. Kernels(c) = q
    BY <1>2 DEF Kernels
  <2>2. Len(q) = 2 /\ q[1] = "causal_conv1d" /\ q[2] = "gated_delta_rule"
    OBVIOUS
  <2>3. KernelsOf(c.path) = {"causal_conv1d", "gated_delta_rule"}
    BY <1>2 DEF KernelsOf
  <2> HIDE DEF q
  <2>4. \A i \in 1 .. Len(q) : i = 1 \/ i = 2
    BY <2>2
  <2>5. 1 \in 1 .. Len(q) /\ 2 \in 1 .. Len(q)
    BY <2>2
  <2>6. \A i, j \in 1 .. Len(q) : i < j => Stage(q[i]) < Stage(q[j])
    BY <2>2, <2>4 DEF Stage
  <2> QED BY <2>1, <2>2, <2>3, <2>4, <2>5, <2>6 DEF Kernel, KernelsListed
<1>3. CASE c.path = "chunk"
  <2> DEFINE q == <<"chunk_causal_conv1d", "chunk_reorder_zba", "update_states", "chunk_gated_delta_rule">>
  <2>1. Kernels(c) = q
    BY <1>3 DEF Kernels
  <2>2. Len(q) = 4 /\ q[1] = "chunk_causal_conv1d" /\ q[2] = "chunk_reorder_zba" /\ q[3] = "update_states"
        /\ q[4] = "chunk_gated_delta_rule"
    OBVIOUS
  <2>3. KernelsOf(c.path) = {"chunk_causal_conv1d", "chunk_reorder_zba", "update_states", "chunk_gated_delta_rule"}
    BY <1>3 DEF KernelsOf
  <2> HIDE DEF q
  <2>4. \A i \in 1 .. Len(q) : i = 1 \/ i = 2 \/ i = 3 \/ i = 4
    BY <2>2
  <2>5. 1 \in 1 .. Len(q) /\ 2 \in 1 .. Len(q) /\ 3 \in 1 .. Len(q) /\ 4 \in 1 .. Len(q)
    BY <2>2
  <2>6. \A i \in 1 .. Len(q) : Stage(q[i]) = i
    BY <2>2, <2>4 DEF Stage
  <2>7. \A i, j \in 1 .. Len(q) : i < j => Stage(q[i]) < Stage(q[j])
    BY <2>6
  <2>8. \A i \in 1 .. Len(q) : q[i] \in KernelsOf(c.path) /\ q[i] \in Kernel
    BY <2>2, <2>3, <2>4 DEF Kernel
  <2>9. \A f \in KernelsOf(c.path) : \E i \in 1 .. Len(q) : q[i] = f
    BY <2>2, <2>3, <2>5
  <2>10. Len(q) \in Nat \ {0}
    BY <2>2
  <2> QED BY <2>1, <2>7, <2>8, <2>9, <2>10 DEF KernelsListed
<1> QED BY <1>1, <1>2, <1>3

Queued(q, chains, ids) ==
  /\ q \in Seq(Kernel \X ids) /\ Len(q) \in Nat \ {0}
  /\ \A i \in 1 .. Len(q) : q[i][2] \in ids /\ q[i][1] \in KernelsOf(chains[q[i][2]].path)
  /\ \A i, j \in 1 .. Len(q) : i < j /\ q[i][2] = q[j][2] => Stage(q[i][1]) < Stage(q[j][1])
  /\ \A k \in ids : \A f \in KernelsOf(chains[k].path) : \E i \in 1 .. Len(q) : q[i] = <<f, k>>

LEMMA QueuedOne ==
  ASSUME NEW chains, NEW k, chains[k].path \in {"spec", "native", "chunk"}
  PROVE  Queued([i \in 1 .. Len(Kernels(chains[k])) |-> <<Kernels(chains[k])[i], k>>], chains, {k})
<1> DEFINE e == Kernels(chains[k])
           n == Len(e)
           q == [i \in 1 .. n |-> <<e[i], k>>]
<1>1. /\ n \in Nat \ {0}
      /\ \A i \in 1 .. n : e[i] \in KernelsOf(chains[k].path) /\ e[i] \in Kernel
      /\ \A i, j \in 1 .. n : i < j => Stage(e[i]) < Stage(e[j])
      /\ \A f \in KernelsOf(chains[k].path) : \E i \in 1 .. n : e[i] = f
  <2> DEFINE c == chains[k]
  <2> HIDE DEF c
  <2>1. c.path \in {"spec", "native", "chunk"}
    BY DEF c
  <2>2. KernelsListed(c)
    BY <2>1, KernelList
  <2> QED BY <2>2 DEF c, KernelsListed
<1> HIDE DEF e, n
<1>2. \A i \in 1 .. n : q[i] = <<e[i], k>> /\ q[i][1] = e[i] /\ q[i][2] = k
  OBVIOUS
<1>3. q \in [1 .. n -> Kernel \X {k}]
  BY <1>1
<1>4. q \in Seq(Kernel \X {k}) /\ Len(q) = n
  <2>1. n \in Nat
    BY <1>1
  <2> HIDE DEF q
  <2> QED BY <1>3, <2>1, SeqOfFunction
<1> HIDE DEF q
<1>5. \A i \in 1 .. Len(q) : q[i][2] \in {k} /\ q[i][1] \in KernelsOf(chains[q[i][2]].path)
  BY <1>1, <1>2, <1>4
<1>6. \A i, j \in 1 .. Len(q) : i < j /\ q[i][2] = q[j][2] => Stage(q[i][1]) < Stage(q[j][1])
  BY <1>1, <1>2, <1>4
<1>7. \A l \in {k} : \A f \in KernelsOf(chains[l].path) : \E i \in 1 .. Len(q) : q[i] = <<f, l>>
  <2> SUFFICES ASSUME NEW f \in KernelsOf(chains[k].path) PROVE \E i \in 1 .. Len(q) : q[i] = <<f, k>>
    OBVIOUS
  <2>1. PICK i \in 1 .. n : e[i] = f
    BY <1>1
  <2>2. i \in 1 .. Len(q) /\ q[i] = <<f, k>>
    BY <1>2, <1>4, <2>1
  <2> QED BY <2>2
<1>8. Queued(q, chains, {k})
  BY <1>1, <1>4, <1>5, <1>6, <1>7 DEF Queued
<1> QED BY <1>8 DEF q, n, e

(* Two chains in a row are queued each in its order.                       *)
LEMMA QueuedTwo ==
  ASSUME NEW chains, NEW q, NEW r, Queued(q, chains, {1}), Queued(r, chains, {2})
  PROVE  Queued(q \o r, chains, 1 .. 2) /\ (q \o r)[1] = q[1]
<1> DEFINE S == Kernel \X (1 .. 2)
           m == Len(q)
           n == Len(r)
           w == q \o r
<1>0. 1 .. 2 = {1, 2}
  OBVIOUS
<1>1. q \in Seq(S) /\ r \in Seq(S) /\ m \in Nat \ {0} /\ n \in Nat \ {0}
  <2>1. q \in Seq(Kernel \X {1}) /\ r \in Seq(Kernel \X {2}) /\ m \in Nat \ {0} /\ n \in Nat \ {0}
    BY DEF Queued
  <2>2. Kernel \X {1} \subseteq S /\ Kernel \X {2} \subseteq S
    BY <1>0
  <2> HIDE DEF S
  <2> QED BY <2>1, <2>2
<1> HIDE DEF S
<1>2. w \in Seq(S) /\ Len(w) = m + n /\ \A i \in 1 .. m + n : w[i] = IF i <= m THEN q[i] ELSE r[i - m]
  BY <1>1, ConcatProperties
<1>3. /\ \A i \in 1 .. m : q[i][2] = 1 /\ q[i][1] \in KernelsOf(chains[1].path)
      /\ \A i, j \in 1 .. m : i < j => Stage(q[i][1]) < Stage(q[j][1])
      /\ \A f \in KernelsOf(chains[1].path) : \E i \in 1 .. m : q[i] = <<f, 1>>
  BY DEF Queued
<1>4. /\ \A i \in 1 .. n : r[i][2] = 2 /\ r[i][1] \in KernelsOf(chains[2].path)
      /\ \A i, j \in 1 .. n : i < j => Stage(r[i][1]) < Stage(r[j][1])
      /\ \A f \in KernelsOf(chains[2].path) : \E i \in 1 .. n : r[i] = <<f, 2>>
  BY DEF Queued
<1> HIDE DEF m, n, w
<1>5. /\ \A i \in 1 .. m : w[i] = q[i] /\ i \in 1 .. m + n
      /\ \A i \in 1 .. n : w[m + i] = r[i] /\ m + i \in 1 .. m + n
  <2>1. ASSUME NEW i \in 1 .. m PROVE w[i] = q[i] /\ i \in 1 .. m + n
    <3>1. i \in 1 .. m + n /\ i <= m
      BY <1>1
    <3> QED BY <1>2, <3>1
  <2>2. ASSUME NEW i \in 1 .. n PROVE w[m + i] = r[i] /\ m + i \in 1 .. m + n
    <3>1. m + i \in 1 .. m + n /\ ~(m + i <= m) /\ (m + i) - m = i
      BY <1>1
    <3>2. w[m + i] = r[(m + i) - m]
      BY <1>2, <3>1
    <3> QED BY <3>1, <3>2
  <2> QED BY <2>1, <2>2
<1>6. ASSUME NEW i \in 1 .. m + n
      PROVE  \/ i \in 1 .. m /\ w[i] = q[i]
             \/ \E j \in 1 .. n : i = m + j /\ w[i] = r[j]
  <2>1. CASE i <= m
    BY <1>1, <1>5, <2>1
  <2>2. CASE ~(i <= m)
    <3>1. i - m \in 1 .. n /\ i = m + (i - m)
      BY <1>1, <2>2
    <3> QED BY <1>5, <3>1
  <2> QED BY <2>1, <2>2
<1>7. ASSUME NEW i \in 1 .. m + n PROVE w[i][2] \in 1 .. 2 /\ w[i][1] \in KernelsOf(chains[w[i][2]].path)
  BY <1>0, <1>3, <1>4, <1>6
<1>8. ASSUME NEW i \in 1 .. m + n, NEW j \in 1 .. m + n, i < j, w[i][2] = w[j][2]
      PROVE  Stage(w[i][1]) < Stage(w[j][1])
  <2>1. CASE i \in 1 .. m /\ w[i] = q[i]
    <3>1. w[j][2] = 1
      BY <1>3, <1>8, <2>1
    <3>2. j \in 1 .. m /\ w[j] = q[j]
      BY <1>4, <1>6, <3>1
    <3> QED BY <1>3, <1>8, <2>1, <3>2
  <2>2. CASE \E x \in 1 .. n : i = m + x /\ w[i] = r[x]
    <3>1. PICK x \in 1 .. n : i = m + x /\ w[i] = r[x]
      BY <2>2
    <3>2. w[j][2] = 2
      BY <1>4, <1>8, <3>1
    <3>3. PICK y \in 1 .. n : j = m + y /\ w[j] = r[y]
      BY <1>3, <1>6, <3>2
    <3>4. x < y
      BY <1>1, <1>8, <3>1, <3>3
    <3> QED BY <1>4, <3>1, <3>3, <3>4
  <2> QED BY <1>6, <2>1, <2>2
<1>9. ASSUME NEW k \in 1 .. 2, NEW f \in KernelsOf(chains[k].path) PROVE \E i \in 1 .. m + n : w[i] = <<f, k>>
  <2>1. CASE k = 1
    <3>1. PICK i \in 1 .. m : q[i] = <<f, 1>>
      BY <1>3, <2>1
    <3> QED BY <1>5, <2>1, <3>1
  <2>2. CASE k = 2
    <3>1. PICK i \in 1 .. n : r[i] = <<f, 2>>
      BY <1>4, <2>2
    <3> QED BY <1>5, <2>2, <3>1
  <2> QED BY <2>1, <2>2
<1>10. w[1] = q[1]
  <2>1. 1 \in 1 .. m
    BY <1>1
  <2> QED BY <1>5, <2>1
<1>11. m + n \in Nat \ {0}
  BY <1>1
<1>12. Queued(w, chains, 1 .. 2)
  BY <1>2, <1>7, <1>8, <1>9, <1>11 DEF S, Queued
<1> QED BY <1>10, <1>12 DEF w

(* The queue of a call holds every kernel of its chains, in order.         *)
LEMMA QueueMade ==
  ASSUME NEW chains, NEW m \in {1, 2}, Len(chains) = m,
         \A k \in 1 .. m : chains[k].path \in {"spec", "native", "chunk"}
  PROVE  Queued(Submitted(chains), chains, 1 .. m) /\ Submitted(chains)[1][2] = 1
<1> DEFINE kernels(k) == [i \in 1 .. Len(Kernels(chains[k])) |-> <<Kernels(chains[k])[i], k>>]
<1>1. Submitted(chains) = IF m = 1 THEN kernels(1) ELSE kernels(1) \o kernels(2)
  BY DEF Submitted
<1>2. Queued(kernels(1), chains, {1})
  <2>1. 1 \in 1 .. m
    OBVIOUS
  <2> QED BY <2>1, QueuedOne
<1>3. m = 2 => Queued(kernels(2), chains, {2})
  <2>1. m = 2 => 2 \in 1 .. m
    OBVIOUS
  <2> QED BY <2>1, QueuedOne
<1>4. 1 .. 1 = {1}
  OBVIOUS
<1> HIDE DEF kernels
<1>5. kernels(1)[1][2] = 1
  <2>1. 1 \in 1 .. Len(kernels(1))
    BY <1>2 DEF Queued
  <2> QED BY <1>2, <2>1 DEF Queued
<1>6. CASE m = 1
  BY <1>1, <1>2, <1>4, <1>5, <1>6
<1>7. CASE m = 2
  <2> DEFINE q == kernels(1)
             r == kernels(2)
  <2>1. Queued(q, chains, {1}) /\ Queued(r, chains, {2}) /\ q[1][2] = 1
    BY <1>2, <1>3, <1>5, <1>7
  <2>2. Submitted(chains) = q \o r
    BY <1>1, <1>7
  <2> HIDE DEF q, r
  <2>3. Queued(q \o r, chains, 1 .. 2) /\ (q \o r)[1] = q[1]
    BY <2>1, QueuedTwo
  <2> QED BY <1>7, <2>1, <2>2, <2>3
<1> QED BY <1>6, <1>7

-----------------------------------------------------------------------------
(* What a call makes of the sequences it takes.                            *)
Made(order, kind, n, at, total, pads, chains, m, path, kinds) ==
  /\ order \in Orders /\ pads \in 0 .. 1
  /\ \A s \in ToSet(order) :
       /\ kind[s] \in {"spec", "decode", "prefill"} /\ n[s] \in Nat \ {0}
       /\ s \in spec => kind[s] = "spec"
       /\ kind[s] # "prefill" => said[s] # <<>>
       /\ kind[s] = "decode" => n[s] = 1
       /\ kind[s] = "spec" => n[s] <= NumSpec
  /\ Placed(order, n, at, total)
  /\ Divided(chains, m, path, kinds, order, kind, n, at, pads)
  /\ call'.tokens = [i \in 1 .. total + pads |-> IF i <= total THEN Token(i) ELSE Junk]
  /\ call'.fed = [s \in Seqs |-> IF s \in ToSet(order) THEN [i \in 1 .. n[s] |-> Token(at[s] + i)] ELSE <<>>]
  /\ call'.at = at /\ call'.chains = chains
  /\ said' = said /\ acc' = acc
  /\ spec' = spec \cup {s \in ToSet(order) : kind[s] = "spec"}

(* A call feeds every sequence of the order the tokens it is given.        *)
LEMMA FeedMade ==
  ASSUME calls \in Nat, NEW order, NEW kind, NEW n, NEW at, NEW total, NEW pads,
         NEW chains, NEW m, NEW path, NEW kinds,
         Made(order, kind, n, at, total, pads, chains, m, path, kinds)
  PROVE  /\ FeedOK' /\ Len(call'.tokens) = total + pads /\ total + pads \in Nat \ {0} /\ call'.at = at
         /\ call'.tokens \in Seq(Int)
         /\ \A s \in Seqs \ ToSet(order) : call'.fed[s] = <<>>
         /\ \A s \in ToSet(order) : /\ call'.fed[s] \in Seq(Int) /\ Len(call'.fed[s]) = n[s]
                                    /\ call'.fed[s] # <<>>
<1> DEFINE w == Cardinality(Seqs) * (MaxFed + NumSpec) + 1
<1>0. /\ order \in Orders /\ pads \in {0, 1} /\ ToSet(order) \subseteq Seqs
      /\ total \in Nat \ {0} /\ at \in [Seqs -> Nat]
      /\ \A s \in ToSet(order) : n[s] \in Nat \ {0} /\ at[s] + n[s] <= total
      /\ \A s, r \in ToSet(order) : s # r => at[s] + n[s] <= at[r] \/ at[r] + n[r] <= at[s]
  <2>1. order \in Orders /\ pads \in 0 .. 1 /\ Placed(order, n, at, total)
    BY DEF Made
  <2>2. ToSet(order) \subseteq Seqs
    BY <2>1, OrderFacts
  <2> QED BY <2>1, <2>2 DEF Placed
<1>1. w \in Nat
  <2>1. MaxFed \in Nat /\ NumSpec \in Nat /\ Cardinality(Seqs) \in Nat
    BY Sizes, GdnAssumption
  <2> QED BY <2>1
<1>2. \A i \in Nat : Token(i) \in Int
  <2>1. \A i : Token(i) = calls * w + i
    BY DEF Token
  <2> HIDE DEF w
  <2>2. calls * w \in Int
    BY <1>1
  <2> QED BY <2>1, <2>2
<1>3. /\ call'.tokens = [i \in 1 .. total + pads |-> IF i <= total THEN Token(i) ELSE Junk]
      /\ call'.fed = [s \in Seqs |-> IF s \in ToSet(order) THEN [i \in 1 .. n[s] |-> Token(at[s] + i)] ELSE <<>>]
      /\ call'.at = at
  BY DEF Made
<1>4. total + pads \in Nat \ {0}
  BY <1>0
<1>5. call'.tokens \in Seq(Int) /\ Len(call'.tokens) = total + pads
  <2>1. call'.tokens \in [1 .. total + pads -> Int]
    BY <1>0, <1>2, <1>3 DEF Junk
  <2>2. total + pads \in Nat
    BY <1>4
  <2> QED BY <2>1, <2>2, SeqOfFunction
<1>6. ASSUME NEW s \in ToSet(order)
      PROVE  /\ call'.fed[s] = [i \in 1 .. n[s] |-> Token(at[s] + i)]
             /\ call'.fed[s] \in Seq(Int) /\ Len(call'.fed[s]) = n[s] /\ call'.fed[s] # <<>>
  <2>1. call'.fed[s] = [i \in 1 .. n[s] |-> Token(at[s] + i)]
    BY <1>0, <1>3
  <2>2. n[s] \in Nat /\ at[s] \in Nat /\ n[s] # 0
    BY <1>0
  <2>3. \A i \in 1 .. n[s] : at[s] + i \in Nat
    BY <2>2
  <2>4. call'.fed[s] \in [1 .. n[s] -> Int]
    BY <1>2, <2>1, <2>3
  <2>5. call'.fed[s] \in Seq(Int) /\ Len(call'.fed[s]) = n[s]
    BY <2>2, <2>4, SeqOfFunction
  <2>6. call'.fed[s] # <<>>
    BY <2>2, <2>5, EmptySeq
  <2> QED BY <2>1, <2>5, <2>6
<1>7. ASSUME NEW s \in Seqs \ ToSet(order) PROVE call'.fed[s] = <<>>
  BY <1>3
<1>8. call'.fed \in [Seqs -> Seq(Int)]
  <2>1. \A s \in Seqs : call'.fed[s] \in Seq(Int)
    BY <1>6, <1>7, EmptySeq
  <2>2. call'.fed = [s \in Seqs |-> call'.fed[s]]
    BY <1>3
  <2> QED BY <2>1, <2>2
<1>9. ASSUME NEW s \in Seqs, NEW i \in 1 .. Len(call'.fed[s])
      PROVE  /\ call'.at[s] + i <= Len(call'.tokens)
             /\ call'.tokens[call'.at[s] + i] = call'.fed[s][i]
  <2>1. s \in ToSet(order)
    <3> SUFFICES ASSUME s \notin ToSet(order) PROVE FALSE
      OBVIOUS
    <3>1. Len(call'.fed[s]) = 0
      BY <1>7, EmptySeq
    <3> QED BY <3>1
  <2>2. i \in 1 .. n[s]
    BY <1>6, <2>1
  <2>3. n[s] \in Nat /\ at[s] \in Nat /\ at[s] + n[s] <= total /\ total \in Nat
    BY <1>0, <2>1
  <2>4. at[s] + i \in 1 .. total + pads /\ at[s] + i <= total /\ at[s] + i <= total + pads
    BY <1>0, <2>2, <2>3
  <2>5. call'.tokens[at[s] + i] = Token(at[s] + i)
    BY <1>3, <2>4
  <2>6. call'.fed[s][i] = Token(at[s] + i)
    BY <1>6, <2>1, <2>2
  <2> QED BY <1>3, <1>5, <2>4, <2>5, <2>6
<1>10. ASSUME NEW s \in Seqs, NEW r \in Seqs, s # r, call'.fed[s] # <<>>, call'.fed[r] # <<>>
       PROVE  \/ call'.at[s] + Len(call'.fed[s]) <= call'.at[r]
              \/ call'.at[r] + Len(call'.fed[r]) <= call'.at[s]
  <2>1. s \in ToSet(order) /\ r \in ToSet(order)
    BY <1>7, <1>10
  <2>2. Len(call'.fed[s]) = n[s] /\ Len(call'.fed[r]) = n[r]
    BY <1>6, <2>1
  <2> QED BY <1>0, <1>3, <1>10, <2>1, <2>2
<1>11. FeedOK'
  BY <1>3, <1>5, <1>8, <1>0, <1>9, <1>10 DEF FeedOK, Fed
<1> QED BY <1>3, <1>4, <1>5, <1>6, <1>7, <1>11

(* A chain of the call, its list and its facts.                            *)
LEMMA ListMade ==
  ASSUME NEW order, NEW kind, NEW n, NEW at, NEW total, NEW pads, NEW chains, NEW m, NEW path, NEW kinds,
         Made(order, kind, n, at, total, pads, chains, m, path, kinds),
         NEW k \in 1 .. m, NEW list, list = OfKind(order, kind, kinds[k]), NEW c, c = chains[k]
  PROVE  /\ Handed(list, n, pads) /\ Len(list) <= Len(order) /\ Len(order) <= total
         /\ ChainStarts(c, path[k], list, n, pads) /\ ChainEntries(c, path[k], list, n, at, pads)
         /\ path[k] \in {"spec", "native", "chunk"} /\ (path[k] = "chunk" => pads = 0)
         /\ \A i \in 1 .. Len(list) :
              /\ list[i] \in ToSet(order)
              /\ path[k] = "spec" <=> kind[list[i]] = "spec"
              /\ path[k] = "native" => kind[list[i]] = "decode"
<1>0. /\ order \in Orders /\ pads \in 0 .. 1
      /\ \A s \in ToSet(order) : n[s] \in Nat \ {0} /\ kind[s] \in {"spec", "decode", "prefill"}
      /\ at \in [Seqs -> Nat] /\ Len(order) <= total
  <2>1. Len(order) \in Nat
    BY OrderFacts DEF Made
  <2> QED BY <2>1 DEF Made, Placed
<1>1. /\ list # <<>> /\ c = Chain(path[k], list, n, at, pads)
      /\ path[k] \in {"spec", "native", "chunk"}
      /\ path[k] = "spec" => kinds[k] = {"spec"}
      /\ path[k] = "native" => kinds[k] = {"decode"}
      /\ path[k] = "chunk" => kinds[k] \subseteq {"decode", "prefill"} /\ pads = 0
  <2>1. ChainFor(chains[k], path[k], kinds[k], order, kind, n, at, pads)
    BY DEF Made, Divided
  <2> QED BY <2>1 DEF ChainFor
<1>2. /\ list \in Seq(Seqs) /\ Distinct(list) /\ Len(list) <= Len(order)
      /\ \A i \in 1 .. Len(list) : list[i] \in ToSet(order) /\ kind[list[i]] \in kinds[k]
  BY <1>0, OfKindFacts
<1>3. Handed(list, n, pads)
  BY <1>0, <1>1, <1>2 DEF Handed
<1>4. ChainStarts(c, path[k], list, n, pads) /\ ChainEntries(c, path[k], list, n, at, pads)
  BY <1>0, <1>1, <1>3, ChainStartsRight, ChainEntriesRight
<1>5. ASSUME NEW i \in 1 .. Len(list)
      PROVE  /\ list[i] \in ToSet(order)
             /\ path[k] = "spec" <=> kind[list[i]] = "spec"
             /\ path[k] = "native" => kind[list[i]] = "decode"
  <2>1. list[i] \in ToSet(order) /\ kind[list[i]] \in kinds[k]
    BY <1>2
  <2> QED BY <1>1, <2>1
<1> QED BY <1>0, <1>1, <1>2, <1>3, <1>4, <1>5

(* The entry made for a sequence is as the invariant wants it,             *)
LEMMA EntryMade ==
  ASSUME calls \in Nat, NEW order, NEW kind, NEW n, NEW at, NEW total, NEW pads,
         NEW chains, NEW m, NEW path, NEW kinds,
         Made(order, kind, n, at, total, pads, chains, m, path, kinds),
         NEW k \in 1 .. m, NEW list, list = OfKind(order, kind, kinds[k]), NEW c, c = chains[k],
         NEW b \in 0 .. Len(list) - 1
  PROVE  EntryOK(c, b, list[b + 1])' /\ list[b + 1] \in Seqs
<1> DEFINE s == list[b + 1]
           p == path[k]
<1>1. /\ Handed(list, n, pads) /\ ChainStarts(c, p, list, n, pads) /\ ChainEntries(c, p, list, n, at, pads)
      /\ \A i \in 1 .. Len(list) :
              /\ list[i] \in ToSet(order)
              /\ p = "spec" <=> kind[list[i]] = "spec"
              /\ p = "native" => kind[list[i]] = "decode"
      /\ p \in {"spec", "native", "chunk"}
  BY ListMade
<1>2. b + 1 \in 1 .. Len(list)
  BY <1>1 DEF ChainStarts
<1>3. /\ s \in ToSet(order) /\ (p = "spec" <=> kind[s] = "spec") /\ (p = "native" => kind[s] = "decode")
  BY <1>1, <1>2
<1>4. s \in Seqs
  <2>1. order \in Orders
    BY DEF Made
  <2> QED BY <1>3, <2>1, OrderFacts
<1>5. /\ c.start[b + 1] = c.start[b] + n[s] /\ c.path = p
      /\ c.slot[b] = SlotsOf(s) /\ c.acc[b] = acc[s]
      /\ c.init[b] = (p = "native" \/ said[s] # <<>>)
      /\ \A i \in 1 .. n[s] : c.indx[c.start[b] + i - 1] = at[s] + i - 1
  BY <1>1 DEF ChainStarts, ChainEntries
<1>6. call'.fed[s] # <<>> /\ Len(call'.fed[s]) = n[s] /\ call'.at = at
  BY <1>3, FeedMade
<1>7. /\ s \in spec => kind[s] = "spec"
      /\ kind[s] # "prefill" => said[s] # <<>>
      /\ kind[s] = "decode" => n[s] = 1
      /\ kind[s] = "spec" => n[s] <= NumSpec
      /\ kind[s] \in {"spec", "decode", "prefill"}
      /\ said' = said /\ acc' = acc
      /\ s \in spec' <=> kind[s] = "spec"
  BY <1>3 DEF Made
<1> HIDE DEF s, p
<1>8. p = "spec" <=> s \in spec'
  BY <1>3, <1>7
<1>9. p # "chunk" => said'[s] # <<>>
  BY <1>1, <1>3, <1>7
<1>10. p = "native" => n[s] = 1
  BY <1>3, <1>7
<1>11. p = "spec" => n[s] <= NumSpec
  BY <1>3, <1>7
<1>12. \A i \in 1 .. Len(call'.fed[s]) : c.indx[c.start[b] + i - 1] = call'.at[s] + i - 1
  BY <1>5, <1>6
<1>13. c.start[b + 1] = c.start[b] + Len(call'.fed[s])
  BY <1>5, <1>6
<1>14. c.init[b] = (c.path = "native" \/ said'[s] # <<>>) /\ c.acc[b] = acc'[s]
  BY <1>5, <1>7
<1>15. EntryOK(c, b, s)'
  BY <1>5, <1>6, <1>8, <1>9, <1>10, <1>11, <1>12, <1>13, <1>14 DEF EntryOK, Fed
<1> QED BY <1>4, <1>15 DEF s

(* and so is the chain.                                                    *)
LEMMA ChainMade ==
  ASSUME calls \in Nat, NEW order, NEW kind, NEW n, NEW at, NEW total, NEW pads,
         NEW chains, NEW m, NEW path, NEW kinds,
         Made(order, kind, n, at, total, pads, chains, m, path, kinds),
         NEW k \in 1 .. m, NEW list, list = OfKind(order, kind, kinds[k]), NEW c, c = chains[k]
  PROVE  ChainOK(c)'
<1> DEFINE p == path[k]
           l == Len(list)
           extra == IF p = "native" THEN pads ELSE 0
<1>1. /\ Handed(list, n, pads) /\ ChainStarts(c, p, list, n, pads) /\ ChainEntries(c, p, list, n, at, pads)
      /\ \A i \in 1 .. l : list[i] \in ToSet(order) /\ (p = "native" => kind[list[i]] = "decode")
      /\ p \in {"spec", "native", "chunk"} /\ (p = "chunk" => pads = 0)
      /\ l <= Len(order) /\ Len(order) <= total
  BY ListMade
<1>2. /\ c.path = p /\ c.batch = l + pads /\ c.batch \in Nat \ {0} /\ l \in Nat \ {0} /\ pads \in {0, 1}
      /\ c.start \in [0 .. c.batch -> Nat] /\ c.start[0] = 0
      /\ \A b \in 0 .. l - 1 : c.start[b + 1] = c.start[b] + n[list[b + 1]]
      /\ \A b \in l .. c.batch - 1 : c.start[b + 1] = c.start[b]
      /\ \A b \in 0 .. c.batch : \A d \in b .. c.batch : c.start[b] <= c.start[d]
      /\ \A b \in 1 .. l : n[list[b]] \in Nat \ {0}
  <2>1. pads \in {0, 1}
    BY <1>1 DEF Handed
  <2> QED BY <1>1, <2>1 DEF ChainStarts, Handed
<1>3. /\ \A b \in l .. c.batch - 1 : c.slot[b] = PadRow /\ c.init[b] = (p = "native")
      /\ DOMAIN c.indx = 0 .. c.start[l] + extra - 1
      /\ \A t \in DOMAIN c.indx : t >= c.start[l] => c.indx[t] = t
  BY <1>1 DEF ChainEntries
<1>4. total + pads \in Nat /\ Len(call'.tokens) = total + pads
  BY FeedMade
<1>n. p = "native" => \A b \in 1 .. l : n[list[b]] = 1
  BY <1>1 DEF Made
<1>m. Len(order) \in Nat /\ total \in Nat
  BY OrderFacts DEF Made, Placed
<1>e. \A b \in 0 .. l - 1 : EntryOK(c, b, list[b + 1])' /\ list[b + 1] \in Seqs
  BY EntryMade
<1> HIDE DEF p, l
<1>5. extra \in {0, 1} /\ extra <= pads /\ (extra = 1 => p = "native" /\ pads = 1)
  BY <1>2
<1> HIDE DEF extra
<1>6. c.start[c.batch] = c.start[l] /\ c.start[l] \in Nat
  <2>1. l \in 0 .. c.batch
    BY <1>2
  <2>2. CASE pads = 0
    BY <1>2, <2>1, <2>2
  <2>3. CASE pads = 1
    <3>1. l \in l .. c.batch - 1 /\ l + 1 = c.batch
      BY <1>2, <2>3
    <3> QED BY <1>2, <2>1, <3>1
  <2> QED BY <1>2, <2>2, <2>3
<1>7. c.start[c.batch] > 0
  <2>1. 0 \in 0 .. l - 1 /\ 1 \in 1 .. l /\ 0 + 1 = 1 /\ 1 \in 0 .. c.batch /\ c.batch \in 1 .. c.batch
    BY <1>2
  <2>2. c.start[1] = n[list[1]] /\ n[list[1]] > 0
    <3>1. c.start[0 + 1] = c.start[0] + n[list[0 + 1]]
      BY <1>2, <2>1
    <3> QED BY <1>2, <2>1, <3>1
  <2>3. c.start[1] <= c.start[c.batch] /\ c.start[1] \in Nat /\ c.start[c.batch] \in Nat
    BY <1>2, <2>1
  <2> QED BY <2>2, <2>3
<1>8. \E x \in Nat : DOMAIN c.indx = 0 .. x - 1 /\ x >= c.start[c.batch]
  <2>1. c.start[l] + extra \in Nat /\ c.start[l] + extra >= c.start[c.batch]
    BY <1>5, <1>6
  <2>2. PICK x \in Nat : x = c.start[l] + extra
    BY <2>1
  <2>3. DOMAIN c.indx = 0 .. x - 1
    BY <1>3, <1>5, <1>6, <2>2
  <2>4. x >= c.start[c.batch]
    BY <2>1, <2>2
  <2> QED BY <2>3, <2>4
<1>9. ASSUME NEW b \in 0 .. c.batch - 1 PROVE PadOK(c, b) \/ \E s \in Seqs : EntryOK(c, b, s)'
  <2>1. CASE b < l
    <3>1. b \in 0 .. l - 1
      BY <1>2, <2>1
    <3> QED BY <1>e, <3>1
  <2>2. CASE ~(b < l)
    <3>1. b \in l .. c.batch - 1
      BY <1>2, <2>2
    <3>2. pads # 0
      BY <1>2, <3>1
    <3>3. p # "chunk"
      BY <1>1, <3>2 DEF p
    <3> QED BY <1>2, <1>3, <3>1, <3>3 DEF PadOK
  <2> QED BY <2>1, <2>2
<1>10. ASSUME NEW t \in DOMAIN c.indx, t >= c.start[c.batch]
       PROVE  p = "native" /\ c.slot[c.batch - 1] = PadRow /\ c.indx[t] \in 0 .. Len(call'.tokens) - 1
  <2>1. extra = 1 /\ t = c.start[l]
    BY <1>3, <1>5, <1>6, <1>10
  <2>2. p = "native" /\ pads = 1
    BY <1>5, <2>1
  <2>3. c.batch - 1 \in l .. c.batch - 1
    BY <1>2, <2>2
  <2>4. c.slot[c.batch - 1] = PadRow
    BY <1>3, <2>3
  <2>5. c.indx[t] = t
    BY <1>3, <1>6, <2>1
  <2>6. c.start[l] = l
    <3> DEFINE P == {x \in Nat : x <= l => c.start[x] = x}
    <3>1. 0 \in P
      BY <1>2
    <3>2. ASSUME NEW x \in Nat, x \in P PROVE x + 1 \in P
      <4> SUFFICES ASSUME x + 1 <= l PROVE c.start[x + 1] = x + 1
        OBVIOUS
      <4>1. x \in 0 .. l - 1 /\ x + 1 \in 1 .. l /\ c.start[x] = x
        BY <1>2, <3>2
      <4>2. n[list[x + 1]] = 1
        BY <1>n, <2>2, <4>1 DEF l
      <4>3. c.start[x + 1] = c.start[x] + n[list[x + 1]]
        BY <1>2, <4>1
      <4> QED BY <4>1, <4>2, <4>3
    <3> HIDE DEF P
    <3>3. Nat \subseteq P
      BY <3>1, <3>2, NatInduct, Zenon
    <3>4. l \in P /\ l <= l
      BY <1>2, <3>3
    <3> QED BY <3>4 DEF P
  <2>7. l <= total
    BY <1>1, <1>2, <1>m DEF l
  <2>8. t \in 0 .. (total + pads) - 1
    BY <1>2, <1>m, <2>1, <2>2, <2>6, <2>7
  <2> QED BY <1>4, <2>2, <2>4, <2>5, <2>8
<1>11. c.path \in {"spec", "native", "chunk"} /\ c.path = p
  BY <1>1, <1>2 DEF p
<1>12. \A b \in 0 .. c.batch - 1 : PadOK(c, b) \/ \E s \in Seqs : EntryOK(c, b, s)'
  BY <1>9
<1>13. \A t \in DOMAIN c.indx : t >= c.start[c.batch] =>
         c.path = "native" /\ c.slot[c.batch - 1] = PadRow /\ c.indx[t] \in 0 .. Len(call'.tokens) - 1
  BY <1>10, <1>11
<1> QED BY <1>2, <1>7, <1>8, <1>11, <1>12, <1>13 DEF ChainOK, Entries, Tokens

(* The entries that serve a sequence are those its list puts it in.        *)
LEMMA ServesMade ==
  ASSUME NEW order, NEW kind, NEW n, NEW at, NEW total, NEW pads, NEW chains, NEW m, NEW path, NEW kinds,
         Made(order, kind, n, at, total, pads, chains, m, path, kinds),
         NEW k \in 1 .. m, NEW list, list = OfKind(order, kind, kinds[k]), NEW c, c = chains[k],
         NEW b \in 0 .. c.batch - 1, NEW s \in Seqs
  PROVE  Serves(c, b, s) <=> b \in 0 .. Len(list) - 1 /\ list[b + 1] = s
<1> DEFINE p == path[k]
           l == Len(list)
<1>1. ChainStarts(c, p, list, n, pads) /\ ChainEntries(c, p, list, n, at, pads) /\ Handed(list, n, pads)
  BY ListMade
<1>2. /\ c.batch \in Nat /\ l \in Nat
      /\ \A d \in 0 .. l - 1 : c.slot[d] = SlotsOf(list[d + 1])
      /\ \A d \in l .. c.batch - 1 : c.slot[d] = PadRow
  BY <1>1 DEF ChainStarts, ChainEntries
<1>3. \A i \in 1 .. l : list[i] \in Seqs
  BY <1>1, LenProperties DEF Handed
<1> HIDE DEF l
<1>4. CASE b \in 0 .. l - 1
  <2>1. b + 1 \in 1 .. l
    BY <1>2, <1>4
  <2>2. list[b + 1] \in Seqs /\ c.slot[b] = SlotsOf(list[b + 1])
    BY <1>2, <1>3, <1>4, <2>1
  <2>3. SlotsOf(list[b + 1]) = SlotsOf(s) <=> list[b + 1] = s
    BY <2>2, SlotsDiffer
  <2> QED BY <1>4, <2>2, <2>3 DEF Serves, l
<1>5. CASE b \notin 0 .. l - 1
  <2>1. b \in l .. c.batch - 1
    BY <1>2, <1>5
  <2>2. c.slot[b] # SlotsOf(s)
    BY <1>2, <2>1, SlotsDiffer
  <2> QED BY <1>5, <2>2 DEF Serves, l
<1> QED BY <1>4, <1>5

(* A call is as the invariant wants it.                                    *)
LEMMA CallMade ==
  ASSUME calls \in Nat, NEW order, NEW kind, NEW n, NEW at, NEW total, NEW pads,
         NEW chains, NEW m, NEW path, NEW kinds,
         Made(order, kind, n, at, total, pads, chains, m, path, kinds)
  PROVE  CallOK'
<1> DEFINE list(k) == OfKind(order, kind, kinds[k])
<1>1. /\ m \in {1, 2} /\ Len(chains) = m /\ DOMAIN chains = 1 .. m
      /\ \A k, l \in 1 .. m : k # l => kinds[k] \cap kinds[l] = {}
      /\ \A s \in ToSet(order) : \E k \in 1 .. m : kind[s] \in kinds[k]
      /\ order \in Orders /\ call'.chains = chains
  BY DEF Made, Divided
<1>2. call'.chains # <<>> /\ \E x \in Nat : DOMAIN call'.chains = 1 .. x
  <2>1. m \in Nat /\ m # 0
    BY <1>1
  <2> QED BY <1>1, <2>1, EmptySeq
<1>3. FeedOK' /\ \A s \in Seqs \ ToSet(order) : call'.fed[s] = <<>>
  BY FeedMade
<1>4. ASSUME NEW k \in 1 .. m PROVE ChainOK(chains[k])'
  <2> DEFINE c == chains[k]
             q == list(k)
  <2> HIDE DEF c, q
  <2>1. c = chains[k] /\ q = OfKind(order, kind, kinds[k])
    BY DEF c, q
  <2>2. ChainOK(c)'
    BY <2>1, ChainMade
  <2> QED BY <2>2 DEF c
<1>5. ASSUME NEW s \in Seqs, call'.fed[s] # <<>>
      PROVE  \E k \in 1 .. m : \E b \in 0 .. chains[k].batch - 1 : Serves(chains[k], b, s)
  <2>1. s \in ToSet(order)
    BY <1>3, <1>5
  <2>2. PICK k \in 1 .. m : kind[s] \in kinds[k]
    BY <1>1, <2>1
  <2> DEFINE c == chains[k]
             q == list(k)
  <2>3. \E i \in 1 .. Len(q) : q[i] = s
    BY <1>1, <2>1, <2>2, OfKindFacts
  <2> HIDE DEF c, q
  <2>4. c = chains[k] /\ q = OfKind(order, kind, kinds[k])
    BY DEF c, q
  <2>5. ChainStarts(c, path[k], q, n, pads) /\ Handed(q, n, pads)
    BY <2>4, ListMade
  <2>6. c.batch = Len(q) + pads /\ pads \in {0, 1} /\ Len(q) \in Nat
    BY <2>5 DEF ChainStarts, Handed
  <2>7. PICK i \in 1 .. Len(q) : q[i] = s
    BY <2>3
  <2>8. i - 1 \in 0 .. c.batch - 1 /\ i - 1 \in 0 .. Len(q) - 1 /\ (i - 1) + 1 = i
    BY <2>6
  <2>9. Serves(c, i - 1, s)
    BY <2>4, <2>7, <2>8, ServesMade
  <2> QED BY <2>8, <2>9 DEF c
<1>6. ASSUME NEW k \in 1 .. m, NEW l \in 1 .. m, NEW b \in 0 .. chains[k].batch - 1, NEW d \in 0 .. chains[l].batch - 1,
             NEW s \in Seqs, Serves(chains[k], b, s), Serves(chains[l], d, s)
      PROVE  k = l /\ b = d
  <2>1. b \in 0 .. Len(list(k)) - 1 /\ list(k)[b + 1] = s
    BY <1>6, ServesMade
  <2>2. d \in 0 .. Len(list(l)) - 1 /\ list(l)[d + 1] = s
    BY <1>6, ServesMade
  <2>3. \A x \in 1 .. m : /\ Len(list(x)) \in Nat /\ Distinct(list(x))
                          /\ \A i \in 1 .. Len(list(x)) : kind[list(x)[i]] \in kinds[x]
    BY <1>1, OfKindFacts
  <2> HIDE DEF list
  <2>4. b + 1 \in 1 .. Len(list(k)) /\ d + 1 \in 1 .. Len(list(l))
    BY <2>1, <2>2, <2>3
  <2>5. kind[s] \in kinds[k] /\ kind[s] \in kinds[l]
    BY <2>1, <2>2, <2>3, <2>4
  <2>6. k = l
    BY <1>1, <2>5
  <2>7. b + 1 = d + 1
    BY <2>1, <2>2, <2>3, <2>4, <2>6 DEF Distinct
  <2>8. b = d
    BY <2>1, <2>2, <2>3, <2>7
  <2> QED BY <2>6, <2>8
<1> QED BY <1>1, <1>2, <1>3, <1>4, <1>5, <1>6 DEF CallOK, ChainIds, Entries, Fed, Serves

(* The buffers of a chain, and its work-groups.                            *)
LEMMA BuffersMade ==
  ASSUME NEW c, ChainOK(c)'
  PROVE  /\ Buffers(c) \in [0 .. Height(c) - 1 -> Row]
         /\ \A e : Groups(e, c) # {}
         /\ c.path \in {"spec", "native", "chunk"}
<1>1. /\ c.batch \in Nat \ {0} /\ c.start[c.batch] \in Nat \ {0} /\ c.path \in {"spec", "native", "chunk"}
      /\ \E x \in Nat : DOMAIN c.indx = 0 .. x - 1 /\ x >= c.start[c.batch]
  <2>1. c.batch \in Nat \ {0} /\ c.start \in [0 .. c.batch -> Nat] /\ c.start[c.batch] > 0
    BY DEF ChainOK
  <2>2. c.batch \in 0 .. c.batch
    BY <2>1
  <2>3. c.start[c.batch] \in Nat \ {0}
    BY <2>1, <2>2
  <2> QED BY <2>1, <2>3 DEF ChainOK
<1>2. PICK x \in Nat : DOMAIN c.indx = 0 .. x - 1 /\ x >= c.start[c.batch]
  BY <1>1
<1>3. x # 0
  BY <1>1, <1>2
<1>4. Tokens(c) = 0 .. x - 1 /\ Entries(c) = 0 .. c.batch - 1
  BY <1>2 DEF Tokens, Entries
<1>5. Cardinality(Tokens(c)) = x
  <2>1. Cardinality(0 .. x - 1) = x
    BY <1>3, FS_Interval
  <2> QED BY <1>4, <2>1
<1>6. \A e : Groups(e, c) # {}
  <2>1. 0 \in Tokens(c) /\ 0 \in Entries(c)
    BY <1>1, <1>3, <1>4
  <2> QED BY <2>1 DEF Groups
<1>7. ZeroRow \in Row /\ JunkRow \in Row
  BY DEF ZeroRow, JunkRow, Row, Zero, Junk
<1>8. Buffers(c) \in [0 .. Height(c) - 1 -> Row]
  <2>1. CASE c.path = "chunk"
    <3> DEFINE h == Cardinality(Tokens(c)) + c.batch * (ChunkSize - 1)
               last == Cardinality(Tokens(c)) + c.batch * (ChunkSize - 1) - 1
    <3>1. Buffers(c) = [t \in 0 .. last |-> ZeroRow]
      BY <2>1, Zenon DEF Buffers
    <3>2. Height(c) = h
      BY <2>1, Zenon DEF Height
    <3>3. last = h - 1
      <4>1. PICK y \in Int : y = c.batch * (ChunkSize - 1)
        BY <1>1, Sizes
      <4> QED BY <1>5, <4>1
    <3> HIDE DEF h, last
    <3> QED BY <1>7, <3>1, <3>2, <3>3
  <2>2. CASE c.path # "chunk"
    <3>1. Buffers(c) = [t \in Tokens(c) |-> JunkRow] /\ Height(c) = x
      BY <1>5, <2>2 DEF Buffers, Height
    <3> QED BY <1>4, <1>7, <3>1
  <2> QED BY <2>1, <2>2
<1> QED BY <1>1, <1>6, <1>8

ChainReady(c) ==
  /\ Buffers(c) \in [0 .. Height(c) - 1 -> Row]
  /\ \A e : Groups(e, c) # {}
  /\ c.path \in {"spec", "native", "chunk"}

LEMMA ChainsMade ==
  ASSUME calls \in Nat, NEW order, NEW kind, NEW n, NEW at, NEW total, NEW pads,
         NEW chains, NEW m, NEW path, NEW kinds,
         Made(order, kind, n, at, total, pads, chains, m, path, kinds)
  PROVE  /\ m \in {1, 2} /\ Len(chains) = m /\ DOMAIN chains = 1 .. m /\ call'.chains = chains /\ ChainIds' = 1 .. m
         /\ \A k \in 1 .. m : ChainReady(chains[k])
<1>1. m \in {1, 2} /\ Len(chains) = m /\ DOMAIN chains = 1 .. m /\ call'.chains = chains
  BY DEF Made, Divided
<1>2. ChainIds' = 1 .. m
  BY <1>1 DEF ChainIds
<1>3. ASSUME NEW k \in 1 .. m
      PROVE  ChainReady(chains[k])
  <2>1. CallOK'
    BY CallMade
  <2> DEFINE c == chains[k]
  <2>2. ChainOK(c)'
    BY <1>1, <1>2, <2>1 DEF CallOK
  <2> HIDE DEF c
  <2>3. ChainReady(c)
    BY <2>2, BuffersMade DEF ChainReady
  <2> QED BY <2>3 DEF c
<1> QED BY <1>1, <1>2, <1>3

LEMMA WorksMade ==
  ASSUME calls \in Nat, NEW order, NEW kind, NEW n, NEW at, NEW total, NEW pads,
         NEW chains, NEW m, NEW path, NEW kinds,
         Made(order, kind, n, at, total, pads, chains, m, path, kinds),
         mid' = [k \in DOMAIN chains |-> Buffers(chains[k])],
         tmp' = [k \in DOMAIN chains |-> [b \in Entries(chains[k]) |-> [i \in 0 .. Width - 2 |-> Junk]]],
         out' = [g \in 0 .. (total + pads) - 1 |-> <<JunkRow>>], z' = [g \in 0 .. (total + pads) - 1 |-> Junk]
  PROVE  WorkType'
<1>a. /\ DOMAIN chains = 1 .. m /\ call'.chains = chains /\ ChainIds' = 1 .. m
      /\ \A k \in 1 .. m : ChainReady(chains[k])
  BY ChainsMade
<1>1. /\ DOMAIN chains = 1 .. m /\ call'.chains = chains /\ ChainIds' = 1 .. m
      /\ \A k \in 1 .. m : Buffers(chains[k]) \in [0 .. Height(chains[k]) - 1 -> Row]
  BY <1>a DEF ChainReady
<1>2. Len(call'.tokens) = total + pads
  BY FeedMade
<1>3. mid' = [k \in ChainIds' |-> mid'[k]] /\ tmp' = [k \in ChainIds' |-> tmp'[k]]
  BY <1>1
<1>4. \A k \in ChainIds' : mid'[k] \in [0 .. Height(call'.chains[k]) - 1 -> Row]
  BY <1>1
<1>5. \A k \in ChainIds' : tmp'[k] \in [Entries(call'.chains[k]) -> [0 .. Width - 2 -> Int]]
  <2>1. [i \in 0 .. Width - 2 |-> Junk] \in [0 .. Width - 2 -> Int]
    BY DEF Junk
  <2> DEFINE j == [i \in 0 .. Width - 2 |-> Junk]
  <2> HIDE DEF j
  <2>2. \A k \in ChainIds' : tmp'[k] = [b \in Entries(chains[k]) |-> j]
    BY <1>1 DEF j
  <2>3. j \in [0 .. Width - 2 -> Int]
    BY <2>1 DEF j
  <2> QED BY <1>1, <2>2, <2>3
<1>6. out' \in [0 .. Len(call'.tokens) - 1 -> Seq(Row)]
  <2>1. <<JunkRow>> \in Seq(Row)
    <3>1. JunkRow \in Row
      BY DEF JunkRow, Row, Junk
    <3> QED BY <3>1
  <2> QED BY <1>2, <2>1
<1>7. z' \in [0 .. Len(call'.tokens) - 1 -> Int]
  BY <1>2 DEF Junk
<1> QED BY <1>3, <1>4, <1>5, <1>6, <1>7 DEF WorkType

(* No work-group has run.                                                  *)
NothingRan == \A k \in ChainIds : \A f \in KernelsOf(call.chains[k].path) :
                \A w \in Groups(f, call.chains[k]) : ~Ran(f, k, w)

(* The queue starts with all work-groups of the first kernel.              *)
LEMMA QueueStarts ==
  ASSUME calls \in Nat, NEW order, NEW kind, NEW n, NEW at, NEW total, NEW pads,
         NEW chains, NEW m, NEW path, NEW kinds,
         Made(order, kind, n, at, total, pads, chains, m, path, kinds),
         queue' = Submitted(chains), todo' = Groups(Submitted(chains)[1][1], chains[1])
  PROVE  QueueOK' /\ NothingRan' /\ InOrder'
<1> DEFINE q == Submitted(chains)
<1>1. /\ m \in {1, 2} /\ Len(chains) = m /\ DOMAIN chains = 1 .. m /\ call'.chains = chains /\ ChainIds' = 1 .. m
  BY ChainsMade
<1>c. \A k \in 1 .. m : ChainReady(chains[k])
  BY ChainsMade
<1>g. \A k \in 1 .. m : (\A e : Groups(e, chains[k]) # {}) /\ chains[k].path \in {"spec", "native", "chunk"}
  BY <1>c DEF ChainReady
<1>2. Queued(q, chains, 1 .. m) /\ q[1][2] = 1
  BY <1>1, <1>g, QueueMade
<1>h. queue' = q /\ todo' = Groups(q[1][1], chains[1])
  OBVIOUS
<1> HIDE DEF q
<1>3. /\ q \in Seq(Kernel \X (1 .. m)) /\ Len(q) \in Nat \ {0}
      /\ \A i \in 1 .. Len(q) : q[i][2] \in 1 .. m /\ q[i][1] \in KernelsOf(chains[q[i][2]].path)
      /\ \A i, j \in 1 .. Len(q) : i < j /\ q[i][2] = q[j][2] => Stage(q[i][1]) < Stage(q[j][1])
      /\ \A k \in 1 .. m : \A f \in KernelsOf(chains[k].path) : \E i \in 1 .. Len(q) : q[i] = <<f, k>>
  BY <1>2 DEF Queued
<1>4. todo' # {} /\ todo' = Groups(q[1][1], chains[q[1][2]])
  <2>1. 1 \in 1 .. m
    BY <1>1
  <2> QED BY <1>g, <1>2, <1>h, <2>1
<1>5. q # <<>>
  BY <1>3, EmptySeq
<1>6. QueueOK'
  BY <1>1, <1>3, <1>4, <1>5, <1>h DEF QueueOK, Groups, Tokens, Entries
<1>7. ASSUME NEW k \in 1 .. m, NEW f \in KernelsOf(chains[k].path), NEW w \in Groups(f, chains[k]), Ran(f, k, w)'
      PROVE  FALSE
  <2>1. PICK i \in 1 .. Len(q) : q[i] = <<f, k>>
    BY <1>3
  <2>2. /\ \A j \in 2 .. Len(q) : q[j] # <<f, k>>
        /\ q # <<>> /\ q[1] = <<f, k>> => w \notin todo'
    BY <1>7, <1>h DEF Ran
  <2>3. i = 1
    BY <1>3, <2>1, <2>2
  <2>4. q[1] = <<f, k>>
    BY <2>1, <2>3
  <2>5. todo' = Groups(f, chains[k])
    BY <1>4, <2>4
  <2> QED BY <1>5, <2>2, <2>4, <2>5
<1>8. NothingRan'
  BY <1>1, <1>7 DEF NothingRan, Groups, Tokens, Entries
<1>9. InOrder'
  BY <1>8 DEF InOrder, NothingRan
<1> QED BY <1>6, <1>8, <1>9

(* Nothing has run for an entry: the caches hold what they did at rest.    *)
LEMMA EntryStarts ==
  ASSUME GdnInv, ~InCall, NEW order, NEW kind, NEW n, NEW at, NEW total, NEW pads,
         NEW chains, NEW m, NEW path, NEW kinds,
         Made(order, kind, n, at, total, pads, chains, m, path, kinds),
         NothingRan', conv' = conv, ssm' = ssm,
         NEW k \in 1 .. m, NEW c, c = chains[k], NEW b \in 0 .. c.batch - 1, NEW s \in Seqs, Serves(c, b, s)
  PROVE  EntryInv(k, b, s)'
<1> DEFINE list == OfKind(order, kind, kinds[k])
<1> HIDE DEF list
<1>0. list = OfKind(order, kind, kinds[k])
  BY DEF list
<1>1. /\ ChainIds' = 1 .. m /\ call'.chains = chains /\ said' = said /\ acc' = acc /\ call'.chains[k] = c
      /\ calls \in Nat
  <2>1. calls \in Nat
    BY DEF GdnInv, GdnType
  <2>2. ChainIds' = 1 .. m /\ call'.chains = chains
    BY <2>1, ChainsMade
  <2> QED BY <2>1, <2>2 DEF Made
<1>2. b \in 0 .. Len(list) - 1 /\ list[b + 1] = s
  BY <1>0, ServesMade
<1>3. EntryOK(c, b, s)'
  BY <1>0, <1>1, <1>2, EntryMade
<1>4. /\ c.start \in [0 .. c.batch -> Nat] /\ c.batch \in Nat \ {0} /\ c.path \in {"spec", "native", "chunk"}
      /\ c.start[b + 1] <= c.start[c.batch] /\ c.start[b] \in Nat /\ c.start[b + 1] \in Nat /\ c.start[c.batch] \in Nat
      /\ \E x \in Nat : DOMAIN c.indx = 0 .. x - 1 /\ x >= c.start[c.batch]
  <2>1. ChainStarts(c, path[k], list, n, pads)
    BY <1>0, ListMade
  <2>2. ChainOK(c)'
    BY <1>0, <1>1, ChainMade
  <2>3. b + 1 \in 0 .. c.batch /\ c.batch \in (b + 1) .. c.batch /\ b \in 0 .. c.batch /\ c.batch \in 0 .. c.batch
    BY <2>1 DEF ChainStarts
  <2>4. c.start[b + 1] <= c.start[c.batch] /\ c.start \in [0 .. c.batch -> Nat] /\ c.batch \in Nat \ {0}
    BY <2>1, <2>3 DEF ChainStarts
  <2>5. c.path \in {"spec", "native", "chunk"} /\ \E x \in Nat : DOMAIN c.indx = 0 .. x - 1 /\ x >= c.start[c.batch]
    BY <2>2 DEF ChainOK
  <2> QED BY <2>3, <2>4, <2>5
<1>5. /\ c.start[b + 1] = c.start[b] + Len(call'.fed[s]) /\ Len(call'.fed[s]) \in Nat
      /\ (c.path = "spec" <=> s \in spec') /\ (c.path # "chunk" => said[s] # <<>>)
  <2>1. s \in ToSet(order)
    <3>1. b + 1 \in 1 .. Len(list)
      <4>1. Len(list) \in Nat
        BY <1>0, ListMade DEF ChainStarts
      <4> QED BY <1>2, <4>1
    <3> QED BY <1>0, <1>2, <3>1, ListMade
  <2>2. Len(call'.fed[s]) = n[s] /\ n[s] \in Nat
    <3>1. Len(call'.fed[s]) = n[s]
      BY <1>1, <2>1, FeedMade
    <3>2. n[s] \in Nat
      BY <2>1 DEF Made
    <3> QED BY <3>1, <3>2
  <2> QED BY <1>1, <1>3, <2>2 DEF EntryOK, Fed
<1>6. ASSUME NEW e \in KernelsOf(c.path) PROVE Did(e, k, b, s)' = {}
  <2> SUFFICES ASSUME NEW i \in 1 .. Len(call'.fed[s]), Ran(e, k, WorkAt(e, c, b, i))' PROVE FALSE
    BY <1>1 DEF Did, Fed, WorkAt
  <2>1. WorkAt(e, c, b, i) \in Groups(e, c)
    <3>1. c.start[b] + i - 1 \in Tokens(c)
      <4>1. PICK x \in Nat : DOMAIN c.indx = 0 .. x - 1 /\ x >= c.start[c.batch]
        BY <1>4
      <4>a. PICK a \in Nat : a = c.start[b]
        BY <1>4
      <4>l. PICK l \in Nat : l = Len(call'.fed[s])
        BY <1>5
      <4>x. a + l <= x
        <5>1. PICK y \in Nat, v \in Nat : y = c.start[b + 1] /\ v = c.start[c.batch]
          BY <1>4
        <5>2. y <= v /\ x >= v /\ y = a + l
          BY <1>4, <1>5, <4>1, <4>a, <4>l, <5>1
        <5> QED BY <5>1, <5>2
      <4>i. i \in 1 .. l
        BY <4>l
      <4>y. a + i - 1 \in 0 .. x - 1
        BY <4>x, <4>i
      <4>2. c.start[b] + i - 1 \in 0 .. x - 1
        BY <4>a, <4>y
      <4> QED BY <4>1, <4>2 DEF Tokens
    <3>2. b \in Entries(c)
      BY DEF Entries
    <3> QED BY <3>1, <3>2 DEF WorkAt, Groups
  <2> QED BY <1>1, <2>1 DEF NothingRan, Groups, Tokens, Entries
<1>7. /\ s \notin spec' => acc[s] = 1
      /\ said[s] # <<>> => ssm[SlotsOf(s)[acc[s] - 1]] = Taken(said[s]) /\ LineHolds(conv[SlotsOf(s)[0]], acc[s], said[s])
      /\ acc[s] \in 1 .. NumSpec
  <2>1. s \notin spec' => s \notin spec
    BY DEF Made
  <2>2. (s \notin spec => acc[s] = 1) /\ AtRest(s) /\ acc[s] \in 1 .. NumSpec
    BY DEF GdnInv, GdnType
  <2> QED BY <2>1, <2>2 DEF AtRest
<1> DEFINE v == [line |-> conv'[SlotsOf(s)[0]],
   cols |-> [j \in 0 .. NumSpec - 1 |-> ssm'[SlotsOf(s)[j]]],
   rows |-> [i \in 1 .. Len(call'.fed[s]) |-> mid'[k][RowAt(call'.chains[k], b, i)]],
   outs |-> [i \in 1 .. Len(call'.fed[s]) |-> out'[call'.at[s] + i - 1]],
   zs |-> [i \in 1 .. Len(call'.fed[s]) |-> z'[call'.at[s] + i - 1]],
   saved |-> tmp'[k][b],
   did |-> [e \in Kernel |-> Did(e, k, b, s)']]
<1>8. View(k, b, s)' = v
  BY DEF View, Fed
<1>9. /\ v.line = conv[SlotsOf(s)[0]]
      /\ \A j \in 0 .. NumSpec - 1 : v.cols[j] = ssm[SlotsOf(s)[j]]
      /\ \A e \in Kernel : v.did[e] = Did(e, k, b, s)'
  OBVIOUS
<1> HIDE DEF v
<1>10. \A e \in KernelsOf(c.path) : v.did[e] = {}
  <2>1. KernelsOf(c.path) \subseteq Kernel
    BY <1>4 DEF KernelsOf, Kernel
  <2> QED BY <1>6, <1>9, <2>1
<1>11. acc[s] - 1 \in 0 .. NumSpec - 1 /\ 0 \in 0 .. NumSpec - 1
  BY <1>7, Sizes
<1>12. said[s] # <<>> => v.cols[acc[s] - 1] = Taken(said[s]) /\ LineHolds(v.line, acc[s], said[s])
  BY <1>7, <1>9, <1>11
<1>13. CASE c.path = "native"
  <2>1. v.did["causal_conv1d"] = {} /\ v.did["gated_delta_rule"] = {}
    BY <1>10, <1>13 DEF KernelsOf
  <2>2. acc[s] = 1 /\ said[s] # <<>>
    BY <1>5, <1>7, <1>13
  <2>3. acc[s] - 1 = 0
    BY <2>2
  <2>4. v.cols[0] = Taken(said[s]) /\ LineHolds(v.line, 1, said[s])
    BY <1>12, <2>2, <2>3
  <2>5. NativeInv(v, said[s], call'.fed[s])
    BY <2>1, <2>4 DEF NativeInv
  <2> QED BY <1>1, <1>8, <1>13, <2>5 DEF EntryInv, Fed
<1>14. CASE c.path = "chunk"
  <2>1. v.did["chunk_causal_conv1d"] = {} /\ v.did["chunk_reorder_zba"] = {} /\ v.did["update_states"] = {}
        /\ v.did["chunk_gated_delta_rule"] = {}
    BY <1>10, <1>14 DEF KernelsOf
  <2>2. acc[s] = 1
    BY <1>5, <1>7, <1>14
  <2>3. acc[s] - 1 = 0
    BY <2>2
  <2>4. said[s] # <<>> => v.cols[0] = Taken(said[s]) /\ LineHolds(v.line, 1, said[s])
    BY <1>12, <2>2, <2>3
  <2>5. ChunkInv(v, said[s], call'.fed[s])
    BY <2>1, <2>4 DEF ChunkInv
  <2> QED BY <1>1, <1>8, <1>14, <2>5 DEF EntryInv, Fed
<1>15. CASE c.path = "spec"
  <2>1. v.did["causal_conv1d_spec"] = {} /\ v.did["gated_delta_rule_spec"] = {}
    BY <1>10, <1>15 DEF KernelsOf
  <2>2. said[s] # <<>>
    BY <1>5, <1>15
  <2>3. SpecInv(v, said[s], call'.fed[s], acc[s])
    BY <1>12, <2>1, <2>2 DEF SpecInv
  <2> QED BY <1>1, <1>8, <1>15, <2>3 DEF EntryInv, Fed
<1> QED BY <1>4, <1>13, <1>14, <1>15

LEMMA KindFacts ==
  ASSUME GdnInv, NEW order \in Orders, NEW work \in Works(order), NEW s \in ToSet(order)
  PROVE  /\ work[s][1] \in {"spec", "decode", "prefill"} /\ work[s][2] \in Nat \ {0}
         /\ s \in spec => work[s][1] = "spec"
         /\ work[s][1] # "prefill" => said[s] # <<>>
         /\ work[s][1] = "decode" => work[s][2] = 1
         /\ work[s][1] = "spec" => work[s][2] <= NumSpec
<1>0. s \in Seqs /\ work[s] \in Work(s) /\ MaxFed \in Nat /\ NumSpec \in Nat
  BY OrderFacts, Sizes, GdnAssumption DEF Works
<1>1. CASE s \in spec
  <2>1. work[s] \in {"spec"} \X (1 .. NumSpec)
    BY <1>0, <1>1 DEF Work
  <2>2. said[s] # <<>>
    BY <1>0, <1>1 DEF GdnInv
  <2>3. work[s][1] = "spec" /\ work[s][2] \in 1 .. NumSpec
    BY <2>1
  <2> QED BY <1>0, <2>2, <2>3
<1>2. CASE s \notin spec
  <2>1. \/ work[s] \in {"prefill"} \X (1 .. MaxFed)
        \/ said[s] # <<>> /\ work[s] = <<"decode", 1>>
        \/ said[s] # <<>> /\ work[s] \in {"spec"} \X (1 .. NumSpec)
    BY <1>0, <1>2 DEF Work
  <2>2. CASE work[s] \in {"prefill"} \X (1 .. MaxFed)
    <3>1. work[s][1] = "prefill" /\ work[s][2] \in 1 .. MaxFed
      BY <2>2
    <3> QED BY <1>0, <1>2, <3>1
  <2>3. CASE said[s] # <<>> /\ work[s] = <<"decode", 1>>
    <3>1. work[s][1] = "decode" /\ work[s][2] = 1
      BY <2>3
    <3> QED BY <1>2, <2>3, <3>1
  <2>4. CASE said[s] # <<>> /\ work[s] \in {"spec"} \X (1 .. NumSpec)
    <3>1. work[s][1] = "spec" /\ work[s][2] \in 1 .. NumSpec
      BY <2>4
    <3> QED BY <1>0, <1>2, <2>4, <3>1
  <2> QED BY <2>1, <2>2, <2>3, <2>4
<1> QED BY <1>1, <1>2

(* A call makes what the proof calls made, and the buffers for it.         *)
LEMMA CallMakes ==
  ASSUME GdnInv, Call
  PROVE  \E order, kind, n, at, total, pads, chains, m, path, kinds :
           /\ Made(order, kind, n, at, total, pads, chains, m, path, kinds)
           /\ mid' = [k \in DOMAIN chains |-> Buffers(chains[k])]
           /\ tmp' = [k \in DOMAIN chains |-> [b \in Entries(chains[k]) |-> [i \in 0 .. Width - 2 |-> Junk]]]
           /\ out' = [g \in 0 .. (total + pads) - 1 |-> <<JunkRow>>]
           /\ z' = [g \in 0 .. (total + pads) - 1 |-> Junk]
           /\ queue' = Submitted(chains) /\ todo' = Groups(Submitted(chains)[1][1], chains[1])
<1>a. PICK order \in Orders : \E work \in Works(order) : \E split \in BOOLEAN : \E pads \in 0 .. 1 :
        /\ Packed(order, [s \in ToSet(order) |-> work[s][1]], split, pads)
        /\ Forward(order, [s \in ToSet(order) |-> work[s][1]], [s \in ToSet(order) |-> work[s][2]], split, pads)
  BY Zenon DEF Call
<1>1. PICK work \in Works(order), split \in BOOLEAN, pads \in 0 .. 1 :
        /\ Packed(order, [s \in ToSet(order) |-> work[s][1]], split, pads)
        /\ Forward(order, [s \in ToSet(order) |-> work[s][1]], [s \in ToSet(order) |-> work[s][2]], split, pads)
  BY <1>a
<1> DEFINE mine == ToSet(order)
           kind == [s \in mine |-> work[s][1]]
           n == [s \in mine |-> work[s][2]]
           begin == PartialSums([i \in 0 .. Len(order) - 1 |-> n[order[i + 1]]])
           at == [s \in Seqs |-> IF s \in mine THEN begin[(CHOOSE i \in DOMAIN order : order[i] = s) - 1] ELSE 0]
           total == begin[Len(order)]
           chains == Chains(order, kind, n, at, split, pads)
<1>2. Packed(order, kind, split, pads) /\ Forward(order, kind, n, split, pads)
  BY <1>1
<1>3. ASSUME NEW s \in mine
      PROVE  /\ kind[s] \in {"spec", "decode", "prefill"} /\ n[s] \in Nat \ {0}
             /\ s \in spec => kind[s] = "spec"
             /\ kind[s] # "prefill" => said[s] # <<>>
             /\ kind[s] = "decode" => n[s] = 1
             /\ kind[s] = "spec" => n[s] <= NumSpec
  BY KindFacts
<1>4. kind \in [ToSet(order) -> {"spec", "decode", "prefill"}]
  BY <1>3
<1> HIDE DEF kind, n
<1>5. Placed(order, n, at, total)
  <2>1. \A s \in ToSet(order) : n[s] \in Nat \ {0}
    BY <1>3
  <2>2. Placed(order, n, at, begin[Len(order)])
    BY <2>1, PlacesFit
  <2> QED BY <2>2
<1>6. /\ call' = [tokens |-> [i \in 1 .. total + pads |-> IF i <= total THEN Token(i) ELSE Junk],
                 chains |-> chains,
                 fed |-> [s \in Seqs |-> IF s \in mine THEN [i \in 1 .. n[s] |-> Token(at[s] + i)] ELSE <<>>],
                 at |-> at]
      /\ spec' = spec \cup {s \in mine : kind[s] = "spec"}
      /\ mid' = [k \in DOMAIN chains |-> Buffers(chains[k])]
      /\ tmp' = [k \in DOMAIN chains |-> [b \in Entries(chains[k]) |-> [i \in 0 .. Width - 2 |-> Junk]]]
      /\ out' = [g \in 0 .. (total + pads) - 1 |-> <<JunkRow>>]
      /\ z' = [g \in 0 .. (total + pads) - 1 |-> Junk]
      /\ queue' = Submitted(chains) /\ todo' = Groups(Submitted(chains)[1][1], chains[1])
  BY <1>2, Zenon DEF Forward
<1> HIDE DEF at, total, chains
<1>7. PICK m, path, kinds : Divided(chains, m, path, kinds, order, kind, n, at, pads)
  BY <1>2, <1>4, ChainsDivided DEF chains
<1>8. said' = said /\ acc' = acc
  BY DEF Call
<1>9. /\ call'.tokens = [i \in 1 .. total + pads |-> IF i <= total THEN Token(i) ELSE Junk]
      /\ call'.fed = [s \in Seqs |-> IF s \in ToSet(order) THEN [i \in 1 .. n[s] |-> Token(at[s] + i)] ELSE <<>>]
      /\ call'.at = at /\ call'.chains = chains
  BY <1>6
<1>10. Made(order, kind, n, at, total, pads, chains, m, path, kinds)
  BY <1>3, <1>5, <1>6, <1>7, <1>8, <1>9 DEF Made
<1> QED BY <1>6, <1>10, Zenon

(* The invariant is kept by a call.                                        *)
LEMMA CallStep ==
  ASSUME GdnInv, Call
  PROVE  GdnInv'
<1>1. /\ ~InCall /\ calls \in Nat /\ calls' = calls + 1 /\ conv' = conv /\ ssm' = ssm /\ said' = said /\ acc' = acc
  BY DEF Call, InCall, GdnInv, GdnType, cache
<1>2. PICK order, kind, n, at, total, pads, chains, m, path, kinds :
        /\ Made(order, kind, n, at, total, pads, chains, m, path, kinds)
        /\ mid' = [k \in DOMAIN chains |-> Buffers(chains[k])]
        /\ tmp' = [k \in DOMAIN chains |-> [b \in Entries(chains[k]) |-> [i \in 0 .. Width - 2 |-> Junk]]]
        /\ out' = [g \in 0 .. (total + pads) - 1 |-> <<JunkRow>>]
        /\ z' = [g \in 0 .. (total + pads) - 1 |-> Junk]
        /\ queue' = Submitted(chains) /\ todo' = Groups(Submitted(chains)[1][1], chains[1])
  BY CallMakes, Zenon
<1>3. CallOK'
  BY <1>1, <1>2, CallMade
<1>4. WorkType'
  BY <1>1, <1>2, WorksMade
<1>5. QueueOK' /\ NothingRan' /\ InOrder'
  BY <1>1, <1>2, QueueStarts
<1>6. /\ m \in {1, 2} /\ ChainIds' = 1 .. m /\ call'.chains = chains
      /\ spec' = spec \cup {s \in ToSet(order) : kind[s] = "spec"}
      /\ order \in Orders
      /\ \A s \in ToSet(order) : kind[s] # "prefill" => said[s] # <<>>
  <2>1. m \in {1, 2} /\ ChainIds' = 1 .. m /\ call'.chains = chains
    BY <1>1, <1>2, ChainsMade
  <2> QED BY <1>2, <2>1 DEF Made
<1>7. spec' \subseteq Seqs
  <2>1. ToSet(order) \subseteq Seqs
    BY <1>6, OrderFacts
  <2> QED BY <1>6, <2>1 DEF GdnInv, GdnType
<1>8. ASSUME NEW s \in Seqs PROVE (s \notin spec' => acc'[s] = 1) /\ (s \in spec' => said'[s] # <<>>)
  <2>1. (s \notin spec => acc[s] = 1) /\ (s \in spec => said[s] # <<>>)
    BY DEF GdnInv
  <2>2. s \in spec' => s \in spec \/ (s \in ToSet(order) /\ kind[s] = "spec")
    BY <1>6
  <2>3. s \in spec => s \in spec'
    BY <1>6
  <2> QED BY <1>1, <1>6, <2>1, <2>2, <2>3
<1>9. InCall'
  <2>1. call'.chains # NoCall.chains
    BY <1>3 DEF CallOK, NoCall
  <2> QED BY <2>1 DEF InCall
<1>10. GdnType'
  <2>1. /\ conv \in [Slots -> [0 .. StateLen - 1 -> Int]]
        /\ ssm \in [Slots \cup {Pad} -> Seq(Row)]
        /\ said \in [Seqs -> Seq(Int)] /\ acc \in [Seqs -> 1 .. NumSpec]
    BY DEF GdnInv, GdnType
  <2>2. calls' \in Nat
    BY <1>1
  <2> QED BY <1>1, <1>4, <1>7, <2>1, <2>2 DEF GdnType
<1>11. \A s \in Seqs : AtRest(s)'
  <2>1. \A s \in Seqs : AtRest(s)
    BY <1>1 DEF GdnInv
  <2> QED BY <1>1, <2>1 DEF AtRest, LineHolds
<1>12. ASSUME NEW k \in 1 .. m, NEW b \in 0 .. chains[k].batch - 1, NEW s \in Seqs, Serves(chains[k], b, s)
       PROVE  EntryInv(k, b, s)'
  BY <1>1, <1>2, <1>5, <1>12, EntryStarts
<1>13. (\A k \in ChainIds : \A b \in Entries(call.chains[k]) : \A s \in Seqs :
          Serves(call.chains[k], b, s) => EntryInv(k, b, s))'
  BY <1>6, <1>12 DEF Entries, Serves
<1>14. (\A s \in Seqs : Fed(s) = <<>> => AtRest(s))'
  BY <1>11
<1>15. (\A s \in Seqs : (s \notin spec => acc[s] = 1) /\ (s \in spec => said[s] # <<>>))'
  BY <1>8
<1> QED BY <1>3, <1>5, <1>9, <1>10, <1>13, <1>14, <1>15 DEF GdnInv

-----------------------------------------------------------------------------
(* The invariant is inductive.                                             *)
LEMMA GdnNext ==
  GdnInv /\ [Next]_vars => GdnInv'
<1> SUFFICES ASSUME GdnInv, [Next]_vars PROVE GdnInv'
  OBVIOUS
<1>1. CASE Call
  BY <1>1, CallStep
<1>2. CASE Run
  BY <1>2, RunStep
<1>3. CASE Accept
  BY <1>3, AcceptStep
<1>4. CASE UNCHANGED vars
  BY <1>4, GdnStutter
<1> QED BY <1>1, <1>2, <1>3, <1>4 DEF Next

(* The invariant: what the host makes of the call, what has run of it, and *)
(* what the caches and buffers hold for every sequence in between.         *)
THEOREM GdnInvariant == Spec => []GdnInv
<1> QED BY GdnInit, GdnNext, PTL DEF Spec

(* When a call has run, every answer is read from the state that has       *)
(* absorbed all its sequence said and was fed before it, rejected drafts   *)
(* of earlier calls excepted.                                              *)
THEOREM AnswersAreRight == Spec => []AnswersRight
<1> QED BY GdnInvariant, GdnAnswers, PTL

(* Between calls the line and the column that the next call will read hold *)
(* the last tokens said and the state that has absorbed all of them.       *)
THEOREM CachesAreKept == Spec => []CachesHold
<1> QED BY GdnInvariant, GdnCaches, PTL
=============================================================================
