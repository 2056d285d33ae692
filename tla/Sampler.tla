------------------------------ MODULE Sampler -------------------------------
(***************************************************************************)
(* topk_topp_sampler (csrc/xpu/sampler): one token for every row of the    *)
(* logits.  A row is one work-group; a work-item visits its own slice of   *)
(* the vocabulary, and group reductions are the only steps they take       *)
(* together, so a step here runs from one reduction to the next.  The      *)
(* search for the pivot halves (top-k) or interpolates (top-p) an interval *)
(* in place of sorting.  Logits are integers, of which one is the          *)
(* resolution Eps counts in; probabilities are weights over their sum.     *)
(* compact_sampling_mask then takes the logits the sampler gave back,      *)
(* masked where a token was dropped: per row the ids of the tokens left,   *)
(* packed, their number, and one bit for every token.  A work-group goes   *)
(* over the row in waves of a vector per work-item; a scan over the group  *)
(* tells each where to put its ids.                                        *)
(***************************************************************************)
EXTENDS Integers, Sequences, FiniteSets, FiniteSetsExt

CONSTANTS
  Vocab,        (* vocab_size                                              *)
  Lanes,        (* local_range, up to 512                                  *)
  VecSize,      (* VEC_SIZE, 4                                             *)
  MaxIters,     (* kMaxBisectIters, 40                                     *)
  Eps,          (* eps, 1e-9                                               *)
  NegInf,       (* the logit of a masked token, below all others           *)
  Exp,          (* native::exp, as a function of the logits and of what    *)
                (* lies between them; rising, and 0 at NegInf              *)
  Noise(_),     (* the exponential variate of a point of a random stream   *)
  Calls,        (* bound of the inputs: [rows, k, p, mode, seeds, perRow]; *)
                (* k and p are <<>> when the caller gives none             *)
  MaxKept       (* real_max_num_kept, the width of token_ids               *)

Tokens == 0 .. Vocab - 1
Lane == 0 .. Lanes - 1

ASSUME SizeAssumption == Vocab \in Nat \ {0} /\ Lanes \in Nat \ {0} /\ VecSize \in Nat \ {0}
ASSUME ExpAssumption ==
  /\ Exp[NegInf] = 0
  /\ \A x, y \in DOMAIN Exp : x <= y => Exp[x] <= Exp[y]
(* Whole waves pair their nibbles: the work-items are a multiple of the    *)
(* sub-group's 16.                                                         *)
ASSUME PairAssumption == Lanes % 2 = 0 /\ MaxKept \in 1 .. Vocab
(* A row has a finite logit, and k is from 1 to Vocab. *)
ASSUME CallAssumption ==
  \A c \in Calls :
    /\ c.rows \in Seq([Tokens -> Int]) /\ c.rows # <<>>
    /\ \A r \in DOMAIN c.rows : \E t \in Tokens : c.rows[r][t] # NegInf
    /\ \A r \in DOMAIN c.k : c.k[r] \in 1 .. Vocab
    /\ \A r \in DOMAIN c.p : c.p[r] \in 1 .. 100

VARIABLES
  call,
  row,                         (* the work-group that runs                 *)
  stage,                       (* where in the kernel it is                *)
  low, high, iter,             (* the interval of the search               *)
  pivotK, pivotP,              (* a token stays if it reaches both         *)
  lowCount, highCount, side,   (* of regula falsi                          *)
  norm,                        (* what probabilities are divided by        *)
  buffer,                      (* the slices of the scratch tensor         *)
  gathered,                    (* use_outliers                             *)
  returned,                    (* logits_to_return                         *)
  answers                      (* random_sampled, with how it came about   *)

searchVars == <<low, high, iter, pivotK, pivotP, lowCount, highCount, side, norm>>
samplerVars == <<call, row, stage, searchVars, buffer, gathered, returned, answers>>

-----------------------------------------------------------------------------
(* Vector loops with a tail: the elements they reach of n.                 *)
Visits(n) ==
  LET loops == (n + VecSize - 1) \div VecSize
      left == n - (loops - 1) * VecSize
      whole == IF left = VecSize THEN loops ELSE loops - 1
  IN {i \in 0 .. whole * VecSize - 1 : TRUE} \cup
     (IF left = VecSize THEN {} ELSE {whole * VecSize + e : e \in 0 .. left - 1})

Share == (Vocab + Lanes - 1) \div Lanes
Offset(i) == Min({i * Share, Vocab})
Handled(i) == Max({Min({Share, Vocab - Offset(i)}), 0})
Slice(i) == {Offset(i) + e : e \in Visits(Handled(i))}

Logit(t) == call.rows[row][t]
HasK == call.k # <<>>
HasP == call.p # <<>>
K == call.k[row]

Above(x) == {t \in Tokens : Logit(t) > x}
Reaching(x) == {t \in Tokens : Logit(t) >= x}

(* Of the elements every work-item visits, those in s, counted by the      *)
(* group; the sum of their weights.                                        *)
Passing(s) == MapThenSumSet(LAMBDA i : Cardinality(Slice(i) \cap s), Lane)
Mass(s) ==
  MapThenSumSet(LAMBDA i : MapThenSumSet(LAMBDA t : Exp[Logit(t)], Slice(i) \cap s), Lane)
Buffered(x) ==
  MapThenSumSet(LAMBDA i : Cardinality({e \in Visits(Len(buffer[i])) : buffer[i][e + 1] >= x}), Lane)
BufferedMass(x) ==
  MapThenSumSet(
    LAMBDA i : MapThenSumSet(LAMBDA e : buffer[i][e + 1],
                 {e \in Visits(Len(buffer[i])) : buffer[i][e + 1] >= x}), Lane)

(* A work-item packs its own elements at the start of its own slice.       *)
Packed(s, of) ==
  [i \in Lane |->
     LET kept == Slice(i) \cap s
     IN [e \in 1 .. Cardinality(kept) |->
           of[CHOOSE t \in kept : Cardinality({u \in kept : u < t}) = e - 1]]]

-----------------------------------------------------------------------------
(* No call has been made. *)
SamplerIdle ==
  /\ call = [rows |-> <<>>, k |-> <<>>, p |-> <<>>, mode |-> "default", seeds |-> <<>>, perRow |-> FALSE]
  /\ row = 1 /\ stage = "stats"
  /\ low = 0 /\ high = 0 /\ iter = 0 /\ pivotK = NegInf /\ pivotP = 0
  /\ lowCount = 0 /\ highCount = 0 /\ side = 0 /\ norm = 0
  /\ buffer = [i \in Lane |-> <<>>] /\ gathered = FALSE /\ returned = <<>> /\ answers = <<>>

(* topk_topp_sampler: outputs and scratch are as the allocator left them.  *)
(* A process makes one call.                                               *)
CallSampler ==
  /\ call.rows = <<>> /\ call' \in Calls
  /\ returned' = [r \in DOMAIN call'.rows |-> [t \in Tokens |-> <<>>]]
  /\ UNCHANGED <<row, stage, searchVars, buffer, gathered, answers>>

At(s) == stage = s /\ row <= Len(call.rows)

(* The finite logits bound the search for k.  The estimate of where the    *)
(* outliers start comes from mean and deviation: it may be anything.       *)
StatsK ==
  /\ At("stats")
  /\ LET finite == {Logit(t) : t \in UNION {Slice(i) : i \in Lane}} \ {NegInf}
     IN \E estimate \in Min(finite) - 2 .. Max(finite) :
          LET outliers == Packed(Above(estimate), [t \in Tokens |-> Logit(t)])
              use == K # Vocab /\ Passing(Above(estimate)) >= K
          IN /\ buffer' = IF K # Vocab THEN outliers ELSE buffer
             /\ gathered' = use
             /\ low' = IF use THEN estimate ELSE Min(finite)
             /\ high' = Max(finite)
             /\ pivotK' = Min(finite)
  /\ iter' = 0
  /\ stage' = IF K = Vocab THEN "mass" ELSE "searchK"
  /\ UNCHANGED <<call, row, pivotP, lowCount, highCount, side, norm, returned, answers>>

(* Mutant of SearchK: a search that ends below k keeps its last pivot.     *)
SearchKUnsettled ==
  /\ At("searchK")
  /\ LET mid == (low + high) \div 2
         n == IF gathered THEN Buffered(mid) ELSE Passing(Reaching(mid))
     IN /\ low' = IF n > K THEN mid ELSE low
        /\ high' = IF n < K THEN mid ELSE high
        /\ pivotK' = mid
        /\ stage' = IF n # K /\ high' - low' > Eps /\ iter + 1 < MaxIters THEN "searchK" ELSE "mass"
  /\ iter' = iter + 1
  /\ UNCHANGED <<call, row, pivotP, lowCount, highCount, side, norm, buffer, gathered, returned, answers>>

(* One halving: the pivot settles where exactly k reach it or, when the    *)
(* interval is spent, at its lower end, which at least k reach.            *)
SearchK ==
  /\ At("searchK")
  /\ LET mid == (low + high) \div 2
         n == IF gathered THEN Buffered(mid) ELSE Passing(Reaching(mid))
         more == n # K /\ high' - low' > Eps /\ iter + 1 < MaxIters
     IN /\ low' = IF n > K THEN mid ELSE low
        /\ high' = IF n < K THEN mid ELSE high
        /\ pivotK' = IF ~more /\ n < K THEN low ELSE mid
        /\ stage' = IF more THEN "searchK" ELSE "mass"
  /\ iter' = iter + 1
  /\ UNCHANGED <<call, row, pivotP, lowCount, highCount, side, norm, buffer, gathered, returned, answers>>

(* The softmax over what is left. *)
MassK ==
  /\ At("mass") /\ ~HasP
  /\ norm' = Mass(Reaching(pivotK))
  /\ stage' = "draw"
  /\ UNCHANGED <<call, row, low, high, iter, pivotK, pivotP, lowCount, highCount, side,
                 buffer, gathered, returned, answers>>

(* With p to come, its search starts at the weight of the lower end of the *)
(* search for k, and the buffer takes the weights of what is left.         *)
MassKP ==
  /\ At("mass") /\ HasP
  /\ norm' = Mass(Reaching(pivotK))
  /\ low' = Exp[low] /\ high' = Exp[Max({Logit(t) : t \in Tokens})]
  /\ pivotP' = low'
  /\ lowCount' = norm'
  /\ buffer' = Packed(Reaching(pivotK), [t \in Tokens |-> Exp[Logit(t)]])
  /\ stage' = IF call.p[row] = 100 THEN "draw" ELSE "searchP"
  /\ iter' = 0
  /\ UNCHANGED <<call, row, pivotK, highCount, side, gathered, returned, answers>>

(* Without k masked tokens count with the rest: their weight is 0.         *)
Stats ==
  /\ At("stats") /\ ~HasP
  /\ norm' = Mass(Tokens)
  /\ stage' = "draw"
  /\ UNCHANGED <<call, row, low, high, iter, pivotK, pivotP, lowCount, highCount, side,
                 buffer, gathered, returned, answers>>

StatsP ==
  /\ At("stats") /\ HasP
  /\ LET weights == {Exp[Logit(t)] : t \in UNION {Slice(i) : i \in Lane}}
     IN low' = Min(weights) /\ high' = Max(weights)
  /\ pivotP' = low' /\ highCount' = high'
  /\ norm' = Mass(Tokens)
  /\ lowCount' = norm'
  /\ side' = 0 /\ iter' = 0
  /\ stage' = IF call.p[row] # 100 THEN "searchP" ELSE "draw"
  /\ UNCHANGED <<call, row, pivotK, buffer, gathered, returned, answers>>

(* p of the whole, in the unit of the weights. *)
Goal == (call.p[row] * norm) \div 100

(* The pivot of top_p_only_kernel: where a line through the counts at both *)
(* ends meets the goal, at least a hundredth off either end.               *)
Interpolated ==
  LET span == high - low
      margin == span \div 100
      slope == lowCount - highCount
  IN IF slope > 0 /\ margin > 0
     THEN Max({low + margin, Min({high - margin, low + (span * (lowCount - Goal)) \div slope})})
     ELSE (low + high) \div 2

(* A pivot p settles on, with n the mass that reaches it; when the last    *)
(* interval falls short, its lower end and the count noted there.          *)
SettleP(mid, n, more) ==
  /\ low' = IF n > Goal THEN mid ELSE low
  /\ high' = IF n < Goal THEN mid ELSE high
  /\ pivotP' = IF ~more /\ n < Goal THEN low ELSE mid
  /\ norm' = IF more THEN norm ELSE IF n < Goal THEN lowCount' ELSE n
  /\ stage' = IF more THEN "searchP" ELSE "draw"
  /\ iter' = iter + 1
  /\ UNCHANGED <<call, row, pivotK, buffer, gathered, returned, answers>>

MoreP(n) == n # Goal /\ high' - low' > Eps /\ iter + 1 < MaxIters

(* top_k_top_p_kernel halves the interval, over the weights in the buffer. *)
HalveP ==
  /\ At("searchP")
  /\ LET mid == (low + high) \div 2
         n == BufferedMass(mid)
     IN /\ lowCount' = IF n > Goal THEN n ELSE lowCount
        /\ SettleP(mid, n, MoreP(n))
  /\ UNCHANGED <<highCount, side>>

(* top_p_only_kernel interpolates; the count at an end that stays put      *)
(* twice is halved towards the goal.                                       *)
InterpolateP ==
  /\ At("searchP")
  /\ LET mid == Interpolated
         n == Mass({t \in Tokens : Exp[Logit(t)] >= mid})
         halved(c) == Goal + (c - Goal) \div 2
     IN /\ side' = IF n > Goal THEN 1 ELSE IF n < Goal THEN -1 ELSE side
        /\ lowCount' = IF n > Goal THEN n
                       ELSE IF n < Goal /\ side = -1 THEN halved(lowCount) ELSE lowCount
        /\ highCount' = IF n < Goal THEN n
                        ELSE IF n > Goal /\ side = 1 THEN halved(highCount) ELSE highCount
        /\ SettleP(mid, n, MoreP(n))

-----------------------------------------------------------------------------
(* rand_init: with a seed and an offset of its own a row's stream does not *)
(* depend on where in the batch the row is.                                *)
Subsequence(i) == IF call.perRow THEN i ELSE (row - 1) * Lanes + i

(* The four variates of a vector are drawn at once.                        *)
Drawn(i, t) ==
  LET e == t - Offset(i)
  IN [seed |-> call.seeds[IF call.perRow THEN row ELSE 1], subsequence |-> Subsequence(i),
      vector |-> e \div VecSize, at |-> e % VecSize]

Kept(t) == Logit(t) >= pivotK /\ Exp[Logit(t)] >= pivotP

(* What the caller gets back of a token's logit. *)
Processed(t) ==
  CASE call.mode = "default" -> returned[row][t]
    [] call.mode # "default" /\ ~Kept(t) -> <<NegInf>>
    [] call.mode = "logits" /\ Kept(t) -> <<Logit(t)>>
    [] call.mode = "logprobs" /\ Kept(t) -> IF Exp[Logit(t)] = 0 THEN <<NegInf>> ELSE <<Exp[Logit(t)], norm>>

(* Every work-item keeps its first best token; the group settles on the    *)
(* first of the best.                                                      *)
Draw ==
  /\ At("draw")
  /\ LET noise(i, t) == Noise(Drawn(i, t))
         beats(i, t, j, u) == Exp[Logit(t)] * noise(j, u) > Exp[Logit(u)] * noise(i, t)
         mine(i) == {t \in Slice(i) : Kept(t)}
         best(i) == Min({t \in mine(i) : \A u \in mine(i) : ~beats(i, u, i, t)})
         isMax(i) == mine(i) # {} /\ \A j \in Lane : mine(j) # {} => ~beats(j, best(j), i, best(i))
         of(t) == CHOOSE i \in Lane : t \in Slice(i)
     IN answers' = Append(answers,
          [token |-> Min({IF isMax(i) THEN best(i) ELSE Vocab - 1 : i \in Lane}),
           kept |-> {t \in Tokens : Kept(t)}, norm |-> norm,
           candidates |-> {t \in Tokens : Logit(t) >= pivotK},
           draws |-> [t \in Tokens |-> Drawn(of(t), t)]])
  /\ returned' = [returned EXCEPT ![row] =
                    [t \in Tokens |-> IF \E i \in Lane : t \in Slice(i) THEN Processed(t) ELSE @[t]]]
  /\ row' = row + 1 /\ stage' = "stats"
  /\ UNCHANGED <<call, searchVars, buffer, gathered>>

(* The kernel is chosen by which of k and p the caller gives.              *)
RandomOnly == ~HasK /\ ~HasP /\ (Stats \/ Draw)
TopKOnly == HasK /\ ~HasP /\ (StatsK \/ SearchK \/ MassK \/ Draw)
TopPOnly == ~HasK /\ HasP /\ (StatsP \/ InterpolateP \/ Draw)
TopKTopP == HasK /\ HasP /\ (StatsK \/ SearchK \/ MassKP \/ HalveP \/ Draw)

SamplerNext == RandomOnly \/ TopKOnly \/ TopPOnly \/ TopKTopP

-----------------------------------------------------------------------------
Weigh(logits, s) == MapThenSumSet(LAMBDA t : Exp[logits[t]], s)

(* How far a search may end from the logit or weight it looks for. *)
Slack(logits) == Max({Eps, (Max({logits[t] : t \in Tokens}) - Min({logits[t] : t \in Tokens} \ {NegInf}))
                             \div 2^MaxIters + 1})

(* The k largest finite logits are candidates, and only they and what      *)
(* cannot be told from them.                                               *)
LargestK(logits, k, s) ==
  LET finite == {t \in Tokens : logits[t] # NegInf}
      above(t) == {u \in finite : logits[u] > logits[t]}
      top == {t \in finite : Cardinality(above(t)) < k}
  IN /\ top \subseteq s /\ s \subseteq finite
     /\ \A t \in s : logits[t] + Slack(logits) >= Min({logits[u] : u \in top})

(* A set holds the goal of its candidates' mass, and without the lightest  *)
(* of its tokens (and those not to be told from them) it would not.        *)
LeastMass(logits, p, s, candidates) ==
  LET lightest == Min({Exp[logits[t]] : t \in s})
      reaches(m) == m * 100 >= p * Weigh(logits, candidates)
  IN /\ reaches(Weigh(logits, s))
     /\ ~reaches(Weigh(logits, {t \in s : Exp[logits[t]] > lightest + Eps}))

(* Every row's token is the best of the tokens left: those that reach k    *)
(* and p, never one too few and, but for what the search cannot tell       *)
(* apart, never one too many, found with or without the gathered outliers. *)
(* What the caller gets back is written for every token, and probabilities *)
(* add up to one (top_p_only_kernel excepted: see LogprobsNormalised).     *)
(* The random numbers of two tokens of a batch are never the same, unless  *)
(* rows bring their own seeds: then rows with one seed have the same ones  *)
(* (topk_topp_sampler_kernels.hpp).                                        *)
RowSampled ==
  \A r \in DOMAIN answers :
    LET a == answers[r]
        logits == call.rows[r]
        score(t, u) == Exp[logits[t]] * Noise(a.draws[u])
    IN /\ IF call.k = <<>> THEN a.candidates = Tokens ELSE LargestK(logits, call.k[r], a.candidates)
       /\ IF call.p = <<>> \/ call.p[r] = 100 THEN a.kept = a.candidates
          ELSE a.kept \subseteq a.candidates /\ LeastMass(logits, call.p[r], a.kept, a.candidates)
       /\ a.token = Min({t \in a.kept : \A u \in a.kept : score(u, t) <= score(t, u)})
       /\ \A t \in Tokens : call.mode # "default" => (returned[r][t] = <<NegInf>>) = (t \notin a.kept \/ logits[t] = NegInf)
       /\ call.k # <<>> \/ call.p = <<>> => a.norm = Weigh(logits, a.kept)
       /\ \A r2 \in DOMAIN answers, t, u \in Tokens :
            IF call.perRow /\ r # r2
            THEN call.seeds[r] = call.seeds[r2] => a.draws[t] = answers[r2].draws[t]
            ELSE <<r, t>> # <<r2, u>> => a.draws[t] # answers[r2].draws[u]

(* tests/ops/topk_topp_sampler_op.py: processed log-probabilities are      *)
(* logits.log_softmax of what is left, so their exponentials add up to     *)
(* one.  After two moves of its upper end top_p_only_kernel divides by a   *)
(* count it has halved towards p to speed the search up.                   *)
LogprobsNormalised ==
  \A r \in DOMAIN answers :
    call.mode = "logprobs" => answers[r].norm = Weigh(call.rows[r], answers[r].kept)

-----------------------------------------------------------------------------
(* compact_sampling_mask.                                                  *)
VARIABLES
  active,     (* num_sampled_tokens is positive, by row                    *)
  maskRow,    (* the work-group that runs, 0 before the call               *)
  wave, running, ids, mask, counts

maskVars == <<active, maskRow, wave, running, ids, mask, counts>>

Rows == DOMAIN call.rows
ByteBits == 2 * VecSize          (* the flags of two work-items            *)
Bytes == 0 .. (Vocab + ByteBits - 1) \div ByteBits - 1
Waves == (Vocab + Lanes * VecSize - 1) \div (Lanes * VecSize)

MaskIdle ==
  /\ active = <<>> /\ maskRow = 0 /\ wave = 0 /\ running = 0
  /\ ids = <<>> /\ mask = <<>> /\ counts = <<>>

(* The outputs are torch::empty. *)
StartMask ==
  /\ maskRow = 0 /\ Len(answers) = Len(call.rows) /\ call.mode = "logits"
  /\ maskRow' = 1
  /\ active' \in [Rows -> BOOLEAN]
  /\ ids' = [r \in Rows |-> [k \in 0 .. MaxKept - 1 |-> -1]]
  /\ mask' = [r \in Rows |-> [b \in Bytes |-> {-1}]]
  /\ counts' = [r \in Rows |-> -1]
  /\ UNCHANGED <<wave, running>>

Ends(count, bits) ==
  /\ counts' = [counts EXCEPT ![maskRow] = count]
  /\ mask' = [mask EXCEPT ![maskRow] = bits]
  /\ maskRow' = maskRow + 1 /\ wave' = 0 /\ running' = 0

(* A row nothing was sampled from keeps nothing; its ids are left as they  *)
(* are.                                                                    *)
SkipRow ==
  /\ maskRow \in Rows /\ ~active[maskRow]
  /\ Ends(0, [b \in Bytes |-> {}])
  /\ UNCHANGED <<active, ids>>

(* What work-item i keeps of wave w, past the end of the row nothing.      *)
KeptBy(w, i) ==
  LET base == (w * Lanes + i) * VecSize
  IN {t \in base .. base + VecSize - 1 : t < Vocab /\ returned[maskRow][t] # <<NegInf>>}

(* exclusive_scan_over_group.                                              *)
Scanned(i) ==
  LET scan[j \in Nat] == IF j = 0 THEN 0 ELSE scan[j - 1] + Cardinality(KeptBy(wave, j - 1))
  IN scan[i]

(* Mutant of KeptBefore: the waves before this one are forgotten. *)
KeptBeforeInWave(i) == Scanned(i)

(* The scan on top of the waves before. *)
KeptBefore(i) == running + Scanned(i)

(* Every even chunk stores the byte it shares with its neighbour.          *)
Wave ==
  /\ maskRow \in Rows /\ active[maskRow] /\ wave < Waves
  /\ LET at(i, t) == KeptBefore(i) + Cardinality({u \in KeptBy(wave, i) : u < t})
         total == KeptBefore(Lanes)
         first(i) == wave * Lanes + i
         bits == [b \in Bytes |->
                    IF \E i \in Lane : first(i) = 2 * b
                    THEN LET i == 2 * b - wave * Lanes
                         IN {t - b * ByteBits : t \in KeptBy(wave, i) \cup KeptBy(wave, i + 1)}
                    ELSE mask[maskRow][b]]
     IN /\ ids' = [ids EXCEPT ![maskRow] = [k \in 0 .. MaxKept - 1 |->
                     IF \E i \in Lane : \E t \in KeptBy(wave, i) : at(i, t) = k
                     THEN CHOOSE t \in Tokens : \E i \in Lane : t \in KeptBy(wave, i) /\ at(i, t) = k
                     ELSE @[k]]]
        /\ IF wave + 1 < Waves
           THEN /\ mask' = [mask EXCEPT ![maskRow] = bits]
                /\ wave' = wave + 1 /\ running' = total
                /\ UNCHANGED <<maskRow, counts>>
           ELSE Ends(total, bits)
  /\ UNCHANGED active

MaskNext == StartMask \/ SkipRow \/ Wave

(* The sampler, and the packing of what it left.                           *)
SamplingNext ==
  \/ (CallSampler \/ SamplerNext) /\ UNCHANGED maskVars
  \/ MaskNext /\ UNCHANGED samplerVars
SamplingSpec == SamplerIdle /\ MaskIdle /\ [][SamplingNext]_<<samplerVars, maskVars>>

-----------------------------------------------------------------------------
(* The packed row is the sampler's answer: of an active row the ids of the *)
(* tokens left that fit, in rising order, their number whether they fit or *)
(* not, and exactly their bits; no bits of any other row                   *)
(* (compact_sampling_mask, and unpack_support of its tests).               *)
SupportPacked ==
  \A r \in Rows : r < maskRow =>
    LET left == {t \in answers[r].kept : call.rows[r][t] # NegInf}
        support == IF active[r] THEN left ELSE {}
        rank(t) == Cardinality({u \in support : u < t})
    IN /\ counts[r] = Cardinality(support)
       /\ \A t \in support : rank(t) < MaxKept => ids[r][rank(t)] = t
       /\ \A b \in Bytes : mask[r][b] = {t % ByteBits : t \in {u \in support : u \div ByteBits = b}}
=============================================================================
