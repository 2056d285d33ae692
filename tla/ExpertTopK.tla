----------------------------- MODULE ExpertTopK -----------------------------
(***************************************************************************)
(* The routers of a MoE layer that pick k experts for every token:         *)
(* topk_softmax and topk_sigmoid (csrc/moe/topk.cpp) and                   *)
(* topk_softplus_sqrt (csrc/moe/topk_softplus_sqrt_kernels.cpp).           *)
(*                                                                         *)
(* For certain numbers of experts the lanes of a sub-group share a row,    *)
(* each holding some of its scores in registers: every round the lanes     *)
(* find their own best, agree on the row's by a butterfly, and the lane    *)
(* that held it blanks it.  For the others a first kernel writes the       *)
(* scores and a second, a work-group to a row, tells by the answers so far *)
(* which experts are taken.  Rows share nothing and are run one after the  *)
(* other.                                                                  *)
(***************************************************************************)
EXTENDS Integers, Sequences, FiniteSetsExt, SequencesExt

CONSTANTS
  GateLanes,   (* WARP_SIZE                                                *)
  GateItems,   (* TPB, the work-items of the second kernel                 *)
  PowerLoad,   (* elements a load takes at most: powers of two             *)
  PairLoad,    (* ... and multiples of 64                                  *)
  Multiples,   (* the multiples of 64 there is a kernel for                *)
  Unit,        (* the probability 1                                        *)
  GateWeigh,       (* exp and sigmoid by logit, and sqrt(softplus); rising,    *)
               (* and 0 for what is not a number                           *)
  NaN,         (* a logit that is not a number                             *)
  Sentinel,    (* image_sentinel_lo                                        *)
  GateCalls    (* bound of the inputs: [op, rows, k, bias, renormalize,    *)
               (* padding, ids, table, vlBias]; <<>> stands for a tensor   *)
               (* not given                                                *)

ASSUME GateAssumption ==
  /\ GateLanes \in Nat \ {0} /\ GateItems \in Nat \ {0}
  /\ PowerLoad \in Nat \ {0} /\ PairLoad \in Nat \ {0} /\ Unit \in Nat \ {0}

VARIABLES
  gateCall,
  gateRow,     (* the row that is answered                                 *)
  gateRound,   (* k_idx                                                    *)
  chunk,       (* row_chunk_with_bias of every lane                        *)
  chosenSum,   (* sum_val, selected_sum                                    *)
  routes       (* output and indices of every row, the weights as          *)
               (* [score, over]                                            *)

gateVars == <<gateCall, gateRow, gateRound, chunk, chosenSum, routes>>

NumGated == Len(gateCall.rows[1])
Gated == 0 .. NumGated - 1
Blank == -10000

PowerOfTwo(n) == \E i \in 0 .. 9 : n = 2 ^ i
Specialised == PowerOfTwo(NumGated) \/ NumGated \in Multiples

(* TopkConstants. *)
LoadWidth == IF PowerOfTwo(NumGated) THEN Min({PowerLoad, NumGated}) ELSE PairLoad
VecsPerLane == Max({1, NumGated \div (LoadWidth * GateLanes)})
LanesPerRow == NumGated \div (VecsPerLane * LoadWidth)
RowLanes == 0 .. LanesPerRow - 1
Slots == 0 .. VecsPerLane * LoadWidth - 1
ExpertAt(l, s) == l * LoadWidth + (s \div LoadWidth) * LanesPerRow * LoadWidth + (s % LoadWidth)

Padded(r) == r \in gateCall.padding
(* The ids of an image's tokens take a bias of their own (use_vl_bias).     *)
OfImage(r) == gateCall.vlBias # <<>> /\ Sentinel > 0 /\ gateCall.ids[r] \in Sentinel .. Sentinel + 4
RowBias(r) == IF OfImage(r) THEN gateCall.vlBias ELSE gateCall.bias
BiasOf(r, e) == IF RowBias(r) = <<>> THEN 0 ELSE RowBias(r)[e + 1]

(* permute_group_by_xor over half, a quarter, ... of the lanes.            *)
Strides == LET down[n \in Nat] == IF n = 0 THEN <<>> ELSE <<n>> \o down[n \div 2]
           IN down[LanesPerRow \div 2]
Across(l, m) == IF (l \div m) % 2 = 0 THEN l + m ELSE l - m

-----------------------------------------------------------------------------
(* Scores.                                                                 *)

GateLogit(r, e) == gateCall.rows[r][e + 1]

(* The row's sum: each lane its own part, then the butterfly. *)
SoftmaxSum(r, l) ==
  LET own == [i \in RowLanes |-> MapThenSumSet(LAMBDA s : GateWeigh[GateLogit(r, ExpertAt(i, s))], Slots)]
      swap(sums, m) == [i \in RowLanes |-> sums[i] + sums[Across(i, m)]]
  IN FoldLeft(swap, own, Strides)[l]

(* MoeSoftmax: the work-items' sums of every TPB-th expert, reduced over   *)
(* the group.                                                              *)
MoeSoftmax(r) ==
  LET part(i) == MapThenSumSet(LAMBDA e : GateWeigh[GateLogit(r, e)], {e \in Gated : e % GateItems = i})
      total == MapThenSumSet(part, 0 .. GateItems - 1)
  IN [e \in Gated |-> (Unit * GateWeigh[GateLogit(r, e)]) \div total]
MoeSigmoid(r) == [e \in Gated |-> GateWeigh[GateLogit(r, e)]]

(* What lane l makes of an expert it holds: the score without bias.        *)
GatingScore(r, l, e) ==
  LET w == GateWeigh[GateLogit(r, e)]
  IN IF gateCall.op = "softmax" THEN (Unit * w) \div SoftmaxSum(r, l) ELSE w
SoftplusScore(r, e) == IF Padded(r) THEN 0 ELSE GateWeigh[GateLogit(r, e)]

Workspace(r) == IF gateCall.op = "softmax" THEN MoeSoftmax(r) ELSE MoeSigmoid(r)

LoadChunk(r) ==
  [l \in RowLanes |-> [s \in Slots |->
     LET e == ExpertAt(l, s)
         score == IF gateCall.op = "softplus" THEN SoftplusScore(r, e) ELSE GatingScore(r, l, e)
     IN [score |-> score,
         biased |-> score + IF gateCall.op = "softplus" /\ Padded(r) THEN 0 ELSE BiasOf(r, e)]]]

-----------------------------------------------------------------------------
(* A round names one more expert for the row.                              *)

GateIdle ==
  gateCall = <<>> /\ gateRow = 0 /\ gateRound = 0 /\ chunk = <<>> /\ chosenSum = 0 /\ routes = <<>>

(* What is not refused: the hashed router takes experts by token id, and   *)
(* so does the bias of images; it has no kernel for other numbers of       *)
(* experts. A padding mask is of as many tokens as there are.              *)
Accepted(c) ==
  /\ c.padding \subseteq DOMAIN c.rows
  /\ c.op = "softplus" =>
       /\ (c.table # <<>> \/ c.vlBias # <<>>) => c.ids # <<>>
       /\ PowerOfTwo(Len(c.rows[1])) \/ Len(c.rows[1]) \in Multiples

CallGate ==
  /\ gateRow = 0
  /\ gateCall' \in {c \in GateCalls : Accepted(c)} /\ gateRow' = 1
  /\ routes' = [r \in DOMAIN gateCall'.rows |-> <<>>]
  /\ UNCHANGED <<gateRound, chunk, chosenSum>>

Hashed(r) == gateCall.table # <<>> /\ ~OfImage(r)
Gating(op) ==
  /\ gateRow \in DOMAIN routes /\ gateRound < gateCall.k
  /\ gateCall.op \in op

Load ==
  /\ Gating({"softmax", "sigmoid", "softplus"}) /\ chunk = <<>>
  /\ chunk' = IF Specialised THEN LoadChunk(gateRow) ELSE Workspace(gateRow)
  /\ UNCHANGED <<gateCall, gateRow, gateRound, chosenSum, routes>>

(* The first of the largest a lane holds: an element later in its          *)
(* registers is taken only if it is larger.                                *)
LocalBest(l) ==
  LET s == CHOOSE s \in Slots : \A t \in Slots :
             \/ chunk[l][t].biased < chunk[l][s].biased
             \/ chunk[l][t].biased = chunk[l][s].biased /\ s <= t
  IN [biased |-> chunk[l][s].biased, score |-> chunk[l][s].score, expert |-> ExpertAt(l, s)]

(* Mutant of Better: a tie goes to the lane's own. *)
BetterUntied(a, b) == a.biased > b.biased

Better(a, b) == a.biased > b.biased \/ (a.biased = b.biased /\ a.expert < b.expert)

(* What each lane takes for the row's best.                                *)
Agreed ==
  LET swap(best, m) == [l \in RowLanes |->
        IF Better(best[Across(l, m)], best[l]) THEN best[Across(l, m)] ELSE best[l]]
  IN FoldLeft(swap, [l \in RowLanes |-> LocalBest(l)], Strides)

(* Lane 0 answers and goes on.                                             *)
Route(expert, score) ==
  /\ routes' = [routes EXCEPT ![gateRow] = Append(@,
                  [index |-> IF Padded(gateRow) THEN -1 ELSE expert,
                   score |-> IF Padded(gateRow) THEN 0 ELSE score, over |-> 1,
                   source |-> gateRound * Len(gateCall.rows) + gateRow - 1])]
  /\ chosenSum' = chosenSum + IF Padded(gateRow) THEN 0 ELSE score
  /\ gateRound' = gateRound + 1
  /\ UNCHANGED <<gateCall, gateRow>>

(* Every lane whose own best is what it agreed on blanks it.               *)
GatingRound ==
  /\ Gating({"softmax", "sigmoid"}) /\ Specialised /\ chunk # <<>>
  /\ LET best == Agreed
     IN /\ Route(best[0].expert, best[0].score)
        /\ chunk' = [l \in RowLanes |-> [s \in Slots |->
             IF ExpertAt(l, s) = best[l].expert THEN [chunk[l][s] EXCEPT !.biased = Blank]
             ELSE chunk[l][s]]]

(* Mutant of OwnerSlot: the vectors of other lanes are not skipped. *)
OwnerSlotPacked(expert) == expert % Cardinality(Slots)

(* The lane and the register that hold an expert's score.                  *)
OwnerLane(expert) == (expert \div LoadWidth) % LanesPerRow
OwnerSlot(expert) ==
  (expert \div (LoadWidth * LanesPerRow)) * LoadWidth + (expert % LoadWidth)

SoftplusRound ==
  /\ Gating({"softplus"}) /\ Specialised /\ ~Hashed(gateRow) /\ chunk # <<>>
  /\ LET best == Agreed
         owned(l, s) == OwnerLane(best[l].expert) = l /\ OwnerSlot(best[l].expert) = s
     IN /\ Route(best[0].expert, best[0].biased - BiasOf(gateRow, best[0].expert))
        /\ chunk' = [l \in RowLanes |-> [s \in Slots |->
             IF gateRound + 1 < gateCall.k /\ owned(l, s)
             THEN [chunk[l][s] EXCEPT !.biased = Blank] ELSE chunk[l][s]]]

(* The table names the experts of the token; the lane that holds the score *)
(* gives it to the others.                                                 *)
HashRound ==
  /\ Gating({"softplus"}) /\ Specialised /\ Hashed(gateRow) /\ chunk # <<>>
  /\ LET expert == gateCall.table[gateCall.ids[gateRow]][gateRound + 1]
         held(l) == MapThenSumSet(LAMBDA s : GateWeigh[GateLogit(gateRow, expert)],
                      {s \in Slots : ExpertAt(l, s) = expert})
     IN Route(expert, MapThenSumSet(held, RowLanes))
  /\ UNCHANGED chunk

(* MoeTopK, on the scores of the workspace: a work-item looks at every     *)
(* TPB-th expert that no earlier round has answered.                       *)
MoeTopKRound ==
  /\ Gating({"softmax", "sigmoid"}) /\ ~Specialised /\ chunk # <<>>
  /\ LET taken == {routes[gateRow][j].index : j \in DOMAIN routes[gateRow]}
         biased(e) == chunk[e] + BiasOf(gateRow, e)
         mine(i) == {e \in Gated : e % GateItems = i /\ e \notin taken /\ biased(e) > - Unit}
         value(i) == IF mine(i) = {} THEN - Unit ELSE Max({biased(e) : e \in mine(i)})
         index(i) == IF mine(i) = {} THEN 0 ELSE Min({e \in mine(i) : biased(e) = value(i)})
         items == 0 .. GateItems - 1
         best == Max({value(i) : i \in items})
         result == Min({index(i) : i \in {i \in items : value(i) = best}})
     IN Route(result, chunk[result])
  /\ UNCHANGED chunk

(* Lane 0 scales the row's weights.                                        *)
ScaleRow ==
  /\ gateRow \in DOMAIN routes /\ gateRound = gateCall.k
  /\ LET denom == IF gateCall.renormalize /\ chosenSum > 0 THEN chosenSum ELSE 1
     IN routes' = [routes EXCEPT ![gateRow] = [j \in DOMAIN @ |-> [@[j] EXCEPT !.over = denom]]]
  /\ gateRow' = gateRow + 1 /\ gateRound' = 0 /\ chunk' = <<>> /\ chosenSum' = 0
  /\ UNCHANGED gateCall

GateNext == Load \/ GatingRound \/ SoftplusRound \/ HashRound \/ MoeTopKRound \/ ScaleRow

-----------------------------------------------------------------------------
(* The experts of a token are the k with the largest scores, bias          *)
(* included, in falling order and the lower number first among equals; or  *)
(* those of the token's table.  Their weights are the scores without bias, *)
(* over their sum if the caller asks.  A padded row has neither            *)
(* (topk_softmax, topk_sigmoid, topk_softplus_sqrt).                       *)
ExpertsChosen ==
  \A r \in 1 .. gateRow - 1 :
    LET total == MapThenSumSet(LAMBDA e : GateWeigh[GateLogit(r, e)], Gated)
        score == [e \in Gated |-> IF gateCall.op = "softmax" THEN (Unit * GateWeigh[GateLogit(r, e)]) \div total
                                  ELSE GateWeigh[GateLogit(r, e)]]
        biased == [e \in Gated |-> score[e] + BiasOf(r, e)]
        ahead(e) == {f \in Gated : biased[f] > biased[e] \/ (biased[f] = biased[e] /\ f < e)}
        expert(j) == IF Hashed(r) THEN gateCall.table[gateCall.ids[r]][j]
                     ELSE CHOOSE e \in Gated : Cardinality(ahead(e)) = j - 1
        sum == MapThenSumSet(LAMBDA j : score[expert(j)], 1 .. gateCall.k)
    IN /\ Len(routes[r]) = gateCall.k
       /\ \A j \in 1 .. gateCall.k :
            IF Padded(r) THEN routes[r][j].index = -1 /\ routes[r][j].score = 0
            ELSE /\ routes[r][j].index = expert(j)
                 /\ routes[r][j].score = score[expert(j)]
                 /\ routes[r][j].over = IF gateCall.renormalize /\ sum > 0 THEN sum ELSE 1
=============================================================================
