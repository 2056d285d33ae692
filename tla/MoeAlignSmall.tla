--------------------------- MODULE MoeAlignSmall ---------------------------
(***************************************************************************)
(* moe_align_block_size and moe_lora_align_block_size for small batches    *)
(* (_moe_align_block_size_small_batch_expert in                            *)
(* csrc/moe/moe_align_sum_kernels.cpp): one work-group serves an adapter.  *)
(* Its first FillThreads work-items fill sorted_token_ids with padding,    *)
(* the others count into a table of one row each and place the slots, all  *)
(* behind the barriers of one work-group and without an atomic.            *)
(***************************************************************************)
EXTENDS MoeRouting, Sequences

CONSTANTS
  FillThreads,       (* fill_threads: work-items that fill               *)
  CountThreads       (* num_thread: work-items that count                *)

Lane == 0 .. FillThreads + CountThreads - 1
Counters == {l \in Lane : l >= FillThreads}
Tid(l) == l - FillThreads

VARIABLES
  alignPhase, (* phases each work-item has finished                      *)
  loopAt,   (* the slot its loop has reached                             *)
  table,    (* tokens_cnts: a row of zeroes, then one per counter        *)
  cumsumBuffer (* the padded prefix sum, in local memory too             *)

outputs == <<mask, total, sorted, expertIds>>
alignVars == <<routed, alignPhase, loopAt, table, cumsumBuffer, outputs>>

Phases ==
  (IF routed.multi THEN <<"mask">> ELSE <<>>) \o
    <<"fill", "clear", "count", "prefix", "total", "place">>

Ended(x) == Skipped(x) \/ \A l \in Lane : alignPhase[x][l] = Len(Phases)
Finished == \A x \in Entry : Ended(x)

(* A work-item starts a phase when all have finished the one before. *)
At(x, l, name) ==
  /\ alignPhase[x][l] < Len(Phases) /\ Phases[alignPhase[x][l] + 1] = name
  /\ \A m \in Lane : alignPhase[x][m] >= alignPhase[x][l]

EndPhase(x, l) ==
  /\ alignPhase' = [alignPhase EXCEPT ![x][l] = @ + 1]
  /\ loopAt' = [loopAt EXCEPT ![x][l] = Tid(l)]

Init ==
  /\ alignPhase = [x \in Entry |-> [l \in Lane |-> 0]]
  /\ loopAt = [x \in Entry |-> [l \in Lane |-> Tid(l)]]
  /\ table = [x \in Entry |-> [r \in 0 .. CountThreads |-> [e \in AlignExpert |-> Junk]]]
  /\ cumsumBuffer = [x \in Entry |-> [e \in 0 .. NumExperts |-> Junk]]

-----------------------------------------------------------------------------
(* Work-item 0 clears the total of the adapter and writes its token_mask. *)
Mask(x, l) ==
  /\ At(x, l, "mask")
  /\ EndPhase(x, l)
  /\ IF l = 0
     THEN /\ total' = [total EXCEPT ![ModelOf(x)] = 0]
          /\ mask' = [mask EXCEPT ![ModelOf(x)] = MaskOf(ModelOf(x))]
     ELSE UNCHANGED <<total, mask>>
  /\ UNCHANGED <<routed, table, cumsumBuffer, sorted, expertIds>>

Fill(x, l) ==
  /\ At(x, l, "fill")
  /\ EndPhase(x, l)
  /\ sorted' = IF l \in Counters THEN sorted
               ELSE [sorted EXCEPT ![ModelOf(x)] =
                       [p \in Position |-> IF p % FillThreads = l THEN Numel ELSE @[p]]]
  /\ UNCHANGED <<routed, table, cumsumBuffer, mask, total, expertIds>>

(* A counter clears its row; rows are numbered from one. *)
Clear(x, l) ==
  /\ At(x, l, "clear")
  /\ EndPhase(x, l)
  /\ table' = IF l \notin Counters THEN table
              ELSE [table EXCEPT ![x][Tid(l) + 1] = [e \in AlignExpert |-> 0]]
  /\ UNCHANGED <<routed, cumsumBuffer, outputs>>

(* One turn of a counter's loop over the slots, or the end of it. *)
Turn(x, l) ==
  IF l \in Counters /\ loopAt[x][l] < Numel
  THEN loopAt' = [loopAt EXCEPT ![x][l] = @ + CountThreads] /\ UNCHANGED alignPhase
  ELSE EndPhase(x, l)

InLoop(x, l) == l \in Counters /\ loopAt[x][l] < Numel /\ Valid(loopAt[x][l])

Count(x, l) ==
  /\ At(x, l, "count")
  /\ Turn(x, l)
  /\ table' = IF ~InLoop(x, l) THEN table
              ELSE LET i == loopAt[x][l]
                   IN [table EXCEPT ![x][Tid(l) + 1][ServedBy(i)] = @ + mask[ModelOf(x)][i \div TopkNum]]
  /\ UNCHANGED <<routed, cumsumBuffer, outputs>>

(* The counter of each expert sums its column: row r becomes the number of *)
(* the expert's slots that the counters before r have.                     *)
Prefix(x, l) ==
  /\ At(x, l, "prefix")
  /\ EndPhase(x, l)
  /\ table' = IF ~(l \in Counters /\ Tid(l) < NumExperts) THEN table
              ELSE LET sum[r \in Nat] == IF r = 0 THEN 0 ELSE sum[r - 1] + table[x][r][Tid(l)]
                   IN [table EXCEPT ![x] = [r \in 0 .. CountThreads |-> [@[r] EXCEPT ![Tid(l)] = sum[r]]]]
  /\ UNCHANGED <<routed, cumsumBuffer, outputs>>

(* The first counter sums the padded counts and stores the total. *)
Total(x, l) ==
  /\ At(x, l, "total")
  /\ EndPhase(x, l)
  /\ IF l = FillThreads
     THEN /\ cumsumBuffer' = [cumsumBuffer EXCEPT ![x] = Starts(table[x][CountThreads])]
          /\ total' = [total EXCEPT ![ModelOf(x)] = cumsumBuffer'[x][NumExperts]]
     ELSE UNCHANGED <<cumsumBuffer, total>>
  /\ UNCHANGED <<routed, table, mask, sorted, expertIds>>

(* The blocks a counter names: those of its expert, and every              *)
(* CountThreads-th past the last one in use.                               *)
Named(x, l, ids) ==
  LET sum == cumsumBuffer[x]
      t == Tid(l)
      mine == {b \in Block : t < NumExperts /\ b * BlockSize >= sum[t] /\ b * BlockSize < sum[t + 1]}
      rest == {b \in Block : \E k \in 0 .. Blocks :
                               b = sum[NumExperts] \div BlockSize + t + k * CountThreads}
  IN [b \in Block |-> IF b \in rest THEN Inactive ELSE IF b \in mine THEN t ELSE ids[b]]

(* A counter places the slots it counted: each goes to the start of its    *)
(* expert's range, plus the slots of the counters before, plus its own so  *)
(* far.  Before the first of them it names its blocks.                     *)
Place(x, l) ==
  /\ At(x, l, "place")
  /\ Turn(x, l)
  /\ expertIds' = IF l \in Counters /\ loopAt[x][l] = Tid(l)
                  THEN [expertIds EXCEPT ![ModelOf(x)] = Named(x, l, @)] ELSE expertIds
  /\ IF InLoop(x, l) /\ mask[ModelOf(x)][loopAt[x][l] \div TopkNum] # 0
     THEN LET i == loopAt[x][l]
              e == ServedBy(i)
          IN /\ sorted' = [sorted EXCEPT ![ModelOf(x)][table[x][Tid(l)][e] + cumsumBuffer[x][e]] = i]
             /\ table' = [table EXCEPT ![x][Tid(l)][e] = @ + 1]
     ELSE UNCHANGED <<sorted, table>>
  /\ UNCHANGED <<routed, cumsumBuffer, mask, total>>

(* The kernel, for one row of lora_ids. *)
Serve(x) ==
  ~Skipped(x) /\ \E l \in Lane :
    \/ Mask(x, l) \/ Fill(x, l) \/ Clear(x, l) \/ Count(x, l)
    \/ Prefix(x, l) \/ Total(x, l) \/ Place(x, l)

-----------------------------------------------------------------------------
(* The order in which counters hold slots. *)
Before(j, i) ==
  \/ j % CountThreads < i % CountThreads
  \/ j % CountThreads = i % CountThreads /\ j < i

(* The place of a slot does not depend on how the work-items interleave,   *)
(* as it does in the large form: it follows the slots of its expert that   *)
(* counters before it hold (rank_post_pad from per-counter rows).          *)
PlacesFixed ==
  Finished => \A m \in Model : Active(m) =>
    \A e \in AlignExpert : \A i \in Served(m)[e] :
      sorted[m][StartsOf(m)[e] + Cardinality({j \in Served(m)[e] : Before(j, i)})] = i
=============================================================================
