----------------------------- MODULE MoeAlignOp -----------------------------
(***************************************************************************)
(* moe_align_block_size and moe_lora_align_block_size as the host calls    *)
(* them (csrc/moe/moe_align_sum_kernels.cpp): a small batch goes to one    *)
(* kernel with one work-group for each adapter (MoeAlignSmall), any other  *)
(* to two kernels (MoeAlign).  Both write the same outputs and owe the     *)
(* same result, up to the order of the slots of an expert.                 *)
(***************************************************************************)
EXTENDS MoeRouting, Sequences

CONSTANTS
  Limits,     (* the limit of a small batch: 1024 slots; a set of limits *)
              (* below and above Numel, so that both kernels are run     *)
  SmallExperts, (* and 64 experts                                        *)
  Lanes, WarpSize,           (* of MoeAlign                              *)
  FillThreads, CountThreads  (* of MoeAlignSmall                         *)

ASSUME LimitAssumption == Limits \subseteq Nat /\ SmallExperts \in Nat

(* padded_num_experts < 1024 = the number of work-items *)
ASSUME LaneAssumption == Lanes \in Nat /\ NumExperts < Lanes
ASSUME WarpAssumption == WarpSize \in Nat \ {0}

(* num_thread = max(num_experts, ...) *)
ASSUME ThreadAssumption ==
  /\ FillThreads \in Nat \ {0} /\ CountThreads \in Nat
  /\ NumExperts <= CountThreads

VARIABLES
  limit,            (* one of Limits; the next are of MoeAlign, then     *)
  alignPhase, loopAt, held, sharedCounts, temp, cumsumBuffer,
  smallPhase, smallNext, table, smallCumsum       (* of MoeAlignSmall    *)

Large == INSTANCE MoeAlign
Small == INSTANCE MoeAlignSmall
           WITH alignPhase <- smallPhase, loopAt <- smallNext, cumsumBuffer <- smallCumsum

largeVars == <<alignPhase, loopAt, held, sharedCounts, temp, cumsumBuffer>>
smallVars == <<smallPhase, smallNext, table, smallCumsum>>
alignVars == <<routed, mask, total, sorted, expertIds, limit, largeVars, smallVars>>

(* small_batch_expert_mode *)
SmallBatch == Numel < limit /\ NumExperts <= SmallExperts

AlignInit == InitRouting /\ limit \in Limits /\ Large!Init /\ Small!Init

LargeStep(x) == ~SmallBatch /\ Large!Serve(x) /\ UNCHANGED <<limit, smallVars>>
SmallStep(x) == SmallBatch /\ Small!Serve(x) /\ UNCHANGED <<limit, largeVars>>
AlignNext == \E x \in Entry : LargeStep(x) \/ SmallStep(x)

(* While a work-item of a launched kernel can go on, one does. *)
AlignSpec == AlignInit /\ [][AlignNext]_alignVars /\ WF_alignVars(AlignNext)

-----------------------------------------------------------------------------
Finished == IF SmallBatch THEN Small!Finished ELSE Large!Finished

(* Once the kernels have ended, every slot an adapter's experts serve is   *)
(* stored exactly once, in a block expert_ids gives to its expert, and     *)
(* every other position holds numel, whatever order the work-items took    *)
(* their ranks in: no slot is stored before the work-items that fill       *)
(* sorted_token_ids get there (the comment "Use separate threadblocks to   *)
(* fill sorted_token_ids").  In the small form its place follows from the  *)
(* input alone (_moe_align_block_size_small_batch_expert).                 *)
SlotsPlaced ==
  /\ Finished => \A m \in Model : Active(m) => PlacedOnce(m) /\ RestPadded(m)
  /\ SmallBatch => Small!PlacesFixed

(* The rest of the outputs: every block of an active adapter is named by   *)
(* its expert and those past the last carry the inactive id, none being    *)
(* left as the caller's buffer had it; total_tokens_post_pad is the sum of *)
(* the padded counts (the large LoRA form is left out: see PostPadValid);  *)
(* and no row of an adapter that is absent or disabled is ever written.    *)
RowsRight ==
  \A m \in Model :
    /\ Finished /\ Active(m) => BlocksNamed(m)
    /\ Finished /\ Active(m) /\ (SmallBatch \/ ~routed.multi) =>
         total[m] = StartsOf(m)[NumExperts]
    /\ ~Active(m) =>
         /\ total[m] = Junk
         /\ \A p \in Position : sorted[m][p] = Junk
         /\ \A b \in Block : expertIds[m][b] = Junk

(* What test_moe_lora_align_sum.py asserts of an adapter that has tokens:  *)
(* its total is a positive multiple of the block size.  It need not be:    *)
(* the group that fills may clear it after the group that counts stored    *)
(* it (moe_lora_align_block_size_kernel).                                  *)
PostPadValid ==
  Finished => \A m \in Model : Active(m) /\ StartsOf(m)[NumExperts] > 0 =>
    total[m] > 0 /\ total[m] <= MaxPadded /\ total[m] % BlockSize = 0
=============================================================================
