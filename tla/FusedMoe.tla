------------------------------ MODULE FusedMoe ------------------------------
(***************************************************************************)
(* XpuFusedMoe (vllm_xpu_kernels/fused_moe_interface.py): the rows of the  *)
(* tokens are grouped by expert (MoeRemap), two grouped GEMMs with an      *)
(* activation between them work on the groups, and moe_gather              *)
(* (csrc/moe/moe_gather.cpp) sums each token's rows.  The kernels run one  *)
(* after the other in an in-order queue; how the GEMMs share out their     *)
(* work is GroupedGemm's matter, here they take every row to its result.   *)
(***************************************************************************)
EXTENDS MoeRemap

CONSTANTS Pending      (* an output not written yet                        *)

VARIABLES
  result,     (* gemm2_output: <<expert, whose row>>, or <<>> (garbage)    *)
  computed,   (* whether the GEMMs have run                                *)
  output      (* per token, the set of <<place in topk_ids, row summed>>   *)

vars == <<remapVars, result, computed, output>>

-----------------------------------------------------------------------------
(* The map of a device: it has the experts from rank * num_experts on.     *)
InitExpertMap(rank) ==
  [e \in 0 .. TotalExperts - 1 |->
     IF e \in rank * LocalExperts .. (rank + 1) * LocalExperts - 1
     THEN e - rank * LocalExperts ELSE -1]

(* torch.empty and torch.zeros; the result of the GEMMs is not cleared.    *)
Init ==
  /\ RemapInit
  /\ result = [r \in Row |-> <<>>]
  /\ computed = FALSE
  /\ output = [t \in Token |-> Pending]

Remap == (CountStep \/ CopyStep) /\ UNCHANGED <<result, computed, output>>

(* Whose row r of remapped_hidden_states is, with its scales.              *)
Owner(r) ==
  IF \E t \in Token : /\ \A c \in Chunk : hidden[r][c] = t
                      /\ \A e \in ScaleElem : scales[r][e] = t
  THEN hidden[r][0] ELSE Garbage

(* cutlass_grouped_gemm_interface: pre_rows of an expert, by rows_per_expert *)
PreRows(e) == IF e = 0 THEN 0 ELSE PrefixSums(rows)[e - 1]
Segment(e) == PreRows(e) .. PreRows(e) + rows[e] - 1

(* Both grouped GEMMs and the activation between them, row by row; rows    *)
(* past the last expert's are left as they are.                            *)
Gemms ==
  /\ Remapped /\ ~computed
  /\ computed' = TRUE
  /\ result' = [r \in Row |->
       IF \E e \in Expert : r \in Segment(e)
       THEN <<CHOOSE e \in Expert : r \in Segment(e), Owner(r)>> ELSE result[r]]
  /\ UNCHANGED <<remapVars, output>>

(* Mutant of Gather: slots without an expert are not skipped. *)
GatherAll(t) ==
  /\ computed /\ output[t] = Pending
  /\ output' = [output EXCEPT ![t] =
       {<<k, IF perm[t * TopK + k] \in Row THEN result[perm[t * TopK + k]] ELSE <<>>>> :
          k \in 0 .. TopK - 1}]
  /\ UNCHANGED <<remapVars, result, computed>>

(* MoeGather, one token: the rows of its slots with their weights, without *)
(* those of experts on another device.                                     *)
Gather(t) ==
  /\ computed /\ output[t] = Pending
  /\ output' = [output EXCEPT ![t] =
       {<<k, IF perm[t * TopK + k] \in Row THEN result[perm[t * TopK + k]] ELSE <<>>>> :
          k \in {k \in 0 .. TopK - 1 : perm[t * TopK + k] # -1}}]
  /\ UNCHANGED <<remapVars, result, computed>>

Next == Remap \/ Gemms \/ \E t \in Token : Gather(t)

(* While a work-item of a launched kernel can go on, one does. *)
Spec == Init /\ [][Next]_vars /\ WF_vars(Next)

-----------------------------------------------------------------------------
(* Once remapped, the rows of an expert, and only they, are where the      *)
(* GEMMs will look for them, each whole and with its scales, one for every *)
(* slot: a bijection, so that no row is left with garbage and none is lost *)
(* (remap_hidden_states against pre_rows of the grouped GEMM).             *)
RowsGrouped ==
  Remapped =>
    \A e \in Expert :
      LET slots == {s \in Slot : ExpertOf(s) = e}
      IN /\ {perm[s] : s \in slots} = Segment(e)
         /\ \A s \in slots : Owner(perm[s]) = s \div TopK

(* The layer as a whole: each token gets its experts' results and no       *)
(* other, once (XpuFusedMoe.apply).                                        *)
Layer ==
  INSTANCE MoeLayer WITH
    routing <- [t \in Token |->
      {<<k, ExpertOf(t * TopK + k)>> : k \in {k \in 0 .. TopK - 1 : ExpertOf(t * TopK + k) # -1}}]
LayerKept == Layer!LayerSpec

Answered == \A t \in Token : output[t] # Pending
=============================================================================
