------------------------------ MODULE MoeAlign ------------------------------
(***************************************************************************)
(* moe_align_block_size and moe_lora_align_block_size for large batches    *)
(* (csrc/moe/moe_align_sum_kernels.cpp): two kernels in one in-order       *)
(* queue.  In the first, two work-groups serve each adapter: the even one  *)
(* counts the slots of each expert and lays out the blocks, the odd one    *)
(* fills sorted_token_ids with padding.  In the second, work-items take    *)
(* a rank in their expert's range and store their slot there.              *)
(*                                                                         *)
(* In the LoRA form work-item 0 of BOTH groups first clears the adapter's  *)
(* total and writes its token_mask.                                        *)
(***************************************************************************)
EXTENDS MoeRouting, Sequences

CONSTANTS
  Lanes,      (* work-items of a work-group: 1024                        *)
  WarpSize    (* WARP_SIZE, also experts_per_warp                        *)

Lane == 0 .. Lanes - 1
Kind == {"count", "fill", "sort"}
Group == Entry \X Kind
PaddedExperts == CeilDiv(NumExperts, WarpSize) * WarpSize

VARIABLES
  alignPhase, (* phases each work-item has finished                      *)
  loopAt,   (* the slot its loop has reached                             *)
  held,     (* the rank it took and has not used, -1 when none           *)
  sharedCounts, (* shared_counts, local memory of each counting group    *)
  temp,     (* temp_storage, the same                                    *)
  cumsumBuffer (* cumsum_buffer of each adapter                          *)

outputs == <<cumsumBuffer, mask, total, sorted, expertIds>>
alignVars == <<routed, alignPhase, loopAt, held, sharedCounts, temp, outputs>>

-----------------------------------------------------------------------------
(* The parts of a work-group's program between barriers.  The even group   *)
(* and the odd one of an adapter, and the group of the second kernel.      *)
Phases(kind) ==
  LET prologue == IF routed.multi THEN <<"mask">> ELSE <<>>
  IN CASE kind = "count" ->
            prologue \o <<"zero", "count", "pad", "scan", "sums", "blocks">>
       [] kind = "fill" -> prologue \o <<"fill">>
       [] kind = "sort" -> <<"rank">>

Of(g) == ModelOf(g[1])
Steps(kind) == Len(Phases(kind))
Ended(g) == Skipped(g[1]) \/ \A l \in Lane : alignPhase[g][l] = Steps(g[2])
FirstKernelEnded == \A x \in Entry : Ended(<<x, "count">>) /\ Ended(<<x, "fill">>)
Finished == \A g \in Group : Ended(g)

(* The barrier that ends a phase: nobody starts one before all have        *)
(* finished the one before.                                                *)
Together(g, l) == \A m \in Lane : alignPhase[g][m] >= alignPhase[g][l]

(* The in-order queue starts the second kernel when the first has ended. *)
InOrder(kind) == kind = "sort" => FirstKernelEnded

At(g, l, name) ==
  /\ alignPhase[g][l] < Steps(g[2])
  /\ Phases(g[2])[alignPhase[g][l] + 1] = name
  /\ Together(g, l)
  /\ InOrder(g[2])

EndPhase(g, l) ==
  /\ alignPhase' = [alignPhase EXCEPT ![g][l] = @ + 1]
  /\ loopAt' = [loopAt EXCEPT ![g][l] = l]

Init ==
  /\ alignPhase = [g \in Group |-> [l \in Lane |-> 0]]
  /\ loopAt = [g \in Group |-> [l \in Lane |-> l]]
  /\ held = [g \in Group |-> [l \in Lane |-> -1]]
  /\ sharedCounts = [x \in Entry |-> [e \in 0 .. PaddedExperts - 1 |-> Junk]]
  /\ temp = [x \in Entry |-> [l \in Lane |-> Junk]]
  /\ cumsumBuffer = [m \in Model |-> [e \in 0 .. NumExperts |-> IF routed.multi THEN 0 ELSE Junk]]

-----------------------------------------------------------------------------
(* Work-item 0 clears the total of its adapter and writes its token_mask;  *)
(* the group that counts and the group that fills both do.                 *)
Mask(g, l) ==
  /\ At(g, l, "mask")
  /\ EndPhase(g, l)
  /\ IF l = 0
     THEN /\ total' = [total EXCEPT ![Of(g)] = 0]
          /\ mask' = [mask EXCEPT ![Of(g)] = MaskOf(Of(g))]
     ELSE UNCHANGED <<total, mask>>
  /\ UNCHANGED <<routed, held, sharedCounts, temp, cumsumBuffer, sorted, expertIds>>

(* A work-item clears the counters of its warp's experts. *)
Zero(g, l) ==
  /\ At(g, l, "zero")
  /\ EndPhase(g, l)
  /\ sharedCounts' = [sharedCounts EXCEPT ![g[1]] =
       [e \in DOMAIN @ |-> IF e \div WarpSize = l \div WarpSize THEN 0 ELSE @[e]]]
  /\ UNCHANGED <<routed, held, temp, outputs>>

(* One turn of a loop over the slots: slot next[g][l], or the end of it. *)
Turn(g, l) ==
  IF loopAt[g][l] < Numel
  THEN loopAt' = [loopAt EXCEPT ![g][l] = @ + Lanes] /\ UNCHANGED alignPhase
  ELSE EndPhase(g, l)

(* atomic_count.fetch_add(mask) *)
Count(g, l) ==
  /\ At(g, l, "count")
  /\ Turn(g, l)
  /\ LET i == loopAt[g][l] IN
     IF i < Numel /\ Valid(i)
     THEN sharedCounts' =
            [sharedCounts EXCEPT ![g[1]][ServedBy(i)] = @ + mask[Of(g)][i \div TopkNum]]
     ELSE UNCHANGED sharedCounts
  /\ UNCHANGED <<routed, held, temp, outputs>>

(* Mutant of Pad: a work-item with no expert returns before the scan. *)
PadOrReturn(g, l) ==
  /\ At(g, l, "pad") /\ l < NumExperts
  /\ EndPhase(g, l)
  /\ temp' = [temp EXCEPT ![g[1]][l] = Padded(sharedCounts[g[1]][l])]
  /\ UNCHANGED <<routed, held, sharedCounts, outputs>>

(* temp_storage of each work-item: the padded count of its expert *)
Pad(g, l) ==
  /\ At(g, l, "pad")
  /\ EndPhase(g, l)
  /\ temp' = [temp EXCEPT ![g[1]][l] =
                IF l < NumExperts THEN Padded(sharedCounts[g[1]][l]) ELSE 0]
  /\ UNCHANGED <<routed, held, sharedCounts, outputs>>

(* joint_exclusive_scan: the work-items of the group call it together. *)
Scan(g) ==
  /\ \A l \in Lane : At(g, l, "scan")
  /\ alignPhase' = [alignPhase EXCEPT ![g] = [l \in Lane |-> @[l] + 1]]
  /\ loopAt' = [loopAt EXCEPT ![g] = [l \in Lane |-> l]]
  /\ LET sum[l \in Nat] == IF l = 0 THEN 0 ELSE sum[l - 1] + temp[g[1]][l - 1]
     IN temp' = [temp EXCEPT ![g[1]] = [l \in Lane |-> sum[l]]]
  /\ UNCHANGED <<routed, held, sharedCounts, outputs>>

(* A work-item stores its prefix sum, the one past the last expert also    *)
(* the total.                                                              *)
Sums(g, l) ==
  /\ At(g, l, "sums")
  /\ EndPhase(g, l)
  /\ cumsumBuffer' = IF l <= NumExperts THEN [cumsumBuffer EXCEPT ![Of(g)][l] = temp[g[1]][l]]
                     ELSE cumsumBuffer
  /\ total' = IF l = NumExperts THEN [total EXCEPT ![Of(g)] = temp[g[1]][l]] ELSE total
  /\ UNCHANGED <<routed, held, sharedCounts, temp, mask, sorted, expertIds>>

(* A work-item names the blocks of its expert, and every Lanes-th block    *)
(* past the last one in use, starting where its number says.               *)
NameBlocks(g, l) ==
  /\ At(g, l, "blocks")
  /\ EndPhase(g, l)
  /\ LET sum == cumsumBuffer[Of(g)]
         mine == {b \in Block : l < NumExperts /\ b * BlockSize >= sum[l] /\ b * BlockSize < sum[l + 1]}
         rest == {b \in Block : \E k \in 0 .. Blocks :
                                  b = sum[NumExperts] \div BlockSize + l + k * Lanes}
     IN expertIds' = [expertIds EXCEPT ![Of(g)] =
          [b \in Block |-> IF b \in rest THEN Inactive ELSE IF b \in mine THEN l ELSE @[b]]]
  /\ UNCHANGED <<routed, held, sharedCounts, temp, cumsumBuffer, mask, total, sorted>>

(* A work-item of the odd group fills every Lanes-th position. *)
Fill(g, l) ==
  /\ At(g, l, "fill")
  /\ EndPhase(g, l)
  /\ sorted' = [sorted EXCEPT ![Of(g)] =
       [p \in Position |-> IF p % Lanes = l THEN Numel ELSE @[p]]]
  /\ UNCHANGED <<routed, held, sharedCounts, temp, cumsumBuffer, mask, total, expertIds>>

(* Second kernel, atomic_count.fetch_add(1): the next rank of the expert   *)
(* is taken for the slot; slots that are not this adapter's are passed by. *)
TakeRank(g, l) ==
  /\ At(g, l, "rank")
  /\ held[g][l] = -1
  /\ LET i == loopAt[g][l] IN
     IF i < Numel /\ Valid(i) /\ mask[Of(g)][i \div TopkNum] # 0
     THEN /\ held' = [held EXCEPT ![g][l] = cumsumBuffer[Of(g)][ServedBy(i)]]
          /\ cumsumBuffer' = [cumsumBuffer EXCEPT ![Of(g)][ServedBy(i)] = @ + 1]
          /\ UNCHANGED <<alignPhase, loopAt>>
     ELSE Turn(g, l) /\ UNCHANGED <<held, cumsumBuffer>>
  /\ UNCHANGED <<routed, sharedCounts, temp, mask, total, sorted, expertIds>>

(* Mutant of StoreSlot: the rank is used as an inclusive one. *)
StoreEarly(g, l) ==
  /\ At(g, l, "rank")
  /\ held[g][l] # -1
  /\ sorted' = [sorted EXCEPT ![Of(g)][held[g][l] + 1] = loopAt[g][l]]
  /\ held' = [held EXCEPT ![g][l] = -1]
  /\ Turn(g, l)
  /\ UNCHANGED <<routed, sharedCounts, temp, cumsumBuffer, mask, total, expertIds>>

(* sorted_token_ids[rank] = slot *)
StoreSlot(g, l) ==
  /\ At(g, l, "rank")
  /\ held[g][l] # -1
  /\ sorted' = [sorted EXCEPT ![Of(g)][held[g][l]] = loopAt[g][l]]
  /\ held' = [held EXCEPT ![g][l] = -1]
  /\ Turn(g, l)
  /\ UNCHANGED <<routed, sharedCounts, temp, cumsumBuffer, mask, total, expertIds>>

CountStep(g, l) ==
  Zero(g, l) \/ Count(g, l) \/ Pad(g, l) \/ Sums(g, l) \/ NameBlocks(g, l)
SortStep(g, l) == TakeRank(g, l) \/ StoreSlot(g, l)

Step(g) ==
  \/ g[2] = "count" /\ Scan(g)
  \/ \E l \in Lane :
       \/ g[2] # "sort" /\ Mask(g, l)
       \/ g[2] = "count" /\ CountStep(g, l)
       \/ g[2] = "fill" /\ Fill(g, l)
       \/ g[2] = "sort" /\ SortStep(g, l)

(* Both kernels, for one row of lora_ids. *)
Serve(x) == ~Skipped(x) /\ \E k \in Kind : Step(<<x, k>>)

-----------------------------------------------------------------------------
=============================================================================
