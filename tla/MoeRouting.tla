----------------------------- MODULE MoeRouting -----------------------------
(***************************************************************************)
(* What every form of moe_align_block_size works on and has to deliver     *)
(* (csrc/moe/moe_align_sum_kernels.cpp): the slots of topk_ids, grouped by *)
(* the expert that serves them, every group padded to whole blocks.        *)
(*                                                                         *)
(* moe_lora_align_block_size does it once for each adapter, for the tokens *)
(* mapped to it; moe_align_block_size once, as for one adapter 0 to which  *)
(* every token belongs.                                                    *)
(***************************************************************************)
EXTENDS Integers, FiniteSets

CONSTANTS
  NumExperts, (* num_experts                                             *)
  BlockSize,  (* block_size                                              *)
  Numel,      (* topk_ids.numel()                                        *)
  TopkNum,    (* topk_num                                                *)
  MaxPadded,  (* max_num_tokens_padded                                   *)
  MaxLoras,   (* max_loras                                               *)
  TopkIds,    (* bound of the inputs: the values of topk_ids             *)
  ExpertMaps, (* bound of the inputs: the expert maps; the identity      *)
              (* stands for no map                                       *)
  Requests,   (* bound of the inputs: [multi, ids, lora, enabled]        *)
  Junk        (* what the outputs and local memory hold at first         *)

ASSUME RoutingAssumption ==
  /\ NumExperts \in Nat \ {0} /\ BlockSize \in Nat \ {0} /\ TopkNum \in Nat \ {0}
  /\ Numel \in Nat /\ MaxPadded \in Nat /\ MaxLoras \in Nat \ {0} /\ Junk \in Int
  /\ Numel % TopkNum = 0

(* What the caller reserves (moe_align_block_size_ops.py): room for every  *)
(* expert to leave a block all but one short, or for a block for each      *)
(* slot, whichever is less.                                                *)
ASSUME RoomAssumption ==
  \/ Numel + NumExperts * (BlockSize - 1) <= MaxPadded
  \/ Numel * BlockSize <= MaxPadded

VARIABLES
  routed,   (* topk and map; multi: whether this is the LoRA form; ids:  *)
            (* lora_ids; lora: token_lora_mapping; enabled:              *)
            (* adapter_enabled                                           *)
  mask,     (* token_mask of each adapter                                *)
  total,    (* total_tokens_post_pad of each adapter                     *)
  sorted,   (* sorted_token_ids of each adapter                          *)
  expertIds (* expert_ids of each adapter                                *)

CeilDiv(a, b) == (a + b - 1) \div b
Padded(n) == CeilDiv(n, BlockSize) * BlockSize

AlignSlot == 0 .. Numel - 1
AlignToken == 0 .. (Numel \div TopkNum) - 1
AlignExpert == 0 .. NumExperts - 1
Position == 0 .. MaxPadded - 1
Blocks == CeilDiv(MaxPadded, BlockSize)      (* max_num_m_blocks *)
Block == 0 .. Blocks - 1

Model == 0 .. MaxLoras - 1
Entry == 1 .. MaxLoras + 1      (* the rows of lora_ids a kernel is launched for *)

(* A map leads to experts of this device, or to -1; lora_ids names an      *)
(* adapter at most once (torch.unique).                                    *)
ASSUME RequestAssumption ==
  /\ TopkIds \subseteq Int
  /\ ExpertMaps \subseteq [AlignExpert -> AlignExpert \cup {-1}]
  /\ \A r \in Requests :
       /\ r.multi \in BOOLEAN /\ r.ids \in [Entry -> Int]
       /\ r.lora \in [AlignToken -> Int] /\ r.enabled \in [Model -> BOOLEAN]
       /\ \A x, y \in Entry : r.ids[x] = r.ids[y] /\ x # y => r.ids[x] \notin Model

(* The expert that serves slot i here, or -1: ids out of range and experts *)
(* the map places on another device are left out.                          *)
ServedBy(i) == IF routed.topk[i] \in AlignExpert THEN routed.map[routed.topk[i]] ELSE -1
Valid(i) == ServedBy(i) # -1

(* Mutant of Skipped: a disabled adapter is not skipped. *)
SkippedNotDisabled(x) == IF routed.multi THEN routed.ids[x] \notin Model ELSE x # 1

(* The guard of every LoRA kernel: no adapter (-1), out of range, or       *)
(* disabled.  The plain form has one entry.                                *)
Skipped(x) == IF routed.multi THEN routed.ids[x] \notin {m \in Model : routed.enabled[m]} ELSE x # 1

(* model_offset *)
ModelOf(x) == IF routed.multi THEN routed.ids[x] ELSE 0

Inactive == IF routed.multi THEN -1 ELSE 0
MaskOf(m) == [t \in AlignToken |-> IF routed.lora[t] = m THEN 1 ELSE 0]

(* The exclusive prefix sum of the padded counts. *)
Starts(count) ==
  LET start[e \in Nat] == IF e = 0 THEN 0 ELSE start[e - 1] + Padded(count[e - 1])
  IN [e \in 0 .. NumExperts |-> start[e]]

InitRouting ==
  /\ routed \in {[topk |-> t, map |-> m, multi |-> r.multi, ids |-> r.ids, lora |-> r.lora,
              enabled |-> r.enabled] :
               t \in [AlignSlot -> TopkIds], m \in ExpertMaps, r \in Requests}
  /\ mask = [m \in Model |-> [t \in AlignToken |-> IF routed.multi THEN Junk ELSE 1]]
  /\ total = [m \in Model |-> Junk]
  /\ sorted = [m \in Model |-> [p \in Position |-> Junk]]
  /\ expertIds = [m \in Model |-> [b \in Block |-> Junk]]

-----------------------------------------------------------------------------
(* The result an adapter has to get. *)
Active(m) == IF routed.multi THEN routed.enabled[m] /\ \E x \in Entry : routed.ids[x] = m
             ELSE m = 0

(* The slots each expert serves for the adapter. *)
Served(m) ==
  [e \in AlignExpert |->
     {i \in AlignSlot : ServedBy(i) = e /\ (routed.multi => routed.lora[i \div TopkNum] = m)}]

StartsOf(m) == Starts([e \in AlignExpert |-> Cardinality(Served(m)[e])])

(* Every slot served appears exactly once, in a block of its expert. *)
PlacedOnce(m) ==
  \A e \in AlignExpert : \A i \in Served(m)[e] :
    \E p \in Position :
      /\ sorted[m][p] = i /\ expertIds[m][p \div BlockSize] = e
      /\ \A q \in Position \ {p} : sorted[m][q] # i

(* Every other position holds numel, the padding value. *)
RestPadded(m) ==
  LET served == UNION {Served(m)[e] : e \in AlignExpert}
  IN \A p \in Position : sorted[m][p] \in served \cup {Numel}

(* expert_ids names the expert of each block, the inactive id past them. *)
BlocksNamed(m) ==
  \A b \in Block :
    LET owner == {e \in AlignExpert : b * BlockSize \in StartsOf(m)[e] .. StartsOf(m)[e + 1] - 1}
    IN expertIds[m][b] \in (IF owner = {} THEN {Inactive} ELSE owner)
=============================================================================
