------------------------------- MODULE MCMoe --------------------------------
(***************************************************************************)
(* Instances for TLC of what a MoE layer runs, one machine beside the      *)
(* other: moe_align_block_size, and FusedMoe on two devices with four      *)
(* experts each.  A behaviour is of one of them.                           *)
(***************************************************************************)
EXTENDS MoeAlignOp, FusedMoe

VARIABLE machine

(* Of moe_align_block_size: -1 and 1 are routed nowhere and to the last    *)
(* expert, and with a map expert 0 is on another device.                   *)
MCMaps == {[e \in AlignExpert |-> e], [e \in AlignExpert |-> IF e = 0 THEN -1 ELSE 0]}
MCIdentity == {[e \in AlignExpert |-> e]}
MCIds == -1 .. 1

Request(multi, ids, lora, enabled) ==
  [multi |-> multi, ids |-> ids, lora |-> lora, enabled |-> enabled]

All == [m \in Model |-> TRUE]

(* The plain form, and the LoRA form with lora_ids as the caller prepares  *)
(* them (-1 first for tokens of no adapter), or with an id out of range.   *)
MCRequests ==
  {Request(FALSE, <<0, -1, -1>>, [t \in AlignToken |-> 0], All)} \cup
  {Request(TRUE, <<-1, 1, -1>>, lora, [m \in Model |-> m = 1]) :
     lora \in {[t \in AlignToken |-> 1], [t \in AlignToken |-> IF t = 0 THEN -1 ELSE 1]}} \cup
  {Request(TRUE, c.ids, [t \in AlignToken |-> 1], [m \in Model |-> m = c.on]) :
     c \in {[ids |-> <<1, 5, -1>>, on |-> 1], [ids |-> <<-1, 1, -1>>, on |-> 0]}}

MCOneRequest == {Request(TRUE, <<1, -1, -1>>, [t \in AlignToken |-> 1], All)}

(* Of FusedMoe: four slots over work-groups of three, so that one has idle *)
(* work-items, and a work-item that counts for two experts; the choices of *)
(* two tokens have experts in common, experts of the other device, and     *)
(* none.                                                                   *)
Choices == {<<0, 3>>, <<3, 5>>, <<-1, 7>>}
Ids(c, d) == [s \in Slot |-> IF s < TopK THEN c[s + 1] ELSE d[s - TopK + 1]]
MCInputs ==
  {[ids |-> Ids(c, d), map |-> InitExpertMap(rank)] : c, d \in Choices, rank \in 0 .. 1}

OneRequest == Request(FALSE, <<0, -1, -1>>, [t \in AlignToken |-> 0], All)
AlignIdle ==
  /\ AlignInit
  /\ routed = [topk |-> [i \in AlignSlot |-> 1], map |-> [e \in AlignExpert |-> e], multi |-> FALSE,
               ids |-> OneRequest.ids, lora |-> OneRequest.lora, enabled |-> OneRequest.enabled]
  /\ limit = CHOOSE n \in Limits : TRUE
LayerIdle == Init /\ in = [ids |-> Ids(<<0, 3>>, <<0, 3>>), map |-> InitExpertMap(0)]

MCInit ==
  \/ machine = "align" /\ AlignInit /\ LayerIdle
  \/ machine = "layer" /\ AlignIdle /\ Init
MCNext ==
  /\ \/ machine = "align" /\ AlignNext /\ UNCHANGED vars
     \/ machine = "layer" /\ Next /\ UNCHANGED alignVars
  /\ UNCHANGED machine
MCSpec == MCInit /\ [][MCNext]_<<alignVars, vars, machine>> /\ WF_<<alignVars, vars>>(MCNext)

(* moe_align_block_size alone *)
MCAlignSpec ==
  /\ machine = "align" /\ AlignInit /\ LayerIdle
  /\ [][MCNext]_<<alignVars, vars, machine>>

(* Nobody waits for ever at a barrier or a collective scan: the slots are  *)
(* all placed, every token is answered (moe_align_block_size,              *)
(* remap_hidden_states).                                                   *)
AllServed == <>(IF machine = "align" THEN Finished ELSE Answered)
=============================================================================
