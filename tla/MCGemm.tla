------------------------------- MODULE MCGemm -------------------------------
(* The matrix products: a launch of the grouped one, or a process that     *)
(* calls the dense ones.  Few work-groups and work-items, row counts that  *)
(* leave experts empty, partly filled and with several blocks.             *)
EXTENDS GroupedGemm, MCDenseGemm

(* Every thread keeps to one layout of scales for a shape. *)
ASSUME KeysTell

GroupedIdle ==
  /\ rows = [e \in Expert |-> 0]
  /\ counter = 0
  /\ slm = [g \in Group |-> g]
  /\ gid = [i \in Item |-> i[1]]
  /\ expert = [i \in Item |-> 0]
  /\ kTile = [i \in Item |-> 0]
  /\ arrived = [g \in Group |-> {}]
  /\ pc = [i \in Item |-> "done"]
  /\ written = [p \in AnyTile \X Lane |-> 0]
DenseIdle ==
  /\ calls = [t \in Thread |-> {}]
  /\ caches = <<>>
  /\ active = [t \in Thread |-> None]
  /\ submitted = [t \in Thread |-> None]

MCInit == (Init /\ DenseIdle) \/ (CacheInit /\ GroupedIdle)
MCNext == (Next /\ UNCHANGED cacheVars) \/ (CacheNext /\ UNCHANGED vars)
MCSpec == MCInit /\ [][MCNext]_<<vars, cacheVars>> /\ \A i \in Item : WF_vars(Step(i))
=============================================================================
