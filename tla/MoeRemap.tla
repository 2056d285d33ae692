------------------------------ MODULE MoeRemap ------------------------------
(***************************************************************************)
(* remap_hidden_states (csrc/moe/remap_hidden_states.cpp): the rows of the *)
(* activations are copied once for each expert that serves them here, the  *)
(* rows of an expert together.  Two kernels in one in-order queue:         *)
(* RowsPerExpertCount gives every slot of topk_ids a rank among the slots  *)
(* of its expert, with counters in local memory and then in global memory; *)
(* RemapHiddenStates turns ranks into rows and copies.                     *)
(***************************************************************************)
EXTENDS Integers

CONSTANTS
  NumRows,        (* num_rows: the tokens                                  *)
  TopK,           (* topk_ids.size(1)                                      *)
  LocalExperts,   (* local_experts_num                                     *)
  TotalExperts,   (* total_experts_num                                     *)
  CountLanes,     (* RowsPerExpertCount::GroupWorkItem, 256                *)
  MaxCopyLanes,   (* RemapHiddenStates::GroupWorkItem, 256                 *)
  Chunks,         (* hidden_size / ElemsPerItem                            *)
  ElemsPerItem,   (* elements a work-item copies at once                   *)
  ScaleElems,     (* hidden_size / block_k                                 *)
  Inputs,         (* bound of the inputs: [ids, map], the values of        *)
                  (* topk_ids and an expert_map (no map: the identity)     *)
  Garbage         (* what memory holds that nobody has written: no token,  *)
                  (* row or count                                          *)

NumSlots == NumRows * TopK
Slot == 0 .. NumSlots - 1
Token == 0 .. NumRows - 1
Expert == 0 .. LocalExperts - 1
Row == Slot
Chunk == 0 .. Chunks - 1
ScaleElem == 0 .. ScaleElems - 1

ASSUME SizeAssumption ==
  /\ NumRows \in Nat /\ TopK \in Nat \ {0} /\ LocalExperts \in Nat \ {0} /\ TotalExperts \in Nat
  /\ CountLanes \in Nat \ {0} /\ MaxCopyLanes \in Nat \ {0}
  /\ Chunks \in Nat \ {0} /\ ElemsPerItem \in Nat \ {0} /\ ScaleElems \in Nat

ASSUME InputAssumption ==
  \A i \in Inputs : /\ i.ids \in [Slot -> -1 .. TotalExperts - 1]
                    /\ i.map \in [0 .. TotalExperts - 1 -> Expert \cup {-1}]

ASSUME GarbageAssumption == Garbage \in Nat /\ Garbage > NumSlots

(* get_nd_range of the two kernels *)
CountGroup == 0 .. (NumSlots + CountLanes - 1) \div CountLanes - 1
CountLane == 0 .. CountLanes - 1
CopyLanes == IF MaxCopyLanes > Chunks THEN Chunks ELSE MaxCopyLanes
CopyLane == 0 .. CopyLanes - 1

VARIABLES
  in,         (* topk_ids and expert_map                                   *)
  phase,      (* RowsPerExpertCount: phases each work-item has finished    *)
  next,       (* ... the expert its loop over the experts has reached      *)
  counts,     (* ... local_counts of each work-group                       *)
  rows,       (* rows_per_expert                                           *)
  perm,       (* unpermuted_row_to_permuted_row                            *)
  stage,      (* RemapHiddenStates: phases each work-item has finished     *)
  cumsum,     (* ... expert_cumsum_ptr of each work-group                  *)
  offset,     (* ... rows_offset of each work-item                         *)
  hidden,     (* remapped_hidden_states: whose chunk each row holds        *)
  scales      (* remapped_hidden_states_scales: whose scale                *)

countVars == <<phase, next, counts, rows>>
copyVars == <<stage, cumsum, offset, hidden, scales>>
remapVars == <<in, countVars, perm, copyVars>>

-----------------------------------------------------------------------------
(* to_local_expert_id: -1 for a slot without an expert, or with one that   *)
(* is on another device.                                                   *)
ExpertOf(s) == IF in.ids[s] < 0 THEN -1 ELSE in.map[in.ids[s]]

GroupOf(s) == s \div CountLanes
LaneOf(s) == s % CountLanes
SlotOf(g, l) == g * CountLanes + l

RowsAtStart == [e \in Expert |-> 0]

RemapInit ==
  /\ in \in Inputs
  /\ phase = [g \in CountGroup |-> [l \in CountLane |-> 0]]
  /\ next = [g \in CountGroup |-> [l \in CountLane |-> l]]
  /\ counts = [g \in CountGroup |-> [e \in Expert |-> Garbage]]
  /\ rows = RowsAtStart
  /\ perm = [s \in Slot |-> Garbage]
  /\ stage = [t \in Token |-> [l \in CopyLane |-> 0]]
  /\ cumsum = [t \in Token |-> [e \in Expert |-> Garbage]]
  /\ offset = [t \in Token |-> [l \in CopyLane |-> [k \in 0 .. TopK - 1 |-> -1]]]
  /\ hidden = [r \in Row |-> [c \in Chunk |-> Garbage]]
  /\ scales = [r \in Row |-> [e \in ScaleElem |-> Garbage]]

-----------------------------------------------------------------------------
(* Mutant of At: the barriers are left out. *)
AtEager(g, l, n) == phase[g][l] = n

(* RowsPerExpertCount: a phase starts when the work-items of the group     *)
(* have all finished the one before (group_barrier).                       *)
At(g, l, n) == phase[g][l] = n /\ \A m \in CountLane : phase[g][m] >= n

EndPhase(g, l) == phase' = [phase EXCEPT ![g][l] = @ + 1]

(* Phase 1: a work-item clears every CountLanes-th counter.                *)
Clear(g, l) ==
  /\ At(g, l, 0)
  /\ EndPhase(g, l)
  /\ counts' = [counts EXCEPT ![g] =
       [e \in Expert |-> IF e % CountLanes = l THEN 0 ELSE counts[g][e]]]
  /\ UNCHANGED <<in, next, rows, perm, copyVars>>

(* Mutant of Count: a work-item without a slot returns. *)
CountOrReturn(g, l) ==
  /\ At(g, l, 1)
  /\ EndPhase(g, l)
  /\ SlotOf(g, l) \in Slot
  /\ LET s == SlotOf(g, l)
         e == ExpertOf(s)
     IN IF e = -1
        THEN perm' = [perm EXCEPT ![s] = -1] /\ UNCHANGED counts
        ELSE /\ perm' = [perm EXCEPT ![s] = counts[g][e]]
             /\ counts' = [counts EXCEPT ![g][e] = @ + 1]
  /\ UNCHANGED <<in, next, rows, copyVars>>

(* Phase 2: a rank in the group, by an atomic in local memory. *)
Count(g, l) ==
  /\ At(g, l, 1)
  /\ EndPhase(g, l)
  /\ LET s == SlotOf(g, l) IN
     IF s \notin Slot THEN UNCHANGED <<perm, counts>>
     ELSE LET e == ExpertOf(s) IN
          IF e = -1
          THEN perm' = [perm EXCEPT ![s] = -1] /\ UNCHANGED counts
          ELSE /\ perm' = [perm EXCEPT ![s] = counts[g][e]]
               /\ counts' = [counts EXCEPT ![g][e] = @ + 1]
  /\ UNCHANGED <<in, next, rows, copyVars>>

(* Phase 3, an expert of the work-item: the group's slots are added to the *)
(* expert's in global memory, and the counter becomes where they start.    *)
TakeBase(g, l) ==
  /\ At(g, l, 2) /\ next[g][l] \in Expert
  /\ next' = [next EXCEPT ![g][l] = @ + CountLanes]
  /\ LET e == next[g][l] IN
     IF counts[g][e] > 0
     THEN /\ rows' = [rows EXCEPT ![e] = @ + counts[g][e]]
          /\ counts' = [counts EXCEPT ![g][e] = rows[e]]
     ELSE UNCHANGED <<rows, counts>>
  /\ UNCHANGED <<in, phase, perm, copyVars>>

LeaveBases(g, l) ==
  /\ At(g, l, 2) /\ next[g][l] \notin Expert
  /\ EndPhase(g, l)
  /\ UNCHANGED <<in, next, counts, rows, perm, copyVars>>

(* Phase 4: the rank among all slots of the expert. *)
AddBase(g, l) ==
  /\ At(g, l, 3)
  /\ EndPhase(g, l)
  /\ LET s == SlotOf(g, l) IN
     perm' = IF s \in Slot /\ ExpertOf(s) # -1
             THEN [perm EXCEPT ![s] = @ + counts[g][ExpertOf(s)]] ELSE perm
  /\ UNCHANGED <<in, next, counts, rows, copyVars>>

CountStep ==
  \E g \in CountGroup : \E l \in CountLane :
    Clear(g, l) \/ Count(g, l) \/ TakeBase(g, l) \/ LeaveBases(g, l) \/ AddBase(g, l)

Counted == \A g \in CountGroup : \A l \in CountLane : phase[g][l] = 4

-----------------------------------------------------------------------------
(* Mutant of On: no barrier between the rows found and their use. *)
OnLoose(t, l, n) ==
  Counted /\ stage[t][l] = n /\ (n # 3 => \A m \in CopyLane : stage[t][m] >= n)

(* RemapHiddenStates: a work-group for each row.  The queue starts it when *)
(* the counting has ended.                                                 *)
On(t, l, n) == Counted /\ stage[t][l] = n /\ \A m \in CopyLane : stage[t][m] >= n

EndStage(t, l) == stage' = [stage EXCEPT ![t][l] = @ + 1]

(* The rows of the expert before each; 0 before the first. *)
LoadRows(t, l) ==
  /\ On(t, l, 0)
  /\ EndStage(t, l)
  /\ cumsum' = [cumsum EXCEPT ![t] =
       [e \in Expert |->
          IF e = 0 THEN (IF l = 0 THEN 0 ELSE cumsum[t][0])
          ELSE IF (e - 1) % CopyLanes = l THEN rows[e - 1] ELSE cumsum[t][e]]]
  /\ UNCHANGED <<in, countVars, perm, offset, hidden, scales>>

PrefixSums(f) ==
  LET sum[e \in Expert] == IF e = 0 THEN f[0] ELSE sum[e - 1] + f[e]
  IN sum

(* joint_inclusive_scan: the work-items of the group call it together. *)
Scan(t) ==
  /\ \A l \in CopyLane : On(t, l, 1)
  /\ stage' = [stage EXCEPT ![t] = [l \in CopyLane |-> 2]]
  /\ cumsum' = [cumsum EXCEPT ![t] = PrefixSums(cumsum[t])]
  /\ UNCHANGED <<in, countVars, perm, offset, hidden, scales>>

(* Every work-item computes the rows of all slots of the token. *)
FindRows(t, l) ==
  /\ On(t, l, 2)
  /\ EndStage(t, l)
  /\ offset' = [offset EXCEPT ![t][l] =
       [k \in 0 .. TopK - 1 |->
          LET s == t * TopK + k
              e == ExpertOf(s)
          IN IF e = -1 THEN -1 ELSE perm[s] + (IF e = 0 THEN 0 ELSE cumsum[t][e])]]
  /\ UNCHANGED <<in, countVars, perm, cumsum, hidden, scales>>

(* The chunks of a row a work-item copies, and the elements of its scales: *)
(* ElemsPerItem at a time, fewer at the end of the row.                    *)
ChunksOf(l) == {c \in Chunk : c % CopyLanes = l}
ScalesOf(l) == {e \in ScaleElem : (e \div ElemsPerItem) % CopyLanes = l}

Copy(t, l) ==
  /\ On(t, l, 3)
  /\ EndStage(t, l)
  /\ LET targets == {offset[t][l][k] : k \in 0 .. TopK - 1} IN
     /\ hidden' = [r \in Row |->
          [c \in Chunk |-> IF r \in targets /\ c \in ChunksOf(l) THEN t ELSE hidden[r][c]]]
     /\ scales' = [r \in Row |->
          [e \in ScaleElem |-> IF r \in targets /\ e \in ScalesOf(l) THEN t ELSE scales[r][e]]]
  /\ UNCHANGED <<in, countVars, perm, cumsum, offset>>

(* No barrier follows the copy; work-item 0 stores the rows for the gather.*)
StoreRows(t, l) ==
  /\ Counted /\ stage[t][l] = 4
  /\ EndStage(t, l)
  /\ perm' = IF l = 0
             THEN [s \in Slot |-> IF s \div TopK = t THEN offset[t][0][s % TopK] ELSE perm[s]]
             ELSE perm
  /\ UNCHANGED <<in, countVars, cumsum, offset, hidden, scales>>

CopyStep ==
  \E t \in Token :
    \/ Scan(t)
    \/ \E l \in CopyLane : LoadRows(t, l) \/ FindRows(t, l) \/ Copy(t, l) \/ StoreRows(t, l)

Remapped == Counted /\ \A t \in Token : \A l \in CopyLane : stage[t][l] = 5

RemapSpec == RemapInit /\ [][CountStep \/ CopyStep]_remapVars
-----------------------------------------------------------------------------
(* RowsPerExpertCount has settled the rank of slot s, and it has not been  *)
(* replaced by a row yet.                                                  *)
Ranked(s) ==
  /\ ExpertOf(s) # -1
  /\ phase[GroupOf(s)][LaneOf(s)] = 4
  /\ stage[s \div TopK][0] < 5

(* Two slots of an expert never get the same rank, whatever the groups and *)
(* the order of their atomics, and every rank is below the expert's count  *)
(* (RowsPerExpertCount).                                                   *)
RanksDistinct ==
  \A s, t \in Slot :
    s # t /\ Ranked(s) /\ Ranked(t) /\ ExpertOf(s) = ExpertOf(t) =>
      /\ perm[s] # perm[t]
      /\ perm[s] \in 0 .. rows[ExpertOf(s)] - 1
=============================================================================
