---------------------------- MODULE PagedDecode -----------------------------
(***************************************************************************)
(* A split-K decode launch (csrc/xpu/attn/xe_2/paged_decode.hpp and        *)
(* kernel/paged_decode_kernel.hpp): work-groups of the attention kernel    *)
(* each attend to some KV tiles of a row and publish a partial output and  *)
(* its log-sum-exp in a slot of buffers that at::empty left uninitialised; *)
(* a second kernel, next in the same in-order queue, has one work-group    *)
(* for each row combine the slots, one work-item for each split.           *)
(*                                                                         *)
(* Which work-groups there are, and which slots are combined, comes from a *)
(* plan made by the host or, when there is none, from formulas both        *)
(* kernels evaluate (DecodePlan).  With one split there is no second       *)
(* kernel: the slot is the output.                                         *)
(***************************************************************************)
EXTENDS DecodePlan

CONSTANTS
  Seqs,         (* sequences of the batch                                  *)
  Heads,        (* KV heads; the query heads packed behind one are a row   *)
  Lanes,        (* work-items of a reduction group: SGPerWG * sg_size      *)
  Caps,         (* bound of the inputs: num_kv_splits                      *)
  KvLens,       (* bound of the inputs: KV lengths in tokens               *)
  MaxTile,      (* the last tile of the longest of them                    *)
  Windows,      (* bound of the inputs: window_size_left, -1 for none      *)
  Targets,      (* bound of the inputs: target_tiles_per_wg; what it comes *)
                (* to depends on the device and the whole batch            *)
  NoOutput

(* can_implement refuses more splits than the group has work-items.        *)
ASSUME LanesAssumption == Lanes \in Nat /\ Caps \subseteq 1 .. Lanes
ASSUME InputAssumption ==
  /\ KvLens \subseteq Nat /\ Targets \subseteq Nat \ {0}
  /\ Windows \subseteq Nat \cup {-1}
  /\ MaxTile \in Nat /\ \A kv \in KvLens : KBlocks(kv) <= MaxTile + 1

Row == Seqs \X Heads
Lane == 0 .. Lanes - 1
Tile == 0 .. MaxTile
Output == [times : [Tile -> Nat], clean : BOOLEAN]

ASSUME NoOutputAssumption == NoOutput \notin Output

VARIABLES
  job,      (* kv lengths, prefill mask, window, num_kv_splits (cap),      *)
            (* whether there is a plan, and its target                     *)
  todo,     (* work-groups of the attention kernel still to run            *)
  slot,     (* the tiles each slot stands for, {} while it is as allocated *)
  phase,    (* phases each work-item of each reduction group has finished  *)
  slm,      (* softmax_lse_slm_array of each group                         *)
  out       (* the caller's output: how often each tile counts in the      *)
            (* elements a work-item stores, and whether it is clean        *)

vars == <<job, todo, slot, phase, slm, out>>

-----------------------------------------------------------------------------
Tiles(b) == WindowedBlocks(job.kv[b], job.window)
PlannedTiles(b) == PlanTiles(job.kv[b], job.window)
First(b) == KBlock0(job.kv[b], job.window)

(* splits_per_seq when there is a plan, else num_kv_splits. *)
Splits(j, b) ==
  IF j.planned THEN PlanSplits(PlanTiles(j.kv[b], j.window), j.target, j.cap) ELSE j.cap

(* The grid: an item of the work_list, or any split, for each KV head. *)
Grid(j) == {w \in Seqs \X Heads \X (0 .. Lanes - 1) : w[3] < Splits(j, w[1])}

(* The tiles of split s: kv_split_offset and num_effective_kv_blocks. *)
Share(b, s) ==
  LET k == Splits(job, b)
      start == IF job.planned THEN PlanStart(PlannedTiles(b), k, s) ELSE LegacyStart(Tiles(b), k, s)
      count == IF job.planned THEN PlanCount(PlannedTiles(b), k, s) ELSE LegacyCount(Tiles(b), k, s)
  IN First(b) + start .. First(b) + start + count - 1

(* The launches the callers make: a plan only for pure decode with more    *)
(* than one split (the gate in flash_attn_varlen_func), a prefill mask     *)
(* only with one split (mha_varlen_fwd).                                   *)
Jobs ==
  {j \in [kv : [Seqs -> KvLens], prefill : [Seqs -> BOOLEAN], window : Windows,
          cap : Caps, planned : BOOLEAN, target : Targets] :
     /\ j.planned => j.cap > 1
     /\ j.cap > 1 => j.prefill = [b \in Seqs |-> FALSE]
     /\ ~j.planned => j.target = CHOOSE t \in Targets : TRUE}

Init ==
  /\ job \in Jobs
  /\ todo = Grid(job)
  /\ slot = [r \in Row |-> [s \in 0 .. job.cap - 1 |-> {}]]
  /\ phase = [r \in Row |-> [l \in Lane |-> 0]]
  /\ slm = [r \in Row |-> [l \in Lane |-> "junk"]]
  /\ out = [r \in Row |-> [l \in Lane |-> NoOutput]]

-----------------------------------------------------------------------------
Once(tiles) == [t \in Tile |-> IF t \in tiles THEN 1 ELSE 0]

(* The continues of the attention kernel: a prefill row, or no tile.       *)
Idle(b, s) == job.prefill[b] \/ Share(b, s) = {}

SkipSplit(b, h, s) ==
  /\ <<b, h, s>> \in todo
  /\ Idle(b, s)
  /\ todo' = todo \ {<<b, h, s>>}
  /\ UNCHANGED <<job, slot, phase, slm, out>>

(* The main loop over the tiles and the epilogue that publishes the slot;  *)
(* the buffer of a single split is the output itself.                      *)
AttendSplit(b, h, s) ==
  /\ <<b, h, s>> \in todo
  /\ ~Idle(b, s)
  /\ todo' = todo \ {<<b, h, s>>}
  /\ slot' = [slot EXCEPT ![<<b, h>>][s] = Share(b, s)]
  /\ out' = IF job.cap > 1 THEN out
            ELSE [out EXCEPT ![<<b, h>>] =
                    [l \in Lane |-> [times |-> Once(Share(b, s)), clean |-> TRUE]]]
  /\ UNCHANGED <<job, phase, slm>>

-----------------------------------------------------------------------------
Combined(b) == ReducedSplits(Tiles(b), Splits(job, b), job.planned)

(* The second kernel is submitted when there are several splits, and the   *)
(* in-order queue starts it when the first has ended.                      *)
Reducing == job.cap > 1 /\ todo = {}

(* Work-item l of the group of row r enters phase p + 1: a barrier has let *)
(* the whole group through.                                                *)
Together(r, l, p) == phase[r][l] = p /\ \A m \in Lane : phase[r][m] >= p

(* Mutant of LoadStat: a work-item without a split returns. *)
LoadStatOrReturn(r, l) ==
  /\ Reducing
  /\ Together(r, l, 0)
  /\ l \in Combined(r[1])
  /\ phase' = [phase EXCEPT ![r][l] = 1]
  /\ slm' = [slm EXCEPT ![r][l] = "lse"]
  /\ UNCHANGED <<job, todo, slot, out>>

(* A work-item whose split is combined puts its log-sum-exp in local       *)
(* memory.                                                                 *)
LoadStat(r, l) ==
  /\ Reducing
  /\ Together(r, l, 0)
  /\ phase' = [phase EXCEPT ![r][l] = 1]
  /\ slm' = IF l \in Combined(r[1]) THEN [slm EXCEPT ![r][l] = "lse"] ELSE slm
  /\ UNCHANGED <<job, todo, slot, out>>

(* Behind the barrier and the group reductions it replaces it by the       *)
(* split's weight.                                                         *)
Weigh(r, l) ==
  /\ Together(r, l, 1)
  /\ phase' = [phase EXCEPT ![r][l] = 2]
  /\ slm' = IF l \in Combined(r[1]) THEN [slm EXCEPT ![r][l] = "weight"] ELSE slm
  /\ UNCHANGED <<job, todo, slot, out>>

(* Behind another it adds up the combined slots, each times its weight,    *)
(* for its own elements.                                                   *)
Combine(r, l) ==
  /\ Together(r, l, 2)
  /\ phase' = [phase EXCEPT ![r][l] = 3]
  /\ LET used == Combined(r[1]) IN
     out' = [out EXCEPT ![r][l] =
       [times |-> [t \in Tile |-> Cardinality({s \in used : t \in slot[r][s]})],
        clean |-> \A s \in used : slot[r][s] # {} /\ slm[r][s] = "weight"]]
  /\ UNCHANGED <<job, todo, slot, slm>>

Attend == \E b \in Seqs, h \in Heads, s \in Lane : SkipSplit(b, h, s) \/ AttendSplit(b, h, s)
Reduce == \E r \in Row, l \in Lane : LoadStat(r, l) \/ Weigh(r, l) \/ Combine(r, l)
Next == Attend \/ Reduce

(* While a work-item of a launched kernel can go on, one does. *)
Spec == Init /\ [][Next]_vars /\ WF_vars(Next)

-----------------------------------------------------------------------------
TypeOK ==
  /\ job \in Jobs
  /\ todo \subseteq Seqs \X Heads \X (0 .. job.cap - 1)
  /\ slot \in [Row -> [0 .. job.cap - 1 -> SUBSET Tile]]
  /\ phase \in [Row -> [Lane -> 0 .. 3]]
  /\ slm \in [Row -> [Lane -> {"junk", "lse", "weight"}]]
  /\ out \in [Row -> [Lane -> {NoOutput} \cup Output]]

(* What the docstring of build_decode_split_plan and section 3 of          *)
(* docs/group_split_kv_design.md promise: every item has a tile, the items *)
(* of a sequence share out its tiles without gap or overlap, and they fit  *)
(* in the buffers.                                                         *)
PlanContract ==
  job.planned => \A b \in Seqs :
    LET n == PlannedTiles(b)
        k == Splits(job, b)
        Of(s) == PlanStart(n, k, s) .. PlanStart(n, k, s) + PlanCount(n, k, s) - 1
    IN /\ k \in 1 .. job.cap
       /\ \A s \in 0 .. k - 1 : Of(s) # {}
       /\ UNION {Of(s) : s \in 0 .. k - 1} = 0 .. n - 1
       /\ \A s, u \in 0 .. k - 1 : s # u => Of(s) \cap Of(u) = {}

(* No output is made from a slot this launch left as allocated, or with    *)
(* local memory that is not yet the split's weight: the splits the         *)
(* reduction combines are those the attention kernel published, whichever  *)
(* of them computed the plan (ReduceSplitK, plan_driven).                  *)
CleanOutput == \A r \in Row, l \in Lane : out[r][l] # NoOutput => out[r][l].clean

(* Every tile a query can see counts exactly once in every element of its  *)
(* output, however the tiles were split and in whatever order the splits   *)
(* ran.                                                                    *)
Attention ==
  INSTANCE SplitAttention WITH
    Element <- Lane,
    owed <- {r \in Row : ~job.prefill[r[1]]},
    seen <- [r \in Row |-> Visible(job.kv[r[1]], job.window)],
    out <- [r \in Row |-> [l \in Lane |->
              IF out[r][l] = NoOutput THEN NoOutput ELSE out[r][l].times]]
AttendedOnce == Attention!AttnSpec

(* The launch ends, and every row it was to compute has its output; a      *)
(* sequence without tokens may have none when nothing is reduced.          *)
Answered ==
  <>(/\ todo = {}
     /\ \A r \in Row : job.prefill[r[1]] \/ \A l \in Lane :
          out[r][l] # NoOutput \/ (job.cap = 1 /\ job.kv[r[1]] = 0))
=============================================================================
