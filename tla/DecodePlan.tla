----------------------------- MODULE DecodePlan -----------------------------
(***************************************************************************)
(* How the KV tiles of one decode sequence are shared out among split-K    *)
(* work-groups, three times over: by the host plan                         *)
(* (build_decode_split_plan in vllm_xpu_kernels/flash_attn_interface.py),  *)
(* by the attention kernel when it has no plan, and by the reduction       *)
(* kernel when it has to know which splits wrote anything (both in         *)
(* csrc/xpu/attn/xe_2/kernel/paged_decode_kernel.hpp).                     *)
(*                                                                         *)
(* n is the number of tiles inside the sequence's window and k its number  *)
(* of splits; tile numbers are relative to the first tile of the window.   *)
(***************************************************************************)
EXTENDS Integers, FiniteSets

CONSTANTS
  KvTile,             (* get<1>(TileShapeQK): tokens of a tile             *)
  MinBlocksForSplit   (* kMinBlocksForSplit, _min_blocks_for_split         *)

ASSUME TileAssumption == KvTile \in Nat \ {0}
ASSUME MinBlocksAssumption == MinBlocksForSplit \in Nat

CeilDiv(a, b) == (a + b - 1) \div b
Least(a, b) == IF a <= b THEN a ELSE b
Most(a, b) == IF a <= b THEN b ELSE a

-----------------------------------------------------------------------------
(* The tiles of a sequence of kv tokens.  The query stands at position     *)
(* kv - 1, so a left window makes the tiles before KBlock0 unreachable;    *)
(* window is -1 when there is none.                                        *)
KBlocks(kv) == CeilDiv(kv, KvTile)
KBlock0(kv, window) ==
  IF window >= 0 THEN Most(kv - 1 - window, 0) \div KvTile ELSE 0
WindowedBlocks(kv, window) == KBlocks(kv) - KBlock0(kv, window)

(* _windowed_tiles: the plan gives even an empty sequence a tile. *)
PlanTiles(kv, window) == Most(1, WindowedBlocks(kv, window))

(* The tiles a query really sees. *)
Visible(kv, window) == KBlock0(kv, window) .. KBlocks(kv) - 1

-----------------------------------------------------------------------------
(* Mutant of PlanSplits: the cap on the number of splits is forgotten. *)
PlanSplitsUncapped(n, target, cap) ==
  IF n <= target \/ n < MinBlocksForSplit \/ cap <= 1 THEN 1 ELSE Least(CeilDiv(n, target), n)

(* n_splits of build_decode_split_plan: target is target_tiles_per_wg and  *)
(* cap num_kv_splits.                                                      *)
PlanSplits(n, target, cap) ==
  IF n <= target \/ n < MinBlocksForSplit \/ cap <= 1
  THEN 1
  ELSE Least(CeilDiv(n, target), Least(cap, n))

(* Mutant of PlanCount: one split too many takes a tile of the remainder. *)
PlanCountOff(n, k, s) == n \div k + IF s <= n % k THEN 1 ELSE 0

(* kv_tile_count of split s: base tiles, one more for the first rem.       *)
PlanCount(n, k, s) == n \div k + IF s < n % k THEN 1 ELSE 0

(* kv_tile_start of split s: the counts before it, summed up.              *)
PlanStart(n, k, s) == s * (n \div k) + Least(s, n % k)

-----------------------------------------------------------------------------
(* The attention kernel without a plan: one split for a short sequence,    *)
(* else equal shares rounded up, which can leave the last splits nothing.  *)
LegacySingle(n, k) == k > 1 /\ n < MinBlocksForSplit
LegacyShare(n, k) == CeilDiv(n, k)
LegacyStart(n, k, s) == IF LegacySingle(n, k) THEN 0 ELSE s * LegacyShare(n, k)
LegacyCount(n, k, s) ==
  IF LegacySingle(n, k)
  THEN IF s = 0 THEN n ELSE 0
  ELSE Least(n - s * LegacyShare(n, k), LegacyShare(n, k))

-----------------------------------------------------------------------------
(* Mutant of ReducedSplits: the reducer without a plan reads every split.  *)
ReducedSplitsAll(n, k, planned) == 0 .. k - 1

(* Mutant of ReducedSplits: the reducer finds the empty splits the same    *)
(* way whether or not there is a plan.                                     *)
ReducedSplitsGuessed(n, k, planned) ==
  {s \in 0 .. (IF ~planned /\ LegacySingle(n, k) THEN 0 ELSE k - 1) : s * LegacyShare(n, k) < n}

(* The splits the reduction kernel combines: all of a plan's; without one, *)
(* those the share of the attention kernel leaves something.               *)
ReducedSplits(n, k, planned) ==
  IF planned THEN 0 .. k - 1
  ELSE {s \in 0 .. (IF LegacySingle(n, k) THEN 0 ELSE k - 1) : s * LegacyShare(n, k) < n}
=============================================================================
