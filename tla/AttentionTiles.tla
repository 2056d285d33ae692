--------------------------- MODULE AttentionTiles ---------------------------
(***************************************************************************)
(* Which keys a sub-group of the varlen attention kernels loads, and which *)
(* of them it masks: the tile policies, the page table, the sub-surfaces   *)
(* of a cache too tall for one 2D descriptor, the range of K tiles and the *)
(* causal, local and remainder masks (csrc/xpu/attn/xe_2: fmha_xe2.cpp,    *)
(* kernel/chunk_prefill_kernel.hpp, collective/chunk_prefill_mainloop.hpp, *)
(* and attn/paged_kv_utils.h, attn/fmha_utils.hpp).                        *)
(*                                                                         *)
(* c is a call of mha_varlen_fwd (see VarlenAttention), b one of its       *)
(* sequences, a the arguments of the launch, tk the width of a K tile; a   *)
(* physical row of K and V stands for the key stored there, and a row the  *)
(* hardware returns as zeros is ZeroRow.                                   *)
(***************************************************************************)
EXTENDS DecodePlan, Sequences, FiniteSetsExt

CONSTANTS
  SgSize,       (* intel::sg_size; pages and tiles are multiples of it     *)
  SurfaceRows   (* kXeMaxSurfaceRows                                       *)

ASSUME SgSizeAssumption == SgSize \in Nat \ {0}
ASSUME SurfaceRowsAssumption == SurfaceRows \in Nat \ {0}

-----------------------------------------------------------------------------
(* The tile policies. *)
PrefillTile(c) ==
  IF c.paged /\ c.page # 2 * SgSize /\ c.page % (4 * SgSize) # 0
  THEN SgSize ELSE 2 * SgSize
DecodeSubgroups(page) ==
  IF page % (4 * SgSize) = 0 THEN 4 ELSE IF page = 2 * SgSize THEN 2 ELSE 1

QueryLength(c, b) == c.cuq[b + 1] - c.cuq[b]
MaxQuery(c) == Max({QueryLength(c, b) : b \in DOMAIN c.kv})
MaxKeys(c) == Max({c.kv[b] : b \in DOMAIN c.kv})

(* The window a launch works with: an open side is as wide as the longest  *)
(* sequence; the prefill kernel turns causality into a window that is      *)
(* closed on the right, and decode needs none.                             *)
IsLocal(c) == c.left # -1 \/ c.right # -1
WindowLeft(c) == IF c.left = -1 THEN MaxKeys(c) ELSE c.left
WindowRight(c, prefill) ==
  IF c.causal /\ prefill THEN 0 ELSE IF c.right = -1 THEN MaxKeys(c) ELSE c.right

-----------------------------------------------------------------------------
(* Where keys are. *)
ZeroRow == -1

(* The rows of the surface of a sequence: all of a paged cache up to the   *)
(* last row of its last page, though pages lie page_stride_elements apart. *)
TotalRows(c, b) ==
  IF c.paged THEN Most(c.blocks * c.page, (c.blocks - 1) * c.stride + c.page) ELSE c.kv[b]

(* get_paged_idx: the physical tile of tile K of a sequence. *)
PagedTile(c, b, K, tk) ==
  LET page == Least((K * tk) \div c.page, Len(c.table[b]) - 1)
  IN c.table[b][page + 1] * (c.stride \div tk) + (K % (c.page \div tk))

(* The decode loop's version looks the tile after the last page up in none *)
(* and takes the last tile of as many pages.                               *)
NextDecodeTile(c, b, K, tk) ==
  LET page == (K * tk) \div c.page
  IN IF page < Len(c.table[b])
     THEN c.table[b][page + 1] * (c.stride \div tk) + (K % (c.page \div tk))
     ELSE Len(c.table[b]) * (c.page \div tk) - 1

(* A surface of more than SurfaceRows rows is split at pages. *)
Large(c, b) == TotalRows(c, b) > SurfaceRows
TilesPerSurface(c, tk) == Most(SurfaceRows \div c.stride, 1) * (c.stride \div tk)

(* make_k_surface, make_v_surface: the rows sub-surface n has. *)
RowsOfSurface(c, b, n, tk) ==
  LET rows == TilesPerSurface(c, tk) * tk
  IN Most(1, Least(TotalRows(c, b) - n * rows, rows))

(* The rows the columns of tile `local` of a sub-surface show; of surface  *)
(* -1, of the whole.                                                       *)
RowsOf(c, b, surface, local, tk) ==
  LET first == IF surface <= 0 THEN 0 ELSE surface * TilesPerSurface(c, tk) * tk
      rows == IF surface = -1 THEN TotalRows(c, b) ELSE RowsOfSurface(c, b, surface, tk)
      base == first + (IF c.paged THEN 0 ELSE c.cuk[b])
  IN [i \in 0 .. tk - 1 |-> IF local * tk + i < rows THEN base + local * tk + i ELSE ZeroRow]

-----------------------------------------------------------------------------
(* The K tiles sub-group s of a prefill work-group needs, and where its    *)
(* masks begin and end; rows is the number of query rows it has and first  *)
(* the first row of the work-group.                                        *)
SgBounds(c, a, b, first, s) ==
  LET off == c.kv[b] - QueryLength(c, b)
      coord == Least(QueryLength(c, b), first + s * c.rows)
      len == IF a.local THEN Least(c.kv[b], off + coord + c.rows + a.right)
             ELSE IF a.causal THEN Least(c.kv[b], off + coord + c.rows)
             ELSE c.kv[b]
  IN [k0 |-> IF a.local THEN Most(coord + off - a.left, 0) \div a.tk ELSE 0,
      k1 |-> CeilDiv(len, a.tk),
      len |-> len,
      causal |-> IF a.causal THEN (coord + off) \div a.tk ELSE 0,
      lsafe |-> IF a.local THEN CeilDiv(Most(coord + c.rows - 1 + off - a.left, 0), a.tk) ELSE 0,
      rsafe |-> IF a.local THEN (coord + off + a.right + 1) \div a.tk - 1 ELSE 0]

(* Mutant of GroupBounds: each sub-group runs its own trip count. *)
GroupBoundsOwn(c, a, b, first) == [s \in 0 .. a.sgs - 1 |-> SgBounds(c, a, b, first, s)]

(* The bounds each of the sub-groups works with once they are reduced over *)
(* the work-group; only a local mask shares the length as well.            *)
GroupBounds(c, a, b, first) ==
  LET own == [s \in 0 .. a.sgs - 1 |-> SgBounds(c, a, b, first, s)]
      all == {own[s] : s \in 0 .. a.sgs - 1}
  IN [s \in 0 .. a.sgs - 1 |->
       [k0 |-> Min({x.k0 : x \in all}),
        k1 |-> Max({x.k1 : x \in all}),
        len |-> IF a.local THEN Max({x.len : x \in all}) ELSE own[s].len,
        causal |-> Min({x.causal : x \in all}),
        lsafe |-> Max({x.lsafe : x \in all}),
        rsafe |-> Min({x.rsafe : x \in all})]]

(* The tiles of a decode sequence: its query is the last position.         *)
DecodeBounds(c, a, b) ==
  [s \in 0 .. a.sgs - 1 |->
    [k0 |-> IF a.local THEN Most(c.kv[b] - 1 - a.left, 0) \div a.tk ELSE 0,
     k1 |-> CeilDiv(c.kv[b], a.tk), len |-> c.kv[b]]]

(* Whether a query row does not see column i of tile K: the causal mask    *)
(* from the first tile any sub-group needs it in, the remainder in the     *)
(* last tile, the window where a tile may cross it; off is the position of *)
(* row 0.                                                                  *)
PrefillMasked(a, bound, off, K, row, i) ==
  LET col == K * a.tk + i
  IN \/ a.causal /\ K >= bound.causal /\ row < col - off
     \/ bound.len % a.tk # 0 /\ K = bound.k1 - 1 /\ col >= bound.len
     \/ /\ a.local
        /\ (K < bound.lsafe \/ K > bound.rsafe)
        /\ (col - off < row - a.left \/ col - off > row + a.right)

(* In decode the window is around the last position, whatever the row.     *)
DecodeMasked(a, bound, off, K, i) ==
  LET col == K * a.tk + i
      at == bound.len - 1 - off
  IN \/ a.local /\ (col - off < at - a.left \/ col - off > at + a.right)
     \/ bound.len % a.tk # 0 /\ K = bound.k1 - 1 /\ col >= bound.len
=============================================================================
