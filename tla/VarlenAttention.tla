--------------------------- MODULE VarlenAttention --------------------------
(***************************************************************************)
(* mha_varlen_fwd (csrc/flash_attn/flash_api.cpp): attention over a ragged *)
(* batch of query tokens and a dense or paged KV cache, as the launches it *)
(* makes of the chunk-prefill and the decode kernel                        *)
(* (csrc/xpu/attn/xe_2/kernel/chunk_prefill_kernel.hpp,                    *)
(* kernel/paged_decode_kernel.hpp, and their collectives).                 *)
(*                                                                         *)
(* A work-group owns some rows of queries for a block of the output's      *)
(* columns; its sub-groups go through the K tiles in step, a barrier to    *)
(* each tile.  In the prefill kernel a sub-group has rows of its own; in   *)
(* the decode kernel it has columns of every tile, and the partial results *)
(* are reduced through local memory.  A decode launch with several splits  *)
(* is PagedDecode's; here it has one.                                      *)
(*                                                                         *)
(* Of the values only the scores matter, small integers that stand for the *)
(* base-2 exponents: an accumulator is the set of its terms, each a tile,  *)
(* the key it came from and its exponent relative to the running maximum.  *)
(***************************************************************************)
EXTENDS AttentionTiles

CONSTANTS
  Calls,        (* bound of the inputs: the calls made                     *)
  PrefillSgs,   (* sub-groups of a prefill work-group: SubgroupLayoutQK    *)
  QPacked       (* query heads a decode work-group packs into its rows     *)

VARIABLES
  call,         (* the arguments of mha_varlen_fwd                         *)
  pending,      (* the kernels it is still to launch                       *)
  args,         (* the arguments of the current launch                     *)
  group,        (* work-groups of the current launch that have ended       *)
  wg,           (* the work-group that runs, <<>> for none                 *)
  sg,           (* its sub-groups                                          *)
  shared,       (* local memory: what each sub-group put there             *)
  o,            (* values stored in each element of the output             *)
  lse           (* values stored in softmax_lse                            *)

varlenVars == <<call, pending, args, group, wg, sg, shared, o, lse>>

-----------------------------------------------------------------------------
HeadGroup(c) == c.heads \div c.kvheads
Batch(c) == DOMAIN c.kv
Tokens(c) == 0 .. c.cuq[Len(c.cuq)] - 1

(* The score of a query and a key, made up but fixed; the sink's logit. *)
Sink == -2
Score(query, key) ==
  IF key[2] = Sink THEN 2 ELSE IF key[2] = ZeroRow THEN 0
  ELSE (query + key[1] + key[2] * key[2]) % 5
Lowest == -100

-----------------------------------------------------------------------------
(* The launches a call makes: everything to prefill unless the batch is    *)
(* mixed; then each kernel has the sequences the mask leaves it; a batch   *)
(* of single tokens goes to decode.  The prefill kernel's softmax_lse is   *)
(* refused with a window or a sink before anything is launched.            *)
Mixed(c) == c.paged /\ c.mix /\ MaxQuery(c) > 1
Launches(c) ==
  LET prefillOnly == (~c.mix /\ MaxQuery(c) > 1) \/ ~c.paged
  IN IF (prefillOnly \/ MaxQuery(c) > 1) /\ c.lse /\ (IsLocal(c) \/ c.sink) THEN <<>>
     ELSE IF prefillOnly THEN <<"prefill">>
     ELSE IF Mixed(c) THEN <<"prefill", "decode">>
     ELSE <<"decode">>

(* What a kernel is launched with: its tile policy, its window and its     *)
(* grid of blocks of columns, blocks of rows, heads and sequences.         *)
PrefillArgs(c) ==
  [prefill |-> TRUE, masked |-> Mixed(c), local |-> IsLocal(c), causal |-> c.causal /\ ~IsLocal(c),
   left |-> WindowLeft(c), right |-> WindowRight(c, TRUE),
   tk |-> PrefillTile(c), sgs |-> PrefillSgs, tileQ |-> PrefillSgs * c.rows,
   gridQ |-> CeilDiv(MaxQuery(c), PrefillSgs * c.rows), heads |-> c.heads]
DecodeArgs(c) ==
  LET sgs == DecodeSubgroups(c.page)
  IN [prefill |-> FALSE, masked |-> Mixed(c), local |-> IsLocal(c), causal |-> FALSE,
      left |-> WindowLeft(c), right |-> WindowRight(c, FALSE),
      tk |-> sgs * SgSize, sgs |-> sgs, tileQ |-> QPacked,
      gridQ |-> CeilDiv(HeadGroup(c), QPacked), heads |-> c.kvheads]

(* get_block_coord: the work-group the grid's index g stands for. *)
BlockCoord(g) ==
  LET z == g \div (call.vblocks * args.gridQ)
      head == z % args.heads
      b == (z \div args.heads) + 1
      blkQ == (g \div call.vblocks) % args.gridQ
  IN [blkV |-> g % call.vblocks, blkQ |-> blkQ, head |-> head, b |-> b,
      first |-> blkQ * args.tileQ,
      kvHead |-> IF args.prefill THEN head \div HeadGroup(call) ELSE head,
      off |-> call.kv[b] - (IF args.prefill THEN QueryLength(call, b)
                            ELSE Least(QueryLength(call, b), call.kv[b]))]
Groups == call.vblocks * args.gridQ * args.heads * Len(call.kv)

(* A work-group with nothing to do: the other kernel's sequence, no query  *)
(* row, no packed head or no key.                                          *)
Skipped(w) ==
  LET q == QueryLength(call, w.b)
  IN IF args.prefill
     THEN (args.masked /\ q <= 1) \/ w.first >= q
     ELSE (args.masked /\ q > 1) \/ w.first >= HeadGroup(call) \/ call.kv[w.b] = 0

-----------------------------------------------------------------------------
Empty == [max |-> Lowest, a |-> {}, s |-> {}]
Rows == 0 .. (IF args.prefill THEN call.rows ELSE QPacked) - 1
Sgs == 0 .. args.sgs - 1
NoShare == [max |-> <<>>, rest |-> <<>>]

VarlenIdle ==
  /\ call = <<>> /\ pending = <<>>
  /\ args = <<>> /\ group = 0 /\ wg = <<>> /\ sg = <<>> /\ shared = <<>>
  /\ o = <<>> /\ lse = <<>>

VarlenInit ==
  /\ call \in Calls
  /\ pending = Launches(call)
  /\ args = <<>> /\ group = 0 /\ wg = <<>> /\ sg = <<>> /\ shared = <<>>
  /\ o = [t \in Tokens(call) \X (0 .. call.heads - 1) \X (0 .. call.vblocks - 1) |-> {}]
  /\ lse = [t \in Tokens(call) \X (0 .. call.heads - 1) |-> {}]

Launch ==
  /\ args = <<>> /\ pending # <<>>
  /\ args' = IF pending[1] = "prefill" THEN PrefillArgs(call) ELSE DecodeArgs(call)
  /\ pending' = Tail(pending)
  /\ UNCHANGED <<call, group, wg, sg, shared, o, lse>>

(* The queue is in order: the next kernel waits for the last work-group.   *)
NextGroup ==
  /\ group' = IF group + 1 < Groups THEN group + 1 ELSE 0
  /\ args' = IF group + 1 < Groups THEN args ELSE <<>>

SkipGroup ==
  /\ args # <<>> /\ wg = <<>>
  /\ Skipped(BlockCoord(group))
  /\ NextGroup
  /\ UNCHANGED <<call, pending, wg, sg, shared, o, lse>>

(* The physical tile of tile K, looked up one iteration ahead. *)
TileAt(b, K) ==
  IF ~call.paged THEN K
  ELSE IF args.prefill THEN PagedTile(call, b, K, args.tk)
  ELSE NextDecodeTile(call, b, K, args.tk)

(* The bounds are reduced over the work-group, so all its sub-groups enter *)
(* the loop together.                                                      *)
EnterGroup ==
  /\ args # <<>> /\ wg = <<>>
  /\ ~Skipped(BlockCoord(group))
  /\ wg' = BlockCoord(group)
  /\ LET b == wg'.b
         bound == IF args.prefill THEN GroupBounds(call, args, b, wg'.first)
                  ELSE DecodeBounds(call, args, b)
     IN sg' = [s \in Sgs |-> [stage |-> "loop", bound |-> bound[s], K |-> bound[s].k0,
                 tile |-> TileAt(b, bound[s].k0), barriers |-> 0, acc |-> [r \in Rows |-> Empty]]]
  /\ shared' = [s \in Sgs |-> NoShare]
  /\ UNCHANGED <<call, pending, args, group, o, lse>>

-----------------------------------------------------------------------------
(* A barrier lets sub-group s through when all have arrived at it. *)
Through(s) == \A t \in Sgs : sg[t].barriers >= sg[s].barriers

(* The keys in the columns of a tile; a large surface is routed to the     *)
(* sub-surface that holds the tile.                                        *)
Keys(tile) ==
  LET per == TilesPerSurface(call, args.tk)
      rows == IF call.paged /\ Large(call, wg.b)
              THEN RowsOf(call, wg.b, tile \div per, tile % per, args.tk)
              ELSE RowsOf(call, wg.b, -1, tile, args.tk)
  IN [i \in DOMAIN rows |-> <<wg.kvHead, rows[i]>>]

(* The query row r of sub-group s is: its head, and its position among the *)
(* sequence's.                                                             *)
Position(s, r) == IF args.prefill THEN wg.first + s * call.rows + r ELSE 0
HeadOf(r) == IF args.prefill THEN wg.head ELSE wg.head * HeadGroup(call) + wg.first + r
Query(s, r) == HeadOf(r) + Position(s, r)

(* The columns of tile K row r of sub-group s sees. *)
Seen(s, r, K) ==
  IF args.prefill
  THEN {i \in 0 .. args.tk - 1 : ~PrefillMasked(args, sg[s].bound, wg.off, K, Position(s, r), i)}
  ELSE {i \in s * SgSize .. (s + 1) * SgSize - 1 : ~DecodeMasked(args, sg[s].bound, wg.off, K, i)}

Rescaled(terms, by) == {<<t[1], t[2], t[3] + by>> : t \in terms}

(* One step of the blocked softmax: the maximum moves, what has been       *)
(* summed up is rescaled unless this is the first tile, the tile's terms   *)
(* are added.  (The singleton sets, here and in AttendTile, have TLC work  *)
(* a value out once.)                                                      *)
Softmax(acc, query, keys, K, isFirst) ==
  LET Add(terms, max) ==
        Rescaled(terms, IF isFirst THEN 0 ELSE acc.max - max)
          \cup {<<K, k, Score(query, k) - max>> : k \in keys}
      moved == Max({acc.max} \cup {Score(query, k) : k \in keys})
  IN CHOOSE next \in {[max |-> m, a |-> Add(acc.a, m), s |-> Add(acc.s, m)] : m \in {moved}} : TRUE

AttendTile(s) ==
  /\ sg[s].stage = "loop" /\ sg[s].K < sg[s].bound.k1
  /\ Through(s)
  /\ \E key \in {Keys(IF Large(call, wg.b) /\ args.prefill THEN TileAt(wg.b, sg[s].K) ELSE sg[s].tile)} :
       LET K == sg[s].K
       IN sg' = [sg EXCEPT ![s].K = K + 1, ![s].tile = TileAt(wg.b, K + 1), ![s].barriers = @ + 1,
                   ![s].acc = [r \in Rows |->
                      Softmax(@[r], Query(s, r), {key[i] : i \in Seen(s, r, K)}, K, K = sg[s].bound.k0)]]
  /\ UNCHANGED <<call, pending, args, group, wg, shared, o, lse>>

-----------------------------------------------------------------------------
(* The sink joins the denominator only. *)
WithSink(terms, query, max) ==
  IF call.sink THEN terms \cup {<<-1, <<0, Sink>>, Score(query, <<0, Sink>>) - max>>} ELSE terms

Value(acc, query) == [a |-> acc.a, s |-> WithSink(acc.s, query, acc.max)]
LseValue(acc, query) == Rescaled(WithSink(acc.s, query, acc.max), acc.max)

Loaded(s) == sg[s].stage = "loop" /\ sg[s].K = sg[s].bound.k1 /\ Through(s)

(* Rows of sub-group s store their values: value[r] is that of row r, and  *)
(* out and stats those that store an element and a log-sum-exp.            *)
Store(s, value, out, stats) ==
  LET token(r) == call.cuq[wg.b] + Position(s, r)
  IN /\ o' = [t \in DOMAIN o |-> o[t] \cup
                {Value(value[r], Query(s, r)) : r \in
                   {r \in out : t = <<token(r), HeadOf(r), wg.blkV>>}}]
     /\ lse' = [t \in DOMAIN lse |-> lse[t] \cup
                  {LseValue(value[r], Query(s, r)) : r \in
                     {r \in stats : call.lse /\ t = <<token(r), HeadOf(r)>>}}]

(* The loop of a prefill sub-group is over: it stores its rows that are    *)
(* queries, and for the first block of columns their log-sum-exp.          *)
StoreRows(s) ==
  /\ args.prefill
  /\ Loaded(s)
  /\ sg' = [sg EXCEPT ![s].stage = "done"]
  /\ LET mine == {r \in Rows : Position(s, r) < QueryLength(call, wg.b)}
     IN Store(s, sg[s].acc, mine, IF wg.blkV = 0 THEN mine ELSE {})
  /\ UNCHANGED <<call, pending, args, group, wg, shared>>

-----------------------------------------------------------------------------
(* reduce_A of the decode kernel: the maxima go to local memory, behind    *)
(* one barrier the sums and accumulators follow, behind another they are   *)
(* all there to be read.  (A single sub-group skips this; going through    *)
(* the steps alone it keeps its values.)                                   *)
PutMax(s) ==
  /\ ~args.prefill
  /\ Loaded(s)
  /\ shared' = [shared EXCEPT ![s].max = [r \in Rows |-> sg[s].acc[r].max]]
  /\ sg' = [sg EXCEPT ![s].stage = "rest", ![s].barriers = @ + 1]
  /\ UNCHANGED <<call, pending, args, group, wg, o, lse>>

PutRest(s) ==
  /\ sg[s].stage = "rest"
  /\ shared' = [shared EXCEPT ![s].rest = [r \in Rows |-> sg[s].acc[r]]]
  /\ sg' = [sg EXCEPT ![s].stage = "max"]
  /\ UNCHANGED <<call, pending, args, group, wg, o, lse>>

TakeMax(s) ==
  /\ sg[s].stage = "max"
  /\ Through(s)
  /\ sg' = [sg EXCEPT ![s].stage = "merge", ![s].barriers = @ + 1,
              ![s].acc = [r \in Rows |-> [Empty EXCEPT !.max = Max({shared[t].max[r] : t \in Sgs})]]]
  /\ UNCHANGED <<call, pending, args, group, wg, shared, o, lse>>

(* The rows of the output sub-group s stores. *)
SubTile(s) == {r \in Rows : r \div (QPacked \div Cardinality(Sgs)) = s}

(* It merges the parts, each brought to the common maximum, and stores its *)
(* share of the rows that are heads of the group; the first sub-group's    *)
(* lanes report the log-sum-exp of every row.                              *)
MergeRows(s) ==
  /\ sg[s].stage = "merge"
  /\ Through(s)
  /\ sg' = [sg EXCEPT ![s].stage = "done"]
  /\ LET by(t, r) == shared[t].max[r] - sg[s].acc[r].max
         merged == [r \in Rows |->
           [max |-> sg[s].acc[r].max,
            a |-> UNION {Rescaled(shared[t].rest[r].a, by(t, r)) : t \in Sgs},
            s |-> UNION {Rescaled(shared[t].rest[r].s, by(t, r)) : t \in Sgs}]]
         mine == {r \in Rows : wg.first + r < HeadGroup(call)}
     IN Store(s, merged, mine \cap SubTile(s), IF s = 0 THEN mine ELSE {})
  /\ UNCHANGED <<call, pending, args, group, wg, shared>>

EndGroup ==
  /\ wg # <<>> /\ \A s \in Sgs : sg[s].stage = "done"
  /\ NextGroup
  /\ wg' = <<>> /\ sg' = <<>> /\ shared' = <<>>
  /\ UNCHANGED <<call, pending, o, lse>>

SubgroupStep ==
  /\ wg # <<>>
  /\ \E s \in Sgs : \/ AttendTile(s) \/ StoreRows(s)
                     \/ PutMax(s) \/ PutRest(s) \/ TakeMax(s) \/ MergeRows(s)

VarlenNext == Launch \/ SkipGroup \/ EnterGroup \/ SubgroupStep \/ EndGroup

VarlenSpec == VarlenInit /\ [][VarlenNext]_varlenVars /\ WF_varlenVars(VarlenNext)

-----------------------------------------------------------------------------
(* What the call owes a query: the sequence of token t, and the keys its   *)
(* mask allows, wherever they are stored.                                  *)
SequenceOf(c, t) == CHOOSE b \in Batch(c) : c.cuq[b] <= t /\ t < c.cuq[b + 1]

Wanted(c, t, h) ==
  LET b == SequenceOf(c, t)
      at == c.kv[b] - QueryLength(c, b) + t - c.cuq[b]
      visible == {p \in 0 .. c.kv[b] - 1 :
                    /\ c.causal => p <= at
                    /\ c.left # -1 => p >= at - c.left
                    /\ c.right # -1 => p <= at + c.right}
  IN {<<h \div HeadGroup(c),
        IF c.paged THEN c.table[b][(p \div c.page) + 1] * c.stride + (p % c.page)
        ELSE c.cuk[b] + p>> : p \in visible}

(* Terms that weigh each key of `keys` once, relative to maximum max. *)
Weighs(terms, keys, query, max) ==
  /\ {<<t[2], t[3]>> : t \in terms} = {<<k, Score(query, k) - max>> : k \in keys}
  /\ Cardinality(terms) = Cardinality(keys)

(* Every token's row of every head and column block is stored, with one    *)
(* value: the softmax-weighted sum over exactly the keys its causal or     *)
(* window mask allows, found through its own page table, each key once,    *)
(* every exponent relative to the same maximum, the sink in the            *)
(* denominator only; the log-sum-exp is that of the same keys.  This holds *)
(* whichever kernel the batch sends a sequence to, however its sub-groups  *)
(* interleave, and when work-groups widen their range of tiles for one     *)
(* another; a refused call stores nothing.                                 *)
RowsAttended ==
  <>(/\ pending = <<>> /\ args = <<>>
     /\ \A t \in DOMAIN o :
          IF Launches(call) = <<>> THEN o[t] = {} ELSE
            \E v \in o[t] :
              /\ o[t] = {v}
              /\ LET keys == Wanted(call, t[1], t[2])
                     query == t[2] + t[1] - call.cuq[SequenceOf(call, t[1])]
                     max == Max({Score(query, k) : k \in keys})
                     sink == IF call.sink THEN {<<0, Sink>>} ELSE {}
                 IN /\ Weighs(v.a, keys, query, max)
                    /\ Weighs(v.s, keys \cup sink, query, max)
                    /\ lse[<<t[1], t[2]>>] = {} <=> ~call.lse
                    /\ \A l \in lse[<<t[1], t[2]>>] : Weighs(l, keys \cup sink, query, 0))
=============================================================================
