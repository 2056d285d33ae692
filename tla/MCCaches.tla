------------------------------ MODULE MCCaches ------------------------------
(***************************************************************************)
(* What keeps the state of sequences, one machine beside the other: the    *)
(* gated delta net layer over its caches, with symbolic values; one        *)
(* work-group of its chunked rule against the sequential one, with         *)
(* numbers; the pages of the KV cache; copies of blocks to the host and    *)
(* back; and the operators over rows and over pairs of rotary elements,    *)
(* two of which fill the cache.  A behaviour is of one of them.            *)
(***************************************************************************)
EXTENDS GdnAttention, GdnChunk, MemCpy, KvCache, RowKernels, Rotary, TLC

VARIABLE machine

(* A batch of one partial chunk; an entry of two chunks, the last partial, *)
(* after one of one token.                                                 *)
MCLens == {<<3>>, <<1, 10>>}

LayerIdle ==
  /\ conv = <<>> /\ ssm = <<>> /\ call = NoCall /\ mid = <<>> /\ tmp = <<>> /\ out = <<>> /\ z = <<>>
  /\ queue = <<>> /\ todo = {} /\ said = [s \in Seqs |-> <<>>] /\ acc = [s \in Seqs |-> 1] /\ spec = {}
  /\ calls = MaxCalls

ChunkIdle ==
  /\ given = [lens |-> <<1>>, init |-> <<FALSE>>, bmg |-> FALSE, seed |-> 0, me |-> 1, cut |-> "rows"]
  /\ tok = 0 /\ stateN = <<>> /\ outN = <<>> /\ stage = "idle" /\ block = 1 /\ gCum = <<>>
  /\ bufA = <<>> /\ bufW = <<>> /\ bufU = <<>> /\ gSlm = <<>> /\ gMultiSlm = <<>> /\ gExpSlm = <<>>
  /\ regs = <<>> /\ chunkState = <<>> /\ answer = <<>> /\ pos = <<>>

(* Blocks of two tensors: an entry of zero bytes before two that exchange  *)
(* the blocks (within a device the second copy reads what the first wrote).*)
MCMaps == {<<<<1, 1, 0>>, <<1, 2, 1>>, <<2, 1, 1>>>>}

Store0(layout, shift) ==
  [layout |-> layout, fp8 |-> FALSE, shift |-> shift, splits |-> 0, tables |-> <<<<2, 0>>, <<1>>>>,
   context |-> <<3, 1>>, pads |-> 1, starts |-> <<0, 0>>, lengths |-> <<0, 0>>]
Gather0(fp8, splits, pads, starts, lengths) ==
  [layout |-> "mla", fp8 |-> fp8, shift |-> 0, splits |-> splits, tables |-> <<<<2, 0>>, <<1, 3>>>>,
   context |-> <<4, 3>>, pads |-> pads, starts |-> starts, lengths |-> lengths]

(* Two sequences whose pages are out of order, the last in part, and       *)
(* padding: aligned and not; gathered whole, in part and from a start in   *)
(* the middle of a page, over fewer and more splits than pages.            *)
MCKvCalls ==
  {Store0(layout, shift) : layout \in {"paged", "flash", "strided"}, shift \in 0 .. 1} \cup
  {Gather0(TRUE, n, 1, starts, <<2, 1>>) : n \in {0, 2}, starts \in {<<0, 0>>, <<1, 2>>}} \cup
  {Gather0(FALSE, n, 0, <<0, 0>>, <<3, 3>>) : n \in {0, 1, 2, 4}} \cup
  {[Store0("indexer", 0) EXCEPT !.lengths = <<3, 1>>]}

MCFp8Calls == {[Store0(layout, 0) EXCEPT !.fp8 = TRUE] : layout \in {"paged", "flash", "strided"}}

(* Small calls of the row operators.                                       *)
RowOp(op, shape, strides, len) ==
  [op |-> op, shape |-> shape, strides |-> strides, len |-> len, skew |-> {}, add |-> FALSE,
   weight |-> "none", bias |-> FALSE, group |-> len, transposed |-> FALSE, scaleShape |-> <<1, 1>>, scaleRank |-> 1]
Weighted(c) == [c EXCEPT !.weight = "row"]

MCRowCalls ==
  \* rms_norm: vectors over all work-items and more, several rows per group, a stacked weight,
  \* padded rows, and what keeps it from vectors: a skewed tensor, an odd stride, an odd length.
  {Weighted(RowOp("rms_norm", <<2>>, <<len>>, len)) : len \in {4, 5, 6, 10}}
  \cup {RowOp("rms_norm", <<2, 2>>, <<10, 4>>, 4), RowOp("rms_norm", <<3>>, <<6>>, 4),
        RowOp("rms_norm", <<2>>, <<5>>, 4), RowOp("rms_norm", <<2, 1, 2>>, <<9, 9, 4>>, 4)}
  \cup {[RowOp("rms_norm", <<2, 2>>, <<9, 4>>, 4) EXCEPT !.weight = "stacked"],
        [RowOp("rms_norm", <<2, 1, 2>>, <<8, 8, 4>>, 4) EXCEPT !.weight = "stacked"]}
  \cup {[Weighted(RowOp("rms_norm", <<2>>, <<4>>, 4)) EXCEPT !.skew = {t}] : t \in {"in", "out", "weight"}}
  \* the adds and the layer norms
  \cup {[Weighted(RowOp(op, <<2>>, <<len + 2>>, len)) EXCEPT !.skew = skew] :
          op \in {"fused_add_rms_norm", "fused_add_layer_norm"}, len \in {4, 5}, skew \in {{}, {"res"}}}
  \cup {[Weighted(RowOp("layer_norm", <<2>>, <<4>>, 4)) EXCEPT !.bias = bias] : bias \in BOOLEAN}
  \cup {RowOp("layer_norm", <<1>>, <<5>>, 5)}
  \* norms that quantise
  \cup {[Weighted(RowOp("rms_norm_dynamic_per_token_quant", <<2>>, <<6>>, 6)) EXCEPT !.add = add] :
          add \in BOOLEAN}
  \cup {[Weighted(RowOp(op, <<2>>, <<8>>, 8)) EXCEPT !.add = add, !.group = g, !.transposed = (g = 4)] :
          op \in {"rms_norm_per_block_quant"}, add \in BOOLEAN, g \in {2, 4}}
  \cup {[Weighted(RowOp("rms_norm_mxfp4_quant", <<2>>, <<20>>, 20)) EXCEPT !.add = add, !.group = 4] :
          add \in BOOLEAN}
  \cup {Weighted(RowOp(op, <<2>>, <<stride>>, 6)) :
          op \in {"rms_norm_static_fp8_quant", "fused_add_rms_norm_static_fp8_quant"}, stride \in {6, 7}}
  \* quantisation: by given scales, of the tensor, groups, tokens, of blocks and of odd lengths
  \cup {[RowOp("static_scaled_fp8_quant", <<2>>, <<8>>, 8) EXCEPT !.scaleShape = s] :
          s \in {<<1, 1>>, <<2, 1>>, <<1, 2>>, <<1, 8>>}}
  \cup {[RowOp("static_scaled_fp8_quant", <<2>>, <<8>>, 8) EXCEPT !.scaleShape = s, !.scaleRank = 2] :
          s \in {<<2, 1>>, <<1, 4>>, <<2, 4>>}}
  \cup {[RowOp("dynamic_scaled_fp8_quant", <<2>>, <<5>>, 5) EXCEPT !.skew = {"in"}]}
  \cup {[RowOp("per_token_group_quant_fp8", <<2>>, <<len>>, len) EXCEPT !.group = g, !.transposed = (len = 6)] :
          len \in {6, 8, 20}, g \in {2}}
  \cup {[RowOp("per_token_group_quant_fp8", <<n>>, <<3>>, 3) EXCEPT !.group = 3] : n \in {2, 3}}
  \cup {[RowOp("per_token_group_quant_mxfp4", <<2>>, <<8>>, 8) EXCEPT !.group = g] : g \in {2, 4}}
  \cup {RowOp("dynamic_per_token_scaled_fp8_quant", <<2>>, <<len>>, len) : len \in {5, 6}}
  \* activations
  \cup {[RowOp(op, <<2>>, <<8>>, 4) EXCEPT !.group = 2, !.transposed = transposed] :
          op \in {"silu_and_mul_per_block_quant", "silu_and_mul_mxfp4_quant"}, transposed \in BOOLEAN}
  \cup {RowOp(op, <<2>>, <<len>>, len) :
          op \in {"silu_and_mul", "mul_and_silu", "silu_and_mul_quant", "swigluoai_and_mul",
                  "swiglustep_and_mul", "fatrelu_and_mul", "situ_and_mul", "gelu_new"}, len \in {3, 10}}

(* Small calls of the rotary operators.                                    *)
NoState == [ratio |-> 1, overlap |-> 0, blockSize |-> 1, table |-> <<>>, request |-> <<>>,
            tokenStride |-> 0, scaleDim |-> 0, kvSlots |-> <<>>]
RotOp(op, heads, kvHeads, size, rot) ==
  [op |-> op, tokens |-> 2, heads |-> heads, kvHeads |-> kvHeads, vHeads |-> 0, size |-> size,
   rot |-> rot, neox |-> FALSE, pos |-> <<3, 1>>, sections |-> <<rot \div 2>>,
   strides |-> <<heads * size, kvHeads * size, size>>, forced |-> 0, groups |-> 1, slots |-> <<0, 0>>,
   blockSize |-> 1, blockStride |-> 0, state |-> NoState]
Either(c) == {[c EXCEPT !.neox = neox] : neox \in BOOLEAN}

MCRotCalls ==
  \* whole and partly rotated heads, padded heads and tokens, without a key, more pairs than items
  UNION {Either([RotOp(op, 2, keys, 8, rot) EXCEPT !.strides = <<20, 10 * keys, 10>>]) :
           op \in {"rotary_embedding", "multimodal_rotary_embedding"}, keys \in {0, 1}, rot \in {6, 8}}
  \cup UNION {Either([RotOp("apply_rotary_emb", 2, 0, 8, rot) EXCEPT !.strides = <<20, 0, 10>>]) :
                rot \in {6, 8}}
  \* sections that a vector straddles, and of which one is empty; one token or two
  \cup UNION {Either([RotOp("multimodal_rotary_embedding", 1, 1, 12, 12) EXCEPT
                  !.tokens = n, !.sections = s, !.pos = SubSeq(<<2, 0, 4, 1, 3, 5>>, 1, 3 * n)]) :
                n \in {1, 2}, s \in {<<3, 2, 1>>, <<1, 0, 5>>, <<4, 1, 1>>}}
  \cup Either([RotOp("multimodal_rotary_embedding", 1, 0, 10, 10) EXCEPT !.tokens = 1, !.pos = <<2>>])
  \cup Either([RotOp("deepseek_scaling_rope", 2, 1, 8, 8) EXCEPT !.strides = <<24, 10, 9>>])
  \* the DeepSeek kernels, by group, head and chunk
  \cup {[RotOp("deepseek_inv_rope_bf16", 4, 0, 24, 8) EXCEPT !.groups = g] : g \in {2, 4}}
  \cup {[RotOp("deepseek_inv_rope_fp8_quant", 4, 0, 32, 4) EXCEPT !.groups = g] : g \in {2}}
  \cup {RotOp("deepseek_fused_indexer_q_rope_fp8", 4, 0, 16, 8),
         RotOp("deepseek_fused_indexer_q_rope_mxfp4", 8, 0, 16, 8)}
  \* entries out of order and a token without a slot; two tokens of a cache block, padded
  \cup {[RotOp("qnorm_rope_kv_insert_bf16", 1, 1, 24, 8) EXCEPT
           !.slots = slots, !.blockSize = 2, !.blockStride = 50, !.strides = <<30, 26, 26>>] :
          slots \in {<<3, 0>>, <<-1, 2>>, <<1, 0>>}}
  \cup {[RotOp("qnorm_rope_kv_insert_fp8", 1, 1, 24, 8) EXCEPT
           !.slots = slots, !.blockSize = 2, !.blockStride = 72] :
          slots \in {<<3, 0>>, <<-1, 2>>, <<1, 0>>}}
  \* a head a sub-group, and several; queries and keys in one chunk, a last chunk in part
  \cup UNION {Either([RotOp("fused_qk_norm_rope", heads, 1, 8, rot) EXCEPT !.vHeads = 1, !.forced = forced]) :
                heads \in {2}, rot \in {4, 8}, forced \in {0, 1, 2, 3}}
  \cup {[RotOp("fused_qk_norm_rope", 6, 2, 8, 8) EXCEPT !.tokens = 1, !.pos = <<2>>]}
  \* windows with and without an overlap, from before the sequence, across blocks out of order
  \cup {[RotOp("kv_compress_insert", 1, 0, 16, 4) EXCEPT
           !.pos = at, !.slots = <<0, 1>>, !.blockSize = 2, !.blockStride = 60,
           !.state = [ratio |-> 2, overlap |-> overlap, blockSize |-> size, table |-> <<<<2, 0, 1>>, <<3, 5, 4>>>>,
                      request |-> <<2, 1>>, tokenStride |-> 20, scaleDim |-> 3, kvSlots |-> <<3, 0>>]] :
          overlap \in {0, 1}, size \in {2, 3}, at \in {<<5, 1>>, <<2, 3>>, <<3, -1>>}}

KvIdle ==
  /\ kv = [layout |-> "none", fp8 |-> FALSE, tables |-> <<>>, pads |-> 0, splits |-> 0]
  /\ kvMemory = <<>> /\ kvRows = <<>> /\ stored = {} /\ gathered = {}

RowIdle ==
  /\ rowCall = <<>> /\ rowQueue = <<"none">> /\ rowGroup = 0 /\ rowAt = <<>> /\ rowAcc = <<>>
  /\ rowLocal = <<>> /\ rowMem = <<>>

RotIdle ==
  /\ rotCall = [op |-> "none"] /\ rotAt = ("none" :> 0) /\ rotLocal = <<>> /\ rotMem = <<>>

MCInit ==
  \/ machine = "layer" /\ Init /\ ChunkIdle /\ MemInit /\ KvIdle /\ RowIdle /\ RotIdle
  \/ machine = "chunk" /\ LayerIdle /\ ChunkInit /\ MemInit /\ KvIdle /\ RowIdle /\ RotIdle
  \/ machine = "copies" /\ LayerIdle /\ ChunkIdle /\ MemInit /\ KvIdle /\ RowIdle /\ RotIdle
  \/ machine = "pages" /\ LayerIdle /\ ChunkIdle /\ MemInit /\ KvInit /\ RowIdle /\ RotIdle
  \/ machine = "rows" /\ LayerIdle /\ ChunkIdle /\ MemInit /\ KvIdle /\ RowInit /\ RotIdle
  \/ machine = "rotary" /\ LayerIdle /\ ChunkIdle /\ MemInit /\ KvIdle /\ RowIdle /\ RotInit

allVars == <<machine, vars, chunkVars, memVars, kvVars, rowVars, rotVars>>
MCNext ==
  \/ machine = "layer" /\ Next /\ UNCHANGED <<machine, chunkVars, memVars, kvVars, rowVars, rotVars>>
  \/ machine = "chunk" /\ ChunkNext /\ UNCHANGED <<machine, vars, memVars, kvVars, rowVars, rotVars>>
  \/ machine = "copies" /\ MemNext /\ UNCHANGED <<machine, vars, chunkVars, kvVars, rowVars, rotVars>>
  \/ machine = "pages" /\ KvNext /\ UNCHANGED <<machine, vars, chunkVars, memVars, rowVars, rotVars>>
  \/ machine = "rows" /\ RowStep /\ UNCHANGED <<machine, vars, chunkVars, memVars, kvVars, rotVars>>
  \/ machine = "rotary" /\ RotNext /\ UNCHANGED <<machine, vars, chunkVars, memVars, kvVars, rowVars>>

MCSpec == MCInit /\ [][MCNext]_allVars

Symmetry == Permutations(PinnedBuffers)
=============================================================================
