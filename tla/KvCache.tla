------------------------------ MODULE KvCache -------------------------------
(***************************************************************************)
(* The kernels of csrc/cache.cpp that store the keys and values of new     *)
(* tokens into the blocks of a paged cache, by slot, and those that gather *)
(* a sequence's tokens back from its blocks.  A cache is flat memory; the  *)
(* layouts are those of the five writers.  A work-group stores one token,  *)
(* in any order with the others; the gathers run behind on the same queue. *)
(* An element of a tensor is known by where it comes from, an element of   *)
(* an FP8 cache also by what was done to it with which scale.              *)
(***************************************************************************)
EXTENDS Integers, Sequences, SequencesExt

CONSTANTS
  NumHeads, HeadSize,     (* num_heads, head_size                          *)
  XSplit,                 (* x: keys of the old layout are split by it     *)
  PageSize, NumPages,     (* block_size and blocks of the cache            *)
  Rank, PeDim,            (* kv_lora_rank, pe_dim                          *)
  ItemRange, PackSize,    (* local_range and VEC_SIZE of the writers       *)
  IndexDim, QuantBlock,   (* head_dim, quant_block_size of the indexer     *)
  QuantVec, QuantLanes,   (* its VEC_SIZE, 4, and local range 1, 32        *)
  GatherVec, GatherLanes, (* of its gather: VEC_SIZE, 16, and 8            *)
  KvCalls                 (* bound of the inputs: [layout, fp8, tables,    *)
                          (* context, pads, shift, starts, lengths, splits]*)

(* A row of QuantLanes lanes is one sub-group and one quantisation block,  *)
(* and so is a row of the gather's work-items, as for the 128 of the       *)
(* callers; a block's values take whole floats, as vectors of 4 do.        *)
ASSUME KvSizeAssumption ==
  /\ {NumHeads, HeadSize, XSplit, PageSize, NumPages, Rank, PeDim, ItemRange, PackSize} \subseteq Nat \ {0}
  /\ {IndexDim, QuantBlock, QuantVec, QuantLanes, GatherVec, GatherLanes} \subseteq Nat \ {0}
  /\ HeadSize % XSplit = 0
  /\ QuantBlock = QuantVec * QuantLanes /\ QuantBlock = GatherVec * GatherLanes
  /\ IndexDim % QuantBlock = 0 /\ QuantBlock % 4 = 0

(* The pages a batch writes to are its sequences' own, each in one place,  *)
(* and as many as its tokens need; a tensor is shifted by less than a      *)
(* vector; and a sequence has the tokens that are gathered from it.        *)
ASSUME KvCallAssumption ==
  \A c \in KvCalls :
    /\ c.tables \in Seq(Seq(0 .. NumPages - 1))
    /\ \A s, r \in DOMAIN c.tables : \A i \in DOMAIN c.tables[s], j \in DOMAIN c.tables[r] :
         c.tables[s][i] = c.tables[r][j] => s = r /\ i = j
    /\ \A s \in DOMAIN c.tables : c.context[s] \in 0 .. Len(c.tables[s]) * PageSize
    /\ \A s \in DOMAIN c.tables :
         c.starts[s] \in Nat /\ c.lengths[s] \in Nat /\ c.starts[s] + c.lengths[s] <= c.context[s]
    /\ c.pads \in Nat /\ c.splits \in Nat /\ c.shift \in 0 .. PackSize - 1

VARIABLES
  kv,          (* the call: a writer of one layout, then its gathers       *)
  kvMemory,    (* the memory of the cache                                  *)
  stored,      (* the tokens whose work-groups are done                    *)
  kvRows,      (* what the gathers have stored, by row and element         *)
  gathered     (* their work-groups that are done                          *)

kvVars == <<kv, kvMemory, stored, kvRows, gathered>>

-----------------------------------------------------------------------------
N == NumHeads * HeadSize
(* Elements of a token in a latent cache; of a row of what is gathered (an *)
(* indexer's row has its scales behind it).                                *)
RowWidth == IF kv.layout = "indexer" THEN IndexDim + IndexDim \div QuantBlock ELSE Rank + PeDim

(* The new tokens, by sequence and position; padding has no place.         *)
Fresh == UNION {{<<s, pos>> : pos \in 0 .. kv.context[s] - 1} : s \in DOMAIN kv.tables}
Padding == {<<0, i>> : i \in 0 .. kv.pads - 1}

(* slot_mapping: the caller's; padding is -1.                              *)
SlotOf(t) ==
  IF t \in Padding THEN -1
  ELSE kv.tables[t[1]][t[2] \div PageSize + 1] * PageSize + (t[2] % PageSize)

Of(t, part, i, done, scale) == [of |-> t, part |-> part, at |-> i, done |-> done, scale |-> scale]
Untouched == Of(<<>>, "", 0, "", {})

(* Memory after a set of stores, <<address, what>>. *)
Put(memory, stores) ==
  [a \in DOMAIN memory |->
     IF \E s \in stores : s[1] = a THEN (CHOOSE s \in stores : s[1] = a)[2] ELSE memory[a]]

(* Work-items go over n elements, or vectors, at a stride of the group.    *)
Elements(n) == UNION {{i \in 0 .. n - 1 : i % ItemRange = lane} : lane \in 0 .. ItemRange - 1}
Packs(n) == UNION {{v * PackSize + e : e \in 0 .. PackSize - 1} : v \in Elements(n \div PackSize)}

(* Mutant of AlignedElements: no tail behind the vectors. *)
AlignedElementsNoTail(n) ==
  LET prefix == Min({(PackSize - kv.shift) % PackSize, n})
  IN IF kv.shift = 0 /\ n % PackSize = 0 THEN Packs(n)
     ELSE Elements(prefix) \cup {prefix + i : i \in Packs(n - prefix)}

(* vectorize_with_alignment: single elements up to the first aligned one,  *)
(* vectors, and single elements behind.                                    *)
AlignedElements(n) ==
  LET prefix == Min({(PackSize - kv.shift) % PackSize, n})
      rest == n - prefix
      vectors == (rest \div PackSize) * PackSize
      tail == {vectors + i : i \in Elements(rest - vectors)}
  IN IF kv.shift = 0 /\ n % PackSize = 0 THEN Packs(n)
     ELSE Elements(prefix) \cup {prefix + i : i \in Packs(rest) \cup tail}

(* An FP8 cache holds a value over its scale (CopyWithScaleOp).            *)
Scaled == IF kv.fp8 THEN "over" ELSE "copied"

-----------------------------------------------------------------------------
(* reshape_and_cache: keys in rows of x, values transposed.                *)
PagedKey(slot, i) ==
  LET head == i \div HeadSize
      e == i % HeadSize
      rows == HeadSize \div XSplit
  IN (slot \div PageSize) * NumHeads * rows * PageSize * XSplit
     + head * rows * PageSize * XSplit
     + (e \div XSplit) * PageSize * XSplit + (slot % PageSize) * XSplit + (e % XSplit)

PagedValue(slot, i) ==
  (slot \div PageSize) * N * PageSize + (i \div HeadSize) * HeadSize * PageSize
  + (i % HeadSize) * PageSize + (slot % PageSize)

(* Its FP8 branches multiply. *)
Multiplied == IF kv.fp8 THEN "times" ELSE "copied"

PagedStores(t) ==
  LET slot == SlotOf(t)
  IN {<<<<"k", PagedKey(slot, i)>>, Of(t, "key", i, Multiplied, {})>> : i \in Elements(N)} \cup
     {<<<<"v", PagedValue(slot, i)>>, Of(t, "value", i, Multiplied, {})>> : i \in Elements(N)}

(* reshape_and_cache_flash: a token's heads in a row; keys and values      *)
(* apart, or (strides that differ from the head's) a head's value behind   *)
(* its key, with the heads of a block one after the other.                 *)
FlashStores(t) ==
  LET base == (SlotOf(t) \div PageSize) * PageSize * N + (SlotOf(t) % PageSize) * N
  IN {<<<<"k", base + i>>, Of(t, "key", i, Scaled, {})>> : i \in AlignedElements(N)} \cup
     {<<<<"v", base + i>>, Of(t, "value", i, Scaled, {})>> : i \in AlignedElements(N)}

StridedStores(t) ==
  LET base == (SlotOf(t) \div PageSize) * 2 * PageSize * N + (SlotOf(t) % PageSize) * 2 * HeadSize
      visited == IF kv.shift = 0 /\ HeadSize % PackSize = 0 THEN Packs(N) ELSE Elements(N)
      at(i) == base + (i \div HeadSize) * 2 * PageSize * HeadSize + (i % HeadSize)
  IN {<<<<"k", at(i)>>, Of(t, "key", i, Scaled, {})>> : i \in visited} \cup
     {<<<<"k", at(i) + HeadSize>>, Of(t, "value", i, Scaled, {})>> : i \in visited}

(* concat_and_cache_mla: the latent part, then the rotated one.            *)
MlaStores(t) ==
  LET base == (SlotOf(t) \div PageSize) * PageSize * RowWidth + (SlotOf(t) % PageSize) * RowWidth
  IN {<<<<"k", base + i>>, Of(t, "latent", i, Scaled, {})>> : i \in Elements(Rank)} \cup
     {<<<<"k", base + i + Rank>>, Of(t, "rotated", i, Scaled, {})>> : i \in Elements(PeDim)}

(* Bytes of a token in the indexer's cache: its values and, for every      *)
(* quantisation block, a scale of four bytes.                              *)
IndexStride == IndexDim + (IndexDim \div QuantBlock) * 4

(* indexer_k_quant_and_cache: a sub-group quantises by the largest of its  *)
(* elements; the block's scales are behind all values of the cache block.  *)
(* The index of a scale is in floats.                                      *)
IndexerStores(t) ==
  LET block == SlotOf(t) \div PageSize
      offset == SlotOf(t) % PageSize
      first(x, y) == (x * QuantLanes + y) * QuantVec
      rows == {x \in 0 .. IndexDim : first(x, 0) < IndexDim}
      group(x) == {first(x, y) + e : y \in 0 .. QuantLanes - 1, e \in 0 .. QuantVec - 1}
      start == block * PageSize * IndexStride
      scaleAt(x) == (start + PageSize * IndexDim + ((offset * IndexDim + first(x, 0)) * 4) \div QuantBlock) \div 4
  IN UNION {{<<<<"k", start + offset * IndexDim + i>>, Of(t, "index", i, "over", group(x))>> : i \in group(x)}
              \cup {<<<<"k", scaleAt(x) * 4 + byte>>, Of(t, "scale", byte, "copied", group(x))>> : byte \in 0 .. 3}
            : x \in rows}

-----------------------------------------------------------------------------
(* cu_seq_lens, of the part of every sequence that is gathered.            *)
RowStart(s) ==
  LET at[r \in 0 .. Len(kv.tables)] == IF r = 0 THEN 0 ELSE at[r - 1] + kv.lengths[r]
  IN at[s - 1]
TotalRows == RowStart(Len(kv.tables) + 1)

(* token_to_seq: the caller's; rows it padded are the last sequence's.     *)
TokenToSeq(row) ==
  IF row < TotalRows THEN CHOOSE s \in DOMAIN kv.tables : RowStart(s) <= row /\ row < RowStart(s + 1)
  ELSE Len(kv.tables)

CacheSize ==
  NumPages * PageSize * (CASE kv.layout = "strided" -> 2 * N [] kv.layout \in {"paged", "flash"} -> N
                           [] kv.layout = "mla" -> RowWidth [] kv.layout = "indexer" -> IndexStride)

KvInit ==
  /\ kv \in KvCalls
  /\ kvMemory = [a \in {"k", "v"} \X (0 .. CacheSize - 1) |-> Untouched]
  /\ stored = {} /\ gathered = {}
  /\ kvRows = [a \in (0 .. TotalRows - 1) \X (0 .. RowWidth - 1) |-> Untouched]

Store(t, stores) ==
  /\ t \in (Fresh \cup Padding) \ stored
  /\ stored' = stored \cup {t}
  /\ kvMemory' = IF SlotOf(t) < 0 THEN kvMemory ELSE Put(kvMemory, stores)
  /\ UNCHANGED <<kv, kvRows, gathered>>

ReshapeAndCache(t) == kv.layout = "paged" /\ Store(t, PagedStores(t))
ReshapeAndCacheFlash(t) == kv.layout = "flash" /\ Store(t, FlashStores(t))
ReshapeAndCacheFlashStrided(t) == kv.layout = "strided" /\ Store(t, StridedStores(t))
ConcatAndCacheMla(t) == kv.layout = "mla" /\ Store(t, MlaStores(t))
IndexerKQuantAndCache(t) == kv.layout = "indexer" /\ Store(t, IndexerStores(t))

-----------------------------------------------------------------------------
AllStored == stored = Fresh \cup Padding

Gathered(g, stores) ==
  /\ AllStored /\ g \notin gathered
  /\ gathered' = gathered \cup {g}
  /\ kvRows' = Put(kvRows, stores)
  /\ UNCHANGED <<kv, kvMemory, stored>>

(* tot_blocks and split_blocks: splits share the blocks of a sequence. *)
BlocksOf(s) == (kv.lengths[s] + PageSize - 1) \div PageSize
Share(s) == (BlocksOf(s) + kv.splits - 1) \div kv.splits

(* Mutant of FullBlocksEnd: every split leaves its last block to the part. *)
FullBlocksEndAny(s, end) == IF kv.lengths[s] % PageSize # 0 THEN end - 1 ELSE end

(* The split with the last block ends before a block in part.              *)
FullBlocksEnd(s, end) == IF end = BlocksOf(s) /\ kv.lengths[s] % PageSize # 0 THEN end - 1 ELSE end

(* gather_cache: a start is rounded down to a block.                       *)
BlockRows(s, split) ==
  LET first == split * Share(s)
      end == Min({(split + 1) * Share(s), BlocksOf(s)})
      full == FullBlocksEnd(s, end)
      part == IF end = BlocksOf(s) THEN kv.lengths[s] % PageSize ELSE 0
      block(p) == kv.tables[s][p + kv.starts[s] \div PageSize + 1]
      copied(p, n) ==
        {<<<<RowStart(s) + p * PageSize + e, i>>,
           kvMemory[<<"k", block(p) * PageSize * RowWidth + e * RowWidth + i>>]>> :
             e \in 0 .. n - 1, i \in Elements(RowWidth)}
  IN IF first >= BlocksOf(s) THEN {}
     ELSE (UNION {copied(p, PageSize) : p \in first .. full - 1}) \cup (IF part # 0 THEN copied(full, part) ELSE {})

GatherCache(s, split) == kv.layout = "mla" /\ kv.splits > 0 /\ Gathered(<<s, split>>, BlockRows(s, split))

(* gather_and_maybe_dequant_cache: a start is a token; rows the caller     *)
(* padded are left.                                                        *)
GatherAndMaybeDequantCache(row) ==
  /\ kv.layout = "mla" /\ kv.splits = 0
  /\ LET s == TokenToSeq(row)
         pos == row - RowStart(s) + kv.starts[s]
         at == kv.tables[s][pos \div PageSize + 1] * PageSize * RowWidth + (pos % PageSize) * RowWidth
     IN Gathered(<<row>>,
          IF row >= RowStart(s + 1) THEN {}
          ELSE {<<<<row, i>>, kvMemory[<<"k", at + i>>]>> : i \in Elements(RowWidth)})

(* cp_gather_indexer_k_quant_cache: work-items look for the sequence of    *)
(* their row among GatherLanes at a time; local memory starts as 0.        *)
IndexerRow(row) ==
  LET found == {s \in DOMAIN kv.tables : RowStart(s) <= row /\ row < RowStart(s + 1)}
      s == IF found = {} THEN 1 ELSE Max(found)
      pos == row - RowStart(s)
      start == kv.tables[s][pos \div PageSize + 1] * PageSize * IndexStride
      inBlock(i) == (pos % PageSize) * IndexDim + i
      chunks == {i \in 0 .. IndexDim - 1 : i % GatherVec = 0}
      scaleOf(i) == start + PageSize * IndexDim + (inBlock(i) * 4) \div QuantBlock
  IN {<<<<row, i + e>>, kvMemory[<<"k", start + inBlock(i + e)>>]>> : i \in chunks, e \in 0 .. GatherVec - 1} \cup
     {<<<<row, IndexDim + i \div QuantBlock>>, kvMemory[<<"k", (scaleOf(i) \div 4) * 4>>]>> :
        i \in {c \in chunks : (c \div GatherVec) % GatherLanes = 0}}

CpGatherIndexer(row) == kv.layout = "indexer" /\ Gathered(<<row>>, IndexerRow(row))

KvNext ==
  \/ \E t \in Fresh \cup Padding :
       \/ ReshapeAndCache(t) \/ ReshapeAndCacheFlash(t) \/ ReshapeAndCacheFlashStrided(t)
       \/ ConcatAndCacheMla(t) \/ IndexerKQuantAndCache(t)
  \/ \E s \in DOMAIN kv.tables : \E split \in 0 .. kv.splits - 1 : GatherCache(s, split)
  \/ \E row \in 0 .. TotalRows - 1 + kv.pads : GatherAndMaybeDequantCache(row)
  \/ \E row \in 0 .. TotalRows - 1 : CpGatherIndexer(row)

KvSpec == KvInit /\ [][KvNext]_kvVars

-----------------------------------------------------------------------------
(* A tensor's element in row-major order. *)
RowMajor(shape, index) ==
  LET at[d \in 0 .. Len(shape)] == IF d = 0 THEN 0 ELSE at[d - 1] * shape[d] + index[d]
  IN at[Len(shape)]

(* Where the readers of a layout find head h, element e of a token's key   *)
(* and value: the tensors' documented shapes (the comments on key_cache_,  *)
(* value_cache_ and cache_).                                               *)
KeyIn(page, offset, h, e) ==
  CASE kv.layout = "paged" ->
         <<"k", RowMajor(<<NumPages, NumHeads, HeadSize \div XSplit, PageSize, XSplit>>,
                         <<page, h, e \div XSplit, offset, e % XSplit>>)>>
    [] kv.layout = "flash" -> <<"k", RowMajor(<<NumPages, PageSize, NumHeads, HeadSize>>, <<page, offset, h, e>>)>>
    [] kv.layout = "strided" ->
         <<"k", RowMajor(<<NumPages, NumHeads, PageSize, 2 * HeadSize>>, <<page, h, offset, e>>)>>
ValueIn(page, offset, h, e) ==
  CASE kv.layout = "paged" ->
         <<"v", RowMajor(<<NumPages, NumHeads, HeadSize, PageSize>>, <<page, h, e, offset>>)>>
    [] kv.layout = "flash" -> <<"v", RowMajor(<<NumPages, PageSize, NumHeads, HeadSize>>, <<page, offset, h, e>>)>>
    [] kv.layout = "strided" ->
         <<"k", RowMajor(<<NumPages, NumHeads, PageSize, 2 * HeadSize>>, <<page, h, offset, HeadSize + e>>)>>

Comes(x, t, part, i) == x.of = t /\ x.part = part /\ x.at = i

(* Whatever order the tokens of a batch are stored in, the readers of the  *)
(* cache find every element of a stored token where the layout says, and   *)
(* nothing else in the cache has changed: no store of a token reaches a    *)
(* slot of another, and padding none (reshape_and_cache,                   *)
(* reshape_and_cache_flash).                                               *)
TokensHeld ==
  kv.layout \in {"paged", "flash", "strided"} =>
    LET page(t) == kv.tables[t[1]][t[2] \div PageSize + 1]
        of(t) == {<<KeyIn(page(t), t[2] % PageSize, h, e), "key", h * HeadSize + e>> :
                    h \in 0 .. NumHeads - 1, e \in 0 .. HeadSize - 1}
                 \cup {<<ValueIn(page(t), t[2] % PageSize, h, e), "value", h * HeadSize + e>> :
                    h \in 0 .. NumHeads - 1, e \in 0 .. HeadSize - 1}
    IN /\ \A t \in stored \ Padding : \A x \in of(t) : Comes(kvMemory[x[1]], t, x[2], x[3])
       /\ \A a \in DOMAIN kvMemory \ {x[1] : x \in UNION {of(t) : t \in stored \ Padding}} : kvMemory[a] = Untouched

AllGathered ==
  gathered = IF kv.splits = 0 THEN {<<row>> : row \in 0 .. TotalRows - 1 + kv.pads}
             ELSE (DOMAIN kv.tables) \X (0 .. kv.splits - 1)

(* What is gathered from blocks is what was stored by slot: row j of a     *)
(* sequence holds the elements of its token j places behind the start, and *)
(* a quantised row the very scales its elements were divided by, of all    *)
(* elements of their block and no others (gather_cache,                    *)
(* gather_and_maybe_dequant_cache, cp_gather_indexer_k_quant_cache).       *)
GatheredBack ==
  /\ kv.layout = "mla" /\ AllGathered =>
       \A s \in DOMAIN kv.tables : \A j \in 0 .. kv.lengths[s] - 1 :
         LET start == IF kv.splits = 0 THEN kv.starts[s] ELSE (kv.starts[s] \div PageSize) * PageSize
         IN /\ \A i \in 0 .. Rank - 1 : Comes(kvRows[<<RowStart(s) + j, i>>], <<s, start + j>>, "latent", i)
            /\ \A i \in 0 .. PeDim - 1 : Comes(kvRows[<<RowStart(s) + j, Rank + i>>], <<s, start + j>>, "rotated", i)
  /\ kv.layout = "indexer" =>
       \A s \in DOMAIN kv.tables : \A j \in 0 .. kv.lengths[s] - 1 : <<RowStart(s) + j>> \in gathered =>
         \A i \in 0 .. IndexDim - 1 :
           LET x == kvRows[<<RowStart(s) + j, i>>]
               scale == kvRows[<<RowStart(s) + j, IndexDim + i \div QuantBlock>>]
           IN /\ Comes(x, <<s, j>>, "index", i) /\ Comes(scale, <<s, j>>, "scale", 0)
              /\ x.scale = scale.scale
              /\ x.scale = {e \in 0 .. IndexDim - 1 : e \div QuantBlock = i \div QuantBlock}

(* tests/test_cache.py: an FP8 cache times its scale is close to the keys  *)
(* and values stored (_convert_from_fp8 multiplies, as attention does), so *)
(* the writers divide.  reshape_and_cache multiplies.                      *)
Dequantised == \A a \in DOMAIN kvMemory : kv.fp8 => kvMemory[a].done # "times"
=============================================================================
