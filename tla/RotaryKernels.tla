--------------------------- MODULE RotaryKernels ---------------------------
(***************************************************************************)
(* Rotary position embedding, alone and fused with what surrounds it:      *)
(* csrc/pos_encoding_kernels.cpp, fused_qknorm_rope.cpp and the kernels of *)
(* csrc/xpu/sycl.  A pair of elements of a head is turned by an angle of   *)
(* the table of cosines and sines, whose row is the token's position.      *)
(* Work-items, or sub-groups, share nothing but the memory they turn in    *)
(* place, so that one step is all a work-item or a sub-group does, but for *)
(* the kernel that takes several heads a sub-group over local memory.      *)
(* This module has what such a step writes; Rotary runs them.              *)
(*                                                                         *)
(* Numbers are as in RowPasses: known by what was done to them.  The last  *)
(* dimension of heads is contiguous and query and key have their heads at  *)
(* the same distance, as the wrappers and models of the operators have it. *)
(***************************************************************************)
EXTENDS RowPasses, Bitwise

CONSTANTS
  RotLanes,     (* SG_SIZE of the DeepSeek kernels, 16                     *)
  RotElems,     (* ELEMS_PER_LANE of a quantised chunk, 8                  *)
  RotItems,     (* work-items of a work-group at most, 512                 *)
  RotSgs,       (* sgs_per_wg, 8                                           *)
  FewTokens,    (* SMALL_TOKEN_THRESHOLD, 128                              *)
  RotCalls      (* bound of the inputs: [op, tokens, heads, kvHeads,       *)
                (* vHeads, size, rot, neox, pos, sections, strides,        *)
                (* forced, groups, slots, blockSize, blockStride, state]   *)

ASSUME RotaryAssumption ==
  /\ {RotLanes, RotElems, RotItems, RotSgs} \subseteq Nat \ {0}
  /\ FewTokens \in Nat /\ RotLanes % 2 = 0 /\ RotElems % 2 = 0

VARIABLES
  rotCall,   (* the call                                                   *)
  rotAt,     (* how far each work-item or sub-group is                     *)
  rotLocal,  (* rows of the table in local memory                          *)
  rotMem     (* tensors read and written: <<name, address>> to number      *)

-----------------------------------------------------------------------------
Embed == rotCall.rot \div 2
NopeDim == rotCall.size - rotCall.rot
Position(t) == rotCall.pos[t + 1]
Cos(row, o) == Val({<<"table", row * rotCall.rot + o>>})
Sin(row, o) == Val({<<"table", row * rotCall.rot + Embed + o>>})

(* x cos - y sin and y cos + x sin; the inverse turns back.                *)
Minus(x, y, cos, sin) == By(x, "minus", <<y, cos, sin>>)
Plus(x, y, cos, sin) == By(x, "plus", <<y, cos, sin>>)

(* apply_token_rotary_embedding: the pair of offset o of a head.           *)
XIndex(o) == IF rotCall.neox THEN o ELSE 2 * o
YIndex(o) == IF rotCall.neox THEN Embed + o ELSE 2 * o + 1

Turn(from, start, to, into, o, row) ==
  [x |-> <<from, start + XIndex(o)>>, y |-> <<from, start + YIndex(o)>>,
   newX |-> <<to, into + XIndex(o)>>, newY |-> <<to, into + YIndex(o)>>, o |-> o, row |-> row]
Turned(stood, turn) ==
  LET x == stood[turn.x]
      y == stood[turn.y]
      cos == Cos(turn.row, turn.o)
      sin == Sin(turn.row, turn.o)
  IN (turn.newX :> Minus(x, y, cos, sin)) @@ (turn.newY :> Plus(y, x, cos, sin)) @@ stood

(* Query and key, the key only if there is one, with their heads.          *)
QueryAndKey == {<<"q", rotCall.heads>>} \cup {<<"k", n>> : n \in {rotCall.kvHeads} \ {0}}
StrideOf(name) == IF name = "q" THEN rotCall.strides[1] ELSE rotCall.strides[2]
HeadAt(name, t, h) == t * StrideOf(name) + h * rotCall.strides[3]
Shared(i, items, item) == i % items = item

(* rotary_embedding: pairs of all heads over the items of a token's group. *)
RotaryItems == Least(rotCall.heads * Embed, RotItems)
RotaryEmbedding(t, item) ==
  UNION {{Turn(n[1], HeadAt(n[1], t, i \div Embed), n[1], HeadAt(n[1], t, i \div Embed), i % Embed,
               Position(t)) :
            i \in {i \in 0 .. n[2] * Embed - 1 : Shared(i, RotaryItems, item)}} : n \in QueryAndKey}

(* apply_rotary_emb: into another tensor, by a table of the tokens.        *)
ApplyRotaryEmb(t, item) ==
  {Turn("q", HeadAt("q", t, i \div Embed), "out", HeadAt("q", t, i \div Embed), i % Embed, t) :
     i \in {i \in 0 .. rotCall.heads * Embed - 1 : Shared(i, RotaryItems, item)}}
ApplyRest(t, item) ==
  {HeadAt("q", t, i \div NopeDim) + rotCall.rot + (i % NopeDim) :
     i \in {i \in 0 .. rotCall.heads * NopeDim - 1 : Shared(i, RotaryItems, item)}}

(* multimodal_rotary_embedding: the section of an offset has its own       *)
(* positions.                                                              *)
SectionEnd(s) == FoldLeft(+, 0, SubSeq(rotCall.sections, 1, s + 1))
FindSection(o) ==
  LET last == Len(rotCall.sections) - 1
  IN CHOOSE s \in 0 .. last : /\ s = last \/ o < SectionEnd(s)
                              /\ \A r \in 0 .. s - 1 : o >= SectionEnd(r)
PairVec == IF rotCall.neox THEN 4 ELSE 2
VecsPerHead == Embed \div PairVec

(* Mutant of SectionUsed: a vector is of the section it starts in. *)
SectionOfVector(o) ==
  FindSection(IF o < VecsPerHead * PairVec THEN (o \div PairVec) * PairVec ELSE o)

(* A vector is turned by one section's row unless it straddles two.        *)
SectionUsed(o) ==
  LET start == (o \div PairVec) * PairVec
  IN IF o < VecsPerHead * PairVec /\ FindSection(start + PairVec - 1) = FindSection(start)
     THEN FindSection(start) ELSE FindSection(o)

(* Vectors, then what is left of each head, over the items.                *)
HeadOffsets(n, items, item) ==
  LET tail == VecsPerHead * PairVec
      index(h, o) == IF o < tail THEN h * VecsPerHead + o \div PairVec ELSE h * (Embed - tail) + o - tail
  IN {p \in (0 .. n - 1) \X (0 .. Embed - 1) : Shared(index(p[1], p[2]), items, item)}

(* One group per token and head when tokens are few, unless that is one.   *)
HeadGroups == rotCall.heads + rotCall.kvHeads
GridOfHeads == rotCall.tokens <= FewTokens /\ HeadGroups > 1
MropeItems ==
  LET n == IF rotCall.tokens <= FewTokens THEN VecsPerHead
           ELSE (IF rotCall.kvHeads = 0 THEN rotCall.heads ELSE rotCall.kvHeads) * VecsPerHead
  IN Least(RoundUp(IF n < SubGroup THEN SubGroup ELSE n, SubGroup), RotItems)

MultimodalTurn(name, t, h, o) ==
  Turn(name, HeadAt(name, t, h), name, HeadAt(name, t, h), o,
       Position(SectionUsed(o) * rotCall.tokens + t))
MultimodalRotary(t, group, item) ==
  IF GridOfHeads
  THEN LET name == IF group < rotCall.heads THEN "q" ELSE "k"
           h == IF group < rotCall.heads THEN group ELSE group - rotCall.heads
       IN {MultimodalTurn(name, t, h, p[2]) : p \in HeadOffsets(1, MropeItems, item)}
  ELSE UNION {{MultimodalTurn(n[1], t, p[1], p[2]) : p \in HeadOffsets(n[2], MropeItems, item)} :
                n \in QueryAndKey}

(* deepseek_scaling_rope: a work-item per head, packed results.            *)
ScalingItems == RoundUp(rotCall.heads + rotCall.kvHeads, RotLanes)
ScalingRope(t, item) ==
  LET h == item - rotCall.heads
      size == rotCall.size
  IN IF item < rotCall.heads
     THEN {Turn("q", HeadAt("q", t, item), "qout", (t * rotCall.heads + item) * size, o, Position(t)) :
             o \in 0 .. Embed - 1}
     ELSE IF h < rotCall.kvHeads
     THEN {Turn("k", HeadAt("k", t, h), "kout", (t * rotCall.kvHeads + h) * size, o, Position(t)) :
             o \in 0 .. Embed - 1}
     ELSE {}

-----------------------------------------------------------------------------
(* The DeepSeek kernels: a sub-group a head, elements 0 .. NopeDim - 1 as  *)
(* they are, the rest turned in pairs.                                     *)
Lane == 0 .. RotLanes - 1
Half == 0 .. 1
NumbersOf(f, s) == BagOfValues([d \in s |-> f[d]])
OverScale(v, bag) == By(v, "scale", bag)

(* Lane by lane, four elements at a time.                                  *)
NopeIters == NopeDim \div (4 * RotLanes)
RopeIters == Embed \div RotLanes
NopeElements == {4 * (p[1] + p[2] * RotLanes) + p[3] : p \in Lane \X (0 .. NopeIters - 1) \X (0 .. 3)}
RopePairs == {p[1] + p[2] * RotLanes : p \in Lane \X (0 .. RopeIters - 1)}
EvenOf(p) == NopeDim + 2 * p
RopeElements == {EvenOf(p) + j : p \in RopePairs, j \in Half}
(* The tail of a head, turned forward or back. *)
RopeOf(f, row, back) ==
  [d \in RopeElements |->
     LET p == (d - NopeDim) \div 2
         e == f[EvenOf(p)]
         o == f[EvenOf(p) + 1]
     IN IF d = EvenOf(p)
        THEN IF back THEN Plus(e, o, Cos(row, p), Sin(row, p)) ELSE Minus(e, o, Cos(row, p), Sin(row, p))
        ELSE IF back THEN Minus(o, e, Cos(row, p), Sin(row, p)) ELSE Plus(o, e, Cos(row, p), Sin(row, p))]
HeadOf(name, start) == [d \in 0 .. rotCall.size - 1 |-> rotMem[<<name, start + d>>]]
(* What a function of elements is written as.                              *)
Wrote(name, start, f) == [a \in {<<name, start + d>> : d \in DOMAIN f} |-> f[a[2] - start]]

HeadsPerGroup == rotCall.heads \div rotCall.groups
InvRopeBf16(t, h) ==
  LET f == HeadOf("q", (t * rotCall.heads + h) * rotCall.size)
      group == h \div HeadsPerGroup
      dst == (t * rotCall.groups + group) * HeadsPerGroup * rotCall.size
               + (h % HeadsPerGroup) * rotCall.size
  IN Wrote("out", dst, [d \in NopeElements |-> f[d]] @@ RopeOf(f, Position(t), TRUE))

(* Chunks of a head; the second half of the lanes turn the last chunk.     *)
ChunksPerHead == 4
ChunkElems == RotLanes * RotElems
InvRopeFp8(t, h) ==
  LET f == HeadOf("q", (t * rotCall.heads + h) * rotCall.size)
      inRope(d) == d \div ChunkElems = 3 /\ (d % ChunkElems) \div RotElems >= RotLanes \div 2
      first(d) == d - (d % 2)
      pair(d) == ((d % ChunkElems) \div RotElems - RotLanes \div 2) * (RotElems \div 2) + (d % RotElems) \div 2
      cos(d) == Cos(Position(t), pair(d))
      sin(d) == Sin(Position(t), pair(d))
      vals == [d \in DOMAIN f |->
                 IF ~inRope(d) THEN f[d]
                 ELSE IF d = first(d) THEN Plus(f[d], f[d + 1], cos(d), sin(d))
                      ELSE Minus(f[d], f[d - 1], cos(d), sin(d))]
      scale == [c \in 0 .. ChunksPerHead - 1 |->
                  NumbersOf(vals, {d \in DOMAIN f : d \div ChunkElems = c})]
      row == (h \div HeadsPerGroup) * rotCall.tokens + t
  IN Wrote("out", row * HeadsPerGroup * rotCall.size + (h % HeadsPerGroup) * rotCall.size,
           [d \in DOMAIN f |-> OverScale(vals[d], scale[d \div ChunkElems])])
     @@ Wrote("scales", (row * HeadsPerGroup + (h % HeadsPerGroup)) * ChunksPerHead, scale)

(* deepseek_fused_indexer_q_rope: lanes hold a pair of each of four parts. *)
PairOf(part, lane) ==
  (IF part < 2 THEN 0 ELSE NopeDim \div 2) + (part % 2) * RotLanes + lane
Parts == (0 .. 3) \X Lane
IndexerHead(t, h) ==
  LET f == HeadOf("q", (t * rotCall.heads + h) * rotCall.size)
      at(i) == 2 * PairOf(i[1], i[2])
      o(i) == (i[1] - 2) * RotLanes + i[2]
      cos(i) == Cos(Position(t), o(i))
      sin(i) == Sin(Position(t), o(i))
  IN [i \in Parts |->
        IF i[1] < 2 THEN <<f[at(i)], f[at(i) + 1]>>
        ELSE <<Minus(f[at(i)], f[at(i) + 1], cos(i), sin(i)), Plus(f[at(i) + 1], f[at(i)], cos(i), sin(i))>>]
Weight(t, h) == Val({<<"weight", t * rotCall.heads + h>>})

(* A scale for each head, folded into its weight. *)
IndexerFp8(t, h) ==
  LET v == IndexerHead(t, h)
      scale == BagOfValues([p \in Parts \X {1, 2} |-> v[p[1]][p[2]]])
      row == t * rotCall.heads + h
      into(i) == (IF i[1] < 2 THEN 0 ELSE NopeDim) + (i[1] % 2) * 2 * RotLanes + 2 * i[2]
  IN [a \in {<<"out", row * rotCall.size + into(i) + j>> : i \in Parts, j \in Half} |->
        LET i == CHOOSE i \in Parts : a[2] - row * rotCall.size - into(i) \in Half
        IN OverScale(v[i][a[2] - row * rotCall.size - into(i) + 1], scale)]
     @@ (<<"weights", row>> :> OverScale(Weight(t, h), scale))

(* A byte for two elements, a scale for each part. *)
IndexerMxfp4(t, h) ==
  LET v == IndexerHead(t, h)
      scale == [part \in 0 .. 3 |-> BagOfValues([p \in ({part} \X Lane) \X {1, 2} |-> v[p[1]][p[2]]])]
      row == t * rotCall.heads + h
      byte(i) == row * (rotCall.size \div 2) + PairOf(i[1], i[2])
  IN [a \in {<<"out", byte(i)>> : i \in Parts} |->
        LET i == CHOOSE i \in Parts : byte(i) = a[2]
        IN <<OverScale(v[i][1], scale[i[1]]), OverScale(v[i][2], scale[i[1]])>>]
     @@ Wrote("scales", row * 4, scale)
     @@ (<<"weights", row>> :> Weight(t, h))

(* deepseek_qnorm_rope_kv_insert: a query head in place, or the token's    *)
(* key and value into its slot.                                            *)
QNormRope(t, h) ==
  LET start == HeadAt("q", t, h)
      f == HeadOf("q", start)
      rms == NumbersOf(f, NopeElements \cup RopeElements)
      g == [d \in DOMAIN f |-> By(f[d], "rms", rms)]
  IN Wrote("q", start, [d \in NopeElements |-> g[d]] @@ RopeOf(g, Position(t), FALSE))

Slot(t) == rotCall.slots[t + 1]
BlockStart(t) == (Slot(t) \div rotCall.blockSize) * rotCall.blockStride
InBlock(t) == Slot(t) % rotCall.blockSize
KvInsertBf16(t) ==
  LET f == HeadOf("k", t * rotCall.strides[2])
  IN IF Slot(t) < 0 THEN <<>>
     ELSE Wrote("cache", BlockStart(t) + InBlock(t) * rotCall.size,
                [d \in NopeElements |-> f[d]] @@ RopeOf(f, Position(t), FALSE))

(* Bytes: a block of the head per round of the lanes, then the tail in two *)
(* bytes each; a scale per block, and padding, behind the block's tokens.  *)
QuantBlocks == NopeDim \div (4 * RotLanes)
TokenDataBytes == NopeDim + rotCall.rot * 2
KvInsertFp8(t) ==
  LET f == HeadOf("k", t * rotCall.strides[2])
      tail == RopeOf(f, Position(t), FALSE)
      block(d) == d \div (4 * RotLanes)
      scale == [i \in 0 .. QuantBlocks - 1 |-> NumbersOf(f, {d \in NopeElements : block(d) = i})]
      data == BlockStart(t) + InBlock(t) * TokenDataBytes
      scales == BlockStart(t) + rotCall.blockSize * TokenDataBytes + InBlock(t) * (QuantBlocks + 1)
  IN IF Slot(t) < 0 THEN <<>>
     ELSE Wrote("cache", data, [d \in NopeElements |-> OverScale(f[d], scale[block(d)])])
          @@ Wrote("cache", data + NopeDim,
                   [b \in 0 .. 2 * rotCall.rot - 1 |-> By(tail[NopeDim + b \div 2], "byte", b % 2)])
          @@ Wrote("cache", scales, [i \in 0 .. QuantBlocks |-> IF i < QuantBlocks THEN scale[i] ELSE EmptyBag])

-----------------------------------------------------------------------------
(* fused_qk_norm_rope: a sub-group of SubGroup lanes a head, each lane     *)
(* with a contiguous share.  Head i of a token is a query's or a key's.    *)
LaneElems == rotCall.size \div SubGroup
QkHeads == rotCall.heads + rotCall.kvHeads
QkStart(t, i) == (t * (QkHeads + rotCall.vHeads) + i) * rotCall.size
QkWeight(i, d) == Val({<<IF i < rotCall.heads THEN "qweight" ELSE "kweight", d>>})

(* permute_group_by_xor finds a lane's partner where the half of the       *)
(* rotated lanes is a power of two, as it is in every model of the tests.  *)
QkNormRope(t, i, cos, sin) ==
  LET f == HeadOf("q", QkStart(t, i))
      rms == NumbersOf(f, DOMAIN f)
      g == [d \in DOMAIN f |-> By(By(f[d], "rms", rms), "weight", One(QkWeight(i, d)))]
      lane(d) == d \div LaneElems
      rotaryLanes == rotCall.rot \div LaneElems
      half == Embed \div LaneElems
      other(d) == (lane(d) ^^ half) * LaneElems + (d % LaneElems)
      angle(d) == IF rotCall.neox THEN ((d * 2) % rotCall.rot) \div 2 ELSE d \div 2
      first(d) == IF rotCall.neox THEN lane(d) < half ELSE d % 2 = 0
      with(d) == IF rotCall.neox THEN other(d) ELSE IF d % 2 = 0 THEN d + 1 ELSE d - 1
  IN Wrote("q", QkStart(t, i),
       [d \in DOMAIN f |->
          IF lane(d) >= rotaryLanes THEN g[d]
          ELSE IF first(d) THEN Minus(g[d], g[with(d)], cos[angle(d)], sin[angle(d)])
               ELSE Plus(g[d], g[with(d)], cos[angle(d)], sin[angle(d)])])

(* How many heads a sub-group takes: other numbers fall back to one.       *)
HeadsPerSg ==
  LET tuned == IF rotCall.forced > 0 THEN rotCall.forced
               ELSE IF QkHeads >= 20 THEN 8 ELSE IF QkHeads >= 8 THEN 4 ELSE 1
      n == Least(tuned, QkHeads)
  IN IF n \in {1, 2, 4, 8} THEN n ELSE 1
HeadChunks == (QkHeads + HeadsPerSg - 1) \div HeadsPerSg
FirstHead(sg) == (sg % HeadChunks) * HeadsPerSg
HeadsOfSg(sg) == Least(HeadsPerSg, QkHeads - FirstHead(sg))
(* A sub-group's row of the table in its group's local memory.             *)
SlmAt(sg, i) == <<sg \div RotSgs, (sg % RotSgs) * rotCall.rot + i>>
SlmLoaded(sg) ==
  [a \in {SlmAt(sg, i) : i \in 0 .. rotCall.rot - 1} |->
     Val({<<"table", Position(sg \div HeadChunks) * rotCall.rot + a[2] - SlmAt(sg, 0)[2]>>})]

-----------------------------------------------------------------------------
(* fused_kv_compress_norm_rope_insert_sparse_attn: a group a token.  Of    *)
(* every compress_ratio tokens the last mixes the window behind it, by a   *)
(* softmax of each element's scores, and stores the result.  The state:    *)
(* [ratio, overlap, blockSize, table, request, tokenStride, scaleDim,      *)
(* kvSlots].                                                               *)
SparseState == rotCall.state
SparseQuad == 4
StateWidth == rotCall.size * (1 + SparseState.overlap)
ShouldStore(t) ==
  /\ rotCall.slots[t + 1] >= 0 /\ Position(t) >= 0 /\ SparseState.kvSlots[t + 1] >= 0
  /\ (Position(t) + 1) % SparseState.ratio = 0

(* Positions before the sequence are skipped; the blocks from that of the  *)
(* first position on are in local memory, and walked as positions advance. *)
Mixture(t, h) ==
  LET n == (1 + SparseState.overlap) * SparseState.ratio
      start == Position(t) - n + 1
      first == IF start > 0 THEN start ELSE 0
      low == first \div SparseState.blockSize
      blocks == [i \in 0 .. Position(t) \div SparseState.blockSize - low |->
                   SparseState.table[SparseState.request[t + 1]][low + i + 1]]
      walked(g) == (first % SparseState.blockSize) + g - (first - start)
      row(g) == (blocks[walked(g) \div SparseState.blockSize] * SparseState.blockSize
                   + (walked(g) % SparseState.blockSize)) * 2 * StateWidth
      column(g) == h + (IF g >= SparseState.ratio THEN rotCall.size ELSE 0)
  IN By(Val({}), "mixed",
        BagOfValues([g \in first - start .. n - 1 |->
                       <<row(g) + column(g), row(g) + StateWidth + column(g)>>]))

SparseInsert(t) ==
  LET f == [h \in 0 .. rotCall.size - 1 |-> Mixture(t, h)]
      rms == NumbersOf(f, DOMAIN f)
      g == [h \in DOMAIN f |-> By(By(f[h], "rms", rms), "weight", One(Val({<<"kweight", h>>})))]
      row == Position(t) + 1 - SparseState.ratio
      pair(h) == h \div 2 - NopeDim \div 2
      turned == [h \in DOMAIN f |->
                   IF pair(h) < 0 THEN g[h]
                   ELSE IF h % 2 = 0 THEN Minus(g[h], g[h + 1], Cos(row, pair(h)), Sin(row, pair(h)))
                        ELSE Plus(g[h], g[h - 1], Cos(row, pair(h)), Sin(row, pair(h)))]
      perBlock == (4 * RotLanes) \div SparseQuad
      item(h) == h \div SparseQuad
      items == rotCall.size \div SparseQuad
      blocks == (NopeDim + 4 * RotLanes - 1) \div (4 * RotLanes)
      \* the lanes that exchange with each other, and of them the first, which stores their scale
      leader(i) == ((i % SubGroup) \div perBlock) * perBlock + (i \div SubGroup) * SubGroup
      scaleOf(i) ==
        NumbersOf(turned, {h \in DOMAIN f : SparseQuad * item(h) < NopeDim /\ leader(item(h)) = leader(i)})
      storing == {i \in 0 .. items - 1 : i < blocks * perBlock /\ leader(i) = i}
      base == (SparseState.kvSlots[t + 1] \div rotCall.blockSize) * rotCall.blockStride
      slot == SparseState.kvSlots[t + 1] % rotCall.blockSize
      scales == base + rotCall.blockSize * SparseState.tokenStride + slot * SparseState.scaleDim
      inNope(i) == SparseQuad * i < NopeDim
  IN IF ~ShouldStore(t) THEN <<>>
     ELSE Wrote("cache", base + slot * SparseState.tokenStride,
                [h \in {h \in DOMAIN f : inNope(item(h))} |-> OverScale(turned[h], scaleOf(item(h)))])
          @@ Wrote("cache", scales,
                   [b \in {i \div perBlock : i \in storing} \cup blocks .. SparseState.scaleDim - 1 |->
                      IF b < blocks THEN scaleOf(CHOOSE i \in storing : i \div perBlock = b) ELSE EmptyBag])
          @@ Wrote("cache", base + slot * SparseState.tokenStride + NopeDim,
                   [b \in {2 * (h - NopeDim) + j : h \in {h \in DOMAIN f : ~inNope(item(h))}, j \in Half} |->
                      By(turned[NopeDim + b \div 2], "byte", b % 2)])
=============================================================================
