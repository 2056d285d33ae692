------------------------------- MODULE Rotary -------------------------------
(* The rotary operators: what each launches, how it runs, and what it      *)
(* promises.                                                               *)
EXTENDS RotaryKernels

Tokens0 == 0 .. rotCall.tokens - 1
(* The groups of a token and what is in a group: work-items, or a          *)
(* sub-group for a head.                                                   *)
TasksOf(groups, items) == {<<t, g, i>> : t \in Tokens0, g \in 0 .. groups - 1, i \in 0 .. items - 1}

InPlaceOps == {"rotary_embedding", "multimodal_rotary_embedding"}
Insert == {"qnorm_rope_kv_insert_bf16", "qnorm_rope_kv_insert_fp8"}
TurningOps == InPlaceOps \cup {"apply_rotary_emb", "deepseek_scaling_rope"}

LaunchRotary == TasksOf(1, RotaryItems)
LaunchApply == TasksOf(1, RotaryItems)
LaunchMultimodal == TasksOf(IF rotCall.tokens <= FewTokens THEN HeadGroups ELSE 1, MropeItems)
LaunchScaling == TasksOf(1, ScalingItems)
LaunchInvRopeBf16 == TasksOf(rotCall.heads, 1)
LaunchInvRopeFp8 == TasksOf(rotCall.heads, 1)
(* Two, and four, heads one after the other.                               *)
LaunchIndexerFp8 == TasksOf(rotCall.heads \div 2, 1)
LaunchIndexerMxfp4 == TasksOf(rotCall.heads \div 4, 1)
(* The last of a token's is for its key and value. *)
LaunchKvInsert == TasksOf(rotCall.heads + 1, 1)
LaunchSparseInsert == TasksOf(1, 1)
(* Sub-groups beyond the last token leave at once. *)
LaunchQkNormRope ==
  LET sgs == rotCall.tokens * HeadChunks
  IN {<<sg \div HeadChunks, 0, sg>> : sg \in {sg \in 0 .. RoundUp(sgs, RotSgs) - 1 : sg < sgs}}

LaunchedTasks ==
  CASE rotCall.op = "rotary_embedding" -> LaunchRotary
    [] rotCall.op = "apply_rotary_emb" -> LaunchApply
    [] rotCall.op = "multimodal_rotary_embedding" -> LaunchMultimodal
    [] rotCall.op = "deepseek_scaling_rope" -> LaunchScaling
    [] rotCall.op = "deepseek_inv_rope_bf16" -> LaunchInvRopeBf16
    [] rotCall.op = "deepseek_inv_rope_fp8_quant" -> LaunchInvRopeFp8
    [] rotCall.op = "deepseek_fused_indexer_q_rope_fp8" -> LaunchIndexerFp8
    [] rotCall.op = "deepseek_fused_indexer_q_rope_mxfp4" -> LaunchIndexerMxfp4
    [] rotCall.op \in Insert -> LaunchKvInsert
    [] rotCall.op = "kv_compress_insert" -> LaunchSparseInsert
    [] rotCall.op = "fused_qk_norm_rope" -> LaunchQkNormRope

-----------------------------------------------------------------------------
TurnsOf(k) ==
  CASE rotCall.op = "rotary_embedding" -> RotaryEmbedding(k[1], k[3])
    [] rotCall.op = "multimodal_rotary_embedding" -> MultimodalRotary(k[1], k[2], k[3])
    [] rotCall.op = "apply_rotary_emb" -> ApplyRotaryEmb(k[1], k[3])
    [] rotCall.op = "deepseek_scaling_rope" -> ScalingRope(k[1], k[3])

(* A work-item turns its pairs, one after the other.                       *)
TurnStep(k) ==
  /\ rotCall.op \in TurningOps /\ rotAt[k] = 0
  /\ LET stood == FoldSet(LAMBDA turn, m : Turned(m, turn), rotMem, TurnsOf(k))
         rest == IF rotCall.op = "apply_rotary_emb" THEN ApplyRest(k[1], k[3]) ELSE {}
     IN rotMem' = [a \in {<<"out", i>> : i \in rest} |-> stood[<<"q", a[2]>>]] @@ stood
  /\ rotAt' = [rotAt EXCEPT ![k] = 1]
  /\ UNCHANGED rotLocal

HeadWrites(k) ==
  CASE rotCall.op = "deepseek_inv_rope_bf16" -> InvRopeBf16(k[1], k[2])
    [] rotCall.op = "deepseek_inv_rope_fp8_quant" -> InvRopeFp8(k[1], k[2])
    [] rotCall.op = "deepseek_fused_indexer_q_rope_fp8" ->
         IndexerFp8(k[1], 2 * k[2]) @@ IndexerFp8(k[1], 2 * k[2] + 1)
    [] rotCall.op = "deepseek_fused_indexer_q_rope_mxfp4" ->
         IndexerMxfp4(k[1], 4 * k[2]) @@ IndexerMxfp4(k[1], 4 * k[2] + 1)
           @@ IndexerMxfp4(k[1], 4 * k[2] + 2) @@ IndexerMxfp4(k[1], 4 * k[2] + 3)
    [] rotCall.op = "qnorm_rope_kv_insert_bf16" ->
         IF k[2] = rotCall.heads THEN KvInsertBf16(k[1]) ELSE QNormRope(k[1], k[2])
    [] rotCall.op = "qnorm_rope_kv_insert_fp8" ->
         IF k[2] = rotCall.heads THEN KvInsertFp8(k[1]) ELSE QNormRope(k[1], k[2])
    [] rotCall.op = "kv_compress_insert" -> SparseInsert(k[1])

(* A sub-group, or a group with its barriers, does its head.               *)
HeadStep(k) ==
  /\ rotCall.op \notin TurningOps \cup {"fused_qk_norm_rope"} /\ rotAt[k] = 0
  /\ rotMem' = HeadWrites(k) @@ rotMem
  /\ rotAt' = [rotAt EXCEPT ![k] = 1]
  /\ UNCHANGED rotLocal

(* One head after the other, once the sub-group has its row of the table:  *)
(* of one head each, they read the table itself.                           *)
LoadSlm(k) ==
  /\ rotCall.op = "fused_qk_norm_rope" /\ rotAt[k] = 0
  /\ rotLocal' = IF HeadsPerSg = 1 THEN rotLocal ELSE SlmLoaded(k[3]) @@ rotLocal
  /\ rotAt' = [rotAt EXCEPT ![k] = 1]
  /\ UNCHANGED rotMem
NormRopeStep(k) ==
  /\ rotCall.op = "fused_qk_norm_rope" /\ rotAt[k] \in 1 .. HeadsOfSg(k[3])
  /\ LET row == Position(k[1])
         cos == [o \in 0 .. Embed - 1 |-> IF HeadsPerSg = 1 THEN Cos(row, o) ELSE rotLocal[SlmAt(k[3], o)]]
         sin == [o \in 0 .. Embed - 1 |->
                   IF HeadsPerSg = 1 THEN Sin(row, o) ELSE rotLocal[SlmAt(k[3], Embed + o)]]
     IN rotMem' = QkNormRope(k[1], FirstHead(k[3]) + rotAt[k] - 1, cos, sin) @@ rotMem
  /\ rotAt' = [rotAt EXCEPT ![k] = @ + 1]
  /\ UNCHANGED rotLocal

(* How many steps each takes. *)
StepsOf(k) == IF rotCall.op = "fused_qk_norm_rope" THEN 1 + HeadsOfSg(k[3]) ELSE 1

-----------------------------------------------------------------------------
(* Every element is itself, at first; what is allocated is not written.    *)
AsGiven(name, n) == [a \in {<<name, i>> : i \in 0 .. n - 1} |-> Val({a})]
Blank(name, n) == [a \in {<<name, i>> : i \in 0 .. n - 1} |-> Lost]
Heads(n) == rotCall.tokens * n * rotCall.size
TensorsBefore ==
  LET q == AsGiven("q", rotCall.tokens * StrideOf("q"))
      k == AsGiven("k", rotCall.tokens * StrideOf("k"))
      blocks == 2
  IN CASE rotCall.op \in InPlaceOps -> q @@ k
       [] rotCall.op = "apply_rotary_emb" -> q @@ Blank("out", rotCall.tokens * StrideOf("q"))
       [] rotCall.op = "deepseek_scaling_rope" ->
            q @@ k @@ Blank("qout", Heads(rotCall.heads)) @@ Blank("kout", Heads(rotCall.kvHeads))
       [] rotCall.op = "deepseek_inv_rope_bf16" -> q @@ Blank("out", Heads(rotCall.heads))
       [] rotCall.op = "deepseek_inv_rope_fp8_quant" ->
            q @@ Blank("out", Heads(rotCall.heads))
              @@ Blank("scales", rotCall.tokens * rotCall.heads * ChunksPerHead)
       [] rotCall.op = "deepseek_fused_indexer_q_rope_fp8" ->
            q @@ Blank("out", Heads(rotCall.heads)) @@ Blank("weights", rotCall.tokens * rotCall.heads)
       [] rotCall.op = "deepseek_fused_indexer_q_rope_mxfp4" ->
            q @@ Blank("out", Heads(rotCall.heads) \div 2)
              @@ Blank("scales", rotCall.tokens * rotCall.heads * 4)
              @@ Blank("weights", rotCall.tokens * rotCall.heads)
       [] rotCall.op \in Insert ->
            q @@ k @@ AsGiven("cache", blocks * rotCall.blockStride)
       [] rotCall.op = "kv_compress_insert" -> AsGiven("cache", blocks * rotCall.blockStride)
       [] rotCall.op = "fused_qk_norm_rope" -> AsGiven("q", Heads(QkHeads + rotCall.vHeads))

RotInit ==
  /\ rotCall \in RotCalls
  /\ rotMem = TensorsBefore
  /\ rotAt = [k \in LaunchedTasks |-> 0]
  /\ rotLocal = <<>>
RotNext ==
  /\ \E k \in DOMAIN rotAt : TurnStep(k) \/ HeadStep(k) \/ LoadSlm(k) \/ NormRopeStep(k)
  /\ UNCHANGED rotCall

rotVars == <<rotCall, rotAt, rotLocal, rotMem>>
RotSpec == RotInit /\ [][RotNext]_rotVars /\ WF_rotVars(RotNext)

-----------------------------------------------------------------------------
(* What a call promises, in terms of tokens, heads and dimensions.         *)
HeadsOf(name) == 0 .. (IF name = "k" THEN rotCall.kvHeads ELSE rotCall.heads) - 1
Dim == 0 .. rotCall.size - 1
DeepSeek == rotCall.op \notin TurningOps \cup {"fused_qk_norm_rope"}
RotFrom == IF DeepSeek THEN NopeDim ELSE 0

(* The row of the table an offset's angle is in. *)
RowOf(t, o) ==
  CASE rotCall.op = "multimodal_rotary_embedding" ->
         LET end[s \in 0 .. Len(rotCall.sections)] == IF s = 0 THEN 0 ELSE end[s - 1] + rotCall.sections[s]
             s == CHOOSE s \in DOMAIN rotCall.sections : o \in end[s - 1] .. end[s] - 1
         IN rotCall.pos[(s - 1) * rotCall.tokens + t + 1]
    [] rotCall.op = "apply_rotary_emb" -> t
    [] rotCall.op = "kv_compress_insert" -> (rotCall.pos[t + 1] \div SparseState.ratio) * SparseState.ratio
    [] OTHER -> rotCall.pos[t + 1]

(* Each pair turned once, by the angle of its offset.                      *)
Spun(t, v) ==
  LET split == rotCall.neox /\ ~DeepSeek
      back == rotCall.op \in {"deepseek_inv_rope_bf16", "deepseek_inv_rope_fp8_quant"}
      row == [o \in 0 .. Embed - 1 |-> RowOf(t, o)]
  IN [d \in Dim |->
        IF d - RotFrom \notin 0 .. rotCall.rot - 1 THEN v[d]
        ELSE LET j == d - RotFrom
                 o == IF split THEN j % Embed ELSE j \div 2
                 isX == IF split THEN j < Embed ELSE j % 2 = 0
                 other == IF isX THEN (IF split THEN d + Embed ELSE d + 1)
                          ELSE (IF split THEN d - Embed ELSE d - 1)
             IN By(v[d], IF isX = ~back THEN "minus" ELSE "plus",
                   <<v[other], Cos(row[o], o), Sin(row[o], o)>>)]

Bag(f, s) == SetToBag({f[d] : d \in s})
Normed(f) == [d \in Dim |-> By(f[d], "rms", Bag(f, Dim))]
WeightedBy(name, f) == [d \in Dim |-> By(f[d], "weight", One(Val({<<name, d>>})))]
Given(name, start) == [d \in Dim |-> Val({<<name, start + d>>})]

(* The values of a head, or of a cache entry, before they are scaled.      *)
QkvStart(name, t, h) ==
  ((t * (QkHeads + rotCall.vHeads)) + h + (IF name = "k" THEN rotCall.heads ELSE 0)) * rotCall.size
Answer(name, t, h) ==
  CASE rotCall.op = "fused_qk_norm_rope" ->
         Spun(t, WeightedBy(IF name = "q" THEN "qweight" ELSE "kweight",
                                Normed(Given("q", QkvStart(name, t, h)))))
    [] rotCall.op \in Insert /\ name = "q" ->
         Spun(t, Normed(Given("q", HeadAt("q", t, h))))
    [] OTHER -> Spun(t, Given(name, HeadAt(name, t, h)))

(* The window of a compressed position, through the request's blocks; its  *)
(* older half has columns of its own.                                      *)
Compressed(t) ==
  LET back == (1 + SparseState.overlap) * SparseState.ratio
      window == {p \in 0 .. rotCall.pos[t + 1] : p > rotCall.pos[t + 1] - back}
      slot(p) == SparseState.table[SparseState.request[t + 1]][p \div SparseState.blockSize + 1]
                   * SparseState.blockSize + (p % SparseState.blockSize)
      half(p) == IF p > rotCall.pos[t + 1] - SparseState.ratio THEN SparseState.overlap ELSE 0
      column(p, d) == slot(p) * 2 * StateWidth + half(p) * rotCall.size + d
      mixed == [d \in Dim |->
                  By(Val({}), "mixed",
                     SetToBag({<<column(p, d), column(p, d) + StateWidth>> : p \in window}))]
  IN Spun(t, WeightedBy("kweight", Normed(mixed)))

(* Where the results of a call are, and what: of each element of each      *)
(* head, of each scale, weight and byte.                                   *)
Promise(at, is) == [at |-> at, is |-> is]
HeadNames == IF DeepSeek THEN {"q"} ELSE {"q"} \cup {n \in {"k"} : rotCall.kvHeads > 0}
HeadIndex == UNION {{<<n, t, h>> : t \in Tokens0, h \in HeadsOf(n)} : n \in HeadNames}
GroupOfHead(h) == h \div HeadsPerGroup
InGroup(h) == h % HeadsPerGroup
ResultAt(n, t, h) ==
  LET row == t * rotCall.heads + h
  IN CASE rotCall.op \in InPlaceOps \cup Insert -> <<n, HeadAt(n, t, h)>>
       [] rotCall.op = "fused_qk_norm_rope" -> <<"q", QkvStart(n, t, h)>>
       [] rotCall.op = "apply_rotary_emb" -> <<"out", HeadAt(n, t, h)>>
       [] rotCall.op = "deepseek_scaling_rope" ->
            IF n = "q" THEN <<"qout", row * rotCall.size>>
            ELSE <<"kout", (t * rotCall.kvHeads + h) * rotCall.size>>
       [] rotCall.op = "deepseek_inv_rope_bf16" ->
            <<"out", ((t * rotCall.groups + GroupOfHead(h)) * HeadsPerGroup + InGroup(h)) * rotCall.size>>
       [] rotCall.op = "deepseek_inv_rope_fp8_quant" ->
            <<"out", ((GroupOfHead(h) * rotCall.tokens + t) * HeadsPerGroup + InGroup(h)) * rotCall.size>>
       [] OTHER -> <<"out", row * rotCall.size>>

(* The elements that share a scale, if any. *)
ScaleBlock ==
  CASE rotCall.op = "deepseek_inv_rope_fp8_quant" -> ChunkElems
    [] rotCall.op = "deepseek_fused_indexer_q_rope_fp8" -> rotCall.size
    [] rotCall.op = "deepseek_fused_indexer_q_rope_mxfp4" -> 2 * RotLanes
    [] OTHER -> 0
ScaleOfBlock(f, b) == Bag(f, {d \in Dim : d \div ScaleBlock = b})
HeadPromises ==
  LET answer == [x \in HeadIndex |-> Answer(x[1], x[2], x[3])]
      blocks == IF ScaleBlock = 0 THEN {} ELSE {d \div ScaleBlock : d \in Dim}
      scale == [x \in HeadIndex |-> [b \in blocks |-> ScaleOfBlock(answer[x], b)]]
      value(x, d) == IF ScaleBlock = 0 THEN answer[x][d]
                     ELSE By(answer[x][d], "scale", scale[x][d \div ScaleBlock])
      at(x, d) == <<ResultAt(x[1], x[2], x[3])[1], ResultAt(x[1], x[2], x[3])[2] + d>>
      packed(x, d) == <<"out", (ResultAt(x[1], x[2], x[3])[2] + d) \div 2>>
      scaleRow(x) == IF rotCall.op = "deepseek_inv_rope_fp8_quant"
                     THEN (GroupOfHead(x[3]) * rotCall.tokens + x[2]) * HeadsPerGroup + InGroup(x[3])
                     ELSE x[2] * rotCall.heads + x[3]
      weight(x) == Val({<<"weight", x[2] * rotCall.heads + x[3]>>})
  IN CASE rotCall.op = "deepseek_fused_indexer_q_rope_mxfp4" ->
            {Promise(packed(x, d), <<value(x, d), value(x, d + 1)>>) :
               x \in HeadIndex, d \in {d \in Dim : d % 2 = 0}}
            \cup {Promise(<<"scales", scaleRow(x) * 4 + b>>, scale[x][b]) : x \in HeadIndex, b \in blocks}
            \cup {Promise(<<"weights", scaleRow(x)>>, weight(x)) : x \in HeadIndex}
       [] rotCall.op = "deepseek_fused_indexer_q_rope_fp8" ->
            {Promise(at(x, d), value(x, d)) : x \in HeadIndex, d \in Dim}
            \cup {Promise(<<"weights", scaleRow(x)>>, By(weight(x), "scale", scale[x][0])) : x \in HeadIndex}
       [] rotCall.op = "deepseek_inv_rope_fp8_quant" ->
            {Promise(at(x, d), value(x, d)) : x \in HeadIndex, d \in Dim}
            \cup {Promise(<<"scales", scaleRow(x) * ChunksPerHead + b>>, scale[x][b]) :
                     x \in HeadIndex, b \in blocks}
       [] rotCall.op = "kv_compress_insert" -> {}
       [] OTHER -> {Promise(at(x, d), value(x, d)) : x \in HeadIndex, d \in Dim}

(* A token's entry of the cache: as it is, or in bytes with the scales of  *)
(* its blocks behind those of all tokens of the cache block.               *)
EntryBytes(f, slot, stride, scaleBytes) ==
  LET base == (slot \div rotCall.blockSize) * rotCall.blockStride
      data == base + (slot % rotCall.blockSize) * stride
      scales == base + rotCall.blockSize * stride + (slot % rotCall.blockSize) * scaleBytes
      block(d) == {e \in 0 .. NopeDim - 1 : e \div (4 * RotLanes) = d \div (4 * RotLanes)}
      starts == {d \in 0 .. NopeDim - 1 : d % (4 * RotLanes) = 0}
  IN {Promise(<<"cache", data + d>>, By(f[d], "scale", Bag(f, block(d)))) : d \in 0 .. NopeDim - 1}
     \cup {Promise(<<"cache", data + NopeDim + 2 * (d - NopeDim) + j>>, By(f[d], "byte", j)) :
              d \in NopeDim .. rotCall.size - 1, j \in Half}
     \cup {Promise(<<"cache", scales + d \div (4 * RotLanes)>>, Bag(f, block(d))) : d \in starts}
     \cup {Promise(<<"cache", scales + i>>, EmptyBag) : i \in Cardinality(starts) .. scaleBytes - 1}
CachePromises ==
  LET entry(t) == Spun(t, Given("k", t * rotCall.strides[2]))
      kept == {t \in Tokens0 : rotCall.slots[t + 1] >= 0}
      sparse == {t \in kept : /\ rotCall.pos[t + 1] >= 0 /\ SparseState.kvSlots[t + 1] >= 0
                                /\ (rotCall.pos[t + 1] + 1) % SparseState.ratio = 0}
  IN CASE rotCall.op = "qnorm_rope_kv_insert_bf16" ->
            {Promise(<<"cache", (rotCall.slots[t + 1] \div rotCall.blockSize) * rotCall.blockStride
                                  + (rotCall.slots[t + 1] % rotCall.blockSize) * rotCall.size + d>>,
                     entry(t)[d]) : t \in kept, d \in Dim}
       [] rotCall.op = "qnorm_rope_kv_insert_fp8" ->
            UNION {EntryBytes(entry(t), rotCall.slots[t + 1], NopeDim + 2 * rotCall.rot,
                              NopeDim \div (4 * RotLanes) + 1) : t \in kept}
       [] rotCall.op = "kv_compress_insert" ->
            UNION {EntryBytes(Compressed(t), SparseState.kvSlots[t + 1], SparseState.tokenStride,
                              SparseState.scaleDim) : t \in sparse}
       [] OTHER -> {}

(* When all have run, every pair of every head has been turned exactly     *)
(* once, in the operator's direction, by the angle of its own offset at    *)
(* its own position (of its own section), after a norm over its whole head *)
(* where there is one, and is where the layout has it, under the scale of  *)
(* exactly the elements that share one; a token's entry is in its slot,    *)
(* and nothing else has been written.                                      *)
Rotated ==
  (\A k \in DOMAIN rotAt : rotAt[k] = StepsOf(k)) =>
    LET promises == HeadPromises \cup CachePromises
        before == TensorsBefore
    IN /\ \A p \in promises : rotMem[p.at] = p.is
       /\ \A a \in DOMAIN rotMem \ {p.at : p \in promises} : a \in DOMAIN before /\ rotMem[a] = before[a]
=============================================================================
