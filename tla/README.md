# Verification of vllm-xpu-kernels

vllm-xpu-kernels is the extension library that gives vLLM its kernels on Intel
GPUs: SYCL kernels and their host code under `csrc/`, and thin Python wrappers
under `vllm_xpu_kernels/`. This directory holds TLA+ models of the parts of it
whose correctness rests on an order of steps or on who touches which address
rather than on a formula (locks and callbacks, atomics and barriers between
work-items, schedules of tiles, caches that outlive a call, buffers handed on
behind a running queue), the configurations that model-check them with TLC, and
theorems about them checked by TLAPS.

## 1. The system

### Components

| component | code | state it keeps | operations | what is hard | what makes it right |
|---|---|---|---|---|---|
| Device memory allocator | `csrc/utils/mem_alloc.cpp` | `g_memory_map` and its mutex, the global `error_code`, per pointer a reservation and physical memory | `my_malloc`, `my_free` (called by torch), `python_unmap_and_release` (sleep), `python_create_and_allocate` (wake), `py_init_module` | threads, the GIL and a mutex, Python callbacks with no lock held, driver calls that throw | table, driver, Python's records and torch's pointers agree; failures are reported; nothing is lost |
| Grouped GEMM (XE2) | `csrc/xpu/grouped_gemm/xe_2/` | a global tile counter, one word of local memory per work-group, split barriers | one persistent kernel | work-groups race for tiles; one word is reused without a second barrier | every tile exactly once; a group never parts |
| Grouped GEMM (default) | `csrc/xpu/grouped_gemm/xe_default/`, `collective/` | tile index | CUTLASS kernel | index arithmetic over groups | every tile once |
| MoE block alignment | `csrc/moe/moe_align_sum_kernels.cpp` | counters in local memory, `cumsum`, `sorted_token_ids`, `expert_ids`, `token_mask`, totals | `moe_align_block_size`, its LoRA form, each for large and small batches; `batched_moe_align_block_size`, `moe_sum` | two work-groups per adapter, ranks by atomics, two kernels in a queue, uninitialised outputs | each slot once, in a block of its expert; padding elsewhere |
| Fused MoE layer | `fused_moe_interface.py`, `csrc/moe/remap_hidden_states.cpp`, `moe_gather.cpp`, `init_expert_map.cpp` | `rows_per_expert`, `unpermuted_row_to_permuted_row`, remapped activations and scales | remap (two kernels), two GEMMs, gather | local and global atomics, a buffer overwritten in place, rows left as garbage | rows grouped as the GEMMs read them; each token its experts' results |
| MoE routing | `csrc/moe/topk.cpp`, `grouped_topk.cpp`, `topk_softplus_sqrt_kernels.cpp` | none between calls | top-k of scores, with groups and bias | ties, invalid scores | k distinct best experts |
| MoE preparation | `reorder_mxfp_scales.cpp`, `moe_utils.py` | none | layout permutations | index arithmetic | a permutation |
| Split-K paged decode | `csrc/xpu/attn/xe_2/paged_decode.hpp` and its kernel, `chunk_prefill_scheduler.hpp`, `flash_attn_interface.py` | a host plan, partial outputs and log-sum-exps in uninitialised buffers, local memory | plan, attention kernel, reduction kernel | splits skipped by two formulas, buffers from an earlier launch, barriers | each visible tile counts once |
| Chunk prefill, KVarN, merge of states, dispatch, MQA logits | `csrc/xpu/attn/`, `csrc/flash_attn/`, `csrc/attention/`, `csrc/xpu/mqa_logits/` | none between calls | attention kernels | tile ranges, masks, windows | every visible key once |
| Gated delta net | `csrc/xpu/gdn_attn/` | convolution and recurrent states per sequence, in a cache | causal convolution, chunked delta rule, speculative steps | state carried between chunks and calls | chunked equals step by step |
| KV block swap | `csrc/utils/mem_cpy.cpp`, `csrc/cache.cpp` | in-order queues, the caching host allocator with its events, the current device | `swap_blocks`, `swap_blocks_batch`, `xpu_memcpy_sync` | copies run behind the host, pinned buffers are recycled, several devices share a context | a copy takes effect as if made at the call |
| KV cache kernels | `csrc/cache.cpp`, `csrc/xpu/sycl/*kv*insert*` | paged key and value caches | reshape and cache, gather, concat | padding slots, strides | each slot its token |
| oneDNN GEMM and primitive cache | `csrc/xpu/onednn/` | thread-local LRU caches of primitives, streams | matmul for each format | keys that must tell shapes apart | a hit is the right primitive |
| Top-k per row | `csrc/topk_per_row.cpp` | local histogram, sort items in the same memory, counters, partial results in global memory | prefill and decode selection, split and merge | local atomics, a union reused across barriers, steps that build on the count of earlier ones, rows that start inside a vector | the k largest, once each |
| Samplers, random numbers | `csrc/xpu/sampler/`, `csrc/xpu/rand/` | local sums, bit masks | selection by threshold; sampling | reductions around reused local memory | what is kept holds the k largest and the mass of p |
| Norms, activations, rotary embeddings, quantisation, LoRA, mhc | `csrc/layernorm*.cpp`, `csrc/activation.cpp`, `csrc/quantization/`, `csrc/xpu/lora/`, `csrc/xpu/mhc/` | local memory of reductions | element-wise kernels and row reductions | barriers around reused local memory | the formula |
| Memory queries, host registration, views; bindings, build, tools | `csrc/utils/`, `csrc/*bindings*`, `tools/` | registrations | driver calls, registration of operators | - | - |

`PROJECT.json` lists every component with its sources and whether it is
modelled, and every hazard of the code at its line with the properties that
cover it.

### How they interact

Everything a model's layer does on a device goes through the current SYCL queue,
which is in order: kernels and copies of one queue never overlap, and most pairs
of kernels here rely on that alone (the two alignment kernels, attention and
reduction, remap, GEMM and gather). Within a kernel, work-items of a group meet
at barriers and share local memory; work-groups share only global memory and
atomics. The host runs ahead of the queue: what it frees or overwrites while a
copy is queued is protected by events (pinned memory) or by waiting (pageable
memory). The KV cache and the states of the gated delta net outlive calls: the
writers (`reshape_and_cache` and its kin, the fused DeepSeek inserts, the
convolution and the delta rule) and the readers (paged attention, the gathers,
the next call) agree only on slots, pages and layouts. A primitive of oneDNN is
found by a key its caller makes. The memory allocator is called by torch from
any thread without the GIL, calls back into Python, and is called by Python for
sleep and wake. `XpuFusedMoe` composes the remap kernels, the grouped GEMM and
the gather; `mha_varlen_fwd` composes prefill and decode launches over one
batch, and paged decode a plan made in Python with two kernels.

## 2. The modules

| component | modules |
|---|---|
| Device memory allocator | `DeviceLease` (what it promises), `XpuMem`, `MCXpuMem`, `MemoryProofs` |
| Grouped GEMM (XE2) | `GroupedGemm`, `GemmProofs`, `MCGemm` |
| oneDNN GEMM and primitive cache | `PrimitiveCache` (the caches), `GemmProofs`, `DenseGemm` (the five products), `MCDenseGemm`, `MCGemm` |
| MoE block alignment | `MoeRouting` (the inputs and what is expected), `MoeAlign` (large batches), `MoeAlignSmall`, `MoeAlignOp` (both operators), `MoeAlignProofs`, `MCMoe` |
| Fused MoE layer | `MoeLayer` (what it promises), `MoeRemap` (the remap kernels), `FusedMoe` (the layer), `FusedMoeProofs`, `MCMoe` |
| MoE routing | `ExpertTopK` (softmax, sigmoid, softplus), `GroupedTopK`, `MCTopKPerRow` |
| Split-K paged decode | `SplitAttention` (what it promises), `DecodePlan` (plan and shares), `PagedDecode`, `PagedDecodeProofs`, `MCPagedDecode` |
| Chunk prefill and dispatch | `AttentionTiles` (tiles, pages, surfaces, masks), `VarlenAttention` (`mha_varlen_fwd` and its kernels), `MCPagedDecode` |
| Gated delta net | `GdnAttention` (the calls over the caches), `GdnProofs`, `GdnChunk` (the chunked rule against the sequential one), `MCCaches` |
| KV cache kernels | `KvCache`, `MemoryProofs`, `RotaryKernels` and `Rotary` (the DeepSeek inserts), `MCCaches` |
| KV block swap | `CopyMemory` (what it promises), `MemCpy`, `MemoryProofs`, `MCCaches` |
| Norms, activations, quantisation | `RowPasses` (what a kernel is made of), `RowKernels` (the operators, their kernels and running them), `MCCaches` |
| Rotary embeddings | `RotaryKernels` (what a work-item writes), `Rotary` (launches and promises), `MCCaches` |
| Samplers | `Sampler` (the sampler and the mask of what it kept), `SamplerProofs`, `MCTopKPerRow` |
| Top-k per row | `TopKRow` (one work-group), `TopKPerRow` (the operators), `MCTopKPerRow` |

Definitions keep the names of the code where TLA+ allows it; `PROJECT.json`
"map" gives the lines each stands for. A definition whose comment begins with
"Mutant of" is not part of a model: it is a plausible bug in the definition
after it, used to see that a property can fail. An MC module that instantiates
several components puts them side by side: a behaviour belongs to one of them,
and the others stay idle. `NatLemmas` holds what the proofs share: induction
over the naturals, sums, iteration, quotients and remainders.

**XpuMem.** One action per stretch of code between two points where another
thread can interfere: a lock, a driver call, a callback, a test of the shared
`error_code`. A thread's local variables are functions of the thread; `memMap`
is `g_memory_map`, `mutex` its lock, `error` the flag `error_code != 0`, `va`
the driver's view of each address, `pyRec` what the malloc callback recorded
(the recorder of `tests/test_mem_alloc.py`), `owned` what torch holds. Every
driver call may succeed or throw, and every throw leaves the object as far as
the code got. `DeviceLease` is the abstract allocator: an address is taken,
sleeps, wakes and is given back.

**GroupedGemm.** Work-items at the grain of barriers. `counter` is
`atomic_buffer`, `slm` the word of local memory, `gid`, `expert` and `kTile` the
variables of the persistent loop, `arrived` the split barrier's arrivals. `Scan`
is the loop over experts from where the last tile left off. `written` counts
stores per part of a tile; arithmetic is left out.

**PrimitiveCache, DenseGemm.** `PrimitiveCache` is `lru_cache.h` with the
argument slots of `primitive_ext`: a call finds or builds a primitive (`Get`),
fills its slots (`SetAttributes`), and submits (`Execute`), and another thread
may come between. What a key is made of, what is built and which slots are used
are parameters, so that the proof holds for any of them. `DenseGemm` gives them
their values for each operator: from the sizes, strides and scales of a call's
tensors to the numbers oneDNN is asked with, and, by `Multiplied`, what oneDNN
does with those numbers against what the tensors ask for. A value is the set of
addresses it is made of.

**MoeRouting, MoeAlign, MoeAlignSmall, MoeAlignOp.** `MoeAlign` is the
large-batch pair of kernels: for each adapter a group that counts and names
blocks, a group that fills, then the sort by atomics; `MoeAlignSmall` the
single-group form with a counter row per thread. `MoeAlignOp` chooses between
them as the two operators do. Outputs start as junk where the code calls
`torch::empty`. The inputs are what the callers give: slots of whole tokens,
room for every expert's padded slots as `moe_align_block_size_ops.py` reserves
it, and `lora_ids` without repeats, as `torch.unique` makes them.

**MoeRemap, FusedMoe.** `MoeRemap` has both remap kernels at the grain of
work-items and barriers: local counters, the base of a group taken by a global
atomic, ranks corrected, then per token the cumulative rows, the row of each
slot, the copy and the store of the rows over the ranks. `FusedMoe` adds the two
grouped GEMMs as one step over rows (how the tiles are shared out is
`GroupedGemm`'s matter; only `rows_per_expert` is common), and the gather. Rows
and scales carry the token they are a copy of. `MoeLayer` says that a token is
answered once, with the results of its experts and no others.

**DecodePlan, PagedDecode.** `DecodePlan` holds, as pure operators,
`build_decode_split_plan` (Python), the shares of the plan-less kernel, and what
the reduction takes to be the number of splits. `PagedDecode` runs one launch:
attention work-groups in any order, each attending, or skipping and leaving its
slot as garbage, then the reduction at the grain of its barriers. The attention
of a set of tiles is the set of those tiles with a weight; the softmax is left
out. `SplitAttention` says every tile a query sees counts exactly once.

**AttentionTiles, VarlenAttention.** `AttentionTiles` is the address arithmetic
of the collectives: which range of K tiles a work-group takes under causal and
window masks, where a tile lies by the page table, the sub-surfaces of a cache
too tall for a descriptor (rows past a surface read as zeros), and the masks.
`VarlenAttention` is a call: the checks, the choice between prefill and decode
for each part of a mixed batch, the launches, and the sub-groups going from tile
to tile with a barrier each. `RowsAttended` compares with the keys a query may
see by the definition of the masks.

**GdnAttention, GdnChunk.** `GdnAttention` keeps values symbolic: a state is the
sequence of rows absorbed, so that a state taken from the wrong column, a
convolution line shifted by the wrong count or a speculative token not undone
shows as a wrong sequence (`CachesHold`, `AnswersRight`). A call is a chain of
kernels whose work-groups run in any order. `GdnChunk` is the arithmetic of a
chunk: both rules over the integers modulo a prime, where equality is exact and
`exp` a power of a primitive root, with the two inverses block by block and the
barriers of the kernel that carries the state from chunk to chunk.

**KvCache.** Memory is flat and addresses are computed as each writer and gather
computes them; an element is known by its token and place. A work-group stores a
token, in any order.

**MemCpy.** The host as one thread, a queue per device whose operations are
executed whenever the device likes, the caching host allocator (external) that
hands a buffer out again when nobody holds it and its events are over, and calls
split into the submissions they make. Callers keep the contract the code states,
written as `Undisturbed`: no other device is at work on the blocks they name,
and what a staged copy reads at once has been written. `CopyMemory` is a memory
where a copy is done at once; `CopiesMadeAtCall` is the refinement, whose
mapping (`Settled`) takes memory to what it will be when the queues are empty.
`CopiesApart` is why it holds: what waits in two queues never meets.

**RowPasses, RowKernels.** A row kernel is a program of passes
between which the work-items of a group reduce or meet at a barrier. A number is
known by where it comes from: the elements summed in it and what was done to it
with which statistic. `RowKernels` has the vector widths, group sizes and
guards of each operator; `RowsComputed` names what the operator should have made
of each element of the row.

**RotaryKernels, Rotary.** As for rows, but a step is all a work-item or
sub-group does, since they share only memory they turn in place. `Rotated` says
each element was turned once, with its partner, by the angle of its position,
and otherwise treated as the operator says.

**TopKRow, TopKPerRow.** A logit is the integer key the code makes of its bits,
in three digits; the first step bins it by a constant monotone function
(rounding to half precision). Phases between barriers whose outcome does not
depend on the order of work-items (the histogram, a round of prefix sums with
its early exit, the sort) are one action; placing elements, where atomics hand
out slots, is one action per element, each work-item in the order
`vectorized_process` gives it. Keeping an element to sort overwrites the
histogram, as the union does. `TopKPerRow` starts the jobs: a whole row, or the
parts of a split row and then the merge of their results. `rebinned` is a
history variable: a second step has begun with elements already selected, which
is where the selection goes wrong (finding 4).

**Sampler.** Each reduction of the work-group is a step. The
searches for the pivots of k and p run as written, with their bound on
iterations; logits are integers, whose exponentials and random noise are tables.
The packing of the mask (`StartMask`, `Wave`) takes what the sampler left, wave
by wave.

**ExpertTopK, GroupedTopK.** A round of the selection is a step: a lane's own
best, a butterfly over the lanes (or an argmax over the workspace), and the
blanking of the winner. `GroupedTopK` has the sums of the two best by group and
the bitonic network of the warp select, compare-and-swap by compare-and-swap.

## 3. The runs

| run | shows |
|---|---|
| `xpumem_safety` | two threads, two addresses, every driver failure: table, driver, records and owners agree (`TableMatchesDriver`, `HandlesTracked`, `OwnedRecorded`), an entry in flight has one carrier (`Custody`), the allocator implements `DeviceLease` (`LeaseRefined`), operations return (`OpsReturn`); and where one thread alone calls, failures are reported, an address is freed only unmapped (`SoundAlone`) and only a failed driver call loses one (`LossAlone`) |
| `xpumem_lost_error` | violation: with two threads a failure is reported as success |
| `xpumem_sleep_leak` | violation: after a wake that failed, sleep releases nothing and reports success |
| `gemm` | grouped: work-items of a group stay on one tile, groups never share one, every part of every tile is written once, the kernel ends. Dense: each product runs the primitive built for it with its own operands (`Served`) and computes what its tensors ask for (`Multiplied`) |
| `int4_two_layouts` | violation: a second layout of scales under the same shape runs the primitive of the first |
| `moe_layer` | alignment: slots, padding, block names and totals come out right and inactive adapters are untouched (`SlotsPlaced`, `RowsRight`). The fused layer: ranks are distinct, rows are grouped as the GEMMs read them, each token gets its experts' results once (`LayerKept`). Both end (`AllServed`) |
| `moe_align_lost_total` | violation: the large LoRA form may leave an adapter's total at 0 |
| `paged_decode` | split-K launches: plans keep their contract, no garbage reaches an output, each visible tile counts once, the launch ends. `mha_varlen_fwd`: every query attends to its own keys and no others, whatever kernel serves it (`RowsAttended`) |
| `top_k_row` | no slot of an answer is left unwritten, and unless a second step begins with elements selected the answer names the k largest, each once (`RowSelected`); the kernels end (`Selected`). The sampler keeps what k and p keep and draws the best of it (`RowSampled`), the mask says so (`SupportPacked`), the routers pick as a sort would (`ExpertsChosen`, `GroupsChosen`) |
| `top_k_row_twice` | violation: a second step selects elements of the first again |
| `caches` | prefill, decode and speculative decode read the states the earlier calls left (`AnswersRight`, `CachesHold`); the chunked rule is the sequential one (`ChunkRight`); tokens lie in their slots (`TokensHeld`) and come back by the gathers (`GatheredBack`); swaps take effect as if made at the call (`CopiesMadeAtCall`); rows and rotary pairs are computed from their own elements (`RowsComputed`, `Rotated`) |
| `kv_fp8_scale` | violation: the FP8 writers of `reshape_and_cache` multiply by the scale that readers multiply by again |

### Bounds

- `xpumem_*`: two threads are enough for every race on `error_code`, the mutex
  and the callbacks, since each involves a pair; two addresses let one be reused
  while the other is used. The callers are chosen initially, one thread or both.
- `gemm`: 2 groups of 2 work-items, 2 experts, up to 3 rows in blocks of 2, 2
  columns: empty experts, partly filled blocks, more tiles than groups, and a
  second fetch, which is where the word of local memory is reused. One K block
  is the hardest case: more only add barriers between fetch and reuse. A dense
  process makes two to nine different calls, in any order and any number of
  times, over a cache of 2 primitives: enough to hit, miss, evict and rebuild.
  The calls cover each operator, layout of scales, bias and stride.
- `moe_layer`: for the alignment 2 slots, 2 experts, blocks of 2, 3 work-items
  with warps of 2 (an idle work-item, an expert without a slot, a slot without
  an expert), adapters in use, absent, out of range and disabled (5 requests);
  `Limits` and `SmallExperts` scale down the thresholds of the small form (1024
  slots, 64 experts) so that both forms are taken. For the layer 2 tokens with 2
  experts each out of three choices, 4 of 8 experts on the device, groups of 3
  work-items: two groups (so bases matter), an idle work-item, a work-item in
  charge of two experts; rows of 3 chunks over 2 copying work-items.
- `paged_decode`: tiles of 2 tokens and sequences of 0, 5, 8 and 9: 0 to 5 tiles
  over 1 to 3 splits, with and without window and prefill mask. Four tiles over
  three splits is the smallest case where equal shares leave a split empty and
  the plan does not. Varlen calls: batches of one to three sequences of up to 11
  keys, dense, paged (pages of 1 to 4 tiles, adjacent or apart) and mixed, under
  five masks; surfaces of 16 rows, so that caches need several.
- `top_k_row`: 4 bins scanned in 2 rounds by 2 work-items, 2 to select, 2 to
  sort; rows of 4 or less and split rows of up to 6, over keys that differ in
  every digit and in half precision only. Rows of three equal keys are the
  smallest that go through all four steps. The sampler: 9 tokens over 4
  work-items with vectors of 2 (whole waves and a rest); the routers: 1 to 16
  experts on 4 lanes.
- `caches`: two sequences, prefills of up to 3 tokens, 2 speculative tokens, 3
  calls and 6 tokens in all: a state is carried over two calls, rejected tokens
  are overwritten. Chunks: batches of one or two sequences, of a part of a chunk
  or one chunk and a part of the next, of 8 tokens in blocks of 2, modulo 11.
  Copies: 2 devices, pageable memory and a pool of 2 buffers, of which the
  program holds at most 1; 2 calls (a buffer is recycled under a copy) and 1
  store; the map exchanges two blocks after an empty entry. Pages: 4 pages of 2
  slots, two sequences whose pages are out of order, and padding. Rows: lengths
  on both sides of each vector width and group size, aligned and not, over 8
  work-items; rotary: both styles, full and partial, 2 tokens.

Deadlock is not checked where a kernel or a bounded program simply ends.

### Fairness

- XpuMem: weak fairness of each thread's step, and strong fairness of the steps
  that take the mutex or the GIL: CPython hands the GIL over at its switch
  interval and the OS lets a waiter for the mutex in. Starting an operation is
  never forced.
- GroupedGemm: weak fairness of each work-item. Groups do not wait for one
  another, and a barrier requires the work-items of a group to run together.
- The MoE, attention and top-k runs: weak fairness of the next step only: the
  device goes on while anything can. This is the weakest assumption and enough,
  since no step repeats.
- `caches` and the dense products: none, and no liveness is claimed.

## 4. What is proved

All theorems hold for every value of the constants that the ASSUMEs of the
modules allow. Type correctness is part of each inductive invariant.

**Allocator** (`MemoryProofs`). Any number of threads, addresses and devices.
The inductive invariant joins the five invariants of `xpumem_safety`; each is
needed by the others (the table agrees with the driver only because an address
in a thread's hands has one carrier, `Custody`, and frees concern only recorded
pointers). `LeaseImplemented`: every step of `XpuMem` is a step of `DeviceLease`
or leaves its variables alone. Where one thread alone calls (`SoundWithOneCaller`,
`LossWithOneCaller`), it is the only one that writes `error_code` (`SingleWriter`),
so what it reads is what its last driver call left; with two this is false
(`xpumem_lost_error`).

**Grouped GEMM** (`GemmProofs`). Any launch. The invariant says where a
work-item may be relative to the barrier it last passed (`Lockstep`) and that
the numbers fetched or held are below the counter (`Given`). From it,
`LanesStayTogether` (SameTile) and `TilesNotShared`. `EveryTileOnce` (Complete)
adds, with the prefix sums of the experts' tiles, that a number names one tile
and a tile one number, and that a tile below the counter is written or held
(`TileInv`).

**Primitive cache** (`GemmProofs`). Any threads, capacity, keys and
primitives. `CacheServes`: what is submitted is the primitive built for the call
with the call's own operands, provided `KeysTell`: two calls of a thread that
use one cache and have one key need the same primitive. The inductive invariant
says that every entry was made for a call of its thread with that key
(`EntriesKept`) and that a call that has set its attributes has them in its
entry's first slots (`AttributesSet`); it survives eviction because the entry in
use is the one moved to the front, and other threads because caches are
`thread_local`. `KeysTell` is what `int4_two_layouts` shows to fail when a
thread mixes layouts of scales; the instance of `gemm` assumes it, and TLC
evaluates it there.

**Paged decode** (`PagedDecodeProofs`). Any batch, tile size, window and plan
target. `Planning` is arithmetic: `count` and `start` as the code computes them
(quotient and remainder, with the remainder spread over the first splits) share
out the tiles without gap or overlap. `Cleanliness` and `Refinement` rest on an
invariant that ties each slot of the partial buffers to the split that owns it
and each stage of the reduction to the barrier before it.

**MoE block alignment** (`MoeAlignProofs`). Any number of experts, adapters,
slots and work-items, both forms of both operators, for the inputs and the room
named under section 2. `EverySlotPlaced` and `EveryRowRight` first need a fact
about sums: the padded ranges of the experts lie side by side (`Layout`) and end
within what the caller reserves (`LayoutFits`), so that a position determines
its expert. The large form's invariant (`LargeInv`) has, for each adapter in
use: while counting, a counter is the number of its expert's slots passed
(`Tallied`); once summed, `cumsum` is where each expert starts; a block is named
as soon as the work-item in charge has passed it (`NamedBy`); the sort begins
after the fill, which the queue gives; and while sorting, an expert's counter is
its start plus the ranks taken, a rank held or used is nobody else's
(`RanksApart`), and what was stored stays (`StoredOnce`). At the end the ranks
of an expert are as many as its slots, so every slot is stored and what the fill
left is padding. In the small form (`SmallInv`) a column of the table of counts
becomes the sums of the earlier work-items' counters plus what they have placed
themselves: a place is the start plus the slots ahead (`PlaceOf`), which is why
it depends on the input alone. `Untouched` carries the rows of the adapters that
are not in use. The total of the large LoRA form stays out, for the reason of
finding 3, and that the kernels end (`AllServed`) is model-checked.

**Fused MoE** (`FusedMoeProofs`). Any number of slots, experts, work-groups and
work-items. `RemapRanks`: ranks are distinct and below the expert's count. The
invariant has two halves, before and after a group takes its base for an expert:
ranks distinct among the group's slots and below its counter (`LocalRanks`),
then rank plus base distinct among all slots and below `rows_per_expert`
(`GlobalRanks`), with the phases (`Ordered`) and the strided loop over the
experts (`LoopsKept`) saying which half a slot is in; in each half every rank
below the counter is some slot's (`LocalOnto`, `GlobalOnto`). `RowsAreGrouped`
goes on from there (`RowsInv`): the rows of an expert begin at the sum of the
counts before it, so row and rank determine the slot, and by counting each row
of the segment is a slot's. `LayerImplemented`: the rows a token gathers are
therefore those of its experts on this device. `MapsPartition`: each expert is
on exactly one device.

**Copies** (`MemoryProofs`). Any number of devices, buffers, blocks and calls.
`CopiesStayApart` is the inductive invariant: operations waiting in two queues
touch no block one of them writes, a buffer of the host allocator that a queue
still works on has an event behind the last such operation, and a staged batch
holds its source until it is copied. `CopiesImplemented` maps memory to what it
will be when the queues are empty. Operations that stay apart commute, so
executing the head of any queue leaves that memory as it is, and submitting a
copy changes it as the copy does at once.

**KV cache** (`MemoryProofs`). Any number and size of heads, pages, vectors and
groups, and any batch whose pages are its sequences' own (`KvCallAssumption`,
which TLC evaluates). `TokensKept` (TokensHeld) is inductive with the domain of
the memory (`KvOK`), and rests on three facts. In a tensor of any rank an
address in row-major order belongs to one index only (`RowMajorApart`), and is
within the tensor (`RowMajorInside`). Each writer visits every element,
whatever the vector width and misalignment (`AlignedAll`, `StridedAll`), and its
own address arithmetic lands on the documented place (`PagedPlaces`,
`FlashPlaces`, `StridedPlaces`). And a slot is one token's (`FreshApart`). So no
store of a token meets a place of another (`TokensApart`), in any order; padding
stores nothing. For the latent and the indexer's layout, `GathersRight`
(GatheredBack) has the invariant `WholeOK`. While tokens are stored, every
address a stored token lays claim to has that token's element or scale
(`WholeHeld`): values of a block come before its scales, which are counted in
floats by the writer and in bytes by the gather (`ScaleWord`), and the writer's
sub-groups are the quantisation blocks (`QuantRows`). Nothing is gathered before
all is stored; from then on a row whose work-group is done has what it should
(`RowsHeld`): rows are of one sequence (`RowsApart`), the vectors of the gather
are all elements (`ChunksAll`), one work-item reads each scale (`LeadersAll`),
and rounding up gives every block to one split, the last of which may be in part
(`UnitIn`, `BlocksAre`). The indexer's vectors must be of 4, which is what makes
`ScaleWord` true (`KvSizeAssumption`: a quantisation block is a multiple of 4).

**Gated delta net** (`GdnProofs`). Any number of sequences, taps of the
convolution, speculative columns, chunk size, prompt lengths and calls, and any
order of the work-groups. `AnswersAreRight` and `CachesAreKept` follow from one
inductive invariant, `GdnInv` (`GdnInvariant`), in four parts:

- what the host makes of a call (`CallOK`): a sequence that is fed has one entry
  of one chain, whose slot, start, token indices, flags and accepted count are
  its own (`EntryOK`); the other entries are pads (`PadOK`). This is where
  prefix sums are reasoned about, for `query_start_loc` and for the padded rows
  of the chunked buffers;
- what is still to run is a suffix of what was submitted (`QueueOK`), so what a
  kernel reads was written by the ones before it;
- per entry, what its part of the buffers and caches holds, by the kernels that
  have run and the work-groups still in `todo`: `NativeInv`, `ChunkInv` and
  `SpecInv`. They hold the hard part: while a prefill is convolved its line in
  the cache is as the last call left it, because only its last token saves, and
  to `conv_states_tmp`; a decode's line may be new as soon as its token ran; a
  speculative line is read and rolled by one work-group;
- per sequence that the call does not feed, or whose kernels have yet to write,
  its line and columns are those of the last call (`AtRest`).

The invariant was checked by TLC as an invariant of the instance before it was
proved. An entry's part is a function of what no other entry writes (`View`), so
that a step of one entry disturbs no other: slots of two sequences are disjoint,
rows of two entries are disjoint in both layouts (`OutToken` is injective),
outputs by the token indices. The rule takes its rows by the order of tokens
within the entry; for the chunked one a row of the padded buffer is the token's
because the sequence's first row is a multiple of the chunk size. `RolledLine`
is solved by induction: row by row it reads ahead of what it writes, and so
moves the old rows unharmed.

**Sampling mask** (`SamplerProofs`). Any vocabulary, number of work-items (even,
as whole sub-groups are), vector size, width of `token_ids` and rows, after any
call of any of the four kernels. `MaskPacksSupport` (SupportPacked) needs two
things of the sampler (`SamplerOK`): that the work-items' slices and the vector
loops over them, tail included, reach every token, so that no logit given back
is what the allocator left; and that what is given back is masked exactly where
a token was dropped. The mask's own invariant (`MaskOK`) says that the rows done
are packed, and that the row under way has the tokens before its wave behind it
(`RowHalfPacked`): their number is the running count, their ids are at their
ranks, their bytes are stored. A wave keeps it because its scan on top of that
count is the number of tokens kept before a work-item (`KeptBeforeCounts`), so
that a place is a rank (`PlaceIsRank`) and no two work-items store to one; and
because a byte is the chunks 2b and 2b + 1, which an even number of work-items
keeps in one wave (`WaveBits`). Which tokens are kept is `RowSampled`'s to say,
and TLC's to check.

**Only model-checked**: liveness under fairness (TLAPS does not reason about
ENABLED), and these safety properties, each because its meaning is a function
defined by recursion over the data, which no installed prover can reason about
for all inputs at once, or because it only says something about one given input:
the selections and the sampler (`RowSelected`, `RowSampled`, `ExpertsChosen`,
`GroupsChosen`: bisections, bitonic networks and arg-max butterflies over a row against its sorted order); the chunked rule
(`ChunkRight`: products of matrices over a finite field); varlen attention
(`RowsAttended`: page tables and masks of given batches); the dense products
(`Multiplied`: strides of given tensors); rows and rotary pairs
(`RowsComputed`, `Rotated`: launches whose widths and layouts are those of the
instance). Where a proof needs induction over the naturals (prefix sums, a queue
run to its end), it is obtained from the well-foundedness of `<` (`NatInduct` in
`NatLemmas`), since no installed prover instantiates an induction rule.

## 5. Findings

1. `error_code` is one global that every driver call of every thread overwrites.
   A sleep or wake that failed is reported as success when another thread's call
   succeeds in between (`xpumem_lost_error`).
2. After a wake whose map threw, physical memory stays behind an entry marked
   unmapped; the next sleep skips it and reports success (`xpumem_sleep_leak`).
3. Both work-groups of an adapter store 0 to its total and nothing orders the
   filling group's store before the counting group's result
   (`moe_align_lost_total`).
4. Step 1 of the top-k selection bins every element of the row again, with those
   step 0 has selected, on top of their count (`top_k_row_twice`): with one large
   logit and more than 2048 in the threshold's bin, the large one is named twice
   and another not at all. A split row shorter than k meets this in the merge,
   whose padding fills a bin.
5. `int4_gemm_w4a8` packs two counts into 64 bits and passes them as an int, so
   the key forgets how the input was quantised (`int4_two_layouts`).
6. The FP8 branch of `reshape_and_cache` multiplies by the scale
   (`kv_fp8_scale`); the other writers divide.

Met while modelling, and excluded by the models' inputs rather than run:

- oneDNN keys: the stride of `out` is not in the key; the number of scales is
  packed with 8 bits for the second factor, so that counts of 256 and more
  collide; the slices of a 3-D input are taken to be adjacent although a comment
  says strided layouts are supported; `fp8_bmm` refuses a bias `[N]` when batch
  times m is 1.
- Rotary: `deepseek_scaling_rope` ignores `offsets`; `rotary_embedding` uses the
  query's head stride for the key; the fused QK norm takes a partner by xor,
  which needs a power of two of lanes; the models give contiguous and
  power-of-two inputs.
- Quantisation: `float_to_fp4_e2m1` sends ties down where its comment says to
  even; group quantisation by vectors expects a power of two of lanes.
- Routing: with a bias of -1 or less, or scores that are not numbers, the plain
  top-k may name expert 0; models keep biases above -1 where the code needs it.
- Samplers: after two moves of its upper end the top-p kernel without k divides
  by a sum it has lowered towards p to speed its search up, so that the
  log-probabilities it returns do not add up to one (`LogprobsNormalised`,
  stated beside `RowSampled`).

## 6. What is not modelled, and why

Arithmetic (GEMM tiles, softmax, rounding, exponentials, the scores of the
routers) is out of TLC's reach: a number is a mark of what it was computed from,
a residue or an entry of a table. Dtypes and templates likewise. oneDNN,
CUTLASS, the SYCL runtime, torch and the driver are external: they appear as the
steps their callers rely on. Bindings, build files, benchmarks and tests keep no
state.

Components left out: the default grouped GEMM scheduler, the XE3 attention
kernels (near copies of the XE2 ones; their lines are not claimed), KVarN, the
merge of attention states, MQA logits, LoRA, mhc, random numbers, memory
queries.

Inside the modelled components: addresses past 2^31 in the grouped GEMM;
`batched_moe_align_block_size` and `moe_sum`; the quantised paths of
`XpuFusedMoe`; the phantom tile of an empty sequence in a decode plan; batches
of `swap_blocks_batch` that mix memory classes, and staged copies of a source
that is still being written (callers are taken to keep `Undisturbed`); lifetimes
of Python callbacks; top-k rows of negative length, strided split rows, and
logits below -FLT_MAX or NaN; the tiled prefill convolution of the gated delta
net (switched off in the code) and its standalone l2norm (called by nobody);
`fused_input_norm`; streams and engines of the oneDNN runtime; exceptions of
`ensure_device` and `syncStreamsOnDevice` in the allocator; scales of
`fp4_gemm` other than e8m0; 32-bit indices and a given `expert_map` on one
device in `moe_gather`, and `_apply_ref`; builds of the chunked rule other than
XE2, and the fences of its sub-groups against overwriting what another still
reads; fused adds of more than two dimensions. Sub-groups are taken to run in
lockstep where the kernels shuffle or stage without a barrier. Clamps of scales,
epsilons, the rounding to ue8m0 and the routed scaling factor are data.

## 7. Plan

Done: all modules and theorems above. What would come next, models: the default
grouped GEMM's scheduler; `moe_sum` and the batched alignment; the XE3 store of
the log-sum-exp; the merge of attention states with its infinite cases; the
split of K in LoRA. Theorems: the slots the top-k selection claims distinct and
below k.
