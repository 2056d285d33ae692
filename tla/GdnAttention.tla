---------------------------- MODULE GdnAttention ----------------------------
(***************************************************************************)
(* gdn_attention (csrc/xpu/gdn_attn): the causal convolution and the gated *)
(* delta rule of a linear-attention layer, over a cache that outlives the  *)
(* calls.  A sequence owns a line of convolution inputs and one state of   *)
(* the rule per token of a speculative step.  A call packs prefills,       *)
(* decodes and speculative decodes, and is a chain of kernels on an        *)
(* in-order queue; the work-groups of a kernel run in any order.           *)
(*                                                                         *)
(* Values are symbolic.  A token is a number; its convolved q, k and v are *)
(* the window of tokens they are computed from; a state of the rule is the *)
(* sequence of rows it has absorbed, and an output row the state it is     *)
(* read from.  The arithmetic of the chunked rule is in GdnChunk.          *)
(***************************************************************************)
EXTENDS Integers, Sequences, SequencesExt, FiniteSets

CONSTANTS
  Width,      (* taps of the convolution                                   *)
  NumSpec,    (* num_spec_tokens: columns of a row of spec_state_indices   *)
  ChunkSize,  (* chunk_size_xe2, 64                                        *)
  Seqs,       (* the sequences                                             *)
  MaxFed,     (* bound: tokens of a prefill                                *)
  MaxTokens,  (* bound: tokens fed to all sequences                        *)
  MaxCalls    (* bound: calls of the operator                              *)

ASSUME GdnAssumption ==
  /\ Width \in Nat \ {0, 1} /\ NumSpec \in Nat \ {0} /\ ChunkSize \in Nat \ {0}
  /\ IsFiniteSet(Seqs) /\ Seqs = 1 .. Cardinality(Seqs)
  /\ {MaxFed, MaxTokens, MaxCalls} \subseteq Nat

Pad  == -1    (* pad_slot_id                                               *)
Junk == -2    (* what torch::empty or an unused cache line holds           *)
Zero == 0     (* a zero row; tokens are numbered from 1                    *)

StateLen == Width - 1 + (NumSpec - 1)

VARIABLES
  conv,       (* conv_state: rows of a slot, 0 .. StateLen - 1             *)
  ssm,        (* ssm_state of a slot; slot -1 is the memory before it      *)
  call,       (* the call: tokens, chains, and the tokens fed per sequence *)
  mid,        (* q, k, v, b, a of each chain                               *)
  tmp,        (* conv_states_tmp of each chain                             *)
  out,        (* core_attn_out                                             *)
  z,          (* z                                                         *)
  queue,      (* kernels submitted: <<kernel, chain>>                      *)
  todo,       (* work-groups of the first that have yet to run             *)
  said,       (* the accepted tokens of a sequence                         *)
  acc,        (* num_accepted_tokens of its last call                      *)
  spec,       (* the sequences that decode speculatively                   *)
  calls       (* calls made                                                *)

cache == <<conv, ssm>>
works == <<mid, tmp, out, z>>
vars  == <<conv, ssm, call, mid, tmp, out, z, queue, todo, said, acc, spec, calls>>

(* The row of sequence s in spec_state_indices; its first column is its    *)
(* entry in non_spec_state_indices.                                        *)
SlotsOf(s) == [j \in 0 .. NumSpec - 1 |-> (s - 1) * NumSpec + j]
Slots == 0 .. Cardinality(Seqs) * NumSpec - 1

JunkRow == [win |-> [i \in 1 .. Width |-> Junk], ba |-> Junk]
ZeroRow == [win |-> [i \in 1 .. Width |-> Zero], ba |-> Zero]
NoCall  == [tokens |-> <<>>, chains |-> <<>>, fed |-> [s \in Seqs |-> <<>>],
            at |-> [s \in Seqs |-> 0]]

-----------------------------------------------------------------------------
(* A chain is the part of a call that one pair of convolution and rule     *)
(* handles: its batch, query_start_loc, token_indx, cache_indices,         *)
(* has_initial_state and num_accepted_tokens.                              *)
Tokens(c) == DOMAIN c.indx
Entries(c) == 0 .. c.batch - 1

Holding(c, t) == {i \in Entries(c) : t < c.start[i + 1]}
First(S) == CHOOSE i \in S : \A j \in S : i <= j

(* The entry of token t; a token past the last of them is taken for one of *)
(* an empty last entry.                                                    *)
BatchOf(c, t) == IF Holding(c, t) = {} THEN c.batch - 1 ELSE First(Holding(c, t))
SeqStart(c, t) == IF Holding(c, t) = {} THEN 0 ELSE c.start[BatchOf(c, t)]
SeqEnd(c, t) == IF Holding(c, t) = {} THEN 0 ELSE c.start[BatchOf(c, t) + 1]

Input(c, t) == call.tokens[c.indx[t] + 1]

(* The window of token t: its predecessors in the call, and before them    *)
(* the last rows of the cached window, zero for a new sequence.            *)
Window(c, t) ==
  LET b      == BatchOf(c, t)
      len    == t - SeqStart(c, t) + 1
      load   == IF len >= Width THEN Width ELSE len
      states == Width - load
  IN [i \in 1 .. Width |->
        IF i > states THEN Input(c, t - load + i - states)
        ELSE IF c.init[b] THEN conv[c.slot[b][0]][Width - 2 - states + i]
        ELSE Zero]

(* A mutant: also a longer sequence, by its last token, at once. *)
SaveInPlace(k, t) ==
  LET c == call.chains[k]
      b == BatchOf(c, t)
      w == Window(c, t)
  IN /\ conv' = IF SeqEnd(c, t) > t + 1 THEN conv
                ELSE [conv EXCEPT ![c.slot[b][0]] =
                        [i \in DOMAIN @ |-> IF i <= Width - 2 THEN w[i + 2] ELSE @[i]]]
     /\ tmp' = [tmp EXCEPT ![k][b] = [i \in 0 .. Width - 2 |-> w[i + 2]]]

(* The window moves into the cache: at once for a sequence of one token,   *)
(* through conv_states_tmp by its last token for a longer one, of which    *)
(* other work-groups may still need the cached window.                     *)
SaveStates(k, t) ==
  LET c == call.chains[k]
      b == BatchOf(c, t)
      w == Window(c, t)
  IN IF SeqEnd(c, t) - SeqStart(c, t) > 1
     THEN /\ tmp' = IF SeqEnd(c, t) - 1 = t
                    THEN [tmp EXCEPT ![k][b] = [i \in 0 .. Width - 2 |-> w[i + 2]]] ELSE tmp
          /\ UNCHANGED conv
     ELSE /\ conv' = [conv EXCEPT ![c.slot[b][0]] =
                        [i \in DOMAIN @ |-> IF i <= Width - 2 THEN w[i + 2] ELSE @[i]]]
          /\ UNCHANGED tmp

-----------------------------------------------------------------------------
(* The kernels: what the work-groups of one token, or of one entry, do.    *)
(* A token of a padded entry has its b and a copied, and nothing more.     *)
Padded(c, t) == c.slot[BatchOf(c, t)][0] = Pad
Convolved(c, t) == [win |-> Window(c, t), ba |-> Input(c, t)]

CausalConv1d(k, t) ==
  LET c == call.chains[k]
  IN IF Padded(c, t)
     THEN /\ mid' = [mid EXCEPT ![k][t].ba = Input(c, t)]
          /\ UNCHANGED <<cache, tmp, z, out>>
     ELSE /\ mid' = [mid EXCEPT ![k][t] = Convolved(c, t)]
          /\ z' = [z EXCEPT ![c.indx[t]] = Input(c, t)]
          /\ SaveStates(k, t)
          /\ UNCHANGED <<ssm, out>>

(* The sums of the first 0, 1, ... of the sizes.                           *)
PartialSums(size) ==
  LET sum[i \in Nat] == IF i = 0 THEN 0 ELSE sum[i - 1] + size[i - 1]
  IN sum

(* The row of token t in buffers where every sequence starts a chunk.      *)
ChunksBefore(c, b) ==
  PartialSums([i \in Entries(c) |-> (c.start[i + 1] - c.start[i] + ChunkSize - 1) \div ChunkSize])[b]
OutToken(c, t) ==
  IF Holding(c, t) = {} THEN t
  ELSE t - SeqStart(c, t) + ChunksBefore(c, BatchOf(c, t)) * ChunkSize

ChunkCausalConv1d(k, t) ==
  LET c == call.chains[k]
  IN /\ IF Padded(c, t) THEN UNCHANGED <<mid, conv, tmp>>
        ELSE /\ mid' = [mid EXCEPT ![k][OutToken(c, t)].win = Window(c, t)]
             /\ SaveStates(k, t)
     /\ UNCHANGED <<ssm, out, z>>

ChunkReorderZba(k, t) ==
  LET c == call.chains[k]
  IN /\ mid' = [mid EXCEPT ![k][OutToken(c, t)].ba = Input(c, t)]
     /\ z' = [z EXCEPT ![c.indx[t]] = Input(c, t)]
     /\ UNCHANGED <<cache, tmp, out>>

UpdateStates(k, b) ==
  LET c == call.chains[k]
  IN /\ conv' = IF c.start[b + 1] - c.start[b] = 1 THEN conv
                ELSE [conv EXCEPT ![c.slot[b][0]] =
                        [i \in DOMAIN @ |-> IF i <= Width - 2 THEN tmp[k][b][i] ELSE @[i]]]
     /\ UNCHANGED <<ssm, works>>

(* causal_conv1d_spec_kernel: a window that rolls over the tokens of the   *)
(* entry, first over the rows of the line from the last accepted one on.   *)
InitRow(c, b) == IF c.acc[b] - 1 < 0 THEN 0 ELSE c.acc[b] - 1

SpecWindow(c, b, n) ==
  LET line == conv[c.slot[b][0]]
      old(i) == IF c.slot[b][0] = Pad THEN Zero ELSE line[InitRow(c, b) + i - 1]
  IN [i \in 1 .. Width |-> IF i + n < Width THEN old(i + n)
                           ELSE Input(c, c.start[b] + i + n - Width)]

(* (The first of the two, a mutant, takes the rows from the second on.)    *)
(* The rows from the accepted one on move to the front of the line, and    *)
(* the draft's tokens follow; what a shorter draft leaves stays.           *)
RolledFromFront(c, b) ==
  LET drafts == c.start[b + 1] - c.start[b]
      length == StateLen - (NumSpec - drafts)
      hist   == length - drafts
      roll(line, j) == [line EXCEPT ![j - 1] =
        IF j - 1 < hist THEN line[j] ELSE Input(c, c.start[b] + j - 1 - hist)]
      rolled[j \in 0 .. length] == IF j = 0 THEN conv[c.slot[b][0]] ELSE roll(rolled[j - 1], j)
  IN rolled[length]

RolledLine(c, b) ==
  LET drafts == c.start[b + 1] - c.start[b]
      length == StateLen - (NumSpec - drafts)
      hist   == length - drafts
      roll(line, j) == [line EXCEPT ![j - 1] =
        IF j - 1 < hist THEN line[InitRow(c, b) + j] ELSE Input(c, c.start[b] + j - 1 - hist)]
      rolled[j \in 0 .. length] == IF j = 0 THEN conv[c.slot[b][0]] ELSE roll(rolled[j - 1], j)
  IN rolled[length]

CausalConv1dSpec(k, b) ==
  LET c    == call.chains[k]
      mine == c.start[b] .. c.start[b + 1] - 1
  IN /\ mid' = [mid EXCEPT ![k] = [t \in DOMAIN @ |->
                  IF t \in mine THEN [win |-> SpecWindow(c, b, t - c.start[b]), ba |-> Input(c, t)]
                  ELSE @[t]]]
     /\ z' = [g \in DOMAIN z |-> IF \E t \in mine : c.indx[t] = g THEN call.tokens[g + 1] ELSE z[g]]
     /\ conv' = IF c.slot[b][0] = Pad THEN conv
                ELSE [conv EXCEPT ![c.slot[b][0]] = RolledLine(c, b)]
     /\ UNCHANGED <<ssm, tmp, out>>

(* The rule over the rows of an entry, one by one: after its n-th.         *)
After(k, row, state, n) == state \o [i \in 1 .. n |-> mid[k][row + i - 1]]

GatedDeltaRule(k, b) ==
  LET c     == call.chains[k]
      slot  == c.slot[b][0]
      state == IF c.init[b] THEN ssm[slot] ELSE <<>>
      row   == c.start[b]
      mine  == row .. c.start[b + 1] - 1
  IN /\ out' = [g \in DOMAIN out |->
                  IF \E t \in mine : c.indx[t] = g
                  THEN After(k, row, state, (CHOOSE t \in mine : c.indx[t] = g) - row + 1) ELSE out[g]]
     /\ ssm' = [ssm EXCEPT ![slot] = After(k, row, state, c.start[b + 1] - row)]
     /\ UNCHANGED <<conv, tmp, mid, z>>

(* Every token of a draft leaves its state in a column of its own.         *)
GatedDeltaRuleSpec(k, b) ==
  LET c     == call.chains[k]
      state == ssm[c.slot[b][InitRow(c, b)]]
      row   == c.start[b]
      mine  == row .. c.start[b + 1] - 1
      nth(t) == After(k, row, state, t - row + 1)
  IN /\ out' = [g \in DOMAIN out |->
                  IF \E t \in mine : c.indx[t] = g
                  THEN nth(CHOOSE t \in mine : c.indx[t] = g) ELSE out[g]]
     /\ ssm' = [s \in DOMAIN ssm |->
                  IF \E t \in mine : c.slot[b][t - row] = s
                  THEN nth(CHOOSE t \in mine : c.slot[b][t - row] = s) ELSE ssm[s]]
     /\ UNCHANGED <<conv, tmp, mid, z>>

(* The chunked rule reads the rows of the padded layout, and writes the    *)
(* rows of a chunk one after the other from its first token's.             *)
ChunkGatedDeltaRule(k, b) ==
  LET c     == call.chains[k]
      slot  == c.slot[b][0]
      len   == c.start[b + 1] - c.start[b]
      row   == ChunksBefore(c, b) * ChunkSize
      state == IF c.init[b] THEN ssm[slot] ELSE <<>>
      place(n) == c.indx[c.start[b] + (n \div ChunkSize) * ChunkSize] + (n % ChunkSize)
  IN /\ out' = [g \in DOMAIN out |->
                  IF \E n \in 0 .. len - 1 : place(n) = g
                  THEN After(k, row, state, (CHOOSE n \in 0 .. len - 1 : place(n) = g) + 1)
                  ELSE out[g]]
     /\ ssm' = [ssm EXCEPT ![slot] = After(k, row, state, len)]
     /\ UNCHANGED <<conv, tmp, mid, z>>

-----------------------------------------------------------------------------
(* The host: which kernels a chain submits.  Pads are the entries and      *)
(* tokens a batch captured at a larger size has in excess.                 *)
Kernels(c) ==
  CASE c.path = "spec"   -> <<"causal_conv1d_spec", "gated_delta_rule_spec">>
    [] c.path = "native" -> <<"causal_conv1d", "gated_delta_rule">>
    [] c.path = "chunk"  -> <<"chunk_causal_conv1d", "chunk_reorder_zba", "update_states",
                              "chunk_gated_delta_rule">>

PerToken == {"causal_conv1d", "chunk_causal_conv1d", "chunk_reorder_zba"}
Groups(kernel, c) == IF kernel \in PerToken THEN Tokens(c) ELSE Entries(c)

Submitted(chains) ==
  LET kernels(k) == [i \in 1 .. Len(Kernels(chains[k])) |-> <<Kernels(chains[k])[i], k>>]
  IN IF Len(chains) = 1 THEN kernels(1) ELSE kernels(1) \o kernels(2)

(* The buffers of a chain: zeros with room to start every sequence at a    *)
(* chunk, or torch::empty.                                                 *)
Buffers(c) ==
  IF c.path = "chunk"
  THEN [t \in 0 .. Cardinality(Tokens(c)) + c.batch * (ChunkSize - 1) - 1 |-> ZeroRow]
  ELSE [t \in Tokens(c) |-> JunkRow]

(* The chain of the sequences in list, whose n[s] tokens start at at[s].   *)
Chain(path, list, n, at, pads) ==
  LET entry(b) == list[b + 1]
      real(b)  == b < Len(list)
      begin    == PartialSums([b \in 0 .. Len(list) + pads - 1 |-> IF real(b) THEN n[entry(b)] ELSE 0])
      end      == begin[Len(list)]
      of(t)    == First({b \in 0 .. Len(list) - 1 : t < begin[b + 1]})
  IN [path  |-> path,
      batch |-> Len(list) + pads,
      start |-> [b \in 0 .. Len(list) + pads |-> begin[b]],
      indx  |-> [t \in 0 .. end + (IF path = "native" THEN pads ELSE 0) - 1 |->
                   IF t < end THEN at[entry(of(t))] + t - begin[of(t)] ELSE t],
      slot  |-> [b \in 0 .. Len(list) + pads - 1 |->
                   IF real(b) THEN SlotsOf(entry(b)) ELSE [j \in 0 .. NumSpec - 1 |-> Pad]],
      init  |-> [b \in 0 .. Len(list) + pads - 1 |->
                   path = "native" \/ (real(b) /\ said[entry(b)] # <<>>)],
      acc   |-> [b \in 0 .. Len(list) + pads - 1 |-> IF real(b) THEN acc[entry(b)] ELSE 0]]

(* The sequences of the list that are among `these`, in its order.         *)
Those(list, these) ==
  LET those[i \in 0 .. Len(list)] ==
        IF i = 0 THEN <<>>
        ELSE IF list[i] \in these THEN Append(those[i - 1], list[i]) ELSE those[i - 1]
  IN those[Len(list)]

(* gdn_attention: speculative decodes, then the others: together, or, when *)
(* the caller asks to split them, the decodes and then the prefills.  When *)
(* there are speculative decodes the callers pass the others as prefills.  *)
Chains(order, kind, n, at, split, pads) ==
  LET those(kinds) == Those(order, {s \in ToSet(order) : kind[s] \in kinds})
      chain(path, kinds) == IF those(kinds) = <<>> THEN <<>>
                            ELSE <<Chain(path, those(kinds), n, at, pads)>>
  IN IF those({"spec"}) # <<>> THEN chain("spec", {"spec"}) \o chain("chunk", {"decode", "prefill"})
     ELSE IF split THEN chain("native", {"decode"}) \o chain("chunk", {"prefill"})
     ELSE IF those({"prefill"}) # <<>> THEN chain("chunk", {"decode", "prefill"})
     ELSE chain("native", {"decode"})

-----------------------------------------------------------------------------
(* The callers.  A call takes some sequences in some order, work[s] says   *)
(* for what and how many tokens.                                           *)
Orders == {o \in SeqOf(Seqs, Cardinality(Seqs)) : o # <<>> /\ IsInjective(o)}

(* Once a sequence decodes speculatively it goes on to: the window of the  *)
(* other kernels starts at row 0.                                          *)
Work(s) ==
  IF s \in spec THEN {"spec"} \X (1 .. NumSpec)
  ELSE {"prefill"} \X (1 .. MaxFed)
       \cup IF said[s] = <<>> THEN {} ELSE {<<"decode", 1>>} \cup {"spec"} \X (1 .. NumSpec)

Works(order) == {w \in [ToSet(order) -> UNION {Work(s) : s \in Seqs}] :
                   \A s \in ToSet(order) : w[s] \in Work(s)}

(* Decodes come before prefills unless some decode speculatively, and a    *)
(* batch has pads only when all of it decodes.                             *)
Packed(order, kind, split, pads) ==
  /\ \/ \E s \in ToSet(order) : kind[s] = "spec"
     \/ \A i, j \in DOMAIN order : i < j /\ kind[order[i]] = "prefill" => kind[order[j]] = "prefill"
  /\ split => Range(kind) = {"decode", "prefill"}
  /\ pads > 0 => Range(kind) \in {{"decode"}, {"spec"}}

(* Tokens of different calls and places are different.                     *)
Token(i) == calls * (Cardinality(Seqs) * (MaxFed + NumSpec) + 1) + i

TokensSaid == FoldFunction(LAMBDA h, m : Len(h) + m, 0, said)

(* The call over n[s] tokens of every sequence of an order.                *)
Forward(order, kind, n, split, pads) ==
  LET mine   == ToSet(order)
      begin  == PartialSums([i \in 0 .. Len(order) - 1 |-> n[order[i + 1]]])
      place(s) == CHOOSE i \in DOMAIN order : order[i] = s
      at     == [s \in Seqs |-> IF s \in mine THEN begin[place(s) - 1] ELSE 0]
      real   == begin[Len(order)]
      all    == real + pads
      chains == Chains(order, kind, n, at, split, pads)
  IN /\ TokensSaid + real <= MaxTokens
     /\ call' = [tokens |-> [i \in 1 .. all |-> IF i <= real THEN Token(i) ELSE Junk],
                 chains |-> chains,
                 fed |-> [s \in Seqs |-> IF s \in mine THEN [i \in 1 .. n[s] |-> Token(at[s] + i)]
                                         ELSE <<>>],
                 at |-> at]
     /\ spec' = spec \cup {s \in mine : kind[s] = "spec"}
     /\ mid' = [k \in DOMAIN chains |-> Buffers(chains[k])]
     /\ tmp' = [k \in DOMAIN chains |-> [b \in Entries(chains[k]) |-> [i \in 0 .. Width - 2 |-> Junk]]]
     /\ out' = [g \in 0 .. all - 1 |-> <<JunkRow>>]
     /\ z' = [g \in 0 .. all - 1 |-> Junk]
     /\ queue' = Submitted(chains)
     /\ todo' = Groups(Submitted(chains)[1][1], chains[1])

Call ==
  /\ call = NoCall /\ calls < MaxCalls
  /\ \E order \in Orders : \E work \in Works(order) : \E split \in BOOLEAN : \E pads \in 0 .. 1 :
       LET kind == [s \in ToSet(order) |-> work[s][1]]
           n    == [s \in ToSet(order) |-> work[s][2]]
       IN Packed(order, kind, split, pads) /\ Forward(order, kind, n, split, pads)
  /\ calls' = calls + 1
  /\ UNCHANGED <<cache, said, acc>>

Group(kernel, k, w) ==
  CASE kernel = "causal_conv1d"          -> CausalConv1d(k, w)
    [] kernel = "gated_delta_rule"       -> GatedDeltaRule(k, w)
    [] kernel = "causal_conv1d_spec"     -> CausalConv1dSpec(k, w)
    [] kernel = "gated_delta_rule_spec"  -> GatedDeltaRuleSpec(k, w)
    [] kernel = "chunk_causal_conv1d"    -> ChunkCausalConv1d(k, w)
    [] kernel = "chunk_reorder_zba"      -> ChunkReorderZba(k, w)
    [] kernel = "update_states"          -> UpdateStates(k, w)
    [] kernel = "chunk_gated_delta_rule" -> ChunkGatedDeltaRule(k, w)

(* A work-group of the kernel at the head of the queue runs; its last lets *)
(* the next kernel start.                                                  *)
Run ==
  /\ queue # <<>>
  /\ \E w \in todo :
       /\ Group(queue[1][1], queue[1][2], w)
       /\ queue' = IF todo = {w} THEN Tail(queue) ELSE queue
       /\ todo' = IF todo # {w} THEN todo \ {w}
                  ELSE IF Len(queue) = 1 THEN {}
                  ELSE Groups(queue[2][1], call.chains[queue[2][2]])
  /\ UNCHANGED <<call, said, acc, spec, calls>>

(* The caller accepts a part of every draft, its first token at least, and *)
(* the whole of what else it fed.                                          *)
Accept ==
  /\ call # NoCall /\ queue = <<>>
  /\ \E a \in [Seqs -> 1 .. NumSpec] :
       LET fed == {s \in Seqs : call.fed[s] # <<>>}
           taken(s) == IF s \in spec \cap fed THEN SubSeq(call.fed[s], 1, a[s]) ELSE call.fed[s]
       IN /\ \A s \in Seqs : IF s \in spec \cap fed THEN a[s] <= Len(call.fed[s])
                             ELSE a[s] = acc[s]
          /\ said' = [s \in Seqs |-> said[s] \o taken(s)]
          /\ acc' = a
  /\ call' = NoCall /\ mid' = <<>> /\ tmp' = <<>> /\ out' = <<>> /\ z' = <<>>
  /\ UNCHANGED <<cache, queue, todo, spec, calls>>

Init ==
  /\ conv = [s \in Slots |-> [i \in 0 .. StateLen - 1 |-> Junk]]
  /\ ssm = [s \in Slots \cup {Pad} |-> <<JunkRow>>]
  /\ call = NoCall /\ mid = <<>> /\ tmp = <<>> /\ out = <<>> /\ z = <<>>
  /\ queue = <<>> /\ todo = {}
  /\ said = [s \in Seqs |-> <<>>] /\ acc = [s \in Seqs |-> 1] /\ spec = {} /\ calls = 0

Next == Call \/ Run \/ Accept

Spec == Init /\ [][Next]_vars

-----------------------------------------------------------------------------
(* What the layer computes for a sequence that said h: the rule has        *)
(* absorbed, for each token, the window that ends at it.                   *)
Taken(h) == [i \in DOMAIN h |->
  [win |-> [j \in 1 .. Width |-> IF i - Width + j < 1 THEN Zero ELSE h[i - Width + j]], ba |-> h[i]]]

(* When a call has run, the output rows of a token are read from the state *)
(* that has absorbed all its sequence said before it and what it was fed   *)
(* up to it, rejected drafts of earlier calls excepted, and its row of z   *)
(* is its own (gdn_attention, and its kernels' claim that the cache, the   *)
(* accepted counts and the token map bring every window together).         *)
AnswersRight ==
  call # NoCall /\ queue = <<>> =>
    \A s \in Seqs : \A i \in DOMAIN call.fed[s] :
      LET g == call.at[s] + i - 1
      IN /\ out[g] = Taken(said[s] \o SubSeq(call.fed[s], 1, i))
         /\ z[g] = call.fed[s][i]

(* Between calls the caches hold what the next call will look for: from    *)
(* the last accepted row of the line on, the last Width - 1 tokens said,   *)
(* and in the column of the last accepted token the state that has         *)
(* absorbed all of them.                                                   *)
CachesHold ==
  call = NoCall => \A s \in Seqs : said[s] # <<>> =>
    LET h == said[s]
    IN /\ ssm[SlotsOf(s)[acc[s] - 1]] = Taken(h)
       /\ \A i \in 0 .. Width - 2 :
            conv[SlotsOf(s)[0]][acc[s] - 1 + i] = Taken(h)[Len(h)].win[i + 2]

=============================================================================
