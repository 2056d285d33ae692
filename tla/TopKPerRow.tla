----------------------------- MODULE TopKPerRow -----------------------------
(***************************************************************************)
(* top_k_per_row_prefill and top_k_per_row_decode (csrc/topk_per_row.cpp), *)
(* one row: a work-group selects from it, or, when the logits are wide     *)
(* enough to split, Blocks work-groups each from a part of it and another  *)
(* from what they selected.  The work-groups of a split share nothing, so  *)
(* they run here one after the other.                                      *)
(***************************************************************************)
EXTENDS TopKRow

CONSTANTS
  Blocks,     (* multipleBlocksPerRowConfig, 10                            *)
  Inputs      (* bound of the inputs: [logits, from, to, contiguous, skew, *)
              (* wide], a row of the tensor as keys, the part of it to     *)
              (* select from, whether its elements are contiguous, where   *)
              (* it lies in a vector and whether it is split               *)

ASSUME Dests = 0 .. Blocks

(* A strided row is never split: a bound of the model (the split kernel    *)
(* adds the start of its part twice there).                                *)
ASSUME InputAssumption ==
  \A i \in Inputs :
    /\ 0 <= i.from /\ i.from <= i.to
    /\ \A k \in i.from .. i.to - 1 : i.logits[k] \in Key
    /\ i.skew \in 0 .. Width - 1
    /\ i.wide => i.contiguous /\ i.from = 0

VARIABLES
  in,         (* the call                                                  *)
  begun       (* work-groups started                                       *)

vars == <<rowVars, in, begun>>

Indices == Blocks     (* where the indices the caller gets are             *)

-----------------------------------------------------------------------------
(* top_k_per_row_decode_kernel: the end of row r of a call whose sequences *)
(* have nextN rows each.                                                   *)
RowEnd(seqLen, nextN, r) == seqLen - nextN + (r % nextN) + 1

(* The job of a work-group on [from, to) of the row. *)
JobOn(kind, from, to, dest) ==
  [kind |-> kind, start |-> from, len |-> to - from, dest |-> dest, names |-> <<>>,
   keys |-> [i \in 0 .. to - from - 1 |-> in.logits[from + i]],
   contiguous |-> in.contiguous, skew |-> (in.skew + from) % Width]

Init == RowInit /\ in \in Inputs /\ begun = 0

WholeRow ==
  /\ ~in.wide /\ begun = 0
  /\ Begin(JobOn("row", in.from, in.to, Indices))
  /\ begun' = Blocks + 1
  /\ UNCHANGED in

(* The last part takes the remainder. *)
Part ==
  LET size == in.to \div Blocks
      from == size * begun
  IN /\ in.wide /\ begun < Blocks
     /\ Begin(JobOn("split", from, IF begun = Blocks - 1 THEN in.to ELSE from + size, begun))
     /\ begun' = begun + 1
     /\ UNCHANGED in

Merge ==
  /\ in.wide /\ begun = Blocks
  /\ Begin([kind |-> "merge", start |-> 0, len |-> Blocks * TopK, dest |-> Indices,
            names |-> [i \in 0 .. Blocks * TopK - 1 |-> memory[i \div TopK][i % TopK].index],
            keys |-> [i \in 0 .. Blocks * TopK - 1 |-> memory[i \div TopK][i % TopK].key],
            contiguous |-> TRUE, skew |-> in.skew])
  /\ begun' = begun + 1
  /\ UNCHANGED in

Next == WholeRow \/ Part \/ Merge \/ (RowStep /\ UNCHANGED <<in, begun>>)

(* While a work-item of a launched kernel can go on, one does.             *)
Spec == Init /\ [][Next]_vars /\ WF_vars(Next)

-----------------------------------------------------------------------------
Answer(k) == memory[Indices][k].index
Answered == begun = Blocks + 1 /\ phase = "idle"

RowLen == in.to - in.from
KeyAt(i) == in.logits[in.from + i]
Chosen == Smaller(TopK, RowLen)

(* A set of positions holds the largest logits of the row: no other is     *)
(* larger than one of them.                                                *)
Largest(s) == \A i \in s, j \in (0 .. RowLen - 1) \ s : KeyAt(i) <= KeyAt(j)

(* No slot of an answer is left as local memory was.  If no second step    *)
(* has begun with elements selected, the answer names the largest logits   *)
(* of the row, each once, and -1 past the end of a short row, however the  *)
(* row is laid out and split and whatever the order of the atomics         *)
(* (topKPerRowJob).                                                        *)
RowSelected ==
  Answered =>
    /\ \A k \in Slot : Answer(k) # Garbage
    /\ ~rebinned =>
         LET named == {k \in Slot : Answer(k) # -1}
             positions == {Answer(k) : k \in named}
         IN /\ Cardinality(named) = Chosen /\ Cardinality(positions) = Chosen
            /\ positions \subseteq 0 .. RowLen - 1
            /\ Largest(positions)

(* tests/test_topk_per_row.py:91-92: the results "contain the same top-k   *)
(* elements" as torch.topk, of which the test compares the first           *)
(* min(top_k, row_length) as sets.                                         *)
SameTopK ==
  Answered =>
    LET positions == {Answer(k) : k \in 0 .. Chosen - 1}
    IN Cardinality(positions) = Chosen /\ Largest(positions)

(* Every step of the selection ends and the row gets its answer: none of   *)
(* its loops goes on for ever (topKPerRowJob, top_k_per_row_decode).       *)
Selected == <>Answered
=============================================================================
