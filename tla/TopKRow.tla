------------------------------ MODULE TopKRow -------------------------------
(***************************************************************************)
(* topKPerRowJob (csrc/topk_per_row.cpp): one work-group selects the TopK  *)
(* largest logits of a row.  Up to four histogram steps, each over other   *)
(* bits of the logit, find the bin that holds the last of them (the        *)
(* threshold); what lies below the bin is selected at once and, when the   *)
(* bin is small enough, its elements are sorted.                           *)
(*                                                                         *)
(* A logit is the key convert_to_uint32 makes of it, smaller for a larger  *)
(* logit, of HighBits, then HighBits, then LowBits.  Barriers separate the *)
(* phases; where a phase ends the same whatever the order of its           *)
(* work-items it is one action, and Place, where it does not, is one       *)
(* action for each element.                                                *)
(***************************************************************************)
EXTENDS Integers, Sequences, FiniteSets

CONSTANTS
  NumThreads,     (* kNumThreadsPerBlock                                   *)
  NumBins,        (* kNumBins: values of the higher bits                   *)
  LowBins,        (* values of the lowest bits                             *)
  HalfBin,        (* the bin of a key in the first step: the high bits of  *)
                  (* the logit rounded to half precision                   *)
  NumFinalItems,  (* kNumFinalItems                                        *)
  TopK,           (* topK                                                  *)
  Width,          (* items_per_scalar: logits of a vector load             *)
  PadKey,         (* the key of -FLT_MAX                                   *)
  Dests,          (* pieces of global memory that take a result            *)
  Garbage         (* what memory holds that nobody has written             *)

Thread == 0 .. NumThreads - 1
Bin == 0 .. NumBins - 1
Key == 0 .. NumBins * NumBins * LowBins - 1
Slot == 0 .. TopK - 1

ASSUME RowAssumption ==
  /\ NumThreads \in Nat \ {0} /\ NumBins \in Nat \ {0} /\ LowBins \in 1 .. NumBins
  /\ NumBins % NumThreads = 0
  /\ NumFinalItems \in Nat \ {0} /\ TopK \in Nat \ {0}
  /\ Width \in 1 .. NumThreads
  /\ PadKey \in Key
  /\ HalfBin \in [Key -> Bin]
  /\ \A x, y \in Key : x <= y => HalfBin[x] <= HalfBin[y]

VARIABLES
  job,        (* what the work-group was started for: kind, the row's      *)
              (* start and logits (keys), how it is laid out, dest         *)
  phase,      (* where the work-group is                                   *)
  step,       (* the template argument of processHistogramStep             *)
  pattern,    (* logitPattern                                              *)
  hist,       (* smemFinal.histo.data                                      *)
  round,      (* the rounds of prefix sums done, and                       *)
  last,       (* ... lastValue                                             *)
  threshold,  (* smemThresholdBinIdx                                       *)
  binSize,    (* smemFinalBinSize                                          *)
  found,      (* smemFoundTopKValues                                       *)
  items,      (* smemFinal.items, up to smemFinalDstIdx                    *)
  out,        (* smemOutput                                                *)
  cursor,     (* how many of its elements each work-item has placed        *)
  memory,     (* the results stored                                        *)
  rebinned    (* history: a second step has begun with elements selected   *)

rowVars == <<job, phase, step, pattern, hist, round, last, threshold, binSize,
             found, items, out, cursor, memory, rebinned>>

Element == 0 .. job.len - 1

Smaller(a, b) == IF a < b THEN a ELSE b

-----------------------------------------------------------------------------
(* vectorized_process: the elements a work-item goes through, in order:    *)
(* whole vectors, then one before the first aligned vector, then one past  *)
(* the last.  Rows that are not contiguous are strided through.            *)
Skipped == Smaller(IF job.skew = 0 THEN 0 ELSE Width - job.skew, job.len)
Vectors == (job.len - Skipped) \div Width

Strided(t) ==
  [k \in 1 .. (job.len - t + NumThreads - 1) \div NumThreads |-> t + (k - 1) * NumThreads]

WholeVectors(t) ==
  LET vector(k) == t + ((k - 1) \div Width) * NumThreads
  IN [k \in 1 .. Width * ((Vectors - t + NumThreads - 1) \div NumThreads) |->
        Skipped + vector(k) * Width + ((k - 1) % Width)]

Remaining(t) == LET i == Skipped + Vectors * Width + t IN IF i < job.len THEN <<i>> ELSE <<>>

Turns(t) ==
  IF job.contiguous
  THEN WholeVectors(t) \o (IF t < Skipped THEN <<t>> ELSE <<>>) \o Remaining(t)
  ELSE Strided(t)

(* extractBinIdx *)
BinOf(x) ==
  CASE step = 0 -> HalfBin[x]
    [] step = 1 -> x \div (NumBins * LowBins)
    [] step = 2 -> (x \div LowBins) % NumBins
    [] step = 3 -> x % LowBins

(* isPartialMatch with pattern p: the bits of the earlier steps, none      *)
(* before step 2.                                                          *)
Matches(x, p) ==
  CASE step < 2 -> TRUE
    [] step = 2 -> x \div (NumBins * LowBins) = p \div (NumBins * LowBins)
    [] step = 3 -> x \div LowBins = p \div LowBins

(* The index kept for element i.  The vectorized loop counts from the      *)
(* start of the row, the strided one from the start of the tensor.         *)
Index(i) ==
  LET idx == IF job.contiguous THEN i ELSE job.start + i
  IN CASE job.kind = "row" -> idx
       [] job.kind = "split" -> idx + job.start
       [] job.kind = "merge" -> job.names[idx]

Entry(i) == [index |-> Index(i), key |-> job.keys[i]]
Unwritten == [index |-> Garbage, key |-> PadKey]

-----------------------------------------------------------------------------
RowInit ==
  /\ job = [kind |-> "none"]
  /\ phase = "idle"
  /\ step = 0 /\ pattern = 0
  /\ hist = [b \in Bin |-> Garbage] /\ round = 0 /\ last = 0
  /\ threshold = Garbage /\ binSize = Garbage
  /\ found = 0 /\ items = <<>>
  /\ out = [k \in Slot |-> Unwritten]
  /\ cursor = [t \in Thread |-> 0]
  /\ memory = [d \in Dests |-> [k \in Slot |-> Unwritten]]
  /\ rebinned = FALSE

(* A work-group starts: local memory holds anything, work-item 0 clears    *)
(* the two counters.                                                       *)
Begin(j) ==
  /\ phase = "idle"
  /\ job' = j
  /\ phase' = IF j.len <= TopK THEN "short" ELSE "count"
  /\ step' = 0 /\ pattern' = 0
  /\ threshold' = Garbage /\ binSize' = Garbage
  /\ found' = 0 /\ items' = <<>>
  /\ out' = [k \in Slot |-> Unwritten]
  /\ hist' = [b \in Bin |-> Garbage] /\ round' = 0 /\ last' = 0
  /\ cursor' = [t \in Thread |-> 0]
  /\ UNCHANGED <<memory, rebinned>>

(* A row no longer than TopK is selected whole, and the rest is padded.    *)
Shortcut ==
  /\ phase = "short"
  /\ phase' = "idle"
  /\ memory' = [memory EXCEPT ![job.dest] =
       [k \in Slot |->
          IF k < job.len
          THEN [index |-> IF job.kind = "split" THEN k + job.start ELSE k, key |-> job.keys[k]]
          ELSE [index |-> -1, key |-> PadKey]]]
  /\ UNCHANGED <<job, step, pattern, hist, round, last, threshold, binSize, found,
                 items, out, cursor, rebinned>>

(* The histogram is cleared and filled with the elements that match the    *)
(* pattern, in which the threshold of the step before is a new part.       *)
NewPattern ==
  CASE step < 2 -> pattern
    [] step = 2 -> threshold * NumBins * LowBins
    [] step = 3 -> pattern + threshold * LowBins

Count ==
  /\ phase = "count"
  /\ phase' = "scan"
  /\ pattern' = NewPattern
  /\ LET visits == UNION {{<<t, k>> : k \in DOMAIN Turns(t)} : t \in Thread}
         key(v) == job.keys[Turns(v[1])[v[2]]]
     IN hist' = [b \in Bin |->
          Cardinality({v \in visits : Matches(key(v), NewPattern) /\ BinOf(key(v)) = b})]
  /\ items' = [k \in DOMAIN items |-> Unwritten]
  /\ round' = 0
  /\ last' = found
  /\ UNCHANGED <<job, step, threshold, binSize, found, out, cursor, memory, rebinned>>

(* The exclusive prefix sum of a bin in a round of NumThreads bins.        *)
Prefix(b) ==
  LET sum[c \in (round * NumThreads) .. b] ==
        IF c = round * NumThreads THEN last ELSE sum[c - 1] + hist[c - 1]
  IN sum[b]

RoundBins == (round * NumThreads) .. (round + 1) * NumThreads - 1

(* One round: the work-items scan NumThreads bins together, leave the sums *)
(* in the histogram, and the one whose bin holds the last element to       *)
(* select tells; then, or after the last bin, the loop ends.               *)
Scan ==
  /\ phase = "scan"
  /\ LET end == (round + 1) * NumThreads - 1
         total == Prefix(end) + hist[end]
         next(b) == IF b = end THEN total ELSE Prefix(b + 1)
         hits == {b \in RoundBins : Prefix(b) < TopK /\ next(b) >= TopK}
     IN /\ hist' = [b \in Bin |-> IF b \in RoundBins THEN Prefix(b) ELSE hist[b]]
        /\ IF hits = {}
           THEN /\ phase' = IF end = NumBins - 1 THEN "place" ELSE "scan"
                /\ UNCHANGED <<threshold, binSize>>
           ELSE /\ phase' = "place"
                /\ threshold' \in hits
                /\ binSize' = next(threshold') - Prefix(threshold')
        /\ round' = round + 1
        /\ last' = total
  /\ cursor' = [t \in Thread |-> 0]
  /\ UNCHANGED <<job, step, pattern, found, items, out, memory, rebinned>>

-----------------------------------------------------------------------------
(* Whether the elements of the threshold bin can be kept for sorting.      *)
Fits == binSize <= NumFinalItems

(* processBins, one element: where it goes is settled by an atomic.        *)
Select(i) ==
  /\ found' = found + 1
  /\ out' = [out EXCEPT ![found] = Entry(i)]
  /\ UNCHANGED <<hist, items>>

(* The items lie in the memory of the histogram (a union).                 *)
Keep(i) ==
  /\ items' = Append(items, Entry(i))
  /\ hist' = [b \in Bin |-> Garbage]
  /\ UNCHANGED <<found, out>>

(* In step 3 the elements of the threshold bin are equal: the first ones   *)
(* to come take what slots are left, counted on from the prefix sum.       *)
TakeSlot(i) ==
  LET dst == hist[threshold]
  IN /\ hist' = [hist EXCEPT ![threshold] = dst + 1]
     /\ out' = IF dst < TopK THEN [out EXCEPT ![dst] = Entry(i)] ELSE out
     /\ UNCHANGED <<found, items>>

Place(t) ==
  /\ phase = "place" /\ cursor[t] < Len(Turns(t))
  /\ cursor' = [cursor EXCEPT ![t] = @ + 1]
  /\ LET i == Turns(t)[cursor[t] + 1]
         bin == BinOf(job.keys[i])
         matches == Matches(job.keys[i], pattern)
     IN CASE matches /\ bin < threshold -> Select(i)
          [] matches /\ bin = threshold /\ step = 3 -> TakeSlot(i)
          [] matches /\ bin = threshold /\ step < 3 /\ Fits -> Keep(i)
          [] OTHER -> UNCHANGED <<hist, found, items, out>>
  /\ UNCHANGED <<job, phase, step, pattern, round, last, threshold, binSize, memory, rebinned>>

(* Mutant of EndStep: the last step is followed by itself. *)
EndStepAgain ==
  /\ phase = "place" /\ \A t \in Thread : cursor[t] = Len(Turns(t))
  /\ IF binSize > NumFinalItems
     THEN /\ phase' = "count" /\ step' = Smaller(step + 1, 3)
          /\ rebinned' = (rebinned \/ (step = 0 /\ found > 0))
     ELSE /\ phase' = "sort"
          /\ UNCHANGED <<step, rebinned>>
  /\ UNCHANGED <<job, pattern, hist, round, last, threshold, binSize, found, items, out,
                 cursor, memory>>

(* All elements are placed: a bin too large is looked into by another      *)
(* step, except after step 3, which leaves nothing to sort.                *)
EndStep ==
  /\ phase = "place" /\ \A t \in Thread : cursor[t] = Len(Turns(t))
  /\ IF step < 3 /\ binSize > NumFinalItems
     THEN /\ phase' = "count" /\ step' = step + 1
          /\ rebinned' = (rebinned \/ (step = 0 /\ found > 0))
     ELSE /\ phase' = IF step = 3 THEN "store" ELSE "sort"
          /\ UNCHANGED <<step, rebinned>>
  /\ UNCHANGED <<job, pattern, hist, round, last, threshold, binSize, found, items, out,
                 cursor, memory>>

-----------------------------------------------------------------------------
(* Mutant of RankOf: ties are not told apart. *)
RankTied(i) == Cardinality({j \in 1 .. Len(items) : items[i].key > items[j].key})

(* The insertion sort: how many items come before the i-th.  Of two equal  *)
(* ones the later comes first.                                             *)
RankOf(i) ==
  Cardinality({j \in 1 .. Len(items) :
    items[i].key > items[j].key \/ (items[i].key = items[j].key /\ i < j)})

Sort ==
  /\ phase = "sort"
  /\ phase' = "store"
  /\ LET at(k) == {i \in 1 .. Len(items) : RankOf(i) + found = k}
     IN out' = [k \in Slot |->
          IF at(k) = {} THEN out[k] ELSE items[CHOOSE i \in at(k) : TRUE]]
  /\ UNCHANGED <<job, step, pattern, hist, round, last, threshold, binSize, found, items,
                 cursor, memory, rebinned>>

(* The result goes to global memory; the strided loop counted from the     *)
(* start of the tensor.                                                    *)
Stored(e) ==
  IF job.kind # "split" /\ ~job.contiguous THEN [e EXCEPT !.index = @ - job.start] ELSE e

Store ==
  /\ phase = "store"
  /\ phase' = "idle"
  /\ memory' = [memory EXCEPT ![job.dest] = [k \in Slot |-> Stored(out[k])]]
  /\ UNCHANGED <<job, step, pattern, hist, round, last, threshold, binSize, found, items,
                 out, cursor, rebinned>>

RowStep ==
  Shortcut \/ Count \/ Scan \/ (\E t \in Thread : Place(t)) \/ EndStep \/ Sort \/ Store
=============================================================================
