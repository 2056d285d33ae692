---------------------------- MODULE GroupedTopK -----------------------------
(***************************************************************************)
(* grouped_topk (csrc/moe/grouped_topk.cpp): the experts of a token are    *)
(* taken from the groups of experts whose two best add up to the most.     *)
(* A work-group serves a token; every sub-group scores a group of experts  *)
(* and leaves the sum in local memory, then the first one selects, twice,  *)
(* with a WarpSelect: candidates gather in a buffer as wide as the         *)
(* sub-group, and a full buffer is sorted and merged with the best so far  *)
(* by a bitonic network over the lanes.                                    *)
(***************************************************************************)
EXTENDS Integers, Sequences, FiniteSetsExt, SequencesExt

CONSTANTS
  SortLanes,    (* WARP_SIZE, a power of two                               *)
  Infinite,     (* -INFINITY, below every sum of a score and a bias        *)
  Sigmoid,      (* apply_sigmoid by logit, 0 at Infinite                   *)
  Unset,        (* what an uninitialised k_th_idx_ may hold                *)
  GroupedCalls  (* bound of the inputs: [logits, bias, groups, topkGroups, *)
                (* k, renormalize, sigmoid]                                *)

ASSUME SortAssumption == \E i \in 1 .. 6 : SortLanes = 2 ^ i

VARIABLES
  asked,        (* the call, for one token                                 *)
  groupScores,  (* s_group_scores                                          *)
  groupSel,     (* group_sel once it is done                               *)
  expertSel,    (* expert_sel                                              *)
  adding,       (* the adds done for the groups selected                   *)
  picked        (* topk_indices and topk_values of the token               *)

groupedVars == <<asked, groupScores, groupSel, expertSel, adding, picked>>

SortLane == 0 .. SortLanes - 1
PerGroup == Len(asked.logits) \div asked.groups
Group == 0 .. asked.groups - 1

Plus(a, b) == IF Infinite \in {a, b} THEN Infinite ELSE a + b
Scored(e) == IF asked.sigmoid THEN Sigmoid[asked.logits[e + 1]] ELSE asked.logits[e + 1]
BiasedScore(e) == Plus(Scored(e), asked.bias[e + 1])

-----------------------------------------------------------------------------
(* WarpSelect: what a lane holds is [val, idx].                            *)

Dummy == [val |-> Infinite, idx |-> 0]
Ahead(a, b) == a.val > b.val \/ (a.val = b.val /\ a.idx < b.idx)
Halves(n) == LET down[m \in Nat] == IF m = 0 THEN <<>> ELSE <<m>> \o down[m \div 2] IN down[n]
Bit(l, m) == (l \div m) % 2 = 1
Partner(l, m) == IF Bit(l, m) THEN l - m ELSE l + m

(* A lane takes its partner's where its own is ahead and should not be, or *)
(* the other way round; reversed(l) tells in which direction its part of   *)
(* the network sorts.                                                      *)
CompareExchange(held, m, keep) ==
  [l \in SortLane |-> IF Ahead(held[l], held[Partner(l, m)]) # keep[l] THEN held[Partner(l, m)]
                      ELSE held[l]]

(* BitonicMerge over the lanes: falling, the best in lane 0, or rising.    *)
BitonicMerge(held, falling) ==
  FoldLeft(LAMBDA h, m : CompareExchange(h, m, [l \in SortLane |-> falling # Bit(l, m)]),
           held, Halves(SortLanes \div 2))

(* Mutant of BitonicSort: a stage too few. *)
BitonicSortShort(held) == BitonicMerge(held, FALSE)

(* Stages of growing runs, up and down in turns, and a merge; the result   *)
(* rises.                                                                  *)
BitonicSort(held) ==
  LET grow(h, s) ==
        FoldLeft(LAMBDA g, m : CompareExchange(g, m, [l \in SortLane |-> Bit(l, 2 * s) # Bit(l, m)]),
                 h, Halves(s))
      stages == Reverse(Halves(SortLanes \div 4))
  IN BitonicMerge(FoldLeft(grow, held, stages), FALSE)

NewSelect(k) ==
  {[k |-> k, best |-> [l \in SortLane |-> Dummy], buffer |-> <<>>,
    kth |-> [val |-> Infinite, idx |-> idx]] : idx \in Unset}

(* The sorted buffer and the best meet end to end; the better of each pair *)
(* makes a bitonic sequence again.                                         *)
MergeBuffer(sel, buf) ==
  LET sorted == BitonicSort(buf)
      met == [l \in SortLane |-> IF Ahead(sorted[l], sel.best[l]) THEN sorted[l] ELSE sel.best[l]]
      best == BitonicMerge(met, TRUE)
  IN [sel EXCEPT !.best = best, !.kth = best[(sel.k - 1) % SortLanes]]

(* add: a candidate from every lane; those ahead of the k-th so far go to  *)
(* the buffer in the order of their lanes, and once it is full the rest    *)
(* start it anew.                                                          *)
Add(sel, candidate) ==
  LET lanes == SelectSeq([i \in 1 .. SortLanes |-> i - 1], LAMBDA l : Ahead(candidate[l], sel.kth))
      all == sel.buffer \o [i \in DOMAIN lanes |-> candidate[lanes[i]]]
  IN IF Len(all) < SortLanes THEN [sel EXCEPT !.buffer = all]
     ELSE [MergeBuffer(sel, [l \in SortLane |-> all[l + 1]])
             EXCEPT !.buffer = SubSeq(all, SortLanes + 1, Len(all))]

Done(sel) ==
  IF sel.buffer = <<>> THEN sel
  ELSE MergeBuffer(sel, [l \in SortLane |->
         IF l < Len(sel.buffer) THEN sel.buffer[l + 1] ELSE Dummy])

-----------------------------------------------------------------------------
GroupedIdle ==
  asked = <<>> /\ groupScores = <<>> /\ groupSel = <<>> /\ expertSel = <<>>
  /\ adding = 0 /\ picked = <<>>

CallGrouped ==
  /\ asked = <<>> /\ asked' \in GroupedCalls
  /\ UNCHANGED <<groupScores, groupSel, expertSel, adding, picked>>

(* The two largest of a group: each lane its own two, then over the lanes; *)
(* the largest counts twice if two lanes hold it.                          *)
TopTwo(g) ==
  LET own(l) == {i \in 0 .. PerGroup - 1 : i % SortLanes = l}
      value(i) == BiasedScore(g * PerGroup + i)
      largest(l) == IF own(l) = {} THEN Infinite ELSE Max({value(i) : i \in own(l)})
      second(l) == IF Cardinality(own(l)) < 2 THEN Infinite
                   ELSE LET first == CHOOSE i \in own(l) : value(i) = largest(l)
                        IN Max({value(i) : i \in own(l) \ {first}})
      max1 == Max({largest(l) : l \in SortLane})
      holders == {l \in SortLane : largest(l) = max1}
      max2 == IF Cardinality(holders) = 1
              THEN Max({IF l \in holders THEN second(l) ELSE largest(l) : l \in SortLane})
              ELSE max1
  IN Plus(max1, max2)

(* A sub-group's scan, up to the barrier. *)
ScanGroup(g) ==
  /\ g \notin DOMAIN groupScores
  /\ groupScores' = [h \in DOMAIN groupScores \cup {g} |-> IF h = g THEN TopTwo(g) ELSE groupScores[h]]
  /\ UNCHANGED <<asked, groupSel, expertSel, adding, picked>>

(* Past the barrier: the groups, one to a lane. *)
SelectGroups ==
  /\ DOMAIN groupScores = Group /\ groupSel = <<>>
  /\ \E sel \in NewSelect(asked.topkGroups) :
       groupSel' = Done(Add(sel, [l \in SortLane |->
          [val |-> IF l \in Group THEN groupScores[l] ELSE Infinite, idx |-> l]]))
  /\ expertSel' \in NewSelect(asked.k)
  /\ UNCHANGED <<asked, groupScores, adding, picked>>

Proceed == groupSel.best[asked.topkGroups - 1].val # Infinite

(* Too few groups to choose from: any experts, alike.                      *)
DefaultExperts ==
  /\ groupSel # <<>> /\ picked = <<>> /\ ~Proceed
  /\ picked' = [j \in 1 .. asked.k |-> [index |-> j - 1, score |-> 1, over |-> asked.k]]
  /\ UNCHANGED <<asked, groupScores, groupSel, expertSel, adding>>

(* Every group takes as many adds as its experts fill sub-groups.          *)
AddsPerGroup == (PerGroup + SortLanes - 1) \div SortLanes
AddExperts ==
  /\ groupSel # <<>> /\ Proceed /\ adding < asked.topkGroups * AddsPerGroup
  /\ LET offset == groupSel.best[adding \div AddsPerGroup].idx * PerGroup
         at(l) == (adding % AddsPerGroup) * SortLanes + l
         candidate(l) ==
           IF at(l) >= PerGroup THEN Dummy
           ELSE [idx |-> offset + at(l),
                 val |-> IF asked.logits[offset + at(l) + 1] = Infinite THEN Infinite
                         ELSE BiasedScore(offset + at(l))]
     IN expertSel' = Add(expertSel, [l \in SortLane |-> candidate(l)])
  /\ adding' = adding + 1
  /\ UNCHANGED <<asked, groupScores, groupSel, picked>>

WriteExperts ==
  /\ groupSel # <<>> /\ Proceed /\ adding = asked.topkGroups * AddsPerGroup /\ picked = <<>>
  /\ LET done == Done(expertSel)
         index(j) == done.best[j - 1].idx
         sum == MapThenSumSet(LAMBDA j : Scored(index(j)), 1 .. asked.k)
     IN picked' = [j \in 1 .. asked.k |->
          [index |-> index(j), score |-> Scored(index(j)), over |-> IF asked.renormalize THEN sum ELSE 1]]
  /\ UNCHANGED <<asked, groupScores, groupSel, expertSel, adding>>

GroupedNext ==
  /\ asked # <<>>
  /\ \/ \E g \in Group : ScanGroup(g)
     \/ SelectGroups
     \/ DefaultExperts
     \/ AddExperts
     \/ WriteExperts

-----------------------------------------------------------------------------
(* The groups are those with the largest sums of their two best experts,   *)
(* the experts the k best of these groups in falling order, the lower      *)
(* number first among equals, with their scores without bias as weights,   *)
(* over their sum if the caller asks; a token with fewer groups or experts *)
(* that are not masked is promised nothing (grouped_topk).                 *)
GroupsChosen ==
  LET sum(g) ==
        LET best(B) == Max({BiasedScore(e) : e \in B})
            experts == {g * PerGroup + i : i \in 0 .. PerGroup - 1}
            first == CHOOSE e \in experts : BiasedScore(e) = best(experts)
        IN IF PerGroup = 1 THEN Infinite ELSE Plus(best(experts), best(experts \ {first}))
      chosen == {g \in Group :
        Cardinality({h \in Group : sum(h) > sum(g) \/ (sum(h) = sum(g) /\ h < g)}) < asked.topkGroups}
      eligible == {e \in 0 .. Len(asked.logits) - 1 :
        e \div PerGroup \in chosen /\ asked.logits[e + 1] # Infinite}
      ahead(e) == {f \in eligible : \/ BiasedScore(f) > BiasedScore(e)
                                    \/ BiasedScore(f) = BiasedScore(e) /\ f < e}
      expert(j) == CHOOSE e \in eligible : Cardinality(ahead(e)) = j - 1
      total == MapThenSumSet(LAMBDA j : Scored(expert(j)), 1 .. asked.k)
  IN picked # <<>> /\ (\A g \in chosen : sum(g) # Infinite) /\ Cardinality(eligible) >= asked.k =>
       \A j \in 1 .. asked.k :
         /\ picked[j].index = expert(j) /\ picked[j].score = Scored(expert(j))
         /\ picked[j].over = IF asked.renormalize THEN total ELSE 1
=============================================================================
