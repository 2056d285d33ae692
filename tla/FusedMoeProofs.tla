--------------------------- MODULE FusedMoeProofs ---------------------------
(***************************************************************************)
(* For every number of tokens, experts, work-groups and work-items:        *)
(* RowsPerExpertCount gives the slots of an expert all the ranks below its *)
(* count, each once (IInv); RemapHiddenStates turns them into the rows of  *)
(* the expert's segment, and fills each with its token (RowsInv); so the   *)
(* layer gives every token what MoeLayer promises.  And every expert is on *)
(* exactly one device.                                                     *)
(***************************************************************************)
EXTENDS FusedMoe, NatLemmas, FiniteSetTheorems

(* The work-item that owns an expert's counter, and whether it has taken   *)
(* the base of the group's slots.                                          *)
Keeper(e) == e % CountLanes
Based(g, e) == e < next[g][Keeper(e)]

(* Slot s has a rank, in its group or among all. *)
Counted1(s) ==
  /\ ExpertOf(s) # -1
  /\ phase[GroupOf(s)][LaneOf(s)] >= 2
  /\ stage[s \div TopK][0] < 5

SameCounter(s, t) == GroupOf(s) = GroupOf(t) /\ ExpertOf(s) = ExpertOf(t)

(* The rank among all slots, as it is or as it will be. *)
Place(s) ==
  IF phase[GroupOf(s)][LaneOf(s)] = 4 THEN perm[s]
  ELSE perm[s] + counts[GroupOf(s)][ExpertOf(s)]

Typing ==
  /\ in \in Inputs
  /\ phase \in [CountGroup -> [CountLane -> 0 .. 4]]
  /\ next \in [CountGroup -> [CountLane -> Nat]]
  /\ counts \in [CountGroup -> [Expert -> Nat]]
  /\ rows \in [Expert -> Nat]
  /\ perm = [s \in Slot |-> perm[s]]
  /\ \A s \in Slot : stage[s \div TopK][0] < 5 => perm[s] \in Int
  /\ stage \in [Token -> [CopyLane -> Nat]]

(* Nobody is two phases ahead. *)
Ordered ==
  \A g \in CountGroup : \A l, m \in CountLane : phase[g][l] <= phase[g][m] + 1

(* Where the loops over the experts stand. *)
LoopsKept ==
  \A g \in CountGroup : \A l \in CountLane :
    /\ next[g][l] >= l /\ next[g][l] % CountLanes = l
    /\ phase[g][l] >= 3 => next[g][l] >= LocalExperts
    /\ next[g][l] # l => \A m \in CountLane : phase[g][m] >= 2

(* Ranks in a group, before the base is taken. *)
LocalRanks ==
  \A s, t \in Slot :
    Counted1(s) /\ Counted1(t) /\ SameCounter(s, t) /\ ~Based(GroupOf(s), ExpertOf(s)) =>
      /\ perm[s] \in 0 .. counts[GroupOf(s)][ExpertOf(s)] - 1
      /\ s # t => perm[s] # perm[t]

(* Ranks among all slots, once it is. *)
GlobalRanks ==
  \A s, t \in Slot :
    /\ Counted1(s) /\ Based(GroupOf(s), ExpertOf(s)) => Place(s) \in 0 .. rows[ExpertOf(s)] - 1
    /\ /\ s # t /\ ExpertOf(s) = ExpertOf(t)
       /\ Counted1(s) /\ Based(GroupOf(s), ExpertOf(s))
       /\ Counted1(t) /\ Based(GroupOf(t), ExpertOf(t))
       => Place(s) # Place(t)

(* A work-item that has cleared its counters; no slot has its row yet.     *)
Cleared(g, e) == phase[g][Keeper(e)] >= 1
Fresh == \A t \in Token : stage[t][0] < 5

(* No rank is left out: in a group, before the base is taken; *)
LocalOnto ==
  Fresh =>
    \A g \in CountGroup : \A e \in Expert :
      Cleared(g, e) /\ ~Based(g, e) =>
        \A k \in 0 .. counts[g][e] - 1 :
          \E s \in Slot : Counted1(s) /\ GroupOf(s) = g /\ ExpertOf(s) = e /\ perm[s] = k

(* among all slots, once it is. *)
GlobalOnto ==
  Fresh =>
    \A e \in Expert : \A k \in 0 .. rows[e] - 1 :
      \E s \in Slot :
        Counted1(s) /\ ExpertOf(s) = e /\ Based(GroupOf(s), e) /\ Place(s) = k

IInv ==
  /\ Typing /\ Ordered /\ LoopsKept
  /\ LocalRanks /\ GlobalRanks /\ LocalOnto /\ GlobalOnto

-----------------------------------------------------------------------------
(* Slots, their groups and their tokens. *)
LEMMA Ranges ==
  /\ NumSlots \in Nat /\ CountLanes \in Nat \ {0} /\ 0 \in CopyLane
  /\ \A g \in CountGroup : g \in Nat
  /\ \A l \in CountLane : l \in Nat
BY SizeAssumption DEF NumSlots, CopyLane, CopyLanes, CountGroup, CountLane

LEMMA SlotFacts ==
  ASSUME NEW s \in Slot
  PROVE  /\ GroupOf(s) \in CountGroup /\ LaneOf(s) \in CountLane
         /\ s = SlotOf(GroupOf(s), LaneOf(s))
         /\ s \div TopK \in Token
<1>1. s \in 0 .. NumSlots - 1 /\ s \in Nat /\ NumSlots \in Nat /\ CountLanes \in Nat \ {0}
  BY Ranges DEF Slot
<1>2. GroupOf(s) \in CountGroup
  BY <1>1, GroupBound DEF GroupOf, CountGroup
<1>3. LaneOf(s) \in CountLane /\ s = SlotOf(GroupOf(s), LaneOf(s))
  BY <1>1, DivMod DEF LaneOf, GroupOf, CountLane, SlotOf
<1>4. s \div TopK \in 0 .. NumRows - 1
  BY <1>1, SizeAssumption, QuotientBelow DEF NumSlots
<1> QED
  BY <1>2, <1>3, <1>4 DEF Token

LEMMA SlotOfFacts ==
  ASSUME NEW g \in CountGroup, NEW l \in CountLane
  PROVE  GroupOf(SlotOf(g, l)) = g /\ LaneOf(SlotOf(g, l)) = l
<1>1. g \in Nat /\ l \in 0 .. CountLanes - 1 /\ CountLanes \in Nat \ {0}
  BY Ranges DEF CountLane
<1> QED
  BY <1>1, DivModUnique DEF GroupOf, LaneOf, SlotOf

LEMMA ExpertFacts ==
  ASSUME in \in Inputs, NEW s \in Slot
  PROVE  ExpertOf(s) \in Expert \cup {-1}
<1>1. in.ids[s] \in -1 .. TotalExperts - 1 /\ in.map \in [0 .. TotalExperts - 1 -> Expert \cup {-1}]
  BY InputAssumption
<1>2. CASE in.ids[s] < 0
  BY <1>2 DEF ExpertOf
<1>3. CASE ~(in.ids[s] < 0)
  <2>1. in.ids[s] \in 0 .. TotalExperts - 1
    BY <1>1, <1>3, SizeAssumption
  <2> QED BY <1>1, <1>3, <2>1 DEF ExpertOf
<1> QED BY <1>2, <1>3

LEMMA KeeperFacts ==
  ASSUME NEW e \in Expert
  PROVE  Keeper(e) \in CountLane /\ Keeper(e) <= e /\ e \in Nat /\ e < LocalExperts
<1>1. e \in Nat /\ e < LocalExperts /\ CountLanes \in Nat \ {0}
  BY SizeAssumption DEF Expert
<1>2. e = ((e \div CountLanes) * CountLanes) + (e % CountLanes)
      /\ e \div CountLanes \in Nat /\ e % CountLanes \in 0 .. CountLanes - 1
  BY <1>1, DivMod
<1>3. (e \div CountLanes) * CountLanes >= 0
  <2> DEFINE q == e \div CountLanes
  <2>1. q \in Nat BY <1>2
  <2> HIDE DEF q
  <2>2. q * CountLanes >= 0 BY <2>1, <1>1
  <2> QED BY <2>2 DEF q
<1> QED
  BY <1>1, <1>2, <1>3 DEF Keeper, CountLane

(* A counted slot's expert and group. *)
LEMMA CountedFacts ==
  ASSUME in \in Inputs, NEW s \in Slot, Counted1(s)
  PROVE  /\ ExpertOf(s) \in Expert /\ GroupOf(s) \in CountGroup /\ LaneOf(s) \in CountLane
         /\ s \div TopK \in Token
BY ExpertFacts, SlotFacts DEF Counted1

(* No expert of a group has been based before all its slots are counted. *)
LEMMA NotBased ==
  ASSUME Typing, LoopsKept, NEW g \in CountGroup, NEW l \in CountLane, phase[g][l] < 2,
         NEW e \in Expert
  PROVE  ~Based(g, e)
<1>1. Keeper(e) \in CountLane /\ Keeper(e) <= e /\ e \in Nat
  BY KeeperFacts
<1>2. phase[g][l] \in 0 .. 4
  BY DEF Typing
<1>3. next[g][Keeper(e)] = Keeper(e)
  BY <1>1, <1>2 DEF LoopsKept
<1> QED
  BY <1>1, <1>3, Ranges DEF Based

(* All are, once a work-item has left the loop over them. *)
LEMMA AllBased ==
  ASSUME Typing, Ordered, LoopsKept, NEW g \in CountGroup, NEW l \in CountLane, phase[g][l] = 4,
         NEW e \in Expert
  PROVE  Based(g, e)
<1>1. Keeper(e) \in CountLane /\ e \in Nat /\ e < LocalExperts
  BY KeeperFacts
<1>2. phase[g][Keeper(e)] >= 3
  <2>1. phase[g][l] <= phase[g][Keeper(e)] + 1 /\ phase[g][Keeper(e)] \in 0 .. 4
    BY <1>1 DEF Ordered, Typing
  <2> QED BY <2>1
<1>3. next[g][Keeper(e)] >= LocalExperts /\ next[g][Keeper(e)] \in Nat
  BY <1>1, <1>2 DEF LoopsKept, Typing
<1> QED
  BY <1>1, <1>3, SizeAssumption DEF Based

(* A step that counts no slot and takes no base keeps the ranks. *)
LEMMA Kept ==
  ASSUME in \in Inputs, LocalRanks, GlobalRanks, in' = in,
         \A s \in Slot : Counted1(s)' =>
           /\ Counted1(s)
           /\ Place(s)' = Place(s)
           /\ Based(GroupOf(s), ExpertOf(s))' <=> Based(GroupOf(s), ExpertOf(s))
           /\ rows'[ExpertOf(s)] = rows[ExpertOf(s)],
         \A s \in Slot : Counted1(s)' /\ ~Based(GroupOf(s), ExpertOf(s)) =>
           /\ perm'[s] = perm[s]
           /\ counts'[GroupOf(s)][ExpertOf(s)] = counts[GroupOf(s)][ExpertOf(s)]
  PROVE  LocalRanks' /\ GlobalRanks'
<1>1. \A s : ExpertOf(s)' = ExpertOf(s) /\ GroupOf(s)' = GroupOf(s)
  BY DEF ExpertOf, GroupOf
<1>2. \A s, t \in Slot : SameCounter(s, t)' <=> SameCounter(s, t)
  BY <1>1 DEF SameCounter
<1>3. LocalRanks'
  <2> SUFFICES ASSUME NEW s \in Slot, NEW t \in Slot, Counted1(s)', Counted1(t)',
                      SameCounter(s, t)', ~Based(GroupOf(s), ExpertOf(s))'
               PROVE  /\ perm'[s] \in 0 .. counts'[GroupOf(s)][ExpertOf(s)] - 1
                      /\ s # t => perm'[s] # perm'[t]
    BY <1>1 DEF LocalRanks
  <2>1. SameCounter(s, t) /\ ~Based(GroupOf(s), ExpertOf(s)) /\ Counted1(s) /\ Counted1(t)
    BY <1>2
  <2>2. ~Based(GroupOf(t), ExpertOf(t))
    BY <2>1 DEF SameCounter
  <2> QED BY <2>1, <2>2 DEF LocalRanks
<1>4. GlobalRanks'
  <2> SUFFICES ASSUME NEW s \in Slot, Counted1(s)', Based(GroupOf(s), ExpertOf(s))'
               PROVE  /\ Place(s)' \in 0 .. rows'[ExpertOf(s)] - 1
                      /\ \A t \in Slot :
                           /\ s # t /\ ExpertOf(s) = ExpertOf(t)
                           /\ Counted1(t)' /\ Based(GroupOf(t), ExpertOf(t))'
                           => Place(s)' # Place(t)'
    BY <1>1 DEF GlobalRanks
  <2> QED BY DEF GlobalRanks
<1> QED BY <1>3, <1>4

(* ... and one that does not undo a slot leaves no rank out. *)
LEMMA OntoKept ==
  ASSUME in \in Inputs, LocalOnto, GlobalOnto, in' = in, rows' = rows, Fresh' => Fresh,
         \A s \in Slot : Counted1(s) /\ Fresh' =>
           /\ Counted1(s)'
           /\ Place(s)' = Place(s)
           /\ ~Based(GroupOf(s), ExpertOf(s)) => perm'[s] = perm[s],
         \A g \in CountGroup : \A e \in Expert :
           /\ Based(g, e)' <=> Based(g, e)
           /\ Cleared(g, e)' /\ ~Based(g, e) =>
                \/ Cleared(g, e) /\ counts'[g][e] = counts[g][e]
                \/ counts'[g][e] = 0
  PROVE  LocalOnto' /\ GlobalOnto'
<1>1. \A s : ExpertOf(s)' = ExpertOf(s) /\ GroupOf(s)' = GroupOf(s)
  BY DEF ExpertOf, GroupOf
<1>2. LocalOnto'
  <2> SUFFICES ASSUME Fresh', NEW g \in CountGroup, NEW e \in Expert,
                      Cleared(g, e)', ~Based(g, e), NEW k \in 0 .. counts'[g][e] - 1
               PROVE  \E s \in Slot : /\ Counted1(s)' /\ GroupOf(s) = g /\ ExpertOf(s) = e
                                      /\ perm'[s] = k
    BY <1>1 DEF LocalOnto
  <2>1. counts'[g][e] # 0
    OBVIOUS
  <2>2. Cleared(g, e) /\ counts'[g][e] = counts[g][e]
    BY <2>1
  <2>3. PICK s \in Slot : Counted1(s) /\ GroupOf(s) = g /\ ExpertOf(s) = e /\ perm[s] = k
    BY <2>2 DEF LocalOnto
  <2> QED BY <2>3
<1>3. GlobalOnto'
  <2> SUFFICES ASSUME Fresh', NEW e \in Expert, NEW k \in 0 .. rows[e] - 1
               PROVE  \E s \in Slot : /\ Counted1(s)' /\ ExpertOf(s) = e
                                      /\ Based(GroupOf(s), e)' /\ Place(s)' = k
    BY <1>1 DEF GlobalOnto
  <2>1. PICK s \in Slot : Counted1(s) /\ ExpertOf(s) = e /\ Based(GroupOf(s), e) /\ Place(s) = k
    BY DEF GlobalOnto
  <2>2. GroupOf(s) \in CountGroup
    BY SlotFacts
  <2>3. Based(GroupOf(s), e)'
    BY <1>1, <2>1, <2>2 DEF Based, GroupOf
  <2> QED BY <2>1, <2>3
<1> QED BY <1>2, <1>3

-----------------------------------------------------------------------------
(* The end of a phase. *)
LEMMA PhaseFacts ==
  ASSUME Typing, Ordered, NEW g \in CountGroup, NEW l \in CountLane, NEW n \in 0 .. 3,
         At(g, l, n), EndPhase(g, l)
  PROVE  /\ phase' \in [CountGroup -> [CountLane -> 0 .. 4]] /\ Ordered'
         /\ phase[g][l] = n /\ phase'[g][l] = n + 1
         /\ \A m \in CountLane : phase[g][m] \in {n, n + 1}
         /\ \A h \in CountGroup : \A m \in CountLane :
              ~(h = g /\ m = l) => phase'[h][m] = phase[h][m]
<1>1. /\ phase[g][l] = n /\ \A m \in CountLane : phase[g][m] >= n
      /\ phase' = [phase EXCEPT ![g][l] = @ + 1]
  BY DEF At, EndPhase
<1>2. phase \in [CountGroup -> [CountLane -> 0 .. 4]]
  BY DEF Typing
<1>3. phase' \in [CountGroup -> [CountLane -> 0 .. 4]] /\ phase'[g][l] = n + 1
  BY <1>1, <1>2
<1>4. \A h \in CountGroup : \A m \in CountLane :
        ~(h = g /\ m = l) => phase'[h][m] = phase[h][m]
  BY <1>1, <1>2
<1>5. \A m \in CountLane : phase[g][m] \in {n, n + 1}
  <2> TAKE m \in CountLane
  <2>1. phase[g][m] \in 0 .. 4 /\ phase[g][m] >= n /\ phase[g][m] <= n + 1
    BY <1>1, <1>2 DEF Ordered
  <2> QED BY <2>1
<1>6. Ordered'
  <2> SUFFICES ASSUME NEW h \in CountGroup, NEW i \in CountLane, NEW m \in CountLane
               PROVE  phase'[h][i] <= phase'[h][m] + 1
    BY DEF Ordered
  <2>1. phase[h][i] \in 0 .. 4 /\ phase[h][m] \in 0 .. 4 /\ phase[h][i] <= phase[h][m] + 1
    BY <1>2 DEF Ordered
  <2>2. CASE h = g /\ i = l
    BY <1>3, <1>4, <1>5, <2>1, <2>2
  <2>3. CASE h = g /\ m = l /\ i # l
    BY <1>3, <1>4, <1>5, <2>1, <2>3
  <2>4. CASE h # g \/ (i # l /\ m # l)
    BY <1>4, <2>1, <2>4
  <2> QED BY <2>2, <2>3, <2>4
<1> QED BY <1>1, <1>3, <1>4, <1>5, <1>6

LEMMA LoopsFrame ==
  ASSUME Typing, Ordered, LoopsKept, NEW g \in CountGroup, NEW l \in CountLane, NEW n \in 0 .. 3,
         At(g, l, n), EndPhase(g, l), next' = next,
         n = 2 => next[g][l] >= LocalExperts
  PROVE  LoopsKept'
<1>1. /\ phase[g][l] = n /\ phase'[g][l] = n + 1
      /\ \A h \in CountGroup : \A m \in CountLane :
           ~(h = g /\ m = l) => phase'[h][m] = phase[h][m]
  BY PhaseFacts
<1>2. \A h \in CountGroup : \A m \in CountLane :
        phase[h][m] \in 0 .. 4 /\ phase'[h][m] >= phase[h][m] /\ phase'[h][m] \in Nat
  BY <1>1 DEF Typing
<1> SUFFICES ASSUME NEW h \in CountGroup, NEW m \in CountLane
             PROVE  /\ next[h][m] >= m /\ next[h][m] % CountLanes = m
                    /\ phase'[h][m] >= 3 => next[h][m] >= LocalExperts
                    /\ next[h][m] # m => \A i \in CountLane : phase'[h][i] >= 2
  BY DEF LoopsKept
<1>3. next[h][m] >= m /\ next[h][m] % CountLanes = m
  BY DEF LoopsKept
<1>4. ASSUME phase'[h][m] >= 3 PROVE next[h][m] >= LocalExperts
  <2>1. CASE phase[h][m] >= 3
    BY <2>1 DEF LoopsKept
  <2>2. CASE ~(phase[h][m] >= 3)
    BY <1>1, <1>2, <1>4, <2>2
  <2> QED BY <2>1, <2>2
<1>5. ASSUME next[h][m] # m, NEW i \in CountLane PROVE phase'[h][i] >= 2
  <2>1. phase[h][i] >= 2
    BY <1>5 DEF LoopsKept
  <2> QED BY <1>2, <2>1
<1> QED BY <1>3, <1>4, <1>5

-----------------------------------------------------------------------------
LEMMA InitKept == Init => IInv
<1> SUFFICES ASSUME RemapInit PROVE IInv
  BY DEF Init
<1>1. Typing
  <2>1. CountLane \subseteq Nat
    BY Ranges
  <2>2. Garbage \in Nat
    BY GarbageAssumption
  <2>3. /\ in \in Inputs
        /\ phase \in [CountGroup -> [CountLane -> 0 .. 4]]
        /\ next \in [CountGroup -> [CountLane -> Nat]]
        /\ counts \in [CountGroup -> [Expert -> Nat]]
        /\ rows \in [Expert -> Nat]
        /\ perm = [s \in Slot |-> perm[s]]
        /\ \A s \in Slot : perm[s] \in Int
        /\ stage \in [Token -> [CopyLane -> Nat]]
    BY <2>1, <2>2 DEF RemapInit, RowsAtStart
  <2> QED BY <2>3 DEF Typing
<1>2. Ordered
  BY DEF RemapInit, Ordered
<1>3. LoopsKept
  <2> SUFFICES ASSUME NEW g \in CountGroup, NEW l \in CountLane
               PROVE  l >= l /\ l % CountLanes = l
    BY DEF LoopsKept, RemapInit
  <2>1. l \in 0 .. CountLanes - 1 /\ CountLanes \in Nat \ {0}
    BY Ranges DEF CountLane
  <2>2. ((0 * CountLanes) + l) % CountLanes = l
    BY <2>1, DivModUnique
  <2> QED BY <2>1, <2>2
<1>4. \A s \in Slot : ~Counted1(s)
  BY SlotFacts DEF RemapInit, Counted1
<1>5. \A g \in CountGroup : \A e \in Expert : ~Cleared(g, e)
  BY KeeperFacts DEF RemapInit, Cleared
<1>6. \A e \in Expert : rows[e] = 0
  BY DEF RemapInit, RowsAtStart
<1>7. LocalOnto /\ GlobalOnto
  BY <1>5, <1>6 DEF LocalOnto, GlobalOnto
<1> QED
  BY <1>1, <1>2, <1>3, <1>4, <1>7 DEF IInv, LocalRanks, GlobalRanks

LEMMA ClearKept ==
  ASSUME IInv, NEW g \in CountGroup, NEW l \in CountLane, Clear(g, l)
  PROVE  IInv'
<1>0. /\ Typing /\ Ordered /\ LoopsKept /\ LocalRanks /\ GlobalRanks /\ LocalOnto /\ GlobalOnto
      /\ At(g, l, 0) /\ EndPhase(g, l)
      /\ counts' = [counts EXCEPT ![g] =
           [e \in Expert |-> IF e % CountLanes = l THEN 0 ELSE counts[g][e]]]
      /\ in' = in /\ next' = next /\ rows' = rows /\ perm' = perm /\ stage' = stage
  BY DEF IInv, Clear, copyVars
<1>1. /\ phase' \in [CountGroup -> [CountLane -> 0 .. 4]] /\ Ordered'
      /\ phase'[g][l] = 1 /\ \A m \in CountLane : phase[g][m] \in {0, 1}
      /\ \A h \in CountGroup : \A m \in CountLane :
           ~(h = g /\ m = l) => phase'[h][m] = phase[h][m]
  BY <1>0, PhaseFacts
<1>2. LoopsKept'
  BY <1>0, LoopsFrame
<1>3. Typing'
  <2>1. counts' \in [CountGroup -> [Expert -> Nat]]
    BY <1>0 DEF Typing
  <2> QED BY <1>0, <1>1, <2>1 DEF Typing
<1>4. \A s \in Slot : Counted1(s)' => Counted1(s) /\ GroupOf(s) # g
  BY <1>0, <1>1, SlotFacts DEF Counted1, ExpertOf, GroupOf, LaneOf
<1>5. \A s \in Slot : GroupOf(s) # g =>
        /\ Place(s)' = Place(s) /\ counts'[GroupOf(s)] = counts[GroupOf(s)]
        /\ Based(GroupOf(s), ExpertOf(s))' <=> Based(GroupOf(s), ExpertOf(s))
  <2> TAKE s \in Slot
  <2> HAVE GroupOf(s) # g
  <2>1. counts'[GroupOf(s)] = counts[GroupOf(s)]
    BY <1>0, SlotFacts DEF Typing
  <2>2. phase'[GroupOf(s)][LaneOf(s)] = phase[GroupOf(s)][LaneOf(s)]
    BY <1>1, SlotFacts
  <2> QED BY <1>0, <2>1, <2>2 DEF Place, Based, Keeper, ExpertOf, GroupOf, LaneOf
<1>6. LocalRanks' /\ GlobalRanks'
  BY <1>0, <1>4, <1>5, Kept DEF Typing
<1>7. \A s \in Slot : Counted1(s) => Counted1(s)' /\ GroupOf(s) # g /\ perm'[s] = perm[s]
  BY <1>0, <1>1, SlotFacts DEF Counted1, ExpertOf, GroupOf, LaneOf
<1>8. \A h \in CountGroup : \A e \in Expert :
        /\ Based(h, e)' <=> Based(h, e)
        /\ Cleared(h, e)' => \/ Cleared(h, e) /\ counts'[h][e] = counts[h][e]
                             \/ counts'[h][e] = 0
  <2> TAKE h \in CountGroup
  <2> TAKE e \in Expert
  <2>1. Keeper(e) \in CountLane
    BY KeeperFacts
  <2>2. CASE h = g /\ Keeper(e) = l
    BY <1>0, <2>2 DEF Typing, Keeper, Based
  <2>3. CASE ~(h = g /\ Keeper(e) = l)
    <3>1. counts'[h][e] = counts[h][e]
      BY <1>0, <2>3 DEF Typing, Keeper
    <3> QED BY <1>0, <1>1, <2>1, <2>3, <3>1 DEF Cleared, Based, Keeper
  <2> QED BY <2>2, <2>3
<1>9. LocalOnto' /\ GlobalOnto'
  BY <1>0, <1>5, <1>7, <1>8, OntoKept DEF Typing, Fresh
<1> QED BY <1>1, <1>2, <1>3, <1>6, <1>9 DEF IInv

LEMMA CountKept ==
  ASSUME IInv, NEW g \in CountGroup, NEW l \in CountLane, Count(g, l)
  PROVE  IInv'
<1> DEFINE s0 == SlotOf(g, l)
           e0 == ExpertOf(s0)
<1>0. /\ Typing /\ Ordered /\ LoopsKept /\ LocalRanks /\ GlobalRanks /\ LocalOnto /\ GlobalOnto
      /\ At(g, l, 1) /\ EndPhase(g, l)
      /\ in' = in /\ next' = next /\ rows' = rows /\ stage' = stage
  BY DEF IInv, Count, copyVars
<1>1. /\ phase' \in [CountGroup -> [CountLane -> 0 .. 4]] /\ Ordered'
      /\ phase[g][l] = 1 /\ phase'[g][l] = 2
      /\ \A m \in CountLane : phase[g][m] \in {1, 2}
      /\ \A h \in CountGroup : \A m \in CountLane :
           ~(h = g /\ m = l) => phase'[h][m] = phase[h][m]
  BY <1>0, PhaseFacts
<1>2. LoopsKept'
  BY <1>0, LoopsFrame
<1>3. GroupOf(s0) = g /\ LaneOf(s0) = l
  BY SlotOfFacts
<1>4. \A s \in Slot : s # s0 => phase'[GroupOf(s)][LaneOf(s)] = phase[GroupOf(s)][LaneOf(s)]
  BY <1>1, SlotFacts
<1>5. \A s \in Slot : s # s0 => (Counted1(s)' <=> Counted1(s))
  BY <1>0, <1>4 DEF Counted1, ExpertOf, GroupOf, LaneOf
<1>6. \A h, e : Based(h, e)' <=> Based(h, e)
  BY <1>0 DEF Based, Keeper
<1>7. \A s : ExpertOf(s)' = ExpertOf(s) /\ GroupOf(s)' = GroupOf(s) /\ LaneOf(s)' = LaneOf(s)
  BY <1>0 DEF ExpertOf, GroupOf, LaneOf
<1>10. \A h \in CountGroup : \A e \in Expert : Cleared(h, e)' => Cleared(h, e)
  <2> TAKE h \in CountGroup
  <2> TAKE e \in Expert
  <2>1. Keeper(e) \in CountLane
    BY KeeperFacts
  <2>2. CASE h = g /\ Keeper(e) = l
    BY <1>1, <2>2 DEF Cleared
  <2>3. CASE ~(h = g /\ Keeper(e) = l)
    BY <1>1, <2>1, <2>3 DEF Cleared, Keeper
  <2> QED BY <2>2, <2>3
<1>8. CASE s0 \notin Slot \/ e0 = -1
  <2>1. counts' = counts /\ \A s \in Slot : s # s0 => perm'[s] = perm[s]
    BY <1>8 DEF Count, Typing, IInv
  <2>2. s0 \in Slot => perm'[s0] = -1
    BY <1>0, <1>8 DEF Count, Typing
  <2>3. perm' = [s \in Slot |-> perm'[s]]
    BY <1>0, <1>8 DEF Count, Typing
  <2>4. Typing'
    <3>1. \A s \in Slot : stage'[s \div TopK][0] < 5 => perm'[s] \in Int
      BY <1>0, <2>1, <2>2 DEF Typing
    <3> QED BY <1>0, <1>1, <2>1, <2>3, <3>1 DEF Typing
  <2>5. \A s \in Slot : Counted1(s)' => s # s0
    BY <1>7, <1>8 DEF Counted1
  <2>6. \A s \in Slot : s # s0 => Place(s)' = Place(s)
    BY <1>4, <1>7, <2>1 DEF Place
  <2>7. LocalRanks' /\ GlobalRanks'
    BY <1>0, <1>5, <1>6, <1>7, <2>1, <2>5, <2>6, Kept DEF Typing
  <2>8. \A s \in Slot : Counted1(s) => s # s0
    BY <1>8 DEF Counted1
  <2>9. \A h \in CountGroup : \A e \in Expert : Cleared(h, e)' => Cleared(h, e)
    BY <1>10
  <2>10. LocalOnto' /\ GlobalOnto'
    BY <1>0, <1>5, <1>6, <2>1, <2>6, <2>8, <2>9, OntoKept DEF Typing, Fresh
  <2> QED BY <1>1, <1>2, <2>4, <2>7, <2>10 DEF IInv
<1>9. CASE s0 \in Slot /\ e0 # -1
  <2>0. e0 \in Expert
    BY <1>0, <1>9, ExpertFacts DEF Typing
  <2>1. /\ perm' = [perm EXCEPT ![s0] = counts[g][e0]]
        /\ counts' = [counts EXCEPT ![g][e0] = @ + 1]
    BY <1>9 DEF Count
  <2>2. /\ perm'[s0] = counts[g][e0] /\ counts[g][e0] \in Nat
        /\ counts'[g][e0] = counts[g][e0] + 1
        /\ \A s \in Slot : s # s0 => perm'[s] = perm[s]
        /\ \A h \in CountGroup : \A e \in Expert :
             ~(h = g /\ e = e0) => counts'[h][e] = counts[h][e]
    BY <1>0, <1>9, <2>0, <2>1 DEF Typing
  <2>3. Typing'
    <3>1. counts' \in [CountGroup -> [Expert -> Nat]]
      BY <1>0, <2>0, <2>1 DEF Typing
    <3>2. perm' = [s \in Slot |-> perm'[s]]
      BY <1>0, <2>1 DEF Typing
    <3>3. \A s \in Slot : stage'[s \div TopK][0] < 5 => perm'[s] \in Int
      BY <1>0, <2>2 DEF Typing
    <3> QED BY <1>0, <1>1, <3>1, <3>2, <3>3 DEF Typing
  <2>4. \A e \in Expert : ~Based(g, e)
    BY <1>0, <1>1, NotBased
  <2>5. LocalRanks'
    <3> SUFFICES ASSUME NEW s \in Slot, NEW t \in Slot, Counted1(s)', Counted1(t)',
                        GroupOf(s) = GroupOf(t), ExpertOf(s) = ExpertOf(t),
                        ~Based(GroupOf(s), ExpertOf(s))
                 PROVE  /\ perm'[s] \in 0 .. counts'[GroupOf(s)][ExpertOf(s)] - 1
                        /\ s # t => perm'[s] # perm'[t]
      BY <1>6, <1>7 DEF LocalRanks, SameCounter
    <3>1. ExpertOf(s) \in Expert /\ GroupOf(s) \in CountGroup
      BY <1>0, <1>7, ExpertFacts, SlotFacts DEF Typing, Counted1
    <3>2. \A u \in {s, t} : u # s0 =>
            perm'[u] = perm[u] /\ perm[u] \in 0 .. counts[GroupOf(s)][ExpertOf(s)] - 1
      BY <1>0, <1>5, <2>2 DEF LocalRanks, SameCounter
    <3>3. CASE GroupOf(s) = g /\ ExpertOf(s) = e0
      <4>1. PICK n \in Nat : /\ n = counts[g][e0] /\ perm'[s0] = n
                            /\ counts'[GroupOf(s)][ExpertOf(s)] = n + 1
        BY <2>2, <3>3
      <4>2. \A u \in {s, t} : u # s0 => perm'[u] \in 0 .. n - 1
        BY <3>2, <3>3, <4>1
      <4>3. s # t /\ s # s0 /\ t # s0 => perm'[s] # perm'[t]
        BY <1>0, <1>5, <2>2 DEF LocalRanks, SameCounter
      <4> HIDE DEF s0, e0
      <4>4. perm'[s] \in 0 .. n
        BY <4>1, <4>2
      <4>5. s # t => perm'[s] # perm'[t]
        BY <4>1, <4>2, <4>3
      <4> QED BY <4>1, <4>4, <4>5
    <3>4. CASE ~(GroupOf(s) = g /\ ExpertOf(s) = e0)
      <4>1. s # s0 /\ t # s0 /\ counts'[GroupOf(s)][ExpertOf(s)] = counts[GroupOf(s)][ExpertOf(s)]
        BY <1>3, <2>2, <3>1, <3>4
      <4> QED BY <1>0, <1>5, <2>2, <4>1 DEF LocalRanks, SameCounter
    <3> QED BY <3>3, <3>4
  <2>6. \A s \in Slot : Counted1(s)' /\ Based(GroupOf(s), ExpertOf(s)) =>
          Counted1(s) /\ Place(s)' = Place(s)
    <3> TAKE s \in Slot
    <3> HAVE Counted1(s)' /\ Based(GroupOf(s), ExpertOf(s))
    <3>1. ExpertOf(s) \in Expert /\ GroupOf(s) \in CountGroup
      BY <1>0, <1>7, ExpertFacts, SlotFacts DEF Typing, Counted1
    <3>2. GroupOf(s) # g /\ s # s0
      BY <1>3, <2>4, <3>1
    <3> QED BY <1>4, <1>5, <1>7, <2>2, <3>1, <3>2 DEF Place
  <2>7. GlobalRanks'
    <3> SUFFICES ASSUME NEW s \in Slot, Counted1(s)', Based(GroupOf(s), ExpertOf(s))
                 PROVE  /\ Place(s)' \in 0 .. rows[ExpertOf(s)] - 1
                        /\ \A t \in Slot :
                             /\ s # t /\ ExpertOf(s) = ExpertOf(t)
                             /\ Counted1(t)' /\ Based(GroupOf(t), ExpertOf(t))
                             => Place(s)' # Place(t)'
      BY <1>0, <1>6, <1>7 DEF GlobalRanks
    <3> QED BY <1>0, <2>6 DEF GlobalRanks
  <2>8. ~Counted1(s0) /\ (Fresh => Counted1(s0)')
    BY <1>1, <1>3, <1>7, <1>9, SlotFacts, <1>0 DEF Counted1, Fresh
  <2>9. LocalOnto'
    <3> SUFFICES ASSUME Fresh, NEW h \in CountGroup, NEW e \in Expert, Cleared(h, e)', ~Based(h, e),
                        NEW k \in 0 .. counts'[h][e] - 1
                 PROVE  \E s \in Slot : /\ Counted1(s)' /\ GroupOf(s) = h /\ ExpertOf(s) = e
                                        /\ perm'[s] = k
      BY <1>0, <1>6, <1>7 DEF LocalOnto, Fresh
    <3>1. CASE h = g /\ e = e0 /\ k = counts[g][e0]
      BY <1>3, <1>9, <2>2, <2>8, <3>1
    <3>2. CASE ~(h = g /\ e = e0 /\ k = counts[g][e0])
      <4>1. k \in 0 .. counts[h][e] - 1
        <5>1. CASE h = g /\ e = e0
          <6>1. PICK n \in Nat : n = counts[g][e0] /\ counts'[h][e] = n + 1
            BY <2>2, <5>1
          <6> QED BY <3>2, <5>1, <6>1
        <5>2. CASE ~(h = g /\ e = e0)
          BY <2>2, <5>2
        <5> QED BY <5>1, <5>2
      <4>2. PICK s \in Slot : Counted1(s) /\ GroupOf(s) = h /\ ExpertOf(s) = e /\ perm[s] = k
        BY <1>0, <1>10, <4>1 DEF LocalOnto
      <4> QED BY <1>5, <2>2, <2>8, <4>2
    <3> QED BY <3>1, <3>2
  <2>10. GlobalOnto'
    <3> SUFFICES ASSUME Fresh, NEW e \in Expert, NEW k \in 0 .. rows[e] - 1
                 PROVE  \E s \in Slot : /\ Counted1(s)' /\ ExpertOf(s) = e
                                        /\ Based(GroupOf(s), e) /\ Place(s)' = k
      BY <1>0, <1>6, <1>7 DEF GlobalOnto, Fresh
    <3>1. PICK s \in Slot : Counted1(s) /\ ExpertOf(s) = e /\ Based(GroupOf(s), e) /\ Place(s) = k
      BY <1>0 DEF GlobalOnto
    <3>2. Counted1(s)'
      BY <1>5, <2>8, <3>1
    <3> QED BY <2>6, <3>1, <3>2
  <2> QED BY <1>1, <1>2, <2>3, <2>5, <2>7, <2>9, <2>10 DEF IInv
<1> QED BY <1>8, <1>9

LEMMA TakeBaseKept ==
  ASSUME IInv, NEW g \in CountGroup, NEW l \in CountLane, TakeBase(g, l)
  PROVE  IInv'
<1> DEFINE e0 == next[g][l]
<1>0. /\ Typing /\ Ordered /\ LoopsKept /\ LocalRanks /\ GlobalRanks /\ LocalOnto /\ GlobalOnto
      /\ phase[g][l] = 2 /\ (\A m \in CountLane : phase[g][m] >= 2) /\ e0 \in Expert
      /\ next' = [next EXCEPT ![g][l] = @ + CountLanes]
      /\ in' = in /\ phase' = phase /\ perm' = perm /\ stage' = stage
  BY DEF IInv, TakeBase, At, copyVars
<1>1. PICK n \in Nat, b \in Nat : n = counts[g][e0] /\ b = rows[e0]
  BY <1>0 DEF Typing
<1>2. /\ rows'[e0] = b + n /\ (n > 0 => counts'[g][e0] = b)
      /\ \A e \in Expert : e # e0 => rows'[e] = rows[e]
      /\ \A h \in CountGroup : \A e \in Expert :
           ~(h = g /\ e = e0) => counts'[h][e] = counts[h][e]
      /\ counts' \in [CountGroup -> [Expert -> Nat]] /\ rows' \in [Expert -> Nat]
  <2>1. CASE n > 0
    <3>1. rows' = [rows EXCEPT ![e0] = b + n] /\ counts' = [counts EXCEPT ![g][e0] = b]
      BY <1>1, <2>1 DEF TakeBase
    <3> QED BY <1>0, <1>1, <3>1 DEF Typing
  <2>2. CASE ~(n > 0)
    <3>1. rows' = rows /\ counts' = counts /\ b = b + n
      BY <1>1, <2>2 DEF TakeBase
    <3> QED BY <1>0, <1>1, <2>2, <3>1 DEF Typing
  <2> QED BY <2>1, <2>2
<1>3. /\ e0 \in Nat /\ e0 < LocalExperts /\ e0 % CountLanes = l /\ l \in Nat
      /\ CountLanes \in Nat \ {0} /\ l <= e0
  BY <1>0, KeeperFacts, Ranges DEF LoopsKept
<1>4. /\ next'[g][l] = e0 + CountLanes
      /\ \A h \in CountGroup : \A m \in CountLane : ~(h = g /\ m = l) => next'[h][m] = next[h][m]
      /\ next' \in [CountGroup -> [CountLane -> Nat]]
  BY <1>0, <1>3 DEF Typing
<1>5. Typing' /\ Ordered'
  BY <1>0, <1>2, <1>4 DEF Typing, Ordered
<1>6. LoopsKept'
  <2> SUFFICES ASSUME NEW h \in CountGroup, NEW m \in CountLane
               PROVE  /\ next'[h][m] >= m /\ next'[h][m] % CountLanes = m
                      /\ phase[h][m] >= 3 => next'[h][m] >= LocalExperts
                      /\ next'[h][m] # m => \A i \in CountLane : phase[h][i] >= 2
    BY <1>0 DEF LoopsKept
  <2>1. CASE h = g /\ m = l
    <3>1. (e0 + CountLanes) % CountLanes = l
      BY <1>3, StrideMod
    <3>2. e0 + CountLanes >= l
      BY <1>3
    <3> QED BY <1>0, <1>4, <2>1, <3>1, <3>2
  <2>2. CASE ~(h = g /\ m = l)
    BY <1>0, <1>4, <2>2 DEF LoopsKept
  <2> QED BY <2>1, <2>2
<1>7. \A h \in CountGroup : \A e \in Expert :
        Based(h, e)' <=> Based(h, e) \/ (h = g /\ e = e0)
  <2> SUFFICES ASSUME NEW h \in CountGroup, NEW e \in Expert
               PROVE  (e < next'[h][Keeper(e)]) <=> (e < next[h][Keeper(e)]) \/ (h = g /\ e = e0)
    BY DEF Based, Keeper
  <2>1. Keeper(e) \in CountLane /\ e \in Nat
    BY KeeperFacts
  <2>2. CASE ~(h = g /\ Keeper(e) = l)
    BY <1>3, <1>4, <2>1, <2>2 DEF Keeper
  <2>3. CASE h = g /\ Keeper(e) = l
    <3>1. next'[h][Keeper(e)] = e0 + CountLanes /\ next[h][Keeper(e)] = e0
      BY <1>4, <2>3
    <3>2. e0 <= e /\ e < e0 + CountLanes => e = e0
      BY <1>3, <2>1, <2>3, NearMod DEF Keeper
    <3> HIDE DEF e0
    <3> QED BY <1>3, <2>1, <2>3, <3>1, <3>2
  <2> QED BY <2>2, <2>3
<1>8. ~Based(g, e0)
  BY <1>3 DEF Based, Keeper
<1>9. \A s : /\ ExpertOf(s)' = ExpertOf(s) /\ GroupOf(s)' = GroupOf(s) /\ LaneOf(s)' = LaneOf(s)
             /\ Counted1(s)' <=> Counted1(s)
  BY <1>0 DEF ExpertOf, GroupOf, LaneOf, Counted1
<1>10. \A s \in Slot : Counted1(s) => ExpertOf(s) \in Expert /\ GroupOf(s) \in CountGroup
  BY <1>0, CountedFacts DEF Typing
<1> DEFINE New(s) == GroupOf(s) = g /\ ExpertOf(s) = e0
<1>11. LocalRanks'
  <2> SUFFICES ASSUME NEW s \in Slot, NEW t \in Slot, Counted1(s), Counted1(t), SameCounter(s, t),
                      ~Based(GroupOf(s), ExpertOf(s))'
               PROVE  /\ perm[s] \in 0 .. counts'[GroupOf(s)][ExpertOf(s)] - 1
                      /\ s # t => perm[s] # perm[t]
    BY <1>0, <1>9 DEF LocalRanks, SameCounter
  <2>1. ~Based(GroupOf(s), ExpertOf(s)) /\ ~New(s)
    BY <1>7, <1>9, <1>10
  <2>2. counts'[GroupOf(s)][ExpertOf(s)] = counts[GroupOf(s)][ExpertOf(s)]
    BY <1>2, <1>10, <2>1
  <2> QED BY <1>0, <2>1, <2>2 DEF LocalRanks
<1>12. \A s \in Slot : Counted1(s) /\ New(s) =>
         perm[s] \in 0 .. n - 1 /\ Place(s)' = perm[s] + b
  <2> TAKE s \in Slot
  <2> HAVE Counted1(s) /\ New(s)
  <2>1. perm[s] \in 0 .. counts[GroupOf(s)][ExpertOf(s)] - 1
    BY <1>0, <1>8 DEF LocalRanks, SameCounter
  <2>2. perm[s] \in 0 .. n - 1 /\ n > 0
    BY <1>1, <2>1
  <2>3. phase[GroupOf(s)][LaneOf(s)] # 4
    <3>1. LaneOf(s) \in CountLane
      BY SlotFacts
    <3>2. phase[g][LaneOf(s)] <= phase[g][l] + 1
      BY <1>0, <3>1 DEF Ordered
    <3> QED BY <1>0, <3>2
  <2>4. Place(s)' = perm[s] + counts'[g][e0]
    BY <1>0, <1>9, <2>3 DEF Place
  <2> QED BY <1>2, <2>2, <2>4
<1>13. \A s \in Slot : Counted1(s) /\ ~New(s) => Place(s)' = Place(s)
  BY <1>0, <1>2, <1>9, <1>10 DEF Place
<1>14. GlobalRanks'
  <2> DEFINE Set(s) == Counted1(s) /\ Based(GroupOf(s), ExpertOf(s))
  <2>1. \A s \in Slot : Counted1(s) /\ Based(GroupOf(s), ExpertOf(s))' => Set(s) \/ New(s)
    BY <1>7, <1>9, <1>10
  <2>2. \A s \in Slot : Set(s) => /\ ~New(s) /\ ExpertOf(s) \in Expert
                                 /\ Place(s) \in 0 .. rows[ExpertOf(s)] - 1
    BY <1>0, <1>8, <1>10 DEF GlobalRanks
  <2>3. \A s \in Slot : Set(s) /\ ExpertOf(s) = e0 => Place(s)' \in 0 .. b - 1
    BY <1>1, <1>13, <2>2
  <2>4. \A s \in Slot : Counted1(s) /\ New(s) => Place(s)' \in b .. (b + n) - 1
    <3> TAKE s \in Slot
    <3> HAVE Counted1(s) /\ New(s)
    <3>1. PICK p \in 0 .. n - 1 : p = perm[s] /\ Place(s)' = p + b
      BY <1>12
    <3> QED BY <3>1
  <2> SUFFICES ASSUME NEW s \in Slot, Counted1(s), Set(s) \/ New(s)
               PROVE  /\ Place(s)' \in 0 .. rows'[ExpertOf(s)] - 1
                      /\ \A t \in Slot :
                           s # t /\ ExpertOf(s) = ExpertOf(t) /\ Counted1(t) /\ (Set(t) \/ New(t))
                           => Place(s)' # Place(t)'
    BY <1>9, <2>1 DEF GlobalRanks
  <2>5. Place(s)' \in 0 .. rows'[ExpertOf(s)] - 1
    <3>1. CASE ExpertOf(s) = e0
      <4>1. Place(s)' \in 0 .. (b + n) - 1
        <5>1. CASE Set(s)
          BY <2>3, <3>1, <5>1
        <5>2. CASE New(s)
          BY <2>4, <5>2
        <5> QED BY <5>1, <5>2
      <4> QED BY <1>2, <3>1, <4>1
    <3>2. CASE ExpertOf(s) # e0
      BY <1>2, <1>13, <2>2, <3>2
    <3> QED BY <3>1, <3>2
  <2>6. ASSUME NEW t \in Slot, s # t, ExpertOf(s) = ExpertOf(t), Counted1(t), Set(t) \/ New(t)
        PROVE  Place(s)' # Place(t)'
    <3>1. CASE Set(s) /\ Set(t)
      <4>1. Place(s) # Place(t)
        BY <1>0, <2>6, <3>1 DEF GlobalRanks
      <4> QED BY <1>13, <2>2, <3>1, <4>1
    <3>2. CASE New(s) /\ New(t)
      <4>1. perm[s] # perm[t]
        BY <1>0, <1>8, <2>6, <3>2 DEF LocalRanks, SameCounter
      <4>2. PICK p \in 0 .. n - 1, q \in 0 .. n - 1 :
              p = perm[s] /\ q = perm[t] /\ Place(s)' = p + b /\ Place(t)' = q + b
        BY <1>12, <2>6, <3>2
      <4> QED BY <4>1, <4>2
    <3>3. CASE New(s) /\ Set(t)
      <4>1. PICK p \in b .. (b + n) - 1, q \in 0 .. b - 1 : Place(s)' = p /\ Place(t)' = q
        BY <2>3, <2>4, <2>6, <3>3
      <4> QED BY <4>1
    <3>4. CASE Set(s) /\ New(t)
      <4>1. PICK p \in b .. (b + n) - 1, q \in 0 .. b - 1 : Place(t)' = p /\ Place(s)' = q
        BY <2>3, <2>4, <2>6, <3>4
      <4> QED BY <4>1
    <3> QED BY <2>6, <3>1, <3>2, <3>3, <3>4
  <2> QED BY <2>5, <2>6
<1>15. LocalOnto'
  <2> SUFFICES ASSUME Fresh, NEW h \in CountGroup, NEW e \in Expert, Cleared(h, e),
                      ~Based(h, e)', NEW k \in 0 .. counts'[h][e] - 1
               PROVE  \E s \in Slot : Counted1(s) /\ GroupOf(s) = h /\ ExpertOf(s) = e /\ perm[s] = k
    BY <1>0, <1>9 DEF LocalOnto, Fresh, Cleared, Keeper
  <2>1. ~Based(h, e) /\ ~(h = g /\ e = e0)
    BY <1>7
  <2>2. counts'[h][e] = counts[h][e]
    BY <1>2, <2>1
  <2> QED BY <1>0, <2>1, <2>2 DEF LocalOnto
<1>16. GlobalOnto'
  <2> SUFFICES ASSUME Fresh, NEW e \in Expert, NEW k \in 0 .. rows'[e] - 1
               PROVE  \E s \in Slot : /\ Counted1(s) /\ ExpertOf(s) = e
                                      /\ Based(GroupOf(s), e)' /\ Place(s)' = k
    <3>1. \A s, e1 : Based(GroupOf(s), e1)' <=> (Based(GroupOf(s), e1)')
      OBVIOUS
    <3> QED BY <1>0, <1>9 DEF GlobalOnto, Fresh
  <2>1. CASE k \in 0 .. rows[e] - 1
    <3>1. PICK s \in Slot : Counted1(s) /\ ExpertOf(s) = e /\ Based(GroupOf(s), e) /\ Place(s) = k
      BY <1>0, <2>1 DEF GlobalOnto
    <3>2. ~New(s) /\ GroupOf(s) \in CountGroup
      BY <1>8, <1>10, <3>1
    <3>3. Based(GroupOf(s), e)'
      BY <1>7, <1>9, <3>1, <3>2
    <3> QED BY <1>13, <3>1, <3>2, <3>3
  <2>2. CASE e = e0 /\ k \in b .. (b + n) - 1
    <3>1. PICK p \in 0 .. n - 1 : k = p + b
      <4>1. k - b \in 0 .. n - 1 /\ k = (k - b) + b
        BY <2>2
      <4> QED BY <4>1
    <3>2. Cleared(g, e0)
      <4>1. Keeper(e0) = l
        BY <1>3 DEF Keeper
      <4> QED BY <1>0, <4>1 DEF Cleared
    <3>3. PICK s \in Slot : Counted1(s) /\ GroupOf(s) = g /\ ExpertOf(s) = e0 /\ perm[s] = p
      BY <1>0, <1>1, <1>8, <3>1, <3>2 DEF LocalOnto
    <3>4. Place(s)' = k
      BY <1>12, <3>1, <3>3
    <3>5. Based(GroupOf(s), e)'
      BY <1>0, <1>7, <1>9, <2>2, <3>3
    <3> QED BY <2>2, <3>3, <3>4, <3>5
  <2>3. k \in 0 .. rows[e] - 1 \/ (e = e0 /\ k \in b .. (b + n) - 1)
    <3>1. CASE e = e0
      BY <1>1, <1>2, <3>1
    <3>2. CASE e # e0
      BY <1>2, <3>2
    <3> QED BY <3>1, <3>2
  <2> QED BY <2>1, <2>2, <2>3
<1> QED BY <1>5, <1>6, <1>11, <1>14, <1>15, <1>16 DEF IInv

LEMMA LeaveBasesKept ==
  ASSUME IInv, NEW g \in CountGroup, NEW l \in CountLane, LeaveBases(g, l)
  PROVE  IInv'
<1>0. /\ Typing /\ Ordered /\ LoopsKept /\ LocalRanks /\ GlobalRanks /\ LocalOnto /\ GlobalOnto
      /\ At(g, l, 2) /\ EndPhase(g, l) /\ next[g][l] \notin Expert
      /\ in' = in /\ next' = next /\ counts' = counts /\ rows' = rows
      /\ perm' = perm /\ stage' = stage
  BY DEF IInv, LeaveBases, copyVars
<1>1. /\ phase' \in [CountGroup -> [CountLane -> 0 .. 4]] /\ Ordered'
      /\ phase[g][l] = 2 /\ phase'[g][l] = 3
      /\ \A h \in CountGroup : \A m \in CountLane :
           ~(h = g /\ m = l) => phase'[h][m] = phase[h][m]
  BY <1>0, PhaseFacts
<1>2. LoopsKept'
  <2>1. next[g][l] \in Nat /\ LocalExperts \in Nat
    BY <1>0, SizeAssumption DEF Typing
  <2>2. next[g][l] >= LocalExperts
    BY <1>0, <2>1 DEF Expert
  <2> QED BY <1>0, <2>2, LoopsFrame
<1>3. Typing'
  BY <1>0, <1>1 DEF Typing
<1>4. \A s \in Slot : /\ Counted1(s)' => Counted1(s)
                      /\ phase'[GroupOf(s)][LaneOf(s)] = 4 <=> phase[GroupOf(s)][LaneOf(s)] = 4
  BY <1>0, <1>1, SlotFacts DEF Counted1, ExpertOf, GroupOf, LaneOf
<1>5. \A s \in Slot : /\ Place(s)' = Place(s)
                      /\ Based(GroupOf(s), ExpertOf(s))' <=> Based(GroupOf(s), ExpertOf(s))
  BY <1>0, <1>4 DEF Place, Based, Keeper, ExpertOf, GroupOf, LaneOf
<1>6. LocalRanks' /\ GlobalRanks'
  BY <1>0, <1>4, <1>5, Kept DEF Typing
<1>7. \A s \in Slot : Counted1(s) => Counted1(s)'
  BY <1>0, <1>1, SlotFacts DEF Counted1, ExpertOf, GroupOf, LaneOf
<1>8. \A h \in CountGroup : \A e \in Expert :
        (Based(h, e)' <=> Based(h, e)) /\ (Cleared(h, e)' => Cleared(h, e))
  <2> TAKE h \in CountGroup
  <2> TAKE e \in Expert
  <2>1. Keeper(e) \in CountLane
    BY KeeperFacts
  <2>2. Cleared(h, e)' => Cleared(h, e)
    BY <1>1, <2>1 DEF Cleared, Keeper
  <2> QED BY <1>0, <2>2 DEF Based, Keeper
<1>9. LocalOnto' /\ GlobalOnto'
  BY <1>0, <1>5, <1>7, <1>8, OntoKept DEF Typing, Fresh
<1> QED BY <1>1, <1>2, <1>3, <1>6, <1>9 DEF IInv

LEMMA AddBaseKept ==
  ASSUME IInv, NEW g \in CountGroup, NEW l \in CountLane, AddBase(g, l)
  PROVE  IInv'
<1> DEFINE s0 == SlotOf(g, l)
<1>0. /\ Typing /\ Ordered /\ LoopsKept /\ LocalRanks /\ GlobalRanks /\ LocalOnto /\ GlobalOnto
      /\ At(g, l, 3) /\ EndPhase(g, l)
      /\ perm' = (IF s0 \in Slot /\ ExpertOf(s0) # -1
                  THEN [perm EXCEPT ![s0] = @ + counts[g][ExpertOf(s0)]] ELSE perm)
      /\ in' = in /\ next' = next /\ counts' = counts /\ rows' = rows /\ stage' = stage
  BY DEF IInv, AddBase, copyVars
<1>1. /\ phase' \in [CountGroup -> [CountLane -> 0 .. 4]] /\ Ordered'
      /\ phase[g][l] = 3 /\ phase'[g][l] = 4
      /\ \A h \in CountGroup : \A m \in CountLane :
           ~(h = g /\ m = l) => phase'[h][m] = phase[h][m]
  BY <1>0, PhaseFacts
<1>2. LoopsKept'
  BY <1>0, LoopsFrame
<1>3. GroupOf(s0) = g /\ LaneOf(s0) = l
  BY SlotOfFacts
<1>4. \A s \in Slot : s # s0 =>
        phase'[GroupOf(s)][LaneOf(s)] = phase[GroupOf(s)][LaneOf(s)] /\ perm'[s] = perm[s]
  BY <1>0, <1>1, SlotFacts DEF Typing
<1>5. \A s : ExpertOf(s)' = ExpertOf(s) /\ GroupOf(s)' = GroupOf(s) /\ LaneOf(s)' = LaneOf(s)
  BY <1>0 DEF ExpertOf, GroupOf, LaneOf
<1>6. \A s \in Slot : Counted1(s)' => Counted1(s)
  BY <1>0, <1>1, <1>3, <1>4, <1>5 DEF Counted1
<1>7. s0 \in Slot /\ ExpertOf(s0) # -1 =>
        perm'[s0] = perm[s0] + counts[g][ExpertOf(s0)] /\ counts[g][ExpertOf(s0)] \in Nat
  BY <1>0, ExpertFacts DEF Typing
<1>8. Typing'
  <2>1. perm' = [s \in Slot |-> perm'[s]]
    BY <1>0 DEF Typing
  <2>2. \A s \in Slot : stage'[s \div TopK][0] < 5 => perm'[s] \in Int
    BY <1>0, <1>4, <1>7 DEF Typing
  <2> QED BY <1>0, <1>1, <2>1, <2>2 DEF Typing
<1>9. \A s \in Slot : Counted1(s)' => Place(s)' = Place(s)
  <2> TAKE s \in Slot
  <2> HAVE Counted1(s)'
  <2>1. CASE s # s0
    BY <1>0, <1>4, <1>5, <2>1 DEF Place
  <2>2. CASE s = s0
    <3>1. ExpertOf(s) # -1
      BY <1>6 DEF Counted1
    <3> QED BY <1>1, <1>3, <1>5, <1>7, <2>2, <3>1 DEF Place
  <2> QED BY <2>1, <2>2
<1>10. \A s \in Slot : Counted1(s)' /\ ~Based(GroupOf(s), ExpertOf(s)) => perm'[s] = perm[s]
  <2> TAKE s \in Slot
  <2> HAVE Counted1(s)' /\ ~Based(GroupOf(s), ExpertOf(s))
  <2>1. CASE s # s0
    BY <1>4, <2>1
  <2>2. CASE s = s0
    <3>1. ExpertOf(s) \in Expert
      BY <1>0, <1>6, CountedFacts DEF Typing
    <3>2. Keeper(ExpertOf(s)) \in CountLane /\ ExpertOf(s) \in Nat /\ ExpertOf(s) < LocalExperts
      BY <3>1, KeeperFacts
    <3>3. phase[g][Keeper(ExpertOf(s))] >= 3
      BY <1>0, <3>2 DEF At
    <3>4. next[g][Keeper(ExpertOf(s))] >= LocalExperts /\ next[g][Keeper(ExpertOf(s))] \in Nat
      BY <1>0, <3>2, <3>3 DEF LoopsKept, Typing
    <3>5. ExpertOf(s) < next[g][Keeper(ExpertOf(s))]
      <4> DEFINE e == ExpertOf(s)
                 k == next[g][Keeper(ExpertOf(s))]
      <4>1. e \in Nat /\ k \in Nat /\ e < LocalExperts /\ k >= LocalExperts
        BY <3>2, <3>4
      <4> HIDE DEF e, k
      <4>2. e < k
        BY <4>1, SizeAssumption
      <4> QED BY <4>2 DEF e, k
    <3> QED BY <1>3, <2>2, <3>5 DEF Based
  <2> QED BY <2>1, <2>2
<1>11. \A s \in Slot : Based(GroupOf(s), ExpertOf(s))' <=> Based(GroupOf(s), ExpertOf(s))
  BY <1>0, <1>5 DEF Based, Keeper
<1>12. LocalRanks' /\ GlobalRanks'
  BY <1>0, <1>6, <1>9, <1>10, <1>11, Kept DEF Typing
<1>13. \A s \in Slot : Counted1(s) => Counted1(s)'
  BY <1>0, <1>1, <1>3, <1>4, <1>5 DEF Counted1
<1>14. \A h \in CountGroup : \A e \in Expert :
         (Based(h, e)' <=> Based(h, e)) /\ (Cleared(h, e)' => Cleared(h, e))
  <2> TAKE h \in CountGroup
  <2> TAKE e \in Expert
  <2>1. Keeper(e) \in CountLane
    BY KeeperFacts
  <2>2. Cleared(h, e)' => Cleared(h, e)
    BY <1>1, <2>1 DEF Cleared, Keeper
  <2> QED BY <1>0, <2>2 DEF Based, Keeper
<1>15. LocalOnto' /\ GlobalOnto'
  BY <1>0, <1>9, <1>10, <1>13, <1>14, OntoKept DEF Typing, Fresh
<1> QED BY <1>1, <1>2, <1>8, <1>12, <1>15 DEF IInv

-----------------------------------------------------------------------------
(* A step of RemapHiddenStates only moves its row's work-items on, or      *)
(* replaces ranks by rows for slots it then leaves out.                    *)
LEMMA CopyKept ==
  ASSUME IInv, in' = in, UNCHANGED countVars,
         stage' \in [Token -> [CopyLane -> Nat]],
         perm' = [s \in Slot |-> perm'[s]],
         \A t \in Token : stage'[t][0] < 5 => stage[t][0] < 5,
         \A s \in Slot : stage'[s \div TopK][0] < 5 => perm'[s] = perm[s]
  PROVE  IInv'
<1>0. /\ Typing /\ Ordered /\ LoopsKept /\ LocalRanks /\ GlobalRanks /\ LocalOnto /\ GlobalOnto
      /\ in' = in /\ phase' = phase /\ next' = next /\ counts' = counts /\ rows' = rows
  BY DEF IInv, countVars
<1>1. Typing' /\ Ordered' /\ LoopsKept'
  BY <1>0, SlotFacts DEF Typing, Ordered, LoopsKept
<1>2. \A s : ExpertOf(s)' = ExpertOf(s) /\ GroupOf(s)' = GroupOf(s) /\ LaneOf(s)' = LaneOf(s)
  BY <1>0 DEF ExpertOf, GroupOf, LaneOf
<1>3. \A s \in Slot : Counted1(s)' => Counted1(s) /\ perm'[s] = perm[s]
  BY <1>0, <1>2, SlotFacts DEF Counted1
<1>4. \A s \in Slot : Counted1(s)' => Place(s)' = Place(s)
  BY <1>0, <1>2, <1>3 DEF Place
<1>5. \A s \in Slot : Based(GroupOf(s), ExpertOf(s))' <=> Based(GroupOf(s), ExpertOf(s))
  BY <1>0, <1>2 DEF Based, Keeper
<1>6. LocalRanks' /\ GlobalRanks'
  BY <1>0, <1>3, <1>4, <1>5, Kept DEF Typing
<1>7. Fresh' => Fresh
  BY DEF Fresh
<1>8. \A s \in Slot : Counted1(s) /\ Fresh' => Counted1(s)'
  BY <1>0, <1>2, SlotFacts DEF Counted1, Fresh
<1>9. \A h \in CountGroup : \A e \in Expert :
        (Based(h, e)' <=> Based(h, e)) /\ (Cleared(h, e)' => Cleared(h, e))
  BY <1>0 DEF Based, Cleared, Keeper
<1>10. LocalOnto' /\ GlobalOnto'
  BY <1>0, <1>3, <1>4, <1>7, <1>8, <1>9, OntoKept DEF Typing
<1> QED BY <1>1, <1>6, <1>10 DEF IInv

(* A work-item that ends a stage. *)
LEMMA StageFacts ==
  ASSUME Typing, NEW t \in Token, NEW l \in CopyLane, EndStage(t, l)
  PROVE  /\ stage' \in [Token -> [CopyLane -> Nat]]
         /\ \A u \in Token : stage'[u][0] >= stage[u][0] /\ stage[u][0] \in Nat
<1>1. stage' = [stage EXCEPT ![t][l] = @ + 1] /\ stage \in [Token -> [CopyLane -> Nat]] /\ 0 \in CopyLane
  BY Ranges DEF EndStage, Typing
<1>2. stage' \in [Token -> [CopyLane -> Nat]]
  BY <1>1
<1>3. ASSUME NEW u \in Token PROVE stage'[u][0] >= stage[u][0] /\ stage[u][0] \in Nat
  <2>1. stage'[u][0] = stage[u][0] \/ stage'[u][0] = stage[u][0] + 1
    BY <1>1
  <2> QED BY <1>1, <2>1
<1> QED BY <1>2, <1>3

LEMMA CopyStepKept ==
  ASSUME IInv, CopyStep
  PROVE  IInv'
<1>0. Typing /\ 0 \in CopyLane
  BY Ranges DEF IInv
<1>1. ASSUME NEW t \in Token, Scan(t) PROVE IInv'
  <2>1. /\ stage' = [stage EXCEPT ![t] = [l \in CopyLane |-> 2]]
        /\ in' = in /\ UNCHANGED countVars /\ perm' = perm /\ stage[t][0] = 1
    BY <1>0, <1>1 DEF Scan, On
  <2>2. stage' \in [Token -> [CopyLane -> Nat]] /\ perm' = [s \in Slot |-> perm'[s]]
    BY <1>0, <2>1 DEF Typing
  <2>3. \A u \in Token : stage'[u][0] < 5 => stage[u][0] < 5
    BY <1>0, <2>1 DEF Typing
  <2> QED BY <2>1, <2>2, <2>3, SlotFacts, CopyKept
<1>2. ASSUME NEW t \in Token, NEW l \in CopyLane, LoadRows(t, l) \/ FindRows(t, l) \/ Copy(t, l)
      PROVE  IInv'
  <2>1. EndStage(t, l) /\ in' = in /\ UNCHANGED countVars /\ perm' = perm
    BY <1>2 DEF LoadRows, FindRows, Copy
  <2>2. perm' = [s \in Slot |-> perm'[s]]
    BY <1>0, <2>1 DEF Typing
  <2>3. /\ stage' \in [Token -> [CopyLane -> Nat]]
        /\ \A u \in Token : stage'[u][0] >= stage[u][0] /\ stage[u][0] \in Nat
    BY <1>0, <2>1, StageFacts
  <2>4. \A u \in Token : stage'[u][0] < 5 => stage[u][0] < 5
    BY <1>0, <2>3
  <2> QED BY <2>1, <2>2, <2>3, <2>4, SlotFacts, CopyKept
<1>3. ASSUME NEW t \in Token, NEW l \in CopyLane, StoreRows(t, l)
      PROVE  IInv'
  <2>1. /\ EndStage(t, l) /\ in' = in /\ UNCHANGED countVars /\ stage[t][l] = 4
        /\ perm' = IF l = 0
                   THEN [s \in Slot |-> IF s \div TopK = t THEN offset[t][0][s % TopK] ELSE perm[s]]
                   ELSE perm
    BY <1>3 DEF StoreRows
  <2>2. perm' = [s \in Slot |-> perm'[s]]
    <3>1. CASE l = 0
      <4>1. perm' = [s \in Slot |-> IF s \div TopK = t THEN offset[t][0][s % TopK] ELSE perm[s]]
        BY <2>1, <3>1
      <4> QED BY <4>1, Zenon
    <3>2. CASE l # 0
      BY <1>0, <2>1, <3>2 DEF Typing
    <3> QED BY <3>1, <3>2
  <2>3. /\ stage' \in [Token -> [CopyLane -> Nat]]
        /\ \A u \in Token : stage'[u][0] >= stage[u][0] /\ stage[u][0] \in Nat
    BY <1>0, <2>1, StageFacts
  <2>4. l = 0 => stage'[t][0] = 5
    BY <1>0, <2>1 DEF EndStage, Typing
  <2>5. \A u \in Token : stage'[u][0] < 5 => stage[u][0] < 5
    BY <1>0, <2>3
  <2>6. \A s \in Slot : stage'[s \div TopK][0] < 5 => perm'[s] = perm[s]
    BY <2>1, <2>4
  <2> QED BY <2>1, <2>2, <2>3, <2>5, <2>6, SlotFacts, CopyKept
<1> QED BY <1>1, <1>2, <1>3 DEF CopyStep

-----------------------------------------------------------------------------
LEMMA NextKept == IInv /\ [Next]_vars => IInv'
<1> SUFFICES ASSUME IInv, [Next]_vars PROVE IInv'
  OBVIOUS
<1>0. UNCHANGED remapVars => IInv'
  <2> SUFFICES ASSUME UNCHANGED remapVars PROVE IInv'
    OBVIOUS
  <2>1. in' = in /\ UNCHANGED countVars /\ perm' = perm /\ stage' = stage
    BY DEF remapVars, copyVars
  <2>2. stage' \in [Token -> [CopyLane -> Nat]] /\ perm' = [s \in Slot |-> perm'[s]]
    BY <2>1 DEF IInv, Typing
  <2> QED BY <2>1, <2>2, CopyKept
<1>1. CASE Remap
  <2>1. CASE CountStep
    BY <2>1, ClearKept, CountKept, TakeBaseKept, LeaveBasesKept, AddBaseKept DEF CountStep
  <2>2. CASE CopyStep
    BY <2>2, CopyStepKept
  <2> QED BY <1>1, <2>1, <2>2 DEF Remap
<1>2. CASE Gemms
  BY <1>0, <1>2 DEF Gemms
<1>3. ASSUME NEW t \in Token, Gather(t) PROVE IInv'
  BY <1>0, <1>3 DEF Gather
<1>4. CASE UNCHANGED vars
  BY <1>0, <1>4 DEF vars
<1> QED BY <1>1, <1>2, <1>3, <1>4 DEF Next

LEMMA Distinct == IInv => RanksDistinct
<1> SUFFICES ASSUME IInv, NEW s \in Slot, NEW t \in Slot, s # t, Ranked(s), Ranked(t),
                    ExpertOf(s) = ExpertOf(t)
             PROVE  perm[s] # perm[t] /\ perm[s] \in 0 .. rows[ExpertOf(s)] - 1
  BY DEF RanksDistinct
<1>1. \A u \in {s, t} : Counted1(u) /\ Based(GroupOf(u), ExpertOf(u)) /\ Place(u) = perm[u]
  <2> TAKE u \in {s, t}
  <2>1. Counted1(u) /\ Place(u) = perm[u] /\ phase[GroupOf(u)][LaneOf(u)] = 4
    BY DEF Ranked, Counted1, Place
  <2>2. ExpertOf(u) \in Expert /\ GroupOf(u) \in CountGroup /\ LaneOf(u) \in CountLane
    BY <2>1, CountedFacts DEF IInv, Typing
  <2> QED BY <2>1, <2>2, AllBased DEF IInv
<1> QED BY <1>1 DEF IInv, GlobalRanks

(* However many slots, experts, work-groups and work-items there are, and  *)
(* in whatever order their atomics come, two slots of an expert have       *)
(* different ranks, all below the expert's count (RowsPerExpertCount).     *)
THEOREM RemapRanks == Spec => []RanksDistinct
<1>1. Init => IInv
  BY InitKept
<1>2. IInv /\ [Next]_vars => IInv'
  BY NextKept
<1>3. IInv => RanksDistinct
  BY Distinct
<1> QED BY <1>1, <1>2, <1>3, PTL DEF Spec

-----------------------------------------------------------------------------
(* The inclusive scan, as a running sum.                                   *)
LEMMA PrefixSumsIs ==
  ASSUME NEW f, \A e \in Expert : f[e] \in Nat, NEW G, RunningSum(G, f)
  PROVE  \A e \in Expert : PrefixSums(f)[e] = G[e + 1]
<1> DEFINE F(p) == [e \in Expert |-> IF e = 0 THEN f[0] ELSE p[e - 1] + f[e]]
           p0 == [e \in Expert |-> G[e + 1]]
<1>0. /\ LocalExperts \in Nat \ {0} /\ G[0] = 0
      /\ \A e \in Expert : e \in Nat /\ e + 1 # 0 /\ (e + 1) - 1 = e
                           /\ G[e + 1] = G[e] + f[e] /\ (e # 0 => e - 1 \in Expert)
  <2>1. LocalExperts \in Nat \ {0}
    BY SizeAssumption
  <2>2. G[0] = 0 /\ \A n \in 0 .. LocalExperts - 1 : G[n + 1] = G[n] + f[n]
    <3>1. \A n \in 0 .. LocalExperts - 1 : f[n] \in Nat
      BY DEF Expert
    <3> QED BY <2>1, <3>1, RunningSumFacts
  <2> QED BY <2>1, <2>2 DEF Expert
<1>1. \E p : p = F(p)
  <2>1. ASSUME NEW e \in Expert
        PROVE  p0[e] = IF e = 0 THEN f[0] ELSE p0[e - 1] + f[e]
    <3>1. CASE e = 0
      BY <1>0, <3>1
    <3>2. CASE e # 0
      <4>1. e - 1 \in Expert /\ (e - 1) + 1 = e
        BY <1>0, <3>2
      <4> QED BY <1>0, <3>2, <4>1
    <3> QED BY <3>1, <3>2
  <2>2. p0 = [e \in Expert |-> p0[e]]
    OBVIOUS
  <2> HIDE DEF p0
  <2>3. p0 = F(p0)
    BY <2>1, <2>2, Zenon
  <2> QED BY <2>3, Zenon
<1>2. PrefixSums(f) = CHOOSE p : p = F(p)
  BY DEF PrefixSums
<1> HIDE DEF F
<1>3. PrefixSums(f) = F(PrefixSums(f))
  BY <1>1, <1>2, Zenon
<1>4. \A e \in Expert : PrefixSums(f)[e] = IF e = 0 THEN f[0] ELSE PrefixSums(f)[e - 1] + f[e]
  <2> DEFINE q == PrefixSums(f)
  <2>1. q = [e \in Expert |-> IF e = 0 THEN f[0] ELSE q[e - 1] + f[e]]
    BY <1>3 DEF F
  <2> HIDE DEF q
  <2>2. \A e \in Expert : q[e] = IF e = 0 THEN f[0] ELSE q[e - 1] + f[e]
    BY <2>1
  <2> QED BY <2>2 DEF q
<1> DEFINE T == {n \in Nat : n \in Expert => PrefixSums(f)[n] = G[n + 1]}
<1>5. 0 \in T
  BY <1>0, <1>4 DEF Expert
<1>6. ASSUME NEW n \in Nat, n \in T PROVE n + 1 \in T
  <2> SUFFICES ASSUME n + 1 \in Expert PROVE PrefixSums(f)[n + 1] = G[(n + 1) + 1]
    OBVIOUS
  <2>1. n \in Expert /\ n + 1 # 0 /\ (n + 1) - 1 = n
    BY <1>0 DEF Expert
  <2> QED BY <1>0, <1>4, <1>6, <2>1
<1> HIDE DEF T
<1>7. Nat \subseteq T
  BY <1>5, <1>6, NatInduct, Zenon
<1> QED BY <1>0, <1>7 DEF T

(* Where the segment of an expert starts.                                  *)
LEMMA SegmentStarts ==
  ASSUME rows \in [Expert -> Nat], NEW R, RunningSum(R, rows)
  PROVE  /\ R[0] = 0
         /\ \A e \in 0 .. LocalExperts : R[e] \in Nat
         /\ \A e \in Expert : PreRows(e) = R[e] /\ R[e + 1] = R[e] + rows[e]
         /\ \A d, e \in 0 .. LocalExperts : d <= e => R[d] <= R[e]
<1>1. LocalExperts \in Nat \ {0} /\ \A n \in 0 .. LocalExperts - 1 : rows[n] \in Nat
  BY SizeAssumption DEF Expert
<1>2. /\ R[0] = 0
      /\ \A e \in 0 .. LocalExperts : R[e] \in Nat
      /\ \A e \in 0 .. LocalExperts - 1 : R[e + 1] = R[e] + rows[e]
  BY <1>1, RunningSumFacts
<1>3. ASSUME NEW d \in 0 .. LocalExperts, NEW e \in 0 .. LocalExperts, d <= e
      PROVE  R[d] <= R[e]
  <2>1. \A n \in d .. LocalExperts : R[d] <= R[n]
    BY <1>1, RunningSumMonotone
  <2> QED BY <1>3, <2>1
<1>4. ASSUME NEW e \in Expert PROVE PreRows(e) = R[e]
  <2>1. CASE e = 0
    BY <1>2, <2>1 DEF PreRows
  <2>2. CASE e # 0
    <3>1. e - 1 \in Expert /\ (e - 1) + 1 = e
      BY <1>1, <2>2 DEF Expert
    <3>2. PrefixSums(rows)[e - 1] = R[(e - 1) + 1]
      BY <3>1, PrefixSumsIs
    <3> QED BY <2>2, <3>1, <3>2 DEF PreRows
  <2> QED BY <2>1, <2>2
<1> QED BY <1>2, <1>3, <1>4 DEF Expert

(* The segments do not overlap.                                            *)
LEMMA SegmentsDisjoint ==
  ASSUME rows \in [Expert -> Nat], NEW d \in Expert, NEW e \in Expert,
         NEW r \in Segment(d), r \in Segment(e)
  PROVE  d = e
<1>1. PICK R : RunningSum(R, rows)
  BY SumExists
<1>2. /\ R[0] = 0
      /\ \A c \in 0 .. LocalExperts : R[c] \in Nat
      /\ \A c \in Expert : PreRows(c) = R[c] /\ R[c + 1] = R[c] + rows[c]
      /\ \A a, b \in 0 .. LocalExperts : a <= b => R[a] <= R[b]
  BY <1>1, SegmentStarts
<1>3. \A c \in Expert : /\ c \in Nat /\ c \in 0 .. LocalExperts /\ c + 1 \in 0 .. LocalExperts
  BY SizeAssumption DEF Expert
<1>4. r \in Int /\ R[d] <= r /\ r < R[d + 1] /\ R[e] <= r /\ r < R[e + 1]
  <2>1. \A c \in Expert : r \in Segment(c) => r \in Int /\ R[c] <= r /\ r < R[c + 1]
    BY <1>2, <1>3 DEF Segment
  <2> QED BY <2>1
<1>5. ~(d < e) /\ ~(e < d)
  <2>1. \A a, b \in Expert : a < b => R[a + 1] <= R[b] /\ R[a + 1] \in Nat /\ R[b] \in Nat
    BY <1>2, <1>3
  <2> QED BY <1>4, <2>1
<1> QED BY <1>3, <1>5

(* What the scan of a work-group makes of the rows it has loaded.          *)
LEMMA ScanGives ==
  ASSUME rows \in [Expert -> Nat], NEW f,
         \A e \in Expert : f[e] = IF e = 0 THEN 0 ELSE rows[e - 1]
  PROVE  \A e \in Expert : PrefixSums(f)[e] = PreRows(e)
<1>1. PICK R : RunningSum(R, rows)
  BY SumExists
<1>2. PICK G : RunningSum(G, f)
  BY SumExists
<1>3. LocalExperts \in Nat \ {0} /\ \A e \in Expert : e \in Nat /\ (e # 0 => e - 1 \in Expert)
  BY SizeAssumption DEF Expert
<1>4. \A e \in Expert : f[e] \in Nat
  BY <1>3
<1>5. G[0] = 0 /\ \A n \in 0 .. LocalExperts - 1 : G[n + 1] = G[n] + f[n]
  <2>1. \A n \in 0 .. LocalExperts - 1 : f[n] \in Nat
    BY <1>4 DEF Expert
  <2> QED BY <1>2, <1>3, <2>1, RunningSumFacts
<1>6. R[0] = 0 /\ \A e \in Expert : R[e + 1] = R[e] + rows[e] /\ PreRows(e) = R[e] /\ R[e] \in Nat
  BY <1>1, <1>3, SegmentStarts DEF Expert
<1> DEFINE T == {n \in Nat : n \in Expert => G[n + 1] = R[n]}
<1>7. 0 \in T
  BY <1>3, <1>4, <1>5, <1>6 DEF Expert
<1>8. ASSUME NEW n \in Nat, n \in T PROVE n + 1 \in T
  <2> SUFFICES ASSUME n + 1 \in Expert PROVE G[(n + 1) + 1] = R[n + 1]
    OBVIOUS
  <2>1. n \in Expert /\ n + 1 \in 0 .. LocalExperts - 1 /\ n + 1 # 0 /\ (n + 1) - 1 = n
    BY <1>3 DEF Expert
  <2>2. G[(n + 1) + 1] = G[n + 1] + f[n + 1] /\ f[n + 1] = rows[n]
    BY <1>5, <2>1
  <2> QED BY <1>6, <1>8, <2>1, <2>2
<1> HIDE DEF T
<1>9. Nat \subseteq T
  BY <1>7, <1>8, NatInduct, Zenon
<1>10. \A e \in Expert : PrefixSums(f)[e] = G[e + 1]
  BY <1>2, <1>4, PrefixSumsIs
<1> QED BY <1>3, <1>6, <1>9, <1>10 DEF T
-----------------------------------------------------------------------------
(* The row a slot has or will have, -1 for one that is not served here. *)
RowOf(s) ==
  IF ExpertOf(s) = -1 THEN -1
  ELSE IF stage[s \div TopK][0] < 5 THEN PreRows(ExpertOf(s)) + perm[s] ELSE perm[s]

(* Where RemapHiddenStates stands. *)
Stages ==
  \A t \in Token : \A l \in CopyLane :
    /\ stage[t][l] \in 0 .. 5
    /\ stage[t][l] > 0 => Counted
    /\ \A m \in CopyLane : /\ stage[t][l] >= 2 => stage[t][m] >= 2
                           /\ stage[t][l] >= 4 => stage[t][m] >= 3

(* The rows of the slots of an expert are those of its segment. *)
Placed ==
  Counted =>
    /\ \A s \in Slot : ExpertOf(s) # -1 => RowOf(s) \in Segment(ExpertOf(s))
    /\ \A s, t \in Slot :
         s # t /\ ExpertOf(s) = ExpertOf(t) /\ ExpertOf(s) # -1 => RowOf(s) # RowOf(t)
    /\ \A e \in Expert : \A r \in Segment(e) : \E s \in Slot : ExpertOf(s) = e /\ RowOf(s) = r

(* The work-item that loads the rows before an expert. *)
Loader(e) == IF e = 0 THEN 0 ELSE (e - 1) % CopyLanes

Loaded ==
  \A t \in Token :
    /\ cumsum = [u \in Token |-> cumsum[u]]
    /\ \A e \in Expert :
         /\ stage[t][Loader(e)] = 1 => cumsum[t][e] = IF e = 0 THEN 0 ELSE rows[e - 1]
         /\ stage[t][Loader(e)] >= 2 => cumsum[t][e] = PreRows(e)

Found ==
  /\ offset = [t \in Token |-> [l \in CopyLane |-> offset[t][l]]]
  /\ \A t \in Token : \A l \in CopyLane :
       stage[t][l] >= 3 => \A k \in 0 .. TopK - 1 : offset[t][l][k] = RowOf(t * TopK + k)

Copied ==
  \A s \in Slot : \A l \in CopyLane :
    ExpertOf(s) # -1 /\ stage[s \div TopK][l] >= 4 =>
      /\ \A c \in ChunksOf(l) : hidden[RowOf(s)][c] = s \div TopK
      /\ \A e \in ScalesOf(l) : scales[RowOf(s)][e] = s \div TopK

Stored == \A s \in Slot : stage[s \div TopK][0] = 5 => perm[s] = RowOf(s)

Multiplied ==
  computed => /\ Remapped
              /\ \A s \in Slot : ExpertOf(s) # -1 => result[perm[s]] = <<ExpertOf(s), s \div TopK>>

RowsInv == Stages /\ Placed /\ Loaded /\ Found /\ Copied /\ Stored /\ Multiplied

-----------------------------------------------------------------------------
LEMMA TokenFacts ==
  /\ \A s \in Slot : /\ s \div TopK \in Token /\ s % TopK \in 0 .. TopK - 1
                     /\ s = ((s \div TopK) * TopK) + (s % TopK)
  /\ \A t \in Token : \A k \in 0 .. TopK - 1 :
       /\ (t * TopK) + k \in Slot
       /\ ((t * TopK) + k) \div TopK = t /\ ((t * TopK) + k) % TopK = k
<1>1. TopK \in Nat \ {0} /\ NumRows \in Nat
  BY SizeAssumption
<1>2. ASSUME NEW s \in Slot
      PROVE  /\ s \div TopK \in Token /\ s % TopK \in 0 .. TopK - 1
             /\ s = ((s \div TopK) * TopK) + (s % TopK)
  <2>1. s \in Nat
    BY Ranges DEF Slot
  <2> QED BY <1>1, <2>1, DivMod, SlotFacts
<1>3. ASSUME NEW t \in Token, NEW k \in 0 .. TopK - 1
      PROVE  /\ (t * TopK) + k \in Slot
             /\ ((t * TopK) + k) \div TopK = t /\ ((t * TopK) + k) % TopK = k
  <2>1. PICK d \in Nat : NumRows = t + d + 1 /\ t \in Nat
    <3>1. t \in Nat /\ (NumRows - t) - 1 \in Nat /\ NumRows = t + ((NumRows - t) - 1) + 1
      BY <1>1 DEF Token
    <3> QED BY <3>1
  <2>2. t * TopK \in Nat /\ NumRows * TopK = (t * TopK) + (d * TopK) + TopK /\ d * TopK >= 0
    BY <1>1, <2>1
  <2>3. (t * TopK) + k \in 0 .. (NumRows * TopK) - 1
    BY <1>1, <2>2
  <2> QED BY <1>1, <2>1, <2>3, DivModUnique DEF Slot, NumSlots
<1> QED BY <1>2, <1>3

LEMMA LaneFacts ==
  /\ CopyLanes \in Nat \ {0} /\ 0 \in CopyLane
  /\ \A e \in Expert : Loader(e) \in CopyLane
<1>1. CopyLanes \in Nat \ {0} /\ 0 \in CopyLane
  BY SizeAssumption DEF CopyLanes, CopyLane
<1>2. ASSUME NEW e \in Expert, e # 0 PROVE (e - 1) % CopyLanes \in CopyLane
  <2>1. e - 1 \in Nat
    BY <1>2, SizeAssumption DEF Expert
  <2> QED BY <1>1, <2>1, DivMod DEF CopyLane
<1> QED BY <1>1, <1>2 DEF Loader

LEMMA PreRowsNat ==
  ASSUME rows \in [Expert -> Nat]
  PROVE  \A e \in Expert : PreRows(e) \in Nat
<1>1. PICK R : RunningSum(R, rows)
  BY SumExists
<1>2. (\A e \in 0 .. LocalExperts : R[e] \in Nat) /\ \A e \in Expert : PreRows(e) = R[e]
  BY <1>1, SegmentStarts
<1>3. \A e \in Expert : e \in 0 .. LocalExperts
  BY SizeAssumption DEF Expert
<1> QED BY <1>2, <1>3

(* When RowsPerExpertCount has ended, the ranks are an expert's segment.   *)
LEMMA RanksFill ==
  IInv /\ Counted /\ Fresh => Placed
<1> SUFFICES ASSUME IInv, Counted, Fresh PROVE Placed
  OBVIOUS
<1>0. /\ Typing /\ Ordered /\ LoopsKept /\ GlobalRanks /\ GlobalOnto
  BY DEF IInv
<1>1. ASSUME NEW s \in Slot, ExpertOf(s) # -1
      PROVE  /\ ExpertOf(s) \in Expert /\ Counted1(s) /\ Based(GroupOf(s), ExpertOf(s))
             /\ Place(s) = perm[s] /\ RowOf(s) = PreRows(ExpertOf(s)) + perm[s]
             /\ perm[s] \in 0 .. rows[ExpertOf(s)] - 1
  <2>1. /\ GroupOf(s) \in CountGroup /\ LaneOf(s) \in CountLane /\ s \div TopK \in Token
        /\ ExpertOf(s) \in Expert
    BY <1>0, <1>1, SlotFacts, ExpertFacts DEF Typing
  <2>2. phase[GroupOf(s)][LaneOf(s)] = 4 /\ stage[s \div TopK][0] < 5
    BY <2>1 DEF Counted, Fresh
  <2>3. Based(GroupOf(s), ExpertOf(s))
    BY <1>0, <2>1, <2>2, AllBased
  <2>4. Counted1(s) /\ Place(s) = perm[s]
    BY <1>1, <2>2 DEF Counted1, Place
  <2>5. RowOf(s) = PreRows(ExpertOf(s)) + perm[s]
    BY <1>1, <2>2 DEF RowOf
  <2>6. perm[s] \in 0 .. rows[ExpertOf(s)] - 1
    BY <1>0, <2>3, <2>4 DEF GlobalRanks
  <2> QED BY <2>1, <2>3, <2>4, <2>5, <2>6
<1>2. \A e \in Expert : PreRows(e) \in Nat /\ rows[e] \in Nat
  BY <1>0, PreRowsNat DEF Typing
<1>3. ASSUME NEW s \in Slot, ExpertOf(s) # -1 PROVE RowOf(s) \in Segment(ExpertOf(s))
  BY <1>1, <1>2, <1>3 DEF Segment
<1>4. ASSUME NEW s \in Slot, NEW t \in Slot, s # t, ExpertOf(s) = ExpertOf(t), ExpertOf(s) # -1
      PROVE  RowOf(s) # RowOf(t)
  <2>1. perm[s] # perm[t] /\ perm[s] \in Int /\ perm[t] \in Int
    BY <1>0, <1>1, <1>4 DEF GlobalRanks
  <2>2. RowOf(s) = PreRows(ExpertOf(s)) + perm[s] /\ RowOf(t) = PreRows(ExpertOf(s)) + perm[t]
    BY <1>1, <1>4
  <2>3. PICK p \in Nat : p = PreRows(ExpertOf(s))
    BY <1>1, <1>2, <1>4
  <2>4. PICK a \in Int, b \in Int : a # b /\ RowOf(s) = p + a /\ RowOf(t) = p + b
    BY <2>1, <2>2, <2>3
  <2> QED BY <2>4
<1>5. ASSUME NEW e \in Expert, NEW r \in Segment(e)
      PROVE  \E s \in Slot : ExpertOf(s) = e /\ RowOf(s) = r
  <2>1. PICK p \in Nat, k \in Nat : p = PreRows(e) /\ k \in 0 .. rows[e] - 1 /\ r = p + k
    <3>1. r - PreRows(e) \in 0 .. rows[e] - 1 /\ r - PreRows(e) \in Nat
          /\ r = PreRows(e) + (r - PreRows(e))
      BY <1>2 DEF Segment
    <3> QED BY <1>2, <3>1
  <2>2. PICK s \in Slot : Counted1(s) /\ ExpertOf(s) = e /\ Place(s) = k
    BY <1>0, <2>1 DEF GlobalOnto
  <2>3. RowOf(s) = p + k
    BY <1>1, <2>1, <2>2 DEF Counted1
  <2> QED BY <2>1, <2>2, <2>3
<1> QED BY <1>3, <1>4, <1>5 DEF Placed

LEMMA RanksFillNext ==
  (IInv /\ Counted /\ Fresh => Placed)'
BY RanksFill, PTL

LEMMA InitRows == Init => RowsInv
<1> SUFFICES ASSUME Init PROVE RowsInv
  OBVIOUS
<1>1. RemapInit /\ computed = FALSE
  BY DEF Init
<1>2. \A t \in Token : \A l \in CopyLane : stage[t][l] = 0
  BY <1>1 DEF RemapInit
<1>3. Stages
  BY <1>2 DEF Stages
<1>4. Placed
  <2>1. IInv
    BY InitKept
  <2>2. Fresh
    BY <1>2, LaneFacts DEF Fresh
  <2> QED BY <2>1, <2>2, RanksFill DEF Placed
<1>5. Loaded
  <2>1. cumsum = [u \in Token |-> cumsum[u]]
    BY <1>1 DEF RemapInit
  <2> QED BY <1>2, <2>1, LaneFacts DEF Loaded
<1>6. Found
  <2>1. offset = [t \in Token |-> [l \in CopyLane |-> offset[t][l]]]
    BY <1>1 DEF RemapInit
  <2> QED BY <1>2, <2>1 DEF Found
<1>7. Copied /\ Stored
  BY <1>2, TokenFacts, LaneFacts DEF Copied, Stored
<1>8. Multiplied
  BY <1>1 DEF Multiplied
<1> QED BY <1>3, <1>4, <1>5, <1>6, <1>7, <1>8 DEF RowsInv

LEMMA CountRows ==
  ASSUME IInv, IInv', RowsInv, CountStep, UNCHANGED <<result, computed>>
  PROVE  RowsInv'
<1>1. ~Counted
  BY DEF CountStep, Clear, Count, TakeBase, LeaveBases, AddBase, At, Counted
<1>2. Stages /\ Loaded /\ Found /\ Multiplied
  BY DEF RowsInv
<1>3. \A t \in Token : \A l \in CopyLane : stage[t][l] = 0
  BY <1>1, <1>2 DEF Stages
<1>4. stage' = stage /\ cumsum' = cumsum /\ offset' = offset
  BY DEF CountStep, Clear, Count, TakeBase, LeaveBases, AddBase, copyVars
<1>5. Stages'
  BY <1>3, <1>4 DEF Stages
<1>6. Placed'
  <2>1. Fresh'
    BY <1>3, <1>4, LaneFacts DEF Fresh
  <2> QED BY <2>1, RanksFillNext DEF Placed
<1>7. Loaded' /\ Found'
  BY <1>2, <1>3, <1>4, LaneFacts DEF Loaded, Found
<1>8. Copied' /\ Stored'
  BY <1>3, <1>4, TokenFacts, LaneFacts DEF Copied, Stored
<1>9. Multiplied'
  BY <1>1, <1>2 DEF Multiplied, Remapped
<1> QED BY <1>5, <1>6, <1>7, <1>8, <1>9 DEF RowsInv

-----------------------------------------------------------------------------
(* A step of one work-item of RemapHiddenStates, what it changes aside.    *)
LEMMA CopyFrame ==
  ASSUME IInv, RowsInv, Counted, NEW t \in Token, NEW l \in CopyLane, NEW n \in {0, 2, 3, 4},
         stage[t][l] = n, EndStage(t, l), n = 3 => \A m \in CopyLane : stage[t][m] >= 3,
         in' = in, UNCHANGED countVars, UNCHANGED <<result, computed>>,
         \A s \in Slot : IF s \div TopK = t /\ l = 0 /\ n = 4 THEN perm'[s] = RowOf(s)
                         ELSE perm'[s] = perm[s]
  PROVE  /\ stage'[t][l] = n + 1
         /\ \A u \in Token : \A m \in CopyLane : ~(u = t /\ m = l) => stage'[u][m] = stage[u][m]
         /\ \A s : ExpertOf(s)' = ExpertOf(s)
         /\ \A s \in Slot : RowOf(s)' = RowOf(s)
         /\ rows' = rows /\ \A e : PreRows(e)' = PreRows(e)
         /\ Stages' /\ Placed' /\ Stored' /\ Multiplied'
         /\ n # 0 /\ cumsum' = cumsum => Loaded'
         /\ n # 2 /\ offset' = offset => Found'
         /\ n # 3 /\ hidden' = hidden /\ scales' = scales => Copied'
<1>0. /\ Stages /\ Placed /\ Loaded /\ Found /\ Copied /\ Stored /\ Multiplied
      /\ stage \in [Token -> [CopyLane -> Nat]]
      /\ stage' = [stage EXCEPT ![t][l] = n + 1]
      /\ phase' = phase /\ rows' = rows /\ in' = in
      /\ result' = result /\ computed' = computed
  BY DEF RowsInv, IInv, Typing, EndStage, countVars
<1>1. stage'[t][l] = n + 1
  BY <1>0
<1>2. \A u \in Token : \A m \in CopyLane : ~(u = t /\ m = l) => stage'[u][m] = stage[u][m]
  BY <1>0
<1>3. \A s : ExpertOf(s)' = ExpertOf(s)
  BY <1>0 DEF ExpertOf
<1>4. /\ \A e : PreRows(e)' = PreRows(e)
      /\ \A e : Segment(e)' = Segment(e)
  BY <1>0 DEF PreRows, Segment
<1>5. Counted'
  BY <1>0 DEF Counted
<1>6. \A s \in Slot : RowOf(s)' = RowOf(s)
  <2> TAKE s \in Slot
  <2>1. s \div TopK \in Token /\ 0 \in CopyLane
    BY TokenFacts, LaneFacts
  <2>2. CASE s \div TopK = t /\ l = 0 /\ n = 4
    BY <1>1, <1>3, <2>2 DEF RowOf
  <2>3. CASE ~(s \div TopK = t /\ l = 0 /\ n = 4)
    <3>1. (stage'[s \div TopK][0] < 5) <=> (stage[s \div TopK][0] < 5)
      BY <1>1, <1>2, <2>1, <2>3
    <3>2. perm'[s] = perm[s]
      BY <2>3
    <3>3. PreRows(ExpertOf(s))' = PreRows(ExpertOf(s))
      BY <1>3, <1>4 DEF PreRows
    <3> QED BY <1>3, <3>1, <3>2, <3>3 DEF RowOf
  <2> QED BY <2>2, <2>3
<1>7. Stages'
  <2> SUFFICES ASSUME NEW u \in Token, NEW i \in CopyLane
               PROVE  /\ stage'[u][i] \in 0 .. 5
                      /\ \A m \in CopyLane : /\ stage'[u][i] >= 2 => stage'[u][m] >= 2
                                             /\ stage'[u][i] >= 4 => stage'[u][m] >= 3
    BY <1>5 DEF Stages
  <2>1. stage[u][i] \in 0 .. 5
    BY <1>0 DEF Stages
  <2>2. stage'[u][i] \in 0 .. 5
    BY <1>1, <1>2, <2>1
  <2>3. ASSUME NEW m \in CopyLane
        PROVE  /\ stage'[u][i] >= 2 => stage'[u][m] >= 2
               /\ stage'[u][i] >= 4 => stage'[u][m] >= 3
    <3>1. /\ stage[u][m] \in 0 .. 5
          /\ stage[u][i] >= 2 => stage[u][m] >= 2
          /\ stage[u][i] >= 4 => stage[u][m] >= 3
      BY <1>0 DEF Stages
    <3>2. stage'[u][m] >= stage[u][m] /\ stage'[u][m] \in Nat
      BY <1>1, <1>2, <3>1
    <3>3. PICK a \in 0 .. 5, b \in 0 .. 5, c \in Nat, d \in Nat :
            /\ a = stage[u][i] /\ b = stage[u][m] /\ c = stage'[u][i] /\ d = stage'[u][m]
            /\ b <= d
      BY <2>1, <2>2, <3>1, <3>2
    <3>4. CASE ~(u = t /\ i = l)
      <4>1. a = c
        BY <1>2, <3>3, <3>4
      <4> QED BY <3>1, <3>3, <4>1
    <3>5. CASE u = t /\ i = l
      <4>1. a = n /\ c = n + 1 /\ (n = 3 => b >= 3)
        BY <1>1, <3>3, <3>5
      <4> QED BY <3>1, <3>3, <4>1
    <3> QED BY <3>4, <3>5
  <2> QED BY <2>2, <2>3
<1>8. Placed'
  <2> SUFFICES /\ \A s \in Slot : ExpertOf(s) # -1 => RowOf(s) \in Segment(ExpertOf(s))
               /\ \A s, u \in Slot :
                    s # u /\ ExpertOf(s) = ExpertOf(u) /\ ExpertOf(s) # -1 => RowOf(s) # RowOf(u)
               /\ \A e \in Expert : \A r \in Segment(e) :
                    \E s \in Slot : ExpertOf(s) = e /\ RowOf(s) = r
    <3>1. \A s \in Slot : Segment(ExpertOf(s))' = Segment(ExpertOf(s))
      BY <1>0, <1>3 DEF Segment, PreRows
    <3> QED BY <1>3, <1>4, <1>6, <3>1 DEF Placed
  <2> QED BY <1>0 DEF Placed
<1>9. Stored'
  <2> SUFFICES ASSUME NEW s \in Slot, stage'[s \div TopK][0] = 5 PROVE perm'[s] = RowOf(s)
    BY <1>6 DEF Stored
  <2>1. s \div TopK \in Token /\ 0 \in CopyLane
    BY TokenFacts, LaneFacts
  <2>2. CASE ~(s \div TopK = t /\ l = 0 /\ n = 4)
    <3>1. stage[s \div TopK][0] = 5
      BY <1>1, <1>2, <2>1, <2>2
    <3> QED BY <1>0, <2>2, <3>1 DEF Stored
  <2> QED BY <2>2
<1>10. Multiplied'
  <2>1. ~Remapped
    <3>1. stage[t][l] # 5
      OBVIOUS
    <3> QED BY <3>1 DEF Remapped
  <2> QED BY <1>0, <2>1 DEF Multiplied
<1>11. ASSUME n # 0, cumsum' = cumsum PROVE Loaded'
  <2> SUFFICES ASSUME NEW u \in Token, NEW e \in Expert
               PROVE  /\ stage'[u][Loader(e)] = 1 => cumsum[u][e] = IF e = 0 THEN 0 ELSE rows[e - 1]
                      /\ stage'[u][Loader(e)] >= 2 => cumsum[u][e] = PreRows(e)
    BY <1>0, <1>4, <1>11 DEF Loaded, Loader
  <2>1. Loader(e) \in CopyLane
    BY LaneFacts
  <2>2. (stage'[u][Loader(e)] = 1 => stage[u][Loader(e)] = 1)
        /\ (stage'[u][Loader(e)] >= 2 => stage[u][Loader(e)] >= 2)
    BY <1>1, <1>2, <1>11, <2>1
  <2> QED BY <1>0, <2>2 DEF Loaded
<1>12. ASSUME n # 2, offset' = offset PROVE Found'
  <2> SUFFICES ASSUME NEW u \in Token, NEW m \in CopyLane, stage'[u][m] >= 3,
                      NEW k \in 0 .. TopK - 1
               PROVE  offset[u][m][k] = RowOf((u * TopK) + k)
    <3>1. \A u \in Token : \A k \in 0 .. TopK - 1 : RowOf((u * TopK) + k)' = RowOf((u * TopK) + k)
      BY <1>6, TokenFacts DEF RowOf, ExpertOf, PreRows
    <3> QED BY <1>0, <1>12, <3>1 DEF Found
  <2>1. stage[u][m] >= 3
    BY <1>1, <1>2, <1>12
  <2> QED BY <1>0, <2>1 DEF Found
<1>13. ASSUME n # 3, hidden' = hidden, scales' = scales PROVE Copied'
  <2> SUFFICES ASSUME NEW s \in Slot, NEW m \in CopyLane, ExpertOf(s) # -1,
                      stage'[s \div TopK][m] >= 4
               PROVE  /\ \A c \in ChunksOf(m) : hidden[RowOf(s)][c] = s \div TopK
                      /\ \A e \in ScalesOf(m) : scales[RowOf(s)][e] = s \div TopK
    BY <1>3, <1>6, <1>13 DEF Copied
  <2>1. stage[s \div TopK][m] >= 4
    BY <1>1, <1>2, <1>13, TokenFacts
  <2> QED BY <1>0, <2>1 DEF Copied
<1> QED BY <1>0, <1>1, <1>2, <1>3, <1>4, <1>6, <1>7, <1>8, <1>9, <1>10, <1>11, <1>12, <1>13

-----------------------------------------------------------------------------
(* No two slots have a row, and there are no more rows than slots.         *)
LEMMA RowsDistinct ==
  ASSUME Typing, Placed, Counted, NEW s \in Slot, NEW u \in Slot,
         ExpertOf(s) # -1, ExpertOf(u) # -1, RowOf(s) = RowOf(u)
  PROVE  s = u
<1>1. ExpertOf(s) \in Expert /\ ExpertOf(u) \in Expert /\ rows \in [Expert -> Nat]
  BY ExpertFacts DEF Typing
<1>2. RowOf(s) \in Segment(ExpertOf(s)) /\ RowOf(s) \in Segment(ExpertOf(u))
  BY DEF Placed
<1>3. ExpertOf(s) = ExpertOf(u)
  BY <1>1, <1>2, SegmentsDisjoint
<1> QED BY <1>3 DEF Placed

LEMMA SegmentsCover ==
  ASSUME rows \in [Expert -> Nat], NEW R, RunningSum(R, rows), NEW r \in Nat, r < R[LocalExperts]
  PROVE  \E e \in Expert : r \in Segment(e)
<1>1. /\ R[0] = 0
      /\ \A c \in 0 .. LocalExperts : R[c] \in Nat
      /\ \A c \in Expert : PreRows(c) = R[c] /\ R[c + 1] = R[c] + rows[c]
  BY SegmentStarts
<1>2. LocalExperts \in Nat \ {0}
  BY SizeAssumption
<1> DEFINE T == {n \in 0 .. LocalExperts : r < R[n]}
<1>3. T \subseteq Nat /\ T # {}
  BY <1>2
<1>4. PICK n \in T : \A m \in T : n <= m
  <2> HIDE DEF T
  <2> QED BY <1>3, LeastNat
<1>5. n # 0 /\ n \in 0 .. LocalExperts /\ r < R[n]
  BY <1>1, <1>4
<1>6. n - 1 \in Expert /\ n - 1 \in 0 .. LocalExperts /\ (n - 1) + 1 = n
  BY <1>2, <1>5 DEF Expert
<1>7. n - 1 \notin T
  BY <1>4, <1>5
<1>8. R[n - 1] <= r
  BY <1>1, <1>6, <1>7
<1>9. r \in PreRows(n - 1) .. PreRows(n - 1) + rows[n - 1] - 1
  <2>1. PICK a \in Nat, b \in Nat, c \in Nat :
          a = R[n - 1] /\ b = R[n] /\ c = rows[n - 1] /\ b = a + c
    BY <1>1, <1>5, <1>6
  <2>2. r \in a .. a + c - 1
    BY <1>5, <1>8, <2>1
  <2> QED BY <1>1, <1>6, <2>1, <2>2
<1> QED BY <1>6, <1>9 DEF Segment

LEMMA RowsInRange ==
  ASSUME Typing, Placed, Counted
  PROVE  \A s \in Slot : ExpertOf(s) # -1 => RowOf(s) \in Row
<1>1. rows \in [Expert -> Nat] /\ LocalExperts \in Nat \ {0} /\ NumSlots \in Nat
      /\ Slot = 0 .. NumSlots - 1
  BY SizeAssumption, Ranges DEF Typing, Slot
<1>2. PICK R : RunningSum(R, rows)
  BY SumExists
<1>3. /\ \A c \in 0 .. LocalExperts : R[c] \in Nat
      /\ \A c \in Expert : PreRows(c) = R[c] /\ R[c + 1] = R[c] + rows[c]
      /\ \A a, b \in 0 .. LocalExperts : a <= b => R[a] <= R[b]
  BY <1>1, <1>2, SegmentStarts
<1>4. PICK n \in Nat : n = R[LocalExperts]
  BY <1>1, <1>3
<1>5. n <= NumSlots
  <2> SUFFICES ASSUME NumSlots < n PROVE FALSE
    BY <1>1
  <2> DEFINE f == [r \in 0 .. NumSlots |-> CHOOSE s \in Slot : ExpertOf(s) # -1 /\ RowOf(s) = r]
  <2>1. ASSUME NEW r \in 0 .. NumSlots
        PROVE  f[r] \in Slot /\ ExpertOf(f[r]) # -1 /\ RowOf(f[r]) = r
    <3>1. r \in Nat /\ r < R[LocalExperts]
      BY <1>1, <1>4
    <3>2. PICK e \in Expert : r \in Segment(e)
      BY <1>1, <1>2, <3>1, SegmentsCover
    <3>3. \E s \in Slot : ExpertOf(s) # -1 /\ RowOf(s) = r
      <4>1. e # -1
        BY SizeAssumption DEF Expert
      <4> QED BY <3>2, <4>1 DEF Placed
    <3>4. f[r] = CHOOSE s \in Slot : ExpertOf(s) # -1 /\ RowOf(s) = r
      OBVIOUS
    <3> HIDE DEF f
    <3> QED BY <3>3, <3>4, Zenon
  <2>2. f \in [0 .. NumSlots -> Slot]
    <3>1. f = [r \in 0 .. NumSlots |-> f[r]]
      OBVIOUS
    <3> HIDE DEF f
    <3> QED BY <2>1, <3>1
  <2>3. /\ IsFiniteSet(0 .. NumSlots) /\ Cardinality(0 .. NumSlots) = NumSlots + 1
        /\ IsFiniteSet(Slot) /\ Cardinality(Slot) = NumSlots
    <3>1. /\ IsFiniteSet(0 .. NumSlots)
          /\ Cardinality(0 .. NumSlots) = IF 0 > NumSlots THEN 0 ELSE NumSlots - 0 + 1
      BY <1>1, FS_Interval
    <3>2. /\ IsFiniteSet(0 .. NumSlots - 1)
          /\ Cardinality(0 .. NumSlots - 1)
               = IF 0 > NumSlots - 1 THEN 0 ELSE (NumSlots - 1) - 0 + 1
      BY <1>1, FS_Interval
    <3>3. Cardinality(0 .. NumSlots) = NumSlots + 1
      BY <1>1, <3>1
    <3>4. Cardinality(0 .. NumSlots - 1) = NumSlots
      BY <1>1, <3>2
    <3> QED BY <1>1, <3>1, <3>2, <3>3, <3>4
  <2> HIDE DEF f
  <2>4. Cardinality(Slot) < Cardinality(0 .. NumSlots)
    BY <1>1, <2>3
  <2>5. \E x, y \in 0 .. NumSlots : x # y /\ f[x] = f[y]
    BY <2>2, <2>3, <2>4, FS_PigeonHole
  <2> QED BY <2>1, <2>5
<1>6. ASSUME NEW s \in Slot, ExpertOf(s) # -1 PROVE RowOf(s) \in Row
  <2>1. ExpertOf(s) \in Expert
    BY <1>6, ExpertFacts DEF Typing
  <2>2. PICK e \in Expert : e = ExpertOf(s)
    BY <2>1
  <2>3. RowOf(s) \in Segment(e)
    BY <1>6, <2>2 DEF Placed
  <2>4. e \in 0 .. LocalExperts /\ e + 1 \in 0 .. LocalExperts
    BY <1>1 DEF Expert
  <2>5. PICK a \in Nat, b \in Nat : a = R[e] /\ b = R[e] + rows[e] /\ b <= n
    <3>1. R[e + 1] = R[e] + rows[e] /\ R[e] \in Nat /\ R[e + 1] \in Nat
      BY <1>3, <2>4
    <3>2. R[e + 1] <= R[LocalExperts]
      BY <1>1, <1>3, <2>4
    <3> QED BY <1>4, <3>1, <3>2
  <2>6. RowOf(s) \in a .. b - 1
    <3>1. PreRows(e) = a
      BY <1>3, <2>5
    <3>2. RowOf(s) \in a .. a + rows[e] - 1
      BY <2>3, <3>1 DEF Segment
    <3>3. PICK c \in Nat : c = rows[e] /\ b = a + c
      BY <1>1, <2>5
    <3> QED BY <3>2, <3>3
  <2> QED BY <1>1, <1>5, <2>5, <2>6 DEF Row
<1> QED BY <1>6

-----------------------------------------------------------------------------
LEMMA LoadRowsKept ==
  ASSUME IInv, RowsInv, NEW t \in Token, NEW l \in CopyLane, LoadRows(t, l),
         UNCHANGED <<result, computed>>
  PROVE  RowsInv'
<1>0. /\ Counted /\ stage[t][l] = 0 /\ EndStage(t, l)
      /\ in' = in /\ UNCHANGED countVars /\ perm' = perm
      /\ offset' = offset /\ hidden' = hidden /\ scales' = scales
      /\ Loaded
  BY DEF LoadRows, On, RowsInv
<1>1. /\ stage'[t][l] = 1
      /\ \A u \in Token : \A m \in CopyLane : ~(u = t /\ m = l) => stage'[u][m] = stage[u][m]
      /\ rows' = rows /\ \A e : PreRows(e)' = PreRows(e)
      /\ Stages' /\ Placed' /\ Stored' /\ Multiplied' /\ Found' /\ Copied'
  BY <1>0, CopyFrame
<1>2. Loaded'
  <2>1. /\ \A u \in Token : u # t => cumsum'[u] = cumsum[u]
        /\ cumsum' = [u \in Token |-> cumsum'[u]]
        /\ \A e \in Expert : cumsum'[t][e] =
             IF e = 0 THEN (IF l = 0 THEN 0 ELSE cumsum[t][0])
             ELSE IF (e - 1) % CopyLanes = l THEN rows[e - 1] ELSE cumsum[t][e]
    BY <1>0 DEF LoadRows, Loaded
  <2> SUFFICES ASSUME NEW u \in Token, NEW e \in Expert
               PROVE  /\ stage'[u][Loader(e)] = 1 =>
                           cumsum'[u][e] = IF e = 0 THEN 0 ELSE rows[e - 1]
                      /\ stage'[u][Loader(e)] >= 2 => cumsum'[u][e] = PreRows(e)
    BY <1>1, <2>1 DEF Loaded, Loader
  <2>2. Loader(e) \in CopyLane
    BY LaneFacts
  <2>3. CASE u = t /\ Loader(e) = l
    <3>1. cumsum'[t][e] = IF e = 0 THEN 0 ELSE rows[e - 1]
      BY <2>1, <2>3 DEF Loader
    <3> QED BY <1>1, <2>3, <3>1
  <2>4. CASE ~(u = t /\ Loader(e) = l)
    <3>1. cumsum'[u][e] = cumsum[u][e] /\ stage'[u][Loader(e)] = stage[u][Loader(e)]
      BY <1>1, <2>1, <2>2, <2>4 DEF Loader
    <3> QED BY <1>0, <3>1 DEF Loaded
  <2> QED BY <2>3, <2>4
<1> QED BY <1>1, <1>2 DEF RowsInv

LEMMA FindRowsKept ==
  ASSUME IInv, RowsInv, NEW t \in Token, NEW l \in CopyLane, FindRows(t, l),
         UNCHANGED <<result, computed>>
  PROVE  RowsInv'
<1>0. /\ Counted /\ stage[t][l] = 2 /\ EndStage(t, l) /\ \A m \in CopyLane : stage[t][m] >= 2
      /\ in' = in /\ UNCHANGED countVars /\ perm' = perm
      /\ cumsum' = cumsum /\ hidden' = hidden /\ scales' = scales
      /\ Loaded /\ Found /\ Stages /\ Typing
  BY DEF FindRows, On, RowsInv, IInv
<1>1. /\ stage'[t][l] = 3
      /\ \A u \in Token : \A m \in CopyLane : ~(u = t /\ m = l) => stage'[u][m] = stage[u][m]
      /\ \A s \in Slot : RowOf(s)' = RowOf(s)
      /\ Stages' /\ Placed' /\ Stored' /\ Multiplied' /\ Loaded' /\ Copied'
  BY <1>0, CopyFrame
<1>2. Found'
  <2>1. /\ offset' = [u \in Token |-> [m \in CopyLane |-> offset'[u][m]]]
        /\ \A u \in Token : \A m \in CopyLane :
             ~(u = t /\ m = l) => offset'[u][m] = offset[u][m]
        /\ \A k \in 0 .. TopK - 1 : offset'[t][l][k] =
             IF ExpertOf((t * TopK) + k) = -1 THEN -1
             ELSE perm[(t * TopK) + k]
                  + (IF ExpertOf((t * TopK) + k) = 0 THEN 0 ELSE cumsum[t][ExpertOf((t * TopK) + k)])
    <3> DEFINE new == [k \in 0 .. TopK - 1 |->
                         IF ExpertOf((t * TopK) + k) = -1 THEN -1
                         ELSE perm[(t * TopK) + k]
                              + (IF ExpertOf((t * TopK) + k) = 0 THEN 0
                                 ELSE cumsum[t][ExpertOf((t * TopK) + k)])]
    <3>1. offset' = [offset EXCEPT ![t][l] = new]
      BY DEF FindRows
    <3>2. offset = [u \in Token |-> [m \in CopyLane |-> offset[u][m]]]
      BY <1>0 DEF Found
    <3> HIDE DEF new
    <3>3. /\ offset' = [u \in Token |-> [m \in CopyLane |-> offset'[u][m]]]
          /\ offset'[t][l] = new
          /\ \A u \in Token : \A m \in CopyLane :
               ~(u = t /\ m = l) => offset'[u][m] = offset[u][m]
      BY <3>1, <3>2
    <3> QED BY <3>3 DEF new
  <2> SUFFICES ASSUME NEW u \in Token, NEW m \in CopyLane, stage'[u][m] >= 3,
                      NEW k \in 0 .. TopK - 1
               PROVE  offset'[u][m][k] = RowOf((u * TopK) + k)
    <3>1. \A u \in Token : \A k \in 0 .. TopK - 1 : RowOf((u * TopK) + k)' = RowOf((u * TopK) + k)
      BY <1>1, TokenFacts DEF RowOf, ExpertOf, PreRows
    <3> QED BY <2>1, <3>1 DEF Found
  <2>2. CASE ~(u = t /\ m = l)
    BY <1>0, <1>1, <2>1, <2>2 DEF Found
  <2>3. CASE u = t /\ m = l
    <3> DEFINE s == (t * TopK) + k
    <3>1. s \in Slot /\ s \div TopK = t
      BY TokenFacts
    <3>2. stage[t][0] < 5
      <4>1. stage[t][0] >= 4 => stage[t][l] >= 3
        BY <1>0, LaneFacts DEF Stages
      <4>2. stage[t][0] \in 0 .. 5
        BY <1>0, LaneFacts DEF Stages
      <4> QED BY <1>0, <4>1, <4>2
    <3> HIDE DEF s
    <3>3. CASE ExpertOf(s) = -1
      BY <2>1, <2>3, <3>3 DEF RowOf, s
    <3>4. CASE ExpertOf(s) # -1
      <4>1. PICK e \in Expert : e = ExpertOf(s)
        BY <1>0, <3>1, <3>4, ExpertFacts DEF Typing
      <4>2. Loader(e) \in CopyLane
        BY LaneFacts
      <4>3. cumsum[t][e] = PreRows(e)
        BY <1>0, <4>2 DEF Loaded
      <4>4. PICK p \in Nat : p = PreRows(e)
        BY <1>0, PreRowsNat DEF Typing
      <4>5. e = 0 => PreRows(e) = 0
        BY DEF PreRows
      <4>6. perm[s] \in Int
        BY <1>0, <3>1, <3>2 DEF Typing
      <4>7. offset'[t][l][k] = perm[s] + p
        BY <2>1, <3>4, <4>1, <4>3, <4>4, <4>5 DEF s
      <4>8. RowOf(s) = p + perm[s]
        BY <3>1, <3>2, <3>4, <4>1, <4>4 DEF RowOf
      <4> QED BY <2>3, <4>6, <4>7, <4>8 DEF s
    <3> QED BY <3>3, <3>4
  <2> QED BY <2>2, <2>3
<1> QED BY <1>1, <1>2 DEF RowsInv

LEMMA StoreRowsKept ==
  ASSUME IInv, RowsInv, NEW t \in Token, NEW l \in CopyLane, StoreRows(t, l),
         UNCHANGED <<result, computed>>
  PROVE  RowsInv'
<1>0. /\ Counted /\ stage[t][l] = 4 /\ EndStage(t, l)
      /\ in' = in /\ UNCHANGED countVars
      /\ cumsum' = cumsum /\ offset' = offset /\ hidden' = hidden /\ scales' = scales
      /\ Found
  BY DEF StoreRows, RowsInv
<1>1. \A s \in Slot : IF s \div TopK = t /\ l = 0 THEN perm'[s] = RowOf(s) ELSE perm'[s] = perm[s]
  <2> TAKE s \in Slot
  <2>1. CASE s \div TopK = t /\ l = 0
    <3>1. perm'[s] = offset[t][0][s % TopK]
      BY <2>1 DEF StoreRows
    <3>2. s % TopK \in 0 .. TopK - 1 /\ s = (t * TopK) + (s % TopK)
      BY <2>1, TokenFacts
    <3> QED BY <1>0, <2>1, <3>1, <3>2 DEF Found
  <2>2. CASE ~(s \div TopK = t /\ l = 0)
    BY <2>2 DEF StoreRows
  <2> QED BY <2>1, <2>2
<1>2. Stages' /\ Placed' /\ Stored' /\ Multiplied' /\ Loaded' /\ Found' /\ Copied'
  BY <1>0, <1>1, CopyFrame
<1> QED BY <1>2 DEF RowsInv

LEMMA CopyRowsKept ==
  ASSUME IInv, RowsInv, NEW t \in Token, NEW l \in CopyLane, Copy(t, l),
         UNCHANGED <<result, computed>>
  PROVE  RowsInv'
<1> DEFINE targets == {offset[t][l][k] : k \in 0 .. TopK - 1}
<1>0. /\ Counted /\ stage[t][l] = 3 /\ EndStage(t, l) /\ (\A m \in CopyLane : stage[t][m] >= 3)
      /\ in' = in /\ UNCHANGED countVars /\ perm' = perm
      /\ cumsum' = cumsum /\ offset' = offset
      /\ Placed /\ Found /\ Copied /\ Typing
  BY DEF Copy, On, RowsInv, IInv
<1>1. /\ stage'[t][l] = 4
      /\ \A u \in Token : \A m \in CopyLane : ~(u = t /\ m = l) => stage'[u][m] = stage[u][m]
      /\ \A s : ExpertOf(s)' = ExpertOf(s)
      /\ \A s \in Slot : RowOf(s)' = RowOf(s)
      /\ Stages' /\ Placed' /\ Stored' /\ Multiplied' /\ Loaded' /\ Found'
  BY <1>0, CopyFrame
<1>2. \A r \in Row : \A c \in Chunk :
        hidden'[r][c] = IF r \in targets /\ c \in ChunksOf(l) THEN t ELSE hidden[r][c]
  BY DEF Copy
<1>3. \A r \in Row : \A e \in ScaleElem :
        scales'[r][e] = IF r \in targets /\ e \in ScalesOf(l) THEN t ELSE scales[r][e]
  BY DEF Copy
<1>4. ASSUME NEW s \in Slot, ExpertOf(s) # -1
      PROVE  RowOf(s) \in Row /\ (RowOf(s) \in targets <=> s \div TopK = t)
  <2>1. RowOf(s) \in Row
    BY <1>0, <1>4, RowsInRange
  <2>2. ASSUME s \div TopK = t PROVE RowOf(s) \in targets
    <3>1. s % TopK \in 0 .. TopK - 1 /\ s = (t * TopK) + (s % TopK)
      BY <2>2, TokenFacts
    <3>2. offset[t][l][s % TopK] = RowOf(s)
      BY <1>0, <3>1 DEF Found
    <3> QED BY <3>1, <3>2
  <2>3. ASSUME RowOf(s) \in targets PROVE s \div TopK = t
    <3>1. PICK k \in 0 .. TopK - 1 : RowOf(s) = offset[t][l][k]
      BY <2>3
    <3>2. RowOf(s) = RowOf((t * TopK) + k)
      BY <1>0, <3>1 DEF Found
    <3>3. (t * TopK) + k \in Slot /\ ((t * TopK) + k) \div TopK = t
      BY TokenFacts
    <3>4. ExpertOf((t * TopK) + k) # -1
      <4>1. RowOf(s) # -1
        BY <2>1, Ranges DEF Row, Slot
      <4> QED BY <3>2, <4>1 DEF RowOf
    <3>5. s = (t * TopK) + k
      BY <1>0, <1>4, <3>2, <3>3, <3>4, RowsDistinct
    <3> QED BY <3>3, <3>5
  <2> QED BY <2>1, <2>2, <2>3
<1> HIDE DEF targets
<1>5. Copied'
  <2> SUFFICES ASSUME NEW s \in Slot, NEW m \in CopyLane, ExpertOf(s) # -1,
                      stage'[s \div TopK][m] >= 4
               PROVE  /\ \A c \in ChunksOf(m) : hidden'[RowOf(s)][c] = s \div TopK
                      /\ \A e \in ScalesOf(m) : scales'[RowOf(s)][e] = s \div TopK
    BY <1>1 DEF Copied, ChunksOf, ScalesOf
  <2>1. s \div TopK \in Token /\ ChunksOf(m) \subseteq Chunk /\ ScalesOf(m) \subseteq ScaleElem
    BY TokenFacts DEF ChunksOf, ScalesOf
  <2>2. CASE s \div TopK = t /\ m = l
    BY <1>2, <1>3, <1>4, <2>1, <2>2
  <2>3. CASE ~(s \div TopK = t /\ m = l)
    <3>1. /\ \A c \in ChunksOf(m) : hidden[RowOf(s)][c] = s \div TopK
          /\ \A e \in ScalesOf(m) : scales[RowOf(s)][e] = s \div TopK
      BY <1>0, <1>1, <2>1, <2>3 DEF Copied
    <3> QED BY <1>2, <1>3, <1>4, <2>1, <3>1
  <2> QED BY <2>2, <2>3
<1> QED BY <1>1, <1>5 DEF RowsInv

LEMMA ScanKept ==
  ASSUME IInv, RowsInv, NEW t \in Token, Scan(t), UNCHANGED <<result, computed>>
  PROVE  RowsInv'
<1>0. /\ Stages /\ Placed /\ Loaded /\ Found /\ Copied /\ Stored /\ Multiplied
      /\ stage \in [Token -> [CopyLane -> Nat]] /\ rows \in [Expert -> Nat]
      /\ Counted /\ \A l \in CopyLane : stage[t][l] = 1
      /\ stage' = [stage EXCEPT ![t] = [l \in CopyLane |-> 2]]
      /\ cumsum' = [cumsum EXCEPT ![t] = PrefixSums(cumsum[t])]
      /\ in' = in /\ phase' = phase /\ rows' = rows /\ perm' = perm
      /\ offset' = offset /\ hidden' = hidden /\ scales' = scales
      /\ result' = result /\ computed' = computed
  BY LaneFacts DEF RowsInv, IInv, Typing, Scan, On, countVars
<1>1. /\ \A l \in CopyLane : stage'[t][l] = 2
      /\ \A u \in Token : u # t => stage'[u] = stage[u]
  BY <1>0
<1>2. /\ \A s : ExpertOf(s)' = ExpertOf(s)
      /\ \A e : PreRows(e)' = PreRows(e)
      /\ \A e : Segment(e)' = Segment(e)
      /\ Counted'
  BY <1>0 DEF ExpertOf, PreRows, Segment, Counted
<1>3. \A s \in Slot : RowOf(s)' = RowOf(s)
  <2> TAKE s \in Slot
  <2>1. s \div TopK \in Token /\ 0 \in CopyLane
    BY TokenFacts, LaneFacts
  <2>2. (stage'[s \div TopK][0] < 5) <=> (stage[s \div TopK][0] < 5)
    BY <1>0, <1>1, <2>1
  <2>3. PreRows(ExpertOf(s))' = PreRows(ExpertOf(s))
    BY <1>0, <1>2 DEF PreRows
  <2> QED BY <1>0, <1>2, <2>2, <2>3 DEF RowOf
<1>4. Stages'
  <2> SUFFICES ASSUME NEW u \in Token, NEW i \in CopyLane
               PROVE  /\ stage'[u][i] \in 0 .. 5
                      /\ \A m \in CopyLane : /\ stage'[u][i] >= 2 => stage'[u][m] >= 2
                                             /\ stage'[u][i] >= 4 => stage'[u][m] >= 3
    BY <1>2 DEF Stages
  <2> QED BY <1>0, <1>1 DEF Stages
<1>5. Placed'
  <2> SUFFICES /\ \A s \in Slot : ExpertOf(s) # -1 => RowOf(s) \in Segment(ExpertOf(s))
               /\ \A s, u \in Slot :
                    s # u /\ ExpertOf(s) = ExpertOf(u) /\ ExpertOf(s) # -1 => RowOf(s) # RowOf(u)
               /\ \A e \in Expert : \A r \in Segment(e) :
                    \E s \in Slot : ExpertOf(s) = e /\ RowOf(s) = r
    <3>1. \A s \in Slot : Segment(ExpertOf(s))' = Segment(ExpertOf(s))
      BY <1>0, <1>2 DEF Segment, PreRows
    <3> QED BY <1>2, <1>3, <3>1 DEF Placed
  <2> QED BY <1>0 DEF Placed
<1>6. Loaded'
  <2>1. /\ cumsum' = [u \in Token |-> cumsum'[u]]
        /\ cumsum'[t] = PrefixSums(cumsum[t]) /\ \A u \in Token : u # t => cumsum'[u] = cumsum[u]
    BY <1>0 DEF Loaded
  <2>2. \A e \in Expert : cumsum[t][e] = IF e = 0 THEN 0 ELSE rows[e - 1]
    BY <1>0, LaneFacts DEF Loaded
  <2>3. \A e \in Expert : cumsum'[t][e] = PreRows(e)
    <3>1. PICK f : f = cumsum[t]
      OBVIOUS
    <3>2. \A e \in Expert : f[e] = IF e = 0 THEN 0 ELSE rows[e - 1]
      BY <2>2, <3>1
    <3>3. \A e \in Expert : PrefixSums(f)[e] = PreRows(e)
      BY <1>0, <3>2, ScanGives
    <3> QED BY <2>1, <3>1, <3>3
  <2> SUFFICES ASSUME NEW u \in Token, NEW e \in Expert
               PROVE  /\ stage'[u][Loader(e)] = 1 =>
                           cumsum'[u][e] = IF e = 0 THEN 0 ELSE rows[e - 1]
                      /\ stage'[u][Loader(e)] >= 2 => cumsum'[u][e] = PreRows(e)
    BY <1>0, <1>2, <2>1 DEF Loaded, Loader
  <2>4. Loader(e) \in CopyLane
    BY LaneFacts
  <2>5. CASE u = t
    BY <1>1, <2>3, <2>4, <2>5
  <2>6. CASE u # t
    BY <1>0, <1>1, <2>1, <2>4, <2>6 DEF Loaded
  <2> QED BY <2>5, <2>6
<1>7. \A u \in Token : \A l \in CopyLane : stage'[u][l] >= 3 => stage'[u][l] = stage[u][l]
  BY <1>1
<1>8. Found'
  <2> SUFFICES ASSUME NEW u \in Token, NEW m \in CopyLane, stage'[u][m] >= 3,
                      NEW k \in 0 .. TopK - 1
               PROVE  offset[u][m][k] = RowOf((u * TopK) + k)
    <3>1. \A u \in Token : \A k \in 0 .. TopK - 1 : RowOf((u * TopK) + k)' = RowOf((u * TopK) + k)
      BY <1>3, TokenFacts DEF RowOf, ExpertOf, PreRows
    <3> QED BY <1>0, <3>1 DEF Found
  <2> QED BY <1>0, <1>7 DEF Found
<1>9. Copied'
  <2> SUFFICES ASSUME NEW s \in Slot, NEW m \in CopyLane, ExpertOf(s) # -1,
                      stage'[s \div TopK][m] >= 4
               PROVE  /\ \A c \in ChunksOf(m) : hidden[RowOf(s)][c] = s \div TopK
                      /\ \A e \in ScalesOf(m) : scales[RowOf(s)][e] = s \div TopK
    BY <1>0, <1>2, <1>3 DEF Copied
  <2>1. stage[s \div TopK][m] >= 4
    BY <1>0, <1>1, TokenFacts
  <2> QED BY <1>0, <2>1 DEF Copied
<1>10. Stored'
  <2> SUFFICES ASSUME NEW s \in Slot, stage'[s \div TopK][0] = 5 PROVE perm[s] = RowOf(s)
    BY <1>0, <1>3 DEF Stored
  <2> QED BY <1>0, <1>7, TokenFacts, LaneFacts DEF Stored
<1>11. Multiplied'
  <2>1. ~Remapped
    BY <1>0, LaneFacts DEF Remapped
  <2> QED BY <1>0, <2>1 DEF Multiplied
<1> QED BY <1>4, <1>5, <1>6, <1>8, <1>9, <1>10, <1>11 DEF RowsInv

-----------------------------------------------------------------------------
(* The rows when RemapHiddenStates has ended.                              *)
LEMMA EndOfRemap ==
  ASSUME IInv, RowsInv, Remapped
  PROVE  /\ \A s \in Slot : perm[s] = RowOf(s)
         /\ \A s \in Slot : ExpertOf(s) # -1 =>
              /\ perm[s] \in Row /\ ExpertOf(s) \in Expert
              /\ perm[s] \in Segment(ExpertOf(s)) /\ Owner(perm[s]) = s \div TopK
<1>0. /\ Stages /\ Placed /\ Copied /\ Stored /\ Typing /\ Counted
      /\ \A t \in Token : \A l \in CopyLane : stage[t][l] = 5
  BY DEF RowsInv, IInv, Remapped
<1>1. \A s \in Slot : perm[s] = RowOf(s)
  BY <1>0, TokenFacts, LaneFacts DEF Stored
<1>2. ASSUME NEW s \in Slot, ExpertOf(s) # -1
      PROVE  /\ perm[s] \in Row /\ ExpertOf(s) \in Expert
             /\ perm[s] \in Segment(ExpertOf(s)) /\ Owner(perm[s]) = s \div TopK
  <2>1. perm[s] \in Row /\ perm[s] \in Segment(ExpertOf(s)) /\ ExpertOf(s) \in Expert
    BY <1>0, <1>1, <1>2, RowsInRange, ExpertFacts DEF Placed, Typing
  <2>2. s \div TopK \in Token
    BY TokenFacts
  <2>3. \A c \in Chunk : hidden[perm[s]][c] = s \div TopK
    <3> TAKE c \in Chunk
    <3>1. c % CopyLanes \in CopyLane
      BY LaneFacts, SizeAssumption DEF Chunk, CopyLane
    <3>2. c \in ChunksOf(c % CopyLanes)
      BY DEF ChunksOf
    <3> QED BY <1>0, <1>1, <1>2, <2>2, <3>1, <3>2 DEF Copied
  <2>4. \A e \in ScaleElem : scales[perm[s]][e] = s \div TopK
    <3> TAKE e \in ScaleElem
    <3>1. (e \div ElemsPerItem) % CopyLanes \in CopyLane
      <4>1. e \div ElemsPerItem \in Nat
        BY SizeAssumption, DivMod DEF ScaleElem
      <4> QED BY <4>1, LaneFacts, DivMod DEF CopyLane
    <3>2. e \in ScalesOf((e \div ElemsPerItem) % CopyLanes)
      BY DEF ScalesOf
    <3> QED BY <1>0, <1>1, <1>2, <2>2, <3>1, <3>2 DEF Copied
  <2>5. 0 \in Chunk
    BY SizeAssumption DEF Chunk
  <2> QED BY <2>1, <2>2, <2>3, <2>4, <2>5 DEF Owner
<1> QED BY <1>1, <1>2

LEMMA LaterKept ==
  ASSUME IInv, RowsInv, UNCHANGED remapVars, Multiplied'
  PROVE  RowsInv'
<1>0. /\ in' = in /\ phase' = phase /\ rows' = rows /\ perm' = perm /\ stage' = stage
      /\ cumsum' = cumsum /\ offset' = offset /\ hidden' = hidden /\ scales' = scales
  BY DEF remapVars, countVars, copyVars
<1>1. /\ \A s : ExpertOf(s)' = ExpertOf(s)
      /\ \A e : PreRows(e)' = PreRows(e)
      /\ \A e : Segment(e)' = Segment(e)
      /\ (Counted' <=> Counted)
  BY <1>0 DEF ExpertOf, PreRows, Segment, Counted
<1>2. \A s : RowOf(s)' = RowOf(s)
  BY <1>0 DEF RowOf, ExpertOf, PreRows
<1>3. \A s : Segment(ExpertOf(s))' = Segment(ExpertOf(s))
  BY <1>0 DEF Segment, ExpertOf, PreRows
<1>4. \A t, k : RowOf((t * TopK) + k)' = RowOf((t * TopK) + k)
  BY <1>0 DEF RowOf, ExpertOf, PreRows
<1>5. (Stages' <=> Stages) /\ (Loaded' <=> Loaded) /\ (Found' <=> Found)
  BY <1>0, <1>1, <1>2, <1>4 DEF Stages, Loaded, Loader, Found
<1>6. Placed' <=> Placed
  BY <1>0, <1>1, <1>2, <1>3 DEF Placed
<1>7. (Copied' <=> Copied) /\ (Stored' <=> Stored)
  BY <1>0, <1>1, <1>2 DEF Copied, ChunksOf, ScalesOf, Stored
<1> QED BY <1>5, <1>6, <1>7 DEF RowsInv

LEMMA GemmsKept ==
  ASSUME IInv, RowsInv, Gemms
  PROVE  RowsInv'
<1>0. /\ Remapped /\ UNCHANGED remapVars /\ Typing /\ rows \in [Expert -> Nat]
      /\ in' = in /\ perm' = perm /\ phase' = phase /\ stage' = stage
      /\ result' = [r \in Row |->
           IF \E e \in Expert : r \in Segment(e)
           THEN <<CHOOSE e \in Expert : r \in Segment(e), Owner(r)>> ELSE result[r]]
  BY DEF Gemms, IInv, Typing, remapVars, countVars, copyVars
<1>1. ASSUME NEW s \in Slot, ExpertOf(s) # -1
      PROVE  result'[perm[s]] = <<ExpertOf(s), s \div TopK>>
  <2>1. /\ perm[s] \in Row /\ ExpertOf(s) \in Expert
        /\ perm[s] \in Segment(ExpertOf(s)) /\ Owner(perm[s]) = s \div TopK
    BY <1>0, <1>1, EndOfRemap
  <2>2. result'[perm[s]] = <<CHOOSE e \in Expert : perm[s] \in Segment(e), Owner(perm[s])>>
    BY <1>0, <2>1
  <2>3. \A e \in Expert : perm[s] \in Segment(e) => e = ExpertOf(s)
    BY <1>0, <2>1, SegmentsDisjoint
  <2>4. (CHOOSE e \in Expert : perm[s] \in Segment(e)) = ExpertOf(s)
    BY <2>1, <2>3, Zenon
  <2> QED BY <2>1, <2>2, <2>4
<1>2. Multiplied'
  <2>1. \A s : ExpertOf(s)' = ExpertOf(s)
    BY <1>0 DEF ExpertOf
  <2>2. Remapped'
    BY <1>0 DEF Remapped, Counted
  <2> QED BY <1>0, <1>1, <2>1, <2>2 DEF Multiplied
<1> QED BY <1>0, <1>2, LaterKept

LEMMA RowsNext == IInv /\ IInv' /\ RowsInv /\ [Next]_vars => RowsInv'
<1> SUFFICES ASSUME IInv, IInv', RowsInv, [Next]_vars PROVE RowsInv'
  OBVIOUS
<1>1. CASE Remap
  <2>1. UNCHANGED <<result, computed>> /\ (CountStep \/ CopyStep)
    BY <1>1 DEF Remap
  <2>2. CASE CountStep
    BY <2>1, <2>2, CountRows
  <2>3. CASE CopyStep
    <3>1. CASE \E t \in Token : Scan(t)
      BY <2>1, <3>1, ScanKept
    <3>2. CASE \E t \in Token : \E l \in CopyLane :
                 LoadRows(t, l) \/ FindRows(t, l) \/ Copy(t, l) \/ StoreRows(t, l)
      BY <2>1, <3>2, LoadRowsKept, FindRowsKept, CopyRowsKept, StoreRowsKept
    <3> QED BY <2>3, <3>1, <3>2 DEF CopyStep
  <2> QED BY <2>1, <2>2, <2>3
<1>2. CASE Gemms
  BY <1>2, GemmsKept
<1>3. ASSUME UNCHANGED <<remapVars, result, computed>> PROVE RowsInv'
  <2>1. Multiplied'
    <3>1. Multiplied /\ in' = in /\ perm' = perm /\ phase' = phase /\ stage' = stage
          /\ result' = result /\ computed' = computed
      BY <1>3 DEF RowsInv, remapVars, countVars, copyVars
    <3> QED BY <3>1 DEF Multiplied, Remapped, Counted, ExpertOf
  <2> QED BY <1>3, <2>1, LaterKept
<1>4. CASE \E t \in Token : Gather(t)
  BY <1>3, <1>4 DEF Gather
<1>5. CASE UNCHANGED vars
  BY <1>3, <1>5 DEF vars
<1> QED BY <1>1, <1>2, <1>4, <1>5 DEF Next

LEMMA Grouped == IInv /\ RowsInv => RowsGrouped
<1> SUFFICES ASSUME IInv, RowsInv, Remapped, NEW e \in Expert
             PROVE  LET slots == {s \in Slot : ExpertOf(s) = e}
                    IN /\ {perm[s] : s \in slots} = Segment(e)
                       /\ \A s \in slots : Owner(perm[s]) = s \div TopK
  BY DEF RowsGrouped
<1>1. e # -1
  BY SizeAssumption DEF Expert
<1>2. \A s \in Slot : ExpertOf(s) = e =>
        perm[s] \in Segment(e) /\ Owner(perm[s]) = s \div TopK
  BY <1>1, EndOfRemap
<1>3. \A r \in Segment(e) : \E s \in Slot : ExpertOf(s) = e /\ perm[s] = r
  <2>1. Placed /\ Counted /\ \A s \in Slot : perm[s] = RowOf(s)
    BY EndOfRemap DEF RowsInv, Remapped
  <2> QED BY <2>1 DEF Placed
<1> QED BY <1>2, <1>3

LEMMA AllKept == Spec => [](IInv /\ RowsInv)
<1>1. Init => IInv /\ RowsInv
  BY InitKept, InitRows
<1>2. IInv /\ RowsInv /\ [Next]_vars => (IInv /\ RowsInv)'
  BY NextKept, RowsNext
<1> QED BY <1>1, <1>2, PTL DEF Spec

(* However many tokens, experts, work-groups and work-items there are, when *)
(* the rows have been moved each expert's segment is exactly the rows of its *)
(* slots, each whole and with its scales (remap_hidden_states against      *)
(* pre_rows of the grouped GEMM).                                          *)
THEOREM RowsAreGrouped == Spec => []RowsGrouped
  BY AllKept, Grouped, PTL

-----------------------------------------------------------------------------
(* MoeLayer.                                                               *)
Routing ==
  [t \in Token |->
     {<<k, ExpertOf(t * TopK + k)>> : k \in {k \in 0 .. TopK - 1 : ExpertOf(t * TopK + k) # -1}}]

LEMMA RoutingKept ==
  ASSUME in' = in
  PROVE  Routing' = Routing
  BY DEF Routing, ExpertOf

LEMMA LayerStep ==
  ASSUME IInv, RowsInv, [Next]_vars
  PROVE  [\E t \in Token : Layer!Answer(t)]_<<Routing, output>>
<1>1. CASE Remap \/ Gemms \/ UNCHANGED vars
  <2>1. output' = output
    BY <1>1 DEF Remap, Gemms, vars
  <2>2. in' = in
    BY <1>1 DEF Remap, CountStep, CopyStep, Clear, Count, TakeBase, LeaveBases, AddBase,
                Scan, LoadRows, FindRows, Copy, StoreRows, Gemms, vars, remapVars
  <2> QED BY <2>1, <2>2, RoutingKept
<1>2. ASSUME NEW t \in Token, Gather(t) PROVE Layer!Answer(t)
  <2>0. /\ output[t] = Pending /\ in' = in /\ computed
        /\ output' = [output EXCEPT ![t] =
             {<<k, IF perm[t * TopK + k] \in Row THEN result[perm[t * TopK + k]] ELSE <<>>>> :
                k \in {k \in 0 .. TopK - 1 : perm[t * TopK + k] # -1}}]
    BY <1>2 DEF Gather, remapVars
  <2>1. Remapped /\ \A s \in Slot : ExpertOf(s) # -1 => result[perm[s]] = <<ExpertOf(s), s \div TopK>>
    BY <2>0 DEF RowsInv, Multiplied
  <2>2. ASSUME NEW k \in 0 .. TopK - 1
        PROVE  /\ perm[t * TopK + k] # -1 <=> ExpertOf(t * TopK + k) # -1
               /\ ExpertOf(t * TopK + k) # -1 =>
                    /\ perm[t * TopK + k] \in Row
                    /\ result[perm[t * TopK + k]] = <<ExpertOf(t * TopK + k), t>>
    <3>1. PICK s \in Slot : s = t * TopK + k /\ s \div TopK = t
      BY TokenFacts
    <3>2. ExpertOf(s) # -1 => perm[s] \in Row /\ perm[s] # -1
      <4>1. -1 \notin Row
        BY Ranges DEF Row, Slot
      <4> QED BY <2>1, <4>1, EndOfRemap
    <3>3. ExpertOf(s) = -1 => perm[s] = -1
      BY <2>1, EndOfRemap DEF RowOf
    <3> QED BY <2>1, <3>1, <3>2, <3>3
  <2>3. {<<k, IF perm[t * TopK + k] \in Row THEN result[perm[t * TopK + k]] ELSE <<>>>> :
           k \in {k \in 0 .. TopK - 1 : perm[t * TopK + k] # -1}}
        = {<<c[1], <<c[2], t>>>> : c \in Routing[t]}
    <3> DEFINE sent == {k \in 0 .. TopK - 1 : ExpertOf(t * TopK + k) # -1}
               A == {<<k, IF perm[t * TopK + k] \in Row THEN result[perm[t * TopK + k]] ELSE <<>>>> :
                       k \in sent}
               B == {<<k, <<ExpertOf(t * TopK + k), t>>>> : k \in sent}
    <3>1. {k \in 0 .. TopK - 1 : perm[t * TopK + k] # -1} = sent
      BY <2>2
    <3>2. A = B
      BY <2>2
    <3>3. Routing[t] = {<<k, ExpertOf(t * TopK + k)>> : k \in sent}
      BY DEF Routing
    <3>4. {<<c[1], <<c[2], t>>>> : c \in Routing[t]} = B
      <4> DEFINE C == {<<k, ExpertOf(t * TopK + k)>> : k \in sent}
      <4>1. \A c \in C : \E k \in sent : c[1] = k /\ c[2] = ExpertOf(t * TopK + k)
        OBVIOUS
      <4>2. \A k \in sent : \E c \in C : c[1] = k /\ c[2] = ExpertOf(t * TopK + k)
        <5> TAKE k \in sent
        <5> DEFINE c0 == <<k, ExpertOf(t * TopK + k)>>
        <5>1. c0 \in C /\ c0[1] = k /\ c0[2] = ExpertOf(t * TopK + k)
          OBVIOUS
        <5> QED BY <5>1
      <4>3. Routing[t] = C
        BY <3>3
      <4> HIDE DEF C, sent
      <4>4. {<<c[1], <<c[2], t>>>> : c \in C} \subseteq B
        BY <4>1
      <4>5. B \subseteq {<<c[1], <<c[2], t>>>> : c \in C}
        BY <4>2
      <4> QED BY <4>3, <4>4, <4>5
    <3> QED BY <3>1, <3>2, <3>4
  <2>4. Routing' = Routing
    BY <2>0, RoutingKept
  <2> QED BY <2>0, <2>3, <2>4 DEF Layer!Answer, Routing
<1> QED BY <1>1, <1>2 DEF Next

(* The layer, as its kernels run it, gives every token what MoeLayer       *)
(* promises: the results of its experts on this device, once, and of no    *)
(* other token or expert (XpuFusedMoe.apply).                              *)
THEOREM LayerImplemented == Spec => LayerKept
<1>1. Init => Layer!LayerInit
  BY DEF Init, Layer!LayerInit
<1>2. IInv /\ RowsInv /\ [Next]_vars => [\E t \in Token : Layer!Answer(t)]_<<Routing, output>>
  BY LayerStep
<1> QED BY <1>1, <1>2, AllKept, PTL DEF Spec, LayerKept, Layer!LayerSpec, Routing

-----------------------------------------------------------------------------
(* The maps of the devices share out the experts: each is on exactly one   *)
(* (init_expert_map).                                                      *)
THEOREM MapsPartition ==
  ASSUME NEW devices \in Nat, TotalExperts = devices * LocalExperts,
         NEW e \in 0 .. TotalExperts - 1
  PROVE  \E rank \in 0 .. devices - 1 :
           /\ InitExpertMap(rank)[e] = e % LocalExperts
           /\ \A other \in 0 .. devices - 1 : other # rank => InitExpertMap(other)[e] = -1
<1> DEFINE home == e \div LocalExperts
<1>1. e \in Nat /\ LocalExperts \in Nat \ {0} /\ home \in 0 .. devices - 1
  BY SizeAssumption, QuotientBelow
<1>2. PICK q \in Nat, r \in 0 .. LocalExperts - 1 :
        e = (q * LocalExperts) + r /\ q = home /\ r = e % LocalExperts
  BY <1>1, DivMod
<1>3. (q + 1) * LocalExperts = (q * LocalExperts) + LocalExperts
  BY <1>1
<1>4. InitExpertMap(q)[e] = r
  <2>1. e \in q * LocalExperts .. (q + 1) * LocalExperts - 1 /\ e - (q * LocalExperts) = r
    BY <1>1, <1>2, <1>3
  <2> QED BY <2>1 DEF InitExpertMap
<1>5. ASSUME NEW other \in 0 .. devices - 1, other # q
      PROVE  InitExpertMap(other)[e] = -1
  <2>1. ASSUME e \in other * LocalExperts .. (other + 1) * LocalExperts - 1 PROVE FALSE
    <3>1. PICK d \in Nat : e = (other * LocalExperts) + d /\ d \in 0 .. LocalExperts - 1
      <4>1. (other + 1) * LocalExperts = (other * LocalExperts) + LocalExperts
            /\ other * LocalExperts \in Nat
        BY <1>1
      <4> WITNESS e - (other * LocalExperts) \in Nat
      <4> QED BY <1>1, <2>1, <4>1
    <3>2. ((other * LocalExperts) + d) \div LocalExperts = other
      BY <1>1, <3>1, DivModUnique
    <3> QED BY <1>2, <1>5, <3>1, <3>2
  <2> QED BY <2>1 DEF InitExpertMap
<1> QED BY <1>1, <1>2, <1>4, <1>5
=============================================================================
