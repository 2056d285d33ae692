--------------------------- MODULE MoeAlignProofs ---------------------------
(***************************************************************************)
(* Both forms of moe_align_block_size, for any number of experts, slots,   *)
(* adapters and work-items: in whatever order the work-items run, every    *)
(* slot is stored once in a block of its expert, blocks and totals come    *)
(* out right, and no row of an inactive adapter is written.                *)
(***************************************************************************)
EXTENDS MoeAlignOp, NatLemmas, FiniteSetTheorems

(* What RoutingAssumption and the choice of inputs make of routed. *)
RoutedOK ==
  /\ routed.topk \in [AlignSlot -> Int]
  /\ routed.map \in [AlignExpert -> AlignExpert \cup {-1}]
  /\ routed.multi \in BOOLEAN
  /\ routed.ids \in [Entry -> Int]
  /\ routed.lora \in [AlignToken -> Int]
  /\ routed.enabled \in [Model -> BOOLEAN]
  /\ \A x, y \in Entry : routed.ids[x] = routed.ids[y] /\ x # y => routed.ids[x] \notin Model

Live(x) == x \in Entry /\ ~Skipped(x)

(* The slots of an expert, where its range starts, and how many they are.  *)
SlotsOf(m, e) == Served(m)[e]
Start(m, e) == StartsOf(m)[e]
Share(m, e) == Cardinality(Served(m)[e])
Wanted(m) == [t \in AlignToken |-> IF routed.multi => routed.lora[t] = m THEN 1 ELSE 0]

-----------------------------------------------------------------------------
LEMMA Sizes ==
  /\ NumExperts \in Nat \ {0} /\ BlockSize \in Nat \ {0} /\ TopkNum \in Nat \ {0}
  /\ Numel \in Nat /\ MaxPadded \in Nat /\ MaxLoras \in Nat \ {0} /\ Junk \in Int
  /\ Numel % TopkNum = 0
BY RoutingAssumption

LEMMA PaddedFacts ==
  ASSUME NEW n \in Nat
  PROVE  /\ Padded(n) \in Nat /\ n <= Padded(n)
         /\ Padded(n) <= n + (BlockSize - 1) /\ Padded(n) <= n * BlockSize
         /\ \E q \in Nat : Padded(n) = q * BlockSize
<1>0. BlockSize \in Nat \ {0}
  BY Sizes
<1>1. PICK a \in Nat : a = n + BlockSize - 1 /\ n = (a - BlockSize) + 1 /\ a >= BlockSize - 1
  BY <1>0
<1>2. PICK q \in Nat, r \in 0 .. BlockSize - 1 : q = a \div BlockSize /\ a = (q * BlockSize) + r
  BY <1>0, <1>1, DivMod
<1>3. Padded(n) = q * BlockSize
  BY <1>1, <1>2 DEF Padded, CeilDiv
<1>4. PICK p \in Nat : p = q * BlockSize
  BY <1>0
<1>5. p <= n + (BlockSize - 1) /\ n <= p
  BY <1>0, <1>1, <1>2, <1>4
<1>6. p <= n * BlockSize
  <2>1. CASE n = 0
    <3>1. a < BlockSize
      BY <1>0, <1>1, <2>1
    <3>2. ASSUME q >= 1 PROVE FALSE
      <4>1. PICK d \in Nat : q = d + 1
        BY <3>2
      <4>2. q * BlockSize = (d * BlockSize) + BlockSize /\ d * BlockSize >= 0
        BY <1>0, <4>1
      <4>3. PICK z \in Nat : z = d * BlockSize
        BY <1>0, <4>1
      <4>4. a = (z + BlockSize) + r
        BY <1>2, <4>2, <4>3
      <4> QED BY <1>0, <1>2, <3>1, <4>3, <4>4
    <3>3. q = 0
      BY <3>2
    <3> QED BY <1>0, <1>4, <2>1, <3>3
  <2>2. CASE n # 0
    <3>1. PICK d \in Nat : n = d + 1
      BY <2>2
    <3>2. n * BlockSize = (d * BlockSize) + BlockSize /\ d * BlockSize >= d
      BY <1>0, <3>1
    <3> QED BY <1>0, <1>5, <3>1, <3>2
  <2> QED BY <2>1, <2>2
<1> QED BY <1>3, <1>4, <1>5, <1>6

LEMMA SlotToken ==
  ASSUME NEW i \in AlignSlot
  PROVE  i \in Nat /\ i < Numel /\ i \div TopkNum \in AlignToken
<1>1. i \in Nat /\ i < Numel /\ TopkNum \in Nat \ {0} /\ Numel \in Nat
  BY Sizes DEF AlignSlot
<1>2. PICK n \in Nat : Numel \div TopkNum = n /\ Numel = n * TopkNum
  <2>1. Numel \div TopkNum \in Nat /\ Numel = ((Numel \div TopkNum) * TopkNum) + (Numel % TopkNum)
    BY <1>1, DivMod
  <2> QED BY <2>1, Sizes
<1>3. i \div TopkNum \in 0 .. n - 1
  <2>1. i \in 0 .. (n * TopkNum) - 1
    BY <1>1, <1>2
  <2> QED BY <1>1, <2>1, QuotientBelow
<1> QED BY <1>1, <1>2, <1>3 DEF AlignToken

LEMMA ServedFacts ==
  ASSUME RoutedOK, NEW m
  PROVE  /\ \A i \in AlignSlot : ServedBy(i) \in AlignExpert \cup {-1}
         /\ \A e \in AlignExpert : e \in Nat /\ e < NumExperts
         /\ \A e \in AlignExpert, i \in AlignSlot :
              i \in SlotsOf(m, e) <=> ServedBy(i) = e /\ Wanted(m)[i \div TopkNum] = 1
         /\ \A e \in AlignExpert : SlotsOf(m, e) \subseteq AlignSlot
         /\ \A t \in AlignToken : Wanted(m)[t] \in {0, 1}
         /\ \A i \in AlignSlot : Valid(i) <=> ServedBy(i) \in AlignExpert
<1>1. ASSUME NEW i \in AlignSlot PROVE ServedBy(i) \in AlignExpert \cup {-1}
  BY DEF RoutedOK, ServedBy
<1>2. \A e \in AlignExpert : e \in Nat /\ e < NumExperts
  BY Sizes DEF AlignExpert
<1>3. \A t \in AlignToken : Wanted(m)[t] = (IF routed.multi => routed.lora[t] = m THEN 1 ELSE 0)
  BY DEF Wanted
<1>4. ASSUME NEW e \in AlignExpert, NEW i \in AlignSlot
      PROVE  i \in SlotsOf(m, e) <=> ServedBy(i) = e /\ Wanted(m)[i \div TopkNum] = 1
  <2>1. i \div TopkNum \in AlignToken
    BY SlotToken
  <2>2. SlotsOf(m, e) = {j \in AlignSlot : ServedBy(j) = e /\ (routed.multi => routed.lora[j \div TopkNum] = m)}
    BY DEF SlotsOf, Served
  <2>3. Wanted(m)[i \div TopkNum] = 1 <=> (routed.multi => routed.lora[i \div TopkNum] = m)
    BY <1>3, <2>1
  <2> QED BY <2>2, <2>3, Zenon
<1>5. \A e \in AlignExpert : SlotsOf(m, e) \subseteq AlignSlot
  BY DEF SlotsOf, Served
<1>6. \A i \in AlignSlot : Valid(i) <=> ServedBy(i) \in AlignExpert
  <2>1. -1 \notin AlignExpert
    BY <1>2
  <2> QED BY <1>1, <2>1 DEF Valid
<1> QED BY <1>1, <1>2, <1>3, <1>4, <1>5, <1>6

LEMMA ShareFacts ==
  ASSUME RoutedOK, NEW m, NEW e \in AlignExpert
  PROVE  IsFiniteSet(SlotsOf(m, e)) /\ Share(m, e) \in Nat
<1>1. Numel \in Nat /\ IsFiniteSet(AlignSlot)
  <2>1. Numel - 1 \in Int /\ 0 \in Int
    BY Sizes
  <2> QED BY <2>1, Sizes, FS_Interval DEF AlignSlot
<1>2. SlotsOf(m, e) \in SUBSET AlignSlot
  BY ServedFacts
<1>3. IsFiniteSet(SlotsOf(m, e))
  BY <1>1, <1>2, FS_Subset
<1> QED BY <1>3, FS_CardinalityType DEF Share, SlotsOf

(* Where the ranges of the experts lie.                                    *)
LEMMA Layout ==
  ASSUME RoutedOK, NEW m
  PROVE  /\ Start(m, 0) = 0
         /\ \A e \in 0 .. NumExperts : Start(m, e) \in Nat
         /\ \A e \in AlignExpert : Start(m, e + 1) = Start(m, e) + Padded(Share(m, e))
         /\ \A d, e \in 0 .. NumExperts : d <= e => Start(m, d) <= Start(m, e)
         /\ \A e \in 0 .. NumExperts : \E q \in Nat : Start(m, e) = q * BlockSize
<1> DEFINE c == [e \in AlignExpert |-> Share(m, e)]
           h == [n \in Nat |-> Padded(c[n])]
           N == NumExperts
<1>0. N \in Nat \ {0} /\ BlockSize \in Nat \ {0} /\ AlignExpert = 0 .. N - 1
  BY Sizes DEF AlignExpert
<1>1. \A n \in 0 .. N - 1 : h[n] = Padded(Share(m, n)) /\ h[n] \in Nat
  <2>1. ASSUME NEW n \in 0 .. N - 1 PROVE h[n] = Padded(Share(m, n)) /\ h[n] \in Nat
    <3>1. n \in Nat /\ n \in AlignExpert /\ Share(m, n) \in Nat
      BY <1>0, ShareFacts
    <3>2. Padded(Share(m, n)) \in Nat
      BY <3>1, PaddedFacts
    <3> QED BY <3>1, <3>2
  <2> QED BY <2>1
<1>2. \E g : RunningSum(g, h)
  BY SumExists
<1> DEFINE G(g) == [n \in Nat |-> IF n = 0 THEN 0 ELSE g[n - 1] + Padded(c[n - 1])]
           s == CHOOSE g : g = G(g)
<1>3. Starts(c) = [e \in 0 .. N |-> s[e]]
  BY DEF Starts
<1>4. \A g : RunningSum(g, h) => g = G(g)
  <2>1. ASSUME NEW g, RunningSum(g, h) PROVE g = G(g)
    <3>1. g = [n \in Nat |-> IF n = 0 THEN 0 ELSE g[n - 1] + h[n - 1]]
      BY <2>1, Zenon DEF RunningSum
    <3>2. \A n \in Nat : n # 0 => h[n - 1] = Padded(c[n - 1])
      OBVIOUS
    <3>3. \A n \in Nat : (IF n = 0 THEN 0 ELSE g[n - 1] + h[n - 1]) = (IF n = 0 THEN 0 ELSE g[n - 1] + Padded(c[n - 1]))
      BY <3>2
    <3> HIDE DEF h, c
    <3> QED BY <3>1, <3>3
  <2> QED BY <2>1
<1>5. s = G(s)
  <2>1. \E g : g = G(g)
    BY <1>2, <1>4, Zenon
  <2> HIDE DEF G
  <2> QED BY <2>1, Zenon
<1>6. RunningSum(s, h)
  <2>1. s = [n \in Nat |-> IF n = 0 THEN 0 ELSE s[n - 1] + Padded(c[n - 1])]
    BY <1>5, Zenon
  <2> HIDE DEF s
  <2>2. \A n \in Nat : (IF n = 0 THEN 0 ELSE s[n - 1] + Padded(c[n - 1])) = (IF n = 0 THEN 0 ELSE s[n - 1] + h[n - 1])
    <3>1. \A n \in Nat : n # 0 => h[n - 1] = Padded(c[n - 1])
      OBVIOUS
    <3> HIDE DEF h, c
    <3> QED BY <3>1
  <2> HIDE DEF h, c
  <2>3. s = [n \in Nat |-> IF n = 0 THEN 0 ELSE s[n - 1] + h[n - 1]]
    BY <2>1, <2>2
  <2> QED BY <2>3, Zenon DEF RunningSum
<1>7. \A e \in 0 .. N : Start(m, e) = s[e]
  <2>1. c = [e \in AlignExpert |-> Cardinality(Served(m)[e])]
    BY DEF Share
  <2>2. StartsOf(m) = Starts(c)
    BY <2>1, Zenon DEF StartsOf
  <2> HIDE DEF s, c
  <2> QED BY <1>3, <2>2 DEF Start
<1> HIDE DEF s, h, c
<1>8. /\ s[0] = 0 /\ \A n \in 0 .. N : s[n] \in Nat
      /\ \A n \in 0 .. N - 1 : s[n + 1] = s[n] + h[n]
  BY <1>0, <1>1, <1>6, RunningSumFacts
<1>9. ASSUME NEW d \in 0 .. N, NEW e \in 0 .. N, d <= e PROVE s[d] <= s[e]
  <2>1. \A n \in d .. N : s[d] <= s[n]
    BY <1>0, <1>1, <1>6, RunningSumMonotone
  <2> QED BY <1>9, <2>1
<1> DEFINE T == {n \in Nat : n <= N => \E q \in Nat : s[n] = q * BlockSize}
<1>t. ASSUME NEW n \in Nat, n \in T, n <= N PROVE \E q \in Nat : s[n] = q * BlockSize
  BY <1>t
<1>10. 0 \in T
  BY <1>0, <1>8
<1>u. ASSUME NEW n \in Nat, n <= N => \E q \in Nat : s[n] = q * BlockSize PROVE n \in T
  BY <1>u
<1> HIDE DEF T
<1>11. ASSUME NEW n \in Nat, n \in T PROVE n + 1 \in T
  <2> SUFFICES ASSUME n + 1 <= N PROVE \E q \in Nat : s[n + 1] = q * BlockSize
    BY <1>u
  <2>1. n \in 0 .. N - 1 /\ n \in AlignExpert /\ n <= N
    BY <1>0
  <2>2. PICK q \in Nat : s[n] = q * BlockSize
    BY <1>t, <1>11, <2>1
  <2>3. PICK p \in Nat : h[n] = p * BlockSize
    <3>1. h[n] = Padded(Share(m, n)) /\ Share(m, n) \in Nat
      BY <1>1, <2>1, ShareFacts
    <3> QED BY <3>1, PaddedFacts
  <2>4. q + p \in Nat /\ (q + p) * BlockSize = (q * BlockSize) + (p * BlockSize)
    BY <1>0
  <2>5. s[n + 1] = (q + p) * BlockSize
    BY <1>8, <2>1, <2>2, <2>3, <2>4
  <2> QED BY <2>4, <2>5
<1>12. Nat \subseteq T
  BY <1>10, <1>11, NatInduct, Zenon
<1>13. ASSUME NEW e \in 0 .. N PROVE \E q \in Nat : s[e] = q * BlockSize
  <2>1. e \in Nat /\ e <= N
    BY <1>0
  <2> QED BY <1>12, <1>t, <2>1
<1>14. \A e \in AlignExpert : e \in 0 .. N /\ e + 1 \in 0 .. N /\ e \in 0 .. N - 1
  BY <1>0
<1>15. \A e \in AlignExpert : Start(m, e + 1) = Start(m, e) + Padded(Share(m, e))
  BY <1>1, <1>7, <1>8, <1>14
<1>16. ASSUME NEW e \in 0 .. N PROVE \E q \in Nat : Start(m, e) = q * BlockSize
  BY <1>7, <1>13
<1>17. Start(m, 0) = 0 /\ \A e \in 0 .. N : Start(m, e) \in Nat
  BY <1>0, <1>7, <1>8
<1>18. \A d, e \in 0 .. N : d <= e => Start(m, d) <= Start(m, e)
  BY <1>7, <1>9
<1> QED BY <1>15, <1>16, <1>17, <1>18

(* The ranges fit in what the caller reserved.                             *)
LEMMA LayoutFits ==
  ASSUME RoutedOK, NEW m
  PROVE  Start(m, NumExperts) <= MaxPadded
<1> DEFINE U(n) == {i \in AlignSlot : ServedBy(i) < n /\ \E e \in AlignExpert : i \in SlotsOf(m, e)}
           N == NumExperts
           T == {n \in Nat : n <= N => /\ IsFiniteSet(U(n))
                                       /\ Start(m, n) <= Cardinality(U(n)) + (n * (BlockSize - 1))
                                       /\ Start(m, n) <= Cardinality(U(n)) * BlockSize}
<1>0. N \in Nat \ {0} /\ BlockSize \in Nat \ {0} /\ AlignExpert = 0 .. N - 1 /\ Numel \in Nat
  BY Sizes DEF AlignExpert
<1>a. \A n \in 0 .. N : Start(m, n) \in Nat
  BY Layout
<1>b. \A e \in AlignExpert, i \in AlignSlot : i \in SlotsOf(m, e) => ServedBy(i) = e
  BY ServedFacts
<1>c. IsFiniteSet(AlignSlot) /\ Cardinality(AlignSlot) = Numel
  <2>1. Numel - 1 \in Int /\ 0 \in Int
    BY <1>0
  <2>2. IsFiniteSet(0 .. Numel - 1) /\ Cardinality(0 .. Numel - 1) = IF 0 > Numel - 1 THEN 0 ELSE (Numel - 1) - 0 + 1
    BY <2>1, FS_Interval
  <2> QED BY <1>0, <2>2 DEF AlignSlot
<1>d. \A n : IsFiniteSet(U(n)) /\ Cardinality(U(n)) \in Nat /\ Cardinality(U(n)) <= Numel
  <2> TAKE n
  <2>1. U(n) \in SUBSET AlignSlot
    OBVIOUS
  <2> HIDE DEF U
  <2> QED BY <1>c, <2>1, FS_Subset, FS_CardinalityType
<1>e. \A n, i : i \in U(n) <=> i \in AlignSlot /\ ServedBy(i) < n /\ \E e \in AlignExpert : i \in SlotsOf(m, e)
  OBVIOUS
<1> HIDE DEF U
<1>t. ASSUME NEW n \in Nat, n \in T, n <= N
      PROVE  /\ Start(m, n) <= Cardinality(U(n)) + (n * (BlockSize - 1))
             /\ Start(m, n) <= Cardinality(U(n)) * BlockSize
  BY <1>t
<1>1. 0 \in T
  <2>1. PICK u \in Nat, B \in Nat : u = Cardinality(U(0)) /\ B = BlockSize - 1
    BY <1>0, <1>d
  <2>2. 0 * B = 0 /\ u * BlockSize >= 0 /\ u + 0 >= 0
    BY <1>0, <2>1
  <2>3. Start(m, 0) = 0
    BY Layout
  <2> QED BY <1>d, <2>1, <2>2, <2>3
<1>2. ASSUME NEW n \in Nat, n \in T PROVE n + 1 \in T
  <2> SUFFICES ASSUME n + 1 <= N
               PROVE  /\ Start(m, n + 1) <= Cardinality(U(n + 1)) + ((n + 1) * (BlockSize - 1))
                      /\ Start(m, n + 1) <= Cardinality(U(n + 1)) * BlockSize
    BY <1>d
  <2>1. n \in AlignExpert /\ n <= N /\ n \in 0 .. N
    BY <1>0
  <2>2. U(n + 1) = U(n) \cup SlotsOf(m, n) /\ U(n) \cap SlotsOf(m, n) = {}
    <3>1. \A i \in AlignSlot : ServedBy(i) \in AlignExpert \cup {-1}
      BY ServedFacts
    <3>2. ASSUME NEW i \in U(n + 1) PROVE i \in U(n) \cup SlotsOf(m, n)
      <4>0. i \in AlignSlot /\ ServedBy(i) < n + 1 /\ \E e \in AlignExpert : i \in SlotsOf(m, e)
        BY <1>e
      <4>1. PICK e \in AlignExpert : i \in SlotsOf(m, e) /\ ServedBy(i) = e
        BY <1>b, <4>0
      <4>2. e \in Nat /\ e < n + 1
        BY <1>0, <4>0, <4>1
      <4>3. e = n \/ e < n
        BY <4>2
      <4> QED BY <1>e, <4>0, <4>1, <4>3
    <3>3. SlotsOf(m, n) \subseteq AlignSlot /\ \A i \in SlotsOf(m, n) : ServedBy(i) = n
      BY <1>b, <2>1, ServedFacts
    <3>4. U(n) \subseteq U(n + 1)
      <4>1. ASSUME NEW i \in U(n) PROVE i \in U(n + 1)
        <5>0. i \in AlignSlot /\ ServedBy(i) < n /\ \E e \in AlignExpert : i \in SlotsOf(m, e)
          BY <1>e
        <5>1. PICK e \in AlignExpert : i \in SlotsOf(m, e) /\ ServedBy(i) = e
          BY <1>b, <5>0
        <5>2. e < n /\ e \in Nat
          BY <1>0, <5>0, <5>1
        <5>3. ServedBy(i) < n + 1
          BY <5>1, <5>2
        <5> QED BY <1>e, <5>0, <5>3
      <4> QED BY <4>1
    <3>7. ~(n < n) /\ n < n + 1
      OBVIOUS
    <3>5. SlotsOf(m, n) \subseteq U(n + 1)
      BY <1>e, <2>1, <3>3, <3>7
    <3>6. \A i \in U(n) : ServedBy(i) < n
      BY <1>e
    <3>8. U(n) \cap SlotsOf(m, n) = {}
      BY <3>3, <3>6, <3>7
    <3> QED BY <3>2, <3>4, <3>5, <3>8
  <2>3. IsFiniteSet(SlotsOf(m, n)) /\ Share(m, n) = Cardinality(SlotsOf(m, n)) /\ Share(m, n) \in Nat
    BY <2>1, ShareFacts DEF Share, SlotsOf
  <2>4. Start(m, n) <= Cardinality(U(n)) + (n * (BlockSize - 1)) /\ Start(m, n) <= Cardinality(U(n)) * BlockSize
    BY <1>t, <1>2, <2>1
  <2>5. Start(m, n + 1) = Start(m, n) + Padded(Share(m, n))
    BY <2>1, Layout
  <2>d. IsFiniteSet(U(n))
    BY <1>d
  <2>6. Cardinality(U(n + 1)) = Cardinality(U(n)) + Share(m, n)
    <3>1. Cardinality(U(n) \cup SlotsOf(m, n)) = Cardinality(U(n)) + Cardinality(SlotsOf(m, n)) - Cardinality(U(n) \cap SlotsOf(m, n))
      BY <2>d, <2>3, FS_Union
    <3>2. Cardinality(U(n) \cap SlotsOf(m, n)) = 0
      BY <2>2, FS_EmptySet
    <3>3. PICK a \in Nat, b \in Nat : a = Cardinality(U(n)) /\ b = Cardinality(SlotsOf(m, n))
      BY <1>d, <2>3
    <3>4. Cardinality(U(n) \cup SlotsOf(m, n)) = a + b
      BY <3>1, <3>2, <3>3
    <3> QED BY <2>2, <2>3, <3>3, <3>4
  <2>7. PICK u \in Nat, k \in Nat, s \in Nat, p \in Nat, B \in Nat :
          /\ u = Cardinality(U(n)) /\ k = Share(m, n) /\ s = Start(m, n) /\ p = Padded(Share(m, n))
          /\ B = BlockSize - 1 /\ BlockSize = B + 1
    <3>1. Padded(Share(m, n)) \in Nat
      BY <2>3, PaddedFacts
    <3> QED BY <1>0, <1>a, <1>d, <2>1, <2>3, <3>1
  <2>8. p <= k + B /\ p <= k * BlockSize
    BY <2>7, PaddedFacts
  <2>9. PICK z \in Nat, w \in Nat, v \in Nat : z = n * B /\ w = u * BlockSize /\ v = k * BlockSize
    <3>1. \A a, b \in Nat : a * b \in Nat
      OBVIOUS
    <3> QED BY <1>0, <2>7, <3>1
  <2>10. (n + 1) * B = z + B /\ (u + k) * BlockSize = w + v
    BY <1>0, <2>7, <2>9
  <2>11. s <= u + z /\ s <= w
    BY <2>4, <2>7, <2>9
  <2>12. s + p <= (u + k) + (z + B) /\ s + p <= w + v
    BY <2>7, <2>8, <2>9, <2>11
  <2> QED BY <2>5, <2>6, <2>7, <2>10, <2>12
<1> HIDE DEF T
<1>3. N \in T
  <2>1. Nat \subseteq T
    BY <1>1, <1>2, NatInduct, Zenon
  <2> QED BY <1>0, <2>1
<1>4. PICK u \in Nat, s \in Nat, z \in Nat, w \in Nat, v \in Nat :
        /\ u = Cardinality(U(N)) /\ s = Start(m, N) /\ z = N * (BlockSize - 1)
        /\ w = u * BlockSize /\ v = Numel * BlockSize
  BY <1>0, <1>a, <1>d
<1>5. s <= u + z /\ s <= w /\ u <= Numel
  BY <1>0, <1>t, <1>3, <1>4, <1>d
<1>6. w <= v
  <2>1. PICK d \in Nat : Numel = u + d
    BY <1>0, <1>5
  <2>2. PICK y \in Nat : y = d * BlockSize
    BY <1>0
  <2>3. (u + d) * BlockSize = (u * BlockSize) + y
    BY <1>0, <2>1, <2>2
  <2> QED BY <1>4, <2>1, <2>2, <2>3
<1>7. Numel + z <= MaxPadded \/ v <= MaxPadded
  BY <1>4, RoomAssumption
<1> QED BY <1>0, <1>4, <1>5, <1>6, <1>7, Sizes

(* The blocks work-item t names where there are n of them.                 *)
Mine(m, t) == {b \in Block : t < NumExperts /\ b * BlockSize >= Start(m, t) /\ b * BlockSize < Start(m, t + 1)}
Rest(m, t, n) ==
  {b \in Block : \E k \in 0 .. Blocks : b = Start(m, NumExperts) \div BlockSize + t + k * n}
Owner(m, b) ==
  {e \in AlignExpert : b * BlockSize \in StartsOf(m)[e] .. StartsOf(m)[e + 1] - 1}

(* Every position before the end lies in the range of an expert, and of    *)
(* one only.                                                               *)
LEMMA Covered ==
  ASSUME RoutedOK, NEW m, NEW p \in Nat, p < Start(m, NumExperts)
  PROVE  \E e \in AlignExpert : Start(m, e) <= p /\ p < Start(m, e + 1)
<1> DEFINE N == NumExperts
           R(e) == Start(m, e) <= p /\ p < Start(m, e + 1)
           T == {n \in Nat : n <= N /\ p < Start(m, n) => \E e \in AlignExpert : R(e)}
<1>0. N \in Nat \ {0} /\ AlignExpert = 0 .. N - 1
  BY Sizes DEF AlignExpert
<1>1. Start(m, 0) = 0 /\ \A n \in 0 .. N : Start(m, n) \in Nat
  BY Layout
<1>2. ASSUME NEW n \in Nat, n \in T, n <= N, p < Start(m, n) PROVE \E e \in AlignExpert : R(e)
  BY <1>2
<1>3. 0 \in T
  BY <1>1
<1>u. ASSUME NEW n \in Nat, n <= N /\ p < Start(m, n) => \E e \in AlignExpert : R(e) PROVE n \in T
  BY <1>u
<1> HIDE DEF T
<1>4. ASSUME NEW n \in Nat, n \in T PROVE n + 1 \in T
  <2> SUFFICES ASSUME n + 1 <= N, p < Start(m, n + 1) PROVE \E e \in AlignExpert : R(e)
    BY <1>u
  <2>1. n \in AlignExpert /\ n <= N /\ Start(m, n) \in Nat
    BY <1>0, <1>1
  <2>2. CASE p < Start(m, n)
    BY <1>2, <1>4, <2>1, <2>2
  <2>3. CASE ~(p < Start(m, n))
    <3>1. R(n)
      BY <2>1, <2>3
    <3> QED BY <2>1, <3>1
  <2> QED BY <2>2, <2>3
<1>5. N \in T
  <2>1. Nat \subseteq T
    BY <1>3, <1>4, NatInduct, Zenon
  <2> QED BY <1>0, <2>1
<1>6. N <= N
  BY <1>0
<1> QED BY <1>0, <1>2, <1>5, <1>6

LEMMA RangesApart ==
  ASSUME RoutedOK, NEW m, NEW p \in Int, NEW d \in AlignExpert, NEW e \in AlignExpert,
         Start(m, d) <= p, p < Start(m, d + 1), Start(m, e) <= p, p < Start(m, e + 1)
  PROVE  d = e
<1>0. NumExperts \in Nat \ {0} /\ AlignExpert = 0 .. NumExperts - 1
  BY Sizes DEF AlignExpert
<1>1. \A c \in AlignExpert : /\ c \in Nat /\ c \in 0 .. NumExperts /\ c + 1 \in 0 .. NumExperts
                             /\ Start(m, c) \in Nat /\ Start(m, c + 1) \in Nat
  <2>1. ASSUME NEW c \in AlignExpert PROVE c \in Nat /\ c \in 0 .. NumExperts /\ c + 1 \in 0 .. NumExperts
    BY <1>0
  <2> QED BY <2>1, Layout
<1>2. \A a, b \in AlignExpert : a < b => Start(m, a + 1) <= Start(m, b)
  <2>1. ASSUME NEW a \in AlignExpert, NEW b \in AlignExpert, a < b PROVE Start(m, a + 1) <= Start(m, b)
    <3>1. a + 1 \in 0 .. NumExperts /\ b \in 0 .. NumExperts /\ a + 1 <= b
      BY <1>0, <2>1
    <3> QED BY <3>1, Layout
  <2> QED BY <2>1
<1>3. ~(d < e) /\ ~(e < d)
  BY <1>1, <1>2
<1> QED BY <1>1, <1>3

LEMMA BlocksAre ==
  /\ Blocks \in Nat /\ Block = 0 .. Blocks - 1
  /\ \A p \in Nat : p < MaxPadded => p \div BlockSize \in Block /\ p \in Position
<1>0. BlockSize \in Nat \ {0} /\ MaxPadded \in Nat
  BY Sizes
<1>1. PICK a \in Nat : a = MaxPadded + BlockSize - 1
  BY <1>0
<1>2. a \div BlockSize \in Nat
  BY <1>0, <1>1, DivMod
<1>3. Blocks = (MaxPadded + BlockSize - 1) \div BlockSize
  BY DEF Blocks, CeilDiv
<1>4. ASSUME NEW p \in Nat, p < MaxPadded
      PROVE  p \div BlockSize \in Block /\ p \in Position
  <2>1. p \in 0 .. MaxPadded - 1
    BY <1>0, <1>4
  <2>2. p \div BlockSize \in 0 .. (MaxPadded + BlockSize - 1) \div BlockSize - 1
    BY <1>0, <2>1, GroupBound
  <2> QED BY <1>3, <2>1, <2>2 DEF Block, Position
<1> QED BY <1>1, <1>2, <1>3, <1>4 DEF Block

(* A position an expert's slots take, and its block.                       *)
LEMMA PositionOf ==
  ASSUME RoutedOK, NEW m, NEW e \in AlignExpert, NEW p \in Int,
         Start(m, e) <= p, p < Start(m, e + 1)
  PROVE  p \in Position /\ p \div BlockSize \in Block /\ p \div BlockSize \in Mine(m, e)
<1>0. BlockSize \in Nat \ {0} /\ NumExperts \in Nat \ {0} /\ e \in Nat /\ e < NumExperts
      /\ e \in 0 .. NumExperts /\ e + 1 \in 0 .. NumExperts /\ NumExperts \in 0 .. NumExperts
      /\ e + 1 <= NumExperts
  BY Sizes DEF AlignExpert
<1>1. Start(m, e) \in Nat /\ Start(m, e + 1) \in Nat /\ Start(m, NumExperts) \in Nat
      /\ Start(m, e + 1) <= Start(m, NumExperts)
  BY <1>0, Layout
<1>2. p \in Nat /\ p < MaxPadded
  BY <1>1, LayoutFits, Sizes
<1>3. PICK q \in Nat : Start(m, e) = q * BlockSize
  BY <1>0, Layout
<1>4. PICK b \in Nat, r \in 0 .. BlockSize - 1 : b = p \div BlockSize /\ p = (b * BlockSize) + r
  BY <1>0, <1>2, DivMod
<1>5. q <= b
  <2>1. ASSUME b < q PROVE FALSE
    <3>1. PICK d \in Nat : q = (b + 1) + d
      BY <2>1
    <3>2. PICK z \in Nat, y \in Nat : z = d * BlockSize /\ y = b * BlockSize
      <4>1. \A u, v \in Nat : u * v \in Nat
        OBVIOUS
      <4> QED BY <1>0, <4>1
    <3>3. q * BlockSize = (y + BlockSize) + z
      BY <1>0, <3>1, <3>2
    <3> QED BY <1>0, <1>3, <1>4, <3>2, <3>3
  <2> QED BY <2>1
<1>6. PICK y \in Nat, z \in Nat : y = q * BlockSize /\ z = b * BlockSize /\ y <= z
  <2>1. PICK d \in Nat : b = q + d
    BY <1>5
  <2>2. b * BlockSize = (q * BlockSize) + (d * BlockSize) /\ q * BlockSize \in Nat /\ d * BlockSize \in Nat
    BY <1>0, <2>1
  <2>3. b * BlockSize \in Nat /\ q * BlockSize <= b * BlockSize
    BY <2>2
  <2> QED BY <2>2, <2>3
<1>7. b * BlockSize >= Start(m, e) /\ b * BlockSize < Start(m, e + 1)
  BY <1>0, <1>1, <1>3, <1>4, <1>6
<1>8. b \in Block /\ p \in Position
  BY <1>2, <1>4, BlocksAre
<1> QED BY <1>0, <1>4, <1>7, <1>8 DEF Mine

(* What two work-items name does not overlap.                              *)
LEMMA NamesApart ==
  ASSUME RoutedOK, NEW m, NEW t \in Nat, NEW b \in Mine(m, t), NEW n \in Nat
  PROVE  /\ \A u \in Nat : b \in Mine(m, u) => u = t
         /\ \A u \in Nat : b \notin Rest(m, u, n)
<1>0. BlockSize \in Nat \ {0} /\ NumExperts \in Nat \ {0} /\ Blocks \in Nat
      /\ AlignExpert = 0 .. NumExperts - 1 /\ Block = 0 .. Blocks - 1
      /\ NumExperts \in 0 .. NumExperts
  BY Sizes, BlocksAre DEF AlignExpert
<1>1. b \in Nat /\ t \in AlignExpert /\ b * BlockSize >= Start(m, t) /\ b * BlockSize < Start(m, t + 1)
  BY <1>0 DEF Mine
<1>2. PICK p \in Nat : p = b * BlockSize
  BY <1>0, <1>1
<1>3. ASSUME NEW u \in Nat, b \in Mine(m, u) PROVE u = t
  <2>1. u \in AlignExpert /\ b * BlockSize >= Start(m, u) /\ b * BlockSize < Start(m, u + 1)
    BY <1>0, <1>3 DEF Mine
  <2>2. \A e \in AlignExpert : e \in 0 .. NumExperts /\ e + 1 \in 0 .. NumExperts
    BY <1>0
  <2>3. \A e \in AlignExpert : Start(m, e) \in Nat /\ Start(m, e + 1) \in Nat
    BY <2>2, Layout
  <2>4. Start(m, u) <= p /\ p < Start(m, u + 1) /\ Start(m, t) <= p /\ p < Start(m, t + 1)
    BY <1>1, <1>2, <2>1, <2>3
  <2> QED BY <1>1, <1>2, <2>1, <2>4, RangesApart
<1>4. ASSUME NEW u \in Nat, b \in Rest(m, u, n) PROVE FALSE
  <2>1. PICK q \in Nat : Start(m, NumExperts) = q * BlockSize
    BY <1>0, Layout
  <2>2. (q * BlockSize) \div BlockSize = q
    <3>1. (q * BlockSize + 0) \div BlockSize = q
      BY <1>0, DivModUnique
    <3>2. q * BlockSize + 0 = q * BlockSize
      BY <1>0
    <3> QED BY <3>1, <3>2
  <2>3. PICK k \in 0 .. Blocks : b = q + u + k * n
    BY <1>4, <2>1, <2>2 DEF Rest
  <2>4. PICK z \in Nat : z = k * n
    BY <1>0, <2>3
  <2>5. PICK d \in Nat : b = q + d
    BY <2>3, <2>4
  <2>6. PICK x \in Nat, y \in Nat : x = q * BlockSize /\ y = d * BlockSize
    <3>1. \A c, v \in Nat : c * v \in Nat
      OBVIOUS
    <3> QED BY <1>0, <3>1
  <2>7. p = x + y
    BY <1>0, <1>2, <2>5, <2>6
  <2>8. Start(m, t + 1) <= Start(m, NumExperts) /\ Start(m, t + 1) \in Nat
    <3>1. t + 1 \in 0 .. NumExperts /\ NumExperts \in 0 .. NumExperts /\ t + 1 <= NumExperts
      BY <1>0, <1>1
    <3> QED BY <3>1, Layout
  <2> QED BY <1>1, <1>2, <2>1, <2>6, <2>7, <2>8
<1> QED BY <1>3, <1>4

(* Together, the work-items name every block.                              *)
LEMMA AllNamed ==
  ASSUME RoutedOK, NEW m, NEW n \in Nat, NumExperts <= n, NEW ids,
         \A t \in 0 .. n - 1, b \in Block :
           /\ b \in Mine(m, t) => ids[b] = t
           /\ b \in Rest(m, t, n) => ids[b] = Inactive,
         NEW b \in Block
  PROVE  ids[b] \in (IF Owner(m, b) = {} THEN {Inactive} ELSE Owner(m, b))
<1>0. BlockSize \in Nat \ {0} /\ NumExperts \in Nat \ {0} /\ Blocks \in Nat /\ n \in Nat \ {0}
      /\ AlignExpert = 0 .. NumExperts - 1 /\ Block = 0 .. Blocks - 1 /\ b \in Nat
      /\ NumExperts \in 0 .. NumExperts
  BY Sizes, BlocksAre DEF AlignExpert
<1>1. PICK p \in Nat : p = b * BlockSize
  BY <1>0
<1>2. \A e \in AlignExpert : /\ e \in 0 .. NumExperts /\ e + 1 \in 0 .. NumExperts
                             /\ Start(m, e) \in Nat /\ Start(m, e + 1) \in Nat
  <2>1. \A e \in AlignExpert : e \in 0 .. NumExperts /\ e + 1 \in 0 .. NumExperts
    BY <1>0
  <2> QED BY <2>1, Layout
<1>3. \A e \in AlignExpert : e \in Owner(m, b) <=> b \in Mine(m, e)
  <2>1. ASSUME NEW e \in AlignExpert PROVE e \in Owner(m, b) <=> b \in Mine(m, e)
    <3>1. e < NumExperts
      BY <1>0
    <3>2. e \in Owner(m, b) <=> p \in Start(m, e) .. Start(m, e + 1) - 1
      BY <1>1 DEF Owner, Start
    <3>3. b \in Mine(m, e) <=> p >= Start(m, e) /\ p < Start(m, e + 1)
      BY <1>1, <3>1 DEF Mine
    <3> QED BY <1>2, <3>2, <3>3
  <2> QED BY <2>1
<1>4. CASE Owner(m, b) # {}
  <2>1. PICK e \in AlignExpert : e \in Owner(m, b)
    BY <1>4 DEF Owner
  <2>2. e \in 0 .. n - 1 /\ b \in Mine(m, e)
    BY <1>0, <1>3, <2>1
  <2>3. ids[b] = e
    BY <2>2
  <2> QED BY <1>4, <2>1, <2>3
<1>5. CASE Owner(m, b) = {}
  <2>1. PICK q \in Nat : Start(m, NumExperts) = q * BlockSize
    BY <1>0, Layout
  <2>2. (q * BlockSize) \div BlockSize = q
    <3>1. (q * BlockSize + 0) \div BlockSize = q
      BY <1>0, DivModUnique
    <3>2. q * BlockSize + 0 = q * BlockSize
      BY <1>0
    <3> QED BY <3>1, <3>2
  <2>3. PICK s \in Nat : s = Start(m, NumExperts)
    BY <1>0, Layout
  <2>4. ~(p < s)
    <3>1. ASSUME p < s PROVE FALSE
      <4>1. PICK e \in AlignExpert : Start(m, e) <= p /\ p < Start(m, e + 1)
        BY <2>3, <3>1, Covered
      <4>2. b \in Mine(m, e)
        BY <1>0, <1>1, <1>2, <4>1 DEF Mine
      <4> QED BY <1>3, <1>5, <4>1, <4>2
    <3> QED BY <3>1
  <2>5. q <= b
    <3>1. ASSUME b < q PROVE FALSE
      <4>1. PICK d \in Nat : q = (b + 1) + d
        BY <1>0, <3>1
      <4>2. PICK z \in Nat : z = d * BlockSize
        BY <1>0
      <4>3. q * BlockSize = (p + BlockSize) + z
        BY <1>0, <1>1, <4>1, <4>2
      <4> QED BY <1>0, <2>1, <2>3, <2>4, <4>2, <4>3
    <3> QED BY <1>0, <3>1
  <2>6. PICK d \in Nat : b = q + d
    BY <1>0, <2>5
  <2>7. PICK k \in Nat, t \in 0 .. n - 1 : d = (k * n) + t
    <3>1. d \div n \in Nat /\ d % n \in 0 .. n - 1 /\ d = ((d \div n) * n) + (d % n)
      BY <1>0, DivMod
    <3> QED BY <3>1
  <2>8. k <= d
    <3>1. PICK n0 \in Nat : n = n0 + 1
      BY <1>0
    <3>2. PICK z \in Nat : z = k * n0
      BY <3>1
    <3>3. k * n = z + k
      BY <3>1, <3>2
    <3> QED BY <2>7, <3>2, <3>3
  <2>9. k \in 0 .. Blocks /\ b = q + t + k * n
    <3>1. PICK z \in Nat : z = k * n
      BY <1>0
    <3> QED BY <1>0, <2>6, <2>7, <2>8, <3>1
  <2>10. b \in Rest(m, t, n)
    BY <2>1, <2>2, <2>9 DEF Rest
  <2>11. ids[b] = Inactive
    BY <2>7, <2>10
  <2> QED BY <1>5, <2>11
<1> QED BY <1>4, <1>5

-----------------------------------------------------------------------------
(* The form for large batches: an entry's state, as its groups see it.     *)
Base == IF routed.multi THEN 1 ELSE 0
Worker == 0 .. Lanes - 1
CountG(x) == <<x, "count">>
FillG(x) == <<x, "fill">>
SortG(x) == <<x, "sort">>

CountAt(x) == alignPhase[CountG(x)]
FillAt(x) == alignPhase[FillG(x)]
SortAt(x) == alignPhase[SortG(x)]
CountLoop(x) == loopAt[CountG(x)]
SortLoop(x) == loopAt[SortG(x)]
Held(x) == held[SortG(x)]
Tally(x) == sharedCounts[x]
Sums(x) == temp[x]
Ranks(x) == cumsumBuffer[ModelOf(x)]
MaskRow(x) == mask[ModelOf(x)]
TotalOf(x) == total[ModelOf(x)]
SortedRow(x) == sorted[ModelOf(x)]
IdsRow(x) == expertIds[ModelOf(x)]

LargeType ==
  /\ alignPhase \in [Large!Group -> [Worker -> Nat]]
  /\ loopAt \in [Large!Group -> [Worker -> Nat]]
  /\ held \in [Large!Group -> [Worker -> Int]]
  /\ sharedCounts \in [Entry -> [0 .. Large!PaddedExperts - 1 -> Int]]
  /\ temp \in [Entry -> [Worker -> Int]]
  /\ cumsumBuffer \in [Model -> [0 .. NumExperts -> Int]]

OutputType ==
  /\ mask \in [Model -> [AlignToken -> Int]]
  /\ total \in [Model -> Int]
  /\ sorted \in [Model -> [Position -> Int]]
  /\ expertIds \in [Model -> [Block -> Int]]

(* What a step of entry x leaves alone. *)
Elsewhere(x) ==
  /\ routed' = routed
  /\ \A m \in Model : m # ModelOf(x) =>
       /\ mask'[m] = mask[m] /\ total'[m] = total[m]
       /\ sorted'[m] = sorted[m] /\ expertIds'[m] = expertIds[m]
LargeElsewhere(x) ==
  /\ \A g \in Large!Group : g[1] # x =>
       alignPhase'[g] = alignPhase[g] /\ loopAt'[g] = loopAt[g] /\ held'[g] = held[g]
  /\ \A y \in Entry : y # x => sharedCounts'[y] = sharedCounts[y] /\ temp'[y] = temp[y]
  /\ \A m \in Model : m # ModelOf(x) => cumsumBuffer'[m] = cumsumBuffer[m]

LEMMA LiveModel ==
  ASSUME RoutedOK, NEW x, Live(x)
  PROVE  /\ x \in Entry /\ ModelOf(x) \in Model /\ Active(ModelOf(x))
         /\ \A y : Live(y) /\ y # x => ModelOf(y) # ModelOf(x)
<1>0. 0 \in Model
  BY Sizes DEF Model
<1>1. PICK b \in BOOLEAN : b = routed.multi
  BY DEF RoutedOK
<1>2. CASE b = TRUE
  <2>1. \A y : Live(y) => y \in Entry /\ routed.ids[y] \in Model /\ routed.enabled[routed.ids[y]] /\ ModelOf(y) = routed.ids[y]
    BY <1>1, <1>2 DEF Live, Skipped, ModelOf
  <2>2. Active(ModelOf(x))
    BY <1>1, <1>2, <2>1 DEF Active
  <2>3. ASSUME NEW y, Live(y), y # x PROVE ModelOf(y) # ModelOf(x)
    BY <2>1, <2>3 DEF RoutedOK
  <2> QED BY <2>1, <2>2, <2>3
<1>3. CASE b = FALSE
  <2>1. \A y : Live(y) => y \in Entry /\ y = 1 /\ ModelOf(y) = 0
    BY <1>1, <1>3 DEF Live, Skipped, ModelOf
  <2>2. Active(0)
    BY <1>1, <1>3 DEF Active
  <2> QED BY <1>0, <2>1, <2>2
<1> QED BY <1>1, <1>2, <1>3

LEMMA WorkerFacts ==
  /\ Lanes \in Nat \ {0} /\ NumExperts \in Worker /\ 0 \in Worker
  /\ \A e \in AlignExpert : e \in Worker
  /\ \A l \in Worker : l \in Nat /\ l < Lanes
  /\ \A i \in Nat : i % Lanes \in Worker
  /\ Large!Lane = Worker
<1>1. Lanes \in Nat \ {0} /\ NumExperts \in Nat /\ NumExperts < Lanes
  BY Sizes, LaneAssumption
<1>2. \A i \in Nat : i % Lanes \in Worker
  BY <1>1, DivMod DEF Worker
<1>3. Large!Lane = Worker
  BY DEF Large!Lane, Worker
<1> QED BY <1>1, <1>2, <1>3 DEF Worker, AlignExpert

LEMMA Groups ==
  ASSUME NEW x \in Entry
  PROVE  /\ CountG(x) \in Large!Group /\ FillG(x) \in Large!Group /\ SortG(x) \in Large!Group
         /\ CountG(x) # FillG(x) /\ CountG(x) # SortG(x) /\ FillG(x) # SortG(x)
         /\ CountG(x)[1] = x /\ FillG(x)[1] = x /\ SortG(x)[1] = x
         /\ CountG(x)[2] = "count" /\ FillG(x)[2] = "fill" /\ SortG(x)[2] = "sort"
         /\ Large!Of(CountG(x)) = ModelOf(x) /\ Large!Of(FillG(x)) = ModelOf(x)
         /\ Large!Of(SortG(x)) = ModelOf(x)
         /\ Large!Skipped(x) = Skipped(x)
<1>1. x \in Large!Entry /\ Large!Kind = {"count", "fill", "sort"}
  BY DEF Large!Entry, Entry, Large!Kind
<1>2. Large!Skipped(x) = Skipped(x)
  BY DEF Large!Skipped, Skipped, Large!Model, Model
<1>3. \A y : Large!ModelOf(y) = ModelOf(y)
  BY DEF Large!ModelOf, ModelOf
<1> QED BY <1>1, <1>2, <1>3 DEF Large!Group, CountG, FillG, SortG, Large!Of

(* The phases of each group, by number.                                    *)
LEMMA Numbered ==
  ASSUME RoutedOK
  PROVE  /\ Base \in {0, 1} /\ (Base = 1 <=> routed.multi)
         /\ Large!Steps("count") = Base + 6 /\ Large!Steps("fill") = Base + 1
         /\ Large!Steps("sort") = 1
         /\ \A k \in Nat : k < Base + 6 =>
              /\ Large!Phases("count")[k + 1] = "mask" <=> (Base = 1 /\ k = 0)
              /\ Large!Phases("count")[k + 1] = "zero" <=> k = Base
              /\ Large!Phases("count")[k + 1] = "count" <=> k = Base + 1
              /\ Large!Phases("count")[k + 1] = "pad" <=> k = Base + 2
              /\ Large!Phases("count")[k + 1] = "scan" <=> k = Base + 3
              /\ Large!Phases("count")[k + 1] = "sums" <=> k = Base + 4
              /\ Large!Phases("count")[k + 1] = "blocks" <=> k = Base + 5
         /\ \A k \in Nat : k < Base + 1 =>
              /\ Large!Phases("fill")[k + 1] = "mask" <=> (Base = 1 /\ k = 0)
              /\ Large!Phases("fill")[k + 1] = "fill" <=> k = Base
         /\ Large!Phases("sort")[1] = "rank"
<1>1. PICK b \in BOOLEAN : b = routed.multi
  BY DEF RoutedOK
<1>2. Large!Phases("sort") = <<"rank">>
  BY DEF Large!Phases
<1>3. CASE b = TRUE
  <2>1. Large!Phases("count") = <<"mask">> \o <<"zero", "count", "pad", "scan", "sums", "blocks">>
        /\ Large!Phases("fill") = <<"mask">> \o <<"fill">>
    BY <1>1, <1>3 DEF Large!Phases
  <2>2. Large!Phases("count") = <<"mask", "zero", "count", "pad", "scan", "sums", "blocks">>
        /\ Large!Phases("fill") = <<"mask", "fill">>
    BY <2>1
  <2>3. Base = 1
    BY <1>1, <1>3 DEF Base
  <2> QED BY <1>1, <1>2, <1>3, <2>2, <2>3 DEF Large!Steps
<1>4. CASE b = FALSE
  <2>1. Large!Phases("count") = <<>> \o <<"zero", "count", "pad", "scan", "sums", "blocks">>
        /\ Large!Phases("fill") = <<>> \o <<"fill">>
    BY <1>1, <1>4 DEF Large!Phases
  <2>2. Large!Phases("count") = <<"zero", "count", "pad", "scan", "sums", "blocks">>
        /\ Large!Phases("fill") = <<"fill">>
    BY <2>1
  <2>3. Base = 0
    BY <1>1, <1>4 DEF Base
  <2> QED BY <1>1, <1>2, <1>4, <2>2, <2>3 DEF Large!Steps
<1> QED BY <1>1, <1>3, <1>4

(* What each step does, in these terms.                                    *)
Local(x) == Elsewhere(x) /\ LargeElsewhere(x) /\ LargeType' /\ OutputType'
Reached(at, l, k) == at[l] = k /\ \A m \in Worker : at[m] >= k
Bumped(at, l) == [at EXCEPT ![l] = @ + 1]
SortStill(x) == SortAt(x)' = SortAt(x) /\ SortLoop(x)' = SortLoop(x) /\ Held(x)' = Held(x)
OutStill(x) ==
  /\ MaskRow(x)' = MaskRow(x) /\ TotalOf(x)' = TotalOf(x)
  /\ SortedRow(x)' = SortedRow(x) /\ IdsRow(x)' = IdsRow(x)

LEMMA AtFacts ==
  ASSUME RoutedOK, LargeType, NEW x \in Entry, NEW l \in Worker, NEW name
  PROVE  /\ Large!At(CountG(x), l, name) =>
              /\ CountAt(x)[l] \in Nat /\ CountAt(x)[l] < Base + 6
              /\ Large!Phases("count")[CountAt(x)[l] + 1] = name
              /\ Reached(CountAt(x), l, CountAt(x)[l])
         /\ Large!At(FillG(x), l, name) =>
              /\ FillAt(x)[l] \in Nat /\ FillAt(x)[l] < Base + 1
              /\ Large!Phases("fill")[FillAt(x)[l] + 1] = name
              /\ Reached(FillAt(x), l, FillAt(x)[l])
         /\ Large!At(SortG(x), l, name) =>
              /\ SortAt(x)[l] = 0
              /\ Reached(SortAt(x), l, 0)
              /\ Large!FirstKernelEnded
<1>1. /\ CountG(x) \in Large!Group /\ FillG(x) \in Large!Group /\ SortG(x) \in Large!Group
      /\ CountG(x)[2] = "count" /\ FillG(x)[2] = "fill" /\ SortG(x)[2] = "sort"
  BY Groups
<1>2. Large!Steps("count") = Base + 6 /\ Large!Steps("fill") = Base + 1 /\ Large!Steps("sort") = 1
  BY Numbered
<1>3. \A g \in Large!Group : alignPhase[g][l] \in Nat
  BY DEF LargeType
<1>4. Large!Lane = Worker
  BY WorkerFacts
<1>5. ASSUME Large!At(CountG(x), l, name)
      PROVE  /\ CountAt(x)[l] \in Nat /\ CountAt(x)[l] < Base + 6
             /\ Large!Phases("count")[CountAt(x)[l] + 1] = name
             /\ Reached(CountAt(x), l, CountAt(x)[l])
  BY <1>1, <1>2, <1>3, <1>4, <1>5 DEF Large!At, Large!Together, CountAt, Reached
<1>6. ASSUME Large!At(FillG(x), l, name)
      PROVE  /\ FillAt(x)[l] \in Nat /\ FillAt(x)[l] < Base + 1
             /\ Large!Phases("fill")[FillAt(x)[l] + 1] = name
             /\ Reached(FillAt(x), l, FillAt(x)[l])
  BY <1>1, <1>2, <1>3, <1>4, <1>6 DEF Large!At, Large!Together, FillAt, Reached
<1>7. ASSUME Large!At(SortG(x), l, name)
      PROVE  SortAt(x)[l] = 0 /\ Reached(SortAt(x), l, 0) /\ Large!FirstKernelEnded
  <2>1. SortAt(x)[l] \in Nat /\ SortAt(x)[l] < 1 /\ Reached(SortAt(x), l, SortAt(x)[l]) /\ Large!FirstKernelEnded
    BY <1>1, <1>2, <1>3, <1>4, <1>7 DEF Large!At, Large!Together, Large!InOrder, SortAt, Reached
  <2>2. SortAt(x)[l] = 0
    BY <2>1
  <2> QED BY <2>1, <2>2
<1> QED BY <1>5, <1>6, <1>7

LEMMA EndPhaseIs ==
  ASSUME LargeType, NEW g \in Large!Group, NEW l \in Worker, Large!EndPhase(g, l)
  PROVE  /\ alignPhase' = [alignPhase EXCEPT ![g] = Bumped(alignPhase[g], l)]
         /\ loopAt' = [loopAt EXCEPT ![g] = [loopAt[g] EXCEPT ![l] = l]]
         /\ alignPhase' \in [Large!Group -> [Worker -> Nat]]
         /\ loopAt' \in [Large!Group -> [Worker -> Nat]]
<1>0. l \in Nat
  BY WorkerFacts
<1> QED BY <1>0 DEF LargeType, Large!EndPhase, Bumped

LEMMA OneGroup ==
  ASSUME LargeType, NEW g \in Large!Group, NEW v, NEW w,
         alignPhase' = [alignPhase EXCEPT ![g] = v], loopAt' = [loopAt EXCEPT ![g] = w]
  PROVE  /\ alignPhase'[g] = v /\ loopAt'[g] = w
         /\ \A h \in Large!Group : h # g => alignPhase'[h] = alignPhase[h] /\ loopAt'[h] = loopAt[h]
BY DEF LargeType

(* A step of the counting group alone: what it does to phases and loops.   *)
LEMMA CountGroupStep ==
  ASSUME RoutedOK, LargeType, NEW x, Live(x), NEW v, NEW w,
         alignPhase' = [alignPhase EXCEPT ![CountG(x)] = v],
         loopAt' = [loopAt EXCEPT ![CountG(x)] = w],
         held' = held, routed' = routed
  PROVE  /\ CountAt(x)' = v /\ CountLoop(x)' = w
         /\ FillAt(x)' = FillAt(x) /\ SortStill(x)
         /\ ModelOf(x)' = ModelOf(x)
         /\ \A h \in Large!Group : h[1] # x =>
              alignPhase'[h] = alignPhase[h] /\ loopAt'[h] = loopAt[h] /\ held'[h] = held[h]
<1>1. x \in Entry
  BY LiveModel
<1>2. /\ CountG(x) \in Large!Group /\ FillG(x) \in Large!Group /\ SortG(x) \in Large!Group
      /\ CountG(x) # FillG(x) /\ CountG(x) # SortG(x) /\ FillG(x) # SortG(x)
      /\ CountG(x)[1] = x /\ FillG(x)[1] = x /\ SortG(x)[1] = x
  BY <1>1, Groups
<1>3. /\ alignPhase'[CountG(x)] = v /\ loopAt'[CountG(x)] = w
      /\ \A h \in Large!Group : h # CountG(x) => alignPhase'[h] = alignPhase[h] /\ loopAt'[h] = loopAt[h]
  BY <1>2, OneGroup
<1>4. CountG(x)' = CountG(x) /\ FillG(x)' = FillG(x) /\ SortG(x)' = SortG(x)
  BY DEF CountG, FillG, SortG
<1>5. ModelOf(x)' = ModelOf(x)
  BY DEF ModelOf
<1>6. CountAt(x)' = v /\ CountLoop(x)' = w /\ FillAt(x)' = FillAt(x)
  BY <1>2, <1>3, <1>4 DEF CountAt, CountLoop, FillAt
<1>7. SortStill(x)
  BY <1>2, <1>3, <1>4 DEF SortStill, SortAt, SortLoop, Held
<1>8. ASSUME NEW h \in Large!Group, h[1] # x
      PROVE  alignPhase'[h] = alignPhase[h] /\ loopAt'[h] = loopAt[h] /\ held'[h] = held[h]
  BY <1>2, <1>3, <1>8
<1> QED BY <1>5, <1>6, <1>7, <1>8

LEMMA FillGroupStep ==
  ASSUME RoutedOK, LargeType, NEW x, Live(x), NEW v, NEW w,
         alignPhase' = [alignPhase EXCEPT ![FillG(x)] = v],
         loopAt' = [loopAt EXCEPT ![FillG(x)] = w],
         held' = held, routed' = routed
  PROVE  /\ FillAt(x)' = v
         /\ CountAt(x)' = CountAt(x) /\ CountLoop(x)' = CountLoop(x) /\ SortStill(x)
         /\ ModelOf(x)' = ModelOf(x)
         /\ \A h \in Large!Group : h[1] # x =>
              alignPhase'[h] = alignPhase[h] /\ loopAt'[h] = loopAt[h] /\ held'[h] = held[h]
<1>1. x \in Entry
  BY LiveModel
<1>2. /\ CountG(x) \in Large!Group /\ FillG(x) \in Large!Group /\ SortG(x) \in Large!Group
      /\ CountG(x) # FillG(x) /\ CountG(x) # SortG(x) /\ FillG(x) # SortG(x)
      /\ CountG(x)[1] = x /\ FillG(x)[1] = x /\ SortG(x)[1] = x
  BY <1>1, Groups
<1>3. /\ alignPhase'[FillG(x)] = v /\ loopAt'[FillG(x)] = w
      /\ \A h \in Large!Group : h # FillG(x) => alignPhase'[h] = alignPhase[h] /\ loopAt'[h] = loopAt[h]
  BY <1>2, OneGroup
<1>4. CountG(x)' = CountG(x) /\ FillG(x)' = FillG(x) /\ SortG(x)' = SortG(x)
  BY DEF CountG, FillG, SortG
<1>5. ModelOf(x)' = ModelOf(x)
  BY DEF ModelOf
<1>6. FillAt(x)' = v /\ CountAt(x)' = CountAt(x) /\ CountLoop(x)' = CountLoop(x)
  BY <1>2, <1>3, <1>4 DEF CountAt, CountLoop, FillAt
<1>7. SortStill(x)
  BY <1>2, <1>3, <1>4 DEF SortStill, SortAt, SortLoop, Held
<1>8. ASSUME NEW h \in Large!Group, h[1] # x
      PROVE  alignPhase'[h] = alignPhase[h] /\ loopAt'[h] = loopAt[h] /\ held'[h] = held[h]
  BY <1>2, <1>3, <1>8
<1> QED BY <1>5, <1>6, <1>7, <1>8

Cleared(x, l) ==
  [e \in 0 .. Large!PaddedExperts - 1 |-> IF e \div WarpSize = l \div WarpSize THEN 0 ELSE Tally(x)[e]]

LEMMA ZeroIs ==
  ASSUME RoutedOK, LargeType, OutputType, NEW x, Live(x), NEW l \in Worker,
         Large!Zero(CountG(x), l)
  PROVE  /\ Reached(CountAt(x), l, Base)
         /\ CountAt(x)' = Bumped(CountAt(x), l) /\ CountLoop(x)' = [CountLoop(x) EXCEPT ![l] = l]
         /\ FillAt(x)' = FillAt(x) /\ SortStill(x) /\ OutStill(x)
         /\ Tally(x)' = Cleared(x, l)
         /\ Sums(x)' = Sums(x) /\ Ranks(x)' = Ranks(x)
         /\ Local(x)
<1>1. x \in Entry /\ CountG(x) \in Large!Group /\ CountG(x)[1] = x
  BY LiveModel, Groups
<1>2. Large!At(CountG(x), l, "zero") /\ Large!EndPhase(CountG(x), l)
      /\ sharedCounts' = [sharedCounts EXCEPT ![x] =
           [e \in DOMAIN @ |-> IF e \div WarpSize = l \div WarpSize THEN 0 ELSE @[e]]]
      /\ UNCHANGED <<routed, held, temp, Large!outputs>>
  BY <1>1 DEF Large!Zero
<1>3. routed' = routed /\ held' = held /\ temp' = temp /\ cumsumBuffer' = cumsumBuffer
      /\ mask' = mask /\ total' = total /\ sorted' = sorted /\ expertIds' = expertIds
  BY <1>2 DEF Large!outputs
<1>4. Reached(CountAt(x), l, Base)
  <2>1. /\ CountAt(x)[l] \in Nat /\ CountAt(x)[l] < Base + 6
        /\ Large!Phases("count")[CountAt(x)[l] + 1] = "zero"
        /\ Reached(CountAt(x), l, CountAt(x)[l])
    BY <1>1, <1>2, AtFacts
  <2>2. CountAt(x)[l] = Base
    BY <2>1, Numbered
  <2> QED BY <2>1, <2>2
<1>5. /\ alignPhase' = [alignPhase EXCEPT ![CountG(x)] = Bumped(CountAt(x), l)]
      /\ loopAt' = [loopAt EXCEPT ![CountG(x)] = [CountLoop(x) EXCEPT ![l] = l]]
      /\ alignPhase' \in [Large!Group -> [Worker -> Nat]]
      /\ loopAt' \in [Large!Group -> [Worker -> Nat]]
  BY <1>1, <1>2, EndPhaseIs DEF CountAt, CountLoop
<1>6. /\ CountAt(x)' = Bumped(CountAt(x), l) /\ CountLoop(x)' = [CountLoop(x) EXCEPT ![l] = l]
      /\ FillAt(x)' = FillAt(x) /\ SortStill(x) /\ ModelOf(x)' = ModelOf(x)
      /\ \A h \in Large!Group : h[1] # x =>
           alignPhase'[h] = alignPhase[h] /\ loopAt'[h] = loopAt[h] /\ held'[h] = held[h]
  BY <1>3, <1>5, CountGroupStep
<1>7. /\ Tally(x) \in [0 .. Large!PaddedExperts - 1 -> Int]
      /\ sharedCounts' = [sharedCounts EXCEPT ![x] = Cleared(x, l)]
  <2>1. Tally(x) \in [0 .. Large!PaddedExperts - 1 -> Int]
    BY <1>1 DEF Tally, LargeType
  <2>2. sharedCounts[x] = Tally(x) /\ DOMAIN Tally(x) = 0 .. Large!PaddedExperts - 1
    BY <2>1 DEF Tally
  <2> QED BY <1>1, <1>2, <2>1, <2>2 DEF Cleared
<1>8. Cleared(x, l) \in [0 .. Large!PaddedExperts - 1 -> Int]
  BY <1>7 DEF Cleared
<1>9. /\ sharedCounts'[x] = Cleared(x, l)
      /\ sharedCounts' \in [Entry -> [0 .. Large!PaddedExperts - 1 -> Int]]
      /\ \A y \in Entry : y # x => sharedCounts'[y] = sharedCounts[y]
  BY <1>1, <1>7, <1>8 DEF LargeType
<1>10. Tally(x)' = Cleared(x, l) /\ Sums(x)' = Sums(x) /\ Ranks(x)' = Ranks(x) /\ OutStill(x)
  BY <1>3, <1>6, <1>9 DEF Tally, Sums, Ranks, OutStill, MaskRow, TotalOf, SortedRow, IdsRow
<1>11. LargeType' /\ OutputType' /\ LargeElsewhere(x) /\ Elsewhere(x)
  <2>1. LargeType'
    BY <1>3, <1>5, <1>9 DEF LargeType
  <2>2. OutputType'
    BY <1>3 DEF OutputType
  <2>3. LargeElsewhere(x)
    BY <1>3, <1>6, <1>9 DEF LargeElsewhere
  <2>4. Elsewhere(x)
    BY <1>3 DEF Elsewhere
  <2> QED BY <2>1, <2>2, <2>3, <2>4
<1> QED BY <1>4, <1>6, <1>10, <1>11 DEF Local

LEMMA PaddedExpertsFit ==
  \A e \in AlignExpert : e \in 0 .. Large!PaddedExperts - 1
<1>1. WarpSize \in Nat \ {0} /\ NumExperts \in Nat \ {0}
  BY Sizes, WarpAssumption
<1>2. PICK a \in Nat : a = NumExperts + WarpSize - 1
  BY <1>1
<1>3. PICK q \in Nat, r \in 0 .. WarpSize - 1 : q = a \div WarpSize /\ a = (q * WarpSize) + r
  BY <1>1, DivMod
<1>4. Large!PaddedExperts = q * WarpSize
  BY <1>2, <1>3 DEF Large!PaddedExperts, Large!CeilDiv
<1>5. PICK p \in Nat : p = q * WarpSize
  BY <1>1
<1> QED BY <1>1, <1>2, <1>3, <1>4, <1>5 DEF AlignExpert

(* One more slot counted, if an expert here serves it. *)
Added(x, i) ==
  IF Valid(i) THEN [Tally(x) EXCEPT ![ServedBy(i)] = @ + MaskRow(x)[i \div TopkNum]] ELSE Tally(x)

CountTurn(x, l) ==
  /\ CountLoop(x)[l] < Numel
  /\ CountAt(x)' = CountAt(x) /\ CountLoop(x)' = [CountLoop(x) EXCEPT ![l] = @ + Lanes]
  /\ Tally(x)' = Added(x, CountLoop(x)[l])
CountEnd(x, l) ==
  /\ CountLoop(x)[l] >= Numel
  /\ CountAt(x)' = Bumped(CountAt(x), l) /\ CountLoop(x)' = [CountLoop(x) EXCEPT ![l] = l]
  /\ Tally(x)' = Tally(x)

LEMMA CountIs ==
  ASSUME RoutedOK, LargeType, OutputType, NEW x, Live(x), NEW l \in Worker,
         Large!Count(CountG(x), l)
  PROVE  /\ Reached(CountAt(x), l, Base + 1)
         /\ CountTurn(x, l) \/ CountEnd(x, l)
         /\ FillAt(x)' = FillAt(x) /\ SortStill(x) /\ OutStill(x)
         /\ Sums(x)' = Sums(x) /\ Ranks(x)' = Ranks(x)
         /\ Local(x)
<1> DEFINE i == CountLoop(x)[l]
<1>1. x \in Entry /\ CountG(x) \in Large!Group /\ CountG(x)[1] = x /\ Large!Of(CountG(x)) = ModelOf(x)
  BY LiveModel, Groups
<1>v. Large!Valid(i) = Valid(i) /\ Large!ServedBy(i) = ServedBy(i)
  BY DEF Large!Valid, Valid, Large!ServedBy, ServedBy, Large!AlignExpert, AlignExpert
<1>2. Large!At(CountG(x), l, "count") /\ Large!Turn(CountG(x), l)
      /\ sharedCounts' = (IF i < Numel /\ Valid(i)
           THEN [sharedCounts EXCEPT ![x][ServedBy(i)] = @ + mask[ModelOf(x)][i \div TopkNum]]
           ELSE sharedCounts)
      /\ UNCHANGED <<routed, held, temp, Large!outputs>>
  BY <1>1, <1>v DEF Large!Count, CountLoop
<1>3. routed' = routed /\ held' = held /\ temp' = temp /\ cumsumBuffer' = cumsumBuffer
      /\ mask' = mask /\ total' = total /\ sorted' = sorted /\ expertIds' = expertIds
  BY <1>2 DEF Large!outputs
<1>4. Reached(CountAt(x), l, Base + 1)
  <2>1. /\ CountAt(x)[l] \in Nat /\ CountAt(x)[l] < Base + 6
        /\ Large!Phases("count")[CountAt(x)[l] + 1] = "count"
        /\ Reached(CountAt(x), l, CountAt(x)[l])
    BY <1>1, <1>2, AtFacts
  <2>2. CountAt(x)[l] = Base + 1
    BY <2>1, Numbered
  <2> QED BY <2>1, <2>2
<1>t. /\ CountAt(x) \in [Worker -> Nat] /\ CountLoop(x) \in [Worker -> Nat]
      /\ Tally(x) \in [0 .. Large!PaddedExperts - 1 -> Int] /\ sharedCounts[x] = Tally(x)
      /\ MaskRow(x) \in [AlignToken -> Int] /\ mask[ModelOf(x)] = MaskRow(x) /\ i \in Nat /\ Lanes \in Nat
      /\ Numel \in Nat
  BY <1>1, LiveModel, Sizes, LaneAssumption DEF CountAt, CountLoop, Tally, LargeType, OutputType, MaskRow
<1>5. CASE i < Numel
  <2>1. /\ alignPhase' = [alignPhase EXCEPT ![CountG(x)] = CountAt(x)]
        /\ loopAt' = [loopAt EXCEPT ![CountG(x)] = [CountLoop(x) EXCEPT ![l] = @ + Lanes]]
        /\ alignPhase' \in [Large!Group -> [Worker -> Nat]]
        /\ loopAt' \in [Large!Group -> [Worker -> Nat]]
    <3>1. alignPhase' = alignPhase /\ loopAt' = [loopAt EXCEPT ![CountG(x)][l] = @ + Lanes]
      BY <1>2, <1>5 DEF Large!Turn, CountLoop
    <3> QED BY <1>1, <1>t, <3>1 DEF LargeType, CountAt, CountLoop
  <2>2. /\ CountAt(x)' = CountAt(x) /\ CountLoop(x)' = [CountLoop(x) EXCEPT ![l] = @ + Lanes]
        /\ FillAt(x)' = FillAt(x) /\ SortStill(x) /\ ModelOf(x)' = ModelOf(x)
        /\ \A h \in Large!Group : h[1] # x =>
             alignPhase'[h] = alignPhase[h] /\ loopAt'[h] = loopAt[h] /\ held'[h] = held[h]
    <3>1. PICK v, w : v = CountAt(x) /\ w = [CountLoop(x) EXCEPT ![l] = @ + Lanes]
      OBVIOUS
    <3>2. alignPhase' = [alignPhase EXCEPT ![CountG(x)] = v] /\ loopAt' = [loopAt EXCEPT ![CountG(x)] = w]
      BY <2>1, <3>1
    <3>3. /\ CountAt(x)' = v /\ CountLoop(x)' = w
          /\ FillAt(x)' = FillAt(x) /\ SortStill(x) /\ ModelOf(x)' = ModelOf(x)
          /\ \A h \in Large!Group : h[1] # x =>
               alignPhase'[h] = alignPhase[h] /\ loopAt'[h] = loopAt[h] /\ held'[h] = held[h]
      BY <1>3, <3>2, CountGroupStep
    <3> QED BY <3>1, <3>3
  <2>3. Added(x, i) \in [0 .. Large!PaddedExperts - 1 -> Int]
    <3>1. i \in AlignSlot
      BY <1>t, <1>5 DEF AlignSlot
    <3>2. MaskRow(x)[i \div TopkNum] \in Int /\ (Valid(i) => ServedBy(i) \in 0 .. Large!PaddedExperts - 1)
      BY <1>t, <3>1, SlotToken, ServedFacts, PaddedExpertsFit
    <3> QED BY <1>t, <3>2 DEF Added
  <2>4. sharedCounts' = [sharedCounts EXCEPT ![x] = Added(x, i)]
    BY <1>1, <1>2, <1>5, <1>t DEF Added, LargeType
  <2>5. /\ sharedCounts'[x] = Added(x, i)
        /\ sharedCounts' \in [Entry -> [0 .. Large!PaddedExperts - 1 -> Int]]
        /\ \A y \in Entry : y # x => sharedCounts'[y] = sharedCounts[y]
    BY <1>1, <2>3, <2>4 DEF LargeType
  <2>6. Tally(x)' = Added(x, i) /\ Sums(x)' = Sums(x) /\ Ranks(x)' = Ranks(x) /\ OutStill(x)
    BY <1>3, <2>2, <2>5 DEF Tally, Sums, Ranks, OutStill, MaskRow, TotalOf, SortedRow, IdsRow
  <2>7. LargeType' /\ OutputType' /\ LargeElsewhere(x) /\ Elsewhere(x)
    <3>1. LargeType'
      BY <1>3, <2>1, <2>5 DEF LargeType
    <3>2. OutputType'
      BY <1>3 DEF OutputType
    <3>3. LargeElsewhere(x)
      BY <1>3, <2>2, <2>5 DEF LargeElsewhere
    <3>4. Elsewhere(x)
      BY <1>3 DEF Elsewhere
    <3> QED BY <3>1, <3>2, <3>3, <3>4
  <2> QED BY <1>4, <1>5, <2>2, <2>6, <2>7 DEF Local, CountTurn
<1>6. CASE ~(i < Numel)
  <2>1. Large!EndPhase(CountG(x), l) /\ sharedCounts' = sharedCounts
    BY <1>2, <1>6 DEF Large!Turn, CountLoop
  <2>2. /\ alignPhase' = [alignPhase EXCEPT ![CountG(x)] = Bumped(CountAt(x), l)]
        /\ loopAt' = [loopAt EXCEPT ![CountG(x)] = [CountLoop(x) EXCEPT ![l] = l]]
        /\ alignPhase' \in [Large!Group -> [Worker -> Nat]]
        /\ loopAt' \in [Large!Group -> [Worker -> Nat]]
    BY <1>1, <2>1, EndPhaseIs DEF CountAt, CountLoop
  <2>3. /\ CountAt(x)' = Bumped(CountAt(x), l) /\ CountLoop(x)' = [CountLoop(x) EXCEPT ![l] = l]
        /\ FillAt(x)' = FillAt(x) /\ SortStill(x) /\ ModelOf(x)' = ModelOf(x)
        /\ \A h \in Large!Group : h[1] # x =>
             alignPhase'[h] = alignPhase[h] /\ loopAt'[h] = loopAt[h] /\ held'[h] = held[h]
    BY <1>3, <2>2, CountGroupStep
  <2>4. Tally(x)' = Tally(x) /\ Sums(x)' = Sums(x) /\ Ranks(x)' = Ranks(x) /\ OutStill(x)
    BY <1>3, <2>1, <2>3 DEF Tally, Sums, Ranks, OutStill, MaskRow, TotalOf, SortedRow, IdsRow
  <2>5. LargeType' /\ OutputType' /\ LargeElsewhere(x) /\ Elsewhere(x)
    <3>1. LargeType'
      BY <1>3, <2>1, <2>2 DEF LargeType
    <3>2. OutputType'
      BY <1>3 DEF OutputType
    <3>3. LargeElsewhere(x)
      BY <1>3, <2>1, <2>3 DEF LargeElsewhere
    <3>4. Elsewhere(x)
      BY <1>3 DEF Elsewhere
    <3> QED BY <3>1, <3>2, <3>3, <3>4
  <2>6. i >= Numel
    BY <1>6, <1>t
  <2> QED BY <1>4, <2>3, <2>4, <2>5, <2>6 DEF Local, CountEnd
<1> QED BY <1>5, <1>6

LEMMA PadIs ==
  ASSUME RoutedOK, LargeType, OutputType, NEW x, Live(x), NEW l \in Worker,
         Large!Pad(CountG(x), l)
  PROVE  /\ Reached(CountAt(x), l, Base + 2)
         /\ CountAt(x)' = Bumped(CountAt(x), l) /\ CountLoop(x)' = [CountLoop(x) EXCEPT ![l] = l]
         /\ FillAt(x)' = FillAt(x) /\ SortStill(x) /\ OutStill(x)
         /\ Sums(x)' = [Sums(x) EXCEPT ![l] = IF l < NumExperts THEN Padded(Tally(x)[l]) ELSE 0]
         /\ Tally(x)' = Tally(x) /\ Ranks(x)' = Ranks(x)
         /\ (l < NumExperts => Padded(Tally(x)[l]) \in Int) => Local(x)
<1> DEFINE v == IF l < NumExperts THEN Padded(Tally(x)[l]) ELSE 0
<1>1. x \in Entry /\ CountG(x) \in Large!Group /\ CountG(x)[1] = x
  BY LiveModel, Groups
<1>v. \A n : Large!Padded(n) = Padded(n)
  BY DEF Large!Padded, Padded, Large!CeilDiv, CeilDiv
<1>2. Large!At(CountG(x), l, "pad") /\ Large!EndPhase(CountG(x), l)
      /\ temp' = [temp EXCEPT ![x][l] = v]
      /\ UNCHANGED <<routed, held, sharedCounts, Large!outputs>>
  BY <1>1, <1>v DEF Large!Pad, Tally
<1>3. routed' = routed /\ held' = held /\ sharedCounts' = sharedCounts /\ cumsumBuffer' = cumsumBuffer
      /\ mask' = mask /\ total' = total /\ sorted' = sorted /\ expertIds' = expertIds
  BY <1>2 DEF Large!outputs
<1>4. Reached(CountAt(x), l, Base + 2)
  <2>1. /\ CountAt(x)[l] \in Nat /\ CountAt(x)[l] < Base + 6
        /\ Large!Phases("count")[CountAt(x)[l] + 1] = "pad"
        /\ Reached(CountAt(x), l, CountAt(x)[l])
    BY <1>1, <1>2, AtFacts
  <2>2. CountAt(x)[l] = Base + 2
    BY <2>1, Numbered
  <2> QED BY <2>1, <2>2
<1>5. /\ alignPhase' = [alignPhase EXCEPT ![CountG(x)] = Bumped(CountAt(x), l)]
      /\ loopAt' = [loopAt EXCEPT ![CountG(x)] = [CountLoop(x) EXCEPT ![l] = l]]
      /\ alignPhase' \in [Large!Group -> [Worker -> Nat]]
      /\ loopAt' \in [Large!Group -> [Worker -> Nat]]
  BY <1>1, <1>2, EndPhaseIs DEF CountAt, CountLoop
<1>6. /\ CountAt(x)' = Bumped(CountAt(x), l) /\ CountLoop(x)' = [CountLoop(x) EXCEPT ![l] = l]
      /\ FillAt(x)' = FillAt(x) /\ SortStill(x) /\ ModelOf(x)' = ModelOf(x)
      /\ \A h \in Large!Group : h[1] # x =>
           alignPhase'[h] = alignPhase[h] /\ loopAt'[h] = loopAt[h] /\ held'[h] = held[h]
  BY <1>3, <1>5, CountGroupStep
<1> HIDE DEF v
<1>7. /\ temp'[x] = [Sums(x) EXCEPT ![l] = v]
      /\ \A y \in Entry : y # x => temp'[y] = temp[y]
      /\ v \in Int => temp' \in [Entry -> [Worker -> Int]]
  <2>1. temp \in [Entry -> [Worker -> Int]] /\ Sums(x) = temp[x]
    BY DEF LargeType, Sums
  <2> QED BY <1>1, <1>2, <2>1
<1>8. Sums(x)' = [Sums(x) EXCEPT ![l] = v] /\ Tally(x)' = Tally(x) /\ Ranks(x)' = Ranks(x) /\ OutStill(x)
  BY <1>3, <1>6, <1>7 DEF Tally, Sums, Ranks, OutStill, MaskRow, TotalOf, SortedRow, IdsRow
<1>9. v \in Int => LargeType' /\ OutputType' /\ LargeElsewhere(x) /\ Elsewhere(x)
  <2> SUFFICES ASSUME v \in Int PROVE LargeType' /\ OutputType' /\ LargeElsewhere(x) /\ Elsewhere(x)
    OBVIOUS
  <2>1. LargeType'
    BY <1>3, <1>5, <1>7 DEF LargeType
  <2>2. OutputType'
    BY <1>3 DEF OutputType
  <2>3. LargeElsewhere(x)
    BY <1>3, <1>6, <1>7 DEF LargeElsewhere
  <2>4. Elsewhere(x)
    BY <1>3 DEF Elsewhere
  <2> QED BY <2>1, <2>2, <2>3, <2>4
<1>10. (l < NumExperts => Padded(Tally(x)[l]) \in Int) => v \in Int
  BY DEF v
<1>11. [Sums(x) EXCEPT ![l] = v] = [Sums(x) EXCEPT ![l] = IF l < NumExperts THEN Padded(Tally(x)[l]) ELSE 0]
  BY DEF v
<1> QED BY <1>4, <1>6, <1>8, <1>9, <1>10, <1>11 DEF Local

ScanMoved(x) ==
  /\ \A l \in Worker : CountAt(x)[l] = Base + 3
  /\ CountAt(x)' = [l \in Worker |-> CountAt(x)[l] + 1] /\ CountLoop(x)' = [l \in Worker |-> l]
Scanned(x) ==
  \E s : /\ RunningSum(s, Sums(x))
         /\ Sums(x)' = [l \in Worker |-> s[l]]
         /\ (\A l \in Worker : s[l] \in Int) => Local(x)

LEMMA ScanIs ==
  ASSUME RoutedOK, LargeType, OutputType, NEW x, Live(x), Large!Scan(CountG(x))
  PROVE  /\ ScanMoved(x) /\ Scanned(x)
         /\ FillAt(x)' = FillAt(x) /\ SortStill(x) /\ OutStill(x)
         /\ Tally(x)' = Tally(x) /\ Ranks(x)' = Ranks(x)
<1>1. x \in Entry /\ CountG(x) \in Large!Group /\ CountG(x)[1] = x /\ 0 \in Worker
  BY LiveModel, Groups, WorkerFacts
<1> DEFINE F(s) == [l \in Nat |-> IF l = 0 THEN 0 ELSE s[l - 1] + temp[x][l - 1]]
           s0 == CHOOSE s : s = F(s)
<1>w. Large!Lane = Worker /\ \A l \in Worker : l \in Nat
  BY WorkerFacts
<1>2. /\ \A l \in Worker : Large!At(CountG(x), l, "scan")
      /\ alignPhase' = [alignPhase EXCEPT ![CountG(x)] = [l \in Worker |-> @[l] + 1]]
      /\ loopAt' = [loopAt EXCEPT ![CountG(x)] = [l \in Worker |-> l]]
      /\ temp' = [temp EXCEPT ![x] = [l \in Worker |-> s0[l]]]
      /\ UNCHANGED <<routed, held, sharedCounts, Large!outputs>>
  BY <1>1, <1>w DEF Large!Scan
<1>s. RunningSum(s0, Sums(x))
  <2>1. \E s : RunningSum(s, temp[x])
    BY SumExists
  <2>2. \A s : RunningSum(s, temp[x]) <=> s = F(s)
    BY Zenon DEF RunningSum
  <2> HIDE DEF F
  <2>3. s0 = F(s0)
    BY <2>1, <2>2, Zenon
  <2>4. Sums(x) = temp[x]
    BY DEF Sums
  <2> HIDE DEF s0
  <2> QED BY <2>2, <2>3, <2>4, Zenon
<1> HIDE DEF s0, F
<1>3. routed' = routed /\ held' = held /\ sharedCounts' = sharedCounts /\ cumsumBuffer' = cumsumBuffer
      /\ mask' = mask /\ total' = total /\ sorted' = sorted /\ expertIds' = expertIds
  BY <1>2 DEF Large!outputs
<1>4. ASSUME NEW l \in Worker PROVE CountAt(x)[l] = Base + 3
  <2>1. /\ CountAt(x)[l] \in Nat /\ CountAt(x)[l] < Base + 6
        /\ Large!Phases("count")[CountAt(x)[l] + 1] = "scan"
    BY <1>1, <1>2, AtFacts
  <2> QED BY <2>1, Numbered
<1> DEFINE v == [l \in Worker |-> CountAt(x)[l] + 1]
           w == [l \in Worker |-> l]
<1>5. /\ alignPhase' = [alignPhase EXCEPT ![CountG(x)] = v]
      /\ loopAt' = [loopAt EXCEPT ![CountG(x)] = w]
      /\ alignPhase' \in [Large!Group -> [Worker -> Nat]]
      /\ loopAt' \in [Large!Group -> [Worker -> Nat]]
  <2>1. alignPhase[CountG(x)] = CountAt(x) /\ CountAt(x) \in [Worker -> Nat]
    BY <1>1 DEF CountAt, LargeType
  <2>2. v \in [Worker -> Nat] /\ w \in [Worker -> Nat]
    BY <1>w, <2>1
  <2>3. alignPhase' = [alignPhase EXCEPT ![CountG(x)] = v]
    BY <1>1, <1>2, <2>1 DEF LargeType
  <2>4. loopAt' = [loopAt EXCEPT ![CountG(x)] = w]
    BY <1>2
  <2> HIDE DEF v, w
  <2> QED BY <1>1, <2>2, <2>3, <2>4 DEF LargeType
<1> HIDE DEF v, w
<1>6. /\ CountAt(x)' = v /\ CountLoop(x)' = w
      /\ FillAt(x)' = FillAt(x) /\ SortStill(x) /\ ModelOf(x)' = ModelOf(x)
      /\ \A h \in Large!Group : h[1] # x =>
           alignPhase'[h] = alignPhase[h] /\ loopAt'[h] = loopAt[h] /\ held'[h] = held[h]
  BY <1>1, <1>3, <1>5, CountGroupStep
<1>7. /\ temp'[x] = [l \in Worker |-> s0[l]]
      /\ \A y \in Entry : y # x => temp'[y] = temp[y]
      /\ (\A l \in Worker : s0[l] \in Int) => temp' \in [Entry -> [Worker -> Int]]
  <2>1. temp \in [Entry -> [Worker -> Int]]
    BY DEF LargeType
  <2> QED BY <1>1, <1>2, <2>1
<1>8. Sums(x)' = [l \in Worker |-> s0[l]] /\ Tally(x)' = Tally(x) /\ Ranks(x)' = Ranks(x) /\ OutStill(x)
  BY <1>3, <1>6, <1>7 DEF Tally, Sums, Ranks, OutStill, MaskRow, TotalOf, SortedRow, IdsRow
<1>9. (\A l \in Worker : s0[l] \in Int) => LargeType' /\ OutputType' /\ LargeElsewhere(x) /\ Elsewhere(x)
  <2> SUFFICES ASSUME \A l \in Worker : s0[l] \in Int
               PROVE  LargeType' /\ OutputType' /\ LargeElsewhere(x) /\ Elsewhere(x)
    OBVIOUS
  <2>1. LargeType'
    BY <1>3, <1>5, <1>7 DEF LargeType
  <2>2. OutputType'
    BY <1>3 DEF OutputType
  <2>3. LargeElsewhere(x)
    BY <1>3, <1>6, <1>7 DEF LargeElsewhere
  <2>4. Elsewhere(x)
    BY <1>3 DEF Elsewhere
  <2> QED BY <2>1, <2>2, <2>3, <2>4
<1>10. (\A l \in Worker : s0[l] \in Int) => Local(x)
  BY <1>9 DEF Local
<1>12. v = [l \in Worker |-> CountAt(x)[l] + 1] /\ w = [l \in Worker |-> l]
  BY DEF v, w
<1>13. CountAt(x)' = [l \in Worker |-> CountAt(x)[l] + 1] /\ CountLoop(x)' = [l \in Worker |-> l]
  BY <1>6, <1>12, Zenon
<1>14. \A l \in Worker : CountAt(x)[l] = Base + 3
  BY <1>4
<1>15. FillAt(x)' = FillAt(x) /\ SortStill(x) /\ OutStill(x) /\ Tally(x)' = Tally(x) /\ Ranks(x)' = Ranks(x)
  BY <1>6, <1>8
<1>16. ScanMoved(x)
  BY <1>13, <1>14, Zenon DEF ScanMoved
<1>17. Scanned(x)
  <2>1. PICK z : z = s0
    OBVIOUS
  <2>2. RunningSum(z, Sums(x)) /\ Sums(x)' = [l \in Worker |-> z[l]]
        /\ ((\A l \in Worker : z[l] \in Int) => Local(x))
    BY <1>s, <1>8, <1>10, <2>1
  <2> HIDE DEF s0, F
  <2> QED BY <2>2, Zenon DEF Scanned
<1> QED BY <1>15, <1>16, <1>17

LEMMA SumsIs ==
  ASSUME RoutedOK, LargeType, OutputType, NEW x, Live(x), NEW l \in Worker,
         Large!Sums(CountG(x), l)
  PROVE  /\ Reached(CountAt(x), l, Base + 4)
         /\ CountAt(x)' = Bumped(CountAt(x), l) /\ CountLoop(x)' = [CountLoop(x) EXCEPT ![l] = l]
         /\ FillAt(x)' = FillAt(x) /\ SortStill(x)
         /\ Ranks(x)' = (IF l <= NumExperts THEN [Ranks(x) EXCEPT ![l] = Sums(x)[l]] ELSE Ranks(x))
         /\ TotalOf(x)' = (IF l = NumExperts THEN Sums(x)[l] ELSE TotalOf(x))
         /\ MaskRow(x)' = MaskRow(x) /\ SortedRow(x)' = SortedRow(x) /\ IdsRow(x)' = IdsRow(x)
         /\ Tally(x)' = Tally(x) /\ Sums(x)' = Sums(x)
         /\ Local(x)
<1>1. x \in Entry /\ CountG(x) \in Large!Group /\ CountG(x)[1] = x
      /\ ModelOf(x) \in Model /\ Large!Of(CountG(x)) = ModelOf(x)
  BY LiveModel, Groups
<1>2. Large!At(CountG(x), l, "sums") /\ Large!EndPhase(CountG(x), l)
      /\ cumsumBuffer' = (IF l <= NumExperts THEN [cumsumBuffer EXCEPT ![ModelOf(x)][l] = Sums(x)[l]] ELSE cumsumBuffer)
      /\ total' = (IF l = NumExperts THEN [total EXCEPT ![ModelOf(x)] = Sums(x)[l]] ELSE total)
      /\ UNCHANGED <<routed, held, sharedCounts, temp, mask, sorted, expertIds>>
  BY <1>1 DEF Large!Sums, Sums
<1>3. routed' = routed /\ held' = held /\ sharedCounts' = sharedCounts /\ temp' = temp
      /\ mask' = mask /\ sorted' = sorted /\ expertIds' = expertIds
  BY <1>2
<1>4. Reached(CountAt(x), l, Base + 4)
  <2>1. /\ CountAt(x)[l] \in Nat /\ CountAt(x)[l] < Base + 6
        /\ Large!Phases("count")[CountAt(x)[l] + 1] = "sums"
        /\ Reached(CountAt(x), l, CountAt(x)[l])
    BY <1>1, <1>2, AtFacts
  <2>2. CountAt(x)[l] = Base + 4
    BY <2>1, Numbered
  <2> QED BY <2>1, <2>2
<1>5. /\ alignPhase' = [alignPhase EXCEPT ![CountG(x)] = Bumped(CountAt(x), l)]
      /\ loopAt' = [loopAt EXCEPT ![CountG(x)] = [CountLoop(x) EXCEPT ![l] = l]]
      /\ alignPhase' \in [Large!Group -> [Worker -> Nat]]
      /\ loopAt' \in [Large!Group -> [Worker -> Nat]]
  BY <1>1, <1>2, EndPhaseIs DEF CountAt, CountLoop
<1>6. /\ CountAt(x)' = Bumped(CountAt(x), l) /\ CountLoop(x)' = [CountLoop(x) EXCEPT ![l] = l]
      /\ FillAt(x)' = FillAt(x) /\ SortStill(x) /\ ModelOf(x)' = ModelOf(x)
      /\ \A h \in Large!Group : h[1] # x =>
           alignPhase'[h] = alignPhase[h] /\ loopAt'[h] = loopAt[h] /\ held'[h] = held[h]
  BY <1>3, <1>5, CountGroupStep
<1>7. /\ cumsumBuffer'[ModelOf(x)] = (IF l <= NumExperts THEN [Ranks(x) EXCEPT ![l] = Sums(x)[l]] ELSE Ranks(x))
      /\ \A m \in Model : m # ModelOf(x) => cumsumBuffer'[m] = cumsumBuffer[m]
      /\ cumsumBuffer' \in [Model -> [0 .. NumExperts -> Int]]
      /\ total'[ModelOf(x)] = (IF l = NumExperts THEN Sums(x)[l] ELSE TotalOf(x))
      /\ \A m \in Model : m # ModelOf(x) => total'[m] = total[m]
      /\ total' \in [Model -> Int]
  <2>1. cumsumBuffer \in [Model -> [0 .. NumExperts -> Int]] /\ Ranks(x) = cumsumBuffer[ModelOf(x)]
        /\ total \in [Model -> Int] /\ TotalOf(x) = total[ModelOf(x)] /\ Sums(x)[l] \in Int
    BY <1>1 DEF LargeType, OutputType, Ranks, TotalOf, Sums
  <2>2. CASE l <= NumExperts
    BY <1>1, <1>2, <2>1, <2>2
  <2>3. CASE ~(l <= NumExperts)
    BY <1>1, <1>2, <2>1, <2>3
  <2> QED BY <2>2, <2>3
<1>8. /\ Ranks(x)' = (IF l <= NumExperts THEN [Ranks(x) EXCEPT ![l] = Sums(x)[l]] ELSE Ranks(x))
      /\ TotalOf(x)' = (IF l = NumExperts THEN Sums(x)[l] ELSE TotalOf(x))
  BY <1>6, <1>7 DEF Ranks, TotalOf
<1>9. MaskRow(x)' = MaskRow(x) /\ SortedRow(x)' = SortedRow(x) /\ IdsRow(x)' = IdsRow(x)
      /\ Tally(x)' = Tally(x) /\ Sums(x)' = Sums(x)
  BY <1>3, <1>6 DEF Tally, Sums, MaskRow, SortedRow, IdsRow
<1>10. LargeType' /\ OutputType' /\ LargeElsewhere(x) /\ Elsewhere(x)
  <2>1. LargeType'
    BY <1>3, <1>5, <1>7 DEF LargeType
  <2>2. OutputType'
    BY <1>1, <1>3, <1>7 DEF OutputType
  <2>3. LargeElsewhere(x)
    BY <1>3, <1>6, <1>7 DEF LargeElsewhere
  <2>4. Elsewhere(x)
    BY <1>3, <1>7 DEF Elsewhere
  <2> QED BY <2>1, <2>2, <2>3, <2>4
<1> QED BY <1>4, <1>6, <1>8, <1>9, <1>10 DEF Local

Namings(m, ids, t, n) ==
  [b \in Block |-> IF b \in Rest(m, t, n) THEN Inactive ELSE IF b \in Mine(m, t) THEN t ELSE ids[b]]

LEMMA NameBlocksIs ==
  ASSUME RoutedOK, LargeType, OutputType, NEW x, Live(x), NEW l \in Worker,
         Large!NameBlocks(CountG(x), l),
         \A e \in 0 .. NumExperts : Ranks(x)[e] = Start(ModelOf(x), e)
  PROVE  /\ Reached(CountAt(x), l, Base + 5)
         /\ CountAt(x)' = Bumped(CountAt(x), l) /\ CountLoop(x)' = [CountLoop(x) EXCEPT ![l] = l]
         /\ FillAt(x)' = FillAt(x) /\ SortStill(x)
         /\ MaskRow(x)' = MaskRow(x) /\ SortedRow(x)' = SortedRow(x) /\ TotalOf(x)' = TotalOf(x)
         /\ IdsRow(x)' = Namings(ModelOf(x), IdsRow(x), l, Lanes)
         /\ Tally(x)' = Tally(x) /\ Sums(x)' = Sums(x) /\ Ranks(x)' = Ranks(x)
         /\ Local(x)
<1> DEFINE n == Namings(ModelOf(x), IdsRow(x), l, Lanes)
<1>1. x \in Entry /\ CountG(x) \in Large!Group /\ CountG(x)[1] = x
      /\ ModelOf(x) \in Model /\ Large!Of(CountG(x)) = ModelOf(x)
      /\ l \in Nat /\ NumExperts \in Nat
  BY LiveModel, Groups, WorkerFacts, Sizes
<1>d. Large!Block = Block /\ Large!Inactive = Inactive /\ Large!Blocks = Blocks
  BY DEF Large!Block, Block, Large!Blocks, Blocks, Large!CeilDiv, CeilDiv, Large!Inactive, Inactive
<1>m. {b \in Block : l < NumExperts /\ b * BlockSize >= Ranks(x)[l] /\ b * BlockSize < Ranks(x)[l + 1]} = Mine(ModelOf(x), l)
  <2>1. l < NumExperts => l \in 0 .. NumExperts /\ l + 1 \in 0 .. NumExperts
    BY <1>1
  <2>2. l < NumExperts => Ranks(x)[l] = Start(ModelOf(x), l) /\ Ranks(x)[l + 1] = Start(ModelOf(x), l + 1)
    BY <2>1
  <2> QED BY <2>2 DEF Mine
<1>r. {b \in Block : \E k \in 0 .. Blocks : b = Ranks(x)[NumExperts] \div BlockSize + l + k * Lanes} = Rest(ModelOf(x), l, Lanes)
  <2>1. NumExperts \in 0 .. NumExperts
    BY <1>1
  <2>2. Ranks(x)[NumExperts] = Start(ModelOf(x), NumExperts)
    BY <2>1
  <2> QED BY <2>2, Zenon DEF Rest
<1>2. Large!At(CountG(x), l, "blocks") /\ Large!EndPhase(CountG(x), l)
      /\ expertIds' = [expertIds EXCEPT ![ModelOf(x)] = [b \in Block |->
           IF b \in Rest(ModelOf(x), l, Lanes) THEN Inactive ELSE IF b \in Mine(ModelOf(x), l) THEN l ELSE @[b]]]
      /\ UNCHANGED <<routed, held, sharedCounts, temp, cumsumBuffer, mask, total, sorted>>
  <2>1. /\ Large!At(CountG(x), l, "blocks") /\ Large!EndPhase(CountG(x), l)
        /\ UNCHANGED <<routed, held, sharedCounts, temp, cumsumBuffer, mask, total, sorted>>
    BY DEF Large!NameBlocks
  <2>2. expertIds' = [expertIds EXCEPT ![ModelOf(x)] = [b \in Block |->
           IF b \in {c \in Block : \E k \in 0 .. Blocks : c = Ranks(x)[NumExperts] \div BlockSize + l + k * Lanes}
           THEN Inactive
           ELSE IF b \in {c \in Block : l < NumExperts /\ c * BlockSize >= Ranks(x)[l] /\ c * BlockSize < Ranks(x)[l + 1]}
                THEN l ELSE @[b]]]
    BY <1>1, <1>d, Zenon DEF Large!NameBlocks, Ranks
  <2> QED BY <2>1, <2>2, <1>m, <1>r, Zenon
<1>3. routed' = routed /\ held' = held /\ sharedCounts' = sharedCounts /\ temp' = temp
      /\ cumsumBuffer' = cumsumBuffer /\ mask' = mask /\ sorted' = sorted /\ total' = total
  BY <1>2
<1>4. Reached(CountAt(x), l, Base + 5)
  <2>1. /\ CountAt(x)[l] \in Nat /\ CountAt(x)[l] < Base + 6
        /\ Large!Phases("count")[CountAt(x)[l] + 1] = "blocks"
        /\ Reached(CountAt(x), l, CountAt(x)[l])
    BY <1>1, <1>2, AtFacts
  <2>2. CountAt(x)[l] = Base + 5
    BY <2>1, Numbered
  <2> QED BY <2>1, <2>2
<1>5. /\ alignPhase' = [alignPhase EXCEPT ![CountG(x)] = Bumped(CountAt(x), l)]
      /\ loopAt' = [loopAt EXCEPT ![CountG(x)] = [CountLoop(x) EXCEPT ![l] = l]]
      /\ alignPhase' \in [Large!Group -> [Worker -> Nat]]
      /\ loopAt' \in [Large!Group -> [Worker -> Nat]]
  BY <1>1, <1>2, EndPhaseIs DEF CountAt, CountLoop
<1>6. /\ CountAt(x)' = Bumped(CountAt(x), l) /\ CountLoop(x)' = [CountLoop(x) EXCEPT ![l] = l]
      /\ FillAt(x)' = FillAt(x) /\ SortStill(x) /\ ModelOf(x)' = ModelOf(x)
      /\ \A h \in Large!Group : h[1] # x =>
           alignPhase'[h] = alignPhase[h] /\ loopAt'[h] = loopAt[h] /\ held'[h] = held[h]
  BY <1>3, <1>5, CountGroupStep
<1>7. /\ expertIds'[ModelOf(x)] = n
      /\ \A m \in Model : m # ModelOf(x) => expertIds'[m] = expertIds[m]
      /\ expertIds' \in [Model -> [Block -> Int]]
  <2>1. expertIds \in [Model -> [Block -> Int]] /\ IdsRow(x) = expertIds[ModelOf(x)]
        /\ IdsRow(x) \in [Block -> Int] /\ l \in Int /\ Inactive \in Int
    BY <1>1 DEF OutputType, IdsRow, Inactive
  <2>2. n \in [Block -> Int]
    BY <2>1 DEF Namings
  <2>3. expertIds' = [expertIds EXCEPT ![ModelOf(x)] = n]
    BY <1>2, <2>1 DEF Namings
  <2> HIDE DEF n
  <2> QED BY <1>1, <2>1, <2>2, <2>3
<1>8. MaskRow(x)' = MaskRow(x) /\ SortedRow(x)' = SortedRow(x) /\ TotalOf(x)' = TotalOf(x)
      /\ Tally(x)' = Tally(x) /\ Sums(x)' = Sums(x) /\ Ranks(x)' = Ranks(x) /\ IdsRow(x)' = n
  BY <1>3, <1>6, <1>7 DEF Tally, Sums, Ranks, MaskRow, SortedRow, TotalOf, IdsRow
<1> HIDE DEF n
<1>10. LargeType' /\ OutputType' /\ LargeElsewhere(x) /\ Elsewhere(x)
  <2>1. LargeType'
    BY <1>3, <1>5, <1>7 DEF LargeType
  <2>2. OutputType'
    BY <1>1, <1>3, <1>7 DEF OutputType
  <2>3. LargeElsewhere(x)
    BY <1>3, <1>6, <1>7 DEF LargeElsewhere
  <2>4. Elsewhere(x)
    BY <1>3, <1>7 DEF Elsewhere
  <2> QED BY <2>1, <2>2, <2>3, <2>4
<1>11. n = Namings(ModelOf(x), IdsRow(x), l, Lanes)
  BY DEF n
<1> QED BY <1>4, <1>6, <1>8, <1>10, <1>11 DEF Local

LEMMA MaskCountIs ==
  ASSUME RoutedOK, LargeType, OutputType, NEW x, Live(x), NEW l \in Worker,
         Large!Mask(CountG(x), l)
  PROVE  /\ Base = 1 /\ Reached(CountAt(x), l, 0)
         /\ CountAt(x)' = Bumped(CountAt(x), l) /\ CountLoop(x)' = [CountLoop(x) EXCEPT ![l] = l]
         /\ FillAt(x)' = FillAt(x) /\ SortStill(x)
         /\ MaskRow(x)' = (IF l = 0 THEN Wanted(ModelOf(x)) ELSE MaskRow(x))
         /\ TotalOf(x)' = (IF l = 0 THEN 0 ELSE TotalOf(x))
         /\ SortedRow(x)' = SortedRow(x) /\ IdsRow(x)' = IdsRow(x)
         /\ Tally(x)' = Tally(x) /\ Sums(x)' = Sums(x) /\ Ranks(x)' = Ranks(x)
         /\ Local(x)
<1>1. x \in Entry /\ CountG(x) \in Large!Group /\ CountG(x)[1] = x
      /\ ModelOf(x) \in Model /\ Large!Of(CountG(x)) = ModelOf(x)
  BY LiveModel, Groups
<1>2. Large!At(CountG(x), l, "mask") /\ Large!EndPhase(CountG(x), l)
      /\ total' = (IF l = 0 THEN [total EXCEPT ![ModelOf(x)] = 0] ELSE total)
      /\ mask' = (IF l = 0 THEN [mask EXCEPT ![ModelOf(x)] = Large!MaskOf(ModelOf(x))] ELSE mask)
      /\ UNCHANGED <<routed, held, sharedCounts, temp, cumsumBuffer, sorted, expertIds>>
  BY <1>1 DEF Large!Mask
<1>3. routed' = routed /\ held' = held /\ sharedCounts' = sharedCounts /\ temp' = temp
      /\ cumsumBuffer' = cumsumBuffer /\ sorted' = sorted /\ expertIds' = expertIds
  BY <1>2
<1>4. Base = 1 /\ Reached(CountAt(x), l, 0)
  <2>1. /\ CountAt(x)[l] \in Nat /\ CountAt(x)[l] < Base + 6
        /\ Large!Phases("count")[CountAt(x)[l] + 1] = "mask"
        /\ Reached(CountAt(x), l, CountAt(x)[l])
    BY <1>1, <1>2, AtFacts
  <2>2. Base = 1 /\ CountAt(x)[l] = 0
    BY <2>1, Numbered
  <2> QED BY <2>1, <2>2
<1>w. Large!MaskOf(ModelOf(x)) = Wanted(ModelOf(x)) /\ Wanted(ModelOf(x)) \in [AlignToken -> Int]
  <2>1. routed.multi
    BY <1>4, Numbered
  <2>2. Large!AlignToken = AlignToken
    BY DEF Large!AlignToken, AlignToken
  <2> QED BY <2>1, <2>2 DEF Large!MaskOf, Wanted
<1>5. /\ alignPhase' = [alignPhase EXCEPT ![CountG(x)] = Bumped(CountAt(x), l)]
      /\ loopAt' = [loopAt EXCEPT ![CountG(x)] = [CountLoop(x) EXCEPT ![l] = l]]
      /\ alignPhase' \in [Large!Group -> [Worker -> Nat]]
      /\ loopAt' \in [Large!Group -> [Worker -> Nat]]
  BY <1>1, <1>2, EndPhaseIs DEF CountAt, CountLoop
<1>6. /\ CountAt(x)' = Bumped(CountAt(x), l) /\ CountLoop(x)' = [CountLoop(x) EXCEPT ![l] = l]
      /\ FillAt(x)' = FillAt(x) /\ SortStill(x) /\ ModelOf(x)' = ModelOf(x)
      /\ \A h \in Large!Group : h[1] # x =>
           alignPhase'[h] = alignPhase[h] /\ loopAt'[h] = loopAt[h] /\ held'[h] = held[h]
  BY <1>3, <1>5, CountGroupStep
<1>7. /\ mask'[ModelOf(x)] = (IF l = 0 THEN Wanted(ModelOf(x)) ELSE MaskRow(x))
      /\ \A m \in Model : m # ModelOf(x) => mask'[m] = mask[m]
      /\ mask' \in [Model -> [AlignToken -> Int]]
      /\ total'[ModelOf(x)] = (IF l = 0 THEN 0 ELSE TotalOf(x))
      /\ \A m \in Model : m # ModelOf(x) => total'[m] = total[m]
      /\ total' \in [Model -> Int]
  <2>1. mask \in [Model -> [AlignToken -> Int]] /\ MaskRow(x) = mask[ModelOf(x)]
        /\ total \in [Model -> Int] /\ TotalOf(x) = total[ModelOf(x)]
    BY <1>1 DEF OutputType, MaskRow, TotalOf
  <2>2. CASE l = 0
    BY <1>1, <1>2, <1>w, <2>1, <2>2
  <2>3. CASE l # 0
    BY <1>1, <1>2, <2>1, <2>3
  <2> QED BY <2>2, <2>3
<1>8. /\ MaskRow(x)' = (IF l = 0 THEN Wanted(ModelOf(x)) ELSE MaskRow(x))
      /\ TotalOf(x)' = (IF l = 0 THEN 0 ELSE TotalOf(x))
  BY <1>6, <1>7 DEF MaskRow, TotalOf
<1>9. SortedRow(x)' = SortedRow(x) /\ IdsRow(x)' = IdsRow(x)
      /\ Tally(x)' = Tally(x) /\ Sums(x)' = Sums(x) /\ Ranks(x)' = Ranks(x)
  BY <1>3, <1>6 DEF Tally, Sums, Ranks, SortedRow, IdsRow
<1>10. LargeType' /\ OutputType' /\ LargeElsewhere(x) /\ Elsewhere(x)
  <2>1. LargeType'
    BY <1>3, <1>5, <1>7 DEF LargeType
  <2>2. OutputType'
    BY <1>1, <1>3, <1>7 DEF OutputType
  <2>3. LargeElsewhere(x)
    BY <1>3, <1>6, <1>7 DEF LargeElsewhere
  <2>4. Elsewhere(x)
    BY <1>3, <1>7 DEF Elsewhere
  <2> QED BY <2>1, <2>2, <2>3, <2>4
<1> QED BY <1>4, <1>6, <1>8, <1>9, <1>10 DEF Local

LEMMA MaskFillIs ==
  ASSUME RoutedOK, LargeType, OutputType, NEW x, Live(x), NEW l \in Worker,
         Large!Mask(FillG(x), l)
  PROVE  /\ Base = 1 /\ Reached(FillAt(x), l, 0)
         /\ FillAt(x)' = Bumped(FillAt(x), l)
         /\ CountAt(x)' = CountAt(x) /\ CountLoop(x)' = CountLoop(x) /\ SortStill(x)
         /\ MaskRow(x)' = (IF l = 0 THEN Wanted(ModelOf(x)) ELSE MaskRow(x))
         /\ TotalOf(x)' = (IF l = 0 THEN 0 ELSE TotalOf(x))
         /\ SortedRow(x)' = SortedRow(x) /\ IdsRow(x)' = IdsRow(x)
         /\ Tally(x)' = Tally(x) /\ Sums(x)' = Sums(x) /\ Ranks(x)' = Ranks(x)
         /\ Local(x)
<1>1. x \in Entry /\ FillG(x) \in Large!Group /\ FillG(x)[1] = x
      /\ ModelOf(x) \in Model /\ Large!Of(FillG(x)) = ModelOf(x)
  BY LiveModel, Groups
<1>2. Large!At(FillG(x), l, "mask") /\ Large!EndPhase(FillG(x), l)
      /\ total' = (IF l = 0 THEN [total EXCEPT ![ModelOf(x)] = 0] ELSE total)
      /\ mask' = (IF l = 0 THEN [mask EXCEPT ![ModelOf(x)] = Large!MaskOf(ModelOf(x))] ELSE mask)
      /\ UNCHANGED <<routed, held, sharedCounts, temp, cumsumBuffer, sorted, expertIds>>
  BY <1>1 DEF Large!Mask
<1>3. routed' = routed /\ held' = held /\ sharedCounts' = sharedCounts /\ temp' = temp
      /\ cumsumBuffer' = cumsumBuffer /\ sorted' = sorted /\ expertIds' = expertIds
  BY <1>2
<1>4. Base = 1 /\ Reached(FillAt(x), l, 0)
  <2>1. /\ FillAt(x)[l] \in Nat /\ FillAt(x)[l] < Base + 1
        /\ Large!Phases("fill")[FillAt(x)[l] + 1] = "mask"
        /\ Reached(FillAt(x), l, FillAt(x)[l])
    BY <1>1, <1>2, AtFacts
  <2>2. Base = 1 /\ FillAt(x)[l] = 0
    BY <2>1, Numbered
  <2> QED BY <2>1, <2>2
<1>w. Large!MaskOf(ModelOf(x)) = Wanted(ModelOf(x)) /\ Wanted(ModelOf(x)) \in [AlignToken -> Int]
  <2>1. routed.multi
    BY <1>4, Numbered
  <2>2. Large!AlignToken = AlignToken
    BY DEF Large!AlignToken, AlignToken
  <2> QED BY <2>1, <2>2 DEF Large!MaskOf, Wanted
<1>5. /\ alignPhase' = [alignPhase EXCEPT ![FillG(x)] = Bumped(FillAt(x), l)]
      /\ loopAt' = [loopAt EXCEPT ![FillG(x)] = [loopAt[FillG(x)] EXCEPT ![l] = l]]
      /\ alignPhase' \in [Large!Group -> [Worker -> Nat]]
      /\ loopAt' \in [Large!Group -> [Worker -> Nat]]
  BY <1>1, <1>2, EndPhaseIs DEF FillAt
<1>6. /\ FillAt(x)' = Bumped(FillAt(x), l)
      /\ CountAt(x)' = CountAt(x) /\ CountLoop(x)' = CountLoop(x) /\ SortStill(x)
      /\ ModelOf(x)' = ModelOf(x)
      /\ \A h \in Large!Group : h[1] # x =>
           alignPhase'[h] = alignPhase[h] /\ loopAt'[h] = loopAt[h] /\ held'[h] = held[h]
  <2>1. PICK v, w : v = Bumped(FillAt(x), l) /\ w = [loopAt[FillG(x)] EXCEPT ![l] = l]
    OBVIOUS
  <2>2. /\ alignPhase' = [alignPhase EXCEPT ![FillG(x)] = v]
        /\ loopAt' = [loopAt EXCEPT ![FillG(x)] = w]
    BY <1>5, <2>1
  <2>3. /\ FillAt(x)' = v
        /\ CountAt(x)' = CountAt(x) /\ CountLoop(x)' = CountLoop(x) /\ SortStill(x)
        /\ ModelOf(x)' = ModelOf(x)
        /\ \A h \in Large!Group : h[1] # x =>
             alignPhase'[h] = alignPhase[h] /\ loopAt'[h] = loopAt[h] /\ held'[h] = held[h]
    BY <1>3, <2>2, FillGroupStep
  <2> QED BY <2>1, <2>3
<1>7. /\ mask'[ModelOf(x)] = (IF l = 0 THEN Wanted(ModelOf(x)) ELSE MaskRow(x))
      /\ \A m \in Model : m # ModelOf(x) => mask'[m] = mask[m]
      /\ mask' \in [Model -> [AlignToken -> Int]]
      /\ total'[ModelOf(x)] = (IF l = 0 THEN 0 ELSE TotalOf(x))
      /\ \A m \in Model : m # ModelOf(x) => total'[m] = total[m]
      /\ total' \in [Model -> Int]
  <2>1. mask \in [Model -> [AlignToken -> Int]] /\ MaskRow(x) = mask[ModelOf(x)]
        /\ total \in [Model -> Int] /\ TotalOf(x) = total[ModelOf(x)]
    BY <1>1 DEF OutputType, MaskRow, TotalOf
  <2>2. CASE l = 0
    BY <1>1, <1>2, <1>w, <2>1, <2>2
  <2>3. CASE l # 0
    BY <1>1, <1>2, <2>1, <2>3
  <2> QED BY <2>2, <2>3
<1>8. /\ MaskRow(x)' = (IF l = 0 THEN Wanted(ModelOf(x)) ELSE MaskRow(x))
      /\ TotalOf(x)' = (IF l = 0 THEN 0 ELSE TotalOf(x))
  BY <1>6, <1>7 DEF MaskRow, TotalOf
<1>9. SortedRow(x)' = SortedRow(x) /\ IdsRow(x)' = IdsRow(x)
      /\ Tally(x)' = Tally(x) /\ Sums(x)' = Sums(x) /\ Ranks(x)' = Ranks(x)
  BY <1>3, <1>6 DEF Tally, Sums, Ranks, SortedRow, IdsRow
<1>10. LargeType' /\ OutputType' /\ LargeElsewhere(x) /\ Elsewhere(x)
  <2>1. LargeType'
    BY <1>3, <1>5, <1>7 DEF LargeType
  <2>2. OutputType'
    BY <1>1, <1>3, <1>7 DEF OutputType
  <2>3. LargeElsewhere(x)
    BY <1>3, <1>6, <1>7 DEF LargeElsewhere
  <2>4. Elsewhere(x)
    BY <1>3, <1>7 DEF Elsewhere
  <2> QED BY <2>1, <2>2, <2>3, <2>4
<1> QED BY <1>4, <1>6, <1>8, <1>9, <1>10 DEF Local

Filling(row, l, n) == [p \in Position |-> IF p % n = l THEN Numel ELSE row[p]]

LEMMA FillIs ==
  ASSUME RoutedOK, LargeType, OutputType, NEW x, Live(x), NEW l \in Worker,
         Large!Fill(FillG(x), l)
  PROVE  /\ Reached(FillAt(x), l, Base)
         /\ FillAt(x)' = Bumped(FillAt(x), l)
         /\ CountAt(x)' = CountAt(x) /\ CountLoop(x)' = CountLoop(x) /\ SortStill(x)
         /\ MaskRow(x)' = MaskRow(x) /\ TotalOf(x)' = TotalOf(x) /\ IdsRow(x)' = IdsRow(x)
         /\ SortedRow(x)' = Filling(SortedRow(x), l, Lanes)
         /\ Tally(x)' = Tally(x) /\ Sums(x)' = Sums(x) /\ Ranks(x)' = Ranks(x)
         /\ Local(x)
<1>1. x \in Entry /\ FillG(x) \in Large!Group /\ FillG(x)[1] = x
      /\ ModelOf(x) \in Model /\ Large!Of(FillG(x)) = ModelOf(x)
  BY LiveModel, Groups
<1> DEFINE n == Filling(SortedRow(x), l, Lanes)
<1>d. Large!Position = Position
  BY DEF Large!Position, Position
<1>2. Large!At(FillG(x), l, "fill") /\ Large!EndPhase(FillG(x), l)
      /\ sorted' = [sorted EXCEPT ![ModelOf(x)] = [p \in Position |-> IF p % Lanes = l THEN Numel ELSE @[p]]]
      /\ UNCHANGED <<routed, held, sharedCounts, temp, cumsumBuffer, mask, total, expertIds>>
  BY <1>1, <1>d DEF Large!Fill
<1>3. routed' = routed /\ held' = held /\ sharedCounts' = sharedCounts /\ temp' = temp
      /\ cumsumBuffer' = cumsumBuffer /\ mask' = mask /\ total' = total /\ expertIds' = expertIds
  BY <1>2
<1>4. Reached(FillAt(x), l, Base)
  <2>1. /\ FillAt(x)[l] \in Nat /\ FillAt(x)[l] < Base + 1
        /\ Large!Phases("fill")[FillAt(x)[l] + 1] = "fill"
        /\ Reached(FillAt(x), l, FillAt(x)[l])
    BY <1>1, <1>2, AtFacts
  <2>2. FillAt(x)[l] = Base
    BY <2>1, Numbered
  <2> QED BY <2>1, <2>2
<1>5. /\ alignPhase' = [alignPhase EXCEPT ![FillG(x)] = Bumped(FillAt(x), l)]
      /\ loopAt' = [loopAt EXCEPT ![FillG(x)] = [loopAt[FillG(x)] EXCEPT ![l] = l]]
      /\ alignPhase' \in [Large!Group -> [Worker -> Nat]]
      /\ loopAt' \in [Large!Group -> [Worker -> Nat]]
  BY <1>1, <1>2, EndPhaseIs DEF FillAt
<1>6. /\ FillAt(x)' = Bumped(FillAt(x), l)
      /\ CountAt(x)' = CountAt(x) /\ CountLoop(x)' = CountLoop(x) /\ SortStill(x)
      /\ ModelOf(x)' = ModelOf(x)
      /\ \A h \in Large!Group : h[1] # x =>
           alignPhase'[h] = alignPhase[h] /\ loopAt'[h] = loopAt[h] /\ held'[h] = held[h]
  <2>1. PICK v, w : v = Bumped(FillAt(x), l) /\ w = [loopAt[FillG(x)] EXCEPT ![l] = l]
    OBVIOUS
  <2>2. /\ alignPhase' = [alignPhase EXCEPT ![FillG(x)] = v]
        /\ loopAt' = [loopAt EXCEPT ![FillG(x)] = w]
    BY <1>5, <2>1
  <2>3. /\ FillAt(x)' = v
        /\ CountAt(x)' = CountAt(x) /\ CountLoop(x)' = CountLoop(x) /\ SortStill(x)
        /\ ModelOf(x)' = ModelOf(x)
        /\ \A h \in Large!Group : h[1] # x =>
             alignPhase'[h] = alignPhase[h] /\ loopAt'[h] = loopAt[h] /\ held'[h] = held[h]
    BY <1>3, <2>2, FillGroupStep
  <2> QED BY <2>1, <2>3
<1>7. /\ sorted'[ModelOf(x)] = n
      /\ \A m \in Model : m # ModelOf(x) => sorted'[m] = sorted[m]
      /\ sorted' \in [Model -> [Position -> Int]]
  <2>1. sorted \in [Model -> [Position -> Int]] /\ SortedRow(x) = sorted[ModelOf(x)]
        /\ SortedRow(x) \in [Position -> Int] /\ Numel \in Int
    BY <1>1, Sizes DEF OutputType, SortedRow
  <2>2. n \in [Position -> Int]
    BY <2>1 DEF Filling
  <2>3. sorted' = [sorted EXCEPT ![ModelOf(x)] = n]
    BY <1>2, <2>1 DEF Filling
  <2> HIDE DEF n
  <2> QED BY <1>1, <2>1, <2>2, <2>3
<1>8. MaskRow(x)' = MaskRow(x) /\ IdsRow(x)' = IdsRow(x) /\ TotalOf(x)' = TotalOf(x)
      /\ Tally(x)' = Tally(x) /\ Sums(x)' = Sums(x) /\ Ranks(x)' = Ranks(x) /\ SortedRow(x)' = n
  BY <1>3, <1>6, <1>7 DEF Tally, Sums, Ranks, MaskRow, SortedRow, TotalOf, IdsRow
<1> HIDE DEF n
<1>10. LargeType' /\ OutputType' /\ LargeElsewhere(x) /\ Elsewhere(x)
  <2>1. LargeType'
    BY <1>3, <1>5, <1>7 DEF LargeType
  <2>2. OutputType'
    BY <1>1, <1>3, <1>7 DEF OutputType
  <2>3. LargeElsewhere(x)
    BY <1>3, <1>6, <1>7 DEF LargeElsewhere
  <2>4. Elsewhere(x)
    BY <1>3, <1>7 DEF Elsewhere
  <2> QED BY <2>1, <2>2, <2>3, <2>4
<1>11. n = Filling(SortedRow(x), l, Lanes)
  BY DEF n
<1> QED BY <1>4, <1>6, <1>8, <1>10, <1>11 DEF Local

(* A step of the group that sorts: what it does to phases and loops.       *)
LEMMA SortGroupStep ==
  ASSUME RoutedOK, LargeType, NEW x, Live(x), NEW u, NEW v, NEW w,
         alignPhase' = [alignPhase EXCEPT ![SortG(x)] = v],
         loopAt' = [loopAt EXCEPT ![SortG(x)] = w],
         held' = [held EXCEPT ![SortG(x)] = u], routed' = routed
  PROVE  /\ SortAt(x)' = v /\ SortLoop(x)' = w /\ Held(x)' = u
         /\ FillAt(x)' = FillAt(x) /\ CountAt(x)' = CountAt(x) /\ CountLoop(x)' = CountLoop(x)
         /\ ModelOf(x)' = ModelOf(x)
         /\ \A h \in Large!Group : h[1] # x =>
              alignPhase'[h] = alignPhase[h] /\ loopAt'[h] = loopAt[h] /\ held'[h] = held[h]
<1>1. x \in Entry
  BY LiveModel
<1>2. /\ CountG(x) \in Large!Group /\ FillG(x) \in Large!Group /\ SortG(x) \in Large!Group
      /\ CountG(x) # FillG(x) /\ CountG(x) # SortG(x) /\ FillG(x) # SortG(x)
      /\ CountG(x)[1] = x /\ FillG(x)[1] = x /\ SortG(x)[1] = x
  BY <1>1, Groups
<1>3. /\ alignPhase'[SortG(x)] = v /\ loopAt'[SortG(x)] = w
      /\ \A h \in Large!Group : h # SortG(x) => alignPhase'[h] = alignPhase[h] /\ loopAt'[h] = loopAt[h]
  BY <1>2, OneGroup
<1>h. /\ held'[SortG(x)] = u
      /\ \A h \in Large!Group : h # SortG(x) => held'[h] = held[h]
  BY <1>2 DEF LargeType
<1>4. CountG(x)' = CountG(x) /\ FillG(x)' = FillG(x) /\ SortG(x)' = SortG(x)
  BY DEF CountG, FillG, SortG
<1>5. ModelOf(x)' = ModelOf(x)
  BY DEF ModelOf
<1>6. CountAt(x)' = CountAt(x) /\ CountLoop(x)' = CountLoop(x) /\ FillAt(x)' = FillAt(x)
  BY <1>2, <1>3, <1>4 DEF CountAt, CountLoop, FillAt
<1>7. SortAt(x)' = v /\ SortLoop(x)' = w /\ Held(x)' = u
  BY <1>2, <1>3, <1>h, <1>4 DEF SortAt, SortLoop, Held
<1>8. ASSUME NEW h \in Large!Group, h[1] # x
      PROVE  alignPhase'[h] = alignPhase[h] /\ loopAt'[h] = loopAt[h] /\ held'[h] = held[h]
  BY <1>2, <1>3, <1>h, <1>8
<1> QED BY <1>5, <1>6, <1>7, <1>8

LEMMA FirstEnded ==
  ASSUME RoutedOK, Large!FirstKernelEnded, NEW x, Live(x), NEW l \in Worker
  PROVE  CountAt(x)[l] = Base + 6 /\ FillAt(x)[l] = Base + 1
<1>1. x \in Entry /\ ~Skipped(x)
  BY DEF Live
<1>2. /\ CountG(x)[1] = x /\ CountG(x)[2] = "count" /\ FillG(x)[1] = x /\ FillG(x)[2] = "fill"
      /\ Large!Skipped(x) = Skipped(x)
  BY <1>1, Groups
<1>3. Large!Ended(CountG(x)) /\ Large!Ended(FillG(x))
  BY <1>1 DEF Large!FirstKernelEnded, Large!Entry, Entry, CountG, FillG
<1>4. /\ alignPhase[CountG(x)][l] = Large!Steps("count")
      /\ alignPhase[FillG(x)][l] = Large!Steps("fill")
  BY <1>1, <1>2, <1>3, WorkerFacts DEF Large!Ended
<1> QED BY <1>4, Numbered DEF CountAt, FillAt

(* One turn of the second kernel's loop over the slots, or the end of it.  *)
SortTurn(x, l) ==
  IF SortLoop(x)[l] < Numel
  THEN SortAt(x)' = SortAt(x) /\ SortLoop(x)' = [SortLoop(x) EXCEPT ![l] = @ + Lanes]
  ELSE SortAt(x)' = Bumped(SortAt(x), l) /\ SortLoop(x)' = [SortLoop(x) EXCEPT ![l] = l]

LEMMA SortTurns ==
  ASSUME RoutedOK, LargeType, NEW x, Live(x), NEW l \in Worker, NEW u,
         held' = [held EXCEPT ![SortG(x)] = u], routed' = routed,
         Large!Turn(SortG(x), l)
  PROVE  /\ SortTurn(x, l) /\ Held(x)' = u
         /\ alignPhase' \in [Large!Group -> [Worker -> Nat]]
         /\ loopAt' \in [Large!Group -> [Worker -> Nat]]
         /\ FillAt(x)' = FillAt(x) /\ CountAt(x)' = CountAt(x) /\ CountLoop(x)' = CountLoop(x)
         /\ ModelOf(x)' = ModelOf(x)
         /\ \A h \in Large!Group : h[1] # x =>
              alignPhase'[h] = alignPhase[h] /\ loopAt'[h] = loopAt[h] /\ held'[h] = held[h]
<1>1. x \in Entry /\ SortG(x) \in Large!Group
  BY LiveModel, Groups
<1>2. /\ SortAt(x) \in [Worker -> Nat] /\ SortLoop(x) \in [Worker -> Nat] /\ Lanes \in Nat
  BY <1>1, WorkerFacts DEF SortAt, SortLoop, LargeType
<1>3. CASE SortLoop(x)[l] < Numel
  <2>1. PICK v, w : v = SortAt(x) /\ w = [SortLoop(x) EXCEPT ![l] = @ + Lanes]
    OBVIOUS
  <2>2. /\ alignPhase' = [alignPhase EXCEPT ![SortG(x)] = v]
        /\ loopAt' = [loopAt EXCEPT ![SortG(x)] = w]
        /\ alignPhase' \in [Large!Group -> [Worker -> Nat]]
        /\ loopAt' \in [Large!Group -> [Worker -> Nat]]
    <3>1. alignPhase' = alignPhase /\ loopAt' = [loopAt EXCEPT ![SortG(x)][l] = @ + Lanes]
      BY <1>3 DEF Large!Turn, SortLoop
    <3> QED BY <1>1, <1>2, <2>1, <3>1 DEF LargeType, SortAt, SortLoop
  <2>3. /\ SortAt(x)' = v /\ SortLoop(x)' = w /\ Held(x)' = u
        /\ FillAt(x)' = FillAt(x) /\ CountAt(x)' = CountAt(x) /\ CountLoop(x)' = CountLoop(x)
        /\ ModelOf(x)' = ModelOf(x)
        /\ \A h \in Large!Group : h[1] # x =>
             alignPhase'[h] = alignPhase[h] /\ loopAt'[h] = loopAt[h] /\ held'[h] = held[h]
    BY <2>2, SortGroupStep
  <2> QED BY <1>3, <2>1, <2>2, <2>3 DEF SortTurn
<1>4. CASE ~(SortLoop(x)[l] < Numel)
  <2>1. Large!EndPhase(SortG(x), l)
    BY <1>4 DEF Large!Turn, SortLoop
  <2>2. PICK v, w : v = Bumped(SortAt(x), l) /\ w = [SortLoop(x) EXCEPT ![l] = l]
    OBVIOUS
  <2>3. /\ alignPhase' = [alignPhase EXCEPT ![SortG(x)] = v]
        /\ loopAt' = [loopAt EXCEPT ![SortG(x)] = w]
        /\ alignPhase' \in [Large!Group -> [Worker -> Nat]]
        /\ loopAt' \in [Large!Group -> [Worker -> Nat]]
    BY <1>1, <2>1, <2>2, EndPhaseIs DEF SortAt, SortLoop
  <2>4. /\ SortAt(x)' = v /\ SortLoop(x)' = w /\ Held(x)' = u
        /\ FillAt(x)' = FillAt(x) /\ CountAt(x)' = CountAt(x) /\ CountLoop(x)' = CountLoop(x)
        /\ ModelOf(x)' = ModelOf(x)
        /\ \A h \in Large!Group : h[1] # x =>
             alignPhase'[h] = alignPhase[h] /\ loopAt'[h] = loopAt[h] /\ held'[h] = held[h]
    BY <2>3, SortGroupStep
  <2> QED BY <1>4, <2>2, <2>3, <2>4 DEF SortTurn
<1> QED BY <1>3, <1>4

(* A slot this adapter's experts serve takes the next rank of its expert.  *)
Ranking(x, l) ==
  /\ SortLoop(x)[l] < Numel /\ Valid(SortLoop(x)[l]) /\ MaskRow(x)[SortLoop(x)[l] \div TopkNum] # 0
TakesRank(x, l) ==
  /\ Ranking(x, l)
  /\ Held(x)' = [Held(x) EXCEPT ![l] = Ranks(x)[ServedBy(SortLoop(x)[l])]]
  /\ Ranks(x)' = [Ranks(x) EXCEPT ![ServedBy(SortLoop(x)[l])] = @ + 1]
  /\ SortAt(x)' = SortAt(x) /\ SortLoop(x)' = SortLoop(x)
PassesBy(x, l) ==
  /\ ~Ranking(x, l)
  /\ Held(x)' = Held(x) /\ Ranks(x)' = Ranks(x)
  /\ SortTurn(x, l)

LEMMA TakeRankIs ==
  ASSUME RoutedOK, LargeType, OutputType, NEW x, Live(x), NEW l \in Worker,
         Large!TakeRank(SortG(x), l)
  PROVE  /\ Reached(SortAt(x), l, 0) /\ Large!FirstKernelEnded /\ Held(x)[l] = -1
         /\ TakesRank(x, l) \/ PassesBy(x, l)
         /\ FillAt(x)' = FillAt(x) /\ CountAt(x)' = CountAt(x) /\ CountLoop(x)' = CountLoop(x)
         /\ OutStill(x) /\ Tally(x)' = Tally(x) /\ Sums(x)' = Sums(x)
         /\ Local(x)
<1> DEFINE i == SortLoop(x)[l]
<1>1. x \in Entry /\ SortG(x) \in Large!Group /\ SortG(x)[1] = x /\ Large!Of(SortG(x)) = ModelOf(x)
      /\ ModelOf(x) \in Model
  BY LiveModel, Groups
<1>v. Large!Valid(i) = Valid(i) /\ Large!ServedBy(i) = ServedBy(i)
  BY DEF Large!Valid, Valid, Large!ServedBy, ServedBy, Large!AlignExpert, AlignExpert
<1>2. /\ Large!At(SortG(x), l, "rank") /\ held[SortG(x)][l] = -1
      /\ IF Ranking(x, l)
         THEN /\ held' = [held EXCEPT ![SortG(x)][l] = cumsumBuffer[ModelOf(x)][ServedBy(i)]]
              /\ cumsumBuffer' = [cumsumBuffer EXCEPT ![ModelOf(x)][ServedBy(i)] = @ + 1]
              /\ UNCHANGED <<alignPhase, loopAt>>
         ELSE Large!Turn(SortG(x), l) /\ UNCHANGED <<held, cumsumBuffer>>
      /\ UNCHANGED <<routed, sharedCounts, temp, mask, total, sorted, expertIds>>
  BY <1>1, <1>v DEF Large!TakeRank, Ranking, SortLoop, MaskRow
<1>3. routed' = routed /\ sharedCounts' = sharedCounts /\ temp' = temp
      /\ mask' = mask /\ total' = total /\ sorted' = sorted /\ expertIds' = expertIds
  BY <1>2
<1>4. Reached(SortAt(x), l, 0) /\ Large!FirstKernelEnded /\ Held(x)[l] = -1
  BY <1>1, <1>2, AtFacts DEF Held
<1>t. /\ SortAt(x) \in [Worker -> Nat] /\ SortLoop(x) \in [Worker -> Nat]
      /\ Held(x) \in [Worker -> Int] /\ held[SortG(x)] = Held(x)
      /\ Ranks(x) \in [0 .. NumExperts -> Int] /\ cumsumBuffer[ModelOf(x)] = Ranks(x)
      /\ i \in Nat /\ Numel \in Nat
  BY <1>1, Sizes DEF SortAt, SortLoop, Held, Ranks, LargeType
<1>o. OutputType' /\ Elsewhere(x)
  BY <1>3 DEF OutputType, Elsewhere
<1>m. ModelOf(x)' = ModelOf(x)
  BY <1>3 DEF ModelOf
<1>s. OutStill(x) /\ Tally(x)' = Tally(x) /\ Sums(x)' = Sums(x)
  BY <1>3, <1>m DEF Tally, Sums, OutStill, MaskRow, TotalOf, SortedRow, IdsRow
<1>5. CASE Ranking(x, l)
  <2>1. i \in AlignSlot /\ ServedBy(i) \in AlignExpert
    <3>1. i \in AlignSlot
      BY <1>5, <1>t DEF Ranking, AlignSlot
    <3> QED BY <1>5, <3>1, ServedFacts DEF Ranking
  <2>2. ServedBy(i) \in 0 .. NumExperts
    BY <2>1, Sizes DEF AlignExpert
  <2>3. PICK u, v, w : /\ u = [Held(x) EXCEPT ![l] = Ranks(x)[ServedBy(i)]]
                       /\ v = SortAt(x) /\ w = SortLoop(x)
    OBVIOUS
  <2>4. PICK c : c = [Ranks(x) EXCEPT ![ServedBy(i)] = @ + 1]
    OBVIOUS
  <2>5. u \in [Worker -> Int] /\ c \in [0 .. NumExperts -> Int]
    BY <1>t, <2>2, <2>3, <2>4
  <2>6. /\ alignPhase' = [alignPhase EXCEPT ![SortG(x)] = v]
        /\ loopAt' = [loopAt EXCEPT ![SortG(x)] = w]
        /\ held' = [held EXCEPT ![SortG(x)] = u]
        /\ cumsumBuffer' = [cumsumBuffer EXCEPT ![ModelOf(x)] = c]
        /\ alignPhase' = alignPhase /\ loopAt' = loopAt
    <3>1. /\ alignPhase' = [alignPhase EXCEPT ![SortG(x)] = v]
          /\ loopAt' = [loopAt EXCEPT ![SortG(x)] = w]
      BY <1>1, <1>2, <1>5, <2>3 DEF LargeType, SortAt, SortLoop
    <3>2. held' = [held EXCEPT ![SortG(x)] = u]
      BY <1>1, <1>2, <1>5, <1>t, <2>3 DEF LargeType
    <3>3. cumsumBuffer' = [cumsumBuffer EXCEPT ![ModelOf(x)] = c]
      BY <1>1, <1>2, <1>5, <1>t, <2>4 DEF LargeType
    <3> QED BY <1>2, <1>5, <3>1, <3>2, <3>3
  <2>7. /\ SortAt(x)' = v /\ SortLoop(x)' = w /\ Held(x)' = u
        /\ FillAt(x)' = FillAt(x) /\ CountAt(x)' = CountAt(x) /\ CountLoop(x)' = CountLoop(x)
        /\ \A h \in Large!Group : h[1] # x =>
             alignPhase'[h] = alignPhase[h] /\ loopAt'[h] = loopAt[h] /\ held'[h] = held[h]
    <3>1. /\ alignPhase' = [alignPhase EXCEPT ![SortG(x)] = v]
          /\ loopAt' = [loopAt EXCEPT ![SortG(x)] = w]
          /\ held' = [held EXCEPT ![SortG(x)] = u] /\ routed' = routed
      BY <1>3, <2>6
    <3> QED BY <3>1, SortGroupStep
  <2>8. /\ cumsumBuffer'[ModelOf(x)] = c
        /\ cumsumBuffer' \in [Model -> [0 .. NumExperts -> Int]]
        /\ \A m \in Model : m # ModelOf(x) => cumsumBuffer'[m] = cumsumBuffer[m]
        /\ held' \in [Large!Group -> [Worker -> Int]]
    BY <1>1, <2>5, <2>6 DEF LargeType
  <2>9. Ranks(x)' = c
    BY <1>m, <2>8 DEF Ranks
  <2>10. TakesRank(x, l)
    BY <1>5, <2>3, <2>4, <2>7, <2>9 DEF TakesRank
  <2>11. LargeType'
    BY <1>3, <2>6, <2>8 DEF LargeType
  <2>12. LargeElsewhere(x)
    BY <1>3, <2>7, <2>8 DEF LargeElsewhere
  <2> QED BY <1>4, <1>o, <1>s, <2>7, <2>10, <2>11, <2>12 DEF Local
<1>6. CASE ~Ranking(x, l)
  <2>1. Large!Turn(SortG(x), l) /\ held' = held /\ cumsumBuffer' = cumsumBuffer
    BY <1>2, <1>6
  <2>2. PICK u : u = Held(x)
    OBVIOUS
  <2>3. held' = [held EXCEPT ![SortG(x)] = u]
    BY <1>1, <1>t, <2>1, <2>2 DEF LargeType
  <2>4. /\ SortTurn(x, l) /\ Held(x)' = u
        /\ alignPhase' \in [Large!Group -> [Worker -> Nat]]
        /\ loopAt' \in [Large!Group -> [Worker -> Nat]]
        /\ FillAt(x)' = FillAt(x) /\ CountAt(x)' = CountAt(x) /\ CountLoop(x)' = CountLoop(x)
        /\ \A h \in Large!Group : h[1] # x =>
             alignPhase'[h] = alignPhase[h] /\ loopAt'[h] = loopAt[h] /\ held'[h] = held[h]
    BY <1>3, <2>1, <2>3, SortTurns
  <2>5. Ranks(x)' = Ranks(x)
    BY <1>m, <2>1 DEF Ranks
  <2>6. PassesBy(x, l)
    BY <1>6, <2>2, <2>4, <2>5 DEF PassesBy
  <2>7. LargeType'
    BY <1>3, <2>1, <2>4 DEF LargeType
  <2>8. LargeElsewhere(x)
    BY <1>3, <2>1, <2>4 DEF LargeElsewhere
  <2> QED BY <1>4, <1>o, <1>s, <2>4, <2>6, <2>7, <2>8 DEF Local
<1> QED BY <1>5, <1>6

LEMMA StoreSlotIs ==
  ASSUME RoutedOK, LargeType, OutputType, NEW x, Live(x), NEW l \in Worker,
         Large!StoreSlot(SortG(x), l)
  PROVE  /\ Reached(SortAt(x), l, 0) /\ Large!FirstKernelEnded /\ Held(x)[l] # -1
         /\ SortTurn(x, l)
         /\ Held(x)' = [Held(x) EXCEPT ![l] = -1]
         /\ SortedRow(x)' = [SortedRow(x) EXCEPT ![Held(x)[l]] = SortLoop(x)[l]]
         /\ FillAt(x)' = FillAt(x) /\ CountAt(x)' = CountAt(x) /\ CountLoop(x)' = CountLoop(x)
         /\ MaskRow(x)' = MaskRow(x) /\ TotalOf(x)' = TotalOf(x) /\ IdsRow(x)' = IdsRow(x)
         /\ Tally(x)' = Tally(x) /\ Sums(x)' = Sums(x) /\ Ranks(x)' = Ranks(x)
         /\ Local(x)
<1>1. x \in Entry /\ SortG(x) \in Large!Group /\ SortG(x)[1] = x /\ Large!Of(SortG(x)) = ModelOf(x)
      /\ ModelOf(x) \in Model
  BY LiveModel, Groups
<1>2. /\ Large!At(SortG(x), l, "rank") /\ held[SortG(x)][l] # -1
      /\ sorted' = [sorted EXCEPT ![ModelOf(x)][Held(x)[l]] = SortLoop(x)[l]]
      /\ held' = [held EXCEPT ![SortG(x)][l] = -1]
      /\ Large!Turn(SortG(x), l)
      /\ UNCHANGED <<routed, sharedCounts, temp, cumsumBuffer, mask, total, expertIds>>
  BY <1>1 DEF Large!StoreSlot, SortLoop, Held
<1>3. routed' = routed /\ sharedCounts' = sharedCounts /\ temp' = temp /\ cumsumBuffer' = cumsumBuffer
      /\ mask' = mask /\ total' = total /\ expertIds' = expertIds
  BY <1>2
<1>4. Reached(SortAt(x), l, 0) /\ Large!FirstKernelEnded /\ Held(x)[l] # -1
  BY <1>1, <1>2, AtFacts DEF Held
<1>t. /\ Held(x) \in [Worker -> Int] /\ held[SortG(x)] = Held(x)
      /\ SortLoop(x)[l] \in Nat
      /\ SortedRow(x) \in [Position -> Int] /\ sorted[ModelOf(x)] = SortedRow(x)
  BY <1>1 DEF SortLoop, Held, SortedRow, LargeType, OutputType
<1>m. ModelOf(x)' = ModelOf(x)
  BY <1>3 DEF ModelOf
<1>5. PICK u, r : /\ u = [Held(x) EXCEPT ![l] = -1]
                  /\ r = [SortedRow(x) EXCEPT ![Held(x)[l]] = SortLoop(x)[l]]
  OBVIOUS
<1>6. u \in [Worker -> Int] /\ r \in [Position -> Int]
  <2>1. u \in [Worker -> Int]
    BY <1>t, <1>5
  <2>2. r \in [Position -> Int]
    <3>1. PICK n \in Nat, k \in Int, q \in [Position -> Int] :
              n = SortLoop(x)[l] /\ q = SortedRow(x) /\ k = Held(x)[l]
      BY <1>t
    <3>2. r = [q EXCEPT ![k] = n]
      BY <1>5, <3>1
    <3>3. r = [p \in Position |-> IF p = k THEN n ELSE q[p]]
      BY <3>2
    <3>4. \A p \in Position : (IF p = k THEN n ELSE q[p]) \in Int
      OBVIOUS
    <3> QED BY <3>3, <3>4
  <2> QED BY <2>1, <2>2
<1>7. held' = [held EXCEPT ![SortG(x)] = u] /\ sorted' = [sorted EXCEPT ![ModelOf(x)] = r]
  BY <1>1, <1>2, <1>t, <1>5 DEF LargeType, OutputType
<1>8. /\ SortTurn(x, l) /\ Held(x)' = u
      /\ alignPhase' \in [Large!Group -> [Worker -> Nat]]
      /\ loopAt' \in [Large!Group -> [Worker -> Nat]]
      /\ FillAt(x)' = FillAt(x) /\ CountAt(x)' = CountAt(x) /\ CountLoop(x)' = CountLoop(x)
      /\ \A h \in Large!Group : h[1] # x =>
           alignPhase'[h] = alignPhase[h] /\ loopAt'[h] = loopAt[h] /\ held'[h] = held[h]
  <2>1. held' = [held EXCEPT ![SortG(x)] = u] /\ routed' = routed /\ Large!Turn(SortG(x), l)
    BY <1>2, <1>3, <1>7
  <2> QED BY <2>1, SortTurns
<1>9. /\ sorted'[ModelOf(x)] = r
      /\ sorted' \in [Model -> [Position -> Int]]
      /\ \A m \in Model : m # ModelOf(x) => sorted'[m] = sorted[m]
      /\ held' \in [Large!Group -> [Worker -> Int]]
  BY <1>1, <1>6, <1>7 DEF LargeType, OutputType
<1>10. /\ SortedRow(x)' = r /\ MaskRow(x)' = MaskRow(x) /\ TotalOf(x)' = TotalOf(x) /\ IdsRow(x)' = IdsRow(x)
       /\ Tally(x)' = Tally(x) /\ Sums(x)' = Sums(x) /\ Ranks(x)' = Ranks(x)
  BY <1>3, <1>m, <1>9 DEF Tally, Sums, Ranks, MaskRow, TotalOf, SortedRow, IdsRow
<1>11. LargeType' /\ OutputType'
  <2>1. LargeType'
    BY <1>3, <1>8, <1>9 DEF LargeType
  <2>2. OutputType'
    BY <1>3, <1>9 DEF OutputType
  <2> QED BY <2>1, <2>2
<1>12. LargeElsewhere(x) /\ Elsewhere(x)
  BY <1>3, <1>8, <1>9 DEF LargeElsewhere, Elsewhere
<1> QED BY <1>4, <1>5, <1>8, <1>10, <1>11, <1>12 DEF Local

-----------------------------------------------------------------------------
(* The inductive invariant of an entry served by the large form: what its  *)
(* groups and its rows of the outputs have to do with each other.          *)
View(x) ==
  [m |-> ModelOf(x), count |-> CountAt(x), fill |-> FillAt(x), sort |-> SortAt(x),
   countLoop |-> CountLoop(x), sortLoop |-> SortLoop(x), held |-> Held(x),
   tally |-> Tally(x), sums |-> Sums(x), ranks |-> Ranks(x), mask |-> MaskRow(x),
   total |-> TotalOf(x), row |-> SortedRow(x), ids |-> IdsRow(x)]

ViewType(v) ==
  /\ v.m \in Model
  /\ v.count \in [Worker -> Nat] /\ v.fill \in [Worker -> Nat] /\ v.sort \in [Worker -> Nat]
  /\ v.countLoop \in [Worker -> Nat] /\ v.sortLoop \in [Worker -> Nat] /\ v.held \in [Worker -> Int]
  /\ v.tally \in [0 .. Large!PaddedExperts - 1 -> Int] /\ v.sums \in [Worker -> Int]
  /\ v.ranks \in [0 .. NumExperts -> Int] /\ v.mask \in [AlignToken -> Int] /\ v.total \in Int
  /\ v.row \in [Position -> Int] /\ v.ids \in [Block -> Int]

(* A slot is counted once the loop of its work-item is past it; its rank   *)
(* is taken when that work-item holds one for it, and it is stored once    *)
(* the loop of the second kernel is past it.                               *)
IsCounted(v, i) == v.count[i % Lanes] >= Base + 2 \/ i < v.countLoop[i % Lanes]
IsStored(v, i) == v.sort[i % Lanes] >= 1 \/ i < v.sortLoop[i % Lanes]
IsWaiting(v, i) == i = v.sortLoop[i % Lanes] /\ v.held[i % Lanes] # -1
Counted(v, e) == {i \in SlotsOf(v.m, e) : IsCounted(v, i)}
Stored(v, e) == {i \in SlotsOf(v.m, e) : IsStored(v, i)}
Taken(v, e) == {i \in SlotsOf(v.m, e) : IsStored(v, i) \/ IsWaiting(v, i)}
InRange(v, e, p) == Start(v.m, e) <= p /\ p < v.ranks[e]

(* Barriers keep the counting work-items within a phase of each other, and *)
(* the second kernel waits for the first.                                  *)
FirstDone(v) == \A k \in Worker : v.count[k] = Base + 6 /\ v.fill[k] = Base + 1
SortIdle(v) == \A k \in Worker : v.sort[k] = 0 /\ v.sortLoop[k] = k /\ v.held[k] = -1
Order(v) ==
  /\ \A k \in Worker : v.count[k] <= Base + 6 /\ v.fill[k] <= Base + 1 /\ v.sort[k] <= 1
  /\ \A j, k \in Worker : v.count[j] <= v.count[k] + 1
  /\ FirstDone(v) \/ SortIdle(v)

Loops(v) ==
  \A k \in Worker :
    /\ v.countLoop[k] % Lanes = k /\ v.sortLoop[k] % Lanes = k
    /\ v.countLoop[k] # k => \A j \in Worker : v.count[j] >= Base + 1

Masked(v) == v.count[0] >= Base => v.mask = Wanted(v.m)

Tallied(v) ==
  \A e \in AlignExpert : v.count[e] >= Base + 1 => v.tally[e] = Cardinality(Counted(v, e))

PadOf(m, l) == IF l < NumExperts THEN Padded(Share(m, l)) ELSE 0
Padding(v) ==
  \A k \in Worker :
    /\ v.count[k] = Base + 3 => v.sums[k] = PadOf(v.m, k)
    /\ v.count[k] >= Base + 4 /\ k <= NumExperts => v.sums[k] = Start(v.m, k)

Ranked(v) ==
  /\ v.count[NumExperts] >= Base + 5 => v.ranks[NumExperts] = Start(v.m, NumExperts)
  /\ \A e \in AlignExpert : v.count[e] >= Base + 5 =>
       v.ranks[e] = Start(v.m, e) + Cardinality(Taken(v, e))

NamedBy(v) ==
  \A k \in Worker, b \in Block : v.count[k] >= Base + 6 =>
    /\ b \in Mine(v.m, k) => v.ids[b] = k
    /\ b \in Rest(v.m, k, Lanes) => v.ids[b] = Inactive

Totalled(v) ==
  Base = 0 /\ v.count[NumExperts] >= Base + 5 => v.total = Start(v.m, NumExperts)

(* A position that is filled holds padding or a slot stored in the range   *)
(* of its expert; a stored slot is there once; a rank not used yet is of   *)
(* one slot only and its position still holds padding.                     *)
Filled(v) ==
  \A p \in Position : v.fill[p % Lanes] >= Base + 1 =>
    \/ v.row[p] = Numel
    \/ \E e \in AlignExpert : v.row[p] \in Stored(v, e) /\ InRange(v, e, p)
StoredOnce(v) ==
  \A e \in AlignExpert : \A i \in Stored(v, e) :
    \E p \in Position : /\ InRange(v, e, p) /\ v.row[p] = i
                        /\ \A q \in Position \ {p} : v.row[q] # i
RanksApart(v) ==
  \A k \in Worker : v.held[k] # -1 =>
    /\ v.sort[k] = 0 /\ v.sortLoop[k] < Numel
    /\ \E e \in AlignExpert : v.sortLoop[k] \in SlotsOf(v.m, e) /\ InRange(v, e, v.held[k])
    /\ v.row[v.held[k]] = Numel
    /\ \A j \in Worker \ {k} : v.held[j] # v.held[k]

EntryOK(v) ==
  /\ Order(v) /\ Loops(v) /\ Masked(v) /\ Tallied(v) /\ Padding(v) /\ Ranked(v) /\ NamedBy(v)
  /\ Totalled(v) /\ Filled(v) /\ StoredOnce(v) /\ RanksApart(v)

Untouched ==
  \A m \in Model : ~Active(m) =>
    /\ total[m] = Junk
    /\ \A p \in Position : sorted[m][p] = Junk
    /\ \A b \in Block : expertIds[m][b] = Junk

LargeInv ==
  /\ RoutedOK /\ LargeType /\ OutputType /\ Untouched
  /\ \A x \in Entry : Live(x) => EntryOK(View(x))

LEMMA BaseNat ==
  Base \in Nat /\ Base \in {0, 1}
BY DEF Base

LEMMA StrideStep ==
  ASSUME NEW a \in Nat, NEW j \in Nat, j % Lanes = a % Lanes
  PROVE  j < a + Lanes <=> j < a \/ j = a
<1>1. Lanes \in Nat \ {0}
  BY WorkerFacts
<1>2. ASSUME j < a + Lanes, a <= j PROVE j = a
  BY <1>1, <1>2, NearMod
<1> QED BY <1>1, <1>2

LEMMA SlotLane ==
  ASSUME RoutedOK, NEW m, NEW e \in AlignExpert, NEW i \in SlotsOf(m, e)
  PROVE  i \in AlignSlot /\ i \in Nat /\ i < Numel /\ i % Lanes \in Worker /\ i % Lanes \in Nat /\ i % Lanes <= i
<1>1. i \in AlignSlot
  BY ServedFacts
<1>2. i \in Nat /\ i < Numel /\ Lanes \in Nat \ {0} /\ i % Lanes \in Worker
  BY <1>1, SlotToken, WorkerFacts
<1>d. i \div Lanes \in Nat /\ i % Lanes \in 0 .. Lanes - 1 /\ i = ((i \div Lanes) * Lanes) + (i % Lanes)
  BY <1>2, DivMod
<1>3. PICK q \in Nat, r \in Nat : q = i \div Lanes /\ r = i % Lanes
  BY <1>2, <1>d
<1>5. i = (q * Lanes) + r
  BY <1>d, <1>3
<1>4. PICK p \in Nat : p = q * Lanes
  BY <1>2
<1> QED BY <1>1, <1>2, <1>3, <1>4, <1>5

LEMMA NothingStored ==
  ASSUME RoutedOK, NEW v, ViewType(v), SortIdle(v), NEW e \in AlignExpert
  PROVE  Stored(v, e) = {} /\ Taken(v, e) = {}
<1>1. ASSUME NEW i \in SlotsOf(v.m, e) PROVE ~IsStored(v, i) /\ ~IsWaiting(v, i)
  <2>1. i \in Nat /\ i % Lanes \in Worker /\ i % Lanes \in Nat /\ i % Lanes <= i
    BY SlotLane
  <2>2. v.sort[i % Lanes] = 0 /\ v.sortLoop[i % Lanes] = i % Lanes /\ v.held[i % Lanes] = -1
    BY <2>1 DEF SortIdle
  <2> QED BY <2>1, <2>2 DEF IsStored, IsWaiting
<1> QED BY <1>1 DEF Stored, Taken

SortSame(v, w) == w.sort = v.sort /\ w.sortLoop = v.sortLoop /\ w.held = v.held

(* While the first kernel runs the second has done nothing. *)
LEMMA BeforeSort ==
  ASSUME RoutedOK, NEW v, NEW w, ViewType(v), ViewType(w), EntryOK(v), ~FirstDone(v), SortSame(v, w)
  PROVE  /\ SortIdle(v) /\ SortIdle(w)
         /\ StoredOnce(w) /\ RanksApart(w)
         /\ \A p \in Position : v.fill[p % Lanes] >= Base + 1 => v.row[p] = Numel
<1>1. SortIdle(v) /\ SortIdle(w)
  BY DEF EntryOK, Order, SortIdle, SortSame
<1>2. StoredOnce(w)
  BY <1>1, NothingStored DEF StoredOnce
<1>3. RanksApart(w)
  BY <1>1 DEF RanksApart, SortIdle
<1>4. \A p \in Position : v.fill[p % Lanes] >= Base + 1 => v.row[p] = Numel
  <2>1. \A e \in AlignExpert : Stored(v, e) = {}
    BY <1>1, NothingStored
  <2>2. Filled(v)
    BY DEF EntryOK
  <2> QED BY <2>1, <2>2 DEF Filled
<1> QED BY <1>1, <1>2, <1>3, <1>4

(* A work-item of the counting group ends phase k. *)
CountMoves(v, w, l, k) ==
  /\ w.m = v.m /\ SortSame(v, w) /\ w.fill = v.fill /\ w.row = v.row
  /\ Reached(v.count, l, k) /\ k < Base + 6
  /\ w.count = Bumped(v.count, l) /\ w.countLoop = [v.countLoop EXCEPT ![l] = l]

LEMMA CountMoved ==
  ASSUME RoutedOK, NEW v, NEW w, ViewType(v), ViewType(w), EntryOK(v),
         NEW l \in Worker, NEW k \in Nat, CountMoves(v, w, l, k)
  PROVE  /\ Order(w) /\ Loops(w) /\ Filled(w) /\ StoredOnce(w) /\ RanksApart(w)
         /\ SortIdle(v) /\ SortIdle(w) /\ ~FirstDone(v)
         /\ v.count[l] = k /\ w.count[l] = k + 1
         /\ \A j \in Worker : v.count[j] >= k /\ (j # l => w.count[j] = v.count[j])
<1>0. Base \in Nat /\ l \in Nat /\ (\A j \in Worker : j \in Nat /\ v.count[j] \in Nat) /\ Lanes \in Nat \ {0}
  <2>1. Base \in Nat
    BY BaseNat
  <2> QED BY <2>1, WorkerFacts DEF ViewType
<1>1. /\ v.count[l] = k /\ w.count[l] = k + 1
      /\ \A j \in Worker : v.count[j] >= k /\ (j # l => w.count[j] = v.count[j])
  BY DEF CountMoves, Reached, Bumped, ViewType
<1>2. ~FirstDone(v)
  BY <1>0, <1>1 DEF FirstDone, CountMoves
<1>3. /\ SortIdle(v) /\ SortIdle(w) /\ StoredOnce(w) /\ RanksApart(w)
      /\ \A p \in Position : v.fill[p % Lanes] >= Base + 1 => v.row[p] = Numel
  BY <1>2, BeforeSort DEF CountMoves
<1>4. Filled(w)
  BY <1>3 DEF Filled, CountMoves
<1>5. Order(w)
  <2>1. \A j \in Worker : v.count[j] <= Base + 6 /\ v.fill[j] <= Base + 1 /\ v.sort[j] <= 1
    BY DEF EntryOK, Order
  <2>2. \A j \in Worker : w.count[j] <= Base + 6
    BY <1>0, <1>1, <2>1 DEF CountMoves
  <2>3. ASSUME NEW j \in Worker, NEW i \in Worker PROVE w.count[j] <= w.count[i] + 1
    <3>1. v.count[j] <= v.count[i] + 1 /\ v.count[i] \in Nat /\ v.count[j] \in Nat
      BY <1>0 DEF EntryOK, Order
    <3>2. v.count[i] >= k /\ (j = l => w.count[j] = k + 1) /\ (j # l => w.count[j] = v.count[j])
          /\ (i = l => w.count[i] = k + 1) /\ (i # l => w.count[i] = v.count[i])
          /\ (i = l => v.count[i] = k)
      BY <1>1
    <3> QED BY <3>1, <3>2
  <2> QED BY <1>3, <2>1, <2>2, <2>3 DEF Order, CountMoves, SortSame
<1>6. Loops(w)
  <2>1. Loops(v)
    BY DEF EntryOK
  <2>2. l % Lanes = l
    <3>1. l \in 0 .. Lanes - 1
      BY DEF Worker
    <3> QED BY <1>0, <3>1
  <2>3. /\ w.countLoop[l] = l /\ w.sortLoop = v.sortLoop
        /\ \A j \in Worker : j # l => w.countLoop[j] = v.countLoop[j]
    BY DEF CountMoves, ViewType, SortSame
  <2>4. \A j \in Worker : w.countLoop[j] % Lanes = j /\ w.sortLoop[j] % Lanes = j
    BY <2>1, <2>2, <2>3 DEF Loops
  <2>5. ASSUME NEW j \in Worker, w.countLoop[j] # j, NEW i \in Worker PROVE w.count[i] >= Base + 1
    <3>1. v.count[i] >= Base + 1 /\ v.count[l] >= Base + 1
      BY <2>1, <2>3, <2>5 DEF Loops
    <3> QED BY <1>0, <1>1, <3>1
  <2> QED BY <2>4, <2>5 DEF Loops
<1> QED BY <1>1, <1>2, <1>3, <1>4, <1>5, <1>6

(* What the end of a phase other than their own leaves of the clauses.     *)
LEMMA TalliedKept ==
  ASSUME RoutedOK, NEW v, NEW w, ViewType(v), ViewType(w), EntryOK(v),
         NEW l \in Worker, NEW k \in Nat, CountMoves(v, w, l, k),
         w.tally = v.tally, k # Base, k # Base + 1
  PROVE  Tallied(w)
<1>0. Base \in Nat /\ l \in Nat /\ (\A j \in Worker : v.count[j] \in Nat)
  BY BaseNat, WorkerFacts DEF ViewType
<1>1. /\ v.count[l] = k /\ w.count[l] = k + 1
      /\ \A j \in Worker : v.count[j] >= k /\ (j # l => w.count[j] = v.count[j])
  BY CountMoved
<1>2. /\ w.countLoop[l] = l /\ \A j \in Worker : j # l => w.countLoop[j] = v.countLoop[j]
  BY DEF CountMoves, ViewType
<1>3. ASSUME NEW e \in AlignExpert, NEW i \in SlotsOf(v.m, e) PROVE IsCounted(w, i) <=> IsCounted(v, i)
  <2>1. PICK j \in Worker : j = i % Lanes
    BY SlotLane
  <2>2. CASE j # l
    BY <1>1, <1>2, <2>1, <2>2 DEF IsCounted
  <2>3. CASE j = l /\ k < Base
    <3>1. v.countLoop[l] = l
      BY <1>0, <1>1, <2>3 DEF EntryOK, Loops
    <3>2. ~(v.count[l] >= Base + 2) /\ ~(w.count[l] >= Base + 2)
      BY <1>0, <1>1, <2>3
    <3> QED BY <1>2, <2>1, <2>3, <3>1, <3>2 DEF IsCounted
  <2>4. CASE j = l /\ k >= Base + 2
    BY <1>0, <1>1, <2>1, <2>4 DEF IsCounted
  <2> QED BY <1>0, <2>2, <2>3, <2>4
<1>4. \A e \in AlignExpert : Counted(w, e) = Counted(v, e)
  BY <1>3 DEF Counted, CountMoves
<1>5. ASSUME NEW e \in AlignExpert, w.count[e] >= Base + 1 PROVE v.count[e] >= Base + 1
  <2>1. e \in Worker
    BY WorkerFacts
  <2>2. CASE e = l
    BY <1>0, <1>1, <1>5, <2>2
  <2>3. CASE e # l
    BY <1>1, <1>5, <2>1, <2>3
  <2> QED BY <2>2, <2>3
<1> QED BY <1>4, <1>5 DEF Tallied, EntryOK

LEMMA PaddingKept ==
  ASSUME RoutedOK, NEW v, NEW w, ViewType(v), ViewType(w), EntryOK(v),
         NEW l \in Worker, NEW k \in Nat, CountMoves(v, w, l, k),
         w.sums = v.sums, k # Base + 2, k # Base + 3
  PROVE  Padding(w)
<1>0. Base \in Nat /\ l \in Nat /\ (\A j \in Worker : v.count[j] \in Nat)
  BY BaseNat, WorkerFacts DEF ViewType
<1>1. /\ v.count[l] = k /\ w.count[l] = k + 1
      /\ \A j \in Worker : v.count[j] >= k /\ (j # l => w.count[j] = v.count[j])
  BY CountMoved
<1>2. ASSUME NEW j \in Worker
      PROVE  /\ w.count[j] = Base + 3 => v.count[j] = Base + 3
             /\ w.count[j] >= Base + 4 => v.count[j] >= Base + 4
  BY <1>0, <1>1
<1> QED BY <1>2 DEF Padding, EntryOK, CountMoves

LEMMA RankedKept ==
  ASSUME RoutedOK, NEW v, NEW w, ViewType(v), ViewType(w), EntryOK(v),
         NEW l \in Worker, NEW k \in Nat, CountMoves(v, w, l, k),
         w.ranks = v.ranks, k # Base + 4
  PROVE  Ranked(w)
<1>0. Base \in Nat /\ l \in Nat /\ (\A j \in Worker : v.count[j] \in Nat)
  BY BaseNat, WorkerFacts DEF ViewType
<1>1. /\ v.count[l] = k /\ w.count[l] = k + 1
      /\ \A j \in Worker : v.count[j] >= k /\ (j # l => w.count[j] = v.count[j])
  BY CountMoved
<1>2. ASSUME NEW j \in Worker, w.count[j] >= Base + 5 PROVE v.count[j] >= Base + 5
  BY <1>0, <1>1, <1>2
<1>3. \A e : Taken(w, e) = Taken(v, e)
  BY DEF Taken, IsStored, IsWaiting, CountMoves, SortSame
<1> QED BY <1>2, <1>3, WorkerFacts DEF Ranked, EntryOK, CountMoves

LEMMA NamedKept ==
  ASSUME RoutedOK, NEW v, NEW w, ViewType(v), ViewType(w), EntryOK(v),
         NEW l \in Worker, NEW k \in Nat, CountMoves(v, w, l, k),
         w.ids = v.ids, k # Base + 5
  PROVE  NamedBy(w)
<1>0. Base \in Nat /\ l \in Nat /\ (\A j \in Worker : v.count[j] \in Nat)
  BY BaseNat, WorkerFacts DEF ViewType
<1>1. /\ v.count[l] = k /\ w.count[l] = k + 1
      /\ \A j \in Worker : v.count[j] >= k /\ (j # l => w.count[j] = v.count[j])
  BY CountMoved
<1>2. ASSUME NEW j \in Worker, w.count[j] >= Base + 6 PROVE v.count[j] >= Base + 6
  BY <1>0, <1>1, <1>2
<1> QED BY <1>2 DEF NamedBy, EntryOK, CountMoves

LEMMA MaskedKept ==
  ASSUME RoutedOK, NEW v, NEW w, ViewType(v), ViewType(w), EntryOK(v),
         NEW l \in Worker, NEW k \in Nat, CountMoves(v, w, l, k),
         w.mask = v.mask, k >= Base
  PROVE  Masked(w)
<1>0. Base \in Nat /\ 0 \in Worker
  BY BaseNat, WorkerFacts
<1>1. v.count[l] = k /\ \A j \in Worker : j # l => w.count[j] = v.count[j]
  BY CountMoved
<1> QED BY <1>0, <1>1 DEF Masked, EntryOK, CountMoves

LEMMA TotalledKept ==
  ASSUME RoutedOK, NEW v, NEW w, ViewType(v), ViewType(w), EntryOK(v),
         NEW l \in Worker, NEW k \in Nat, CountMoves(v, w, l, k),
         w.total = v.total, k # Base + 4
  PROVE  Totalled(w)
<1>0. Base \in Nat /\ NumExperts \in Worker /\ (\A j \in Worker : v.count[j] \in Nat)
  BY BaseNat, WorkerFacts DEF ViewType
<1>1. /\ v.count[l] = k /\ w.count[l] = k + 1
      /\ \A j \in Worker : j # l => w.count[j] = v.count[j]
  BY CountMoved
<1>2. w.count[NumExperts] >= Base + 5 => v.count[NumExperts] >= Base + 5
  BY <1>0, <1>1
<1> QED BY <1>2 DEF Totalled, EntryOK, CountMoves

(* Each phase of the counting group keeps the invariant of its entry.      *)
LEMMA MaskCountKeeps ==
  ASSUME RoutedOK, NEW v, NEW w, ViewType(v), ViewType(w), EntryOK(v),
         NEW l \in Worker, CountMoves(v, w, l, 0), Base = 1,
         w.mask = (IF l = 0 THEN Wanted(v.m) ELSE v.mask),
         w.tally = v.tally, w.sums = v.sums, w.ranks = v.ranks, w.ids = v.ids
  PROVE  EntryOK(w)
<1>1. /\ Order(w) /\ Loops(w) /\ Filled(w) /\ StoredOnce(w) /\ RanksApart(w)
      /\ \A j \in Worker : j # l => w.count[j] = v.count[j]
  BY CountMoved
<1>2. Tallied(w)
  BY TalliedKept
<1>3. Padding(w)
  BY PaddingKept
<1>4. Ranked(w)
  BY RankedKept
<1>5. NamedBy(w)
  BY NamedKept
<1>6. Totalled(w)
  BY DEF Totalled
<1>7. Masked(w)
  <2>1. CASE l = 0
    BY <2>1 DEF Masked, CountMoves
  <2>2. CASE l # 0
    <3>1. w.count[0] = v.count[0]
      BY <1>1, <2>2, WorkerFacts
    <3> QED BY <2>2, <3>1 DEF Masked, EntryOK, CountMoves
  <2> QED BY <2>1, <2>2
<1> QED BY <1>1, <1>2, <1>3, <1>4, <1>5, <1>6, <1>7 DEF EntryOK

LEMMA ZeroKeeps ==
  ASSUME RoutedOK, NEW v, NEW w, ViewType(v), ViewType(w), EntryOK(v),
         NEW l \in Worker, CountMoves(v, w, l, Base),
         \A e \in AlignExpert : w.tally[e] = (IF e \div WarpSize = l \div WarpSize THEN 0 ELSE v.tally[e]),
         w.mask = v.mask, w.total = v.total, w.sums = v.sums, w.ranks = v.ranks, w.ids = v.ids
  PROVE  EntryOK(w)
<1>0. Base \in Nat /\ l \in Nat /\ (\A j \in Worker : v.count[j] \in Nat /\ j \in Nat)
  BY BaseNat, WorkerFacts DEF ViewType
<1>1. /\ Order(w) /\ Loops(w) /\ Filled(w) /\ StoredOnce(w) /\ RanksApart(w)
      /\ v.count[l] = Base /\ w.count[l] = Base + 1
      /\ \A j \in Worker : v.count[j] >= Base /\ (j # l => w.count[j] = v.count[j])
  BY <1>0, CountMoved
<1>2. Masked(w)
  BY <1>0, MaskedKept
<1>3. Padding(w)
  BY <1>0, PaddingKept
<1>4. Ranked(w)
  BY <1>0, RankedKept
<1>5. NamedBy(w)
  BY <1>0, NamedKept
<1>6. Totalled(w)
  BY <1>0, TotalledKept
<1>7. ASSUME NEW j \in Worker PROVE w.countLoop[j] = j /\ v.countLoop[j] = j /\ w.count[j] < Base + 2 /\ v.count[j] < Base + 2
  <2>1. v.countLoop[j] = j
    BY <1>0, <1>1 DEF EntryOK, Loops
  <2>2. w.countLoop[j] = j
    <3>1. w.countLoop = [v.countLoop EXCEPT ![l] = l] /\ v.countLoop \in [Worker -> Nat]
      BY DEF CountMoves, ViewType
    <3> QED BY <2>1, <3>1
  <2>3. v.count[j] <= v.count[l] + 1
    BY DEF EntryOK, Order
  <2> QED BY <1>0, <1>1, <2>1, <2>2, <2>3
<1>8. ASSUME NEW e \in AlignExpert PROVE Counted(w, e) = {} /\ Counted(v, e) = {}
  <2>1. ASSUME NEW i \in SlotsOf(v.m, e) PROVE ~IsCounted(w, i) /\ ~IsCounted(v, i)
    <3>1. PICK j \in Worker : j = i % Lanes /\ j <= i /\ i \in Nat
      BY SlotLane
    <3>2. w.countLoop[j] = j /\ v.countLoop[j] = j /\ ~(w.count[j] >= Base + 2) /\ ~(v.count[j] >= Base + 2) /\ ~(i < j)
      <4>1. w.count[j] \in Nat /\ v.count[j] \in Nat
        BY DEF ViewType
      <4> QED BY <1>0, <1>7, <3>1, <4>1
    <3> QED BY <3>1, <3>2 DEF IsCounted
  <2> QED BY <2>1 DEF Counted, CountMoves
<1>9. Tallied(w)
  <2> SUFFICES ASSUME NEW e \in AlignExpert, w.count[e] >= Base + 1 PROVE w.tally[e] = Cardinality(Counted(w, e))
    BY DEF Tallied
  <2>1. Cardinality(Counted(w, e)) = 0 /\ Cardinality(Counted(v, e)) = 0
    BY <1>8, FS_EmptySet
  <2>2. CASE e = l
    BY <2>1, <2>2
  <2>3. CASE e # l
    <3>1. v.count[e] >= Base + 1
      BY <1>1, <2>3, WorkerFacts
    <3>2. v.tally[e] = 0
      BY <2>1, <3>1 DEF EntryOK, Tallied
    <3> QED BY <2>1, <3>2
  <2> QED BY <2>2, <2>3
<1> QED BY <1>1, <1>2, <1>3, <1>4, <1>5, <1>6, <1>9 DEF EntryOK

LEMMA CountEndKeeps ==
  ASSUME RoutedOK, NEW v, NEW w, ViewType(v), ViewType(w), EntryOK(v),
         NEW l \in Worker, CountMoves(v, w, l, Base + 1), v.countLoop[l] >= Numel,
         w.tally = v.tally,
         w.mask = v.mask, w.total = v.total, w.sums = v.sums, w.ranks = v.ranks, w.ids = v.ids
  PROVE  EntryOK(w)
<1>0. Base \in Nat /\ Base + 1 \in Nat /\ l \in Nat /\ (\A j \in Worker : v.count[j] \in Nat /\ v.countLoop[j] \in Nat)
  <2>1. Base \in Nat
    BY BaseNat
  <2>2. \A j \in Worker : v.count[j] \in Nat /\ v.countLoop[j] \in Nat
    BY DEF ViewType
  <2> QED BY <2>1, <2>2, WorkerFacts
<1>1. /\ Order(w) /\ Loops(w) /\ Filled(w) /\ StoredOnce(w) /\ RanksApart(w)
      /\ v.count[l] = Base + 1 /\ w.count[l] = Base + 2
      /\ \A j \in Worker : v.count[j] >= Base + 1 /\ (j # l => w.count[j] = v.count[j])
  BY <1>0, CountMoved
<1>2. Masked(w)
  BY <1>0, MaskedKept
<1>3. Padding(w)
  BY <1>0, PaddingKept
<1>4. Ranked(w)
  BY <1>0, RankedKept
<1>5. NamedBy(w)
  BY <1>0, NamedKept
<1>6. Totalled(w)
  BY <1>0, TotalledKept
<1>7. ASSUME NEW e \in AlignExpert, NEW i \in SlotsOf(v.m, e) PROVE IsCounted(w, i) <=> IsCounted(v, i)
  <2>1. PICK j \in Worker : j = i % Lanes /\ i \in Nat /\ i < Numel
    BY SlotLane
  <2>2. CASE j # l
    <3>1. w.count[j] = v.count[j] /\ w.countLoop[j] = v.countLoop[j]
      BY <1>1, <2>2 DEF CountMoves, ViewType
    <3> QED BY <2>1, <3>1 DEF IsCounted
  <2>3. CASE j = l
    <3>1. i < v.countLoop[l] /\ w.count[l] >= Base + 2
      BY <1>0, <1>1, <2>1, Sizes
    <3> QED BY <2>1, <2>3, <3>1 DEF IsCounted
  <2> QED BY <2>2, <2>3
<1>8. \A e \in AlignExpert : Counted(w, e) = Counted(v, e)
  BY <1>7 DEF Counted, CountMoves
<1>9. Tallied(w)
  <2>1. \A e \in AlignExpert : v.count[e] >= Base + 1
    BY <1>1, WorkerFacts
  <2> QED BY <1>8, <2>1 DEF Tallied, EntryOK
<1> QED BY <1>1, <1>2, <1>3, <1>4, <1>5, <1>6, <1>9 DEF EntryOK

(* The work-item's loop goes on to its next slot, counting this one.       *)
LEMMA CountTurnKeeps ==
  ASSUME RoutedOK, NEW v, NEW w, ViewType(v), ViewType(w), EntryOK(v),
         NEW l \in Worker, Reached(v.count, l, Base + 1),
         NEW i0 \in Nat, i0 = v.countLoop[l], i0 < Numel,
         w.m = v.m, w.count = v.count, w.countLoop = [v.countLoop EXCEPT ![l] = @ + Lanes],
         w.tally = (IF Valid(i0) THEN [v.tally EXCEPT ![ServedBy(i0)] = @ + v.mask[i0 \div TopkNum]] ELSE v.tally),
         SortSame(v, w), w.fill = v.fill, w.row = v.row,
         w.mask = v.mask, w.total = v.total, w.sums = v.sums, w.ranks = v.ranks, w.ids = v.ids
  PROVE  EntryOK(w)
<1>0. /\ Base \in Nat /\ l \in Nat /\ Lanes \in Nat \ {0} /\ 0 \in Worker
      /\ \A j \in Worker : v.count[j] \in Nat /\ v.countLoop[j] \in Nat
  <2>1. Base \in Nat
    BY BaseNat
  <2>2. \A j \in Worker : v.count[j] \in Nat /\ v.countLoop[j] \in Nat
    BY DEF ViewType
  <2> QED BY <2>1, <2>2, WorkerFacts
<1>1. v.count[l] = Base + 1 /\ \A j \in Worker : v.count[j] >= Base + 1
  BY DEF Reached
<1>2. ~FirstDone(v)
  BY <1>0, <1>1 DEF FirstDone
<1>3. /\ SortIdle(w) /\ StoredOnce(w) /\ RanksApart(w)
      /\ \A p \in Position : v.fill[p % Lanes] >= Base + 1 => v.row[p] = Numel
  BY <1>2, BeforeSort
<1>4. Filled(w)
  BY <1>3 DEF Filled
<1>5. Order(w)
  BY <1>3 DEF Order, EntryOK, SortSame
<1>6. i0 % Lanes = l /\ (i0 + Lanes) % Lanes = l
  BY <1>0, StrideMod DEF EntryOK, Loops
<1>7. /\ w.countLoop[l] = i0 + Lanes
      /\ \A j \in Worker : j # l => w.countLoop[j] = v.countLoop[j]
  BY DEF ViewType
<1>8. Loops(w)
  BY <1>1, <1>6, <1>7 DEF Loops, EntryOK, SortSame
<1>9. Masked(w) /\ Padding(w) /\ NamedBy(w) /\ Totalled(w)
  BY DEF EntryOK, Masked, Padding, NamedBy, Totalled
<1>10. Ranked(w)
  BY DEF EntryOK, Ranked, Taken, IsStored, IsWaiting, SortSame
<1>11. i0 \in AlignSlot /\ i0 \div TopkNum \in AlignToken
  <2>1. i0 \in AlignSlot
    BY Sizes DEF AlignSlot
  <2> QED BY <2>1, SlotToken
<1>12. v.mask = Wanted(v.m)
  BY <1>0, <1>1 DEF EntryOK, Masked
<1>13. ASSUME NEW e \in AlignExpert, NEW i \in SlotsOf(v.m, e)
       PROVE  IsCounted(w, i) <=> IsCounted(v, i) \/ i = i0
  <2>1. PICK j \in Worker : j = i % Lanes /\ i \in Nat
    BY SlotLane
  <2>2. CASE j # l
    <3>1. w.countLoop[j] = v.countLoop[j] /\ i # i0
      BY <1>6, <1>7, <2>1, <2>2
    <3> QED BY <2>1, <3>1 DEF IsCounted
  <2>3. CASE j = l
    <3>1. i < i0 + Lanes <=> i < i0 \/ i = i0
      BY <1>6, <2>1, <2>3, StrideStep
    <3>2. ~(v.count[l] >= Base + 2)
      BY <1>0, <1>1
    <3> QED BY <1>7, <2>1, <2>3, <3>1, <3>2 DEF IsCounted
  <2> QED BY <2>2, <2>3
<1>14. ASSUME NEW e \in AlignExpert, i0 \in SlotsOf(v.m, e) PROVE ~IsCounted(v, i0)
  BY <1>0, <1>1, <1>6 DEF IsCounted
<1>15. Tallied(w)
  <2> SUFFICES ASSUME NEW e \in AlignExpert PROVE w.tally[e] = Cardinality(Counted(w, e))
    BY DEF Tallied
  <2>1. v.tally[e] = Cardinality(Counted(v, e))
    BY <1>1, WorkerFacts DEF EntryOK, Tallied
  <2>2. IsFiniteSet(Counted(v, e))
    BY ShareFacts, FS_Subset DEF Counted
  <2>3. v.tally \in [0 .. Large!PaddedExperts - 1 -> Int] /\ e \in 0 .. Large!PaddedExperts - 1
    BY PaddedExpertsFit DEF ViewType
  <2>4. i0 \in SlotsOf(v.m, e) <=> ServedBy(i0) = e /\ Wanted(v.m)[i0 \div TopkNum] = 1
    BY <1>11, ServedFacts
  <2>5. CASE i0 \in SlotsOf(v.m, e)
    <3>1. Counted(w, e) = Counted(v, e) \cup {i0} /\ i0 \notin Counted(v, e)
      BY <1>13, <1>14, <2>5 DEF Counted
    <3>2. Cardinality(Counted(w, e)) = Cardinality(Counted(v, e)) + 1
      <4>1. PICK C : C = Counted(v, e)
        OBVIOUS
      <4>2. Cardinality(C \cup {i0}) = Cardinality(C) + 1
        BY <2>2, <3>1, <4>1, FS_AddElement
      <4> QED BY <3>1, <4>1, <4>2
    <3>3. Valid(i0) /\ ServedBy(i0) = e /\ v.mask[i0 \div TopkNum] = 1
      BY <1>11, <1>12, <2>4, <2>5, ServedFacts
    <3> QED BY <2>1, <2>3, <3>2, <3>3
  <2>6. CASE i0 \notin SlotsOf(v.m, e)
    <3>1. Counted(w, e) = Counted(v, e)
      BY <1>13, <2>6 DEF Counted
    <3>2. w.tally[e] = v.tally[e]
      <4>1. CASE Valid(i0) /\ ServedBy(i0) = e
        <5>1. Wanted(v.m)[i0 \div TopkNum] = 0
          BY <1>11, <2>4, <2>6, <4>1, ServedFacts
        <5>2. v.tally[e] \in Int /\ w.tally[e] = v.tally[e] + 0
          BY <1>12, <2>3, <4>1, <5>1
        <5> QED BY <5>2
      <4>2. CASE ~Valid(i0) \/ ServedBy(i0) # e
        BY <2>3, <4>2
      <4> QED BY <4>1, <4>2
    <3> QED BY <2>1, <3>1, <3>2
  <2> QED BY <2>5, <2>6
<1> QED BY <1>3, <1>4, <1>5, <1>8, <1>9, <1>10, <1>15 DEF EntryOK

LEMMA AllCounted ==
  ASSUME RoutedOK, NEW v, ViewType(v), EntryOK(v), \A j \in Worker : v.count[j] >= Base + 2
  PROVE  \A e \in AlignExpert : v.tally[e] = Share(v.m, e) /\ v.tally[e] \in Nat
<1> SUFFICES ASSUME NEW e \in AlignExpert PROVE v.tally[e] = Share(v.m, e) /\ v.tally[e] \in Nat
  OBVIOUS
<1>1. Counted(v, e) = SlotsOf(v.m, e)
  <2>1. ASSUME NEW i \in SlotsOf(v.m, e) PROVE IsCounted(v, i)
    BY SlotLane DEF IsCounted
  <2> QED BY <2>1 DEF Counted
<1>2. v.count[e] >= Base + 1
  <2>1. Base \in Nat
    BY BaseNat
  <2>2. v.count[e] \in Nat /\ v.count[e] >= Base + 2
    BY WorkerFacts DEF ViewType
  <2> QED BY <2>1, <2>2
<1>3. v.tally[e] = Cardinality(Counted(v, e))
  BY <1>2 DEF EntryOK, Tallied
<1> QED BY <1>1, <1>3, ShareFacts DEF Share, SlotsOf

LEMMA PadKeeps ==
  ASSUME RoutedOK, NEW v, NEW w, ViewType(v), ViewType(w), EntryOK(v),
         NEW l \in Worker, CountMoves(v, w, l, Base + 2),
         w.sums = [v.sums EXCEPT ![l] = IF l < NumExperts THEN Padded(v.tally[l]) ELSE 0],
         w.tally = v.tally,
         w.mask = v.mask, w.total = v.total, w.ranks = v.ranks, w.ids = v.ids
  PROVE  EntryOK(w)
<1>b. Base \in Nat /\ \A j \in Worker : v.count[j] \in Nat
  BY BaseNat DEF ViewType
<1>0. Base \in Nat /\ Base + 2 \in Nat /\ l \in Nat /\ \A j \in Worker : v.count[j] \in Nat
  <2>1. l \in Nat
    BY WorkerFacts
  <2> QED BY <1>b, <2>1
<1>1. /\ Order(w) /\ Loops(w) /\ Filled(w) /\ StoredOnce(w) /\ RanksApart(w)
      /\ v.count[l] = Base + 2 /\ w.count[l] = (Base + 2) + 1
      /\ \A j \in Worker : v.count[j] >= Base + 2 /\ (j # l => w.count[j] = v.count[j])
  <2>1. Base + 2 \in Nat
    BY <1>0
  <2> QED BY <2>1, CountMoved
<1>2. Masked(w)
  BY <1>0, MaskedKept
<1>3. Tallied(w)
  BY <1>0, TalliedKept
<1>4. Ranked(w)
  BY <1>0, RankedKept
<1>5. NamedBy(w)
  BY <1>0, NamedKept
<1>6. Totalled(w)
  BY <1>0, TotalledKept
<1>7. /\ \A j \in Worker : j # l => w.sums[j] = v.sums[j]
      /\ w.sums[l] = (IF l < NumExperts THEN Padded(v.tally[l]) ELSE 0)
  BY DEF ViewType
<1>8. w.sums[l] = PadOf(v.m, l)
  <2>1. l < NumExperts => l \in AlignExpert
    BY <1>0, Sizes DEF AlignExpert
  <2>2. \A e \in AlignExpert : v.tally[e] = Share(v.m, e)
    BY <1>1, AllCounted
  <2> QED BY <1>7, <2>1, <2>2 DEF PadOf
<1>9. Padding(w)
  <2> SUFFICES ASSUME NEW j \in Worker
               PROVE  /\ w.count[j] = Base + 3 => w.sums[j] = PadOf(v.m, j)
                      /\ w.count[j] >= Base + 4 /\ j <= NumExperts => w.sums[j] = Start(v.m, j)
    BY DEF Padding, CountMoves
  <2>1. CASE j = l
    BY <1>0, <1>1, <1>8, <2>1
  <2>2. CASE j # l
    BY <1>1, <1>7, <2>2 DEF EntryOK, Padding
  <2> QED BY <2>1, <2>2
<1> QED BY <1>1, <1>2, <1>3, <1>4, <1>5, <1>6, <1>9 DEF EntryOK

(* The collective scan turns the padded counts into where ranges start.    *)
LEMMA ScanSums ==
  ASSUME RoutedOK, NEW v, ViewType(v), EntryOK(v), \A j \in Worker : v.count[j] = Base + 3,
         NEW s, RunningSum(s, v.sums)
  PROVE  /\ \A j \in Worker : s[j] \in Nat
         /\ \A n \in 0 .. NumExperts : s[n] = Start(v.m, n)
<1> DEFINE T == {n \in Nat : n <= NumExperts => s[n] = Start(v.m, n)}
<1>0. /\ Lanes \in Nat \ {0} /\ Worker = 0 .. Lanes - 1 /\ NumExperts \in Nat /\ NumExperts < Lanes
      /\ AlignExpert = 0 .. NumExperts - 1
  BY WorkerFacts, Sizes, LaneAssumption DEF Worker, AlignExpert
<1>1. \A j \in Worker : v.sums[j] = PadOf(v.m, j) /\ v.sums[j] \in Nat
  <2>1. \A j \in Worker : v.sums[j] = PadOf(v.m, j)
    BY DEF EntryOK, Padding
  <2>2. ASSUME NEW j \in Worker PROVE PadOf(v.m, j) \in Nat
    <3>1. CASE j < NumExperts
      <4>1. j \in AlignExpert
        BY <1>0, <3>1
      <4>2. Share(v.m, j) \in Nat
        BY <4>1, ShareFacts
      <4> QED BY <3>1, <4>2, PaddedFacts DEF PadOf
    <3>2. CASE ~(j < NumExperts)
      BY <3>2 DEF PadOf
    <3> QED BY <3>1, <3>2
  <2> QED BY <2>1, <2>2
<1>2. PICK N \in Nat : N = Lanes - 1
  BY <1>0
<1>3. \A n \in 0 .. N - 1 : v.sums[n] \in Nat
  BY <1>0, <1>1, <1>2
<1>4. /\ s[0] = 0 /\ \A n \in 0 .. N : s[n] \in Nat
      /\ \A n \in 0 .. N - 1 : s[n + 1] = s[n] + v.sums[n]
  BY <1>3, RunningSumFacts
<1>5. Start(v.m, 0) = 0 /\ \A e \in AlignExpert : Start(v.m, e + 1) = Start(v.m, e) + Padded(Share(v.m, e))
  BY Layout
<1>t. \A n \in Nat : n \in T <=> (n <= NumExperts => s[n] = Start(v.m, n))
  OBVIOUS
<1> HIDE DEF T
<1>6. 0 \in T
  BY <1>4, <1>5, <1>t
<1>7. ASSUME NEW n \in Nat, n \in T PROVE n + 1 \in T
  <2> SUFFICES ASSUME n + 1 <= NumExperts PROVE s[n + 1] = Start(v.m, n + 1)
    BY <1>t
  <2>1. n \in AlignExpert /\ n \in Worker /\ n \in 0 .. N - 1 /\ n <= NumExperts /\ n < NumExperts
    BY <1>0, <1>2
  <2>2. s[n] = Start(v.m, n)
    BY <1>7, <1>t, <2>1
  <2>3. v.sums[n] = Padded(Share(v.m, n))
    BY <1>1, <2>1 DEF PadOf
  <2>4. s[n + 1] = s[n] + v.sums[n]
    BY <1>4, <2>1
  <2>5. Start(v.m, n + 1) = Start(v.m, n) + Padded(Share(v.m, n))
    BY <1>5, <2>1
  <2> QED BY <2>2, <2>3, <2>4, <2>5
<1>8. Nat \subseteq T
  BY <1>6, <1>7, NatInduct
<1>9. ASSUME NEW n \in 0 .. NumExperts PROVE s[n] = Start(v.m, n)
  <2>1. n \in Nat /\ n <= NumExperts
    BY <1>0
  <2> QED BY <1>8, <1>t, <2>1
<1>10. \A j \in Worker : s[j] \in Nat
  BY <1>0, <1>2, <1>4
<1> QED BY <1>9, <1>10

LEMMA ScanKeeps ==
  ASSUME RoutedOK, NEW v, NEW w, ViewType(v), ViewType(w), EntryOK(v),
         \A j \in Worker : v.count[j] = Base + 3,
         w.count = [j \in Worker |-> v.count[j] + 1], w.countLoop = [j \in Worker |-> j],
         NEW s, RunningSum(s, v.sums), w.sums = [j \in Worker |-> s[j]],
         w.m = v.m, SortSame(v, w), w.fill = v.fill, w.row = v.row, w.tally = v.tally,
         w.mask = v.mask, w.total = v.total, w.ranks = v.ranks, w.ids = v.ids
  PROVE  EntryOK(w)
<1>0. /\ Base \in Nat /\ Lanes \in Nat \ {0} /\ Worker = 0 .. Lanes - 1 /\ 0 \in Worker /\ NumExperts \in Worker
      /\ \A e \in AlignExpert : e \in Worker
  BY BaseNat, WorkerFacts DEF Worker
<1>1. \A j \in Worker : v.count[j] = Base + 3 /\ w.count[j] = Base + 4
  BY <1>0
<1>2. ~FirstDone(v)
  BY <1>0, <1>1 DEF FirstDone
<1>3. /\ SortIdle(w) /\ StoredOnce(w) /\ RanksApart(w)
      /\ \A p \in Position : v.fill[p % Lanes] >= Base + 1 => v.row[p] = Numel
  BY <1>2, BeforeSort
<1>4. Filled(w)
  BY <1>3 DEF Filled
<1>5. Order(w)
  <2>1. \A j \in Worker : w.count[j] <= Base + 6 /\ w.fill[j] <= Base + 1 /\ w.sort[j] <= 1
    BY <1>0, <1>1 DEF EntryOK, Order, SortSame
  <2>2. \A j, i \in Worker : w.count[j] <= w.count[i] + 1
    BY <1>0, <1>1
  <2> QED BY <1>3, <2>1, <2>2 DEF Order
<1>6. Loops(w)
  <2>1. ASSUME NEW j \in Worker PROVE j % Lanes = j
    <3>1. PICK i \in Nat, n \in Nat \ {0} : i = j /\ n = Lanes /\ i < n
      BY WorkerFacts
    <3> QED BY <3>1
  <2>2. \A j \in Worker : w.countLoop[j] = j
    OBVIOUS
  <2> QED BY <2>1, <2>2 DEF Loops, EntryOK, SortSame
<1>7. Masked(w)
  BY <1>0, <1>1 DEF EntryOK, Masked
<1>8. Tallied(w)
  <2>1. \A e \in AlignExpert : \A i \in SlotsOf(v.m, e) : IsCounted(w, i) /\ IsCounted(v, i)
    BY <1>0, <1>1, SlotLane DEF IsCounted
  <2>2. \A e \in AlignExpert : Counted(w, e) = Counted(v, e)
    BY <2>1 DEF Counted
  <2>3. \A e \in AlignExpert : v.count[e] >= Base + 1
    BY <1>0, <1>1
  <2> QED BY <2>2, <2>3 DEF Tallied, EntryOK
<1>9. Padding(w)
  <2>1. \A n \in 0 .. NumExperts : s[n] = Start(v.m, n)
    BY ScanSums
  <2>2. \A j \in Worker : w.count[j] # Base + 3 /\ w.sums[j] = s[j]
    BY <1>0, <1>1
  <2>3. \A j \in Worker : j <= NumExperts => j \in 0 .. NumExperts
    BY <1>0, Sizes
  <2> QED BY <2>1, <2>2, <2>3 DEF Padding
<1>10. Ranked(w) /\ NamedBy(w) /\ Totalled(w)
  <2>1. \A j \in Worker : ~(w.count[j] >= Base + 5) /\ ~(w.count[j] >= Base + 6)
    BY <1>0, <1>1
  <2> QED BY <1>0, <2>1 DEF Ranked, NamedBy, Totalled
<1> QED BY <1>3, <1>4, <1>5, <1>6, <1>7, <1>8, <1>9, <1>10 DEF EntryOK

LEMMA SumsKeeps ==
  ASSUME RoutedOK, NEW v, NEW w, ViewType(v), ViewType(w), EntryOK(v),
         NEW l \in Worker, CountMoves(v, w, l, Base + 4),
         w.ranks = (IF l <= NumExperts THEN [v.ranks EXCEPT ![l] = v.sums[l]] ELSE v.ranks),
         w.total = (IF l = NumExperts THEN v.sums[l] ELSE v.total),
         w.tally = v.tally, w.sums = v.sums, w.mask = v.mask, w.ids = v.ids
  PROVE  EntryOK(w)
<1>b. Base \in Nat /\ (\A j \in Worker : v.count[j] \in Nat) /\ v.ranks \in [0 .. NumExperts -> Int]
  BY BaseNat DEF ViewType
<1>0. /\ Base \in Nat /\ Base + 4 \in Nat /\ l \in Nat /\ (\A j \in Worker : v.count[j] \in Nat)
      /\ NumExperts \in Nat
  BY <1>b, WorkerFacts, Sizes
<1>1. /\ Order(w) /\ Loops(w) /\ Filled(w) /\ StoredOnce(w) /\ RanksApart(w)
      /\ SortIdle(v) /\ SortIdle(w)
      /\ v.count[l] = Base + 4 /\ w.count[l] = (Base + 4) + 1
      /\ \A j \in Worker : v.count[j] >= Base + 4 /\ (j # l => w.count[j] = v.count[j])
  BY <1>0, CountMoved
<1>2. Masked(w)
  BY <1>0, MaskedKept
<1>3. Tallied(w)
  BY <1>0, TalliedKept
<1>4. Padding(w)
  BY <1>0, PaddingKept
<1>5. NamedBy(w)
  BY <1>0, NamedKept
<1>6. l <= NumExperts => v.sums[l] = Start(v.m, l)
  BY <1>0, <1>1 DEF EntryOK, Padding
<1>7. \A j \in 0 .. NumExperts : w.ranks[j] = (IF j = l THEN Start(v.m, l) ELSE v.ranks[j])
  BY <1>0, <1>b, <1>6
<1>8. Totalled(w)
  <2>1. CASE l = NumExperts
    BY <1>0, <1>6, <2>1 DEF Totalled, CountMoves
  <2>2. CASE l # NumExperts
    <3>1. w.count[NumExperts] = v.count[NumExperts]
      BY <1>1, <2>2, WorkerFacts
    <3> QED BY <2>2, <3>1 DEF EntryOK, Totalled, CountMoves
  <2> QED BY <2>1, <2>2
<1>9. Ranked(w)
  <2>0. NumExperts \in Worker /\ (\A e \in AlignExpert : e \in Worker /\ e \in 0 .. NumExperts) /\ NumExperts \in 0 .. NumExperts
    BY <1>0, WorkerFacts DEF AlignExpert
  <2>1. \A e \in AlignExpert : Taken(w, e) = {} /\ Taken(v, e) = {}
    BY <1>1, NothingStored
  <2>2. Cardinality({}) = 0
    BY FS_EmptySet
  <2>3. w.count[NumExperts] >= Base + 5 => w.ranks[NumExperts] = Start(v.m, NumExperts)
    <3>1. CASE l = NumExperts
      BY <1>7, <2>0, <3>1
    <3>2. CASE l # NumExperts
      BY <1>1, <1>7, <2>0, <3>2 DEF EntryOK, Ranked
    <3> QED BY <3>1, <3>2
  <2>4. ASSUME NEW e \in AlignExpert, w.count[e] >= Base + 5
        PROVE  w.ranks[e] = Start(v.m, e) + Cardinality(Taken(w, e))
    <3>1. Start(v.m, e) \in Nat
      BY <2>0, Layout
    <3>2. CASE l = e
      BY <1>7, <2>0, <2>1, <2>2, <3>1, <3>2
    <3>3. CASE l # e
      <4>1. v.count[e] >= Base + 5
        BY <1>1, <2>0, <2>4, <3>3
      <4>2. v.ranks[e] = Start(v.m, e) + Cardinality(Taken(v, e))
        BY <4>1 DEF EntryOK, Ranked
      <4> QED BY <1>7, <2>0, <2>1, <3>3, <4>2
    <3> QED BY <3>2, <3>3
  <2> QED BY <2>3, <2>4 DEF Ranked, CountMoves
<1> QED BY <1>1, <1>2, <1>3, <1>4, <1>5, <1>8, <1>9 DEF EntryOK

LEMMA NameBlocksKeeps ==
  ASSUME RoutedOK, NEW v, NEW w, ViewType(v), ViewType(w), EntryOK(v),
         NEW l \in Worker, CountMoves(v, w, l, Base + 5),
         w.ids = Namings(v.m, v.ids, l, Lanes), w.ranks = v.ranks, w.total = v.total,
         w.tally = v.tally, w.sums = v.sums, w.mask = v.mask
  PROVE  EntryOK(w)
<1>b. Base \in Nat /\ \A j \in Worker : v.count[j] \in Nat
  BY BaseNat DEF ViewType
<1>0. /\ Base \in Nat /\ Base + 5 \in Nat /\ l \in Nat /\ (\A j \in Worker : v.count[j] \in Nat /\ j \in Nat)
      /\ Lanes \in Nat
  BY <1>b, WorkerFacts
<1>1. /\ Order(w) /\ Loops(w) /\ Filled(w) /\ StoredOnce(w) /\ RanksApart(w)
      /\ v.count[l] = Base + 5 /\ w.count[l] = (Base + 5) + 1
      /\ \A j \in Worker : v.count[j] >= Base + 5 /\ (j # l => w.count[j] = v.count[j])
  BY <1>0, CountMoved
<1>2. Masked(w)
  BY <1>0, MaskedKept
<1>3. Tallied(w)
  BY <1>0, TalliedKept
<1>4. Padding(w)
  BY <1>0, PaddingKept
<1>5. Ranked(w)
  BY <1>0, RankedKept
<1>6. Totalled(w)
  BY <1>0, TotalledKept
<1>7. NamedBy(w)
  <2> SUFFICES ASSUME NEW k \in Worker, NEW b \in Block, w.count[k] >= Base + 6
               PROVE  /\ b \in Mine(v.m, k) => w.ids[b] = k
                      /\ b \in Rest(v.m, k, Lanes) => w.ids[b] = Inactive
    BY DEF NamedBy, CountMoves
  <2>1. w.ids[b] = (IF b \in Rest(v.m, l, Lanes) THEN Inactive ELSE IF b \in Mine(v.m, l) THEN l ELSE v.ids[b])
    BY DEF Namings
  <2>2. \A t, u \in Nat : b \in Mine(v.m, t) =>
          (b \in Mine(v.m, u) => u = t) /\ b \notin Rest(v.m, u, Lanes)
    BY <1>0, NamesApart
  <2>3. CASE k = l
    BY <1>0, <2>1, <2>2, <2>3
  <2>4. CASE k # l
    <3>1. v.count[k] >= Base + 6
      BY <1>1, <2>4
    <3>2. (b \in Mine(v.m, k) => v.ids[b] = k) /\ (b \in Rest(v.m, k, Lanes) => v.ids[b] = Inactive)
      BY <3>1 DEF EntryOK, NamedBy
    <3> QED BY <1>0, <2>1, <2>2, <2>4, <3>2
  <2> QED BY <2>3, <2>4
<1> QED BY <1>1, <1>2, <1>3, <1>4, <1>5, <1>6, <1>7 DEF EntryOK

(* A work-item of the group that fills ends phase k. *)
FillMoves(v, w, l, k) ==
  /\ w.m = v.m /\ SortSame(v, w) /\ w.count = v.count /\ w.countLoop = v.countLoop
  /\ Reached(v.fill, l, k) /\ k < Base + 1 /\ w.fill = Bumped(v.fill, l)
  /\ w.tally = v.tally /\ w.sums = v.sums /\ w.ranks = v.ranks /\ w.ids = v.ids

LEMMA FillMoved ==
  ASSUME RoutedOK, NEW v, NEW w, ViewType(v), ViewType(w), EntryOK(v),
         NEW l \in Worker, NEW k \in Nat, FillMoves(v, w, l, k)
  PROVE  /\ Order(w) /\ Loops(w) /\ StoredOnce(w) /\ RanksApart(w)
         /\ Tallied(w) /\ Padding(w) /\ Ranked(w) /\ NamedBy(w)
         /\ v.fill[l] = k /\ w.fill[l] = k + 1
         /\ \A j \in Worker : j # l => w.fill[j] = v.fill[j]
         /\ \A p \in Position : v.fill[p % Lanes] >= Base + 1 => v.row[p] = Numel
<1>0. Base \in Nat /\ \A j \in Worker : v.fill[j] \in Nat
  BY BaseNat DEF ViewType
<1>1. /\ v.fill[l] = k /\ w.fill[l] = k + 1 /\ \A j \in Worker : j # l => w.fill[j] = v.fill[j]
  BY DEF FillMoves, Reached, Bumped, ViewType
<1>2. ~FirstDone(v)
  BY <1>0, <1>1 DEF FirstDone, FillMoves
<1>3. /\ SortIdle(w) /\ StoredOnce(w) /\ RanksApart(w)
      /\ \A p \in Position : v.fill[p % Lanes] >= Base + 1 => v.row[p] = Numel
  BY <1>2, BeforeSort DEF FillMoves
<1>4. Order(w)
  <2>1. \A j \in Worker : w.fill[j] <= Base + 1
    <3>1. \A j \in Worker : v.fill[j] <= Base + 1
      BY DEF EntryOK, Order
    <3>2. k + 1 <= Base + 1
      BY <1>0 DEF FillMoves
    <3> QED BY <1>1, <3>1, <3>2
  <2> QED BY <1>3, <2>1 DEF EntryOK, Order, FillMoves, SortSame
<1>5. Loops(w) /\ Padding(w) /\ NamedBy(w)
  BY DEF EntryOK, Loops, Padding, NamedBy, FillMoves, SortSame
<1>6. Tallied(w)
  <2>1. \A e : Counted(w, e) = Counted(v, e)
    BY DEF Counted, IsCounted, FillMoves
  <2> QED BY <2>1 DEF EntryOK, Tallied, FillMoves
<1>7. Ranked(w)
  <2>1. \A e : Taken(w, e) = Taken(v, e)
    BY DEF Taken, IsStored, IsWaiting, FillMoves, SortSame
  <2> QED BY <2>1 DEF EntryOK, Ranked, FillMoves
<1> QED BY <1>1, <1>3, <1>4, <1>5, <1>6, <1>7

LEMMA MaskFillKeeps ==
  ASSUME RoutedOK, NEW v, NEW w, ViewType(v), ViewType(w), EntryOK(v),
         NEW l \in Worker, FillMoves(v, w, l, 0), Base = 1, w.row = v.row,
         w.mask = (IF l = 0 THEN Wanted(v.m) ELSE v.mask)
  PROVE  EntryOK(w)
<1>1. /\ Order(w) /\ Loops(w) /\ StoredOnce(w) /\ RanksApart(w)
      /\ Tallied(w) /\ Padding(w) /\ Ranked(w) /\ NamedBy(w)
      /\ v.fill[l] = 0 /\ w.fill[l] = 1
      /\ \A j \in Worker : j # l => w.fill[j] = v.fill[j]
      /\ \A p \in Position : v.fill[p % Lanes] >= Base + 1 => v.row[p] = Numel
  BY FillMoved
<1>2. Masked(w)
  BY DEF EntryOK, Masked, FillMoves
<1>3. Totalled(w)
  BY DEF Totalled
<1>4. Filled(w)
  <2> SUFFICES ASSUME NEW p \in Position, w.fill[p % Lanes] >= Base + 1 PROVE w.row[p] = Numel
    BY DEF Filled
  <2>1. p % Lanes \in Worker
    BY WorkerFacts DEF Position
  <2>2. p % Lanes # l
    BY <1>1
  <2> QED BY <1>1, <2>1, <2>2
<1> QED BY <1>1, <1>2, <1>3, <1>4 DEF EntryOK

LEMMA FillKeeps ==
  ASSUME RoutedOK, NEW v, NEW w, ViewType(v), ViewType(w), EntryOK(v),
         NEW l \in Worker, FillMoves(v, w, l, Base), w.row = Filling(v.row, l, Lanes),
         w.mask = v.mask, w.total = v.total
  PROVE  EntryOK(w)
<1>0. Base \in Nat
  BY BaseNat
<1>1. /\ Order(w) /\ Loops(w) /\ StoredOnce(w) /\ RanksApart(w)
      /\ Tallied(w) /\ Padding(w) /\ Ranked(w) /\ NamedBy(w)
      /\ \A j \in Worker : j # l => w.fill[j] = v.fill[j]
      /\ \A p \in Position : v.fill[p % Lanes] >= Base + 1 => v.row[p] = Numel
  BY <1>0, FillMoved
<1>2. Masked(w) /\ Totalled(w)
  BY DEF EntryOK, Masked, Totalled, FillMoves
<1>3. Filled(w)
  <2> SUFFICES ASSUME NEW p \in Position, w.fill[p % Lanes] >= Base + 1 PROVE w.row[p] = Numel
    BY DEF Filled
  <2>1. p % Lanes \in Worker
    BY WorkerFacts DEF Position
  <2>2. w.row[p] = (IF p % Lanes = l THEN Numel ELSE v.row[p])
    BY DEF Filling
  <2> QED BY <1>1, <2>1, <2>2
<1> QED BY <1>1, <1>2, <1>3 DEF EntryOK

(* A step of the second kernel leaves what the first has made of the entry *)
(* but the ranks, the outputs apart from the rows of slots.                *)
SortMoves(v, w) ==
  /\ w.m = v.m /\ w.count = v.count /\ w.countLoop = v.countLoop /\ w.fill = v.fill
  /\ w.tally = v.tally /\ w.sums = v.sums /\ w.mask = v.mask /\ w.total = v.total /\ w.ids = v.ids

LEMMA SortMoved ==
  ASSUME RoutedOK, NEW v, NEW w, ViewType(v), ViewType(w), EntryOK(v), FirstDone(v), SortMoves(v, w),
         \A k \in Worker : w.sort[k] <= 1 /\ w.sortLoop[k] % Lanes = k
  PROVE  /\ Order(w) /\ Loops(w) /\ Masked(w) /\ Tallied(w) /\ Padding(w) /\ NamedBy(w) /\ Totalled(w)
         /\ FirstDone(w) /\ v.mask = Wanted(v.m)
<1>1. FirstDone(w)
  BY DEF FirstDone, SortMoves
<1>2. Order(w) /\ Loops(w)
  BY <1>1 DEF EntryOK, Order, Loops, SortMoves
<1>3. Masked(w) /\ Padding(w) /\ NamedBy(w) /\ Totalled(w)
  BY DEF EntryOK, Masked, Padding, NamedBy, Totalled, SortMoves
<1>4. Tallied(w)
  <2>1. \A e : Counted(w, e) = Counted(v, e)
    BY DEF Counted, IsCounted, SortMoves
  <2> QED BY <2>1 DEF EntryOK, Tallied, SortMoves
<1>5. v.mask = Wanted(v.m)
  <2>1. v.count[0] >= Base
    BY BaseNat, WorkerFacts DEF FirstDone
  <2> QED BY <2>1 DEF EntryOK, Masked
<1> QED BY <1>1, <1>2, <1>3, <1>4, <1>5

(* Ranks taken so far stay in the expert's own range.                      *)
LEMMA RangeFacts ==
  ASSUME RoutedOK, NEW v, ViewType(v), EntryOK(v), FirstDone(v), NEW e \in AlignExpert
  PROVE  /\ v.ranks[e] \in Nat /\ Start(v.m, e) \in Nat /\ Start(v.m, e + 1) \in Nat
         /\ IsFiniteSet(Taken(v, e)) /\ v.ranks[e] = Start(v.m, e) + Cardinality(Taken(v, e))
         /\ Start(v.m, e) <= v.ranks[e] /\ v.ranks[e] <= Start(v.m, e + 1)
         /\ \A i \in SlotsOf(v.m, e) : ~IsStored(v, i) /\ ~IsWaiting(v, i) => v.ranks[e] < Start(v.m, e + 1)
<1>0. e \in 0 .. NumExperts /\ e + 1 \in 0 .. NumExperts /\ e \in Worker
  BY Sizes, WorkerFacts DEF AlignExpert
<1>1. Start(v.m, e) \in Nat /\ Start(v.m, e + 1) \in Nat
  BY <1>0, Layout
<1>2. Start(v.m, e + 1) = Start(v.m, e) + Padded(Share(v.m, e))
  BY Layout
<1>3. PICK n \in Nat : n = Share(v.m, e)
  BY ShareFacts
<1>4. PICK p \in Nat : p = Padded(n) /\ n <= p
  BY PaddedFacts
<1>5. Taken(v, e) \subseteq SlotsOf(v.m, e) /\ IsFiniteSet(SlotsOf(v.m, e)) /\ n = Cardinality(SlotsOf(v.m, e))
  BY <1>3, ShareFacts DEF Taken, Share, SlotsOf
<1>6. IsFiniteSet(Taken(v, e)) /\ Cardinality(Taken(v, e)) \in Nat /\ Cardinality(Taken(v, e)) <= n
  BY <1>5, FS_Subset, FS_CardinalityType
<1>7. PICK c \in Nat : c = Cardinality(Taken(v, e)) /\ c <= n
  BY <1>6
<1>8. v.ranks[e] = Start(v.m, e) + c
  <2>1. v.count[e] >= Base + 5
    <3>1. Base \in Nat /\ v.count[e] = Base + 6
      BY <1>0, BaseNat DEF FirstDone
    <3> QED BY <3>1
  <2> QED BY <1>7, <2>1 DEF EntryOK, Ranked
<1>9. ASSUME NEW i \in SlotsOf(v.m, e), ~IsStored(v, i), ~IsWaiting(v, i) PROVE c < n
  <2>1. Taken(v, e) # SlotsOf(v.m, e)
    BY <1>9 DEF Taken
  <2> QED BY <1>5, <1>7, <2>1, FS_Subset, FS_CardinalityType
<1> QED BY <1>1, <1>2, <1>3, <1>4, <1>6, <1>7, <1>8, <1>9

LEMMA RankOwner ==
  ASSUME RoutedOK, NEW v, ViewType(v), EntryOK(v), FirstDone(v), NEW p \in Int,
         NEW d \in AlignExpert, NEW e \in AlignExpert, InRange(v, d, p),
         Start(v.m, e) <= p, p < Start(v.m, e + 1)
  PROVE  d = e
<1>1. p < Start(v.m, d + 1) /\ Start(v.m, d) <= p
  <2>1. v.ranks[d] \in Nat /\ v.ranks[d] <= Start(v.m, d + 1) /\ Start(v.m, d + 1) \in Nat
    BY RangeFacts
  <2> QED BY <2>1 DEF InRange
<1> QED BY <1>1, RangesApart

LEMMA RankPosition ==
  ASSUME RoutedOK, NEW v, ViewType(v), EntryOK(v), FirstDone(v), NEW p \in Int,
         NEW e \in AlignExpert, InRange(v, e, p)
  PROVE  p \in Position /\ p \div BlockSize \in Block /\ p \div BlockSize \in Mine(v.m, e)
         /\ Start(v.m, e) <= p /\ p < Start(v.m, e + 1)
<1>1. p < Start(v.m, e + 1) /\ Start(v.m, e) <= p
  <2>1. v.ranks[e] \in Nat /\ v.ranks[e] <= Start(v.m, e + 1) /\ Start(v.m, e + 1) \in Nat
    BY RangeFacts
  <2> QED BY <2>1 DEF InRange
<1> QED BY <1>1, PositionOf

TurnOver(v, w, l) ==
  IF v.sortLoop[l] < Numel
  THEN w.sort = v.sort /\ w.sortLoop = [v.sortLoop EXCEPT ![l] = @ + Lanes]
  ELSE w.sort = Bumped(v.sort, l) /\ w.sortLoop = [v.sortLoop EXCEPT ![l] = l]

LEMMA OwnLane ==
  ASSUME NEW l \in Worker
  PROVE  l % Lanes = l
<1>1. l \in 0 .. Lanes - 1 /\ Lanes \in Nat \ {0}
  BY WorkerFacts DEF Worker
<1> QED BY <1>1

LEMMA Turned ==
  ASSUME RoutedOK, NEW v, NEW w, ViewType(v), ViewType(w), EntryOK(v), NEW l \in Worker,
         v.sort[l] = 0, TurnOver(v, w, l), w.m = v.m
  PROVE  /\ \A k \in Worker : w.sort[k] <= 1 /\ w.sortLoop[k] % Lanes = k
         /\ \A k \in Worker : k # l => w.sort[k] = v.sort[k] /\ w.sortLoop[k] = v.sortLoop[k]
         /\ \A e \in AlignExpert : \A i \in SlotsOf(v.m, e) :
              IsStored(w, i) <=> IsStored(v, i) \/ i = v.sortLoop[l]
<1>0. /\ l \in Nat /\ Lanes \in Nat \ {0} /\ Worker = 0 .. Lanes - 1 /\ Numel \in Nat
      /\ \A k \in Worker : v.sort[k] \in Nat /\ v.sortLoop[k] \in Nat /\ v.sort[k] <= 1 /\ v.sortLoop[k] % Lanes = k
  BY WorkerFacts, Sizes DEF Worker, ViewType, EntryOK, Order, Loops
<1>1. PICK i0 \in Nat : i0 = v.sortLoop[l]
  BY <1>0
<1>2. CASE i0 < Numel
  <2>1. /\ w.sort = v.sort /\ w.sortLoop[l] = i0 + Lanes
        /\ \A k \in Worker : k # l => w.sortLoop[k] = v.sortLoop[k]
    BY <1>1, <1>2 DEF TurnOver, ViewType
  <2>2. (i0 + Lanes) % Lanes = l /\ i0 % Lanes = l
    BY <1>0, <1>1, StrideMod
  <2>3. ASSUME NEW e \in AlignExpert, NEW i \in SlotsOf(v.m, e)
        PROVE  IsStored(w, i) <=> IsStored(v, i) \/ i = i0
    <3>1. PICK j \in Worker : j = i % Lanes /\ i \in Nat
      BY SlotLane
    <3>2. CASE j # l
      <4>1. w.sortLoop[j] = v.sortLoop[j] /\ i # i0
        BY <2>1, <2>2, <3>1, <3>2
      <4> QED BY <2>1, <3>1, <4>1 DEF IsStored
    <3>3. CASE j = l
      <4>1. i < i0 + Lanes <=> i < i0 \/ i = i0
        BY <2>2, <3>1, <3>3, StrideStep
      <4>2. ~(v.sort[l] >= 1)
        OBVIOUS
      <4> QED BY <1>1, <2>1, <3>1, <3>3, <4>1, <4>2 DEF IsStored
    <3> QED BY <3>2, <3>3
  <2> QED BY <1>0, <1>1, <2>1, <2>2, <2>3
<1>3. CASE ~(i0 < Numel)
  <2>1. /\ w.sort[l] = 1 /\ w.sortLoop[l] = l
        /\ \A k \in Worker : k # l => w.sort[k] = v.sort[k] /\ w.sortLoop[k] = v.sortLoop[k]
    <3>1. w.sort = [v.sort EXCEPT ![l] = @ + 1] /\ w.sortLoop = [v.sortLoop EXCEPT ![l] = l]
      BY <1>1, <1>3 DEF TurnOver, Bumped
    <3>2. v.sort \in [Worker -> Nat] /\ v.sortLoop \in [Worker -> Nat]
      BY DEF ViewType
    <3> QED BY <3>1, <3>2
  <2>2. l % Lanes = l
    BY OwnLane
  <2>3. ASSUME NEW e \in AlignExpert, NEW i \in SlotsOf(v.m, e)
        PROVE  IsStored(w, i) <=> IsStored(v, i) \/ i = i0
    <3>1. PICK j \in Worker : j = i % Lanes /\ i \in Nat /\ i < Numel
      BY SlotLane
    <3>2. i # i0 /\ i < i0
      BY <1>0, <1>3, <3>1
    <3>3. CASE j # l
      BY <2>1, <3>1, <3>2, <3>3 DEF IsStored
    <3>4. CASE j = l
      BY <1>1, <2>1, <3>1, <3>2, <3>4 DEF IsStored
    <3> QED BY <3>3, <3>4
  <2>4. ASSUME NEW k \in Worker PROVE w.sort[k] <= 1 /\ w.sortLoop[k] % Lanes = k
    <3>1. v.sort[k] <= 1 /\ v.sortLoop[k] % Lanes = k
      BY <1>0
    <3> QED BY <2>1, <2>2, <3>1
  <2> QED BY <1>1, <2>1, <2>3, <2>4
<1> QED BY <1>2, <1>3

(* The ranks, when the slots taken do not change. *)
LEMMA RankedSame ==
  ASSUME RoutedOK, NEW v, NEW w, EntryOK(v), w.m = v.m, w.count = v.count, w.ranks = v.ranks,
         \A e \in AlignExpert : Taken(w, e) = Taken(v, e)
  PROVE  Ranked(w)
BY DEF EntryOK, Ranked

LEMMA TakesRankKeeps ==
  ASSUME RoutedOK, NEW v, NEW w, ViewType(v), ViewType(w), EntryOK(v), FirstDone(v), SortMoves(v, w),
         NEW l \in Worker, v.sort[l] = 0, v.held[l] = -1,
         NEW i0 \in Nat, i0 = v.sortLoop[l], i0 < Numel, Valid(i0), v.mask[i0 \div TopkNum] # 0,
         w.held = [v.held EXCEPT ![l] = v.ranks[ServedBy(i0)]],
         w.ranks = [v.ranks EXCEPT ![ServedBy(i0)] = @ + 1],
         w.sort = v.sort, w.sortLoop = v.sortLoop, w.row = v.row
  PROVE  EntryOK(w)
<1>1. /\ Order(w) /\ Loops(w) /\ Masked(w) /\ Tallied(w) /\ Padding(w) /\ NamedBy(w) /\ Totalled(w)
      /\ FirstDone(w) /\ v.mask = Wanted(v.m)
  <2>1. \A k \in Worker : w.sort[k] <= 1 /\ w.sortLoop[k] % Lanes = k
    BY DEF EntryOK, Order, Loops
  <2> QED BY <2>1, SortMoved
<1>2. i0 \in AlignSlot /\ i0 \div TopkNum \in AlignToken
  <2>1. i0 \in AlignSlot
    BY Sizes DEF AlignSlot
  <2> QED BY <2>1, SlotToken
<1>3. PICK e0 \in AlignExpert : e0 = ServedBy(i0) /\ i0 \in SlotsOf(v.m, e0) /\ e0 \in 0 .. NumExperts
  <2>1. ServedBy(i0) \in AlignExpert /\ Wanted(v.m)[i0 \div TopkNum] = 1
    BY <1>1, <1>2, ServedFacts
  <2>2. i0 \in SlotsOf(v.m, ServedBy(i0))
    BY <1>2, <2>1, ServedFacts
  <2> QED BY <2>1, <2>2, Sizes DEF AlignExpert
<1>4. PICK r \in Nat : r = v.ranks[e0] /\ Start(v.m, e0) <= r /\ r = Start(v.m, e0) + Cardinality(Taken(v, e0))
  BY RangeFacts
<1>5. /\ w.held[l] = r /\ \A k \in Worker : k # l => w.held[k] = v.held[k]
  BY <1>3, <1>4 DEF ViewType
<1>6. /\ w.ranks[e0] = r + 1 /\ \A e \in AlignExpert : e # e0 => w.ranks[e] = v.ranks[e]
  <2>0. v.ranks \in [0 .. NumExperts -> Int]
    BY DEF ViewType
  <2>e. \A e \in AlignExpert : e \in 0 .. NumExperts
    BY Sizes DEF AlignExpert
  <2>2. w.ranks = [v.ranks EXCEPT ![e0] = r + 1]
    BY <1>3, <1>4
  <2> QED BY <1>3, <2>0, <2>e, <2>2
<1>7. i0 % Lanes = l
  BY DEF EntryOK, Loops
<1>8. ~IsStored(v, i0) /\ ~IsWaiting(v, i0)
  BY <1>7 DEF IsStored, IsWaiting
<1>9. r < Start(v.m, e0 + 1)
  BY <1>3, <1>4, <1>8, RangeFacts
<1>10. ASSUME NEW e \in AlignExpert, NEW i \in SlotsOf(v.m, e)
       PROVE  (IsStored(w, i) <=> IsStored(v, i)) /\ (IsWaiting(w, i) <=> IsWaiting(v, i) \/ i = i0)
  <2>1. IsStored(w, i) <=> IsStored(v, i)
    BY DEF IsStored
  <2>2. PICK j \in Worker : j = i % Lanes
    BY SlotLane
  <2>w. /\ IsWaiting(w, i) <=> i = v.sortLoop[j] /\ w.held[j] # -1
        /\ IsWaiting(v, i) <=> i = v.sortLoop[j] /\ v.held[j] # -1
    BY <2>2 DEF IsWaiting
  <2>3. CASE j # l
    <3>1. i # i0
      BY <1>7, <2>2, <2>3
    <3> QED BY <1>5, <2>1, <2>3, <2>w, <3>1
  <2>4. CASE j = l
    <3>1. r # -1
      OBVIOUS
    <3> QED BY <1>5, <2>1, <2>4, <2>w, <3>1
  <2> QED BY <2>1, <2>3, <2>4
<1>11. \A e \in AlignExpert : Stored(w, e) = Stored(v, e)
  BY <1>10 DEF Stored, SortMoves
<1>12. ASSUME NEW e \in AlignExpert PROVE Taken(w, e) = (IF e = e0 THEN Taken(v, e) \cup {i0} ELSE Taken(v, e))
  <2>1. i0 \in SlotsOf(v.m, e) <=> e = e0
    <3>1. i0 \in SlotsOf(v.m, e) => ServedBy(i0) = e
      <4>1. i0 \in SlotsOf(v.m, e) <=> ServedBy(i0) = e /\ Wanted(v.m)[i0 \div TopkNum] = 1
        BY <1>2, ServedFacts
      <4> QED BY <4>1
    <3> QED BY <1>3, <3>1
  <2> QED BY <1>10, <2>1 DEF Taken, SortMoves
<1>13. Ranked(w)
  <2>1. w.ranks[NumExperts] = v.ranks[NumExperts]
    <3>1. NumExperts # e0 /\ NumExperts \in 0 .. NumExperts
      BY <1>3, Sizes DEF AlignExpert
    <3> QED BY <1>3, <3>1 DEF ViewType
  <2>2. ASSUME NEW e \in AlignExpert PROVE w.ranks[e] = Start(v.m, e) + Cardinality(Taken(w, e))
    <3>1. CASE e # e0
      BY <1>6, <1>12, <3>1, RangeFacts
    <3>2. CASE e = e0
      <4>1. i0 \notin Taken(v, e0) /\ IsFiniteSet(Taken(v, e0))
        BY <1>8, RangeFacts DEF Taken
      <4>2. Cardinality(Taken(v, e0) \cup {i0}) = Cardinality(Taken(v, e0)) + 1
        BY <4>1, FS_AddElement
      <4>3. PICK c \in Nat, s \in Nat : c = Cardinality(Taken(v, e0)) /\ s = Start(v.m, e0)
        BY <4>1, FS_CardinalityType, RangeFacts
      <4>4. Taken(w, e) = Taken(v, e0) \cup {i0}
        BY <1>12, <3>2
      <4>5. Cardinality(Taken(w, e)) = c + 1
        BY <4>2, <4>3, <4>4
      <4>6. r = s + c /\ w.ranks[e] = r + 1
        BY <1>4, <1>6, <3>2, <4>3
      <4> QED BY <3>2, <4>3, <4>5, <4>6
    <3> QED BY <3>1, <3>2
  <2> QED BY <2>1, <2>2 DEF Ranked, EntryOK, SortMoves
<1>14. ASSUME NEW e \in AlignExpert, NEW p \in Int, InRange(v, e, p) PROVE InRange(w, e, p)
  <2>1. p < w.ranks[e]
    <3>1. CASE e # e0
      BY <1>6, <1>14, <3>1 DEF InRange
    <3>2. CASE e = e0
      <4>1. p < r
        BY <1>4, <1>14, <3>2 DEF InRange
      <4> QED BY <1>6, <3>2, <4>1
    <3> QED BY <3>1, <3>2
  <2> QED BY <1>14, <2>1 DEF InRange, SortMoves
<1>15. \A p \in Position : p \in Int
  BY DEF Position
<1>16. Filled(w)
  BY <1>11, <1>14, <1>15 DEF Filled, EntryOK, SortMoves
<1>17. StoredOnce(w)
  BY <1>11, <1>14, <1>15 DEF StoredOnce, EntryOK
<1>18. ASSUME NEW e \in AlignExpert PROVE ~InRange(v, e, r)
  <2> SUFFICES ASSUME InRange(v, e, r) PROVE FALSE
    OBVIOUS
  <2>1. e = e0
    BY <1>4, <1>9, RankOwner
  <2>2. r < v.ranks[e0]
    BY <2>1 DEF InRange
  <2>3. r = v.ranks[e0]
    BY <1>4
  <2> QED BY <2>2, <2>3
<1>19. r \in Position /\ v.row[r] = Numel
  <2>1. r \in Position
    BY <1>4, <1>9, PositionOf
  <2>2. v.fill[r % Lanes] >= Base + 1
    <3>1. r % Lanes \in Worker
      BY WorkerFacts
    <3> QED BY <3>1, BaseNat DEF FirstDone
  <2> QED BY <1>18, <2>1, <2>2 DEF EntryOK, Filled
<1>20. InRange(w, e0, r)
  BY <1>4, <1>6 DEF InRange, SortMoves
<1>21. RanksApart(w)
  <2> SUFFICES ASSUME NEW k \in Worker, w.held[k] # -1
               PROVE  /\ w.sort[k] = 0 /\ w.sortLoop[k] < Numel
                      /\ \E e \in AlignExpert : w.sortLoop[k] \in SlotsOf(w.m, e) /\ InRange(w, e, w.held[k])
                      /\ w.row[w.held[k]] = Numel
                      /\ \A j \in Worker \ {k} : w.held[j] # w.held[k]
    BY DEF RanksApart
  <2>1. ASSUME NEW j \in Worker, j # l PROVE v.held[j] # r
    <3> SUFFICES ASSUME v.held[j] = r PROVE FALSE
      OBVIOUS
    <3>1. v.held[j] # -1
      BY <1>4
    <3> QED BY <1>18, <3>1 DEF EntryOK, RanksApart
  <2>2. CASE k = l
    BY <1>3, <1>5, <1>19, <1>20, <2>1, <2>2 DEF SortMoves
  <2>3. CASE k # l
    <3>1. /\ v.sort[k] = 0 /\ v.sortLoop[k] < Numel
          /\ \E e \in AlignExpert : v.sortLoop[k] \in SlotsOf(v.m, e) /\ InRange(v, e, v.held[k])
          /\ v.row[v.held[k]] = Numel
          /\ \A j \in Worker \ {k} : v.held[j] # v.held[k]
      BY <1>5, <2>3 DEF EntryOK, RanksApart
    <3>2. \E e \in AlignExpert : w.sortLoop[k] \in SlotsOf(w.m, e) /\ InRange(w, e, w.held[k])
      <4>1. v.held[k] \in Int
        BY DEF ViewType
      <4> QED BY <1>5, <1>14, <2>3, <3>1, <4>1 DEF SortMoves
    <3>3. \A j \in Worker \ {k} : w.held[j] # w.held[k]
      BY <1>5, <2>1, <2>3, <3>1
    <3> QED BY <1>5, <2>3, <3>1, <3>2, <3>3
  <2> QED BY <2>2, <2>3
<1> QED BY <1>1, <1>13, <1>16, <1>17, <1>21 DEF EntryOK

LEMMA PassesByKeeps ==
  ASSUME RoutedOK, NEW v, NEW w, ViewType(v), ViewType(w), EntryOK(v), FirstDone(v), SortMoves(v, w),
         NEW l \in Worker, v.sort[l] = 0, v.held[l] = -1,
         NEW i0 \in Nat, i0 = v.sortLoop[l],
         ~(i0 < Numel /\ Valid(i0) /\ v.mask[i0 \div TopkNum] # 0),
         w.held = v.held, w.ranks = v.ranks, TurnOver(v, w, l), w.row = v.row
  PROVE  EntryOK(w)
<1>0. w.m = v.m
  BY DEF SortMoves
<1>1. /\ \A k \in Worker : w.sort[k] <= 1 /\ w.sortLoop[k] % Lanes = k
      /\ \A k \in Worker : k # l => w.sort[k] = v.sort[k] /\ w.sortLoop[k] = v.sortLoop[k]
      /\ \A e \in AlignExpert : \A i \in SlotsOf(v.m, e) :
           IsStored(w, i) <=> IsStored(v, i) \/ i = v.sortLoop[l]
  BY <1>0, Turned
<1>2. /\ Order(w) /\ Loops(w) /\ Masked(w) /\ Tallied(w) /\ Padding(w) /\ NamedBy(w) /\ Totalled(w)
      /\ FirstDone(w) /\ v.mask = Wanted(v.m)
  BY <1>1, SortMoved
<1>3. \A e \in AlignExpert : i0 \notin SlotsOf(v.m, e)
  <2> SUFFICES ASSUME NEW e \in AlignExpert, i0 \in SlotsOf(v.m, e) PROVE FALSE
    OBVIOUS
  <2>1. i0 \in AlignSlot /\ i0 < Numel
    BY SlotLane
  <2>2. ServedBy(i0) = e /\ Wanted(v.m)[i0 \div TopkNum] = 1
    BY <2>1, ServedFacts
  <2>3. Valid(i0)
    BY <2>1, <2>2, ServedFacts
  <2> QED BY <1>2, <2>1, <2>2, <2>3
<1>4. ASSUME NEW e \in AlignExpert, NEW i \in SlotsOf(v.m, e)
      PROVE  (IsStored(w, i) <=> IsStored(v, i)) /\ (IsWaiting(w, i) <=> IsWaiting(v, i))
  <2>1. IsStored(w, i) <=> IsStored(v, i)
    BY <1>1, <1>3
  <2>2. PICK j \in Worker : j = i % Lanes
    BY SlotLane
  <2>3. /\ IsWaiting(w, i) <=> i = w.sortLoop[j] /\ v.held[j] # -1
        /\ IsWaiting(v, i) <=> i = v.sortLoop[j] /\ v.held[j] # -1
    BY <2>2 DEF IsWaiting
  <2> QED BY <1>1, <2>1, <2>3
<1>5. \A e \in AlignExpert : Stored(w, e) = Stored(v, e) /\ Taken(w, e) = Taken(v, e)
  BY <1>0, <1>4 DEF Stored, Taken
<1>6. Ranked(w)
  BY <1>0, <1>5, RankedSame DEF SortMoves
<1>7. Filled(w) /\ StoredOnce(w)
  BY <1>0, <1>5 DEF Filled, StoredOnce, InRange, EntryOK, SortMoves
<1>8. RanksApart(w)
  <2> SUFFICES ASSUME NEW k \in Worker, v.held[k] # -1
               PROVE  /\ w.sort[k] = 0 /\ w.sortLoop[k] < Numel
                      /\ \E e \in AlignExpert : w.sortLoop[k] \in SlotsOf(v.m, e) /\ InRange(v, e, v.held[k])
                      /\ v.row[v.held[k]] = Numel
                      /\ \A j \in Worker \ {k} : v.held[j] # v.held[k]
    BY <1>0 DEF RanksApart, InRange
  <2>1. w.sort[k] = v.sort[k] /\ w.sortLoop[k] = v.sortLoop[k]
    BY <1>1
  <2> QED BY <2>1 DEF EntryOK, RanksApart
<1> QED BY <1>2, <1>6, <1>7, <1>8 DEF EntryOK

LEMMA StoreSlotKeeps ==
  ASSUME RoutedOK, NEW v, NEW w, ViewType(v), ViewType(w), EntryOK(v), FirstDone(v), SortMoves(v, w),
         NEW l \in Worker, v.sort[l] = 0, NEW h \in Int, h = v.held[l], h # -1,
         NEW i0 \in Nat, i0 = v.sortLoop[l],
         w.held = [v.held EXCEPT ![l] = -1], w.ranks = v.ranks, TurnOver(v, w, l),
         w.row = [v.row EXCEPT ![h] = i0]
  PROVE  EntryOK(w)
<1>0. w.m = v.m
  BY DEF SortMoves
<1>1. /\ \A k \in Worker : w.sort[k] <= 1 /\ w.sortLoop[k] % Lanes = k
      /\ \A k \in Worker : k # l => w.sort[k] = v.sort[k] /\ w.sortLoop[k] = v.sortLoop[k]
      /\ \A e \in AlignExpert : \A i \in SlotsOf(v.m, e) :
           IsStored(w, i) <=> IsStored(v, i) \/ i = i0
  BY <1>0, Turned
<1>2. /\ Order(w) /\ Loops(w) /\ Masked(w) /\ Tallied(w) /\ Padding(w) /\ NamedBy(w) /\ Totalled(w)
      /\ FirstDone(w)
  BY <1>1, SortMoved
<1>3. PICK e0 \in AlignExpert : /\ i0 < Numel /\ i0 \in SlotsOf(v.m, e0) /\ InRange(v, e0, h)
                                /\ v.row[h] = Numel
                                /\ \A j \in Worker \ {l} : v.held[j] # h
  BY DEF EntryOK, RanksApart
<1>4. h \in Position /\ v.row \in [Position -> Int] /\ v.held \in [Worker -> Int]
  BY <1>3, RankPosition DEF ViewType
<1>5. w.row[h] = i0 /\ \A p \in Position : p # h => w.row[p] = v.row[p]
  BY <1>4
<1>6. w.held[l] = -1 /\ \A k \in Worker : k # l => w.held[k] = v.held[k]
  BY <1>4
<1>7. i0 % Lanes = l
  BY DEF EntryOK, Loops
<1>8. ~IsStored(v, i0)
  BY <1>7 DEF IsStored
<1>9. ASSUME NEW e \in AlignExpert, NEW i \in SlotsOf(v.m, e)
      PROVE  IsStored(w, i) \/ IsWaiting(w, i) <=> IsStored(v, i) \/ IsWaiting(v, i)
  <2>1. IsStored(w, i) <=> IsStored(v, i) \/ i = i0
    BY <1>1
  <2>2. PICK j \in Worker : j = i % Lanes
    BY SlotLane
  <2>3. /\ IsWaiting(w, i) <=> i = w.sortLoop[j] /\ w.held[j] # -1
        /\ IsWaiting(v, i) <=> i = v.sortLoop[j] /\ v.held[j] # -1
    BY <2>2 DEF IsWaiting
  <2>4. CASE j # l
    <3>1. i # i0
      BY <1>7, <2>2, <2>4
    <3> QED BY <1>1, <1>6, <2>1, <2>3, <2>4, <3>1
  <2>5. CASE j = l
    BY <1>6, <2>1, <2>3, <2>5
  <2> QED BY <2>4, <2>5
<1>10. \A e \in AlignExpert : Taken(w, e) = Taken(v, e)
  BY <1>0, <1>9 DEF Taken
<1>11. Ranked(w)
  BY <1>0, <1>10, RankedSame DEF SortMoves
<1>12. ASSUME NEW e \in AlignExpert, NEW i
       PROVE  i \in Stored(w, e) <=> i \in Stored(v, e) \/ (i = i0 /\ e = e0)
  <2>1. i0 \in SlotsOf(v.m, e) => e = e0
    <3>1. i0 \in SlotsOf(v.m, e) => ServedBy(i0) = e
      <4>1. i0 \in SlotsOf(v.m, e) => i0 \in AlignSlot
        BY ServedFacts
      <4>2. i0 \in AlignSlot => (i0 \in SlotsOf(v.m, e) <=> ServedBy(i0) = e /\ Wanted(v.m)[i0 \div TopkNum] = 1)
        BY ServedFacts
      <4> QED BY <4>1, <4>2
    <3>2. ServedBy(i0) = e0
      <4>1. i0 \in AlignSlot
        BY <1>3, ServedFacts
      <4>2. i0 \in SlotsOf(v.m, e0) <=> ServedBy(i0) = e0 /\ Wanted(v.m)[i0 \div TopkNum] = 1
        BY <4>1, ServedFacts
      <4> QED BY <1>3, <4>2
    <3> QED BY <3>1, <3>2
  <2> QED BY <1>0, <1>1, <1>3, <2>1 DEF Stored
<1>13. \A e \in AlignExpert : \A p : InRange(w, e, p) <=> InRange(v, e, p)
  BY <1>0 DEF InRange
<1>14. Filled(w)
  <2> SUFFICES ASSUME NEW p \in Position
               PROVE  \/ w.row[p] = Numel
                      \/ \E e \in AlignExpert : w.row[p] \in Stored(w, e) /\ InRange(w, e, p)
    BY DEF Filled
  <2>1. CASE p = h
    BY <1>3, <1>5, <1>12, <1>13, <2>1
  <2>2. CASE p # h
    <3>1. v.fill[p % Lanes] >= Base + 1
      <4>1. p % Lanes \in Worker
        BY WorkerFacts DEF Position
      <4> QED BY <4>1, BaseNat DEF FirstDone
    <3>2. \/ v.row[p] = Numel
          \/ \E e \in AlignExpert : v.row[p] \in Stored(v, e) /\ InRange(v, e, p)
      BY <3>1 DEF EntryOK, Filled
    <3> QED BY <1>5, <1>12, <1>13, <2>2, <3>2
  <2> QED BY <2>1, <2>2
<1>15. i0 # Numel
  BY <1>3, Sizes
<1>16. \A q \in Position : v.row[q] # i0
  <2> SUFFICES ASSUME NEW q \in Position, v.row[q] = i0 PROVE FALSE
    OBVIOUS
  <2>1. v.fill[q % Lanes] >= Base + 1
    <3>1. q % Lanes \in Worker
      BY WorkerFacts DEF Position
    <3> QED BY <3>1, BaseNat DEF FirstDone
  <2>2. PICK e \in AlignExpert : i0 \in Stored(v, e)
    BY <1>15, <2>1 DEF EntryOK, Filled
  <2> QED BY <1>8, <2>2 DEF Stored
<1>17. StoredOnce(w)
  <2> SUFFICES ASSUME NEW e \in AlignExpert, NEW i \in Stored(w, e)
               PROVE  \E p \in Position : /\ InRange(w, e, p) /\ w.row[p] = i
                                          /\ \A q \in Position \ {p} : w.row[q] # i
    BY DEF StoredOnce
  <2>1. CASE i = i0 /\ e = e0
    BY <1>3, <1>4, <1>5, <1>13, <1>16, <2>1
  <2>2. CASE i \in Stored(v, e)
    <3>1. PICK p \in Position : InRange(v, e, p) /\ v.row[p] = i /\ \A q \in Position \ {p} : v.row[q] # i
      BY <2>2 DEF EntryOK, StoredOnce
    <3>2. i # i0 /\ i # Numel
      <4>1. i # i0
        BY <1>8, <2>2 DEF Stored
      <4>2. i < Numel /\ i \in Nat
        BY <2>2, SlotLane DEF Stored
      <4> QED BY <4>1, <4>2, Sizes
    <3>3. p # h
      BY <1>3, <3>1, <3>2
    <3>4. w.row[p] = i /\ \A q \in Position \ {p} : w.row[q] # i
      BY <1>5, <3>1, <3>2, <3>3
    <3> QED BY <1>13, <3>1, <3>4
  <2> QED BY <1>12, <2>1, <2>2
<1>18. RanksApart(w)
  <2> SUFFICES ASSUME NEW k \in Worker, w.held[k] # -1
               PROVE  /\ w.sort[k] = 0 /\ w.sortLoop[k] < Numel
                      /\ \E e \in AlignExpert : w.sortLoop[k] \in SlotsOf(v.m, e) /\ InRange(v, e, w.held[k])
                      /\ w.row[w.held[k]] = Numel
                      /\ \A j \in Worker \ {k} : w.held[j] # w.held[k]
    BY <1>0, <1>13 DEF RanksApart
  <2>1. k # l
    BY <1>6
  <2>2. w.sort[k] = v.sort[k] /\ w.sortLoop[k] = v.sortLoop[k] /\ w.held[k] = v.held[k]
    BY <1>1, <1>6, <2>1
  <2>3. PICK e \in AlignExpert : /\ v.sort[k] = 0 /\ v.sortLoop[k] < Numel
          /\ v.sortLoop[k] \in SlotsOf(v.m, e) /\ InRange(v, e, v.held[k])
          /\ v.row[v.held[k]] = Numel
          /\ \A j \in Worker \ {k} : v.held[j] # v.held[k]
    BY <2>2 DEF EntryOK, RanksApart
  <2>4. v.held[k] # h /\ v.held[k] \in Position
    <3>1. v.held[k] \in Int
      BY <1>4
    <3> QED BY <1>3, <2>1, <2>3, <3>1, RankPosition
  <2>5. w.row[w.held[k]] = Numel
    BY <1>5, <2>2, <2>3, <2>4
  <2>6. \A j \in Worker \ {k} : w.held[j] # w.held[k]
    BY <1>6, <2>2, <2>3
  <2> QED BY <2>2, <2>3, <2>5, <2>6
<1> QED BY <1>2, <1>11, <1>14, <1>17, <1>18 DEF EntryOK

-----------------------------------------------------------------------------
(* The inputs do not change, so neither does what follows from them alone. *)
LEMMA InputsStay ==
  ASSUME routed' = routed
  PROVE  /\ RoutedOK' <=> RoutedOK
         /\ Base' = Base /\ Inactive' = Inactive
         /\ \A m, e : SlotsOf(m, e)' = SlotsOf(m, e) /\ Share(m, e)' = Share(m, e)
         /\ \A m, e : Start(m, e)' = Start(m, e)
         /\ \A m : Wanted(m)' = Wanted(m) /\ (Active(m)' <=> Active(m))
         /\ \A x : ModelOf(x)' = ModelOf(x) /\ (Live(x)' <=> Live(x))
<1>1. RoutedOK' <=> RoutedOK
  BY DEF RoutedOK
<1>2. Base' = Base /\ Inactive' = Inactive
  BY DEF Base, Inactive
<1>3. ASSUME NEW m, NEW e PROVE SlotsOf(m, e)' = SlotsOf(m, e) /\ Share(m, e)' = Share(m, e) /\ Served(m)' = Served(m)
  BY DEF SlotsOf, Share, Served, ServedBy
<1>4. ASSUME NEW m, NEW e PROVE Start(m, e)' = Start(m, e)
  BY DEF Start, StartsOf, Served, ServedBy
<1>5. ASSUME NEW m PROVE Wanted(m)' = Wanted(m) /\ (Active(m)' <=> Active(m))
  BY DEF Wanted, Active
<1>6. ASSUME NEW x PROVE ModelOf(x)' = ModelOf(x) /\ (Live(x)' <=> Live(x))
  BY DEF ModelOf, Live, Skipped
<1> QED BY <1>1, <1>2, <1>3, <1>4, <1>5, <1>6

LEMMA EntryStays ==
  ASSUME routed' = routed, NEW v
  PROVE  EntryOK(v)' <=> EntryOK(v)
<1>1. /\ Base' = Base /\ Inactive' = Inactive
      /\ \A m, e : SlotsOf(m, e)' = SlotsOf(m, e) /\ Share(m, e)' = Share(m, e) /\ Start(m, e)' = Start(m, e)
      /\ \A m : Wanted(m)' = Wanted(m)
  BY InputsStay
<1>2. \A i : /\ IsCounted(v, i)' <=> IsCounted(v, i)
             /\ IsStored(v, i)' <=> IsStored(v, i)
             /\ IsWaiting(v, i)' <=> IsWaiting(v, i)
  BY <1>1 DEF IsCounted, IsStored, IsWaiting
<1>3. \A e : /\ Counted(v, e)' = Counted(v, e) /\ Stored(v, e)' = Stored(v, e) /\ Taken(v, e)' = Taken(v, e)
             /\ \A p : InRange(v, e, p)' <=> InRange(v, e, p)
  BY <1>1, <1>2 DEF Counted, Stored, Taken, InRange
<1>4. \A m, k : /\ Mine(m, k)' = Mine(m, k) /\ Rest(m, k, Lanes)' = Rest(m, k, Lanes)
                /\ PadOf(m, k)' = PadOf(m, k)
  BY <1>1 DEF Mine, Rest, PadOf
<1>5. (Order(v)' <=> Order(v)) /\ (Loops(v)' <=> Loops(v)) /\ (Masked(v)' <=> Masked(v))
  BY <1>1 DEF Order, FirstDone, SortIdle, Loops, Masked
<1>6. (Tallied(v)' <=> Tallied(v)) /\ (Padding(v)' <=> Padding(v))
  BY <1>1, <1>3, <1>4 DEF Tallied, Padding
<1>7. (Ranked(v)' <=> Ranked(v)) /\ (NamedBy(v)' <=> NamedBy(v)) /\ (Totalled(v)' <=> Totalled(v))
  BY <1>1, <1>3, <1>4 DEF Ranked, NamedBy, Totalled
<1>8. (Filled(v)' <=> Filled(v)) /\ (StoredOnce(v)' <=> StoredOnce(v)) /\ (RanksApart(v)' <=> RanksApart(v))
  BY <1>1, <1>3 DEF Filled, StoredOnce, RanksApart
<1> QED BY <1>5, <1>6, <1>7, <1>8 DEF EntryOK

(* The view of an entry has the types of its parts, and a step of another  *)
(* entry leaves it.                                                        *)
LEMMA ViewTyped ==
  ASSUME RoutedOK, LargeType, OutputType, NEW x, Live(x)
  PROVE  ViewType(View(x))
<1>1. x \in Entry /\ ModelOf(x) \in Model
  BY LiveModel
<1>2. CountG(x) \in Large!Group /\ FillG(x) \in Large!Group /\ SortG(x) \in Large!Group
  BY <1>1, Groups
<1>3. /\ CountAt(x) \in [Worker -> Nat] /\ FillAt(x) \in [Worker -> Nat] /\ SortAt(x) \in [Worker -> Nat]
      /\ CountLoop(x) \in [Worker -> Nat] /\ SortLoop(x) \in [Worker -> Nat] /\ Held(x) \in [Worker -> Int]
      /\ Tally(x) \in [0 .. Large!PaddedExperts - 1 -> Int] /\ Sums(x) \in [Worker -> Int]
      /\ Ranks(x) \in [0 .. NumExperts -> Int]
  BY <1>1, <1>2 DEF LargeType, CountAt, FillAt, SortAt, CountLoop, SortLoop, Held, Tally, Sums, Ranks
<1>4. /\ MaskRow(x) \in [AlignToken -> Int] /\ TotalOf(x) \in Int
      /\ SortedRow(x) \in [Position -> Int] /\ IdsRow(x) \in [Block -> Int]
  BY <1>1 DEF OutputType, MaskRow, TotalOf, SortedRow, IdsRow
<1> QED BY <1>1, <1>3, <1>4 DEF ViewType, View

LEMMA ViewElsewhere ==
  ASSUME RoutedOK, NEW x, Live(x), NEW y, Live(y), y # x, Elsewhere(x), LargeElsewhere(x)
  PROVE  View(y)' = View(y)
<1>1. y \in Entry /\ ModelOf(y) \in Model /\ ModelOf(y) # ModelOf(x) /\ ModelOf(y)' = ModelOf(y)
  BY LiveModel, InputsStay DEF Elsewhere
<1>2. /\ CountG(y) \in Large!Group /\ FillG(y) \in Large!Group /\ SortG(y) \in Large!Group
      /\ CountG(y)[1] = y /\ FillG(y)[1] = y /\ SortG(y)[1] = y
  BY <1>1, Groups
<1>3. /\ CountAt(y)' = CountAt(y) /\ FillAt(y)' = FillAt(y) /\ SortAt(y)' = SortAt(y)
      /\ CountLoop(y)' = CountLoop(y) /\ SortLoop(y)' = SortLoop(y) /\ Held(y)' = Held(y)
  BY <1>2 DEF LargeElsewhere, CountAt, FillAt, SortAt, CountLoop, SortLoop, Held, CountG, FillG, SortG
<1>4. Tally(y)' = Tally(y) /\ Sums(y)' = Sums(y) /\ Ranks(y)' = Ranks(y)
  BY <1>1 DEF LargeElsewhere, Tally, Sums, Ranks
<1>5. /\ MaskRow(y)' = MaskRow(y) /\ TotalOf(y)' = TotalOf(y)
      /\ SortedRow(y)' = SortedRow(y) /\ IdsRow(y)' = IdsRow(y)
  BY <1>1 DEF Elsewhere, MaskRow, TotalOf, SortedRow, IdsRow
<1> QED BY <1>1, <1>3, <1>4, <1>5 DEF View

LEMMA ViewAfter ==
  ASSUME RoutedOK, LargeType, OutputType, NEW x, Live(x), Local(x)
  PROVE  /\ ViewType(View(x)) /\ ViewType(View(x)')
         /\ RoutedOK'
         /\ \A w : w = View(x)' /\ EntryOK(w) => EntryOK(View(x))'
<1>1. routed' = routed /\ LargeType' /\ OutputType'
  BY DEF Local, Elsewhere
<1>2. RoutedOK' /\ Live(x)'
  BY <1>1, InputsStay
<1>3. ViewType(View(x))
  BY ViewTyped
<1>4. (RoutedOK /\ LargeType /\ OutputType /\ Live(x) => ViewType(View(x)))'
  BY ViewTyped, PTL
<1>5. ViewType(View(x)')
  <2>1. ViewType(View(x))'
    BY <1>1, <1>2, <1>4
  <2> QED BY <2>1 DEF ViewType
<1>6. ASSUME NEW w, w = View(x)', EntryOK(w) PROVE EntryOK(View(x))'
  <2>1. EntryOK(w)'
    BY <1>1, <1>6, EntryStays
  <2> QED BY <1>6, <2>1
<1> QED BY <1>2, <1>3, <1>5, <1>6

LEMMA ViewFields ==
  ASSUME NEW x
  PROVE  /\ View(x).m = ModelOf(x) /\ View(x).count = CountAt(x) /\ View(x).fill = FillAt(x)
         /\ View(x).sort = SortAt(x) /\ View(x).countLoop = CountLoop(x) /\ View(x).sortLoop = SortLoop(x)
         /\ View(x).held = Held(x) /\ View(x).tally = Tally(x) /\ View(x).sums = Sums(x)
         /\ View(x).ranks = Ranks(x) /\ View(x).mask = MaskRow(x) /\ View(x).total = TotalOf(x)
         /\ View(x).row = SortedRow(x) /\ View(x).ids = IdsRow(x)
         /\ View(x)'.m = ModelOf(x)' /\ View(x)'.count = CountAt(x)' /\ View(x)'.fill = FillAt(x)'
         /\ View(x)'.sort = SortAt(x)' /\ View(x)'.countLoop = CountLoop(x)' /\ View(x)'.sortLoop = SortLoop(x)'
         /\ View(x)'.held = Held(x)' /\ View(x)'.tally = Tally(x)' /\ View(x)'.sums = Sums(x)'
         /\ View(x)'.ranks = Ranks(x)' /\ View(x)'.mask = MaskRow(x)' /\ View(x)'.total = TotalOf(x)'
         /\ View(x)'.row = SortedRow(x)' /\ View(x)'.ids = IdsRow(x)'
BY DEF View

(* A step of an entry as one from the view v before it to the view w after *)
(* it.                                                                     *)
SeenBefore(x, v) ==
  /\ v.m = ModelOf(x) /\ v.count = CountAt(x) /\ v.fill = FillAt(x)
  /\ v.sort = SortAt(x) /\ v.countLoop = CountLoop(x) /\ v.sortLoop = SortLoop(x)
  /\ v.held = Held(x) /\ v.tally = Tally(x) /\ v.sums = Sums(x)
  /\ v.ranks = Ranks(x) /\ v.mask = MaskRow(x) /\ v.total = TotalOf(x)
  /\ v.row = SortedRow(x) /\ v.ids = IdsRow(x)
SeenAfter(x, w) ==
  /\ w.m = ModelOf(x) /\ w.count = CountAt(x)' /\ w.fill = FillAt(x)'
  /\ w.sort = SortAt(x)' /\ w.countLoop = CountLoop(x)' /\ w.sortLoop = SortLoop(x)'
  /\ w.held = Held(x)' /\ w.tally = Tally(x)' /\ w.sums = Sums(x)'
  /\ w.ranks = Ranks(x)' /\ w.mask = MaskRow(x)' /\ w.total = TotalOf(x)'
  /\ w.row = SortedRow(x)' /\ w.ids = IdsRow(x)'

LEMMA StepViews ==
  ASSUME RoutedOK, LargeType, OutputType, NEW x, Live(x), EntryOK(View(x)), Local(x)
  PROVE  \E v, w : /\ SeenBefore(x, v) /\ SeenAfter(x, w)
                   /\ ViewType(v) /\ ViewType(w) /\ EntryOK(v)
                   /\ EntryOK(w) => EntryOK(View(x))'
<1>1. PICK v : v = View(x)
  OBVIOUS
<1>2. PICK w : w = View(x)'
  OBVIOUS
<1>3. ViewType(v) /\ ViewType(w) /\ EntryOK(v) /\ (EntryOK(w) => EntryOK(View(x))')
  BY <1>1, <1>2, ViewAfter
<1>4. SeenBefore(x, v)
  BY <1>1, ViewFields DEF SeenBefore
<1>5. SeenAfter(x, w)
  <2>1. ModelOf(x)' = ModelOf(x)
    BY InputsStay DEF Local, Elsewhere
  <2> QED BY <1>2, <2>1, ViewFields DEF SeenAfter
<1> QED BY <1>3, <1>4, <1>5

LEMMA MaskCountKept ==
  ASSUME RoutedOK, LargeType, OutputType, NEW x, Live(x), EntryOK(View(x)), NEW l \in Worker,
         Large!Mask(CountG(x), l)
  PROVE  Local(x) /\ EntryOK(View(x))'
<1>1. /\ Reached(CountAt(x), l, 0) /\ Local(x)
      /\ CountAt(x)' = Bumped(CountAt(x), l) /\ CountLoop(x)' = [CountLoop(x) EXCEPT ![l] = l]
      /\ FillAt(x)' = FillAt(x) /\ SortStill(x)
      /\ MaskRow(x)' = (IF l = 0 THEN Wanted(ModelOf(x)) ELSE MaskRow(x))
      /\ SortedRow(x)' = SortedRow(x) /\ IdsRow(x)' = IdsRow(x)
      /\ Tally(x)' = Tally(x) /\ Sums(x)' = Sums(x) /\ Ranks(x)' = Ranks(x) /\ Base = 1
  BY MaskCountIs
<1>2. PICK v, w : /\ SeenBefore(x, v) /\ SeenAfter(x, w)
                  /\ ViewType(v) /\ ViewType(w) /\ EntryOK(v)
                  /\ EntryOK(w) => EntryOK(View(x))'
  BY <1>1, StepViews
<1>3. CountMoves(v, w, l, 0)
  <2>1. 0 < Base + 6
    BY BaseNat
  <2>2. /\ w.m = v.m /\ SortSame(v, w) /\ w.fill = v.fill /\ w.row = v.row
        /\ w.count = Bumped(v.count, l) /\ w.countLoop = [v.countLoop EXCEPT ![l] = l]
        /\ Reached(v.count, l, 0)
    BY <1>1, <1>2 DEF SeenBefore, SeenAfter, SortSame, SortStill
  <2> QED BY <2>1, <2>2 DEF CountMoves
<1>4. /\ w.mask = (IF l = 0 THEN Wanted(v.m) ELSE v.mask) /\ Base = 1
      /\ w.tally = v.tally /\ w.sums = v.sums /\ w.ranks = v.ranks /\ w.ids = v.ids
  BY <1>1, <1>2 DEF SeenBefore, SeenAfter
<1>9. EntryOK(w)
  BY <1>2, <1>3, <1>4, MaskCountKeeps
<1> QED BY <1>1, <1>2, <1>9

LEMMA ZeroKept ==
  ASSUME RoutedOK, LargeType, OutputType, NEW x, Live(x), EntryOK(View(x)), NEW l \in Worker,
         Large!Zero(CountG(x), l)
  PROVE  Local(x) /\ EntryOK(View(x))'
<1>1. /\ Reached(CountAt(x), l, Base) /\ Local(x)
      /\ CountAt(x)' = Bumped(CountAt(x), l) /\ CountLoop(x)' = [CountLoop(x) EXCEPT ![l] = l]
      /\ FillAt(x)' = FillAt(x) /\ SortStill(x)
      /\ OutStill(x) /\ Tally(x)' = Cleared(x, l) /\ Sums(x)' = Sums(x) /\ Ranks(x)' = Ranks(x)
  BY ZeroIs
<1>2. PICK v, w : /\ SeenBefore(x, v) /\ SeenAfter(x, w)
                  /\ ViewType(v) /\ ViewType(w) /\ EntryOK(v)
                  /\ EntryOK(w) => EntryOK(View(x))'
  BY <1>1, StepViews
<1>3. CountMoves(v, w, l, Base)
  <2>1. Base < Base + 6
    BY BaseNat
  <2>2. /\ w.m = v.m /\ SortSame(v, w) /\ w.fill = v.fill /\ w.row = v.row
        /\ w.count = Bumped(v.count, l) /\ w.countLoop = [v.countLoop EXCEPT ![l] = l]
        /\ Reached(v.count, l, Base)
    BY <1>1, <1>2 DEF SeenBefore, SeenAfter, SortSame, SortStill, OutStill
  <2> QED BY <2>1, <2>2 DEF CountMoves
<1>4. /\ w.mask = v.mask /\ w.total = v.total /\ w.sums = v.sums /\ w.ranks = v.ranks /\ w.ids = v.ids
      /\ \A e \in AlignExpert : w.tally[e] = (IF e \div WarpSize = l \div WarpSize THEN 0 ELSE v.tally[e])
  <2>1. w.tally = Cleared(x, l) /\ v.tally = Tally(x)
    BY <1>1, <1>2 DEF SeenBefore, SeenAfter
  <2>2. \A e \in AlignExpert : w.tally[e] = (IF e \div WarpSize = l \div WarpSize THEN 0 ELSE v.tally[e])
    BY <2>1, PaddedExpertsFit DEF Cleared
  <2> QED BY <1>1, <1>2, <2>2 DEF SeenBefore, SeenAfter, OutStill
<1>9. EntryOK(w)
  BY <1>2, <1>3, <1>4, ZeroKeeps
<1> QED BY <1>1, <1>2, <1>9

LEMMA PadKept ==
  ASSUME RoutedOK, LargeType, OutputType, NEW x, Live(x), EntryOK(View(x)), NEW l \in Worker,
         Large!Pad(CountG(x), l)
  PROVE  Local(x) /\ EntryOK(View(x))'
<1>1. /\ Reached(CountAt(x), l, Base + 2) /\ Local(x)
      /\ CountAt(x)' = Bumped(CountAt(x), l) /\ CountLoop(x)' = [CountLoop(x) EXCEPT ![l] = l]
      /\ FillAt(x)' = FillAt(x) /\ SortStill(x)
      /\ OutStill(x) /\ Tally(x)' = Tally(x) /\ Ranks(x)' = Ranks(x)
      /\ Sums(x)' = [Sums(x) EXCEPT ![l] = IF l < NumExperts THEN Padded(Tally(x)[l]) ELSE 0]
  <2>1. Reached(CountAt(x), l, Base + 2)
    BY PadIs
  <2>2. l < NumExperts => Padded(Tally(x)[l]) \in Int
    <3> SUFFICES ASSUME l < NumExperts PROVE Padded(Tally(x)[l]) \in Int
      OBVIOUS
    <3>1. l \in AlignExpert
      BY WorkerFacts, Sizes DEF AlignExpert
    <3>2. PICK v : v = View(x)
      OBVIOUS
    <3>3. ViewType(v) /\ EntryOK(v) /\ \A j \in Worker : v.count[j] >= Base + 2
      BY <2>1, <3>2, ViewTyped, ViewFields DEF Reached
    <3>4. v.tally[l] \in Nat
      BY <3>1, <3>3, AllCounted
    <3>5. PICK n \in Nat : n = v.tally[l]
      BY <3>4
    <3>6. Padded(n) \in Nat
      BY PaddedFacts
    <3> QED BY <3>2, <3>5, <3>6, ViewFields
  <2> QED BY <2>2, PadIs
<1>2. PICK v, w : /\ SeenBefore(x, v) /\ SeenAfter(x, w)
                  /\ ViewType(v) /\ ViewType(w) /\ EntryOK(v)
                  /\ EntryOK(w) => EntryOK(View(x))'
  BY <1>1, StepViews
<1>3. CountMoves(v, w, l, Base + 2)
  <2>1. Base + 2 < Base + 6
    BY BaseNat
  <2>2. /\ w.m = v.m /\ SortSame(v, w) /\ w.fill = v.fill /\ w.row = v.row
        /\ w.count = Bumped(v.count, l) /\ w.countLoop = [v.countLoop EXCEPT ![l] = l]
        /\ Reached(v.count, l, Base + 2)
    BY <1>1, <1>2 DEF SeenBefore, SeenAfter, SortSame, SortStill, OutStill
  <2> QED BY <2>1, <2>2 DEF CountMoves
<1>4. /\ w.sums = [v.sums EXCEPT ![l] = IF l < NumExperts THEN Padded(v.tally[l]) ELSE 0]
      /\ w.tally = v.tally
      /\ w.mask = v.mask /\ w.total = v.total /\ w.ranks = v.ranks /\ w.ids = v.ids
  BY <1>1, <1>2 DEF SeenBefore, SeenAfter, OutStill
<1>9. EntryOK(w)
  BY <1>2, <1>3, <1>4, PadKeeps
<1> QED BY <1>1, <1>2, <1>9

LEMMA SumsKept ==
  ASSUME RoutedOK, LargeType, OutputType, NEW x, Live(x), EntryOK(View(x)), NEW l \in Worker,
         Large!Sums(CountG(x), l)
  PROVE  Local(x) /\ EntryOK(View(x))'
<1>1. /\ Reached(CountAt(x), l, Base + 4) /\ Local(x)
      /\ CountAt(x)' = Bumped(CountAt(x), l) /\ CountLoop(x)' = [CountLoop(x) EXCEPT ![l] = l]
      /\ FillAt(x)' = FillAt(x) /\ SortStill(x)
      /\ Ranks(x)' = (IF l <= NumExperts THEN [Ranks(x) EXCEPT ![l] = Sums(x)[l]] ELSE Ranks(x))
      /\ TotalOf(x)' = (IF l = NumExperts THEN Sums(x)[l] ELSE TotalOf(x))
      /\ MaskRow(x)' = MaskRow(x) /\ SortedRow(x)' = SortedRow(x) /\ IdsRow(x)' = IdsRow(x)
      /\ Tally(x)' = Tally(x) /\ Sums(x)' = Sums(x)
  BY SumsIs
<1>2. PICK v, w : /\ SeenBefore(x, v) /\ SeenAfter(x, w)
                  /\ ViewType(v) /\ ViewType(w) /\ EntryOK(v)
                  /\ EntryOK(w) => EntryOK(View(x))'
  BY <1>1, StepViews
<1>3. CountMoves(v, w, l, Base + 4)
  <2>1. Base + 4 < Base + 6
    BY BaseNat
  <2>2. /\ w.m = v.m /\ SortSame(v, w) /\ w.fill = v.fill /\ w.row = v.row
        /\ w.count = Bumped(v.count, l) /\ w.countLoop = [v.countLoop EXCEPT ![l] = l]
        /\ Reached(v.count, l, Base + 4)
    BY <1>1, <1>2 DEF SeenBefore, SeenAfter, SortSame, SortStill
  <2> QED BY <2>1, <2>2 DEF CountMoves
<1>4. /\ w.ranks = (IF l <= NumExperts THEN [v.ranks EXCEPT ![l] = v.sums[l]] ELSE v.ranks)
      /\ w.total = (IF l = NumExperts THEN v.sums[l] ELSE v.total)
      /\ w.tally = v.tally /\ w.sums = v.sums /\ w.mask = v.mask /\ w.ids = v.ids
  BY <1>1, <1>2 DEF SeenBefore, SeenAfter
<1>9. EntryOK(w)
  BY <1>2, <1>3, <1>4, SumsKeeps
<1> QED BY <1>1, <1>2, <1>9

(* When the blocks are named no rank is taken yet. *)
LEMMA NameBlocksAt ==
  ASSUME RoutedOK, LargeType, NEW x, Live(x), NEW l \in Worker, Large!NameBlocks(CountG(x), l)
  PROVE  CountAt(x)[l] = Base + 5 /\ Reached(CountAt(x), l, Base + 5)
<1>1. x \in Entry
  BY LiveModel
<1>2. Large!At(CountG(x), l, "blocks")
  BY DEF Large!NameBlocks
<1>3. /\ CountAt(x)[l] \in Nat /\ CountAt(x)[l] < Base + 6
      /\ Large!Phases("count")[CountAt(x)[l] + 1] = "blocks"
      /\ Reached(CountAt(x), l, CountAt(x)[l])
  BY <1>1, <1>2, AtFacts
<1>4. CountAt(x)[l] = Base + 5
  BY <1>3, Numbered
<1> QED BY <1>3, <1>4

LEMMA RanksAreStarts ==
  ASSUME RoutedOK, NEW v, ViewType(v), EntryOK(v), NEW l \in Worker, v.count[l] = Base + 5,
         \A j \in Worker : v.count[j] >= Base + 5
  PROVE  \A e \in 0 .. NumExperts : v.ranks[e] = Start(v.m, e)
<1>1. SortIdle(v)
  BY BaseNat DEF EntryOK, Order, FirstDone
<1>2. NumExperts \in Worker /\ \A e \in AlignExpert : e \in Worker /\ e \in 0 .. NumExperts
  BY WorkerFacts, Sizes DEF AlignExpert
<1>3. v.ranks[NumExperts] = Start(v.m, NumExperts)
  BY <1>2 DEF EntryOK, Ranked
<1>4. ASSUME NEW e \in AlignExpert PROVE v.ranks[e] = Start(v.m, e)
  <2>1. v.ranks[e] = Start(v.m, e) + Cardinality(Taken(v, e))
    BY <1>2 DEF EntryOK, Ranked
  <2>2. Cardinality(Taken(v, e)) = 0
    BY <1>1, NothingStored, FS_EmptySet
  <2>3. Start(v.m, e) \in Nat
    BY <1>2, Layout
  <2> QED BY <2>1, <2>2, <2>3
<1>5. \A e \in 0 .. NumExperts : e = NumExperts \/ e \in AlignExpert
  BY Sizes DEF AlignExpert
<1> QED BY <1>3, <1>4, <1>5

LEMMA NameBlocksKept ==
  ASSUME RoutedOK, LargeType, OutputType, NEW x, Live(x), EntryOK(View(x)), NEW l \in Worker,
         Large!NameBlocks(CountG(x), l)
  PROVE  Local(x) /\ EntryOK(View(x))'
<1>1. /\ Reached(CountAt(x), l, Base + 5) /\ Local(x)
      /\ CountAt(x)' = Bumped(CountAt(x), l) /\ CountLoop(x)' = [CountLoop(x) EXCEPT ![l] = l]
      /\ FillAt(x)' = FillAt(x) /\ SortStill(x)
      /\ IdsRow(x)' = Namings(ModelOf(x), IdsRow(x), l, Lanes)
      /\ MaskRow(x)' = MaskRow(x) /\ SortedRow(x)' = SortedRow(x) /\ TotalOf(x)' = TotalOf(x)
      /\ Tally(x)' = Tally(x) /\ Sums(x)' = Sums(x) /\ Ranks(x)' = Ranks(x)
  <2>1. \A e \in 0 .. NumExperts : Ranks(x)[e] = Start(ModelOf(x), e)
    <3>1. PICK v : v = View(x)
      OBVIOUS
    <3>2. \A j \in Worker : CountAt(x)[j] >= Base + 5
      BY NameBlocksAt DEF Reached
    <3>3. ViewType(v) /\ EntryOK(v) /\ v.m = ModelOf(x) /\ v.ranks = Ranks(x)
          /\ v.count[l] = Base + 5 /\ \A j \in Worker : v.count[j] >= Base + 5
      BY <3>1, <3>2, NameBlocksAt, ViewTyped, ViewFields DEF Reached
    <3> QED BY <3>3, RanksAreStarts
  <2> QED BY <2>1, NameBlocksIs
<1>2. PICK v, w : /\ SeenBefore(x, v) /\ SeenAfter(x, w)
                  /\ ViewType(v) /\ ViewType(w) /\ EntryOK(v)
                  /\ EntryOK(w) => EntryOK(View(x))'
  BY <1>1, StepViews
<1>3. CountMoves(v, w, l, Base + 5)
  <2>1. Base + 5 < Base + 6
    BY BaseNat
  <2>2. /\ w.m = v.m /\ SortSame(v, w) /\ w.fill = v.fill /\ w.row = v.row
        /\ w.count = Bumped(v.count, l) /\ w.countLoop = [v.countLoop EXCEPT ![l] = l]
        /\ Reached(v.count, l, Base + 5)
    BY <1>1, <1>2 DEF SeenBefore, SeenAfter, SortSame, SortStill
  <2> QED BY <2>1, <2>2 DEF CountMoves
<1>4. /\ w.ids = Namings(v.m, v.ids, l, Lanes) /\ w.ranks = v.ranks /\ w.total = v.total
      /\ w.tally = v.tally /\ w.sums = v.sums /\ w.mask = v.mask
  BY <1>1, <1>2 DEF SeenBefore, SeenAfter
<1>9. EntryOK(w)
  BY <1>2, <1>3, <1>4, NameBlocksKeeps
<1> QED BY <1>1, <1>2, <1>9

LEMMA CountKept ==
  ASSUME RoutedOK, LargeType, OutputType, NEW x, Live(x), EntryOK(View(x)), NEW l \in Worker,
         Large!Count(CountG(x), l)
  PROVE  Local(x) /\ EntryOK(View(x))'
<1>1. /\ Reached(CountAt(x), l, Base + 1) /\ Local(x)
      /\ CountTurn(x, l) \/ CountEnd(x, l)
      /\ FillAt(x)' = FillAt(x) /\ SortStill(x) /\ OutStill(x)
      /\ Sums(x)' = Sums(x) /\ Ranks(x)' = Ranks(x)
  BY CountIs
<1>2. PICK v, w : /\ SeenBefore(x, v) /\ SeenAfter(x, w)
                  /\ ViewType(v) /\ ViewType(w) /\ EntryOK(v)
                  /\ EntryOK(w) => EntryOK(View(x))'
  BY <1>1, StepViews
<1>3. /\ w.m = v.m /\ SortSame(v, w) /\ w.fill = v.fill /\ w.row = v.row
      /\ w.mask = v.mask /\ w.total = v.total /\ w.sums = v.sums /\ w.ranks = v.ranks /\ w.ids = v.ids
      /\ Reached(v.count, l, Base + 1)
  BY <1>1, <1>2 DEF SeenBefore, SeenAfter, SortSame, SortStill, OutStill
<1>4. CASE CountTurn(x, l)
  <2>1. PICK i0 \in Nat : i0 = v.countLoop[l]
    BY <1>2 DEF ViewType
  <2>2. CountLoop(x)[l] = i0 /\ MaskRow(x) = v.mask /\ Tally(x) = v.tally /\ CountLoop(x) = v.countLoop
    BY <1>2, <2>1 DEF SeenBefore
  <2>3. /\ i0 < Numel /\ w.count = v.count
        /\ w.countLoop = [v.countLoop EXCEPT ![l] = @ + Lanes]
        /\ w.tally = Added(x, i0)
    BY <1>2, <1>4, <2>2 DEF CountTurn, SeenBefore, SeenAfter
  <2>4. w.tally = (IF Valid(i0) THEN [v.tally EXCEPT ![ServedBy(i0)] = @ + v.mask[i0 \div TopkNum]] ELSE v.tally)
    BY <2>2, <2>3 DEF Added
  <2>5. EntryOK(w)
    BY <1>2, <1>3, <2>1, <2>3, <2>4, CountTurnKeeps
  <2> QED BY <1>1, <1>2, <2>5
<1>5. CASE CountEnd(x, l)
  <2>1. Base + 1 < Base + 6
    BY BaseNat
  <2>2. /\ v.countLoop[l] >= Numel /\ w.count = Bumped(v.count, l)
        /\ w.countLoop = [v.countLoop EXCEPT ![l] = l] /\ w.tally = v.tally
    BY <1>2, <1>5 DEF CountEnd, SeenBefore, SeenAfter
  <2>3. CountMoves(v, w, l, Base + 1)
    BY <1>3, <2>1, <2>2 DEF CountMoves
  <2>4. EntryOK(w)
    BY <1>2, <1>3, <2>2, <2>3, CountEndKeeps
  <2> QED BY <1>1, <1>2, <2>4
<1> QED BY <1>1, <1>4, <1>5

LEMMA ScanKept ==
  ASSUME RoutedOK, LargeType, OutputType, NEW x, Live(x), EntryOK(View(x)), Large!Scan(CountG(x))
  PROVE  Local(x) /\ EntryOK(View(x))'
<1>1. /\ ScanMoved(x) /\ Scanned(x)
      /\ FillAt(x)' = FillAt(x) /\ SortStill(x) /\ OutStill(x)
      /\ Tally(x)' = Tally(x) /\ Ranks(x)' = Ranks(x)
  BY ScanIs
<1>2. PICK s : /\ RunningSum(s, Sums(x))
               /\ Sums(x)' = [j \in Worker |-> s[j]]
               /\ (\A j \in Worker : s[j] \in Int) => Local(x)
  BY <1>1 DEF Scanned
<1>3. /\ \A j \in Worker : CountAt(x)[j] = Base + 3
      /\ CountAt(x)' = [j \in Worker |-> CountAt(x)[j] + 1] /\ CountLoop(x)' = [j \in Worker |-> j]
  BY <1>1 DEF ScanMoved
<1>4. Local(x)
  <2>1. PICK v : v = View(x)
    OBVIOUS
  <2>2. ViewType(v) /\ EntryOK(v) /\ v.sums = Sums(x) /\ v.count = CountAt(x)
    BY <2>1, ViewTyped, ViewFields
  <2>3. \A j \in Worker : v.count[j] = Base + 3
    BY <1>3, <2>2
  <2>4. RunningSum(s, v.sums)
    BY <1>2, <2>2
  <2>5. \A j \in Worker : s[j] \in Nat
    BY <2>2, <2>3, <2>4, ScanSums
  <2> QED BY <1>2, <2>5
<1>5. PICK v, w : /\ SeenBefore(x, v) /\ SeenAfter(x, w)
                  /\ ViewType(v) /\ ViewType(w) /\ EntryOK(v)
                  /\ EntryOK(w) => EntryOK(View(x))'
  BY <1>4, StepViews
<1>6. /\ w.m = v.m /\ SortSame(v, w) /\ w.fill = v.fill /\ w.row = v.row /\ w.tally = v.tally
      /\ w.mask = v.mask /\ w.total = v.total /\ w.ranks = v.ranks /\ w.ids = v.ids
  BY <1>1, <1>5 DEF SeenBefore, SeenAfter, SortSame, SortStill, OutStill
<1>7. /\ \A j \in Worker : v.count[j] = Base + 3
      /\ w.count = [j \in Worker |-> v.count[j] + 1] /\ w.countLoop = [j \in Worker |-> j]
      /\ RunningSum(s, v.sums) /\ w.sums = [j \in Worker |-> s[j]]
  BY <1>2, <1>3, <1>5 DEF SeenBefore, SeenAfter
<1>9. EntryOK(w)
  BY <1>5, <1>6, <1>7, ScanKeeps
<1> QED BY <1>4, <1>5, <1>9

LEMMA MaskFillKept ==
  ASSUME RoutedOK, LargeType, OutputType, NEW x, Live(x), EntryOK(View(x)), NEW l \in Worker,
         Large!Mask(FillG(x), l)
  PROVE  Local(x) /\ EntryOK(View(x))'
<1>1. /\ Base = 1 /\ Reached(FillAt(x), l, 0) /\ Local(x)
      /\ FillAt(x)' = Bumped(FillAt(x), l)
      /\ CountAt(x)' = CountAt(x) /\ CountLoop(x)' = CountLoop(x) /\ SortStill(x)
      /\ MaskRow(x)' = (IF l = 0 THEN Wanted(ModelOf(x)) ELSE MaskRow(x))
      /\ SortedRow(x)' = SortedRow(x) /\ IdsRow(x)' = IdsRow(x)
      /\ Tally(x)' = Tally(x) /\ Sums(x)' = Sums(x) /\ Ranks(x)' = Ranks(x)
  BY MaskFillIs
<1>2. PICK v, w : /\ SeenBefore(x, v) /\ SeenAfter(x, w)
                  /\ ViewType(v) /\ ViewType(w) /\ EntryOK(v)
                  /\ EntryOK(w) => EntryOK(View(x))'
  BY <1>1, StepViews
<1>3. FillMoves(v, w, l, 0)
  <2>1. 0 < Base + 1
    BY BaseNat
  <2>2. /\ w.m = v.m /\ SortSame(v, w) /\ w.count = v.count /\ w.countLoop = v.countLoop
        /\ Reached(v.fill, l, 0) /\ w.fill = Bumped(v.fill, l)
        /\ w.tally = v.tally /\ w.sums = v.sums /\ w.ranks = v.ranks /\ w.ids = v.ids
    BY <1>1, <1>2 DEF SeenBefore, SeenAfter, SortSame, SortStill
  <2> QED BY <2>1, <2>2 DEF FillMoves
<1>4. w.mask = (IF l = 0 THEN Wanted(v.m) ELSE v.mask) /\ Base = 1 /\ w.row = v.row
  BY <1>1, <1>2 DEF SeenBefore, SeenAfter
<1>9. EntryOK(w)
  BY <1>2, <1>3, <1>4, MaskFillKeeps
<1> QED BY <1>1, <1>2, <1>9

LEMMA FillKept ==
  ASSUME RoutedOK, LargeType, OutputType, NEW x, Live(x), EntryOK(View(x)), NEW l \in Worker,
         Large!Fill(FillG(x), l)
  PROVE  Local(x) /\ EntryOK(View(x))'
<1>1. /\ Reached(FillAt(x), l, Base) /\ Local(x)
      /\ FillAt(x)' = Bumped(FillAt(x), l)
      /\ CountAt(x)' = CountAt(x) /\ CountLoop(x)' = CountLoop(x) /\ SortStill(x)
      /\ MaskRow(x)' = MaskRow(x) /\ TotalOf(x)' = TotalOf(x) /\ IdsRow(x)' = IdsRow(x)
      /\ SortedRow(x)' = Filling(SortedRow(x), l, Lanes)
      /\ Tally(x)' = Tally(x) /\ Sums(x)' = Sums(x) /\ Ranks(x)' = Ranks(x)
  BY FillIs
<1>2. PICK v, w : /\ SeenBefore(x, v) /\ SeenAfter(x, w)
                  /\ ViewType(v) /\ ViewType(w) /\ EntryOK(v)
                  /\ EntryOK(w) => EntryOK(View(x))'
  BY <1>1, StepViews
<1>3. FillMoves(v, w, l, Base)
  <2>1. Base < Base + 1
    BY BaseNat
  <2>2. /\ w.m = v.m /\ SortSame(v, w) /\ w.count = v.count /\ w.countLoop = v.countLoop
        /\ Reached(v.fill, l, Base) /\ w.fill = Bumped(v.fill, l)
        /\ w.tally = v.tally /\ w.sums = v.sums /\ w.ranks = v.ranks /\ w.ids = v.ids
    BY <1>1, <1>2 DEF SeenBefore, SeenAfter, SortSame, SortStill
  <2> QED BY <2>1, <2>2 DEF FillMoves
<1>4. w.row = Filling(v.row, l, Lanes) /\ w.mask = v.mask /\ w.total = v.total
  BY <1>1, <1>2 DEF SeenBefore, SeenAfter
<1>9. EntryOK(w)
  BY <1>2, <1>3, <1>4, FillKeeps
<1> QED BY <1>1, <1>2, <1>9

(* Once the first kernel has ended for all entries it has for this one.    *)
LEMMA FirstDoneNow ==
  ASSUME RoutedOK, Large!FirstKernelEnded, NEW x, Live(x), NEW v, SeenBefore(x, v)
  PROVE  FirstDone(v)
BY FirstEnded DEF FirstDone, SeenBefore

LEMMA TakeRankKept ==
  ASSUME RoutedOK, LargeType, OutputType, NEW x, Live(x), EntryOK(View(x)), NEW l \in Worker,
         Large!TakeRank(SortG(x), l)
  PROVE  Local(x) /\ EntryOK(View(x))'
<1>1. /\ Reached(SortAt(x), l, 0) /\ Large!FirstKernelEnded /\ Held(x)[l] = -1 /\ Local(x)
      /\ TakesRank(x, l) \/ PassesBy(x, l)
      /\ FillAt(x)' = FillAt(x) /\ CountAt(x)' = CountAt(x) /\ CountLoop(x)' = CountLoop(x)
      /\ OutStill(x) /\ Tally(x)' = Tally(x) /\ Sums(x)' = Sums(x)
  BY TakeRankIs
<1>2. PICK v, w : /\ SeenBefore(x, v) /\ SeenAfter(x, w)
                  /\ ViewType(v) /\ ViewType(w) /\ EntryOK(v)
                  /\ EntryOK(w) => EntryOK(View(x))'
  BY <1>1, StepViews
<1>3. SortMoves(v, w) /\ w.row = v.row /\ v.sort[l] = 0 /\ v.held[l] = -1 /\ FirstDone(v)
  <2>1. SortMoves(v, w) /\ w.row = v.row
    BY <1>1, <1>2 DEF SeenBefore, SeenAfter, SortMoves, OutStill
  <2>2. v.sort[l] = 0 /\ v.held[l] = -1
    BY <1>1, <1>2 DEF SeenBefore, Reached
  <2> QED BY <1>1, <1>2, <2>1, <2>2, FirstDoneNow
<1>4. PICK i0 \in Nat : i0 = v.sortLoop[l]
  BY <1>2 DEF ViewType
<1>5. SortLoop(x)[l] = i0 /\ MaskRow(x) = v.mask /\ SortLoop(x) = v.sortLoop /\ Held(x) = v.held
      /\ Ranks(x) = v.ranks /\ SortAt(x) = v.sort
  BY <1>2, <1>4 DEF SeenBefore
<1>6. Ranking(x, l) <=> i0 < Numel /\ Valid(i0) /\ v.mask[i0 \div TopkNum] # 0
  BY <1>5 DEF Ranking
<1>7. CASE TakesRank(x, l)
  <2>1. i0 < Numel /\ Valid(i0) /\ v.mask[i0 \div TopkNum] # 0
    BY <1>6, <1>7 DEF TakesRank
  <2>2. /\ w.held = [v.held EXCEPT ![l] = v.ranks[ServedBy(i0)]]
        /\ w.ranks = [v.ranks EXCEPT ![ServedBy(i0)] = @ + 1]
        /\ w.sort = v.sort /\ w.sortLoop = v.sortLoop
    BY <1>2, <1>5, <1>7 DEF TakesRank, SeenAfter
  <2>3. EntryOK(w)
    BY <1>2, <1>3, <1>4, <2>1, <2>2, TakesRankKeeps
  <2> QED BY <1>1, <1>2, <2>3
<1>8. CASE PassesBy(x, l)
  <2>1. ~(i0 < Numel /\ Valid(i0) /\ v.mask[i0 \div TopkNum] # 0)
    BY <1>6, <1>8 DEF PassesBy
  <2>2. w.held = v.held /\ w.ranks = v.ranks /\ SortTurn(x, l)
    BY <1>2, <1>5, <1>8 DEF PassesBy, SeenAfter
  <2>3. TurnOver(v, w, l)
    BY <1>2, <1>5, <2>2 DEF SortTurn, TurnOver, SeenAfter
  <2>4. EntryOK(w)
    BY <1>2, <1>3, <1>4, <2>1, <2>2, <2>3, PassesByKeeps
  <2> QED BY <1>1, <1>2, <2>4
<1> QED BY <1>1, <1>7, <1>8

LEMMA StoreSlotKept ==
  ASSUME RoutedOK, LargeType, OutputType, NEW x, Live(x), EntryOK(View(x)), NEW l \in Worker,
         Large!StoreSlot(SortG(x), l)
  PROVE  Local(x) /\ EntryOK(View(x))'
<1>1. /\ Reached(SortAt(x), l, 0) /\ Large!FirstKernelEnded /\ Held(x)[l] # -1 /\ Local(x)
      /\ SortTurn(x, l)
      /\ Held(x)' = [Held(x) EXCEPT ![l] = -1]
      /\ SortedRow(x)' = [SortedRow(x) EXCEPT ![Held(x)[l]] = SortLoop(x)[l]]
      /\ FillAt(x)' = FillAt(x) /\ CountAt(x)' = CountAt(x) /\ CountLoop(x)' = CountLoop(x)
      /\ MaskRow(x)' = MaskRow(x) /\ TotalOf(x)' = TotalOf(x) /\ IdsRow(x)' = IdsRow(x)
      /\ Tally(x)' = Tally(x) /\ Sums(x)' = Sums(x) /\ Ranks(x)' = Ranks(x)
  BY StoreSlotIs
<1>2. PICK v, w : /\ SeenBefore(x, v) /\ SeenAfter(x, w)
                  /\ ViewType(v) /\ ViewType(w) /\ EntryOK(v)
                  /\ EntryOK(w) => EntryOK(View(x))'
  BY <1>1, StepViews
<1>3. SortMoves(v, w) /\ v.sort[l] = 0 /\ FirstDone(v)
  <2>1. SortMoves(v, w)
    BY <1>1, <1>2 DEF SeenBefore, SeenAfter, SortMoves
  <2>2. v.sort[l] = 0
    BY <1>1, <1>2 DEF SeenBefore, Reached
  <2> QED BY <1>1, <1>2, <2>1, <2>2, FirstDoneNow
<1>4. PICK i0 \in Nat : i0 = v.sortLoop[l]
  BY <1>2 DEF ViewType
<1>5. PICK h \in Int : h = v.held[l]
  BY <1>2 DEF ViewType
<1>6. SortLoop(x)[l] = i0 /\ Held(x)[l] = h /\ SortLoop(x) = v.sortLoop /\ Held(x) = v.held /\ SortAt(x) = v.sort
      /\ SortedRow(x) = v.row
  BY <1>2, <1>4, <1>5 DEF SeenBefore
<1>7. /\ h # -1 /\ w.held = [v.held EXCEPT ![l] = -1] /\ w.ranks = v.ranks
      /\ w.row = [v.row EXCEPT ![h] = i0]
  BY <1>1, <1>2, <1>6 DEF SeenBefore, SeenAfter
<1>8. TurnOver(v, w, l)
  BY <1>1, <1>2, <1>6 DEF SortTurn, TurnOver, SeenAfter
<1>9. EntryOK(w)
  BY <1>2, <1>3, <1>4, <1>5, <1>7, <1>8, StoreSlotKeeps
<1> QED BY <1>1, <1>2, <1>9

(* Whatever an entry's groups do next, its invariant stands and what is    *)
(* not its own is left alone.                                              *)
LEMMA CountStepKept ==
  ASSUME RoutedOK, LargeType, OutputType, NEW x, Live(x), EntryOK(View(x)), NEW l \in Worker,
         Large!CountStep(CountG(x), l)
  PROVE  Local(x) /\ EntryOK(View(x))'
<1>1. CASE Large!Zero(CountG(x), l)
  BY <1>1, ZeroKept
<1>2. CASE Large!Count(CountG(x), l)
  BY <1>2, CountKept
<1>3. CASE Large!Pad(CountG(x), l)
  BY <1>3, PadKept
<1>4. CASE Large!Sums(CountG(x), l)
  BY <1>4, SumsKept
<1>5. CASE Large!NameBlocks(CountG(x), l)
  BY <1>5, NameBlocksKept
<1> QED BY <1>1, <1>2, <1>3, <1>4, <1>5 DEF Large!CountStep

LEMMA ServeKept ==
  ASSUME RoutedOK, LargeType, OutputType, NEW x \in Entry, Large!Serve(x),
         \A y \in Entry : Live(y) => EntryOK(View(y))
  PROVE  Live(x) /\ Local(x) /\ EntryOK(View(x))'
<1>1. Live(x) /\ EntryOK(View(x))
  BY Groups DEF Large!Serve, Live
<1>2. PICK k \in Large!Kind : Large!Step(<<x, k>>)
  BY DEF Large!Serve
<1>3. Large!Lane = Worker
  BY WorkerFacts
<1>4. CASE k = "count"
  <2>1. Large!Step(CountG(x)) /\ CountG(x)[2] = "count"
    BY <1>2, <1>4 DEF CountG
  <2>2. \/ Large!Scan(CountG(x))
        \/ \E l \in Worker : Large!Mask(CountG(x), l) \/ Large!CountStep(CountG(x), l)
    BY <1>3, <2>1 DEF Large!Step
  <2>3. ASSUME NEW l \in Worker, Large!Mask(CountG(x), l) PROVE Local(x) /\ EntryOK(View(x))'
    BY <1>1, <2>3, MaskCountKept
  <2>4. ASSUME NEW l \in Worker, Large!CountStep(CountG(x), l) PROVE Local(x) /\ EntryOK(View(x))'
    BY <1>1, <2>4, CountStepKept
  <2>5. CASE Large!Scan(CountG(x))
    BY <1>1, <2>5, ScanKept
  <2> QED BY <1>1, <2>2, <2>3, <2>4, <2>5
<1>5. CASE k = "fill"
  <2>1. Large!Step(FillG(x)) /\ FillG(x)[2] = "fill"
    BY <1>2, <1>5 DEF FillG
  <2>2. \E l \in Worker : Large!Mask(FillG(x), l) \/ Large!Fill(FillG(x), l)
    BY <1>3, <2>1 DEF Large!Step
  <2>3. ASSUME NEW l \in Worker, Large!Mask(FillG(x), l) PROVE Local(x) /\ EntryOK(View(x))'
    BY <1>1, <2>3, MaskFillKept
  <2>4. ASSUME NEW l \in Worker, Large!Fill(FillG(x), l) PROVE Local(x) /\ EntryOK(View(x))'
    BY <1>1, <2>4, FillKept
  <2> QED BY <1>1, <2>2, <2>3, <2>4
<1>6. CASE k = "sort"
  <2>1. Large!Step(SortG(x)) /\ SortG(x)[2] = "sort"
    BY <1>2, <1>6 DEF SortG
  <2>2. \E l \in Worker : Large!TakeRank(SortG(x), l) \/ Large!StoreSlot(SortG(x), l)
    BY <1>3, <2>1 DEF Large!Step, Large!SortStep
  <2>3. ASSUME NEW l \in Worker, Large!TakeRank(SortG(x), l) PROVE Local(x) /\ EntryOK(View(x))'
    BY <1>1, <2>3, TakeRankKept
  <2>4. ASSUME NEW l \in Worker, Large!StoreSlot(SortG(x), l) PROVE Local(x) /\ EntryOK(View(x))'
    BY <1>1, <2>4, StoreSlotKept
  <2> QED BY <1>1, <2>2, <2>3, <2>4
<1> QED BY <1>2, <1>4, <1>5, <1>6 DEF Large!Kind

(* Rows of adapters no live entry serves stay as they were. *)
LEMMA UntouchedStays ==
  ASSUME RoutedOK, Untouched, NEW x, Live(x), Elsewhere(x)
  PROVE  Untouched'
<1>1. routed' = routed /\ Active(ModelOf(x)) /\ \A m : Active(m)' <=> Active(m)
  BY LiveModel, InputsStay DEF Elsewhere
<1>2. ASSUME NEW m \in Model, ~Active(m)'
      PROVE  /\ total'[m] = Junk
             /\ \A p \in Position : sorted'[m][p] = Junk
             /\ \A b \in Block : expertIds'[m][b] = Junk
  <2>1. ~Active(m) /\ m # ModelOf(x)
    BY <1>1, <1>2
  <2> QED BY <2>1 DEF Elsewhere, Untouched
<1> QED BY <1>2 DEF Untouched

LEMMA LargeInvStep ==
  ASSUME LargeInv, NEW x \in Entry, Large!Serve(x)
  PROVE  LargeInv'
<1>1. /\ RoutedOK /\ LargeType /\ OutputType /\ Untouched
      /\ \A y \in Entry : Live(y) => EntryOK(View(y))
  BY DEF LargeInv
<1>2. Live(x) /\ Local(x) /\ EntryOK(View(x))'
  BY <1>1, ServeKept
<1>3. routed' = routed /\ LargeType' /\ OutputType' /\ Elsewhere(x) /\ LargeElsewhere(x)
  BY <1>2 DEF Local, Elsewhere
<1>4. RoutedOK' /\ \A y : Live(y)' <=> Live(y)
  BY <1>1, <1>3, InputsStay
<1>5. Untouched'
  BY <1>1, <1>2, <1>3, UntouchedStays
<1>6. ASSUME NEW y \in Entry, Live(y)' PROVE EntryOK(View(y))'
  <2>1. CASE y = x
    BY <1>2, <2>1
  <2>2. CASE y # x
    <3>1. Live(y) /\ View(y)' = View(y)
      BY <1>1, <1>2, <1>3, <1>4, <1>6, <2>2, ViewElsewhere
    <3>2. PICK v : v = View(y)
      OBVIOUS
    <3>3. EntryOK(v) /\ v = View(y)'
      BY <1>1, <3>1, <3>2
    <3>4. EntryOK(v)'
      BY <1>3, <3>3, EntryStays
    <3> QED BY <3>3, <3>4
  <2> QED BY <2>1, <2>2
<1> QED BY <1>3, <1>4, <1>5, <1>6 DEF LargeInv

-----------------------------------------------------------------------------
(* What holds at first.                                                    *)
LEMMA RoutedAtFirst ==
  ASSUME InitRouting
  PROVE  RoutedOK /\ OutputType /\ Untouched
<1>1. PICK t \in [AlignSlot -> TopkIds], m \in ExpertMaps, r \in Requests :
        routed = [topk |-> t, map |-> m, multi |-> r.multi, ids |-> r.ids, lora |-> r.lora,
                  enabled |-> r.enabled]
  BY DEF InitRouting
<1>2. TopkIds \subseteq Int /\ ExpertMaps \subseteq [AlignExpert -> AlignExpert \cup {-1}]
  BY RequestAssumption
<1>3. /\ r.multi \in BOOLEAN /\ r.ids \in [Entry -> Int]
      /\ r.lora \in [AlignToken -> Int] /\ r.enabled \in [Model -> BOOLEAN]
      /\ \A x, y \in Entry : r.ids[x] = r.ids[y] /\ x # y => r.ids[x] \notin Model
  BY RequestAssumption
<1>4. /\ routed.topk = t /\ routed.map = m /\ routed.multi = r.multi /\ routed.ids = r.ids
      /\ routed.lora = r.lora /\ routed.enabled = r.enabled
  BY <1>1
<1>5. t \in [AlignSlot -> Int] /\ m \in [AlignExpert -> AlignExpert \cup {-1}]
  BY <1>2
<1>6. RoutedOK
  BY <1>3, <1>4, <1>5 DEF RoutedOK
<1>7. OutputType
  <2>1. mask \in [Model -> [AlignToken -> Int]]
    BY Sizes DEF InitRouting
  <2>2. total \in [Model -> Int] /\ sorted \in [Model -> [Position -> Int]] /\ expertIds \in [Model -> [Block -> Int]]
    BY Sizes DEF InitRouting
  <2> QED BY <2>1, <2>2 DEF OutputType
<1>8. Untouched
  BY DEF InitRouting, Untouched
<1> QED BY <1>6, <1>7, <1>8

LEMMA LargeTypeAtFirst ==
  ASSUME Large!Init
  PROVE  LargeType
<1>1. Large!Lane = Worker /\ Junk \in Int /\ Worker \subseteq Nat
  BY WorkerFacts, Sizes
<1>2. alignPhase \in [Large!Group -> [Worker -> Nat]] /\ loopAt \in [Large!Group -> [Worker -> Nat]]
  BY <1>1 DEF Large!Init
<1>3. held \in [Large!Group -> [Worker -> Int]]
  BY <1>1 DEF Large!Init
<1>4. sharedCounts \in [Entry -> [0 .. Large!PaddedExperts - 1 -> Int]] /\ temp \in [Entry -> [Worker -> Int]]
  <2>1. PICK S : S = 0 .. Large!PaddedExperts - 1
    OBVIOUS
  <2>2. sharedCounts = [x \in Entry |-> [e \in S |-> Junk]]
    BY <2>1 DEF Large!Init, Large!Entry, Entry
  <2>3. temp = [x \in Entry |-> [l \in Worker |-> Junk]]
    BY <1>1 DEF Large!Init, Large!Entry, Entry
  <2> QED BY <1>1, <2>1, <2>2, <2>3
<1>5. cumsumBuffer \in [Model -> [0 .. NumExperts -> Int]]
  <2>1. PICK z \in Int : z = IF routed.multi THEN 0 ELSE Junk
    BY <1>1
  <2>2. cumsumBuffer = [m \in Model |-> [e \in 0 .. NumExperts |-> z]]
    BY <2>1 DEF Large!Init, Large!Model, Model
  <2> QED BY <2>2
<1> QED BY <1>2, <1>3, <1>4, <1>5 DEF LargeType

LEMMA EntryAtFirst ==
  ASSUME RoutedOK, NEW v, ViewType(v),
         \A k \in Worker : /\ v.count[k] = 0 /\ v.fill[k] = 0 /\ v.sort[k] = 0
                           /\ v.countLoop[k] = k /\ v.sortLoop[k] = k /\ v.held[k] = -1,
         Base = 0 => v.mask = Wanted(v.m)
  PROVE  EntryOK(v)
<1>1. Base \in Nat /\ \A e \in AlignExpert : e \in Worker
  BY BaseNat, WorkerFacts
<1>2. 0 \in Worker /\ NumExperts \in Worker
  BY WorkerFacts
<1>3. SortIdle(v)
  BY DEF SortIdle
<1>4. Order(v)
  BY <1>1, <1>3 DEF Order
<1>5. Loops(v)
  BY OwnLane DEF Loops
<1>6. Masked(v)
  BY <1>1, <1>2 DEF Masked
<1>7. Tallied(v) /\ Padding(v) /\ NamedBy(v)
  BY <1>1 DEF Tallied, Padding, NamedBy
<1>8. Ranked(v) /\ Totalled(v)
  BY <1>1, <1>2 DEF Ranked, Totalled
<1>9. Filled(v)
  <2>1. \A p \in Position : p % Lanes \in Worker
    BY WorkerFacts DEF Position
  <2> QED BY <1>1, <2>1 DEF Filled
<1>10. StoredOnce(v)
  BY <1>3, NothingStored DEF StoredOnce
<1>11. RanksApart(v)
  BY DEF RanksApart
<1> QED BY <1>4, <1>5, <1>6, <1>7, <1>8, <1>9, <1>10, <1>11 DEF EntryOK

LEMMA LargeInvAtFirst ==
  ASSUME InitRouting, Large!Init
  PROVE  LargeInv
<1>1. RoutedOK /\ OutputType /\ Untouched /\ LargeType
  BY RoutedAtFirst, LargeTypeAtFirst
<1>2. ASSUME NEW x \in Entry, Live(x) PROVE EntryOK(View(x))
  <2>1. PICK v : v = View(x)
    OBVIOUS
  <2>2. ViewType(v) /\ ModelOf(x) \in Model
    BY <1>1, <1>2, <2>1, ViewTyped, LiveModel
  <2>3. \A k \in Worker : /\ v.count[k] = 0 /\ v.fill[k] = 0 /\ v.sort[k] = 0
                          /\ v.countLoop[k] = k /\ v.sortLoop[k] = k /\ v.held[k] = -1
    <3>1. CountG(x) \in Large!Group /\ FillG(x) \in Large!Group /\ SortG(x) \in Large!Group
      BY Groups
    <3>2. Large!Lane = Worker
      BY WorkerFacts
    <3>3. \A k \in Worker : /\ CountAt(x)[k] = 0 /\ FillAt(x)[k] = 0 /\ SortAt(x)[k] = 0
                            /\ CountLoop(x)[k] = k /\ SortLoop(x)[k] = k /\ Held(x)[k] = -1
      BY <3>1, <3>2 DEF Large!Init, CountAt, FillAt, SortAt, CountLoop, SortLoop, Held
    <3> QED BY <2>1, <3>3, ViewFields
  <2>4. Base = 0 => v.mask = Wanted(v.m)
    <3> SUFFICES ASSUME Base = 0 PROVE v.mask = Wanted(v.m)
      OBVIOUS
    <3>1. ~routed.multi
      BY DEF Base
    <3>2. mask[ModelOf(x)] = [t \in AlignToken |-> 1]
      BY <2>2, <3>1 DEF InitRouting
    <3>3. Wanted(v.m) = [t \in AlignToken |-> 1]
      BY <3>1 DEF Wanted
    <3> QED BY <2>1, <3>2, <3>3, ViewFields DEF MaskRow
  <2>5. EntryOK(v)
    BY <1>1, <2>2, <2>3, <2>4, EntryAtFirst
  <2> QED BY <2>1, <2>5
<1> QED BY <1>1, <1>2 DEF LargeInv

-----------------------------------------------------------------------------
(* What an entry has delivered when its groups have ended.                 *)
Delivered(v) ==
  /\ \A e \in AlignExpert : \A i \in SlotsOf(v.m, e) :
       \E p \in Position : /\ v.row[p] = i /\ v.ids[p \div BlockSize] = e
                           /\ \A q \in Position \ {p} : v.row[q] # i
  /\ \A p \in Position : v.row[p] = Numel \/ \E e \in AlignExpert : v.row[p] \in SlotsOf(v.m, e)
  /\ \A b \in Block : v.ids[b] \in (IF Owner(v.m, b) = {} THEN {Inactive} ELSE Owner(v.m, b))

LEMMA EntryDelivers ==
  ASSUME RoutedOK, NEW v, ViewType(v), EntryOK(v), FirstDone(v), \A k \in Worker : v.sort[k] = 1
  PROVE  /\ Delivered(v)
         /\ Base = 0 => v.total = Start(v.m, NumExperts)
<1>1. Base \in Nat /\ NumExperts \in Worker /\ (\A e \in AlignExpert : e \in Worker)
  BY BaseNat, WorkerFacts
<1>2. \A k \in Worker : v.count[k] = Base + 6 /\ v.fill[k] = Base + 1
  BY DEF FirstDone
<1>3. ASSUME NEW e \in AlignExpert PROVE Stored(v, e) = SlotsOf(v.m, e)
  <2>1. \A i \in SlotsOf(v.m, e) : i % Lanes \in Worker
    BY SlotLane
  <2>2. \A i \in SlotsOf(v.m, e) : IsStored(v, i)
    BY <2>1 DEF IsStored
  <2> QED BY <2>2 DEF Stored
<1>4. \A k \in Worker, b \in Block :
        /\ b \in Mine(v.m, k) => v.ids[b] = k
        /\ b \in Rest(v.m, k, Lanes) => v.ids[b] = Inactive
  BY <1>1, <1>2 DEF EntryOK, NamedBy
<1>5. ASSUME NEW e \in AlignExpert, NEW i \in SlotsOf(v.m, e)
      PROVE  \E p \in Position : /\ v.row[p] = i /\ v.ids[p \div BlockSize] = e
                                 /\ \A q \in Position \ {p} : v.row[q] # i
  <2>1. i \in Stored(v, e)
    BY <1>3
  <2>2. PICK p \in Position : /\ InRange(v, e, p) /\ v.row[p] = i
                              /\ \A q \in Position \ {p} : v.row[q] # i
    BY <2>1 DEF EntryOK, StoredOnce
  <2>3. p \in Int
    BY DEF Position
  <2>4. PICK b : b = p \div BlockSize
    OBVIOUS
  <2>5. b \in Block /\ b \in Mine(v.m, e)
    BY <2>2, <2>3, <2>4, RankPosition
  <2>6. v.ids[b] = e
    BY <1>1, <1>4, <2>5
  <2> QED BY <2>2, <2>4, <2>6
<1>6. ASSUME NEW p \in Position
      PROVE  v.row[p] = Numel \/ \E e \in AlignExpert : v.row[p] \in SlotsOf(v.m, e)
  <2>1. p % Lanes \in Worker
    BY WorkerFacts DEF Position
  <2>2. v.fill[p % Lanes] >= Base + 1
    BY <1>1, <1>2, <2>1
  <2> QED BY <1>3, <2>2 DEF EntryOK, Filled
<1>7. ASSUME NEW b \in Block
      PROVE  v.ids[b] \in (IF Owner(v.m, b) = {} THEN {Inactive} ELSE Owner(v.m, b))
  <2>1. Lanes \in Nat /\ NumExperts <= Lanes /\ Worker = 0 .. Lanes - 1
    BY LaneAssumption, Sizes DEF Worker
  <2>2. \A t \in 0 .. Lanes - 1, c \in Block :
          /\ c \in Mine(v.m, t) => v.ids[c] = t
          /\ c \in Rest(v.m, t, Lanes) => v.ids[c] = Inactive
    BY <1>4, <2>1
  <2>3. PICK ids : ids = v.ids
    OBVIOUS
  <2> QED BY <2>1, <2>2, <2>3, AllNamed
<1>8. Base = 0 => v.total = Start(v.m, NumExperts)
  BY <1>1, <1>2 DEF EntryOK, Totalled
<1> QED BY <1>5, <1>6, <1>7, <1>8 DEF Delivered

AllServed(m) == UNION {Served(m)[e] : e \in AlignExpert}

(* The same, in the words of the outputs of an adapter.                    *)
LEMMA DeliveredIs ==
  ASSUME NEW m, NEW v, v.m = m, v.row = sorted[m], v.ids = expertIds[m], Delivered(v)
  PROVE  PlacedOnce(m) /\ RestPadded(m) /\ BlocksNamed(m)
<1>1. PlacedOnce(m)
  BY DEF Delivered, PlacedOnce, SlotsOf
<1>2. RestPadded(m)
  <2>1. ASSUME NEW p \in Position
        PROVE  sorted[m][p] \in AllServed(m) \cup {Numel}
    <3>1. v.row[p] = Numel \/ \E e \in AlignExpert : v.row[p] \in Served(m)[e]
      BY DEF Delivered, SlotsOf
    <3>2. v.row[p] = sorted[m][p]
      OBVIOUS
    <3>3. PICK n : n = sorted[m][p]
      OBVIOUS
    <3>4. n = Numel \/ \E e \in AlignExpert : n \in Served(m)[e]
      BY <3>1, <3>2, <3>3
    <3>5. \A e \in AlignExpert : n \in Served(m)[e] => n \in AllServed(m)
      BY DEF AllServed
    <3> QED BY <3>3, <3>4, <3>5
  <2>2. (\A p \in Position : sorted[m][p] \in AllServed(m) \cup {Numel}) => RestPadded(m)
    BY Zenon DEF RestPadded, AllServed
  <2> QED BY <2>1, <2>2
<1>3. BlocksNamed(m)
  <2>1. ASSUME NEW b \in Block
        PROVE  expertIds[m][b] \in (IF Owner(m, b) = {} THEN {Inactive} ELSE Owner(m, b))
    BY DEF Delivered
  <2> QED BY <2>1 DEF BlocksNamed, Owner
<1> QED BY <1>1, <1>2, <1>3

(* An active adapter is that of a live entry. *)
LEMMA ActiveEntry ==
  ASSUME RoutedOK, NEW m \in Model, Active(m)
  PROVE  \E x \in Entry : Live(x) /\ ModelOf(x) = m
<1>1. CASE routed.multi
  <2>1. PICK x \in Entry : routed.ids[x] = m
    BY <1>1 DEF Active
  <2>2. ~Skipped(x) /\ ModelOf(x) = m
    BY <1>1, <2>1 DEF Active, Skipped, ModelOf
  <2> QED BY <2>2 DEF Live
<1>2. CASE ~routed.multi
  <2>1. 1 \in Entry
    BY Sizes DEF Entry
  <2>2. ~Skipped(1) /\ ModelOf(1) = m
    BY <1>2 DEF Active, Skipped, ModelOf
  <2> QED BY <2>1, <2>2 DEF Live
<1> QED BY <1>1, <1>2

LEMMA LargeDelivers ==
  ASSUME LargeInv, Large!Finished, NEW m \in Model, Active(m)
  PROVE  /\ PlacedOnce(m) /\ RestPadded(m) /\ BlocksNamed(m)
         /\ ~routed.multi => total[m] = StartsOf(m)[NumExperts]
<1>1. RoutedOK /\ LargeType /\ OutputType
  BY DEF LargeInv
<1>2. PICK x \in Entry : Live(x) /\ ModelOf(x) = m
  BY <1>1, ActiveEntry
<1>3. PICK v : v = View(x)
  OBVIOUS
<1>4. ViewType(v) /\ EntryOK(v)
  BY <1>1, <1>2, <1>3, ViewTyped DEF LargeInv
<1>5. /\ v.m = m /\ v.row = sorted[m] /\ v.ids = expertIds[m] /\ v.total = total[m]
      /\ v.count = CountAt(x) /\ v.fill = FillAt(x) /\ v.sort = SortAt(x)
  BY <1>2, <1>3, ViewFields DEF SortedRow, IdsRow, TotalOf
<1>6. Large!FirstKernelEnded
  BY Groups DEF Large!Finished, Large!FirstKernelEnded, CountG, FillG, Large!Entry, Entry
<1>7. FirstDone(v)
  BY <1>1, <1>2, <1>5, <1>6, FirstEnded DEF FirstDone
<1>8. \A k \in Worker : v.sort[k] = 1
  <2>1. SortG(x) \in Large!Group /\ SortG(x)[1] = x /\ SortG(x)[2] = "sort" /\ Large!Skipped(x) = Skipped(x)
    BY Groups
  <2>2. Large!Ended(SortG(x)) /\ ~Skipped(x)
    BY <1>2, <2>1 DEF Large!Finished, Live
  <2>3. \A k \in Worker : alignPhase[SortG(x)][k] = Large!Steps("sort")
    BY <2>1, <2>2, WorkerFacts DEF Large!Ended
  <2>4. Large!Steps("sort") = 1
    BY <1>1, Numbered
  <2> QED BY <1>5, <2>3, <2>4 DEF SortAt
<1>9. Delivered(v) /\ (Base = 0 => v.total = Start(v.m, NumExperts))
  BY <1>1, <1>4, <1>7, <1>8, EntryDelivers
<1>10. PlacedOnce(m) /\ RestPadded(m) /\ BlocksNamed(m)
  BY <1>5, <1>9, DeliveredIs
<1>11. ~routed.multi => total[m] = StartsOf(m)[NumExperts]
  BY <1>5, <1>9 DEF Base, Start
<1> QED BY <1>10, <1>11

-----------------------------------------------------------------------------
(* The form for small batches: one work-group for an entry.                *)
Thread == 0 .. FillThreads + CountThreads - 1
Counter == 0 .. CountThreads - 1
LaneOf(c) == FillThreads + c

SmallType ==
  /\ smallPhase \in [Entry -> [Thread -> Nat]]
  /\ smallNext \in [Entry -> [Thread -> Int]]
  /\ table \in [Entry -> [0 .. CountThreads -> [AlignExpert -> Int]]]
  /\ smallCumsum \in [Entry -> [0 .. NumExperts -> Int]]

SmallView(x) ==
  [m |-> ModelOf(x), at |-> smallPhase[x], loop |-> smallNext[x], cnt |-> table[x],
   start |-> smallCumsum[x], mask |-> mask[ModelOf(x)], total |-> total[ModelOf(x)],
   row |-> sorted[ModelOf(x)], ids |-> expertIds[ModelOf(x)]]

SmallViewType(v) ==
  /\ v.m \in Model
  /\ v.at \in [Thread -> Nat] /\ v.loop \in [Thread -> Int]
  /\ v.cnt \in [0 .. CountThreads -> [AlignExpert -> Int]] /\ v.start \in [0 .. NumExperts -> Int]
  /\ v.mask \in [AlignToken -> Int] /\ v.total \in Int
  /\ v.row \in [Position -> Int] /\ v.ids \in [Block -> Int]

(* Counter c holds every CountThreads-th slot. It has counted those its    *)
(* first loop is past, and placed those its second loop is past.           *)
At(v, c) == v.at[LaneOf(c)]
Loop(v, c) == v.loop[LaneOf(c)]
OwnSlots(m, e, c) == {i \in SlotsOf(m, e) : i % CountThreads = c}
CountedBy(v, e, c) == {i \in OwnSlots(v.m, e, c) : At(v, c) >= Base + 3 \/ i < Loop(v, c)}
IsPlaced(v, i) ==
  \/ At(v, i % CountThreads) >= Base + 6
  \/ At(v, i % CountThreads) >= Base + 5 /\ i < Loop(v, i % CountThreads)
PlacedBy(v, e, c) == {i \in OwnSlots(v.m, e, c) : IsPlaced(v, i)}
EarlierSlots(m, e, r) == {i \in SlotsOf(m, e) : i % CountThreads < r}
Ahead(m, e, i) == {j \in SlotsOf(m, e) : Small!Before(j, i)}
PlaceOf(m, e, i) == Start(m, e) + Cardinality(Ahead(m, e, i))

InStep(v) ==
  /\ \A k \in Thread : v.at[k] <= Base + 6
  /\ \A j, k \in Thread : v.at[j] <= v.at[k] + 1
Looping(v) == \A c \in Counter : Loop(v, c) \in Nat /\ Loop(v, c) % CountThreads = c
MaskSet(v) == v.at[0] >= Base => v.mask = Wanted(v.m)

(* A column is the counts of its expert, counter by counter, until the     *)
(* expert's own counter sums it; then a row is what the counters before it *)
(* hold and what this one has placed.                                      *)
ColumnCounted(v) ==
  \A c \in Counter, e \in AlignExpert :
    At(v, c) >= Base + 2 /\ At(v, e) <= Base + 3 => v.cnt[c + 1][e] = Cardinality(CountedBy(v, e, c))
ColumnSummed(v) ==
  \A e \in AlignExpert, r \in 0 .. CountThreads :
    At(v, e) >= Base + 4 =>
      v.cnt[r][e] = Cardinality(EarlierSlots(v.m, e, r)) + Cardinality(PlacedBy(v, e, r))

StartsSet(v) ==
  At(v, 0) >= Base + 5 =>
    /\ v.total = Start(v.m, NumExperts)
    /\ \A e \in 0 .. NumExperts : v.start[e] = Start(v.m, e)
HasNamed(v, c) == At(v, c) >= Base + 6 \/ (At(v, c) >= Base + 5 /\ Loop(v, c) # c)
CounterNamed(v) ==
  \A c \in Counter, b \in Block : HasNamed(v, c) =>
    /\ b \in Mine(v.m, c) => v.ids[b] = c
    /\ b \in Rest(v.m, c, CountThreads) => v.ids[b] = Inactive

(* A position that is filled holds padding or the slot whose place it is,  *)
(* and a slot that is placed is there.                                     *)
RowFilled(v) ==
  \A p \in Position : v.at[p % FillThreads] >= Base + 1 =>
    \/ v.row[p] = Numel
    \/ \E e \in AlignExpert : /\ v.row[p] \in SlotsOf(v.m, e) /\ IsPlaced(v, v.row[p])
                              /\ p = PlaceOf(v.m, e, v.row[p])
SlotPlaced(v) ==
  \A e \in AlignExpert : \A i \in SlotsOf(v.m, e) : IsPlaced(v, i) => v.row[PlaceOf(v.m, e, i)] = i

SmallOK(v) ==
  /\ InStep(v) /\ Looping(v) /\ MaskSet(v) /\ ColumnCounted(v) /\ ColumnSummed(v) /\ StartsSet(v)
  /\ CounterNamed(v) /\ RowFilled(v) /\ SlotPlaced(v)

SmallInv ==
  /\ RoutedOK /\ SmallType /\ OutputType /\ Untouched
  /\ \A x \in Entry : Live(x) => SmallOK(SmallView(x))

LEMMA ThreadFacts ==
  /\ FillThreads \in Nat \ {0} /\ CountThreads \in Nat \ {0}
  /\ NumExperts \in Nat \ {0} /\ NumExperts <= CountThreads
  /\ 0 \in Thread /\ 0 \in Counter /\ FillThreads \in Thread /\ LaneOf(0) = FillThreads
  /\ \A l \in Thread : l \in Nat
  /\ \A c \in Counter : /\ c \in Nat /\ c < CountThreads /\ LaneOf(c) \in Thread /\ LaneOf(c) >= FillThreads
                        /\ c \in 0 .. CountThreads /\ c + 1 \in 0 .. CountThreads /\ LaneOf(c) - FillThreads = c
  /\ \A c, d \in Counter : LaneOf(c) = LaneOf(d) => c = d
  /\ \A e \in AlignExpert : e \in Counter
  /\ \A i \in Nat : i % CountThreads \in Counter
  /\ \A i \in Nat : i % FillThreads \in Thread /\ i % FillThreads < FillThreads
<1>1. /\ FillThreads \in Nat \ {0} /\ CountThreads \in Nat \ {0}
      /\ NumExperts \in Nat \ {0} /\ NumExperts <= CountThreads
  BY ThreadAssumption, Sizes
<1>2. \A i \in Nat : i % CountThreads \in 0 .. CountThreads - 1 /\ i % FillThreads \in 0 .. FillThreads - 1
  BY <1>1, DivMod
<1>3. \A i \in Nat : i % CountThreads \in Counter
  BY <1>2 DEF Counter
<1>4. \A i \in Nat : i % FillThreads \in Thread /\ i % FillThreads < FillThreads
  <2> SUFFICES ASSUME NEW i \in Nat PROVE i % FillThreads \in Thread /\ i % FillThreads < FillThreads
    OBVIOUS
  <2>1. PICK r \in 0 .. FillThreads - 1 : r = i % FillThreads
    BY <1>2
  <2>2. r \in 0 .. FillThreads + CountThreads - 1 /\ r < FillThreads
    BY <1>1
  <2> QED BY <2>1, <2>2 DEF Thread
<1>5. /\ 0 \in Thread /\ 0 \in Counter /\ FillThreads \in Thread /\ LaneOf(0) = FillThreads
      /\ \A l \in Thread : l \in Nat
      /\ \A c \in Counter : /\ c \in Nat /\ c < CountThreads /\ LaneOf(c) \in Thread /\ LaneOf(c) >= FillThreads
                            /\ c \in 0 .. CountThreads /\ c + 1 \in 0 .. CountThreads /\ LaneOf(c) - FillThreads = c
      /\ \A c, d \in Counter : LaneOf(c) = LaneOf(d) => c = d
      /\ \A e \in AlignExpert : e \in Counter
  BY <1>1 DEF Thread, Counter, LaneOf, AlignExpert
<1> QED BY <1>1, <1>3, <1>4, <1>5

LEMMA CounterLane ==
  ASSUME NEW l \in Thread, l >= FillThreads
  PROVE  \E c \in Counter : l = LaneOf(c) /\ c = l - FillThreads
<1>1. l - FillThreads \in Counter
  BY ThreadFacts DEF Thread, Counter
<1> QED BY <1>1, ThreadFacts DEF LaneOf

LEMMA SlotCounter ==
  ASSUME RoutedOK, NEW m, NEW e \in AlignExpert, NEW i \in SlotsOf(m, e)
  PROVE  /\ i \in AlignSlot /\ i \in Nat /\ i < Numel
         /\ i % CountThreads \in Counter /\ i % CountThreads \in Nat /\ i % CountThreads <= i
<1>1. i \in AlignSlot /\ i \in Nat /\ i < Numel
  BY ServedFacts, SlotToken
<1>2. i % CountThreads <= i
  <2>1. CountThreads \in Nat \ {0}
    BY ThreadFacts
  <2>2. PICK q \in Nat, r \in 0 .. CountThreads - 1 : i = (q * CountThreads) + r /\ r = i % CountThreads
    BY <1>1, <2>1, DivMod
  <2>3. PICK p \in Nat : p = q * CountThreads
    BY <2>1
  <2> QED BY <2>2, <2>3
<1> QED BY <1>1, <1>2, ThreadFacts

(* Work-item l ends phase k, behind the barrier of its work-group.         *)
PhaseEnds(v, w, l, k) ==
  /\ w.m = v.m /\ v.at[l] = k /\ (\A j \in Thread : v.at[j] >= k) /\ k < Base + 6
  /\ w.at = Bumped(v.at, l) /\ w.loop = [v.loop EXCEPT ![l] = l - FillThreads]
  /\ k \in {Base + 2, Base + 5} /\ l >= FillThreads => v.loop[l] >= Numel

LEMMA PhaseEnded ==
  ASSUME RoutedOK, NEW v, NEW w, SmallViewType(v), SmallViewType(w), SmallOK(v),
         NEW l \in Thread, NEW k \in Nat, PhaseEnds(v, w, l, k)
  PROVE  /\ InStep(w) /\ Looping(w)
         /\ v.at[l] = k /\ w.at[l] = k + 1
         /\ \A j \in Thread : /\ v.at[j] \in Nat /\ w.at[j] \in Nat
                              /\ k <= v.at[j] /\ v.at[j] <= w.at[j] /\ w.at[j] <= k + 1
                              /\ j # l => w.at[j] = v.at[j] /\ w.loop[j] = v.loop[j]
         /\ w.loop[l] = l - FillThreads
<1>0. Base \in Nat /\ l \in Nat
  BY BaseNat, ThreadFacts
<1>1. /\ v.at \in [Thread -> Nat] /\ w.at \in [Thread -> Nat] /\ v.loop \in [Thread -> Int]
      /\ w.at = [v.at EXCEPT ![l] = k + 1] /\ v.at[l] = k
      /\ w.loop = [v.loop EXCEPT ![l] = l - FillThreads]
  BY DEF SmallViewType, PhaseEnds, Bumped
<1>2. /\ w.at[l] = k + 1 /\ w.loop[l] = l - FillThreads
      /\ \A j \in Thread : j # l => w.at[j] = v.at[j] /\ w.loop[j] = v.loop[j]
  BY <1>1
<1>3. \A j \in Thread : /\ v.at[j] \in Nat /\ w.at[j] \in Nat /\ k <= v.at[j] /\ v.at[j] <= k + 1
  BY <1>1 DEF PhaseEnds, SmallOK, InStep
<1>4. \A j \in Thread : v.at[j] <= w.at[j] /\ w.at[j] <= k + 1
  BY <1>1, <1>2, <1>3
<1>5. InStep(w)
  <2>1. k + 1 <= Base + 6
    BY <1>0 DEF PhaseEnds
  <2>2. \A j \in Thread : k <= w.at[j] /\ w.at[j] <= k + 1
    BY <1>3, <1>4
  <2> QED BY <1>0, <1>3, <2>1, <2>2 DEF InStep
<1>6. Looping(w)
  <2> SUFFICES ASSUME NEW c \in Counter PROVE Loop(w, c) \in Nat /\ Loop(w, c) % CountThreads = c
    BY DEF Looping
  <2>0. /\ c \in Nat /\ c < CountThreads /\ LaneOf(c) \in Thread /\ CountThreads \in Nat \ {0}
        /\ LaneOf(c) - FillThreads = c
    BY ThreadFacts
  <2>1. CASE LaneOf(c) = l
    <3>1. Loop(w, c) = c
      BY <1>2, <2>0, <2>1 DEF Loop
    <3>2. c % CountThreads = c
      BY <2>0
    <3> QED BY <2>0, <3>1, <3>2
  <2>2. CASE LaneOf(c) # l
    BY <1>2, <2>0, <2>2 DEF SmallOK, Looping, Loop
  <2> QED BY <2>1, <2>2
<1> QED BY <1>1, <1>2, <1>3, <1>4, <1>5, <1>6

(* Ending a phase places no slot: the loop that places them is over.       *)
LEMMA PlacedStays ==
  ASSUME RoutedOK, NEW v, NEW w, SmallViewType(v), SmallViewType(w), SmallOK(v),
         NEW l \in Thread, NEW k \in Nat, PhaseEnds(v, w, l, k)
  PROVE  \A e \in AlignExpert : \A i \in SlotsOf(v.m, e) : IsPlaced(w, i) <=> IsPlaced(v, i)
<1> SUFFICES ASSUME NEW e \in AlignExpert, NEW i \in SlotsOf(v.m, e) PROVE IsPlaced(w, i) <=> IsPlaced(v, i)
  OBVIOUS
<1>0. Base \in Nat
  BY BaseNat
<1>1. /\ v.at[l] = k /\ w.at[l] = k + 1 /\ w.loop[l] = l - FillThreads
      /\ \A j \in Thread : j # l => w.at[j] = v.at[j] /\ w.loop[j] = v.loop[j]
  BY PhaseEnded
<1>2. PICK c \in Counter : c = i % CountThreads /\ c <= i /\ i \in Nat /\ i < Numel /\ c \in Nat
  BY SlotCounter
<1>3. LaneOf(c) \in Thread /\ LaneOf(c) - FillThreads = c /\ LaneOf(c) >= FillThreads
  BY ThreadFacts
<1>4. CASE LaneOf(c) # l
  BY <1>1, <1>2, <1>3, <1>4 DEF IsPlaced, At, Loop
<1>5. CASE LaneOf(c) = l
  <2>1. IsPlaced(v, i) <=> k >= Base + 6 \/ (k >= Base + 5 /\ i < v.loop[l])
    BY <1>1, <1>2, <1>5 DEF IsPlaced, At, Loop
  <2>2. IsPlaced(w, i) <=> k + 1 >= Base + 6 \/ (k + 1 >= Base + 5 /\ i < c)
    BY <1>1, <1>2, <1>3, <1>5 DEF IsPlaced, At, Loop
  <2>3. k < Base + 6 /\ (k = Base + 5 => v.loop[l] >= Numel)
    BY <1>3, <1>5 DEF PhaseEnds
  <2>4. v.loop[l] \in Int /\ Numel \in Nat
    BY Sizes DEF SmallViewType
  <2> QED BY <1>0, <1>2, <2>1, <2>2, <2>3, <2>4
<1> QED BY <1>4, <1>5

(* Where the table stands for the view w after the end of a phase as it did *)
(* for v before it.                                                        *)
CountsStand(v, w, l, k) ==
  \A c \in Counter, e \in AlignExpert :
    /\ k # Base + 1 \/ LaneOf(c) # l
    /\ At(w, c) >= Base + 2 /\ At(w, e) <= Base + 3
    => v.cnt[c + 1][e] = Cardinality(CountedBy(w, e, c))
SumsStand(v, w, l, k) ==
  \A e \in AlignExpert, r \in 0 .. CountThreads :
    /\ k # Base + 3 \/ LaneOf(e) # l
    /\ At(w, e) >= Base + 4
    => v.cnt[r][e] = Cardinality(EarlierSlots(w.m, e, r)) + Cardinality(PlacedBy(w, e, r))

(* What the end of a phase leaves as it was.                               *)
LEMMA PhaseKeeps ==
  ASSUME RoutedOK, NEW v, NEW w, SmallViewType(v), SmallViewType(w), SmallOK(v),
         NEW l \in Thread, NEW k \in Nat, PhaseEnds(v, w, l, k)
  PROVE  /\ w.mask = v.mask /\ k >= Base => MaskSet(w)
         /\ CountsStand(v, w, l, k) /\ SumsStand(v, w, l, k)
         /\ w.cnt = v.cnt /\ (k # Base + 1 \/ l < FillThreads) => ColumnCounted(w)
         /\ w.cnt = v.cnt /\ (k # Base + 3 \/ l < FillThreads \/ l - FillThreads >= NumExperts) => ColumnSummed(w)
         /\ k < Base + 3 => ColumnSummed(w)
         /\ w.total = v.total /\ w.start = v.start /\ (k # Base + 4 \/ l # FillThreads) => StartsSet(w)
         /\ k < Base + 4 => StartsSet(w)
         /\ w.ids = v.ids /\ (k # Base + 5 \/ l < FillThreads) => CounterNamed(w)
         /\ w.row = v.row /\ (k # Base \/ l >= FillThreads) => RowFilled(w)
         /\ w.row = v.row => SlotPlaced(w)
<1>b. Base \in Nat
  BY BaseNat
<1>0. /\ Base \in Nat /\ Base + 5 \in Nat /\ 0 \in Thread /\ 0 \in Counter /\ l \in Nat /\ w.m = v.m
      /\ FillThreads \in Nat /\ NumExperts \in Nat /\ Numel \in Nat /\ LaneOf(0) = FillThreads /\ FillThreads \in Thread
  <2>1. /\ 0 \in Thread /\ 0 \in Counter /\ l \in Nat
        /\ FillThreads \in Nat /\ NumExperts \in Nat /\ LaneOf(0) = FillThreads /\ FillThreads \in Thread
    BY ThreadFacts
  <2>2. Numel \in Nat
    BY Sizes
  <2>3. w.m = v.m
    BY DEF PhaseEnds
  <2> QED BY <1>b, <2>1, <2>2, <2>3
<1>1. /\ v.at[l] = k /\ w.at[l] = k + 1 /\ w.loop[l] = l - FillThreads
      /\ \A j \in Thread : /\ v.at[j] \in Nat /\ w.at[j] \in Nat
                           /\ k <= v.at[j] /\ v.at[j] <= w.at[j] /\ w.at[j] <= k + 1
                           /\ j # l => w.at[j] = v.at[j] /\ w.loop[j] = v.loop[j]
  BY PhaseEnded
<1>2. \A e \in AlignExpert : \A i \in SlotsOf(v.m, e) : IsPlaced(w, i) <=> IsPlaced(v, i)
  BY PlacedStays
<1>3. \A c \in Counter : /\ LaneOf(c) \in Thread /\ LaneOf(c) >= FillThreads /\ LaneOf(c) - FillThreads = c
                         /\ c \in Nat
  BY ThreadFacts
<1>e. \A e \in AlignExpert : e \in Counter /\ e < NumExperts
  BY ThreadFacts, ServedFacts
<1>4. ASSUME w.mask = v.mask, k >= Base PROVE MaskSet(w)
  <2>1. v.at[0] >= Base
    BY <1>0, <1>1, <1>4
  <2> QED BY <1>0, <1>4, <2>1 DEF SmallOK, MaskSet
<1>5. CountsStand(v, w, l, k)
  <2> SUFFICES ASSUME NEW c \in Counter, NEW e \in AlignExpert, k # Base + 1 \/ LaneOf(c) # l,
                      At(w, c) >= Base + 2, At(w, e) <= Base + 3
               PROVE  v.cnt[c + 1][e] = Cardinality(CountedBy(w, e, c))
    BY DEF CountsStand
  <2>0. PICK lc \in Thread, le \in Thread :
          lc = LaneOf(c) /\ le = LaneOf(e) /\ lc >= FillThreads
    BY <1>3, <1>e
  <2>1. v.at[le] <= Base + 3 /\ k <= Base + 3
    BY <1>0, <1>1, <2>0 DEF At
  <2>2. v.at[lc] >= Base + 2
    <3>1. CASE lc = l
      BY <1>0, <1>1, <2>0, <3>1 DEF At
    <3>2. CASE lc # l
      BY <1>1, <2>0, <3>2 DEF At
    <3> QED BY <3>1, <3>2
  <2>3. v.cnt[c + 1][e] = Cardinality(CountedBy(v, e, c))
    BY <1>e, <2>0, <2>1, <2>2 DEF SmallOK, ColumnCounted, At
  <2>4. ASSUME NEW i \in OwnSlots(v.m, e, c)
        PROVE  At(w, c) >= Base + 3 \/ i < Loop(w, c) <=> At(v, c) >= Base + 3 \/ i < Loop(v, c)
    <3>1. i \in Nat /\ i < Numel
      BY SlotCounter DEF OwnSlots
    <3>2. CASE lc # l
      BY <1>1, <2>0, <3>2 DEF At, Loop
    <3>3. CASE lc = l
      <4>1. k \in {Base + 2, Base + 3}
        BY <1>0, <1>1, <2>1, <2>2, <3>3
      <4>2. w.at[l] >= Base + 3
        BY <1>0, <1>1, <4>1
      <4>3. k = Base + 2 => v.loop[l] >= Numel
        BY <2>0, <3>3 DEF PhaseEnds
      <4>4. v.loop[l] \in Int
        BY DEF SmallViewType
      <4>5. v.at[l] >= Base + 3 \/ i < v.loop[l]
        BY <1>0, <1>1, <3>1, <4>1, <4>3, <4>4
      <4> QED BY <2>0, <3>3, <4>2, <4>5 DEF At, Loop
    <3> QED BY <3>2, <3>3
  <2>5. CountedBy(w, e, c) = CountedBy(v, e, c)
    BY <1>0, <2>4 DEF CountedBy
  <2> QED BY <2>3, <2>5
<1>13. ASSUME w.cnt = v.cnt, k # Base + 1 \/ l < FillThreads PROVE ColumnCounted(w)
  <2>1. ASSUME NEW c \in Counter PROVE k # Base + 1 \/ LaneOf(c) # l
    BY <1>0, <1>3, <1>13
  <2> QED BY <1>5, <1>13, <2>1 DEF CountsStand, ColumnCounted
<1>6. SumsStand(v, w, l, k)
  <2> SUFFICES ASSUME NEW e \in AlignExpert, NEW r \in 0 .. CountThreads, k # Base + 3 \/ LaneOf(e) # l,
                      At(w, e) >= Base + 4
               PROVE  v.cnt[r][e] = Cardinality(EarlierSlots(w.m, e, r)) + Cardinality(PlacedBy(w, e, r))
    BY DEF SumsStand
  <2>0. PICK le \in Thread : le = LaneOf(e) /\ le >= FillThreads /\ le - FillThreads = e
    BY <1>3, <1>e
  <2>1. v.at[le] >= Base + 4
    <3>1. CASE le = l
      BY <1>0, <1>1, <2>0, <3>1 DEF At
    <3>2. CASE le # l
      BY <1>1, <2>0, <3>2 DEF At
    <3> QED BY <3>1, <3>2
  <2>2. v.cnt[r][e] = Cardinality(EarlierSlots(v.m, e, r)) + Cardinality(PlacedBy(v, e, r))
    BY <2>0, <2>1 DEF SmallOK, ColumnSummed, At
  <2>3. PlacedBy(w, e, r) = PlacedBy(v, e, r)
    BY <1>0, <1>2 DEF PlacedBy, OwnSlots
  <2> QED BY <1>0, <2>2, <2>3
<1>14. ASSUME w.cnt = v.cnt, k # Base + 3 \/ l < FillThreads \/ l - FillThreads >= NumExperts PROVE ColumnSummed(w)
  <2>1. ASSUME NEW e \in AlignExpert PROVE k # Base + 3 \/ LaneOf(e) # l
    <3>1. PICK le \in Thread : le = LaneOf(e) /\ le >= FillThreads /\ le - FillThreads = e /\ e < NumExperts
      BY <1>3, <1>e
    <3> QED BY <1>0, <1>14, <3>1
  <2> QED BY <1>6, <1>14, <2>1 DEF SumsStand, ColumnSummed
<1>7. ASSUME k < Base + 3 PROVE ColumnSummed(w)
  <2>1. ASSUME NEW e \in AlignExpert PROVE ~(At(w, e) >= Base + 4)
    <3>1. PICK le \in Thread : le = LaneOf(e)
      BY <1>3, <1>e
    <3> QED BY <1>0, <1>1, <1>7, <3>1 DEF At
  <2> QED BY <2>1 DEF ColumnSummed
<1>8. ASSUME w.total = v.total, w.start = v.start, k # Base + 4 \/ l # FillThreads PROVE StartsSet(w)
  <2> SUFFICES ASSUME w.at[FillThreads] >= Base + 5
               PROVE  v.at[FillThreads] >= Base + 5
    BY <1>0, <1>8 DEF SmallOK, StartsSet, At
  <2> QED BY <1>0, <1>1, <1>8
<1>9. ASSUME k < Base + 4 PROVE StartsSet(w)
  <2>1. ~(At(w, 0) >= Base + 5)
    BY <1>0, <1>1, <1>9 DEF At
  <2> QED BY <2>1 DEF StartsSet
<1>10. ASSUME w.ids = v.ids, k # Base + 5 \/ l < FillThreads PROVE CounterNamed(w)
  <2>1. ASSUME NEW c \in Counter, HasNamed(w, c) PROVE HasNamed(v, c)
    <3>0. PICK lc \in Thread : lc = LaneOf(c) /\ lc >= FillThreads /\ lc - FillThreads = c
      BY <1>3
    <3>1. CASE lc # l
      BY <1>1, <2>1, <3>0, <3>1 DEF HasNamed, At, Loop
    <3>2. CASE lc = l
      <4>1. w.loop[l] = c /\ k # Base + 5
        BY <1>0, <1>1, <1>10, <3>0, <3>2
      <4>2. w.at[l] >= Base + 6
        BY <2>1, <3>0, <3>2, <4>1 DEF HasNamed, At, Loop
      <4>3. v.at[l] >= Base + 6
        BY <1>0, <1>1, <4>1, <4>2
      <4> QED BY <3>0, <3>2, <4>3 DEF HasNamed, At
    <3> QED BY <3>1, <3>2
  <2> QED BY <1>0, <1>10, <2>1 DEF SmallOK, CounterNamed
<1>11. ASSUME w.row = v.row, k # Base \/ l >= FillThreads PROVE RowFilled(w)
  <2> SUFFICES ASSUME NEW p \in Position, w.at[p % FillThreads] >= Base + 1
               PROVE  \/ w.row[p] = Numel
                      \/ \E e \in AlignExpert : /\ w.row[p] \in SlotsOf(w.m, e) /\ IsPlaced(w, w.row[p])
                                                /\ p = PlaceOf(w.m, e, w.row[p])
    BY DEF RowFilled
  <2>1. PICK j \in Thread : j = p % FillThreads /\ j < FillThreads
    BY ThreadFacts DEF Position
  <2>2. v.at[j] >= Base + 1
    <3>1. CASE j = l
      BY <1>0, <1>1, <1>11, <2>1, <3>1
    <3>2. CASE j # l
      BY <1>1, <2>1, <3>2
    <3> QED BY <3>1, <3>2
  <2>3. \/ v.row[p] = Numel
        \/ \E e \in AlignExpert : /\ v.row[p] \in SlotsOf(v.m, e) /\ IsPlaced(v, v.row[p])
                                  /\ p = PlaceOf(v.m, e, v.row[p])
    BY <2>1, <2>2 DEF SmallOK, RowFilled
  <2> QED BY <1>0, <1>2, <1>11, <2>3
<1>12. ASSUME w.row = v.row PROVE SlotPlaced(w)
  BY <1>0, <1>2, <1>12 DEF SmallOK, SlotPlaced
<1> QED BY <1>4, <1>5, <1>6, <1>7, <1>8, <1>9, <1>10, <1>11, <1>12, <1>13, <1>14

(* Each phase of the small form keeps the invariant of its entry.          *)
LEMMA SmallMaskKeeps ==
  ASSUME RoutedOK, NEW v, NEW w, SmallViewType(v), SmallViewType(w), SmallOK(v),
         NEW l \in Thread, PhaseEnds(v, w, l, 0), Base = 1,
         w.mask = (IF l = 0 THEN Wanted(v.m) ELSE v.mask),
         w.cnt = v.cnt, w.ids = v.ids, w.row = v.row
  PROVE  SmallOK(w)
<1>1. /\ InStep(w) /\ Looping(w) /\ \A j \in Thread : j # l => w.at[j] = v.at[j]
  BY PhaseEnded
<1>2. ColumnCounted(w) /\ ColumnSummed(w) /\ StartsSet(w) /\ CounterNamed(w) /\ RowFilled(w) /\ SlotPlaced(w)
  BY PhaseKeeps
<1>3. MaskSet(w)
  <2>1. CASE l = 0
    BY <2>1 DEF MaskSet, PhaseEnds
  <2>2. CASE l # 0
    <3>1. w.at[0] = v.at[0]
      BY <1>1, <2>2, ThreadFacts
    <3> QED BY <2>2, <3>1 DEF MaskSet, SmallOK, PhaseEnds
  <2> QED BY <2>1, <2>2
<1> QED BY <1>1, <1>2, <1>3 DEF SmallOK

LEMMA SmallFillKeeps ==
  ASSUME RoutedOK, NEW v, NEW w, SmallViewType(v), SmallViewType(w), SmallOK(v),
         NEW l \in Thread, PhaseEnds(v, w, l, Base),
         w.row = (IF l >= FillThreads THEN v.row ELSE Filling(v.row, l, FillThreads)),
         w.mask = v.mask, w.cnt = v.cnt, w.total = v.total, w.start = v.start, w.ids = v.ids
  PROVE  SmallOK(w)
<1>0. Base \in Nat
  BY BaseNat
<1>1. /\ InStep(w) /\ Looping(w)
      /\ \A j \in Thread : v.at[j] \in Nat /\ v.at[j] <= Base + 1 /\ (j # l => w.at[j] = v.at[j])
  BY <1>0, PhaseEnded
<1>2. MaskSet(w) /\ ColumnCounted(w) /\ ColumnSummed(w) /\ StartsSet(w) /\ CounterNamed(w)
  BY <1>0, PhaseKeeps
<1>3. \A e \in AlignExpert : \A i \in SlotsOf(v.m, e) : IsPlaced(w, i) <=> IsPlaced(v, i)
  BY <1>0, PlacedStays
<1>4. ASSUME NEW e \in AlignExpert, NEW i \in SlotsOf(v.m, e) PROVE ~IsPlaced(w, i)
  <2>1. PICK c \in Counter : c = i % CountThreads
    BY SlotCounter
  <2>2. PICK j \in Thread : j = LaneOf(c)
    BY ThreadFacts
  <2>3. ~IsPlaced(v, i)
    BY <1>0, <1>1, <2>1, <2>2 DEF IsPlaced, At
  <2> QED BY <1>3, <2>3
<1>5. SlotPlaced(w)
  BY <1>4 DEF SlotPlaced, PhaseEnds
<1>6. RowFilled(w)
  <2> SUFFICES ASSUME NEW p \in Position, w.at[p % FillThreads] >= Base + 1
               PROVE  \/ w.row[p] = Numel
                      \/ \E e \in AlignExpert : /\ w.row[p] \in SlotsOf(v.m, e) /\ IsPlaced(w, w.row[p])
                                                /\ p = PlaceOf(v.m, e, w.row[p])
    BY DEF RowFilled, PhaseEnds
  <2>1. PICK j \in Thread : j = p % FillThreads /\ j < FillThreads
    BY ThreadFacts DEF Position
  <2>2. CASE j = l
    <3>1. ~(l >= FillThreads) /\ p % FillThreads = l
      <4>1. FillThreads \in Nat /\ l \in Nat
        BY ThreadFacts
      <4> QED BY <2>1, <2>2, <4>1
    <3> QED BY <3>1 DEF Filling
  <2>3. CASE j # l
    <3>1. w.row[p] = v.row[p]
      BY <2>1, <2>3 DEF Filling
    <3>2. v.at[p % FillThreads] >= Base + 1
      BY <1>1, <2>1, <2>3
    <3> QED BY <1>3, <3>1, <3>2 DEF SmallOK, RowFilled
  <2> QED BY <2>2, <2>3
<1> QED BY <1>1, <1>2, <1>5, <1>6 DEF SmallOK

LEMMA ClearKeeps ==
  ASSUME RoutedOK, NEW v, NEW w, SmallViewType(v), SmallViewType(w), SmallOK(v),
         NEW l \in Thread, PhaseEnds(v, w, l, Base + 1),
         w.cnt = (IF l >= FillThreads
                  THEN [v.cnt EXCEPT ![l - FillThreads + 1] = [e \in AlignExpert |-> 0]] ELSE v.cnt),
         w.mask = v.mask, w.row = v.row, w.total = v.total, w.start = v.start, w.ids = v.ids
  PROVE  SmallOK(w)
<1>b. Base \in Nat
  BY BaseNat
<1>0. Base \in Nat /\ Base + 1 \in Nat /\ l \in Nat /\ FillThreads \in Nat
  BY <1>b, ThreadFacts
<1>1. /\ InStep(w) /\ Looping(w) /\ w.at[l] = (Base + 1) + 1 /\ w.loop[l] = l - FillThreads
  BY <1>0, PhaseEnded
<1>2. /\ MaskSet(w) /\ ColumnSummed(w) /\ StartsSet(w) /\ CounterNamed(w) /\ RowFilled(w) /\ SlotPlaced(w)
      /\ CountsStand(v, w, l, Base + 1)
      /\ w.cnt = v.cnt /\ l < FillThreads => ColumnCounted(w)
  BY <1>0, PhaseKeeps
<1>3. ColumnCounted(w)
  <2>1. CASE l < FillThreads
    BY <1>0, <1>2, <2>1
  <2>2. CASE l >= FillThreads
    <3> SUFFICES ASSUME NEW c \in Counter, NEW e \in AlignExpert, At(w, c) >= Base + 2, At(w, e) <= Base + 3
                 PROVE  w.cnt[c + 1][e] = Cardinality(CountedBy(w, e, c))
      BY DEF ColumnCounted
    <3>1. PICK d \in Counter : l = LaneOf(d) /\ d = l - FillThreads
      BY <2>2, CounterLane
    <3>2. /\ v.cnt \in [0 .. CountThreads -> [AlignExpert -> Int]]
          /\ w.cnt = [v.cnt EXCEPT ![d + 1] = [a \in AlignExpert |-> 0]]
          /\ c \in Nat /\ d \in Nat /\ c + 1 \in 0 .. CountThreads /\ d + 1 \in 0 .. CountThreads
      BY <2>2, <3>1, ThreadFacts DEF SmallViewType
    <3>3. CASE c = d
      <4>1. w.cnt[c + 1][e] = 0
        BY <3>2, <3>3
      <4>2. ASSUME NEW i \in OwnSlots(w.m, e, c) PROVE ~(At(w, c) >= Base + 3 \/ i < Loop(w, c))
        <5>1. c <= i /\ i \in Nat
          BY SlotCounter DEF OwnSlots
        <5>2. At(w, c) = Base + 2 /\ Loop(w, c) = c
          BY <1>0, <1>1, <3>1, <3>3 DEF At, Loop
        <5> QED BY <1>0, <3>2, <5>1, <5>2
      <4>3. CountedBy(w, e, c) = {}
        BY <4>2 DEF CountedBy
      <4> QED BY <4>1, <4>3, FS_EmptySet
    <3>4. CASE c # d
      <4>1. LaneOf(c) # l
        BY <3>1, <3>4, ThreadFacts
      <4>2. v.cnt[c + 1][e] = Cardinality(CountedBy(w, e, c))
        BY <1>2, <4>1 DEF CountsStand
      <4>3. w.cnt[c + 1] = v.cnt[c + 1]
        <5>1. PICK c1 \in 0 .. CountThreads, d1 \in 0 .. CountThreads : c1 = c + 1 /\ d1 = d + 1
          BY <3>2
        <5>2. c1 # d1
          BY <3>2, <3>4, <5>1
        <5>3. w.cnt[c1] = v.cnt[c1]
          BY <3>2, <5>1, <5>2
        <5> QED BY <5>1, <5>3
      <4> QED BY <4>2, <4>3
    <3> QED BY <3>3, <3>4
  <2> QED BY <1>0, <2>1, <2>2
<1> QED BY <1>1, <1>2, <1>3 DEF SmallOK

(* A counter's loop goes on to its next slot, counting this one.           *)
LoopsOn(v, w, l) == w.m = v.m /\ w.at = v.at /\ w.loop = [v.loop EXCEPT ![l] = @ + CountThreads]
CountsSlot(v, w, c, i0) ==
  w.cnt = (IF Valid(i0) THEN [v.cnt EXCEPT ![c + 1][ServedBy(i0)] = @ + v.mask[i0 \div TopkNum]] ELSE v.cnt)

LEMMA SmallCountTurnKeeps ==
  ASSUME RoutedOK, NEW v, NEW w, SmallViewType(v), SmallViewType(w), SmallOK(v),
         NEW c \in Counter, NEW l \in Thread, l = LaneOf(c), v.at[l] = Base + 2, \A j \in Thread : v.at[j] >= Base + 2,
         NEW i0 \in Nat, i0 = v.loop[l], i0 < Numel,
         LoopsOn(v, w, l), CountsSlot(v, w, c, i0),
         w.mask = v.mask, w.row = v.row, w.total = v.total, w.start = v.start, w.ids = v.ids
  PROVE  SmallOK(w)
<1> USE DEF LoopsOn, CountsSlot
<1>b. Base \in Nat
  BY BaseNat
<1>t. CountThreads \in Nat \ {0} /\ 0 \in Thread /\ c \in Nat /\ c + 1 \in 0 .. CountThreads
  BY ThreadFacts
<1>1. \A j \in Thread : v.at[j] \in Nat /\ Base + 2 <= v.at[j] /\ v.at[j] <= Base + 3
  BY <1>b DEF SmallViewType, SmallOK, InStep
<1>2. InStep(w)
  BY DEF SmallOK, InStep
<1>3. i0 % CountThreads = c /\ (i0 + CountThreads) % CountThreads = c
  BY <1>t, StrideMod DEF SmallOK, Looping, Loop
<1>4. /\ w.loop[l] = i0 + CountThreads
      /\ \A j \in Thread : j # l => w.loop[j] = v.loop[j]
  BY DEF SmallViewType
<1>l. \A d \in Counter : LaneOf(d) \in Thread /\ (d # c => LaneOf(d) # l)
  BY ThreadFacts
<1>5. Looping(w)
  <2> SUFFICES ASSUME NEW d \in Counter PROVE Loop(w, d) \in Nat /\ Loop(w, d) % CountThreads = d
    BY DEF Looping
  <2>1. CASE d = c
    BY <1>3, <1>4, <1>t, <2>1 DEF Loop
  <2>2. CASE d # c
    BY <1>4, <1>l, <2>2 DEF Loop, SmallOK, Looping
  <2> QED BY <2>1, <2>2
<1>6. ASSUME NEW d \in Counter PROVE v.at[LaneOf(d)] <= Base + 3 /\ v.at[LaneOf(d)] \in Nat
  BY <1>1, <1>l
<1>7. MaskSet(w) /\ v.mask = Wanted(v.m)
  <2>1. v.at[0] >= Base
    BY <1>1, <1>b, <1>t
  <2> QED BY <2>1 DEF SmallOK, MaskSet
<1>8. StartsSet(w) /\ ColumnSummed(w) /\ CounterNamed(w)
  <2>0. 0 \in Counter /\ \A e \in AlignExpert : e \in Counter
    BY ThreadFacts
  <2>1. \A d \in Counter : ~(At(w, d) >= Base + 4) /\ ~(At(w, d) >= Base + 5) /\ ~(At(w, d) >= Base + 6)
    BY <1>6, <1>b DEF At
  <2> QED BY <2>0, <2>1 DEF StartsSet, ColumnSummed, CounterNamed, HasNamed
<1>9. \A e \in AlignExpert : \A i \in SlotsOf(v.m, e) : ~IsPlaced(v, i) /\ ~IsPlaced(w, i)
  <2> SUFFICES ASSUME NEW e \in AlignExpert, NEW i \in SlotsOf(v.m, e) PROVE ~IsPlaced(v, i) /\ ~IsPlaced(w, i)
    OBVIOUS
  <2>1. PICK d \in Counter : d = i % CountThreads
    BY SlotCounter
  <2> QED BY <1>6, <1>b, <2>1 DEF IsPlaced, At
<1>10. SlotPlaced(w)
  BY <1>9 DEF SlotPlaced
<1>11. RowFilled(w)
  BY <1>9 DEF SmallOK, RowFilled
<1>12. i0 \in AlignSlot /\ i0 \div TopkNum \in AlignToken
  <2>1. i0 \in AlignSlot
    BY Sizes DEF AlignSlot
  <2> QED BY <2>1, SlotToken
<1>13. v.cnt \in [0 .. CountThreads -> [AlignExpert -> Int]] /\ v.loop[l] \in Int
  BY DEF SmallViewType
<1>15. At(w, c) = At(v, c) /\ \A d \in Counter : At(w, d) = At(v, d)
  BY DEF At
<1>14. ColumnCounted(w)
  <2> SUFFICES ASSUME NEW d \in Counter, NEW e \in AlignExpert, At(w, d) >= Base + 2, At(w, e) <= Base + 3
               PROVE  w.cnt[d + 1][e] = Cardinality(CountedBy(w, e, d))
    BY DEF ColumnCounted
  <2>0. d \in Nat /\ d + 1 \in 0 .. CountThreads
    BY ThreadFacts
  <2>1. v.cnt[d + 1][e] = Cardinality(CountedBy(v, e, d)) /\ v.cnt[d + 1][e] \in Int
    <3>1. v.cnt[d + 1][e] = Cardinality(CountedBy(v, e, d))
      <4>1. At(v, d) >= Base + 2 /\ At(v, e) <= Base + 3
        BY <1>15, ThreadFacts
      <4> QED BY <4>1 DEF SmallOK, ColumnCounted
    <3>2. v.cnt[d + 1] \in [AlignExpert -> Int]
      BY <1>13, <2>0
    <3> QED BY <3>1, <3>2
  <2>2. CASE d # c
    <3>1. CountedBy(w, e, d) = CountedBy(v, e, d)
      BY <1>4, <1>l, <2>2 DEF CountedBy, At, Loop
    <3>2. w.cnt[d + 1] = v.cnt[d + 1]
      <4>1. PICK d1 \in 0 .. CountThreads, c1 \in 0 .. CountThreads : d1 = d + 1 /\ c1 = c + 1 /\ d1 # c1
        BY <1>t, <2>0, <2>2
      <4>2. w.cnt[d1] = v.cnt[d1]
        BY <1>13, <4>1
      <4> QED BY <4>1, <4>2
    <3> QED BY <2>1, <3>1, <3>2
  <2>3. CASE d = c
    <3>1. IsFiniteSet(CountedBy(v, e, c))
      BY ShareFacts, FS_Subset DEF CountedBy, OwnSlots
    <3>2. i0 \in SlotsOf(v.m, e) <=> ServedBy(i0) = e /\ Wanted(v.m)[i0 \div TopkNum] = 1
      BY <1>12, ServedFacts
    <3>3. ASSUME NEW i \in OwnSlots(v.m, e, c)
          PROVE  /\ At(w, c) >= Base + 3 \/ i < Loop(w, c) <=> (At(v, c) >= Base + 3 \/ i < Loop(v, c)) \/ i = i0
                 /\ i = i0 => ~(At(v, c) >= Base + 3 \/ i < Loop(v, c))
      <4>1. i \in Nat /\ i % CountThreads = c
        BY SlotCounter DEF OwnSlots
      <4>2. PICK n \in Nat : n = i0 + CountThreads
        BY <1>t
      <4>3. i < n <=> i < i0 \/ i = i0
        <5>1. CASE i < n /\ i > i0
          <6>1. i0 % CountThreads = i % CountThreads /\ i0 <= i /\ i < i0 + CountThreads
            BY <1>3, <4>1, <4>2, <5>1
          <6>2. i0 = i
            BY <1>t, <4>1, <6>1, NearMod
          <6> QED BY <4>1, <5>1, <6>2
        <5>2. CASE ~(i < n /\ i > i0)
          BY <1>t, <4>1, <4>2, <5>2
        <5> QED BY <5>1, <5>2
      <4>4. ~(At(v, c) >= Base + 3) /\ At(w, c) = At(v, c) /\ Loop(v, c) = i0 /\ Loop(w, c) = n
        BY <1>4, <1>b, <4>2 DEF At, Loop
      <4> QED BY <4>1, <4>3, <4>4
    <3>4. CASE i0 \in SlotsOf(v.m, e)
      <4>0. i0 \in OwnSlots(v.m, e, c)
        BY <1>3, <3>4 DEF OwnSlots
      <4>1. CountedBy(w, e, c) = CountedBy(v, e, c) \cup {i0} /\ i0 \notin CountedBy(v, e, c)
        BY <3>3, <4>0 DEF CountedBy
      <4>2. Cardinality(CountedBy(w, e, c)) = Cardinality(CountedBy(v, e, c)) + 1
        <5>1. PICK C : C = CountedBy(v, e, c)
          OBVIOUS
        <5>2. Cardinality(C \cup {i0}) = Cardinality(C) + 1
          BY <3>1, <4>1, <5>1, FS_AddElement
        <5> QED BY <4>1, <5>1, <5>2
      <4>3. Valid(i0) /\ ServedBy(i0) = e /\ v.mask[i0 \div TopkNum] = 1
        BY <1>7, <1>12, <3>2, <3>4, ServedFacts
      <4>4. w.cnt[c + 1][e] = v.cnt[c + 1][e] + 1
        BY <1>13, <1>t, <4>3
      <4> QED BY <2>1, <2>3, <4>2, <4>4
    <3>5. CASE i0 \notin SlotsOf(v.m, e)
      <4>1. CountedBy(w, e, c) = CountedBy(v, e, c)
        BY <3>3, <3>5 DEF CountedBy, OwnSlots
      <4>2. w.cnt[c + 1][e] = v.cnt[c + 1][e]
        <5>1. CASE Valid(i0) /\ ServedBy(i0) = e
          <6>1. v.mask[i0 \div TopkNum] = 0
            BY <1>7, <1>12, <3>2, <3>5, <5>1, ServedFacts
          <6>2. w.cnt[c + 1][e] = v.cnt[c + 1][e] + 0
            BY <1>13, <1>t, <5>1, <6>1
          <6> QED BY <2>1, <2>3, <6>2
        <5>2. CASE ~Valid(i0) \/ ServedBy(i0) # e
          BY <1>13, <1>t, <5>2
        <5> QED BY <5>1, <5>2
      <4> QED BY <2>1, <2>3, <4>1, <4>2
    <3> QED BY <3>4, <3>5
  <2> QED BY <2>2, <2>3
<1> QED BY <1>2, <1>5, <1>7, <1>8, <1>10, <1>11, <1>14 DEF SmallOK

LEMMA OwnAndEarlier ==
  ASSUME RoutedOK, NEW m, NEW e \in AlignExpert
  PROVE  /\ EarlierSlots(m, e, 0) = {} /\ EarlierSlots(m, e, CountThreads) = SlotsOf(m, e)
         /\ OwnSlots(m, e, CountThreads) = {}
         /\ \A r \in Counter :
              Cardinality(EarlierSlots(m, e, r + 1)) =
                Cardinality(EarlierSlots(m, e, r)) + Cardinality(OwnSlots(m, e, r))
         /\ \A r : Cardinality(EarlierSlots(m, e, r)) \in Nat /\ Cardinality(OwnSlots(m, e, r)) \in Nat
<1>1. \A i \in SlotsOf(m, e) : i % CountThreads \in Nat /\ i % CountThreads < CountThreads
  BY SlotCounter, ThreadFacts
<1>2. IsFiniteSet(SlotsOf(m, e))
  BY ShareFacts
<1>3. ASSUME NEW r PROVE IsFiniteSet(EarlierSlots(m, e, r)) /\ IsFiniteSet(OwnSlots(m, e, r))
  BY <1>2, FS_Subset DEF EarlierSlots, OwnSlots
<1>4. ASSUME NEW r PROVE Cardinality(EarlierSlots(m, e, r)) \in Nat /\ Cardinality(OwnSlots(m, e, r)) \in Nat
  BY <1>3, FS_CardinalityType
<1>5. EarlierSlots(m, e, 0) = {} /\ EarlierSlots(m, e, CountThreads) = SlotsOf(m, e)
      /\ OwnSlots(m, e, CountThreads) = {}
  <2>1. CountThreads \in Nat
    BY ThreadFacts
  <2> QED BY <1>1, <2>1 DEF EarlierSlots, OwnSlots
<1>6. ASSUME NEW r \in Counter
      PROVE  Cardinality(EarlierSlots(m, e, r + 1)) =
                Cardinality(EarlierSlots(m, e, r)) + Cardinality(OwnSlots(m, e, r))
  <2>0. r \in Nat
    BY ThreadFacts
  <2>1. PICK A, B : A = EarlierSlots(m, e, r) /\ B = OwnSlots(m, e, r)
    OBVIOUS
  <2>2. EarlierSlots(m, e, r + 1) = A \cup B /\ A \cap B = {}
    BY <1>1, <2>0, <2>1 DEF EarlierSlots, OwnSlots
  <2>3. IsFiniteSet(A) /\ IsFiniteSet(B) /\ Cardinality(A) \in Nat /\ Cardinality(B) \in Nat
    BY <1>3, <1>4, <2>1
  <2>4. Cardinality(A \cup B) = Cardinality(A) + Cardinality(B) - Cardinality(A \cap B)
    BY <2>3, FS_Union
  <2>5. Cardinality(A \cap B) = 0
    BY <2>2, FS_EmptySet
  <2>6. Cardinality(A \cup B) = Cardinality(A) + Cardinality(B)
    BY <2>3, <2>4, <2>5
  <2> QED BY <2>1, <2>2, <2>6
<1> QED BY <1>4, <1>5, <1>6

(* Summing its column, a counter turns the counts of its expert into how   *)
(* many slots the counters before each row hold.                           *)
SumsColumn(s, v, e) == RunningSum(s, [n \in Nat |-> v.cnt[n + 1][e]])

LEMMA ColumnSums ==
  ASSUME RoutedOK, NEW v, SmallViewType(v), SmallOK(v), NEW e \in AlignExpert,
         At(v, e) = Base + 3, \A j \in Thread : v.at[j] >= Base + 3,
         NEW s, SumsColumn(s, v, e)
  PROVE  \A r \in 0 .. CountThreads : s[r] = Cardinality(EarlierSlots(v.m, e, r))
<1> DEFINE h == [n \in Nat |-> v.cnt[n + 1][e]]
           T == {r \in Nat : r <= CountThreads => s[r] = Cardinality(EarlierSlots(v.m, e, r))}
<1>0. CountThreads \in Nat \ {0} /\ Counter = 0 .. CountThreads - 1 /\ Base \in Nat
  BY BaseNat, ThreadFacts DEF Counter
<1>1. ASSUME NEW c \in Counter PROVE v.cnt[c + 1][e] = Cardinality(OwnSlots(v.m, e, c))
  <2>1. LaneOf(c) \in Thread
    BY ThreadFacts
  <2>2. At(v, c) >= Base + 3 /\ At(v, c) >= Base + 2
    <3>1. v.at[LaneOf(c)] >= Base + 3 /\ v.at[LaneOf(c)] \in Nat
      BY <2>1 DEF SmallViewType
    <3> QED BY <1>0, <3>1 DEF At
  <2>3. v.cnt[c + 1][e] = Cardinality(CountedBy(v, e, c))
    BY <1>0, <2>2 DEF SmallOK, ColumnCounted
  <2>4. CountedBy(v, e, c) = OwnSlots(v.m, e, c)
    BY <2>2 DEF CountedBy
  <2> QED BY <2>3, <2>4
<1>2. \A c \in Counter : h[c] = Cardinality(OwnSlots(v.m, e, c)) /\ h[c] \in Nat
  <2> SUFFICES ASSUME NEW c \in Counter PROVE h[c] = Cardinality(OwnSlots(v.m, e, c)) /\ h[c] \in Nat
    OBVIOUS
  <2>1. c \in Nat
    BY <1>0
  <2>2. h[c] = v.cnt[c + 1][e]
    BY <2>1
  <2>3. Cardinality(OwnSlots(v.m, e, c)) \in Nat
    BY OwnAndEarlier
  <2> HIDE DEF h
  <2> QED BY <1>1, <2>2, <2>3
<1>3. RunningSum(s, h)
  BY DEF SumsColumn
<1> HIDE DEF h
<1>4. /\ s[0] = 0 /\ \A n \in 0 .. CountThreads : s[n] \in Nat
      /\ \A n \in 0 .. CountThreads - 1 : s[n + 1] = s[n] + h[n]
  BY <1>0, <1>2, <1>3, RunningSumFacts
<1>t. \A r \in Nat : r \in T <=> (r <= CountThreads => s[r] = Cardinality(EarlierSlots(v.m, e, r)))
  OBVIOUS
<1> HIDE DEF T
<1>5. 0 \in T
  BY <1>4, <1>t, OwnAndEarlier, FS_EmptySet
<1>6. ASSUME NEW r \in Nat, r \in T PROVE r + 1 \in T
  <2> SUFFICES ASSUME r + 1 <= CountThreads PROVE s[r + 1] = Cardinality(EarlierSlots(v.m, e, r + 1))
    BY <1>t
  <2>1. r \in Counter /\ r <= CountThreads /\ r \in 0 .. CountThreads - 1
    BY <1>0
  <2>2. s[r] = Cardinality(EarlierSlots(v.m, e, r))
    BY <1>6, <1>t, <2>1
  <2>3. s[r + 1] = s[r] + h[r] /\ h[r] = Cardinality(OwnSlots(v.m, e, r))
    BY <1>2, <1>4, <2>1
  <2>4. Cardinality(EarlierSlots(v.m, e, r + 1)) = Cardinality(EarlierSlots(v.m, e, r)) + Cardinality(OwnSlots(v.m, e, r))
    BY <2>1, OwnAndEarlier
  <2> QED BY <2>2, <2>3, <2>4
<1>7. Nat \subseteq T
  BY <1>5, <1>6, NatInduct
<1> QED BY <1>0, <1>7, <1>t

LEMMA PrefixKeeps ==
  ASSUME RoutedOK, NEW v, NEW w, SmallViewType(v), SmallViewType(w), SmallOK(v),
         NEW l \in Thread, PhaseEnds(v, w, l, Base + 3),
         NEW e0 \in AlignExpert, l = LaneOf(e0),
         NEW s, SumsColumn(s, v, e0),
         w.cnt = [r \in 0 .. CountThreads |-> [v.cnt[r] EXCEPT ![e0] = s[r]]],
         w.mask = v.mask, w.row = v.row, w.total = v.total, w.start = v.start, w.ids = v.ids
  PROVE  SmallOK(w)
<1>b. Base \in Nat
  BY BaseNat
<1>0. /\ Base \in Nat /\ Base + 3 \in Nat /\ w.m = v.m /\ CountThreads \in Nat
      /\ (\A e \in AlignExpert : e \in Counter) /\ \A c \in Counter : c + 1 \in 0 .. CountThreads /\ LaneOf(c) \in Thread
  BY <1>b, ThreadFacts DEF PhaseEnds
<1>1. /\ InStep(w) /\ Looping(w) /\ v.at[l] = Base + 3 /\ w.at[l] = (Base + 3) + 1
      /\ \A j \in Thread : v.at[j] >= Base + 3 /\ w.at[j] \in Nat /\ w.at[j] <= (Base + 3) + 1
  BY <1>0, PhaseEnded
<1>2. /\ MaskSet(w) /\ StartsSet(w) /\ CounterNamed(w) /\ RowFilled(w) /\ SlotPlaced(w)
      /\ CountsStand(v, w, l, Base + 3) /\ SumsStand(v, w, l, Base + 3)
  BY <1>0, PhaseKeeps
<1>3. \A r \in 0 .. CountThreads : s[r] = Cardinality(EarlierSlots(v.m, e0, r))
  <2>1. At(v, e0) = Base + 3 /\ \A j \in Thread : v.at[j] >= Base + 3
    BY <1>1 DEF At
  <2> QED BY <2>1, ColumnSums
<1>4. v.cnt \in [0 .. CountThreads -> [AlignExpert -> Int]]
  BY DEF SmallViewType
<1>5. ASSUME NEW r \in 0 .. CountThreads, NEW e \in AlignExpert
      PROVE  w.cnt[r][e] = IF e = e0 THEN s[r] ELSE v.cnt[r][e]
  <2>1. w.cnt[r] = [v.cnt[r] EXCEPT ![e0] = s[r]]
    OBVIOUS
  <2>2. v.cnt[r] \in [AlignExpert -> Int]
    BY <1>4
  <2> QED BY <2>1, <2>2
<1>6. ColumnCounted(w)
  <2> SUFFICES ASSUME NEW c \in Counter, NEW e \in AlignExpert, At(w, c) >= Base + 2, At(w, e) <= Base + 3
               PROVE  w.cnt[c + 1][e] = Cardinality(CountedBy(w, e, c))
    BY DEF ColumnCounted
  <2>1. e # e0
    BY <1>0, <1>1 DEF At
  <2>2. Base + 3 # Base + 1
    BY <1>0
  <2>3. v.cnt[c + 1][e] = Cardinality(CountedBy(w, e, c))
    BY <1>2, <2>2 DEF CountsStand
  <2> QED BY <1>0, <1>5, <2>1, <2>3
<1>7. ColumnSummed(w)
  <2> SUFFICES ASSUME NEW e \in AlignExpert, NEW r \in 0 .. CountThreads, At(w, e) >= Base + 4
               PROVE  w.cnt[r][e] = Cardinality(EarlierSlots(w.m, e, r)) + Cardinality(PlacedBy(w, e, r))
    BY DEF ColumnSummed
  <2>1. CASE e = e0
    <3>1. ASSUME NEW i \in OwnSlots(w.m, e, r) PROVE ~IsPlaced(w, i)
      <4>1. PICK c \in Counter : c = i % CountThreads
        BY SlotCounter DEF OwnSlots
      <4>2. PICK j \in Thread : j = LaneOf(c)
        BY <1>0
      <4> QED BY <1>0, <1>1, <4>1, <4>2 DEF IsPlaced, At
    <3>2. PlacedBy(w, e, r) = {}
      BY <3>1 DEF PlacedBy
    <3>3. Cardinality(PlacedBy(w, e, r)) = 0
      BY <3>2, FS_EmptySet
    <3>4. w.cnt[r][e] = Cardinality(EarlierSlots(w.m, e, r)) /\ Cardinality(EarlierSlots(w.m, e, r)) \in Nat
      BY <1>0, <1>3, <1>5, <2>1, OwnAndEarlier
    <3> QED BY <3>3, <3>4
  <2>2. CASE e # e0
    <3>1. LaneOf(e) # l
      BY <1>0, <2>2, ThreadFacts
    <3>2. v.cnt[r][e] = Cardinality(EarlierSlots(w.m, e, r)) + Cardinality(PlacedBy(w, e, r))
      BY <1>2, <3>1 DEF SumsStand
    <3> QED BY <1>5, <2>2, <3>2
  <2> QED BY <2>1, <2>2
<1> QED BY <1>1, <1>2, <1>6, <1>7 DEF SmallOK

(* Once every column is summed, the last row holds every expert's share.   *)
LEMMA SharesKnown ==
  ASSUME RoutedOK, NEW v, SmallViewType(v), SmallOK(v),
         \A j \in Thread : v.at[j] >= Base + 4
  PROVE  Starts(v.cnt[CountThreads]) = StartsOf(v.m)
<1>0. /\ CountThreads \in 0 .. CountThreads
      /\ (\A e \in AlignExpert : e \in Counter) /\ \A c \in Counter : LaneOf(c) \in Thread
  BY ThreadFacts
<1>1. ASSUME NEW e \in AlignExpert PROVE v.cnt[CountThreads][e] = Share(v.m, e)
  <2>1. At(v, e) >= Base + 4
    BY <1>0 DEF At
  <2>2. v.cnt[CountThreads][e] =
          Cardinality(EarlierSlots(v.m, e, CountThreads)) + Cardinality(PlacedBy(v, e, CountThreads))
    BY <1>0, <2>1 DEF SmallOK, ColumnSummed
  <2>3. EarlierSlots(v.m, e, CountThreads) = SlotsOf(v.m, e) /\ PlacedBy(v, e, CountThreads) = {}
    BY OwnAndEarlier DEF PlacedBy
  <2>4. Share(v.m, e) \in Nat /\ Share(v.m, e) = Cardinality(SlotsOf(v.m, e))
    BY ShareFacts DEF Share, SlotsOf
  <2> QED BY <2>2, <2>3, <2>4, FS_EmptySet
<1>2. v.cnt[CountThreads] = [e \in AlignExpert |-> Cardinality(Served(v.m)[e])]
  <2>1. v.cnt[CountThreads] \in [AlignExpert -> Int]
    BY <1>0 DEF SmallViewType
  <2> QED BY <1>1, <2>1 DEF Share
<1> QED BY <1>2 DEF StartsOf

(* The first counter sums the padded counts: where ranges start.           *)
LEMMA TotalKeeps ==
  ASSUME RoutedOK, NEW v, NEW w, SmallViewType(v), SmallViewType(w), SmallOK(v),
         NEW l \in Thread, PhaseEnds(v, w, l, Base + 4),
         w.start = (IF l = FillThreads THEN Starts(v.cnt[CountThreads]) ELSE v.start),
         w.total = (IF l = FillThreads THEN Starts(v.cnt[CountThreads])[NumExperts] ELSE v.total),
         w.cnt = v.cnt, w.mask = v.mask, w.row = v.row, w.ids = v.ids
  PROVE  SmallOK(w)
<1>b. Base \in Nat
  BY BaseNat
<1>0. /\ Base \in Nat /\ Base + 4 \in Nat /\ w.m = v.m /\ CountThreads \in 0 .. CountThreads
      /\ (\A e \in AlignExpert : e \in Counter) /\ \A c \in Counter : LaneOf(c) \in Thread
  BY <1>b, ThreadFacts DEF PhaseEnds
<1>1. /\ InStep(w) /\ Looping(w)
      /\ \A j \in Thread : v.at[j] \in Nat /\ v.at[j] >= Base + 4 /\ v.at[j] <= (Base + 4) + 1
  <2>1. /\ InStep(w) /\ Looping(w)
        /\ \A j \in Thread : v.at[j] \in Nat /\ v.at[j] >= Base + 4 /\ v.at[j] <= w.at[j] /\ w.at[j] <= (Base + 4) + 1
                             /\ w.at[j] \in Nat
    BY <1>0, PhaseEnded
  <2> QED BY <1>0, <2>1
<1>2. /\ MaskSet(w) /\ ColumnCounted(w) /\ ColumnSummed(w) /\ CounterNamed(w) /\ RowFilled(w) /\ SlotPlaced(w)
      /\ w.total = v.total /\ w.start = v.start /\ l # FillThreads => StartsSet(w)
  BY <1>0, PhaseKeeps
<1>3. Starts(v.cnt[CountThreads]) = StartsOf(v.m)
  BY <1>1, SharesKnown
<1>5. StartsSet(w)
  <2>1. CASE l = FillThreads
    BY <1>0, <1>3, <2>1 DEF StartsSet, Start
  <2>2. CASE l # FillThreads
    BY <1>2, <2>2
  <2> QED BY <2>1, <2>2
<1> QED BY <1>1, <1>2, <1>5 DEF SmallOK

(* Where a slot goes: within the range of its expert, and nowhere another  *)
(* slot does.                                                              *)
LEMMA PlaceFacts ==
  ASSUME RoutedOK, NEW m, NEW e \in AlignExpert, NEW i \in SlotsOf(m, e)
  PROVE  /\ IsFiniteSet(Ahead(m, e, i)) /\ Cardinality(Ahead(m, e, i)) \in Nat
         /\ PlaceOf(m, e, i) \in Nat
         /\ Start(m, e) <= PlaceOf(m, e, i) /\ PlaceOf(m, e, i) < Start(m, e + 1)
<1>1. PICK S : S = SlotsOf(m, e)
  OBVIOUS
<1>2. PICK A : A = Ahead(m, e, i)
  OBVIOUS
<1>3. IsFiniteSet(S) /\ Cardinality(S) = Share(m, e) /\ Share(m, e) \in Nat
  BY <1>1, ShareFacts DEF Share, SlotsOf
<1>4. i \in Nat /\ i % CountThreads \in Nat
  BY SlotCounter
<1>5. A \subseteq S /\ i \notin A /\ A \cup {i} \in SUBSET S
  BY <1>1, <1>2, <1>4 DEF Ahead, Small!Before
<1>6. IsFiniteSet(A) /\ Cardinality(A) \in Nat
  BY <1>3, <1>5, FS_Subset, FS_CardinalityType
<1>7. Cardinality(A \cup {i}) = Cardinality(A) + 1
  BY <1>5, <1>6, FS_AddElement
<1>8. Cardinality(A \cup {i}) <= Cardinality(S)
  BY <1>3, <1>5, FS_Subset
<1>9. /\ Start(m, e) \in Nat /\ Start(m, e + 1) = Start(m, e) + Padded(Share(m, e))
      /\ Share(m, e) <= Padded(Share(m, e)) /\ Padded(Share(m, e)) \in Nat
  <2>1. e \in 0 .. NumExperts
    BY Sizes DEF AlignExpert
  <2> QED BY <1>3, <2>1, Layout, PaddedFacts
<1>10. PICK a \in Nat, s \in Nat, n \in Nat, p \in Nat :
         a = Cardinality(A) /\ s = Start(m, e) /\ n = Share(m, e) /\ p = Padded(Share(m, e))
  BY <1>3, <1>6, <1>9
<1>11. a + 1 <= n /\ n <= p
  BY <1>3, <1>7, <1>8, <1>9, <1>10
<1>12. PlaceOf(m, e, i) = s + a
  BY <1>2, <1>10 DEF PlaceOf
<1> QED BY <1>2, <1>6, <1>9, <1>10, <1>11, <1>12

LEMMA AheadGrows ==
  ASSUME RoutedOK, NEW m, NEW e \in AlignExpert, NEW i \in SlotsOf(m, e), NEW j \in SlotsOf(m, e),
         Small!Before(j, i)
  PROVE  PlaceOf(m, e, j) < PlaceOf(m, e, i)
<1>1. PICK A, B : A = Ahead(m, e, j) /\ B = Ahead(m, e, i)
  OBVIOUS
<1>2. \A k \in SlotsOf(m, e) : k \in Nat /\ k % CountThreads \in Nat
  BY SlotCounter
<1>3. j \notin A /\ A \cup {j} \in SUBSET B
  <2>1. ASSUME NEW k \in SlotsOf(m, e), Small!Before(k, j) PROVE Small!Before(k, i)
    BY <1>2, <2>1 DEF Small!Before
  <2>2. j \notin A
    BY <1>1, <1>2 DEF Ahead, Small!Before
  <2> QED BY <1>1, <2>1, <2>2 DEF Ahead
<1>4. IsFiniteSet(A) /\ IsFiniteSet(B) /\ Cardinality(A) \in Nat /\ Cardinality(B) \in Nat
  BY <1>1, PlaceFacts
<1>5. Cardinality(A \cup {j}) = Cardinality(A) + 1 /\ Cardinality(A \cup {j}) <= Cardinality(B)
  BY <1>3, <1>4, FS_AddElement, FS_Subset
<1>6. Start(m, e) \in Nat
  <2>1. e \in 0 .. NumExperts
    BY Sizes DEF AlignExpert
  <2> QED BY <2>1, Layout
<1> QED BY <1>1, <1>4, <1>5, <1>6 DEF PlaceOf

LEMMA PlacesApart ==
  ASSUME RoutedOK, NEW m, NEW d \in AlignExpert, NEW e \in AlignExpert,
         NEW j \in SlotsOf(m, d), NEW i \in SlotsOf(m, e), PlaceOf(m, d, j) = PlaceOf(m, e, i)
  PROVE  d = e /\ j = i
<1>1. d = e
  <2>1. PICK p \in Nat : p = PlaceOf(m, e, i)
    BY PlaceFacts
  <2>2. Start(m, d) <= p /\ p < Start(m, d + 1) /\ Start(m, e) <= p /\ p < Start(m, e + 1)
    BY <2>1, PlaceFacts
  <2> QED BY <2>2, RangesApart
<1>2. j \in SlotsOf(m, e) /\ PlaceOf(m, e, j) = PlaceOf(m, e, i)
  BY <1>1
<1>3. PlaceOf(m, e, i) \in Nat
  BY PlaceFacts
<1>4. ~Small!Before(j, i) /\ ~Small!Before(i, j)
  <2>1. ASSUME Small!Before(j, i) PROVE FALSE
    <3>1. PlaceOf(m, e, j) < PlaceOf(m, e, i)
      BY <1>2, <2>1, AheadGrows
    <3> QED BY <1>2, <1>3, <3>1
  <2>2. ASSUME Small!Before(i, j) PROVE FALSE
    <3>1. PlaceOf(m, e, i) < PlaceOf(m, e, j)
      BY <1>2, <2>2, AheadGrows
    <3> QED BY <1>2, <1>3, <3>1
  <2> QED BY <2>1, <2>2
<1>5. /\ i \in Nat /\ j \in Nat /\ i % CountThreads \in Nat /\ j % CountThreads \in Nat
  BY <1>2, SlotCounter
<1> QED BY <1>1, <1>4, <1>5 DEF Small!Before

(* The slots ahead of one of counter c are those of the counters before    *)
(* it and its own smaller ones.                                            *)
LEMMA AheadSplits ==
  ASSUME RoutedOK, NEW m, NEW e \in AlignExpert, NEW c \in Counter, NEW i \in OwnSlots(m, e, c)
  PROVE  PlaceOf(m, e, i) =
           Start(m, e) + (Cardinality(EarlierSlots(m, e, c)) + Cardinality({j \in OwnSlots(m, e, c) : j < i}))
<1>1. PICK A, B : A = EarlierSlots(m, e, c) /\ B = {j \in OwnSlots(m, e, c) : j < i}
  OBVIOUS
<1>2. IsFiniteSet(SlotsOf(m, e)) /\ c \in Nat /\ i \in SlotsOf(m, e) /\ i % CountThreads = c
  BY ShareFacts, ThreadFacts DEF OwnSlots
<1>3. \A k \in SlotsOf(m, e) : k \in Nat /\ k % CountThreads \in Nat
  BY SlotCounter
<1>4. Ahead(m, e, i) = A \cup B /\ A \cap B = {} /\ A \subseteq SlotsOf(m, e) /\ B \subseteq SlotsOf(m, e)
  BY <1>1, <1>2, <1>3 DEF Ahead, Small!Before, EarlierSlots, OwnSlots
<1>5. IsFiniteSet(A) /\ IsFiniteSet(B)
  BY <1>2, <1>4, FS_Subset
<1>6. Cardinality(A) \in Nat /\ Cardinality(B) \in Nat
  BY <1>5, FS_CardinalityType
<1>7. Cardinality(A \cup B) = Cardinality(A) + Cardinality(B) - Cardinality(A \cap B)
  BY <1>5, FS_Union
<1>8. Cardinality(A \cap B) = 0
  BY <1>4, FS_EmptySet
<1>9. Cardinality(A \cup B) = Cardinality(A) + Cardinality(B)
  BY <1>6, <1>7, <1>8
<1> QED BY <1>1, <1>4, <1>9 DEF PlaceOf

(* Before its first slot a counter names its blocks.                       *)
CounterNames(v, c) == IF Loop(v, c) = c THEN Namings(v.m, v.ids, c, CountThreads) ELSE v.ids

LEMMA CounterNamesKeep ==
  ASSUME RoutedOK, NEW v, NEW w, SmallOK(v), w.m = v.m,
         NEW c \in Counter, At(v, c) = Base + 5, w.ids = CounterNames(v, c),
         \A d \in Counter : d # c => At(w, d) = At(v, d) /\ Loop(w, d) = Loop(v, d)
  PROVE  CounterNamed(w)
<1>0. Base \in Nat /\ CountThreads \in Nat /\ \A d \in Counter : d \in Nat
  BY BaseNat, ThreadFacts
<1> SUFFICES ASSUME NEW d \in Counter, NEW b \in Block, HasNamed(w, d)
             PROVE  /\ b \in Mine(v.m, d) => w.ids[b] = d
                    /\ b \in Rest(v.m, d, CountThreads) => w.ids[b] = Inactive
  BY DEF CounterNamed
<1>1. Loop(v, c) = c => w.ids[b] = (IF b \in Rest(v.m, c, CountThreads) THEN Inactive
                                    ELSE IF b \in Mine(v.m, c) THEN c ELSE v.ids[b])
  BY DEF CounterNames, Namings
<1>2. Loop(v, c) # c => w.ids = v.ids
  BY DEF CounterNames
<1>3. \A t, u \in Nat : b \in Mine(v.m, t) =>
        (b \in Mine(v.m, u) => u = t) /\ b \notin Rest(v.m, u, CountThreads)
  BY <1>0, NamesApart
<1>4. HasNamed(v, d) => /\ b \in Mine(v.m, d) => v.ids[b] = d
                        /\ b \in Rest(v.m, d, CountThreads) => v.ids[b] = Inactive
  BY DEF SmallOK, CounterNamed
<1>5. CASE d = c
  <2>1. CASE Loop(v, c) = c
    BY <1>0, <1>1, <1>3, <1>5, <2>1
  <2>2. CASE Loop(v, c) # c
    <3>1. HasNamed(v, c)
      BY <1>0, <2>2 DEF HasNamed
    <3> QED BY <1>2, <1>4, <1>5, <2>2, <3>1
  <2> QED BY <2>1, <2>2
<1>6. CASE d # c
  <2>1. HasNamed(v, d)
    BY <1>6 DEF HasNamed
  <2> QED BY <1>0, <1>1, <1>2, <1>3, <1>4, <1>6, <2>1
<1> QED BY <1>5, <1>6

LEMMA PlaceEndKeeps ==
  ASSUME RoutedOK, NEW v, NEW w, SmallViewType(v), SmallViewType(w), SmallOK(v),
         NEW l \in Thread, PhaseEnds(v, w, l, Base + 5),
         w.ids = (IF l >= FillThreads THEN CounterNames(v, l - FillThreads) ELSE v.ids),
         w.cnt = v.cnt, w.mask = v.mask, w.row = v.row, w.total = v.total, w.start = v.start
  PROVE  SmallOK(w)
<1>b. Base \in Nat
  BY BaseNat
<1>0. Base \in Nat /\ Base + 5 \in Nat /\ w.m = v.m /\ l \in Nat /\ FillThreads \in Nat
  BY <1>b, ThreadFacts DEF PhaseEnds
<1>1. /\ InStep(w) /\ Looping(w) /\ v.at[l] = Base + 5
      /\ \A j \in Thread : j # l => w.at[j] = v.at[j] /\ w.loop[j] = v.loop[j]
  <2>1. InStep(w) /\ Looping(w)
    BY <1>0, PhaseEnded
  <2>2. \A j \in Thread : j # l => w.at[j] = v.at[j] /\ w.loop[j] = v.loop[j]
    BY <1>0, PhaseEnded
  <2> QED BY <2>1, <2>2 DEF PhaseEnds
<1>2. /\ MaskSet(w) /\ ColumnCounted(w) /\ ColumnSummed(w) /\ StartsSet(w) /\ RowFilled(w) /\ SlotPlaced(w)
      /\ w.ids = v.ids /\ l < FillThreads => CounterNamed(w)
  BY <1>0, PhaseKeeps
<1>3. CounterNamed(w)
  <2>1. CASE l >= FillThreads
    <3>1. PICK c \in Counter : l = LaneOf(c) /\ c = l - FillThreads
      BY <2>1, CounterLane
    <3>2. At(v, c) = Base + 5 /\ w.ids = CounterNames(v, c)
      BY <1>1, <2>1, <3>1 DEF At
    <3>3. \A d \in Counter : d # c => At(w, d) = At(v, d) /\ Loop(w, d) = Loop(v, d)
      BY <1>1, <3>1, ThreadFacts DEF At, Loop
    <3> QED BY <1>0, <3>2, <3>3, CounterNamesKeep
  <2>2. CASE ~(l >= FillThreads)
    <3>1. l < FillThreads
      BY <1>0, <2>2
    <3> QED BY <1>2, <2>2, <3>1
  <2> QED BY <2>1, <2>2
<1> QED BY <1>1, <1>2, <1>3 DEF SmallOK

(* A counter places its next slot, if it is one of the adapter's, and its  *)
(* loop goes on.                                                           *)
PlaceTurns(v, w, c, i0) ==
  /\ At(v, c) = Base + 5 /\ (\A j \in Thread : v.at[j] >= Base + 5) /\ i0 = Loop(v, c) /\ i0 < Numel
  /\ w.m = v.m /\ w.at = v.at /\ w.loop = [v.loop EXCEPT ![LaneOf(c)] = @ + CountThreads]
  /\ w.ids = CounterNames(v, c) /\ w.mask = v.mask /\ w.total = v.total /\ w.start = v.start
Wants(v, i0) == Valid(i0) /\ v.mask[i0 \div TopkNum] # 0

LEMMA PlaceTurned ==
  ASSUME RoutedOK, NEW v, NEW w, SmallViewType(v), SmallViewType(w), SmallOK(v),
         NEW c \in Counter, NEW i0 \in Nat, PlaceTurns(v, w, c, i0)
  PROVE  /\ InStep(w) /\ Looping(w) /\ MaskSet(w) /\ ColumnCounted(w) /\ StartsSet(w) /\ CounterNamed(w)
         /\ i0 % CountThreads = c /\ i0 \in AlignSlot
         /\ \A e \in AlignExpert : i0 \in SlotsOf(v.m, e) <=> Wants(v, i0) /\ ServedBy(i0) = e
         /\ \A e \in AlignExpert : At(v, e) >= Base + 4
         /\ \A e \in 0 .. NumExperts : v.start[e] = Start(v.m, e)
         /\ \A j \in Thread : w.at[j] >= Base + 1 /\ v.at[j] >= Base + 1
         /\ \A e \in AlignExpert : \A i \in SlotsOf(v.m, e) :
              /\ IsPlaced(w, i) <=> IsPlaced(v, i) \/ i = i0
              /\ i % CountThreads = c => (IsPlaced(v, i) <=> i < i0)
<1>b. Base \in Nat
  BY BaseNat
<1>t. /\ CountThreads \in Nat \ {0} /\ 0 \in Thread /\ 0 \in Counter /\ c \in Nat
      /\ \A e \in AlignExpert : e \in Counter
  BY ThreadFacts
<1>l. PICK l \in Thread : l = LaneOf(c)
  BY ThreadFacts
<1>d. \A d \in Counter : LaneOf(d) \in Thread /\ (d # c => LaneOf(d) # l)
  BY <1>l, ThreadFacts
<1>0. /\ v.at[l] = Base + 5 /\ v.loop[l] = i0 /\ i0 < Numel /\ w.m = v.m /\ w.at = v.at
      /\ w.loop = [v.loop EXCEPT ![l] = @ + CountThreads] /\ \A j \in Thread : v.at[j] >= Base + 5
  BY <1>l DEF PlaceTurns, At, Loop
<1>1. \A j \in Thread : v.at[j] \in Nat /\ Base + 5 <= v.at[j] /\ v.at[j] <= Base + 6
  BY <1>0, <1>b DEF SmallViewType, SmallOK, InStep
<1>2. InStep(w)
  BY <1>0 DEF SmallOK, InStep
<1>3. i0 % CountThreads = c /\ (i0 + CountThreads) % CountThreads = c
  BY <1>t, StrideMod DEF SmallOK, Looping, PlaceTurns
<1>4. /\ w.loop[l] = i0 + CountThreads
      /\ \A j \in Thread : j # l => w.loop[j] = v.loop[j]
  BY <1>0 DEF SmallViewType
<1>5. Looping(w)
  <2> SUFFICES ASSUME NEW d \in Counter PROVE Loop(w, d) \in Nat /\ Loop(w, d) % CountThreads = d
    BY DEF Looping
  <2>1. CASE d = c
    BY <1>3, <1>4, <1>t, <1>l, <2>1 DEF Loop
  <2>2. CASE d # c
    BY <1>4, <1>d, <2>2 DEF Loop, SmallOK, Looping
  <2> QED BY <2>1, <2>2
<1>6. MaskSet(w) /\ v.mask = Wanted(v.m)
  <2>1. v.at[0] >= Base
    BY <1>1, <1>b, <1>t
  <2> QED BY <2>1 DEF SmallOK, MaskSet, PlaceTurns
<1>7. \A d \in Counter : /\ At(v, d) \in Nat /\ At(w, d) = At(v, d) /\ Base + 5 <= At(v, d) /\ At(v, d) <= Base + 6
                         /\ At(v, d) >= Base + 4 /\ ~(At(v, d) <= Base + 3)
  <2> SUFFICES ASSUME NEW d \in Counter
               PROVE  /\ At(v, d) \in Nat /\ At(w, d) = At(v, d) /\ Base + 5 <= At(v, d) /\ At(v, d) <= Base + 6
                      /\ At(v, d) >= Base + 4 /\ ~(At(v, d) <= Base + 3)
    OBVIOUS
  <2>1. PICK k \in Thread : k = LaneOf(d)
    BY <1>d
  <2> QED BY <1>0, <1>1, <1>b, <2>1 DEF At
<1>8. ColumnCounted(w)
  BY <1>7, <1>t DEF ColumnCounted
<1>9. StartsSet(w) /\ \A e \in 0 .. NumExperts : v.start[e] = Start(v.m, e)
  <2>1. At(v, 0) >= Base + 5
    BY <1>7, <1>t
  <2> QED BY <2>1 DEF SmallOK, StartsSet, PlaceTurns
<1>10. CounterNamed(w)
  <2>1. \A d \in Counter : d # c => At(w, d) = At(v, d) /\ Loop(w, d) = Loop(v, d)
    BY <1>4, <1>7, <1>d DEF Loop
  <2> QED BY <2>1, CounterNamesKeep DEF PlaceTurns
<1>11. i0 \in AlignSlot /\ i0 \div TopkNum \in AlignToken
  <2>1. i0 \in AlignSlot
    BY <1>0, Sizes DEF AlignSlot
  <2> QED BY <2>1, SlotToken
<1>12. \A e \in AlignExpert : i0 \in SlotsOf(v.m, e) <=> Wants(v, i0) /\ ServedBy(i0) = e
  <2> SUFFICES ASSUME NEW e \in AlignExpert
               PROVE  i0 \in SlotsOf(v.m, e) <=> Wants(v, i0) /\ ServedBy(i0) = e
    OBVIOUS
  <2>1. i0 \in SlotsOf(v.m, e) <=> ServedBy(i0) = e /\ Wanted(v.m)[i0 \div TopkNum] = 1
    BY <1>11, ServedFacts
  <2>2. Wanted(v.m)[i0 \div TopkNum] \in {0, 1} /\ (Valid(i0) <=> ServedBy(i0) \in AlignExpert)
    BY <1>11, ServedFacts
  <2> QED BY <1>6, <2>1, <2>2 DEF Wants
<1>13. \A j \in Thread : w.at[j] >= Base + 1 /\ v.at[j] >= Base + 1
  BY <1>0, <1>1, <1>b
<1>14. ASSUME NEW e \in AlignExpert, NEW i \in SlotsOf(v.m, e)
       PROVE  /\ IsPlaced(w, i) <=> IsPlaced(v, i) \/ i = i0
              /\ i % CountThreads = c => (IsPlaced(v, i) <=> i < i0)
  <2>1. PICK d \in Counter : d = i % CountThreads /\ i \in Nat
    BY SlotCounter
  <2>2. CASE d = c
    <3>1. PICK n \in Nat : n = i0 + CountThreads
      BY <1>t
    <3>2. At(v, c) = Base + 5 /\ At(w, c) = Base + 5 /\ Loop(v, c) = i0 /\ Loop(w, c) = n
      BY <1>0, <1>4, <1>l, <3>1 DEF At, Loop
    <3>3. (IsPlaced(v, i) <=> i < i0) /\ (IsPlaced(w, i) <=> i < n)
      BY <1>b, <2>1, <2>2, <3>2 DEF IsPlaced
    <3>4. i < n <=> i < i0 \/ i = i0
      <4>1. CASE i < n /\ i > i0
        <5>1. i0 % CountThreads = i % CountThreads /\ i0 <= i /\ i < i0 + CountThreads
          BY <1>3, <2>1, <2>2, <3>1, <4>1
        <5>2. i0 = i
          BY <1>t, <2>1, <5>1, NearMod
        <5> QED BY <2>1, <4>1, <5>2
      <4>2. CASE ~(i < n /\ i > i0)
        BY <1>t, <2>1, <3>1, <4>2
      <4> QED BY <4>1, <4>2
    <3> QED BY <3>3, <3>4
  <2>3. CASE d # c
    <3>1. At(w, d) = At(v, d) /\ Loop(w, d) = Loop(v, d) /\ i # i0
      BY <1>3, <1>4, <1>7, <1>d, <2>1, <2>3 DEF Loop
    <3> QED BY <2>1, <2>3, <3>1 DEF IsPlaced
  <2> QED BY <2>2, <2>3
<1>15. \A e \in AlignExpert : At(v, e) >= Base + 4
  BY <1>7, <1>t
<1> QED BY <1>2, <1>3, <1>5, <1>6, <1>8, <1>9, <1>10, <1>11, <1>12, <1>13, <1>14, <1>15

LEMMA PlacesSlotKeeps ==
  ASSUME RoutedOK, NEW v, NEW w, SmallViewType(v), SmallViewType(w), SmallOK(v),
         NEW c \in Counter, NEW i0 \in Nat, PlaceTurns(v, w, c, i0), Wants(v, i0),
         w.row = [v.row EXCEPT ![v.cnt[c][ServedBy(i0)] + v.start[ServedBy(i0)]] = i0],
         w.cnt = [v.cnt EXCEPT ![c][ServedBy(i0)] = @ + 1]
  PROVE  SmallOK(w)
<1>1. /\ InStep(w) /\ Looping(w) /\ MaskSet(w) /\ ColumnCounted(w) /\ StartsSet(w) /\ CounterNamed(w)
      /\ i0 % CountThreads = c /\ i0 \in AlignSlot
      /\ \A e \in AlignExpert : At(v, e) >= Base + 4
      /\ \A e \in 0 .. NumExperts : v.start[e] = Start(v.m, e)
      /\ \A j \in Thread : w.at[j] >= Base + 1 /\ v.at[j] >= Base + 1
  BY PlaceTurned
<1>2. \A e \in AlignExpert : \A i \in SlotsOf(v.m, e) :
        /\ IsPlaced(w, i) <=> IsPlaced(v, i) \/ i = i0
        /\ i % CountThreads = c => (IsPlaced(v, i) <=> i < i0)
  BY PlaceTurned
<1>3. PICK e0 \in AlignExpert : e0 = ServedBy(i0) /\ i0 \in SlotsOf(v.m, e0)
  <2>1. ServedBy(i0) \in AlignExpert
    BY <1>1, ServedFacts DEF Wants
  <2> QED BY <2>1, PlaceTurned
<1>t. /\ c \in Nat /\ c \in 0 .. CountThreads /\ e0 \in 0 .. NumExperts
      /\ w.m = v.m /\ v.cnt \in [0 .. CountThreads -> [AlignExpert -> Int]] /\ v.row \in [Position -> Int]
  <2>1. e0 \in 0 .. NumExperts
    BY Sizes DEF AlignExpert
  <2> QED BY <2>1, ThreadFacts DEF PlaceTurns, SmallViewType
<1>4. PICK p \in Nat : p = PlaceOf(v.m, e0, i0)
  BY <1>3, PlaceFacts
<1>5. p \in Position
  BY <1>3, <1>4, PlaceFacts, PositionOf
<1>6. PlacedBy(v, e0, c) = {j \in OwnSlots(v.m, e0, c) : j < i0} /\ i0 \in OwnSlots(v.m, e0, c)
  BY <1>1, <1>2, <1>3 DEF PlacedBy, OwnSlots
<1>7. IsFiniteSet(PlacedBy(v, e0, c)) /\ Cardinality(PlacedBy(v, e0, c)) \in Nat
  <2>1. IsFiniteSet(PlacedBy(v, e0, c))
    BY ShareFacts, FS_Subset DEF PlacedBy, OwnSlots
  <2> QED BY <2>1, FS_CardinalityType
<1>8. v.cnt[c][e0] = Cardinality(EarlierSlots(v.m, e0, c)) + Cardinality(PlacedBy(v, e0, c))
  BY <1>1, <1>t DEF SmallOK, ColumnSummed
<1>9. v.cnt[c][e0] + v.start[e0] = p
  <2>1. p = Start(v.m, e0) + v.cnt[c][e0]
    BY <1>4, <1>6, <1>8, AheadSplits
  <2>2. v.start[e0] = Start(v.m, e0) /\ Start(v.m, e0) \in Nat /\ v.cnt[c][e0] \in Int
    <3>1. Start(v.m, e0) \in Nat
      BY <1>t, Layout
    <3>2. v.cnt[c] \in [AlignExpert -> Int]
      BY <1>t
    <3> QED BY <1>1, <1>t, <3>1, <3>2
  <2> QED BY <2>1, <2>2
<1>10. w.row = [v.row EXCEPT ![p] = i0] /\ w.cnt = [v.cnt EXCEPT ![c][e0] = @ + 1]
  BY <1>3, <1>9
<1>11. ColumnSummed(w)
  <2> SUFFICES ASSUME NEW e \in AlignExpert, NEW r \in 0 .. CountThreads
               PROVE  w.cnt[r][e] = Cardinality(EarlierSlots(v.m, e, r)) + Cardinality(PlacedBy(w, e, r))
    BY <1>t DEF ColumnSummed
  <2>1. v.cnt[r][e] = Cardinality(EarlierSlots(v.m, e, r)) + Cardinality(PlacedBy(v, e, r))
    BY <1>1 DEF SmallOK, ColumnSummed
  <2>2. CASE e = e0 /\ r = c
    <3>1. PlacedBy(w, e0, c) = PlacedBy(v, e0, c) \cup {i0} /\ i0 \notin PlacedBy(v, e0, c)
      <4>1. i0 \notin PlacedBy(v, e0, c)
        BY <1>6
      <4>2. PlacedBy(w, e0, c) = PlacedBy(v, e0, c) \cup {i0}
        BY <1>2, <1>6, <1>t DEF PlacedBy, OwnSlots
      <4> QED BY <4>1, <4>2
    <3>2. Cardinality(PlacedBy(w, e0, c)) = Cardinality(PlacedBy(v, e0, c)) + 1
      <4>1. PICK P : P = PlacedBy(v, e0, c)
        OBVIOUS
      <4>2. Cardinality(P \cup {i0}) = Cardinality(P) + 1
        BY <1>7, <3>1, <4>1, FS_AddElement
      <4> QED BY <3>1, <4>1, <4>2
    <3>3. w.cnt[c][e0] = v.cnt[c][e0] + 1
      <4>1. v.cnt[c] \in [AlignExpert -> Int]
        BY <1>t
      <4>2. w.cnt[c] = [v.cnt[c] EXCEPT ![e0] = @ + 1]
        BY <1>10, <1>t
      <4> QED BY <4>1, <4>2
    <3>4. Cardinality(EarlierSlots(v.m, e0, c)) \in Nat
      BY OwnAndEarlier
    <3> QED BY <1>7, <2>1, <2>2, <3>2, <3>3, <3>4
  <2>3. CASE ~(e = e0 /\ r = c)
    <3>1. PlacedBy(w, e, r) = PlacedBy(v, e, r)
      <4>1. i0 \notin OwnSlots(v.m, e, r)
        <5>1. i0 \in SlotsOf(v.m, e) => ServedBy(i0) = e
          BY <1>1, ServedFacts
        <5> QED BY <1>1, <1>3, <2>3, <5>1 DEF OwnSlots
      <4> QED BY <1>2, <1>t, <4>1 DEF PlacedBy, OwnSlots
    <3>2. w.cnt[r][e] = v.cnt[r][e]
      BY <1>10, <1>t, <2>3
    <3> QED BY <2>1, <3>1, <3>2
  <2> QED BY <2>2, <2>3
<1>12. ~IsPlaced(v, i0) /\ IsPlaced(w, i0)
  BY <1>1, <1>2, <1>3
<1>13. RowFilled(w)
  <2> SUFFICES ASSUME NEW q \in Position
               PROVE  \/ w.row[q] = Numel
                      \/ \E e \in AlignExpert : /\ w.row[q] \in SlotsOf(v.m, e) /\ IsPlaced(w, w.row[q])
                                                /\ q = PlaceOf(v.m, e, w.row[q])
    BY <1>t DEF RowFilled
  <2>1. CASE q = p
    <3>1. w.row[q] = i0
      BY <1>10, <1>t, <2>1
    <3> QED BY <1>3, <1>4, <1>12, <2>1, <3>1
  <2>2. CASE q # p
    <3>1. w.row[q] = v.row[q]
      BY <1>10, <1>t, <2>2
    <3>2. v.at[q % FillThreads] >= Base + 1
      <4>1. q % FillThreads \in Thread
        BY ThreadFacts DEF Position
      <4> QED BY <1>1, <4>1
    <3>3. \/ v.row[q] = Numel
          \/ \E e \in AlignExpert : /\ v.row[q] \in SlotsOf(v.m, e) /\ IsPlaced(v, v.row[q])
                                    /\ q = PlaceOf(v.m, e, v.row[q])
      BY <3>2 DEF SmallOK, RowFilled
    <3> QED BY <1>2, <3>1, <3>3
  <2> QED BY <2>1, <2>2
<1>14. SlotPlaced(w)
  <2> SUFFICES ASSUME NEW e \in AlignExpert, NEW i \in SlotsOf(v.m, e), IsPlaced(w, i)
               PROVE  w.row[PlaceOf(v.m, e, i)] = i
    BY <1>t DEF SlotPlaced
  <2>1. PICK q \in Nat : q = PlaceOf(v.m, e, i)
    BY PlaceFacts
  <2>2. q \in Position
    BY <2>1, PlaceFacts, PositionOf
  <2>3. CASE i = i0
    <3>1. e = e0
      BY <1>1, <1>3, <2>3, ServedFacts
    <3> QED BY <1>4, <1>5, <1>10, <1>t, <2>1, <2>3, <3>1
  <2>4. CASE i # i0
    <3>1. IsPlaced(v, i)
      BY <1>2, <2>4
    <3>2. v.row[q] = i
      BY <2>1, <3>1 DEF SmallOK, SlotPlaced
    <3>3. q # p
      BY <1>3, <1>4, <2>1, <2>4, PlacesApart
    <3> QED BY <1>10, <1>t, <2>1, <2>2, <3>2, <3>3
  <2> QED BY <2>3, <2>4
<1> QED BY <1>1, <1>11, <1>13, <1>14 DEF SmallOK

LEMMA PlacesNoneKeeps ==
  ASSUME RoutedOK, NEW v, NEW w, SmallViewType(v), SmallViewType(w), SmallOK(v),
         NEW c \in Counter, NEW i0 \in Nat, PlaceTurns(v, w, c, i0), ~Wants(v, i0),
         w.row = v.row, w.cnt = v.cnt
  PROVE  SmallOK(w)
<1>1. /\ InStep(w) /\ Looping(w) /\ MaskSet(w) /\ ColumnCounted(w) /\ StartsSet(w) /\ CounterNamed(w)
      /\ \A e \in AlignExpert : At(v, e) >= Base + 4
      /\ \A e \in AlignExpert : i0 \notin SlotsOf(v.m, e)
      /\ \A j \in Thread : w.at[j] >= Base + 1 /\ v.at[j] >= Base + 1
  BY PlaceTurned
<1>2. \A e \in AlignExpert : \A i \in SlotsOf(v.m, e) : IsPlaced(w, i) <=> IsPlaced(v, i)
  <2> SUFFICES ASSUME NEW e \in AlignExpert, NEW i \in SlotsOf(v.m, e)
               PROVE  IsPlaced(w, i) <=> IsPlaced(v, i)
    OBVIOUS
  <2>1. IsPlaced(w, i) <=> IsPlaced(v, i) \/ i = i0
    BY PlaceTurned
  <2> QED BY <1>1, <2>1
<1>3. w.m = v.m
  BY DEF PlaceTurns
<1>4. ColumnSummed(w)
  <2> SUFFICES ASSUME NEW e \in AlignExpert, NEW r \in 0 .. CountThreads
               PROVE  v.cnt[r][e] = Cardinality(EarlierSlots(v.m, e, r)) + Cardinality(PlacedBy(w, e, r))
    BY <1>3 DEF ColumnSummed
  <2>1. v.cnt[r][e] = Cardinality(EarlierSlots(v.m, e, r)) + Cardinality(PlacedBy(v, e, r))
    BY <1>1 DEF SmallOK, ColumnSummed
  <2>2. PlacedBy(w, e, r) = PlacedBy(v, e, r)
    BY <1>2, <1>3 DEF PlacedBy, OwnSlots
  <2> QED BY <2>1, <2>2
<1>5. RowFilled(w)
  <2> SUFFICES ASSUME NEW q \in Position
               PROVE  \/ v.row[q] = Numel
                      \/ \E e \in AlignExpert : /\ v.row[q] \in SlotsOf(v.m, e) /\ IsPlaced(w, v.row[q])
                                                /\ q = PlaceOf(v.m, e, v.row[q])
    BY <1>3 DEF RowFilled
  <2>1. v.at[q % FillThreads] >= Base + 1
    <3>1. q % FillThreads \in Thread
      BY ThreadFacts DEF Position
    <3> QED BY <1>1, <3>1
  <2> QED BY <1>2, <2>1 DEF SmallOK, RowFilled
<1>6. SlotPlaced(w)
  BY <1>2, <1>3 DEF SmallOK, SlotPlaced
<1> QED BY <1>1, <1>4, <1>5, <1>6 DEF SmallOK

-----------------------------------------------------------------------------
(* The steps of the small form, as steps from the view v of an entry to    *)
(* the view w after it.                                                    *)
SmallElsewhere(x) ==
  \A y \in Entry : y # x =>
    /\ smallPhase'[y] = smallPhase[y] /\ smallNext'[y] = smallNext[y]
    /\ table'[y] = table[y] /\ smallCumsum'[y] = smallCumsum[y]
SmallStepped(x) ==
  /\ SmallType' /\ OutputType' /\ Elsewhere(x) /\ SmallElsewhere(x)
  /\ SmallOK(SmallView(x))'

SmallSeen(x, v) ==
  /\ v = SmallView(x) /\ SmallViewType(v)
  /\ v.m = ModelOf(x) /\ v.at = smallPhase[x] /\ v.loop = smallNext[x] /\ v.cnt = table[x]
  /\ v.start = smallCumsum[x] /\ v.mask = mask[v.m] /\ v.total = total[v.m]
  /\ v.row = sorted[v.m] /\ v.ids = expertIds[v.m]
  /\ smallPhase = [smallPhase EXCEPT ![x] = v.at] /\ smallNext = [smallNext EXCEPT ![x] = v.loop]
  /\ table = [table EXCEPT ![x] = v.cnt] /\ smallCumsum = [smallCumsum EXCEPT ![x] = v.start]
  /\ mask = [mask EXCEPT ![v.m] = v.mask] /\ total = [total EXCEPT ![v.m] = v.total]
  /\ sorted = [sorted EXCEPT ![v.m] = v.row] /\ expertIds = [expertIds EXCEPT ![v.m] = v.ids]

Becomes(x, w) ==
  /\ w = [m |-> w.m, at |-> w.at, loop |-> w.loop, cnt |-> w.cnt, start |-> w.start,
          mask |-> w.mask, total |-> w.total, row |-> w.row, ids |-> w.ids]
  /\ w.m = ModelOf(x) /\ SmallViewType(w) /\ routed' = routed
  /\ smallPhase' = [smallPhase EXCEPT ![x] = w.at] /\ smallNext' = [smallNext EXCEPT ![x] = w.loop]
  /\ table' = [table EXCEPT ![x] = w.cnt] /\ smallCumsum' = [smallCumsum EXCEPT ![x] = w.start]
  /\ mask' = [mask EXCEPT ![w.m] = w.mask] /\ total' = [total EXCEPT ![w.m] = w.total]
  /\ sorted' = [sorted EXCEPT ![w.m] = w.row] /\ expertIds' = [expertIds EXCEPT ![w.m] = w.ids]

LEMMA SmallSees ==
  ASSUME RoutedOK, SmallType, OutputType, NEW x, Live(x)
  PROVE  \E v : SmallSeen(x, v)
<1>1. x \in Entry /\ ModelOf(x) \in Model
  BY LiveModel
<1>2. PICK v : v = SmallView(x)
  OBVIOUS
<1>3. /\ v.m = ModelOf(x) /\ v.at = smallPhase[x] /\ v.loop = smallNext[x] /\ v.cnt = table[x]
      /\ v.start = smallCumsum[x] /\ v.mask = mask[v.m] /\ v.total = total[v.m]
      /\ v.row = sorted[v.m] /\ v.ids = expertIds[v.m]
  BY <1>2 DEF SmallView
<1>4. SmallViewType(v)
  BY <1>1, <1>3 DEF SmallViewType, SmallType, OutputType
<1>5. /\ smallPhase = [smallPhase EXCEPT ![x] = v.at] /\ smallNext = [smallNext EXCEPT ![x] = v.loop]
      /\ table = [table EXCEPT ![x] = v.cnt] /\ smallCumsum = [smallCumsum EXCEPT ![x] = v.start]
  BY <1>1, <1>3 DEF SmallType
<1>6. /\ mask = [mask EXCEPT ![v.m] = v.mask] /\ total = [total EXCEPT ![v.m] = v.total]
      /\ sorted = [sorted EXCEPT ![v.m] = v.row] /\ expertIds = [expertIds EXCEPT ![v.m] = v.ids]
  BY <1>1, <1>3 DEF OutputType
<1> QED BY <1>2, <1>3, <1>4, <1>5, <1>6 DEF SmallSeen

LEMMA SmallStays ==
  ASSUME routed' = routed, NEW v
  PROVE  SmallOK(v)' <=> SmallOK(v)
<1>1. /\ Base' = Base /\ Inactive' = Inactive
      /\ \A m, e : SlotsOf(m, e)' = SlotsOf(m, e) /\ Start(m, e)' = Start(m, e)
      /\ \A m : Wanted(m)' = Wanted(m)
  BY InputsStay
<1>2. /\ \A m, e, c : OwnSlots(m, e, c)' = OwnSlots(m, e, c) /\ EarlierSlots(m, e, c)' = EarlierSlots(m, e, c)
      /\ \A m, e, i : Ahead(m, e, i)' = Ahead(m, e, i)
  BY <1>1 DEF OwnSlots, EarlierSlots, Ahead, Small!Before
<1>3. /\ \A i : IsPlaced(v, i)' <=> IsPlaced(v, i)
      /\ \A c : HasNamed(v, c)' <=> HasNamed(v, c)
  BY <1>1 DEF IsPlaced, HasNamed, At, Loop
<1>4. /\ \A m, e, i : PlaceOf(m, e, i)' = PlaceOf(m, e, i)
      /\ \A e, c : CountedBy(v, e, c)' = CountedBy(v, e, c) /\ PlacedBy(v, e, c)' = PlacedBy(v, e, c)
  BY <1>1, <1>2, <1>3 DEF PlaceOf, CountedBy, PlacedBy, At, Loop
<1>5. \A m, k : Mine(m, k)' = Mine(m, k) /\ Rest(m, k, CountThreads)' = Rest(m, k, CountThreads)
  BY <1>1 DEF Mine, Rest
<1>6. (InStep(v)' <=> InStep(v)) /\ (Looping(v)' <=> Looping(v)) /\ (MaskSet(v)' <=> MaskSet(v))
  BY <1>1 DEF InStep, Looping, MaskSet, Loop
<1>7. (ColumnCounted(v)' <=> ColumnCounted(v)) /\ (ColumnSummed(v)' <=> ColumnSummed(v))
  BY <1>1, <1>2, <1>4 DEF ColumnCounted, ColumnSummed, At
<1>8. (StartsSet(v)' <=> StartsSet(v)) /\ (CounterNamed(v)' <=> CounterNamed(v))
  BY <1>1, <1>3, <1>5 DEF StartsSet, CounterNamed, At
<1>9. (RowFilled(v)' <=> RowFilled(v)) /\ (SlotPlaced(v)' <=> SlotPlaced(v))
  BY <1>1, <1>3, <1>4 DEF RowFilled, SlotPlaced
<1> QED BY <1>6, <1>7, <1>8, <1>9 DEF SmallOK

LEMMA SmallBecomes ==
  ASSUME RoutedOK, SmallType, OutputType, NEW x, Live(x), NEW w, Becomes(x, w), SmallOK(w)
  PROVE  SmallStepped(x)
<1>1. x \in Entry /\ ModelOf(x) \in Model /\ w.m = ModelOf(x) /\ routed' = routed
  BY LiveModel DEF Becomes
<1>2. ModelOf(x)' = ModelOf(x)
  BY <1>1, InputsStay
<1>3. /\ smallPhase'[x] = w.at /\ smallNext'[x] = w.loop /\ table'[x] = w.cnt /\ smallCumsum'[x] = w.start
      /\ SmallElsewhere(x)
  BY <1>1 DEF Becomes, SmallType, SmallElsewhere
<1>4. /\ mask'[w.m] = w.mask /\ total'[w.m] = w.total /\ sorted'[w.m] = w.row /\ expertIds'[w.m] = w.ids
      /\ Elsewhere(x)
  BY <1>1 DEF Becomes, OutputType, Elsewhere
<1>5. SmallType'
  BY <1>1 DEF Becomes, SmallType, SmallViewType
<1>6. OutputType'
  BY <1>1 DEF Becomes, OutputType, SmallViewType
<1>7. SmallView(x)' = w
  BY <1>1, <1>2, <1>3, <1>4 DEF Becomes, SmallView
<1>8. SmallOK(w)'
  BY <1>1, SmallStays
<1>9. SmallOK(SmallView(x))'
  BY <1>7, <1>8
<1> QED BY <1>3, <1>4, <1>5, <1>6, <1>9 DEF SmallStepped

(* The phases, by number.                                                  *)
LEMMA SmallNumbered ==
  ASSUME RoutedOK
  PROVE  /\ Base \in {0, 1} /\ (Base = 1 <=> routed.multi)
         /\ Len(Small!Phases) = Base + 6
         /\ \A k \in Nat : k < Base + 6 =>
              /\ Small!Phases[k + 1] = "mask" <=> (Base = 1 /\ k = 0)
              /\ Small!Phases[k + 1] = "fill" <=> k = Base
              /\ Small!Phases[k + 1] = "clear" <=> k = Base + 1
              /\ Small!Phases[k + 1] = "count" <=> k = Base + 2
              /\ Small!Phases[k + 1] = "prefix" <=> k = Base + 3
              /\ Small!Phases[k + 1] = "total" <=> k = Base + 4
              /\ Small!Phases[k + 1] = "place" <=> k = Base + 5
<1>1. PICK b \in BOOLEAN : b = routed.multi
  BY DEF RoutedOK
<1>3. CASE b = TRUE
  <2>1. Small!Phases = <<"mask">> \o <<"fill", "clear", "count", "prefix", "total", "place">>
    BY <1>1, <1>3 DEF Small!Phases
  <2>2. /\ Len(Small!Phases) = 7 /\ Small!Phases[1] = "mask" /\ Small!Phases[2] = "fill" /\ Small!Phases[3] = "clear"
        /\ Small!Phases[4] = "count" /\ Small!Phases[5] = "prefix" /\ Small!Phases[6] = "total"
        /\ Small!Phases[7] = "place"
    <3>1. PICK p : p = Small!Phases
      OBVIOUS
    <3> QED BY <2>1, <3>1
  <2>3. Base = 1
    BY <1>1, <1>3 DEF Base
  <2> QED BY <1>1, <1>3, <2>2, <2>3
<1>4. CASE b = FALSE
  <2>1. Small!Phases = <<>> \o <<"fill", "clear", "count", "prefix", "total", "place">>
    BY <1>1, <1>4 DEF Small!Phases
  <2>2. /\ Len(Small!Phases) = 6 /\ Small!Phases[1] = "fill" /\ Small!Phases[2] = "clear" /\ Small!Phases[3] = "count"
        /\ Small!Phases[4] = "prefix" /\ Small!Phases[5] = "total" /\ Small!Phases[6] = "place"
    <3>1. PICK p : p = Small!Phases
      OBVIOUS
    <3> QED BY <2>1, <3>1
  <2>3. Base = 0
    BY <1>1, <1>4 DEF Base
  <2> QED BY <1>1, <1>4, <2>2, <2>3
<1> QED BY <1>1, <1>3, <1>4

LEMMA SmallReached ==
  ASSUME RoutedOK, NEW x \in Entry, NEW v, SmallSeen(x, v), NEW l \in Thread, NEW name, Small!At(x, l, name)
  PROVE  /\ v.at[l] \in Nat /\ v.at[l] < Base + 6 /\ Small!Phases[v.at[l] + 1] = name
         /\ \A j \in Thread : v.at[j] >= v.at[l]
<1>1. Small!Lane = Thread
  BY DEF Small!Lane, Thread
<1> QED BY <1>1, SmallNumbered DEF Small!At, SmallSeen, SmallViewType

Puts(x, v, c, s, k, t, r, b) ==
  /\ routed' = routed
  /\ table' = [table EXCEPT ![x] = c] /\ smallCumsum' = [smallCumsum EXCEPT ![x] = s]
  /\ mask' = [mask EXCEPT ![v.m] = k] /\ total' = [total EXCEPT ![v.m] = t]
  /\ sorted' = [sorted EXCEPT ![v.m] = r] /\ expertIds' = [expertIds EXCEPT ![v.m] = b]
  /\ c \in [0 .. CountThreads -> [AlignExpert -> Int]] /\ s \in [0 .. NumExperts -> Int]
  /\ k \in [AlignToken -> Int] /\ t \in Int /\ r \in [Position -> Int] /\ b \in [Block -> Int]

(* A work-item may end phase k: every other has got there, and where the   *)
(* phase is a loop, its own is over.                                       *)
MayEnd(v, l, k) ==
  /\ v.at[l] = k /\ (\A j \in Thread : v.at[j] >= k) /\ k < Base + 6
  /\ k \in {Base + 2, Base + 5} /\ l >= FillThreads => v.loop[l] >= Numel

LEMMA SmallEnding ==
  ASSUME RoutedOK, SmallType, OutputType, NEW x, Live(x), NEW v, SmallSeen(x, v),
         NEW l \in Thread, NEW k \in Nat, MayEnd(v, l, k), Small!EndPhase(x, l),
         NEW c, NEW s, NEW a, NEW t, NEW r, NEW b, Puts(x, v, c, s, a, t, r, b)
  PROVE  \E w : /\ PhaseEnds(v, w, l, k) /\ Becomes(x, w) /\ SmallViewType(w)
                /\ w.m = v.m /\ w.cnt = c /\ w.start = s /\ w.mask = a /\ w.total = t /\ w.row = r /\ w.ids = b
<1>1. x \in Entry /\ ModelOf(x) \in Model /\ l \in Nat /\ FillThreads \in Nat
  BY LiveModel, ThreadFacts
<1>2. PICK f, g : f = Bumped(v.at, l) /\ g = [v.loop EXCEPT ![l] = l - FillThreads]
  OBVIOUS
<1>3. v.at \in [Thread -> Nat] /\ v.loop \in [Thread -> Int] /\ v.m \in Model /\ v.m = ModelOf(x)
  BY DEF SmallSeen, SmallViewType
<1>4. f \in [Thread -> Nat] /\ g \in [Thread -> Int]
  <2>1. l - FillThreads \in Int
    BY <1>1
  <2> QED BY <1>2, <1>3, <2>1 DEF Bumped
<1>5. /\ smallPhase' = [smallPhase EXCEPT ![x] = f]
      /\ smallNext' = [smallNext EXCEPT ![x] = g]
  <2>1. smallPhase' = [smallPhase EXCEPT ![x][l] = @ + 1] /\ smallNext' = [smallNext EXCEPT ![x][l] = l - FillThreads]
    BY DEF Small!EndPhase, Small!Tid
  <2>2. v.at = smallPhase[x] /\ v.loop = smallNext[x]
    BY DEF SmallSeen
  <2> QED BY <1>1, <1>2, <2>1, <2>2 DEF SmallType, Bumped
<1>6. PICK w : w = [m |-> v.m, at |-> f, loop |-> g, cnt |-> c, start |-> s,
                    mask |-> a, total |-> t, row |-> r, ids |-> b]
  OBVIOUS
<1>7. /\ w.m = v.m /\ w.at = f /\ w.loop = g /\ w.cnt = c /\ w.start = s
      /\ w.mask = a /\ w.total = t /\ w.row = r /\ w.ids = b
  BY <1>6
<1>8. SmallViewType(w)
  BY <1>3, <1>4, <1>7 DEF SmallViewType, Puts
<1>9. Becomes(x, w)
  BY <1>3, <1>5, <1>6, <1>7, <1>8 DEF Becomes, Puts
<1>10. PhaseEnds(v, w, l, k)
  BY <1>2, <1>7 DEF PhaseEnds, MayEnd
<1> QED BY <1>7, <1>8, <1>9, <1>10

LEMMA SmallMaskKept ==
  ASSUME RoutedOK, SmallType, OutputType, NEW x, Live(x), SmallOK(SmallView(x)), NEW l \in Thread,
         Small!Mask(x, l)
  PROVE  SmallStepped(x)
<1>1. x \in Entry /\ ModelOf(x) \in Model /\ Base \in Nat /\ Base + 6 \in Nat /\ 0 < Base + 6
  BY LiveModel, BaseNat
<1>2. PICK v : SmallSeen(x, v)
  BY SmallSees
<1>3. SmallOK(v) /\ SmallViewType(v) /\ v.m = ModelOf(x)
  BY <1>2 DEF SmallSeen
<1>4. /\ Small!At(x, l, "mask") /\ Small!EndPhase(x, l)
      /\ total' = (IF l = 0 THEN [total EXCEPT ![ModelOf(x)] = 0] ELSE total)
      /\ mask' = (IF l = 0 THEN [mask EXCEPT ![ModelOf(x)] = Small!MaskOf(ModelOf(x))] ELSE mask)
      /\ UNCHANGED <<routed, table, smallCumsum, sorted, expertIds>>
  BY DEF Small!Mask, Small!ModelOf, ModelOf
<1>5. Base = 1 /\ v.at[l] = 0 /\ \A j \in Thread : v.at[j] >= 0
  <2>1. /\ v.at[l] \in Nat /\ v.at[l] < Base + 6 /\ Small!Phases[v.at[l] + 1] = "mask"
        /\ \A j \in Thread : v.at[j] >= v.at[l]
    BY <1>1, <1>2, <1>4, SmallReached
  <2>2. Base = 1 /\ v.at[l] = 0
    BY <2>1, SmallNumbered
  <2> QED BY <2>1, <2>2
<1>6. Small!MaskOf(v.m) = Wanted(v.m) /\ Wanted(v.m) \in [AlignToken -> Int]
  <2>1. routed.multi
    BY <1>5, SmallNumbered
  <2>2. Small!AlignToken = AlignToken
    BY DEF Small!AlignToken, AlignToken
  <2> QED BY <2>1, <2>2 DEF Small!MaskOf, Wanted
<1>7. PICK a, t : a = (IF l = 0 THEN Wanted(v.m) ELSE v.mask) /\ t = (IF l = 0 THEN 0 ELSE v.total)
  OBVIOUS
<1>8. Puts(x, v, v.cnt, v.start, a, t, v.row, v.ids)
  <2>1. a \in [AlignToken -> Int] /\ t \in Int
    BY <1>3, <1>6, <1>7 DEF SmallViewType
  <2>2. mask' = [mask EXCEPT ![v.m] = a] /\ total' = [total EXCEPT ![v.m] = t]
    BY <1>2, <1>3, <1>4, <1>6, <1>7 DEF SmallSeen
  <2>3. /\ table' = [table EXCEPT ![x] = v.cnt] /\ smallCumsum' = [smallCumsum EXCEPT ![x] = v.start]
        /\ sorted' = [sorted EXCEPT ![v.m] = v.row] /\ expertIds' = [expertIds EXCEPT ![v.m] = v.ids]
    BY <1>2, <1>4 DEF SmallSeen
  <2> QED BY <1>3, <1>4, <2>1, <2>2, <2>3 DEF Puts, SmallViewType
<1>9. PICK w : /\ PhaseEnds(v, w, l, 0) /\ Becomes(x, w) /\ SmallViewType(w)
               /\ w.cnt = v.cnt /\ w.mask = a /\ w.row = v.row /\ w.ids = v.ids
  <2>1. MayEnd(v, l, 0)
    BY <1>1, <1>5 DEF MayEnd
  <2> QED BY <1>2, <1>4, <1>8, <2>1, SmallEnding
<1>10. SmallOK(w)
  BY <1>3, <1>5, <1>7, <1>9, SmallMaskKeeps
<1> QED BY <1>9, <1>10, SmallBecomes

LEMMA SmallFillKept ==
  ASSUME RoutedOK, SmallType, OutputType, NEW x, Live(x), SmallOK(SmallView(x)), NEW l \in Thread,
         Small!Fill(x, l)
  PROVE  SmallStepped(x)
<1>1. /\ x \in Entry /\ ModelOf(x) \in Model /\ Base \in Nat /\ Base < Base + 6 /\ Base \notin {Base + 2, Base + 5}
      /\ l \in Nat /\ FillThreads \in Nat /\ Numel \in Int
  BY LiveModel, BaseNat, ThreadFacts, Sizes
<1>2. PICK v : SmallSeen(x, v)
  BY SmallSees
<1>3. SmallOK(v) /\ SmallViewType(v) /\ v.m = ModelOf(x)
  BY <1>2 DEF SmallSeen
<1>4. /\ Small!At(x, l, "fill") /\ Small!EndPhase(x, l)
      /\ sorted' = (IF l >= FillThreads THEN sorted
                    ELSE [sorted EXCEPT ![ModelOf(x)] =
                            [p \in Position |-> IF p % FillThreads = l THEN Numel ELSE @[p]]])
      /\ UNCHANGED <<routed, table, smallCumsum, mask, total, expertIds>>
  BY DEF Small!Fill, Small!ModelOf, ModelOf, Small!Counters, Small!Lane, Thread, Small!Position, Position
<1>5. v.at[l] = Base /\ \A j \in Thread : v.at[j] >= Base
  <2>1. /\ v.at[l] \in Nat /\ v.at[l] < Base + 6 /\ Small!Phases[v.at[l] + 1] = "fill"
        /\ \A j \in Thread : v.at[j] >= v.at[l]
    BY <1>1, <1>2, <1>4, SmallReached
  <2>2. v.at[l] = Base
    BY <2>1, SmallNumbered
  <2> QED BY <2>1, <2>2
<1>7. PICK r : r = (IF l >= FillThreads THEN v.row ELSE Filling(v.row, l, FillThreads))
  OBVIOUS
<1>8. Puts(x, v, v.cnt, v.start, v.mask, v.total, r, v.ids)
  <2>1. r \in [Position -> Int]
    BY <1>1, <1>3, <1>7 DEF SmallViewType, Filling
  <2>2. sorted' = [sorted EXCEPT ![v.m] = r]
    <3>1. CASE l >= FillThreads
      BY <1>2, <1>3, <1>4, <1>7, <3>1 DEF SmallSeen
    <3>2. CASE ~(l >= FillThreads)
      <4>1. v.row = sorted[ModelOf(x)]
        BY <1>2, <1>3 DEF SmallSeen
      <4>2. sorted' = [sorted EXCEPT ![ModelOf(x)] =
                         [p \in Position |-> IF p % FillThreads = l THEN Numel ELSE sorted[ModelOf(x)][p]]]
        BY <1>1, <1>4, <3>2 DEF OutputType
      <4>3. r = [p \in Position |-> IF p % FillThreads = l THEN Numel ELSE sorted[ModelOf(x)][p]]
        BY <1>7, <3>2, <4>1 DEF Filling
      <4> QED BY <1>3, <4>2, <4>3
    <3> QED BY <3>1, <3>2
  <2>3. /\ table' = [table EXCEPT ![x] = v.cnt] /\ smallCumsum' = [smallCumsum EXCEPT ![x] = v.start]
        /\ mask' = [mask EXCEPT ![v.m] = v.mask] /\ total' = [total EXCEPT ![v.m] = v.total]
        /\ expertIds' = [expertIds EXCEPT ![v.m] = v.ids]
    BY <1>2, <1>4 DEF SmallSeen
  <2> QED BY <1>3, <1>4, <2>1, <2>2, <2>3 DEF Puts, SmallViewType
<1>9. PICK w : /\ PhaseEnds(v, w, l, Base) /\ Becomes(x, w) /\ SmallViewType(w)
               /\ w.cnt = v.cnt /\ w.start = v.start /\ w.mask = v.mask /\ w.total = v.total
               /\ w.row = r /\ w.ids = v.ids
  <2>1. MayEnd(v, l, Base)
    BY <1>1, <1>5 DEF MayEnd
  <2>2. Base \in Nat
    BY <1>1
  <2> QED BY <1>2, <1>4, <1>8, <2>1, <2>2, SmallEnding
<1>10. SmallOK(w)
  BY <1>3, <1>7, <1>9, SmallFillKeeps
<1> QED BY <1>9, <1>10, SmallBecomes

LEMMA ClearKept ==
  ASSUME RoutedOK, SmallType, OutputType, NEW x, Live(x), SmallOK(SmallView(x)), NEW l \in Thread,
         Small!Clear(x, l)
  PROVE  SmallStepped(x)
<1>1. /\ x \in Entry /\ ModelOf(x) \in Model /\ Base + 1 \in Nat /\ Base + 1 < Base + 6
      /\ Base + 1 \notin {Base + 2, Base + 5} /\ l \in Nat /\ FillThreads \in Nat
  BY LiveModel, BaseNat, ThreadFacts
<1>2. PICK v : SmallSeen(x, v)
  BY SmallSees
<1>3. SmallOK(v) /\ SmallViewType(v) /\ v.m = ModelOf(x)
  BY <1>2 DEF SmallSeen
<1>4. /\ Small!At(x, l, "clear") /\ Small!EndPhase(x, l)
      /\ table' = (IF ~(l >= FillThreads) THEN table
                   ELSE [table EXCEPT ![x][l - FillThreads + 1] = [e \in AlignExpert |-> 0]])
      /\ UNCHANGED <<routed, smallCumsum, mask, total, sorted, expertIds>>
  BY DEF Small!Clear, Small!Counters, Small!Lane, Thread, Small!Tid, Small!AlignExpert, AlignExpert, Small!outputs
<1>5. v.at[l] = Base + 1 /\ \A j \in Thread : v.at[j] >= Base + 1
  <2>1. /\ v.at[l] \in Nat /\ v.at[l] < Base + 6 /\ Small!Phases[v.at[l] + 1] = "clear"
        /\ \A j \in Thread : v.at[j] >= v.at[l]
    BY <1>1, <1>2, <1>4, SmallReached
  <2>2. v.at[l] = Base + 1
    BY <2>1, SmallNumbered
  <2> QED BY <2>1, <2>2
<1>7. PICK c : c = (IF l >= FillThreads
                    THEN [v.cnt EXCEPT ![l - FillThreads + 1] = [e \in AlignExpert |-> 0]] ELSE v.cnt)
  OBVIOUS
<1>8. Puts(x, v, c, v.start, v.mask, v.total, v.row, v.ids)
  <2>1. c \in [0 .. CountThreads -> [AlignExpert -> Int]]
    <3>1. [e \in AlignExpert |-> 0] \in [AlignExpert -> Int]
      OBVIOUS
    <3>2. v.cnt \in [0 .. CountThreads -> [AlignExpert -> Int]]
      BY <1>3 DEF SmallViewType
    <3> QED BY <1>7, <3>1, <3>2
  <2>2. table' = [table EXCEPT ![x] = c]
    BY <1>1, <1>2, <1>4, <1>7 DEF SmallSeen, SmallType
  <2>3. /\ smallCumsum' = [smallCumsum EXCEPT ![x] = v.start] /\ sorted' = [sorted EXCEPT ![v.m] = v.row]
        /\ mask' = [mask EXCEPT ![v.m] = v.mask] /\ total' = [total EXCEPT ![v.m] = v.total]
        /\ expertIds' = [expertIds EXCEPT ![v.m] = v.ids]
    BY <1>2, <1>4 DEF SmallSeen
  <2> QED BY <1>3, <1>4, <2>1, <2>2, <2>3 DEF Puts, SmallViewType
<1>9. PICK w : /\ PhaseEnds(v, w, l, Base + 1) /\ Becomes(x, w) /\ SmallViewType(w)
               /\ w.cnt = c /\ w.start = v.start /\ w.mask = v.mask /\ w.total = v.total
               /\ w.row = v.row /\ w.ids = v.ids
  <2>1. MayEnd(v, l, Base + 1)
    BY <1>1, <1>5 DEF MayEnd
  <2>2. Base + 1 \in Nat
    BY <1>1
  <2> QED BY <1>2, <1>4, <1>8, <2>1, <2>2, SmallEnding
<1>10. SmallOK(w)
  BY <1>3, <1>7, <1>9, ClearKeeps
<1> QED BY <1>9, <1>10, SmallBecomes

TurnsOn(x, l) == smallPhase' = smallPhase /\ smallNext' = [smallNext EXCEPT ![x][l] = @ + CountThreads]

LEMMA SmallTurning ==
  ASSUME RoutedOK, SmallType, OutputType, NEW x, Live(x), NEW v, SmallSeen(x, v),
         NEW l \in Thread, TurnsOn(x, l),
         NEW c, NEW s, NEW a, NEW t, NEW r, NEW b, Puts(x, v, c, s, a, t, r, b)
  PROVE  \E w : /\ Becomes(x, w) /\ SmallViewType(w)
                /\ LoopsOn(v, w, l)
                /\ w.cnt = c /\ w.start = s /\ w.mask = a /\ w.total = t /\ w.row = r /\ w.ids = b
<1>1. x \in Entry /\ ModelOf(x) \in Model /\ CountThreads \in Nat
  BY LiveModel, ThreadFacts
<1>2. PICK g : g = [v.loop EXCEPT ![l] = @ + CountThreads]
  OBVIOUS
<1>3. v.at \in [Thread -> Nat] /\ v.loop \in [Thread -> Int] /\ v.m \in Model /\ v.m = ModelOf(x)
  BY DEF SmallSeen, SmallViewType
<1>4. g \in [Thread -> Int]
  BY <1>1, <1>2, <1>3
<1>5. /\ smallPhase' = [smallPhase EXCEPT ![x] = v.at]
      /\ smallNext' = [smallNext EXCEPT ![x] = g]
  BY <1>1, <1>2 DEF SmallType, SmallSeen, TurnsOn
<1>6. PICK w : w = [m |-> v.m, at |-> v.at, loop |-> g, cnt |-> c, start |-> s,
                    mask |-> a, total |-> t, row |-> r, ids |-> b]
  OBVIOUS
<1>7. /\ w.m = v.m /\ w.at = v.at /\ w.loop = g /\ w.cnt = c /\ w.start = s
      /\ w.mask = a /\ w.total = t /\ w.row = r /\ w.ids = b
  BY <1>6
<1>8. SmallViewType(w)
  BY <1>3, <1>4, <1>7 DEF SmallViewType, Puts
<1>9. Becomes(x, w)
  BY <1>3, <1>5, <1>6, <1>7, <1>8 DEF Becomes, Puts
<1> QED BY <1>2, <1>7, <1>8, <1>9 DEF LoopsOn

LEMMA ServedHere ==
  \A i : Small!ServedBy(i) = ServedBy(i) /\ (Small!Valid(i) <=> Valid(i))
BY DEF Small!ServedBy, ServedBy, Small!Valid, Valid, Small!AlignExpert, AlignExpert

LEMMA SmallCountKept ==
  ASSUME RoutedOK, SmallType, OutputType, NEW x, Live(x), SmallOK(SmallView(x)), NEW l \in Thread,
         Small!Count(x, l)
  PROVE  SmallStepped(x)
<1>1. /\ x \in Entry /\ ModelOf(x) \in Model /\ Base \in Nat /\ Base + 2 \in Nat /\ Base + 2 < Base + 6
      /\ l \in Nat /\ FillThreads \in Nat /\ Numel \in Nat
  BY LiveModel, BaseNat, ThreadFacts, Sizes
<1>2. PICK v : SmallSeen(x, v)
  BY SmallSees
<1>3. SmallOK(v) /\ SmallViewType(v) /\ v.m = ModelOf(x) /\ v.loop = smallNext[x] /\ v.cnt = table[x]
      /\ v.mask = mask[ModelOf(x)]
  BY <1>2 DEF SmallSeen
<1>4. /\ Small!At(x, l, "count") /\ Small!Turn(x, l)
      /\ table' = (IF ~Small!InLoop(x, l) THEN table
                   ELSE [table EXCEPT ![x][l - FillThreads + 1][ServedBy(smallNext[x][l])] =
                           @ + mask[ModelOf(x)][smallNext[x][l] \div TopkNum]])
      /\ UNCHANGED <<routed, smallCumsum, mask, total, sorted, expertIds>>
  BY ServedHere DEF Small!Count, Small!Tid, Small!ModelOf, ModelOf, Small!outputs
<1>5. v.at[l] = Base + 2 /\ \A j \in Thread : v.at[j] >= Base + 2
  <2>1. /\ v.at[l] \in Nat /\ v.at[l] < Base + 6 /\ Small!Phases[v.at[l] + 1] = "count"
        /\ \A j \in Thread : v.at[j] >= v.at[l]
    BY <1>1, <1>2, <1>4, SmallReached
  <2>2. v.at[l] = Base + 2
    BY <2>1, SmallNumbered
  <2> QED BY <2>1, <2>2
<1>6. l \in Small!Counters <=> l >= FillThreads
  BY DEF Small!Counters, Small!Lane, Thread
<1>7. /\ smallCumsum' = [smallCumsum EXCEPT ![x] = v.start] /\ sorted' = [sorted EXCEPT ![v.m] = v.row]
      /\ mask' = [mask EXCEPT ![v.m] = v.mask] /\ total' = [total EXCEPT ![v.m] = v.total]
      /\ expertIds' = [expertIds EXCEPT ![v.m] = v.ids]
  BY <1>2, <1>4 DEF SmallSeen
<1>8. CASE l >= FillThreads /\ v.loop[l] < Numel
  <2>1. PICK c \in Counter : l = LaneOf(c) /\ c = l - FillThreads
    BY <1>8, CounterLane
  <2>2. PICK i0 \in Nat : i0 = v.loop[l]
    BY <1>3, <2>1 DEF SmallOK, Looping, Loop
  <2>3. TurnsOn(x, l)
    BY <1>3, <1>4, <1>6, <1>8 DEF Small!Turn, TurnsOn
  <2>4. Small!InLoop(x, l) <=> Valid(i0)
    BY <1>3, <1>6, <1>8, <2>2, ServedHere DEF Small!InLoop
  <2>5. PICK n : n = (IF Valid(i0) THEN [v.cnt EXCEPT ![c + 1][ServedBy(i0)] = @ + v.mask[i0 \div TopkNum]] ELSE v.cnt)
    OBVIOUS
  <2>6. n \in [0 .. CountThreads -> [AlignExpert -> Int]]
    <3>1. v.cnt \in [0 .. CountThreads -> [AlignExpert -> Int]] /\ v.mask \in [AlignToken -> Int]
      BY <1>3 DEF SmallViewType
    <3>2. i0 \div TopkNum \in AlignToken /\ i0 \in AlignSlot
      <4>1. i0 \in AlignSlot
        BY <1>1, <1>8, <2>2 DEF AlignSlot
      <4> QED BY <4>1, SlotToken
    <3>3. v.mask[i0 \div TopkNum] \in Int
      BY <3>1, <3>2
    <3>4. c + 1 \in 0 .. CountThreads
      BY ThreadFacts
    <3>5. Valid(i0) => ServedBy(i0) \in AlignExpert
      BY <3>2, ServedFacts
    <3>6. CASE Valid(i0)
      <4>1. PICK d \in 0 .. CountThreads, e \in AlignExpert, z \in Int :
              d = c + 1 /\ e = ServedBy(i0) /\ z = v.mask[i0 \div TopkNum]
        BY <3>3, <3>4, <3>5, <3>6
      <4>2. n = [v.cnt EXCEPT ![d][e] = @ + z]
        BY <2>5, <3>6, <4>1
      <4>3. v.cnt[d] \in [AlignExpert -> Int]
        BY <3>1
      <4>4. [v.cnt[d] EXCEPT ![e] = @ + z] \in [AlignExpert -> Int]
        BY <4>3
      <4> QED BY <3>1, <4>2, <4>4
    <3>7. CASE ~Valid(i0)
      BY <2>5, <3>1, <3>7
    <3> QED BY <3>6, <3>7
  <2>7. table' = [table EXCEPT ![x] = n]
    <3>1. c + 1 = l - FillThreads + 1
      BY <1>1, <2>1
    <3>2. CASE Valid(i0)
      <4>1. table' = [table EXCEPT ![x][c + 1][ServedBy(i0)] = @ + v.mask[i0 \div TopkNum]]
        BY <1>3, <1>4, <2>2, <2>4, <3>1, <3>2
      <4> QED BY <1>1, <1>3, <2>5, <3>2, <4>1 DEF SmallType
    <3>3. CASE ~Valid(i0)
      BY <1>2, <1>4, <2>4, <2>5, <3>3 DEF SmallSeen
    <3> QED BY <3>2, <3>3
  <2>8. Puts(x, v, n, v.start, v.mask, v.total, v.row, v.ids)
    BY <1>3, <1>4, <1>7, <2>6, <2>7 DEF Puts, SmallViewType
  <2>9. PICK w : /\ Becomes(x, w) /\ SmallViewType(w)
                 /\ LoopsOn(v, w, l)
                 /\ w.cnt = n /\ w.start = v.start /\ w.mask = v.mask /\ w.total = v.total
                 /\ w.row = v.row /\ w.ids = v.ids
    BY <1>2, <2>3, <2>8, SmallTurning
  <2>10. SmallOK(w)
    <3>1. CountsSlot(v, w, c, i0) /\ i0 < Numel
      BY <1>8, <2>2, <2>5, <2>9 DEF CountsSlot
    <3> QED BY <1>3, <1>5, <2>1, <2>2, <2>9, <3>1, SmallCountTurnKeeps
  <2> QED BY <2>9, <2>10, SmallBecomes
<1>9. CASE ~(l >= FillThreads /\ v.loop[l] < Numel)
  <2>1. Small!EndPhase(x, l) /\ ~Small!InLoop(x, l)
    BY <1>3, <1>4, <1>6, <1>9 DEF Small!Turn, Small!InLoop
  <2>2. l >= FillThreads => v.loop[l] >= Numel
    <3>1. v.loop[l] \in Int
      BY <1>3 DEF SmallViewType
    <3> QED BY <1>1, <1>9, <3>1
  <2>3. Puts(x, v, v.cnt, v.start, v.mask, v.total, v.row, v.ids)
    BY <1>2, <1>3, <1>4, <1>7, <2>1 DEF Puts, SmallViewType, SmallSeen
  <2>4. PICK w : /\ PhaseEnds(v, w, l, Base + 2) /\ Becomes(x, w) /\ SmallViewType(w)
                 /\ w.cnt = v.cnt /\ w.start = v.start /\ w.mask = v.mask /\ w.total = v.total
                 /\ w.row = v.row /\ w.ids = v.ids
    <3>1. MayEnd(v, l, Base + 2)
      BY <1>1, <1>5, <2>2 DEF MayEnd
    <3>2. Base + 2 \in Nat
      BY <1>1
    <3> QED BY <1>2, <2>1, <2>3, <3>1, <3>2, SmallEnding
  <2>5. /\ MaskSet(w) /\ ColumnCounted(w) /\ ColumnSummed(w) /\ StartsSet(w) /\ CounterNamed(w)
        /\ RowFilled(w) /\ SlotPlaced(w)
    BY <1>1, <1>3, <2>4, PhaseKeeps
  <2>6. InStep(w) /\ Looping(w)
    BY <1>1, <1>3, <2>4, PhaseEnded
  <2>7. SmallOK(w)
    BY <2>5, <2>6 DEF SmallOK
  <2> QED BY <2>4, <2>7, SmallBecomes
<1> QED BY <1>8, <1>9

LEMMA PrefixKept ==
  ASSUME RoutedOK, SmallType, OutputType, NEW x, Live(x), SmallOK(SmallView(x)), NEW l \in Thread,
         Small!Prefix(x, l)
  PROVE  SmallStepped(x)
<1>1. /\ x \in Entry /\ ModelOf(x) \in Model /\ Base \in Nat /\ Base + 3 \in Nat /\ Base + 3 < Base + 6
      /\ Base + 3 \notin {Base + 2, Base + 5} /\ Base + 3 # Base + 1
      /\ l \in Nat /\ FillThreads \in Nat /\ NumExperts \in Nat /\ CountThreads \in Nat
  BY LiveModel, BaseNat, ThreadFacts, Sizes
<1>2. PICK v : SmallSeen(x, v)
  BY SmallSees
<1>3. SmallOK(v) /\ SmallViewType(v) /\ v.m = ModelOf(x) /\ v.cnt = table[x]
  BY <1>2 DEF SmallSeen
<1> DEFINE F(s) == [r \in Nat |-> IF r = 0 THEN 0 ELSE s[r - 1] + table[x][r][l - FillThreads]]
           s0 == CHOOSE s : s = F(s)
<1>4. /\ Small!At(x, l, "prefix") /\ Small!EndPhase(x, l)
      /\ table' = (IF ~(l >= FillThreads /\ l - FillThreads < NumExperts) THEN table
                   ELSE [table EXCEPT ![x] =
                           [r \in 0 .. CountThreads |-> [@[r] EXCEPT ![l - FillThreads] = s0[r]]]])
      /\ UNCHANGED <<routed, smallCumsum, mask, total, sorted, expertIds>>
  BY DEF Small!Prefix, Small!Counters, Small!Lane, Thread, Small!Tid, Small!outputs
<1>5. v.at[l] = Base + 3 /\ \A j \in Thread : v.at[j] >= Base + 3
  <2>1. /\ v.at[l] \in Nat /\ v.at[l] < Base + 6 /\ Small!Phases[v.at[l] + 1] = "prefix"
        /\ \A j \in Thread : v.at[j] >= v.at[l]
    BY <1>1, <1>2, <1>4, SmallReached
  <2>2. v.at[l] = Base + 3
    BY <2>1, SmallNumbered
  <2> QED BY <2>1, <2>2
<1>6. /\ smallCumsum' = [smallCumsum EXCEPT ![x] = v.start] /\ sorted' = [sorted EXCEPT ![v.m] = v.row]
      /\ mask' = [mask EXCEPT ![v.m] = v.mask] /\ total' = [total EXCEPT ![v.m] = v.total]
      /\ expertIds' = [expertIds EXCEPT ![v.m] = v.ids]
  BY <1>2, <1>4 DEF SmallSeen
<1>7. SumsColumn(s0, v, l - FillThreads)
  <2>1. PICK h : h = [n \in Nat |-> v.cnt[n + 1][l - FillThreads]]
    OBVIOUS
  <2>2. \E s : RunningSum(s, h)
    BY SumExists
  <2>3. \A s : RunningSum(s, h) <=> s = F(s)
    <3> SUFFICES ASSUME NEW s PROVE RunningSum(s, h) <=> s = F(s)
      OBVIOUS
    <3>1. \A n \in Nat : n # 0 => h[n - 1] = table[x][n][l - FillThreads]
      BY <1>3, <2>1
    <3>2. [n \in Nat |-> IF n = 0 THEN 0 ELSE s[n - 1] + h[n - 1]] = F(s)
      BY <3>1
    <3> QED BY <3>2 DEF RunningSum
  <2> HIDE DEF F
  <2>4. s0 = F(s0)
    BY <2>2, <2>3, Zenon
  <2> HIDE DEF s0
  <2>5. RunningSum(s0, h)
    BY <2>3, <2>4
  <2> QED BY <2>1, <2>5 DEF SumsColumn
<1> HIDE DEF s0, F
<1>8. CASE l >= FillThreads /\ l - FillThreads < NumExperts
  <2>1. PICK e0 \in Counter : l = LaneOf(e0) /\ e0 = l - FillThreads
    BY <1>8, CounterLane
  <2>2. e0 \in AlignExpert
    BY <1>1, <1>8, <2>1 DEF AlignExpert
  <2>3. PICK s : s = s0
    OBVIOUS
  <2>4. SumsColumn(s, v, e0)
    BY <1>7, <2>1, <2>3
  <2>5. PICK c : c = [r \in 0 .. CountThreads |-> [v.cnt[r] EXCEPT ![e0] = s[r]]]
    OBVIOUS
  <2>6. table' = [table EXCEPT ![x] = c]
    <3>1. table' = [table EXCEPT ![x] =
                      [r \in 0 .. CountThreads |-> [table[x][r] EXCEPT ![e0] = s[r]]]]
      BY <1>1, <1>4, <1>8, <2>1, <2>3 DEF SmallType
    <3> QED BY <1>3, <2>5, <3>1
  <2>7. c \in [0 .. CountThreads -> [AlignExpert -> Int]]
    <3>1. \A r \in 0 .. CountThreads : s[r] = Cardinality(EarlierSlots(v.m, e0, r))
      <4>1. At(v, e0) = Base + 3
        BY <1>5, <2>1 DEF At
      <4> QED BY <1>3, <1>5, <2>2, <2>4, <4>1, ColumnSums
    <3>2. ASSUME NEW r \in 0 .. CountThreads PROVE s[r] \in Int
      <4>1. Cardinality(EarlierSlots(v.m, e0, r)) \in Nat
        BY <2>2, OwnAndEarlier
      <4> QED BY <3>1, <4>1
    <3>3. v.cnt \in [0 .. CountThreads -> [AlignExpert -> Int]]
      BY <1>3 DEF SmallViewType
    <3>4. ASSUME NEW r \in 0 .. CountThreads PROVE [v.cnt[r] EXCEPT ![e0] = s[r]] \in [AlignExpert -> Int]
      <4>1. v.cnt[r] \in [AlignExpert -> Int] /\ s[r] \in Int
        BY <3>2, <3>3
      <4> QED BY <4>1
    <3> QED BY <2>5, <3>4
  <2>8. Puts(x, v, c, v.start, v.mask, v.total, v.row, v.ids)
    BY <1>3, <1>4, <1>6, <2>6, <2>7 DEF Puts, SmallViewType
  <2>9. PICK w : /\ PhaseEnds(v, w, l, Base + 3) /\ Becomes(x, w) /\ SmallViewType(w)
                 /\ w.cnt = c /\ w.start = v.start /\ w.mask = v.mask /\ w.total = v.total
                 /\ w.row = v.row /\ w.ids = v.ids
    <3>1. MayEnd(v, l, Base + 3)
      BY <1>1, <1>5 DEF MayEnd
    <3>2. Base + 3 \in Nat
      BY <1>1
    <3> QED BY <1>2, <1>4, <2>8, <3>1, <3>2, SmallEnding
  <2>10. SmallOK(w)
    <3>1. w.cnt = [r \in 0 .. CountThreads |-> [v.cnt[r] EXCEPT ![e0] = s[r]]]
      BY <2>5, <2>9
    <3> QED BY <1>3, <2>1, <2>2, <2>4, <2>9, <3>1, PrefixKeeps
  <2> QED BY <2>9, <2>10, SmallBecomes
<1>9. CASE ~(l >= FillThreads /\ l - FillThreads < NumExperts)
  <2>1. Puts(x, v, v.cnt, v.start, v.mask, v.total, v.row, v.ids)
    BY <1>2, <1>3, <1>4, <1>6, <1>9 DEF Puts, SmallViewType, SmallSeen
  <2>2. PICK w : /\ PhaseEnds(v, w, l, Base + 3) /\ Becomes(x, w) /\ SmallViewType(w)
                 /\ w.cnt = v.cnt /\ w.start = v.start /\ w.mask = v.mask /\ w.total = v.total
                 /\ w.row = v.row /\ w.ids = v.ids
    <3>1. MayEnd(v, l, Base + 3)
      BY <1>1, <1>5 DEF MayEnd
    <3>2. Base + 3 \in Nat
      BY <1>1
    <3> QED BY <1>2, <1>4, <2>1, <3>1, <3>2, SmallEnding
  <2>3. l < FillThreads \/ l - FillThreads >= NumExperts
    BY <1>1, <1>9
  <2>4. /\ MaskSet(w) /\ ColumnCounted(w) /\ ColumnSummed(w) /\ StartsSet(w) /\ CounterNamed(w)
        /\ RowFilled(w) /\ SlotPlaced(w)
    BY <1>1, <1>3, <2>2, <2>3, PhaseKeeps
  <2>5. InStep(w) /\ Looping(w)
    BY <1>1, <1>3, <2>2, PhaseEnded
  <2>6. SmallOK(w)
    BY <2>4, <2>5 DEF SmallOK
  <2> QED BY <2>2, <2>6, SmallBecomes
<1> QED BY <1>8, <1>9

LEMMA StartsTyped ==
  ASSUME RoutedOK, NEW m
  PROVE  StartsOf(m) \in [0 .. NumExperts -> Int] /\ StartsOf(m)[NumExperts] \in Int
<1>1. \A e \in 0 .. NumExperts : StartsOf(m)[e] \in Nat
  BY Layout DEF Start
<1>2. StartsOf(m) = [e \in 0 .. NumExperts |-> StartsOf(m)[e]]
  BY DEF StartsOf, Starts
<1>3. NumExperts \in 0 .. NumExperts
  BY Sizes
<1> QED BY <1>1, <1>2, <1>3

LEMMA StartsHere ==
  \A c : Small!Starts(c) = Starts(c)
BY DEF Small!Starts, Starts, Small!Padded, Padded, Small!CeilDiv, CeilDiv

LEMMA TotalKept ==
  ASSUME RoutedOK, SmallType, OutputType, NEW x, Live(x), SmallOK(SmallView(x)), NEW l \in Thread,
         Small!Total(x, l)
  PROVE  SmallStepped(x)
<1>1. /\ x \in Entry /\ ModelOf(x) \in Model /\ Base \in Nat /\ Base + 4 \in Nat /\ Base + 4 < Base + 6
      /\ Base + 4 \notin {Base + 2, Base + 5}
  BY LiveModel, BaseNat
<1>2. PICK v : SmallSeen(x, v)
  BY SmallSees
<1>3. SmallOK(v) /\ SmallViewType(v) /\ v.m = ModelOf(x) /\ v.cnt = table[x]
  BY <1>2 DEF SmallSeen
<1>4. /\ Small!At(x, l, "total") /\ Small!EndPhase(x, l)
      /\ UNCHANGED <<routed, table, mask, sorted, expertIds>>
  BY DEF Small!Total
<1>5. v.at[l] = Base + 4 /\ \A j \in Thread : v.at[j] >= Base + 4
  <2>1. /\ v.at[l] \in Nat /\ v.at[l] < Base + 6 /\ Small!Phases[v.at[l] + 1] = "total"
        /\ \A j \in Thread : v.at[j] >= v.at[l]
    BY <1>1, <1>2, <1>4, SmallReached
  <2>2. v.at[l] = Base + 4
    BY <2>1, SmallNumbered
  <2> QED BY <2>1, <2>2
<1>6. /\ table' = [table EXCEPT ![x] = v.cnt] /\ sorted' = [sorted EXCEPT ![v.m] = v.row]
      /\ mask' = [mask EXCEPT ![v.m] = v.mask] /\ expertIds' = [expertIds EXCEPT ![v.m] = v.ids]
  BY <1>2, <1>4 DEF SmallSeen
<1>7. PICK s : s = IF l = FillThreads THEN Starts(v.cnt[CountThreads]) ELSE v.start
  OBVIOUS
<1>8. PICK t : t = IF l = FillThreads THEN Starts(v.cnt[CountThreads])[NumExperts] ELSE v.total
  OBVIOUS
<1>9. s \in [0 .. NumExperts -> Int] /\ t \in Int
  <2>1. Starts(v.cnt[CountThreads]) = StartsOf(v.m)
    BY <1>3, <1>5, SharesKnown
  <2>2. v.start \in [0 .. NumExperts -> Int] /\ v.total \in Int
    BY <1>3 DEF SmallViewType
  <2> QED BY <1>7, <1>8, <2>1, <2>2, StartsTyped
<1>10. smallCumsum' = [smallCumsum EXCEPT ![x] = s] /\ total' = [total EXCEPT ![v.m] = t]
  <2>1. CASE l = FillThreads
    <3>1. /\ smallCumsum' = [smallCumsum EXCEPT ![x] = Starts(table[x][CountThreads])]
          /\ total' = [total EXCEPT ![ModelOf(x)] = smallCumsum'[x][NumExperts]]
      BY <2>1, StartsHere DEF Small!Total, Small!ModelOf, ModelOf
    <3>2. smallCumsum' = [smallCumsum EXCEPT ![x] = s]
      BY <1>3, <1>7, <2>1, <3>1
    <3>3. smallCumsum'[x] = s
      BY <1>1, <3>2 DEF SmallType
    <3> QED BY <1>3, <1>7, <1>8, <2>1, <3>1, <3>2, <3>3
  <2>2. CASE l # FillThreads
    <3>1. smallCumsum' = smallCumsum /\ total' = total
      BY <2>2 DEF Small!Total
    <3> QED BY <1>2, <1>7, <1>8, <2>2, <3>1 DEF SmallSeen
  <2> QED BY <2>1, <2>2
<1>11. Puts(x, v, v.cnt, s, v.mask, t, v.row, v.ids)
  BY <1>3, <1>4, <1>6, <1>9, <1>10 DEF Puts, SmallViewType
<1>12. PICK w : /\ PhaseEnds(v, w, l, Base + 4) /\ Becomes(x, w) /\ SmallViewType(w)
                /\ w.cnt = v.cnt /\ w.start = s /\ w.mask = v.mask /\ w.total = t
                /\ w.row = v.row /\ w.ids = v.ids
  <2>1. MayEnd(v, l, Base + 4)
    BY <1>1, <1>5 DEF MayEnd
  <2>2. Base + 4 \in Nat
    BY <1>1
  <2> QED BY <1>2, <1>4, <1>11, <2>1, <2>2, SmallEnding
<1>13. SmallOK(w)
  BY <1>3, <1>7, <1>8, <1>12, TotalKeeps
<1> QED BY <1>12, <1>13, SmallBecomes

(* What a counter names, from the ranges' starts.                          *)
LEMMA NamedIs ==
  ASSUME RoutedOK, NEW x \in Entry, NEW c \in Counter, NEW m, NEW ids,
         \A e \in 0 .. NumExperts : smallCumsum[x][e] = Start(m, e)
  PROVE  Small!Named(x, LaneOf(c), ids) = Namings(m, ids, c, CountThreads)
<1>1. /\ c \in Nat /\ NumExperts \in Nat /\ NumExperts \in 0 .. NumExperts /\ Small!Tid(LaneOf(c)) = c
      /\ Small!Block = Block /\ Small!Blocks = Blocks /\ Small!Inactive = Inactive
  BY ThreadFacts, Sizes DEF Small!Tid, LaneOf, Small!Block, Block, Small!Blocks, Blocks, Small!CeilDiv, CeilDiv,
     Small!Inactive, Inactive
<1>2. {b \in Block : c < NumExperts /\ b * BlockSize >= smallCumsum[x][c] /\ b * BlockSize < smallCumsum[x][c + 1]}
        = Mine(m, c)
  <2>1. CASE c < NumExperts
    <3>1. c \in 0 .. NumExperts /\ c + 1 \in 0 .. NumExperts
      BY <1>1, <2>1
    <3>2. smallCumsum[x][c] = Start(m, c) /\ smallCumsum[x][c + 1] = Start(m, c + 1)
      BY <3>1
    <3> QED BY <3>2 DEF Mine
  <2>2. CASE ~(c < NumExperts)
    BY <2>2 DEF Mine
  <2> QED BY <2>1, <2>2
<1>3. {b \in Block : \E k \in 0 .. Blocks : b = smallCumsum[x][NumExperts] \div BlockSize + c + k * CountThreads}
        = Rest(m, c, CountThreads)
  <2>1. smallCumsum[x][NumExperts] = Start(m, NumExperts)
    BY <1>1
  <2> QED BY <2>1 DEF Rest
<1>4. Small!Named(x, LaneOf(c), ids) =
        [b \in Block |->
           IF b \in {d \in Block : \E k \in 0 .. Blocks :
                       d = smallCumsum[x][NumExperts] \div BlockSize + c + k * CountThreads}
           THEN Inactive
           ELSE IF b \in {d \in Block : c < NumExperts /\ d * BlockSize >= smallCumsum[x][c]
                                        /\ d * BlockSize < smallCumsum[x][c + 1]}
                THEN c ELSE ids[b]]
  BY <1>1, Zenon DEF Small!Named
<1>5. Small!Named(x, LaneOf(c), ids) =
        [b \in Block |-> IF b \in Rest(m, c, CountThreads) THEN Inactive
                         ELSE IF b \in Mine(m, c) THEN c ELSE ids[b]]
  BY <1>2, <1>3, <1>4, Zenon
<1> QED BY <1>5 DEF Namings

LEMMA PlaceKept ==
  ASSUME RoutedOK, SmallType, OutputType, NEW x, Live(x), SmallOK(SmallView(x)), NEW l \in Thread,
         Small!Place(x, l)
  PROVE  SmallStepped(x)
<1>1. /\ x \in Entry /\ ModelOf(x) \in Model /\ Base \in Nat /\ Base + 5 \in Nat /\ Base + 5 < Base + 6
      /\ l \in Nat /\ FillThreads \in Nat /\ Numel \in Nat
  BY LiveModel, BaseNat, ThreadFacts, Sizes
<1>2. PICK v : SmallSeen(x, v)
  BY SmallSees
<1>3. SmallOK(v) /\ SmallViewType(v) /\ v.m = ModelOf(x) /\ v.loop = smallNext[x] /\ v.cnt = table[x]
      /\ v.mask = mask[ModelOf(x)] /\ v.start = smallCumsum[x]
  BY <1>2 DEF SmallSeen
<1>4. /\ Small!At(x, l, "place") /\ Small!Turn(x, l)
      /\ UNCHANGED <<routed, smallCumsum, mask, total>>
  BY DEF Small!Place
<1>5. v.at[l] = Base + 5 /\ \A j \in Thread : v.at[j] >= Base + 5
  <2>1. /\ v.at[l] \in Nat /\ v.at[l] < Base + 6 /\ Small!Phases[v.at[l] + 1] = "place"
        /\ \A j \in Thread : v.at[j] >= v.at[l]
    BY <1>1, <1>2, <1>4, SmallReached
  <2>2. v.at[l] = Base + 5
    BY <2>1, SmallNumbered
  <2> QED BY <2>1, <2>2
<1>6. l \in Small!Counters <=> l >= FillThreads
  BY DEF Small!Counters, Small!Lane, Thread
<1>7. /\ smallCumsum' = [smallCumsum EXCEPT ![x] = v.start]
      /\ mask' = [mask EXCEPT ![v.m] = v.mask] /\ total' = [total EXCEPT ![v.m] = v.total]
  BY <1>2, <1>4 DEF SmallSeen
<1>8. \A e \in 0 .. NumExperts : smallCumsum[x][e] = Start(v.m, e)
  <2>1. At(v, 0) >= Base + 5
    BY <1>5, ThreadFacts DEF At
  <2> QED BY <1>3, <2>1 DEF SmallOK, StartsSet
<1>9. PICK b : b = IF l >= FillThreads THEN CounterNames(v, l - FillThreads) ELSE v.ids
  OBVIOUS
<1>10. b \in [Block -> Int] /\ expertIds' = [expertIds EXCEPT ![v.m] = b]
  <2>1. v.ids \in [Block -> Int] /\ v.ids = expertIds[v.m] /\ expertIds = [expertIds EXCEPT ![v.m] = v.ids]
    BY <1>2 DEF SmallViewType, SmallSeen
  <2>2. CASE l >= FillThreads /\ v.loop[l] = l - FillThreads
    <3>1. PICK c \in Counter : l = LaneOf(c) /\ c = l - FillThreads
      BY <2>2, CounterLane
    <3>2. b = Namings(v.m, v.ids, c, CountThreads)
      BY <1>9, <2>2, <3>1 DEF CounterNames, Loop
    <3>3. Small!Named(x, LaneOf(c), v.ids) = Namings(v.m, v.ids, c, CountThreads)
      BY <1>1, <1>8, NamedIs
    <3>4. expertIds' = [expertIds EXCEPT ![v.m] = Small!Named(x, l, v.ids)]
      <4>1. expertIds' = [expertIds EXCEPT ![ModelOf(x)] = Small!Named(x, l, @)]
        BY <1>3, <1>6, <2>2 DEF Small!Place, Small!Tid, Small!ModelOf, ModelOf
      <4>2. expertIds \in [Model -> [Block -> Int]]
        BY DEF OutputType
      <4> QED BY <1>1, <1>3, <2>1, <4>1, <4>2
    <3>5. Namings(v.m, v.ids, c, CountThreads) \in [Block -> Int]
      <4>1. c \in Int /\ Inactive \in Int
        BY ThreadFacts DEF Inactive
      <4> QED BY <2>1, <4>1 DEF Namings
    <3> QED BY <3>1, <3>2, <3>3, <3>4, <3>5
  <2>3. CASE ~(l >= FillThreads /\ v.loop[l] = l - FillThreads)
    <3>1. b = v.ids
      <4>1. CASE l >= FillThreads
        <5>1. PICK c \in Counter : l = LaneOf(c) /\ c = l - FillThreads
          BY <4>1, CounterLane
        <5> QED BY <1>9, <2>3, <4>1, <5>1 DEF CounterNames, Loop
      <4>2. CASE ~(l >= FillThreads)
        BY <1>9, <4>2
      <4> QED BY <4>1, <4>2
    <3>2. expertIds' = expertIds
      BY <1>3, <1>6, <2>3 DEF Small!Place, Small!Tid
    <3> QED BY <2>1, <3>1, <3>2
  <2> QED BY <2>2, <2>3
<1>11. CASE l >= FillThreads /\ v.loop[l] < Numel
  <2>1. PICK c \in Counter : l = LaneOf(c) /\ c = l - FillThreads
    BY <1>11, CounterLane
  <2>2. PICK i0 \in Nat : i0 = v.loop[l]
    BY <1>3, <2>1 DEF SmallOK, Looping, Loop
  <2>3. TurnsOn(x, l)
    BY <1>3, <1>4, <1>6, <1>11 DEF Small!Turn, TurnsOn
  <2>4. /\ Small!InLoop(x, l) /\ mask[Small!ModelOf(x)][smallNext[x][l] \div TopkNum] # 0 <=> Wants(v, i0)
    BY <1>3, <1>6, <1>11, <2>2, ServedHere DEF Small!InLoop, Wants, Small!ModelOf, ModelOf
  <2>5. CASE Wants(v, i0)
    <3>1. /\ sorted' = [sorted EXCEPT ![ModelOf(x)][table[x][c][ServedBy(i0)] + smallCumsum[x][ServedBy(i0)]] = i0]
          /\ table' = [table EXCEPT ![x][c][ServedBy(i0)] = @ + 1]
      BY <1>3, <2>1, <2>2, <2>4, <2>5, ServedHere DEF Small!Place, Small!Tid, Small!ModelOf, ModelOf
    <3>2. PICK r : r = [v.row EXCEPT ![v.cnt[c][ServedBy(i0)] + v.start[ServedBy(i0)]] = i0]
      OBVIOUS
    <3>3. PICK n : n = [v.cnt EXCEPT ![c][ServedBy(i0)] = @ + 1]
      OBVIOUS
    <3>4. r \in [Position -> Int] /\ n \in [0 .. CountThreads -> [AlignExpert -> Int]]
      <4>1. /\ v.row \in [Position -> Int] /\ v.cnt \in [0 .. CountThreads -> [AlignExpert -> Int]] /\ i0 \in Int
            /\ c \in 0 .. CountThreads
        <5>1. v.row \in [Position -> Int] /\ v.cnt \in [0 .. CountThreads -> [AlignExpert -> Int]]
          BY <1>3 DEF SmallViewType
        <5>2. c \in 0 .. CountThreads
          BY ThreadFacts
        <5> QED BY <5>1, <5>2
      <4>2. PICK e \in AlignExpert : e = ServedBy(i0)
        <5>1. i0 \in AlignSlot
          BY <1>1, <1>11, <2>2 DEF AlignSlot
        <5> QED BY <2>5, <5>1, ServedFacts DEF Wants
      <4>3. r \in [Position -> Int]
        <5>1. PICK p : p = v.cnt[c][ServedBy(i0)] + v.start[ServedBy(i0)]
          OBVIOUS
        <5>2. r = [v.row EXCEPT ![p] = i0]
          BY <3>2, <5>1
        <5>3. r = [q \in Position |-> IF q = p THEN i0 ELSE v.row[q]]
          BY <4>1, <5>2
        <5> QED BY <4>1, <5>3
      <4>4. n = [v.cnt EXCEPT ![c][e] = @ + 1]
        BY <3>3, <4>2
      <4>5. v.cnt[c] \in [AlignExpert -> Int]
        BY <4>1
      <4>6. [v.cnt[c] EXCEPT ![e] = @ + 1] \in [AlignExpert -> Int]
        BY <4>5
      <4> QED BY <4>1, <4>3, <4>4, <4>6
    <3>5. table' = [table EXCEPT ![x] = n]
      BY <1>1, <1>3, <3>1, <3>3 DEF SmallType
    <3>6. sorted' = [sorted EXCEPT ![v.m] = r]
      <4>1. v.row = sorted[v.m] /\ v.m \in Model /\ sorted \in [Model -> [Position -> Int]]
        BY <1>1, <1>2, <1>3 DEF SmallSeen, OutputType
      <4> QED BY <1>3, <3>1, <3>2, <4>1
    <3>7. Puts(x, v, n, v.start, v.mask, v.total, r, b)
      BY <1>3, <1>4, <1>7, <1>10, <3>4, <3>5, <3>6 DEF Puts, SmallViewType
    <3>8. PICK w : /\ Becomes(x, w) /\ SmallViewType(w)
                   /\ LoopsOn(v, w, l)
                   /\ w.cnt = n /\ w.start = v.start /\ w.mask = v.mask /\ w.total = v.total
                   /\ w.row = r /\ w.ids = b
      BY <1>2, <2>3, <3>7, SmallTurning
    <3>9. PlaceTurns(v, w, c, i0)
      BY <1>5, <1>9, <1>11, <2>1, <2>2, <3>8 DEF PlaceTurns, LoopsOn, At, Loop
    <3>10. SmallOK(w)
      BY <1>3, <2>5, <3>2, <3>3, <3>8, <3>9, PlacesSlotKeeps
    <3> QED BY <3>8, <3>10, SmallBecomes
  <2>6. CASE ~Wants(v, i0)
    <3>1. sorted' = sorted /\ table' = table
      BY <2>4, <2>6 DEF Small!Place
    <3>2. Puts(x, v, v.cnt, v.start, v.mask, v.total, v.row, b)
      BY <1>2, <1>3, <1>4, <1>7, <1>10, <3>1 DEF Puts, SmallViewType, SmallSeen
    <3>3. PICK w : /\ Becomes(x, w) /\ SmallViewType(w)
                   /\ LoopsOn(v, w, l)
                   /\ w.cnt = v.cnt /\ w.start = v.start /\ w.mask = v.mask /\ w.total = v.total
                   /\ w.row = v.row /\ w.ids = b
      BY <1>2, <2>3, <3>2, SmallTurning
    <3>4. PlaceTurns(v, w, c, i0)
      BY <1>5, <1>9, <1>11, <2>1, <2>2, <3>3 DEF PlaceTurns, LoopsOn, At, Loop
    <3>5. SmallOK(w)
      BY <1>3, <2>6, <3>3, <3>4, PlacesNoneKeeps
    <3> QED BY <3>3, <3>5, SmallBecomes
  <2> QED BY <2>5, <2>6
<1>12. CASE ~(l >= FillThreads /\ v.loop[l] < Numel)
  <2>1. Small!EndPhase(x, l) /\ ~Small!InLoop(x, l)
    BY <1>3, <1>4, <1>6, <1>12 DEF Small!Turn, Small!InLoop
  <2>2. l >= FillThreads => v.loop[l] >= Numel
    <3>1. v.loop[l] \in Int
      BY <1>3 DEF SmallViewType
    <3> QED BY <1>1, <1>12, <3>1
  <2>3. sorted' = sorted /\ table' = table
    BY <2>1 DEF Small!Place
  <2>4. Puts(x, v, v.cnt, v.start, v.mask, v.total, v.row, b)
    BY <1>2, <1>3, <1>4, <1>7, <1>10, <2>3 DEF Puts, SmallViewType, SmallSeen
  <2>5. PICK w : /\ PhaseEnds(v, w, l, Base + 5) /\ Becomes(x, w) /\ SmallViewType(w)
                 /\ w.cnt = v.cnt /\ w.start = v.start /\ w.mask = v.mask /\ w.total = v.total
                 /\ w.row = v.row /\ w.ids = b
    <3>1. MayEnd(v, l, Base + 5)
      BY <1>1, <1>5, <2>2 DEF MayEnd
    <3>2. Base + 5 \in Nat
      BY <1>1
    <3> QED BY <1>2, <2>1, <2>4, <3>1, <3>2, SmallEnding
  <2>6. SmallOK(w)
    BY <1>3, <1>9, <2>5, PlaceEndKeeps
  <2> QED BY <2>5, <2>6, SmallBecomes
<1> QED BY <1>11, <1>12

(* Whatever a work-item of an entry's group does next.                     *)
LEMMA SmallServeKept ==
  ASSUME RoutedOK, SmallType, OutputType, NEW x \in Entry, Small!Serve(x),
         \A y \in Entry : Live(y) => SmallOK(SmallView(y))
  PROVE  Live(x) /\ SmallStepped(x)
<1>1. Small!Skipped(x) = Skipped(x) /\ Small!Lane = Thread
  BY DEF Small!Skipped, Skipped, Small!Model, Model, Small!Lane, Thread
<1>2. Live(x) /\ SmallOK(SmallView(x))
  BY <1>1 DEF Small!Serve, Live
<1>3. PICK l \in Thread :
        \/ Small!Mask(x, l) \/ Small!Fill(x, l) \/ Small!Clear(x, l) \/ Small!Count(x, l)
        \/ Small!Prefix(x, l) \/ Small!Total(x, l) \/ Small!Place(x, l)
  BY <1>1 DEF Small!Serve
<1>4. CASE Small!Mask(x, l)
  BY <1>2, <1>4, SmallMaskKept
<1>5. CASE Small!Fill(x, l)
  BY <1>2, <1>5, SmallFillKept
<1>6. CASE Small!Clear(x, l)
  BY <1>2, <1>6, ClearKept
<1>7. CASE Small!Count(x, l)
  BY <1>2, <1>7, SmallCountKept
<1>8. CASE Small!Prefix(x, l)
  BY <1>2, <1>8, PrefixKept
<1>9. CASE Small!Total(x, l)
  BY <1>2, <1>9, TotalKept
<1>10. CASE Small!Place(x, l)
  BY <1>2, <1>10, PlaceKept
<1> QED BY <1>2, <1>3, <1>4, <1>5, <1>6, <1>7, <1>8, <1>9, <1>10

LEMMA SmallInvStep ==
  ASSUME SmallInv, NEW x \in Entry, Small!Serve(x)
  PROVE  SmallInv'
<1>1. /\ RoutedOK /\ SmallType /\ OutputType /\ Untouched
      /\ \A y \in Entry : Live(y) => SmallOK(SmallView(y))
  BY DEF SmallInv
<1>2. Live(x) /\ SmallStepped(x)
  BY <1>1, SmallServeKept
<1>3. /\ routed' = routed /\ SmallType' /\ OutputType' /\ Elsewhere(x) /\ SmallElsewhere(x)
      /\ SmallOK(SmallView(x))'
  BY <1>2 DEF SmallStepped, Elsewhere
<1>4. RoutedOK' /\ \A y : Live(y)' <=> Live(y)
  BY <1>1, <1>3, InputsStay
<1>5. Untouched'
  BY <1>1, <1>2, <1>3, UntouchedStays
<1>6. ASSUME NEW y \in Entry, Live(y)' PROVE SmallOK(SmallView(y))'
  <2>1. CASE y = x
    BY <1>3, <2>1
  <2>2. CASE y # x
    <3>1. Live(y) /\ ModelOf(y) \in Model /\ ModelOf(y) # ModelOf(x) /\ ModelOf(y)' = ModelOf(y)
      BY <1>1, <1>2, <1>3, <1>4, <1>6, <2>2, LiveModel, InputsStay
    <3>2. /\ smallPhase'[y] = smallPhase[y] /\ smallNext'[y] = smallNext[y]
          /\ table'[y] = table[y] /\ smallCumsum'[y] = smallCumsum[y]
      BY <1>3, <2>2 DEF SmallElsewhere
    <3>3. PICK n \in Model : n = ModelOf(y)
      BY <3>1
    <3>4. mask'[n] = mask[n] /\ total'[n] = total[n] /\ sorted'[n] = sorted[n] /\ expertIds'[n] = expertIds[n]
      BY <1>3, <3>1, <3>3 DEF Elsewhere
    <3>5. SmallView(y)' = SmallView(y)
      BY <3>1, <3>2, <3>3, <3>4 DEF SmallView
    <3>6. PICK v : v = SmallView(y)
      OBVIOUS
    <3>7. SmallOK(v) /\ v = SmallView(y)'
      BY <1>1, <3>1, <3>5, <3>6
    <3>8. SmallOK(v)'
      BY <1>3, <3>7, SmallStays
    <3> QED BY <3>7, <3>8
  <2> QED BY <2>1, <2>2
<1> QED BY <1>3, <1>4, <1>5, <1>6 DEF SmallInv

LEMMA SmallAtFirst ==
  ASSUME RoutedOK, NEW v, SmallViewType(v),
         \A l \in Thread : v.at[l] = 0 /\ v.loop[l] = l - FillThreads,
         Base = 0 => v.mask = Wanted(v.m)
  PROVE  SmallOK(v)
<1>1. Base \in Nat
  BY BaseNat
<1>2. \A c \in Counter : At(v, c) = 0 /\ Loop(v, c) = c /\ c \in Nat /\ c < CountThreads
  BY ThreadFacts DEF At, Loop
<1>3. (\A e \in AlignExpert : e \in Counter) /\ 0 \in Counter /\ 0 \in Thread
  BY ThreadFacts
<1>4. InStep(v)
  BY <1>1 DEF InStep
<1>5. Looping(v)
  <2>1. ASSUME NEW c \in Counter PROVE Loop(v, c) \in Nat /\ Loop(v, c) % CountThreads = c
    <3>1. PICK d \in Nat : d = c /\ d < CountThreads /\ Loop(v, c) = d
      BY <1>2
    <3>2. CountThreads \in Nat \ {0}
      BY ThreadFacts
    <3>3. d % CountThreads = d
      BY <3>1, <3>2
    <3> QED BY <3>1, <3>3
  <2> QED BY <2>1 DEF Looping
<1>6. MaskSet(v)
  BY <1>1, <1>3 DEF MaskSet
<1>7. ColumnCounted(v) /\ ColumnSummed(v) /\ StartsSet(v)
  BY <1>1, <1>2, <1>3 DEF ColumnCounted, ColumnSummed, StartsSet
<1>8. CounterNamed(v)
  BY <1>1, <1>2 DEF CounterNamed, HasNamed
<1>9. RowFilled(v)
  <2>1. \A p \in Position : p % FillThreads \in Thread
    BY ThreadFacts DEF Position
  <2> QED BY <1>1, <2>1 DEF RowFilled
<1>10. SlotPlaced(v)
  <2>1. ASSUME NEW e \in AlignExpert, NEW i \in SlotsOf(v.m, e) PROVE ~IsPlaced(v, i)
    <3>1. i % CountThreads \in Counter
      BY SlotCounter
    <3>2. At(v, i % CountThreads) = 0
      BY <1>2, <3>1
    <3> QED BY <1>1, <3>2 DEF IsPlaced
  <2> QED BY <2>1 DEF SlotPlaced
<1> QED BY <1>4, <1>5, <1>6, <1>7, <1>8, <1>9, <1>10 DEF SmallOK

LEMMA SmallTypeAtFirst ==
  ASSUME Small!Init
  PROVE  SmallType
<1>1. Small!Lane = Thread /\ Small!Entry = Entry /\ Small!AlignExpert = AlignExpert /\ Junk \in Int
      /\ Thread \subseteq Nat /\ FillThreads \in Nat
  BY ThreadFacts, Sizes DEF Small!Lane, Thread, Small!Entry, Entry, Small!AlignExpert, AlignExpert
<1>2. smallPhase \in [Entry -> [Thread -> Nat]]
  BY <1>1 DEF Small!Init
<1>3. smallNext \in [Entry -> [Thread -> Int]]
  BY <1>1 DEF Small!Init, Small!Tid
<1>4. table \in [Entry -> [0 .. CountThreads -> [AlignExpert -> Int]]]
  <2>1. PICK z : z = [e \in AlignExpert |-> Junk]
    OBVIOUS
  <2>2. z \in [AlignExpert -> Int]
    BY <1>1, <2>1
  <2>3. table = [x \in Entry |-> [r \in 0 .. CountThreads |-> z]]
    BY <1>1, <2>1 DEF Small!Init
  <2> QED BY <2>2, <2>3
<1>5. smallCumsum \in [Entry -> [0 .. NumExperts -> Int]]
  BY <1>1 DEF Small!Init
<1> QED BY <1>2, <1>3, <1>4, <1>5 DEF SmallType

LEMMA SmallInvAtFirst ==
  ASSUME InitRouting, Small!Init
  PROVE  SmallInv
<1>1. RoutedOK /\ OutputType /\ Untouched /\ SmallType
  BY RoutedAtFirst, SmallTypeAtFirst
<1>2. ASSUME NEW x \in Entry, Live(x) PROVE SmallOK(SmallView(x))
  <2>1. PICK v : SmallSeen(x, v)
    BY <1>1, <1>2, SmallSees
  <2>2. /\ v = SmallView(x) /\ SmallViewType(v) /\ v.at = smallPhase[x] /\ v.loop = smallNext[x]
        /\ v.m = ModelOf(x) /\ v.mask = mask[ModelOf(x)] /\ ModelOf(x) \in Model
    BY <1>1, <1>2, <2>1, LiveModel DEF SmallSeen
  <2>3. \A l \in Thread : v.at[l] = 0 /\ v.loop[l] = l - FillThreads
    <3>1. Small!Lane = Thread /\ Small!Entry = Entry
      BY DEF Small!Lane, Thread, Small!Entry, Entry
    <3> QED BY <2>2, <3>1 DEF Small!Init, Small!Tid
  <2>4. Base = 0 => v.mask = Wanted(v.m)
    <3> SUFFICES ASSUME Base = 0 PROVE v.mask = Wanted(v.m)
      OBVIOUS
    <3>1. ~routed.multi
      BY DEF Base
    <3>2. mask[ModelOf(x)] = [t \in AlignToken |-> 1]
      BY <2>2, <3>1 DEF InitRouting
    <3>3. Wanted(v.m) = [t \in AlignToken |-> 1]
      BY <3>1 DEF Wanted
    <3> QED BY <2>2, <3>2, <3>3
  <2>5. SmallOK(v)
    BY <1>1, <2>2, <2>3, <2>4, SmallAtFirst
  <2> QED BY <2>2, <2>5
<1> QED BY <1>1, <1>2 DEF SmallInv

(* What an entry's group has delivered when its work-items have ended.     *)
LEMMA GroupDelivers ==
  ASSUME RoutedOK, NEW v, SmallViewType(v), SmallOK(v), \A l \in Thread : v.at[l] = Base + 6
  PROVE  /\ Delivered(v)
         /\ v.total = Start(v.m, NumExperts)
         /\ \A e \in AlignExpert : \A i \in SlotsOf(v.m, e) : v.row[PlaceOf(v.m, e, i)] = i
<1>1. Base \in Nat /\ (\A e \in AlignExpert : e \in Counter) /\ 0 \in Counter
  BY BaseNat, ThreadFacts
<1>2. \A c \in Counter : At(v, c) = Base + 6
  BY ThreadFacts DEF At
<1>3. ASSUME NEW e \in AlignExpert, NEW i \in SlotsOf(v.m, e) PROVE IsPlaced(v, i)
  <2>1. i % CountThreads \in Counter
    BY SlotCounter
  <2>2. At(v, i % CountThreads) = Base + 6
    BY <1>2, <2>1
  <2> QED BY <1>1, <2>2 DEF IsPlaced
<1>4. \A e \in AlignExpert : \A i \in SlotsOf(v.m, e) : v.row[PlaceOf(v.m, e, i)] = i
  BY <1>3 DEF SmallOK, SlotPlaced
<1>5. \A c \in Counter, b \in Block :
        /\ b \in Mine(v.m, c) => v.ids[b] = c
        /\ b \in Rest(v.m, c, CountThreads) => v.ids[b] = Inactive
  BY <1>1, <1>2 DEF SmallOK, CounterNamed, HasNamed
<1>6. ASSUME NEW p \in Position
      PROVE  \/ v.row[p] = Numel
             \/ \E e \in AlignExpert : v.row[p] \in SlotsOf(v.m, e) /\ p = PlaceOf(v.m, e, v.row[p])
  <2>1. p % FillThreads \in Thread
    BY ThreadFacts DEF Position
  <2>2. v.at[p % FillThreads] >= Base + 1
    BY <1>1, <2>1
  <2> QED BY <2>2 DEF SmallOK, RowFilled
<1>7. ASSUME NEW e \in AlignExpert, NEW i \in SlotsOf(v.m, e)
      PROVE  \E p \in Position : /\ v.row[p] = i /\ v.ids[p \div BlockSize] = e
                                 /\ \A q \in Position \ {p} : v.row[q] # i
  <2>1. PICK p : p = PlaceOf(v.m, e, i)
    OBVIOUS
  <2>2. p \in Int /\ Start(v.m, e) <= p /\ p < Start(v.m, e + 1)
    BY <2>1, PlaceFacts
  <2>3. PICK b : b = p \div BlockSize
    OBVIOUS
  <2>4. p \in Position /\ b \in Block /\ b \in Mine(v.m, e)
    BY <2>2, <2>3, PositionOf
  <2>5. v.row[p] = i /\ v.ids[b] = e
    BY <1>1, <1>4, <1>5, <2>1, <2>4
  <2>6. ASSUME NEW q \in Position, v.row[q] = i PROVE q = p
    <3>1. i \in Nat /\ i < Numel /\ i \in AlignSlot /\ ServedBy(i) = e
      BY SlotCounter, ServedFacts
    <3>2. PICK d \in AlignExpert : i \in SlotsOf(v.m, d) /\ q = PlaceOf(v.m, d, i)
      BY <1>6, <2>6, <3>1
    <3>3. d = e
      BY <3>1, <3>2, ServedFacts
    <3> QED BY <2>1, <3>2, <3>3
  <2> QED BY <2>3, <2>4, <2>5, <2>6
<1>8. ASSUME NEW p \in Position
      PROVE  v.row[p] = Numel \/ \E e \in AlignExpert : v.row[p] \in SlotsOf(v.m, e)
  BY <1>6
<1>9. ASSUME NEW b \in Block
      PROVE  v.ids[b] \in (IF Owner(v.m, b) = {} THEN {Inactive} ELSE Owner(v.m, b))
  <2>1. CountThreads \in Nat /\ NumExperts <= CountThreads /\ Counter = 0 .. CountThreads - 1
    BY ThreadFacts DEF Counter
  <2>2. PICK ids : ids = v.ids
    OBVIOUS
  <2>3. \A t \in 0 .. CountThreads - 1, c \in Block :
          /\ c \in Mine(v.m, t) => ids[c] = t
          /\ c \in Rest(v.m, t, CountThreads) => ids[c] = Inactive
    BY <1>5, <2>1, <2>2
  <2> QED BY <2>1, <2>2, <2>3, AllNamed
<1>10. v.total = Start(v.m, NumExperts)
  BY <1>1, <1>2 DEF SmallOK, StartsSet
<1> QED BY <1>4, <1>7, <1>8, <1>9, <1>10 DEF Delivered

LEMMA SmallDelivers ==
  ASSUME SmallInv, Small!Finished, NEW m \in Model, Active(m)
  PROVE  /\ PlacedOnce(m) /\ RestPadded(m) /\ BlocksNamed(m)
         /\ total[m] = StartsOf(m)[NumExperts]
         /\ \A e \in AlignExpert : \A i \in SlotsOf(m, e) : sorted[m][PlaceOf(m, e, i)] = i
<1>1. RoutedOK /\ SmallType /\ OutputType
  BY DEF SmallInv
<1>2. PICK x \in Entry : Live(x) /\ ModelOf(x) = m
  BY <1>1, ActiveEntry
<1>3. PICK v : SmallSeen(x, v)
  BY <1>1, <1>2, SmallSees
<1>4. /\ SmallOK(v) /\ SmallViewType(v) /\ v.m = m /\ v.at = smallPhase[x] /\ v.row = sorted[m]
      /\ v.ids = expertIds[m] /\ v.total = total[m]
  BY <1>2, <1>3 DEF SmallSeen, SmallInv
<1>5. \A l \in Thread : v.at[l] = Base + 6
  <2>1. Small!Skipped(x) = Skipped(x) /\ Small!Lane = Thread /\ Small!Entry = Entry
    BY DEF Small!Skipped, Skipped, Small!Model, Model, Small!Lane, Thread, Small!Entry, Entry
  <2>2. \A l \in Thread : smallPhase[x][l] = Len(Small!Phases)
    BY <1>2, <2>1 DEF Small!Finished, Small!Ended, Live
  <2>3. Len(Small!Phases) = Base + 6
    BY <1>1, SmallNumbered
  <2> QED BY <1>4, <2>2, <2>3
<1>6. /\ Delivered(v) /\ v.total = Start(v.m, NumExperts)
      /\ \A e \in AlignExpert : \A i \in SlotsOf(v.m, e) : v.row[PlaceOf(v.m, e, i)] = i
  BY <1>1, <1>4, <1>5, GroupDelivers
<1>7. PlacedOnce(m) /\ RestPadded(m) /\ BlocksNamed(m)
  BY <1>4, <1>6, DeliveredIs
<1> QED BY <1>4, <1>6, <1>7 DEF Start

LEMMA CardinalityHere ==
  \A S : Small!Cardinality(S) = Cardinality(S)
BY DEF Small!Cardinality, Cardinality

(* In the small form the place of a slot follows from the input.           *)
LEMMA PlacesFollow ==
  ASSUME SmallInv
  PROVE  Small!PlacesFixed
<1>1. /\ Small!Model = Model /\ Small!AlignExpert = AlignExpert
      /\ \A m : /\ Small!Active(m) <=> Active(m)
                /\ Small!Served(m) = Served(m) /\ Small!StartsOf(m) = StartsOf(m)
  <2>1. Small!Model = Model /\ Small!AlignExpert = AlignExpert /\ Small!AlignSlot = AlignSlot
    BY DEF Small!Model, Model, Small!AlignExpert, AlignExpert, Small!AlignSlot, AlignSlot
  <2>2. \A m : Small!Active(m) <=> Active(m)
    BY DEF Small!Active, Active, Small!Entry, Entry
  <2>3. \A m : Small!Served(m) = Served(m)
    BY <2>1, ServedHere DEF Small!Served, Served
  <2>4. \A m : Small!StartsOf(m) = StartsOf(m)
    <3> SUFFICES ASSUME NEW m PROVE Small!StartsOf(m) = StartsOf(m)
      OBVIOUS
    <3>1. PICK f : f = Served(m) /\ f = Small!Served(m)
      BY <2>3
    <3>2. PICK c : c = [e \in AlignExpert |-> Cardinality(f[e])]
      OBVIOUS
    <3>3. c = [e \in Small!AlignExpert |-> Small!Cardinality(Small!Served(m)[e])]
      BY <2>1, <3>1, <3>2, CardinalityHere
    <3>4. Small!StartsOf(m) = Small!Starts(c)
      BY <3>3, Zenon DEF Small!StartsOf
    <3>5. StartsOf(m) = Starts(c)
      BY <3>1, <3>2, Zenon DEF StartsOf
    <3> QED BY <3>4, <3>5, StartsHere
  <2> QED BY <2>1, <2>2, <2>3, <2>4
<1>2. ASSUME Small!Finished, NEW m \in Model, Active(m), NEW e \in AlignExpert, NEW i \in Served(m)[e]
      PROVE  sorted[m][StartsOf(m)[e] + Cardinality({j \in Served(m)[e] : Small!Before(j, i)})] = i
  <2>1. sorted[m][PlaceOf(m, e, i)] = i
    BY <1>2, SmallDelivers DEF SlotsOf
  <2> QED BY <2>1 DEF PlaceOf, Start, Ahead, SlotsOf
<1>3. ASSUME Small!Finished, NEW m \in Small!Model, Small!Active(m),
             NEW e \in Small!AlignExpert, NEW i \in Small!Served(m)[e]
      PROVE  sorted[m][Small!StartsOf(m)[e] + Small!Cardinality({j \in Small!Served(m)[e] : Small!Before(j, i)})] = i
  <2>1. m \in Model /\ Active(m) /\ e \in AlignExpert /\ i \in Served(m)[e]
    BY <1>1, <1>3
  <2>2. sorted[m][StartsOf(m)[e] + Cardinality({j \in Served(m)[e] : Small!Before(j, i)})] = i
    BY <1>2, <1>3, <2>1
  <2> QED BY <1>1, <2>2, CardinalityHere
<1> QED BY <1>3, Zenon DEF Small!PlacesFixed

-----------------------------------------------------------------------------
(* The whole: the invariant of the form the host launches.                 *)
AlignInv == IF SmallBatch THEN SmallInv ELSE LargeInv

LEMMA LargeInvStutters ==
  ASSUME LargeInv, UNCHANGED alignVars
  PROVE  LargeInv'
<1>1. /\ routed' = routed /\ mask' = mask /\ total' = total /\ sorted' = sorted /\ expertIds' = expertIds
      /\ alignPhase' = alignPhase /\ loopAt' = loopAt /\ held' = held /\ sharedCounts' = sharedCounts
      /\ temp' = temp /\ cumsumBuffer' = cumsumBuffer
  BY DEF alignVars, largeVars
<1>2. RoutedOK /\ LargeType /\ OutputType /\ Untouched /\ \A y \in Entry : Live(y) => EntryOK(View(y))
  BY DEF LargeInv
<1>3. RoutedOK' /\ (\A y : Live(y)' <=> Live(y)) /\ (\A m : Active(m)' <=> Active(m))
  BY <1>1, <1>2, InputsStay
<1>4. LargeType' /\ OutputType' /\ Untouched'
  <2>1. LargeType'
    BY <1>1, <1>2 DEF LargeType
  <2>2. OutputType'
    BY <1>1, <1>2 DEF OutputType
  <2>3. Untouched'
    BY <1>1, <1>2, <1>3 DEF Untouched
  <2> QED BY <2>1, <2>2, <2>3
<1>5. ASSUME NEW y \in Entry, Live(y)' PROVE EntryOK(View(y))'
  <2>1. ModelOf(y)' = ModelOf(y)
    BY <1>1 DEF ModelOf
  <2>2. View(y)' = View(y)
    BY <1>1, <2>1 DEF View, CountAt, FillAt, SortAt, CountLoop, SortLoop, Held, Tally, Sums, Ranks, MaskRow,
                      TotalOf, SortedRow, IdsRow
  <2>3. PICK v : v = View(y)
    OBVIOUS
  <2>4. EntryOK(v) /\ v = View(y)'
    BY <1>2, <1>3, <1>5, <2>2, <2>3
  <2>5. EntryOK(v)'
    BY <1>1, <2>4, EntryStays
  <2> QED BY <2>4, <2>5
<1> QED BY <1>3, <1>4, <1>5 DEF LargeInv

LEMMA SmallInvStutters ==
  ASSUME SmallInv, UNCHANGED alignVars
  PROVE  SmallInv'
<1>1. /\ routed' = routed /\ mask' = mask /\ total' = total /\ sorted' = sorted /\ expertIds' = expertIds
      /\ smallPhase' = smallPhase /\ smallNext' = smallNext /\ table' = table /\ smallCumsum' = smallCumsum
  BY DEF alignVars, smallVars
<1>2. RoutedOK /\ SmallType /\ OutputType /\ Untouched /\ \A y \in Entry : Live(y) => SmallOK(SmallView(y))
  BY DEF SmallInv
<1>3. RoutedOK' /\ (\A y : Live(y)' <=> Live(y)) /\ (\A m : Active(m)' <=> Active(m))
  BY <1>1, <1>2, InputsStay
<1>4. SmallType' /\ OutputType' /\ Untouched'
  <2>1. SmallType'
    BY <1>1, <1>2 DEF SmallType
  <2>2. OutputType'
    BY <1>1, <1>2 DEF OutputType
  <2>3. Untouched'
    BY <1>1, <1>2, <1>3 DEF Untouched
  <2> QED BY <2>1, <2>2, <2>3
<1>5. ASSUME NEW y \in Entry, Live(y)' PROVE SmallOK(SmallView(y))'
  <2>1. ModelOf(y)' = ModelOf(y)
    BY <1>1 DEF ModelOf
  <2>2. SmallView(y)' = SmallView(y)
    BY <1>1, <2>1 DEF SmallView
  <2>3. PICK v : v = SmallView(y)
    OBVIOUS
  <2>4. SmallOK(v) /\ v = SmallView(y)'
    BY <1>2, <1>3, <1>5, <2>2, <2>3
  <2>5. SmallOK(v)'
    BY <1>1, <2>4, SmallStays
  <2> QED BY <2>4, <2>5
<1> QED BY <1>3, <1>4, <1>5 DEF SmallInv

LEMMA AlignInductive ==
  /\ AlignInit => AlignInv
  /\ AlignInv /\ [AlignNext]_alignVars => AlignInv'
<1>1. ASSUME AlignInit PROVE AlignInv
  BY <1>1, LargeInvAtFirst, SmallInvAtFirst DEF AlignInit, AlignInv
<1>2. ASSUME AlignInv, [AlignNext]_alignVars PROVE AlignInv'
  <2>1. CASE UNCHANGED alignVars
    <3>1. limit' = limit
      BY <2>1 DEF alignVars
    <3>2. SmallBatch' <=> SmallBatch
      BY <3>1 DEF SmallBatch
    <3> QED BY <1>2, <2>1, <3>2, LargeInvStutters, SmallInvStutters DEF AlignInv
  <2>2. ASSUME NEW x \in Entry, LargeStep(x) PROVE AlignInv'
    <3>1. ~SmallBatch /\ Large!Serve(x) /\ limit' = limit
      BY <2>2 DEF LargeStep
    <3>2. ~SmallBatch'
      BY <3>1 DEF SmallBatch
    <3> QED BY <1>2, <3>1, <3>2, LargeInvStep DEF AlignInv
  <2>3. ASSUME NEW x \in Entry, SmallStep(x) PROVE AlignInv'
    <3>1. SmallBatch /\ Small!Serve(x) /\ limit' = limit
      BY <2>3 DEF SmallStep
    <3>2. SmallBatch'
      BY <3>1 DEF SmallBatch
    <3> QED BY <1>2, <3>1, <3>2, SmallInvStep DEF AlignInv
  <2> QED BY <1>2, <2>1, <2>2, <2>3 DEF AlignNext
<1> QED BY <1>1, <1>2

(* Once the kernels have ended, every slot an adapter's experts serve is   *)
(* in sorted_token_ids exactly once, in a block expert_ids gives to its    *)
(* expert, and padding is everywhere else - whatever order the work-items  *)
(* of count_and_sort_expert_tokens_kernel took their ranks in, and at one  *)
(* and the same place in the small form.                                   *)
THEOREM EverySlotPlaced == AlignSpec => []SlotsPlaced
<1>1. AlignInv => SlotsPlaced
  <2> SUFFICES ASSUME AlignInv PROVE SlotsPlaced
    OBVIOUS
  <2>1. CASE SmallBatch
    <3>1. SmallInv
      BY <2>1 DEF AlignInv
    <3>2. Small!PlacesFixed
      BY <3>1, PlacesFollow
    <3>3. ASSUME Finished, NEW m \in Model, Active(m) PROVE PlacedOnce(m) /\ RestPadded(m)
      BY <2>1, <3>1, <3>3, SmallDelivers DEF Finished
    <3> QED BY <3>2, <3>3 DEF SlotsPlaced
  <2>2. CASE ~SmallBatch
    <3>1. LargeInv
      BY <2>2 DEF AlignInv
    <3>2. ASSUME Finished, NEW m \in Model, Active(m) PROVE PlacedOnce(m) /\ RestPadded(m)
      BY <2>2, <3>1, <3>2, LargeDelivers DEF Finished
    <3> QED BY <2>2, <3>2 DEF SlotsPlaced
  <2> QED BY <2>1, <2>2
<1> QED BY <1>1, AlignInductive, PTL DEF AlignSpec

(* The rest of what moe_align_block_size returns: expert_ids names every   *)
(* block and total_tokens_post_pad is the sum of the padded counts (in the *)
(* forms where no group of another kernel may clear it); and no row of an  *)
(* adapter that is absent or disabled is ever written.                     *)
THEOREM EveryRowRight == AlignSpec => []RowsRight
<1>1. AlignInv => RowsRight
  <2> SUFFICES ASSUME AlignInv PROVE RowsRight
    OBVIOUS
  <2>1. CASE SmallBatch
    <3>1. SmallInv /\ Untouched
      BY <2>1 DEF AlignInv, SmallInv
    <3>2. ASSUME Finished, NEW m \in Model, Active(m)
          PROVE  BlocksNamed(m) /\ total[m] = StartsOf(m)[NumExperts]
      BY <2>1, <3>1, <3>2, SmallDelivers DEF Finished
    <3> QED BY <3>1, <3>2 DEF RowsRight, Untouched
  <2>2. CASE ~SmallBatch
    <3>1. LargeInv /\ Untouched
      BY <2>2 DEF AlignInv, LargeInv
    <3>2. ASSUME Finished, NEW m \in Model, Active(m)
          PROVE  BlocksNamed(m) /\ (~routed.multi => total[m] = StartsOf(m)[NumExperts])
      BY <2>2, <3>1, <3>2, LargeDelivers DEF Finished
    <3> QED BY <2>2, <3>1, <3>2 DEF RowsRight, Untouched
  <2> QED BY <2>1, <2>2
<1> QED BY <1>1, AlignInductive, PTL DEF AlignSpec
=============================================================================
