----------------------------- MODULE NatLemmas -----------------------------
(***************************************************************************)
(* Facts about natural numbers the other proofs share: quotients and       *)
(* remainders; induction, from the well-foundedness of the order; and the  *)
(* forms of the recursive functions of the models that are reasoned about: *)
(* running sums (PreTiles of GroupedGemm, Scanned of Sampler), functions   *)
(* applied one after the other (Afterwards of MemCpy), digits and lengths  *)
(* (RowMajor and RowStart of KvCache).                                     *)
(***************************************************************************)
EXTENDS Integers, WellFoundedInduction, TLAPS

LEMMA DivMod ==
  ASSUME NEW a \in Nat, NEW c \in Nat \ {0}
  PROVE  /\ a \div c \in Nat /\ a % c \in 0 .. c - 1
         /\ a = ((a \div c) * c) + (a % c)
  OBVIOUS

LEMMA DivModUnique ==
  ASSUME NEW q \in Nat, NEW c \in Nat \ {0}, NEW r \in 0 .. c - 1
  PROVE  /\ (q * c + r) \div c = q
         /\ ((q * c) + r) % c = r
  OBVIOUS

LEMMA StrideMod ==
  ASSUME NEW a \in Nat, NEW c \in Nat \ {0}
  PROVE  (a + c) % c = a % c
<1>1. PICK q \in Nat, r \in 0 .. c - 1 : a = (q * c) + r /\ r = a % c
  BY DivMod
<1>2. q + 1 \in Nat /\ a + c = ((q + 1) * c) + r
  BY <1>1
<1>3. (((q + 1) * c) + r) % c = r
  BY <1>2, DivModUnique
<1> QED
  BY <1>1, <1>2, <1>3

LEMMA NearMultiples ==
  ASSUME NEW p \in Nat, NEW q \in Nat, NEW c \in Nat \ {0},
         p * c <= q * c, q * c < (p * c) + c
  PROVE  p = q
<1>1. ~(q < p)
  <2>1. ASSUME q < p PROVE FALSE
    <3>1. PICK d \in Nat : p = q + d + 1
      BY <2>1
    <3>2. p * c = (q * c) + (d * c) + c /\ d * c >= 0
      BY <3>1
    <3> QED BY <3>2
  <2> QED BY <2>1
<1>2. ~(p < q)
  <2>1. ASSUME p < q PROVE FALSE
    <3>1. PICK d \in Nat : q = p + d + 1
      BY <2>1
    <3>2. q * c = (p * c) + (d * c) + c /\ d * c >= 0
      BY <3>1
    <3> QED BY <3>2
  <2> QED BY <2>1
<1> QED BY <1>1, <1>2

LEMMA NearMod ==
  ASSUME NEW a \in Nat, NEW b \in Nat, NEW c \in Nat \ {0},
         a % c = b % c, a <= b, b < a + c
  PROVE  a = b
<1>0. PICK r \in 0 .. c - 1 : r = a % c /\ r = b % c
  BY DivMod
<1>1. PICK p \in Nat, q \in Nat : a = (p * c) + r /\ b = (q * c) + r
  <2>1. a \div c \in Nat /\ a = ((a \div c) * c) + r
    BY <1>0, DivMod
  <2>2. b \div c \in Nat /\ b = ((b \div c) * c) + r
    BY <1>0, DivMod
  <2> QED BY <2>1, <2>2
<1>2. p * c \in Nat /\ q * c \in Nat
  OBVIOUS
<1>3. p * c <= q * c /\ q * c < (p * c) + c
  BY <1>1, <1>2
<1>4. p = q
  BY <1>3, NearMultiples
<1> QED BY <1>1, <1>4

LEMMA GroupBound ==
  ASSUME NEW n \in Nat, NEW c \in Nat \ {0}, NEW s \in 0 .. n - 1
  PROVE  s \div c \in 0 .. (n + c - 1) \div c - 1
  OBVIOUS

LEMMA QuotientMonotone ==
  ASSUME NEW a \in Nat, NEW b \in Nat, NEW c \in Nat \ {0}, a <= b
  PROVE  a \div c <= b \div c
<1>1. PICK p \in Nat, r \in 0 .. c - 1 : a = (p * c) + r /\ p = a \div c
  BY DivMod
<1>2. PICK q \in Nat, s \in 0 .. c - 1 : b = (q * c) + s /\ q = b \div c
  BY DivMod
<1>3. ASSUME q < p PROVE FALSE
  <2>1. PICK d \in Nat : p = q + d + 1
    BY <1>3
  <2>2. p * c = (q * c) + (d * c) + c /\ d * c >= 0 /\ q * c \in Nat
    BY <2>1
  <2> QED BY <1>1, <1>2, <2>2
<1> QED BY <1>1, <1>2, <1>3

LEMMA QuotientBelow ==
  ASSUME NEW n \in Nat, NEW c \in Nat \ {0}, NEW s \in 0 .. (n * c) - 1
  PROVE  s \div c \in 0 .. n - 1
<1>1. PICK q \in Nat, r \in 0 .. c - 1 : s = (q * c) + r /\ q = s \div c
  BY DivMod
<1>2. ASSUME q >= n PROVE FALSE
  <2>1. PICK d \in Nat : q = n + d
    BY <1>2
  <2>2. q * c = (n * c) + (d * c) /\ d * c >= 0 /\ n * c \in Nat
    BY <2>1
  <2> QED BY <1>1, <2>2
<1> QED BY <1>1, <1>2

-----------------------------------------------------------------------------
(* The order of the naturals as a relation, without its definition: SMT    *)
(* does not know operators that are arguments.                             *)
LEMMA LessWellFounded ==
  \E R : IsWellFoundedOn(R, Nat) /\ \A m, n \in Nat : m < n => <<m, n>> \in R
<1>1. \A m, n \in Nat : m < n => <<m, n>> \in OpToRel(<, Nat)
  BY DEF OpToRel
<1>2. IsWellFoundedOn(OpToRel(<, Nat), Nat)
  BY NatLessThanWellFounded
<1> QED
  BY <1>1, <1>2, Zenon

LEMMA LeastNat ==
  ASSUME NEW T, T \subseteq Nat, T # {}
  PROVE \E n \in T : \A m \in T : n <= m
<1>1. PICK R : IsWellFoundedOn(R, Nat) /\ \A m, n \in Nat : m < n => <<m, n>> \in R
  BY LessWellFounded, Zenon
<1>w. IsWellFoundedOn(R, Nat)
  BY <1>1, Zenon
<1>2. PICK n \in T : \A m \in T : ~(<<m, n>> \in R)
  BY <1>w, WFMin, Zenon
<1>3. ASSUME NEW m \in T PROVE n <= m
  <2>1. m \in Nat /\ n \in Nat
    OBVIOUS
  <2>2. ~(m < n)
    BY <1>1, <1>2, <2>1, Zenon
  <2> QED BY <2>1, <2>2, SMT
<1> QED BY <1>3

LEMMA NatInduct ==
  ASSUME NEW T, 0 \in T, \A n \in Nat : n \in T => n + 1 \in T
  PROVE  Nat \subseteq T
<1> SUFFICES ASSUME Nat \ T # {} PROVE FALSE
  OBVIOUS
<1>1. PICK n \in Nat \ T : \A m \in Nat \ T : n <= m
  BY LeastNat, Zenon
<1>2. n # 0 /\ n - 1 \in Nat /\ n - 1 < n
  BY SMT
<1>3. n - 1 \in T
  BY <1>1, <1>2, SMT
<1> QED BY <1>1, <1>2, <1>3, SMT

-----------------------------------------------------------------------------
(* g is the running sum of h, up to k or without end. *)
SumTo(g, h, k) == g = [n \in 0 .. k |-> IF n = 0 THEN 0 ELSE g[n - 1] + h[n - 1]]
RunningSum(g, h) == g = [n \in Nat |-> IF n = 0 THEN 0 ELSE g[n - 1] + h[n - 1]]

LEMMA SumToAgree ==
  ASSUME NEW h, NEW g, NEW f, NEW k \in Nat, NEW m \in Nat,
         SumTo(g, h, k), SumTo(f, h, m), k <= m
  PROVE  \A n \in 0 .. k : g[n] = f[n]
<1> DEFINE T == {n \in Nat : n <= k => g[n] = f[n]}
<1>1. 0 \in T
  BY DEF SumTo
<1>2. ASSUME NEW n \in Nat, n \in T PROVE n + 1 \in T
  <2> SUFFICES ASSUME n + 1 <= k PROVE g[n + 1] = f[n + 1]
    OBVIOUS
  <2>0. n + 1 \in 0 .. k /\ n + 1 \in 0 .. m /\ n + 1 # 0 /\ (n + 1) - 1 = n
    OBVIOUS
  <2>1. g[n + 1] = g[n] + h[n]
    BY <2>0 DEF SumTo
  <2>2. f[n + 1] = f[n] + h[n]
    BY <2>0 DEF SumTo
  <2> QED BY <1>2, <2>1, <2>2
<1> HIDE DEF T
<1>3. Nat \subseteq T
  BY <1>1, <1>2, NatInduct, Zenon
<1> QED BY <1>3 DEF T

LEMMA SumToExists ==
  ASSUME NEW h
  PROVE  \A k \in Nat : \E g : SumTo(g, h, k)
<1> DEFINE T == {k \in Nat : \E g : SumTo(g, h, k)}
<1>1. 0 \in T
  <2> DEFINE g == [n \in 0 .. 0 |-> 0]
  <2>1. SumTo(g, h, 0)
    BY DEF SumTo
  <2> QED BY <2>1
<1>2. ASSUME NEW k \in Nat, k \in T PROVE k + 1 \in T
  <2>1. PICK f : SumTo(f, h, k)
    BY <1>2
  <2> DEFINE g == [n \in 0 .. (k + 1) |-> IF n = k + 1 THEN f[k] + h[k] ELSE f[n]]
  <2>2. ASSUME NEW n \in 0 .. (k + 1)
        PROVE  g[n] = IF n = 0 THEN 0 ELSE g[n - 1] + h[n - 1]
    <3>1. CASE n = k + 1
      <4>1. n - 1 = k /\ k \in 0 .. (k + 1) /\ k # k + 1 /\ n # 0
        BY <3>1
      <4> QED BY <3>1, <4>1
    <3>2. CASE n # k + 1 /\ n # 0
      <4>1. n \in 0 .. k /\ n - 1 \in 0 .. (k + 1) /\ n - 1 # k + 1
        BY <3>2
      <4>2. f[n] = f[n - 1] + h[n - 1]
        BY <2>1, <3>2, <4>1 DEF SumTo
      <4> QED BY <3>2, <4>1, <4>2
    <3>3. CASE n = 0
      BY <2>1, <3>3 DEF SumTo
    <3> QED BY <3>1, <3>2, <3>3
  <2>3. g = [n \in 0 .. (k + 1) |-> g[n]]
    OBVIOUS
  <2> HIDE DEF g
  <2>4. SumTo(g, h, k + 1)
    BY <2>2, <2>3, Zenon DEF SumTo
  <2> QED BY <2>4
<1> HIDE DEF T
<1>3. Nat \subseteq T
  BY <1>1, <1>2, NatInduct, Zenon
<1> QED BY <1>3 DEF T

LEMMA SumExists ==
  ASSUME NEW h
  PROVE  \E g : RunningSum(g, h)
<1> DEFINE G(k) == CHOOSE g : SumTo(g, h, k)
<1> DEFINE s == [n \in Nat |-> G(n)[n]]
<1>1. ASSUME NEW k \in Nat PROVE SumTo(G(k), h, k)
  <2>1. \E g : SumTo(g, h, k)
    BY SumToExists
  <2> QED BY <2>1, Zenon
<1>2. ASSUME NEW n \in Nat
      PROVE  s[n] = IF n = 0 THEN 0 ELSE s[n - 1] + h[n - 1]
  <2>0. s[n] = G(n)[n] /\ (n # 0 => s[n - 1] = G(n - 1)[n - 1])
    OBVIOUS
  <2> HIDE DEF s
  <2>1. CASE n = 0
    <3>1. SumTo(G(n), h, n)
      BY <1>1
    <3> HIDE DEF G
    <3> QED BY <2>0, <2>1, <3>1 DEF SumTo
  <2>2. CASE n # 0
    <3>1. SumTo(G(n), h, n) /\ SumTo(G(n - 1), h, n - 1) /\ n - 1 \in Nat
      BY <1>1, <2>2
    <3> HIDE DEF G
    <3>2. G(n)[n - 1] = G(n - 1)[n - 1]
      <4>1. n - 1 <= n /\ n - 1 \in 0 .. n - 1
        BY <2>2
      <4> QED BY <3>1, <4>1, SumToAgree
    <3>3. G(n)[n] = G(n)[n - 1] + h[n - 1]
      BY <3>1, <2>2 DEF SumTo
    <3> QED BY <2>0, <2>2, <3>2, <3>3
  <2> QED BY <2>1, <2>2
<1>3. s = [n \in Nat |-> s[n]]
  OBVIOUS
<1> HIDE DEF s
<1> QED BY <1>2, <1>3, Zenon DEF RunningSum

LEMMA RunningSumFacts ==
  ASSUME NEW h, NEW g, RunningSum(g, h), NEW N \in Nat, \A n \in 0 .. N - 1 : h[n] \in Nat
  PROVE  /\ g[0] = 0
         /\ \A n \in 0 .. N : g[n] \in Nat
         /\ \A n \in 0 .. N - 1 : g[n + 1] = g[n] + h[n]
<1>1. g[0] = 0
  BY DEF RunningSum
<1>2. ASSUME NEW n \in Nat PROVE g[n + 1] = g[n] + h[n]
  <2>1. n + 1 \in Nat /\ n + 1 # 0 /\ (n + 1) - 1 = n
    OBVIOUS
  <2> QED BY <2>1 DEF RunningSum
<1> DEFINE T == {n \in Nat : n <= N => g[n] \in Nat}
<1>3. 0 \in T
  BY <1>1
<1>4. ASSUME NEW n \in Nat, n \in T PROVE n + 1 \in T
  BY <1>2, <1>4
<1> HIDE DEF T
<1>5. Nat \subseteq T
  BY <1>3, <1>4, NatInduct, Zenon
<1>6. \A n \in 0 .. N : g[n] \in Nat
  BY <1>5 DEF T
<1> QED BY <1>1, <1>2, <1>6

LEMMA RunningSumMonotone ==
  ASSUME NEW h, NEW g, RunningSum(g, h), NEW N \in Nat, \A n \in 0 .. N - 1 : h[n] \in Nat,
         NEW m \in 0 .. N
  PROVE  \A n \in m .. N : g[m] <= g[n]
<1> DEFINE T == {n \in Nat : m <= n /\ n <= N => g[m] <= g[n]}
<1>0. /\ g[0] = 0
      /\ \A n \in 0 .. N : g[n] \in Nat
      /\ \A n \in 0 .. N - 1 : g[n + 1] = g[n] + h[n]
  BY RunningSumFacts
<1>1. 0 \in T
  BY <1>0
<1>2. ASSUME NEW n \in Nat, n \in T PROVE n + 1 \in T
  <2> SUFFICES ASSUME m <= n + 1, n + 1 <= N PROVE g[m] <= g[n + 1]
    OBVIOUS
  <2>1. g[m] \in Nat /\ g[n] \in Nat /\ h[n] \in Nat /\ g[n + 1] = g[n] + h[n]
    BY <1>0
  <2>2. CASE m = n + 1
    BY <2>1, <2>2
  <2>3. CASE m <= n
    BY <1>2, <2>1, <2>3
  <2> QED BY <2>2, <2>3
<1> HIDE DEF T
<1>3. Nat \subseteq T
  BY <1>1, <1>2, NatInduct, Zenon
<1> QED BY <1>3 DEF T

-----------------------------------------------------------------------------
(* g applies the functions F[1], ..., F[k] to a, one after the other.      *)
Iterates(g, a, F, k) == g = [n \in 0 .. k |-> IF n = 0 THEN a ELSE F[n][g[n - 1]]]

LEMMA IteratesExists ==
  ASSUME NEW a, NEW F
  PROVE  \A k \in Nat : \E g : Iterates(g, a, F, k)
<1> DEFINE T == {k \in Nat : \E g : Iterates(g, a, F, k)}
<1>1. 0 \in T
  <2> DEFINE g == [n \in 0 .. 0 |-> a]
  <2>1. Iterates(g, a, F, 0)
    BY DEF Iterates
  <2> QED BY <2>1
<1>2. ASSUME NEW k \in Nat, k \in T PROVE k + 1 \in T
  <2>1. PICK f : Iterates(f, a, F, k)
    BY <1>2
  <2> DEFINE g == [n \in 0 .. (k + 1) |-> IF n = k + 1 THEN F[n][f[k]] ELSE f[n]]
  <2>2. ASSUME NEW n \in 0 .. (k + 1)
        PROVE  g[n] = IF n = 0 THEN a ELSE F[n][g[n - 1]]
    <3>1. CASE n = k + 1
      <4>1. n - 1 = k /\ k \in 0 .. (k + 1) /\ k # k + 1 /\ n # 0
        BY <3>1
      <4> QED BY <3>1, <4>1
    <3>2. CASE n # k + 1 /\ n # 0
      <4>1. n \in 0 .. k /\ n - 1 \in 0 .. (k + 1) /\ n - 1 # k + 1
        BY <3>2
      <4>2. f[n] = F[n][f[n - 1]]
        BY <2>1, <3>2, <4>1 DEF Iterates
      <4> QED BY <3>2, <4>1, <4>2
    <3>3. CASE n = 0
      BY <2>1, <3>3 DEF Iterates
    <3> QED BY <3>1, <3>2, <3>3
  <2>3. g = [n \in 0 .. (k + 1) |-> g[n]]
    OBVIOUS
  <2> HIDE DEF g
  <2>4. Iterates(g, a, F, k + 1)
    BY <2>2, <2>3, Zenon DEF Iterates
  <2> QED BY <2>4
<1> HIDE DEF T
<1>3. Nat \subseteq T
  BY <1>1, <1>2, NatInduct, Zenon
<1> QED BY <1>3 DEF T

(* Functions on a set S keep in S what they are applied to.                *)
LEMMA IteratesIn ==
  ASSUME NEW S, NEW a \in S, NEW k \in Nat, NEW F, \A n \in 1 .. k : F[n] \in [S -> S]
  PROVE  \E g : Iterates(g, a, F, k) /\ \A n \in 0 .. k : g[n] \in S
<1>1. PICK g : Iterates(g, a, F, k)
  BY IteratesExists
<1>2. \A n \in 0 .. k : g[n] = IF n = 0 THEN a ELSE F[n][g[n - 1]]
  BY <1>1, Zenon DEF Iterates
<1> DEFINE T == {n \in Nat : n <= k => g[n] \in S}
<1>3. 0 \in T
  BY <1>2
<1>4. ASSUME NEW n \in Nat, n \in T PROVE n + 1 \in T
  <2> SUFFICES ASSUME n + 1 <= k PROVE g[n + 1] \in S
    OBVIOUS
  <2>1. n + 1 \in 1 .. k /\ n + 1 \in 0 .. k /\ (n + 1) - 1 = n /\ n + 1 # 0 /\ g[n] \in S
    BY <1>4
  <2>2. g[n + 1] = F[n + 1][g[n]] /\ F[n + 1] \in [S -> S]
    BY <1>2, <2>1
  <2> QED
    BY <2>1, <2>2
<1> HIDE DEF T
<1>5. Nat \subseteq T
  BY <1>3, <1>4, NatInduct, Zenon
<1>6. \A n \in 0 .. k : g[n] \in S
  BY <1>5 DEF T
<1> QED
  BY <1>1, <1>6

-----------------------------------------------------------------------------
(* A number in two digits.                                                 *)
LEMMA TwoDigits ==
  ASSUME NEW c \in Nat \ {0}, NEW n \in Nat, NEW q \in 0 .. n - 1, NEW r \in 0 .. c - 1
  PROVE  q * c + r \in 0 .. (n * c) - 1
<1>1. q \in Nat /\ r \in Nat /\ q * c \in Nat /\ n * c \in Nat
  OBVIOUS
<1>2. PICK d \in Nat : n = (q + 1) + d
  BY n - (q + 1) \in Nat
<1>3. n * c = ((q * c) + c) + (d * c) /\ d * c \in Nat
  BY <1>2
<1> DEFINE x == q * c
<1>4. x \in Nat /\ n * c = (x + c) + (d * c)
  BY <1>1, <1>3
<1> HIDE DEF x
<1>5. x + r \in 0 .. (n * c) - 1
  BY <1>1, <1>3, <1>4
<1> QED BY <1>5 DEF x

LEMMA SameDigits ==
  ASSUME NEW c \in Nat \ {0}, NEW q \in Nat, NEW p \in Nat, NEW r \in 0 .. c - 1, NEW s \in 0 .. c - 1,
         q * c + r = p * c + s
  PROVE  q = p /\ r = s
<1>1. (q * c + r) \div c = q /\ ((q * c) + r) % c = r
  BY DivModUnique
<1>2. (p * c + s) \div c = p /\ ((p * c) + s) % c = s
  BY DivModUnique
<1> QED BY <1>1, <1>2

(* Those of three digits, the first of them r.                            *)
DigitSums(a, b, r) == {(r * a + y) * b + e : y \in 0 .. a - 1, e \in 0 .. b - 1}
DigitRow(a, b, n, r) == {i \in 0 .. (n * (a * b)) - 1 : i \div (a * b) = r}

LEMMA DigitsOfRow ==
  ASSUME NEW a \in Nat \ {0}, NEW b \in Nat \ {0}, NEW n \in Nat, NEW r \in 0 .. n - 1
  PROVE  DigitSums(a, b, r) = DigitRow(a, b, n, r)
<1> DEFINE c == a * b
<1>1. c \in Nat \ {0} /\ r \in Nat
  OBVIOUS
<1>2. ASSUME NEW i, NEW y \in 0 .. a - 1, NEW e \in 0 .. b - 1, i = ((r * a) + y) * b + e
      PROVE  i \in 0 .. (n * c) - 1 /\ i \div c = r
  <2>1. y * b + e \in 0 .. c - 1
    BY TwoDigits
  <2>2. i = (r * c) + (y * b + e)
    <3>1. y \in Nat /\ e \in Nat
      OBVIOUS
    <3> QED BY <1>1, <1>2, <3>1
  <2> DEFINE m == y * b + e
  <2> HIDE DEF m, c
  <2>3. (r * c) + m \in 0 .. (n * c) - 1 /\ ((r * c) + m) \div c = r
    <3>1. m \in 0 .. c - 1
      BY <2>1 DEF m
    <3> QED BY <1>1, <3>1, TwoDigits, DivModUnique
  <2> QED BY <2>2, <2>3 DEF m
<1>3. ASSUME NEW i, i \in 0 .. (n * c) - 1, i \div c = r
      PROVE  \E y \in 0 .. a - 1, e \in 0 .. b - 1 : i = ((r * a) + y) * b + e
  <2>1. i \in Nat
    BY <1>1, <1>3
  <2> DEFINE m == i % c
             y == m \div b
             e == m % b
  <2>2. m \in 0 .. c - 1 /\ i = (r * c) + m
    BY <1>1, <1>3, <2>1, DivMod
  <2>3. m \in Nat
    BY <1>1, <2>2
  <2> HIDE DEF m
  <2>4. y \in 0 .. a - 1
    BY <2>2, QuotientBelow
  <2>5. e \in 0 .. b - 1 /\ m = (y * b) + e
    BY <2>3, DivMod
  <2> HIDE DEF y, e
  <2>6. i = ((r * a) + y) * b + e
    <3>1. y \in Nat /\ e \in Nat
      BY <2>4, <2>5
    <3> QED BY <1>1, <2>2, <2>5, <3>1
  <2> QED BY <2>4, <2>5, <2>6
<1>4. \A i : i \in DigitSums(a, b, r) <=> i \in DigitRow(a, b, n, r)
  <2>1. \A i : i \in DigitSums(a, b, r) <=> \E y \in 0 .. a - 1, e \in 0 .. b - 1 : i = ((r * a) + y) * b + e
    BY DEF DigitSums
  <2>2. \A i : i \in DigitRow(a, b, n, r) <=> i \in 0 .. (n * c) - 1 /\ i \div c = r
    BY DEF DigitRow
  <2> HIDE DEF c
  <2> QED BY <1>2, <1>3, <2>1, <2>2, Zenon
<1> QED BY <1>4

(* The multiples of v, each with the v numbers from it on, are all.        *)
LEMMA MultiplesAll ==
  ASSUME NEW n \in Nat, NEW v \in Nat \ {0}
  PROVE  /\ \A i \in 0 .. (n * v) - 1 :
              \E c \in {x \in 0 .. (n * v) - 1 : x % v = 0}, e \in 0 .. v - 1 : i = c + e
         /\ \A c \in {x \in 0 .. (n * v) - 1 : x % v = 0}, e \in 0 .. v - 1 : c + e \in 0 .. (n * v) - 1
<1>1. n * v \in Nat
  OBVIOUS
<1>2. ASSUME NEW i \in 0 .. (n * v) - 1
      PROVE  i \in Nat /\ i \div v \in 0 .. n - 1 /\ i % v \in 0 .. v - 1 /\ i = ((i \div v) * v) + (i % v)
  <2>1. i \in Nat
    BY <1>1
  <2> QED BY <1>1, <2>1, QuotientBelow, DivMod
<1>3. ASSUME NEW q \in 0 .. n - 1, NEW e \in 0 .. v - 1 PROVE (q * v) + e \in 0 .. (n * v) - 1
  BY <1>1, TwoDigits
<1>4. ASSUME NEW q \in 0 .. n - 1 PROVE q * v \in 0 .. (n * v) - 1 /\ (q * v) % v = 0
  <2>1. q \in Nat /\ 0 \in 0 .. v - 1 /\ q * v \in Nat
    BY <1>1
  <2>2. ((q * v) + 0) % v = 0 /\ (q * v) + 0 \in 0 .. (n * v) - 1
    BY <1>1, <1>3, <2>1, DivModUnique
  <2>3. (q * v) + 0 = q * v
    BY <2>1
  <2> QED BY <2>2, <2>3
<1>5. ASSUME NEW i \in 0 .. (n * v) - 1
      PROVE  \E c \in {x \in 0 .. (n * v) - 1 : x % v = 0}, e \in 0 .. v - 1 : i = c + e
  <2> DEFINE q == i \div v
             e == i % v
             c == q * v
  <2>1. q \in 0 .. n - 1 /\ e \in 0 .. v - 1 /\ i = c + e
    BY <1>2
  <2>2. c \in 0 .. (n * v) - 1 /\ c % v = 0
    <3> HIDE DEF q
    <3> QED BY <1>4, <2>1
  <2> HIDE DEF q, e, c
  <2> QED BY <2>1, <2>2
<1>6. ASSUME NEW c \in {x \in 0 .. (n * v) - 1 : x % v = 0}, NEW e \in 0 .. v - 1
      PROVE  c + e \in 0 .. (n * v) - 1
  <2> DEFINE q == c \div v
  <2>1. q \in 0 .. n - 1 /\ c = (q * v) + (c % v) /\ c % v = 0 /\ c \in Nat
    BY <1>2
  <2> HIDE DEF q
  <2>2. c = q * v
    BY <1>1, <2>1
  <2>3. (q * v) + e \in 0 .. (n * v) - 1
    BY <1>3, <2>1
  <2> QED BY <2>2, <2>3
<1> QED BY <1>5, <1>6, Zenon

(* Rounding up: one more, unless it is even.                               *)
LEMMA Ceiling ==
  ASSUME NEW n \in Nat, NEW c \in Nat \ {0}
  PROVE  (n + c - 1) \div c = (n \div c) + (IF n % c = 0 THEN 0 ELSE 1)
<1> DEFINE q == n \div c
           r == n % c
<1>1. q \in Nat /\ r \in 0 .. c - 1 /\ n = (q * c) + r
  BY DivMod
<1> HIDE DEF q, r
<1>2. CASE r = 0
  <2>1. n + c - 1 = (q * c) + (c - 1) /\ c - 1 \in 0 .. c - 1
    BY <1>1, <1>2
  <2>2. ((q * c) + (c - 1)) \div c = q
    BY <1>1, <2>1, DivModUnique
  <2> QED BY <1>1, <1>2, <2>1, <2>2 DEF q, r
<1>3. CASE r # 0
  <2>1. n + c - 1 = ((q + 1) * c) + (r - 1) /\ r - 1 \in 0 .. c - 1 /\ q + 1 \in Nat
    BY <1>1, <1>3
  <2>2. (((q + 1) * c) + (r - 1)) \div c = q + 1
    BY <1>1, <2>1, DivModUnique
  <2> QED BY <1>1, <1>3, <2>1, <2>2 DEF q, r
<1> QED BY <1>2, <1>3

(* b things shared between k, so many to each, are all of them.            *)
LEMMA SharedOut ==
  ASSUME NEW b \in Nat, NEW k \in Nat \ {0}, NEW p \in 0 .. b - 1
  PROVE  /\ (b + k - 1) \div k \in Nat \ {0}
         /\ p \div ((b + k - 1) \div k) \in 0 .. k - 1
<1> DEFINE w == (b + k - 1) \div k
           r == (b + k - 1) % k
           m == w * k
<1>1. b + k - 1 \in Nat /\ p \in Nat
  OBVIOUS
<1>2. w \in Nat /\ r \in 0 .. k - 1 /\ b + k - 1 = m + r
  BY <1>1, DivMod
<1> HIDE DEF w, r
<1>3. m \in Nat
  BY <1>2
<1>4. m = k * w /\ (w = 0 => m = 0)
  BY <1>2
<1> HIDE DEF m
<1>5. b <= m
  BY <1>2, <1>3
<1>6. w # 0 /\ p \in 0 .. m - 1
  BY <1>1, <1>3, <1>4, <1>5
<1>7. p \in 0 .. (k * w) - 1
  BY <1>4, <1>6
<1>8. p \div w \in 0 .. k - 1
  BY <1>2, <1>6, <1>7, QuotientBelow
<1> QED BY <1>2, <1>6, <1>8 DEF w

(* A number written out from its digits b, each in its own base a.         *)
Horner(f, a, b, k) == f = [d \in 0 .. k |-> IF d = 0 THEN 0 ELSE (f[d - 1] * a[d]) + b[d]]

LEMMA HornerExists ==
  ASSUME NEW k \in Nat, NEW a, NEW b, \A d \in 1 .. k : a[d] \in Int /\ b[d] \in Int
  PROVE  \E f : Horner(f, a, b, k)
<1> DEFINE F == [d \in 1 .. k |-> [x \in Int |-> (x * a[d]) + b[d]]]
<1>1. \A d \in 1 .. k : F[d] \in [Int -> Int]
  OBVIOUS
<1>2. PICK g : Iterates(g, 0, F, k) /\ \A d \in 0 .. k : g[d] \in Int
  <2> HIDE DEF F
  <2>1. 0 \in Int
    OBVIOUS
  <2>2. \E g : Iterates(g, 0, F, k) /\ \A d \in 0 .. k : g[d] \in Int
    BY <1>1, <2>1, IteratesIn, Zenon
  <2> QED BY <2>2, Zenon
<1>3. g = [d \in 0 .. k |-> IF d = 0 THEN 0 ELSE F[d][g[d - 1]]]
  BY <1>2 DEF Iterates
<1>4. ASSUME NEW d \in 0 .. k
      PROVE  (IF d = 0 THEN 0 ELSE F[d][g[d - 1]]) = (IF d = 0 THEN 0 ELSE (g[d - 1] * a[d]) + b[d])
  <2>1. d # 0 => d \in 1 .. k /\ d - 1 \in 0 .. k
    OBVIOUS
  <2> QED BY <1>2, <2>1
<1> HIDE DEF F
<1> QED BY <1>3, <1>4, Zenon DEF Horner

LEMMA HornerRuns ==
  ASSUME NEW k \in Nat, NEW a, NEW b, \A d \in 1 .. k : a[d] \in Int /\ b[d] \in Int,
         NEW f, Horner(f, a, b, k)
  PROVE  /\ f[0] = 0 /\ \A d \in 0 .. k : f[d] \in Int
         /\ \A d \in 1 .. k : f[d] = (f[d - 1] * a[d]) + b[d]
<1>1. f[0] = 0
  <2>1. 0 \in 0 .. k
    OBVIOUS
  <2> QED BY <2>1, Zenon DEF Horner
<1>2. ASSUME NEW d \in 1 .. k PROVE f[d] = (f[d - 1] * a[d]) + b[d]
  <2>1. d \in 0 .. k /\ d # 0
    OBVIOUS
  <2> QED BY <2>1, Zenon DEF Horner
<1> DEFINE T == {d \in Nat : d <= k => f[d] \in Int}
<1>3. 0 \in T
  BY <1>1
<1>4. ASSUME NEW d \in Nat, d \in T PROVE d + 1 \in T
  <2> SUFFICES ASSUME d + 1 <= k PROVE f[d + 1] \in Int
    OBVIOUS
  <2>1. d + 1 \in 1 .. k /\ (d + 1) - 1 = d /\ f[d] \in Int
    BY <1>4
  <2>2. f[d + 1] = (f[d] * a[d + 1]) + b[d + 1]
    BY <1>2, <2>1
  <2> QED BY <2>1, <2>2
<1> HIDE DEF T
<1>5. Nat \subseteq T
  BY <1>3, <1>4, NatInduct
<1> QED BY <1>1, <1>2, <1>5 DEF T

(* The sums of the first numbers of a list.                                *)
PartSums(f, h, k) == f = [d \in 0 .. k |-> IF d = 0 THEN 0 ELSE f[d - 1] + h[d]]

LEMMA SumsExist ==
  ASSUME NEW k \in Nat, NEW h, \A d \in 1 .. k : h[d] \in Nat
  PROVE  \E f : PartSums(f, h, k)
<1> DEFINE F == [d \in 1 .. k |-> [x \in Nat |-> x + h[d]]]
<1>1. \A d \in 1 .. k : F[d] \in [Nat -> Nat]
  OBVIOUS
<1>2. PICK g : Iterates(g, 0, F, k) /\ \A d \in 0 .. k : g[d] \in Nat
  <2> HIDE DEF F
  <2>1. 0 \in Nat
    OBVIOUS
  <2>2. \E g : Iterates(g, 0, F, k) /\ \A d \in 0 .. k : g[d] \in Nat
    BY <1>1, <2>1, IteratesIn, Zenon
  <2> QED BY <2>2, Zenon
<1>3. g = [d \in 0 .. k |-> IF d = 0 THEN 0 ELSE F[d][g[d - 1]]]
  BY <1>2 DEF Iterates
<1>4. ASSUME NEW d \in 0 .. k
      PROVE  (IF d = 0 THEN 0 ELSE F[d][g[d - 1]]) = (IF d = 0 THEN 0 ELSE g[d - 1] + h[d])
  <2>1. d # 0 => d \in 1 .. k /\ d - 1 \in 0 .. k
    OBVIOUS
  <2> QED BY <1>2, <2>1
<1> HIDE DEF F
<1> QED BY <1>3, <1>4, Zenon DEF PartSums

LEMMA SumsRun ==
  ASSUME NEW k \in Nat, NEW h, \A d \in 1 .. k : h[d] \in Nat,
         NEW f, PartSums(f, h, k)
  PROVE  /\ f[0] = 0 /\ \A d \in 0 .. k : f[d] \in Nat
         /\ \A d \in 1 .. k : f[d] = f[d - 1] + h[d]
<1>1. f[0] = 0
  <2>1. 0 \in 0 .. k
    OBVIOUS
  <2> QED BY <2>1, Zenon DEF PartSums
<1>2. ASSUME NEW d \in 1 .. k PROVE f[d] = f[d - 1] + h[d]
  <2>1. d \in 0 .. k /\ d # 0
    OBVIOUS
  <2> QED BY <2>1, Zenon DEF PartSums
<1> DEFINE T == {d \in Nat : d <= k => f[d] \in Nat}
<1>3. 0 \in T
  BY <1>1
<1>4. ASSUME NEW d \in Nat, d \in T PROVE d + 1 \in T
  <2> SUFFICES ASSUME d + 1 <= k PROVE f[d + 1] \in Nat
    OBVIOUS
  <2>1. d + 1 \in 1 .. k /\ (d + 1) - 1 = d /\ f[d] \in Nat
    BY <1>4
  <2>2. f[d + 1] = f[d] + h[d + 1]
    BY <1>2, <2>1
  <2> QED BY <2>1, <2>2
<1> HIDE DEF T
<1>5. Nat \subseteq T
  BY <1>3, <1>4, NatInduct
<1> QED BY <1>1, <1>2, <1>5 DEF T
=============================================================================
