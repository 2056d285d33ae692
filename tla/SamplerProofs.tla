---------------------------- MODULE SamplerProofs ----------------------------
(***************************************************************************)
(* compact_sampling_mask for any vocabulary, work-items, vector size and   *)
(* width of token_ids, after any call of the sampler: the packed ids, the  *)
(* count and the bits of a row are those of the tokens the sampler kept.   *)
(***************************************************************************)
EXTENDS Sampler, NatLemmas, FiniteSetTheorems

-----------------------------------------------------------------------------
(* The tokens of a row the sampler kept, those before the n-th token, and  *)
(* what the mask is to show of the row.                                    *)
Left(r) == {t \in answers[r].kept : call.rows[r][t] # NegInf}
Below(r, n) == {t \in Left(r) : t < n}
Support(r) == IF active[r] THEN Left(r) ELSE {}
Rank(S, t) == Cardinality({u \in S : u < t})

(* The first token of the i-th work-item of wave w.                        *)
FirstOf(w, i) == (w * Lanes + i) * VecSize

(* The sampler's rows: those done have an answer, and their logits were    *)
(* written for every token.                                                *)
SamplerOK ==
  /\ call.rows \in Seq([Tokens -> Int])
  /\ call.rows = <<>> => call.mode = "default"
  /\ row \in 1 .. Len(call.rows) + 1
  /\ (\E S : answers \in Seq(S)) /\ Len(answers) = row - 1
  /\ DOMAIN returned = DOMAIN call.rows
  /\ \A r \in DOMAIN call.rows : returned[r] = [t \in Tokens |-> returned[r][t]]
  /\ \A r \in 1 .. row - 1 :
       /\ answers[r].kept \subseteq Tokens
       /\ call.mode = "logits" =>
            \A t \in Tokens : returned[r][t] # <<NegInf>> <=> t \in Left(r)

RowPacked(r) ==
  /\ counts[r] = Cardinality(Support(r))
  /\ \A t \in Support(r) : Rank(Support(r), t) < MaxKept => ids[r][Rank(Support(r), t)] = t
  /\ \A b \in Bytes : mask[r][b] = {t % ByteBits : t \in {u \in Support(r) : u \div ByteBits = b}}

(* A row under way has the tokens of its first n behind it.                *)
RowHalfPacked(r, w) ==
  /\ running = Cardinality(Below(r, FirstOf(w, 0)))
  /\ \A t \in Below(r, FirstOf(w, 0)) : Rank(Left(r), t) < MaxKept => ids[r][Rank(Left(r), t)] = t
  /\ \A b \in Bytes : 2 * b < w * Lanes =>
       mask[r][b] = {t % ByteBits : t \in {u \in Left(r) : u \div ByteBits = b}}

MaskOK ==
  /\ maskRow \in Nat
  /\ maskRow = 0 => wave = 0 /\ running = 0
  /\ maskRow # 0 =>
       /\ call.mode = "logits" /\ row = Len(call.rows) + 1
       /\ maskRow <= Len(call.rows) + 1
       /\ active \in [Rows -> BOOLEAN]
       /\ ids \in [Rows -> [0 .. MaxKept - 1 -> Int]]
       /\ mask \in [Rows -> [Bytes -> SUBSET Int]]
       /\ counts \in [Rows -> Int]
       /\ wave \in 0 .. Waves - 1
       /\ \A r \in 1 .. maskRow - 1 : RowPacked(r)
       /\ maskRow \in Rows => RowHalfPacked(maskRow, wave)

SamplingInv == SamplerOK /\ MaskOK

-----------------------------------------------------------------------------
LEMMA SamplerSizes ==
  /\ Vocab \in Nat \ {0} /\ Lanes \in Nat \ {0} /\ VecSize \in Nat \ {0}
  /\ MaxKept \in Nat \ {0}
  /\ ByteBits \in Nat \ {0} /\ Lanes * VecSize \in Nat \ {0}
  /\ \A t \in Tokens : t \in Nat /\ t < Vocab
<1>1. Vocab \in Nat \ {0} /\ Lanes \in Nat \ {0} /\ VecSize \in Nat \ {0} /\ MaxKept \in 1 .. Vocab
  BY SizeAssumption, PairAssumption
<1> QED BY <1>1 DEF ByteBits, Tokens

(* Rounding up.                                                            *)
LEMMA RoundedUp ==
  ASSUME NEW n \in Nat, NEW c \in Nat \ {0}
  PROVE  /\ (n + c - 1) \div c \in Nat
         /\ n <= ((n + c - 1) \div c) * c
         /\ ((n + c - 1) \div c) * c <= n + c - 1
<1> DEFINE a == n + c - 1
<1>1. a \in Nat
  OBVIOUS
<1>2. a \div c \in Nat /\ a % c \in 0 .. c - 1 /\ a = ((a \div c) * c) + (a % c)
  BY <1>1, DivMod
<1>3. (a \div c) * c \in Nat
  BY <1>2
<1> DEFINE p == (a \div c) * c
<1>4. a = p + (a % c) /\ p \in Nat /\ a % c \in 0 .. c - 1
  BY <1>2, <1>3
<1>5. a % c <= c - 1 /\ a % c >= 0 /\ a % c \in Int
  BY <1>4
<1> HIDE DEF p
<1>6. n <= p /\ p <= n + c - 1
  BY <1>4, <1>5
<1> QED BY <1>2, <1>6 DEF p

LEMMA MinMaxOfTwo ==
  ASSUME NEW a \in Int, NEW b \in Int
  PROVE  /\ Min({a, b}) = IF a <= b THEN a ELSE b
         /\ Max({a, b}) = IF a >= b THEN a ELSE b
<1>1. \E x \in {a, b} : \A y \in {a, b} : x <= y
  <2>1. CASE a <= b
    BY <2>1
  <2>2. CASE ~(a <= b)
    BY <2>2
  <2> QED BY <2>1, <2>2
<1>2. Min({a, b}) \in {a, b} /\ \A y \in {a, b} : Min({a, b}) <= y
  BY <1>1 DEF Min
<1>3. \E x \in {a, b} : \A y \in {a, b} : x >= y
  <2>1. CASE a <= b
    BY <2>1
  <2>2. CASE ~(a <= b)
    BY <2>2
  <2> QED BY <2>1, <2>2
<1>4. Max({a, b}) \in {a, b} /\ \A y \in {a, b} : Max({a, b}) >= y
  BY <1>3 DEF Max
<1> QED BY <1>2, <1>4

(* The vector loops of a work-item reach every element it handles, and the *)
(* slices of the work-items every token.                                   *)
LEMMA VisitsAll ==
  ASSUME NEW n \in Nat
  PROVE  0 .. n - 1 \subseteq Visits(n)
<1> DEFINE loops == (n + VecSize - 1) \div VecSize
           left == n - (loops - 1) * VecSize
           p == loops * VecSize
<1>0. VecSize \in Nat \ {0}
  BY SamplerSizes
<1>1. loops \in Nat /\ n <= p /\ p <= n + VecSize - 1
  BY <1>0, RoundedUp
<1>2. (loops - 1) * VecSize = p - VecSize /\ p \in Nat
  BY <1>0, <1>1
<1>3. left = n - (p - VecSize)
  BY <1>2
<1> HIDE DEF p, loops
<1>4. CASE left = VecSize
  <2>1. p = n
    BY <1>0, <1>1, <1>2, <1>3, <1>4
  <2>2. Visits(n) = {i \in 0 .. p - 1 : TRUE} \cup {}
    BY <1>4 DEF Visits, loops, p
  <2> QED BY <2>1, <2>2
<1>5. CASE left # VecSize
  <2>1. Visits(n) = {i \in 0 .. (p - VecSize) - 1 : TRUE} \cup {(p - VecSize) + e : e \in 0 .. left - 1}
    BY <1>2, <1>5 DEF Visits, loops
  <2> SUFFICES ASSUME NEW i \in 0 .. n - 1 PROVE i \in Visits(n)
    OBVIOUS
  <2>2. CASE i < p - VecSize
    BY <1>0, <1>2, <2>1, <2>2
  <2>3. CASE ~(i < p - VecSize)
    <3>1. i - (p - VecSize) \in 0 .. left - 1 /\ i = (p - VecSize) + (i - (p - VecSize))
      BY <1>0, <1>2, <1>3, <2>3
    <3> QED BY <2>1, <3>1
  <2> QED BY <2>2, <2>3
<1> QED BY <1>4, <1>5

LEMMA SlicesCover ==
  ASSUME NEW t \in Tokens
  PROVE  \E i \in Lane : t \in Slice(i)
<1> DEFINE i == t \div Share
           p == i * Share
<1>0. Vocab \in Nat \ {0} /\ Lanes \in Nat \ {0} /\ t \in Nat /\ t < Vocab
  BY SamplerSizes
<1>1. Share \in Nat /\ Vocab <= Share * Lanes
  BY <1>0, RoundedUp DEF Share
<1>2. Share # 0
  BY <1>0, <1>1
<1>3. i \in Nat /\ t % Share \in 0 .. Share - 1 /\ t = (i * Share) + (t % Share)
  BY <1>0, <1>1, <1>2, DivMod
<1>4. p \in Nat
  BY <1>1, <1>3
<1>5. t = p + (t % Share) /\ t % Share \in Nat /\ t % Share < Share /\ p <= t
  <2> DEFINE e == t % Share
  <2>1. e \in 0 .. Share - 1 /\ t = p + e
    BY <1>3
  <2> HIDE DEF e, p
  <2>2. e \in Nat /\ e < Share /\ p <= t
    BY <1>0, <1>1, <1>4, <2>1
  <2> QED BY <2>1, <2>2 DEF e
<1>6. i < Lanes
  <2>1. SUFFICES ASSUME i >= Lanes PROVE FALSE
    BY <1>0, <1>3
  <2>2. PICK d \in Nat : i = Lanes + d
    BY <1>0, <1>3, <2>1, i - Lanes \in Nat
  <2> HIDE DEF i
  <2>3. p = (Share * Lanes) + (d * Share) /\ d * Share \in Nat /\ Share * Lanes \in Nat
    BY <1>0, <1>1, <2>2
  <2> HIDE DEF p
  <2> QED BY <1>0, <1>1, <1>5, <2>3
<1> HIDE DEF i
<1>7. Offset(i) = p
  <2>1. p \in Int /\ Vocab \in Int /\ p <= Vocab
    BY <1>0, <1>4, <1>5
  <2> QED BY <2>1, MinMaxOfTwo DEF Offset
<1> HIDE DEF p
<1>8. Handled(i) \in Nat /\ t % Share < Handled(i)
  <2> DEFINE m == IF Share <= Vocab - p THEN Share ELSE Vocab - p
  <2>1. Min({Share, Vocab - p}) = m /\ m \in Int
    BY <1>0, <1>1, <1>4, MinMaxOfTwo
  <2>2. m > 0 /\ t % Share < m
    BY <1>0, <1>1, <1>2, <1>4, <1>5
  <2> HIDE DEF m
  <2>3. m \in Int /\ 0 \in Int
    BY <2>1
  <2>4. Max({m, 0}) = IF m >= 0 THEN m ELSE 0
    BY <2>3, MinMaxOfTwo
  <2>5. Max({m, 0}) = m
    BY <2>2, <2>3, <2>4
  <2>6. Handled(i) = Max({Min({Share, Vocab - p}), 0})
    BY <1>7 DEF Handled
  <2>7. Handled(i) = m
    BY <2>1, <2>5, <2>6
  <2> QED BY <2>2, <2>3, <2>7
<1>9. t % Share \in Visits(Handled(i))
  BY <1>5, <1>8, VisitsAll
<1>10. t \in Slice(i)
  BY <1>5, <1>7, <1>9 DEF Slice
<1> QED BY <1>0, <1>3, <1>6, <1>10 DEF Lane

-----------------------------------------------------------------------------
(* Ranks in a set of tokens.                                               *)
LEMMA TokensFinite ==
  ASSUME NEW S, S \subseteq Tokens
  PROVE  IsFiniteSet(S) /\ Cardinality(S) \in Nat
<1>1. IsFiniteSet(Tokens)
  BY SamplerSizes, FS_Interval DEF Tokens
<1> QED BY <1>1, FS_Subset, FS_CardinalityType

LEMMA RanksRise ==
  ASSUME NEW S, S \subseteq Tokens, NEW t \in S, NEW u \in S, t < u
  PROVE  Rank(S, t) < Rank(S, u)
<1> DEFINE T == {x \in S : x < t}
           U == {x \in S : x < u}
<1>0. t \in Nat /\ u \in Nat /\ \A x \in S : x \in Nat
  BY SamplerSizes
<1>1. IsFiniteSet(U) /\ Cardinality(U) \in Nat /\ Cardinality(T) \in Nat
  BY TokensFinite
<1>2. T \subseteq U /\ t \in U /\ t \notin T
  <2>1. ASSUME NEW x \in T PROVE x \in U
    <3>1. x \in S /\ x < t
      OBVIOUS
    <3>2. x < u
      BY <1>0, <3>1
    <3> QED BY <3>1, <3>2
  <2>2. ~(t < t)
    BY <1>0
  <2> QED BY <2>1, <2>2
<1>3. Cardinality(T) <= Cardinality(U) /\ Cardinality(T) # Cardinality(U)
  BY <1>1, <1>2, FS_Subset
<1> HIDE DEF T, U
<1>4. Cardinality(T) < Cardinality(U)
  BY <1>1, <1>3
<1> QED BY <1>4 DEF T, U, Rank

LEMMA RanksDiffer ==
  ASSUME NEW S, S \subseteq Tokens
  PROVE  /\ \A t \in S : Rank(S, t) \in Nat
         /\ \A t, u \in S : Rank(S, t) = Rank(S, u) => t = u
<1>1. ASSUME NEW t \in S PROVE Rank(S, t) \in Nat
  <2>1. {u \in S : u < t} \subseteq Tokens
    OBVIOUS
  <2> QED BY <2>1, TokensFinite DEF Rank
<1>2. ASSUME NEW t \in S, NEW u \in S, Rank(S, t) = Rank(S, u) PROVE t = u
  <2>1. t \in Nat /\ u \in Nat
    BY SamplerSizes
  <2>2. ~(t < u)
    <3>1. SUFFICES ASSUME t < u PROVE FALSE
      OBVIOUS
    <3>2. Rank(S, t) < Rank(S, u)
      BY <3>1, RanksRise
    <3> QED BY <1>1, <1>2, <3>2
  <2>3. ~(u < t)
    <3>1. SUFFICES ASSUME u < t PROVE FALSE
      OBVIOUS
    <3>2. Rank(S, u) < Rank(S, t)
      BY <3>1, RanksRise
    <3> QED BY <1>1, <1>2, <3>2
  <2> QED BY <2>1, <2>2, <2>3
<1> QED BY <1>1, <1>2

(* Sets of which the one ends before the other begins.                     *)
LEMMA ApartSum ==
  ASSUME NEW S, NEW T, S \subseteq Tokens, T \subseteq Tokens, S \cap T = {}
  PROVE  Cardinality(S \cup T) = Cardinality(S) + Cardinality(T)
<1>1. IsFiniteSet(S) /\ IsFiniteSet(T) /\ Cardinality(S) \in Nat /\ Cardinality(T) \in Nat
  BY TokensFinite
<1>2. Cardinality(S \cap T) = 0
  BY FS_EmptySet
<1>3. Cardinality(S \cup T) = Cardinality(S) + Cardinality(T) - Cardinality(S \cap T)
  BY <1>1, FS_Union
<1> QED BY <1>1, <1>2, <1>3

-----------------------------------------------------------------------------
(* Where the tokens of work-items and waves begin.                         *)
LEMMA FirstFacts ==
  ASSUME NEW w \in Nat, NEW i \in Nat
  PROVE  /\ FirstOf(w, i) \in Nat
         /\ FirstOf(w, i + 1) = FirstOf(w, i) + VecSize
         /\ FirstOf(w, Lanes) = FirstOf(w + 1, 0)
         /\ w * Lanes \in Nat
<1>0. Lanes \in Nat /\ VecSize \in Nat
  BY SamplerSizes
<1>1. w * Lanes \in Nat /\ (w + 1) * Lanes = (w * Lanes) + Lanes
  BY <1>0
<1> DEFINE a == w * Lanes
<1>2. FirstOf(w, i) = (a + i) * VecSize /\ FirstOf(w, i + 1) = (a + (i + 1)) * VecSize
      /\ FirstOf(w, Lanes) = (a + Lanes) * VecSize /\ FirstOf(w + 1, 0) = ((a + Lanes) + 0) * VecSize
  BY <1>1 DEF FirstOf
<1> HIDE DEF a
<1>3. a \in Nat
  BY <1>1 DEF a
<1>4. (a + i) * VecSize \in Nat /\ (a + (i + 1)) * VecSize = ((a + i) * VecSize) + VecSize
  BY <1>0, <1>3
<1>5. (a + Lanes) + 0 = a + Lanes
  BY <1>0, <1>3
<1> QED BY <1>1, <1>2, <1>4, <1>5

LEMMA FirstRises ==
  ASSUME NEW w \in Nat, NEW i \in Nat, NEW j \in Nat, i <= j
  PROVE  FirstOf(w, i) <= FirstOf(w, j)
<1>0. VecSize \in Nat /\ w * Lanes \in Nat
  BY SamplerSizes, FirstFacts
<1>1. PICK d \in Nat : j = i + d
  BY j - i \in Nat
<1> DEFINE a == w * Lanes
<1>2. FirstOf(w, i) = (a + i) * VecSize /\ FirstOf(w, j) = (a + (i + d)) * VecSize
  BY <1>1 DEF FirstOf
<1> HIDE DEF a
<1>3. a \in Nat
  BY <1>0 DEF a
<1>4. (a + (i + d)) * VecSize = ((a + i) * VecSize) + (d * VecSize) /\ d * VecSize \in Nat
      /\ (a + i) * VecSize \in Nat
  BY <1>0, <1>3
<1> QED BY <1>2, <1>4

(* A token of a wave is one of its work-items'.                            *)
LEMMA HasLane ==
  ASSUME NEW w \in Nat, NEW t \in Nat, FirstOf(w, 0) <= t, t < FirstOf(w + 1, 0)
  PROVE  \E i \in Lane : FirstOf(w, i) <= t /\ t < FirstOf(w, i) + VecSize
<1>0. Lanes \in Nat \ {0} /\ VecSize \in Nat \ {0} /\ w * Lanes \in Nat
  BY SamplerSizes, FirstFacts
<1> DEFINE f == FirstOf(w, 0)
           i == (t - f) \div VecSize
           e == (t - f) % VecSize
<1>1. f \in Nat /\ t - f \in Nat
  <2>1. FirstOf(w, 0) \in Nat
    BY FirstFacts, 0 \in Nat
  <2> QED BY <2>1
<1>2. i \in Nat /\ e \in 0 .. VecSize - 1 /\ t - f = (i * VecSize) + e
  BY <1>0, <1>1, DivMod
<1>3. FirstOf(w, i) = f + (i * VecSize) /\ FirstOf(w + 1, 0) = f + (Lanes * VecSize)
  <2> DEFINE a == w * Lanes
  <2>1. a \in Nat
    BY <1>0
  <2>2. FirstOf(w, i) = (a + i) * VecSize /\ f = (a + 0) * VecSize /\ FirstOf(w, Lanes) = (a + Lanes) * VecSize
    BY DEF FirstOf
  <2> HIDE DEF a, f, i
  <2>3. (a + i) * VecSize = ((a + 0) * VecSize) + (i * VecSize)
        /\ (a + Lanes) * VecSize = ((a + 0) * VecSize) + (Lanes * VecSize)
    BY <1>0, <1>2, <2>1
  <2>4. FirstOf(w, Lanes) = FirstOf(w + 1, 0)
    BY FirstFacts
  <2> QED BY <2>2, <2>3, <2>4
<1>4. i < Lanes
  <2>1. SUFFICES ASSUME i >= Lanes PROVE FALSE
    BY <1>0, <1>2
  <2> HIDE DEF i, f, e
  <2>2. PICK d \in Nat : i = Lanes + d
    BY <1>0, <1>2, <2>1, i - Lanes \in Nat
  <2>3. i * VecSize = (Lanes * VecSize) + (d * VecSize) /\ d * VecSize \in Nat /\ Lanes * VecSize \in Nat
    BY <1>0, <2>2
  <2> QED BY <1>0, <1>1, <1>2, <1>3, <2>3
<1> HIDE DEF i, f, e
<1>5. i * VecSize \in Nat
  BY <1>0, <1>2
<1>6. FirstOf(w, i) <= t /\ t < FirstOf(w, i) + VecSize
  BY <1>0, <1>1, <1>2, <1>3, <1>5
<1> QED BY <1>0, <1>2, <1>4, <1>6 DEF Lane

(* The waves reach every token and every byte.                             *)
LEMMA WavesReach ==
  /\ Waves \in Nat \ {0}
  /\ \A t \in Tokens : t < FirstOf(Waves, 0)
  /\ \A b \in Bytes : b \in Nat /\ 2 * b < Waves * Lanes
<1>0. Vocab \in Nat \ {0} /\ Lanes \in Nat \ {0} /\ VecSize \in Nat \ {0} /\ Lanes * VecSize \in Nat \ {0}
      /\ ByteBits \in Nat \ {0}
  BY SamplerSizes
<1>1. Waves \in Nat /\ Vocab <= Waves * (Lanes * VecSize)
  BY <1>0, RoundedUp DEF Waves
<1>2. Waves # 0
  BY <1>0, <1>1
<1>3. FirstOf(Waves, 0) = Waves * (Lanes * VecSize) /\ Waves * Lanes \in Nat
  BY <1>0, <1>1 DEF FirstOf
<1>4. ASSUME NEW b \in Bytes PROVE b \in Nat /\ 2 * b < Waves * Lanes
  <2> DEFINE n == (Vocab + ByteBits - 1) \div ByteBits
  <2>1. n \in Nat /\ n * ByteBits <= Vocab + ByteBits - 1
    BY <1>0, RoundedUp
  <2>2. b \in Nat /\ b + 1 <= n
    BY <2>1 DEF Bytes
  <2> HIDE DEF n
  <2>3. PICK d \in Nat : n = (b + 1) + d
    BY <2>1, <2>2, n - (b + 1) \in Nat
  <2>4. n * ByteBits = ((b * ByteBits) + ByteBits) + (d * ByteBits) /\ d * ByteBits \in Nat /\ b * ByteBits \in Nat
    BY <1>0, <2>2, <2>3
  <2>5. b * ByteBits < Vocab
    BY <1>0, <2>1, <2>4
  <2>6. b * ByteBits = (2 * b) * VecSize
    BY <1>0, <2>2 DEF ByteBits
  <2> DEFINE c == Waves * Lanes
  <2>7. c * VecSize = Waves * (Lanes * VecSize) /\ c \in Nat
    BY <1>0, <1>1
  <2> HIDE DEF c
  <2>8. 2 * b < c
    <3>1. SUFFICES ASSUME 2 * b >= c PROVE FALSE
      BY <2>2, <2>7
    <3>2. PICK x \in Nat : 2 * b = c + x
      BY <2>2, <2>7, <3>1, (2 * b) - c \in Nat
    <3>3. (2 * b) * VecSize = (c * VecSize) + (x * VecSize) /\ x * VecSize \in Nat /\ c * VecSize \in Nat
      BY <1>0, <2>7, <3>2
    <3> QED BY <1>0, <1>1, <2>5, <2>6, <2>7, <3>3
  <2> QED BY <2>2, <2>8 DEF c
<1>5. \A t \in Tokens : t < FirstOf(Waves, 0)
  BY <1>0, <1>1, <1>3, SamplerSizes
<1> QED BY <1>1, <1>2, <1>4, <1>5

-----------------------------------------------------------------------------
(* The sampler.                                                            *)
LEMMA SamplerStarts ==
  ASSUME SamplerIdle
  PROVE  SamplerOK
<1>1. call.rows = <<>> /\ call.mode = "default" /\ row = 1 /\ returned = <<>> /\ answers = <<>>
  BY DEF SamplerIdle
<1>2. Len(call.rows) = 0 /\ DOMAIN call.rows = {} /\ DOMAIN returned = {}
  BY <1>1
<1>3. answers \in Seq({}) /\ Len(answers) = 0 /\ call.rows \in Seq([Tokens -> Int])
  BY <1>1
<1>4. \E S : answers \in Seq(S)
  BY <1>3
<1> QED BY <1>1, <1>2, <1>3, <1>4 DEF SamplerOK

LEMMA SamplerCalled ==
  ASSUME SamplerOK, CallSampler
  PROVE  SamplerOK'
<1>1. call.rows = <<>> /\ call' \in Calls /\ row' = row /\ answers' = answers
      /\ returned' = [r \in DOMAIN call'.rows |-> [t \in Tokens |-> <<>>]]
  BY DEF CallSampler
<1>2. Len(call.rows) = 0
  BY <1>1
<1>3. row = 1 /\ Len(answers) = 0 /\ \E S : answers \in Seq(S)
  BY <1>2 DEF SamplerOK
<1>4. call'.rows \in Seq([Tokens -> Int]) /\ call'.rows # <<>>
  BY <1>1, CallAssumption
<1>5. Len(call'.rows) \in Nat
  BY <1>4
<1>6. DOMAIN returned' = DOMAIN call'.rows
      /\ \A r \in DOMAIN call'.rows : returned'[r] = [t \in Tokens |-> returned'[r][t]]
  BY <1>1
<1> QED BY <1>1, <1>3, <1>4, <1>5, <1>6 DEF SamplerOK

LEMMA SamplerStutters ==
  ASSUME SamplerOK, UNCHANGED <<call, row, returned, answers>>
  PROVE  SamplerOK'
<1>1. \A r : Left(r)' = Left(r)
  BY DEF Left
<1> QED BY <1>1 DEF SamplerOK

LEMMA SamplerDraws ==
  ASSUME SamplerOK, Draw
  PROVE  SamplerOK'
<1>1. row <= Len(call.rows) /\ row' = row + 1 /\ call' = call
  BY DEF Draw, At
<1>2. row \in DOMAIN call.rows /\ row \in Nat /\ row >= 1 /\ Len(call.rows) \in Nat
      /\ DOMAIN call.rows = 1 .. Len(call.rows)
  BY <1>1 DEF SamplerOK
<1>3. PICK e : answers' = Append(answers, e) /\ e.kept = {t \in Tokens : Kept(t)}
  <2>1. \E a, b, c, d : answers' = Append(answers, [token |-> a, kept |-> {t \in Tokens : Kept(t)},
                                                    norm |-> b, candidates |-> c, draws |-> d])
    BY Zenon DEF Draw
  <2>2. \A a, b, c, d : [token |-> a, kept |-> {t \in Tokens : Kept(t)}, norm |-> b,
                          candidates |-> c, draws |-> d].kept = {t \in Tokens : Kept(t)}
    OBVIOUS
  <2> QED BY <2>1, <2>2, Zenon
<1>4. \A r \in DOMAIN call.rows :
        returned'[r] = IF r = row THEN [t \in Tokens |-> Processed(t)] ELSE returned[r]
  <2>1. returned' = [returned EXCEPT ![row] =
                      [t \in Tokens |-> IF \E i \in Lane : t \in Slice(i) THEN Processed(t) ELSE @[t]]]
    BY DEF Draw
  <2>2. \A t \in Tokens : \E i \in Lane : t \in Slice(i)
    BY SlicesCover
  <2>3. DOMAIN returned = DOMAIN call.rows
    BY DEF SamplerOK
  <2>4. [t \in Tokens |-> IF \E i \in Lane : t \in Slice(i) THEN Processed(t) ELSE returned[row][t]]
        = [t \in Tokens |-> Processed(t)]
    BY <2>2
  <2> QED BY <1>2, <2>1, <2>3, <2>4
<1>5. DOMAIN returned' = DOMAIN call.rows
  BY DEF Draw, SamplerOK
<1>6. \A r \in DOMAIN call.rows : returned'[r] = [t \in Tokens |-> returned'[r][t]]
  BY <1>4 DEF SamplerOK
<1>7. PICK S : answers \in Seq(S) /\ Len(answers) = row - 1
  BY DEF SamplerOK
<1>8. /\ answers' \in Seq(S \cup {e}) /\ Len(answers') = row
      /\ answers'[row] = e /\ \A r \in 1 .. row - 1 : answers'[r] = answers[r]
  <2>1. answers \in Seq(S \cup {e}) /\ Len(answers) = row - 1
    BY <1>7
  <2>2. e \in S \cup {e}
    OBVIOUS
  <2> QED BY <1>2, <1>3, <2>1, <2>2
<1>9. ASSUME NEW r \in 1 .. row
      PROVE  /\ answers'[r].kept \subseteq Tokens
             /\ call.mode = "logits" => \A t \in Tokens : returned'[r][t] # <<NegInf>> <=> t \in Left(r)'
  <2>1. CASE r = row
    <3>1. answers'[r].kept = {t \in Tokens : Kept(t)}
      BY <1>3, <1>8, <2>1
    <3>2. ASSUME call.mode = "logits", NEW t \in Tokens
          PROVE  returned'[r][t] # <<NegInf>> <=> t \in Left(r)'
      <4>1. returned'[r][t] = Processed(t)
        BY <1>2, <1>4, <2>1
      <4>2. t \in Left(r)' <=> Kept(t) /\ Logit(t) # NegInf
        BY <1>1, <2>1, <3>1 DEF Left, Logit
      <4>3. CASE Kept(t)
        <5>1. Processed(t) = <<Logit(t)>>
          BY <3>2, <4>3 DEF Processed
        <5> QED BY <4>1, <4>2, <4>3, <5>1
      <4>4. CASE ~Kept(t)
        <5>1. Processed(t) = <<NegInf>>
          BY <3>2, <4>4 DEF Processed
        <5> QED BY <4>1, <4>2, <4>4, <5>1
      <4> QED BY <4>3, <4>4
    <3> QED BY <3>1, <3>2
  <2>2. CASE r # row
    <3>1. r \in 1 .. row - 1 /\ r \in DOMAIN call.rows
      BY <1>1, <1>2, <2>2
    <3>2. answers'[r] = answers[r] /\ returned'[r] = returned[r]
      BY <1>4, <1>8, <2>2, <3>1
    <3>3. Left(r)' = Left(r)
      BY <1>1, <3>2 DEF Left
    <3> QED BY <3>1, <3>2, <3>3 DEF SamplerOK
  <2> QED BY <2>1, <2>2
<1>10. (row + 1) - 1 = row /\ row + 1 \in 1 .. Len(call.rows) + 1
  BY <1>1, <1>2
<1>11. \E X : answers' \in Seq(X)
  BY <1>8
<1>12. call.rows \in Seq([Tokens -> Int]) /\ (call.rows = <<>> => call.mode = "default")
  BY DEF SamplerOK
<1> QED BY <1>1, <1>5, <1>6, <1>8, <1>9, <1>10, <1>11, <1>12 DEF SamplerOK

LEMMA SamplerSteps ==
  ASSUME SamplerOK, CallSampler \/ SamplerNext
  PROVE  SamplerOK'
<1>1. CASE CallSampler
  BY <1>1, SamplerCalled
<1>2. CASE Draw
  BY <1>2, SamplerDraws
<1>3. CASE StatsK \/ SearchK \/ MassK \/ MassKP \/ Stats \/ StatsP \/ HalveP \/ InterpolateP
  <2>1. UNCHANGED <<call, row, returned, answers>>
    <3>1. CASE StatsK BY <3>1 DEF StatsK
    <3>2. CASE SearchK BY <3>2 DEF SearchK
    <3>3. CASE MassK BY <3>3 DEF MassK
    <3>4. CASE MassKP BY <3>4 DEF MassKP
    <3>5. CASE Stats BY <3>5 DEF Stats
    <3>6. CASE StatsP BY <3>6 DEF StatsP
    <3>7. CASE HalveP BY <3>7 DEF HalveP, SettleP
    <3>8. CASE InterpolateP BY <3>8 DEF InterpolateP, SettleP
    <3> QED BY <1>3, <3>1, <3>2, <3>3, <3>4, <3>5, <3>6, <3>7, <3>8
  <2> QED BY <2>1, SamplerStutters
<1> QED BY <1>1, <1>2, <1>3 DEF SamplerNext, RandomOnly, TopKOnly, TopPOnly, TopKTopP

(* Once every row has its answer the sampler rests.                        *)
LEMMA SamplerRests ==
  ASSUME SamplerOK, row = Len(call.rows) + 1, call.mode = "logits"
  PROVE  ~(CallSampler \/ SamplerNext)
<1>1. call.rows # <<>> /\ Len(call.rows) \in Nat
  BY DEF SamplerOK
<1>2. \A s : ~At(s)
  BY <1>1 DEF At
<1>3. ~CallSampler
  BY <1>1 DEF CallSampler
<1>4. ~SamplerNext
  BY <1>2 DEF SamplerNext, RandomOnly, TopKOnly, TopPOnly, TopKTopP, StatsK, SearchK, MassK, MassKP,
              Stats, StatsP, HalveP, InterpolateP, Draw
<1> QED BY <1>3, <1>4

-----------------------------------------------------------------------------
(* The scan of a wave counts the tokens kept before a work-item.           *)
LEMMA LeftFacts ==
  ASSUME SamplerOK, NEW r \in 1 .. row - 1
  PROVE  /\ Left(r) \subseteq Tokens
         /\ \A n : Below(r, n) \subseteq Tokens /\ Cardinality(Below(r, n)) \in Nat
         /\ Below(r, FirstOf(0, 0)) = {}
<1>1. Left(r) \subseteq Tokens
  BY DEF SamplerOK, Left
<1>2. \A n : Below(r, n) \subseteq Tokens
  BY <1>1 DEF Below
<1>3. \A n : Cardinality(Below(r, n)) \in Nat
  BY <1>2, TokensFinite
<1>4. FirstOf(0, 0) = 0
  BY SamplerSizes DEF FirstOf
<1>5. \A t \in Tokens : ~(t < 0)
  BY SamplerSizes
<1> QED BY <1>1, <1>2, <1>3, <1>4, <1>5 DEF Below

LEMMA KeptByLane ==
  ASSUME SamplerOK, maskRow \in 1 .. row - 1, call.mode = "logits", NEW w \in Nat, NEW i \in Nat
  PROVE  /\ KeptBy(w, i) = {t \in Left(maskRow) : FirstOf(w, i) <= t /\ t < FirstOf(w, i) + VecSize}
         /\ KeptBy(w, i) \subseteq Left(maskRow)
<1> DEFINE f == FirstOf(w, i)
<1>0. f \in Nat /\ VecSize \in Nat /\ Vocab \in Nat
  BY FirstFacts, SamplerSizes
<1>1. KeptBy(w, i) = {t \in f .. f + VecSize - 1 : t < Vocab /\ returned[maskRow][t] # <<NegInf>>}
  BY DEF KeptBy, FirstOf
<1>2. Left(maskRow) \subseteq Tokens
  BY LeftFacts
<1> HIDE DEF f
<1>3. ASSUME NEW t \in KeptBy(w, i) PROVE t \in Left(maskRow) /\ f <= t /\ t < f + VecSize
  <2>1. t \in f .. f + VecSize - 1 /\ t < Vocab /\ returned[maskRow][t] # <<NegInf>>
    BY <1>1
  <2>2. f <= t /\ t < f + VecSize /\ t \in Nat
    BY <1>0, <2>1
  <2>3. t \in Tokens
    BY <1>0, <2>1, <2>2 DEF Tokens
  <2>4. t \in Left(maskRow)
    BY <2>1, <2>3 DEF SamplerOK
  <2> QED BY <2>2, <2>4
<1>4. ASSUME NEW t \in Left(maskRow), f <= t, t < f + VecSize PROVE t \in KeptBy(w, i)
  <2>1. t \in Tokens /\ t \in Nat /\ t < Vocab
    BY <1>2, SamplerSizes
  <2>2. returned[maskRow][t] # <<NegInf>>
    BY <2>1 DEF SamplerOK
  <2>3. t \in f .. f + VecSize - 1
    BY <1>0, <1>4, <2>1
  <2> QED BY <1>1, <2>1, <2>2, <2>3
<1> QED BY <1>3, <1>4 DEF f

LEMMA ScanRuns ==
  /\ Scanned(0) = 0
  /\ \A n \in Nat : Scanned(n + 1) = Scanned(n) + Cardinality(KeptBy(wave, n))
<1> DEFINE h == [j \in Nat |-> Cardinality(KeptBy(wave, j))]
           scan == CHOOSE g : g = [j \in Nat |-> IF j = 0 THEN 0 ELSE g[j - 1] + Cardinality(KeptBy(wave, j - 1))]
<1>1. \E g : g = [j \in Nat |-> IF j = 0 THEN 0 ELSE g[j - 1] + Cardinality(KeptBy(wave, j - 1))]
  <2>1. PICK g : g = [j \in Nat |-> IF j = 0 THEN 0 ELSE g[j - 1] + h[j - 1]]
    BY SumExists, Zenon DEF RunningSum
  <2>2. ASSUME NEW j \in Nat
        PROVE  (IF j = 0 THEN 0 ELSE g[j - 1] + h[j - 1])
               = (IF j = 0 THEN 0 ELSE g[j - 1] + Cardinality(KeptBy(wave, j - 1)))
    <3>1. CASE j = 0
      BY <3>1
    <3>2. CASE j # 0
      <4>1. j - 1 \in Nat
        BY <3>2
      <4>2. h[j - 1] = Cardinality(KeptBy(wave, j - 1))
        BY <4>1
      <4> QED BY <3>2, <4>2
    <3> QED BY <3>1, <3>2
  <2> HIDE DEF h
  <2>3. g = [j \in Nat |-> IF j = 0 THEN 0 ELSE g[j - 1] + Cardinality(KeptBy(wave, j - 1))]
    BY <2>1, <2>2, Zenon
  <2> QED BY <2>3
<1>2. scan = [j \in Nat |-> IF j = 0 THEN 0 ELSE scan[j - 1] + Cardinality(KeptBy(wave, j - 1))]
  BY <1>1, Zenon
<1>3. \A n : Scanned(n) = scan[n]
  BY Zenon DEF Scanned
<1> HIDE DEF scan
<1>4. scan[0] = 0
  BY <1>2
<1>5. ASSUME NEW n \in Nat PROVE scan[n + 1] = scan[n] + Cardinality(KeptBy(wave, n))
  <2>1. n + 1 \in Nat /\ n + 1 # 0 /\ (n + 1) - 1 = n
    OBVIOUS
  <2>2. scan[n + 1] = scan[(n + 1) - 1] + Cardinality(KeptBy(wave, (n + 1) - 1))
    BY <1>2, <2>1
  <2> QED BY <2>1, <2>2
<1> QED BY <1>3, <1>4, <1>5

LEMMA KeptBeforeCounts ==
  ASSUME SamplerOK, maskRow \in 1 .. row - 1, call.mode = "logits", wave \in Nat,
         running = Cardinality(Below(maskRow, FirstOf(wave, 0)))
  PROVE  \A i \in Nat : KeptBefore(i) = Cardinality(Below(maskRow, FirstOf(wave, i)))
<1> DEFINE P == {i \in Nat : KeptBefore(i) = Cardinality(Below(maskRow, FirstOf(wave, i)))}
<1>0. running \in Nat
  BY LeftFacts
<1>1. 0 \in P
  <2>1. KeptBefore(0) = running
    BY <1>0, ScanRuns DEF KeptBefore
  <2> QED BY <2>1
<1>2. ASSUME NEW i \in Nat, i \in P PROVE i + 1 \in P
  <2> DEFINE B == Below(maskRow, FirstOf(wave, i))
             N == Below(maskRow, FirstOf(wave, i + 1))
             M == KeptBy(wave, i)
  <2>1. FirstOf(wave, i) \in Nat /\ FirstOf(wave, i + 1) = FirstOf(wave, i) + VecSize /\ VecSize \in Nat
    BY FirstFacts, SamplerSizes
  <2>2. M = {t \in Left(maskRow) : FirstOf(wave, i) <= t /\ t < FirstOf(wave, i) + VecSize}
    BY KeptByLane
  <2>3. \A t \in Left(maskRow) : t \in Nat
    BY LeftFacts, SamplerSizes
  <2>4. N = B \cup M
    <3> SUFFICES ASSUME NEW t \in Left(maskRow) PROVE t \in N <=> t \in B \/ t \in M
      BY <2>2 DEF Below
    <3>1. t < FirstOf(wave, i) + VecSize <=> t < FirstOf(wave, i) \/ (FirstOf(wave, i) <= t /\ t < FirstOf(wave, i) + VecSize)
      BY <2>1, <2>3
    <3> QED BY <2>1, <2>2, <3>1 DEF Below
  <2>5. B \cap M = {}
    <3> SUFFICES ASSUME NEW t \in Left(maskRow) PROVE ~(t < FirstOf(wave, i) /\ FirstOf(wave, i) <= t)
      BY <2>2 DEF Below
    <3> QED BY <2>1, <2>3
  <2>6. B \subseteq Tokens /\ M \subseteq Tokens
    BY <2>2, LeftFacts DEF Below
  <2>7. Cardinality(N) = Cardinality(B) + Cardinality(M) /\ Cardinality(B) \in Nat /\ Cardinality(M) \in Nat
    <3> HIDE DEF B, M, N
    <3> QED BY <2>4, <2>5, <2>6, ApartSum, TokensFinite
  <2>8. Scanned(i + 1) = Scanned(i) + Cardinality(M)
    BY ScanRuns
  <2>9. KeptBefore(i) = Cardinality(B)
    BY <1>2
  <2>10. KeptBefore(i) = running + Scanned(i) /\ KeptBefore(i + 1) = running + (Scanned(i) + Cardinality(M))
    BY <2>8 DEF KeptBefore
  <2>11. Scanned(i) \in Nat
    <3> HIDE DEF M, B
    <3>1. \A n \in Nat : Cardinality(KeptBy(wave, n)) \in Nat
      <4>1. \A n \in Nat : KeptBy(wave, n) \subseteq Tokens
        BY KeptByLane, LeftFacts
      <4> QED BY <4>1, TokensFinite
    <3> DEFINE Q == {n \in Nat : Scanned(n) \in Nat}
    <3>2. 0 \in Q
      BY ScanRuns
    <3>3. ASSUME NEW n \in Nat, n \in Q PROVE n + 1 \in Q
      <4>1. Scanned(n + 1) = Scanned(n) + Cardinality(KeptBy(wave, n)) /\ Scanned(n) \in Nat
        BY <3>3, ScanRuns
      <4> QED BY <3>1, <4>1
    <3> HIDE DEF Q
    <3>4. Nat \subseteq Q
      BY <3>2, <3>3, NatInduct
    <3> QED BY <3>4 DEF Q
  <2> HIDE DEF B, M, N
  <2>12. KeptBefore(i + 1) = Cardinality(N)
    BY <1>0, <2>7, <2>9, <2>10, <2>11
  <2> QED BY <2>12 DEF N
<1> HIDE DEF P
<1>3. Nat \subseteq P
  BY <1>1, <1>2, NatInduct
<1> QED BY <1>3 DEF P

-----------------------------------------------------------------------------
(* What a wave stores: where a work-item puts a token, the ids of the row  *)
(* and its bits afterwards.                                                *)
Place(i, t) == KeptBefore(i) + Cardinality({u \in KeptBy(wave, i) : u < t})
Puts(k, t) == \E i \in Lane : t \in KeptBy(wave, i) /\ Place(i, t) = k
NewIds == [k \in 0 .. MaxKept - 1 |->
             IF \E t \in Tokens : Puts(k, t) THEN CHOOSE t \in Tokens : Puts(k, t) ELSE ids[maskRow][k]]
PairOf(b) == (2 * b) - (wave * Lanes)
NewBits == [b \in Bytes |->
              IF \E i \in Lane : wave * Lanes + i = 2 * b
              THEN {t - b * ByteBits : t \in KeptBy(wave, PairOf(b)) \cup KeptBy(wave, PairOf(b) + 1)}
              ELSE mask[maskRow][b]]

(* A row under way, as a wave finds it.                                    *)
UnderWay ==
  /\ SamplerOK /\ maskRow \in 1 .. row - 1 /\ call.mode = "logits" /\ wave \in Nat
  /\ RowHalfPacked(maskRow, wave)

LEMMA PlaceIsRank ==
  ASSUME UnderWay, NEW i \in Nat, NEW t \in KeptBy(wave, i)
  PROVE  Place(i, t) = Rank(Left(maskRow), t)
<1> DEFINE L == Left(maskRow)
           f == FirstOf(wave, i)
           B == Below(maskRow, f)
           M == {u \in KeptBy(wave, i) : u < t}
           U == {u \in L : u < t}
<1>1. wave \in Nat /\ f \in Nat /\ \A u \in L : u \in Nat
  BY FirstFacts, LeftFacts, SamplerSizes DEF UnderWay
<1>2. KeptBy(wave, i) = {u \in L : f <= u /\ u < f + VecSize} /\ KeptBy(wave, i) \subseteq L
  BY KeptByLane DEF UnderWay
<1>3. VecSize \in Nat /\ t \in L /\ t \in Nat /\ f <= t /\ t < f + VecSize
  BY <1>1, <1>2, SamplerSizes
<1>4. U = B \cup M
  <2> SUFFICES ASSUME NEW u \in L PROVE u < t <=> u < f \/ (f <= u /\ u < f + VecSize /\ u < t)
    BY <1>2 DEF Below
  <2> QED BY <1>1, <1>3
<1>5. B \cap M = {}
  <2> SUFFICES ASSUME NEW u \in L PROVE ~(u < f /\ f <= u)
    BY <1>2 DEF Below
  <2> QED BY <1>1
<1>6. B \subseteq Tokens /\ M \subseteq Tokens
  BY <1>2, LeftFacts DEF Below, UnderWay
<1>7. KeptBefore(i) = Cardinality(B)
  BY KeptBeforeCounts DEF UnderWay, RowHalfPacked
<1>8. Place(i, t) = Cardinality(B) + Cardinality(M)
  BY <1>7 DEF Place
<1>9. Rank(L, t) = Cardinality(U)
  BY DEF Rank
<1> HIDE DEF B, M, U
<1> QED BY <1>4, <1>5, <1>6, <1>8, <1>9, ApartSum

(* A token of the row is of an earlier wave, of this one, or of a later.   *)
LEMMA WaveSplits ==
  ASSUME UnderWay, NEW t \in Left(maskRow)
  PROVE  /\ t \in Below(maskRow, FirstOf(wave + 1, 0)) /\ t \notin Below(maskRow, FirstOf(wave, 0)) =>
              \E i \in Lane : t \in KeptBy(wave, i)
         /\ \A i \in Lane : t \in KeptBy(wave, i) =>
              t \in Below(maskRow, FirstOf(wave + 1, 0)) /\ t \notin Below(maskRow, FirstOf(wave, 0))
<1>1. wave \in Nat /\ t \in Nat /\ Lanes \in Nat /\ VecSize \in Nat
  BY LeftFacts, SamplerSizes DEF UnderWay
<1>2. FirstOf(wave, 0) \in Nat /\ FirstOf(wave + 1, 0) \in Nat
  BY <1>1, FirstFacts
<1>3. \A i \in Nat : KeptBy(wave, i) = {u \in Left(maskRow) : FirstOf(wave, i) <= u /\ u < FirstOf(wave, i) + VecSize}
  BY KeptByLane DEF UnderWay
<1>4. \A i \in Lane : i \in Nat /\ i + 1 <= Lanes
  BY <1>1 DEF Lane
<1>5. ASSUME t < FirstOf(wave + 1, 0), ~(t < FirstOf(wave, 0))
      PROVE  \E i \in Lane : t \in KeptBy(wave, i)
  <2>1. FirstOf(wave, 0) <= t
    BY <1>1, <1>2, <1>5
  <2>2. PICK i \in Lane : FirstOf(wave, i) <= t /\ t < FirstOf(wave, i) + VecSize
    BY <1>1, <1>5, <2>1, HasLane
  <2> QED BY <1>3, <1>4, <2>2
<1>6. ASSUME NEW i \in Lane, t \in KeptBy(wave, i)
      PROVE  t < FirstOf(wave + 1, 0) /\ ~(t < FirstOf(wave, 0))
  <2>1. FirstOf(wave, i) <= t /\ t < FirstOf(wave, i) + VecSize
    BY <1>3, <1>4, <1>6
  <2>2. i \in Nat /\ i + 1 \in Nat /\ 0 \in Nat /\ 0 <= i /\ i + 1 <= Lanes
    BY <1>4
  <2>3. FirstOf(wave, 0) <= FirstOf(wave, i) /\ FirstOf(wave, i + 1) <= FirstOf(wave, Lanes)
    BY <1>1, <2>2, FirstRises
  <2>4. FirstOf(wave, i + 1) = FirstOf(wave, i) + VecSize /\ FirstOf(wave, i) \in Nat
        /\ FirstOf(wave, Lanes) = FirstOf(wave + 1, 0)
    BY <1>1, <2>2, FirstFacts
  <2> QED BY <1>1, <1>2, <2>1, <2>3, <2>4
<1> QED BY <1>5, <1>6 DEF Below

LEMMA WaveIds ==
  ASSUME UnderWay, MaxKept \in Nat, ids[maskRow] \in [0 .. MaxKept - 1 -> Int]
  PROVE  /\ NewIds \in [0 .. MaxKept - 1 -> Int]
         /\ \A t \in Below(maskRow, FirstOf(wave + 1, 0)) :
              Rank(Left(maskRow), t) < MaxKept => NewIds[Rank(Left(maskRow), t)] = t
<1> DEFINE L == Left(maskRow)
<1>0. L \subseteq Tokens /\ wave \in Nat
  BY LeftFacts DEF UnderWay
<1>1. \A t \in L : Rank(L, t) \in Nat
  BY <1>0, RanksDiffer
<1>2. \A t, u \in L : Rank(L, t) = Rank(L, u) => t = u
  BY <1>0, RanksDiffer
<1>3. \A k, t : Puts(k, t) <=> \E i \in Lane : t \in KeptBy(wave, i) /\ Rank(L, t) = k
  <2>1. \A i \in Lane : i \in Nat
    BY DEF Lane
  <2> QED BY <2>1, PlaceIsRank DEF Puts
<1>4. \A k, t : Puts(k, t) => t \in L /\ t \in Tokens /\ Rank(L, t) = k
  <2>1. \A i \in Lane : i \in Nat
    BY DEF Lane
  <2>2. \A i \in Lane : KeptBy(wave, i) \subseteq L
    BY <2>1, KeptByLane DEF UnderWay
  <2> QED BY <1>0, <1>3, <2>2
<1> HIDE DEF L
<1>5. ASSUME NEW k \in 0 .. MaxKept - 1 PROVE NewIds[k] \in Int
  <2>1. CASE \E t \in Tokens : Puts(k, t)
    <3>1. NewIds[k] \in Tokens
      BY <2>1 DEF NewIds
    <3> QED BY <3>1, SamplerSizes
  <2>2. CASE ~\E t \in Tokens : Puts(k, t)
    BY <2>2 DEF NewIds
  <2> QED BY <2>1, <2>2
<1>6. NewIds \in [0 .. MaxKept - 1 -> Int]
  <2>1. NewIds = [k \in 0 .. MaxKept - 1 |-> NewIds[k]]
    BY DEF NewIds
  <2> QED BY <1>5, <2>1
<1>7. ASSUME NEW t \in L, t \in Below(maskRow, FirstOf(wave + 1, 0)), Rank(L, t) < MaxKept
      PROVE  NewIds[Rank(L, t)] = t
  <2> DEFINE k == Rank(L, t)
  <2>1. k \in 0 .. MaxKept - 1
    BY <1>1, <1>7
  <2>2. CASE \E i \in Lane : t \in KeptBy(wave, i)
    <3>1. Puts(k, t) /\ t \in Tokens
      BY <1>0, <1>3, <2>2 DEF L
    <3>2. \A u \in Tokens : Puts(k, u) => u = t
      BY <1>2, <1>4
    <3> HIDE DEF k
    <3> QED BY <2>1, <3>1, <3>2 DEF NewIds, k
  <2>3. CASE ~\E i \in Lane : t \in KeptBy(wave, i)
    <3>1. t \in Below(maskRow, FirstOf(wave, 0))
      BY <1>7, <2>3, WaveSplits DEF L
    <3>2. \A u \in Tokens : ~Puts(k, u)
      BY <1>2, <1>3, <1>4, <2>3
    <3>3. ids[maskRow][k] = t
      BY <1>7, <3>1 DEF UnderWay, RowHalfPacked, L
    <3> HIDE DEF k
    <3>4. NewIds[k] = t
      BY <2>1, <3>2, <3>3 DEF NewIds
    <3> QED BY <3>4 DEF k
  <2> QED BY <2>2, <2>3
<1> QED BY <1>6, <1>7 DEF L, Below

LEMMA WaveBits ==
  ASSUME UnderWay, mask[maskRow] \in [Bytes -> SUBSET Int]
  PROVE  /\ NewBits \in [Bytes -> SUBSET Int]
         /\ \A b \in Bytes : 2 * b < (wave + 1) * Lanes =>
              NewBits[b] = {t % ByteBits : t \in {u \in Left(maskRow) : u \div ByteBits = b}}
<1> DEFINE L == Left(maskRow)
           a == wave * Lanes
<1>0. /\ wave \in Nat /\ Lanes \in Nat /\ VecSize \in Nat \ {0} /\ ByteBits \in Nat \ {0}
      /\ ByteBits = 2 * VecSize /\ a \in Nat /\ (wave + 1) * Lanes = a + Lanes
      /\ \A t \in L : t \in Nat
  <2>1. wave \in Nat /\ Lanes \in Nat
    BY SamplerSizes DEF UnderWay
  <2>2. wave * Lanes \in Nat /\ (wave + 1) * Lanes = (wave * Lanes) + Lanes
    BY <2>1
  <2> QED BY <2>1, <2>2, SamplerSizes, LeftFacts DEF UnderWay, ByteBits
<1>1. \A b \in Bytes : b \in Nat
  BY WavesReach
<1>2. ASSUME NEW b \in Bytes, NEW i \in Lane, a + i = 2 * b
      PROVE  NewBits[b] = {t % ByteBits : t \in {u \in L : u \div ByteBits = b}}
  <2> DEFINE f == FirstOf(wave, i)
             p == b * ByteBits
  <2>1. i \in Nat /\ PairOf(b) = i /\ b \in Nat
    BY <1>0, <1>1, <1>2 DEF Lane, PairOf
  <2>2. f = p /\ p \in Nat /\ FirstOf(wave, i + 1) = p + VecSize
    <3>1. f = (2 * b) * VecSize
      BY <1>2 DEF FirstOf
    <3>2. (2 * b) * VecSize = b * ByteBits /\ b * ByteBits \in Nat
      BY <1>0, <2>1
    <3>3. FirstOf(wave, i + 1) = f + VecSize
      BY <1>0, <2>1, FirstFacts
    <3> QED BY <3>1, <3>2, <3>3
  <2>3. KeptBy(wave, i) \cup KeptBy(wave, i + 1) = {t \in L : p <= t /\ t < p + ByteBits}
    <3>1. KeptBy(wave, i) = {t \in L : p <= t /\ t < p + VecSize}
      BY <1>0, <2>1, <2>2, KeptByLane DEF UnderWay
    <3>2. KeptBy(wave, i + 1) = {t \in L : p + VecSize <= t /\ t < (p + VecSize) + VecSize}
      BY <1>0, <2>1, <2>2, KeptByLane DEF UnderWay
    <3> SUFFICES ASSUME NEW t \in L
                 PROVE  (p <= t /\ t < p + ByteBits) <=>
                          (p <= t /\ t < p + VecSize) \/ (p + VecSize <= t /\ t < (p + VecSize) + VecSize)
      BY <3>1, <3>2
    <3> HIDE DEF p
    <3> QED BY <1>0, <2>2
  <2>4. \A t \in L : (p <= t /\ t < p + ByteBits) <=> t \div ByteBits = b
    <3> SUFFICES ASSUME NEW t \in L PROVE (p <= t /\ t < p + ByteBits) <=> t \div ByteBits = b
      OBVIOUS
    <3>1. CASE p <= t /\ t < p + ByteBits
      <4>1. t - p \in 0 .. ByteBits - 1
        BY <1>0, <2>2, <3>1
      <4>2. ((b * ByteBits) + (t - p)) \div ByteBits = b
        BY <1>0, <2>1, <4>1, DivModUnique
      <4>3. (b * ByteBits) + (t - p) = t
        BY <1>0, <2>2
      <4> QED BY <3>1, <4>2, <4>3
    <3>2. CASE t \div ByteBits = b
      <4>1. t = (b * ByteBits) + (t % ByteBits) /\ t % ByteBits \in 0 .. ByteBits - 1
        BY <1>0, <3>2, DivMod
      <4> HIDE DEF p
      <4>2. t = p + (t % ByteBits)
        BY <4>1 DEF p
      <4> DEFINE e == t % ByteBits
      <4>3. e \in 0 .. ByteBits - 1 /\ t = p + e
        BY <4>1, <4>2
      <4> HIDE DEF e
      <4>4. p <= t /\ t < p + ByteBits
        BY <1>0, <2>2, <4>3
      <4> QED BY <3>2, <4>4
    <3> QED BY <3>1, <3>2
  <2>5. \A t \in L : t \div ByteBits = b => t - p = t % ByteBits
    <3> SUFFICES ASSUME NEW t \in L, t \div ByteBits = b PROVE t - p = t % ByteBits
      OBVIOUS
    <3>1. t = (b * ByteBits) + (t % ByteBits) /\ t % ByteBits \in 0 .. ByteBits - 1
      BY <1>0, DivMod
    <3> QED BY <1>0, <2>2, <3>1
  <2>6. NewBits[b] = {t - p : t \in KeptBy(wave, i) \cup KeptBy(wave, i + 1)}
    BY <1>2, <2>1 DEF NewBits
  <2> HIDE DEF L, p
  <2>7. KeptBy(wave, i) \cup KeptBy(wave, i + 1) = {u \in L : u \div ByteBits = b}
    BY <2>3, <2>4
  <2>8. NewBits[b] = {t - p : t \in {u \in L : u \div ByteBits = b}}
    BY <2>6, <2>7
  <2> QED BY <2>5, <2>8
<1>3. ASSUME NEW b \in Bytes, 2 * b < a + Lanes
      PROVE  NewBits[b] = {t % ByteBits : t \in {u \in L : u \div ByteBits = b}}
  <2>1. CASE a <= 2 * b
    <3>1. (2 * b) - a \in Lane /\ a + ((2 * b) - a) = 2 * b
      BY <1>0, <1>1, <1>3, <2>1 DEF Lane
    <3> QED BY <1>2, <3>1
  <2>2. CASE ~(a <= 2 * b)
    <3>1. ~\E i \in Lane : a + i = 2 * b
      BY <1>0, <1>1, <2>2 DEF Lane
    <3>2. NewBits[b] = mask[maskRow][b]
      BY <3>1 DEF NewBits
    <3>3. 2 * b < a
      BY <1>0, <1>1, <2>2
    <3> QED BY <3>2, <3>3 DEF UnderWay, RowHalfPacked
  <2> QED BY <2>1, <2>2
<1>4. ASSUME NEW b \in Bytes PROVE NewBits[b] \in SUBSET Int
  <2>1. CASE \E i \in Lane : a + i = 2 * b
    <3>1. PICK i \in Lane : a + i = 2 * b
      BY <2>1
    <3>2. NewBits[b] = {t % ByteBits : t \in {u \in L : u \div ByteBits = b}}
      BY <1>2, <3>1
    <3>3. \A t \in L : t % ByteBits \in Int
      BY <1>0, DivMod
    <3> QED BY <3>2, <3>3
  <2>2. CASE ~\E i \in Lane : a + i = 2 * b
    BY <2>2 DEF NewBits
  <2> QED BY <2>1, <2>2
<1>5. NewBits \in [Bytes -> SUBSET Int]
  <2>1. NewBits = [b \in Bytes |-> NewBits[b]]
    BY DEF NewBits
  <2> QED BY <1>4, <2>1
<1> QED BY <1>0, <1>3, <1>5

-----------------------------------------------------------------------------
(* The packing, step by step.                                              *)
LEMMA MaskStarts ==
  ASSUME SamplerOK, MaskOK, StartMask, UNCHANGED samplerVars
  PROVE  MaskOK'
<1>0. /\ maskRow = 0 /\ maskRow' = 1 /\ Len(answers) = Len(call.rows) /\ call.mode = "logits"
      /\ wave' = 0 /\ running' = 0 /\ call' = call /\ answers' = answers /\ row' = row
  BY DEF StartMask, MaskOK, samplerVars
<1>1. Len(call.rows) \in Nat /\ call.rows # <<>> /\ Len(call.rows) # 0 /\ row = Len(call.rows) + 1
      /\ Rows = 1 .. Len(call.rows)
  BY <1>0 DEF SamplerOK, Rows
<1>2. Rows' = Rows /\ Bytes' = Bytes
  BY <1>0 DEF Rows
<1>3. /\ active' \in [Rows -> BOOLEAN]
      /\ ids' \in [Rows -> [0 .. MaxKept - 1 -> Int]]
      /\ mask' \in [Rows -> [Bytes -> SUBSET Int]]
      /\ counts' \in [Rows -> Int]
  BY DEF StartMask
<1>4. 1 \in 1 .. row - 1 /\ 0 \in 0 .. Waves - 1
  BY <1>1, WavesReach
<1>5. \A r : Left(r)' = Left(r)
  BY <1>0 DEF Left
<1>6. Below(1, FirstOf(0, 0)) = {}
  BY <1>4, LeftFacts
<1>7. RowHalfPacked(1, 0)'
  <2>1. Below(1, FirstOf(0, 0))' = {}
    BY <1>5, <1>6 DEF Below
  <2>2. Cardinality({}) = 0
    BY FS_EmptySet
  <2>3. \A b \in Bytes : ~(2 * b < 0 * Lanes)
    BY WavesReach, SamplerSizes
  <2> QED BY <1>0, <1>2, <2>1, <2>2, <2>3 DEF RowHalfPacked
<1>8. RowHalfPacked(maskRow, wave)'
  BY <1>0, <1>7
<1>9. 1 .. maskRow' - 1 = {}
  BY <1>0
<1> QED BY <1>0, <1>1, <1>2, <1>3, <1>4, <1>8, <1>9 DEF MaskOK

(* A row is over: X is what its ids are.                                   *)
LEMMA RowEnds ==
  ASSUME SamplerOK, MaskOK, UNCHANGED samplerVars, UNCHANGED active, maskRow \in Rows,
         NEW count \in Int, NEW bits \in [Bytes -> SUBSET Int], Ends(count, bits),
         NEW X \in [0 .. MaxKept - 1 -> Int], ids' = [ids EXCEPT ![maskRow] = X],
         count = Cardinality(Support(maskRow)),
         \A t \in Support(maskRow) : Rank(Support(maskRow), t) < MaxKept => X[Rank(Support(maskRow), t)] = t,
         \A b \in Bytes : bits[b] = {t % ByteBits : t \in {u \in Support(maskRow) : u \div ByteBits = b}}
  PROVE  MaskOK'
<1>0. /\ maskRow' = maskRow + 1 /\ wave' = 0 /\ running' = 0
      /\ counts' = [counts EXCEPT ![maskRow] = count] /\ mask' = [mask EXCEPT ![maskRow] = bits]
      /\ call' = call /\ answers' = answers /\ row' = row /\ active' = active
  BY DEF Ends, samplerVars
<1>1. Len(call.rows) \in Nat /\ Rows = 1 .. Len(call.rows) /\ maskRow \in Nat /\ maskRow # 0
      /\ row = Len(call.rows) + 1 /\ call.mode = "logits"
  BY DEF SamplerOK, MaskOK, Rows
<1>2. Rows' = Rows /\ Bytes' = Bytes
  BY <1>0 DEF Rows
<1>3. /\ active \in [Rows -> BOOLEAN]
      /\ ids \in [Rows -> [0 .. MaxKept - 1 -> Int]]
      /\ mask \in [Rows -> [Bytes -> SUBSET Int]]
      /\ counts \in [Rows -> Int]
      /\ \A r \in 1 .. maskRow - 1 : RowPacked(r)
  BY <1>1 DEF MaskOK
<1>4. /\ ids' \in [Rows -> [0 .. MaxKept - 1 -> Int]]
      /\ mask' \in [Rows -> [Bytes -> SUBSET Int]]
      /\ counts' \in [Rows -> Int]
  BY <1>0, <1>3
<1>5. \A r : Left(r)' = Left(r) /\ Support(r)' = Support(r)
  BY <1>0 DEF Left, Support
<1>6. ASSUME NEW r \in 1 .. maskRow' - 1 PROVE RowPacked(r)'
  <2>1. CASE r = maskRow
    <3>1. counts'[r] = count /\ mask'[r] = bits /\ ids'[r] = X
      BY <1>0, <1>3, <2>1
    <3> DEFINE S == Support(maskRow)
    <3>2. Support(r)' = S
      BY <1>5, <2>1
    <3>3. counts'[r] = Cardinality(S)
      BY <3>1
    <3>4. \A t \in S : Rank(S, t) < MaxKept => ids'[r][Rank(S, t)] = t
      BY <3>1
    <3>5. \A b \in Bytes : mask'[r][b] = {t % ByteBits : t \in {u \in S : u \div ByteBits = b}}
      BY <3>1
    <3> HIDE DEF S
    <3> QED BY <1>2, <3>2, <3>3, <3>4, <3>5 DEF RowPacked, Rank
  <2>2. CASE r # maskRow
    <3>1. r \in 1 .. maskRow - 1 /\ r \in Rows
      BY <1>0, <1>1, <2>2
    <3>2. counts'[r] = counts[r] /\ mask'[r] = mask[r] /\ ids'[r] = ids[r]
      BY <1>0, <1>3, <2>2, <3>1
    <3>3. RowPacked(r) /\ Support(r)' = Support(r)
      BY <1>3, <1>5, <3>1
    <3> QED BY <1>2, <3>2, <3>3 DEF RowPacked, Rank
  <2> QED BY <2>1, <2>2
<1>7. ASSUME maskRow' \in Rows PROVE RowHalfPacked(maskRow, wave)'
  <2>1. maskRow + 1 \in 1 .. row - 1
    BY <1>0, <1>1, <1>7
  <2>2. Below(maskRow + 1, FirstOf(0, 0)) = {}
    BY <2>1, LeftFacts
  <2>3. Below(maskRow, FirstOf(wave, 0))' = {}
    BY <1>0, <1>5, <2>2 DEF Below
  <2>4. Cardinality({}) = 0
    BY FS_EmptySet
  <2>5. \A b \in Bytes : ~(2 * b < 0 * Lanes)
    BY WavesReach, SamplerSizes
  <2> QED BY <1>0, <1>2, <2>3, <2>4, <2>5 DEF RowHalfPacked
<1>8. 0 \in 0 .. Waves - 1 /\ maskRow + 1 <= Len(call.rows) + 1 /\ maskRow + 1 \in Nat /\ maskRow + 1 # 0
  BY <1>1, WavesReach
<1> QED BY <1>0, <1>1, <1>2, <1>3, <1>4, <1>6, <1>7, <1>8 DEF MaskOK

LEMMA RowSkipped ==
  ASSUME SamplerOK, MaskOK, SkipRow, UNCHANGED samplerVars
  PROVE  MaskOK'
<1>0. maskRow \in Rows /\ ~active[maskRow] /\ Ends(0, [b \in Bytes |-> {}]) /\ active' = active /\ ids' = ids
  BY DEF SkipRow
<1>1. Support(maskRow) = {}
  BY <1>0 DEF Support
<1>2. maskRow # 0
  BY <1>0 DEF SamplerOK, Rows
<1>3. ids \in [Rows -> [0 .. MaxKept - 1 -> Int]]
  BY <1>2 DEF MaskOK
<1>4. ids[maskRow] \in [0 .. MaxKept - 1 -> Int] /\ ids' = [ids EXCEPT ![maskRow] = ids[maskRow]]
  BY <1>0, <1>3
<1>5. 0 = Cardinality(Support(maskRow)) /\ 0 \in Int /\ [b \in Bytes |-> {}] \in [Bytes -> SUBSET Int]
  BY <1>1, FS_EmptySet
<1>6. \A b \in Bytes : [x \in Bytes |-> {}][b] = {t % ByteBits : t \in {u \in Support(maskRow) : u \div ByteBits = b}}
  BY <1>1
<1>7. \A t \in Support(maskRow) :
        Rank(Support(maskRow), t) < MaxKept => ids[maskRow][Rank(Support(maskRow), t)] = t
  BY <1>1
<1> HIDE DEF SkipRow
<1> DEFINE X == ids[maskRow]
           bits == [b \in Bytes |-> {}]
<1>8. X \in [0 .. MaxKept - 1 -> Int] /\ ids' = [ids EXCEPT ![maskRow] = X] /\ bits \in [Bytes -> SUBSET Int]
      /\ Ends(0, bits)
  BY <1>0, <1>4, <1>5
<1>9. \A b \in Bytes : bits[b] = {t % ByteBits : t \in {u \in Support(maskRow) : u \div ByteBits = b}}
  BY <1>6
<1>10. \A t \in Support(maskRow) : Rank(Support(maskRow), t) < MaxKept => X[Rank(Support(maskRow), t)] = t
  BY <1>7
<1> HIDE DEF X, bits
<1> QED BY <1>0, <1>5, <1>8, <1>9, <1>10, RowEnds

(* What a wave does, in the words above.                                   *)
LEMMA WaveDoes ==
  ASSUME Wave, wave \in Nat, ids \in [Rows -> [0 .. MaxKept - 1 -> Int]]
  PROVE  /\ maskRow \in Rows /\ active[maskRow] /\ wave < Waves /\ active' = active
         /\ ids' = [ids EXCEPT ![maskRow] = NewIds]
         /\ IF wave + 1 < Waves
            THEN /\ mask' = [mask EXCEPT ![maskRow] = NewBits]
                 /\ wave' = wave + 1 /\ running' = KeptBefore(Lanes)
                 /\ maskRow' = maskRow /\ counts' = counts
            ELSE Ends(KeptBefore(Lanes), NewBits)
<1> DEFINE at(i, t) == KeptBefore(i) + Cardinality({u \in KeptBy(wave, i) : u < t})
           some(k) == \E i \in Lane : \E t \in KeptBy(wave, i) : at(i, t) = k
           those(k) == CHOOSE t \in Tokens : \E i \in Lane : t \in KeptBy(wave, i) /\ at(i, t) = k
           first(i) == wave * Lanes + i
           bits == [b \in Bytes |->
                      IF \E i \in Lane : first(i) = 2 * b
                      THEN LET i == 2 * b - wave * Lanes
                           IN {t - b * ByteBits : t \in KeptBy(wave, i) \cup KeptBy(wave, i + 1)}
                      ELSE mask[maskRow][b]]
<1>1. /\ maskRow \in Rows /\ active[maskRow] /\ wave < Waves /\ active' = active
      /\ ids' = [ids EXCEPT ![maskRow] = [k \in 0 .. MaxKept - 1 |-> IF some(k) THEN those(k) ELSE @[k]]]
      /\ IF wave + 1 < Waves
         THEN /\ mask' = [mask EXCEPT ![maskRow] = bits]
              /\ wave' = wave + 1 /\ running' = KeptBefore(Lanes)
              /\ maskRow' = maskRow /\ counts' = counts
         ELSE Ends(KeptBefore(Lanes), bits)
  BY DEF Wave
<1>2. bits = NewBits
  BY Zenon DEF NewBits, PairOf
<1>3. \A k : those(k) = CHOOSE t \in Tokens : Puts(k, t)
  BY Zenon DEF Puts, Place
<1>4. ASSUME NEW i \in Lane, NEW t \in KeptBy(wave, i) PROVE t \in Tokens
  <2> DEFINE f == FirstOf(wave, i)
  <2>1. i \in Nat
    BY DEF Lane
  <2>2. f \in Nat /\ VecSize \in Nat /\ Vocab \in Nat
    BY <2>1, FirstFacts, SamplerSizes
  <2>3. t \in f .. f + VecSize - 1 /\ t < Vocab
    BY DEF KeptBy, FirstOf
  <2> HIDE DEF f
  <2> QED BY <2>2, <2>3 DEF Tokens
<1>5. \A k : some(k) <=> \E t \in Tokens : Puts(k, t)
  BY <1>4, Zenon DEF Puts, Place
<1> HIDE DEF some, those, bits
<1>6. [k \in 0 .. MaxKept - 1 |-> IF some(k) THEN those(k) ELSE ids[maskRow][k]] = NewIds
  BY <1>3, <1>5 DEF NewIds
<1> QED BY <1>1, <1>2, <1>6

-----------------------------------------------------------------------------
LEMMA WaveRuns ==
  ASSUME SamplerOK, MaskOK, Wave, UNCHANGED samplerVars
  PROVE  MaskOK'
<1> DEFINE L == Left(maskRow)
           total == KeptBefore(Lanes)
<1>0. maskRow \in Rows /\ active[maskRow] /\ wave < Waves
  BY DEF Wave
<1>1. /\ Len(call.rows) \in Nat /\ Rows = 1 .. Len(call.rows) /\ maskRow \in Nat /\ maskRow # 0
      /\ row = Len(call.rows) + 1 /\ call.mode = "logits"
  BY <1>0 DEF SamplerOK, MaskOK, Rows
<1>2. /\ active \in [Rows -> BOOLEAN]
      /\ ids \in [Rows -> [0 .. MaxKept - 1 -> Int]]
      /\ mask \in [Rows -> [Bytes -> SUBSET Int]]
      /\ counts \in [Rows -> Int]
      /\ wave \in 0 .. Waves - 1
      /\ \A r \in 1 .. maskRow - 1 : RowPacked(r)
      /\ RowHalfPacked(maskRow, wave)
  BY <1>0, <1>1 DEF MaskOK
<1>3. wave \in Nat /\ Waves \in Nat /\ Lanes \in Nat /\ MaxKept \in Nat
  BY <1>2, WavesReach, SamplerSizes
<1>4. UnderWay
  BY <1>0, <1>1, <1>2, <1>3 DEF UnderWay
<1>5. /\ active' = active
      /\ ids' = [ids EXCEPT ![maskRow] = NewIds]
      /\ IF wave + 1 < Waves
         THEN /\ mask' = [mask EXCEPT ![maskRow] = NewBits]
              /\ wave' = wave + 1 /\ running' = total
              /\ maskRow' = maskRow /\ counts' = counts
         ELSE Ends(total, NewBits)
  BY <1>2, <1>3, WaveDoes
<1>6. ids[maskRow] \in [0 .. MaxKept - 1 -> Int] /\ mask[maskRow] \in [Bytes -> SUBSET Int]
  BY <1>0, <1>2
<1>7. NewIds \in [0 .. MaxKept - 1 -> Int]
      /\ \A t \in Below(maskRow, FirstOf(wave + 1, 0)) : Rank(L, t) < MaxKept => NewIds[Rank(L, t)] = t
  BY <1>3, <1>4, <1>6, WaveIds
<1>8. NewBits \in [Bytes -> SUBSET Int]
      /\ \A b \in Bytes : 2 * b < (wave + 1) * Lanes =>
           NewBits[b] = {t % ByteBits : t \in {u \in L : u \div ByteBits = b}}
  BY <1>4, <1>6, WaveBits
<1>9. total = Cardinality(Below(maskRow, FirstOf(wave + 1, 0)))
  <2>1. KeptBefore(Lanes) = Cardinality(Below(maskRow, FirstOf(wave, Lanes)))
    BY <1>3, <1>4, KeptBeforeCounts DEF UnderWay, RowHalfPacked
  <2>2. FirstOf(wave, Lanes) = FirstOf(wave + 1, 0)
    BY <1>3, FirstFacts
  <2> QED BY <2>1, <2>2
<1>10. call' = call /\ answers' = answers /\ row' = row
  BY DEF samplerVars
<1>11. CASE wave + 1 < Waves
  <2>0. /\ mask' = [mask EXCEPT ![maskRow] = NewBits]
        /\ wave' = wave + 1 /\ running' = total /\ maskRow' = maskRow /\ counts' = counts
    BY <1>5, <1>11
  <2>1. Rows' = Rows /\ Bytes' = Bytes
    BY <1>10 DEF Rows
  <2>2. /\ ids' \in [Rows -> [0 .. MaxKept - 1 -> Int]]
        /\ mask' \in [Rows -> [Bytes -> SUBSET Int]]
        /\ ids'[maskRow] = NewIds /\ mask'[maskRow] = NewBits
    BY <1>0, <1>2, <1>5, <1>7, <1>8, <2>0
  <2>3. \A r : Left(r)' = Left(r) /\ Support(r)' = Support(r)
    BY <1>5, <1>10 DEF Left, Support
  <2>4. \A r, n : Below(r, n)' = Below(r, n)
    BY <2>3 DEF Below
  <2>5. ASSUME NEW r \in 1 .. maskRow - 1 PROVE RowPacked(r)'
    <3>1. r \in Rows /\ r # maskRow
      BY <1>0, <1>1
    <3>2. counts'[r] = counts[r] /\ mask'[r] = mask[r] /\ ids'[r] = ids[r]
      BY <1>2, <1>5, <2>0, <3>1
    <3>3. RowPacked(r) /\ Support(r)' = Support(r)
      BY <1>2, <2>3
    <3> QED BY <2>1, <3>2, <3>3 DEF RowPacked, Rank
  <2>6. RowHalfPacked(maskRow, wave)'
    <3> DEFINE B == Below(maskRow, FirstOf(wave + 1, 0))
    <3>1. Left(maskRow)' = L
      BY <2>0, <2>3
    <3>2. Below(maskRow, FirstOf(wave, 0))' = B
      BY <2>0, <3>1 DEF Below, FirstOf
    <3>3. running' = Cardinality(B)
      BY <1>9, <2>0
    <3>4. \A t \in B : Rank(L, t) < MaxKept => ids'[maskRow'][Rank(L, t)] = t
      BY <1>7, <2>0, <2>2
    <3>5. \A b \in Bytes : 2 * b < wave' * Lanes =>
            mask'[maskRow'][b] = {t % ByteBits : t \in {u \in L : u \div ByteBits = b}}
      BY <1>8, <2>0, <2>2
    <3> HIDE DEF B, L
    <3> QED BY <2>1, <3>1, <3>2, <3>3, <3>4, <3>5 DEF RowHalfPacked, Rank
  <2>7. wave + 1 \in 0 .. Waves - 1
    BY <1>3, <1>11
  <2>8. maskRow <= Len(call.rows) + 1
    BY <1>0, <1>1
  <2> HIDE DEF L, total
  <2> QED BY <1>1, <1>2, <1>5, <1>10, <2>0, <2>1, <2>2, <2>5, <2>6, <2>7, <2>8 DEF MaskOK
<1>12. CASE ~(wave + 1 < Waves)
  <2>1. wave + 1 = Waves /\ Ends(total, NewBits)
    BY <1>2, <1>3, <1>5, <1>12
  <2>2. Support(maskRow) = L /\ L \subseteq Tokens
    BY <1>0, <1>4, LeftFacts DEF Support, UnderWay
  <2>3. Below(maskRow, FirstOf(wave + 1, 0)) = L
    BY <2>1, <2>2, WavesReach DEF Below
  <2>4. total = Cardinality(Support(maskRow)) /\ total \in Int
    BY <1>9, <2>2, <2>3, TokensFinite
  <2>5. \A t \in Support(maskRow) :
          Rank(Support(maskRow), t) < MaxKept => NewIds[Rank(Support(maskRow), t)] = t
    BY <1>7, <2>2, <2>3
  <2>6. \A b \in Bytes : NewBits[b] = {t % ByteBits : t \in {u \in Support(maskRow) : u \div ByteBits = b}}
    BY <1>8, <2>1, <2>2, WavesReach
  <2> HIDE DEF total, L
  <2> QED BY <1>0, <1>5, <1>7, <1>8, <2>1, <2>4, <2>5, <2>6, RowEnds
<1> QED BY <1>11, <1>12

LEMMA MaskRests ==
  ASSUME MaskOK, UNCHANGED <<samplerVars, maskVars>>
  PROVE  MaskOK'
<1>1. /\ maskRow' = maskRow /\ active' = active /\ ids' = ids /\ mask' = mask /\ counts' = counts
      /\ wave' = wave /\ running' = running /\ call' = call /\ row' = row /\ answers' = answers
  BY DEF samplerVars, maskVars
<1>2. \A r : Left(r)' = Left(r)
  BY <1>1 DEF Left
<1>3. \A r : Support(r)' = Support(r)
  BY <1>1, <1>2 DEF Support
<1>4. \A r : RowPacked(r)' = RowPacked(r)
  BY <1>1, <1>3 DEF RowPacked, Rank
<1>5. RowHalfPacked(maskRow, wave)' = RowHalfPacked(maskRow, wave)
  BY <1>1, <1>2 DEF RowHalfPacked, Below, Rank
<1>6. Rows' = Rows
  BY <1>1 DEF Rows
<1> QED BY <1>1, <1>4, <1>5, <1>6 DEF MaskOK

(* The mask waits for the sampler, and the sampler for the mask.           *)
LEMMA SamplingSteps ==
  ASSUME SamplingInv, [SamplingNext]_<<samplerVars, maskVars>>
  PROVE  SamplingInv'
<1>0. SamplerOK /\ MaskOK
  BY DEF SamplingInv
<1>1. CASE (CallSampler \/ SamplerNext) /\ UNCHANGED maskVars
  <2>1. SamplerOK'
    BY <1>0, <1>1, SamplerSteps
  <2>2. maskRow = 0
    <3>1. SUFFICES ASSUME maskRow # 0 PROVE FALSE
      OBVIOUS
    <3>2. row = Len(call.rows) + 1 /\ call.mode = "logits"
      BY <1>0, <3>1 DEF MaskOK
    <3> QED BY <1>0, <1>1, <3>2, SamplerRests
  <2>3. maskRow' = 0 /\ wave' = wave /\ running' = running
    BY <1>1, <2>2 DEF maskVars
  <2> QED BY <1>0, <2>1, <2>2, <2>3 DEF MaskOK, SamplingInv
<1>2. CASE MaskNext /\ UNCHANGED samplerVars
  <2>1. SamplerOK'
    BY <1>0, <1>2, SamplerStutters DEF samplerVars
  <2>2. MaskOK'
    <3>1. CASE StartMask
      BY <1>0, <1>2, <3>1, MaskStarts
    <3>2. CASE SkipRow
      BY <1>0, <1>2, <3>2, RowSkipped
    <3>3. CASE Wave
      BY <1>0, <1>2, <3>3, WaveRuns
    <3> QED BY <1>2, <3>1, <3>2, <3>3 DEF MaskNext
  <2> QED BY <2>1, <2>2 DEF SamplingInv
<1>3. CASE UNCHANGED <<samplerVars, maskVars>>
  <2>1. SamplerOK'
    BY <1>0, <1>3, SamplerStutters DEF samplerVars
  <2>2. MaskOK'
    BY <1>0, <1>3, MaskRests
  <2> QED BY <2>1, <2>2 DEF SamplingInv
<1> QED BY <1>1, <1>2, <1>3 DEF SamplingNext

-----------------------------------------------------------------------------
(* Whatever the sampler is called with, a row of logits it gave back was   *)
(* written for every token, and a row the mask is at has the tokens of the *)
(* waves before behind it: their ids at their ranks, their bits and their  *)
(* number (topk_topp_sampler, compact_sampling_mask).                      *)
THEOREM SamplingInvariant == SamplingSpec => []SamplingInv
<1>1. ASSUME SamplerIdle, MaskIdle PROVE SamplingInv
  <2>1. SamplerOK
    BY <1>1, SamplerStarts
  <2>2. MaskOK
    BY <1>1 DEF MaskIdle, MaskOK
  <2> QED BY <2>1, <2>2 DEF SamplingInv
<1>2. SamplingInv /\ [SamplingNext]_<<samplerVars, maskVars>> => SamplingInv'
  BY SamplingSteps
<1> QED BY <1>1, <1>2, PTL DEF SamplingSpec

(* The packed rows are the sampler's answers: the ids that fit, in rising  *)
(* order, how many there are and exactly their bits, whatever the          *)
(* vocabulary, the work-items and the width of token_ids                   *)
(* (compact_sampling_mask_kernel).                                         *)
THEOREM MaskPacksSupport == SamplingSpec => []SupportPacked
<1>1. ASSUME SamplingInv PROVE SupportPacked
  <2> SUFFICES ASSUME NEW r \in Rows, r < maskRow PROVE RowPacked(r)
    BY DEF SupportPacked, RowPacked, Support, Left, Rank
  <2>1. maskRow \in Nat /\ r \in 1 .. Len(call.rows) /\ Len(call.rows) \in Nat
    BY <1>1 DEF SamplingInv, SamplerOK, MaskOK, Rows
  <2>2. maskRow # 0 /\ r \in 1 .. maskRow - 1
    BY <2>1
  <2> QED BY <1>1, <2>2 DEF SamplingInv, MaskOK
<1> QED BY <1>1, SamplingInvariant, PTL
=============================================================================
