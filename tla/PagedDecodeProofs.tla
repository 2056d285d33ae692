------------------------- MODULE PagedDecodeProofs --------------------------
(***************************************************************************)
(* Proofs about PagedDecode and the arithmetic of DecodePlan, for every    *)
(* batch, tile size, number of splits and plan target.                     *)
(***************************************************************************)
EXTENDS PagedDecode, FiniteSetTheorems, TLAPS

-----------------------------------------------------------------------------
(* Division with remainder. *)
LEMMA Division ==
  ASSUME NEW n \in Nat, NEW k \in Nat \ {0}
  PROVE  /\ n \div k \in Nat
         /\ n % k \in 0 .. k - 1
         /\ n % k = n - k * (n \div k)
<1>1. n \div k \in Nat
  BY SMT
<1>2. n % k \in 0 .. k - 1
  BY SMT
<1>3. n % k = n - k * (n \div k)
  BY SMT
<1> QED BY <1>1, <1>2, <1>3

(* A common factor may be cancelled from an inequality. *)
LEMMA Cancel ==
  ASSUME NEW a \in Int, NEW b \in Int, NEW d \in Nat \ {0}, a * d < b * d
  PROVE  a < b
  BY SMT

LEMMA Monotone ==
  ASSUME NEW a \in Int, NEW b \in Int, NEW d \in Nat, a <= b
  PROVE  a * d <= b * d
  BY SMT

LEMMA DivPositive ==
  ASSUME NEW n \in Nat, NEW k \in Nat \ {0}, k <= n
  PROVE  n \div k >= 1
  BY SMT

(* Rounding up. *)
LEMMA RoundUp ==
  ASSUME NEW n \in Nat, NEW k \in Nat \ {0}
  PROVE  /\ CeilDiv(n, k) \in Nat
         /\ CeilDiv(n, k) * k >= n
         /\ (CeilDiv(n, k) - 1) * k < n
         /\ n > 0 => CeilDiv(n, k) \in 1 .. n
<1> DEFINE N == n + k - 1
<1>1. N \in Nat
  BY SMT
<1> HIDE DEF N
<1> DEFINE q == N \div k
<1> DEFINE r == N % k
<1> DEFINE p == k * q
<1>2. q \in Nat /\ r \in 0 .. k - 1 /\ r = N - p
  BY <1>1, Division
<1>3. CeilDiv(n, k) = q
  BY DEF CeilDiv, N
<1> HIDE DEF q, r
<1>4. q * k = p /\ (q - 1) * k = p - k /\ p \in Int
  BY <1>2, SMT
<1>5. q * k >= n /\ (q - 1) * k < n
  <2> HIDE DEF p
  <2>1. p >= n /\ p - k < n
    BY <1>2, <1>4, SMT DEF N
  <2> QED BY <2>1, <1>4
<1>6. n > 0 => q >= 1
  BY <1>2, <1>5, SMT
<1>7. n > 0 => q <= n
  <2> SUFFICES ASSUME n > 0, q > n PROVE FALSE
    BY <1>2, SMT
  <2>1. (q - 1) * k >= n * k
    BY <1>2, Monotone, SMT
  <2>2. n * k >= n
    BY SMT
  <2> QED BY <2>1, <2>2, <1>5, <1>2, SMT
<1> QED BY <1>2, <1>3, <1>5, <1>6, <1>7, SMT

-----------------------------------------------------------------------------
(* The number of splits of a plan: at least one, at most the bound of the  *)
(* buffers and at most the tiles (build_decode_split_plan).                *)
LEMMA PlanSplitsRange ==
  ASSUME NEW n \in Nat \ {0}, NEW target \in Nat \ {0}, NEW cap \in Nat \ {0}
  PROVE  PlanSplits(n, target, cap) \in 1 .. cap /\ PlanSplits(n, target, cap) <= n
<1> DEFINE c == CeilDiv(n, target)
<1>1. c \in 1 .. n
  BY RoundUp
<1> HIDE DEF c
<1>2. Least(c, Least(cap, n)) \in 1 .. cap /\ Least(c, Least(cap, n)) <= n
  BY <1>1, SMT DEF Least
<1>3. PlanSplits(n, target, cap) = 1 \/ PlanSplits(n, target, cap) = Least(c, Least(cap, n))
  BY DEF PlanSplits, c
<1> QED BY <1>2, <1>3, SMT

LEMMA Shares ==
  ASSUME NEW n \in Nat, NEW k \in 1 .. n
  PROVE  \E d \in Nat \ {0}, r \in 0 .. k - 1 : d = n \div k /\ r = n % k /\ r = n - k * d
<1>1. k \in Nat \ {0} /\ k <= n
  BY SMT
<1>2. n \div k \in Nat /\ n \div k >= 1
  BY <1>1, Division, DivPositive
<1>3. n \div k \in Nat \ {0}
  BY <1>2, SMT
<1> QED BY <1>1, <1>3, Division

(* The shares of a plan follow one another.                                *)
LEMMA PlanOrder ==
  ASSUME NEW n \in Nat, NEW k \in 1 .. n, NEW s \in 0 .. k - 1
  PROVE  /\ PlanStart(n, k, s) \in Nat
         /\ PlanCount(n, k, s) \in Nat \ {0}
         /\ PlanStart(n, k, s) + PlanCount(n, k, s) <= n
         /\ \A u \in 0 .. k - 1 : s < u =>
              PlanStart(n, k, s) + PlanCount(n, k, s) <= PlanStart(n, k, u)
<1>1. PICK d \in Nat \ {0}, r \in 0 .. k - 1 : d = n \div k /\ r = n % k /\ r = n - k * d
  BY Shares
<1>2. PlanCount(n, k, s) = d + (IF s < r THEN 1 ELSE 0)
  BY <1>1 DEF PlanCount
<1>3. \A u \in 0 .. k - 1 : PlanStart(n, k, u) = u * d + (IF u <= r THEN u ELSE r)
  BY <1>1 DEF PlanStart, Least
<1>4. s * d \in Nat /\ (s + 1) * d = s * d + d
  BY <1>1, SMT
<1>5. PlanStart(n, k, s) \in Nat /\ PlanCount(n, k, s) \in Nat \ {0}
  BY <1>1, <1>2, <1>3, <1>4, SMT
<1>6. PlanStart(n, k, s) + PlanCount(n, k, s) = (s + 1) * d + (IF s + 1 <= r THEN s + 1 ELSE r)
  BY <1>1, <1>2, <1>3, <1>4, SMT
<1>7. PlanStart(n, k, s) + PlanCount(n, k, s) <= n
  <2>1. (s + 1) * d <= k * d /\ k * d \in Int /\ (s + 1) * d \in Int
    BY <1>1, Monotone, SMT
  <2>2. n = k * d + r
    BY <1>1, <2>1, SMT
  <2> QED BY <1>1, <1>6, <2>1, <2>2, SMT
<1>8. ASSUME NEW u \in 0 .. k - 1, s < u
      PROVE  PlanStart(n, k, s) + PlanCount(n, k, s) <= PlanStart(n, k, u)
  <2>1. (s + 1) * d <= u * d /\ u * d \in Int /\ (s + 1) * d \in Int
    BY <1>1, <1>8, Monotone, SMT
  <2>2. PlanStart(n, k, u) = u * d + (IF u <= r THEN u ELSE r)
    BY <1>3
  <2> QED BY <1>1, <1>6, <1>8, <2>1, <2>2, SMT
<1> QED BY <1>5, <1>7, <1>8

(* Every tile is in the share of some split.                               *)
LEMMA PlanCovers ==
  ASSUME NEW n \in Nat, NEW k \in 1 .. n, NEW t \in 0 .. n - 1
  PROVE  \E s \in 0 .. k - 1 :
           PlanStart(n, k, s) <= t /\ t < PlanStart(n, k, s) + PlanCount(n, k, s)
<1>1. PICK d \in Nat \ {0}, r \in 0 .. k - 1 : d = n \div k /\ r = n % k /\ r = n - k * d
  BY Shares
<1>2. \A s \in 0 .. k - 1 : PlanCount(n, k, s) = d + (IF s < r THEN 1 ELSE 0)
  BY <1>1 DEF PlanCount
<1>3. \A s \in 0 .. k - 1 : PlanStart(n, k, s) = s * d + (IF s <= r THEN s ELSE r)
  BY <1>1 DEF PlanStart, Least
<1>4. PICK e \in Nat \ {0} : e = d + 1
  BY <1>1, SMT
<1>5. r * e = r * d + r /\ r * d \in Nat /\ r * e \in Nat
  BY <1>4, SMT
<1>6. CASE t < r * e
  <2>0. t \in Nat
    BY SMT
  <2>1. PICK s \in Nat, m \in 0 .. e - 1 : m = t - e * s
    BY <2>0, Division
  <2>2. s * e <= t /\ t < s * e + e /\ s * e \in Nat
    BY <2>1, SMT
  <2>3. s * e < r * e
    BY <2>2, <1>5, <1>6, SMT
  <2>4. s < r
    BY <2>3, Cancel
  <2>5. s * e = s * d + s /\ s * d \in Nat
    BY <1>4, SMT
  <2>6. s \in 0 .. k - 1
    BY <2>4, SMT
  <2>7. PlanStart(n, k, s) = s * d + s /\ PlanCount(n, k, s) = d + 1
    BY <2>4, <2>6, <1>2, <1>3, SMT
  <2> QED BY <2>2, <2>5, <2>6, <2>7, <1>4, SMT
<1>7. CASE t >= r * e
  <2>1. PICK u \in Nat : u = t - r * e
    BY <1>5, <1>7, SMT
  <2>2. PICK q \in Nat, m \in 0 .. d - 1 : m = u - d * q
    BY Division
  <2>3. q * d <= u /\ u < q * d + d /\ q * d \in Nat
    BY <2>2, SMT
  <2>4. (k - r) * d = k * d - r * d /\ k * d \in Int /\ k * d = n - r
    BY <1>1, SMT
  <2>5. u < k * d - r * d
    BY <1>5, <2>1, <2>4, SMT
  <2>6. q < k - r
    <3>1. q * d < (k - r) * d
      BY <2>3, <2>4, <2>5, <1>5, SMT
    <3> QED BY <3>1, Cancel
  <2>7. PICK s \in 0 .. k - 1 : s = r + q
    BY <2>6, SMT
  <2>8. s * d = r * d + q * d
    BY <2>7, SMT
  <2>9. t = u + r * d + r
    BY <1>5, <2>1, SMT
  <2>10. PlanStart(n, k, s) = s * d + r /\ PlanCount(n, k, s) = d
    BY <2>7, <1>2, <1>3, SMT
  <2> QED BY <2>3, <2>8, <2>9, <2>10, <1>5, SMT
<1> QED BY <1>5, <1>6, <1>7, SMT

-----------------------------------------------------------------------------
(* The shares the attention kernel makes itself: every tile is in exactly  *)
(* the share of one split, which is one the reduction combines.            *)
LEMMA LegacyRange ==
  ASSUME NEW n \in Nat, NEW k \in Nat \ {0}, NEW s \in 0 .. k - 1
  PROVE  /\ LegacyStart(n, k, s) \in Nat
         /\ LegacyCount(n, k, s) \in Int
         /\ LegacyStart(n, k, s) + LegacyCount(n, k, s) <= n
         /\ LegacyCount(n, k, s) > 0 <=> s \in ReducedSplits(n, k, FALSE)
<1>1. PICK c \in Nat : c = LegacyShare(n, k) /\ (n > 0 => c >= 1) /\ (n = 0 => c = 0)
  <2>1. CeilDiv(n, k) \in Nat /\ (n > 0 => CeilDiv(n, k) \in 1 .. n)
        /\ (CeilDiv(n, k) - 1) * k < n
    BY RoundUp
  <2>2. ASSUME n = 0 PROVE CeilDiv(n, k) = 0
    <3>1. PICK c \in Nat : c = CeilDiv(n, k) /\ (c - 1) * k < 0
      BY <2>1, <2>2
    <3>2. c >= 1 => (c - 1) * k >= 0
      BY SMT
    <3> QED BY <3>1, <3>2, SMT
  <2> QED BY <2>1, <2>2, SMT DEF LegacyShare
<1>2. s * c \in Nat
  BY SMT
<1>3. CASE LegacySingle(n, k)
  <2>1. PICK z \in Nat : z = IF s = 0 THEN n ELSE 0
    BY SMT
  <2>2. LegacyStart(n, k, s) = 0 /\ LegacyCount(n, k, s) = z
    BY <1>3, <2>1 DEF LegacyStart, LegacyCount
  <2>3. s \in ReducedSplits(n, k, FALSE) <=> s = 0 /\ 0 * c < n
    BY <1>1, <1>3, SMT DEF ReducedSplits
  <2>4. z <= n /\ (z > 0 <=> s = 0 /\ 0 * c < n)
    BY <1>1, <2>1, SMT
  <2>5. 0 \in Nat /\ z \in Int /\ 0 + z <= n
    BY <2>4, SMT
  <2> QED BY <2>2, <2>3, <2>4, <2>5
<1>4. CASE ~LegacySingle(n, k)
  <2>1. LegacyStart(n, k, s) = s * c /\ LegacyCount(n, k, s) = Least(n - s * c, c)
    BY <1>1, <1>4 DEF LegacyStart, LegacyCount
  <2>2. s \in ReducedSplits(n, k, FALSE) <=> s * c < n
    BY <1>1, <1>4, SMT DEF ReducedSplits
  <2>3. /\ Least(n - s * c, c) \in Int
        /\ s * c + Least(n - s * c, c) <= n
        /\ Least(n - s * c, c) > 0 <=> s * c < n
    BY <1>1, <1>2, SMT DEF Least
  <2> QED BY <1>2, <2>1, <2>2, <2>3
<1> QED BY <1>3, <1>4

LEMMA LegacyCovers ==
  ASSUME NEW n \in Nat, NEW k \in Nat \ {0}, NEW t \in 0 .. n - 1
  PROVE  \E s \in 0 .. k - 1 :
           LegacyStart(n, k, s) <= t /\ t < LegacyStart(n, k, s) + LegacyCount(n, k, s)
<1>1. CASE LegacySingle(n, k)
  <2>1. LegacyStart(n, k, 0) = 0 /\ LegacyCount(n, k, 0) = n /\ 0 \in 0 .. k - 1
    BY <1>1, SMT DEF LegacyStart, LegacyCount
  <2> QED BY <2>1, SMT
<1>2. CASE ~LegacySingle(n, k)
  <2>0. n > 0 /\ t \in Nat
    BY SMT
  <2>1. PICK c \in Nat \ {0} : c = LegacyShare(n, k) /\ c * k >= n
    <3>1. CeilDiv(n, k) \in 1 .. n /\ CeilDiv(n, k) * k >= n
      BY <2>0, RoundUp
    <3> QED BY <3>1, SMT DEF LegacyShare
  <2>2. PICK s \in Nat, m \in 0 .. c - 1 : m = t - c * s
    BY <2>0, Division
  <2>3. s * c <= t /\ t < s * c + c /\ s * c \in Nat /\ c * k = k * c /\ k * c \in Nat
    BY <2>2, SMT
  <2>4. s < k
    <3>1. s * c < k * c
      BY <2>1, <2>3, SMT
    <3> QED BY <3>1, Cancel
  <2>5. LegacyStart(n, k, s) = s * c /\ LegacyCount(n, k, s) = Least(n - s * c, c)
    BY <1>2, <2>1 DEF LegacyStart, LegacyCount
  <2> QED BY <2>3, <2>4, <2>5, SMT DEF Least
<1> QED BY <1>1, <1>2

LEMMA LegacyOrder ==
  ASSUME NEW n \in Nat, NEW k \in Nat \ {0}, NEW s \in 0 .. k - 1, NEW u \in 0 .. k - 1, s < u
  PROVE  \/ LegacyCount(n, k, u) <= 0
         \/ LegacyStart(n, k, s) + LegacyCount(n, k, s) <= LegacyStart(n, k, u)
<1>1. CASE LegacySingle(n, k)
  <2>1. LegacyCount(n, k, u) = 0
    BY <1>1, SMT DEF LegacyCount
  <2> QED BY <2>1, SMT
<1>2. CASE ~LegacySingle(n, k)
  <2>1. PICK c \in Nat : c = LegacyShare(n, k)
    BY RoundUp DEF LegacyShare
  <2>2. (s + 1) * c <= u * c /\ (s + 1) * c = s * c + c /\ s * c \in Nat /\ u * c \in Nat
    BY Monotone, SMT
  <2>3. /\ LegacyStart(n, k, s) = s * c /\ LegacyCount(n, k, s) = Least(n - s * c, c)
        /\ LegacyStart(n, k, u) = u * c
    BY <1>2, <2>1 DEF LegacyStart, LegacyCount
  <2> QED BY <2>2, <2>3, SMT DEF Least
<1> QED BY <1>1, <1>2

-----------------------------------------------------------------------------
(* The tiles inside a window: there is one unless the sequence is empty.   *)
LEMMA WindowRange ==
  ASSUME NEW kv \in Nat, NEW w \in Nat \cup {-1}
  PROVE  /\ KBlock0(kv, w) \in Nat /\ KBlocks(kv) \in Nat
         /\ WindowedBlocks(kv, w) \in Nat
         /\ kv > 0 => WindowedBlocks(kv, w) >= 1
         /\ kv = 0 => KBlocks(kv) = 0 /\ KBlock0(kv, w) = 0
<1> USE TileAssumption
<1>1. PICK c \in Nat : c = KBlocks(kv) /\ c * KvTile >= kv /\ (c - 1) * KvTile < kv
  BY RoundUp DEF KBlocks
<1>2. PICK f \in Nat : f = KBlock0(kv, w) /\ (kv > 0 => f * KvTile <= kv - 1) /\ (kv = 0 => f = 0)
  <2>1. CASE w < 0
    <3>1. KBlock0(kv, w) = 0 /\ 0 * KvTile = 0
      BY <2>1, SMT DEF KBlock0
    <3> QED BY <3>1, SMT
  <2>2. CASE w >= 0
    <3>1. PICK a \in Nat : a = Most(kv - 1 - w, 0) /\ (kv > 0 => a <= kv - 1) /\ (kv = 0 => a = 0)
      <4>1. /\ Most(kv - 1 - w, 0) \in Nat
            /\ kv > 0 => Most(kv - 1 - w, 0) <= kv - 1
            /\ kv = 0 => Most(kv - 1 - w, 0) = 0
        BY <2>2, SMT DEF Most
      <4> QED BY <4>1
    <3>2. PICK f \in Nat, m \in 0 .. KvTile - 1 : f = a \div KvTile /\ m = a - KvTile * f
      BY Division
    <3>3. f * KvTile <= a /\ f * KvTile \in Nat
      BY <3>2, SMT
    <3>4. f >= 1 => f * KvTile >= 1
      BY SMT
    <3>5. KBlock0(kv, w) = f
      BY <2>2, <3>1, <3>2 DEF KBlock0
    <3> QED BY <3>1, <3>3, <3>4, <3>5, SMT
  <2> QED BY <2>1, <2>2, SMT
<1>3. kv > 0 => f < c
  <2> SUFFICES ASSUME kv > 0 PROVE f < c
    OBVIOUS
  <2>1. f * KvTile < c * KvTile
    BY <1>1, <1>2, SMT
  <2> QED BY <2>1, Cancel
<1>4. kv = 0 => c = 0
  <2>1. c >= 1 => (c - 1) * KvTile >= 0
    BY SMT
  <2> QED BY <1>1, <2>1, SMT
<1> QED BY <1>1, <1>2, <1>3, <1>4, SMT DEF WindowedBlocks

-----------------------------------------------------------------------------
(* What a launch may be. *)
LEMMA JobFields ==
  ASSUME NEW j \in Jobs, NEW b \in Seqs
  PROVE  /\ j.kv[b] \in Nat /\ KBlocks(j.kv[b]) <= MaxTile + 1
         /\ j.window \in Nat \cup {-1}
         /\ j.cap \in Nat \ {0} /\ j.cap <= Lanes
         /\ j.target \in Nat \ {0}
         /\ j.planned \in BOOLEAN /\ j.prefill[b] \in BOOLEAN
         /\ j.planned => j.cap > 1
         /\ j.cap > 1 => ~j.prefill[b]
<1>1. /\ j.kv \in [Seqs -> KvLens] /\ j.prefill \in [Seqs -> BOOLEAN]
      /\ j.window \in Windows /\ j.cap \in Caps
      /\ j.planned \in BOOLEAN /\ j.target \in Targets
      /\ j.planned => j.cap > 1
      /\ j.cap > 1 => j.prefill = [c \in Seqs |-> FALSE]
  BY DEF Jobs
<1>2. j.kv[b] \in Nat /\ KBlocks(j.kv[b]) <= MaxTile + 1
  BY <1>1, InputAssumption
<1>3. j.window \in Nat \cup {-1} /\ j.target \in Nat \ {0}
  BY <1>1, InputAssumption
<1>4. j.cap \in 1 .. Lanes
  BY <1>1, LanesAssumption
<1>5. j.cap \in Nat \ {0} /\ j.cap <= Lanes
  BY <1>4, LanesAssumption, SMT
<1> QED BY <1>1, <1>2, <1>3, <1>5

(* The tiles that are shared out: those of the window, and the one a plan  *)
(* gives an empty sequence.                                                *)
ShareTiles(b) == IF job.planned THEN PlannedTiles(b) ELSE Tiles(b)

LEMMA TileCounts ==
  ASSUME job \in Jobs, NEW b \in Seqs
  PROVE  /\ First(b) \in Nat /\ Tiles(b) \in Nat
         /\ PlannedTiles(b) \in Nat \ {0}
         /\ ShareTiles(b) \in Nat
         /\ First(b) + ShareTiles(b) <= MaxTile + 1
         /\ job.kv[b] > 0 => ShareTiles(b) = Tiles(b)
         /\ First(b) + Tiles(b) = KBlocks(job.kv[b])
         /\ job.kv[b] > 0 => Tiles(b) > 0
<1>1. job.kv[b] \in Nat /\ job.window \in Nat \cup {-1} /\ KBlocks(job.kv[b]) <= MaxTile + 1
      /\ job.planned \in BOOLEAN /\ MaxTile \in Nat
  BY JobFields, InputAssumption
<1>2. PICK kv \in Nat, w \in Nat \cup {-1} : kv = job.kv[b] /\ w = job.window
  BY <1>1
<1>3. /\ First(b) \in Nat /\ KBlocks(kv) \in Nat /\ Tiles(b) \in Nat
      /\ kv > 0 => Tiles(b) >= 1
      /\ kv = 0 => KBlocks(kv) = 0 /\ First(b) = 0
      /\ Tiles(b) = KBlocks(kv) - First(b)
  BY <1>2, WindowRange DEF First, Tiles, WindowedBlocks
<1>4. PlannedTiles(b) = IF 1 <= Tiles(b) THEN Tiles(b) ELSE 1
  BY DEF PlannedTiles, PlanTiles, Most, Tiles
<1>5. ShareTiles(b) = Tiles(b) \/ (ShareTiles(b) = 1 /\ Tiles(b) < 1)
  BY <1>3, <1>4, SMT DEF ShareTiles
<1>6. PlannedTiles(b) \in Nat \ {0} /\ ShareTiles(b) \in Nat
  BY <1>3, <1>4, <1>5, SMT
<1>7. Tiles(b) < 1 => kv = 0 /\ First(b) = 0
  BY <1>3, <1>2, SMT
<1>8. First(b) + ShareTiles(b) <= MaxTile + 1
  BY <1>1, <1>2, <1>3, <1>5, <1>7, SMT
<1>9. kv > 0 => ShareTiles(b) = Tiles(b)
  BY <1>2, <1>5, <1>7, SMT
<1> QED BY <1>2, <1>3, <1>6, <1>8, <1>9, SMT

LEMMA SplitsRange ==
  ASSUME NEW j \in Jobs, NEW b \in Seqs
  PROVE  Splits(j, b) \in 1 .. j.cap /\ Splits(j, b) \in Nat \ {0}
<1>1. j.kv[b] \in Nat /\ j.window \in Nat \cup {-1} /\ j.cap \in Nat \ {0} /\ j.target \in Nat \ {0}
  BY JobFields
<1>2. PlanTiles(j.kv[b], j.window) \in Nat \ {0}
  <2>1. WindowedBlocks(j.kv[b], j.window) \in Nat
    BY <1>1, WindowRange
  <2> QED BY <2>1, SMT DEF PlanTiles, Most
<1>3. PlanSplits(PlanTiles(j.kv[b], j.window), j.target, j.cap) \in 1 .. j.cap
  BY <1>1, <1>2, PlanSplitsRange
<1>4. j.cap \in 1 .. j.cap
  BY <1>1, SMT
<1>5. Splits(j, b) \in 1 .. j.cap
  BY <1>3, <1>4 DEF Splits
<1> QED BY <1>1, <1>5, SMT

LEMMA PlannedSplits ==
  ASSUME job \in Jobs, job.planned, NEW b \in Seqs
  PROVE  Splits(job, b) \in 1 .. PlannedTiles(b)
<1>1. job.cap \in Nat \ {0} /\ job.target \in Nat \ {0} /\ PlannedTiles(b) \in Nat \ {0}
  BY JobFields, TileCounts
<1>2. Splits(job, b) <= PlannedTiles(b)
  BY <1>1, PlanSplitsRange DEF Splits, PlannedTiles
<1> QED BY <1>1, <1>2, SplitsRange, SMT

-----------------------------------------------------------------------------
(* Where the share of a split starts and how many tiles it has, whoever    *)
(* computed it.                                                            *)
ShareStart(b, s) ==
  IF job.planned THEN PlanStart(PlannedTiles(b), Splits(job, b), s)
  ELSE LegacyStart(Tiles(b), Splits(job, b), s)
ShareCount(b, s) ==
  IF job.planned THEN PlanCount(PlannedTiles(b), Splits(job, b), s)
  ELSE LegacyCount(Tiles(b), Splits(job, b), s)

(* A share lies within the tiles, and is not empty exactly if the          *)
(* reduction combines its split.                                           *)
LEMMA ShareBounds ==
  ASSUME job \in Jobs, NEW b \in Seqs, NEW s \in 0 .. Splits(job, b) - 1
  PROVE  /\ ShareStart(b, s) \in Nat /\ ShareCount(b, s) \in Int
         /\ ShareStart(b, s) + ShareCount(b, s) <= ShareTiles(b)
         /\ ShareCount(b, s) > 0 <=> s \in Combined(b)
<1>1. Splits(job, b) \in Nat \ {0} /\ Tiles(b) \in Nat /\ PlannedTiles(b) \in Nat \ {0}
  BY SplitsRange, TileCounts
<1>2. CASE job.planned
  <2>1. PICK n \in Nat, k \in Nat : n = PlannedTiles(b) /\ k = Splits(job, b) /\ k \in 1 .. n
    BY <1>1, <1>2, PlannedSplits
  <2>2. /\ PlanStart(n, k, s) \in Nat /\ PlanCount(n, k, s) \in Nat \ {0}
        /\ PlanStart(n, k, s) + PlanCount(n, k, s) <= n
    BY <2>1, PlanOrder
  <2>3. ShareStart(b, s) = PlanStart(n, k, s) /\ ShareCount(b, s) = PlanCount(n, k, s)
        /\ ShareTiles(b) = n
    BY <1>2, <2>1 DEF ShareStart, ShareCount, ShareTiles
  <2>4. s \in Combined(b)
    BY <1>2 DEF Combined, ReducedSplits
  <2>5. ShareCount(b, s) > 0 /\ ShareCount(b, s) \in Int
    BY <2>2, <2>3, SMT
  <2> QED BY <2>2, <2>3, <2>4, <2>5
<1>3. CASE ~job.planned
  <2>1. PICK n \in Nat, k \in Nat \ {0} : n = Tiles(b) /\ k = Splits(job, b)
    BY <1>1
  <2>2. /\ LegacyStart(n, k, s) \in Nat /\ LegacyCount(n, k, s) \in Int
        /\ LegacyStart(n, k, s) + LegacyCount(n, k, s) <= n
        /\ LegacyCount(n, k, s) > 0 <=> s \in ReducedSplits(n, k, FALSE)
    BY <2>1, LegacyRange
  <2>3. ShareStart(b, s) = LegacyStart(n, k, s) /\ ShareCount(b, s) = LegacyCount(n, k, s)
        /\ ShareTiles(b) = n
    BY <1>3, <2>1 DEF ShareStart, ShareCount, ShareTiles
  <2>4. Combined(b) = ReducedSplits(n, k, FALSE)
    BY <1>3, <2>1 DEF Combined, ReducedSplits
  <2> QED BY <2>2, <2>3, <2>4
<1> QED BY <1>2, <1>3

LEMMA ShareOrder ==
  ASSUME job \in Jobs, NEW b \in Seqs,
         NEW s \in 0 .. Splits(job, b) - 1, NEW u \in 0 .. Splits(job, b) - 1, s < u
  PROVE  \/ ShareCount(b, u) <= 0
         \/ ShareStart(b, s) + ShareCount(b, s) <= ShareStart(b, u)
<1>1. Splits(job, b) \in Nat \ {0} /\ Tiles(b) \in Nat /\ PlannedTiles(b) \in Nat \ {0}
  BY SplitsRange, TileCounts
<1>2. CASE job.planned
  <2>1. PICK n \in Nat, k \in Nat : n = PlannedTiles(b) /\ k = Splits(job, b) /\ k \in 1 .. n
    BY <1>1, <1>2, PlannedSplits
  <2>2. PlanStart(n, k, s) + PlanCount(n, k, s) <= PlanStart(n, k, u)
    BY <2>1, PlanOrder
  <2> QED BY <1>2, <2>1, <2>2 DEF ShareStart, ShareCount
<1>3. CASE ~job.planned
  <2>1. PICK n \in Nat, k \in Nat \ {0} : n = Tiles(b) /\ k = Splits(job, b)
    BY <1>1
  <2>2. LegacyCount(n, k, u) <= 0
        \/ LegacyStart(n, k, s) + LegacyCount(n, k, s) <= LegacyStart(n, k, u)
    BY <2>1, LegacyOrder
  <2> QED BY <1>3, <2>1, <2>2 DEF ShareStart, ShareCount
<1> QED BY <1>2, <1>3

LEMMA ShareCovers ==
  ASSUME job \in Jobs, NEW b \in Seqs, NEW t \in 0 .. ShareTiles(b) - 1
  PROVE  \E s \in 0 .. Splits(job, b) - 1 :
           ShareStart(b, s) <= t /\ t < ShareStart(b, s) + ShareCount(b, s)
<1>1. Splits(job, b) \in Nat \ {0} /\ Tiles(b) \in Nat /\ PlannedTiles(b) \in Nat \ {0}
  BY SplitsRange, TileCounts
<1>2. CASE job.planned
  <2>1. PICK n \in Nat, k \in Nat : n = PlannedTiles(b) /\ k = Splits(job, b) /\ k \in 1 .. n
    BY <1>1, <1>2, PlannedSplits
  <2>2. ShareTiles(b) = n
    BY <1>2, <2>1 DEF ShareTiles
  <2>3. \E s \in 0 .. k - 1 :
          PlanStart(n, k, s) <= t /\ t < PlanStart(n, k, s) + PlanCount(n, k, s)
    BY <2>1, <2>2, PlanCovers
  <2> QED BY <1>2, <2>1, <2>3 DEF ShareStart, ShareCount
<1>3. CASE ~job.planned
  <2>1. PICK n \in Nat, k \in Nat \ {0} : n = Tiles(b) /\ k = Splits(job, b)
    BY <1>1
  <2>2. ShareTiles(b) = n
    BY <1>3, <2>1 DEF ShareTiles
  <2>3. \E s \in 0 .. k - 1 :
          LegacyStart(n, k, s) <= t /\ t < LegacyStart(n, k, s) + LegacyCount(n, k, s)
    BY <2>1, <2>2, LegacyCovers
  <2> QED BY <1>3, <2>1, <2>3 DEF ShareStart, ShareCount
<1> QED BY <1>2, <1>3

(* The shares themselves, as sets of tiles. *)
LEMMA InShare ==
  ASSUME job \in Jobs, NEW b \in Seqs, NEW s \in 0 .. Splits(job, b) - 1, NEW t \in Int
  PROVE  t \in Share(b, s) <=>
           /\ First(b) + ShareStart(b, s) <= t
           /\ t < First(b) + ShareStart(b, s) + ShareCount(b, s)
<1>1. PICK f \in Nat, a \in Nat, c \in Int :
        f = First(b) /\ a = ShareStart(b, s) /\ c = ShareCount(b, s)
  BY TileCounts, ShareBounds
<1>2. Share(b, s) = f + a .. f + a + c - 1
  BY <1>1 DEF Share, ShareStart, ShareCount
<1>3. t \in f + a .. f + a + c - 1 <=> f + a <= t /\ t < f + a + c
  BY SMT
<1> QED BY <1>1, <1>2, <1>3

LEMMA VisibleTiles ==
  ASSUME job \in Jobs, NEW b \in Seqs, job.kv[b] > 0
  PROVE  Visible(job.kv[b], job.window) = First(b) .. First(b) + ShareTiles(b) - 1
<1>1. PICK f \in Nat, n \in Nat : f = First(b) /\ n = ShareTiles(b) /\ f + n = KBlocks(job.kv[b])
  BY TileCounts
<1>2. Visible(job.kv[b], job.window) = f .. (f + n) - 1
  BY <1>1 DEF Visible, First
<1>3. (f + n) - 1 = f + n - 1
  BY SMT
<1> QED BY <1>1, <1>2, <1>3

LEMMA ShareIsTiles ==
  ASSUME job \in Jobs, NEW b \in Seqs, NEW s \in 0 .. Splits(job, b) - 1
  PROVE  /\ Share(b, s) \subseteq Tile
         /\ Share(b, s) # {} <=> s \in Combined(b)
         /\ job.kv[b] > 0 => Share(b, s) \subseteq Visible(job.kv[b], job.window)
<1>1. PICK f \in Nat, a \in Nat, c \in Int, n \in Nat, m \in Nat :
        /\ f = First(b) /\ a = ShareStart(b, s) /\ c = ShareCount(b, s)
        /\ n = ShareTiles(b) /\ m = MaxTile
        /\ a + c <= n /\ f + n <= m + 1
        /\ c > 0 <=> s \in Combined(b)
  BY TileCounts, ShareBounds, InputAssumption
<1>2. Share(b, s) = f + a .. f + a + c - 1
  BY <1>1 DEF Share, ShareStart, ShareCount
<1>3. f + a .. f + a + c - 1 \subseteq 0 .. m
  BY <1>1, SMT
<1>4. f + a .. f + a + c - 1 # {} <=> c > 0
  <2>1. c > 0 => f + a \in f + a .. f + a + c - 1
    BY SMT
  <2>2. c <= 0 => f + a .. f + a + c - 1 = {}
    BY SMT
  <2>3. c > 0 \/ c <= 0
    BY SMT
  <2>4. ~(c > 0 /\ c <= 0)
    BY SMT
  <2> QED BY <2>1, <2>2, <2>3, <2>4
<1>5. ASSUME job.kv[b] > 0
      PROVE  Share(b, s) \subseteq Visible(job.kv[b], job.window)
  <2>1. Visible(job.kv[b], job.window) = f .. f + n - 1
    BY <1>1, <1>5, VisibleTiles
  <2>2. f + a .. f + a + c - 1 \subseteq f .. f + n - 1
    BY <1>1, SMT
  <2> QED BY <1>2, <2>1, <2>2
<1> QED BY <1>1, <1>2, <1>3, <1>4, <1>5 DEF Tile

LEMMA SharesDisjoint ==
  ASSUME job \in Jobs, NEW b \in Seqs,
         NEW s \in 0 .. Splits(job, b) - 1, NEW u \in 0 .. Splits(job, b) - 1,
         NEW t \in Tile, t \in Share(b, s), t \in Share(b, u)
  PROVE  s = u
<1>1. t \in Int
  BY SMT DEF Tile
<1>2. PICK k \in Nat \ {0} : k = Splits(job, b)
  BY SplitsRange
<1>3. ASSUME NEW x \in 0 .. Splits(job, b) - 1, NEW y \in 0 .. Splits(job, b) - 1, x < y,
             t \in Share(b, x), t \in Share(b, y)
      PROVE  FALSE
  <2>1. PICK f \in Nat, a \in Nat, c \in Int, d \in Nat, e \in Int :
          /\ f = First(b) /\ a = ShareStart(b, x) /\ c = ShareCount(b, x)
          /\ d = ShareStart(b, y) /\ e = ShareCount(b, y)
    BY TileCounts, ShareBounds
  <2>2. f + a <= t /\ t < f + a + c /\ f + d <= t /\ t < f + d + e
    BY <1>1, <1>3, <2>1, InShare
  <2>3. e <= 0 \/ a + c <= d
    BY <1>3, <2>1, ShareOrder
  <2> QED BY <1>1, <2>2, <2>3, SMT
<1>4. s < u \/ u < s \/ s = u
  BY <1>2, SMT
<1> QED BY <1>3, <1>4

LEMMA SharesCover ==
  ASSUME job \in Jobs, NEW b \in Seqs, job.kv[b] > 0,
         NEW t \in Visible(job.kv[b], job.window)
  PROVE  \E s \in 0 .. Splits(job, b) - 1 : t \in Share(b, s)
<1>1. PICK f \in Nat, n \in Nat : f = First(b) /\ n = ShareTiles(b)
  BY TileCounts
<1>2. Visible(job.kv[b], job.window) = f .. f + n - 1
  BY <1>1, VisibleTiles
<1>3. PICK x \in 0 .. n - 1 : x = t - f
  BY <1>2, SMT
<1>4. PICK s \in 0 .. Splits(job, b) - 1 :
        ShareStart(b, s) <= x /\ x < ShareStart(b, s) + ShareCount(b, s)
  BY <1>1, ShareCovers
<1>5. PICK a \in Nat, c \in Int : a = ShareStart(b, s) /\ c = ShareCount(b, s)
  BY ShareBounds
<1>6. t \in Int /\ f + a <= t /\ t < f + a + c
  BY <1>2, <1>3, <1>4, <1>5, SMT
<1>7. t \in Share(b, s)
  BY <1>1, <1>5, <1>6, InShare
<1> QED BY <1>7

LEMMA CombinedRange ==
  ASSUME job \in Jobs, NEW b \in Seqs
  PROVE  Combined(b) \subseteq 0 .. Splits(job, b) - 1
<1>1. PICK k \in Nat \ {0} : k = Splits(job, b)
  BY SplitsRange
<1>2. 0 .. 0 \subseteq 0 .. k - 1
  BY SMT
<1> QED BY <1>1, <1>2 DEF Combined, ReducedSplits

-----------------------------------------------------------------------------
(* The inductive invariant.  The reduction reads a slot only behind every  *)
(* work-group that could write it, and a weight only behind the work-item  *)
(* that stores it.                                                         *)
Published ==
  \A b \in Seqs, h \in Heads, s \in 0 .. job.cap - 1 :
    s < Splits(job, b) /\ ~Idle(b, s) /\ <<b, h, s>> \notin todo
      => slot[<<b, h>>][s] = Share(b, s)
Ordered == \A r \in Row, l \in Lane : phase[r][l] # 0 => Reducing
Weighed == \A r \in Row : \A l \in Combined(r[1]) : phase[r][l] >= 2 => slm[r][l] = "weight"
FirstOutput ==
  /\ job.cap > 1 => \A r \in Row, l \in Lane : out[r][l] # NoOutput => phase[r][l] = 3
  /\ job.cap = 1 => \A b \in Seqs, h \in Heads, l \in Lane :
       <<b, h, 0>> \in todo => out[<<b, h>>][l] = NoOutput

Inv ==
  /\ TypeOK
  /\ todo \subseteq Grid(job)
  /\ Published
  /\ Ordered
  /\ Weighed
  /\ FirstOutput
  /\ CleanOutput

(* A combined split is one of the launch's, and has a slot and a           *)
(* work-item.                                                              *)
LEMMA SplitIsLane ==
  ASSUME job \in Jobs, NEW b \in Seqs
  PROVE  /\ \A s \in Combined(b) : s \in 0 .. Splits(job, b) - 1
         /\ \A s \in 0 .. Splits(job, b) - 1 : s \in 0 .. job.cap - 1 /\ s \in Lane
         /\ \A s \in 0 .. job.cap - 1 : s < Splits(job, b) => s \in 0 .. Splits(job, b) - 1
<1>1. PICK k \in Nat, c \in Nat, m \in Nat :
        k = Splits(job, b) /\ c = job.cap /\ m = Lanes /\ k <= c /\ c <= m
  <2>1. Splits(job, b) \in 1 .. job.cap /\ Splits(job, b) \in Nat \ {0}
    BY SplitsRange
  <2>2. job.cap \in Nat \ {0} /\ job.cap <= Lanes /\ Lanes \in Nat
    BY JobFields, LanesAssumption
  <2>3. Splits(job, b) <= job.cap
    BY <2>1, <2>2, SMT
  <2> QED BY <2>1, <2>2, <2>3
<1>2. \A s \in 0 .. k - 1 : s \in 0 .. c - 1 /\ s \in 0 .. m - 1
  BY <1>1, SMT
<1>3. \A s \in 0 .. c - 1 : s < k => s \in 0 .. k - 1
  BY <1>1, SMT
<1> QED BY <1>1, <1>2, <1>3, CombinedRange DEF Lane

LEMMA WorkItem ==
  ASSUME job \in Jobs, todo \subseteq Grid(job), NEW b, NEW h, NEW s, <<b, h, s>> \in todo
  PROVE  /\ b \in Seqs /\ h \in Heads /\ <<b, h>> \in Row
         /\ s \in 0 .. Splits(job, b) - 1 /\ s \in 0 .. job.cap - 1 /\ s < Splits(job, b)
<1>1. /\ <<b, h, s>> \in Seqs \X Heads \X (0 .. Lanes - 1)
      /\ <<b, h, s>>[3] < Splits(job, <<b, h, s>>[1])
  BY DEF Grid
<1>2. b \in Seqs /\ h \in Heads /\ s \in 0 .. Lanes - 1 /\ s < Splits(job, b)
  BY <1>1
<1>3. PICK k \in Nat, m \in Nat : k = Splits(job, b) /\ m = Lanes
  BY <1>2, SplitsRange, LanesAssumption
<1>4. s \in 0 .. k - 1
  BY <1>2, <1>3, SMT
<1> QED BY <1>2, <1>3, <1>4, SplitIsLane DEF Row

(* A tile stands for how many of the slots combined.                       *)
LEMMA CountType ==
  ASSUME job \in Jobs, NEW b \in Seqs, NEW f, NEW t
  PROVE  Cardinality({s \in Combined(b) : t \in f[s]}) \in Nat
<1>1. PICK k \in Nat : k = Splits(job, b)
  BY SplitsRange
<1>2. IsFiniteSet(0 .. k - 1)
  BY FS_Interval, SMT
<1>3. {s \in Combined(b) : t \in f[s]} \subseteq 0 .. k - 1
  BY <1>1, CombinedRange
<1> QED BY <1>2, <1>3, FS_Subset, FS_CardinalityType

LEMMA InitInv == Init => Inv
<1> SUFFICES ASSUME Init PROVE Inv
  OBVIOUS
<1> USE DEF Init
<1>1. job \in Jobs
  OBVIOUS
<1>2. todo \subseteq Grid(job)
  OBVIOUS
<1>3. TypeOK
  <2>1. todo \subseteq Seqs \X Heads \X (0 .. job.cap - 1)
    <3>1. ASSUME NEW w \in todo PROVE w \in Seqs \X Heads \X (0 .. job.cap - 1)
      <4>1. PICK b \in Seqs, h \in Heads, s \in 0 .. Lanes - 1 : w = <<b, h, s>>
        BY DEF Grid
      <4> QED BY <1>1, <1>2, <4>1, WorkItem
    <3> QED BY <3>1
  <2>2. slot \in [Row -> [0 .. job.cap - 1 -> SUBSET Tile]]
    OBVIOUS
  <2>3. phase \in [Row -> [Lane -> 0 .. 3]]
    <3>1. 0 \in 0 .. 3
      BY SMT
    <3> QED BY <3>1
  <2>4. slm \in [Row -> [Lane -> {"junk", "lse", "weight"}]]
    OBVIOUS
  <2>5. out \in [Row -> [Lane -> {NoOutput} \cup Output]]
    OBVIOUS
  <2> QED BY <1>1, <2>1, <2>2, <2>3, <2>4, <2>5 DEF TypeOK
<1>4. Published
  <2> SUFFICES ASSUME NEW b \in Seqs, NEW h \in Heads, NEW s \in 0 .. job.cap - 1,
                      s < Splits(job, b)
               PROVE  <<b, h, s>> \in todo
    BY DEF Published
  <2>1. s \in 0 .. Lanes - 1
    BY <1>1, SplitIsLane DEF Lane
  <2> QED BY <2>1 DEF Grid
<1>5. Ordered /\ FirstOutput /\ CleanOutput
  <2>1. \A r \in Row, l \in Lane : phase[r][l] = 0 /\ out[r][l] = NoOutput
    OBVIOUS
  <2>2. \A b \in Seqs, h \in Heads : <<b, h>> \in Row
    BY DEF Row
  <2> QED BY <2>1, <2>2 DEF Ordered, FirstOutput, CleanOutput
<1>6. Weighed
  <2>1. \A r \in Row, l \in Lane : phase[r][l] = 0
    OBVIOUS
  <2>2. \A r \in Row : \A l \in Combined(r[1]) : l \in Lane
    BY <1>1, SplitIsLane DEF Row
  <2>3. ~(0 >= 2)
    BY SMT
  <2> QED BY <2>1, <2>2, <2>3 DEF Weighed
<1> QED BY <1>2, <1>3, <1>4, <1>5, <1>6 DEF Inv

-----------------------------------------------------------------------------
(* Each action keeps the invariant. *)
LEMMA SkipInv ==
  ASSUME Inv, NEW b \in Seqs, NEW h \in Heads, NEW s \in Lane, SkipSplit(b, h, s)
  PROVE  Inv'
<1> USE DEF SkipSplit
<1>1. job' = job /\ slot' = slot /\ phase' = phase /\ slm' = slm /\ out' = out
      /\ todo' = todo \ {<<b, h, s>>}
  OBVIOUS
<1>2. TypeOK' /\ (todo \subseteq Grid(job))'
  BY <1>1 DEF Inv, TypeOK, Output, Tile
<1>3. Published'
  <2> SUFFICES ASSUME NEW c \in Seqs, NEW g \in Heads, NEW u \in 0 .. job.cap - 1,
                      u < Splits(job, c), ~Idle(c, u), <<c, g, u>> \notin todo'
               PROVE  slot[<<c, g>>][u] = Share(c, u)
    BY <1>1 DEF Published, Idle, Share, PlannedTiles, Tiles, First
  <2>1. <<c, g, u>> # <<b, h, s>>
    OBVIOUS
  <2> QED BY <1>1, <2>1 DEF Inv, Published
<1>4. Ordered'
  BY <1>1 DEF Inv, Ordered, Reducing
<1>5. Weighed'
  BY <1>1 DEF Inv, Weighed, Combined, Tiles
<1>6. FirstOutput' /\ CleanOutput'
  BY <1>1 DEF Inv, FirstOutput, CleanOutput
<1> QED BY <1>2, <1>3, <1>4, <1>5, <1>6 DEF Inv

LEMMA OnceType ==
  ASSUME NEW S PROVE Once(S) \in [Tile -> Nat]
<1>1. 0 \in Nat /\ 1 \in Nat
  BY SMT
<1> QED BY <1>1 DEF Once

LEMMA OnlySplit ==
  ASSUME NEW c \in Nat \ {0}, ~(c > 1), NEW s \in 0 .. c - 1
  PROVE  c = 1 /\ s = 0
  BY SMT

LEMMA AttendInv ==
  ASSUME Inv, NEW b \in Seqs, NEW h \in Heads, NEW s \in Lane, AttendSplit(b, h, s)
  PROVE  Inv'
<1> USE DEF AttendSplit
<1>1. job' = job /\ phase' = phase /\ slm' = slm /\ todo' = todo \ {<<b, h, s>>}
  OBVIOUS
<1>2. /\ job \in Jobs /\ todo \subseteq Grid(job)
      /\ slot \in [Row -> [0 .. job.cap - 1 -> SUBSET Tile]]
      /\ out \in [Row -> [Lane -> {NoOutput} \cup Output]]
  BY DEF Inv, TypeOK
<1>3. /\ <<b, h>> \in Row /\ s \in 0 .. Splits(job, b) - 1 /\ s \in 0 .. job.cap - 1
      /\ <<b, h, s>> \in todo
  BY <1>2, WorkItem
<1>4. Share(b, s) \subseteq Tile
  BY <1>2, <1>3, ShareIsTiles
<1>5. slot' \in [Row -> [0 .. job.cap - 1 -> SUBSET Tile]]
      /\ slot' = [slot EXCEPT ![<<b, h>>][s] = Share(b, s)]
  BY <1>2, <1>3, <1>4
<1>6. [times |-> Once(Share(b, s)), clean |-> TRUE] \in Output
  BY OnceType DEF Output
<1>7. out' \in [Row -> [Lane -> {NoOutput} \cup Output]]
  <2>1. CASE job.cap > 1
    BY <1>2, <2>1
  <2>2. CASE ~(job.cap > 1)
    <3>1. out' = [out EXCEPT ![<<b, h>>] =
                    [l \in Lane |-> [times |-> Once(Share(b, s)), clean |-> TRUE]]]
      BY <2>2
    <3> QED BY <1>2, <1>6, <3>1
  <2> QED BY <2>1, <2>2
<1>8. TypeOK' /\ (todo \subseteq Grid(job))'
  <2>1. todo' \subseteq Grid(job) /\ todo' \subseteq Seqs \X Heads \X (0 .. job.cap - 1)
    BY <1>1 DEF Inv, TypeOK
  <2> QED BY <1>1, <1>5, <1>7, <2>1 DEF Inv, TypeOK, Output, Tile
<1>9. Published'
  <2> SUFFICES ASSUME NEW c \in Seqs, NEW g \in Heads, NEW u \in 0 .. job.cap - 1,
                      u < Splits(job, c), ~Idle(c, u), <<c, g, u>> \notin todo'
               PROVE  slot'[<<c, g>>][u] = Share(c, u)
    BY <1>1 DEF Published, Idle, Share, PlannedTiles, Tiles, First
  <2>1. CASE <<c, g, u>> = <<b, h, s>>
    BY <1>2, <1>3, <1>5, <2>1
  <2>2. CASE <<c, g, u>> # <<b, h, s>>
    <3>1. slot[<<c, g>>][u] = Share(c, u)
      BY <1>1, <2>2 DEF Inv, Published
    <3>2. <<c, g>> \in Row /\ (<<c, g>> # <<b, h>> \/ u # s)
      BY <2>2 DEF Row
    <3> QED BY <1>2, <1>3, <1>5, <3>1, <3>2
  <2> QED BY <2>1, <2>2
<1>10. Ordered'
  BY <1>1 DEF Inv, Ordered, Reducing
<1>11. Weighed'
  BY <1>1 DEF Inv, Weighed, Combined, Tiles
<1>12. FirstOutput' /\ CleanOutput'
  <2>1. CASE job.cap > 1
    <3>1. out' = out /\ job.cap \in Nat
      BY <1>2, <2>1, JobFields
    <3>2. job.cap # 1
      BY <2>1, <3>1, SMT
    <3> QED BY <1>1, <2>1, <3>1, <3>2 DEF Inv, FirstOutput, CleanOutput
  <2>2. CASE ~(job.cap > 1)
    <3>1. out' = [out EXCEPT ![<<b, h>>] =
                    [l \in Lane |-> [times |-> Once(Share(b, s)), clean |-> TRUE]]]
      BY <2>2
    <3>2. s = 0 /\ job.cap = 1
      BY <1>2, <1>3, <2>2, JobFields, OnlySplit
    <3>3. CleanOutput'
      BY <1>2, <1>3, <3>1 DEF Inv, CleanOutput
    <3>4. ASSUME NEW c \in Seqs, NEW g \in Heads, NEW l \in Lane, <<c, g, 0>> \in todo'
          PROVE  out'[<<c, g>>][l] = NoOutput
      <4>1. <<c, g>> # <<b, h>> /\ <<c, g, 0>> \in todo /\ <<c, g>> \in Row
        BY <1>1, <3>2, <3>4 DEF Row
      <4> QED BY <1>2, <3>1, <3>2, <4>1 DEF Inv, FirstOutput
    <3> QED BY <1>1, <2>2, <3>3, <3>4 DEF FirstOutput
  <2> QED BY <2>1, <2>2
<1> QED BY <1>8, <1>9, <1>10, <1>11, <1>12 DEF Inv

(* A phase of the reduction, whatever it does to local memory. *)
LEMMA PhaseType ==
  ASSUME TypeOK, NEW r \in Row, NEW l \in Lane, NEW p \in 1 .. 3
  PROVE  [phase EXCEPT ![r][l] = p] \in [Row -> [Lane -> 0 .. 3]]
<1>1. p \in 0 .. 3
  BY SMT
<1> QED BY <1>1 DEF TypeOK

LEMMA LoadInv ==
  ASSUME Inv, NEW r \in Row, NEW l \in Lane, LoadStat(r, l)
  PROVE  Inv'
<1> USE DEF LoadStat
<1>1. /\ job' = job /\ todo' = todo /\ slot' = slot /\ out' = out
      /\ phase' = [phase EXCEPT ![r][l] = 1]
      /\ slm' = slm \/ slm' = [slm EXCEPT ![r][l] = "lse"]
  OBVIOUS
<1>2. /\ phase \in [Row -> [Lane -> 0 .. 3]] /\ job \in Jobs
      /\ slm \in [Row -> [Lane -> {"junk", "lse", "weight"}]]
      /\ phase[r][l] = 0
  BY DEF Inv, TypeOK, Together
<1>3. phase' \in [Row -> [Lane -> 0 .. 3]]
  <2>1. 1 \in 1 .. 3
    BY SMT
  <2> QED BY <1>1, <2>1, PhaseType DEF Inv
<1>4. TypeOK' /\ (todo \subseteq Grid(job))'
  <2>1. slm' \in [Row -> [Lane -> {"junk", "lse", "weight"}]]
    BY <1>1, <1>2
  <2> QED BY <1>1, <1>3, <2>1 DEF Inv, TypeOK, Output, Tile
<1>5. Published'
  BY <1>1 DEF Inv, Published, Idle, Share, PlannedTiles, Tiles, First
<1>6. Ordered'
  BY <1>1, <1>2 DEF Inv, Ordered, Reducing
<1>7. Weighed'
  <2> SUFFICES ASSUME NEW q \in Row, NEW m \in Combined(q[1]), phase'[q][m] >= 2
               PROVE  slm'[q][m] = "weight"
    BY <1>1 DEF Weighed, Combined, Tiles
  <2>1. m \in Lane
    BY <1>2, SplitIsLane DEF Row
  <2>2. ~(1 >= 2)
    BY SMT
  <2>3. ~(q = r /\ m = l)
    BY <1>1, <1>2, <2>2
  <2>4. phase'[q][m] = phase[q][m] /\ slm'[q][m] = slm[q][m]
    BY <1>1, <1>2, <2>1, <2>3
  <2> QED BY <2>4 DEF Inv, Weighed
<1>8. FirstOutput' /\ CleanOutput'
  <2>1. ASSUME NEW q \in Row, NEW m \in Lane, phase[q][m] = 3
        PROVE  phase'[q][m] = 3
    <3>1. 0 # 3
      BY SMT
    <3> QED BY <1>1, <1>2, <2>1, <3>1
  <2> QED BY <1>1, <2>1 DEF Inv, FirstOutput, CleanOutput
<1> QED BY <1>4, <1>5, <1>6, <1>7, <1>8 DEF Inv

LEMMA WeighInv ==
  ASSUME Inv, NEW r \in Row, NEW l \in Lane, Weigh(r, l)
  PROVE  Inv'
<1> USE DEF Weigh
<1>1. /\ job' = job /\ todo' = todo /\ slot' = slot /\ out' = out
      /\ phase' = [phase EXCEPT ![r][l] = 2]
      /\ slm' = IF l \in Combined(r[1]) THEN [slm EXCEPT ![r][l] = "weight"] ELSE slm
  OBVIOUS
<1>2. /\ phase \in [Row -> [Lane -> 0 .. 3]] /\ job \in Jobs
      /\ slm \in [Row -> [Lane -> {"junk", "lse", "weight"}]]
      /\ phase[r][l] = 1
  BY DEF Inv, TypeOK, Together
<1>3. phase' \in [Row -> [Lane -> 0 .. 3]]
  <2>1. 2 \in 1 .. 3
    BY SMT
  <2> QED BY <1>1, <2>1, PhaseType DEF Inv
<1>4. TypeOK' /\ (todo \subseteq Grid(job))'
  <2>1. slm' \in [Row -> [Lane -> {"junk", "lse", "weight"}]]
    BY <1>1, <1>2
  <2> QED BY <1>1, <1>3, <2>1 DEF Inv, TypeOK, Output, Tile
<1>5. Published'
  BY <1>1 DEF Inv, Published, Idle, Share, PlannedTiles, Tiles, First
<1>6. Ordered'
  <2>1. 1 # 0
    BY SMT
  <2> QED BY <1>1, <1>2, <2>1 DEF Inv, Ordered, Reducing
<1>7. Weighed'
  <2> SUFFICES ASSUME NEW q \in Row, NEW m \in Combined(q[1]), phase'[q][m] >= 2
               PROVE  slm'[q][m] = "weight"
    BY <1>1 DEF Weighed, Combined, Tiles
  <2>1. m \in Lane
    BY <1>2, SplitIsLane DEF Row
  <2>2. CASE q = r /\ m = l
    BY <1>1, <1>2, <2>2
  <2>3. CASE ~(q = r /\ m = l)
    <3>1. phase'[q][m] = phase[q][m] /\ slm'[q][m] = slm[q][m]
      BY <1>1, <1>2, <2>1, <2>3
    <3> QED BY <3>1 DEF Inv, Weighed
  <2> QED BY <2>2, <2>3
<1>8. FirstOutput' /\ CleanOutput'
  <2>1. ASSUME NEW q \in Row, NEW m \in Lane, phase[q][m] = 3
        PROVE  phase'[q][m] = 3
    <3>1. 1 # 3
      BY SMT
    <3> QED BY <1>1, <1>2, <2>1, <3>1
  <2> QED BY <1>1, <2>1 DEF Inv, FirstOutput, CleanOutput
<1> QED BY <1>4, <1>5, <1>6, <1>7, <1>8 DEF Inv

(* Behind the second barrier every combined slot is published and weighed. *)
LEMMA CombineReady ==
  ASSUME Inv, NEW r \in Row, NEW l \in Lane, Combine(r, l), NEW s \in Combined(r[1])
  PROVE  slot[r][s] = Share(r[1], s) /\ slot[r][s] # {} /\ slm[r][s] = "weight"
<1>1. PICK b \in Seqs, h \in Heads : r = <<b, h>> /\ r[1] = b
  BY DEF Row
<1>2. job \in Jobs /\ phase[r][l] = 2 /\ phase[r][s] >= 2 /\ s \in Lane
  BY <1>1, SplitIsLane DEF Inv, TypeOK, Combine, Together
<1>3. slm[r][s] = "weight"
  BY <1>2 DEF Inv, Weighed
<1>4. job.cap > 1 /\ todo = {}
  <2>1. 2 # 0
    BY SMT
  <2> QED BY <1>2, <2>1 DEF Inv, Ordered, Reducing
<1>5. s \in 0 .. Splits(job, b) - 1 /\ s \in 0 .. job.cap - 1 /\ s < Splits(job, b)
  <2>1. PICK k \in Nat : k = Splits(job, b)
    BY <1>2, SplitsRange
  <2>2. s \in 0 .. k - 1
    BY <1>1, <1>2, <2>1, SplitIsLane
  <2> QED BY <1>2, <2>1, <2>2, SplitIsLane, SMT
<1>6. Share(b, s) # {} /\ ~job.prefill[b]
  BY <1>1, <1>2, <1>4, <1>5, ShareIsTiles, JobFields
<1>7. slot[<<b, h>>][s] = Share(b, s)
  BY <1>4, <1>5, <1>6 DEF Inv, Published, Idle
<1> QED BY <1>1, <1>3, <1>6, <1>7

LEMMA CombineInv ==
  ASSUME Inv, NEW r \in Row, NEW l \in Lane, Combine(r, l)
  PROVE  Inv'
<1> DEFINE result ==
      [times |-> [t \in Tile |-> Cardinality({s \in Combined(r[1]) : t \in slot[r][s]})],
       clean |-> \A s \in Combined(r[1]) : slot[r][s] # {} /\ slm[r][s] = "weight"]
<1>1. /\ job' = job /\ todo' = todo /\ slot' = slot /\ slm' = slm
      /\ phase' = [phase EXCEPT ![r][l] = 3]
      /\ out' = [out EXCEPT ![r][l] = result]
  BY DEF Combine
<1>2. /\ phase \in [Row -> [Lane -> 0 .. 3]] /\ job \in Jobs
      /\ out \in [Row -> [Lane -> {NoOutput} \cup Output]]
      /\ phase[r][l] = 2
  BY DEF Inv, TypeOK, Together, Combine
<1>3. phase' \in [Row -> [Lane -> 0 .. 3]]
  <2>1. 3 \in 1 .. 3
    BY SMT
  <2> QED BY <1>1, <2>1, PhaseType DEF Inv
<1>4. result \in Output /\ result.clean
  <2>1. \A t \in Tile : Cardinality({s \in Combined(r[1]) : t \in slot[r][s]}) \in Nat
    <3>1. PICK b \in Seqs : b = r[1]
      BY DEF Row
    <3>2. PICK f : f = slot[r]
      OBVIOUS
    <3> QED BY <1>2, <3>1, <3>2, CountType
  <2>2. \A s \in Combined(r[1]) : slot[r][s] # {} /\ slm[r][s] = "weight"
    BY CombineReady
  <2> QED BY <2>1, <2>2 DEF Output
<1> HIDE DEF result
<1>5. TypeOK' /\ (todo \subseteq Grid(job))'
  <2>1. out' \in [Row -> [Lane -> {NoOutput} \cup Output]]
    BY <1>1, <1>2, <1>4
  <2> QED BY <1>1, <1>3, <2>1 DEF Inv, TypeOK, Output, Tile
<1>6. Published'
  BY <1>1 DEF Inv, Published, Idle, Share, PlannedTiles, Tiles, First
<1>7. job.cap > 1 /\ job.cap # 1 /\ todo = {}
  <2>1. 2 # 0
    BY SMT
  <2>2. job.cap > 1 /\ todo = {}
    BY <1>2, <2>1 DEF Inv, Ordered, Reducing
  <2>3. PICK c \in Nat : c = job.cap /\ c > 1
    BY <1>2, <2>2, JobFields DEF Row
  <2>4. c # 1
    BY <2>3, SMT
  <2> QED BY <2>2, <2>3, <2>4
<1>8. Ordered'
  BY <1>1, <1>7 DEF Ordered, Reducing
<1>9. Weighed'
  <2> SUFFICES ASSUME NEW q \in Row, NEW m \in Combined(q[1]), phase'[q][m] >= 2
               PROVE  slm[q][m] = "weight"
    BY <1>1 DEF Weighed, Combined, Tiles
  <2>1. m \in Lane /\ 2 >= 2
    BY <1>2, SplitIsLane, SMT DEF Row
  <2>2. phase[q][m] >= 2
    BY <1>1, <1>2, <2>1
  <2> QED BY <2>2 DEF Inv, Weighed
<1>10. FirstOutput'
  <2> SUFFICES ASSUME NEW q \in Row, NEW m \in Lane, out'[q][m] # NoOutput
               PROVE  phase'[q][m] = 3
    BY <1>1, <1>7 DEF FirstOutput
  <2>1. CASE q = r /\ m = l
    BY <1>1, <1>2, <2>1
  <2>2. CASE ~(q = r /\ m = l)
    <3>1. out[q][m] = out'[q][m] /\ phase'[q][m] = phase[q][m]
      BY <1>1, <1>2, <2>2
    <3> QED BY <1>7, <3>1 DEF Inv, FirstOutput
  <2> QED BY <2>1, <2>2
<1>11. CleanOutput'
  BY <1>1, <1>2, <1>4 DEF Inv, CleanOutput
<1> QED BY <1>5, <1>6, <1>8, <1>9, <1>10, <1>11 DEF Inv

LEMMA StutterInv ==
  ASSUME Inv, UNCHANGED vars
  PROVE  Inv'
  BY DEF vars, Inv, TypeOK, Output, Tile, Published, Ordered, Weighed, FirstOutput, CleanOutput,
         Idle, Share, PlannedTiles, Tiles, First, Reducing, Combined

THEOREM Invariance == Spec => []Inv
<1>1. Inv /\ [Next]_vars => Inv'
  BY SkipInv, AttendInv, LoadInv, WeighInv, CombineInv, StutterInv DEF Next, Attend, Reduce
<1> QED BY InitInv, <1>1, PTL DEF Spec

(* Every reachable state has its type. *)
THEOREM Typing == Spec => []TypeOK
  BY Invariance, PTL DEF Inv

(* No output is made from a slot this launch has not written, nor with a   *)
(* weight it has not computed, whichever of host and kernels worked out    *)
(* the splits.                                                             *)
THEOREM Cleanliness == Spec => []CleanOutput
  BY Invariance, PTL DEF Inv

-----------------------------------------------------------------------------
(* The work items of a plan. *)
LEMMA PlanItem ==
  ASSUME NEW n \in Nat, NEW k \in Nat, k \in 1 .. n, NEW s \in 0 .. k - 1
  PROVE  LET Of(u) == PlanStart(n, k, u) .. PlanStart(n, k, u) + PlanCount(n, k, u) - 1
         IN /\ Of(s) # {}
            /\ Of(s) \subseteq 0 .. n - 1
            /\ \A u \in 0 .. k - 1 : s < u => Of(s) \cap Of(u) = {}
<1> DEFINE Of(u) == PlanStart(n, k, u) .. PlanStart(n, k, u) + PlanCount(n, k, u) - 1
<1>1. PICK a \in Nat, c \in Nat \ {0} :
        a = PlanStart(n, k, s) /\ c = PlanCount(n, k, s) /\ a + c <= n
  BY PlanOrder
<1>2. Of(s) = a .. a + c - 1
  BY <1>1
<1>3. a \in a .. a + c - 1 /\ a .. a + c - 1 \subseteq 0 .. n - 1
  BY <1>1, SMT
<1>4. ASSUME NEW u \in 0 .. k - 1, s < u
      PROVE  Of(s) \cap Of(u) = {}
  <2>1. PICK d \in Nat, e \in Nat \ {0} :
          d = PlanStart(n, k, u) /\ e = PlanCount(n, k, u) /\ a + c <= d
    BY <1>1, <1>4, PlanOrder
  <2>2. (a .. a + c - 1) \cap (d .. d + e - 1) = {}
    BY <2>1, SMT
  <2>3. Of(u) = d .. d + e - 1
    BY <2>1
  <2> QED BY <1>2, <2>2, <2>3
<1> QED BY <1>2, <1>3, <1>4

LEMMA SoundPlan == job \in Jobs => PlanContract
<1> SUFFICES ASSUME job \in Jobs, job.planned, NEW b \in Seqs
             PROVE
    LET n == PlannedTiles(b)
        k == Splits(job, b)
        Of(s) == PlanStart(n, k, s) .. PlanStart(n, k, s) + PlanCount(n, k, s) - 1
    IN /\ k \in 1 .. job.cap
       /\ \A s \in 0 .. k - 1 : Of(s) # {}
       /\ UNION {Of(s) : s \in 0 .. k - 1} = 0 .. n - 1
       /\ \A s, u \in 0 .. k - 1 : s # u => Of(s) \cap Of(u) = {}
  BY DEF PlanContract
<1>1. PICK n \in Nat, k \in Nat : n = PlannedTiles(b) /\ k = Splits(job, b) /\ k \in 1 .. n
  BY PlannedSplits, SplitsRange, TileCounts
<1> DEFINE Of(s) == PlanStart(n, k, s) .. PlanStart(n, k, s) + PlanCount(n, k, s) - 1
<1>2. k \in 1 .. job.cap
  BY <1>1, SplitsRange
<1>3. \A s \in 0 .. k - 1 :
        /\ Of(s) # {} /\ Of(s) \subseteq 0 .. n - 1
        /\ \A u \in 0 .. k - 1 : s < u => Of(s) \cap Of(u) = {}
  BY <1>1, PlanItem
<1>4. \A t \in 0 .. n - 1 : \E s \in 0 .. k - 1 : t \in Of(s)
  <2>1. SUFFICES ASSUME NEW t \in 0 .. n - 1 PROVE \E s \in 0 .. k - 1 : t \in Of(s)
    OBVIOUS
  <2>2. PICK s \in 0 .. k - 1 :
          PlanStart(n, k, s) <= t /\ t < PlanStart(n, k, s) + PlanCount(n, k, s)
    BY <1>1, PlanCovers
  <2>3. PICK a \in Nat, c \in Nat \ {0} : a = PlanStart(n, k, s) /\ c = PlanCount(n, k, s)
    BY <1>1, PlanOrder
  <2>4. t \in a .. a + c - 1
    BY <2>2, <2>3, SMT
  <2> QED BY <2>3, <2>4
<1>5. \A s, u \in 0 .. k - 1 : s # u => s < u \/ u < s
  BY <1>1, SMT
<1> HIDE DEF Of
<1>6. UNION {Of(s) : s \in 0 .. k - 1} = 0 .. n - 1
  BY <1>3, <1>4
<1>7. \A s, u \in 0 .. k - 1 : s # u => Of(s) \cap Of(u) = {}
  BY <1>3, <1>5
<1> QED BY <1>1, <1>2, <1>3, <1>6, <1>7 DEF Of

(* A plan shares out the tiles of each sequence without gap or overlap, no *)
(* item empty, and within the buffers: build_decode_split_plan.            *)
THEOREM Planning == Spec => []PlanContract
<1>1. Inv => PlanContract
  BY SoundPlan DEF Inv, TypeOK
<1> QED BY <1>1, Invariance, PTL

-----------------------------------------------------------------------------
(* The launch implements SplitAttention. *)
Owed == {r \in Row : ~job.prefill[r[1]]}
Seen == [r \in Row |-> Visible(job.kv[r[1]], job.window)]
Times == [r \in Row |-> [l \in Lane |->
            IF out[r][l] = NoOutput THEN NoOutput ELSE out[r][l].times]]

LEMMA SeenType ==
  ASSUME job \in Jobs, NEW b \in Seqs
  PROVE  /\ Visible(job.kv[b], job.window) \subseteq Tile
         /\ Visible(job.kv[b], job.window) # {} => job.kv[b] > 0
<1>1. PICK f \in Nat, n \in Nat, kv \in Nat, m \in Nat :
        /\ f = First(b) /\ n = Tiles(b) /\ kv = job.kv[b] /\ m = MaxTile
        /\ f + n = KBlocks(kv) /\ KBlocks(kv) <= m + 1
        /\ kv = 0 => KBlocks(kv) = 0
  <2>1. /\ job.kv[b] \in Nat /\ KBlocks(job.kv[b]) <= MaxTile + 1
        /\ job.window \in Nat \cup {-1} /\ MaxTile \in Nat
    BY JobFields, InputAssumption
  <2>2. job.kv[b] = 0 => KBlocks(job.kv[b]) = 0
    BY <2>1, WindowRange
  <2>3. First(b) \in Nat /\ Tiles(b) \in Nat /\ First(b) + Tiles(b) = KBlocks(job.kv[b])
    BY TileCounts
  <2> QED BY <2>1, <2>2, <2>3
<1>2. Visible(job.kv[b], job.window) = f .. (f + n) - 1
  BY <1>1 DEF Visible, First
<1>3. f .. (f + n) - 1 \subseteq 0 .. m
  <2>1. f + n <= m + 1
    BY <1>1
  <2> QED BY <2>1, SMT
<1>4. ASSUME kv = 0 PROVE f .. (f + n) - 1 = {}
  <2>1. f + n = 0
    BY <1>1, <1>4
  <2> QED BY <2>1, SMT
<1>5. kv = 0 \/ kv > 0
  BY SMT
<1> QED BY <1>1, <1>2, <1>3, <1>4, <1>5 DEF Tile

LEMMA InitRefines == Init => Attention!AttnInit
<1> SUFFICES ASSUME Init PROVE Attention!AttnInit
  OBVIOUS
<1>1. job \in Jobs /\ out = [r \in Row |-> [l \in Lane |-> NoOutput]]
  BY DEF Init
<1>2. Seen \in [Row -> SUBSET Tile]
  BY <1>1, SeenType DEF Seen, Row
<1>3. Times = [r \in Row |-> [l \in Lane |-> NoOutput]]
  BY <1>1 DEF Times
<1> QED BY <1>2, <1>3 DEF Attention!AttnInit, Seen, Times

(* What one work-group that does all tiles of a row stores, and what the   *)
(* reduction stores, is right.                                             *)
LEMMA SingleRight ==
  ASSUME job \in Jobs, NEW b \in Seqs, job.cap = 1
  PROVE  /\ Once(Share(b, 0)) \in [Tile -> Nat]
         /\ Visible(job.kv[b], job.window) # {} =>
              \A t \in Tile : Once(Share(b, 0))[t] =
                IF t \in Visible(job.kv[b], job.window) THEN 1 ELSE 0
<1>1. ASSUME Visible(job.kv[b], job.window) # {}
      PROVE  Share(b, 0) = Visible(job.kv[b], job.window)
  <2>1. job.kv[b] > 0
    BY <1>1, SeenType
  <2>2. Splits(job, b) = 1
    <3>1. PICK k \in Nat : k = Splits(job, b) /\ k \in 1 .. 1
      BY SplitsRange
    <3> QED BY <3>1, SMT
  <2>3. 0 .. 1 - 1 = {0}
    BY SMT
  <2>4. Share(b, 0) \subseteq Visible(job.kv[b], job.window)
    BY <2>1, <2>2, <2>3, ShareIsTiles
  <2>5. \A t \in Visible(job.kv[b], job.window) : t \in Share(b, 0)
    BY <2>1, <2>2, <2>3, SharesCover
  <2> QED BY <2>4, <2>5
<1> QED BY <1>1, OnceType DEF Once

LEMMA CountRight ==
  ASSUME job \in Jobs, NEW b \in Seqs, NEW f,
         \A s \in Combined(b) : f[s] = Share(b, s),
         Visible(job.kv[b], job.window) # {}, NEW t \in Tile
  PROVE  Cardinality({s \in Combined(b) : t \in f[s]}) =
           IF t \in Visible(job.kv[b], job.window) THEN 1 ELSE 0
<1>1. job.kv[b] > 0
  BY SeenType
<1>2. CASE t \in Visible(job.kv[b], job.window)
  <2>1. PICK s \in 0 .. Splits(job, b) - 1 : t \in Share(b, s)
    BY <1>1, <1>2, SharesCover
  <2>2. s \in Combined(b)
    BY <2>1, ShareIsTiles
  <2>3. \A u \in Combined(b) : t \in f[u] => u = s
    BY <2>1, SplitIsLane, SharesDisjoint
  <2>4. {u \in Combined(b) : t \in f[u]} = {s}
    BY <2>1, <2>2, <2>3
  <2> QED BY <1>2, <2>4, FS_Singleton
<1>3. CASE t \notin Visible(job.kv[b], job.window)
  <2>1. \A u \in Combined(b) : t \notin f[u]
    BY <1>1, <1>3, SplitIsLane, ShareIsTiles
  <2>2. {u \in Combined(b) : t \in f[u]} = {}
    BY <2>1
  <2> QED BY <1>3, <2>2, FS_EmptySet
<1> QED BY <1>2, <1>3

(* Nothing else the abstract specification sees changes. *)
LEMMA SilentStep ==
  ASSUME job' = job, out' = out
  PROVE  UNCHANGED <<{r \in Row : ~job.prefill[r[1]]},
                     [r \in Row |-> Visible(job.kv[r[1]], job.window)],
                     [r \in Row |-> [l \in Lane |->
                       IF out[r][l] = NoOutput THEN NoOutput ELSE out[r][l].times]]>>
  OBVIOUS

LEMMA AttendRefines ==
  ASSUME Inv, NEW b \in Seqs, NEW h \in Heads, NEW s \in Lane, AttendSplit(b, h, s), job.cap = 1
  PROVE  Attention!AttnNext
<1> DEFINE row == <<b, h>>
<1> DEFINE done == [times |-> Once(Share(b, 0)), clean |-> TRUE]
<1>1. /\ job' = job /\ job \in Jobs /\ todo \subseteq Grid(job)
      /\ out \in [Row -> [Lane -> {NoOutput} \cup Output]]
      /\ <<b, h, s>> \in todo
  BY DEF AttendSplit, Inv, TypeOK
<1>2. s = 0 /\ ~(job.cap > 1)
  <2>1. ~(1 > 1) /\ 1 \in Nat \ {0}
    BY SMT
  <2> QED BY <1>1, <2>1, WorkItem, OnlySplit
<1>3. row \in Row /\ ~job.prefill[row[1]]
  BY <1>1, WorkItem DEF AttendSplit, Idle
<1>4. out' = [out EXCEPT ![row] = [l \in Lane |-> done]]
  BY <1>2 DEF AttendSplit
<1>5. \A l \in Lane : out[row][l] = NoOutput
  BY <1>1, <1>2 DEF Inv, FirstOutput
<1>6. done \in Output /\ done # NoOutput /\ done.times = Once(Share(b, 0))
  <2>1. done \in Output
    BY OnceType DEF Output
  <2> QED BY <2>1, NoOutputAssumption
<1> HIDE DEF done, row
<1>7. \A l \in Lane : Times[row][l] = NoOutput /\ Times'[row][l] = Once(Share(b, 0))
  BY <1>1, <1>3, <1>4, <1>5, <1>6 DEF Times
<1>8. \A q \in Row, l \in Lane : q # row => Times'[q][l] = Times[q][l]
  BY <1>1, <1>4 DEF Times
<1>9. Seen[row] = Visible(job.kv[b], job.window)
  BY <1>3 DEF Seen, row
<1>10. Attention!Right(row, Once(Share(b, 0)))
  <2>1. PICK times, visible : times = Once(Share(b, 0)) /\ visible = Visible(job.kv[b], job.window)
    OBVIOUS
  <2>2. /\ times \in [Tile -> Nat]
        /\ visible # {} => \A t \in Tile : times[t] = IF t \in visible THEN 1 ELSE 0
    BY <1>1, <2>1, SingleRight
  <2>3. Seen[row] = visible
    BY <1>9, <2>1
  <2>4. Attention!Right(row, times)
    BY <2>2, <2>3 DEF Attention!Right, Seen
  <2> QED BY <2>1, <2>4
<1>11. row \in Owed /\ Owed' = Owed /\ Seen' = Seen
  BY <1>1, <1>3 DEF Owed, Seen
<1>12. Attention!StoreElements(row, Lane)
  BY <1>7, <1>8, <1>10, <1>11 DEF Attention!StoreElements, Owed, Seen, Times
<1> QED BY <1>3, <1>12 DEF Attention!AttnNext

LEMMA CombineRefines ==
  ASSUME Inv, NEW r \in Row, NEW l \in Lane, Combine(r, l)
  PROVE  Attention!AttnNext
<1> DEFINE times == [t \in Tile |-> Cardinality({s \in Combined(r[1]) : t \in slot[r][s]})]
<1> DEFINE done ==
      [times |-> times,
       clean |-> \A s \in Combined(r[1]) : slot[r][s] # {} /\ slm[r][s] = "weight"]
<1>1. /\ job' = job /\ job \in Jobs
      /\ out \in [Row -> [Lane -> {NoOutput} \cup Output]]
      /\ out' = [out EXCEPT ![r][l] = done]
      /\ phase[r][l] = 2
  BY DEF Combine, Together, Inv, TypeOK
<1>2. PICK b \in Seqs : b = r[1]
  BY DEF Row
<1>3. PICK f : f = slot[r]
  OBVIOUS
<1>4. times \in [Tile -> Nat]
  BY <1>1, <1>2, <1>3, CountType
<1>5. done \in Output /\ done # NoOutput /\ done.times = times
  <2>1. done \in Output
    BY <1>4 DEF Output
  <2> QED BY <2>1, NoOutputAssumption
<1>6. Visible(job.kv[b], job.window) # {} =>
        \A t \in Tile : times[t] = IF t \in Visible(job.kv[b], job.window) THEN 1 ELSE 0
  <2>1. \A s \in Combined(b) : f[s] = Share(b, s)
    BY <1>2, <1>3, CombineReady
  <2>2. ASSUME Visible(job.kv[b], job.window) # {}, NEW t \in Tile
        PROVE  Cardinality({s \in Combined(b) : t \in f[s]}) =
                 IF t \in Visible(job.kv[b], job.window) THEN 1 ELSE 0
    BY <1>1, <2>1, <2>2, CountRight
  <2>3. \A t \in Tile : times[t] = Cardinality({s \in Combined(b) : t \in f[s]})
    BY <1>2, <1>3
  <2> HIDE DEF times
  <2> QED BY <2>2, <2>3
<1> HIDE DEF times, done
<1>7. job.cap > 1 /\ out[r][l] = NoOutput /\ ~job.prefill[b]
  <2>1. 2 # 0 /\ 2 # 3
    BY SMT
  <2>2. job.cap > 1
    BY <1>1, <2>1 DEF Inv, Ordered, Reducing
  <2> QED BY <1>1, <1>2, <2>1, <2>2, JobFields DEF Inv, FirstOutput
<1>8. Times[r][l] = NoOutput /\ Times'[r][l] = times
  BY <1>1, <1>5, <1>7 DEF Times
<1>9. \A q \in Row, m \in Lane : q # r \/ m # l => Times'[q][m] = Times[q][m]
  BY <1>1 DEF Times
<1>10. Attention!Right(r, times)
  BY <1>2, <1>4, <1>6 DEF Attention!Right
<1>11. r \in Owed /\ Owed' = Owed /\ Seen' = Seen
  BY <1>1, <1>2, <1>7 DEF Owed, Seen
<1>12. Attention!StoreElements(r, {l})
  BY <1>8, <1>9, <1>10, <1>11 DEF Attention!StoreElements, Owed, Seen, Times
<1> QED BY <1>12 DEF Attention!AttnNext

(* Every tile a query can see counts exactly once in every element of its  *)
(* output, in whatever order the splits ran: a split-K launch implements   *)
(* attention over all tiles.                                               *)
THEOREM Refinement == Spec => AttendedOnce
<1>1. Inv /\ [Next]_vars =>
        [Attention!AttnNext]_<<{r \in Row : ~job.prefill[r[1]]},
                               [r \in Row |-> Visible(job.kv[r[1]], job.window)],
                               [r \in Row |-> [l \in Lane |->
                                 IF out[r][l] = NoOutput THEN NoOutput ELSE out[r][l].times]]>>
  <2>1. ASSUME Inv, NEW b \in Seqs, NEW h \in Heads, NEW s \in Lane, AttendSplit(b, h, s),
               job.cap # 1
        PROVE  job' = job /\ out' = out
    <3>1. PICK c \in Nat \ {0} : c = job.cap
      BY <2>1, JobFields DEF Inv, TypeOK
    <3>2. c > 1
      BY <2>1, <3>1, SMT
    <3> QED BY <2>1, <3>1, <3>2 DEF AttendSplit
  <2>2. ASSUME UNCHANGED vars PROVE job' = job /\ out' = out
    BY <2>2 DEF vars
  <2>3. ASSUME NEW r \in Row, NEW l \in Lane, LoadStat(r, l) \/ Weigh(r, l)
        PROVE  job' = job /\ out' = out
    BY <2>3 DEF LoadStat, Weigh
  <2>4. ASSUME NEW b \in Seqs, NEW h \in Heads, NEW s \in Lane, SkipSplit(b, h, s)
        PROVE  job' = job /\ out' = out
    BY <2>4 DEF SkipSplit
  <2> QED BY <2>1, <2>2, <2>3, <2>4, SilentStep, AttendRefines, CombineRefines
          DEF Next, Attend, Reduce
<1> QED BY InitRefines, <1>1, Invariance, PTL DEF Spec, AttendedOnce, Attention!AttnSpec
=============================================================================
