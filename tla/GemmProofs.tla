----------------------------- MODULE GemmProofs -----------------------------
(***************************************************************************)
(* Proofs about matrix products.  GroupedGemm, for any number of           *)
(* work-groups, work-items, experts, rows and K blocks: the work-items of  *)
(* a group never part, no two work-groups are given the same tile number,  *)
(* and when the kernel ends every part of every tile has been written      *)
(* once.  PrimitiveCache, for any threads, calls, capacity and keys: a     *)
(* thread submits the primitive built for its call with its own operands.  *)
(***************************************************************************)
EXTENDS GroupedGemm, PrimitiveCache, NatLemmas

(* The barrier a work-item comes to next, counted from the start of its    *)
(* tile: the K blocks have 0 .. KTiles-1 and the fetch has KTiles.         *)
Target(i) ==
  IF Behind(i) THEN 0
  ELSE IF pc[i] = "k_wait" /\ Released(i) THEN kTile[i] + 1
  ELSE kTile[i]

Types ==
  /\ counter \in Nat
  /\ slm \in [Group -> Nat]
  /\ gid \in [Item -> Nat]
  /\ kTile \in [Item -> 0 .. KTiles]
  /\ arrived \in [Group -> SUBSET Lane]
  /\ pc \in [Item -> PCs]
  /\ DOMAIN expert = Item

Local(i) ==
  /\ ~Released(i) => pc[i] \in {"k_wait", "wait"}
  /\ pc[i] \in {"k_arrive", "k_wait"} => kTile[i] < KTiles
  /\ pc[i] \in {"store", "fetch", "arrive", "wait", "read"} => kTile[i] = KTiles
  /\ pc[i] = "done" => kTile[i] = 0
  /\ pc[i] = "fetch" => i[2] = 0

(* The work-items of a group come to the same barrier next. *)
Lockstep == \A i, j \in Item : i[1] = j[1] => Target(i) = Target(j)

(* The tile numbers given out so far. *)
Given ==
  /\ \A i \in Item : gid[i] < Groups + counter
  /\ \A g \in Group : Fetched(g) => slm[g] < counter

IInv ==
  /\ Types
  /\ \A i \in Item : Local(i)
  /\ Lockstep
  /\ SameTile
  /\ Given
  /\ NoSharedTile

LEMMA Constants ==
  /\ Groups \in Nat /\ Lanes \in Nat /\ KTiles \in Nat /\ KTiles > 0
  /\ 0 \in Lane
  /\ Group \subseteq Nat /\ \A g \in Group : g < Groups
  /\ \A g \in Group, l \in Lane : <<g, l>> \in Item
  /\ \A i \in Item : i[1] \in Group /\ i[2] \in Lane /\ i = <<i[1], i[2]>>
  BY GroupsAssumption, LanesAssumption, KAssumption DEF Group, Lane, Item

LEMMA InitIInv == Init => IInv
  <1> SUFFICES ASSUME Init PROVE IInv
    OBVIOUS
  <1> USE Constants
  <1>1. Types
    BY GarbageAssumption DEF Init, Launch, Types, AfterScan, PCs
  <1>2. ASSUME NEW i \in Item
        PROVE  Released(i) /\ ~Behind(i) /\ kTile[i] = 0 /\ gid[i] = i[1]
               /\ pc[i] \in {"k_arrive", "done"} /\ expert[i] = Scan(rows, i[1], 0)
    BY DEF Init, Released, Behind, AfterScan
  <1>3. \A i \in Item : Local(i)
    BY <1>2 DEF Local
  <1>4. Lockstep /\ SameTile
    BY <1>2 DEF Lockstep, Target, SameTile
  <1>5. \A g \in Group : ~Fetched(g)
    BY <1>2 DEF Fetched
  <1>6. Given /\ NoSharedTile
    BY <1>2, <1>5 DEF Given, NoSharedTile, Init, Launch
  <1> QED
    BY <1>1, <1>3, <1>4, <1>6 DEF IInv

(* The others, when the last work-item comes to a barrier. *)
LEMMA LastArrival ==
  ASSUME IInv, NEW i \in Item, pc[i] \in {"k_arrive", "arrive"},
         arrived[i[1]] \cup {i[2]} = Lane, NEW l \in Lane, l # i[2]
  PROVE  /\ pc[<<i[1], l>>] = (IF pc[i] = "k_arrive" THEN "k_wait" ELSE "wait")
         /\ kTile[<<i[1], l>>] = kTile[i] /\ ~Released(<<i[1], l>>)
  <1> USE Constants
  <1> DEFINE j == <<i[1], l>>
  <1>1. ~Released(j)
    BY DEF Released
  <1>2. pc[j] \in {"k_wait", "wait"}
    BY <1>1 DEF IInv, Local
  <1>3. Target(j) = kTile[j] /\ Target(i) = kTile[i]
    BY <1>1, <1>2 DEF IInv, Local, Target, Behind
  <1>4. kTile[j] = kTile[i]
    BY <1>3 DEF IInv, Lockstep
  <1> QED
    BY <1>1, <1>2, <1>4 DEF IInv, Local, Types

LEMMA ArriveIInv ==
  ASSUME IInv, NEW i \in Item,
         \/ Arrive(i, "k_arrive", "k_wait")
         \/ Arrive(i, "arrive", "wait")
  PROVE  IInv'
  <1> USE Constants
  <1> DEFINE g == i[1]
             full == arrived[g] \cup {i[2]} = Lane
  <1>1. /\ pc[i] \in {"k_arrive", "arrive"}
        /\ arrived' = [arrived EXCEPT ![g] = IF full THEN {} ELSE @ \cup {i[2]}]
        /\ pc' = [pc EXCEPT ![i] = IF pc[i] = "k_arrive" THEN "k_wait" ELSE "wait"]
        /\ UNCHANGED <<rows, counter, slm, gid, expert, kTile, written>>
    BY DEF Arrive
  <1>2. Types'
    BY <1>1 DEF IInv, Types, PCs
  <1>3. Released(i) /\ ~Behind(i) /\ Target(i) = kTile[i]
    BY <1>1 DEF IInv, Local, Released, Behind, Target
  <1>4. \A l \in Lane : ~Behind(<<g, l>>) \/ kTile[i] = 0
    BY <1>3 DEF IInv, Lockstep, Target
  <1>5. ASSUME full, NEW l \in Lane, l # i[2]
        PROVE  /\ pc[<<g, l>>] = (IF pc[i] = "k_arrive" THEN "k_wait" ELSE "wait")
               /\ kTile[<<g, l>>] = kTile[i] /\ ~Released(<<g, l>>)
    BY <1>1, <1>5, LastArrival
  <1>6. ASSUME NEW j \in Item, j[1] # g
        PROVE  Behind(j)' = Behind(j) /\ Target(j)' = Target(j) /\ pc'[j] = pc[j]
               /\ Released(j)' = Released(j)
    BY <1>1, <1>6 DEF Behind, Target, Released, IInv, Types
  <1>7. CASE ~full
    <2>1. ASSUME NEW j \in Item, j[1] = g, j # i
          PROVE  Released(j)' = Released(j) /\ pc'[j] = pc[j] /\ Behind(j)' = Behind(j)
                 /\ Target(j)' = Target(j)
      BY <1>1, <1>7, <2>1 DEF Released, Behind, Target, IInv, Types
    <2>2. ~Released(i)' /\ ~Behind(i)' /\ Target(i)' = kTile[i]
      BY <1>1, <1>7 DEF Released, Behind, Target, IInv, Types
    <2>3. \A j \in Item : Local(j)'
      BY <1>1, <1>6, <2>1, <2>2 DEF IInv, Local, Types
    <2>4. ASSUME NEW j \in Item PROVE Target(j)' = Target(j) /\ Behind(j)' = Behind(j)
      <3>1. CASE j[1] # g
        BY <1>6, <3>1
      <3>2. CASE j[1] = g /\ j # i
        BY <2>1, <3>2
      <3>3. CASE j = i
        BY <1>3, <2>2, <3>3 DEF Behind
      <3> QED
        BY <3>1, <3>2, <3>3
    <2>5. \A h \in Group : Fetched(h)' = Fetched(h)
      BY <1>1, <2>4 DEF Fetched, IInv, Types, Local
    <2>6. Lockstep'
      BY <2>4 DEF IInv, Lockstep
    <2>7. SameTile'
      BY <1>1, <2>4 DEF IInv, SameTile
    <2>8. Given' /\ NoSharedTile'
      BY <1>1, <2>5 DEF IInv, Given, NoSharedTile
    <2> QED
      BY <1>2, <2>3, <2>6, <2>7, <2>8 DEF IInv
  <1>8. CASE full
    <2>1. \A l \in Lane : pc'[<<g, l>>] = (IF pc[i] = "k_arrive" THEN "k_wait" ELSE "wait")
                          /\ Released(<<g, l>>)'
      BY <1>1, <1>5, <1>8 DEF Released, IInv, Types
    <2>2. \A l \in Lane : ~Behind(<<g, l>>) /\ kTile[<<g, l>>] = kTile[i]
      BY <1>3, <1>5, <1>8 DEF Behind
    <2>3. \A l \in Lane : Behind(<<g, l>>)' <=> pc[i] = "arrive"
      BY <1>1, <2>1 DEF Behind
    <2>4. \A l \in Lane : Target(<<g, l>>)' = IF pc[i] = "arrive" THEN 0 ELSE kTile[i] + 1
      BY <1>1, <2>1, <2>2, <2>3 DEF Target
    <2>5. \A j \in Item : Local(j)'
      BY <1>1, <1>6, <2>1, <2>2 DEF IInv, Local, Types
    <2>6. \A h \in Group : h # g => Fetched(h)' = Fetched(h)
      BY <1>6 DEF Fetched
    <2>7. Fetched(g)' => Fetched(g)
      BY <1>1, <1>5, <1>8, <2>1, <2>3 DEF Fetched
    <2>8. Lockstep'
      BY <1>6, <2>4 DEF IInv, Lockstep
    <2>9. SameTile'
      BY <1>1, <1>6, <2>2, <2>3 DEF IInv, SameTile
    <2>10. Given' /\ NoSharedTile'
      BY <1>1, <2>6, <2>7 DEF IInv, Given, NoSharedTile
    <2> QED
      BY <1>2, <2>5, <2>8, <2>9, <2>10 DEF IInv
  <1> QED
    BY <1>7, <1>8

(* Steps between barriers that read and write nothing shared but written. *)
LEMMA PrivateIInv ==
  ASSUME IInv, NEW i \in Item, KWait(i) \/ Store(i) \/ Wait(i)
  PROVE  IInv'
  <1> USE Constants
  <1>1. UNCHANGED <<rows, counter, slm, gid, expert, arrived>>
    BY DEF KWait, NextBlock, Store, Wait
  <1>2. \A j \in Item : j # i => pc'[j] = pc[j] /\ kTile'[j] = kTile[j]
    BY DEF KWait, NextBlock, Store, Wait, IInv, Types
  <1>3. \/ pc[i] = "k_wait" /\ Released(i) /\ kTile'[i] = kTile[i] + 1
           /\ pc'[i] = IF kTile[i] + 1 < KTiles THEN "k_arrive" ELSE "store"
        \/ pc[i] = "store" /\ kTile'[i] = kTile[i]
           /\ pc'[i] = IF i[2] = 0 THEN "fetch" ELSE "arrive"
        \/ pc[i] = "wait" /\ Released(i) /\ kTile'[i] = kTile[i] /\ pc'[i] = "read"
    BY DEF KWait, NextBlock, Store, Wait, IInv, Types
  <1>4. Local(i) /\ kTile[i] \in 0 .. KTiles
    BY DEF IInv, Types
  <1>5. Types'
    <2>1. kTile' \in [Item -> 0 .. KTiles]
      <3>1. CASE KWait(i)
        BY <1>4, <3>1 DEF KWait, NextBlock, Local, IInv, Types
      <3>2. CASE ~KWait(i)
        BY <3>2 DEF Store, Wait, IInv, Types
      <3> QED
        BY <3>1, <3>2
    <2>2. pc' \in [Item -> PCs]
      BY DEF KWait, NextBlock, Store, Wait, IInv, Types, PCs
    <2> QED
      BY <1>1, <2>1, <2>2 DEF IInv, Types
  <1>6. \A j \in Item : Released(j)' = Released(j)
    BY <1>1 DEF Released
  <1>7. \A j \in Item : Behind(j)' = Behind(j) /\ Target(j)' = Target(j)
    BY <1>2, <1>3, <1>4, <1>6 DEF Behind, Target, Local
  <1>8. \A j \in Item : Local(j)'
    BY <1>2, <1>3, <1>4, <1>6 DEF Local, IInv
  <1>9. \A h \in Group : Fetched(h)' = Fetched(h)
    <2>1. \A h \in Group : pc'[<<h, 0>>] \in {"arrive", "wait", "read"}
                            <=> pc[<<h, 0>>] \in {"arrive", "wait", "read"}
      BY <1>2, <1>3
    <2> QED
      BY <1>7, <2>1 DEF Fetched
  <1>10. Lockstep' /\ SameTile'
    BY <1>1, <1>7 DEF IInv, Lockstep, SameTile
  <1>11. Given' /\ NoSharedTile'
    BY <1>1, <1>9 DEF IInv, Given, NoSharedTile
  <1> QED
    BY <1>5, <1>8, <1>10, <1>11 DEF IInv

LEMMA FetchIInv ==
  ASSUME IInv, NEW i \in Item, Fetch(i)
  PROVE  IInv'
  <1> USE Constants
  <1> DEFINE g == i[1]
  <1>1. /\ pc[i] = "fetch" /\ i = <<g, 0>> /\ kTile[i] = KTiles
        /\ slm' = [slm EXCEPT ![g] = counter] /\ counter' = counter + 1
        /\ pc' = [pc EXCEPT ![i] = "arrive"]
        /\ UNCHANGED <<rows, gid, expert, kTile, arrived>>
    BY DEF Fetch, IInv, Local
  <1>2. Types'
    BY <1>1 DEF IInv, Types, PCs
  <1>3. \A l \in Lane : ~Behind(<<g, l>>)
    BY <1>1 DEF IInv, Lockstep, Target, Behind
  <1>4. \A j \in Item : Released(j)' = Released(j) /\ Behind(j)' = Behind(j)
                        /\ Target(j)' = Target(j)
    BY <1>1 DEF Released, Behind, Target, IInv, Types
  <1>5. \A j \in Item : Local(j)'
    BY <1>1, <1>4 DEF IInv, Local, Types
  <1>6. Lockstep'
    BY <1>4 DEF IInv, Lockstep
  <1>7. SameTile'
    BY <1>1, <1>3, <1>4 DEF IInv, SameTile, Types
  <1>8. \A h \in Group : h # g => Fetched(h)' = Fetched(h) /\ slm'[h] = slm[h]
    BY <1>1, <1>4 DEF Fetched, IInv, Types
  <1>9. slm'[g] = counter
    BY <1>1 DEF IInv, Types
  <1>10. Given'
    BY <1>1, <1>8, <1>9 DEF IInv, Given, Types
  <1>11. NoSharedTile'
    <2>1. \A j, k \in Item : j[1] # k[1] => (Fetched(j[1]) => Groups + slm[j[1]] # gid[k])'
      BY <1>1, <1>8, <1>9 DEF IInv, Given, NoSharedTile, Types
    <2>2. \A h, k \in Group : h # k => (Fetched(h) /\ Fetched(k) => slm[h] # slm[k])'
      BY <1>1, <1>8, <1>9 DEF IInv, Given, NoSharedTile, Types
    <2>3. \A j, k \in Item : j[1] # k[1] => gid'[j] # gid'[k]
      BY <1>1 DEF IInv, NoSharedTile
    <2> QED
      BY <2>1, <2>2, <2>3 DEF NoSharedTile
  <1> QED
    BY <1>2, <1>5, <1>6, <1>7, <1>10, <1>11 DEF IInv

LEMMA ReadIInv ==
  ASSUME IInv, NEW i \in Item, Read(i)
  PROVE  IInv'
  <1> USE Constants
  <1> DEFINE g == i[1]
             n == Groups + slm[g]
             e == Scan(rows, n, expert[i])
  <1>1. /\ pc[i] = "read" /\ Behind(i) /\ Fetched(g) /\ Released(i)
        /\ gid' = [gid EXCEPT ![i] = n]
        /\ expert' = [expert EXCEPT ![i] = e]
        /\ kTile' = [kTile EXCEPT ![i] = 0]
        /\ pc' = [pc EXCEPT ![i] = IF e = NumExperts THEN "done" ELSE "k_arrive"]
        /\ UNCHANGED <<rows, counter, slm, arrived>>
    BY DEF Read, Take, AfterScan, Behind, Fetched, IInv, Local
  <1>2. n \in Nat
    BY DEF IInv, Types
  <1>3. Types'
    BY <1>1, <1>2 DEF IInv, Types, PCs
  <1>4. gid'[i] = n /\ expert'[i] = e /\ ~Behind(i)' /\ Target(i)' = 0 /\ Target(i) = 0
    BY <1>1 DEF IInv, Types, Behind, Target
  <1>5. \A j \in Item : Released(j)' = Released(j)
    BY <1>1 DEF Released
  <1>6. \A j \in Item : j # i => /\ Behind(j)' = Behind(j) /\ Target(j)' = Target(j)
                                 /\ gid'[j] = gid[j] /\ expert'[j] = expert[j]
    BY <1>1, <1>5 DEF IInv, Types, Behind, Target
  <1>7. \A j \in Item : Local(j)'
    BY <1>1, <1>5 DEF IInv, Local, Types
  <1>8. Lockstep'
    BY <1>4, <1>6 DEF IInv, Lockstep
  <1>9. SameTile'
    <2>1. ASSUME NEW j \in Item, j[1] = g, j # i, ~Behind(j)
          PROVE  gid[j] = n /\ expert[j] = e
      BY <1>1, <2>1 DEF IInv, SameTile
    <2>2. ASSUME NEW j \in Item, j[1] = g, j # i, Behind(j)
          PROVE  gid[j] = gid[i] /\ expert[j] = expert[i]
      BY <1>1, <2>2 DEF IInv, SameTile
    <2> SUFFICES ASSUME NEW a \in Item, NEW b \in Item, a[1] = b[1]
                 PROVE  /\ (Behind(a)' <=> Behind(b)') => gid'[a] = gid'[b] /\ expert'[a] = expert'[b]
                        /\ Behind(a)' /\ ~Behind(b)' =>
                              gid'[b] = Groups + slm'[a[1]] /\ expert'[b] = Scan(rows', gid'[b], expert'[a])
      BY DEF SameTile
    <2>3. CASE a[1] # g
      BY <1>1, <1>6, <2>3 DEF IInv, SameTile
    <2>4. CASE a[1] = g /\ a # i /\ b # i
      <3>1. /\ Behind(a)' = Behind(a) /\ gid'[a] = gid[a] /\ expert'[a] = expert[a]
            /\ Behind(b)' = Behind(b) /\ gid'[b] = gid[b] /\ expert'[b] = expert[b]
            /\ slm' = slm /\ rows' = rows
        BY <1>1, <1>6, <2>4
      <3>2. /\ (Behind(a) <=> Behind(b)) => gid[a] = gid[b] /\ expert[a] = expert[b]
            /\ Behind(a) /\ ~Behind(b) =>
                 gid[b] = Groups + slm[a[1]] /\ expert[b] = Scan(rows, gid[b], expert[a])
        BY DEF IInv, SameTile
      <3> QED
        BY <3>1, <3>2
    <2>5. CASE a = i \/ b = i
      BY <1>1, <1>4, <1>6, <2>1, <2>2, <2>5
    <2> QED
      BY <2>3, <2>4, <2>5
  <1>10. \A h \in Group : Fetched(h)' => Fetched(h)
    BY <1>1, <1>5 DEF Fetched, Behind, IInv, Types
  <1>11. Given'
    BY <1>1, <1>4, <1>6, <1>10 DEF IInv, Given, Types
  <1>12. NoSharedTile'
    <2>1. \A j, k \in Item : j[1] # k[1] => gid'[j] # gid'[k]
      BY <1>1, <1>4, <1>6 DEF IInv, NoSharedTile
    <2>2. ASSUME NEW j \in Item, NEW k \in Item, j[1] # k[1], Fetched(j[1])'
          PROVE  Groups + slm[j[1]] # gid'[k]
      <3>1. Fetched(j[1])
        BY <1>10, <2>2
      <3>2. CASE k = i
        <4>1. slm[j[1]] # slm[g]
          BY <1>1, <2>2, <3>1, <3>2 DEF IInv, NoSharedTile
        <4>2. slm[j[1]] \in Nat /\ slm[g] \in Nat
          BY DEF IInv, Types
        <4> QED
          BY <1>4, <3>2, <4>1, <4>2
      <3>3. CASE k # i
        BY <1>6, <2>2, <3>1, <3>3 DEF IInv, NoSharedTile
      <3> QED
        BY <3>2, <3>3
    <2> QED
      BY <1>1, <1>10, <2>1, <2>2 DEF IInv, NoSharedTile
  <1> QED
    BY <1>3, <1>7, <1>8, <1>9, <1>11, <1>12 DEF IInv

LEMMA NextIInv == IInv /\ [Next]_vars => IInv'
  <1> SUFFICES ASSUME IInv, [Next]_vars PROVE IInv'
    OBVIOUS
  <1>1. CASE UNCHANGED vars
    <2>1. \A i \in Item : /\ Behind(i)' = Behind(i) /\ Target(i)' = Target(i)
                          /\ Released(i)' = Released(i)
      BY <1>1 DEF vars, Behind, Target, Released
    <2>2. \A g \in Group : Fetched(g)' = Fetched(g)
      BY <1>1 DEF vars, Fetched, Behind, Released
    <2>3. Types' /\ \A i \in Item : Local(i)'
      BY <1>1, <2>1 DEF vars, IInv, Types, Local
    <2>4. Lockstep' /\ SameTile'
      BY <1>1, <2>1 DEF vars, IInv, Lockstep, SameTile
    <2>5. Given' /\ NoSharedTile'
      BY <1>1, <2>2, Constants DEF vars, IInv, Given, NoSharedTile
    <2> QED
      BY <2>3, <2>4, <2>5 DEF IInv
  <1>2. ASSUME NEW i \in Item, Step(i) PROVE IInv'
    BY <1>2, ArriveIInv, PrivateIInv, FetchIInv, ReadIInv DEF Step
  <1> QED
    BY <1>1, <1>2 DEF Next

LEMMA Invariance == Spec => []IInv
  BY InitIInv, NextIInv, PTL DEF Spec

(* The work-items of a work-group are always on the same tile, but for     *)
(* those that have still to read its number and will find it in slm_mem.   *)
THEOREM LanesStayTogether == Spec => []SameTile
  <1>1. IInv => SameTile
    BY DEF IInv
  <1> QED
    BY <1>1, Invariance, PTL

(* No two work-groups are ever given the same tile number. *)
THEOREM TilesNotShared == Spec => []NoSharedTile
  <1>1. IInv => NoSharedTile
    BY DEF IInv
  <1> QED
    BY <1>1, Invariance, PTL

-----------------------------------------------------------------------------
(* What is behind Complete: every tile has a number and every number up to *)
(* the last tile's is of one tile; a work-item has its number's tile; and  *)
(* its part of the tile is written when it has been through it.            *)

ColumnCount == CeilDiv(GemmN, WgTileN)

Number(x) == (PreTiles(rows)[x[1]] + x[2]) * ColumnCount + x[3]

(* Expert e has the block m of rows, or e is past the last. *)
Holds(r, m, e) ==
  /\ e \in 0 .. NumExperts
  /\ PreTiles(r)[e] <= m
  /\ e < NumExperts => m < PreTiles(r)[e + 1]

Located ==
  \A i \in Item : /\ Holds(rows, GroupMId(gid[i]), expert[i])
                  /\ pc[i] = "done" <=> expert[i] = NumExperts

(* The number in slm_mem is one the work-item has still to read. *)
Unread(i) == Fetched(i[1]) /\ (Behind(i) \/ \A l \in Lane : ~Behind(<<i[1], l>>))

Ahead == \A i \in Item : Unread(i) => gid[i] < Groups + slm[i[1]]

Multiplying(i) == pc[i] \in {"k_arrive", "k_wait", "store"}

(* Tile number n has been given out, and work-item l of its group has no   *)
(* more to do for it.                                                      *)
Through(n, l) ==
  /\ n < Groups + counter
  /\ \A g \in Group : /\ Multiplying(<<g, l>>) => gid[<<g, l>>] # n
                      /\ Unread(<<g, l>>) => Groups + slm[g] # n

WrittenOnce ==
  /\ written \in [AnyTile \X Lane -> Nat]
  /\ \A x \in AnyTile, l \in Lane :
       written[<<x, l>>] = IF x \in Tiles /\ Through(Number(x), l) THEN 1 ELSE 0

RowCounts == [Expert -> 0 .. MaxRows]

TileInv ==
  /\ rows \in RowCounts
  /\ Located /\ Ahead /\ WrittenOnce

-----------------------------------------------------------------------------
(* Tiles and their numbers. *)
LEMMA CeilDivNat ==
  ASSUME NEW a \in Nat, NEW c \in Nat \ {0}
  PROVE  CeilDiv(a, c) \in Nat /\ (a > 0 => CeilDiv(a, c) > 0)
<1>1. a + c - 1 \in Nat
  OBVIOUS
<1>2. (a + c - 1) \div c \in Nat
  BY <1>1, DivMod
<1>3. ASSUME a > 0 PROVE (a + c - 1) \div c > 0
  <2>1. c <= a + c - 1 /\ c \div c = 1
    <3>1. (1 * c + 0) \div c = 1
      BY DivModUnique
    <3> QED BY <1>3, <3>1
  <2>2. c \div c <= (a + c - 1) \div c
    BY <1>1, <2>1, QuotientMonotone
  <2> QED BY <1>2, <2>1, <2>2
<1> QED BY <1>2, <1>3 DEF CeilDiv

LEMMA PreTilesIs ==
  ASSUME NEW r
  PROVE  RunningSum(PreTiles(r), [e \in Nat |-> CeilDiv(r[e], WgTileM)])
<1> DEFINE h == [e \in Nat |-> CeilDiv(r[e], WgTileM)]
           F(g) == [e \in Nat |-> IF e = 0 THEN 0 ELSE g[e - 1] + CeilDiv(r[e - 1], WgTileM)]
           S(g) == [e \in Nat |-> IF e = 0 THEN 0 ELSE g[e - 1] + h[e - 1]]
<1>1. \A g : S(g) = F(g)
  <2>1. \A n \in Nat : n # 0 => h[n - 1] = CeilDiv(r[n - 1], WgTileM)
    OBVIOUS
  <2> HIDE DEF h
  <2> QED BY <2>1
<1>2. \E p : p = F(p)
  <2>1. PICK g : RunningSum(g, h)
    BY SumExists
  <2>2. g = S(g)
    BY <2>1, Zenon DEF RunningSum
  <2> HIDE DEF F, S
  <2> QED BY <1>1, <2>2
<1>3. PreTiles(r) = CHOOSE p : p = F(p)
  BY DEF PreTiles
<1> HIDE DEF F
<1>4. PreTiles(r) = F(PreTiles(r))
  BY <1>2, <1>3, Zenon
<1>5. PreTiles(r) = S(PreTiles(r))
  <2> HIDE DEF S
  <2> QED BY <1>1, <1>4
<1> HIDE DEF h
<1>6. RunningSum(PreTiles(r), h)
  BY <1>5, Zenon DEF RunningSum
<1> QED BY <1>6 DEF h

LEMMA PreTilesFacts ==
  ASSUME NEW r \in RowCounts
  PROVE  /\ PreTiles(r)[0] = 0
         /\ \A e \in 0 .. NumExperts : PreTiles(r)[e] \in Nat
         /\ \A e \in Expert : /\ CeilDiv(r[e], WgTileM) \in Nat
                              /\ PreTiles(r)[e + 1] = PreTiles(r)[e] + CeilDiv(r[e], WgTileM)
         /\ \A d \in 0 .. NumExperts : \A e \in d .. NumExperts : PreTiles(r)[d] <= PreTiles(r)[e]
<1> DEFINE h == [e \in Nat |-> CeilDiv(r[e], WgTileM)]
<1>1. RunningSum(PreTiles(r), h)
  BY PreTilesIs
<1>2. NumExperts \in Nat /\ \A e \in Expert : CeilDiv(r[e], WgTileM) \in Nat
  <2>1. ASSUME NEW e \in Expert PROVE CeilDiv(r[e], WgTileM) \in Nat
    <3>1. r[e] \in Nat /\ WgTileM \in Nat \ {0}
      BY RowsAssumption, TileAssumption DEF RowCounts
    <3> QED BY <3>1, CeilDivNat
  <2> QED BY <2>1, ExpertsAssumption
<1>3. \A e \in 0 .. NumExperts - 1 : h[e] \in Nat /\ h[e] = CeilDiv(r[e], WgTileM)
  BY <1>2 DEF Expert
<1> HIDE DEF h
<1>4. /\ PreTiles(r)[0] = 0
      /\ \A n \in 0 .. NumExperts : PreTiles(r)[n] \in Nat
      /\ \A n \in 0 .. NumExperts - 1 : PreTiles(r)[n + 1] = PreTiles(r)[n] + h[n]
  BY <1>1, <1>2, <1>3, RunningSumFacts
<1>5. ASSUME NEW d \in 0 .. NumExperts
      PROVE  \A e \in d .. NumExperts : PreTiles(r)[d] <= PreTiles(r)[e]
  BY <1>1, <1>2, <1>3, RunningSumMonotone
<1> QED BY <1>2, <1>3, <1>4, <1>5 DEF Expert

LEMMA Columned ==
  /\ ColumnCount \in Nat \ {0}
  /\ \A g \in Nat : /\ GroupMId(g) = g \div ColumnCount /\ GroupMId(g) \in Nat
                    /\ NCoord(g) = g % ColumnCount /\ NCoord(g) \in 0 .. ColumnCount - 1
                    /\ g = (GroupMId(g) * ColumnCount) + NCoord(g)
<1> DEFINE c == ColumnCount
           w == WgTileN
<1>1. c \in Nat \ {0} /\ w \in Nat \ {0}
  BY TileAssumption, CeilDivNat DEF ColumnCount
<1>2. GemmNPad = c * w
  BY DEF GemmNPad, ColumnCount
<1> HIDE DEF c
<1>3. ASSUME NEW g \in Nat
      PROVE  /\ GroupMId(g) = g \div c /\ GroupMId(g) \in Nat
             /\ NCoord(g) = g % c /\ NCoord(g) \in 0 .. c - 1
             /\ g = (GroupMId(g) * c) + NCoord(g)
  <2>1. PICK q \in Nat, s \in 0 .. c - 1 : g = (q * c) + s /\ q = g \div c /\ s = g % c
    BY <1>1, DivMod
  <2>2. PICK d \in Nat \ {0} : d = c * w
    BY <1>1
  <2>3. PICK t \in Nat : t = s * w
    BY <1>1
  <2>4. t \in 0 .. d - 1
    <3>1. PICK u \in Nat : c = s + u + 1
      BY <1>1
    <3>2. c * w = (s * w) + (u * w) + w /\ u * w >= 0
      BY <1>1, <3>1
    <3> QED BY <1>1, <2>2, <2>3, <3>2
  <2>5. g * w = (q * d) + t
    <3>1. g * w = ((q * c) * w) + (s * w)
      BY <1>1, <2>1
    <3>2. (q * c) * w = q * (c * w)
      BY <1>1
    <3> QED BY <2>2, <2>3, <3>1, <3>2
  <2>6. ((q * d) + t) \div d = q /\ ((q * d) + t) % d = t
    BY <2>2, <2>4, DivModUnique
  <2>7. GroupMId(g) = q
    BY <1>2, <2>2, <2>5, <2>6 DEF GroupMId
  <2>8. NCoord(g) = t \div w
    BY <1>2, <2>2, <2>5, <2>6 DEF NCoord
  <2>9. t \div w = s
    <3>1. ((s * w) + 0) \div w = s
      BY <1>1, DivModUnique
    <3> QED BY <1>1, <2>3, <3>1
  <2> QED BY <2>1, <2>7, <2>8, <2>9
<1> QED BY <1>1, <1>3 DEF c

LEMMA HoldsUnique ==
  ASSUME NEW r \in RowCounts, NEW m \in Nat, NEW d, NEW e, Holds(r, m, d), Holds(r, m, e)
  PROVE  d = e
<1>1. ASSUME NEW a, NEW b, Holds(r, m, a), Holds(r, m, b), a < b PROVE FALSE
  <2>1. a \in 0 .. NumExperts /\ b \in 0 .. NumExperts /\ a + 1 \in 0 .. NumExperts
        /\ b \in a + 1 .. NumExperts /\ a < NumExperts
    BY <1>1, ExpertsAssumption DEF Holds
  <2>2. PreTiles(r)[a + 1] <= PreTiles(r)[b] /\ PreTiles(r)[a + 1] \in Nat /\ PreTiles(r)[b] \in Nat
    BY <2>1, PreTilesFacts
  <2> QED BY <1>1, <2>1, <2>2 DEF Holds
<1>2. d \in 0 .. NumExperts /\ e \in 0 .. NumExperts
  BY DEF Holds
<1> QED BY <1>1, <1>2, ExpertsAssumption

(* The scan finds the expert, if it starts no later than there. *)
LEMMA ScanHolds ==
  ASSUME NEW r \in RowCounts, NEW g \in Nat, NEW from \in 0 .. NumExperts,
         PreTiles(r)[from] <= GroupMId(g)
  PROVE  Holds(r, GroupMId(g), Scan(r, g, from))
<1> DEFINE m == GroupMId(g)
           P == PreTiles(r)
           Found(e) == /\ \A d \in from .. e - 1 : m >= P[d + 1]
                       /\ e < NumExperts => m < P[e + 1]
           T == {e \in from .. NumExperts : e < NumExperts => m < P[e + 1]}
<1>1. m \in Nat /\ NumExperts \in Nat
  BY Columned, ExpertsAssumption
<1>2. \A e \in 0 .. NumExperts : P[e] \in Nat
  BY PreTilesFacts
<1> HIDE DEF m, P
<1>3. T \subseteq Nat /\ T # {}
  <2>1. NumExperts \in T
    BY <1>1
  <2> QED BY <1>1, <2>1
<1>4. PICK e \in T : \A d \in T : e <= d
  <2> HIDE DEF T
  <2> QED BY <1>3, LeastNat, Zenon
<1>5. e \in from .. NumExperts /\ Found(e)
  <2>1. ASSUME NEW d \in from .. e - 1 PROVE m >= P[d + 1]
    <3>1. d \notin T /\ d \in from .. NumExperts /\ d + 1 \in 0 .. NumExperts
      BY <1>1, <1>4, <2>1
    <3> QED BY <1>1, <1>2, <3>1
  <2> QED BY <1>4, <2>1
<1>6. Scan(r, g, from) = CHOOSE a \in from .. NumExperts : Found(a)
  BY DEF Scan, m, P
<1> DEFINE s == Scan(r, g, from)
<1> HIDE DEF Found
<1>7. s \in from .. NumExperts /\ Found(s)
  BY <1>5, <1>6
<1> HIDE DEF s
<1>8. s \in 0 .. NumExperts /\ (s < NumExperts => m < P[s + 1])
  BY <1>1, <1>7 DEF Found
<1>9. P[s] <= m
  <2>1. CASE s = from
    BY <2>1 DEF m, P
  <2>2. CASE s # from
    <3>1. s - 1 \in from .. s - 1 /\ (s - 1) + 1 = s
      BY <1>1, <1>7, <2>2
    <3>2. m >= P[s]
      BY <1>7, <3>1 DEF Found
    <3> QED BY <1>1, <1>2, <1>8, <3>2
  <2> QED BY <2>1, <2>2
<1> QED BY <1>8, <1>9 DEF Holds, s, m, P


(* The number of a tile leads back to it. *)
LEMMA NumberFacts ==
  ASSUME rows \in RowCounts, NEW x \in Tiles
  PROVE  /\ Number(x) \in Nat
         /\ GroupMId(Number(x)) = PreTiles(rows)[x[1]] + x[2]
         /\ NCoord(Number(x)) = x[3]
         /\ Holds(rows, GroupMId(Number(x)), x[1]) /\ x[1] < NumExperts
<1> DEFINE p == PreTiles(rows)[x[1]]
           b == x[2]
           c == ColumnCount
<1>1. x[1] \in Expert /\ x[2] \in Blocks(rows[x[1]]) /\ x[3] \in 0 .. ColumnCount - 1
  BY DEF Tiles, AnyTile, Columns, ColumnCount
<1>2. /\ p \in Nat /\ CeilDiv(rows[x[1]], WgTileM) \in Nat
      /\ PreTiles(rows)[x[1] + 1] = p + CeilDiv(rows[x[1]], WgTileM)
      /\ x[1] \in 0 .. NumExperts /\ x[1] < NumExperts
  BY <1>1, PreTilesFacts, ExpertsAssumption DEF Expert
<1>3. b \in Nat /\ b < CeilDiv(rows[x[1]], WgTileM)
  BY <1>1, <1>2 DEF Blocks
<1>4. c \in Nat \ {0} /\ x[3] \in 0 .. c - 1
  BY <1>1, Columned
<1>5. Number(x) = ((p + b) * c) + x[3]
  BY DEF Number
<1> HIDE DEF p, b, c
<1>6. PICK q \in Nat : q = p + b
  BY <1>2, <1>3
<1>7. Number(x) \in Nat /\ Number(x) \div c = q /\ Number(x) % c = x[3]
  <2>1. q * c \in Nat
    BY <1>4, <1>6
  <2>2. ((q * c) + x[3]) \div c = q /\ ((q * c) + x[3]) % c = x[3]
    BY <1>4, <1>6, DivModUnique
  <2>3. Number(x) = (q * c) + x[3]
    BY <1>5, <1>6
  <2>4. (q * c) + x[3] \in Nat
    BY <1>4, <2>1
  <2> QED BY <2>2, <2>3, <2>4
<1>8. GroupMId(Number(x)) = q /\ NCoord(Number(x)) = x[3]
  BY <1>7, Columned DEF c
<1>9. Holds(rows, q, x[1])
  BY <1>2, <1>3, <1>6 DEF Holds, p
<1> QED BY <1>2, <1>6, <1>7, <1>8, <1>9 DEF p, b

LEMMA NumberInjective ==
  ASSUME rows \in RowCounts, NEW x \in Tiles, NEW y \in Tiles, Number(x) = Number(y)
  PROVE  x = y
<1>1. x = <<x[1], x[2], x[3]>> /\ y = <<y[1], y[2], y[3]>>
  BY DEF Tiles, AnyTile
<1>2. x[1] = y[1]
  <2>1. GroupMId(Number(x)) \in Nat
    BY NumberFacts, Columned
  <2> QED BY <2>1, NumberFacts, HoldsUnique
<1>3. x[3] = y[3]
  BY NumberFacts
<1>4. x[2] = y[2]
  <2>1. PreTiles(rows)[x[1]] + x[2] = PreTiles(rows)[x[1]] + y[2]
    BY <1>2, NumberFacts
  <2>2. x[1] \in Expert /\ x[2] \in Int /\ y[2] \in Int
    BY DEF Tiles, AnyTile, Blocks
  <2>3. PreTiles(rows)[x[1]] \in Nat
    BY <2>2, PreTilesFacts, ExpertsAssumption DEF Expert
  <2> QED BY <2>1, <2>2, <2>3
<1> QED BY <1>1, <1>2, <1>3, <1>4

(* A work-item that multiplies is on the tile of its number. *)
LEMMA OnItsTile ==
  ASSUME rows \in RowCounts, NEW i \in Item, gid[i] \in Nat,
         Holds(rows, GroupMId(gid[i]), expert[i]), expert[i] # NumExperts
  PROVE  TileOf(i) \in Tiles /\ Number(TileOf(i)) = gid[i]
<1> DEFINE e == expert[i]
           m == GroupMId(gid[i])
           P == PreTiles(rows)
<1>0. m \in Nat
  BY Columned
<1>1. e \in Expert /\ e < NumExperts /\ m \in Nat /\ P[e] <= m /\ m < P[e + 1]
  <2> HIDE DEF m
  <2> QED BY <1>0, ExpertsAssumption DEF Holds, Expert, m
<1>2. /\ P[e] \in Nat /\ P[e + 1] = P[e] + CeilDiv(rows[e], WgTileM)
      /\ CeilDiv(rows[e], WgTileM) \in Nat
  BY <1>1, PreTilesFacts, ExpertsAssumption DEF Expert
<1>3. m - P[e] \in Blocks(rows[e])
  <2> HIDE DEF e, m, P
  <2> QED BY <1>1, <1>2 DEF Blocks
<1>4. Blocks(rows[e]) \subseteq Blocks(MaxRows)
  <2>1. rows[e] \in 0 .. MaxRows /\ MaxRows \in Nat /\ WgTileM \in Nat \ {0}
    BY <1>1, RowsAssumption, TileAssumption DEF RowCounts
  <2>2. CeilDiv(rows[e], WgTileM) <= CeilDiv(MaxRows, WgTileM)
    <3>1. /\ rows[e] + WgTileM - 1 \in Nat /\ MaxRows + WgTileM - 1 \in Nat
          /\ rows[e] + WgTileM - 1 <= MaxRows + WgTileM - 1
      BY <2>1
    <3> QED BY <2>1, <3>1, QuotientMonotone DEF CeilDiv
  <2>3. CeilDiv(MaxRows, WgTileM) \in Nat
    BY <2>1, CeilDivNat
  <2> QED BY <1>2, <2>2, <2>3 DEF Blocks
<1>5. NCoord(gid[i]) \in Columns
  BY Columned DEF Columns, ColumnCount
<1>6. TileOf(i) = <<e, m - P[e], NCoord(gid[i])>>
  BY DEF TileOf
<1>7. TileOf(i) \in Tiles
  BY <1>1, <1>3, <1>4, <1>5, <1>6 DEF Tiles, AnyTile
<1>8. Number(TileOf(i)) = ((P[e] + (m - P[e])) * ColumnCount) + NCoord(gid[i])
  BY <1>6 DEF Number
<1>9. P[e] + (m - P[e]) = m
  BY <1>1, <1>2
<1> QED BY <1>7, <1>8, <1>9, Columned

-----------------------------------------------------------------------------
(* What a step does to the parts of TileInv. *)

(* Nothing of Located and Ahead, where neither numbers nor experts change. *)
LEMMA WhereKept ==
  ASSUME IInv, TileInv, UNCHANGED <<rows, slm, gid, expert>>,
         \A i \in Item : Unread(i)' = Unread(i),
         \A i \in Item : pc'[i] = "done" <=> pc[i] = "done"
  PROVE  Located' /\ Ahead'
<1>1. Located'
  BY DEF TileInv, Located, Holds
<1>2. Ahead'
  BY DEF TileInv, Ahead
<1> QED BY <1>1, <1>2

(* Nothing of WrittenOnce, where no work-item is through with more. *)
LEMMA WrittenKept ==
  ASSUME WrittenOnce, UNCHANGED <<rows, written>>,
         \A x \in Tiles : \A l \in Lane : Through(Number(x), l)' <=> Through(Number(x), l)
  PROVE  WrittenOnce'
<1>1. Tiles' = Tiles
  BY DEF Tiles
<1>2. \A x : Number(x)' = Number(x)
  BY DEF Number
<1> QED BY <1>1, <1>2 DEF WrittenOnce

LEMMA InitTile == Init => TileInv
<1> SUFFICES ASSUME Init PROVE TileInv
  OBVIOUS
<1> USE Constants
<1>1. rows \in RowCounts /\ Tiles \subseteq AnyTile
  BY DEF Init, RowCounts, Tiles
<1>2. ASSUME NEW i \in Item
      PROVE  /\ gid[i] = i[1] /\ gid[i] \in Nat /\ Released(i) /\ ~Behind(i)
             /\ pc[i] = AfterScan(expert[i])
             /\ Holds(rows, GroupMId(gid[i]), expert[i])
  <2>1. gid[i] = i[1] /\ i[1] \in Nat /\ expert[i] = Scan(rows, i[1], 0) /\ pc[i] = AfterScan(expert[i])
    BY DEF Init
  <2>2. Released(i) /\ ~Behind(i)
    BY DEF Init, Released, Behind, AfterScan
  <2>3. PreTiles(rows)[0] <= GroupMId(i[1]) /\ 0 \in 0 .. NumExperts
    BY <1>1, <2>1, PreTilesFacts, Columned, ExpertsAssumption
  <2> QED BY <1>1, <2>1, <2>2, <2>3, ScanHolds
<1>3. Located
  BY <1>2 DEF Located, AfterScan
<1>4. \A i \in Item : ~Unread(i)
  BY <1>2 DEF Unread, Fetched, Init, AfterScan
<1>5. Ahead
  BY <1>4 DEF Ahead
<1>6. \A x \in Tiles : \A l \in Lane : ~Through(Number(x), l)
  <2> SUFFICES ASSUME NEW x \in Tiles, NEW l \in Lane, Through(Number(x), l) PROVE FALSE
    OBVIOUS
  <2>1. Number(x) \in Nat /\ Holds(rows, GroupMId(Number(x)), x[1]) /\ x[1] < NumExperts
    BY <1>1, NumberFacts
  <2>2. Number(x) < Groups
    BY <2>1 DEF Through, Init, Launch
  <2>3. PICK g \in Group : g = Number(x)
    BY <2>1, <2>2 DEF Group
  <2>4. <<g, l>> \in Item /\ gid[<<g, l>>] = g
    BY <1>2
  <2>5. expert[<<g, l>>] = x[1]
    BY <1>1, <1>2, <2>1, <2>3, <2>4, HoldsUnique, Columned
  <2>6. Multiplying(<<g, l>>)
    <3>1. x[1] # NumExperts
      BY <2>1, ExpertsAssumption
    <3> QED BY <1>2, <2>4, <2>5, <3>1 DEF Multiplying, AfterScan
  <2> QED BY <2>3, <2>4, <2>6 DEF Through
<1>7. WrittenOnce
  BY <1>6 DEF WrittenOnce, Init
<1> QED BY <1>1, <1>3, <1>5, <1>7 DEF TileInv


(* Whose number is still in slm_mem, before a step and after it. *)
LEMMA ArriveUnread ==
  ASSUME IInv, NEW i \in Item,
         \/ Arrive(i, "k_arrive", "k_wait")
         \/ Arrive(i, "arrive", "wait")
  PROVE  \A j \in Item : Unread(j)' = Unread(j)
<1> USE Constants
<1> DEFINE g == i[1]
           full == arrived[g] \cup {i[2]} = Lane
<1>1. /\ pc[i] \in {"k_arrive", "arrive"}
      /\ arrived' = [arrived EXCEPT ![g] = IF full THEN {} ELSE @ \cup {i[2]}]
      /\ pc' = [pc EXCEPT ![i] = IF pc[i] = "k_arrive" THEN "k_wait" ELSE "wait"]
  BY DEF Arrive
<1>2. Released(i) /\ ~Behind(i)
  BY <1>1 DEF IInv, Local, Released, Behind
<1>3. \A h \in Group : h # g =>
        /\ \A l \in Lane : Behind(<<h, l>>)' = Behind(<<h, l>>)
        /\ Fetched(h)' = Fetched(h)
  <2>1. ASSUME NEW h \in Group, h # g, NEW l \in Lane
        PROVE  pc'[<<h, l>>] = pc[<<h, l>>] /\ Behind(<<h, l>>)' = Behind(<<h, l>>)
    BY <1>1, <2>1 DEF Behind, Released, IInv, Types
  <2> QED BY <2>1 DEF Fetched
<1>4. CASE ~full
  <2>1. ASSUME NEW l \in Lane PROVE Behind(<<g, l>>)' = Behind(<<g, l>>)
    <3>1. CASE l = i[2]
      BY <1>1, <1>2, <1>4, <3>1 DEF Behind, Released, IInv, Types
    <3>2. CASE l # i[2]
      BY <1>1, <1>4, <3>2 DEF Behind, Released, IInv, Types
    <3> QED BY <3>1, <3>2
  <2>2. Fetched(g)' = Fetched(g)
    BY <1>1, <2>1 DEF Fetched, IInv, Types
  <2> QED BY <1>3, <2>1, <2>2 DEF Unread
<1>5. CASE full
  <2>1. \A l \in Lane : ~Behind(<<g, l>>) /\ pc'[<<g, l>>] = pc'[i] /\ Released(<<g, l>>)'
                        /\ (l # i[2] => pc[<<g, l>>] = pc'[i])
    <3>1. ASSUME NEW l \in Lane, l # i[2]
          PROVE  /\ pc[<<g, l>>] = (IF pc[i] = "k_arrive" THEN "k_wait" ELSE "wait")
                 /\ ~Released(<<g, l>>)
      BY <1>1, <1>5, <3>1, LastArrival
    <3>2. pc'[i] = IF pc[i] = "k_arrive" THEN "k_wait" ELSE "wait"
      BY <1>1 DEF IInv, Types
    <3>3. arrived'[g] = {}
      BY <1>1, <1>5 DEF IInv, Types
    <3>4. ASSUME NEW l \in Lane
          PROVE  ~Behind(<<g, l>>) /\ pc'[<<g, l>>] = pc'[i] /\ Released(<<g, l>>)'
                 /\ (l # i[2] => pc[<<g, l>>] = pc'[i])
      <4>1. CASE l = i[2]
        BY <1>2, <3>3, <4>1 DEF Released
      <4>2. CASE l # i[2]
        <5>1. pc'[<<g, l>>] = pc[<<g, l>>]
          BY <1>1, <4>2 DEF IInv, Types
        <5> QED BY <3>1, <3>2, <3>3, <4>2, <5>1 DEF Behind, Released
      <4> QED BY <4>1, <4>2
    <3> QED BY <3>4
  <2>2. CASE pc[i] = "k_arrive"
    <3>1. pc'[i] = "k_wait"
      BY <1>1, <2>2 DEF IInv, Types
    <3>2. \A l \in Lane : ~Behind(<<g, l>>)' /\ pc[<<g, l>>] \in {"k_arrive", "k_wait"}
      BY <2>1, <2>2, <3>1 DEF Behind
    <3>3. ~Fetched(g) /\ ~Fetched(g)'
      BY <2>1, <3>1, <3>2 DEF Fetched
    <3> QED BY <1>3, <3>3 DEF Unread
  <2>3. CASE pc[i] = "arrive"
    <3>1. pc'[i] = "wait"
      BY <1>1, <2>3 DEF IInv, Types
    <3>2. \A l \in Lane : Behind(<<g, l>>)' /\ pc[<<g, l>>] \in {"arrive", "wait"}
      BY <2>1, <2>3, <3>1 DEF Behind
    <3>3. Fetched(g) /\ Fetched(g)'
      BY <3>2 DEF Fetched
    <3> QED BY <1>3, <2>1, <3>2, <3>3 DEF Unread
  <2> QED BY <1>1, <2>2, <2>3
<1> QED BY <1>4, <1>5

LEMMA PrivateUnread ==
  ASSUME IInv, NEW i \in Item, KWait(i) \/ Store(i) \/ Wait(i)
  PROVE  \A j \in Item : Unread(j)' = Unread(j)
<1> USE Constants
<1>1. arrived' = arrived /\ \A j \in Item : j # i => pc'[j] = pc[j]
  BY DEF KWait, NextBlock, Store, Wait, IInv, Types
<1>2. \/ pc[i] = "k_wait" /\ pc'[i] \in {"k_arrive", "store"}
      \/ pc[i] = "store" /\ pc'[i] = IF i[2] = 0 THEN "fetch" ELSE "arrive"
      \/ pc[i] = "wait" /\ Released(i) /\ pc'[i] = "read"
  BY DEF KWait, NextBlock, Store, Wait, IInv, Types
<1>3. \A j \in Item : Behind(j)' = Behind(j)
  BY <1>1, <1>2 DEF Behind, Released
<1>4. \A h \in Group : Fetched(h)' = Fetched(h)
  <2>1. \A h \in Group : pc'[<<h, 0>>] \in {"arrive", "wait", "read"}
                          <=> pc[<<h, 0>>] \in {"arrive", "wait", "read"}
    BY <1>1, <1>2
  <2> QED BY <1>3, <2>1 DEF Fetched
<1> QED BY <1>3, <1>4 DEF Unread

LEMMA FetchUnread ==
  ASSUME IInv, NEW i \in Item, Fetch(i)
  PROVE  \A j \in Item : /\ j[1] = i[1] => Unread(j)' /\ ~Unread(j)
                         /\ j[1] # i[1] => Unread(j)' = Unread(j)
<1> USE Constants
<1> DEFINE g == i[1]
<1>1. /\ pc[i] = "fetch" /\ i = <<g, 0>> /\ kTile[i] = KTiles
      /\ pc' = [pc EXCEPT ![i] = "arrive"] /\ arrived' = arrived
  BY DEF Fetch, IInv, Local
<1>2. \A l \in Lane : ~Behind(<<g, l>>)
  BY <1>1 DEF IInv, Lockstep, Target, Behind
<1>3. \A j \in Item : Behind(j)' = Behind(j)
  BY <1>1 DEF Behind, Released, IInv, Types
<1>4. ~Fetched(g) /\ Fetched(g)'
  BY <1>1, <1>2 DEF Fetched, IInv, Types
<1>5. \A h \in Group : h # g => Fetched(h)' = Fetched(h)
  BY <1>1, <1>3 DEF Fetched, IInv, Types
<1> QED BY <1>2, <1>3, <1>4, <1>5 DEF Unread

LEMMA ReadUnread ==
  ASSUME IInv, NEW i \in Item, Read(i)
  PROVE  /\ Unread(i) /\ ~Unread(i)'
         /\ \A j \in Item : j # i => Unread(j)' = Unread(j)
<1> USE Constants
<1> DEFINE g == i[1]
<1>1. /\ pc[i] = "read" /\ Behind(i) /\ Fetched(g)
      /\ \E p \in {"done", "k_arrive"} : pc' = [pc EXCEPT ![i] = p]
      /\ arrived' = arrived
  BY DEF Read, Take, AfterScan, Behind, Fetched
<1>2. \A j \in Item : j # i => Behind(j)' = Behind(j)
  BY <1>1 DEF IInv, Types, Behind, Released
<1>3. ~Behind(i)'
  BY <1>1 DEF IInv, Types, Behind
<1>4. ASSUME NEW h \in Group, h # g PROVE Fetched(h)' = Fetched(h)
  <2>1. ASSUME NEW l \in Lane
        PROVE  pc'[<<h, l>>] = pc[<<h, l>>] /\ Behind(<<h, l>>)' = Behind(<<h, l>>)
    <3>1. <<h, l>> \in Item /\ <<h, l>> # i
      BY <1>4
    <3> QED BY <1>1, <1>2, <3>1 DEF IInv, Types
  <2> QED BY <2>1 DEF Fetched
<1>5. ASSUME \A l \in Lane : ~Behind(<<g, l>>)' PROVE ~Fetched(g)'
  <2>1. CASE i[2] = 0
    BY <1>1, <1>5, <2>1 DEF Fetched, IInv, Types
  <2>2. CASE i[2] # 0
    <3> DEFINE j == <<g, 0>>
    <3>1. j \in Item /\ j # i /\ pc'[j] = pc[j]
      BY <1>1, <2>2 DEF IInv, Types
    <3>2. ~Behind(j)
      BY <1>2, <1>5, <3>1
    <3>3. Target(j) = 0
      BY <1>1, <3>1 DEF IInv, Lockstep, Target
    <3>4. kTile[j] \in Nat
      BY <3>1 DEF IInv, Types
    <3>5. kTile[j] = 0
      BY <3>1, <3>2, <3>3, <3>4 DEF Target
    <3>6. pc[j] \notin {"arrive", "wait", "read"}
      BY <3>1, <3>5 DEF IInv, Local
    <3> QED BY <1>5, <3>1, <3>6 DEF Fetched
  <2> QED BY <2>1, <2>2
<1>6. Unread(i) /\ ~Unread(i)'
  BY <1>1, <1>3, <1>5 DEF Unread
<1>7. ASSUME NEW j \in Item, j # i, j[1] = g PROVE Unread(j)' = Unread(j)
  <2>1. CASE Behind(j)
    BY <1>1, <1>2, <1>7, <2>1 DEF Unread, Fetched
  <2>2. CASE ~Behind(j)
    BY <1>1, <1>2, <1>5, <1>7, <2>2 DEF Unread
  <2> QED BY <2>1, <2>2
<1>8. ASSUME NEW j \in Item, j[1] # g PROVE Unread(j)' = Unread(j)
  BY <1>2, <1>4, <1>8 DEF Unread
<1> QED BY <1>6, <1>7, <1>8


-----------------------------------------------------------------------------
(* Every step keeps TileInv. *)

(* Work-item l is through with the same tiles, if it multiplies, has read  *)
(* and has to read the same ones. *)
LEMMA ThroughKept ==
  ASSUME IInv, UNCHANGED <<rows, counter, slm, gid>>,
         \A i \in Item : /\ Unread(i)' = Unread(i)
                         /\ Multiplying(i)' <=> Multiplying(i)
  PROVE  \A x : \A l \in Lane : Through(Number(x), l)' <=> Through(Number(x), l)
<1>1. \A x : Number(x)' = Number(x)
  BY DEF Number
<1> QED BY <1>1, Constants DEF Through

LEMMA ArriveTile ==
  ASSUME IInv, TileInv, NEW i \in Item,
         \/ Arrive(i, "k_arrive", "k_wait")
         \/ Arrive(i, "arrive", "wait")
  PROVE  TileInv'
<1>1. /\ \/ pc[i] = "k_arrive" /\ pc' = [pc EXCEPT ![i] = "k_wait"]
         \/ pc[i] = "arrive" /\ pc' = [pc EXCEPT ![i] = "wait"]
      /\ UNCHANGED <<rows, counter, slm, gid, expert, written>>
  BY DEF Arrive
<1>2. \A j \in Item : /\ pc'[j] = "done" <=> pc[j] = "done"
                      /\ Multiplying(j)' <=> Multiplying(j)
  BY <1>1 DEF IInv, Types, Multiplying
<1>3. \A j \in Item : Unread(j)' = Unread(j)
  BY ArriveUnread
<1>4. Located' /\ Ahead'
  BY <1>1, <1>2, <1>3, WhereKept
<1>5. WrittenOnce'
  <2>1. \A x : \A l \in Lane : Through(Number(x), l)' <=> Through(Number(x), l)
    BY <1>1, <1>2, <1>3, ThroughKept
  <2> QED BY <1>1, <2>1, WrittenKept DEF TileInv
<1> QED BY <1>1, <1>4, <1>5 DEF TileInv

LEMMA WaitTile ==
  ASSUME IInv, TileInv, NEW i \in Item, KWait(i) \/ Wait(i)
  PROVE  TileInv'
<1>1. /\ \/ pc[i] = "k_wait" /\ \E p \in {"k_arrive", "store"} : pc' = [pc EXCEPT ![i] = p]
         \/ pc[i] = "wait" /\ pc' = [pc EXCEPT ![i] = "read"]
      /\ UNCHANGED <<rows, counter, slm, gid, expert, written>>
  BY DEF KWait, NextBlock, Wait
<1>2. \A j \in Item : /\ pc'[j] = "done" <=> pc[j] = "done"
                      /\ Multiplying(j)' <=> Multiplying(j)
  BY <1>1 DEF IInv, Types, Multiplying
<1>3. \A j \in Item : Unread(j)' = Unread(j)
  BY PrivateUnread
<1>4. Located' /\ Ahead'
  BY <1>1, <1>2, <1>3, WhereKept
<1>5. WrittenOnce'
  <2>1. \A x : \A l \in Lane : Through(Number(x), l)' <=> Through(Number(x), l)
    BY <1>1, <1>2, <1>3, ThroughKept
  <2> QED BY <1>1, <2>1, WrittenKept DEF TileInv
<1> QED BY <1>1, <1>4, <1>5 DEF TileInv

LEMMA StoreTile ==
  ASSUME IInv, TileInv, NEW i \in Item, Store(i)
  PROVE  TileInv'
<1> USE Constants
<1> DEFINE g == i[1]
           k == i[2]
           n == gid[i]
           y == TileOf(i)
<1>1. /\ pc[i] = "store" /\ \E p \in {"fetch", "arrive"} : pc' = [pc EXCEPT ![i] = p]
      /\ written' = [written EXCEPT ![<<y, k>>] = @ + 1]
      /\ UNCHANGED <<rows, counter, slm, gid, expert>>
  BY DEF Store
<1>2. /\ \A j \in Item : (pc'[j] = "done" <=> pc[j] = "done")
      /\ \A j \in Item : j # i => (Multiplying(j)' <=> Multiplying(j))
      /\ Multiplying(i) /\ ~Multiplying(i)'
  BY <1>1 DEF IInv, Types, Multiplying
<1>3. \A j \in Item : Unread(j)' = Unread(j)
  BY PrivateUnread
<1>4. Located' /\ Ahead'
  BY <1>1, <1>2, <1>3, WhereKept
<1>5. rows \in RowCounts /\ n \in Nat /\ slm \in [Group -> Nat] /\ Groups \in Nat
  BY DEF TileInv, IInv, Types
<1>6. y \in Tiles /\ Number(y) = n
  BY <1>1, <1>5, OnItsTile DEF TileInv, Located
<1>7. ~Through(n, k) /\ Through(n, k)'
  <2>1. ~Through(n, k)
    BY <1>2 DEF Through
  <2>2. n < Groups + counter
    BY DEF IInv, Given
  <2>3. Unread(i) => Groups + slm[g] # n
    BY <1>5 DEF TileInv, Ahead
  <2>4. ASSUME NEW h \in Group, h # g
        PROVE  gid[<<h, k>>] # n /\ (Unread(<<h, k>>) => Groups + slm[h] # n)
    <3>1. <<h, k>> \in Item /\ <<h, k>>[1] = h
      OBVIOUS
    <3> QED BY <2>4, <3>1 DEF IInv, NoSharedTile, Unread
  <2>5. ASSUME NEW h \in Group
        PROVE  /\ Multiplying(<<h, k>>)' => gid'[<<h, k>>] # n
               /\ Unread(<<h, k>>)' => Groups + slm'[h] # n
    <3>1. CASE h = g
      BY <1>1, <1>2, <1>3, <2>3, <3>1
    <3>2. CASE h # g
      BY <1>1, <1>3, <2>4, <3>2
    <3> QED BY <3>1, <3>2
  <2> QED BY <1>1, <2>1, <2>2, <2>5 DEF Through
<1>8. ASSUME NEW x \in Tiles, NEW l \in Lane, <<x, l>> # <<y, k>>
      PROVE  Through(Number(x), l)' <=> Through(Number(x), l)
  <2>1. Number(x)' = Number(x)
    BY <1>1 DEF Number
  <2>2. l = k => Number(x) # n
    BY <1>5, <1>6, <1>8, NumberInjective
  <2>3. ASSUME NEW h \in Group
        PROVE  /\ Unread(<<h, l>>)' = Unread(<<h, l>>)
               /\ (Multiplying(<<h, l>>)' => gid[<<h, l>>] # Number(x))
                    <=> (Multiplying(<<h, l>>) => gid[<<h, l>>] # Number(x))
    <3>1. <<h, l>> \in Item
      OBVIOUS
    <3>2. CASE <<h, l>> = i
      BY <1>2, <1>3, <2>2, <3>1, <3>2
    <3>3. CASE <<h, l>> # i
      BY <1>2, <1>3, <3>1, <3>3
    <3> QED BY <3>2, <3>3
  <2> QED BY <1>1, <2>1, <2>3 DEF Through
<1>9. WrittenOnce'
  <2>1. Tiles' = Tiles /\ \A x : Number(x)' = Number(x)
    BY <1>1 DEF Tiles, Number
  <2>2. written \in [AnyTile \X Lane -> Nat] /\ <<y, k>> \in AnyTile \X Lane
    BY <1>6 DEF TileInv, WrittenOnce, Tiles
  <2>3. written' \in [AnyTile \X Lane -> Nat]
    BY <1>1, <2>2
  <2>4. written'[<<y, k>>] = 1
    BY <1>1, <1>6, <1>7, <2>2 DEF TileInv, WrittenOnce
  <2>5. ASSUME NEW x \in AnyTile, NEW l \in Lane
        PROVE  written'[<<x, l>>] = IF x \in Tiles /\ Through(Number(x), l)' THEN 1 ELSE 0
    <3>1. CASE <<x, l>> = <<y, k>>
      BY <1>1, <1>6, <1>7, <2>1, <2>4, <3>1 DEF Through
    <3>2. CASE <<x, l>> # <<y, k>>
      <4>1. written'[<<x, l>>] = written[<<x, l>>]
        BY <1>1, <2>2, <3>2
      <4>2. written[<<x, l>>] = IF x \in Tiles /\ Through(Number(x), l) THEN 1 ELSE 0
        BY DEF TileInv, WrittenOnce
      <4>3. x \in Tiles => (Through(Number(x), l)' <=> Through(Number(x), l))
        BY <1>8, <3>2
      <4> QED BY <4>1, <4>2, <4>3
    <3> QED BY <3>1, <3>2
  <2> QED BY <2>1, <2>3, <2>5 DEF WrittenOnce
<1> QED BY <1>1, <1>4, <1>9 DEF TileInv

LEMMA FetchTile ==
  ASSUME IInv, TileInv, NEW i \in Item, Fetch(i)
  PROVE  TileInv'
<1> USE Constants
<1> DEFINE g == i[1]
<1>1. /\ pc[i] = "fetch" /\ pc' = [pc EXCEPT ![i] = "arrive"]
      /\ slm' = [slm EXCEPT ![g] = counter] /\ counter' = counter + 1
      /\ UNCHANGED <<rows, gid, expert, written>>
  BY DEF Fetch
<1>2. \A j \in Item : /\ pc'[j] = "done" <=> pc[j] = "done"
                      /\ Multiplying(j)' <=> Multiplying(j)
  BY <1>1 DEF IInv, Types, Multiplying
<1>3. \A j \in Item : /\ j[1] = g => Unread(j)' /\ ~Unread(j)
                      /\ j[1] # g => Unread(j)' = Unread(j)
  BY FetchUnread
<1>4. slm'[g] = counter /\ \A h \in Group : h # g => slm'[h] = slm[h]
  BY <1>1 DEF IInv, Types
<1>5. Located'
  BY <1>1, <1>2 DEF TileInv, Located, Holds
<1>6. Ahead'
  BY <1>1, <1>3, <1>4 DEF TileInv, Ahead, IInv, Given
<1>7. rows \in RowCounts /\ counter \in Nat /\ slm \in [Group -> Nat] /\ Groups \in Nat
  BY DEF TileInv, IInv, Types
<1>8. ASSUME NEW n \in Nat, NEW l \in Lane
      PROVE  Through(n, l)' <=> Through(n, l)
  <2>1. ASSUME NEW h \in Group
        PROVE  /\ Multiplying(<<h, l>>)' <=> Multiplying(<<h, l>>)
               /\ h # g => Unread(<<h, l>>)' = Unread(<<h, l>>)
               /\ Unread(<<g, l>>)' /\ ~Unread(<<g, l>>)
    <3>1. <<h, l>> \in Item /\ <<g, l>> \in Item /\ <<h, l>>[1] = h /\ <<g, l>>[1] = g
      OBVIOUS
    <3> QED BY <1>2, <1>3, <3>1
  <2>2. CASE n < Groups + counter
    <3>1. n < Groups + counter'
      BY <1>1, <1>7, <2>2
    <3>2. ASSUME NEW h \in Group
          PROVE  (Unread(<<h, l>>)' => Groups + slm'[h] # n)
                   <=> (Unread(<<h, l>>) => Groups + slm[h] # n)
      <4>1. CASE h = g
        BY <1>4, <1>7, <2>1, <2>2, <4>1
      <4>2. CASE h # g
        BY <1>4, <2>1, <4>2
      <4> QED BY <4>1, <4>2
    <3> QED BY <1>1, <2>1, <2>2, <3>1, <3>2 DEF Through
  <2>3. CASE n = Groups + counter
    <3>1. ~Through(n, l)
      BY <1>7, <2>3 DEF Through
    <3>2. ~Through(n, l)'
      BY <1>4, <2>1, <2>3 DEF Through
    <3> QED BY <3>1, <3>2
  <2>4. CASE n > Groups + counter
    <3>1. ~(n < Groups + counter) /\ ~(n < Groups + counter')
      BY <1>1, <1>7, <2>4
    <3> QED BY <3>1 DEF Through
  <2> QED BY <1>7, <2>2, <2>3, <2>4
<1>9. WrittenOnce'
  <2>1. \A x \in Tiles : Number(x) \in Nat
    BY <1>7, NumberFacts
  <2>2. \A x : Number(x)' = Number(x)
    BY <1>1 DEF Number
  <2>3. \A x \in Tiles : \A l \in Lane : Through(Number(x), l)' <=> Through(Number(x), l)
    BY <1>8, <2>1, <2>2
  <2> QED BY <1>1, <2>3, WrittenKept DEF TileInv
<1> QED BY <1>1, <1>5, <1>6, <1>9 DEF TileInv

LEMMA ReadTile ==
  ASSUME IInv, TileInv, NEW i \in Item, Read(i)
  PROVE  TileInv'
<1> USE Constants
<1> DEFINE g == i[1]
           n == Groups + slm[g]
           e == Scan(rows, n, expert[i])
<1>1. /\ pc[i] = "read"
      /\ gid' = [gid EXCEPT ![i] = n] /\ expert' = [expert EXCEPT ![i] = e]
      /\ pc' = [pc EXCEPT ![i] = IF e = NumExperts THEN "done" ELSE "k_arrive"]
      /\ UNCHANGED <<rows, counter, slm, written>>
  BY DEF Read, Take, AfterScan
<1>2. /\ Unread(i) /\ ~Unread(i)'
      /\ \A j \in Item : j # i => Unread(j)' = Unread(j)
  BY ReadUnread
<1>3. rows \in RowCounts /\ n \in Nat /\ gid[i] \in Nat /\ slm \in [Group -> Nat]
  BY DEF TileInv, IInv, Types
<1>4. gid[i] < n /\ Holds(rows, GroupMId(gid[i]), expert[i])
  BY <1>2 DEF TileInv, Ahead, Located
<1>5. Holds(rows, GroupMId(n), e)
  <2>1. expert[i] \in 0 .. NumExperts /\ PreTiles(rows)[expert[i]] <= GroupMId(gid[i])
    BY <1>4 DEF Holds
  <2>2. PreTiles(rows)[expert[i]] \in Nat
    BY <1>3, <2>1, PreTilesFacts
  <2>3. GroupMId(gid[i]) <= GroupMId(n) /\ GroupMId(gid[i]) \in Nat /\ GroupMId(n) \in Nat
    BY <1>3, <1>4, Columned, QuotientMonotone
  <2>4. PreTiles(rows)[expert[i]] <= GroupMId(n)
    BY <2>1, <2>2, <2>3
  <2> QED BY <1>3, <2>1, <2>4, ScanHolds
<1>6. gid'[i] = n /\ expert'[i] = e /\ pc'[i] = IF e = NumExperts THEN "done" ELSE "k_arrive"
  BY <1>1 DEF IInv, Types
<1>7. ASSUME NEW j \in Item, j # i
      PROVE  gid'[j] = gid[j] /\ expert'[j] = expert[j] /\ pc'[j] = pc[j]
  BY <1>1, <1>7 DEF IInv, Types
<1>8. Located'
  <2>1. ASSUME NEW j \in Item
        PROVE  /\ Holds(rows, GroupMId(gid'[j]), expert'[j])
               /\ pc'[j] = "done" <=> expert'[j] = NumExperts
    <3>1. CASE j = i
      BY <1>5, <1>6, <3>1
    <3>2. CASE j # i
      BY <1>7, <3>2 DEF TileInv, Located
    <3> QED BY <3>1, <3>2
  <2> QED BY <1>1, <2>1 DEF Located, Holds
<1>9. Ahead'
  BY <1>1, <1>2, <1>7 DEF TileInv, Ahead
<1>10. ASSUME NEW x \in Tiles, NEW l \in Lane
       PROVE  Through(Number(x), l)' <=> Through(Number(x), l)
  <2> DEFINE m == Number(x)
  <2>1. Number(x)' = m
    BY <1>1 DEF Number
  <2>2. e = NumExperts => m # n
    <3>1. Holds(rows, GroupMId(m), x[1]) /\ x[1] # NumExperts
      BY <1>3, NumberFacts, ExpertsAssumption
    <3>2. GroupMId(n) \in Nat
      BY <1>3, Columned
    <3> QED BY <1>3, <1>5, <3>1, <3>2, HoldsUnique
  <2>3. ASSUME NEW h \in Group
        PROVE  /\ Multiplying(<<h, l>>)' => gid'[<<h, l>>] # m
               /\ Unread(<<h, l>>)' => Groups + slm'[h] # m
               <=>
               /\ Multiplying(<<h, l>>) => gid[<<h, l>>] # m
               /\ Unread(<<h, l>>) => Groups + slm[h] # m
    <3>1. <<h, l>> \in Item
      OBVIOUS
    <3>2. CASE <<h, l>> = i
      <4>1. ~Multiplying(i) /\ (Multiplying(i)' <=> e # NumExperts)
        BY <1>1, <1>6 DEF Multiplying
      <4>2. h = g
        BY <3>2
      <4> QED BY <1>1, <1>2, <1>6, <2>2, <3>2, <4>1, <4>2
    <3>3. CASE <<h, l>> # i
      <4>1. Multiplying(<<h, l>>)' <=> Multiplying(<<h, l>>)
        BY <1>7, <3>1, <3>3 DEF Multiplying
      <4> QED BY <1>1, <1>2, <1>7, <3>1, <3>3, <4>1
    <3> QED BY <3>2, <3>3
  <2> QED BY <1>1, <2>1, <2>3 DEF Through
<1>11. WrittenOnce'
  BY <1>1, <1>10, WrittenKept DEF TileInv
<1> QED BY <1>1, <1>8, <1>9, <1>11 DEF TileInv

LEMMA NextTile == IInv /\ TileInv /\ [Next]_vars => TileInv'
<1> SUFFICES ASSUME IInv, TileInv, [Next]_vars PROVE TileInv'
  OBVIOUS
<1>1. CASE UNCHANGED vars
  <2>1. /\ UNCHANGED <<rows, counter, slm, gid, expert, pc, arrived, written>>
        /\ \A i \in Item : Behind(i)' = Behind(i)
    BY <1>1 DEF vars, Behind, Released
  <2>2. \A g \in Group : Fetched(g)' = Fetched(g)
    BY <1>1 DEF vars, Fetched, Behind, Released
  <2>3. \A i \in Item : Unread(i)' = Unread(i) /\ (Multiplying(i)' <=> Multiplying(i))
    BY <2>1, <2>2, Constants DEF Unread, Multiplying
  <2>4. Located' /\ Ahead'
    BY <2>1, <2>3, WhereKept
  <2>5. \A x : \A l \in Lane : Through(Number(x), l)' <=> Through(Number(x), l)
    BY <2>1, <2>3, ThroughKept
  <2>6. WrittenOnce'
    BY <2>1, <2>5, WrittenKept DEF TileInv
  <2> QED BY <2>1, <2>4, <2>6 DEF TileInv
<1>2. ASSUME NEW i \in Item, Step(i) PROVE TileInv'
  BY <1>2, ArriveTile, WaitTile, StoreTile, FetchTile, ReadTile DEF Step
<1> QED BY <1>1, <1>2 DEF Next

(* A work-item that has left the loop holds a number past the last tile's, *)
(* so the numbers of all tiles have been given out; nobody multiplies and  *)
(* nothing is left to read: work-items are through with every tile.        *)
LEMMA AllWritten == IInv /\ TileInv => Complete
<1> SUFFICES ASSUME IInv, TileInv, \A i \in Item : pc[i] = "done"
             PROVE  \A x \in AnyTile, l \in Lane : written[<<x, l>>] = IF x \in Tiles THEN 1 ELSE 0
  BY DEF Complete
<1> USE Constants
<1>1. ASSUME NEW x \in Tiles, NEW l \in Lane PROVE Through(Number(x), l)
  <2> DEFINE i == <<0, 0>>
             n == Number(x)
  <2>1. i \in Item /\ gid[i] \in Nat /\ gid[i] < Groups + counter /\ counter \in Nat
    <3>1. i \in Item
      BY GroupsAssumption DEF Group
    <3> HIDE DEF i
    <3> QED BY <3>1 DEF IInv, Types, Given
  <2>2. rows \in RowCounts /\ Holds(rows, GroupMId(gid[i]), NumExperts)
    BY <2>1 DEF TileInv, Located
  <2>3. /\ n \in Nat /\ Holds(rows, GroupMId(n), x[1]) /\ x[1] < NumExperts
        /\ GroupMId(n) \in Nat /\ GroupMId(gid[i]) \in Nat
    BY <2>1, <2>2, NumberFacts, Columned
  <2>4. GroupMId(n) < GroupMId(gid[i])
    <3>1. /\ x[1] + 1 \in 0 .. NumExperts /\ NumExperts \in x[1] + 1 .. NumExperts
      BY <2>3, ExpertsAssumption DEF Holds
    <3>2. /\ PreTiles(rows)[x[1] + 1] <= PreTiles(rows)[NumExperts]
          /\ PreTiles(rows)[x[1] + 1] \in Nat /\ PreTiles(rows)[NumExperts] \in Nat
      BY <2>2, <3>1, PreTilesFacts, ExpertsAssumption
    <3>3. GroupMId(n) < PreTiles(rows)[x[1] + 1] /\ PreTiles(rows)[NumExperts] <= GroupMId(gid[i])
      BY <2>2, <2>3 DEF Holds
    <3> QED BY <2>3, <3>2, <3>3
  <2>5. n < gid[i]
    <3> HIDE DEF n, i
    <3>1. ASSUME gid[i] <= n PROVE GroupMId(gid[i]) <= GroupMId(n)
      BY <2>1, <2>3, <3>1, Columned, QuotientMonotone
    <3> QED BY <2>1, <2>3, <2>4, <3>1
  <2>6. n < Groups + counter
    <3> HIDE DEF n, i
    <3> QED BY <2>1, <2>3, <2>5, GroupsAssumption
  <2>7. \A h \in Group : ~Multiplying(<<h, l>>) /\ ~Unread(<<h, l>>)
    BY DEF Multiplying, Unread, Fetched, Behind
  <2> QED BY <2>6, <2>7 DEF Through
<1> QED BY <1>1 DEF TileInv, WrittenOnce

(* When the kernel has ended, every part of every tile of every expert has *)
(* been written once and no other, for any rows per expert and any number  *)
(* of work-groups: no tile number is lost or taken twice, and each is made *)
(* the right tile of the right expert.                                     *)
THEOREM EveryTileOnce == Spec => []Complete
<1>1. Init => TileInv
  BY InitTile
<1>2. IInv /\ TileInv /\ [Next]_vars => TileInv'
  BY NextTile
<1>3. IInv /\ TileInv => Complete
  BY AllWritten
<1> QED
  BY <1>1, <1>2, <1>3, Invariance, PTL DEF Spec

-----------------------------------------------------------------------------
(* The caches of primitives.  The inductive invariant: every entry of a    *)
(* cache was built for a call of its thread and space, and its slots have  *)
(* that call's classes; keys are different; and the first slots of an      *)
(* entry whose attributes are set hold them.                               *)
AllCalls == UNION {s[t] : s \in Scenario, t \in Thread}
Spaces == {Space(c) : c \in UNION {calls[t] : t \in Thread}}
Operand == [class : STRING, handle : Thread \X AllCalls \X STRING]
CacheEntry ==
  [key : {Key(c) : c \in AllCalls}, primitive : {Built(c) : c \in AllCalls}, args : Seq(Operand)]

CachesTyped ==
  /\ calls \in Scenario
  /\ caches \in [Thread \X Spaces -> Seq(CacheEntry)]
  /\ active \in [Thread -> {None} \cup [step : {"got", "set"}, call : AllCalls]]
  /\ \A t \in Thread : active[t].step # "idle" => active[t].call \in calls[t]
  /\ DOMAIN submitted = Thread

ClassesFit(args, c) ==
  /\ Len(args) <= Len(Slots(c))
  /\ \A j \in 1 .. Len(args) : args[j].class = Slots(c)[j]
MadeFor(entry, c) == entry.key = Key(c) /\ entry.primitive = Built(c) /\ ClassesFit(entry.args, c)
KeysDiffer(list) == \A i, j \in 1 .. Len(list) : list[i].key = list[j].key => i = j
AllMade(list, own, space) ==
  \A i \in 1 .. Len(list) : \E c \in own : Space(c) = space /\ MadeFor(list[i], c)
EntriesKept ==
  \A t \in Thread, s \in Spaces : KeysDiffer(caches[<<t, s>>]) /\ AllMade(caches[<<t, s>>], calls[t], s)

FirstSlotsSet(t, c, list) ==
  \A i \in Hit(list, Key(c)) :
    /\ Len(list[i].args) >= Len(Attributes(c))
    /\ \A j \in 1 .. Len(Attributes(c)) : list[i].args[j].handle = Handle(t, c, Slots(c)[j])
AttributesSet ==
  \A t \in Thread :
    active[t].step = "set" => FirstSlotsSet(t, active[t].call, caches[CacheOf(t, active[t].call)])

CacheInv == CachesTyped /\ EntriesKept /\ AttributesSet /\ Served

-----------------------------------------------------------------------------
(* To move an entry to the front keeps all entries, and no key is twice.   *)
LEMMA FrontedKeeps ==
  ASSUME NEW list \in Seq(CacheEntry), NEW i \in 1 .. Len(list), KeysDiffer(list)
  PROVE  /\ Fronted(list, i) \in Seq(CacheEntry)
         /\ Len(Fronted(list, i)) = Len(list)
         /\ \A j \in 1 .. Len(list) : \E k \in 1 .. Len(list) : Fronted(list, i)[j] = list[k]
         /\ KeysDiffer(Fronted(list, i))
<1> DEFINE from(j) == IF j = 1 THEN i ELSE IF j <= i THEN j - 1 ELSE j
<1>1. /\ Len(list) \in Nat
      /\ i \in Nat
      /\ \A j \in 1 .. Len(list) : list[j] \in CacheEntry
  OBVIOUS
<1>2. \A j \in 1 .. Len(list) : from(j) \in 1 .. Len(list)
  BY <1>1
<1>3. \A j, k \in 1 .. Len(list) : from(j) = from(k) => j = k
  BY <1>1
<1>4. Fronted(list, i) = [j \in 1 .. Len(list) |-> list[from(j)]]
  BY <1>1, <1>2 DEF Fronted
<1> HIDE DEF from
<1>5. /\ Fronted(list, i) \in Seq(CacheEntry)
      /\ Len(Fronted(list, i)) = Len(list)
  BY <1>1, <1>2, <1>4
<1>6. \A j \in 1 .. Len(list) : Fronted(list, i)[j] = list[from(j)]
  BY <1>4
<1>7. ASSUME NEW j \in 1 .. Len(list), NEW k \in 1 .. Len(list),
             Fronted(list, i)[j].key = Fronted(list, i)[k].key
      PROVE  j = k
  <2>1. list[from(j)].key = list[from(k)].key
    BY <1>6, <1>7
  <2>2. from(j) = from(k)
    BY <2>1, <1>2 DEF KeysDiffer
  <2>3. QED
    BY <2>2, <1>3
<1>8. QED
  BY <1>2, <1>5, <1>6, <1>7 DEF KeysDiffer

(* An entry with a new key comes first; the others keep their order, and   *)
(* the last may go.                                                        *)
LEMMA InsertedKeeps ==
  ASSUME NEW list \in Seq(CacheEntry), NEW entry \in CacheEntry, KeysDiffer(list),
         Hit(list, entry.key) = {}, CacheAssumption
  PROVE  /\ Inserted(list, entry) \in Seq(CacheEntry)
         /\ \A j \in 1 .. Len(Inserted(list, entry)) :
              \/ Inserted(list, entry)[j] = entry
              \/ \E k \in 1 .. Len(list) : Inserted(list, entry)[j] = list[k]
         /\ KeysDiffer(Inserted(list, entry))
<1> DEFINE n == IF Len(list) < Capacity THEN Len(list) + 1 ELSE Capacity
           new == Inserted(list, entry)
<1>1. /\ Len(list) \in Nat
      /\ n \in 1 .. Len(list) + 1
      /\ \A j \in 1 .. Len(list) : list[j] \in CacheEntry
  BY DEF CacheAssumption
<1>2. new = [j \in 1 .. n |-> IF j = 1 THEN entry ELSE list[j - 1]]
  BY DEF Inserted
<1> HIDE DEF n, new
<1>3. \A j \in 1 .. n : j # 1 => j - 1 \in 1 .. Len(list)
  BY <1>1
<1>4. \A j \in 1 .. n : (IF j = 1 THEN entry ELSE list[j - 1]) \in CacheEntry
  BY <1>1, <1>3
<1>5. new \in Seq(CacheEntry) /\ Len(new) = n
  BY <1>1, <1>2, <1>4
<1>6. /\ new[1] = entry
      /\ \A j \in 1 .. n : j # 1 => new[j] = list[j - 1]
  BY <1>1, <1>2
<1>7. \A k \in 1 .. Len(list) : list[k].key # entry.key
  BY DEF Hit
<1>8. ASSUME NEW j \in 1 .. n, NEW k \in 1 .. n, new[j].key = new[k].key
      PROVE  j = k
  <2>1. CASE j = 1 /\ k # 1
    BY <2>1, <1>3, <1>6, <1>7, <1>8
  <2>2. CASE j # 1 /\ k = 1
    BY <2>2, <1>3, <1>6, <1>7, <1>8
  <2>3. CASE j # 1 /\ k # 1
    <3>1. list[j - 1].key = list[k - 1].key
      BY <2>3, <1>6, <1>8
    <3>2. j - 1 = k - 1
      BY <3>1, <2>3, <1>3 DEF KeysDiffer
    <3>3. QED
      BY <3>2, <1>1
  <2>4. QED
    BY <2>1, <2>2, <2>3
<1>9. KeysDiffer(new)
  BY <1>5, <1>8 DEF KeysDiffer
<1>10. \A j \in 1 .. n : new[j] = entry \/ \E k \in 1 .. Len(list) : new[j] = list[k]
  BY <1>3, <1>6
<1>11. QED
  BY <1>5, <1>9, <1>10 DEF new

-----------------------------------------------------------------------------
(* The cache a call uses exists, and what a hit finds was made for a call  *)
(* with the same operands: keys tell calls apart.                          *)
LEMMA Found ==
  ASSUME CacheAssumption, KeysTell, CachesTyped, EntriesKept,
         NEW t \in Thread, NEW c \in calls[t]
  PROVE  /\ c \in AllCalls
         /\ Space(c) \in Spaces
         /\ CacheOf(t, c) \in Thread \X Spaces
         /\ caches[CacheOf(t, c)] \in Seq(CacheEntry)
         /\ KeysDiffer(caches[CacheOf(t, c)])
         /\ AllMade(caches[CacheOf(t, c)], calls[t], Space(c))
         /\ \A i \in Hit(caches[CacheOf(t, c)], Key(c)) : MadeFor(caches[CacheOf(t, c)][i], c)
<1>1. calls \in Scenario /\ c \in AllCalls /\ Space(c) \in Spaces
  <2>1. calls \in Scenario
    BY DEF CachesTyped
  <2>2. c \in AllCalls
    BY <2>1 DEF AllCalls
  <2>3. c \in UNION {calls[u] : u \in Thread}
    OBVIOUS
  <2>4. QED
    BY <2>1, <2>2, <2>3 DEF Spaces
<1>2. CacheOf(t, c) = <<t, Space(c)>> /\ CacheOf(t, c) \in Thread \X Spaces
  BY <1>1 DEF CacheOf
<1>3. caches[CacheOf(t, c)] \in Seq(CacheEntry)
  BY <1>2 DEF CachesTyped
<1>4. /\ KeysDiffer(caches[CacheOf(t, c)])
      /\ AllMade(caches[CacheOf(t, c)], calls[t], Space(c))
  BY <1>1, <1>2 DEF EntriesKept
<1>5. ASSUME NEW i \in Hit(caches[CacheOf(t, c)], Key(c))
      PROVE  MadeFor(caches[CacheOf(t, c)][i], c)
  <2> DEFINE entry == caches[CacheOf(t, c)][i]
  <2>1. i \in 1 .. Len(caches[CacheOf(t, c)]) /\ entry.key = Key(c)
    BY DEF Hit
  <2>2. PICK d \in calls[t] : Space(d) = Space(c) /\ MadeFor(entry, d)
    BY <2>1, <1>4 DEF AllMade
  <2>3. Key(d) = Key(c)
    BY <2>1, <2>2 DEF MadeFor
  <2>4. Built(c) = Built(d) /\ Attributes(c) = Attributes(d) /\ Arguments(c) = Arguments(d)
    BY <2>2, <2>3, <1>1 DEF KeysTell
  <2>5. Slots(c) = Slots(d)
    BY <2>4 DEF Slots
  <2>6. QED
    BY <2>2, <2>3, <2>4, <2>5 DEF MadeFor, ClassesFit
<1>6. QED
  BY <1>1, <1>2, <1>3, <1>4, <1>5

(* The slots of a call are those of its attributes and then the others.    *)
LEMMA SlotsTyped ==
  ASSUME CacheAssumption, NEW s \in Scenario, NEW t \in Thread, NEW c \in s[t]
  PROVE  /\ Slots(c) \in Seq(STRING)
         /\ Len(Slots(c)) \in Nat
         /\ Len(Attributes(c)) \in 0 .. Len(Slots(c))
BY DEF CacheAssumption, Slots

(* Filling up the slots of an entry made for a call keeps it so.           *)
LEMMA FilledKeeps ==
  ASSUME CacheAssumption,
         NEW s \in Scenario, NEW t \in Thread, NEW c \in s[t],
         NEW args \in Seq(Operand), ClassesFit(args, c),
         NEW from \in Nat \ {0}, NEW to \in 0 .. Len(Slots(c)), from <= Len(args) + 1
  PROVE  /\ Filled(args, t, c, from, to) \in Seq(Operand)
         /\ Len(Filled(args, t, c, from, to)) = IF to < Len(args) THEN Len(args) ELSE to
         /\ ClassesFit(Filled(args, t, c, from, to), c)
         /\ \A j \in 1 .. Len(Filled(args, t, c, from, to)) :
              Filled(args, t, c, from, to)[j].handle =
                   IF j \in from .. to THEN Handle(t, c, Slots(c)[j]) ELSE args[j].handle
<1> DEFINE n == IF to < Len(args) THEN Len(args) ELSE to
           at(j) == [class |-> IF j <= Len(args) THEN args[j].class ELSE Slots(c)[j],
                     handle |-> IF j \in from .. to THEN Handle(t, c, Slots(c)[j]) ELSE args[j].handle]
           new == Filled(args, t, c, from, to)
<1>1. /\ Slots(c) \in Seq(STRING)
      /\ Len(Slots(c)) \in Nat
      /\ \A j \in 1 .. Len(Slots(c)) : Slots(c)[j] \in STRING
  BY SlotsTyped
<1>2. c \in AllCalls
  BY DEF AllCalls
<1>3. /\ Len(args) \in Nat /\ Len(args) <= Len(Slots(c))
      /\ \A j \in 1 .. Len(args) : args[j] \in Operand /\ args[j].class = Slots(c)[j]
  BY DEF ClassesFit
<1>4. n \in Nat /\ n <= Len(Slots(c)) /\ Len(args) <= n /\ to <= n
  BY <1>1, <1>3
<1>5. \A j \in 1 .. n : j \in 1 .. Len(Slots(c)) /\ (j > Len(args) => j \in from .. to)
  BY <1>1, <1>3, <1>4
<1>6. new = [j \in 1 .. n |-> at(j)]
  BY DEF Filled
<1>7. ASSUME NEW j \in 1 .. n
      PROVE  at(j) \in Operand /\ at(j).class = Slots(c)[j]
  <2>1. (IF j <= Len(args) THEN args[j].class ELSE Slots(c)[j]) = Slots(c)[j]
    BY <1>3, <1>5
  <2>2. Slots(c)[j] \in STRING
    BY <1>1, <1>5
  <2>3. Handle(t, c, Slots(c)[j]) \in Thread \X AllCalls \X STRING
    BY <2>2, <1>2 DEF Handle
  <2>4. j \notin from .. to => args[j].handle \in Thread \X AllCalls \X STRING
    BY <1>3, <1>5 DEF Operand
  <2>5. QED
    BY <2>1, <2>2, <2>3, <2>4 DEF Operand
<1> HIDE DEF n, at, new
<1>8. new \in Seq(Operand) /\ Len(new) = n
  BY <1>4, <1>6, <1>7
<1>9. \A j \in 1 .. n : new[j] = at(j)
  BY <1>6
<1>10. \A j \in 1 .. n :
         at(j).handle = IF j \in from .. to THEN Handle(t, c, Slots(c)[j]) ELSE args[j].handle
  BY DEF at
<1>11. ClassesFit(new, c)
  BY <1>4, <1>7, <1>8, <1>9 DEF ClassesFit
<1>12. QED
  BY <1>8, <1>9, <1>10, <1>11 DEF n, new

(* No cache has an entry at first, and nothing has been submitted.         *)
LEMMA CacheStarts ==
  ASSUME CacheInit
  PROVE  CacheInv
<1>1. CachesTyped
  <2>1. caches \in [Thread \X Spaces -> Seq(CacheEntry)]
    BY DEF CacheInit, Spaces
  <2>2. QED
    BY <2>1 DEF CacheInit, CachesTyped, None
<1>2. EntriesKept
  <2>1. ASSUME NEW t \in Thread, NEW s \in Spaces
        PROVE  KeysDiffer(caches[<<t, s>>]) /\ AllMade(caches[<<t, s>>], calls[t], s)
    <3>1. caches[<<t, s>>] = <<>>
      BY DEF CacheInit, Spaces
    <3>2. 1 .. Len(<<>>) = {}
      OBVIOUS
    <3>3. QED
      BY <3>1, <3>2 DEF KeysDiffer, AllMade
  <2>2. QED
    BY <2>1 DEF EntriesKept
<1>3. AttributesSet /\ Served
  BY DEF CacheInit, AttributesSet, Served, None
<1>4. QED
  BY <1>1, <1>2, <1>3 DEF CacheInv

(* A step changes one cache, and leaves a list of entries made for calls   *)
(* of its thread, with different keys.                                     *)
LEMMA EntriesStay ==
  ASSUME CachesTyped, EntriesKept, calls' = calls,
         NEW t \in Thread, NEW c \in calls[t], NEW list \in Seq(CacheEntry),
         caches' = [caches EXCEPT ![CacheOf(t, c)] = list],
         CacheOf(t, c) \in Thread \X Spaces,
         KeysDiffer(list), AllMade(list, calls[t], Space(c))
  PROVE  /\ (caches \in [Thread \X Spaces -> Seq(CacheEntry)])'
         /\ EntriesKept'
<1>1. Spaces' = Spaces
  BY DEF Spaces
<1>2. caches \in [Thread \X Spaces -> Seq(CacheEntry)]
  BY DEF CachesTyped
<1>3. caches' \in [Thread \X Spaces -> Seq(CacheEntry)]
  BY <1>2
<1>4. ASSUME NEW u \in Thread, NEW s \in Spaces
      PROVE  KeysDiffer(caches'[<<u, s>>]) /\ AllMade(caches'[<<u, s>>], calls[u], s)
  <2>1. CASE <<u, s>> = CacheOf(t, c)
    <3>1. u = t /\ s = Space(c)
      BY <2>1 DEF CacheOf
    <3>2. caches'[<<u, s>>] = list
      BY <2>1, <1>2
    <3>3. QED
      BY <3>1, <3>2
  <2>2. CASE <<u, s>> # CacheOf(t, c)
    <3>1. caches'[<<u, s>>] = caches[<<u, s>>]
      BY <2>2, <1>2
    <3>2. QED
      BY <3>1 DEF EntriesKept
  <2>3. QED
    BY <2>1, <2>2
<1>5. QED
  BY <1>1, <1>3, <1>4 DEF EntriesKept

(* Another thread's attributes stay in their slots.                        *)
LEMMA AttributesStay ==
  ASSUME CachesTyped, AttributesSet,
         NEW t \in Thread, NEW c \in calls[t], NEW list,
         caches' = [caches EXCEPT ![CacheOf(t, c)] = list],
         NEW u \in Thread \ {t}, active[u].step = "set"
  PROVE  FirstSlotsSet(u, active[u].call, caches'[CacheOf(u, active[u].call)])
<1>1. active[u].call \in calls[u]
  BY DEF CachesTyped
<1>2. CacheOf(u, active[u].call) # CacheOf(t, c)
  BY DEF CacheOf
<1>3. CacheOf(u, active[u].call) \in Thread \X Spaces
  BY <1>1 DEF CacheOf, Spaces
<1>4. caches'[CacheOf(u, active[u].call)] = caches[CacheOf(u, active[u].call)]
  BY <1>2, <1>3 DEF CachesTyped
<1>5. QED
  BY <1>4 DEF AttributesSet

(* A look-up moves the entry found to the front, or puts a new one there. *)
LEMMA GetKeeps ==
  ASSUME CacheAssumption, KeysTell, CacheInv, NEW t \in Thread, NEW c \in calls[t], Get(t, c)
  PROVE  CacheInv'
<1> DEFINE list == caches[CacheOf(t, c)]
           fresh == [key |-> Key(c), primitive |-> Built(c), args |-> <<>>]
<1>1. CachesTyped /\ EntriesKept /\ AttributesSet /\ Served
  BY DEF CacheInv
<1>2. /\ c \in AllCalls
      /\ CacheOf(t, c) \in Thread \X Spaces
      /\ list \in Seq(CacheEntry)
      /\ KeysDiffer(list)
      /\ AllMade(list, calls[t], Space(c))
  BY <1>1, Found
<1>3. PICK new \in Seq(CacheEntry) :
        /\ caches' = [caches EXCEPT ![CacheOf(t, c)] = new]
        /\ KeysDiffer(new)
        /\ AllMade(new, calls[t], Space(c))
  <2>1. CASE Hit(list, Key(c)) # {}
    <3>1. PICK i \in Hit(list, Key(c)) : caches' = [caches EXCEPT ![CacheOf(t, c)] = Fronted(list, i)]
      BY <2>1 DEF Get
    <3>2. i \in 1 .. Len(list)
      BY DEF Hit
    <3>3. /\ Fronted(list, i) \in Seq(CacheEntry)
          /\ Len(Fronted(list, i)) = Len(list)
          /\ \A j \in 1 .. Len(list) : \E k \in 1 .. Len(list) : Fronted(list, i)[j] = list[k]
          /\ KeysDiffer(Fronted(list, i))
      BY <1>2, <3>2, FrontedKeeps
    <3>4. AllMade(Fronted(list, i), calls[t], Space(c))
      BY <1>2, <3>3 DEF AllMade
    <3>5. QED
      BY <3>1, <3>3, <3>4
  <2>2. CASE Hit(list, Key(c)) = {}
    <3>1. caches' = [caches EXCEPT ![CacheOf(t, c)] = Inserted(list, fresh)]
      BY <2>2 DEF Get
    <3>2. fresh \in CacheEntry
      BY <1>2 DEF CacheEntry
    <3>3. /\ Inserted(list, fresh) \in Seq(CacheEntry)
          /\ \A j \in 1 .. Len(Inserted(list, fresh)) :
               \/ Inserted(list, fresh)[j] = fresh
               \/ \E k \in 1 .. Len(list) : Inserted(list, fresh)[j] = list[k]
          /\ KeysDiffer(Inserted(list, fresh))
      BY <1>2, <2>2, <3>2, InsertedKeeps
    <3>4. MadeFor(fresh, c)
      <4>1. Len(Slots(c)) \in Nat
        BY <1>1, SlotsTyped DEF CachesTyped
      <4>2. Len(fresh.args) = 0
        OBVIOUS
      <4>3. QED
        BY <4>1, <4>2 DEF MadeFor, ClassesFit
    <3> HIDE DEF fresh
    <3>5. AllMade(Inserted(list, fresh), calls[t], Space(c))
      BY <1>2, <3>3, <3>4 DEF AllMade
    <3>6. QED
      BY <3>1, <3>3, <3>5
  <2>3. QED
    BY <2>1, <2>2
<1>4. calls' = calls
  BY DEF Get
<1>5. /\ (caches \in [Thread \X Spaces -> Seq(CacheEntry)])'
      /\ EntriesKept'
  BY <1>1, <1>2, <1>3, <1>4, EntriesStay
<1>6. CachesTyped'
  <2>1. active' = [active EXCEPT ![t] = [step |-> "got", call |-> c]] /\ submitted' = [submitted EXCEPT ![t] = None]
    BY DEF Get
  <2>2. QED
    BY <1>1, <1>2, <1>4, <1>5, <2>1 DEF CachesTyped
<1>7. AttributesSet'
  <2>1. SUFFICES ASSUME NEW u \in Thread, active'[u].step = "set"
                 PROVE  FirstSlotsSet(u, active'[u].call, caches'[CacheOf(u, active'[u].call)])
    BY DEF AttributesSet
  <2>2. active' = [active EXCEPT ![t] = [step |-> "got", call |-> c]]
    BY DEF Get
  <2>3. u \in Thread \ {t} /\ active'[u] = active[u]
    BY <2>1, <2>2, <1>1 DEF CachesTyped
  <2>4. FirstSlotsSet(u, active[u].call, caches'[CacheOf(u, active[u].call)])
    BY <2>1, <2>3, <1>1, <1>3, AttributesStay
  <2>5. QED
    BY <2>3, <2>4
<1>8. Served'
  <2>1. submitted' = [submitted EXCEPT ![t] = None]
    BY DEF Get
  <2>2. QED
    BY <2>1, <1>1 DEF Served, CachesTyped
<1>9. QED
  BY <1>5, <1>6, <1>7, <1>8 DEF CacheInv

(* An entry of a cache with some of its slots filled up.                   *)
LEMMA UpdateKeeps ==
  ASSUME CacheAssumption, KeysTell, CachesTyped, EntriesKept,
         NEW t \in Thread, NEW c \in calls[t],
         NEW i \in Hit(caches[CacheOf(t, c)], Key(c)),
         NEW from \in Nat \ {0}, NEW to \in 0 .. Len(Slots(c)),
         from <= Len(caches[CacheOf(t, c)][i].args) + 1,
         Update(t, c, i, from, to), calls' = calls
  PROVE  /\ (caches \in [Thread \X Spaces -> Seq(CacheEntry)])'
         /\ EntriesKept'
         /\ Hit(caches'[CacheOf(t, c)], Key(c)) = {i}
         /\ caches'[CacheOf(t, c)][i].args
              = Filled(caches[CacheOf(t, c)][i].args, t, c, from, to)
         /\ \E new \in Seq(CacheEntry) : caches' = [caches EXCEPT ![CacheOf(t, c)] = new]
<1> DEFINE p == CacheOf(t, c)
           list == caches[p]
           filled == Filled(list[i].args, t, c, from, to)
           new == [list EXCEPT ![i].args = filled]
<1>1. /\ c \in AllCalls
      /\ p \in Thread \X Spaces
      /\ list \in Seq(CacheEntry)
      /\ KeysDiffer(list)
      /\ AllMade(list, calls[t], Space(c))
      /\ MadeFor(list[i], c)
  BY Found
<1>2. i \in 1 .. Len(list) /\ list[i].key = Key(c) /\ list[i] \in CacheEntry
  BY <1>1 DEF Hit
<1>3. calls \in Scenario /\ caches \in [Thread \X Spaces -> Seq(CacheEntry)]
  BY DEF CachesTyped
<1>4. list[i].args \in Seq(Operand) /\ ClassesFit(list[i].args, c)
  BY <1>1, <1>2 DEF MadeFor, CacheEntry
<1>5. filled \in Seq(Operand) /\ ClassesFit(filled, c)
  BY <1>3, <1>4, FilledKeeps
<1>6. caches' = [caches EXCEPT ![p] = new]
  BY DEF Update
<1> HIDE DEF filled
<1>7. [list[i] EXCEPT !.args = filled] \in CacheEntry
  BY <1>2, <1>5 DEF CacheEntry
<1>8. /\ new \in Seq(CacheEntry)
      /\ Len(new) = Len(list)
      /\ new[i] = [list[i] EXCEPT !.args = filled]
      /\ \A j \in 1 .. Len(list) : j # i => new[j] = list[j]
  BY <1>1, <1>2, <1>7
<1> HIDE DEF new
<1>9. /\ new[i].args = filled
       /\ new[i].key = Key(c)
       /\ new[i].primitive = list[i].primitive
       /\ \A j \in 1 .. Len(list) : new[j].key = list[j].key
  BY <1>2, <1>8 DEF CacheEntry
<1>10. KeysDiffer(new)
  BY <1>1, <1>8, <1>9 DEF KeysDiffer
<1>11. MadeFor(new[i], c)
  BY <1>1, <1>5, <1>9 DEF MadeFor
<1>12. AllMade(new, calls[t], Space(c))
  BY <1>1, <1>2, <1>8, <1>11 DEF AllMade
<1>13. caches'[p] = new
  BY <1>1, <1>3, <1>6
<1>14. Hit(new, Key(c)) = {i}
  BY <1>1, <1>2, <1>8, <1>9 DEF Hit, KeysDiffer
<1>15. (caches \in [Thread \X Spaces -> Seq(CacheEntry)])' /\ EntriesKept'
  BY <1>1, <1>6, <1>8, <1>10, <1>12, EntriesStay
<1>16. QED
  BY <1>6, <1>8, <1>9, <1>13, <1>14, <1>15 DEF filled

(* The first slots of the entry take the thread's own attributes, and what *)
(* others do between this step and the next leaves them there.             *)
LEMMA SetAttributesKeeps ==
  ASSUME CacheAssumption, KeysTell, CacheInv, NEW t \in Thread, SetAttributes(t)
  PROVE  CacheInv'
<1> DEFINE c == active[t].call
<1>1. CachesTyped /\ EntriesKept /\ AttributesSet /\ Served
  BY DEF CacheInv
<1>2. active[t].step = "got" /\ c \in calls[t] /\ calls' = calls
  BY <1>1 DEF SetAttributes, CachesTyped
<1> DEFINE n == Len(Attributes(c))
<1>3. PICK i \in Hit(caches[CacheOf(t, c)], Key(c)) : Update(t, c, i, 1, n)
  BY DEF SetAttributes
<1> HIDE DEF c
<1>4. Len(Slots(c)) \in Nat /\ n \in 0 .. Len(Slots(c))
  BY <1>1, <1>2, SlotsTyped DEF CachesTyped
<1> DEFINE args == caches[CacheOf(t, c)][i].args
<1>5. /\ c \in AllCalls
      /\ caches[CacheOf(t, c)] \in Seq(CacheEntry)
      /\ args \in Seq(Operand) /\ ClassesFit(args, c)
  <2>1. /\ c \in AllCalls
        /\ caches[CacheOf(t, c)] \in Seq(CacheEntry)
        /\ MadeFor(caches[CacheOf(t, c)][i], c)
    BY <1>1, <1>2, Found
  <2>2. caches[CacheOf(t, c)][i] \in CacheEntry
    BY <2>1 DEF Hit
  <2>3. QED
    BY <2>1, <2>2 DEF MadeFor, CacheEntry
<1>6. 1 <= Len(args) + 1 /\ 1 \in Nat \ {0}
  BY <1>5
<1>7. /\ (caches \in [Thread \X Spaces -> Seq(CacheEntry)])'
      /\ EntriesKept'
      /\ Hit(caches'[CacheOf(t, c)], Key(c)) = {i}
      /\ caches'[CacheOf(t, c)][i].args = Filled(args, t, c, 1, n)
      /\ \E new \in Seq(CacheEntry) : caches' = [caches EXCEPT ![CacheOf(t, c)] = new]
  BY <1>1, <1>2, <1>3, <1>4, <1>6, UpdateKeeps
<1>8. active' = [active EXCEPT ![t].step = "set"] /\ submitted' = submitted
  BY DEF SetAttributes
<1>9. active[t] \in [step : {"got", "set"}, call : AllCalls]
  BY <1>1, <1>2 DEF CachesTyped, None
<1>10. active'[t] = [step |-> "set", call |-> c]
  BY <1>8, <1>9, <1>1 DEF CachesTyped, c
<1>11. CachesTyped'
  <2>1. active' \in [Thread -> {None} \cup [step : {"got", "set"}, call : AllCalls]]
    BY <1>1, <1>5, <1>8, <1>10 DEF CachesTyped
  <2>2. ASSUME NEW u \in Thread, active'[u].step # "idle"
        PROVE  active'[u].call \in calls[u]
    <3>1. CASE u = t
      BY <3>1, <1>2, <1>10
    <3>2. CASE u # t
      BY <3>2, <2>2, <1>1, <1>8 DEF CachesTyped
    <3>3. QED
      BY <3>1, <3>2
  <2>3. QED
    BY <2>1, <2>2, <1>1, <1>2, <1>7, <1>8 DEF CachesTyped
<1>12. FirstSlotsSet(t, c, caches'[CacheOf(t, c)])
  <2>1. /\ Len(Filled(args, t, c, 1, n)) = IF n < Len(args) THEN Len(args) ELSE n
        /\ \A j \in 1 .. Len(Filled(args, t, c, 1, n)) :
             Filled(args, t, c, 1, n)[j].handle =
               IF j \in 1 .. n THEN Handle(t, c, Slots(c)[j]) ELSE args[j].handle
    BY <1>1, <1>2, <1>4, <1>5, <1>6, FilledKeeps DEF CachesTyped
  <2>2. Len(args) \in Nat
    BY <1>5
  <2> HIDE DEF args
  <2>3. /\ Len(Filled(args, t, c, 1, n)) >= n
        /\ \A j \in 1 .. n : Filled(args, t, c, 1, n)[j].handle = Handle(t, c, Slots(c)[j])
    BY <2>1, <2>2, <1>4
  <2>4. QED
    BY <2>3, <1>7 DEF FirstSlotsSet
<1>13. AttributesSet'
  <2>1. SUFFICES ASSUME NEW u \in Thread, active'[u].step = "set"
                 PROVE  FirstSlotsSet(u, active'[u].call, caches'[CacheOf(u, active'[u].call)])
    BY DEF AttributesSet
  <2>2. CASE u = t
    BY <2>2, <1>10, <1>12
  <2>3. CASE u # t
    <3>1. u \in Thread \ {t} /\ active'[u] = active[u]
      BY <2>3, <1>8
    <3>2. FirstSlotsSet(u, active[u].call, caches'[CacheOf(u, active[u].call)])
      BY <3>1, <2>1, <1>1, <1>2, <1>7, AttributesStay
    <3>3. QED
      BY <3>1, <3>2
  <2>4. QED
    BY <2>2, <2>3
<1>14. Served'
  BY <1>1, <1>8 DEF Served
<1>15. QED
  BY <1>7, <1>11, <1>13, <1>14 DEF CacheInv

(* The other slots follow, and what is submitted are the thread's own      *)
(* operands in all of them.                                                *)
LEMMA ExecuteKeeps ==
  ASSUME CacheAssumption, KeysTell, CacheInv, NEW t \in Thread, Execute(t)
  PROVE  CacheInv'
<1> DEFINE c == active[t].call
<1>1. CachesTyped /\ EntriesKept /\ AttributesSet /\ Served
  BY DEF CacheInv
<1>2. active[t].step = "set" /\ c \in calls[t] /\ calls' = calls
  BY <1>1 DEF Execute, CachesTyped
<1> DEFINE first == Len(Attributes(c)) + 1
           n == Len(Slots(c))
           list == caches[CacheOf(t, c)]
<1>3. PICK i \in Hit(list, Key(c)) :
        /\ Update(t, c, i, first, n)
        /\ submitted' = [submitted EXCEPT ![t] =
             [step |-> "done", call |-> c, primitive |-> list[i].primitive,
              args |-> [j \in 1 .. n |-> Filled(list[i].args, t, c, first, n)[j]]]]
  BY DEF Execute
<1>4. FirstSlotsSet(t, c, list)
  BY <1>1, <1>2 DEF AttributesSet
<1>5. active' = [active EXCEPT ![t] = None]
  BY DEF Execute
<1> HIDE DEF c
<1>6. n \in Nat /\ Len(Attributes(c)) \in 0 .. n
  BY <1>1, <1>2, SlotsTyped DEF CachesTyped
<1> DEFINE args == list[i].args
<1>7. /\ c \in AllCalls
      /\ args \in Seq(Operand) /\ ClassesFit(args, c)
      /\ list[i].primitive = Built(c)
  <2>1. /\ c \in AllCalls
        /\ list \in Seq(CacheEntry)
        /\ MadeFor(list[i], c)
    BY <1>1, <1>2, Found
  <2>2. list[i] \in CacheEntry
    BY <2>1 DEF Hit
  <2>3. QED
    BY <2>1, <2>2 DEF MadeFor, CacheEntry
<1>8. /\ Len(args) >= Len(Attributes(c))
      /\ \A j \in 1 .. Len(Attributes(c)) : args[j].handle = Handle(t, c, Slots(c)[j])
  BY <1>4 DEF FirstSlotsSet
<1>9. /\ Len(args) \in Nat /\ Len(args) <= n
      /\ first \in Nat \ {0} /\ first <= Len(args) + 1 /\ n \in 0 .. n
  BY <1>6, <1>7, <1>8 DEF ClassesFit
<1>10. /\ (caches \in [Thread \X Spaces -> Seq(CacheEntry)])'
       /\ EntriesKept'
       /\ \E new \in Seq(CacheEntry) : caches' = [caches EXCEPT ![CacheOf(t, c)] = new]
  BY <1>1, <1>2, <1>3, <1>9, UpdateKeeps
<1>11. CachesTyped'
  BY <1>1, <1>2, <1>3, <1>5, <1>10 DEF CachesTyped, None
<1>12. AttributesSet'
  <2>1. SUFFICES ASSUME NEW u \in Thread, active'[u].step = "set"
                 PROVE  FirstSlotsSet(u, active'[u].call, caches'[CacheOf(u, active'[u].call)])
    BY DEF AttributesSet
  <2>2. u \in Thread \ {t} /\ active'[u] = active[u]
    BY <2>1, <1>1, <1>5 DEF CachesTyped, None
  <2>3. FirstSlotsSet(u, active[u].call, caches'[CacheOf(u, active[u].call)])
    BY <2>1, <2>2, <1>1, <1>2, <1>10, AttributesStay
  <2>4. QED
    BY <2>2, <2>3
<1>13. [j \in 1 .. n |-> Filled(args, t, c, first, n)[j]]
         = [j \in 1 .. n |-> [class |-> Slots(c)[j], handle |-> Handle(t, c, Slots(c)[j])]]
  <2> DEFINE filled == Filled(args, t, c, first, n)
  <2>1. /\ filled \in Seq(Operand)
        /\ Len(filled) = IF n < Len(args) THEN Len(args) ELSE n
        /\ ClassesFit(filled, c)
        /\ \A j \in 1 .. Len(filled) :
             filled[j].handle = IF j \in first .. n THEN Handle(t, c, Slots(c)[j]) ELSE args[j].handle
    <3>1. calls \in Scenario
      BY <1>1 DEF CachesTyped
    <3> HIDE DEF args, n, first, list
    <3>2. QED
      BY <3>1, <1>2, <1>7, <1>9, FilledKeeps DEF n
  <2> HIDE DEF filled, args
  <2>2. Len(filled) = n
    BY <2>1, <1>9
  <2>3. ASSUME NEW j \in 1 .. n
        PROVE  filled[j] = [class |-> Slots(c)[j], handle |-> Handle(t, c, Slots(c)[j])]
    <3>1. filled[j] \in Operand /\ filled[j].class = Slots(c)[j]
      BY <2>1, <2>2 DEF ClassesFit
    <3>2. j \in 1 .. Len(Attributes(c)) \/ j \in first .. n
      BY <1>6
    <3>3. filled[j].handle = Handle(t, c, Slots(c)[j])
      BY <3>2, <2>1, <2>2, <1>8
    <3>4. QED
      BY <3>1, <3>3 DEF Operand
  <2>4. QED
    BY <2>3 DEF filled
<1>14. Served'
  <2>1. SUFFICES ASSUME NEW u \in Thread, submitted'[u] # None
                 PROVE  /\ submitted'[u].primitive = Built(submitted'[u].call)
                        /\ submitted'[u].args =
                             [j \in 1 .. Len(Slots(submitted'[u].call)) |->
                                [class |-> Slots(submitted'[u].call)[j],
                                 handle |-> Handle(u, submitted'[u].call, Slots(submitted'[u].call)[j])]]
    BY DEF Served
  <2>2. CASE u = t
    <3>1. submitted'[u] = [step |-> "done", call |-> c, primitive |-> list[i].primitive,
                           args |-> [j \in 1 .. n |-> Filled(args, t, c, first, n)[j]]]
      BY <2>2, <1>1, <1>3 DEF CachesTyped
    <3>2. QED
      BY <3>1, <2>2, <1>7, <1>13
  <2>3. CASE u # t
    BY <2>1, <2>3, <1>1, <1>3 DEF Served
  <2>4. QED
    BY <2>2, <2>3
<1>15. QED
  BY <1>10, <1>11, <1>12, <1>14 DEF CacheInv

(* Whatever the threads call, in whatever order they interrupt each other, *)
(* and however small the caches: a thread submits the primitive built for  *)
(* its call with its own operands, if its keys tell its calls apart.       *)
THEOREM CacheServes ==
  ASSUME CacheAssumption, KeysTell
  PROVE  CacheSpec => []Served
<1>1. CacheInit => CacheInv
  BY CacheStarts
<1>2. CacheInv /\ [CacheNext]_cacheVars => CacheInv'
  <2>1. SUFFICES ASSUME CacheInv, [CacheNext]_cacheVars
                 PROVE  CacheInv'
    OBVIOUS
  <2>2. CASE UNCHANGED cacheVars
    <3>1. calls' = calls /\ caches' = caches /\ active' = active /\ submitted' = submitted
      BY <2>2 DEF cacheVars
    <3>2. CachesTyped'
      BY <2>1, <3>1 DEF CacheInv, CachesTyped, Spaces
    <3>3. EntriesKept'
      BY <2>1, <3>1 DEF CacheInv, EntriesKept, Spaces
    <3>4. AttributesSet' /\ Served'
      BY <2>1, <3>1 DEF CacheInv, AttributesSet, Served
    <3>5. QED
      BY <3>2, <3>3, <3>4 DEF CacheInv
  <2>3. CASE CacheNext
    BY <2>1, <2>3, GetKeeps, SetAttributesKeeps, ExecuteKeeps DEF CacheNext
  <2>4. QED
    BY <2>1, <2>2, <2>3
<1>3. CacheInv => Served
  BY DEF CacheInv
<1>4. QED
  BY <1>1, <1>2, <1>3, PTL DEF CacheSpec
=============================================================================
