---------------------------- MODULE GroupedGemm ----------------------------
(***************************************************************************)
(* The persistent tile scheduler of the XE2 grouped GEMM                   *)
(* (csrc/xpu/grouped_gemm/xe_2/grouped_gemm_xe2.hpp, MoEGEMM).             *)
(*                                                                         *)
(* The launch starts a fixed number of work-groups.  Each begins with the  *)
(* tile of its own number and then takes tile numbers from atomic_buffer:  *)
(* work-item 0 adds one and leaves the result in slm_mem, a barrier        *)
(* follows, and every work-item reads it.  Nothing but the barriers inside *)
(* xe_gemm keeps work-item 0 from storing the next number before a slow    *)
(* work-item has read this one.  A tile number stands for an expert, a     *)
(* block of its rows and a block of columns, found by scanning             *)
(* rows_per_expert from where the last scan stopped.                       *)
(***************************************************************************)
EXTENDS Integers

CONSTANTS
  Groups,       (* number of work-groups launched: sm_count * 512 / size   *)
  Lanes,        (* number of work-items of a work-group                    *)
  NumExperts,   (* num_experts                                             *)
  MaxRows,      (* bound of the values rows_per_expert can hold            *)
  WgTileM, WgTileN,   (* wg_tile                                           *)
  GemmN,        (* gemm_n                                                  *)
  KTiles,       (* k_tile_count: K blocks of a tile                        *)
  Garbage       (* what local memory holds before it is written            *)

Group == 0 .. Groups - 1
Lane == 0 .. Lanes - 1
Item == Group \X Lane
Expert == 0 .. NumExperts - 1

(* cutlass_grouped_gemm_xe2_impl takes K from the shapes it has checked    *)
(* against each other; it never rejects an empty one, and the scheduler    *)
(* needs the barrier of at least one K block.                              *)
ASSUME GroupsAssumption == Groups \in Nat \ {0}
ASSUME LanesAssumption == Lanes \in Nat \ {0}
ASSUME ExpertsAssumption == NumExperts \in Nat \ {0}
ASSUME RowsAssumption == MaxRows \in Nat
ASSUME TileAssumption ==
  WgTileM \in Nat \ {0} /\ WgTileN \in Nat \ {0} /\ GemmN \in Nat \ {0}
ASSUME KAssumption == KTiles \in Nat \ {0}
ASSUME GarbageAssumption == Garbage \in Nat

VARIABLES
  rows,      (* rows_per_expert                                            *)
  counter,   (* atomic_buffer[0]                                           *)
  slm,       (* slm_mem[0] of each work-group                              *)
  gid,       (* group_id of each work-item                                 *)
  expert,    (* its position in the scan of the experts                    *)
  kTile,     (* K blocks it has finished of its tile                       *)
  arrived,   (* work-items of each work-group blocked at its barrier       *)
  pc,        (* where it is                                                *)
  written    (* history: how often each part of the output was written     *)

vars == <<rows, counter, slm, gid, expert, kTile, arrived, pc, written>>

-----------------------------------------------------------------------------
CeilDiv(a, b) == (a + b - 1) \div b

GemmNPad == CeilDiv(GemmN, WgTileN) * WgTileN

GroupMId(g) == (g * WgTileN) \div GemmNPad

NCoord(g) == ((g * WgTileN) % GemmNPad) \div WgTileN

(* cumsum_tiles_for_experts before the scan reaches each expert *)
PreTiles(r) ==
  LET pre[e \in Nat] == IF e = 0 THEN 0 ELSE pre[e - 1] + CeilDiv(r[e - 1], WgTileM)
  IN pre

(* The for loop over experts: the first one from here on whose tiles reach *)
(* beyond the tile number, or the end of the loop.                         *)
Scan(r, g, from) ==
  CHOOSE e \in from .. NumExperts :
    /\ \A d \in from .. e - 1 : GroupMId(g) >= PreTiles(r)[d + 1]
    /\ e < NumExperts => GroupMId(g) < PreTiles(r)[e + 1]

Blocks(r) == 0 .. CeilDiv(r, WgTileM) - 1
Columns == 0 .. CeilDiv(GemmN, WgTileN) - 1

(* The tiles the launch has to compute, among all those it could have to. *)
AnyTile == Expert \X Blocks(MaxRows) \X Columns
Tiles == {x \in AnyTile : x[2] \in Blocks(rows[x[1]])}

(* tile_coord of a work-item: expert, row block, column block *)
TileOf(i) == <<expert[i], GroupMId(gid[i]) - PreTiles(rows)[expert[i]], NCoord(gid[i])>>

AfterScan(e) == IF e = NumExperts THEN "done" ELSE "k_arrive"

(* Mutant of Launch: atomic_buffer is not zeroed. *)
LaunchDirty == counter = 1

(* at::zeros in cutlass_grouped_gemm_xe2_impl *)
Launch == counter = 0

Init ==
  /\ rows \in [Expert -> 0 .. MaxRows]
  /\ Launch
  /\ slm = [g \in Group |-> Garbage]
  /\ gid = [i \in Item |-> i[1]]
  /\ expert = [i \in Item |-> Scan(rows, i[1], 0)]
  /\ kTile = [i \in Item |-> 0]
  /\ arrived = [g \in Group |-> {}]
  /\ pc = [i \in Item |-> AfterScan(expert[i])]
  /\ written = [x \in AnyTile \X Lane |-> 0]

-----------------------------------------------------------------------------
(* A work-group barrier, split or not: a work-item arrives and is blocked  *)
(* until the last one of its group has arrived too.                        *)
Arrive(i, from, to) ==
  /\ pc[i] = from
  /\ arrived' = [arrived EXCEPT ![i[1]] = IF @ \cup {i[2]} = Lane THEN {} ELSE @ \cup {i[2]}]
  /\ pc' = [pc EXCEPT ![i] = to]
  /\ UNCHANGED <<rows, counter, slm, gid, expert, kTile, written>>

Released(i) == i[2] \notin arrived[i[1]]

(* the end of an iteration of the K loop *)
NextBlock(i) ==
  /\ kTile' = [kTile EXCEPT ![i] = @ + 1]
  /\ pc' = [pc EXCEPT ![i] = IF kTile[i] + 1 < KTiles THEN "k_arrive" ELSE "store"]
  /\ UNCHANGED <<rows, counter, slm, gid, expert, arrived, written>>

(* Mutant of KWait: the K loop without its barrier. *)
KWaitNot(i) == pc[i] = "k_wait" /\ NextBlock(i)

(* barrier_wait at the end of a K block *)
KWait(i) == pc[i] = "k_wait" /\ Released(i) /\ NextBlock(i)

(* copy(copy_c, ...): the work-item writes its part of the tile *)
Store(i) ==
  /\ pc[i] = "store"
  /\ written' = [written EXCEPT ![<<TileOf(i), i[2]>>] = @ + 1]
  /\ pc' = [pc EXCEPT ![i] = IF i[2] = 0 THEN "fetch" ELSE "arrive"]
  /\ UNCHANGED <<rows, counter, slm, gid, expert, kTile, arrived>>

(* Mutant of Fetch: work-item 0 leaves out the group_barrier. *)
FetchNoBarrier(i) ==
  /\ pc[i] = "fetch"
  /\ slm' = [slm EXCEPT ![i[1]] = counter]
  /\ counter' = counter + 1
  /\ pc' = [pc EXCEPT ![i] = "read"]
  /\ UNCHANGED <<rows, gid, expert, kTile, arrived, written>>

(* slm_mem[0] = atomicAdd(atomic_buffer, 1), by work-item 0 *)
Fetch(i) ==
  /\ pc[i] = "fetch"
  /\ slm' = [slm EXCEPT ![i[1]] = counter]
  /\ counter' = counter + 1
  /\ pc' = [pc EXCEPT ![i] = "arrive"]
  /\ UNCHANGED <<rows, gid, expert, kTile, arrived, written>>

(* the end of group_barrier *)
Wait(i) ==
  /\ pc[i] = "wait"
  /\ Released(i)
  /\ pc' = [pc EXCEPT ![i] = "read"]
  /\ UNCHANGED <<rows, counter, slm, gid, expert, kTile, arrived, written>>

Take(i, g) ==
  /\ gid' = [gid EXCEPT ![i] = g]
  /\ expert' = [expert EXCEPT ![i] = Scan(rows, g, expert[i])]
  /\ pc' = [pc EXCEPT ![i] = AfterScan(Scan(rows, g, expert[i]))]
  /\ kTile' = [kTile EXCEPT ![i] = 0]
  /\ UNCHANGED <<rows, counter, slm, arrived, written>>

(* Mutant of Read: forgets the tiles of the first round. *)
ReadNoRange(i) == pc[i] = "read" /\ Take(i, slm[i[1]])

(* group_id = group_range + slm_mem[0], and on to its expert *)
Read(i) == pc[i] = "read" /\ Take(i, Groups + slm[i[1]])

Step(i) ==
  \/ Arrive(i, "k_arrive", "k_wait") \/ KWait(i) \/ Store(i)
  \/ Fetch(i) \/ Arrive(i, "arrive", "wait") \/ Wait(i) \/ Read(i)

Next == \E i \in Item : Step(i)

Spec == Init /\ [][Next]_vars

(* A work-group that has started runs to its end, and every work-group is  *)
(* started some time; nothing is assumed of the order.                     *)
FairSpec == Spec /\ \A i \in Item : WF_vars(Step(i))

-----------------------------------------------------------------------------
PCs == {"k_arrive", "k_wait", "store", "fetch", "arrive", "wait", "read", "done"}

(* A work-item that the barrier after the fetch has released and that has  *)
(* not read slm_mem yet.                                                   *)
Behind(i) == pc[i] = "read" \/ (pc[i] = "wait" /\ Released(i))

(* The work-items of a group are on the same tile, but for those that have *)
(* still to read its number: what the others have read is still there for  *)
(* them.  So none reads slm_mem before work-item 0 has stored into it or   *)
(* after it has stored the number of the next round; otherwise they would  *)
(* meet at the barriers of different tiles, or leave the loop apart.       *)
SameTile ==
  \A i, j \in Item : i[1] = j[1] =>
    /\ (Behind(i) <=> Behind(j)) => gid[i] = gid[j] /\ expert[i] = expert[j]
    /\ Behind(i) /\ ~Behind(j) =>
         gid[j] = Groups + slm[i[1]] /\ expert[j] = Scan(rows, gid[j], expert[i])

(* Work-item 0 has stored a number that not all of the group have read. *)
Fetched(g) ==
  \/ pc[<<g, 0>>] \in {"arrive", "wait", "read"}
  \/ \E l \in Lane : Behind(<<g, l>>)

(* Two work-groups never hold the same tile number, and what one has       *)
(* fetched and not yet read is no other's.                                 *)
NoSharedTile ==
  /\ \A i, j \in Item : i[1] # j[1] =>
       /\ gid[i] # gid[j]
       /\ Fetched(i[1]) => Groups + slm[i[1]] # gid[j]
  /\ \A g, h \in Group : g # h /\ Fetched(g) /\ Fetched(h) => slm[g] # slm[h]

(* When every work-item has left the kernel, every part of every tile of   *)
(* every expert has been written once, and nothing else.                   *)
Complete ==
  (\A i \in Item : pc[i] = "done") =>
    \A x \in AnyTile, l \in Lane : written[<<x, l>>] = IF x \in Tiles THEN 1 ELSE 0

(* The kernel ends: no work-item waits at a barrier that another has left. *)
Terminates == <>(\A i \in Item : pc[i] = "done")
=============================================================================
