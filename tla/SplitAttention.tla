--------------------------- MODULE SplitAttention ---------------------------
(***************************************************************************)
(* What a decode launch owes its caller, split or not: each element of     *)
(* each of its rows is stored once, and stands for every KV tile the row's *)
(* query can see exactly once, and for no other.  Rows that are not the    *)
(* launch's (the prefill rows of a mixed batch) are never stored.          *)
(***************************************************************************)
EXTENDS Naturals

CONSTANTS
  Row,          (* a sequence and a head                                   *)
  Element,      (* a part of the head dimension                            *)
  Tile,         (* a KV tile of a sequence                                 *)
  NoOutput      (* nothing stored yet                                      *)

VARIABLES
  owed,         (* the rows of this launch                                 *)
  seen,         (* the tiles the query of each row can see                 *)
  out           (* how often each tile counts in each element, or NoOutput *)

(* A row that sees nothing has no defined output.                          *)
Right(r, times) ==
  /\ times \in [Tile -> Nat]
  /\ seen[r] # {} => \A t \in Tile : times[t] = IF t \in seen[r] THEN 1 ELSE 0

AttnInit ==
  /\ owed \subseteq Row
  /\ seen \in [Row -> SUBSET Tile]
  /\ out = [r \in Row |-> [e \in Element |-> NoOutput]]

StoreElements(r, E) ==
  /\ r \in owed
  /\ \A e \in E : out[r][e] = NoOutput /\ Right(r, out'[r][e])
  /\ \A q \in Row, e \in Element : q # r \/ e \notin E => out'[q][e] = out[q][e]
  /\ UNCHANGED <<owed, seen>>

AttnNext == \E r \in Row, E \in SUBSET Element : StoreElements(r, E)

AttnSpec == AttnInit /\ [][AttnNext]_<<owed, seen, out>>
=============================================================================
