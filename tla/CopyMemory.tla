----------------------------- MODULE CopyMemory -----------------------------
(***************************************************************************)
(* What moving KV blocks promises its caller: the copies a call asks for   *)
(* take effect one after the other, each whole and at once, between what   *)
(* the program stores before the call and what it stores after it.         *)
(***************************************************************************)
EXTENDS Naturals, Sequences

CONSTANTS
  Location,     (* blocks of tensors                                       *)
  NewData,      (* <<NewData, n>> is what the n-th store of the program    *)
                (* stores                                                  *)
  Unowned       (* the content of a block that is no tensor's              *)

VARIABLES
  memory,       (* what each location holds                                *)
  written,      (* stores of the program so far                            *)
  asked         (* copies of the call in progress still to be made: records *)
                (* with the locations "from" and "to"                      *)

CopyInit == memory \in [Location -> {Unowned} \cup Location] /\ written = 0 /\ asked = <<>>

(* The host or a kernel of the program stores a block. *)
StoreBlock(l) ==
  /\ written' = written + 1
  /\ memory' = [memory EXCEPT ![l] = <<NewData, written'>>]
  /\ UNCHANGED asked

Ask ==
  /\ \A i \in DOMAIN asked' : {asked'[i].from, asked'[i].to} \subseteq Location
  /\ UNCHANGED <<memory, written>>

(* Blocks become a tensor's, or stop being it; others keep their content.  *)
Turnover ==
  /\ UNCHANGED <<written, asked>>
  /\ LET before == memory
         after == memory'
     IN \A l \in Location : (before[l] = Unowned <=> after[l] = Unowned) => after[l] = before[l]

CopyNext ==
  /\ asked' = Tail(asked)
  /\ memory' = [memory EXCEPT ![asked[1].to] = memory[asked[1].from]]
  /\ UNCHANGED written

CopyStep ==
  \/ asked = <<>> /\ (Ask \/ Turnover \/ \E l \in Location : StoreBlock(l))
  \/ asked # <<>> /\ CopyNext

CopySpec == CopyInit /\ [][CopyStep]_<<memory, written, asked>>
=============================================================================
