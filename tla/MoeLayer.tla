------------------------------ MODULE MoeLayer ------------------------------
(***************************************************************************)
(* What a fused mixture-of-experts layer promises: every token gets, once, *)
(* the results of the experts of this device that the router chose for it, *)
(* each with the weight of its place in the choice, and nothing else.      *)
(***************************************************************************)
CONSTANTS Token, Pending

VARIABLES
  routing,    (* the <<place, expert>> pairs of each token                 *)
  output      (* what each token got: <<place, <<expert, whose row>>>>     *)

LayerInit == output = [t \in Token |-> Pending]

Answer(t) ==
  /\ output[t] = Pending
  /\ output' = [output EXCEPT ![t] = {<<c[1], <<c[2], t>>>> : c \in routing[t]}]
  /\ UNCHANGED routing

LayerSpec == LayerInit /\ [][\E t \in Token : Answer(t)]_<<routing, output>>
=============================================================================
