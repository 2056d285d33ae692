---------------------------- MODULE DeviceLease -----------------------------
(***************************************************************************)
(* What the allocator of csrc/utils/mem_alloc.cpp promises of each device  *)
(* address, whatever its threads, locks and error codes do: an address     *)
(* enters the table with physical memory behind it, goes to sleep and      *)
(* wakes up any number of times, is never in use twice, and leaves the     *)
(* table only after torch has given it back (or was never given it).       *)
(***************************************************************************)
CONSTANT Addr

VARIABLES
  lease,    (* "none": not tracked; "mapped" and "asleep": tracked         *)
  holders   (* the addresses torch holds                                   *)

LeaseTypeOK ==
  /\ lease \in [Addr -> {"none", "mapped", "asleep"}]
  /\ holders \subseteq Addr

LeaseInit ==
  /\ lease = [p \in Addr |-> "none"]
  /\ holders = {}

Move(p, from, to) ==
  /\ lease[p] = from
  /\ lease' = [lease EXCEPT ![p] = to]
  /\ UNCHANGED holders

Publish(p) == p \notin holders /\ Move(p, "none", "mapped")

FallAsleep(p) == Move(p, "mapped", "asleep")

WakeUp(p) == Move(p, "asleep", "mapped")

Withdraw(p) ==
  /\ p \notin holders
  /\ lease[p] # "none"
  /\ lease' = [lease EXCEPT ![p] = "none"]
  /\ UNCHANGED holders

HandOut(p) ==
  /\ p \notin holders
  /\ lease[p] # "none"
  /\ holders' = holders \cup {p}
  /\ UNCHANGED lease

GiveBack(p) ==
  /\ p \in holders
  /\ holders' = holders \ {p}
  /\ UNCHANGED lease

LeaseNext ==
  \E p \in Addr :
    \/ Publish(p) \/ FallAsleep(p) \/ WakeUp(p) \/ Withdraw(p)
    \/ HandOut(p) \/ GiveBack(p)

LeaseSpec == LeaseInit /\ [][LeaseNext]_<<lease, holders>>
=============================================================================
