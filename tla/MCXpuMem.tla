------------------------------ MODULE MCXpuMem ------------------------------
(* Instances of XpuMem for TLC.  Some of the threads call the allocator;   *)
(* with one of them error_code has a single writer.  Threads and addresses *)
(* are interchangeable, so the violation runs identify states up to their  *)
(* permutation.                                                            *)
EXTENDS XpuMem, FiniteSets, TLC

VARIABLE callers      (* the threads that call the allocator               *)

mcVars == <<vars, callers>>

MCInit == Init /\ callers \in SUBSET Threads \ {{}}
MCNext == \E t \in callers : (Start(t) \/ Step(t)) /\ UNCHANGED callers
MCSpec == MCInit /\ [][MCNext]_mcVars
MCFairSpec == MCSpec /\ Fairness

OneCaller == \E t \in Threads : callers = {t}

(* With one caller a failure of a sleep or a wake is reported and an       *)
(* address is freed only unmapped: what error_code says is of this thread. *)
SoundAlone == OneCaller => ErrorsReported /\ FreesUnmapped

(* With one caller an address is lost only by a driver call that threw.    *)
LossAlone == [][OneCaller => LostOnlyByFailedCallStep]_mcVars

(* Threads that do not call the allocator never leave "idle".              *)
BystandersIdle ==
  /\ callers \in SUBSET Threads \ {{}}
  /\ \A t \in Threads \ callers : pc[t] = "idle"

(* Where a thread has a result to check, error_code says whether the call  *)
(* it made last failed.                                                    *)
FlagIsOwn(t) ==
  /\ pc[t] = "m_reserved" => (error <=> ptr[t] = NoAddr)
  /\ pc[t] = "m_mapped" => (error <=> ~meta[t].mapped)
  /\ pc[t] = "rel_check" => (error <=> meta[t].mapped)
  /\ pc[t] \in {"m_undo", "rel_free"} => ~meta[t].mapped
  /\ pc[t] \in {"s_check", "w_check"} /\ failed[t] => error

(* The inductive invariant of the instances, with IInv.                    *)
SingleWriter ==
  /\ BystandersIdle
  /\ OneCaller => \A t \in Threads : FlagIsOwn(t)

Symmetry == Permutations(Threads) \cup Permutations(Addr) \cup Permutations(Tags)
=============================================================================
