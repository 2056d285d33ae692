--------------------------- MODULE PrimitiveCache ---------------------------
(***************************************************************************)
(* The cache of compiled matrix products in front of oneDNN                *)
(* (csrc/xpu/onednn/lru_cache.h and onednn_ext.h).  A call looks up a      *)
(* primitive by a key made of its numbers, builds one when there is none,  *)
(* puts its own operands in the argument slots the primitive remembers,    *)
(* and submits it.  The slots and the list belong to a thread, which       *)
(* another thread may interrupt between any two of these steps.            *)
(***************************************************************************)
EXTENDS Naturals, Sequences

CONSTANTS
  Thread,
  Scenario,      (* bound: in a process each thread makes the calls of a   *)
                 (* set, in any order and as often as it likes             *)
  Capacity,      (* max_cache_capacity, 512                                *)
  Space(_),      (* the template instance and device whose cache it uses   *)
  Key(_),        (* the key of a call                                      *)
  Built(_),      (* the primitive built for a call                         *)
  Attributes(_), (* the classes of its attribute operands, slot by slot    *)
  Arguments(_)   (* ... and of its other operands, in the slots after them *)

ASSUME CacheAssumption ==
  /\ Capacity \in Nat \ {0}
  /\ \A s \in Scenario, t \in Thread : \A c \in s[t] :
       Attributes(c) \in Seq(STRING) /\ Arguments(c) \in Seq(STRING)

VARIABLES
  calls,         (* the calls of each thread                               *)
  caches,        (* vlist_: the entries of each cache, most recent first   *)
  active,        (* what each thread is doing                              *)
  submitted      (* the primitive each has submitted last, with operands   *)

cacheVars == <<calls, caches, active, submitted>>

-----------------------------------------------------------------------------
(* Mutant of CacheOf: one array of caches for all threads. *)
CacheOfAll(t, c) == <<CHOOSE one \in Thread : TRUE, Space(c)>>

(* thread_local, one for every template instance and device. *)
CacheOf(t, c) == <<t, Space(c)>>

Slots(c) == Attributes(c) \o Arguments(c)
Handle(t, c, class) == <<t, c, class>>
None == [step |-> "idle"]

Hit(list, key) == {i \in 1 .. Len(list) : list[i].key = key}
(* list::splice: the entry found goes to the front. *)
Fronted(list, i) ==
  [j \in 1 .. Len(list) |->
     IF j = 1 THEN list[i] ELSE IF j <= i THEN list[j - 1] ELSE list[j]]
(* emplace_front and trim *)
Inserted(list, entry) ==
  [j \in 1 .. (IF Len(list) < Capacity THEN Len(list) + 1 ELSE Capacity) |->
     IF j = 1 THEN entry ELSE list[j - 1]]

-----------------------------------------------------------------------------
(* matmul_primitive_cache_t::get *)
Get(t, c) ==
  /\ active[t].step = "idle"
  /\ LET list == caches[CacheOf(t, c)]
         fresh == [key |-> Key(c), primitive |-> Built(c), args |-> <<>>]
     IN \/ \E i \in Hit(list, Key(c)) :
             caches' = [caches EXCEPT ![CacheOf(t, c)] = Fronted(list, i)]
        \/ /\ Hit(list, Key(c)) = {}
           /\ caches' = [caches EXCEPT ![CacheOf(t, c)] = Inserted(list, fresh)]
  /\ active' = [active EXCEPT ![t] = [step |-> "got", call |-> c]]
  /\ submitted' = [submitted EXCEPT ![t] = None]
  /\ UNCHANGED calls

(* A slot that holds a memory object keeps its class and takes the handle. *)
Filled(args, t, c, from, to) ==
  [i \in 1 .. (IF to < Len(args) THEN Len(args) ELSE to) |->
     [class |-> IF i <= Len(args) THEN args[i].class ELSE Slots(c)[i],
      handle |-> IF i \in from .. to THEN Handle(t, c, Slots(c)[i]) ELSE args[i].handle]]

Update(t, c, i, from, to) ==
  caches' = [caches EXCEPT ![CacheOf(t, c)][i].args = Filled(@, t, c, from, to)]

(* set_attribute, for each of them *)
SetAttributes(t) ==
  /\ active[t].step = "got"
  /\ LET c == active[t].call
     IN \E i \in Hit(caches[CacheOf(t, c)], Key(c)) : Update(t, c, i, 1, Len(Attributes(c)))
  /\ active' = [active EXCEPT ![t].step = "set"]
  /\ UNCHANGED <<calls, submitted>>

(* primitive_ext::execute: the slots are filled up and as many of them as  *)
(* this call has operands are handed over with the primitive.              *)
Execute(t) ==
  /\ active[t].step = "set"
  /\ LET c == active[t].call
         list == caches[CacheOf(t, c)]
     IN \E i \in Hit(list, Key(c)) :
          /\ Update(t, c, i, Len(Attributes(c)) + 1, Len(Slots(c)))
          /\ submitted' = [submitted EXCEPT ![t] =
               [step |-> "done", call |-> c, primitive |-> list[i].primitive,
                args |-> [j \in 1 .. Len(Slots(c)) |->
                            Filled(list[i].args, t, c, Len(Attributes(c)) + 1, Len(Slots(c)))[j]]]]
  /\ active' = [active EXCEPT ![t] = None]
  /\ UNCHANGED calls

CacheInit ==
  /\ calls \in Scenario
  /\ caches = [p \in Thread \X {Space(c) : c \in UNION {calls[t] : t \in Thread}} |-> <<>>]
  /\ active = [t \in Thread |-> None]
  /\ submitted = [t \in Thread |-> None]

CacheNext ==
  \E t \in Thread :
    \/ \E c \in calls[t] : Get(t, c)
    \/ SetAttributes(t)
    \/ Execute(t)

CacheSpec == CacheInit /\ [][CacheNext]_cacheVars

-----------------------------------------------------------------------------
(* Keys tell the calls of a thread apart wherever their primitives differ. *)
KeysTell ==
  \A s \in Scenario, t \in Thread : \A c, d \in s[t] :
    Space(c) = Space(d) /\ Key(c) = Key(d)
      => /\ Built(c) = Built(d)
         /\ Attributes(c) = Attributes(d)
         /\ Arguments(c) = Arguments(d)

(* What a thread submits is the primitive built for its call, with its own *)
(* operands in their slots, whatever was cached, evicted or remembered     *)
(* before, and whatever other threads do (onednn_ext.h:710-1010).          *)
Served ==
  \A t \in Thread : submitted[t] # None =>
    LET c == submitted[t].call
    IN /\ submitted[t].primitive = Built(c)
       /\ submitted[t].args =
            [i \in 1 .. Len(Slots(c)) |-> [class |-> Slots(c)[i], handle |-> Handle(t, c, Slots(c)[i])]]
=============================================================================
