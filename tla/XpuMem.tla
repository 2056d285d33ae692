------------------------------- MODULE XpuMem -------------------------------
(***************************************************************************)
(* The pluggable device allocator of csrc/utils/mem_alloc.cpp.             *)
(*                                                                         *)
(* torch calls my_malloc and my_free from any thread, with or without      *)
(* the Python GIL; Python calls python_unmap_and_release ("sleep") and     *)
(* python_create_and_allocate ("wake") with the GIL.  The four share the   *)
(* table g_memory_map, guarded by g_memory_map_mutex, and the global       *)
(* error_code, guarded by nothing.  The two Python callbacks keep their    *)
(* own table of live handles and run under the GIL.                        *)
(*                                                                         *)
(* A step of a thread is a stretch of code that touches shared state once: *)
(* a driver call with the write of error_code that XPU_CHECK makes after   *)
(* it, a read of error_code, a critical section, a callback.               *)
(***************************************************************************)
EXTENDS FiniteSets

CONSTANTS
  Threads,    (* host threads                                              *)
  Addr,       (* virtual addresses the driver can hand out                 *)
  Tags,       (* the (device, size) pairs of allocations                   *)
  NoThread,   (* owner of a free lock                                      *)
  NoAddr,     (* the null pointer                                          *)
  NoTag,      (* "no handle recorded"                                      *)
  NoEntry     (* "pointer not in g_memory_map"                             *)

(* MemoryMetadata without ptr, which is the key of the table. *)
Meta == [tag : Tags, mapped : BOOLEAN, phys : BOOLEAN]

ASSUME ThreadAssumption == NoThread \notin Threads
ASSUME AddrAssumption == NoAddr \notin Addr
ASSUME TagAssumption == NoTag \notin Tags
ASSUME EntryAssumption == NoEntry \notin Meta

VARIABLES
  memMap,   (* g_memory_map: Addr -> Meta or NoEntry                       *)
  mutex,    (* holder of g_memory_map_mutex                                *)
  error,    (* error_code # no_error                                       *)
  ready,    (* init_module has installed the callbacks                     *)
  gil,      (* holder of the Python GIL                                    *)
  pyRec,    (* the handles Python's allocator records: Addr -> tag         *)
  va,       (* the driver's view of each address                           *)
  owned,    (* pointers torch got from my_malloc and has not freed         *)
  pc,       (* where each thread is                                        *)
  ptr,      (* the pointer the thread's operation works on                 *)
  meta,     (* the thread's local MemoryMetadata, NoEntry if it has none   *)
  hadGil,   (* the caller of my_malloc or my_free already had the GIL      *)
  failed    (* history: the thread's own lookup or driver call failed      *)

vars == <<memMap, mutex, error, ready, gil, pyRec, va, owned,
          pc, ptr, meta, hadGil, failed>>

shared == <<memMap, mutex, error, ready, gil, pyRec, va, owned>>
locals == <<ptr, meta, hadGil, failed>>

MallocPcs == {"m_reserve", "m_reserved", "m_map", "m_mapped", "m_undo",
              "m_insert", "m_gil", "m_callback"}
FreePcs   == {"f_lookup", "f_gil", "f_callback"}
RelPcs    == {"rel_erase", "rel_unmap", "rel_check", "rel_free"}
SleepPcs  == {"s_lock", "s_unmap", "s_check"}
WakePcs   == {"w_lock", "w_map", "w_check"}
PCs == {"idle"} \cup MallocPcs \cup FreePcs \cup RelPcs \cup SleepPcs \cup WakePcs

(* The driver knows an address as unreserved, reserved, reserved with      *)
(* physical memory mapped on it, or reserved with a mapping whose          *)
(* physical_mem object has been destroyed.                                 *)
VaStates == {"free", "reserved", "mapped", "orphan"}

Init ==
  /\ memMap = [p \in Addr |-> NoEntry]
  /\ mutex = NoThread
  /\ error = FALSE
  /\ ready = FALSE
  /\ gil = NoThread
  /\ pyRec = [p \in Addr |-> NoTag]
  /\ va = [p \in Addr |-> "free"]
  /\ owned = {}
  /\ pc = [t \in Threads |-> "idle"]
  /\ ptr = [t \in Threads |-> NoAddr]
  /\ meta = [t \in Threads |-> NoEntry]
  /\ hadGil = [t \in Threads |-> FALSE]
  /\ failed = [t \in Threads |-> FALSE]

-----------------------------------------------------------------------------
(* map_physical_memory: already mapped, or mapped now, or the mapping      *)
(* throws with the physical_mem just emplaced, or its constructor throws   *)
(* and leaves the optional empty.                                          *)
MapOutcomes(m) ==
  IF m.mapped
  THEN {m}
  ELSE {[m EXCEPT !.mapped = TRUE, !.phys = TRUE],
        [m EXCEPT !.phys = TRUE],
        [m EXCEPT !.phys = FALSE]}

(* unmap_physical_memory: already unmapped, or unmapped and its physical   *)
(* memory released, or the driver throws and nothing has changed.          *)
UnmapOutcomes(m) ==
  IF m.mapped
  THEN {[m EXCEPT !.mapped = FALSE, !.phys = FALSE], m}
  ELSE {m}

VaOf(m) == IF m.mapped THEN "mapped" ELSE "reserved"

(* free_virtual_address followed by the destruction of the thread's local  *)
(* metadata: the address is free again, or the driver throws and it stays  *)
(* reserved, over a destroyed mapping if there was one.                    *)
FreeVaOutcomes(m) == {"free", IF m.mapped THEN "orphan" ELSE "reserved"}

GoTo(t, l) == pc' = [pc EXCEPT ![t] = l]

(* The operation returns to its caller, which gives up the GIL. *)
Return(t) ==
  /\ GoTo(t, "idle")
  /\ ptr' = [ptr EXCEPT ![t] = NoAddr]
  /\ meta' = [meta EXCEPT ![t] = NoEntry]
  /\ hadGil' = [hadGil EXCEPT ![t] = FALSE]
  /\ failed' = [failed EXCEPT ![t] = FALSE]
  /\ gil' = IF gil = t THEN NoThread ELSE gil

(* PyGILState_Release: only a GIL taken by PyGILState_Ensure is given up. *)
ReleaseGil(t) == gil' = IF hadGil[t] THEN gil ELSE NoThread

(* A caller of my_malloc or my_free may hold the GIL already. *)
EnterFromTorch(t) ==
  \E g \in BOOLEAN :
    /\ g => gil = NoThread
    /\ hadGil' = [hadGil EXCEPT ![t] = g]
    /\ gil' = IF g THEN t ELSE gil

EnsureGil(t, from, to) ==
  /\ pc[t] = from
  /\ gil \in {NoThread, t}
  /\ gil' = t
  /\ GoTo(t, to)
  /\ UNCHANGED <<memMap, mutex, error, ready, pyRec, va, owned, locals>>

(* py_init_module *)
InitModule(t) ==
  /\ pc[t] = "idle"
  /\ gil = NoThread
  /\ ready' = TRUE
  /\ UNCHANGED <<memMap, mutex, error, gil, pyRec, va, owned, pc, locals>>

-----------------------------------------------------------------------------
(* my_malloc and reserve_and_map_new *)

StartMalloc(t) ==
  /\ pc[t] = "idle"
  /\ ready
  /\ EnterFromTorch(t)
  /\ \E tag \in Tags :
       meta' = [meta EXCEPT ![t] = [tag |-> tag, mapped |-> FALSE, phys |-> FALSE]]
  /\ GoTo(t, "m_reserve")
  /\ UNCHANGED <<memMap, mutex, error, ready, pyRec, va, owned, ptr, failed>>

(* XPU_CHECK(va = reserve_virtual_mem(...)) *)
Reserve(t) ==
  /\ pc[t] = "m_reserve"
  /\ \/ \E p \in Addr :
          /\ va[p] = "free"
          /\ va' = [va EXCEPT ![p] = "reserved"]
          /\ ptr' = [ptr EXCEPT ![t] = p]
          /\ error' = FALSE
     \/ /\ error' = TRUE
        /\ UNCHANGED <<va, ptr>>
  /\ GoTo(t, "m_reserved")
  /\ UNCHANGED <<memMap, mutex, ready, gil, pyRec, owned, meta, hadGil, failed>>

(* Mutant of CheckReserved: tests error_code only. *)
CheckReservedErrorOnly(t) ==
  /\ pc[t] = "m_reserved"
  /\ IF error
     THEN Return(t)
     ELSE GoTo(t, "m_map") /\ UNCHANGED <<gil, locals>>
  /\ UNCHANGED <<memMap, mutex, error, ready, pyRec, va, owned>>

(* if (error_code != 0 || va == 0) return nullptr *)
CheckReserved(t) ==
  /\ pc[t] = "m_reserved"
  /\ IF error \/ ptr[t] = NoAddr
     THEN Return(t)
     ELSE GoTo(t, "m_map") /\ UNCHANGED <<gil, locals>>
  /\ UNCHANGED <<memMap, mutex, error, ready, pyRec, va, owned>>

(* XPU_CHECK(map_physical_memory(metadata)) on the local metadata *)
MapNew(t) ==
  /\ pc[t] = "m_map"
  /\ \E m \in MapOutcomes(meta[t]) :
       /\ meta' = [meta EXCEPT ![t] = m]
       /\ va' = [va EXCEPT ![ptr[t]] = VaOf(m)]
       /\ error' = ~m.mapped
  /\ GoTo(t, "m_mapped")
  /\ UNCHANGED <<memMap, mutex, ready, gil, pyRec, owned, ptr, hadGil, failed>>

(* Mutants of CheckMapped: the mapping is not checked; the reservation is  *)
(* not undone.                                                             *)
CheckMappedNever(t) ==
  /\ pc[t] = "m_mapped"
  /\ GoTo(t, "m_insert")
  /\ UNCHANGED <<shared, locals>>

CheckMappedNoUndo(t) ==
  /\ pc[t] = "m_mapped"
  /\ IF error \/ ~meta[t].mapped
     THEN Return(t)
     ELSE GoTo(t, "m_insert") /\ UNCHANGED <<gil, locals>>
  /\ UNCHANGED <<memMap, mutex, error, ready, pyRec, va, owned>>

(* if (error_code != 0 || !metadata.mapped) undo *)
CheckMapped(t) ==
  /\ pc[t] = "m_mapped"
  /\ GoTo(t, IF error \/ ~meta[t].mapped THEN "m_undo" ELSE "m_insert")
  /\ UNCHANGED <<shared, locals>>

(* XPU_CHECK(free_virtual_address(metadata)); return nullptr *)
UndoReserve(t) ==
  /\ pc[t] = "m_undo"
  /\ \E s \in FreeVaOutcomes(meta[t]) :
       /\ va' = [va EXCEPT ![ptr[t]] = s]
       /\ error' = (s # "free")
  /\ Return(t)
  /\ UNCHANGED <<memMap, mutex, ready, pyRec, owned>>

(* the critical section that moves the metadata into g_memory_map *)
Insert(t) ==
  /\ pc[t] = "m_insert"
  /\ mutex = NoThread
  /\ memMap' = [memMap EXCEPT ![ptr[t]] = meta[t]]
  /\ GoTo(t, "m_gil")
  /\ UNCHANGED <<mutex, error, ready, gil, pyRec, va, owned, locals>>

(* Mutant of MallocCallback: does not look at py_result. *)
MallocCallbackUnchecked(t) ==
  /\ pc[t] = "m_callback"
  /\ pyRec' \in {pyRec, [pyRec EXCEPT ![ptr[t]] = meta[t].tag]}
  /\ owned' = owned \cup {ptr[t]}
  /\ Return(t)
  /\ UNCHANGED <<memMap, mutex, error, ready, va>>

(* The malloc callback records the handle and my_malloc returns it; or it  *)
(* raises and my_malloc releases the allocation.                           *)
MallocCallback(t) ==
  /\ pc[t] = "m_callback"
  /\ \/ /\ pyRec' = [pyRec EXCEPT ![ptr[t]] = meta[t].tag]
        /\ owned' = owned \cup {ptr[t]}
        /\ Return(t)
     \/ /\ ReleaseGil(t)
        /\ GoTo(t, "rel_erase")
        /\ UNCHANGED <<pyRec, owned, locals>>
  /\ UNCHANGED <<memMap, mutex, error, ready, va>>

-----------------------------------------------------------------------------
(* my_free *)

StartFree(t) ==
  /\ pc[t] = "idle"
  /\ ready
  /\ EnterFromTorch(t)
  /\ \E p \in owned :
       /\ owned' = owned \ {p}
       /\ ptr' = [ptr EXCEPT ![t] = p]
  /\ GoTo(t, "f_lookup")
  /\ UNCHANGED <<memMap, mutex, error, ready, pyRec, va, meta, failed>>

(* Mutant of FreeLookup: releases without the round trip through Python. *)
FreeLookupNoCallback(t) ==
  /\ pc[t] = "f_lookup"
  /\ mutex = NoThread
  /\ GoTo(t, "rel_erase")
  /\ UNCHANGED <<shared, locals>>

(* The first critical section copies device and size; a pointer that is    *)
(* not in the table is ignored.                                            *)
FreeLookup(t) ==
  /\ pc[t] = "f_lookup"
  /\ mutex = NoThread
  /\ IF memMap[ptr[t]] = NoEntry
     THEN Return(t)
     ELSE /\ meta' = [meta EXCEPT ![t] = [memMap[ptr[t]] EXCEPT
                                            !.mapped = FALSE, !.phys = FALSE]]
          /\ GoTo(t, "f_gil")
          /\ UNCHANGED <<gil, ptr, hadGil, failed>>
  /\ UNCHANGED <<memMap, mutex, error, ready, pyRec, va, owned>>

(* The free callback pops the handle and returns it.  my_free goes on only *)
(* if it got a handle that agrees with what it looked up before the call.  *)
FreeCallback(t) ==
  /\ pc[t] = "f_callback"
  /\ \/ /\ pyRec[ptr[t]] = meta[t].tag
        /\ pyRec' = [pyRec EXCEPT ![ptr[t]] = NoTag]
        /\ ReleaseGil(t)
        /\ GoTo(t, "rel_erase")
        /\ UNCHANGED locals
     \/ \* another handle, none recorded, an exception, or not a 4-tuple
        /\ pyRec' \in {pyRec, [pyRec EXCEPT ![ptr[t]] = NoTag]}
        /\ Return(t)
  /\ UNCHANGED <<memMap, mutex, error, ready, va, owned>>

-----------------------------------------------------------------------------
(* release_allocation, reached from my_malloc and from my_free *)

(* Mutants of Erase: without the lock_guard; without g_memory_map.erase. *)
EraseUnlocked(t) ==
  /\ pc[t] = "rel_erase"
  /\ memMap[ptr[t]] # NoEntry
  /\ meta' = [meta EXCEPT ![t] = memMap[ptr[t]]]
  /\ memMap' = [memMap EXCEPT ![ptr[t]] = NoEntry]
  /\ GoTo(t, "rel_unmap")
  /\ UNCHANGED <<mutex, error, ready, gil, pyRec, va, owned, ptr, hadGil, failed>>

EraseNothing(t) ==
  /\ pc[t] = "rel_erase"
  /\ mutex = NoThread
  /\ memMap[ptr[t]] # NoEntry
  /\ meta' = [meta EXCEPT ![t] = memMap[ptr[t]]]
  /\ GoTo(t, "rel_unmap")
  /\ UNCHANGED <<shared, ptr, hadGil, failed>>

(* the critical section that takes the entry out of the table *)
Erase(t) ==
  /\ pc[t] = "rel_erase"
  /\ mutex = NoThread
  /\ IF memMap[ptr[t]] = NoEntry
     THEN /\ error' = TRUE
          /\ Return(t)
          /\ UNCHANGED memMap
     ELSE /\ meta' = [meta EXCEPT ![t] = memMap[ptr[t]]]
          /\ memMap' = [memMap EXCEPT ![ptr[t]] = NoEntry]
          /\ GoTo(t, "rel_unmap")
          /\ UNCHANGED <<error, gil, ptr, hadGil, failed>>
  /\ UNCHANGED <<mutex, ready, pyRec, va, owned>>

(* XPU_CHECK(unmap_physical_memory(metadata)), without the mutex *)
ReleaseUnmap(t) ==
  /\ pc[t] = "rel_unmap"
  /\ \E m \in UnmapOutcomes(meta[t]) :
       /\ meta' = [meta EXCEPT ![t] = m]
       /\ va' = [va EXCEPT ![ptr[t]] = VaOf(m)]
       /\ error' = m.mapped
  /\ GoTo(t, "rel_check")
  /\ UNCHANGED <<memMap, mutex, ready, gil, pyRec, owned, ptr, hadGil, failed>>

(* Mutant of ReleaseCheck: goes on after a failed unmap. *)
ReleaseCheckNever(t) ==
  /\ pc[t] = "rel_check"
  /\ GoTo(t, "rel_free")
  /\ UNCHANGED <<shared, locals>>

(* if (error_code != 0) return: the local metadata dies with its mapping *)
ReleaseCheck(t) ==
  /\ pc[t] = "rel_check"
  /\ IF error
     THEN /\ va' = [va EXCEPT ![ptr[t]] = IF meta[t].mapped THEN "orphan" ELSE @]
          /\ Return(t)
     ELSE /\ GoTo(t, "rel_free")
          /\ UNCHANGED <<va, gil, locals>>
  /\ UNCHANGED <<memMap, mutex, error, ready, pyRec, owned>>

(* XPU_CHECK(free_virtual_address(metadata)) *)
ReleaseFree(t) ==
  /\ pc[t] = "rel_free"
  /\ \E s \in FreeVaOutcomes(meta[t]) :
       /\ va' = [va EXCEPT ![ptr[t]] = s]
       /\ error' = (s # "free")
  /\ Return(t)
  /\ UNCHANGED <<memMap, mutex, ready, pyRec, owned>>

-----------------------------------------------------------------------------
(* python_unmap_and_release and python_create_and_allocate *)

(* Python calls with the GIL and with any handle: a live one, a stale one, *)
(* or one that was never an allocation.                                    *)
StartPython(t, to) ==
  /\ pc[t] = "idle"
  /\ gil = NoThread
  /\ gil' = t
  /\ \E p \in Addr : ptr' = [ptr EXCEPT ![t] = p]
  /\ GoTo(t, to)
  /\ UNCHANGED <<memMap, mutex, error, ready, pyRec, va, owned, meta, hadGil, failed>>

StartSleep(t) == StartPython(t, "s_lock")
StartWake(t) == StartPython(t, "w_lock")

(* Mutant of LockAndFind: an unknown pointer leaves error_code alone. *)
LockAndFindSilent(t, from, found, check) ==
  /\ pc[t] = from
  /\ mutex = NoThread
  /\ IF memMap[ptr[t]] = NoEntry
     THEN /\ failed' = [failed EXCEPT ![t] = TRUE]
          /\ GoTo(t, check)
          /\ UNCHANGED mutex
     ELSE /\ mutex' = t
          /\ GoTo(t, found)
          /\ UNCHANGED failed
  /\ UNCHANGED <<memMap, error, ready, gil, pyRec, va, owned, ptr, meta, hadGil>>

(* lock_guard and find: an unknown pointer sets error_code and unlocks *)
LockAndFind(t, from, found, check) ==
  /\ pc[t] = from
  /\ mutex = NoThread
  /\ IF memMap[ptr[t]] = NoEntry
     THEN /\ error' = TRUE
          /\ failed' = [failed EXCEPT ![t] = TRUE]
          /\ GoTo(t, check)
          /\ UNCHANGED mutex
     ELSE /\ mutex' = t
          /\ GoTo(t, found)
          /\ UNCHANGED <<error, failed>>
  /\ UNCHANGED <<memMap, ready, gil, pyRec, va, owned, ptr, meta, hadGil>>

SleepLock(t) == LockAndFind(t, "s_lock", "s_unmap", "s_check")
WakeLock(t) == LockAndFind(t, "w_lock", "w_map", "w_check")

(* Mutant of UpdateEntry: returns with the mutex locked. *)
UpdateEntryKeepsLock(t, outcomes, wanted, check) ==
  /\ \E m \in outcomes :
       /\ memMap' = [memMap EXCEPT ![ptr[t]] = m]
       /\ va' = [va EXCEPT ![ptr[t]] = VaOf(m)]
       /\ error' = (m.mapped # wanted)
       /\ failed' = [failed EXCEPT ![t] = m.mapped # wanted]
  /\ GoTo(t, check)
  /\ UNCHANGED <<mutex, ready, gil, pyRec, owned, ptr, meta, hadGil>>

(* the rest of unmap_for_sleep and of remap_for_wakeup: XPU_CHECK on the   *)
(* entry, under the mutex, which the return unlocks                        *)
UpdateEntry(t, outcomes, wanted, check) ==
  /\ \E m \in outcomes :
       /\ memMap' = [memMap EXCEPT ![ptr[t]] = m]
       /\ va' = [va EXCEPT ![ptr[t]] = VaOf(m)]
       /\ error' = (m.mapped # wanted)
       /\ failed' = [failed EXCEPT ![t] = m.mapped # wanted]
  /\ mutex' = NoThread
  /\ GoTo(t, check)
  /\ UNCHANGED <<ready, gil, pyRec, owned, ptr, meta, hadGil>>

SleepUnmap(t) ==
  /\ pc[t] = "s_unmap"
  /\ UpdateEntry(t, UnmapOutcomes(memMap[ptr[t]]), FALSE, "s_check")

WakeMap(t) ==
  /\ pc[t] = "w_map"
  /\ UpdateEntry(t, MapOutcomes(memMap[ptr[t]]), TRUE, "w_check")

(* if (error_code != 0) reset it and raise RuntimeError *)
PyCheck(t) ==
  /\ pc[t] \in {"s_check", "w_check"}
  /\ error' = FALSE
  /\ Return(t)
  /\ UNCHANGED <<memMap, mutex, ready, pyRec, va, owned>>

-----------------------------------------------------------------------------
Malloc(t) ==
  \/ Reserve(t) \/ CheckReserved(t) \/ MapNew(t) \/ CheckMapped(t)
  \/ UndoReserve(t) \/ Insert(t) \/ EnsureGil(t, "m_gil", "m_callback")
  \/ MallocCallback(t)

Free(t) ==
  \/ FreeLookup(t) \/ EnsureGil(t, "f_gil", "f_callback") \/ FreeCallback(t)

Release(t) == Erase(t) \/ ReleaseUnmap(t) \/ ReleaseCheck(t) \/ ReleaseFree(t)

Sleep(t) == SleepLock(t) \/ SleepUnmap(t)
Wake(t) == WakeLock(t) \/ WakeMap(t)

(* One step of the operation a thread is in. *)
Step(t) == Malloc(t) \/ Free(t) \/ Release(t) \/ Sleep(t) \/ Wake(t) \/ PyCheck(t)

Start(t) ==
  \/ InitModule(t) \/ StartMalloc(t) \/ StartFree(t)
  \/ StartSleep(t) \/ StartWake(t)

Next == \E t \in Threads : Start(t) \/ Step(t)

Spec == Init /\ [][Next]_vars

(* Threads run, so a step that stays possible is taken.  A thread that     *)
(* waits for a lock is fed again and again by its releases: CPython hands  *)
(* the GIL to a waiter at its switch interval and the OS scheduler lets a  *)
(* waiter for the mutex in, hence strong fairness for the steps that take  *)
(* a lock.  Nothing forces a caller to start an operation.                 *)
LockSteps(t) ==
  \/ EnsureGil(t, "m_gil", "m_callback") \/ EnsureGil(t, "f_gil", "f_callback")
  \/ Insert(t) \/ FreeLookup(t) \/ Erase(t) \/ SleepLock(t) \/ WakeLock(t)

Fairness == \A t \in Threads : WF_vars(Step(t)) /\ SF_vars(LockSteps(t))

FairSpec == Spec /\ Fairness

-----------------------------------------------------------------------------
(* Between these points a thread owns an address through its local         *)
(* MemoryMetadata, outside the table.                                      *)
HoldPcs == {"m_map", "m_mapped", "m_undo", "m_insert",
            "rel_unmap", "rel_check", "rel_free"}

Holds(t, p) == ptr[t] = p /\ pc[t] \in HoldPcs \cup {"m_reserved"}

Types ==
  /\ memMap \in [Addr -> Meta \cup {NoEntry}]
  /\ mutex \in Threads \cup {NoThread}
  /\ error \in BOOLEAN
  /\ ready \in BOOLEAN
  /\ gil \in Threads \cup {NoThread}
  /\ pyRec \in [Addr -> Tags \cup {NoTag}]
  /\ va \in [Addr -> VaStates]
  /\ owned \subseteq Addr
  /\ pc \in [Threads -> PCs]
  /\ ptr \in [Threads -> Addr \cup {NoAddr}]
  /\ meta \in [Threads -> Meta \cup {NoEntry}]
  /\ hadGil \in [Threads -> BOOLEAN]
  /\ failed \in [Threads -> BOOLEAN]

(* Which points of an operation have a pointer and which local metadata.   *)
NoPtrPcs == {"idle", "m_reserve", "m_reserved"}
MetaPcs == MallocPcs \cup HoldPcs \cup {"f_gil", "f_callback"}

(* Type invariant.  It includes that an operation has a pointer and        *)
(* metadata where it uses them: reserve_and_map_new never maps a null      *)
(* address, even when another thread's success has hidden its error.       *)
TypeOK ==
  /\ Types
  /\ \A t \in Threads :
       /\ pc[t] \in {"idle", "m_reserve"} => ptr[t] = NoAddr
       /\ pc[t] \notin NoPtrPcs => ptr[t] \in Addr
       /\ pc[t] \in MetaPcs => meta[t] \in Meta

EntryAgrees(p) ==
  memMap[p] # NoEntry =>
    /\ va[p] = VaOf(memMap[p])
    /\ memMap[p].mapped => memMap[p].phys

HolderAgrees(t, p) ==
  Holds(t, p) =>
    /\ memMap[p] = NoEntry
    /\ va[p] = VaOf(meta[t])
    /\ meta[t].mapped => meta[t].phys
    /\ \A u \in Threads : Holds(u, p) => u = t

(* What g_memory_map says of an address, or the metadata of the one thread *)
(* that holds it, is what the driver knows of it: an entry marked mapped   *)
(* has its physical memory, an entry not marked mapped has only its        *)
(* reservation, and the driver has not taken the address back.  So no      *)
(* unmap, map or release ever acts on an address that is someone else's.   *)
TableMatchesDriver ==
  \A p \in Addr : EntryAgrees(p) /\ \A t \in Threads : HolderAgrees(t, p)

(* Every handle Python records is in g_memory_map with the same device     *)
(* and size: the callback runs after the insertion and pops the handle     *)
(* before the entry is erased, so a sleep or wake of a recorded handle     *)
(* never reports "pointer not found", whatever other threads are doing.    *)
HandlesTracked ==
  \A p \in Addr : pyRec[p] # NoTag =>
    memMap[p] # NoEntry /\ memMap[p].tag = pyRec[p]

(* A pointer torch holds is recorded by Python, so my_free finds its entry *)
(* and gets back a handle that agrees with it: the early returns of        *)
(* my_free that would leak the allocation are not taken for want of it.    *)
OwnedRecorded == \A p \in owned : pyRec[p] # NoTag

InFlightPcs == {"m_gil", "m_callback", "f_lookup", "f_gil", "f_callback", "rel_erase"}

Carries(t, p) == ptr[t] = p /\ pc[t] \in InFlightPcs

CarrierAgrees(t, p) ==
  Carries(t, p) =>
    /\ memMap[p] # NoEntry
    /\ p \notin owned
    /\ \A u \in Threads : Carries(u, p) => u = t
    /\ pc[t] \in {"m_gil", "m_callback", "f_gil", "f_callback"} =>
         memMap[p].tag = meta[t].tag
    /\ pc[t] \in {"m_gil", "m_callback", "rel_erase"} => pyRec[p] = NoTag

ThreadAgrees(t) ==
  /\ mutex = t <=> pc[t] \in {"s_unmap", "w_map"}
  /\ mutex = t => memMap[ptr[t]] # NoEntry
  /\ pc[t] = "m_reserve" => ~meta[t].mapped
  /\ pc[t] = "m_insert" => meta[t].mapped

(* While a thread is between the insertion and the erasure of an entry,    *)
(* that entry stays and nobody else can release, record or be given its    *)
(* address; an entry under the mutex is not erased.  my_free reads the     *)
(* table, drops the mutex for the callback and comes back: what it read is *)
(* still so when it returns.                                               *)
Custody ==
  \A t \in Threads : ThreadAgrees(t) /\ \A p \in Addr : CarrierAgrees(t, p)

(* The inductive invariant. *)
IInv == TypeOK /\ TableMatchesDriver /\ HandlesTracked /\ OwnedRecorded /\ Custody

(* A sleep or a wake whose lookup or driver call failed raises: whenever   *)
(* python_unmap_and_release or python_create_and_allocate is about to read *)
(* error_code after a failure, it still says so.                           *)
ErrorsReported ==
  \A t \in Threads : pc[t] \in {"s_check", "w_check"} /\ failed[t] => error

(* An address range is handed to free_virtual_mem only after its physical  *)
(* memory has been unmapped from it.                                       *)
FreesUnmapped ==
  \A t \in Threads : pc[t] \in {"m_undo", "rel_free"} => ~meta[t].mapped

(* A sleep that is about to return without raising has released the        *)
(* physical memory of the allocation.                                      *)
SleepReleases ==
  \A t \in Threads :
    pc[t] = "s_check" /\ ~error /\ memMap[ptr[t]] # NoEntry =>
      ~memMap[ptr[t]].phys

(* An address that a thread holds is lost, reserved in the driver and in   *)
(* nobody's table, only when a driver call of that thread threw: an unmap  *)
(* or a free_virtual_mem while releasing, never a step that only tests.    *)
LostOnlyByFailedCallStep ==
  \A t \in Threads, p \in Addr :
    Holds(t, p) /\ ~Holds(t, p)' /\ memMap'[p] = NoEntry /\ va'[p] # "free" =>
      \/ pc[t] \in {"m_undo", "rel_free"}
      \/ pc[t] = "rel_check" /\ meta[t].mapped

(* Every operation a thread has started returns: the mutex and the GIL     *)
(* are never waited for in a circle.                                       *)
OpsReturn == \A t \in Threads : pc[t] # "idle" ~> pc[t] = "idle"

(* The allocator implements DeviceLease.  The lease is read from the       *)
(* driver, not from the flag in the table.                                 *)
LeaseOf(p) ==
  IF memMap[p] = NoEntry THEN "none"
  ELSE IF va[p] = "mapped" THEN "mapped" ELSE "asleep"

Lease == INSTANCE DeviceLease WITH
  lease <- [p \in Addr |-> LeaseOf(p)],
  holders <- owned

LeaseRefined == Lease!LeaseSpec
=============================================================================
