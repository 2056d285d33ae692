---------------------------- MODULE MemoryProofs ----------------------------
(***************************************************************************)
(* Proofs about the memory of the devices, for any number of threads,      *)
(* addresses, tags, devices, buffers, blocks and calls.                    *)
(*                                                                         *)
(* The allocator (XpuMem): the inductive invariant IInv, the invariants it *)
(* contains, and the implementation of DeviceLease; and, with one caller,  *)
(* that error_code is the word of that caller (SingleWriter).              *)
(*                                                                         *)
(* Copies take effect at the call that asks for them: MemCpy implements    *)
(* CopyMemory.  What operations under way will have done to memory is a    *)
(* composition of their effects; operations of two devices commute,        *)
(* because the devices have no block in common that one of them writes     *)
(* (CopiesApart).  An execution then changes nothing of what memory will   *)
(* be, and a submission changes it as the copy itself does.                *)
(*                                                                         *)
(* The tokens of a batch lie in their places (KvCache), by head: an        *)
(* address in row-major order belongs to one index only, the writers'      *)
(* address arithmetic is that of the layouts, and slots are in pages of    *)
(* one sequence each.  And the gathers give back what was stored.          *)
(***************************************************************************)
EXTENDS MCXpuMem, MemCpy, KvCache, NatLemmas, FiniteSetTheorems

-----------------------------------------------------------------------------
(* The allocator.                                                          *)
(* The outcomes of the driver calls are metadata again, with the tag and   *)
(* the physical memory that the flags say.                                 *)
LEMMA MapOutcomesMeta ==
  ASSUME NEW m \in Meta, m.mapped => m.phys, NEW n \in MapOutcomes(m)
  PROVE  n \in Meta /\ n.tag = m.tag /\ (n.mapped => n.phys)
  BY DEF MapOutcomes, Meta

LEMMA UnmapOutcomesMeta ==
  ASSUME NEW m \in Meta, m.mapped => m.phys, NEW n \in UnmapOutcomes(m)
  PROVE  n \in Meta /\ n.tag = m.tag /\ (n.mapped => n.phys)
  BY DEF UnmapOutcomes, Meta

LEMMA InitIInv == Init => IInv
  <1> SUFFICES ASSUME Init PROVE IInv
    OBVIOUS
  <1>1. TypeOK
    BY DEF Init, TypeOK, Types, VaStates, PCs, MallocPcs, HoldPcs, NoPtrPcs, MetaPcs
  <1>2. TableMatchesDriver
    BY DEF Init, TableMatchesDriver, EntryAgrees, HolderAgrees, Holds, HoldPcs
  <1>3. HandlesTracked /\ OwnedRecorded
    BY DEF Init, HandlesTracked, OwnedRecorded
  <1>4. Custody
    BY ThreadAssumption DEF Init, Custody, ThreadAgrees, CarrierAgrees, Carries, InFlightPcs
  <1> QED
    BY <1>1, <1>2, <1>3, <1>4 DEF IInv

LEMMA InitModuleIInv ==
  ASSUME IInv, NEW t \in Threads, InitModule(t) PROVE IInv'
  <1> USE DEF IInv, TypeOK, Types, GoTo, InitModule, locals
  <1>1. Types'
    BY DEF VaStates, VaOf, PCs, MallocPcs, FreePcs, RelPcs, SleepPcs, WakePcs, NoPtrPcs, MetaPcs, HoldPcs
  <1>2. TypeOK'
    BY <1>1 DEF NoPtrPcs, MetaPcs, MallocPcs, HoldPcs
  <1>3. ASSUME NEW p \in Addr PROVE EntryAgrees(p)'
    BY DEF TableMatchesDriver, EntryAgrees, HolderAgrees, Holds, HoldPcs, VaOf
  <1>4. ASSUME NEW p \in Addr, NEW u \in Threads PROVE HolderAgrees(u, p)'
    BY DEF TableMatchesDriver, EntryAgrees, HolderAgrees, Holds, HoldPcs, VaOf, MetaPcs, MallocPcs
  <1>5. HandlesTracked' /\ OwnedRecorded'
    BY DEF HandlesTracked, OwnedRecorded, Custody, CarrierAgrees, Carries, InFlightPcs
  <1>6. ASSUME NEW p \in Addr, NEW u \in Threads PROVE CarrierAgrees(u, p)'
    BY DEF HandlesTracked, OwnedRecorded, Custody, CarrierAgrees, Carries, InFlightPcs
  <1>7. ASSUME NEW u \in Threads PROVE ThreadAgrees(u)'
    BY ThreadAssumption DEF Custody, ThreadAgrees
  <1> QED
    BY <1>1, <1>2, <1>3, <1>4, <1>5, <1>6, <1>7 DEF TableMatchesDriver, Custody

LEMMA StartMallocIInv ==
  ASSUME IInv, NEW t \in Threads, StartMalloc(t) PROVE IInv'
  <1> USE DEF IInv, TypeOK, Types, GoTo, StartMalloc, EnterFromTorch
  <1>a. PICK tag \in Tags :
          meta' = [meta EXCEPT ![t] = [tag |-> tag, mapped |-> FALSE, phys |-> FALSE]]
    OBVIOUS
  <1>b. [tag |-> tag, mapped |-> FALSE, phys |-> FALSE] \in Meta
    BY DEF Meta
  <1>1. Types'
    <2>1. gil' \in Threads \cup {NoThread}
      BY <1>a, <1>b
    <2>2. meta' \in [Threads -> Meta \cup {NoEntry}]
      BY <1>a, <1>b DEF Meta
    <2>3. pc' \in [Threads -> PCs]
      BY <1>a, <1>b DEF PCs, MallocPcs, FreePcs, RelPcs, SleepPcs, WakePcs
    <2>4. hadGil' \in [Threads -> BOOLEAN]
      BY <1>a, <1>b
    <2> QED
      BY <2>1, <2>2, <2>3, <2>4
  <1>2. TypeOK'
    BY <1>1, <1>a, <1>b DEF NoPtrPcs, MetaPcs, MallocPcs, HoldPcs
  <1>3. ASSUME NEW p \in Addr PROVE EntryAgrees(p)'
    BY <1>a, <1>b DEF TableMatchesDriver, EntryAgrees, HolderAgrees, Holds, HoldPcs, VaOf
  <1>4. ASSUME NEW p \in Addr, NEW u \in Threads PROVE HolderAgrees(u, p)'
    BY <1>a, <1>b DEF TableMatchesDriver, EntryAgrees, HolderAgrees, Holds, HoldPcs, VaOf, MetaPcs, MallocPcs
  <1>5. HandlesTracked' /\ OwnedRecorded'
    BY <1>a, <1>b DEF HandlesTracked, OwnedRecorded, Custody, CarrierAgrees, Carries, InFlightPcs
  <1>6. ASSUME NEW p \in Addr, NEW u \in Threads PROVE CarrierAgrees(u, p)'
    BY <1>a, <1>b DEF HandlesTracked, OwnedRecorded, Custody, CarrierAgrees, Carries, InFlightPcs
  <1>7. ASSUME NEW u \in Threads PROVE ThreadAgrees(u)'
    BY <1>a, <1>b, ThreadAssumption DEF Custody, ThreadAgrees
  <1> QED
    BY <1>1, <1>2, <1>3, <1>4, <1>5, <1>6, <1>7 DEF TableMatchesDriver, Custody

LEMMA ReserveIInv ==
  ASSUME IInv, NEW t \in Threads, Reserve(t) PROVE IInv'
  <1> USE DEF IInv, TypeOK, Types, GoTo, Reserve
  <1>1. Types'
    <2>1. va' \in [Addr -> VaStates]
      BY DEF VaStates, VaOf
    <2>2. pc' \in [Threads -> PCs]
      BY DEF PCs, MallocPcs, FreePcs, RelPcs, SleepPcs, WakePcs
    <2>3. ptr' \in [Threads -> Addr \cup {NoAddr}]
      OBVIOUS
    <2>4. error' \in BOOLEAN
      OBVIOUS
    <2> QED
      BY <2>1, <2>2, <2>3, <2>4
  <1>2. TypeOK'
    BY <1>1 DEF NoPtrPcs, MetaPcs, MallocPcs, HoldPcs
  <1>3. ASSUME NEW p \in Addr PROVE EntryAgrees(p)'
    BY DEF TableMatchesDriver, EntryAgrees, HolderAgrees, Holds, HoldPcs, VaOf
  <1>4. ASSUME NEW p \in Addr, NEW u \in Threads PROVE HolderAgrees(u, p)'
    <2>1. CASE error' = FALSE
      <3>1. PICK q \in Addr :
              /\ va[q] = "free"
              /\ va' = [va EXCEPT ![q] = "reserved"]
              /\ ptr' = [ptr EXCEPT ![t] = q]
        BY <2>1
      <3>2. memMap[q] = NoEntry /\ \A v \in Threads : ~Holds(v, q)
        BY <3>1 DEF TableMatchesDriver, EntryAgrees, HolderAgrees, VaOf
      <3>3. \A v \in Threads : Holds(v, p)' => (v = t /\ p = q) \/ Holds(v, p)
        BY <3>1, AddrAssumption DEF Holds, HoldPcs
      <3>4. p # q => va'[p] = va[p]
        BY <3>1
      <3>5. Holds(u, p)' /\ p = q => meta[t] \in Meta /\ ~meta[t].mapped
        BY DEF Custody, ThreadAgrees, MetaPcs, MallocPcs
      <3>6. CASE p = q
        BY <3>1, <3>2, <3>3, <3>5, <3>6 DEF HolderAgrees, VaOf
      <3>7. CASE p # q
        BY <3>1, <3>3, <3>4, <3>7 DEF TableMatchesDriver, HolderAgrees, VaOf
      <3> QED
        BY <3>6, <3>7
    <2>2. CASE error' = TRUE
      <3>1. UNCHANGED <<va, ptr>>
        BY <2>2
      <3>2. \A v \in Threads : Holds(v, p)' => Holds(v, p)
        BY <3>1, AddrAssumption DEF Holds, HoldPcs
      <3> QED
        BY <3>1, <3>2 DEF TableMatchesDriver, HolderAgrees, VaOf
    <2> QED
      BY <2>1, <2>2
  <1>5. HandlesTracked' /\ OwnedRecorded'
    BY DEF HandlesTracked, OwnedRecorded, Custody, CarrierAgrees, Carries, InFlightPcs
  <1>6. ASSUME NEW p \in Addr, NEW u \in Threads PROVE CarrierAgrees(u, p)'
    BY DEF HandlesTracked, OwnedRecorded, Custody, CarrierAgrees, Carries, InFlightPcs
  <1>7. ASSUME NEW u \in Threads PROVE ThreadAgrees(u)'
    BY ThreadAssumption DEF Custody, ThreadAgrees
  <1> QED
    BY <1>1, <1>2, <1>3, <1>4, <1>5, <1>6, <1>7 DEF TableMatchesDriver, Custody

LEMMA CheckReservedIInv ==
  ASSUME IInv, NEW t \in Threads, CheckReserved(t) PROVE IInv'
  <1> USE DEF IInv, TypeOK, Types, GoTo, CheckReserved, Return, locals
  <1>1. Types'
    BY DEF VaStates, VaOf, PCs, MallocPcs, FreePcs, RelPcs, SleepPcs, WakePcs, NoPtrPcs, MetaPcs, HoldPcs
  <1>2. TypeOK'
    BY <1>1 DEF NoPtrPcs, MetaPcs, MallocPcs, HoldPcs
  <1>3. ASSUME NEW p \in Addr PROVE EntryAgrees(p)'
    BY DEF TableMatchesDriver, EntryAgrees, HolderAgrees, Holds, HoldPcs, VaOf
  <1>4. ASSUME NEW p \in Addr, NEW u \in Threads PROVE HolderAgrees(u, p)'
    BY DEF TableMatchesDriver, EntryAgrees, HolderAgrees, Holds, HoldPcs, VaOf, MetaPcs, MallocPcs
  <1>5. HandlesTracked' /\ OwnedRecorded'
    BY DEF HandlesTracked, OwnedRecorded, Custody, CarrierAgrees, Carries, InFlightPcs
  <1>6. ASSUME NEW p \in Addr, NEW u \in Threads PROVE CarrierAgrees(u, p)'
    BY DEF HandlesTracked, OwnedRecorded, Custody, CarrierAgrees, Carries, InFlightPcs
  <1>7. ASSUME NEW u \in Threads PROVE ThreadAgrees(u)'
    BY ThreadAssumption DEF Custody, ThreadAgrees
  <1> QED
    BY <1>1, <1>2, <1>3, <1>4, <1>5, <1>6, <1>7 DEF TableMatchesDriver, Custody

LEMMA MapNewIInv ==
  ASSUME IInv, NEW t \in Threads, MapNew(t) PROVE IInv'
  <1> USE DEF IInv, TypeOK, Types, GoTo, MapNew
  <1>a. ptr[t] \in Addr /\ meta[t] \in Meta /\ memMap[ptr[t]] = NoEntry
        /\ (meta[t].mapped => meta[t].phys)
    BY DEF TableMatchesDriver, HolderAgrees, Holds, HoldPcs, NoPtrPcs, MetaPcs, MallocPcs
  <1>b. PICK m \in MapOutcomes(meta[t]) :
          /\ meta' = [meta EXCEPT ![t] = m]
          /\ va' = [va EXCEPT ![ptr[t]] = VaOf(m)]
          /\ error' \in {m.mapped, ~m.mapped}
    OBVIOUS
  <1>c. m \in Meta /\ m.mapped \in BOOLEAN /\ m.tag = meta[t].tag /\ (m.mapped => m.phys)
    BY <1>a, MapOutcomesMeta DEF Meta
  <1>1. Types'
    <2>1. va' \in [Addr -> VaStates]
      BY <1>a, <1>b, <1>c DEF VaStates, VaOf
    <2>2. pc' \in [Threads -> PCs]
      BY <1>a, <1>b, <1>c DEF PCs, MallocPcs, FreePcs, RelPcs, SleepPcs, WakePcs
    <2>3. meta' \in [Threads -> Meta \cup {NoEntry}]
      BY <1>a, <1>b, <1>c DEF Meta
    <2>4. error' \in BOOLEAN
      BY <1>a, <1>b, <1>c
    <2> QED
      BY <2>1, <2>2, <2>3, <2>4
  <1>2. TypeOK'
    BY <1>1, <1>a, <1>b, <1>c DEF NoPtrPcs, MetaPcs, MallocPcs, HoldPcs
  <1>3. ASSUME NEW p \in Addr PROVE EntryAgrees(p)'
    BY <1>a, <1>b, <1>c DEF TableMatchesDriver, EntryAgrees, HolderAgrees, Holds, HoldPcs, VaOf
  <1>4. ASSUME NEW p \in Addr, NEW u \in Threads PROVE HolderAgrees(u, p)'
    BY <1>a, <1>b, <1>c DEF TableMatchesDriver, EntryAgrees, HolderAgrees, Holds, HoldPcs, VaOf, MetaPcs, MallocPcs
  <1>5. HandlesTracked' /\ OwnedRecorded'
    BY <1>a, <1>b, <1>c DEF HandlesTracked, OwnedRecorded, Custody, CarrierAgrees, Carries, InFlightPcs
  <1>6. ASSUME NEW p \in Addr, NEW u \in Threads PROVE CarrierAgrees(u, p)'
    BY <1>a, <1>b, <1>c DEF HandlesTracked, OwnedRecorded, Custody, CarrierAgrees, Carries, InFlightPcs
  <1>7. ASSUME NEW u \in Threads PROVE ThreadAgrees(u)'
    BY <1>a, <1>b, <1>c, ThreadAssumption DEF Custody, ThreadAgrees
  <1> QED
    BY <1>1, <1>2, <1>3, <1>4, <1>5, <1>6, <1>7 DEF TableMatchesDriver, Custody

LEMMA CheckMappedIInv ==
  ASSUME IInv, NEW t \in Threads, CheckMapped(t) PROVE IInv'
  <1> USE DEF IInv, TypeOK, Types, GoTo, CheckMapped, shared, locals
  <1>1. Types'
    BY DEF VaStates, VaOf, PCs, MallocPcs, FreePcs, RelPcs, SleepPcs, WakePcs, NoPtrPcs, MetaPcs, HoldPcs
  <1>2. TypeOK'
    BY <1>1 DEF NoPtrPcs, MetaPcs, MallocPcs, HoldPcs
  <1>3. ASSUME NEW p \in Addr PROVE EntryAgrees(p)'
    BY DEF TableMatchesDriver, EntryAgrees, HolderAgrees, Holds, HoldPcs, VaOf
  <1>4. ASSUME NEW p \in Addr, NEW u \in Threads PROVE HolderAgrees(u, p)'
    BY DEF TableMatchesDriver, EntryAgrees, HolderAgrees, Holds, HoldPcs, VaOf, MetaPcs, MallocPcs
  <1>5. HandlesTracked' /\ OwnedRecorded'
    BY DEF HandlesTracked, OwnedRecorded, Custody, CarrierAgrees, Carries, InFlightPcs
  <1>6. ASSUME NEW p \in Addr, NEW u \in Threads PROVE CarrierAgrees(u, p)'
    BY DEF HandlesTracked, OwnedRecorded, Custody, CarrierAgrees, Carries, InFlightPcs
  <1>7. ASSUME NEW u \in Threads PROVE ThreadAgrees(u)'
    BY ThreadAssumption DEF Custody, ThreadAgrees
  <1> QED
    BY <1>1, <1>2, <1>3, <1>4, <1>5, <1>6, <1>7 DEF TableMatchesDriver, Custody

LEMMA UndoReserveIInv ==
  ASSUME IInv, NEW t \in Threads, UndoReserve(t) PROVE IInv'
  <1> USE DEF IInv, TypeOK, Types, GoTo, UndoReserve, Return, FreeVaOutcomes
  <1>1. Types'
    BY DEF VaStates, VaOf, PCs, MallocPcs, FreePcs, RelPcs, SleepPcs, WakePcs, NoPtrPcs, MetaPcs, HoldPcs
  <1>2. TypeOK'
    BY <1>1 DEF NoPtrPcs, MetaPcs, MallocPcs, HoldPcs
  <1>3. ASSUME NEW p \in Addr PROVE EntryAgrees(p)'
    BY DEF TableMatchesDriver, EntryAgrees, HolderAgrees, Holds, HoldPcs, VaOf
  <1>4. ASSUME NEW p \in Addr, NEW u \in Threads PROVE HolderAgrees(u, p)'
    BY DEF TableMatchesDriver, EntryAgrees, HolderAgrees, Holds, HoldPcs, VaOf, MetaPcs, MallocPcs
  <1>5. HandlesTracked' /\ OwnedRecorded'
    BY DEF HandlesTracked, OwnedRecorded, Custody, CarrierAgrees, Carries, InFlightPcs
  <1>6. ASSUME NEW p \in Addr, NEW u \in Threads PROVE CarrierAgrees(u, p)'
    BY DEF HandlesTracked, OwnedRecorded, Custody, CarrierAgrees, Carries, InFlightPcs
  <1>7. ASSUME NEW u \in Threads PROVE ThreadAgrees(u)'
    BY ThreadAssumption DEF Custody, ThreadAgrees
  <1> QED
    BY <1>1, <1>2, <1>3, <1>4, <1>5, <1>6, <1>7 DEF TableMatchesDriver, Custody

LEMMA InsertIInv ==
  ASSUME IInv, NEW t \in Threads, Insert(t) PROVE IInv'
  <1> USE DEF IInv, TypeOK, Types, GoTo, Insert, locals
  <1>a. ptr[t] \in Addr /\ meta[t] \in Meta /\ meta[t] # NoEntry /\ memMap[ptr[t]] = NoEntry
        /\ pyRec[ptr[t]] = NoTag /\ ptr[t] \notin owned
    BY EntryAssumption DEF TableMatchesDriver, HolderAgrees, Holds, HoldPcs, NoPtrPcs, MetaPcs,
       MallocPcs, HandlesTracked, OwnedRecorded
  <1>1. Types'
    BY <1>a DEF VaStates, VaOf, PCs, MallocPcs, FreePcs, RelPcs, SleepPcs, WakePcs, NoPtrPcs, MetaPcs, HoldPcs
  <1>2. TypeOK'
    BY <1>1, <1>a DEF NoPtrPcs, MetaPcs, MallocPcs, HoldPcs
  <1>3. ASSUME NEW p \in Addr PROVE EntryAgrees(p)'
    BY <1>a DEF TableMatchesDriver, EntryAgrees, HolderAgrees, Holds, HoldPcs, VaOf
  <1>4. ASSUME NEW p \in Addr, NEW u \in Threads PROVE HolderAgrees(u, p)'
    BY <1>a DEF TableMatchesDriver, EntryAgrees, HolderAgrees, Holds, HoldPcs, VaOf, MetaPcs, MallocPcs
  <1>5. HandlesTracked' /\ OwnedRecorded'
    <2>1. \A p \in Addr : p # ptr[t] => memMap'[p] = memMap[p]
      BY <1>a
    <2>2. HandlesTracked'
      BY <1>a, <2>1 DEF HandlesTracked
    <2>3. OwnedRecorded'
      BY DEF OwnedRecorded
    <2> QED
      BY <2>2, <2>3
  <1>6. ASSUME NEW p \in Addr, NEW u \in Threads PROVE CarrierAgrees(u, p)'
    BY <1>a DEF HandlesTracked, OwnedRecorded, Custody, CarrierAgrees, Carries, InFlightPcs
  <1>7. ASSUME NEW u \in Threads PROVE ThreadAgrees(u)'
    BY <1>a, ThreadAssumption DEF Custody, ThreadAgrees
  <1> QED
    BY <1>1, <1>2, <1>3, <1>4, <1>5, <1>6, <1>7 DEF TableMatchesDriver, Custody

LEMMA EnsureGilIInv ==
  ASSUME IInv, NEW t \in Threads, EnsureGil(t, "m_gil", "m_callback") \/ EnsureGil(t, "f_gil", "f_callback") PROVE IInv'
  <1> USE DEF IInv, TypeOK, Types, GoTo, EnsureGil, locals
  <1>1. Types'
    BY DEF VaStates, VaOf, PCs, MallocPcs, FreePcs, RelPcs, SleepPcs, WakePcs, NoPtrPcs, MetaPcs, HoldPcs
  <1>2. TypeOK'
    BY <1>1 DEF NoPtrPcs, MetaPcs, MallocPcs, HoldPcs
  <1>3. ASSUME NEW p \in Addr PROVE EntryAgrees(p)'
    BY DEF TableMatchesDriver, EntryAgrees, HolderAgrees, Holds, HoldPcs, VaOf
  <1>4. ASSUME NEW p \in Addr, NEW u \in Threads PROVE HolderAgrees(u, p)'
    BY DEF TableMatchesDriver, EntryAgrees, HolderAgrees, Holds, HoldPcs, VaOf, MetaPcs, MallocPcs
  <1>5. HandlesTracked' /\ OwnedRecorded'
    BY DEF HandlesTracked, OwnedRecorded, Custody, CarrierAgrees, Carries, InFlightPcs
  <1>6. ASSUME NEW p \in Addr, NEW u \in Threads PROVE CarrierAgrees(u, p)'
    BY DEF HandlesTracked, OwnedRecorded, Custody, CarrierAgrees, Carries, InFlightPcs
  <1>7. ASSUME NEW u \in Threads PROVE ThreadAgrees(u)'
    BY ThreadAssumption DEF Custody, ThreadAgrees
  <1> QED
    BY <1>1, <1>2, <1>3, <1>4, <1>5, <1>6, <1>7 DEF TableMatchesDriver, Custody

LEMMA MallocCallbackIInv ==
  ASSUME IInv, NEW t \in Threads, MallocCallback(t) PROVE IInv'
  <1> USE DEF IInv, TypeOK, Types, GoTo, MallocCallback, Return, ReleaseGil, locals
  <1>a. ptr[t] \in Addr /\ meta[t] \in Meta /\ meta[t].tag \in Tags
        /\ memMap[ptr[t]] # NoEntry /\ memMap[ptr[t]].tag = meta[t].tag
    BY DEF Custody, CarrierAgrees, Carries, InFlightPcs, NoPtrPcs, MetaPcs, MallocPcs, Meta
  <1>1. Types'
    <2>1. pyRec' \in [Addr -> Tags \cup {NoTag}]
      BY <1>a
    <2>2. owned' \in SUBSET Addr
      BY <1>a
    <2>3. pc' \in [Threads -> PCs]
      BY <1>a DEF PCs, MallocPcs, FreePcs, RelPcs, SleepPcs, WakePcs
    <2>4. ptr' \in [Threads -> Addr \cup {NoAddr}]
      BY <1>a
    <2>5. meta' \in [Threads -> Meta \cup {NoEntry}]
      BY <1>a DEF Meta
    <2>6. hadGil' \in [Threads -> BOOLEAN]
      BY <1>a
    <2>7. failed' \in [Threads -> BOOLEAN]
      BY <1>a
    <2>8. gil' \in Threads \cup {NoThread}
      BY <1>a
    <2> QED
      BY <2>1, <2>2, <2>3, <2>4, <2>5, <2>6, <2>7, <2>8
  <1>2. TypeOK'
    BY <1>1, <1>a DEF NoPtrPcs, MetaPcs, MallocPcs, HoldPcs
  <1>3. ASSUME NEW p \in Addr PROVE EntryAgrees(p)'
    BY <1>a DEF TableMatchesDriver, EntryAgrees, HolderAgrees, Holds, HoldPcs, VaOf
  <1>4. ASSUME NEW p \in Addr, NEW u \in Threads PROVE HolderAgrees(u, p)'
    BY <1>a DEF TableMatchesDriver, EntryAgrees, HolderAgrees, Holds, HoldPcs, VaOf, MetaPcs, MallocPcs
  <1>5. HandlesTracked' /\ OwnedRecorded'
    <2>1. CASE owned' = owned \cup {ptr[t]} /\ pyRec' = [pyRec EXCEPT ![ptr[t]] = meta[t].tag]
      BY <1>a, <2>1, TagAssumption DEF HandlesTracked, OwnedRecorded
    <2>2. CASE UNCHANGED <<owned, pyRec>>
      BY <2>2 DEF HandlesTracked, OwnedRecorded
    <2> QED
      BY <2>1, <2>2
  <1>6. ASSUME NEW p \in Addr, NEW u \in Threads PROVE CarrierAgrees(u, p)'
    BY <1>a DEF HandlesTracked, OwnedRecorded, Custody, CarrierAgrees, Carries, InFlightPcs
  <1>7. ASSUME NEW u \in Threads PROVE ThreadAgrees(u)'
    BY <1>a, ThreadAssumption DEF Custody, ThreadAgrees
  <1> QED
    BY <1>1, <1>2, <1>3, <1>4, <1>5, <1>6, <1>7 DEF TableMatchesDriver, Custody

LEMMA StartFreeIInv ==
  ASSUME IInv, NEW t \in Threads, StartFree(t) PROVE IInv'
  <1> USE DEF IInv, TypeOK, Types, GoTo, StartFree, EnterFromTorch
  <1>1. Types'
    BY DEF VaStates, VaOf, PCs, MallocPcs, FreePcs, RelPcs, SleepPcs, WakePcs, NoPtrPcs, MetaPcs, HoldPcs
  <1>2. TypeOK'
    BY <1>1 DEF NoPtrPcs, MetaPcs, MallocPcs, HoldPcs
  <1>3. ASSUME NEW p \in Addr PROVE EntryAgrees(p)'
    BY DEF TableMatchesDriver, EntryAgrees, HolderAgrees, Holds, HoldPcs, VaOf
  <1>4. ASSUME NEW p \in Addr, NEW u \in Threads PROVE HolderAgrees(u, p)'
    BY DEF TableMatchesDriver, EntryAgrees, HolderAgrees, Holds, HoldPcs, VaOf, MetaPcs, MallocPcs
  <1>5. HandlesTracked' /\ OwnedRecorded'
    BY DEF HandlesTracked, OwnedRecorded, Custody, CarrierAgrees, Carries, InFlightPcs
  <1>6. ASSUME NEW p \in Addr, NEW u \in Threads PROVE CarrierAgrees(u, p)'
    BY DEF HandlesTracked, OwnedRecorded, Custody, CarrierAgrees, Carries, InFlightPcs
  <1>7. ASSUME NEW u \in Threads PROVE ThreadAgrees(u)'
    BY ThreadAssumption DEF Custody, ThreadAgrees
  <1> QED
    BY <1>1, <1>2, <1>3, <1>4, <1>5, <1>6, <1>7 DEF TableMatchesDriver, Custody

LEMMA FreeLookupIInv ==
  ASSUME IInv, NEW t \in Threads, FreeLookup(t) PROVE IInv'
  <1> USE DEF IInv, TypeOK, Types, GoTo, FreeLookup, Return
  <1>a. ptr[t] \in Addr /\ memMap[ptr[t]] \in Meta
    BY DEF Custody, CarrierAgrees, Carries, InFlightPcs, NoPtrPcs
  <1>b. /\ meta' = [meta EXCEPT ![t] = [memMap[ptr[t]] EXCEPT !.mapped = FALSE, !.phys = FALSE]]
        /\ [memMap[ptr[t]] EXCEPT !.mapped = FALSE, !.phys = FALSE] \in Meta
        /\ [memMap[ptr[t]] EXCEPT !.mapped = FALSE, !.phys = FALSE].tag = memMap[ptr[t]].tag
        /\ UNCHANGED <<gil, ptr, hadGil, failed>>
        /\ pc' = [pc EXCEPT ![t] = "f_gil"]
    BY <1>a, EntryAssumption DEF Meta
  <1>1. Types'
    <2>1. pc' \in [Threads -> PCs]
      BY <1>a, <1>b DEF PCs, MallocPcs, FreePcs, RelPcs, SleepPcs, WakePcs
    <2>2. meta' \in [Threads -> Meta \cup {NoEntry}]
      BY <1>a, <1>b DEF Meta
    <2> QED
      BY <2>1, <2>2
  <1>2. TypeOK'
    BY <1>1, <1>a, <1>b DEF NoPtrPcs, MetaPcs, MallocPcs, HoldPcs
  <1>3. ASSUME NEW p \in Addr PROVE EntryAgrees(p)'
    BY <1>a, <1>b DEF TableMatchesDriver, EntryAgrees, HolderAgrees, Holds, HoldPcs, VaOf
  <1>4. ASSUME NEW p \in Addr, NEW u \in Threads PROVE HolderAgrees(u, p)'
    BY <1>a, <1>b DEF TableMatchesDriver, EntryAgrees, HolderAgrees, Holds, HoldPcs, VaOf, MetaPcs, MallocPcs
  <1>5. HandlesTracked' /\ OwnedRecorded'
    BY <1>a, <1>b DEF HandlesTracked, OwnedRecorded, Custody, CarrierAgrees, Carries, InFlightPcs
  <1>6. ASSUME NEW p \in Addr, NEW u \in Threads PROVE CarrierAgrees(u, p)'
    BY <1>a, <1>b DEF HandlesTracked, OwnedRecorded, Custody, CarrierAgrees, Carries, InFlightPcs
  <1>7. ASSUME NEW u \in Threads PROVE ThreadAgrees(u)'
    BY <1>a, <1>b, ThreadAssumption DEF Custody, ThreadAgrees
  <1> QED
    BY <1>1, <1>2, <1>3, <1>4, <1>5, <1>6, <1>7 DEF TableMatchesDriver, Custody

LEMMA FreeCallbackIInv ==
  ASSUME IInv, NEW t \in Threads, FreeCallback(t) PROVE IInv'
  <1> USE DEF IInv, TypeOK, Types, GoTo, FreeCallback, Return, ReleaseGil, locals
  <1>1. Types'
    BY DEF VaStates, VaOf, PCs, MallocPcs, FreePcs, RelPcs, SleepPcs, WakePcs, NoPtrPcs, MetaPcs, HoldPcs
  <1>2. TypeOK'
    BY <1>1 DEF NoPtrPcs, MetaPcs, MallocPcs, HoldPcs
  <1>3. ASSUME NEW p \in Addr PROVE EntryAgrees(p)'
    BY DEF TableMatchesDriver, EntryAgrees, HolderAgrees, Holds, HoldPcs, VaOf
  <1>4. ASSUME NEW p \in Addr, NEW u \in Threads PROVE HolderAgrees(u, p)'
    BY DEF TableMatchesDriver, EntryAgrees, HolderAgrees, Holds, HoldPcs, VaOf, MetaPcs, MallocPcs
  <1>5. HandlesTracked' /\ OwnedRecorded'
    BY DEF HandlesTracked, OwnedRecorded, Custody, CarrierAgrees, Carries, InFlightPcs
  <1>6. ASSUME NEW p \in Addr, NEW u \in Threads PROVE CarrierAgrees(u, p)'
    BY DEF HandlesTracked, OwnedRecorded, Custody, CarrierAgrees, Carries, InFlightPcs
  <1>7. ASSUME NEW u \in Threads PROVE ThreadAgrees(u)'
    BY ThreadAssumption DEF Custody, ThreadAgrees
  <1> QED
    BY <1>1, <1>2, <1>3, <1>4, <1>5, <1>6, <1>7 DEF TableMatchesDriver, Custody

LEMMA EraseIInv ==
  ASSUME IInv, NEW t \in Threads, Erase(t) PROVE IInv'
  <1> USE DEF IInv, TypeOK, Types, GoTo, Erase, Return
  <1>a. ptr[t] \in Addr /\ memMap[ptr[t]] \in Meta
    BY DEF Custody, CarrierAgrees, Carries, InFlightPcs, NoPtrPcs
  <1>1. Types'
    <2>1. memMap' \in [Addr -> Meta \cup {NoEntry}]
      BY <1>a DEF Meta
    <2>2. pc' \in [Threads -> PCs]
      BY <1>a DEF PCs, MallocPcs, FreePcs, RelPcs, SleepPcs, WakePcs
    <2>3. meta' \in [Threads -> Meta \cup {NoEntry}]
      BY <1>a DEF Meta
    <2>4. gil' \in Threads \cup {NoThread}
      BY <1>a
    <2>5. error' \in BOOLEAN
      BY <1>a
    <2>6. ptr' \in [Threads -> Addr \cup {NoAddr}]
      BY <1>a
    <2>7. hadGil' \in [Threads -> BOOLEAN]
      BY <1>a
    <2>8. failed' \in [Threads -> BOOLEAN]
      BY <1>a
    <2> QED
      BY <2>1, <2>2, <2>3, <2>4, <2>5, <2>6, <2>7, <2>8
  <1>2. TypeOK'
    BY <1>1, <1>a DEF NoPtrPcs, MetaPcs, MallocPcs, HoldPcs
  <1>3. ASSUME NEW p \in Addr PROVE EntryAgrees(p)'
    BY <1>a DEF TableMatchesDriver, EntryAgrees, HolderAgrees, Holds, HoldPcs, VaOf
  <1>4. ASSUME NEW p \in Addr, NEW u \in Threads PROVE HolderAgrees(u, p)'
    BY <1>a DEF TableMatchesDriver, EntryAgrees, HolderAgrees, Holds, HoldPcs, VaOf, MetaPcs, MallocPcs
  <1>5. HandlesTracked' /\ OwnedRecorded'
    BY <1>a DEF HandlesTracked, OwnedRecorded, Custody, CarrierAgrees, Carries, InFlightPcs
  <1>6. ASSUME NEW p \in Addr, NEW u \in Threads PROVE CarrierAgrees(u, p)'
    BY <1>a DEF HandlesTracked, OwnedRecorded, Custody, CarrierAgrees, Carries, InFlightPcs
  <1>7. ASSUME NEW u \in Threads PROVE ThreadAgrees(u)'
    BY <1>a, ThreadAssumption DEF Custody, ThreadAgrees
  <1> QED
    BY <1>1, <1>2, <1>3, <1>4, <1>5, <1>6, <1>7 DEF TableMatchesDriver, Custody

LEMMA ReleaseUnmapIInv ==
  ASSUME IInv, NEW t \in Threads, ReleaseUnmap(t) PROVE IInv'
  <1> USE DEF IInv, TypeOK, Types, GoTo, ReleaseUnmap
  <1>a. ptr[t] \in Addr /\ meta[t] \in Meta /\ memMap[ptr[t]] = NoEntry
        /\ (meta[t].mapped => meta[t].phys)
    BY DEF TableMatchesDriver, HolderAgrees, Holds, HoldPcs, NoPtrPcs, MetaPcs, MallocPcs
  <1>b. PICK m \in UnmapOutcomes(meta[t]) :
          /\ meta' = [meta EXCEPT ![t] = m]
          /\ va' = [va EXCEPT ![ptr[t]] = VaOf(m)]
          /\ error' \in {m.mapped, ~m.mapped}
    OBVIOUS
  <1>c. m \in Meta /\ m.mapped \in BOOLEAN /\ m.tag = meta[t].tag /\ (m.mapped => m.phys)
    BY <1>a, UnmapOutcomesMeta DEF Meta
  <1>1. Types'
    <2>1. va' \in [Addr -> VaStates]
      BY <1>a, <1>b, <1>c DEF VaStates, VaOf
    <2>2. pc' \in [Threads -> PCs]
      BY <1>a, <1>b, <1>c DEF PCs, MallocPcs, FreePcs, RelPcs, SleepPcs, WakePcs
    <2>3. meta' \in [Threads -> Meta \cup {NoEntry}]
      BY <1>a, <1>b, <1>c DEF Meta
    <2>4. error' \in BOOLEAN
      BY <1>a, <1>b, <1>c
    <2> QED
      BY <2>1, <2>2, <2>3, <2>4
  <1>2. TypeOK'
    BY <1>1, <1>a, <1>b, <1>c DEF NoPtrPcs, MetaPcs, MallocPcs, HoldPcs
  <1>3. ASSUME NEW p \in Addr PROVE EntryAgrees(p)'
    BY <1>a, <1>b, <1>c DEF TableMatchesDriver, EntryAgrees, HolderAgrees, Holds, HoldPcs, VaOf
  <1>4. ASSUME NEW p \in Addr, NEW u \in Threads PROVE HolderAgrees(u, p)'
    BY <1>a, <1>b, <1>c DEF TableMatchesDriver, EntryAgrees, HolderAgrees, Holds, HoldPcs, VaOf, MetaPcs, MallocPcs
  <1>5. HandlesTracked' /\ OwnedRecorded'
    BY <1>a, <1>b, <1>c DEF HandlesTracked, OwnedRecorded, Custody, CarrierAgrees, Carries, InFlightPcs
  <1>6. ASSUME NEW p \in Addr, NEW u \in Threads PROVE CarrierAgrees(u, p)'
    BY <1>a, <1>b, <1>c DEF HandlesTracked, OwnedRecorded, Custody, CarrierAgrees, Carries, InFlightPcs
  <1>7. ASSUME NEW u \in Threads PROVE ThreadAgrees(u)'
    BY <1>a, <1>b, <1>c, ThreadAssumption DEF Custody, ThreadAgrees
  <1> QED
    BY <1>1, <1>2, <1>3, <1>4, <1>5, <1>6, <1>7 DEF TableMatchesDriver, Custody

LEMMA ReleaseCheckIInv ==
  ASSUME IInv, NEW t \in Threads, ReleaseCheck(t) PROVE IInv'
  <1> USE DEF IInv, TypeOK, Types, GoTo, ReleaseCheck, Return, locals
  <1>a. ptr[t] \in Addr
    BY DEF NoPtrPcs
  <1>1. Types'
    <2>1. va' \in [Addr -> VaStates]
      BY <1>a DEF VaStates, VaOf
    <2>2. pc' \in [Threads -> PCs]
      BY <1>a DEF PCs, MallocPcs, FreePcs, RelPcs, SleepPcs, WakePcs
    <2>3. meta' \in [Threads -> Meta \cup {NoEntry}]
      BY <1>a DEF Meta
    <2>4. gil' \in Threads \cup {NoThread}
      BY <1>a
    <2>5. ptr' \in [Threads -> Addr \cup {NoAddr}]
      BY <1>a
    <2>6. hadGil' \in [Threads -> BOOLEAN]
      BY <1>a
    <2>7. failed' \in [Threads -> BOOLEAN]
      BY <1>a
    <2> QED
      BY <2>1, <2>2, <2>3, <2>4, <2>5, <2>6, <2>7
  <1>2. TypeOK'
    BY <1>1, <1>a DEF NoPtrPcs, MetaPcs, MallocPcs, HoldPcs
  <1>3. ASSUME NEW p \in Addr PROVE EntryAgrees(p)'
    BY <1>a DEF TableMatchesDriver, EntryAgrees, HolderAgrees, Holds, HoldPcs, VaOf
  <1>4. ASSUME NEW p \in Addr, NEW u \in Threads PROVE HolderAgrees(u, p)'
    BY <1>a DEF TableMatchesDriver, EntryAgrees, HolderAgrees, Holds, HoldPcs, VaOf, MetaPcs, MallocPcs
  <1>5. HandlesTracked' /\ OwnedRecorded'
    BY <1>a DEF HandlesTracked, OwnedRecorded, Custody, CarrierAgrees, Carries, InFlightPcs
  <1>6. ASSUME NEW p \in Addr, NEW u \in Threads PROVE CarrierAgrees(u, p)'
    BY <1>a DEF HandlesTracked, OwnedRecorded, Custody, CarrierAgrees, Carries, InFlightPcs
  <1>7. ASSUME NEW u \in Threads PROVE ThreadAgrees(u)'
    BY <1>a, ThreadAssumption DEF Custody, ThreadAgrees
  <1> QED
    BY <1>1, <1>2, <1>3, <1>4, <1>5, <1>6, <1>7 DEF TableMatchesDriver, Custody

LEMMA ReleaseFreeIInv ==
  ASSUME IInv, NEW t \in Threads, ReleaseFree(t) PROVE IInv'
  <1> USE DEF IInv, TypeOK, Types, GoTo, ReleaseFree, Return, FreeVaOutcomes
  <1>1. Types'
    BY DEF VaStates, VaOf, PCs, MallocPcs, FreePcs, RelPcs, SleepPcs, WakePcs, NoPtrPcs, MetaPcs, HoldPcs
  <1>2. TypeOK'
    BY <1>1 DEF NoPtrPcs, MetaPcs, MallocPcs, HoldPcs
  <1>3. ASSUME NEW p \in Addr PROVE EntryAgrees(p)'
    BY DEF TableMatchesDriver, EntryAgrees, HolderAgrees, Holds, HoldPcs, VaOf
  <1>4. ASSUME NEW p \in Addr, NEW u \in Threads PROVE HolderAgrees(u, p)'
    BY DEF TableMatchesDriver, EntryAgrees, HolderAgrees, Holds, HoldPcs, VaOf, MetaPcs, MallocPcs
  <1>5. HandlesTracked' /\ OwnedRecorded'
    BY DEF HandlesTracked, OwnedRecorded, Custody, CarrierAgrees, Carries, InFlightPcs
  <1>6. ASSUME NEW p \in Addr, NEW u \in Threads PROVE CarrierAgrees(u, p)'
    BY DEF HandlesTracked, OwnedRecorded, Custody, CarrierAgrees, Carries, InFlightPcs
  <1>7. ASSUME NEW u \in Threads PROVE ThreadAgrees(u)'
    BY ThreadAssumption DEF Custody, ThreadAgrees
  <1> QED
    BY <1>1, <1>2, <1>3, <1>4, <1>5, <1>6, <1>7 DEF TableMatchesDriver, Custody

LEMMA StartPythonIInv ==
  ASSUME IInv, NEW t \in Threads, StartSleep(t) \/ StartWake(t) PROVE IInv'
  <1> USE DEF IInv, TypeOK, Types, GoTo, StartSleep, StartWake, StartPython
  <1>1. Types'
    BY DEF VaStates, VaOf, PCs, MallocPcs, FreePcs, RelPcs, SleepPcs, WakePcs, NoPtrPcs, MetaPcs, HoldPcs
  <1>2. TypeOK'
    BY <1>1 DEF NoPtrPcs, MetaPcs, MallocPcs, HoldPcs
  <1>3. ASSUME NEW p \in Addr PROVE EntryAgrees(p)'
    BY DEF TableMatchesDriver, EntryAgrees, HolderAgrees, Holds, HoldPcs, VaOf
  <1>4. ASSUME NEW p \in Addr, NEW u \in Threads PROVE HolderAgrees(u, p)'
    BY DEF TableMatchesDriver, EntryAgrees, HolderAgrees, Holds, HoldPcs, VaOf, MetaPcs, MallocPcs
  <1>5. HandlesTracked' /\ OwnedRecorded'
    BY DEF HandlesTracked, OwnedRecorded, Custody, CarrierAgrees, Carries, InFlightPcs
  <1>6. ASSUME NEW p \in Addr, NEW u \in Threads PROVE CarrierAgrees(u, p)'
    BY DEF HandlesTracked, OwnedRecorded, Custody, CarrierAgrees, Carries, InFlightPcs
  <1>7. ASSUME NEW u \in Threads PROVE ThreadAgrees(u)'
    BY ThreadAssumption DEF Custody, ThreadAgrees
  <1> QED
    BY <1>1, <1>2, <1>3, <1>4, <1>5, <1>6, <1>7 DEF TableMatchesDriver, Custody

LEMMA LockAndFindIInv ==
  ASSUME IInv, NEW t \in Threads, SleepLock(t) \/ WakeLock(t) PROVE IInv'
  <1> USE DEF IInv, TypeOK, Types, GoTo, SleepLock, WakeLock, LockAndFind
  <1>1. Types'
    BY ZenonT(60) DEF VaStates, VaOf, PCs, MallocPcs, FreePcs, RelPcs, SleepPcs, WakePcs, NoPtrPcs, MetaPcs, HoldPcs
  <1>2. TypeOK'
    BY <1>1 DEF NoPtrPcs, MetaPcs, MallocPcs, HoldPcs
  <1>3. ASSUME NEW p \in Addr PROVE EntryAgrees(p)'
    BY DEF TableMatchesDriver, EntryAgrees, HolderAgrees, Holds, HoldPcs, VaOf
  <1>4. ASSUME NEW p \in Addr, NEW u \in Threads PROVE HolderAgrees(u, p)'
    BY DEF TableMatchesDriver, EntryAgrees, HolderAgrees, Holds, HoldPcs, VaOf, MetaPcs, MallocPcs
  <1>5. HandlesTracked' /\ OwnedRecorded'
    BY DEF HandlesTracked, OwnedRecorded, Custody, CarrierAgrees, Carries, InFlightPcs
  <1>6. ASSUME NEW p \in Addr, NEW u \in Threads PROVE CarrierAgrees(u, p)'
    BY DEF HandlesTracked, OwnedRecorded, Custody, CarrierAgrees, Carries, InFlightPcs
  <1>7. ASSUME NEW u \in Threads PROVE ThreadAgrees(u)'
    BY ThreadAssumption DEF Custody, ThreadAgrees
  <1> QED
    BY <1>1, <1>2, <1>3, <1>4, <1>5, <1>6, <1>7 DEF TableMatchesDriver, Custody

LEMMA SleepUnmapIInv ==
  ASSUME IInv, NEW t \in Threads, SleepUnmap(t) PROVE IInv'
  <1> USE DEF IInv, TypeOK, Types, GoTo, SleepUnmap, UpdateEntry
  <1>a. ptr[t] \in Addr /\ memMap[ptr[t]] \in Meta
        /\ (memMap[ptr[t]].mapped => memMap[ptr[t]].phys)
    BY DEF TableMatchesDriver, EntryAgrees, Custody, ThreadAgrees, NoPtrPcs
  <1>b. PICK m \in UnmapOutcomes(memMap[ptr[t]]) :
          /\ memMap' = [memMap EXCEPT ![ptr[t]] = m]
          /\ va' = [va EXCEPT ![ptr[t]] = VaOf(m)]
    OBVIOUS
  <1>c. m \in Meta /\ m # NoEntry /\ m.tag = memMap[ptr[t]].tag /\ (m.mapped => m.phys)
    BY <1>a, EntryAssumption, UnmapOutcomesMeta
  <1>1. Types'
    <2>1. memMap' \in [Addr -> Meta \cup {NoEntry}]
      BY <1>a, <1>b, <1>c DEF Meta
    <2>2. va' \in [Addr -> VaStates]
      BY <1>a, <1>b, <1>c DEF VaStates, VaOf
    <2>3. pc' \in [Threads -> PCs]
      BY <1>a, <1>b, <1>c DEF PCs, MallocPcs, FreePcs, RelPcs, SleepPcs, WakePcs
    <2>4. mutex' \in Threads \cup {NoThread}
      BY <1>a, <1>b, <1>c
    <2>5. error' \in BOOLEAN
      BY <1>a, <1>b, <1>c
    <2>6. failed' \in [Threads -> BOOLEAN]
      BY <1>a, <1>b, <1>c
    <2> QED
      BY <2>1, <2>2, <2>3, <2>4, <2>5, <2>6
  <1>2. TypeOK'
    BY <1>1, <1>a, <1>b, <1>c DEF NoPtrPcs, MetaPcs, MallocPcs, HoldPcs
  <1>3. ASSUME NEW p \in Addr PROVE EntryAgrees(p)'
    BY <1>a, <1>b, <1>c DEF TableMatchesDriver, EntryAgrees, HolderAgrees, Holds, HoldPcs, VaOf
  <1>4. ASSUME NEW p \in Addr, NEW u \in Threads PROVE HolderAgrees(u, p)'
    <2>1. \A v \in Threads : Holds(v, p)' => Holds(v, p)
      BY DEF Holds, HoldPcs
    <2>2. Holds(u, p) => p # ptr[t]
      BY <1>a, EntryAssumption DEF TableMatchesDriver, HolderAgrees
    <2> QED
      BY <1>b, <2>1, <2>2 DEF TableMatchesDriver, HolderAgrees, VaOf
  <1>5. HandlesTracked' /\ OwnedRecorded'
    BY <1>a, <1>b, <1>c DEF HandlesTracked, OwnedRecorded, Custody, CarrierAgrees, Carries, InFlightPcs
  <1>6. ASSUME NEW p \in Addr, NEW u \in Threads PROVE CarrierAgrees(u, p)'
    BY <1>a, <1>b, <1>c DEF HandlesTracked, OwnedRecorded, Custody, CarrierAgrees, Carries, InFlightPcs
  <1>7. ASSUME NEW u \in Threads PROVE ThreadAgrees(u)'
    BY <1>a, <1>b, <1>c, ThreadAssumption DEF Custody, ThreadAgrees
  <1> QED
    BY <1>1, <1>2, <1>3, <1>4, <1>5, <1>6, <1>7 DEF TableMatchesDriver, Custody

LEMMA WakeMapIInv ==
  ASSUME IInv, NEW t \in Threads, WakeMap(t) PROVE IInv'
  <1> USE DEF IInv, TypeOK, Types, GoTo, WakeMap, UpdateEntry
  <1>a. ptr[t] \in Addr /\ memMap[ptr[t]] \in Meta
        /\ (memMap[ptr[t]].mapped => memMap[ptr[t]].phys)
    BY DEF TableMatchesDriver, EntryAgrees, Custody, ThreadAgrees, NoPtrPcs
  <1>b. PICK m \in MapOutcomes(memMap[ptr[t]]) :
          /\ memMap' = [memMap EXCEPT ![ptr[t]] = m]
          /\ va' = [va EXCEPT ![ptr[t]] = VaOf(m)]
    OBVIOUS
  <1>c. m \in Meta /\ m # NoEntry /\ m.tag = memMap[ptr[t]].tag /\ (m.mapped => m.phys)
    BY <1>a, EntryAssumption, MapOutcomesMeta
  <1>1. Types'
    <2>1. memMap' \in [Addr -> Meta \cup {NoEntry}]
      BY <1>a, <1>b, <1>c DEF Meta
    <2>2. va' \in [Addr -> VaStates]
      BY <1>a, <1>b, <1>c DEF VaStates, VaOf
    <2>3. pc' \in [Threads -> PCs]
      BY <1>a, <1>b, <1>c DEF PCs, MallocPcs, FreePcs, RelPcs, SleepPcs, WakePcs
    <2>4. mutex' \in Threads \cup {NoThread}
      BY <1>a, <1>b, <1>c
    <2>5. error' \in BOOLEAN
      BY <1>a, <1>b, <1>c
    <2>6. failed' \in [Threads -> BOOLEAN]
      BY <1>a, <1>b, <1>c
    <2> QED
      BY <2>1, <2>2, <2>3, <2>4, <2>5, <2>6
  <1>2. TypeOK'
    BY <1>1, <1>a, <1>b, <1>c DEF NoPtrPcs, MetaPcs, MallocPcs, HoldPcs
  <1>3. ASSUME NEW p \in Addr PROVE EntryAgrees(p)'
    BY <1>a, <1>b, <1>c DEF TableMatchesDriver, EntryAgrees, HolderAgrees, Holds, HoldPcs, VaOf
  <1>4. ASSUME NEW p \in Addr, NEW u \in Threads PROVE HolderAgrees(u, p)'
    <2>1. \A v \in Threads : Holds(v, p)' => Holds(v, p)
      BY DEF Holds, HoldPcs
    <2>2. Holds(u, p) => p # ptr[t]
      BY <1>a, EntryAssumption DEF TableMatchesDriver, HolderAgrees
    <2> QED
      BY <1>b, <2>1, <2>2 DEF TableMatchesDriver, HolderAgrees, VaOf
  <1>5. HandlesTracked' /\ OwnedRecorded'
    BY <1>a, <1>b, <1>c DEF HandlesTracked, OwnedRecorded, Custody, CarrierAgrees, Carries, InFlightPcs
  <1>6. ASSUME NEW p \in Addr, NEW u \in Threads PROVE CarrierAgrees(u, p)'
    BY <1>a, <1>b, <1>c DEF HandlesTracked, OwnedRecorded, Custody, CarrierAgrees, Carries, InFlightPcs
  <1>7. ASSUME NEW u \in Threads PROVE ThreadAgrees(u)'
    BY <1>a, <1>b, <1>c, ThreadAssumption DEF Custody, ThreadAgrees
  <1> QED
    BY <1>1, <1>2, <1>3, <1>4, <1>5, <1>6, <1>7 DEF TableMatchesDriver, Custody

LEMMA PyCheckIInv ==
  ASSUME IInv, NEW t \in Threads, PyCheck(t) PROVE IInv'
  <1> USE DEF IInv, TypeOK, Types, GoTo, PyCheck, Return
  <1>1. Types'
    BY DEF VaStates, VaOf, PCs, MallocPcs, FreePcs, RelPcs, SleepPcs, WakePcs, NoPtrPcs, MetaPcs, HoldPcs
  <1>2. TypeOK'
    BY <1>1 DEF NoPtrPcs, MetaPcs, MallocPcs, HoldPcs
  <1>3. ASSUME NEW p \in Addr PROVE EntryAgrees(p)'
    BY DEF TableMatchesDriver, EntryAgrees, HolderAgrees, Holds, HoldPcs, VaOf
  <1>4. ASSUME NEW p \in Addr, NEW u \in Threads PROVE HolderAgrees(u, p)'
    BY DEF TableMatchesDriver, EntryAgrees, HolderAgrees, Holds, HoldPcs, VaOf, MetaPcs, MallocPcs
  <1>5. HandlesTracked' /\ OwnedRecorded'
    BY DEF HandlesTracked, OwnedRecorded, Custody, CarrierAgrees, Carries, InFlightPcs
  <1>6. ASSUME NEW p \in Addr, NEW u \in Threads PROVE CarrierAgrees(u, p)'
    BY DEF HandlesTracked, OwnedRecorded, Custody, CarrierAgrees, Carries, InFlightPcs
  <1>7. ASSUME NEW u \in Threads PROVE ThreadAgrees(u)'
    BY ThreadAssumption DEF Custody, ThreadAgrees
  <1> QED
    BY <1>1, <1>2, <1>3, <1>4, <1>5, <1>6, <1>7 DEF TableMatchesDriver, Custody

LEMMA NextIInv == IInv /\ [Next]_vars => IInv'
  <1> SUFFICES ASSUME IInv, [Next]_vars PROVE IInv'
    OBVIOUS
  <1>1. CASE UNCHANGED vars
    BY <1>1 DEF vars, IInv, TypeOK, Types, TableMatchesDriver, EntryAgrees, HolderAgrees, Holds,
       HandlesTracked, OwnedRecorded, Custody, CarrierAgrees, Carries, ThreadAgrees
  <1>2. ASSUME NEW t \in Threads, Start(t) PROVE IInv'
    BY <1>2, InitModuleIInv, StartMallocIInv, StartFreeIInv, StartPythonIInv
       DEF Start, StartSleep, StartWake, SleepPcs, WakePcs
  <1>3. ASSUME NEW t \in Threads, Step(t) PROVE IInv'
    <2>1. CASE Malloc(t)
      BY <2>1, ReserveIInv, CheckReservedIInv, MapNewIInv, CheckMappedIInv, UndoReserveIInv,
         InsertIInv, EnsureGilIInv, MallocCallbackIInv DEF Malloc
    <2>2. CASE Free(t)
      BY <2>2, FreeLookupIInv, EnsureGilIInv, FreeCallbackIInv DEF Free
    <2>3. CASE Release(t)
      BY <2>3, EraseIInv, ReleaseUnmapIInv, ReleaseCheckIInv, ReleaseFreeIInv DEF Release
    <2>4. CASE Sleep(t) \/ Wake(t)
      BY <2>4, LockAndFindIInv, SleepUnmapIInv, WakeMapIInv DEF Sleep, Wake, SleepLock, WakeLock
    <2>5. CASE PyCheck(t)
      BY <2>5, PyCheckIInv
    <2> QED
      BY <1>3, <2>1, <2>2, <2>3, <2>4, <2>5 DEF Step
  <1> QED
    BY <1>1, <1>2, <1>3 DEF Next

-----------------------------------------------------------------------------
(* In every behaviour of the allocator the inductive invariant holds. *)
THEOREM Invariance == Spec => []IInv
  <1>1. Init => IInv
    BY InitIInv
  <1>2. IInv /\ [Next]_vars => IInv'
    BY NextIInv
  <1> QED
    BY <1>1, <1>2, PTL DEF Spec

(* Type correctness: an operation has a pointer and metadata where it uses *)
(* them; reserve_and_map_new never maps the null address.                  *)
THEOREM TypeCorrect == Spec => []TypeOK
  <1>1. IInv => TypeOK
    BY DEF IInv
  <1> QED
    BY <1>1, Invariance, PTL

(* g_memory_map, or the one thread that holds an address, never disagrees  *)
(* with the driver, so no call acts on an address that is someone else's.  *)
THEOREM DriverAgreement == Spec => []TableMatchesDriver
  <1>1. IInv => TableMatchesDriver
    BY DEF IInv
  <1> QED
    BY <1>1, Invariance, PTL

(* A handle Python records is always in g_memory_map. *)
THEOREM RecordedIsTracked == Spec => []HandlesTracked
  <1>1. IInv => HandlesTracked
    BY DEF IInv
  <1> QED
    BY <1>1, Invariance, PTL

(* A pointer torch holds is always recorded by Python, so my_free finds a  *)
(* handle that agrees with it.                                             *)
THEOREM OwnedIsRecorded == Spec => []OwnedRecorded
  <1>1. IInv => OwnedRecorded
    BY DEF IInv
  <1> QED
    BY <1>1, Invariance, PTL

(* Between the insertion and the erasure of an entry, and under the mutex, *)
(* no other thread releases, records or is given its address.              *)
THEOREM CustodyKept == Spec => []Custody
  <1>1. IInv => Custody
    BY DEF IInv
  <1> QED
    BY <1>1, Invariance, PTL

-----------------------------------------------------------------------------
(* The allocator implements DeviceLease.  Only five kinds of step are seen *)
(* from there: an insertion, an erasure, a sleep or wake that the driver   *)
(* carried out, and the moment a pointer is handed out or given back.      *)

(* What happens to an address outside the table is not seen. *)
LEMMA UntrackedStutter ==
  ASSUME IInv, NEW q \in Addr, NEW s, memMap[q] = NoEntry,
         va' = [va EXCEPT ![q] = s], UNCHANGED <<memMap, owned>>
  PROVE  UNCHANGED <<[p \in Addr |-> LeaseOf(p)], owned>>
  <1>1. ASSUME NEW p \in Addr PROVE LeaseOf(p)' = LeaseOf(p)
    BY DEF LeaseOf, IInv, TypeOK, Types
  <1> QED
    BY <1>1

LEMMA HiddenStutter ==
  ASSUME UNCHANGED <<memMap, va, owned>>
  PROVE  UNCHANGED <<[p \in Addr |-> LeaseOf(p)], owned>>
  BY DEF LeaseOf

(* A tracked address is asleep or mapped as its entry says. *)
LEMMA LeaseOfEntry ==
  ASSUME IInv, NEW q \in Addr, memMap[q] # NoEntry
  PROVE  LeaseOf(q) = IF memMap[q].mapped THEN "mapped" ELSE "asleep"
  BY DEF LeaseOf, IInv, TableMatchesDriver, EntryAgrees, VaOf

LEMMA InsertPublishes ==
  ASSUME IInv, NEW t \in Threads, Insert(t) PROVE Lease!LeaseNext
  <1> DEFINE q == ptr[t]
  <1>1. q \in Addr /\ meta[t] \in Meta /\ meta[t].mapped
    BY DEF Insert, IInv, TypeOK, NoPtrPcs, MetaPcs, MallocPcs, Custody, ThreadAgrees
  <1>2. memMap[q] = NoEntry /\ va[q] = "mapped"
    BY <1>1 DEF Insert, IInv, TableMatchesDriver, HolderAgrees, Holds, HoldPcs, VaOf
  <1>3. q \notin owned
    BY <1>2 DEF IInv, HandlesTracked, OwnedRecorded, TypeOK, Types
  <1>4. [p \in Addr |-> LeaseOf(p)]' = [[p \in Addr |-> LeaseOf(p)] EXCEPT ![q] = "mapped"]
    BY <1>1, <1>2, EntryAssumption DEF Insert, LeaseOf, IInv, TypeOK, Types
  <1>5. Lease!Publish(q)
    BY <1>1, <1>2, <1>3, <1>4 DEF Lease!Publish, Lease!Move, LeaseOf, Insert
  <1> QED
    BY <1>1, <1>5 DEF Lease!LeaseNext

LEMMA EraseWithdraws ==
  ASSUME IInv, NEW t \in Threads, Erase(t) PROVE Lease!LeaseNext
  <1> DEFINE q == ptr[t]
  <1>1. q \in Addr /\ memMap[q] # NoEntry /\ q \notin owned
    BY DEF Erase, IInv, TypeOK, NoPtrPcs, Custody, CarrierAgrees, Carries, InFlightPcs
  <1>2. memMap' = [memMap EXCEPT ![q] = NoEntry] /\ UNCHANGED <<va, owned>>
    BY <1>1 DEF Erase
  <1>3. [p \in Addr |-> LeaseOf(p)]' = [[p \in Addr |-> LeaseOf(p)] EXCEPT ![q] = "none"]
    BY <1>1, <1>2 DEF LeaseOf, IInv, TypeOK, Types
  <1>4. Lease!Withdraw(q)
    BY <1>1, <1>2, <1>3 DEF Lease!Withdraw, LeaseOf
  <1> QED
    BY <1>1, <1>4 DEF Lease!LeaseNext

LEMMA UpdateMoves ==
  ASSUME IInv, NEW t \in Threads, SleepUnmap(t) \/ WakeMap(t)
  PROVE  Lease!LeaseNext \/ UNCHANGED <<[p \in Addr |-> LeaseOf(p)], owned>>
  <1>1. PICK q \in Addr : q = ptr[t] /\ memMap[q] \in Meta /\ memMap[q] # NoEntry
    <2>1. ptr[t] \in Addr /\ mutex = t /\ memMap[ptr[t]] # NoEntry
      BY DEF SleepUnmap, WakeMap, IInv, TypeOK, NoPtrPcs, Custody, ThreadAgrees
    <2> QED
      BY <2>1 DEF IInv, TypeOK, Types
  <1>2. LeaseOf(q) = IF memMap[q].mapped THEN "mapped" ELSE "asleep"
    BY <1>1, LeaseOfEntry
  <1>3. PICK m \in UnmapOutcomes(memMap[q]) \cup MapOutcomes(memMap[q]) :
          memMap' = [memMap EXCEPT ![q] = m] /\ va' = [va EXCEPT ![q] = VaOf(m)]
    BY <1>1 DEF SleepUnmap, WakeMap, UpdateEntry
  <1>4. m \in Meta /\ m # NoEntry
    BY <1>1, EntryAssumption, UnmapOutcomesMeta, MapOutcomesMeta
       DEF IInv, TableMatchesDriver, EntryAgrees
  <1>5. UNCHANGED owned
    BY DEF SleepUnmap, WakeMap, UpdateEntry
  <1>6. [p \in Addr |-> LeaseOf(p)'] = [[p \in Addr |-> LeaseOf(p)] EXCEPT ![q] = IF m.mapped THEN "mapped" ELSE "asleep"]
    <2>1. LeaseOf(q)' = IF m.mapped THEN "mapped" ELSE "asleep"
      <3>1. memMap'[q] = m /\ va'[q] = VaOf(m)
        BY <1>1, <1>3 DEF IInv, TypeOK, Types
      <3> QED
        BY <1>4, <3>1 DEF LeaseOf, VaOf, Meta
    <2>2. ASSUME NEW p \in Addr, p # q PROVE LeaseOf(p)' = LeaseOf(p)
      BY <1>1, <1>3, <2>2 DEF LeaseOf, IInv, TypeOK, Types
    <2> QED
      BY <1>1, <2>1, <2>2
  <1>7. CASE m.mapped = memMap[q].mapped
    BY <1>1, <1>2, <1>5, <1>6, <1>7
  <1>8. CASE m.mapped # memMap[q].mapped /\ memMap[q].mapped
    BY <1>1, <1>2, <1>4, <1>5, <1>6, <1>8 DEF Lease!LeaseNext, Lease!FallAsleep, Lease!Move, Meta
  <1>9. CASE m.mapped # memMap[q].mapped /\ ~memMap[q].mapped
    BY <1>1, <1>2, <1>4, <1>5, <1>6, <1>9 DEF Lease!LeaseNext, Lease!WakeUp, Lease!Move, Meta
  <1> QED
    BY <1>7, <1>8, <1>9

LEMMA HandOver ==
  ASSUME IInv, NEW t \in Threads, MallocCallback(t) \/ StartFree(t)
  PROVE  Lease!LeaseNext \/ UNCHANGED <<[p \in Addr |-> LeaseOf(p)], owned>>
  <1>1. UNCHANGED [p \in Addr |-> LeaseOf(p)]
    BY DEF MallocCallback, StartFree, LeaseOf
  <1>2. CASE MallocCallback(t)
    <2>1. ptr[t] \in Addr /\ memMap[ptr[t]] # NoEntry /\ ptr[t] \notin owned
      BY <1>2 DEF MallocCallback, IInv, TypeOK, NoPtrPcs, Custody, CarrierAgrees, Carries,
         InFlightPcs
    <2>2. owned' = owned \cup {ptr[t]} \/ owned' = owned
      BY <1>2 DEF MallocCallback
    <2> QED
      BY <1>1, <2>1, <2>2 DEF Lease!LeaseNext, Lease!HandOut, LeaseOf
  <1>3. CASE StartFree(t)
    <2>1. PICK q \in owned : owned' = owned \ {q}
      BY <1>3 DEF StartFree
    <2>2. q \in Addr
      BY DEF IInv, TypeOK, Types
    <2> QED
      BY <1>1, <2>1, <2>2 DEF Lease!LeaseNext, Lease!GiveBack
  <1> QED
    BY <1>2, <1>3

(* The driver calls of a holder act on an address outside the table. *)
LEMMA HolderStutters ==
  ASSUME IInv, NEW t \in Threads,
         \/ Reserve(t) \/ MapNew(t) \/ UndoReserve(t)
         \/ ReleaseUnmap(t) \/ ReleaseCheck(t) \/ ReleaseFree(t)
  PROVE  UNCHANGED <<[p \in Addr |-> LeaseOf(p)], owned>>
  <1>1. UNCHANGED <<memMap, owned>>
    BY DEF Reserve, MapNew, UndoReserve, ReleaseUnmap, ReleaseCheck, ReleaseFree
  <1>2. CASE Reserve(t)
    <2>1. \/ \E q \in Addr : va[q] = "free" /\ va' = [va EXCEPT ![q] = "reserved"]
          \/ UNCHANGED va
      BY <1>2 DEF Reserve
    <2>2. \A q \in Addr : va[q] = "free" => memMap[q] = NoEntry
      BY DEF IInv, TableMatchesDriver, EntryAgrees, VaOf
    <2> QED
      BY <1>1, <2>1, <2>2, UntrackedStutter, HiddenStutter
  <1>3. CASE ~Reserve(t)
    <2>1. ptr[t] \in Addr /\ memMap[ptr[t]] = NoEntry
      BY <1>3 DEF MapNew, UndoReserve, ReleaseUnmap, ReleaseCheck, ReleaseFree, IInv, TypeOK,
         NoPtrPcs, TableMatchesDriver, HolderAgrees, Holds, HoldPcs
    <2>2. UNCHANGED va \/ \E s : va' = [va EXCEPT ![ptr[t]] = s]
      BY <1>3 DEF MapNew, UndoReserve, ReleaseUnmap, ReleaseCheck, ReleaseFree
    <2> QED
      BY <1>1, <2>1, <2>2, UntrackedStutter, HiddenStutter
  <1> QED
    BY <1>2, <1>3

(* Every other step leaves the table, the driver and torch alone. *)
LEMMA OthersStutter ==
  ASSUME NEW t \in Threads,
         \/ InitModule(t) \/ StartMalloc(t) \/ StartSleep(t) \/ StartWake(t)
         \/ CheckReserved(t) \/ CheckMapped(t) \/ EnsureGil(t, "m_gil", "m_callback")
         \/ FreeLookup(t) \/ EnsureGil(t, "f_gil", "f_callback") \/ FreeCallback(t)
         \/ SleepLock(t) \/ WakeLock(t) \/ PyCheck(t)
  PROVE  UNCHANGED <<[p \in Addr |-> LeaseOf(p)], owned>>
  <1>1. UNCHANGED <<memMap, va, owned>>
    BY DEF InitModule, StartMalloc, StartSleep, StartWake, StartPython, CheckReserved,
       CheckMapped, EnsureGil, FreeLookup, FreeCallback, SleepLock, WakeLock, LockAndFind,
       PyCheck, shared
  <1> QED
    BY <1>1, HiddenStutter

LEMMA StepRefines ==
  IInv /\ [Next]_vars => [Lease!LeaseNext]_<<[p \in Addr |-> LeaseOf(p)], owned>>
  <1> SUFFICES ASSUME IInv, [Next]_vars
               PROVE  Lease!LeaseNext \/ UNCHANGED <<[p \in Addr |-> LeaseOf(p)], owned>>
    OBVIOUS
  <1>1. CASE UNCHANGED vars
    BY <1>1, HiddenStutter DEF vars
  <1>2. ASSUME NEW t \in Threads, Start(t)
        PROVE  Lease!LeaseNext \/ UNCHANGED <<[p \in Addr |-> LeaseOf(p)], owned>>
    BY <1>2, HandOver, OthersStutter DEF Start
  <1>3. ASSUME NEW t \in Threads, Step(t)
        PROVE  Lease!LeaseNext \/ UNCHANGED <<[p \in Addr |-> LeaseOf(p)], owned>>
    <2>1. CASE Malloc(t)
      BY <2>1, HolderStutters, OthersStutter, InsertPublishes, HandOver DEF Malloc
    <2>2. CASE Free(t)
      BY <2>2, OthersStutter DEF Free
    <2>3. CASE Release(t)
      BY <2>3, HolderStutters, EraseWithdraws DEF Release
    <2>4. CASE Sleep(t) \/ Wake(t)
      BY <2>4, OthersStutter, UpdateMoves DEF Sleep, Wake
    <2>5. CASE PyCheck(t)
      BY <2>5, OthersStutter
    <2> QED
      BY <1>3, <2>1, <2>2, <2>3, <2>4, <2>5 DEF Step
  <1> QED
    BY <1>1, <1>2, <1>3 DEF Next

(* Every behaviour of the allocator is, read through the lease of each     *)
(* address, a behaviour of DeviceLease.                                    *)
THEOREM LeaseImplemented == Spec => LeaseRefined
  <1>1. Init => Lease!LeaseInit
    BY DEF Init, Lease!LeaseInit, LeaseOf
  <1>2. IInv /\ [Next]_vars => [Lease!LeaseNext]_<<[p \in Addr |-> LeaseOf(p)], owned>>
    BY StepRefines
  <1> QED
    BY <1>1, <1>2, Invariance, PTL DEF Spec, LeaseRefined, Lease!LeaseSpec

-----------------------------------------------------------------------------
(* With one caller error_code has one writer. *)

(* A step of t keeps what error_code says of t. *)
LEMMA OwnStepKeepsFlag ==
  ASSUME IInv, NEW t \in Threads, FlagIsOwn(t), Start(t) \/ Step(t)
  PROVE  FlagIsOwn(t)'
  <1> USE DEF FlagIsOwn, GoTo
  <1>0. TypeOK /\ Types
    BY DEF IInv, TypeOK
  <1>a. pc \in [Threads -> PCs] /\ meta \in [Threads -> Meta \cup {NoEntry}]
        /\ ptr \in [Threads -> Addr \cup {NoAddr}] /\ failed \in [Threads -> BOOLEAN]
    BY <1>0 DEF Types
  <1>1. CASE Start(t)
    <2>1. pc'[t] \in {"idle", "m_reserve", "f_lookup", "s_lock", "w_lock"}
      BY <1>1, <1>a DEF Start, InitModule, StartMalloc, StartFree, StartSleep, StartWake,
         StartPython
    <2> QED
      BY <2>1
  <1>2. CASE Reserve(t)
    <2>1. pc'[t] = "m_reserved" /\ ptr[t] = NoAddr
      BY <1>0, <1>2, <1>a DEF Reserve, TypeOK
    <2>2. error' <=> ptr'[t] = NoAddr
      BY <1>2, <1>a, <2>1, AddrAssumption DEF Reserve
    <2> QED
      BY <2>1, <2>2
  <1>3. CASE MapNew(t)
    <2>1. pc'[t] = "m_mapped" /\ (error' <=> ~meta'[t].mapped)
      BY <1>3, <1>a DEF MapNew
    <2> QED
      BY <2>1
  <1>4. CASE CheckMapped(t)
    <2>1. pc[t] = "m_mapped" /\ UNCHANGED <<error, meta>>
      BY <1>4 DEF CheckMapped, shared, locals
    <2>2. pc'[t] = IF error \/ ~meta[t].mapped THEN "m_undo" ELSE "m_insert"
      BY <1>4, <1>a DEF CheckMapped
    <2>3. pc'[t] = "m_undo" => ~meta'[t].mapped
      BY <2>1, <2>2
    <2> QED
      BY <2>2, <2>3
  <1>5. CASE ReleaseUnmap(t)
    <2>1. pc'[t] = "rel_check" /\ (error' <=> meta'[t].mapped)
      BY <1>5, <1>a DEF ReleaseUnmap
    <2> QED
      BY <2>1
  <1>6. CASE ReleaseCheck(t)
    <2>1. pc[t] = "rel_check" /\ UNCHANGED error
      BY <1>6 DEF ReleaseCheck
    <2>2. CASE error
      BY <1>6, <1>a, <2>2 DEF ReleaseCheck, Return
    <2>3. CASE ~error
      <3>1. pc'[t] = "rel_free" /\ meta' = meta
        BY <1>6, <1>a, <2>3 DEF ReleaseCheck, locals
      <3> QED
        BY <2>1, <2>3, <3>1
    <2> QED
      BY <2>2, <2>3
  <1>7. CASE SleepLock(t) \/ WakeLock(t)
    <2>1. pc'[t] \in {"s_unmap", "w_map", "s_check", "w_check"}
      BY <1>7, <1>a DEF SleepLock, WakeLock, LockAndFind
    <2>2. pc'[t] \in {"s_check", "w_check"} => error'
      BY <1>7, <1>a DEF SleepLock, WakeLock, LockAndFind
    <2> QED
      BY <2>1, <2>2
  <1>8. CASE SleepUnmap(t) \/ WakeMap(t)
    <2>1. pc'[t] \in {"s_check", "w_check"}
      BY <1>8, <1>a DEF SleepUnmap, WakeMap, UpdateEntry
    <2>2. failed'[t] => error'
      BY <1>8, <1>a DEF SleepUnmap, WakeMap, UpdateEntry
    <2> QED
      BY <2>1, <2>2
  <1>9. CASE \/ CheckReserved(t) \/ UndoReserve(t) \/ Insert(t) \/ MallocCallback(t)
             \/ EnsureGil(t, "m_gil", "m_callback") \/ EnsureGil(t, "f_gil", "f_callback")
             \/ Free(t) \/ Erase(t) \/ ReleaseFree(t) \/ PyCheck(t)
    <2>1. pc'[t] \in {"idle", "m_map", "m_gil", "m_callback", "f_gil", "f_callback",
                      "rel_erase", "rel_unmap"}
      BY <1>9, <1>a DEF CheckReserved, UndoReserve, Insert, EnsureGil, MallocCallback, Free,
         FreeLookup, FreeCallback, Erase, ReleaseFree, PyCheck, Return
    <2> QED
      BY <2>1
  <1> QED
    BY <1>1, <1>2, <1>3, <1>4, <1>5, <1>6, <1>7, <1>8, <1>9 DEF Step, Malloc, Free, Release, Sleep, Wake

(* A step of t leaves the other threads where they are. *)
LEMMA OthersStay ==
  ASSUME Types, NEW t \in Threads, Start(t) \/ Step(t), NEW u \in Threads, u # t
  PROVE  pc'[u] = pc[u]
  <1>1. \E l : GoTo(t, l) \/ UNCHANGED pc
    BY DEF Start, InitModule, StartMalloc, StartFree, StartSleep, StartWake, StartPython, Step,
       Malloc, Free, Release, Sleep, Wake, Reserve, CheckReserved, MapNew, CheckMapped,
       UndoReserve, Insert, EnsureGil, MallocCallback, FreeLookup, FreeCallback, Erase,
       ReleaseUnmap, ReleaseCheck, ReleaseFree, SleepLock, WakeLock, LockAndFind, SleepUnmap,
       WakeMap, UpdateEntry, PyCheck, Return
  <1> QED
    BY <1>1 DEF GoTo, Types

LEMMA InitSingleWriter == MCInit => SingleWriter
  BY DEF MCInit, Init, SingleWriter, BystandersIdle, FlagIsOwn

LEMMA NextSingleWriter ==
  ASSUME IInv, SingleWriter, [MCNext]_mcVars PROVE SingleWriter'
  <1>0. Types
    BY DEF IInv, TypeOK
  <1>1. CASE UNCHANGED mcVars
    BY <1>1 DEF mcVars, vars, SingleWriter, BystandersIdle, OneCaller, FlagIsOwn
  <1>2. ASSUME NEW t \in callers, Start(t) \/ Step(t), UNCHANGED callers
        PROVE  SingleWriter'
    <2>1. t \in Threads
      BY DEF SingleWriter, BystandersIdle
    <2>2. BystandersIdle'
      BY <1>0, <1>2, <2>1, OthersStay DEF SingleWriter, BystandersIdle
    <2>3. ASSUME OneCaller', NEW u \in Threads PROVE FlagIsOwn(u)'
      <3>1. OneCaller
        BY <1>2, <2>3 DEF OneCaller
      <3>2. callers = {t}
        BY <1>2, <3>1 DEF OneCaller
      <3>3. CASE u = t
        BY <1>2, <2>1, <3>1, <3>3, OwnStepKeepsFlag DEF SingleWriter
      <3>4. CASE u # t
        <4>1. pc'[u] = "idle"
          BY <1>2, <2>2, <3>2, <3>4 DEF BystandersIdle
        <4> QED
          BY <4>1 DEF FlagIsOwn
      <3> QED
        BY <3>3, <3>4
    <2> QED
      BY <2>2, <2>3 DEF SingleWriter
  <1> QED
    BY <1>1, <1>2 DEF MCNext

LEMMA MCStepIsStep == BystandersIdle /\ [MCNext]_mcVars => [Next]_vars
  BY DEF BystandersIdle, MCNext, mcVars, Next

LEMMA InvarianceOfCallers == MCSpec => [](IInv /\ SingleWriter)
  <1>1. MCInit => IInv /\ SingleWriter
    BY InitIInv, InitSingleWriter DEF MCInit
  <1>2. IInv /\ SingleWriter /\ [MCNext]_mcVars => (IInv /\ SingleWriter)'
    BY MCStepIsStep, NextIInv, NextSingleWriter DEF SingleWriter
  <1> QED
    BY <1>1, <1>2, PTL DEF MCSpec

(* With one caller a failed lookup or driver call of a sleep or a wake is  *)
(* still in error_code when the operation reads it, and only an unmapped   *)
(* address range is freed.                                                 *)
THEOREM SoundWithOneCaller == MCSpec => []SoundAlone
  <1>1. SingleWriter => SoundAlone
    BY DEF SingleWriter, SoundAlone, FlagIsOwn, ErrorsReported, FreesUnmapped
  <1> QED
    BY <1>1, InvarianceOfCallers, PTL

LEMMA LossNeedsFailedCall ==
  ASSUME IInv, SingleWriter, [MCNext]_mcVars, OneCaller PROVE LostOnlyByFailedCallStep
  <1>0. Types /\ TypeOK
    BY DEF IInv, TypeOK
  <1> SUFFICES ASSUME NEW t \in Threads, NEW p \in Addr,
                      Holds(t, p), ~Holds(t, p)', memMap'[p] = NoEntry, va'[p] # "free",
                      pc[t] \notin {"m_undo", "rel_free"}
               PROVE  pc[t] = "rel_check" /\ meta[t].mapped
    BY DEF LostOnlyByFailedCallStep
  <1>1. ptr[t] = p /\ pc[t] \in HoldPcs \cup {"m_reserved"} /\ p # NoAddr
    BY AddrAssumption DEF Holds
  <1>2. callers = {t}
    BY <1>1 DEF OneCaller, SingleWriter, BystandersIdle, HoldPcs
  <1>3. ~UNCHANGED vars
    BY DEF vars, Holds
  <1>4. Start(t) \/ Step(t)
    BY <1>2, <1>3 DEF MCNext, mcVars
  <1>5. FlagIsOwn(t)
    BY DEF SingleWriter
  <1>6. pc'[t] \notin HoldPcs \cup {"m_reserved"} \/ ptr'[t] # p
    BY DEF Holds
  <1>a. pc \in [Threads -> PCs] /\ meta \in [Threads -> Meta \cup {NoEntry}]
        /\ ptr \in [Threads -> Addr \cup {NoAddr}]
        /\ memMap \in [Addr -> Meta \cup {NoEntry}]
    BY <1>0 DEF Types
  <1>7. CASE pc[t] = "m_reserved"
    <2>1. CheckReserved(t)
      BY <1>4, <1>7 DEF Start, InitModule, StartMalloc, StartFree, StartSleep, StartWake,
         StartPython, Step, Malloc, Free, Release, Sleep, Wake, Reserve, MapNew, CheckMapped,
         UndoReserve, Insert, EnsureGil, MallocCallback, FreeLookup, FreeCallback, Erase,
         ReleaseUnmap, ReleaseCheck, ReleaseFree, SleepLock, WakeLock, LockAndFind, SleepUnmap,
         WakeMap, PyCheck
    <2>2. ~error
      BY <1>1, <1>5, <1>7 DEF FlagIsOwn
    <2> QED
      BY <1>1, <1>6, <1>a, <2>1, <2>2 DEF CheckReserved, GoTo, HoldPcs, locals
  <1>8. CASE pc[t] \in {"m_map", "m_mapped", "rel_unmap"}
    <2>1. MapNew(t) \/ CheckMapped(t) \/ ReleaseUnmap(t)
      BY <1>4, <1>8 DEF Start, InitModule, StartMalloc, StartFree, StartSleep, StartWake,
         StartPython, Step, Malloc, Free, Release, Sleep, Wake, Reserve, CheckReserved,
         UndoReserve, Insert, EnsureGil, MallocCallback, FreeLookup, FreeCallback, Erase,
         ReleaseCheck, ReleaseFree, SleepLock, WakeLock, LockAndFind, SleepUnmap,
         WakeMap, PyCheck
    <2> QED
      BY <1>1, <1>6, <1>a, <2>1 DEF MapNew, CheckMapped, ReleaseUnmap, GoTo, HoldPcs, locals
  <1>9. CASE pc[t] = "m_insert"
    <2>1. Insert(t)
      BY <1>4, <1>9 DEF Start, InitModule, StartMalloc, StartFree, StartSleep, StartWake,
         StartPython, Step, Malloc, Free, Release, Sleep, Wake, Reserve, CheckReserved, MapNew,
         CheckMapped, UndoReserve, EnsureGil, MallocCallback, FreeLookup, FreeCallback, Erase,
         ReleaseUnmap, ReleaseCheck, ReleaseFree, SleepLock, WakeLock, LockAndFind, SleepUnmap,
         WakeMap, PyCheck
    <2>2. meta[t] \in Meta
      BY <1>0, <1>9 DEF TypeOK, MetaPcs, MallocPcs
    <2>3. memMap'[p] = meta[t]
      BY <1>1, <1>a, <2>1 DEF Insert
    <2> QED
      BY <2>2, <2>3, EntryAssumption
  <1>10. CASE pc[t] = "rel_check"
    <2>1. ReleaseCheck(t)
      BY <1>4, <1>10 DEF Start, InitModule, StartMalloc, StartFree, StartSleep, StartWake,
         StartPython, Step, Malloc, Free, Release, Sleep, Wake, Reserve, CheckReserved, MapNew,
         CheckMapped, UndoReserve, Insert, EnsureGil, MallocCallback, FreeLookup, FreeCallback,
         Erase, ReleaseUnmap, ReleaseFree, SleepLock, WakeLock, LockAndFind, SleepUnmap,
         WakeMap, PyCheck
    <2>2. CASE error
      BY <1>5, <1>10, <2>2 DEF FlagIsOwn
    <2>3. CASE ~error
      BY <1>1, <1>6, <1>a, <2>1, <2>3 DEF ReleaseCheck, GoTo, HoldPcs, locals
    <2> QED
      BY <2>2, <2>3
  <1> QED
    BY <1>1, <1>7, <1>8, <1>9, <1>10 DEF HoldPcs

(* With one caller an address that it holds is lost only when a driver     *)
(* call of it threw.                                                       *)
THEOREM LossWithOneCaller == MCSpec => LossAlone
  <1>1. IInv /\ SingleWriter /\ [MCNext]_mcVars => [OneCaller => LostOnlyByFailedCallStep]_mcVars
    BY LossNeedsFailedCall
  <1> QED
    BY <1>1, InvarianceOfCallers, PTL DEF MCSpec, LossAlone

-----------------------------------------------------------------------------
(* The effects of a queue, one after the other: they compose. *)
Memories == [Location -> Datum]

LEMMA EffectIs ==
  ASSUME NEW m \in Memories, NEW o \in Ops
  PROVE  /\ Effect(m, o) \in Memories
         /\ o.to \in Location /\ o.from \in Location
         /\ Effect(m, o)[o.to] = IF o.new = 0 THEN m[o.from] ELSE <<NewData, o.new>>
         /\ \A l \in Location : l # o.to => Effect(m, o)[l] = m[l]
  <1>1. o.to \in Location /\ o.from \in Location /\ o.new \in 0 .. MaxWrites
    BY DEF Ops
  <1>2. o.new # 0 => <<NewData, o.new>> \in Datum
    BY <1>1, DeviceAssumption DEF Datum
  <1>3. m[o.from] \in Datum
    BY <1>1 DEF Memories
  <1> HIDE DEF Datum, Location
  <1> QED
    BY <1>1, <1>2, <1>3 DEF Effect, Memories

(* f is what memory holds after each operation of q. *)
Run(f, m, q) == f = [i \in 0 .. Len(q) |-> IF i = 0 THEN m ELSE Effect(f[i - 1], q[i])]

LEMMA RunTypes ==
  ASSUME NEW m \in Memories, NEW q \in Seq(Ops), NEW f, Run(f, m, q)
  PROVE  /\ f[0] = m
         /\ \A i \in 1 .. Len(q) : q[i] \in Ops /\ f[i] = Effect(f[i - 1], q[i])
         /\ \A i \in 0 .. Len(q) : f[i] \in Memories
  <1>0. Len(q) \in Nat /\ \A i \in 1 .. Len(q) : q[i] \in Ops
    OBVIOUS
  <1>1. f[0] = m
    BY <1>0 DEF Run
  <1>2. ASSUME NEW i \in 1 .. Len(q) PROVE f[i] = Effect(f[i - 1], q[i])
    <2>1. i \in 0 .. Len(q) /\ i # 0
      BY <1>0
    <2> QED
      BY <2>1, Zenon DEF Run
  <1> DEFINE T == {i \in Nat : i <= Len(q) => f[i] \in Memories}
  <1>3. 0 \in T
    BY <1>1
  <1>4. ASSUME NEW i \in Nat, i \in T PROVE i + 1 \in T
    <2> SUFFICES ASSUME i + 1 <= Len(q) PROVE f[i + 1] \in Memories
      OBVIOUS
    <2>1. i + 1 \in 1 .. Len(q) /\ (i + 1) - 1 = i /\ i <= Len(q)
      BY <1>0
    <2>2. f[i + 1] = Effect(f[i], q[i + 1]) /\ f[i] \in Memories /\ q[i + 1] \in Ops
      BY <1>0, <1>2, <1>4, <2>1
    <2> QED
      BY <2>2, EffectIs
  <1> HIDE DEF T
  <1>5. Nat \subseteq T
    BY <1>3, <1>4, NatInduct, Zenon
  <1>6. \A i \in 0 .. Len(q) : f[i] \in Memories
    BY <1>0, <1>5 DEF T
  <1> QED
    BY <1>0, <1>1, <1>2, <1>6

LEMMA RunExists ==
  ASSUME NEW m \in Memories, NEW q \in Seq(Ops)
  PROVE  \E f : Run(f, m, q)
  <1>0. Len(q) \in Nat /\ \A i \in 1 .. Len(q) : q[i] \in Ops
    OBVIOUS
  <1> DEFINE F == [i \in 1 .. Len(q) |-> [x \in Memories |-> Effect(x, q[i])]]
  <1>1. \A i \in 1 .. Len(q), x \in Memories : Effect(x, q[i]) \in Memories
    BY <1>0, EffectIs
  <1>2. \A i \in 1 .. Len(q) : F[i] \in [Memories -> Memories]
    BY <1>1
  <1>f. ASSUME NEW i \in 1 .. Len(q), NEW x \in Memories PROVE F[i][x] = Effect(x, q[i])
    OBVIOUS
  <1> HIDE DEF F
  <1>g. PICK g : Iterates(g, m, F, Len(q)) /\ \A i \in 0 .. Len(q) : g[i] \in Memories
    BY <1>0, <1>2, IteratesIn
  <1>3. /\ g = [i \in 0 .. Len(q) |-> IF i = 0 THEN m ELSE F[i][g[i - 1]]]
        /\ \A i \in 0 .. Len(q) : g[i] \in Memories
    BY <1>g, Zenon DEF Iterates
  <1>4. ASSUME NEW i \in 0 .. Len(q)
        PROVE  (IF i = 0 THEN m ELSE F[i][g[i - 1]]) = IF i = 0 THEN m ELSE Effect(g[i - 1], q[i])
    <2>1. i # 0 => i \in 1 .. Len(q) /\ i - 1 \in 0 .. Len(q)
      BY <1>0
    <2> QED
      BY <1>3, <1>f, <2>1
  <1>5. Run(g, m, q)
    BY <1>3, <1>4, Zenon DEF Run
  <1> QED
    BY <1>5

LEMMA AfterwardsIs ==
  ASSUME NEW m \in Memories, NEW q \in Seq(Ops)
  PROVE  \E f : Run(f, m, q) /\ Afterwards(m, q) = f[Len(q)]
  <1> DEFINE G(f) == [i \in 0 .. Len(q) |-> IF i = 0 THEN m ELSE Effect(f[i - 1], q[i])]
             c == CHOOSE f : f = G(f)
  <1>1. \E f : f = G(f)
    BY RunExists DEF Run
  <1>2. Afterwards(m, q) = c[Len(q)]
    BY Zenon DEF Afterwards
  <1>3. c = G(c)
    <2> HIDE DEF G
    <2> QED
      BY <1>1, Zenon
  <1>4. Run(c, m, q)
    <2>1. \A f : f = G(f) => Run(f, m, q)
      BY DEF Run
    <2> HIDE DEF G, c
    <2> QED
      BY <1>3, <2>1, Zenon
  <1> HIDE DEF c
  <1> QED
    BY <1>2, <1>4

-----------------------------------------------------------------------------
(* What a queue does to memory: nothing but to the blocks it writes, from  *)
(* nothing but those it reads; and it commutes with what is apart from it. *)
LEMMA AfterwardsTypes ==
  ASSUME NEW m \in Memories, NEW q \in Seq(Ops)
  PROVE  Afterwards(m, q) \in Memories
  <1>1. PICK f : Run(f, m, q) /\ Afterwards(m, q) = f[Len(q)]
    BY AfterwardsIs
  <1>2. Len(q) \in 0 .. Len(q)
    OBVIOUS
  <1> QED
    BY <1>1, <1>2, RunTypes

LEMMA AfterwardsNone ==
  ASSUME NEW m \in Memories PROVE Afterwards(m, <<>>) = m
  <1>1. <<>> \in Seq(Ops) /\ Len(<<>>) = 0
    OBVIOUS
  <1>2. PICK f : Run(f, m, <<>>) /\ Afterwards(m, <<>>) = f[0]
    BY <1>1, AfterwardsIs
  <1> QED
    BY <1>1, <1>2, RunTypes

(* What an operation does to memory is in its from, to and new. *)
SameEffect(o, u) == o.from = u.from /\ o.to = u.to /\ o.new = u.new

LEMMA AfterwardsSame ==
  ASSUME NEW m \in Memories, NEW q \in Seq(Ops), NEW r \in Seq(Ops), Len(q) = Len(r),
         \A i \in 1 .. Len(q) : SameEffect(q[i], r[i])
  PROVE  Afterwards(m, q) = Afterwards(m, r)
  <1>0. Len(q) \in Nat
    OBVIOUS
  <1>1. PICK f : Run(f, m, q) /\ Afterwards(m, q) = f[Len(q)]
    BY AfterwardsIs
  <1>2. PICK g : Run(g, m, r) /\ Afterwards(m, r) = g[Len(q)]
    BY AfterwardsIs
  <1>3. f[0] = m /\ \A i \in 1 .. Len(q) : f[i] = Effect(f[i - 1], q[i])
    BY <1>1, RunTypes
  <1>4. g[0] = m /\ \A i \in 1 .. Len(q) : g[i] = Effect(g[i - 1], r[i])
    BY <1>2, RunTypes
  <1> DEFINE T == {i \in Nat : i <= Len(q) => f[i] = g[i]}
  <1>5. 0 \in T
    BY <1>3, <1>4
  <1>6. ASSUME NEW i \in Nat, i \in T PROVE i + 1 \in T
    <2> SUFFICES ASSUME i + 1 <= Len(q) PROVE f[i + 1] = g[i + 1]
      OBVIOUS
    <2>1. i + 1 \in 1 .. Len(q) /\ (i + 1) - 1 = i /\ f[i] = g[i]
      BY <1>0, <1>6
    <2>2. f[i + 1] = Effect(f[i], q[i + 1]) /\ g[i + 1] = Effect(g[i], r[i + 1])
      BY <1>3, <1>4, <2>1
    <2>3. \A x : Effect(x, q[i + 1]) = Effect(x, r[i + 1])
      BY <2>1 DEF SameEffect, Effect
    <2> QED
      BY <2>1, <2>2, <2>3
  <1> HIDE DEF T
  <1>7. Nat \subseteq T
    BY <1>5, <1>6, NatInduct, Zenon
  <1> QED
    BY <1>0, <1>1, <1>2, <1>7 DEF T

LEMMA AfterwardsAppend ==
  ASSUME NEW m \in Memories, NEW q \in Seq(Ops), NEW o \in Ops
  PROVE  Afterwards(m, Append(q, o)) = Effect(Afterwards(m, q), o)
  <1> DEFINE r == Append(q, o)
  <1>0. Len(q) \in Nat /\ r \in Seq(Ops) /\ Len(r) = Len(q) + 1 /\ r[Len(q) + 1] = o
        /\ \A i \in 1 .. Len(q) : r[i] = q[i]
    OBVIOUS
  <1> HIDE DEF r
  <1>1. PICK f : Run(f, m, q) /\ Afterwards(m, q) = f[Len(q)]
    BY AfterwardsIs
  <1>2. PICK g : Run(g, m, r) /\ Afterwards(m, r) = g[Len(r)]
    BY <1>0, AfterwardsIs
  <1>3. f[0] = m /\ \A i \in 1 .. Len(q) : f[i] = Effect(f[i - 1], q[i])
    BY <1>1, RunTypes
  <1>4. g[0] = m /\ \A i \in 1 .. Len(q) + 1 : g[i] = Effect(g[i - 1], r[i])
    BY <1>0, <1>2, RunTypes
  <1> DEFINE T == {i \in Nat : i <= Len(q) => f[i] = g[i]}
  <1>5. 0 \in T
    BY <1>3, <1>4
  <1>6. ASSUME NEW i \in Nat, i \in T PROVE i + 1 \in T
    <2> SUFFICES ASSUME i + 1 <= Len(q) PROVE f[i + 1] = g[i + 1]
      OBVIOUS
    <2>1. i + 1 \in 1 .. Len(q) /\ i + 1 \in 1 .. Len(q) + 1 /\ (i + 1) - 1 = i /\ f[i] = g[i]
      BY <1>0, <1>6
    <2>2. f[i + 1] = Effect(f[i], q[i + 1]) /\ g[i + 1] = Effect(g[i], r[i + 1])
      BY <1>3, <1>4, <2>1
    <2> QED
      BY <1>0, <2>1, <2>2
  <1> HIDE DEF T
  <1>7. Nat \subseteq T
    BY <1>5, <1>6, NatInduct, Zenon
  <1>8. f[Len(q)] = g[Len(q)]
    BY <1>0, <1>7 DEF T
  <1>9. g[Len(q) + 1] = Effect(g[Len(q)], o)
    <2>1. Len(q) + 1 \in 1 .. Len(q) + 1 /\ (Len(q) + 1) - 1 = Len(q)
      BY <1>0
    <2> QED
      BY <1>0, <1>4, <2>1
  <1> QED
    BY <1>0, <1>1, <1>2, <1>8, <1>9 DEF r

LEMMA AfterwardsHead ==
  ASSUME NEW m \in Memories, NEW q \in Seq(Ops), q # <<>>
  PROVE  Afterwards(m, q) = Afterwards(Effect(m, q[1]), Tail(q))
  <1> DEFINE r == Tail(q)
  <1>0. Len(q) \in Nat /\ Len(q) >= 1 /\ r \in Seq(Ops) /\ Len(r) = Len(q) - 1 /\ q[1] \in Ops
        /\ \A i \in 1 .. Len(q) - 1 : r[i] = q[i + 1]
    OBVIOUS
  <1>e. Effect(m, q[1]) \in Memories
    BY <1>0, EffectIs
  <1> HIDE DEF r
  <1>1. PICK f : Run(f, m, q) /\ Afterwards(m, q) = f[Len(q)]
    BY AfterwardsIs
  <1>2. PICK g : Run(g, Effect(m, q[1]), r) /\ Afterwards(Effect(m, q[1]), r) = g[Len(r)]
    BY <1>0, <1>e, AfterwardsIs
  <1>3. f[0] = m /\ \A i \in 1 .. Len(q) : f[i] = Effect(f[i - 1], q[i])
    BY <1>1, RunTypes
  <1>4. g[0] = Effect(m, q[1]) /\ \A i \in 1 .. Len(q) - 1 : g[i] = Effect(g[i - 1], r[i])
    BY <1>0, <1>e, <1>2, RunTypes
  <1> DEFINE T == {i \in Nat : i <= Len(q) - 1 => f[i + 1] = g[i]}
  <1>5. 0 \in T
    <2>1. 1 \in 1 .. Len(q) /\ 1 - 1 = 0
      BY <1>0
    <2>2. f[1] = Effect(m, q[1])
      BY <1>3, <2>1
    <2> QED
      BY <1>4, <2>2
  <1>6. ASSUME NEW i \in Nat, i \in T PROVE i + 1 \in T
    <2> SUFFICES ASSUME i + 1 <= Len(q) - 1 PROVE f[(i + 1) + 1] = g[i + 1]
      OBVIOUS
    <2>1. i + 1 \in 1 .. Len(q) - 1 /\ (i + 1) + 1 \in 1 .. Len(q)
          /\ (i + 1) - 1 = i /\ ((i + 1) + 1) - 1 = i + 1 /\ f[i + 1] = g[i]
      BY <1>0, <1>6
    <2>2. f[(i + 1) + 1] = Effect(f[i + 1], q[(i + 1) + 1]) /\ g[i + 1] = Effect(g[i], r[i + 1])
      BY <1>3, <1>4, <2>1
    <2>3. r[i + 1] = q[(i + 1) + 1]
      BY <1>0, <2>1
    <2> QED
      BY <2>1, <2>2, <2>3
  <1> HIDE DEF T
  <1>7. Nat \subseteq T
    BY <1>5, <1>6, NatInduct, Zenon
  <1>8. f[Len(q)] = g[Len(q) - 1]
    <2>1. Len(q) - 1 \in T /\ (Len(q) - 1) + 1 = Len(q)
      BY <1>0, <1>7
    <2> QED
      BY <1>0, <2>1 DEF T
  <1> QED
    BY <1>0, <1>1, <1>2, <1>8 DEF r

(* Two memories that differ only in S, where q has nothing to do, differ   *)
(* only there afterwards, and there as before.                             *)
Agree(m, n, S) == \A l \in Location \ S : m[l] = n[l]
Spared(o, S) == \A l \in S : ~Touches(o, l)
Off(q, S) == \A i \in 1 .. Len(q) : Spared(q[i], S)

LEMMA EffectAgree ==
  ASSUME NEW m \in Memories, NEW n \in Memories, NEW S, NEW o \in Ops,
         Agree(m, n, S), Spared(o, S)
  PROVE  /\ Agree(Effect(m, o), Effect(n, o), S)
         /\ \A l \in S \cap Location : Effect(m, o)[l] = m[l]
  <1>1. o.to \notin S /\ (o.new = 0 => o.from \notin S)
    BY DEF Spared, Touches
  <1>2. /\ o.to \in Location /\ o.from \in Location
        /\ Effect(m, o)[o.to] = IF o.new = 0 THEN m[o.from] ELSE <<NewData, o.new>>
        /\ \A l \in Location : l # o.to => Effect(m, o)[l] = m[l]
    BY EffectIs
  <1>3. /\ Effect(n, o)[o.to] = IF o.new = 0 THEN n[o.from] ELSE <<NewData, o.new>>
        /\ \A l \in Location : l # o.to => Effect(n, o)[l] = n[l]
    BY EffectIs
  <1>4. \A l \in Location : l \notin S => m[l] = n[l]
    BY DEF Agree
  <1>5. ASSUME NEW l \in Location, l \notin S PROVE Effect(m, o)[l] = Effect(n, o)[l]
    <2>1. CASE l = o.to
      <3>1. o.new = 0 => m[o.from] = n[o.from]
        BY <1>1, <1>2, <1>4
      <3> QED
        BY <1>2, <1>3, <2>1, <3>1
    <2>2. CASE l # o.to
      BY <1>2, <1>3, <1>4, <1>5, <2>2
    <2> QED
      BY <2>1, <2>2
  <1>6. ASSUME NEW l \in S \cap Location PROVE Effect(m, o)[l] = m[l]
    BY <1>1, <1>2
  <1>7. Agree(Effect(m, o), Effect(n, o), S)
    BY <1>5 DEF Agree
  <1> QED
    BY <1>6, <1>7

LEMMA AfterwardsAgree ==
  ASSUME NEW m \in Memories, NEW n \in Memories, NEW S, NEW q \in Seq(Ops),
         Agree(m, n, S), Off(q, S)
  PROVE  /\ Agree(Afterwards(m, q), Afterwards(n, q), S)
         /\ \A l \in S \cap Location : Afterwards(m, q)[l] = m[l]
  <1>0. Len(q) \in Nat
    OBVIOUS
  <1>1. PICK f : Run(f, m, q) /\ Afterwards(m, q) = f[Len(q)]
    BY AfterwardsIs
  <1>2. PICK g : Run(g, n, q) /\ Afterwards(n, q) = g[Len(q)]
    BY AfterwardsIs
  <1>3. f[0] = m /\ (\A i \in 1 .. Len(q) : q[i] \in Ops /\ f[i] = Effect(f[i - 1], q[i]))
        /\ \A i \in 0 .. Len(q) : f[i] \in Memories
    BY <1>1, RunTypes
  <1>4. g[0] = n /\ (\A i \in 1 .. Len(q) : g[i] = Effect(g[i - 1], q[i]))
        /\ \A i \in 0 .. Len(q) : g[i] \in Memories
    BY <1>2, RunTypes
  <1> DEFINE P(x, y) == Agree(x, y, S) /\ \A l \in S \cap Location : x[l] = m[l]
             T == {i \in Nat : i <= Len(q) => P(f[i], g[i])}
  <1>5. 0 \in T
    BY <1>3, <1>4
  <1>6. ASSUME NEW i \in Nat, i \in T PROVE i + 1 \in T
    <2> SUFFICES ASSUME i + 1 <= Len(q) PROVE P(f[i + 1], g[i + 1])
      OBVIOUS
    <2>1. i + 1 \in 1 .. Len(q) /\ (i + 1) - 1 = i /\ i \in 0 .. Len(q) /\ P(f[i], g[i])
      BY <1>0, <1>6
    <2>2. f[i + 1] = Effect(f[i], q[i + 1]) /\ g[i + 1] = Effect(g[i], q[i + 1])
      BY <1>3, <1>4, <2>1
    <2>3. f[i] \in Memories /\ g[i] \in Memories /\ q[i + 1] \in Ops
      BY <1>3, <1>4, <2>1
    <2>4. Spared(q[i + 1], S)
      BY <2>1 DEF Off
    <2>5. /\ Agree(Effect(f[i], q[i + 1]), Effect(g[i], q[i + 1]), S)
          /\ \A l \in S \cap Location : Effect(f[i], q[i + 1])[l] = f[i][l]
      <3>1. PICK a \in Memories, b \in Memories, o \in Ops : a = f[i] /\ b = g[i] /\ o = q[i + 1]
        BY <2>3
      <3>2. Agree(a, b, S) /\ Spared(o, S)
        BY <2>1, <2>4, <3>1
      <3>3. Agree(Effect(a, o), Effect(b, o), S) /\ \A l \in S \cap Location : Effect(a, o)[l] = a[l]
        BY <3>2, EffectAgree
      <3> QED
        BY <3>1, <3>3
    <2>6. Agree(f[i + 1], g[i + 1], S)
      BY <2>2, <2>5
    <2>7. ASSUME NEW l \in S \cap Location PROVE f[i + 1][l] = m[l]
      <3>1. f[i + 1][l] = f[i][l]
        BY <2>2, <2>5
      <3> QED
        BY <2>1, <3>1
    <2> QED
      BY <2>6, <2>7
  <1> HIDE DEF T
  <1>7. Nat \subseteq T
    BY <1>5, <1>6, NatInduct, Zenon
  <1>8. P(f[Len(q)], g[Len(q)])
    BY <1>0, <1>7 DEF T
  <1> QED
    BY <1>1, <1>2, <1>8

(* Memory that q does not write is what it was. *)
LEMMA AfterwardsFrame ==
  ASSUME NEW m \in Memories, NEW q \in Seq(Ops), NEW l \in Location,
         \A i \in 1 .. Len(q) : q[i].to # l
  PROVE  Afterwards(m, q)[l] = m[l]
  <1>0. Len(q) \in Nat
    OBVIOUS
  <1>1. PICK f : Run(f, m, q) /\ Afterwards(m, q) = f[Len(q)]
    BY AfterwardsIs
  <1>3. f[0] = m /\ (\A i \in 1 .. Len(q) : q[i] \in Ops /\ f[i] = Effect(f[i - 1], q[i]))
        /\ \A i \in 0 .. Len(q) : f[i] \in Memories
    BY <1>1, RunTypes
  <1> DEFINE T == {i \in Nat : i <= Len(q) => f[i][l] = m[l]}
  <1>5. 0 \in T
    BY <1>3
  <1>6. ASSUME NEW i \in Nat, i \in T PROVE i + 1 \in T
    <2> SUFFICES ASSUME i + 1 <= Len(q) PROVE f[i + 1][l] = m[l]
      OBVIOUS
    <2>1. i + 1 \in 1 .. Len(q) /\ (i + 1) - 1 = i /\ i \in 0 .. Len(q) /\ f[i][l] = m[l]
      BY <1>0, <1>6
    <2>2. f[i + 1] = Effect(f[i], q[i + 1]) /\ f[i] \in Memories /\ q[i + 1] \in Ops
          /\ q[i + 1].to # l
      BY <1>3, <2>1
    <2>3. Effect(f[i], q[i + 1])[l] = f[i][l]
      BY <2>2, EffectIs
    <2> QED
      BY <2>1, <2>2, <2>3
  <1> HIDE DEF T
  <1>7. Nat \subseteq T
    BY <1>5, <1>6, NatInduct, Zenon
  <1> QED
    BY <1>0, <1>1, <1>7 DEF T

(* An operation may be made before or after those it is apart from. *)
LEMMA AfterwardsCommute ==
  ASSUME NEW m \in Memories, NEW q \in Seq(Ops), NEW o \in Ops,
         \A i \in 1 .. Len(q) : Apart(o, q[i])
  PROVE  Afterwards(Effect(m, o), q) = Effect(Afterwards(m, q), o)
  <1> DEFINE n == Effect(m, o)
             S == {o.to}
  <1>1. n \in Memories /\ o.to \in Location /\ o.from \in Location
    BY EffectIs
  <1>2. Agree(n, m, S)
    BY EffectIs DEF Agree
  <1>3. Off(q, S)
    BY DEF Off, Spared, Apart
  <1>4. Afterwards(m, q) \in Memories /\ Afterwards(n, q) \in Memories
    BY <1>1, AfterwardsTypes
  <1>5. /\ Agree(Afterwards(n, q), Afterwards(m, q), S)
        /\ \A l \in S \cap Location : Afterwards(n, q)[l] = n[l]
    <2> HIDE DEF n, S
    <2> QED
      BY <1>1, <1>2, <1>3, AfterwardsAgree
  <1>6. n[o.to] = IF o.new = 0 THEN m[o.from] ELSE <<NewData, o.new>>
    BY EffectIs
  <1>7. o.new = 0 => Afterwards(m, q)[o.from] = m[o.from]
    BY <1>1, AfterwardsFrame DEF Apart, Touches
  <1>8. Effect(Afterwards(m, q), o) \in Memories
    BY <1>4, EffectIs
  <1>9. ASSUME NEW l \in Location PROVE Afterwards(n, q)[l] = Effect(Afterwards(m, q), o)[l]
    <2>1. CASE l = o.to
      <3>1. Effect(Afterwards(m, q), o)[l]
              = IF o.new = 0 THEN Afterwards(m, q)[o.from] ELSE <<NewData, o.new>>
        BY <1>4, <2>1, EffectIs
      <3>2. Afterwards(n, q)[l] = n[l]
        BY <1>5, <2>1
      <3> HIDE DEF n
      <3> QED
        BY <1>6, <1>7, <2>1, <3>1, <3>2
    <2>2. CASE l # o.to
      <3>1. Effect(Afterwards(m, q), o)[l] = Afterwards(m, q)[l]
        BY <1>4, <2>2, EffectIs
      <3>2. Afterwards(n, q)[l] = Afterwards(m, q)[l]
        BY <1>5, <2>2 DEF Agree
      <3> HIDE DEF n
      <3> QED
        BY <3>1, <3>2
    <2> QED
      BY <2>1, <2>2
  <1> HIDE DEF n
  <1> QED
    BY <1>4, <1>8, <1>9 DEF Memories, n

-----------------------------------------------------------------------------
(* The same of the queues of all devices. *)
OpQueues == [Devices -> Seq(Ops)]

(* f is what memory holds after all operations of each device of qs. *)
RunAll(f, m, qs) == f = [n \in 0 .. NumDevices |-> IF n = 0 THEN m ELSE Afterwards(f[n - 1], qs[n - 1])]

LEMMA RunAllTypes ==
  ASSUME NEW m \in Memories, NEW qs \in OpQueues, NEW f, RunAll(f, m, qs)
  PROVE  /\ f[0] = m
         /\ \A d \in Devices : f[d + 1] = Afterwards(f[d], qs[d])
         /\ \A n \in 0 .. NumDevices : f[n] \in Memories
  <1>0. NumDevices \in Nat /\ \A d \in Devices : qs[d] \in Seq(Ops)
    BY DeviceAssumption DEF OpQueues
  <1>1. f[0] = m
    BY <1>0 DEF RunAll
  <1>2. ASSUME NEW d \in Devices PROVE f[d + 1] = Afterwards(f[d], qs[d])
    <2>1. d + 1 \in 0 .. NumDevices /\ d + 1 # 0 /\ (d + 1) - 1 = d
      BY <1>0 DEF Devices
    <2>2. f[d + 1] = Afterwards(f[(d + 1) - 1], qs[(d + 1) - 1])
      BY <2>1, Zenon DEF RunAll
    <2> QED
      BY <2>1, <2>2
  <1> DEFINE T == {n \in Nat : n <= NumDevices => f[n] \in Memories}
  <1>3. 0 \in T
    BY <1>1
  <1>4. ASSUME NEW n \in Nat, n \in T PROVE n + 1 \in T
    <2> SUFFICES ASSUME n + 1 <= NumDevices PROVE f[n + 1] \in Memories
      OBVIOUS
    <2>1. n \in Devices /\ n <= NumDevices
      BY <1>0 DEF Devices
    <2>2. f[n] \in Memories
      BY <1>4, <2>1
    <2> QED
      BY <1>0, <1>2, <2>1, <2>2, AfterwardsTypes
  <1> HIDE DEF T
  <1>5. Nat \subseteq T
    BY <1>3, <1>4, NatInduct, Zenon
  <1>6. \A n \in 0 .. NumDevices : f[n] \in Memories
    BY <1>0, <1>5 DEF T
  <1> QED
    BY <1>1, <1>2, <1>6

LEMMA RunAllExists ==
  ASSUME NEW m \in Memories, NEW qs \in OpQueues
  PROVE  \E f : RunAll(f, m, qs)
  <1>0. NumDevices \in Nat /\ \A n \in 1 .. NumDevices : qs[n - 1] \in Seq(Ops)
    <2>1. NumDevices \in Nat /\ \A n \in 1 .. NumDevices : n - 1 \in Devices
      BY DeviceAssumption DEF Devices
    <2> QED
      BY <2>1 DEF OpQueues
  <1> DEFINE F == [n \in 1 .. NumDevices |-> [x \in Memories |-> Afterwards(x, qs[n - 1])]]
  <1>1. \A n \in 1 .. NumDevices, x \in Memories : Afterwards(x, qs[n - 1]) \in Memories
    BY <1>0, AfterwardsTypes
  <1>2. \A n \in 1 .. NumDevices : F[n] \in [Memories -> Memories]
    BY <1>1
  <1>f. ASSUME NEW n \in 1 .. NumDevices, NEW x \in Memories PROVE F[n][x] = Afterwards(x, qs[n - 1])
    OBVIOUS
  <1> HIDE DEF F
  <1>g. PICK g : Iterates(g, m, F, NumDevices) /\ \A n \in 0 .. NumDevices : g[n] \in Memories
    BY <1>0, <1>2, IteratesIn
  <1>3. /\ g = [n \in 0 .. NumDevices |-> IF n = 0 THEN m ELSE F[n][g[n - 1]]]
        /\ \A n \in 0 .. NumDevices : g[n] \in Memories
    BY <1>g, Zenon DEF Iterates
  <1>4. ASSUME NEW n \in 0 .. NumDevices
        PROVE  (IF n = 0 THEN m ELSE F[n][g[n - 1]]) = IF n = 0 THEN m ELSE Afterwards(g[n - 1], qs[n - 1])
    <2>1. n # 0 => n \in 1 .. NumDevices /\ n - 1 \in 0 .. NumDevices
      BY <1>0
    <2> QED
      BY <1>3, <1>f, <2>1
  <1>5. RunAll(g, m, qs)
    BY <1>3, <1>4, Zenon DEF RunAll
  <1> QED
    BY <1>5

LEMMA AfterAllIs ==
  ASSUME NEW m \in Memories, NEW qs \in OpQueues
  PROVE  \E f : RunAll(f, m, qs) /\ AfterAll(m, qs) = f[NumDevices]
  <1> DEFINE G(f) == [n \in 0 .. NumDevices |-> IF n = 0 THEN m ELSE Afterwards(f[n - 1], qs[n - 1])]
             c == CHOOSE f : f = G(f)
  <1>1. \E f : f = G(f)
    BY RunAllExists DEF RunAll
  <1>2. AfterAll(m, qs) = c[NumDevices]
    BY Zenon DEF AfterAll
  <1>3. c = G(c)
    <2> HIDE DEF G
    <2> QED
      BY <1>1, Zenon
  <1>4. RunAll(c, m, qs)
    <2>1. \A f : f = G(f) => RunAll(f, m, qs)
      BY DEF RunAll
    <2> HIDE DEF G, c
    <2> QED
      BY <1>3, <2>1, Zenon
  <1> HIDE DEF c
  <1> QED
    BY <1>2, <1>4

(* What holds of memory, and each device keeps, holds of AfterAll: used as *)
(* induction over the devices.                                             *)
LEMMA AfterAllRun ==
  ASSUME NEW m \in Memories, NEW qs \in OpQueues
  PROVE  \E f : /\ f[0] = m /\ f[NumDevices] = AfterAll(m, qs)
                /\ \A d \in Devices : f[d + 1] = Afterwards(f[d], qs[d])
                /\ \A n \in 0 .. NumDevices : f[n] \in Memories
  <1>1. PICK f : RunAll(f, m, qs) /\ AfterAll(m, qs) = f[NumDevices]
    BY AfterAllIs
  <1> QED
    BY <1>1, RunAllTypes

LEMMA AfterAllTypes ==
  ASSUME NEW m \in Memories, NEW qs \in OpQueues
  PROVE  AfterAll(m, qs) \in Memories
  <1>1. NumDevices \in 0 .. NumDevices
    BY DeviceAssumption
  <1> QED
    BY <1>1, AfterAllRun

LEMMA AfterAllNone ==
  ASSUME NEW m \in Memories
  PROVE  AfterAll(m, [d \in Devices |-> <<>>]) = m
  <1> DEFINE qs == [d \in Devices |-> <<>>]
  <1>0. qs \in OpQueues
    BY DEF OpQueues
  <1>d. \A d \in Devices : qs[d] = <<>>
    OBVIOUS
  <1> HIDE DEF qs
  <1>1. PICK f : /\ f[0] = m /\ f[NumDevices] = AfterAll(m, qs)
                 /\ \A d \in Devices : f[d + 1] = Afterwards(f[d], qs[d])
                 /\ \A n \in 0 .. NumDevices : f[n] \in Memories
    BY <1>0, AfterAllRun
  <1> DEFINE T == {n \in Nat : n <= NumDevices => f[n] = m}
  <1>2. 0 \in T
    BY <1>1
  <1>3. ASSUME NEW n \in Nat, n \in T PROVE n + 1 \in T
    <2> SUFFICES ASSUME n + 1 <= NumDevices PROVE f[n + 1] = m
      OBVIOUS
    <2>1. n \in Devices /\ f[n] = m
      BY <1>3, DeviceAssumption DEF Devices
    <2>2. f[n + 1] = Afterwards(m, <<>>)
      BY <1>1, <1>d, <2>1
    <2> QED
      BY <2>2, AfterwardsNone
  <1> HIDE DEF T
  <1>4. Nat \subseteq T
    BY <1>2, <1>3, NatInduct, Zenon
  <1>5. AfterAll(m, qs) = m
    BY <1>1, <1>4, DeviceAssumption DEF T
  <1> QED
    BY <1>5 DEF qs

(* Two memories and queues, device by device. *)
LEMMA AfterAllSame ==
  ASSUME NEW m \in Memories, NEW qs \in OpQueues, NEW rs \in OpQueues,
         \A d \in Devices : Len(qs[d]) = Len(rs[d])
                            /\ \A i \in 1 .. Len(qs[d]) : SameEffect(qs[d][i], rs[d][i])
  PROVE  AfterAll(m, qs) = AfterAll(m, rs)
  <1>1. PICK f : /\ f[0] = m /\ f[NumDevices] = AfterAll(m, qs)
                 /\ \A d \in Devices : f[d + 1] = Afterwards(f[d], qs[d])
                 /\ \A n \in 0 .. NumDevices : f[n] \in Memories
    BY AfterAllRun
  <1>2. PICK g : /\ g[0] = m /\ g[NumDevices] = AfterAll(m, rs)
                 /\ \A d \in Devices : g[d + 1] = Afterwards(g[d], rs[d])
                 /\ \A n \in 0 .. NumDevices : g[n] \in Memories
    BY AfterAllRun
  <1> DEFINE T == {n \in Nat : n <= NumDevices => f[n] = g[n]}
  <1>3. 0 \in T
    BY <1>1, <1>2
  <1>4. ASSUME NEW n \in Nat, n \in T PROVE n + 1 \in T
    <2> SUFFICES ASSUME n + 1 <= NumDevices PROVE f[n + 1] = g[n + 1]
      OBVIOUS
    <2>1. n \in Devices /\ n \in 0 .. NumDevices /\ f[n] = g[n]
      BY <1>4, DeviceAssumption DEF Devices
    <2>2. f[n + 1] = Afterwards(f[n], qs[n]) /\ g[n + 1] = Afterwards(f[n], rs[n])
      BY <1>1, <1>2, <2>1
    <2>3. f[n] \in Memories /\ qs[n] \in Seq(Ops) /\ rs[n] \in Seq(Ops)
      BY <1>1, <2>1 DEF OpQueues
    <2>4. Len(qs[n]) = Len(rs[n]) /\ \A i \in 1 .. Len(qs[n]) : SameEffect(qs[n][i], rs[n][i])
      BY <2>1
    <2>5. Afterwards(f[n], qs[n]) = Afterwards(f[n], rs[n])
      BY <2>3, <2>4, AfterwardsSame
    <2> QED
      BY <2>2, <2>5
  <1> HIDE DEF T
  <1>5. Nat \subseteq T
    BY <1>3, <1>4, NatInduct, Zenon
  <1> QED
    BY <1>1, <1>2, <1>5, DeviceAssumption DEF T

(* Memory no device has work on keeps what it holds, and may be changed    *)
(* without a difference elsewhere.                                         *)
LEMMA AfterAllAgree ==
  ASSUME NEW m \in Memories, NEW n \in Memories, NEW S, NEW qs \in OpQueues,
         Agree(m, n, S), \A d \in Devices : Off(qs[d], S)
  PROVE  /\ Agree(AfterAll(m, qs), AfterAll(n, qs), S)
         /\ \A l \in S \cap Location : AfterAll(m, qs)[l] = m[l]
  <1>1. PICK f : /\ f[0] = m /\ f[NumDevices] = AfterAll(m, qs)
                 /\ \A d \in Devices : f[d + 1] = Afterwards(f[d], qs[d])
                 /\ \A k \in 0 .. NumDevices : f[k] \in Memories
    BY AfterAllRun
  <1>2. PICK g : /\ g[0] = n /\ g[NumDevices] = AfterAll(n, qs)
                 /\ \A d \in Devices : g[d + 1] = Afterwards(g[d], qs[d])
                 /\ \A k \in 0 .. NumDevices : g[k] \in Memories
    BY AfterAllRun
  <1> DEFINE P(x, y) == Agree(x, y, S) /\ \A l \in S \cap Location : x[l] = m[l]
             T == {k \in Nat : k <= NumDevices => P(f[k], g[k])}
  <1>3. 0 \in T
    BY <1>1, <1>2
  <1>4. ASSUME NEW k \in Nat, k \in T PROVE k + 1 \in T
    <2> SUFFICES ASSUME k + 1 <= NumDevices PROVE P(f[k + 1], g[k + 1])
      OBVIOUS
    <2>1. k \in Devices /\ k \in 0 .. NumDevices /\ k <= NumDevices
      BY DeviceAssumption DEF Devices
    <2>2. P(f[k], g[k])
      BY <1>4, <2>1
    <2>3. f[k + 1] = Afterwards(f[k], qs[k]) /\ g[k + 1] = Afterwards(g[k], qs[k])
      BY <1>1, <1>2, <2>1
    <2>4. f[k] \in Memories /\ g[k] \in Memories /\ qs[k] \in Seq(Ops) /\ Off(qs[k], S)
      BY <1>1, <1>2, <2>1 DEF OpQueues
    <2>5. /\ Agree(Afterwards(f[k], qs[k]), Afterwards(g[k], qs[k]), S)
          /\ \A l \in S \cap Location : Afterwards(f[k], qs[k])[l] = f[k][l]
      BY <2>2, <2>4, AfterwardsAgree
    <2>6. Agree(f[k + 1], g[k + 1], S)
      BY <2>3, <2>5
    <2>7. ASSUME NEW l \in S \cap Location PROVE f[k + 1][l] = m[l]
      <3>1. f[k + 1][l] = f[k][l]
        BY <2>3, <2>5
      <3> QED
        BY <2>2, <3>1
    <2> QED
      BY <2>6, <2>7
  <1> HIDE DEF T
  <1>5. Nat \subseteq T
    BY <1>3, <1>4, NatInduct, Zenon
  <1>6. P(f[NumDevices], g[NumDevices])
    BY <1>5, DeviceAssumption DEF T
  <1> QED
    BY <1>1, <1>2, <1>6

LEMMA AfterAllFrame ==
  ASSUME NEW m \in Memories, NEW qs \in OpQueues, NEW l \in Location,
         \A d \in Devices : \A i \in 1 .. Len(qs[d]) : qs[d][i].to # l
  PROVE  AfterAll(m, qs)[l] = m[l]
  <1>1. PICK f : /\ f[0] = m /\ f[NumDevices] = AfterAll(m, qs)
                 /\ \A d \in Devices : f[d + 1] = Afterwards(f[d], qs[d])
                 /\ \A k \in 0 .. NumDevices : f[k] \in Memories
    BY AfterAllRun
  <1> DEFINE T == {k \in Nat : k <= NumDevices => f[k][l] = m[l]}
  <1>3. 0 \in T
    BY <1>1
  <1>4. ASSUME NEW k \in Nat, k \in T PROVE k + 1 \in T
    <2> SUFFICES ASSUME k + 1 <= NumDevices PROVE f[k + 1][l] = m[l]
      OBVIOUS
    <2>1. k \in Devices /\ k \in 0 .. NumDevices /\ f[k][l] = m[l]
      BY <1>4, DeviceAssumption DEF Devices
    <2>2. f[k + 1] = Afterwards(f[k], qs[k]) /\ f[k] \in Memories /\ qs[k] \in Seq(Ops)
      BY <1>1, <2>1 DEF OpQueues
    <2>3. \A i \in 1 .. Len(qs[k]) : qs[k][i].to # l
      BY <2>1
    <2>4. Afterwards(f[k], qs[k])[l] = f[k][l]
      BY <2>2, <2>3, AfterwardsFrame
    <2> QED
      BY <2>1, <2>2, <2>4
  <1> HIDE DEF T
  <1>5. Nat \subseteq T
    BY <1>3, <1>4, NatInduct, Zenon
  <1> QED
    BY <1>1, <1>5, DeviceAssumption DEF T

(* An operation put into a queue is made after all others in effect. *)
LEMMA AfterAllAppend ==
  ASSUME NEW m \in Memories, NEW qs \in OpQueues, NEW o \in Ops, NEW d \in Devices,
         \A e \in Devices \ {d} : \A i \in 1 .. Len(qs[e]) : Apart(o, qs[e][i])
  PROVE  AfterAll(m, [qs EXCEPT ![d] = Append(@, o)]) = Effect(AfterAll(m, qs), o)
  <1> DEFINE rs == [qs EXCEPT ![d] = Append(@, o)]
  <1>0. /\ rs \in OpQueues
        /\ rs[d] = Append(qs[d], o)
        /\ \A e \in Devices : e # d => rs[e] = qs[e]
    BY DEF OpQueues
  <1> HIDE DEF rs
  <1>1. PICK f : /\ f[0] = m /\ f[NumDevices] = AfterAll(m, qs)
                 /\ \A e \in Devices : f[e + 1] = Afterwards(f[e], qs[e])
                 /\ \A k \in 0 .. NumDevices : f[k] \in Memories
    BY AfterAllRun
  <1>2. PICK g : /\ g[0] = m /\ g[NumDevices] = AfterAll(m, rs)
                 /\ \A e \in Devices : g[e + 1] = Afterwards(g[e], rs[e])
                 /\ \A k \in 0 .. NumDevices : g[k] \in Memories
    BY <1>0, AfterAllRun
  <1>d. d \in Nat /\ d + 1 <= NumDevices
    BY DeviceAssumption DEF Devices
  <1> DEFINE T == {k \in Nat : k <= NumDevices => g[k] = IF k <= d THEN f[k] ELSE Effect(f[k], o)}
  <1>3. 0 \in T
    BY <1>1, <1>2, <1>d
  <1>4. ASSUME NEW k \in Nat, k \in T PROVE k + 1 \in T
    <2> SUFFICES ASSUME k + 1 <= NumDevices
                 PROVE  g[k + 1] = IF k + 1 <= d THEN f[k + 1] ELSE Effect(f[k + 1], o)
      OBVIOUS
    <2>1. k \in Devices /\ k \in 0 .. NumDevices /\ g[k] = IF k <= d THEN f[k] ELSE Effect(f[k], o)
      BY <1>4, DeviceAssumption DEF Devices
    <2>2. f[k + 1] = Afterwards(f[k], qs[k]) /\ g[k + 1] = Afterwards(g[k], rs[k])
      BY <1>1, <1>2, <2>1
    <2>3. f[k] \in Memories /\ qs[k] \in Seq(Ops)
      BY <1>1, <2>1 DEF OpQueues
    <2>4. CASE k < d
      <3>1. k <= d /\ k + 1 <= d /\ k # d
        BY <1>d, <2>4
      <3> QED
        BY <1>0, <2>1, <2>2, <3>1
    <2>5. CASE k = d
      <3>1. k <= d /\ ~(k + 1 <= d)
        BY <1>d, <2>5
      <3>2. Afterwards(f[k], Append(qs[k], o)) = Effect(Afterwards(f[k], qs[k]), o)
        BY <2>3, AfterwardsAppend
      <3> QED
        BY <1>0, <2>1, <2>2, <2>5, <3>1, <3>2
    <2>6. CASE d < k
      <3>1. ~(k <= d) /\ ~(k + 1 <= d) /\ k # d
        BY <1>d, <2>6
      <3>2. \A i \in 1 .. Len(qs[k]) : Apart(o, qs[k][i])
        BY <2>1, <3>1
      <3>3. Afterwards(Effect(f[k], o), qs[k]) = Effect(Afterwards(f[k], qs[k]), o)
        BY <2>3, <3>2, AfterwardsCommute
      <3> QED
        BY <1>0, <2>1, <2>2, <3>1, <3>3
    <2> QED
      BY <1>d, <2>4, <2>5, <2>6
  <1> HIDE DEF T
  <1>5. Nat \subseteq T
    BY <1>3, <1>4, NatInduct, Zenon
  <1>6. AfterAll(m, rs) = Effect(AfterAll(m, qs), o)
    BY <1>1, <1>2, <1>5, <1>d, DeviceAssumption DEF T
  <1> QED
    BY <1>6 DEF rs

(* The first operation of a queue may be made before all others. *)
LEMMA AfterAllHead ==
  ASSUME NEW m \in Memories, NEW qs \in OpQueues, NEW d \in Devices, qs[d] # <<>>,
         \A e \in Devices \ {d} : \A i \in 1 .. Len(qs[e]) : Apart(qs[d][1], qs[e][i])
  PROVE  AfterAll(Effect(m, qs[d][1]), [qs EXCEPT ![d] = Tail(@)]) = AfterAll(m, qs)
  <1> DEFINE rs == [qs EXCEPT ![d] = Tail(@)]
             o == qs[d][1]
  <1>q. qs[d] \in Seq(Ops) /\ o \in Ops /\ Tail(qs[d]) \in Seq(Ops)
    <2>1. qs[d] \in Seq(Ops)
      BY DEF OpQueues
    <2> QED
      BY <2>1
  <1>0. /\ rs \in OpQueues
        /\ rs[d] = Tail(qs[d])
        /\ \A e \in Devices : e # d => rs[e] = qs[e]
    BY <1>q DEF OpQueues
  <1>a. \A e \in Devices : e # d => \A i \in 1 .. Len(qs[e]) : Apart(o, qs[e][i])
    OBVIOUS
  <1>h. \A x \in Memories : Afterwards(x, qs[d]) = Afterwards(Effect(x, o), Tail(qs[d]))
    BY <1>q, AfterwardsHead
  <1>e. Effect(m, o) \in Memories
    BY <1>q, EffectIs
  <1> HIDE DEF rs, o
  <1>1. PICK f : /\ f[0] = m /\ f[NumDevices] = AfterAll(m, qs)
                 /\ \A e \in Devices : f[e + 1] = Afterwards(f[e], qs[e])
                 /\ \A k \in 0 .. NumDevices : f[k] \in Memories
    BY AfterAllRun
  <1>2. PICK g : /\ g[0] = Effect(m, o) /\ g[NumDevices] = AfterAll(Effect(m, o), rs)
                 /\ \A e \in Devices : g[e + 1] = Afterwards(g[e], rs[e])
                 /\ \A k \in 0 .. NumDevices : g[k] \in Memories
    BY <1>0, <1>e, AfterAllRun
  <1>d. d \in Nat /\ d + 1 <= NumDevices
    BY DeviceAssumption DEF Devices
  <1> DEFINE T == {k \in Nat : k <= NumDevices => g[k] = IF k <= d THEN Effect(f[k], o) ELSE f[k]}
  <1>3. 0 \in T
    BY <1>1, <1>2, <1>d
  <1>4. ASSUME NEW k \in Nat, k \in T PROVE k + 1 \in T
    <2> SUFFICES ASSUME k + 1 <= NumDevices
                 PROVE  g[k + 1] = IF k + 1 <= d THEN Effect(f[k + 1], o) ELSE f[k + 1]
      OBVIOUS
    <2>1. k \in Devices /\ k \in 0 .. NumDevices /\ g[k] = IF k <= d THEN Effect(f[k], o) ELSE f[k]
      BY <1>4, DeviceAssumption DEF Devices
    <2>2. f[k + 1] = Afterwards(f[k], qs[k]) /\ g[k + 1] = Afterwards(g[k], rs[k])
      BY <1>1, <1>2, <2>1
    <2>3. f[k] \in Memories /\ qs[k] \in Seq(Ops)
      BY <1>1, <2>1 DEF OpQueues
    <2>4. CASE k < d
      <3>1. k <= d /\ k + 1 <= d /\ k # d
        BY <1>d, <2>4
      <3>2. \A i \in 1 .. Len(qs[k]) : Apart(o, qs[k][i])
        BY <1>a, <2>1, <3>1
      <3>3. Afterwards(Effect(f[k], o), qs[k]) = Effect(Afterwards(f[k], qs[k]), o)
        BY <1>q, <2>3, <3>2, AfterwardsCommute
      <3> QED
        BY <1>0, <2>1, <2>2, <3>1, <3>3
    <2>5. CASE k = d
      <3>1. k <= d /\ ~(k + 1 <= d)
        BY <1>d, <2>5
      <3> QED
        BY <1>0, <1>h, <2>1, <2>2, <2>3, <2>5, <3>1
    <2>6. CASE d < k
      <3>1. ~(k <= d) /\ ~(k + 1 <= d) /\ k # d
        BY <1>d, <2>6
      <3> QED
        BY <1>0, <2>1, <2>2, <3>1
    <2> QED
      BY <1>d, <2>4, <2>5, <2>6
  <1> HIDE DEF T
  <1>5. Nat \subseteq T
    BY <1>3, <1>4, NatInduct, Zenon
  <1>6. AfterAll(Effect(m, o), rs) = AfterAll(m, qs)
    BY <1>1, <1>2, <1>5, <1>d, DeviceAssumption DEF T
  <1> QED
    BY <1>6 DEF rs, o

-----------------------------------------------------------------------------
(* The entries of a call that have bytes.                                  *)
(* f is what Sized has of s up to each of its entries. *)
SizedRun(f, s) ==
  f = [i \in 0 .. Len(s) |-> IF i = 0 THEN <<>>
                             ELSE IF s[i].size = 0 THEN f[i - 1] ELSE Append(f[i - 1], s[i])]

LEMMA SizedRunTypes ==
  ASSUME NEW s \in Seq(EntryRecords), NEW f, SizedRun(f, s)
  PROVE  /\ f[0] = <<>>
         /\ \A i \in 1 .. Len(s) : f[i] = IF s[i].size = 0 THEN f[i - 1] ELSE Append(f[i - 1], s[i])
         /\ \A i \in 0 .. Len(s) : f[i] \in Seq(EntryRecords)
  <1>0. Len(s) \in Nat /\ \A i \in 1 .. Len(s) : s[i] \in EntryRecords
    OBVIOUS
  <1>1. f[0] = <<>>
    BY <1>0 DEF SizedRun
  <1>2. ASSUME NEW i \in 1 .. Len(s)
        PROVE  f[i] = IF s[i].size = 0 THEN f[i - 1] ELSE Append(f[i - 1], s[i])
    <2>1. i \in 0 .. Len(s) /\ i # 0
      BY <1>0
    <2>2. f[i] = IF i = 0 THEN <<>> ELSE IF s[i].size = 0 THEN f[i - 1] ELSE Append(f[i - 1], s[i])
      BY <2>1, Zenon DEF SizedRun
    <2> QED
      BY <2>1, <2>2, Zenon
  <1> DEFINE T == {i \in Nat : i <= Len(s) => f[i] \in Seq(EntryRecords)}
  <1>3. 0 \in T
    <2>1. <<>> \in Seq(EntryRecords)
      OBVIOUS
    <2> QED
      BY <1>1, <2>1
  <1>4. ASSUME NEW i \in Nat, i \in T PROVE i + 1 \in T
    <2> SUFFICES ASSUME i + 1 <= Len(s) PROVE f[i + 1] \in Seq(EntryRecords)
      OBVIOUS
    <2>1. i + 1 \in 1 .. Len(s) /\ (i + 1) - 1 = i /\ f[i] \in Seq(EntryRecords)
      BY <1>0, <1>4
    <2>2. f[i + 1] = IF s[i + 1].size = 0 THEN f[i] ELSE Append(f[i], s[i + 1])
      BY <1>2, <2>1
    <2>3. s[i + 1] \in EntryRecords
      BY <1>0, <2>1
    <2>4. Append(f[i], s[i + 1]) \in Seq(EntryRecords)
      BY <2>1, <2>3
    <2> QED
      BY <2>1, <2>2, <2>4
  <1> HIDE DEF T
  <1>5. Nat \subseteq T
    BY <1>3, <1>4, NatInduct, Zenon
  <1>6. \A i \in 0 .. Len(s) : f[i] \in Seq(EntryRecords)
    BY <1>0, <1>5 DEF T
  <1> QED
    BY <1>1, <1>2, <1>6

LEMMA SizedRunExists ==
  ASSUME NEW s \in Seq(EntryRecords)
  PROVE  \E f : SizedRun(f, s)
  <1>0. Len(s) \in Nat /\ <<>> \in Seq(EntryRecords)
    OBVIOUS
  <1> DEFINE next(x, i) == IF s[i].size = 0 THEN x ELSE Append(x, s[i])
             F == [i \in 1 .. Len(s) |-> [x \in Seq(EntryRecords) |-> next(x, i)]]
  <1>1. \A i \in 1 .. Len(s), x \in Seq(EntryRecords) : next(x, i) \in Seq(EntryRecords)
    OBVIOUS
  <1> HIDE DEF next
  <1>2. \A i \in 1 .. Len(s) : F[i] \in [Seq(EntryRecords) -> Seq(EntryRecords)]
    BY <1>1
  <1>f. ASSUME NEW i \in 1 .. Len(s), NEW x \in Seq(EntryRecords) PROVE F[i][x] = next(x, i)
    OBVIOUS
  <1> HIDE DEF F
  <1>g. PICK g : Iterates(g, <<>>, F, Len(s)) /\ \A i \in 0 .. Len(s) : g[i] \in Seq(EntryRecords)
    BY <1>0, <1>2, IteratesIn
  <1>3. /\ g = [i \in 0 .. Len(s) |-> IF i = 0 THEN <<>> ELSE F[i][g[i - 1]]]
        /\ \A i \in 0 .. Len(s) : g[i] \in Seq(EntryRecords)
    BY <1>g, Zenon DEF Iterates
  <1>4. ASSUME NEW i \in 0 .. Len(s)
        PROVE  (IF i = 0 THEN <<>> ELSE F[i][g[i - 1]])
                 = IF i = 0 THEN <<>> ELSE IF s[i].size = 0 THEN g[i - 1] ELSE Append(g[i - 1], s[i])
    <2>1. i # 0 => i \in 1 .. Len(s) /\ i - 1 \in 0 .. Len(s)
      BY <1>0
    <2> QED
      BY <1>3, <1>f, <2>1, Zenon DEF next
  <1>5. SizedRun(g, s)
    BY <1>3, <1>4, Zenon DEF SizedRun
  <1> QED
    BY <1>5

LEMMA SizedIs ==
  ASSUME NEW s \in Seq(EntryRecords)
  PROVE  \E f : /\ f[0] = <<>> /\ f[Len(s)] = Sized(s)
                /\ \A i \in 1 .. Len(s) : f[i] = IF s[i].size = 0 THEN f[i - 1] ELSE Append(f[i - 1], s[i])
                /\ \A i \in 0 .. Len(s) : f[i] \in Seq(EntryRecords)
  <1> DEFINE G(f) == [i \in 0 .. Len(s) |-> IF i = 0 THEN <<>>
                             ELSE IF s[i].size = 0 THEN f[i - 1] ELSE Append(f[i - 1], s[i])]
             c == CHOOSE f : f = G(f)
  <1>1. \E f : f = G(f)
    BY SizedRunExists DEF SizedRun
  <1>2. Sized(s) = c[Len(s)]
    BY Zenon DEF Sized
  <1>3. c = G(c)
    <2> HIDE DEF G
    <2> QED
      BY <1>1, Zenon
  <1>4. SizedRun(c, s)
    <2>1. \A f : f = G(f) => SizedRun(f, s)
      BY DEF SizedRun
    <2> HIDE DEF G, c
    <2> QED
      BY <1>3, <2>1, Zenon
  <1> HIDE DEF c
  <1> QED
    BY <1>2, <1>4, SizedRunTypes

LEMMA SizedTypes ==
  ASSUME NEW s \in Seq(EntryRecords)
  PROVE  /\ Sized(s) \in Seq(EntryRecords)
         /\ s = <<>> => Sized(s) = <<>>
  <1>1. Len(s) \in 0 .. Len(s) /\ (s = <<>> => Len(s) = 0)
    OBVIOUS
  <1> QED
    BY <1>1, SizedIs

(* Sized keeps entries of s, and those that have bytes. *)
LEMMA SizedKeeps ==
  ASSUME NEW s \in Seq(EntryRecords)
  PROVE  \A j \in 1 .. Len(Sized(s)) : \E i \in 1 .. Len(s) : s[i] = Sized(s)[j] /\ s[i].size # 0
  <1>0. Len(s) \in Nat /\ \A i \in 1 .. Len(s) : s[i] \in EntryRecords
    OBVIOUS
  <1>1. PICK f : /\ f[0] = <<>> /\ f[Len(s)] = Sized(s)
                 /\ \A i \in 1 .. Len(s) : f[i] = IF s[i].size = 0 THEN f[i - 1] ELSE Append(f[i - 1], s[i])
                 /\ \A i \in 0 .. Len(s) : f[i] \in Seq(EntryRecords)
    BY SizedIs
  <1> DEFINE P(t) == \A j \in 1 .. Len(t) : \E i \in 1 .. Len(s) : s[i] = t[j] /\ s[i].size # 0
             T == {i \in Nat : i <= Len(s) => P(f[i])}
  <1>2. 0 \in T
    <2>1. Len(<<>>) = 0
      OBVIOUS
    <2>2. P(<<>>)
      BY <2>1
    <2> QED
      BY <1>1, <2>2
  <1>3. ASSUME NEW i \in Nat, i \in T PROVE i + 1 \in T
    <2> SUFFICES ASSUME i + 1 <= Len(s) PROVE P(f[i + 1])
      OBVIOUS
    <2>0. i + 1 \in 1 .. Len(s) /\ (i + 1) - 1 = i /\ i \in 0 .. Len(s) /\ i <= Len(s)
      BY <1>0
    <2>1. i + 1 \in 1 .. Len(s) /\ (i + 1) - 1 = i /\ i \in 0 .. Len(s) /\ P(f[i])
      <3> HIDE DEF P
      <3> QED
        BY <1>3, <2>0
    <2>2. f[i] \in Seq(EntryRecords)
      BY <1>1, <2>1
    <2>3. f[i + 1] = IF s[i + 1].size = 0 THEN f[i] ELSE Append(f[i], s[i + 1])
      BY <1>1, <2>1
    <2>4. CASE s[i + 1].size = 0
      BY <2>1, <2>3, <2>4
    <2>5. CASE s[i + 1].size # 0
      <3>1. f[i + 1] = Append(f[i], s[i + 1])
        BY <2>3, <2>5
      <3>2. /\ Len(f[i + 1]) = Len(f[i]) + 1 /\ Len(f[i]) \in Nat
            /\ f[i + 1][Len(f[i]) + 1] = s[i + 1]
            /\ \A j \in 1 .. Len(f[i]) : f[i + 1][j] = f[i][j]
        BY <2>2, <3>1
      <3>3. ASSUME NEW j \in 1 .. Len(f[i + 1])
            PROVE  \E k \in 1 .. Len(s) : s[k] = f[i + 1][j] /\ s[k].size # 0
        <4>1. j \in 1 .. Len(f[i]) \/ j = Len(f[i]) + 1
          BY <3>2
        <4> QED
          BY <2>1, <2>5, <3>2, <4>1
      <3> QED
        BY <3>3
    <2> QED
      BY <2>4, <2>5
  <1> HIDE DEF T
  <1>4. Nat \subseteq T
    BY <1>2, <1>3, NatInduct, Zenon
  <1>5. P(f[Len(s)])
    BY <1>0, <1>4, SMTT(60) DEF T
  <1> QED
    BY <1>1, <1>5

LEMMA SizedLen ==
  ASSUME NEW s \in Seq(EntryRecords)
  PROVE  Len(Sized(s)) = Cardinality({i \in 1 .. Len(s) : s[i].size = 1})
  <1>0. Len(s) \in Nat /\ \A i \in 1 .. Len(s) : s[i].size \in {0, 1}
    <2>1. Len(s) \in Nat /\ \A i \in 1 .. Len(s) : s[i] \in EntryRecords
      OBVIOUS
    <2> QED
      BY <2>1 DEF EntryRecords
  <1>1. PICK f : /\ f[0] = <<>> /\ f[Len(s)] = Sized(s)
                 /\ \A i \in 1 .. Len(s) : f[i] = IF s[i].size = 0 THEN f[i - 1] ELSE Append(f[i - 1], s[i])
                 /\ \A i \in 0 .. Len(s) : f[i] \in Seq(EntryRecords)
    BY SizedIs
  <1> DEFINE W(n) == {i \in 1 .. n : s[i].size = 1}
             T == {n \in Nat : n <= Len(s) => IsFiniteSet(W(n)) /\ Len(f[n]) = Cardinality(W(n))}
  <1>2. 0 \in T
    <2>1. W(0) = {} /\ Len(<<>>) = 0
      OBVIOUS
    <2> HIDE DEF W
    <2> QED
      BY <1>1, <2>1, FS_EmptySet
  <1>3. ASSUME NEW n \in Nat, n \in T PROVE n + 1 \in T
    <2> SUFFICES ASSUME n + 1 <= Len(s)
                 PROVE  IsFiniteSet(W(n + 1)) /\ Len(f[n + 1]) = Cardinality(W(n + 1))
      OBVIOUS
    <2>1. n + 1 \in 1 .. Len(s) /\ (n + 1) - 1 = n /\ n \in 0 .. Len(s) /\ n + 1 \notin W(n)
      BY <1>0
    <2>0. IsFiniteSet(W(n)) /\ Len(f[n]) = Cardinality(W(n))
      BY <1>3, <2>1
    <2>2. f[n] \in Seq(EntryRecords)
      BY <1>1, <2>1
    <2>3. f[n + 1] = IF s[n + 1].size = 0 THEN f[n] ELSE Append(f[n], s[n + 1])
      BY <1>1, <2>1
    <2>4. W(n + 1) = IF s[n + 1].size = 0 THEN W(n) ELSE W(n) \cup {n + 1}
      BY <1>0, <2>1
    <2> HIDE DEF W
    <2>5. CASE s[n + 1].size = 0
      BY <2>0, <2>3, <2>4, <2>5
    <2>6. CASE s[n + 1].size # 0
      <3>1. Len(f[n + 1]) = Len(f[n]) + 1
        BY <2>2, <2>3, <2>6
      <3>2. IsFiniteSet(W(n) \cup {n + 1}) /\ Cardinality(W(n) \cup {n + 1}) = Cardinality(W(n)) + 1
        BY <2>0, <2>1, FS_AddElement
      <3> QED
        BY <2>0, <2>4, <2>6, <3>1, <3>2
    <2> QED
      BY <2>5, <2>6
  <1> HIDE DEF T
  <1>4. Nat \subseteq T
    BY <1>2, <1>3, NatInduct, Zenon
  <1>5. Len(f[Len(s)]) = Cardinality(W(Len(s)))
    <2> HIDE DEF W
    <2>1. Len(s) \in T
      BY <1>0, <1>4
    <2> QED
      BY <1>0, <2>1 DEF T
  <1> QED
    BY <1>1, <1>5

(* Taking the first entry takes it from Sized, if it has bytes. *)
LEMMA SizedHead ==
  ASSUME NEW s \in Seq(EntryRecords), s # <<>>
  PROVE  /\ s[1].size = 0 => Sized(Tail(s)) = Sized(s)
         /\ s[1].size # 0 => /\ Len(Sized(s)) = Len(Sized(Tail(s))) + 1
                             /\ Sized(s)[1] = s[1]
                             /\ \A j \in 1 .. Len(Sized(Tail(s))) : Sized(s)[j + 1] = Sized(Tail(s))[j]
                             /\ Sized(Tail(s)) = Tail(Sized(s))
  <1> DEFINE r == Tail(s)
  <1>0. Len(s) \in Nat /\ Len(s) >= 1 /\ r \in Seq(EntryRecords) /\ Len(r) = Len(s) - 1
        /\ (\A i \in 1 .. Len(s) : s[i] \in EntryRecords)
        /\ \A i \in 1 .. Len(s) - 1 : r[i] = s[i + 1]
    OBVIOUS
  <1> HIDE DEF r
  <1>1. PICK f : /\ f[0] = <<>> /\ f[Len(s)] = Sized(s)
                 /\ \A i \in 1 .. Len(s) : f[i] = IF s[i].size = 0 THEN f[i - 1] ELSE Append(f[i - 1], s[i])
                 /\ \A i \in 0 .. Len(s) : f[i] \in Seq(EntryRecords)
    BY SizedIs
  <1>2. PICK g : /\ g[0] = <<>> /\ g[Len(r)] = Sized(r)
                 /\ \A i \in 1 .. Len(r) : g[i] = IF r[i].size = 0 THEN g[i - 1] ELSE Append(g[i - 1], r[i])
                 /\ \A i \in 0 .. Len(r) : g[i] \in Seq(EntryRecords)
    BY <1>0, SizedIs
  <1> DEFINE P(t, u) == /\ s[1].size = 0 => t = u
                        /\ s[1].size # 0 => /\ Len(t) = Len(u) + 1 /\ t[1] = s[1]
                                            /\ \A j \in 1 .. Len(u) : t[j + 1] = u[j]
             T == {i \in Nat : i <= Len(s) - 1 => P(f[i + 1], g[i])}
  <1>3. 0 \in T
    <2>1. 1 \in 1 .. Len(s) /\ 1 - 1 = 0
      BY <1>0
    <2>2. f[1] = IF s[1].size = 0 THEN <<>> ELSE Append(<<>>, s[1])
      BY <1>1, <2>1
    <2>3. Append(<<>>, s[1]) = <<s[1]>>
      OBVIOUS
    <2>4. Len(<<s[1]>>) = Len(<<>>) + 1 /\ <<s[1]>>[1] = s[1] /\ \A j \in 1 .. Len(<<>>) : FALSE
      OBVIOUS
    <2>5. P(f[1], <<>>)
      BY <2>2, <2>3, <2>4
    <2>6. P(f[0 + 1], g[0])
      BY <1>2, <2>5
    <2> HIDE DEF P
    <2> QED
      BY <2>6
  <1>4. ASSUME NEW i \in Nat, i \in T PROVE i + 1 \in T
    <2> SUFFICES ASSUME i + 1 <= Len(s) - 1 PROVE P(f[(i + 1) + 1], g[i + 1])
      OBVIOUS
    <2>1. i + 1 \in 1 .. Len(r) /\ (i + 1) + 1 \in 1 .. Len(s) /\ i + 1 \in 0 .. Len(s) /\ i \in 0 .. Len(r)
          /\ (i + 1) - 1 = i /\ ((i + 1) + 1) - 1 = i + 1
      BY <1>0
    <2>2. P(f[i + 1], g[i])
      BY <1>4
    <2> DEFINE x == r[i + 1]
    <2>3. x = s[(i + 1) + 1]
      BY <1>0, <2>1
    <2>4. f[(i + 1) + 1] = IF x.size = 0 THEN f[i + 1] ELSE Append(f[i + 1], x)
      BY <1>1, <2>1, <2>3
    <2>5. g[i + 1] = IF x.size = 0 THEN g[i] ELSE Append(g[i], x)
      BY <1>2, <2>1
    <2>6. f[i + 1] \in Seq(EntryRecords) /\ g[i] \in Seq(EntryRecords)
      BY <1>1, <1>2, <2>1
    <2> HIDE DEF x
    <2>7. CASE x.size = 0
      BY <2>2, <2>4, <2>5, <2>7
    <2>8. CASE x.size # 0
      <3>1. f[(i + 1) + 1] = Append(f[i + 1], x) /\ g[i + 1] = Append(g[i], x)
        BY <2>4, <2>5, <2>8
      <3>2. CASE s[1].size = 0
        BY <2>2, <3>1, <3>2
      <3>3. CASE s[1].size # 0
        <4>0. /\ Len(f[i + 1]) = Len(g[i]) + 1 /\ f[i + 1][1] = s[1]
              /\ \A j \in 1 .. Len(g[i]) : f[i + 1][j + 1] = g[i][j]
          BY <2>2, <3>3
        <4>1. /\ Len(Append(f[i + 1], x)) = Len(f[i + 1]) + 1
              /\ Append(f[i + 1], x)[Len(f[i + 1]) + 1] = x
              /\ \A j \in 1 .. Len(f[i + 1]) : Append(f[i + 1], x)[j] = f[i + 1][j]
              /\ Len(f[i + 1]) \in Nat
          BY <2>6
        <4>2. /\ Len(Append(g[i], x)) = Len(g[i]) + 1
              /\ Append(g[i], x)[Len(g[i]) + 1] = x
              /\ \A j \in 1 .. Len(g[i]) : Append(g[i], x)[j] = g[i][j]
              /\ Len(g[i]) \in Nat
          BY <2>6
        <4>3. ASSUME NEW j \in 1 .. Len(Append(g[i], x))
              PROVE  Append(f[i + 1], x)[j + 1] = Append(g[i], x)[j]
          <5>1. CASE j = Len(g[i]) + 1
            BY <4>0, <4>1, <4>2, <5>1
          <5>2. CASE j # Len(g[i]) + 1
            <6>1. j \in 1 .. Len(g[i]) /\ j + 1 \in 1 .. Len(f[i + 1])
              BY <4>0, <4>2, <5>2
            <6> QED
              BY <4>0, <4>1, <4>2, <6>1
          <5> QED
            BY <5>1, <5>2
        <4>4. 1 \in 1 .. Len(f[i + 1]) /\ Len(Append(f[i + 1], x)) = Len(Append(g[i], x)) + 1
          BY <4>0, <4>1, <4>2
        <4> QED
          BY <3>1, <3>3, <4>0, <4>1, <4>3, <4>4
      <3> QED
        BY <3>2, <3>3
    <2> QED
      BY <2>7, <2>8
  <1> HIDE DEF T
  <1>5. Nat \subseteq T
    BY <1>3, <1>4, NatInduct, Zenon
  <1>6. P(f[Len(s)], g[Len(s) - 1])
    <2>1. Len(s) - 1 \in T /\ (Len(s) - 1) + 1 = Len(s)
      BY <1>0, <1>5
    <2> QED
      BY <1>0, <2>1 DEF T
  <1>7. P(Sized(s), Sized(r))
    BY <1>0, <1>1, <1>2, <1>6
  <1>8. Sized(s) \in Seq(EntryRecords) /\ Sized(r) \in Seq(EntryRecords)
    BY <1>0, SizedTypes
  <1>9. s[1].size # 0 => Sized(r) = Tail(Sized(s))
    <2> DEFINE t == Sized(s)  u == Sized(r)
    <2> SUFFICES ASSUME s[1].size # 0 PROVE u = Tail(t)
      OBVIOUS
    <2>1. Len(t) = Len(u) + 1 /\ (\A j \in 1 .. Len(u) : t[j + 1] = u[j])
          /\ t \in Seq(EntryRecords) /\ u \in Seq(EntryRecords)
      BY <1>7, <1>8
    <2> HIDE DEF t, u
    <2>2. Len(u) \in Nat /\ t # <<>>
      BY <2>1
    <2>3. Tail(t) \in Seq(EntryRecords) /\ Len(Tail(t)) = Len(u) /\ \A j \in 1 .. Len(u) : Tail(t)[j] = u[j]
      BY <2>1, <2>2
    <2> QED
      BY <2>1, <2>2, <2>3
  <1> QED
    BY <1>7, <1>9 DEF r

-----------------------------------------------------------------------------
(* Queues as operations are submitted, and which of the invariant's parts  *)
(* a submission keeps.                                                     *)
LEMMA QueueElements ==
  ASSUME NEW q \in Seq(Ops)
  PROVE  /\ Len(q) \in Nat /\ DOMAIN q = 1 .. Len(q)
         /\ \A i \in 1 .. Len(q) : q[i] \in Ops
         /\ \A o \in {q[i] : i \in DOMAIN q} : o \in Ops
  OBVIOUS

LEMMA QueueAppended ==
  ASSUME NEW q \in Seq(Ops), NEW o \in Ops
  PROVE  /\ Append(q, o) \in Seq(Ops)
         /\ Len(Append(q, o)) = Len(q) + 1 /\ Append(q, o)[Len(q) + 1] = o
         /\ \A i \in 1 .. Len(q) : Append(q, o)[i] = q[i]
         /\ DOMAIN Append(q, o) = 1 .. Len(q) + 1
         /\ \A u : u \in {Append(q, o)[i] : i \in DOMAIN Append(q, o)}
                   <=> u = o \/ u \in {q[i] : i \in DOMAIN q}
  <1> DEFINE r == Append(q, o)
  <1>1. /\ r \in Seq(Ops) /\ Len(r) = Len(q) + 1 /\ r[Len(q) + 1] = o /\ Len(q) \in Nat
        /\ \A i \in 1 .. Len(q) : r[i] = q[i]
    OBVIOUS
  <1>2. DOMAIN r = 1 .. Len(q) + 1 /\ DOMAIN q = 1 .. Len(q)
    BY <1>1
  <1> HIDE DEF r
  <1>3. ASSUME NEW u PROVE u \in {r[i] : i \in DOMAIN r} <=> u = o \/ u \in {q[i] : i \in DOMAIN q}
    <2>1. ASSUME NEW i \in DOMAIN r, u = r[i] PROVE u = o \/ u \in {q[j] : j \in DOMAIN q}
      <3>1. i \in 1 .. Len(q) \/ i = Len(q) + 1
        BY <1>1, <1>2
      <3> QED
        BY <1>1, <1>2, <2>1, <3>1
    <2>2. ASSUME NEW i \in DOMAIN q, u = q[i] PROVE u \in {r[j] : j \in DOMAIN r}
      <3>1. i \in DOMAIN r /\ r[i] = u
        BY <1>1, <1>2, <2>2
      <3> QED
        BY <3>1
    <2>3. u = o => u \in {r[j] : j \in DOMAIN r}
      BY <1>1, <1>2
    <2> QED
      BY <2>1, <2>2, <2>3
  <1> QED
    BY <1>1, <1>2, <1>3 DEF r

(* An operation with an event recorded behind it. *)
Marked(o, p) == [o EXCEPT !.events = IF p = NoBuffer THEN @ ELSE @ \cup {p}]

LEMMA RecordSubmits ==
  ASSUME queues \in OpQueues, NEW d \in Devices, NEW o \in Ops, NEW p \in PinnedBuffers \cup {NoBuffer}
  PROVE  /\ Record(Submit(d, o), d, p) = Submit(d, Marked(o, p))
         /\ Marked(o, p) \in Ops /\ SameEffect(Marked(o, p), o) /\ Marked(o, p).raw = o.raw
         /\ p # NoBuffer => p \in Marked(o, p).events
  <1>q. queues[d] \in Seq(Ops)
    BY DEF OpQueues
  <1>1. Marked(o, p) \in Ops /\ SameEffect(Marked(o, p), o) /\ Marked(o, p).raw = o.raw
        /\ (p # NoBuffer => p \in Marked(o, p).events)
    BY DEF Marked, Ops, SameEffect
  <1> DEFINE q == Append(queues[d], o)
             s == Submit(d, o)
  <1>2. s[d] = q /\ q \in Seq(Ops) /\ q # <<>> /\ Len(q) = Len(queues[d]) + 1
    BY <1>q DEF Submit, OpQueues
  <1>3. Record(s, d, p) = Submit(d, Marked(o, p))
    <2>1. CASE p = NoBuffer
      <3>1. Marked(o, p) = o
        BY <2>1 DEF Marked, Ops
      <3> QED
        BY <2>1, <3>1 DEF Record
    <2>2. CASE p # NoBuffer
      <3>1. Record(s, d, p) = [s EXCEPT ![d] = [q EXCEPT ![Len(q)] = [q[Len(q)] EXCEPT !.events = @ \cup {p}]]]
        <4> HIDE DEF s, q
        <4> QED
          BY <1>2, <2>2 DEF Record
      <3>2. q[Len(q)] = o /\ Marked(o, p) = [o EXCEPT !.events = @ \cup {p}]
        BY <1>q, <2>2 DEF Marked
      <3>3. Record(s, d, p) = [s EXCEPT ![d] = Append(queues[d], Marked(o, p))]
        <4>1. [q EXCEPT ![Len(q)] = Marked(o, p)] = Append(queues[d], Marked(o, p))
          <5> DEFINE t == [q EXCEPT ![Len(q)] = Marked(o, p)]
                     u == Append(queues[d], Marked(o, p))
          <5>1. Len(q) \in Nat /\ t \in Seq(Ops) /\ u \in Seq(Ops) /\ Len(t) = Len(q) /\ Len(u) = Len(q)
            BY <1>1, <1>2, <1>q
          <5>2. ASSUME NEW i \in 1 .. Len(q) PROVE t[i] = u[i]
            <6>1. Len(queues[d]) \in Nat /\ Len(q) = Len(queues[d]) + 1
              BY <1>2, <1>q
            <6>2. CASE i = Len(q)
              BY <1>1, <1>2, <1>q, <6>1, <6>2
            <6>3. CASE i # Len(q)
              <7>1. i \in 1 .. Len(queues[d])
                BY <6>1, <6>3
              <7>2. q[i] = queues[d][i] /\ u[i] = queues[d][i]
                BY <1>1, <1>q, <7>1, QueueAppended
              <7>3. t[i] = q[i]
                <8> HIDE DEF q
                <8> QED
                  BY <1>2, <6>3
              <7> QED
                BY <7>2, <7>3
            <6> QED
              BY <6>2, <6>3
          <5> HIDE DEF t, u
          <5>3. t = u
            BY <5>1, <5>2
          <5> QED
            BY <5>3 DEF t, u
        <4> HIDE DEF s, q
        <4> QED
          BY <3>1, <3>2, <4>1
      <3>4. [s EXCEPT ![d] = Append(queues[d], Marked(o, p))] = Submit(d, Marked(o, p))
        BY DEF Submit, OpQueues
      <3> QED
        BY <3>3, <3>4
    <2> QED
      BY <2>1, <2>2
  <1> QED
    BY <1>1, <1>3

LEMMA Submitted ==
  ASSUME queues \in OpQueues, NEW d \in Devices, NEW o \in Ops, queues' = Submit(d, o)
  PROVE  /\ queues' \in OpQueues
         /\ \A e \in Devices : e # d => queues'[e] = queues[e] /\ Pending(e)' = Pending(e)
         /\ \A u : u \in Pending(d)' <=> u = o \/ u \in Pending(d)
         /\ DOMAIN queues'[d] = 1 .. Len(queues[d]) + 1 /\ Len(queues'[d]) = Len(queues[d]) + 1
         /\ queues'[d][Len(queues[d]) + 1] = o
         /\ Len(queues[d]) \in Nat
         /\ \A i \in 1 .. Len(queues[d]) : queues'[d][i] = queues[d][i]
  <1>1. queues[d] \in Seq(Ops) /\ Len(queues[d]) \in Nat
    BY DEF OpQueues
  <1>2. queues'[d] = Append(queues[d], o) /\ \A e \in Devices : e # d => queues'[e] = queues[e]
    BY DEF OpQueues, Submit
  <1>3. queues' \in OpQueues
    BY <1>1, QueueAppended DEF OpQueues, Submit
  <1>4. \A e \in Devices : e # d => Pending(e)' = Pending(e)
    BY <1>2 DEF Pending
  <1>5. \A u : u \in Pending(d)' <=> u = o \/ u \in Pending(d)
    BY <1>1, <1>2, QueueAppended, SMTT(60) DEF Pending
  <1> QED
    BY <1>1, <1>2, <1>3, <1>4, <1>5, QueueAppended

(* What keeps the queues apart when an operation is submitted. *)
LEMMA SubmitKeeps ==
  ASSUME CopiesApart, NEW d \in Devices, NEW o \in Ops, queues' = Submit(d, o),
         owner' = owner,
         OpLocal(d, o), OpHost(d, o)',
         \A e \in Devices : Waiting(e) => Waiting(e)',
         \A e \in Devices \ {d} : \A u \in Pending(e) : Apart(o, u),
         \A p \in PinnedBuffers : InCall /\ copyCall.buffer = p =>
             (InCall /\ copyCall.buffer = p)' /\ copyCall'.device = copyCall.device,
         ~o.raw => \A p \in PinnedBuffers \cap {o.from[1], o.to[1]} :
             \/ p \in o.events
             \/ (InCall /\ copyCall.buffer = p /\ copyCall.device = d)' /\ o.to[1] # p
  PROVE  QueuesLocal' /\ QueuesApart' /\ EventsRecorded'
  <1>0. queues \in OpQueues
    BY DEF CopiesApart, MemTypes, OpQueues
  <1>1. /\ queues' \in OpQueues
        /\ \A e \in Devices : e # d => queues'[e] = queues[e] /\ Pending(e)' = Pending(e)
        /\ \A u : u \in Pending(d)' <=> u = o \/ u \in Pending(d)
        /\ DOMAIN queues'[d] = 1 .. Len(queues[d]) + 1 /\ Len(queues'[d]) = Len(queues[d]) + 1
        /\ queues'[d][Len(queues[d]) + 1] = o
        /\ Len(queues[d]) \in Nat
        /\ \A i \in 1 .. Len(queues[d]) : queues'[d][i] = queues[d][i]
    BY <1>0, Submitted
  <1>2. QueuesLocal'
    <2>1. ASSUME NEW e \in Devices, NEW u \in Pending(e) PROVE OpLocal(e, u) /\ OpHost(e, u)'
      <3>1. OpLocal(e, u) /\ OpHost(e, u)
        BY <2>1 DEF CopiesApart, QueuesLocal
      <3> QED
        BY <3>1 DEF OpHost
    <2>2. ASSUME NEW e \in Devices, NEW u \in Pending(e)' PROVE OpLocal(e, u) /\ OpHost(e, u)'
      <3>1. CASE u \in Pending(e)
        BY <2>1, <3>1
      <3>2. CASE u \notin Pending(e)
        <4>1. e = d /\ u = o
          BY <1>1, <3>2
        <4> QED
          BY <4>1
      <3> QED
        BY <3>1, <3>2
    <2> QED
      BY <2>2 DEF QueuesLocal, OpLocal
  <1>3. QueuesApart'
    <2>1. ASSUME NEW e \in Devices, NEW f \in Devices, e # f, NEW u \in Pending(e)', NEW w \in Pending(f)'
          PROVE  Apart(u, w)
      <3>1. CASE u \in Pending(e) /\ w \in Pending(f)
        BY <2>1, <3>1 DEF CopiesApart, QueuesApart
      <3>2. CASE u \notin Pending(e)
        <4>1. e = d /\ u = o /\ f # d /\ w \in Pending(f)
          BY <1>1, <2>1, <3>2
        <4> QED
          BY <4>1
      <3>3. CASE w \notin Pending(f)
        <4>1. f = d /\ w = o /\ e # d /\ u \in Pending(e)
          BY <1>1, <2>1, <3>3
        <4>2. Apart(o, u)
          BY <4>1
        <4> QED
          BY <4>1, <4>2 DEF Apart
      <3> QED
        BY <3>1, <3>2, <3>3
    <2> QED
      BY <2>1 DEF QueuesApart, Apart, Touches
  <1>4. EventsRecorded'
    <2>1. ASSUME NEW e \in Devices, NEW i \in DOMAIN queues'[e], NEW u, u = queues'[e][i], ~u.raw,
                 NEW p \in PinnedBuffers \cap {u.from[1], u.to[1]}
          PROVE  \/ \E j \in i .. Len(queues'[e]) : p \in queues'[e][j].events
                 \/ (InCall /\ copyCall.buffer = p /\ copyCall.device = e)' /\ u.to[1] # p
      <3>q. queues[e] \in Seq(Ops) /\ Len(queues[e]) \in Nat /\ DOMAIN queues[e] = 1 .. Len(queues[e])
        BY <1>0 DEF OpQueues
      <3>1. CASE i \in 1 .. Len(queues[e])
        <4>1. u = queues[e][i] /\ Recorded(e, i)
          <5>1. u = queues[e][i]
            BY <1>1, <2>1, <3>1
          <5> QED
            BY <3>1, <3>q, <5>1 DEF CopiesApart, EventsRecorded
        <4>2. \/ \E j \in i .. Len(queues[e]) : p \in queues[e][j].events
              \/ (InCall /\ copyCall.buffer = p /\ copyCall.device = e) /\ u.to[1] # p
          BY <2>1, <4>1 DEF Recorded
        <4>3. CASE \E j \in i .. Len(queues[e]) : p \in queues[e][j].events
          <5>1. PICK j \in i .. Len(queues[e]) : p \in queues[e][j].events
            BY <4>3
          <5>2. j \in 1 .. Len(queues[e]) /\ i <= j
            BY <3>1, <3>q, <5>1
          <5>3. queues'[e][j] = queues[e][j] /\ j \in i .. Len(queues'[e])
            BY <1>1, <3>q, <5>1, <5>2
          <5> QED
            BY <5>1, <5>3
        <4>4. CASE (InCall /\ copyCall.buffer = p /\ copyCall.device = e) /\ u.to[1] # p
          BY <4>4
        <4> QED
          BY <4>2, <4>3, <4>4
      <3>2. CASE i \notin 1 .. Len(queues[e])
        <4>1. e = d /\ i = Len(queues[d]) + 1 /\ u = o /\ i \in i .. Len(queues'[e])
          <5>1. e = d
            BY <1>1, <2>1, <3>2, <3>q
          <5> QED
            BY <1>1, <2>1, <3>2, <5>1
        <4> QED
          BY <2>1, <4>1
      <3> QED
        BY <3>1, <3>2
    <2> QED
      BY <2>1 DEF EventsRecorded, Recorded
  <1> QED
    BY <1>2, <1>3, <1>4

(* What keeps them apart when no queue changes. *)
LEMMA StillKeeps ==
  ASSUME CopiesApart, queues' = queues,
         \A e \in Devices : \A u \in Pending(e) :
            u.raw => \A p \in PinnedBuffers \cap {u.from[1], u.to[1]} : owner[p] = "tensor" => owner'[p] = "tensor",
         \A e \in Devices : Waiting(e) => Waiting(e)' \/ queues[e] = <<>>
  PROVE  QueuesLocal' /\ QueuesApart'
  <1>0. \A e \in Devices : Pending(e)' = Pending(e)
    BY DEF Pending
  <1>1. QueuesLocal'
    <2>1. ASSUME NEW e \in Devices, NEW u \in Pending(e) PROVE OpLocal(e, u) /\ OpHost(e, u)'
      <3>1. OpLocal(e, u) /\ OpHost(e, u)
        BY <2>1 DEF CopiesApart, QueuesLocal
      <3>2. queues[e] # <<>>
        BY <2>1 DEF Pending
      <3> QED
        BY <2>1, <3>1, <3>2 DEF OpHost
    <2> QED
      BY <1>0, <2>1 DEF QueuesLocal, OpLocal
  <1>2. QueuesApart'
    BY <1>0 DEF CopiesApart, QueuesApart, Apart, Touches
  <1> QED
    BY <1>1, <1>2

(* A buffer that may be handed out is of no pending copy. *)
LEMMA ReusableUntouched ==
  ASSUME CopiesApart, NEW p \in PinnedBuffers, Reusable(p)
  PROVE  \A d \in Devices : \A o \in Pending(d) : p \notin {o.from[1], o.to[1]}
  <1> SUFFICES ASSUME NEW d \in Devices, NEW o \in Pending(d), p \in {o.from[1], o.to[1]}
               PROVE  FALSE
    OBVIOUS
  <1>1. owner[p] = "free" /\ \A e \in Devices : \A u \in Pending(e) : p \notin u.events
    BY DEF Reusable
  <1>2. PICK i \in DOMAIN queues[d] : o = queues[d][i]
    BY DEF Pending
  <1>3. queues[d] \in Seq(Ops) /\ Len(queues[d]) \in Nat /\ DOMAIN queues[d] = 1 .. Len(queues[d])
    BY DEF CopiesApart, MemTypes
  <1>4. OpHost(d, o) /\ Recorded(d, i) /\ BuffersHeld
    BY <1>2 DEF CopiesApart, QueuesLocal, EventsRecorded
  <1>5. ~o.raw
    BY <1>1, <1>4 DEF OpHost
  <1>6. \/ \E j \in i .. Len(queues[d]) : p \in queues[d][j].events
        \/ InCall /\ copyCall.buffer = p
    BY <1>2, <1>4, <1>5 DEF Recorded
  <1>7. CASE \E j \in i .. Len(queues[d]) : p \in queues[d][j].events
    <2>1. PICK j \in i .. Len(queues[d]) : p \in queues[d][j].events
      BY <1>7
    <2>2. j \in DOMAIN queues[d]
      BY <1>2, <1>3, <2>1
    <2> QED
      BY <1>1, <2>1, <2>2 DEF Pending
  <1>8. CASE InCall /\ copyCall.buffer = p
    BY <1>1, <1>4, <1>8 DEF BuffersHeld
  <1> QED
    BY <1>6, <1>7, <1>8

(* What a staged batch holds is not written, and only copied by its device. *)
LEMMA BufferKept ==
  ASSUME CopiesApart, InCall, copyCall.buffer # NoBuffer
  PROVE  /\ copyCall.buffer \in PinnedBuffers /\ copyCall.stage = "batch" /\ Staging(copyCall)
         /\ owner[copyCall.buffer] = "call"
         /\ \A d \in Devices : \A o \in Pending(d) :
              /\ o.to[1] # copyCall.buffer
              /\ d # copyCall.device => o.from[1] # copyCall.buffer
  <1>0. CallKept(copyCall) /\ copyCall \in CallRecords
    BY DEF CopiesApart, MemTypes, InCall
  <1>1. copyCall.buffer \in PinnedBuffers /\ copyCall.stage = "batch" /\ Staging(copyCall)
    BY <1>0 DEF CallKept, CallRecords
  <1>2. owner[copyCall.buffer] = "call"
    BY <1>1 DEF CopiesApart, BuffersHeld
  <1>3. ASSUME NEW d \in Devices, NEW o \in Pending(d), copyCall.buffer \in {o.from[1], o.to[1]}
        PROVE  d = copyCall.device /\ o.to[1] # copyCall.buffer
    <2>2. PICK i \in DOMAIN queues[d] : o = queues[d][i]
      BY <1>3 DEF Pending
    <2>3. queues[d] \in Seq(Ops) /\ Len(queues[d]) \in Nat /\ DOMAIN queues[d] = 1 .. Len(queues[d])
      BY DEF CopiesApart, MemTypes
    <2>4. OpHost(d, o) /\ Recorded(d, i)
      BY <1>3, <2>2 DEF CopiesApart, QueuesLocal, EventsRecorded
    <2>5. ~o.raw
      BY <1>1, <1>2, <1>3, <2>4 DEF OpHost
    <2>6. \/ \E j \in i .. Len(queues[d]) : copyCall.buffer \in queues[d][j].events
          \/ copyCall.device = d /\ o.to[1] # copyCall.buffer
      BY <1>1, <1>3, <2>2, <2>4, <2>5 DEF Recorded
    <2>7. ASSUME NEW j \in i .. Len(queues[d]), copyCall.buffer \in queues[d][j].events PROVE FALSE
      <3>1. j \in DOMAIN queues[d]
        BY <2>2, <2>3
      <3>2. queues[d][j] \in Pending(d)
        BY <3>1 DEF Pending
      <3> QED
        BY <1>1, <2>7, <3>2 DEF Staging
    <2> QED
      BY <2>6, <2>7
  <1> QED
    BY <1>1, <1>2, <1>3

-----------------------------------------------------------------------------
(* The records of the model, and a call that goes on to its next entry. *)
LEMMA HostAndDevices ==
  /\ HostTensors \cap Devices = {} /\ PinnedBuffers \subseteq HostTensors
  /\ Pageable \in HostTensors /\ Pageable \notin PinnedBuffers
  /\ NoBuffer \notin PinnedBuffers /\ Tensors = Devices \cup HostTensors
  /\ \A l \in Location : l[1] \in Tensors /\ l[2] \in TensorBlocks /\ l = <<l[1], l[2]>>
  BY TensorAssumption DEF HostTensors, Tensors, Location

LEMMA RecordParts ==
  /\ \A e \in EntryRecords : e.from \in Location /\ e.to \in Location /\ e.size \in {0, 1}
  /\ \A o \in Ops : o.from \in Location /\ o.to \in Location /\ o.new \in 0 .. MaxWrites
                    /\ o.raw \in BOOLEAN /\ o.events \in SUBSET PinnedBuffers
  /\ \A c \in CallRecords : /\ c.device \in Devices /\ c.entries \in Seq(EntryRecords)
                            /\ c.stage \in {"none", "each", "batch"} /\ c.sync \in BOOLEAN
                            /\ c.raw \in BOOLEAN /\ c.waiting \in BOOLEAN
                            /\ c.pinned \in PinnedBuffers \cup {NoBuffer}
                            /\ c.buffer \in PinnedBuffers \cup {NoBuffer} /\ c.offset \in Nat
  BY DEF EntryRecords, Ops, CallRecords

LEMMA OpTypes ==
  ASSUME NEW f \in Location, NEW t \in Location
  PROVE  /\ \A raw \in BOOLEAN : CopyOp(f, t, raw) \in Ops
         /\ \A n \in 0 .. MaxWrites : StoreOp(t, n) \in Ops
  BY DeviceAssumption DEF CopyOp, StoreOp, Ops

(* The entry a call is at. *)
LEMMA AtEntry ==
  ASSUME CopiesApart, Ready
  PROVE  /\ InCall /\ copyCall \in CallRecords /\ CallKept(copyCall)
         /\ copyCall.entries \in Seq(EntryRecords) /\ copyCall.entries # <<>>
         /\ Entry \in EntryRecords /\ Tail(copyCall.entries) \in Seq(EntryRecords)
         /\ EntryApart(copyCall, Entry)
         /\ copyCall.stage = "none" => DirectEntry(copyCall, Entry)
         /\ copyCall.stage = "each" => Entry.from[1] = Pageable /\ Entry.to[1] = copyCall.device
         /\ copyCall.stage = "batch" => BatchEntry(copyCall, Entry)
         /\ 1 \in DOMAIN copyCall.entries
         /\ \A i \in DOMAIN Tail(copyCall.entries) :
              \E j \in DOMAIN copyCall.entries : copyCall.entries[j] = Tail(copyCall.entries)[i]
         /\ \A d \in Devices : ~Waiting(d)
  <1>1. InCall /\ copyCall \in CallRecords /\ CallKept(copyCall) /\ copyCall.entries # <<>> /\ ~copyCall.waiting
    BY DEF CopiesApart, MemTypes, Ready, InCall
  <1>2. copyCall.entries \in Seq(EntryRecords)
    BY <1>1, RecordParts
  <1> DEFINE s == copyCall.entries
  <1>3. /\ 1 \in DOMAIN s /\ s[1] \in EntryRecords /\ Tail(s) \in Seq(EntryRecords)
        /\ \A i \in DOMAIN Tail(s) : i + 1 \in DOMAIN s /\ s[i + 1] = Tail(s)[i]
    <2> HIDE DEF s
    <2>1. s \in Seq(EntryRecords) /\ s # <<>>
      BY <1>1, <1>2 DEF s
    <2> QED
      BY <2>1
  <1>4. \A i \in DOMAIN Tail(s) : \E j \in DOMAIN s : s[j] = Tail(s)[i]
    <2> HIDE DEF s
    <2> QED
      BY <1>3
  <1> QED
    BY <1>1, <1>2, <1>3, <1>4 DEF CallKept, Entry, Waiting

LEMMA Advances ==
  ASSUME CopiesApart, Ready, NEW wait \in BOOLEAN, Advance(wait)
  PROVE  /\ copyCall' \in CallRecords /\ InCall'
         /\ copyCall'.entries = Tail(copyCall.entries) /\ copyCall'.waiting = wait
         /\ copyCall'.offset = copyCall.offset + Entry.size
         /\ copyCall'.device = copyCall.device /\ copyCall'.stage = copyCall.stage
         /\ copyCall'.sync = copyCall.sync /\ copyCall'.raw = copyCall.raw
         /\ copyCall'.pinned = copyCall.pinned /\ copyCall'.buffer = copyCall.buffer
  <1>1. copyCall \in CallRecords /\ Tail(copyCall.entries) \in Seq(EntryRecords) /\ Entry \in EntryRecords
    BY AtEntry
  <1>2. copyCall.offset + Entry.size \in Nat
    BY <1>1, RecordParts
  <1>3. copyCall' \in CallRecords
    BY <1>1, <1>2 DEF Advance, CallRecords
  <1>4. InCall'
    BY <1>3, CallAssumption DEF InCall
  <1> QED
    BY <1>1, <1>3, <1>4 DEF Advance, CallRecords

LEMMA AdvanceKeeps ==
  ASSUME CopiesApart, Ready, NEW wait \in BOOLEAN, Advance(wait), owner' = owner,
         \A d \in Devices : d # copyCall.device => Pending(d)' = Pending(d),
         copyCall.stage = "batch" =>
           \A d \in Devices : \A o \in Pending(d)' : o \in Pending(d) \/ o.to[1] = d,
         wait => copyCall.stage = "none",
         copyCall.stage = "batch" => Staging(copyCall)'
  PROVE  CallKept(copyCall)' /\ BuffersHeld'
  <1>1. /\ InCall /\ copyCall \in CallRecords /\ CallKept(copyCall)
        /\ \A i \in DOMAIN Tail(copyCall.entries) :
              \E j \in DOMAIN copyCall.entries : copyCall.entries[j] = Tail(copyCall.entries)[i]
    BY AtEntry
  <1>2. /\ copyCall' \in CallRecords /\ InCall'
        /\ copyCall'.entries = Tail(copyCall.entries) /\ copyCall'.waiting = wait
        /\ copyCall'.offset = copyCall.offset + Entry.size
        /\ copyCall'.device = copyCall.device /\ copyCall'.stage = copyCall.stage
        /\ copyCall'.sync = copyCall.sync /\ copyCall'.raw = copyCall.raw
        /\ copyCall'.pinned = copyCall.pinned /\ copyCall'.buffer = copyCall.buffer
    BY Advances
  <1>3. BuffersHeld'
    BY <1>1, <1>2 DEF CopiesApart, BuffersHeld
  <1>4. ASSUME NEW i \in DOMAIN copyCall'.entries
        PROVE  /\ EntryApart(copyCall, copyCall.entries[i])'
               /\ copyCall'.stage = "none" => DirectEntry(copyCall, copyCall.entries[i])'
               /\ copyCall'.stage = "each" => copyCall'.entries[i].from[1] = Pageable
                                              /\ copyCall'.entries[i].to[1] = copyCall'.device
               /\ copyCall'.stage = "batch" => BatchEntry(copyCall, copyCall.entries[i])'
    <2>1. PICK j \in DOMAIN copyCall.entries : copyCall.entries[j] = copyCall'.entries[i]
      BY <1>1, <1>2
    <2> DEFINE e == copyCall.entries[j]
    <2>2. /\ EntryApart(copyCall, e)
          /\ copyCall.stage = "none" => DirectEntry(copyCall, e)
          /\ copyCall.stage = "each" => e.from[1] = Pageable /\ e.to[1] = copyCall.device
          /\ copyCall.stage = "batch" => BatchEntry(copyCall, e)
      BY <1>1 DEF CallKept
    <2> HIDE DEF e
    <2>3. copyCall'.entries[i] = e
      BY <2>1 DEF e
    <2>4. EntryApart(copyCall, copyCall.entries[i])'
      BY <1>2, <2>2, <2>3 DEF EntryApart, Touches
    <2>5. copyCall'.stage = "none" => DirectEntry(copyCall, copyCall.entries[i])'
      BY <1>2, <2>2, <2>3 DEF DirectEntry
    <2>6. ASSUME copyCall'.stage = "batch" PROVE BatchEntry(copyCall, copyCall.entries[i])'
      <3>1. BatchEntry(copyCall, e)
        BY <1>2, <2>2, <2>6
      <3>2. copyCall.device \in Devices /\ e.from[1] \notin Devices
        BY <1>1, <3>1, RecordParts, HostAndDevices DEF BatchEntry
      <3>3. ASSUME NEW d \in Devices, NEW o \in Pending(d)' PROVE o.to # e.from
        <4>1. CASE o \in Pending(d)
          BY <3>1, <4>1 DEF BatchEntry
        <4>2. CASE o \notin Pending(d)
          <5>1. o.to[1] = d
            BY <1>2, <2>6, <4>2
          <5> QED
            BY <3>2, <5>1
        <4> QED
          BY <4>1, <4>2
      <3> QED
        BY <1>2, <2>3, <3>1, <3>3 DEF BatchEntry
    <2> QED
      BY <1>2, <2>2, <2>3, <2>4, <2>5, <2>6
  <1>5. CallKept(copyCall)'
    BY <1>1, <1>2, <1>4 DEF CallKept
  <1> QED
    BY <1>3, <1>5

LEMMA StagingAdvances ==
  ASSUME CopiesApart, Ready, Advance(FALSE), mem' = mem, copyCall.stage = "batch",
         Entry.size # 0 => copyCall.buffer # NoBuffer,
         \A d \in Devices : \A o \in Pending(d)' : o \in Pending(d) \/ o.events = {}
  PROVE  Staging(copyCall)'
  <1>1. /\ copyCall \in CallRecords /\ CallKept(copyCall) /\ Entry \in EntryRecords
        /\ copyCall.entries \in Seq(EntryRecords) /\ copyCall.entries # <<>>
        /\ Tail(copyCall.entries) \in Seq(EntryRecords)
    BY AtEntry
  <1>2. /\ copyCall' \in CallRecords
        /\ copyCall'.entries = Tail(copyCall.entries)
        /\ copyCall'.offset = copyCall.offset + Entry.size
        /\ copyCall'.buffer = copyCall.buffer
    BY Advances
  <1>3. Staging(copyCall)
    BY <1>1 DEF CallKept
  <1> DEFINE left == Sized(copyCall.entries)
             rest == Sized(Tail(copyCall.entries))
             c == copyCall
  <1>4. left \in Seq(EntryRecords) /\ rest \in Seq(EntryRecords)
    BY <1>1, SizedTypes
  <1>5. /\ c.offset + Len(left) <= Cardinality(TensorBlocks)
        /\ c.buffer = NoBuffer => c.offset = 0
        /\ c.buffer # NoBuffer =>
             /\ \A j \in DOMAIN left : mem[<<c.buffer, c.offset + j>>] = mem[left[j].from]
             /\ \A d \in Devices : \A o \in Pending(d) : c.buffer \notin o.events
    BY <1>3 DEF Staging
  <1>6. c.offset \in Nat /\ Entry.size \in {0, 1} /\ Cardinality(TensorBlocks) \in Nat
    BY <1>1, RecordParts, BlocksAssumption, FS_CardinalityType
  <1>7. /\ Entry.size = 0 => rest = left
        /\ Entry.size # 0 => /\ Len(left) = Len(rest) + 1
                             /\ \A j \in 1 .. Len(rest) : left[j + 1] = rest[j]
    BY <1>1, SizedHead DEF Entry
  <1> HIDE DEF left, rest
  <1>8. Len(left) \in Nat /\ Len(rest) \in Nat /\ DOMAIN left = 1 .. Len(left) /\ DOMAIN rest = 1 .. Len(rest)
    BY <1>4
  <1>n. PICK n \in Nat, z \in {0, 1}, k \in Nat, r \in Nat, b \in Nat :
          n = c.offset /\ z = Entry.size /\ k = Len(left) /\ r = Len(rest) /\ b = Cardinality(TensorBlocks)
    BY <1>6, <1>8
  <1>9. c.offset + Entry.size + Len(rest) <= Cardinality(TensorBlocks)
    <2>1. n + k <= b /\ (z = 0 => r = k) /\ (z # 0 => k = r + 1)
      BY <1>5, <1>7, <1>n
    <2>2. n + z + r <= b
      BY <2>1
    <2> QED
      BY <1>n, <2>2
  <1>10. c.buffer = NoBuffer => c.offset + Entry.size = 0
    BY <1>5, <1>6
  <1>11. ASSUME c.buffer # NoBuffer, NEW j \in DOMAIN rest
         PROVE  mem[<<c.buffer, c.offset + Entry.size + j>>] = mem[rest[j].from]
    <2>1. CASE Entry.size = 0
      <3>1. c.offset + Entry.size + j = c.offset + j /\ j \in DOMAIN left /\ rest[j] = left[j]
        BY <1>6, <1>7, <1>8, <2>1
      <3> QED
        BY <1>5, <1>11, <3>1
    <2>2. CASE Entry.size # 0
      <3>1. j \in 1 .. r /\ z = 1 /\ k = r + 1
        BY <1>7, <1>8, <1>n, <2>2
      <3>2. n + z + j = n + (j + 1) /\ j + 1 \in 1 .. k
        BY <3>1
      <3>3. j + 1 \in DOMAIN left /\ rest[j] = left[j + 1] /\ c.offset + Entry.size + j = c.offset + (j + 1)
        BY <1>7, <1>8, <1>n, <2>2, <3>1, <3>2
      <3> QED
        BY <1>5, <1>11, <3>3
    <2> QED
      BY <2>1, <2>2
  <1>12. c.buffer # NoBuffer => \A d \in Devices : \A o \in Pending(d)' : c.buffer \notin o.events
    BY <1>5
  <1>13. Sized(copyCall.entries)' = rest
    BY <1>2 DEF rest
  <1> QED
    BY <1>2, <1>9, <1>10, <1>11, <1>12, <1>13 DEF Staging

-----------------------------------------------------------------------------
(* The invariant, action by action: the program, and calls that begin. *)
LEMMA InitApart == MemInit => CopiesApart
  <1> SUFFICES ASSUME MemInit PROVE CopiesApart
    OBVIOUS
  <1>1. mem \in [Location -> Datum]
    BY DEF MemInit, Datum
  <1>2. \A d \in Devices : queues[d] = <<>> /\ Pending(d) = {} /\ DOMAIN queues[d] = {}
    BY DEF MemInit, Pending
  <1>3. queues \in [Devices -> Seq(Ops)] /\ owner \in [PinnedBuffers -> {"free", "tensor", "call"}]
        /\ copyCall = NoCopyCall /\ writes \in 0 .. MaxWrites
    BY DeviceAssumption DEF MemInit
  <1>4. MemTypes /\ ~InCall
    BY <1>1, <1>3 DEF MemTypes, InCall
  <1>5. QueuesLocal /\ QueuesApart /\ EventsRecorded
    BY <1>2 DEF QueuesLocal, QueuesApart, EventsRecorded
  <1>6. BuffersHeld
    BY <1>4 DEF BuffersHeld, MemInit
  <1> QED
    BY <1>4, <1>5, <1>6 DEF CopiesApart

LEMMA NoCallNow ==
  ASSUME copyCall = NoCopyCall
  PROVE  ~InCall /\ \A d \in Devices : ~Waiting(d)
  BY DEF InCall, Waiting

(* A kernel of d and what other devices do have no block in common. *)
LEMMA DevicesApart ==
  ASSUME CopiesApart, NEW d \in Devices, NEW i \in TensorBlocks, NEW n \in 1 .. MaxWrites,
         NEW e \in Devices, e # d, NEW u \in Pending(e)
  PROVE  Apart(StoreOp(<<d, i>>, n), u)
  <1>1. {u.from[1], u.to[1]} \subseteq {e} \cup HostTensors
    BY DEF CopiesApart, QueuesLocal, OpLocal
  <1>2. u.from[1] # d /\ u.to[1] # d
    BY <1>1, HostAndDevices
  <1>3. StoreOp(<<d, i>>, n).to = <<d, i>> /\ StoreOp(<<d, i>>, n).new = n /\ n # 0
    BY DEF StoreOp
  <1>4. u.from # <<d, i>> /\ u.to # <<d, i>>
    BY <1>2
  <1> HIDE DEF StoreOp
  <1> QED
    BY <1>3, <1>4 DEF Apart, Touches

LEMMA ProduceApart ==
  ASSUME CopiesApart, NEW d \in Devices, NEW i \in TensorBlocks, Produce(d, i)
  PROVE  CopiesApart'
  <1>1. /\ copyCall = NoCopyCall /\ writes < MaxWrites /\ writes' = writes + 1
        /\ queues' = Submit(d, StoreOp(<<d, i>>, writes + 1))
        /\ mem' = mem /\ owner' = owner /\ copyCall' = copyCall
    BY DEF Produce
  <1>2. writes \in Nat /\ MaxWrites \in Nat /\ queues \in OpQueues /\ ~InCall
    BY <1>1, DeviceAssumption DEF CopiesApart, MemTypes, OpQueues, InCall
  <1>3. writes + 1 \in 1 .. MaxWrites /\ writes + 1 \in 0 .. MaxWrites
    BY <1>1, <1>2
  <1>n. PICK n \in 1 .. MaxWrites : n = writes + 1
    BY <1>3
  <1> DEFINE l == <<d, i>>
             o == StoreOp(l, n)
  <1>4. l \in Location /\ l[1] = d /\ d \notin HostTensors /\ d # Pageable /\ d \notin PinnedBuffers
    BY HostAndDevices DEF Location
  <1>5. o \in Ops
    BY <1>3, <1>4, <1>n, OpTypes
  <1>6. o.from = l /\ o.to = l /\ o.raw = FALSE
    BY DEF StoreOp
  <1>a. \A e \in Devices \ {d} : \A u \in Pending(e) : Apart(o, u)
    BY DevicesApart
  <1> HIDE DEF o, l
  <1>7. OpLocal(d, o)
    BY <1>4, <1>6 DEF OpLocal
  <1>8. OpHost(d, o)'
    BY <1>4, <1>6 DEF OpHost
  <1>9. queues' = Submit(d, o)
    BY <1>1, <1>n DEF o, l
  <1>10. QueuesLocal' /\ QueuesApart' /\ EventsRecorded'
    <2>1. \A e \in Devices : ~Waiting(e)
      BY <1>1, NoCallNow
    <2>2. PinnedBuffers \cap {o.from[1], o.to[1]} = {}
      BY <1>4, <1>6
    <2> QED
      BY <1>1, <1>2, <1>5, <1>7, <1>8, <1>9, <1>a, <2>1, <2>2, SubmitKeeps
  <1>11. queues' \in [Devices -> Seq(Ops)]
    BY <1>2, <1>5, <1>9, Submitted DEF OpQueues
  <1>12. MemTypes'
    BY <1>1, <1>3, <1>11 DEF CopiesApart, MemTypes
  <1>13. ~InCall' /\ BuffersHeld'
    BY <1>1, <1>2 DEF CopiesApart, BuffersHeld, InCall
  <1> QED
    BY <1>10, <1>12, <1>13 DEF CopiesApart

LEMMA RecordedStays ==
  ASSUME EventsRecorded, queues' = queues,
         \A p \in PinnedBuffers : InCall /\ copyCall.buffer = p =>
           (InCall /\ copyCall.buffer = p)' /\ copyCall'.device = copyCall.device
  PROVE  EventsRecorded'
  BY DEF EventsRecorded, Recorded

LEMMA HostStoreApart ==
  ASSUME CopiesApart, NEW l \in Location, HostStore(l)
  PROVE  CopiesApart'
  <1>1. /\ copyCall = NoCopyCall /\ writes < MaxWrites /\ writes' = writes + 1
        /\ mem' = [mem EXCEPT ![l] = <<NewData, writes'>>]
        /\ queues' = queues /\ owner' = owner /\ copyCall' = copyCall
    BY DEF HostStore
  <1>2. writes \in Nat /\ MaxWrites \in Nat /\ ~InCall /\ mem \in [Location -> Datum]
    BY <1>1, DeviceAssumption DEF CopiesApart, MemTypes, InCall
  <1>3. writes + 1 \in 1 .. MaxWrites
    BY <1>1, <1>2
  <1>4. mem' \in [Location -> Datum]
    <2>1. <<NewData, writes'>> \in Datum
      BY <1>1, <1>3 DEF Datum
    <2> HIDE DEF Datum
    <2> QED
      BY <1>1, <1>2, <2>1
  <1>5. MemTypes'
    BY <1>1, <1>3, <1>4 DEF CopiesApart, MemTypes
  <1>6. QueuesLocal' /\ QueuesApart'
    BY <1>1, NoCallNow, StillKeeps
  <1>7. EventsRecorded' /\ BuffersHeld' /\ ~InCall'
    BY <1>1, <1>2, RecordedStays DEF CopiesApart, BuffersHeld, InCall
  <1> QED
    BY <1>5, <1>6, <1>7 DEF CopiesApart

LEMMA PinnedApart ==
  ASSUME CopiesApart, NEW p \in PinnedBuffers, NewPinned(p) \/ DropPinned(p)
  PROVE  CopiesApart'
  <1>1. /\ copyCall = NoCopyCall /\ mem' = mem /\ queues' = queues /\ copyCall' = copyCall
        /\ writes' = writes
        /\ owner' = [owner EXCEPT ![p] = "tensor"] \/ owner' = [owner EXCEPT ![p] = "free"]
    BY DEF NewPinned, DropPinned
  <1>2. ~InCall /\ ~InCall' /\ \A d \in Devices : ~Waiting(d)
    BY <1>1, NoCallNow DEF InCall
  <1>3. owner \in [PinnedBuffers -> {"free", "tensor", "call"}]
    BY DEF CopiesApart, MemTypes
  <1>4. MemTypes'
    BY <1>1, <1>3 DEF CopiesApart, MemTypes
  <1>5. ASSUME NEW e \in Devices, NEW u \in Pending(e), u.raw,
               NEW b \in PinnedBuffers \cap {u.from[1], u.to[1]}, owner[b] = "tensor"
        PROVE  owner'[b] = "tensor"
    <2>1. CASE NewPinned(p)
      BY <1>3, <1>5, <2>1 DEF NewPinned
    <2>2. CASE DropPinned(p)
      <3>1. b # p
        <4> SUFFICES ASSUME b = p PROVE FALSE
          OBVIOUS
        <4>1. \A i \in TensorBlocks : ~Touches(u, <<p, i>>)
          BY <1>5, <2>2 DEF DropPinned
        <4>2. OpLocal(e, u) /\ u \in Ops
          BY <1>5, QueueElements DEF CopiesApart, QueuesLocal, MemTypes, Pending
        <4>3. u.from \in Location /\ u.to \in Location
          BY <4>2, RecordParts
        <4>4. CASE u.to[1] = p
          BY <4>1, <4>3, <4>4, HostAndDevices DEF Touches
        <4>5. CASE u.from[1] = p /\ u.to[1] # p
          <5>1. u.new = 0
            BY <4>2, <4>5 DEF OpLocal
          <5> QED
            BY <4>1, <4>3, <4>5, <5>1, HostAndDevices DEF Touches
        <4> QED
          BY <1>5, <4>4, <4>5
      <3> QED
        BY <1>3, <1>5, <2>2, <3>1 DEF DropPinned
    <2> QED
      BY <2>1, <2>2
  <1>6. QueuesLocal' /\ QueuesApart'
    BY <1>1, <1>2, <1>5, StillKeeps
  <1>7. EventsRecorded'
    BY <1>1, <1>2, RecordedStays DEF CopiesApart
  <1>8. BuffersHeld'
    BY <1>1, <1>2, <1>3 DEF CopiesApart, BuffersHeld
  <1> QED
    BY <1>2, <1>4, <1>6, <1>7, <1>8 DEF CopiesApart

(* The entries of a call. *)
LEMMA CopyEntriesAre ==
  ASSUME NEW s \in Tensors, NEW t \in Tensors, NEW map \in BlockMaps
  PROVE  /\ CopyEntries(s, t, map) \in Seq(EntryRecords)
         /\ \A i \in DOMAIN CopyEntries(s, t, map) :
              CopyEntries(s, t, map)[i].from[1] = s /\ CopyEntries(s, t, map)[i].to[1] = t
         /\ Len(Sized(CopyEntries(s, t, map))) \in 1 .. Cardinality(TensorBlocks)
  <1>1. /\ map \in Seq(TensorBlocks \X TensorBlocks \X {0, 1})
        /\ Cardinality({i \in DOMAIN map : map[i][3] = 1}) \in TensorBlocks
    BY MapsAssumption
  <1> DEFINE e == CopyEntries(s, t, map)
  <1>2. DOMAIN map = 1 .. Len(map) /\ Len(map) \in Nat
        /\ \A i \in 1 .. Len(map) : map[i] \in TensorBlocks \X TensorBlocks \X {0, 1}
    BY <1>1
  <1>3. ASSUME NEW i \in 1 .. Len(map)
        PROVE  /\ e[i] = [from |-> <<s, map[i][1]>>, to |-> <<t, map[i][2]>>, size |-> map[i][3]]
               /\ e[i] \in EntryRecords /\ e[i].size = map[i][3]
               /\ e[i].from[1] = s /\ e[i].to[1] = t
    <2>1. map[i][1] \in TensorBlocks /\ map[i][2] \in TensorBlocks /\ map[i][3] \in {0, 1}
      BY <1>2
    <2>2. e[i] = [from |-> <<s, map[i][1]>>, to |-> <<t, map[i][2]>>, size |-> map[i][3]]
      BY <1>2 DEF CopyEntries
    <2>3. <<s, map[i][1]>> \in Location /\ <<t, map[i][2]>> \in Location
      BY <2>1 DEF Location
    <2> HIDE DEF e
    <2> QED
      BY <2>1, <2>2, <2>3 DEF EntryRecords
  <1>4. e \in Seq(EntryRecords) /\ Len(e) = Len(map) /\ DOMAIN e = 1 .. Len(map)
    <2>1. e = [i \in 1 .. Len(map) |-> e[i]]
      BY <1>2 DEF CopyEntries
    <2> HIDE DEF e
    <2>2. e \in [1 .. Len(map) -> EntryRecords]
      BY <1>3, <2>1
    <2> QED
      BY <1>2, <2>2
  <1> HIDE DEF e
  <1>5. Len(Sized(e)) = Cardinality({i \in 1 .. Len(e) : e[i].size = 1})
    BY <1>4, SizedLen
  <1>6. {i \in 1 .. Len(e) : e[i].size = 1} = {i \in DOMAIN map : map[i][3] = 1}
    BY <1>2, <1>3, <1>4
  <1>7. Len(Sized(e)) \in 1 .. Cardinality(TensorBlocks)
    BY <1>1, <1>5, <1>6, BlocksAssumption
  <1> QED
    BY <1>3, <1>4, <1>7 DEF e

LEMMA SizedEntriesAre ==
  ASSUME NEW s \in Tensors, NEW t \in Tensors, NEW e \in Seq(EntryRecords),
         \A i \in DOMAIN e : e[i].from[1] = s /\ e[i].to[1] = t
  PROVE  /\ Sized(e) \in Seq(EntryRecords)
         /\ \A i \in DOMAIN Sized(e) : Sized(e)[i].from[1] = s /\ Sized(e)[i].to[1] = t
  <1>1. Sized(e) \in Seq(EntryRecords)
    BY SizedTypes
  <1>2. DOMAIN Sized(e) = 1 .. Len(Sized(e)) /\ DOMAIN e = 1 .. Len(e)
    BY <1>1
  <1>3. \A j \in 1 .. Len(Sized(e)) : \E i \in 1 .. Len(e) : e[i] = Sized(e)[j]
    BY SizedKeeps
  <1>4. ASSUME NEW j \in DOMAIN Sized(e) PROVE Sized(e)[j].from[1] = s /\ Sized(e)[j].to[1] = t
    BY <1>2, <1>3
  <1> QED
    BY <1>1, <1>4

LEMMA BeginApart ==
  ASSUME CopiesApart, copyCall = NoCopyCall, NEW c \in CallRecords, copyCall' = c,
         c.waiting = FALSE, c.buffer = NoBuffer, CallKept(c),
         mem' = mem, queues' = queues, owner' = owner, writes' = writes
  PROVE  CopiesApart'
  <1>1. InCall' /\ ~InCall /\ \A d \in Devices : ~Waiting(d)
    BY CallAssumption, NoCallNow DEF InCall
  <1>2. MemTypes'
    BY DEF CopiesApart, MemTypes
  <1>3. QueuesLocal' /\ QueuesApart'
    BY <1>1, StillKeeps
  <1>4. EventsRecorded'
    BY <1>1, RecordedStays DEF CopiesApart
  <1>5. BuffersHeld'
    BY <1>1, HostAndDevices DEF CopiesApart, BuffersHeld
  <1>6. CallKept(copyCall)'
    BY DEF CallKept, EntryApart, DirectEntry, BatchEntry, Staging, Pending, Touches
  <1> QED
    BY <1>1, <1>2, <1>3, <1>4, <1>5, <1>6 DEF CopiesApart

(* Entries from one tensor to another that the caller may name. *)
LEMMA EntriesApart ==
  ASSUME NEW s \in Tensors, NEW t \in Tensors, NEW d \in Devices, NEW e \in Seq(EntryRecords),
         NEW c, c.device = d,
         \A i \in DOMAIN e : e[i].from[1] = s /\ e[i].to[1] = t,
         {s, t} \subseteq {d} \cup HostTensors, Usable(s), Usable(t),
         \A i \in DOMAIN e : \A f \in Devices \ {d} : \A o \in Pending(f) :
           ~Touches(o, e[i].from) /\ ~Touches(o, e[i].to)
  PROVE  \A i \in DOMAIN e : EntryApart(c, e[i])
  BY DEF EntryApart, Usable

LEMMA SwapBlocksApart ==
  ASSUME CopiesApart, NEW s \in Tensors, NEW t \in Tensors, NEW map \in BlockMaps, SwapBlocks(s, t, map)
  PROVE  CopiesApart'
  <1> DEFINE d == IF s \in Devices THEN s ELSE t
             e == Sized(CopyEntries(s, t, map))
             st == IF s = Pageable THEN "each" ELSE "none"
             c == CopyCall(d, e, st, SyncCopies(t), FALSE, PinnedOf(s, t), NoBuffer)
  <1>1. /\ copyCall = NoCopyCall /\ d \in Devices /\ (t \in Devices => s \notin Devices \ {t})
        /\ Usable(s) /\ Usable(t) /\ Undisturbed(d, e, st = "each")
        /\ copyCall' = c
        /\ mem' = mem /\ queues' = queues /\ owner' = owner /\ writes' = writes
    BY DEF SwapBlocks, Callable, Begin
  <1>2. e \in Seq(EntryRecords) /\ \A i \in DOMAIN e : e[i].from[1] = s /\ e[i].to[1] = t
    BY CopyEntriesAre, SizedEntriesAre
  <1>3. SyncCopies(t) = (t = Pageable)
    BY DEF SyncCopies
  <1>4. PinnedOf(s, t) \in PinnedBuffers \cup {NoBuffer}
    BY DEF PinnedOf
  <1>5. /\ c \in CallRecords /\ c.device = d /\ c.entries = e /\ c.stage = st
        /\ c.sync = (t = Pageable) /\ c.raw = FALSE /\ c.pinned = PinnedOf(s, t) /\ c.buffer = NoBuffer
        /\ c.waiting = FALSE
    <2>1. st \in {"none", "each", "batch"}
      OBVIOUS
    <2> HIDE DEF e, d, st
    <2> QED
      BY <1>1, <1>2, <1>3, <1>4, <2>1 DEF CopyCall, CallRecords
  <1>6. {s, t} \subseteq {d} \cup HostTensors /\ (s = Pageable => t = d) /\ d \in {s, t}
    BY <1>1, HostAndDevices
  <1>7. st = "none" => s # Pageable
    OBVIOUS
  <1>8. \A p \in PinnedBuffers \cap {s, t} : PinnedOf(s, t) = p
    BY <1>1, <1>6, HostAndDevices DEF PinnedOf
  <1>9. st = "each" => s = Pageable /\ t = d
    BY <1>6
  <1>10. st \in {"none", "each"}
    OBVIOUS
  <1> HIDE DEF c, e, d, st
  <1>u. \A i \in DOMAIN e : \A f \in Devices \ {d} : \A o \in Pending(f) :
          ~Touches(o, e[i].from) /\ ~Touches(o, e[i].to)
    BY <1>1 DEF Undisturbed
  <1>11. \A i \in DOMAIN e : EntryApart(c, e[i])
    BY <1>1, <1>2, <1>5, <1>6, <1>u, EntriesApart
  <1>12. st = "none" => \A i \in DOMAIN e : DirectEntry(c, e[i])
    BY <1>2, <1>5, <1>7, <1>8 DEF DirectEntry
  <1>13. CallKept(c)
    BY <1>2, <1>5, <1>9, <1>10, <1>11, <1>12 DEF CallKept
  <1> QED
    BY <1>1, <1>5, <1>13, BeginApart

LEMMA SwapBatchApart ==
  ASSUME CopiesApart, NEW s \in Tensors, NEW t \in Tensors, NEW map \in BlockMaps, SwapBatch(s, t, map)
  PROVE  CopiesApart'
  <1> DEFINE d == IF s \in Devices THEN s ELSE t
             e == CopyEntries(s, t, map)
  <1>1. /\ copyCall = NoCopyCall /\ (s \in Devices \/ t \in Devices)
        /\ (s \in Devices /\ t \in Devices => s = t)
        /\ Usable(s) /\ Usable(t) /\ Undisturbed(d, e, s \notin Devices)
        /\ copyCall' = IF Staged(s, t) THEN CopyCall(d, e, "batch", FALSE, TRUE, NoBuffer, NoBuffer)
                       ELSE CopyCall(d, e, "none", SyncCopies(t), TRUE, NoBuffer, NoBuffer)
        /\ mem' = mem /\ queues' = queues /\ owner' = owner /\ writes' = writes
    BY DEF SwapBatch, Callable, Begin, InferDevice
  <1>2. /\ e \in Seq(EntryRecords) /\ \A i \in DOMAIN e : e[i].from[1] = s /\ e[i].to[1] = t
        /\ Len(Sized(e)) \in 1 .. Cardinality(TensorBlocks)
    BY CopyEntriesAre
  <1>3. SyncCopies(t) = (t = Pageable) /\ (Staged(s, t) <=> s \notin Devices /\ t \in Devices)
    BY DEF SyncCopies, Staged
  <1>4. d \in Devices /\ {s, t} \subseteq {d} \cup HostTensors
    BY <1>1, HostAndDevices
  <1>5. Staged(s, t) => t = d /\ s \in HostTensors
    BY <1>3, HostAndDevices
  <1>6. ~Staged(s, t) => s \in Devices
    BY <1>1, <1>3
  <1> HIDE DEF e, d
  <1>u. \A i \in DOMAIN e : \A f \in Devices \ {d} : \A o \in Pending(f) :
          ~Touches(o, e[i].from) /\ ~Touches(o, e[i].to)
    BY <1>1 DEF Undisturbed
  <1>7. CASE Staged(s, t)
    <2> DEFINE c == CopyCall(d, e, "batch", FALSE, TRUE, NoBuffer, NoBuffer)
    <2>1. /\ c \in CallRecords /\ c.device = d /\ c.entries = e /\ c.stage = "batch" /\ c.buffer = NoBuffer
          /\ c.offset = 0 /\ c.waiting = FALSE
      BY <1>2, <1>4 DEF CopyCall, CallRecords
    <2>2. copyCall' = c
      BY <1>1, <1>7
    <2> HIDE DEF c
    <2>3. \A i \in DOMAIN e : EntryApart(c, e[i])
      BY <1>1, <1>2, <1>4, <1>u, <2>1, EntriesApart
    <2>4. \A i \in DOMAIN e : BatchEntry(c, e[i])
      <3>1. s \notin Devices
        BY <1>3, <1>7
      <3>2. ASSUME NEW i \in DOMAIN e, NEW f \in Devices, NEW o \in Pending(f) PROVE o.to # e[i].from
        BY <1>1, <3>1, <3>2 DEF Undisturbed, Touches
      <3> QED
        BY <1>2, <1>5, <1>7, <2>1, <3>2 DEF BatchEntry
    <2>5. Staging(c)
      <3>1. 0 + Len(Sized(e)) <= Cardinality(TensorBlocks)
        BY <1>2, BlocksAssumption, FS_CardinalityType
      <3> QED
        BY <2>1, <3>1 DEF Staging
    <2>6. CallKept(c)
      BY <2>1, <2>3, <2>4, <2>5 DEF CallKept
    <2> QED
      BY <1>1, <2>1, <2>2, <2>6, BeginApart
  <1>8. CASE ~Staged(s, t)
    <2> DEFINE c == CopyCall(d, e, "none", SyncCopies(t), TRUE, NoBuffer, NoBuffer)
    <2>1. /\ c \in CallRecords /\ c.device = d /\ c.entries = e /\ c.stage = "none" /\ c.buffer = NoBuffer
          /\ c.sync = (t = Pageable) /\ c.raw = TRUE /\ c.waiting = FALSE
      BY <1>2, <1>3, <1>4 DEF CopyCall, CallRecords
    <2>2. copyCall' = c
      BY <1>1, <1>8
    <2> HIDE DEF c
    <2>3. \A i \in DOMAIN e : EntryApart(c, e[i])
      BY <1>1, <1>2, <1>4, <1>u, <2>1, EntriesApart
    <2>4. \A i \in DOMAIN e : DirectEntry(c, e[i])
      <3>1. s # Pageable /\ s \notin PinnedBuffers
        BY <1>6, <1>8, HostAndDevices
      <3> QED
        BY <1>2, <2>1, <3>1 DEF DirectEntry
    <2>6. CallKept(c)
      BY <2>1, <2>3, <2>4 DEF CallKept
    <2> QED
      BY <1>1, <2>1, <2>2, <2>6, BeginApart
  <1> QED
    BY <1>7, <1>8

LEMMA MemcpySyncApart ==
  ASSUME CopiesApart, NEW s \in Tensors, NEW t \in Tensors, NEW map \in BlockMaps, NEW named \in BOOLEAN,
         MemcpySync(s, t, map, named)
  PROVE  CopiesApart'
  <1> DEFINE d == IF s \in Devices THEN s ELSE t
             all == Sized(CopyEntries(s, t, map))
             e == SubSeq(all, 1, 1)
             c == CopyCall(d, e, "none", TRUE, TRUE, NoBuffer, NoBuffer)
  <1>1. /\ copyCall = NoCopyCall /\ d \in Devices /\ (t \in Devices => s \notin Devices \ {t})
        /\ Usable(s) /\ Usable(t) /\ Undisturbed(d, e, FALSE)
        /\ copyCall' = c
        /\ mem' = mem /\ queues' = queues /\ owner' = owner /\ writes' = writes
    BY DEF MemcpySync, Callable, Begin
  <1>2. e \in Seq(EntryRecords) /\ \A i \in DOMAIN e : e[i].from[1] = s /\ e[i].to[1] = t
    <2>1. all \in Seq(EntryRecords) /\ \A i \in DOMAIN all : all[i].from[1] = s /\ all[i].to[1] = t
      BY CopyEntriesAre, SizedEntriesAre
    <2>2. Len(all) >= 1 /\ Len(all) \in Nat
      BY CopyEntriesAre
    <2> HIDE DEF all
    <2>3. 1 \in DOMAIN all /\ all[1] \in EntryRecords
      BY <2>1, <2>2
    <2>4. e \in Seq(EntryRecords) /\ Len(e) = 1 /\ e[1] = all[1]
      <3>1. all \in Seq(EntryRecords) /\ Len(all) >= 1
        BY <2>1, <2>2
      <3>2. Len(SubSeq(all, 1, 1)) = 1
        BY <3>1
      <3>3. SubSeq(all, 1, 1)[1] = all[1]
        BY <3>1
      <3>4. SubSeq(all, 1, 1) \in Seq(EntryRecords)
        BY <3>1
      <3> QED
        BY <3>2, <3>3, <3>4
    <2> HIDE DEF e
    <2>5. DOMAIN e = {1} /\ e[1] = all[1] /\ e \in Seq(EntryRecords)
      BY <2>3, <2>4
    <2> QED
      BY <2>1, <2>3, <2>5
  <1>6. {s, t} \subseteq {d} \cup HostTensors
    BY <1>1, HostAndDevices
  <1> HIDE DEF e, d
  <1>5. /\ c \in CallRecords /\ c.device = d /\ c.entries = e /\ c.stage = "none"
        /\ c.sync = TRUE /\ c.raw = TRUE /\ c.buffer = NoBuffer /\ c.waiting = FALSE
    BY <1>1, <1>2 DEF CopyCall, CallRecords
  <1> HIDE DEF c
  <1>u. \A i \in DOMAIN e : \A f \in Devices \ {d} : \A o \in Pending(f) :
          ~Touches(o, e[i].from) /\ ~Touches(o, e[i].to)
    BY <1>1 DEF Undisturbed
  <1>11. \A i \in DOMAIN e : EntryApart(c, e[i])
    BY <1>1, <1>2, <1>5, <1>6, <1>u, EntriesApart
  <1>12. \A i \in DOMAIN e : DirectEntry(c, e[i])
    BY <1>5 DEF DirectEntry
  <1>13. CallKept(c)
    BY <1>5, <1>11, <1>12 DEF CallKept
  <1> QED
    BY <1>1, <1>5, <1>13, BeginApart

LEMMA SkipApart ==
  ASSUME CopiesApart, SkipEntry
  PROVE  CopiesApart'
  <1>1. /\ Ready /\ Entry.size = 0 /\ Advance(FALSE)
        /\ mem' = mem /\ queues' = queues /\ owner' = owner /\ writes' = writes
    BY DEF SkipEntry
  <1>2. \A d \in Devices : Pending(d)' = Pending(d)
    BY <1>1 DEF Pending
  <1>3. copyCall.stage = "batch" => Staging(copyCall)'
    BY <1>1, <1>2, StagingAdvances
  <1>4. CallKept(copyCall)' /\ BuffersHeld'
    BY <1>1, <1>2, <1>3, AdvanceKeeps
  <1>5. copyCall' \in CallRecords /\ InCall' /\ copyCall'.buffer = copyCall.buffer /\ copyCall'.device = copyCall.device
    BY <1>1, Advances
  <1>6. QueuesLocal' /\ QueuesApart'
    BY <1>1, AtEntry, StillKeeps
  <1>7. EventsRecorded'
    BY <1>1, <1>5, RecordedStays DEF CopiesApart
  <1>8. MemTypes'
    BY <1>1, <1>5 DEF CopiesApart, MemTypes
  <1> QED
    BY <1>4, <1>5, <1>6, <1>7, <1>8 DEF CopiesApart

-----------------------------------------------------------------------------
(* The invariant: a call submits its copies.                               *)
(* The operation a call submits, with the event recorded behind it. *)
Submits(d, o, from, to, raw, p) ==
  /\ d = copyCall.device /\ o.from = from /\ o.to = to /\ o.new = 0 /\ o.raw = raw
  /\ Record(Submit(d, CopyOp(from, to, raw)), d, p) = Submit(d, o)
  /\ o.events = IF p = NoBuffer THEN {} ELSE {p}

LEMMA CallSubmits ==
  ASSUME CopiesApart, Ready, NEW from \in Location, NEW to \in Location, NEW raw \in BOOLEAN,
         NEW p \in PinnedBuffers \cup {NoBuffer}
  PROVE  \E d \in Devices, o \in Ops : Submits(d, o, from, to, raw, p)
  <1>1. copyCall.device \in Devices /\ queues \in OpQueues
    BY AtEntry, RecordParts DEF CopiesApart, MemTypes, OpQueues
  <1>2. PICK d \in Devices : d = copyCall.device
    BY <1>1
  <1> DEFINE u == CopyOp(from, to, raw)
             o == Marked(u, p)
  <1>3. u \in Ops
    BY OpTypes
  <1>4. Record(Submit(d, u), d, p) = Submit(d, o) /\ o \in Ops
    BY <1>1, <1>3, RecordSubmits
  <1>5. o.from = from /\ o.to = to /\ o.new = 0 /\ o.raw = raw /\ o.events = IF p = NoBuffer THEN {} ELSE {p}
    BY DEF CopyOp, Marked
  <1> HIDE DEF o
  <1> QED
    BY <1>2, <1>4, <1>5 DEF Submits

(* What other devices do is apart from a copy between blocks they are not  *)
(* at, and that no one else is to write.                                   *)
LEMMA ApartIs ==
  ASSUME NEW o \in Ops, NEW u \in Ops, o.new = 0, ~Touches(u, o.to), u.to # o.from
  PROVE  Apart(o, u)
  BY DEF Apart, Touches

LEMMA PendingTypes ==
  ASSUME CopiesApart, NEW d \in Devices, NEW o \in Pending(d)
  PROVE  o \in Ops
  <1>1. queues[d] \in Seq(Ops)
    BY DEF CopiesApart, MemTypes
  <1> QED
    BY <1>1, QueueElements DEF Pending

LEMMA CopyDirectApart ==
  ASSUME CopiesApart, CopyDirect
  PROVE  CopiesApart'
  <1>1. /\ Ready /\ copyCall.stage = "none" /\ Advance(copyCall.sync)
        /\ queues' = Record(Submit(copyCall.device, CopyOp(Entry.from, Entry.to, copyCall.raw)),
                     copyCall.device, copyCall.pinned)
        /\ mem' = mem /\ owner' = owner /\ writes' = writes
    BY DEF CopyDirect
  <1>2. /\ InCall /\ copyCall \in CallRecords /\ Entry \in EntryRecords
        /\ EntryApart(copyCall, Entry) /\ DirectEntry(copyCall, Entry)
        /\ \A e \in Devices : ~Waiting(e)
    BY <1>1, AtEntry
  <1>3. PICK from \in Location, to \in Location, raw \in BOOLEAN, p \in PinnedBuffers \cup {NoBuffer},
             sync \in BOOLEAN :
          from = Entry.from /\ to = Entry.to /\ raw = copyCall.raw /\ p = copyCall.pinned /\ sync = copyCall.sync
    BY <1>2, RecordParts
  <1>c. PICK d \in Devices, o \in Ops : Submits(d, o, from, to, raw, p)
    BY <1>1, CallSubmits
  <1>4. /\ d = copyCall.device /\ o.from = from /\ o.to = to /\ o.new = 0 /\ o.raw = raw
        /\ Record(Submit(d, CopyOp(from, to, raw)), d, p) = Submit(d, o)
        /\ o.events = IF p = NoBuffer THEN {} ELSE {p}
    BY <1>c DEF Submits
  <1>5. queues' = Submit(d, o)
    BY <1>1, <1>3, <1>4
  <1>6. /\ copyCall' \in CallRecords /\ InCall'
        /\ copyCall'.waiting = sync /\ copyCall'.device = d /\ copyCall'.buffer = copyCall.buffer
    BY <1>1, <1>3, <1>4, Advances
  <1>7. /\ {from[1], to[1]} \subseteq {d} \cup HostTensors
        /\ \A b \in PinnedBuffers \cap {from[1], to[1]} : owner[b] = "tensor"
        /\ \A e \in Devices \ {d} : \A u \in Pending(e) : ~Touches(u, from) /\ ~Touches(u, to)
    BY <1>2, <1>3, <1>4 DEF EntryApart
  <1>8. /\ Pageable \in {from[1], to[1]} => sync
        /\ raw /\ from[1] \in PinnedBuffers => sync
        /\ ~raw => \A b \in PinnedBuffers \cap {from[1], to[1]} : p = b
    BY <1>2, <1>3 DEF DirectEntry
  <1>9. OpLocal(d, o)
    BY <1>4, <1>7 DEF OpLocal
  <1>10. OpHost(d, o)'
    BY <1>1, <1>4, <1>6, <1>7, <1>8 DEF OpHost, Waiting
  <1>11. ASSUME NEW e \in Devices \ {d}, NEW u \in Pending(e) PROVE Apart(o, u)
    <2>1. u \in Ops
      BY PendingTypes
    <2>2. ~Touches(u, o.to) /\ u.to # o.from
      BY <1>4, <1>7 DEF Touches
    <2> QED
      BY <1>4, <2>1, <2>2, ApartIs
  <1>12. ~o.raw => \A b \in PinnedBuffers \cap {o.from[1], o.to[1]} : b \in o.events
    BY <1>4, <1>8, HostAndDevices
  <1>13. QueuesLocal' /\ QueuesApart' /\ EventsRecorded'
    BY <1>1, <1>2, <1>4, <1>5, <1>6, <1>9, <1>10, <1>11, <1>12, SubmitKeeps
  <1>14. queues \in OpQueues
    BY DEF CopiesApart, MemTypes, OpQueues
  <1>15. CallKept(copyCall)' /\ BuffersHeld'
    <2>1. \A e \in Devices : e # copyCall.device => Pending(e)' = Pending(e)
      BY <1>4, <1>5, <1>14, Submitted
    <2>2. copyCall.stage # "batch" /\ Advance(sync) /\ (sync => copyCall.stage = "none")
      BY <1>1, <1>3
    <2> QED
      BY <1>1, <2>1, <2>2, AdvanceKeeps
  <1>16. MemTypes'
    BY <1>1, <1>5, <1>6, <1>14, Submitted DEF CopiesApart, MemTypes, OpQueues
  <1> QED
    BY <1>6, <1>13, <1>15, <1>16 DEF CopiesApart

LEMMA CopyStagedApart ==
  ASSUME CopiesApart, CopyStaged
  PROVE  CopiesApart'
  <1>1. PICK p \in PinnedBuffers :
          /\ Ready /\ copyCall.stage = "each" /\ Advance(FALSE) /\ Reusable(p)
          /\ mem' = [mem EXCEPT ![<<p, 1>>] = mem[Entry.from]]
          /\ queues' = Record(Submit(copyCall.device, CopyOp(<<p, 1>>, Entry.to, FALSE)), copyCall.device, p)
          /\ owner' = owner /\ writes' = writes
    BY DEF CopyStaged
  <1>2. /\ InCall /\ copyCall \in CallRecords /\ Entry \in EntryRecords
        /\ EntryApart(copyCall, Entry) /\ Entry.from[1] = Pageable /\ Entry.to[1] = copyCall.device
        /\ \A e \in Devices : ~Waiting(e)
    BY <1>1, AtEntry
  <1>l. <<p, 1>> \in Location
    <2>1. Entry.from \in Location
      BY <1>2, RecordParts
    <2>2. 1 \in TensorBlocks
      BY <2>1, BlocksAssumption, FS_CardinalityType, HostAndDevices
    <2> QED
      BY <2>2, HostAndDevices DEF Location
  <1>3. PICK to \in Location : to = Entry.to
    BY <1>2, RecordParts
  <1>f. PICK from \in Location, raw \in BOOLEAN : from = <<p, 1>> /\ raw = FALSE
    BY <1>l
  <1>c. PICK d \in Devices, o \in Ops : Submits(d, o, from, to, raw, p)
    BY <1>1, CallSubmits
  <1>4. /\ d = copyCall.device /\ o.from = from /\ o.to = to /\ o.new = 0 /\ o.raw = raw
        /\ Record(Submit(d, CopyOp(from, to, raw)), d, p) = Submit(d, o)
        /\ o.events = IF p = NoBuffer THEN {} ELSE {p}
    BY <1>c DEF Submits
  <1>5. queues' = Submit(d, o)
    BY <1>1, <1>3, <1>4, <1>f
  <1>6. /\ copyCall' \in CallRecords /\ InCall'
        /\ copyCall'.device = d /\ copyCall'.buffer = copyCall.buffer
    BY <1>1, <1>4, Advances
  <1>7. /\ to[1] = d /\ from[1] = p /\ p \in HostTensors /\ p # Pageable /\ d # Pageable
        /\ d \notin PinnedBuffers
    BY <1>2, <1>3, <1>4, <1>f, HostAndDevices
  <1>9. OpLocal(d, o)
    BY <1>4, <1>7 DEF OpLocal
  <1>10. OpHost(d, o)'
    BY <1>4, <1>7, <1>f DEF OpHost
  <1>11. ASSUME NEW e \in Devices \ {d}, NEW u \in Pending(e) PROVE Apart(o, u)
    <2>1. u \in Ops
      BY PendingTypes
    <2>2. ~Touches(u, o.to)
      BY <1>2, <1>3, <1>4 DEF EntryApart
    <2>3. u.to[1] # p
      BY <1>1, ReusableUntouched
    <2>4. u.to # o.from
      BY <1>4, <1>7, <2>3
    <2> QED
      BY <1>4, <2>1, <2>2, <2>4, ApartIs
  <1>12. ~o.raw => \A b \in PinnedBuffers \cap {o.from[1], o.to[1]} : b \in o.events
    BY <1>4, <1>7, HostAndDevices
  <1>13. QueuesLocal' /\ QueuesApart' /\ EventsRecorded'
    BY <1>1, <1>2, <1>4, <1>5, <1>6, <1>9, <1>10, <1>11, <1>12, SubmitKeeps
  <1>14. queues \in OpQueues
    BY DEF CopiesApart, MemTypes, OpQueues
  <1>15. CallKept(copyCall)' /\ BuffersHeld'
    <2>1. \A e \in Devices : e # copyCall.device => Pending(e)' = Pending(e)
      BY <1>4, <1>5, <1>14, Submitted
    <2>2. copyCall.stage # "batch"
      BY <1>1
    <2> QED
      BY <1>1, <2>1, <2>2, AdvanceKeeps
  <1>16. mem' \in [Location -> Datum]
    <2>1. mem \in [Location -> Datum] /\ Entry.from \in Location
      BY <1>2, RecordParts DEF CopiesApart, MemTypes
    <2> HIDE DEF Datum
    <2> QED
      BY <1>1, <2>1
  <1>17. MemTypes'
    BY <1>1, <1>5, <1>6, <1>14, <1>16, Submitted DEF CopiesApart, MemTypes, OpQueues
  <1> QED
    BY <1>6, <1>13, <1>15, <1>17 DEF CopiesApart

(* What is staged is of a tensor, no buffer of a call. *)
LEMMA LeftIs ==
  ASSUME CopiesApart, InCall, copyCall.stage = "batch"
  PROVE  /\ copyCall \in CallRecords /\ CallKept(copyCall)
         /\ Sized(copyCall.entries) \in Seq(EntryRecords)
         /\ DOMAIN Sized(copyCall.entries) = 1 .. Len(Sized(copyCall.entries))
         /\ \A j \in DOMAIN Sized(copyCall.entries) :
              \E i \in DOMAIN copyCall.entries : copyCall.entries[i] = Sized(copyCall.entries)[j]
         /\ \A j \in DOMAIN Sized(copyCall.entries) :
              /\ Sized(copyCall.entries)[j].from \in Location
              /\ BatchEntry(copyCall, Sized(copyCall.entries)[j])
              /\ \A p \in PinnedBuffers : Sized(copyCall.entries)[j].from[1] = p => owner[p] = "tensor"
  <1>1. copyCall \in CallRecords /\ CallKept(copyCall)
    BY DEF CopiesApart, MemTypes, InCall
  <1>2. copyCall.entries \in Seq(EntryRecords)
    BY <1>1, RecordParts
  <1> DEFINE s == copyCall.entries
             left == Sized(s)
  <1>3. left \in Seq(EntryRecords)
    BY <1>2, SizedTypes
  <1>k. \A j \in 1 .. Len(left) : \E i \in 1 .. Len(s) : s[i] = left[j]
    BY <1>2, SizedKeeps
  <1> HIDE DEF s, left
  <1>e. s \in Seq(EntryRecords)
    BY <1>2 DEF s
  <1>4. DOMAIN left = 1 .. Len(left) /\ DOMAIN s = 1 .. Len(s)
    BY <1>3, <1>e
  <1>5. \A j \in DOMAIN left : \E i \in DOMAIN s : s[i] = left[j]
    BY <1>k, <1>4
  <1>6. ASSUME NEW j \in DOMAIN left
        PROVE  /\ left[j].from \in Location /\ BatchEntry(copyCall, left[j])
               /\ \A p \in PinnedBuffers : left[j].from[1] = p => owner[p] = "tensor"
    <2>1. PICK i \in DOMAIN s : s[i] = left[j]
      BY <1>5
    <2>2. EntryApart(copyCall, s[i]) /\ BatchEntry(copyCall, s[i])
      BY <1>1 DEF CallKept, s
    <2>3. s[i] \in EntryRecords
      BY <1>e, <1>4
    <2> QED
      BY <2>1, <2>2, <2>3, RecordParts DEF EntryApart
  <1> QED
    BY <1>1, <1>3, <1>4, <1>5, <1>6 DEF left, s

LEMMA TakeSnapshotApart ==
  ASSUME CopiesApart, TakeSnapshot
  PROVE  CopiesApart'
  <1>1. PICK p \in PinnedBuffers :
          /\ Ready /\ copyCall.stage = "batch" /\ copyCall.buffer = NoBuffer /\ Reusable(p)
          /\ mem' = Snapshot(p, copyCall.entries)
          /\ owner' = [owner EXCEPT ![p] = "call"]
          /\ copyCall' = [copyCall EXCEPT !.buffer = p]
          /\ queues' = queues /\ writes' = writes
    BY DEF TakeSnapshot
  <1>2. /\ InCall /\ copyCall \in CallRecords /\ CallKept(copyCall) /\ \A e \in Devices : ~Waiting(e)
    BY <1>1, AtEntry
  <1>3. /\ copyCall' \in CallRecords /\ InCall' /\ copyCall'.buffer = p /\ copyCall'.device = copyCall.device
        /\ copyCall'.entries = copyCall.entries /\ copyCall'.stage = "batch"
        /\ copyCall'.offset = copyCall.offset /\ copyCall'.waiting = copyCall.waiting
    <2>1. copyCall' \in CallRecords
      BY <1>1, <1>2 DEF CallRecords
    <2> QED
      BY <1>1, <1>2, <2>1, CallAssumption DEF CallRecords, InCall
  <1>4. owner \in [PinnedBuffers -> {"free", "tensor", "call"}] /\ owner[p] = "free"
        /\ mem \in [Location -> Datum]
    BY <1>1 DEF CopiesApart, MemTypes, Reusable
  <1> DEFINE left == Sized(copyCall.entries)
  <1>5. /\ left \in Seq(EntryRecords) /\ DOMAIN left = 1 .. Len(left) /\ Len(left) \in Nat
        /\ \A j \in DOMAIN left :
              /\ left[j].from \in Location /\ BatchEntry(copyCall, left[j])
              /\ \A b \in PinnedBuffers : left[j].from[1] = b => owner[b] = "tensor"
    <2>1. /\ left \in Seq(EntryRecords) /\ DOMAIN left = 1 .. Len(left)
          /\ \A j \in DOMAIN left :
                /\ left[j].from \in Location /\ BatchEntry(copyCall, left[j])
                /\ \A b \in PinnedBuffers : left[j].from[1] = b => owner[b] = "tensor"
      BY <1>1, <1>2, LeftIs
    <2> HIDE DEF left
    <2> QED
      BY <2>1
  <1>s. Staging(copyCall)
    BY <1>1, <1>2 DEF CallKept
  <1>6. copyCall.offset = 0 /\ Len(left) <= Cardinality(TensorBlocks) /\ Cardinality(TensorBlocks) \in Nat
    <2>1. copyCall.offset = 0 /\ copyCall.offset + Len(left) <= Cardinality(TensorBlocks)
      BY <1>1, <1>s DEF Staging
    <2> HIDE DEF left
    <2> QED
      BY <1>5, <2>1, BlocksAssumption, FS_CardinalityType
  <1>m. mem' = [l \in Location |-> IF l[1] = p /\ l[2] \in DOMAIN left THEN mem[left[l[2]].from] ELSE mem[l]]
    BY <1>1 DEF Snapshot
  <1>e. left = Sized(copyCall'.entries)
    BY <1>3
  <1>o. Sized(copyCall.entries)' = left
    BY <1>e
  <1> HIDE DEF left
  <1>7. mem' \in [Location -> Datum]
    <2> HIDE DEF Datum, Location
    <2> QED
      BY <1>4, <1>5, <1>m
  <1>8. ASSUME NEW j \in DOMAIN left
        PROVE  mem'[<<p, 0 + j>>] = mem'[left[j].from]
    <2>1. 0 + j = j /\ j \in TensorBlocks
      BY <1>5, <1>6, BlocksAssumption
    <2>2. <<p, j>> \in Location
      BY <2>1, HostAndDevices DEF Location
    <2>3. mem'[<<p, j>>] = mem[left[j].from]
      <3>1. <<p, j>>[1] = p /\ <<p, j>>[2] = j
        OBVIOUS
      <3> HIDE DEF Location
      <3> QED
        BY <1>m, <2>2, <3>1
    <2>4. left[j].from \in Location /\ left[j].from[1] # p
      BY <1>4, <1>5
    <2>5. mem'[left[j].from] = mem[left[j].from]
      <3> HIDE DEF Location
      <3> QED
        BY <1>m, <2>4
    <2> QED
      BY <2>1, <2>3, <2>5
  <1>9. \A d \in Devices : \A u \in Pending(d) : p \notin u.events
    BY <1>1 DEF Reusable
  <1>p. \A d \in Devices : Pending(d)' = Pending(d)
    BY <1>1 DEF Pending
  <1>10. Staging(copyCall)'
    <2>1. copyCall'.offset + Len(left) <= Cardinality(TensorBlocks)
      BY <1>3, <1>5, <1>6
    <2>2. \A j \in DOMAIN left : mem'[<<copyCall'.buffer, copyCall'.offset + j>>] = mem'[left[j].from]
      BY <1>3, <1>6, <1>8
    <2>3. \A d \in Devices : \A u \in Pending(d)' : copyCall'.buffer \notin u.events
      BY <1>3, <1>9, <1>p
    <2>4. copyCall'.buffer # NoBuffer
      BY <1>3, HostAndDevices
    <2> QED
      BY <1>o, <2>1, <2>2, <2>3, <2>4 DEF Staging
  <1>11. ASSUME NEW i \in DOMAIN copyCall'.entries
         PROVE  EntryApart(copyCall, copyCall.entries[i])' /\ BatchEntry(copyCall, copyCall.entries[i])'
    <2>1. EntryApart(copyCall, copyCall.entries[i]) /\ BatchEntry(copyCall, copyCall.entries[i])
      BY <1>1, <1>2, <1>3 DEF CallKept
    <2>2. EntryApart(copyCall, copyCall.entries[i])'
      BY <1>1, <1>3, <1>4, <1>p, <2>1 DEF EntryApart, Touches
    <2>3. BatchEntry(copyCall, copyCall.entries[i])'
      BY <1>3, <1>p, <2>1 DEF BatchEntry
    <2> QED
      BY <2>2, <2>3
  <1>12. CallKept(copyCall)'
    BY <1>1, <1>2, <1>3, <1>10, <1>11 DEF CallKept
  <1>13. BuffersHeld'
    BY <1>1, <1>2, <1>3, <1>4, HostAndDevices DEF CopiesApart, BuffersHeld
  <1>14. QueuesLocal' /\ QueuesApart'
    <2>1. \A b \in PinnedBuffers : owner[b] = "tensor" => owner'[b] = "tensor"
      BY <1>1, <1>4
    <2> QED
      BY <1>1, <1>2, <2>1, StillKeeps
  <1>15. EventsRecorded'
    BY <1>1, HostAndDevices, RecordedStays DEF CopiesApart
  <1>16. MemTypes'
    BY <1>1, <1>3, <1>4, <1>7 DEF CopiesApart, MemTypes
  <1> QED
    BY <1>3, <1>12, <1>13, <1>14, <1>15, <1>16 DEF CopiesApart

-----------------------------------------------------------------------------
(* The invariant: the end of a call, and the devices. *)
LEMMA CopySnapshotApart ==
  ASSUME CopiesApart, CopySnapshot
  PROVE  CopiesApart'
  <1>1. /\ Ready /\ Entry.size # 0 /\ copyCall.stage = "batch" /\ copyCall.buffer # NoBuffer
        /\ Advance(FALSE)
        /\ queues' = Submit(copyCall.device, CopyOp(<<copyCall.buffer, copyCall.offset + 1>>, Entry.to, FALSE))
        /\ mem' = mem /\ owner' = owner /\ writes' = writes
    BY DEF CopySnapshot
  <1>2. /\ InCall /\ copyCall \in CallRecords /\ Entry \in EntryRecords
        /\ EntryApart(copyCall, Entry) /\ BatchEntry(copyCall, Entry)
        /\ \A e \in Devices : ~Waiting(e)
    BY <1>1, AtEntry
  <1>b. /\ copyCall.buffer \in PinnedBuffers /\ Staging(copyCall)
        /\ \A e \in Devices : \A u \in Pending(e) :
              /\ u.to[1] # copyCall.buffer
              /\ e # copyCall.device => u.from[1] # copyCall.buffer
    BY <1>1, <1>2, BufferKept
  <1>l. copyCall.offset + 1 \in TensorBlocks
    <2>1. copyCall.entries \in Seq(EntryRecords) /\ copyCall.entries # <<>>
      BY <1>1, AtEntry
    <2>2. Len(Sized(copyCall.entries)) = Len(Sized(Tail(copyCall.entries))) + 1
      BY <1>1, <2>1, SizedHead DEF Entry
    <2>3. Len(Sized(Tail(copyCall.entries))) \in Nat
      <3>1. Sized(Tail(copyCall.entries)) \in Seq(EntryRecords)
        BY <1>1, AtEntry, SizedTypes
      <3> QED
        BY <3>1
    <2>4. copyCall.offset \in Nat /\ Cardinality(TensorBlocks) \in Nat
      BY <1>2, RecordParts, BlocksAssumption, FS_CardinalityType
    <2>5. copyCall.offset + Len(Sized(copyCall.entries)) <= Cardinality(TensorBlocks)
      BY <1>b DEF Staging
    <2>6. PICK n \in Nat, r \in Nat, k \in Nat :
            n = copyCall.offset /\ r = Len(Sized(Tail(copyCall.entries))) /\ k = Cardinality(TensorBlocks)
      BY <2>3, <2>4
    <2>7. n + 1 \in 1 .. k
      BY <2>2, <2>5, <2>6
    <2> QED
      BY <2>6, <2>7, BlocksAssumption
  <1>3. PICK p \in PinnedBuffers, n \in TensorBlocks, to \in Location, raw \in BOOLEAN, d \in Devices :
          /\ p = copyCall.buffer /\ n = copyCall.offset + 1 /\ to = Entry.to /\ raw = FALSE
          /\ d = copyCall.device
    BY <1>2, <1>b, <1>l, RecordParts
  <1>4. PICK from \in Location : from = <<p, n>>
    BY HostAndDevices DEF Location
  <1>o. PICK o \in Ops : o = CopyOp(from, to, raw)
    BY OpTypes
  <1>5. o.from = from /\ o.to = to /\ o.new = 0 /\ o.raw = FALSE /\ o.events = {}
    BY <1>3, <1>o DEF CopyOp
  <1>6. queues' = Submit(d, o)
    BY <1>1, <1>3, <1>4, <1>o
  <1>7. /\ copyCall' \in CallRecords /\ InCall'
        /\ copyCall'.device = d /\ copyCall'.buffer = p
    BY <1>1, <1>3, Advances
  <1>8. /\ to[1] = d /\ from[1] = p /\ p \in HostTensors /\ p # Pageable /\ d # Pageable
        /\ d \notin PinnedBuffers /\ d # p
    BY <1>2, <1>3, <1>4, HostAndDevices DEF BatchEntry
  <1>9. OpLocal(d, o)
    BY <1>5, <1>8 DEF OpLocal
  <1>10. OpHost(d, o)'
    BY <1>5, <1>8 DEF OpHost
  <1>11. ASSUME NEW e \in Devices \ {d}, NEW u \in Pending(e) PROVE Apart(o, u)
    <2>1. u \in Ops
      BY PendingTypes
    <2>2. ~Touches(u, o.to)
      BY <1>2, <1>3, <1>5 DEF EntryApart
    <2>4. u.to # o.from
      BY <1>b, <1>3, <1>5, <1>8
    <2> QED
      BY <1>5, <2>1, <2>2, <2>4, ApartIs
  <1>12. \A b \in PinnedBuffers \cap {o.from[1], o.to[1]} :
            (InCall /\ copyCall.buffer = b /\ copyCall.device = d)' /\ o.to[1] # b
    BY <1>5, <1>7, <1>8
  <1>13. QueuesLocal' /\ QueuesApart' /\ EventsRecorded'
    BY <1>1, <1>2, <1>3, <1>6, <1>7, <1>9, <1>10, <1>11, <1>12, SubmitKeeps
  <1>14. queues \in OpQueues
    BY DEF CopiesApart, MemTypes, OpQueues
  <1>15. /\ \A e \in Devices : e # d => Pending(e)' = Pending(e)
         /\ \A u : u \in Pending(d)' <=> u = o \/ u \in Pending(d)
    BY <1>6, <1>14, Submitted
  <1>16. Staging(copyCall)'
    <2>1. \A e \in Devices : \A u \in Pending(e)' : u \in Pending(e) \/ u.events = {}
      BY <1>5, <1>15
    <2> QED
      BY <1>1, <2>1, StagingAdvances
  <1>17. CallKept(copyCall)' /\ BuffersHeld'
    <2>1. \A e \in Devices : \A u \in Pending(e)' : u \in Pending(e) \/ u.to[1] = e
      BY <1>5, <1>8, <1>15
    <2> QED
      BY <1>1, <1>3, <1>15, <1>16, <2>1, AdvanceKeeps
  <1>18. MemTypes'
    BY <1>1, <1>6, <1>7, <1>14, Submitted DEF CopiesApart, MemTypes, OpQueues
  <1> QED
    BY <1>7, <1>13, <1>17, <1>18 DEF CopiesApart

LEMMA AwaitApart ==
  ASSUME CopiesApart, Await
  PROVE  CopiesApart'
  <1>1. /\ InCall /\ copyCall.waiting /\ queues[copyCall.device] = <<>>
        /\ copyCall' = [copyCall EXCEPT !.waiting = FALSE]
        /\ mem' = mem /\ queues' = queues /\ owner' = owner /\ writes' = writes
    BY DEF Await, InCall
  <1>2. copyCall \in CallRecords /\ CallKept(copyCall)
    BY <1>1 DEF CopiesApart, MemTypes, InCall
  <1>3. copyCall' \in CallRecords /\ InCall'
    <2>1. copyCall' \in CallRecords
      BY <1>1, <1>2 DEF CallRecords
    <2> QED
      BY <2>1, CallAssumption DEF InCall
  <1>4. /\ copyCall'.device = copyCall.device /\ copyCall'.entries = copyCall.entries
        /\ copyCall'.stage = copyCall.stage /\ copyCall'.sync = copyCall.sync /\ copyCall'.raw = copyCall.raw
        /\ copyCall'.pinned = copyCall.pinned /\ copyCall'.buffer = copyCall.buffer
        /\ copyCall'.offset = copyCall.offset /\ copyCall'.waiting = FALSE
    BY <1>1, <1>2 DEF CallRecords
  <1>p. \A d \in Devices : Pending(d)' = Pending(d)
    BY <1>1 DEF Pending
  <1>5. CallKept(copyCall)'
    BY <1>1, <1>2, <1>4, <1>p DEF CallKept, EntryApart, DirectEntry, BatchEntry, Staging, Touches
  <1>6. BuffersHeld'
    BY <1>1, <1>3, <1>4 DEF CopiesApart, BuffersHeld
  <1>7. QueuesLocal' /\ QueuesApart'
    <2>1. \A e \in Devices : Waiting(e) => queues[e] = <<>>
      BY <1>1 DEF Waiting
    <2> QED
      BY <1>1, <2>1, StillKeeps
  <1>8. EventsRecorded'
    BY <1>1, <1>3, <1>4, RecordedStays DEF CopiesApart
  <1>9. MemTypes'
    BY <1>1, <1>3 DEF CopiesApart, MemTypes
  <1> QED
    BY <1>3, <1>5, <1>6, <1>7, <1>8, <1>9 DEF CopiesApart

(* Recording an event behind a queue changes its last operation's events. *)
LEMMA RecordIs ==
  ASSUME NEW qs \in OpQueues, NEW d \in Devices, NEW p \in PinnedBuffers \cup {NoBuffer}
  PROVE  /\ Record(qs, d, p) \in OpQueues
         /\ \A e \in Devices : e # d => Record(qs, d, p)[e] = qs[e]
         /\ \A e \in Devices : DOMAIN Record(qs, d, p)[e] = DOMAIN qs[e]
                               /\ Len(Record(qs, d, p)[e]) = Len(qs[e])
         /\ \A e \in Devices : \A i \in DOMAIN qs[e] :
              /\ SameEffect(Record(qs, d, p)[e][i], qs[e][i])
              /\ Record(qs, d, p)[e][i].raw = qs[e][i].raw
              /\ qs[e][i].events \subseteq Record(qs, d, p)[e][i].events
         /\ p # NoBuffer /\ qs[d] # <<>> => p \in Record(qs, d, p)[d][Len(qs[d])].events
  <1>1. qs[d] \in Seq(Ops) /\ \A e \in Devices : qs[e] \in Seq(Ops)
    BY DEF OpQueues
  <1>2. CASE p = NoBuffer \/ qs[d] = <<>>
    <2>1. Record(qs, d, p) = qs
      BY <1>2 DEF Record
    <2>2. \A o : SameEffect(o, o)
      BY DEF SameEffect
    <2> QED
      BY <1>2, <2>1, <2>2
  <1>3. CASE ~(p = NoBuffer \/ qs[d] = <<>>)
    <2> DEFINE n == Len(qs[d])
               u == [qs[d][n] EXCEPT !.events = @ \cup {p}]
               q == [qs[d] EXCEPT ![n] = u]
               rs == Record(qs, d, p)
    <2>1. n \in Nat /\ n \in 1 .. n /\ qs[d][n] \in Ops /\ DOMAIN qs[d] = 1 .. n /\ p \in PinnedBuffers
          /\ \A i \in 1 .. n : qs[d][i] \in Ops
      BY <1>1, <1>3
    <2>2. u \in Ops /\ SameEffect(u, qs[d][n]) /\ u.raw = qs[d][n].raw
          /\ qs[d][n].events \subseteq u.events /\ p \in u.events
      <3>1. \A o \in Ops : LET w == [o EXCEPT !.events = @ \cup {p}]
                           IN w \in Ops /\ SameEffect(w, o) /\ w.raw = o.raw /\ o.events \subseteq w.events
                              /\ p \in w.events
        BY <2>1 DEF Ops, SameEffect
      <3> QED
        BY <2>1, <3>1
    <2>3. rs = [qs EXCEPT ![d] = q]
      BY <1>3 DEF Record
    <2> HIDE DEF u, rs
    <2>4. q \in Seq(Ops) /\ DOMAIN q = 1 .. n /\ Len(q) = n /\ q[n] = u /\ \A i \in 1 .. n : i # n => q[i] = qs[d][i]
      BY <1>1, <2>1, <2>2
    <2> HIDE DEF q, n
    <2>5. rs \in OpQueues /\ rs[d] = q /\ \A e \in Devices : e # d => rs[e] = qs[e]
      BY <2>3, <2>4 DEF OpQueues
    <2>n. n = Len(qs[d])
      BY DEF n
    <2>6. ASSUME NEW e \in Devices
          PROVE  DOMAIN rs[e] = DOMAIN qs[e] /\ Len(rs[e]) = Len(qs[e])
      BY <2>1, <2>4, <2>5, <2>n
    <2>7. ASSUME NEW e \in Devices, NEW i \in DOMAIN qs[e]
          PROVE  /\ SameEffect(rs[e][i], qs[e][i])
                 /\ rs[e][i].raw = qs[e][i].raw
                 /\ qs[e][i].events \subseteq rs[e][i].events
      <3>1. CASE e = d /\ i = n
        BY <2>2, <2>4, <2>5, <3>1
      <3>2. CASE ~(e = d /\ i = n)
        <4>1. rs[e][i] = qs[e][i]
          BY <2>1, <2>4, <2>5, <3>2
        <4> QED
          BY <4>1 DEF SameEffect
      <3> QED
        BY <3>1, <3>2
    <2>8. p \in rs[d][n].events
      BY <2>2, <2>4, <2>5
    <2> QED
      BY <2>5, <2>6, <2>7, <2>8, <2>n DEF rs
  <1> QED
    BY <1>2, <1>3

LEMMA ReturnApart ==
  ASSUME CopiesApart, EndCall
  PROVE  CopiesApart'
  <1>1. /\ InCall /\ ~copyCall.waiting
        /\ queues' = Record(queues, copyCall.device, copyCall.buffer)
        /\ owner' = [p \in PinnedBuffers |-> IF p = copyCall.buffer THEN "free" ELSE owner[p]]
        /\ copyCall' = NoCopyCall
        /\ mem' = mem /\ writes' = writes
    BY DEF EndCall, InCall
  <1>2. copyCall \in CallRecords /\ queues \in OpQueues /\ BuffersHeld
        /\ owner \in [PinnedBuffers -> {"free", "tensor", "call"}]
    BY <1>1 DEF CopiesApart, MemTypes, OpQueues, InCall
  <1>3. PICK d \in Devices, p \in PinnedBuffers \cup {NoBuffer} : d = copyCall.device /\ p = copyCall.buffer
    BY <1>2, RecordParts
  <1>4. queues' = Record(queues, d, p)
    BY <1>1, <1>3
  <1>5. /\ queues' \in OpQueues
        /\ \A e \in Devices : e # d => queues'[e] = queues[e]
        /\ \A e \in Devices : DOMAIN queues'[e] = DOMAIN queues[e] /\ Len(queues'[e]) = Len(queues[e])
        /\ \A e \in Devices : \A i \in DOMAIN queues[e] :
              /\ SameEffect(queues'[e][i], queues[e][i])
              /\ queues'[e][i].raw = queues[e][i].raw
              /\ queues[e][i].events \subseteq queues'[e][i].events
        /\ p # NoBuffer /\ queues[d] # <<>> => p \in queues'[d][Len(queues[d])].events
    BY <1>2, <1>4, RecordIs
  <1>6. ~InCall' /\ \A e \in Devices : ~Waiting(e)
    BY <1>1 DEF InCall, Waiting
  <1>7. \A b \in PinnedBuffers : /\ owner[b] = "tensor" => owner'[b] = "tensor"
                                 /\ owner'[b] # "call"
    BY <1>1, <1>2 DEF BuffersHeld
  <1>8. ASSUME NEW e \in Devices, NEW u \in Pending(e)'
        PROVE  \E w \in Pending(e) : SameEffect(u, w) /\ u.raw = w.raw
    <2>1. PICK i \in DOMAIN queues'[e] : u = queues'[e][i]
      BY <1>8 DEF Pending
    <2>2. queues[e][i] \in Pending(e)
      BY <1>5, <2>1 DEF Pending
    <2> QED
      BY <1>5, <2>1, <2>2
  <1>9. QueuesLocal'
    <2>1. ASSUME NEW e \in Devices, NEW u \in Pending(e)' PROVE OpLocal(e, u) /\ OpHost(e, u)'
      <3>1. PICK w \in Pending(e) : SameEffect(u, w) /\ u.raw = w.raw
        BY <1>8, <2>1
      <3>2. OpLocal(e, w) /\ OpHost(e, w)
        BY DEF CopiesApart, QueuesLocal
      <3>3. OpLocal(e, u)
        BY <3>1, <3>2 DEF OpLocal, SameEffect
      <3>4. OpHost(e, u)'
        BY <1>6, <1>7, <3>1, <3>2 DEF OpHost, SameEffect
      <3> QED
        BY <3>3, <3>4
    <2> QED
      BY <2>1 DEF QueuesLocal, OpLocal
  <1>10. QueuesApart'
    <2>1. ASSUME NEW e \in Devices, NEW f \in Devices, e # f, NEW u \in Pending(e)', NEW v \in Pending(f)'
          PROVE  Apart(u, v)
      <3>1. PICK w \in Pending(e) : SameEffect(u, w)
        BY <1>8, <2>1
      <3>2. PICK x \in Pending(f) : SameEffect(v, x)
        BY <1>8, <2>1
      <3>3. Apart(w, x)
        BY <2>1 DEF CopiesApart, QueuesApart
      <3> QED
        BY <3>1, <3>2, <3>3 DEF Apart, Touches, SameEffect
    <2> QED
      BY <2>1 DEF QueuesApart, Apart, Touches
  <1>11. EventsRecorded'
    <2>1. ASSUME NEW e \in Devices, NEW i \in DOMAIN queues'[e], ~queues'[e][i].raw,
                 NEW b \in PinnedBuffers \cap {queues'[e][i].from[1], queues'[e][i].to[1]}
          PROVE  \E j \in i .. Len(queues'[e]) : b \in queues'[e][j].events
      <3>1. SameEffect(queues'[e][i], queues[e][i]) /\ i \in DOMAIN queues[e]
        BY <1>5, <2>1
      <3>2. Recorded(e, i)
        BY <3>1 DEF CopiesApart, EventsRecorded
      <3>3. \/ \E j \in i .. Len(queues[e]) : b \in queues[e][j].events
            \/ copyCall.buffer = b /\ copyCall.device = e
        BY <1>5, <2>1, <3>1, <3>2 DEF Recorded, SameEffect
      <3>4. queues[e] \in Seq(Ops) /\ Len(queues[e]) \in Nat /\ DOMAIN queues[e] = 1 .. Len(queues[e])
        BY <1>2 DEF OpQueues
      <3>5. CASE \E j \in i .. Len(queues[e]) : b \in queues[e][j].events
        <4>1. PICK j \in i .. Len(queues[e]) : b \in queues[e][j].events
          BY <3>5
        <4>2. j \in DOMAIN queues[e] /\ j \in i .. Len(queues'[e])
          BY <1>5, <3>1, <3>4, <4>1
        <4> QED
          BY <1>5, <4>1, <4>2
      <3>6. CASE copyCall.buffer = b /\ copyCall.device = e
        <4>1. e = d /\ p = b /\ b # NoBuffer /\ queues[d] # <<>>
          BY <1>3, <3>1, <3>4, <3>6, HostAndDevices
        <4>2. Len(queues[d]) \in i .. Len(queues'[d])
          BY <1>5, <3>1, <3>4, <4>1
        <4> QED
          BY <1>5, <4>1, <4>2
      <3> QED
        BY <3>3, <3>5, <3>6
    <2> QED
      BY <2>1 DEF EventsRecorded, Recorded
  <1>12. BuffersHeld'
    BY <1>6, <1>7 DEF BuffersHeld
  <1>13. MemTypes'
    <2>1. owner' \in [PinnedBuffers -> {"free", "tensor", "call"}]
      BY <1>1, <1>2
    <2> QED
      BY <1>1, <1>5, <2>1 DEF CopiesApart, MemTypes, OpQueues
  <1> QED
    BY <1>6, <1>9, <1>10, <1>11, <1>12, <1>13 DEF CopiesApart

LEMMA Executed ==
  ASSUME queues \in OpQueues, NEW d \in Devices, queues[d] # <<>>,
         queues' = [queues EXCEPT ![d] = Tail(@)]
  PROVE  /\ queues' \in OpQueues /\ queues[d][1] \in Pending(d) /\ queues[d][1] \in Ops
         /\ \A e \in Devices : e # d => queues'[e] = queues[e]
         /\ \A e \in Devices : Pending(e)' \subseteq Pending(e)
         /\ Len(queues[d]) \in Nat /\ Len(queues[d]) >= 1 /\ Len(queues'[d]) = Len(queues[d]) - 1
         /\ DOMAIN queues[d] = 1 .. Len(queues[d]) /\ DOMAIN queues'[d] = 1 .. Len(queues[d]) - 1
         /\ \A i \in 1 .. Len(queues[d]) - 1 : queues'[d][i] = queues[d][i + 1]
  <1>1. queues[d] \in Seq(Ops)
    BY DEF OpQueues
  <1>2. queues'[d] = Tail(queues[d]) /\ \A e \in Devices : e # d => queues'[e] = queues[e]
    BY DEF OpQueues
  <1>3. /\ Len(queues[d]) \in Nat /\ Len(queues[d]) >= 1 /\ Len(queues'[d]) = Len(queues[d]) - 1
        /\ DOMAIN queues[d] = 1 .. Len(queues[d]) /\ DOMAIN queues'[d] = 1 .. Len(queues[d]) - 1
        /\ \A i \in 1 .. Len(queues[d]) - 1 : queues'[d][i] = queues[d][i + 1]
        /\ queues'[d] \in Seq(Ops) /\ queues[d][1] \in Ops /\ 1 \in DOMAIN queues[d]
    <2>1. PICK q \in Seq(Ops) : q = queues[d]
      BY <1>1
    <2>2. q # <<>> /\ queues'[d] = Tail(q)
      BY <1>2, <2>1
    <2>3. /\ Len(q) \in Nat /\ Len(q) >= 1 /\ Len(Tail(q)) = Len(q) - 1 /\ Tail(q) \in Seq(Ops)
          /\ DOMAIN q = 1 .. Len(q) /\ DOMAIN Tail(q) = 1 .. Len(q) - 1
          /\ \A i \in 1 .. Len(q) - 1 : Tail(q)[i] = q[i + 1]
      BY <2>2
    <2>4. q[1] \in Ops /\ 1 \in DOMAIN q
      BY <2>3
    <2> QED
      BY <2>1, <2>2, <2>3, <2>4
  <1>4. queues' \in OpQueues
    BY <1>1, <1>3 DEF OpQueues
  <1>5. ASSUME NEW e \in Devices, NEW u \in Pending(e)' PROVE u \in Pending(e)
    <2>1. CASE e = d
      <3>1. PICK i \in DOMAIN queues'[d] : u = queues'[d][i]
        BY <1>5, <2>1 DEF Pending
      <3>2. i + 1 \in DOMAIN queues[d] /\ u = queues[d][i + 1]
        BY <1>3, <3>1
      <3> QED
        BY <2>1, <3>2 DEF Pending
    <2>2. CASE e # d
      BY <1>2, <1>5, <2>2 DEF Pending
    <2> QED
      BY <2>1, <2>2
  <1>6. queues[d][1] \in Pending(d)
    BY <1>3 DEF Pending
  <1> QED
    BY <1>2, <1>3, <1>4, <1>5, <1>6

LEMMA ExecuteApart ==
  ASSUME CopiesApart, NEW d \in Devices, Execute(d)
  PROVE  CopiesApart'
  <1>1. /\ queues[d] # <<>> /\ mem' = Effect(mem, queues[d][1])
        /\ queues' = [queues EXCEPT ![d] = Tail(@)]
        /\ owner' = owner /\ copyCall' = copyCall /\ writes' = writes
    BY DEF Execute
  <1>2. queues \in OpQueues /\ mem \in Memories
    BY DEF CopiesApart, MemTypes, OpQueues, Memories
  <1>3. /\ queues' \in OpQueues /\ queues[d][1] \in Pending(d) /\ queues[d][1] \in Ops
        /\ \A e \in Devices : e # d => queues'[e] = queues[e]
        /\ \A e \in Devices : Pending(e)' \subseteq Pending(e)
        /\ Len(queues[d]) \in Nat /\ Len(queues[d]) >= 1 /\ Len(queues'[d]) = Len(queues[d]) - 1
        /\ DOMAIN queues[d] = 1 .. Len(queues[d]) /\ DOMAIN queues'[d] = 1 .. Len(queues[d]) - 1
        /\ \A i \in 1 .. Len(queues[d]) - 1 : queues'[d][i] = queues[d][i + 1]
    BY <1>1, <1>2, Executed
  <1>4. /\ mem' \in Memories /\ \A l \in Location : l # queues[d][1].to => mem'[l] = mem[l]
    BY <1>1, <1>2, <1>3, EffectIs
  <1>5. QueuesLocal'
    BY <1>1, <1>3 DEF CopiesApart, QueuesLocal, OpLocal, OpHost, Waiting, InCall
  <1>6. QueuesApart'
    <2>1. ASSUME NEW e \in Devices, NEW f \in Devices, e # f, NEW u \in Pending(e)', NEW v \in Pending(f)'
          PROVE  Apart(u, v)
      <3>1. u \in Pending(e) /\ v \in Pending(f)
        BY <1>3, <2>1
      <3> QED
        BY <2>1, <3>1 DEF CopiesApart, QueuesApart
    <2> QED
      BY <2>1 DEF QueuesApart, Apart, Touches
  <1>7. EventsRecorded'
    <2>1. ASSUME NEW e \in Devices, NEW i \in DOMAIN queues'[e] PROVE Recorded(e, i)'
      <3>1. CASE e # d
        <4>1. queues'[e] = queues[e] /\ Recorded(e, i)
          BY <1>3, <2>1, <3>1 DEF CopiesApart, EventsRecorded
        <4> QED
          BY <1>1, <4>1 DEF Recorded, InCall
      <3>2. CASE e = d
        <4>1. PICK n \in Nat : n = Len(queues[d])
          BY <1>3
        <4>2. i \in 1 .. n - 1 /\ i + 1 \in 1 .. n /\ queues'[d][i] = queues[d][i + 1]
          BY <1>3, <2>1, <3>2, <4>1, SMTT(60)
        <4>3. Recorded(d, i + 1)
          BY <1>3, <4>1, <4>2 DEF CopiesApart, EventsRecorded
        <4>4. ASSUME NEW p, NEW j \in i + 1 .. Len(queues[d]), p \in queues[d][j].events
              PROVE  \E k \in i .. Len(queues'[d]) : p \in queues'[d][k].events
          <5>1. j - 1 \in i .. n - 1 /\ j - 1 \in 1 .. n - 1 /\ (j - 1) + 1 = j
            BY <4>1, <4>2, <4>4
          <5>2. queues'[d][j - 1] = queues[d][j]
            BY <1>3, <4>1, <5>1
          <5>3. j - 1 \in i .. Len(queues'[d])
            BY <1>3, <4>1, <5>1
          <5> QED
            BY <4>4, <5>2, <5>3
        <4> QED
          BY <1>1, <3>2, <4>2, <4>3, <4>4 DEF Recorded, InCall
      <3> QED
        BY <3>1, <3>2
    <2> QED
      BY <2>1 DEF EventsRecorded
  <1>8. BuffersHeld'
    BY <1>1 DEF CopiesApart, BuffersHeld, InCall
  <1>9. ASSUME InCall' PROVE CallKept(copyCall)'
    <2>1. InCall /\ CallKept(copyCall)
      BY <1>1, <1>9 DEF CopiesApart, InCall
    <2>2. ASSUME NEW e, EntryApart(copyCall, e) PROVE EntryApart(copyCall, e)'
      BY <1>1, <1>3, <2>2 DEF EntryApart, Touches
    <2>3. ASSUME NEW e, BatchEntry(copyCall, e) PROVE BatchEntry(copyCall, e)'
      BY <1>1, <1>3, <2>3 DEF BatchEntry
    <2>4. ASSUME NEW e, DirectEntry(copyCall, e) PROVE DirectEntry(copyCall, e)'
      BY <1>1, <2>4 DEF DirectEntry
    <2>5. ASSUME copyCall.stage = "batch" PROVE Staging(copyCall)'
      <3> DEFINE left == Sized(copyCall.entries)
                 c == copyCall
      <3>1. Staging(copyCall)
        BY <2>1, <2>5 DEF CallKept
      <3>2. /\ copyCall \in CallRecords /\ left \in Seq(EntryRecords) /\ DOMAIN left = 1 .. Len(left)
            /\ \A j \in DOMAIN left : left[j].from \in Location /\ BatchEntry(copyCall, left[j])
        BY <2>1, <2>5, LeftIs
      <3>3. Sized(copyCall.entries)' = left
        BY <1>1
      <3>i. ASSUME c.buffer # NoBuffer, NEW j \in DOMAIN left
            PROVE  <<c.buffer, c.offset + j>> \in Location /\ c.offset + j \in TensorBlocks
        <4>1. c.buffer \in PinnedBuffers
          BY <2>1, <3>i, BufferKept
        <4>2. c.offset \in Nat /\ Cardinality(TensorBlocks) \in Nat /\ Len(left) \in Nat
          <5>1. Len(left) \in Nat
            <6>1. left \in Seq(EntryRecords)
              BY <3>2
            <6> HIDE DEF left
            <6> QED
              BY <6>1
          <5> QED
            BY <3>2, <5>1, RecordParts, BlocksAssumption, FS_CardinalityType
        <4>3. c.offset + Len(left) <= Cardinality(TensorBlocks)
          BY <3>1 DEF Staging
        <4>4. PICK n \in Nat, k \in Nat, r \in Nat : n = c.offset /\ k = Cardinality(TensorBlocks) /\ r = Len(left)
          BY <4>2
        <4>5. j \in 1 .. r /\ n + r <= k
          BY <3>2, <3>i, <4>3, <4>4
        <4>6. n + j \in 1 .. k
          BY <4>5
        <4>7. c.offset + j \in TensorBlocks
          BY <4>4, <4>6, BlocksAssumption
        <4> QED
          BY <4>1, <4>7, HostAndDevices DEF Location
      <3>4. ASSUME c.buffer # NoBuffer, NEW j \in DOMAIN left
            PROVE  mem'[<<c.buffer, c.offset + j>>] = mem'[left[j].from]
        <4>1. <<c.buffer, c.offset + j>> \in Location
          BY <3>4, <3>i
        <4>2. queues[d][1].to[1] # c.buffer
          BY <1>3, <2>1, <3>4, BufferKept
        <4>3. queues[d][1].to # <<c.buffer, c.offset + j>>
          BY <4>2
        <4>4. left[j].from \in Location /\ queues[d][1].to # left[j].from
          BY <1>3, <3>2, <3>4 DEF BatchEntry
        <4>5. mem[<<c.buffer, c.offset + j>>] = mem[left[j].from]
          BY <3>1, <3>4 DEF Staging
        <4> HIDE DEF left
        <4> QED
          BY <1>4, <4>1, <4>3, <4>4, <4>5
      <3> HIDE DEF left
      <3>5. \A e \in Devices : \A u \in Pending(e)' : c.buffer # NoBuffer => c.buffer \notin u.events
        BY <1>3, <3>1 DEF Staging
      <3>6. c.offset + Len(left) <= Cardinality(TensorBlocks) /\ (c.buffer = NoBuffer => c.offset = 0)
        BY <3>1 DEF Staging, left
      <3> QED
        BY <1>1, <3>3, <3>4, <3>5, <3>6 DEF Staging
    <2> QED
      BY <1>1, <2>1, <2>2, <2>3, <2>4, <2>5 DEF CallKept
  <1>10. MemTypes'
    BY <1>1, <1>3, <1>4 DEF CopiesApart, MemTypes, OpQueues, Memories
  <1> QED
    BY <1>5, <1>6, <1>7, <1>8, <1>9, <1>10 DEF CopiesApart

LEMMA StutterApart ==
  ASSUME CopiesApart, UNCHANGED memVars
  PROVE  CopiesApart'
  <1>1. mem' = mem /\ queues' = queues /\ owner' = owner /\ copyCall' = copyCall /\ writes' = writes
    BY DEF memVars
  <1>2. \A d \in Devices : Pending(d)' = Pending(d)
    BY <1>1 DEF Pending
  <1>3. InCall' = InCall /\ \A d \in Devices : Waiting(d)' = Waiting(d)
    BY <1>1 DEF InCall, Waiting
  <1>4. QueuesLocal' /\ QueuesApart'
    BY <1>1, <1>3, StillKeeps
  <1>5. EventsRecorded'
    BY <1>1, RecordedStays DEF CopiesApart, InCall
  <1>6. MemTypes' /\ BuffersHeld'
    BY <1>1 DEF CopiesApart, MemTypes, BuffersHeld, InCall
  <1>7. InCall' => CallKept(copyCall)'
    BY <1>1, <1>2, <1>3, SMTT(60) DEF CopiesApart, CallKept, EntryApart, DirectEntry, BatchEntry, Staging, Touches
  <1> QED
    BY <1>4, <1>5, <1>6, <1>7 DEF CopiesApart

LEMMA NextApart ==
  ASSUME CopiesApart, [MemNext]_memVars
  PROVE  CopiesApart'
  <1>1. CASE Host
    <2>1. CASE \E d \in Devices, i \in TensorBlocks : Produce(d, i)
      BY <2>1, ProduceApart
    <2>2. CASE \E l \in Location : HostStore(l)
      BY <2>2, HostStoreApart
    <2>3. CASE \E p \in PinnedBuffers : NewPinned(p) \/ DropPinned(p)
      BY <2>3, PinnedApart
    <2>4. CASE \E s, t \in Tensors : \E map \in BlockMaps :
                  \/ SwapBlocks(s, t, map)
                  \/ SwapBatch(s, t, map)
                  \/ \E named \in BOOLEAN : MemcpySync(s, t, map, named)
      BY <2>4, SwapBlocksApart, SwapBatchApart, MemcpySyncApart
    <2> QED
      BY <1>1, <2>1, <2>2, <2>3, <2>4 DEF Host
  <1>2. CASE Steps
    BY <1>2, SkipApart, CopyDirectApart, CopyStagedApart, TakeSnapshotApart, CopySnapshotApart,
       AwaitApart, ReturnApart DEF Steps
  <1>3. CASE \E d \in Devices : Execute(d)
    BY <1>3, ExecuteApart
  <1>4. CASE UNCHANGED memVars
    BY <1>4, StutterApart
  <1> QED
    BY <1>1, <1>2, <1>3, <1>4 DEF MemNext

(* In every reachable state the copies under way, the blocks a call has    *)
(* yet to copy and the buffers of the pinned-memory allocator are apart:   *)
(* no two devices work on a block that one of them writes, each buffer a   *)
(* copy works on has an event at or behind it or is the call's own, and a  *)
(* staged batch still holds what its source blocks held                    *)
(* (csrc/utils/mem_cpy.cpp, whatever the number of devices, buffers,       *)
(* blocks and calls).                                                      *)
THEOREM CopiesStayApart == MemSpec => []CopiesApart
  <1>1. MemInit => CopiesApart
    BY InitApart
  <1>2. CopiesApart /\ [MemNext]_memVars => CopiesApart'
    BY NextApart
  <1> QED
    BY <1>1, <1>2, PTL DEF MemSpec

-----------------------------------------------------------------------------
View(s, ow) ==
  [l \in Location |-> IF l[1] \in PinnedBuffers /\ ow[l[1]] # "tensor" THEN Unowned ELSE s[l]]

LEMMA Seen ==
  CopiesApart => /\ Settled \in Memories /\ Visible = View(Settled, owner)
                 /\ mem \in Memories /\ queues \in OpQueues
                 /\ \A d \in Devices : \A i \in 1 .. Len(queues[d]) : queues[d][i] \in Pending(d)
  <1> SUFFICES ASSUME CopiesApart
               PROVE  /\ Settled \in Memories /\ Visible = View(Settled, owner)
                      /\ mem \in Memories /\ queues \in OpQueues
                      /\ \A d \in Devices : \A i \in 1 .. Len(queues[d]) : queues[d][i] \in Pending(d)
    OBVIOUS
  <1>1. mem \in Memories /\ queues \in OpQueues
    BY DEF CopiesApart, MemTypes, OpQueues, Memories
  <1>2. Settled \in Memories
    BY <1>1, AfterAllTypes DEF Settled
  <1>3. Visible = View(Settled, owner)
    <2> DEFINE s == Settled
    <2>1. s \in [Location -> Datum]
      BY <1>2 DEF Memories
    <2> HIDE DEF Location, Datum
    <2> QED
      BY <2>1 DEF Visible, View
  <1>4. ASSUME NEW d \in Devices, NEW i \in 1 .. Len(queues[d]) PROVE queues[d][i] \in Pending(d)
    <2>1. queues[d] \in Seq(Ops)
      BY <1>1 DEF OpQueues
    <2>2. DOMAIN queues[d] = 1 .. Len(queues[d])
      BY <2>1, QueueElements
    <2> QED
      BY <2>2 DEF Pending
  <1> QED
    BY <1>1, <1>2, <1>3, <1>4

(* A change of one block that is seen. *)
OneSeen(s, t, ow, l, v) ==
  /\ l[1] \in PinnedBuffers => ow[l[1]] = "tensor"
  /\ t[l] = v
  /\ \A k \in Location : k # l /\ (k[1] \in PinnedBuffers => ow[k[1]] = "tensor") => t[k] = s[k]

LEMMA StoreStep ==
  ASSUME CopiesApart, CopiesApart', copyCall = NoCopyCall, copyCall' = copyCall, owner' = owner,
         writes' = writes + 1, NEW l \in Location, l[1] \in PinnedBuffers => owner[l[1]] = "tensor",
         Settled'[l] = <<NewData, writes'>>,
         \A k \in Location : k # l => Settled'[k] = Settled[k]
  PROVE  Memory!CopyStep
  <1>1. Visible = View(Settled, owner)
    BY Seen
  <1>2. Visible' = View(Settled', owner')
    <2>1. (Visible = View(Settled, owner))'
      BY Seen, PTL
    <2> QED
      BY <2>1
  <1>3. View(Settled', owner) = [View(Settled, owner) EXCEPT ![l] = <<NewData, writes'>>]
    <2>1. OneSeen(Settled, Settled', owner, l, <<NewData, writes'>>)
      BY DEF OneSeen
    <2> QED
      BY <2>1 DEF View, OneSeen
  <1>4. Visible' = [Visible EXCEPT ![l] = <<NewData, writes'>>]
    BY <1>1, <1>2, <1>3
  <1>5. Asked = <<>> /\ Asked' = Asked
    BY DEF Asked
  <1>6. Memory!StoreBlock(l)
    BY <1>4, <1>5 DEF Memory!StoreBlock
  <1> QED
    BY <1>5, <1>6 DEF Memory!CopyStep

LEMMA ProduceStores ==
  ASSUME CopiesApart, CopiesApart', NEW d \in Devices, NEW i \in TensorBlocks, Produce(d, i)
  PROVE  Memory!CopyStep
  <1>1. /\ copyCall = NoCopyCall /\ writes < MaxWrites /\ writes' = writes + 1
        /\ queues' = Submit(d, StoreOp(<<d, i>>, writes + 1))
        /\ mem' = mem /\ owner' = owner /\ copyCall' = copyCall
    BY DEF Produce
  <1>2. PICK n \in 1 .. MaxWrites : n = writes + 1
    <2>1. writes \in Nat /\ MaxWrites \in Nat
      BY DeviceAssumption DEF CopiesApart, MemTypes
    <2>2. writes + 1 \in 1 .. MaxWrites
      BY <1>1, <2>1
    <2> QED
      BY <2>2
  <1>l. <<d, i>> \in Location
    BY HostAndDevices DEF Location
  <1>3. PICK l \in Location : l = <<d, i>> /\ l[1] = d
    BY <1>l
  <1>4. PICK o \in Ops : o = StoreOp(l, n) /\ o.to = l /\ o.new = n
    <2>1. n \in 0 .. MaxWrites
      BY <1>2
    <2> QED
      BY <2>1, OpTypes DEF StoreOp
  <1>5. queues' = [queues EXCEPT ![d] = Append(@, o)]
    BY <1>1, <1>2, <1>3, <1>4 DEF Submit
  <1>6. mem \in Memories /\ queues \in OpQueues /\ Settled \in Memories
        /\ \A e \in Devices : \A j \in 1 .. Len(queues[e]) : queues[e][j] \in Pending(e)
    BY Seen
  <1>7. \A e \in Devices \ {d} : \A j \in 1 .. Len(queues[e]) : Apart(o, queues[e][j])
    BY <1>3, <1>4, <1>6, DevicesApart
  <1>8. AfterAll(mem, [queues EXCEPT ![d] = Append(@, o)]) = Effect(AfterAll(mem, queues), o)
    <2>1. mem \in Memories /\ queues \in OpQueues
      BY <1>6
    <2> QED
      BY <2>1, <1>7, AfterAllAppend, Zenon
  <1>9. Settled' = Effect(Settled, o)
    BY <1>1, <1>5, <1>8 DEF Settled
  <1>10. n # 0
    BY <1>2
  <1>11. /\ Settled'[l] = <<NewData, writes'>>
         /\ \A k \in Location : k # l => Settled'[k] = Settled[k]
    BY <1>1, <1>2, <1>4, <1>6, <1>9, <1>10, EffectIs, ZenonT(60)
  <1>12. l[1] \notin PinnedBuffers
    BY <1>3, HostAndDevices
  <1> QED
    BY <1>1, <1>11, <1>12, StoreStep

(* The refinement, step by step. *)
LEMMA HostStores ==
  ASSUME CopiesApart, CopiesApart', NEW l \in Location, HostStore(l)
  PROVE  Memory!CopyStep
  <1>1. /\ copyCall = NoCopyCall /\ writes' = writes + 1
        /\ l[1] = Pageable \/ (l[1] \in PinnedBuffers /\ owner[l[1]] = "tensor")
        /\ l[1] \in PinnedBuffers =>
             \A d \in Devices : \A o \in Pending(d) : o.to # l /\ (o.raw \/ o.from # l)
        /\ mem' = [mem EXCEPT ![l] = <<NewData, writes'>>]
        /\ queues' = queues /\ owner' = owner /\ copyCall' = copyCall
    BY DEF HostStore
  <1>2. /\ mem \in Memories /\ queues \in OpQueues
        /\ \A d \in Devices : \A i \in 1 .. Len(queues[d]) : queues[d][i] \in Pending(d)
    BY Seen
  <1>3. mem' \in Memories
    <2>1. (mem \in Memories)'
      BY Seen, PTL
    <2> QED
      BY <2>1
  <1>4. ASSUME NEW d \in Devices, NEW o \in Pending(d) PROVE ~Touches(o, l)
    <2>1. ~Waiting(d) /\ OpHost(d, o)
      BY <1>1, NoCallNow DEF CopiesApart, QueuesLocal
    <2>2. CASE l[1] = Pageable
      BY <2>1, <2>2 DEF OpHost, Touches
    <2>3. CASE l[1] \in PinnedBuffers
      BY <1>1, <2>1, <2>3 DEF OpHost, Touches
    <2> QED
      BY <1>1, <2>2, <2>3
  <1>5. \A d \in Devices : Off(queues[d], {l})
    BY <1>2, <1>4 DEF Off, Spared
  <1>6. Agree(mem', mem, {l})
    <2> HIDE DEF Location
    <2> QED
      BY <1>1, <1>2 DEF Agree, Memories
  <1>7. /\ Agree(AfterAll(mem', queues), AfterAll(mem, queues), {l})
        /\ \A k \in {l} \cap Location : AfterAll(mem', queues)[k] = mem'[k]
    BY <1>2, <1>3, <1>5, <1>6, AfterAllAgree, ZenonT(60)
  <1>8. Settled' = AfterAll(mem', queues)
    BY <1>1 DEF Settled
  <1>9. mem'[l] = <<NewData, writes'>>
    <2> HIDE DEF Location
    <2> QED
      BY <1>1, <1>2 DEF Memories
  <1>10. /\ Settled'[l] = <<NewData, writes'>>
         /\ \A k \in Location : k # l => Settled'[k] = Settled[k]
    BY <1>7, <1>8, <1>9 DEF Agree, Settled
  <1>11. l[1] \in PinnedBuffers => owner[l[1]] = "tensor"
    BY <1>1, HostAndDevices
  <1> QED
    BY <1>1, <1>10, <1>11, StoreStep

LEMMA PinnedTurns ==
  ASSUME CopiesApart, CopiesApart', NEW p \in PinnedBuffers, NewPinned(p) \/ DropPinned(p)
  PROVE  Memory!CopyStep
  <1>1. copyCall = NoCopyCall /\ mem' = mem /\ queues' = queues /\ copyCall' = copyCall /\ writes' = writes
    BY DEF NewPinned, DropPinned
  <1>2. Visible = View(Settled, owner) /\ Settled' = Settled
    BY <1>1, Seen DEF Settled
  <1>3. Visible' = View(Settled, owner')
    <2>1. (Visible = View(Settled, owner))'
      BY Seen, PTL
    <2> QED
      BY <1>2, <2>1
  <1>4. ASSUME NEW l \in Location, Visible[l] = Unowned <=> Visible'[l] = Unowned
        PROVE  Visible'[l] = Visible[l]
    <2>1. Visible[l] = Settled[l] \/ Visible[l] = Unowned
      BY <1>2 DEF View
    <2>2. Visible'[l] = Settled[l] \/ Visible'[l] = Unowned
      BY <1>3 DEF View
    <2> QED
      BY <1>4, <2>1, <2>2
  <1>5. Asked = <<>> /\ Asked' = Asked
    BY <1>1 DEF Asked
  <1>6. Memory!Turnover
    BY <1>1, <1>4, <1>5 DEF Memory!Turnover
  <1> QED
    BY <1>5, <1>6 DEF Memory!CopyStep

LEMMA CallAsks ==
  ASSUME CopiesApart, CopiesApart', NEW s \in Tensors, NEW t \in Tensors, NEW map \in BlockMaps,
         \/ SwapBlocks(s, t, map) \/ SwapBatch(s, t, map)
         \/ \E named \in BOOLEAN : MemcpySync(s, t, map, named)
  PROVE  Memory!CopyStep
  <1>1. copyCall = NoCopyCall /\ mem' = mem /\ queues' = queues /\ owner' = owner /\ writes' = writes
    BY DEF SwapBlocks, SwapBatch, MemcpySync, Callable
  <1>2. Visible = View(Settled, owner) /\ Settled' = Settled
    BY <1>1, Seen DEF Settled
  <1>3. Visible' = Visible
    <2>1. (Visible = View(Settled, owner))'
      BY Seen, PTL
    <2> QED
      BY <1>1, <1>2, <2>1
  <1>4. Asked' \in Seq(EntryRecords)
    <2>1. CASE copyCall' = NoCopyCall
      BY <2>1 DEF Asked
    <2>2. CASE copyCall' # NoCopyCall
      <3>1. copyCall'.entries \in Seq(EntryRecords)
        BY <2>2, RecordParts DEF CopiesApart, MemTypes
      <3>2. Asked' = Sized(copyCall'.entries)
        BY <2>2 DEF Asked
      <3> QED
        BY <3>1, <3>2, SizedTypes
    <2> QED
      BY <2>1, <2>2
  <1>5. \A i \in DOMAIN Asked' : {Asked'[i].from, Asked'[i].to} \subseteq Location
    <2>1. PICK a \in Seq(EntryRecords) : a = Asked'
      BY <1>4
    <2>2. \A i \in DOMAIN a : a[i] \in EntryRecords
      OBVIOUS
    <2> QED
      BY <2>1, <2>2, RecordParts
  <1>6. Memory!Ask /\ Asked = <<>>
    BY <1>1, <1>3, <1>5 DEF Memory!Ask, Asked
  <1> QED
    BY <1>6 DEF Memory!CopyStep

(* What a call does to what it has still to copy. *)
LEMMA AskedAdvances ==
  ASSUME CopiesApart, Ready, NEW wait \in BOOLEAN, Advance(wait)
  PROVE  /\ Entry.size = 0 => Asked' = Asked
         /\ Entry.size # 0 => Asked # <<>> /\ Asked[1] = Entry /\ Asked' = Tail(Asked)
  <1>1. /\ InCall /\ copyCall.entries \in Seq(EntryRecords) /\ copyCall.entries # <<>>
        /\ Tail(copyCall.entries) \in Seq(EntryRecords)
    BY AtEntry
  <1>2. InCall' /\ copyCall'.entries = Tail(copyCall.entries)
    BY Advances
  <1>3. Asked = Sized(copyCall.entries) /\ Asked' = Sized(Tail(copyCall.entries))
    BY <1>1, <1>2 DEF Asked, InCall
  <1>4. Sized(Tail(copyCall.entries)) \in Seq(EntryRecords)
    BY <1>1, SizedTypes
  <1>5. Entry.size # 0 => Asked # <<>> /\ Asked[1] = Entry /\ Asked' = Tail(Asked)
    <2> SUFFICES ASSUME Entry.size # 0 PROVE Asked # <<>> /\ Asked[1] = Entry /\ Asked' = Tail(Asked)
      OBVIOUS
    <2>1. /\ Len(Sized(copyCall.entries)) = Len(Sized(Tail(copyCall.entries))) + 1
          /\ Sized(copyCall.entries)[1] = copyCall.entries[1]
          /\ Sized(Tail(copyCall.entries)) = Tail(Sized(copyCall.entries))
      BY <1>1, SizedHead DEF Entry
    <2>2. Asked # <<>>
      <3>1. Len(Sized(Tail(copyCall.entries))) \in Nat
        BY <1>4
      <3>2. PICK n \in Nat : Len(Asked) = n + 1
        BY <1>3, <2>1, <3>1
      <3>3. Len(<<>>) = 0
        OBVIOUS
      <3> QED
        BY <3>2, <3>3
    <2> QED
      BY <1>3, <2>1, <2>2 DEF Entry
  <1>6. Entry.size = 0 => Asked' = Asked
    BY <1>1, <1>3, SizedHead DEF Entry
  <1> QED
    BY <1>5, <1>6

LEMMA SkipStutters ==
  ASSUME CopiesApart, CopiesApart', SkipEntry
  PROVE  UNCHANGED <<Visible, writes, Asked>>
  <1>1. /\ Ready /\ Entry.size = 0 /\ Advance(FALSE)
        /\ mem' = mem /\ queues' = queues /\ owner' = owner /\ writes' = writes
    BY DEF SkipEntry
  <1>2. Asked' = Asked
    BY <1>1, AskedAdvances
  <1>3. Visible' = Visible
    <2>1. (Visible = View(Settled, owner))' /\ Visible = View(Settled, owner)
      BY Seen, PTL
    <2>2. Settled' = Settled
      BY <1>1 DEF Settled
    <2> QED
      BY <1>1, <2>1, <2>2
  <1> QED
    BY <1>1, <1>2, <1>3

(* A copy that is made when it is submitted. *)
LEMMA CopyIsStep ==
  ASSUME CopiesApart, CopiesApart', Ready, Entry.size # 0, NEW wait \in BOOLEAN, Advance(wait),
         owner' = owner, writes' = writes,
         Settled'[Entry.to] = Settled[Entry.from],
         \A k \in Location : k # Entry.to /\ (k[1] \in PinnedBuffers => owner[k[1]] = "tensor")
                             => Settled'[k] = Settled[k]
  PROVE  Memory!CopyStep
  <1>1. Asked # <<>> /\ Asked[1] = Entry /\ Asked' = Tail(Asked)
    BY AskedAdvances
  <1>2. Entry.from \in Location /\ Entry.to \in Location /\ EntryApart(copyCall, Entry)
    BY AtEntry, RecordParts
  <1>3. PICK from \in Location, to \in Location : from = Entry.from /\ to = Entry.to
    BY <1>2
  <1>4. /\ from[1] \in PinnedBuffers => owner[from[1]] = "tensor"
        /\ to[1] \in PinnedBuffers => owner[to[1]] = "tensor"
    BY <1>2, <1>3 DEF EntryApart
  <1>5. Visible = View(Settled, owner) /\ Settled \in Memories
    BY Seen
  <1>6. Visible' = View(Settled', owner)
    <2>1. (Visible = View(Settled, owner))'
      BY Seen, PTL
    <2> QED
      BY <2>1
  <1>7. View(Settled', owner) = [View(Settled, owner) EXCEPT ![to] = View(Settled, owner)[from]]
    <2>1. View(Settled, owner)[from] = Settled[from]
      BY <1>4 DEF View
    <2>2. OneSeen(Settled, Settled', owner, to, Settled[from])
      BY <1>3, <1>4 DEF OneSeen
    <2> QED
      BY <2>1, <2>2 DEF View, OneSeen
  <1>8. Visible' = [Visible EXCEPT ![Asked[1].to] = Visible[Asked[1].from]]
    BY <1>1, <1>3, <1>5, <1>6, <1>7
  <1> QED
    BY <1>1, <1>8 DEF Memory!CopyStep, Memory!CopyNext

LEMMA CopyDirectIs ==
  ASSUME CopiesApart, CopiesApart', CopyDirect
  PROVE  Memory!CopyStep
  <1>1. /\ Ready /\ Entry.size # 0 /\ copyCall.stage = "none" /\ Advance(copyCall.sync)
        /\ queues' = Record(Submit(copyCall.device, CopyOp(Entry.from, Entry.to, copyCall.raw)),
                     copyCall.device, copyCall.pinned)
        /\ mem' = mem /\ owner' = owner /\ writes' = writes
    BY DEF CopyDirect
  <1>2. copyCall \in CallRecords /\ Entry \in EntryRecords /\ EntryApart(copyCall, Entry)
    BY <1>1, AtEntry
  <1>3. PICK from \in Location, to \in Location, raw \in BOOLEAN, p \in PinnedBuffers \cup {NoBuffer},
             sync \in BOOLEAN :
          from = Entry.from /\ to = Entry.to /\ raw = copyCall.raw /\ p = copyCall.pinned /\ sync = copyCall.sync
    BY <1>2, RecordParts
  <1>c. PICK d \in Devices, o \in Ops : Submits(d, o, from, to, raw, p)
    BY <1>1, CallSubmits
  <1>4. /\ d = copyCall.device /\ o.from = from /\ o.to = to /\ o.new = 0 /\ o.raw = raw
        /\ Record(Submit(d, CopyOp(from, to, raw)), d, p) = Submit(d, o)
        /\ o.events = IF p = NoBuffer THEN {} ELSE {p}
    BY <1>c DEF Submits
  <1>5. queues' = [queues EXCEPT ![d] = Append(@, o)]
    BY <1>1, <1>3, <1>4 DEF Submit
  <1>6. mem \in Memories /\ queues \in OpQueues /\ Settled \in Memories
        /\ \A e \in Devices : \A j \in 1 .. Len(queues[e]) : queues[e][j] \in Pending(e)
    BY Seen
  <1>7. ASSUME NEW e \in Devices \ {d}, NEW j \in 1 .. Len(queues[e]) PROVE Apart(o, queues[e][j])
    <2>1. PICK u \in Pending(e) : u = queues[e][j]
      BY <1>6, <1>7
    <2>2. u \in Ops
      BY PendingTypes
    <2>3. ~Touches(u, o.to) /\ u.to # o.from
      BY <1>2, <1>3, <1>4 DEF EntryApart, Touches
    <2> QED
      BY <1>4, <2>1, <2>2, <2>3, ApartIs
  <1>8. AfterAll(mem, [queues EXCEPT ![d] = Append(@, o)]) = Effect(AfterAll(mem, queues), o)
    <2>1. mem \in Memories /\ queues \in OpQueues
      BY <1>6
    <2> QED
      BY <2>1, <1>7, AfterAllAppend, Zenon
  <1>9. Settled' = Effect(Settled, o)
    BY <1>1, <1>5, <1>8 DEF Settled
  <1>10. Settled'[to] = Settled[from] /\ \A k \in Location : k # to => Settled'[k] = Settled[k]
    BY <1>4, <1>6, <1>9, EffectIs
  <1>11. Advance(sync)
    BY <1>1, <1>3
  <1> QED
    BY <1>1, <1>3, <1>10, <1>11, CopyIsStep

LEMMA CopyStagedIs ==
  ASSUME CopiesApart, CopiesApart', CopyStaged
  PROVE  Memory!CopyStep
  <1>1. PICK p \in PinnedBuffers :
          /\ Ready /\ Entry.size # 0 /\ copyCall.stage = "each" /\ Advance(FALSE) /\ Reusable(p)
          /\ mem' = [mem EXCEPT ![<<p, 1>>] = mem[Entry.from]]
          /\ queues' = Record(Submit(copyCall.device, CopyOp(<<p, 1>>, Entry.to, FALSE)), copyCall.device, p)
          /\ owner' = owner /\ writes' = writes
    BY DEF CopyStaged
  <1>2. /\ InCall /\ copyCall \in CallRecords /\ Entry \in EntryRecords
        /\ EntryApart(copyCall, Entry) /\ Entry.from[1] = Pageable /\ Entry.to[1] = copyCall.device
        /\ \A e \in Devices : ~Waiting(e)
    BY <1>1, AtEntry
  <1>l. <<p, 1>> \in Location
    <2>1. Entry.from \in Location
      BY <1>2, RecordParts
    <2>2. 1 \in TensorBlocks
      BY <2>1, BlocksAssumption, FS_CardinalityType, HostAndDevices
    <2> QED
      BY <2>2, HostAndDevices DEF Location
  <1>3. PICK to \in Location, own \in Location : to = Entry.to /\ own = Entry.from
    BY <1>2, RecordParts
  <1>f. PICK from \in Location, raw \in BOOLEAN : from = <<p, 1>> /\ raw = FALSE
    BY <1>l
  <1>c. PICK d \in Devices, o \in Ops : Submits(d, o, from, to, raw, p)
    BY <1>1, CallSubmits
  <1>4. /\ d = copyCall.device /\ o.from = from /\ o.to = to /\ o.new = 0 /\ o.raw = raw
        /\ Record(Submit(d, CopyOp(from, to, raw)), d, p) = Submit(d, o)
        /\ o.events = IF p = NoBuffer THEN {} ELSE {p}
    BY <1>c DEF Submits
  <1>5. queues' = [queues EXCEPT ![d] = Append(@, o)]
    BY <1>1, <1>3, <1>4, <1>f DEF Submit
  <1>7. /\ to[1] = d /\ from[1] = p /\ own[1] = Pageable /\ own # from /\ to # from /\ owner[p] = "free"
    BY <1>1, <1>2, <1>3, <1>4, <1>f, HostAndDevices DEF Reusable
  <1>6. mem \in Memories /\ queues \in OpQueues /\ Settled \in Memories
        /\ \A e \in Devices : \A j \in 1 .. Len(queues[e]) : queues[e][j] \in Pending(e)
    BY Seen
  <1>m. mem' \in Memories
    <2>1. (mem \in Memories)'
      BY Seen, PTL
    <2> QED
      BY <2>1
  <1>n. mem'[from] = mem[own] /\ Agree(mem', mem, {from})
    <2> HIDE DEF Location
    <2> QED
      BY <1>1, <1>3, <1>6, <1>f DEF Memories, Agree
  <1>8. ASSUME NEW e \in Devices, NEW j \in 1 .. Len(queues[e])
        PROVE  /\ ~Touches(queues[e][j], from) /\ queues[e][j].to # own
               /\ e # d => Apart(o, queues[e][j])
    <2>1. PICK u \in Pending(e) : u = queues[e][j]
      BY <1>6, <1>8
    <2>2. u \in Ops
      BY PendingTypes
    <2>3. u.to[1] # p /\ u.from[1] # p
      BY <1>1, ReusableUntouched
    <2>4. ~Touches(u, from)
      BY <1>7, <2>3 DEF Touches
    <2>5. u.to # own
      BY <1>2, <1>7 DEF CopiesApart, QueuesLocal, OpHost
    <2>6. ASSUME e # d PROVE Apart(o, u)
      <3>1. ~Touches(u, o.to)
        BY <1>2, <1>3, <1>4, <2>6 DEF EntryApart
      <3>2. u.to # o.from
        BY <1>4, <2>4 DEF Touches
      <3> QED
        BY <1>4, <2>2, <3>1, <3>2, ApartIs
    <2> QED
      BY <2>1, <2>4, <2>5, <2>6
  <1>9. /\ Agree(AfterAll(mem', queues), AfterAll(mem, queues), {from})
        /\ \A k \in {from} \cap Location : AfterAll(mem', queues)[k] = mem'[k]
    <2>1. \A e \in Devices : Off(queues[e], {from})
      BY <1>8 DEF Off, Spared
    <2>2. mem \in Memories /\ queues \in OpQueues /\ Agree(mem', mem, {from})
      BY <1>6, <1>n
    <2> QED
      BY <1>m, <2>1, <2>2, AfterAllAgree, ZenonT(60)
  <1>10. AfterAll(mem, queues)[own] = mem[own]
    BY <1>6, <1>8, AfterAllFrame
  <1>11. AfterAll(mem', [queues EXCEPT ![d] = Append(@, o)]) = Effect(AfterAll(mem', queues), o)
    <2>1. mem' \in Memories /\ queues \in OpQueues
      BY <1>6, <1>m
    <2>2. \A e \in Devices \ {d} : \A j \in 1 .. Len(queues[e]) : Apart(o, queues[e][j])
      BY <1>8
    <2> QED
      BY <2>1, <2>2, AfterAllAppend, Zenon
  <1>12. Settled' = Effect(AfterAll(mem', queues), o) /\ AfterAll(mem', queues) \in Memories
    BY <1>5, <1>6, <1>m, <1>11, AfterAllTypes DEF Settled
  <1>13. /\ Settled'[to] = AfterAll(mem', queues)[from]
         /\ \A k \in Location : k # to => Settled'[k] = AfterAll(mem', queues)[k]
    BY <1>4, <1>12, EffectIs
  <1>14. Settled'[to] = Settled[own]
    BY <1>9, <1>10, <1>13, <1>n DEF Settled
  <1>15. ASSUME NEW k \in Location, k # to, k[1] \in PinnedBuffers => owner[k[1]] = "tensor"
         PROVE  Settled'[k] = Settled[k]
    <2>1. k # from
      BY <1>7, <1>15
    <2> QED
      BY <1>9, <1>13, <1>15, <2>1 DEF Agree, Settled
  <1>16. PICK wait \in BOOLEAN : wait = FALSE
    OBVIOUS
  <1>17. Advance(wait)
    BY <1>1, <1>16
  <1> QED
    BY <1>1, <1>3, <1>14, <1>15, <1>17, CopyIsStep

LEMMA CopySnapshotIs ==
  ASSUME CopiesApart, CopiesApart', CopySnapshot
  PROVE  Memory!CopyStep
  <1>1. /\ Ready /\ Entry.size # 0 /\ copyCall.stage = "batch" /\ copyCall.buffer # NoBuffer
        /\ Advance(FALSE)
        /\ queues' = Submit(copyCall.device, CopyOp(<<copyCall.buffer, copyCall.offset + 1>>, Entry.to, FALSE))
        /\ mem' = mem /\ owner' = owner /\ writes' = writes
    BY DEF CopySnapshot
  <1>2. /\ InCall /\ copyCall \in CallRecords /\ Entry \in EntryRecords
        /\ EntryApart(copyCall, Entry) /\ BatchEntry(copyCall, Entry)
        /\ copyCall.entries \in Seq(EntryRecords) /\ copyCall.entries # <<>>
    BY <1>1, AtEntry
  <1>b. /\ copyCall.buffer \in PinnedBuffers /\ Staging(copyCall)
        /\ \A e \in Devices : \A u \in Pending(e) :
              /\ u.to[1] # copyCall.buffer
              /\ e # copyCall.device => u.from[1] # copyCall.buffer
    BY <1>1, <1>2, BufferKept
  <1>s. /\ 1 \in DOMAIN Sized(copyCall.entries) /\ Sized(copyCall.entries)[1] = Entry
        /\ copyCall.offset + 1 \in TensorBlocks
    <2>1. /\ Len(Sized(copyCall.entries)) = Len(Sized(Tail(copyCall.entries))) + 1
          /\ Sized(copyCall.entries)[1] = Entry
      BY <1>1, <1>2, SizedHead DEF Entry
    <2>2. Len(Sized(Tail(copyCall.entries))) \in Nat
      <3>1. Sized(Tail(copyCall.entries)) \in Seq(EntryRecords)
        BY <1>1, AtEntry, SizedTypes
      <3> QED
        BY <3>1
    <2>3. DOMAIN Sized(copyCall.entries) = 1 .. Len(Sized(copyCall.entries))
      BY <1>1, <1>2, LeftIs
    <2>4. copyCall.offset \in Nat /\ Cardinality(TensorBlocks) \in Nat
      BY <1>2, RecordParts, BlocksAssumption, FS_CardinalityType
    <2>5. copyCall.offset + Len(Sized(copyCall.entries)) <= Cardinality(TensorBlocks)
      BY <1>b DEF Staging
    <2>6. PICK n \in Nat, r \in Nat, k \in Nat :
            n = copyCall.offset /\ r = Len(Sized(Tail(copyCall.entries))) /\ k = Cardinality(TensorBlocks)
      BY <2>2, <2>4
    <2>7. n + 1 \in 1 .. k /\ 1 \in 1 .. r + 1
      BY <2>1, <2>5, <2>6
    <2> QED
      BY <2>1, <2>3, <2>6, <2>7, BlocksAssumption
  <1>3. PICK p \in PinnedBuffers, n \in TensorBlocks, to \in Location, own \in Location,
             raw \in BOOLEAN, d \in Devices, none \in PinnedBuffers \cup {NoBuffer} :
          /\ p = copyCall.buffer /\ n = copyCall.offset + 1 /\ to = Entry.to /\ own = Entry.from
          /\ raw = FALSE /\ d = copyCall.device /\ none = NoBuffer
    BY <1>2, <1>b, <1>s, RecordParts
  <1>f. PICK from \in Location : from = <<p, n>>
    BY HostAndDevices DEF Location
  <1>4. from = <<p, n>> /\ from[1] = p
    BY <1>f
  <1>o. PICK o \in Ops : o = CopyOp(from, to, raw)
    BY OpTypes
  <1>5. o.from = from /\ o.to = to /\ o.new = 0
    BY <1>o DEF CopyOp
  <1>6. queues' = [queues EXCEPT ![d] = Append(@, o)]
    BY <1>1, <1>3, <1>4, <1>o DEF Submit
  <1>7. mem \in Memories /\ queues \in OpQueues /\ Settled \in Memories
        /\ \A e \in Devices : \A j \in 1 .. Len(queues[e]) : queues[e][j] \in Pending(e)
    BY Seen
  <1>8. ASSUME NEW e \in Devices, NEW j \in 1 .. Len(queues[e])
        PROVE  /\ queues[e][j].to # from /\ queues[e][j].to # own
               /\ e # d => Apart(o, queues[e][j])
    <2>1. PICK u \in Pending(e) : u = queues[e][j]
      BY <1>7, <1>8
    <2>2. u \in Ops
      BY PendingTypes
    <2>3. u.to # from /\ u.to # own
      BY <1>2, <1>3, <1>4, <1>b DEF BatchEntry
    <2>4. ASSUME e # d PROVE Apart(o, u)
      <3>1. ~Touches(u, o.to)
        BY <1>2, <1>3, <1>5, <2>4 DEF EntryApart
      <3> QED
        BY <1>5, <2>2, <2>3, <3>1, ApartIs
    <2> QED
      BY <2>1, <2>3, <2>4
  <1>9. AfterAll(mem, queues)[from] = mem[from] /\ AfterAll(mem, queues)[own] = mem[own]
    BY <1>7, <1>8, AfterAllFrame
  <1>10. mem[from] = mem[own]
    BY <1>1, <1>3, <1>4, <1>b, <1>s DEF Staging
  <1>11. AfterAll(mem, [queues EXCEPT ![d] = Append(@, o)]) = Effect(AfterAll(mem, queues), o)
    <2>1. mem \in Memories /\ queues \in OpQueues
      BY <1>7
    <2>2. \A e \in Devices \ {d} : \A j \in 1 .. Len(queues[e]) : Apart(o, queues[e][j])
      BY <1>8
    <2> QED
      BY <2>1, <2>2, AfterAllAppend, Zenon
  <1>12. Settled' = Effect(Settled, o)
    BY <1>1, <1>6, <1>11 DEF Settled
  <1>13. Settled'[to] = Settled[own] /\ \A k \in Location : k # to => Settled'[k] = Settled[k]
    <2>1. Settled'[to] = Settled[from] /\ \A k \in Location : k # to => Settled'[k] = Settled[k]
      BY <1>5, <1>7, <1>12, EffectIs
    <2> QED
      BY <1>9, <1>10, <2>1 DEF Settled
  <1>14. PICK wait \in BOOLEAN : wait = FALSE
    OBVIOUS
  <1>15. Advance(wait)
    BY <1>1, <1>14
  <1> QED
    BY <1>1, <1>3, <1>13, <1>15, CopyIsStep

(* What is hidden may change. *)
LEMMA StutterIs ==
  ASSUME CopiesApart, CopiesApart', writes' = writes, Asked' = Asked,
         \A l \in Location : (l[1] \in PinnedBuffers /\ owner[l[1]] # "tensor")
                             <=> (l[1] \in PinnedBuffers /\ owner'[l[1]] # "tensor"),
         \A l \in Location : (l[1] \in PinnedBuffers => owner[l[1]] = "tensor") => Settled'[l] = Settled[l]
  PROVE  UNCHANGED <<Visible, writes, Asked>>
  <1>1. Visible = View(Settled, owner)
    BY Seen
  <1>2. Visible' = View(Settled', owner')
    <2>1. (Visible = View(Settled, owner))'
      BY Seen, PTL
    <2> QED
      BY <2>1
  <1>3. \A l \in Location :
          (IF l[1] \in PinnedBuffers /\ owner'[l[1]] # "tensor" THEN Unowned ELSE Settled'[l])
            = (IF l[1] \in PinnedBuffers /\ owner[l[1]] # "tensor" THEN Unowned ELSE Settled[l])
    OBVIOUS
  <1>4. View(Settled', owner') = View(Settled, owner)
    <2> HIDE DEF Location
    <2> QED
      BY <1>3 DEF View
  <1> QED
    BY <1>1, <1>2, <1>4

LEMMA TakeSnapshotStutters ==
  ASSUME CopiesApart, CopiesApart', TakeSnapshot
  PROVE  UNCHANGED <<Visible, writes, Asked>>
  <1>1. PICK p \in PinnedBuffers :
          /\ Ready /\ copyCall.stage = "batch" /\ Reusable(p)
          /\ mem' = Snapshot(p, copyCall.entries)
          /\ owner' = [owner EXCEPT ![p] = "call"]
          /\ copyCall' = [copyCall EXCEPT !.buffer = p]
          /\ queues' = queues /\ writes' = writes
    BY DEF TakeSnapshot
  <1>2. InCall /\ copyCall \in CallRecords
    BY <1>1, AtEntry
  <1>3. /\ copyCall' \in CallRecords /\ copyCall'.entries = copyCall.entries
    BY <1>1, <1>2 DEF CallRecords
  <1>4. Asked' = Asked
    BY <1>2, <1>3, CallAssumption DEF Asked, InCall
  <1>5. owner \in [PinnedBuffers -> {"free", "tensor", "call"}] /\ owner[p] = "free"
    BY <1>1 DEF CopiesApart, MemTypes, Reusable
  <1>6. mem \in Memories /\ queues \in OpQueues
        /\ \A e \in Devices : \A j \in 1 .. Len(queues[e]) : queues[e][j] \in Pending(e)
    BY Seen
  <1>7. mem' \in Memories
    <2>1. (mem \in Memories)'
      BY Seen, PTL
    <2> QED
      BY <2>1
  <1>8. PICK S : S = {l \in Location : l[1] = p}
    OBVIOUS
  <1>9. Agree(mem', mem, S)
    <2> DEFINE left == Sized(copyCall.entries)
    <2>1. mem' = [l \in Location |-> IF l[1] = p /\ l[2] \in DOMAIN left THEN mem[left[l[2]].from] ELSE mem[l]]
      BY <1>1 DEF Snapshot
    <2> HIDE DEF left, Location
    <2> QED
      BY <1>8, <2>1 DEF Agree
  <1>10. ASSUME NEW e \in Devices PROVE Off(queues[e], S)
    <2>1. ASSUME NEW j \in 1 .. Len(queues[e]), NEW l \in S PROVE ~Touches(queues[e][j], l)
      <3>1. PICK u \in Pending(e) : u = queues[e][j]
        BY <1>6, <2>1
      <3>2. u.to[1] # p /\ u.from[1] # p
        BY <1>1, ReusableUntouched
      <3>3. l[1] = p
        BY <1>8, <2>1
      <3> QED
        BY <3>1, <3>2, <3>3 DEF Touches
    <2> QED
      BY <2>1 DEF Off, Spared
  <1>11. Agree(AfterAll(mem', queues), AfterAll(mem, queues), S)
    BY <1>6, <1>7, <1>9, <1>10, AfterAllAgree
  <1>12. ASSUME NEW l \in Location, l[1] \in PinnedBuffers => owner[l[1]] = "tensor"
         PROVE  Settled'[l] = Settled[l]
    <2>1. l \notin S
      BY <1>5, <1>8, <1>12
    <2> QED
      BY <1>1, <1>11, <2>1 DEF Agree, Settled
  <1>13. \A b \in PinnedBuffers : owner[b] # "tensor" <=> owner'[b] # "tensor"
    BY <1>1, <1>5
  <1> QED
    BY <1>1, <1>4, <1>12, <1>13, StutterIs

LEMMA AwaitStutters ==
  ASSUME CopiesApart, CopiesApart', Await
  PROVE  UNCHANGED <<Visible, writes, Asked>>
  <1>1. /\ InCall /\ copyCall' = [copyCall EXCEPT !.waiting = FALSE]
        /\ mem' = mem /\ queues' = queues /\ owner' = owner /\ writes' = writes
    BY DEF Await, InCall
  <1>2. copyCall \in CallRecords
    BY <1>1 DEF CopiesApart, MemTypes, InCall
  <1>3. /\ copyCall' \in CallRecords /\ copyCall'.entries = copyCall.entries
    BY <1>1, <1>2 DEF CallRecords
  <1>4. Asked' = Asked
    <2>1. InCall
      BY <1>1
    <2> QED
      BY <2>1, <1>3, CallAssumption DEF Asked, InCall
  <1>5. Settled' = Settled
    BY <1>1 DEF Settled
  <1> QED
    BY <1>1, <1>4, <1>5, StutterIs

LEMMA ReturnStutters ==
  ASSUME CopiesApart, CopiesApart', EndCall
  PROVE  UNCHANGED <<Visible, writes, Asked>>
  <1>1. /\ InCall /\ copyCall.entries = <<>>
        /\ queues' = Record(queues, copyCall.device, copyCall.buffer)
        /\ owner' = [p \in PinnedBuffers |-> IF p = copyCall.buffer THEN "free" ELSE owner[p]]
        /\ copyCall' = NoCopyCall
        /\ mem' = mem /\ writes' = writes
    BY DEF EndCall, InCall
  <1>2. copyCall \in CallRecords /\ BuffersHeld
    BY <1>1 DEF CopiesApart, MemTypes, InCall
  <1>3. PICK d \in Devices, p \in PinnedBuffers \cup {NoBuffer} : d = copyCall.device /\ p = copyCall.buffer
    BY <1>2, RecordParts
  <1>4. mem \in Memories /\ queues \in OpQueues
    BY Seen
  <1>5. /\ queues' \in OpQueues
        /\ \A e \in Devices : Len(queues[e]) = Len(queues'[e])
              /\ \A i \in 1 .. Len(queues[e]) : SameEffect(queues[e][i], queues'[e][i])
    <2>1. /\ Record(queues, d, p) \in OpQueues
          /\ \A e \in Devices : Len(Record(queues, d, p)[e]) = Len(queues[e])
          /\ \A e \in Devices : \A i \in DOMAIN queues[e] : SameEffect(Record(queues, d, p)[e][i], queues[e][i])
      BY <1>4, RecordIs
    <2>2. \A e \in Devices : DOMAIN queues[e] = 1 .. Len(queues[e])
      BY <1>4 DEF OpQueues
    <2> QED
      BY <1>1, <1>3, <2>1, <2>2 DEF SameEffect
  <1>6. AfterAll(mem, queues) = AfterAll(mem, queues')
    BY <1>4, <1>5, AfterAllSame
  <1>7. Settled' = Settled
    BY <1>1, <1>6 DEF Settled
  <1>8. \A b \in PinnedBuffers : owner[b] # "tensor" <=> owner'[b] # "tensor"
    BY <1>1, <1>2 DEF BuffersHeld
  <1>9. Asked' = Asked
    <2>1. copyCall.entries \in Seq(EntryRecords)
      BY <1>2, RecordParts
    <2>2. Sized(copyCall.entries) = <<>>
      BY <1>1, <2>1, SizedTypes
    <2> QED
      BY <1>1, <2>2 DEF Asked
  <1> QED
    BY <1>1, <1>7, <1>8, <1>9, StutterIs

LEMMA ExecuteStutters ==
  ASSUME CopiesApart, CopiesApart', NEW d \in Devices, Execute(d)
  PROVE  UNCHANGED <<Visible, writes, Asked>>
  <1>1. /\ queues[d] # <<>> /\ mem' = Effect(mem, queues[d][1])
        /\ queues' = [queues EXCEPT ![d] = Tail(@)]
        /\ owner' = owner /\ copyCall' = copyCall /\ writes' = writes
    BY DEF Execute
  <1>2. mem \in Memories /\ queues \in OpQueues
        /\ \A e \in Devices : \A j \in 1 .. Len(queues[e]) : queues[e][j] \in Pending(e)
    BY Seen
  <1>3. queues[d][1] \in Pending(d)
    BY <1>1, <1>2, Executed
  <1>4. \A e \in Devices \ {d} : \A i \in 1 .. Len(queues[e]) : Apart(queues[d][1], queues[e][i])
    BY <1>2, <1>3 DEF CopiesApart, QueuesApart
  <1>5. AfterAll(Effect(mem, queues[d][1]), [queues EXCEPT ![d] = Tail(@)]) = AfterAll(mem, queues)
    <2>1. mem \in Memories /\ queues \in OpQueues
      BY <1>2
    <2> QED
      BY <2>1, <1>1, <1>4, AfterAllHead, Zenon
  <1>6. Settled' = Settled
    BY <1>1, <1>5 DEF Settled
  <1>7. Asked' = Asked
    BY <1>1 DEF Asked
  <1> QED
    BY <1>1, <1>6, <1>7, StutterIs

LEMMA UnchangedStutters ==
  ASSUME CopiesApart, CopiesApart', UNCHANGED memVars
  PROVE  UNCHANGED <<Visible, writes, Asked>>
  <1>1. mem' = mem /\ queues' = queues /\ owner' = owner /\ copyCall' = copyCall /\ writes' = writes
    BY DEF memVars
  <1>2. Settled' = Settled /\ Asked' = Asked
    BY <1>1 DEF Settled, Asked
  <1> QED
    BY <1>1, <1>2, StutterIs

LEMMA InitIs == MemInit => Memory!CopyInit
  <1> SUFFICES ASSUME MemInit PROVE Memory!CopyInit
    OBVIOUS
  <1>1. CopiesApart
    BY InitApart
  <1>2. mem = [l \in Location |-> l] /\ queues = [d \in Devices |-> <<>>] /\ copyCall = NoCopyCall /\ writes = 0
    BY DEF MemInit
  <1>3. mem \in Memories /\ Visible = View(Settled, owner)
    BY <1>1, Seen
  <1>4. Settled = mem
    BY <1>2, <1>3, AfterAllNone DEF Settled
  <1>5. View(mem, owner) \in [Location -> {Unowned} \cup Location]
    <2> HIDE DEF Location
    <2> QED
      BY <1>2 DEF View
  <1>6. Asked = <<>>
    BY <1>2 DEF Asked
  <1> QED
    BY <1>2, <1>3, <1>4, <1>5, <1>6 DEF Memory!CopyInit

LEMMA NextImplements ==
  ASSUME CopiesApart, CopiesApart', [MemNext]_memVars
  PROVE  [Memory!CopyStep]_<<Visible, writes, Asked>>
  <1>1. CASE Host
    <2>1. CASE \E d \in Devices, i \in TensorBlocks : Produce(d, i)
      BY <2>1, ProduceStores
    <2>2. CASE \E l \in Location : HostStore(l)
      BY <2>2, HostStores
    <2>3. CASE \E p \in PinnedBuffers : NewPinned(p) \/ DropPinned(p)
      BY <2>3, PinnedTurns
    <2>4. CASE \E s, t \in Tensors : \E map \in BlockMaps :
                  \/ SwapBlocks(s, t, map)
                  \/ SwapBatch(s, t, map)
                  \/ \E named \in BOOLEAN : MemcpySync(s, t, map, named)
      BY <2>4, CallAsks
    <2> QED
      BY <1>1, <2>1, <2>2, <2>3, <2>4 DEF Host
  <1>2. CASE Steps
    <2>1. CASE CopyDirect \/ CopyStaged \/ CopySnapshot
      BY <2>1, CopyDirectIs, CopyStagedIs, CopySnapshotIs
    <2>2. CASE SkipEntry \/ TakeSnapshot \/ Await \/ EndCall
      BY <2>2, SkipStutters, TakeSnapshotStutters, AwaitStutters, ReturnStutters
    <2> QED
      BY <1>2, <2>1, <2>2 DEF Steps
  <1>3. CASE \E d \in Devices : Execute(d)
    BY <1>3, ExecuteStutters
  <1>4. CASE UNCHANGED memVars
    BY <1>4, UnchangedStutters
  <1> QED
    BY <1>1, <1>2, <1>3, <1>4 DEF MemNext

(* Every call's copies appear to be made at the call, one after the other, *)
(* whatever the program stores afterwards and whatever the allocator hands *)
(* out again: swap_blocks, swap_blocks_batch and xpu_memcpy_sync implement *)
(* CopyMemory.                                                             *)
THEOREM CopiesImplemented == MemSpec => CopiesMadeAtCall
  <1>1. MemInit => Memory!CopyInit
    BY InitIs
  <1>2. CopiesApart /\ CopiesApart' /\ [MemNext]_memVars => [Memory!CopyStep]_<<Visible, writes, Asked>>
    BY NextImplements
  <1> QED
    BY <1>1, <1>2, CopiesStayApart, PTL DEF MemSpec, CopiesMadeAtCall, Memory!CopySpec

-----------------------------------------------------------------------------
(* The writers of the KV cache. *)
LEMMA KvSizes ==
  /\ NumHeads \in Nat \ {0} /\ HeadSize \in Nat \ {0} /\ XSplit \in Nat \ {0}
  /\ PageSize \in Nat \ {0} /\ NumPages \in Nat \ {0}
  /\ ItemRange \in Nat \ {0} /\ PackSize \in Nat \ {0}
  /\ N \in Nat \ {0} /\ N = NumHeads * HeadSize
  /\ HeadSize \div XSplit \in Nat \ {0} /\ HeadSize = (HeadSize \div XSplit) * XSplit
<1>1. /\ NumHeads \in Nat \ {0} /\ HeadSize \in Nat \ {0} /\ XSplit \in Nat \ {0}
      /\ PageSize \in Nat \ {0} /\ NumPages \in Nat \ {0}
      /\ ItemRange \in Nat \ {0} /\ PackSize \in Nat \ {0} /\ HeadSize % XSplit = 0
  BY KvSizeAssumption
<1>2. N \in Nat \ {0} /\ N = NumHeads * HeadSize
  BY <1>1 DEF N
<1>3. HeadSize \div XSplit \in Nat /\ HeadSize = ((HeadSize \div XSplit) * XSplit) + (HeadSize % XSplit)
  BY <1>1, DivMod
<1> DEFINE q == HeadSize \div XSplit
<1>4. q \in Nat /\ HeadSize = q * XSplit
  BY <1>1, <1>3
<1> HIDE DEF q
<1>5. q # 0
  BY <1>1, <1>4
<1> QED BY <1>1, <1>2, <1>4, <1>5 DEF q

LEMMA RowMajorRuns ==
  ASSUME NEW shape \in Seq(Int), NEW index \in Seq(Int), Len(index) = Len(shape)
  PROVE  \E g : /\ RowMajor(shape, index) = g[Len(shape)] /\ g[0] = 0
                /\ \A d \in 1 .. Len(shape) : g[d - 1] \in Int /\ g[d] = (g[d - 1] * shape[d]) + index[d]
<1> DEFINE k == Len(shape)
           a == shape
           b == index
           at == CHOOSE f : f = [d \in 0 .. k |-> IF d = 0 THEN 0 ELSE (f[d - 1] * a[d]) + b[d]]
<1>1. k \in Nat /\ \A d \in 1 .. k : a[d] \in Int /\ b[d] \in Int
  OBVIOUS
<1>2. RowMajor(shape, index) = at[k]
  BY Zenon DEF RowMajor
<1> HIDE DEF k, a, b
<1>3. Horner(at, a, b, k)
  <2>1. \E f : Horner(f, a, b, k)
    <3> HIDE DEF at
    <3> QED BY <1>1, HornerExists
  <2> QED BY <2>1, Zenon DEF Horner
<1> HIDE DEF at
<1>4. /\ at[0] = 0 /\ \A d \in 0 .. k : at[d] \in Int
      /\ \A d \in 1 .. k : at[d] = (at[d - 1] * a[d]) + b[d]
  <2>1. at[0] = 0
    BY <1>1, <1>3, HornerRuns, Zenon
  <2>2. \A d \in 0 .. k : at[d] \in Int
    BY <1>1, <1>3, HornerRuns, Zenon
  <2>3. ASSUME NEW d \in 1 .. k PROVE at[d] = (at[d - 1] * a[d]) + b[d]
    <3>1. d \in 0 .. k /\ d # 0
      BY <1>1
    <3> QED BY <1>3, <3>1, Zenon DEF Horner
  <2> QED BY <2>1, <2>2, <2>3, Zenon
<1>5. \A d \in 1 .. k : at[d - 1] \in Int
  BY <1>1, <1>4
<1> QED BY <1>2, <1>4, <1>5 DEF k, a, b


-----------------------------------------------------------------------------
(* The work-items of a group reach every element, however they share them. *)
LEMMA ElementsAll ==
  ASSUME NEW n \in Nat
  PROVE  Elements(n) = 0 .. n - 1
<1>1. ItemRange \in Nat \ {0}
  BY KvSizes
<1>2. \A i \in 0 .. n - 1 : i % ItemRange \in 0 .. ItemRange - 1
  BY <1>1
<1> QED BY <1>2 DEF Elements

LEMMA PacksAll ==
  ASSUME NEW n \in Nat
  PROVE  /\ n \div PackSize \in Nat
         /\ Packs(n) = 0 .. ((n \div PackSize) * PackSize) - 1
<1> DEFINE m == n \div PackSize
<1>1. PackSize \in Nat \ {0}
  BY KvSizes
<1>2. m \in Nat
  BY <1>1, DivMod
<1> HIDE DEF m
<1>3. Elements(m) = 0 .. m - 1
  BY <1>2, ElementsAll
<1>4. ASSUME NEW i \in 0 .. (m * PackSize) - 1
      PROVE  \E v \in 0 .. m - 1, e \in 0 .. PackSize - 1 : i = v * PackSize + e
  <2>1. m * PackSize \in Nat
    BY <1>1, <1>2
  <2>2. i \in Nat
    BY <2>1
  <2>3. i % PackSize \in 0 .. PackSize - 1 /\ i = ((i \div PackSize) * PackSize) + (i % PackSize)
    BY <1>1, <2>2, DivMod
  <2>4. i \div PackSize \in 0 .. m - 1
    BY <1>1, <1>2, QuotientBelow
  <2> QED BY <2>3, <2>4
<1>5. ASSUME NEW v \in 0 .. m - 1, NEW e \in 0 .. PackSize - 1
      PROVE  v * PackSize + e \in 0 .. (m * PackSize) - 1
  BY <1>1, <1>2, TwoDigits
<1>6. Packs(n) = UNION {{v * PackSize + e : e \in 0 .. PackSize - 1} : v \in 0 .. m - 1}
  BY <1>3 DEF Packs, m
<1>7. Packs(n) = 0 .. (m * PackSize) - 1
  BY <1>4, <1>5, <1>6
<1> QED BY <1>2, <1>7 DEF m

LEMMA PacksWhole ==
  ASSUME NEW n \in Nat, n % PackSize = 0
  PROVE  Packs(n) = 0 .. n - 1
<1>1. PackSize \in Nat \ {0}
  BY KvSizes
<1>2. n \div PackSize \in Nat /\ n = ((n \div PackSize) * PackSize) + (n % PackSize)
  BY <1>1, DivMod
<1>3. (n \div PackSize) * PackSize = n
  BY <1>1, <1>2
<1> QED BY <1>3, PacksAll

LEMMA LeastOfTwo ==
  ASSUME NEW a \in Int, NEW b \in Int
  PROVE  Min({a, b}) = IF a <= b THEN a ELSE b
<1>1. \E x \in {a, b} : \A y \in {a, b} : x <= y
  <2>1. CASE a <= b
    BY <2>1
  <2>2. CASE ~(a <= b)
    BY <2>2
  <2> QED BY <2>1, <2>2
<1>2. Min({a, b}) \in {a, b} /\ \A y \in {a, b} : Min({a, b}) <= y
  BY <1>1 DEF Min
<1> QED BY <1>2

LEMMA AlignedAll ==
  ASSUME NEW n \in Nat, kv.shift \in 0 .. PackSize - 1
  PROVE  AlignedElements(n) = 0 .. n - 1
<1> DEFINE gap == (PackSize - kv.shift) % PackSize
           prefix == Min({gap, n})
           rest == n - prefix
           vectors == (rest \div PackSize) * PackSize
           tail == {vectors + i : i \in Elements(rest - vectors)}
<1>0. PackSize \in Nat \ {0}
  BY KvSizes
<1>1. CASE kv.shift = 0 /\ n % PackSize = 0
  BY <1>1, PacksWhole DEF AlignedElements
<1>2. CASE ~(kv.shift = 0 /\ n % PackSize = 0)
  <2>1. PackSize - kv.shift \in Nat
    BY <1>0
  <2>2. gap \in Nat
    BY <1>0, <2>1, DivMod
  <2> HIDE DEF gap
  <2>3. prefix \in Nat /\ prefix <= n
    BY <2>2, LeastOfTwo
  <2>4. rest \in Nat
    BY <2>3
  <2>5. AlignedElements(n) = Elements(prefix) \cup {prefix + i : i \in Packs(rest) \cup tail}
    BY <1>2 DEF AlignedElements, gap
  <2> HIDE DEF prefix
  <2>6. Elements(prefix) = 0 .. prefix - 1
    BY <2>3, ElementsAll
  <2>7. Packs(rest) = 0 .. vectors - 1
    BY <2>4, PacksAll
  <2>8. vectors \in Nat /\ rest - vectors \in Nat
    <3>1. rest \div PackSize \in Nat /\ rest % PackSize \in 0 .. PackSize - 1
          /\ rest = ((rest \div PackSize) * PackSize) + (rest % PackSize)
      BY <1>0, <2>4, DivMod
    <3>2. vectors \in Nat
      BY <1>0, <3>1
    <3> DEFINE m == rest % PackSize
    <3>3. m \in 0 .. PackSize - 1 /\ rest = vectors + m
      BY <3>1
    <3> HIDE DEF vectors, rest, m
    <3> QED BY <1>0, <2>4, <3>2, <3>3
  <2>9. tail = {vectors + i : i \in 0 .. (rest - vectors) - 1}
    BY <2>8, ElementsAll
  <2> HIDE DEF rest, tail, vectors
  <2>10. Packs(rest) \cup tail = 0 .. rest - 1
    <3>1. ASSUME NEW i \in 0 .. rest - 1 PROVE i \in Packs(rest) \cup tail
      <4>1. CASE i < vectors
        BY <2>7, <2>8, <4>1
      <4>2. CASE ~(i < vectors)
        <5>1. i - vectors \in 0 .. (rest - vectors) - 1 /\ i = vectors + (i - vectors)
          BY <2>4, <2>8, <4>2
        <5> QED BY <2>9, <5>1
      <4> QED BY <4>1, <4>2
    <3>2. ASSUME NEW i \in Packs(rest) \cup tail PROVE i \in 0 .. rest - 1
      <4>1. CASE i \in Packs(rest)
        BY <2>4, <2>7, <2>8, <4>1
      <4>2. CASE i \in tail
        BY <2>4, <2>8, <2>9, <4>2
      <4> QED BY <3>2, <4>1, <4>2
    <3> QED BY <3>1, <3>2
  <2>11. n = prefix + rest
    BY <2>3, <2>4 DEF rest
  <2>12. AlignedElements(n) = (0 .. prefix - 1) \cup {prefix + i : i \in 0 .. rest - 1}
    BY <2>5, <2>6, <2>10
  <2>13. ASSUME NEW i \in 0 .. n - 1 PROVE i \in (0 .. prefix - 1) \cup {prefix + j : j \in 0 .. rest - 1}
    <3>1. CASE i < prefix
      BY <2>3, <3>1
    <3>2. CASE ~(i < prefix)
      <4>1. i - prefix \in 0 .. rest - 1 /\ i = prefix + (i - prefix)
        BY <2>3, <2>4, <2>11, <3>2
      <4> QED BY <4>1
    <3> QED BY <3>1, <3>2
  <2>14. (0 .. prefix - 1) \cup {prefix + j : j \in 0 .. rest - 1} \subseteq 0 .. n - 1
    BY <2>3, <2>4, <2>11
  <2> QED BY <2>12, <2>13, <2>14
<1> QED BY <1>1, <1>2

LEMMA StridedAll ==
  (IF kv.shift = 0 /\ HeadSize % PackSize = 0 THEN Packs(N) ELSE Elements(N)) = 0 .. N - 1
<1>1. N \in Nat /\ N = NumHeads * HeadSize /\ PackSize \in Nat \ {0} /\ NumHeads \in Nat /\ HeadSize \in Nat
  BY KvSizes
<1>2. CASE HeadSize % PackSize = 0
  <2>1. HeadSize \div PackSize \in Nat /\ HeadSize = ((HeadSize \div PackSize) * PackSize) + (HeadSize % PackSize)
    BY <1>1, DivMod
  <2> DEFINE q == HeadSize \div PackSize
  <2>2. q \in Nat /\ HeadSize = q * PackSize
    BY <1>1, <1>2, <2>1
  <2> HIDE DEF q
  <2>3. N = ((NumHeads * q) * PackSize) + 0 /\ NumHeads * q \in Nat /\ 0 \in 0 .. PackSize - 1
    BY <1>1, <2>2
  <2>4. (((NumHeads * q) * PackSize) + 0) % PackSize = 0
    BY <1>1, <2>3, DivModUnique
  <2>5. N % PackSize = 0
    BY <2>3, <2>4
  <2>6. Packs(N) = 0 .. N - 1
    BY <1>1, <2>5, PacksWhole
  <2> QED BY <1>1, <2>6, ElementsAll
<1>3. CASE ~(HeadSize % PackSize = 0)
  BY <1>1, <1>3, ElementsAll
<1> QED BY <1>2, <1>3

-----------------------------------------------------------------------------
(* Row-major addresses: within the tensor, and never those of two indices. *)
Indices(shape) == {x \in Seq(Nat) : Len(x) = Len(shape) /\ \A d \in 1 .. Len(shape) : x[d] < shape[d]}

LEMMA RowMajorOf ==
  ASSUME NEW shape \in Seq(Nat \ {0}), NEW x \in Indices(shape)
  PROVE  \E g : /\ RowMajor(shape, x) = g[Len(shape)] /\ g[0] = 0
                /\ \A d \in 1 .. Len(shape) :
                     /\ g[d - 1] \in Nat /\ g[d] \in Nat /\ g[d] = (g[d - 1] * shape[d]) + x[d]
                     /\ x[d] \in 0 .. shape[d] - 1 /\ shape[d] \in Nat \ {0}
<1> DEFINE k == Len(shape)
<1>1. /\ k \in Nat /\ shape \in Seq(Int) /\ x \in Seq(Int) /\ Len(x) = Len(shape)
      /\ \A d \in 1 .. k : shape[d] \in Nat \ {0} /\ x[d] \in 0 .. shape[d] - 1
  BY DEF Indices
<1>2. PICK g : /\ RowMajor(shape, x) = g[k] /\ g[0] = 0
               /\ \A d \in 1 .. k : g[d - 1] \in Int /\ g[d] = (g[d - 1] * shape[d]) + x[d]
  BY <1>1, RowMajorRuns
<1> HIDE DEF k
<1> DEFINE T == {d \in Nat : d <= k => g[d] \in Nat}
<1>3. 0 \in T
  BY <1>2
<1>4. ASSUME NEW d \in Nat, d \in T PROVE d + 1 \in T
  <2> SUFFICES ASSUME d + 1 <= k PROVE g[d + 1] \in Nat
    OBVIOUS
  <2>1. d + 1 \in 1 .. k /\ (d + 1) - 1 = d /\ g[d] \in Nat
    BY <1>1, <1>4
  <2>2. g[d + 1] = (g[d] * shape[d + 1]) + x[d + 1] /\ shape[d + 1] \in Nat /\ x[d + 1] \in Nat
    BY <1>1, <1>2, <2>1
  <2>3. \A a, b, c \in Nat : (a * b) + c \in Nat
    OBVIOUS
  <2>4. (g[d] * shape[d + 1]) + x[d + 1] \in Nat
    BY <2>1, <2>2, <2>3
  <2> QED BY <2>2, <2>4
<1> HIDE DEF T
<1>5. Nat \subseteq T
  BY <1>3, <1>4, NatInduct
<1>6. \A d \in 1 .. k : g[d] \in Nat /\ g[d - 1] \in Nat
  BY <1>1, <1>5 DEF T
<1> QED BY <1>1, <1>2, <1>6 DEF k

LEMMA RowMajorApart ==
  ASSUME NEW shape \in Seq(Nat \ {0}), NEW x \in Indices(shape), NEW y \in Indices(shape),
         RowMajor(shape, x) = RowMajor(shape, y), NEW n \in 1 .. Len(shape)
  PROVE  x[n] = y[n]
<1> DEFINE k == Len(shape)
<1>1. PICK g : /\ RowMajor(shape, x) = g[k] /\ g[0] = 0
               /\ \A d \in 1 .. k : /\ g[d - 1] \in Nat /\ g[d] \in Nat /\ g[d] = (g[d - 1] * shape[d]) + x[d]
                                    /\ x[d] \in 0 .. shape[d] - 1 /\ shape[d] \in Nat \ {0}
  BY RowMajorOf
<1>2. PICK h : /\ RowMajor(shape, y) = h[k] /\ h[0] = 0
               /\ \A d \in 1 .. k : /\ h[d - 1] \in Nat /\ h[d] \in Nat /\ h[d] = (h[d - 1] * shape[d]) + y[d]
                                    /\ y[d] \in 0 .. shape[d] - 1 /\ shape[d] \in Nat \ {0}
  BY RowMajorOf
<1>3. k \in Nat /\ g[k] = h[k]
  <2>1. k \in Nat
    OBVIOUS
  <2>2. g[k] = h[k]
    BY <1>1, <1>2, Zenon
  <2> QED BY <2>1, <2>2
<1> HIDE DEF k
<1>4. ASSUME NEW d \in 1 .. k, g[d] = h[d] PROVE g[d - 1] = h[d - 1] /\ x[d] = y[d]
  <2>1. (g[d - 1] * shape[d]) + x[d] = (h[d - 1] * shape[d]) + y[d]
    BY <1>1, <1>2, <1>4
  <2>2. /\ shape[d] \in Nat \ {0} /\ g[d - 1] \in Nat /\ h[d - 1] \in Nat
        /\ x[d] \in 0 .. shape[d] - 1 /\ y[d] \in 0 .. shape[d] - 1
    BY <1>1, <1>2
  <2> DEFINE c == shape[d]
             a == g[d - 1]
             b == h[d - 1]
             u == x[d]
             v == y[d]
  <2>3. (a * c) + u = (b * c) + v
    BY <2>1
  <2>4. c \in Nat \ {0} /\ a \in Nat /\ b \in Nat /\ u \in 0 .. c - 1 /\ v \in 0 .. c - 1
    BY <2>2
  <2> HIDE DEF a, b, c, u, v
  <2>5. a = b /\ u = v
    BY <2>3, <2>4, SameDigits
  <2> QED BY <2>5 DEF a, b, u, v
<1> DEFINE T == {m \in Nat : m <= k => g[k - m] = h[k - m]}
<1>5. 0 \in T
  BY <1>3
<1>6. ASSUME NEW m \in Nat, m \in T PROVE m + 1 \in T
  <2> SUFFICES ASSUME m + 1 <= k PROVE g[k - (m + 1)] = h[k - (m + 1)]
    OBVIOUS
  <2>1. k - m \in 1 .. k /\ (k - m) - 1 = k - (m + 1) /\ g[k - m] = h[k - m]
    BY <1>3, <1>6
  <2> QED BY <1>4, <2>1
<1> HIDE DEF T
<1>7. Nat \subseteq T
  BY <1>5, <1>6, NatInduct
<1>8. g[n] = h[n] /\ n \in 1 .. k
  <2>1. k - n \in Nat /\ k - n <= k /\ k - (k - n) = n /\ n \in 1 .. k
    BY <1>3 DEF k
  <2> QED BY <1>7, <2>1 DEF T
<1> QED BY <1>4, <1>8

LEMMA RowMajorInside ==
  ASSUME NEW shape \in Seq(Nat \ {0}), NEW x \in Indices(shape), NEW size,
         size[0] = 1, \A d \in 1 .. Len(shape) : size[d] = size[d - 1] * shape[d]
  PROVE  RowMajor(shape, x) \in 0 .. size[Len(shape)] - 1 /\ RowMajor(shape, x) \in Nat
<1> DEFINE k == Len(shape)
<1>1. PICK g : /\ RowMajor(shape, x) = g[k] /\ g[0] = 0
               /\ \A d \in 1 .. k : /\ g[d - 1] \in Nat /\ g[d] \in Nat /\ g[d] = (g[d - 1] * shape[d]) + x[d]
                                    /\ x[d] \in 0 .. shape[d] - 1 /\ shape[d] \in Nat \ {0}
  BY RowMajorOf
<1>2. k \in Nat /\ \A d \in 1 .. k : size[d] = size[d - 1] * shape[d]
  OBVIOUS
<1> HIDE DEF k
<1> DEFINE T == {d \in Nat : d <= k => size[d] \in Nat /\ g[d] \in 0 .. size[d] - 1}
<1>3. 0 \in T
  BY <1>1
<1>4. ASSUME NEW d \in Nat, d \in T PROVE d + 1 \in T
  <2> SUFFICES ASSUME d + 1 <= k PROVE size[d + 1] \in Nat /\ g[d + 1] \in 0 .. size[d + 1] - 1
    OBVIOUS
  <2>1. d + 1 \in 1 .. k /\ (d + 1) - 1 = d /\ size[d] \in Nat /\ g[d] \in 0 .. size[d] - 1
    BY <1>2, <1>4
  <2>2. /\ g[d + 1] = (g[d] * shape[d + 1]) + x[d + 1] /\ size[d + 1] = size[d] * shape[d + 1]
        /\ x[d + 1] \in 0 .. shape[d + 1] - 1 /\ shape[d + 1] \in Nat \ {0}
    BY <1>1, <1>2, <2>1
  <2>3. (g[d] * shape[d + 1]) + x[d + 1] \in 0 .. (size[d] * shape[d + 1]) - 1
    BY <2>1, <2>2, TwoDigits
  <2>4. size[d] * shape[d + 1] \in Nat
    BY <2>1, <2>2, SMTT(60)
  <2> QED BY <2>2, <2>3, <2>4
<1> HIDE DEF T
<1>5. Nat \subseteq T
  BY <1>3, <1>4, NatInduct
<1>6. size[k] \in Nat /\ g[k] \in 0 .. size[k] - 1
  BY <1>2, <1>5 DEF T
<1>7. g[k] \in Nat
  BY <1>6
<1> QED BY <1>1, <1>6, <1>7 DEF k

(* Four and five dimensions written out. *)
LEMMA RowMajorOfFour ==
  ASSUME NEW shape \in Seq(Nat \ {0}), NEW x \in Indices(shape), Len(shape) = 4
  PROVE  RowMajor(shape, x) = ((((x[1] * shape[2]) + x[2]) * shape[3]) + x[3]) * shape[4] + x[4]
<1>1. PICK g : /\ RowMajor(shape, x) = g[Len(shape)] /\ g[0] = 0
               /\ \A d \in 1 .. Len(shape) :
                    /\ g[d - 1] \in Nat /\ g[d] \in Nat /\ g[d] = (g[d - 1] * shape[d]) + x[d]
                    /\ x[d] \in 0 .. shape[d] - 1 /\ shape[d] \in Nat \ {0}
  BY RowMajorOf
<1>2. 1 - 1 = 0 /\ 2 - 1 = 1 /\ 3 - 1 = 2 /\ 4 - 1 = 3 /\ 1 \in 1 .. 4 /\ 2 \in 1 .. 4 /\ 3 \in 1 .. 4 /\ 4 \in 1 .. 4
  OBVIOUS
<1>3. /\ g[1] = (g[0] * shape[1]) + x[1] /\ g[2] = (g[1] * shape[2]) + x[2]
      /\ g[3] = (g[2] * shape[3]) + x[3] /\ g[4] = (g[3] * shape[4]) + x[4]
      /\ shape[1] \in Nat /\ x[1] \in Nat
  BY <1>1, <1>2
<1>4. g[1] = x[1]
  <2>1. \A a, b \in Nat : (0 * a) + b = b
    OBVIOUS
  <2> QED BY <1>1, <1>3, <2>1
<1> QED BY <1>1, <1>3, <1>4

LEMMA RowMajorOfFive ==
  ASSUME NEW shape \in Seq(Nat \ {0}), NEW x \in Indices(shape), Len(shape) = 5
  PROVE  RowMajor(shape, x)
         = (((((x[1] * shape[2]) + x[2]) * shape[3]) + x[3]) * shape[4] + x[4]) * shape[5] + x[5]
<1>1. PICK g : /\ RowMajor(shape, x) = g[Len(shape)] /\ g[0] = 0
               /\ \A d \in 1 .. Len(shape) :
                    /\ g[d - 1] \in Nat /\ g[d] \in Nat /\ g[d] = (g[d - 1] * shape[d]) + x[d]
                    /\ x[d] \in 0 .. shape[d] - 1 /\ shape[d] \in Nat \ {0}
  BY RowMajorOf
<1>2. /\ 1 - 1 = 0 /\ 2 - 1 = 1 /\ 3 - 1 = 2 /\ 4 - 1 = 3 /\ 5 - 1 = 4
      /\ 1 \in 1 .. 5 /\ 2 \in 1 .. 5 /\ 3 \in 1 .. 5 /\ 4 \in 1 .. 5 /\ 5 \in 1 .. 5
  OBVIOUS
<1>3. /\ g[1] = (g[0] * shape[1]) + x[1] /\ g[2] = (g[1] * shape[2]) + x[2]
      /\ g[3] = (g[2] * shape[3]) + x[3] /\ g[4] = (g[3] * shape[4]) + x[4] /\ g[5] = (g[4] * shape[5]) + x[5]
      /\ shape[1] \in Nat /\ x[1] \in Nat
  BY <1>1, <1>2
<1>4. g[1] = x[1]
  <2>1. \A a, b \in Nat : (0 * a) + b = b
    OBVIOUS
  <2> QED BY <1>1, <1>3, <2>1
<1> QED BY <1>1, <1>3, <1>4

-----------------------------------------------------------------------------
(* The places of a layout. *)
ByHead == kv.layout \in {"paged", "flash", "strided"}
Page == 0 .. NumPages - 1
Spot == 0 .. PageSize - 1
Heads == 0 .. NumHeads - 1
Within == 0 .. HeadSize - 1
Rows == HeadSize \div XSplit

KeyShape ==
  IF kv.layout = "paged" THEN <<NumPages, NumHeads, Rows, PageSize, XSplit>>
  ELSE IF kv.layout = "flash" THEN <<NumPages, PageSize, NumHeads, HeadSize>>
  ELSE <<NumPages, NumHeads, PageSize, 2 * HeadSize>>
KeyIndex(p, o, h, e) ==
  IF kv.layout = "paged" THEN <<p, h, e \div XSplit, o, e % XSplit>>
  ELSE IF kv.layout = "flash" THEN <<p, o, h, e>>
  ELSE <<p, h, o, e>>
ValueShape == IF kv.layout = "paged" THEN <<NumPages, NumHeads, HeadSize, PageSize>> ELSE KeyShape
ValueIndex(p, o, h, e) ==
  IF kv.layout = "paged" THEN <<p, h, e, o>>
  ELSE IF kv.layout = "flash" THEN <<p, o, h, e>>
  ELSE <<p, h, o, HeadSize + e>>
ValueBank == IF kv.layout = "strided" THEN "k" ELSE "v"

LEMMA PlacesAre ==
  ASSUME ByHead, NEW p, NEW o, NEW h, NEW e
  PROVE  /\ KeyIn(p, o, h, e) = <<"k", RowMajor(KeyShape, KeyIndex(p, o, h, e))>>
         /\ ValueIn(p, o, h, e) = <<ValueBank, RowMajor(ValueShape, ValueIndex(p, o, h, e))>>
<1>1. CASE kv.layout = "paged"
  <2>1. kv.layout # "flash" /\ kv.layout # "strided"
    BY <1>1
  <2> QED BY <1>1, <2>1, Zenon DEF KeyIn, ValueIn, KeyShape, KeyIndex, ValueShape, ValueIndex, ValueBank, Rows
<1>2. CASE kv.layout = "flash"
  <2>1. kv.layout # "paged" /\ kv.layout # "strided"
    BY <1>2
  <2> QED BY <1>2, <2>1, Zenon DEF KeyIn, ValueIn, KeyShape, KeyIndex, ValueShape, ValueIndex, ValueBank
<1>3. CASE kv.layout = "strided"
  <2>1. kv.layout # "paged" /\ kv.layout # "flash"
    BY <1>3
  <2> QED BY <1>3, <2>1, Zenon DEF KeyIn, ValueIn, KeyShape, KeyIndex, ValueShape, ValueIndex, ValueBank
<1> QED BY <1>1, <1>2, <1>3 DEF ByHead

LEMMA PlaceNumbers ==
  ASSUME NEW p \in Page, NEW o \in Spot, NEW h \in Heads, NEW e \in Within
  PROVE  /\ p \in Nat /\ p < NumPages /\ o \in Nat /\ o < PageSize
         /\ h \in Nat /\ h < NumHeads /\ e \in Nat /\ e < HeadSize
         /\ e \div XSplit \in Nat /\ e \div XSplit < Rows /\ e % XSplit \in Nat /\ e % XSplit < XSplit
         /\ e = ((e \div XSplit) * XSplit) + (e % XSplit)
         /\ HeadSize + e \in Nat /\ e < 2 * HeadSize /\ HeadSize + e < 2 * HeadSize
         /\ NumPages \in Nat \ {0} /\ NumHeads \in Nat \ {0} /\ PageSize \in Nat \ {0} /\ HeadSize \in Nat \ {0}
         /\ XSplit \in Nat \ {0} /\ Rows \in Nat \ {0} /\ 2 * HeadSize \in Nat \ {0} /\ HeadSize = Rows * XSplit
<1>1. /\ NumPages \in Nat \ {0} /\ NumHeads \in Nat \ {0} /\ PageSize \in Nat \ {0} /\ HeadSize \in Nat \ {0}
      /\ XSplit \in Nat \ {0} /\ Rows \in Nat \ {0} /\ HeadSize = Rows * XSplit
  BY KvSizes DEF Rows
<1>2. p \in Nat /\ p < NumPages /\ o \in Nat /\ o < PageSize /\ h \in Nat /\ h < NumHeads /\ e \in Nat /\ e < HeadSize
  BY <1>1 DEF Page, Spot, Heads, Within
<1>3. e \in 0 .. (Rows * XSplit) - 1
  BY <1>1, <1>2
<1>4. e \div XSplit \in 0 .. Rows - 1
  BY <1>1, <1>2, <1>3, QuotientBelow
<1>5. e % XSplit \in 0 .. XSplit - 1 /\ e = ((e \div XSplit) * XSplit) + (e % XSplit)
  BY <1>1, <1>2, DivMod
<1>6. e \div XSplit \in Nat /\ e \div XSplit < Rows /\ e % XSplit \in Nat /\ e % XSplit < XSplit
  BY <1>1, <1>4, <1>5
<1>7. 2 * HeadSize \in Nat \ {0} /\ HeadSize + e \in Nat /\ e < 2 * HeadSize /\ HeadSize + e < 2 * HeadSize
  BY <1>1, <1>2
<1> QED BY <1>1, <1>2, <1>5, <1>6, <1>7

LEMMA PlaceIndices ==
  ASSUME ByHead, NEW p \in Page, NEW o \in Spot, NEW h \in Heads, NEW e \in Within
  PROVE  /\ KeyShape \in Seq(Nat \ {0}) /\ KeyIndex(p, o, h, e) \in Indices(KeyShape)
         /\ ValueShape \in Seq(Nat \ {0}) /\ ValueIndex(p, o, h, e) \in Indices(ValueShape)
<1> DEFINE x == e \div XSplit
           y == e % XSplit
           z == HeadSize + e
           w == 2 * HeadSize
<1>0. /\ p \in Nat /\ p < NumPages /\ o \in Nat /\ o < PageSize
      /\ h \in Nat /\ h < NumHeads /\ e \in Nat /\ e < HeadSize
      /\ x \in Nat /\ x < Rows /\ y \in Nat /\ y < XSplit /\ z \in Nat /\ e < w /\ z < w
      /\ NumPages \in Nat \ {0} /\ NumHeads \in Nat \ {0} /\ PageSize \in Nat \ {0} /\ HeadSize \in Nat \ {0}
      /\ XSplit \in Nat \ {0} /\ Rows \in Nat \ {0} /\ w \in Nat \ {0}
  BY PlaceNumbers
<1> HIDE DEF x, y, z, w
<1>1. CASE kv.layout = "paged"
  <2>1. /\ KeyShape = <<NumPages, NumHeads, Rows, PageSize, XSplit>> /\ KeyIndex(p, o, h, e) = <<p, h, x, o, y>>
        /\ ValueShape = <<NumPages, NumHeads, HeadSize, PageSize>> /\ ValueIndex(p, o, h, e) = <<p, h, e, o>>
    BY <1>1 DEF KeyShape, KeyIndex, ValueShape, ValueIndex, x, y
  <2>2. <<NumPages, NumHeads, Rows, PageSize, XSplit>> \in Seq(Nat \ {0})
        /\ <<p, h, x, o, y>> \in Indices(<<NumPages, NumHeads, Rows, PageSize, XSplit>>)
    BY <1>0 DEF Indices
  <2>3. <<NumPages, NumHeads, HeadSize, PageSize>> \in Seq(Nat \ {0})
        /\ <<p, h, e, o>> \in Indices(<<NumPages, NumHeads, HeadSize, PageSize>>)
    BY <1>0 DEF Indices
  <2> QED BY <2>1, <2>2, <2>3, Zenon
<1>2. CASE kv.layout = "flash"
  <2>1. /\ KeyShape = <<NumPages, PageSize, NumHeads, HeadSize>> /\ KeyIndex(p, o, h, e) = <<p, o, h, e>>
        /\ ValueShape = <<NumPages, PageSize, NumHeads, HeadSize>> /\ ValueIndex(p, o, h, e) = <<p, o, h, e>>
    BY <1>2 DEF KeyShape, KeyIndex, ValueShape, ValueIndex
  <2>2. <<NumPages, PageSize, NumHeads, HeadSize>> \in Seq(Nat \ {0})
        /\ <<p, o, h, e>> \in Indices(<<NumPages, PageSize, NumHeads, HeadSize>>)
    BY <1>0 DEF Indices
  <2> QED BY <2>1, <2>2, Zenon
<1>3. CASE kv.layout = "strided"
  <2>1. /\ KeyShape = <<NumPages, NumHeads, PageSize, w>> /\ KeyIndex(p, o, h, e) = <<p, h, o, e>>
        /\ ValueShape = <<NumPages, NumHeads, PageSize, w>> /\ ValueIndex(p, o, h, e) = <<p, h, o, z>>
    BY <1>3 DEF KeyShape, KeyIndex, ValueShape, ValueIndex, z, w
  <2>2. <<NumPages, NumHeads, PageSize, w>> \in Seq(Nat \ {0})
        /\ <<p, h, o, e>> \in Indices(<<NumPages, NumHeads, PageSize, w>>)
        /\ <<p, h, o, z>> \in Indices(<<NumPages, NumHeads, PageSize, w>>)
    BY <1>0 DEF Indices
  <2> QED BY <2>1, <2>2, Zenon
<1> QED BY <1>1, <1>2, <1>3 DEF ByHead

LEMMA PlacesApart ==
  ASSUME ByHead,
         NEW p \in Page, NEW o \in Spot, NEW h \in Heads, NEW e \in Within,
         NEW q \in Page, NEW r \in Spot, NEW g \in Heads, NEW f \in Within
  PROVE  /\ KeyIn(p, o, h, e) = KeyIn(q, r, g, f) => p = q /\ o = r /\ h = g /\ e = f
         /\ ValueIn(p, o, h, e) = ValueIn(q, r, g, f) => p = q /\ o = r /\ h = g /\ e = f
         /\ KeyIn(p, o, h, e) # ValueIn(q, r, g, f)
<1> DEFINE S == KeyShape
           V == ValueShape
           K1 == KeyIndex(p, o, h, e)
           K2 == KeyIndex(q, r, g, f)
           V1 == ValueIndex(p, o, h, e)
           V2 == ValueIndex(q, r, g, f)
<1>0. /\ S \in Seq(Nat \ {0}) /\ K1 \in Indices(S) /\ K2 \in Indices(S)
      /\ V \in Seq(Nat \ {0}) /\ V1 \in Indices(V) /\ V2 \in Indices(V)
  BY PlaceIndices
<1>1. /\ KeyIn(p, o, h, e) = <<"k", RowMajor(S, K1)>> /\ KeyIn(q, r, g, f) = <<"k", RowMajor(S, K2)>>
      /\ ValueIn(p, o, h, e) = <<ValueBank, RowMajor(V, V1)>> /\ ValueIn(q, r, g, f) = <<ValueBank, RowMajor(V, V2)>>
  BY PlacesAre
<1>2. /\ e \in Int /\ f \in Int /\ HeadSize \in Nat /\ e < HeadSize /\ f < HeadSize /\ 0 <= e /\ 0 <= f
      /\ e = ((e \div XSplit) * XSplit) + (e % XSplit) /\ f = ((f \div XSplit) * XSplit) + (f % XSplit)
  BY PlaceNumbers
<1>3. CASE kv.layout = "paged"
  <2>1. Len(S) = 5 /\ Len(V) = 4 /\ ValueBank = "v"
    BY <1>3 DEF KeyShape, ValueShape, ValueBank
  <2>2. /\ K1[1] = p /\ K1[2] = h /\ K1[3] = e \div XSplit /\ K1[4] = o /\ K1[5] = e % XSplit
        /\ K2[1] = q /\ K2[2] = g /\ K2[3] = f \div XSplit /\ K2[4] = r /\ K2[5] = f % XSplit
    BY <1>3 DEF KeyIndex
  <2>3. /\ V1[1] = p /\ V1[2] = h /\ V1[3] = e /\ V1[4] = o
        /\ V2[1] = q /\ V2[2] = g /\ V2[3] = f /\ V2[4] = r
    BY <1>3 DEF ValueIndex
  <2> HIDE DEF S, V, K1, K2, V1, V2
  <2>4. RowMajor(S, K1) = RowMajor(S, K2) => \A n \in 1 .. 5 : K1[n] = K2[n]
    BY <1>0, <2>1, RowMajorApart, ZenonT(60)
  <2>5. RowMajor(V, V1) = RowMajor(V, V2) => \A n \in 1 .. 4 : V1[n] = V2[n]
    BY <1>0, <2>1, RowMajorApart, ZenonT(60)
  <2>6. KeyIn(p, o, h, e) = KeyIn(q, r, g, f) => p = q /\ o = r /\ h = g /\ e = f
    <3>0. KeyIn(p, o, h, e) = KeyIn(q, r, g, f) => RowMajor(S, K1) = RowMajor(S, K2)
      BY <1>1
    <3> SUFFICES ASSUME KeyIn(p, o, h, e) = KeyIn(q, r, g, f) PROVE p = q /\ o = r /\ h = g /\ e = f
      OBVIOUS
    <3>1. RowMajor(S, K1) = RowMajor(S, K2)
      BY <3>0, Zenon
    <3>2. p = q /\ h = g /\ e \div XSplit = f \div XSplit /\ o = r /\ e % XSplit = f % XSplit
      <4>1. 1 \in 1 .. 5 /\ 2 \in 1 .. 5 /\ 3 \in 1 .. 5 /\ 4 \in 1 .. 5 /\ 5 \in 1 .. 5
        OBVIOUS
      <4> QED BY <2>2, <2>4, <3>1, <4>1, Zenon
    <3> QED BY <1>2, <3>2, Zenon
  <2>7. ValueIn(p, o, h, e) = ValueIn(q, r, g, f) => p = q /\ o = r /\ h = g /\ e = f
    BY <1>1, <2>3, <2>5
  <2>8. KeyIn(p, o, h, e) # ValueIn(q, r, g, f)
    <3>1. "k" # "v"
      OBVIOUS
    <3> QED BY <1>1, <2>1, <3>1
  <2> QED BY <2>6, <2>7, <2>8
<1>4. CASE kv.layout = "flash"
  <2>1. Len(S) = 4 /\ V = S /\ ValueBank = "v"
    BY <1>4 DEF KeyShape, ValueShape, ValueBank
  <2>2. /\ K1[1] = p /\ K1[2] = o /\ K1[3] = h /\ K1[4] = e
        /\ K2[1] = q /\ K2[2] = r /\ K2[3] = g /\ K2[4] = f
        /\ V1 = K1 /\ V2 = K2
    BY <1>4 DEF KeyIndex, ValueIndex
  <2> HIDE DEF S, V, K1, K2, V1, V2
  <2>3. RowMajor(S, K1) = RowMajor(S, K2) => \A n \in 1 .. 4 : K1[n] = K2[n]
    <3> SUFFICES ASSUME RowMajor(S, K1) = RowMajor(S, K2), NEW n \in 1 .. 4 PROVE K1[n] = K2[n]
      OBVIOUS
    <3>1. n \in 1 .. Len(S)
      BY <2>1
    <3> QED BY <1>0, <3>1, RowMajorApart, Zenon
  <2>4. RowMajor(S, K1) = RowMajor(S, K2) => p = q /\ o = r /\ h = g /\ e = f
    BY <2>2, <2>3
  <2>5. "k" # "v"
    OBVIOUS
  <2> QED BY <1>1, <2>1, <2>2, <2>4, <2>5
<1>5. CASE kv.layout = "strided"
  <2>1. Len(S) = 4 /\ V = S /\ ValueBank = "k"
    BY <1>5 DEF KeyShape, ValueShape, ValueBank
  <2>2. /\ K1[1] = p /\ K1[2] = h /\ K1[3] = o /\ K1[4] = e
        /\ K2[1] = q /\ K2[2] = g /\ K2[3] = r /\ K2[4] = f
    BY <1>5 DEF KeyIndex
  <2>3. /\ V1[1] = p /\ V1[2] = h /\ V1[3] = o /\ V1[4] = HeadSize + e
        /\ V2[1] = q /\ V2[2] = g /\ V2[3] = r /\ V2[4] = HeadSize + f
    BY <1>5 DEF ValueIndex
  <2> HIDE DEF S, V, K1, K2, V1, V2
  <2>4. \A x, y \in Indices(S) : RowMajor(S, x) = RowMajor(S, y) => \A n \in 1 .. 4 : x[n] = y[n]
    <3> SUFFICES ASSUME NEW x \in Indices(S), NEW y \in Indices(S), RowMajor(S, x) = RowMajor(S, y),
                        NEW n \in 1 .. 4
                 PROVE  x[n] = y[n]
      OBVIOUS
    <3>1. n \in 1 .. Len(S)
      BY <2>1
    <3> QED BY <1>0, <3>1, RowMajorApart, Zenon
  <2>5. /\ RowMajor(S, K1) = RowMajor(S, K2) => \A n \in 1 .. 4 : K1[n] = K2[n]
        /\ RowMajor(S, V1) = RowMajor(S, V2) => \A n \in 1 .. 4 : V1[n] = V2[n]
        /\ RowMajor(S, K1) = RowMajor(S, V2) => \A n \in 1 .. 4 : K1[n] = V2[n]
    BY <1>0, <2>1, <2>4, Zenon
  <2>6. HeadSize + e = HeadSize + f => e = f
    BY <1>2
  <2>7. e # HeadSize + f
    BY <1>2
  <2>8. RowMajor(S, K1) = RowMajor(S, K2) => p = q /\ o = r /\ h = g /\ e = f
    BY <2>2, <2>5
  <2>9. RowMajor(S, V1) = RowMajor(S, V2) => p = q /\ o = r /\ h = g /\ e = f
    BY <2>3, <2>5, <2>6
  <2>10. RowMajor(S, K1) # RowMajor(S, V2)
    BY <2>2, <2>3, <2>5, <2>7
  <2> QED BY <1>1, <2>1, <2>8, <2>9, <2>10
<1> QED BY <1>3, <1>4, <1>5 DEF ByHead

-----------------------------------------------------------------------------
(* Places are in the cache. *)
LEMMA InsideFour ==
  ASSUME NEW shape \in Seq(Nat \ {0}), NEW x \in Indices(shape), Len(shape) = 4
  PROVE  /\ RowMajor(shape, x) \in Nat
         /\ RowMajor(shape, x) \in 0 .. (((shape[1] * shape[2]) * shape[3]) * shape[4]) - 1
<1>1. shape[1] \in Nat
  <2>1. 1 \in 1 .. Len(shape)
    OBVIOUS
  <2> QED BY <2>1, RowMajorOf
<1> DEFINE a == shape[1]
           b == a * shape[2]
           c == b * shape[3]
           d == c * shape[4]
           size == [n \in 0 .. 4 |-> IF n = 0 THEN 1 ELSE IF n = 1 THEN a ELSE IF n = 2 THEN b
                                     ELSE IF n = 3 THEN c ELSE d]
<1>2. 1 * a = a
  BY <1>1
<1>3. b = a * shape[2] /\ c = b * shape[3] /\ d = c * shape[4] /\ a = shape[1]
  OBVIOUS
<1> HIDE DEF a, b, c, d
<1>4. size[0] = 1 /\ size[1] = a /\ size[2] = b /\ size[3] = c /\ size[4] = d
  OBVIOUS
<1> HIDE DEF size
<1>5. ASSUME NEW n \in 1 .. Len(shape) PROVE size[n] = size[n - 1] * shape[n]
  <2>1. n \in {1, 2, 3, 4}
    OBVIOUS
  <2>2. 1 - 1 = 0 /\ 2 - 1 = 1 /\ 3 - 1 = 2 /\ 4 - 1 = 3
    OBVIOUS
  <2>3. CASE n = 1
    BY <1>2, <1>3, <1>4, <2>2, <2>3
  <2>4. CASE n = 2
    BY <1>3, <1>4, <2>2, <2>4
  <2>5. CASE n = 3
    BY <1>3, <1>4, <2>2, <2>5
  <2>6. CASE n = 4
    BY <1>3, <1>4, <2>2, <2>6
  <2> QED BY <2>1, <2>3, <2>4, <2>5, <2>6
<1>6. RowMajor(shape, x) \in 0 .. size[Len(shape)] - 1 /\ RowMajor(shape, x) \in Nat
  BY <1>4, <1>5, RowMajorInside
<1>7. RowMajor(shape, x) \in 0 .. d - 1 /\ RowMajor(shape, x) \in Nat
  BY <1>4, <1>6
<1> QED BY <1>7 DEF a, b, c, d

LEMMA InsideFive ==
  ASSUME NEW shape \in Seq(Nat \ {0}), NEW x \in Indices(shape), Len(shape) = 5
  PROVE  /\ RowMajor(shape, x) \in Nat
         /\ RowMajor(shape, x) \in 0 .. ((((shape[1] * shape[2]) * shape[3]) * shape[4]) * shape[5]) - 1
<1>1. shape[1] \in Nat
  <2>1. 1 \in 1 .. Len(shape)
    OBVIOUS
  <2> QED BY <2>1, RowMajorOf
<1> DEFINE a == shape[1]
           b == a * shape[2]
           c == b * shape[3]
           d == c * shape[4]
           e == d * shape[5]
           size == [n \in 0 .. 5 |-> IF n = 0 THEN 1 ELSE IF n = 1 THEN a ELSE IF n = 2 THEN b
                                     ELSE IF n = 3 THEN c ELSE IF n = 4 THEN d ELSE e]
<1>2. 1 * a = a
  BY <1>1
<1>3. b = a * shape[2] /\ c = b * shape[3] /\ d = c * shape[4] /\ e = d * shape[5] /\ a = shape[1]
  OBVIOUS
<1> HIDE DEF a, b, c, d, e
<1>4. size[0] = 1 /\ size[1] = a /\ size[2] = b /\ size[3] = c /\ size[4] = d /\ size[5] = e
  OBVIOUS
<1> HIDE DEF size
<1>5. ASSUME NEW n \in 1 .. Len(shape) PROVE size[n] = size[n - 1] * shape[n]
  <2>1. n \in {1, 2, 3, 4, 5}
    OBVIOUS
  <2>2. 1 - 1 = 0 /\ 2 - 1 = 1 /\ 3 - 1 = 2 /\ 4 - 1 = 3 /\ 5 - 1 = 4
    OBVIOUS
  <2>3. CASE n = 1
    BY <1>2, <1>3, <1>4, <2>2, <2>3
  <2>4. CASE n = 2
    BY <1>3, <1>4, <2>2, <2>4
  <2>5. CASE n = 3
    BY <1>3, <1>4, <2>2, <2>5
  <2>6. CASE n = 4
    BY <1>3, <1>4, <2>2, <2>6
  <2>7. CASE n = 5
    BY <1>3, <1>4, <2>2, <2>7
  <2> QED BY <2>1, <2>3, <2>4, <2>5, <2>6, <2>7
<1>6. RowMajor(shape, x) \in 0 .. size[Len(shape)] - 1 /\ RowMajor(shape, x) \in Nat
  BY <1>4, <1>5, RowMajorInside
<1>7. RowMajor(shape, x) \in 0 .. e - 1 /\ RowMajor(shape, x) \in Nat
  BY <1>4, <1>6
<1> QED BY <1>7 DEF a, b, c, d, e

LEMMA SizeByHead ==
  ASSUME ByHead
  PROVE  CacheSize = NumPages * PageSize * (IF kv.layout = "strided" THEN 2 * N ELSE N)
<1>1. CASE kv.layout = "strided"
  BY <1>1 DEF CacheSize
<1>2. CASE kv.layout = "paged" \/ kv.layout = "flash"
  <2>1. kv.layout # "strided" /\ kv.layout \in {"paged", "flash"} /\ kv.layout # "mla" /\ kv.layout # "indexer"
    BY <1>2
  <2> QED BY <2>1 DEF CacheSize
<1> QED BY <1>1, <1>2 DEF ByHead

LEMMA PlacesInside ==
  ASSUME ByHead, NEW p \in Page, NEW o \in Spot, NEW h \in Heads, NEW e \in Within
  PROVE  /\ KeyIn(p, o, h, e) \in {"k", "v"} \X (0 .. CacheSize - 1)
         /\ ValueIn(p, o, h, e) \in {"k", "v"} \X (0 .. CacheSize - 1)
<1> DEFINE S == KeyShape
           V == ValueShape
           K1 == KeyIndex(p, o, h, e)
           V1 == ValueIndex(p, o, h, e)
<1>0. S \in Seq(Nat \ {0}) /\ K1 \in Indices(S) /\ V \in Seq(Nat \ {0}) /\ V1 \in Indices(V)
  BY PlaceIndices
<1>1. /\ KeyIn(p, o, h, e) = <<"k", RowMajor(S, K1)>> /\ ValueIn(p, o, h, e) = <<ValueBank, RowMajor(V, V1)>>
      /\ ValueBank \in {"k", "v"}
  BY PlacesAre DEF ValueBank
<1>2. /\ NumPages \in Nat /\ NumHeads \in Nat /\ PageSize \in Nat /\ HeadSize \in Nat /\ XSplit \in Nat /\ Rows \in Nat
      /\ N = NumHeads * HeadSize /\ HeadSize = Rows * XSplit
  BY KvSizes DEF Rows
<1>3. RowMajor(S, K1) \in 0 .. CacheSize - 1 /\ RowMajor(V, V1) \in 0 .. CacheSize - 1
  <2>1. CASE kv.layout = "paged"
    <3>1. /\ Len(S) = 5 /\ Len(V) = 4
          /\ S[1] = NumPages /\ S[2] = NumHeads /\ S[3] = Rows /\ S[4] = PageSize /\ S[5] = XSplit
          /\ V[1] = NumPages /\ V[2] = NumHeads /\ V[3] = HeadSize /\ V[4] = PageSize
      BY <2>1 DEF KeyShape, ValueShape
    <3>2. CacheSize = NumPages * PageSize * N
      BY <2>1, SizeByHead
    <3> HIDE DEF S, V, K1, V1
    <3>3. ((((NumPages * NumHeads) * Rows) * PageSize) * XSplit) = NumPages * PageSize * N
      BY <1>2
    <3>4. (((NumPages * NumHeads) * HeadSize) * PageSize) = NumPages * PageSize * N
      BY <1>2
    <3>5. RowMajor(S, K1) \in 0 .. ((((S[1] * S[2]) * S[3]) * S[4]) * S[5]) - 1
      BY <1>0, <3>1, InsideFive
    <3>6. RowMajor(V, V1) \in 0 .. (((V[1] * V[2]) * V[3]) * V[4]) - 1
      BY <1>0, <3>1, InsideFour
    <3> QED BY <3>1, <3>2, <3>3, <3>4, <3>5, <3>6, Zenon
  <2>2. CASE kv.layout = "flash"
    <3>1. /\ Len(S) = 4 /\ V = S
          /\ S[1] = NumPages /\ S[2] = PageSize /\ S[3] = NumHeads /\ S[4] = HeadSize
      BY <2>2 DEF KeyShape, ValueShape
    <3>2. CacheSize = NumPages * PageSize * N
      BY <2>2, SizeByHead
    <3> HIDE DEF S, V, K1, V1
    <3>3. (((NumPages * PageSize) * NumHeads) * HeadSize) = NumPages * PageSize * N
      BY <1>2
    <3>4. /\ RowMajor(S, K1) \in 0 .. (((S[1] * S[2]) * S[3]) * S[4]) - 1
          /\ RowMajor(V, V1) \in 0 .. (((S[1] * S[2]) * S[3]) * S[4]) - 1
      BY <1>0, <3>1, InsideFour
    <3> QED BY <3>1, <3>2, <3>3, <3>4, Zenon
  <2>3. CASE kv.layout = "strided"
    <3> DEFINE w == 2 * HeadSize
    <3>1. /\ Len(S) = 4 /\ V = S
          /\ S[1] = NumPages /\ S[2] = NumHeads /\ S[3] = PageSize /\ S[4] = w
      BY <2>3 DEF KeyShape, ValueShape
    <3>2. CacheSize = NumPages * PageSize * (2 * N)
      BY <2>3, SizeByHead
    <3> HIDE DEF S, V, K1, V1
    <3>3. (((NumPages * NumHeads) * PageSize) * w) = NumPages * PageSize * (2 * N)
      BY <1>2
    <3>4. /\ RowMajor(S, K1) \in 0 .. (((S[1] * S[2]) * S[3]) * S[4]) - 1
          /\ RowMajor(V, V1) \in 0 .. (((S[1] * S[2]) * S[3]) * S[4]) - 1
      BY <1>0, <3>1, InsideFour
    <3> HIDE DEF w
    <3> QED BY <3>1, <3>2, <3>3, <3>4, Zenon
  <2> QED BY <2>1, <2>2, <2>3 DEF ByHead
<1> HIDE DEF S, V, K1, V1
<1> QED BY <1>1, <1>3

-----------------------------------------------------------------------------
(* The writers' places are the layout's. *)
LEMMA PagedPlaces ==
  ASSUME kv.layout = "paged", NEW p \in Page, NEW o \in Spot, NEW h \in Heads, NEW e \in Within
  PROVE  /\ <<"k", PagedKey(p * PageSize + o, h * HeadSize + e)>> = KeyIn(p, o, h, e)
         /\ <<"v", PagedValue(p * PageSize + o, h * HeadSize + e)>> = ValueIn(p, o, h, e)
<1> DEFINE x == e \div XSplit
           y == e % XSplit
           S == KeyShape
           V == ValueShape
           K1 == KeyIndex(p, o, h, e)
           V1 == ValueIndex(p, o, h, e)
<1>0. ByHead
  BY DEF ByHead
<1>1. S \in Seq(Nat \ {0}) /\ K1 \in Indices(S) /\ V \in Seq(Nat \ {0}) /\ V1 \in Indices(V)
  BY <1>0, PlaceIndices
<1>2. KeyIn(p, o, h, e) = <<"k", RowMajor(S, K1)>> /\ ValueIn(p, o, h, e) = <<"v", RowMajor(V, V1)>>
  <2>1. ValueBank = "v"
    BY DEF ValueBank
  <2> QED BY <1>0, <2>1, PlacesAre
<1>3. /\ p \in Nat /\ o \in Nat /\ h \in Nat /\ e \in Nat /\ x \in Nat /\ y \in Nat
      /\ NumHeads \in Nat \ {0} /\ PageSize \in Nat \ {0} /\ HeadSize \in Nat \ {0} /\ XSplit \in Nat /\ Rows \in Nat
      /\ o \in 0 .. PageSize - 1 /\ e \in 0 .. HeadSize - 1
  BY PlaceNumbers DEF Spot, Within
<1>4. N = NumHeads * HeadSize
  BY DEF N
<1>5. /\ (p * PageSize + o) \div PageSize = p /\ (p * PageSize + o) % PageSize = o
      /\ (h * HeadSize + e) \div HeadSize = h /\ (h * HeadSize + e) % HeadSize = e
  BY <1>3, DivModUnique
<1>6. /\ Len(S) = 5 /\ Len(V) = 4
      /\ S[1] = NumPages /\ S[2] = NumHeads /\ S[3] = Rows /\ S[4] = PageSize /\ S[5] = XSplit
      /\ V[1] = NumPages /\ V[2] = NumHeads /\ V[3] = HeadSize /\ V[4] = PageSize
      /\ K1[1] = p /\ K1[2] = h /\ K1[3] = x /\ K1[4] = o /\ K1[5] = y
      /\ V1[1] = p /\ V1[2] = h /\ V1[3] = e /\ V1[4] = o
  BY DEF KeyShape, ValueShape, KeyIndex, ValueIndex
<1> HIDE DEF S, V, K1, V1
<1>7. PagedKey(p * PageSize + o, h * HeadSize + e)
      = p * NumHeads * Rows * PageSize * XSplit + h * Rows * PageSize * XSplit
        + x * PageSize * XSplit + o * XSplit + y
  BY <1>5, Zenon DEF PagedKey, Rows
<1>8. PagedValue(p * PageSize + o, h * HeadSize + e)
      = p * N * PageSize + h * HeadSize * PageSize + e * PageSize + o
  BY <1>5, Zenon DEF PagedValue
<1> HIDE DEF x, y
<1>9. RowMajor(S, K1) = (((((p * NumHeads) + h) * Rows) + x) * PageSize + o) * XSplit + y
  <2>1. RowMajor(S, K1) = (((((K1[1] * S[2]) + K1[2]) * S[3]) + K1[3]) * S[4] + K1[4]) * S[5] + K1[5]
    BY <1>1, <1>6, RowMajorOfFive
  <2> QED BY <1>6, <2>1, Zenon
<1>10. RowMajor(V, V1) = ((((p * NumHeads) + h) * HeadSize) + e) * PageSize + o
  <2>1. RowMajor(V, V1) = ((((V1[1] * V[2]) + V1[2]) * V[3]) + V1[3]) * V[4] + V1[4]
    BY <1>1, <1>6, RowMajorOfFour
  <2> QED BY <1>6, <2>1, Zenon
<1>11. (((((p * NumHeads) + h) * Rows) + x) * PageSize + o) * XSplit + y
       = p * NumHeads * Rows * PageSize * XSplit + h * Rows * PageSize * XSplit
         + x * PageSize * XSplit + o * XSplit + y
  BY <1>3
<1>12. ((((p * NumHeads) + h) * HeadSize) + e) * PageSize + o
       = p * N * PageSize + h * HeadSize * PageSize + e * PageSize + o
  BY <1>3, <1>4
<1> QED BY <1>2, <1>7, <1>8, <1>9, <1>10, <1>11, <1>12, Zenon

LEMMA FlashPlaces ==
  ASSUME kv.layout = "flash", NEW p \in Page, NEW o \in Spot, NEW h \in Heads, NEW e \in Within
  PROVE  /\ <<"k", p * PageSize * N + o * N + (h * HeadSize + e)>> = KeyIn(p, o, h, e)
         /\ <<"v", p * PageSize * N + o * N + (h * HeadSize + e)>> = ValueIn(p, o, h, e)
<1> DEFINE S == KeyShape
           K1 == KeyIndex(p, o, h, e)
<1>0. ByHead
  BY DEF ByHead
<1>1. S \in Seq(Nat \ {0}) /\ K1 \in Indices(S)
  BY <1>0, PlaceIndices
<1>2. KeyIn(p, o, h, e) = <<"k", RowMajor(S, K1)>> /\ ValueIn(p, o, h, e) = <<"v", RowMajor(S, K1)>>
  <2>1. ValueBank = "v" /\ ValueShape = S /\ ValueIndex(p, o, h, e) = K1
    BY DEF ValueBank, ValueShape, ValueIndex, KeyIndex
  <2> QED BY <1>0, <2>1, PlacesAre
<1>3. /\ p \in Nat /\ o \in Nat /\ h \in Nat /\ e \in Nat
      /\ NumHeads \in Nat \ {0} /\ PageSize \in Nat \ {0} /\ HeadSize \in Nat \ {0}
  BY PlaceNumbers
<1>4. N = NumHeads * HeadSize
  BY DEF N
<1>5. /\ Len(S) = 4 /\ S[1] = NumPages /\ S[2] = PageSize /\ S[3] = NumHeads /\ S[4] = HeadSize
      /\ K1[1] = p /\ K1[2] = o /\ K1[3] = h /\ K1[4] = e
  BY DEF KeyShape, KeyIndex
<1> HIDE DEF S, K1
<1>6. RowMajor(S, K1) = ((((p * PageSize) + o) * NumHeads) + h) * HeadSize + e
  <2>1. RowMajor(S, K1) = ((((K1[1] * S[2]) + K1[2]) * S[3]) + K1[3]) * S[4] + K1[4]
    BY <1>1, <1>5, RowMajorOfFour
  <2> QED BY <1>5, <2>1, Zenon
<1>7. ((((p * PageSize) + o) * NumHeads) + h) * HeadSize + e = p * PageSize * N + o * N + (h * HeadSize + e)
  BY <1>3, <1>4
<1> QED BY <1>2, <1>6, <1>7, Zenon

LEMMA StridedPlaces ==
  ASSUME kv.layout = "strided", NEW p \in Page, NEW o \in Spot, NEW h \in Heads, NEW e \in Within,
         NEW base, base = p * 2 * PageSize * N + o * 2 * HeadSize
  PROVE  /\ <<"k", base + ((h * HeadSize + e) \div HeadSize) * 2 * PageSize * HeadSize
                        + ((h * HeadSize + e) % HeadSize)>> = KeyIn(p, o, h, e)
         /\ <<"k", base + ((h * HeadSize + e) \div HeadSize) * 2 * PageSize * HeadSize
                        + ((h * HeadSize + e) % HeadSize) + HeadSize>> = ValueIn(p, o, h, e)
<1> DEFINE S == KeyShape
           K1 == KeyIndex(p, o, h, e)
           V1 == ValueIndex(p, o, h, e)
           w == 2 * HeadSize
           z == HeadSize + e
<1>0. ByHead
  BY DEF ByHead
<1>1. S \in Seq(Nat \ {0}) /\ K1 \in Indices(S) /\ V1 \in Indices(S)
  <2>1. ValueShape = S
    BY DEF ValueShape
  <2> QED BY <1>0, <2>1, PlaceIndices
<1>2. KeyIn(p, o, h, e) = <<"k", RowMajor(S, K1)>> /\ ValueIn(p, o, h, e) = <<"k", RowMajor(S, V1)>>
  <2>1. ValueBank = "k" /\ ValueShape = S
    BY DEF ValueBank, ValueShape
  <2> QED BY <1>0, <2>1, PlacesAre
<1>3. /\ p \in Nat /\ o \in Nat /\ h \in Nat /\ e \in Nat /\ e \in 0 .. HeadSize - 1
      /\ NumHeads \in Nat \ {0} /\ PageSize \in Nat \ {0} /\ HeadSize \in Nat \ {0}
  BY PlaceNumbers DEF Within
<1>4. N = NumHeads * HeadSize
  BY DEF N
<1>5. (h * HeadSize + e) \div HeadSize = h /\ (h * HeadSize + e) % HeadSize = e
  BY <1>3, DivModUnique
<1>6. /\ Len(S) = 4 /\ S[1] = NumPages /\ S[2] = NumHeads /\ S[3] = PageSize /\ S[4] = w
      /\ K1[1] = p /\ K1[2] = h /\ K1[3] = o /\ K1[4] = e
      /\ V1[1] = p /\ V1[2] = h /\ V1[3] = o /\ V1[4] = z
  BY DEF KeyShape, KeyIndex, ValueIndex
<1> HIDE DEF S, K1, V1
<1>7. /\ RowMajor(S, K1) = ((((p * NumHeads) + h) * PageSize) + o) * w + e
      /\ RowMajor(S, V1) = ((((p * NumHeads) + h) * PageSize) + o) * w + z
  <2>1. /\ RowMajor(S, K1) = ((((K1[1] * S[2]) + K1[2]) * S[3]) + K1[3]) * S[4] + K1[4]
        /\ RowMajor(S, V1) = ((((V1[1] * S[2]) + V1[2]) * S[3]) + V1[3]) * S[4] + V1[4]
    BY <1>1, <1>6, RowMajorOfFour
  <2> QED BY <1>6, <2>1, Zenon
<1>8. /\ ((((p * NumHeads) + h) * PageSize) + o) * w + e = base + h * 2 * PageSize * HeadSize + e
      /\ ((((p * NumHeads) + h) * PageSize) + o) * w + z = base + h * 2 * PageSize * HeadSize + e + HeadSize
  BY <1>3, <1>4
<1> QED BY <1>2, <1>5, <1>7, <1>8, Zenon

-----------------------------------------------------------------------------
(* The slots of the tokens. *)
PageOf(t) == kv.tables[t[1]][t[2] \div PageSize + 1]
SpotOf(t) == t[2] % PageSize

LEMMA FreshToken ==
  ASSUME kv \in KvCalls, NEW t \in Fresh
  PROVE  /\ t = <<t[1], t[2]>> /\ t[1] \in DOMAIN kv.tables /\ t[1] # 0 /\ t[2] \in Nat
         /\ (t[2] \div PageSize) + 1 \in DOMAIN kv.tables[t[1]]
         /\ t[2] \div PageSize \in Nat /\ t[2] = ((t[2] \div PageSize) * PageSize) + (t[2] % PageSize)
         /\ PageOf(t) \in Page /\ SpotOf(t) \in Spot
<1>0. PICK s \in DOMAIN kv.tables : \E pos \in 0 .. kv.context[s] - 1 : t = <<s, pos>>
  BY DEF Fresh
<1>1. PICK pos \in 0 .. kv.context[s] - 1 : t = <<s, pos>>
  BY <1>0
<1>2. /\ kv.tables \in Seq(Seq(Page)) /\ kv.context[s] \in 0 .. Len(kv.tables[s]) * PageSize
      /\ PageSize \in Nat \ {0}
  BY KvCallAssumption, KvSizes DEF Page
<1>3. t[1] = s /\ t[2] = pos
  BY <1>1
<1> DEFINE tab == kv.tables
           row == kv.tables[s]
           n == Len(row)
<1>4. s \in 1 .. Len(tab) /\ Len(tab) \in Nat /\ row \in Seq(Page)
  BY <1>1, <1>2
<1>5. n \in Nat /\ DOMAIN row = 1 .. n /\ \A i \in 1 .. n : row[i] \in Page
  BY <1>4
<1>6. pos \in Nat /\ pos \in 0 .. (n * PageSize) - 1
  <2>1. n * PageSize \in Nat
    BY <1>2, <1>5
  <2>2. kv.context[s] \in Nat /\ kv.context[s] <= n * PageSize /\ pos \in 0 .. kv.context[s] - 1
    BY <1>1, <1>2, <2>1
  <2> HIDE DEF n
  <2> QED BY <2>1, <2>2
<1>7. pos \div PageSize \in 0 .. n - 1
  BY <1>2, <1>5, <1>6, QuotientBelow
<1>8. pos % PageSize \in 0 .. PageSize - 1 /\ pos = ((pos \div PageSize) * PageSize) + (pos % PageSize)
  BY <1>2, <1>6, DivMod
<1> DEFINE q == pos \div PageSize
<1>9. q + 1 \in 1 .. n /\ q \in Nat
  BY <1>5, <1>7
<1>10. row[q + 1] \in Page
  BY <1>5, <1>9
<1>11. s # 0
  BY <1>4
<1>12. PageOf(t) = row[q + 1] /\ SpotOf(t) = pos % PageSize
  BY <1>3, Zenon DEF PageOf, SpotOf
<1>13. (t[2] \div PageSize) + 1 \in DOMAIN kv.tables[t[1]]
  BY <1>3, <1>5, <1>9
<1>14. t = <<t[1], t[2]>> /\ t[1] \in DOMAIN kv.tables /\ t[1] # 0 /\ t[2] \in Nat
  BY <1>1, <1>3, <1>6, <1>11
<1>15. t[2] \div PageSize \in Nat /\ t[2] = ((t[2] \div PageSize) * PageSize) + (t[2] % PageSize)
  BY <1>3, <1>8, <1>9
<1> QED BY <1>8, <1>10, <1>12, <1>13, <1>14, <1>15 DEF Spot

LEMMA FreshSlot ==
  ASSUME kv \in KvCalls, NEW t \in Fresh
  PROVE  /\ t \notin Padding /\ SlotOf(t) = PageOf(t) * PageSize + SpotOf(t) /\ SlotOf(t) \in Nat
         /\ SlotOf(t) \div PageSize = PageOf(t) /\ SlotOf(t) % PageSize = SpotOf(t)
<1>1. /\ t[1] # 0 /\ PageOf(t) \in Page /\ SpotOf(t) \in Spot /\ PageSize \in Nat \ {0} /\ NumPages \in Nat
  BY FreshToken, KvSizes
<1>2. t \notin Padding
  <2>1. \A i : <<0, i>>[1] = 0
    OBVIOUS
  <2> QED BY <1>1, <2>1 DEF Padding
<1>3. SlotOf(t) = PageOf(t) * PageSize + SpotOf(t)
  BY <1>2 DEF SlotOf, PageOf, SpotOf
<1> DEFINE p == PageOf(t)
           o == SpotOf(t)
<1>4. p \in Nat /\ o \in 0 .. PageSize - 1 /\ o \in Nat
  BY <1>1 DEF Page, Spot
<1>5. SlotOf(t) = p * PageSize + o
  BY <1>3
<1> HIDE DEF p, o
<1>6. (p * PageSize + o) \div PageSize = p /\ (p * PageSize + o) % PageSize = o /\ p * PageSize + o \in Nat
  BY <1>1, <1>4, DivModUnique
<1> QED BY <1>2, <1>3, <1>5, <1>6 DEF p, o

LEMMA FreshApart ==
  ASSUME kv \in KvCalls, NEW t \in Fresh, NEW u \in Fresh, PageOf(t) = PageOf(u), SpotOf(t) = SpotOf(u)
  PROVE  t = u
<1> DEFINE tab == kv.tables
           i == (t[2] \div PageSize) + 1
           j == (u[2] \div PageSize) + 1
<1>1. /\ t[1] \in DOMAIN tab /\ u[1] \in DOMAIN tab /\ i \in DOMAIN tab[t[1]] /\ j \in DOMAIN tab[u[1]]
      /\ t = <<t[1], t[2]>> /\ u = <<u[1], u[2]>>
      /\ t[2] \div PageSize \in Nat /\ u[2] \div PageSize \in Nat
      /\ t[2] = ((t[2] \div PageSize) * PageSize) + (t[2] % PageSize)
      /\ u[2] = ((u[2] \div PageSize) * PageSize) + (u[2] % PageSize)
  BY FreshToken
<1>2. tab[t[1]][i] = tab[u[1]][j]
  BY DEF PageOf
<1>3. t[1] = u[1] /\ i = j
  <2> HIDE DEF i, j, tab
  <2>1. \A s, r \in DOMAIN tab : \A k \in DOMAIN tab[s], l \in DOMAIN tab[r] : tab[s][k] = tab[r][l] => s = r /\ k = l
    BY KvCallAssumption DEF tab
  <2> QED BY <1>1, <1>2, <2>1
<1>4. t[2] \div PageSize = u[2] \div PageSize
  BY <1>1, <1>3
<1>5. t[2] % PageSize = u[2] % PageSize
  BY DEF SpotOf
<1>6. t[2] = u[2]
  BY <1>1, <1>4, <1>5, Zenon
<1> QED BY <1>1, <1>3, <1>6, Zenon

LEMMA HeadsAll ==
  /\ \A i \in 0 .. N - 1 : \E h \in Heads, e \in Within : i = h * HeadSize + e
  /\ \A h \in Heads, e \in Within : h * HeadSize + e \in 0 .. N - 1
<1>1. /\ NumHeads \in Nat \ {0} /\ HeadSize \in Nat \ {0} /\ N = NumHeads * HeadSize /\ N \in Nat
  BY KvSizes
<1>2. ASSUME NEW i \in 0 .. N - 1 PROVE \E h \in Heads, e \in Within : i = h * HeadSize + e
  <2>1. i \in Nat /\ i \in 0 .. (NumHeads * HeadSize) - 1
    BY <1>1
  <2>2. i \div HeadSize \in Heads
    BY <1>1, <2>1, QuotientBelow DEF Heads
  <2>3. i % HeadSize \in Within /\ i = ((i \div HeadSize) * HeadSize) + (i % HeadSize)
    BY <1>1, <2>1, DivMod DEF Within
  <2> QED BY <2>2, <2>3
<1>3. ASSUME NEW h \in Heads, NEW e \in Within PROVE h * HeadSize + e \in 0 .. N - 1
  BY <1>1, TwoDigits DEF Heads, Within
<1> QED BY <1>2, <1>3

-----------------------------------------------------------------------------
(* What a writer stores of a token. *)
PlacesOf(t) ==
  {<<KeyIn(PageOf(t), SpotOf(t), h, e), "key", h * HeadSize + e>> : h \in Heads, e \in Within}
  \cup {<<ValueIn(PageOf(t), SpotOf(t), h, e), "value", h * HeadSize + e>> : h \in Heads, e \in Within}
Stores(t) ==
  IF kv.layout = "paged" THEN PagedStores(t)
  ELSE IF kv.layout = "flash" THEN FlashStores(t) ELSE StridedStores(t)

StoredBy(t, key, value, W) ==
  {<<key[i], Of(t, "key", i, W, {})>> : i \in 0 .. N - 1}
  \cup {<<value[i], Of(t, "value", i, W, {})>> : i \in 0 .. N - 1}
Placed(t, W) == {<<x[1], Of(t, x[2], x[3], W, {})>> : x \in PlacesOf(t)}

(* Every store of a token is of an element in its place, and every element *)
(* is stored.                                                              *)
LEMMA StoresByHead ==
  ASSUME NEW t, NEW key, NEW value, NEW W,
         \A h \in Heads, e \in Within :
           /\ key[h * HeadSize + e] = KeyIn(PageOf(t), SpotOf(t), h, e)
           /\ value[h * HeadSize + e] = ValueIn(PageOf(t), SpotOf(t), h, e)
  PROVE  StoredBy(t, key, value, W) = Placed(t, W)
<1> DEFINE p == PageOf(t)
           o == SpotOf(t)
           A == {<<key[i], Of(t, "key", i, W, {})>> : i \in 0 .. N - 1}
           B == {<<value[i], Of(t, "value", i, W, {})>> : i \in 0 .. N - 1}
<1>1. ASSUME NEW h \in Heads, NEW e \in Within
      PROVE  key[h * HeadSize + e] = KeyIn(p, o, h, e) /\ value[h * HeadSize + e] = ValueIn(p, o, h, e)
  OBVIOUS
<1>2. PlacesOf(t) =
        {<<KeyIn(p, o, h, e), "key", h * HeadSize + e>> : h \in Heads, e \in Within}
        \cup {<<ValueIn(p, o, h, e), "value", h * HeadSize + e>> : h \in Heads, e \in Within}
  BY DEF PlacesOf
<1> HIDE DEF p, o
<1>3. ASSUME NEW s \in A PROVE \E x \in PlacesOf(t) : s = <<x[1], Of(t, x[2], x[3], W, {})>>
  <2>1. PICK i \in 0 .. N - 1 : s = <<key[i], Of(t, "key", i, W, {})>>
    BY <1>3
  <2>2. PICK h \in Heads, e \in Within : i = h * HeadSize + e
    BY HeadsAll
  <2> DEFINE x == <<KeyIn(p, o, h, e), "key", h * HeadSize + e>>
  <2>3. x \in PlacesOf(t)
    BY <1>2
  <2>4. x[1] = KeyIn(p, o, h, e) /\ x[2] = "key" /\ x[3] = h * HeadSize + e
    OBVIOUS
  <2> HIDE DEF x
  <2>5. s = <<x[1], Of(t, x[2], x[3], W, {})>>
    BY <1>1, <2>1, <2>2, <2>4, Zenon
  <2> QED BY <2>3, <2>5
<1>4. ASSUME NEW s \in B PROVE \E x \in PlacesOf(t) : s = <<x[1], Of(t, x[2], x[3], W, {})>>
  <2>1. PICK i \in 0 .. N - 1 : s = <<value[i], Of(t, "value", i, W, {})>>
    BY <1>4
  <2>2. PICK h \in Heads, e \in Within : i = h * HeadSize + e
    BY HeadsAll
  <2> DEFINE x == <<ValueIn(p, o, h, e), "value", h * HeadSize + e>>
  <2>3. x \in PlacesOf(t)
    BY <1>2
  <2>4. x[1] = ValueIn(p, o, h, e) /\ x[2] = "value" /\ x[3] = h * HeadSize + e
    OBVIOUS
  <2> HIDE DEF x
  <2>5. s = <<x[1], Of(t, x[2], x[3], W, {})>>
    BY <1>1, <2>1, <2>2, <2>4, Zenon
  <2> QED BY <2>3, <2>5
<1>5. ASSUME NEW x \in PlacesOf(t) PROVE <<x[1], Of(t, x[2], x[3], W, {})>> \in A \cup B
  <2>1. CASE \E h \in Heads, e \in Within : x = <<KeyIn(p, o, h, e), "key", h * HeadSize + e>>
    <3>1. PICK h \in Heads, e \in Within : x = <<KeyIn(p, o, h, e), "key", h * HeadSize + e>>
      BY <2>1
    <3>2. x[1] = KeyIn(p, o, h, e) /\ x[2] = "key" /\ x[3] = h * HeadSize + e
      BY <3>1
    <3> DEFINE i == h * HeadSize + e
    <3>3. i \in 0 .. N - 1
      BY HeadsAll
    <3>4. <<x[1], Of(t, x[2], x[3], W, {})>> = <<key[i], Of(t, "key", i, W, {})>>
      BY <1>1, <3>2, Zenon
    <3> QED BY <3>3, <3>4
  <2>2. CASE \E h \in Heads, e \in Within : x = <<ValueIn(p, o, h, e), "value", h * HeadSize + e>>
    <3>1. PICK h \in Heads, e \in Within : x = <<ValueIn(p, o, h, e), "value", h * HeadSize + e>>
      BY <2>2
    <3>2. x[1] = ValueIn(p, o, h, e) /\ x[2] = "value" /\ x[3] = h * HeadSize + e
      BY <3>1
    <3> DEFINE i == h * HeadSize + e
    <3>3. i \in 0 .. N - 1
      BY HeadsAll
    <3>4. <<x[1], Of(t, x[2], x[3], W, {})>> = <<value[i], Of(t, "value", i, W, {})>>
      BY <1>1, <3>2, Zenon
    <3> QED BY <3>3, <3>4
  <2> QED BY <1>2, <2>1, <2>2
<1> HIDE DEF A, B
<1>6. A \cup B = Placed(t, W)
  BY <1>3, <1>4, <1>5 DEF Placed
<1> QED BY <1>6, Zenon DEF A, B, StoredBy

LEMMA StoresAre ==
  ASSUME kv \in KvCalls, ByHead, NEW t \in Fresh
  PROVE  \E W : Stores(t) = Placed(t, W)
<1> DEFINE p == PageOf(t)
           o == SpotOf(t)
           slot == p * PageSize + o
<1>1. /\ p \in Page /\ o \in Spot /\ SlotOf(t) = slot
      /\ SlotOf(t) \div PageSize = p /\ SlotOf(t) % PageSize = o
      /\ N \in Nat /\ kv.shift \in 0 .. PackSize - 1
  BY FreshToken, FreshSlot, KvSizes, KvCallAssumption
<1> HIDE DEF p, o
<1>2. CASE kv.layout = "paged"
  <2> DEFINE key == [i \in 0 .. N - 1 |-> <<"k", PagedKey(slot, i)>>]
             value == [i \in 0 .. N - 1 |-> <<"v", PagedValue(slot, i)>>]
  <2>1. ASSUME NEW h \in Heads, NEW e \in Within
        PROVE  key[h * HeadSize + e] = KeyIn(p, o, h, e) /\ value[h * HeadSize + e] = ValueIn(p, o, h, e)
    <3> DEFINE i == h * HeadSize + e
    <3>1. i \in 0 .. N - 1
      BY HeadsAll
    <3>2. key[i] = <<"k", PagedKey(slot, i)>> /\ value[i] = <<"v", PagedValue(slot, i)>>
      BY <3>1
    <3> QED BY <1>1, <1>2, <3>2, PagedPlaces, Zenon
  <2>2. Elements(N) = 0 .. N - 1
    BY <1>1, ElementsAll
  <2>3. Stores(t) = {<<<<"k", PagedKey(slot, i)>>, Of(t, "key", i, Multiplied, {})>> : i \in 0 .. N - 1}
                    \cup {<<<<"v", PagedValue(slot, i)>>, Of(t, "value", i, Multiplied, {})>> : i \in 0 .. N - 1}
    BY <1>1, <1>2, <2>2 DEF Stores, PagedStores
  <2>4. Stores(t) = StoredBy(t, key, value, Multiplied)
    BY <2>3 DEF StoredBy
  <2> HIDE DEF key, value
  <2>5. \A h \in Heads, e \in Within :
          /\ key[h * HeadSize + e] = KeyIn(PageOf(t), SpotOf(t), h, e)
          /\ value[h * HeadSize + e] = ValueIn(PageOf(t), SpotOf(t), h, e)
    BY <2>1, Zenon DEF p, o
  <2>6. Stores(t) = Placed(t, Multiplied)
    BY <2>4, <2>5, StoresByHead, Zenon
  <2> QED BY <2>6
<1>3. CASE kv.layout = "flash"
  <2> DEFINE base == p * PageSize * N + o * N
             key == [i \in 0 .. N - 1 |-> <<"k", base + i>>]
             value == [i \in 0 .. N - 1 |-> <<"v", base + i>>]
  <2>1. ASSUME NEW h \in Heads, NEW e \in Within
        PROVE  key[h * HeadSize + e] = KeyIn(p, o, h, e) /\ value[h * HeadSize + e] = ValueIn(p, o, h, e)
    <3> DEFINE i == h * HeadSize + e
    <3>1. i \in 0 .. N - 1
      BY HeadsAll
    <3>2. key[i] = <<"k", base + i>> /\ value[i] = <<"v", base + i>>
      BY <3>1
    <3> QED BY <1>1, <1>3, <3>2, FlashPlaces, Zenon
  <2>2. AlignedElements(N) = 0 .. N - 1
    BY <1>1, AlignedAll
  <2>3. Stores(t) = {<<<<"k", base + i>>, Of(t, "key", i, Scaled, {})>> : i \in 0 .. N - 1}
                    \cup {<<<<"v", base + i>>, Of(t, "value", i, Scaled, {})>> : i \in 0 .. N - 1}
    BY <1>1, <1>3, <2>2 DEF Stores, FlashStores
  <2> HIDE DEF base
  <2>4. Stores(t) = StoredBy(t, key, value, Scaled)
    BY <2>3 DEF StoredBy
  <2> HIDE DEF key, value
  <2>5. \A h \in Heads, e \in Within :
          /\ key[h * HeadSize + e] = KeyIn(PageOf(t), SpotOf(t), h, e)
          /\ value[h * HeadSize + e] = ValueIn(PageOf(t), SpotOf(t), h, e)
    BY <2>1, Zenon DEF p, o
  <2>6. Stores(t) = Placed(t, Scaled)
    BY <2>4, <2>5, StoresByHead, Zenon
  <2> QED BY <2>6
<1>4. CASE kv.layout = "strided"
  <2> DEFINE base == p * 2 * PageSize * N + o * 2 * HeadSize
             at(i) == base + (i \div HeadSize) * 2 * PageSize * HeadSize + (i % HeadSize)
             key == [i \in 0 .. N - 1 |-> <<"k", at(i)>>]
             value == [i \in 0 .. N - 1 |-> <<"k", at(i) + HeadSize>>]
  <2>1. ASSUME NEW h \in Heads, NEW e \in Within
        PROVE  key[h * HeadSize + e] = KeyIn(p, o, h, e) /\ value[h * HeadSize + e] = ValueIn(p, o, h, e)
    <3> DEFINE i == h * HeadSize + e
    <3>1. i \in 0 .. N - 1
      BY HeadsAll
    <3>2. key[i] = <<"k", at(i)>> /\ value[i] = <<"k", at(i) + HeadSize>>
      BY <3>1
    <3> QED BY <1>1, <1>4, <3>2, StridedPlaces, ZenonT(60)
  <2>2. (IF kv.shift = 0 /\ HeadSize % PackSize = 0 THEN Packs(N) ELSE Elements(N)) = 0 .. N - 1
    BY StridedAll
  <2>3. Stores(t) = {<<<<"k", at(i)>>, Of(t, "key", i, Scaled, {})>> : i \in 0 .. N - 1}
                    \cup {<<<<"k", at(i) + HeadSize>>, Of(t, "value", i, Scaled, {})>> : i \in 0 .. N - 1}
    <3>1. kv.layout # "paged" /\ kv.layout # "flash"
      BY <1>4
    <3> QED BY <1>1, <3>1, <2>2 DEF Stores, StridedStores
  <2> HIDE DEF at
  <2>4. Stores(t) = StoredBy(t, key, value, Scaled)
    BY <2>3 DEF StoredBy
  <2> HIDE DEF key, value
  <2>5. \A h \in Heads, e \in Within :
          /\ key[h * HeadSize + e] = KeyIn(PageOf(t), SpotOf(t), h, e)
          /\ value[h * HeadSize + e] = ValueIn(PageOf(t), SpotOf(t), h, e)
    BY <2>1, Zenon DEF p, o
  <2>6. Stores(t) = Placed(t, Scaled)
    BY <2>4, <2>5, StoresByHead, Zenon
  <2> QED BY <2>6
<1> QED BY <1>2, <1>3, <1>4 DEF ByHead

LEMMA PlacesOfToken ==
  ASSUME kv \in KvCalls, ByHead, NEW t \in Fresh, NEW x \in PlacesOf(t)
  PROVE  x[1] \in {"k", "v"} \X (0 .. CacheSize - 1)
<1> DEFINE p == PageOf(t)
           o == SpotOf(t)
<1>1. p \in Page /\ o \in Spot
  BY FreshToken
<1>2. \E h \in Heads, e \in Within : x[1] = KeyIn(p, o, h, e) \/ x[1] = ValueIn(p, o, h, e)
  BY DEF PlacesOf
<1> HIDE DEF p, o
<1> QED BY <1>1, <1>2, PlacesInside, ZenonT(60)

LEMMA TokensApart ==
  ASSUME kv \in KvCalls, ByHead, NEW t \in Fresh, NEW x \in PlacesOf(t), NEW u \in Fresh, NEW y \in PlacesOf(u),
         x[1] = y[1]
  PROVE  t = u /\ x[2] = y[2] /\ x[3] = y[3]
<1> DEFINE p == PageOf(t)
           o == SpotOf(t)
           q == PageOf(u)
           r == SpotOf(u)
<1>1. p \in Page /\ o \in Spot /\ q \in Page /\ r \in Spot
  BY FreshToken
<1>2. p = q /\ o = r => t = u
  BY FreshApart
<1>3. \E h \in Heads, e \in Within :
        \/ x[1] = KeyIn(p, o, h, e) /\ x[2] = "key" /\ x[3] = h * HeadSize + e
        \/ x[1] = ValueIn(p, o, h, e) /\ x[2] = "value" /\ x[3] = h * HeadSize + e
  BY DEF PlacesOf
<1>4. \E h \in Heads, e \in Within :
        \/ y[1] = KeyIn(q, r, h, e) /\ y[2] = "key" /\ y[3] = h * HeadSize + e
        \/ y[1] = ValueIn(q, r, h, e) /\ y[2] = "value" /\ y[3] = h * HeadSize + e
  BY DEF PlacesOf
<1> HIDE DEF p, o, q, r
<1>5. PICK h \in Heads, e \in Within :
        \/ x[1] = KeyIn(p, o, h, e) /\ x[2] = "key" /\ x[3] = h * HeadSize + e
        \/ x[1] = ValueIn(p, o, h, e) /\ x[2] = "value" /\ x[3] = h * HeadSize + e
  BY <1>3
<1>6. PICK g \in Heads, f \in Within :
        \/ y[1] = KeyIn(q, r, g, f) /\ y[2] = "key" /\ y[3] = g * HeadSize + f
        \/ y[1] = ValueIn(q, r, g, f) /\ y[2] = "value" /\ y[3] = g * HeadSize + f
  BY <1>4
<1>7. /\ KeyIn(p, o, h, e) = KeyIn(q, r, g, f) => p = q /\ o = r /\ h = g /\ e = f
      /\ ValueIn(p, o, h, e) = ValueIn(q, r, g, f) => p = q /\ o = r /\ h = g /\ e = f
      /\ KeyIn(p, o, h, e) # ValueIn(q, r, g, f)
  BY <1>1, PlacesApart
<1>8. KeyIn(q, r, g, f) # ValueIn(p, o, h, e)
  BY <1>1, PlacesApart
<1> QED BY <1>2, <1>5, <1>6, <1>7, <1>8, Zenon

LEMMA PutAt ==
  ASSUME NEW memory, NEW stores, NEW a \in DOMAIN memory
  PROVE  /\ DOMAIN Put(memory, stores) = DOMAIN memory
         /\ (\A s \in stores : s[1] # a) => Put(memory, stores)[a] = memory[a]
         /\ (\E s \in stores : s[1] = a) => \E s \in stores : s[1] = a /\ Put(memory, stores)[a] = s[2]
<1>1. Put(memory, stores)[a] =
        IF \E s \in stores : s[1] = a THEN (CHOOSE s \in stores : s[1] = a)[2] ELSE memory[a]
  BY DEF Put
<1>2. (\A s \in stores : s[1] # a) => Put(memory, stores)[a] = memory[a]
  BY <1>1
<1>3. (\E s \in stores : s[1] = a) => \E s \in stores : s[1] = a /\ Put(memory, stores)[a] = s[2]
  <2> SUFFICES ASSUME \E s \in stores : s[1] = a
               PROVE  \E s \in stores : s[1] = a /\ Put(memory, stores)[a] = s[2]
    OBVIOUS
  <2> DEFINE c == CHOOSE s \in stores : s[1] = a
  <2>1. c \in stores /\ c[1] = a
    OBVIOUS
  <2>2. Put(memory, stores)[a] = c[2]
    BY <1>1
  <2> QED BY <2>1, <2>2
<1>4. DOMAIN Put(memory, stores) = DOMAIN memory
  BY DEF Put
<1> QED BY <1>2, <1>3, <1>4

-----------------------------------------------------------------------------
(* The cache holds the stored tokens in their places, and nothing else. *)
Held ==
  /\ DOMAIN kvMemory = {"k", "v"} \X (0 .. CacheSize - 1)
  /\ \A t \in stored \ Padding : \A x \in PlacesOf(t) : Comes(kvMemory[x[1]], t, x[2], x[3])
  /\ \A a \in DOMAIN kvMemory :
       (\A t \in stored \ Padding : \A x \in PlacesOf(t) : x[1] # a) => kvMemory[a] = Untouched
KvOK ==
  /\ kv \in KvCalls
  /\ stored \subseteq Fresh \cup Padding
  /\ ByHead => Held

LEMMA KvStart == KvInit => KvOK
<1> SUFFICES ASSUME KvInit PROVE KvOK
  OBVIOUS
<1>1. /\ kv \in KvCalls /\ stored = {}
      /\ kvMemory = [a \in {"k", "v"} \X (0 .. CacheSize - 1) |-> Untouched]
  BY DEF KvInit
<1>2. DOMAIN kvMemory = {"k", "v"} \X (0 .. CacheSize - 1)
  BY <1>1
<1>3. \A a \in DOMAIN kvMemory : kvMemory[a] = Untouched
  BY <1>1, <1>2
<1>4. Held
  BY <1>1, <1>2, <1>3 DEF Held
<1> QED BY <1>1, <1>4 DEF KvOK

LEMMA KvSteady ==
  ASSUME kv' = kv
  PROVE  /\ Fresh' = Fresh /\ Padding' = Padding /\ (ByHead' <=> ByHead) /\ CacheSize' = CacheSize
         /\ \A t : PlacesOf(t)' = PlacesOf(t)
<1>1. Fresh' = Fresh /\ Padding' = Padding
  BY DEF Fresh, Padding
<1>2. ByHead' <=> ByHead
  BY DEF ByHead
<1>3. CacheSize' = CacheSize
  BY DEF CacheSize, N, RowWidth, IndexStride
<1>4. ASSUME NEW t PROVE PlacesOf(t)' = PlacesOf(t)
  <2>1. PageOf(t)' = PageOf(t) /\ SpotOf(t)' = SpotOf(t)
    BY DEF PageOf, SpotOf
  <2>2. \A p, o, h, e : KeyIn(p, o, h, e)' = KeyIn(p, o, h, e) /\ ValueIn(p, o, h, e)' = ValueIn(p, o, h, e)
    BY DEF KeyIn, ValueIn
  <2> QED BY <2>1, <2>2 DEF PlacesOf
<1> QED BY <1>1, <1>2, <1>3, <1>4

LEMMA StoreHolds ==
  ASSUME KvOK, ByHead, NEW t \in (Fresh \cup Padding) \ stored, Store(t, Stores(t))
  PROVE  KvOK'
<1>0. /\ kv \in KvCalls /\ stored \subseteq Fresh \cup Padding /\ Held
      /\ kv' = kv /\ stored' = stored \cup {t}
      /\ kvMemory' = IF SlotOf(t) < 0 THEN kvMemory ELSE Put(kvMemory, Stores(t))
  BY DEF KvOK, Store
<1>1. /\ Fresh' = Fresh /\ Padding' = Padding /\ (ByHead' <=> ByHead) /\ CacheSize' = CacheSize
      /\ \A u : PlacesOf(u)' = PlacesOf(u)
  BY <1>0, KvSteady
<1>2. kv' \in KvCalls /\ stored' \subseteq Fresh' \cup Padding'
  BY <1>0, <1>1
<1> DEFINE Kept(memory, done) ==
      /\ DOMAIN memory = {"k", "v"} \X (0 .. CacheSize - 1)
      /\ \A u \in done \ Padding : \A x \in PlacesOf(u) : Comes(memory[x[1]], u, x[2], x[3])
      /\ \A a \in DOMAIN memory :
           (\A u \in done \ Padding : \A x \in PlacesOf(u) : x[1] # a) => memory[a] = Untouched
<1>3. Kept(kvMemory, stored)
  BY <1>0, Zenon DEF Held
<1>4. Kept(kvMemory', stored') => Held'
  BY <1>1, Zenon DEF Held
<1> HIDE DEF Kept
<1>5. CASE t \in Padding
  <2>1. SlotOf(t) < 0
    BY <1>5 DEF SlotOf
  <2>2. kvMemory' = kvMemory /\ stored' \ Padding = stored \ Padding
    BY <1>0, <1>5, <2>1
  <2>3. Kept(kvMemory', stored')
    BY <1>3, <2>2, Zenon DEF Kept
  <2> QED BY <1>1, <1>2, <1>4, <2>3, Zenon DEF KvOK
<1>6. CASE t \in Fresh
  <2> DEFINE after == Put(kvMemory, Stores(t))
  <2>1. t \notin Padding /\ kvMemory' = after
    BY <1>0, <1>6, FreshSlot
  <2>2. PICK W : Stores(t) = Placed(t, W)
    BY <1>0, <1>6, StoresAre
  <2>3. \A s \in Stores(t) : \E x \in PlacesOf(t) : s = <<x[1], Of(t, x[2], x[3], W, {})>>
    BY <2>2 DEF Placed
  <2>4. \A x \in PlacesOf(t) : <<x[1], Of(t, x[2], x[3], W, {})>> \in Stores(t)
    BY <2>2 DEF Placed
  <2>5. /\ DOMAIN kvMemory = {"k", "v"} \X (0 .. CacheSize - 1)
        /\ \A u \in stored \ Padding : \A x \in PlacesOf(u) : Comes(kvMemory[x[1]], u, x[2], x[3])
        /\ \A a \in DOMAIN kvMemory :
             (\A u \in stored \ Padding : \A x \in PlacesOf(u) : x[1] # a) => kvMemory[a] = Untouched
    BY <1>3 DEF Kept
  <2>6. \A u \in Fresh : \A x \in PlacesOf(u) : x[1] \in DOMAIN kvMemory
    BY <1>0, <2>5, PlacesOfToken
  <2>7. DOMAIN after = DOMAIN kvMemory
    BY DEF Put
  <2>8. ASSUME NEW x \in PlacesOf(t) PROVE Comes(after[x[1]], t, x[2], x[3])
    <3> DEFINE a == x[1]
               m == Of(t, x[2], x[3], W, {})
    <3>1. a \in DOMAIN kvMemory
      BY <1>6, <2>6
    <3>2. <<a, m>> \in Stores(t) /\ <<a, m>>[1] = a
      BY <2>4
    <3>3. \E s \in Stores(t) : s[1] = a /\ after[a] = s[2]
      BY <3>1, <3>2, PutAt
    <3>4. PICK s \in Stores(t) : s[1] = a /\ after[a] = s[2]
      BY <3>3
    <3>5. PICK y \in PlacesOf(t) : s = <<y[1], Of(t, y[2], y[3], W, {})>>
      BY <2>3
    <3>6. y[1] = x[1] /\ after[a] = Of(t, y[2], y[3], W, {})
      BY <3>4, <3>5
    <3>7. y[2] = x[2] /\ y[3] = x[3]
      BY <1>0, <1>6, <3>6, TokensApart
    <3>8. after[a] = m
      BY <3>6, <3>7
    <3> QED BY <3>8 DEF Comes, Of
  <2>9. ASSUME NEW a \in DOMAIN kvMemory, \A x \in PlacesOf(t) : x[1] # a PROVE after[a] = kvMemory[a]
    <3>1. \A s \in Stores(t) : s[1] # a
      BY <2>3, <2>9
    <3> QED BY <3>1, PutAt
  <2>10. ASSUME NEW u \in stored \ Padding, NEW x \in PlacesOf(u) PROVE Comes(after[x[1]], u, x[2], x[3])
    <3>1. u \in Fresh /\ u # t
      BY <1>0
    <3>2. \A y \in PlacesOf(t) : y[1] # x[1]
      BY <1>0, <1>6, <3>1, TokensApart
    <3>3. x[1] \in DOMAIN kvMemory
      BY <2>6, <3>1
    <3>4. after[x[1]] = kvMemory[x[1]]
      BY <2>9, <3>2, <3>3
    <3> HIDE DEF after
    <3> QED BY <2>5, <3>4
  <2>11. stored' \ Padding = (stored \ Padding) \cup {t}
    BY <1>0, <2>1
  <2> HIDE DEF after
  <2>12. \A u \in stored' \ Padding : \A x \in PlacesOf(u) : Comes(after[x[1]], u, x[2], x[3])
    BY <2>8, <2>10, <2>11, Zenon
  <2>13. ASSUME NEW a \in DOMAIN after, \A u \in stored' \ Padding : \A x \in PlacesOf(u) : x[1] # a
         PROVE  after[a] = Untouched
    <3>1. \A x \in PlacesOf(t) : x[1] # a
      BY <2>11, <2>13
    <3>2. \A u \in stored \ Padding : \A x \in PlacesOf(u) : x[1] # a
      BY <2>11, <2>13
    <3>3. kvMemory[a] = Untouched /\ after[a] = kvMemory[a]
      BY <2>5, <2>7, <2>9, <3>1, <3>2
    <3> QED BY <3>3
  <2>14. Kept(after, stored')
    BY <2>5, <2>7, <2>12, <2>13, Zenon DEF Kept
  <2> QED BY <1>1, <1>2, <1>4, <2>1, <2>14, Zenon DEF KvOK
<1> QED BY <1>5, <1>6

LEMMA KvSame ==
  ASSUME KvOK, kv' = kv, kvMemory' = kvMemory, stored' = stored
  PROVE  KvOK'
<1>1. /\ Fresh' = Fresh /\ Padding' = Padding /\ (ByHead' <=> ByHead) /\ CacheSize' = CacheSize
      /\ \A u : PlacesOf(u)' = PlacesOf(u)
  BY KvSteady
<1>2. Held => Held'
  BY <1>1, Zenon DEF Held
<1> QED BY <1>1, <1>2, Zenon DEF KvOK

(* A latent or an indexer's cache has no heads. *)
LEMMA StoreElsewhere ==
  ASSUME KvOK, ~ByHead, NEW t \in (Fresh \cup Padding) \ stored, kv' = kv, stored' = stored \cup {t}
  PROVE  KvOK'
<1>1. /\ Fresh' = Fresh /\ Padding' = Padding /\ ~ByHead'
  BY KvSteady
<1>2. stored' \subseteq Fresh' \cup Padding' /\ kv' \in KvCalls
  BY <1>1 DEF KvOK
<1> QED BY <1>1, <1>2 DEF KvOK

LEMMA KvStep == KvOK /\ [KvNext]_kvVars => KvOK'
<1> SUFFICES ASSUME KvOK, [KvNext]_kvVars PROVE KvOK'
  OBVIOUS
<1>1. ASSUME NEW t \in Fresh \cup Padding,
             \/ ReshapeAndCache(t) \/ ReshapeAndCacheFlash(t) \/ ReshapeAndCacheFlashStrided(t)
      PROVE  KvOK'
  <2>1. ByHead /\ Store(t, Stores(t))
    <3>1. CASE ReshapeAndCache(t)
      BY <3>1 DEF ReshapeAndCache, ByHead, Stores
    <3>2. CASE ReshapeAndCacheFlash(t)
      <4>1. kv.layout = "flash" /\ kv.layout # "paged"
        BY <3>2 DEF ReshapeAndCacheFlash
      <4> QED BY <3>2, <4>1 DEF ReshapeAndCacheFlash, ByHead, Stores
    <3>3. CASE ReshapeAndCacheFlashStrided(t)
      <4>1. kv.layout = "strided" /\ kv.layout # "paged" /\ kv.layout # "flash"
        BY <3>3 DEF ReshapeAndCacheFlashStrided
      <4> QED BY <3>3, <4>1 DEF ReshapeAndCacheFlashStrided, ByHead, Stores
    <3> QED BY <1>1, <3>1, <3>2, <3>3
  <2>2. t \in (Fresh \cup Padding) \ stored
    BY <2>1 DEF Store
  <2> QED BY <2>1, <2>2, StoreHolds
<1>2. ASSUME NEW t \in Fresh \cup Padding, ConcatAndCacheMla(t) \/ IndexerKQuantAndCache(t)
      PROVE  KvOK'
  <2>1. ~ByHead
    <3>1. kv.layout = "mla" \/ kv.layout = "indexer"
      BY <1>2 DEF ConcatAndCacheMla, IndexerKQuantAndCache
    <3> QED BY <3>1 DEF ByHead
  <2>2. t \in (Fresh \cup Padding) \ stored /\ stored' = stored \cup {t} /\ kv' = kv
    BY <1>2 DEF ConcatAndCacheMla, IndexerKQuantAndCache, Store
  <2> QED BY <2>1, <2>2, StoreElsewhere
<1>3. ASSUME NEW s \in DOMAIN kv.tables, NEW split \in 0 .. kv.splits - 1, GatherCache(s, split)
      PROVE  KvOK'
  <2>1. kv' = kv /\ kvMemory' = kvMemory /\ stored' = stored
    BY <1>3 DEF GatherCache, Gathered
  <2> QED BY <2>1, KvSame
<1>4. ASSUME NEW row, GatherAndMaybeDequantCache(row) \/ CpGatherIndexer(row)
      PROVE  KvOK'
  <2>1. kv' = kv /\ kvMemory' = kvMemory /\ stored' = stored
    <3>1. CASE GatherAndMaybeDequantCache(row)
      BY <3>1 DEF GatherAndMaybeDequantCache, Gathered
    <3>2. CASE CpGatherIndexer(row)
      BY <3>2 DEF CpGatherIndexer, Gathered
    <3> QED BY <1>4, <3>1, <3>2
  <2> QED BY <2>1, KvSame
<1>5. CASE UNCHANGED kvVars
  BY <1>5, KvSame DEF kvVars
<1> QED BY <1>1, <1>2, <1>3, <1>4, <1>5 DEF KvNext

LEMMA KvHolds == KvOK => TokensHeld
<1> SUFFICES ASSUME KvOK, ByHead PROVE TokensHeld
  BY DEF TokensHeld, ByHead
<1> DEFINE page(t) == kv.tables[t[1]][t[2] \div PageSize + 1]
           of(t) == {<<KeyIn(page(t), t[2] % PageSize, h, e), "key", h * HeadSize + e>> :
                       h \in 0 .. NumHeads - 1, e \in 0 .. HeadSize - 1}
                    \cup {<<ValueIn(page(t), t[2] % PageSize, h, e), "value", h * HeadSize + e>> :
                       h \in 0 .. NumHeads - 1, e \in 0 .. HeadSize - 1}
<1>1. ASSUME NEW t PROVE of(t) = PlacesOf(t)
  BY DEF PlacesOf, PageOf, SpotOf, Heads, Within
<1>2. /\ \A t \in stored \ Padding : \A x \in PlacesOf(t) : Comes(kvMemory[x[1]], t, x[2], x[3])
      /\ \A a \in DOMAIN kvMemory :
           (\A t \in stored \ Padding : \A x \in PlacesOf(t) : x[1] # a) => kvMemory[a] = Untouched
  BY DEF KvOK, Held
<1> HIDE DEF of
<1>3. \A t \in stored \ Padding : \A x \in of(t) : Comes(kvMemory[x[1]], t, x[2], x[3])
  BY <1>1, <1>2
<1>4. ASSUME NEW a \in DOMAIN kvMemory \ {x[1] : x \in UNION {of(t) : t \in stored \ Padding}}
      PROVE  kvMemory[a] = Untouched
  <2>1. \A t \in stored \ Padding : \A x \in PlacesOf(t) : x[1] # a
    <3> SUFFICES ASSUME NEW t \in stored \ Padding, NEW x \in PlacesOf(t) PROVE x[1] # a
      OBVIOUS
    <3>1. x \in UNION {of(u) : u \in stored \ Padding}
      BY <1>1
    <3> QED BY <3>1
  <2> QED BY <1>2, <2>1
<1> USE DEF of
<1> QED BY <1>3, <1>4 DEF TokensHeld

(* Whatever order the tokens of a batch are stored in, the readers of the  *)
(* cache find every element of a stored token where the layout says, and   *)
(* nothing else in the cache has changed, for every number and size of     *)
(* heads, of pages and of vectors (reshape_and_cache,                      *)
(* reshape_and_cache_flash).                                               *)
THEOREM TokensKept == KvSpec => []TokensHeld
<1>1. KvInit => KvOK
  BY KvStart
<1>2. KvOK /\ [KvNext]_kvVars => KvOK'
  BY KvStep
<1>3. KvOK => TokensHeld
  BY KvHolds
<1> QED BY <1>1, <1>2, <1>3, PTL DEF KvSpec

-----------------------------------------------------------------------------
(* The rows a gather stores: cu_seq_lens. *)
LEMMA KvTables ==
  ASSUME kv \in KvCalls
  PROVE  /\ Len(kv.tables) \in Nat /\ DOMAIN kv.tables = 1 .. Len(kv.tables)
         /\ \A s \in DOMAIN kv.tables :
              kv.starts[s] \in Nat /\ kv.lengths[s] \in Nat /\ kv.starts[s] + kv.lengths[s] <= kv.context[s]
         /\ \A s \in DOMAIN kv.tables : kv.context[s] \in Nat
         /\ kv.splits \in Nat /\ kv.pads \in Nat
<1>1. /\ kv.tables \in Seq(Seq(0 .. NumPages - 1)) /\ kv.splits \in Nat /\ kv.pads \in Nat
      /\ \A s \in DOMAIN kv.tables :
           kv.starts[s] \in Nat /\ kv.lengths[s] \in Nat /\ kv.starts[s] + kv.lengths[s] <= kv.context[s]
      /\ \A s \in DOMAIN kv.tables : kv.context[s] \in 0 .. Len(kv.tables[s]) * PageSize
  BY KvCallAssumption
<1>2. Len(kv.tables) \in Nat /\ DOMAIN kv.tables = 1 .. Len(kv.tables)
  BY <1>1
<1>3. \A s \in DOMAIN kv.tables : kv.context[s] \in Nat
  BY <1>1
<1> QED BY <1>1, <1>2, <1>3

LEMMA RowStartsRun ==
  ASSUME kv \in KvCalls
  PROVE  \E g : /\ \A s \in 1 .. Len(kv.tables) + 1 : RowStart(s) = g[s - 1]
                /\ g[0] = 0 /\ \A r \in 0 .. Len(kv.tables) : g[r] \in Nat
                /\ \A r \in 1 .. Len(kv.tables) : g[r] = g[r - 1] + kv.lengths[r]
<1> DEFINE k == Len(kv.tables)
           at == CHOOSE f : f = [r \in 0 .. k |-> IF r = 0 THEN 0 ELSE f[r - 1] + kv.lengths[r]]
<1>1. k \in Nat /\ \A r \in 1 .. k : kv.lengths[r] \in Nat
  BY KvTables
<1>2. \A s : RowStart(s) = at[s - 1]
  BY Zenon DEF RowStart
<1> HIDE DEF k
<1>3. PartSums(at, kv.lengths, k)
  BY <1>1, SumsExist DEF PartSums
<1> HIDE DEF at
<1>4. /\ at[0] = 0 /\ \A r \in 0 .. k : at[r] \in Nat
      /\ \A r \in 1 .. k : at[r] = at[r - 1] + kv.lengths[r]
  BY <1>1, <1>3, SumsRun
<1>5. \A s \in 1 .. k + 1 : RowStart(s) = at[s - 1]
  BY <1>2
<1> QED BY <1>4, <1>5 DEF k

LEMMA RowStarts ==
  ASSUME kv \in KvCalls
  PROVE  /\ RowStart(1) = 0 /\ TotalRows = RowStart(Len(kv.tables) + 1)
         /\ \A s \in 1 .. Len(kv.tables) + 1 : RowStart(s) \in Nat
         /\ \A s \in 1 .. Len(kv.tables) : RowStart(s + 1) = RowStart(s) + kv.lengths[s]
<1> DEFINE k == Len(kv.tables)
<1>1. k \in Nat
  BY KvTables
<1>2. PICK g : /\ \A s \in 1 .. k + 1 : RowStart(s) = g[s - 1]
               /\ g[0] = 0 /\ \A r \in 0 .. k : g[r] \in Nat
               /\ \A r \in 1 .. k : g[r] = g[r - 1] + kv.lengths[r]
  BY RowStartsRun
<1> HIDE DEF k
<1>3. RowStart(1) = 0
  <2>1. 1 \in 1 .. k + 1 /\ 1 - 1 = 0
    BY <1>1
  <2> QED BY <1>2, <2>1
<1>4. ASSUME NEW s \in 1 .. k + 1 PROVE RowStart(s) \in Nat
  <2>1. s - 1 \in 0 .. k
    BY <1>1
  <2> QED BY <1>2, <2>1
<1>5. ASSUME NEW s \in 1 .. k PROVE RowStart(s + 1) = RowStart(s) + kv.lengths[s]
  <2>1. s + 1 \in 1 .. k + 1 /\ (s + 1) - 1 = s /\ s \in 1 .. k + 1
    BY <1>1
  <2> QED BY <1>2, <2>1
<1> QED BY <1>3, <1>4, <1>5 DEF k, TotalRows

LEMMA RowsRise ==
  ASSUME kv \in KvCalls, NEW s \in 1 .. Len(kv.tables) + 1, NEW r \in 1 .. Len(kv.tables) + 1, s <= r
  PROVE  RowStart(s) <= RowStart(r)
<1> DEFINE k == Len(kv.tables)
           T == {n \in Nat : s + n <= k + 1 => RowStart(s) <= RowStart(s + n)}
<1>0. /\ k \in Nat /\ \A q \in 1 .. k + 1 : RowStart(q) \in Nat
      /\ \A q \in 1 .. k : RowStart(q + 1) = RowStart(q) + kv.lengths[q] /\ kv.lengths[q] \in Nat
  BY KvTables, RowStarts
<1> HIDE DEF k
<1>00. s \in 1 .. k + 1 /\ r \in 1 .. k + 1
  BY DEF k
<1>1. 0 \in T
  <2>1. s + 0 = s /\ RowStart(s) \in Nat
    BY <1>0, <1>00
  <2> QED BY <2>1
<1>2. ASSUME NEW n \in Nat, n \in T PROVE n + 1 \in T
  <2> SUFFICES ASSUME s + (n + 1) <= k + 1 PROVE RowStart(s) <= RowStart(s + (n + 1))
    OBVIOUS
  <2>1. s + n \in 1 .. k /\ s + (n + 1) = (s + n) + 1 /\ s + n \in 1 .. k + 1
    BY <1>0, <1>00
  <2>2. RowStart(s) <= RowStart(s + n)
    BY <1>2, <2>1
  <2>3. /\ RowStart((s + n) + 1) = RowStart(s + n) + kv.lengths[s + n] /\ kv.lengths[s + n] \in Nat
        /\ RowStart(s) \in Nat /\ RowStart(s + n) \in Nat
    BY <1>0, <1>00, <2>1
  <2> QED BY <2>1, <2>2, <2>3
<1> HIDE DEF T
<1>3. Nat \subseteq T
  BY <1>1, <1>2, NatInduct
<1>4. r - s \in Nat /\ s + (r - s) = r /\ s + (r - s) <= k + 1
  BY <1>0, <1>00
<1> QED BY <1>3, <1>4 DEF T

LEMMA RowIn ==
  ASSUME kv \in KvCalls, NEW s \in DOMAIN kv.tables, NEW j \in 0 .. kv.lengths[s] - 1
  PROVE  /\ RowStart(s) + j \in 0 .. TotalRows - 1 /\ j \in Nat /\ RowStart(s) \in Nat
         /\ RowStart(s) <= RowStart(s) + j /\ RowStart(s) + j < RowStart(s + 1)
<1> DEFINE k == Len(kv.tables)
<1>1. k \in Nat /\ s \in 1 .. k /\ kv.lengths[s] \in Nat
  BY KvTables
<1> HIDE DEF k
<1>2. s + 1 \in 1 .. k + 1 /\ s \in 1 .. k + 1 /\ k + 1 \in 1 .. k + 1 /\ s + 1 <= k + 1
  BY <1>1
<1>3. /\ RowStart(s) \in Nat /\ RowStart(s + 1) = RowStart(s) + kv.lengths[s]
      /\ TotalRows = RowStart(k + 1) /\ RowStart(k + 1) \in Nat
  BY <1>1, <1>2, RowStarts DEF k
<1>4. RowStart(s + 1) <= RowStart(k + 1)
  BY <1>2, RowsRise DEF k
<1>5. j \in Nat /\ j < kv.lengths[s]
  BY <1>1
<1> QED BY <1>1, <1>3, <1>4, <1>5

LEMMA RowOwner ==
  ASSUME kv \in KvCalls, NEW s \in DOMAIN kv.tables, NEW r \in DOMAIN kv.tables, NEW row \in Nat,
         RowStart(s) <= row, row < RowStart(s + 1), RowStart(r) <= row, row < RowStart(r + 1)
  PROVE  s = r
<1> DEFINE k == Len(kv.tables)
<1>1. k \in Nat /\ s \in 1 .. k /\ r \in 1 .. k
  BY KvTables
<1> HIDE DEF k
<1>2. s \in 1 .. k + 1 /\ s + 1 \in 1 .. k + 1 /\ r \in 1 .. k + 1 /\ r + 1 \in 1 .. k + 1
  BY <1>1
<1>3. RowStart(s) \in Nat /\ RowStart(s + 1) \in Nat /\ RowStart(r) \in Nat /\ RowStart(r + 1) \in Nat
  BY <1>2, RowStarts DEF k
<1>4. s + 1 <= r => RowStart(s + 1) <= RowStart(r)
  BY <1>2, RowsRise DEF k
<1>5. r + 1 <= s => RowStart(r + 1) <= RowStart(s)
  BY <1>2, RowsRise DEF k
<1> QED BY <1>1, <1>3, <1>4, <1>5

LEMMA RowsApart ==
  ASSUME kv \in KvCalls, NEW s \in DOMAIN kv.tables, NEW j \in 0 .. kv.lengths[s] - 1,
         NEW r \in DOMAIN kv.tables, NEW l \in 0 .. kv.lengths[r] - 1, RowStart(s) + j = RowStart(r) + l
  PROVE  s = r /\ j = l
<1> DEFINE row == RowStart(s) + j
<1>1. /\ row \in Nat /\ RowStart(s) <= row /\ row < RowStart(s + 1) /\ RowStart(s) \in Nat
      /\ j \in Nat /\ l \in Nat
  BY RowIn
<1>2. RowStart(r) <= row /\ row < RowStart(r + 1)
  <2>1. RowStart(r) <= RowStart(r) + l /\ RowStart(r) + l < RowStart(r + 1)
    BY RowIn
  <2>2. row = RowStart(r) + l
    OBVIOUS
  <2> QED BY <2>1, <2>2, Zenon
<1> HIDE DEF row
<1>3. s = r
  BY <1>1, <1>2, RowOwner
<1> QED BY <1>1, <1>3

LEMMA RowHas ==
  ASSUME kv \in KvCalls, NEW row \in 0 .. TotalRows - 1
  PROVE  \E s \in DOMAIN kv.tables : RowStart(s) <= row /\ row < RowStart(s + 1)
<1> DEFINE k == Len(kv.tables)
           T == {n \in Nat : n <= k /\ row < RowStart(n + 1) =>
                               \E s \in 1 .. k : RowStart(s) <= row /\ row < RowStart(s + 1)}
<1>0. /\ k \in Nat /\ DOMAIN kv.tables = 1 .. k /\ RowStart(1) = 0 /\ TotalRows = RowStart(k + 1)
      /\ \A q \in 1 .. k + 1 : RowStart(q) \in Nat
  BY KvTables, RowStarts
<1> HIDE DEF k
<1>1. k + 1 \in 1 .. k + 1 /\ RowStart(k + 1) \in Nat
  BY <1>0
<1>2. row \in Nat /\ row < RowStart(k + 1)
  BY <1>0, <1>1
<1>3. 0 \in T
  <2>1. 0 + 1 = 1
    OBVIOUS
  <2> QED BY <1>0, <1>2, <2>1
<1>4. ASSUME NEW n \in Nat, n \in T PROVE n + 1 \in T
  <2> SUFFICES ASSUME n + 1 <= k, row < RowStart((n + 1) + 1)
               PROVE  \E s \in 1 .. k : RowStart(s) <= row /\ row < RowStart(s + 1)
    OBVIOUS
  <2>1. n + 1 \in 1 .. k /\ n + 1 \in 1 .. k + 1 /\ n <= k
    BY <1>0
  <2>2. CASE row < RowStart(n + 1)
    BY <1>4, <2>1, <2>2
  <2>3. CASE ~(row < RowStart(n + 1))
    <3>1. RowStart(n + 1) \in Nat
      BY <1>0, <2>1
    <3>2. RowStart(n + 1) <= row
      BY <1>2, <2>3, <3>1
    <3> QED BY <2>1, <3>2
  <2> QED BY <2>2, <2>3
<1> HIDE DEF T
<1>5. Nat \subseteq T
  BY <1>3, <1>4, NatInduct
<1>6. \E s \in 1 .. k : RowStart(s) <= row /\ row < RowStart(s + 1)
  <2>1. k \in T /\ k <= k
    BY <1>0, <1>5
  <2> QED BY <1>2, <2>1 DEF T
<1> QED BY <1>0, <1>6

-----------------------------------------------------------------------------
(* The quantised cache: a block of IndexDim values for every place of a    *)
(* page, then the scales of all of them.                                   *)
QuantBlocks == IndexDim \div QuantBlock
Group(r) == {e \in 0 .. IndexDim - 1 : e \div QuantBlock = r}

LEMMA IndexSizes ==
  /\ IndexDim \in Nat \ {0} /\ QuantBlock \in Nat \ {0} /\ QuantVec \in Nat \ {0} /\ QuantLanes \in Nat \ {0}
  /\ GatherVec \in Nat \ {0} /\ GatherLanes \in Nat \ {0}
  /\ QuantBlock = QuantLanes * QuantVec /\ QuantBlock = GatherLanes * GatherVec
  /\ QuantBlocks \in Nat \ {0} /\ IndexDim = QuantBlocks * QuantBlock
  /\ QuantBlock \div 4 \in Nat /\ QuantBlock = (QuantBlock \div 4) * 4
  /\ IndexStride \in Nat \ {0} /\ IndexStride = IndexDim + (QuantBlocks * 4)
<1>1. /\ IndexDim \in Nat \ {0} /\ QuantBlock \in Nat \ {0} /\ QuantVec \in Nat \ {0} /\ QuantLanes \in Nat \ {0}
      /\ GatherVec \in Nat \ {0} /\ GatherLanes \in Nat \ {0}
      /\ QuantBlock = QuantVec * QuantLanes /\ QuantBlock = GatherVec * GatherLanes
      /\ IndexDim % QuantBlock = 0 /\ QuantBlock % 4 = 0
  BY KvSizeAssumption
<1>2. QuantBlock = QuantLanes * QuantVec /\ QuantBlock = GatherLanes * GatherVec
  BY <1>1
<1>3. QuantBlocks \in Nat /\ IndexDim = (QuantBlocks * QuantBlock) + (IndexDim % QuantBlock)
  BY <1>1, DivMod DEF QuantBlocks
<1>4. IndexDim = QuantBlocks * QuantBlock
  BY <1>1, <1>3
<1>5. QuantBlocks # 0
  BY <1>1, <1>4
<1>6. QuantBlock \div 4 \in Nat /\ QuantBlock = ((QuantBlock \div 4) * 4) + (QuantBlock % 4)
  <2>1. 4 \in Nat \ {0} /\ QuantBlock \in Nat
    BY <1>1
  <2> QED BY <2>1, DivMod
<1>7. QuantBlock \div 4 \in Nat /\ QuantBlock = (QuantBlock \div 4) * 4
  BY <1>1, <1>6
<1>8. IndexStride = IndexDim + (QuantBlocks * 4)
  BY DEF IndexStride, QuantBlocks
<1>9. IndexStride \in Nat \ {0}
  BY <1>1, <1>3, <1>8
<1> QED BY <1>1, <1>2, <1>3, <1>4, <1>5, <1>7, <1>8, <1>9

(* Every element is in the group of its quantisation block. *)
LEMMA GroupOf ==
  ASSUME NEW i \in 0 .. IndexDim - 1
  PROVE  /\ i \div QuantBlock \in 0 .. QuantBlocks - 1 /\ i \in Group(i \div QuantBlock)
         /\ i \div QuantBlock \in Nat
<1>1. QuantBlock \in Nat \ {0} /\ QuantBlocks \in Nat /\ IndexDim = QuantBlocks * QuantBlock
  BY IndexSizes
<1>2. i \div QuantBlock \in 0 .. QuantBlocks - 1
  BY <1>1, QuotientBelow
<1>3. i \div QuantBlock \in Nat
  BY <1>1, <1>2
<1> QED BY <1>2, <1>3 DEF Group

(* The first value of a quantisation block. *)
LEMMA FirstOf ==
  ASSUME NEW r \in 0 .. QuantBlocks - 1
  PROVE  /\ r * QuantBlock \in 0 .. IndexDim - 1 /\ (r * QuantBlock) \div QuantBlock = r
         /\ r \in Nat /\ r * QuantBlock \in Nat
<1>1. QuantBlock \in Nat \ {0} /\ QuantBlocks \in Nat /\ IndexDim = QuantBlocks * QuantBlock
  BY IndexSizes
<1>2. r \in Nat /\ 0 \in 0 .. QuantBlock - 1
  BY <1>1
<1>3. r * QuantBlock + 0 \in 0 .. IndexDim - 1 /\ (r * QuantBlock + 0) \div QuantBlock = r
  BY <1>1, <1>2, TwoDigits, DivModUnique
<1>4. r * QuantBlock \in Nat /\ r * QuantBlock + 0 = r * QuantBlock
  BY <1>1, <1>2
<1> QED BY <1>2, <1>3, <1>4

IndexPage == PageSize * IndexStride
IndexValue(o, i) == o * IndexDim + i
IndexScale(o, r, b) == PageSize * IndexDim + (((o * QuantBlocks) + r) * 4 + b)

(* Values and scales stay in their page, and apart. *)
LEMMA IndexInPage ==
  ASSUME NEW o \in Spot, NEW i \in 0 .. IndexDim - 1, NEW r \in 0 .. QuantBlocks - 1, NEW b \in 0 .. 3
  PROVE  /\ IndexValue(o, i) \in 0 .. (PageSize * IndexDim) - 1 /\ IndexValue(o, i) \in 0 .. IndexPage - 1
         /\ IndexScale(o, r, b) \in (PageSize * IndexDim) .. IndexPage - 1 /\ IndexScale(o, r, b) \in 0 .. IndexPage - 1
<1>1. /\ PageSize \in Nat \ {0} /\ IndexDim \in Nat \ {0} /\ QuantBlocks \in Nat \ {0}
      /\ IndexStride = IndexDim + (QuantBlocks * 4) /\ o \in 0 .. PageSize - 1
  BY KvSizes, IndexSizes DEF Spot
<1> DEFINE v == PageSize * IndexDim
           w == (PageSize * QuantBlocks) * 4
           m == ((o * QuantBlocks) + r) * 4 + b
<1>2. o * IndexDim + i \in 0 .. v - 1
  BY <1>1, TwoDigits
<1>3. o * QuantBlocks + r \in 0 .. (PageSize * QuantBlocks) - 1
  BY <1>1, TwoDigits
<1>4. m \in 0 .. w - 1
  <2> DEFINE n == PageSize * QuantBlocks
             q == o * QuantBlocks + r
  <2>1. n \in Nat /\ q \in 0 .. n - 1
    BY <1>1, <1>3
  <2> HIDE DEF n, q
  <2>2. 4 \in Nat \ {0} /\ b \in 0 .. 4 - 1
    OBVIOUS
  <2>3. q * 4 + b \in 0 .. (n * 4) - 1
    BY <2>1, <2>2, TwoDigits
  <2> QED BY <2>3 DEF n, q
<1>5. IndexPage = v + w /\ v \in Nat /\ w \in Nat
  <2>1. PageSize * (IndexDim + (QuantBlocks * 4)) = (PageSize * IndexDim) + ((PageSize * QuantBlocks) * 4)
    BY <1>1
  <2> QED BY <1>1, <2>1 DEF IndexPage
<1>6. IndexValue(o, i) = o * IndexDim + i /\ IndexScale(o, r, b) = v + m
  BY DEF IndexValue, IndexScale
<1> HIDE DEF v, w, m
<1>7. IndexValue(o, i) \in 0 .. v - 1 /\ IndexValue(o, i) \in 0 .. IndexPage - 1
  BY <1>2, <1>5, <1>6
<1>8. IndexScale(o, r, b) \in v .. IndexPage - 1 /\ IndexScale(o, r, b) \in 0 .. IndexPage - 1
  BY <1>4, <1>5, <1>6
<1> QED BY <1>7, <1>8 DEF v

LEMMA IndexValuesApart ==
  ASSUME NEW o \in Spot, NEW i \in 0 .. IndexDim - 1, NEW u \in Spot, NEW k \in 0 .. IndexDim - 1,
         IndexValue(o, i) = IndexValue(u, k)
  PROVE  o = u /\ i = k
<1>1. IndexDim \in Nat \ {0} /\ o \in Nat /\ u \in Nat
  BY KvSizes, IndexSizes DEF Spot
<1>2. o * IndexDim + i = u * IndexDim + k
  BY DEF IndexValue
<1> QED BY <1>1, <1>2, SameDigits

LEMMA IndexScalesApart ==
  ASSUME NEW o \in Spot, NEW r \in 0 .. QuantBlocks - 1, NEW b \in 0 .. 3,
         NEW u \in Spot, NEW s \in 0 .. QuantBlocks - 1, NEW c \in 0 .. 3,
         IndexScale(o, r, b) = IndexScale(u, s, c)
  PROVE  o = u /\ r = s /\ b = c
<1>1. /\ PageSize \in Nat \ {0} /\ IndexDim \in Nat \ {0} /\ QuantBlocks \in Nat \ {0}
      /\ o \in Nat /\ u \in Nat /\ r \in Nat /\ s \in Nat
  BY KvSizes, IndexSizes DEF Spot
<1> DEFINE v == PageSize * IndexDim
           x == (o * QuantBlocks) + r
           y == (u * QuantBlocks) + s
<1>2. v \in Nat /\ x \in Nat /\ y \in Nat
  BY <1>1
<1>3. v + (x * 4 + b) = v + (y * 4 + c)
  BY DEF IndexScale
<1>4. x = y => o = u /\ r = s
  BY <1>1, SameDigits
<1> HIDE DEF v, x, y
<1>5. x * 4 + b = y * 4 + c
  BY <1>2, <1>3
<1>6. 4 \in Nat \ {0} /\ b \in 0 .. 4 - 1 /\ c \in 0 .. 4 - 1
  OBVIOUS
<1>7. x = y /\ b = c
  BY <1>2, <1>5, <1>6, SameDigits
<1> QED BY <1>4, <1>7

(* A scale's index is in floats, and its page and its values are whole     *)
(* floats.                                                                 *)
LEMMA ScaleWord ==
  ASSUME NEW p \in Page, NEW o \in Spot, NEW r \in 0 .. QuantBlocks - 1
  PROVE  LET word == (p * PageSize * IndexStride) + PageSize * IndexDim
                     + (((o * IndexDim + r * QuantBlock) * 4) \div QuantBlock)
         IN (word \div 4) * 4 = p * IndexPage + IndexScale(o, r, 0)
<1> DEFINE f == QuantBlock \div 4
           n == QuantBlocks
           q == QuantBlock
           w == (o * n) + r
<1>1. /\ PageSize \in Nat \ {0} /\ n \in Nat \ {0} /\ f \in Nat /\ IndexDim = n * q /\ q = f * 4
      /\ q \in Nat \ {0} /\ IndexStride = IndexDim + (n * 4) /\ p \in Nat /\ o \in Nat /\ r \in Nat
      /\ IndexDim \in Nat
  BY KvSizes, IndexSizes DEF Page, Spot
<1>0. PageSize * IndexDim \in Nat
  BY <1>1
<1> HIDE DEF f, n, q
<1>2. w \in Nat
  BY <1>1
<1>3. (o * IndexDim + r * q) * 4 = ((w * 4) * q) + 0
  BY <1>1
<1>4. ((o * IndexDim + r * q) * 4) \div q = w * 4
  <2>1. w * 4 \in Nat /\ 0 \in 0 .. q - 1
    BY <1>1, <1>2
  <2> HIDE DEF w
  <2>2. (((w * 4) * q) + 0) \div q = w * 4
    BY <1>1, <2>1, DivModUnique
  <2> QED BY <1>3, <2>2
<1> DEFINE k == ((p * PageSize) * ((n * f) + n) + PageSize * (n * f)) + w
           word == (p * PageSize * IndexStride) + PageSize * IndexDim + (w * 4)
<1>5. k \in Nat
  BY <1>1, <1>2
<1>6. word = (k * 4) + 0
  <2>1. IndexDim = (n * f) * 4
    BY <1>1
  <2>2. IndexStride = ((n * f) + n) * 4
    BY <1>1, <2>1
  <2>3. PageSize * IndexDim = (PageSize * (n * f)) * 4
    BY <1>1, <2>1
  <2>4. p * PageSize * IndexStride = ((p * PageSize) * ((n * f) + n)) * 4
    BY <1>1, <2>2
  <2> DEFINE a == (p * PageSize) * ((n * f) + n)
             c == PageSize * (n * f)
  <2>5. a \in Nat /\ c \in Nat
    BY <1>1
  <2>6. word = (a * 4) + (c * 4) + (w * 4) /\ k = (a + c) + w
    BY <2>3, <2>4
  <2> HIDE DEF a, c, w, word, k
  <2> QED BY <1>2, <2>5, <2>6
<1>7. (word \div 4) * 4 = word
  <2>1. 4 \in Nat \ {0} /\ 0 \in 0 .. 4 - 1
    OBVIOUS
  <2> HIDE DEF k, word
  <2>2. ((k * 4) + 0) \div 4 = k
    BY <1>5, <2>1, DivModUnique
  <2> QED BY <1>5, <1>6, <2>2
<1>8. word = p * IndexPage + IndexScale(o, r, 0)
  <2>1. p * PageSize * IndexStride = p * IndexPage /\ p * IndexPage \in Nat
    <3>1. IndexStride \in Nat
      BY <1>1
    <3> QED BY <1>1, <3>1 DEF IndexPage
  <2>2. IndexScale(o, r, 0) = PageSize * IndexDim + (w * 4 + 0)
    BY DEF IndexScale, n
  <2> HIDE DEF w
  <2> QED BY <1>0, <1>2, <2>1, <2>2
<1> QED BY <1>4, <1>7, <1>8 DEF q

-----------------------------------------------------------------------------
(* What a writer without heads stores of a token. *)
Whole == kv.layout \in {"mla", "indexer"}
PageWords == IF kv.layout = "mla" THEN PageSize * RowWidth ELSE IndexPage
LatentAt(o, i) == o * RowWidth + i
LatentOf(t, i) == IF i < Rank THEN Of(t, "latent", i, Scaled, {}) ELSE Of(t, "rotated", i - Rank, Scaled, {})
ValueOf(t, i) == Of(t, "index", i, "over", Group(i \div QuantBlock))
ScaleOf(t, r, b) == Of(t, "scale", b, "copied", Group(r))

LaidLatent(t) == {<<<<"k", PageOf(t) * PageWords + LatentAt(SpotOf(t), i)>>, LatentOf(t, i)>> : i \in 0 .. RowWidth - 1}
LaidValues(t) == {<<<<"k", PageOf(t) * IndexPage + IndexValue(SpotOf(t), i)>>, ValueOf(t, i)>> : i \in 0 .. IndexDim - 1}
LaidScales(t) ==
  {<<<<"k", PageOf(t) * IndexPage + IndexScale(SpotOf(t), r, b)>>, ScaleOf(t, r, b)>> :
     r \in 0 .. QuantBlocks - 1, b \in 0 .. 3}
Laid(t) == IF kv.layout = "mla" THEN LaidLatent(t) ELSE LaidValues(t) \cup LaidScales(t)
WholeStores(t) == IF kv.layout = "mla" THEN MlaStores(t) ELSE IndexerStores(t)

LEMMA WholeSizes ==
  /\ Rank \in Nat \ {0} /\ PeDim \in Nat \ {0} /\ IndexPage \in Nat \ {0}
  /\ kv.layout = "mla" => /\ RowWidth = Rank + PeDim /\ RowWidth \in Nat \ {0} /\ PageWords = PageSize * RowWidth
                          /\ CacheSize = NumPages * PageWords
  /\ kv.layout = "indexer" => /\ RowWidth = IndexDim + QuantBlocks /\ RowWidth \in Nat \ {0} /\ PageWords = IndexPage
                              /\ CacheSize = NumPages * PageWords
  /\ Whole => PageWords \in Nat \ {0}
<1>1. Rank \in Nat \ {0} /\ PeDim \in Nat \ {0} /\ PageSize \in Nat \ {0} /\ NumPages \in Nat \ {0}
  BY KvSizeAssumption
<1>2. IndexDim \in Nat \ {0} /\ QuantBlocks \in Nat \ {0} /\ IndexStride \in Nat \ {0}
  BY IndexSizes
<1>3. IndexPage \in Nat \ {0}
  BY <1>1, <1>2 DEF IndexPage
<1>4. ASSUME kv.layout = "mla"
      PROVE  /\ RowWidth = Rank + PeDim /\ RowWidth \in Nat \ {0} /\ PageWords = PageSize * RowWidth
             /\ CacheSize = NumPages * PageWords /\ PageWords \in Nat \ {0}
  <2>1. RowWidth = Rank + PeDim
    BY <1>4 DEF RowWidth
  <2>2. RowWidth \in Nat \ {0}
    BY <1>1, <2>1
  <2>3. PageWords = PageSize * RowWidth
    BY <1>4 DEF PageWords
  <2>4. CacheSize = NumPages * PageSize * RowWidth
    BY <1>4 DEF CacheSize
  <2>5. NumPages * PageSize * RowWidth = NumPages * (PageSize * RowWidth) /\ PageSize * RowWidth \in Nat \ {0}
    BY <1>1, <2>2
  <2> QED BY <2>1, <2>2, <2>3, <2>4, <2>5
<1>5. ASSUME kv.layout = "indexer"
      PROVE  /\ RowWidth = IndexDim + QuantBlocks /\ RowWidth \in Nat \ {0} /\ PageWords = IndexPage
             /\ CacheSize = NumPages * PageWords
  <2>1. RowWidth = IndexDim + QuantBlocks
    BY <1>5 DEF RowWidth, QuantBlocks
  <2>2. RowWidth \in Nat \ {0}
    BY <1>2, <2>1
  <2>3. PageWords = IndexPage
    BY <1>5 DEF PageWords
  <2>4. CacheSize = NumPages * PageSize * IndexStride
    BY <1>5 DEF CacheSize
  <2>5. NumPages * PageSize * IndexStride = NumPages * (PageSize * IndexStride)
    BY <1>1, <1>2
  <2> QED BY <2>1, <2>2, <2>3, <2>4, <2>5 DEF IndexPage
<1> QED BY <1>1, <1>3, <1>4, <1>5 DEF Whole

LEMMA LatentInPage ==
  ASSUME kv.layout = "mla", NEW o \in Spot, NEW i \in 0 .. RowWidth - 1
  PROVE  LatentAt(o, i) \in 0 .. PageWords - 1
<1>1. PageSize \in Nat /\ RowWidth \in Nat \ {0} /\ PageWords = PageSize * RowWidth /\ o \in 0 .. PageSize - 1
  BY KvSizes, WholeSizes DEF Spot
<1> QED BY <1>1, TwoDigits DEF LatentAt

LEMMA MlaStoresAre ==
  ASSUME kv \in KvCalls, kv.layout = "mla", NEW t \in Fresh
  PROVE  MlaStores(t) = LaidLatent(t)
<1> DEFINE p == PageOf(t)
           o == SpotOf(t)
           W == RowWidth
           base == p * PageSize * W + o * W
           A == {<<<<"k", base + i>>, Of(t, "latent", i, Scaled, {})>> : i \in 0 .. Rank - 1}
           B == {<<<<"k", base + i + Rank>>, Of(t, "rotated", i, Scaled, {})>> : i \in 0 .. PeDim - 1}
<1>1. /\ p \in Nat /\ o \in Nat /\ SlotOf(t) \div PageSize = p /\ SlotOf(t) % PageSize = o
      /\ PageSize \in Nat \ {0} /\ Rank \in Nat \ {0} /\ PeDim \in Nat \ {0}
      /\ W \in Nat \ {0} /\ W = Rank + PeDim /\ PageWords = PageSize * W
  BY FreshToken, FreshSlot, KvSizes, WholeSizes DEF Page, Spot
<1>2. Elements(Rank) = 0 .. Rank - 1 /\ Elements(PeDim) = 0 .. PeDim - 1
  BY <1>1, ElementsAll
<1>3. MlaStores(t) = A \cup B
  <2> HIDE DEF p, o, W
  <2> QED BY <1>1, <1>2 DEF MlaStores, W
<1>4. \A i \in Nat : base + i = p * PageWords + LatentAt(o, i)
  <2>1. p * PageSize * W = p * (PageSize * W) /\ p * PageSize * W \in Nat /\ o * W \in Nat
    BY <1>1
  <2>2. \A i : LatentAt(o, i) = o * W + i
    BY DEF LatentAt
  <2> HIDE DEF W
  <2>3. p * PageWords = p * (PageSize * W)
    BY <1>1
  <2> DEFINE a == p * PageSize * W
             b == o * W
  <2>4. a \in Nat /\ b \in Nat /\ base = a + b /\ p * PageWords = a /\ \A i : LatentAt(o, i) = b + i
    BY <2>1, <2>2, <2>3
  <2> HIDE DEF a, b, base
  <2> QED BY <2>4
<1>5. \A i \in Nat : base + i + Rank = base + (i + Rank)
  <2>1. base \in Nat
    BY <1>1
  <2> HIDE DEF base
  <2> QED BY <1>1, <2>1
<1> DEFINE place(i) == <<"k", p * PageWords + LatentAt(o, i)>>
<1>6. \A i \in 0 .. Rank - 1 : /\ <<"k", base + i>> = place(i) /\ i \in 0 .. W - 1
                               /\ Of(t, "latent", i, Scaled, {}) = LatentOf(t, i)
  <2> SUFFICES ASSUME NEW i \in 0 .. Rank - 1
               PROVE  /\ <<"k", base + i>> = place(i) /\ i \in 0 .. W - 1
                      /\ Of(t, "latent", i, Scaled, {}) = LatentOf(t, i)
    OBVIOUS
  <2>1. i \in Nat /\ i < Rank /\ i \in 0 .. W - 1
    <3> HIDE DEF W
    <3> QED BY <1>1
  <2>2. base + i = p * PageWords + LatentAt(o, i)
    BY <1>4, <2>1
  <2>3. Of(t, "latent", i, Scaled, {}) = LatentOf(t, i)
    BY <2>1 DEF LatentOf
  <2> QED BY <2>1, <2>2, <2>3, Zenon
<1>7. \A i \in 0 .. PeDim - 1 : /\ <<"k", base + i + Rank>> = place(i + Rank) /\ i + Rank \in 0 .. W - 1
                                /\ Of(t, "rotated", i, Scaled, {}) = LatentOf(t, i + Rank)
  <2> SUFFICES ASSUME NEW i \in 0 .. PeDim - 1
               PROVE  /\ <<"k", base + i + Rank>> = place(i + Rank) /\ i + Rank \in 0 .. W - 1
                      /\ Of(t, "rotated", i, Scaled, {}) = LatentOf(t, i + Rank)
    OBVIOUS
  <2>1. /\ i \in Nat /\ i + Rank \in Nat /\ ~(i + Rank < Rank) /\ i + Rank \in 0 .. W - 1
        /\ (i + Rank) - Rank = i
    <3> HIDE DEF W
    <3> QED BY <1>1
  <2>2. base + i + Rank = p * PageWords + LatentAt(o, i + Rank)
    BY <1>4, <1>5, <2>1, Zenon
  <2>3. Of(t, "rotated", i, Scaled, {}) = LatentOf(t, i + Rank)
    BY <2>1, Zenon DEF LatentOf
  <2> QED BY <2>1, <2>2, <2>3, Zenon
<1>8. \A i \in 0 .. W - 1 : i \in 0 .. Rank - 1 \/ \E k \in 0 .. PeDim - 1 : i = k + Rank
  <2> SUFFICES ASSUME NEW i \in 0 .. W - 1, i \notin 0 .. Rank - 1 PROVE \E k \in 0 .. PeDim - 1 : i = k + Rank
    OBVIOUS
  <2> HIDE DEF W
  <2>1. i - Rank \in 0 .. PeDim - 1 /\ i = (i - Rank) + Rank
    BY <1>1
  <2> QED BY <2>1
<1>9. LaidLatent(t) = {<<place(i), LatentOf(t, i)>> : i \in 0 .. W - 1}
  BY DEF LaidLatent
<1> HIDE DEF place, base, W
<1>10. ASSUME NEW x \in A \cup B PROVE x \in LaidLatent(t)
  <2>1. CASE x \in A
    <3>1. PICK i \in 0 .. Rank - 1 : x = <<<<"k", base + i>>, Of(t, "latent", i, Scaled, {})>>
      BY <2>1
    <3> HIDE DEF A, B
    <3> QED BY <1>6, <1>9, <3>1
  <2>2. CASE x \in B
    <3>1. PICK i \in 0 .. PeDim - 1 : x = <<<<"k", base + i + Rank>>, Of(t, "rotated", i, Scaled, {})>>
      BY <2>2
    <3> HIDE DEF A, B
    <3> QED BY <1>7, <1>9, <3>1
  <2> QED BY <2>1, <2>2
<1>11. ASSUME NEW x \in LaidLatent(t) PROVE x \in A \cup B
  <2>1. PICK i \in 0 .. W - 1 : x = <<place(i), LatentOf(t, i)>>
    BY <1>9
  <2>2. CASE i \in 0 .. Rank - 1
    <3>1. x = <<<<"k", base + i>>, Of(t, "latent", i, Scaled, {})>>
      BY <1>6, <2>1, <2>2, Zenon
    <3> QED BY <2>2, <3>1
  <2>3. CASE i \notin 0 .. Rank - 1
    <3>1. PICK k \in 0 .. PeDim - 1 : i = k + Rank
      BY <1>8, <2>3
    <3>2. x = <<<<"k", base + k + Rank>>, Of(t, "rotated", k, Scaled, {})>>
      BY <1>7, <2>1, <3>1, Zenon
    <3> QED BY <3>2
  <2> QED BY <2>2, <2>3
<1> HIDE DEF A, B
<1> QED BY <1>3, <1>10, <1>11

(* A sub-group's elements are a quantisation block, and the sub-groups'    *)
(* rows are the blocks.                                                    *)
LEMMA QuantRows ==
  /\ {x \in 0 .. IndexDim : (x * QuantLanes + 0) * QuantVec < IndexDim} = 0 .. QuantBlocks - 1
  /\ \A x \in 0 .. QuantBlocks - 1 :
       /\ (x * QuantLanes + 0) * QuantVec = x * QuantBlock
       /\ {(x * QuantLanes + y) * QuantVec + e : y \in 0 .. QuantLanes - 1, e \in 0 .. QuantVec - 1} = Group(x)
<1>1. /\ IndexDim \in Nat \ {0} /\ QuantVec \in Nat \ {0} /\ QuantLanes \in Nat \ {0} /\ QuantBlock \in Nat \ {0}
      /\ QuantBlock = QuantLanes * QuantVec /\ QuantBlocks \in Nat \ {0} /\ IndexDim = QuantBlocks * QuantBlock
  BY IndexSizes
<1>2. \A x \in Nat : (x * QuantLanes + 0) * QuantVec = x * QuantBlock
  BY <1>1
<1>3. ASSUME NEW x \in Nat
      PROVE  (x \in 0 .. IndexDim /\ x * QuantBlock < IndexDim) <=> x \in 0 .. QuantBlocks - 1
  <2>1. ASSUME x \in 0 .. QuantBlocks - 1 PROVE x \in 0 .. IndexDim /\ x * QuantBlock < IndexDim
    <3>1. x * QuantBlock \in 0 .. IndexDim - 1 /\ x * QuantBlock \in Nat
      BY <2>1, FirstOf
    <3>2. x <= x * QuantBlock
      BY <1>1
    <3> DEFINE w == x * QuantBlock
    <3>3. w \in 0 .. IndexDim - 1 /\ w \in Nat /\ x <= w
      BY <3>1, <3>2
    <3> HIDE DEF w
    <3>4. x \in 0 .. IndexDim /\ w < IndexDim
      BY <1>1, <3>3
    <3> QED BY <3>4 DEF w
  <2>2. ASSUME x * QuantBlock < IndexDim PROVE x \in 0 .. QuantBlocks - 1
    <3>1. ASSUME x >= QuantBlocks PROVE FALSE
      <4>1. PICK d \in Nat : x = QuantBlocks + d
        BY <1>1, <3>1, x - QuantBlocks \in Nat
      <4>2. x * QuantBlock = (QuantBlocks * QuantBlock) + (d * QuantBlock) /\ d * QuantBlock \in Nat
        BY <1>1, <4>1
      <4>3. x * QuantBlock = IndexDim + (d * QuantBlock)
        BY <1>1, <4>2
      <4> DEFINE w == d * QuantBlock
      <4>4. x * QuantBlock = IndexDim + w /\ w \in Nat
        BY <4>2, <4>3
      <4> HIDE DEF w
      <4> QED BY <1>1, <2>2, <4>4
    <3> QED BY <1>1, <3>1
  <2> QED BY <2>1, <2>2
<1>4. {x \in 0 .. IndexDim : (x * QuantLanes + 0) * QuantVec < IndexDim} = 0 .. QuantBlocks - 1
  <2> DEFINE R == {x \in 0 .. IndexDim : (x * QuantLanes + 0) * QuantVec < IndexDim}
  <2>1. \A x : x \in R => x \in Nat
    BY <1>1
  <2>2. \A x : x \in 0 .. QuantBlocks - 1 => x \in Nat
    BY <1>1
  <2>3. \A x \in Nat : x \in R <=> (x \in 0 .. IndexDim /\ x * QuantBlock < IndexDim)
    BY <1>2
  <2> HIDE DEF R
  <2>4. \A x : x \in R <=> x \in 0 .. QuantBlocks - 1
    BY <1>3, <2>1, <2>2, <2>3
  <2>5. R = 0 .. QuantBlocks - 1
    BY <2>4
  <2> QED BY <2>5 DEF R
<1>5. ASSUME NEW x \in 0 .. QuantBlocks - 1
      PROVE  {(x * QuantLanes + y) * QuantVec + e : y \in 0 .. QuantLanes - 1, e \in 0 .. QuantVec - 1} = Group(x)
  <2>1. DigitSums(QuantLanes, QuantVec, x) = DigitRow(QuantLanes, QuantVec, QuantBlocks, x)
    <3>1. QuantBlocks \in Nat
      BY <1>1
    <3> QED BY <1>1, <3>1, DigitsOfRow
  <2>2. QuantBlocks * (QuantLanes * QuantVec) = IndexDim /\ QuantLanes * QuantVec = QuantBlock
    BY <1>1
  <2>3. DigitRow(QuantLanes, QuantVec, QuantBlocks, x) = Group(x)
    BY <2>2, Zenon DEF DigitRow, Group
  <2> QED BY <2>1, <2>3 DEF DigitSums
<1> QED BY <1>2, <1>4, <1>5

LEMMA IndexerStoresAre ==
  ASSUME kv \in KvCalls, kv.layout = "indexer", NEW t \in Fresh
  PROVE  IndexerStores(t) = LaidValues(t) \cup LaidScales(t)
<1> DEFINE p == PageOf(t)
           o == SpotOf(t)
           start == p * PageSize * IndexStride
           word(x) == (start + PageSize * IndexDim + ((o * IndexDim + x * QuantBlock) * 4) \div QuantBlock) \div 4
           V(x) == {<<<<"k", start + o * IndexDim + i>>, Of(t, "index", i, "over", Group(x))>> : i \in Group(x)}
           C(x) == {<<<<"k", word(x) * 4 + b>>, Of(t, "scale", b, "copied", Group(x))>> : b \in 0 .. 3}
           B == 0 .. QuantBlocks - 1
<1>1. /\ p \in Page /\ o \in Spot /\ SlotOf(t) \div PageSize = p /\ SlotOf(t) % PageSize = o
  BY FreshToken, FreshSlot
<1>2. IndexerStores(t) = UNION {V(x) \cup C(x) : x \in B}
  <2> DEFINE first(x, y) == (x * QuantLanes + y) * QuantVec
             rows == {x \in 0 .. IndexDim : first(x, 0) < IndexDim}
             group(x) == {first(x, y) + e : y \in 0 .. QuantLanes - 1, e \in 0 .. QuantVec - 1}
             scaleAt(x) == (start + PageSize * IndexDim + ((o * IndexDim + first(x, 0)) * 4) \div QuantBlock) \div 4
             T(x) == {<<<<"k", start + o * IndexDim + i>>, Of(t, "index", i, "over", group(x))>> : i \in group(x)}
                     \cup {<<<<"k", scaleAt(x) * 4 + b>>, Of(t, "scale", b, "copied", group(x))>> : b \in 0 .. 3}
  <2>1. IndexerStores(t) = UNION {T(x) : x \in rows}
    <3> DEFINE at == (SlotOf(t) \div PageSize) * PageSize * IndexStride
               offset == SlotOf(t) % PageSize
    <3>1. IndexerStores(t) =
            UNION {{<<<<"k", at + offset * IndexDim + i>>, Of(t, "index", i, "over", group(x))>> : i \in group(x)}
                   \cup {<<<<"k", ((at + PageSize * IndexDim + ((offset * IndexDim + first(x, 0)) * 4) \div QuantBlock) \div 4) * 4 + b>>,
                           Of(t, "scale", b, "copied", group(x))>> : b \in 0 .. 3}
                   : x \in rows}
      BY DEF IndexerStores
    <3>2. at = start /\ offset = o
      BY <1>1, Zenon
    <3> HIDE DEF at, offset, start, o
    <3> QED BY <3>1, <3>2
  <2>2. rows = B
    BY QuantRows
  <2>3. \A x \in B : first(x, 0) = x * QuantBlock /\ group(x) = Group(x)
    BY QuantRows
  <2> HIDE DEF first, group, rows, B
  <2>4. \A x \in B : scaleAt(x) = word(x)
    BY <2>3
  <2> HIDE DEF scaleAt, word
  <2>5. \A x \in B : T(x) = V(x) \cup C(x)
    BY <2>3, <2>4
  <2> HIDE DEF T, V, C
  <2> QED BY <2>1, <2>2, <2>5
<1>3. \A x \in B : word(x) * 4 = p * IndexPage + IndexScale(o, x, 0)
  <2> SUFFICES ASSUME NEW x \in B PROVE word(x) * 4 = p * IndexPage + IndexScale(o, x, 0)
    OBVIOUS
  <2> HIDE DEF p, o
  <2> QED BY <1>1, ScaleWord, Zenon
<1> HIDE DEF word
<1>4. \A x \in B, b \in 0 .. 3 : word(x) * 4 + b = p * IndexPage + IndexScale(o, x, b)
  <2> SUFFICES ASSUME NEW x \in B, NEW b \in 0 .. 3 PROVE word(x) * 4 + b = p * IndexPage + IndexScale(o, x, b)
    OBVIOUS
  <2> DEFINE w == PageSize * IndexDim
             k == ((o * QuantBlocks) + x) * 4
             a == p * IndexPage
  <2>1. w \in Nat /\ k \in Nat /\ a \in Nat
    <3>1. /\ IndexDim \in Nat /\ PageSize \in Nat /\ QuantBlocks \in Nat /\ IndexPage \in Nat
          /\ o \in Nat /\ x \in Nat /\ p \in Nat
      BY <1>1, IndexSizes, KvSizes, WholeSizes DEF Page, Spot
    <3> HIDE DEF p, o
    <3> QED BY <3>1
  <2>2. IndexScale(o, x, b) = w + (k + b) /\ IndexScale(o, x, 0) = w + (k + 0)
    BY DEF IndexScale
  <2> HIDE DEF w, k, a, B
  <2>3. word(x) * 4 = a + (w + (k + 0))
    BY <1>3, <2>2 DEF a
  <2>4. word(x) * 4 + b = a + (w + (k + b))
    BY <2>1, <2>3
  <2> QED BY <2>2, <2>4 DEF a
<1>5. \A i \in 0 .. IndexDim - 1 : start + o * IndexDim + i = p * IndexPage + IndexValue(o, i)
  <2> SUFFICES ASSUME NEW i \in 0 .. IndexDim - 1 PROVE start + o * IndexDim + i = p * IndexPage + IndexValue(o, i)
    OBVIOUS
  <2>1. IndexDim \in Nat /\ PageSize \in Nat /\ IndexStride \in Nat /\ p \in Nat /\ o \in Nat
    BY <1>1, IndexSizes, KvSizes DEF Page, Spot
  <2> HIDE DEF p, o
  <2>2. p * PageSize * IndexStride = p * (PageSize * IndexStride) /\ p * PageSize * IndexStride \in Nat
        /\ o * IndexDim \in Nat
    BY <2>1
  <2>3. p * PageSize * IndexStride = p * IndexPage
    BY <2>2, Zenon DEF IndexPage
  <2> DEFINE a == p * PageSize * IndexStride
             c == o * IndexDim
  <2>4. a \in Nat /\ c \in Nat /\ i \in Nat
    BY <2>1, <2>2
  <2> HIDE DEF a, c
  <2>5. a + c + i = a + (c + i)
    BY <2>4
  <2> QED BY <2>3, <2>5, Zenon DEF a, c, IndexValue
<1>6. \A x \in B : \A i \in Group(x) : i \in 0 .. IndexDim - 1 /\ i \div QuantBlock = x
  BY DEF Group
<1>7. \A i \in 0 .. IndexDim - 1 : i \div QuantBlock \in B /\ i \in Group(i \div QuantBlock)
  BY GroupOf
<1> HIDE DEF p, o, start, B
<1>8. ASSUME NEW s, NEW x \in B, s \in V(x) \cup C(x) PROVE s \in LaidValues(t) \cup LaidScales(t)
  <2>1. CASE s \in V(x)
    <3>1. PICK i \in Group(x) : s = <<<<"k", start + o * IndexDim + i>>, Of(t, "index", i, "over", Group(x))>>
      BY <2>1
    <3>2. s = <<<<"k", p * IndexPage + IndexValue(o, i)>>, ValueOf(t, i)>>
      BY <1>5, <1>6, <3>1, Zenon DEF ValueOf
    <3> QED BY <1>6, <3>2 DEF LaidValues, p, o
  <2>2. CASE s \in C(x)
    <3>1. PICK b \in 0 .. 3 : s = <<<<"k", word(x) * 4 + b>>, Of(t, "scale", b, "copied", Group(x))>>
      BY <2>2
    <3>2. s = <<<<"k", p * IndexPage + IndexScale(o, x, b)>>, ScaleOf(t, x, b)>>
      BY <1>4, <3>1, Zenon DEF ScaleOf
    <3> QED BY <3>2 DEF LaidScales, p, o, B
  <2> QED BY <1>8, <2>1, <2>2
<1>9. ASSUME NEW s \in LaidValues(t) \cup LaidScales(t) PROVE \E x \in B : s \in V(x) \cup C(x)
  <2>1. CASE s \in LaidValues(t)
    <3>1. PICK i \in 0 .. IndexDim - 1 : s = <<<<"k", p * IndexPage + IndexValue(o, i)>>, ValueOf(t, i)>>
      BY <2>1 DEF LaidValues, p, o
    <3> DEFINE x == i \div QuantBlock
    <3>2. x \in B /\ i \in Group(x)
      BY <1>7
    <3>3. s = <<<<"k", start + o * IndexDim + i>>, Of(t, "index", i, "over", Group(x))>>
      BY <1>5, <3>1, Zenon DEF ValueOf
    <3> HIDE DEF x
    <3>4. s \in V(x)
      BY <3>2, <3>3
    <3> QED BY <3>2, <3>4
  <2>2. CASE s \in LaidScales(t)
    <3>1. PICK x \in B, b \in 0 .. 3 : s = <<<<"k", p * IndexPage + IndexScale(o, x, b)>>, ScaleOf(t, x, b)>>
      BY <2>2 DEF LaidScales, p, o, B
    <3>2. s = <<<<"k", word(x) * 4 + b>>, Of(t, "scale", b, "copied", Group(x))>>
      BY <1>4, <3>1, Zenon DEF ScaleOf
    <3>3. s \in C(x)
      BY <3>2
    <3> QED BY <3>3
  <2> QED BY <2>1, <2>2
<1> HIDE DEF V, C
<1> QED BY <1>2, <1>8, <1>9

-----------------------------------------------------------------------------
(* No two tokens share a place, and a token's stores are one to a place. *)
LEMMA LaidIn ==
  ASSUME kv \in KvCalls, Whole, NEW t \in Fresh, NEW x \in Laid(t)
  PROVE  \E m \in 0 .. PageWords - 1 :
           /\ x[1] = <<"k", PageOf(t) * PageWords + m>>
           /\ kv.layout = "mla" => \E i \in 0 .. RowWidth - 1 : m = LatentAt(SpotOf(t), i) /\ x[2] = LatentOf(t, i)
           /\ kv.layout # "mla" =>
                \/ \E i \in 0 .. IndexDim - 1 : m = IndexValue(SpotOf(t), i) /\ x[2] = ValueOf(t, i)
                \/ \E r \in 0 .. QuantBlocks - 1, b \in 0 .. 3 : m = IndexScale(SpotOf(t), r, b) /\ x[2] = ScaleOf(t, r, b)
<1> DEFINE p == PageOf(t)
           o == SpotOf(t)
<1>1. o \in Spot
  BY FreshToken
<1>2. CASE kv.layout = "mla"
  <2>1. PICK i \in 0 .. RowWidth - 1 : x = <<<<"k", p * PageWords + LatentAt(o, i)>>, LatentOf(t, i)>>
    BY <1>2 DEF Laid, LaidLatent
  <2>2. LatentAt(o, i) \in 0 .. PageWords - 1
    BY <1>1, <1>2, LatentInPage
  <2>3. x[1] = <<"k", p * PageWords + LatentAt(o, i)>> /\ x[2] = LatentOf(t, i)
    BY <2>1
  <2> HIDE DEF p, o
  <2>4. \E m \in 0 .. PageWords - 1 : /\ x[1] = <<"k", p * PageWords + m>>
                                      /\ \E k \in 0 .. RowWidth - 1 : m = LatentAt(o, k) /\ x[2] = LatentOf(t, k)
    BY <2>2, <2>3, Zenon
  <2> QED BY <1>2, <2>4, Zenon DEF p, o
<1>3. CASE kv.layout # "mla"
  <2>0. PageWords = IndexPage
    BY <1>3 DEF PageWords
  <2>1. x \in LaidValues(t) \/ x \in LaidScales(t)
    BY <1>3 DEF Laid
  <2>2. CASE x \in LaidValues(t)
    <3>1. PICK i \in 0 .. IndexDim - 1 : x = <<<<"k", p * IndexPage + IndexValue(o, i)>>, ValueOf(t, i)>>
      BY <2>2 DEF LaidValues
    <3>2. IndexValue(o, i) \in 0 .. IndexPage - 1
      <4>1. 0 \in 0 .. QuantBlocks - 1 /\ 0 \in 0 .. 3
        BY IndexSizes
      <4> QED BY <1>1, <4>1, IndexInPage
    <3>3. x[1] = <<"k", p * IndexPage + IndexValue(o, i)>> /\ x[2] = ValueOf(t, i)
      BY <3>1
    <3> HIDE DEF p, o
    <3>4. \E m \in 0 .. PageWords - 1 : /\ x[1] = <<"k", p * PageWords + m>>
                                        /\ \E k \in 0 .. IndexDim - 1 : m = IndexValue(o, k) /\ x[2] = ValueOf(t, k)
      BY <2>0, <3>2, <3>3, Zenon
    <3> QED BY <1>3, <3>4, Zenon DEF p, o
  <2>3. CASE x \in LaidScales(t)
    <3>1. PICK r \in 0 .. QuantBlocks - 1, b \in 0 .. 3 :
            x = <<<<"k", p * IndexPage + IndexScale(o, r, b)>>, ScaleOf(t, r, b)>>
      BY <2>3 DEF LaidScales
    <3>2. IndexScale(o, r, b) \in 0 .. IndexPage - 1
      <4>1. 0 \in 0 .. IndexDim - 1
        BY IndexSizes
      <4> QED BY <1>1, <4>1, IndexInPage
    <3>3. x[1] = <<"k", p * IndexPage + IndexScale(o, r, b)>> /\ x[2] = ScaleOf(t, r, b)
      BY <3>1
    <3> HIDE DEF p, o
    <3>4. \E m \in 0 .. PageWords - 1 :
            /\ x[1] = <<"k", p * PageWords + m>>
            /\ \E s \in 0 .. QuantBlocks - 1, c \in 0 .. 3 : m = IndexScale(o, s, c) /\ x[2] = ScaleOf(t, s, c)
      BY <2>0, <3>2, <3>3, Zenon
    <3> QED BY <1>3, <3>4, Zenon DEF p, o
  <2> QED BY <2>1, <2>2, <2>3
<1> QED BY <1>2, <1>3

LEMMA LaidInside ==
  ASSUME kv \in KvCalls, Whole, NEW t \in Fresh, NEW x \in Laid(t)
  PROVE  x[1] \in {"k", "v"} \X (0 .. CacheSize - 1)
<1> DEFINE p == PageOf(t)
           w == PageWords
<1>1. PICK m \in 0 .. w - 1 : x[1] = <<"k", p * w + m>>
  BY LaidIn
<1>2. w \in Nat \ {0} /\ NumPages \in Nat /\ p \in 0 .. NumPages - 1 /\ CacheSize = NumPages * w
  BY FreshToken, KvSizes, WholeSizes DEF Page, Whole
<1> HIDE DEF p, w
<1>3. p * w + m \in 0 .. (NumPages * w) - 1
  BY <1>2, TwoDigits
<1> DEFINE a == p * w + m
<1>4. a \in 0 .. CacheSize - 1 /\ x[1] = <<"k", a>>
  BY <1>1, <1>2, <1>3
<1> HIDE DEF a
<1> QED BY <1>4

LEMMA LaidApart ==
  ASSUME kv \in KvCalls, Whole, NEW t \in Fresh, NEW x \in Laid(t), NEW u \in Fresh, NEW y \in Laid(u),
         x[1] = y[1]
  PROVE  t = u /\ x[2] = y[2]
<1> DEFINE p == PageOf(t)
           o == SpotOf(t)
           q == PageOf(u)
           e == SpotOf(u)
           w == PageWords
<1>1. p \in Nat /\ q \in Nat /\ o \in Spot /\ e \in Spot /\ w \in Nat \ {0} /\ (p = q /\ o = e => t = u)
  BY FreshToken, FreshApart, WholeSizes DEF Page
<1>2. PICK m \in 0 .. w - 1 :
           /\ x[1] = <<"k", p * w + m>>
           /\ kv.layout = "mla" => \E i \in 0 .. RowWidth - 1 : m = LatentAt(o, i) /\ x[2] = LatentOf(t, i)
           /\ kv.layout # "mla" =>
                \/ \E i \in 0 .. IndexDim - 1 : m = IndexValue(o, i) /\ x[2] = ValueOf(t, i)
                \/ \E r \in 0 .. QuantBlocks - 1, b \in 0 .. 3 : m = IndexScale(o, r, b) /\ x[2] = ScaleOf(t, r, b)
  BY LaidIn
<1>3. PICK n \in 0 .. w - 1 :
           /\ y[1] = <<"k", q * w + n>>
           /\ kv.layout = "mla" => \E i \in 0 .. RowWidth - 1 : n = LatentAt(e, i) /\ y[2] = LatentOf(u, i)
           /\ kv.layout # "mla" =>
                \/ \E i \in 0 .. IndexDim - 1 : n = IndexValue(e, i) /\ y[2] = ValueOf(u, i)
                \/ \E r \in 0 .. QuantBlocks - 1, b \in 0 .. 3 : n = IndexScale(e, r, b) /\ y[2] = ScaleOf(u, r, b)
  BY LaidIn
<1> HIDE DEF p, q, o, e, w
<1>4. p = q /\ m = n
  <2>1. p * w + m = q * w + n
    <3> DEFINE a == p * w + m
               b == q * w + n
    <3>1. x[1] = <<"k", a>> /\ y[1] = <<"k", b>>
      BY <1>2, <1>3
    <3> HIDE DEF a, b
    <3>2. <<"k", a>> = <<"k", b>>
      BY <3>1, Zenon
    <3>3. a = b
      BY <3>2
    <3> QED BY <3>3 DEF a, b
  <2> QED BY <1>1, <2>1, SameDigits
<1>5. CASE kv.layout = "mla"
  <2>1. PICK i \in 0 .. RowWidth - 1 : m = LatentAt(o, i) /\ x[2] = LatentOf(t, i)
    BY <1>2, <1>5
  <2>2. PICK k \in 0 .. RowWidth - 1 : n = LatentAt(e, k) /\ y[2] = LatentOf(u, k)
    BY <1>3, <1>5
  <2>3. o * RowWidth + i = e * RowWidth + k
    BY <1>4, <2>1, <2>2 DEF LatentAt
  <2>4. RowWidth \in Nat \ {0} /\ o \in Nat /\ e \in Nat
    BY <1>1, <1>5, WholeSizes DEF Spot
  <2>5. o = e /\ i = k
    BY <2>3, <2>4, SameDigits
  <2> QED BY <1>1, <1>4, <2>1, <2>2, <2>5, Zenon
<1>6. CASE kv.layout # "mla"
  <2>1. \A i \in 0 .. IndexDim - 1, r \in 0 .. QuantBlocks - 1, b \in 0 .. 3 :
          /\ IndexValue(o, i) # IndexScale(e, r, b) /\ IndexValue(e, i) # IndexScale(o, r, b)
    <3> SUFFICES ASSUME NEW i \in 0 .. IndexDim - 1, NEW r \in 0 .. QuantBlocks - 1, NEW b \in 0 .. 3
                 PROVE  IndexValue(o, i) # IndexScale(e, r, b) /\ IndexValue(e, i) # IndexScale(o, r, b)
      OBVIOUS
    <3> DEFINE v == PageSize * IndexDim
    <3>0. v \in Nat
      BY KvSizes, IndexSizes
    <3>1. /\ IndexValue(o, i) \in 0 .. v - 1 /\ IndexValue(e, i) \in 0 .. v - 1
          /\ IndexScale(o, r, b) \in v .. IndexPage - 1 /\ IndexScale(e, r, b) \in v .. IndexPage - 1
      BY <1>1, IndexInPage
    <3> HIDE DEF v
    <3> QED BY <3>0, <3>1
  <2>2. CASE \E i \in 0 .. IndexDim - 1 : m = IndexValue(o, i) /\ x[2] = ValueOf(t, i)
    <3>1. PICK i \in 0 .. IndexDim - 1 : m = IndexValue(o, i) /\ x[2] = ValueOf(t, i)
      BY <2>2
    <3>2. \A r \in 0 .. QuantBlocks - 1, b \in 0 .. 3 : n # IndexScale(e, r, b)
      BY <1>4, <2>1, <3>1
    <3>3. PICK k \in 0 .. IndexDim - 1 : n = IndexValue(e, k) /\ y[2] = ValueOf(u, k)
      BY <1>3, <1>6, <3>2
    <3>4. o = e /\ i = k
      <4>1. IndexValue(o, i) = IndexValue(e, k)
        BY <1>4, <3>1, <3>3
      <4> QED BY <1>1, <4>1, IndexValuesApart
    <3> QED BY <1>1, <1>4, <3>1, <3>3, <3>4, Zenon
  <2>3. CASE \E r \in 0 .. QuantBlocks - 1, b \in 0 .. 3 : m = IndexScale(o, r, b) /\ x[2] = ScaleOf(t, r, b)
    <3>1. PICK r \in 0 .. QuantBlocks - 1, b \in 0 .. 3 : m = IndexScale(o, r, b) /\ x[2] = ScaleOf(t, r, b)
      BY <2>3
    <3>2. \A i \in 0 .. IndexDim - 1 : n # IndexValue(e, i)
      BY <1>4, <2>1, <3>1
    <3>3. PICK s \in 0 .. QuantBlocks - 1, c \in 0 .. 3 : n = IndexScale(e, s, c) /\ y[2] = ScaleOf(u, s, c)
      BY <1>3, <1>6, <3>2
    <3>4. o = e /\ r = s /\ b = c
      <4>1. IndexScale(o, r, b) = IndexScale(e, s, c)
        BY <1>4, <3>1, <3>3
      <4> QED BY <1>1, <4>1, IndexScalesApart
    <3> QED BY <1>1, <1>4, <3>1, <3>3, <3>4, Zenon
  <2> QED BY <1>2, <1>6, <2>2, <2>3
<1> QED BY <1>5, <1>6

LEMMA WholeStoresAre ==
  ASSUME kv \in KvCalls, Whole, NEW t \in Fresh
  PROVE  WholeStores(t) = Laid(t)
<1>1. CASE kv.layout = "mla"
  BY <1>1, MlaStoresAre DEF WholeStores, Laid
<1>2. CASE kv.layout = "indexer"
  <2>1. kv.layout # "mla"
    BY <1>2
  <2> QED BY <1>2, <2>1, IndexerStoresAre DEF WholeStores, Laid
<1> QED BY <1>1, <1>2 DEF Whole

(* The cache holds every stored token's elements and scales in its places. *)
WholeHeld ==
  /\ DOMAIN kvMemory = {"k", "v"} \X (0 .. CacheSize - 1)
  /\ \A t \in stored \ Padding : \A x \in Laid(t) : kvMemory[x[1]] = x[2]

LEMMA WholeSteady ==
  ASSUME kv' = kv
  PROVE  /\ (Whole' <=> Whole) /\ RowWidth' = RowWidth /\ TotalRows' = TotalRows
         /\ \A s : RowStart(s)' = RowStart(s)
         /\ \A t : Laid(t)' = Laid(t)
         /\ \A t, i : LatentOf(t, i)' = LatentOf(t, i)
<1>1. (Whole' <=> Whole) /\ RowWidth' = RowWidth /\ PageWords' = PageWords /\ Scaled' = Scaled
  BY DEF Whole, RowWidth, PageWords, Scaled
<1>2. \A s : RowStart(s)' = RowStart(s)
  BY DEF RowStart
<1>3. TotalRows' = TotalRows
  BY DEF TotalRows, RowStart
<1>4. \A t : PageOf(t)' = PageOf(t) /\ SpotOf(t)' = SpotOf(t)
  BY DEF PageOf, SpotOf
<1>5. \A t, i : LatentOf(t, i)' = LatentOf(t, i)
  BY <1>1 DEF LatentOf, Of
<1>6. \A o, i : LatentAt(o, i)' = LatentAt(o, i)
  BY <1>1 DEF LatentAt
<1>7. \A t : LaidLatent(t)' = LaidLatent(t)
  BY <1>1, <1>4, <1>5, <1>6 DEF LaidLatent
<1>8. \A t : LaidValues(t)' = LaidValues(t) /\ LaidScales(t)' = LaidScales(t)
  BY <1>4 DEF LaidValues, LaidScales
<1>9. \A t : Laid(t)' = Laid(t)
  BY <1>7, <1>8 DEF Laid
<1> QED BY <1>1, <1>2, <1>3, <1>5, <1>9

LEMMA WholeStep ==
  ASSUME kv \in KvCalls, Whole, stored \subseteq Fresh \cup Padding, WholeHeld,
         NEW t \in (Fresh \cup Padding) \ stored, Store(t, WholeStores(t))
  PROVE  WholeHeld'
<1>0. /\ kv' = kv /\ stored' = stored \cup {t}
      /\ kvMemory' = IF SlotOf(t) < 0 THEN kvMemory ELSE Put(kvMemory, WholeStores(t))
  BY DEF Store
<1>1. /\ Fresh' = Fresh /\ Padding' = Padding /\ CacheSize' = CacheSize /\ \A u : Laid(u)' = Laid(u)
  BY <1>0, KvSteady, WholeSteady
<1> DEFINE Kept(memory, done) ==
      /\ DOMAIN memory = {"k", "v"} \X (0 .. CacheSize - 1)
      /\ \A u \in done \ Padding : \A x \in Laid(u) : memory[x[1]] = x[2]
<1>2. Kept(kvMemory, stored)
  BY Zenon DEF WholeHeld
<1>3. Kept(kvMemory', stored') => WholeHeld'
  BY <1>1, Zenon DEF WholeHeld
<1> HIDE DEF Kept
<1>4. CASE t \in Padding
  <2>1. SlotOf(t) < 0
    BY <1>4 DEF SlotOf
  <2>2. kvMemory' = kvMemory /\ stored' \ Padding = stored \ Padding
    BY <1>0, <1>4, <2>1
  <2> QED BY <1>2, <1>3, <2>2, Zenon DEF Kept
<1>5. CASE t \in Fresh
  <2> DEFINE after == Put(kvMemory, WholeStores(t))
  <2>1. t \notin Padding /\ kvMemory' = after
    BY <1>0, <1>5, FreshSlot
  <2>2. WholeStores(t) = Laid(t)
    BY <1>5, WholeStoresAre
  <2>3. /\ DOMAIN kvMemory = {"k", "v"} \X (0 .. CacheSize - 1)
        /\ \A u \in stored \ Padding : \A x \in Laid(u) : kvMemory[x[1]] = x[2]
    BY <1>2 DEF Kept
  <2>4. DOMAIN after = DOMAIN kvMemory
    BY DEF Put
  <2>5. ASSUME NEW x \in Laid(t) PROVE after[x[1]] = x[2]
    <3>1. x[1] \in DOMAIN kvMemory
      BY <1>5, <2>3, LaidInside
    <3>2. \E s \in WholeStores(t) : s[1] = x[1] /\ after[x[1]] = s[2]
      BY <2>2, <3>1, PutAt
    <3>3. PICK s \in Laid(t) : s[1] = x[1] /\ after[x[1]] = s[2]
      BY <2>2, <3>2
    <3>4. s[2] = x[2]
      BY <1>5, <3>3, LaidApart
    <3> QED BY <3>3, <3>4
  <2>6. ASSUME NEW u \in stored \ Padding, NEW x \in Laid(u) PROVE after[x[1]] = x[2]
    <3>1. u \in Fresh /\ u # t
      OBVIOUS
    <3>2. x[1] \in DOMAIN kvMemory
      BY <2>3, <3>1, LaidInside
    <3>3. \A s \in WholeStores(t) : s[1] # x[1]
      BY <1>5, <2>2, <3>1, LaidApart
    <3>4. after[x[1]] = kvMemory[x[1]]
      BY <3>2, <3>3, PutAt
    <3> HIDE DEF after
    <3> QED BY <2>3, <3>4
  <2>7. stored' \ Padding = (stored \ Padding) \cup {t}
    BY <1>0, <2>1
  <2> HIDE DEF after
  <2>8. \A u \in stored' \ Padding : \A x \in Laid(u) : after[x[1]] = x[2]
    BY <2>5, <2>6, <2>7, Zenon
  <2>9. Kept(after, stored')
    BY <2>3, <2>4, <2>8, Zenon DEF Kept
  <2> QED BY <1>3, <2>1, <2>9, Zenon
<1> QED BY <1>4, <1>5

-----------------------------------------------------------------------------
(* What is sought in row j of a sequence, and the work-group it is of. *)
RowUnit(s, j) ==
  IF kv.layout = "mla" /\ kv.splits > 0 THEN <<s, (j \div PageSize) \div Share(s)>> ELSE <<RowStart(s) + j>>
FirstToken(s) ==
  IF kv.layout # "mla" THEN 0 ELSE IF kv.splits = 0 THEN kv.starts[s] ELSE (kv.starts[s] \div PageSize) * PageSize
SourceOf(s, j) == <<s, FirstToken(s) + j>>
Sought(s, j, i) ==
  IF kv.layout = "mla" THEN LatentOf(SourceOf(s, j), i)
  ELSE IF i < IndexDim THEN ValueOf(SourceOf(s, j), i) ELSE ScaleOf(SourceOf(s, j), i - IndexDim, 0)

Right(stores) ==
  \A x \in stores :
    \E s \in DOMAIN kv.tables : \E j \in 0 .. kv.lengths[s] - 1 : \E i \in 0 .. RowWidth - 1 :
      x = <<<<RowStart(s) + j, i>>, Sought(s, j, i)>>
Complete(g, stores) ==
  \A s \in DOMAIN kv.tables : \A j \in 0 .. kv.lengths[s] - 1 :
    RowUnit(s, j) = g => \A i \in 0 .. RowWidth - 1 : <<<<RowStart(s) + j, i>>, Sought(s, j, i)>> \in stores

RowsHeld ==
  /\ DOMAIN kvRows = (0 .. TotalRows - 1) \X (0 .. RowWidth - 1)
  /\ gathered # {} => AllStored
  /\ \A s \in DOMAIN kv.tables : \A j \in 0 .. kv.lengths[s] - 1 :
       RowUnit(s, j) \in gathered => \A i \in 0 .. RowWidth - 1 : kvRows[<<RowStart(s) + j, i>>] = Sought(s, j, i)

LEMMA FirstTokenIn ==
  ASSUME kv \in KvCalls, NEW s \in DOMAIN kv.tables
  PROVE  FirstToken(s) \in Nat /\ FirstToken(s) <= kv.starts[s] /\ kv.starts[s] \in Nat
<1>1. kv.starts[s] \in Nat /\ PageSize \in Nat \ {0}
  BY KvTables, KvSizes
<1> DEFINE a == kv.starts[s]
<1>2. a \div PageSize \in Nat /\ a = ((a \div PageSize) * PageSize) + (a % PageSize) /\ a % PageSize \in Nat
  <2>1. /\ a \div PageSize \in Nat /\ a = ((a \div PageSize) * PageSize) + (a % PageSize)
        /\ a % PageSize \in 0 .. PageSize - 1
    BY <1>1, DivMod
  <2> QED BY <1>1, <2>1
<1> DEFINE q == a \div PageSize
           w == q * PageSize
           r == a % PageSize
<1>3. w \in Nat /\ a = w + r /\ r \in Nat
  BY <1>1, <1>2
<1> HIDE DEF q, r
<1>4. FirstToken(s) \in {0, a, w}
  BY DEF FirstToken, q
<1> HIDE DEF w, a
<1>5. FirstToken(s) \in Nat /\ FirstToken(s) <= a
  BY <1>1, <1>3, <1>4 DEF a
<1> QED BY <1>1, <1>5 DEF a

LEMMA SourceFresh ==
  ASSUME kv \in KvCalls, NEW s \in DOMAIN kv.tables, NEW j \in 0 .. kv.lengths[s] - 1
  PROVE  SourceOf(s, j) \in Fresh
<1> DEFINE f == FirstToken(s)
           c == kv.context[s]
           n == kv.lengths[s]
           a == kv.starts[s]
<1>1. f \in Nat /\ f <= a /\ a \in Nat /\ n \in Nat /\ a + n <= c /\ c \in Nat /\ j \in 0 .. n - 1
  BY FirstTokenIn, KvTables
<1> HIDE DEF f, c, n, a
<1>2. f + j \in 0 .. c - 1
  BY <1>1
<1>3. SourceOf(s, j) = <<s, f + j>>
  BY DEF SourceOf, f
<1> QED BY <1>2, <1>3 DEF Fresh, c

LEMMA AllFresh ==
  ASSUME kv \in KvCalls, AllStored
  PROVE  stored \ Padding = Fresh
<1>1. \A t \in Fresh : t \notin Padding
  BY FreshSlot
<1> QED BY <1>1 DEF AllStored

LEMMA RowsSteady ==
  ASSUME kv' = kv
  PROVE  /\ \A s, j : RowUnit(s, j)' = RowUnit(s, j)
         /\ \A s, j, i : Sought(s, j, i)' = Sought(s, j, i)
<1>1. /\ \A s : RowStart(s)' = RowStart(s)
      /\ \A t, i : LatentOf(t, i)' = LatentOf(t, i)
  BY WholeSteady
<1>2. \A s, j : RowUnit(s, j)' = RowUnit(s, j)
  BY <1>1 DEF RowUnit, Share, BlocksOf
<1>3. \A s, j : SourceOf(s, j)' = SourceOf(s, j)
  BY DEF SourceOf, FirstToken
<1>4. \A s, j, i : Sought(s, j, i)' = Sought(s, j, i)
  BY <1>1, <1>3 DEF Sought
<1> QED BY <1>2, <1>4

(* A gather that stores what is sought of the rows of its work-group, and  *)
(* nothing else than what is sought, keeps the rows.                       *)
LEMMA GatherKeeps ==
  ASSUME kv \in KvCalls, RowsHeld, NEW g, NEW stores, Gathered(g, stores), Right(stores), Complete(g, stores)
  PROVE  RowsHeld'
<1>0. /\ AllStored /\ gathered' = gathered \cup {g} /\ kvRows' = Put(kvRows, stores)
      /\ kv' = kv /\ kvMemory' = kvMemory /\ stored' = stored
  BY DEF Gathered
<1>1. /\ TotalRows' = TotalRows /\ RowWidth' = RowWidth /\ Fresh' = Fresh /\ Padding' = Padding
      /\ \A s : RowStart(s)' = RowStart(s)
      /\ \A s, j : RowUnit(s, j)' = RowUnit(s, j)
      /\ \A s, j, i : Sought(s, j, i)' = Sought(s, j, i)
  BY <1>0, KvSteady, WholeSteady, RowsSteady
<1>2. AllStored'
  BY <1>0, <1>1 DEF AllStored
<1> DEFINE after == Put(kvRows, stores)
<1>3. DOMAIN kvRows = (0 .. TotalRows - 1) \X (0 .. RowWidth - 1) /\ DOMAIN after = DOMAIN kvRows
  BY DEF RowsHeld, Put
<1>4. ASSUME NEW s \in DOMAIN kv.tables, NEW j \in 0 .. kv.lengths[s] - 1, NEW i \in 0 .. RowWidth - 1
      PROVE  /\ \/ after[<<RowStart(s) + j, i>>] = Sought(s, j, i)
                \/ after[<<RowStart(s) + j, i>>] = kvRows[<<RowStart(s) + j, i>>]
             /\ <<<<RowStart(s) + j, i>>, Sought(s, j, i)>> \in stores =>
                  after[<<RowStart(s) + j, i>>] = Sought(s, j, i)
  <2> DEFINE row == RowStart(s) + j
             a == <<row, i>>
  <2>1. row \in 0 .. TotalRows - 1
    BY RowIn
  <2>2. a \in DOMAIN kvRows
    <3> HIDE DEF row
    <3> QED BY <1>3, <2>1
  <2>3. ASSUME NEW x \in stores, x[1] = a PROVE x[2] = Sought(s, j, i)
    <3>1. PICK r \in DOMAIN kv.tables :
            \E l \in 0 .. kv.lengths[r] - 1 : \E k \in 0 .. RowWidth - 1 :
              x = <<<<RowStart(r) + l, k>>, Sought(r, l, k)>>
      BY <2>3 DEF Right
    <3>2. PICK l \in 0 .. kv.lengths[r] - 1 : \E k \in 0 .. RowWidth - 1 :
              x = <<<<RowStart(r) + l, k>>, Sought(r, l, k)>>
      BY <3>1
    <3>3. PICK k \in 0 .. RowWidth - 1 : x = <<<<RowStart(r) + l, k>>, Sought(r, l, k)>>
      BY <3>2
    <3> DEFINE z == RowStart(r) + l
    <3>4. x[1] = <<z, k>> /\ x[2] = Sought(r, l, k)
      BY <3>3
    <3>5. z = row /\ k = i
      <4> HIDE DEF z, row
      <4>1. <<z, k>> = <<row, i>>
        BY <2>3, <3>4, Zenon
      <4> QED BY <4>1
    <3>6. r = s /\ l = j
      BY <3>5, RowsApart
    <3> QED BY <3>4, <3>5, <3>6, Zenon
  <2> HIDE DEF a, after
  <2>4. CASE \E x \in stores : x[1] = a
    <3>1. \E x \in stores : x[1] = a /\ after[a] = x[2]
      BY <2>2, <2>4, PutAt DEF after
    <3>2. after[a] = Sought(s, j, i)
      BY <2>3, <3>1
    <3> QED BY <3>2, Zenon DEF a, row
  <2>5. CASE ~\E x \in stores : x[1] = a
    <3>1. after[a] = kvRows[a]
      BY <2>2, <2>5, PutAt DEF after
    <3>2. <<a, Sought(s, j, i)>> \notin stores
      <4>1. <<a, Sought(s, j, i)>>[1] = a
        OBVIOUS
      <4> QED BY <2>5, <4>1
    <3> QED BY <3>1, <3>2, Zenon DEF a, row
  <2> QED BY <2>4, <2>5
<1> HIDE DEF after
<1>5. ASSUME NEW s \in DOMAIN kv.tables, NEW j \in 0 .. kv.lengths[s] - 1, RowUnit(s, j) \in gathered \cup {g},
             NEW i \in 0 .. RowWidth - 1
      PROVE  after[<<RowStart(s) + j, i>>] = Sought(s, j, i)
  <2>1. CASE RowUnit(s, j) \in gathered
    <3>1. kvRows[<<RowStart(s) + j, i>>] = Sought(s, j, i)
      BY <2>1 DEF RowsHeld
    <3> QED BY <1>4, <3>1, Zenon
  <2>2. CASE RowUnit(s, j) = g
    <3>1. <<<<RowStart(s) + j, i>>, Sought(s, j, i)>> \in stores
      BY <2>2 DEF Complete
    <3> QED BY <1>4, <3>1, Zenon
  <2> QED BY <1>5, <2>1, <2>2
<1>6. kvRows' = after
  BY <1>0 DEF after
<1>7. /\ DOMAIN kvRows' = (0 .. TotalRows' - 1) \X (0 .. RowWidth' - 1)
      /\ gathered' # {} => AllStored'
  BY <1>1, <1>2, <1>3, <1>6
<1>8. \A s \in DOMAIN kv.tables : \A j \in 0 .. kv.lengths[s] - 1 :
        RowUnit(s, j) \in gathered' => \A i \in 0 .. RowWidth - 1 : kvRows'[<<RowStart(s) + j, i>>] = Sought(s, j, i)
  BY <1>0, <1>5, <1>6, Zenon
<1>9. \A s \in DOMAIN kv'.tables : \A j \in 0 .. kv'.lengths[s] - 1 :
        RowUnit(s, j)' \in gathered' =>
          \A i \in 0 .. RowWidth' - 1 : kvRows'[<<RowStart(s)' + j, i>>] = Sought(s, j, i)'
  BY <1>0, <1>1, <1>8, Zenon
<1> QED BY <1>7, <1>9, Zenon DEF RowsHeld

-----------------------------------------------------------------------------
(* What a gather reads of a token is what was stored of it. *)
LEMMA LatentBack ==
  ASSUME kv \in KvCalls, kv.layout = "mla", WholeHeld, AllStored, NEW u \in Fresh, NEW i \in 0 .. RowWidth - 1
  PROVE  kvMemory[<<"k", PageOf(u) * PageSize * RowWidth + SpotOf(u) * RowWidth + i>>] = LatentOf(u, i)
<1> DEFINE p == PageOf(u)
           o == SpotOf(u)
           x == <<<<"k", p * PageWords + LatentAt(o, i)>>, LatentOf(u, i)>>
<1>1. x \in Laid(u)
  BY DEF Laid, LaidLatent
<1>2. kvMemory[x[1]] = x[2]
  BY <1>1, AllFresh DEF WholeHeld
<1>3. kvMemory[<<"k", p * PageWords + LatentAt(o, i)>>] = LatentOf(u, i)
  BY <1>2
<1>4. p \in Nat /\ o \in Nat /\ PageSize \in Nat /\ RowWidth \in Nat /\ PageWords = PageSize * RowWidth
  BY FreshToken, KvSizes, WholeSizes DEF Page, Spot
<1> HIDE DEF p, o, x
<1>5. p * PageWords + LatentAt(o, i) = p * PageSize * RowWidth + o * RowWidth + i
  <2>1. p * (PageSize * RowWidth) = p * PageSize * RowWidth /\ p * PageSize * RowWidth \in Nat /\ o * RowWidth \in Nat
    BY <1>4
  <2> DEFINE a == p * PageSize * RowWidth
             b == o * RowWidth
  <2>2. a \in Nat /\ b \in Nat /\ i \in Int /\ p * PageWords = a /\ LatentAt(o, i) = b + i
    BY <1>4, <2>1 DEF LatentAt
  <2> HIDE DEF a, b
  <2>3. p * PageWords + LatentAt(o, i) = a + b + i
    BY <2>2
  <2> QED BY <2>3 DEF a, b
<1> QED BY <1>3, <1>5, Zenon DEF p, o

LEMMA IndexBack ==
  ASSUME kv \in KvCalls, kv.layout = "indexer", WholeHeld, AllStored, NEW u \in Fresh
  PROVE  /\ \A i \in 0 .. IndexDim - 1 :
              kvMemory[<<"k", PageOf(u) * PageSize * IndexStride + (SpotOf(u) * IndexDim + i)>>] = ValueOf(u, i)
         /\ \A r \in 0 .. QuantBlocks - 1 :
              kvMemory[<<"k", PageOf(u) * IndexPage + IndexScale(SpotOf(u), r, 0)>>] = ScaleOf(u, r, 0)
<1> DEFINE p == PageOf(u)
           o == SpotOf(u)
<1>1. \A x \in Laid(u) : kvMemory[x[1]] = x[2]
  BY AllFresh DEF WholeHeld
<1>2. Laid(u) = LaidValues(u) \cup LaidScales(u)
  <2>1. kv.layout # "mla"
    OBVIOUS
  <2> QED BY <2>1 DEF Laid
<1>3. ASSUME NEW i \in 0 .. IndexDim - 1
      PROVE  kvMemory[<<"k", p * PageSize * IndexStride + (o * IndexDim + i)>>] = ValueOf(u, i)
  <2> DEFINE x == <<<<"k", p * IndexPage + IndexValue(o, i)>>, ValueOf(u, i)>>
  <2>1. x \in Laid(u)
    BY <1>2 DEF LaidValues
  <2>2. kvMemory[<<"k", p * IndexPage + IndexValue(o, i)>>] = ValueOf(u, i)
    <3>1. kvMemory[x[1]] = x[2]
      BY <1>1, <2>1
    <3> QED BY <3>1
  <2>3. p \in Nat /\ PageSize \in Nat /\ IndexStride \in Nat
    BY FreshToken, KvSizes, IndexSizes DEF Page
  <2> HIDE DEF p, o, x
  <2>4. p * PageSize * IndexStride = p * IndexPage
    BY <2>3 DEF IndexPage
  <2> QED BY <2>2, <2>4, Zenon DEF IndexValue
<1>4. ASSUME NEW r \in 0 .. QuantBlocks - 1
      PROVE  kvMemory[<<"k", p * IndexPage + IndexScale(o, r, 0)>>] = ScaleOf(u, r, 0)
  <2> DEFINE x == <<<<"k", p * IndexPage + IndexScale(o, r, 0)>>, ScaleOf(u, r, 0)>>
  <2>1. x \in Laid(u)
    <3>1. 0 \in 0 .. 3
      OBVIOUS
    <3> QED BY <1>2, <3>1 DEF LaidScales
  <2>2. kvMemory[x[1]] = x[2]
    BY <1>1, <2>1
  <2> QED BY <2>2
<1> QED BY <1>3, <1>4

(* gather_and_maybe_dequant_cache. *)
LEMMA DequantGathers ==
  ASSUME kv \in KvCalls, WholeHeld, RowsHeld, NEW row \in 0 .. TotalRows - 1 + kv.pads,
         GatherAndMaybeDequantCache(row)
  PROVE  RowsHeld'
<1> DEFINE s == TokenToSeq(row)
           pos == row - RowStart(s) + kv.starts[s]
           at == kv.tables[s][pos \div PageSize + 1] * PageSize * RowWidth + (pos % PageSize) * RowWidth
           stores == IF row >= RowStart(s + 1) THEN {}
                     ELSE {<<<<row, i>>, kvMemory[<<"k", at + i>>]>> : i \in Elements(RowWidth)}
           k == Len(kv.tables)
<1>0. kv.layout = "mla" /\ kv.splits = 0 /\ Gathered(<<row>>, stores)
  BY DEF GatherAndMaybeDequantCache
<1>1. kv.layout = "mla" /\ kv.splits = 0 /\ Gathered(<<row>>, stores) /\ ~(kv.splits > 0)
  <2> HIDE DEF stores
  <2> QED BY <1>0
<1>2. /\ AllStored /\ RowWidth \in Nat /\ Elements(RowWidth) = 0 .. RowWidth - 1
      /\ k \in Nat /\ TotalRows = RowStart(k + 1) /\ TotalRows \in Nat /\ row \in Nat
  <2>1. AllStored /\ RowWidth \in Nat
    BY <1>1, WholeSizes DEF Gathered
  <2>2. k \in Nat /\ TotalRows = RowStart(k + 1) /\ kv.pads \in Nat
    BY KvTables, RowStarts
  <2>3. k + 1 \in 1 .. Len(kv.tables) + 1
    BY <2>2
  <2>4. TotalRows \in Nat
    BY <2>2, <2>3, RowStarts
  <2>5. row \in Nat
    BY <2>2, <2>4
  <2> QED BY <2>1, <2>2, <2>4, <2>5, ElementsAll
<1>3. \A r \in DOMAIN kv.tables : \A j \in 0 .. kv.lengths[r] - 1 :
        RowUnit(r, j) = <<row>> => RowStart(r) + j = row /\ row < TotalRows
  <2> SUFFICES ASSUME NEW r \in DOMAIN kv.tables, NEW j \in 0 .. kv.lengths[r] - 1, RowUnit(r, j) = <<row>>
               PROVE  RowStart(r) + j = row /\ row < TotalRows
    OBVIOUS
  <2>1. RowStart(r) + j \in 0 .. TotalRows - 1
    BY RowIn
  <2> DEFINE z == RowStart(r) + j
  <2>2. <<z>> = <<row>>
    BY <1>1 DEF RowUnit
  <2> HIDE DEF z
  <2>3. z = row
    BY <2>2
  <2>4. z \in 0 .. TotalRows - 1
    BY <2>1 DEF z
  <2> QED BY <1>2, <2>3, <2>4 DEF z
<1>4. CASE ~(row < TotalRows)
  <2>1. s = k
    BY <1>4 DEF TokenToSeq
  <2>2. row >= RowStart(s + 1)
    BY <1>2, <1>4, <2>1
  <2>3. stores = {}
    BY <2>2
  <2> HIDE DEF s, pos, at, stores, k
  <2>4. Right(stores) /\ Complete(<<row>>, stores)
    BY <1>3, <1>4, <2>3 DEF Right, Complete
  <2> QED BY <1>1, <2>4, GatherKeeps
<1>5. CASE row < TotalRows
  <2>1. s \in DOMAIN kv.tables /\ RowStart(s) <= row /\ row < RowStart(s + 1)
    <3>1. row \in 0 .. TotalRows - 1
      BY <1>2, <1>5
    <3>2. \E r \in DOMAIN kv.tables : RowStart(r) <= row /\ row < RowStart(r + 1)
      BY <3>1, RowHas
    <3>3. s = CHOOSE r \in DOMAIN kv.tables : RowStart(r) <= row /\ row < RowStart(r + 1)
      BY <1>5 DEF TokenToSeq
    <3> HIDE DEF s
    <3> QED BY <3>2, <3>3
  <2> HIDE DEF s
  <2> DEFINE j == row - RowStart(s)
             u == SourceOf(s, j)
  <2>2. j \in 0 .. kv.lengths[s] - 1 /\ RowStart(s) + j = row /\ kv.starts[s] \in Nat /\ j \in Nat
    <3>1. s \in 1 .. k /\ s \in 1 .. k + 1 /\ s + 1 \in 1 .. k + 1
      BY <1>2, <2>1, KvTables, SMTT(60)
    <3>2. /\ RowStart(s) \in Nat /\ RowStart(s + 1) = RowStart(s) + kv.lengths[s]
          /\ kv.lengths[s] \in Nat /\ kv.starts[s] \in Nat
      BY <2>1, <3>1, RowStarts, KvTables
    <3> DEFINE a == RowStart(s)
               n == kv.lengths[s]
    <3>3. a \in Nat /\ n \in Nat /\ row \in Nat /\ a <= row /\ row < a + n /\ j = row - a
      BY <1>2, <2>1, <3>2
    <3> HIDE DEF a, n, j
    <3>4. j \in 0 .. n - 1 /\ a + j = row /\ j \in Nat
      BY <3>3
    <3> QED BY <3>2, <3>4 DEF a, n
  <2>3. u \in Fresh /\ u = <<s, pos>>
    <3>1. u \in Fresh
      BY <2>1, <2>2, SourceFresh
    <3>2. FirstToken(s) = kv.starts[s]
      BY <1>1 DEF FirstToken
    <3>3. FirstToken(s) + j = pos
      <4>1. pos = j + kv.starts[s]
        OBVIOUS
      <4> HIDE DEF j, pos
      <4> QED BY <2>2, <3>2, <4>1
    <3> HIDE DEF j, pos
    <3> QED BY <3>1, <3>3 DEF SourceOf
  <2>4. at = PageOf(u) * PageSize * RowWidth + SpotOf(u) * RowWidth
    <3> HIDE DEF pos, u
    <3>1. u[1] = s /\ u[2] = pos
      BY <2>3
    <3> QED BY <3>1, Zenon DEF PageOf, SpotOf
  <2>5. \A i \in 0 .. RowWidth - 1 : kvMemory[<<"k", at + i>>] = Sought(s, j, i)
    <3> SUFFICES ASSUME NEW i \in 0 .. RowWidth - 1 PROVE kvMemory[<<"k", at + i>>] = Sought(s, j, i)
      OBVIOUS
    <3> HIDE DEF at, u
    <3>1. kvMemory[<<"k", PageOf(u) * PageSize * RowWidth + SpotOf(u) * RowWidth + i>>] = LatentOf(u, i)
      BY <1>1, <1>2, <2>3, LatentBack
    <3>2. Sought(s, j, i) = LatentOf(u, i)
      BY <1>1 DEF Sought, u
    <3> QED BY <2>4, <3>1, <3>2, Zenon
  <2>6. stores = {<<<<row, i>>, kvMemory[<<"k", at + i>>]>> : i \in 0 .. RowWidth - 1}
    <3>1. ~(row >= RowStart(s + 1))
      <4>1. s + 1 \in 1 .. k + 1
        BY <1>2, <2>1, KvTables
      <4>2. RowStart(s + 1) \in Nat
        BY <4>1, RowStarts
      <4> QED BY <1>2, <2>1, <4>2
    <3> QED BY <1>2, <3>1
  <2>7. ASSUME NEW x \in stores
        PROVE  \E i \in 0 .. RowWidth - 1 : x = <<<<RowStart(s) + j, i>>, Sought(s, j, i)>>
    <3>1. PICK i \in 0 .. RowWidth - 1 : x = <<<<row, i>>, kvMemory[<<"k", at + i>>]>>
      BY <2>6
    <3>2. x = <<<<RowStart(s) + j, i>>, Sought(s, j, i)>>
      BY <2>2, <2>5, <3>1, Zenon
    <3> QED BY <3>2
  <2>8. ASSUME NEW i \in 0 .. RowWidth - 1 PROVE <<<<row, i>>, Sought(s, j, i)>> \in stores
    <3>1. <<<<row, i>>, kvMemory[<<"k", at + i>>]>> \in stores
      BY <2>6
    <3> HIDE DEF stores, at, j
    <3> QED BY <2>5, <3>1
  <2> HIDE DEF stores, at, pos, u, j
  <2>9. Right(stores)
    BY <2>1, <2>2, <2>7 DEF Right
  <2>10. Complete(<<row>>, stores)
    <3> SUFFICES ASSUME NEW r \in DOMAIN kv.tables, NEW l \in 0 .. kv.lengths[r] - 1, RowUnit(r, l) = <<row>>,
                        NEW i \in 0 .. RowWidth - 1
                 PROVE  <<<<RowStart(r) + l, i>>, Sought(r, l, i)>> \in stores
      BY DEF Complete
    <3>1. RowStart(r) + l = row
      BY <1>3
    <3>2. r = s /\ l = j
      BY <2>1, <2>2, <3>1, RowsApart
    <3> QED BY <2>8, <3>1, <3>2, Zenon
  <2> QED BY <1>1, <2>9, <2>10, GatherKeeps
<1> QED BY <1>4, <1>5

(* The vectors of a row are all its elements, and the work-items that read *)
(* a scale are one to a quantisation block.                                *)
LEMMA ChunksAll ==
  /\ \A i \in 0 .. IndexDim - 1 : \E c \in {x \in 0 .. IndexDim - 1 : x % GatherVec = 0}, e \in 0 .. GatherVec - 1 : i = c + e
  /\ \A c \in {x \in 0 .. IndexDim - 1 : x % GatherVec = 0}, e \in 0 .. GatherVec - 1 : c + e \in 0 .. IndexDim - 1
<1> DEFINE n == QuantBlocks * GatherLanes
           v == GatherVec
<1>1. n \in Nat /\ v \in Nat \ {0} /\ IndexDim = n * v /\ n * v \in Nat
  <2>1. /\ v \in Nat \ {0} /\ GatherLanes \in Nat \ {0} /\ QuantBlock = GatherLanes * v /\ QuantBlocks \in Nat \ {0}
        /\ IndexDim = QuantBlocks * QuantBlock /\ IndexDim \in Nat
    BY IndexSizes
  <2>2. IndexDim = n * v /\ n \in Nat
    BY <2>1
  <2> QED BY <2>1, <2>2
<1> HIDE DEF n, v
<1>2. /\ \A i \in 0 .. (n * v) - 1 : \E c \in {x \in 0 .. (n * v) - 1 : x % v = 0}, e \in 0 .. v - 1 : i = c + e
      /\ \A c \in {x \in 0 .. (n * v) - 1 : x % v = 0}, e \in 0 .. v - 1 : c + e \in 0 .. (n * v) - 1
  BY <1>1, MultiplesAll, Zenon
<1> QED BY <1>1, <1>2, Zenon DEF v

LEMMA LeadersAll ==
  /\ \A c \in {x \in 0 .. IndexDim - 1 : x % GatherVec = 0} :
       (c \div GatherVec) % GatherLanes = 0 => \E r \in 0 .. QuantBlocks - 1 : c = r * QuantBlock
  /\ \A r \in 0 .. QuantBlocks - 1 :
       /\ r * QuantBlock \in {x \in 0 .. IndexDim - 1 : x % GatherVec = 0}
       /\ ((r * QuantBlock) \div GatherVec) % GatherLanes = 0
<1> DEFINE k == QuantBlocks
           g == GatherLanes
           v == GatherVec
<1>1. /\ k \in Nat /\ g \in Nat \ {0} /\ v \in Nat \ {0} /\ QuantBlock = g * v /\ IndexDim = k * QuantBlock
      /\ QuantBlock \in Nat \ {0} /\ IndexDim \in Nat
  BY IndexSizes
<1> HIDE DEF k, g, v
<1>2. ASSUME NEW c \in 0 .. IndexDim - 1, c % v = 0, (c \div v) % g = 0
      PROVE  \E r \in 0 .. k - 1 : c = r * QuantBlock
  <2> DEFINE q == c \div v
  <2>1. c \in Nat /\ q \in Nat /\ c = (q * v) + (c % v)
    <3>1. c \in Nat
      BY <1>1
    <3> QED BY <1>1, <3>1, DivMod
  <2>2. q % g = 0
    BY <1>2
  <2> HIDE DEF q
  <2> DEFINE r == q \div g
  <2>3. c = q * v
    BY <1>1, <1>2, <2>1
  <2>4. r \in Nat /\ q = (r * g) + (q % g)
    BY <1>1, <2>1, DivMod
  <2> HIDE DEF r
  <2>5. q = r * g
    BY <1>1, <2>2, <2>4
  <2>6. c = r * QuantBlock
    BY <1>1, <2>3, <2>4, <2>5
  <2>7. c \div QuantBlock \in 0 .. k - 1
    BY <1>1, QuotientBelow
  <2>8. ((r * QuantBlock) + 0) \div QuantBlock = r /\ (r * QuantBlock) + 0 = c
    <3>1. 0 \in 0 .. QuantBlock - 1
      BY <1>1
    <3>2. (r * QuantBlock) + 0 = c
      BY <2>1, <2>6
    <3> QED BY <1>1, <2>4, <3>1, <3>2, DivModUnique
  <2>9. r \in 0 .. k - 1
    BY <2>7, <2>8
  <2> QED BY <2>6, <2>9
<1>3. ASSUME NEW r \in 0 .. k - 1
      PROVE  /\ r * QuantBlock \in 0 .. IndexDim - 1 /\ (r * QuantBlock) % v = 0
             /\ ((r * QuantBlock) \div v) % g = 0
  <2>1. r * QuantBlock \in 0 .. IndexDim - 1 /\ r \in Nat
    BY FirstOf DEF k
  <2> DEFINE q == r * g
  <2>2. q \in Nat /\ r * QuantBlock = (q * v) + 0 /\ q = (r * g) + 0
    BY <1>1, <2>1
  <2>3. 0 \in 0 .. v - 1 /\ 0 \in 0 .. g - 1
    BY <1>1
  <2>4. ((r * g) + 0) % g = 0
    BY <1>1, <2>1, <2>3, DivModUnique
  <2>5. q % g = 0
    BY <2>2, <2>4
  <2> HIDE DEF q
  <2>6. ((q * v) + 0) \div v = q /\ ((q * v) + 0) % v = 0
    BY <1>1, <2>2, <2>3, DivModUnique
  <2> QED BY <2>1, <2>2, <2>5, <2>6
<1> QED BY <1>2, <1>3 DEF k, g, v

(* cp_gather_indexer_k_quant_cache. *)
LEMMA IndexerGathers ==
  ASSUME kv \in KvCalls, WholeHeld, RowsHeld, NEW row \in 0 .. TotalRows - 1, CpGatherIndexer(row)
  PROVE  RowsHeld'
<1> DEFINE found == {s \in DOMAIN kv.tables : RowStart(s) <= row /\ row < RowStart(s + 1)}
           s == IF found = {} THEN 1 ELSE Max(found)
           pos == row - RowStart(s)
           start == kv.tables[s][pos \div PageSize + 1] * PageSize * IndexStride
           inBlock(i) == (pos % PageSize) * IndexDim + i
           chunks == {i \in 0 .. IndexDim - 1 : i % GatherVec = 0}
           scaleOf(i) == start + PageSize * IndexDim + (inBlock(i) * 4) \div QuantBlock
           leaders == {c \in chunks : (c \div GatherVec) % GatherLanes = 0}
           values == {<<<<row, i + e>>, kvMemory[<<"k", start + inBlock(i + e)>>]>> : i \in chunks, e \in 0 .. GatherVec - 1}
           scales == {<<<<row, IndexDim + i \div QuantBlock>>, kvMemory[<<"k", (scaleOf(i) \div 4) * 4>>]>> : i \in leaders}
           k == Len(kv.tables)
<1>1. kv.layout = "indexer" /\ Gathered(<<row>>, values \cup scales)
  <2>1. kv.layout = "indexer" /\ Gathered(<<row>>, IndexerRow(row))
    BY DEF CpGatherIndexer
  <2>2. IndexerRow(row) = values \cup scales
    BY DEF IndexerRow
  <2> HIDE DEF values, scales
  <2> QED BY <2>1, <2>2, Zenon
<1>2. PICK r \in DOMAIN kv.tables : RowStart(r) <= row /\ row < RowStart(r + 1)
  BY RowHas
<1>3. /\ k \in Nat /\ r \in 1 .. k /\ r \in 1 .. k + 1 /\ r + 1 \in 1 .. k + 1 /\ k + 1 \in 1 .. k + 1 /\ row \in Nat
      /\ RowStart(r) \in Nat /\ RowStart(r + 1) = RowStart(r) + kv.lengths[r] /\ kv.lengths[r] \in Nat
  <2>1. k \in Nat /\ r \in 1 .. k /\ kv.lengths[r] \in Nat
    BY KvTables
  <2>2. r \in 1 .. k + 1 /\ r + 1 \in 1 .. k + 1 /\ k + 1 \in 1 .. k + 1
    BY <2>1
  <2>3. RowStart(r) \in Nat /\ RowStart(r + 1) = RowStart(r) + kv.lengths[r] /\ TotalRows \in Nat
    BY <2>1, <2>2, RowStarts
  <2> QED BY <2>1, <2>2, <2>3
<1>4. s = r
  <2>1. \A q \in found : q = r
    BY <1>2, <1>3, RowOwner
  <2>2. r \in found /\ r >= r
    BY <1>2, <1>3
  <2>3. found = {r}
    BY <2>1, <2>2
  <2> HIDE DEF found
  <2>4. Max({r}) = r
    BY <2>2 DEF Max
  <2> QED BY <2>3, <2>4
<1> HIDE DEF found, s
<1> DEFINE u == SourceOf(r, pos)
           p == PageOf(u)
           o == SpotOf(u)
<1>5. pos \in 0 .. kv.lengths[r] - 1 /\ RowStart(r) + pos = row /\ pos \in Nat
  <2> DEFINE a == RowStart(r)
             n == kv.lengths[r]
  <2>1. a \in Nat /\ n \in Nat /\ row \in Nat /\ a <= row /\ row < a + n /\ pos = row - a
    BY <1>2, <1>3, <1>4
  <2> HIDE DEF a, n, pos
  <2>2. pos \in 0 .. n - 1 /\ a + pos = row /\ pos \in Nat
    BY <2>1
  <2> QED BY <2>2 DEF a, n
<1>6. u \in Fresh /\ u = <<r, pos>>
  <2>1. u \in Fresh
    BY <1>5, SourceFresh
  <2>2. kv.layout # "mla"
    BY <1>1
  <2>3. FirstToken(r) + pos = pos
    <3> HIDE DEF pos
    <3>1. FirstToken(r) = 0
      BY <2>2 DEF FirstToken
    <3> QED BY <1>5, <3>1
  <2> HIDE DEF pos
  <2> QED BY <2>1, <2>3 DEF SourceOf
<1> HIDE DEF pos
<1>7. start = p * PageSize * IndexStride /\ pos % PageSize = o
  <2> HIDE DEF u
  <2>1. u[1] = r /\ u[2] = pos
    BY <1>6
  <2> QED BY <1>4, <2>1, Zenon DEF PageOf, SpotOf
<1>8. p \in Page /\ o \in Spot
  BY <1>6, FreshToken
<1>9. /\ AllStored /\ RowWidth = IndexDim + QuantBlocks /\ IndexDim \in Nat /\ QuantBlocks \in Nat
      /\ kv.layout # "mla"
  BY <1>1, WholeSizes, IndexSizes DEF Gathered
<1>10. /\ \A i \in 0 .. IndexDim - 1 :
            kvMemory[<<"k", p * PageSize * IndexStride + (o * IndexDim + i)>>] = ValueOf(u, i)
       /\ \A q \in 0 .. QuantBlocks - 1 : kvMemory[<<"k", p * IndexPage + IndexScale(o, q, 0)>>] = ScaleOf(u, q, 0)
  BY <1>1, <1>6, <1>9, IndexBack
<1>11. \A i : inBlock(i) = o * IndexDim + i
  BY <1>7
<1>12. \A q \in 0 .. QuantBlocks - 1 :
         /\ (scaleOf(q * QuantBlock) \div 4) * 4 = p * IndexPage + IndexScale(o, q, 0)
         /\ (q * QuantBlock) \div QuantBlock = q
  <2> SUFFICES ASSUME NEW q \in 0 .. QuantBlocks - 1
               PROVE  /\ (scaleOf(q * QuantBlock) \div 4) * 4 = p * IndexPage + IndexScale(o, q, 0)
                      /\ (q * QuantBlock) \div QuantBlock = q
    OBVIOUS
  <2> HIDE DEF inBlock, start, p, o
  <2>1. scaleOf(q * QuantBlock) =
          (p * PageSize * IndexStride) + PageSize * IndexDim + (((o * IndexDim + q * QuantBlock) * 4) \div QuantBlock)
    BY <1>7, <1>11
  <2> HIDE DEF scaleOf
  <2>2. (scaleOf(q * QuantBlock) \div 4) * 4 = p * IndexPage + IndexScale(o, q, 0)
    BY <1>8, <2>1, ScaleWord, Zenon
  <2> QED BY <2>2, FirstOf
<1>13. /\ \A i \in 0 .. IndexDim - 1 : i \in 0 .. RowWidth - 1 /\ Sought(r, pos, i) = ValueOf(u, i)
       /\ \A q \in 0 .. QuantBlocks - 1 : /\ IndexDim + q \in 0 .. RowWidth - 1
                                          /\ Sought(r, pos, IndexDim + q) = ScaleOf(u, q, 0)
       /\ \A i \in 0 .. RowWidth - 1 : i \in 0 .. IndexDim - 1 \/ \E q \in 0 .. QuantBlocks - 1 : i = IndexDim + q
  <2> HIDE DEF p, o
  <2>1. ASSUME NEW i \in 0 .. IndexDim - 1 PROVE i \in 0 .. RowWidth - 1 /\ Sought(r, pos, i) = ValueOf(u, i)
    <3>1. i < IndexDim /\ i \in 0 .. RowWidth - 1
      BY <1>9
    <3> QED BY <1>9, <3>1 DEF Sought
  <2>2. ASSUME NEW q \in 0 .. QuantBlocks - 1
        PROVE  IndexDim + q \in 0 .. RowWidth - 1 /\ Sought(r, pos, IndexDim + q) = ScaleOf(u, q, 0)
    <3>1. ~(IndexDim + q < IndexDim) /\ (IndexDim + q) - IndexDim = q /\ IndexDim + q \in 0 .. RowWidth - 1
      BY <1>9
    <3> HIDE DEF u
    <3>2. Sought(r, pos, IndexDim + q) = ScaleOf(SourceOf(r, pos), (IndexDim + q) - IndexDim, 0)
      BY <1>9, <3>1, Zenon DEF Sought
    <3> QED BY <3>1, <3>2, Zenon DEF u
  <2>3. ASSUME NEW i \in 0 .. RowWidth - 1, i \notin 0 .. IndexDim - 1
        PROVE  \E q \in 0 .. QuantBlocks - 1 : i = IndexDim + q
    <3>1. i - IndexDim \in 0 .. QuantBlocks - 1 /\ i = IndexDim + (i - IndexDim)
      BY <1>9, <2>3
    <3> QED BY <3>1
  <2> QED BY <2>1, <2>2, <2>3
<1> HIDE DEF u, p, o, start, inBlock, scaleOf, k
<1>14. \A i \in 0 .. IndexDim - 1 : kvMemory[<<"k", start + inBlock(i)>>] = Sought(r, pos, i)
  BY <1>7, <1>10, <1>11, <1>13, Zenon
<1>15. \A q \in 0 .. QuantBlocks - 1 :
         /\ IndexDim + (q * QuantBlock) \div QuantBlock = IndexDim + q
         /\ kvMemory[<<"k", (scaleOf(q * QuantBlock) \div 4) * 4>>] = Sought(r, pos, IndexDim + q)
  BY <1>10, <1>12, <1>13, Zenon
<1>16. ASSUME NEW x \in values \cup scales
       PROVE  \E i \in 0 .. RowWidth - 1 : x = <<<<row, i>>, Sought(r, pos, i)>>
  <2>1. CASE x \in values
    <3>1. PICK i \in chunks, e \in 0 .. GatherVec - 1 : x = <<<<row, i + e>>, kvMemory[<<"k", start + inBlock(i + e)>>]>>
      BY <2>1
    <3> DEFINE w == i + e
    <3>2. w \in 0 .. IndexDim - 1 /\ x = <<<<row, w>>, kvMemory[<<"k", start + inBlock(w)>>]>>
      BY <3>1, ChunksAll
    <3> HIDE DEF w
    <3>3. x = <<<<row, w>>, Sought(r, pos, w)>> /\ w \in 0 .. RowWidth - 1
      <4>1. kvMemory[<<"k", start + inBlock(w)>>] = Sought(r, pos, w) /\ w \in 0 .. RowWidth - 1
        BY <1>13, <1>14, <3>2
      <4> HIDE DEF values, scales, chunks, leaders
      <4> QED BY <3>2, <4>1
    <3> QED BY <3>3
  <2>2. CASE x \in scales
    <3>1. PICK i \in leaders : x = <<<<row, IndexDim + i \div QuantBlock>>, kvMemory[<<"k", (scaleOf(i) \div 4) * 4>>]>>
      BY <2>2
    <3>2. PICK q \in 0 .. QuantBlocks - 1 : i = q * QuantBlock
      BY LeadersAll
    <3>3. x = <<<<row, IndexDim + q>>, Sought(r, pos, IndexDim + q)>>
      <4>1. /\ IndexDim + (q * QuantBlock) \div QuantBlock = IndexDim + q
            /\ kvMemory[<<"k", (scaleOf(q * QuantBlock) \div 4) * 4>>] = Sought(r, pos, IndexDim + q)
        BY <1>15
      <4>2. x = <<<<row, IndexDim + (q * QuantBlock) \div QuantBlock>>,
                  kvMemory[<<"k", (scaleOf(q * QuantBlock) \div 4) * 4>>]>>
        BY <3>1, <3>2
      <4> QED BY <4>1, <4>2
    <3>4. IndexDim + q \in 0 .. RowWidth - 1
      BY <1>13
    <3> QED BY <3>3, <3>4
  <2> HIDE DEF values, scales
  <2> QED BY <1>16, <2>1, <2>2
<1>17. ASSUME NEW i \in 0 .. RowWidth - 1 PROVE <<<<row, i>>, Sought(r, pos, i)>> \in values \cup scales
  <2>1. CASE i \in 0 .. IndexDim - 1
    <3>1. PICK c \in chunks, e \in 0 .. GatherVec - 1 : i = c + e
      BY <2>1, ChunksAll
    <3>2. <<<<row, c + e>>, kvMemory[<<"k", start + inBlock(c + e)>>]>> \in values
      OBVIOUS
    <3> HIDE DEF values, scales, chunks
    <3>3. <<<<row, i>>, kvMemory[<<"k", start + inBlock(i)>>]>> \in values
      BY <3>1, <3>2, Zenon
    <3>4. <<<<row, i>>, Sought(r, pos, i)>> \in values
      BY <1>14, <2>1, <3>3, Zenon
    <3> QED BY <3>4
  <2>2. CASE i \notin 0 .. IndexDim - 1
    <3>1. PICK q \in 0 .. QuantBlocks - 1 : i = IndexDim + q
      BY <1>13, <2>2
    <3> DEFINE c == q * QuantBlock
    <3>2. c \in leaders
      BY LeadersAll
    <3> HIDE DEF leaders
    <3>3. <<<<row, IndexDim + c \div QuantBlock>>, kvMemory[<<"k", (scaleOf(c) \div 4) * 4>>]>> \in scales
      BY <3>2
    <3> HIDE DEF values, scales
    <3>4. <<<<row, i>>, Sought(r, pos, i)>> \in scales
      <4>1. IndexDim + c \div QuantBlock = i /\ kvMemory[<<"k", (scaleOf(c) \div 4) * 4>>] = Sought(r, pos, i)
        BY <1>15, <3>1
      <4>2. <<<<row, IndexDim + c \div QuantBlock>>, kvMemory[<<"k", (scaleOf(c) \div 4) * 4>>]>>
              = <<<<row, i>>, Sought(r, pos, i)>>
        BY <4>1
      <4> QED BY <3>3, <4>2, Zenon
    <3> QED BY <3>4
  <2> HIDE DEF values, scales
  <2> QED BY <2>1, <2>2
<1> DEFINE stores == values \cup scales
<1> HIDE DEF values, scales
<1>18. \A x \in stores : \E i \in 0 .. RowWidth - 1 : x = <<<<row, i>>, Sought(r, pos, i)>>
  BY <1>16
<1>19. \A i \in 0 .. RowWidth - 1 : <<<<row, i>>, Sought(r, pos, i)>> \in stores
  BY <1>17
<1>20. Gathered(<<row>>, stores)
  BY <1>1
<1> HIDE DEF stores
<1>21. Right(stores)
  <2> SUFFICES ASSUME NEW x \in stores
               PROVE  \E q \in DOMAIN kv.tables : \E j \in 0 .. kv.lengths[q] - 1 : \E i \in 0 .. RowWidth - 1 :
                        x = <<<<RowStart(q) + j, i>>, Sought(q, j, i)>>
    BY DEF Right
  <2>1. \E i \in 0 .. RowWidth - 1 : x = <<<<RowStart(r) + pos, i>>, Sought(r, pos, i)>>
    BY <1>5, <1>18, Zenon
  <2> QED BY <1>2, <1>5, <2>1
<1>22. Complete(<<row>>, stores)
  <2> SUFFICES ASSUME NEW q \in DOMAIN kv.tables, NEW l \in 0 .. kv.lengths[q] - 1, RowUnit(q, l) = <<row>>,
                      NEW i \in 0 .. RowWidth - 1
               PROVE  <<<<RowStart(q) + l, i>>, Sought(q, l, i)>> \in stores
    BY DEF Complete
  <2> DEFINE z == RowStart(q) + l
  <2>1. <<z>> = <<row>>
    BY <1>9 DEF RowUnit
  <2>2. z = row
    <3> HIDE DEF z
    <3> QED BY <2>1
  <2>3. RowStart(q) + l = RowStart(r) + pos
    BY <1>5, <2>2, Zenon
  <2>4. q = r /\ l = pos
    BY <1>2, <1>5, <2>3, RowsApart
  <2> QED BY <1>19, <2>2, <2>4, Zenon
<1> QED BY <1>20, <1>21, <1>22, GatherKeeps

(* The blocks of a sequence: the last may be in part, and the splits have  *)
(* them all.                                                               *)
LEMMA BlocksAre ==
  ASSUME kv \in KvCalls, NEW s \in DOMAIN kv.tables
  PROVE  /\ kv.lengths[s] \div PageSize \in Nat /\ kv.lengths[s] % PageSize \in 0 .. PageSize - 1
         /\ kv.lengths[s] = ((kv.lengths[s] \div PageSize) * PageSize) + (kv.lengths[s] % PageSize)
         /\ BlocksOf(s) = (kv.lengths[s] \div PageSize) + (IF kv.lengths[s] % PageSize = 0 THEN 0 ELSE 1)
<1>1. kv.lengths[s] \in Nat /\ PageSize \in Nat \ {0}
  BY KvTables, KvSizes
<1> QED BY <1>1, DivMod, Ceiling DEF BlocksOf

LEMMA UnitIn ==
  ASSUME kv \in KvCalls, kv.splits # 0, NEW s \in DOMAIN kv.tables, NEW j \in 0 .. kv.lengths[s] - 1
  PROVE  /\ j \in Nat /\ j \div PageSize \in 0 .. BlocksOf(s) - 1 /\ j \div PageSize \in Nat /\ BlocksOf(s) \in Nat
         /\ Share(s) \in Nat \ {0}
         /\ (j \div PageSize) \div Share(s) \in 0 .. kv.splits - 1
<1> DEFINE n == kv.lengths[s]
           b == BlocksOf(s)
           w == Share(s)
           k == kv.splits
           p == j \div PageSize
<1>1. n \in Nat /\ PageSize \in Nat \ {0} /\ k \in Nat \ {0} /\ j \in 0 .. n - 1
  BY KvTables, KvSizes
<1>2. b = (n + PageSize - 1) \div PageSize /\ w = (b + k - 1) \div k
  BY DEF BlocksOf, Share
<1>3. j \in Nat
  BY <1>1
<1>4. p \in 0 .. b - 1
  <2> HIDE DEF n
  <2>1. j \div PageSize \in 0 .. ((n + PageSize - 1) \div PageSize) - 1
    BY <1>1, GroupBound
  <2> QED BY <1>2, <2>1
<1>5. b \in Nat
  <2>1. n + PageSize - 1 \in Nat
    BY <1>1
  <2> HIDE DEF n
  <2> QED BY <1>1, <1>2, <2>1, DivMod
<1>6. p \in Nat
  BY <1>4, <1>5
<1> HIDE DEF n, b, w, k, p
<1>7. w \in Nat \ {0} /\ p \div w \in 0 .. k - 1
  BY <1>1, <1>2, <1>4, <1>5, SharedOut
<1> QED BY <1>3, <1>4, <1>5, <1>6, <1>7 DEF b, w, k, p

(* Where token e of block p of what is gathered lies. *)
LEMMA BlockSource ==
  ASSUME kv \in KvCalls, kv.layout = "mla", kv.splits # 0, WholeHeld, AllStored, NEW s \in DOMAIN kv.tables,
         NEW p \in Nat, NEW e \in 0 .. PageSize - 1, p * PageSize + e \in 0 .. kv.lengths[s] - 1
  PROVE  \A i \in 0 .. RowWidth - 1 :
           kvMemory[<<"k", kv.tables[s][p + kv.starts[s] \div PageSize + 1] * PageSize * RowWidth + e * RowWidth + i>>]
             = Sought(s, p * PageSize + e, i)
<1> DEFINE a == kv.starts[s] \div PageSize
           j == p * PageSize + e
           u == SourceOf(s, j)
<1>1. kv.starts[s] \in Nat /\ PageSize \in Nat \ {0} /\ e \in Nat
  BY KvTables, KvSizes
<1>2. a \in Nat
  BY <1>1, DivMod
<1>3. FirstToken(s) = a * PageSize
  BY DEF FirstToken
<1>4. u \in Fresh
  BY SourceFresh
<1> HIDE DEF a
<1>5. FirstToken(s) + j = ((p + a) * PageSize) + e /\ p + a \in Nat
  BY <1>1, <1>2, <1>3
<1>6. (((p + a) * PageSize) + e) \div PageSize = p + a /\ (((p + a) * PageSize) + e) % PageSize = e
  BY <1>1, <1>5, DivModUnique
<1>7. u[1] = s /\ u[2] = FirstToken(s) + j
  BY DEF SourceOf
<1> HIDE DEF u
<1>8. PageOf(u) = kv.tables[s][p + a + 1] /\ SpotOf(u) = e
  BY <1>5, <1>6, <1>7, Zenon DEF PageOf, SpotOf
<1>9. ASSUME NEW i \in 0 .. RowWidth - 1
      PROVE  kvMemory[<<"k", kv.tables[s][p + a + 1] * PageSize * RowWidth + e * RowWidth + i>>] = Sought(s, j, i)
  <2>1. kvMemory[<<"k", PageOf(u) * PageSize * RowWidth + SpotOf(u) * RowWidth + i>>] = LatentOf(u, i)
    BY <1>4, LatentBack
  <2>2. Sought(s, j, i) = LatentOf(u, i)
    BY DEF Sought, u
  <2> HIDE DEF j
  <2> QED BY <1>8, <2>1, <2>2, Zenon
<1> QED BY <1>9 DEF a

(* gather_cache. *)
LEMMA BlockGathers ==
  ASSUME kv \in KvCalls, WholeHeld, RowsHeld, NEW s \in DOMAIN kv.tables, NEW split \in 0 .. kv.splits - 1,
         GatherCache(s, split)
  PROVE  RowsHeld'
<1> DEFINE P == PageSize
           n == kv.lengths[s]
           q == n \div P
           r == n % P
           blocks == BlocksOf(s)
           share == Share(s)
           first == split * share
           end == Min({(split + 1) * share, blocks})
           full == FullBlocksEnd(s, end)
           part == IF end = blocks THEN r ELSE 0
           block(p) == kv.tables[s][p + kv.starts[s] \div P + 1]
           cell(p, e, i) == <<<<RowStart(s) + p * P + e, i>>,
                              kvMemory[<<"k", block(p) * P * RowWidth + e * RowWidth + i>>]>>
           copied(p, m) == {cell(p, e, i) : e \in 0 .. m - 1, i \in Elements(RowWidth)}
           whole == UNION {copied(p, P) : p \in first .. full - 1}
           rest == IF part # 0 THEN copied(full, part) ELSE {}
           stores == IF first >= blocks THEN {} ELSE whole \cup rest
<1>1. kv.layout = "mla" /\ kv.splits > 0 /\ Gathered(<<s, split>>, BlockRows(s, split))
  BY DEF GatherCache
<1>2. BlockRows(s, split) = stores
  BY DEF BlockRows
<1>3. /\ n \in Nat /\ P \in Nat \ {0} /\ kv.splits \in Nat /\ kv.splits # 0 /\ split \in Nat
      /\ q \in Nat /\ r \in 0 .. P - 1 /\ n = (q * P) + r /\ blocks = q + (IF r = 0 THEN 0 ELSE 1)
  <2>1. n \in Nat /\ P \in Nat \ {0} /\ kv.splits \in Nat
    BY KvTables, KvSizes
  <2>2. kv.splits # 0 /\ split \in Nat
    BY <1>1, <2>1
  <2> QED BY <2>1, <2>2, BlocksAre
<1>4. full = IF end = blocks /\ r # 0 THEN end - 1 ELSE end
  BY DEF FullBlocksEnd
<1>5. RowWidth \in Nat /\ Elements(RowWidth) = 0 .. RowWidth - 1 /\ AllStored /\ RowStart(s) \in Nat
  <2>1. RowWidth \in Nat /\ AllStored
    BY <1>1, WholeSizes DEF Gathered
  <2>2. s \in 1 .. Len(kv.tables) + 1
    BY KvTables
  <2> QED BY <2>1, <2>2, ElementsAll, RowStarts
(* The rows stored are rows of the sequence. *)
<1>6. ASSUME NEW p \in Nat, NEW e \in 0 .. P - 1, p * P + e \in 0 .. n - 1, NEW i \in 0 .. RowWidth - 1
      PROVE  cell(p, e, i) = <<<<RowStart(s) + (p * P + e), i>>, Sought(s, p * P + e, i)>>
  <2>1. kvMemory[<<"k", block(p) * P * RowWidth + e * RowWidth + i>>] = Sought(s, p * P + e, i)
    <3>1. p * PageSize + e \in 0 .. kv.lengths[s] - 1 /\ e \in 0 .. PageSize - 1
      BY <1>6
    <3> HIDE DEF n, q, r, blocks, share, full, cell
    <3>2. \A k \in 0 .. RowWidth - 1 :
            kvMemory[<<"k", kv.tables[s][p + kv.starts[s] \div PageSize + 1] * PageSize * RowWidth + e * RowWidth + k>>]
              = Sought(s, p * PageSize + e, k)
      BY <1>1, <1>3, <1>5, <3>1, BlockSource
    <3> QED BY <3>2
  <2>2. RowStart(s) + p * P + e = RowStart(s) + (p * P + e)
    <3>1. p * P \in Nat /\ e \in Nat
      BY <1>3
    <3> DEFINE m == p * P
    <3> HIDE DEF m, P
    <3>2. RowStart(s) + m + e = RowStart(s) + (m + e)
      BY <1>3, <1>5, <3>1 DEF m
    <3> QED BY <3>2 DEF m
  <2> HIDE DEF block
  <2> QED BY <2>1, <2>2, Zenon
<1> HIDE DEF n, q, r, blocks, share, full, block, cell
<1>7. share \in Nat
  <2>1. blocks \in Nat
    BY <1>3
  <2>2. share = (blocks + kv.splits - 1) \div kv.splits /\ blocks + kv.splits - 1 \in Nat
    BY <1>3, <2>1 DEF share, Share, blocks
  <2> QED BY <1>3, <2>2, DivMod
<1>8. blocks \in Nat /\ first \in Nat /\ (split + 1) * share = first + share /\ first + share \in Nat
  BY <1>3, <1>7
<1>9. end = IF first + share <= blocks THEN first + share ELSE blocks
  <2>1. (split + 1) * share \in Int /\ blocks \in Int
    BY <1>8
  <2>2. end = IF (split + 1) * share <= blocks THEN (split + 1) * share ELSE blocks
    BY <2>1, LeastOfTwo
  <2> QED BY <1>8, <2>2
<1> HIDE DEF first, end
<1>10. /\ end \in Nat /\ end <= blocks /\ full \in Int /\ full <= q
       /\ part # 0 => full = q /\ part = r
  BY <1>3, <1>4, <1>7, <1>8, <1>9
<1>11. \A p \in first .. full - 1 : p \in Nat /\ \A e \in 0 .. P - 1 : p * P + e \in 0 .. n - 1
  <2> SUFFICES ASSUME NEW p \in first .. full - 1, NEW e \in 0 .. P - 1 PROVE p \in Nat /\ p * P + e \in 0 .. n - 1
    BY <1>8, <1>10
  <2>1. p \in Nat /\ p \in 0 .. q - 1
    BY <1>3, <1>8, <1>10
  <2>2. p * P + e \in 0 .. (q * P) - 1
    BY <1>3, <2>1, TwoDigits
  <2> DEFINE w == q * P
             z == p * P + e
  <2>3. w \in Nat /\ z \in 0 .. w - 1 /\ n = w + r
    BY <1>3, <2>2
  <2> HIDE DEF w, z
  <2>4. z \in 0 .. n - 1
    BY <1>3, <2>3
  <2> QED BY <2>1, <2>4 DEF z
<1>12. part # 0 => \A e \in 0 .. part - 1 : full \in Nat /\ e \in 0 .. P - 1 /\ full * P + e \in 0 .. n - 1
  <2> SUFFICES ASSUME part # 0, NEW e \in 0 .. part - 1
               PROVE  full \in Nat /\ e \in 0 .. P - 1 /\ full * P + e \in 0 .. n - 1
    OBVIOUS
  <2>1. full = q /\ part = r
    BY <1>10
  <2> HIDE DEF part
  <2> DEFINE w == q * P
  <2>2. w \in Nat /\ n = w + r /\ e \in 0 .. r - 1 /\ r \in 0 .. P - 1
    BY <1>3, <2>1
  <2>3. full * P + e = w + e
    BY <2>1
  <2> HIDE DEF w
  <2>4. w + e \in 0 .. n - 1 /\ e \in 0 .. P - 1
    BY <1>3, <2>2
  <2> QED BY <1>3, <2>1, <2>3, <2>4
<1>0. \A x \in stores : x \in whole \/ x \in rest
  <2> HIDE DEF whole, rest
  <2> QED OBVIOUS
<1>13. \A x \in stores : \E p \in Nat : \E e \in 0 .. P - 1 : \E i \in 0 .. RowWidth - 1 :
         p * P + e \in 0 .. n - 1 /\ x = cell(p, e, i)
  <2> SUFFICES ASSUME NEW x \in stores
               PROVE  \E p \in Nat : \E e \in 0 .. P - 1 : \E i \in 0 .. RowWidth - 1 :
                        p * P + e \in 0 .. n - 1 /\ x = cell(p, e, i)
    <3> HIDE DEF stores
    <3> QED OBVIOUS
  <2>1. CASE x \in whole
    <3>1. PICK p \in first .. full - 1 : x \in copied(p, P)
      BY <2>1
    <3>2. PICK e \in 0 .. P - 1, i \in 0 .. RowWidth - 1 : x = cell(p, e, i)
      BY <1>5, <3>1
    <3>3. p \in Nat /\ p * P + e \in 0 .. n - 1
      BY <1>11
    <3> QED BY <3>2, <3>3
  <2>2. CASE x \in rest
    <3>1. part # 0 /\ x \in copied(full, part)
      BY <2>2
    <3> HIDE DEF part
    <3>2. PICK e \in 0 .. part - 1, i \in 0 .. RowWidth - 1 : x = cell(full, e, i)
      BY <1>5, <3>1
    <3>3. full \in Nat /\ e \in 0 .. P - 1 /\ full * P + e \in 0 .. n - 1
      BY <1>12, <3>1
    <3> QED BY <3>2, <3>3
  <2> HIDE DEF stores, whole, rest
  <2> QED BY <1>0, <2>1, <2>2
(* And all rows of the split's blocks are stored. *)
<1>14. ASSUME NEW l \in 0 .. n - 1, RowUnit(s, l) = <<s, split>>, NEW i \in 0 .. RowWidth - 1
       PROVE  <<<<RowStart(s) + l, i>>, Sought(s, l, i)>> \in stores
  <2> DEFINE p == l \div P
             e == l % P
  <2>1. l \in Nat /\ p \in 0 .. blocks - 1 /\ p \in Nat /\ share \in Nat \ {0}
    BY <1>3, UnitIn DEF blocks, share, n
  <2>2. p \div share = split
    <3> HIDE DEF p
    <3> DEFINE z == p \div share
    <3>1. <<s, z>> = <<s, split>>
      BY <1>1, <1>14 DEF RowUnit, p, share
    <3> HIDE DEF z
    <3>2. z = split
      BY <3>1
    <3> QED BY <3>2 DEF z
  <2>3. e \in 0 .. P - 1 /\ l = (p * P) + e
    BY <1>3, <2>1, DivMod
  <2> HIDE DEF p, e
  <2>4. p \in first .. (first + share) - 1
    <3>1. p % share \in 0 .. share - 1 /\ p = ((p \div share) * share) + (p % share)
      BY <2>1, DivMod
    <3>2. p = first + (p % share)
      BY <2>2, <3>1 DEF first
    <3> DEFINE m == p % share
    <3>3. m \in 0 .. share - 1 /\ p = first + m
      BY <3>1, <3>2
    <3> HIDE DEF m
    <3> QED BY <1>7, <1>8, <3>3
  <2>5. ~(first >= blocks) /\ p < end
    BY <1>8, <1>9, <2>1, <2>4
  <2>6. cell(p, e, i) = <<<<RowStart(s) + l, i>>, Sought(s, l, i)>>
    <3>1. p * P + e = l
      BY <2>3
    <3>2. p * P + e \in 0 .. n - 1
      BY <3>1
    <3>3. cell(p, e, i) = <<<<RowStart(s) + (p * P + e), i>>, Sought(s, p * P + e, i)>>
      BY <1>6, <2>1, <2>3, <3>2
    <3> QED BY <3>1, <3>3, Zenon
  <2>7. CASE p < full
    <3>1. p \in first .. full - 1
      BY <1>8, <1>10, <2>1, <2>4, <2>7
    <3>2. cell(p, e, i) \in copied(p, P)
      BY <1>5, <2>3
    <3> HIDE DEF copied
    <3>3. cell(p, e, i) \in whole
      BY <3>1, <3>2
    <3> HIDE DEF whole, rest
    <3> QED BY <2>5, <2>6, <3>3
  <2>8. CASE ~(p < full)
    <3>1. end = blocks /\ r # 0 /\ p = full /\ full = q
      BY <1>3, <1>4, <1>8, <1>10, <2>1, <2>5, <2>8
    <3>2. part = r
      BY <3>1
    <3>3. e \in 0 .. part - 1
      <4> DEFINE w == q * P
      <4>1. w \in Nat /\ n = w + r /\ l = w + e
        BY <1>3, <2>3, <3>1
      <4> HIDE DEF w, part
      <4> QED BY <1>3, <2>3, <3>2, <4>1
    <3>4. cell(p, e, i) \in copied(full, part)
      <4> HIDE DEF part
      <4> QED BY <1>5, <3>1, <3>3
    <3> HIDE DEF copied
    <3>5. cell(p, e, i) \in rest
      BY <3>1, <3>2, <3>4
    <3> HIDE DEF whole, rest
    <3> QED BY <2>5, <2>6, <3>5
  <2> QED BY <2>7, <2>8
<1> HIDE DEF stores
<1>15. Right(stores)
  <2> SUFFICES ASSUME NEW x \in stores
               PROVE  \E z \in DOMAIN kv.tables : \E j \in 0 .. kv.lengths[z] - 1 : \E i \in 0 .. RowWidth - 1 :
                        x = <<<<RowStart(z) + j, i>>, Sought(z, j, i)>>
    BY DEF Right
  <2>1. PICK p \in Nat : \E e \in 0 .. P - 1 : \E i \in 0 .. RowWidth - 1 :
          p * P + e \in 0 .. n - 1 /\ x = cell(p, e, i)
    BY <1>13
  <2>2. PICK e \in 0 .. P - 1, i \in 0 .. RowWidth - 1 : p * P + e \in 0 .. n - 1 /\ x = cell(p, e, i)
    BY <2>1
  <2> DEFINE j == p * P + e
  <2>3. j \in 0 .. kv.lengths[s] - 1 /\ x = <<<<RowStart(s) + j, i>>, Sought(s, j, i)>>
    BY <1>6, <2>2 DEF n
  <2> HIDE DEF j
  <2> QED BY <2>3
<1>16. Complete(<<s, split>>, stores)
  <2> SUFFICES ASSUME NEW z \in DOMAIN kv.tables, NEW l \in 0 .. kv.lengths[z] - 1, RowUnit(z, l) = <<s, split>>,
                      NEW i \in 0 .. RowWidth - 1
               PROVE  <<<<RowStart(z) + l, i>>, Sought(z, l, i)>> \in stores
    BY DEF Complete
  <2> DEFINE m == (l \div P) \div Share(z)
  <2>1. <<z, m>> = <<s, split>>
    BY <1>1 DEF RowUnit
  <2>2. z = s
    <3> HIDE DEF m
    <3> QED BY <2>1
  <2> QED BY <1>14, <2>2 DEF n
<1>17. Gathered(<<s, split>>, stores)
  BY <1>1, <1>2
<1> QED BY <1>15, <1>16, <1>17, GatherKeeps

-----------------------------------------------------------------------------
WholeOK ==
  /\ kv \in KvCalls
  /\ stored \subseteq Fresh \cup Padding
  /\ Whole => WholeHeld /\ RowsHeld

LEMMA WholeStart == KvInit => WholeOK
<1> SUFFICES ASSUME KvInit PROVE WholeOK
  OBVIOUS
<1>1. /\ kv \in KvCalls /\ stored = {} /\ gathered = {}
      /\ kvMemory = [a \in {"k", "v"} \X (0 .. CacheSize - 1) |-> Untouched]
      /\ kvRows = [a \in (0 .. TotalRows - 1) \X (0 .. RowWidth - 1) |-> Untouched]
  BY DEF KvInit
<1>2. WholeHeld
  <2>1. DOMAIN kvMemory = {"k", "v"} \X (0 .. CacheSize - 1)
    BY <1>1
  <2> QED BY <1>1, <2>1 DEF WholeHeld
<1>3. RowsHeld
  <2>1. DOMAIN kvRows = (0 .. TotalRows - 1) \X (0 .. RowWidth - 1)
    BY <1>1
  <2>2. \A g : g \notin gathered
    BY <1>1
  <2> QED BY <1>1, <2>1, <2>2 DEF RowsHeld
<1> QED BY <1>1, <1>2, <1>3 DEF WholeOK

LEMMA RowsSame ==
  ASSUME RowsHeld, kv' = kv, stored' = stored, kvRows' = kvRows, gathered' = gathered
  PROVE  RowsHeld'
<1>1. /\ TotalRows' = TotalRows /\ RowWidth' = RowWidth /\ Fresh' = Fresh /\ Padding' = Padding
      /\ \A s : RowStart(s)' = RowStart(s)
      /\ \A s, j : RowUnit(s, j)' = RowUnit(s, j)
      /\ \A s, j, i : Sought(s, j, i)' = Sought(s, j, i)
  BY KvSteady, WholeSteady, RowsSteady
<1>2. AllStored' <=> AllStored
  BY <1>1 DEF AllStored
<1>3. /\ DOMAIN kvRows' = (0 .. TotalRows' - 1) \X (0 .. RowWidth' - 1)
      /\ gathered' # {} => AllStored'
  BY <1>1, <1>2 DEF RowsHeld
<1>4. \A s \in DOMAIN kv.tables : \A j \in 0 .. kv.lengths[s] - 1 :
        RowUnit(s, j) \in gathered' => \A i \in 0 .. RowWidth - 1 : kvRows'[<<RowStart(s) + j, i>>] = Sought(s, j, i)
  BY Zenon DEF RowsHeld
<1>5. \A s \in DOMAIN kv'.tables : \A j \in 0 .. kv'.lengths[s] - 1 :
        RowUnit(s, j)' \in gathered' =>
          \A i \in 0 .. RowWidth' - 1 : kvRows'[<<RowStart(s)' + j, i>>] = Sought(s, j, i)'
  BY <1>1, <1>4, Zenon
<1> QED BY <1>3, <1>5, Zenon DEF RowsHeld

LEMMA MemorySame ==
  ASSUME WholeHeld, kv' = kv, stored' = stored, kvMemory' = kvMemory
  PROVE  WholeHeld'
<1>1. Padding' = Padding /\ CacheSize' = CacheSize /\ \A t : Laid(t)' = Laid(t)
  BY KvSteady, WholeSteady
<1> QED BY <1>1, Zenon DEF WholeHeld

(* Nothing is gathered before all tokens are stored. *)
LEMMA RowsBefore ==
  ASSUME kv \in KvCalls, RowsHeld, NEW t \in (Fresh \cup Padding) \ stored,
         kv' = kv, kvRows' = kvRows, gathered' = gathered
  PROVE  RowsHeld'
<1>1. gathered = {}
  BY DEF RowsHeld, AllStored
<1>2. TotalRows' = TotalRows /\ RowWidth' = RowWidth
  BY WholeSteady
<1>3. DOMAIN kvRows' = (0 .. TotalRows' - 1) \X (0 .. RowWidth' - 1)
  BY <1>2 DEF RowsHeld
<1>4. gathered' = {} /\ \A g : g \notin gathered'
  BY <1>1
<1> QED BY <1>3, <1>4 DEF RowsHeld

LEMMA WholeSteps == WholeOK /\ [KvNext]_kvVars => WholeOK'
<1> SUFFICES ASSUME WholeOK, [KvNext]_kvVars PROVE WholeOK'
  OBVIOUS
<1>0. kv \in KvCalls /\ stored \subseteq Fresh \cup Padding /\ (Whole => WholeHeld /\ RowsHeld)
  BY DEF WholeOK
<1>1. ASSUME NEW t \in Fresh \cup Padding,
             \/ ReshapeAndCache(t) \/ ReshapeAndCacheFlash(t) \/ ReshapeAndCacheFlashStrided(t)
      PROVE  WholeOK'
  <2>1. /\ kv.layout \in {"paged", "flash", "strided"}
        /\ kv' = kv /\ stored' = stored \cup {t}
    BY <1>1 DEF ReshapeAndCache, ReshapeAndCacheFlash, ReshapeAndCacheFlashStrided, Store
  <2>2. ~Whole
    BY <2>1 DEF Whole
  <2>3. ~Whole' /\ Fresh' = Fresh /\ Padding' = Padding
    BY <2>1, <2>2, WholeSteady, KvSteady
  <2> QED BY <1>0, <2>1, <2>3 DEF WholeOK
<1>2. ASSUME NEW t \in Fresh \cup Padding, ConcatAndCacheMla(t) \/ IndexerKQuantAndCache(t)
      PROVE  WholeOK'
  <2>1. Whole /\ Store(t, WholeStores(t))
    <3>1. CASE ConcatAndCacheMla(t)
      BY <3>1 DEF ConcatAndCacheMla, Whole, WholeStores
    <3>2. CASE IndexerKQuantAndCache(t)
      <4>1. kv.layout = "indexer" /\ kv.layout # "mla"
        BY <3>2 DEF IndexerKQuantAndCache
      <4> QED BY <3>2, <4>1 DEF IndexerKQuantAndCache, Whole, WholeStores
    <3> QED BY <1>2, <3>1, <3>2
  <2>2. /\ t \in (Fresh \cup Padding) \ stored /\ stored' = stored \cup {t}
        /\ kv' = kv /\ kvRows' = kvRows /\ gathered' = gathered
    BY <2>1 DEF Store
  <2>3. WholeHeld'
    BY <1>0, <2>1, <2>2, WholeStep
  <2>4. RowsHeld'
    BY <1>0, <2>1, <2>2, RowsBefore
  <2>5. Fresh' = Fresh /\ Padding' = Padding
    BY <2>2, KvSteady
  <2> QED BY <1>0, <2>2, <2>3, <2>4, <2>5 DEF WholeOK
<1>3. ASSUME kv' = kv, stored' = stored, kvMemory' = kvMemory, Whole => RowsHeld'
      PROVE  WholeOK'
  <2>1. Fresh' = Fresh /\ Padding' = Padding /\ (Whole' <=> Whole)
    BY <1>3, KvSteady, WholeSteady
  <2>2. Whole => WholeHeld'
    BY <1>0, <1>3, MemorySame
  <2> QED BY <1>0, <1>3, <2>1, <2>2 DEF WholeOK
<1>4. ASSUME NEW s \in DOMAIN kv.tables, NEW split \in 0 .. kv.splits - 1, GatherCache(s, split)
      PROVE  WholeOK'
  <2>1. kv' = kv /\ kvMemory' = kvMemory /\ stored' = stored
    BY <1>4 DEF GatherCache, Gathered
  <2>2. Whole => RowsHeld'
    BY <1>0, <1>4, BlockGathers
  <2> QED BY <1>3, <2>1, <2>2
<1>5. ASSUME NEW row \in 0 .. TotalRows - 1 + kv.pads, GatherAndMaybeDequantCache(row)
      PROVE  WholeOK'
  <2>1. kv' = kv /\ kvMemory' = kvMemory /\ stored' = stored
    BY <1>5 DEF GatherAndMaybeDequantCache, Gathered
  <2>2. Whole => RowsHeld'
    BY <1>0, <1>5, DequantGathers
  <2> QED BY <1>3, <2>1, <2>2
<1>6. ASSUME NEW row \in 0 .. TotalRows - 1, CpGatherIndexer(row)
      PROVE  WholeOK'
  <2>1. kv' = kv /\ kvMemory' = kvMemory /\ stored' = stored
    BY <1>6 DEF CpGatherIndexer, Gathered
  <2>2. Whole => RowsHeld'
    BY <1>0, <1>6, IndexerGathers
  <2> QED BY <1>3, <2>1, <2>2
<1>7. CASE UNCHANGED kvVars
  <2>1. kv' = kv /\ stored' = stored /\ kvMemory' = kvMemory /\ kvRows' = kvRows /\ gathered' = gathered
    BY <1>7 DEF kvVars
  <2>2. Whole => RowsHeld'
    BY <1>0, <2>1, RowsSame
  <2> QED BY <1>3, <2>1, <2>2
<1> QED BY <1>1, <1>2, <1>4, <1>5, <1>6, <1>7 DEF KvNext

LEMMA RowsAre ==
  ASSUME WholeOK, Whole, NEW s \in DOMAIN kv.tables, NEW j \in 0 .. kv.lengths[s] - 1,
         IF kv.layout = "mla" THEN AllGathered ELSE <<RowStart(s) + j>> \in gathered
  PROVE  \A i \in 0 .. RowWidth - 1 : kvRows[<<RowStart(s) + j, i>>] = Sought(s, j, i)
<1>1. kv \in KvCalls /\ RowsHeld
  BY DEF WholeOK
<1>2. RowUnit(s, j) \in gathered
  <2>1. CASE kv.layout # "mla"
    BY <2>1 DEF RowUnit
  <2>2. CASE kv.layout = "mla" /\ kv.splits = 0
    <3>1. RowStart(s) + j \in 0 .. TotalRows - 1 /\ kv.pads \in Nat /\ TotalRows \in Nat
      <4>1. Len(kv.tables) + 1 \in 1 .. Len(kv.tables) + 1
        BY <1>1, KvTables
      <4> QED BY <1>1, <4>1, RowIn, KvTables, RowStarts
    <3> DEFINE z == RowStart(s) + j
    <3>2. z \in 0 .. TotalRows - 1 + kv.pads
      <4> HIDE DEF z
      <4>1. z \in 0 .. TotalRows - 1
        BY <3>1 DEF z
      <4> QED BY <3>1, <4>1
    <3>3. RowUnit(s, j) = <<z>>
      BY <2>2 DEF RowUnit
    <3>4. gathered = {<<row>> : row \in 0 .. TotalRows - 1 + kv.pads}
      BY <2>2 DEF AllGathered
    <3> HIDE DEF z
    <3> QED BY <3>2, <3>3, <3>4
  <2>3. CASE kv.layout = "mla" /\ kv.splits # 0
    <3>1. (j \div PageSize) \div Share(s) \in 0 .. kv.splits - 1 /\ kv.splits > 0
      <4>1. kv.splits \in Nat
        BY <1>1, KvTables
      <4> QED BY <1>1, <2>3, <4>1, UnitIn
    <3>2. RowUnit(s, j) = <<s, (j \div PageSize) \div Share(s)>>
      BY <2>3, <3>1 DEF RowUnit
    <3>3. gathered = (DOMAIN kv.tables) \X (0 .. kv.splits - 1)
      BY <2>3 DEF AllGathered
    <3> DEFINE m == (j \div PageSize) \div Share(s)
    <3>4. m \in 0 .. kv.splits - 1 /\ RowUnit(s, j) = <<s, m>>
      BY <3>1, <3>2
    <3> HIDE DEF m
    <3> QED BY <3>3, <3>4
  <2> QED BY <2>1, <2>2, <2>3
<1> QED BY <1>1, <1>2 DEF RowsHeld

LEMMA GathersHold == WholeOK => GatheredBack
<1> SUFFICES ASSUME WholeOK PROVE GatheredBack
  OBVIOUS
<1>0. kv \in KvCalls
  BY DEF WholeOK
<1>1. ASSUME kv.layout = "mla", AllGathered, NEW s \in DOMAIN kv.tables, NEW j \in 0 .. kv.lengths[s] - 1
      PROVE  LET start == IF kv.splits = 0 THEN kv.starts[s] ELSE (kv.starts[s] \div PageSize) * PageSize
             IN /\ \A i \in 0 .. Rank - 1 : Comes(kvRows[<<RowStart(s) + j, i>>], <<s, start + j>>, "latent", i)
                /\ \A i \in 0 .. PeDim - 1 : Comes(kvRows[<<RowStart(s) + j, Rank + i>>], <<s, start + j>>, "rotated", i)
  <2> DEFINE start == IF kv.splits = 0 THEN kv.starts[s] ELSE (kv.starts[s] \div PageSize) * PageSize
             u == SourceOf(s, j)
  <2>1. \A i \in 0 .. RowWidth - 1 : kvRows[<<RowStart(s) + j, i>>] = Sought(s, j, i)
    <3>1. Whole
      BY <1>1 DEF Whole
    <3> QED BY <1>1, <3>1, RowsAre
  <2>2. RowWidth = Rank + PeDim /\ Rank \in Nat \ {0} /\ PeDim \in Nat \ {0}
    BY <1>1, WholeSizes
  <2>3. FirstToken(s) = start
    BY <1>1 DEF FirstToken
  <2> HIDE DEF start
  <2>4. u = <<s, start + j>>
    BY <2>3, Zenon DEF SourceOf
  <2>5. \A i : Sought(s, j, i) = LatentOf(u, i)
    BY <1>1 DEF Sought
  <2> HIDE DEF u
  <2>6. ASSUME NEW i \in 0 .. Rank - 1 PROVE Comes(kvRows[<<RowStart(s) + j, i>>], u, "latent", i)
    <3>1. i \in 0 .. RowWidth - 1 /\ i < Rank
      BY <2>2
    <3>2. kvRows[<<RowStart(s) + j, i>>] = Of(u, "latent", i, Scaled, {})
      BY <2>1, <2>5, <3>1, Zenon DEF LatentOf
    <3> QED BY <3>2 DEF Comes, Of
  <2>7. ASSUME NEW i \in 0 .. PeDim - 1 PROVE Comes(kvRows[<<RowStart(s) + j, Rank + i>>], u, "rotated", i)
    <3>1. Rank + i \in 0 .. RowWidth - 1 /\ ~(Rank + i < Rank) /\ (Rank + i) - Rank = i
      BY <2>2
    <3>2. kvRows[<<RowStart(s) + j, Rank + i>>] = Of(u, "rotated", (Rank + i) - Rank, Scaled, {})
      BY <2>1, <2>5, <3>1, Zenon DEF LatentOf
    <3>3. kvRows[<<RowStart(s) + j, Rank + i>>] = Of(u, "rotated", i, Scaled, {})
      BY <3>1, <3>2, Zenon
    <3> QED BY <3>3 DEF Comes, Of
  <2>8. /\ \A i \in 0 .. Rank - 1 : Comes(kvRows[<<RowStart(s) + j, i>>], <<s, start + j>>, "latent", i)
        /\ \A i \in 0 .. PeDim - 1 : Comes(kvRows[<<RowStart(s) + j, Rank + i>>], <<s, start + j>>, "rotated", i)
    BY <2>4, <2>6, <2>7, Zenon
  <2> QED BY <2>8 DEF start
<1>2. ASSUME kv.layout = "indexer", NEW s \in DOMAIN kv.tables, NEW j \in 0 .. kv.lengths[s] - 1,
             <<RowStart(s) + j>> \in gathered, NEW i \in 0 .. IndexDim - 1
      PROVE  LET x == kvRows[<<RowStart(s) + j, i>>]
                 scale == kvRows[<<RowStart(s) + j, IndexDim + i \div QuantBlock>>]
             IN /\ Comes(x, <<s, j>>, "index", i) /\ Comes(scale, <<s, j>>, "scale", 0)
                /\ x.scale = scale.scale
                /\ x.scale = {e \in 0 .. IndexDim - 1 : e \div QuantBlock = i \div QuantBlock}
  <2> DEFINE q == i \div QuantBlock
             u == SourceOf(s, j)
             x == kvRows[<<RowStart(s) + j, i>>]
             scale == kvRows[<<RowStart(s) + j, IndexDim + q>>]
  <2>0. kv.layout # "mla" /\ Whole
    BY <1>2 DEF Whole
  <2>1. \A k \in 0 .. RowWidth - 1 : kvRows[<<RowStart(s) + j, k>>] = Sought(s, j, k)
    BY <1>2, <2>0, RowsAre
  <2>2. /\ RowWidth = IndexDim + QuantBlocks /\ IndexDim \in Nat /\ QuantBlocks \in Nat
        /\ q \in 0 .. QuantBlocks - 1 /\ j \in Nat
    BY <1>0, <1>2, WholeSizes, IndexSizes, GroupOf, RowIn
  <2>3. u = <<s, j>>
    <3>1. FirstToken(s) = 0 /\ 0 + j = j
      BY <2>0, <2>2 DEF FirstToken
    <3> QED BY <3>1, Zenon DEF SourceOf
  <2> HIDE DEF q, u
  <2>4. x = ValueOf(u, i)
    <3>1. i \in 0 .. RowWidth - 1 /\ i < IndexDim
      BY <2>2
    <3>2. Sought(s, j, i) = ValueOf(u, i)
      BY <2>0, <3>1 DEF Sought, u
    <3> QED BY <2>1, <3>1, <3>2
  <2>5. scale = ScaleOf(u, q, 0)
    <3>1. IndexDim + q \in 0 .. RowWidth - 1 /\ ~(IndexDim + q < IndexDim) /\ (IndexDim + q) - IndexDim = q
      BY <2>2
    <3>2. Sought(s, j, IndexDim + q) = ScaleOf(u, (IndexDim + q) - IndexDim, 0)
      BY <2>0, <3>1, Zenon DEF Sought, u
    <3>3. Sought(s, j, IndexDim + q) = ScaleOf(u, q, 0)
      BY <3>1, <3>2, Zenon
    <3> QED BY <2>1, <3>1, <3>3
  <2> HIDE DEF x, scale
  <2>6. Comes(x, u, "index", i) /\ x.scale = Group(q)
    BY <2>4 DEF ValueOf, Of, Comes, q
  <2>7. Comes(scale, u, "scale", 0) /\ scale.scale = Group(q)
    BY <2>5 DEF ScaleOf, Of, Comes
  <2>8. Group(q) = {e \in 0 .. IndexDim - 1 : e \div QuantBlock = i \div QuantBlock}
    BY DEF Group, q
  <2>9. /\ Comes(x, <<s, j>>, "index", i) /\ Comes(scale, <<s, j>>, "scale", 0)
        /\ x.scale = scale.scale
        /\ x.scale = {e \in 0 .. IndexDim - 1 : e \div QuantBlock = i \div QuantBlock}
    BY <2>3, <2>6, <2>7, <2>8, Zenon
  <2> QED BY <2>9 DEF x, scale, q
<1> QED BY <1>1, <1>2, Zenon DEF GatheredBack

(* What is gathered from blocks is what was stored by slot, each row in    *)
(* its place and a quantised row with its own scales, for every size of    *)
(* rows, pages, vectors and quantisation blocks, every batch and any       *)
(* number of splits (gather_cache, gather_and_maybe_dequant_cache,         *)
(* cp_gather_indexer_k_quant_cache).                                       *)
THEOREM GathersRight == KvSpec => []GatheredBack
<1>1. KvInit => WholeOK
  BY WholeStart
<1>2. WholeOK /\ [KvNext]_kvVars => WholeOK'
  BY WholeSteps
<1>3. WholeOK => GatheredBack
  BY GathersHold
<1> QED BY <1>1, <1>2, <1>3, PTL DEF KvSpec
=============================================================================
