------------------------------- MODULE MemCpy -------------------------------
(***************************************************************************)
(* Moving KV blocks between host and devices: swap_blocks and              *)
(* swap_blocks_batch (csrc/cache.cpp) and xpu_memcpy_sync, all in          *)
(* csrc/utils/mem_cpy.cpp.  A copy is submitted to the in-order queue of a *)
(* device and made later; host memory is pageable or comes from a caching  *)
(* allocator of pinned memory, which must not hand a buffer out again      *)
(* while a copy still reads or writes it.                                  *)
(*                                                                         *)
(* The host is one thread.  The callers keep to what these functions ask   *)
(* of them: see Undisturbed.                                               *)
(***************************************************************************)
EXTENDS Naturals, Sequences, FiniteSets

CONSTANTS
  NumDevices,
  Pageable,     (* a tensor in pageable host memory                        *)
  PinnedBuffers,(* bound: buffers of the caching host allocator            *)
  TensorBlocks, (* 1 .. number of blocks of a tensor                       *)
  BlockMaps,    (* bound of the inputs: sequences of <<source block,       *)
                (* destination block, bytes>>, bytes 0 or 1                *)
  MaxPinned,    (* bound on the tensors in them at a time                  *)
  MaxCopyCalls, (* bound on the calls                                      *)
  MaxWrites,    (* bound on the stores of the program                      *)
  NewData, Unowned, NoBuffer, NoCopyCall

ASSUME DeviceAssumption == NumDevices \in Nat \ {0} /\ MaxWrites \in Nat
ASSUME BlocksAssumption ==
  IsFiniteSet(TensorBlocks) /\ TensorBlocks = 1 .. Cardinality(TensorBlocks)
ASSUME PoolAssumption == MaxPinned \in 0 .. Cardinality(PinnedBuffers) - 1
ASSUME MapsAssumption ==
  \A map \in BlockMaps : map \in Seq(TensorBlocks \X TensorBlocks \X {0, 1})
                          /\ Cardinality({i \in DOMAIN map : map[i][3] = 1}) \in TensorBlocks

Devices == 0 .. NumDevices - 1
HostTensors == {Pageable} \cup PinnedBuffers
Tensors == Devices \cup HostTensors
Location == Tensors \X TensorBlocks

ASSUME TensorAssumption ==
  /\ Pageable \notin Devices \cup PinnedBuffers
  /\ PinnedBuffers \cap Devices = {} /\ NoBuffer \notin PinnedBuffers

VARIABLES
  mem,          (* what each location holds                                *)
  queues,        (* copies and kernels submitted to each device             *)
  owner,        (* who has each buffer: a tensor, a call, or nobody        *)
  current,      (* the device of the calling thread                        *)
  copyCall,     (* the call in progress                                    *)
  writes, copyCalls

memVars == <<mem, queues, owner, current, copyCall, writes, copyCalls>>

-----------------------------------------------------------------------------
(* An operation in a queue: a copy, or a kernel that stores new data.  The *)
(* events recorded behind it keep buffers from being handed out.           *)
CopyOp(from, to, raw) ==
  [from |-> from, to |-> to, new |-> 0, raw |-> raw, events |-> {}]
StoreOp(to, n) ==
  [from |-> to, to |-> to, new |-> n, raw |-> FALSE, events |-> {}]

Submit(d, o) == [queues EXCEPT ![d] = Append(@, o)]

(* record_event on the current stream of device d: behind what the queue   *)
(* now holds.                                                              *)
Record(q, d, p) ==
  IF p = NoBuffer \/ q[d] = <<>> THEN q
  ELSE [q EXCEPT ![d][Len(q[d])].events = @ \cup {p}]

Pending(d) == {queues[d][i] : i \in DOMAIN queues[d]}
Touches(o, l) == o.to = l \/ (o.new = 0 /\ o.from = l)

(* The allocator may hand p out: nobody has it and its events are over.    *)
Reusable(p) == owner[p] = "free" /\ \A d \in Devices : \A o \in Pending(d) : p \notin o.events

MemInit ==
  /\ mem = [l \in Location |-> l]
  /\ queues = [d \in Devices |-> <<>>]
  /\ owner = [p \in PinnedBuffers |-> "free"]
  /\ current = 0
  /\ copyCall = NoCopyCall
  /\ writes = 0 /\ copyCalls = 0

-----------------------------------------------------------------------------
(* The rest of the program. *)
(* A kernel of the program stores a block of its device. *)
Produce(d, i) ==
  /\ copyCall = NoCopyCall /\ writes < MaxWrites
  /\ writes' = writes + 1
  /\ queues' = Submit(d, StoreOp(<<d, i>>, writes + 1))
  /\ UNCHANGED <<mem, owner, current, copyCall, copyCalls>>

(* The host stores a block, of pageable memory or of a pinned tensor.      *)
(* Pageable memory is its own again when a call returns, and so is what    *)
(* swap_blocks_batch took; for other copies of pinned memory it waits.     *)
HostStore(l) ==
  /\ copyCall = NoCopyCall /\ writes < MaxWrites
  /\ l[1] = Pageable \/ (l[1] \in PinnedBuffers /\ owner[l[1]] = "tensor")
  /\ l[1] \in PinnedBuffers =>
       \A d \in Devices : \A o \in Pending(d) : o.to # l /\ (o.raw \/ o.from # l)
  /\ writes' = writes + 1
  /\ mem' = [mem EXCEPT ![l] = <<NewData, writes'>>]
  /\ UNCHANGED <<queues, owner, current, copyCall, copyCalls>>

NewPinned(p) ==
  /\ copyCall = NoCopyCall
  /\ Reusable(p)
  /\ Cardinality({b \in PinnedBuffers : owner[b] = "tensor"}) < MaxPinned
  /\ owner' = [owner EXCEPT ![p] = "tensor"]
  /\ UNCHANGED <<mem, queues, current, copyCall, writes, copyCalls>>

(* A pinned tensor may go while swap_blocks still copies it; a caller that *)
(* only passed its address keeps it until it has synchronised.             *)
DropPinned(p) ==
  /\ copyCall = NoCopyCall
  /\ owner[p] = "tensor"
  /\ \A d \in Devices : \A o \in Pending(d) : o.raw => \A i \in TensorBlocks : ~Touches(o, <<p, i>>)
  /\ owner' = [owner EXCEPT ![p] = "free"]
  /\ UNCHANGED <<mem, queues, current, copyCall, writes, copyCalls>>

-----------------------------------------------------------------------------
CopyEntries(src, dst, map) ==
  [i \in DOMAIN map |-> [from |-> <<src, map[i][1]>>, to |-> <<dst, map[i][2]>>, size |-> map[i][3]]]

(* The entries that have bytes: only swap_blocks_batch takes others.       *)
Sized(entries) ==
  LET upTo[i \in 0 .. Len(entries)] ==
        IF i = 0 THEN <<>>
        ELSE IF entries[i].size = 0 THEN upTo[i - 1] ELSE Append(upTo[i - 1], entries[i])
  IN upTo[Len(entries)]

(* A tensor the caller may name. *)
Usable(t) == t \in PinnedBuffers => owner[t] = "tensor"

(* What the callers see to: no other device still works on the blocks      *)
(* named, and what is read at once has been written.                       *)
Undisturbed(d, entries, snapshot) ==
  \A i \in DOMAIN entries :
    /\ \A e \in Devices \ {d} : \A o \in Pending(e) :
         ~Touches(o, entries[i].from) /\ ~Touches(o, entries[i].to)
    /\ snapshot => \A o \in Pending(d) : o.to # entries[i].from

Callable == copyCall = NoCopyCall /\ copyCalls < MaxCopyCalls
Begin(c) == copyCall' = c /\ copyCalls' = copyCalls + 1

(* A call: its device, the entries still to be submitted, what stages      *)
(* them, whether each is awaited, the buffer to record an event for, the   *)
(* staging buffer and how far it is used up.                               *)
CopyCall(d, entries, stage, sync, raw, pinned, buffer) ==
  [device |-> d, entries |-> entries, stage |-> stage, sync |-> sync, raw |-> raw,
   pinned |-> pinned, buffer |-> buffer, offset |-> 0, waiting |-> FALSE]

EntryRecords == [from : Location, to : Location, size : {0, 1}]
CallRecords ==
  [device : Devices, entries : Seq(EntryRecords),
   stage : {"none", "each", "batch"}, sync : BOOLEAN, raw : BOOLEAN,
   pinned : PinnedBuffers \cup {NoBuffer}, buffer : PinnedBuffers \cup {NoBuffer},
   offset : Nat, waiting : BOOLEAN]
ASSUME CallAssumption == NoCopyCall \notin CallRecords

(* Mutant of SyncCopies: a copy to pageable memory is left to run. *)
SyncNever(dst) == FALSE

(* An asynchronous copy to pageable memory is unsafe and made synchronous. *)
SyncCopies(dst) == dst = Pageable

PinnedOf(src, dst) ==
  IF src \in PinnedBuffers THEN src ELSE IF dst \in PinnedBuffers THEN dst ELSE NoBuffer

SwapBlocks(src, dst, map) ==
  LET d == IF src \in Devices THEN src ELSE dst
      entries == Sized(CopyEntries(src, dst, map))
      stage == IF src = Pageable THEN "each" ELSE "none"
  IN /\ Callable /\ d \in Devices
     /\ dst \in Devices => src \notin Devices \ {dst}
     /\ Usable(src) /\ Usable(dst)
     /\ Undisturbed(d, entries, stage = "each")
     /\ Begin(CopyCall(d, entries, stage, SyncCopies(dst), FALSE, PinnedOf(src, dst), NoBuffer))
     /\ UNCHANGED <<mem, queues, owner, current, writes>>

(* infer_xpu_device_from_ptr: the device that owns the allocation. *)
InferDevice(t) == t

(* Phase 1 of a staged batch: the source blocks one after the other.       *)
Snapshot(p, entries) ==
  LET left == Sized(entries)
  IN [l \in Location |-> IF l[1] = p /\ l[2] \in DOMAIN left THEN mem[left[l[2]].from] ELSE mem[l]]

(* Mutant of Staged: pinned memory is copied without staging. *)
StagedPageable(src, dst) == src = Pageable /\ dst \in Devices

(* needs_staging: a batch from host memory, pinned or not. *)
Staged(src, dst) == src \notin Devices /\ dst \in Devices

SwapBatch(src, dst, map) ==
  LET entries == CopyEntries(src, dst, map)
      staged == Staged(src, dst)
      own == IF src \in Devices THEN src ELSE dst
      d == InferDevice(own)
  IN /\ Callable /\ (src \in Devices \/ dst \in Devices)
     /\ src \in Devices /\ dst \in Devices => src = dst
     /\ Usable(src) /\ Usable(dst)
     /\ Undisturbed(own, entries, src \notin Devices)
     /\ IF staged
        THEN Begin(CopyCall(d, entries, "batch", FALSE, TRUE, NoBuffer, NoBuffer))
        ELSE Begin(CopyCall(d, entries, "none", SyncCopies(dst), TRUE, NoBuffer, NoBuffer))
     /\ UNCHANGED <<mem, queues, owner, current, writes>>

(* xpu_memcpy_sync: a device the caller names stays the current one.       *)
MemcpySync(src, dst, map, named) ==
  LET d == IF src \in Devices THEN src ELSE dst
      entries == SubSeq(Sized(CopyEntries(src, dst, map)), 1, 1)
  IN /\ Callable /\ d \in Devices
     /\ dst \in Devices => src \notin Devices \ {dst}
     /\ Usable(src) /\ Usable(dst)
     /\ named \/ current = d
     /\ Undisturbed(d, entries, FALSE)
     /\ current' = IF named THEN d ELSE current
     /\ Begin(CopyCall(current', entries, "none", TRUE, TRUE, NoBuffer, NoBuffer))
     /\ UNCHANGED <<mem, queues, owner, writes>>

-----------------------------------------------------------------------------
(* The steps of a call. *)
Entry == copyCall.entries[1]
Ready == copyCall # NoCopyCall /\ ~copyCall.waiting /\ copyCall.entries # <<>>

Advance(wait) ==
  copyCall' = [copyCall EXCEPT !.entries = Tail(@), !.waiting = wait, !.offset = @ + Entry.size]

(* Zero bytes: nothing to do. *)
SkipEntry ==
  /\ Ready /\ Entry.size = 0
  /\ Advance(FALSE)
  /\ UNCHANGED <<mem, queues, owner, current, writes, copyCalls>>

CopyDirect ==
  /\ Ready /\ Entry.size # 0 /\ copyCall.stage = "none"
  /\ queues' = Record(Submit(copyCall.device, CopyOp(Entry.from, Entry.to, copyCall.raw)),
                     copyCall.device, copyCall.pinned)
  /\ Advance(copyCall.sync)
  /\ UNCHANGED <<mem, owner, current, writes, copyCalls>>

(* Mutant of CopyStaged: no event is recorded for the staging buffer. *)
CopyStagedUnrecorded ==
  /\ Ready /\ Entry.size # 0 /\ copyCall.stage = "each"
  /\ \E p \in PinnedBuffers :
       /\ Reusable(p)
       /\ mem' = [mem EXCEPT ![<<p, 1>>] = mem[Entry.from]]
       /\ queues' = Submit(copyCall.device, CopyOp(<<p, 1>>, Entry.to, FALSE))
  /\ Advance(FALSE)
  /\ UNCHANGED <<owner, current, writes, copyCalls>>

(* async_h2d_with_staging: the buffer is given back at the end.            *)
CopyStaged ==
  /\ Ready /\ Entry.size # 0 /\ copyCall.stage = "each"
  /\ \E p \in PinnedBuffers :
       /\ Reusable(p)
       /\ mem' = [mem EXCEPT ![<<p, 1>>] = mem[Entry.from]]
       /\ queues' = Record(Submit(copyCall.device, CopyOp(<<p, 1>>, Entry.to, FALSE)), copyCall.device, p)
  /\ Advance(FALSE)
  /\ UNCHANGED <<owner, current, writes, copyCalls>>

TakeSnapshot ==
  /\ Ready /\ copyCall.stage = "batch" /\ copyCall.buffer = NoBuffer
  /\ \E p \in PinnedBuffers :
       /\ Reusable(p)
       /\ mem' = Snapshot(p, copyCall.entries)
       /\ owner' = [owner EXCEPT ![p] = "call"]
       /\ copyCall' = [copyCall EXCEPT !.buffer = p]
  /\ UNCHANGED <<queues, current, writes, copyCalls>>

CopySnapshot ==
  /\ Ready /\ Entry.size # 0 /\ copyCall.stage = "batch" /\ copyCall.buffer # NoBuffer
  /\ queues' = Submit(copyCall.device, CopyOp(<<copyCall.buffer, copyCall.offset + 1>>, Entry.to, FALSE))
  /\ Advance(FALSE)
  /\ UNCHANGED <<mem, owner, current, writes, copyCalls>>

(* The wait for a copy; the queue is in order and the host submits nothing *)
(* meanwhile.                                                              *)
Await ==
  /\ copyCall # NoCopyCall /\ copyCall.waiting
  /\ queues[copyCall.device] = <<>>
  /\ copyCall' = [copyCall EXCEPT !.waiting = FALSE]
  /\ UNCHANGED <<mem, queues, owner, current, writes, copyCalls>>

(* A staged batch records an event for its buffer before it gives it back. *)
EndCall ==
  /\ copyCall # NoCopyCall /\ ~copyCall.waiting /\ copyCall.entries = <<>>
  /\ queues' = Record(queues, copyCall.device, copyCall.buffer)
  /\ owner' = [p \in PinnedBuffers |-> IF p = copyCall.buffer THEN "free" ELSE owner[p]]
  /\ copyCall' = NoCopyCall
  /\ UNCHANGED <<mem, current, writes, copyCalls>>

-----------------------------------------------------------------------------
Effect(m, o) == [m EXCEPT ![o.to] = IF o.new = 0 THEN m[o.from] ELSE <<NewData, o.new>>]

(* The device does the next operation of its queue. *)
Execute(d) ==
  /\ queues[d] # <<>>
  /\ mem' = Effect(mem, queues[d][1])
  /\ queues' = [queues EXCEPT ![d] = Tail(@)]
  /\ UNCHANGED <<owner, current, copyCall, writes, copyCalls>>

Steps ==
  SkipEntry \/ CopyDirect \/ CopyStaged \/ TakeSnapshot \/ CopySnapshot \/ Await \/ EndCall

Host ==
  \/ \E d \in Devices, i \in TensorBlocks : Produce(d, i)
  \/ \E l \in Location : HostStore(l)
  \/ \E p \in PinnedBuffers : NewPinned(p) \/ DropPinned(p)
  \/ \E s, t \in Tensors :
       \E map \in BlockMaps :
         \/ SwapBlocks(s, t, map)
         \/ SwapBatch(s, t, map)
         \/ \E named \in BOOLEAN : MemcpySync(s, t, map, named)

MemNext == Host \/ Steps \/ \E d \in Devices : Execute(d)

MemSpec == MemInit /\ [][MemNext]_memVars

-----------------------------------------------------------------------------
(* The inductive invariant that keeps copies apart. *)
Datum == Location \cup ({NewData} \X (1 .. MaxWrites))
Ops == [from : Location, to : Location, new : 0 .. MaxWrites, raw : BOOLEAN,
        events : SUBSET PinnedBuffers]

MemTypes ==
  /\ mem \in [Location -> Datum]
  /\ queues \in [Devices -> Seq(Ops)]
  /\ owner \in [PinnedBuffers -> {"free", "tensor", "call"}]
  /\ copyCall \in CallRecords \cup {NoCopyCall}
  /\ writes \in 0 .. MaxWrites

InCall == copyCall # NoCopyCall
Waiting(d) == InCall /\ copyCall.waiting /\ copyCall.device = d

(* A queue works on its device and on host memory, a kernel on the device. *)
OpLocal(d, o) ==
  /\ {o.from[1], o.to[1]} \subseteq {d} \cup HostTensors
  /\ o.new # 0 => o.from = o.to /\ o.to[1] = d

(* What pageable memory holds is copied while the host waits, and so is    *)
(* what is read from pinned memory that has only its address passed; and   *)
(* such memory stays a tensor.                                             *)
OpHost(d, o) ==
  /\ Pageable \in {o.from[1], o.to[1]} => Waiting(d)
  /\ o.raw /\ o.from[1] \in PinnedBuffers => Waiting(d)
  /\ o.raw => \A p \in PinnedBuffers \cap {o.from[1], o.to[1]} : owner[p] = "tensor"

QueuesLocal == \A d \in Devices : \A o \in Pending(d) : OpLocal(d, o) /\ OpHost(d, o)

(* The queues of two devices have no block in common that one writes.      *)
Apart(o, u) == ~Touches(u, o.to) /\ ~Touches(o, u.to)
QueuesApart ==
  \A d, e \in Devices : d # e => \A o \in Pending(d), u \in Pending(e) : Apart(o, u)

(* A buffer of the allocator that a copy works on has an event at it or    *)
(* behind it, or is the staging buffer of the call in progress.            *)
Recorded(d, i) ==
  ~queues[d][i].raw =>
    \A p \in PinnedBuffers \cap {queues[d][i].from[1], queues[d][i].to[1]} :
      \/ \E j \in i .. Len(queues[d]) : p \in queues[d][j].events
      \/ InCall /\ copyCall.buffer = p /\ copyCall.device = d
           /\ queues[d][i].to[1] # p
EventsRecorded == \A d \in Devices : \A i \in DOMAIN queues[d] : Recorded(d, i)

(* No queue but the call's own has work on the blocks it has yet to copy.  *)
EntryApart(c, e) ==
  /\ {e.from[1], e.to[1]} \subseteq {c.device} \cup HostTensors
  /\ \A p \in PinnedBuffers \cap {e.from[1], e.to[1]} : owner[p] = "tensor"
  /\ \A d \in Devices \ {c.device} : \A o \in Pending(d) : ~Touches(o, e.from) /\ ~Touches(o, e.to)

DirectEntry(c, e) ==
  /\ Pageable \in {e.from[1], e.to[1]} => c.sync
  /\ c.raw /\ e.from[1] \in PinnedBuffers => c.sync
  /\ ~c.raw => \A p \in PinnedBuffers \cap {e.from[1], e.to[1]} : c.pinned = p

(* What is staged is not about to be written.                              *)
BatchEntry(c, e) ==
  /\ e.from[1] \in HostTensors /\ e.to[1] = c.device
  /\ \A d \in Devices : \A o \in Pending(d) : o.to # e.from

Staging(c) ==
  LET left == Sized(c.entries)
  IN /\ c.offset + Len(left) <= Cardinality(TensorBlocks)
     /\ c.buffer = NoBuffer => c.offset = 0
     /\ c.buffer # NoBuffer =>
          /\ \A j \in DOMAIN left : mem[<<c.buffer, c.offset + j>>] = mem[left[j].from]
          /\ \A d \in Devices : \A o \in Pending(d) : c.buffer \notin o.events

CallKept(c) ==
  /\ \A i \in DOMAIN c.entries : EntryApart(c, c.entries[i])
  /\ c.stage = "none" => \A i \in DOMAIN c.entries : DirectEntry(c, c.entries[i])
  /\ c.stage = "each" => \A i \in DOMAIN c.entries :
       c.entries[i].from[1] = Pageable /\ c.entries[i].to[1] = c.device
  /\ c.stage = "batch" => Staging(c) /\ \A i \in DOMAIN c.entries : BatchEntry(c, c.entries[i])
  /\ c.stage # "batch" => c.buffer = NoBuffer
  /\ c.waiting => c.stage = "none"

BuffersHeld ==
  \A p \in PinnedBuffers : owner[p] = "call" <=> InCall /\ copyCall.buffer = p

CopiesApart ==
  MemTypes /\ QueuesLocal /\ QueuesApart /\ EventsRecorded /\ BuffersHeld
  /\ (InCall => CallKept(copyCall))

-----------------------------------------------------------------------------
(* With the pending operations done, memory is what the program would see  *)
(* if every copy were made at the call: nothing a caller may do afterwards *)
(* reaches a copy under way, and the allocator hands out no buffer that a  *)
(* copy still reads or writes.                                             *)
Afterwards(m, q) ==
  LET upTo[i \in 0 .. Len(q)] == IF i = 0 THEN m ELSE Effect(upTo[i - 1], q[i])
  IN upTo[Len(q)]
AfterAll(m, qs) ==
  LET upTo[n \in 0 .. NumDevices] == IF n = 0 THEN m ELSE Afterwards(upTo[n - 1], qs[n - 1])
  IN upTo[NumDevices]
Settled == AfterAll(mem, queues)

(* What a buffer holds between two tensors is nobody's. *)
Visible ==
  LET hidden[m \in [Location -> Datum]] ==
        [l \in Location |-> IF l[1] \in PinnedBuffers /\ owner[l[1]] # "tensor" THEN Unowned ELSE m[l]]
  IN hidden[Settled]

(* What the call in progress has still to copy.                            *)
Asked == IF copyCall = NoCopyCall THEN <<>> ELSE Sized(copyCall.entries)

Memory == INSTANCE CopyMemory WITH memory <- Visible, written <- writes, asked <- Asked
CopiesMadeAtCall == Memory!CopySpec
=============================================================================
