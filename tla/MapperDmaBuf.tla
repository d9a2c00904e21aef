---------------------------- MODULE MapperDmaBuf ----------------------------
(***************************************************************************)
(* The mapper's DMA-BUF backend in one process: threads import, lock,      *)
(* unlock and free linear blobs. importedBufferTable maps the descriptor   *)
(* of an imported handle to a buffer_info_t on the heap. Nothing takes a   *)
(* mutex: a call is a sequence of steps, one for each access to shared     *)
(* memory, and the steps of the threads interleave.                        *)
(*                                                                         *)
(* importBuffer gets a fresh clone of a handle, whose descriptor is never  *)
(* closed again (freeBuffer of the mapper does not): a clone has one       *)
(* descriptor and a descriptor one clone, so that the table is keyed by    *)
(* the clone. A call that finds nothing returns an error and changes       *)
(* nothing, and is not a step.                                             *)
(***************************************************************************)
EXTENDS Integers, FiniteSets

CONSTANTS
  Thread,       \* client threads
  Handle,       \* clones of handles
  Block,        \* addresses calloc returns
  Null,         \* no block, no handle
  UsageBit,
  HandleUsage,  \* the usage in each handle
  LockUsages,   \* the cpuUsages that clients lock each handle with
  MaxLocks,     \* bound: locks a client holds on one handle
  Intact        \* does freed memory keep its content until it is reused?

ASSUME DmaBufAssumption ==
  /\ Null \notin Handle \cup Block
  /\ {"hw_fb", "sw_read", "sw_write"} \subseteq UsageBit
  /\ HandleUsage \in [Handle -> SUBSET UsageBit]
  /\ LockUsages \in [Handle -> SUBSET SUBSET UsageBit]
  /\ MaxLocks \in Nat
  /\ Intact \in BOOLEAN

VARIABLES
  importedBufferTable,  \* handle -> buffer_info_t *
  heap,      \* the blocks: allocated?, prime_fd, mapped
  call,      \* the call each thread is in
  client,    \* what clients know of a handle: new, importing, held, freed
  locks,     \* locks a client was granted and has not released, per handle
  mappings,  \* mappings of the handle's dma-buf the process has made
  sync,      \* CpuSyncStarts without a CpuSyncEnd, per handle and SyncType
  overlapped \* history: have two calls been in progress at once?

vars == <<importedBufferTable, heap, call, client, locks, mappings, sync, overlapped>>

-----------------------------------------------------------------------------
SyncTypes == {"kSyncRead", "kSyncWrite", "kSyncReadWrite"}
Info == [live: BOOLEAN, prime_fd: Handle \cup {Null}, mapped: BOOLEAN]
Unused == [live |-> FALSE, prime_fd |-> Null, mapped |-> FALSE]

Steps == {"idle", "import_insert", "free_info", "free_erase", "lock_map", "lock_sync"}
CallState == [step: Steps, h: Handle \cup {Null}, bi: Block \cup {Null},
              usage: SUBSET UsageBit]
Idle == [step |-> "idle", h |-> Null, bi |-> Null, usage |-> {}]

Init ==
  /\ importedBufferTable = [h \in Handle |-> Null]
  /\ heap = [b \in Block |-> Unused]
  /\ call = [t \in Thread |-> Idle]
  /\ client = [h \in Handle |-> "new"]
  /\ locks = [h \in Handle |-> 0]
  /\ mappings = [h \in Handle |-> 0]
  /\ sync = [h \in Handle |-> [s \in SyncTypes |-> 0]]
  /\ overlapped = FALSE

(* A call enters; a call returns.                                           *)
Overlaps == overlapped' = (overlapped \/ \E u \in Thread : call[u] # Idle)
Return(t) == call' = [call EXCEPT ![t] = Idle]
InCall(h) == \E t \in Thread : call[t].h = h

(* Calls on one handle do not overlap; a client may call with a handle that *)
(* it has freed, which the code looks for and does not find.                *)
MayCall(t, h) == call[t] = Idle /\ ~InCall(h) /\ client[h] \in {"held", "freed"}

(* Another thread changes the links of the unordered_map at the same time.  *)
Racing(t) == \E u \in Thread \ {t} : call[u].step \in {"import_insert", "free_erase"}

-----------------------------------------------------------------------------
(* importBuffer: buffer_info_create() on a fresh block, not mapped.         *)
buffer_info_create(h) == [live |-> TRUE, prime_fd |-> h, mapped |-> FALSE]

ImportCreate(t, h) ==
  /\ call[t] = Idle
  /\ client[h] = "new"
  /\ \E b \in Block :
       /\ ~heap[b].live
       /\ heap' = [heap EXCEPT ![b] = buffer_info_create(h)]
       /\ call' = [call EXCEPT ![t] = [Idle EXCEPT !.step = "import_insert",
                                                   !.h = h, !.bi = b]]
  /\ client' = [client EXCEPT ![h] = "importing"]
  /\ Overlaps
  /\ UNCHANGED <<importedBufferTable, locks, mappings, sync>>

(* insert(): a data race with another change of the map may lose the entry. *)
ImportInsert(t) ==
  LET h == call[t].h IN
  /\ call[t].step = "import_insert"
  /\ \/ importedBufferTable' = [importedBufferTable EXCEPT ![h] = call[t].bi]
     \/ Racing(t) /\ UNCHANGED importedBufferTable
  /\ client' = [client EXCEPT ![h] = "held"]
  /\ Return(t)
  /\ UNCHANGED <<heap, locks, mappings, sync, overlapped>>

-----------------------------------------------------------------------------
(* A call enters: find() has an entry for the handle.                       *)
Enter(t, step, h, usage) ==
  /\ MayCall(t, h)
  /\ importedBufferTable[h] # Null
  /\ call' = [call EXCEPT ![t] = [step |-> step, h |-> h,
                                  bi |-> importedBufferTable[h], usage |-> usage]]

FreeFind(t, h) ==
  /\ Enter(t, "free_info", h, {})
  /\ Overlaps
  /\ UNCHANGED <<importedBufferTable, heap, client, locks, mappings, sync>>

(* free(bi), mapped or not; what the block holds then is the heap's affair. *)
FreeInfo(t) ==
  LET b == call[t].bi IN
  /\ call[t].step = "free_info"
  /\ heap' = [heap EXCEPT ![b] = IF Intact THEN [@ EXCEPT !.live = FALSE] ELSE Unused]
  /\ call' = [call EXCEPT ![t].step = "free_erase"]
  /\ UNCHANGED <<importedBufferTable, client, locks, mappings, sync, overlapped>>

(* Faulty variant: the entry stays.                                         *)
FreeEraseSkipped(t) ==
  /\ call[t].step = "free_erase"
  /\ client' = [client EXCEPT ![call[t].h] = "freed"]
  /\ Return(t)
  /\ UNCHANGED <<importedBufferTable, heap, locks, mappings, sync, overlapped>>

(* erase(bi->prime_fd): the key is read from the freed block.               *)
FreeErase(t) ==
  LET key == heap[call[t].bi].prime_fd IN
  /\ call[t].step = "free_erase"
  /\ importedBufferTable' = [k \in Handle |-> IF k = key THEN Null
                                              ELSE importedBufferTable[k]]
  /\ client' = [client EXCEPT ![call[t].h] = "freed"]
  /\ Return(t)
  /\ UNCHANGED <<heap, locks, mappings, sync, overlapped>>

-----------------------------------------------------------------------------
LockFind(t, h, usage) ==
  /\ usage # {}
  /\ Enter(t, "lock_map", h, usage)
  /\ Overlaps
  /\ UNCHANGED <<importedBufferTable, heap, client, locks, mappings, sync>>

(* Faulty variant: every lock maps the buffer anew.                         *)
LockMapAlways(t) ==
  LET b == call[t].bi IN
  /\ call[t].step = "lock_map"
  /\ heap' = [heap EXCEPT ![b].mapped = TRUE]
  /\ mappings' = [mappings EXCEPT ![heap[b].prime_fd] = @ + 1]
  /\ call' = [call EXCEPT ![t].step = "lock_sync"]
  /\ UNCHANGED <<importedBufferTable, client, locks, sync, overlapped>>

(* mmap() of the whole buffer, unless it is mapped.                         *)
LockMap(t) ==
  LET b == call[t].bi IN
  /\ call[t].step = "lock_map"
  /\ heap' = [heap EXCEPT ![b].mapped = TRUE]
  /\ mappings' = IF heap[b].mapped \/ heap[b].prime_fd = Null THEN mappings
                 ELSE [mappings EXCEPT ![heap[b].prime_fd] = @ + 1]
  /\ call' = [call EXCEPT ![t].step = "lock_sync"]
  /\ UNCHANGED <<importedBufferTable, client, locks, sync, overlapped>>

LockMapFail(t) ==
  /\ call[t].step = "lock_map"
  /\ ~heap[call[t].bi].mapped
  /\ Return(t)
  /\ UNCHANGED <<importedBufferTable, heap, client, locks, mappings, sync, overlapped>>

(* A lock as a framebuffer is refused; the mapping stays.                   *)
LockRefuse(t) ==
  /\ call[t].step = "lock_sync"
  /\ "hw_fb" \in call[t].usage
  /\ Return(t)
  /\ UNCHANGED <<importedBufferTable, heap, client, locks, mappings, sync, overlapped>>

(* The SyncType of a usage, the same code in lock and unlock.               *)
SyncType(usage) ==
  CASE {"sw_read", "sw_write"} \cap usage = {"sw_read"}  -> "kSyncRead"
    [] {"sw_read", "sw_write"} \cap usage = {"sw_write"} -> "kSyncWrite"
    [] OTHER                                             -> "kSyncReadWrite"

LockSync(t) ==
  LET h == call[t].h IN
  /\ call[t].step = "lock_sync"
  /\ "hw_fb" \notin call[t].usage
  /\ sync' = [sync EXCEPT ![h][SyncType(call[t].usage)] = @ + 1]
  /\ locks' = [locks EXCEPT ![h] = @ + 1]
  /\ Return(t)
  /\ UNCHANGED <<importedBufferTable, heap, client, mappings, overlapped>>

(* Faulty variant: it always ends a read-write access.                      *)
UnlockReadWrite(t, h) ==
  /\ MayCall(t, h)
  /\ locks[h] > 0
  /\ "hw_fb" \notin HandleUsage[h]
  /\ sync' = [sync EXCEPT ![h]["kSyncReadWrite"] = @ - 1]
  /\ locks' = [locks EXCEPT ![h] = @ - 1]
  /\ Overlaps
  /\ UNCHANGED <<importedBufferTable, heap, call, client, mappings>>

(* unlock of a client that has a lock. It does not look the buffer up: one  *)
(* step, of the usage in the handle.                                        *)
Unlock(t, h) ==
  /\ MayCall(t, h)
  /\ locks[h] > 0
  /\ "hw_fb" \notin HandleUsage[h]
  /\ sync' = [sync EXCEPT ![h][SyncType(HandleUsage[h])] = @ - 1]
  /\ locks' = [locks EXCEPT ![h] = @ - 1]
  /\ Overlaps
  /\ UNCHANGED <<importedBufferTable, heap, call, client, mappings>>

Next == \E t \in Thread :
  \/ \E h \in Handle :
       \/ ImportCreate(t, h) \/ FreeFind(t, h) \/ Unlock(t, h)
       \/ \E usage \in LockUsages[h] : locks[h] < MaxLocks /\ LockFind(t, h, usage)
  \/ ImportInsert(t) \/ FreeInfo(t) \/ FreeErase(t)
  \/ LockMap(t) \/ LockMapFail(t) \/ LockRefuse(t) \/ LockSync(t)

Spec == Init /\ [][Next]_vars

-----------------------------------------------------------------------------
(* The variables have their types. An access may be ended more often than   *)
(* started, by clients that lock with less than the usage of the handle.    *)
TypeOK ==
  /\ importedBufferTable \in [Handle -> Block \cup {Null}]
  /\ heap \in [Block -> Info]
  /\ call \in [Thread -> CallState]
  /\ client \in [Handle -> {"new", "importing", "held", "freed"}]
  /\ locks \in [Handle -> 0..MaxLocks]
  /\ mappings \in [Handle -> Nat]
  /\ sync \in [Handle -> [SyncTypes -> Int]]
  /\ overlapped \in BOOLEAN

(* A buffer that importBuffer returned is managed until freeBuffer: every   *)
(* call on it finds its own buffer_info_t, not a freed or another one.      *)
ImportedIsManaged ==
  \A h \in Handle : client[h] = "held" /\ ~InCall(h) =>
    /\ importedBufferTable[h] # Null
    /\ heap[importedBufferTable[h]].live
    /\ heap[importedBufferTable[h]].prime_fd = h

(* No entry outlives its buffer_info_t: a later call on a freed handle gets *)
(* an error and not the memory of another buffer. freeBuffer erases the     *)
(* entry by a key in the block it has just freed.                           *)
EntriesLive ==
  \A h \in Handle : importedBufferTable[h] # Null /\ ~InCall(h) =>
    heap[importedBufferTable[h]].live

(* The process maps a buffer at most once per import, however it locks: the *)
(* mapping, which nothing ever undoes, is found again by the next lock.     *)
MapOnce == \A h \in Handle : mappings[h] <= 1

(* A client that has a lock has memory to use: unlock and refused locks of  *)
(* others leave the mapping.                                                *)
LockedIsMapped ==
  \A h \in Handle : locks[h] > 0 /\ client[h] = "held" /\ ~InCall(h) =>
    heap[importedBufferTable[h]].mapped /\ mappings[h] > 0

(* Both as long as calls come one at a time, in any order.                  *)
SerialTableRight == ~overlapped => ImportedIsManaged /\ EntriesLive
SerialMapsRight  == ~overlapped => MapOnce /\ LockedIsMapped

(* Clients that lock with the CPU usage of the handle leave no CPU access   *)
(* open: CpuSyncEnd has the direction of the usage of the handle, the one   *)
(* of CpuSyncStart is the caller's.                                         *)
SyncBalanced ==
  \A h \in Handle : locks[h] = 0 => sync[h] = [s \in SyncTypes |-> 0]

(* "Framebuffer must NOT be locked" (MapperDmaBuf.cpp:161 and :200).        *)
FramebufferNotLocked == \A h \in Handle : "hw_fb" \in HandleUsage[h] => locks[h] = 0
=============================================================================
