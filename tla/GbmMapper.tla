------------------------------ MODULE GbmMapper ------------------------------
(***************************************************************************)
(* A process that uses graphics buffers through the stable-C mapper:       *)
(* threads call importBuffer, freeBuffer, lock, unlock and                 *)
(* getStandardMetadata of GrallocGenericMapperV5 on buffers that the GBM   *)
(* backend manages. Nothing in mapper_stablec/ or common/gralloc_gbm.c     *)
(* takes a mutex around them, so a call is a sequence of steps, one for    *)
(* each access to state that other calls may change, and the steps of the  *)
(* threads interleave.                                                     *)
(*                                                                         *)
(* Each call is entered together with the lookup of its buffer, which is   *)
(* its first access to shared state; a call whose checks fail or whose     *)
(* lookup finds nothing returns an error and changes nothing, and is not a *)
(* step of the model.                                                      *)
(***************************************************************************)
EXTENDS GrallocGbm

CONSTANTS
  Thread,       \* client threads
  Handle,       \* native_handle_t objects the process clones
  NoHandle,
  NoBo,
  HwFb,         \* GRALLOC_USAGE_HW_FB
  HwTexture,    \* GRALLOC_USAGE_HW_TEXTURE
  BufUsage,     \* the usage each dma-buf was allocated with
  LockUsages,   \* the usage words that lock is called with
  MaxLocks,     \* bound: no call is made that would leave -MaxLocks .. MaxLocks
  SharedCalls   \* may calls other than freeBuffer overlap on one handle?

ASSUME ClientAssumption ==
  /\ NoHandle \notin Handle
  /\ NoBo \notin Bo
  /\ BufUsage \in [Buf -> SUBSET UsageBit]
  /\ LockUsages \subseteq SUBSET UsageBit
  /\ MaxLocks \in Nat
  /\ SharedCalls \in BOOLEAN

VARIABLES
  handle,   \* the cloned handles: prime_fd and usage
  call      \* the call each thread is in

vars == <<fds, bos, android_buffer_table, handle, call>>

-----------------------------------------------------------------------------
ImportSteps == {"import_bo", "import_add"}
FreeSteps   == {"free_destroy", "free_delete"}
LockSteps   == {"lock_check", "lock_map", "lock_commit"}
UnlockSteps == {"unlock_unmap", "unlock_commit"}
Steps == {"idle", "query_fd"} \cup ImportSteps \cup FreeSteps
           \cup LockSteps \cup UnlockSteps

CallState == [step: Steps, h: Handle \cup {NoHandle},
              bo: Bo \cup {NoBo}, usage: SUBSET UsageBit]

Idle == [step |-> "idle", h |-> NoHandle, bo |-> NoBo, usage |-> {}]
NullHandle == [fd |-> NoFd, usage |-> {}]

TypeOK ==
  /\ LibTypeOK
  /\ handle \in [Handle -> [fd: Fd \cup {NoFd}, usage: SUBSET UsageBit]]
  /\ call \in [Thread -> CallState]

Init ==
  /\ LibInit
  /\ handle = [h \in Handle |-> NullHandle]
  /\ call = [t \in Thread |-> Idle]

Goto(t, step) == call' = [call EXCEPT ![t].step = step]
Return(t)     == call' = [call EXCEPT ![t] = Idle]

(* A call is in progress on h: a thread is between two steps of it.         *)
InCall(t, h) == call[t].h = h

(* The client has h: importBuffer has returned it. It may call with h ever  *)
(* after, a freed handle included: the code detects those calls.            *)
Given(h) == /\ handle[h].fd # NoFd
            /\ \A t \in Thread : InCall(t, h) => call[t].step \notin ImportSteps

(* Who may enter a call on h. Clients give freeBuffer a handle no other     *)
(* call uses; whether the other calls overlap is the constant SharedCalls.  *)
MayCall(h) == /\ Given(h)
              /\ \A t \in Thread : InCall(t, h) =>
                   SharedCalls /\ call[t].step \notin FreeSteps
MayFree(h) == Given(h) /\ \A t \in Thread : ~InCall(t, h)

(* Thread t enters a call on h; the lookup found bo.                        *)
Enter(t, step, h, bo, usage) ==
  /\ call[t] = Idle
  /\ bo \in find_buffer_k(handle[h].fd)
  /\ call' = [call EXCEPT ![t] = [step |-> step, h |-> h, bo |-> bo, usage |-> usage]]

-----------------------------------------------------------------------------
(* importBuffer: native_handle_clone() duplicates the descriptor. When it   *)
(* cannot, the call returns AIMAPPER_ERROR_NO_RESOURCES (no step).          *)
ImportClone(t, h, b) ==
  /\ call[t] = Idle
  /\ handle[h] = NullHandle
  /\ \A u \in Thread : ~InCall(u, h)
  /\ \E f \in FreshFds \ {NoFd} :
       /\ fds' = Opened(f, b)
       /\ handle' = [handle EXCEPT ![h] = [fd |-> f, usage |-> BufUsage[b]]]
  /\ call' = [call EXCEPT ![t] = [Idle EXCEPT !.step = "import_bo", !.h = h]]
  /\ UNCHANGED <<bos, android_buffer_table>>

(* gralloc_gbm_android_buffer_import: gbm_bo_import() and the user data.    *)
ImportBo(t) ==
  /\ call[t].step = "import_bo"
  /\ \E bo \in FreshBos :
       /\ gbm_bo_create(bo, fds[handle[call[t].h].fd])
       /\ call' = [call EXCEPT ![t].step = "import_add", ![t].bo = bo]
  /\ UNCHANGED <<fds, android_buffer_table, handle>>

(* The backend fails: importBuffer closes and deletes the clone.            *)
ImportFail(t) ==
  LET h == call[t].h IN
  /\ call[t].step = "import_bo"
  /\ fds' = Closed(handle[h].fd)
  /\ handle' = [handle EXCEPT ![h] = NullHandle]
  /\ Return(t)
  /\ UNCHANGED <<bos, android_buffer_table>>

ImportAdd(t) ==
  /\ call[t].step = "import_add"
  /\ add_buffer(handle[call[t].h].fd, call[t].bo)
  /\ Return(t)
  /\ UNCHANGED <<fds, bos, handle>>

-----------------------------------------------------------------------------
(* freeBuffer. The descriptor of the handle stays open and the handle is    *)
(* not deleted: only the backend's state goes away.                         *)
FreeFind(t, h) ==
  /\ MayFree(h)
  /\ \E bo \in Bo : Enter(t, "free_destroy", h, bo, {})
  /\ UNCHANGED <<fds, bos, android_buffer_table, handle>>

(* Faulty variants: the BO is not destroyed; the handle is closed before    *)
(* its entry is gone.                                                       *)
FreeDestroySkipped(t) ==
  /\ call[t].step = "free_destroy"
  /\ Goto(t, "free_delete")
  /\ UNCHANGED <<fds, bos, android_buffer_table, handle>>

FreeDestroyCloses(t) ==
  /\ call[t].step = "free_destroy"
  /\ gbm_bo_destroy(call[t].bo)
  /\ fds' = Closed(handle[call[t].h].fd)
  /\ Goto(t, "free_delete")
  /\ UNCHANGED <<android_buffer_table, handle>>

FreeDestroy(t) ==
  /\ call[t].step = "free_destroy"
  /\ gbm_bo_destroy(call[t].bo)
  /\ Goto(t, "free_delete")
  /\ UNCHANGED <<fds, android_buffer_table, handle>>

FreeDelete(t) ==
  /\ call[t].step = "free_delete"
  /\ delete_buffer(handle[call[t].h].fd, call[t].bo)
  /\ Return(t)
  /\ UNCHANGED <<fds, bos, handle>>

-----------------------------------------------------------------------------
(* lock. The CPU may not touch a framebuffer, nor ask for more than the     *)
(* buffer was allocated for unless it is CPU-accessible, a framebuffer or a *)
(* texture. Bits of cpuUsage above the int parameter are lost, so that the  *)
(* empty usage can reach the library.                                       *)
UsageAllowed(allocated, usage) ==
  /\ HwFb \notin usage
  /\ usage \subseteq allocated \/ allocated \cap (SwMask \cup {HwFb, HwTexture}) # {}

LockFind(t, h, usage) ==
  /\ MayCall(h)
  /\ UsageAllowed(handle[h].usage, usage)
  /\ \E bo \in Bo : /\ Enter(t, "lock_check", h, bo, usage)
                    /\ bos[bo].lock_count < MaxLocks
  /\ UNCHANGED <<fds, bos, android_buffer_table, handle>>

(* usage |= locked_for; a usage with a CPU bit in it needs the BO mapped.   *)
LockCheck(t) ==
  LET d == bos[call[t].bo]
      usage == call[t].usage \cup d.locked_for
  IN
  /\ call[t].step = "lock_check"
  /\ \/ /\ ~Compatible(d, call[t].usage)
        /\ Return(t)
     \/ /\ Compatible(d, call[t].usage)
        /\ call' = [call EXCEPT
             ![t].usage = usage,
             ![t].step = IF usage \cap SwMask # {} THEN "lock_map" ELSE "lock_commit"]
  /\ UNCHANGED <<fds, bos, android_buffer_table, handle>>

(* gralloc_gbm_bo_map: refused when the BO is mapped already, and by libgbm *)
(* when the mapping cannot be made.                                         *)
LockMap(t) ==
  /\ call[t].step = "lock_map"
  /\ ~bos[call[t].bo].map_data
  /\ bos' = [bos EXCEPT ![call[t].bo].map_data = TRUE]
  /\ Goto(t, "lock_commit")
  /\ UNCHANGED <<fds, android_buffer_table, handle>>

LockMapFail(t) ==
  /\ call[t].step = "lock_map"
  /\ Return(t)
  /\ UNCHANGED <<fds, bos, android_buffer_table, handle>>

LockCommit(t) ==
  /\ call[t].step = "lock_commit"
  /\ bos' = [bos EXCEPT ![call[t].bo] = Locked(@, call[t].usage)]
  /\ Return(t)
  /\ UNCHANGED <<fds, android_buffer_table, handle>>

-----------------------------------------------------------------------------
(* unlock: nothing to do on a BO that is not locked; gralloc_gbm_bo_unmap   *)
(* when a held lock was granted for the CPU.                                *)
UnlockFind(t, h) ==
  /\ MayCall(h)
  /\ \E bo \in Bo : /\ Enter(t, "unlock_unmap", h, bo, {})
                    /\ bos[bo].lock_count > -MaxLocks
  /\ UNCHANGED <<fds, bos, android_buffer_table, handle>>

UnlockUnmap(t) ==
  LET d == bos[call[t].bo] IN
  /\ call[t].step = "unlock_unmap"
  /\ \/ /\ d.lock_count = 0
        /\ Return(t)
        /\ UNCHANGED bos
     \/ /\ d.lock_count # 0
        /\ bos' = IF d.locked_for \cap SwMask = {} THEN bos
                  ELSE [bos EXCEPT ![call[t].bo].map_data = FALSE]
        /\ Goto(t, "unlock_commit")
  /\ UNCHANGED <<fds, android_buffer_table, handle>>

UnlockCommit(t) ==
  /\ call[t].step = "unlock_commit"
  /\ bos' = [bos EXCEPT ![call[t].bo] = Unlocked(@)]
  /\ Return(t)
  /\ UNCHANGED <<fds, android_buffer_table, handle>>

-----------------------------------------------------------------------------
(* gralloc_gbm_android_buffer_query, behind every getStandardMetadata: it   *)
(* asks libgbm for a descriptor of the BO, which nobody closes.             *)
QueryFind(t, h) ==
  /\ MayCall(h)
  /\ \E bo \in Bo : Enter(t, "query_fd", h, bo, {})
  /\ UNCHANGED <<fds, bos, android_buffer_table, handle>>

QueryFd(t) ==
  /\ call[t].step = "query_fd"
  /\ \E f \in FreshFds : fds' = Opened(f, bos[call[t].bo].buf)
  /\ Return(t)
  /\ UNCHANGED <<bos, android_buffer_table, handle>>

-----------------------------------------------------------------------------
Enters(t, h) ==
  \/ \E b \in Buf : ImportClone(t, h, b)
  \/ FreeFind(t, h)
  \/ \E usage \in LockUsages : LockFind(t, h, usage)
  \/ UnlockFind(t, h)
  \/ QueryFind(t, h)

Continues(t) ==
  \/ ImportBo(t) \/ ImportFail(t) \/ ImportAdd(t)
  \/ FreeDestroy(t) \/ FreeDelete(t)
  \/ LockCheck(t) \/ LockMap(t) \/ LockMapFail(t) \/ LockCommit(t)
  \/ UnlockUnmap(t) \/ UnlockCommit(t)
  \/ QueryFd(t)

Next == \E t \in Thread : Continues(t) \/ \E h \in Handle : Enters(t, h)

Spec == Init /\ [][Next]_vars

-----------------------------------------------------------------------------
(* A thread is about to dereference the entry and the BO its lookup found.  *)
HoldsBuffer(t) == call[t].step \in LockSteps \cup UnlockSteps \cup {"query_fd", "free_destroy"}
EntryOf(t) == [fd |-> handle[call[t].h].fd, bo |-> call[t].bo]

(* The entry is on its way out: gbm_bo_destroy done, delete_buffer not yet. *)
Dying(e) == \E t \in Thread : call[t].step = "free_delete" /\ EntryOf(t) = e

(* The library still manages the buffer behind h.                           *)
Registered(h) == find_buffer_k(handle[h].fd) # {}

(* Two entries of android_buffer_table never share a key, so a lookup has   *)
(* one answer: HASH_ADD_INT does not check, the keys must be distinct       *)
(* because a descriptor is never open twice and never closed while it is a  *)
(* key.                                                                     *)
KeysUnique == \A e, f \in android_buffer_table : e.fd = f.fd => e = f

(* A key and its BO are the same memory: the descriptor is still open and   *)
(* names the dma-buf that the BO was imported from. Locking a handle maps   *)
(* the buffer it was cloned from, not one imported later under a descriptor *)
(* number that was closed too early.                                        *)
KeyNamesBo == \A e \in android_buffer_table :
                ~Dying(e) => fds[e.fd] = bos[e.bo].buf /\ Live(e.bo)

(* What a lookup returned is still there when the thread uses it, whatever  *)
(* other threads import and free in between.                                *)
NoDanglingBuffer == \A t \in Thread : HoldsBuffer(t) =>
                      Live(call[t].bo) /\ EntryOf(t) \in android_buffer_table

(* No BO is lost: a live one is in the table, or its import is about to     *)
(* put it there.                                                            *)
NoOrphanBo == \A bo \in Bo : Live(bo) =>
                \/ \E e \in android_buffer_table : e.bo = bo
                \/ \E t \in Thread : call[t].step = "import_add" /\ call[t].bo = bo

(* Between calls on it, a BO is mapped exactly when its locks need the CPU; *)
(* it is mapped by one lock only, and nothing is left of the last lock.     *)
Busy(bo) == \E t \in Thread : call[t].bo = bo /\ call[t].step \in LockSteps \cup UnlockSteps
LockBook == \A bo \in Bo : ~Busy(bo) =>
              LET d == bos[bo] IN
              /\ d.lock_count >= 0
              /\ d.lock_count = 0 => d.locked_for = {}
              /\ d.map_data <=> d.locked_for \cap SwMask # {}
              /\ d.map_data => d.lock_count = 1

(* "allow multiple locks with compatible usages": a lock that passed the    *)
(* compatibility check is not refused because the BO is mapped already.     *)
CompatibleLockGranted ==
  [][\A t \in Thread : call[t].step = "lock_map" /\ call'[t].step = "idle"
                         => ~bos[call[t].bo].map_data]_vars

(* The same comment, read the other way: a lock never joins held locks that *)
(* it is not compatible with. Between the check and lock_count++ another    *)
(* thread's lock of the same handle may be granted.                         *)
OnlyCompatibleLocks ==
  [][\A bo \in Bo : bos[bo].lock_count > 0 /\ bos'[bo].lock_count > bos[bo].lock_count
                      => bos'[bo].locked_for = bos[bo].locked_for]_vars

-----------------------------------------------------------------------------
(* What the client holds on h. An import takes effect when it returns, a    *)
(* lock or an unlock when lock_count changes, a free when the BO dies.      *)
LeaseOf(h) ==
  LET live == {bos[bo] : bo \in {b \in find_buffer_k(handle[h].fd) : Live(b)}}
      d == CHOOSE x \in live : TRUE
  IN IF ~Given(h) THEN [phase |-> "none", locks |-> 0, used |-> {}]
     ELSE IF live = {} THEN [phase |-> "freed", locks |-> 0, used |-> {}]
     ELSE [phase |-> "held", locks |-> d.lock_count, used |-> d.locked_for]

Leases == INSTANCE BufferLease WITH lease <- [h \in Handle |-> LeaseOf(h)]

(* The calls of a client that does not overlap calls on one handle amount   *)
(* to the leases of BufferLease: handles do not disturb each other although *)
(* they share the table, the descriptors and the BO names; a CPU lock is    *)
(* exclusive; a freed handle never comes back to life.                      *)
ImplementsLeases == Leases!Spec
=============================================================================
