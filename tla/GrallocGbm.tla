----------------------------- MODULE GrallocGbm -----------------------------
(***************************************************************************)
(* The state that libgralloc_gbm (common/gralloc_gbm.c) keeps in one       *)
(* process, and the effect of its functions on it: the descriptor table of *)
(* the process, the GBM buffer objects with the data the library attaches  *)
(* to them, and android_buffer_table, the hash table that leads from the   *)
(* descriptor in a buffer handle to the buffer object.                     *)
(*                                                                         *)
(* GbmMapper (a process that imports buffers) and GbmAllocator (the        *)
(* allocator service) extend this module and call its operators from the   *)
(* steps of their threads.                                                 *)
(***************************************************************************)
EXTENDS Integers, FiniteSets

CONSTANTS
  Fd,         \* the descriptors the process may open (RLIMIT_NOFILE)
  NoFd,       \* -1, what dup() and gbm_bo_get_fd() return when none is left
  Bo,         \* identities of gbm_bo objects
  Buf,        \* dma-bufs: the memory that descriptors and BOs refer to
  NoBuf,      \* no memory: a closed descriptor, a destroyed BO
  UsageBit,   \* bits of a GRALLOC_USAGE_* word
  SwRead,     \* GRALLOC_USAGE_SW_READ_MASK
  SwWrite,    \* GRALLOC_USAGE_SW_WRITE_MASK
  Pick(_)     \* which of the free names in a set the kernel or libgbm may take

ASSUME NullAssumption == NoFd \notin Fd /\ NoBuf \notin Buf
ASSUME UsageAssumption == SwRead \cup SwWrite \subseteq UsageBit
ASSUME PickAssumption ==
  \A S \in (SUBSET Fd) \cup (SUBSET Bo) \cup (SUBSET Buf) :
    Pick(S) \subseteq S /\ (S # {} => Pick(S) # {})

VARIABLES
  fds,                   \* the dma-buf each descriptor names, NoBuf when closed
  bos,                   \* the buffer objects and their gbm_bo_data_t
  android_buffer_table   \* entries [fd, bo] of the hash table

-----------------------------------------------------------------------------
(* A buffer object and the gbm_bo_data_t behind it. The pointer map_data    *)
(* only matters as null or not null.                                        *)
BoState == [buf: Buf \cup {NoBuf}, map_data: BOOLEAN,
            lock_count: Int, locked_for: SUBSET UsageBit]

(* Faulty variant: the user data comes from malloc and is not cleared.      *)
NewBoUncleared(b) == [buf |-> b, map_data |-> NoBuf, lock_count |-> 0, locked_for |-> {}]

(* calloc'ed user data of a BO over dma-buf b.                              *)
NewBo(b) == [buf |-> b, map_data |-> FALSE, lock_count |-> 0, locked_for |-> {}]
DeadBo == NewBo(NoBuf)

Entry == [fd: Fd \cup {NoFd}, bo: Bo]

Live(bo) == bos[bo].buf # NoBuf

LibTypeOK ==
  /\ fds \in [Fd -> Buf \cup {NoBuf}]
  /\ bos \in [Bo -> BoState]
  /\ android_buffer_table \subseteq Entry

LibInit ==
  /\ fds = [f \in Fd |-> NoBuf]
  /\ bos = [b \in Bo |-> DeadBo]
  /\ android_buffer_table = {}

-----------------------------------------------------------------------------
(* The descriptor table of the process (the kernel's).                      *)
ClosedFds == {f \in Fd : fds[f] = NoBuf}

(* What a call that makes a descriptor may return: the kernel hands out a   *)
(* closed one, and -1 when every descriptor is open.                        *)
FreshFds == IF ClosedFds = {} THEN {NoFd} ELSE Pick(ClosedFds)

Opened(f, b) == IF f = NoFd THEN fds ELSE [fds EXCEPT ![f] = b]
Closed(f)    == IF f = NoFd THEN fds ELSE [fds EXCEPT ![f] = NoBuf]

-----------------------------------------------------------------------------
(* Buffer objects (libgbm). The name of a destroyed object is used again    *)
(* once no table entry mentions it.                                         *)
FreshBos == Pick({b \in Bo : ~Live(b) /\ \A e \in android_buffer_table : e.bo # b})

gbm_bo_create(bo, b) == bos' = [bos EXCEPT ![bo] = NewBo(b)]
gbm_bo_destroy(bo)   == bos' = [bos EXCEPT ![bo] = DeadBo]

-----------------------------------------------------------------------------
(* Faulty variants: a lookup that compares hash buckets and not keys (one   *)
(* bucket here); an entry that is not taken out of the table.               *)
find_any_buffer(fd) == {e.bo : e \in android_buffer_table}
keep_buffer(fd, bo) == UNCHANGED android_buffer_table

(* android_buffer_table. HASH_FIND_INT returns one of the entries with the  *)
(* key; HASH_ADD_INT adds without replacing an entry that has the key.      *)
find_buffer_k(fd)  == {e.bo : e \in {x \in android_buffer_table : x.fd = fd}}
add_buffer(fd, bo) == android_buffer_table' =
                        android_buffer_table \cup {[fd |-> fd, bo |-> bo]}
delete_buffer(fd, bo) == android_buffer_table' =
                           android_buffer_table \ {[fd |-> fd, bo |-> bo]}

-----------------------------------------------------------------------------
(* Locking. SwMask is every bit that needs the BO mapped for the CPU.       *)
SwMask == SwRead \cup SwWrite

(* Faulty variants: locked_for & usage != 0 for compatible; an unlock that  *)
(* never clears locked_for.                                                 *)
CompatibleInPart(d, usage) == d.lock_count = 0 \/ usage = {} \/ usage \cap d.locked_for # {}
UnlockedKeepsUsage(d) == [d EXCEPT !.lock_count = @ - 1]

(* The usage a lock asks for must be one the held locks were granted for.   *)
Compatible(d, usage) == d.lock_count = 0 \/ usage \subseteq d.locked_for

(* What lock and unlock leave in the user data when they commit.            *)
Locked(d, usage) == [d EXCEPT !.lock_count = @ + 1, !.locked_for = @ \cup usage]
Unlocked(d) == [d EXCEPT !.lock_count = @ - 1,
                         !.locked_for = IF d.lock_count = 1 THEN {} ELSE @]
=============================================================================
