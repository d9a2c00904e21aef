--------------------------- MODULE GbmMapperProofs ---------------------------
(***************************************************************************)
(* Theorems about GbmMapper, for any number of threads, handles,           *)
(* descriptors, buffer objects and dma-bufs, and whichever descriptors the *)
(* kernel hands out. What is said of the table and of the memory holds     *)
(* whether or not calls overlap on a handle; what is said of the locks,    *)
(* and that the calls implement BufferLease, only where they do not.       *)
(***************************************************************************)
EXTENDS GbmMapper, TLAPS

-----------------------------------------------------------------------------
(* What the operators of GrallocGbm return.                                 *)

(* A descriptor that a call makes was closed, or is -1.                     *)
LEMMA FreshFdsClosed ==
  \A f \in FreshFds : f \in Fd \cup {NoFd} /\ (f # NoFd => fds[f] = NoBuf)
PROOF
  <1>1. ClosedFds \in SUBSET Fd
    BY DEF ClosedFds
  <1>2. Pick(ClosedFds) \subseteq ClosedFds
    BY <1>1, PickAssumption
  <1> QED
    BY <1>1, <1>2 DEF FreshFds, ClosedFds

(* A BO that libgbm makes takes the place of no live and no registered one. *)
LEMMA FreshBosUnused ==
  \A bo \in FreshBos : bo \in Bo /\ ~Live(bo) /\ \A e \in android_buffer_table : e.bo # bo
PROOF
  <1> DEFINE S == {b \in Bo : ~Live(b) /\ \A e \in android_buffer_table : e.bo # b}
  <1>1. S \in SUBSET Bo
    OBVIOUS
  <1>2. Pick(S) \subseteq S
    BY <1>1, PickAssumption
  <1> QED
    BY <1>2 DEF FreshBos

(* Locking and unlocking leave the memory of a BO alone.                    *)
LEMMA LockKeepsBuf ==
  ASSUME NEW d \in BoState, NEW usage \in SUBSET UsageBit
  PROVE  /\ Locked(d, usage) \in BoState /\ Locked(d, usage).buf = d.buf
         /\ Unlocked(d) \in BoState /\ Unlocked(d).buf = d.buf
PROOF
  <1>1. ASSUME NEW n \in Int, NEW used \in SUBSET UsageBit
        PROVE  /\ [d EXCEPT !.lock_count = n, !.locked_for = used] \in BoState
               /\ [d EXCEPT !.lock_count = n, !.locked_for = used].buf = d.buf
    BY DEF BoState
  <1>2. d.lock_count \in Int /\ d.locked_for \in SUBSET UsageBit
    BY DEF BoState
  <1>3. /\ d.lock_count + 1 \in Int /\ d.lock_count - 1 \in Int
        /\ d.locked_for \cup usage \in SUBSET UsageBit
        /\ (IF d.lock_count = 1 THEN {} ELSE d.locked_for) \in SUBSET UsageBit
    BY <1>2
  <1> QED
    BY <1>1, <1>3 DEF Locked, Unlocked

LEMMA NewBoTyped == \A b \in Buf \cup {NoBuf} : NewBo(b) \in BoState
PROOF
  BY DEF NewBo, BoState

-----------------------------------------------------------------------------
(* The inductive invariant. A key of the table is the descriptor of exactly *)
(* one handle, which stays open for as long as the handle has it; at most   *)
(* one thread imports or frees a handle, and then no other call is on it.   *)
Past(t) == call[t].step \notin {"idle"} \cup ImportSteps   \* t has found its entry

CallsFormed == \A t \in Thread :
  /\ call[t].step = "idle" => call[t] = Idle
  /\ call[t].step # "idle" => call[t].h \in Handle /\ handle[call[t].h].fd \in Fd
  /\ call[t].step \notin {"idle", "import_bo"} => call[t].bo \in Bo

CallsExclusive == \A t, u \in Thread :
  call[t].step \in ImportSteps \cup FreeSteps /\ t # u => call[u].h # call[t].h

HandlesOpen == \A h \in Handle : handle[h].fd # NoFd => fds[handle[h].fd] # NoBuf

HandlesDistinct == \A g, h \in Handle :
  handle[g].fd = handle[h].fd /\ handle[h].fd # NoFd => g = h

KeysGiven == \A e \in android_buffer_table :
  e.fd # NoFd /\ \E h \in Handle : handle[h].fd = e.fd

BosDistinct == \A e, f \in android_buffer_table : e.bo = f.bo => e = f

ImportsUnregistered == \A t \in Thread : call[t].step \in ImportSteps =>
  \A e \in android_buffer_table : e.fd # handle[call[t].h].fd

ImportsPrivate == \A t \in Thread : call[t].step = "import_add" =>
  /\ Live(call[t].bo)
  /\ bos[call[t].bo].buf = fds[handle[call[t].h].fd]
  /\ \A e \in android_buffer_table : e.bo # call[t].bo
  /\ \A u \in Thread : u # t /\ call[u].step = "import_add" => call[u].bo # call[t].bo

CallsRegistered == \A t \in Thread : Past(t) => EntryOf(t) \in android_buffer_table

DestroyedDead == \A t \in Thread : call[t].step = "free_delete" => ~Live(call[t].bo)

IInv == /\ TypeOK /\ CallsFormed /\ CallsExclusive
        /\ HandlesOpen /\ HandlesDistinct
        /\ KeysGiven /\ KeysUnique /\ BosDistinct /\ KeyNamesBo
        /\ ImportsUnregistered /\ ImportsPrivate
        /\ CallsRegistered /\ DestroyedDead /\ NoOrphanBo

LEMMA InvInit == Init => IInv
PROOF
  <1> SUFFICES ASSUME Init PROVE IInv
    OBVIOUS
  <1>1. TypeOK
    <2>1. DeadBo \in BoState
      BY NewBoTyped DEF DeadBo
    <2>2. NullHandle \in [fd: Fd \cup {NoFd}, usage: SUBSET UsageBit]
      BY DEF NullHandle
    <2>3. Idle \in CallState
      BY DEF Idle, CallState, Steps
    <2> QED
      BY <2>1, <2>2, <2>3 DEF Init, LibInit, TypeOK, LibTypeOK
  <1>2. \A t \in Thread : call[t] = Idle /\ call[t].step = "idle"
    BY DEF Init, Idle
  <1>3. \A h \in Handle : handle[h].fd = NoFd
    BY DEF Init, NullHandle
  <1>4. android_buffer_table = {} /\ \A bo \in Bo : ~Live(bo)
    BY DEF Init, LibInit, Live, DeadBo, NewBo
  <1>5. \A t \in Thread : call[t].step \notin ImportSteps \cup FreeSteps /\ ~Past(t)
    BY <1>2 DEF ImportSteps, FreeSteps, Past
  <1>6. CallsFormed /\ CallsExclusive
    BY <1>2, <1>5 DEF CallsFormed, CallsExclusive
  <1>7. HandlesOpen /\ HandlesDistinct
    BY <1>3 DEF HandlesOpen, HandlesDistinct
  <1>8. KeysGiven /\ KeysUnique /\ BosDistinct /\ KeyNamesBo
    BY <1>4 DEF KeysGiven, KeysUnique, BosDistinct, KeyNamesBo
  <1>9. ImportsUnregistered /\ ImportsPrivate /\ CallsRegistered /\ DestroyedDead
    BY <1>2, <1>5 DEF ImportsUnregistered, ImportsPrivate, CallsRegistered, DestroyedDead
  <1>10. NoOrphanBo
    BY <1>4 DEF NoOrphanBo
  <1> QED
    BY <1>1, <1>6, <1>7, <1>8, <1>9, <1>10 DEF IInv

-----------------------------------------------------------------------------
(* A step that leaves handles, table and memory of the BOs alone, closes no *)
(* descriptor, and after which its thread is idle or past a lookup.         *)
Holding(t, c) ==
  /\ c.step \in LockSteps \cup UnlockSteps \cup {"query_fd", "free_destroy"}
  /\ c.h \in Handle
  /\ [fd |-> handle[c.h].fd, bo |-> c.bo] \in android_buffer_table
  /\ \A u \in Thread : u # t /\ call[u].h = c.h =>
       call[u].step \notin ImportSteps \cup FreeSteps /\ c.step \notin FreeSteps

LEMMA QuietStep ==
  ASSUME IInv, NEW t \in Thread, NEW c \in CallState,
         call[t].step \notin ImportSteps \cup FreeSteps,
         c = Idle \/ Holding(t, c),
         call' = [call EXCEPT ![t] = c],
         bos' \in [Bo -> BoState],
         \A bo \in Bo : bos'[bo].buf = bos[bo].buf,
         fds' \in [Fd -> Buf \cup {NoBuf}],
         \A f \in Fd : fds[f] # NoBuf => fds'[f] = fds[f],
         UNCHANGED <<android_buffer_table, handle>>
  PROVE  IInv'
PROOF
  <1>0. /\ TypeOK /\ CallsFormed /\ CallsExclusive /\ HandlesOpen /\ HandlesDistinct
        /\ KeysGiven /\ KeysUnique /\ BosDistinct /\ KeyNamesBo
        /\ ImportsUnregistered /\ ImportsPrivate /\ CallsRegistered /\ DestroyedDead
        /\ NoOrphanBo
    BY DEF IInv
  <1>1. TypeOK'
    BY <1>0 DEF TypeOK, LibTypeOK
  <1>2. /\ call'[t] = c
        /\ \A u \in Thread : u # t => call'[u] = call[u]
    BY <1>0 DEF TypeOK
  <1>3. /\ c.step \notin ImportSteps \cup {"free_delete"}
        /\ c.step \in FreeSteps => Holding(t, c)
    BY DEF Holding, Idle, LockSteps, UnlockSteps, ImportSteps, FreeSteps
  <1>4. \A e \in android_buffer_table : e \in Entry /\ e.bo \in Bo /\ e.fd \in Fd /\ fds[e.fd] # NoBuf
    BY <1>0 DEF KeysGiven, HandlesOpen, TypeOK, LibTypeOK, Entry
  <1>5. c.step # "idle" => Holding(t, c) /\ handle[c.h].fd \in Fd /\ c.bo \in Bo
    BY <1>4 DEF Holding, Idle
  <1>6. CallsFormed'
    <2> SUFFICES ASSUME NEW u \in Thread
                 PROVE  /\ call'[u].step = "idle" => call'[u] = Idle
                        /\ call'[u].step # "idle" =>
                             call'[u].h \in Handle /\ handle[call'[u].h].fd \in Fd
                        /\ call'[u].step \notin {"idle", "import_bo"} => call'[u].bo \in Bo
      BY DEF CallsFormed
    <2>1. CASE u = t
      <3>1. Holding(t, c) => c.step # "idle"
        BY DEF Holding, LockSteps, UnlockSteps
      <3>2. Holding(t, c) => c.h \in Handle
        BY DEF Holding
      <3>3. c.step = "idle" => c = Idle
        BY <3>1
      <3> QED
        BY <1>2, <1>5, <2>1, <3>2, <3>3
    <2>2. CASE u # t
      BY <1>0, <1>2, <2>2 DEF CallsFormed
    <2> QED
      BY <2>1, <2>2
  <1>7. CallsExclusive'
    <2> SUFFICES ASSUME NEW v \in Thread, NEW u \in Thread, v # u,
                        call'[v].step \in ImportSteps \cup FreeSteps
                 PROVE  call'[u].h # call'[v].h
      BY DEF CallsExclusive
    <2>1. CASE v = t
      BY <1>2, <1>3, <2>1 DEF Holding
    <2>2. CASE u = t
      <3>1. call[v].step \in ImportSteps \cup FreeSteps /\ call'[v] = call[v]
        BY <1>2, <2>2
      <3>2. call[v].h \in Handle
        BY <1>0, <3>1 DEF CallsFormed, ImportSteps, FreeSteps
      <3> QED
        BY <1>2, <2>2, <3>1, <3>2, ClientAssumption DEF Holding, Idle
    <2>3. CASE v # t /\ u # t
      BY <1>0, <1>2, <2>3 DEF CallsExclusive
    <2> QED
      BY <2>1, <2>2, <2>3
  <1>8. HandlesOpen' /\ HandlesDistinct'
    BY <1>0 DEF HandlesOpen, HandlesDistinct, TypeOK
  <1>9. KeysGiven' /\ KeysUnique' /\ BosDistinct'
    BY <1>0 DEF KeysGiven, KeysUnique, BosDistinct
  <1>10. \A bo \in Bo : Live(bo)' <=> Live(bo)
    BY DEF Live
  <1>11. \A e : Dying(e) => Dying(e)'
    BY <1>2 DEF Dying, EntryOf, FreeSteps
  <1>12. KeyNamesBo'
    BY <1>0, <1>4, <1>10, <1>11 DEF KeyNamesBo
  <1>13. ImportsUnregistered'
    BY <1>0, <1>2, <1>3 DEF ImportsUnregistered
  <1>14. ImportsPrivate'
    <2> SUFFICES ASSUME NEW u \in Thread, call'[u].step = "import_add"
                 PROVE  /\ Live(call[u].bo)'
                        /\ bos'[call'[u].bo].buf = fds'[handle'[call'[u].h].fd]
                        /\ \A e \in android_buffer_table' : e.bo # call'[u].bo
                        /\ \A v \in Thread : v # u /\ call'[v].step = "import_add"
                             => call'[v].bo # call'[u].bo
      BY DEF ImportsPrivate
    <2>1. u # t /\ call'[u] = call[u] /\ call[u].step = "import_add"
      BY <1>2, <1>3 DEF ImportSteps
    <2>2. call[u].bo \in Bo /\ call[u].h \in Handle /\ handle[call[u].h].fd \in Fd
      BY <1>0, <2>1 DEF CallsFormed
    <2>3. \A v \in Thread : call'[v].step = "import_add" => v # t /\ call'[v] = call[v]
      BY <1>2, <1>3 DEF ImportSteps
    <2> QED
      BY <1>0, <1>10, <2>1, <2>2, <2>3, NullAssumption DEF ImportsPrivate, HandlesOpen
  <1>15. CallsRegistered'
    <2> SUFFICES ASSUME NEW u \in Thread, call'[u].step \notin {"idle"} \cup ImportSteps
                 PROVE  [fd |-> handle[call'[u].h].fd, bo |-> call'[u].bo]
                          \in android_buffer_table
      BY DEF CallsRegistered, Past, EntryOf
    <2>1. CASE u = t
      BY <1>2, <1>5, <2>1 DEF Holding
    <2>2. CASE u # t
      BY <1>0, <1>2, <2>2 DEF CallsRegistered, Past, EntryOf
    <2> QED
      BY <2>1, <2>2
  <1>16. DestroyedDead'
    BY <1>0, <1>2, <1>3, <1>10 DEF DestroyedDead, CallsFormed
  <1>17. NoOrphanBo'
    BY <1>0, <1>2, <1>10 DEF NoOrphanBo, ImportSteps
  <1> QED
    BY <1>1, <1>6, <1>7, <1>8, <1>9, <1>12, <1>13, <1>14, <1>15, <1>16, <1>17 DEF IInv

(* The steps that enter a call other than importBuffer.                     *)
LEMMA EnterSteps ==
  ASSUME IInv, NEW t \in Thread, NEW h \in Handle,
         \/ FreeFind(t, h) \/ UnlockFind(t, h) \/ QueryFind(t, h)
         \/ \E usage \in LockUsages : LockFind(t, h, usage)
  PROVE  IInv'
PROOF
  <1>0. TypeOK /\ UNCHANGED <<fds, bos, android_buffer_table, handle>>
    BY DEF IInv, FreeFind, LockFind, UnlockFind, QueryFind
  <1>1. PICK step \in Steps, bo \in Bo, use \in SUBSET UsageBit :
          /\ Enter(t, step, h, bo, use)
          /\ \/ step = "free_destroy" /\ MayFree(h)
             \/ step \in {"lock_check", "unlock_unmap", "query_fd"} /\ MayCall(h)
    <2>1. CASE FreeFind(t, h)
      BY <2>1 DEF FreeFind, Steps, FreeSteps
    <2>2. CASE \E usage \in LockUsages : LockFind(t, h, usage)
      BY <2>2, ClientAssumption DEF LockFind, Steps, LockSteps
    <2>3. CASE UnlockFind(t, h)
      BY <2>3 DEF UnlockFind, Steps, UnlockSteps
    <2>4. CASE QueryFind(t, h)
      BY <2>4 DEF QueryFind, Steps
    <2> QED
      BY <2>1, <2>2, <2>3, <2>4
  <1> DEFINE c == [step |-> step, h |-> h, bo |-> bo, usage |-> use]
  <1>2. c \in CallState
    BY DEF CallState
  <1>3. call[t].step = "idle" /\ call' = [call EXCEPT ![t] = c]
    BY <1>1 DEF Enter, Idle
  <1>4. [fd |-> handle[h].fd, bo |-> bo] \in android_buffer_table
    BY <1>0, <1>1 DEF Enter, find_buffer_k, TypeOK, LibTypeOK, Entry
  <1>5. \A u \in Thread : call[u].h = h =>
          call[u].step \notin ImportSteps \cup FreeSteps /\ step \notin FreeSteps
    BY <1>1 DEF MayFree, MayCall, Given, InCall, FreeSteps
  <1>6. Holding(t, c)
    BY <1>1, <1>4, <1>5 DEF Holding, LockSteps, UnlockSteps
  <1> HIDE DEF c
  <1> QED
    BY <1>0, <1>2, <1>3, <1>6, QuietStep DEF ImportSteps, FreeSteps, TypeOK, LibTypeOK

(* A thread past its lookup, and not freeing, goes on or returns.           *)
LEMMA ContinueQuietly ==
  ASSUME IInv, NEW t \in Thread, NEW c \in CallState,
         call[t].step \in LockSteps \cup UnlockSteps \cup {"query_fd"},
         \/ c = Idle
         \/ c.step \in LockSteps \cup UnlockSteps /\ c.h = call[t].h /\ c.bo = call[t].bo
  PROVE  /\ call[t].step \notin ImportSteps \cup FreeSteps
         /\ c = Idle \/ Holding(t, c)
         /\ call[t].bo \in Bo
PROOF
  <1>1. Past(t) /\ call[t].step \notin FreeSteps
    BY DEF Past, LockSteps, UnlockSteps, ImportSteps, FreeSteps
  <1>2. EntryOf(t) \in android_buffer_table /\ call[t].h \in Handle /\ call[t].bo \in Bo
    BY <1>1 DEF IInv, CallsRegistered, CallsFormed, Past, ImportSteps
  <1>3. \A u \in Thread : u # t /\ call[u].h = call[t].h =>
          call[u].step \notin ImportSteps \cup FreeSteps
    BY DEF IInv, CallsExclusive
  <1> QED
    BY <1>1, <1>2, <1>3 DEF Holding, EntryOf, Past, LockSteps, UnlockSteps, FreeSteps

LEMMA IdleTyped == Idle \in CallState
PROOF
  BY DEF Idle, CallState, Steps

LEMMA MapKeepsBuf ==
  ASSUME NEW d \in BoState, NEW m \in BOOLEAN
  PROVE  [d EXCEPT !.map_data = m] \in BoState /\ [d EXCEPT !.map_data = m].buf = d.buf
PROOF
  BY DEF BoState

(* The steps of lock, unlock and getStandardMetadata after the lookup.      *)
LEMMA QuietSteps ==
  ASSUME IInv, NEW t \in Thread,
         \/ LockCheck(t) \/ LockMap(t) \/ LockMapFail(t) \/ LockCommit(t)
         \/ UnlockUnmap(t) \/ UnlockCommit(t) \/ QueryFd(t)
  PROVE  IInv'
PROOF
  <1>0. /\ fds \in [Fd -> Buf \cup {NoBuf}] /\ bos \in [Bo -> BoState]
        /\ call \in [Thread -> CallState]
        /\ UNCHANGED <<android_buffer_table, handle>>
    BY DEF IInv, TypeOK, LibTypeOK, LockCheck, LockMap, LockMapFail, LockCommit,
           UnlockUnmap, UnlockCommit, QueryFd
  <1>1. call[t].step \in LockSteps \cup UnlockSteps \cup {"query_fd"}
    BY DEF LockCheck, LockMap, LockMapFail, LockCommit, UnlockUnmap, UnlockCommit, QueryFd,
           LockSteps, UnlockSteps
  <1>2. call[t].bo \in Bo /\ call[t].step \notin ImportSteps \cup FreeSteps
    BY <1>1, IdleTyped, ContinueQuietly
  <1>3. call[t] \in CallState /\ call[t].usage \in SUBSET UsageBit /\ bos[call[t].bo] \in BoState
    BY <1>0, <1>2 DEF CallState
  (* The thread: it returns, or takes another step on the same buffer.      *)
  <1>4. \E c \in CallState :
          /\ call' = [call EXCEPT ![t] = c]
          /\ \/ c = Idle
             \/ c.step \in LockSteps \cup UnlockSteps /\ c.h = call[t].h /\ c.bo = call[t].bo
    <2>1. ASSUME NEW usage \in SUBSET UsageBit, NEW step \in LockSteps \cup UnlockSteps,
                 call' = [call EXCEPT ![t].usage = usage, ![t].step = step]
          PROVE  <1>4!:
      <3> DEFINE c == [call[t] EXCEPT !.usage = usage, !.step = step]
      <3>1. step \in Steps
        BY DEF Steps
      <3>2. /\ c \in CallState
            /\ c.step = step /\ c.h = call[t].h /\ c.bo = call[t].bo
        BY <1>3, <3>1 DEF CallState
      <3>3. call' = [call EXCEPT ![t] = c]
        BY <1>0, <2>1
      <3> QED
        BY <3>2, <3>3
    <2>2. ASSUME NEW step \in LockSteps \cup UnlockSteps, Goto(t, step)
          PROVE  <1>4!:
      <3> DEFINE c == [call[t] EXCEPT !.step = step]
      <3>1. step \in Steps
        BY DEF Steps
      <3>2. /\ c \in CallState
            /\ c.step = step /\ c.h = call[t].h /\ c.bo = call[t].bo
        BY <1>3, <3>1 DEF CallState
      <3>3. call' = [call EXCEPT ![t] = c]
        BY <1>0, <2>2 DEF Goto
      <3> QED
        BY <3>2, <3>3
    <2>3. ASSUME Return(t) PROVE <1>4!:
      BY <2>3, IdleTyped DEF Return
    <2>4. CASE LockCheck(t)
      <3>1. call[t].usage \cup bos[call[t].bo].locked_for \in SUBSET UsageBit
        BY <1>3 DEF BoState
      <3> QED
        BY <2>1, <2>3, <2>4, <3>1 DEF LockCheck, LockSteps
    <2>5. CASE LockMap(t) \/ LockMapFail(t) \/ LockCommit(t)
      BY <2>2, <2>3, <2>5 DEF LockMap, LockMapFail, LockCommit, LockSteps
    <2>6. CASE UnlockUnmap(t) \/ UnlockCommit(t) \/ QueryFd(t)
      BY <2>2, <2>3, <2>6 DEF UnlockUnmap, UnlockCommit, QueryFd, UnlockSteps
    <2> QED
      BY <2>4, <2>5, <2>6
  (* The BOs: one may change, but not its memory.                           *)
  <1>5. bos' \in [Bo -> BoState] /\ \A bo \in Bo : bos'[bo].buf = bos[bo].buf
    <2>1. ASSUME NEW d \in BoState, d.buf = bos[call[t].bo].buf,
                 bos' = [bos EXCEPT ![call[t].bo] = d]
          PROVE  <1>5!:
      BY <1>0, <1>2, <2>1
    <2>2. CASE UNCHANGED bos
      BY <1>0, <2>2
    <2>3. ASSUME NEW m \in BOOLEAN, bos' = [bos EXCEPT ![call[t].bo].map_data = m]
          PROVE  <1>5!:
      <3>1. bos' = [bos EXCEPT ![call[t].bo] = [bos[call[t].bo] EXCEPT !.map_data = m]]
        BY <2>3
      <3> QED
        BY <1>3, <2>1, <3>1, MapKeepsBuf
    <2>4. CASE LockMap(t)
      BY <2>3, <2>4 DEF LockMap
    <2>5. CASE UnlockUnmap(t)
      BY <2>2, <2>3, <2>5 DEF UnlockUnmap
    <2>6. CASE LockCommit(t)
      BY <1>3, <2>1, <2>6, LockKeepsBuf DEF LockCommit
    <2>7. CASE UnlockCommit(t)
      BY <1>3, <2>1, <2>7, LockKeepsBuf DEF UnlockCommit
    <2>8. CASE LockCheck(t) \/ LockMapFail(t) \/ QueryFd(t)
      BY <2>2, <2>8 DEF LockCheck, LockMapFail, QueryFd
    <2> QED
      BY <2>4, <2>5, <2>6, <2>7, <2>8
  (* The descriptors: a query opens one.                                    *)
  <1>6. /\ fds' \in [Fd -> Buf \cup {NoBuf}]
        /\ \A f \in Fd : fds[f] # NoBuf => fds'[f] = fds[f]
    <2>1. CASE QueryFd(t)
      <3>1. PICK f \in FreshFds : fds' = Opened(f, bos[call[t].bo].buf)
        BY <2>1 DEF QueryFd
      <3>2. f \in Fd \cup {NoFd} /\ (f # NoFd => fds[f] = NoBuf)
        BY FreshFdsClosed
      <3>3. bos[call[t].bo].buf \in Buf \cup {NoBuf}
        BY <1>3 DEF BoState
      <3> QED
        BY <1>0, <3>1, <3>2, <3>3 DEF Opened
    <2>2. CASE UNCHANGED fds
      BY <1>0, <2>2
    <2> QED
      BY <2>1, <2>2 DEF LockCheck, LockMap, LockMapFail, LockCommit, UnlockUnmap, UnlockCommit
  <1>7. PICK c \in CallState :
          /\ call' = [call EXCEPT ![t] = c]
          /\ \/ c = Idle
             \/ c.step \in LockSteps \cup UnlockSteps /\ c.h = call[t].h /\ c.bo = call[t].bo
    BY <1>4
  <1>8. c = Idle \/ Holding(t, c)
    BY <1>1, <1>7, ContinueQuietly
  <1> QED
    BY <1>0, <1>2, <1>5, <1>6, <1>7, <1>8, QuietStep

-----------------------------------------------------------------------------
(* The steps that move a buffer into and out of the table.                  *)
LEMMA KeysOpen ==
  IInv => \A e \in android_buffer_table : e.bo \in Bo /\ e.fd \in Fd /\ fds[e.fd] # NoBuf
PROOF
  BY DEF IInv, KeysGiven, HandlesOpen, TypeOK, LibTypeOK, Entry

LEMMA ImportCloneStep ==
  ASSUME IInv, NEW t \in Thread, NEW h \in Handle, NEW b \in Buf, ImportClone(t, h, b)
  PROVE  IInv'
PROOF
  <1>0. /\ TypeOK /\ CallsFormed /\ CallsExclusive /\ HandlesOpen /\ HandlesDistinct
        /\ KeysGiven /\ KeysUnique /\ BosDistinct /\ KeyNamesBo
        /\ ImportsUnregistered /\ ImportsPrivate /\ CallsRegistered /\ DestroyedDead
        /\ NoOrphanBo
    BY DEF IInv
  <1>1. PICK f \in FreshFds \ {NoFd} :
          /\ fds' = Opened(f, b)
          /\ handle' = [handle EXCEPT ![h] = [fd |-> f, usage |-> BufUsage[b]]]
    BY DEF ImportClone
  <1>2. f \in Fd /\ fds[f] = NoBuf
    BY FreshFdsClosed
  <1> DEFINE c == [Idle EXCEPT !.step = "import_bo", !.h = h]
  <1>3. c \in CallState /\ c.step = "import_bo" /\ c.h = h
    BY DEF Idle, CallState, Steps, ImportSteps
  <1>4. /\ UNCHANGED <<bos, android_buffer_table>>
        /\ call' = [call EXCEPT ![t] = c]
        /\ call[t] = Idle /\ handle[h].fd = NoFd
        /\ \A u \in Thread : call[u].h # h
    BY DEF ImportClone, NullHandle, InCall
  <1> HIDE DEF c
  <1>5. TypeOK'
    BY <1>0, <1>1, <1>2, <1>3, <1>4, ClientAssumption DEF TypeOK, LibTypeOK, Opened
  <1>6. /\ call'[t] = c
        /\ \A u \in Thread : u # t => call'[u] = call[u]
        /\ handle'[h].fd = f
        /\ \A g \in Handle : g # h => handle'[g] = handle[g]
    BY <1>0, <1>1, <1>4 DEF TypeOK
  <1>7. fds'[f] = b /\ \A x \in Fd : x # f => fds'[x] = fds[x]
    BY <1>0, <1>1, <1>2 DEF TypeOK, LibTypeOK, Opened
  (* The other calls and the entries see nothing of it.                     *)
  <1>8. \A u \in Thread : u # t /\ call[u].step # "idle" =>
          /\ handle'[call[u].h] = handle[call[u].h]
          /\ call[u].h \in Handle /\ handle[call[u].h].fd \in Fd
          /\ fds[handle[call[u].h].fd] # NoBuf
          /\ fds'[handle[call[u].h].fd] = fds[handle[call[u].h].fd]
    BY <1>0, <1>2, <1>4, <1>6, <1>7, NullAssumption DEF CallsFormed, HandlesOpen
  <1>9. \A e \in android_buffer_table :
          e.bo \in Bo /\ e.fd \in Fd /\ e.fd # f /\ fds'[e.fd] = fds[e.fd]
    BY <1>2, <1>7, KeysOpen
  <1>10. call[t].step = "idle" /\ \A bo \in Bo : Live(bo)' <=> Live(bo)
    BY <1>4 DEF Idle, Live
  <1>11. CallsFormed'
    BY <1>0, <1>2, <1>3, <1>6, <1>8 DEF CallsFormed
  <1>12. CallsExclusive'
    BY <1>0, <1>3, <1>4, <1>6 DEF CallsExclusive
  <1>13. HandlesOpen'
    <2> SUFFICES ASSUME NEW g \in Handle, handle'[g].fd # NoFd
                 PROVE  fds'[handle'[g].fd] # NoBuf
      BY DEF HandlesOpen
    <2>1. CASE g = h
      BY <1>6, <1>7, <2>1, NullAssumption
    <2>2. CASE g # h
      <3>1. handle'[g] = handle[g] /\ fds[handle[g].fd] # NoBuf /\ handle[g].fd \in Fd
        BY <1>0, <1>6, <2>2 DEF HandlesOpen, TypeOK
      <3> QED
        BY <1>2, <1>7, <3>1
    <2> QED
      BY <2>1, <2>2
  <1>14. HandlesDistinct'
    BY <1>0, <1>2, <1>6 DEF HandlesDistinct, HandlesOpen
  <1>15. KeysGiven'
    BY <1>0, <1>4, <1>6 DEF KeysGiven
  <1>16. KeysUnique' /\ BosDistinct'
    BY <1>0, <1>4 DEF KeysUnique, BosDistinct
  <1>17. \A e : Dying(e) => Dying(e)'
    BY <1>6, <1>8, <1>10 DEF Dying, EntryOf
  <1>18. KeyNamesBo'
    BY <1>0, <1>4, <1>9, <1>10, <1>17 DEF KeyNamesBo
  <1>19. ImportsUnregistered'
    BY <1>0, <1>3, <1>4, <1>6, <1>8, <1>9 DEF ImportsUnregistered, ImportSteps
  <1>20. ImportsPrivate'
    <2> SUFFICES ASSUME NEW u \in Thread, call'[u].step = "import_add"
                 PROVE  /\ Live(call[u].bo)'
                        /\ bos'[call'[u].bo].buf = fds'[handle'[call'[u].h].fd]
                        /\ \A e \in android_buffer_table' : e.bo # call'[u].bo
                        /\ \A v \in Thread : v # u /\ call'[v].step = "import_add"
                             => call'[v].bo # call'[u].bo
      BY DEF ImportsPrivate
    <2>1. \A v \in Thread : call'[v].step = "import_add" => v # t /\ call'[v] = call[v]
      BY <1>3, <1>6
    <2>2. call[u].bo \in Bo
      BY <1>0, <2>1 DEF CallsFormed
    <2> QED
      BY <1>0, <1>4, <1>8, <1>10, <2>1, <2>2 DEF ImportsPrivate
  <1>21. CallsRegistered'
    BY <1>0, <1>3, <1>4, <1>6, <1>8 DEF CallsRegistered, Past, EntryOf, ImportSteps
  <1>22. DestroyedDead'
    BY <1>0, <1>3, <1>6, <1>10 DEF DestroyedDead, CallsFormed
  <1>23. NoOrphanBo'
    BY <1>0, <1>4, <1>6, <1>10 DEF NoOrphanBo
  <1> QED
    BY <1>5, <1>11, <1>12, <1>13, <1>14, <1>15, <1>16, <1>18, <1>19, <1>20, <1>21, <1>22, <1>23
    DEF IInv

LEMMA ImportBoStep ==
  ASSUME IInv, NEW t \in Thread, ImportBo(t)
  PROVE  IInv'
PROOF
  <1>0. /\ TypeOK /\ CallsFormed /\ CallsExclusive /\ HandlesOpen /\ HandlesDistinct
        /\ KeysGiven /\ KeysUnique /\ BosDistinct /\ KeyNamesBo
        /\ ImportsUnregistered /\ ImportsPrivate /\ CallsRegistered /\ DestroyedDead
        /\ NoOrphanBo
    BY DEF IInv
  <1>1. /\ call[t].step = "import_bo" /\ call[t].h \in Handle /\ handle[call[t].h].fd \in Fd
        /\ UNCHANGED <<fds, android_buffer_table, handle>>
    BY <1>0 DEF ImportBo, CallsFormed
  <1>2. PICK bo \in FreshBos :
          /\ bos' = [bos EXCEPT ![bo] = NewBo(fds[handle[call[t].h].fd])]
          /\ call' = [call EXCEPT ![t].step = "import_add", ![t].bo = bo]
    BY DEF ImportBo, gbm_bo_create
  <1>3. bo \in Bo /\ ~Live(bo) /\ \A e \in android_buffer_table : e.bo # bo
    BY FreshBosUnused
  <1>4. TypeOK'
    <2>1. fds[handle[call[t].h].fd] \in Buf \cup {NoBuf}
      BY <1>0, <1>1 DEF TypeOK, LibTypeOK
    <2>2. bos' \in [Bo -> BoState]
      BY <1>0, <1>2, <1>3, <2>1, NewBoTyped DEF TypeOK, LibTypeOK
    <2>3. \A c \in CallState : [c EXCEPT !.step = "import_add", !.bo = bo] \in CallState
      BY <1>3 DEF CallState, Steps, ImportSteps
    <2>4. call' = [call EXCEPT ![t] = [call[t] EXCEPT !.step = "import_add", !.bo = bo]]
      BY <1>2
    <2>5. call' \in [Thread -> CallState]
      BY <1>0, <2>3, <2>4 DEF TypeOK
    <2> QED
      BY <1>0, <1>1, <2>2, <2>5 DEF TypeOK, LibTypeOK
  <1>5. /\ call'[t].step = "import_add" /\ call'[t].bo = bo /\ call'[t].h = call[t].h
        /\ \A u \in Thread : u # t => call'[u] = call[u]
    BY <1>0, <1>2 DEF TypeOK, CallState
  <1>6. /\ bos'[bo].buf = fds[handle[call[t].h].fd] /\ fds[handle[call[t].h].fd] # NoBuf
        /\ \A x \in Bo : x # bo => bos'[x] = bos[x]
    BY <1>0, <1>1, <1>2, <1>3, NullAssumption
    DEF NewBo, HandlesOpen, TypeOK, LibTypeOK
  <1>7. Live(bo)' /\ \A x \in Bo : x # bo => (Live(x)' <=> Live(x))
    BY <1>3, <1>6 DEF Live
  <1>8. CallsFormed'
    BY <1>0, <1>1, <1>3, <1>5 DEF CallsFormed
  <1>9. CallsExclusive'
    BY <1>0, <1>1, <1>5 DEF CallsExclusive, ImportSteps
  <1>10. HandlesOpen' /\ HandlesDistinct' /\ KeysGiven' /\ KeysUnique' /\ BosDistinct'
    BY <1>0, <1>1 DEF HandlesOpen, HandlesDistinct, KeysGiven, KeysUnique, BosDistinct
  <1>11. \A e : Dying(e) => Dying(e)'
    BY <1>1, <1>5 DEF Dying, EntryOf
  <1>12. KeyNamesBo'
    BY <1>0, <1>1, <1>3, <1>6, <1>7, <1>11, KeysOpen DEF KeyNamesBo
  <1>13. ImportsUnregistered'
    BY <1>0, <1>1, <1>5 DEF ImportsUnregistered, ImportSteps
  <1>14. ImportsPrivate'
    <2> SUFFICES ASSUME NEW u \in Thread, call'[u].step = "import_add"
                 PROVE  /\ Live(call[u].bo)'
                        /\ bos'[call'[u].bo].buf = fds'[handle'[call'[u].h].fd]
                        /\ \A e \in android_buffer_table' : e.bo # call'[u].bo
                        /\ \A v \in Thread : v # u /\ call'[v].step = "import_add"
                             => call'[v].bo # call'[u].bo
      BY DEF ImportsPrivate
    <2>1. CASE u = t
      <3>1. \A v \in Thread : v # t /\ call[v].step = "import_add" => call[v].bo # bo
        BY <1>0, <1>3 DEF ImportsPrivate
      <3> QED
        BY <1>1, <1>3, <1>5, <1>6, <1>7, <2>1, <3>1
    <2>2. CASE u # t
      <3>1. /\ call'[u] = call[u] /\ Live(call[u].bo) /\ call[u].bo \in Bo
            /\ \A v \in Thread : v # u /\ call[v].step = "import_add" => call[v].bo # call[u].bo
        BY <1>0, <1>5, <2>2 DEF ImportsPrivate, CallsFormed
      <3>2. call[u].bo # bo
        BY <1>3, <3>1
      <3> QED
        BY <1>0, <1>1, <1>5, <1>6, <1>7, <2>2, <3>1, <3>2 DEF ImportsPrivate
    <2> QED
      BY <2>1, <2>2
  <1>15. CallsRegistered'
    BY <1>0, <1>1, <1>5 DEF CallsRegistered, Past, EntryOf, ImportSteps
  <1>16. DestroyedDead'
    <2> SUFFICES ASSUME NEW u \in Thread, call'[u].step = "free_delete"
                 PROVE  bos'[call'[u].bo].buf = NoBuf
      BY DEF DestroyedDead, Live
    <2>1. u # t /\ call'[u] = call[u] /\ ~Live(call[u].bo) /\ EntryOf(u) \in android_buffer_table
      BY <1>0, <1>5 DEF DestroyedDead, CallsRegistered, Past, ImportSteps
    <2>2. call[u].bo # bo /\ call[u].bo \in Bo
      BY <1>0, <1>3, <2>1 DEF EntryOf, CallsFormed
    <2> QED
      BY <1>6, <2>1, <2>2 DEF Live
  <1>17. NoOrphanBo'
    <2> SUFFICES ASSUME NEW x \in Bo, bos'[x].buf # NoBuf
                 PROVE  \/ \E e \in android_buffer_table : e.bo = x
                        \/ \E u \in Thread : call'[u].step = "import_add" /\ call'[u].bo = x
      BY <1>1 DEF NoOrphanBo, Live
    <2>1. CASE x = bo
      BY <1>5, <2>1
    <2>2. CASE x # bo
      <3>1. Live(x)
        BY <1>6, <2>2 DEF Live
      <3> QED
        BY <1>0, <1>1, <1>5, <3>1 DEF NoOrphanBo
    <2> QED
      BY <2>1, <2>2
  <1> QED
    BY <1>4, <1>8, <1>9, <1>10, <1>12, <1>13, <1>14, <1>15, <1>16, <1>17 DEF IInv

LEMMA ImportFailStep ==
  ASSUME IInv, NEW t \in Thread, ImportFail(t)
  PROVE  IInv'
PROOF
  <1>0. /\ TypeOK /\ CallsFormed /\ CallsExclusive /\ HandlesOpen /\ HandlesDistinct
        /\ KeysGiven /\ KeysUnique /\ BosDistinct /\ KeyNamesBo
        /\ ImportsUnregistered /\ ImportsPrivate /\ CallsRegistered /\ DestroyedDead
        /\ NoOrphanBo
    BY DEF IInv
  <1> DEFINE h == call[t].h
             f == handle[h].fd
  <1>1. call[t].step = "import_bo" /\ h \in Handle /\ f \in Fd
    BY <1>0 DEF ImportFail, CallsFormed
  <1>2. /\ fds' = [fds EXCEPT ![f] = NoBuf]
        /\ handle' = [handle EXCEPT ![h] = NullHandle]
        /\ call' = [call EXCEPT ![t] = Idle]
        /\ UNCHANGED <<bos, android_buffer_table>>
    BY <1>1, NullAssumption DEF ImportFail, Closed, Return
  <1> HIDE DEF h, f
  <1>3. TypeOK'
    BY <1>0, <1>1, <1>2, IdleTyped DEF TypeOK, LibTypeOK, NullHandle
  <1>4. /\ call'[t] = Idle /\ call'[t].step = "idle"
        /\ \A u \in Thread : u # t => call'[u] = call[u] /\ call[u].h # h
    BY <1>0, <1>1, <1>2 DEF TypeOK, Idle, CallsExclusive, ImportSteps, h
  <1>5. /\ handle'[h].fd = NoFd /\ \A g \in Handle : g # h => handle'[g] = handle[g]
        /\ \A x \in Fd : x # f => fds'[x] = fds[x]
    BY <1>0, <1>1, <1>2 DEF TypeOK, LibTypeOK, NullHandle
  <1>6. \A g \in Handle : g # h => handle[g].fd # f
    BY <1>0, <1>1, NullAssumption DEF HandlesDistinct, f
  <1>7. \A u \in Thread : u # t /\ call[u].step # "idle" =>
          /\ handle'[call[u].h] = handle[call[u].h]
          /\ call[u].h \in Handle /\ handle[call[u].h].fd \in Fd
          /\ fds'[handle[call[u].h].fd] = fds[handle[call[u].h].fd]
    BY <1>0, <1>4, <1>5, <1>6 DEF CallsFormed
  <1>8. \A e \in android_buffer_table :
          e.bo \in Bo /\ e.fd \in Fd /\ e.fd # f /\ fds'[e.fd] = fds[e.fd]
    BY <1>0, <1>1, <1>5, KeysOpen DEF ImportsUnregistered, ImportSteps, f, h
  <1>9. \A bo \in Bo : Live(bo)' <=> Live(bo)
    BY <1>2 DEF Live
  <1>10. CallsFormed'
    BY <1>0, <1>4, <1>7 DEF CallsFormed
  <1>11. CallsExclusive'
    <2> SUFFICES ASSUME NEW v \in Thread, NEW u \in Thread, v # u,
                        call'[v].step \in ImportSteps \cup FreeSteps
                 PROVE  call'[u].h # call'[v].h
      BY DEF CallsExclusive
    <2>1. v # t /\ call'[v] = call[v]
      BY <1>4 DEF ImportSteps, FreeSteps
    <2>2. CASE u = t
      <3>1. call[v].h \in Handle
        BY <1>0, <2>1 DEF CallsFormed, ImportSteps, FreeSteps
      <3> QED
        BY <1>4, <2>1, <2>2, <3>1, ClientAssumption DEF Idle
    <2>3. CASE u # t
      BY <1>0, <1>4, <2>1, <2>3 DEF CallsExclusive
    <2> QED
      BY <2>2, <2>3
  <1>12. HandlesOpen' /\ HandlesDistinct'
    BY <1>0, <1>5, <1>6 DEF HandlesOpen, HandlesDistinct, TypeOK
  <1>13. KeysGiven'
    <2> SUFFICES ASSUME NEW e \in android_buffer_table
                 PROVE  e.fd # NoFd /\ \E g \in Handle : handle'[g].fd = e.fd
      BY <1>2 DEF KeysGiven
    <2>1. PICK g \in Handle : handle[g].fd = e.fd
      BY <1>0 DEF KeysGiven
    <2>2. g # h
      BY <1>8, <2>1 DEF f
    <2> QED
      BY <1>0, <1>5, <2>1, <2>2 DEF KeysGiven
  <1>14. KeysUnique' /\ BosDistinct'
    BY <1>0, <1>2 DEF KeysUnique, BosDistinct
  <1>15. \A e : Dying(e) => Dying(e)'
    BY <1>1, <1>4, <1>7 DEF Dying, EntryOf
  <1>16. KeyNamesBo'
    BY <1>0, <1>2, <1>8, <1>9, <1>15 DEF KeyNamesBo
  <1>17. ImportsUnregistered'
    BY <1>0, <1>2, <1>4, <1>7 DEF ImportsUnregistered, ImportSteps
  <1>18. ImportsPrivate'
    <2> SUFFICES ASSUME NEW u \in Thread, call'[u].step = "import_add"
                 PROVE  /\ Live(call[u].bo)'
                        /\ bos'[call'[u].bo].buf = fds'[handle'[call'[u].h].fd]
                        /\ \A e \in android_buffer_table' : e.bo # call'[u].bo
                        /\ \A v \in Thread : v # u /\ call'[v].step = "import_add"
                             => call'[v].bo # call'[u].bo
      BY DEF ImportsPrivate
    <2>1. \A v \in Thread : call'[v].step = "import_add" => v # t /\ call'[v] = call[v]
      BY <1>4
    <2>2. call[u].bo \in Bo
      BY <1>0, <2>1 DEF CallsFormed
    <2> QED
      BY <1>0, <1>2, <1>7, <1>9, <2>1, <2>2 DEF ImportsPrivate
  <1>19. CallsRegistered'
    BY <1>0, <1>2, <1>4, <1>7 DEF CallsRegistered, Past, EntryOf, ImportSteps
  <1>20. DestroyedDead'
    BY <1>0, <1>4, <1>9 DEF DestroyedDead, CallsFormed
  <1>21. NoOrphanBo'
    BY <1>0, <1>1, <1>2, <1>4, <1>9 DEF NoOrphanBo
  <1> QED
    BY <1>3, <1>10, <1>11, <1>12, <1>13, <1>14, <1>16, <1>17, <1>18, <1>19, <1>20, <1>21
    DEF IInv

LEMMA ImportAddStep ==
  ASSUME IInv, NEW t \in Thread, ImportAdd(t)
  PROVE  IInv'
PROOF
  <1>0. /\ TypeOK /\ CallsFormed /\ CallsExclusive /\ HandlesOpen /\ HandlesDistinct
        /\ KeysGiven /\ KeysUnique /\ BosDistinct /\ KeyNamesBo
        /\ ImportsUnregistered /\ ImportsPrivate /\ CallsRegistered /\ DestroyedDead
        /\ NoOrphanBo
    BY DEF IInv
  <1> DEFINE h == call[t].h
             new == [fd |-> handle[h].fd, bo |-> call[t].bo]
  <1>1. /\ call[t].step = "import_add" /\ h \in Handle /\ handle[h].fd \in Fd
        /\ call[t].bo \in Bo
    BY <1>0 DEF ImportAdd, CallsFormed
  <1>2. /\ android_buffer_table' = android_buffer_table \cup {new}
        /\ call' = [call EXCEPT ![t] = Idle]
        /\ UNCHANGED <<fds, bos, handle>>
    BY DEF ImportAdd, add_buffer, Return
  <1>3. /\ Live(new.bo) /\ bos[new.bo].buf = fds[new.fd]
        /\ \A e \in android_buffer_table : e.bo # new.bo /\ e.fd # new.fd
    BY <1>0, <1>1 DEF ImportsPrivate, ImportsUnregistered, ImportSteps
  <1>4. /\ call'[t] = Idle /\ call'[t].step = "idle"
        /\ \A u \in Thread : u # t => call'[u] = call[u] /\ call[u].h # h
    BY <1>0, <1>1, <1>2 DEF TypeOK, Idle, CallsExclusive, ImportSteps
  <1>5. TypeOK'
    BY <1>0, <1>1, <1>2, IdleTyped DEF TypeOK, LibTypeOK, Entry
  <1>6. CallsFormed'
    BY <1>0, <1>2, <1>4 DEF CallsFormed
  <1>7. CallsExclusive'
    <2> SUFFICES ASSUME NEW v \in Thread, NEW u \in Thread, v # u,
                        call'[v].step \in ImportSteps \cup FreeSteps
                 PROVE  call'[u].h # call'[v].h
      BY DEF CallsExclusive
    <2>1. v # t /\ call'[v] = call[v]
      BY <1>4 DEF ImportSteps, FreeSteps
    <2>2. CASE u = t
      <3>1. call[v].h \in Handle
        BY <1>0, <2>1 DEF CallsFormed, ImportSteps, FreeSteps
      <3> QED
        BY <1>4, <2>1, <2>2, <3>1, ClientAssumption DEF Idle
    <2>3. CASE u # t
      BY <1>0, <1>4, <2>1, <2>3 DEF CallsExclusive
    <2> QED
      BY <2>2, <2>3
  <1>8. HandlesOpen' /\ HandlesDistinct'
    BY <1>0, <1>2 DEF HandlesOpen, HandlesDistinct
  <1>9. KeysGiven'
    BY <1>0, <1>1, <1>2, NullAssumption DEF KeysGiven
  <1>10. KeysUnique' /\ BosDistinct'
    BY <1>0, <1>2, <1>3 DEF KeysUnique, BosDistinct
  <1>11. \A bo \in Bo : Live(bo)' <=> Live(bo)
    BY <1>2 DEF Live
  <1>12. \A e : Dying(e) => Dying(e)'
    BY <1>1, <1>2, <1>4 DEF Dying, EntryOf
  <1>13. KeyNamesBo'
    BY <1>0, <1>1, <1>2, <1>3, <1>11, <1>12, KeysOpen DEF KeyNamesBo
  <1>14. ImportsUnregistered'
    <2> SUFFICES ASSUME NEW u \in Thread, call'[u].step \in ImportSteps
                 PROVE  \A e \in android_buffer_table' : e.fd # handle[call'[u].h].fd
      BY <1>2 DEF ImportsUnregistered
    <2>1. u # t /\ call'[u] = call[u]
      BY <1>4 DEF ImportSteps
    <2>2. call[u].h \in Handle /\ call[u].h # h
      BY <1>0, <1>4, <2>1 DEF CallsFormed, ImportSteps
    <2>3. handle[call[u].h].fd # handle[h].fd
      BY <1>0, <1>1, <2>2, NullAssumption DEF HandlesDistinct
    <2> QED
      BY <1>0, <1>2, <2>1, <2>3 DEF ImportsUnregistered
  <1>15. ImportsPrivate'
    <2> SUFFICES ASSUME NEW u \in Thread, call'[u].step = "import_add"
                 PROVE  /\ Live(call[u].bo)'
                        /\ bos'[call'[u].bo].buf = fds'[handle'[call'[u].h].fd]
                        /\ \A e \in android_buffer_table' : e.bo # call'[u].bo
                        /\ \A v \in Thread : v # u /\ call'[v].step = "import_add"
                             => call'[v].bo # call'[u].bo
      BY DEF ImportsPrivate
    <2>1. \A v \in Thread : call'[v].step = "import_add" => v # t /\ call'[v] = call[v]
      BY <1>4
    <2>2. call[u].bo \in Bo /\ call[u].bo # new.bo
      BY <1>0, <1>1, <2>1 DEF CallsFormed, ImportsPrivate
    <2> QED
      BY <1>0, <1>2, <1>11, <2>1, <2>2 DEF ImportsPrivate
  <1>16. CallsRegistered'
    BY <1>0, <1>2, <1>4 DEF CallsRegistered, Past, EntryOf, ImportSteps
  <1>17. DestroyedDead'
    BY <1>0, <1>4, <1>11 DEF DestroyedDead, CallsFormed
  <1>18. NoOrphanBo'
    <2> SUFFICES ASSUME NEW x \in Bo, Live(x)
                 PROVE  \/ \E e \in android_buffer_table' : e.bo = x
                        \/ \E u \in Thread : call'[u].step = "import_add" /\ call'[u].bo = x
      BY <1>11 DEF NoOrphanBo
    <2>1. CASE \E e \in android_buffer_table : e.bo = x
      BY <1>2, <2>1
    <2>2. CASE x = call[t].bo
      <3>1. new \in android_buffer_table' /\ new.bo = x
        BY <1>2, <2>2
      <3> QED
        BY <3>1
    <2>3. CASE \E u \in Thread : u # t /\ call[u].step = "import_add" /\ call[u].bo = x
      BY <1>4, <2>3
    <2> QED
      BY <1>0, <2>1, <2>2, <2>3 DEF NoOrphanBo
  <1> QED
    BY <1>5, <1>6, <1>7, <1>8, <1>9, <1>10, <1>13, <1>14, <1>15, <1>16, <1>17, <1>18
    DEF IInv

LEMMA FreeDestroyStep ==
  ASSUME IInv, NEW t \in Thread, FreeDestroy(t)
  PROVE  IInv'
PROOF
  <1>0. /\ TypeOK /\ CallsFormed /\ CallsExclusive /\ HandlesOpen /\ HandlesDistinct
        /\ KeysGiven /\ KeysUnique /\ BosDistinct /\ KeyNamesBo
        /\ ImportsUnregistered /\ ImportsPrivate /\ CallsRegistered /\ DestroyedDead
        /\ NoOrphanBo
    BY DEF IInv
  <1> DEFINE bo == call[t].bo
  <1>1. /\ call[t].step = "free_destroy" /\ call[t].h \in Handle /\ bo \in Bo
        /\ EntryOf(t) \in android_buffer_table
    BY <1>0 DEF FreeDestroy, CallsFormed, CallsRegistered, Past, ImportSteps
  <1>2. /\ bos' = [bos EXCEPT ![bo] = DeadBo]
        /\ call' = [call EXCEPT ![t].step = "free_delete"]
        /\ UNCHANGED <<fds, android_buffer_table, handle>>
    BY DEF FreeDestroy, gbm_bo_destroy, Goto
  <1>3. /\ call'[t].step = "free_delete" /\ call'[t].bo = bo /\ call'[t].h = call[t].h
        /\ \A u \in Thread : u # t => call'[u] = call[u]
    BY <1>0, <1>2 DEF TypeOK, CallState
  <1>4. TypeOK'
    BY <1>0, <1>1, <1>2, NewBoTyped DEF TypeOK, LibTypeOK, CallState, Steps, FreeSteps, DeadBo
  <1>5. /\ bos'[bo].buf = NoBuf
        /\ \A x \in Bo : x # bo => bos'[x] = bos[x]
    BY <1>0, <1>1, <1>2 DEF TypeOK, LibTypeOK, DeadBo, NewBo
  <1>6. CallsFormed' /\ CallsExclusive'
    BY <1>0, <1>1, <1>2, <1>3 DEF CallsFormed, CallsExclusive, FreeSteps, ImportSteps
  <1>7. HandlesOpen' /\ HandlesDistinct' /\ KeysGiven' /\ KeysUnique' /\ BosDistinct'
    BY <1>0, <1>2 DEF HandlesOpen, HandlesDistinct, KeysGiven, KeysUnique, BosDistinct
  (* The one entry that had the BO is the one on its way out.               *)
  <1>8. KeyNamesBo'
    <2> SUFFICES ASSUME NEW e \in android_buffer_table, ~Dying(e)'
                 PROVE  fds[e.fd] = bos'[e.bo].buf /\ bos'[e.bo].buf # NoBuf
      BY <1>2 DEF KeyNamesBo, Live
    <2>1. Dying(EntryOf(t))'
      BY <1>2, <1>3 DEF Dying, EntryOf
    <2>2. e # EntryOf(t)
      <3>1. EntryOf(t)' = EntryOf(t)
        BY <1>2, <1>3 DEF EntryOf
      <3> QED
        BY <1>2, <1>3, <3>1 DEF Dying, EntryOf
    <2>3. e.bo # bo /\ e.bo \in Bo
      BY <1>0, <1>1, <2>2, KeysOpen DEF BosDistinct, EntryOf
    <2>4. ~Dying(e)
      BY <1>1, <1>2, <1>3 DEF Dying, EntryOf
    <2> QED
      BY <1>0, <1>5, <2>3, <2>4 DEF KeyNamesBo, Live
  <1>9. ImportsUnregistered'
    BY <1>0, <1>2, <1>3 DEF ImportsUnregistered, ImportSteps
  <1>10. ImportsPrivate'
    <2> SUFFICES ASSUME NEW u \in Thread, call'[u].step = "import_add"
                 PROVE  /\ Live(call[u].bo)'
                        /\ bos'[call'[u].bo].buf = fds'[handle'[call'[u].h].fd]
                        /\ \A e \in android_buffer_table' : e.bo # call'[u].bo
                        /\ \A v \in Thread : v # u /\ call'[v].step = "import_add"
                             => call'[v].bo # call'[u].bo
      BY DEF ImportsPrivate
    <2>1. \A v \in Thread : call'[v].step = "import_add" => v # t /\ call'[v] = call[v]
      BY <1>3
    <2>2. call[u].bo \in Bo /\ call[u].bo # bo
      BY <1>0, <1>1, <2>1 DEF CallsFormed, ImportsPrivate, EntryOf
    <2> QED
      BY <1>0, <1>2, <1>5, <2>1, <2>2 DEF ImportsPrivate, Live
  <1>11. CallsRegistered'
    BY <1>0, <1>1, <1>2, <1>3 DEF CallsRegistered, Past, EntryOf, ImportSteps
  <1>12. DestroyedDead'
    BY <1>0, <1>3, <1>5 DEF DestroyedDead, CallsFormed, Live
  <1>13. NoOrphanBo'
    <2> SUFFICES ASSUME NEW x \in Bo, bos'[x].buf # NoBuf
                 PROVE  \/ \E e \in android_buffer_table : e.bo = x
                        \/ \E u \in Thread : call'[u].step = "import_add" /\ call'[u].bo = x
      BY <1>2 DEF NoOrphanBo, Live
    <2>1. Live(x)
      BY <1>5 DEF Live
    <2>2. CASE \E e \in android_buffer_table : e.bo = x
      BY <2>2
    <2>3. CASE \E u \in Thread : call[u].step = "import_add" /\ call[u].bo = x
      BY <1>1, <1>3, <2>3
    <2> QED
      BY <1>0, <2>1, <2>2, <2>3 DEF NoOrphanBo
  <1> QED
    BY <1>4, <1>6, <1>7, <1>8, <1>9, <1>10, <1>11, <1>12, <1>13 DEF IInv

LEMMA FreeDeleteStep ==
  ASSUME IInv, NEW t \in Thread, FreeDelete(t)
  PROVE  IInv'
PROOF
  <1>0. /\ TypeOK /\ CallsFormed /\ CallsExclusive /\ HandlesOpen /\ HandlesDistinct
        /\ KeysGiven /\ KeysUnique /\ BosDistinct /\ KeyNamesBo
        /\ ImportsUnregistered /\ ImportsPrivate /\ CallsRegistered /\ DestroyedDead
        /\ NoOrphanBo
    BY DEF IInv
  <1> DEFINE h == call[t].h
             old == EntryOf(t)
  <1>1. /\ call[t].step = "free_delete" /\ h \in Handle /\ handle[h].fd \in Fd
        /\ call[t].bo \in Bo /\ ~Live(call[t].bo)
    BY <1>0 DEF FreeDelete, CallsFormed, DestroyedDead
  <1>2. /\ android_buffer_table' = android_buffer_table \ {old}
        /\ call' = [call EXCEPT ![t] = Idle]
        /\ UNCHANGED <<fds, bos, handle>>
    BY DEF FreeDelete, delete_buffer, Return, EntryOf
  <1>4. /\ call'[t] = Idle /\ call'[t].step = "idle"
        /\ \A u \in Thread : u # t => call'[u] = call[u] /\ call[u].h # h
    BY <1>0, <1>1, <1>2 DEF TypeOK, Idle, CallsExclusive, FreeSteps
  <1>5. TypeOK'
    BY <1>0, <1>2, IdleTyped DEF TypeOK, LibTypeOK
  <1>6. CallsFormed'
    BY <1>0, <1>2, <1>4 DEF CallsFormed
  <1>7. CallsExclusive'
    <2> SUFFICES ASSUME NEW v \in Thread, NEW u \in Thread, v # u,
                        call'[v].step \in ImportSteps \cup FreeSteps
                 PROVE  call'[u].h # call'[v].h
      BY DEF CallsExclusive
    <2>1. v # t /\ call'[v] = call[v]
      BY <1>4 DEF ImportSteps, FreeSteps
    <2>2. CASE u = t
      <3>1. call[v].h \in Handle
        BY <1>0, <2>1 DEF CallsFormed, ImportSteps, FreeSteps
      <3> QED
        BY <1>4, <2>1, <2>2, <3>1, ClientAssumption DEF Idle
    <2>3. CASE u # t
      BY <1>0, <1>4, <2>1, <2>3 DEF CallsExclusive
    <2> QED
      BY <2>2, <2>3
  <1>8. HandlesOpen' /\ HandlesDistinct' /\ KeysGiven' /\ KeysUnique' /\ BosDistinct'
    BY <1>0, <1>2 DEF HandlesOpen, HandlesDistinct, KeysGiven, KeysUnique, BosDistinct
  <1>9. \A bo \in Bo : Live(bo)' <=> Live(bo)
    BY <1>2 DEF Live
  <1>10. \A e : e # old /\ Dying(e) => Dying(e)'
    BY <1>2, <1>4 DEF Dying, EntryOf
  <1>11. KeyNamesBo'
    BY <1>0, <1>2, <1>9, <1>10, KeysOpen DEF KeyNamesBo
  <1>12. ImportsUnregistered'
    BY <1>0, <1>2, <1>4 DEF ImportsUnregistered, ImportSteps
  <1>13. ImportsPrivate'
    <2> SUFFICES ASSUME NEW u \in Thread, call'[u].step = "import_add"
                 PROVE  /\ Live(call[u].bo)'
                        /\ bos'[call'[u].bo].buf = fds'[handle'[call'[u].h].fd]
                        /\ \A e \in android_buffer_table' : e.bo # call'[u].bo
                        /\ \A v \in Thread : v # u /\ call'[v].step = "import_add"
                             => call'[v].bo # call'[u].bo
      BY DEF ImportsPrivate
    <2>1. \A v \in Thread : call'[v].step = "import_add" => v # t /\ call'[v] = call[v]
      BY <1>4
    <2>2. call[u].bo \in Bo
      BY <1>0, <2>1 DEF CallsFormed
    <2> QED
      BY <1>0, <1>2, <1>9, <2>1, <2>2 DEF ImportsPrivate
  (* No other call is on the entry: its key belongs to one handle.          *)
  <1>14. CallsRegistered'
    <2> SUFFICES ASSUME NEW u \in Thread, call'[u].step \notin {"idle"} \cup ImportSteps
                 PROVE  [fd |-> handle[call'[u].h].fd, bo |-> call'[u].bo]
                          \in android_buffer_table'
      BY <1>2 DEF CallsRegistered, Past, EntryOf
    <2>1. u # t /\ call'[u] = call[u]
      BY <1>4
    <2>2. EntryOf(u) \in android_buffer_table /\ call[u].h \in Handle /\ call[u].h # h
      BY <1>0, <1>4, <2>1 DEF CallsRegistered, Past, CallsFormed
    <2>3. handle[call[u].h].fd # handle[h].fd
      BY <1>0, <1>1, <2>2, NullAssumption DEF HandlesDistinct
    <2> QED
      BY <1>2, <2>1, <2>2, <2>3 DEF EntryOf
  <1>15. DestroyedDead'
    BY <1>0, <1>4, <1>9 DEF DestroyedDead, CallsFormed
  <1>16. NoOrphanBo'
    <2> SUFFICES ASSUME NEW x \in Bo, Live(x)
                 PROVE  \/ \E e \in android_buffer_table' : e.bo = x
                        \/ \E u \in Thread : call'[u].step = "import_add" /\ call'[u].bo = x
      BY <1>9 DEF NoOrphanBo
    <2>1. x # old.bo
      BY <1>1 DEF EntryOf
    <2>2. CASE \E e \in android_buffer_table : e.bo = x
      BY <1>2, <2>1, <2>2
    <2>3. CASE \E u \in Thread : call[u].step = "import_add" /\ call[u].bo = x
      BY <1>1, <1>4, <2>3
    <2> QED
      BY <1>0, <2>2, <2>3 DEF NoOrphanBo
  <1> QED
    BY <1>5, <1>6, <1>7, <1>8, <1>11, <1>12, <1>13, <1>14, <1>15, <1>16 DEF IInv

-----------------------------------------------------------------------------
LEMMA InvNext == IInv /\ [Next]_vars => IInv'
PROOF
  <1> SUFFICES ASSUME IInv, [Next]_vars PROVE IInv'
    OBVIOUS
  <1>1. CASE UNCHANGED vars
    BY <1>1 DEF vars, IInv, TypeOK, LibTypeOK, CallsFormed, CallsExclusive, HandlesOpen,
         HandlesDistinct, KeysGiven, KeysUnique, BosDistinct, KeyNamesBo, Dying, EntryOf, Live,
         ImportsUnregistered, ImportsPrivate, CallsRegistered, Past, DestroyedDead, NoOrphanBo
  <1>2. ASSUME NEW t \in Thread, Continues(t)
        PROVE  IInv'
    <2>1. CASE ImportBo(t)
      BY <2>1, ImportBoStep
    <2>2. CASE ImportFail(t)
      BY <2>2, ImportFailStep
    <2>3. CASE ImportAdd(t)
      BY <2>3, ImportAddStep
    <2>4. CASE FreeDestroy(t)
      BY <2>4, FreeDestroyStep
    <2>5. CASE FreeDelete(t)
      BY <2>5, FreeDeleteStep
    <2>6. CASE \/ LockCheck(t) \/ LockMap(t) \/ LockMapFail(t) \/ LockCommit(t)
               \/ UnlockUnmap(t) \/ UnlockCommit(t) \/ QueryFd(t)
      BY <2>6, QuietSteps
    <2> QED
      BY <1>2, <2>1, <2>2, <2>3, <2>4, <2>5, <2>6 DEF Continues
  <1>3. ASSUME NEW t \in Thread, NEW h \in Handle, Enters(t, h)
        PROVE  IInv'
    <2>1. ASSUME NEW b \in Buf, ImportClone(t, h, b) PROVE IInv'
      BY <2>1, ImportCloneStep
    <2>2. CASE \/ FreeFind(t, h) \/ UnlockFind(t, h) \/ QueryFind(t, h)
               \/ \E usage \in LockUsages : LockFind(t, h, usage)
      BY <2>2, EnterSteps
    <2> QED
      BY <1>3, <2>1, <2>2 DEF Enters
  <1> QED
    BY <1>1, <1>2, <1>3 DEF Next

LEMMA Invariance == Spec => []IInv
PROOF
  BY InvInit, InvNext, PTL DEF Spec

(* Every variable keeps its type: a call always has a handle and a BO that  *)
(* exist, a key is a descriptor or -1.                                      *)
THEOREM TypeCorrect == Spec => []TypeOK
PROOF
  <1>1. IInv => TypeOK
    BY DEF IInv
  <1> QED
    BY <1>1, Invariance, PTL

(* HASH_ADD_INT never adds a second entry with a key that is there.         *)
THEOREM KeysStayUnique == Spec => []KeysUnique
PROOF
  <1>1. IInv => KeysUnique
    BY DEF IInv
  <1> QED
    BY <1>1, Invariance, PTL

(* An entry leads from a descriptor to the BO of the same memory.           *)
THEOREM KeysNameTheirBo == Spec => []KeyNamesBo
PROOF
  <1>1. IInv => KeyNamesBo
    BY DEF IInv
  <1> QED
    BY <1>1, Invariance, PTL

(* Between the lookup and its use the buffer of a call does not go away,    *)
(* if clients free only handles that no other call uses.                    *)
THEOREM BuffersOutliveCalls == Spec => []NoDanglingBuffer
PROOF
  <1>1. IInv => NoDanglingBuffer
    <2> SUFFICES ASSUME IInv, NEW t \in Thread, HoldsBuffer(t)
                 PROVE  Live(call[t].bo) /\ EntryOf(t) \in android_buffer_table
      BY DEF NoDanglingBuffer
    <2>1. Past(t) /\ call[t].step # "free_delete"
      BY DEF HoldsBuffer, Past, LockSteps, UnlockSteps, ImportSteps
    <2>2. EntryOf(t) \in android_buffer_table /\ call[t].h \in Handle /\ handle[call[t].h].fd \in Fd
      BY <2>1 DEF IInv, CallsRegistered, CallsFormed, Past
    <2>3. ~Dying(EntryOf(t))
      <3> SUFFICES ASSUME NEW u \in Thread, call[u].step = "free_delete",
                          EntryOf(u) = EntryOf(t)
                   PROVE  FALSE
        BY DEF Dying
      <3>1. u # t /\ call[u].h \in Handle /\ handle[call[u].h].fd = handle[call[t].h].fd
        BY <2>1 DEF IInv, CallsFormed, EntryOf
      <3>2. call[u].h = call[t].h
        BY <2>2, <3>1, NullAssumption DEF IInv, HandlesDistinct
      <3> QED
        BY <3>1, <3>2 DEF IInv, CallsExclusive, FreeSteps
    <2> QED
      BY <2>2, <2>3 DEF IInv, KeyNamesBo, EntryOf
  <1> QED
    BY <1>1, Invariance, PTL

(* A live BO can always be found again: it is registered or about to be.    *)
THEOREM NoBoIsLost == Spec => []NoOrphanBo
PROOF
  <1>1. IInv => NoOrphanBo
    BY DEF IInv
  <1> QED
    BY <1>1, Invariance, PTL

-----------------------------------------------------------------------------
(* The bookkeeping of locks, for clients that do not overlap calls on one   *)
(* handle: a thread between two steps of a lock or unlock is then the only  *)
(* one that uses its BO, and what it has left undone is known.              *)
CallsAlone == \A t, u \in Thread : t # u /\ call[t].h = call[u].h => call[t].h = NoHandle

Booking == LockSteps \cup UnlockSteps

Counted(d)  == d.lock_count >= 0 /\ (d.lock_count = 0 => d.locked_for = {})
Balanced(d) == /\ Counted(d)
               /\ d.map_data <=> d.locked_for \cap SwMask # {}
               /\ d.map_data => d.lock_count = 1

Outstanding(c, d) ==
  /\ Counted(d)
  /\ c.step \in {"lock_check", "lock_map", "unlock_unmap"} => Balanced(d)
  /\ c.step \in {"lock_map", "lock_commit"} => d.lock_count = 0 \/ c.usage = d.locked_for
  /\ c.step = "lock_map" => c.usage \cap SwMask # {}
  /\ c.step = "lock_commit" =>
       IF c.usage \cap SwMask = {} THEN Balanced(d) ELSE d.map_data /\ d.lock_count = 0
  /\ c.step = "unlock_commit" =>
       /\ d.lock_count > 0 /\ ~d.map_data
       /\ d.locked_for \cap SwMask # {} => d.lock_count = 1

BooksKept ==
  /\ \A bo \in Bo : ~Busy(bo) => Balanced(bos[bo])
  /\ \A t \in Thread : call[t].step \in Booking => Outstanding(call[t], bos[call[t].bo])

LockInv == IInv /\ CallsAlone /\ BooksKept

LEMMA NewBoBalanced == \A b : Balanced(NewBo(b)) /\ Balanced(DeadBo)
PROOF
  BY DEF NewBo, DeadBo, Balanced, Counted

LEMMA CallFacts ==
  ASSUME IInv, NEW t \in Thread
  PROVE  /\ call[t] \in CallState
         /\ Past(t) => /\ EntryOf(t) \in android_buffer_table /\ EntryOf(t).bo = call[t].bo
                       /\ EntryOf(t).fd = handle[call[t].h].fd /\ EntryOf(t).fd \in Fd
                       /\ call[t].h \in Handle /\ call[t].h # NoHandle
                       /\ call[t].bo \in Bo /\ bos[call[t].bo] \in BoState
         /\ call[t].step \in Booking \cup {"free_destroy"} => Past(t)
PROOF
  <1>1. call[t].step \in Booking \cup {"free_destroy"} => Past(t)
    BY DEF Booking, Past, LockSteps, UnlockSteps, ImportSteps
  <1>2. ASSUME Past(t)
        PROVE  call[t].h \in Handle /\ handle[call[t].h].fd \in Fd /\ call[t].bo \in Bo
    BY <1>2 DEF IInv, CallsFormed, Past, ImportSteps
  <1>3. EntryOf(t).bo = call[t].bo /\ EntryOf(t).fd = handle[call[t].h].fd
    BY DEF EntryOf
  <1> QED
    BY <1>1, <1>2, <1>3, ClientAssumption DEF IInv, CallsRegistered, TypeOK, LibTypeOK

(* An entry is used by no call but those on its handle.                     *)
LEMMA BoAlone ==
  ASSUME IInv, NEW e \in android_buffer_table, NEW h \in Handle, e.fd = handle[h].fd,
         NEW u \in Thread, call[u].h # h, call[u].step \in Booking
  PROVE  call[u].bo # e.bo
PROOF
  <1>1. /\ EntryOf(u) \in android_buffer_table /\ EntryOf(u).bo = call[u].bo /\ call[u].h \in Handle
        /\ EntryOf(u).fd = handle[call[u].h].fd /\ EntryOf(u).fd \in Fd
    BY CallFacts
  <1>2. EntryOf(u).fd # e.fd
    BY <1>1, NullAssumption DEF IInv, HandlesDistinct
  <1> QED
    BY <1>1, <1>2 DEF IInv, BosDistinct

(* A step of thread t that changes at most BO x, which no other call uses.  *)
LEMMA BookStep ==
  ASSUME LockInv, NEW t \in Thread, NEW c, NEW x \in Bo,
         \A u \in Thread : call'[u] = IF u = t THEN c ELSE call[u],
         \A bo \in Bo : bo # x => bos'[bo] = bos[bo],
         \A u \in Thread : u # t /\ call[u].step \in Booking => call[u].bo # x,
         call[t].step \in Booking => call[t].bo = x,
         IF c.step \in Booking THEN c.bo = x /\ Outstanding(c, bos'[x]) ELSE Balanced(bos'[x])
  PROVE  BooksKept'
PROOF
  <1>1. \A u \in Thread : call[u].step \in Booking => call[u].bo \in Bo
    BY CallFacts DEF LockInv
  <1>2. ASSUME NEW bo \in Bo, ~Busy(bo)' PROVE Balanced(bos'[bo])
    <2>1. \A u \in Thread : ~(call'[u].bo = bo /\ call'[u].step \in Booking)
      BY <1>2 DEF Busy, Booking
    <2>2. CASE bo = x
      BY <2>1, <2>2
    <2>3. CASE bo # x
      <3>1. ~Busy(bo)
        BY <2>1, <2>3 DEF Busy, Booking
      <3> QED
        BY <2>3, <3>1 DEF LockInv, BooksKept
    <2> QED
      BY <2>2, <2>3
  <1>3. ASSUME NEW u \in Thread, call'[u].step \in Booking PROVE Outstanding(call'[u], bos'[call'[u].bo])
    BY <1>1, <1>3 DEF LockInv, BooksKept
  <1> QED
    BY <1>2, <1>3 DEF BooksKept

(* A step of a thread in no lock or unlock that changes no BO.              *)
LEMMA NoBookStep ==
  ASSUME LockInv, NEW t \in Thread, NEW c,
         \A u \in Thread : call'[u] = IF u = t THEN c ELSE call[u],
         \A bo \in Bo : bos'[bo] = bos[bo],
         call[t].step \notin Booking, c.step \notin Booking
  PROVE  BooksKept'
PROOF
  <1>1. \A bo \in Bo : Busy(bo)' <=> Busy(bo)
    BY DEF Busy, Booking
  <1>2. \A u \in Thread : call[u].step \in Booking => call[u].bo \in Bo
    BY CallFacts DEF LockInv
  <1> QED
    BY <1>1, <1>2 DEF LockInv, BooksKept

(* What the steps of lock and unlock do to the books.                       *)
LEMMA LockBooked ==
  ASSUME NEW d \in BoState, NEW c, c.usage \in SUBSET UsageBit, c.step = "lock_commit", Outstanding(c, d)
  PROVE  Balanced(Locked(d, c.usage))
PROOF
  <1>1. d.lock_count \in Int /\ d.locked_for \in SUBSET UsageBit /\ d.map_data \in BOOLEAN
    BY DEF BoState
  <1>2. /\ Locked(d, c.usage).lock_count = d.lock_count + 1
        /\ Locked(d, c.usage).locked_for = d.locked_for \cup c.usage
        /\ Locked(d, c.usage).map_data = d.map_data
    BY DEF Locked, BoState
  <1>3. d.locked_for \cup c.usage = c.usage /\ d.lock_count >= 0
    BY DEF Outstanding, Counted
  <1>4. CASE c.usage \cap SwMask = {}
    <2>1. ~d.map_data
      BY <1>3, <1>4 DEF Outstanding, Balanced
    <2> QED
      BY <1>1, <1>2, <1>3, <1>4, <2>1 DEF Balanced, Counted
  <1>5. CASE c.usage \cap SwMask # {}
    BY <1>1, <1>2, <1>3, <1>5 DEF Balanced, Counted, Outstanding
  <1> QED
    BY <1>4, <1>5

LEMMA UnlockBooked ==
  ASSUME NEW d \in BoState, NEW c, c.step = "unlock_commit", Outstanding(c, d)
  PROVE  Balanced(Unlocked(d))
PROOF
  <1>1. d.lock_count \in Int /\ d.locked_for \in SUBSET UsageBit /\ d.map_data \in BOOLEAN
    BY DEF BoState
  <1>2. /\ Unlocked(d).lock_count = d.lock_count - 1
        /\ Unlocked(d).locked_for = IF d.lock_count = 1 THEN {} ELSE d.locked_for
        /\ Unlocked(d).map_data = d.map_data
    BY DEF Unlocked, BoState
  <1>3. d.lock_count > 0 /\ ~d.map_data /\ (d.locked_for \cap SwMask # {} => d.lock_count = 1)
    BY DEF Outstanding
  <1> QED
    BY <1>1, <1>2, <1>3 DEF Balanced, Counted

(* Calls stay alone on their handles.                                       *)
LEMMA AloneStep ==
  ASSUME CallsAlone, NEW t \in Thread, NEW c,
         \A u \in Thread : call'[u] = IF u = t THEN c ELSE call[u],
         c.h \in {NoHandle, call[t].h} \/ \A u \in Thread : call[u].h # c.h
  PROVE  CallsAlone'
PROOF
  BY DEF CallsAlone

LEMMA EnterBooked ==
  ASSUME LockInv, ~SharedCalls, NEW t \in Thread, NEW h \in Handle, Enters(t, h)
  PROVE  CallsAlone' /\ BooksKept'
PROOF
  <1>1. \E c \in CallState :
          /\ call[t] = Idle /\ call' = [call EXCEPT ![t] = c] /\ c.h = h /\ UNCHANGED bos
          /\ \A u \in Thread : call[u].h # h
          /\ \/ c.step \notin Booking
             \/ c.step \in {"lock_check", "unlock_unmap"} /\ c.bo \in find_buffer_k(handle[h].fd)
    <2>1. ASSUME NEW step \in Steps, NEW bo \in Bo, NEW usage \in SUBSET UsageBit, Enter(t, step, h, bo, usage),
                 UNCHANGED bos, MayFree(h) \/ MayCall(h),
                 step \notin Booking \/ step \in {"lock_check", "unlock_unmap"}
          PROVE  <1>1!:
      <3> DEFINE c == [step |-> step, h |-> h, bo |-> bo, usage |-> usage]
      <3>1. c \in CallState /\ c.step = step /\ c.h = h /\ c.bo = bo
        BY DEF CallState
      <3>2. \A u \in Thread : call[u].h # h
        BY <2>1 DEF MayFree, MayCall, InCall
      <3>3. call[t] = Idle /\ call' = [call EXCEPT ![t] = c] /\ bo \in find_buffer_k(handle[h].fd)
        BY <2>1 DEF Enter
      <3> HIDE DEF c
      <3> QED
        BY <2>1, <3>1, <3>2, <3>3
    <2>2. CASE FreeFind(t, h) \/ QueryFind(t, h)
      <3>1. {"free_destroy", "query_fd"} \subseteq Steps /\ {"free_destroy", "query_fd"} \cap Booking = {}
        BY DEF Steps, FreeSteps, Booking, LockSteps, UnlockSteps
      <3> QED
        BY <2>1, <2>2, <3>1 DEF FreeFind, QueryFind
    <2>3. CASE UnlockFind(t, h) \/ \E usage \in LockUsages : LockFind(t, h, usage)
      <3>1. {"lock_check", "unlock_unmap"} \subseteq Steps
        BY DEF Steps, LockSteps, UnlockSteps
      <3> QED
        BY <2>1, <2>3, <3>1, ClientAssumption DEF UnlockFind, LockFind
    <2>4. CASE \E b \in Buf : ImportClone(t, h, b)
      <3> DEFINE c == [Idle EXCEPT !.step = "import_bo", !.h = h]
      <3>1. c \in CallState /\ c.step = "import_bo" /\ c.h = h
        BY IdleTyped DEF CallState, Steps, ImportSteps
      <3>2. "import_bo" \notin Booking
        BY DEF Booking, LockSteps, UnlockSteps
      <3> HIDE DEF c
      <3> QED
        BY <2>4, <3>1, <3>2 DEF ImportClone, InCall, c
    <2> QED
      BY <2>2, <2>3, <2>4 DEF Enters
  <1>1a. PICK c \in CallState :
          /\ call[t] = Idle /\ call' = [call EXCEPT ![t] = c] /\ c.h = h /\ UNCHANGED bos
          /\ \A u \in Thread : call[u].h # h
          /\ \/ c.step \notin Booking
             \/ c.step \in {"lock_check", "unlock_unmap"} /\ c.bo \in find_buffer_k(handle[h].fd)
    BY <1>1
  <1>2. \A u \in Thread : call'[u] = IF u = t THEN c ELSE call[u]
    BY <1>1a DEF LockInv, IInv, TypeOK
  <1>3. CallsAlone'
    BY <1>1a, <1>2, AloneStep DEF LockInv
  <1>4. call[t].step \notin Booking
    BY <1>1a DEF Idle, Booking, LockSteps, UnlockSteps
  <1>5. ASSUME c.step \notin Booking PROVE BooksKept'
    BY <1>1a, <1>2, <1>4, <1>5, NoBookStep
  <1>6. ASSUME c.step \in {"lock_check", "unlock_unmap"}, c.bo \in find_buffer_k(handle[h].fd)
        PROVE  BooksKept'
    <2>1. PICK e \in android_buffer_table : e.fd = handle[h].fd /\ e.bo = c.bo
      BY <1>6 DEF find_buffer_k
    <2>2. e.bo \in Bo
      BY DEF LockInv, IInv, TypeOK, LibTypeOK, Entry
    <2>3. \A u \in Thread : call[u].step \in Booking => call[u].bo # e.bo
      BY <1>1a, <2>1, BoAlone DEF LockInv
    <2>4. Balanced(bos[e.bo])
      BY <2>2, <2>3 DEF LockInv, BooksKept, Busy, Booking
    <2>5. Outstanding(c, bos[e.bo])
      BY <1>6, <2>4 DEF Outstanding, Balanced
    <2>6. c.step \in Booking
      BY <1>6 DEF Booking, LockSteps, UnlockSteps
    <2>7. \A bo \in Bo : bos'[bo] = bos[bo]
      BY <1>1a
    <2> DEFINE x == e.bo
    <2>8. c.bo = x /\ Outstanding(c, bos'[x]) /\ x \in Bo
      BY <2>1, <2>2, <2>5, <2>7
    <2> HIDE DEF x
    <2> QED
      BY <1>2, <1>4, <2>3, <2>6, <2>7, <2>8, BookStep DEF x
  <1> QED
    BY <1>1a, <1>5, <1>6, <1>3

(* The steps of importBuffer, freeBuffer and getStandardMetadata.           *)
LEMMA OthersBooked ==
  ASSUME LockInv, NEW t \in Thread,
         \/ ImportBo(t) \/ ImportFail(t) \/ ImportAdd(t)
         \/ FreeDestroy(t) \/ FreeDelete(t) \/ QueryFd(t)
  PROVE  CallsAlone' /\ BooksKept'
PROOF
  <1>1. call[t].step \notin Booking
    BY DEF ImportBo, ImportFail, ImportAdd, FreeDestroy, FreeDelete, QueryFd, Booking, LockSteps, UnlockSteps
  <1>2. call[t] \in CallState /\ call \in [Thread -> CallState] /\ bos \in [Bo -> BoState]
    BY DEF LockInv, IInv, TypeOK, LibTypeOK
  <1>3. CASE ImportFail(t) \/ ImportAdd(t) \/ FreeDelete(t) \/ QueryFd(t)
    <2>1. \A u \in Thread : call'[u] = IF u = t THEN Idle ELSE call[u]
      BY <1>2, <1>3 DEF ImportFail, ImportAdd, FreeDelete, QueryFd, Return
    <2>2. Idle.h = NoHandle /\ Idle.step \notin Booking
      BY DEF Idle, Booking, LockSteps, UnlockSteps
    <2>3. \A bo \in Bo : bos'[bo] = bos[bo]
      BY <1>3 DEF ImportFail, ImportAdd, FreeDelete, QueryFd
    <2> QED
      BY <1>1, <2>1, <2>2, <2>3, AloneStep, NoBookStep DEF LockInv
  <1>4. CASE FreeDestroy(t)
    <2> DEFINE x == call[t].bo
               c == [call[t] EXCEPT !.step = "free_delete"]
    <2>1. /\ EntryOf(t) \in android_buffer_table /\ EntryOf(t).bo = x /\ x \in Bo
          /\ EntryOf(t).fd = handle[call[t].h].fd /\ call[t].h \in Handle /\ call[t].h # NoHandle
      BY <1>4, CallFacts DEF LockInv, FreeDestroy
    <2>2. \A u \in Thread : call'[u] = IF u = t THEN c ELSE call[u]
      BY <1>2, <1>4 DEF FreeDestroy, Goto
    <2>3. c.h = call[t].h /\ c.step = "free_delete" /\ c.step \notin Booking
      BY <1>2 DEF CallState, Booking, LockSteps, UnlockSteps
    <2>4. \A u \in Thread : u # t /\ call[u].step \in Booking => call[u].bo # x
      <3>1. \A u \in Thread : u # t => call[u].h # call[t].h
        BY <2>1 DEF LockInv, CallsAlone
      <3> QED
        BY <2>1, <3>1, BoAlone DEF LockInv
    <2>5. (\A bo \in Bo : bo # x => bos'[bo] = bos[bo]) /\ Balanced(bos'[x])
      BY <1>2, <1>4, <2>1, NewBoBalanced DEF FreeDestroy, gbm_bo_destroy
    <2> HIDE DEF c, x
    <2> QED
      BY <1>1, <2>1, <2>2, <2>3, <2>4, <2>5, AloneStep, BookStep DEF LockInv
  <1>5. CASE ImportBo(t)
    <2>1. PICK x \in FreshBos :
            /\ gbm_bo_create(x, fds[handle[call[t].h].fd])
            /\ call' = [call EXCEPT ![t].step = "import_add", ![t].bo = x]
      BY <1>5 DEF ImportBo
    <2> DEFINE c == [call[t] EXCEPT !.step = "import_add", !.bo = x]
    <2>2. x \in Bo /\ \A e \in android_buffer_table : e.bo # x
      BY FreshBosUnused
    <2>3. \A u \in Thread : call'[u] = IF u = t THEN c ELSE call[u]
      BY <1>2, <2>1
    <2>4. c.h = call[t].h /\ c.step = "import_add" /\ c.step \notin Booking
      BY <1>2 DEF CallState, Booking, LockSteps, UnlockSteps
    <2>5. \A u \in Thread : call[u].step \in Booking => call[u].bo # x
      BY <2>2, CallFacts DEF LockInv
    <2>6. (\A bo \in Bo : bo # x => bos'[bo] = bos[bo]) /\ Balanced(bos'[x])
      BY <1>2, <2>1, <2>2, NewBoBalanced DEF gbm_bo_create
    <2> HIDE DEF c
    <2> QED
      BY <1>1, <2>2, <2>3, <2>4, <2>5, <2>6, AloneStep, BookStep DEF LockInv
  <1> QED
    BY <1>3, <1>4, <1>5

LEMMA LocksBooked ==
  ASSUME LockInv, NEW t \in Thread,
         \/ LockCheck(t) \/ LockMap(t) \/ LockMapFail(t) \/ LockCommit(t)
         \/ UnlockUnmap(t) \/ UnlockCommit(t)
  PROVE  CallsAlone' /\ BooksKept'
PROOF
  <1> DEFINE k == call[t]
             x == call[t].bo
             d == bos[x]
  <1>1. k.step \in Booking
    BY DEF LockCheck, LockMap, LockMapFail, LockCommit, UnlockUnmap, UnlockCommit, Booking, LockSteps, UnlockSteps
  <1>2. /\ k \in CallState /\ call \in [Thread -> CallState] /\ bos \in [Bo -> BoState]
        /\ x \in Bo /\ d \in BoState /\ Outstanding(k, d)
        /\ EntryOf(t) \in android_buffer_table /\ EntryOf(t).bo = x
        /\ EntryOf(t).fd = handle[k.h].fd /\ k.h \in Handle /\ k.h # NoHandle
    BY <1>1, CallFacts DEF LockInv, IInv, TypeOK, LibTypeOK, BooksKept
  <1>3. \A u \in Thread : u # t /\ call[u].step \in Booking => call[u].bo # x
    <2>1. \A u \in Thread : u # t => call[u].h # k.h
      BY <1>2 DEF LockInv, CallsAlone
    <2> QED
      BY <1>2, <2>1, BoAlone DEF LockInv
  (* It returns, the books balanced, or goes on.                            *)
  <1>4. PICK c : /\ call' = [call EXCEPT ![t] = c]
                 /\ c.h \in {NoHandle, k.h}
                 /\ \A bo \in Bo : bo # x => bos'[bo] = bos[bo]
                 /\ IF c.step \in Booking THEN c.bo = x /\ Outstanding(c, bos'[x]) ELSE Balanced(bos'[x])
    <2>1. Idle.h = NoHandle /\ Idle.step \notin Booking
      BY DEF Idle, Booking, LockSteps, UnlockSteps
    <2>2. d.lock_count \in Int /\ d.locked_for \in SUBSET UsageBit /\ d.map_data \in BOOLEAN
      BY <1>2 DEF BoState
    <2>3. CASE Return(t) /\ UNCHANGED bos /\ Balanced(d)
      BY <2>1, <2>3 DEF Return
    <2>4. CASE LockCheck(t)
      <3> DEFINE usage == k.usage \cup d.locked_for
                 next == IF usage \cap SwMask # {} THEN "lock_map" ELSE "lock_commit"
                 c == [k EXCEPT !.usage = usage, !.step = next]
      <3>1. k.step = "lock_check" /\ UNCHANGED bos /\ Balanced(d)
        BY <1>2, <2>4 DEF LockCheck, Outstanding
      <3>2. CASE ~Compatible(d, k.usage)
        BY <2>3, <2>4, <3>1, <3>2 DEF LockCheck
      <3>3. CASE Compatible(d, k.usage)
        <4>1. call' = [call EXCEPT ![t] = c]
          BY <1>2, <2>4, <3>3 DEF LockCheck
        <4>2. c.step = next /\ c.h = k.h /\ c.bo = x /\ c.usage = usage
          BY <1>2 DEF CallState
        <4>3. next \in Booking
          BY DEF Booking, LockSteps
        <4>4. d.lock_count = 0 \/ usage = d.locked_for
          BY <3>3 DEF Compatible
        <4>5. Outstanding(c, d)
          <5> HIDE DEF c, d, k, x
          <5> QED
            BY <3>1, <4>2, <4>4 DEF Outstanding, Balanced
        <4> HIDE DEF c
        <4> QED
          BY <3>1, <4>1, <4>2, <4>3, <4>5
      <3> QED
        BY <3>2, <3>3
    <2>5. CASE LockMap(t)
      <3> DEFINE c == [k EXCEPT !.step = "lock_commit"]
                 m == [d EXCEPT !.map_data = TRUE]
      <3>1. /\ k.step = "lock_map" /\ ~d.map_data /\ Balanced(d) /\ k.usage \cap SwMask # {}
            /\ d.lock_count = 0 \/ k.usage = d.locked_for
        BY <1>2, <2>5 DEF LockMap, Outstanding
      <3>2. /\ m.map_data /\ m.lock_count = d.lock_count /\ m.locked_for = d.locked_for
            /\ bos' = [bos EXCEPT ![x] = m]
        BY <1>2, <2>5 DEF LockMap, BoState
      <3>3. c.step = "lock_commit" /\ c.h = k.h /\ c.bo = x /\ c.usage = k.usage /\ call' = [call EXCEPT ![t] = c]
        BY <1>2, <2>5 DEF LockMap, Goto, CallState
      <3>4. d.lock_count = 0
        BY <3>1 DEF Balanced
      <3> HIDE DEF c, m
      <3>5. Outstanding(c, m)
        BY <3>1, <3>2, <3>3, <3>4 DEF Outstanding, Balanced, Counted
      <3>6. bos'[x] = m /\ \A bo \in Bo : bo # x => bos'[bo] = bos[bo]
        BY <1>2, <3>2
      <3>7. c.step \in Booking
        BY <3>3 DEF Booking, LockSteps
      <3> QED
        BY <3>3, <3>5, <3>6, <3>7
    <2>6. CASE LockMapFail(t)
      BY <1>2, <2>3, <2>6 DEF LockMapFail, Outstanding
    <2>7. CASE LockCommit(t)
      <3>1. k.step = "lock_commit" /\ Return(t) /\ bos' = [bos EXCEPT ![x] = Locked(d, k.usage)]
        BY <2>7 DEF LockCommit
      <3>2. Balanced(Locked(d, k.usage))
        BY <1>2, <3>1, LockBooked DEF CallState
      <3>3. bos'[x] = Locked(d, k.usage) /\ \A bo \in Bo : bo # x => bos'[bo] = bos[bo]
        BY <1>2, <3>1
      <3> QED
        BY <2>1, <3>1, <3>2, <3>3 DEF Return
    <2>8. CASE UnlockUnmap(t)
      <3> DEFINE c == [k EXCEPT !.step = "unlock_commit"]
                 m == IF d.locked_for \cap SwMask = {} THEN d ELSE [d EXCEPT !.map_data = FALSE]
      <3>1. k.step = "unlock_unmap" /\ Balanced(d)
        BY <1>2, <2>8 DEF UnlockUnmap, Outstanding
      <3>2. CASE d.lock_count = 0
        BY <2>3, <2>8, <3>1, <3>2 DEF UnlockUnmap
      <3>3. CASE d.lock_count # 0
        <4>1. ~m.map_data /\ m.lock_count = d.lock_count /\ m.locked_for = d.locked_for
          BY <1>2, <2>2, <3>1 DEF BoState, Balanced
        <4>2. bos'[x] = m /\ \A bo \in Bo : bo # x => bos'[bo] = bos[bo]
          BY <1>2, <2>8, <3>3 DEF UnlockUnmap
        <4>3. c.step = "unlock_commit" /\ c.h = k.h /\ c.bo = x /\ call' = [call EXCEPT ![t] = c]
          BY <1>2, <2>8, <3>3 DEF UnlockUnmap, Goto, CallState
        <4> HIDE DEF c, m
        <4>4. Outstanding(c, m)
          BY <2>2, <3>1, <3>3, <4>1, <4>3 DEF Outstanding, Balanced, Counted
        <4>5. c.step \in Booking
          BY <4>3 DEF Booking, UnlockSteps
        <4> QED
          BY <4>2, <4>3, <4>4, <4>5
      <3> QED
        BY <3>2, <3>3
    <2>9. CASE UnlockCommit(t)
      <3>1. k.step = "unlock_commit" /\ Return(t) /\ bos' = [bos EXCEPT ![x] = Unlocked(d)]
        BY <2>9 DEF UnlockCommit
      <3>2. Balanced(Unlocked(d))
        BY <1>2, <3>1, UnlockBooked
      <3>3. bos'[x] = Unlocked(d) /\ \A bo \in Bo : bo # x => bos'[bo] = bos[bo]
        BY <1>2, <3>1
      <3> QED
        BY <2>1, <3>1, <3>2, <3>3 DEF Return
    <2> QED
      BY <2>4, <2>5, <2>6, <2>7, <2>8, <2>9
  <1>5. \A u \in Thread : call'[u] = IF u = t THEN c ELSE call[u]
    BY <1>2, <1>4
  <1>6. CallsAlone'
    BY <1>4, <1>5, AloneStep DEF LockInv
  <1> HIDE DEF x, d
  <1>7. BooksKept'
    <2>1. call[t].bo = x
      BY DEF x
    <2> QED
      BY <1>2, <1>3, <1>4, <1>5, <2>1, BookStep
  <1> QED
    BY <1>6, <1>7

LEMMA LockInvNext == ASSUME ~SharedCalls PROVE LockInv /\ [Next]_vars => LockInv'
PROOF
  <1> SUFFICES ASSUME LockInv, [Next]_vars PROVE LockInv'
    OBVIOUS
  <1>1. IInv'
    BY InvNext DEF LockInv
  <1>2. CASE UNCHANGED vars
    BY <1>1, <1>2 DEF vars, LockInv, CallsAlone, BooksKept, Busy
  <1>3. CASE Next
    BY <1>1, <1>3, EnterBooked, OthersBooked, LocksBooked DEF Next, Continues, LockInv
  <1> QED
    BY <1>2, <1>3

LEMMA LockInvInit == Init => LockInv
PROOF
  <1> SUFFICES ASSUME Init PROVE LockInv
    OBVIOUS
  <1>1. \A t \in Thread : call[t].h = NoHandle /\ call[t].step \notin Booking
    BY DEF Init, Idle, Booking, LockSteps, UnlockSteps
  <1>2. \A bo \in Bo : Balanced(bos[bo])
    BY NewBoBalanced DEF Init, LibInit
  <1> QED
    BY <1>1, <1>2, InvInit DEF LockInv, CallsAlone, BooksKept

(* If clients do not overlap calls on a handle, lock_count, locked_for and  *)
(* map_data agree whenever no lock or unlock is half done: a CPU lock is    *)
(* the only one, and the last unlock leaves nothing behind.                 *)
THEOREM LocksAddUp == ASSUME ~SharedCalls PROVE Spec => []LockBook
PROOF
  <1>1. LockInv => LockBook
    BY DEF LockInv, BooksKept, LockBook, Balanced, Counted
  <1> QED
    BY <1>1, LockInvInit, LockInvNext, PTL DEF Spec

-----------------------------------------------------------------------------
(* The calls implement BufferLease. One more thing is needed: an imported   *)
(* BO comes into the table as it was made.                                  *)
ImportsFresh == \A t \in Thread : call[t].step = "import_add" =>
  bos[call[t].bo].lock_count = 0 /\ bos[call[t].bo].locked_for = {}

LeaseInv == LockInv /\ ImportsFresh

(* What LeaseOf says of a handle the client has, as a function of the       *)
(* values it reads, in either state of a step.                              *)
None  == [phase |-> "none", locks |-> 0, used |-> {}]
Freed == [phase |-> "freed", locks |-> 0, used |-> {}]
Held(d) == [phase |-> "held", locks |-> d.lock_count, used |-> d.locked_for]

LeaseAt(fd, table, B) ==
  LET live == {B[e.bo] : e \in {x \in table : x.fd = fd /\ B[x.bo].buf # NoBuf}}
      d == CHOOSE x \in live : TRUE
  IN IF live = {} THEN Freed ELSE Held(d)

LEMMA LeaseRead ==
  ASSUME NEW h
  PROVE  /\ ~Given(h) => LeaseOf(h) = None
         /\ Given(h) => LeaseOf(h) = LeaseAt(handle[h].fd, android_buffer_table, bos)
         /\ ~Given(h)' => LeaseOf(h)' = None
         /\ Given(h)' => LeaseOf(h)' = LeaseAt(handle'[h].fd, android_buffer_table', bos')
PROOF
  <1>1. {bos[bo] : bo \in {b \in find_buffer_k(handle[h].fd) : Live(b)}}
          = {bos[e.bo] : e \in {x \in android_buffer_table : x.fd = handle[h].fd /\ bos[x.bo].buf # NoBuf}}
    BY DEF find_buffer_k, Live
  <1>2. {bos'[bo] : bo \in {b \in find_buffer_k(handle[h].fd)' : Live(b)'}}
          = {bos'[e.bo] : e \in {x \in android_buffer_table' : x.fd = handle'[h].fd /\ bos'[x.bo].buf # NoBuf}}
    BY DEF find_buffer_k, Live
  <1> QED
    BY <1>1, <1>2 DEF LeaseOf, LeaseAt, None, Freed, Held

LEMMA LeaseFreed ==
  ASSUME NEW fd, NEW table, NEW B, \A e \in table : e.fd = fd => B[e.bo].buf = NoBuf
  PROVE  LeaseAt(fd, table, B) = Freed
PROOF
  BY DEF LeaseAt

LEMMA LeaseHeld ==
  ASSUME NEW fd, NEW table, NEW B, \A e, f \in table : e.fd = f.fd => e = f,
         NEW e \in table, e.fd = fd, B[e.bo].buf # NoBuf
  PROVE  LeaseAt(fd, table, B) = Held(B[e.bo])
PROOF
  <1> DEFINE live == {B[x.bo] : x \in {y \in table : y.fd = fd /\ B[y.bo].buf # NoBuf}}
  <1>1. live = {B[e.bo]}
    OBVIOUS
  <1>2. (CHOOSE x \in live : TRUE) = B[e.bo]
    BY <1>1
  <1>3. live # {}
    BY <1>1
  <1> QED
    BY <1>2, <1>3 DEF LeaseAt

(* A step after which the live entry of a handle is the same and as locked. *)
LEMMA LeaseKept ==
  ASSUME KeysUnique, KeysUnique', NEW h, Given(h)' <=> Given(h),
         Given(h) => handle'[h].fd = handle[h].fd,
         \A e \in android_buffer_table : e.fd = handle[h].fd /\ Live(e.bo) =>
           /\ e \in android_buffer_table' /\ bos'[e.bo].buf # NoBuf
           /\ bos'[e.bo].lock_count = bos[e.bo].lock_count /\ bos'[e.bo].locked_for = bos[e.bo].locked_for,
         \A e \in android_buffer_table' : e.fd = handle[h].fd /\ bos'[e.bo].buf # NoBuf =>
           e \in android_buffer_table /\ Live(e.bo)
  PROVE  LeaseOf(h)' = LeaseOf(h)
PROOF
  <1>1. CASE ~Given(h)
    BY <1>1, LeaseRead
  <1>2. CASE Given(h) /\ \E e \in android_buffer_table : e.fd = handle[h].fd /\ Live(e.bo)
    <2>1. PICK e \in android_buffer_table : e.fd = handle[h].fd /\ Live(e.bo)
      BY <1>2
    <2>2. /\ e \in android_buffer_table' /\ bos'[e.bo].buf # NoBuf /\ e.fd = handle'[h].fd /\ bos[e.bo].buf # NoBuf
          /\ bos'[e.bo].lock_count = bos[e.bo].lock_count /\ bos'[e.bo].locked_for = bos[e.bo].locked_for
      BY <1>2, <2>1 DEF Live
    <2>3. /\ \A e1, f1 \in android_buffer_table : e1.fd = f1.fd => e1 = f1
          /\ \A e1, f1 \in android_buffer_table' : e1.fd = f1.fd => e1 = f1
      BY DEF KeysUnique
    <2>4. LeaseAt(handle[h].fd, android_buffer_table, bos) = Held(bos[e.bo])
      BY <2>1, <2>2, <2>3, LeaseHeld
    <2>5. LeaseAt(handle'[h].fd, android_buffer_table', bos') = Held(bos'[e.bo])
      BY <2>2, <2>3, LeaseHeld
    <2>6. Held(bos'[e.bo]) = Held(bos[e.bo])
      BY <2>2 DEF Held
    <2> QED
      BY <1>2, <2>4, <2>5, <2>6, LeaseRead
  <1>3. CASE Given(h) /\ ~\E e \in android_buffer_table : e.fd = handle[h].fd /\ Live(e.bo)
    <2>1. \A e \in android_buffer_table : e.fd = handle[h].fd => bos[e.bo].buf = NoBuf
      BY <1>3 DEF Live
    <2>2. \A e \in android_buffer_table' : e.fd = handle'[h].fd => bos'[e.bo].buf = NoBuf
      BY <1>3
    <2>3. LeaseAt(handle[h].fd, android_buffer_table, bos) = Freed
      BY <2>1, LeaseFreed
    <2>4. LeaseAt(handle'[h].fd, android_buffer_table', bos') = Freed
      BY <2>2, LeaseFreed
    <2> QED
      BY <1>3, <2>3, <2>4, LeaseRead
  <1> QED
    BY <1>1, <1>2, <1>3

(* Which handles the client has changes with imports only.                  *)
Importing(c, g) == c.h = g /\ c.step \in ImportSteps

LEMMA GivenStep ==
  ASSUME NEW t \in Thread, NEW c, NEW g,
         \A u \in Thread : call'[u] = IF u = t THEN c ELSE call[u],
         handle'[g].fd = handle[g].fd,
         Importing(c, g) <=> Importing(call[t], g)
  PROVE  Given(g)' <=> Given(g)
PROOF
  BY DEF Given, InCall, Importing

(* Steps that leave every live entry as it is and every lock as it was.     *)
EntriesKept ==
  /\ \A e \in android_buffer_table : Live(e.bo) =>
       /\ e \in android_buffer_table' /\ bos'[e.bo].buf # NoBuf
       /\ bos'[e.bo].lock_count = bos[e.bo].lock_count /\ bos'[e.bo].locked_for = bos[e.bo].locked_for
  /\ \A e \in android_buffer_table' : bos'[e.bo].buf # NoBuf => e \in android_buffer_table /\ Live(e.bo)

LEMMA LeaseStays ==
  ASSUME KeysUnique, KeysUnique', EntriesKept,
         NEW t \in Thread, NEW c, NEW g,
         \A u \in Thread : call'[u] = IF u = t THEN c ELSE call[u],
         handle'[g].fd = handle[g].fd,
         Importing(c, g) <=> Importing(call[t], g)
  PROVE  LeaseOf(g)' = LeaseOf(g)
PROOF
  <1>1. Given(g)' <=> Given(g)
    BY GivenStep
  <1> QED
    BY <1>1, LeaseKept DEF EntriesKept

LEMMA QuietLease ==
  ASSUME LeaseInv, IInv', NEW t \in Thread,
         \/ ImportBo(t) \/ FreeDelete(t) \/ LockCheck(t) \/ LockMap(t) \/ LockMapFail(t)
         \/ UnlockUnmap(t) \/ QueryFd(t)
         \/ \E h \in Handle : \/ FreeFind(t, h) \/ UnlockFind(t, h) \/ QueryFind(t, h)
                              \/ \E usage \in LockUsages : LockFind(t, h, usage),
         NEW g \in Handle
  PROVE  LeaseOf(g)' = LeaseOf(g)
PROOF
  <1>1. /\ call[t] \in CallState /\ call \in [Thread -> CallState] /\ bos \in [Bo -> BoState]
        /\ android_buffer_table \subseteq Entry
        /\ KeysUnique /\ KeysUnique'
    BY DEF LeaseInv, LockInv, IInv, TypeOK, LibTypeOK
  <1>2. handle' = handle
    BY DEF ImportBo, FreeDelete, LockCheck, LockMap, LockMapFail, UnlockUnmap, QueryFd,
         FreeFind, UnlockFind, QueryFind, LockFind
  <1>3. EntriesKept
    <2>1. CASE UNCHANGED <<bos, android_buffer_table>>
      BY <2>1 DEF EntriesKept, Live
    <2>2. CASE ImportBo(t)
      <3>1. PICK x \in FreshBos : gbm_bo_create(x, fds[handle[call[t].h].fd])
        BY <2>2 DEF ImportBo
      <3>2. x \in Bo /\ \A e \in android_buffer_table : e.bo # x
        BY FreshBosUnused
      <3>3. \A bo \in Bo : bo # x => bos'[bo] = bos[bo]
        BY <1>1, <3>1 DEF gbm_bo_create
      <3>4. \A e \in android_buffer_table : e.bo \in Bo /\ bos'[e.bo] = bos[e.bo]
        BY <1>1, <3>2, <3>3 DEF Entry
      <3>5. android_buffer_table' = android_buffer_table
        BY <2>2 DEF ImportBo
      <3> QED
        BY <3>4, <3>5 DEF EntriesKept, Live
    <2>3. CASE FreeDelete(t)
      <3>1. ~Live(call[t].bo) /\ bos' = bos
        BY <2>3 DEF FreeDelete, LeaseInv, LockInv, IInv, DestroyedDead
      <3>2. \A e \in android_buffer_table : Live(e.bo) => e \in android_buffer_table'
        BY <2>3, <3>1 DEF FreeDelete, delete_buffer
      <3>3. android_buffer_table' \subseteq android_buffer_table
        BY <2>3 DEF FreeDelete, delete_buffer
      <3> QED
        BY <3>1, <3>2, <3>3 DEF EntriesKept, Live
    <2>4. CASE LockMap(t) \/ UnlockUnmap(t)
      <3>1. call[t].bo \in Bo
        BY <2>4, CallFacts DEF LeaseInv, LockInv, LockMap, UnlockUnmap, Booking, LockSteps, UnlockSteps
      <3>2. \A bo \in Bo : /\ bos'[bo].buf = bos[bo].buf /\ bos'[bo].lock_count = bos[bo].lock_count
                           /\ bos'[bo].locked_for = bos[bo].locked_for
        <4>1. ASSUME NEW m \in BOOLEAN, bos' = [bos EXCEPT ![call[t].bo].map_data = m]
              PROVE  <3>2!:
          BY <1>1, <3>1, <4>1 DEF BoState
        <4> QED
          BY <2>4, <4>1 DEF LockMap, UnlockUnmap
      <3>3. android_buffer_table' = android_buffer_table
        BY <2>4 DEF LockMap, UnlockUnmap
      <3>4. \A e \in android_buffer_table : e.bo \in Bo
        BY <1>1 DEF Entry
      <3> QED
        BY <3>2, <3>3, <3>4 DEF EntriesKept, Live
    <2> QED
      BY <2>1, <2>2, <2>3, <2>4 DEF LockCheck, LockMapFail, QueryFd, FreeFind, UnlockFind, QueryFind, LockFind
  <1>4. \E c : /\ \A u \in Thread : call'[u] = IF u = t THEN c ELSE call[u]
               /\ Importing(c, g) <=> Importing(call[t], g)
    <2>1. ~Importing(Idle, g)
      BY DEF Idle, Importing, ImportSteps
    <2>2. ASSUME NEW c, call' = [call EXCEPT ![t] = c], Importing(c, g) <=> Importing(call[t], g)
          PROVE  <1>4
      BY <1>1, <2>2
    <2>3. CASE ImportBo(t)
      <3>1. PICK x : call' = [call EXCEPT ![t].step = "import_add", ![t].bo = x]
        BY <2>3 DEF ImportBo
      <3> DEFINE c == [call[t] EXCEPT !.step = "import_add", !.bo = x]
      <3>2. call' = [call EXCEPT ![t] = c] /\ (Importing(c, g) <=> Importing(call[t], g))
        BY <1>1, <2>3, <3>1 DEF ImportBo, Importing, CallState, ImportSteps
      <3> QED
        BY <2>2, <3>2
    <2>4. CASE FreeDelete(t) \/ LockMapFail(t) \/ QueryFd(t)
      <3>1. ~Importing(call[t], g) /\ call' = [call EXCEPT ![t] = Idle]
        BY <2>4 DEF FreeDelete, LockMapFail, QueryFd, Return, Importing, ImportSteps
      <3> QED
        BY <2>1, <2>2, <3>1
    <2>5. CASE LockCheck(t) \/ LockMap(t) \/ UnlockUnmap(t)
      <3>1. ~Importing(call[t], g)
        BY <2>5 DEF LockCheck, LockMap, UnlockUnmap, Importing, ImportSteps
      <3>2. \/ call' = [call EXCEPT ![t] = Idle]
            \/ \E c : ~Importing(c, g) /\ call' = [call EXCEPT ![t] = c]
        <4>1. CASE Goto(t, "lock_commit") \/ Goto(t, "unlock_commit")
          BY <1>1, <4>1 DEF Goto, Importing, ImportSteps, CallState
        <4>2. CASE Return(t)
          BY <4>2 DEF Return
        <4>3. CASE LockCheck(t) /\ ~Return(t)
          <5> DEFINE s == IF (call[t].usage \cup bos[call[t].bo].locked_for) \cap SwMask # {} THEN "lock_map" ELSE "lock_commit"
                     c == [call[t] EXCEPT !.usage = call[t].usage \cup bos[call[t].bo].locked_for, !.step = s]
          <5>1. call' = [call EXCEPT ![t] = c]
            BY <1>1, <4>3 DEF LockCheck
          <5>2. s \notin ImportSteps /\ c.step = s
            BY <1>1 DEF ImportSteps, CallState
          <5> QED
            BY <5>1, <5>2 DEF Importing
        <4> QED
          BY <2>5, <4>1, <4>2, <4>3 DEF LockMap, UnlockUnmap
      <3> QED
        BY <2>1, <2>2, <3>1, <3>2
    <2>6. CASE \E h \in Handle : \/ FreeFind(t, h) \/ UnlockFind(t, h) \/ QueryFind(t, h)
                                 \/ \E usage \in LockUsages : LockFind(t, h, usage)
      <3>1. ASSUME NEW step, NEW h, NEW bo, NEW usage, Enter(t, step, h, bo, usage), step \notin ImportSteps
            PROVE  <1>4
        <4>1. ~Importing(call[t], g)
          BY <2>1, <3>1 DEF Enter
        <4>2. ~Importing([step |-> step, h |-> h, bo |-> bo, usage |-> usage], g)
          BY <3>1 DEF Importing
        <4> QED
          BY <2>2, <3>1, <4>1, <4>2 DEF Enter
      <3>2. {"free_destroy", "unlock_unmap", "query_fd", "lock_check"} \cap ImportSteps = {}
        BY DEF ImportSteps
      <3> QED
        BY <2>6, <3>1, <3>2 DEF FreeFind, UnlockFind, QueryFind, LockFind
    <2> QED
      BY <2>3, <2>4, <2>5, <2>6
  <1> QED
    BY <1>1, <1>2, <1>3, <1>4, LeaseStays

(* The two ends of an import that lead to no lease.                         *)
LEMMA NoLease ==
  ASSUME LeaseInv, IInv', NEW t \in Thread,
         ImportFail(t) \/ \E h \in Handle, b \in Buf : ImportClone(t, h, b),
         NEW g \in Handle
  PROVE  LeaseOf(g)' = LeaseOf(g)
PROOF
  <1>1. /\ call[t] \in CallState /\ call \in [Thread -> CallState]
        /\ DOMAIN handle = Handle
        /\ KeysUnique /\ KeysUnique'
    BY DEF LeaseInv, LockInv, IInv, TypeOK, LibTypeOK
  <1>2. EntriesKept
    BY DEF ImportFail, ImportClone, EntriesKept, Live
  <1>3. ~Importing(Idle, g)
    BY DEF Idle, Importing, ImportSteps
  <1>4. CASE ImportFail(t)
    <2>1. \A u \in Thread : call'[u] = IF u = t THEN Idle ELSE call[u]
      BY <1>1, <1>4 DEF ImportFail, Return
    <2>2. call[t].h \in Handle /\ handle' = [handle EXCEPT ![call[t].h] = NullHandle]
      BY <1>4 DEF ImportFail, LeaseInv, LockInv, IInv, CallsFormed
    <2>3. CASE g = call[t].h
      <3>1. ~Given(g)
        BY <1>4, <2>3 DEF ImportFail, Given, InCall, ImportSteps
      <3>2. handle'[g].fd = NoFd
        BY <1>1, <2>2, <2>3 DEF NullHandle
      <3>3. ~Given(g)'
        BY <3>2 DEF Given
      <3> QED
        BY <3>1, <3>3, LeaseRead
    <2>4. CASE g # call[t].h
      <3>1. handle'[g].fd = handle[g].fd /\ ~Importing(call[t], g)
        BY <1>1, <2>2, <2>4 DEF Importing
      <3> QED
        BY <1>1, <1>2, <1>3, <2>1, <3>1, LeaseStays
    <2> QED
      BY <2>3, <2>4
  <1>5. ASSUME NEW h \in Handle, NEW b \in Buf, ImportClone(t, h, b) PROVE LeaseOf(g)' = LeaseOf(g)
    <2> DEFINE c == [Idle EXCEPT !.step = "import_bo", !.h = h]
    <2>1. call[t] = Idle /\ c.h = h /\ c.step = "import_bo"
      BY <1>5 DEF ImportClone, Idle
    <2>2. \A u \in Thread : call'[u] = IF u = t THEN c ELSE call[u]
      BY <1>1, <1>5 DEF ImportClone
    <2>3. CASE g = h
      <3>1. ~Given(g)
        <4>1. handle[g] = NullHandle
          BY <1>5, <2>3 DEF ImportClone
        <4>2. handle[g].fd = NoFd
          BY <4>1 DEF NullHandle
        <4> QED
          BY <4>2 DEF Given
      <3>2. ~Given(g)'
        <4>1. call'[t].h = g /\ call'[t].step \in ImportSteps
          BY <2>1, <2>2, <2>3 DEF ImportSteps
        <4> QED
          BY <4>1 DEF Given, InCall
      <3> QED
        BY <3>1, <3>2, LeaseRead
    <2>4. CASE g # h
      <3>1. handle'[g].fd = handle[g].fd
        BY <1>1, <1>5, <2>4 DEF ImportClone
      <3>2. ~Importing(call[t], g) /\ ~Importing(c, g)
        BY <1>3, <2>1, <2>4 DEF Importing
      <3> HIDE DEF c
      <3> QED
        BY <1>1, <1>2, <2>2, <3>1, <3>2, LeaseStays
    <2> QED
      BY <2>3, <2>4
  <1> QED
    BY <1>4, <1>5

(* A call on a registered handle finds the BO that decides its lease.       *)
LEMMA LeaseInCall ==
  ASSUME LeaseInv, NEW t \in Thread, call[t].step \in Booking \cup {"free_destroy"}
  PROVE  /\ call[t].h \in Handle /\ call[t].bo \in Bo /\ Given(call[t].h)
         /\ EntryOf(t) \in android_buffer_table /\ EntryOf(t).bo = call[t].bo
         /\ EntryOf(t).fd = handle[call[t].h].fd
         /\ Live(call[t].bo)
         /\ \A e \in android_buffer_table : e.fd = handle[call[t].h].fd => e = EntryOf(t)
         /\ \A e \in android_buffer_table : e.bo = call[t].bo => e = EntryOf(t)
         /\ LeaseOf(call[t].h) = Held(bos[call[t].bo])
PROOF
  <1>1. /\ EntryOf(t) \in android_buffer_table /\ EntryOf(t).bo = call[t].bo
        /\ EntryOf(t).fd = handle[call[t].h].fd /\ EntryOf(t).fd \in Fd
        /\ call[t].h \in Handle /\ call[t].h # NoHandle /\ call[t].bo \in Bo
    BY CallFacts DEF LeaseInv, LockInv
  <1>2. \A u \in Thread : u # t => call[u].h # call[t].h
    BY <1>1 DEF LeaseInv, LockInv, CallsAlone
  <1>3. call[t].step \notin ImportSteps /\ call[t].step # "free_delete"
    BY DEF Booking, LockSteps, UnlockSteps, ImportSteps
  <1>4. Given(call[t].h)
    BY <1>1, <1>2, <1>3, NullAssumption DEF Given, InCall
  <1>5. ~Dying(EntryOf(t))
    <2>1. SUFFICES ASSUME NEW u \in Thread, call[u].step = "free_delete", EntryOf(u) = EntryOf(t) PROVE FALSE
      BY DEF Dying
    <2>2. call[u].h \in Handle /\ handle[call[u].h].fd = EntryOf(u).fd
      BY <2>1 DEF LeaseInv, LockInv, IInv, CallsFormed, EntryOf
    <2>3. call[u].h = call[t].h
      BY <1>1, <2>1, <2>2, NullAssumption DEF LeaseInv, LockInv, IInv, HandlesDistinct
    <2> QED
      BY <1>2, <1>3, <2>1, <2>3
  <1>6. Live(call[t].bo)
    BY <1>1, <1>5 DEF LeaseInv, LockInv, IInv, KeyNamesBo
  <1>7. \A e1, f1 \in android_buffer_table : e1.fd = f1.fd => e1 = f1
    BY DEF LeaseInv, LockInv, IInv, KeysUnique
  <1>8. \A e \in android_buffer_table : e.bo = call[t].bo => e = EntryOf(t)
    BY <1>1 DEF LeaseInv, LockInv, IInv, BosDistinct
  <1>9. LeaseAt(handle[call[t].h].fd, android_buffer_table, bos) = Held(bos[call[t].bo])
    BY <1>1, <1>6, <1>7, LeaseHeld DEF Live
  <1> QED
    BY <1>1, <1>4, <1>6, <1>7, <1>8, <1>9, LeaseRead

(* A step of that call changes this lease only, to what it leaves the BO.   *)
LEMMA OneLease ==
  ASSUME LeaseInv, IInv', NEW t \in Thread, call[t].step \in Booking \cup {"free_destroy"}, NEW c,
         NEW h \in Handle, call[t].h = h,
         \A u \in Thread : call'[u] = IF u = t THEN c ELSE call[u],
         c.step \notin ImportSteps,
         UNCHANGED <<handle, android_buffer_table>>,
         \A bo \in Bo : bo # call[t].bo => bos'[bo] = bos[bo]
  PROVE  /\ \A g \in Handle : g # h => LeaseOf(g)' = LeaseOf(g)
         /\ LeaseOf(h)' = IF bos'[call[t].bo].buf = NoBuf THEN Freed ELSE Held(bos'[call[t].bo])
PROOF
  <1> DEFINE x == call[t].bo
             en == EntryOf(t)
  <1>1. /\ h \in Handle /\ x \in Bo /\ Given(h)
        /\ en \in android_buffer_table /\ en.bo = x /\ en.fd = handle[h].fd
        /\ Live(x)
        /\ \A e \in android_buffer_table : e.fd = handle[h].fd => e = en
        /\ \A e \in android_buffer_table : e.bo = x => e = en
    BY LeaseInCall
  <1>2. /\ KeysUnique /\ KeysUnique'
        /\ \A e \in android_buffer_table : e.bo \in Bo
    BY DEF LeaseInv, LockInv, IInv, TypeOK, LibTypeOK, Entry
  <1>3. \A g \in Handle : Given(g)' <=> Given(g)
    <2> SUFFICES ASSUME NEW g \in Handle PROVE Given(g)' <=> Given(g)
      OBVIOUS
    <2>1. ~Importing(c, g) /\ ~Importing(call[t], g)
      BY DEF Importing, Booking, LockSteps, UnlockSteps, ImportSteps
    <2> QED
      BY <2>1, GivenStep
  <1> HIDE DEF x, en
  <1>4. ASSUME NEW g \in Handle, g # h PROVE LeaseOf(g)' = LeaseOf(g)
    <2>1. handle[g].fd # handle[h].fd
      BY <1>1, <1>4 DEF LeaseInv, LockInv, IInv, HandlesDistinct, Given
    <2>2. \A e \in android_buffer_table : e.fd = handle[g].fd => bos'[e.bo] = bos[e.bo]
      <3>1. \A e \in android_buffer_table : e.fd = handle[g].fd => e.bo # x /\ e.bo \in Bo
        BY <1>1, <1>2, <2>1
      <3> QED
        BY <3>1 DEF x
    <2> QED
      BY <1>2, <1>3, <2>2, LeaseKept DEF Live
  <1>5. LeaseOf(h)' = IF bos'[x].buf = NoBuf THEN Freed ELSE Held(bos'[x])
    <2>1. Given(h)'
      BY <1>1, <1>3
    <2>2. LeaseAt(handle[h].fd, android_buffer_table, bos')
            = IF bos'[x].buf = NoBuf THEN Freed ELSE Held(bos'[x])
      <3>1. CASE bos'[x].buf = NoBuf
        <4>1. \A e \in android_buffer_table : e.fd = handle[h].fd => bos'[e.bo].buf = NoBuf
          BY <1>1, <3>1
        <4> QED
          BY <3>1, <4>1, LeaseFreed
      <3>2. CASE bos'[x].buf # NoBuf
        <4>1. \A e1, f1 \in android_buffer_table : e1.fd = f1.fd => e1 = f1
          BY <1>2 DEF KeysUnique
        <4>2. bos'[en.bo].buf # NoBuf /\ bos'[en.bo] = bos'[x]
          BY <1>1, <3>2
        <4>3. LeaseAt(handle[h].fd, android_buffer_table, bos') = Held(bos'[en.bo])
          BY <1>1, <4>1, <4>2, LeaseHeld
        <4> QED
          BY <3>2, <4>2, <4>3
      <3> QED
        BY <3>1, <3>2
    <2> QED
      BY <2>1, <2>2, LeaseRead
  <1> QED
    BY <1>4, <1>5 DEF x

LeaseMap == [h \in Handle |-> LeaseOf(h)]

LEMMA LeaseChanges ==
  ASSUME NEW h \in Handle, \A g \in Handle : g # h => LeaseOf(g)' = LeaseOf(g)
  PROVE  LeaseMap' = [LeaseMap EXCEPT ![h] = LeaseOf(h)']
PROOF
  BY DEF LeaseMap

LEMMA ImportLease ==
  ASSUME LeaseInv, IInv', NEW t \in Thread, ImportAdd(t)
  PROVE  Leases!Next
PROOF
  <1>0. PICK h : h = call[t].h
    OBVIOUS
  <1> DEFINE x == call[t].bo
             en == [fd |-> handle[h].fd, bo |-> x]
  <1>1. /\ call \in [Thread -> CallState] /\ call[t].step = "import_add"
        /\ android_buffer_table' = android_buffer_table \cup {en}
        /\ UNCHANGED <<fds, bos, handle>>
        /\ \A u \in Thread : call'[u] = IF u = t THEN Idle ELSE call[u]
    BY <1>0 DEF ImportAdd, add_buffer, Return, LeaseInv, LockInv, IInv, TypeOK
  <1>2. /\ h \in Handle /\ handle[h].fd \in Fd /\ x \in Bo
        /\ Live(x)
        /\ bos[x].lock_count = 0 /\ bos[x].locked_for = {}
    BY <1>0, <1>1 DEF LeaseInv, LockInv, IInv, CallsFormed, ImportsPrivate, ImportsFresh
  <1>3. \A u \in Thread : u # t => call[u].h # h
    BY <1>0, <1>1 DEF LeaseInv, LockInv, IInv, CallsExclusive, ImportSteps
  <1>4. en.fd = handle[h].fd /\ en.bo = x
    OBVIOUS
  <1> HIDE DEF x, en
  <1>5. KeysUnique /\ KeysUnique'
    BY DEF LeaseInv, LockInv, IInv
  <1>6. LeaseOf(h) = None
    <2>1. ~Given(h)
      BY <1>0, <1>1 DEF Given, InCall, ImportSteps
    <2> QED
      BY <2>1, LeaseRead
  <1>7. LeaseOf(h)' = Held(bos[x])
    <2>1. Given(h)'
      <3>1. Idle.h # h
        BY <1>2, ClientAssumption DEF Idle
      <3>2. \A u \in Thread : call'[u].h # h
        BY <1>1, <1>3, <3>1
      <3> QED
        BY <1>1, <1>2, <3>2, NullAssumption DEF Given, InCall
    <2>2. \A e1, f1 \in android_buffer_table' : e1.fd = f1.fd => e1 = f1
      BY <1>5 DEF KeysUnique
    <2>3. en \in android_buffer_table' /\ bos'[en.bo].buf # NoBuf /\ bos'[en.bo] = bos[x] /\ en.fd = handle'[h].fd
      BY <1>1, <1>2, <1>4 DEF Live
    <2>4. LeaseAt(handle'[h].fd, android_buffer_table', bos') = Held(bos'[en.bo])
      BY <2>2, <2>3, LeaseHeld
    <2> QED
      BY <2>1, <2>3, <2>4, LeaseRead
  <1>8. ASSUME NEW g \in Handle, g # h PROVE LeaseOf(g)' = LeaseOf(g)
    <2>1. handle[g].fd # en.fd
      BY <1>2, <1>4, <1>8, NullAssumption DEF LeaseInv, LockInv, IInv, HandlesDistinct
    <2>2. Given(g)' <=> Given(g)
      <3>1. ~Importing(Idle, g) /\ ~Importing(call[t], g)
        BY <1>0, <1>8 DEF Idle, Importing, ImportSteps
      <3> QED
        BY <1>1, <3>1, GivenStep
    <2> QED
      BY <1>1, <1>5, <2>1, <2>2, LeaseKept DEF Live
  <1>9. LeaseOf(h)' = Leases!Unlocked /\ LeaseMap[h].phase = "none"
    BY <1>2, <1>6, <1>7 DEF Held, Leases!Unlocked, LeaseMap, None
  <1>10. LeaseMap' = [LeaseMap EXCEPT ![h] = Leases!Unlocked]
    BY <1>2, <1>8, <1>9, LeaseChanges
  <1>11. Leases!Import(h)
    BY <1>9, <1>10 DEF Leases!Import, LeaseMap
  <1> QED
    BY <1>2, <1>11 DEF Leases!Next

(* free_destroy, lock_commit and unlock_commit: calls take effect here.     *)
LEMMA CommitLease ==
  ASSUME LeaseInv, IInv', NEW t \in Thread, FreeDestroy(t) \/ LockCommit(t) \/ UnlockCommit(t)
  PROVE  Leases!Next
PROOF
  <1> DEFINE x == call[t].bo
             d == bos[x]
             k == call[t]
  <1>0. PICK h : h = call[t].h
    OBVIOUS
  <1>1. k.step \in Booking \cup {"free_destroy"}
    BY DEF FreeDestroy, LockCommit, UnlockCommit, Booking, LockSteps, UnlockSteps
  <1>2. h \in Handle /\ x \in Bo /\ LeaseOf(h) = Held(d)
    BY <1>0, <1>1, LeaseInCall
  <1>3. /\ k \in CallState /\ call \in [Thread -> CallState]
        /\ d \in BoState /\ bos \in [Bo -> BoState]
    BY <1>2 DEF LeaseInv, LockInv, IInv, TypeOK, LibTypeOK
  <1>4. /\ UNCHANGED <<handle, android_buffer_table>>
        /\ \A bo \in Bo : bo # x => bos'[bo] = bos[bo]
    BY <1>3 DEF FreeDestroy, LockCommit, UnlockCommit, gbm_bo_destroy
  <1>5. /\ \A g \in Handle : g # h => LeaseOf(g)' = LeaseOf(g)
        /\ LeaseOf(h)' = IF bos'[x].buf = NoBuf THEN Freed ELSE Held(bos'[x])
    <2>1. Idle.step \notin ImportSteps
      BY DEF Idle, ImportSteps
    <2>2. \E c : c.step \notin ImportSteps /\ \A u \in Thread : call'[u] = IF u = t THEN c ELSE call[u]
      <3>1. CASE Return(t)
        BY <1>3, <2>1, <3>1 DEF Return
      <3>2. CASE Goto(t, "free_delete")
        BY <1>3, <3>2 DEF Goto, CallState, ImportSteps
      <3> QED
        BY <3>1, <3>2 DEF FreeDestroy, LockCommit, UnlockCommit
    <2> HIDE DEF x
    <2> QED
      BY <1>0, <1>1, <1>2, <1>4, <2>2, OneLease DEF x
  <1>6. /\ LeaseMap' = [LeaseMap EXCEPT ![h] = LeaseOf(h)']
        /\ LeaseMap[h] = Held(d) /\ LeaseMap'[h] = LeaseOf(h)'
    BY <1>2, <1>5, LeaseChanges DEF LeaseMap
  <1>7. /\ LeaseMap[h].phase = "held" /\ LeaseMap[h].locks = d.lock_count /\ LeaseMap[h].used = d.locked_for
        /\ LeaseMap[h] = [phase |-> "held", locks |-> d.lock_count, used |-> d.locked_for]
    BY <1>6 DEF Held
  <1>8. d.lock_count \in Int /\ d.locked_for \in SUBSET UsageBit
    BY <1>3 DEF BoState
  <1>9. k.step \in Booking => Outstanding(k, d)
    BY DEF LeaseInv, LockInv, BooksKept
  <1>10. d.buf # NoBuf
    BY <1>1, LeaseInCall DEF Live
  <1> HIDE DEF x, d, k
  <1>11. CASE FreeDestroy(t)
    <2>1. bos'[x].buf = NoBuf
      BY <1>2, <1>3, <1>11 DEF FreeDestroy, gbm_bo_destroy, DeadBo, NewBo, x
    <2>2. LeaseOf(h)' = [Leases!Unlocked EXCEPT !.phase = "freed"]
      BY <1>5, <2>1 DEF Freed, Leases!Unlocked
    <2>3. Leases!Free(h)
      BY <1>6, <1>7, <2>2 DEF Leases!Free, LeaseMap
    <2> QED
      BY <1>2, <2>3 DEF Leases!Next
  <1>12. CASE LockCommit(t)
    <2>1. k.step = "lock_commit" /\ bos'[x] = Locked(d, k.usage)
      BY <1>2, <1>3, <1>12 DEF LockCommit, x, d, k
    <2>2. bos'[x].buf = d.buf /\ k.usage \in SUBSET UsageBit
      BY <1>3, <2>1, LockKeepsBuf DEF CallState
    <2>3. bos'[x].lock_count = d.lock_count + 1 /\ bos'[x].locked_for = d.locked_for \cup k.usage
      BY <1>3, <2>1 DEF Locked, BoState
    <2>4. LeaseOf(h)' = [phase |-> "held", locks |-> d.lock_count + 1, used |-> d.locked_for \cup k.usage]
      BY <1>5, <1>10, <2>2, <2>3 DEF Held
    <2>5. /\ d.lock_count >= 0
          /\ d.lock_count = 0 => d.locked_for = {}
          /\ d.lock_count = 0 \/ (k.usage = d.locked_for /\ d.locked_for \cap SwMask = {})
      BY <1>8, <1>9, <2>1 DEF Outstanding, Counted, Booking, LockSteps, Balanced
    <2>6. CASE d.lock_count = 0
      <3>1. d.lock_count + 1 = 1 /\ d.locked_for \cup k.usage \in SUBSET UsageBit
        BY <1>8, <2>2, <2>6
      <3>2. Leases!LockFirst(h)
        <4>1. LeaseOf(h)' = [phase |-> "held", locks |-> 1, used |-> d.locked_for \cup k.usage]
          BY <2>4, <3>1
        <4>2. LeaseMap'[h].used = d.locked_for \cup k.usage
          BY <1>6, <4>1
        <4>3. LeaseMap'[h].used \subseteq UsageBit
          BY <3>1, <4>2
        <4>4. LeaseMap' = [LeaseMap EXCEPT ![h] = [phase |-> "held", locks |-> 1, used |-> LeaseMap'[h].used]]
          <5>1. LeaseMap' = [LeaseMap EXCEPT ![h] = [phase |-> "held", locks |-> 1, used |-> d.locked_for \cup k.usage]]
            BY <1>6, <4>1
          <5> QED
            BY <4>2, <5>1, Zenon
        <4>5. LeaseMap[h].phase = "held" /\ LeaseMap[h].locks = 0
          BY <1>7, <2>6
        <4> QED
          BY <4>3, <4>4, <4>5, Zenon DEF Leases!LockFirst, LeaseMap
      <3> QED
        BY <1>2, <3>2 DEF Leases!Next
    <2>7. CASE d.lock_count # 0
      <3>1. d.locked_for \cup k.usage = d.locked_for /\ d.lock_count > 0 /\ d.locked_for \cap SwMask = {}
        BY <1>8, <2>5, <2>7
      <3>2. LeaseOf(h)' = [LeaseMap[h] EXCEPT !.locks = LeaseMap[h].locks + 1]
        BY <1>7, <2>4, <3>1
      <3>3. LeaseMap' = [LeaseMap EXCEPT ![h].locks = @ + 1]
        BY <1>2, <1>6, <3>2 DEF LeaseMap
      <3>4. Leases!LockAgain(h)
        BY <1>7, <3>1, <3>3 DEF Leases!LockAgain, LeaseMap
      <3> QED
        BY <1>2, <3>4 DEF Leases!Next
    <2> QED
      BY <2>6, <2>7
  <1>13. CASE UnlockCommit(t)
    <2>1. k.step = "unlock_commit" /\ bos'[x] = Unlocked(d)
      BY <1>2, <1>3, <1>13 DEF UnlockCommit, x, d, k
    <2>2. bos'[x].buf = d.buf
      BY <1>3, <2>1, LockKeepsBuf
    <2>3. bos'[x].lock_count = d.lock_count - 1
          /\ bos'[x].locked_for = IF d.lock_count = 1 THEN {} ELSE d.locked_for
      BY <1>3, <2>1 DEF Unlocked, BoState
    <2>4. d.lock_count > 0
      BY <1>9, <2>1 DEF Outstanding, Booking, UnlockSteps
    <2>5. LeaseOf(h)' = [phase |-> "held", locks |-> d.lock_count - 1,
                         used |-> IF d.lock_count = 1 THEN {} ELSE d.locked_for]
      BY <1>5, <1>10, <2>2, <2>3 DEF Held
    <2>6. LeaseOf(h)' = IF LeaseMap[h].locks = 1 THEN Leases!Unlocked
                        ELSE [LeaseMap[h] EXCEPT !.locks = LeaseMap[h].locks - 1]
      <3>1. [LeaseMap[h] EXCEPT !.locks = d.lock_count - 1]
              = [phase |-> "held", locks |-> d.lock_count - 1, used |-> d.locked_for]
        BY <1>7
      <3>2. CASE d.lock_count = 1
        <4>1. d.lock_count - 1 = 0
          BY <3>2
        <4> QED
          BY <1>7, <2>5, <3>2, <4>1 DEF Leases!Unlocked
      <3>3. CASE d.lock_count # 1
        BY <1>7, <2>5, <3>1, <3>3
      <3> QED
        BY <3>2, <3>3
    <2>7. Leases!Unlock(h)
      BY <1>6, <1>7, <2>4, <2>6 DEF Leases!Unlock, LeaseMap
    <2> QED
      BY <1>2, <2>7 DEF Leases!Next
  <1> QED
    BY <1>11, <1>12, <1>13

LEMMA FreshKept == ASSUME LeaseInv, [Next]_vars PROVE ImportsFresh'
PROOF
  <1>1. /\ call \in [Thread -> CallState] /\ bos \in [Bo -> BoState]
    BY DEF LeaseInv, LockInv, IInv, TypeOK, LibTypeOK
  <1>2. \A u \in Thread : call[u].step = "import_add" => call[u].bo \in Bo /\ Live(call[u].bo)
    BY DEF LeaseInv, LockInv, IInv, CallsFormed, ImportsPrivate
  (* The only BOs a step changes are a dead one and those in the table.     *)
  <1>3. ASSUME \A bo \in Bo : \/ bos'[bo] = bos[bo]
                              \/ ~Live(bo) \/ \E e \in android_buffer_table : e.bo = bo,
               \A u \in Thread : call'[u].step = "import_add" => call'[u] = call[u]
        PROVE  ImportsFresh'
    <2> SUFFICES ASSUME NEW u \in Thread, call'[u].step = "import_add"
                 PROVE  bos'[call'[u].bo].lock_count = 0 /\ bos'[call'[u].bo].locked_for = {}
      BY DEF ImportsFresh
    <2>1. call'[u] = call[u] /\ call[u].step = "import_add"
      BY <1>3
    <2>2. \A e \in android_buffer_table : e.bo # call[u].bo
      BY <2>1 DEF LeaseInv, LockInv, IInv, ImportsPrivate
    <2>3. bos'[call[u].bo] = bos[call[u].bo]
      BY <1>2, <1>3, <2>1, <2>2
    <2> QED
      BY <2>1, <2>3 DEF LeaseInv, ImportsFresh
  <1>4. CASE UNCHANGED vars
    BY <1>4 DEF vars, LeaseInv, ImportsFresh
  <1>5. ASSUME NEW t \in Thread, NEW c, \A u \in Thread : call'[u] = IF u = t THEN c ELSE call[u],
               c.step # "import_add"
        PROVE  \A u \in Thread : call'[u].step = "import_add" => call'[u] = call[u]
    BY <1>5
  <1>6. Idle.step # "import_add"
    BY DEF Idle
  <1>7. ASSUME NEW t \in Thread, Return(t)
        PROVE  \A u \in Thread : call'[u].step = "import_add" => call'[u] = call[u]
    BY <1>1, <1>5, <1>6, <1>7 DEF Return
  <1>8. ASSUME NEW t \in Thread, NEW step, Goto(t, step), step # "import_add"
        PROVE  \A u \in Thread : call'[u].step = "import_add" => call'[u] = call[u]
    <2>1. [call[t] EXCEPT !.step = step].step # "import_add"
      BY <1>1, <1>8 DEF CallState
    <2> QED
      BY <1>1, <1>5, <1>8, <2>1 DEF Goto
  <1>9. ASSUME NEW t \in Thread, call[t].step \in Booking \cup {"free_destroy"}
        PROVE  \E e \in android_buffer_table : e.bo = call[t].bo
    BY <1>9, CallFacts DEF LeaseInv, LockInv
  <1>10. ASSUME NEW t \in Thread, ImportBo(t) PROVE ImportsFresh'
    <2>1. PICK x \in FreshBos :
            /\ gbm_bo_create(x, fds[handle[call[t].h].fd])
            /\ call' = [call EXCEPT ![t].step = "import_add", ![t].bo = x]
      BY <1>10 DEF ImportBo
    <2>2. x \in Bo /\ ~Live(x)
      BY FreshBosUnused
    <2>3. bos'[x].lock_count = 0 /\ bos'[x].locked_for = {}
      BY <1>1, <2>1, <2>2 DEF gbm_bo_create, NewBo
    <2>4. \A bo \in Bo : bo # x => bos'[bo] = bos[bo]
      BY <1>1, <2>1 DEF gbm_bo_create
    <2>5. call'[t].bo = x
      BY <1>1, <2>1 DEF CallState
    <2>6. \A u \in Thread : u # t => call'[u] = call[u]
      BY <1>1, <2>1
    <2>7. ASSUME NEW u \in Thread, call'[u].step = "import_add"
          PROVE  bos'[call'[u].bo].lock_count = 0 /\ bos'[call'[u].bo].locked_for = {}
      <3>1. CASE u = t
        BY <2>3, <2>5, <3>1
      <3>2. CASE u # t
        <4>1. call'[u] = call[u] /\ call[u].step = "import_add"
          BY <2>6, <2>7, <3>2
        <4>2. bos'[call[u].bo] = bos[call[u].bo]
          BY <1>2, <2>2, <2>4, <4>1
        <4> QED
          BY <4>1, <4>2 DEF LeaseInv, ImportsFresh
      <3> QED
        BY <3>1, <3>2
    <2> QED
      BY <2>7 DEF ImportsFresh
  <1>11. ASSUME NEW t \in Thread, Continues(t), ~ImportBo(t) PROVE ImportsFresh'
    <2>1. CASE ImportFail(t) \/ ImportAdd(t) \/ FreeDelete(t) \/ LockMapFail(t) \/ QueryFd(t)
      BY <1>3, <1>7, <2>1 DEF ImportFail, ImportAdd, FreeDelete, LockMapFail, QueryFd
    <2>2. CASE FreeDestroy(t) \/ LockCommit(t) \/ UnlockCommit(t) \/ LockMap(t) \/ UnlockUnmap(t)
      <3>1. \E e \in android_buffer_table : e.bo = call[t].bo
        BY <1>9, <2>2 DEF FreeDestroy, LockCommit, UnlockCommit, LockMap, UnlockUnmap,
             Booking, LockSteps, UnlockSteps
      <3>2. \A bo \in Bo : bo # call[t].bo => bos'[bo] = bos[bo]
        BY <1>1, <2>2 DEF FreeDestroy, LockCommit, UnlockCommit, LockMap, UnlockUnmap, gbm_bo_destroy
      <3>3. Return(t) \/ Goto(t, "free_delete") \/ Goto(t, "lock_commit") \/ Goto(t, "unlock_commit")
        BY <2>2 DEF FreeDestroy, LockCommit, UnlockCommit, LockMap, UnlockUnmap
      <3>4. \A u \in Thread : call'[u].step = "import_add" => call'[u] = call[u]
        BY <1>7, <1>8, <3>3
      <3> QED
        BY <1>3, <3>1, <3>2, <3>4
    <2>3. CASE LockCheck(t)
      <3>1. CASE Return(t)
        BY <1>3, <1>7, <2>3, <3>1 DEF LockCheck
      <3>2. CASE ~Return(t)
        <4> DEFINE s == IF (call[t].usage \cup bos[call[t].bo].locked_for) \cap SwMask # {} THEN "lock_map" ELSE "lock_commit"
                   c == [call[t] EXCEPT !.usage = call[t].usage \cup bos[call[t].bo].locked_for, !.step = s]
        <4>1. \A u \in Thread : call'[u] = IF u = t THEN c ELSE call[u]
          BY <1>1, <2>3, <3>2 DEF LockCheck
        <4>2. c.step # "import_add"
          BY <1>1 DEF CallState
        <4> HIDE DEF c
        <4>3. \A u \in Thread : call'[u].step = "import_add" => call'[u] = call[u]
          BY <1>5, <4>1, <4>2
        <4>4. bos' = bos
          BY <2>3 DEF LockCheck
        <4> QED
          BY <1>3, <4>3, <4>4
      <3> QED
        BY <3>1, <3>2
    <2> QED
      BY <1>11, <2>1, <2>2, <2>3 DEF Continues
  <1>12. ASSUME NEW t \in Thread, NEW h \in Handle, Enters(t, h) PROVE ImportsFresh'
    <2>1. bos' = bos
      BY <1>12 DEF Enters, ImportClone, FreeFind, LockFind, UnlockFind, QueryFind
    <2>2. ASSUME NEW step, NEW bo, NEW usage, Enter(t, step, h, bo, usage), step # "import_add"
          PROVE  ImportsFresh'
      <3> DEFINE c == [step |-> step, h |-> h, bo |-> bo, usage |-> usage]
      <3>1. (\A u \in Thread : call'[u] = IF u = t THEN c ELSE call[u]) /\ c.step # "import_add"
        BY <1>1, <2>2 DEF Enter
      <3> HIDE DEF c
      <3>2. \A u \in Thread : call'[u].step = "import_add" => call'[u] = call[u]
        BY <1>5, <3>1
      <3> QED
        BY <1>3, <2>1, <3>2
    <2>3. ASSUME NEW b \in Buf, ImportClone(t, h, b) PROVE ImportsFresh'
      <3> DEFINE c == [Idle EXCEPT !.step = "import_bo", !.h = h]
      <3>1. (\A u \in Thread : call'[u] = IF u = t THEN c ELSE call[u]) /\ c.step # "import_add"
        BY <1>1, <2>3 DEF ImportClone, Idle
      <3> HIDE DEF c
      <3>2. \A u \in Thread : call'[u].step = "import_add" => call'[u] = call[u]
        BY <1>5, <3>1
      <3> QED
        BY <1>3, <2>1, <3>2
    <2> QED
      BY <1>12, <2>2, <2>3 DEF Enters, FreeFind, LockFind, UnlockFind, QueryFind
  <1> QED
    BY <1>4, <1>10, <1>11, <1>12 DEF Next

LEMMA LeaseInit == Init => LeaseInv /\ Leases!Init
PROOF
  <1> SUFFICES ASSUME Init PROVE LeaseInv /\ Leases!Init
    OBVIOUS
  <1>1. ImportsFresh
    BY DEF Init, Idle, ImportsFresh
  <1>2. ASSUME NEW h \in Handle PROVE LeaseOf(h) = None
    <2>1. handle[h].fd = NoFd
      BY DEF Init, NullHandle
    <2> QED
      BY <2>1, LeaseRead DEF Given
  <1>3. None = [Leases!Unlocked EXCEPT !.phase = "none"]
    BY DEF None, Leases!Unlocked
  <1>4. Leases!Init
    BY <1>2, <1>3 DEF Leases!Init
  <1> QED
    BY <1>1, <1>4, LockInvInit DEF LeaseInv

LEMMA LeaseNext ==
  ASSUME ~SharedCalls, LeaseInv, [Next]_vars
  PROVE  LeaseInv' /\ [Leases!Next]_([h \in Handle |-> LeaseOf(h)])
PROOF
  <1>1. LeaseInv' /\ IInv'
    BY FreshKept, LockInvNext DEF LeaseInv, LockInv
  <1>2. (\A g \in Handle : LeaseOf(g)' = LeaseOf(g)) => [Leases!Next]_([h \in Handle |-> LeaseOf(h)])
    OBVIOUS
  <1>3. ASSUME UNCHANGED vars, NEW g \in Handle PROVE LeaseOf(g)' = LeaseOf(g)
    <2>1. KeysUnique /\ KeysUnique'
      BY <1>1 DEF LeaseInv, LockInv, IInv
    <2>2. Given(g)' <=> Given(g)
      BY <1>3 DEF vars, Given, InCall
    <2>3. bos' = bos /\ android_buffer_table' = android_buffer_table /\ handle' = handle
      BY <1>3 DEF vars
    <2> QED
      BY <2>1, <2>2, <2>3, LeaseKept DEF Live
  <1>4. ASSUME NEW t \in Thread, Continues(t)
        PROVE  [Leases!Next]_([h \in Handle |-> LeaseOf(h)])
    <2>1. CASE \/ ImportBo(t) \/ FreeDelete(t) \/ LockCheck(t) \/ LockMap(t) \/ LockMapFail(t)
               \/ UnlockUnmap(t) \/ QueryFd(t)
      BY <1>1, <1>2, <2>1, QuietLease
    <2>2. CASE ImportFail(t)
      BY <1>1, <1>2, <2>2, NoLease
    <2>3. CASE ImportAdd(t)
      BY <1>1, <2>3, ImportLease
    <2>4. CASE FreeDestroy(t) \/ LockCommit(t) \/ UnlockCommit(t)
      BY <1>1, <2>4, CommitLease
    <2> QED
      BY <1>4, <2>1, <2>2, <2>3, <2>4 DEF Continues
  <1>5. ASSUME NEW t \in Thread, NEW h \in Handle, Enters(t, h)
        PROVE  \A g \in Handle : LeaseOf(g)' = LeaseOf(g)
    <2>1. CASE \E b \in Buf : ImportClone(t, h, b)
      BY <1>1, <2>1, NoLease
    <2>2. CASE \/ FreeFind(t, h) \/ UnlockFind(t, h) \/ QueryFind(t, h)
               \/ \E usage \in LockUsages : LockFind(t, h, usage)
      BY <1>1, <2>2, QuietLease
    <2> QED
      BY <1>5, <2>1, <2>2 DEF Enters
  <1> QED
    BY <1>1, <1>2, <1>3, <1>4, <1>5 DEF Next

(* The calls of a client that does not overlap calls on one handle amount   *)
(* to the leases of BufferLease: every import, free, lock and unlock that   *)
(* succeeds takes effect at one step and on its own handle only.            *)
THEOREM CallsAreLeases == ASSUME ~SharedCalls PROVE Spec => ImplementsLeases
PROOF
  <1>1. Init => LeaseInv /\ Leases!Init
    BY LeaseInit
  <1>2. LeaseInv /\ [Next]_vars => LeaseInv' /\ [Leases!Next]_([h \in Handle |-> LeaseOf(h)])
    BY LeaseNext
  <1> QED
    BY <1>1, <1>2, PTL DEF Spec, ImplementsLeases, Leases!Spec
=============================================================================
