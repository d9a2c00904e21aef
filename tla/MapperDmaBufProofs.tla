-------------------------- MODULE MapperDmaBufProofs --------------------------
(***************************************************************************)
(* Theorems about MapperDmaBuf, for any number of threads, handles and     *)
(* blocks. The first part holds however calls overlap and whatever freed   *)
(* memory holds; the second is about calls one at a time, with freed       *)
(* memory left as it was.                                                  *)
(***************************************************************************)
EXTENDS MapperDmaBuf, TLAPS

-----------------------------------------------------------------------------
(* The inductive invariant for any overlap: a handle is in one call only,   *)
(* so that a lock granted is within the bound that was there when it        *)
(* entered, and the accesses open in a handle are its locks.                *)
OwnCalls == \A t, u \in Thread :
  call[t].h # Null /\ call[t].h = call[u].h => t = u

CallFormed(t) ==
  /\ call[t].step # "idle" => call[t].h \in Handle /\ call[t].bi \in Block
  /\ call[t].h \in Handle => client[call[t].h] # "new"
  /\ call[t].step \in {"lock_map", "lock_sync"} =>
       call[t].usage \in LockUsages[call[t].h] /\ locks[call[t].h] < MaxLocks
CallsFormed == \A t \in Thread : CallFormed(t)

IInv == TypeOK /\ OwnCalls /\ CallsFormed

(* Clients that lock with the CPU usage of the handle.                      *)
LocksMatch == \A h \in Handle : \A usage \in LockUsages[h] :
  SyncType(usage) = SyncType(HandleUsage[h])

OpenAccess(h) == [s \in SyncTypes |-> IF s = SyncType(HandleUsage[h]) THEN locks[h] ELSE 0]
SyncIsLocks == \A h \in Handle : sync[h] = OpenAccess(h)

LEMMA IdleFormed == Idle \in CallState /\ Idle.step = "idle" /\ Idle.h = Null
PROOF
  BY DEF Idle, CallState, Steps

LEMMA SyncTypeTyped == \A usage : SyncType(usage) \in SyncTypes
PROOF
  BY DEF SyncType, SyncTypes

(* Thread t has a new call c, on a handle that no other call is on.         *)
LEMMA CallKeeps ==
  ASSUME IInv, NEW t \in Thread, NEW c \in CallState, call' = [call EXCEPT ![t] = c],
         c.h # Null => \A u \in Thread : u # t => call[u].h # c.h,
         c.step # "idle" => c.h \in Handle /\ c.bi \in Block,
         c.h \in Handle => client'[c.h] # "new",
         c.step \in {"lock_map", "lock_sync"} => c.usage \in LockUsages[c.h] /\ locks'[c.h] < MaxLocks,
         \A u \in Thread : u # t /\ call[u].h \in Handle => locks'[call[u].h] = locks[call[u].h],
         \A h \in Handle : client'[h] = "new" => client[h] = "new"
  PROVE  call' \in [Thread -> CallState] /\ OwnCalls' /\ CallsFormed'
PROOF
  <1>1. \A u \in Thread : call'[u] = IF u = t THEN c ELSE call[u]
    BY DEF IInv, TypeOK
  <1>2. call' \in [Thread -> CallState]
    BY DEF IInv, TypeOK
  <1>3. OwnCalls'
    BY <1>1 DEF IInv, OwnCalls
  <1>4. ASSUME NEW u \in Thread PROVE CallFormed(u)'
    <2>1. CallFormed(u)
      BY DEF IInv, CallsFormed
    <2> QED
      BY <1>1, <2>1 DEF CallFormed
  <1> QED
    BY <1>2, <1>3, <1>4 DEF CallsFormed

LEMMA ReturnKeeps ==
  ASSUME IInv, NEW t \in Thread, Return(t),
         \A u \in Thread : u # t /\ call[u].h \in Handle => locks'[call[u].h] = locks[call[u].h],
         \A h \in Handle : client'[h] = "new" => client[h] = "new"
  PROVE  call' \in [Thread -> CallState] /\ OwnCalls' /\ CallsFormed'
PROOF
  BY IdleFormed, CallKeeps, DmaBufAssumption DEF Return

LEMMA StepKeeps ==
  ASSUME IInv, NEW t \in Thread, NEW step \in Steps, call[t].step # "idle",
         call' = [call EXCEPT ![t].step = step], locks' = locks, client' = client,
         step \in {"lock_map", "lock_sync"} => call[t].step \in {"lock_map", "lock_sync"}
  PROVE  call' \in [Thread -> CallState] /\ OwnCalls' /\ CallsFormed'
PROOF
  <1> DEFINE c == [call[t] EXCEPT !.step = step]
  <1>1. call[t] \in CallState /\ CallFormed(t)
    BY DEF IInv, TypeOK, CallsFormed
  <1>2. c \in CallState /\ c.step = step /\ c.h = call[t].h /\ c.bi = call[t].bi /\ c.usage = call[t].usage
    BY <1>1 DEF CallState
  <1>3. call' = [call EXCEPT ![t] = c]
    OBVIOUS
  <1>4. c.h # Null => \A u \in Thread : u # t => call[u].h # c.h
    BY <1>2 DEF IInv, OwnCalls
  <1>5. /\ c.h \in Handle /\ c.bi \in Block
        /\ client'[c.h] # "new"
        /\ c.step \in {"lock_map", "lock_sync"} => c.usage \in LockUsages[c.h] /\ locks'[c.h] < MaxLocks
    <2> HIDE DEF c
    <2> QED
      BY <1>1, <1>2 DEF CallFormed
  <1>6. /\ \A u \in Thread : u # t /\ call[u].h \in Handle => locks'[call[u].h] = locks[call[u].h]
        /\ \A h \in Handle : client'[h] = "new" => client[h] = "new"
    OBVIOUS
  <1> HIDE DEF c
  <1> QED
    BY <1>2, <1>3, <1>4, <1>5, <1>6, CallKeeps

(* A call that Enter lets in.                                               *)
LEMMA EnterKeeps ==
  ASSUME IInv, NEW t \in Thread, NEW h \in Handle, NEW step \in Steps, NEW usage \in SUBSET UsageBit,
         Enter(t, step, h, usage), locks' = locks, client' = client,
         step \in {"lock_map", "lock_sync"} => usage \in LockUsages[h] /\ locks[h] < MaxLocks
  PROVE  call' \in [Thread -> CallState] /\ OwnCalls' /\ CallsFormed'
PROOF
  <1> DEFINE c == [step |-> step, h |-> h, bi |-> importedBufferTable[h], usage |-> usage]
  <1>1. importedBufferTable[h] \in Block
    BY DEF Enter, IInv, TypeOK
  <1>2. c \in CallState /\ c.step = step /\ c.h = h /\ c.bi \in Block /\ c.usage = usage
    BY <1>1 DEF CallState
  <1>3. call' = [call EXCEPT ![t] = c] /\ client[h] # "new" /\ \A u \in Thread : call[u].h # h
    BY DEF Enter, MayCall, InCall
  <1> HIDE DEF c
  <1> QED
    BY <1>2, <1>3, CallKeeps

LEMMA OverlapsTyped == ASSUME Overlaps, TypeOK PROVE overlapped' \in BOOLEAN
PROOF
  BY DEF Overlaps, TypeOK

LEMMA InvInit == Init => IInv /\ SyncIsLocks
PROOF
  <1> SUFFICES ASSUME Init PROVE IInv /\ SyncIsLocks
    OBVIOUS
  <1>1. \A t \in Thread : call[t] = Idle
    BY DEF Init
  <1>2. TypeOK
    <2>1. Unused \in Info /\ 0 \in 0..MaxLocks
      BY DmaBufAssumption DEF Info, Unused
    <2>2. [s \in SyncTypes |-> 0] \in [SyncTypes -> Int]
      OBVIOUS
    <2>3. heap \in [Block -> Info] /\ call \in [Thread -> CallState]
      BY <2>1, IdleFormed DEF Init
    <2>4. locks \in [Handle -> 0..MaxLocks] /\ mappings \in [Handle -> Nat]
      BY <2>1 DEF Init
    <2>5. sync \in [Handle -> [SyncTypes -> Int]]
      BY <2>2 DEF Init
    <2> QED
      BY <2>3, <2>4, <2>5 DEF Init, TypeOK
  <1>3. OwnCalls /\ CallsFormed
    BY <1>1, IdleFormed, DmaBufAssumption DEF OwnCalls, CallsFormed, CallFormed
  <1>4. SyncIsLocks
    BY DEF Init, SyncIsLocks, OpenAccess
  <1> QED
    BY <1>2, <1>3, <1>4 DEF IInv

LEMMA InvNext == IInv /\ [Next]_vars => IInv'
PROOF
  <1> SUFFICES ASSUME IInv, [Next]_vars PROVE IInv'
    OBVIOUS
  <1>0. CASE UNCHANGED vars
    BY <1>0 DEF vars, IInv, TypeOK, OwnCalls, CallsFormed, CallFormed
  <1>1. ASSUME NEW t \in Thread, NEW h \in Handle, ImportCreate(t, h) PROVE IInv'
    <2>1. PICK b \in Block :
            /\ heap' = [heap EXCEPT ![b] = buffer_info_create(h)]
            /\ call' = [call EXCEPT ![t] = [Idle EXCEPT !.step = "import_insert", !.h = h, !.bi = b]]
      BY <1>1 DEF ImportCreate
    <2> DEFINE c == [Idle EXCEPT !.step = "import_insert", !.h = h, !.bi = b]
    <2>2. c \in CallState /\ c.step = "import_insert" /\ c.h = h /\ c.bi = b
      BY DEF Idle, CallState, Steps
    <2>3. \A u \in Thread : call[u].h # h
      BY <1>1 DEF ImportCreate, IInv, CallsFormed, CallFormed
    <2>4. call' \in [Thread -> CallState] /\ OwnCalls' /\ CallsFormed'
      <3>1. /\ client' = [client EXCEPT ![h] = "importing"] /\ UNCHANGED locks
        BY <1>1 DEF ImportCreate
      <3>2. client'[h] # "new" /\ \A g \in Handle : client'[g] = "new" => client[g] = "new"
        BY <3>1 DEF IInv, TypeOK
      <3> HIDE DEF c
      <3> QED
        BY <2>1, <2>2, <2>3, <3>1, <3>2, CallKeeps DEF c
    <2>5. TypeOK'
      BY <1>1, <2>1, <2>4, OverlapsTyped DEF ImportCreate, IInv, TypeOK, Info, buffer_info_create
    <2> QED
      BY <2>4, <2>5 DEF IInv
  <1>2. ASSUME NEW t \in Thread, ImportInsert(t) PROVE IInv'
    <2>1. call[t].h \in Handle /\ call[t].bi \in Block
      BY <1>2 DEF ImportInsert, IInv, CallsFormed, CallFormed
    <2>2. \A h \in Handle : client'[h] = "new" => client[h] = "new"
      BY <1>2, <2>1 DEF ImportInsert, IInv, TypeOK
    <2>3. call' \in [Thread -> CallState] /\ OwnCalls' /\ CallsFormed'
      BY <1>2, <2>2, ReturnKeeps DEF ImportInsert
    <2>4. TypeOK'
      BY <1>2, <2>1, <2>3 DEF ImportInsert, IInv, TypeOK
    <2> QED
      BY <2>3, <2>4 DEF IInv
  <1>3. ASSUME NEW t \in Thread, NEW h \in Handle, FreeFind(t, h) PROVE IInv'
    <2>1. call' \in [Thread -> CallState] /\ OwnCalls' /\ CallsFormed'
      BY <1>3, EnterKeeps DEF FreeFind, Steps
    <2>2. TypeOK'
      BY <1>3, <2>1, OverlapsTyped DEF FreeFind, IInv, TypeOK
    <2> QED
      BY <2>1, <2>2 DEF IInv
  <1>4. ASSUME NEW t \in Thread, FreeInfo(t) PROVE IInv'
    <2>1. call' \in [Thread -> CallState] /\ OwnCalls' /\ CallsFormed'
      BY <1>4, StepKeeps DEF FreeInfo, Steps
    <2>2. heap' \in [Block -> Info]
      BY <1>4 DEF FreeInfo, IInv, TypeOK, Info, Unused
    <2>3. TypeOK'
      BY <1>4, <2>1, <2>2 DEF FreeInfo, IInv, TypeOK
    <2> QED
      BY <2>1, <2>3 DEF IInv
  <1>5. ASSUME NEW t \in Thread, FreeErase(t) PROVE IInv'
    <2>1. call[t].h \in Handle
      BY <1>5 DEF FreeErase, IInv, CallsFormed, CallFormed
    <2>2. \A h \in Handle : client'[h] = "new" => client[h] = "new"
      BY <1>5, <2>1 DEF FreeErase, IInv, TypeOK
    <2>3. call' \in [Thread -> CallState] /\ OwnCalls' /\ CallsFormed'
      BY <1>5, <2>2, ReturnKeeps DEF FreeErase
    <2>4. TypeOK'
      BY <1>5, <2>3 DEF FreeErase, IInv, TypeOK
    <2> QED
      BY <2>3, <2>4 DEF IInv
  <1>6. ASSUME NEW t \in Thread, NEW h \in Handle, NEW usage \in LockUsages[h],
               locks[h] < MaxLocks, LockFind(t, h, usage)
        PROVE  IInv'
    <2>1. usage \in SUBSET UsageBit
      BY DmaBufAssumption
    <2>2. call' \in [Thread -> CallState] /\ OwnCalls' /\ CallsFormed'
      BY <1>6, <2>1, EnterKeeps DEF LockFind, Steps
    <2>3. TypeOK'
      BY <1>6, <2>2, OverlapsTyped DEF LockFind, IInv, TypeOK
    <2> QED
      BY <2>2, <2>3 DEF IInv
  <1>7. ASSUME NEW t \in Thread, LockMap(t) PROVE IInv'
    <2>1. call' \in [Thread -> CallState] /\ OwnCalls' /\ CallsFormed'
      BY <1>7, StepKeeps DEF LockMap, Steps
    <2>2. call[t].bi \in Block
      BY <1>7 DEF LockMap, IInv, CallsFormed, CallFormed
    <2>3. heap' \in [Block -> Info]
      BY <1>7, <2>2 DEF LockMap, IInv, TypeOK, Info
    <2>4. heap[call[t].bi].prime_fd \in Handle \cup {Null}
      BY <2>2 DEF IInv, TypeOK, Info
    <2>5. mappings' \in [Handle -> Nat]
      BY <1>7, <2>4 DEF LockMap, IInv, TypeOK
    <2>6. TypeOK'
      BY <1>7, <2>1, <2>3, <2>5 DEF LockMap, IInv, TypeOK
    <2> QED
      BY <2>1, <2>6 DEF IInv
  <1>8. ASSUME NEW t \in Thread, LockMapFail(t) \/ LockRefuse(t) PROVE IInv'
    <2>1. Return(t) /\ UNCHANGED <<importedBufferTable, heap, client, locks, mappings, sync, overlapped>>
      BY <1>8 DEF LockMapFail, LockRefuse
    <2>2. call' \in [Thread -> CallState] /\ OwnCalls' /\ CallsFormed'
      BY <2>1, ReturnKeeps
    <2>3. TypeOK'
      BY <2>1, <2>2 DEF IInv, TypeOK
    <2> QED
      BY <2>2, <2>3 DEF IInv
  <1>9. ASSUME NEW t \in Thread, LockSync(t) PROVE IInv'
    <2>1. call[t].h \in Handle /\ locks[call[t].h] < MaxLocks
      BY <1>9 DEF LockSync, IInv, CallsFormed, CallFormed
    <2>2. locks' = [locks EXCEPT ![call[t].h] = @ + 1] /\ client' = client
      BY <1>9 DEF LockSync
    <2>3. \A u \in Thread : u # t /\ call[u].h \in Handle => locks'[call[u].h] = locks[call[u].h]
      BY <2>1, <2>2, DmaBufAssumption DEF IInv, TypeOK, OwnCalls
    <2>4. call' \in [Thread -> CallState] /\ OwnCalls' /\ CallsFormed'
      BY <1>9, <2>2, <2>3, ReturnKeeps DEF LockSync
    <2>5. locks' \in [Handle -> 0..MaxLocks]
      BY <2>1, <2>2, DmaBufAssumption DEF IInv, TypeOK
    <2>6. sync' \in [Handle -> [SyncTypes -> Int]]
      BY <1>9, <2>1, SyncTypeTyped DEF LockSync, IInv, TypeOK
    <2>7. TypeOK'
      BY <1>9, <2>4, <2>5, <2>6 DEF LockSync, IInv, TypeOK
    <2> QED
      BY <2>4, <2>7 DEF IInv
  <1>10. ASSUME NEW t \in Thread, NEW h \in Handle, Unlock(t, h) PROVE IInv'
    <2>1. /\ locks[h] > 0 /\ locks' = [locks EXCEPT ![h] = @ - 1]
          /\ UNCHANGED <<importedBufferTable, heap, call, client, mappings>>
          /\ sync' = [sync EXCEPT ![h][SyncType(HandleUsage[h])] = @ - 1]
          /\ \A u \in Thread : call[u].h # h
      BY <1>10 DEF Unlock, MayCall, InCall
    <2>2. locks' \in [Handle -> 0..MaxLocks]
      BY <2>1, DmaBufAssumption DEF IInv, TypeOK
    <2>3. sync' \in [Handle -> [SyncTypes -> Int]]
      BY <2>1, SyncTypeTyped DEF IInv, TypeOK
    <2>4. \A u \in Thread : call[u].h \in Handle => locks'[call[u].h] = locks[call[u].h]
      BY <2>1 DEF IInv, TypeOK
    <2>5. ASSUME NEW u \in Thread PROVE CallFormed(u)'
      <3>1. CallFormed(u)
        BY DEF IInv, CallsFormed
      <3> QED
        BY <2>1, <2>4, <3>1 DEF CallFormed
    <2>6. TypeOK'
      BY <1>10, <2>1, <2>2, <2>3, OverlapsTyped DEF Unlock, IInv, TypeOK
    <2> QED
      BY <2>1, <2>5, <2>6 DEF IInv, OwnCalls, CallsFormed
  <1> QED
    BY <1>0, <1>1, <1>2, <1>3, <1>4, <1>5, <1>6, <1>7, <1>8, <1>9, <1>10 DEF Next

LEMMA Invariance == Spec => []IInv
PROOF
  BY InvInit, InvNext, PTL DEF Spec

(* Every state of the model is well typed; no interleaving gives a client   *)
(* more locks than the bound it enters lock with.                           *)
THEOREM DmaBufTypeCorrect == Spec => []TypeOK
PROOF
  <1>1. IInv => TypeOK
    BY DEF IInv
  <1> QED
    BY <1>1, Invariance, PTL

(* One more access, or one less, of the type of its usage when a handle has *)
(* one more lock, or one less.                                              *)
LEMMA OpenAccessStep ==
  ASSUME sync \in [Handle -> [SyncTypes -> Int]], locks \in [Handle -> 0..MaxLocks],
         NEW g \in Handle, NEW h \in Handle, sync[h] = OpenAccess(h),
         \/ /\ sync' = [sync EXCEPT ![g][SyncType(HandleUsage[g])] = @ + 1]
            /\ locks' = [locks EXCEPT ![g] = @ + 1]
         \/ /\ sync' = [sync EXCEPT ![g][SyncType(HandleUsage[g])] = @ - 1]
            /\ locks' = [locks EXCEPT ![g] = @ - 1]
  PROVE  sync'[h] = OpenAccess(h)'
PROOF
  <1> DEFINE y == SyncType(HandleUsage[g])
  <1>1. y \in SyncTypes
    BY SyncTypeTyped
  <1>2. OpenAccess(h)' = [x \in SyncTypes |-> IF x = SyncType(HandleUsage[h]) THEN locks'[h] ELSE 0]
    BY DEF OpenAccess
  <1>3. sync[h] = [x \in SyncTypes |-> IF x = SyncType(HandleUsage[h]) THEN locks[h] ELSE 0]
    BY DEF OpenAccess
  <1>4. CASE h # g
    BY <1>2, <1>3, <1>4
  <1>5. CASE h = g /\ sync' = [sync EXCEPT ![g][y] = @ + 1] /\ locks' = [locks EXCEPT ![g] = @ + 1]
    <2>1. sync'[h] = [sync[h] EXCEPT ![y] = @ + 1] /\ locks'[h] = locks[h] + 1
      BY <1>5
    <2> QED
      BY <1>1, <1>2, <1>3, <1>5, <2>1
  <1>6. CASE h = g /\ sync' = [sync EXCEPT ![g][y] = @ - 1] /\ locks' = [locks EXCEPT ![g] = @ - 1]
    <2>1. sync'[h] = [sync[h] EXCEPT ![y] = @ - 1] /\ locks'[h] = locks[h] - 1
      BY <1>6
    <2> QED
      BY <1>1, <1>2, <1>3, <1>6, <2>1
  <1> QED
    BY <1>4, <1>5, <1>6

LEMMA SyncNext == ASSUME LocksMatch, IInv, SyncIsLocks, [Next]_vars PROVE SyncIsLocks'
PROOF
  <1>1. CASE UNCHANGED <<sync, locks>>
    BY <1>1 DEF SyncIsLocks, OpenAccess
  <1>2. ASSUME NEW t \in Thread, LockSync(t) PROVE SyncIsLocks'
    <2> DEFINE g == call[t].h
    <2>1. g \in Handle /\ SyncType(call[t].usage) = SyncType(HandleUsage[g])
      BY <1>2 DEF LockSync, IInv, CallsFormed, CallFormed, LocksMatch
    <2>2. /\ sync' = [sync EXCEPT ![g][SyncType(HandleUsage[g])] = @ + 1]
          /\ locks' = [locks EXCEPT ![g] = @ + 1]
      BY <1>2, <2>1 DEF LockSync
    <2> HIDE DEF g
    <2>3. ASSUME NEW h \in Handle PROVE sync'[h] = OpenAccess(h)'
      BY <2>1, <2>2, OpenAccessStep DEF IInv, TypeOK, SyncIsLocks
    <2> QED
      BY <2>3 DEF SyncIsLocks
  <1>3. ASSUME NEW t \in Thread, NEW g \in Handle, Unlock(t, g) PROVE SyncIsLocks'
    <2>1. /\ sync' = [sync EXCEPT ![g][SyncType(HandleUsage[g])] = @ - 1]
          /\ locks' = [locks EXCEPT ![g] = @ - 1]
      BY <1>3 DEF Unlock
    <2>2. ASSUME NEW h \in Handle PROVE sync'[h] = OpenAccess(h)'
      BY <2>1, OpenAccessStep DEF IInv, TypeOK, SyncIsLocks
    <2> QED
      BY <2>2 DEF SyncIsLocks
  <1> QED
    BY <1>1, <1>2, <1>3
    DEF Next, vars, ImportCreate, ImportInsert, FreeFind, FreeInfo, FreeErase, LockFind, LockMap,
        LockMapFail, LockRefuse

(* For clients that lock with the CPU usage of the handle every CpuSyncEnd  *)
(* has the direction of its CpuSyncStart, and none is left out, whatever    *)
(* calls overlap and whatever entries the races on the map lose.            *)
THEOREM AccessesBalance == ASSUME LocksMatch PROVE Spec => []SyncBalanced
PROOF
  <1>1. IInv /\ SyncIsLocks => SyncBalanced
    BY DEF SyncIsLocks, OpenAccess, SyncBalanced
  <1>2. IInv /\ SyncIsLocks /\ [Next]_vars => SyncIsLocks'
    BY SyncNext
  <1> QED
    BY <1>1, <1>2, InvInit, Invariance, PTL DEF Spec

-----------------------------------------------------------------------------
(* Calls one at a time. What is true of a handle, ...                       *)
Erasing(h) == \E t \in Thread : call[t].step = "free_erase" /\ call[t].h = h
HandleFits(h) ==
  LET b == heap[importedBufferTable[h]] IN
  /\ client[h] # "held" => importedBufferTable[h] = Null
  /\ client[h] \in {"new", "importing"} => mappings[h] = 0 /\ locks[h] = 0
  /\ client[h] = "held" =>
       /\ importedBufferTable[h] \in Block
       /\ b.prime_fd = h
       /\ b.live \/ Erasing(h)
       /\ mappings[h] = IF b.mapped THEN 1 ELSE 0
       /\ locks[h] > 0 => b.mapped
  /\ mappings[h] <= 1

(* ... and of a call, the only one there is.                                *)
CallFits(t) ==
  LET k == call[t] IN
  /\ k.step = "idle" => k = Idle
  /\ k.step = "import_insert" => client[k.h] = "importing" /\ heap[k.bi] = buffer_info_create(k.h)
  /\ k.step \in {"free_info", "free_erase", "lock_map", "lock_sync"} =>
       client[k.h] = "held" /\ importedBufferTable[k.h] = k.bi
  /\ k.step \in {"free_info", "lock_map", "lock_sync"} => heap[k.bi].live
  /\ k.step = "lock_sync" => heap[k.bi].mapped
CallsAlone == \A t, u \in Thread : call[t] # Idle /\ call[u] # Idle => t = u

Serial == CallsAlone /\ (\A t \in Thread : CallFits(t)) /\ (\A h \in Handle : HandleFits(h))
SerialInv == ~overlapped => Serial

LEMMA SerialInit == Init => SerialInv
PROOF
  BY IdleFormed, DmaBufAssumption
  DEF Init, SerialInv, Serial, CallsAlone, CallFits, HandleFits, Idle

(* Thread t does something and no other call is in progress.                *)
LEMMA AloneKeeps ==
  ASSUME Serial, NEW t \in Thread, \A u \in Thread : u # t => call[u] = Idle /\ call'[u] = Idle,
         CallFits(t)', \A h \in Handle : HandleFits(h)'
  PROVE  Serial'
PROOF
  <1>1. CallsAlone'
    BY DEF CallsAlone, Idle
  <1>2. ASSUME NEW u \in Thread, u # t PROVE CallFits(u)'
    BY <1>2, IdleFormed DEF CallFits, Idle
  <1> QED
    BY <1>1, <1>2 DEF Serial

(* A call ends, and the handles are as they should be.                      *)
LEMMA ReturnAlone ==
  ASSUME Serial, IInv, NEW t \in Thread, call[t].step # "idle", Return(t),
         \A h \in Handle : HandleFits(h)'
  PROVE  Serial'
PROOF
  <1>1. call[t] # Idle
    BY IdleFormed
  <1>2. call'[t] = Idle /\ \A u \in Thread : u # t => call[u] = Idle /\ call'[u] = Idle
    BY <1>1 DEF Serial, CallsAlone, Return, IInv, TypeOK
  <1>3. CallFits(t)'
    BY <1>2, IdleFormed DEF CallFits, Idle
  <1> QED
    BY <1>2, <1>3, AloneKeeps

LEMMA NobodyElse ==
  ASSUME Serial, IInv, NEW t \in Thread, call[t].step # "idle"
  PROVE  \A u \in Thread : u # t => call[u] = Idle
PROOF
  BY IdleFormed DEF Serial, CallsAlone

(* Handle g is not the one whose call is in progress.                       *)
LEMMA OtherFits ==
  ASSUME NEW g \in Handle, HandleFits(g), IInv,
         importedBufferTable'[g] = importedBufferTable[g], client'[g] = client[g],
         locks'[g] = locks[g], mappings'[g] = mappings[g],
         client[g] = "held" => heap'[importedBufferTable[g]] = heap[importedBufferTable[g]],
         Erasing(g) => Erasing(g)'
  PROVE  HandleFits(g)'
PROOF
  BY DEF HandleFits

LEMMA SerialNext == ASSUME Intact, IInv, SerialInv, [Next]_vars PROVE SerialInv'
PROOF
  <1> SUFFICES ASSUME ~overlapped' PROVE Serial'
    BY DEF SerialInv
  <1>0. Serial
    BY DEF SerialInv, vars, Next, ImportCreate, ImportInsert, FreeFind, FreeInfo, FreeErase, LockFind,
           LockMap, LockMapFail, LockRefuse, LockSync, Unlock, Overlaps
  <1>a. Overlaps => \A u \in Thread : call[u] = Idle
    BY DEF Overlaps
  <1>b. \A h \in Handle : HandleFits(h)
    BY <1>0 DEF Serial
  <1>1. CASE UNCHANGED vars
    BY <1>0, <1>1 DEF vars, Serial, CallsAlone, CallFits, HandleFits, Erasing
  <1>2. ASSUME NEW t \in Thread, NEW h \in Handle, ImportCreate(t, h) PROVE Serial'
    <2>1. PICK b \in Block :
            /\ ~heap[b].live
            /\ heap' = [heap EXCEPT ![b] = buffer_info_create(h)]
            /\ call' = [call EXCEPT ![t] = [Idle EXCEPT !.step = "import_insert", !.h = h, !.bi = b]]
      BY <1>2 DEF ImportCreate
    <2>2. /\ client[h] = "new" /\ client' = [client EXCEPT ![h] = "importing"]
          /\ UNCHANGED <<importedBufferTable, locks, mappings>>
          /\ \A u \in Thread : call[u] = Idle
      BY <1>2, <1>a DEF ImportCreate
    <2>3. /\ call'[t].step = "import_insert" /\ call'[t].h = h /\ call'[t].bi = b
          /\ \A u \in Thread : u # t => call'[u] = Idle
      BY <2>1, <2>2 DEF IInv, TypeOK, Idle
    <2>4. CallFits(t)'
      BY <2>1, <2>2, <2>3 DEF CallFits, IInv, TypeOK, buffer_info_create
    <2>5. ASSUME NEW g \in Handle PROVE HandleFits(g)'
      <3>1. ~Erasing(g)
        BY <2>2, IdleFormed DEF Erasing
      <3>2. CASE g = h
        BY <1>b, <2>2, <3>2 DEF HandleFits, IInv, TypeOK
      <3>3. CASE g # h
        <4>1. client[g] = "held" => importedBufferTable[g] \in Block /\ importedBufferTable[g] # b
          BY <1>b, <2>1, <3>1 DEF HandleFits
        <4>2. client[g] = "held" => heap'[importedBufferTable[g]] = heap[importedBufferTable[g]]
          BY <2>1, <4>1 DEF IInv, TypeOK
        <4>3. client'[g] = client[g]
          BY <2>2, <3>3 DEF IInv, TypeOK
        <4> QED
          BY <1>b, <2>2, <3>1, <4>2, <4>3, OtherFits
      <3> QED
        BY <3>2, <3>3
    <2> QED
      BY <1>0, <2>2, <2>3, <2>4, <2>5, AloneKeeps
  <1>3. ASSUME NEW t \in Thread, ImportInsert(t) PROVE Serial'
    <2> DEFINE h == call[t].h
    <2>1. h \in Handle /\ call[t].bi \in Block /\ call[t].step = "import_insert"
      BY <1>3 DEF ImportInsert, IInv, CallsFormed, CallFormed
    <2>2. /\ client[h] = "importing" /\ heap[call[t].bi] = buffer_info_create(h)
      BY <1>0, <2>1 DEF Serial, CallFits
    <2>3. ~Racing(t)
      BY <1>0, <2>1, NobodyElse, IdleFormed DEF Racing
    <2>4. /\ importedBufferTable' = [importedBufferTable EXCEPT ![h] = call[t].bi]
          /\ client' = [client EXCEPT ![h] = "held"]
          /\ UNCHANGED <<heap, locks, mappings>>
          /\ Return(t)
      BY <1>3, <2>3 DEF ImportInsert
    <2>5. ASSUME NEW g \in Handle PROVE HandleFits(g)'
      <3>1. CASE g = h
        BY <1>b, <2>1, <2>2, <2>4, <3>1 DEF HandleFits, IInv, TypeOK, buffer_info_create
      <3>2. CASE g # h
        <4>1. ~Erasing(g)
          BY <1>0, <2>1, NobodyElse, IdleFormed DEF Erasing
        <4> QED
          BY <1>b, <2>4, <3>2, <4>1, OtherFits DEF IInv, TypeOK
      <3> QED
        BY <3>1, <3>2
    <2> QED
      BY <1>0, <2>1, <2>4, <2>5, ReturnAlone
  <1>4. ASSUME NEW t \in Thread, NEW h \in Handle, NEW step \in {"free_info", "lock_map"},
               NEW usage, Enter(t, step, h, usage), Overlaps,
               UNCHANGED <<importedBufferTable, heap, client, locks, mappings>>
        PROVE  Serial'
    <2>1. \A u \in Thread : call[u] = Idle
      BY <1>4, <1>a
    <2>2. /\ call'[t] = [step |-> step, h |-> h, bi |-> importedBufferTable[h], usage |-> usage]
          /\ \A u \in Thread : u # t => call'[u] = Idle
          /\ importedBufferTable[h] # Null
      BY <1>4, <2>1 DEF Enter, IInv, TypeOK
    <2>3. \A g \in Handle : ~Erasing(g)
      BY <2>1, IdleFormed DEF Erasing
    <2>4. client[h] = "held" /\ heap[importedBufferTable[h]].live
      BY <1>b, <2>2, <2>3 DEF HandleFits
    <2>5. CallFits(t)'
      BY <1>4, <2>2, <2>4 DEF CallFits
    <2>6. \A g \in Handle : HandleFits(g)'
      BY <1>4, <1>b, <2>3, OtherFits
    <2> QED
      BY <1>0, <2>1, <2>2, <2>5, <2>6, AloneKeeps
  <1>5. ASSUME NEW t \in Thread, FreeInfo(t) PROVE Serial'
    <2> DEFINE h == call[t].h
               b == call[t].bi
    <2>1. h \in Handle /\ b \in Block /\ call[t].step = "free_info"
      BY <1>5 DEF FreeInfo, IInv, CallsFormed, CallFormed
    <2>2. client[h] = "held" /\ importedBufferTable[h] = b
      BY <1>0, <2>1 DEF Serial, CallFits
    <2>3. /\ heap' = [heap EXCEPT ![b].live = FALSE]
          /\ call' = [call EXCEPT ![t].step = "free_erase"]
          /\ UNCHANGED <<importedBufferTable, client, locks, mappings>>
      BY <1>5 DEF FreeInfo
    <2>4. \A u \in Thread : u # t => call[u] = Idle /\ call'[u] = Idle
      BY <1>0, <2>1, <2>3, NobodyElse DEF IInv, TypeOK
    <2>5. call'[t].step = "free_erase" /\ call'[t].h = h /\ call'[t].bi = b
      BY <2>3 DEF IInv, TypeOK, CallState
    <2>6. CallFits(t)'
      BY <2>2, <2>3, <2>5 DEF CallFits
    <2>7. ASSUME NEW g \in Handle PROVE HandleFits(g)'
      <3>1. CASE g = h
        <4>1. Erasing(g)'
          BY <2>5, <3>1 DEF Erasing
        <4>2. heap[b] \in Info /\ heap'[b] = [heap[b] EXCEPT !.live = FALSE]
          BY <2>1, <2>3 DEF IInv, TypeOK
        <4>3. heap'[b].prime_fd = heap[b].prime_fd /\ heap'[b].mapped = heap[b].mapped
          BY <4>2 DEF Info
        <4> QED
          BY <1>b, <2>2, <2>3, <3>1, <4>1, <4>3 DEF HandleFits
      <3>2. CASE g # h
        <4>1. client[g] = "held" => importedBufferTable[g] # b
          BY <1>b, <2>1, <2>2, <3>2 DEF HandleFits
        <4>2. ~Erasing(g)
          BY <2>1, <2>4, IdleFormed DEF Erasing
        <4>3. client[g] = "held" => heap'[importedBufferTable[g]] = heap[importedBufferTable[g]]
          BY <1>b, <2>3, <4>1 DEF IInv, TypeOK, HandleFits
        <4> QED
          BY <1>b, <2>3, <4>2, <4>3, OtherFits
      <3> QED
        BY <3>1, <3>2
    <2> QED
      BY <1>0, <2>4, <2>6, <2>7, AloneKeeps
  <1>6. ASSUME NEW t \in Thread, FreeErase(t) PROVE Serial'
    <2> DEFINE h == call[t].h
    <2>1. h \in Handle /\ call[t].step = "free_erase"
      BY <1>6 DEF FreeErase, IInv, CallsFormed, CallFormed
    <2>2. client[h] = "held" /\ importedBufferTable[h] = call[t].bi
      BY <1>0, <2>1 DEF Serial, CallFits
    <2>3. heap[call[t].bi].prime_fd = h
      BY <1>b, <2>1, <2>2 DEF HandleFits
    <2>4. /\ importedBufferTable' = [k \in Handle |-> IF k = h THEN Null ELSE importedBufferTable[k]]
          /\ client' = [client EXCEPT ![h] = "freed"]
          /\ UNCHANGED <<heap, locks, mappings>>
          /\ Return(t)
      BY <1>6, <2>3 DEF FreeErase
    <2>5. ASSUME NEW g \in Handle PROVE HandleFits(g)'
      <3>1. CASE g = h
        BY <1>b, <2>1, <2>4, <3>1 DEF HandleFits, IInv, TypeOK
      <3>2. CASE g # h
        <4>1. ~Erasing(g)
          BY <1>0, <2>1, <3>2, NobodyElse, IdleFormed DEF Erasing
        <4> QED
          BY <1>b, <2>4, <3>2, <4>1, OtherFits DEF IInv, TypeOK
      <3> QED
        BY <3>1, <3>2
    <2> QED
      BY <1>0, <2>1, <2>4, <2>5, ReturnAlone
  <1>7. ASSUME NEW t \in Thread, LockMap(t) PROVE Serial'
    <2> DEFINE h == call[t].h
               b == call[t].bi
    <2>1. h \in Handle /\ b \in Block /\ call[t].step = "lock_map"
      BY <1>7 DEF LockMap, IInv, CallsFormed, CallFormed
    <2>2. client[h] = "held" /\ importedBufferTable[h] = b /\ heap[b].live
      BY <1>0, <2>1 DEF Serial, CallFits
    <2>3. heap[b].prime_fd = h /\ h # Null /\ mappings[h] = IF heap[b].mapped THEN 1 ELSE 0
      BY <1>b, <2>1, <2>2, DmaBufAssumption DEF HandleFits
    <2>4. /\ heap' = [heap EXCEPT ![b].mapped = TRUE]
          /\ mappings' = IF heap[b].mapped THEN mappings ELSE [mappings EXCEPT ![h] = @ + 1]
          /\ call' = [call EXCEPT ![t].step = "lock_sync"]
          /\ UNCHANGED <<importedBufferTable, client, locks>>
      BY <1>7, <2>3 DEF LockMap
    <2>5. \A u \in Thread : u # t => call[u] = Idle /\ call'[u] = Idle
      BY <1>0, <2>1, <2>4, NobodyElse DEF IInv, TypeOK
    <2>6. call'[t].step = "lock_sync" /\ call'[t].h = h /\ call'[t].bi = b
      BY <2>4 DEF IInv, TypeOK, CallState
    <2>7. heap'[b].live /\ heap'[b].prime_fd = h /\ heap'[b].mapped
      <3>1. heap[b] \in Info /\ heap'[b] = [heap[b] EXCEPT !.mapped = TRUE]
        BY <2>1, <2>4 DEF IInv, TypeOK
      <3> QED
        BY <2>2, <2>3, <3>1 DEF Info
    <2>8. CallFits(t)'
      BY <2>2, <2>4, <2>6, <2>7 DEF CallFits
    <2>9. ASSUME NEW g \in Handle PROVE HandleFits(g)'
      <3>1. CASE g = h
        <4>1. mappings'[h] = 1
          BY <2>1, <2>3, <2>4 DEF IInv, TypeOK
        <4> QED
          BY <1>b, <2>1, <2>2, <2>4, <2>7, <3>1, <4>1 DEF HandleFits
      <3>2. CASE g # h
        <4>1. client[g] = "held" => importedBufferTable[g] # b
          BY <1>b, <2>2, <2>3, <3>2 DEF HandleFits
        <4>2. ~Erasing(g)
          BY <2>1, <2>5, IdleFormed DEF Erasing
        <4>3. client[g] = "held" => heap'[importedBufferTable[g]] = heap[importedBufferTable[g]]
          BY <1>b, <2>4, <4>1 DEF IInv, TypeOK, HandleFits
        <4>4. mappings'[g] = mappings[g]
          BY <2>4, <3>2 DEF IInv, TypeOK
        <4> QED
          BY <1>b, <2>4, <4>2, <4>3, <4>4, OtherFits
      <3> QED
        BY <3>1, <3>2
    <2> QED
      BY <1>0, <2>5, <2>8, <2>9, AloneKeeps
  <1>8. ASSUME NEW t \in Thread, LockMapFail(t) \/ LockRefuse(t) PROVE Serial'
    <2>1. /\ call[t].step \in {"lock_map", "lock_sync"} /\ Return(t)
          /\ UNCHANGED <<importedBufferTable, heap, client, locks, mappings>>
      BY <1>8 DEF LockMapFail, LockRefuse
    <2>2. \A g \in Handle : ~Erasing(g)
      BY <1>0, <2>1, NobodyElse, IdleFormed DEF Erasing
    <2>3. \A g \in Handle : HandleFits(g)'
      BY <1>b, <2>1, <2>2, OtherFits
    <2> QED
      BY <1>0, <2>1, <2>3, ReturnAlone
  <1>9. ASSUME NEW t \in Thread, LockSync(t) PROVE Serial'
    <2> DEFINE h == call[t].h
    <2>1. h \in Handle /\ call[t].bi \in Block /\ call[t].step = "lock_sync"
      BY <1>9 DEF LockSync, IInv, CallsFormed, CallFormed
    <2>2. client[h] = "held" /\ importedBufferTable[h] = call[t].bi /\ heap[call[t].bi].mapped
      BY <1>0, <2>1 DEF Serial, CallFits
    <2>3. /\ locks' = [locks EXCEPT ![h] = @ + 1] /\ Return(t)
          /\ UNCHANGED <<importedBufferTable, heap, client, mappings>>
      BY <1>9 DEF LockSync
    <2>4. \A g \in Handle : ~Erasing(g)
      BY <1>0, <2>1, NobodyElse, IdleFormed DEF Erasing
    <2>5. ASSUME NEW g \in Handle PROVE HandleFits(g)'
      <3>1. CASE g = h
        BY <1>b, <2>2, <2>3, <2>4, <3>1 DEF HandleFits
      <3>2. CASE g # h
        BY <1>b, <2>3, <2>4, <3>2, OtherFits DEF IInv, TypeOK
      <3> QED
        BY <3>1, <3>2
    <2> QED
      BY <1>0, <2>1, <2>3, <2>5, ReturnAlone
  <1>10. ASSUME NEW t \in Thread, NEW h \in Handle, Unlock(t, h) PROVE Serial'
    <2>1. /\ client[h] \in {"held", "freed"} /\ locks[h] > 0
          /\ locks' = [locks EXCEPT ![h] = @ - 1]
          /\ UNCHANGED <<importedBufferTable, heap, call, client, mappings>>
      BY <1>10 DEF Unlock, MayCall
    <2>2. \A g \in Handle : HandleFits(g)'
      <3>1. ASSUME NEW g \in Handle PROVE HandleFits(g)'
        <4>1. Erasing(g)' = Erasing(g)
          BY <2>1 DEF Erasing
        <4>2. locks'[g] > 0 => locks[g] > 0
          BY <2>1, DmaBufAssumption DEF IInv, TypeOK
        <4>3. client[g] \in {"new", "importing"} => locks'[g] = locks[g]
          BY <2>1 DEF IInv, TypeOK
        <4> QED
          BY <1>b, <2>1, <4>1, <4>2, <4>3 DEF HandleFits
      <3> QED
        BY <3>1
    <2> QED
      BY <1>0, <2>1, <2>2 DEF Serial, CallsAlone, CallFits
  <1> QED
    BY <1>1, <1>2, <1>3, <1>4, <1>5, <1>6, <1>7, <1>8, <1>9, <1>10 DEF Next, FreeFind, LockFind

LEMMA SerialHolds == ASSUME Intact PROVE Spec => []SerialInv
PROOF
  <1>1. IInv /\ SerialInv /\ [Next]_vars => SerialInv'
    BY SerialNext
  <1> QED
    BY <1>1, SerialInit, Invariance, PTL DEF Spec

(* While calls come one at a time, and freed memory keeps its content until *)
(* it is reused (freeBuffer reads the key of the entry there), a buffer is  *)
(* found by its own calls until it is freed, and then by none.              *)
THEOREM SerialCallsFindTheirs == ASSUME Intact PROVE Spec => []SerialTableRight
PROOF
  <1>1. SerialInv => SerialTableRight
    <2> SUFFICES ASSUME SerialInv, ~overlapped, NEW h \in Handle
                 PROVE  /\ client[h] = "held" /\ ~InCall(h) =>
                             /\ importedBufferTable[h] # Null
                             /\ heap[importedBufferTable[h]].live
                             /\ heap[importedBufferTable[h]].prime_fd = h
                        /\ importedBufferTable[h] # Null /\ ~InCall(h) =>
                             heap[importedBufferTable[h]].live
      BY DEF SerialTableRight, ImportedIsManaged, EntriesLive
    <2>1. HandleFits(h)
      BY DEF SerialInv, Serial
    <2>2. Erasing(h) => InCall(h)
      BY DEF Erasing, InCall
    <2> QED
      BY <2>1, <2>2, DmaBufAssumption DEF HandleFits
  <1> QED
    BY <1>1, SerialHolds, PTL

(* Under the same conditions a buffer is mapped at most once, and a client  *)
(* that has a lock has the memory mapped.                                   *)
THEOREM SerialCallsMapOnce == ASSUME Intact PROVE Spec => []SerialMapsRight
PROOF
  <1>1. IInv /\ SerialInv => SerialMapsRight
    <2> SUFFICES ASSUME IInv, SerialInv, ~overlapped, NEW h \in Handle
                 PROVE  /\ mappings[h] <= 1
                        /\ locks[h] > 0 /\ client[h] = "held" =>
                             heap[importedBufferTable[h]].mapped /\ mappings[h] > 0
      BY DEF SerialMapsRight, MapOnce, LockedIsMapped
    <2>1. HandleFits(h)
      BY DEF SerialInv, Serial
    <2> QED
      BY <2>1 DEF HandleFits, IInv, TypeOK
  <1> QED
    BY <1>1, SerialHolds, Invariance, PTL
=============================================================================
