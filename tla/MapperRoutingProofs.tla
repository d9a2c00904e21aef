------------------------- MODULE MapperRoutingProofs -------------------------
(***************************************************************************)
(* Theorems about MapperRouting, for any number of threads and handles.    *)
(* The first part holds however calls overlap; the second is about calls   *)
(* one at a time.                                                          *)
(***************************************************************************)
EXTENDS MapperRouting, TLAPS

-----------------------------------------------------------------------------
(* The inductive invariant for any overlap: NewIsUnmanaged is inductive     *)
(* with the handles whose import is under way, which may fail yet.          *)
CallsFormed == \A t \in Thread :
  call[t].step # "idle" => call[t].h \in Handle /\ call[t].op \in Ops

ImportingUnmanaged ==
  \A h \in Handle, k \in Types : client[h] \in {"new", "importing"} => h \notin managed[k]

IInv == TypeOK /\ CallsFormed /\ ImportingUnmanaged /\ NoBlobInGbm

USE DEF Types

LEMMA IdleFormed == Idle \in CallState /\ Idle.step = "idle" /\ Idle.h = NoHandle
PROOF
  BY DEF Idle, CallState

(* What a step that only gives thread t a new call has to show.             *)
LEMMA CallKeeps ==
  ASSUME TypeOK, CallsFormed, NEW t \in Thread, NEW c \in CallState,
         c.step # "idle" => c.h \in Handle /\ c.op \in Ops,
         call' = [call EXCEPT ![t] = c]
  PROVE  /\ call' \in [Thread -> CallState]
         /\ CallsFormed'
         /\ \A u \in Thread : call'[u] = IF u = t THEN c ELSE call[u]
PROOF
  BY DEF TypeOK, CallsFormed

LEMMA FailedKeeps ==
  ASSUME IInv, NEW t \in Thread, Failed(t), mBackend' = mBackend, ready' \subseteq Types,
         UNCHANGED <<managed, locked, holds, overlapped>>
  PROVE  IInv'
PROOF
  <1>1. client' \in [Handle -> {"new", "importing", "held", "freed"}]
    BY DEF IInv, TypeOK, Failed
  <1>2. \A h \in Handle : client'[h] \in {"new", "importing"} => client[h] \in {"new", "importing"}
    BY DEF IInv, TypeOK, Failed
  <1>3. /\ call' \in [Thread -> CallState] /\ CallsFormed'
        /\ \A u \in Thread : call'[u] = IF u = t THEN Idle ELSE call[u]
    BY IdleFormed, CallKeeps DEF IInv, Failed
  <1>4. TypeOK'
    BY <1>1, <1>3 DEF IInv, TypeOK, Busy
  <1>5. ImportingUnmanaged' /\ NoBlobInGbm'
    BY <1>2 DEF IInv, ImportingUnmanaged, NoBlobInGbm
  <1> QED
    BY <1>3, <1>4, <1>5 DEF IInv

(* A call returns and takes handles out of backends or changes its locks.   *)
LEMMA ReturnedKeeps ==
  ASSUME IInv, NEW t \in Thread, Returned(t), mBackend' = mBackend, ready' \subseteq Types,
         managed' \in [Types -> SUBSET Handle], locked' \in [Types -> SUBSET Handle],
         \A k \in Types : managed'[k] \subseteq managed[k],
         client' \in [Handle -> {"new", "importing", "held", "freed"}],
         \A h \in Handle : client'[h] \in {"new", "importing"} => client'[h] = client[h],
         holds' \subseteq Handle, overlapped' = overlapped
  PROVE  IInv'
PROOF
  <1>1. /\ call' \in [Thread -> CallState] /\ CallsFormed'
        /\ \A u \in Thread : call'[u] = IF u = t THEN Idle ELSE call[u]
    BY IdleFormed, CallKeeps DEF IInv, Returned
  <1>2. TypeOK'
    BY <1>1 DEF IInv, TypeOK, Busy
  <1>3. ImportingUnmanaged' /\ NoBlobInGbm'
    BY DEF IInv, ImportingUnmanaged, NoBlobInGbm
  <1> QED
    BY <1>1, <1>2, <1>3 DEF IInv

LEMMA InvInit == Init => IInv
PROOF
  BY IdleFormed DEF Init, IInv, TypeOK, CallsFormed, ImportingUnmanaged, NoBlobInGbm, Busy

LEMMA InvNext == IInv /\ [Next]_vars => IInv'
PROOF
  <1> SUFFICES ASSUME IInv, [Next]_vars PROVE IInv'
    OBVIOUS
  <1>0. CASE UNCHANGED vars
    BY <1>0 DEF vars, IInv, TypeOK, CallsFormed, ImportingUnmanaged, NoBlobInGbm, Busy
  <1>1. ASSUME NEW t \in Thread, NEW op \in Ops, NEW h \in Handle, Enter(t, op, h)
        PROVE  IInv'
    <2> DEFINE c == [step |-> "check", op |-> op, h |-> h]
    <2>1. c \in CallState /\ c.h \in Handle /\ c.op \in Ops
      BY DEF CallState
    <2>2. /\ call' \in [Thread -> CallState] /\ CallsFormed'
      BY <1>1, <2>1, CallKeeps DEF IInv, Enter
    <2>3. mBackend' \in Types
      BY <1>1 DEF Enter, Selected
    <2>4. op = "importBuffer" => client[h] = "new"
      BY <1>1 DEF Enter, MayCall
    <2>5. client' \in [Handle -> {"new", "importing", "held", "freed"}]
      BY <1>1 DEF Enter, IInv, TypeOK
    <2>6. \A g \in Handle : client'[g] \in {"new", "importing"} => client[g] \in {"new", "importing"}
      BY <1>1, <2>4 DEF Enter, IInv, TypeOK
    <2>7. TypeOK'
      BY <1>1, <2>2, <2>3, <2>5 DEF Enter, IInv, TypeOK
    <2>8. ImportingUnmanaged' /\ NoBlobInGbm'
      BY <1>1, <2>6 DEF Enter, IInv, ImportingUnmanaged, NoBlobInGbm
    <2> QED
      BY <2>2, <2>7, <2>8 DEF IInv
  <1>2. ASSUME NEW t \in Thread, Check(t)
        PROVE  IInv'
    <2> DEFINE c == [call[t] EXCEPT !.step = "dispatch"]
    <2>1. call[t] \in CallState /\ call[t].h \in Handle /\ call[t].op \in Ops
      BY <1>2 DEF Check, IInv, TypeOK, CallsFormed
    <2>2. c \in CallState /\ c.h \in Handle /\ c.op \in Ops
      BY <2>1 DEF CallState
    <2>3. call' = [call EXCEPT ![t] = c]
      BY <1>2 DEF Check
    <2>4. /\ call' \in [Thread -> CallState] /\ CallsFormed'
          /\ \A u \in Thread : u # t => call'[u] = call[u]
      BY <2>2, <2>3, CallKeeps DEF IInv
    <2>5. Busy(t)
      BY <1>2, IdleFormed DEF Check, Busy
    <2>6. mBackend \in Types
      BY <2>5 DEF IInv, TypeOK
    <2>7. TypeOK'
      BY <1>2, <2>4, <2>6 DEF Check, IInv, TypeOK, Busy
    <2>8. ImportingUnmanaged' /\ NoBlobInGbm'
      BY <1>2 DEF Check, IInv, ImportingUnmanaged, NoBlobInGbm
    <2> QED
      BY <2>4, <2>7, <2>8 DEF IInv
  <1>3. ASSUME NEW t \in Thread, CheckFail(t) \/ ImportFail(t) \/ FreeFail(t)
                                   \/ LockFail(t) \/ UnlockFail(t)
        PROVE  IInv'
    <2>1. /\ Failed(t) /\ mBackend' = mBackend /\ ready' = ready
          /\ UNCHANGED <<managed, locked, holds, overlapped>>
      BY <1>3 DEF CheckFail, ImportFail, FreeFail, LockFail, UnlockFail
    <2>2. ready' \subseteq Types
      BY <2>1 DEF IInv, TypeOK
    <2> QED
      BY <2>1, <2>2, FailedKeeps
  <1>4. ASSUME NEW t \in Thread, Import(t)
        PROVE  IInv'
    <2> DEFINE h == call[t].h
    <2>1. h \in Handle /\ mBackend \in Types
      BY <1>4, IdleFormed DEF Import, Dispatched, IInv, TypeOK, CallsFormed, Busy
    <2>2. managed' = [managed EXCEPT ![mBackend] = @ \cup {h}] /\ client' = [client EXCEPT ![h] = "held"]
      BY <1>4 DEF Import
    <2>3. /\ call' \in [Thread -> CallState] /\ CallsFormed'
          /\ \A u \in Thread : call'[u] = IF u = t THEN Idle ELSE call[u]
      BY <1>4, IdleFormed, CallKeeps DEF IInv, Import, Returned
    <2>4. /\ managed' \in [Types -> SUBSET Handle]
          /\ client' \in [Handle -> {"new", "importing", "held", "freed"}]
      BY <2>1, <2>2 DEF IInv, TypeOK
    <2>5. TypeOK'
      BY <1>4, <2>3, <2>4 DEF Import, IInv, TypeOK, Busy
    <2>6. ImportingUnmanaged'
      BY <2>1, <2>2 DEF IInv, TypeOK, ImportingUnmanaged
    <2>7. NoBlobInGbm'
      BY <1>4, <2>1, <2>2 DEF Import, IInv, TypeOK, NoBlobInGbm
    <2> QED
      BY <2>3, <2>5, <2>6, <2>7 DEF IInv
  <1>5. ASSUME NEW t \in Thread, Free(t)
        PROVE  IInv'
    <2>1. call[t].h \in Handle
      BY <1>5 DEF Free, Dispatched, IInv, CallsFormed
    <2>2. /\ managed' = [managed EXCEPT ![mBackend] = @ \ {call[t].h}]
          /\ locked' = [locked EXCEPT ![mBackend] = @ \ {call[t].h}]
          /\ client' = [client EXCEPT ![call[t].h] = "freed"]
          /\ Returned(t) /\ UNCHANGED <<mBackend, ready, holds, overlapped>>
      BY <1>5 DEF Free
    <2>3. /\ managed' \in [Types -> SUBSET Handle] /\ locked' \in [Types -> SUBSET Handle]
          /\ \A k \in Types : managed'[k] \subseteq managed[k]
      BY <2>2 DEF IInv, TypeOK
    <2>4. /\ client' \in [Handle -> {"new", "importing", "held", "freed"}]
          /\ \A h \in Handle : client'[h] \in {"new", "importing"} => client'[h] = client[h]
      BY <2>1, <2>2 DEF IInv, TypeOK
    <2>5. ready' \subseteq Types /\ holds' \subseteq Handle
      BY <2>2 DEF IInv, TypeOK
    <2> QED
      BY <2>2, <2>3, <2>4, <2>5, ReturnedKeeps
  <1>6. ASSUME NEW t \in Thread, Lock(t) \/ Unlock(t) \/ Flush(t)
        PROVE  IInv'
    <2>1. call[t].h \in Handle
      BY <1>6 DEF Lock, Unlock, Flush, Dispatched, IInv, CallsFormed
    <2>2. Returned(t) /\ UNCHANGED <<mBackend, ready, managed, client, overlapped>>
      BY <1>6 DEF Lock, Unlock, Flush
    <2>3. locked' \in [Types -> SUBSET Handle] /\ holds' \subseteq Handle
      BY <1>6, <2>1 DEF Lock, Unlock, Flush, IInv, TypeOK
    <2>4. /\ managed' \in [Types -> SUBSET Handle] /\ ready' \subseteq Types
          /\ client' \in [Handle -> {"new", "importing", "held", "freed"}]
      BY <2>2 DEF IInv, TypeOK
    <2> QED
      BY <2>2, <2>3, <2>4, ReturnedKeeps
  <1>7. ASSUME NEW t \in Thread, Crash(t)
        PROVE  IInv'
    <2> DEFINE c == [call[t] EXCEPT !.step = "crashed"]
    <2>1. call[t] \in CallState /\ call[t].h \in Handle /\ call[t].op \in Ops /\ Busy(t)
      BY <1>7, IdleFormed DEF Crash, IInv, TypeOK, CallsFormed, Busy
    <2>2. c \in CallState /\ c.h \in Handle /\ c.op \in Ops
      BY <2>1 DEF CallState
    <2>3. call' = [call EXCEPT ![t] = c]
      BY <1>7 DEF Crash
    <2>4. /\ call' \in [Thread -> CallState] /\ CallsFormed'
          /\ \A u \in Thread : u # t => call'[u] = call[u]
      BY <2>2, <2>3, CallKeeps DEF IInv
    <2>5. TypeOK'
      BY <1>7, <2>1, <2>4 DEF Crash, IInv, TypeOK, Busy
    <2>6. ImportingUnmanaged' /\ NoBlobInGbm'
      BY <1>7 DEF Crash, IInv, ImportingUnmanaged, NoBlobInGbm
    <2> QED
      BY <2>4, <2>5, <2>6 DEF IInv
  <1> QED
    BY <1>0, <1>1, <1>2, <1>3, <1>4, <1>5, <1>6, <1>7 DEF Next

LEMMA Invariance == Spec => []IInv
PROOF
  BY InvInit, InvNext, PTL DEF Spec

(* Every state of the model is well typed, and mBackend is not null while a *)
(* call is in progress: CHECK_BACKEND never finds it so.                    *)
THEOREM MapperRoutingTypeCorrect == Spec => []TypeOK
PROOF
  <1>1. IInv => TypeOK
    BY DEF IInv
  <1> QED
    BY <1>1, Invariance, PTL

(* A failed importBuffer leaves nothing behind in any backend, also when    *)
(* other threads change mBackend during it.                                 *)
THEOREM FailedImportLeavesNothing == Spec => []NewIsUnmanaged
PROOF
  <1>1. IInv => NewIsUnmanaged
    BY DEF IInv, ImportingUnmanaged, NewIsUnmanaged
  <1> QED
    BY <1>1, Invariance, PTL

(* No blob gets into GBM's table, also when other threads change mBackend.  *)
THEOREM NoBlobReachesGbm == Spec => []NoBlobInGbm
PROOF
  <1>1. IInv => NoBlobInGbm
    BY DEF IInv
  <1> QED
    BY <1>1, Invariance, PTL

-----------------------------------------------------------------------------
(* Calls one at a time: the one in progress finds mBackend as it selected   *)
(* it, initialised once it is past CHECK_BACKEND, and its handle as the     *)
(* client used it; and the handles are as SerialCallsAgree says, those in   *)
(* the call included.                                                       *)
OneCall == \A t, u \in Thread : Busy(t) /\ Busy(u) => t = u

CallRight(t) ==
  LET h == call[t].h
      op == call[t].op IN
  /\ call[t].step \in {"check", "dispatch"}
  /\ mBackend = Selected(h)
  /\ call[t].step = "dispatch" => mBackend \in ready
  /\ op = "importBuffer" => client[h] = "importing"
  /\ op # "importBuffer" => client[h] = "held"
  /\ op = "unlock" => h \in holds
  /\ op \in {"freeBuffer", "lock"} => h \notin holds
CallsRight == \A t \in Thread : Busy(t) => CallRight(t)

BufferRight(h) ==
  /\ client[h] = "held" => /\ \A k \in Types : h \in managed[k] <=> k = OwnBackend(h)
                           /\ h \in holds <=> h \in locked[OwnBackend(h)]
  /\ client[h] = "freed" => \A k \in Types : h \notin managed[k]
  /\ client[h] \in {"new", "importing"} =>
       h \notin holds /\ \A k \in Types : h \notin locked[k]
BuffersRight == \A h \in Handle : BufferRight(h)

SInv == ~overlapped => OneCall /\ CallsRight /\ BuffersRight

LEMMA OwnIsSelected == \A h \in Handle : Selected(h) = OwnBackend(h) /\ OwnBackend(h) \in Types
PROOF
  BY DEF Selected, OwnBackend

(* The call in progress has returned: there is none.                        *)
LEMMA NoneLeft ==
  ASSUME TypeOK, OneCall, NEW t \in Thread, Busy(t), call' = [call EXCEPT ![t] = Idle]
  PROVE  OneCall' /\ CallsRight'
PROOF
  <1>1. \A u \in Thread : call'[u] = Idle
    BY DEF TypeOK, OneCall, Busy
  <1> QED
    BY <1>1 DEF OneCall, CallsRight, Busy

LEMMA FailedRight ==
  ASSUME IInv, NEW t \in Thread, Failed(t), OneCall, CallsRight, BuffersRight, Busy(t),
         UNCHANGED <<managed, locked, holds>>
  PROVE  OneCall' /\ CallsRight' /\ BuffersRight'
PROOF
  <1>1. OneCall' /\ CallsRight'
    BY NoneLeft DEF Failed, IInv
  <1>2. ASSUME NEW h \in Handle PROVE BufferRight(h)'
    <2>1. client'[h] = client[h] \/ (client[h] = "importing" /\ client'[h] = "new")
      BY DEF Failed, IInv, TypeOK
    <2>2. BufferRight(h)
      BY DEF BuffersRight
    <2> QED
      BY <2>1, <2>2 DEF BufferRight, OwnBackend
  <1> QED
    BY <1>1, <1>2 DEF BuffersRight

LEMMA SInvInit == Init => SInv
PROOF
  BY DEF Init, SInv, OneCall, CallsRight, BuffersRight, BufferRight, Busy

LEMMA SInvNext == IInv /\ SInv /\ [Next]_vars => SInv'
PROOF
  <1> SUFFICES ASSUME IInv, SInv, [Next]_vars, ~overlapped'
               PROVE  OneCall' /\ CallsRight' /\ BuffersRight'
    BY DEF SInv
  <1>0. CASE UNCHANGED vars
    BY <1>0 DEF vars, SInv, OneCall, CallsRight, CallRight, BuffersRight, BufferRight, Busy
  <1>1. ASSUME NEW t \in Thread, NEW op \in Ops, NEW h \in Handle, Enter(t, op, h)
        PROVE  OneCall' /\ CallsRight' /\ BuffersRight'
    <2>1. OneCall /\ CallsRight /\ BuffersRight /\ \A u \in Thread : call[u] = Idle
      BY <1>1 DEF Enter, SInv, Busy
    <2>2. \A u \in Thread : call'[u] = IF u = t THEN [step |-> "check", op |-> op, h |-> h] ELSE Idle
      BY <1>1, <2>1 DEF Enter, IInv, TypeOK
    <2>3. OneCall'
      BY <2>2 DEF OneCall, Busy
    <2>4. /\ client' = [client EXCEPT ![h] = IF op = "importBuffer" THEN "importing" ELSE @]
          /\ mBackend' = Selected(h)
          /\ UNCHANGED <<ready, managed, locked, holds>>
      BY <1>1 DEF Enter
    <2>5. /\ op = "importBuffer" => client[h] = "new"
          /\ op # "importBuffer" => client[h] = "held"
          /\ op = "unlock" => h \in holds
          /\ op \in {"freeBuffer", "lock"} => h \notin holds
      BY <1>1 DEF Enter, MayCall, Ops
    <2>6. CallRight(t)'
      BY <2>2, <2>4, <2>5 DEF CallRight, Selected, IInv, TypeOK
    <2>7. CallsRight'
      BY <2>2, <2>6 DEF CallsRight, Busy
    <2>8. ASSUME NEW g \in Handle PROVE BufferRight(g)'
      <3>1. client'[g] = client[g] \/ (client[g] = "new" /\ client'[g] = "importing")
        BY <2>4, <2>5 DEF IInv, TypeOK
      <3>2. BufferRight(g)
        BY <2>1 DEF BuffersRight
      <3> QED
        BY <2>4, <3>1, <3>2 DEF BufferRight, OwnBackend
    <2> QED
      BY <2>3, <2>7, <2>8 DEF BuffersRight
  <1>2. ASSUME NEW t \in Thread, Check(t)
        PROVE  OneCall' /\ CallsRight' /\ BuffersRight'
    <2>1. OneCall /\ CallsRight /\ BuffersRight /\ Busy(t)
      BY <1>2, IdleFormed DEF Check, SInv, Busy
    <2>2. /\ call' = [call EXCEPT ![t].step = "dispatch"] /\ ready' = ready \cup {mBackend}
          /\ UNCHANGED <<mBackend, managed, locked, client, holds>>
      BY <1>2 DEF Check
    <2>3. /\ call'[t].step = "dispatch" /\ call'[t].h = call[t].h /\ call'[t].op = call[t].op
          /\ \A u \in Thread : u # t => call'[u] = Idle
      BY <2>1, <2>2 DEF IInv, TypeOK, OneCall, Busy, CallState
    <2>4. CallRight(t)'
      BY <2>1, <2>2, <2>3 DEF CallsRight, CallRight, Selected
    <2>5. OneCall' /\ CallsRight'
      BY <2>3, <2>4 DEF OneCall, CallsRight, Busy
    <2>6. BuffersRight'
      BY <2>1, <2>2 DEF BuffersRight, BufferRight, OwnBackend
    <2> QED
      BY <2>5, <2>6
  <1>3. ASSUME NEW t \in Thread, CheckFail(t) \/ ImportFail(t) \/ FreeFail(t)
                                   \/ LockFail(t) \/ UnlockFail(t)
        PROVE  OneCall' /\ CallsRight' /\ BuffersRight'
    <2>1. call[t].step # "idle" /\ Failed(t) /\ UNCHANGED <<managed, locked, holds, overlapped>>
      BY <1>3 DEF CheckFail, ImportFail, FreeFail, LockFail, UnlockFail, Dispatched
    <2>2. OneCall /\ CallsRight /\ BuffersRight /\ Busy(t)
      BY <2>1, IdleFormed DEF SInv, Busy
    <2> QED
      BY <2>1, <2>2, FailedRight
  <1>4. ASSUME NEW t \in Thread, NEW op \in Ops, Dispatched(t, op), Returned(t),
               overlapped' = overlapped, op = "importBuffer" => Import(t),
               op = "freeBuffer" => Free(t), op = "lock" => Lock(t),
               op = "unlock" => Unlock(t), op = "flushLockedBuffer" => Flush(t)
        PROVE  OneCall' /\ CallsRight' /\ BuffersRight'
    <2> DEFINE h == call[t].h
    <2>1. OneCall /\ CallsRight /\ BuffersRight /\ Busy(t) /\ h \in Handle
      BY <1>4, IdleFormed DEF Dispatched, SInv, Busy, IInv, CallsFormed
    <2>2. OneCall' /\ CallsRight'
      BY <1>4, <2>1, NoneLeft DEF Returned, IInv
    <2>3. CallRight(t) /\ call[t].op = op /\ mBackend = OwnBackend(h) /\ OwnBackend(h) \in Types
      BY <1>4, <2>1, OwnIsSelected DEF CallsRight, CallRight, Dispatched
    <2>4. \A g \in Handle : BufferRight(g)
      BY <2>1 DEF BuffersRight
    <2>5. CASE op = "importBuffer"
      <3>1. /\ managed' = [managed EXCEPT ![mBackend] = @ \cup {h}]
            /\ client' = [client EXCEPT ![h] = "held"] /\ UNCHANGED <<locked, holds>>
            /\ client[h] = "importing"
        BY <1>4, <2>3, <2>5 DEF Import, CallRight
      <3>2. \A k \in Types : h \notin managed[k]
        BY <2>1, <3>1 DEF IInv, ImportingUnmanaged
      <3>3. ASSUME NEW g \in Handle PROVE BufferRight(g)'
        BY <2>1, <2>3, <2>4, <3>1, <3>2 DEF BufferRight, OwnBackend, IInv, TypeOK
      <3> QED
        BY <2>2, <3>3 DEF BuffersRight
    <2>6. CASE op = "freeBuffer"
      <3>1. /\ managed' = [managed EXCEPT ![mBackend] = @ \ {h}]
            /\ locked' = [locked EXCEPT ![mBackend] = @ \ {h}]
            /\ client' = [client EXCEPT ![h] = "freed"] /\ UNCHANGED holds
            /\ client[h] = "held" /\ h \notin holds
        BY <1>4, <2>3, <2>6 DEF Free, CallRight
      <3>2. ASSUME NEW g \in Handle PROVE BufferRight(g)'
        BY <2>1, <2>3, <2>4, <3>1 DEF BufferRight, OwnBackend, IInv, TypeOK
      <3> QED
        BY <2>2, <3>2 DEF BuffersRight
    <2>7. CASE op = "lock"
      <3>1. /\ locked' = [locked EXCEPT ![mBackend] = @ \cup {h}] /\ holds' = holds \cup {h}
            /\ UNCHANGED <<managed, client>> /\ client[h] = "held"
        BY <1>4, <2>3, <2>7 DEF Lock, CallRight
      <3>2. ASSUME NEW g \in Handle PROVE BufferRight(g)'
        BY <2>1, <2>3, <2>4, <3>1 DEF BufferRight, OwnBackend, IInv, TypeOK
      <3> QED
        BY <2>2, <3>2 DEF BuffersRight
    <2>8. CASE op = "unlock"
      <3>1. /\ locked' = [locked EXCEPT ![mBackend] = @ \ {h}] /\ holds' = holds \ {h}
            /\ UNCHANGED <<managed, client>> /\ client[h] = "held"
        BY <1>4, <2>3, <2>8 DEF Unlock, CallRight
      <3>2. ASSUME NEW g \in Handle PROVE BufferRight(g)'
        BY <2>1, <2>3, <2>4, <3>1 DEF BufferRight, OwnBackend, IInv, TypeOK
      <3> QED
        BY <2>2, <3>2 DEF BuffersRight
    <2>9. CASE op = "flushLockedBuffer"
      <3>1. UNCHANGED <<managed, locked, client, holds>>
        BY <1>4, <2>9 DEF Flush
      <3> QED
        BY <2>2, <2>4, <3>1 DEF BuffersRight, BufferRight, OwnBackend
    <2> QED
      BY <2>5, <2>6, <2>7, <2>8, <2>9 DEF Ops
  <1>5. ASSUME NEW t \in Thread, Crash(t)
        PROVE  FALSE
    <2>1. call[t].step = "dispatch" /\ mBackend \notin ready /\ ~overlapped
      BY <1>5 DEF Crash
    <2>2. CallRight(t)
      BY <2>1, IdleFormed DEF SInv, CallsRight, Busy
    <2> QED
      BY <2>1, <2>2 DEF CallRight
  <1>6. ASSUME NEW t \in Thread, Import(t) \/ Free(t) \/ Lock(t) \/ Unlock(t) \/ Flush(t)
        PROVE  OneCall' /\ CallsRight' /\ BuffersRight'
    <2>1. PICK op \in Ops :
            /\ Dispatched(t, op) /\ Returned(t) /\ overlapped' = overlapped
            /\ op = "importBuffer" => Import(t) 
            /\ op = "freeBuffer" => Free(t)
            /\ op = "lock" => Lock(t)
            /\ op = "unlock" => Unlock(t)
            /\ op = "flushLockedBuffer" => Flush(t)
      BY <1>6 DEF Import, Free, Lock, Unlock, Flush, Dispatched, Ops
    <2> QED
      BY <2>1, <1>4
  <1> QED
    BY <1>0, <1>1, <1>2, <1>3, <1>5, <1>6 DEF Next

(* Calls one at a time, in whatever order: every buffer is managed, locked  *)
(* and freed in its own backend, which is initialised by then.              *)
THEOREM SerialCallsReachOwnBackend == Spec => []SerialCallsAgree
PROOF
  <1>1. IInv /\ SInv => SerialCallsAgree
    <2> SUFFICES ASSUME IInv, SInv, ~overlapped
                 PROVE  ManagedByOwn /\ FreedIsGone /\ LocksAgree /\ NeverCrashed
      BY DEF SerialCallsAgree
    <2>1. ManagedByOwn /\ FreedIsGone /\ LocksAgree
      BY DEF SInv, BuffersRight, BufferRight, ManagedByOwn, FreedIsGone, LocksAgree
    <2>2. NeverCrashed
      BY IdleFormed DEF SInv, CallsRight, CallRight, Busy, NeverCrashed
    <2> QED
      BY <2>1, <2>2
  <1>2. Spec => []SInv
    BY SInvInit, SInvNext, Invariance, PTL DEF Spec
  <1> QED
    BY <1>1, <1>2, Invariance, PTL
=============================================================================
