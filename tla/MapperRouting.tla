---------------------------- MODULE MapperRouting ----------------------------
(***************************************************************************)
(* GrallocGenericMapperV5: how the calls of a process reach a backend.     *)
(* Every call first assigns the backend of its buffer to the member        *)
(* mBackend (selectBackend), then makes it ready (CHECK_BACKEND), then     *)
(* calls through it. The member is shared by all threads with no lock.     *)
(*                                                                         *)
(* The backends keep their state in files of their own, so that their      *)
(* objects are interchangeable here; that state is the handles each one    *)
(* manages and has locked, and a backend's method is one step (GbmMapper   *)
(* and MapperDmaBuf have the steps of the methods).                        *)
(***************************************************************************)
EXTENDS FiniteSets

CONSTANTS
  Thread,   \* client threads
  Handle,   \* clones of handles
  Content,  \* what the buffer of each handle is
  NoHandle

(* A blob of one line, a blob of more, any other format.                    *)
Contents == {"line", "sheet", "image"}
Types == {"gbm", "dmabuf"}

ASSUME MapperRoutingAssumption ==
  /\ Content \in [Handle -> Contents]
  /\ NoHandle \notin Handle

VARIABLES
  mBackend,  \* the member: a class, or none for nullptr
  ready,     \* the backends that are initialised in this process
  managed,   \* handles each backend manages
  locked,    \* those with a lock in the backend (one lock per handle here)
  client,    \* what clients know of a handle: new, importing, held, freed
  holds,     \* handles clients have locked
  call,      \* the call each thread is in
  overlapped \* history: have two calls been in progress at once?

vars == <<mBackend, ready, managed, locked, client, holds, call, overlapped>>

-----------------------------------------------------------------------------
Ops == {"importBuffer", "freeBuffer", "lock", "unlock", "flushLockedBuffer"}
CallState == [step: {"idle", "check", "dispatch", "crashed"}, op: Ops \cup {"none"},
              h: Handle \cup {NoHandle}]
Idle == [step |-> "idle", op |-> "none", h |-> NoHandle]

Init ==
  /\ mBackend = "none"
  /\ ready = {}
  /\ managed = [k \in Types |-> {}]
  /\ locked = [k \in Types |-> {}]
  /\ client = [h \in Handle |-> "new"]
  /\ holds = {}
  /\ call = [t \in Thread |-> Idle]
  /\ overlapped = FALSE

InCall(h) == \E t \in Thread : call[t].h = h
Busy(t)   == call[t] # Idle

(* What clients call: importBuffer on a handle they were sent, the others   *)
(* on one that importBuffer returned; unlock after a lock, lock once, calls *)
(* on one handle one at a time.                                             *)
MayCall(t, op, h) ==
  /\ ~Busy(t) /\ ~InCall(h)
  /\ CASE op = "importBuffer" -> client[h] = "new"
       [] op = "unlock"       -> client[h] = "held" /\ h \in holds
       [] op = "flushLockedBuffer" -> client[h] = "held"
       [] OTHER               -> client[h] = "held" /\ h \notin holds

(* Faulty variant: the height of a blob is not looked at.                   *)
SelectedForBlob(h) == IF Content[h] \in {"line", "sheet"} THEN "dmabuf" ELSE "gbm"

Selected(h) == IF Content[h] = "line" THEN "dmabuf" ELSE "gbm"

(* A call comes in: selectBackend.                                          *)
Enter(t, op, h) ==
  /\ MayCall(t, op, h)
  /\ mBackend' = Selected(h)
  /\ client' = [client EXCEPT ![h] = IF op = "importBuffer" THEN "importing" ELSE @]
  /\ call' = [call EXCEPT ![t] = [step |-> "check", op |-> op, h |-> h]]
  /\ overlapped' = (overlapped \/ \E u \in Thread : Busy(u))
  /\ UNCHANGED <<ready, managed, locked, holds>>

(* A failed importBuffer closes the clone it made; another may be made.     *)
Failed(t) ==
  /\ client' = [client EXCEPT ![call[t].h] = IF @ = "importing" THEN "new" ELSE @]
  /\ call' = [call EXCEPT ![t] = Idle]

(* CHECK_BACKEND of mBackend as it is now, which is never null here.        *)
Check(t) ==
  /\ call[t].step = "check"
  /\ ready' = ready \cup {mBackend}
  /\ call' = [call EXCEPT ![t].step = "dispatch"]
  /\ UNCHANGED <<mBackend, managed, locked, client, holds, overlapped>>

(* gralloc_gbm_init fails, the DMA-BUF backend's init does not.             *)
CheckFail(t) ==
  /\ call[t].step = "check"
  /\ mBackend = "gbm" /\ "gbm" \notin ready
  /\ Failed(t)
  /\ UNCHANGED <<mBackend, ready, managed, locked, holds, overlapped>>

-----------------------------------------------------------------------------
(* The backends' methods, on mBackend as it is now.                         *)
Dispatched(t, op) == call[t].step = "dispatch" /\ call[t].op = op
Returned(t) == call' = [call EXCEPT ![t] = Idle]

(* Faulty variant: GBM imports a blob as bytes.                             *)
ImportAny(t) ==
  LET h == call[t].h IN
  /\ Dispatched(t, "importBuffer")
  /\ managed' = [managed EXCEPT ![mBackend] = @ \cup {h}]
  /\ client' = [client EXCEPT ![h] = "held"]
  /\ Returned(t)
  /\ UNCHANGED <<mBackend, ready, locked, holds, overlapped>>

(* GBM imports no blob, there is no GBM format for it, and nothing while it *)
(* is not initialised. DMA-BUF imports whatever it is given.                *)
Import(t) ==
  LET h == call[t].h IN
  /\ Dispatched(t, "importBuffer")
  /\ mBackend = "gbm" => Content[h] = "image" /\ "gbm" \in ready
  /\ managed' = [managed EXCEPT ![mBackend] = @ \cup {h}]
  /\ client' = [client EXCEPT ![h] = "held"]
  /\ Returned(t)
  /\ UNCHANGED <<mBackend, ready, locked, holds, overlapped>>

(* Faulty variant: the import fails with the buffer in the table already.   *)
ImportFailKeeps(t) ==
  /\ Dispatched(t, "importBuffer")
  /\ mBackend = "gbm"
  /\ managed' = [managed EXCEPT !["gbm"] = @ \cup {call[t].h}]
  /\ Failed(t)
  /\ UNCHANGED <<mBackend, ready, locked, holds, overlapped>>

ImportFail(t) ==
  /\ Dispatched(t, "importBuffer")
  /\ mBackend = "gbm"
  /\ Failed(t)
  /\ UNCHANGED <<mBackend, ready, managed, locked, holds, overlapped>>

(* GBM says it has freed a buffer it does not know; DMA-BUF returns -EINVAL *)
(* for one. A client whose freeBuffer fails keeps the handle.               *)
Free(t) ==
  LET h == call[t].h IN
  /\ Dispatched(t, "freeBuffer")
  /\ mBackend \in ready \cup {"dmabuf"}
  /\ h \in managed[mBackend] \/ mBackend = "gbm"
  /\ managed' = [managed EXCEPT ![mBackend] = @ \ {h}]
  /\ locked' = [locked EXCEPT ![mBackend] = @ \ {h}]
  /\ client' = [client EXCEPT ![h] = "freed"]
  /\ Returned(t)
  /\ UNCHANGED <<mBackend, ready, holds, overlapped>>

FreeFail(t) ==
  LET h == call[t].h IN
  /\ Dispatched(t, "freeBuffer")
  /\ IF mBackend = "gbm" THEN "gbm" \notin ready ELSE h \notin managed["dmabuf"]
  /\ Failed(t)
  /\ UNCHANGED <<mBackend, ready, managed, locked, holds, overlapped>>

(* lock may always fail: the usage, no memory, not managed.                 *)
Lock(t) ==
  LET h == call[t].h IN
  /\ Dispatched(t, "lock")
  /\ mBackend \in ready /\ h \in managed[mBackend]
  /\ locked' = [locked EXCEPT ![mBackend] = @ \cup {h}]
  /\ holds' = holds \cup {h}
  /\ Returned(t)
  /\ UNCHANGED <<mBackend, ready, managed, client, overlapped>>

LockFail(t) ==
  /\ Dispatched(t, "lock")
  /\ mBackend \in ready \/ call[t].h \notin managed[mBackend]
  /\ Failed(t)
  /\ UNCHANGED <<mBackend, ready, managed, locked, holds, overlapped>>

(* unlock of GBM looks the buffer up, that of DMA-BUF does not.             *)
Unlock(t) ==
  LET h == call[t].h IN
  /\ Dispatched(t, "unlock")
  /\ IF mBackend = "gbm" THEN h \in managed["gbm"] ELSE "dmabuf" \in ready
  /\ locked' = [locked EXCEPT ![mBackend] = @ \ {h}]
  /\ holds' = holds \ {h}
  /\ Returned(t)
  /\ UNCHANGED <<mBackend, ready, managed, client, overlapped>>

UnlockFail(t) ==
  /\ Dispatched(t, "unlock")
  /\ mBackend = "gbm" /\ call[t].h \notin managed["gbm"]
  /\ Failed(t)
  /\ UNCHANGED <<mBackend, ready, managed, locked, holds, overlapped>>

(* flushLockedBuffer, and here the other calls after which no backend has   *)
(* other handles or locks: rereadLockedBuffer, getStandardMetadata and      *)
(* setStandardMetadata. What they leave is mBackend.                        *)
Flush(t) ==
  /\ Dispatched(t, "flushLockedBuffer")
  /\ Returned(t)
  /\ UNCHANGED <<mBackend, ready, managed, locked, client, holds, overlapped>>

(* CpuSyncStart or CpuSyncEnd through the null `allocator` of MapperDmaBuf. *)
Crash(t) ==
  /\ call[t].step = "dispatch"
  /\ mBackend = "dmabuf" /\ "dmabuf" \notin ready
  /\ \/ call[t].op = "lock" /\ call[t].h \in managed["dmabuf"]
     \/ call[t].op = "unlock"
  /\ call' = [call EXCEPT ![t].step = "crashed"]
  /\ UNCHANGED <<mBackend, ready, managed, locked, client, holds, overlapped>>

Next == \E t \in Thread :
  \/ \E op \in Ops, h \in Handle : Enter(t, op, h)
  \/ Check(t) \/ CheckFail(t) \/ Import(t) \/ ImportFail(t) \/ Free(t) \/ FreeFail(t)
  \/ Lock(t) \/ LockFail(t) \/ Unlock(t) \/ UnlockFail(t) \/ Flush(t) \/ Crash(t)

Spec == Init /\ [][Next]_vars

-----------------------------------------------------------------------------
(* The variables have their types; mBackend is null until the first call    *)
(* only.                                                                    *)
TypeOK ==
  /\ mBackend \in Types \cup {"none"}
  /\ ready \subseteq Types
  /\ managed \in [Types -> SUBSET Handle]
  /\ locked \in [Types -> SUBSET Handle]
  /\ client \in [Handle -> {"new", "importing", "held", "freed"}]
  /\ holds \subseteq Handle
  /\ call \in [Thread -> CallState]
  /\ \A t \in Thread : Busy(t) => mBackend # "none"
  /\ overlapped \in BOOLEAN

(* README.md:9: "manages graphics buffers by using GBM, manages blob        *)
(* (linear) buffers by using Linux DMA-BUF". A buffer that importBuffer     *)
(* returned is managed by its own backend and no other.                     *)
OwnBackend(h) == IF Content[h] = "line" THEN "dmabuf" ELSE "gbm"
ManagedByOwn ==
  \A h \in Handle : client[h] = "held" /\ ~InCall(h) =>
    \A k \in Types : h \in managed[k] <=> k = OwnBackend(h)

(* After freeBuffer said yes no backend manages the buffer.                 *)
FreedIsGone ==
  \A h \in Handle, k \in Types : client[h] = "freed" => h \notin managed[k]

(* An importBuffer that failed has left nothing behind in any backend: the  *)
(* clone is closed, its descriptor may be the key of another buffer soon.   *)
NewIsUnmanaged ==
  \A h \in Handle, k \in Types : client[h] = "new" => h \notin managed[k]

(* No blob ever gets into GBM's table, whichever backend a call reached.    *)
NoBlobInGbm == \A h \in managed["gbm"] : Content[h] = "image"

(* The locks clients have are the locks the backends have.                  *)
LocksAgree ==
  \A h \in Handle : client[h] = "held" /\ ~InCall(h) =>
    (h \in holds <=> h \in locked[OwnBackend(h)])

(* No call gets to a backend before its init.                               *)
NeverCrashed == \A t \in Thread : call[t].step # "crashed"

(* As long as calls come one at a time, in whatever order and on buffers of *)
(* both kinds, each buffer is managed, locked and freed in its own backend, *)
(* which is initialised by then.                                            *)
SerialCallsAgree ==
  ~overlapped => ManagedByOwn /\ FreedIsGone /\ LocksAgree /\ NeverCrashed
=============================================================================
