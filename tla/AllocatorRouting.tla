--------------------------- MODULE AllocatorRouting ---------------------------
(***************************************************************************)
(* GrallocGenericAllocatorV2: how a binder call reaches a backend. Every   *)
(* allocate2 and isSupported first selects the backend that supports the   *)
(* descriptor and leaves it in the member mBackend, then calls through     *)
(* mBackend. The member is shared by all binder threads with no lock, and  *)
(* it owns the backend: the objects are made by fetchBackend* and live     *)
(* while mBackend or a local shared_ptr refers to them; the static weak    *)
(* pointers only find a live one again.                                    *)
(***************************************************************************)
EXTENDS FiniteSets

CONSTANTS
  Thread,    \* binder threads
  Id,        \* tell apart backend objects of one class
  NoObj,     \* nullptr
  Desc,      \* buffer descriptors
  NoDesc

Types == {"gbm", "dmabuf"}
Obj == [type: Types, id: Id]
Ops == {"allocate2", "isSupported"}

(* blob and linear: PixelFormat::BLOB, height 1. gbm: the descriptor        *)
(* converts and gralloc_gbm_is_allocator_desc_supported accepts it, which   *)
(* it never does for BLOB: the format table has no GBM format for it.       *)
ASSUME RoutingAssumption ==
  /\ NoObj \notin Obj
  /\ Desc \subseteq {d \in [blob: BOOLEAN, linear: BOOLEAN, gbm: BOOLEAN] : ~(d.blob /\ d.gbm)}
  /\ NoDesc \notin Desc

VARIABLES
  mBackend,   \* the member
  weak,       \* the static weak_ptr in each fetchBackend*
  call,       \* the call each binder thread executes, or has executed last
  overlapped  \* history: have two calls been in progress at once?

vars == <<mBackend, weak, call, overlapped>>

-----------------------------------------------------------------------------
CallState == [step: {"gbm", "dmabuf", "dispatch", "in_backend", "done"},
              op: Ops, desc: Desc \cup {NoDesc},
              backend: Obj \cup {NoObj},   \* the local shared_ptr, later `this`
              result: {"none", "error", "success", "true", "false"},
              by: Types \cup {"none"}]     \* who gave the result

Started(op, d) == [step |-> "gbm", op |-> op, desc |-> d, backend |-> NoObj,
                   result |-> "none", by |-> "none"]
Idle == [Started("allocate2", NoDesc) EXCEPT !.step = "done"]

TypeOK ==
  /\ mBackend \in Obj \cup {NoObj}
  /\ weak \in [Types -> Obj \cup {NoObj}]
  /\ call \in [Thread -> CallState]
  /\ overlapped \in BOOLEAN

(* init() has made both backends ready and let the objects go.              *)
Init ==
  /\ mBackend = NoObj
  /\ weak = [k \in Types |-> NoObj]
  /\ call = [t \in Thread |-> Idle]
  /\ overlapped = FALSE

-----------------------------------------------------------------------------
(* What the isSupported of each backend answers.                            *)
GbmSupports(d)    == ~d.blob /\ d.gbm
DmaBufSupports(d) == d.blob /\ d.linear
Supports(k, d) == IF k = "gbm" THEN GbmSupports(d) ELSE DmaBufSupports(d)
Supported(d) == \E k \in Types : Supports(k, d)

(* Owners of an object: the member, and the locals of selectBackend. An     *)
(* object without one is destroyed.                                         *)
Owned(o) == \/ mBackend = o
            \/ \E t \in Thread : call[t].step \in Types /\ call[t].backend = o

InUse(o) == Owned(o) \/ \E t \in Thread : call[t].backend = o

(* fetchBackendGrallocGbm, fetchBackendDmaBuf: the object the weak pointer  *)
(* leads to while it has an owner, else a new one.                          *)
Fetched(k) == IF weak[k] # NoObj /\ Owned(weak[k]) THEN {weak[k]}
              ELSE {o \in Obj : o.type = k /\ ~InUse(o)}

Goto(t, c) == call' = [call EXCEPT ![t] = c]

(* allocate2 or isSupported, up to the first object selectBackend fetches.  *)
(* An isSupported with non-standard options answers no before it gets here. *)
Enter(t, op, d) ==
  /\ call[t].step = "done"
  /\ overlapped' = (overlapped \/ \E u \in Thread : call[u].step # "done")
  /\ \E o \in Fetched("gbm") :
       /\ weak' = [weak EXCEPT !["gbm"] = o]
       /\ Goto(t, [Started(op, d) EXCEPT !.backend = o])
  /\ UNCHANGED mBackend

(* Faulty variant: mBackend is assigned once.                               *)
SelectOnce(t, k) ==
  LET c == call[t] IN
  /\ c.step = k
  /\ Supports(k, c.desc)
  /\ mBackend' = IF mBackend = NoObj THEN c.backend ELSE mBackend
  /\ Goto(t, [c EXCEPT !.step = "dispatch", !.backend = NoObj])
  /\ UNCHANGED <<weak, overlapped>>

(* selectBackend with the backend of class k at hand, which supports the    *)
(* descriptor and becomes mBackend.                                         *)
Select(t, k) ==
  LET c == call[t] IN
  /\ c.step = k
  /\ Supports(k, c.desc)
  /\ mBackend' = c.backend
  /\ Goto(t, [c EXCEPT !.step = "dispatch", !.backend = NoObj])
  /\ UNCHANGED <<weak, overlapped>>

TryDmaBuf(t) ==
  LET c == call[t] IN
  /\ c.step = "gbm"
  /\ ~Supports("gbm", c.desc)
  /\ \E o \in Fetched("dmabuf") :
       /\ weak' = [weak EXCEPT !["dmabuf"] = o]
       /\ Goto(t, [c EXCEPT !.step = "dmabuf", !.backend = o])
  /\ UNCHANGED <<mBackend, overlapped>>

(* Faulty variant: mBackend is reset when no backend supports the call.     *)
SelectNoneResets(t) ==
  LET c == call[t] IN
  /\ c.step = "dmabuf"
  /\ ~Supports("dmabuf", c.desc)
  /\ mBackend' = NoObj
  /\ Goto(t, [c EXCEPT !.step = "dispatch", !.backend = NoObj])
  /\ UNCHANGED <<weak, overlapped>>

(* Neither does: -EINVAL, which the caller drops. mBackend stays what an    *)
(* earlier call made it.                                                    *)
SelectNone(t) ==
  LET c == call[t] IN
  /\ c.step = "dmabuf"
  /\ ~Supports("dmabuf", c.desc)
  /\ Goto(t, [c EXCEPT !.step = "dispatch", !.backend = NoObj])
  /\ UNCHANGED <<mBackend, weak, overlapped>>

(* CHECK_BACKEND, then the call through mBackend as it is now: once set it  *)
(* is never null again, and both backends stay ready, so that the check and *)
(* the call are one step. The method runs on a bare `this`: a call owns     *)
(* nothing.                                                                 *)
NoBackend(t) ==
  /\ call[t].step = "dispatch"
  /\ mBackend = NoObj
  /\ Goto(t, [call[t] EXCEPT !.step = "done", !.result = "error"])
  /\ UNCHANGED <<mBackend, weak, overlapped>>

Dispatch(t) ==
  /\ call[t].step = "dispatch"
  /\ mBackend # NoObj
  /\ Goto(t, [call[t] EXCEPT !.step = "in_backend", !.backend = mBackend])
  /\ UNCHANGED <<mBackend, weak, overlapped>>

(* Faulty variant: the DMA-BUF isSupported does not look at the height.     *)
ResultsAnyBlob(c) ==
  IF c.op = "isSupported"
  THEN {IF IF c.backend.type = "gbm" THEN GbmSupports(c.desc) ELSE c.desc.blob
        THEN "true" ELSE "false"}
  ELSE {"error", "success"}

(* The backend's isSupported answers for itself alone; GBM's gives an error *)
(* for a descriptor that does not convert. GBM's allocate2 checks the       *)
(* descriptor again; the DMA-BUF one allocates whatever it is asked. Both   *)
(* may fail for lack of memory.                                             *)
Results(c) ==
  LET k == c.backend.type
      supports == Supports(k, c.desc)
  IN
  IF c.op = "isSupported"
  THEN IF supports THEN {"true"}
       ELSE {"false"} \cup IF k = "gbm" /\ ~c.desc.blob THEN {"error"} ELSE {}
  ELSE {"error"} \cup IF k = "gbm" => supports THEN {"success"} ELSE {}

Return(t) ==
  LET c == call[t] IN
  /\ c.step = "in_backend"
  /\ \E result \in Results(c) :
       Goto(t, [c EXCEPT !.step = "done", !.backend = NoObj,
                         !.result = result, !.by = c.backend.type])
  /\ UNCHANGED <<mBackend, weak, overlapped>>

Next == \E t \in Thread :
  \/ \E op \in Ops, d \in Desc : Enter(t, op, d)
  \/ \E k \in Types : Select(t, k)
  \/ TryDmaBuf(t) \/ SelectNone(t) \/ NoBackend(t) \/ Dispatch(t) \/ Return(t)

Spec == Init /\ [][Next]_vars

-----------------------------------------------------------------------------
(* "shared-singleton" backends: the object a call runs on is not destroyed  *)
(* under it. The last owner may be a mBackend that another thread's         *)
(* selectBackend assigns.                                                   *)
BackendAlive == \A t \in Thread :
                  call[t].step = "in_backend" => Owned(call[t].backend)

(* As long as calls come one at a time: a result is given by the backend    *)
(* that supports the descriptor, when one does, so that what is left in     *)
(* mBackend by earlier calls plays no part ...                              *)
SupporterAnswers == ~overlapped => \A t \in Thread :
  call[t].step = "done" /\ call[t].desc # NoDesc /\ Supported(call[t].desc) =>
    call[t].by \in Types /\ Supports(call[t].by, call[t].desc)

(* ... and isSupported says no only of descriptors that no backend supports.*)
NoMeansNo == ~overlapped => \A t \in Thread :
  call[t].result = "false" => ~Supported(call[t].desc)

(* isSupported says yes only of descriptors some backend supports, whoever  *)
(* changes mBackend in between.                                             *)
YesMeansYes == \A t \in Thread :
  call[t].result = "true" => Supported(call[t].desc)

(* A supported descriptor is never refused for want of a backend: mBackend, *)
(* once set, is only ever replaced.                                         *)
NeverWithoutBackend == \A t \in Thread :
  call[t].step = "done" /\ call[t].desc # NoDesc /\ Supported(call[t].desc)
    => call[t].by # "none"

(* "We currently ONLY support Linear BLOB": the DMA-BUF backend allocates   *)
(* nothing else.                                                            *)
OnlyLinearBlob == \A t \in Thread :
  call[t].result = "success" /\ call[t].by = "dmabuf"
    => call[t].desc.blob /\ call[t].desc.linear
=============================================================================
