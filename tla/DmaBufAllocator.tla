--------------------------- MODULE DmaBufAllocator ---------------------------
(***************************************************************************)
(* The allocator service's DMA-BUF backend: binder threads in              *)
(* AllocatorBackendDmaBuf::allocate2. A request for n buffers takes n      *)
(* buffers from the system heap, then duplicates the descriptor of each    *)
(* into the reply and closes the one of the handle. When a buffer cannot   *)
(* be made the request fails, and those made before it stay.               *)
(*                                                                         *)
(* The heap and the descriptor table are the kernel's: an allocation may   *)
(* fail whenever there is memory or not, and fails when no descriptor is   *)
(* left or nothing is asked for. Descriptor 0 is open in every service, so *)
(* that the test fd <= 0 is that for a failure. No request is refused: who *)
(* calls allocate2 need not have asked isSupported.                        *)
(***************************************************************************)
EXTENDS Integers, Sequences, FiniteSets

CONSTANTS
  Thread,   \* binder threads
  Fd,       \* the descriptors the service may open
  NoFd,     \* -1
  Mem,      \* the heap's buffers
  NoMem,    \* what a closed descriptor names
  Requests, \* descriptors clients send, and how many buffers they ask for
  Int32     \* how many values an int32_t has: 2^32, fewer for TLC

NoRequest == [width |-> 0, height |-> 0, count |-> 0]

ASSUME DmaBufAllocatorAssumption ==
  /\ NoFd \notin Fd /\ NoMem \notin Mem
  /\ Int32 \in Nat \ {0} /\ Int32 % 2 = 0
  /\ Requests \subseteq [width: 0..(Int32 \div 2 - 1), height: 0..(Int32 \div 2 - 1), count: Nat]

VARIABLES
  fds,    \* what each descriptor names
  size,   \* bytes of each buffer
  req,    \* the request each thread serves
  lost    \* history: descriptors of handles that failed requests have left

vars == <<fds, size, req, lost>>

-----------------------------------------------------------------------------
Steps == {"idle", "make", "publish", "close", "reply"}

Request == [step: Steps,
            ask: Requests \cup {NoRequest},
            todo: Nat,                    \* buffers still to make
            handles: Seq(Fd),             \* prime_fd of those not released
            out: Seq(Fd \cup {NoFd}),     \* outResult->buffers
            stride: Nat,                  \* outResult->stride
            failed: BOOLEAN]

Idle == [step |-> "idle", ask |-> NoRequest, todo |-> 0, handles |-> <<>>, out |-> <<>>,
         stride |-> 0, failed |-> FALSE]

Init ==
  /\ fds = [f \in Fd |-> NoMem]
  /\ size = [m \in Mem |-> 0]
  /\ req = [t \in Thread |-> Idle]
  /\ lost = {}

ClosedFds == {f \in Fd : fds[f] = NoMem}
FreshMem  == {m \in Mem : \A f \in Fd : fds[f] # m}

(* The product of two int32_t, which wraps around.                          *)
buffer_size(r) ==
  LET bytes == (r.width * r.height) % Int32
  IN IF bytes < Int32 \div 2 THEN bytes ELSE bytes - Int32

(* Both in the handle and in the reply.                                     *)
stride(r) == r.width \div 8

(* From one buffer to the next, from making to publishing, to the end.      *)
PublishNext(r) == [r EXCEPT !.step = IF r.handles = <<>> THEN "reply" ELSE "publish",
                            !.stride = stride(r.ask)]

MakeNext(r) == IF r.todo = 0 THEN PublishNext(r) ELSE [r EXCEPT !.step = "make"]

TakeRequest(t, r) ==
  /\ req[t] = Idle
  /\ req' = [req EXCEPT ![t] = MakeNext([Idle EXCEPT !.ask = r, !.todo = r.count])]
  /\ UNCHANGED <<fds, size, lost>>

(* gralloc_handle_create and AllocSystem. A negative size is, as a size_t,  *)
(* more than there is memory.                                               *)
Make(t) ==
  LET r == req[t] IN
  /\ r.step = "make"
  /\ buffer_size(r.ask) > 0
  /\ \E f \in ClosedFds, m \in FreshMem :
       /\ fds' = [fds EXCEPT ![f] = m]
       /\ size' = [size EXCEPT ![m] = buffer_size(r.ask)]
       /\ req' = [req EXCEPT ![t] = MakeNext([r EXCEPT !.todo = @ - 1,
                                                       !.handles = Append(@, f)])]
  /\ UNCHANGED lost

(* Faulty variants: the allocation is tried again; what there is so far is  *)
(* published as the result.                                                 *)
MakeFailRetries(t) ==
  /\ req[t].step = "make"
  /\ UNCHANGED vars

MakeFailPublishes(t) ==
  /\ req[t].step = "make"
  /\ req' = [req EXCEPT ![t] = PublishNext([@ EXCEPT !.todo = 0])]
  /\ UNCHANGED <<fds, size, lost>>

(* NO_RESOURCES: the vector of handles goes out of scope, the handles and   *)
(* their descriptors do not.                                                *)
MakeFail(t) ==
  LET made == req[t].handles IN
  /\ req[t].step = "make"
  /\ req' = [req EXCEPT ![t] = [@ EXCEPT !.step = "reply", !.failed = TRUE, !.todo = 0,
                                         !.handles = <<>>]]
  /\ lost' = lost \cup {made[i] : i \in DOMAIN made}
  /\ UNCHANGED <<fds, size>>

(* Faulty variant: the reply shows the handle's own descriptor.             *)
PublishShared(t) ==
  /\ req[t].step = "publish"
  /\ req' = [req EXCEPT ![t].step = "close", ![t].out = Append(@, Head(req[t].handles))]
  /\ UNCHANGED <<fds, size, lost>>

(* dupToAidl of the first handle left; -1 when no descriptor is.            *)
Publish(t) ==
  LET r == req[t] IN
  /\ r.step = "publish"
  /\ \E f \in IF ClosedFds = {} THEN {NoFd} ELSE ClosedFds :
       /\ fds' = IF f = NoFd THEN fds ELSE [fds EXCEPT ![f] = fds[Head(r.handles)]]
       /\ req' = [req EXCEPT ![t].step = "close", ![t].out = Append(@, f)]
  /\ UNCHANGED <<size, lost>>

(* Faulty variant: the handle is deleted and not closed.                    *)
CloseSkipped(t) ==
  /\ req[t].step = "close"
  /\ req' = [req EXCEPT ![t] = PublishNext([req[t] EXCEPT !.handles = Tail(@)])]
  /\ UNCHANGED <<fds, size, lost>>

(* native_handle_close, native_handle_delete.                               *)
Close(t) ==
  /\ req[t].step = "close"
  /\ fds' = [fds EXCEPT ![Head(req[t].handles)] = NoMem]
  /\ req' = [req EXCEPT ![t] = PublishNext([req[t] EXCEPT !.handles = Tail(@)])]
  /\ UNCHANGED <<size, lost>>

(* The reply is sent; its descriptors are closed in the service.            *)
Shown(t) == {req[t].out[i] : i \in DOMAIN req[t].out} \ {NoFd}
Reply(t) ==
  /\ req[t].step = "reply"
  /\ fds' = [f \in Fd |-> IF f \in Shown(t) THEN NoMem ELSE fds[f]]
  /\ req' = [req EXCEPT ![t] = Idle]
  /\ UNCHANGED <<size, lost>>

Serve(t) == Make(t) \/ MakeFail(t) \/ Publish(t) \/ Close(t) \/ Reply(t)

Next == \E t \in Thread : Serve(t) \/ \E r \in Requests : TakeRequest(t, r)

Spec == Init /\ [][Next]_vars

(* A binder thread that serves a request keeps running.                     *)
FairSpec == Spec /\ \A t \in Thread : WF_vars(Serve(t))

-----------------------------------------------------------------------------
(* The variables have their types.                                          *)
TypeOK ==
  /\ fds \in [Fd -> Mem \cup {NoMem}]
  /\ size \in [Mem -> Nat]
  /\ req \in [Thread -> Request]
  /\ lost \subseteq Fd

(* "Release buffer and handle" (AllocatorDmaBuf.cpp:78): a request that     *)
(* succeeds leaves no descriptor open, and all that is open belongs to a    *)
(* request being served or was left by one that failed.                     *)
OfRequest(t) == Shown(t) \cup {req[t].handles[i] : i \in DOMAIN req[t].handles}
OpenAccounted ==
  Fd \ ClosedFds = lost \cup UNION {OfRequest(t) : t \in Thread}

(* The reply of a request shows open descriptors, each of its own memory,   *)
(* none that another reply or an abandoned handle has.                      *)
RepliesDistinct ==
  /\ \A t \in Thread : Shown(t) \cap (ClosedFds \cup lost) = {}
  /\ \A t, u \in Thread : \A f \in Shown(t), g \in Shown(u) :
       fds[f] = fds[g] => t = u /\ f = g

(* An answer has as many buffers as were asked for, or is an error and has  *)
(* none.                                                                    *)
CompleteOrFailed == \A t \in Thread : req[t].step = "reply" =>
  IF req[t].failed THEN req[t].out = <<>> ELSE Len(req[t].out) = req[t].ask.count

(* "1 Byte (8 bits) per pixel" (AllocatorDmaBuf.cpp:63): the buffers of a   *)
(* reply have a byte for every pixel of the descriptor.                     *)
BufferHoldsRequest == \A t \in Thread : req[t].step = "reply" =>
  \A f \in Shown(t) : size[fds[f]] >= req[t].ask.width * req[t].ask.height

(* gralloc_handle.h:62 "the stride in bytes", of one byte per pixel.        *)
StrideInBytes == \A t \in Thread :
  req[t].step = "reply" /\ ~req[t].failed => req[t].stride = req[t].ask.width

(* Every request is answered, whatever other threads take and leave.        *)
RequestsAnswered == \A t \in Thread : req[t].step # "idle" ~> req[t].step = "idle"
=============================================================================
