---------------------------- MODULE GbmAllocator ----------------------------
(***************************************************************************)
(* The allocator service's GBM backend: binder threads in                  *)
(* AllocatorBackendGrallocGbm::grallocGbmAllocate. A request for n buffers *)
(* makes n BOs, registers each in android_buffer_table, then for each      *)
(* handle puts a duplicate of its descriptor into the reply and releases   *)
(* the BO, the entry and the handle. When a buffer cannot be made, those   *)
(* made before it are released and the request fails. The threads share    *)
(* the table and the descriptors and no lock protects them.                *)
(***************************************************************************)
EXTENDS GrallocGbm, Sequences

CONSTANTS
  Thread,     \* binder threads (Main.cpp: 4, and the joined main thread)
  NoBo,
  Counts,     \* how many buffers a request asks for
  Fails,      \* what may fail besides descriptors: "bo", "entry"
  FdReserve   \* bound: no request is taken with fewer closed descriptors

ASSUME AllocatorAssumption ==
  /\ NoBo \notin Bo
  /\ Counts \subseteq Nat
  /\ Fails \subseteq {"bo", "entry"}
  /\ FdReserve \in Nat

VARIABLES
  req,   \* the request each thread serves
  lost   \* history: BOs whose entry could not be allocated

vars == <<fds, bos, android_buffer_table, req, lost>>

-----------------------------------------------------------------------------
Steps == {"idle", "new_bo", "new_add",
          "free_find", "free_destroy", "free_delete", "close", "reply"}

Request == [step: Steps,
            count: Nat,                     \* buffers asked for
            todo: Nat,                      \* buffers still to make
            handles: Seq(Fd \cup {NoFd}),   \* prime_fd of those not released
            bo: Bo \cup {NoBo},             \* of the buffer being made or released
            fd: Fd \cup {NoFd},             \* prime_fd of the buffer being made
            out: SUBSET (Fd \cup {NoFd}),   \* outResult->buffers
            failed: BOOLEAN]

Idle == [step |-> "idle", count |-> 0, todo |-> 0, handles |-> <<>>, bo |-> NoBo, fd |-> NoFd,
         out |-> {}, failed |-> FALSE]

TypeOK == LibTypeOK /\ req \in [Thread -> Request] /\ lost \subseteq Bo

Init == LibInit /\ req = [t \in Thread |-> Idle] /\ lost = {}

(* Where the loops of grallocGbmAllocate go next: over handles, releasing   *)
(* each, after a failure without publishing it.                             *)
ReleaseNext(r) ==
  [r EXCEPT !.bo = NoBo, !.step = IF r.handles = <<>> THEN "reply" ELSE "free_find"]

MakeNext(r) == IF r.todo = 0 THEN ReleaseNext(r)
               ELSE [r EXCEPT !.bo = NoBo, !.fd = NoFd, !.step = "new_bo"]

(* Faulty variants: the buffers made so far are forgotten; or published.    *)
RollbackForgets(r) == [Idle EXCEPT !.step = "reply", !.failed = TRUE]
RollbackPublishes(r) == ReleaseNext([r EXCEPT !.todo = 0, !.fd = NoFd])

Rollback(r) == ReleaseNext([r EXCEPT !.failed = TRUE, !.todo = 0, !.fd = NoFd])

TakeRequest(t, n) ==
  /\ req[t] = Idle
  /\ Cardinality(ClosedFds) >= FdReserve
  /\ req' = [req EXCEPT ![t] = MakeNext([Idle EXCEPT !.count = n, !.todo = n])]
  /\ UNCHANGED <<fds, bos, android_buffer_table, lost>>

-----------------------------------------------------------------------------
(* gralloc_gbm_android_buffer_new. Memory is fresh when this process has    *)
(* neither a descriptor nor a BO for it.                                    *)
FreshBufs == Pick({b \in Buf : /\ \A f \in Fd : fds[f] # b
                               /\ \A bo \in Bo : bos[bo].buf # b})

(* ghandle->prime_fd = gbm_bo_get_fd(bo), with no check for -1.             *)
NewBO(t) ==
  /\ req[t].step = "new_bo"
  /\ \E bo \in FreshBos, b \in FreshBufs, f \in FreshFds :
       /\ gbm_bo_create(bo, b)
       /\ fds' = Opened(f, b)
       /\ req' = [req EXCEPT ![t].bo = bo, ![t].fd = f, ![t].step = "new_add"]
  /\ UNCHANGED <<android_buffer_table, lost>>

NewBOFail(t) ==
  /\ req[t].step = "new_bo"
  /\ "bo" \in Fails
  /\ req' = [req EXCEPT ![t] = Rollback(@)]
  /\ UNCHANGED <<fds, bos, android_buffer_table, lost>>

(* The LOG_D before the return has libgbm open one more descriptor, to      *)
(* print it.                                                                *)
NewAdd(t) ==
  LET r == req[t] IN
  /\ r.step = "new_add"
  /\ add_buffer(r.fd, r.bo)
  /\ \E f \in FreshFds : fds' = Opened(f, bos[r.bo].buf)
  /\ req' = [req EXCEPT ![t] = MakeNext([r EXCEPT !.todo = @ - 1,
                                                  !.handles = Append(@, r.fd)])]
  /\ UNCHANGED <<bos, lost>>

(* calloc of the entry fails: the BO and the handle of this buffer are lost.*)
NewAddFail(t) ==
  /\ req[t].step = "new_add"
  /\ "entry" \in Fails
  /\ req' = [req EXCEPT ![t] = Rollback(@)]
  /\ lost' = lost \cup {req[t].bo}
  /\ UNCHANGED <<fds, bos, android_buffer_table>>

-----------------------------------------------------------------------------
(* The publishing loop and the rollback loop; the first handle left is at   *)
(* the head. dupToAidl duplicates its descriptor into the reply, -1 when it *)
(* has none or none is left. Then gralloc_gbm_android_buffer_free looks the *)
(* entry up (in the same step), and native_handle_close ends the handle.    *)
DuplicatesNone(r) == {Head(r.handles)}   \* faulty: the reply shares the handle's

Duplicates(r) == IF r.failed \/ Head(r.handles) = NoFd THEN {NoFd} ELSE FreshFds

FoundBy(r) == LET found == find_buffer_k(Head(r.handles))
              IN IF found = {} THEN {NoBo} ELSE found

FreeFind(t) ==
  LET r == req[t] IN
  /\ r.step = "free_find"
  /\ \E f \in Duplicates(r), bo \in FoundBy(r) :
       /\ fds' = IF f = NoFd THEN fds ELSE Opened(f, fds[Head(r.handles)])
       /\ req' = [req EXCEPT ![t].out = IF r.failed THEN @ ELSE @ \cup {f},
                             ![t].bo = bo,
                             ![t].step = IF bo = NoBo THEN "close" ELSE "free_destroy"]
  /\ UNCHANGED <<bos, android_buffer_table, lost>>

(* Faulty variants: the BO is not destroyed; native_handle_close before the *)
(* entry is gone.                                                           *)
FreeDestroySkipped(t) ==
  /\ req[t].step = "free_destroy"
  /\ req' = [req EXCEPT ![t].step = "free_delete"]
  /\ UNCHANGED <<fds, bos, android_buffer_table, lost>>

FreeDestroyCloses(t) ==
  /\ req[t].step = "free_destroy"
  /\ gbm_bo_destroy(req[t].bo)
  /\ fds' = Closed(Head(req[t].handles))
  /\ req' = [req EXCEPT ![t].step = "free_delete"]
  /\ UNCHANGED <<android_buffer_table, lost>>

FreeDestroy(t) ==
  /\ req[t].step = "free_destroy"
  /\ gbm_bo_destroy(req[t].bo)
  /\ req' = [req EXCEPT ![t].step = "free_delete"]
  /\ UNCHANGED <<fds, android_buffer_table, lost>>

FreeDelete(t) ==
  /\ req[t].step = "free_delete"
  /\ delete_buffer(Head(req[t].handles), req[t].bo)
  /\ req' = [req EXCEPT ![t].step = "close"]
  /\ UNCHANGED <<fds, bos, lost>>

(* Faulty variant: the loop does not go on to the next handle.              *)
CloseAgain(t) ==
  /\ req[t].step = "close"
  /\ fds' = Closed(Head(req[t].handles))
  /\ req' = [req EXCEPT ![t] = ReleaseNext(@)]
  /\ UNCHANGED <<bos, android_buffer_table, lost>>

Close(t) ==
  /\ req[t].step = "close"
  /\ fds' = Closed(Head(req[t].handles))
  /\ req' = [req EXCEPT ![t] = ReleaseNext([req[t] EXCEPT !.handles = Tail(@)])]
  /\ UNCHANGED <<bos, android_buffer_table, lost>>

(* The reply is sent and outResult goes out of scope, its descriptors with  *)
(* it. A failed request has none.                                           *)
Reply(t) ==
  /\ req[t].step = "reply"
  /\ fds' = [f \in Fd |-> IF f \in req[t].out THEN NoBuf ELSE fds[f]]
  /\ req' = [req EXCEPT ![t] = Idle]
  /\ UNCHANGED <<bos, android_buffer_table, lost>>

Serve(t) ==
  \/ NewBO(t) \/ NewBOFail(t) \/ NewAdd(t) \/ NewAddFail(t)
  \/ FreeFind(t) \/ FreeDestroy(t) \/ FreeDelete(t) \/ Close(t) \/ Reply(t)

Next == \E t \in Thread : Serve(t) \/ \E n \in Counts : TakeRequest(t, n)

Spec == Init /\ [][Next]_vars

(* A binder thread that serves a request keeps running.                     *)
FairSpec == Spec /\ \A t \in Thread : WF_vars(Serve(t))

-----------------------------------------------------------------------------
AllIdle == \A t \in Thread : req[t] = Idle

EntryOf(t) == [fd |-> Head(req[t].handles), bo |-> req[t].bo]
Dying(e) == \E t \in Thread : req[t].step = "free_delete" /\ EntryOf(t) = e

(* No two entries share a key. add_buffer() says "trying to add an existed  *)
(* buffer, skip." and does not skip: distinct keys are up to its callers.   *)
KeysUnique == \A e, f \in android_buffer_table : e.fd = f.fd => e = f

(* They are distinct as long as the keys are descriptors: a descriptor is   *)
(* closed only after its entry is gone, so no other thread is given the     *)
(* same number in between.                                                  *)
OpenKeysUnique == \A e, f \in android_buffer_table : e.fd = f.fd => e = f \/ e.fd = NoFd

(* A key names the memory of its BO, so gralloc_gbm_android_buffer_free     *)
(* releases the buffer of the handle it is given, never another thread's.   *)
KeyNamesBo == \A e \in android_buffer_table : ~Dying(e) =>
                Live(e.bo) /\ (e.fd # NoFd => fds[e.fd] = bos[e.bo].buf)

(* The BO and the entry a release found are there when it gets to them.     *)
NoDanglingBuffer == \A t \in Thread :
  /\ req[t].step \in {"free_destroy", "free_delete"} => EntryOf(t) \in android_buffer_table
  /\ req[t].step = "free_destroy" => Live(req[t].bo)

(* Every BO is somebody's to release, in the table or being made; only the  *)
(* one whose entry cannot be allocated is not, which the code abandons.     *)
NoOrphanBo == \A bo \in Bo \ lost : Live(bo) =>
  \/ \E e \in android_buffer_table : e.bo = bo
  \/ \E t \in Thread : req[t].bo = bo /\ req[t].step = "new_add"

(* What the service leaves behind when no request is being served, after    *)
(* whatever successes, failures and rollbacks: no entry.                    *)
NothingManagedWhenIdle == AllIdle => android_buffer_table = {}

(* The reply of a request holds as many buffers as it published, each its   *)
(* own memory, and none that another reply holds.                           *)
Shown(t) == req[t].out \ {NoFd}
RepliesDistinct ==
  /\ \A t \in Thread : \A f \in Shown(t) : fds[f] # NoBuf
  /\ \A t, u \in Thread : \A f \in Shown(t), g \in Shown(u) :
       fds[f] = fds[g] => t = u /\ f = g

(* An answer is complete: as many buffers as were asked for (one may lack a *)
(* descriptor when they run out), or an error and none.                     *)
CompleteOrFailed == \A t \in Thread : req[t].step = "reply" =>
  IF req[t].failed THEN req[t].out = {}
  ELSE NoFd \notin req[t].out => Cardinality(req[t].out) = req[t].count

(* "Release buffer and handle": the descriptors a request opened are closed *)
(* when it is done.                                                         *)
DescriptorsReturned == AllIdle => \A f \in Fd : fds[f] = NoBuf

(* Every request is answered.                                               *)
RequestsAnswered == \A t \in Thread : req[t].step # "idle" ~> req[t].step = "idle"
=============================================================================
