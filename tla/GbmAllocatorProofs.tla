-------------------------- MODULE GbmAllocatorProofs --------------------------
(***************************************************************************)
(* Theorems about GbmAllocator, for any number of threads, descriptors,    *)
(* BOs and requests, whatever fails, as long as the service does not run   *)
(* out of descriptors: a key of the table is then the open descriptor of   *)
(* one handle. Without descriptors the key is -1 for every buffer.         *)
(***************************************************************************)
EXTENDS GbmAllocator, FiniteSetTheorems, TLAPS

-----------------------------------------------------------------------------
(***************************************************************************)
(* The handles a request holds are a sequence, which one loop appends to   *)
(* and another takes the head of: its members after a step of either.      *)
(***************************************************************************)
(* The members of a sequence; does it have each of them once?               *)
RangeOf(s) == {s[i] : i \in DOMAIN s}
Injective(s) == \A i, j \in DOMAIN s : s[i] = s[j] => i = j

LEMMA AppendRange ==
  ASSUME NEW S, NEW s \in Seq(S), NEW x \in S
  PROVE  /\ Append(s, x) \in Seq(S) /\ Append(s, x) # <<>>
         /\ Len(Append(s, x)) = Len(s) + 1
         /\ RangeOf(Append(s, x)) = RangeOf(s) \cup {x}
         /\ Injective(s) /\ x \notin RangeOf(s) => Injective(Append(s, x))
PROOF
  <1>1. /\ Append(s, x) \in Seq(S) /\ Append(s, x) # <<>> /\ Len(Append(s, x)) = Len(s) + 1
        /\ DOMAIN s = 1..Len(s) /\ DOMAIN Append(s, x) = 1..(Len(s) + 1) /\ Len(s) \in Nat
    OBVIOUS
  <1>2. /\ \A i \in 1..Len(s) : Append(s, x)[i] = s[i]
        /\ Append(s, x)[Len(s) + 1] = x
    OBVIOUS
  <1>3. RangeOf(Append(s, x)) = RangeOf(s) \cup {x}
    BY <1>1, <1>2 DEF RangeOf
  <1>4. ASSUME Injective(s), x \notin RangeOf(s) PROVE Injective(Append(s, x))
    BY <1>1, <1>2, <1>4 DEF Injective, RangeOf
  <1> QED
    BY <1>1, <1>3, <1>4

LEMMA TailRange ==
  ASSUME NEW S, NEW s \in Seq(S), s # <<>>, Injective(s)
  PROVE  /\ Head(s) \in S /\ Head(s) \in RangeOf(s)
         /\ Tail(s) \in Seq(S) /\ Len(Tail(s)) = Len(s) - 1
         /\ RangeOf(Tail(s)) = RangeOf(s) \ {Head(s)}
         /\ Injective(Tail(s))
PROOF
  <1>1. /\ Len(s) \in Nat /\ Len(s) > 0 /\ Tail(s) \in Seq(S) /\ Len(Tail(s)) = Len(s) - 1
        /\ DOMAIN s = 1..Len(s) /\ DOMAIN Tail(s) = 1..(Len(s) - 1)
        /\ Head(s) = s[1] /\ Head(s) \in S
    OBVIOUS
  <1>2. \A i \in 1..(Len(s) - 1) : Tail(s)[i] = s[i + 1]
    OBVIOUS
  <1>3. RangeOf(Tail(s)) \subseteq RangeOf(s) \ {Head(s)}
    BY <1>1, <1>2 DEF RangeOf, Injective
  <1>4. ASSUME NEW x \in RangeOf(s) \ {Head(s)} PROVE x \in RangeOf(Tail(s))
    <2>1. PICK i \in 1..Len(s) : x = s[i]
      BY <1>1 DEF RangeOf
    <2>2. i # 1 /\ i - 1 \in 1..(Len(s) - 1)
      BY <1>1, <2>1
    <2>3. Tail(s)[i - 1] = x
      BY <1>2, <2>1, <2>2
    <2> QED
      BY <1>1, <2>2, <2>3 DEF RangeOf
  <1>5. Injective(Tail(s))
    BY <1>1, <1>2 DEF Injective
  <1>6. Head(s) \in RangeOf(s)
    BY <1>1 DEF RangeOf
  <1> QED
    BY <1>1, <1>3, <1>4, <1>5, <1>6

-----------------------------------------------------------------------------
(* The condition of the theorems.                                           *)
Plenty == ClosedFds # {}

(* The inductive invariant. What a request has at each step, ...            *)
Held(r)  == RangeOf(r.handles)
Owned(r) == Held(r) \cup r.out \cup IF r.step = "new_add" THEN {r.fd} ELSE {}

MakeSteps    == {"new_bo", "new_add"}
ReleaseSteps == {"free_destroy", "free_delete", "close"}

Formed(r) ==
  /\ r.step = "idle" => r.handles = <<>> /\ r.out = {}
  /\ r.step \in MakeSteps => /\ r.todo > 0 /\ r.out = {} /\ ~r.failed
                             /\ Len(r.handles) + r.todo = r.count
  /\ r.step = "new_add" => r.bo \in Bo /\ r.fd \in Fd /\ r.fd \notin Held(r)
  /\ r.step \in ReleaseSteps \cup {"free_find"} => r.handles # <<>>
  /\ r.step = "free_find" /\ ~r.failed => Cardinality(r.out) + Len(r.handles) = r.count
  /\ r.step \in ReleaseSteps /\ ~r.failed => Cardinality(r.out) + Len(r.handles) = r.count + 1
  /\ r.step \in {"free_destroy", "free_delete"} => r.bo \in Bo
  /\ r.step = "reply" => r.handles = <<>> /\ (~r.failed => Cardinality(r.out) = r.count)
  /\ r.failed => r.out = {}
  /\ r.handles \in Seq(Fd) /\ Injective(r.handles)
  /\ r.out \subseteq Fd /\ IsFiniteSet(r.out) /\ Held(r) \cap r.out = {}
RequestsFormed == \A t \in Thread : Formed(req[t])

(* ... that it is open and nobody else's, ...                               *)
OwnersOpen == \A t \in Thread : \A f \in Owned(req[t]) : f \in Fd /\ fds[f] # NoBuf
OwnersDistinct == \A t, u \in Thread : t # u => Owned(req[t]) \cap Owned(req[u]) = {}

(* ... of memory of its own but for a descriptor in the reply and the one   *)
(* it duplicates, ...                                                       *)
Pair(r, f, g) == r.step \in ReleaseSteps /\ \/ f = Head(r.handles) /\ g \in r.out
                                            \/ g = Head(r.handles) /\ f \in r.out
MemoryDistinct == \A t, u \in Thread : \A f \in Owned(req[t]), g \in Owned(req[u]) :
  fds[f] = fds[g] => f = g \/ (t = u /\ Pair(req[t], f, g))

(* ... which entries there are, ...                                         *)
Registered(r, f) == f \in Held(r) /\ ~(r.step = "close" /\ f = Head(r.handles))
KeysHeld == \A e \in android_buffer_table :
  e.fd \in Fd /\ \E t \in Thread : Registered(req[t], e.fd)
HeldKeyed == \A t \in Thread : \A f \in Fd :
  Registered(req[t], f) => \E e \in android_buffer_table : e.fd = f
BosDistinct == \A e, f \in android_buffer_table : e.bo = f.bo => e = f
Releasing == \A t \in Thread :
  /\ req[t].step \in {"free_destroy", "free_delete"} => EntryOf(t) \in android_buffer_table
  /\ req[t].step = "free_delete" => ~Live(req[t].bo)

(* ... and that a BO not yet in the table is one request's.                 *)
Making == \A t \in Thread : req[t].step = "new_add" =>
  /\ Live(req[t].bo) /\ bos[req[t].bo].buf = fds[req[t].fd]
  /\ \A e \in android_buffer_table : e.bo # req[t].bo
  /\ \A u \in Thread : u # t /\ req[u].step = "new_add" => req[u].bo # req[t].bo

TableInv == KeysHeld /\ HeldKeyed /\ KeysUnique /\ BosDistinct /\ Releasing /\ Making
            /\ KeyNamesBo /\ NoOrphanBo
IInv == TypeOK /\ RequestsFormed /\ OwnersOpen /\ OwnersDistinct /\ MemoryDistinct /\ TableInv

-----------------------------------------------------------------------------
LEMMA FreshFdsClosed == Plenty => FreshFds \subseteq ClosedFds
PROOF
  <1>1. ClosedFds \in SUBSET Fd
    BY DEF ClosedFds
  <1> QED
    BY <1>1, PickAssumption DEF FreshFds, Plenty

LEMMA FreshBosUnused ==
  \A bo \in FreshBos : bo \in Bo /\ ~Live(bo) /\ \A e \in android_buffer_table : e.bo # bo
PROOF
  <1> DEFINE S == {b \in Bo : ~Live(b) /\ \A e \in android_buffer_table : e.bo # b}
  <1>1. S \in SUBSET Bo
    OBVIOUS
  <1>2. Pick(S) \subseteq S
    BY <1>1, PickAssumption
  <1> QED
    BY <1>2 DEF FreshBos

LEMMA FreshBufsUnused == \A b \in FreshBufs : b \in Buf /\ \A f \in Fd : fds[f] # b
PROOF
  <1> DEFINE S == {b \in Buf : /\ \A f \in Fd : fds[f] # b
                               /\ \A bo \in Bo : bos[bo].buf # b}
  <1>1. S \in SUBSET Buf
    OBVIOUS
  <1>2. Pick(S) \subseteq S
    BY <1>1, PickAssumption
  <1> QED
    BY <1>2 DEF FreshBufs

LEMMA NewBoTyped == \A b \in Buf \cup {NoBuf} : NewBo(b) \in BoState /\ NewBo(b).buf = b
PROOF
  BY DEF NewBo, BoState

LEMMA EmptySequence == RangeOf(<<>>) = {} /\ Injective(<<>>)
PROOF
  BY DEF RangeOf, Injective

LEMMA IdleFormed == Idle \in Request /\ Formed(Idle) /\ Owned(Idle) = {} /\ Idle.step = "idle"
                    /\ \A f : ~Registered(Idle, f)
PROOF
  <1>1. Idle \in Request
    BY DEF Idle, Request, Steps
  <1>2. Idle.handles = <<>> /\ Idle.out = {} /\ Idle.step = "idle" /\ ~Idle.failed
    BY DEF Idle
  <1>3. IsFiniteSet({})
    BY FS_EmptySet
  <1>4. Held(Idle) = {}
    BY <1>2, EmptySequence DEF Held
  <1> QED
    BY <1>1, <1>2, <1>3, <1>4, EmptySequence DEF Formed, Owned, MakeSteps, ReleaseSteps, Registered

LEMMA InvInit == Init => IInv
PROOF
  <1> SUFFICES ASSUME Init PROVE IInv
    OBVIOUS
  <1>1. \A t \in Thread : req[t] = Idle
    BY DEF Init
  <1>2. TypeOK
    BY NewBoTyped, IdleFormed DEF Init, LibInit, TypeOK, LibTypeOK, DeadBo
  <1>3. RequestsFormed /\ OwnersOpen /\ OwnersDistinct /\ MemoryDistinct
    BY <1>1, IdleFormed DEF RequestsFormed, OwnersOpen, OwnersDistinct, MemoryDistinct
  <1>4. android_buffer_table = {} /\ \A bo \in Bo : ~Live(bo)
    BY NewBoTyped DEF Init, LibInit, Live, DeadBo
  <1>5. TableInv
    BY <1>1, <1>4, IdleFormed
    DEF TableInv, KeysHeld, HeldKeyed, KeysUnique, BosDistinct, Releasing, Making, KeyNamesBo, NoOrphanBo
  <1> QED
    BY <1>2, <1>3, <1>5 DEF IInv

-----------------------------------------------------------------------------
(* Where the loops go.                                                      *)
LEMMA ReleaseNextFormed ==
  ASSUME NEW r \in Request, r.handles \in Seq(Fd), Injective(r.handles),
         r.out \subseteq Fd, IsFiniteSet(r.out), Held(r) \cap r.out = {},
         r.failed => r.out = {},
         ~r.failed => Cardinality(r.out) + Len(r.handles) = r.count
  PROVE  /\ ReleaseNext(r) \in Request /\ Formed(ReleaseNext(r))
         /\ ReleaseNext(r).handles = r.handles /\ ReleaseNext(r).out = r.out
         /\ ReleaseNext(r).step \in {"free_find", "reply"}
PROOF
  <1> DEFINE p == ReleaseNext(r)
  <1>1. p \in Request
    BY DEF ReleaseNext, Request, Steps
  <1>2. /\ p.handles = r.handles /\ p.out = r.out /\ p.failed = r.failed /\ p.count = r.count
        /\ p.step = IF r.handles = <<>> THEN "reply" ELSE "free_find"
    BY DEF ReleaseNext, Request
  <1>3. Cardinality(r.out) \in Nat /\ r.count \in Nat
    BY FS_CardinalityType DEF Request
  <1>4. r.handles = <<>> /\ ~r.failed => Cardinality(r.out) = r.count
    BY <1>3
  <1> HIDE DEF p
  <1> QED
    BY <1>1, <1>2, <1>4 DEF p, Formed, Held, MakeSteps, ReleaseSteps

LEMMA MakeNextFormed ==
  ASSUME NEW r \in Request, ~r.failed, r.handles \in Seq(Fd), Injective(r.handles), r.out = {},
         Len(r.handles) + r.todo = r.count
  PROVE  /\ MakeNext(r) \in Request /\ Formed(MakeNext(r))
         /\ MakeNext(r).handles = r.handles /\ MakeNext(r).out = {}
         /\ MakeNext(r).step \in {"free_find", "reply", "new_bo"}
PROOF
  <1>1. IsFiniteSet({}) /\ Cardinality({}) = 0
    BY FS_EmptySet
  <1>2. CASE r.todo = 0
    <2>1. Cardinality(r.out) + Len(r.handles) = r.count
      BY <1>1, <1>2
    <2>2. Held(r) \cap r.out = {} /\ r.out \subseteq Fd
      OBVIOUS
    <2> QED
      BY <1>1, <1>2, <2>1, <2>2, ReleaseNextFormed DEF MakeNext
  <1>3. CASE r.todo # 0
    <2> DEFINE p == [r EXCEPT !.bo = NoBo, !.fd = NoFd, !.step = "new_bo"]
    <2>1. MakeNext(r) = p
      BY <1>3 DEF MakeNext
    <2>2. /\ p \in Request /\ p.step = "new_bo" /\ p.handles = r.handles /\ p.out = r.out
          /\ p.failed = r.failed /\ p.count = r.count /\ p.todo = r.todo
      BY DEF Request, Steps
    <2>3. r.todo > 0
      BY <1>3 DEF Request
    <2> HIDE DEF p
    <2> QED
      BY <1>1, <2>1, <2>2, <2>3 DEF Formed, MakeSteps, ReleaseSteps
  <1> QED
    BY <1>2, <1>3

LEMMA RollbackFormed ==
  ASSUME NEW r \in Request, Formed(r), r.step \in MakeSteps
  PROVE  /\ Rollback(r) \in Request /\ Formed(Rollback(r))
         /\ Rollback(r).handles = r.handles /\ Rollback(r).out = {}
         /\ Rollback(r).step \in {"free_find", "reply"}
PROOF
  <1> DEFINE p == [r EXCEPT !.failed = TRUE, !.todo = 0, !.fd = NoFd]
  <1>1. /\ p \in Request /\ p.failed /\ p.handles = r.handles /\ p.out = r.out
    BY DEF Request
  <1>2. Rollback(r) = ReleaseNext(p)
    BY DEF Rollback
  <1> HIDE DEF p
  <1>3. r.out = {} /\ r.handles \in Seq(Fd) /\ Injective(r.handles) /\ IsFiniteSet(r.out)
    BY DEF Formed
  <1> QED
    BY <1>1, <1>2, <1>3, ReleaseNextFormed

-----------------------------------------------------------------------------
(* Thread t goes on with request r, and may have opened O for it.           *)
LEMMA OwnersKeep ==
  ASSUME IInv, NEW t \in Thread, NEW r \in Request, req' = [req EXCEPT ![t] = r], Formed(r),
         NEW O, O \subseteq ClosedFds, Owned(r) \subseteq Owned(req[t]) \cup O,
         \A f \in Fd : fds[f] # NoBuf /\ f \notin Owned(req[t]) \ Owned(r) => fds'[f] = fds[f],
         \A f \in O : fds'[f] # NoBuf
  PROVE  /\ req' \in [Thread -> Request] /\ RequestsFormed' /\ OwnersOpen' /\ OwnersDistinct'
         /\ \A u \in Thread : req'[u] = IF u = t THEN r ELSE req[u]
PROOF
  <1>1. \A u \in Thread : req'[u] = IF u = t THEN r ELSE req[u]
    BY DEF IInv, TypeOK
  <1>2. req' \in [Thread -> Request]
    BY DEF IInv, TypeOK
  <1>3. RequestsFormed'
    BY <1>1 DEF IInv, RequestsFormed
  <1>4. \A u \in Thread : \A f \in Owned(req[u]) : f \in Fd /\ fds[f] # NoBuf /\ f \notin O
    BY DEF IInv, OwnersOpen, ClosedFds
  <1>5. OwnersDistinct'
    BY <1>1, <1>4 DEF IInv, OwnersDistinct
  <1>6. ASSUME NEW u \in Thread, NEW f \in Owned(req'[u]) PROVE f \in Fd /\ fds'[f] # NoBuf
    <2>1. CASE u = t
      BY <1>1, <1>4, <2>1 DEF ClosedFds
    <2>2. CASE u # t
      BY <1>1, <1>4, <2>2 DEF IInv, OwnersDistinct
    <2> QED
      BY <2>1, <2>2
  <1> QED
    BY <1>1, <1>2, <1>3, <1>5, <1>6 DEF OwnersOpen

(* What it opened is new memory.                                            *)
LEMMA MemoryKeeps ==
  ASSUME IInv, NEW t \in Thread, NEW r, \A u \in Thread : req'[u] = IF u = t THEN r ELSE req[u],
         NEW O, O \subseteq ClosedFds, Owned(r) \subseteq Owned(req[t]) \cup O,
         \A f \in Fd : fds[f] # NoBuf /\ f \notin Owned(req[t]) \ Owned(r) => fds'[f] = fds[f],
         \A f \in O : \A g \in Fd : fds[g] # fds'[f],
         \A f, g \in O : f = g,
         \A f, g \in Owned(r) : Pair(req[t], f, g) => Pair(r, f, g)
  PROVE  MemoryDistinct'
PROOF
  <1>1. \A u \in Thread : \A f \in Owned(req[u]) : f \in Fd /\ fds[f] # NoBuf /\ f \notin O
    BY DEF IInv, OwnersOpen, ClosedFds
  <1>2. ASSUME NEW u \in Thread, NEW f \in Owned(req'[u])
        PROVE  \/ u = t /\ f \in O
               \/ f \in Owned(req[u]) /\ f \notin O /\ fds'[f] = fds[f]
    <2>1. CASE u = t
      BY <1>1, <2>1
    <2>2. CASE u # t
      BY <1>1, <2>2 DEF IInv, OwnersDistinct
    <2> QED
      BY <2>1, <2>2
  <1> SUFFICES ASSUME NEW u \in Thread, NEW v \in Thread, NEW f \in Owned(req'[u]), NEW g \in Owned(req'[v]),
                      fds'[f] = fds'[g], f # g
               PROVE  u = v /\ Pair(req'[u], f, g)
    BY DEF MemoryDistinct
  <1>3. f \notin O /\ g \notin O
    BY <1>1, <1>2
  <1>4. f \in Owned(req[u]) /\ g \in Owned(req[v]) /\ fds[f] = fds[g]
    BY <1>2, <1>3
  <1>5. u = v /\ Pair(req[u], f, g)
    BY <1>4 DEF IInv, MemoryDistinct
  <1> QED
    BY <1>5

(* A step that leaves the table and the BOs alone.                          *)
LEMMA TableKeeps ==
  ASSUME IInv, NEW t \in Thread, NEW r, \A u \in Thread : req'[u] = IF u = t THEN r ELSE req[u],
         UNCHANGED <<bos, android_buffer_table>>, lost \subseteq lost',
         \A f \in Fd : Registered(r, f) <=> Registered(req[t], f),
         req[t].step # "free_delete", r.step \notin {"new_add", "free_delete"},
         r.step = "free_destroy" => [fd |-> Head(r.handles), bo |-> r.bo] \in android_buffer_table,
         req[t].step = "new_add" => req[t].bo \in lost',
         \A f \in Fd : fds[f] # NoBuf /\ f \notin Owned(req[t]) \ Owned(r) => fds'[f] = fds[f],
         Owned(req[t]) \ Owned(r) \subseteq {f \in Fd : ~Registered(req[t], f)}
  PROVE  TableInv'
PROOF
  <1>1. \A u \in Thread : \A f \in Fd : Registered(req'[u], f) <=> Registered(req[u], f)
    OBVIOUS
  <1>2. KeysHeld' /\ HeldKeyed'
    BY <1>1 DEF IInv, TableInv, KeysHeld, HeldKeyed
  <1>3. KeysUnique' /\ BosDistinct'
    BY DEF IInv, TableInv, KeysUnique, BosDistinct
  <1>4. Releasing'
    BY DEF IInv, TableInv, Releasing, EntryOf, Live
  <1>5. \A u \in Thread : u # t => \A f \in Owned(req[u]) : f \in Fd /\ fds[f] # NoBuf /\ f \notin Owned(req[t])
    BY DEF IInv, OwnersOpen, OwnersDistinct
  <1>6. Making'
    <2> SUFFICES ASSUME NEW u \in Thread, req'[u].step = "new_add"
                 PROVE  /\ bos'[req'[u].bo].buf # NoBuf /\ bos'[req'[u].bo].buf = fds'[req'[u].fd]
                        /\ \A e \in android_buffer_table' : e.bo # req'[u].bo
                        /\ \A v \in Thread : v # u /\ req'[v].step = "new_add" => req'[v].bo # req'[u].bo
      BY DEF Making, Live
    <2>1. u # t /\ req'[u] = req[u] /\ req[u].step = "new_add"
      OBVIOUS
    <2>2. req[u].fd \in Owned(req[u])
      BY <2>1 DEF Owned
    <2>3. fds'[req[u].fd] = fds[req[u].fd]
      BY <1>5, <2>1, <2>2
    <2> QED
      BY <2>1, <2>3 DEF IInv, TableInv, Making, Live
  <1>7. \A e \in android_buffer_table : fds'[e.fd] = fds[e.fd]
    <2> TAKE e \in android_buffer_table
    <2>1. PICK u \in Thread : e.fd \in Fd /\ Registered(req[u], e.fd)
      BY DEF IInv, TableInv, KeysHeld
    <2>2. e.fd \in Owned(req[u]) /\ fds[e.fd] # NoBuf
      BY <2>1 DEF Registered, Owned, IInv, OwnersOpen
    <2>3. e.fd \notin Owned(req[t]) \ Owned(r)
      BY <1>5, <2>1, <2>2
    <2> QED
      BY <2>1, <2>2, <2>3
  <1>8. KeyNamesBo'
    <2>1. \A e \in android_buffer_table : Dying(e) => Dying(e)'
      BY DEF Dying, EntryOf
    <2> QED
      BY <1>7, <2>1 DEF IInv, TableInv, KeyNamesBo, Live
  <1>9. NoOrphanBo'
    BY DEF IInv, TableInv, NoOrphanBo, Live
  <1> QED
    BY <1>2, <1>3, <1>4, <1>6, <1>8, <1>9 DEF TableInv

LEMMA OwnedFacts ==
  ASSUME IInv, NEW t \in Thread
  PROVE  /\ req[t] \in Request /\ Formed(req[t])
         /\ Held(req[t]) \subseteq Owned(req[t]) /\ req[t].out \subseteq Owned(req[t])
         /\ \A f \in Owned(req[t]) : f \in Fd /\ fds[f] # NoBuf
PROOF
  BY DEF IInv, TypeOK, RequestsFormed, OwnersOpen, Owned

(* A step of thread t that changes nothing but its request, of which it may *)
(* give up what it was making.                                              *)
LEMMA LocalKeeps ==
  ASSUME IInv, NEW t \in Thread, NEW r \in Request, req' = [req EXCEPT ![t] = r], Formed(r),
         fds' \in [Fd -> Buf \cup {NoBuf}], \A f \in Fd : fds'[f] = fds[f],
         UNCHANGED <<bos, android_buffer_table>>, lost' \subseteq Bo, lost \subseteq lost',
         req[t].step \in {"idle"} \cup MakeSteps, r.step \in {"free_find", "reply", "new_bo"},
         Held(r) = Held(req[t]), r.out = {},
         req[t].step = "new_add" => req[t].bo \in lost'
  PROVE  IInv'
PROOF
  <1> DEFINE N == {}
  <1>1. Formed(req[t]) /\ req[t].out = {}
    BY OwnedFacts DEF Formed, MakeSteps
  <1>2. Owned(r) = Held(req[t]) /\ Owned(r) \subseteq Owned(req[t]) \cup N /\ N \subseteq ClosedFds
    BY DEF Owned
  <1>3. \A f : Registered(r, f) <=> Registered(req[t], f)
    BY DEF Registered, MakeSteps
  <1>4. Owned(req[t]) \ Owned(r) \subseteq {f \in Fd : ~Registered(req[t], f)}
    BY <1>2, OwnedFacts DEF Registered
  <1>5. \A f, g : ~Pair(req[t], f, g)
    BY DEF Pair, ReleaseSteps, MakeSteps
  <1>6. /\ (\A f \in N : fds'[f] # NoBuf) /\ (\A f \in N : \A g \in Fd : fds[g] # fds'[f]) /\ (\A f, g \in N : f = g)
    OBVIOUS
  <1>7. \A f \in Fd : fds[f] # NoBuf /\ f \notin Owned(req[t]) \ Owned(r) => fds'[f] = fds[f]
    OBVIOUS
  <1> HIDE DEF N
  <1>8. /\ req' \in [Thread -> Request] /\ RequestsFormed' /\ OwnersOpen' /\ OwnersDistinct'
        /\ \A u \in Thread : req'[u] = IF u = t THEN r ELSE req[u]
    BY <1>2, <1>6, <1>7, OwnersKeep
  <1>9. MemoryDistinct'
    BY <1>2, <1>5, <1>6, <1>7, <1>8, MemoryKeeps
  <1>10. TableInv'
    BY <1>3, <1>4, <1>7, <1>8, TableKeeps DEF MakeSteps
  <1> QED
    BY <1>8, <1>9, <1>10 DEF IInv, TypeOK, LibTypeOK

LEMMA TakeKeeps == ASSUME IInv, NEW t \in Thread, NEW n \in Counts, TakeRequest(t, n) PROVE IInv'
PROOF
  <1> DEFINE r0 == [Idle EXCEPT !.count = n, !.todo = n]
             r == MakeNext(r0)
  <1>1. n \in Nat
    BY AllocatorAssumption
  <1>2. Idle.handles = <<>> /\ Idle.out = {} /\ ~Idle.failed
    BY DEF Idle
  <1>3. /\ r0 \in Request /\ ~r0.failed /\ r0.handles = <<>> /\ r0.out = {} /\ r0.todo = n /\ r0.count = n
    BY <1>1, <1>2, IdleFormed DEF Request
  <1> HIDE DEF r0
  <1>4. r0.handles \in Seq(Fd) /\ Injective(r0.handles) /\ Len(r0.handles) + r0.todo = r0.count
    BY <1>1, <1>3, EmptySequence
  <1>5. /\ r \in Request /\ Formed(r) /\ r.handles = <<>> /\ r.out = {}
        /\ r.step \in {"free_find", "reply", "new_bo"}
    BY <1>3, <1>4, MakeNextFormed
  <1>6. req[t] = Idle /\ req' = [req EXCEPT ![t] = r] /\ UNCHANGED <<fds, bos, android_buffer_table, lost>>
    BY DEF TakeRequest, r0
  <1> HIDE DEF r
  <1>7. Held(r) = Held(req[t]) /\ req[t].step = "idle"
    BY <1>2, <1>5, <1>6, IdleFormed DEF Held
  <1>8. lost' \subseteq Bo /\ fds' \in [Fd -> Buf \cup {NoBuf}]
    BY <1>6 DEF IInv, TypeOK, LibTypeOK
  <1> QED
    BY <1>5, <1>6, <1>7, <1>8, LocalKeeps

LEMMA NewBOFailKeeps == ASSUME IInv, NEW t \in Thread, NewBOFail(t) \/ NewAddFail(t) PROVE IInv'
PROOF
  <1> DEFINE r == Rollback(req[t])
  <1>1. /\ req[t].step \in MakeSteps /\ req' = [req EXCEPT ![t] = r]
        /\ UNCHANGED <<fds, bos, android_buffer_table>> /\ lost \subseteq lost'
        /\ lost' \subseteq lost \cup {req[t].bo} /\ (req[t].step = "new_bo" => lost' = lost)
        /\ req[t].step = "new_add" => req[t].bo \in lost'
    BY DEF NewBOFail, NewAddFail, MakeSteps
  <1>2. req[t] \in Request /\ Formed(req[t])
    BY OwnedFacts
  <1>3. /\ r \in Request /\ Formed(r) /\ r.handles = req[t].handles /\ r.out = {}
        /\ r.step \in {"free_find", "reply"}
    BY <1>1, <1>2, RollbackFormed
  <1> HIDE DEF r
  <1>4. Held(r) = Held(req[t])
    BY <1>3 DEF Held
  <1>5. lost' \subseteq Bo /\ fds' \in [Fd -> Buf \cup {NoBuf}]
    BY <1>1, <1>2 DEF IInv, TypeOK, LibTypeOK, Formed, MakeSteps
  <1> QED
    BY <1>1, <1>3, <1>4, <1>5, LocalKeeps

LEMMA CloseKeeps == ASSUME IInv, NEW t \in Thread, Close(t) PROVE IInv'
PROOF
  <1> DEFINE q == req[t]
             h == Head(q.handles)
             r0 == [q EXCEPT !.handles = Tail(@)]
             r == ReleaseNext(r0)
             N == {}
  <1>1. /\ q.step = "close" /\ fds' = Closed(h) /\ req' = [req EXCEPT ![t] = r]
        /\ UNCHANGED <<bos, android_buffer_table, lost>>
    BY DEF Close
  <1>2. q \in Request /\ Formed(q) /\ \A f \in Owned(q) : f \in Fd /\ fds[f] # NoBuf
    BY OwnedFacts
  <1>3. /\ q.handles \in Seq(Fd) /\ q.handles # <<>> /\ Injective(q.handles) /\ Held(q) \cap q.out = {}
        /\ q.out \subseteq Fd /\ IsFiniteSet(q.out) /\ (q.failed => q.out = {})
        /\ ~q.failed => Cardinality(q.out) + Len(q.handles) = q.count + 1
    BY <1>1, <1>2 DEF Formed, ReleaseSteps
  <1>4. /\ h \in Held(q) /\ Tail(q.handles) \in Seq(Fd) /\ Len(Tail(q.handles)) = Len(q.handles) - 1
        /\ RangeOf(Tail(q.handles)) = Held(q) \ {h} /\ Injective(Tail(q.handles))
    BY <1>3, TailRange DEF Held
  <1>5. /\ r0 \in Request /\ r0.handles = Tail(q.handles) /\ r0.failed = q.failed /\ r0.out = q.out
        /\ r0.count = q.count
    <2>1. Tail(q.handles) \in Seq(Fd \cup {NoFd})
      BY <1>2, <1>3 DEF Request
    <2> HIDE DEF q
    <2> QED
      BY <1>2, <2>1 DEF Request
  <1> HIDE DEF r0
  <1>6. ~r0.failed => Cardinality(r0.out) + Len(r0.handles) = r0.count
    <2> DEFINE m == Cardinality(q.out)
               n == Len(q.handles)
               c == q.count
    <2>1. m \in Nat /\ n \in Nat /\ c \in Nat
      BY <1>2, <1>3, FS_CardinalityType DEF Request
    <2>2. ~q.failed => m + n = c + 1
      BY <1>3
    <2> HIDE DEF m, n, c
    <2>3. ~q.failed => m + (n - 1) = c
      BY <2>1, <2>2
    <2> QED
      BY <1>4, <1>5, <2>3 DEF m, n, c
  <1>7. Held(r0) = Held(q) \ {h}
    BY <1>4, <1>5 DEF Held
  <1>8. /\ r \in Request /\ Formed(r) /\ r.handles = Tail(q.handles) /\ r.out = q.out
        /\ r.step \in {"free_find", "reply"}
    BY <1>3, <1>4, <1>5, <1>6, <1>7, ReleaseNextFormed
  <1> HIDE DEF r
  <1>9. Held(r) = Held(q) \ {h} /\ Owned(r) = Owned(q) \ {h} /\ h \in Owned(q) /\ h \in Fd
    BY <1>1, <1>2, <1>3, <1>4, <1>8 DEF Held, Owned
  <1>10. fds' \in [Fd -> Buf \cup {NoBuf}] /\ \A g \in Fd : fds'[g] = IF g = h THEN NoBuf ELSE fds[g]
    BY <1>1, <1>9, NullAssumption DEF IInv, TypeOK, LibTypeOK, Closed
  <1>11. \A f : Registered(r, f) <=> Registered(q, f)
    BY <1>1, <1>8, <1>9 DEF Registered
  <1>12. Owned(q) \ Owned(r) = {h} /\ ~Registered(q, h)
    BY <1>1, <1>9 DEF Registered
  <1>13. \A f \in Fd : fds[f] # NoBuf /\ f \notin Owned(q) \ Owned(r) => fds'[f] = fds[f]
    BY <1>10, <1>12
  <1>14. \A f, g \in Owned(r) : ~Pair(q, f, g)
    BY <1>9 DEF Pair
  <1>15. /\ (\A f \in N : fds'[f] # NoBuf) /\ (\A f \in N : \A g \in Fd : fds[g] # fds'[f]) /\ (\A f, g \in N : f = g)
         /\ N \subseteq ClosedFds /\ Owned(r) \subseteq Owned(q) \cup N
    BY <1>9
  <1> HIDE DEF N, q, h
  <1>16. /\ req' \in [Thread -> Request] /\ RequestsFormed' /\ OwnersOpen' /\ OwnersDistinct'
         /\ \A u \in Thread : req'[u] = IF u = t THEN r ELSE req[u]
    BY <1>1, <1>8, <1>13, <1>15, OwnersKeep DEF q
  <1>17. MemoryDistinct'
    BY <1>13, <1>14, <1>15, <1>16, MemoryKeeps DEF q
  <1>18. TableInv'
    <2>1. /\ q.step # "free_delete" /\ q.step # "new_add"
          /\ r.step \notin {"new_add", "free_delete"} /\ r.step # "free_destroy" /\ lost \subseteq lost'
          /\ UNCHANGED <<bos, android_buffer_table>>
          /\ Owned(q) \ Owned(r) \subseteq {f \in Fd : ~Registered(q, f)}
      BY <1>1, <1>8, <1>9, <1>12
    <2> QED
      BY <1>11, <1>13, <1>16, <2>1, TableKeeps DEF q
  <1> QED
    BY <1>1, <1>10, <1>16, <1>17, <1>18 DEF IInv, TypeOK, LibTypeOK

LEMMA ReplyKeeps == ASSUME IInv, NEW t \in Thread, Reply(t) PROVE IInv'
PROOF
  <1> DEFINE q == req[t]
             N == {}
  <1>1. /\ q.step = "reply" /\ fds' = [f \in Fd |-> IF f \in q.out THEN NoBuf ELSE fds[f]]
        /\ req' = [req EXCEPT ![t] = Idle] /\ UNCHANGED <<bos, android_buffer_table, lost>>
    BY DEF Reply
  <1>2. q \in Request /\ Formed(q) /\ \A f \in Owned(q) : f \in Fd /\ fds[f] # NoBuf
    BY OwnedFacts
  <1>3. Held(q) = {} /\ Owned(q) = q.out
    BY <1>1, <1>2, EmptySequence DEF Formed, Held, Owned
  <1>4. fds' \in [Fd -> Buf \cup {NoBuf}] /\ \A g \in Fd : fds'[g] = IF g \in q.out THEN NoBuf ELSE fds[g]
    BY <1>1 DEF IInv, TypeOK, LibTypeOK
  <1>5. \A f \in Fd : fds[f] # NoBuf /\ f \notin Owned(q) \ Owned(Idle) => fds'[f] = fds[f]
    BY <1>3, <1>4, IdleFormed
  <1>6. /\ (\A f \in N : fds'[f] # NoBuf) /\ (\A f \in N : \A g \in Fd : fds[g] # fds'[f]) /\ (\A f, g \in N : f = g)
        /\ N \subseteq ClosedFds /\ Owned(Idle) \subseteq Owned(q) \cup N
        /\ \A f, g \in Owned(Idle) : Pair(q, f, g) => Pair(Idle, f, g)
    BY IdleFormed
  <1>7. \A f : ~Registered(q, f) /\ ~Registered(Idle, f)
    BY <1>3, IdleFormed DEF Registered
  <1>8. /\ q.step # "free_delete" /\ q.step # "new_add" /\ lost \subseteq lost'
        /\ UNCHANGED <<bos, android_buffer_table>> /\ req' = [req EXCEPT ![t] = Idle]
        /\ Owned(q) \ Owned(Idle) \subseteq {f \in Fd : ~Registered(q, f)}
    BY <1>1, <1>2, <1>7
  <1> HIDE DEF N, q
  <1>9. /\ req' \in [Thread -> Request] /\ RequestsFormed' /\ OwnersOpen' /\ OwnersDistinct'
        /\ \A u \in Thread : req'[u] = IF u = t THEN Idle ELSE req[u]
    BY <1>5, <1>6, <1>8, IdleFormed, OwnersKeep DEF q
  <1>10. MemoryDistinct'
    BY <1>5, <1>6, <1>9, MemoryKeeps DEF q
  <1>11. TableInv'
    BY <1>5, <1>7, <1>8, <1>9, IdleFormed, TableKeeps DEF q
  <1> QED
    BY <1>1, <1>4, <1>9, <1>10, <1>11 DEF IInv, TypeOK, LibTypeOK

-----------------------------------------------------------------------------
(* The steps that change the table or the BOs.                              *)
LEMMA EntriesOpen == ASSUME IInv PROVE \A e \in android_buffer_table :
  e = [fd |-> e.fd, bo |-> e.bo] /\ e.fd \in Fd /\ fds[e.fd] # NoBuf /\ e.bo \in Bo
PROOF
  <1> TAKE e \in android_buffer_table
  <1>1. e \in Entry
    BY DEF IInv, TypeOK, LibTypeOK
  <1>2. PICK u \in Thread : e.fd \in Fd /\ Registered(req[u], e.fd)
    BY DEF IInv, TableInv, KeysHeld
  <1>3. fds[e.fd] # NoBuf
    BY <1>2, OwnedFacts DEF Registered
  <1> QED
    BY <1>1, <1>2, <1>3 DEF Entry

LEMMA NewBOKeeps == ASSUME IInv, Plenty, NEW t \in Thread, NewBO(t) PROVE IInv'
PROOF
  <1> DEFINE q == req[t]
  <1>1. PICK bo \in FreshBos, b \in FreshBufs, f \in FreshFds :
          /\ gbm_bo_create(bo, b)
          /\ fds' = Opened(f, b)
          /\ req' = [req EXCEPT ![t].bo = bo, ![t].fd = f, ![t].step = "new_add"]
    BY DEF NewBO
  <1> DEFINE r == [q EXCEPT !.bo = bo, !.fd = f, !.step = "new_add"]
             O == {f}
  <1>2. q.step = "new_bo" /\ UNCHANGED <<android_buffer_table, lost>>
    BY DEF NewBO
  <1>3. f \in Fd /\ fds[f] = NoBuf
    BY FreshFdsClosed DEF ClosedFds
  <1>4. b \in Buf /\ b # NoBuf /\ \A g \in Fd : fds[g] # b
    BY FreshBufsUnused, NullAssumption
  <1>5. bo \in Bo /\ ~Live(bo) /\ \A e \in android_buffer_table : e.bo # bo
    BY FreshBosUnused
  <1>6. q \in Request /\ Formed(q) /\ \A g \in Owned(q) : g \in Fd /\ fds[g] # NoBuf
    BY OwnedFacts
  <1>7. fds' \in [Fd -> Buf \cup {NoBuf}] /\ \A g \in Fd : fds'[g] = IF g = f THEN b ELSE fds[g]
    BY <1>1, <1>3, <1>4, NullAssumption DEF IInv, TypeOK, LibTypeOK, Opened
  <1>8. bos' \in [Bo -> BoState] /\ bos'[bo].buf = b /\ \A x \in Bo : x # bo => bos'[x] = bos[x]
    BY <1>1, <1>4, <1>5, NewBoTyped DEF IInv, TypeOK, LibTypeOK, gbm_bo_create
  <1>9. /\ r \in Request /\ r.step = "new_add" /\ r.bo = bo /\ r.fd = f /\ r.handles = q.handles
        /\ r.out = q.out /\ r.todo = q.todo /\ r.failed = q.failed /\ r.count = q.count
    BY <1>3, <1>5, <1>6 DEF Request, Steps
  <1>10. req' = [req EXCEPT ![t] = r]
    BY <1>1 DEF IInv, TypeOK
  <1> HIDE DEF r
  <1>11. q.out = {} /\ Held(r) = Held(q) /\ Owned(q) = Held(q) /\ Owned(r) = Held(q) \cup {f}
    BY <1>2, <1>6, <1>9 DEF Formed, Held, Owned, MakeSteps
  <1>12. Formed(r)
    BY <1>2, <1>3, <1>5, <1>6, <1>9, <1>11 DEF Formed, MakeSteps, ReleaseSteps
  <1>13. \A g \in Fd : fds[g] # NoBuf /\ g \notin Owned(q) \ Owned(r) => fds'[g] = fds[g]
    BY <1>3, <1>7
  <1>14. /\ (\A g \in O : fds'[g] # NoBuf) /\ (\A x \in O : \A g \in Fd : fds[g] # fds'[x]) /\ (\A x, y \in O : x = y)
         /\ O \subseteq ClosedFds /\ Owned(r) \subseteq Owned(q) \cup O
    BY <1>3, <1>4, <1>7, <1>11 DEF ClosedFds
  <1>15. \A x, y \in Owned(r) : ~Pair(q, x, y)
    BY <1>2 DEF Pair, ReleaseSteps
  <1> HIDE DEF O, q
  <1>16. /\ req' \in [Thread -> Request] /\ RequestsFormed' /\ OwnersOpen' /\ OwnersDistinct'
         /\ \A u \in Thread : req'[u] = IF u = t THEN r ELSE req[u]
    BY <1>9, <1>10, <1>12, <1>13, <1>14, OwnersKeep DEF q
  <1>17. MemoryDistinct'
    BY <1>13, <1>14, <1>15, <1>16, MemoryKeeps DEF q
  <1>18. \A u \in Thread : \A g \in Fd : Registered(req'[u], g) <=> Registered(req[u], g)
    BY <1>2, <1>9, <1>11, <1>16 DEF Registered, q
  <1>19. KeysHeld' /\ HeldKeyed' /\ KeysUnique' /\ BosDistinct'
    BY <1>2, <1>18 DEF IInv, TableInv, KeysHeld, HeldKeyed, KeysUnique, BosDistinct
  <1>20. Releasing'
    <2> SUFFICES ASSUME NEW u \in Thread, req'[u].step \in {"free_destroy", "free_delete"}
                 PROVE  /\ [fd |-> Head(req'[u].handles), bo |-> req'[u].bo] \in android_buffer_table'
                        /\ req'[u].step = "free_delete" => bos'[req'[u].bo].buf = NoBuf
      BY DEF Releasing, EntryOf, Live
    <2>1. req'[u] = req[u]
      BY <1>9, <1>16
    <2>2. [fd |-> Head(req[u].handles), bo |-> req[u].bo] \in android_buffer_table
      BY <2>1 DEF IInv, TableInv, Releasing, EntryOf
    <2>3. req[u].bo \in Bo /\ req[u].bo # bo
      BY <1>5, <2>2, EntriesOpen
    <2> QED
      BY <1>2, <1>8, <2>1, <2>2, <2>3 DEF IInv, TableInv, Releasing, Live
  <1>21. Making'
    <2> SUFFICES ASSUME NEW u \in Thread, req'[u].step = "new_add"
                 PROVE  /\ bos'[req'[u].bo].buf # NoBuf /\ bos'[req'[u].bo].buf = fds'[req'[u].fd]
                        /\ \A e \in android_buffer_table' : e.bo # req'[u].bo
                        /\ \A v \in Thread : v # u /\ req'[v].step = "new_add" => req'[v].bo # req'[u].bo
      BY DEF Making, Live
    <2>1. \A v \in Thread : v # t /\ req'[v].step = "new_add" =>
             /\ req'[v] = req[v] /\ req[v].bo \in Bo /\ req[v].bo # bo
             /\ req[v].fd \in Fd /\ fds[req[v].fd] # NoBuf
      BY <1>5, <1>16, OwnedFacts DEF IInv, TableInv, Making, Formed, Owned
    <2>2. CASE u = t
      BY <1>2, <1>4, <1>5, <1>7, <1>8, <1>9, <1>16, <2>1, <2>2, <1>3
    <2>3. CASE u # t
      <3>1. bos'[req[u].bo] = bos[req[u].bo] /\ fds'[req[u].fd] = fds[req[u].fd] /\ req'[u] = req[u]
        BY <1>3, <1>7, <1>8, <2>1, <2>3
      <3>2. \A v \in Thread : v # u /\ req'[v].step = "new_add" => req'[v].bo # req[u].bo
        BY <1>9, <1>16, <2>1, <2>3, <3>1 DEF IInv, TableInv, Making
      <3> QED
        BY <1>2, <3>1, <3>2 DEF IInv, TableInv, Making, Live
    <2> QED
      BY <2>2, <2>3
  <1>22. KeyNamesBo'
    <2> SUFFICES ASSUME NEW e \in android_buffer_table', ~Dying(e)'
                 PROVE  bos'[e.bo].buf # NoBuf /\ fds'[e.fd] = bos'[e.bo].buf
      BY DEF KeyNamesBo, Live
    <2>1. e \in android_buffer_table /\ ~Dying(e)
      BY <1>2, <1>16 DEF Dying, EntryOf, q
    <2>2. e.bo \in Bo /\ e.bo # bo /\ e.fd \in Fd /\ fds[e.fd] # NoBuf
      BY <1>5, <2>1, EntriesOpen
    <2> QED
      BY <1>3, <1>7, <1>8, <2>1, <2>2, NullAssumption DEF IInv, TableInv, KeyNamesBo, Live
  <1>23. NoOrphanBo'
    <2> SUFFICES ASSUME NEW x \in Bo \ lost', bos'[x].buf # NoBuf
                 PROVE  \/ \E e \in android_buffer_table' : e.bo = x
                        \/ \E u \in Thread : req'[u].bo = x /\ req'[u].step = "new_add"
      BY DEF NoOrphanBo, Live
    <2>1. CASE x = bo
      BY <1>9, <1>16, <2>1
    <2>2. CASE x # bo
      BY <1>2, <1>8, <1>16, <2>2 DEF IInv, TableInv, NoOrphanBo, Live, q
    <2> QED
      BY <2>1, <2>2
  <1> QED
    BY <1>2, <1>7, <1>8, <1>16, <1>17, <1>19, <1>20, <1>21, <1>22, <1>23
    DEF IInv, TypeOK, LibTypeOK, TableInv

LEMMA NewAddKeeps == ASSUME IInv, Plenty, NEW t \in Thread, NewAdd(t) PROVE IInv'
PROOF
  <1> DEFINE q == req[t]
             r0 == [q EXCEPT !.todo = @ - 1, !.handles = Append(@, q.fd)]
             r == MakeNext(r0)
             n == [fd |-> q.fd, bo |-> q.bo]
             O == {}
  <1>1. q.step = "new_add" /\ UNCHANGED <<bos, lost>> /\ req' = [req EXCEPT ![t] = r]
        /\ android_buffer_table' = android_buffer_table \cup {n}
    BY DEF NewAdd, add_buffer
  <1>2. q \in Request /\ Formed(q) /\ \A g \in Owned(q) : g \in Fd /\ fds[g] # NoBuf
    BY OwnedFacts
  <1>3. /\ q.handles \in Seq(Fd) /\ Injective(q.handles) /\ q.out = {} /\ ~q.failed /\ q.todo > 0
        /\ Len(q.handles) + q.todo = q.count /\ q.fd \in Fd /\ q.bo \in Bo /\ q.fd \notin Held(q)
        /\ Owned(q) = Held(q) \cup {q.fd}
    BY <1>1, <1>2 DEF Formed, MakeSteps, Owned
  <1>4. PICK f \in FreshFds : fds' = Opened(f, bos[q.bo].buf)
    BY DEF NewAdd
  <1>5. f \in Fd /\ fds[f] = NoBuf
    BY FreshFdsClosed DEF ClosedFds
  <1>6. bos[q.bo].buf \in Buf \cup {NoBuf}
    BY <1>3 DEF IInv, TypeOK, LibTypeOK, BoState
  <1>7. fds' \in [Fd -> Buf \cup {NoBuf}] /\ \A g \in Fd : g # f => fds'[g] = fds[g]
    BY <1>4, <1>5, <1>6, NullAssumption DEF IInv, TypeOK, LibTypeOK, Opened
  <1>8. /\ Append(q.handles, q.fd) \in Seq(Fd) /\ Len(Append(q.handles, q.fd)) = Len(q.handles) + 1
        /\ RangeOf(Append(q.handles, q.fd)) = Held(q) \cup {q.fd} /\ Injective(Append(q.handles, q.fd))
    BY <1>3, AppendRange DEF Held
  <1>9. /\ r0 \in Request /\ r0.handles = Append(q.handles, q.fd) /\ r0.out = {} /\ ~r0.failed
        /\ r0.todo = q.todo - 1 /\ r0.count = q.count
    <2>1. Append(q.handles, q.fd) \in Seq(Fd \cup {NoFd}) /\ q.todo - 1 \in Nat
      BY <1>2, <1>3 DEF Request
    <2> HIDE DEF q
    <2> QED
      BY <1>2, <1>3, <2>1 DEF Request
  <1> HIDE DEF r0
  <1>10. Len(r0.handles) + r0.todo = r0.count
    <2> DEFINE m == Len(q.handles)
               k == q.todo
    <2>1. m \in Nat /\ k \in Nat /\ m + k = q.count
      BY <1>2, <1>3 DEF Request
    <2> HIDE DEF m, k
    <2>2. (m + 1) + (k - 1) = q.count
      BY <2>1
    <2> QED
      BY <1>8, <1>9, <2>2 DEF m, k
  <1>11. /\ r \in Request /\ Formed(r) /\ r.handles = Append(q.handles, q.fd) /\ r.out = {}
         /\ r.step \in {"free_find", "reply", "new_bo"}
    BY <1>8, <1>9, <1>10, MakeNextFormed
  <1> HIDE DEF r
  <1>12. Held(r) = Owned(q) /\ Owned(r) = Owned(q)
    BY <1>3, <1>8, <1>11 DEF Held, Owned
  <1>13. \A g \in Fd : fds[g] # NoBuf /\ g \notin Owned(q) \ Owned(r) => fds'[g] = fds[g]
    BY <1>5, <1>7
  <1>14. /\ (\A g \in O : fds'[g] # NoBuf) /\ (\A x \in O : \A g \in Fd : fds[g] # fds'[x]) /\ (\A x, y \in O : x = y)
         /\ O \subseteq ClosedFds /\ Owned(r) \subseteq Owned(q) \cup O
    BY <1>12
  <1>15. \A x, y \in Owned(r) : ~Pair(q, x, y)
    BY <1>1 DEF Pair, ReleaseSteps
  <1> HIDE DEF O, q, n
  <1>16. /\ req' \in [Thread -> Request] /\ RequestsFormed' /\ OwnersOpen' /\ OwnersDistinct'
         /\ \A u \in Thread : req'[u] = IF u = t THEN r ELSE req[u]
    BY <1>1, <1>11, <1>13, <1>14, OwnersKeep DEF q
  <1>17. MemoryDistinct'
    BY <1>13, <1>14, <1>15, <1>16, MemoryKeeps DEF q
  <1>18. \A u \in Thread : \A g : Registered(req'[u], g) <=> Registered(req[u], g) \/ (u = t /\ g = q.fd)
    BY <1>1, <1>3, <1>11, <1>12, <1>16 DEF Registered, q
  <1>19. n.fd = q.fd /\ n.bo = q.bo /\ n \in Entry
    BY <1>3 DEF n, Entry
  <1>20. \A e \in android_buffer_table : e.fd # q.fd
    <2> SUFFICES ASSUME NEW e \in android_buffer_table, e.fd = q.fd PROVE FALSE
      OBVIOUS
    <2>1. PICK u \in Thread : e.fd \in Held(req[u])
      BY DEF IInv, TableInv, KeysHeld, Registered
    <2>2. u # t
      BY <1>3, <2>1 DEF q
    <2> QED
      BY <1>3, <2>1, <2>2 DEF IInv, OwnersDistinct, Owned, q
  <1>21. Live(q.bo) /\ bos[q.bo].buf = fds[q.fd] /\ \A e \in android_buffer_table : e.bo # q.bo
    BY <1>1 DEF IInv, TableInv, Making, q
  <1>22. KeysHeld' /\ HeldKeyed' /\ KeysUnique' /\ BosDistinct'
    <2>1. KeysHeld'
      BY <1>1, <1>3, <1>18, <1>19 DEF IInv, TableInv, KeysHeld
    <2>2. HeldKeyed'
      BY <1>1, <1>18, <1>19 DEF IInv, TableInv, HeldKeyed
    <2>3. KeysUnique' /\ BosDistinct'
      BY <1>1, <1>19, <1>20, <1>21 DEF IInv, TableInv, KeysUnique, BosDistinct
    <2> QED
      BY <2>1, <2>2, <2>3
  <1>23. Releasing'
    BY <1>1, <1>11, <1>16 DEF IInv, TableInv, Releasing, EntryOf, Live
  <1>24. Making'
    <2> SUFFICES ASSUME NEW u \in Thread, req'[u].step = "new_add"
                 PROVE  /\ bos'[req'[u].bo].buf # NoBuf /\ bos'[req'[u].bo].buf = fds'[req'[u].fd]
                        /\ \A e \in android_buffer_table' : e.bo # req'[u].bo
                        /\ \A v \in Thread : v # u /\ req'[v].step = "new_add" => req'[v].bo # req'[u].bo
      BY DEF Making, Live
    <2>1. u # t /\ req'[u] = req[u]
      BY <1>11, <1>16
    <2>2. req[u].fd \in Fd /\ fds[req[u].fd] # NoBuf
      BY <2>1, OwnedFacts DEF Owned
    <2>3. fds'[req[u].fd] = fds[req[u].fd]
      BY <1>5, <1>7, <2>2
    <2>4. req[u].bo # q.bo
      BY <1>1, <2>1 DEF IInv, TableInv, Making, q
    <2>5. \A v \in Thread : v # u /\ req'[v].step = "new_add" => req'[v].bo # req[u].bo
      BY <1>11, <1>16, <2>1 DEF IInv, TableInv, Making
    <2> QED
      BY <1>1, <1>19, <2>1, <2>3, <2>4, <2>5 DEF IInv, TableInv, Making, Live
  <1>25. KeyNamesBo'
    <2> SUFFICES ASSUME NEW e \in android_buffer_table', ~Dying(e)'
                 PROVE  bos'[e.bo].buf # NoBuf /\ fds'[e.fd] = bos'[e.bo].buf
      BY DEF KeyNamesBo, Live
    <2>1. CASE e = n
      BY <1>1, <1>3, <1>5, <1>7, <1>19, <1>21, <2>1 DEF Live
    <2>2. CASE e # n
      <3>1. e \in android_buffer_table
        BY <1>1, <2>2
      <3>2. ~Dying(e)
        BY <1>1, <1>16 DEF Dying, EntryOf, q
      <3>3. e.fd \in Fd /\ fds[e.fd] # NoBuf
        BY <3>1, EntriesOpen
      <3> QED
        BY <1>1, <1>5, <1>7, <3>1, <3>2, <3>3, NullAssumption DEF IInv, TableInv, KeyNamesBo, Live
    <2> QED
      BY <2>1, <2>2
  <1>26. NoOrphanBo'
    <2> SUFFICES ASSUME NEW x \in Bo \ lost', bos'[x].buf # NoBuf
                 PROVE  \/ \E e \in android_buffer_table' : e.bo = x
                        \/ \E u \in Thread : req'[u].bo = x /\ req'[u].step = "new_add"
      BY DEF NoOrphanBo, Live
    <2>1. CASE x = q.bo
      BY <1>1, <1>19, <2>1
    <2>2. CASE x # q.bo
      BY <1>1, <1>16, <2>2 DEF IInv, TableInv, NoOrphanBo, Live, q
    <2> QED
      BY <2>1, <2>2
  <1>27. bos' \in [Bo -> BoState] /\ lost' \subseteq Bo /\ android_buffer_table' \subseteq Entry
    BY <1>1, <1>19 DEF IInv, TypeOK, LibTypeOK
  <1> QED
    BY <1>7, <1>16, <1>17, <1>22, <1>23, <1>24, <1>25, <1>26, <1>27 DEF IInv, TypeOK, LibTypeOK, TableInv

LEMMA FreeFindKeeps == ASSUME IInv, Plenty, NEW t \in Thread, FreeFind(t) PROVE IInv'
PROOF
  <1> DEFINE q == req[t]
             h == Head(q.handles)
  <1>1. PICK f \in Duplicates(q), bo \in FoundBy(q) :
          /\ fds' = IF f = NoFd THEN fds ELSE Opened(f, fds[h])
          /\ req' = [req EXCEPT ![t].out = IF q.failed THEN @ ELSE @ \cup {f},
                                ![t].bo = bo,
                                ![t].step = IF bo = NoBo THEN "close" ELSE "free_destroy"]
    BY DEF FreeFind
  <1> DEFINE out == IF q.failed THEN q.out ELSE q.out \cup {f}
             r == [q EXCEPT !.out = out, !.bo = bo, !.step = "free_destroy"]
             O == IF q.failed THEN {} ELSE {f}
             N == {}
  <1>2. q.step = "free_find" /\ UNCHANGED <<bos, android_buffer_table, lost>>
    BY DEF FreeFind
  <1>3. q \in Request /\ Formed(q) /\ \A g \in Owned(q) : g \in Fd /\ fds[g] # NoBuf
    BY OwnedFacts
  <1>4. /\ q.handles \in Seq(Fd) /\ q.handles # <<>> /\ Injective(q.handles) /\ Held(q) \cap q.out = {}
        /\ q.out \subseteq Fd /\ IsFiniteSet(q.out) /\ (q.failed => q.out = {})
        /\ (~q.failed => Cardinality(q.out) + Len(q.handles) = q.count)
        /\ Owned(q) = Held(q) \cup q.out
    BY <1>2, <1>3 DEF Formed, Owned
  <1>5. h \in Held(q) /\ h \in Fd /\ fds[h] # NoBuf /\ h # NoFd /\ h \in Owned(q)
    BY <1>3, <1>4, TailRange, NullAssumption DEF Held
  <1>6. bo \in Bo /\ bo # NoBo /\ [fd |-> h, bo |-> bo] \in android_buffer_table
    <2>1. Registered(q, h)
      BY <1>2, <1>5 DEF Registered
    <2>2. PICK e \in android_buffer_table : e.fd = h
      BY <1>5, <2>1 DEF IInv, TableInv, HeldKeyed
    <2>3. e.bo \in find_buffer_k(h)
      BY <2>2 DEF find_buffer_k
    <2>4. bo \in find_buffer_k(h)
      BY <2>3 DEF FoundBy
    <2>5. PICK d \in android_buffer_table : d.fd = h /\ d.bo = bo
      BY <2>4 DEF find_buffer_k
    <2> QED
      BY <2>5, EntriesOpen, AllocatorAssumption
  <1>7. IF q.failed THEN f = NoFd ELSE f \in Fd /\ fds[f] = NoBuf
    BY <1>5, FreshFdsClosed DEF Duplicates, ClosedFds
  <1>8. fds' \in [Fd -> Buf \cup {NoBuf}] /\ \A g \in Fd : fds'[g] = IF g \in O THEN fds[h] ELSE fds[g]
    BY <1>1, <1>5, <1>7, NullAssumption DEF IInv, TypeOK, LibTypeOK, Opened
  <1>9. out \subseteq Fd /\ O \subseteq ClosedFds /\ out = q.out \cup O
    BY <1>4, <1>7 DEF ClosedFds
  <1>10. /\ r \in Request /\ r.step = "free_destroy" /\ r.bo = bo /\ r.fd = q.fd /\ r.handles = q.handles
         /\ r.out = out /\ r.failed = q.failed /\ r.count = q.count
    <2>1. out \in SUBSET (Fd \cup {NoFd})
      BY <1>9
    <2> HIDE DEF out, q
    <2> QED
      BY <1>3, <1>6, <2>1 DEF Request, Steps
  <1>11. req' = [req EXCEPT ![t] = r]
    BY <1>1, <1>6 DEF IInv, TypeOK
  <1> HIDE DEF r
  <1>12. Held(r) = Held(q) /\ Owned(r) = Owned(q) \cup O
    BY <1>4, <1>9, <1>10 DEF Held, Owned
  <1>13. f \notin Owned(q) /\ IsFiniteSet(out) /\ (r.failed => out = {})
    BY <1>3, <1>4, <1>7, <1>10, FS_AddElement, NullAssumption
  <1>14. ~r.failed => Cardinality(out) + Len(r.handles) = r.count + 1
    <2> DEFINE m == Cardinality(q.out)
               n == Len(q.handles)
               c == q.count
    <2>1. m \in Nat /\ n \in Nat /\ c \in Nat
      BY <1>3, <1>4, FS_CardinalityType DEF Request
    <2>2. ~q.failed => m + n = c /\ Cardinality(out) = m + 1
      BY <1>4, <1>13, FS_AddElement
    <2> HIDE DEF m, n, c, out
    <2>3. ~q.failed => (m + 1) + n = c + 1
      BY <2>1, <2>2
    <2> QED
      BY <1>10, <2>2, <2>3 DEF n, c
  <1>15. Formed(r)
    <2>1. Held(r) \cap out = {}
      BY <1>4, <1>12, <1>13
    <2>2. r.failed \/ ~r.failed
      OBVIOUS
    <2> HIDE DEF out, q
    <2> QED
      BY <1>4, <1>6, <1>9, <1>10, <1>13, <1>14, <2>1, <2>2 DEF Formed, MakeSteps, ReleaseSteps
  <1>16. \A g \in Fd : fds[g] # NoBuf /\ g \notin Owned(q) \ Owned(r) => fds'[g] = fds[g]
    BY <1>8, <1>9 DEF ClosedFds
  <1>17. (\A g \in O : fds'[g] # NoBuf) /\ Owned(r) \subseteq Owned(q) \cup O
    BY <1>5, <1>8, <1>9, <1>12 DEF ClosedFds
  <1>18. \A x, y : ~Pair(q, x, y)
    BY <1>2 DEF Pair, ReleaseSteps
  <1>19. \A x, y \in O : x = y
    OBVIOUS
  <1> HIDE DEF O, q
  <1>20. /\ req' \in [Thread -> Request] /\ RequestsFormed' /\ OwnersOpen' /\ OwnersDistinct'
         /\ \A u \in Thread : req'[u] = IF u = t THEN r ELSE req[u]
    BY <1>9, <1>10, <1>11, <1>15, <1>16, <1>17, OwnersKeep DEF q
  <1>21. \A u \in Thread : \A x \in Owned(req'[u]) :
           \/ u = t /\ x \in O /\ fds'[x] = fds[h] /\ x \in out
           \/ x \in Owned(req[u]) /\ x \notin O /\ fds'[x] = fds[x]
    <2> TAKE u \in Thread
    <2> TAKE x \in Owned(req'[u])
    <2>1. \A g \in Owned(req[u]) : g \in Fd /\ fds[g] # NoBuf /\ g \notin O
      BY <1>9, OwnedFacts DEF ClosedFds
    <2>2. CASE u = t
      BY <1>8, <1>9, <1>12, <1>20, <2>1, <2>2 DEF q, ClosedFds
    <2>3. CASE u # t
      BY <1>8, <1>20, <2>1, <2>3
    <2> QED
      BY <2>2, <2>3
  <1>22. MemoryDistinct'
    <2> SUFFICES ASSUME NEW u \in Thread, NEW v \in Thread, NEW x \in Owned(req'[u]), NEW y \in Owned(req'[v]),
                        fds'[x] = fds'[y], x # y
                 PROVE  u = v /\ Pair(req'[u], x, y)
      BY DEF MemoryDistinct
    <2>1. \A w \in Thread : \A z \in Owned(req[w]) : fds[z] = fds[h] => z = h /\ w = t
      <3> TAKE w \in Thread
      <3> TAKE z \in Owned(req[w])
      <3>1. fds[z] = fds[h] => z = h \/ (w = t /\ Pair(req[w], z, h))
        BY <1>5 DEF IInv, MemoryDistinct, q
      <3>2. z = h => w = t
        BY <1>5 DEF IInv, OwnersDistinct, q
      <3> QED
        BY <1>18, <3>1, <3>2 DEF q
    <2>2. Pair(r, x, y) <=> (x = h /\ y \in out) \/ (y = h /\ x \in out)
      BY <1>10 DEF Pair, ReleaseSteps
    <2>3. CASE x \in O
      <3>1. y \notin O
        BY <1>19, <2>3
      <3>2. u = t /\ fds'[x] = fds[h] /\ x \in out /\ y \in Owned(req[v]) /\ fds'[y] = fds[y]
        BY <1>21, <2>3, <3>1
      <3> QED
        BY <1>20, <2>1, <2>2, <3>2
    <2>4. CASE y \in O
      <3>1. x \notin O
        BY <1>19, <2>4
      <3>2. v = t /\ fds'[y] = fds[h] /\ y \in out /\ x \in Owned(req[u]) /\ fds'[x] = fds[x]
        BY <1>21, <2>4, <3>1
      <3> QED
        BY <1>20, <2>1, <2>2, <3>2
    <2>5. CASE x \notin O /\ y \notin O
      <3>1. x \in Owned(req[u]) /\ y \in Owned(req[v]) /\ fds[x] = fds[y]
        BY <1>21, <2>5
      <3>2. u = v /\ Pair(req[u], x, y)
        BY <3>1 DEF IInv, MemoryDistinct
      <3> QED
        BY <1>18, <1>20, <3>2 DEF q
    <2> QED
      BY <2>3, <2>4, <2>5
  <1>23. TableInv'
    <2>1. \A g \in Fd : Registered(r, g) <=> Registered(q, g)
      BY <1>2, <1>10, <1>12 DEF Registered
    <2>2. /\ q.step # "free_delete" /\ q.step # "new_add"
          /\ r.step \notin {"new_add", "free_delete"} /\ lost \subseteq lost'
          /\ [fd |-> Head(r.handles), bo |-> r.bo] \in android_buffer_table
          /\ UNCHANGED <<bos, android_buffer_table>>
          /\ Owned(q) \ Owned(r) \subseteq {g \in Fd : ~Registered(q, g)}
      BY <1>2, <1>6, <1>10, <1>12
    <2> HIDE DEF h
    <2> QED
      BY <1>16, <1>20, <2>1, <2>2, TableKeeps DEF q
  <1> QED
    BY <1>2, <1>8, <1>20, <1>22, <1>23 DEF IInv, TypeOK, LibTypeOK

LEMMA FreeDestroyKeeps == ASSUME IInv, NEW t \in Thread, FreeDestroy(t) PROVE IInv'
PROOF
  <1> DEFINE q == req[t]
             r == [q EXCEPT !.step = "free_delete"]
             N == {}
  <1>1. /\ q.step = "free_destroy" /\ UNCHANGED <<android_buffer_table, lost>>
        /\ req' = [req EXCEPT ![t] = r] /\ bos' = [bos EXCEPT ![q.bo] = DeadBo]
    BY DEF FreeDestroy, gbm_bo_destroy, IInv, TypeOK
  <1>2. fds' \in [Fd -> Buf \cup {NoBuf}] /\ \A g \in Fd : fds'[g] = fds[g]
    BY DEF FreeDestroy, IInv, TypeOK, LibTypeOK
  <1>3. q \in Request /\ Formed(q)
    BY OwnedFacts
  <1>4. q.bo \in Bo /\ EntryOf(t) \in android_buffer_table /\ EntryOf(t).bo = q.bo
    BY <1>1 DEF IInv, TableInv, Releasing, EntryOf, Entry, TypeOK, LibTypeOK
  <1>5. bos' \in [Bo -> BoState] /\ bos'[q.bo].buf = NoBuf /\ \A x \in Bo : x # q.bo => bos'[x] = bos[x]
    BY <1>1, <1>4, NewBoTyped DEF IInv, TypeOK, LibTypeOK, DeadBo
  <1>6. /\ r \in Request /\ r.step = "free_delete" /\ r.bo = q.bo /\ r.handles = q.handles
        /\ r.out = q.out /\ r.failed = q.failed /\ r.count = q.count
    BY <1>3 DEF Request, Steps
  <1> HIDE DEF r
  <1>7. Held(r) = Held(q) /\ Owned(r) = Owned(q)
    BY <1>1, <1>6 DEF Held, Owned
  <1>8. Formed(r)
    BY <1>1, <1>3, <1>6, <1>7 DEF Formed, MakeSteps, ReleaseSteps
  <1>9. \A g \in Fd : fds[g] # NoBuf /\ g \notin Owned(q) \ Owned(r) => fds'[g] = fds[g]
    BY <1>2
  <1>10. /\ (\A g \in N : fds'[g] # NoBuf) /\ (\A x \in N : \A g \in Fd : fds[g] # fds'[x]) /\ (\A x, y \in N : x = y)
         /\ N \subseteq ClosedFds /\ Owned(r) \subseteq Owned(q) \cup N
    BY <1>7
  <1>11. \A x, y \in Owned(r) : Pair(q, x, y) => Pair(r, x, y)
    BY <1>6 DEF Pair, ReleaseSteps
  <1> HIDE DEF N, q
  <1>12. /\ req' \in [Thread -> Request] /\ RequestsFormed' /\ OwnersOpen' /\ OwnersDistinct'
         /\ \A u \in Thread : req'[u] = IF u = t THEN r ELSE req[u]
    BY <1>1, <1>6, <1>8, <1>9, <1>10, OwnersKeep DEF q
  <1>13. MemoryDistinct'
    BY <1>9, <1>10, <1>11, <1>12, MemoryKeeps DEF q
  <1>14. \A u \in Thread : \A g : Registered(req'[u], g) <=> Registered(req[u], g)
    BY <1>1, <1>6, <1>7, <1>12 DEF Registered, q
  <1>15. KeysHeld' /\ HeldKeyed' /\ KeysUnique' /\ BosDistinct'
    BY <1>1, <1>14 DEF IInv, TableInv, KeysHeld, HeldKeyed, KeysUnique, BosDistinct
  <1>16. \A u \in Thread : EntryOf(u)' = EntryOf(u)
    BY <1>6, <1>12 DEF EntryOf, q
  <1>17. Releasing'
    <2> SUFFICES ASSUME NEW u \in Thread, req'[u].step \in {"free_destroy", "free_delete"}
                 PROVE  /\ EntryOf(u)' \in android_buffer_table'
                        /\ req'[u].step = "free_delete" => bos'[req'[u].bo].buf = NoBuf
      BY DEF Releasing, Live
    <2>1. CASE u = t
      BY <1>1, <1>4, <1>5, <1>6, <1>12, <1>16, <2>1
    <2>2. CASE u # t
      <3>1. req'[u] = req[u] /\ EntryOf(u) \in android_buffer_table
        BY <1>12, <2>2 DEF IInv, TableInv, Releasing
      <3>2. EntryOf(u).bo = req[u].bo /\ req[u].bo \in Bo
        BY <3>1 DEF EntryOf, IInv, TypeOK, LibTypeOK, Entry
      <3> QED
        BY <1>1, <1>5, <1>16, <3>1, <3>2 DEF IInv, TableInv, Releasing, Live
    <2> QED
      BY <2>1, <2>2
  <1>18. Making'
    <2> SUFFICES ASSUME NEW u \in Thread, req'[u].step = "new_add"
                 PROVE  /\ bos'[req'[u].bo].buf # NoBuf /\ bos'[req'[u].bo].buf = fds'[req'[u].fd]
                        /\ \A e \in android_buffer_table' : e.bo # req'[u].bo
                        /\ \A v \in Thread : v # u /\ req'[v].step = "new_add" => req'[v].bo # req'[u].bo
      BY DEF Making, Live
    <2>1. u # t /\ req'[u] = req[u] /\ req[u].bo \in Bo /\ req[u].fd \in Fd
      BY <1>6, <1>12, OwnedFacts DEF Formed
    <2>2. req[u].bo # q.bo
      BY <1>4, <2>1 DEF IInv, TableInv, Making
    <2>3. \A v \in Thread : v # u /\ req'[v].step = "new_add" => req'[v].bo # req[u].bo
      BY <1>6, <1>12, <2>1 DEF IInv, TableInv, Making
    <2> QED
      BY <1>1, <1>2, <1>5, <2>1, <2>2, <2>3 DEF IInv, TableInv, Making, Live
  <1>19. KeyNamesBo'
    <2> SUFFICES ASSUME NEW e \in android_buffer_table', ~Dying(e)'
                 PROVE  bos'[e.bo].buf # NoBuf /\ fds'[e.fd] = bos'[e.bo].buf
      BY DEF KeyNamesBo, Live
    <2>1. e \in android_buffer_table
      BY <1>1
    <2>2. ~Dying(e)
      BY <1>1, <1>12, <1>16 DEF Dying, q
    <2>3. e # EntryOf(t)
      BY <1>6, <1>12, <1>16 DEF Dying
    <2>4. e.bo # q.bo /\ e.bo \in Bo /\ e.fd \in Fd
      BY <1>4, <2>1, <2>3, EntriesOpen DEF IInv, TableInv, BosDistinct
    <2> QED
      BY <1>2, <1>5, <2>1, <2>2, <2>4, NullAssumption DEF IInv, TableInv, KeyNamesBo, Live
  <1>20. NoOrphanBo'
    <2> SUFFICES ASSUME NEW x \in Bo \ lost', bos'[x].buf # NoBuf
                 PROVE  \/ \E e \in android_buffer_table' : e.bo = x
                        \/ \E u \in Thread : req'[u].bo = x /\ req'[u].step = "new_add"
      BY DEF NoOrphanBo, Live
    <2> QED
      BY <1>1, <1>5, <1>12 DEF IInv, TableInv, NoOrphanBo, Live, q
  <1> QED
    BY <1>1, <1>2, <1>5, <1>12, <1>13, <1>15, <1>17, <1>18, <1>19, <1>20
    DEF IInv, TypeOK, LibTypeOK, TableInv

LEMMA FreeDeleteKeeps == ASSUME IInv, NEW t \in Thread, FreeDelete(t) PROVE IInv'
PROOF
  <1> DEFINE q == req[t]
             h == Head(q.handles)
             r == [q EXCEPT !.step = "close"]
             N == {}
  <1>1. /\ q.step = "free_delete" /\ UNCHANGED <<bos, lost>>
        /\ req' = [req EXCEPT ![t] = r] /\ android_buffer_table' = android_buffer_table \ {EntryOf(t)}
    BY DEF FreeDelete, delete_buffer, EntryOf, IInv, TypeOK
  <1>2. fds' \in [Fd -> Buf \cup {NoBuf}] /\ \A g \in Fd : fds'[g] = fds[g]
    BY DEF FreeDelete, IInv, TypeOK, LibTypeOK
  <1>3. q \in Request /\ Formed(q)
    BY OwnedFacts
  <1>4. h \in Held(q) /\ h \in Owned(q)
    BY <1>1, <1>3, TailRange DEF Held, Owned, Formed, ReleaseSteps
  <1>5. /\ EntryOf(t) \in android_buffer_table /\ EntryOf(t).fd = h /\ EntryOf(t).bo = q.bo /\ ~Live(q.bo)
    BY <1>1 DEF IInv, TableInv, Releasing, EntryOf
  <1>6. /\ r \in Request /\ r.step = "close" /\ r.bo = q.bo /\ r.handles = q.handles
        /\ r.out = q.out /\ r.failed = q.failed /\ r.count = q.count
    BY <1>3 DEF Request, Steps
  <1> HIDE DEF r
  <1>7. Held(r) = Held(q) /\ Owned(r) = Owned(q)
    BY <1>1, <1>6 DEF Held, Owned
  <1>8. Formed(r)
    BY <1>1, <1>3, <1>6, <1>7 DEF Formed, MakeSteps, ReleaseSteps
  <1>9. \A g \in Fd : fds[g] # NoBuf /\ g \notin Owned(q) \ Owned(r) => fds'[g] = fds[g]
    BY <1>2
  <1>10. /\ (\A g \in N : fds'[g] # NoBuf) /\ (\A x \in N : \A g \in Fd : fds[g] # fds'[x]) /\ (\A x, y \in N : x = y)
         /\ N \subseteq ClosedFds /\ Owned(r) \subseteq Owned(q) \cup N
    BY <1>7
  <1>11. \A x, y \in Owned(r) : Pair(q, x, y) => Pair(r, x, y)
    BY <1>6 DEF Pair, ReleaseSteps
  <1> HIDE DEF N, q
  <1>12. /\ req' \in [Thread -> Request] /\ RequestsFormed' /\ OwnersOpen' /\ OwnersDistinct'
         /\ \A u \in Thread : req'[u] = IF u = t THEN r ELSE req[u]
    BY <1>1, <1>6, <1>8, <1>9, <1>10, OwnersKeep DEF q
  <1>13. MemoryDistinct'
    BY <1>9, <1>10, <1>11, <1>12, MemoryKeeps DEF q
  <1> HIDE DEF h
  <1>14. \A u \in Thread : \A g : Registered(req'[u], g) <=> Registered(req[u], g) /\ ~(u = t /\ g = h)
    BY <1>1, <1>6, <1>7, <1>12 DEF Registered, q, h
  <1>15. \A u \in Thread : \A g : Registered(req[u], g) /\ u # t => g # h
    BY <1>4 DEF IInv, OwnersDistinct, Registered, Owned, q
  <1>16. \A e \in android_buffer_table : e.fd = h <=> e = EntryOf(t)
    BY <1>5 DEF IInv, TableInv, KeysUnique
  <1>17. KeysHeld' /\ HeldKeyed' /\ KeysUnique' /\ BosDistinct'
    <2>1. KeysHeld'
      BY <1>1, <1>14, <1>16 DEF IInv, TableInv, KeysHeld
    <2>2. HeldKeyed'
      BY <1>1, <1>14, <1>15, <1>16 DEF IInv, TableInv, HeldKeyed
    <2>3. KeysUnique' /\ BosDistinct'
      BY <1>1 DEF IInv, TableInv, KeysUnique, BosDistinct
    <2> QED
      BY <2>1, <2>2, <2>3
  <1>18. \A u \in Thread : EntryOf(u)' = EntryOf(u)
    BY <1>6, <1>12 DEF EntryOf, q
  <1>19. Releasing'
    <2> SUFFICES ASSUME NEW u \in Thread, req'[u].step \in {"free_destroy", "free_delete"}
                 PROVE  /\ EntryOf(u)' \in android_buffer_table'
                        /\ req'[u].step = "free_delete" => bos'[req'[u].bo].buf = NoBuf
      BY DEF Releasing, Live
    <2>1. u # t /\ req'[u] = req[u] /\ EntryOf(u) \in android_buffer_table
      BY <1>6, <1>12 DEF IInv, TableInv, Releasing
    <2>2. Head(req[u].handles) \in Held(req[u]) /\ EntryOf(u).fd = Head(req[u].handles)
      BY <2>1, OwnedFacts, TailRange DEF Held, Formed, ReleaseSteps, EntryOf
    <2>3. EntryOf(u).fd # h
      BY <1>15, <2>1, <2>2 DEF Registered
    <2>4. EntryOf(u) # EntryOf(t)
      BY <1>5, <2>3
    <2> QED
      BY <1>1, <1>18, <2>1, <2>4 DEF IInv, TableInv, Releasing, Live
  <1>20. Making'
    BY <1>1, <1>2, <1>6, <1>12, OwnedFacts DEF IInv, TableInv, Making, Live, Formed
  <1>21. KeyNamesBo'
    <2> SUFFICES ASSUME NEW e \in android_buffer_table', ~Dying(e)'
                 PROVE  bos'[e.bo].buf # NoBuf /\ fds'[e.fd] = bos'[e.bo].buf
      BY DEF KeyNamesBo, Live
    <2>1. e \in android_buffer_table /\ e # EntryOf(t)
      BY <1>1
    <2>2. ~Dying(e)
      BY <1>12, <1>18, <2>1 DEF Dying
    <2> QED
      BY <1>1, <1>2, <2>1, <2>2, EntriesOpen, NullAssumption DEF IInv, TableInv, KeyNamesBo, Live
  <1>22. NoOrphanBo'
    <2> SUFFICES ASSUME NEW x \in Bo \ lost', bos'[x].buf # NoBuf
                 PROVE  \/ \E e \in android_buffer_table' : e.bo = x
                        \/ \E u \in Thread : req'[u].bo = x /\ req'[u].step = "new_add"
      BY DEF NoOrphanBo, Live
    <2>1. x # q.bo
      BY <1>1, <1>5 DEF Live
    <2> QED
      BY <1>1, <1>5, <1>12, <2>1 DEF IInv, TableInv, NoOrphanBo, Live, q
  <1>23. android_buffer_table' \subseteq Entry /\ lost' \subseteq Bo /\ bos' \in [Bo -> BoState]
    BY <1>1 DEF IInv, TypeOK, LibTypeOK
  <1> QED
    BY <1>2, <1>12, <1>13, <1>17, <1>19, <1>20, <1>21, <1>22, <1>23 DEF IInv, TypeOK, LibTypeOK, TableInv

-----------------------------------------------------------------------------
LEMMA InvNext == IInv /\ Plenty /\ [Next]_vars => IInv'
PROOF
  <1> SUFFICES ASSUME IInv, Plenty, [Next]_vars PROVE IInv'
    OBVIOUS
  <1>1. CASE UNCHANGED vars
    BY <1>1 DEF vars, IInv, TypeOK, LibTypeOK, RequestsFormed, OwnersOpen, OwnersDistinct,
      MemoryDistinct, TableInv, KeysHeld, HeldKeyed, KeysUnique, BosDistinct, Releasing, Making,
      KeyNamesBo, NoOrphanBo, EntryOf, Dying, Live
  <1>2. CASE Next
    BY <1>2, TakeKeeps, NewBOKeeps, NewBOFailKeeps, NewAddKeeps, FreeFindKeeps, FreeDestroyKeeps,
       FreeDeleteKeeps, CloseKeeps, ReplyKeeps
    DEF Next, Serve
  <1> QED
    BY <1>1, <1>2

LEMMA Invariance == Spec /\ []Plenty => []IInv
PROOF
  BY InvInit, InvNext, PTL DEF Spec

(* GbmAllocator.TypeOK.                                                     *)
THEOREM AllocatorTypeCorrect == Spec /\ []Plenty => []TypeOK
PROOF
  <1>1. IInv => TypeOK
    BY DEF IInv
  <1> QED
    BY <1>1, Invariance, PTL

(* No two entries of android_buffer_table have the same key, although       *)
(* add_buffer() does not refuse a second one and no lock protects the table.*)
THEOREM DescriptorsKeepKeysUnique == Spec /\ []Plenty => []KeysUnique
PROOF
  <1>1. IInv => KeysUnique
    BY DEF IInv, TableInv
  <1> QED
    BY <1>1, Invariance, PTL

(* An entry that nobody is deleting leads from the descriptor of a handle   *)
(* to the live BO of the same memory.                                       *)
THEOREM KeysNameTheirBo == Spec /\ []Plenty => []KeyNamesBo
PROOF
  <1>1. IInv => KeyNamesBo
    BY DEF IInv, TableInv
  <1> QED
    BY <1>1, Invariance, PTL

(* gralloc_gbm_android_buffer_free destroys the BO and deletes the entry it *)
(* has found, and both are still there.                                     *)
THEOREM ReleasesFindTheirs == Spec /\ []Plenty => []NoDanglingBuffer
PROOF
  <1>1. IInv => NoDanglingBuffer
    <2> SUFFICES ASSUME IInv, NEW t \in Thread, req[t].step \in {"free_destroy", "free_delete"}
                 PROVE  /\ EntryOf(t) \in android_buffer_table
                        /\ req[t].step = "free_destroy" => Live(req[t].bo)
      BY DEF NoDanglingBuffer
    <2>1. EntryOf(t) \in android_buffer_table
      BY DEF IInv, TableInv, Releasing
    <2>2. \A u \in Thread : req[u].step \in {"free_destroy", "free_delete"} =>
             EntryOf(u).fd = Head(req[u].handles) /\ Head(req[u].handles) \in Owned(req[u])
      BY OwnedFacts, TailRange DEF Held, Formed, ReleaseSteps, EntryOf
    <2>3. ASSUME req[t].step = "free_destroy" PROVE ~Dying(EntryOf(t))
      BY <2>2, <2>3 DEF Dying, IInv, OwnersDistinct
    <2>4. EntryOf(t).bo = req[t].bo
      BY DEF EntryOf
    <2> QED
      BY <2>1, <2>3, <2>4 DEF IInv, TableInv, KeyNamesBo
  <1> QED
    BY <1>1, Invariance, PTL

(* Every live BO is in the table or being made, but for those whose entry   *)
(* could not be allocated.                                                  *)
THEOREM NoBoIsLost == Spec /\ []Plenty => []NoOrphanBo
PROOF
  <1>1. IInv => NoOrphanBo
    BY DEF IInv, TableInv
  <1> QED
    BY <1>1, Invariance, PTL

(* After successes, failures and rollbacks the table is empty again.        *)
THEOREM IdleTableIsEmpty == Spec /\ []Plenty => []NothingManagedWhenIdle
PROOF
  <1>1. IInv => NothingManagedWhenIdle
    BY IdleFormed DEF IInv, TableInv, KeysHeld, NothingManagedWhenIdle, AllIdle
  <1> QED
    BY <1>1, Invariance, PTL

(* The buffers of the replies are open descriptors of distinct memory.      *)
THEOREM RepliesShareNothing == Spec /\ []Plenty => []RepliesDistinct
PROOF
  <1>1. IInv => RepliesDistinct
    <2> SUFFICES ASSUME IInv PROVE RepliesDistinct
      OBVIOUS
    <2>1. \A t \in Thread : \A f \in Shown(t) : f \in req[t].out /\ f \in Owned(req[t]) /\ fds[f] # NoBuf
      BY OwnedFacts DEF Shown
    <2>2. ASSUME NEW t \in Thread, NEW u \in Thread, NEW f \in Shown(t), NEW g \in Shown(u), fds[f] = fds[g]
          PROVE  t = u /\ f = g
      <3>1. f = g \/ (t = u /\ Pair(req[t], f, g))
        BY <2>1, <2>2 DEF IInv, MemoryDistinct
      <3>2. t = u
        BY <2>1, <3>1 DEF IInv, OwnersDistinct
      <3>3. Pair(req[t], f, g) => Head(req[t].handles) \in Held(req[t]) \cap req[t].out
        BY <2>1, <3>2, OwnedFacts, TailRange DEF Pair, Formed, Held
      <3> QED
        BY <3>1, <3>2, <3>3, OwnedFacts DEF Formed
    <2> QED
      BY <2>1, <2>2 DEF RepliesDistinct
  <1> QED
    BY <1>1, Invariance, PTL

(* A reply holds as many buffers as were asked for, or an error and none.   *)
THEOREM RepliesComplete == Spec /\ []Plenty => []CompleteOrFailed
PROOF
  <1>1. IInv => CompleteOrFailed
    BY OwnedFacts DEF CompleteOrFailed, Formed
  <1> QED
    BY <1>1, Invariance, PTL
=============================================================================
