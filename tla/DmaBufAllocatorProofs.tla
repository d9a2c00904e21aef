------------------------ MODULE DmaBufAllocatorProofs ------------------------
(***************************************************************************)
(* Theorems about DmaBufAllocator, for any number of threads, descriptors, *)
(* heap buffers and requests, and any width of the integers.               *)
(***************************************************************************)
EXTENDS DmaBufAllocator, TLAPS

-----------------------------------------------------------------------------
(***************************************************************************)
(* The handles a request holds are a sequence, which one loop appends to   *)
(* and another takes the head of: its members after a step of either.      *)
(***************************************************************************)
(* The members of a sequence; does it have each of them once?               *)
RangeOf(s) == {s[i] : i \in DOMAIN s}
Injective(s) == \A i, j \in DOMAIN s : s[i] = s[j] => i = j

LEMMA AppendRange ==
  ASSUME NEW S, NEW s \in Seq(S), NEW x \in S
  PROVE  /\ Append(s, x) \in Seq(S) /\ Append(s, x) # <<>>
         /\ Len(Append(s, x)) = Len(s) + 1
         /\ RangeOf(Append(s, x)) = RangeOf(s) \cup {x}
         /\ Injective(s) /\ x \notin RangeOf(s) => Injective(Append(s, x))
PROOF
  <1>1. /\ Append(s, x) \in Seq(S) /\ Append(s, x) # <<>> /\ Len(Append(s, x)) = Len(s) + 1
        /\ DOMAIN s = 1..Len(s) /\ DOMAIN Append(s, x) = 1..(Len(s) + 1) /\ Len(s) \in Nat
    OBVIOUS
  <1>2. /\ \A i \in 1..Len(s) : Append(s, x)[i] = s[i]
        /\ Append(s, x)[Len(s) + 1] = x
    OBVIOUS
  <1>3. RangeOf(Append(s, x)) = RangeOf(s) \cup {x}
    BY <1>1, <1>2 DEF RangeOf
  <1>4. ASSUME Injective(s), x \notin RangeOf(s) PROVE Injective(Append(s, x))
    BY <1>1, <1>2, <1>4 DEF Injective, RangeOf
  <1> QED
    BY <1>1, <1>3, <1>4

LEMMA TailRange ==
  ASSUME NEW S, NEW s \in Seq(S), s # <<>>, Injective(s)
  PROVE  /\ Head(s) \in S /\ Head(s) \in RangeOf(s)
         /\ Tail(s) \in Seq(S) /\ Len(Tail(s)) = Len(s) - 1
         /\ RangeOf(Tail(s)) = RangeOf(s) \ {Head(s)}
         /\ Injective(Tail(s))
PROOF
  <1>1. /\ Len(s) \in Nat /\ Len(s) > 0 /\ Tail(s) \in Seq(S) /\ Len(Tail(s)) = Len(s) - 1
        /\ DOMAIN s = 1..Len(s) /\ DOMAIN Tail(s) = 1..(Len(s) - 1)
        /\ Head(s) = s[1] /\ Head(s) \in S
    OBVIOUS
  <1>2. \A i \in 1..(Len(s) - 1) : Tail(s)[i] = s[i + 1]
    OBVIOUS
  <1>3. RangeOf(Tail(s)) \subseteq RangeOf(s) \ {Head(s)}
    BY <1>1, <1>2 DEF RangeOf, Injective
  <1>4. ASSUME NEW x \in RangeOf(s) \ {Head(s)} PROVE x \in RangeOf(Tail(s))
    <2>1. PICK i \in 1..Len(s) : x = s[i]
      BY <1>1 DEF RangeOf
    <2>2. i # 1 /\ i - 1 \in 1..(Len(s) - 1)
      BY <1>1, <2>1
    <2>3. Tail(s)[i - 1] = x
      BY <1>2, <2>1, <2>2
    <2> QED
      BY <1>1, <2>2, <2>3 DEF RangeOf
  <1>5. Injective(Tail(s))
    BY <1>1, <1>2 DEF Injective
  <1>6. Head(s) \in RangeOf(s)
    BY <1>1 DEF RangeOf
  <1> QED
    BY <1>1, <1>3, <1>4, <1>5, <1>6

-----------------------------------------------------------------------------
(* The inductive invariant. What a request has at each step, ...            *)
HeldOf(r)  == RangeOf(r.handles)
ShownOf(r) == RangeOf(r.out) \ {NoFd}
OwnedBy(r) == ShownOf(r) \cup HeldOf(r)

Formed(r) ==
  /\ r.step = "idle" => r.handles = <<>> /\ r.out = <<>>
  /\ r.step = "make" => /\ r.todo > 0 /\ r.out = <<>> /\ ~r.failed
                        /\ Len(r.handles) + r.todo = r.ask.count
  /\ r.step = "publish" => /\ r.handles # <<>> /\ ~r.failed
                           /\ Len(r.out) + Len(r.handles) = r.ask.count
  /\ r.step = "close" => /\ r.handles # <<>> /\ r.out # <<>> /\ ~r.failed
                         /\ Len(r.out) + Len(r.handles) = r.ask.count + 1
  /\ r.step = "reply" => /\ r.handles = <<>>
                         /\ IF r.failed THEN r.out = <<>> ELSE Len(r.out) = r.ask.count
  /\ Injective(r.handles)
  /\ HeldOf(r) \cap ShownOf(r) = {}
RequestsFormed == \A t \in Thread : Formed(req[t])

(* ... whose the open descriptors are, ...                                  *)
Accounted == {f \in Fd : fds[f] # NoMem} = lost \cup UNION {OwnedBy(req[t]) : t \in Thread}
OwnersDistinct ==
  /\ \A t \in Thread : OwnedBy(req[t]) \cap lost = {}
  /\ \A t, u \in Thread : t # u => OwnedBy(req[t]) \cap OwnedBy(req[u]) = {}

(* ... and that two of them name one buffer only between the duplication of *)
(* a handle's descriptor and the closing of the handle.                     *)
Twins(r, f, g) == r.step = "close" /\ {f, g} = {Head(r.handles), r.out[Len(r.out)]}
MemoryDistinct == \A f, g \in Fd :
  fds[f] # NoMem /\ fds[f] = fds[g] => f = g \/ \E t \in Thread : Twins(req[t], f, g)

IInv == TypeOK /\ RequestsFormed /\ Accounted /\ OwnersDistinct /\ MemoryDistinct

-----------------------------------------------------------------------------
LEMMA AskTyped ==
  ASSUME NEW r \in Request
  PROVE  r.ask.width \in Nat /\ r.ask.height \in Nat /\ r.ask.count \in Nat
         /\ stride(r.ask) \in Nat /\ buffer_size(r.ask) \in Int
PROOF
  <1>1. r.ask \in Requests \cup {NoRequest}
    BY DEF Request
  <1>2. r.ask.width \in Nat /\ r.ask.height \in Nat /\ r.ask.count \in Nat
    BY <1>1, DmaBufAllocatorAssumption DEF NoRequest
  <1>3. stride(r.ask) \in Nat
    BY <1>2 DEF stride
  <1>4. r.ask.width * r.ask.height \in Int
    BY <1>2
  <1>5. (r.ask.width * r.ask.height) % Int32 \in Int
    BY <1>4, DmaBufAllocatorAssumption
  <1>6. buffer_size(r.ask) \in Int
    BY <1>5, DmaBufAllocatorAssumption DEF buffer_size
  <1> QED
    BY <1>2, <1>3, <1>6

(* The loops go on with what they have.                                     *)
LEMMA PublishNextFormed ==
  ASSUME NEW r \in Request, ~r.failed, Injective(r.handles),
         Len(r.out) + Len(r.handles) = r.ask.count, HeldOf(r) \cap ShownOf(r) = {}
  PROVE  /\ PublishNext(r) \in Request /\ Formed(PublishNext(r))
         /\ HeldOf(PublishNext(r)) = HeldOf(r) /\ ShownOf(PublishNext(r)) = ShownOf(r)
         /\ PublishNext(r).step # "close"
PROOF
  <1> DEFINE p == PublishNext(r)
  <1>1. p \in Request
    BY AskTyped DEF PublishNext, Request, Steps
  <1>2. /\ p.handles = r.handles /\ p.out = r.out /\ p.failed = r.failed /\ p.ask = r.ask
        /\ p.step = IF r.handles = <<>> THEN "reply" ELSE "publish"
    BY DEF PublishNext, Request
  <1>3. r.handles = <<>> => Len(r.out) = r.ask.count
    BY AskTyped DEF Request
  <1> HIDE DEF p
  <1> QED
    BY <1>1, <1>2, <1>3 DEF p, Formed, HeldOf, ShownOf

LEMMA MakeNextFormed ==
  ASSUME NEW r \in Request, ~r.failed, Injective(r.handles), r.out = <<>>,
         Len(r.handles) + r.todo = r.ask.count
  PROVE  /\ MakeNext(r) \in Request /\ Formed(MakeNext(r))
         /\ HeldOf(MakeNext(r)) = HeldOf(r) /\ ShownOf(MakeNext(r)) = {}
         /\ MakeNext(r).step # "close"
PROOF
  <1>1. ShownOf(r) = {} /\ Len(r.out) = 0
    BY DEF ShownOf, RangeOf
  <1>2. CASE r.todo = 0
    <2>1. Len(r.out) + Len(r.handles) = r.ask.count
      BY <1>1, <1>2 DEF Request
    <2> QED
      BY <1>1, <1>2, <2>1, PublishNextFormed DEF MakeNext
  <1>3. CASE r.todo # 0
    <2> DEFINE p == [r EXCEPT !.step = "make"]
    <2>1. MakeNext(r) = p
      BY <1>3 DEF MakeNext
    <2>2. /\ p \in Request /\ p.step = "make" /\ p.handles = r.handles /\ p.out = r.out
          /\ p.failed = r.failed /\ p.ask = r.ask /\ p.todo = r.todo
      BY DEF Request, Steps
    <2>3. r.todo > 0
      BY <1>3 DEF Request
    <2> HIDE DEF p
    <2> QED
      BY <1>1, <2>1, <2>2, <2>3 DEF Formed, HeldOf, ShownOf
  <1> QED
    BY <1>2, <1>3

(* Thread t opens O, closes C of its descriptors and abandons L of them.    *)
LEMMA OwnersKeep ==
  ASSUME IInv, NEW t \in Thread, NEW r \in Request, req' = [req EXCEPT ![t] = r], Formed(r),
         NEW O, NEW C, NEW L,
         O \subseteq ClosedFds, C \subseteq OwnedBy(req[t]), L \subseteq OwnedBy(req[t]) \ C,
         OwnedBy(r) = (OwnedBy(req[t]) \cup O) \ (C \cup L),
         lost' = lost \cup L,
         {f \in Fd : fds'[f] # NoMem} = ({f \in Fd : fds[f] # NoMem} \cup O) \ C
  PROVE  /\ req' \in [Thread -> Request] /\ lost' \subseteq Fd
         /\ RequestsFormed' /\ Accounted' /\ OwnersDistinct'
PROOF
  <1>1. \A u \in Thread : req'[u] = IF u = t THEN r ELSE req[u]
    BY DEF IInv, TypeOK
  <1>2. /\ \A u \in Thread : OwnedBy(req[u]) \subseteq Fd /\ OwnedBy(req[u]) \cap O = {}
        /\ lost \subseteq Fd /\ lost \cap O = {}
    BY DEF IInv, Accounted, ClosedFds
  <1>3. req' \in [Thread -> Request] /\ lost' \subseteq Fd
    BY <1>2 DEF IInv, TypeOK
  <1>4. RequestsFormed'
    BY <1>1 DEF IInv, RequestsFormed
  <1>5. OwnersDistinct'
    BY <1>1, <1>2 DEF IInv, OwnersDistinct
  <1>6. Accounted'
    <2>1. ASSUME NEW f, f \in lost' \cup UNION {OwnedBy(req'[u]) : u \in Thread}
          PROVE  f \in Fd /\ fds'[f] # NoMem
      <3>1. f \in ({g \in Fd : fds[g] # NoMem} \cup O) \ C
        BY <1>1, <1>2, <2>1 DEF IInv, Accounted, OwnersDistinct
      <3> QED
        BY <3>1
    <2>2. ASSUME NEW f \in Fd, fds'[f] # NoMem
          PROVE  f \in lost' \cup UNION {OwnedBy(req'[u]) : u \in Thread}
      <3>1. f \in ({g \in Fd : fds[g] # NoMem} \cup O) \ C
        BY <2>2
      <3>2. CASE f \in O \/ f \in lost
        BY <1>1, <3>1, <3>2
      <3>3. CASE \E u \in Thread : f \in OwnedBy(req[u])
        BY <1>1, <3>1, <3>3
      <3>4. f \in O \/ f \in lost \/ \E u \in Thread : f \in OwnedBy(req[u])
        BY <3>1 DEF IInv, Accounted
      <3> QED
        BY <3>2, <3>3, <3>4
    <2> QED
      BY <2>1, <2>2 DEF Accounted
  <1> QED
    BY <1>3, <1>4, <1>5, <1>6

(* A step that is not a duplication: what it opens is new memory.           *)
LEMMA MemoryKeeps ==
  ASSUME IInv, NEW t \in Thread, NEW r \in Request, req' = [req EXCEPT ![t] = r],
         \A f \in Fd : fds'[f] \in {fds[f], NoMem} \/ \A g \in Fd : fds[g] # fds'[f] /\ (fds'[g] = fds'[f] => g = f),
         req[t].step = "close" => fds'[Head(req[t].handles)] = NoMem
  PROVE  MemoryDistinct'
PROOF
  <1>1. \A u \in Thread : u # t => req'[u] = req[u]
    BY DEF IInv, TypeOK
  <1> SUFFICES ASSUME NEW f \in Fd, NEW g \in Fd, fds'[f] # NoMem, fds'[f] = fds'[g], f # g
               PROVE  \E u \in Thread : Twins(req'[u], f, g)
    BY DEF MemoryDistinct
  <1>2. fds'[f] = fds[f] /\ fds'[g] = fds[g]
    OBVIOUS
  <1>3. PICK u \in Thread : Twins(req[u], f, g)
    BY <1>2 DEF IInv, MemoryDistinct
  <1>4. u # t
    BY <1>3 DEF Twins
  <1> QED
    BY <1>1, <1>3, <1>4

-----------------------------------------------------------------------------
LEMMA IdleFormed ==
  Idle \in Request /\ Formed(Idle) /\ OwnedBy(Idle) = {} /\ Idle.step # "close"
PROOF
  <1>1. Idle \in Request
    BY DEF Idle, Request, Steps
  <1>2. Idle.handles = <<>> /\ Idle.out = <<>> /\ Idle.step = "idle"
    BY DEF Idle
  <1>3. RangeOf(<<>>) = {} /\ Injective(<<>>)
    BY DEF RangeOf, Injective
  <1> QED
    BY <1>1, <1>2, <1>3 DEF Formed, OwnedBy, HeldOf, ShownOf

LEMMA InvInit == Init => IInv
PROOF
  <1> SUFFICES ASSUME Init PROVE IInv
    OBVIOUS
  <1>1. \A t \in Thread : req[t] = Idle
    BY DEF Init
  <1>2. TypeOK
    BY IdleFormed DEF Init, TypeOK
  <1>3. RequestsFormed /\ OwnersDistinct
    BY <1>1, IdleFormed DEF RequestsFormed, OwnersDistinct
  <1>4. Accounted /\ MemoryDistinct
    BY <1>1, IdleFormed DEF Init, Accounted, MemoryDistinct
  <1> QED
    BY <1>2, <1>3, <1>4 DEF IInv

(* What the descriptors of one request are.                                 *)
LEMMA OwnedOpen ==
  ASSUME IInv, NEW t \in Thread
  PROVE  /\ req[t] \in Request /\ Formed(req[t])
         /\ HeldOf(req[t]) \subseteq OwnedBy(req[t]) /\ ShownOf(req[t]) \subseteq OwnedBy(req[t])
         /\ \A f \in OwnedBy(req[t]) : f \in Fd /\ fds[f] # NoMem
PROOF
  BY DEF IInv, TypeOK, RequestsFormed, Accounted, OwnedBy

LEMMA TakeKeeps ==
  ASSUME IInv, NEW t \in Thread, NEW a \in Requests, TakeRequest(t, a) PROVE IInv'
PROOF
  <1> DEFINE r0 == [Idle EXCEPT !.ask = a, !.todo = a.count]
             r  == MakeNext(r0)
  <1>1. /\ r0 \in Request /\ ~r0.failed /\ r0.handles = <<>> /\ r0.out = <<>>
        /\ r0.todo = a.count /\ r0.ask = a /\ a.count \in Nat
    <2>1. a.count \in Nat
      BY DmaBufAllocatorAssumption
    <2>2. /\ Idle \in Request /\ ~Idle.failed /\ Idle.handles = <<>> /\ Idle.out = <<>>
      BY IdleFormed DEF Idle
    <2>3. \A c \in Nat : LET p == [Idle EXCEPT !.ask = a, !.todo = c] IN
            /\ p \in Request /\ p.failed = Idle.failed /\ p.handles = Idle.handles
            /\ p.out = Idle.out /\ p.todo = c /\ p.ask = a
      BY <2>2 DEF Request
    <2> QED
      BY <2>1, <2>2, <2>3
  <1>2. /\ Injective(r0.handles) /\ HeldOf(r0) = {} /\ Len(r0.handles) + r0.todo = r0.ask.count
    BY <1>1 DEF HeldOf, RangeOf, Injective
  <1>3. req[t] = Idle /\ req' = [req EXCEPT ![t] = r] /\ UNCHANGED <<fds, size, lost>>
    BY DEF TakeRequest
  <1> HIDE DEF r0
  <1>4. r \in Request /\ Formed(r) /\ HeldOf(r) = {} /\ ShownOf(r) = {}
    BY <1>1, <1>2, MakeNextFormed
  <1> HIDE DEF r
  <1>5. OwnedBy(req[t]) = {} /\ OwnedBy(r) = {} /\ req[t].step # "close"
    BY <1>3, <1>4, IdleFormed DEF OwnedBy
  <1>6. MemoryDistinct'
    BY <1>3, <1>4, <1>5, MemoryKeeps
  <1>7. req' \in [Thread -> Request] /\ lost' \subseteq Fd /\ RequestsFormed' /\ Accounted' /\ OwnersDistinct'
    <2>1. /\ OwnedBy(r) = (OwnedBy(req[t]) \cup {}) \ ({} \cup {}) /\ lost' = lost \cup {}
          /\ {f \in Fd : fds'[f] # NoMem} = ({f \in Fd : fds[f] # NoMem} \cup {}) \ {}
      BY <1>3, <1>5
    <2> QED
      BY <1>3, <1>4, <2>1, OwnersKeep
  <1> QED
    BY <1>3, <1>6, <1>7 DEF IInv, TypeOK

(* A request with other numbers in two of its members.                      *)
LEMMA RequestMade ==
  ASSUME NEW q \in Request, NEW f, q.todo - 1 \in Nat, Append(q.handles, f) \in Seq(Fd)
  PROVE  LET r == [q EXCEPT !.todo = @ - 1, !.handles = Append(@, f)] IN
         /\ r \in Request /\ r.failed = q.failed /\ r.out = q.out
         /\ r.todo = q.todo - 1 /\ r.ask = q.ask /\ r.handles = Append(q.handles, f)
PROOF
  <1>1. ASSUME NEW n \in Nat, NEW s \in Seq(Fd)
        PROVE  LET r == [q EXCEPT !.todo = n, !.handles = s] IN
               /\ r \in Request /\ r.failed = q.failed /\ r.out = q.out
               /\ r.todo = n /\ r.ask = q.ask /\ r.handles = s
    BY DEF Request
  <1> DEFINE n == q.todo - 1
             s == Append(q.handles, f)
  <1>2. n \in Nat /\ s \in Seq(Fd)
    OBVIOUS
  <1>3. [q EXCEPT !.todo = @ - 1, !.handles = Append(@, f)] = [q EXCEPT !.todo = n, !.handles = s]
    OBVIOUS
  <1> HIDE DEF n, s
  <1>4. LET r == [q EXCEPT !.todo = n, !.handles = s] IN
        /\ r \in Request /\ r.failed = q.failed /\ r.out = q.out
        /\ r.todo = n /\ r.ask = q.ask /\ r.handles = s
    BY <1>1, <1>2
  <1> QED
    BY <1>3, <1>4 DEF n, s

LEMMA MakeKeeps == ASSUME IInv, NEW t \in Thread, Make(t) PROVE IInv'
PROOF
  <1>1. PICK f \in ClosedFds, m \in FreshMem :
          /\ fds' = [fds EXCEPT ![f] = m]
          /\ size' = [size EXCEPT ![m] = buffer_size(req[t].ask)]
          /\ req' = [req EXCEPT ![t] = MakeNext([req[t] EXCEPT !.todo = @ - 1,
                                                              !.handles = Append(@, f)])]
    BY DEF Make
  <1>2. req[t].step = "make" /\ buffer_size(req[t].ask) > 0 /\ lost' = lost
    BY DEF Make
  <1> DEFINE q == req[t]
             r0 == [q EXCEPT !.todo = @ - 1, !.handles = Append(@, f)]
             r  == MakeNext(r0)
  <1>3. /\ q \in Request /\ Formed(q) /\ f \in Fd /\ fds[f] = NoMem
        /\ m \in Mem /\ m # NoMem /\ \A g \in Fd : fds[g] # m
        /\ f \notin OwnedBy(q)
    BY OwnedOpen, DmaBufAllocatorAssumption DEF ClosedFds, FreshMem
  <1>4. /\ q.todo \in Nat /\ q.todo > 0 /\ q.handles \in Seq(Fd) /\ q.out = <<>> /\ ~q.failed
        /\ Len(q.handles) + q.todo = q.ask.count
        /\ Injective(q.handles) /\ ShownOf(q) = {} /\ f \notin RangeOf(q.handles)
    <2>1. ShownOf(q) = {}
      BY <1>2, <1>3 DEF Formed, ShownOf, RangeOf
    <2> QED
      BY <1>2, <1>3, <2>1 DEF Formed, Request, OwnedBy, HeldOf
  <1>5. /\ Append(q.handles, f) \in Seq(Fd) /\ Len(Append(q.handles, f)) = Len(q.handles) + 1
        /\ RangeOf(Append(q.handles, f)) = RangeOf(q.handles) \cup {f}
        /\ Injective(Append(q.handles, f))
    BY <1>3, <1>4, AppendRange
  <1>6. /\ r0 \in Request /\ ~r0.failed /\ r0.out = <<>> /\ r0.todo = q.todo - 1 /\ r0.ask = q.ask
        /\ r0.handles = Append(q.handles, f)
    <2>1. q.todo - 1 \in Nat
      BY <1>4
    <2> QED
      BY <1>3, <1>4, <1>5, <2>1, RequestMade
  <1> HIDE DEF r0
  <1>7. HeldOf(r0) = HeldOf(q) \cup {f} /\ Len(r0.handles) + r0.todo = r0.ask.count
    <2>1. HeldOf(r0) = HeldOf(q) \cup {f}
      BY <1>5, <1>6 DEF HeldOf
    <2>2. \A m1, m2 \in Nat : m1 + 1 + (m2 - 1) = m1 + m2
      OBVIOUS
    <2> HIDE DEF q
    <2>3. Len(q.handles) \in Nat
      BY <1>4
    <2>4. Len(r0.handles) = Len(q.handles) + 1 /\ r0.todo = q.todo - 1 /\ r0.ask = q.ask
      BY <1>5, <1>6
    <2> QED
      BY <1>4, <2>1, <2>2, <2>3, <2>4
  <1>8. r \in Request /\ Formed(r) /\ HeldOf(r) = HeldOf(r0) /\ ShownOf(r) = {}
    BY <1>5, <1>6, <1>7, MakeNextFormed
  <1>9. req' = [req EXCEPT ![t] = r]
    BY <1>1 DEF r0
  <1> HIDE DEF r
  <1>10. OwnedBy(r) = OwnedBy(q) \cup {f}
    BY <1>4, <1>7, <1>8 DEF OwnedBy
  <1>11. fds' \in [Fd -> Mem \cup {NoMem}] /\ \A g \in Fd : fds'[g] = IF g = f THEN m ELSE fds[g]
    BY <1>1, <1>3 DEF IInv, TypeOK
  <1>12. MemoryDistinct'
    BY <1>2, <1>3, <1>8, <1>9, <1>11, MemoryKeeps
  <1>13. req' \in [Thread -> Request] /\ lost' \subseteq Fd /\ RequestsFormed' /\ Accounted' /\ OwnersDistinct'
    <2> DEFINE O == {f}
    <2>1. /\ OwnedBy(r) = (OwnedBy(req[t]) \cup O) \ ({} \cup {}) /\ lost' = lost \cup {}
          /\ {g \in Fd : fds'[g] # NoMem} = ({g \in Fd : fds[g] # NoMem} \cup O) \ {}
          /\ O \subseteq ClosedFds /\ {} \subseteq OwnedBy(req[t]) /\ {} \subseteq OwnedBy(req[t]) \ {}
      BY <1>2, <1>3, <1>10, <1>11
    <2> HIDE DEF q, O
    <2> QED
      BY <1>8, <1>9, <2>1, OwnersKeep
  <1>14. size' \in [Mem -> Nat]
    BY <1>1, <1>2, <1>3, AskTyped DEF IInv, TypeOK
  <1> QED
    BY <1>11, <1>12, <1>13, <1>14 DEF IInv, TypeOK

LEMMA MakeFailKeeps == ASSUME IInv, NEW t \in Thread, MakeFail(t) PROVE IInv'
PROOF
  <1> DEFINE q == req[t]
             r == [q EXCEPT !.step = "reply", !.failed = TRUE, !.todo = 0, !.handles = <<>>]
  <1>1. q.step = "make" /\ req' = [req EXCEPT ![t] = r] /\ lost' = lost \cup HeldOf(q) /\ UNCHANGED <<fds, size>>
    BY DEF MakeFail, HeldOf, RangeOf
  <1>2. q \in Request /\ Formed(q)
    BY OwnedOpen
  <1>3. r \in Request /\ r.step = "reply" /\ r.failed /\ r.handles = <<>> /\ r.out = <<>> /\ q.out = <<>>
    <2>1. q.out = <<>>
      BY <1>1, <1>2 DEF Formed
    <2>2. <<>> \in Seq(Fd)
      OBVIOUS
    <2> HIDE DEF q
    <2>3. r \in Request /\ r.step = "reply" /\ r.failed /\ r.handles = <<>> /\ r.out = q.out
      BY <1>2, <2>2 DEF Request, Steps
    <2> QED
      BY <2>1, <2>3
  <1> HIDE DEF r
  <1>4. RangeOf(<<>>) = {} /\ Injective(<<>>)
    BY DEF RangeOf, Injective
  <1>5. Formed(r) /\ OwnedBy(r) = {} /\ OwnedBy(q) = HeldOf(q)
    BY <1>3, <1>4 DEF Formed, OwnedBy, HeldOf, ShownOf
  <1>6. MemoryDistinct'
    BY <1>1, <1>3, MemoryKeeps
  <1>7. req' \in [Thread -> Request] /\ lost' \subseteq Fd /\ RequestsFormed' /\ Accounted' /\ OwnersDistinct'
    <2>1. /\ OwnedBy(r) = (OwnedBy(req[t]) \cup {}) \ ({} \cup HeldOf(q))
          /\ {f \in Fd : fds'[f] # NoMem} = ({f \in Fd : fds[f] # NoMem} \cup {}) \ {}
          /\ HeldOf(q) \subseteq OwnedBy(req[t]) \ {}
      BY <1>1, <1>5
    <2> HIDE DEF q
    <2> QED
      BY <1>1, <1>3, <1>5, <2>1, OwnersKeep
  <1> QED
    BY <1>1, <1>6, <1>7 DEF IInv, TypeOK

LEMMA PublishKeeps == ASSUME IInv, NEW t \in Thread, Publish(t) PROVE IInv'
PROOF
  <1> DEFINE q == req[t]
             h == Head(q.handles)
  <1>1. PICK f \in IF ClosedFds = {} THEN {NoFd} ELSE ClosedFds :
          /\ fds' = IF f = NoFd THEN fds ELSE [fds EXCEPT ![f] = fds[h]]
          /\ req' = [req EXCEPT ![t].step = "close", ![t].out = Append(@, f)]
    BY DEF Publish
  <1>2. q.step = "publish" /\ size' = size /\ lost' = lost
    BY DEF Publish
  <1> DEFINE r == [q EXCEPT !.step = "close", !.out = Append(@, f)]
             O == {f} \ {NoFd}
  <1>3. q \in Request /\ Formed(q) /\ OwnedBy(q) \subseteq Fd
    BY OwnedOpen
  <1>4. /\ f \in Fd \cup {NoFd} /\ O \subseteq ClosedFds /\ f \notin OwnedBy(q)
        /\ f # NoFd => f \in Fd /\ fds[f] = NoMem
    BY <1>3, OwnedOpen, DmaBufAllocatorAssumption DEF ClosedFds
  <1>5. /\ q.handles \in Seq(Fd) /\ q.handles # <<>> /\ ~q.failed /\ Injective(q.handles)
        /\ q.out \in Seq(Fd \cup {NoFd}) /\ Len(q.out) + Len(q.handles) = q.ask.count
        /\ HeldOf(q) \cap ShownOf(q) = {}
    BY <1>2, <1>3 DEF Formed, Request
  <1>6. /\ Append(q.out, f) \in Seq(Fd \cup {NoFd}) /\ Append(q.out, f) # <<>>
        /\ Len(Append(q.out, f)) = Len(q.out) + 1
        /\ RangeOf(Append(q.out, f)) = RangeOf(q.out) \cup {f}
        /\ Append(q.out, f)[Len(Append(q.out, f))] = f
    <2>1. Append(q.out, f)[Len(q.out) + 1] = f /\ Len(Append(q.out, f)) = Len(q.out) + 1
      BY <1>4, <1>5
    <2> QED
      BY <1>4, <1>5, <2>1, AppendRange
  <1>7. /\ r \in Request /\ r.step = "close" /\ r.handles = q.handles /\ r.out = Append(q.out, f)
        /\ r.failed = q.failed /\ r.ask = q.ask
    BY <1>3, <1>6 DEF Request, Steps
  <1>8. req' = [req EXCEPT ![t] = r]
    BY <1>1
  <1>9. h \in HeldOf(q) /\ h \in Fd /\ fds[h] # NoMem
    BY <1>5, OwnedOpen, TailRange DEF HeldOf
  <1> HIDE DEF r
  <1>10. HeldOf(r) = HeldOf(q) /\ ShownOf(r) = ShownOf(q) \cup O
    BY <1>6, <1>7 DEF HeldOf, ShownOf
  <1>11. OwnedBy(r) = OwnedBy(q) \cup O
    BY <1>10 DEF OwnedBy
  <1>12. Formed(r)
    <2>1. HeldOf(r) \cap ShownOf(r) = {}
      BY <1>4, <1>5, <1>10 DEF OwnedBy
    <2>2. Len(r.out) + Len(r.handles) = r.ask.count + 1
      <3>1. Len(q.out) \in Nat /\ Len(q.handles) \in Nat
        BY <1>5
      <3>2. \A m, n \in Nat : m + 1 + n = (m + n) + 1
        OBVIOUS
      <3>3. Len(q.out) + 1 + Len(q.handles) = q.ask.count + 1
        BY <1>5, <3>1, <3>2
      <3> QED
        BY <1>6, <1>7, <3>3
    <2> QED
      BY <1>5, <1>6, <1>7, <2>1, <2>2 DEF Formed
  <1>13. /\ fds' \in [Fd -> Mem \cup {NoMem}]
         /\ \A g \in Fd : fds'[g] = IF g = f THEN fds[h] ELSE fds[g]
    BY <1>1, <1>4, <1>9, DmaBufAllocatorAssumption DEF IInv, TypeOK
  <1>14. req' \in [Thread -> Request] /\ lost' \subseteq Fd /\ RequestsFormed' /\ Accounted' /\ OwnersDistinct'
    <2>1. /\ OwnedBy(r) = (OwnedBy(req[t]) \cup O) \ ({} \cup {}) /\ lost' = lost \cup {}
          /\ {g \in Fd : fds'[g] # NoMem} = ({g \in Fd : fds[g] # NoMem} \cup O) \ {}
      BY <1>2, <1>4, <1>9, <1>11, <1>13, DmaBufAllocatorAssumption
    <2> QED
      BY <1>4, <1>7, <1>8, <1>12, <2>1, OwnersKeep
  <1>15. MemoryDistinct'
    <2> SUFFICES ASSUME NEW a \in Fd, NEW b \in Fd, fds'[a] # NoMem, fds'[a] = fds'[b], a # b
                 PROVE  \E u \in Thread : Twins(req'[u], a, b)
      BY DEF MemoryDistinct
    <2>1. \A u \in Thread : req'[u] = IF u = t THEN r ELSE req[u]
      BY <1>8 DEF IInv, TypeOK
    <2>2. r.handles = q.handles /\ r.out[Len(r.out)] = f /\ r.step = "close"
      BY <1>6, <1>7
    <2>3. \A u \in Thread : req[u].step = "close" => u # t
      BY <1>2
    <2>4. CASE a # f /\ b # f
      <3>1. PICK u \in Thread : Twins(req[u], a, b)
        BY <1>13, <2>4 DEF IInv, MemoryDistinct
      <3> QED
        BY <2>1, <2>3, <3>1 DEF Twins
    <2>5. ASSUME NEW c \in Fd, c # f, {a, b} = {c, f}, fds[c] = fds[h], f \in Fd
          PROVE  \E u \in Thread : Twins(req'[u], a, b)
      <3>1. CASE c = h
        BY <2>1, <2>2, <2>5, <3>1 DEF Twins
      <3>2. CASE c # h
        <4>1. PICK u \in Thread : Twins(req[u], c, h)
          BY <1>9, <2>5, <3>2 DEF IInv, MemoryDistinct
        <4>2. u # t /\ h \in {Head(req[u].handles), req[u].out[Len(req[u].out)]}
          BY <2>3, <4>1 DEF Twins
        <4>3. h \in OwnedBy(req[u])
          <5>1. req[u] \in Request /\ Formed(req[u]) /\ req[u].step = "close"
            BY <4>1, OwnedOpen DEF Twins
          <5>2. req[u].handles \in Seq(Fd) /\ req[u].handles # <<>> /\ Injective(req[u].handles)
                /\ req[u].out \in Seq(Fd \cup {NoFd}) /\ req[u].out # <<>>
            BY <5>1 DEF Formed, Request
          <5>3. Head(req[u].handles) \in HeldOf(req[u])
            BY <5>2, TailRange DEF HeldOf
          <5>4. req[u].out[Len(req[u].out)] \in RangeOf(req[u].out)
            BY <5>2 DEF RangeOf
          <5> QED
            BY <1>9, <4>2, <5>3, <5>4, DmaBufAllocatorAssumption DEF OwnedBy, ShownOf
        <4> QED
          BY <1>9, <4>2, <4>3 DEF IInv, OwnersDistinct, OwnedBy
      <3> QED
        BY <3>1, <3>2
    <2>6. CASE a = f
      BY <1>13, <2>5, <2>6
    <2>7. CASE b = f
      BY <1>13, <2>5, <2>7
    <2> QED
      BY <2>4, <2>6, <2>7
  <1> QED
    BY <1>2, <1>13, <1>14, <1>15 DEF IInv, TypeOK

LEMMA CloseKeeps == ASSUME IInv, NEW t \in Thread, Close(t) PROVE IInv'
PROOF
  <1> DEFINE q == req[t]
             h == Head(q.handles)
             r0 == [q EXCEPT !.handles = Tail(@)]
             r == PublishNext(r0)
  <1>1. /\ q.step = "close" /\ fds' = [fds EXCEPT ![h] = NoMem] /\ req' = [req EXCEPT ![t] = r]
        /\ UNCHANGED <<size, lost>>
    BY DEF Close
  <1>2. q \in Request /\ Formed(q) /\ \A f \in OwnedBy(q) : f \in Fd /\ fds[f] # NoMem
    BY OwnedOpen
  <1>3. /\ q.handles \in Seq(Fd) /\ q.handles # <<>> /\ ~q.failed /\ Injective(q.handles)
        /\ q.out \in Seq(Fd \cup {NoFd}) /\ Len(q.out) + Len(q.handles) = q.ask.count + 1
        /\ HeldOf(q) \cap ShownOf(q) = {}
    BY <1>1, <1>2 DEF Formed, Request
  <1>4. /\ h \in HeldOf(q) /\ Tail(q.handles) \in Seq(Fd) /\ Len(Tail(q.handles)) = Len(q.handles) - 1
        /\ RangeOf(Tail(q.handles)) = HeldOf(q) \ {h} /\ Injective(Tail(q.handles))
    BY <1>3, TailRange DEF HeldOf
  <1>5. /\ r0 \in Request /\ r0.handles = Tail(q.handles) /\ r0.failed = q.failed /\ r0.out = q.out
        /\ r0.ask = q.ask
    <2> HIDE DEF q
    <2> QED
      BY <1>2, <1>4 DEF Request
  <1> HIDE DEF r0
  <1>6. HeldOf(r0) = HeldOf(q) \ {h} /\ ShownOf(r0) = ShownOf(q)
    BY <1>4, <1>5 DEF HeldOf, ShownOf
  <1>7. Len(r0.out) + Len(r0.handles) = r0.ask.count
    <2>1. Len(q.out) \in Nat /\ Len(q.handles) \in Nat /\ q.ask.count \in Nat
      BY <1>2, <1>3, AskTyped
    <2>2. Len(q.out) + Len(q.handles) = q.ask.count + 1
      BY <1>3
    <2> DEFINE m == Len(q.out)
               n == Len(q.handles)
               c == q.ask.count
    <2>3. m \in Nat /\ n \in Nat /\ c \in Nat /\ m + n = c + 1
      BY <2>1, <2>2
    <2> HIDE DEF m, n, c
    <2>4. m + (n - 1) = c
      BY <2>3
    <2> QED
      BY <1>4, <1>5, <2>4 DEF m, n, c
  <1>8. /\ r \in Request /\ Formed(r) /\ HeldOf(r) = HeldOf(q) \ {h} /\ ShownOf(r) = ShownOf(q)
    BY <1>3, <1>4, <1>5, <1>6, <1>7, PublishNextFormed
  <1> HIDE DEF r
  <1> DEFINE C == {h}
  <1>9. OwnedBy(r) = OwnedBy(q) \ C /\ C \subseteq OwnedBy(q) /\ h \in Fd
    BY <1>2, <1>3, <1>4, <1>8 DEF OwnedBy
  <1>10. fds' \in [Fd -> Mem \cup {NoMem}] /\ \A g \in Fd : fds'[g] = IF g = h THEN NoMem ELSE fds[g]
    BY <1>1, <1>9 DEF IInv, TypeOK
  <1>11. MemoryDistinct'
    BY <1>1, <1>8, <1>9, <1>10, MemoryKeeps
  <1>12. req' \in [Thread -> Request] /\ lost' \subseteq Fd /\ RequestsFormed' /\ Accounted' /\ OwnersDistinct'
    <2> DEFINE N == {}
    <2>1. /\ OwnedBy(r) = (OwnedBy(req[t]) \cup N) \ (C \cup N) /\ lost' = lost \cup N
          /\ {g \in Fd : fds'[g] # NoMem} = ({g \in Fd : fds[g] # NoMem} \cup N) \ C
          /\ N \subseteq ClosedFds /\ C \subseteq OwnedBy(req[t]) /\ N \subseteq OwnedBy(req[t]) \ C
      BY <1>1, <1>9, <1>10
    <2>2. req' = [req EXCEPT ![t] = r]
      BY <1>1
    <2> HIDE DEF q, h, C, N
    <2> QED
      BY <1>8, <2>1, <2>2, OwnersKeep
  <1> QED
    BY <1>1, <1>10, <1>11, <1>12 DEF IInv, TypeOK

LEMMA ShownIs == \A t \in Thread : Shown(t) = ShownOf(req[t])
PROOF
  BY DEF Shown, ShownOf, RangeOf

LEMMA ReplyKeeps == ASSUME IInv, NEW t \in Thread, Reply(t) PROVE IInv'
PROOF
  <1> DEFINE q == req[t]
             C == ShownOf(q)
  <1>1. /\ q.step = "reply" /\ fds' = [f \in Fd |-> IF f \in C THEN NoMem ELSE fds[f]]
        /\ req' = [req EXCEPT ![t] = Idle] /\ UNCHANGED <<size, lost>>
    BY ShownIs DEF Reply
  <1>2. q \in Request /\ Formed(q) /\ C \subseteq Fd
    BY OwnedOpen
  <1>3. HeldOf(q) = {} /\ OwnedBy(q) = C
    BY <1>1, <1>2 DEF Formed, OwnedBy, HeldOf, RangeOf
  <1>4. fds' \in [Fd -> Mem \cup {NoMem}] /\ \A g \in Fd : fds'[g] = IF g \in C THEN NoMem ELSE fds[g]
    BY <1>1 DEF IInv, TypeOK
  <1>5. MemoryDistinct'
    BY <1>1, <1>4, IdleFormed, MemoryKeeps
  <1>6. req' \in [Thread -> Request] /\ lost' \subseteq Fd /\ RequestsFormed' /\ Accounted' /\ OwnersDistinct'
    <2> DEFINE N == {}
    <2>1. /\ OwnedBy(Idle) = (OwnedBy(req[t]) \cup N) \ (C \cup N) /\ lost' = lost \cup N
          /\ {g \in Fd : fds'[g] # NoMem} = ({g \in Fd : fds[g] # NoMem} \cup N) \ C
          /\ N \subseteq ClosedFds /\ C \subseteq OwnedBy(req[t]) /\ N \subseteq OwnedBy(req[t]) \ C
      BY <1>1, <1>3, <1>4, IdleFormed
    <2>2. req' = [req EXCEPT ![t] = Idle]
      BY <1>1
    <2> HIDE DEF C, q, N
    <2> QED
      BY <2>1, <2>2, IdleFormed, OwnersKeep
  <1> QED
    BY <1>1, <1>4, <1>5, <1>6 DEF IInv, TypeOK

LEMMA InvNext == IInv /\ [Next]_vars => IInv'
PROOF
  <1> SUFFICES ASSUME IInv, [Next]_vars PROVE IInv'
    OBVIOUS
  <1>1. CASE UNCHANGED vars
    BY <1>1 DEF vars, IInv, TypeOK, RequestsFormed, Accounted, OwnersDistinct, MemoryDistinct
  <1> QED
    BY <1>1, TakeKeeps, MakeKeeps, MakeFailKeeps, PublishKeeps, CloseKeeps, ReplyKeeps DEF Next, Serve

LEMMA Invariance == Spec => []IInv
PROOF
  BY InvInit, InvNext, PTL DEF Spec

-----------------------------------------------------------------------------
(* Every state is well typed: no loop counts below zero or loses its        *)
(* handles.                                                                 *)
THEOREM DmaBufAllocatorTypeCorrect == Spec => []TypeOK
PROOF
  <1>1. IInv => TypeOK
    BY DEF IInv
  <1> QED
    BY <1>1, Invariance, PTL

(* allocate2 leaks the descriptors of failed requests, and only those:      *)
(* every other one that is open is of a request being served.               *)
THEOREM NothingElseOpen == Spec => []OpenAccounted
PROOF
  <1>1. ASSUME IInv PROVE OpenAccounted
    <2>1. \A t \in Thread : OfRequest(t) = OwnedBy(req[t])
      BY ShownIs DEF OfRequest, OwnedBy, HeldOf, RangeOf
    <2>2. Fd \ ClosedFds = {f \in Fd : fds[f] # NoMem}
      BY DEF ClosedFds
    <2>3. UNION {OfRequest(t) : t \in Thread} = UNION {OwnedBy(req[t]) : t \in Thread}
      BY <2>1
    <2> QED
      BY <1>1, <2>2, <2>3 DEF OpenAccounted, IInv, Accounted
  <1> QED
    BY <1>1, Invariance, PTL

(* The replies of allocate2 show open descriptors of memory of their own,   *)
(* however many requests publish, close and fail at once.                   *)
THEOREM RepliesShareNothing == Spec => []RepliesDistinct
PROOF
  <1>1. ASSUME IInv PROVE RepliesDistinct
    <2>1. ASSUME NEW t \in Thread PROVE Shown(t) \cap (ClosedFds \cup lost) = {}
      BY <1>1, OwnedOpen, ShownIs DEF ClosedFds, IInv, OwnersDistinct
    <2>2. ASSUME NEW t \in Thread, NEW u \in Thread, NEW f \in Shown(t), NEW g \in Shown(u), fds[f] = fds[g]
          PROVE  t = u /\ f = g
      <3>1. f \in OwnedBy(req[t]) /\ g \in OwnedBy(req[u]) /\ f \in Fd /\ g \in Fd /\ fds[f] # NoMem
        BY <1>1, ShownIs, OwnedOpen
      <3>2. CASE f = g
        BY <1>1, <3>1, <3>2 DEF IInv, OwnersDistinct
      <3>3. ASSUME f # g PROVE FALSE
        <4>1. PICK v \in Thread : Twins(req[v], f, g)
          BY <1>1, <2>2, <3>1, <3>3 DEF IInv, MemoryDistinct
        <4>2. req[v] \in Request /\ Formed(req[v]) /\ req[v].step = "close"
              /\ Head(req[v].handles) \in {f, g}
          BY <1>1, <4>1, OwnedOpen DEF Twins
        <4>3. Head(req[v].handles) \in HeldOf(req[v])
          BY <4>2, TailRange DEF Formed, Request, HeldOf
        <4>4. PICK w \in Thread : Head(req[v].handles) \in ShownOf(req[w])
          BY <4>2, ShownIs
        <4>5. v = w
          BY <1>1, <4>3, <4>4 DEF IInv, OwnersDistinct, OwnedBy
        <4> QED
          BY <4>2, <4>3, <4>4, <4>5 DEF Formed
      <3> QED
        BY <3>2, <3>3
    <2> QED
      BY <2>1, <2>2 DEF RepliesDistinct
  <1> QED
    BY <1>1, Invariance, PTL

(* A reply of allocate2 has all the buffers that were asked for, or none.   *)
THEOREM RepliesComplete == Spec => []CompleteOrFailed
PROOF
  <1>1. IInv => CompleteOrFailed
    BY DEF IInv, RequestsFormed, Formed, CompleteOrFailed
  <1> QED
    BY <1>1, Invariance, PTL
=============================================================================
