------------------------ MODULE AllocatorRoutingProofs ------------------------
(***************************************************************************)
(* Theorems about AllocatorRouting, for any number of binder threads,      *)
(* backend objects and descriptors. The first part holds however calls     *)
(* overlap; the second is about calls one at a time.                       *)
(***************************************************************************)
EXTENDS AllocatorRouting, TLAPS

-----------------------------------------------------------------------------
(* The inductive invariant for any overlap. Every call past Enter has a     *)
(* descriptor; the object it holds is of the class its step asks; a call on *)
(* its way to mBackend with a descriptor that some backend supports finds   *)
(* one there, since mBackend is never null again.                           *)
CallsFormed == \A t \in Thread :
  /\ call[t].step # "done" => call[t].desc \in Desc
  /\ call[t].step \in Types => call[t].backend \in Obj /\ call[t].backend.type = call[t].step
  /\ call[t].step = "in_backend" => call[t].backend \in Obj

WeakTyped == \A k \in Types : weak[k] # NoObj => weak[k].type = k

GbmRefused == \A t \in Thread : call[t].step = "dmabuf" => ~Supports("gbm", call[t].desc)

SupportedIsSet == \A t \in Thread :
  call[t].step = "dispatch" /\ Supported(call[t].desc) => mBackend # NoObj

IInv == /\ TypeOK /\ CallsFormed /\ WeakTyped /\ GbmRefused /\ SupportedIsSet
        /\ YesMeansYes /\ NeverWithoutBackend

(* What fetchBackend* returns is an object of the class it fetches.         *)
LEMMA FetchedTyped ==
  ASSUME TypeOK, WeakTyped, NEW k \in Types
  PROVE  \A o \in Fetched(k) : o \in Obj /\ o.type = k
PROOF
  BY DEF Fetched, TypeOK, WeakTyped

LEMMA StartedTyped ==
  ASSUME NEW op \in Ops, NEW d \in Desc, NEW o \in Obj
  PROVE  /\ [Started(op, d) EXCEPT !.backend = o] \in CallState
         /\ [Started(op, d) EXCEPT !.backend = o].step = "gbm"
         /\ [Started(op, d) EXCEPT !.backend = o].desc = d
         /\ [Started(op, d) EXCEPT !.backend = o].backend = o
         /\ [Started(op, d) EXCEPT !.backend = o].result = "none"
PROOF
  BY DEF Started, CallState

(* The result a backend gives, and a yes only of what it supports.          *)
LEMMA ResultsRight ==
  ASSUME NEW c \in CallState, c.backend \in Obj
  PROVE  \A r \in Results(c) :
           /\ r \in {"error", "success", "true", "false"}
           /\ r = "true" => Supports(c.backend.type, c.desc)
           /\ r = "false" => ~Supports(c.backend.type, c.desc)
PROOF
  BY DEF Results

LEMMA InvInit == Init => IInv
PROOF
  <1> SUFFICES ASSUME Init PROVE IInv
    OBVIOUS
  <1>1. Idle \in CallState /\ Idle.step = "done" /\ Idle.desc = NoDesc /\ Idle.result = "none"
    BY DEF Idle, Started, CallState, Ops
  <1>2. \A t \in Thread : call[t] = Idle
    BY DEF Init
  <1>3. TypeOK
    BY <1>1 DEF Init, TypeOK
  <1>4. CallsFormed /\ GbmRefused /\ SupportedIsSet /\ YesMeansYes /\ NeverWithoutBackend
    BY <1>1, <1>2 DEF CallsFormed, GbmRefused, SupportedIsSet, YesMeansYes, NeverWithoutBackend, Types
  <1>5. WeakTyped
    BY DEF Init, WeakTyped
  <1> QED
    BY <1>3, <1>4, <1>5 DEF IInv

(* A step gives one thread a call c and may set mBackend: what c has to     *)
(* satisfy for the invariant to hold after it.                              *)
Fits(c) ==
  /\ c \in CallState
  /\ c.step # "done" => c.desc \in Desc
  /\ c.step \in Types => c.backend \in Obj /\ c.backend.type = c.step
  /\ c.step = "in_backend" => c.backend \in Obj
  /\ c.step = "dmabuf" => ~Supports("gbm", c.desc)
  /\ c.result = "true" => Supported(c.desc)
  /\ c.step = "done" /\ c.desc # NoDesc /\ Supported(c.desc) => c.by # "none"

LEMMA GotoKeeps ==
  ASSUME IInv, NEW t \in Thread, NEW c, Fits(c), Goto(t, c),
         c.step = "dispatch" /\ Supported(c.desc) => mBackend' # NoObj,
         mBackend' = mBackend \/ mBackend' \in Obj,
         weak' \in [Types -> Obj \cup {NoObj}], WeakTyped', overlapped' \in BOOLEAN
  PROVE  IInv'
PROOF
  <1>1. \A u \in Thread : call'[u] = IF u = t THEN c ELSE call[u]
    BY DEF Goto, IInv, TypeOK
  <1>2. TypeOK'
    <2>1. mBackend' \in Obj \cup {NoObj}
      BY DEF IInv, TypeOK
    <2>2. call' \in [Thread -> CallState]
      BY DEF Goto, IInv, TypeOK, Fits
    <2> QED
      BY <2>1, <2>2 DEF TypeOK
  <1>3. CallsFormed'
    BY <1>1 DEF IInv, CallsFormed, Fits
  <1>4. GbmRefused'
    BY <1>1 DEF IInv, GbmRefused, Fits
  <1>5. SupportedIsSet'
    BY <1>1, RoutingAssumption DEF IInv, SupportedIsSet
  <1>6. YesMeansYes'
    BY <1>1 DEF IInv, YesMeansYes, Fits
  <1>7. NeverWithoutBackend'
    BY <1>1 DEF IInv, NeverWithoutBackend, Fits
  <1> QED
    BY <1>2, <1>3, <1>4, <1>5, <1>6, <1>7 DEF IInv

LEMMA InvNext == IInv /\ [Next]_vars => IInv'
PROOF
  <1> SUFFICES ASSUME IInv, [Next]_vars PROVE IInv'
    OBVIOUS
  <1>1. CASE UNCHANGED vars
    BY <1>1 DEF vars, IInv, TypeOK, CallsFormed, WeakTyped, GbmRefused, SupportedIsSet,
                YesMeansYes, NeverWithoutBackend
  <1>2. ASSUME NEW t \in Thread, NEW op \in Ops, NEW d \in Desc, Enter(t, op, d)
        PROVE  IInv'
    <2>1. PICK o \in Fetched("gbm") :
            /\ weak' = [weak EXCEPT !["gbm"] = o]
            /\ Goto(t, [Started(op, d) EXCEPT !.backend = o])
      BY <1>2 DEF Enter
    <2>2. o \in Obj /\ o.type = "gbm"
      BY <2>1, FetchedTyped DEF IInv, Types
    <2>3. weak' \in [Types -> Obj \cup {NoObj}] /\ WeakTyped'
      BY <2>1, <2>2 DEF IInv, TypeOK, WeakTyped
    <2>4. Fits([Started(op, d) EXCEPT !.backend = o])
      BY <2>2, StartedTyped DEF Fits, Types
    <2>5. [Started(op, d) EXCEPT !.backend = o].step # "dispatch"
      BY <2>2, StartedTyped
    <2>6. mBackend' = mBackend
      BY <1>2 DEF Enter
    <2>9. overlapped' \in BOOLEAN
      BY <1>2 DEF Enter, IInv, TypeOK
    <2> QED
      BY <2>1, <2>3, <2>4, <2>5, <2>6, <2>9, GotoKeeps
  <1>3. ASSUME NEW t \in Thread, NEW k \in Types, Select(t, k)
        PROVE  IInv'
    <2> DEFINE c == [call[t] EXCEPT !.step = "dispatch", !.backend = NoObj]
    <2>1. Goto(t, c) /\ mBackend' = call[t].backend /\ weak' = weak
      BY <1>3 DEF Select
    <2>2. call[t] \in CallState /\ call[t].step \in Types /\ call[t].backend \in Obj
          /\ call[t].desc \in Desc
      BY <1>3 DEF Select, IInv, TypeOK, CallsFormed, Types
    <2>3. /\ c \in CallState /\ c.step = "dispatch" /\ c.desc = call[t].desc
          /\ c.result = call[t].result
      BY <2>2 DEF CallState
    <2>4. Fits(c)
      BY <2>2, <2>3 DEF Fits, IInv, YesMeansYes, Types
    <2>5. mBackend' # NoObj /\ mBackend' \in Obj
      BY <2>1, <2>2, RoutingAssumption
    <2>6. weak' \in [Types -> Obj \cup {NoObj}] /\ WeakTyped'
      BY <2>1 DEF IInv, TypeOK, WeakTyped
    <2>9. overlapped' \in BOOLEAN
      BY <1>3 DEF Select, IInv, TypeOK
    <2> QED
      BY <2>1, <2>4, <2>5, <2>6, <2>9, GotoKeeps
  <1>4. ASSUME NEW t \in Thread, TryDmaBuf(t)
        PROVE  IInv'
    <2>1. PICK o \in Fetched("dmabuf") :
            /\ weak' = [weak EXCEPT !["dmabuf"] = o]
            /\ Goto(t, [call[t] EXCEPT !.step = "dmabuf", !.backend = o])
      BY <1>4 DEF TryDmaBuf
    <2> DEFINE c == [call[t] EXCEPT !.step = "dmabuf", !.backend = o]
    <2>2. o \in Obj /\ o.type = "dmabuf"
      BY <2>1, FetchedTyped DEF IInv, Types
    <2>3. weak' \in [Types -> Obj \cup {NoObj}] /\ WeakTyped'
      BY <2>1, <2>2 DEF IInv, TypeOK, WeakTyped
    <2>4. call[t] \in CallState /\ call[t].desc \in Desc
      BY <1>4 DEF TryDmaBuf, IInv, TypeOK, CallsFormed
    <2>5. /\ c \in CallState /\ c.step = "dmabuf" /\ c.desc = call[t].desc
          /\ c.result = call[t].result /\ c.backend = o
      BY <2>2, <2>4 DEF CallState
    <2>6. Fits(c)
      BY <1>4, <2>2, <2>4, <2>5 DEF Fits, IInv, YesMeansYes, TryDmaBuf
    <2>7. mBackend' = mBackend
      BY <1>4 DEF TryDmaBuf
    <2>9. overlapped' \in BOOLEAN
      BY <1>4 DEF TryDmaBuf, IInv, TypeOK
    <2> QED
      BY <2>1, <2>3, <2>5, <2>6, <2>7, <2>9, GotoKeeps
  <1>5. ASSUME NEW t \in Thread, SelectNone(t)
        PROVE  IInv'
    <2> DEFINE c == [call[t] EXCEPT !.step = "dispatch", !.backend = NoObj]
    <2>1. Goto(t, c) /\ mBackend' = mBackend /\ weak' = weak
      BY <1>5 DEF SelectNone
    <2>2. call[t] \in CallState /\ call[t].desc \in Desc /\ ~Supported(call[t].desc)
      BY <1>5 DEF SelectNone, IInv, TypeOK, CallsFormed, GbmRefused, Supported, Types
    <2>3. /\ c \in CallState /\ c.step = "dispatch" /\ c.desc = call[t].desc
          /\ c.result = call[t].result
      BY <2>2 DEF CallState
    <2>4. Fits(c)
      BY <2>2, <2>3 DEF Fits, IInv, YesMeansYes, Types
    <2>5. weak' \in [Types -> Obj \cup {NoObj}] /\ WeakTyped'
      BY <2>1 DEF IInv, TypeOK, WeakTyped
    <2>9. overlapped' \in BOOLEAN
      BY <1>5 DEF SelectNone, IInv, TypeOK
    <2> QED
      BY <2>1, <2>2, <2>3, <2>4, <2>5, <2>9, GotoKeeps
  <1>6. ASSUME NEW t \in Thread, NoBackend(t)
        PROVE  IInv'
    <2> DEFINE c == [call[t] EXCEPT !.step = "done", !.result = "error"]
    <2>1. Goto(t, c) /\ mBackend' = mBackend /\ weak' = weak
      BY <1>6 DEF NoBackend
    <2>2. call[t] \in CallState /\ ~Supported(call[t].desc)
      BY <1>6 DEF NoBackend, IInv, TypeOK, SupportedIsSet
    <2>3. c \in CallState /\ c.step = "done" /\ c.desc = call[t].desc /\ c.result = "error"
      BY <2>2 DEF CallState
    <2>4. Fits(c)
      BY <2>2, <2>3 DEF Fits, Types
    <2>5. weak' \in [Types -> Obj \cup {NoObj}] /\ WeakTyped'
      BY <2>1 DEF IInv, TypeOK, WeakTyped
    <2>9. overlapped' \in BOOLEAN
      BY <1>6 DEF NoBackend, IInv, TypeOK
    <2> QED
      BY <2>1, <2>3, <2>4, <2>5, <2>9, GotoKeeps
  <1>7. ASSUME NEW t \in Thread, Dispatch(t)
        PROVE  IInv'
    <2> DEFINE c == [call[t] EXCEPT !.step = "in_backend", !.backend = mBackend]
    <2>1. Goto(t, c) /\ mBackend' = mBackend /\ weak' = weak
      BY <1>7 DEF Dispatch
    <2>2. call[t] \in CallState /\ call[t].desc \in Desc /\ mBackend \in Obj
      BY <1>7 DEF Dispatch, IInv, TypeOK, CallsFormed
    <2>3. /\ c \in CallState /\ c.step = "in_backend" /\ c.desc = call[t].desc
          /\ c.result = call[t].result /\ c.backend = mBackend
      BY <2>2 DEF CallState
    <2>4. Fits(c)
      BY <2>2, <2>3 DEF Fits, IInv, YesMeansYes, Types
    <2>5. weak' \in [Types -> Obj \cup {NoObj}] /\ WeakTyped'
      BY <2>1 DEF IInv, TypeOK, WeakTyped
    <2>9. overlapped' \in BOOLEAN
      BY <1>7 DEF Dispatch, IInv, TypeOK
    <2> QED
      BY <2>1, <2>3, <2>4, <2>5, <2>9, GotoKeeps
  <1>8. ASSUME NEW t \in Thread, Return(t)
        PROVE  IInv'
    <2>1. PICK r \in Results(call[t]) :
            Goto(t, [call[t] EXCEPT !.step = "done", !.backend = NoObj,
                                    !.result = r, !.by = call[t].backend.type])
      BY <1>8 DEF Return
    <2> DEFINE c == [call[t] EXCEPT !.step = "done", !.backend = NoObj,
                                    !.result = r, !.by = call[t].backend.type]
    <2>2. call[t] \in CallState /\ call[t].backend \in Obj /\ call[t].backend.type \in Types
      BY <1>8 DEF Return, IInv, TypeOK, CallsFormed, Obj
    <2>3. /\ r \in {"error", "success", "true", "false"}
          /\ r = "true" => Supports(call[t].backend.type, call[t].desc)
      BY <2>1, <2>2, ResultsRight
    <2>4. /\ c \in CallState /\ c.step = "done" /\ c.desc = call[t].desc
          /\ c.result = r /\ c.by = call[t].backend.type
      BY <2>2, <2>3 DEF CallState
    <2>5. Fits(c)
      BY <2>2, <2>3, <2>4 DEF Fits, Supported, Types
    <2>6. weak' \in [Types -> Obj \cup {NoObj}] /\ WeakTyped' /\ mBackend' = mBackend
      BY <1>8 DEF Return, IInv, TypeOK, WeakTyped
    <2>9. overlapped' \in BOOLEAN
      BY <1>8 DEF Return, IInv, TypeOK
    <2> QED
      BY <2>1, <2>4, <2>5, <2>6, <2>9, GotoKeeps
  <1> QED
    BY <1>1, <1>2, <1>3, <1>4, <1>5, <1>6, <1>7, <1>8 DEF Next

LEMMA Invariance == Spec => []IInv
PROOF
  BY InvInit, InvNext, PTL DEF Spec

(* The member, the weak pointers and the calls keep their types.            *)
THEOREM RoutingTypeCorrect == Spec => []TypeOK
PROOF
  <1>1. IInv => TypeOK
    BY DEF IInv
  <1> QED
    BY <1>1, Invariance, PTL

(* isSupported says yes only of what some backend supports, whichever       *)
(* backend another thread's selectBackend leaves in mBackend.               *)
THEOREM YesIsYes == Spec => []YesMeansYes
PROOF
  <1>1. IInv => YesMeansYes
    BY DEF IInv
  <1> QED
    BY <1>1, Invariance, PTL

(* CHECK_BACKEND never refuses a call whose descriptor some backend         *)
(* supports: mBackend is replaced by other threads, never reset.            *)
THEOREM SupportedIsServed == Spec => []NeverWithoutBackend
PROOF
  <1>1. IInv => NeverWithoutBackend
    BY DEF IInv
  <1> QED
    BY <1>1, Invariance, PTL

-----------------------------------------------------------------------------
(* Calls one at a time. While one is in progress no other thread selects,   *)
(* so that mBackend is what this call made it.                              *)
OneAtATime == \A t, u \in Thread : call[t].step # "done" /\ call[u].step # "done" => t = u

MemberSupports == \A t \in Thread :
  call[t].step = "dispatch" /\ Supported(call[t].desc) => Supports(mBackend.type, call[t].desc)

CallSupports == \A t \in Thread :
  call[t].step = "in_backend" /\ Supported(call[t].desc) =>
    Supports(call[t].backend.type, call[t].desc)

Serial == ~overlapped => OneAtATime /\ MemberSupports /\ CallSupports

SInv == Serial /\ SupporterAnswers /\ NoMeansNo

LEMMA SerialInit == Init => SInv
PROOF
  <1> SUFFICES ASSUME Init PROVE SInv
    OBVIOUS
  <1>1. \A t \in Thread : call[t].step = "done" /\ call[t].desc = NoDesc /\ call[t].result = "none"
    BY DEF Init, Idle, Started
  <1> QED
    BY <1>1 DEF SInv, Serial, OneAtATime, MemberSupports, CallSupports, SupporterAnswers, NoMeansNo

(* The only thread in a call goes on to the call c.                         *)
LEMMA SerialGoto ==
  ASSUME IInv, SInv, NEW t \in Thread, NEW c, Goto(t, c),
         overlapped' = overlapped, call[t].step # "done",
         c.step = "dispatch" /\ Supported(c.desc) => Supports(mBackend'.type, c.desc),
         c.step = "in_backend" /\ Supported(c.desc) /\ ~overlapped => Supports(c.backend.type, c.desc),
         c.step = "done" /\ c.desc # NoDesc /\ Supported(c.desc) /\ ~overlapped
           => c.by \in Types /\ Supports(c.by, c.desc),
         c.result = "false" /\ ~overlapped => ~Supported(c.desc)
  PROVE  SInv'
PROOF
  <1>1. \A u \in Thread : call'[u] = IF u = t THEN c ELSE call[u]
    BY DEF Goto, IInv, TypeOK
  <1>2. ~overlapped => \A u \in Thread : u # t => call[u].step = "done" /\ call'[u] = call[u]
    BY <1>1 DEF SInv, Serial, OneAtATime
  <1>3. ~overlapped => OneAtATime'
    BY <1>2 DEF OneAtATime
  <1>4. ~overlapped => MemberSupports' /\ CallSupports'
    BY <1>1, <1>2 DEF MemberSupports, CallSupports
  <1>5. SupporterAnswers'
    BY <1>1 DEF SInv, SupporterAnswers
  <1>6. NoMeansNo'
    BY <1>1 DEF SInv, NoMeansNo
  <1> QED
    BY <1>3, <1>4, <1>5, <1>6 DEF SInv, Serial

LEMMA SerialNext == IInv /\ SInv /\ [Next]_vars => SInv'
PROOF
  <1> SUFFICES ASSUME IInv, SInv, [Next]_vars PROVE SInv'
    OBVIOUS
  <1>1. CASE UNCHANGED vars
    BY <1>1 DEF vars, SInv, Serial, OneAtATime, MemberSupports, CallSupports,
                SupporterAnswers, NoMeansNo
  <1>2. ASSUME NEW t \in Thread, NEW op \in Ops, NEW d \in Desc, Enter(t, op, d)
        PROVE  SInv'
    <2>1. PICK o \in Fetched("gbm") : Goto(t, [Started(op, d) EXCEPT !.backend = o])
      BY <1>2 DEF Enter
    <2>2. o \in Obj
      BY <2>1, FetchedTyped DEF IInv, Types
    <2>3. /\ [Started(op, d) EXCEPT !.backend = o].step = "gbm"
          /\ [Started(op, d) EXCEPT !.backend = o].desc = d
          /\ [Started(op, d) EXCEPT !.backend = o].result = "none"
      BY DEF Started
    <2> DEFINE c == [Started(op, d) EXCEPT !.backend = o]
    <2>4. \A u \in Thread : call'[u] = IF u = t THEN c ELSE call[u]
      BY <2>1 DEF Goto, IInv, TypeOK
    <2>5. ~overlapped' => ~overlapped /\ \A u \in Thread : call[u].step = "done"
      BY <1>2 DEF Enter, IInv, TypeOK
    <2>6. Serial'
      BY <2>3, <2>4, <2>5 DEF Serial, OneAtATime, MemberSupports, CallSupports
    <2>7. SupporterAnswers' /\ NoMeansNo'
      BY <2>3, <2>4, <2>5 DEF SInv, SupporterAnswers, NoMeansNo
    <2> QED
      BY <2>6, <2>7 DEF SInv
  <1>3. ASSUME NEW t \in Thread, NEW k \in Types, Select(t, k)
        PROVE  SInv'
    <2> DEFINE c == [call[t] EXCEPT !.step = "dispatch", !.backend = NoObj]
    <2>1. /\ Goto(t, c) /\ mBackend' = call[t].backend /\ overlapped' = overlapped
          /\ call[t].step = k /\ Supports(k, call[t].desc)
      BY <1>3 DEF Select
    <2>2. call[t] \in CallState /\ k # "done" /\ call[t].backend.type = k
      BY <2>1 DEF IInv, TypeOK, CallsFormed, Types
    <2>3. c.step = "dispatch" /\ c.desc = call[t].desc /\ c.result = call[t].result
      BY <2>2 DEF CallState
    <2>4. c.result = "false" /\ ~overlapped => ~Supported(c.desc)
      BY <2>3 DEF SInv, NoMeansNo
    <2> QED
      BY <2>1, <2>2, <2>3, <2>4, SerialGoto
  <1>4. ASSUME NEW t \in Thread, TryDmaBuf(t)
        PROVE  SInv'
    <2>1. PICK o \in Fetched("dmabuf") :
            Goto(t, [call[t] EXCEPT !.step = "dmabuf", !.backend = o])
      BY <1>4 DEF TryDmaBuf
    <2> DEFINE c == [call[t] EXCEPT !.step = "dmabuf", !.backend = o]
    <2>2. call[t] \in CallState /\ call[t].step = "gbm" /\ overlapped' = overlapped
      BY <1>4 DEF TryDmaBuf, IInv, TypeOK
    <2>3. c.step = "dmabuf" /\ c.desc = call[t].desc /\ c.result = call[t].result
      BY <2>2 DEF CallState
    <2>4. c.result = "false" /\ ~overlapped => ~Supported(c.desc)
      BY <2>3 DEF SInv, NoMeansNo
    <2> QED
      BY <2>1, <2>2, <2>3, <2>4, SerialGoto
  <1>5. ASSUME NEW t \in Thread, SelectNone(t)
        PROVE  SInv'
    <2> DEFINE c == [call[t] EXCEPT !.step = "dispatch", !.backend = NoObj]
    <2>1. /\ Goto(t, c) /\ overlapped' = overlapped /\ call[t].step = "dmabuf"
          /\ ~Supported(call[t].desc)
      BY <1>5 DEF SelectNone, IInv, GbmRefused, Supported, Types
    <2>2. c.step = "dispatch" /\ c.desc = call[t].desc /\ c.result = call[t].result
      BY DEF IInv, TypeOK, CallState
    <2> QED
      BY <2>1, <2>2, SerialGoto
  <1>6. ASSUME NEW t \in Thread, NoBackend(t)
        PROVE  SInv'
    <2> DEFINE c == [call[t] EXCEPT !.step = "done", !.result = "error"]
    <2>1. Goto(t, c) /\ overlapped' = overlapped /\ call[t].step = "dispatch"
      BY <1>6 DEF NoBackend
    <2>2. ~Supported(call[t].desc)
      BY <1>6 DEF NoBackend, IInv, SupportedIsSet
    <2>3. c.step = "done" /\ c.desc = call[t].desc /\ c.result = "error"
      BY DEF IInv, TypeOK, CallState
    <2> QED
      BY <2>1, <2>2, <2>3, SerialGoto
  <1>7. ASSUME NEW t \in Thread, Dispatch(t)
        PROVE  SInv'
    <2> DEFINE c == [call[t] EXCEPT !.step = "in_backend", !.backend = mBackend]
    <2>1. Goto(t, c) /\ overlapped' = overlapped /\ call[t].step = "dispatch"
      BY <1>7 DEF Dispatch
    <2>2. /\ c.step = "in_backend" /\ c.desc = call[t].desc
          /\ c.result = call[t].result /\ c.backend = mBackend
      BY DEF IInv, TypeOK, CallState
    <2>3. ~overlapped /\ Supported(c.desc) => Supports(c.backend.type, c.desc)
      BY <2>1, <2>2 DEF SInv, Serial, MemberSupports
    <2>4. c.result = "false" /\ ~overlapped => ~Supported(c.desc)
      BY <2>2 DEF SInv, NoMeansNo
    <2> QED
      BY <2>1, <2>2, <2>3, <2>4, SerialGoto
  <1>8. ASSUME NEW t \in Thread, Return(t)
        PROVE  SInv'
    <2>1. PICK r \in Results(call[t]) :
            Goto(t, [call[t] EXCEPT !.step = "done", !.backend = NoObj,
                                    !.result = r, !.by = call[t].backend.type])
      BY <1>8 DEF Return
    <2> DEFINE c == [call[t] EXCEPT !.step = "done", !.backend = NoObj,
                                    !.result = r, !.by = call[t].backend.type]
    <2>2. call[t].step = "in_backend" /\ overlapped' = overlapped
      BY <1>8 DEF Return
    <2>3. call[t] \in CallState /\ call[t].backend \in Obj /\ call[t].backend.type \in Types
      BY <2>2 DEF IInv, TypeOK, CallsFormed, Obj
    <2>4. r = "false" => ~Supports(call[t].backend.type, call[t].desc)
      BY <2>1, <2>3, ResultsRight
    <2>5. c.step = "done" /\ c.desc = call[t].desc /\ c.result = r /\ c.by = call[t].backend.type
      BY <2>3 DEF CallState
    <2>6. ~overlapped /\ Supported(c.desc) => Supports(call[t].backend.type, c.desc)
      BY <2>2, <2>5 DEF SInv, Serial, CallSupports
    <2>7. c.result = "false" /\ ~overlapped => ~Supported(c.desc)
      BY <2>4, <2>5, <2>6
    <2> QED
      BY <2>1, <2>2, <2>3, <2>5, <2>6, <2>7, SerialGoto
  <1> QED
    BY <1>1, <1>2, <1>3, <1>4, <1>5, <1>6, <1>7, <1>8 DEF Next

LEMMA SerialInvariance == Spec => []SInv
PROOF
  BY InvInit, InvNext, SerialInit, SerialNext, PTL DEF Spec

(* As long as calls come one at a time, allocate2 and isSupported are       *)
(* answered by the backend that supports the descriptor, whatever earlier   *)
(* calls left in mBackend.                                                  *)
THEOREM SupporterIsAsked == Spec => []SupporterAnswers
PROOF
  <1>1. SInv => SupporterAnswers
    BY DEF SInv
  <1> QED
    BY <1>1, SerialInvariance, PTL

(* ... and a no of isSupported is a no of every backend.                    *)
THEOREM NoIsNo == Spec => []NoMeansNo
PROOF
  <1>1. SInv => NoMeansNo
    BY DEF SInv
  <1> QED
    BY <1>1, SerialInvariance, PTL
=============================================================================
