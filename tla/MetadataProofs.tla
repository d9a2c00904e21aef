---------------------------- MODULE MetadataProofs ----------------------------
(***************************************************************************)
(* Theorems about what a client is told of a buffer: about BufferMetadata, *)
(* for any number of threads and addresses, any values and any types that  *)
(* clients set and ask for, and after it about BufferGeometry, for any     *)
(* requests, devices, pitches and builds. The two share no state.          *)
(***************************************************************************)
EXTENDS BufferMetadata, BufferGeometry, TLAPS

-----------------------------------------------------------------------------
(***************************************************************************)
(*                             BufferMetadata                              *)
(***************************************************************************)
(* The inductive invariant. The type of every variable: the values that are *)
(* remembered have a content and a size, ...                                *)
Value == [value: Nat, size: Nat]
Memory == [live: BOOLEAN, size: Nat, value: Nat]
Metadata == [DATASPACE: Scalars, BLEND_MODE: Scalars, SMPTE2086: Block, CTA861_3: Block,
             SMPTE2094_50: Block, smpte2094_50_size: 0..MaxSize]
Steps == {"done", "set_store", "set_size", "get_size", "get_answer", "aborted"}
CallState ==
  [step: Steps, op: {"none", "set", "get"}, type: ReadTypes \cup WriteTypes \cup {"none"},
   backend: Backends \cup {"none"}, data: Block \cup {Null}, size: Nat, value: Value,
   expected: Value, result: {"none", "error", "value", "absent"}, code: Nat]

Typed ==
  /\ metadata \in Metadata
  /\ heap \in [Block -> Memory]
  /\ call \in [Thread -> CallState]
  /\ last \in [Writable -> Value]
  /\ overlapped \in BOOLEAN

(* ... and what a call has in hand at each of its steps.                    *)
CallFormed(c) ==
  /\ c.step \in {"set_store", "set_size"} => c.op = "set"
  /\ c.step \in {"get_size", "get_answer"} => c.op = "get"
  /\ c.step = "set_store" /\ c.type \in PointerTypes => c.data \in Block
  /\ c.step = "set_store" /\ c.type \in {"DATASPACE", "BLEND_MODE"} =>
       c.value.value \in Scalars /\ c.value.size = 0
  /\ c.step \in {"set_store", "set_size"} /\ c.type = "SMPTE2094_50" => c.value.size <= MaxSize
  /\ c.step = "set_size" => c.type = "SMPTE2094_50"
  /\ c.step = "get_answer" /\ c.type = "SMPTE2094_50" /\ c.backend = "gbm" => c.data \in Block
  /\ c.step = "get_size" /\ c.type \in PointerTypes /\ c.backend = "gbm" => c.data \in Block
CallsFormed == \A t \in Thread : CallFormed(call[t])

(* Memory that a set has filled and not stored: no pointer leads to it, and *)
(* no other set is about to store it. So PointersOwn is kept by SetPointer. *)
Pending(c) == c.step = "set_store" /\ c.type \in PointerTypes
PendingOwn ==
  \A t \in Thread : Pending(call[t]) =>
    /\ \A p \in PointerTypes : metadata[p] # call[t].data
    /\ \A u \in Thread : u # t /\ Pending(call[u]) => call[u].data # call[t].data

IInv == Typed /\ CallsFormed /\ PointersOwn /\ CopiesLive /\ PendingOwn

(* While calls have come one at a time there is one in progress at most, ...*)
Calm == \A t, u \in Thread : t # u => ~(Busy(t) /\ Busy(u))

(* ... the user data has what was set last, but for the size of a payload   *)
(* whose pointer has just been stored, ...                                  *)
Kept ==
  /\ last["SMPTE2094_50"].size = metadata.smpte2094_50_size
  /\ metadata.smpte2094_50_size # 0 =>
       /\ heap[metadata.SMPTE2094_50].size = metadata.smpte2094_50_size
       /\ heap[metadata.SMPTE2094_50].value = last["SMPTE2094_50"].value
Synced ==
  /\ last["DATASPACE"] = [value |-> metadata.DATASPACE, size |-> 0]
  /\ (\A t \in Thread : call[t].step # "set_size") => Kept

(* ... what a get has copied so far is what it is expected to return, and   *)
(* what a set is storing is what it was given.                              *)
Holds(b, v) == heap[b].size = v.size /\ heap[b].value = v.value
CallSynced(c) ==
  /\ c.step = "set_store" /\ c.type = "SMPTE2094_50" => Holds(c.data, c.value)
  /\ c.step = "set_size" => c.data = metadata.SMPTE2094_50 /\ Holds(c.data, c.value)
  /\ c.step \in {"get_size", "get_answer"} /\ c.backend = "gbm" =>
       /\ c.type = "DATASPACE" => c.value = c.expected
       /\ c.type = "SMPTE2094_50" /\ c.expected.size # 0 => Holds(c.data, c.expected)
  /\ c.step = "get_size" /\ c.backend = "gbm" /\ c.type = "SMPTE2094_50" =>
       c.expected.size = metadata.smpte2094_50_size
  /\ c.step = "get_answer" /\ c.backend = "gbm" /\ c.type = "SMPTE2094_50" =>
       c.size = c.expected.size
  /\ c.step = "done" /\ c.op = "get" /\ c.backend = "gbm"
       /\ c.type \in {"DATASPACE", "SMPTE2094_50"} =>
       IF c.result = "value" THEN c.value = c.expected ELSE c.expected.size = 0

Serial == Calm /\ Synced /\ \A t \in Thread : CallSynced(call[t])
SerialInv == IInv /\ (~overlapped => Serial)

-----------------------------------------------------------------------------
LEMMA IdleTyped == Nothing \in Value /\ Idle \in CallState
PROOF
  BY DEF Nothing, Value, Idle, CallState, Steps

-----------------------------------------------------------------------------
(* A thread has a new call c that is about to store no memory; no pointer   *)
(* changes and no memory.                                                   *)
LEMMA CallKeeps ==
  ASSUME IInv, NEW t \in Thread, NEW c \in CallState, call' = [call EXCEPT ![t] = c],
         metadata' \in Metadata, \A p \in PointerTypes : metadata'[p] = metadata[p],
         heap' = heap, last' \in [Writable -> Value], overlapped' \in BOOLEAN,
         CallFormed(c), ~Pending(c),
         c.step # "done" /\ c.data # Null => c.data \in Block /\ heap[c.data].live
  PROVE  IInv'
PROOF
  <1>1. \A u \in Thread : call'[u] = IF u = t THEN c ELSE call[u]
    BY DEF IInv, Typed
  <1>2. Typed'
    BY DEF IInv, Typed
  <1>3. CallsFormed'
    BY <1>1 DEF IInv, CallsFormed, CallFormed
  <1>4. PointersOwn'
    BY DEF IInv, PointersOwn
  <1>5. CopiesLive'
    BY <1>1 DEF IInv, CopiesLive, Busy
  <1>6. PendingOwn'
    BY <1>1 DEF IInv, PendingOwn, Pending
  <1> QED
    BY <1>2, <1>3, <1>4, <1>5, <1>6 DEF IInv

(* A call that enters while calls have come one at a time finds none; a     *)
(* step of a call is that of the only one.                                  *)
LEMMA Alone ==
  ASSUME SerialInv, NEW t \in Thread, ~overlapped', Enters(t) \/ (Busy(t) /\ UNCHANGED overlapped)
  PROVE  ~overlapped /\ Serial /\ \A u \in Thread : u # t => call[u].step = "done"
PROOF
  BY DEF SerialInv, Serial, Calm, Enters, Busy, IInv, Typed

(* What is left to show of a new call c of the only thread that has one.    *)
LEMMA SerialStep ==
  ASSUME Typed, Serial, NEW t \in Thread, \A u \in Thread : u # t => call[u].step = "done",
         NEW c \in CallState, call' = [call EXCEPT ![t] = c],
         last'["DATASPACE"] = [value |-> metadata'.DATASPACE, size |-> 0],
         c.step # "set_size" => Kept', CallSynced(c)'
  PROVE  Serial'
PROOF
  <1>1. \A u \in Thread : call'[u] = IF u = t THEN c ELSE call[u]
    BY DEF Typed
  <1>2. Calm'
    BY <1>1 DEF Calm, Busy
  <1>3. Synced'
    BY <1>1 DEF Synced
  <1>4. ASSUME NEW u \in Thread PROVE CallSynced(call[u])'
    <2>1. CASE u = t
      <3>1. call'[u] = c
        BY <1>1, <2>1
      <3> QED
        BY <3>1 DEF CallSynced, Holds
    <2>2. CASE u # t
      <3>1. call'[u] = call[u] /\ call[u].step = "done" /\ CallSynced(call[u])
        BY <1>1, <2>2 DEF Serial
      <3> QED
        BY <3>1 DEF CallSynced
    <2> QED
      BY <2>1, <2>2
  <1> QED
    BY <1>2, <1>3, <1>4 DEF Serial

-----------------------------------------------------------------------------
(* A fresh BO: three pointers to memory of their own, nothing set.          *)
LEMMA FreshBo ==
  LET data == NewData(FreshBlocks)
      new  == NewHeap(FreshBlocks)
  IN /\ data \in Metadata /\ new \in [Block -> Memory]
     /\ \A p \in PointerTypes : new[data[p]].live
     /\ \A p, q \in PointerTypes : data[p] = data[q] => p = q
     /\ data.DATASPACE = 0 /\ data.smpte2094_50_size = 0
PROOF
  <1> DEFINE b == FreshBlocks
  <1>1. \E s \in Block \X Block \X Block : s[1] # s[2] /\ s[1] # s[3] /\ s[2] # s[3]
    <2>1. PICK x, y, z \in Block : x # y /\ x # z /\ y # z
      BY MetadataAssumption
    <2> WITNESS <<x, y, z>> \in Block \X Block \X Block
    <2> QED
      BY <2>1
  <1>2. b \in Block \X Block \X Block /\ b[1] # b[2] /\ b[1] # b[3] /\ b[2] # b[3]
    BY <1>1 DEF FreshBlocks
  <1> HIDE DEF b
  <1>3. b[1] \in Block /\ b[2] \in Block /\ b[3] \in Block
    BY <1>2
  <1>4. NewData(b) \in Metadata /\ NewData(b).DATASPACE = 0 /\ NewData(b).smpte2094_50_size = 0
    BY <1>3, MetadataAssumption DEF NewData, Metadata
  <1>5. /\ NewHeap(b) \in [Block -> Memory]
        /\ \A i \in {1, 2, 3} : NewHeap(b)[b[i]].live
    BY <1>3, MetadataAssumption DEF NewHeap, Memory, Fresh0, Free0
  <1>6. \A p \in PointerTypes : \E i \in {1, 2, 3} : NewData(b)[p] = b[i]
    BY DEF NewData, PointerTypes
  <1>7. \A p, q \in PointerTypes : NewData(b)[p] = NewData(b)[q] => p = q
    BY <1>2 DEF NewData, PointerTypes
  <1> QED
    BY <1>4, <1>5, <1>6, <1>7 DEF b

LEMMA InitSerial == Init => SerialInv
PROOF
  <1> SUFFICES ASSUME Init PROVE SerialInv
    OBVIOUS
  <1>1. \A t \in Thread : call[t] = Idle
    BY DEF Init
  <1>2. Idle.step = "done" /\ Idle.op = "none"
    BY DEF Idle
  <1>3. Typed
    BY IdleTyped, FreshBo DEF Typed, Init
  <1>4. CallsFormed /\ CopiesLive /\ PendingOwn
    BY <1>1, <1>2 DEF CallsFormed, CallFormed, CopiesLive, Busy, PendingOwn, Pending
  <1>5. PointersOwn
    BY FreshBo DEF PointersOwn, Init
  <1>6. Calm /\ \A t \in Thread : CallSynced(call[t])
    BY <1>1, <1>2 DEF Calm, Busy, CallSynced
  <1>7. Synced
    BY FreshBo DEF Synced, Kept, Nothing, Writable, Init
  <1> QED
    BY <1>3, <1>4, <1>5, <1>6, <1>7 DEF SerialInv, IInv, Serial

LEMMA ReimportKeeps == ASSUME Reimport PROVE SerialInv'
PROOF
  <1>1. Init'
    BY DEF Reimport, Init
  <1> QED
    BY <1>1, InitSerial, PTL

-----------------------------------------------------------------------------
(* The actions, one by one: what the new call c of the thread is, then the  *)
(* invariants.                                                              *)
LEMMA EntersTyped ==
  ASSUME IInv, NEW t \in Thread, Enters(t)
  PROVE  overlapped' \in BOOLEAN
PROOF
  BY DEF IInv, Typed, Enters

LEMMA RefusedKeeps ==
  ASSUME SerialInv, NEW t \in Thread, NEW backend \in Backends, NEW type \in WriteTypes,
         \/ SetNoMemory(t, backend, type)
         \/ \E v \in Values(type) : SetRefuse(t, backend, type, v)
  PROVE  SerialInv'
PROOF
  <1>1. Enters(t) /\ UNCHANGED <<metadata, heap, last>>
    BY DEF SetNoMemory, SetRefuse
  <1>2. PICK c \in CallState :
          call' = [call EXCEPT ![t] = c] /\ c.step = "done" /\ c.op = "set"
    <2>1. PICK code \in Nat :
            call' = [call EXCEPT ![t] = [Idle EXCEPT !.op = "set", !.type = type,
                       !.backend = backend, !.result = "error", !.code = code]]
      BY DEF SetNoMemory, SetRefuse, NO_RESOURCES, BAD_VALUE
    <2> DEFINE c == [Idle EXCEPT !.op = "set", !.type = type, !.backend = backend,
                                 !.result = "error", !.code = code]
    <2>2. c \in CallState /\ c.step = "done" /\ c.op = "set"
      BY IdleTyped DEF Idle, CallState, Steps
    <2>3. call' = [call EXCEPT ![t] = c]
      BY <2>1
    <2> HIDE DEF c
    <2> QED
      BY <2>2, <2>3
  <1>3. IInv'
    BY <1>1, <1>2, CallKeeps, EntersTyped DEF SerialInv, IInv, Typed, CallFormed, Pending
  <1>4. ASSUME ~overlapped' PROVE Serial'
    BY <1>1, <1>2, <1>4, Alone, SerialStep
    DEF SerialInv, IInv, Serial, Synced, Kept, CallSynced, Enters, Busy
  <1> QED
    BY <1>3, <1>4 DEF SerialInv

LEMMA ScalarType == ASSUME NEW type, NEW v \in Values(type) PROVE
  /\ v \in Value
  /\ type \in {"DATASPACE", "BLEND_MODE"} => v.value \in Scalars /\ v.size = 0
PROOF
  <1>1. Scalars \subseteq Nat /\ \A p \in Payloads : p.value \in Nat /\ p \in Value
    BY MetadataAssumption DEF Value
  <1>2. CASE type \in {"DATASPACE", "BLEND_MODE"}
    <2>1. v \in [value: Scalars, size: {0}]
      BY <1>2 DEF Values
    <2>2. v.value \in Scalars /\ v.size = 0 /\ v = [value |-> v.value, size |-> v.size]
      BY <2>1
    <2> QED
      BY <1>1, <2>2 DEF Value
  <1>3. CASE type = "SMPTE2094_50"
    BY <1>1, <1>3 DEF Values
  <1>4. CASE type \notin {"DATASPACE", "BLEND_MODE", "SMPTE2094_50"}
    <2>1. PICK p \in Payloads : v = [value |-> p.value, size |-> 1]
      BY <1>4 DEF Values
    <2> QED
      BY <1>1, <1>4, <2>1 DEF Value
  <1> QED
    BY <1>2, <1>3, <1>4

(* Memory is filled: what anything leads to stays as it is.                 *)
LEMMA FilledKeeps ==
  ASSUME IInv, NEW t \in Thread, NEW c \in CallState, call[t].step = "done",
         call' = [call EXCEPT ![t] = c], metadata' = metadata, last' = last,
         overlapped' \in BOOLEAN, Pending(c), CallFormed(c), c.data \in Unused,
         heap' \in [Block -> Memory], heap'[c.data].live,
         \A x \in Block \ Unused : heap'[x] = heap[x]
  PROVE  IInv' /\ \A p \in PointerTypes : heap'[metadata[p]] = heap[metadata[p]]
PROOF
  <1>1. Typed /\ c.data \in Block
    BY DEF IInv, Unused
  <1>2. \A u \in Thread : call'[u] = IF u = t THEN c ELSE call[u]
    BY <1>1 DEF Typed
  <1>3. /\ \A p \in PointerTypes : metadata[p] \in Block \ Unused
        /\ \A u \in Thread : Busy(u) /\ call[u].data \in Block => call[u].data \in Block \ Unused
    <2>1. \A p \in PointerTypes : metadata[p] \in Block
      BY <1>1 DEF Typed, Metadata, PointerTypes
    <2> QED
      BY <2>1 DEF Unused, Reachable
  <1>4. \A u \in Thread : call[u].data \in Block \cup {Null}
    BY <1>1 DEF Typed, CallState
  <1>5. Typed'
    BY <1>1 DEF Typed
  <1>6. CallsFormed'
    BY <1>1, <1>2 DEF IInv, CallsFormed, CallFormed
  <1>7. PointersOwn'
    BY <1>1, <1>3 DEF IInv, PointersOwn
  <1>8. CopiesLive'
    BY <1>1, <1>2, <1>3, <1>4 DEF IInv, CopiesLive, Busy
  <1>9. PendingOwn'
    <2>1. \A u \in Thread : u # t /\ Pending(call[u]) => call[u].data \in Block \ Unused
      BY <1>1, <1>3, <1>4 DEF IInv, CallsFormed, CallFormed, Pending, Busy
    <2>2. \A u \in Thread : u # t /\ Pending(call[u]) => call[u].data # c.data
      BY <2>1
    <2>3. \A p \in PointerTypes : metadata[p] # c.data
      BY <1>3
    <2> QED
      BY <1>1, <1>2, <2>2, <2>3 DEF IInv, PendingOwn
  <1> QED
    BY <1>1, <1>3, <1>5, <1>6, <1>7, <1>8, <1>9 DEF IInv

LEMMA SetEnterKeeps ==
  ASSUME SerialInv, NEW t \in Thread, NEW backend \in Backends, NEW type \in WriteTypes,
         NEW v \in Values(type), SetEnter(t, backend, type, v)
  PROVE  SerialInv'
PROOF
  <1>1. Enters(t) /\ UNCHANGED <<metadata, last>> /\ ~TooBig(type, v) /\ call[t].step = "done"
    BY DEF SetEnter, Enters, Busy
  <1>2. PICK b \in Block \cup {Null}, c \in CallState :
          /\ call' = [call EXCEPT ![t] = c]
          /\ c.step = "set_store" /\ c.op = "set" /\ c.type = type /\ c.data = b /\ c.value = v
          /\ IF type \in PointerTypes
             THEN /\ b \in Unused
                  /\ heap' = [x \in Block |->
                       CASE x = b -> [live |-> TRUE, size |-> v.size, value |-> v.value]
                         [] x \in Unused \ {b} -> Free0
                         [] OTHER -> heap[x]]
             ELSE b = Null /\ heap' = heap
    <2>1. PICK b \in Block \cup {Null} :
            /\ call' = [call EXCEPT ![t] =
                 [Idle EXCEPT !.step = "set_store", !.op = "set", !.type = type,
                              !.backend = backend, !.data = b, !.value = v]]
            /\ IF type \in PointerTypes
               THEN /\ b \in Unused
                    /\ heap' = [x \in Block |->
                         CASE x = b -> [live |-> TRUE, size |-> v.size, value |-> v.value]
                           [] x \in Unused \ {b} -> Free0
                           [] OTHER -> heap[x]]
               ELSE b = Null /\ heap' = heap
      <3>1. CASE type \in PointerTypes
        <4> DEFINE b == CHOOSE b \in Unused : TRUE
        <4>1. b \in Unused /\ Unused \subseteq Block
          BY <3>1 DEF SetEnter, Unused
        <4> QED
          BY <3>1, <4>1 DEF SetEnter
      <3>2. CASE type \notin PointerTypes
        BY <3>2 DEF SetEnter
      <3> QED
        BY <3>1, <3>2
    <2> DEFINE c == [Idle EXCEPT !.step = "set_store", !.op = "set", !.type = type,
                                 !.backend = backend, !.data = b, !.value = v]
    <2>2. /\ c \in CallState /\ c.step = "set_store" /\ c.op = "set" /\ c.type = type
          /\ c.data = b /\ c.value = v
      BY IdleTyped, ScalarType DEF Idle, CallState, Steps
    <2>3. call' = [call EXCEPT ![t] = c]
      BY <2>1
    <2> HIDE DEF c
    <2> QED
      BY <2>1, <2>2, <2>3
  <1>3. v \in Value /\ (type = "SMPTE2094_50" => v.size <= MaxSize)
    BY <1>1, ScalarType, MetadataAssumption DEF TooBig, Value
  <1>4. CASE type \in PointerTypes
    <2>1. /\ IInv' /\ heap'[b].size = v.size /\ heap'[b].value = v.value
          /\ \A p \in PointerTypes : heap'[metadata[p]] = heap[metadata[p]]
      <3>1. /\ b \in Unused /\ c.type \in PointerTypes
            /\ heap' = [x \in Block |->
                 CASE x = b -> [live |-> TRUE, size |-> v.size, value |-> v.value]
                   [] x \in Unused \ {b} -> Free0
                   [] OTHER -> heap[x]]
        BY <1>2, <1>4
      <3>2. overlapped' \in BOOLEAN /\ IInv
        BY <1>1, EntersTyped DEF SerialInv
      <3>3. Pending(c) /\ CallFormed(c) /\ c.data = b
        BY <1>2, <1>3, <3>1 DEF Pending, CallFormed, PointerTypes, Unused
      <3>4. /\ heap' \in [Block -> Memory]
            /\ heap'[b] = [live |-> TRUE, size |-> v.size, value |-> v.value]
            /\ \A x \in Block \ Unused : heap'[x] = heap[x]
        <4>1. /\ Free0 \in Memory
              /\ [live |-> TRUE, size |-> v.size, value |-> v.value] \in Memory
          BY <1>3 DEF Free0, Memory, Value
        <4>2. heap \in [Block -> Memory] /\ b \in Block
          BY <3>1 DEF SerialInv, IInv, Typed, Unused
        <4> QED
          BY <3>1, <4>1, <4>2
      <3>5. heap'[b].live /\ heap'[b].size = v.size /\ heap'[b].value = v.value
        BY <3>4
      <3> QED
        BY <1>1, <1>2, <3>1, <3>2, <3>3, <3>4, <3>5, FilledKeeps
    <2>2. heap'[metadata.SMPTE2094_50] = heap[metadata.SMPTE2094_50]
      BY <2>1 DEF PointerTypes
    <2>3. ASSUME ~overlapped' PROVE Serial'
      <3>1. Typed /\ Serial /\ \A u \in Thread : u # t => call[u].step = "done"
        BY <1>1, <2>3, Alone DEF SerialInv, IInv
      <3>2. Kept /\ last["DATASPACE"] = [value |-> metadata.DATASPACE, size |-> 0]
        BY <1>1, <3>1 DEF Serial, Synced
      <3>3. Kept'
        BY <1>1, <2>2, <3>2 DEF Kept
      <3>4. CallSynced(c)'
        BY <1>2, <2>1 DEF CallSynced, Holds
      <3> QED
        BY <1>1, <1>2, <3>1, <3>2, <3>3, <3>4, SerialStep
    <2> QED
      BY <2>1, <2>3 DEF SerialInv
  <1>5. CASE type \notin PointerTypes
    <2>1. CallFormed(c) /\ ~Pending(c) /\ c.data = Null
      BY <1>2, <1>3, <1>5, ScalarType DEF CallFormed, Pending, PointerTypes
    <2>2. IInv'
      BY <1>1, <1>2, <1>5, <2>1, CallKeeps, EntersTyped DEF SerialInv, IInv, Typed
    <2>3. ASSUME ~overlapped' PROVE Serial'
      <3>1. Typed /\ Serial /\ \A u \in Thread : u # t => call[u].step = "done"
        BY <1>1, <2>3, Alone DEF SerialInv, IInv
      <3>2. Kept /\ last["DATASPACE"] = [value |-> metadata.DATASPACE, size |-> 0]
        BY <1>1, <3>1 DEF Serial, Synced
      <3>3. Kept'
        BY <1>1, <1>2, <1>5, <3>2 DEF Kept
      <3>4. CallSynced(c)'
        BY <1>2, <1>5 DEF CallSynced, PointerTypes
      <3> QED
        BY <1>1, <1>2, <3>1, <3>2, <3>3, <3>4, SerialStep
    <2> QED
      BY <2>2, <2>3 DEF SerialInv
  <1> QED
    BY <1>4, <1>5

LEMMA ReturnedCall ==
  ASSUME Typed, NEW t \in Thread, NEW code \in Nat,
         NEW result \in {"none", "error", "value", "absent"}, Return(t, result, code)
  PROVE  \E c \in CallState :
           /\ call' = [call EXCEPT ![t] = c]
           /\ c.step = "done" /\ c.op = call[t].op /\ c.type = call[t].type
           /\ c.backend = call[t].backend /\ c.expected = call[t].expected /\ c.result = result
           /\ c.op = "get" => c.value = call[t].value
PROOF
  <1> DEFINE q == call[t]
             v == IF q.op = "get" THEN q.value ELSE Nothing
             c == [q EXCEPT !.step = "done", !.data = Null, !.value = v, !.result = result,
                            !.code = code]
  <1>1. q \in CallState /\ v \in Value
    BY IdleTyped DEF Typed, CallState
  <1>2. call' = [call EXCEPT ![t] = c]
    BY DEF Return
  <1>3. /\ c \in CallState /\ c.step = "done" /\ c.op = q.op /\ c.type = q.type
        /\ c.backend = q.backend /\ c.value = v /\ c.expected = q.expected /\ c.result = result
    <2> HIDE DEF q, v
    <2> QED
      BY <1>1 DEF CallState, Steps
  <1> HIDE DEF c
  <1> QED
    BY <1>2, <1>3

(* A step that changes nothing but the call.                                *)
LEMMA QuietKeeps ==
  ASSUME SerialInv, NEW t \in Thread, Busy(t), NEW c \in CallState,
         call' = [call EXCEPT ![t] = c], UNCHANGED <<metadata, heap, last, overlapped>>,
         call[t].step # "set_size", c.step # "set_size",
         CallFormed(c), ~Pending(c),
         c.step # "done" => c.data = call[t].data,
         ~overlapped => CallSynced(c)
  PROVE  SerialInv'
PROOF
  <1>1. c.step # "done" /\ c.data # Null => c.data \in Block /\ heap[c.data].live
    BY DEF SerialInv, IInv, CopiesLive, CallState
  <1>2. IInv'
    BY <1>1, CallKeeps DEF SerialInv, IInv, Typed
  <1>3. ASSUME ~overlapped' PROVE Serial'
    <2>1. Typed /\ Serial /\ \A u \in Thread : u # t => call[u].step = "done"
      BY <1>3, Alone DEF SerialInv, IInv
    <2>2. Kept /\ last["DATASPACE"] = [value |-> metadata.DATASPACE, size |-> 0]
      BY <2>1 DEF Serial, Synced
    <2>3. Kept'
      BY <2>2 DEF Kept
    <2>4. CallSynced(c)'
      BY <1>3 DEF CallSynced, Holds
    <2> QED
      BY <2>1, <2>2, <2>3, <2>4, SerialStep
  <1> QED
    BY <1>2, <1>3 DEF SerialInv

LEMMA SetNothingKeeps == ASSUME SerialInv, NEW t \in Thread, SetNothing(t) PROVE SerialInv'
PROOF
  <1>1. /\ Busy(t) /\ call[t].step = "set_store" /\ call[t].op = "set"
        /\ Return(t, "none", 0) /\ UNCHANGED <<metadata, heap, last, overlapped>>
    BY DEF SetNothing, Busy, SerialInv, IInv, CallsFormed, CallFormed
  <1>2. PICK c \in CallState :
          call' = [call EXCEPT ![t] = c] /\ c.step = "done" /\ c.op = "set"
    BY <1>1, ReturnedCall DEF SerialInv, IInv
  <1>3. CallFormed(c) /\ ~Pending(c) /\ CallSynced(c)
    BY <1>2 DEF CallFormed, Pending, CallSynced
  <1> QED
    BY <1>1, <1>2, <1>3, QuietKeeps

(* A get in its last step: what it has, if calls come one at a time.        *)
LEMMA GetAnswerFacts ==
  ASSUME SerialInv, NEW t \in Thread, call[t].step = "get_answer"
  PROVE  /\ Busy(t) /\ call[t].op = "get" /\ call[t] \in CallState
         /\ ~overlapped => CallSynced(call[t])
PROOF
  BY DEF Busy, SerialInv, IInv, CallsFormed, CallFormed, Serial, Typed

LEMMA GetReturnKeeps ==
  ASSUME SerialInv, NEW t \in Thread, NEW code \in Nat, NEW result \in {"error", "value", "absent"},
         call[t].step = "get_answer", Return(t, result, code),
         UNCHANGED <<metadata, heap, last, overlapped>>,
         call[t].backend = "gbm" => call[t].type # "SMPTE2094_50",
         call[t].backend = "gbm" /\ call[t].type = "DATASPACE" => result = "value"
  PROVE  SerialInv'
PROOF
  <1>1. PICK c \in CallState :
          /\ call' = [call EXCEPT ![t] = c]
          /\ c.step = "done" /\ c.op = "get" /\ c.type = call[t].type
          /\ c.backend = call[t].backend /\ c.expected = call[t].expected /\ c.result = result
          /\ c.value = call[t].value
    BY GetAnswerFacts, ReturnedCall DEF SerialInv, IInv
  <1>2. CallFormed(c) /\ ~Pending(c)
    BY <1>1 DEF CallFormed, Pending
  <1>3. ~overlapped => CallSynced(c)
    BY <1>1, GetAnswerFacts DEF CallSynced
  <1> QED
    BY <1>1, <1>2, <1>3, GetAnswerFacts, QuietKeeps

LEMMA GetKeeps ==
  ASSUME SerialInv, NEW t \in Thread, GetUnsupported(t) \/ GetValue(t)
  PROVE  SerialInv'
PROOF
  <1>1. {"DATASPACE", "SMPTE2094_50"} \subseteq GbmAnswers /\ "SMPTE2094_50" \in PointerTypes
    BY DEF GbmAnswers, Types, Listed, Writable, PointerTypes
  <1>2. CASE GetUnsupported(t)
    BY <1>1, <1>2, GetReturnKeeps DEF GetUnsupported, UNSUPPORTED
  <1>3. CASE GetValue(t)
    BY <1>1, <1>3, GetReturnKeeps DEF GetValue
  <1> QED
    BY <1>2, <1>3

LEMMA GetOptionalKeeps == ASSUME SerialInv, NEW t \in Thread, GetOptional(t) PROVE SerialInv'
PROOF
  <1>1. /\ call[t].step = "get_answer" /\ call[t].type \in {"SMPTE2086", "CTA861_3"}
        /\ UNCHANGED <<metadata, heap, last, overlapped>>
    BY DEF GetOptional
  <1>2. CASE Return(t, "absent", 0)
    BY <1>1, <1>2, GetReturnKeeps
  <1>3. CASE call' = [call EXCEPT ![t].step = "aborted"]
    <2> DEFINE q == call[t]
               c == [q EXCEPT !.step = "aborted"]
    <2>1. q \in CallState /\ call' = [call EXCEPT ![t] = c]
      BY <1>3, GetAnswerFacts, <1>1
    <2>2. c \in CallState /\ c.step = "aborted" /\ c.data = q.data
      <3> HIDE DEF q
      <3> QED
        BY <2>1 DEF CallState, Steps
    <2> HIDE DEF c
    <2>3. CallFormed(c) /\ ~Pending(c) /\ CallSynced(c)
      BY <2>2 DEF CallFormed, Pending, CallSynced
    <2> QED
      BY <1>1, <2>1, <2>2, <2>3, QuietKeeps, GetAnswerFacts
  <1> QED
    BY <1>2, <1>3 DEF GetOptional

LEMMA GetSizeKeeps == ASSUME SerialInv, NEW t \in Thread, GetSize(t) PROVE SerialInv'
PROOF
  <1> DEFINE q == call[t]
             size == IF q.type = "SMPTE2094_50" THEN metadata.smpte2094_50_size ELSE 0
             c == [q EXCEPT !.step = "get_answer", !.size = size]
  <1>1. /\ q.step = "get_size" /\ q.op = "get" /\ Busy(t) /\ CallFormed(q) /\ q \in CallState
        /\ call' = [call EXCEPT ![t] = c]
        /\ UNCHANGED <<metadata, heap, last, overlapped>>
    BY DEF GetSize, Busy, SerialInv, IInv, CallsFormed, CallFormed, Typed
  <1>2. size \in Nat
    BY MetadataAssumption DEF SerialInv, IInv, Typed, Metadata
  <1>3. /\ c \in CallState /\ c.step = "get_answer" /\ c.op = q.op /\ c.type = q.type
        /\ c.backend = q.backend /\ c.data = q.data /\ c.size = size /\ c.value = q.value
        /\ c.expected = q.expected
    <2> HIDE DEF q, size
    <2> QED
      BY <1>1, <1>2 DEF CallState, Steps
  <1> HIDE DEF c
  <1>4. CallFormed(c) /\ ~Pending(c)
    BY <1>1, <1>3 DEF CallFormed, Pending, PointerTypes
  <1>5. ASSUME ~overlapped PROVE CallSynced(c)
    <2>1. CallSynced(q)
      BY <1>5 DEF SerialInv, Serial
    <2> QED
      BY <1>1, <1>3, <2>1 DEF CallSynced
  <1> QED
    BY <1>1, <1>3, <1>4, <1>5, QuietKeeps

(* The payload of one set, whole: this is what SerialGetsRight is about.    *)
LEMMA GetPayloadKeeps == ASSUME SerialInv, NEW t \in Thread, GetPayload(t) PROVE SerialInv'
PROOF
  <1> DEFINE q == call[t]
             v == IF q.size = 0 THEN Nothing ELSE [value |-> heap[q.data].value, size |-> q.size]
             r == IF q.size = 0 THEN "absent" ELSE "value"
             c == [q EXCEPT !.step = "done", !.data = Null, !.code = q.size, !.result = r,
                            !.value = v]
  <1>1. /\ q.step = "get_answer" /\ q.backend = "gbm" /\ q.type = "SMPTE2094_50"
        /\ call' = [call EXCEPT ![t] = c]
        /\ UNCHANGED <<metadata, heap, last, overlapped>>
    BY DEF GetPayload
  <1>2. q \in CallState /\ q.op = "get" /\ Busy(t) /\ CallFormed(q) /\ q.size \in Nat
        /\ q.expected \in Value
    BY <1>1, GetAnswerFacts DEF SerialInv, IInv, CallsFormed, CallState
  <1>3. q.data \in Block /\ heap[q.data].value \in Nat
    BY <1>1, <1>2 DEF CallFormed, SerialInv, IInv, Typed, Memory
  <1>4. v \in Value
    BY <1>2, <1>3, IdleTyped DEF Value
  <1>5. /\ c \in CallState /\ c.step = "done" /\ c.op = q.op /\ c.type = q.type
        /\ c.backend = q.backend /\ c.value = v /\ c.expected = q.expected /\ c.result = r
    <2> HIDE DEF q, v
    <2> QED
      BY <1>2, <1>4 DEF CallState, Steps
  <1> HIDE DEF c
  <1>6. CallFormed(c) /\ ~Pending(c)
    BY <1>5 DEF CallFormed, Pending
  <1>7. ASSUME ~overlapped PROVE CallSynced(c)
    <2>1. /\ q.size = q.expected.size
          /\ q.size # 0 => /\ heap[q.data].size = q.size
                           /\ heap[q.data].value = q.expected.value
      BY <1>1, <1>7, GetAnswerFacts DEF CallSynced, Holds
    <2>2. q.size # 0 => v = q.expected
      BY <1>2, <2>1 DEF Value
    <2> QED
      BY <1>5, <2>1, <2>2 DEF CallSynced
  <1> QED
    BY <1>1, <1>2, <1>5, <1>6, <1>7, QuietKeeps

LEMMA GetEnterKeeps ==
  ASSUME SerialInv, NEW t \in Thread, NEW backend \in Backends, NEW type \in ReadTypes,
         GetEnter(t, backend, type)
  PROVE  SerialInv'
PROOF
  <1> DEFINE b == IF type \in PointerTypes /\ backend = "gbm" THEN metadata[type] ELSE Null
             v == IF type \in {"DATASPACE", "BLEND_MODE"}
                  THEN [value |-> metadata.DATASPACE, size |-> 0] ELSE Nothing
             x == IF type \in Writable THEN last[type] ELSE Nothing
             n == [Idle EXCEPT !.step = "get_size", !.op = "get", !.type = type,
                               !.backend = backend, !.data = b, !.value = v, !.expected = x]
  <1>1. /\ Enters(t) /\ UNCHANGED <<metadata, heap, last>> /\ call' = [call EXCEPT ![t] = n]
    BY DEF GetEnter
  <1>2. IInv /\ Typed
    BY DEF SerialInv, IInv
  <1>3. /\ b \in Block \cup {Null}
        /\ type \in PointerTypes /\ backend = "gbm" => b \in Block /\ heap[b].live
    BY <1>2 DEF Typed, Metadata, PointerTypes, IInv, PointersOwn
  <1>4. v \in Value
    BY <1>2, IdleTyped, MetadataAssumption DEF Typed, Metadata, Value
  <1>5. x \in Value
    BY <1>2, IdleTyped DEF Typed
  <1>6. PICK c \in CallState :
          /\ call' = [call EXCEPT ![t] = c] /\ c.step = "get_size" /\ c.op = "get" /\ c.type = type
          /\ c.backend = backend /\ c.data = b /\ c.value = v /\ c.expected = x
    <2>1. /\ n \in CallState /\ n.step = "get_size" /\ n.op = "get" /\ n.type = type
          /\ n.backend = backend /\ n.data = b /\ n.value = v /\ n.expected = x
      <3> HIDE DEF b, v, x
      <3> QED
        BY <1>3, <1>4, <1>5, IdleTyped DEF Idle, CallState, Steps
    <2> HIDE DEF n
    <2> QED
      BY <1>1, <2>1
  <1>7. CallFormed(c) /\ ~Pending(c) /\ (c.data # Null => c.data \in Block /\ heap[c.data].live)
    BY <1>3, <1>6 DEF CallFormed, Pending
  <1>8. IInv'
    BY <1>1, <1>2, <1>6, <1>7, CallKeeps, EntersTyped DEF Typed
  <1>9. ASSUME ~overlapped' PROVE Serial'
    <2>1. Serial /\ \A u \in Thread : u # t => call[u].step = "done"
      BY <1>1, <1>9, Alone
    <2>2. call[t].step = "done"
      BY <1>1 DEF Enters, Busy
    <2>3. Kept /\ last["DATASPACE"] = [value |-> metadata.DATASPACE, size |-> 0]
      BY <2>1, <2>2 DEF Serial, Synced
    <2>4. Kept'
      BY <1>1, <2>3 DEF Kept
    <2>5. CallSynced(c)
      <3>1. backend = "gbm" /\ type = "SMPTE2094_50" => c.data = metadata.SMPTE2094_50
        BY <1>6 DEF PointerTypes
      <3>2. /\ type = "DATASPACE" => c.value = c.expected
            /\ type = "SMPTE2094_50" => c.expected = last["SMPTE2094_50"]
        BY <1>6, <2>3 DEF Writable
      <3> QED
        BY <1>6, <2>3, <3>1, <3>2 DEF CallSynced, Kept, Holds
    <2>6. CallSynced(c)'
      BY <1>1, <2>5 DEF CallSynced, Holds
    <2> QED
      BY <1>1, <1>2, <1>6, <2>1, <2>3, <2>4, <2>6, SerialStep
  <1> QED
    BY <1>8, <1>9 DEF SerialInv

(* What is remembered when a set has stored all of its value.               *)
LEMMA RememberedTyped ==
  ASSUME Typed, NEW c \in CallState, c.type \in Writable
  PROVE  /\ Remembered(c) \in [Writable -> Value]
         /\ \A type \in Writable :
              Remembered(c)[type] = IF type = c.type THEN c.value ELSE last[type]
PROOF
  <1>1. c.value \in Value
    BY DEF CallState
  <1> QED
    BY <1>1 DEF Remembered, Typed

LEMMA SetScalarKeeps == ASSUME SerialInv, NEW t \in Thread, SetScalar(t) PROVE SerialInv'
PROOF
  <1> DEFINE q == call[t]
  <1>1. /\ q.step = "set_store" /\ q.type \in {"DATASPACE", "BLEND_MODE"}
        /\ metadata' = [metadata EXCEPT ![q.type] = q.value.value]
        /\ last' = Remembered(q) /\ Return(t, "none", 0) /\ UNCHANGED <<heap, overlapped>>
    BY DEF SetScalar
  <1>2. IInv /\ Typed /\ q \in CallState /\ CallFormed(q) /\ Busy(t)
    BY <1>1 DEF SerialInv, IInv, Typed, CallsFormed, Busy
  <1>3. q.op = "set" /\ q.value.value \in Scalars /\ q.value.size = 0 /\ q.value \in Value
    BY <1>1, <1>2 DEF CallFormed, CallState
  <1>4. /\ metadata' \in Metadata
        /\ \A p \in PointerTypes : metadata'[p] = metadata[p]
        /\ metadata'.smpte2094_50_size = metadata.smpte2094_50_size
        /\ metadata'.SMPTE2094_50 = metadata.SMPTE2094_50
        /\ metadata'.DATASPACE = IF q.type = "DATASPACE" THEN q.value.value ELSE metadata.DATASPACE
    <2> HIDE DEF q
    <2>1. CASE q.type = "DATASPACE"
      BY <1>1, <1>2, <1>3, <2>1 DEF Typed, Metadata, PointerTypes
    <2>2. CASE q.type = "BLEND_MODE"
      BY <1>1, <1>2, <1>3, <2>2 DEF Typed, Metadata, PointerTypes
    <2> QED
      BY <1>1, <2>1, <2>2
  <1>5. /\ last' \in [Writable -> Value]
        /\ last'["DATASPACE"] = IF q.type = "DATASPACE" THEN q.value ELSE last["DATASPACE"]
        /\ last'["SMPTE2094_50"] = last["SMPTE2094_50"]
    BY <1>1, <1>2, RememberedTyped DEF Writable
  <1>6. PICK c \in CallState : call' = [call EXCEPT ![t] = c] /\ c.step = "done" /\ c.op = "set"
    BY <1>1, <1>2, <1>3, ReturnedCall
  <1>7. IInv'
    BY <1>1, <1>2, <1>4, <1>5, <1>6, CallKeeps DEF Typed, CallFormed, Pending
  <1>8. ASSUME ~overlapped' PROVE Serial'
    <2>1. Serial /\ \A u \in Thread : u # t => call[u].step = "done"
      BY <1>1, <1>2, <1>8, Alone
    <2>2. Kept /\ last["DATASPACE"] = [value |-> metadata.DATASPACE, size |-> 0]
      BY <1>1, <2>1 DEF Serial, Synced
    <2>3. Kept'
      BY <1>1, <1>4, <1>5, <2>2 DEF Kept
    <2>4. last'["DATASPACE"] = [value |-> metadata'.DATASPACE, size |-> 0]
      BY <1>3, <1>4, <1>5, <2>2 DEF Value
    <2>5. CallSynced(c)'
      BY <1>6 DEF CallSynced
    <2> QED
      BY <1>2, <1>6, <2>1, <2>3, <2>4, <2>5, SerialStep
  <1> QED
    BY <1>7, <1>8 DEF SerialInv

LEMMA SetSizeKeeps == ASSUME SerialInv, NEW t \in Thread, SetSize(t) PROVE SerialInv'
PROOF
  <1> DEFINE q == call[t]
  <1>1. /\ q.step = "set_size"
        /\ metadata' = [metadata EXCEPT !.smpte2094_50_size = q.value.size]
        /\ last' = Remembered(q) /\ Return(t, "none", 0) /\ UNCHANGED <<heap, overlapped>>
    BY DEF SetSize
  <1>2. IInv /\ Typed /\ q \in CallState /\ CallFormed(q) /\ Busy(t)
    BY <1>1 DEF SerialInv, IInv, Typed, CallsFormed, Busy
  <1>3. /\ q.op = "set" /\ q.type = "SMPTE2094_50" /\ q.value.size <= MaxSize
        /\ q.value \in Value /\ q.value.size \in 0..MaxSize
    BY <1>1, <1>2, MetadataAssumption DEF CallFormed, CallState, Value
  <1>4. /\ metadata' \in Metadata
        /\ \A p \in PointerTypes : metadata'[p] = metadata[p]
        /\ metadata'.smpte2094_50_size = q.value.size
        /\ metadata'.SMPTE2094_50 = metadata.SMPTE2094_50
        /\ metadata'.DATASPACE = metadata.DATASPACE
    <2> HIDE DEF q
    <2> QED
      BY <1>1, <1>2, <1>3 DEF Typed, Metadata, PointerTypes
  <1>5. /\ last' \in [Writable -> Value]
        /\ last'["DATASPACE"] = last["DATASPACE"]
        /\ last'["SMPTE2094_50"] = q.value
    BY <1>1, <1>2, <1>3, RememberedTyped DEF Writable
  <1>6. PICK c \in CallState : call' = [call EXCEPT ![t] = c] /\ c.step = "done" /\ c.op = "set"
    BY <1>1, <1>2, <1>3, ReturnedCall
  <1>7. IInv'
    BY <1>1, <1>2, <1>4, <1>5, <1>6, CallKeeps DEF Typed, CallFormed, Pending
  <1>8. ASSUME ~overlapped' PROVE Serial'
    <2>1. Serial /\ \A u \in Thread : u # t => call[u].step = "done"
      BY <1>1, <1>2, <1>8, Alone
    <2>2. last["DATASPACE"] = [value |-> metadata.DATASPACE, size |-> 0] /\ CallSynced(q)
      BY <2>1 DEF Serial, Synced
    <2>3. Kept'
      BY <1>1, <1>4, <1>5, <2>2 DEF Kept, CallSynced, Holds
    <2>4. CallSynced(c)'
      BY <1>6 DEF CallSynced
    <2> QED
      BY <1>2, <1>4, <1>5, <1>6, <2>1, <2>2, <2>3, <2>4, SerialStep
  <1> QED
    BY <1>7, <1>8 DEF SerialInv

(* A pointer is replaced: nothing else leads to the memory it leads to now, *)
(* and what it led to stays allocated for the calls that have copied it.    *)
LEMMA SetPointerKeeps == ASSUME SerialInv, NEW t \in Thread, SetPointer(t) PROVE SerialInv'
PROOF
  <1> DEFINE q == call[t]
  <1>1. /\ q.step = "set_store" /\ q.type \in PointerTypes /\ q.backend = "gbm"
        /\ metadata' = [metadata EXCEPT ![q.type] = q.data]
        /\ UNCHANGED <<heap, overlapped>>
    BY DEF SetPointer
  <1>2. IInv /\ Typed /\ q \in CallState /\ CallFormed(q) /\ Busy(t)
    BY <1>1 DEF SerialInv, IInv, Typed, CallsFormed, Busy
  <1>3. /\ q.op = "set" /\ q.data \in Block /\ heap[q.data].live /\ q.data # Null
        /\ q.type \in Writable
    BY <1>1, <1>2, MetadataAssumption
    DEF CallFormed, IInv, CopiesLive, PointerTypes, Writable
  <1>4. /\ metadata' \in Metadata
        /\ \A p \in PointerTypes : metadata'[p] = IF p = q.type THEN q.data ELSE metadata[p]
        /\ metadata'.smpte2094_50_size = metadata.smpte2094_50_size
        /\ metadata'.DATASPACE = metadata.DATASPACE
    <2> HIDE DEF q
    <2>1. CASE q.type = "SMPTE2086"
      BY <1>1, <1>2, <1>3, <2>1 DEF Typed, Metadata, PointerTypes
    <2>2. CASE q.type = "CTA861_3"
      BY <1>1, <1>2, <1>3, <2>2 DEF Typed, Metadata, PointerTypes
    <2>3. CASE q.type = "SMPTE2094_50"
      BY <1>1, <1>2, <1>3, <2>3 DEF Typed, Metadata, PointerTypes
    <2> QED
      BY <1>1, <2>1, <2>2, <2>3 DEF PointerTypes
  <1>5. PICK c \in CallState :
          /\ call' = [call EXCEPT ![t] = c] /\ c.op = "set"
          /\ IF q.type = "SMPTE2094_50"
             THEN /\ c.step = "set_size" /\ c.type = q.type /\ c.data = q.data
                  /\ c.value = q.value /\ last' = last
             ELSE c.step = "done" /\ last' = Remembered(q)
    <2>1. CASE q.type = "SMPTE2094_50"
      <3> DEFINE c == [q EXCEPT !.step = "set_size"]
      <3>1. call' = [call EXCEPT ![t] = c] /\ last' = last
        BY <1>2, <2>1 DEF SetPointer
      <3>2. /\ c \in CallState /\ c.op = q.op /\ c.step = "set_size" /\ c.type = q.type
            /\ c.data = q.data /\ c.value = q.value
        <4> HIDE DEF q
        <4> QED
          BY <1>2 DEF CallState, Steps
      <3> HIDE DEF c
      <3> QED
        BY <1>3, <2>1, <3>1, <3>2
    <2>2. CASE q.type # "SMPTE2094_50"
      <3>1. Return(t, "none", 0) /\ last' = Remembered(q)
        BY <2>2 DEF SetPointer
      <3> QED
        BY <1>2, <1>3, <2>2, <3>1, ReturnedCall
    <2> QED
      BY <2>1, <2>2
  <1>6. /\ last' \in [Writable -> Value] /\ last'["DATASPACE"] = last["DATASPACE"]
        /\ last'["SMPTE2094_50"] = last["SMPTE2094_50"]
    BY <1>1, <1>2, <1>3, <1>5, RememberedTyped DEF Writable, PointerTypes, Typed
  <1>7. \A u \in Thread : call'[u] = IF u = t THEN c ELSE call[u]
    BY <1>2, <1>5 DEF Typed
  <1>8. IInv'
    <2>1. Typed'
      BY <1>1, <1>2, <1>4, <1>5, <1>6 DEF Typed
    <2>2. CallFormed(c)
      BY <1>2, <1>3, <1>5, <1>1 DEF CallFormed, PointerTypes
    <2>3. CallsFormed'
      BY <1>2, <1>7, <2>2 DEF IInv, CallsFormed, CallFormed
    <2>4. Pending(q) /\ \A p \in PointerTypes : metadata[p] # q.data
      BY <1>1, <1>2 DEF IInv, PendingOwn, Pending
    <2>5. PointersOwn'
      BY <1>1, <1>2, <1>3, <1>4, <2>4 DEF IInv, PointersOwn
    <2>6. CopiesLive'
      BY <1>1, <1>2, <1>3, <1>5, <1>7 DEF IInv, CopiesLive, Busy
    <2>7. ~Pending(c)
      BY <1>5 DEF Pending
    <2>8. PendingOwn'
      BY <1>2, <1>4, <1>7, <2>4, <2>7 DEF IInv, PendingOwn, Pending
    <2> QED
      BY <2>1, <2>3, <2>5, <2>6, <2>8 DEF IInv
  <1>9. ASSUME ~overlapped' PROVE Serial'
    <2>1. Serial /\ \A u \in Thread : u # t => call[u].step = "done"
      BY <1>1, <1>2, <1>9, Alone
    <2>2. /\ Kept /\ last["DATASPACE"] = [value |-> metadata.DATASPACE, size |-> 0]
          /\ CallSynced(q)
      BY <1>1, <2>1 DEF Serial, Synced
    <2>3. c.step # "set_size" => Kept'
      BY <1>1, <1>4, <1>5, <1>6, <2>2 DEF Kept, PointerTypes
    <2>4. CallSynced(c)'
      BY <1>1, <1>4, <1>5, <2>2 DEF CallSynced, Holds, PointerTypes
    <2> QED
      BY <1>2, <1>4, <1>5, <1>6, <2>1, <2>2, <2>3, <2>4, SerialStep
  <1> QED
    BY <1>8, <1>9 DEF SerialInv

-----------------------------------------------------------------------------
LEMMA InvNext == ASSUME SerialInv, [Next]_vars PROVE SerialInv'
PROOF
  <1>1. CASE UNCHANGED vars
    BY <1>1 DEF vars, SerialInv, IInv, Typed, CallsFormed, CallFormed, PointersOwn, CopiesLive,
                PendingOwn, Pending, Busy, Serial, Calm, Synced, Kept, CallSynced, Holds
  <1>2. CASE Next
    BY <1>2, RefusedKeeps, SetEnterKeeps, GetEnterKeeps, SetNothingKeeps, SetScalarKeeps,
       SetPointerKeeps, SetSizeKeeps, GetSizeKeeps, GetKeeps, GetOptionalKeeps, GetPayloadKeeps,
       ReimportKeeps
    DEF Next
  <1> QED
    BY <1>1, <1>2

LEMMA Invariance == Spec => []SerialInv
PROOF
  BY InitSerial, InvNext, PTL DEF Spec

(* Whatever clients set, the user data keeps its types: the size of a       *)
(* payload never exceeds the limit that setStandardMetadata compares with.  *)
THEOREM MetadataTypeCorrect == Spec => []TypeOK
PROOF
  <1>1. SerialInv => TypeOK
    BY DEF SerialInv, IInv, Typed, TypeOK, Metadata, Memory, PointerTypes
  <1> QED
    BY <1>1, Invariance, PTL

(* However the sets of several threads interleave, with no mutex held, the  *)
(* pointers of the user data lead to allocated memory, each to its own.     *)
THEOREM PointersStayOwned == Spec => []PointersOwn
PROOF
  <1>1. SerialInv => PointersOwn
    BY DEF SerialInv, IInv
  <1> QED
    BY <1>1, Invariance, PTL

(* No get follows a pointer to freed memory: a set that replaces a pointer  *)
(* does not free what it led to.                                            *)
THEOREM CopiesStayLive == Spec => []CopiesLive
PROOF
  <1>1. SerialInv => CopiesLive
    BY DEF SerialInv, IInv
  <1> QED
    BY <1>1, Invariance, PTL

(* Calls that come one at a time get what was set last, whole.              *)
THEOREM SerialCallsGetRight == Spec => []SerialGetsRight
PROOF
  <1>1. ASSUME SerialInv, ~overlapped PROVE PayloadWhole /\ RoundTrip
    <2>1. \A t \in Thread : CallSynced(call[t])
      BY <1>1 DEF SerialInv, Serial
    <2>2. PayloadWhole
      BY <2>1 DEF CallSynced, Holds, PayloadWhole
    <2>3. RoundTrip
      BY <2>1 DEF CallSynced, RoundTrip, HasGot
    <2> QED
      BY <2>2, <2>3
  <1>2. SerialInv => SerialGetsRight
    BY <1>1 DEF SerialGetsRight
  <1> QED
    BY <1>2, Invariance, PTL

-----------------------------------------------------------------------------
(***************************************************************************)
(*                             BufferGeometry                              *)
(***************************************************************************)
(* The Android formats whose bytes per pixel in the table are those of a    *)
(* row of libgbm; the others are what MCBufferGeometryKnown finds.          *)
CountedFormats ==
  DOMAIN color_format_map \ {"YCBCR_422_SP", "YCBCR_422_I", "YCBCR_P010", "EXT_UNKNOWN"}

(* The inductive invariant: what each process computes of a request.        *)
Flags(d)    == gralloc_gbm_calculate_gbm_flags(d.usage, color_fmt_a2g(d.format))
MadeSize(d) == NewSize(d, Flags(d))
Made(d, pitch) ==
  [width |-> MadeSize(d).width, height |-> MadeSize(d).height, format |-> color_fmt_a2g(d.format),
   stride |-> pitch]
Published(d, pitch) ==
  [width |-> MadeSize(d).width, height |-> MadeSize(d).height, format |-> d.format,
   usage |-> d.usage, stride |-> pitch]
Imported(d, pitch) ==
  LET size == ImportSize(Published(d, pitch), Flags(d)) IN
  [width |-> size.width, height |-> size.height, format |-> color_fmt_a2g(d.format),
   stride |-> pitch]
Told(d, b) ==
  [width |-> b.width, height |-> b.height, gbm_format |-> b.format,
   size |-> b.stride * b.height,
   stride |-> gralloc_gbm_calculate_android_pixel_stride(d.format, b.stride)]
ToldLayouts(i) ==
  IF HasPlaneLayouts(i.gbm_format)
  THEN [p \in DOMAIN getPlaneLayouts(i.gbm_format) |->
          FilledIn(getPlaneLayouts(i.gbm_format)[p], i)]
  ELSE <<>>

Phases == {"none", "asked", "failed", "allocated", "imported", "queried"}
RowFits(d, pitch) == pitch \in Nat /\ pitch >= MadeSize(d).width * RowBytes(color_fmt_a2g(d.format))

GeometryInv ==
  /\ build \in Builds /\ phase \in Phases
  /\ IF phase = "none" THEN desc = None
     ELSE desc \in Descs /\ Convertible(desc) /\ color_fmt_a2g(desc.format) \in DeviceFormats
  /\ phase \in {"none", "asked", "failed"} => stride = 0
  /\ phase \in {"allocated", "imported", "queried"} =>
       /\ RowFits(desc, allocated.stride)
       /\ allocated = Made(desc, allocated.stride)
       /\ handle = Published(desc, allocated.stride)
       /\ stride = gralloc_gbm_calculate_android_pixel_stride(desc.format, allocated.stride)
       /\ bo = IF phase = "allocated" THEN allocated ELSE Imported(desc, allocated.stride)
  /\ IF phase = "queried" THEN info = Told(desc, bo) /\ layouts = ToldLayouts(info)
     ELSE layouts = <<>>

LEMMA AlignUp ==
  ASSUME NEW a \in Nat, NEW b \in Nat \ {0}
  PROVE  Align(a, b) \in Nat /\ Align(a, b) >= a
PROOF
  BY DEF Align

(* Rounding up a cursor a second time changes nothing.                      *)
LEMMA CursorSideTwice ==
  ASSUME NEW n \in Nat
  PROVE  /\ CursorSide(n) \in Nat /\ CursorSide(n) >= n
         /\ CursorSide(CursorSide(n)) = CursorSide(n)
PROOF
  BY DEF CursorSide, Align, Larger

LEMMA RowBytesRange == ASSUME NEW f PROVE RowBytes(f) \in {1, 2, 3, 4, 8}
PROOF
  BY DEF RowBytes

LEMMA MadeSizeTyped ==
  ASSUME NEW d \in Descs, GeometryAssumption
  PROVE  /\ d.width \in Nat /\ d.height \in Nat
         /\ MadeSize(d).width \in Nat /\ MadeSize(d).height \in Nat
PROOF
  <1>1. d.width \in Nat /\ d.height \in Nat
    BY DEF GeometryAssumption
  <1>2. /\ CursorSide(d.width) \in Nat /\ CursorSide(d.height) \in Nat
        /\ Align(d.width, 32) \div 2 \in Nat /\ Align(d.height, 2) \div 2 \in Nat
    BY <1>1, CursorSideTwice DEF Align
  <1> QED
    BY <1>1, <1>2 DEF MadeSize, NewSize

LEMMA GeometryInvInit == GeometryInit => GeometryInv
PROOF
  BY DEF GeometryInit, GeometryInv, Phases

(* The macros of a build do not change, so neither does what is made of a   *)
(* request.                                                                 *)
LEMMA SameBuild ==
  ASSUME build' = build, desc' = desc, NEW CONSTANT pitch
  PROVE  /\ Flags(desc)' = Flags(desc) /\ MadeSize(desc)' = MadeSize(desc)
         /\ Made(desc, pitch)' = Made(desc, pitch)
         /\ Published(desc, pitch)' = Published(desc, pitch)
         /\ Imported(desc, pitch)' = Imported(desc, pitch)
PROOF
  <1>1. Flags(desc)' = Flags(desc)
    BY DEF Flags, gralloc_gbm_calculate_gbm_flags, RawFlags, WrongDumbFormat
  <1>2. MadeSize(desc)' = MadeSize(desc)
    BY <1>1 DEF MadeSize, NewSize, CursorSide
  <1>3. Published(desc, pitch)' = Published(desc, pitch)
    BY <1>2 DEF Published
  <1> QED
    BY <1>1, <1>2, <1>3 DEF Made, Imported, ImportSize, CursorSide

LEMMA AllocateKeeps ==
  ASSUME GeometryInv, NEW a \in PitchAligns, Allocate(a)
  PROVE  GeometryInv'
PROOF
  <1> DEFINE pitch == Align(MadeSize(desc).width * RowBytes(color_fmt_a2g(desc.format)), a)
  <1>1. /\ phase = "asked" /\ phase' = "allocated" /\ UNCHANGED <<build, desc, layouts>>
        /\ handle' = Published(desc, pitch) /\ bo' = Made(desc, pitch) /\ allocated' = bo'
        /\ stride' = gralloc_gbm_calculate_android_pixel_stride(desc.format, pitch)
    BY DEF Allocate, MadeSize, Flags, Published, Made
  <1>2. desc \in Descs
    BY <1>1 DEF GeometryInv
  <1>3. RowFits(desc, pitch)
    <2>1. MadeSize(desc).width * RowBytes(color_fmt_a2g(desc.format)) \in Nat
      BY <1>2, MadeSizeTyped, RowBytesRange, GeometryAssumption
    <2>2. a \in Nat \ {0}
      BY GeometryAssumption DEF GeometryAssumption
    <2> QED
      BY <2>1, <2>2, AlignUp DEF RowFits
  <1> HIDE DEF pitch
  <1>4. PICK p : p = pitch
    OBVIOUS
  <1>5. /\ allocated' = Made(desc, p)' /\ allocated'.stride = p /\ handle' = Published(desc, p)'
        /\ bo' = allocated' /\ RowFits(desc, p)'
        /\ stride' = gralloc_gbm_calculate_android_pixel_stride(desc'.format, p)
    BY <1>1, <1>3, <1>4, SameBuild DEF Made, RowFits
  <1> QED
    BY <1>1, <1>5 DEF GeometryInv, Phases

LEMMA ImportKeeps == ASSUME GeometryInv, Import PROVE GeometryInv'
PROOF
  <1>1. /\ phase = "allocated" /\ phase' = "imported"
        /\ UNCHANGED <<build, desc, handle, stride, allocated, info, layouts>>
    BY DEF Import
  <1>2. PICK p : p = allocated.stride
    OBVIOUS
  <1>3. /\ RowFits(desc, p) /\ allocated = Made(desc, p) /\ handle = Published(desc, p)
        /\ stride = gralloc_gbm_calculate_android_pixel_stride(desc.format, p)
    BY <1>1, <1>2 DEF GeometryInv
  <1>4. bo' = Imported(desc, p)
    <2>1. handle.format = desc.format /\ handle.usage = desc.usage /\ handle.stride = p
      BY <1>3 DEF Published
    <2> QED
      BY <1>3, <2>1 DEF Import, Imported, Flags
  <1>5. /\ allocated' = Made(desc, p)' /\ handle' = Published(desc, p)'
        /\ bo' = Imported(desc, p)' /\ RowFits(desc, p)' /\ allocated'.stride = p
        /\ stride' = gralloc_gbm_calculate_android_pixel_stride(desc'.format, p)
    BY <1>1, <1>2, <1>3, <1>4, SameBuild DEF RowFits
  <1> QED
    BY <1>1, <1>5 DEF GeometryInv, Phases

LEMMA QueryKeeps == ASSUME GeometryInv, Query PROVE GeometryInv'
PROOF
  <1>1. /\ phase = "imported" /\ phase' = "queried"
        /\ UNCHANGED <<build, desc, handle, stride, bo, allocated>>
    BY DEF Query
  <1>2. PICK p : p = allocated.stride
    OBVIOUS
  <1>3. /\ RowFits(desc, p) /\ allocated = Made(desc, p) /\ handle = Published(desc, p)
        /\ stride = gralloc_gbm_calculate_android_pixel_stride(desc.format, p)
        /\ bo = Imported(desc, p)
    BY <1>1, <1>2 DEF GeometryInv
  <1>4. info' = Told(desc, bo)
    <2>1. handle.format = desc.format
      BY <1>3 DEF Published
    <2> QED
      BY <2>1 DEF Query, Told
  <1>5. layouts' = ToldLayouts(info')
    BY DEF Query, ToldLayouts
  <1>6. /\ allocated' = Made(desc, p)' /\ handle' = Published(desc, p)'
        /\ bo' = Imported(desc, p)' /\ RowFits(desc, p)' /\ allocated'.stride = p
        /\ stride' = gralloc_gbm_calculate_android_pixel_stride(desc'.format, p)
    BY <1>1, <1>2, <1>3, SameBuild DEF RowFits
  <1>7. info' = Told(desc, bo)' /\ layouts' = ToldLayouts(info)'
    BY <1>1, <1>4, <1>5 DEF Told
  <1> QED
    BY <1>1, <1>6, <1>7 DEF GeometryInv, Phases

LEMMA GeometryInvNext ==
  ASSUME GeometryInv, [GeometryNext]_geometry_vars PROVE GeometryInv'
PROOF
  <1>1. CASE UNCHANGED geometry_vars
    <2>1. PICK p : p = allocated.stride
      OBVIOUS
    <2>2. /\ Made(desc, p)' = Made(desc, p) /\ Published(desc, p)' = Published(desc, p)
          /\ Imported(desc, p)' = Imported(desc, p) /\ RowFits(desc, p)' = RowFits(desc, p)
          /\ Told(desc, bo)' = Told(desc, bo) /\ ToldLayouts(info)' = ToldLayouts(info)
          /\ UNCHANGED <<build, phase, desc, handle, stride, bo, allocated, info, layouts>>
      BY <1>1, SameBuild DEF geometry_vars, RowFits, Told, ToldLayouts
    <2> QED
      BY <2>1, <2>2 DEF GeometryInv
  <1>2. ASSUME NEW d \in Descs, Ask(d) PROVE GeometryInv'
    BY <1>2 DEF Ask, GeometryInv, Phases, gralloc_gbm_is_allocator_desc_supported,
                gbm_device_is_format_supported, Convertible
  <1>3. ASSUME NEW a \in PitchAligns, Allocate(a) PROVE GeometryInv'
    BY <1>3, AllocateKeeps
  <1>4. CASE AllocateFail
    BY <1>4 DEF AllocateFail, GeometryInv, Phases, Convertible
  <1>5. CASE Import
    BY <1>5, ImportKeeps
  <1>6. CASE Query
    BY <1>6, QueryKeeps
  <1>7. CASE Free
    BY <1>7 DEF Free, GeometryInv, Phases
  <1> QED
    BY <1>1, <1>2, <1>3, <1>4, <1>5, <1>6, <1>7 DEF GeometryNext

LEMMA GeometryInvariance == GeometrySpec => []GeometryInv
PROOF
  BY GeometryInvInit, GeometryInvNext, PTL DEF GeometrySpec

(* Every request and reply has its type, unless the device supports the     *)
(* placeholder of the table that has no bits: a pixel then has no bytes,    *)
(* and the stride is divided by them.                                       *)
THEOREM GeometryTypeCorrect ==
  ASSUME "EXT_UNKNOWN" \notin DeviceFormats
  PROVE  GeometrySpec => []GeometryTypeOK
PROOF
  <1>1. ASSUME GeometryInv PROVE GeometryTypeOK
    <2>1. CASE phase \in {"none", "asked", "failed"}
      BY <1>1, <2>1 DEF GeometryInv, GeometryTypeOK, Phases
    <2>2. CASE phase \in {"allocated", "imported", "queried"}
      <3>1. PICK p : p = allocated.stride
        OBVIOUS
      <3>2. /\ desc \in Descs /\ p \in Nat /\ handle = Published(desc, p)
            /\ bo = IF phase = "allocated" THEN Made(desc, p) ELSE Imported(desc, p)
            /\ stride = gralloc_gbm_calculate_android_pixel_stride(desc.format, p)
            /\ color_fmt_a2g(desc.format) \in DeviceFormats
        BY <1>1, <2>2, <3>1 DEF GeometryInv, RowFits
      <3>3. /\ handle.width \in Nat /\ handle.height \in Nat /\ handle.stride = p
            /\ handle.width = MadeSize(desc).width /\ handle.height = MadeSize(desc).height
        BY <3>2, MadeSizeTyped, GeometryAssumption DEF Published
      <3>4. bo.width \in Nat /\ bo.height \in Nat /\ bo.stride = p
        <4>1. CASE phase = "allocated"
          BY <3>2, <3>3, <4>1 DEF Made
        <4>2. CASE phase # "allocated"
          <5>1. \A n \in Nat : Align(n, 32) \div 2 \in Nat /\ Align(n, 2) \div 2 \in Nat
            BY DEF Align
          <5>2. /\ CursorSide(handle.width) \in Nat /\ CursorSide(handle.height) \in Nat
                /\ Align(handle.width, 32) \div 2 \in Nat
                /\ handle.height + Align(handle.height, 2) \div 2 \in Nat
            BY <3>3, <5>1, CursorSideTwice
          <5>3. /\ ImportSize(handle, Flags(desc)).width \in Nat
                /\ ImportSize(handle, Flags(desc)).height \in Nat
            BY <3>3, <5>2 DEF ImportSize
          <5> QED
            BY <3>2, <4>2, <5>3 DEF Imported
        <4> QED
          BY <4>1, <4>2
      <3>5. color_bytes_per_pixel(color_fmt_a2g(desc.format)) \in Nat \ {0}
        <4>1. color_fmt_a2g(desc.format) # "EXT_UNKNOWN"
          BY <3>2
        <4> HIDE DEF color_fmt_a2g
        <4> QED
          BY <4>1 DEF color_bytes_per_pixel, color_bpp_map
      <3>6. gralloc_gbm_calculate_android_pixel_stride(desc.format, p) \in Nat
        BY <3>2, <3>5 DEF gralloc_gbm_calculate_android_pixel_stride
      <3>7. phase = "queried" => info.stride \in Nat /\ info.size \in Nat
        <4>1. phase = "queried" => info = Told(desc, bo)
          BY <1>1 DEF GeometryInv
        <4> QED
          BY <3>2, <3>4, <3>6, <4>1 DEF Told
      <3> QED
        BY <1>1, <3>2, <3>3, <3>4, <3>6, <3>7 DEF GeometryInv, GeometryTypeOK, Phases
    <2> QED
      BY <1>1, <2>1, <2>2 DEF GeometryInv, Phases
  <1> QED
    BY <1>1, GeometryInvariance, PTL

(* gralloc_gbm_bo_create and gralloc_gbm_bo_import adjust the size of a     *)
(* cursor each on its own, whatever the macros: the second time nothing     *)
(* changes. Of YV12 this is not so.                                         *)
THEOREM ImportsKeepSize == GeometrySpec => [](desc.format # "YV12" => ImportSameSize)
PROOF
  <1>1. ASSUME GeometryInv, desc.format # "YV12" PROVE ImportSameSize
    <2> SUFFICES ASSUME phase \in {"imported", "queried"}
                 PROVE  bo.width = allocated.width /\ bo.height = allocated.height
      BY DEF ImportSameSize
    <2>1. PICK p : p = allocated.stride
      OBVIOUS
    <2>2. desc \in Descs /\ bo = Imported(desc, p) /\ allocated = Made(desc, p)
      BY <1>1, <2>1 DEF GeometryInv
    <2>3. /\ CursorSide(CursorSide(desc.width)) = CursorSide(desc.width)
          /\ CursorSide(CursorSide(desc.height)) = CursorSide(desc.height)
      BY <2>2, MadeSizeTyped, CursorSideTwice, GeometryAssumption
    <2>4. /\ ImportSize(Published(desc, p), Flags(desc)).width = MadeSize(desc).width
          /\ ImportSize(Published(desc, p), Flags(desc)).height = MadeSize(desc).height
      BY <1>1, <2>3 DEF ImportSize, Published, MadeSize, NewSize
    <2> QED
      BY <2>2, <2>4 DEF Imported, Made
  <1> QED
    BY <1>1, GeometryInvariance, PTL

(* In both processes a stride is the number of whole pixels in the pitch:   *)
(* of one buffer there is one stride, for the formats whose bytes per pixel *)
(* gralloc_gbm_format.h has right.                                          *)
LEMMA BytesCounted ==
  \A f \in CountedFormats :
    color_bytes_per_pixel(color_fmt_a2g(f)) = RowBytes(color_fmt_a2g(f))
PROOF
  BY DEF CountedFormats, RowBytes, color_bytes_per_pixel, color_bpp_map, color_fmt_a2g,
         color_format_map

THEOREM StridesAreRight == GeometrySpec => [](desc.format \in CountedFormats => StrideRight)
PROOF
  <1>1. ASSUME GeometryInv, desc.format \in CountedFormats PROVE StrideRight
    <2> SUFFICES ASSUME phase = "queried"
                 PROVE  info.stride = stride /\ info.stride = bo.stride \div RowBytes(bo.format)
      BY DEF StrideRight, StrideAgrees, StrideInPixels
    <2>1. PICK p : p = allocated.stride
      OBVIOUS
    <2>2. /\ info = Told(desc, bo) /\ bo = Imported(desc, p)
          /\ stride = gralloc_gbm_calculate_android_pixel_stride(desc.format, p)
      BY <1>1, <2>1 DEF GeometryInv
    <2>3. bo.stride = p /\ bo.format = color_fmt_a2g(desc.format)
      BY <2>2 DEF Imported
    <2>4. info.stride = stride
      BY <2>2, <2>3 DEF Told
    <2> QED
      BY <1>1, <2>2, <2>3, <2>4, BytesCounted DEF gralloc_gbm_calculate_android_pixel_stride
  <1> QED
    BY <1>1, GeometryInvariance, PTL

(* A sample of every plane is at most the bytes of a pixel, except where it *)
(* stands for several pixels.                                               *)
PlaneFits(plane, bytes) ==
  /\ plane.horizontalSubsampling \in {1, 2} /\ plane.verticalSubsampling \in {1, 2}
  /\ plane.sampleIncrementInBits \in Nat /\ plane.sampleIncrementInBits <= 8 * bytes
LayoutFits(format) ==
  \A p \in DOMAIN getPlaneLayouts(format) :
    PlaneFits(getPlaneLayouts(format)[p], color_bytes_per_pixel(format))

LEMMA CountedAre ==
  \A f \in CountedFormats :
    color_fmt_a2g(f) \in {"ABGR8888", "XBGR8888", "ARGB8888", "BGR888", "BGR565", "YVU420",
                          "YUV420", "ABGR2101010", "R8", "R16", "GR88", "ABGR16161616F"}
PROOF
  BY DEF CountedFormats, color_fmt_a2g, color_format_map

LEMMA LayoutsFit == \A f \in CountedFormats : LayoutFits(color_fmt_a2g(f))
PROOF
  <1> USE DEF LayoutFits, getPlaneLayouts, PlaneFits, RgbLayouts, YuvLayouts, DeepLayouts,
              AdditionalLayouts, Packed, Plane, Bytes, color_bytes_per_pixel, color_bpp,
              color_bpp_map
  <1>1. LayoutFits("ABGR8888")
    OBVIOUS
  <1>2. LayoutFits("XBGR8888")
    OBVIOUS
  <1>3. LayoutFits("ARGB8888")
    OBVIOUS
  <1>4. LayoutFits("BGR888")
    OBVIOUS
  <1>5. LayoutFits("BGR565")
    OBVIOUS
  <1>6. LayoutFits("YVU420")
    OBVIOUS
  <1>7. LayoutFits("YUV420")
    OBVIOUS
  <1>8. LayoutFits("ABGR2101010")
    OBVIOUS
  <1>9. LayoutFits("R8")
    OBVIOUS
  <1>10. LayoutFits("R16")
    OBVIOUS
  <1>11. LayoutFits("GR88")
    OBVIOUS
  <1>12. LayoutFits("ABGR16161616F")
    OBVIOUS
  <1> HIDE DEF LayoutFits
  <1> QED
    BY <1>1, <1>2, <1>3, <1>4, <1>5, <1>6, <1>7, <1>8, <1>9, <1>10, <1>11, <1>12, CountedAre

(* Whole pixels of a pitch that a row fits into hold the row, and no more   *)
(* than the pitch.                                                          *)
LEMMA WholePixels ==
  ASSUME NEW pitch \in Nat, NEW bytes \in {1, 2, 3, 4, 8}, NEW width \in Nat,
         pitch >= width * bytes
  PROVE  /\ (pitch \div bytes) * bytes \in Nat
         /\ (pitch \div bytes) * bytes <= pitch
         /\ width * bytes <= (pitch \div bytes) * bytes
PROOF
  OBVIOUS

LEMMA TimesGrows ==
  ASSUME NEW a \in Nat, NEW b \in Nat, NEW n \in Nat, a <= b PROVE a * n <= b * n
PROOF
  OBVIOUS

(* A row of whole pixels in the pitch; a plane of such rows in a buffer of  *)
(* this width, height and pitch.                                            *)
WholeRow(row, width, bytes, pitch) ==
  pitch >= width * bytes /\ row = (pitch \div bytes) * bytes
Inside(plane, row, width, height, pitch) ==
  /\ (width \div plane.horizontalSubsampling) * plane.sampleIncrementInBits <= 8 * row
  /\ row * height \in Nat /\ row * height <= pitch * height
  /\ height \div plane.verticalSubsampling <= height

LEMMA PlaneInside ==
  ASSUME NEW plane, NEW bytes \in {1, 2, 3, 4, 8}, PlaneFits(plane, bytes),
         NEW width \in Nat, NEW height \in Nat, NEW pitch \in Nat,
         NEW row, WholeRow(row, width, bytes, pitch)
  PROVE  Inside(plane, row, width, height, pitch)
PROOF
  <1> DEFINE samples == width \div plane.horizontalSubsampling
             bits    == plane.sampleIncrementInBits
  <1>1. row \in Nat /\ row <= pitch /\ width * bytes <= row
    BY WholePixels DEF WholeRow
  <1>2. samples \in Nat /\ samples <= width
    BY DEF PlaneFits
  <1>3. height \div plane.verticalSubsampling <= height
    BY DEF PlaneFits
  <1>4. bits \in Nat /\ bits <= 8 * bytes
    BY DEF PlaneFits
  <1> HIDE DEF samples, bits
  <1>5. row * height \in Nat /\ row * height <= pitch * height
    BY <1>1, TimesGrows
  <1>6. samples * bits <= 8 * row
    <2>1. samples * bits <= width * bits
      BY <1>2, <1>4, TimesGrows
    <2>2. bits * width <= (8 * bytes) * width
      BY <1>4, TimesGrows
    <2>3. width * bits = bits * width /\ (8 * bytes) * width = 8 * (width * bytes)
      BY <1>4
    <2>4. samples * bits \in Nat /\ width * bits \in Nat
      BY <1>2, <1>4
    <2> QED
      BY <1>1, <2>1, <2>2, <2>3, <2>4
  <1> QED
    BY <1>3, <1>5, <1>6 DEF samples, bits, Inside

(* No plane that PLANE_LAYOUTS answers leaves the buffer, for any size and  *)
(* pitch, of the formats whose bytes are counted right. A YV12 buffer with  *)
(* the usage of a cursor is imported wider than its rows are.               *)
THEOREM PlanesStayInBuffer ==
  GeometrySpec => [](desc.format \in CountedFormats \ {"YV12"} => PlanesInBuffer)
PROOF
  <1>1. ASSUME GeometryInv, ImportSameSize, desc.format \in CountedFormats PROVE PlanesInBuffer
    <2> SUFFICES ASSUME phase = "queried", HasPlaneLayouts(info.gbm_format)
                 PROVE  PlanesInBuffer
      BY <1>1 DEF GeometryInv, ToldLayouts, PlanesInBuffer
    <2>1. PICK p : p = allocated.stride
      OBVIOUS
    <2>2. /\ desc \in Descs /\ info = Told(desc, bo) /\ bo = Imported(desc, p)
          /\ allocated = Made(desc, p) /\ RowFits(desc, p) /\ layouts = ToldLayouts(info)
      BY <1>1, <2>1 DEF GeometryInv
    <2> DEFINE format == color_fmt_a2g(desc.format)
               bytes  == color_bytes_per_pixel(format)
               w      == bo.width
               h      == bo.height
    <2>3. /\ bo.stride = p /\ info.width = w /\ info.height = h
          /\ info.gbm_format = format /\ info.size = p * h
          /\ info.stride = p \div bytes
      BY <2>2 DEF Imported, Told, gralloc_gbm_calculate_android_pixel_stride
    <2>4. w \in Nat /\ h \in Nat /\ w = MadeSize(desc).width
      BY <1>1, <2>2, MadeSizeTyped, GeometryAssumption DEF ImportSameSize, Made
    <2>5. bytes = RowBytes(format) /\ bytes \in {1, 2, 3, 4, 8} /\ p \in Nat /\ p >= w * bytes
      BY <1>1, <2>2, <2>4, BytesCounted, RowBytesRange DEF RowFits
    <2>6. LayoutFits(format)
      BY <1>1, LayoutsFit
    <2>7. layouts = [k \in DOMAIN getPlaneLayouts(format) |->
                      FilledIn(getPlaneLayouts(format)[k], info)]
      BY <2>2, <2>3 DEF ToldLayouts
    <2> HIDE DEF format, bytes, w, h
    <2>8. ASSUME NEW k \in DOMAIN layouts
          PROVE  /\ layouts[k].widthInSamples * layouts[k].plane.sampleIncrementInBits
                       <= 8 * layouts[k].strideInBytes
                 /\ layouts[k].offsetInBytes + layouts[k].totalSizeInBytes <= info.size
                 /\ layouts[k].heightInSamples <= info.height
      <3>1. PICK plane : plane = getPlaneLayouts(format)[k]
        OBVIOUS
      <3>2. PlaneFits(plane, bytes) /\ layouts[k] = FilledIn(plane, info)
        BY <2>6, <2>7, <2>8, <3>1 DEF LayoutFits, bytes
      <3>3. PICK row : row = (p \div bytes) * bytes
        OBVIOUS
      <3>4. /\ layouts[k].plane = plane /\ layouts[k].offsetInBytes = 0
            /\ layouts[k].strideInBytes = row
            /\ layouts[k].totalSizeInBytes = row * h
            /\ layouts[k].widthInSamples = w \div plane.horizontalSubsampling
            /\ layouts[k].heightInSamples = h \div plane.verticalSubsampling
        BY <2>3, <3>2, <3>3 DEF FilledIn, bytes
      <3>5. Inside(plane, row, w, h, p)
        <4>1. WholeRow(row, w, bytes, p)
          BY <2>5, <3>3 DEF WholeRow
        <4> QED
          BY <2>4, <2>5, <3>2, <4>1, PlaneInside
      <3>6. 0 + row * h <= info.size
        BY <2>3, <3>5 DEF Inside
      <3> QED
        BY <2>3, <3>4, <3>5, <3>6 DEF Inside
    <2> QED
      BY <2>8 DEF PlanesInBuffer
  <1>2. GeometrySpec => [](desc.format # "YV12" => ImportSameSize)
    BY ImportsKeepSize
  <1>3. GeometryInv /\ (desc.format # "YV12" => ImportSameSize)
          => (desc.format \in CountedFormats \ {"YV12"} => PlanesInBuffer)
    BY <1>1
  <1> QED
    BY <1>2, <1>3, GeometryInvariance, PTL

-----------------------------------------------------------------------------
(* What ComponentsOf computes of a word of up to four parts, which is all    *)
(* that gbm.h has: each part begins where those below it end.               *)
Components(word, below) ==
  {At(word[k][1], below[k], word[k][2]) : k \in {j \in DOMAIN word : word[j][1] # "x"}}
Below(word, below) ==
  /\ below[Len(word)] = 0
  /\ \A k \in 1..(Len(word) - 1) : below[k] = below[k + 1] + word[k + 1][2]

LEMMA BelowExists ==
  ASSUME NEW word, Len(word) \in 1..4, \A k \in 1..Len(word) : word[k][2] \in Nat
  PROVE  \E below : Below(word, below) /\ ComponentsOf(word) = Components(word, below)
PROOF
  <1> DEFINE n    == Len(word)
             F(f) == [k \in 1..Len(word) |-> IF k = Len(word) THEN 0 ELSE f[k + 1] + word[k + 1][2]]
             g == [k \in 1..n |-> (IF k < n THEN word[k + 1][2] ELSE 0)
                                   + (IF k + 1 < n THEN word[k + 2][2] ELSE 0)
                                   + (IF k + 2 < n THEN word[k + 3][2] ELSE 0)]
             below == CHOOSE f : f = F(f)
  <1>1. g = F(g)
    <2>1. ASSUME NEW k \in 1..n PROVE g[k] = IF k = n THEN 0 ELSE g[k + 1] + word[k + 1][2]
      <3>1. CASE k = n
        BY <3>1
      <3>2. CASE k # n
        <4>1. k \in 1..4 /\ k + 1 \in 1..n /\ n \in 1..4 /\ word[k + 1][2] \in Nat
          BY <3>2
        <4>2. g[k] = word[k + 1][2] + (IF k + 1 < n THEN word[k + 2][2] ELSE 0)
                                   + (IF k + 2 < n THEN word[k + 3][2] ELSE 0)
          BY <3>2, <4>1
        <4>3. g[k + 1] = (IF k + 1 < n THEN word[k + 1 + 1][2] ELSE 0)
                                   + (IF k + 1 + 1 < n THEN word[k + 1 + 2][2] ELSE 0)
                                   + (IF k + 1 + 2 < n THEN word[k + 1 + 3][2] ELSE 0)
          BY <4>1
        <4>4. k + 1 + 1 = k + 2 /\ k + 1 + 2 = k + 3 /\ ~(k + 1 + 2 < n)
          BY <4>1
        <4> HIDE DEF g, n
        <4>5. (k + 1 < n => word[k + 2][2] \in Nat) /\ (k + 2 < n => word[k + 3][2] \in Nat)
          BY <4>1 DEF n
        <4> QED
          BY <3>2, <4>1, <4>2, <4>3, <4>4, <4>5
      <3> QED
        BY <3>1, <3>2
    <2> QED
      BY <2>1
  <1>2. below = F(below)
    BY <1>1
  <1>3. ComponentsOf(word) = Components(word, below)
    BY DEF ComponentsOf, Components
  <1> HIDE DEF below
  <1>4. Below(word, below)
    BY <1>2 DEF Below
  <1> QED
    BY <1>3, <1>4

LEMMA FourParts ==
  ASSUME NEW a, NEW b, NEW c, NEW d, b # "x", c # "x", d # "x",
         NEW p \in Nat, NEW q \in Nat, NEW r \in Nat, NEW s \in Nat
  PROVE  ComponentsOf(<<<<a, p>>, <<b, q>>, <<c, r>>, <<d, s>>>>) =
           {At(b, s + r, q), At(c, s, r), At(d, 0, s)}
             \cup IF a = "x" THEN {} ELSE {At(a, s + r + q, p)}
PROOF
  <1> DEFINE word == <<<<a, p>>, <<b, q>>, <<c, r>>, <<d, s>>>>
  <1>1. /\ Len(word) = 4 /\ DOMAIN word = {1, 2, 3, 4}
        /\ word[1] = <<a, p>> /\ word[2] = <<b, q>> /\ word[3] = <<c, r>> /\ word[4] = <<d, s>>
    OBVIOUS
  <1> HIDE DEF word
  <1>2. PICK below : Below(word, below) /\ ComponentsOf(word) = Components(word, below)
    <2>1. \A k \in 1..Len(word) : word[k][2] \in Nat
      BY <1>1
    <2> QED
      BY <1>1, <2>1, BelowExists
  <1>3. /\ below[4] = 0 /\ below[3] = below[3 + 1] + word[3 + 1][2]
        /\ below[2] = below[2 + 1] + word[2 + 1][2] /\ below[1] = below[1 + 1] + word[1 + 1][2]
    BY <1>1, <1>2 DEF Below
  <1>4. below[4] = 0 /\ below[3] = s /\ below[2] = s + r /\ below[1] = s + r + q
    BY <1>1, <1>3
  <1>5. Components(word, below) =
           {At(b, s + r, q), At(c, s, r), At(d, 0, s)}
             \cup IF a = "x" THEN {} ELSE {At(a, s + r + q, p)}
    BY <1>1, <1>4 DEF Components
  <1> QED
    BY <1>2, <1>5 DEF word

LEMMA ThreeParts ==
  ASSUME NEW b, NEW c, NEW d, b # "x", c # "x", d # "x",
         NEW q \in Nat, NEW r \in Nat, NEW s \in Nat
  PROVE  ComponentsOf(<<<<b, q>>, <<c, r>>, <<d, s>>>>) =
           {At(b, s + r, q), At(c, s, r), At(d, 0, s)}
PROOF
  <1> DEFINE word == <<<<b, q>>, <<c, r>>, <<d, s>>>>
  <1>1. /\ Len(word) = 3 /\ DOMAIN word = {1, 2, 3}
        /\ word[1] = <<b, q>> /\ word[2] = <<c, r>> /\ word[3] = <<d, s>>
    OBVIOUS
  <1> HIDE DEF word
  <1>2. PICK below : Below(word, below) /\ ComponentsOf(word) = Components(word, below)
    <2>1. \A k \in 1..Len(word) : word[k][2] \in Nat
      BY <1>1
    <2> QED
      BY <1>1, <2>1, BelowExists
  <1>3. /\ below[3] = 0 /\ below[2] = below[2 + 1] + word[2 + 1][2]
        /\ below[1] = below[1 + 1] + word[1 + 1][2]
    BY <1>1, <1>2 DEF Below
  <1>4. below[3] = 0 /\ below[2] = s /\ below[1] = s + r
    BY <1>1, <1>3
  <1>5. Components(word, below) = {At(b, s + r, q), At(c, s, r), At(d, 0, s)}
    BY <1>1, <1>4 DEF Components
  <1> QED
    BY <1>2, <1>5 DEF word

LEMMA TwoParts ==
  ASSUME NEW c, NEW d, c # "x", d # "x", NEW r \in Nat, NEW s \in Nat
  PROVE  ComponentsOf(<<<<c, r>>, <<d, s>>>>) = {At(c, s, r), At(d, 0, s)}
PROOF
  <1> DEFINE word == <<<<c, r>>, <<d, s>>>>
  <1>1. Len(word) = 2 /\ DOMAIN word = {1, 2} /\ word[1] = <<c, r>> /\ word[2] = <<d, s>>
    OBVIOUS
  <1> HIDE DEF word
  <1>2. PICK below : Below(word, below) /\ ComponentsOf(word) = Components(word, below)
    <2>1. \A k \in 1..Len(word) : word[k][2] \in Nat
      BY <1>1
    <2> QED
      BY <1>1, <2>1, BelowExists
  <1>3. below[2] = 0 /\ below[1] = below[1 + 1] + word[1 + 1][2]
    BY <1>1, <1>2 DEF Below
  <1>4. Components(word, below) = {At(c, s, r), At(d, 0, s)}
    BY <1>1, <1>3 DEF Components
  <1> QED
    BY <1>2, <1>4 DEF word

LEMMA OnePart ==
  ASSUME NEW d, d # "x", NEW s \in Nat
  PROVE  ComponentsOf(<<<<d, s>>>>) = {At(d, 0, s)}
PROOF
  <1> DEFINE word == <<<<d, s>>>>
  <1>1. Len(word) = 1 /\ DOMAIN word = {1} /\ word[1] = <<d, s>>
    OBVIOUS
  <1> HIDE DEF word
  <1>2. PICK below : Below(word, below) /\ ComponentsOf(word) = Components(word, below)
    <2>1. \A k \in 1..Len(word) : word[k][2] \in Nat
      BY <1>1
    <2> QED
      BY <1>1, <2>1, BelowExists
  <1>3. Components(word, below) = {At(d, 0, s)}
    BY <1>1, <1>2 DEF Components, Below
  <1> QED
    BY <1>2, <1>3 DEF word

(* The mapped formats that have one plane.                                  *)
PackedFormats ==
  {"ABGR8888", "XBGR8888", "ARGB8888", "ABGR2101010", "ABGR16161616F", "VYUY", "BGR888",
   "BGR565", "GR88", "R8", "R16"}

LEMMA PackedMatch == \A f \in PackedFormats : MatchesFourcc(f)
PROOF
  <1> DEFINE Laid(f) == getPlaneLayouts(f)[1].components
  <1>1. MatchesFourcc("ABGR8888")
    <2>1. Word("ABGR8888") = <<<<"A", 8>>, <<"B", 8>>, <<"G", 8>>, <<"R", 8>>>>
      BY DEF Word, RgbWords, OtherWords
    <2>2. Laid("ABGR8888") =
            {At("R", 0, 8), At("G", 8, 8), At("B", 16, 8), At("A", 24, 8)}
      BY DEF getPlaneLayouts, RgbLayouts, YuvLayouts, DeepLayouts, AdditionalLayouts, Packed, Plane
    <2>3. ComponentsOf(Word("ABGR8888")) =
            {At("R", 0, 8), At("G", 8, 8), At("B", 16, 8), At("A", 24, 8)}
      BY <2>1, FourParts
    <2> QED
      BY <2>2, <2>3 DEF MatchesFourcc
  <1>2. MatchesFourcc("XBGR8888")
    <2>1. Word("XBGR8888") = <<<<"x", 8>>, <<"B", 8>>, <<"G", 8>>, <<"R", 8>>>>
      BY DEF Word, RgbWords, OtherWords
    <2>2. Laid("XBGR8888") =
            {At("R", 0, 8), At("G", 8, 8), At("B", 16, 8)}
      BY DEF getPlaneLayouts, RgbLayouts, YuvLayouts, DeepLayouts, AdditionalLayouts, Packed, Plane
    <2>3. ComponentsOf(Word("XBGR8888")) =
            {At("R", 0, 8), At("G", 8, 8), At("B", 16, 8)}
      BY <2>1, FourParts
    <2> QED
      BY <2>2, <2>3 DEF MatchesFourcc
  <1>3. MatchesFourcc("ARGB8888")
    <2>1. Word("ARGB8888") = <<<<"A", 8>>, <<"R", 8>>, <<"G", 8>>, <<"B", 8>>>>
      BY DEF Word, RgbWords, OtherWords
    <2>2. Laid("ARGB8888") =
            {At("B", 0, 8), At("G", 8, 8), At("R", 16, 8), At("A", 24, 8)}
      BY DEF getPlaneLayouts, RgbLayouts, YuvLayouts, DeepLayouts, AdditionalLayouts, Packed, Plane
    <2>3. ComponentsOf(Word("ARGB8888")) =
            {At("B", 0, 8), At("G", 8, 8), At("R", 16, 8), At("A", 24, 8)}
      BY <2>1, FourParts
    <2> QED
      BY <2>2, <2>3 DEF MatchesFourcc
  <1>4. MatchesFourcc("ABGR2101010")
    <2>1. Word("ABGR2101010") = <<<<"A", 2>>, <<"B", 10>>, <<"G", 10>>, <<"R", 10>>>>
      BY DEF Word, RgbWords, OtherWords
    <2>2. Laid("ABGR2101010") =
            {At("R", 0, 10), At("G", 10, 10), At("B", 20, 10), At("A", 30, 2)}
      BY DEF getPlaneLayouts, RgbLayouts, YuvLayouts, DeepLayouts, AdditionalLayouts, Packed, Plane
    <2>3. ComponentsOf(Word("ABGR2101010")) =
            {At("R", 0, 10), At("G", 10, 10), At("B", 20, 10), At("A", 30, 2)}
      BY <2>1, FourParts
    <2> QED
      BY <2>2, <2>3 DEF MatchesFourcc
  <1>5. MatchesFourcc("ABGR16161616F")
    <2>1. Word("ABGR16161616F") = <<<<"A", 16>>, <<"B", 16>>, <<"G", 16>>, <<"R", 16>>>>
      BY DEF Word, RgbWords, OtherWords
    <2>2. Laid("ABGR16161616F") =
            {At("R", 0, 16), At("G", 16, 16), At("B", 32, 16), At("A", 48, 16)}
      BY DEF getPlaneLayouts, RgbLayouts, YuvLayouts, DeepLayouts, AdditionalLayouts, Packed, Plane
    <2>3. ComponentsOf(Word("ABGR16161616F")) =
            {At("R", 0, 16), At("G", 16, 16), At("B", 32, 16), At("A", 48, 16)}
      BY <2>1, FourParts
    <2> QED
      BY <2>2, <2>3 DEF MatchesFourcc
  <1>6. MatchesFourcc("VYUY")
    <2>1. Word("VYUY") = <<<<"Y", 8>>, <<"CB", 8>>, <<"Y", 8>>, <<"CR", 8>>>>
      BY DEF Word, RgbWords, OtherWords
    <2>2. Laid("VYUY") =
            {At("CR", 0, 8), At("Y", 8, 8), At("CB", 16, 8), At("Y", 24, 8)}
      BY DEF getPlaneLayouts, RgbLayouts, YuvLayouts, DeepLayouts, AdditionalLayouts, Packed, Plane
    <2>3. ComponentsOf(Word("VYUY")) =
            {At("CR", 0, 8), At("Y", 8, 8), At("CB", 16, 8), At("Y", 24, 8)}
      BY <2>1, FourParts
    <2> QED
      BY <2>2, <2>3 DEF MatchesFourcc
  <1>7. MatchesFourcc("BGR888")
    <2>1. Word("BGR888") = <<<<"B", 8>>, <<"G", 8>>, <<"R", 8>>>>
      BY DEF Word, RgbWords, OtherWords
    <2>2. Laid("BGR888") =
            {At("R", 0, 8), At("G", 8, 8), At("B", 16, 8)}
      BY DEF getPlaneLayouts, RgbLayouts, YuvLayouts, DeepLayouts, AdditionalLayouts, Packed, Plane
    <2>3. ComponentsOf(Word("BGR888")) =
            {At("R", 0, 8), At("G", 8, 8), At("B", 16, 8)}
      BY <2>1, ThreeParts
    <2> QED
      BY <2>2, <2>3 DEF MatchesFourcc
  <1>8. MatchesFourcc("BGR565")
    <2>1. Word("BGR565") = <<<<"B", 5>>, <<"G", 6>>, <<"R", 5>>>>
      BY DEF Word, RgbWords, OtherWords
    <2>2. Laid("BGR565") =
            {At("R", 0, 5), At("G", 5, 6), At("B", 11, 5)}
      BY DEF getPlaneLayouts, RgbLayouts, YuvLayouts, DeepLayouts, AdditionalLayouts, Packed, Plane
    <2>3. ComponentsOf(Word("BGR565")) =
            {At("R", 0, 5), At("G", 5, 6), At("B", 11, 5)}
      BY <2>1, ThreeParts
    <2> QED
      BY <2>2, <2>3 DEF MatchesFourcc
  <1>9. MatchesFourcc("GR88")
    <2>1. Word("GR88") = <<<<"G", 8>>, <<"R", 8>>>>
      BY DEF Word, RgbWords, OtherWords
    <2>2. Laid("GR88") =
            {At("R", 0, 8), At("G", 8, 8)}
      BY DEF getPlaneLayouts, RgbLayouts, YuvLayouts, DeepLayouts, AdditionalLayouts, Packed, Plane
    <2>3. ComponentsOf(Word("GR88")) =
            {At("R", 0, 8), At("G", 8, 8)}
      BY <2>1, TwoParts
    <2> QED
      BY <2>2, <2>3 DEF MatchesFourcc
  <1>10. MatchesFourcc("R8")
    <2>1. Word("R8") = <<<<"R", 8>>>>
      BY DEF Word, RgbWords, OtherWords
    <2>2. Laid("R8") =
            {At("R", 0, 8)}
      BY DEF getPlaneLayouts, RgbLayouts, YuvLayouts, DeepLayouts, AdditionalLayouts, Packed, Plane
    <2>3. ComponentsOf(Word("R8")) =
            {At("R", 0, 8)}
      BY <2>1, OnePart
    <2> QED
      BY <2>2, <2>3 DEF MatchesFourcc
  <1>11. MatchesFourcc("R16")
    <2>1. Word("R16") = <<<<"R", 16>>>>
      BY DEF Word, RgbWords, OtherWords
    <2>2. Laid("R16") =
            {At("R", 0, 16)}
      BY DEF getPlaneLayouts, RgbLayouts, YuvLayouts, DeepLayouts, AdditionalLayouts, Packed, Plane
    <2>3. ComponentsOf(Word("R16")) =
            {At("R", 0, 16)}
      BY <2>1, OnePart
    <2> QED
      BY <2>2, <2>3 DEF MatchesFourcc
  <1> QED
    BY <1>1, <1>2, <1>3, <1>4, <1>5, <1>6, <1>7, <1>8, <1>9, <1>10, <1>11 DEF PackedFormats

(* The layout that the mapper answers has the components where gbm.h has    *)
(* them, for every format that an Android format is mapped to.              *)
THEOREM LayoutsMatch == GeometrySpec => []LayoutMatchesFourcc
PROOF
  <1>1. ASSUME NEW f PROVE MatchesFourcc(color_fmt_a2g(f))
    <2> DEFINE Others == {"YUV422", "YVU420", "YUV420", "P010", "EXT_UNKNOWN", BadFormat}
    <2>1. CASE color_fmt_a2g(f) \in PackedFormats
      BY <2>1, PackedMatch
    <2>2. CASE color_fmt_a2g(f) \in Others
      BY <2>2 DEF MatchesFourcc, RgbWords, OtherWords, BadFormat
    <2>3. f \in DOMAIN color_format_map => color_fmt_a2g(f) \in PackedFormats \cup Others
      BY DEF color_fmt_a2g, color_format_map, PackedFormats
    <2>4. f \notin DOMAIN color_format_map => color_fmt_a2g(f) = BadFormat
      BY DEF color_fmt_a2g
    <2> QED
      BY <2>1, <2>2, <2>3, <2>4
  <1>2. ASSUME GeometryInv PROVE LayoutMatchesFourcc
    <2> SUFFICES ASSUME phase = "queried" PROVE MatchesFourcc(info.gbm_format)
      BY DEF LayoutMatchesFourcc
    <2>1. info.gbm_format = bo.format /\ bo.format = color_fmt_a2g(desc.format)
      BY <1>2 DEF GeometryInv, Told, Imported
    <2> QED
      BY <1>1, <2>1
  <1> QED
    BY <1>2, GeometryInvariance, PTL
=============================================================================
