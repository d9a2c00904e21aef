---------------------------- MODULE BufferMetadata ----------------------------
(***************************************************************************)
(* Standard metadata: threads of a process get and set the metadata of one *)
(* imported buffer of each backend. The GBM backend keeps what was set in  *)
(* the user data of the BO, in scalars and in pointers to memory that is   *)
(* never freed before the BO is; the DMA-BUF backend keeps nothing. No     *)
(* mutex is held: a set stores its members one by one, a get copies them   *)
(* one by one and follows the pointers later.                              *)
(*                                                                         *)
(* Memory that nothing leads to any more is leaked by the code; here its   *)
(* name is used again, as that of fresh memory.                            *)
(***************************************************************************)
EXTENDS Integers

CONSTANTS
  Thread,    \* client threads
  Block,     \* addresses calloc returns
  Null,
  Scalars,   \* values of a Dataspace or a BlendMode, 0 is what calloc leaves
  Payloads,  \* values a client sets otherwise: content and size in bytes
  MaxSize,   \* GRALLOC_GENERIC_SMPTE2094_50_MAX_SIZE
  ReadTypes,   \* the metadata types clients ask for ...
  WriteTypes   \* ... and set

ASSUME MetadataAssumption ==
  /\ Null \notin Block
  /\ Scalars \subseteq Nat /\ 0 \in Scalars
  /\ Payloads \subseteq [value: Nat \ {0}, size: Nat]
  /\ MaxSize \in Nat
  /\ \E x, y, z \in Block : x # y /\ x # z /\ y # z

VARIABLES
  metadata,   \* bo_data->metadata of the GBM buffer
  heap,       \* what calloc has returned: allocated?, bytes, content
  call,       \* the call each thread is in, or its last one and its result
  last,       \* history: what was set last, per type
  overlapped  \* history: since the import, have two calls been in progress at once?

vars == <<metadata, heap, call, last, overlapped>>

-----------------------------------------------------------------------------
(* The list of listSupportedMetadataTypes: all but two are gettable.        *)
ReadOnly == {"BUFFER_ID", "NAME", "WIDTH", "HEIGHT", "LAYER_COUNT", "PIXEL_FORMAT_REQUESTED",
             "PIXEL_FORMAT_FOURCC", "PIXEL_FORMAT_MODIFIER", "USAGE", "ALLOCATION_SIZE",
             "PROTECTED_CONTENT", "STRIDE", "COMPRESSION", "INTERLACED", "CHROMA_SITING",
             "PLANE_LAYOUTS", "CROP"}
Writable == {"DATASPACE", "BLEND_MODE", "SMPTE2086", "CTA861_3", "SMPTE2094_50"}
Listed     == ReadOnly \cup Writable
IsGettable == Listed \ {"NAME", "PROTECTED_CONTENT"}
Types      == Listed \cup {"SMPTE2094_40", "SMPTE2094_10"}

(* The types whose setter says that they are read-only.                     *)
RefusedTypes == {"BUFFER_ID", "NAME", "WIDTH", "HEIGHT", "LAYER_COUNT", "PIXEL_FORMAT_REQUESTED",
                 "PIXEL_FORMAT_FOURCC", "PIXEL_FORMAT_MODIFIER", "USAGE", "STRIDE"}

(* Types with memory of their own.                                          *)
PointerTypes == {"SMPTE2086", "CTA861_3", "SMPTE2094_50"}

(* What the queries of the backends have an answer for.                     *)
GbmAnswers    == Types \ {"SMPTE2094_40", "SMPTE2094_10"}
DmaBufAnswers == ReadOnly \ {"NAME", "PIXEL_FORMAT_MODIFIER", "PLANE_LAYOUTS"}

Backends == {"gbm", "dmabuf"}

(* AIMAPPER_ERROR_*, a result of getStandardMetadata is one or a size.      *)
BAD_VALUE    == 3
NO_RESOURCES == 5
UNSUPPORTED  == 7

-----------------------------------------------------------------------------
Nothing == [value |-> 0, size |-> 0]
Free0 == [live |-> FALSE, size |-> 0, value |-> 0]
Fresh0(size) == [live |-> TRUE, size |-> size, value |-> 0]

(* A fresh BO: zeros, and memory for what pointers lead to. Which memory is *)
(* fresh does not matter, its names are interchangeable.                    *)
FreshBlocks == CHOOSE s \in Block \X Block \X Block :
                 s[1] # s[2] /\ s[1] # s[3] /\ s[2] # s[3]
NewData(b) ==
  [DATASPACE |-> 0, BLEND_MODE |-> 0, SMPTE2086 |-> b[1], CTA861_3 |-> b[2],
   SMPTE2094_50 |-> b[3], smpte2094_50_size |-> 0]
NewHeap(b) == [x \in Block |-> IF x \in {b[1], b[2]} THEN Fresh0(1)
                               ELSE IF x = b[3] THEN Fresh0(MaxSize)
                               ELSE Free0]

Idle == [step |-> "done", op |-> "none", type |-> "none", backend |-> "none",
         data |-> Null, size |-> 0, value |-> Nothing, expected |-> Nothing,
         result |-> "none", code |-> 0]

Init ==
  /\ metadata = NewData(FreshBlocks)
  /\ heap = NewHeap(FreshBlocks)
  /\ call = [t \in Thread |-> Idle]
  /\ last = [type \in Writable |-> Nothing]
  /\ overlapped = FALSE

Busy(t) == call[t].step # "done"
Enters(t) ==
  /\ ~Busy(t)
  /\ overlapped' = (overlapped \/ \E u \in Thread : Busy(u))

(* Blocks that a pointer leads to: the others are free or leaked.           *)
Reachable == {metadata[p] : p \in PointerTypes}
               \cup {call[t].data : t \in {u \in Thread : Busy(u)}}
Unused == Block \ Reachable

Return(t, result, code) ==
  LET c == call[t] IN
  call' = [call EXCEPT ![t] = [c EXCEPT !.step = "done", !.data = Null,
                                        !.value = IF c.op = "get" THEN c.value ELSE Nothing,
                                        !.result = result, !.code = code]]

-----------------------------------------------------------------------------
TooBig(type, v) == type = "SMPTE2094_50" /\ v.size > MaxSize

(* setStandardMetadata of a type or a value that is refused.                *)
SetRefuse(t, backend, type, v) ==
  /\ Enters(t)
  /\ type \in RefusedTypes \/ TooBig(type, v)
  /\ call' = [call EXCEPT ![t] = [Idle EXCEPT !.op = "set", !.type = type, !.backend = backend,
                                    !.result = "error", !.code = BAD_VALUE]]
  /\ UNCHANGED <<metadata, heap, last>>

(* Or there is no memory for what it gives to the backend, the first thing  *)
(* setStandardMetadata asks for.                                            *)
SetNoMemory(t, backend, type) ==
  /\ Enters(t)
  /\ call' = [call EXCEPT ![t] = [Idle EXCEPT !.op = "set", !.type = type, !.backend = backend,
                                    !.result = "error", !.code = NO_RESOURCES]]
  /\ UNCHANGED <<metadata, heap, last>>

(* Up to the backend: what the client gave is copied to fresh memory. What  *)
(* leaked memory contains is forgotten. An assertion says that there is     *)
(* memory for the copy.                                                     *)
SetEnter(t, backend, type, v) ==
  LET SetCall(b) == [Idle EXCEPT !.step = "set_store", !.op = "set", !.type = type,
                                 !.backend = backend, !.data = b, !.value = v]
  IN
  /\ Enters(t)
  /\ type \notin RefusedTypes /\ ~TooBig(type, v)
  /\ IF type \in PointerTypes
     THEN LET b == CHOOSE b \in Unused : TRUE IN
            /\ Unused # {}
            /\ heap' = [x \in Block |->
                 CASE x = b -> [live |-> TRUE, size |-> v.size, value |-> v.value]
                   [] x \in Unused \ {b} -> Free0
                   [] OTHER -> heap[x]]
            /\ call' = [call EXCEPT ![t] = SetCall(b)]
     ELSE /\ UNCHANGED heap
          /\ call' = [call EXCEPT ![t] = SetCall(Null)]
  /\ UNCHANGED <<metadata, last>>

Remembered(c) == IF c.type \in Writable THEN [last EXCEPT ![c.type] = c.value] ELSE last

(* DMA-BUF says yes and does nothing, GBM does the same for types it does   *)
(* not keep.                                                                *)
SetNothing(t) ==
  /\ call[t].step = "set_store"
  /\ call[t].backend = "dmabuf" \/ call[t].type \notin Writable
  /\ Return(t, "none", 0)
  /\ UNCHANGED <<metadata, heap, last, overlapped>>

SetScalar(t) ==
  LET c == call[t] IN
  /\ c.step = "set_store" /\ c.backend = "gbm"
  /\ c.type \in {"DATASPACE", "BLEND_MODE"}
  /\ metadata' = [metadata EXCEPT ![c.type] = c.value.value]
  /\ last' = Remembered(c)
  /\ Return(t, "none", 0)
  /\ UNCHANGED <<heap, overlapped>>

(* Faulty variant: what the pointer led to is freed.                        *)
SetPointerFrees(t) ==
  LET c == call[t] IN
  /\ c.step = "set_store" /\ c.backend = "gbm"
  /\ c.type \in PointerTypes
  /\ heap' = [heap EXCEPT ![metadata[c.type]].live = FALSE]
  /\ metadata' = [metadata EXCEPT ![c.type] = c.data]
  /\ IF c.type = "SMPTE2094_50"
     THEN call' = [call EXCEPT ![t].step = "set_size"] /\ UNCHANGED last
     ELSE Return(t, "none", 0) /\ last' = Remembered(c)
  /\ UNCHANGED overlapped

(* Faulty variant: the memory that was stored is freed, as a copy of it.    *)
SetPointerFreesNew(t) ==
  LET c == call[t] IN
  /\ c.step = "set_store" /\ c.backend = "gbm"
  /\ c.type \in PointerTypes
  /\ heap' = [heap EXCEPT ![c.data].live = FALSE]
  /\ metadata' = [metadata EXCEPT ![c.type] = c.data]
  /\ IF c.type = "SMPTE2094_50"
     THEN call' = [call EXCEPT ![t].step = "set_size"] /\ UNCHANGED last
     ELSE Return(t, "none", 0) /\ last' = Remembered(c)
  /\ UNCHANGED overlapped

SetPointer(t) ==
  LET c == call[t] IN
  /\ c.step = "set_store" /\ c.backend = "gbm"
  /\ c.type \in PointerTypes
  /\ metadata' = [metadata EXCEPT ![c.type] = c.data]
  /\ IF c.type = "SMPTE2094_50"
     THEN call' = [call EXCEPT ![t].step = "set_size"] /\ UNCHANGED last
     ELSE Return(t, "none", 0) /\ last' = Remembered(c)
  /\ UNCHANGED <<heap, overlapped>>

(* Faulty variant: the size is only ever raised.                            *)
SetSizeGrows(t) ==
  LET c == call[t] IN
  /\ c.step = "set_size"
  /\ metadata' = [metadata EXCEPT !.smpte2094_50_size = IF c.value.size > @ THEN c.value.size ELSE @]
  /\ last' = Remembered(c)
  /\ Return(t, "none", 0)
  /\ UNCHANGED <<heap, overlapped>>

(* A SMPTE2094_50 has a size, which is stored after the pointer.            *)
SetSize(t) ==
  LET c == call[t] IN
  /\ c.step = "set_size"
  /\ metadata' = [metadata EXCEPT !.smpte2094_50_size = c.value.size]
  /\ last' = Remembered(c)
  /\ Return(t, "none", 0)
  /\ UNCHANGED <<heap, overlapped>>

-----------------------------------------------------------------------------
(* getStandardMetadata. gralloc_gbm_android_buffer_query copies scalars and *)
(* pointers first (here those of the type), the size of SMPTE2094_50 last.  *)
(* BLEND_MODE is answered with the copy of the dataspace.                   *)
GetEnter(t, backend, type) ==
  /\ Enters(t)
  /\ call' = [call EXCEPT ![t] =
       [Idle EXCEPT !.step = "get_size", !.op = "get", !.type = type, !.backend = backend,
                    !.data = IF type \in PointerTypes /\ backend = "gbm"
                             THEN metadata[type] ELSE Null,
                    !.value = IF type \in {"DATASPACE", "BLEND_MODE"}
                              THEN [value |-> metadata.DATASPACE, size |-> 0] ELSE Nothing,
                    !.expected = IF type \in Writable THEN last[type] ELSE Nothing]]
  /\ UNCHANGED <<metadata, heap, last>>

GetSize(t) ==
  /\ call[t].step = "get_size"
  /\ call' = [call EXCEPT ![t] =
       [call[t] EXCEPT !.step = "get_answer",
                       !.size = IF call[t].type = "SMPTE2094_50"
                                THEN metadata.smpte2094_50_size ELSE 0]]
  /\ UNCHANGED <<metadata, heap, last, overlapped>>

GetUnsupported(t) ==
  LET c == call[t] IN
  /\ c.step = "get_answer"
  /\ c.type \notin IF c.backend = "gbm" THEN GbmAnswers ELSE DmaBufAnswers
  /\ Return(t, "error", UNSUPPORTED)
  /\ UNCHANGED <<metadata, heap, last, overlapped>>

(* What has no memory of its own: numbers, and what the handle, the BO or   *)
(* the code says.                                                           *)
GetValue(t) ==
  LET c == call[t] IN
  /\ c.step = "get_answer"
  /\ c.type \in (IF c.backend = "gbm" THEN GbmAnswers ELSE DmaBufAnswers) \ PointerTypes
  /\ Return(t, "value", 0)
  /\ UNCHANGED <<metadata, heap, last, overlapped>>

(* SMPTE2086 and CTA861_3: the members are assigned through an optional     *)
(* that is empty. It stays empty, or a checked standard library aborts.     *)
GetOptional(t) ==
  LET c == call[t] IN
  /\ c.step = "get_answer" /\ c.backend = "gbm"
  /\ c.type \in {"SMPTE2086", "CTA861_3"}
  /\ \/ Return(t, "absent", 0)
     \/ call' = [call EXCEPT ![t].step = "aborted"]
  /\ UNCHANGED <<metadata, heap, last, overlapped>>

(* The bytes from the pointer on, as many as the size says.                 *)
GetPayload(t) ==
  LET c == call[t] IN
  /\ c.step = "get_answer" /\ c.backend = "gbm"
  /\ c.type = "SMPTE2094_50"
  /\ call' = [call EXCEPT ![t] =
       [c EXCEPT !.step = "done", !.data = Null, !.code = c.size,
                 !.result = IF c.size = 0 THEN "absent" ELSE "value",
                 !.value = IF c.size = 0 THEN Nothing
                           ELSE [value |-> heap[c.data].value, size |-> c.size]]]
  /\ UNCHANGED <<metadata, heap, last, overlapped>>

(* freeBuffer and a new importBuffer: gralloc_gbm_bo_data_destroy frees two *)
(* of the three pointers and the third is leaked; nothing leads to any of   *)
(* them. The new BO has data of its own.                                    *)
Reimport ==
  /\ \A t \in Thread : call[t].step = "done"
  /\ metadata' = NewData(FreshBlocks)
  /\ heap' = NewHeap(FreshBlocks)
  /\ call' = [t \in Thread |-> Idle]
  /\ last' = [type \in Writable |-> Nothing]
  /\ overlapped' = FALSE

Values(type) == IF type \in {"DATASPACE", "BLEND_MODE"}
                THEN [value: Scalars, size: {0}]
                ELSE IF type = "SMPTE2094_50" THEN Payloads
                ELSE {[value |-> p.value, size |-> 1] : p \in Payloads}

Next ==
  \/ \E t \in Thread, backend \in Backends :
       \/ \E type \in WriteTypes :
            \/ \E v \in Values(type) : SetRefuse(t, backend, type, v)
                                         \/ SetEnter(t, backend, type, v)
            \/ SetNoMemory(t, backend, type)
       \/ \E type \in ReadTypes : GetEnter(t, backend, type)
  \/ \E t \in Thread :
       \/ SetNothing(t) \/ SetScalar(t) \/ SetPointer(t) \/ SetSize(t)
       \/ GetSize(t) \/ GetUnsupported(t) \/ GetValue(t) \/ GetOptional(t) \/ GetPayload(t)
  \/ Reimport

Spec == Init /\ [][Next]_vars

-----------------------------------------------------------------------------
(* The variables have their types.                                          *)
TypeOK ==
  /\ metadata.DATASPACE \in Scalars /\ metadata.BLEND_MODE \in Scalars
  /\ \A p \in PointerTypes : metadata[p] \in Block
  /\ metadata.smpte2094_50_size \in 0..MaxSize
  /\ heap \in [Block -> [live: BOOLEAN, size: Nat, value: Nat]]
  /\ DOMAIN last = Writable
  /\ overlapped \in BOOLEAN

(* Every pointer in the user data leads to memory that is allocated, and no *)
(* two to the same: gralloc_gbm_bo_data_destroy frees them one by one.      *)
PointersOwn ==
  /\ \A p \in PointerTypes : heap[metadata[p]].live
  /\ \A p, q \in PointerTypes : metadata[p] = metadata[q] => p = q

(* A get in progress follows a pointer it copied before other threads' sets *)
(* replaced it: the memory is still there.                                  *)
CopiesLive ==
  \A t \in Thread : Busy(t) /\ call[t].data # Null => heap[call[t].data].live

(* A get of a SMPTE2094_50 copies the payload of one set, whole: it reads   *)
(* no further than the memory of the payload goes, and no less.             *)
PayloadWhole ==
  \A t \in Thread : call[t].step = "get_answer" /\ call[t].type = "SMPTE2094_50"
                      /\ call[t].backend = "gbm" =>
    call[t].size \in {0, heap[call[t].data].size}

(* The last call of t was a get of the GBM buffer.                          *)
HasGot(t, type) ==
  call[t].step = "done" /\ call[t].op = "get" /\ call[t].backend = "gbm" /\ call[t].type = type

(* A get of a DATASPACE or a SMPTE2094_50 returns what was set last in this *)
(* process since the import: pointer, size and content belong together.     *)
RoundTrip ==
  \A t \in Thread, type \in {"DATASPACE", "SMPTE2094_50"} : HasGot(t, type) =>
    IF call[t].result = "value" THEN call[t].value = call[t].expected
                                ELSE call[t].expected.size = 0

(* Both, as long as calls come one at a time.                               *)
SerialGetsRight == ~overlapped => PayloadWhole /\ RoundTrip

(* RoundTrip of every type in "Writable types" (Mapper.cpp:512), which are   *)
(* all listed as gettable and settable, once they are set.                  *)
WrittenIsRead ==
  \A t \in Thread, type \in Writable : HasGot(t, type) /\ call[t].expected # Nothing =>
    call[t].result = "value" /\ call[t].value.value = call[t].expected.value

(* "Read-only types" (Mapper.cpp:494) cannot be set: the client is told.    *)
ReadOnlyRefused ==
  \A t \in Thread : call[t].step = "done" /\ call[t].op = "set" /\ call[t].type \in ReadOnly =>
    call[t].result = "error"

(* What listSupportedMetadataTypes says is gettable of every buffer.        *)
ListedIsAnswered ==
  \A t \in Thread : call[t].step = "done" /\ call[t].op = "get" /\ call[t].type \in IsGettable =>
    call[t].result # "error"

(* getStandardMetadata returns a size, and its failures are negative: the   *)
(* test of Mapper.cpp:361 before "Backend operation failed".                *)
FailuresNegative ==
  \A t \in Thread : call[t].op = "get" /\ call[t].result = "error" => call[t].code < 0
=============================================================================
