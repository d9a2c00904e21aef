----------------------------- MODULE LibraryProofs -----------------------------
(***************************************************************************)
(* Theorems about the two globals of libgralloc_gbm: the driver of the     *)
(* process, and the table of its buffers down to the pointers of uthash.   *)
(*                                                                         *)
(* Those about GbmDriver hold for any number of threads, addresses and     *)
(* failed initialisations. Those about calls that do not race assume that  *)
(* freed memory keeps its content until it is reused, which the code       *)
(* relies on after an initialisation has failed.                           *)
(*                                                                         *)
(* Those about HashTable hold for any threads, entries, keys, hash         *)
(* function, number of first buckets and length of chain that makes the    *)
(* table grow, and for tables of any size. They assume ~Overlap: the steps *)
(* of two calls do not mix, though their calls may follow each other in    *)
(* any order. Nothing in the code ensures that, and without it they are    *)
(* false.                                                                  *)
(***************************************************************************)
EXTENDS GbmDriver, HashTable, FiniteSetTheorems, WellFoundedInduction, TLAPS

-----------------------------------------------------------------------------
(* The inductive invariant. The type of every variable, ...                 *)
Typed ==
  /\ g_driver \in Block \cup {Null}
  /\ heap \in [Block -> Driver]
  /\ opens \in Int
  /\ fails \in Nat
  /\ call \in [Thread -> Steps]
  /\ raced \in BOOLEAN

(* ... before any failure: nobody frees a driver, ...                       *)
Writing == {"open", "device", "ready"}
Unfailed == fails = 0 =>
  /\ g_driver # Null => heap[g_driver].live
  /\ \A t \in Thread : call[t] # "corrupt" /\ (call[t] \in Writing => g_driver # Null)

(* ... and while initialisations overlap with no other call: how far the    *)
(* one in progress has come, what the other calls rely on, and which render *)
(* node is open.                                                            *)
Calm     == \A t, u \in Thread : t # u /\ call[t] \in Initialising => call[u] = "idle"
Present  == g_driver # Null /\ heap[g_driver].live
Complete == Present /\ heap[g_driver].ready /\ heap[g_driver].gbm_dev /\ heap[g_driver].dri_fd
Partial  == Present /\ ~heap[g_driver].ready

Progress(step) ==
  /\ step \in {"init", "calloc"} => ~Present
  /\ step \in Writing => Partial
  /\ step = "open" => ~heap[g_driver].dri_fd
  /\ step \in {"device", "ready"} => heap[g_driver].dri_fd
  /\ step = "ready" => heap[g_driver].gbm_dev
  /\ step \in {"enter", "use"} => Complete
  /\ step \notin {"crashed", "corrupt"}

Serial ==
  /\ Calm
  /\ \A t \in Thread : Progress(call[t])
  /\ g_driver # Null /\ heap[g_driver].ready => Complete
  /\ Partial => \E t \in Thread : call[t] \in Writing
  /\ opens = IF Present /\ heap[g_driver].dri_fd THEN 1 ELSE 0

IInv == Typed /\ Unfailed
SerialInv == IInv /\ (~raced => Serial)

-----------------------------------------------------------------------------
LEMMA StepsOfCall == Initialising \subseteq Steps /\ Writing \subseteq Initialising
PROOF
  BY DEF Steps, Initialising, Writing

LEMMA FreedDriver == /\ Zeroed \in Driver /\ Zeroed.live /\ ~Zeroed.ready /\ ~Zeroed.dri_fd
                     /\ \A d \in Driver : Freed(d) \in Driver /\ ~Freed(d).live
                                          /\ Freed(d).ready = d.ready
PROOF
  BY DEF Freed, Zeroed, Driver

LEMMA GotoTyped ==
  ASSUME IInv, NEW t \in Thread, NEW step \in Steps, Goto(t, step)
  PROVE  /\ call' \in [Thread -> Steps] /\ raced' \in BOOLEAN
         /\ \A u \in Thread : call'[u] = IF u = t THEN step ELSE call[u]
PROOF
  <1>1. call' = [call EXCEPT ![t] = step] /\ raced' = (raced \/ Racing(call'))
    BY DEF Goto
  <1>2. raced' \in BOOLEAN
    BY <1>1 DEF Racing, IInv, Typed
  <1> QED
    BY <1>1, <1>2 DEF IInv, Typed

LEMMA InvInit == Init => SerialInv
PROOF
  <1> SUFFICES ASSUME Init PROVE SerialInv
    OBVIOUS
  <1>1. PICK service \in BOOLEAN, b \in Block :
          /\ g_driver = IF service THEN b ELSE Null
          /\ heap = [x \in Block |->
               IF service /\ x = b
               THEN [live |-> TRUE, ready |-> TRUE, dri_fd |-> TRUE, gbm_dev |-> TRUE]
               ELSE Freed(Zeroed)]
          /\ opens = IF service THEN 1 ELSE 0
    BY DEF Init
  <1>2. /\ fails = 0 /\ call = [t \in Thread |-> "idle"] /\ raced = FALSE
    BY DEF Init
  <1>3. heap \in [Block -> Driver]
    <2> DEFINE ready == [live |-> TRUE, ready |-> TRUE, dri_fd |-> TRUE, gbm_dev |-> TRUE]
    <2>1. ready \in Driver /\ Freed(Zeroed) \in Driver
      BY FreedDriver DEF Driver
    <2> HIDE DEF ready
    <2> QED
      BY <1>1, <2>1 DEF ready
  <1>4. Typed
    <2>1. g_driver \in Block \cup {Null} /\ opens \in Int
      BY <1>1
    <2>2. fails \in Nat /\ raced \in BOOLEAN /\ call \in [Thread -> Steps]
      BY <1>2 DEF Steps
    <2> QED
      BY <1>3, <2>1, <2>2 DEF Typed
  <1>5. CASE service
    <2>1. g_driver = b /\ b # Null /\ opens = 1
          /\ heap[b] = [live |-> TRUE, ready |-> TRUE, dri_fd |-> TRUE, gbm_dev |-> TRUE]
      BY <1>1, <1>5, DriverAssumption
    <2> QED
      BY <1>2, <1>4, <2>1 DEF SerialInv, IInv, Unfailed, Writing, Serial, Calm, Initialising, Progress,
        Present, Complete, Partial
  <1>6. CASE ~service
    <2>1. g_driver = Null /\ opens = 0
      BY <1>1, <1>6
    <2> QED
      BY <1>2, <1>4, <2>1 DEF SerialInv, IInv, Unfailed, Writing, Serial, Calm, Initialising, Progress,
        Present, Complete, Partial
  <1> QED
    BY <1>5, <1>6

(* The first two parts, whatever overlaps and whatever freed memory holds.  *)
LEMMA SafeNext == IInv /\ [Next]_vars => IInv'
PROOF
  <1> SUFFICES ASSUME IInv, [Next]_vars PROVE IInv'
    OBVIOUS
  <1>1. CASE UNCHANGED vars
    BY <1>1 DEF vars, IInv, Typed, Unfailed
  <1>2. ASSUME NEW t \in Thread, Check(t) \/ InitTest(t) \/ Enter(t) \/ Use(t) PROVE IInv'
    <2>1. PICK step \in {"enter", "init", "calloc", "use", "idle", "crashed"} : Goto(t, step)
      BY <1>2 DEF Check, InitTest, Enter, Use
    <2>2. UNCHANGED <<g_driver, heap, opens, fails>>
      BY <1>2 DEF Check, InitTest, Enter, Use
    <2>3. step \in Steps /\ step # "corrupt" /\ step \notin Writing
      BY DEF Steps, Writing
    <2> QED
      BY <2>1, <2>2, <2>3, GotoTyped DEF IInv, Typed, Unfailed
  <1>3. ASSUME NEW t \in Thread, InitCalloc(t) PROVE IInv'
    <2>1. PICK b \in Block : ~heap[b].live /\ g_driver' = b /\ heap' = [heap EXCEPT ![b] = Zeroed]
      BY <1>3 DEF InitCalloc
    <2>2. Goto(t, "open") /\ UNCHANGED <<opens, fails>>
      BY <1>3 DEF InitCalloc
    <2>3. Zeroed \in Driver /\ Zeroed.live
      BY DEF Zeroed, Driver
    <2>4. heap' \in [Block -> Driver] /\ heap'[g_driver'].live /\ g_driver' \in Block /\ g_driver' # Null
      BY <2>1, <2>3, DriverAssumption DEF IInv, Typed
    <2>5. "open" \in Steps /\ "open" # "corrupt"
      BY DEF Steps
    <2> QED
      BY <2>2, <2>4, <2>5, GotoTyped DEF IInv, Typed, Unfailed
  <1>4. ASSUME NEW t \in Thread, InitCallocFail(t) \/ InitOpenFail(t) \/ InitDeviceFail(t) PROVE IInv'
    <2>1. Goto(t, "idle") /\ fails' = fails + 1
      BY <1>4 DEF InitCallocFail, InitOpenFail, InitDeviceFail, Failed
    <2>2. g_driver' \in Block \cup {Null} /\ opens' \in Int
      BY <1>4 DEF InitCallocFail, InitOpenFail, InitDeviceFail, IInv, Typed
    <2>5. heap' \in [Block -> Driver]
      <3>1. heap' = heap \/ (g_driver \in Block /\ heap' = [heap EXCEPT ![g_driver] = Freed(heap[g_driver])])
        BY <1>4 DEF InitCallocFail, InitOpenFail, InitDeviceFail, IInv, Typed, Through
      <3> QED
        BY <3>1, FreedDriver DEF IInv, Typed
    <2>3. fails' \in Nat /\ fails' # 0
      BY <2>1 DEF IInv, Typed
    <2>4. "idle" \in Steps
      BY DEF Steps
    <2> QED
      BY <2>1, <2>2, <2>3, <2>4, <2>5, GotoTyped DEF IInv, Typed, Unfailed
  <1>5. ASSUME NEW t \in Thread, InitOpen(t) \/ InitDevice(t) \/ InitReady(t) PROVE IInv'
    <2>1. PICK step \in {"device", "ready", "enter"} : Goto(t, step)
      BY <1>5 DEF InitOpen, InitDevice, InitReady
    <2>2. g_driver # Null /\ g_driver \in Block /\ UNCHANGED <<g_driver, fails>> /\ opens' \in Int
      BY <1>5 DEF InitOpen, InitDevice, InitReady, Through, IInv, Typed
    <2>3. heap' \in [Block -> Driver] /\ heap'[g_driver].live = heap[g_driver].live
      <3>1. \A d \in Driver :
              /\ [d EXCEPT !.dri_fd = TRUE] \in Driver /\ [d EXCEPT !.dri_fd = TRUE].live = d.live
              /\ [d EXCEPT !.gbm_dev = TRUE] \in Driver /\ [d EXCEPT !.gbm_dev = TRUE].live = d.live
              /\ [d EXCEPT !.ready = TRUE] \in Driver /\ [d EXCEPT !.ready = TRUE].live = d.live
        BY DEF Driver
      <3>2. heap \in [Block -> Driver]
        BY DEF IInv, Typed
      <3>3. PICK d \in Driver : heap' = [heap EXCEPT ![g_driver] = d] /\ d.live = heap[g_driver].live
        <4>1. CASE InitOpen(t)
          BY <2>2, <3>1, <3>2, <4>1 DEF InitOpen
        <4>2. CASE InitDevice(t)
          BY <2>2, <3>1, <3>2, <4>2 DEF InitDevice
        <4>3. CASE InitReady(t)
          BY <2>2, <3>1, <3>2, <4>3 DEF InitReady
        <4> QED
          BY <1>5, <4>1, <4>2, <4>3
      <3> QED
        BY <2>2, <3>2, <3>3
    <2>4. step \in Steps /\ step # "corrupt"
      BY DEF Steps
    <2> QED
      BY <2>1, <2>2, <2>3, <2>4, GotoTyped DEF IInv, Typed, Unfailed
  <1>6. ASSUME NEW t \in Thread, Crash(t) PROVE IInv'
    <2>1. /\ Goto(t, "corrupt") /\ UNCHANGED <<g_driver, heap, opens, fails>>
          /\ call[t] \in Writing /\ ~(g_driver # Null /\ heap[g_driver].live)
      BY <1>6 DEF Crash, Through, Writing
    <2>2. fails # 0
      BY <2>1 DEF IInv, Unfailed
    <2>3. "corrupt" \in Steps
      BY DEF Steps
    <2> QED
      BY <2>1, <2>2, <2>3, GotoTyped DEF IInv, Typed, Unfailed
  <1>7. CASE Next
    BY <1>2, <1>3, <1>4, <1>5, <1>6, <1>7 DEF Next
  <1> QED
    BY <1>1, <1>7

(* One call at a time, or several of a driver that is ready. What a call    *)
(* that goes on to a step leaves to show: the progress of that call.        *)
LEMMA CallGoesOn ==
  ASSUME SerialInv, NEW t \in Thread, NEW step \in Steps, Goto(t, step), ~raced'
  PROVE  /\ Serial /\ Calm'
         /\ \A u \in Thread : call'[u] = IF u = t THEN step ELSE call[u]
         /\ call[t] \in Initialising \/ step \in Initialising =>
              \A u \in Thread : u # t => call[u] = "idle"
PROOF
  <1>1. \A u \in Thread : call'[u] = IF u = t THEN step ELSE call[u]
    BY GotoTyped DEF SerialInv
  <1>2. raced' = (raced \/ Racing(call')) /\ raced \in BOOLEAN
    BY DEF Goto, SerialInv, IInv, Typed
  <1>3. ~raced /\ ~Racing(call')
    BY <1>2
  <1>4. Calm'
    BY <1>3 DEF Racing, Calm
  <1>5. Serial
    BY <1>3 DEF SerialInv
  <1> QED
    BY <1>1, <1>4, <1>5 DEF Calm, Serial

LEMMA SerialNext == ASSUME Intact PROVE SerialInv /\ [Next]_vars => SerialInv'
PROOF
  <1> SUFFICES ASSUME SerialInv, [Next]_vars PROVE SerialInv'
    OBVIOUS
  <1>0. IInv'
    BY SafeNext DEF SerialInv
  <1> SUFFICES ASSUME ~raced' PROVE Serial'
    BY <1>0 DEF SerialInv
  <1>1. CASE UNCHANGED vars
    BY <1>1 DEF vars, SerialInv, Serial, Calm, Progress, Present, Complete, Partial
  <1>a. \A ready \in is_gralloc_gbm_ready : Serial => (ready <=> Complete)
    BY DEF is_gralloc_gbm_ready, Serial, Complete, Present
  <1>2. ASSUME NEW t \in Thread, Check(t) \/ InitTest(t) \/ Enter(t) \/ Use(t) PROVE Serial'
    <2>1. UNCHANGED <<g_driver, heap, opens>>
      BY <1>2 DEF Check, InitTest, Enter, Use
    <2>2. PICK step \in {"enter", "init", "calloc", "use", "idle", "crashed"} :
            /\ Goto(t, step) /\ call[t] \in {"idle", "init", "enter", "use"}
            /\ step \in {"enter", "use"} => (Serial => Complete)
            /\ step \in {"init", "calloc"} => (Serial => ~Complete)
            /\ step = "calloc" => call[t] = "init"
            /\ step = "crashed" => call[t] = "use" /\ ~Usable
      BY <1>2, <1>a DEF Check, InitTest, Enter, Use
    <2>3. step \in Steps /\ step \notin Writing
      BY DEF Steps, Writing
    <2>4. /\ Serial /\ Calm' /\ \A u \in Thread : call'[u] = IF u = t THEN step ELSE call[u]
          /\ step \in Initialising => \A u \in Thread : u # t => call[u] = "idle"
      BY <2>2, <2>3, CallGoesOn
    <2>5. Progress(step)
      <3>1. step \in {"init", "calloc"} => ~Present
        BY <2>2, <2>4 DEF Serial, Partial, Complete, Present, Writing, Initialising
      <3>2. step # "crashed"
        BY <2>2, <2>4 DEF Serial, Progress, Complete, Present, Usable
      <3> QED
        BY <2>2, <2>3, <2>4, <3>1, <3>2 DEF Progress, Writing
    <2> QED
      BY <2>1, <2>2, <2>3, <2>4, <2>5 DEF Serial, Progress, Present, Complete, Partial, Writing
  <1>3. ASSUME NEW t \in Thread, NEW step \in Steps, Goto(t, step), call[t] \in Initialising,
               step # "crashed", step # "corrupt",
               Progress(step)',
               (g_driver # Null /\ heap[g_driver].ready => Complete)',
               Partial' => step \in Writing,
               (opens = IF Present /\ heap[g_driver].dri_fd THEN 1 ELSE 0)'
        PROVE  Serial'
    <2>1. /\ Serial /\ Calm' /\ \A u \in Thread : call'[u] = IF u = t THEN step ELSE call[u]
          /\ \A u \in Thread : u # t => call[u] = "idle"
      BY <1>3, CallGoesOn
    <2>2. \A u \in Thread : Progress(call[u])'
      <3> SUFFICES ASSUME NEW u \in Thread PROVE Progress(call[u])'
        OBVIOUS
      <3>1. CASE u = t
        BY <1>3, <2>1, <3>1 DEF Progress
      <3>2. CASE u # t
        BY <2>1, <3>2 DEF Progress, Writing
      <3> QED
        BY <3>1, <3>2
    <2> QED
      BY <1>3, <2>1, <2>2 DEF Serial
  <1>4. ASSUME NEW t \in Thread, InitCalloc(t) PROVE Serial'
    <2>1. PICK b \in Block : ~heap[b].live /\ g_driver' = b /\ heap' = [heap EXCEPT ![b] = Zeroed]
      BY <1>4 DEF InitCalloc
    <2>2. Goto(t, "open") /\ call[t] = "calloc" /\ opens' = opens
      BY <1>4 DEF InitCalloc
    <2>3. "open" \in Steps /\ call[t] \in Initialising /\ "open" \in Writing
      BY <2>2 DEF Steps, Initialising, Writing
    <2>4. g_driver' # Null /\ heap'[g_driver'] = Zeroed
      BY <2>1, DriverAssumption DEF SerialInv, IInv, Typed
    <2>5. opens = 0
      BY <2>2, <2>3, CallGoesOn DEF Serial, Progress
    <2>6. Present' /\ Partial' /\ ~Complete' /\ ~heap'[g_driver'].dri_fd
      BY <2>4, FreedDriver DEF Present, Partial, Complete
    <2>7. Progress("open")'
      BY <2>6, <2>3 DEF Progress
    <2> QED
      BY <2>2, <2>3, <2>4, <2>5, <2>6, <2>7, <1>3, FreedDriver
  <1>5. ASSUME NEW t \in Thread, InitCallocFail(t) PROVE Serial'
    <2>1. /\ Goto(t, "idle") /\ call[t] = "calloc" /\ g_driver' = Null /\ opens' = opens
      BY <1>5 DEF InitCallocFail, Failed
    <2>2. "idle" \in Steps /\ call[t] \in Initialising
      BY <2>1 DEF Steps, Initialising
    <2>3. opens = 0
      BY <2>1, <2>2, CallGoesOn DEF Serial, Progress
    <2>4. ~Present' /\ ~Partial'
      BY <2>1 DEF Present, Partial
    <2>5. Progress("idle")'
      BY DEF Progress, Writing
    <2> QED
      BY <2>1, <2>2, <2>3, <2>4, <2>5, <1>3
  <1>6. ASSUME NEW t \in Thread, InitOpen(t) \/ InitDevice(t) \/ InitReady(t) PROVE Serial'
    <2>1. PICK step \in {"device", "ready", "enter"} :
            /\ Goto(t, step) /\ g_driver' = g_driver
            /\ call[t] = CASE step = "device" -> "open" [] step = "ready" -> "device" [] step = "enter" -> "ready"
            /\ heap' = CASE step = "device" -> [heap EXCEPT ![g_driver].dri_fd = TRUE]
                         [] step = "ready" -> [heap EXCEPT ![g_driver].gbm_dev = TRUE]
                         [] step = "enter" -> [heap EXCEPT ![g_driver].ready = TRUE]
            /\ opens' = IF step = "device" THEN opens + 1 ELSE opens
      BY <1>6 DEF InitOpen, InitDevice, InitReady, Through
    <2>2. step \in Steps /\ call[t] \in Initialising /\ call[t] \in Writing
      BY <2>1 DEF Steps, Initialising, Writing
    <2>3. Serial /\ Progress(call[t])
      BY <2>1, <2>2, CallGoesOn DEF Serial
    <2>4. g_driver # Null /\ g_driver \in Block /\ heap[g_driver] \in Driver /\ heap[g_driver].live
          /\ ~heap[g_driver].ready /\ opens \in Int
      BY <2>2, <2>3 DEF Progress, Partial, Present, SerialInv, IInv, Typed
    <2>5. /\ heap'[g_driver].live
          /\ heap'[g_driver].dri_fd = IF step = "device" THEN TRUE ELSE heap[g_driver].dri_fd
          /\ heap'[g_driver].gbm_dev = IF step = "ready" THEN TRUE ELSE heap[g_driver].gbm_dev
          /\ heap'[g_driver].ready = IF step = "enter" THEN TRUE ELSE heap[g_driver].ready
      <3>1. heap \in [Block -> Driver]
        BY DEF SerialInv, IInv, Typed
      <3> QED
        BY <2>1, <2>4, <3>1 DEF Driver
    <2>6. heap'[g_driver].dri_fd
      BY <2>1, <2>3, <2>5 DEF Progress
    <2>7. Present' /\ (Partial' <=> step # "enter") /\ (heap'[g_driver].ready <=> step = "enter")
      BY <2>1, <2>4, <2>5 DEF Present, Partial
    <2>8. step = "enter" => Complete'
      BY <2>1, <2>3, <2>5, <2>6, <2>7 DEF Complete, Progress
    <2>9. Progress(step)'
      BY <2>1, <2>5, <2>6, <2>7, <2>8 DEF Progress, Writing
    <2>10. opens' = 1
      BY <2>1, <2>3, <2>4 DEF Serial, Progress, Present
    <2> QED
      BY <2>1, <2>2, <2>6, <2>7, <2>8, <2>9, <2>10, <1>3 DEF Writing
  <1>7. ASSUME NEW t \in Thread, InitOpenFail(t) \/ InitDeviceFail(t) PROVE Serial'
    <2>1. /\ Goto(t, "idle") /\ g_driver' = g_driver /\ call[t] \in {"open", "device"}
          /\ g_driver # Null /\ heap' = [heap EXCEPT ![g_driver] = Freed(heap[g_driver])]
          /\ opens' = IF call[t] = "device" /\ heap[g_driver].dri_fd THEN opens - 1 ELSE opens
      BY <1>7 DEF InitOpenFail, InitDeviceFail, Failed, Through
    <2>2. "idle" \in Steps /\ call[t] \in Initialising /\ call[t] \in Writing
      BY <2>1 DEF Steps, Initialising, Writing
    <2>3. Serial /\ Progress(call[t])
      BY <2>2, <2>1, CallGoesOn DEF Serial
    <2>4. g_driver \in Block /\ heap[g_driver] \in Driver /\ ~heap[g_driver].ready /\ opens \in Int
      BY <2>1, <2>2, <2>3 DEF Progress, Partial, SerialInv, IInv, Typed
    <2>5. ~heap'[g_driver].live /\ ~heap'[g_driver].ready
      BY <2>1, <2>4, FreedDriver DEF SerialInv, IInv, Typed
    <2>6. ~Present' /\ ~Partial' /\ ~heap'[g_driver'].ready
      BY <2>1, <2>5 DEF Present, Partial
    <2>7. opens' = 0
      BY <2>1, <2>2, <2>3, <2>4 DEF Serial, Progress, Partial
    <2>8. Progress("idle")'
      BY DEF Progress, Writing
    <2> QED
      BY <2>1, <2>2, <2>6, <2>7, <2>8, <1>3
  <1>8. ASSUME NEW t \in Thread, Crash(t) PROVE Serial'
    <2>1. Goto(t, "corrupt") /\ call[t] \in Writing /\ ~Present
      BY <1>8 DEF Crash, Through, Writing, Present
    <2>2. "corrupt" \in Steps
      BY DEF Steps
    <2> QED
      BY <2>1, <2>2, CallGoesOn DEF Serial, Progress, Partial
  <1>9. CASE Next
    BY <1>2, <1>4, <1>5, <1>6, <1>7, <1>8, <1>9 DEF Next
  <1> QED
    BY <1>1, <1>9

-----------------------------------------------------------------------------
(* Before an initialisation fails no race writes through a null or freed    *)
(* g_driver: it has pointed to some driver since the first calloc.          *)
THEOREM CorruptionNeedsFailure == Spec => []CorruptNeedsFailure
PROOF
  <1>1. Init => IInv
    BY InvInit DEF SerialInv
  <1>2. IInv => CorruptNeedsFailure
    BY DEF IInv, Unfailed, CorruptNeedsFailure, Typed
  <1> QED
    BY <1>1, <1>2, SafeNext, PTL DEF Spec

LEMMA SerialInvariance == ASSUME Intact PROVE Spec => []SerialInv
PROOF
  BY InvInit, SerialNext, PTL DEF Spec

(* Unless an initialisation overlaps with another call, whoever is told     *)
(* that the driver is ready has a device, nobody uses a freed driver and    *)
(* the render node is open once, however initialisations fail.              *)
THEOREM SerialInitIsSound == ASSUME Intact PROVE Spec => []SerialInitSound
PROOF
  <1>1. SerialInv => SerialInitSound
    <2> SUFFICES ASSUME SerialInv, ~raced PROVE ReadyIsUsable /\ NeverCrashed /\ OneRenderNode
      BY DEF SerialInitSound
    <2>1. Serial
      BY DEF SerialInv
    <2> QED
      BY <2>1 DEF Serial, Progress, Complete, Present, Usable, ReadyIsUsable, NeverCrashed, OneRenderNode
  <1> QED
    BY <1>1, SerialInvariance, PTL

(* A driver that has become ready stays where it is as it is.               *)
THEOREM ReadyStaysReady == ASSUME Intact PROVE Spec => StaysReady
PROOF
  <1>1. SerialInv /\ [Next]_vars =>
          [~raced /\ g_driver # Null /\ heap[g_driver].live /\ heap[g_driver].ready =>
             g_driver' = g_driver /\ heap'[g_driver] = heap[g_driver]]_vars
    <2> SUFFICES ASSUME SerialInv, Next, ~raced, g_driver # Null, heap[g_driver].live, heap[g_driver].ready
                 PROVE  g_driver' = g_driver /\ heap'[g_driver] = heap[g_driver]
      BY DEF vars
    <2>1. \A t \in Thread : call[t] \notin Initialising
      BY DEF SerialInv, Serial, Progress, Present, Partial, Initialising, Writing
    <2> QED
      BY <2>1 DEF Next, Check, InitTest, InitCalloc, InitCallocFail, InitOpen, InitOpenFail, InitDevice,
         InitDeviceFail, InitReady, Enter, Use, Crash, Through, Initialising
  <1> QED
    BY <1>1, SerialInvariance, PTL DEF Spec, StaysReady
-----------------------------------------------------------------------------
(* Induction, in a form that names a set and no operator: a set of natural  *)
(* numbers has a least one.                                                 *)
LEMMA Least ==
  ASSUME NEW S \in SUBSET Nat, S # {}
  PROVE  \E x \in S : \A y \in S : x <= y
PROOF
  <1> DEFINE R == StrictSubsetOrdering(Nat)
             T == {0..k : k \in S}
  <1>1. IsWellFoundedOn(R, FiniteSubsetsOf(Nat))
    BY FS_StrictSubsetOrderingWellFounded
  <1>2. \A k \in S : IsFiniteSet(0..k)
    BY FS_Interval
  <1>3. T \subseteq FiniteSubsetsOf(Nat)
    BY <1>2 DEF FiniteSubsetsOf
  <1>4. PICK t \in T : \A y \in T : ~(<<y, t>> \in R)
    <2>1. T # {}
      OBVIOUS
    <2> HIDE DEF R, T
    <2> QED
      BY <1>1, <1>3, <2>1, WFMin
  <1>5. PICK x \in S : t = 0..x
    OBVIOUS
  <1>6. ASSUME NEW y \in S, y < x PROVE FALSE
    <2>1. <<0..y, 0..x>> \notin R
      BY <1>4, <1>5
    <2>2. 0..y \subseteq 0..x /\ 0..y # 0..x
      BY <1>6
    <2> QED
      BY <2>1, <2>2 DEF StrictSubsetOrdering
  <1> QED
    BY <1>6

LEMMA UpTo ==
  ASSUME NEW S, 0 \in S, NEW n \in Nat, \A i \in 0..(n - 1) : i \in S => i + 1 \in S
  PROVE  \A i \in 0..n : i \in S
PROOF
  <1> SUFFICES ASSUME NEW j \in 0..n, j \notin S
               PROVE  FALSE
    OBVIOUS
  <1>1. PICK m \in 0..n : m \notin S /\ \A y \in (0..n) \ S : m <= y
    <2>1. (0..n) \ S \in SUBSET Nat /\ (0..n) \ S # {}
      OBVIOUS
    <2> QED
      BY <2>1, Least
  <1>2. m # 0 /\ m - 1 \in 0..(n - 1) /\ m - 1 \in S
    BY <1>1
  <1>3. (m - 1) + 1 \in S /\ (m - 1) + 1 = m
    BY <1>2
  <1> QED
    BY <1>1, <1>3

(* What a recursive definition over 0..n defines exists.                    *)
StepsOf(F, V, n) == F \in [1..n -> [V -> V]]
Computes(f, F, V, c, n) ==
  f \in [0..n -> V] /\ f[0] = c /\ \A i \in 1..n : f[i] = F[i][f[i - 1]]

LEMMA Recursion ==
  ASSUME NEW V, NEW c \in V, NEW n \in Nat, NEW F, StepsOf(F, V, n)
  PROVE  \E f : Computes(f, F, V, c, n)
PROOF
  <1>0. F \in [1..n -> [V -> V]]
    BY DEF StepsOf
  <1> DEFINE Solves(f, k) == f[0] = c /\ \A i \in 1..k : f[i] = F[i][f[i - 1]]
             S == {k \in Nat : \E f \in [0..k -> V] : Solves(f, k)}
  <1>1. 0 \in S
    <2>1. [i \in 0..0 |-> c] \in [0..0 -> V] /\ Solves([i \in 0..0 |-> c], 0)
      OBVIOUS
    <2> HIDE DEF Solves
    <2> QED
      BY <2>1
  <1>2. ASSUME NEW k \in 0..(n - 1), k \in S PROVE k + 1 \in S
    <2>1. PICK f \in [0..k -> V] : Solves(f, k)
      BY <1>2
    <2> DEFINE g == [i \in 0..(k + 1) |-> IF i = k + 1 THEN F[k + 1][f[k]] ELSE f[i]]
    <2>2. g \in [0..(k + 1) -> V]
      <3>1. k + 1 \in 1..n /\ f[k] \in V
        BY <1>2
      <3>2. F[k + 1][f[k]] \in V
        BY <1>0, <3>1
      <3> QED
        BY <3>2
    <2>3. Solves(g, k + 1)
      <3>1. g[0] = c
        BY <2>1
      <3>2. ASSUME NEW i \in 1..(k + 1) PROVE g[i] = F[i][g[i - 1]]
        <4>1. CASE i = k + 1
          BY <4>1
        <4>2. CASE i # k + 1
          BY <4>2, <2>1
        <4> QED
          BY <4>1, <4>2
      <3> QED
        BY <3>1, <3>2
    <2> HIDE DEF Solves, g
    <2> QED
      BY <2>2, <2>3
  <1> HIDE DEF S
  <1>3. \A k \in 0..n : k \in S
    BY <1>1, <1>2, UpTo
  <1>4. n \in S
    BY <1>3
  <1>5. PICK f \in [0..n -> V] : Solves(f, n)
    BY <1>4 DEF S
  <1> QED
    BY <1>5 DEF Computes

-----------------------------------------------------------------------------
(* A doubly linked list of entries: from `first` on they are s, each once,  *)
(* and the links back are those forth.                                      *)
Linked(s, first, next, prev) ==
  /\ s \in Seq(Elt)
  /\ \A i, j \in 1..Len(s) : s[i] = s[j] => i = j
  /\ first = IF Len(s) = 0 THEN Nil ELSE s[1]
  /\ \A i \in 1..Len(s) : /\ next[s[i]] = IF i = Len(s) THEN Nil ELSE s[i + 1]
                          /\ prev[s[i]] = IF i = 1 THEN Nil ELSE s[i - 1]
Members(s) == {s[i] : i \in 1..Len(s)}

LEMMA IntervalLength ==
  ASSUME NEW n \in Nat
  PROVE  Cardinality(1..n) = n
PROOF
  <1>1. Cardinality(1..n) = IF 1 > n THEN 0 ELSE n - 1 + 1
    BY FS_Interval
  <1> QED
    BY <1>1

LEMMA LinkedLength ==
  ASSUME NEW s, NEW first, NEW next, NEW prev, Linked(s, first, next, prev)
  PROVE  Cardinality(Elt) \in Nat /\ Len(s) <= Cardinality(Elt)
PROOF
  <1>1. s \in [1..Len(s) -> Elt] /\ Len(s) \in Nat
    BY DEF Linked
  <1>2. s \in Injection(1..Len(s), Elt)
    BY <1>1 DEF Linked, Injection, IsInjective
  <1>3. IsFiniteSet(Elt)
    BY HashTableAssumption
  <1>4. Cardinality(1..Len(s)) <= Cardinality(Elt)
    BY <1>2, <1>3, FS_Injection
  <1>5. Cardinality(1..Len(s)) = Len(s)
    BY <1>1, IntervalLength
  <1> QED
    BY <1>3, <1>4, <1>5, FS_CardinalityType

(* Chain, which follows the links forth, meets the list.                    *)
LEMMA ChainOfLinked ==
  ASSUME NEW s, NEW first, NEW next, NEW prev, Linked(s, first, next, prev)
  PROVE  Chain(next, first) = s
PROOF
  <1> DEFINE max  == Cardinality(Elt)
             F(f) == [i \in 0..max |-> IF i = 0 THEN first
                                       ELSE IF f[i - 1] = Nil THEN Nil ELSE next[f[i - 1]]]
             g    == [i \in 0..max |-> IF i < Len(s) THEN s[i + 1] ELSE Nil]
             at   == CHOOSE f : f = F(f)
  <1>1. max \in Nat /\ Len(s) \in Nat /\ Len(s) <= max
    BY LinkedLength DEF Linked
  <1>2. \A i \in 1..Len(s) : s[i] \in Elt /\ s[i] # Nil
    BY HashTableAssumption DEF Linked
  <1>3. g = F(g)
    <2>1. ASSUME NEW i \in 0..max
          PROVE  g[i] = IF i = 0 THEN first ELSE IF g[i - 1] = Nil THEN Nil ELSE next[g[i - 1]]
      <3>1. CASE i = 0
        BY <1>1, <3>1 DEF Linked
      <3>2. CASE i # 0 /\ i < Len(s) + 1
        <4>1. i - 1 \in 0..max /\ i - 1 < Len(s) /\ (i - 1) + 1 = i /\ i \in 1..Len(s)
          BY <1>1, <3>2
        <4>2. g[i - 1] = s[i] /\ g[i - 1] # Nil
          BY <1>2, <4>1
        <4>3. next[s[i]] = IF i = Len(s) THEN Nil ELSE s[i + 1]
          BY <4>1 DEF Linked
        <4> QED
          BY <1>1, <3>2, <4>1, <4>2, <4>3
      <3>3. CASE i # 0 /\ ~(i < Len(s) + 1)
        <4>1. i - 1 \in 0..max /\ ~(i - 1 < Len(s)) /\ ~(i < Len(s))
          BY <1>1, <3>3
        <4> QED
          BY <3>3, <4>1
      <3> QED
        BY <3>1, <3>2, <3>3
    <2> QED
      BY <2>1
  <1>4. at = F(at)
    BY <1>3
  <1> HIDE DEF at
  <1>5. \A i \in 0..max : at[i] = g[i]
    <2> DEFINE S == {i \in Nat : at[i] = g[i]}
    <2> HIDE DEF g
    <2>1. at[0] = first /\ g[0] = first
      <3>1. 0 \in 0..max
        BY <1>1
      <3>2. F(at)[0] = first /\ F(g)[0] = first
        BY <3>1
      <3> QED
        BY <1>3, <1>4, <3>2
    <2>2. ASSUME NEW i \in 0..(max - 1), at[i] = g[i] PROVE at[i + 1] = g[i + 1]
      <3>1. i + 1 \in 0..max /\ (i + 1) - 1 = i /\ i + 1 # 0
        BY <1>1
      <3>2. at[i + 1] = IF at[i] = Nil THEN Nil ELSE next[at[i]]
        BY <1>4, <3>1
      <3>3. g[i + 1] = IF g[i] = Nil THEN Nil ELSE next[g[i]]
        BY <1>3, <3>1
      <3> QED
        BY <2>2, <3>2, <3>3
    <2>3. 0 \in S /\ \A i \in 0..(max - 1) : i \in S => i + 1 \in S
      BY <1>1, <2>1, <2>2
    <2> HIDE DEF S
    <2>4. \A i \in 0..max : i \in S
      BY <1>1, <2>3, UpTo
    <2> QED
      BY <2>4 DEF S
  <1>6. {j \in 1..max : at[j - 1] # Nil} = 1..Len(s)
    <2>1. ASSUME NEW j \in 1..max PROVE at[j - 1] # Nil <=> j <= Len(s)
      <3>1. j - 1 \in 0..max /\ (j - 1) + 1 = j
        BY <1>1
      <3>2. at[j - 1] = IF j - 1 < Len(s) THEN s[j] ELSE Nil
        BY <1>5, <3>1
      <3> QED
        BY <1>1, <1>2, <3>2
    <2> QED
      BY <1>1, <2>1
  <1>7. Chain(next, first) = [i \in 1..Len(s) |-> at[i - 1]]
    <2>1. Chain(next, first)
            = [i \in 1..Cardinality({j \in 1..max : at[j - 1] # Nil}) |-> at[i - 1]]
      BY DEF Chain, at
    <2>2. Cardinality(1..Len(s)) = Len(s)
      BY <1>1, IntervalLength
    <2> QED
      BY <1>6, <2>1, <2>2
  <1>8. ASSUME NEW i \in 1..Len(s) PROVE at[i - 1] = s[i]
    <2>1. i - 1 \in 0..max /\ i - 1 < Len(s) /\ (i - 1) + 1 = i
      BY <1>1
    <2> QED
      BY <1>5, <2>1
  <1>9. s = [i \in 1..Len(s) |-> s[i]]
    BY DEF Linked
  <1> QED
    BY <1>7, <1>8, <1>9

(* The steps of the code on such a list: it is lengthened at its end or at  *)
(* its beginning, or an entry is taken out.                                 *)
LEMMA PushedSequence ==
  ASSUME NEW S, NEW e \in S, NEW s \in Seq(S)
  PROVE  /\ <<e>> \o s \in Seq(S) /\ Len(<<e>> \o s) = Len(s) + 1
         /\ \A i \in 1..(Len(s) + 1) : (<<e>> \o s)[i] = IF i = 1 THEN e ELSE s[i - 1]
         /\ (<<e>> \o s)[1] = e
         /\ \A i \in 1..Len(s) : (<<e>> \o s)[i + 1] = s[i]
PROOF
  OBVIOUS

LEMMA Appended ==
  ASSUME NEW s, NEW first, NEW next, NEW prev, Linked(s, first, next, prev), Len(s) # 0,
         NEW next2, NEW prev2, NEW e \in Elt \ Members(s),
         next2[e] = Nil, prev2[e] = s[Len(s)],
         \A x \in Members(s) : /\ next2[x] = IF x = s[Len(s)] THEN e ELSE next[x]
                               /\ prev2[x] = prev[x]
  PROVE  /\ Linked(Append(s, e), first, next2, prev2)
         /\ Members(Append(s, e)) = Members(s) \cup {e}
         /\ Len(Append(s, e)) = Len(s) + 1 /\ Append(s, e)[Len(s) + 1] = e
PROOF
  <1> DEFINE r == Append(s, e)
  <1>1. /\ r \in Seq(Elt) /\ Len(r) = Len(s) + 1 /\ r[Len(s) + 1] = e
        /\ \A i \in 1..Len(s) : r[i] = s[i] /\ s[i] \in Members(s)
        /\ Len(s) \in Nat /\ Len(s) \in 1..Len(s)
    BY DEF Linked, Members
  <1> HIDE DEF r
  <1>2. \A i, j \in 1..Len(r) : r[i] = r[j] => i = j
    BY <1>1 DEF Linked
  <1>3. first = IF Len(r) = 0 THEN Nil ELSE r[1]
    BY <1>1 DEF Linked
  <1>4. ASSUME NEW i \in 1..Len(r)
        PROVE  /\ next2[r[i]] = IF i = Len(r) THEN Nil ELSE r[i + 1]
               /\ prev2[r[i]] = IF i = 1 THEN Nil ELSE r[i - 1]
    <2>1. CASE i = Len(s) + 1
      BY <1>1, <2>1
    <2>2. CASE i = Len(s)
      <3>1. prev[s[i]] = IF i = 1 THEN Nil ELSE s[i - 1]
        BY <1>1, <2>2 DEF Linked
      <3>2. i # 1 => i - 1 \in 1..Len(s)
        BY <1>1, <2>2
      <3> QED
        BY <1>1, <2>2, <3>1, <3>2
    <2>3. CASE i < Len(s)
      <3>1. i \in 1..Len(s) /\ i + 1 \in 1..Len(s) /\ s[i] # s[Len(s)]
        BY <1>1, <2>3 DEF Linked
      <3>2. next[s[i]] = s[i + 1] /\ prev[s[i]] = IF i = 1 THEN Nil ELSE s[i - 1]
        BY <2>3, <3>1 DEF Linked
      <3>3. i # 1 => i - 1 \in 1..Len(s)
        BY <3>1
      <3> QED
        BY <1>1, <2>3, <3>1, <3>2, <3>3
    <2> QED
      BY <1>1, <2>1, <2>2, <2>3
  <1>5. Linked(r, first, next2, prev2)
    BY <1>1, <1>2, <1>3, <1>4 DEF Linked
  <1>6. Members(r) = Members(s) \cup {e}
    <2>1. 1..Len(r) = (1..Len(s)) \cup {Len(s) + 1}
      BY <1>1
    <2>2. Members(r) = {r[i] : i \in 1..Len(s)} \cup {r[Len(s) + 1]}
      BY <2>1 DEF Members
    <2>3. {r[i] : i \in 1..Len(s)} = {s[i] : i \in 1..Len(s)}
      BY <1>1
    <2> QED
      BY <1>1, <2>2, <2>3 DEF Members
  <1> QED
    BY <1>1, <1>5, <1>6 DEF r

LEMMA PushedFirst ==
  ASSUME NEW s, NEW first, NEW next, NEW prev, Linked(s, first, next, prev),
         NEW next2, NEW prev2, NEW e \in Elt \ Members(s),
         next2[e] = first, prev2[e] = Nil,
         \A x \in Members(s) : /\ next2[x] = next[x]
                               /\ prev2[x] = IF x = first THEN e ELSE prev[x]
  PROVE  /\ Linked(<<e>> \o s, e, next2, prev2)
         /\ Members(<<e>> \o s) = Members(s) \cup {e}
         /\ Len(<<e>> \o s) = Len(s) + 1
PROOF
  <1> DEFINE r == <<e>> \o s
  <1>1. s \in Seq(Elt) /\ Len(s) \in Nat /\ \A i \in 1..Len(s) : s[i] \in Members(s)
    BY DEF Linked, Members
  <1>2. /\ r \in Seq(Elt) /\ Len(r) = Len(s) + 1 /\ r[1] = e
        /\ \A i \in 1..Len(r) : r[i] = IF i = 1 THEN e ELSE s[i - 1]
        /\ \A i \in 1..Len(s) : r[i + 1] = s[i]
    BY <1>1, PushedSequence
  <1> HIDE DEF r
  <1>3. \A i, j \in 1..Len(r) : r[i] = r[j] => i = j
    <2> SUFFICES ASSUME NEW i \in 1..Len(r), NEW j \in 1..Len(r), r[i] = r[j] PROVE i = j
      OBVIOUS
    <2>1. i # 1 => i - 1 \in 1..Len(s) /\ r[i] = s[i - 1]
      BY <1>1, <1>2
    <2>2. j # 1 => j - 1 \in 1..Len(s) /\ r[j] = s[j - 1]
      BY <1>1, <1>2
    <2>3. i # 1 /\ j # 1 => i - 1 = j - 1
      BY <2>1, <2>2 DEF Linked
    <2> QED
      BY <1>1, <1>2, <2>1, <2>2, <2>3
  <1>4. ASSUME NEW i \in 1..Len(r)
        PROVE  /\ next2[r[i]] = IF i = Len(r) THEN Nil ELSE r[i + 1]
               /\ prev2[r[i]] = IF i = 1 THEN Nil ELSE r[i - 1]
    <2>1. CASE i = 1
      <3>1. Len(s) # 0 => r[2] = s[1]
        <4>1. Len(s) # 0 => 1 \in 1..Len(s) /\ 1 + 1 = 2
          BY <1>1
        <4> QED
          BY <1>2, <4>1
      <3> QED
        BY <1>1, <1>2, <2>1, <3>1 DEF Linked
    <2>2. CASE i # 1
      <3> DEFINE k == i - 1
      <3>1. k \in 1..Len(s) /\ i = k + 1 /\ r[i] = s[k] /\ s[k] \in Members(s)
        BY <1>1, <1>2, <2>2
      <3> HIDE DEF k
      <3>2. next2[r[i]] = IF k = Len(s) THEN Nil ELSE s[k + 1]
        BY <3>1 DEF Linked
      <3>3. k # Len(s) => s[k + 1] = r[i + 1]
        <4>1. k # Len(s) => k + 1 \in 1..Len(s)
          BY <1>1, <3>1
        <4> QED
          BY <1>2, <3>1, <4>1
      <3>4. s[k] = first <=> k = 1
        <4>1. 1 \in 1..Len(s) /\ first = s[1]
          BY <1>1, <3>1 DEF Linked
        <4> QED
          BY <3>1, <4>1 DEF Linked
      <3>5. prev2[r[i]] = IF k = 1 THEN e ELSE s[k - 1]
        BY <3>1, <3>4 DEF Linked
      <3>6. r[i - 1] = IF k = 1 THEN e ELSE s[k - 1]
        <4>1. i - 1 \in 1..Len(r) /\ i - 1 = k
          BY <1>1, <1>2, <3>1
        <4> QED
          BY <1>2, <4>1
      <3> QED
        BY <1>1, <1>2, <2>2, <3>1, <3>2, <3>3, <3>5, <3>6
    <2> QED
      BY <2>1, <2>2
  <1>5. Linked(r, e, next2, prev2)
    BY <1>1, <1>2, <1>3, <1>4 DEF Linked
  <1>6. Members(r) = Members(s) \cup {e}
    <2>1. ASSUME NEW x \in Members(s) PROVE x \in Members(r)
      <3>1. PICK i \in 1..Len(s) : x = s[i]
        BY DEF Members
      <3>2. i + 1 \in 1..Len(r) /\ r[i + 1] = x
        BY <1>1, <1>2, <3>1
      <3> QED
        BY <3>2 DEF Members
    <2>2. e \in Members(r)
      <3>1. 1 \in 1..Len(r)
        BY <1>1, <1>2
      <3> QED
        BY <1>2, <3>1 DEF Members
    <2>3. ASSUME NEW x \in Members(r) PROVE x \in Members(s) \cup {e}
      <3>1. PICK i \in 1..Len(r) : x = r[i]
        BY DEF Members
      <3>2. i # 1 => i - 1 \in 1..Len(s)
        BY <1>1, <1>2
      <3> QED
        BY <1>2, <3>1, <3>2 DEF Members
    <2> QED
      BY <2>1, <2>2, <2>3
  <1> QED
    BY <1>2, <1>5, <1>6 DEF r

Without(s, k) == [i \in 1..(Len(s) - 1) |-> IF i < k THEN s[i] ELSE s[i + 1]]

LEMMA TakenOut ==
  ASSUME NEW s, NEW first, NEW next, NEW prev, Linked(s, first, next, prev),
         NEW next2, NEW prev2, NEW k \in 1..Len(s),
         \A x \in Members(s) \ {s[k]} :
            /\ next2[x] = IF x = prev[s[k]] THEN next[s[k]] ELSE next[x]
            /\ prev2[x] = IF x = next[s[k]] THEN prev[s[k]] ELSE prev[x]
  PROVE  /\ Linked(Without(s, k), IF first = s[k] THEN next[s[k]] ELSE first, next2, prev2)
         /\ Members(Without(s, k)) = Members(s) \ {s[k]}
         /\ Len(Without(s, k)) = Len(s) - 1
         /\ Len(s) > 1 => Without(s, k)[Len(s) - 1]
                            = IF s[Len(s)] = s[k] THEN prev[s[k]] ELSE s[Len(s)]
PROOF
  <1> DEFINE r == Without(s, k)
             n == next[s[k]]
             p == prev[s[k]]
             l == Len(s)
  <1>1. /\ s \in Seq(Elt) /\ l \in Nat /\ k \in Nat /\ k \in 1..l /\ l # 0 /\ 1 \in 1..l /\ l \in 1..l
        /\ \A i \in 1..l : s[i] \in Members(s) /\ s[i] \in Elt /\ s[i] # Nil
        /\ \A i, j \in 1..l : s[i] = s[j] => i = j
        /\ first = s[1]
    BY HashTableAssumption DEF Linked, Members
  <1>2. /\ \A i \in 1..l : next[s[i]] = IF i = l THEN Nil ELSE s[i + 1]
        /\ \A i \in 1..l : prev[s[i]] = IF i = 1 THEN Nil ELSE s[i - 1]
    BY DEF Linked
  <1>3. n = (IF k = l THEN Nil ELSE s[k + 1]) /\ p = IF k = 1 THEN Nil ELSE s[k - 1]
    BY <1>2
  <1>4. /\ r \in Seq(Elt) /\ Len(r) = l - 1
        /\ \A i \in 1..(l - 1) : r[i] = IF i < k THEN s[i] ELSE s[i + 1]
    <2>1. \A i \in 1..(l - 1) : i \in 1..l /\ i + 1 \in 1..l
      BY <1>1
    <2> QED
      BY <1>1, <2>1 DEF Without
  <1>5. \A x \in Members(s) \ {s[k]} : /\ next2[x] = IF x = p THEN n ELSE next[x]
                                       /\ prev2[x] = IF x = n THEN p ELSE prev[x]
    OBVIOUS
  <1> HIDE DEF r, n, p, l
  <1>6. \A i, j \in 1..Len(r) : r[i] = r[j] => i = j
    <2> SUFFICES ASSUME NEW i \in 1..(l - 1), NEW j \in 1..(l - 1), r[i] = r[j] PROVE i = j
      BY <1>4
    <2>1. i \in 1..l /\ i + 1 \in 1..l /\ j \in 1..l /\ j + 1 \in 1..l
      BY <1>1
    <2>2. CASE i < k /\ j < k
      BY <1>1, <1>4, <2>1, <2>2
    <2>3. CASE i < k /\ ~(j < k)
      BY <1>1, <1>4, <2>1, <2>3
    <2>4. CASE ~(i < k) /\ j < k
      BY <1>1, <1>4, <2>1, <2>4
    <2>5. CASE ~(i < k) /\ ~(j < k)
      BY <1>1, <1>4, <2>1, <2>5
    <2> QED
      BY <2>2, <2>3, <2>4, <2>5
  <1>7. (IF first = s[k] THEN n ELSE first) = IF Len(r) = 0 THEN Nil ELSE r[1]
    <2>1. first = s[k] <=> k = 1
      BY <1>1
    <2>2. CASE k = 1
      <3>1. l # 1 => 1 \in 1..(l - 1)
        BY <1>1
      <3> QED
        BY <1>1, <1>3, <1>4, <2>1, <2>2, <3>1
    <2>3. CASE k # 1
      <3>1. 1 \in 1..(l - 1) /\ 1 < k
        BY <1>1, <2>3
      <3> QED
        BY <1>1, <1>4, <2>1, <2>3, <3>1
    <2> QED
      BY <2>2, <2>3
  <1>8. ASSUME NEW i \in 1..Len(r)
        PROVE  /\ next2[r[i]] = IF i = Len(r) THEN Nil ELSE r[i + 1]
               /\ prev2[r[i]] = IF i = 1 THEN Nil ELSE r[i - 1]
    <2>1. i \in 1..(l - 1) /\ i \in 1..l /\ i + 1 \in 1..l
      BY <1>1, <1>4
    <2>2. CASE i < k
      <3>1. r[i] = s[i] /\ s[i] \in Members(s) \ {s[k]}
        BY <1>1, <1>4, <2>1, <2>2
      <3>2. s[i] = p <=> i = k - 1
        <4>1. k # 1 /\ k - 1 \in 1..l /\ p = s[k - 1]
          BY <1>1, <1>3, <2>1, <2>2
        <4> QED
          BY <1>1, <2>1, <4>1
      <3>3. s[i] # n
        <4>1. k # l => k + 1 \in 1..l /\ i # k + 1
          BY <1>1, <2>2
        <4> QED
          BY <1>1, <1>3, <2>1, <4>1
      <3>4. next2[r[i]] = IF i = Len(r) THEN Nil ELSE r[i + 1]
        <4>1. CASE i = k - 1
          <5>1. k = i + 1 /\ (k # l => k \in 1..(l - 1))
            BY <1>1, <4>1
          <5> QED
            BY <1>1, <1>3, <1>4, <1>5, <2>1, <3>1, <3>2, <4>1, <5>1
        <4>2. CASE i # k - 1
          <5>1. i + 1 < k /\ i + 1 \in 1..(l - 1) /\ i # l - 1
            BY <1>1, <2>2, <4>2
          <5>2. r[i + 1] = s[i + 1] /\ i # Len(r)
            BY <1>4, <5>1
          <5>3. next2[s[i]] = next[s[i]] /\ next[s[i]] = s[i + 1]
            BY <1>1, <1>2, <1>5, <2>1, <3>1, <3>2, <4>2, <5>1
          <5> QED
            BY <3>1, <5>2, <5>3
        <4> QED
          BY <4>1, <4>2
      <3>5. prev2[r[i]] = IF i = 1 THEN Nil ELSE r[i - 1]
        <4>1. prev2[r[i]] = IF i = 1 THEN Nil ELSE s[i - 1]
          BY <1>2, <1>5, <2>1, <3>1, <3>3
        <4>2. i # 1 => i - 1 \in 1..(l - 1) /\ i - 1 < k
          BY <1>1, <2>1, <2>2
        <4> QED
          BY <1>4, <4>1, <4>2
      <3> QED
        BY <3>4, <3>5
    <2>3. CASE ~(i < k)
      <3>1. r[i] = s[i + 1] /\ s[i + 1] \in Members(s) \ {s[k]}
        <4>1. i + 1 # k
          BY <1>1, <2>1, <2>3
        <4> QED
          BY <1>1, <1>4, <2>1, <2>3, <4>1
      <3>2. s[i + 1] = n <=> i = k
        <4>1. k # l /\ k + 1 \in 1..l /\ n = s[k + 1]
          BY <1>1, <1>3, <2>1, <2>3
        <4> QED
          BY <1>1, <2>1, <4>1
      <3>3. s[i + 1] # p
        <4>1. k # 1 => k - 1 \in 1..l /\ i + 1 # k - 1
          BY <1>1, <2>1, <2>3
        <4> QED
          BY <1>1, <1>3, <2>1, <4>1
      <3>4. next2[r[i]] = IF i = Len(r) THEN Nil ELSE r[i + 1]
        <4>1. next2[r[i]] = IF i + 1 = l THEN Nil ELSE s[i + 1 + 1]
          BY <1>2, <1>5, <2>1, <3>1, <3>3
        <4>2. i # Len(r) => i + 1 \in 1..(l - 1) /\ ~(i + 1 < k)
          BY <1>1, <1>4, <2>1, <2>3
        <4>3. i = Len(r) <=> i + 1 = l
          BY <1>1, <1>4, <2>1
        <4> QED
          BY <1>4, <4>1, <4>2, <4>3
      <3>5. prev2[r[i]] = IF i = 1 THEN Nil ELSE r[i - 1]
        <4>1. CASE i = k
          <5>1. k # 1 => k - 1 \in 1..(l - 1) /\ k - 1 < k
            BY <1>1
          <5> QED
            BY <1>3, <1>4, <1>5, <2>1, <3>1, <3>2, <4>1, <5>1
        <4>2. CASE i # k
          <5>1. i # 1 /\ i - 1 \in 1..(l - 1) /\ ~(i - 1 < k) /\ (i - 1) + 1 = i /\ (i + 1) - 1 = i
                /\ i + 1 # 1
            BY <1>1, <2>1, <2>3, <4>2
          <5>2. r[i - 1] = s[i]
            BY <1>4, <5>1
          <5>3. prev2[s[i + 1]] = prev[s[i + 1]]
            BY <1>5, <3>1, <3>2, <4>2
          <5>4. prev[s[i + 1]] = s[i]
            BY <1>2, <2>1, <5>1
          <5> QED
            BY <3>1, <5>1, <5>2, <5>3, <5>4
        <4> QED
          BY <4>1, <4>2
      <3> QED
        BY <3>4, <3>5
    <2> QED
      BY <2>2, <2>3
  <1>9. Linked(r, IF first = s[k] THEN n ELSE first, next2, prev2)
    BY <1>4, <1>6, <1>7, <1>8 DEF Linked
  <1>10. Members(r) = Members(s) \ {s[k]}
    <2>1. ASSUME NEW i \in 1..(l - 1) PROVE r[i] \in Members(s) \ {s[k]}
      <3>1. i \in 1..l /\ i + 1 \in 1..l
        BY <1>1
      <3>2. CASE i < k
        <4>1. i # k
          BY <1>1, <3>1, <3>2
        <4> QED
          BY <1>1, <1>4, <3>1, <3>2, <4>1
      <3>3. CASE ~(i < k)
        <4>1. i + 1 # k
          BY <1>1, <3>1, <3>3
        <4> QED
          BY <1>1, <1>4, <3>1, <3>3, <4>1
      <3> QED
        BY <3>2, <3>3
    <2>2. ASSUME NEW i \in 1..l, i # k PROVE \E j \in 1..(l - 1) : s[i] = r[j]
      <3>1. CASE i < k
        <4>1. i \in 1..(l - 1)
          BY <1>1, <3>1
        <4> QED
          BY <1>4, <3>1, <4>1
      <3>2. CASE ~(i < k)
        <4>1. i - 1 \in 1..(l - 1) /\ ~(i - 1 < k) /\ (i - 1) + 1 = i
          BY <1>1, <2>2, <3>2
        <4> QED
          BY <1>4, <4>1
      <3> QED
        BY <3>1, <3>2
    <2>3. Members(s) = {s[i] : i \in 1..l} /\ Members(r) = {r[i] : i \in 1..(l - 1)}
      BY <1>4 DEF Members, l
    <2> QED
      BY <2>1, <2>2, <2>3
  <1>11. l > 1 => r[l - 1] = IF s[l] = s[k] THEN p ELSE s[l]
    <2> SUFFICES ASSUME l > 1 PROVE r[l - 1] = IF s[l] = s[k] THEN p ELSE s[l]
      OBVIOUS
    <2>1. l - 1 \in 1..(l - 1) /\ (l - 1) + 1 = l /\ (l - 1 < k <=> k = l) /\ l # 1
      BY <1>1
    <2>2. s[l] = s[k] <=> k = l
      BY <1>1
    <2> QED
      BY <1>3, <1>4, <2>1, <2>2
  <1> QED
    BY <1>4, <1>9, <1>10, <1>11 DEF r, n, p, l

LEMMA Untouched ==
  ASSUME NEW s, NEW first, NEW next, NEW prev, Linked(s, first, next, prev),
         NEW next2, NEW prev2,
         \A x \in Members(s) : next2[x] = next[x] /\ prev2[x] = prev[x]
  PROVE  Linked(s, first, next2, prev2)
PROOF
  BY DEF Linked, Members

-----------------------------------------------------------------------------
(* The fields a table and its buckets have, whatever they hold.             *)
Shaped(tb) ==
  /\ DOMAIN tb = {"live", "buckets", "num_items", "tail", "ineff_expands", "noexpand"}
  /\ Len(tb.buckets) \in Nat \ {0} /\ DOMAIN tb.buckets = 1..Len(tb.buckets)
  /\ \A b \in 1..Len(tb.buckets) : DOMAIN tb.buckets[b] = {"hh_head", "count", "expand_mult"}

(* The buckets of a table hold the entries B, each in the chain of its      *)
(* bucket.                                                                  *)
ChainOf(b, tb, H) == Chain(HhNexts(H), tb.buckets[b].hh_head)
BucketHolds(s, b, tb, H, B) ==
  /\ Linked(s, tb.buckets[b].hh_head, HhNexts(H), HhPrevs(H))
  /\ tb.buckets[b].count = Len(s)
  /\ Members(s) = {e \in B : BktOf(H[e].key, tb.buckets) = b}
BucketsHold(tb, H, B) ==
  /\ Shaped(tb)
  /\ B \subseteq Elt /\ \A e \in B : H[e].key \in Key
  /\ \A b \in 1..Len(tb.buckets) : BucketHolds(ChainOf(b, tb, H), b, tb, H, B)

LEMMA InChain ==
  ASSUME NEW s, NEW b, NEW tb, NEW H, NEW B, BucketHolds(s, b, tb, H, B)
  PROVE  BucketHolds(ChainOf(b, tb, H), b, tb, H, B)
PROOF
  <1>1. ChainOf(b, tb, H) = s
    BY ChainOfLinked DEF BucketHolds, ChainOf
  <1> QED
    BY <1>1

LEMMA BktInRange ==
  ASSUME NEW key \in Key, NEW buckets, Len(buckets) \in Nat \ {0}
  PROVE  BktOf(key, buckets) \in 1..Len(buckets)
PROOF
  <1>1. PICK h \in Nat : h = Hash[key]
    BY HashTableAssumption
  <1>2. PICK n \in Nat \ {0} : n = Len(buckets)
    OBVIOUS
  <1>3. (h % n) + 1 \in 1..n
    OBVIOUS
  <1> QED
    BY <1>1, <1>2, <1>3 DEF BktOf

LEMMA PushedTable ==
  ASSUME NEW tb, Shaped(tb), NEW e, NEW b \in 1..Len(tb.buckets)
  PROVE  LET new == Pushed(e, b, tb) IN
         /\ Shaped(new) /\ Len(new.buckets) = Len(tb.buckets)
         /\ new.num_items = tb.num_items + 1 /\ new.tail = tb.tail /\ new.live = tb.live
         /\ new.buckets[b].count = tb.buckets[b].count + 1 /\ new.buckets[b].hh_head = e
         /\ \A c \in 1..Len(tb.buckets) : c # b => new.buckets[c] = tb.buckets[c]
PROOF
  <1> DEFINE new == Pushed(e, b, tb)
             bkt == [tb.buckets[b] EXCEPT !.count = @ + 1, !.hh_head = e]
             bs  == [tb.buckets EXCEPT ![b] = bkt]
  <1>1. /\ DOMAIN bkt = {"hh_head", "count", "expand_mult"}
        /\ bkt.count = tb.buckets[b].count + 1 /\ bkt.hh_head = e
    BY DEF Shaped
  <1>2. /\ new.buckets = bs /\ DOMAIN new = DOMAIN tb
        /\ new.num_items = tb.num_items + 1 /\ new.tail = tb.tail /\ new.live = tb.live
    BY DEF Shaped, Pushed
  <1> HIDE DEF bkt, new
  <1>3. /\ DOMAIN bs = 1..Len(tb.buckets) /\ bs[b] = bkt
        /\ \A c \in 1..Len(tb.buckets) : c # b => bs[c] = tb.buckets[c]
    BY DEF Shaped
  <1> HIDE DEF bs
  <1>4. Len(bs) = Len(tb.buckets)
    BY <1>3 DEF Shaped
  <1>5. \A c \in 1..Len(tb.buckets) : DOMAIN bs[c] = {"hh_head", "count", "expand_mult"}
    BY <1>1, <1>3 DEF Shaped
  <1>6. Shaped(new)
    BY <1>2, <1>3, <1>4, <1>5 DEF Shaped
  <1> QED
    BY <1>1, <1>2, <1>3, <1>4, <1>6 DEF new

LEMMA PushedHandles ==
  ASSUME NEW H \in [Elt -> Handle], NEW e \in Elt, NEW old \in Elt \cup {Nil}, old # e
  PROVE  LET new == PushedLinks(e, old, H) IN
         /\ new \in [Elt -> Handle]
         /\ Nexts(new) = Nexts(H) /\ Prevs(new) = Prevs(H)
         /\ \A x \in Elt : /\ new[x].key = H[x].key /\ new[x].tbl = H[x].tbl
                           /\ new[x].live = H[x].live
         /\ \A x \in Elt : /\ HhNexts(new)[x] = IF x = e THEN old ELSE HhNexts(H)[x]
                           /\ HhPrevs(new)[x] = IF x = e THEN Nil ELSE
                                                IF x = old THEN e ELSE HhPrevs(H)[x]
PROOF
  <1> DEFINE new == PushedLinks(e, old, H)
  <1>1. ASSUME NEW x \in Elt
        PROVE  /\ new[x] \in Handle /\ new[x].next = H[x].next /\ new[x].prev = H[x].prev
               /\ new[x].key = H[x].key /\ new[x].tbl = H[x].tbl /\ new[x].live = H[x].live
               /\ new[x].hh_next = IF x = e THEN old ELSE H[x].hh_next
               /\ new[x].hh_prev = IF x = e THEN Nil ELSE IF x = old THEN e ELSE H[x].hh_prev
    <2>1. H[x] \in Handle
      OBVIOUS
    <2>2. CASE x = e
      <3>1. new[x] = [H[x] EXCEPT !.hh_prev = Nil, !.hh_next = old]
        BY <2>2 DEF PushedLinks
      <3> QED
        BY <2>1, <2>2, <3>1 DEF Handle
    <2>3. CASE x = old
      <3>1. new[x] = [H[x] EXCEPT !.hh_prev = e]
        BY <2>3 DEF PushedLinks
      <3> QED
        BY <2>1, <2>3, <3>1 DEF Handle
    <2>4. CASE x # e /\ x # old
      <3>1. new[x] = H[x]
        BY <2>4 DEF PushedLinks
      <3> QED
        BY <2>1, <2>4, <3>1
    <2> QED
      BY <2>2, <2>3, <2>4
  <1>2. new = [x \in Elt |-> new[x]]
    BY DEF PushedLinks
  <1> HIDE DEF new
  <1>3. new \in [Elt -> Handle]
    BY <1>1, <1>2
  <1> QED
    BY <1>1, <1>3 DEF new, Nexts, Prevs, HhNexts, HhPrevs

(* HASH_ADD_TO_BKT                                                          *)
PushInto(tb, H, B, e, b, old) ==
  /\ H \in [Elt -> Handle] /\ BucketsHold(tb, H, B)
  /\ e \in Elt \ B /\ H[e].key \in Key
  /\ b = BktOf(H[e].key, tb.buckets) /\ old = tb.buckets[b].hh_head

LEMMA BucketPushed ==
  ASSUME NEW tb, NEW H, NEW B, NEW e, NEW b, NEW old, PushInto(tb, H, B, e, b, old)
  PROVE  /\ b \in 1..Len(tb.buckets) /\ old \in Elt \cup {Nil} /\ old # e
         /\ BucketsHold(Pushed(e, b, tb), PushedLinks(e, old, H), B \cup {e})
PROOF
  <1> SUFFICES ASSUME H \in [Elt -> Handle], BucketsHold(tb, H, B),
                      e \in Elt \ B, H[e].key \in Key,
                      b = BktOf(H[e].key, tb.buckets), old = tb.buckets[b].hh_head
               PROVE  /\ b \in 1..Len(tb.buckets) /\ old \in Elt \cup {Nil} /\ old # e
                      /\ BucketsHold(Pushed(e, b, tb), PushedLinks(e, old, H), B \cup {e})
    BY DEF PushInto
  <1> DEFINE tb2 == Pushed(e, b, tb)
             H2  == PushedLinks(e, old, H)
             s   == ChainOf(b, tb, H)
             B2  == B \cup {e}
  <1>1. b \in 1..Len(tb.buckets) /\ Shaped(tb)
    BY BktInRange DEF BucketsHold, Shaped
  <1>2. BucketHolds(s, b, tb, H, B)
    BY <1>1 DEF BucketsHold
  <1>3. e \notin Members(s) /\ (old = Nil \/ old \in Members(s)) /\ Members(s) \subseteq Elt
    <2>1. Linked(s, old, HhNexts(H), HhPrevs(H))
      BY <1>2 DEF BucketHolds
    <2>2. old = Nil \/ old \in Members(s)
      BY <2>1 DEF Linked, Members
    <2> QED
      BY <1>2, <2>2 DEF BucketHolds, BucketsHold
  <1>4. old \in Elt \cup {Nil} /\ old # e
    BY <1>3, HashTableAssumption
  <1> HIDE DEF tb2, H2, s
  <1>5. /\ Shaped(tb2) /\ Len(tb2.buckets) = Len(tb.buckets)
        /\ tb2.buckets[b].count = tb.buckets[b].count + 1 /\ tb2.buckets[b].hh_head = e
        /\ \A c \in 1..Len(tb.buckets) : c # b => tb2.buckets[c] = tb.buckets[c]
    BY <1>1, PushedTable DEF tb2
  <1>6. /\ \A x \in Elt : H2[x].key = H[x].key
        /\ \A x \in Elt : /\ HhNexts(H2)[x] = IF x = e THEN old ELSE HhNexts(H)[x]
                          /\ HhPrevs(H2)[x] = IF x = e THEN Nil ELSE
                                               IF x = old THEN e ELSE HhPrevs(H)[x]
    <2>1. H \in [Elt -> Handle] /\ e \in Elt /\ old \in Elt \cup {Nil} /\ old # e
      BY <1>4
    <2> QED
      BY <2>1, PushedHandles DEF H2
  <1>7. \A x \in Elt : BktOf(H2[x].key, tb2.buckets) = BktOf(H[x].key, tb.buckets)
    BY <1>5, <1>6 DEF BktOf
  <1>8. BucketHolds(<<e>> \o s, b, tb2, H2, B2)
    <2>1. Linked(s, old, HhNexts(H), HhPrevs(H)) /\ Len(s) = tb.buckets[b].count
      BY <1>2 DEF BucketHolds
    <2>2. /\ HhNexts(H2)[e] = old /\ HhPrevs(H2)[e] = Nil
          /\ \A x \in Members(s) : /\ HhNexts(H2)[x] = HhNexts(H)[x]
                                   /\ HhPrevs(H2)[x] = IF x = old THEN e ELSE HhPrevs(H)[x]
      BY <1>3, <1>6
    <2>3. /\ Linked(<<e>> \o s, e, HhNexts(H2), HhPrevs(H2))
          /\ Members(<<e>> \o s) = Members(s) \cup {e} /\ Len(<<e>> \o s) = Len(s) + 1
      <3>1. e \in Elt \ Members(s)
        BY <1>3
      <3> DEFINE next == HhNexts(H)
                 prev == HhPrevs(H)
                 next2 == HhNexts(H2)
                 prev2 == HhPrevs(H2)
      <3> HIDE DEF next, prev, next2, prev2
      <3>2. /\ Linked(s, old, next, prev) /\ next2[e] = old /\ prev2[e] = Nil
            /\ \A x \in Members(s) : /\ next2[x] = next[x]
                                     /\ prev2[x] = IF x = old THEN e ELSE prev[x]
        BY <2>1, <2>2 DEF next, prev, next2, prev2
      <3> QED
        BY <3>1, <3>2, PushedFirst DEF next2, prev2
    <2>4. Members(s) \cup {e} = {x \in B2 : BktOf(H2[x].key, tb2.buckets) = b}
      BY <1>2, <1>7 DEF BucketHolds, BucketsHold
    <2> QED
      BY <1>5, <2>1, <2>3, <2>4 DEF BucketHolds
  <1>9. ASSUME NEW c \in 1..Len(tb.buckets), c # b
        PROVE  BucketHolds(ChainOf(c, tb, H), c, tb2, H2, B2)
    <2> DEFINE r == ChainOf(c, tb, H)
    <2>1. BucketHolds(r, c, tb, H, B)
      BY DEF BucketsHold
    <2> HIDE DEF r
    <2>2. Members(r) \subseteq Elt /\ e \notin Members(r) /\ old \notin Members(r)
      BY <1>2, <1>3, <1>9, <2>1, HashTableAssumption DEF BucketHolds, BucketsHold
    <2>3. \A x \in Members(r) : /\ HhNexts(H2)[x] = HhNexts(H)[x]
                                /\ HhPrevs(H2)[x] = HhPrevs(H)[x]
      BY <1>6, <2>2
    <2>4. Linked(r, tb.buckets[c].hh_head, HhNexts(H2), HhPrevs(H2))
      BY <2>1, <2>3, Untouched DEF BucketHolds
    <2>5. Members(r) = {x \in B2 : BktOf(H2[x].key, tb2.buckets) = c}
      BY <1>7, <1>9, <2>1 DEF BucketHolds, BucketsHold
    <2>6. BucketHolds(r, c, tb2, H2, B2)
      BY <1>5, <1>9, <2>1, <2>4, <2>5 DEF BucketHolds
    <2> QED
      BY <2>6 DEF r
  <1>10. \A c \in 1..Len(tb2.buckets) : BucketHolds(ChainOf(c, tb2, H2), c, tb2, H2, B2)
    BY <1>5, <1>8, <1>9, InChain
  <1>11. B2 \subseteq Elt /\ \A x \in B2 : H2[x].key \in Key
    BY <1>6 DEF BucketsHold
  <1> QED
    BY <1>1, <1>4, <1>5, <1>10, <1>11 DEF BucketsHold, tb2, H2

(* HASH_DEL_IN_BKT                                                          *)
FreedLinks(e, p, n, H) ==
  [x \in Elt |-> CASE x = e -> Unused
                   [] x = p -> [H[x] EXCEPT !.hh_next = n]
                   [] x = n -> [H[x] EXCEPT !.hh_prev = p]
                   [] OTHER -> H[x]]

LEMMA TakenTable ==
  ASSUME NEW tb, Shaped(tb), NEW e, NEW n, NEW b \in 1..Len(tb.buckets)
  PROVE  LET new == Taken(e, b, n, tb) IN
         /\ Shaped(new) /\ Len(new.buckets) = Len(tb.buckets)
         /\ new.num_items = tb.num_items - 1 /\ new.tail = tb.tail /\ new.live = tb.live
         /\ new.buckets[b].count = tb.buckets[b].count - 1
         /\ new.buckets[b].hh_head = IF tb.buckets[b].hh_head = e THEN n
                                     ELSE tb.buckets[b].hh_head
         /\ \A c \in 1..Len(tb.buckets) : c # b => new.buckets[c] = tb.buckets[c]
PROOF
  <1> DEFINE new == Taken(e, b, n, tb)
             bkt == [tb.buckets[b] EXCEPT !.count = @ - 1, !.hh_head = IF @ = e THEN n ELSE @]
             bs  == [tb.buckets EXCEPT ![b] = bkt]
  <1>1. /\ DOMAIN bkt = {"hh_head", "count", "expand_mult"}
        /\ bkt.count = tb.buckets[b].count - 1
        /\ bkt.hh_head = IF tb.buckets[b].hh_head = e THEN n ELSE tb.buckets[b].hh_head
    BY DEF Shaped
  <1>2. /\ new.buckets = bs /\ DOMAIN new = DOMAIN tb
        /\ new.num_items = tb.num_items - 1 /\ new.tail = tb.tail /\ new.live = tb.live
    BY DEF Shaped, Taken
  <1> HIDE DEF bkt, new
  <1>3. /\ DOMAIN bs = 1..Len(tb.buckets) /\ bs[b] = bkt
        /\ \A c \in 1..Len(tb.buckets) : c # b => bs[c] = tb.buckets[c]
    BY DEF Shaped
  <1> HIDE DEF bs
  <1>4. Len(bs) = Len(tb.buckets)
    BY <1>3 DEF Shaped
  <1>5. \A c \in 1..Len(tb.buckets) : DOMAIN bs[c] = {"hh_head", "count", "expand_mult"}
    BY <1>1, <1>3 DEF Shaped
  <1>6. Shaped(new)
    BY <1>2, <1>3, <1>4, <1>5 DEF Shaped
  <1> QED
    BY <1>1, <1>2, <1>3, <1>4, <1>6 DEF new

(* What becomes of another entry x of the table.                            *)
FreedBeside(new, H, x, p, n) ==
  /\ new[x] \in Handle
  /\ new[x].key = H[x].key /\ new[x].tbl = H[x].tbl /\ new[x].live = H[x].live
  /\ Nexts(new)[x] = Nexts(H)[x] /\ Prevs(new)[x] = Prevs(H)[x]
  /\ HhNexts(new)[x] = IF x = p THEN n ELSE HhNexts(H)[x]
  /\ HhPrevs(new)[x] = IF x = n THEN p ELSE HhPrevs(H)[x]

LEMMA FreedHandle ==
  ASSUME NEW H \in [Elt -> Handle], NEW e \in Elt,
         NEW p \in Elt \cup {Nil}, NEW n \in Elt \cup {Nil}, p = n => p = Nil,
         NEW x \in Elt, x # e
  PROVE  FreedBeside(FreedLinks(e, p, n, H), H, x, p, n)
PROOF
  <1> DEFINE new == FreedLinks(e, p, n, H)
  <1>1. H[x] \in Handle /\ x # Nil
    BY HashTableAssumption
  <1>2. /\ new[x] \in Handle /\ new[x].next = H[x].next /\ new[x].prev = H[x].prev
        /\ new[x].key = H[x].key /\ new[x].tbl = H[x].tbl /\ new[x].live = H[x].live
        /\ new[x].hh_next = IF x = p THEN n ELSE H[x].hh_next
        /\ new[x].hh_prev = IF x = n THEN p ELSE H[x].hh_prev
    <2>1. CASE x = p
      <3>1. new[x] = [H[x] EXCEPT !.hh_next = n] /\ x # n
        BY <1>1, <2>1 DEF FreedLinks
      <3> QED
        BY <1>1, <2>1, <3>1 DEF Handle
    <2>2. CASE x # p /\ x = n
      <3>1. new[x] = [H[x] EXCEPT !.hh_prev = p]
        BY <2>2 DEF FreedLinks
      <3> QED
        BY <1>1, <2>2, <3>1 DEF Handle
    <2>3. CASE x # p /\ x # n
      <3>1. new[x] = H[x]
        BY <2>3 DEF FreedLinks
      <3> QED
        BY <1>1, <2>3, <3>1
    <2> QED
      BY <2>1, <2>2, <2>3
  <1> QED
    BY <1>2 DEF FreedBeside, Nexts, Prevs, HhNexts, HhPrevs

LEMMA FreedHandles ==
  ASSUME NEW H \in [Elt -> Handle], NEW e \in Elt,
         NEW p \in Elt \cup {Nil}, NEW n \in Elt \cup {Nil}, p # e, n # e, p = n => p = Nil
  PROVE  FreedLinks(e, p, n, H) \in [Elt -> Handle] /\ FreedLinks(e, p, n, H)[e] = Unused
PROOF
  <1> DEFINE new == FreedLinks(e, p, n, H)
  <1>1. new[e] = Unused /\ new = [x \in Elt |-> new[x]]
    BY DEF FreedLinks
  <1>2. Unused \in Handle
    BY DEF Unused, Handle
  <1> HIDE DEF new
  <1>3. ASSUME NEW x \in Elt, x # e PROVE new[x] \in Handle
    <2>1. FreedBeside(new, H, x, p, n)
      BY <1>3, FreedHandle DEF new
    <2> QED
      BY <2>1 DEF FreedBeside
  <1>4. new \in [Elt -> Handle]
    BY <1>1, <1>2, <1>3
  <1> QED
    BY <1>1, <1>4 DEF new

TakeOutOf(tb, H, B, e, b, p, n) ==
  /\ H \in [Elt -> Handle] /\ BucketsHold(tb, H, B) /\ e \in B
  /\ b = BktOf(H[e].key, tb.buckets) /\ p = H[e].hh_prev /\ n = H[e].hh_next

LEMMA BucketTaken ==
  ASSUME NEW tb, NEW H, NEW B, NEW e, NEW b, NEW p, NEW n, TakeOutOf(tb, H, B, e, b, p, n)
  PROVE  /\ b \in 1..Len(tb.buckets)
         /\ p \in Elt \cup {Nil} /\ n \in Elt \cup {Nil}
         /\ p # e /\ n # e /\ (p = n => p = Nil)
         /\ BucketsHold(Taken(e, b, n, tb), FreedLinks(e, p, n, H), B \ {e})
PROOF
  <1> SUFFICES ASSUME H \in [Elt -> Handle], BucketsHold(tb, H, B), e \in B,
                      b = BktOf(H[e].key, tb.buckets), p = H[e].hh_prev, n = H[e].hh_next
               PROVE  /\ b \in 1..Len(tb.buckets)
                      /\ p \in Elt \cup {Nil} /\ n \in Elt \cup {Nil}
                      /\ p # e /\ n # e /\ (p = n => p = Nil)
                      /\ BucketsHold(Taken(e, b, n, tb), FreedLinks(e, p, n, H), B \ {e})
    BY DEF TakeOutOf
  <1> DEFINE tb2 == Taken(e, b, n, tb)
             H2  == FreedLinks(e, p, n, H)
             s   == ChainOf(b, tb, H)
             B2  == B \ {e}
  <1>1. b \in 1..Len(tb.buckets) /\ Shaped(tb) /\ e \in Elt
    BY BktInRange DEF BucketsHold, Shaped
  <1>2. BucketHolds(s, b, tb, H, B)
    BY <1>1 DEF BucketsHold
  <1>3. /\ e \in Members(s) /\ Members(s) \subseteq Elt
        /\ Linked(s, tb.buckets[b].hh_head, HhNexts(H), HhPrevs(H))
    BY <1>1, <1>2 DEF BucketHolds, BucketsHold
  <1> HIDE DEF tb2, H2, s
  <1>4. PICK k \in 1..Len(s) : s[k] = e
    BY <1>3 DEF Members
  <1>5. p = HhPrevs(H)[s[k]] /\ n = HhNexts(H)[s[k]]
    BY <1>1, <1>4 DEF HhPrevs, HhNexts
  <1>6. /\ n = IF k = Len(s) THEN Nil ELSE s[k + 1]
        /\ p = IF k = 1 THEN Nil ELSE s[k - 1]
    BY <1>3, <1>4, <1>5 DEF Linked
  <1>7. /\ n = Nil \/ (n \in Members(s) /\ n # e)
        /\ p = Nil \/ (p \in Members(s) /\ p # e)
        /\ p = n => p = Nil
    <2>1. k \in Nat /\ Len(s) \in Nat /\ k <= Len(s) /\ k >= 1
      BY <1>3, <1>4 DEF Linked
    <2>2. k # Len(s) => k + 1 \in 1..Len(s) /\ k + 1 # k
      BY <2>1
    <2>3. k # 1 => k - 1 \in 1..Len(s) /\ k - 1 # k
      BY <2>1
    <2>4. \A i, j \in 1..Len(s) : s[i] = s[j] => i = j
      BY <1>3 DEF Linked
    <2>5. \A i \in 1..Len(s) : s[i] \in Members(s)
      BY DEF Members
    <2>6. n = Nil \/ (n \in Members(s) /\ n # e)
      BY <1>4, <1>6, <2>2, <2>4, <2>5
    <2>7. p = Nil \/ (p \in Members(s) /\ p # e)
      BY <1>4, <1>6, <2>3, <2>4, <2>5
    <2>8. ASSUME p = n, p # Nil PROVE FALSE
      <3>1. s[k - 1] = s[k + 1] /\ k - 1 \in 1..Len(s) /\ k + 1 \in 1..Len(s)
        BY <1>6, <2>2, <2>3, <2>8
      <3>2. k - 1 = k + 1
        BY <2>4, <3>1
      <3> QED
        BY <2>1, <3>2
    <2> QED
      BY <2>6, <2>7, <2>8
  <1>8. /\ p \in Elt \cup {Nil} /\ n \in Elt \cup {Nil} /\ p # e /\ n # e
        /\ p = n => p = Nil
    BY <1>1, <1>3, <1>7, HashTableAssumption
  <1>9. /\ Shaped(tb2) /\ Len(tb2.buckets) = Len(tb.buckets)
        /\ tb2.buckets[b].count = tb.buckets[b].count - 1
        /\ tb2.buckets[b].hh_head = IF tb.buckets[b].hh_head = e THEN n
                                     ELSE tb.buckets[b].hh_head
        /\ \A c \in 1..Len(tb.buckets) : c # b => tb2.buckets[c] = tb.buckets[c]
    BY <1>1, TakenTable DEF tb2
  <1>10. \A x \in Elt \ {e} : /\ H2[x].key = H[x].key
                              /\ HhNexts(H2)[x] = IF x = p THEN n ELSE HhNexts(H)[x]
                              /\ HhPrevs(H2)[x] = IF x = n THEN p ELSE HhPrevs(H)[x]
    <2> SUFFICES ASSUME NEW x \in Elt, x # e
                 PROVE  /\ H2[x].key = H[x].key
                        /\ HhNexts(H2)[x] = IF x = p THEN n ELSE HhNexts(H)[x]
                        /\ HhPrevs(H2)[x] = IF x = n THEN p ELSE HhPrevs(H)[x]
      OBVIOUS
    <2>1. FreedBeside(H2, H, x, p, n)
      BY <1>1, <1>8, FreedHandle DEF H2
    <2> QED
      BY <2>1 DEF FreedBeside
  <1>11. \A x \in Elt \ {e} : BktOf(H2[x].key, tb2.buckets) = BktOf(H[x].key, tb.buckets)
    BY <1>9, <1>10 DEF BktOf
  <1>12. BucketHolds(Without(s, k), b, tb2, H2, B2)
    <2>1. \A x \in Members(s) \ {s[k]} :
            /\ HhNexts(H2)[x] = IF x = HhPrevs(H)[s[k]] THEN HhNexts(H)[s[k]] ELSE HhNexts(H)[x]
            /\ HhPrevs(H2)[x] = IF x = HhNexts(H)[s[k]] THEN HhPrevs(H)[s[k]] ELSE HhPrevs(H)[x]
      BY <1>3, <1>4, <1>5, <1>10
    <2>2. /\ Linked(Without(s, k), IF tb.buckets[b].hh_head = s[k] THEN HhNexts(H)[s[k]]
                                   ELSE tb.buckets[b].hh_head, HhNexts(H2), HhPrevs(H2))
          /\ Members(Without(s, k)) = Members(s) \ {s[k]} /\ Len(Without(s, k)) = Len(s) - 1
      BY <1>3, <2>1, TakenOut
    <2>3. Linked(Without(s, k), tb2.buckets[b].hh_head, HhNexts(H2), HhPrevs(H2))
      BY <1>4, <1>5, <1>9, <2>2
    <2>4. Members(Without(s, k)) = {x \in B2 : BktOf(H2[x].key, tb2.buckets) = b}
      BY <1>2, <1>4, <1>11, <2>2 DEF BucketHolds, BucketsHold
    <2> QED
      BY <1>2, <1>9, <2>2, <2>3, <2>4 DEF BucketHolds
  <1>13. ASSUME NEW c \in 1..Len(tb.buckets), c # b
         PROVE  BucketHolds(ChainOf(c, tb, H), c, tb2, H2, B2)
    <2> DEFINE r == ChainOf(c, tb, H)
    <2>1. BucketHolds(r, c, tb, H, B)
      BY DEF BucketsHold
    <2> HIDE DEF r
    <2>2. Members(r) \cap Members(s) = {} /\ Members(r) \subseteq Elt
      BY <1>2, <1>13, <2>1 DEF BucketHolds, BucketsHold
    <2>3. e \notin Members(r) /\ p \notin Members(r) /\ n \notin Members(r)
      BY <1>3, <1>7, <2>2, HashTableAssumption
    <2>4. \A x \in Members(r) : /\ HhNexts(H2)[x] = HhNexts(H)[x]
                                /\ HhPrevs(H2)[x] = HhPrevs(H)[x]
      BY <1>10, <2>2, <2>3
    <2>5. Linked(r, tb.buckets[c].hh_head, HhNexts(H2), HhPrevs(H2))
      BY <2>1, <2>4, Untouched DEF BucketHolds
    <2>6. Members(r) = {x \in B2 : BktOf(H2[x].key, tb2.buckets) = c}
      BY <1>11, <2>1, <2>3 DEF BucketHolds, BucketsHold
    <2>7. BucketHolds(r, c, tb2, H2, B2)
      BY <1>9, <1>13, <2>1, <2>5, <2>6 DEF BucketHolds
    <2> QED
      BY <2>7 DEF r
  <1>14. \A c \in 1..Len(tb2.buckets) : BucketHolds(ChainOf(c, tb2, H2), c, tb2, H2, B2)
    BY <1>9, <1>12, <1>13, InChain
  <1>15. B2 \subseteq Elt /\ \A x \in B2 : H2[x].key \in Key
    BY <1>10 DEF BucketsHold
  <1> QED
    BY <1>1, <1>8, <1>9, <1>14, <1>15 DEF BucketsHold, tb2, H2

-----------------------------------------------------------------------------
(* HASH_EXPAND_BUCKETS: the chains that have been filled with the entries A *)
(* so far.                                                                  *)
Filled(chains, H, A) ==
  /\ chains \in [1..Len(chains) -> Seq(Elt)] /\ Len(chains) \in Nat \ {0}
  /\ \A b \in 1..Len(chains) :
       /\ \A i, j \in 1..Len(chains[b]) : chains[b][i] = chains[b][j] => i = j
       /\ Members(chains[b]) = {e \in A : BktOf(H[e].key, chains) = b}

Put(chains, b, e) == [chains EXCEPT ![b] = <<e>> \o @]

LEMMA PutFirst ==
  ASSUME NEW H, NEW A, NEW chains, Filled(chains, H, A),
         NEW e \in Elt, e \notin A, H[e].key \in Key
  PROVE  /\ Filled(Put(chains, BktOf(H[e].key, chains), e), H, A \cup {e})
         /\ Len(Put(chains, BktOf(H[e].key, chains), e)) = Len(chains)
PROOF
  <1> DEFINE b   == BktOf(H[e].key, chains)
             new == Put(chains, b, e)
             n == Len(chains)
             s == chains[b]
             r == <<e>> \o s
  <1>1. n \in Nat \ {0} /\ chains \in [1..n -> Seq(Elt)] /\ b \in 1..n
    BY BktInRange DEF Filled
  <1>0. b = BktOf(H[e].key, chains)
    OBVIOUS
  <1> HIDE DEF b
  <1>2. /\ s \in Seq(Elt) /\ Len(s) \in Nat /\ e \notin Members(s)
        /\ \A i, j \in 1..Len(s) : s[i] = s[j] => i = j
        /\ Members(s) = {x \in A : BktOf(H[x].key, chains) = b}
    BY <1>0, <1>1 DEF Filled
  <1> HIDE DEF s
  <1>3. /\ r \in Seq(Elt) /\ Len(r) = Len(s) + 1
        /\ \A i \in 1..(Len(s) + 1) : r[i] = IF i = 1 THEN e ELSE s[i - 1]
        /\ \A i \in 1..Len(s) : r[i + 1] = s[i]
    BY <1>2, PushedSequence
  <1>4. new = [chains EXCEPT ![b] = r]
    BY <1>1 DEF s, Put
  <1> HIDE DEF r, new
  <1>5. /\ new \in [1..n -> Seq(Elt)] /\ new[b] = r
        /\ \A c \in 1..n : c # b => new[c] = chains[c]
    BY <1>1, <1>3, <1>4
  <1>6. Len(new) = n
    BY <1>1, <1>5
  <1>7. \A x : BktOf(H[x].key, new) = BktOf(H[x].key, chains)
    BY <1>6 DEF BktOf
  <1>8. \A i, j \in 1..Len(r) : r[i] = r[j] => i = j
    <2> SUFFICES ASSUME NEW i \in 1..Len(r), NEW j \in 1..Len(r), r[i] = r[j] PROVE i = j
      OBVIOUS
    <2>1. i # 1 => i - 1 \in 1..Len(s) /\ r[i] = s[i - 1] /\ s[i - 1] \in Members(s)
      BY <1>2, <1>3 DEF Members
    <2>2. j # 1 => j - 1 \in 1..Len(s) /\ r[j] = s[j - 1] /\ s[j - 1] \in Members(s)
      BY <1>2, <1>3 DEF Members
    <2>3. i # 1 /\ j # 1 => i - 1 = j - 1
      BY <1>2, <2>1, <2>2
    <2>4. r[1] = e /\ i \in Nat /\ j \in Nat
      BY <1>2, <1>3
    <2> QED
      BY <1>2, <2>1, <2>2, <2>3, <2>4
  <1>9. Members(r) = Members(s) \cup {e}
    <2>1. ASSUME NEW i \in 1..Len(r) PROVE r[i] \in Members(s) \cup {e}
      <3>1. i # 1 => i - 1 \in 1..Len(s) /\ r[i] = s[i - 1]
        BY <1>2, <1>3
      <3> QED
        BY <1>2, <1>3, <3>1 DEF Members
    <2>2. ASSUME NEW i \in 1..Len(s) PROVE \E j \in 1..Len(r) : r[j] = s[i]
      <3>1. i + 1 \in 1..Len(r)
        BY <1>2, <1>3
      <3> QED
        BY <1>3, <3>1
    <2>3. 1 \in 1..Len(r) /\ r[1] = e
      BY <1>2, <1>3
    <2> QED
      BY <2>1, <2>2, <2>3 DEF Members
  <1>10. Members(r) = {x \in A \cup {e} : BktOf(H[x].key, new) = b}
    BY <1>0, <1>2, <1>7, <1>9
  <1>11. ASSUME NEW c \in 1..n, c # b
         PROVE  Members(chains[c]) = {x \in A \cup {e} : BktOf(H[x].key, new) = c}
    BY <1>0, <1>7, <1>11 DEF Filled
  <1>12. ASSUME NEW c \in 1..n
         PROVE  /\ \A i, j \in 1..Len(new[c]) : new[c][i] = new[c][j] => i = j
                /\ Members(new[c]) = {x \in A \cup {e} : BktOf(H[x].key, new) = c}
    <2>1. CASE c = b
      <3>1. new[c] = r /\ Members(r) = {x \in A \cup {e} : BktOf(H[x].key, new) = c}
        BY <1>5, <1>10, <2>1
      <3>2. \A i, j \in 1..Len(new[c]) : new[c][i] = new[c][j] => i = j
        BY <1>8, <3>1
      <3>3. Members(new[c]) = {x \in A \cup {e} : BktOf(H[x].key, new) = c}
        BY <3>1
      <3> QED
        BY <3>2, <3>3
    <2>2. CASE c # b
      BY <1>5, <1>11, <2>2 DEF Filled
    <2> QED
      BY <2>1, <2>2
  <1> QED
    BY <1>1, <1>5, <1>6, <1>12 DEF Filled, new, b

(* The inner loop, over one of the old chains, step by step.                *)
EmptiedBy(into, chain, H, chains, n) ==
  /\ into \in [0..Len(chain) -> [1..n -> Seq(Elt)]]
  /\ into[0] = chains /\ Emptied(chain, H, chains) = into[Len(chain)]
  /\ \A i \in 1..Len(chain) :
       into[i] = Put(into[i - 1], BktOf(H[chain[i]].key, chains), chain[i])

LEMMA EmptiedSteps ==
  ASSUME NEW H, NEW chain \in Seq(Elt), \A i \in 1..Len(chain) : H[chain[i]].key \in Key,
         NEW n \in Nat \ {0}, NEW chains \in [1..n -> Seq(Elt)]
  PROVE  \E into : EmptiedBy(into, chain, H, chains, n)
PROOF
  <1> DEFINE V    == [1..n -> Seq(Elt)]
             m    == Len(chain)
             b(i) == BktOf(H[chain[i]].key, chains)
             Step(i, v) == Put(v, b(i), chain[i])
             F    == [i \in 1..m |-> [v \in V |-> Step(i, v)]]
             Def(f) == [i \in 0..m |-> IF i = 0 THEN chains ELSE Step(i, f[i - 1])]
             into == CHOOSE f : f = Def(f)
  <1>1. m \in Nat /\ Len(chains) = n
    OBVIOUS
  <1>2. ASSUME NEW i \in 1..m, NEW v \in V PROVE Step(i, v) \in V
    <2>1. b(i) \in 1..n
      BY <1>1, BktInRange
    <2>2. <<chain[i]>> \o v[b(i)] \in Seq(Elt)
      BY <2>1, PushedSequence
    <2> HIDE DEF b
    <2> QED
      BY <2>1, <2>2 DEF Put
  <1> HIDE DEF Step, V, b
  <1>3. F \in [1..m -> [V -> V]]
    BY <1>2
  <1>4. PICK f \in [0..m -> V] : f[0] = chains /\ \A i \in 1..m : f[i] = F[i][f[i - 1]]
    <2>1. chains \in V /\ StepsOf(F, V, m)
      BY <1>3 DEF V, StepsOf
    <2> HIDE DEF F, m
    <2>2. \E f : Computes(f, F, V, chains, m)
      BY <1>1, <2>1, Recursion
    <2> QED
      BY <2>2 DEF Computes
  <1>5. \A i \in 1..m : f[i - 1] \in V /\ f[i] = Step(i, f[i - 1])
    <2> SUFFICES ASSUME NEW i \in 1..m PROVE f[i - 1] \in V /\ f[i] = Step(i, f[i - 1])
      OBVIOUS
    <2>1. i - 1 \in 0..m
      BY <1>1
    <2> QED
      BY <1>4, <2>1
  <1>6. f = Def(f)
    <2>1. \A i \in 0..m : f[i] = IF i = 0 THEN chains ELSE Step(i, f[i - 1])
      BY <1>1, <1>4, <1>5
    <2> QED
      BY <1>4, <2>1
  <1>7. into = Def(into)
    BY <1>6
  <1>8. Emptied(chain, H, chains) = into[m]
    BY DEF Emptied, Put, Step, b
  <1> HIDE DEF into
  <1>9. into[0] = chains /\ \A i \in 1..m : into[i] = Step(i, into[i - 1])
    <2>1. 0 \in 0..m /\ \A i \in 1..m : i \in 0..m /\ i # 0
      BY <1>1
    <2>2. \A i \in 0..m : Def(into)[i] = IF i = 0 THEN chains ELSE Step(i, into[i - 1])
      OBVIOUS
    <2> QED
      BY <1>7, <2>1, <2>2
  <1>10. \A i \in 0..m : into[i] \in V
    <2> DEFINE S == {i \in Nat : into[i] \in V}
    <2>1. 0 \in S
      BY <1>9 DEF V
    <2>2. ASSUME NEW i \in 0..(m - 1), i \in S PROVE i + 1 \in S
      <3>1. i + 1 \in 1..m /\ (i + 1) - 1 = i
        BY <1>1
      <3> QED
        BY <1>2, <1>9, <2>2, <3>1
    <2> HIDE DEF S, m
    <2>3. \A i \in 0..m : i \in S
      BY <1>1, <2>1, <2>2, UpTo
    <2> QED
      BY <2>3 DEF S
  <1>11. into \in [0..m -> V]
    <2>1. into = [i \in 0..m |-> into[i]]
      BY <1>7
    <2> QED
      BY <1>10, <2>1
  <1> QED
    BY <1>8, <1>9, <1>11 DEF EmptiedBy, Step, V, b

LEMMA EmptiedFills ==
  ASSUME NEW H, NEW A, NEW chains, Filled(chains, H, A),
         NEW chain \in Seq(Elt), \A i, j \in 1..Len(chain) : chain[i] = chain[j] => i = j,
         \A i \in 1..Len(chain) : H[chain[i]].key \in Key /\ chain[i] \notin A
  PROVE  /\ Filled(Emptied(chain, H, chains), H, A \cup Members(chain))
         /\ Len(Emptied(chain, H, chains)) = Len(chains)
PROOF
  <1> DEFINE n == Len(chains)
             m == Len(chain)
             Had(i) == A \cup {chain[j] : j \in 1..i}
             b(i) == BktOf(H[chain[i]].key, chains)
  <1>1. n \in Nat \ {0} /\ m \in Nat /\ chains \in [1..n -> Seq(Elt)]
    BY DEF Filled
  <1>2. PICK into :
          /\ into[0] = chains /\ Emptied(chain, H, chains) = into[m]
          /\ \A i \in 1..m : into[i] = Put(into[i - 1], b(i), chain[i])
    <2>1. \E into : EmptiedBy(into, chain, H, chains, n)
      BY <1>1, EmptiedSteps
    <2> QED
      BY <2>1 DEF EmptiedBy
  <1> DEFINE S == {i \in Nat : Filled(into[i], H, Had(i)) /\ Len(into[i]) = n}
  <1>3. 0 \in S
    <2>1. Had(0) = A
      OBVIOUS
    <2> HIDE DEF Had
    <2> QED
      BY <1>2, <2>1
  <1>4. ASSUME NEW i \in 0..(m - 1), i \in S PROVE i + 1 \in S
    <2> DEFINE k == i + 1
               e == chain[k]
    <2>1. k \in 1..m /\ k - 1 = i /\ i \in Nat /\ k \in Nat
      BY <1>1
    <2>2. e \in Elt /\ H[e].key \in Key /\ e \notin Had(i)
      <3>1. \A j \in 1..i : j \in 1..m /\ j # k
        BY <1>1, <2>1
      <3> QED
        BY <2>1, <3>1
    <2>3. Had(k) = Had(i) \cup {e}
      <3>1. 1..k = (1..i) \cup {k}
        BY <2>1
      <3> QED
        BY <3>1
    <2> HIDE DEF k
    <2>4. Filled(into[i], H, Had(i)) /\ Len(into[i]) = n
      BY <1>4
    <2>5. BktOf(H[e].key, into[i]) = b(k)
      BY <2>4 DEF BktOf
    <2>6. into[k] = Put(into[i], b(k), e)
      BY <1>2, <2>1
    <2> HIDE DEF Had, e, b
    <2>7. Filled(into[k], H, Had(i) \cup {e}) /\ Len(into[k]) = Len(into[i])
      <3>2. PICK c : c = into[i]
        OBVIOUS
      <3>3. Filled(c, H, Had(i)) /\ BktOf(H[e].key, c) = b(k)
        BY <2>4, <2>5, <3>2
      <3>4. /\ Filled(Put(c, b(k), e), H, Had(i) \cup {e})
            /\ Len(Put(c, b(k), e)) = Len(c)
        <4>1. /\ Filled(Put(c, BktOf(H[e].key, c), e), H, Had(i) \cup {e})
              /\ Len(Put(c, BktOf(H[e].key, c), e)) = Len(c)
          BY <2>2, <3>3, PutFirst
        <4> QED
          BY <3>3, <4>1
      <3> QED
        BY <2>6, <3>2, <3>4
    <2> QED
      BY <2>1, <2>3, <2>4, <2>7 DEF k
  <1> HIDE DEF S
  <1>5. \A i \in 0..m : i \in S
    <2> HIDE DEF m
    <2> QED
      BY <1>1, <1>3, <1>4, UpTo
  <1>6. m \in S
    BY <1>1, <1>5
  <1>7. Had(m) = A \cup Members(chain)
    BY DEF Members
  <1> QED
    BY <1>2, <1>6, <1>7 DEF S

LEMMA NewChainsFilled ==
  ASSUME NEW tb, NEW H, NEW B, BucketsHold(tb, H, B)
  PROVE  Filled(NewChains(tb, H), H, B) /\ Len(NewChains(tb, H)) = 2 * Len(tb.buckets)
PROOF
  <1> DEFINE m     == Len(tb.buckets)
             n     == 2 * m
             V     == [1..n -> Seq(Elt)]
             old(b) == ChainOf(b, tb, H)
             empty == [k \in 1..n |-> <<>>]
             F     == [b \in 1..m |-> [v \in V |-> Emptied(old(b), H, v)]]
             Def(f) == [b \in 0..m |-> IF b = 0 THEN empty ELSE Emptied(old(b), H, f[b - 1])]
             into  == CHOOSE f : f = Def(f)
             Had(b) == {e \in B : BktOf(H[e].key, tb.buckets) \in 1..b}
  <1>1. m \in Nat /\ n \in Nat \ {0} /\ B \subseteq Elt
    BY DEF BucketsHold, Shaped
  <1>2. ASSUME NEW b \in 1..m
        PROVE  /\ old(b) \in Seq(Elt)
               /\ \A i, j \in 1..Len(old(b)) : old(b)[i] = old(b)[j] => i = j
               /\ Members(old(b)) = {e \in B : BktOf(H[e].key, tb.buckets) = b}
               /\ \A i \in 1..Len(old(b)) : H[old(b)[i]].key \in Key /\ old(b)[i] \in Members(old(b))
    <2>1. BucketHolds(old(b), b, tb, H, B)
      BY DEF BucketsHold
    <2> HIDE DEF old
    <2>2. \A i \in 1..Len(old(b)) : old(b)[i] \in Members(old(b))
      BY DEF Members
    <2>3. Members(old(b)) \subseteq B
      BY <2>1 DEF BucketHolds
    <2> QED
      BY <2>1, <2>2, <2>3 DEF BucketHolds, BucketsHold, Linked
  <1> HIDE DEF old
  <1>3. ASSUME NEW b \in 1..m, NEW v \in V PROVE Emptied(old(b), H, v) \in V
    <2>1. /\ old(b) \in Seq(Elt) /\ \A i \in 1..Len(old(b)) : H[old(b)[i]].key \in Key
          /\ Len(old(b)) \in 0..Len(old(b)) /\ v \in [1..n -> Seq(Elt)]
      BY <1>2
    <2>2. PICK into_b : EmptiedBy(into_b, old(b), H, v, n)
      BY <1>1, <2>1, EmptiedSteps
    <2> QED
      BY <2>1, <2>2 DEF EmptiedBy
  <1>4. PICK f \in [0..m -> V] : f[0] = empty /\ \A b \in 1..m : f[b] = F[b][f[b - 1]]
    <2>1. empty \in V /\ StepsOf(F, V, m)
      BY <1>3 DEF StepsOf
    <2> HIDE DEF F, m, V, empty
    <2>2. \E f : Computes(f, F, V, empty, m)
      BY <1>1, <2>1, Recursion
    <2> QED
      BY <2>2 DEF Computes
  <1>5. ASSUME NEW b \in 1..m PROVE f[b] = Emptied(old(b), H, f[b - 1])
    <2>1. b - 1 \in 0..m
      BY <1>1
    <2>2. f[b - 1] \in V
      BY <1>4, <2>1
    <2> HIDE DEF V
    <2> QED
      BY <1>4, <2>2
  <1> HIDE DEF V
  <1>6. f = Def(f)
    <2>1. \A b \in 0..m : f[b] = IF b = 0 THEN empty ELSE Emptied(old(b), H, f[b - 1])
      BY <1>1, <1>4, <1>5
    <2> QED
      BY <1>4, <2>1
  <1>7. into = Def(into)
    BY <1>6
  <1>8. NewChains(tb, H) = into[m]
    BY DEF NewChains, ChainOf, old
  <1> HIDE DEF into
  <1>9. into[0] = empty /\ \A b \in 1..m : into[b] = Emptied(old(b), H, into[b - 1])
    <2>1. 0 \in 0..m /\ \A b \in 1..m : b \in 0..m /\ b # 0
      BY <1>1
    <2>2. \A b \in 0..m : Def(into)[b] = IF b = 0 THEN empty ELSE Emptied(old(b), H, into[b - 1])
      OBVIOUS
    <2> QED
      BY <1>7, <2>1, <2>2
  <1> DEFINE S == {b \in Nat : Filled(into[b], H, Had(b)) /\ Len(into[b]) = n}
  <1>10. 0 \in S
    <2>1. /\ empty \in [1..n -> Seq(Elt)] /\ Len(empty) = n
          /\ \A k \in 1..n : empty[k] = <<>>
      BY <1>1
    <2>2. Had(0) = {}
      BY <1>1
    <2> HIDE DEF empty, Had, n
    <2>3. \A k \in 1..n : Len(empty[k]) = 0 /\ Members(empty[k]) = {}
      BY <2>1 DEF Members
    <2>4. Filled(empty, H, Had(0))
      BY <1>1, <2>1, <2>2, <2>3 DEF Filled
    <2> QED
      BY <1>9, <2>1, <2>4
  <1>11. ASSUME NEW i \in 0..(m - 1), i \in S PROVE i + 1 \in S
    <2> DEFINE b == i + 1
    <2>1. b \in 1..m /\ b - 1 = i /\ i \in Nat /\ b \in Nat
      BY <1>1
    <2>2. Had(b) = Had(i) \cup Members(old(b))
      <3>1. 1..b = (1..i) \cup {b}
        BY <2>1
      <3> QED
        BY <1>2, <2>1, <3>1
    <2>3. \A k \in 1..Len(old(b)) : H[old(b)[k]].key \in Key /\ old(b)[k] \notin Had(i)
      <3>1. b \notin 1..i
        BY <2>1
      <3> QED
        BY <1>2, <2>1, <3>1
    <2>4. old(b) \in Seq(Elt) /\ \A k, j \in 1..Len(old(b)) : old(b)[k] = old(b)[j] => k = j
      BY <1>2, <2>1
    <2> HIDE DEF b, Had
    <2>5. Filled(into[i], H, Had(i)) /\ Len(into[i]) = n
      BY <1>11
    <2>6. into[b] = Emptied(old(b), H, into[i])
      BY <1>9, <2>1
    <2>7. /\ Filled(Emptied(old(b), H, into[i]), H, Had(i) \cup Members(old(b)))
          /\ Len(Emptied(old(b), H, into[i])) = Len(into[i])
      <3>1. PICK c, A, v : c = old(b) /\ A = Had(i) /\ v = into[i]
        OBVIOUS
      <3>2. /\ c \in Seq(Elt) /\ \A k, j \in 1..Len(c) : c[k] = c[j] => k = j
            /\ \A k \in 1..Len(c) : H[c[k]].key \in Key /\ c[k] \notin A
            /\ Filled(v, H, A)
        BY <2>3, <2>4, <2>5, <3>1
      <3>3. /\ Filled(Emptied(c, H, v), H, A \cup Members(c))
            /\ Len(Emptied(c, H, v)) = Len(v)
        BY <3>2, EmptiedFills
      <3> QED
        BY <3>1, <3>3
    <2> QED
      BY <2>1, <2>2, <2>5, <2>6, <2>7 DEF b
  <1> HIDE DEF S
  <1>12. \A i \in 0..m : i \in S
    <2> HIDE DEF m
    <2> QED
      BY <1>1, <1>10, <1>11, UpTo
  <1>13. m \in S
    BY <1>1, <1>12
  <1>14. Had(m) = B
    <2>1. \A e \in B : BktOf(H[e].key, tb.buckets) \in 1..m
      BY BktInRange DEF BucketsHold, Shaped
    <2> QED
      BY <2>1
  <1> QED
    BY <1>8, <1>13, <1>14 DEF S

(* The same handle but for the links of its bucket.                         *)
SameBut(h, g) ==
  /\ h \in Handle /\ h.key = g.key /\ h.tbl = g.tbl /\ h.live = g.live
  /\ h.next = g.next /\ h.prev = g.prev

(* Every entry of a chain is linked to those beside it.                     *)
RelinkedTo(h, g, c, i) ==
  h = [g EXCEPT !.hh_prev = IF i = 1 THEN Nil ELSE c[i - 1],
                !.hh_next = IF i = Len(c) THEN Nil ELSE c[i + 1]]

LEMMA RelinkedHandle ==
  ASSUME NEW chains, NEW H, NEW B, Filled(chains, H, B),
         NEW b \in 1..Len(chains), NEW i \in 1..Len(chains[b])
  PROVE  /\ chains[b][i] \in Elt
         /\ RelinkedTo(Relinked(chains, H)[chains[b][i]], H[chains[b][i]], chains[b], i)
PROOF
  <1> DEFINE e == chains[b][i]
             a == CHOOSE c \in DOMAIN chains : e \in Range(chains[c])
             k(c) == CHOOSE j \in DOMAIN c : c[j] = e
  <1>1. /\ DOMAIN chains = 1..Len(chains)
        /\ \A c \in 1..Len(chains) : chains[c] \in Seq(Elt) /\ DOMAIN chains[c] = 1..Len(chains[c])
    BY DEF Filled
  <1>2. \A c \in 1..Len(chains) : Range(chains[c]) = Members(chains[c])
    BY <1>1 DEF Range, Members
  <1>3. e \in Range(chains[b]) /\ e \in Elt
    BY <1>1 DEF Range
  <1>4. a \in DOMAIN chains /\ e \in Range(chains[a])
    BY <1>1, <1>3
  <1>5. k(chains[b]) \in 1..Len(chains[b]) /\ chains[b][k(chains[b])] = chains[b][i]
    BY <1>1
  <1> HIDE DEF a, k
  <1>6. a = b
    <2>1. e \in Members(chains[a]) /\ e \in Members(chains[b])
      BY <1>1, <1>2, <1>3, <1>4
    <2> HIDE DEF e
    <2> QED
      BY <1>1, <1>4, <2>1 DEF Filled
  <1>7. k(chains[b]) = i
    BY <1>5 DEF Filled
  <1> HIDE DEF e
  <1>8. \E c \in DOMAIN chains : e \in Range(chains[c])
    BY <1>1, <1>3
  <1>9. RelinkedTo(Relinked(chains, H)[e], H[e], chains[a], k(chains[a]))
    BY <1>3, <1>8 DEF Relinked, RelinkedTo, a, k
  <1> QED
    BY <1>3, <1>6, <1>7, <1>9 DEF e

LEMMA RelinkedHandles ==
  ASSUME NEW chains, NEW H \in [Elt -> Handle], NEW B, Filled(chains, H, B)
  PROVE  LET new == Relinked(chains, H) IN
         /\ new \in [Elt -> Handle]
         /\ \A e \in Elt : SameBut(new[e], H[e])
PROOF
  <1> DEFINE new == Relinked(chains, H)
  <1>1. ASSUME NEW e \in Elt PROVE SameBut(new[e], H[e])
    <2>1. H[e] \in Handle
      OBVIOUS
    <2>2. CASE \E b \in DOMAIN chains : e \in Range(chains[b])
      <3>0. PICK b \in 1..Len(chains) : e \in Range(chains[b])
        BY <2>2 DEF Filled
      <3>1. PICK i \in 1..Len(chains[b]) : e = chains[b][i]
        BY <3>0 DEF Range, Filled
      <3> DEFINE p == IF i = 1 THEN Nil ELSE chains[b][i - 1]
                 n == IF i = Len(chains[b]) THEN Nil ELSE chains[b][i + 1]
      <3>2. new[e] = [H[e] EXCEPT !.hh_prev = p, !.hh_next = n]
        <4>1. RelinkedTo(new[e], H[e], chains[b], i)
          BY <3>1, RelinkedHandle
        <4> HIDE DEF new
        <4> QED
          BY <4>1 DEF RelinkedTo
      <3>3. p \in Elt \cup {Nil} /\ n \in Elt \cup {Nil}
        BY DEF Filled
      <3> HIDE DEF p, n, new
      <3> QED
        BY <2>1, <3>2, <3>3 DEF Handle, SameBut
    <2>3. CASE ~ \E b \in DOMAIN chains : e \in Range(chains[b])
      <3>1. new[e] = H[e]
        BY <2>3 DEF Relinked
      <3> HIDE DEF new
      <3> QED
        BY <2>1, <3>1 DEF SameBut
    <2> QED
      BY <2>2, <2>3
  <1>2. new = [e \in Elt |-> new[e]]
    BY DEF Relinked
  <1> HIDE DEF new
  <1>3. \A e \in Elt : new[e] \in Handle
    BY <1>1 DEF SameBut
  <1>4. new \in [Elt -> Handle]
    BY <1>2, <1>3
  <1> QED
    BY <1>1, <1>4 DEF new

(* The links of the buckets are those of the chains.                        *)
LEMMA RelinkedChain ==
  ASSUME NEW chains, NEW H \in [Elt -> Handle], NEW B, Filled(chains, H, B),
         NEW b \in 1..Len(chains)
  PROVE  LET new == Relinked(chains, H) IN
         Linked(chains[b], First(chains[b]), HhNexts(new), HhPrevs(new))
PROOF
  <1> DEFINE new == Relinked(chains, H)
             s   == chains[b]
  <1>1. /\ s \in Seq(Elt) /\ Len(s) \in Nat
        /\ \A i, j \in 1..Len(s) : s[i] = s[j] => i = j
    BY DEF Filled
  <1>2. First(s) = IF Len(s) = 0 THEN Nil ELSE s[1]
    <2> HIDE DEF s
    <2> QED
      BY <1>1 DEF First
  <1>3. ASSUME NEW i \in 1..Len(s)
        PROVE  /\ HhNexts(new)[s[i]] = IF i = Len(s) THEN Nil ELSE s[i + 1]
               /\ HhPrevs(new)[s[i]] = IF i = 1 THEN Nil ELSE s[i - 1]
    <2> DEFINE e == s[i]
               p == IF i = 1 THEN Nil ELSE s[i - 1]
               n == IF i = Len(s) THEN Nil ELSE s[i + 1]
    <2>1. e \in Elt /\ RelinkedTo(new[e], H[e], s, i)
      BY RelinkedHandle
    <2>2. new[e] = [H[e] EXCEPT !.hh_prev = p, !.hh_next = n]
      <3> HIDE DEF new, e, s
      <3> QED
        BY <2>1 DEF RelinkedTo
    <2>3. H[e] \in Handle
      BY <2>1
    <2> HIDE DEF e, p, n, new
    <2>4. new[e].hh_prev = p /\ new[e].hh_next = n
      BY <2>2, <2>3 DEF Handle
    <2> QED
      BY <2>1, <2>4 DEF HhNexts, HhPrevs, e, p, n
  <1> HIDE DEF new, s
  <1> QED
    BY <1>1, <1>2, <1>3 DEF Linked, new, s

(* The table with its new buckets.                                          *)
Widened(new, tb, chains, m) ==
  /\ Shaped(new) /\ Len(new.buckets) = m
  /\ new.num_items = tb.num_items /\ new.tail = tb.tail /\ new.live = tb.live
  /\ \A b \in 1..m : /\ new.buckets[b].hh_head = First(chains[b])
                     /\ new.buckets[b].count = Len(chains[b])

LEMMA ExpandedTable ==
  ASSUME NEW tb, Shaped(tb), NEW chains, NEW m \in Nat \ {0}, chains \in [1..m -> Seq(Elt)],
         Len(chains) = m
  PROVE  Widened(Expanded(tb, chains), tb, chains, m)
PROOF
  <1> DEFINE new == Expanded(tb, chains)
  <1>1. PICK mult : mult = [b \in DOMAIN chains |->
                 ExpandMult(Len(chains[b]), (tb.num_items + Len(chains) - 1) \div Len(chains))]
    OBVIOUS
  <1> DEFINE buckets == [b \in DOMAIN chains |-> [hh_head |-> First(chains[b]),
                           count |-> Len(chains[b]), expand_mult |-> mult[b]]]
  <1>2. PICK ineff, no : new = [tb EXCEPT !.buckets = buckets, !.ineff_expands = ineff,
                                          !.noexpand = no]
    BY <1>1 DEF Expanded
  <1> HIDE DEF new
  <1>3. /\ DOMAIN new = DOMAIN tb /\ new.buckets = buckets
        /\ new.num_items = tb.num_items /\ new.tail = tb.tail /\ new.live = tb.live
    BY <1>2 DEF Shaped
  <1>4. /\ DOMAIN buckets = 1..m /\ Len(buckets) = m
        /\ \A b \in 1..m : buckets[b] = [hh_head |-> First(chains[b]),
                                          count |-> Len(chains[b]), expand_mult |-> mult[b]]
    OBVIOUS
  <1> HIDE DEF buckets
  <1>5. \A b \in 1..m : DOMAIN buckets[b] = {"hh_head", "count", "expand_mult"}
    BY <1>4
  <1> QED
    BY <1>3, <1>4, <1>5 DEF Shaped, Widened, new

(* HASH_EXPAND_BUCKETS                                                      *)
LEMMA BucketsExpanded ==
  ASSUME NEW tb, NEW H \in [Elt -> Handle], NEW B, BucketsHold(tb, H, B),
         NEW chains, chains = NewChains(tb, H)
  PROVE  BucketsHold(Expanded(tb, chains), Relinked(chains, H), B)
PROOF
  <1> DEFINE new == Relinked(chains, H)
             tx  == Expanded(tb, chains)
             m   == Len(chains)
  <1>1. Filled(chains, H, B)
    BY NewChainsFilled
  <1>2. m \in Nat \ {0} /\ chains \in [1..m -> Seq(Elt)]
    BY <1>1 DEF Filled
  <1>3. /\ Shaped(tx) /\ Len(tx.buckets) = m
        /\ \A b \in 1..m : /\ tx.buckets[b].hh_head = First(chains[b])
                           /\ tx.buckets[b].count = Len(chains[b])
    <2>1. Shaped(tb) /\ Len(chains) = m
      BY DEF BucketsHold
    <2>2. Widened(tx, tb, chains, m)
      <3> HIDE DEF m
      <3> QED
        BY <1>2, <2>1, ExpandedTable
    <2> HIDE DEF tx, m
    <2> QED
      BY <2>2 DEF Widened
  <1>4. \A e \in Elt : SameBut(new[e], H[e])
    BY <1>1, RelinkedHandles
  <1>5. B \subseteq Elt /\ \A e \in B : H[e].key \in Key
    BY DEF BucketsHold
  <1>6. \A e \in B : new[e].key = H[e].key
    BY <1>4, <1>5 DEF SameBut
  <1>7. ASSUME NEW b \in 1..m PROVE BucketHolds(ChainOf(b, tx, new), b, tx, new, B)
    <2>1. Linked(chains[b], First(chains[b]), HhNexts(new), HhPrevs(new))
      BY <1>1, RelinkedChain
    <2>2. Members(chains[b]) = {e \in B : BktOf(H[e].key, chains) = b}
      BY <1>1 DEF Filled
    <2>3. \A key : BktOf(key, chains) = BktOf(key, tx.buckets)
      BY <1>3 DEF BktOf
    <2> HIDE DEF new, tx, m
    <2>4. Members(chains[b]) = {e \in B : BktOf(new[e].key, tx.buckets) = b}
      BY <1>6, <2>2, <2>3
    <2>5. BucketHolds(chains[b], b, tx, new, B)
      BY <1>3, <2>1, <2>4 DEF BucketHolds
    <2> QED
      BY <2>5, InChain
  <1> HIDE DEF new, tx, m
  <1> QED
    BY <1>3, <1>5, <1>6, <1>7 DEF BucketsHold, new, tx

(***************************************************************************)
(* The invariant. While the call o is in progress, the list has the        *)
(* entries Listed, and the buckets those that are Bucketed.                *)
(***************************************************************************)
Listed(H, o)   == {e \in Elt : H[e].live /\ ~(o.e = e /\ o.step \in {"make", "append", "del_bkt"})}
Bucketed(H, o) == {e \in Elt : H[e].live /\ ~(o.e = e /\ o.step \in {"make", "append", "to_table"})}

ListHolds(s, hd, tail, H, L) ==
  /\ Linked(s, hd, Nexts(H), Prevs(H))
  /\ Members(s) = L
  /\ Len(s) # 0 /\ tail = s[Len(s)]

TableHolds(tb, H, B) == BucketsHold(tb, H, B) /\ tb.num_items = Cardinality(B) /\ tb.live

Made(hd, tab, H, L, B) ==
  LET T == H[hd].tbl IN
  /\ T \in Table
  /\ \A e \in L : H[e].tbl = T
  /\ ListHolds(Chain(Nexts(H), hd), hd, tab[T].tail, H, L)
  /\ TableHolds(tab[T], H, B)

InCall(hd, H, o) ==
  /\ o = Idle \/ /\ o.step \in {"make", "append", "to_table", "assert", "del_bkt"}
                 /\ o.e \in Elt /\ H[o.e].live
  /\ o.step = "make" => hd = Nil
  /\ o.step \in {"append", "to_table", "assert", "del_bkt"} => hd # Nil
  /\ o.step \in {"make", "append"} => H[o.e].next = Nil /\ H[o.e].prev = Nil

Consistent(hd, tab, H, o) ==
  /\ hd \in Elt \cup {Nil}
  /\ DOMAIN tab = Table
  /\ H \in [Elt -> Handle]
  /\ \A e \in Elt : H[e].live => H[e].key \in Key
  /\ InCall(hd, H, o)
  /\ hd = Nil => Listed(H, o) = {} /\ Bucketed(H, o) = {}
  /\ hd # Nil => Made(hd, tab, H, Listed(H, o), Bucketed(H, o))

OneCall(o) ==
  /\ DOMAIN op = Caller
  /\ \A t \in Caller : op[t] \in {Idle, o}
  /\ \A t, u \in Caller : op[t] # Idle /\ op[u] # Idle => t = u


-----------------------------------------------------------------------------
LEMMA InList ==
  ASSUME NEW s, NEW hd, NEW tail, NEW H, NEW L, ListHolds(s, hd, tail, H, L)
  PROVE  ListHolds(Chain(Nexts(H), hd), hd, tail, H, L)
PROOF
  <1>1. Chain(Nexts(H), hd) = s
    BY ChainOfLinked DEF ListHolds
  <1> QED
    BY <1>1

(* What the list and the buckets read of their entries.                     *)
SameLinks(H2, H, x)   == H2[x].next = H[x].next /\ H2[x].prev = H[x].prev
SameHhLinks(H2, H, x) ==
  H2[x].hh_next = H[x].hh_next /\ H2[x].hh_prev = H[x].hh_prev /\ H2[x].key = H[x].key
SameBuckets(tb2, tb) ==
  /\ DOMAIN tb2 = DOMAIN tb /\ tb2.buckets = tb.buckets
  /\ tb2.num_items = tb.num_items /\ tb2.live = tb.live

LEMMA ListUntouched ==
  ASSUME NEW hd, NEW tail, NEW H, NEW L, NEW H2, L \subseteq Elt,
         ListHolds(Chain(Nexts(H), hd), hd, tail, H, L), \A x \in L : SameLinks(H2, H, x)
  PROVE  ListHolds(Chain(Nexts(H2), hd), hd, tail, H2, L)
PROOF
  <1> DEFINE s == Chain(Nexts(H), hd)
  <1> HIDE DEF s
  <1>1. Linked(s, hd, Nexts(H), Prevs(H)) /\ Members(s) = L /\ Len(s) # 0 /\ tail = s[Len(s)]
    BY DEF ListHolds, s
  <1>2. \A x \in L : Nexts(H2)[x] = Nexts(H)[x] /\ Prevs(H2)[x] = Prevs(H)[x]
    BY DEF SameLinks, Nexts, Prevs
  <1>3. Linked(s, hd, Nexts(H2), Prevs(H2))
    BY <1>1, <1>2, Untouched
  <1>4. ListHolds(s, hd, tail, H2, L)
    BY <1>1, <1>3 DEF ListHolds
  <1> QED
    BY <1>4, InList

LEMMA TableUntouched ==
  ASSUME NEW tb, NEW H, NEW B, TableHolds(tb, H, B),
         NEW tb2, SameBuckets(tb2, tb), NEW H2, \A x \in B : SameHhLinks(H2, H, x)
  PROVE  TableHolds(tb2, H2, B)
PROOF
  <1>1. Shaped(tb) /\ B \subseteq Elt /\ \A x \in B : H[x].key \in Key
    BY DEF TableHolds, BucketsHold
  <1>2. Shaped(tb2)
    BY <1>1 DEF Shaped, SameBuckets
  <1>3. /\ \A x \in B : HhNexts(H2)[x] = HhNexts(H)[x] /\ HhPrevs(H2)[x] = HhPrevs(H)[x]
        /\ \A x \in B : H2[x].key = H[x].key
    BY <1>1 DEF SameHhLinks, HhNexts, HhPrevs
  <1>4. ASSUME NEW b \in 1..Len(tb2.buckets)
        PROVE  BucketHolds(ChainOf(b, tb2, H2), b, tb2, H2, B)
    <2>1. BucketHolds(ChainOf(b, tb, H), b, tb, H, B)
      BY DEF SameBuckets, TableHolds, BucketsHold
    <2> DEFINE s == ChainOf(b, tb, H)
    <2> HIDE DEF s
    <2>2. /\ Linked(s, tb.buckets[b].hh_head, HhNexts(H), HhPrevs(H))
          /\ tb.buckets[b].count = Len(s)
          /\ Members(s) = {e \in B : BktOf(H[e].key, tb.buckets) = b}
      BY <2>1 DEF BucketHolds, s
    <2>3. Linked(s, tb.buckets[b].hh_head, HhNexts(H2), HhPrevs(H2))
      BY <1>3, <2>2, Untouched
    <2>4. Members(s) = {e \in B : BktOf(H2[e].key, tb2.buckets) = b}
      BY <1>3, <2>2 DEF SameBuckets
    <2>5. BucketHolds(s, b, tb2, H2, B)
      BY <2>2, <2>3, <2>4 DEF BucketHolds, SameBuckets
    <2> QED
      BY <2>5, InChain
  <1>5. BucketsHold(tb2, H2, B)
    BY <1>1, <1>2, <1>3, <1>4 DEF BucketsHold
  <1> QED
    BY <1>5 DEF TableHolds, SameBuckets

LEMMA MadeUntouched ==
  ASSUME NEW hd \in Elt, NEW tab, NEW H, NEW L, NEW B, Made(hd, tab, H, L, B), L \subseteq Elt,
         NEW H2, \A x \in L : SameLinks(H2, H, x) /\ H2[x].tbl = H[x].tbl,
         \A x \in B : SameHhLinks(H2, H, x)
  PROVE  Made(hd, tab, H2, L, B) /\ hd \in L
PROOF
  <1> DEFINE T == H[hd].tbl
             s == Chain(Nexts(H), hd)
  <1> HIDE DEF s
  <1>1. T \in Table /\ (\A e \in L : H[e].tbl = T) /\ TableHolds(tab[T], H, B)
    BY DEF Made
  <1>2. ListHolds(s, hd, tab[T].tail, H, L)
    BY DEF Made, s
  <1>3. hd \in L
    <2>1. Linked(s, hd, Nexts(H), Prevs(H)) /\ Members(s) = L /\ Len(s) # 0
      BY <1>2 DEF ListHolds
    <2>2. 1 \in 1..Len(s) /\ hd = s[1]
      BY <2>1 DEF Linked
    <2> QED
      BY <2>1, <2>2 DEF Members
  <1>4. H2[hd].tbl = T /\ \A e \in L : H2[e].tbl = T
    BY <1>1, <1>3
  <1> HIDE DEF T
  <1>5. ListHolds(Chain(Nexts(H2), hd), hd, tab[T].tail, H2, L)
    BY <1>2, ListUntouched DEF s
  <1>6. TableHolds(tab[T], H2, B)
    <2>1. SameBuckets(tab[T], tab[T])
      BY DEF SameBuckets
    <2> QED
      BY <1>1, <2>1, TableUntouched
  <1> QED
    BY <1>1, <1>3, <1>4, <1>5, <1>6 DEF Made

(* The calls by their steps.                                                *)
Busy(step, e) == [step |-> step, e |-> e]

LEMMA BusyOp ==
  ASSUME NEW step, NEW e \in Elt, step # "idle"
  PROVE  Busy(step, e).step = step /\ Busy(step, e).e = e /\ Busy(step, e) # Idle
PROOF
  <1>1. Busy(step, e).step # Idle.step
    BY DEF Busy, Idle
  <1> QED
    BY <1>1 DEF Busy

LEMMA SetsOf ==
  ASSUME NEW H, NEW e \in Elt, NEW step, step # "idle"
  PROVE  /\ Listed(H, Busy(step, e)) = IF step \in {"make", "append", "del_bkt"}
                                       THEN {x \in Elt : H[x].live} \ {e} ELSE {x \in Elt : H[x].live}
         /\ Bucketed(H, Busy(step, e)) = IF step \in {"make", "append", "to_table"}
                                         THEN {x \in Elt : H[x].live} \ {e} ELSE {x \in Elt : H[x].live}
PROOF
  BY BusyOp DEF Listed, Bucketed

LEMMA SetsIdle ==
  ASSUME NEW H
  PROVE  /\ Listed(H, Idle) = {x \in Elt : H[x].live}
         /\ Bucketed(H, Idle) = {x \in Elt : H[x].live}
PROOF
  BY DEF Listed, Bucketed, Idle

(* AddTest                                                                  *)
Tested(H, e, key) == [H EXCEPT ![e] = [Unused EXCEPT !.live = TRUE, !.key = key]]

LEMMA TestedConsistent ==
  ASSUME NEW hd, NEW tab, NEW H, Consistent(hd, tab, H, Idle),
         NEW e \in Elt, ~H[e].live, NEW key \in Key,
         NEW step, step = IF hd = Nil THEN "make" ELSE "append"
  PROVE  /\ Consistent(hd, tab, Tested(H, e, key), Busy(step, e))
         /\ Bucketed(Tested(H, e, key), Busy(step, e)) = Bucketed(H, Idle)
PROOF
  <1> DEFINE new == Tested(H, e, key)
             o   == Busy(step, e)
             h   == [Unused EXCEPT !.live = TRUE, !.key = key]
             A   == {x \in Elt : H[x].live}
  <1>1. /\ hd \in Elt \cup {Nil} /\ DOMAIN tab = Table /\ H \in [Elt -> Handle]
        /\ \A x \in Elt : H[x].live => H[x].key \in Key
        /\ hd = Nil => A = {}
        /\ hd # Nil => Made(hd, tab, H, A, A)
    BY SetsIdle DEF Consistent
  <1>2. /\ h \in Handle /\ h.live /\ h.key = key /\ h.next = Nil /\ h.prev = Nil
    BY DEF Unused, Handle
  <1> HIDE DEF h
  <1>3. /\ new \in [Elt -> Handle] /\ new[e] = h
        /\ \A x \in Elt : x # e => new[x] = H[x]
    BY <1>1, <1>2 DEF Tested, h
  <1> HIDE DEF new
  <1>4. \A x \in Elt : new[x].live => new[x].key \in Key
    BY <1>1, <1>2, <1>3
  <1>5. e \notin A /\ A = {x \in Elt : new[x].live} \ {e}
    BY <1>2, <1>3
  <1>6. Listed(new, o) = A /\ Bucketed(new, o) = A
    BY <1>5, SetsOf
  <1>7. InCall(hd, new, o)
    BY <1>2, <1>3, BusyOp DEF InCall
  <1>8. hd # Nil => Made(hd, tab, new, A, A)
    <2>1. \A x \in A : SameLinks(new, H, x) /\ new[x].tbl = H[x].tbl /\ SameHhLinks(new, H, x)
      BY <1>3, <1>5 DEF SameLinks, SameHhLinks
    <2>2. A \subseteq Elt
      OBVIOUS
    <2> HIDE DEF A
    <2> QED
      BY <1>1, <2>1, <2>2, MadeUntouched
  <1> HIDE DEF A, o
  <1>9. Consistent(hd, tab, new, o)
    BY <1>1, <1>3, <1>4, <1>6, <1>7, <1>8 DEF Consistent
  <1>10. Bucketed(H, Idle) = A
    BY SetsIdle DEF A
  <1> QED
    BY <1>6, <1>9, <1>10 DEF new, o

(* AddAssert: nothing changes but that the call is over.                    *)
LEMMA AssertedConsistent ==
  ASSUME NEW hd, NEW tab, NEW H, NEW o, Consistent(hd, tab, H, o), o.step = "assert"
  PROVE  Consistent(hd, tab, H, Idle) /\ Bucketed(H, Idle) = Bucketed(H, o)
PROOF
  <1>1. Listed(H, Idle) = Listed(H, o) /\ Bucketed(H, Idle) = Bucketed(H, o)
    BY DEF Listed, Bucketed, Idle
  <1>2. InCall(hd, H, Idle)
    BY DEF InCall, Idle
  <1> QED
    BY <1>1, <1>2 DEF Consistent

(* AddMake                                                                  *)
Fresh(e) == [live |-> TRUE, buckets |-> [b \in 1..InitialBuckets |-> EmptyBucket],
             num_items |-> 0, tail |-> e, ineff_expands |-> 0, noexpand |-> FALSE]

LEMMA FreshTable ==
  ASSUME NEW e, NEW H
  PROVE  TableHolds(Fresh(e), H, {}) /\ Fresh(e).tail = e
PROOF
  <1> DEFINE tb == Fresh(e)
             m  == InitialBuckets
  <1>1. m \in Nat \ {0}
    BY HashTableAssumption
  <1>2. /\ DOMAIN tb = {"live", "buckets", "num_items", "tail", "ineff_expands", "noexpand"}
        /\ tb.num_items = 0 /\ tb.tail = e /\ tb.live
        /\ tb.buckets = [b \in 1..m |-> EmptyBucket]
    BY DEF Fresh
  <1> HIDE DEF tb, m
  <1>3. Len(tb.buckets) = m /\ DOMAIN tb.buckets = 1..m /\ \A b \in 1..m : tb.buckets[b] = EmptyBucket
    BY <1>1, <1>2
  <1>4. /\ DOMAIN EmptyBucket = {"hh_head", "count", "expand_mult"}
        /\ EmptyBucket.hh_head = Nil /\ EmptyBucket.count = 0
    BY DEF EmptyBucket
  <1>5. Shaped(tb)
    BY <1>1, <1>2, <1>3, <1>4 DEF Shaped
  <1>6. ASSUME NEW b \in 1..m PROVE BucketHolds(ChainOf(b, tb, H), b, tb, H, {})
    <2>1. Linked(<<>>, Nil, HhNexts(H), HhPrevs(H)) /\ Members(<<>>) = {} /\ Len(<<>>) = 0
      BY DEF Linked, Members
    <2>2. BucketHolds(<<>>, b, tb, H, {})
      BY <1>3, <1>4, <2>1 DEF BucketHolds
    <2> QED
      BY <2>2, InChain
  <1>7. BucketsHold(tb, H, {})
    BY <1>3, <1>5, <1>6 DEF BucketsHold
  <1> QED
    BY <1>2, <1>7, FS_EmptySet DEF TableHolds, tb

MadeOne(H, e, T) == [H EXCEPT ![e].tbl = T]

LEMMA MadeConsistent ==
  ASSUME NEW hd, NEW tab, NEW H, NEW o, Consistent(hd, tab, H, o), o.step = "make",
         NEW e, e = o.e, NEW T \in Table
  PROVE  /\ e \in Elt
         /\ Consistent(e, [tab EXCEPT ![T] = Fresh(e)], MadeOne(H, e, T), Busy("to_table", e))
         /\ Bucketed(MadeOne(H, e, T), Busy("to_table", e)) = Bucketed(H, o)
PROOF
  <1> DEFINE new == MadeOne(H, e, T)
             tb  == [tab EXCEPT ![T] = Fresh(e)]
             o2  == Busy("to_table", e)
  <1>1. o # Idle
    BY DEF Idle
  <1>2. /\ DOMAIN tab = Table /\ H \in [Elt -> Handle] /\ e \in Elt /\ H[e].live
        /\ \A x \in Elt : H[x].live => H[x].key \in Key
        /\ H[e].next = Nil /\ H[e].prev = Nil
        /\ Listed(H, o) = {} /\ Bucketed(H, o) = {}
    BY <1>1 DEF Consistent, InCall
  <1>3. {x \in Elt : H[x].live} = {e}
    BY <1>2 DEF Listed
  <1>4. /\ new \in [Elt -> Handle]
        /\ \A x \in Elt : x # e => new[x] = H[x]
        /\ new[e].live /\ new[e].tbl = T /\ new[e].next = Nil /\ new[e].prev = Nil
        /\ new[e].key = H[e].key
    <2>1. H[e] \in Handle
      BY <1>2
    <2> DEFINE h == [H[e] EXCEPT !.tbl = T]
    <2>2. h \in Handle /\ h.live /\ h.tbl = T /\ h.next = Nil /\ h.prev = Nil /\ h.key = H[e].key
      BY <1>2, <2>1 DEF Handle
    <2>3. new = [H EXCEPT ![e] = h]
      BY DEF MadeOne
    <2> HIDE DEF new, h
    <2> QED
      BY <1>2, <2>2, <2>3
  <1> HIDE DEF new
  <1>5. {x \in Elt : new[x].live} = {e}
    BY <1>2, <1>3, <1>4
  <1>6. Listed(new, o2) = {e} /\ Bucketed(new, o2) = {}
    BY <1>2, <1>5, SetsOf
  <1>7. InCall(e, new, o2)
    BY <1>2, <1>4, BusyOp, HashTableAssumption DEF InCall
  <1>8. DOMAIN tb = Table /\ tb[T] = Fresh(e)
    BY <1>2
  <1> HIDE DEF tb
  <1>9. ListHolds(Chain(Nexts(new), e), e, e, new, {e})
    <2>1. /\ <<e>> \in Seq(Elt) /\ Len(<<e>>) = 1 /\ <<e>>[1] = e /\ Members(<<e>>) = {e}
          /\ \A i \in 1..1 : i = 1
      BY <1>2 DEF Members
    <2>2. Nexts(new)[e] = Nil /\ Prevs(new)[e] = Nil
      BY <1>2, <1>4 DEF Nexts, Prevs
    <2>3. Linked(<<e>>, e, Nexts(new), Prevs(new))
      BY <2>1, <2>2 DEF Linked
    <2>4. ListHolds(<<e>>, e, e, new, {e})
      BY <2>1, <2>3 DEF ListHolds
    <2> QED
      BY <2>4, InList
  <1>10. Made(e, tb, new, {e}, {})
    BY <1>4, <1>8, <1>9, FreshTable DEF Made
  <1>11. e # Nil
    BY <1>2, HashTableAssumption
  <1> HIDE DEF o2
  <1>12. Consistent(e, tb, new, o2)
    BY <1>2, <1>4, <1>6, <1>7, <1>8, <1>10, <1>11 DEF Consistent
  <1> QED
    BY <1>2, <1>6, <1>12 DEF new, tb, o2

(* AddAppend                                                                *)
AppendedTo(H, e, T, tail) == [H EXCEPT ![e].tbl = T, ![e].prev = tail, ![tail].next = e]
AppendedBeside(new, H, x, e, tail) ==
  /\ new[x].live = H[x].live /\ SameHhLinks(new, H, x)
  /\ new[x].next = IF x = tail THEN e ELSE H[x].next
  /\ x # e => new[x].prev = H[x].prev /\ new[x].tbl = H[x].tbl

LEMMA AppendedHandles ==
  ASSUME NEW H \in [Elt -> Handle], NEW e \in Elt, NEW T \in Table, NEW tail \in Elt, tail # e
  PROVE  LET new == AppendedTo(H, e, T, tail) IN
         /\ new \in [Elt -> Handle]
         /\ new[e].tbl = T /\ new[e].prev = tail
         /\ \A x \in Elt : AppendedBeside(new, H, x, e, tail)
PROOF
  <1> DEFINE h == [H[e] EXCEPT !.tbl = T, !.prev = tail]
             g == [H[tail] EXCEPT !.next = e]
             new == AppendedTo(H, e, T, tail)
  <1>1. /\ h \in Handle /\ h.tbl = T /\ h.prev = tail /\ h.live = H[e].live /\ h.key = H[e].key
        /\ h.next = H[e].next /\ h.hh_next = H[e].hh_next /\ h.hh_prev = H[e].hh_prev
    <2>1. H[e] \in Handle
      OBVIOUS
    <2> QED
      BY <2>1 DEF Handle
  <1>2. /\ g \in Handle /\ g.next = e /\ g.live = H[tail].live /\ g.key = H[tail].key
        /\ g.prev = H[tail].prev /\ g.tbl = H[tail].tbl
        /\ g.hh_next = H[tail].hh_next /\ g.hh_prev = H[tail].hh_prev
    <2>1. H[tail] \in Handle
      OBVIOUS
    <2> QED
      BY <2>1 DEF Handle
  <1>3. new = [x \in Elt |-> IF x = e THEN h ELSE IF x = tail THEN g ELSE H[x]]
    BY DEF AppendedTo
  <1> HIDE DEF new, h, g
  <1>4. \A x \in Elt : AppendedBeside(new, H, x, e, tail)
    BY <1>1, <1>2, <1>3 DEF AppendedBeside, SameHhLinks
  <1>5. new \in [Elt -> Handle]
    BY <1>1, <1>2, <1>3
  <1> QED
    BY <1>1, <1>3, <1>4, <1>5 DEF new

TailSet(tab, T, e) == [tab EXCEPT ![T].tail = e]

LEMMA TailSetTable ==
  ASSUME NEW tab, DOMAIN tab = Table, NEW T \in Table, Shaped(tab[T]), NEW e
  PROVE  LET new == TailSet(tab, T, e) IN
         DOMAIN new = Table /\ new[T].tail = e /\ SameBuckets(new[T], tab[T])
PROOF
  <1> DEFINE tb == [tab[T] EXCEPT !.tail = e]
  <1>1. tb.tail = e /\ SameBuckets(tb, tab[T])
    BY DEF Shaped, SameBuckets
  <1>2. TailSet(tab, T, e) = [tab EXCEPT ![T] = tb]
    BY DEF TailSet
  <1> HIDE DEF tb
  <1> QED
    BY <1>1, <1>2

LEMMA AppendedConsistent ==
  ASSUME NEW hd, NEW tab, NEW H, NEW o, Consistent(hd, tab, H, o), o.step = "append",
         NEW e, e = o.e, NEW T, T = H[hd].tbl, NEW tail, tail = tab[T].tail
  PROVE  /\ e \in Elt
         /\ Consistent(hd, TailSet(tab, T, e), AppendedTo(H, e, T, tail), Busy("to_table", e))
         /\ Bucketed(AppendedTo(H, e, T, tail), Busy("to_table", e)) = Bucketed(H, o)
PROOF
  <1> DEFINE new == AppendedTo(H, e, T, tail)
             tb2 == TailSet(tab, T, e)
             o2  == Busy("to_table", e)
             A   == {x \in Elt : H[x].live}
             L   == A \ {e}
             s   == Chain(Nexts(H), hd)
  <1>1. o # Idle
    BY DEF Idle
  <1>2. /\ DOMAIN tab = Table /\ H \in [Elt -> Handle] /\ e \in Elt /\ H[e].live
        /\ \A x \in Elt : H[x].live => H[x].key \in Key
        /\ H[e].next = Nil
        /\ hd \in Elt /\ hd # Nil
        /\ Made(hd, tab, H, Listed(H, o), Bucketed(H, o))
    BY <1>1 DEF Consistent, InCall
  <1>3. Listed(H, o) = L /\ Bucketed(H, o) = L
    BY <1>2 DEF Listed, Bucketed
  <1>4. /\ T \in Table /\ (\A x \in L : H[x].tbl = T) /\ TableHolds(tab[T], H, L)
        /\ ListHolds(s, hd, tail, H, L)
    BY <1>2, <1>3 DEF Made
  <1> HIDE DEF s
  <1>5. /\ Linked(s, hd, Nexts(H), Prevs(H)) /\ Members(s) = L
        /\ Len(s) # 0 /\ tail = s[Len(s)]
    BY <1>4 DEF ListHolds
  <1>6. tail \in L /\ hd \in L
    <2>1. Len(s) \in 1..Len(s) /\ 1 \in 1..Len(s) /\ hd = s[1]
      BY <1>5 DEF Linked
    <2> QED
      BY <1>5, <2>1 DEF Members
  <1>7. tail \in Elt /\ tail # e /\ hd # e /\ e \in Elt \ Members(s) /\ L \subseteq Elt
    BY <1>2, <1>5, <1>6
  <1>8. /\ new \in [Elt -> Handle] /\ new[e].tbl = T /\ new[e].prev = tail
        /\ \A x \in Elt : AppendedBeside(new, H, x, e, tail)
    BY <1>2, <1>4, <1>7, AppendedHandles
  <1> HIDE DEF new
  <1>9. \A x \in Elt : new[x].live = H[x].live /\ new[x].key = H[x].key
    BY <1>8 DEF AppendedBeside, SameHhLinks
  <1>10. Listed(new, o2) = L \cup {e} /\ Bucketed(new, o2) = L
    <2>1. {x \in Elt : new[x].live} = A
      BY <1>9
    <2>2. L \cup {e} = A
      BY <1>2
    <2> HIDE DEF A
    <2> QED
      BY <1>2, <2>1, <2>2, SetsOf
  <1>11. InCall(hd, new, o2)
    BY <1>2, <1>9, BusyOp DEF InCall
  <1>12. DOMAIN tb2 = Table /\ tb2[T].tail = e /\ SameBuckets(tb2[T], tab[T])
    <2>1. Shaped(tab[T])
      BY <1>4 DEF TableHolds, BucketsHold
    <2> QED
      BY <1>2, <1>4, <2>1, TailSetTable
  <1> HIDE DEF tb2
  <1>13. ListHolds(Chain(Nexts(new), hd), hd, e, new, L \cup {e})
    <2>1. Nexts(new)[e] = Nil /\ Prevs(new)[e] = s[Len(s)]
      BY <1>2, <1>5, <1>7, <1>8 DEF Nexts, Prevs, AppendedBeside
    <2>2. \A x \in Members(s) : /\ Nexts(new)[x] = IF x = s[Len(s)] THEN e ELSE Nexts(H)[x]
                                /\ Prevs(new)[x] = Prevs(H)[x]
      BY <1>5, <1>7, <1>8 DEF Nexts, Prevs, AppendedBeside
    <2>3. /\ Linked(Append(s, e), hd, Nexts(new), Prevs(new))
          /\ Members(Append(s, e)) = Members(s) \cup {e}
          /\ Len(Append(s, e)) = Len(s) + 1 /\ Append(s, e)[Len(s) + 1] = e
      BY <1>5, <1>7, <2>1, <2>2, Appended
    <2>4. Len(s) + 1 # 0
      BY <1>5 DEF Linked
    <2>5. ListHolds(Append(s, e), hd, e, new, L \cup {e})
      BY <1>5, <2>3, <2>4 DEF ListHolds
    <2> QED
      BY <2>5, InList
  <1>14. TableHolds(tb2[T], new, L)
    <2>1. \A x \in L : SameHhLinks(new, H, x)
      BY <1>7, <1>8 DEF AppendedBeside
    <2> HIDE DEF L
    <2> QED
      BY <1>4, <1>12, <2>1, TableUntouched
  <1>15. new[hd].tbl = T /\ \A x \in L \cup {e} : new[x].tbl = T
    BY <1>2, <1>4, <1>6, <1>7, <1>8 DEF AppendedBeside
  <1> HIDE DEF L
  <1>16. Made(hd, tb2, new, L \cup {e}, L)
    BY <1>4, <1>12, <1>13, <1>14, <1>15 DEF Made
  <1> HIDE DEF o2
  <1>17. Consistent(hd, tb2, new, o2)
    BY <1>2, <1>8, <1>9, <1>10, <1>11, <1>12, <1>16 DEF Consistent
  <1> QED
    BY <1>2, <1>3, <1>10, <1>17 DEF new, tb2, o2

(* DeleteOnly                                                               *)
Dropped(tab, T) == [tab EXCEPT ![T].live = FALSE]
WithoutEntry(H, e) == [H EXCEPT ![e] = Unused]

LEMMA OnlyConsistent ==
  ASSUME NEW hd, NEW tab, NEW H, Consistent(hd, tab, H, Idle), hd # Nil,
         NEW e \in Elt, H[e].live, H[e].prev = Nil, H[e].next = Nil
  PROVE  /\ Consistent(Nil, Dropped(tab, H[hd].tbl), WithoutEntry(H, e), Idle)
         /\ Bucketed(H, Idle) = {e} /\ Bucketed(WithoutEntry(H, e), Idle) = {}
PROOF
  <1> DEFINE new == WithoutEntry(H, e)
             A   == {x \in Elt : H[x].live}
             s   == Chain(Nexts(H), hd)
             tb2 == Dropped(tab, H[hd].tbl)
  <1>1. /\ hd \in Elt /\ DOMAIN tab = Table /\ H \in [Elt -> Handle]
        /\ \A x \in Elt : H[x].live => H[x].key \in Key
        /\ Made(hd, tab, H, A, A)
    BY SetsIdle DEF Consistent
  <1>2. Linked(s, hd, Nexts(H), Prevs(H)) /\ Members(s) = A
    BY <1>1 DEF Made, ListHolds
  <1> HIDE DEF s
  <1>3. PICK i \in 1..Len(s) : e = s[i]
    <2>1. e \in Members(s)
      BY <1>2
    <2> QED
      BY <2>1 DEF Members
  <1>4. i = Len(s) /\ i = 1
    <2>1. Nexts(H)[s[i]] = Nil /\ Prevs(H)[s[i]] = Nil
      BY <1>3 DEF Nexts, Prevs
    <2>2. /\ \A j \in 1..Len(s) : s[j] # Nil
          /\ i # Len(s) => i + 1 \in 1..Len(s)
          /\ i # 1 => i - 1 \in 1..Len(s)
      BY <1>2, HashTableAssumption DEF Linked
    <2>3. /\ Nexts(H)[s[i]] = IF i = Len(s) THEN Nil ELSE s[i + 1]
          /\ Prevs(H)[s[i]] = IF i = 1 THEN Nil ELSE s[i - 1]
      BY <1>2 DEF Linked
    <2> QED
      BY <2>1, <2>2, <2>3
  <1>5. A = {e}
    <2>1. \A j \in 1..Len(s) : j = 1
      BY <1>4
    <2> QED
      BY <1>2, <1>3, <1>4, <2>1 DEF Members
  <1>6. Unused \in Handle /\ ~Unused.live
    BY DEF Unused, Handle
  <1>7. new \in [Elt -> Handle] /\ \A x \in Elt : ~new[x].live
    BY <1>1, <1>5, <1>6 DEF WithoutEntry
  <1> HIDE DEF new
  <1>8. Listed(new, Idle) = {} /\ Bucketed(new, Idle) = {}
    BY <1>7, SetsIdle
  <1>9. InCall(Nil, new, Idle)
    BY DEF InCall, Idle
  <1>10. DOMAIN tb2 = Table
    BY <1>1 DEF Dropped
  <1> HIDE DEF tb2
  <1>11. Consistent(Nil, tb2, new, Idle)
    BY <1>7, <1>8, <1>9, <1>10 DEF Consistent
  <1>12. Bucketed(H, Idle) = {e}
    BY <1>5, SetsIdle
  <1> QED
    BY <1>8, <1>11, <1>12 DEF new, tb2

(* AddToTable                                                               *)
Replaced(tab, T, tb) == [tab EXCEPT ![T] = tb]

LEMMA CardinalityWith ==
  ASSUME NEW S \in SUBSET Elt, NEW e \in S
  PROVE  Cardinality(S) = Cardinality(S \ {e}) + 1 /\ Cardinality(S \ {e}) \in Nat
PROOF
  <1>1. IsFiniteSet(S)
    BY HashTableAssumption, FS_Subset
  <1>2. /\ Cardinality(S \ {e}) = IF e \in S THEN Cardinality(S) - 1 ELSE Cardinality(S)
        /\ IsFiniteSet(S \ {e})
    BY <1>1, FS_RemoveElement
  <1>3. Cardinality(S) \in Nat /\ Cardinality(S \ {e}) \in Nat
    BY <1>1, <1>2, FS_CardinalityType
  <1> QED
    BY <1>2, <1>3

LEMMA AddedConsistent ==
  ASSUME NEW hd, NEW tab, NEW H, NEW o, Consistent(hd, tab, H, o), o.step = "to_table",
         NEW e, e = o.e, NEW T, T = H[hd].tbl,
         NEW new, \A x \in Elt : SameBut(new[x], H[x]), new \in [Elt -> Handle],
         NEW tb, tb.tail = tab[T].tail, tb.num_items = tab[T].num_items + 1,
         tb.live = tab[T].live,
         BucketsHold(tb, new, Bucketed(H, o) \cup {e})
  PROVE  /\ Consistent(hd, Replaced(tab, T, tb), new, Busy("assert", e))
         /\ Bucketed(new, Busy("assert", e)) = Bucketed(H, o) \cup {e}
PROOF
  <1> DEFINE A   == {x \in Elt : H[x].live}
             tb2 == Replaced(tab, T, tb)
             o2  == Busy("assert", e)
  <1>1. o # Idle
    BY DEF Idle
  <1>2. /\ DOMAIN tab = Table /\ e \in Elt /\ H[e].live /\ e \in A /\ A \subseteq Elt
        /\ \A x \in Elt : H[x].live => H[x].key \in Key
        /\ hd \in Elt /\ hd # Nil
        /\ Made(hd, tab, H, Listed(H, o), Bucketed(H, o))
    BY <1>1 DEF Consistent, InCall
  <1>3. Listed(H, o) = A /\ Bucketed(H, o) = A \ {e} /\ Bucketed(H, o) \cup {e} = A
    BY <1>2 DEF Listed, Bucketed
  <1>4. A = {x \in Elt : new[x].live}
    BY DEF SameBut
  <1> HIDE DEF A
  <1>5. /\ T \in Table /\ (\A x \in A : H[x].tbl = T)
        /\ ListHolds(Chain(Nexts(H), hd), hd, tb.tail, H, A)
        /\ tb.num_items = Cardinality(A) /\ tb.live
    <2>1. tab[T].num_items = Cardinality(A \ {e}) /\ tab[T].live
      BY <1>2, <1>3 DEF Made, TableHolds
    <2> QED
      BY <1>2, <1>3, <2>1, CardinalityWith DEF Made
  <1>6. \A x \in A : SameLinks(new, H, x) /\ new[x].tbl = T
    BY <1>2, <1>5 DEF SameLinks, SameBut
  <1>7. new[hd].tbl = T
    BY <1>2 DEF SameBut
  <1>8. ListHolds(Chain(Nexts(new), hd), hd, tb.tail, new, A)
    BY <1>2, <1>5, <1>6, ListUntouched
  <1>9. DOMAIN tb2 = Table /\ tb2[T] = tb
    BY <1>2, <1>5 DEF Replaced
  <1> HIDE DEF tb2
  <1>10. TableHolds(tb, new, A)
    BY <1>3, <1>5 DEF TableHolds
  <1>11. Made(hd, tb2, new, A, A)
    BY <1>5, <1>6, <1>7, <1>8, <1>9, <1>10 DEF Made
  <1>12. Listed(new, o2) = A /\ Bucketed(new, o2) = A
    BY <1>2, <1>4, SetsOf
  <1>13. InCall(hd, new, o2)
    BY <1>2, BusyOp DEF InCall, SameBut
  <1> HIDE DEF o2
  <1>14. \A x \in Elt : new[x].live => new[x].key \in Key
    BY <1>2 DEF SameBut
  <1>15. Consistent(hd, tb2, new, o2)
    BY <1>2, <1>9, <1>11, <1>12, <1>13, <1>14 DEF Consistent
  <1> QED
    BY <1>3, <1>12, <1>15 DEF tb2, o2

(* HASH_ADD_TO_BKT, and the rest of what it leaves as it was.               *)
PushedWell(tb2, H2, tb, H, B, e) ==
  /\ BucketsHold(tb2, H2, B \cup {e})
  /\ tb2.num_items = tb.num_items + 1 /\ tb2.tail = tb.tail /\ tb2.live = tb.live
  /\ H2 \in [Elt -> Handle] /\ \A x \in Elt : SameBut(H2[x], H[x])

LEMMA PushedIntoBucket ==
  ASSUME NEW tb, NEW H, NEW B, NEW e, NEW b, NEW old, PushInto(tb, H, B, e, b, old)
  PROVE  PushedWell(Pushed(e, b, tb), PushedLinks(e, old, H), tb, H, B, e)
PROOF
  <1> DEFINE tb2 == Pushed(e, b, tb)
             H2  == PushedLinks(e, old, H)
  <1>1. /\ H \in [Elt -> Handle] /\ BucketsHold(tb, H, B)
        /\ e \in Elt \ B /\ H[e].key \in Key
        /\ b = BktOf(H[e].key, tb.buckets) /\ old = tb.buckets[b].hh_head
    BY DEF PushInto
  <1> HIDE DEF tb2, H2
  <1>2. /\ b \in 1..Len(tb.buckets) /\ old \in Elt \cup {Nil} /\ old # e
        /\ BucketsHold(tb2, H2, B \cup {e})
    BY BucketPushed DEF tb2, H2
  <1>3. tb2.num_items = tb.num_items + 1 /\ tb2.tail = tb.tail /\ tb2.live = tb.live
    <2>1. Shaped(tb)
      BY <1>1 DEF BucketsHold
    <2> QED
      BY <1>2, <2>1, PushedTable DEF tb2
  <1>4. /\ H2 \in [Elt -> Handle]
        /\ Nexts(H2) = Nexts(H) /\ Prevs(H2) = Prevs(H)
        /\ \A x \in Elt : /\ H2[x].key = H[x].key /\ H2[x].tbl = H[x].tbl
                          /\ H2[x].live = H[x].live
    <2>1. H \in [Elt -> Handle] /\ e \in Elt /\ old \in Elt \cup {Nil} /\ old # e
      BY <1>1, <1>2
    <2> QED
      BY <2>1, PushedHandles DEF H2
  <1>5. \A x \in Elt : SameBut(H2[x], H[x])
    <2>1. \A x \in Elt : Nexts(H2)[x] = Nexts(H)[x] /\ Prevs(H2)[x] = Prevs(H)[x]
      BY <1>4
    <2>2. \A x \in Elt : H2[x].next = H[x].next /\ H2[x].prev = H[x].prev
      BY <2>1 DEF Nexts, Prevs
    <2> QED
      BY <1>4, <2>2 DEF SameBut
  <1> QED
    BY <1>2, <1>3, <1>4, <1>5 DEF PushedWell, tb2, H2

(* A call is to add its entry to the table, and what AddToTable then reads. *)
AddArgs(hd, tab, H, o, e, T, was, b, old) ==
  /\ Consistent(hd, tab, H, o) /\ o.step = "to_table"
  /\ e = o.e /\ T = H[hd].tbl /\ was = tab[T]
  /\ b = BktOf(H[e].key, was.buckets) /\ old = was.buckets[b].hh_head

LEMMA PushedConsistent ==
  ASSUME NEW hd, NEW tab, NEW H, NEW o, NEW e, NEW T, NEW was, NEW b, NEW old,
         AddArgs(hd, tab, H, o, e, T, was, b, old)
  PROVE  LET tb  == Pushed(e, b, was)
             new == PushedLinks(e, old, H)
             o2  == Busy("assert", e)
             chains == NewChains(tb, new) IN
         /\ e \in Elt /\ e \notin Bucketed(H, o)
         /\ Consistent(hd, Replaced(tab, T, tb), new, o2)
         /\ Bucketed(new, o2) = Bucketed(H, o) \cup {e}
         /\ Consistent(hd, Replaced(tab, T, Expanded(tb, chains)), Relinked(chains, new), o2)
         /\ Bucketed(Relinked(chains, new), o2) = Bucketed(H, o) \cup {e}
PROOF
  <1> DEFINE tb  == Pushed(e, b, was)
             new == PushedLinks(e, old, H)
             o2  == Busy("assert", e)
             chains == NewChains(tb, new)
             B   == Bucketed(H, o)
             H3  == Relinked(chains, new)
             tb3 == Expanded(tb, chains)
  <1> USE DEF AddArgs
  <1>1. o # Idle
    BY DEF Idle
  <1>2. /\ H \in [Elt -> Handle] /\ e \in Elt /\ H[e].key \in Key
        /\ e \notin B
        /\ TableHolds(was, H, B)
    BY <1>1 DEF Consistent, InCall, Made, Bucketed
  <1> HIDE DEF B
  <1> HIDE DEF chains, H3, tb3, tb, new, o2
  <1>3. PushInto(was, H, B, e, b, old)
    BY <1>2 DEF PushInto, TableHolds
  <1>4. PushedWell(tb, new, was, H, B, e)
    BY <1>3, PushedIntoBucket DEF tb, new
  <1>5. /\ BucketsHold(tb, new, B \cup {e}) /\ tb.num_items = was.num_items + 1
        /\ tb.tail = was.tail /\ tb.live = was.live
    BY <1>4 DEF PushedWell
  <1>6. new \in [Elt -> Handle] /\ \A x \in Elt : SameBut(new[x], H[x])
    BY <1>4 DEF PushedWell
  <1>7. /\ Consistent(hd, Replaced(tab, T, tb), new, o2)
        /\ Bucketed(new, o2) = B \cup {e}
    BY <1>5, <1>6, AddedConsistent DEF B, o2
  <1>8. BucketsHold(tb3, H3, B \cup {e})
    BY <1>5, <1>6, BucketsExpanded DEF chains, H3, tb3
  <1>9. Filled(chains, new, B \cup {e})
    BY <1>5, NewChainsFilled DEF chains
  <1>10. H3 \in [Elt -> Handle] /\ \A x \in Elt : SameBut(H3[x], new[x])
    BY <1>6, <1>9, RelinkedHandles DEF H3
  <1>11. tb3.num_items = was.num_items + 1 /\ tb3.tail = was.tail /\ tb3.live = was.live
    <2>1. /\ Len(chains) \in Nat \ {0} /\ chains \in [1..Len(chains) -> Seq(Elt)]
      BY <1>9 DEF Filled
    <2>2. Shaped(tb)
      BY <1>5 DEF BucketsHold
    <2>3. Widened(tb3, tb, chains, Len(chains))
      BY <2>1, <2>2, ExpandedTable DEF tb3
    <2> QED
      BY <1>5, <2>3 DEF Widened
  <1>12. \A x \in Elt : SameBut(H3[x], H[x])
    BY <1>6, <1>10 DEF SameBut
  <1>13. /\ Consistent(hd, Replaced(tab, T, tb3), H3, o2)
         /\ Bucketed(H3, o2) = B \cup {e}
    BY <1>8, <1>10, <1>11, <1>12, AddedConsistent DEF B, o2
  <1> QED
    BY <1>2, <1>7, <1>13 DEF tb, new, o2, chains, B, H3, tb3

(* DeleteUnlink                                                             *)
UnlinkedLinks(H, p, n) ==
  [x \in Elt |-> IF x = p THEN [H[x] EXCEPT !.next = n]
                 ELSE IF x = n THEN [H[x] EXCEPT !.prev = p] ELSE H[x]]
UnlinkedBeside(new, H, x, p, n) ==
  /\ new[x] \in Handle /\ new[x].live = H[x].live /\ new[x].tbl = H[x].tbl
  /\ SameHhLinks(new, H, x)
  /\ new[x].next = IF x = p THEN n ELSE H[x].next
  /\ new[x].prev = IF x = n THEN p ELSE H[x].prev

LEMMA UnlinkedHandle ==
  ASSUME NEW H \in [Elt -> Handle],
         NEW p \in Elt \cup {Nil}, NEW n \in Elt \cup {Nil}, p = n => p = Nil, NEW x \in Elt
  PROVE  UnlinkedBeside(UnlinkedLinks(H, p, n), H, x, p, n)
PROOF
  <1> DEFINE new == UnlinkedLinks(H, p, n)
             h   == H[x]
  <1>1. h \in Handle /\ x # Nil
    BY HashTableAssumption
  <1>2. CASE x = p
    <2>1. new[x] = [h EXCEPT !.next = n] /\ x # n
      BY <1>1, <1>2 DEF UnlinkedLinks
    <2> HIDE DEF new, h
    <2> QED
      BY <1>1, <1>2, <2>1 DEF UnlinkedBeside, SameHhLinks, Handle, h, new
  <1>3. CASE x # p /\ x = n
    <2>1. new[x] = [h EXCEPT !.prev = p]
      BY <1>3 DEF UnlinkedLinks
    <2> HIDE DEF new, h
    <2> QED
      BY <1>1, <1>3, <2>1 DEF UnlinkedBeside, SameHhLinks, Handle, h, new
  <1>4. CASE x # p /\ x # n
    <2>1. new[x] = h
      BY <1>4 DEF UnlinkedLinks
    <2> HIDE DEF new
    <2> QED
      BY <1>1, <1>4, <2>1 DEF UnlinkedBeside, SameHhLinks, new
  <1> QED
    BY <1>2, <1>3, <1>4

(* Where an entry of the list is, and what is beside it.                    *)
LEMMA PlaceInList ==
  ASSUME NEW s, NEW hd, NEW tail, NEW H, NEW L, ListHolds(s, hd, tail, H, L), NEW e \in L,
         L \subseteq Elt, NEW p, p = H[e].prev, NEW n, n = H[e].next
  PROVE  \E k \in 1..Len(s) :
           /\ s[k] = e /\ n = Nexts(H)[s[k]] /\ p = Prevs(H)[s[k]]
           /\ n = IF k = Len(s) THEN Nil ELSE s[k + 1]
           /\ p = IF k = 1 THEN Nil ELSE s[k - 1]
           /\ n = Nil \/ (n \in L /\ n # e)
           /\ p = Nil \/ (p \in L /\ p # e)
           /\ p = n => p = Nil
           /\ p = Nil <=> hd = e
           /\ p # Nil \/ n # Nil => Len(s) > 1
PROOF
  <1>1. Linked(s, hd, Nexts(H), Prevs(H)) /\ Members(s) = L
    BY DEF ListHolds
  <1>2. PICK k \in 1..Len(s) : s[k] = e
    <2>1. e \in Members(s)
      BY <1>1
    <2> QED
      BY <2>1 DEF Members
  <1>3. n = Nexts(H)[s[k]] /\ p = Prevs(H)[s[k]]
    BY <1>2 DEF Nexts, Prevs
  <1>4. /\ n = IF k = Len(s) THEN Nil ELSE s[k + 1]
        /\ p = IF k = 1 THEN Nil ELSE s[k - 1]
    BY <1>1, <1>3 DEF Linked
  <1>5. /\ k \in Nat /\ Len(s) \in Nat /\ k <= Len(s) /\ k >= 1
        /\ \A i, j \in 1..Len(s) : s[i] = s[j] => i = j
        /\ \A i \in 1..Len(s) : s[i] \in L /\ s[i] # Nil
        /\ hd = s[1] /\ 1 \in 1..Len(s)
    BY <1>1, HashTableAssumption DEF Linked, Members
  <1>6. k # Len(s) => k + 1 \in 1..Len(s) /\ k + 1 # k
    BY <1>5
  <1>7. k # 1 => k - 1 \in 1..Len(s) /\ k - 1 # k
    BY <1>5
  <1>8. /\ n = Nil \/ (n \in L /\ n # e)
        /\ p = Nil \/ (p \in L /\ p # e)
    BY <1>2, <1>4, <1>5, <1>6, <1>7
  <1>9. p = n => p = Nil
    <2>1. k # Len(s) /\ k # 1 => k + 1 # k - 1
      BY <1>5
    <2> QED
      BY <1>4, <1>5, <1>6, <1>7, <2>1
  <1>10. p = Nil <=> hd = e
    BY <1>2, <1>4, <1>5, <1>7
  <1>11. p # Nil \/ n # Nil => Len(s) > 1
    BY <1>4, <1>5
  <1> QED
    BY <1>2, <1>3, <1>4, <1>8, <1>9, <1>10, <1>11

UnlinkArgs(hd, tab, H, e, p, n, T, tail, hd2) ==
  /\ Consistent(hd, tab, H, Idle) /\ hd # Nil
  /\ e \in Elt /\ H[e].live /\ p = H[e].prev /\ n = H[e].next
  /\ p # Nil \/ n # Nil
  /\ T = H[hd].tbl /\ tail = IF tab[T].tail = e THEN p ELSE tab[T].tail
  /\ hd2 = IF p = Nil THEN n ELSE hd

LEMMA UnlinkedConsistent ==
  ASSUME NEW hd, NEW tab, NEW H, NEW e, NEW p, NEW n, NEW T, NEW tail, NEW hd2,
         UnlinkArgs(hd, tab, H, e, p, n, T, tail, hd2)
  PROVE  LET new == UnlinkedLinks(H, p, n)
             o2  == Busy("del_bkt", e) IN
         /\ Consistent(hd2, TailSet(tab, T, tail), new, o2)
         /\ Bucketed(new, o2) = Bucketed(H, Idle)
PROOF
  <1> DEFINE new == UnlinkedLinks(H, p, n)
             tb2 == TailSet(tab, T, tail)
             o2  == Busy("del_bkt", e)
             A   == {x \in Elt : H[x].live}
             L   == A \ {e}
             s   == Chain(Nexts(H), hd)
             was == tab[T].tail
  <1>1. /\ hd \in Elt /\ DOMAIN tab = Table /\ H \in [Elt -> Handle]
        /\ \A x \in Elt : H[x].live => H[x].key \in Key
        /\ Made(hd, tab, H, A, A)
    BY SetsIdle DEF Consistent, UnlinkArgs
  <1>2. A \subseteq Elt /\ e \in A /\ e \in Elt
    BY DEF UnlinkArgs
  <1> HIDE DEF A
  <1>3. /\ T \in Table /\ (\A x \in A : H[x].tbl = T) /\ TableHolds(tab[T], H, A)
        /\ ListHolds(s, hd, was, H, A)
    BY <1>1 DEF Made, UnlinkArgs
  <1> HIDE DEF s, was
  <1>4. PICK k \in 1..Len(s) :
           /\ s[k] = e /\ n = Nexts(H)[s[k]] /\ p = Prevs(H)[s[k]]
           /\ n = Nil \/ (n \in A /\ n # e)
           /\ p = Nil \/ (p \in A /\ p # e)
           /\ p = n => p = Nil
           /\ p = Nil <=> hd = e
           /\ Len(s) > 1
    <2>1. p = H[e].prev /\ n = H[e].next /\ (p # Nil \/ n # Nil)
      BY DEF UnlinkArgs
    <2> QED
      BY <1>2, <1>3, <2>1, PlaceInList
  <1>5. p \in Elt \cup {Nil} /\ n \in Elt \cup {Nil}
    BY <1>2, <1>4
  <1>6. \A x \in Elt : UnlinkedBeside(new, H, x, p, n)
    BY <1>1, <1>4, <1>5, UnlinkedHandle
  <1>7. new = [x \in Elt |-> new[x]]
    BY DEF UnlinkedLinks
  <1> HIDE DEF new
  <1>8. new \in [Elt -> Handle]
    <2>1. \A x \in Elt : new[x] \in Handle
      BY <1>6 DEF UnlinkedBeside
    <2> QED
      BY <1>7, <2>1
  <1>9. /\ \A x \in Elt : new[x].live = H[x].live /\ new[x].key = H[x].key /\ new[x].tbl = H[x].tbl
        /\ \A x \in Elt : SameHhLinks(new, H, x)
    BY <1>6 DEF UnlinkedBeside, SameHhLinks
  <1>10. /\ Linked(s, hd, Nexts(H), Prevs(H)) /\ Members(s) = A /\ Len(s) # 0 /\ was = s[Len(s)]
         /\ Len(s) \in Nat
    BY <1>3 DEF ListHolds, Linked
  <1>11. /\ Linked(Without(s, k), hd2, Nexts(new), Prevs(new))
         /\ Members(Without(s, k)) = L
         /\ Len(Without(s, k)) = Len(s) - 1
         /\ Without(s, k)[Len(s) - 1] = tail
    <2>1. \A x \in Members(s) \ {s[k]} :
            /\ Nexts(new)[x] = IF x = Prevs(H)[s[k]] THEN Nexts(H)[s[k]] ELSE Nexts(H)[x]
            /\ Prevs(new)[x] = IF x = Nexts(H)[s[k]] THEN Prevs(H)[s[k]] ELSE Prevs(H)[x]
      <3>1. \A x \in Elt : /\ Nexts(new)[x] = IF x = p THEN n ELSE Nexts(H)[x]
                           /\ Prevs(new)[x] = IF x = n THEN p ELSE Prevs(H)[x]
        BY <1>6 DEF UnlinkedBeside, Nexts, Prevs
      <3> QED
        BY <1>2, <1>4, <1>10, <3>1
    <2> DEFINE r == Without(s, k)
               first == IF hd = s[k] THEN Nexts(H)[s[k]] ELSE hd
    <2> HIDE DEF r, first
    <2>2. /\ Linked(r, first, Nexts(new), Prevs(new))
          /\ Members(r) = Members(s) \ {s[k]}
          /\ Len(r) = Len(s) - 1
          /\ r[Len(s) - 1] = IF s[Len(s)] = s[k] THEN Prevs(H)[s[k]] ELSE s[Len(s)]
      <3> DEFINE next  == Nexts(H)
                 prev  == Prevs(H)
                 next2 == Nexts(new)
                 prev2 == Prevs(new)
      <3> HIDE DEF next, prev, next2, prev2
      <3>1. /\ Linked(s, hd, next, prev)
            /\ \A x \in Members(s) \ {s[k]} :
                 /\ next2[x] = IF x = prev[s[k]] THEN next[s[k]] ELSE next[x]
                 /\ prev2[x] = IF x = next[s[k]] THEN prev[s[k]] ELSE prev[x]
        BY <1>10, <2>1 DEF next, prev, next2, prev2
      <3>2. /\ Linked(Without(s, k), IF hd = s[k] THEN next[s[k]] ELSE hd, next2, prev2)
            /\ Members(Without(s, k)) = Members(s) \ {s[k]}
            /\ Len(Without(s, k)) = Len(s) - 1
            /\ Len(s) > 1 => Without(s, k)[Len(s) - 1]
                               = IF s[Len(s)] = s[k] THEN prev[s[k]] ELSE s[Len(s)]
        BY <3>1, TakenOut
      <3> QED
        BY <1>4, <3>2 DEF r, first, next, prev, next2, prev2
    <2>3. first = hd2
      BY <1>4 DEF first, UnlinkArgs
    <2> QED
      BY <1>4, <1>10, <2>2, <2>3 DEF r, was, UnlinkArgs
  <1>12. ListHolds(Chain(Nexts(new), hd2), hd2, tail, new, L)
    <2>1. Len(s) - 1 # 0
      BY <1>4, <1>10
    <2> DEFINE r == Without(s, k)
    <2> HIDE DEF r
    <2>2. ListHolds(r, hd2, tail, new, L)
      BY <1>11, <2>1 DEF ListHolds, r
    <2> QED
      BY <2>2, InList
  <1>13. hd2 \in L /\ hd2 \in Elt /\ hd2 # Nil
    <2>1. hd \in A
      <3>1. 1 \in 1..Len(s) /\ hd = s[1]
        BY <1>10 DEF Linked
      <3> QED
        BY <1>10, <3>1 DEF Members
    <2> QED
      BY <1>1, <1>2, <1>4, <2>1, HashTableAssumption DEF UnlinkArgs
  <1>14. Listed(new, o2) = L /\ Bucketed(new, o2) = A
    <2>1. {x \in Elt : new[x].live} = A
      BY <1>9 DEF A
    <2> QED
      BY <1>2, <2>1, SetsOf
  <1>15. InCall(hd2, new, o2)
    BY <1>2, <1>9, <1>13, BusyOp DEF InCall, UnlinkArgs
  <1>16. DOMAIN tb2 = Table /\ tb2[T].tail = tail /\ SameBuckets(tb2[T], tab[T])
    <2>1. Shaped(tab[T])
      BY <1>3 DEF TableHolds, BucketsHold
    <2> QED
      BY <1>1, <1>3, <2>1, TailSetTable
  <1> HIDE DEF tb2
  <1>17. TableHolds(tb2[T], new, A)
    <2>1. \A x \in A : SameHhLinks(new, H, x)
      BY <1>2, <1>9
    <2> QED
      BY <1>3, <1>16, <2>1, TableUntouched
  <1>18. new[hd2].tbl = T /\ \A x \in L : new[x].tbl = T
    BY <1>2, <1>3, <1>9, <1>13
  <1> HIDE DEF L
  <1>19. Made(hd2, tb2, new, L, A)
    BY <1>3, <1>12, <1>16, <1>17, <1>18 DEF Made
  <1> HIDE DEF o2
  <1>20. \A x \in Elt : new[x].live => new[x].key \in Key
    BY <1>1, <1>9
  <1>21. Consistent(hd2, tb2, new, o2)
    BY <1>8, <1>13, <1>14, <1>15, <1>16, <1>19, <1>20 DEF Consistent
  <1>22. Bucketed(H, Idle) = A
    BY SetsIdle DEF A
  <1> QED
    BY <1>14, <1>21, <1>22 DEF new, tb2, o2

(* DeleteBucket                                                             *)
TakeArgs(hd, tab, H, o, e, p, n, T, was, b) ==
  /\ Consistent(hd, tab, H, o) /\ o.step = "del_bkt"
  /\ e = o.e /\ p = H[e].hh_prev /\ n = H[e].hh_next
  /\ T = H[hd].tbl /\ was = tab[T] /\ b = BktOf(H[e].key, was.buckets)

LEMMA TakenConsistent ==
  ASSUME NEW hd, NEW tab, NEW H, NEW o, NEW e, NEW p, NEW n, NEW T, NEW was, NEW b,
         TakeArgs(hd, tab, H, o, e, p, n, T, was, b)
  PROVE  LET new == FreedLinks(e, p, n, H) IN
         /\ e \in Elt /\ e \in Bucketed(H, o)
         /\ Consistent(hd, Replaced(tab, T, Taken(e, b, n, was)), new, Idle)
         /\ Bucketed(new, Idle) = Bucketed(H, o) \ {e}
PROOF
  <1> DEFINE new == FreedLinks(e, p, n, H)
             tb  == Taken(e, b, n, was)
             tb2 == Replaced(tab, T, tb)
             A   == {x \in Elt : H[x].live}
             L   == A \ {e}
  <1>1. o # Idle
    BY DEF Idle, TakeArgs
  <1>2. /\ DOMAIN tab = Table /\ H \in [Elt -> Handle] /\ e \in Elt /\ H[e].live
        /\ \A x \in Elt : H[x].live => H[x].key \in Key
        /\ hd \in Elt /\ hd # Nil
        /\ Made(hd, tab, H, Listed(H, o), Bucketed(H, o))
    BY <1>1 DEF Consistent, InCall, TakeArgs
  <1>3. Listed(H, o) = L /\ Bucketed(H, o) = A /\ e \in A /\ A \subseteq Elt
    BY <1>2 DEF Listed, Bucketed, TakeArgs
  <1> HIDE DEF A
  <1>4. /\ T \in Table /\ (\A x \in L : H[x].tbl = T)
        /\ BucketsHold(was, H, A) /\ was.num_items = Cardinality(A) /\ was.live
        /\ ListHolds(Chain(Nexts(H), hd), hd, was.tail, H, L)
    BY <1>2, <1>3 DEF Made, TableHolds, TakeArgs
  <1>5. TakeOutOf(was, H, A, e, b, p, n)
    BY <1>2, <1>3, <1>4 DEF TakeOutOf, TakeArgs
  <1> HIDE DEF new, tb, L
  <1>6. /\ b \in 1..Len(was.buckets)
        /\ p \in Elt \cup {Nil} /\ n \in Elt \cup {Nil}
        /\ p # e /\ n # e /\ (p = n => p = Nil)
        /\ BucketsHold(tb, new, L)
    BY <1>5, BucketTaken DEF tb, new, L
  <1>7. tb.num_items = was.num_items - 1 /\ tb.tail = was.tail /\ tb.live = was.live
    <2>1. Shaped(was)
      BY <1>4 DEF BucketsHold
    <2> QED
      BY <1>6, <2>1, TakenTable DEF tb
  <1>8. new \in [Elt -> Handle] /\ new[e] = Unused
    BY <1>2, <1>6, FreedHandles DEF new
  <1>9. \A x \in Elt : x # e => FreedBeside(new, H, x, p, n)
    BY <1>2, <1>6, FreedHandle DEF new
  <1>10. \A x \in Elt : x # e => /\ new[x].live = H[x].live /\ new[x].key = H[x].key
                                 /\ new[x].tbl = H[x].tbl /\ SameLinks(new, H, x)
    BY <1>9 DEF FreedBeside, SameLinks, Nexts, Prevs
  <1>11. ~new[e].live
    BY <1>8 DEF Unused
  <1>12. Listed(new, Idle) = L /\ Bucketed(new, Idle) = L
    <2>1. {x \in Elt : new[x].live} = L
      BY <1>10, <1>11 DEF A, L
    <2> QED
      BY <2>1, SetsIdle
  <1>13. InCall(hd, new, Idle)
    BY DEF InCall, Idle
  <1>14. DOMAIN tb2 = Table /\ tb2[T] = tb
    BY <1>2, <1>4 DEF Replaced
  <1> HIDE DEF tb2
  <1>15. ListHolds(Chain(Nexts(new), hd), hd, tb.tail, new, L)
    <2>1. L \subseteq Elt /\ \A x \in L : SameLinks(new, H, x)
      BY <1>3, <1>10 DEF L
    <2> QED
      BY <1>4, <1>7, <2>1, ListUntouched
  <1>16. TableHolds(tb, new, L)
    <2>1. Cardinality(A) = Cardinality(L) + 1 /\ Cardinality(L) \in Nat
      BY <1>3, CardinalityWith DEF L
    <2> QED
      BY <1>4, <1>6, <1>7, <2>1 DEF TableHolds
  <1>17. hd \in L
    <2> DEFINE s == Chain(Nexts(H), hd)
    <2> HIDE DEF s
    <2>1. Linked(s, hd, Nexts(H), Prevs(H)) /\ Members(s) = L /\ Len(s) # 0
      BY <1>4 DEF ListHolds, s
    <2>2. 1 \in 1..Len(s) /\ hd = s[1]
      BY <2>1 DEF Linked
    <2> QED
      BY <2>1, <2>2 DEF Members
  <1>18. new[hd].tbl = T /\ \A x \in L : new[x].tbl = T
    BY <1>3, <1>4, <1>10, <1>17 DEF L
  <1>19. Made(hd, tb2, new, L, L)
    BY <1>4, <1>14, <1>15, <1>16, <1>18 DEF Made
  <1>20. \A x \in Elt : new[x].live => new[x].key \in Key
    BY <1>2, <1>10, <1>11
  <1>21. Consistent(hd, tb2, new, Idle)
    BY <1>2, <1>8, <1>12, <1>13, <1>14, <1>19, <1>20 DEF Consistent
  <1> QED
    BY <1>2, <1>3, <1>12, <1>21 DEF new, tb, tb2, L

-----------------------------------------------------------------------------
(* What a user of the table finds in it.                                    *)
FindableIn(hd, tab, H) ==
  IF hd = Nil THEN {}
  ELSE UNION {Range(Chain(HhNexts(H), tab[H[hd].tbl].buckets[b].hh_head)) :
                b \in DOMAIN tab[H[hd].tbl].buckets}

LEMMA BucketsAreFindable ==
  ASSUME NEW hd, NEW tab, NEW H, NEW o, Consistent(hd, tab, H, o)
  PROVE  FindableIn(hd, tab, H) = Bucketed(H, o)
PROOF
  <1>1. CASE hd = Nil
    BY <1>1 DEF Consistent, FindableIn
  <1>2. CASE hd # Nil
    <2> DEFINE tb == tab[H[hd].tbl]
               B  == Bucketed(H, o)
               m  == Len(tb.buckets)
    <2>1. BucketsHold(tb, H, B)
      BY <1>2 DEF Consistent, Made, TableHolds
    <2>2. FindableIn(hd, tab, H) = UNION {Range(ChainOf(b, tb, H)) : b \in DOMAIN tb.buckets}
      BY <1>2 DEF FindableIn, ChainOf
    <2> HIDE DEF tb, B
    <2>3. m \in Nat \ {0} /\ DOMAIN tb.buckets = 1..m
      BY <2>1 DEF BucketsHold, Shaped
    <2>4. ASSUME NEW b \in 1..m
          PROVE  Range(ChainOf(b, tb, H)) = {e \in B : BktOf(H[e].key, tb.buckets) = b}
      <3>1. BucketHolds(ChainOf(b, tb, H), b, tb, H, B)
        BY <2>1 DEF BucketsHold
      <3> DEFINE s == ChainOf(b, tb, H)
      <3> HIDE DEF s
      <3>2. s \in Seq(Elt) /\ Members(s) = {e \in B : BktOf(H[e].key, tb.buckets) = b}
        BY <3>1 DEF BucketHolds, Linked, s
      <3>3. Range(s) = Members(s)
        BY <3>2 DEF Range, Members
      <3> QED
        BY <3>2, <3>3 DEF s
    <2>5. \A e \in B : BktOf(H[e].key, tb.buckets) \in 1..m
      BY <2>1, <2>3, BktInRange DEF BucketsHold
    <2> HIDE DEF m
    <2>6. UNION {Range(ChainOf(b, tb, H)) : b \in 1..m} = B
      <3> DEFINE F(b) == {e \in B : BktOf(H[e].key, tb.buckets) = b}
      <3>1. {Range(ChainOf(b, tb, H)) : b \in 1..m} = {F(b) : b \in 1..m}
        BY <2>4
      <3>2. UNION {F(b) : b \in 1..m} = B
        BY <2>5
      <3> QED
        BY <3>1, <3>2
    <2> QED
      BY <2>2, <2>3, <2>6 DEF B
  <1> QED
    BY <1>1, <1>2

LEMMA FindableOfTable ==
  Findable = FindableIn(head, table, hh) /\ Findable' = FindableIn(head', table', hh')
PROOF
  BY DEF Findable, FindableIn, tbl

-----------------------------------------------------------------------------
(* Calls one after the other.                                               *)
Current(o) == OneCall(o) /\ o \in {Idle} \cup {op[t] : t \in Caller}

LEMMA InProgress ==
  ASSUME NEW o, OneCall(o), NEW t \in Caller, op[t] # Idle
  PROVE  op[t] = o /\ \A u \in Caller \ {t} : op[u] = Idle
PROOF
  BY DEF OneCall

LEMMA NoneInProgress ==
  ASSUME NEW o, Current(o), NEW t \in Caller, MayCall(t), ~Overlap
  PROVE  o = Idle /\ \A u \in Caller \ {t} : op[u] = Idle
PROOF
  BY DEF Current, OneCall, MayCall

LEMMA NowInProgress ==
  ASSUME DOMAIN op = Caller, NEW t \in Caller, \A u \in Caller \ {t} : op[u] = Idle,
         NEW o, op' = [op EXCEPT ![t] = o]
  PROVE  Current(o)'
PROOF
  <1>1. DOMAIN op' = Caller /\ op'[t] = o /\ \A u \in Caller \ {t} : op'[u] = Idle
    OBVIOUS
  <1> QED
    BY <1>1 DEF Current, OneCall

LEMMA StepOfIdle ==
  ASSUME NEW t, NEW step, op[t].step = step, step # "idle"
  PROVE  op[t] # Idle
PROOF
  BY DEF Idle

TableStep(B, B2) ==
  \/ B2 = B
  \/ \E e \in Elt : (e \notin B /\ B2 = B \cup {e}) \/ (e \in B /\ B2 = B \ {e})
StepsTo(o, o2) ==
  /\ Current(o2)' /\ Consistent(head', table', hh', o2)
  /\ TableStep(Bucketed(hh, o), Bucketed(hh', o2))

LEMMA AddTestStep ==
  ASSUME ~Overlap, NEW o, Current(o), Consistent(head, table, hh, o),
         NEW t \in Caller, NEW e \in Elt, NEW key \in Key, AddTest(t, e, key)
  PROVE  \E o2 : StepsTo(o, o2)
PROOF
  <1>0. PICK step : step = IF head = Nil THEN "make" ELSE "append"
    OBVIOUS
  <1> DEFINE o2 == Busy(step, e)
  <1>1. /\ MayCall(t) /\ ~hh[e].live
        /\ hh' = Tested(hh, e, key) /\ op' = [op EXCEPT ![t] = o2]
        /\ head' = head /\ table' = table
    BY <1>0 DEF AddTest, Proceed, Tested, Busy
  <1>2. o = Idle /\ \A u \in Caller \ {t} : op[u] = Idle
    BY <1>1, NoneInProgress
  <1>3. Consistent(head, table, hh, Idle)
    BY <1>2
  <1>4. /\ Consistent(head, table, Tested(hh, e, key), o2)
        /\ Bucketed(Tested(hh, e, key), o2) = Bucketed(hh, Idle)
    BY <1>0, <1>1, <1>3, TestedConsistent
  <1> HIDE DEF o2
  <1>5. Current(o2)'
    BY <1>1, <1>2, NowInProgress DEF Current, OneCall
  <1>6. StepsTo(o, o2)
    BY <1>1, <1>2, <1>4, <1>5 DEF StepsTo, TableStep
  <1> QED
    BY <1>6

LEMMA AddMakeStep ==
  ASSUME NEW o, Current(o), Consistent(head, table, hh, o), NEW t \in Caller, AddMake(t)
  PROVE  \E o2 : StepsTo(o, o2)
PROOF
  <1>0. PICK e : e = op[t].e
    OBVIOUS
  <1> DEFINE o2 == Busy("to_table", e)
  <1>1. PICK T \in Table :
          /\ op[t].step = "make" /\ head' = e /\ op' = [op EXCEPT ![t] = o2]
          /\ table' = [table EXCEPT ![T] = Fresh(e)] /\ hh' = MadeOne(hh, e, T)
    BY <1>0 DEF AddMake, Proceed, Busy, Fresh, MadeOne
  <1>2. op[t] = o /\ \A u \in Caller \ {t} : op[u] = Idle
    BY <1>1, InProgress, StepOfIdle DEF Current
  <1>3. e = o.e /\ o.step = "make"
    BY <1>0, <1>1, <1>2
  <1>4. /\ Consistent(e, [table EXCEPT ![T] = Fresh(e)], MadeOne(hh, e, T), o2)
        /\ Bucketed(MadeOne(hh, e, T), o2) = Bucketed(hh, o)
    BY <1>3, MadeConsistent
  <1> HIDE DEF o2
  <1>5. Current(o2)'
    BY <1>1, <1>2, NowInProgress DEF Current, OneCall
  <1>6. StepsTo(o, o2)
    BY <1>1, <1>4, <1>5 DEF StepsTo, TableStep
  <1> QED
    BY <1>6

LEMMA AddAppendStep ==
  ASSUME NEW o, Current(o), Consistent(head, table, hh, o), NEW t \in Caller, AddAppend(t)
  PROVE  \E o2 : StepsTo(o, o2)
PROOF
  <1>0. PICK e : e = op[t].e
    OBVIOUS
  <1> DEFINE o2 == Busy("to_table", e)
             T  == hh[head].tbl
             tail == table[T].tail
  <1>1. /\ op[t].step = "append" /\ head' = head /\ op' = [op EXCEPT ![t] = o2]
        /\ table' = TailSet(table, T, e) /\ hh' = AppendedTo(hh, e, T, tail)
    BY <1>0 DEF AddAppend, Proceed, Busy, TailSet, AppendedTo
  <1>2. op[t] = o /\ \A u \in Caller \ {t} : op[u] = Idle
    BY <1>1, InProgress, StepOfIdle DEF Current
  <1>3. e = o.e /\ o.step = "append"
    BY <1>0, <1>1, <1>2
  <1>4. /\ Consistent(head, TailSet(table, T, e), AppendedTo(hh, e, T, tail), o2)
        /\ Bucketed(AppendedTo(hh, e, T, tail), o2) = Bucketed(hh, o)
    BY <1>3, AppendedConsistent
  <1> HIDE DEF o2, T, tail
  <1>5. Current(o2)'
    BY <1>1, <1>2, NowInProgress DEF Current, OneCall
  <1>6. StepsTo(o, o2)
    BY <1>1, <1>4, <1>5 DEF StepsTo, TableStep
  <1> QED
    BY <1>6

LEMMA AddAssertStep ==
  ASSUME NEW o, Current(o), Consistent(head, table, hh, o), NEW t \in Caller, AddAssert(t)
  PROVE  \E o2 : StepsTo(o, o2)
PROOF
  <1>1. /\ op[t].step = "assert" /\ head' = head /\ table' = table /\ hh' = hh
        /\ op' = [op EXCEPT ![t] = Idle]
    BY DEF AddAssert, Return
  <1>2. op[t] = o /\ \A u \in Caller \ {t} : op[u] = Idle
    BY <1>1, InProgress, StepOfIdle DEF Current
  <1>3. Consistent(head, table, hh, Idle) /\ Bucketed(hh, Idle) = Bucketed(hh, o)
    BY <1>1, <1>2, AssertedConsistent
  <1>4. Current(Idle)'
    BY <1>1, <1>2, NowInProgress DEF Current, OneCall
  <1>5. StepsTo(o, Idle)
    BY <1>1, <1>3, <1>4 DEF StepsTo, TableStep
  <1> QED
    BY <1>5

LEMMA DeleteOnlyStep ==
  ASSUME ~Overlap, NEW o, Current(o), Consistent(head, table, hh, o),
         NEW t \in Caller, NEW e \in Elt, DeleteOnly(t, e)
  PROVE  \E o2 : StepsTo(o, o2)
PROOF
  <1>1. /\ MayCall(t) /\ hh[e].live /\ hh[e].prev = Nil /\ hh[e].next = Nil /\ head # Nil
        /\ table' = Dropped(table, hh[head].tbl) /\ head' = Nil
        /\ hh' = WithoutEntry(hh, e) /\ op' = op
    BY DEF DeleteOnly, Managed, Dropped, WithoutEntry
  <1>2. o = Idle
    BY <1>1, NoneInProgress
  <1>3. Consistent(head, table, hh, Idle)
    BY <1>2
  <1>4. /\ Consistent(head', table', hh', Idle)
        /\ Bucketed(hh, Idle) = {e} /\ Bucketed(hh', Idle) = {}
    BY <1>1, <1>3, OnlyConsistent
  <1>5. Current(Idle)'
    BY <1>1, <1>2 DEF Current, OneCall
  <1>6. StepsTo(o, Idle)
    BY <1>2, <1>4, <1>5 DEF StepsTo, TableStep
  <1> QED
    BY <1>6

LEMMA DeleteUnlinkStep ==
  ASSUME ~Overlap, NEW o, Current(o), Consistent(head, table, hh, o),
         NEW t \in Caller, NEW e \in Elt, DeleteUnlink(t, e)
  PROVE  \E o2 : StepsTo(o, o2)
PROOF
  <1> DEFINE p    == hh[e].prev
             n    == hh[e].next
             T    == hh[head].tbl
             tail == IF table[T].tail = e THEN p ELSE table[T].tail
             hd2  == IF p = Nil THEN n ELSE head
             o2   == Busy("del_bkt", e)
  <1>1. /\ MayCall(t) /\ hh[e].live /\ (p # Nil \/ n # Nil) /\ head # Nil
        /\ table' = TailSet(table, T, tail) /\ head' = hd2
        /\ hh' = UnlinkedLinks(hh, p, n) /\ op' = [op EXCEPT ![t] = o2]
    BY DEF DeleteUnlink, Managed, TailSet, UnlinkedLinks, Proceed, Busy
  <1>2. o = Idle /\ \A u \in Caller \ {t} : op[u] = Idle
    BY <1>1, NoneInProgress
  <1>3. UnlinkArgs(head, table, hh, e, p, n, T, tail, hd2)
    BY <1>1, <1>2 DEF UnlinkArgs
  <1> HIDE DEF p, n, T, tail, hd2
  <1>4. /\ Consistent(hd2, TailSet(table, T, tail), UnlinkedLinks(hh, p, n), o2)
        /\ Bucketed(UnlinkedLinks(hh, p, n), o2) = Bucketed(hh, Idle)
    BY <1>3, UnlinkedConsistent
  <1> HIDE DEF o2
  <1>5. Current(o2)'
    BY <1>1, <1>2, NowInProgress DEF Current, OneCall
  <1>6. StepsTo(o, o2)
    BY <1>1, <1>2, <1>4, <1>5 DEF StepsTo, TableStep
  <1> QED
    BY <1>6

LEMMA DeleteBucketStep ==
  ASSUME NEW o, Current(o), Consistent(head, table, hh, o), NEW t \in Caller, DeleteBucket(t)
  PROVE  \E o2 : StepsTo(o, o2)
PROOF
  <1> DEFINE e   == op[t].e
             p   == hh[e].hh_prev
             n   == hh[e].hh_next
             T   == hh[head].tbl
             was == table[T]
             b   == BktOf(hh[e].key, was.buckets)
             new == FreedLinks(e, p, n, hh)
  <1>1. /\ op[t].step = "del_bkt" /\ head' = head /\ op' = [op EXCEPT ![t] = Idle]
        /\ hh' = new
    BY DEF DeleteBucket, Return, FreedLinks
  <1>2. op[t] = o /\ \A u \in Caller \ {t} : op[u] = Idle
    BY <1>1, InProgress, StepOfIdle DEF Current
  <1>3. TakeArgs(head, table, hh, o, e, p, n, T, was, b)
    BY <1>1, <1>2 DEF TakeArgs
  <1>4. table' = Replaced(table, T, Taken(e, b, n, was))
    <2>1. DOMAIN table = Table /\ T \in Table
      BY <1>3 DEF TakeArgs, Consistent, Made, InCall, Idle
    <2> QED
      BY <2>1 DEF DeleteBucket, Replaced, tbl
  <1> HIDE DEF e, p, n, T, was, b
  <1>5. /\ e \in Elt /\ e \in Bucketed(hh, o)
        /\ Consistent(head, Replaced(table, T, Taken(e, b, n, was)), new, Idle)
        /\ Bucketed(new, Idle) = Bucketed(hh, o) \ {e}
    BY <1>3, TakenConsistent
  <1> HIDE DEF new
  <1>6. Current(Idle)'
    BY <1>1, <1>2, NowInProgress DEF Current, OneCall
  <1>7. StepsTo(o, Idle)
    BY <1>1, <1>4, <1>5, <1>6 DEF StepsTo, TableStep
  <1> QED
    BY <1>7

LEMMA AddToTableStep ==
  ASSUME NEW o, Current(o), Consistent(head, table, hh, o), NEW t \in Caller, AddToTable(t)
  PROVE  \E o2 : StepsTo(o, o2)
PROOF
  <1>0. PICK e : e = op[t].e
    OBVIOUS
  <1> DEFINE T   == hh[head].tbl
             was == table[T]
             b   == BktOf(hh[e].key, was.buckets)
             old == was.buckets[b].hh_head
             tb  == Pushed(e, b, was)
             new == PushedLinks(e, old, hh)
             chains == NewChains(tb, new)
             o2  == Busy("assert", e)
  <1>1. /\ op[t].step = "to_table" /\ head' = head /\ op' = [op EXCEPT ![t] = o2]
        /\ \/ table' = Replaced(table, T, tb) /\ hh' = new
           \/ table' = Replaced(table, T, Expanded(tb, chains)) /\ hh' = Relinked(chains, new)
    BY <1>0 DEF AddToTable, Proceed, Busy, Replaced, tbl
  <1>2. op[t] = o /\ \A u \in Caller \ {t} : op[u] = Idle
    BY <1>1, InProgress, StepOfIdle DEF Current
  <1>3. e = o.e /\ o.step = "to_table"
    BY <1>0, <1>1, <1>2
  <1>4. /\ e \in Elt /\ e \notin Bucketed(hh, o)
        /\ Consistent(head, Replaced(table, T, tb), new, o2)
        /\ Bucketed(new, o2) = Bucketed(hh, o) \cup {e}
        /\ Consistent(head, Replaced(table, T, Expanded(tb, chains)), Relinked(chains, new), o2)
        /\ Bucketed(Relinked(chains, new), o2) = Bucketed(hh, o) \cup {e}
    <2>1. AddArgs(head, table, hh, o, e, T, was, b, old)
      BY <1>3 DEF AddArgs, T, was, b, old
    <2> HIDE DEF T, was, b, old
    <2> QED
      BY <2>1, PushedConsistent
  <1> HIDE DEF T, was, b, old, tb, new, chains, o2
  <1>5. Current(o2)'
    <2>1. Current(Busy("assert", e))'
      BY <1>1, <1>2, NowInProgress DEF Current, OneCall, o2
    <2> QED
      BY <2>1 DEF o2
  <1>6. Consistent(head', table', hh', o2) /\ Bucketed(hh', o2) = Bucketed(hh, o) \cup {e}
    BY <1>1, <1>4
  <1>7. StepsTo(o, o2)
    BY <1>4, <1>5, <1>6 DEF StepsTo, TableStep
  <1> QED
    BY <1>7

(***************************************************************************)
(* While calls are made one after the other the table is consistent at     *)
(* every step of each, and a step changes what is found by one entry.      *)
(***************************************************************************)
LEMMA TableInductive ==
  ASSUME ~Overlap
  PROVE  /\ TableInit => \E o : Current(o) /\ Consistent(head, table, hh, o)
         /\ \A o : Current(o) /\ Consistent(head, table, hh, o) /\ [TableNext]_table_vars
                     => \E o2 : StepsTo(o, o2)
PROOF
  <1>1. ASSUME TableInit PROVE Current(Idle) /\ Consistent(head, table, hh, Idle)
    <2>1. Current(Idle)
      BY <1>1 DEF TableInit, Current, OneCall
    <2>2. Unused \in Handle /\ ~Unused.live
      BY DEF Unused, Handle
    <2>3. /\ head = Nil /\ DOMAIN table = Table /\ hh \in [Elt -> Handle]
          /\ \A e \in Elt : ~hh[e].live
      BY <1>1, <2>2 DEF TableInit
    <2>4. Listed(hh, Idle) = {} /\ Bucketed(hh, Idle) = {} /\ InCall(head, hh, Idle)
      BY <2>3, SetsIdle DEF InCall, Idle
    <2> QED
      BY <2>1, <2>3, <2>4 DEF Consistent
  <1>2. ASSUME NEW o, Current(o), Consistent(head, table, hh, o), [TableNext]_table_vars
        PROVE  \E o2 : StepsTo(o, o2)
    <2>1. CASE UNCHANGED table_vars
      <3>1. StepsTo(o, o)
        BY <1>2, <2>1 DEF StepsTo, TableStep, table_vars, Current, OneCall
      <3> QED
        BY <3>1
    <2>2. ASSUME NEW t \in Caller, NEW e \in Elt, NEW key \in Key, AddTest(t, e, key)
          PROVE  \E o2 : StepsTo(o, o2)
      BY <1>2, <2>2, AddTestStep
    <2>3. ASSUME NEW t \in Caller, AddMake(t) PROVE \E o2 : StepsTo(o, o2)
      BY <1>2, <2>3, AddMakeStep
    <2>4. ASSUME NEW t \in Caller, AddAppend(t) PROVE \E o2 : StepsTo(o, o2)
      BY <1>2, <2>4, AddAppendStep
    <2>5. ASSUME NEW t \in Caller, AddToTable(t) PROVE \E o2 : StepsTo(o, o2)
      BY <1>2, <2>5, AddToTableStep
    <2>6. ASSUME NEW t \in Caller, AddAssert(t) PROVE \E o2 : StepsTo(o, o2)
      BY <1>2, <2>6, AddAssertStep
    <2>7. ASSUME NEW t \in Caller, NEW e \in Elt, DeleteOnly(t, e) PROVE \E o2 : StepsTo(o, o2)
      BY <1>2, <2>7, DeleteOnlyStep
    <2>8. ASSUME NEW t \in Caller, NEW e \in Elt, DeleteUnlink(t, e) PROVE \E o2 : StepsTo(o, o2)
      BY <1>2, <2>8, DeleteUnlinkStep
    <2>9. ASSUME NEW t \in Caller, DeleteBucket(t) PROVE \E o2 : StepsTo(o, o2)
      BY <1>2, <2>9, DeleteBucketStep
    <2> QED
      BY <1>2, <2>1, <2>2, <2>3, <2>4, <2>5, <2>6, <2>7, <2>8, <2>9 DEF TableNext
  <1> QED
    BY <1>1, <1>2

TableInv == \E o : Current(o) /\ Consistent(head, table, hh, o)

LEMMA TableInvariant ==
  ASSUME ~Overlap
  PROVE  TableSpec => []TableInv
PROOF
  <1>1. TableInit => TableInv
    BY TableInductive DEF TableInv
  <1>2. TableInv /\ [TableNext]_table_vars => TableInv'
    <2> SUFFICES ASSUME TableInv, [TableNext]_table_vars PROVE TableInv'
      OBVIOUS
    <2>1. PICK o : Current(o) /\ Consistent(head, table, hh, o)
      BY DEF TableInv
    <2>2. PICK o2 : StepsTo(o, o2)
      BY <2>1, TableInductive
    <2> QED
      BY <2>2 DEF StepsTo, TableInv
  <1> QED
    BY <1>1, <1>2, PTL DEF TableSpec

-----------------------------------------------------------------------------
(* What HASH_FSCK asks of a table.                                          *)
Passes(hd, tab, H) ==
  LET tb   == tab[H[hd].tbl]
      list == Chain(Nexts(H), hd)
  IN /\ \A b \in DOMAIN tb.buckets :
          LET chain == ChainOf(b, tb, H) IN
          /\ LinksBack(chain, HhPrevs(H))
          /\ Len(chain) = tb.buckets[b].count
          /\ \A i \in DOMAIN chain : BktOf(H[chain[i]].key, tb.buckets) = b
     /\ LinksBack(list, Prevs(H))
     /\ tb.tail = Last(list)
     /\ Len(list) = tb.num_items
     /\ Range(list) = {e \in Elt : H[e].live}

LEMMA LinkedBack ==
  ASSUME NEW s, NEW first, NEW next, NEW prev, Linked(s, first, next, prev)
  PROVE  LinksBack(s, prev) /\ Range(s) = Members(s) /\ DOMAIN s = 1..Len(s)
PROOF
  <1>1. s \in Seq(Elt) /\ DOMAIN s = 1..Len(s)
    BY DEF Linked
  <1> QED
    BY <1>1 DEF Linked, LinksBack, Members, Range

(* Each entry is in the list once.                                          *)
LEMMA MembersCounted ==
  ASSUME NEW s, NEW first, NEW next, NEW prev, Linked(s, first, next, prev)
  PROVE  Cardinality(Members(s)) = Len(s)
PROOF
  <1>1. Len(s) \in Nat /\ s \in Seq(Elt) /\ \A i, j \in 1..Len(s) : s[i] = s[j] => i = j
    BY DEF Linked
  <1> DEFINE f == [i \in 1..Len(s) |-> s[i]]
  <1>2. ExistsBijection(1..Len(s), Members(s))
    <2>1. f \in Bijection(1..Len(s), Members(s))
      BY <1>1 DEF Bijection, Injection, IsInjective, Surjection, Members
    <2> QED
      BY <2>1 DEF ExistsBijection
  <1> QED
    BY <1>1, <1>2, FS_CountingElements, FS_Interval, IntervalLength, FS_Bijection

LEMMA ConsistentPasses ==
  ASSUME NEW hd, NEW tab, NEW H, Consistent(hd, tab, H, Idle), hd # Nil
  PROVE  Passes(hd, tab, H)
PROOF
  <1> DEFINE tb   == tab[H[hd].tbl]
             list == Chain(Nexts(H), hd)
             A    == {e \in Elt : H[e].live}
  <1>1. /\ ListHolds(list, hd, tb.tail, H, A) /\ BucketsHold(tb, H, A)
        /\ tb.num_items = Cardinality(A)
    BY SetsIdle DEF Consistent, Made, TableHolds
  <1> HIDE DEF tb, list, A
  <1>2. /\ Linked(list, hd, Nexts(H), Prevs(H)) /\ Members(list) = A
        /\ Len(list) # 0 /\ tb.tail = list[Len(list)]
    BY <1>1 DEF ListHolds
  <1>3. LinksBack(list, Prevs(H)) /\ Range(list) = A /\ tb.tail = Last(list)
    BY <1>2, LinkedBack DEF Last
  <1>4. Len(list) = tb.num_items
    BY <1>1, <1>2, MembersCounted
  <1>5. ASSUME NEW b \in DOMAIN tb.buckets
        PROVE  LET chain == ChainOf(b, tb, H) IN
               /\ LinksBack(chain, HhPrevs(H))
               /\ Len(chain) = tb.buckets[b].count
               /\ \A i \in DOMAIN chain : BktOf(H[chain[i]].key, tb.buckets) = b
    <2> DEFINE chain == ChainOf(b, tb, H)
    <2>1. b \in 1..Len(tb.buckets)
      BY <1>1 DEF BucketsHold, Shaped
    <2>2. BucketHolds(chain, b, tb, H, A)
      BY <1>1, <2>1 DEF BucketsHold
    <2> HIDE DEF chain
    <2>3. /\ Linked(chain, tb.buckets[b].hh_head, HhNexts(H), HhPrevs(H))
          /\ tb.buckets[b].count = Len(chain)
          /\ Members(chain) = {e \in A : BktOf(H[e].key, tb.buckets) = b}
      BY <2>2 DEF BucketHolds
    <2>4. LinksBack(chain, HhPrevs(H)) /\ DOMAIN chain = 1..Len(chain)
      BY <2>3, LinkedBack
    <2>5. \A i \in DOMAIN chain : chain[i] \in Members(chain)
      BY <2>4 DEF Members
    <2> QED
      BY <2>3, <2>4, <2>5 DEF chain
  <1> QED
    BY <1>3, <1>4, <1>5 DEF Passes, tb, list, A

(* The table passes HASH_FSCK whenever no call is in progress, after any    *)
(* history of calls made one after the other, with any hash of the keys     *)
(* and whatever expansions the chains have called for.                      *)
THEOREM TablePassesFsck ==
  ASSUME ~Overlap
  PROVE  TableSpec => []FsckPasses
PROOF
  <1>1. TableInv => FsckPasses
    <2> SUFFICES ASSUME TableInv, Quiet, head # Nil PROVE FsckPasses
      BY DEF FsckPasses
    <2>1. PICK o : Current(o) /\ Consistent(head, table, hh, o)
      BY DEF TableInv
    <2>2. o = Idle
      BY <2>1 DEF Current, Quiet
    <2>3. Passes(head, table, hh)
      BY <2>1, <2>2, ConsistentPasses
    <2> QED
      BY <2>3 DEF Passes, FsckPasses, BucketPasses, ChainOf, tbl
  <1> QED
    BY <1>1, TableInvariant, PTL

(* Every step of a call leaves what is found in the table as it is or adds  *)
(* or takes one entry: for its users the table is a set.                    *)
THEOREM TableImplementsSet ==
  ASSUME ~Overlap
  PROVE  TableSpec => ImplementsTable
PROOF
  <1>1. TableInit => Abstract!Init
    BY DEF TableInit, Findable, Abstract!Init
  <1>2. TableInv /\ [TableNext]_table_vars => [Abstract!Next]_Findable
    <2> SUFFICES ASSUME TableInv, [TableNext]_table_vars PROVE [Abstract!Next]_Findable
      OBVIOUS
    <2>1. PICK o : Current(o) /\ Consistent(head, table, hh, o)
      BY DEF TableInv
    <2>2. PICK o2 : StepsTo(o, o2)
      BY <2>1, TableInductive
    <2>3. Findable = Bucketed(hh, o) /\ Findable' = Bucketed(hh', o2)
      BY <2>1, <2>2, FindableOfTable, BucketsAreFindable DEF StepsTo
    <2>4. TableStep(Findable, Findable')
      BY <2>2, <2>3 DEF StepsTo
    <2> QED
      BY <2>4 DEF TableStep, Abstract!Next, Abstract!Add, Abstract!Delete
  <1> QED
    BY <1>1, <1>2, TableInvariant, PTL DEF TableSpec, ImplementsTable, Abstract!Spec

(* HASH_FIND in any table.                                                  *)
FindIn(hd, tab, H, key) ==
  IF hd = Nil THEN Nil
  ELSE LET chain == Chain(HhNexts(H), tab[H[hd].tbl].buckets[BktOf(key, tab[H[hd].tbl].buckets)].hh_head)
           found == {i \in DOMAIN chain : H[chain[i]].key = key}
       IN IF found = {} THEN Nil ELSE chain[CHOOSE i \in found : \A j \in found : i <= j]

LEMMA FindInConsistent ==
  ASSUME NEW hd, NEW tab, NEW H, NEW o, Consistent(hd, tab, H, o), NEW key \in Key,
         NEW r, r = FindIn(hd, tab, H, key)
  PROVE  \/ r \in Bucketed(H, o) /\ H[r].key = key
         \/ r = Nil /\ \A e \in Bucketed(H, o) : H[e].key # key
PROOF
  <1>1. CASE hd = Nil
    BY <1>1 DEF Consistent, FindIn
  <1>2. CASE hd # Nil
    <2> DEFINE tb    == tab[H[hd].tbl]
               B     == Bucketed(H, o)
               b     == BktOf(key, tb.buckets)
               chain == ChainOf(b, tb, H)
               found == {i \in DOMAIN chain : H[chain[i]].key = key}
               least == CHOOSE i \in found : \A j \in found : i <= j
    <2>1. BucketsHold(tb, H, B)
      BY <1>2 DEF Consistent, Made, TableHolds
    <2>2. r = IF found = {} THEN Nil ELSE chain[least]
      BY <1>2 DEF FindIn, ChainOf
    <2> HIDE DEF least
    <2>3. found # {} => least \in found
      <3>1. DOMAIN chain \subseteq Nat
        <4> HIDE DEF b, tb
        <4>1. BucketHolds(chain, b, tb, H, B)
          BY <2>1, BktInRange DEF BucketsHold, Shaped, b
        <4> HIDE DEF chain
        <4> QED
          BY <4>1 DEF BucketHolds, Linked
      <3> HIDE DEF chain
      <3>2. found # {} => \E i \in found : \A j \in found : i <= j
        BY <3>1, Least
      <3> QED
        BY <3>2 DEF least
    <2> HIDE DEF tb, B
    <2>4. BucketHolds(chain, b, tb, H, B)
      BY <2>1, BktInRange DEF BucketsHold, Shaped
    <2>5. B \subseteq Elt
      BY <2>1 DEF BucketsHold
    <2> HIDE DEF chain, b
    <2>6. /\ chain \in Seq(Elt) /\ DOMAIN chain = 1..Len(chain)
          /\ Members(chain) = {e \in B : BktOf(H[e].key, tb.buckets) = b}
      BY <2>4 DEF BucketHolds, Linked
    <2>7. CASE found = {}
      <3>1. ASSUME NEW e \in B, H[e].key = key PROVE FALSE
        <4>1. e \in Members(chain)
          BY <2>6, <3>1 DEF b
        <4>2. PICK i \in DOMAIN chain : e = chain[i]
          BY <2>6, <4>1 DEF Members
        <4> QED
          BY <2>7, <3>1, <4>2
      <3> QED
        BY <2>2, <2>7, <3>1 DEF B
    <2>8. CASE found # {}
      <3>1. least \in 1..Len(chain) /\ r = chain[least] /\ H[chain[least]].key = key
        BY <2>2, <2>3, <2>6, <2>8
      <3>2. r \in Members(chain)
        BY <3>1 DEF Members
      <3>3. r \in B
        BY <2>6, <3>2
      <3> QED
        BY <3>1, <3>3 DEF B
    <2> QED
      BY <2>7, <2>8
  <1> QED
    BY <1>1, <1>2

LEMMA FindInTable ==
  ASSUME NEW key
  PROVE  find_buffer_k(key) = FindIn(head, table, hh, key)
PROOF
  BY DEF find_buffer_k, FindIn, tbl

(* At every moment find_buffer_k finds an entry that has the key, if any of *)
(* the entries that can be found has it, and nothing otherwise.             *)
FindsKeys ==
  \A key \in Key :
    LET e == find_buffer_k(key) IN
    \/ e \in Findable /\ hh[e].key = key
    \/ e = Nil /\ \A x \in Findable : hh[x].key # key

(* The lookup of a key (HASH_FIND), which import, lock, unlock and free     *)
(* start with, misses no entry and returns no wrong one, while calls that   *)
(* change the table are made one after the other.                           *)
THEOREM TableFindsKeys ==
  ASSUME ~Overlap
  PROVE  TableSpec => []FindsKeys
PROOF
  <1>1. TableInv => FindsKeys
    <2> SUFFICES ASSUME TableInv, NEW key \in Key
                 PROVE  \/ find_buffer_k(key) \in Findable /\ hh[find_buffer_k(key)].key = key
                        \/ find_buffer_k(key) = Nil /\ \A x \in Findable : hh[x].key # key
      BY DEF FindsKeys
    <2>1. PICK o : Current(o) /\ Consistent(head, table, hh, o)
      BY DEF TableInv
    <2>2. PICK r : r = FindIn(head, table, hh, key)
      OBVIOUS
    <2>3. \/ r \in Bucketed(hh, o) /\ hh[r].key = key
          \/ r = Nil /\ \A e \in Bucketed(hh, o) : hh[e].key # key
      BY <2>1, <2>2, FindInConsistent
    <2>4. Findable = Bucketed(hh, o)
      BY <2>1, FindableOfTable, BucketsAreFindable
    <2> QED
      BY <2>2, <2>3, <2>4, FindInTable
  <1> QED
    BY <1>1, TableInvariant, PTL

(* The assertion of add_buffer (gralloc_gbm.c:75) holds while no two calls  *)
(* overlap: the key that was just added is found. MCHashTableKnown.cfg      *)
(* shows that this hypothesis is needed.                                    *)
THEOREM TableAssertionHolds ==
  ASSUME ~Overlap
  PROVE  TableSpec => []AddedIsFound
PROOF
  <1>1. TableInv => AddedIsFound
    <2> SUFFICES ASSUME TableInv, NEW t \in Caller, op[t].step = "assert"
                 PROVE  find_buffer_k(hh[op[t].e].key) # Nil
      BY DEF AddedIsFound
    <2>1. PICK o : Current(o) /\ Consistent(head, table, hh, o)
      BY DEF TableInv
    <2>2. op[t] = o
      BY <2>1, InProgress, StepOfIdle DEF Current
    <2>3. PICK key : key = hh[o.e].key
      OBVIOUS
    <2>4. o.e \in Bucketed(hh, o) /\ key \in Key
      BY <2>1, <2>2, <2>3 DEF Consistent, InCall, Bucketed, Idle
    <2>5. PICK r : r = FindIn(head, table, hh, key)
      OBVIOUS
    <2>6. \/ r \in Bucketed(hh, o) /\ hh[r].key = key
          \/ r = Nil /\ \A e \in Bucketed(hh, o) : hh[e].key # key
      BY <2>1, <2>4, <2>5, FindInConsistent
    <2>7. r # Nil
      BY <2>3, <2>4, <2>6, HashTableAssumption DEF Bucketed
    <2> QED
      BY <2>2, <2>3, <2>5, <2>7, FindInTable
  <1> QED
    BY <1>1, TableInvariant, PTL

(***************************************************************************)
(* The pointers that the steps follow lead to entries and to a table that  *)
(* are allocated: the head, the tail, the heads of the buckets, the links  *)
(* of every entry delete_buffer may be called with, and the links in its   *)
(* bucket of every entry that can be found. A step that follows the head   *)
(* has one.                                                                *)
(***************************************************************************)
Live == {e \in Elt : hh[e].live}
PointersAreLive ==
  /\ head # Nil => /\ head \in Live /\ tbl.live /\ tbl.tail \in Live
                   /\ \A b \in DOMAIN tbl.buckets : tbl.buckets[b].hh_head \in Live \cup {Nil}
  /\ \A t \in Caller : op[t].step \in {"append", "to_table", "assert", "del_bkt"} =>
       head # Nil /\ op[t].e \in Live
  /\ \A e \in Managed : /\ head # Nil
                        /\ hh[e].prev \in Live \cup {Nil} /\ hh[e].next \in Live \cup {Nil}
  /\ \A e \in Findable : /\ hh[e].hh_prev \in Live \cup {Nil}
                         /\ hh[e].hh_next \in Live \cup {Nil}

LEMMA LinkedWithin ==
  ASSUME NEW s, NEW first, NEW next, NEW prev, Linked(s, first, next, prev)
  PROVE  /\ first \in Members(s) \cup {Nil}
         /\ Len(s) # 0 => first \in Members(s) /\ s[Len(s)] \in Members(s)
         /\ \A x \in Members(s) : next[x] \in Members(s) \cup {Nil}
                                  /\ prev[x] \in Members(s) \cup {Nil}
PROOF
  <1>1. /\ Len(s) \in Nat /\ first = IF Len(s) = 0 THEN Nil ELSE s[1]
        /\ \A i \in 1..Len(s) : s[i] \in Members(s)
    BY DEF Linked, Members
  <1>2. Len(s) # 0 => 1 \in 1..Len(s) /\ Len(s) \in 1..Len(s)
    BY <1>1
  <1>3. ASSUME NEW x \in Members(s)
        PROVE  next[x] \in Members(s) \cup {Nil} /\ prev[x] \in Members(s) \cup {Nil}
    <2>1. PICK i \in 1..Len(s) : x = s[i]
      BY DEF Members
    <2>2. /\ i # Len(s) => i + 1 \in 1..Len(s)
          /\ i # 1 => i - 1 \in 1..Len(s)
      BY <1>1, <2>1
    <2>3. /\ next[x] = IF i = Len(s) THEN Nil ELSE s[i + 1]
          /\ prev[x] = IF i = 1 THEN Nil ELSE s[i - 1]
      BY <2>1 DEF Linked
    <2> QED
      BY <1>1, <2>2, <2>3
  <1> QED
    BY <1>1, <1>2, <1>3

(* A table that is made, its entries that are allocated, and what the head  *)
(* leads to.                                                                *)
LiveArgs(hd, tab, H, o, A, tb) ==
  /\ Consistent(hd, tab, H, o) /\ hd # Nil
  /\ A = {e \in Elt : H[e].live} /\ tb = tab[H[hd].tbl]

LEMMA ConsistentLive ==
  ASSUME NEW hd, NEW tab, NEW H, NEW o, NEW A, NEW tb, LiveArgs(hd, tab, H, o, A, tb)
  PROVE  /\ hd \in A /\ tb.live /\ tb.tail \in A
         /\ \A b \in DOMAIN tb.buckets : tb.buckets[b].hh_head \in A \cup {Nil}
         /\ \A e \in Listed(H, o) : H[e].prev \in A \cup {Nil} /\ H[e].next \in A \cup {Nil}
         /\ \A e \in Bucketed(H, o) : /\ H[e].hh_prev \in A \cup {Nil}
                                      /\ H[e].hh_next \in A \cup {Nil}
PROOF
  <1> DEFINE L == Listed(H, o)
             B == Bucketed(H, o)
             s == Chain(Nexts(H), hd)
  <1> USE DEF LiveArgs
  <1>1. L \subseteq A /\ B \subseteq A /\ A \subseteq Elt
    BY DEF Listed, Bucketed
  <1>2. ListHolds(s, hd, tb.tail, H, L) /\ BucketsHold(tb, H, B) /\ tb.live
    BY DEF Consistent, Made, TableHolds
  <1> HIDE DEF L, B, s
  <1>3. /\ Linked(s, hd, Nexts(H), Prevs(H)) /\ Members(s) = L
        /\ Len(s) # 0 /\ tb.tail = s[Len(s)]
    BY <1>2 DEF ListHolds
  <1>4. /\ hd \in L /\ tb.tail \in L
        /\ \A e \in L : Nexts(H)[e] \in L \cup {Nil} /\ Prevs(H)[e] \in L \cup {Nil}
    BY <1>3, LinkedWithin
  <1>5. \A e \in L : H[e].prev \in A \cup {Nil} /\ H[e].next \in A \cup {Nil}
    BY <1>1, <1>4 DEF Nexts, Prevs
  <1>6. ASSUME NEW b \in 1..Len(tb.buckets)
        PROVE  LET C == {e \in B : BktOf(H[e].key, tb.buckets) = b} IN
               /\ tb.buckets[b].hh_head \in C \cup {Nil}
               /\ \A e \in C : /\ HhNexts(H)[e] \in C \cup {Nil}
                               /\ HhPrevs(H)[e] \in C \cup {Nil}
    <2> DEFINE c == ChainOf(b, tb, H)
    <2>1. BucketHolds(c, b, tb, H, B)
      BY <1>2 DEF BucketsHold
    <2> HIDE DEF c
    <2>2. /\ Linked(c, tb.buckets[b].hh_head, HhNexts(H), HhPrevs(H))
          /\ Members(c) = {e \in B : BktOf(H[e].key, tb.buckets) = b}
      BY <2>1 DEF BucketHolds
    <2> QED
      BY <2>2, LinkedWithin
  <1>7. DOMAIN tb.buckets = 1..Len(tb.buckets)
    BY <1>2 DEF BucketsHold, Shaped
  <1>8. \A b \in DOMAIN tb.buckets : tb.buckets[b].hh_head \in A \cup {Nil}
    BY <1>1, <1>6, <1>7
  <1>9. ASSUME NEW e \in B
        PROVE  H[e].hh_prev \in A \cup {Nil} /\ H[e].hh_next \in A \cup {Nil}
    <2>1. BktOf(H[e].key, tb.buckets) \in 1..Len(tb.buckets)
      BY <1>2, BktInRange DEF BucketsHold, Shaped
    <2>2. HhNexts(H)[e] \in B \cup {Nil} /\ HhPrevs(H)[e] \in B \cup {Nil}
      BY <1>6, <2>1
    <2> QED
      BY <1>1, <2>2 DEF HhNexts, HhPrevs
  <1> QED
    BY <1>1, <1>2, <1>4, <1>5, <1>8, <1>9 DEF L, B

(* No step of a call follows a null pointer for the head or one to freed    *)
(* memory, while calls are made one after the other.                        *)
THEOREM TableUsesLiveMemory ==
  ASSUME ~Overlap
  PROVE  TableSpec => []PointersAreLive
PROOF
  <1>1. TableInv => PointersAreLive
    <2> SUFFICES ASSUME TableInv PROVE PointersAreLive
      OBVIOUS
    <2>1. PICK o : Current(o) /\ Consistent(head, table, hh, o)
      BY DEF TableInv
    <2>2. Findable = Bucketed(hh, o)
      BY <2>1, FindableOfTable, BucketsAreFindable
    <2>3. \A e \in Managed : e \in Listed(hh, o) /\ e \in Bucketed(hh, o)
      BY <2>1 DEF Managed, Current, Listed, Bucketed, Idle
    <2>4. ASSUME NEW t \in Caller, op[t].step \in {"append", "to_table", "assert", "del_bkt"}
          PROVE  head # Nil /\ op[t].e \in Live
      <3>1. op[t] = o /\ o # Idle
        BY <2>1, <2>4, InProgress, StepOfIdle DEF Current
      <3> QED
        BY <2>1, <2>4, <3>1 DEF Consistent, InCall, Live
    <2>5. CASE head = Nil
      <3>1. Listed(hh, o) = {} /\ Bucketed(hh, o) = {}
        BY <2>1, <2>5 DEF Consistent
      <3> QED
        BY <2>2, <2>3, <2>4, <2>5, <3>1 DEF PointersAreLive
    <2>6. CASE head # Nil
      <3>1. /\ head \in Live /\ tbl.live /\ tbl.tail \in Live
            /\ \A b \in DOMAIN tbl.buckets : tbl.buckets[b].hh_head \in Live \cup {Nil}
            /\ \A e \in Listed(hh, o) : /\ hh[e].prev \in Live \cup {Nil}
                                        /\ hh[e].next \in Live \cup {Nil}
            /\ \A e \in Bucketed(hh, o) : /\ hh[e].hh_prev \in Live \cup {Nil}
                                          /\ hh[e].hh_next \in Live \cup {Nil}
        <4>1. PICK A, now : A = Live /\ now = tbl
          OBVIOUS
        <4>2. LiveArgs(head, table, hh, o, A, now)
          BY <2>1, <2>6, <4>1 DEF Live, tbl, LiveArgs
        <4>3. /\ head \in A /\ now.live /\ now.tail \in A
              /\ \A b \in DOMAIN now.buckets : now.buckets[b].hh_head \in A \cup {Nil}
              /\ \A e \in Listed(hh, o) : hh[e].prev \in A \cup {Nil} /\ hh[e].next \in A \cup {Nil}
              /\ \A e \in Bucketed(hh, o) : /\ hh[e].hh_prev \in A \cup {Nil}
                                            /\ hh[e].hh_next \in A \cup {Nil}
          BY <4>2, ConsistentLive
        <4> QED
          BY <4>1, <4>3
      <3> QED
        BY <2>2, <2>3, <2>4, <2>6, <3>1 DEF PointersAreLive
    <2> QED
      BY <2>5, <2>6
  <1> QED
    BY <1>1, TableInvariant, PTL
================================================================================
