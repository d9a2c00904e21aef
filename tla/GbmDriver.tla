------------------------------ MODULE GbmDriver ------------------------------
(***************************************************************************)
(* g_driver, the one GBM device of a process, and its initialisation. In   *)
(* the service main() has initialised it before there are threads. In the  *)
(* mapper any call may find it not ready and initialise it (CHECK_BACKEND) *)
(* while other threads do the same: nothing takes a mutex, and the pointer *)
(* is read anew at every step. Init has a process of each kind.            *)
(*                                                                         *)
(* Open of the render node, gbm_create_device and calloc may fail. After   *)
(* the first two g_driver is freed and still points there; what a test of  *)
(* g_driver->ready then reads is the heap's affair.                        *)
(***************************************************************************)
EXTENDS Integers, FiniteSets

CONSTANTS
  Thread,
  Block,    \* addresses calloc returns
  Null,
  Intact,   \* does freed memory keep its content until it is reused?
  MaxFails  \* bound: initialisations that fail

ASSUME DriverAssumption ==
  /\ Null \notin Block
  /\ Intact \in BOOLEAN
  /\ MaxFails \in Nat

VARIABLES
  g_driver,  \* a block, or Null
  heap,      \* the blocks: allocated?, the members of gralloc_gbm_driver_t
  opens,     \* render nodes opened and not closed
  fails,     \* initialisations that failed
  call,      \* what each thread does
  raced      \* history: has an initialisation overlapped with another call?

vars == <<g_driver, heap, opens, fails, call, raced>>

-----------------------------------------------------------------------------
Driver == [live: BOOLEAN, ready: BOOLEAN, dri_fd: BOOLEAN, gbm_dev: BOOLEAN]
Zeroed == [live |-> TRUE, ready |-> FALSE, dri_fd |-> FALSE, gbm_dev |-> FALSE]
Freed(d) == [d EXCEPT !.live = FALSE]

Steps == {"idle", "init", "calloc", "open", "device", "ready", "enter", "use",
          "crashed", "corrupt"}

Init ==
  /\ \E service \in BOOLEAN, b \in Block :
       /\ g_driver = IF service THEN b ELSE Null
       /\ heap = [x \in Block |->
            IF service /\ x = b
            THEN [live |-> TRUE, ready |-> TRUE, dri_fd |-> TRUE, gbm_dev |-> TRUE]
            ELSE Freed(Zeroed)]
       /\ opens = IF service THEN 1 ELSE 0
  /\ fails = 0
  /\ call = [t \in Thread |-> "idle"]
  /\ raced = FALSE

Initialising == {"init", "calloc", "open", "device", "ready"}
Racing(c) == \E t, u \in Thread : t # u /\ c[t] \in Initialising /\ c[u] # "idle"

Goto(t, step) ==
  LET after == [call EXCEPT ![t] = step]
  IN call' = after /\ raced' = (raced \/ Racing(after))
Failed(t)     == Goto(t, "idle") /\ fails < MaxFails /\ fails' = fails + 1

(* is_gralloc_gbm_ready: what it may return.                                *)
is_gralloc_gbm_ready ==
  IF g_driver = Null THEN {FALSE}
  ELSE IF heap[g_driver].live \/ Intact THEN {heap[g_driver].ready}
  ELSE BOOLEAN

-----------------------------------------------------------------------------
(* A call of the mapper: CHECK_BACKEND asks isReady.                        *)
Check(t) ==
  /\ call[t] = "idle"
  /\ \E ready \in is_gralloc_gbm_ready : Goto(t, IF ready THEN "enter" ELSE "init")
  /\ UNCHANGED <<g_driver, heap, opens, fails>>

(* Faulty variant: an initialisation forgets the driver there was.          *)
InitTestForgets(t) ==
  /\ call[t] = "init"
  /\ \E ready \in is_gralloc_gbm_ready :
       /\ Goto(t, IF ready THEN "enter" ELSE "calloc")
       /\ g_driver' = IF ready THEN g_driver ELSE Null
  /\ UNCHANGED <<heap, opens, fails>>

(* gralloc_gbm_init. It begins with a test of its own.                      *)
InitTest(t) ==
  /\ call[t] = "init"
  /\ \E ready \in is_gralloc_gbm_ready : Goto(t, IF ready THEN "enter" ELSE "calloc")
  /\ UNCHANGED <<g_driver, heap, opens, fails>>

InitCalloc(t) ==
  /\ call[t] = "calloc"
  /\ \E b \in Block :
       /\ ~heap[b].live
       /\ g_driver' = b
       /\ heap' = [heap EXCEPT ![b] = Zeroed]
  /\ Goto(t, "open")
  /\ UNCHANGED <<opens, fails>>

InitCallocFail(t) ==
  /\ call[t] = "calloc"
  /\ g_driver' = Null
  /\ Failed(t)
  /\ UNCHANGED <<heap, opens>>

(* A step that writes through g_driver as it is now.                        *)
Through(step, t) == call[t] = step /\ g_driver # Null /\ heap[g_driver].live

(* Faulty variant: the driver counts as ready before it has its device.     *)
InitOpenReady(t) ==
  /\ Through("open", t)
  /\ opens' = opens + 1
  /\ heap' = [heap EXCEPT ![g_driver].dri_fd = TRUE, ![g_driver].ready = TRUE]
  /\ Goto(t, "device")
  /\ UNCHANGED <<g_driver, fails>>

InitOpen(t) ==
  /\ Through("open", t)
  /\ opens' = opens + 1
  /\ heap' = [heap EXCEPT ![g_driver].dri_fd = TRUE]
  /\ Goto(t, "device")
  /\ UNCHANGED <<g_driver, fails>>

InitOpenFail(t) ==
  /\ Through("open", t)
  /\ heap' = [heap EXCEPT ![g_driver] = Freed(@)]
  /\ Failed(t)
  /\ UNCHANGED <<g_driver, opens>>

(* Faulty variant: the driver is ready before it has a device.              *)
InitDeviceReady(t) ==
  /\ Through("device", t)
  /\ heap' = [heap EXCEPT ![g_driver].ready = TRUE]
  /\ Goto(t, "enter")
  /\ UNCHANGED <<g_driver, opens, fails>>

InitDevice(t) ==
  /\ Through("device", t)
  /\ heap' = [heap EXCEPT ![g_driver].gbm_dev = TRUE]
  /\ Goto(t, "ready")
  /\ UNCHANGED <<g_driver, opens, fails>>

(* The descriptor closed is that of the driver g_driver is now: of one just *)
(* allocated by another thread it is 0, which is no render node.            *)
InitDeviceFail(t) ==
  /\ Through("device", t)
  /\ opens' = IF heap[g_driver].dri_fd THEN opens - 1 ELSE opens
  /\ heap' = [heap EXCEPT ![g_driver] = Freed(@)]
  /\ Failed(t)
  /\ UNCHANGED g_driver

InitReady(t) ==
  /\ Through("ready", t)
  /\ heap' = [heap EXCEPT ![g_driver].ready = TRUE]
  /\ Goto(t, "enter")
  /\ UNCHANGED <<g_driver, opens, fails>>

(* A function of libgralloc_gbm, which asks again and returns -ENODEV.      *)
Enter(t) ==
  /\ call[t] = "enter"
  /\ \E ready \in is_gralloc_gbm_ready : Goto(t, IF ready THEN "use" ELSE "idle")
  /\ UNCHANGED <<g_driver, heap, opens, fails>>

(* gbm_bo_create(g_driver->gbm_dev, ...) and others.                        *)
Usable == g_driver # Null /\ heap[g_driver].live /\ heap[g_driver].gbm_dev
Use(t) ==
  /\ call[t] = "use"
  /\ Goto(t, IF Usable THEN "idle" ELSE "crashed")
  /\ UNCHANGED <<g_driver, heap, opens, fails>>

(* A write through a null or freed g_driver.                                *)
Crash(t) ==
  /\ call[t] \in {"open", "device", "ready"}
  /\ ~Through(call[t], t)
  /\ Goto(t, "corrupt")
  /\ UNCHANGED <<g_driver, heap, opens, fails>>

Next == \E t \in Thread :
  \/ Check(t) \/ InitTest(t) \/ InitCalloc(t) \/ InitCallocFail(t)
  \/ InitOpen(t) \/ InitOpenFail(t) \/ InitDevice(t) \/ InitDeviceFail(t) \/ InitReady(t)
  \/ Enter(t) \/ Use(t) \/ Crash(t)

Spec == Init /\ [][Next]_vars

-----------------------------------------------------------------------------
(* The variables have their types: no more render nodes are closed than     *)
(* were opened.                                                             *)
TypeOK ==
  /\ g_driver \in Block \cup {Null}
  /\ heap \in [Block -> Driver]
  /\ opens \in Nat
  /\ fails \in 0..MaxFails
  /\ call \in [Thread -> Steps]
  /\ raced \in BOOLEAN

(* Who is told that the driver is ready has a device to use: gralloc_gbm.h  *)
(* "Return the initialized driver instance or nullptr if the driver is      *)
(* uninitialized" (gralloc_gbm.h:70, gralloc_gbm_get).                      *)
ReadyIsUsable == \A t \in Thread : call[t] = "use" => Usable

(* However often an initialisation fails, the process neither uses a driver *)
(* without a device nor writes through a pointer to one that is gone.       *)
NeverCrashed == \A t \in Thread : call[t] \notin {"crashed", "corrupt"}

(* Initialisations that race write through g_driver as another thread left  *)
(* it: that is a driver, wrong as it may be, until one of them fails.       *)
CorruptNeedsFailure == (\E t \in Thread : call[t] = "corrupt") => fails > 0

(* The process has the render node open once at most, however often an      *)
(* initialisation has failed.                                               *)
OneRenderNode == opens <= 1

(* All three, as long as no initialisation overlaps with another call: in   *)
(* the service however many calls overlap, in a mapper for calls one at a   *)
(* time, initialisations that fail at any step among them.                  *)
SerialInitSound == ~raced => ReadyIsUsable /\ NeverCrashed /\ OneRenderNode

(* Once it is ready the driver stays, ready, where it is.                   *)
StaysReady ==
  [][~raced /\ g_driver # Null /\ heap[g_driver].live /\ heap[g_driver].ready =>
       g_driver' = g_driver /\ heap'[g_driver] = heap[g_driver]]_vars
=============================================================================
