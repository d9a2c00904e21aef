----------------------------- MODULE BufferLease -----------------------------
(***************************************************************************)
(* What the GBM backend promises the client of a mapper, handle by handle: *)
(* a handle is imported, locked and unlocked, and freed once. A lock that  *)
(* gives the CPU an address is exclusive; locks for the hardware share the *)
(* buffer as long as they ask for no more than the first one was granted.  *)
(* Every call takes effect in one step, whatever else is in progress.      *)
(***************************************************************************)
EXTENDS Integers

CONSTANTS
  Handle,    \* buffer handles
  UsageBit,  \* bits of a usage word
  SwMask     \* the usage bits that need a CPU mapping

VARIABLE lease   \* what the client holds on each handle

Phases == {"none", "held", "freed"}
Lease == [phase: Phases, locks: Nat, used: SUBSET UsageBit]

Unlocked == [phase |-> "held", locks |-> 0, used |-> {}]

Init == lease = [h \in Handle |-> [Unlocked EXCEPT !.phase = "none"]]

Import(h) ==
  /\ lease[h].phase = "none"
  /\ lease' = [lease EXCEPT ![h] = Unlocked]

(* A handle may be freed locked or unlocked; its locks go with it.          *)
Free(h) ==
  /\ lease[h].phase = "held"
  /\ lease' = [lease EXCEPT ![h] = [Unlocked EXCEPT !.phase = "freed"]]

(* The first lock says what the buffer is used for until it is unlocked.    *)
LockFirst(h) ==
  /\ lease[h].phase = "held"
  /\ lease[h].locks = 0
  /\ lease'[h].used \subseteq UsageBit
  /\ lease' = [lease EXCEPT ![h] = [phase |-> "held", locks |-> 1, used |-> lease'[h].used]]

LockAgain(h) ==
  /\ lease[h].locks > 0
  /\ lease[h].used \cap SwMask = {}
  /\ lease' = [lease EXCEPT ![h].locks = @ + 1]

Unlock(h) ==
  /\ lease[h].locks > 0
  /\ lease' = [lease EXCEPT ![h] =
                 IF lease[h].locks = 1 THEN Unlocked
                 ELSE [lease[h] EXCEPT !.locks = lease[h].locks - 1]]

Next == \E h \in Handle :
          Import(h) \/ Free(h) \/ LockFirst(h) \/ LockAgain(h) \/ Unlock(h)

Spec == Init /\ [][Next]_lease
=============================================================================
