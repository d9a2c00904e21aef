-------------------------- MODULE MCDmaBufAllocator --------------------------
(* DmaBufAllocator on a small instance, for TLC.                            *)
EXTENDS DmaBufAllocator, TLC

Ask(w, h, n) == [width |-> w, height |-> h, count |-> n]

(* What isSupported accepts: lines, of no byte, of a few, of many.          *)
MCLines == {Ask(0, 1, 1), Ask(20, 1, 2), Ask(127, 1, 1), Ask(20, 1, 0)}

(* And what it does not: of more bytes than an int32_t counts.              *)
MCAny == {Ask(20, 1, 1), Ask(16, 17, 1), Ask(12, 12, 2)}

Symmetry == Permutations(Fd) \cup Permutations(Mem)
=============================================================================
