----------------------------- MODULE MCGbmMapper -----------------------------
(* GbmMapper on a small instance, for TLC.                                  *)
EXTENDS GbmMapper, TLC

CONSTANTS b1, b2

MCBuf == {b1, b2}
MCUsageBit == {"sw_read", "sw_write", "hw_render", "hw_texture", "hw_fb"}
MCBufUsage == [b \in MCBuf |-> IF b = b1 THEN {"sw_read", "sw_write", "hw_render"}
                                         ELSE {"hw_render"}]
MCLockUsages == {{}, {"hw_render"}, {"sw_write", "hw_render"}}

(* The kernel may hand out any closed descriptor: the process has others,   *)
(* which come and go.                                                       *)
AnyOf(S) == S

(* Threads, handles, descriptors and BOs are interchangeable; the two       *)
(* dma-bufs are not, their usages differ.                                   *)
Symmetry == Permutations(Thread) \cup Permutations(Handle)
              \cup Permutations(Fd) \cup Permutations(Bo)
=============================================================================
