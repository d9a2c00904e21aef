---------------------------- MODULE MCGbmAllocator ----------------------------
(* GbmAllocator on a small instance, for TLC.                               *)
EXTENDS GbmAllocator

CONSTANTS MaxFd, MaxBo, MaxBuf

MCFd == 0..MaxFd
MCBo == 1..MaxBo
MCBuf == 1..MaxBuf
MCUsageBit == {"sw_read", "sw_write"}

(* POSIX: the lowest-numbered descriptor that is not open. It is reused as  *)
(* early as can be. Names of BOs and of memory are interchangeable.         *)
Lowest(S) == {x \in S : \A y \in S : x <= y}
=============================================================================
