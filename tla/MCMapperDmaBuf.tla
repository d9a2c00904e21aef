--------------------------- MODULE MCMapperDmaBuf ---------------------------
(* MapperDmaBuf on a small instance, for TLC.                               *)
EXTENDS MapperDmaBuf, TLC

CONSTANTS h1, h2, h3, Fb

MCUsageBit == {"sw_read", "sw_write", "hw_fb", "hw_texture"}

(* A buffer for each direction of access; the first may be a framebuffer.   *)
MCHandleUsage == [h \in Handle |->
  CASE h = h1 -> IF Fb THEN {"sw_write", "hw_fb"} ELSE {"sw_write", "hw_texture"}
    [] h = h2 -> {"sw_read"}
    [] h = h3 -> {"hw_texture"}]

(* The client locks with the CPU bits of the handle, for composition, too,  *)
(* or as a framebuffer.                                                     *)
MCLockUsages == [h \in Handle |->
  {(HandleUsage[h] \cap {"sw_read", "sw_write"}) \cup more : more \in {{"hw_texture"}, {"hw_fb"}}}]

Symmetry == Permutations(Thread) \cup Permutations(Block)
=============================================================================
