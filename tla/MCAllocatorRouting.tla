-------------------------- MODULE MCAllocatorRouting --------------------------
(* AllocatorRouting on a small instance, for TLC.                           *)
EXTENDS AllocatorRouting, TLC

(* One descriptor for each way selectBackend may go: an image GBM can       *)
(* allocate, an image and a one-line image it cannot, a linear and a        *)
(* two-dimensional blob.                                                    *)
MCDesc == {[blob |-> FALSE, linear |-> FALSE, gbm |-> TRUE],
           [blob |-> FALSE, linear |-> FALSE, gbm |-> FALSE],
           [blob |-> FALSE, linear |-> TRUE,  gbm |-> FALSE],
           [blob |-> TRUE,  linear |-> TRUE,  gbm |-> FALSE],
           [blob |-> TRUE,  linear |-> FALSE, gbm |-> FALSE]}

Symmetry == Permutations(Thread) \cup Permutations(Id)
=============================================================================
