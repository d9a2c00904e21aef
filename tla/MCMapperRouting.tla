--------------------------- MODULE MCMapperRouting ---------------------------
(* MapperRouting on a small instance, for TLC.                              *)
EXTENDS MapperRouting, TLC

CONSTANTS img1, img2, line1, line2, sheet

MCContent == [h \in Handle |->
  CASE h \in {line1, line2} -> "line" [] h = sheet -> "sheet" [] OTHER -> "image"]

Symmetry == Permutations(Thread) \cup Permutations({img1, img2})
              \cup Permutations({line1, line2})
=============================================================================
