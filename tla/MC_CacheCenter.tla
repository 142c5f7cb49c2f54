--------------------------- MODULE MC_CacheCenter ---------------------------
(* Model-checking instance of CacheCenter: sessions, workers and objcore   *)
(* slots are model values given in the .cfg files.                         *)
EXTENDS CacheCenter, TLC

\* Sessions, workers and objcore slots are interchangeable.
Symmetry == Permutations(Sess) \cup Permutations(Workers) \cup Permutations(Objs)
=============================================================================
