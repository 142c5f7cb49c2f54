---------------------------- MODULE MC_XidCounter ----------------------------
(* Model-checking instance of XidCounter: sessions are model values.       *)
EXTENDS XidCounter, TLC
\* Sessions are interchangeable (safety runs only).
SessSymmetry == Permutations(Sess)
=============================================================================
