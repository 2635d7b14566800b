------------------------------ MODULE MCLimiter ------------------------------
(***************************************************************************)
(* FixedWindowLimiter for TLC.                                              *)
(***************************************************************************)
EXTENDS FixedWindowLimiter, TLC

CONSTANTS k1, k2

\* Keys are interchangeable.
Symmetry == Permutations(Keys)
=============================================================================
