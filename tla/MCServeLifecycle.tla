-------------------------- MODULE MCServeLifecycle --------------------------
(***************************************************************************)
(* ServeLifecycle for TLC.                                                  *)
(***************************************************************************)
EXTENDS ServeLifecycle, TLC

CONSTANTS p1, p2, g1, g2, k1, k2

\* Processes are interchangeable, and so are handlers and keys.
Symmetry == Permutations(Procs) \cup Permutations(Handlers) \cup Permutations(Keys)
=============================================================================
