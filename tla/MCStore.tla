------------------------------- MODULE MCStore -------------------------------
(***************************************************************************)
(* JaybaseStore for TLC.                                                    *)
(***************************************************************************)
EXTENDS StoreLog, StoreInvariant, TLC

CONSTANTS q1, q2, h1, h2

\* Request contents are interchangeable; request IDs are not, when callers also put
\* some of them into plain appends.
Symmetry == Permutations(RequestHashes)
=============================================================================
