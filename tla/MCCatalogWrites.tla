--------------------------- MODULE MCCatalogWrites ---------------------------
(***************************************************************************)
(* CatalogWrites for TLC.                                                   *)
(***************************************************************************)
EXTENDS CatalogWrites, TLC

CONSTANTS t1, t2, t3, c1, e1, e2

\* Types, commands, and runs of the host command are interchangeable.
Symmetry == Permutations(Types) \cup Permutations(Commands) \cup Permutations(Editors)
=============================================================================
