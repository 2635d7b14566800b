-------------------------- MODULE MCCatalogAppends --------------------------
(***************************************************************************)
(* CatalogAppends for TLC.                                                  *)
(***************************************************************************)
EXTENDS CatalogAppends, TLC

CONSTANTS t1, t2, c1, e1
=============================================================================
