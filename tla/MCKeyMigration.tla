--------------------------- MODULE MCKeyMigration ---------------------------
(***************************************************************************)
(* KeyMigration for TLC.                                                    *)
(***************************************************************************)
EXTENDS KeyMigration, TLC

CONSTANTS h1, x1
=============================================================================
