--------------------------- MODULE MCMigrations ---------------------------
(***************************************************************************)
(* A small instance of MigrationLedger for TLC: the ledger's own file      *)
(* between the others; file 3 defines anew what file 1 creates, and file   *)
(* 4, which is merged later, writes rows only.                             *)
(***************************************************************************)
EXTENDS MigrationLedger

MCFiles == 1..4
MCMerged == {1, 2, 3}

MCObject == [f \in Files |-> IF f = 3 THEN 1 ELSE f]
=============================================================================
