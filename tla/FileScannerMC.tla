---------------------------- MODULE FileScannerMC ----------------------------
(***************************************************************************)
(* FileScanner on small instances.  The tasks of a kind are alike, but the *)
(* runs check liveness, so no symmetry is used.                            *)
(***************************************************************************)
EXTENDS FileScanner
=============================================================================
