----------------------------- MODULE PipelineMC -----------------------------
(***************************************************************************)
(* Pipeline on small instances.                                            *)
(***************************************************************************)
EXTENDS Pipeline

AnyVerdict == {"READY", "GROWING", "FAILED"}
=============================================================================
