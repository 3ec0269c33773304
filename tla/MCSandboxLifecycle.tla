------------------------- MODULE MCSandboxLifecycle -------------------------
(***************************************************************************)
(* SandboxLifecycle for TLC; the configurations choose the processes.      *)
(***************************************************************************)
EXTENDS SandboxLifecycle, TLC
=============================================================================
