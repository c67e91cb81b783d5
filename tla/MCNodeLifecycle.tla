-------------------------- MODULE MCNodeLifecycle --------------------------
(* Small instances of NodeLifecycle for TLC. *)
EXTENDS NodeLifecycle
=============================================================================
