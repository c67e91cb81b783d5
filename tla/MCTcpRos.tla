------------------------------ MODULE MCTcpRos ------------------------------
(* Model values and bounds for checking TcpRos. *)
EXTENDS TcpRos
=============================================================================
