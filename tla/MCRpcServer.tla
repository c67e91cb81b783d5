---------------------------- MODULE MCRpcServer ----------------------------
(* Small instances of RpcServer for TLC. *)
EXTENDS RpcServer

CONSTANT Browsers  \* clients that do not speak XML-RPC

AnyBesideBrowsers == [c \in Clients |-> IF c \in Browsers THEN {"get"} ELSE Requests]
=============================================================================
