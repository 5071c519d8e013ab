--------------------------- MODULE MCRpcRuntime ---------------------------
(* A process that hosts the instances, and an operator that hosts none. *)
EXTENDS RpcRuntime

MCHosted == [c \in Clients |-> IF c = "host" THEN Ids ELSE {}]
=============================================================================
