--------------------------- MODULE MCPthreadServer ---------------------------
(* PthreadServer on two clients.                                           *)
EXTENDS PthreadServer

CONSTANTS c1, c2, f1, f2

=============================================================================
