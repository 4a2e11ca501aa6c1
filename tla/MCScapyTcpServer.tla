-------------------------- MODULE MCScapyTcpServer --------------------------
(* ScapyTcpServer with two clients.                                        *)
EXTENDS ScapyTcpServer

CONSTANTS c1, c2

=============================================================================
