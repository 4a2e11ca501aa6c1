----------------------------- MODULE MCTcpClients -----------------------------
(* TcpClients, each of the programs.                                       *)
EXTENDS TcpClients

Programs == {"intro", "once", "shared", "v4", "v6", "window", "eventfd"}

=============================================================================
