--------------------------- MODULE MCTcpEchoServer ---------------------------
(* TcpEchoServer on two clients, or on three: more than it has slots.      *)
EXTENDS TcpEchoServer

CONSTANTS c1, c2, c3

\* Two clients send; the third only takes up a slot.
BytesOfEach == [c \in Client |-> CASE c = c1 -> 2 [] c = c2 -> 1 [] c = c3 -> 0]

=============================================================================
