-------------------------- MODULE MCCoroutineServer --------------------------
(* CoroutineServer on two clients and two descriptors.                     *)
EXTENDS CoroutineServer

CONSTANTS c1, c2, f1, f2

=============================================================================
