---------------------------- MODULE MCSocketTests ----------------------------
(* SocketTests, each of the tests.                                         *)
EXTENDS SocketTests

Tests == {"nonblocking", "testrecv", "twoselects", "bind", "bind_open", "async", "block"}

=============================================================================
