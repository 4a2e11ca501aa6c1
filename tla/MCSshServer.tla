----------------------------- MODULE MCSshServer -----------------------------
(* SshServer on two clients that come back.                                *)
EXTENDS SshServer

CONSTANTS c1, c2

=============================================================================
