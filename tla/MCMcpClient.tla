---------------------------- MODULE MCMcpClient ----------------------------
(* Three callers and four requests, one more than there are callers: some  *)
(* request is made while the answer to an earlier one is still on its way. *)
EXTENDS McpClient

CONSTANTS c1, c2, c3

=============================================================================
