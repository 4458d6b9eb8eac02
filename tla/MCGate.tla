------------------------------- MODULE MCGate -------------------------------
(* Every policy over two tools, one argument and two principals, of which  *)
(* one is the agent; and every manifest.                                   *)
EXTENDS Gate

CONSTANTS agent, scheduler, k1, k2, a1, v1

=============================================================================
