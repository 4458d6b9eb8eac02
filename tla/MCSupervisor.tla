---------------------------- MODULE MCSupervisor ----------------------------
(* Two modules: one is installed at the start and configured in the web    *)
(* interface, the other one gets its key from the environment of the hub.  *)
EXTENDS Supervisor, TLC

CONSTANTS m1, m2, v1, v2

Exported == [m \in Names |-> IF m = m2 THEN v1 ELSE Unset]

=============================================================================
