---------------------------- MODULE MCModuleAPI ----------------------------
(* Two tasks (a human's confirmation, a routine or an agent turn), one     *)
(* question, one module, and a call for every verdict of the gate.         *)
EXTENDS ModuleAPI

CONSTANTS t1, t2, m1, r1, xAllow, xAsk, xRoutine, xDeny, xOwner

MCTarget == [x \in Calls |-> m1]
MCVerdict ==
  [x \in Calls |-> CASE x = xAllow -> "allow"
                     [] x = xDeny -> "deny"
                     [] OTHER -> "confirm"]

=============================================================================
