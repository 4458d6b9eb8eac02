------------------------------ MODULE Approval ------------------------------
(***************************************************************************)
(* What a confirmation promises, with no coroutine, clock, lock or module  *)
(* in sight.  A question about a frozen call is opened once; it is then    *)
(* either granted or withdrawn, for good; and the call of a granted        *)
(* question reaches its module at most once, the call of any other never.  *)
(*                                                                         *)
(* ModuleAPI implements this: see Confirmations there.                     *)
(***************************************************************************)
EXTENDS Naturals

CONSTANT Rows    (* the questions: ids of rows of the table pending_calls *)

VARIABLES
  answer,        (* answer[r]: none | open | granted | withdrawn          *)
  runs           (* runs[r]: how often the call of r was handed over      *)

avars == <<answer, runs>>

AInit ==
  /\ answer = [r \in Rows |-> "none"]
  /\ runs = [r \in Rows |-> 0]

Open(r) ==
  /\ answer[r] = "none"
  /\ answer' = [answer EXCEPT ![r] = "open"]
  /\ UNCHANGED runs

Grant(r) ==
  /\ answer[r] = "open"
  /\ answer' = [answer EXCEPT ![r] = "granted"]
  /\ UNCHANGED runs

(* Several open questions may lapse at once: expiry is swept over a table. *)
Withdraw(S) ==
  /\ \A r \in S : answer[r] = "open"
  /\ answer' = [r \in Rows |-> IF r \in S THEN "withdrawn" ELSE answer[r]]
  /\ UNCHANGED runs

Run(r) ==
  /\ answer[r] = "granted"
  /\ runs[r] = 0
  /\ runs' = [runs EXCEPT ![r] = 1]
  /\ UNCHANGED answer

ANext ==
  \/ \E r \in Rows : Open(r) \/ Grant(r) \/ Run(r)
  \/ \E S \in SUBSET Rows : Withdraw(S)

ASpec == AInit /\ [][ANext]_avars

=============================================================================
