-------------------------------- MODULE Gate --------------------------------
(***************************************************************************)
(* The policy gate (src/src/vahub/agent/policy.py), the rules a policy     *)
(* must satisfy to be loaded (src/src/vahub/config/models.py), and the     *)
(* other readers of a tool's class: the owner's own path in                *)
(* src/src/vahub/core/moduleapi.py, the guard of the routines made at run  *)
(* time in src/src/vahub/scheduler/service.py, and the catalog the model   *)
(* is shown.                                                               *)
(*                                                                         *)
(* The policy is read once, at the start of the hub, and only a loadable   *)
(* one starts it.  What a module says of its tools changes under a running *)
(* hub, whenever a module is installed.                                    *)
(*                                                                         *)
(* A glob is the set of keys it matches, and the constraints of a rule the *)
(* values that pass all tests, for each argument: none of them if the rule *)
(* has no entry for it, which the gate refuses as it refuses a bad value.  *)
(***************************************************************************)
EXTENDS Naturals

CONSTANTS
  Names,         (* the principals, configured or not                      *)
  Agent,         (* the one that runs the output of the model              *)
  Keys,          (* the tools, as module.tool                              *)
  Params,        (* the names of arguments                                 *)
  Values,        (* ... and their values                                   *)
  Absent         (* no rule, no principal, no argument or no declaration   *)

Classes == {"read", "write", "destructive"}

ASSUME GateAssumption ==
  /\ Agent \in Names
  /\ Absent \notin Classes \cup Values

Rule == [cls : Classes, constraints : [Params -> SUBSET Values]]
Principal == [confirm : SUBSET Classes, deny : SUBSET Keys]
Policy ==
  [default : {"deny", "allow"},
   rules : [Keys -> Rule \cup {Absent}],
   principals : [Names -> Principal \cup {Absent}]]

Manifests == [Keys -> Classes \cup {Absent}]
Arguments == [Params -> Values \cup {Absent}]

VARIABLES
  policy,        (* the policy of the configuration                        *)
  declared       (* declared[k]: the class the manifest gives to tool k    *)

vars == <<policy, declared>>

-----------------------------------------------------------------------------
(* The validators of PolicyConfig.                                         *)

(* A destructive rule is one the agent confirms or cannot reach.           *)
AgentAsks(p) ==
  LET destructive == {k \in Keys : p.rules[k] # Absent /\ p.rules[k].cls = "destructive"}
      asked == p.principals[Agent]
  IN  \/ destructive = {}
      \/ /\ asked # Absent
         /\ "destructive" \in asked.confirm \/ destructive \subseteq asked.deny

(* default=allow with no rule at all is refused.                           *)
Loadable(p) ==
  /\ p.default = "allow" => \E k \in Keys : p.rules[k] # Absent
  /\ AgentAsks(p)

-----------------------------------------------------------------------------
(* Gate.                                                                   *)

Rank(c) == CASE c = "read" -> 0 [] c = "write" -> 1 [] c = "destructive" -> 2

Stronger(a, b) == IF b = Absent \/ Rank(a) >= Rank(b) THEN a ELSE b

ClsFor(p, k) == IF p.rules[k] = Absent THEN "read" ELSE p.rules[k].cls

DeniedByPrincipal(p, who, k) ==
  p.principals[who] # Absent /\ k \in p.principals[who].deny

Unruled(p, k) == p.rules[k] = Absent /\ p.default = "deny"

(* Mutant of VisibleTo: a tool is shown only if a rule names it.           *)
VisibleIfRuled(p, who, k) == ~DeniedByPrincipal(p, who, k) /\ p.rules[k] # Absent

VisibleTo(p, who, k) == ~DeniedByPrincipal(p, who, k) /\ ~Unruled(p, k)

(* Each argument is described and passes.  An open rule describes none.    *)
ArgumentsPass(p, k, args) ==
  \A a \in Params :
    args[a] # Absent => /\ p.rules[k] # Absent
                        /\ args[a] \in p.rules[k].constraints[a]

Confirms(p, who, c) == p.principals[who] # Absent /\ c \in p.principals[who].confirm

(* Mutants of Evaluate: the question is asked before the arguments are     *)
(* looked at; and a class the manifest raised is taken for the rule's.     *)
EvaluateAskFirst(p, d, who, k, args) ==
  LET cls == Stronger(ClsFor(p, k), d[k])
  IN  CASE DeniedByPrincipal(p, who, k) \/ Unruled(p, k) -> "deny"
        [] OTHER -> IF Confirms(p, who, cls) THEN "confirm"
                    ELSE IF ~ArgumentsPass(p, k, args) THEN "deny"
                    ELSE IF cls # ClsFor(p, k) THEN "deny" ELSE "allow"

EvaluateRuleClass(p, d, who, k, args) ==
  CASE \/ DeniedByPrincipal(p, who, k)
       \/ Unruled(p, k)
       \/ ~ArgumentsPass(p, k, args) -> "deny"
    [] OTHER -> IF Confirms(p, who, ClsFor(p, k)) THEN "confirm" ELSE "allow"

Evaluate(p, d, who, k, args) ==
  LET cls == Stronger(ClsFor(p, k), d[k])
  IN  CASE \/ DeniedByPrincipal(p, who, k)
           \/ Unruled(p, k)
           \/ ~ArgumentsPass(p, k, args) -> "deny"
        [] OTHER -> IF Confirms(p, who, cls) THEN "confirm"
                    ELSE IF cls # ClsFor(p, k) THEN "deny" ELSE "allow"

(* What a call and the catalog each look at, of a module and of its tool:  *)
(* the state and the client of the module, whether it listed the tool, and *)
(* whether the name is reserved for the hub.                               *)
Live ==
  [state : {"ready", "other"}, client : BOOLEAN, listed : BOOLEAN, reserved : BOOLEAN]

Callable(m) == ~m.reserved /\ m.state = "ready" /\ m.client /\ m.listed

InCatalog(p, m, who, k) ==
  /\ m.state = "ready" /\ m.listed /\ ~m.reserved
  /\ VisibleTo(p, who, k)

-----------------------------------------------------------------------------
(* The owner's path: ModuleAPI._owner_class and _call_read.                *)

(* Mutant of OwnerClass: what the module says of itself.                   *)
OwnerClassDeclared(p, d, k) == d[k]

OwnerClass(p, d, k) == IF d[k] = Absent THEN Absent ELSE Stronger(d[k], ClsFor(p, k))

OwnerMayCall(p, d, k, allow_write) ==
  \/ OwnerClass(p, d, k) = "read"
  \/ OwnerClass(p, d, k) = "write" /\ allow_write

-----------------------------------------------------------------------------
(* The guard of Scheduler.add_dynamic: effective_class, which knows nothing*)
(* of a tool that no module declares, and the rule by itself.              *)

(* Mutant of Schedulable: the rule is not looked at by itself.             *)
SchedulableAsDeclared(p, d, k) == OwnerClass(p, d, k) # "destructive"

Schedulable(p, d, k) ==
  /\ OwnerClass(p, d, k) # "destructive"
  /\ p.rules[k] # Absent => p.rules[k].cls # "destructive"

-----------------------------------------------------------------------------
Init ==
  /\ policy \in {p \in Policy : Loadable(p)}
  /\ declared = [k \in Keys |-> Absent]

(* Mutant of Declare: the manifest that was read replaces all others.      *)
DeclareOnly(k, c) ==
  /\ declared[k] # c
  /\ declared' = [x \in {k} |-> c]
  /\ UNCHANGED policy

(* A module is discovered, installed again with another manifest, or       *)
(* removed.                                                                *)
Declare(k, c) ==
  /\ declared[k] # c
  /\ declared' = [declared EXCEPT ![k] = c]
  /\ UNCHANGED policy

Next == \E k \in Keys, c \in Classes \cup {Absent} : Declare(k, c)

Spec == Init /\ [][Next]_vars

-----------------------------------------------------------------------------
(* Every variable has its type, and the policy is one that may be loaded.  *)
TypeOK ==
  /\ policy \in Policy
  /\ Loadable(policy)
  /\ declared \in Manifests

Verdict(who, k, args) == Evaluate(policy, declared, who, k, args)

(* The model never acts destructively unasked: whatever the policy that    *)
(* was loaded, and whatever a module has come to say of its tool since,    *)
(* "the agent must ask before anything destructive" (Principal).           *)
AgentAlwaysAsks ==
  \A k \in Keys, args \in Arguments :
    Stronger(ClsFor(policy, k), declared[k]) = "destructive"
      => Verdict(Agent, k, args) # "allow"

(* "Permission comes from policy.rules alone, so adding or misspelling a   *)
(* principal can never widen what is reachable", and no manifest grants    *)
(* anything: what is not denied is allowed by the rules by themselves,     *)
(* with no principal configured and nothing declared.                      *)
NoPrincipals == [policy EXCEPT !.principals = [n \in Names |-> Absent]]
NoManifest == [k \in Keys |-> Absent]

RulesGrant ==
  \A who \in Names, k \in Keys, args \in Arguments :
    Verdict(who, k, args) # "deny"
      => Evaluate(NoPrincipals, NoManifest, who, k, args) = "allow"

(* The catalog hides only "a tool the principal could never call"          *)
(* (catalog.py): what would be carried out or asked about is in it, though *)
(* the call and the catalog look at the module, and at the policy, by      *)
(* different code.                                                         *)
ReachableIsVisible ==
  \A m \in Live, who \in Names, k \in Keys, args \in Arguments :
    Callable(m) /\ Verdict(who, k, args) # "deny" => InCatalog(policy, m, who, k)

(* "Everything that decides 'is this dangerous?' has to ask the same       *)
(* question" (effective_class), and three places decide it by themselves.  *)
(* The owner reaches nothing that the gate takes for destructive, and      *)
(* without allow_write nothing it takes for a write.                       *)
OwnerNeverDestructive ==
  \A k \in Keys, allow_write \in BOOLEAN :
    OwnerMayCall(policy, declared, k, allow_write)
      => Stronger(ClsFor(policy, k), declared[k])
           \in {"read"} \cup (IF allow_write THEN {"write"} ELSE {})

(* A step that the guard of the routines let pass, whatever the manifests  *)
(* said then and whether its module was installed at all, is not carried   *)
(* out unattended as something destructive, whatever they say now.         *)
RoutineNeverDestructive ==
  \A k \in Keys, then \in Classes \cup {Absent} :
    /\ Schedulable(policy, [declared EXCEPT ![k] = then], k)
    /\ Stronger(ClsFor(policy, k), declared[k]) = "destructive"
    => \A who \in Names, args \in Arguments : Verdict(who, k, args) # "allow"

ReadersAgree == OwnerNeverDestructive /\ RoutineNeverDestructive

=============================================================================
