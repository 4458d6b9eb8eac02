----------------------------- MODULE GateProofs -----------------------------
(***************************************************************************)
(* What Gate promises, for every policy and every set of principals, tools *)
(* and arguments.                                                          *)
(***************************************************************************)
EXTENDS Gate, TLAPS

(* The order of the classes decides between two of them.                   *)
LEMMA StrongerBounds ==
  ASSUME NEW a \in Classes, NEW b \in Classes \cup {Absent}
  PROVE  /\ Stronger(a, b) \in Classes
         /\ Stronger(a, b) \in {a, b}
         /\ Rank(Stronger(a, b)) >= Rank(a)
         /\ b # Absent => Rank(Stronger(a, b)) >= Rank(b)
<1>1. \A c \in Classes : Rank(c) \in Nat
  BY DEF Rank, Classes
<1>2. Absent \notin Classes
  BY GateAssumption
<1>3. CASE b = Absent
  BY <1>1, <1>2, <1>3 DEF Stronger
<1>4. CASE b # Absent
  <2>1. b \in Classes
    BY <1>4
  <2> QED
    BY <1>1, <1>4, <2>1 DEF Stronger
<1> QED
  BY <1>3, <1>4

(* Only equals have equal rank, so that the stronger of two classes does   *)
(* not depend on which is asked about first.                               *)
LEMMA StrongerCommutes ==
  ASSUME NEW a \in Classes, NEW b \in Classes
  PROVE  Stronger(a, b) = Stronger(b, a)
<1>1. Absent \notin Classes
  BY GateAssumption
<1>2. Rank("read") = 0 /\ Rank("write") = 1 /\ Rank("destructive") = 2
  BY DEF Rank
<1> QED
  BY <1>1, <1>2 DEF Stronger, Classes

(* Without a rule a tool is a read, and a read is weaker than any class.   *)
LEMMA ClsForType ==
  ASSUME NEW p \in Policy, NEW k \in Keys
  PROVE  ClsFor(p, k) \in Classes
<1>1. p.rules[k] \in Rule \cup {Absent}
  BY DEF Policy
<1> QED
  BY <1>1 DEF ClsFor, Rule, Classes

(* What follows from a call that is not denied.                            *)
LEMMA NotDenied ==
  ASSUME NEW p, NEW d, NEW who, NEW k, NEW args,
         Evaluate(p, d, who, k, args) # "deny"
  PROVE  /\ ~DeniedByPrincipal(p, who, k)
         /\ ~Unruled(p, k)
         /\ ArgumentsPass(p, k, args)
  BY DEF Evaluate

(* What follows from a call that is allowed.                               *)
LEMMA AllowedUnasked ==
  ASSUME NEW p, NEW d, NEW who, NEW k, NEW args,
         Evaluate(p, d, who, k, args) = "allow"
  PROVE  /\ Stronger(ClsFor(p, k), d[k]) = ClsFor(p, k)
         /\ ~Confirms(p, who, ClsFor(p, k))
  BY DEF Evaluate

LEMMA NextTypeOK == TypeOK /\ [Next]_vars => TypeOK'
<1> SUFFICES ASSUME TypeOK, [Next]_vars PROVE TypeOK'
  OBVIOUS
<1>1. ASSUME NEW k \in Keys, NEW c \in Classes \cup {Absent}, Declare(k, c)
      PROVE  TypeOK'
  BY <1>1 DEF TypeOK, Declare, Manifests
<1>2. CASE UNCHANGED vars
  BY <1>2 DEF TypeOK, vars
<1> QED
  BY <1>1, <1>2 DEF Next

(* The policy stays the loadable one the hub was started with, and what    *)
(* modules declare stays a class.                                          *)
THEOREM TypeCorrectness == Spec => []TypeOK
<1>1. Init => TypeOK
  BY DEF Init, TypeOK, Manifests
<1> QED
  BY <1>1, NextTypeOK, PTL DEF Spec

(* The agent is never allowed a destructive call without confirmation: a   *)
(* rule that says so is one the agent confirms or is denied, and a manifest *)
(* that says so raises the class above the rule's, which denies.           *)
THEOREM AgentIsAsked == Spec => []AgentAlwaysAsks
<1>1. TypeOK => AgentAlwaysAsks
  <2> SUFFICES ASSUME TypeOK, NEW k \in Keys, NEW args \in Arguments,
                      Stronger(ClsFor(policy, k), declared[k]) = "destructive",
                      Verdict(Agent, k, args) = "allow"
               PROVE  FALSE
    BY DEF AgentAlwaysAsks
  <2>1. ClsFor(policy, k) = "destructive"
    BY AllowedUnasked DEF Verdict
  <2>2. policy.rules[k] # Absent /\ policy.rules[k].cls = "destructive"
    BY <2>1 DEF ClsFor
  <2>3. PICK D \in SUBSET Keys :
          D = {x \in Keys : policy.rules[x] # Absent /\ policy.rules[x].cls = "destructive"}
    OBVIOUS
  <2>4. /\ policy.principals[Agent] # Absent
        /\ \/ "destructive" \in policy.principals[Agent].confirm
           \/ k \in policy.principals[Agent].deny
    BY <2>2, <2>3 DEF TypeOK, Loadable, AgentAsks
  <2>5. ~Confirms(policy, Agent, "destructive")
    BY <2>1, AllowedUnasked DEF Verdict
  <2>6. ~DeniedByPrincipal(policy, Agent, k)
    BY NotDenied DEF Verdict
  <2> QED
    BY <2>4, <2>5, <2>6 DEF Confirms, DeniedByPrincipal
<1> QED
  BY <1>1, TypeCorrectness, PTL

(* Neither a principal nor a manifest widens what the rules permit.        *)
THEOREM PermissionComesFromRules == Spec => []RulesGrant
<1>1. TypeOK => RulesGrant
  <2> SUFFICES ASSUME TypeOK, NEW who \in Names, NEW k \in Keys, NEW args \in Arguments,
                      Verdict(who, k, args) # "deny"
               PROVE  Evaluate(NoPrincipals, NoManifest, who, k, args) = "allow"
    BY DEF RulesGrant
  <2>1. /\ NoPrincipals.rules = policy.rules
        /\ NoPrincipals.default = policy.default
        /\ NoPrincipals.principals[who] = Absent
    BY DEF NoPrincipals, TypeOK, Policy
  <2>2. ~DeniedByPrincipal(NoPrincipals, who, k)
    BY <2>1 DEF DeniedByPrincipal
  <2>3. ~Unruled(NoPrincipals, k) /\ ArgumentsPass(NoPrincipals, k, args)
    BY <2>1, NotDenied DEF Verdict, Unruled, ArgumentsPass
  <2>4. \A c : ~Confirms(NoPrincipals, who, c)
    BY <2>1 DEF Confirms
  <2>5. Stronger(ClsFor(NoPrincipals, k), NoManifest[k]) = ClsFor(NoPrincipals, k)
    BY DEF Stronger, NoManifest
  <2> QED
    BY <2>2, <2>3, <2>4, <2>5 DEF Evaluate
<1> QED
  BY <1>1, TypeCorrectness, PTL

(* What a principal could reach is never hidden from it.                   *)
THEOREM CatalogIsComplete == Spec => []ReachableIsVisible
<1>1. ReachableIsVisible
  BY NotDenied DEF ReachableIsVisible, Verdict, VisibleTo, InCatalog, Callable
<1> QED
  BY <1>1, PTL

(* The owner's path, the guard of the routines and the gate agree on what  *)
(* is dangerous: a step that was let pass has no destructive rule, so that *)
(* what makes it destructive is a manifest, and that denies it.            *)
THEOREM OneQuestion == Spec => []ReadersAgree
<1>1. TypeOK => OwnerNeverDestructive
  <2> SUFFICES ASSUME TypeOK, NEW k \in Keys, NEW allow_write \in BOOLEAN,
                      OwnerMayCall(policy, declared, k, allow_write)
               PROVE  Stronger(ClsFor(policy, k), declared[k])
                        \in {"read"} \cup (IF allow_write THEN {"write"} ELSE {})
    BY DEF OwnerNeverDestructive
  <2>1. ClsFor(policy, k) \in Classes /\ declared[k] \in Classes \cup {Absent}
    BY ClsForType DEF TypeOK, Manifests
  <2>2. declared[k] # Absent
    BY GateAssumption DEF OwnerMayCall, OwnerClass, Classes
  <2>3. OwnerClass(policy, declared, k) = Stronger(ClsFor(policy, k), declared[k])
    BY <2>1, <2>2, StrongerCommutes DEF OwnerClass
  <2> QED
    BY <2>3 DEF OwnerMayCall
<1>2. RoutineNeverDestructive
  <2> SUFFICES ASSUME NEW k \in Keys, NEW then \in Classes \cup {Absent},
                      Schedulable(policy, [declared EXCEPT ![k] = then], k),
                      Stronger(ClsFor(policy, k), declared[k]) = "destructive",
                      NEW who \in Names, NEW args \in Arguments,
                      Verdict(who, k, args) = "allow"
               PROVE  FALSE
    BY DEF RoutineNeverDestructive
  <2>1. ClsFor(policy, k) = "destructive"
    BY AllowedUnasked DEF Verdict
  <2>2. policy.rules[k] # Absent /\ policy.rules[k].cls = "destructive"
    BY <2>1 DEF ClsFor
  <2> QED
    BY <2>2 DEF Schedulable
<1> QED
  BY <1>1, <1>2, TypeCorrectness, PTL DEF ReadersAgree

=============================================================================
