-------------------------- MODULE MCRuleLifecycle --------------------------
(* A small instance of RuleLifecycle: a compliance officer and a risk      *)
(* manager, who between them hold every permission of the lifecycle.       *)
EXTENDS RuleLifecycle, TLC

CONSTANTS ola, rita

MCRoleOf == (ola :> "compliance_officer") @@ (rita :> "risk_manager")

\* Two officers, neither of whom may override: every activation needs an approval.
TwoOfficers == (ola :> "compliance_officer") @@ (rita :> "compliance_officer")

Symmetry == Permutations(RuleIds) \cup Permutations(Expressions) \cup Permutations(Slots)
=============================================================================
