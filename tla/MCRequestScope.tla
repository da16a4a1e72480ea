-------------------------- MODULE MCRequestScope --------------------------
(* Two tenants, a compliance officer's key, one key to issue, a decision,  *)
(* two workers.                                                            *)
EXTENDS RequestScope, TLC

CONSTANTS t1, k1, d1

MCBootKey == k1 :> [tenant |-> t1, role |-> "compliance_officer"]
MCDecisionOf == d1 :> t1

Symmetry == Permutations(Workers)
=============================================================================
