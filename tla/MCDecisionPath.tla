--------------------------- MODULE MCDecisionPath ---------------------------
(* One customer, two transactions, two rule set versions.  Version 1 blocks *)
(* above one transaction in the window, flags the first transaction and     *)
(* notes the second for what they are, and shadows a lifetime rule; version *)
(* 2 has retired the velocity control.  One worker stands for all: no step  *)
(* of a request reads another worker's cache, and by being replaced and     *)
(* warmed again one worker serves the versions in any order.                *)
EXTENDS DecisionPath, TLC

CONSTANTS k1, k2, t1, t2

MCRefOf == (k1 :> t1) @@ (k2 :> t2)

Rule(id, priority, severity, state, test, limit, hits) ==
    [id |-> id, priority |-> priority, severity |-> severity, state |-> state,
     test |-> test, limit |-> limit, hits |-> hits]

Velocity == Rule(1, 1, "block", "active", "velocity", 1, {})
Lifetime == Rule(2, 0, "block", "shadow", "lifetime", 1, {})
Listed   == Rule(3, 0, "flag", "active", "fact", 0, {t1})
Noted    == Rule(4, 2, "allow_with_note", "active", "fact", 0, {t2})

MCRuleSetOf == << {Velocity, Lifetime, Listed, Noted}, {Lifetime, Listed} >>

MCFallback == [flag |-> "open"]

Symmetry == Permutations(Attempts)
=============================================================================
