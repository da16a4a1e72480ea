--------------------------- MODULE MCRuleSetCache ---------------------------
(* Workers share nothing but the table of versions and every property is   *)
(* about one of them: a single worker stands for all.  Of the versions, one *)
(* fails re-validation and one is malformed, neither the first nor the last. *)
EXTENDS RuleSetCache
=============================================================================
