---------------------------- MODULE RuleSetFeed ----------------------------
(***************************************************************************)
(* What the rule set cache promises the request path: a worker serves      *)
(* nothing, or a published version that compiles; it moves to newer ones   *)
(* only, at moments of its own choosing, perhaps skipping some; and it     *)
(* goes back to serving nothing only by being replaced.  RuleSetCache is   *)
(* shown to implement this, and DecisionPath is composed with it.          *)
(***************************************************************************)
EXTENDS Naturals

CONSTANTS
    Workers,      \* server processes
    MaxVersion,   \* bound: versions published in a behaviour
    Servable      \* the versions whose snapshot compiles

VARIABLES
    published,    \* the highest RuleSetVersion of the tenant, 0 if there is none
    serving       \* the version each worker holds in memory, 0 for none

feedVars == <<published, serving>>

Init ==
    /\ published = 0
    /\ serving = [w \in Workers |-> 0]

Publish ==
    /\ published < MaxVersion
    /\ published' = published + 1
    /\ UNCHANGED serving

\* The swap.  The version was the latest when it was read; others may have been
\* published since.
Serve(w, v) ==
    /\ v \in Servable
    /\ serving[w] < v /\ v <= published
    /\ serving' = [serving EXCEPT ![w] = v]
    /\ UNCHANGED published

\* The process goes and another takes its place.
Stop(w) ==
    /\ serving' = [serving EXCEPT ![w] = 0]
    /\ UNCHANGED published

Next ==
    \/ Publish
    \/ \E w \in Workers : Stop(w) \/ \E v \in Servable : Serve(w, v)

Spec == Init /\ [][Next]_feedVars
=============================================================================
