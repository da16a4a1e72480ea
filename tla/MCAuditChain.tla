---------------------------- MODULE MCAuditChain ----------------------------
(* Two workers whose clocks agree.                                         *)
EXTENDS AuditChain, TLC

CONSTANTS w1, w2

ClocksInStep == (w1 :> 0) @@ (w2 :> 0)

\* Ids come in the opposite order of time.
MCIdOf == [n \in 0 .. MaxTime - 1 |-> MaxTime - n]

\* Sound because the clocks agree.
Symmetry == Permutations(Payloads) \cup Permutations(Workers)
=============================================================================
