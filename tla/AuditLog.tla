------------------------------ MODULE AuditLog ------------------------------
(***************************************************************************)
(* What the audit trail promises a reader: a sequence of entries to which  *)
(* entries are appended and in which nothing else ever changes, short of   *)
(* damage done to the database from outside the application.  This is the  *)
(* claim of complylayer/audit/chain.py's module documentation; AuditChain  *)
(* is shown to implement it.                                               *)
(***************************************************************************)
EXTENDS Sequences, Naturals

CONSTANT Entry

VARIABLES
    log,      \* the evidence, oldest first
    damaged   \* has anything but the application written to it?

logVars == <<log, damaged>>

Init == log = <<>> /\ damaged = FALSE

AppendEntry(e) ==
    /\ log' = Append(log, e)
    /\ UNCHANGED damaged

\* A restored backup may lack the newest entries, an altered replica may hold
\* other content in place of what was written.
Damage ==
    /\ damaged' = TRUE
    /\ Len(log') <= Len(log)
    /\ log' \in Seq(Entry)

Next == Damage \/ \E e \in Entry : AppendEntry(e)

Spec == Init /\ [][Next]_logVars
=============================================================================
