--------------------------- MODULE DecisionLedger ---------------------------
(***************************************************************************)
(* What POST /v1/decisions promises its clients and an auditor.  A request *)
(* that reaches a key before its first answer may put one row on record,   *)
(* of its own; one that comes after it puts none.  The first row of a key  *)
(* is its answer for good.  Whoever is told anything is told the answer of *)
(* the key or the request's own row: never something that is not on        *)
(* record.  DecisionPath is shown to implement this.                       *)
(***************************************************************************)
CONSTANTS Attempts, Keys, None

VARIABLES
    asked,     \* the requests: by whom, for which key, and was it answered by then
    ledger,    \* the rows on record: by whom, for which key, and the decision
    answer,    \* the decision each key is answered with, None until there is one
    told       \* what has been sent back, and to whom

ledgerVars == <<asked, ledger, answer, told>>

Init ==
    /\ asked = {}
    /\ ledger = {}
    /\ answer = [k \in Keys |-> None]
    /\ told = {}

Ask(a, k) ==
    /\ \A q \in asked : q.by # a
    /\ asked' = asked \cup {[by |-> a, key |-> k, settled |-> answer[k] # None]}
    /\ UNCHANGED <<ledger, answer, told>>

\* The row and the key's answer appear together.
Record(q) ==
    /\ ~ q.settled
    /\ \A t \in told : t.by # q.by
    /\ \A row \in ledger : row.by # q.by
    /\ \E row \in ledger' :
          /\ row.by = q.by /\ row.key = q.key
          /\ ledger' = ledger \cup {row}
          /\ answer' = [answer EXCEPT ![q.key] = IF @ = None THEN row.body ELSE @]
    /\ UNCHANGED <<asked, told>>

Own(q) == {row.body : row \in {r \in ledger : r.by = q.by}}

Tell(q) ==
    /\ \A t \in told : t.by # q.by
    /\ \E body \in ({answer[q.key]} \ {None}) \cup Own(q) :
          told' = told \cup {[by |-> q.by, body |-> body]}
    /\ UNCHANGED <<asked, ledger, answer>>

Next ==
    \/ \E a \in Attempts, k \in Keys : Ask(a, k)
    \/ \E q \in asked : Record(q) \/ Tell(q)

Spec == Init /\ [][Next]_ledgerVars
=============================================================================
