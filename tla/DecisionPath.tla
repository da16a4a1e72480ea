---------------------------- MODULE DecisionPath ----------------------------
(***************************************************************************)
(* POST /v1/decisions for one customer of one tenant: api/decision.py,     *)
(* api/handler.py, api/store.py, velocity/redis_store.py and the part of   *)
(* decision_middleware.py that pins a rule set.                            *)
(*                                                                         *)
(* A request (an attempt, since clients retry) pins the rule set its       *)
(* worker holds, looks its idempotency key up, adds its transaction to the *)
(* Redis window and reads the window back in one MULTI/EXEC, evaluates the *)
(* pinned rules, and writes the decision and the idempotency record in one *)
(* Postgres transaction.  Redis and Postgres share no transaction, and     *)
(* other attempts, of the same key too, run between any two of the steps.  *)
(* All attempts fall inside one rolling window: nothing is trimmed.        *)
(*                                                                         *)
(* The rule set a worker holds is that of RuleSetFeed, which RuleSetCache  *)
(* implements: the requests and the feed share `published` and `cache`.    *)
(***************************************************************************)
EXTENDS DecisionEngine, FiniteSets

CONSTANTS
    Attempts,     \* bound: the HTTP requests sent in a behaviour, each once
    Workers,      \* server processes, each with a rule cache of its own
    Keys,         \* idempotency keys
    RefOf,        \* the transaction_ref a client sends with each key
    MaxVersion,   \* bound: versions published in a behaviour
    RuleSetOf,    \* the rules of each version that compiles
    Fallback,     \* Tenant.fallback_policy
    None

Versions == DOMAIN RuleSetOf
Refs == {RefOf[k] : k \in Keys}

\* A rule of a rule set.  `test` is what its expression asks for: the count of
\* transactions in the window, the customer's lifetime count, or a fact of the
\* transaction itself (`hits`, the refs it holds for).
RuleRecords == [ id : Nat, priority : Nat, severity : Severities, state : {"active", "shadow"},
                 test : {"velocity", "lifetime", "fact"}, limit : Nat, hits : SUBSET Refs ]

ASSUME RuleSetsAssumption ==
    /\ MaxVersion \in Nat /\ Versions \subseteq 1 .. MaxVersion
    /\ \A v \in Versions :
         /\ RuleSetOf[v] \subseteq RuleRecords
         /\ \A r, s \in RuleSetOf[v] : r.id = s.id => r = s
ASSUME NoneIsNoBody == None \notin Attempts \cup Keys \cup Workers

\* The velocity provider a decision is evaluated with: the window it fetched,
\* or UnavailableVelocity.
UnavailableVelocity == [available |-> FALSE, count |-> 0, lifetime |-> 0]

VARIABLES
    attempts,    \* what each request is doing; `late` is history: when the
                 \* request arrived its key had a committed answer already
    members,     \* the refs in the customer's sorted set
    lifetime,    \* the aggregates hash: lifetime_count
    decisions,   \* the Decision table
    responses,   \* the IdempotencyRecord table: the body stored for each key
    published,   \* the latest RuleSetVersion
    cache        \* the version each worker holds, 0 for none

requestVars == <<attempts, members, lifetime, decisions, responses>>
vars == <<requestVars, published, cache>>

Feed == INSTANCE RuleSetFeed WITH serving <- cache, Servable <- Versions

Unsent == [phase |-> "unsent", key |-> None, version |-> 0,
           provider |-> UnavailableVelocity, body |-> None, late |-> FALSE]

Init ==
    /\ attempts = [a \in Attempts |-> Unsent]
    /\ members = {}
    /\ lifetime = 0
    /\ decisions = {}
    /\ responses = [k \in Keys |-> None]
    /\ Feed!Init

-----------------------------------------------------------------------------
(* The feed: a new version, a worker that picks one up, a process that is     *)
(* replaced (what becomes of its requests is Fail).                           *)

Publish == Feed!Publish /\ UNCHANGED requestVars

Refresh(w, v) == Feed!Serve(w, v) /\ UNCHANGED requestVars

Stop(w) == Feed!Stop(w) /\ UNCHANGED requestVars

\* DecisionMiddleware: the handler is built around what the cache holds now.  With
\* nothing in it the request is answered 409 and none of this happens.
Receive(a, w, k) ==
    /\ attempts[a].phase = "unsent"
    /\ cache[w] # 0
    /\ attempts' = [attempts EXCEPT ![a] =
          [Unsent EXCEPT !.phase = "received", !.key = k, !.version = cache[w],
                         !.late = responses[k] # None]]
    /\ UNCHANGED <<members, lifetime, decisions, responses, published, cache>>

\* handler.replay: a stored response goes out verbatim.
Lookup(a) ==
    LET stored == responses[attempts[a].key]
    IN /\ attempts[a].phase = "received"
       /\ attempts' = [attempts EXCEPT
             ![a].phase = IF stored # None THEN "replaying" ELSE "deciding",
             ![a].body  = stored]
       /\ UNCHANGED <<members, lifetime, decisions, responses, published, cache>>

-----------------------------------------------------------------------------
(* Evaluation *)

\* What the interpreter makes of a rule: an unavailable window, and a lifetime
\* fact that is not there, are RuleEvaluationErrors.
Holds(b) == IF b THEN "match" ELSE "no_match"

evaluate_one(rule, ref, provider) ==
    CASE rule.test = "fact" -> Holds(ref \in rule.hits)
      [] rule.test = "velocity" ->
            IF provider.available THEN Holds(provider.count > rule.limit) ELSE "error"
      [] rule.test = "lifetime" ->
            IF provider.available THEN Holds(provider.lifetime > rule.limit) ELSE "error"

results(ruleset, ref, provider) == [rule \in ruleset |-> evaluate_one(rule, ref, provider)]

\* handler.decide, once the provider is there.
evaluate(a, provider) ==
    LET rs == RuleSetOf[attempts[a].version]
        d  == decide(rs, results(rs, RefOf[attempts[a].key], provider), Fallback)
    IN [ decision_id    |-> a,
         version        |-> attempts[a].version,
         outcome        |-> d.outcome,
         matched_rules  |-> d.matched_rules,
         shadow_matches |-> d.shadow_matches,
         errored_rules  |-> d.errored_rules,
         degraded       |-> d.degraded,
         reason         |-> d.reason ]

Evaluated(a, provider) ==
    attempts' = [attempts EXCEPT ![a].phase = "recording",
                                 ![a].provider = provider,
                                 ![a].body = evaluate(a, provider)]

\* Mutant: the window is read before the transaction is added to it.
window_before_write(ref) ==
    [available |-> TRUE, count |-> Cardinality(members), lifetime |-> lifetime]

\* What the MULTI/EXEC returns: the window with this transaction in it.
window_with(ref) ==
    [available |-> TRUE, count |-> Cardinality(members \cup {ref}), lifetime |-> lifetime + 1]

\* record_and_gather.  ZADD of a member that is there only moves its score;
\* HINCRBY counts it again.
record(ref) ==
    /\ members' = members \cup {ref}
    /\ lifetime' = lifetime + 1

Gather(a) ==
    /\ attempts[a].phase = "deciding"
    /\ record(RefOf[attempts[a].key])
    /\ Evaluated(a, window_with(RefOf[attempts[a].key]))
    /\ UNCHANGED <<decisions, responses, published, cache>>

\* Redis raises.  Either it never ran the EXEC or only its reply was lost.
GatherFails(a) ==
    /\ attempts[a].phase = "deciding"
    /\ \/ UNCHANGED <<members, lifetime>>
       \/ record(RefOf[attempts[a].key])
    /\ Evaluated(a, UnavailableVelocity)
    /\ UNCHANGED <<decisions, responses, published, cache>>

-----------------------------------------------------------------------------
(* Recording and answering *)

\* Mutant: update_or_create instead of get_or_create.
stored_after_overwriting(old, body) == body

\* get_or_create: the first commit for a key stays.
stored_after(old, body) == IF old = None THEN body ELSE old

\* Mutant: the write is left to a queue that may drop it.
rows_after_losing(row) == IF row.body.degraded THEN decisions ELSE decisions \cup {row}

rows_after(row) == decisions \cup {row}

\* store.save and the commit of the request's transaction.  An INSERT of the
\* same key by an open transaction is waited for, so the commits are in order.
Save(a) ==
    LET at == attempts[a]
    IN /\ at.phase = "recording"
       /\ decisions' = rows_after([key |-> at.key, transaction_ref |-> RefOf[at.key],
                                   provider |-> at.provider, body |-> at.body])
       /\ responses' = [responses EXCEPT ![at.key] = stored_after(@, at.body)]
       /\ attempts' = [attempts EXCEPT ![a].phase = "committed"]
       /\ UNCHANGED <<members, lifetime, published, cache>>

\* A 200 with this attempt's own body, or with the replayed one.
Answer(a) ==
    /\ attempts[a].phase \in {"committed", "replaying"}
    /\ attempts' = [attempts EXCEPT ![a].phase = "answered"]
    /\ UNCHANGED <<members, lifetime, decisions, responses, published, cache>>

\* Nothing comes back: a database error (500, rolled back), a dead worker, or an
\* answer lost on its way.  What Redis and Postgres have committed stays.
Fail(a) ==
    /\ attempts[a].phase \in {"received", "deciding", "recording", "committed", "replaying"}
    /\ attempts' = [attempts EXCEPT ![a].phase = "failed"]
    /\ UNCHANGED <<members, lifetime, decisions, responses, published, cache>>

-----------------------------------------------------------------------------
Request(a) ==
    \/ \E w \in Workers, k \in Keys : Receive(a, w, k)
    \/ Lookup(a)
    \/ Gather(a)
    \/ GatherFails(a)
    \/ Save(a)
    \/ Answer(a)
    \/ Fail(a)

Next ==
    \/ Publish
    \/ \E w \in Workers : Stop(w) \/ \E v \in Versions : Refresh(w, v)
    \/ \E a \in Attempts : Request(a)

Spec == Init /\ [][Next]_vars

-----------------------------------------------------------------------------
(* The officer's report on a shadow rule *)

\* Mutant: only transactions that were allowed count.
would_have_blocked_allowed(id) ==
    {row \in decisions : id \in row.body.shadow_matches /\ row.body.outcome = "allow"}

\* divergence: where the shadow rule fired and the answer was not a block.
would_have_blocked(id) ==
    {row \in decisions : id \in row.body.shadow_matches /\ row.body.outcome # "block"}

-----------------------------------------------------------------------------
(* Safety *)

Answered == {a \in Attempts : attempts[a].phase = "answered"}

\* A retry sent after an answer was committed for its key is given that very
\* answer, whatever concurrent attempts for the key commit before or after.
RetryReplays ==
    \A a \in Answered :
        attempts[a].late => attempts[a].body = responses[attempts[a].key]

Velocities(v) == {r \in active(RuleSetOf[v]) : r.test = "velocity" /\ r.severity = "block"}

\* A velocity limit is exact: however the attempts interleave, are retried or
\* fail half way, no more than `limit` transactions get past a rule that blocks
\* above `limit` in the window whenever the rule can be evaluated.
VelocityExact ==
    \A v \in Versions : \A r \in Velocities(v) :
        Cardinality({row.transaction_ref : row \in
            {d \in decisions : d.body.version = v /\
                r.id \notin d.body.matched_rules \cup d.body.errored_rules}}) <= r.limit

\* A transaction is let through a velocity control only when it has been counted:
\* with Redis gone the control fails closed, unless the tenant chose otherwise.
AllowedIsCounted ==
    policy_of(Fallback).block = "closed" => \A a \in Answered :
        ( /\ attempts[a].body.outcome = "allow"
          /\ Velocities(attempts[a].body.version) # {} ) =>
        RefOf[attempts[a].key] \in members

\* A shadow rule, matching or failing, changes nothing the caller sees: the
\* decision on record is the one the live rules alone would have given.
ShadowInert ==
    \A row \in decisions :
        LET live == active(RuleSetOf[row.body.version])
            d    == decide(live, results(live, row.transaction_ref, row.provider), Fallback)
        IN /\ row.body.outcome = d.outcome
           /\ row.body.matched_rules = d.matched_rules
           /\ row.body.reason = d.reason

\* The number an officer reads before activating a blocking shadow rule: it is
\* how many decisions of a version would have become a block had the rule been
\* active, short of those where the rule failed and would have failed closed.
ShadowForecast ==
    \A v \in Versions : \A r \in shadow(RuleSetOf[v]) : r.severity = "block" =>
        LET activated == (RuleSetOf[v] \ {r}) \cup {[r EXCEPT !.state = "active"]}
            taken == {row \in decisions : row.body.version = v}
            would(row) ==
                decide(activated, results(activated, row.transaction_ref, row.provider), Fallback)
        IN would_have_blocked(r.id) \cap taken =
             {row \in taken : /\ would(row).outcome = "block" /\ row.body.outcome # "block"
                              /\ r.id \notin row.body.errored_rules}

\* What a client and an auditor can see of the tables and of the requests.
Asked ==
    {[by |-> a, key |-> attempts[a].key, settled |-> attempts[a].late] :
        a \in {b \in Attempts : attempts[b].phase # "unsent"}}

OnLedger ==
    {[by |-> row.body.decision_id, key |-> row.key, body |-> row.body] : row \in decisions}

Sent == {[by |-> a, body |-> attempts[a].body] : a \in Answered}

Ledger == INSTANCE DecisionLedger
              WITH asked <- Asked, ledger <- OnLedger, answer <- responses, told <- Sent

\* The endpoint implements the ledger: however attempts for one key interleave, die
\* and are sent again, each puts at most one row on record, none once the key has
\* its answer, and nobody is told what is not on record.
ImplementsLedger == Ledger!Spec
=============================================================================
