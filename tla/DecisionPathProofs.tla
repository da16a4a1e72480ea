------------------------- MODULE DecisionPathProofs -------------------------
(***************************************************************************)
(* What POST /v1/decisions promises, for any number of attempts, workers,  *)
(* keys, rule set versions and rules.                                      *)
(*                                                                         *)
(* Bodies: a row on record is one attempt's, decided by the version the    *)
(* attempt pinned with the window it gathered.  Counting: the transactions *)
(* that saw a window of n or less are at most n, because each of them was  *)
(* in the window when the last of them read it.                            *)
(***************************************************************************)
EXTENDS DecisionPath, FiniteSetTheorems, TLAPS

Providers == [available : BOOLEAN, count : Nat, lifetime : Nat]

\* What attempt a answers when it decides with provider p by version v.
Body(a, v, k, p) ==
    LET rs == RuleSetOf[v]
        d  == decide(rs, results(rs, RefOf[k], p), Fallback)
    IN [ decision_id |-> a, version |-> v, outcome |-> d.outcome,
         matched_rules |-> d.matched_rules, shadow_matches |-> d.shadow_matches,
         errored_rules |-> d.errored_rules, degraded |-> d.degraded, reason |-> d.reason ]

Bodies == {Body(b[1], b[2], b[3], b[4]) : b \in Attempts \X Versions \X Keys \X Providers}

AttemptRecords ==
    [ phase : {"unsent", "received", "deciding", "replaying", "recording", "committed",
               "answered", "failed"},
      key : Keys \cup {None}, version : Versions \cup {0},
      provider : Providers, body : Bodies \cup {None}, late : BOOLEAN ]

-----------------------------------------------------------------------------
(* The rule engine.                                                        *)

\* The rules that decide.
Matched(v, k, p) == deciding(RuleSetOf[v], results(RuleSetOf[v], RefOf[k], p), policy_of(Fallback))

LEMMA BodyVerdict ==
  ASSUME NEW a, NEW v, NEW k, NEW p
  PROVE  /\ Body(a, v, k, p).version = v
         /\ Body(a, v, k, p).outcome = combine(Matched(v, k, p))
         /\ Body(a, v, k, p).matched_rules = ids(Matched(v, k, p))
  BY DEF Body, decide, Matched

LEMMA BodyReason ==
  ASSUME NEW a, NEW v, NEW k, NEW p
  PROVE  Body(a, v, k, p).reason = ids(deciding_rule(Matched(v, k, p), combine(Matched(v, k, p))))
  BY DEF Body, decide, Matched

LEMMA BodyErrors ==
  ASSUME NEW a, NEW v, NEW k, NEW p
  PROVE  Body(a, v, k, p).errored_rules =
           ids({rule \in active(RuleSetOf[v]) \cup shadow(RuleSetOf[v]) :
                   results(RuleSetOf[v], RefOf[k], p)[rule] = "error"})
  BY DEF Body, decide

\* A velocity rule is in matched_rules when the window is above its limit, and
\* in errored_rules when there is no window.
LEMMA VelocityRuleSeen ==
  ASSUME NEW a, NEW v, NEW k, NEW p \in Providers, NEW r \in Velocities(v)
  PROVE  /\ p.available = FALSE => r.id \in Body(a, v, k, p).errored_rules
         /\ p.available = TRUE /\ p.count > r.limit => r.id \in Body(a, v, k, p).matched_rules
  <1> DEFINE rs  == RuleSetOf[v]
             res == results(rs, RefOf[k], p)
  <1>1. r \in active(rs) /\ r \in rs /\ r.test = "velocity"
    BY DEF Velocities, active
  <1>2. res[r] = evaluate_one(r, RefOf[k], p)
    BY <1>1 DEF results
  <1>3. p.available = FALSE => res[r] = "error"
    BY <1>1, <1>2 DEF evaluate_one
  <1>4. p.available = TRUE /\ p.count > r.limit => res[r] = "match"
    BY <1>1, <1>2 DEF evaluate_one, Holds
  <1>5. res[r] = "error" => r.id \in Body(a, v, k, p).errored_rules
    <2>1. Body(a, v, k, p).errored_rules =
            ids({rule \in active(rs) \cup shadow(rs) : res[rule] = "error"})
      BY BodyErrors
    <2> QED BY <1>1, <2>1 DEF ids
  <1>6. res[r] = "match" => r.id \in Body(a, v, k, p).matched_rules
    <2>1. res[r] = "match" => r \in Matched(v, k, p)
      BY <1>1 DEF Matched, deciding
    <2>2. Body(a, v, k, p).matched_rules = ids(Matched(v, k, p))
      BY BodyVerdict
    <2> QED BY <2>1, <2>2 DEF ids
  <1> QED BY <1>3, <1>4, <1>5, <1>6

\* Without a window, a block rule on velocity that fails closed blocks.
LEMMA NoWindowBlocks ==
  ASSUME NEW a, NEW v, NEW k, NEW p \in Providers, p.available = FALSE,
         policy_of(Fallback).block = "closed", NEW r \in Velocities(v)
  PROVE  Body(a, v, k, p).outcome = "block"
  <1> DEFINE rs  == RuleSetOf[v]
             res == results(rs, RefOf[k], p)
             m   == Matched(v, k, p)
  <1>1. r \in active(rs) /\ r \in rs /\ r.test = "velocity" /\ r.severity = "block"
    BY DEF Velocities, active
  <1>2. res[r] = "error"
    BY <1>1 DEF results, evaluate_one
  <1>3. policy_of(Fallback)[r.severity] = "closed"
    BY <1>1
  <1>4. r \in m
    BY <1>1, <1>2, <1>3 DEF deciding, Matched
  <1>5. combine(m) = "block"
    BY <1>1, <1>4 DEF combine
  <1>6. Body(a, v, k, p).outcome = combine(m)
    BY BodyVerdict
  <1> QED BY <1>5, <1>6

\* The rules that decide are those that decide without the shadow rules.
LEMMA DecidingIsLive ==
  ASSUME NEW rs, NEW ref, NEW p, NEW policy
  PROVE  deciding(active(rs), results(active(rs), ref, p), policy)
           = deciding(rs, results(rs, ref, p), policy)
  <1>1. active(active(rs)) = active(rs) /\ active(rs) \subseteq rs
    BY DEF active
  <1>2. \A rule \in active(rs) : results(active(rs), ref, p)[rule] = results(rs, ref, p)[rule]
    BY <1>1 DEF results
  <1> QED BY <1>1, <1>2 DEF deciding

-----------------------------------------------------------------------------
(* The inductive invariant.                                                *)

TypeInv ==
    /\ attempts \in [Attempts -> AttemptRecords]
    /\ members \subseteq Refs /\ IsFiniteSet(members)
    /\ lifetime \in Nat
    /\ responses \in [Keys -> Bodies \cup {None}]
    /\ published \in 0 .. MaxVersion
    /\ cache \in [Workers -> Versions \cup {0}]

OnRecord(k, body) == \E row \in decisions : row.key = k /\ row.body = body

\* What an attempt carries at each phase.
Carried(a) ==
    LET at == attempts[a]
    IN /\ at.phase # "unsent" => at.key \in Keys /\ at.version \in Versions
       /\ at.phase \in {"unsent", "received", "deciding", "replaying"} => at.provider.available = FALSE
       /\ at.phase \in {"recording", "committed"} => at.body = Body(a, at.version, at.key, at.provider)
       /\ at.provider.available = TRUE => RefOf[at.key] \in members

\* What an attempt was told, or is about to be.
Told(a) ==
    LET at == attempts[a]
    IN /\ at.phase = "replaying" => responses[at.key] # None /\ at.body = responses[at.key]
       /\ at.phase \in {"committed", "answered"} => OnRecord(at.key, at.body)

\* An attempt that came after its key's answer never decides.
Late(a) ==
    LET at == attempts[a]
    IN at.late = TRUE =>
         /\ at.phase \in {"received", "replaying", "answered", "failed"}
         /\ responses[at.key] # None
         /\ at.phase = "answered" => at.body = responses[at.key]

\* Whose row it is.
RowOf(row, a) ==
    LET at == attempts[a]
    IN /\ at.phase \in {"committed", "answered", "failed"}
       /\ at.key \in Keys /\ at.version \in Versions
       /\ row.key = at.key /\ row.transaction_ref = RefOf[at.key] /\ row.provider = at.provider
       /\ row.body = Body(a, at.version, at.key, at.provider)

Evidence ==
    /\ \A row \in decisions : \E a \in Attempts : RowOf(row, a)
    /\ \A k \in Keys : responses[k] # None => OnRecord(k, responses[k])

\* The transactions that saw a window of n or less.
SawUpTo(n) ==
    {RefOf[attempts[a].key] : a \in
        {b \in Attempts : attempts[b].provider.available = TRUE /\ attempts[b].provider.count <= n}}

Counted == \A n \in Nat : IsFiniteSet(SawUpTo(n)) /\ Cardinality(SawUpTo(n)) <= n

IInv ==
    /\ TypeInv
    /\ \A a \in Attempts : Carried(a) /\ Told(a) /\ Late(a)
    /\ Evidence
    /\ Counted

LEMMA BodyIsABody ==
  ASSUME NEW a \in Attempts, NEW v \in Versions, NEW k \in Keys, NEW p \in Providers
  PROVE  Body(a, v, k, p) \in Bodies
  <1>1. <<a, v, k, p>> \in Attempts \X Versions \X Keys \X Providers
    OBVIOUS
  <1> QED BY <1>1 DEF Bodies

LEMMA EvaluateIsBody ==
  ASSUME NEW a, NEW p
  PROVE  evaluate(a, p) = Body(a, attempts[a].version, attempts[a].key, p)
  BY DEF evaluate, Body

LEMMA UnsentIsRecord == Unsent \in AttemptRecords /\ UnavailableVelocity \in Providers
  BY DEF Unsent, AttemptRecords, UnavailableVelocity, Providers

LEMMA InitIInv == Init => IInv
  <1> SUFFICES ASSUME Init PROVE IInv
    OBVIOUS
  <1>0. \A a \in Attempts : attempts[a] = Unsent
    BY DEF Init
  <1>u. Unsent.phase = "unsent" /\ Unsent.provider.available = FALSE /\ Unsent.late = FALSE
    BY DEF Unsent, UnavailableVelocity
  <1>1. TypeInv
    BY UnsentIsRecord, FS_EmptySet, RuleSetsAssumption DEF Init, TypeInv, Feed!Init
  <1>2. \A a \in Attempts : Carried(a) /\ Told(a) /\ Late(a)
    BY <1>0, <1>u DEF Carried, Told, Late
  <1>3. Evidence
    BY DEF Init, Evidence
  <1>4. Counted
    <2>1. \A n : SawUpTo(n) = {}
      BY <1>0, <1>u DEF SawUpTo
    <2> QED BY <2>1, FS_EmptySet DEF Counted
  <1> QED BY <1>1, <1>2, <1>3, <1>4 DEF IInv
-----------------------------------------------------------------------------
(* Single steps.                                                           *)

\* What commits stays: an attempt that does not step keeps what it has.
LEMMA OthersKeep ==
  ASSUME NEW b \in Attempts, Carried(b), Told(b), Late(b),
         attempts'[b] = attempts[b], attempts[b] \in AttemptRecords,
         members \subseteq members', decisions \subseteq decisions',
         \A k \in Keys : responses[k] # None => responses'[k] = responses[k]
  PROVE  Carried(b)' /\ Told(b)' /\ Late(b)'
  <1>1. Carried(b)'
    BY DEF Carried
  <1>2. attempts[b].phase # "unsent" => attempts[b].key \in Keys
    BY DEF Carried
  <1>3. \A k, body : OnRecord(k, body) => OnRecord(k, body)'
    BY DEF OnRecord
  <1>4. Told(b)'
    BY <1>2, <1>3 DEF Told
  <1>5. Late(b)'
    BY <1>2 DEF Late
  <1> QED BY <1>1, <1>4, <1>5

LEMMA CountsKeep ==
  ASSUME Counted,
         \A b \in Attempts : attempts'[b].provider = attempts[b].provider,
         \A b \in Attempts : attempts[b].provider.available = TRUE => attempts'[b].key = attempts[b].key
  PROVE  Counted'
  <1>1. \A n \in Nat : SawUpTo(n)' = SawUpTo(n)
    BY DEF SawUpTo
  <1> QED BY <1>1 DEF Counted

LEMMA EvidenceKept ==
  ASSUME Evidence, decisions' = decisions, responses' = responses,
         \A b \in Attempts : attempts[b].phase \in {"committed", "answered", "failed"} =>
             /\ attempts'[b].phase \in {"committed", "answered", "failed"}
             /\ attempts'[b].key = attempts[b].key /\ attempts'[b].version = attempts[b].version
             /\ attempts'[b].provider = attempts[b].provider
  PROVE  Evidence'
  <1>1. \A row \in decisions, b \in Attempts : RowOf(row, b) => RowOf(row, b)'
    BY DEF RowOf
  <1>2. \A k, body : OnRecord(k, body) => OnRecord(k, body)'
    BY DEF OnRecord
  <1> QED BY <1>1, <1>2 DEF Evidence

LEMMA AnswerOrFailKeeps ==
  ASSUME NEW a \in Attempts, IInv, Answer(a) \/ Fail(a)
  PROVE  IInv'
  <1> DEFINE at == attempts[a]
  <1>0. at \in AttemptRecords /\ attempts \in [Attempts -> AttemptRecords]
    BY DEF IInv, TypeInv
  <1>1. PICK p \in {"answered", "failed"} :
            /\ attempts' = [attempts EXCEPT ![a].phase = p]
            /\ p = "answered" => at.phase \in {"committed", "replaying"}
            /\ at.phase # "unsent"
    BY DEF Answer, Fail
  <1>2. /\ members' = members /\ lifetime' = lifetime /\ decisions' = decisions
        /\ responses' = responses /\ published' = published /\ cache' = cache
    BY DEF Answer, Fail
  <1>3. /\ attempts'[a].phase = p /\ attempts'[a].key = at.key /\ attempts'[a].version = at.version
        /\ attempts'[a].provider = at.provider /\ attempts'[a].body = at.body
        /\ attempts'[a].late = at.late /\ \A b \in Attempts \ {a} : attempts'[b] = attempts[b]
    BY <1>0, <1>1 DEF AttemptRecords
  <1>4. TypeInv'
    <2>1. [at EXCEPT !.phase = p] \in AttemptRecords
      BY <1>0 DEF AttemptRecords
    <2>2. attempts' \in [Attempts -> AttemptRecords]
      BY <1>0, <1>1, <2>1
    <2> QED BY <1>2, <2>2 DEF IInv, TypeInv
  <1>5. at.phase # "unsent" /\ at.key \in Keys /\ at.version \in Versions
    BY <1>1 DEF IInv, Carried
  <1>6. Carried(a)'
    BY <1>2, <1>3, <1>5 DEF IInv, Carried
  <1>7. Told(a)'
    <2>1. p = "answered" => OnRecord(at.key, at.body)
      BY <1>1, <1>5 DEF IInv, Told, Evidence
    <2>2. \A k, body : OnRecord(k, body) <=> OnRecord(k, body)'
      BY <1>2 DEF OnRecord
    <2> QED BY <1>2, <1>3, <2>1, <2>2 DEF Told
  <1>8. Late(a)'
    BY <1>1, <1>2, <1>3 DEF IInv, Late, Told
  <1>9. \A b \in Attempts : Carried(b)' /\ Told(b)' /\ Late(b)'
    <2>1. ASSUME NEW b \in Attempts \ {a} PROVE Carried(b)' /\ Told(b)' /\ Late(b)'
      BY <1>0, <1>2, <1>3, OthersKeep DEF IInv
    <2> QED BY <1>6, <1>7, <1>8, <2>1
  <1>10. Evidence'
    BY <1>2, <1>3, EvidenceKept DEF IInv
  <1>11. Counted'
    BY <1>3, CountsKeep DEF IInv
  <1> QED BY <1>4, <1>9, <1>10, <1>11 DEF IInv

LEMMA ReceiveKeeps ==
  ASSUME NEW a \in Attempts, NEW w \in Workers, NEW k \in Keys, IInv, Receive(a, w, k)
  PROVE  IInv'
  <1> DEFINE r == [Unsent EXCEPT !.phase = "received", !.key = k, !.version = cache[w],
                                 !.late = responses[k] # None]
  <1>0. attempts \in [Attempts -> AttemptRecords] /\ cache[w] \in Versions
    BY DEF IInv, TypeInv, Receive
  <1>1. /\ members' = members /\ lifetime' = lifetime /\ decisions' = decisions
        /\ responses' = responses /\ published' = published /\ cache' = cache
        /\ attempts' = [attempts EXCEPT ![a] = r] /\ attempts[a].phase = "unsent"
    BY DEF Receive
  <1>2. r \in AttemptRecords
    BY <1>0, UnsentIsRecord DEF AttemptRecords
  <1>3. /\ r.phase = "received" /\ r.key = k /\ r.version = cache[w]
        /\ r.provider = UnavailableVelocity /\ (r.late = TRUE => responses[k] # None)
    BY DEF Unsent
  <1>4. attempts'[a] = r /\ \A b \in Attempts \ {a} : attempts'[b] = attempts[b]
    BY <1>0, <1>1
  <1>5. TypeInv'
    BY <1>0, <1>1, <1>2 DEF IInv, TypeInv
  <1> HIDE DEF r
  <1>6. UnavailableVelocity.available = FALSE
    BY DEF UnavailableVelocity
  <1>7. Carried(a)' /\ Told(a)' /\ Late(a)'
    BY <1>0, <1>1, <1>3, <1>4, <1>6 DEF Carried, Told, Late
  <1>8. \A b \in Attempts : Carried(b)' /\ Told(b)' /\ Late(b)'
    <2>1. ASSUME NEW b \in Attempts \ {a} PROVE Carried(b)' /\ Told(b)' /\ Late(b)'
      BY <1>0, <1>1, <1>4, OthersKeep DEF IInv
    <2> QED BY <1>7, <2>1
  <1>9. Evidence'
    BY <1>1, <1>4, EvidenceKept DEF IInv
  <1>10. Counted'
    <2>1. attempts[a].provider.available = FALSE /\ attempts'[a].provider.available = FALSE
      BY <1>1, <1>3, <1>4, <1>6 DEF IInv, Carried
    <2>2. \A n \in Nat : SawUpTo(n)' = SawUpTo(n)
      BY <1>4, <2>1 DEF SawUpTo
    <2> QED BY <2>2 DEF IInv, Counted
  <1> QED BY <1>5, <1>8, <1>9, <1>10 DEF IInv

LEMMA LookupKeeps ==
  ASSUME NEW a \in Attempts, IInv, Lookup(a)
  PROVE  IInv'
  <1> DEFINE at == attempts[a]
             stored == responses[at.key]
             p == IF stored # None THEN "replaying" ELSE "deciding"
  <1>0. at \in AttemptRecords /\ attempts \in [Attempts -> AttemptRecords] /\ at.phase = "received"
    BY DEF IInv, TypeInv, Lookup
  <1>1. /\ members' = members /\ lifetime' = lifetime /\ decisions' = decisions
        /\ responses' = responses /\ published' = published /\ cache' = cache
        /\ attempts' = [attempts EXCEPT ![a].phase = p, ![a].body = stored]
    BY DEF Lookup
  <1>2. at.key \in Keys /\ at.version \in Versions /\ stored \in Bodies \cup {None}
    BY <1>0 DEF IInv, Carried, TypeInv
  <1>3. /\ attempts'[a].phase = p /\ attempts'[a].key = at.key /\ attempts'[a].version = at.version
        /\ attempts'[a].provider = at.provider /\ attempts'[a].body = stored
        /\ attempts'[a].late = at.late /\ \A b \in Attempts \ {a} : attempts'[b] = attempts[b]
        /\ attempts' \in [Attempts -> AttemptRecords]
    BY <1>0, <1>1, <1>2 DEF AttemptRecords
  <1>4. TypeInv'
    BY <1>1, <1>3 DEF IInv, TypeInv
  <1>5. Carried(a)'
    BY <1>0, <1>1, <1>2, <1>3 DEF IInv, Carried
  <1>6. Told(a)' /\ Late(a)'
    BY <1>0, <1>1, <1>2, <1>3 DEF IInv, Told, Late
  <1>7. \A b \in Attempts : Carried(b)' /\ Told(b)' /\ Late(b)'
    <2>1. ASSUME NEW b \in Attempts \ {a} PROVE Carried(b)' /\ Told(b)' /\ Late(b)'
      BY <1>0, <1>1, <1>3, OthersKeep DEF IInv
    <2> QED BY <1>5, <1>6, <2>1
  <1>8. Evidence'
    BY <1>0, <1>1, <1>3, EvidenceKept DEF IInv
  <1>9. Counted'
    BY <1>3, CountsKeep DEF IInv
  <1> QED BY <1>4, <1>7, <1>8, <1>9 DEF IInv
\* Both gathers evaluate; `p` is what they evaluate with.
LEMMA EvaluatedKeeps ==
  ASSUME NEW a \in Attempts, NEW p \in Providers, IInv, attempts[a].phase = "deciding",
         Evaluated(a, p), UNCHANGED <<decisions, responses, published, cache>>,
         members \subseteq members', members' \subseteq Refs, IsFiniteSet(members'), lifetime' \in Nat,
         p.available = TRUE => /\ RefOf[attempts[a].key] \in members'
                               /\ p.count = Cardinality(members')
  PROVE  IInv'
  <1> DEFINE at == attempts[a]
  <1>0. /\ at \in AttemptRecords /\ attempts \in [Attempts -> AttemptRecords]
        /\ at.key \in Keys /\ at.version \in Versions
        /\ decisions' = decisions /\ responses' = responses /\ published' = published
        /\ cache' = cache
    BY DEF IInv, TypeInv, Carried
  <1>1. PICK body : body = Body(a, at.version, at.key, p)
    OBVIOUS
  <1>2. /\ attempts' = [attempts EXCEPT ![a].phase = "recording", ![a].provider = p, ![a].body = body]
        /\ body \in Bodies
    BY <1>0, <1>1, EvaluateIsBody, BodyIsABody DEF Evaluated
  <1>3. /\ attempts'[a].phase = "recording" /\ attempts'[a].key = at.key
        /\ attempts'[a].version = at.version /\ attempts'[a].provider = p
        /\ attempts'[a].body = body /\ attempts'[a].late = at.late
        /\ \A b \in Attempts \ {a} : attempts'[b] = attempts[b]
        /\ attempts' \in [Attempts -> AttemptRecords]
    BY <1>0, <1>2 DEF AttemptRecords
  <1>4. TypeInv'
    BY <1>0, <1>3 DEF IInv, TypeInv
  <1>5. Carried(a)'
    BY <1>0, <1>1, <1>3 DEF Carried
  <1>6. Told(a)' /\ Late(a)'
    BY <1>0, <1>3 DEF IInv, Told, Late
  <1>7. \A b \in Attempts : Carried(b)' /\ Told(b)' /\ Late(b)'
    <2>1. ASSUME NEW b \in Attempts \ {a} PROVE Carried(b)' /\ Told(b)' /\ Late(b)'
      BY <1>0, <1>3, OthersKeep DEF IInv
    <2> QED BY <1>5, <1>6, <2>1
  <1>8. Evidence'
    BY <1>0, <1>3, EvidenceKept DEF IInv
  <1>9. Counted'
    <2> SUFFICES ASSUME NEW n \in Nat PROVE IsFiniteSet(SawUpTo(n)') /\ Cardinality(SawUpTo(n)') <= n
      BY DEF Counted
    <2>0. at.provider.available = FALSE /\ p.available \in BOOLEAN /\ p.count \in Nat
      BY DEF IInv, Carried, Providers
    \* No window, or one larger than n: the transaction is not among them.
    <2>1. CASE ~(p.available = TRUE /\ p.count <= n)
      <3>1. SawUpTo(n)' = SawUpTo(n)
        BY <1>3, <2>0, <2>1 DEF SawUpTo
      <3> QED BY <3>1 DEF IInv, Counted
    \* Otherwise all of them are in the window it read.
    <2>2. CASE p.available = TRUE /\ p.count <= n
      <3>1. SawUpTo(n)' \subseteq members'
        BY <1>7 DEF SawUpTo, Carried
      <3>2. IsFiniteSet(SawUpTo(n)') /\ Cardinality(SawUpTo(n)') <= Cardinality(members')
        BY <3>1, FS_Subset
      <3>3. Cardinality(SawUpTo(n)') \in Nat
        BY <3>2, FS_CardinalityType
      <3> QED BY <2>0, <2>2, <3>2, <3>3
    <2> QED BY <2>1, <2>2
  <1> QED BY <1>4, <1>7, <1>8, <1>9 DEF IInv

LEMMA GatherKeeps ==
  ASSUME NEW a \in Attempts, IInv, Gather(a) \/ GatherFails(a)
  PROVE  IInv'
  <1> DEFINE ref == RefOf[attempts[a].key]
  <1>0. /\ attempts[a].phase = "deciding" /\ UNCHANGED <<decisions, responses, published, cache>>
        /\ attempts[a].key \in Keys
    BY DEF Gather, GatherFails, IInv, Carried
  <1>1. ref \in Refs /\ lifetime \in Nat /\ members \subseteq Refs /\ IsFiniteSet(members)
    BY <1>0 DEF Refs, IInv, TypeInv
  <1>2. IsFiniteSet(members \cup {ref}) /\ Cardinality(members \cup {ref}) \in Nat
    BY <1>1, FS_AddElement, FS_CardinalityType
  <1>3. CASE Gather(a)
    <2>1. members' = members \cup {ref} /\ lifetime' = lifetime + 1 /\ Evaluated(a, window_with(ref))
      BY <1>3 DEF Gather, record
    <2>2. PICK p : p = window_with(ref)
      OBVIOUS
    <2>3. p \in Providers /\ p.count = Cardinality(members \cup {ref})
      BY <1>1, <1>2, <2>2 DEF window_with, Providers
    <2>4. /\ members \subseteq members' /\ members' \subseteq Refs /\ IsFiniteSet(members')
          /\ lifetime' \in Nat /\ ref \in members' /\ p.count = Cardinality(members')
      BY <1>1, <1>2, <2>1, <2>3
    <2>5. Evaluated(a, p)
      BY <2>1, <2>2
    <2> QED BY <1>0, <2>3, <2>4, <2>5, EvaluatedKeeps
  <1>4. CASE GatherFails(a)
    <2>1. Evaluated(a, UnavailableVelocity)
      BY <1>4 DEF GatherFails
    <2>2. /\ members \subseteq members' /\ members' \subseteq Refs /\ IsFiniteSet(members')
          /\ lifetime' \in Nat
      BY <1>1, <1>2, <1>4 DEF GatherFails, record
    <2>3. UnavailableVelocity \in Providers /\ UnavailableVelocity.available = FALSE
      BY UnsentIsRecord DEF UnavailableVelocity
    <2> QED BY <1>0, <2>1, <2>2, <2>3, EvaluatedKeeps
  <1> QED BY <1>3, <1>4

LEMMA SaveKeeps ==
  ASSUME NEW a \in Attempts, IInv, Save(a)
  PROVE  IInv'
  <1> DEFINE at == attempts[a]
  <1>r. PICK row : row = [key |-> at.key, transaction_ref |-> RefOf[at.key],
                          provider |-> at.provider, body |-> at.body]
    OBVIOUS
  <1>0. /\ at \in AttemptRecords /\ attempts \in [Attempts -> AttemptRecords]
        /\ at.phase = "recording" /\ at.key \in Keys /\ at.version \in Versions
        /\ at.body = Body(a, at.version, at.key, at.provider)
    BY DEF IInv, TypeInv, Carried, Save
  <1>1. /\ members' = members /\ lifetime' = lifetime /\ published' = published /\ cache' = cache
        /\ attempts' = [attempts EXCEPT ![a].phase = "committed"]
        /\ decisions' = decisions \cup {row}
        /\ responses' = [responses EXCEPT ![at.key] = IF @ = None THEN at.body ELSE @]
    BY <1>r DEF Save, rows_after, stored_after
  <1>2. /\ attempts'[a].phase = "committed" /\ attempts'[a].key = at.key
        /\ attempts'[a].version = at.version /\ attempts'[a].provider = at.provider
        /\ attempts'[a].body = at.body /\ attempts'[a].late = at.late
        /\ \A b \in Attempts \ {a} : attempts'[b] = attempts[b]
        /\ attempts' \in [Attempts -> AttemptRecords]
    BY <1>0, <1>1 DEF AttemptRecords
  <1>3. /\ responses' \in [Keys -> Bodies \cup {None}]
        /\ \A k \in Keys : responses[k] # None => responses'[k] = responses[k]
        /\ \A k \in Keys : responses'[k] # responses[k] => k = at.key /\ responses'[k] = at.body
    <2>1. at.body \in Bodies \cup {None} /\ responses \in [Keys -> Bodies \cup {None}]
      BY <1>0 DEF AttemptRecords, IInv, TypeInv
    <2> QED BY <1>0, <1>1, <2>1
  <1>4. TypeInv'
    BY <1>1, <1>2, <1>3 DEF IInv, TypeInv
  <1>5. row.key = at.key /\ row.body = at.body /\ row.provider = at.provider
          /\ row.transaction_ref = RefOf[at.key]
    BY <1>r
  <1>6. \A k, body : OnRecord(k, body) => OnRecord(k, body)'
    BY <1>1 DEF OnRecord
  <1>7. \E r \in decisions' : r.key = at.key /\ r.body = at.body
    BY <1>1, <1>5
  <1>8. Carried(a)'
    BY <1>0, <1>1, <1>2 DEF IInv, Carried
  <1>9. Told(a)'
    BY <1>2, <1>7 DEF Told, OnRecord
  <1>10. Late(a)'
    BY <1>0, <1>2 DEF IInv, Late
  <1>11. \A b \in Attempts : Carried(b)' /\ Told(b)' /\ Late(b)'
    <2>1. ASSUME NEW b \in Attempts \ {a} PROVE Carried(b)' /\ Told(b)' /\ Late(b)'
      BY <1>0, <1>1, <1>2, <1>3, OthersKeep DEF IInv
    <2> QED BY <1>8, <1>9, <1>10, <2>1
  <1>12. Evidence'
    <2>1. ASSUME NEW r \in decisions, NEW b \in Attempts, RowOf(r, b) PROVE RowOf(r, b)'
      <3>1. b # a
        BY <1>0, <2>1 DEF RowOf
      <3> QED BY <1>2, <2>1, <3>1 DEF RowOf
    <2>2. RowOf(row, a)'
      BY <1>0, <1>2, <1>5 DEF RowOf
    <2>3. \A r \in decisions' : \E b \in Attempts : RowOf(r, b)'
      BY <1>1, <2>1, <2>2 DEF IInv, Evidence
    <2>4. ASSUME NEW k \in Keys, responses'[k] # None PROVE OnRecord(k, responses[k])'
      <3>1. CASE responses'[k] = responses[k]
        BY <1>6, <2>4, <3>1 DEF IInv, Evidence
      <3>2. CASE responses'[k] # responses[k]
        BY <1>3, <1>7, <3>2 DEF OnRecord
      <3> QED BY <3>1, <3>2
    <2> QED BY <2>3, <2>4 DEF Evidence
  <1>13. Counted'
    BY <1>2, CountsKeep DEF IInv
  <1> QED BY <1>4, <1>11, <1>12, <1>13 DEF IInv

\* The steps of the feed concern no attempt.
LEMMA FeedKeeps ==
  ASSUME IInv, UNCHANGED requestVars, [Feed!Next]_(Feed!feedVars)
  PROVE  IInv'
  <1>1. published' \in 0 .. MaxVersion /\ cache' \in [Workers -> Versions \cup {0}]
    <2>0. /\ published \in 0 .. MaxVersion /\ cache \in [Workers -> Versions \cup {0}]
          /\ MaxVersion \in Nat
      BY RuleSetsAssumption DEF IInv, TypeInv
    <2>1. CASE Feed!Publish
      BY <2>0, <2>1 DEF Feed!Publish
    <2>2. ASSUME NEW w \in Workers, NEW v \in Versions, Feed!Serve(w, v)
          PROVE  published' = published /\ cache' \in [Workers -> Versions \cup {0}]
      BY <2>0, <2>2 DEF Feed!Serve
    <2>3. ASSUME NEW w \in Workers, Feed!Stop(w)
          PROVE  published' = published /\ cache' \in [Workers -> Versions \cup {0}]
      BY <2>0, <2>3 DEF Feed!Stop
    <2>4. CASE UNCHANGED Feed!feedVars
      BY <2>0, <2>4 DEF Feed!feedVars
    <2> QED BY <2>0, <2>1, <2>2, <2>3, <2>4 DEF Feed!Next
  <1>2. TypeInv'
    BY <1>1 DEF IInv, TypeInv, requestVars
  <1>3. \A a \in Attempts : Carried(a)' /\ Told(a)' /\ Late(a)'
    BY DEF IInv, Carried, Told, Late, OnRecord, requestVars
  <1>4. Evidence'
    BY DEF IInv, Evidence, RowOf, OnRecord, requestVars
  <1>5. Counted'
    BY DEF IInv, Counted, SawUpTo, requestVars
  <1> QED BY <1>2, <1>3, <1>4, <1>5 DEF IInv

LEMMA FeedSteps ==
  ASSUME Publish \/ \E w \in Workers : Stop(w) \/ \E v \in Versions : Refresh(w, v)
  PROVE  UNCHANGED requestVars /\ Feed!Next
  BY DEF Publish, Stop, Refresh, Feed!Next

LEMMA NextIInv == IInv /\ [Next]_vars => IInv'
  <1> SUFFICES ASSUME IInv, [Next]_vars PROVE IInv'
    OBVIOUS
  <1>1. CASE UNCHANGED vars
    BY <1>1, FeedKeeps DEF vars, Feed!feedVars
  <1>2. CASE Publish \/ \E w \in Workers : Stop(w) \/ \E v \in Versions : Refresh(w, v)
    BY <1>2, FeedSteps, FeedKeeps
  <1>3. ASSUME NEW a \in Attempts, Request(a) PROVE IInv'
    BY <1>3, ReceiveKeeps, LookupKeeps, GatherKeeps, SaveKeeps, AnswerOrFailKeeps DEF Request
  <1> QED BY <1>1, <1>2, <1>3 DEF Next

\* In every reachable state each row on record is one attempt's, decided by the
\* version it pinned with the window it gathered.
THEOREM Invariance == Spec => []IInv
  BY InitIInv, NextIInv, PTL DEF Spec

\* handler.replay and get_or_create: a retry sent after an answer was committed
\* for its key is given that very answer.
THEOREM RetriesReplay == Spec => []RetryReplays
  <1>1. IInv => RetryReplays
    <2> SUFFICES ASSUME IInv, NEW a \in Answered, attempts[a].late
                 PROVE  attempts[a].body = responses[attempts[a].key]
      BY DEF RetryReplays
    <2>1. a \in Attempts /\ attempts[a].phase = "answered" /\ attempts[a].late = TRUE
      BY DEF Answered, IInv, TypeInv, AttemptRecords
    <2> QED BY <2>1 DEF IInv, Late
  <1> QED BY <1>1, Invariance, PTL

\* Whatever a client has been told is a row of the decisions table.
AnswerOnRecord == \A a \in Answered : OnRecord(attempts[a].key, attempts[a].body)

\* store.save before the answer: whatever a client has been told is in the
\* decisions table, whoever decided it.
THEOREM AnswersAreOnRecord == Spec => []AnswerOnRecord
  <1>1. IInv => AnswerOnRecord
    BY DEF IInv, Told, AnswerOnRecord, Answered
  <1> QED BY <1>1, Invariance, PTL

\* record_and_gather in one MULTI/EXEC: however the attempts interleave, are
\* retried or fail half way, at most `limit` transactions get past a block rule
\* on velocity whenever the rule can be evaluated.
THEOREM VelocityLimitsHold == Spec => []VelocityExact
  <1>1. IInv => VelocityExact
    <2> SUFFICES ASSUME IInv, NEW v \in Versions, NEW r \in Velocities(v)
                 PROVE  Cardinality({row.transaction_ref : row \in
                            {d \in decisions : d.body.version = v /\
                                r.id \notin d.body.matched_rules \cup d.body.errored_rules}}) <= r.limit
      BY DEF VelocityExact
    <2> DEFINE past == {row.transaction_ref : row \in
                            {d \in decisions : d.body.version = v /\
                                r.id \notin d.body.matched_rules \cup d.body.errored_rules}}
    <2>1. r.limit \in Nat
      BY RuleSetsAssumption DEF Velocities, active, RuleRecords
    <2>2. ASSUME NEW d \in decisions, d.body.version = v,
                 r.id \notin d.body.matched_rules \cup d.body.errored_rules
          PROVE  d.transaction_ref \in SawUpTo(r.limit)
      <3>1. PICK a \in Attempts : RowOf(d, a)
        BY DEF IInv, Evidence
      <3>2. PICK k, p : k = attempts[a].key /\ p = attempts[a].provider
        OBVIOUS
      <3>3. p \in Providers /\ p.available \in BOOLEAN /\ p.count \in Nat
        BY <3>2 DEF IInv, TypeInv, AttemptRecords, Providers
      <3>4. d.body = Body(a, v, k, p) /\ d.transaction_ref = RefOf[k]
        BY <2>2, <3>1, <3>2, BodyVerdict DEF RowOf
      <3>5. p.available = TRUE /\ ~(p.count > r.limit)
        BY <2>2, <3>3, <3>4, VelocityRuleSeen
      <3>6. p.count <= r.limit
        BY <2>1, <3>3, <3>5
      <3> QED BY <3>2, <3>4, <3>5, <3>6 DEF SawUpTo
    <2>3. past \subseteq SawUpTo(r.limit)
      BY <2>2
    <2>4. IsFiniteSet(SawUpTo(r.limit)) /\ Cardinality(SawUpTo(r.limit)) <= r.limit
      BY <2>1 DEF IInv, Counted
    <2>5. IsFiniteSet(past) /\ Cardinality(past) <= Cardinality(SawUpTo(r.limit))
      BY <2>3, <2>4, FS_Subset
    <2>6. Cardinality(past) \in Nat /\ Cardinality(SawUpTo(r.limit)) \in Nat
      BY <2>4, <2>5, FS_CardinalityType
    <2> QED BY <2>1, <2>4, <2>5, <2>6
  <1> QED BY <1>1, Invariance, PTL

\* The fallback policy: with Redis gone a velocity control fails closed, so what
\* is let through it has been counted.
THEOREM AllowedAreCounted == Spec => []AllowedIsCounted
  <1>1. IInv => AllowedIsCounted
    <2> SUFFICES ASSUME IInv, policy_of(Fallback).block = "closed", NEW a \in Answered,
                        attempts[a].body.outcome = "allow",
                        Velocities(attempts[a].body.version) # {}
                 PROVE  RefOf[attempts[a].key] \in members
      BY DEF AllowedIsCounted
    <2>1. PICK row \in decisions : row.key = attempts[a].key /\ row.body = attempts[a].body
      BY DEF IInv, Told, OnRecord, Answered
    <2>2. PICK b \in Attempts : RowOf(row, b)
      BY DEF IInv, Evidence
    <2>3. PICK v, k, p : v = attempts[b].version /\ k = attempts[b].key /\ p = attempts[b].provider
      OBVIOUS
    <2>4. p \in Providers /\ p.available \in BOOLEAN
      BY <2>3 DEF IInv, TypeInv, AttemptRecords, Providers
    <2>5. attempts[a].body = Body(b, v, k, p) /\ k = attempts[a].key
      BY <2>1, <2>2, <2>3 DEF RowOf
    <2>6. PICK r \in Velocities(v) : TRUE
      BY <2>5, BodyVerdict
    <2>7. p.available = TRUE
      BY <2>4, <2>5, NoWindowBlocks
    <2> QED BY <2>3, <2>5, <2>7 DEF IInv, Carried
  <1> QED BY <1>1, Invariance, PTL

\* evaluation.decide: a shadow rule, matching or failing, changes nothing the
\* caller sees.
THEOREM ShadowsAreInert == Spec => []ShadowInert
  <1>1. IInv => ShadowInert
    <2> SUFFICES ASSUME IInv, NEW row \in decisions
                 PROVE  LET live == active(RuleSetOf[row.body.version])
                            d    == decide(live, results(live, row.transaction_ref, row.provider), Fallback)
                        IN /\ row.body.outcome = d.outcome
                           /\ row.body.matched_rules = d.matched_rules
                           /\ row.body.reason = d.reason
      BY DEF ShadowInert
    <2>1. PICK a \in Attempts : RowOf(row, a)
      BY DEF IInv, Evidence
    <2>2. PICK v, k, p : v = attempts[a].version /\ k = attempts[a].key /\ p = attempts[a].provider
      OBVIOUS
    <2>3. /\ row.body = Body(a, v, k, p) /\ row.transaction_ref = RefOf[k] /\ row.provider = p
      BY <2>1, <2>2 DEF RowOf
    <2>4. /\ row.body.version = v /\ row.body.outcome = combine(Matched(v, k, p))
          /\ row.body.matched_rules = ids(Matched(v, k, p))
      BY <2>3, BodyVerdict
    <2>5. row.body.reason = ids(deciding_rule(Matched(v, k, p), combine(Matched(v, k, p))))
      BY <2>3, BodyReason
    <2> DEFINE live == active(RuleSetOf[v])
               m == deciding(live, results(live, RefOf[k], p), policy_of(Fallback))
               d == decide(live, results(live, RefOf[k], p), Fallback)
    <2>6. d.outcome = combine(m) /\ d.matched_rules = ids(m) /\ d.reason = ids(deciding_rule(m, combine(m)))
      BY DEF decide
    <2>7. m = Matched(v, k, p)
      BY DecidingIsLive DEF Matched
    <2> HIDE DEF m, d
    <2>8. /\ row.body.outcome = d.outcome /\ row.body.matched_rules = d.matched_rules
          /\ row.body.reason = d.reason
      BY <2>4, <2>5, <2>6, <2>7
    <2> QED BY <2>3, <2>4, <2>8 DEF d
  <1> QED BY <1>1, Invariance, PTL

\* Whether a live rule decides.
Decides(rule, ref, p, policy) ==
    \/ evaluate_one(rule, ref, p) = "match"
    \/ evaluate_one(rule, ref, p) = "error" /\ policy[rule.severity] = "closed"

LEMMA DecidingIsDecides ==
  ASSUME NEW rs, NEW ref, NEW p, NEW policy
  PROVE  deciding(rs, results(rs, ref, p), policy) = {x \in active(rs) : Decides(x, ref, p, policy)}
  <1>1. active(rs) \subseteq rs
    BY DEF active
  <1>2. \A x \in active(rs) : results(rs, ref, p)[x] = evaluate_one(x, ref, p)
    BY <1>1 DEF results
  <1> QED BY <1>2 DEF deciding, Decides

\* The rules that decide once shadow rule r has become active: those that decided,
\* and r if it matched or fails closed.
LEMMA DecidingActivated ==
  ASSUME NEW rs, NEW r \in shadow(rs), NEW ref, NEW p, NEW policy, NEW now, NEW on,
         now = [r EXCEPT !.state = "active"], on = (rs \ {r}) \cup {now},
         rs \subseteq RuleRecords
  PROVE  deciding(on, results(on, ref, p), policy) =
           deciding(rs, results(rs, ref, p), policy)
             \cup (IF Decides(r, ref, p, policy) THEN {now} ELSE {})
  <1>1. r \in RuleRecords /\ r \in rs /\ r.state = "shadow"
    BY DEF shadow
  <1>2. /\ now.severity = r.severity /\ now.state = "active"
        /\ now.test = r.test /\ now.limit = r.limit /\ now.hits = r.hits
        /\ r.test \in {"velocity", "lifetime", "fact"}
    BY <1>1 DEF RuleRecords
  <1>3. active(on) = active(rs) \cup {now}
    BY <1>1, <1>2 DEF active
  <1>4. evaluate_one(now, ref, p) = evaluate_one(r, ref, p)
    <2>1. CASE r.test = "fact"
      BY <1>2, <2>1 DEF evaluate_one
    <2>2. CASE r.test = "velocity"
      BY <1>2, <2>2 DEF evaluate_one
    <2>3. CASE r.test = "lifetime"
      BY <1>2, <2>3 DEF evaluate_one
    <2> QED BY <1>2, <2>1, <2>2, <2>3
  <1>5. Decides(now, ref, p, policy) <=> Decides(r, ref, p, policy)
    BY <1>2, <1>4 DEF Decides
  <1>6. {x \in active(on) : Decides(x, ref, p, policy)} =
          {x \in active(rs) : Decides(x, ref, p, policy)}
            \cup (IF Decides(r, ref, p, policy) THEN {now} ELSE {})
    BY <1>3, <1>5
  <1>7. deciding(on, results(on, ref, p), policy) = {x \in active(on) : Decides(x, ref, p, policy)}
    BY DecidingIsDecides
  <1>8. deciding(rs, results(rs, ref, p), policy) = {x \in active(rs) : Decides(x, ref, p, policy)}
    BY DecidingIsDecides
  <1> QED BY <1>6, <1>7, <1>8

\* What a shadow rule leaves behind on a row: its match, or its error.
LEMMA ShadowRuleSeen ==
  ASSUME NEW a, NEW v \in Versions, NEW k, NEW p, NEW r \in shadow(RuleSetOf[v])
  PROVE  /\ r.id \in Body(a, v, k, p).shadow_matches <=> evaluate_one(r, RefOf[k], p) = "match"
         /\ r.id \in Body(a, v, k, p).errored_rules <=> evaluate_one(r, RefOf[k], p) = "error"
  <1> DEFINE rs  == RuleSetOf[v]
             res == results(rs, RefOf[k], p)
  <1>1. r \in rs /\ shadow(rs) \subseteq rs /\ active(rs) \subseteq rs
    BY DEF shadow, active
  <1>2. res[r] = evaluate_one(r, RefOf[k], p)
    BY <1>1 DEF results
  <1>3. \A s, t \in rs : s.id = t.id => s = t
    BY RuleSetsAssumption
  <1>4. Body(a, v, k, p).shadow_matches = ids({x \in shadow(rs) : res[x] = "match"})
    BY DEF Body, decide
  <1>5. Body(a, v, k, p).errored_rules = ids({x \in active(rs) \cup shadow(rs) : res[x] = "error"})
    BY BodyErrors
  <1> HIDE DEF res, rs
  <1>6. r.id \in ids({x \in shadow(rs) : res[x] = "match"}) <=> res[r] = "match"
    <2>1. ASSUME NEW x \in shadow(rs), x.id = r.id PROVE x = r
      BY <1>1, <1>3, <2>1
    <2>2. r \in shadow(rs)
      BY DEF rs
    <2> QED BY <2>1, <2>2 DEF ids
  <1>7. r.id \in ids({x \in active(rs) \cup shadow(rs) : res[x] = "error"}) <=> res[r] = "error"
    <2>1. ASSUME NEW x \in active(rs) \cup shadow(rs), x.id = r.id PROVE x = r
      BY <1>1, <1>3, <2>1
    <2>2. r \in active(rs) \cup shadow(rs)
      BY DEF rs
    <2> QED BY <2>1, <2>2 DEF ids
  <1> QED BY <1>2, <1>4, <1>5, <1>6, <1>7

\* divergence: what a shadow rule is reported to have blocked is what it would have
\* blocked had it been active, short of where it failed and would have failed closed.
THEOREM ForecastIsRight == Spec => []ShadowForecast
  <1>1. IInv => ShadowForecast
    <2> SUFFICES ASSUME IInv, NEW v \in Versions, NEW r \in shadow(RuleSetOf[v]), r.severity = "block"
                 PROVE  LET activated == (RuleSetOf[v] \ {r}) \cup {[r EXCEPT !.state = "active"]}
                            taken == {row \in decisions : row.body.version = v}
                            would(row) == decide(activated,
                                results(activated, row.transaction_ref, row.provider), Fallback)
                        IN would_have_blocked(r.id) \cap taken =
                             {row \in taken : /\ would(row).outcome = "block" /\ row.body.outcome # "block"
                                              /\ r.id \notin row.body.errored_rules}
      BY DEF ShadowForecast
    <2>1. PICK now : now = [r EXCEPT !.state = "active"]
      OBVIOUS
    <2>2. PICK on : on = (RuleSetOf[v] \ {r}) \cup {now}
      OBVIOUS
    <2>3. RuleSetOf[v] \subseteq RuleRecords /\ \A s, t \in RuleSetOf[v] : s.id = t.id => s = t
      BY RuleSetsAssumption
    <2>4. now.severity = "block"
      BY <2>1, <2>3 DEF shadow, RuleRecords
    <2>5. ASSUME NEW row \in decisions, row.body.version = v
          PROVE  r.id \in row.body.shadow_matches /\ row.body.outcome # "block" <=>
                   /\ decide(on, results(on, row.transaction_ref, row.provider), Fallback).outcome = "block"
                   /\ row.body.outcome # "block"
                   /\ r.id \notin row.body.errored_rules
      <3>1. PICK a \in Attempts : RowOf(row, a)
        BY DEF IInv, Evidence
      <3>2. PICK k, p : k = attempts[a].key /\ p = attempts[a].provider
        OBVIOUS
      <3>3. row.body = Body(a, v, k, p) /\ row.transaction_ref = RefOf[k] /\ row.provider = p
        BY <2>5, <3>1, <3>2, BodyVerdict DEF RowOf
      <3>4. PICK m, n : /\ m = Matched(v, k, p)
                        /\ n = deciding(on, results(on, RefOf[k], p), policy_of(Fallback))
        OBVIOUS
      <3>5. n = m \cup (IF Decides(r, RefOf[k], p, policy_of(Fallback)) THEN {now} ELSE {})
        BY <2>1, <2>2, <2>3, <3>4, DecidingActivated DEF Matched
      <3>6. decide(on, results(on, RefOf[k], p), Fallback).outcome = combine(n)
        BY <3>4 DEF decide
      <3>7. row.body.outcome = combine(m)
        BY <3>3, <3>4, BodyVerdict
      <3>8. /\ r.id \in row.body.shadow_matches <=> evaluate_one(r, RefOf[k], p) = "match"
            /\ r.id \in row.body.errored_rules <=> evaluate_one(r, RefOf[k], p) = "error"
        BY <3>3, ShadowRuleSeen
      <3>9. now \in n => combine(n) = "block"
        BY <2>4 DEF combine
      <3>10. CASE evaluate_one(r, RefOf[k], p) = "match"
        BY <3>3, <3>5, <3>6, <3>8, <3>9, <3>10 DEF Decides
      <3>11. CASE evaluate_one(r, RefOf[k], p) = "error"
        BY <3>8, <3>11
      <3>12. CASE evaluate_one(r, RefOf[k], p) \notin {"match", "error"}
        <4>1. n = m
          BY <3>5, <3>12 DEF Decides
        <4> QED BY <3>3, <3>6, <3>7, <3>8, <3>12, <4>1
      <3> QED BY <3>10, <3>11, <3>12
    <2> DEFINE taken == {row \in decisions : row.body.version = v}
    <2>6. would_have_blocked(r.id) \cap taken =
            {row \in taken :
               /\ /\ decide(on, results(on, row.transaction_ref, row.provider), Fallback).outcome = "block"
                  /\ row.body.outcome # "block"
               /\ r.id \notin row.body.errored_rules}
      BY <2>5 DEF would_have_blocked
    <2> QED BY <2>1, <2>2, <2>6
  <1> QED BY <1>1, Invariance, PTL

\* An answer that is not degraded owes nothing to the tenant's fallback policy: the
\* rules, the facts and the window on its row give the same verdict under any
\* other, so that a change of the policy, or a replay without one, cannot alter it.
PolicyFree ==
    \A row \in decisions : row.body.degraded = FALSE => \A other :
        LET rs == RuleSetOf[row.body.version]
            d  == decide(rs, results(rs, row.transaction_ref, row.provider), other)
        IN row.body.outcome = d.outcome /\ row.body.matched_rules = d.matched_rules

LEMMA PolicyUnused ==
  ASSUME NEW rs, NEW res, NEW f, NEW g, \A rule \in active(rs) : res[rule] # "error"
  PROVE  deciding(rs, res, f) = deciding(rs, res, g)
  BY DEF deciding

\* replay_decision, which is given no policy, and Tenant.fallback_policy, which may
\* have changed since: neither matters to an answer that is not degraded.
THEOREM PolicyOnlyWhenDegraded == Spec => []PolicyFree
  <1>1. IInv => PolicyFree
    <2> SUFFICES ASSUME IInv, NEW row \in decisions, row.body.degraded = FALSE, NEW other
                 PROVE  LET rs == RuleSetOf[row.body.version]
                            d  == decide(rs, results(rs, row.transaction_ref, row.provider), other)
                        IN row.body.outcome = d.outcome /\ row.body.matched_rules = d.matched_rules
      BY DEF PolicyFree
    <2>1. PICK a \in Attempts : RowOf(row, a)
      BY DEF IInv, Evidence
    <2>2. PICK v, k, p : v = attempts[a].version /\ k = attempts[a].key /\ p = attempts[a].provider
      OBVIOUS
    <2>3. row.body = Body(a, v, k, p) /\ row.transaction_ref = RefOf[k] /\ row.provider = p
      BY <2>1, <2>2 DEF RowOf
    <2>4. PICK rs, res : rs = RuleSetOf[v] /\ res = results(RuleSetOf[v], RefOf[k], p)
      OBVIOUS
    <2>5. \A rule \in active(rs) : res[rule] # "error"
      <3>1. row.body.degraded = ({rule \in active(rs) \cup shadow(rs) : res[rule] = "error"} # {})
        BY <2>3, <2>4 DEF Body, decide
      <3> QED BY <3>1
    <2>6. PICK m : m = deciding(rs, res, policy_of(other))
      OBVIOUS
    <2>7. m = Matched(v, k, p)
      BY <2>4, <2>5, <2>6, PolicyUnused DEF Matched
    <2>8. row.body.version = v /\ row.body.outcome = combine(m) /\ row.body.matched_rules = ids(m)
      BY <2>3, <2>7, BodyVerdict
    <2>9. decide(rs, res, other).outcome = combine(m) /\ decide(rs, res, other).matched_rules = ids(m)
      BY <2>6 DEF decide
    <2> QED BY <2>3, <2>4, <2>8, <2>9
  <1> QED BY <1>1, Invariance, PTL

\* Nothing is pinned ahead of what is published.
Pinned ==
    /\ \A w \in Workers : cache[w] <= published
    /\ \A a \in Attempts : attempts[a].version <= published

\* A row names a version that was published by then and that compiles.
DecidedByPublished ==
    \A row \in decisions : row.body.version \in Versions /\ row.body.version <= published

LEMMA PinnedPreserved == IInv /\ Pinned /\ [Next]_vars => Pinned'
  <1> SUFFICES ASSUME IInv, Pinned, [Next]_vars PROVE Pinned'
    OBVIOUS
  <1>0. /\ attempts \in [Attempts -> AttemptRecords] /\ cache \in [Workers -> Versions \cup {0}]
        /\ published \in Nat /\ Versions \cup {0} \subseteq Nat
    BY RuleSetsAssumption DEF IInv, TypeInv
  <1>1. ASSUME UNCHANGED requestVars, [Feed!Next]_(Feed!feedVars) PROVE Pinned'
    <2>1. attempts' = attempts
      BY <1>1 DEF requestVars
    <2>2. \A a \in Attempts : attempts[a].version \in Nat
      <3>1. \A at \in AttemptRecords : at.version \in Versions \cup {0}
        BY DEF AttemptRecords
      <3> QED BY <1>0, <3>1
    <2>3. CASE Feed!Publish
      <3>1. published' = published + 1 /\ cache' = cache
        BY <2>3 DEF Feed!Publish
      <3>2. \A w \in Workers : cache[w] \in Nat
        BY <1>0
      <3> QED BY <1>0, <2>1, <2>2, <3>1, <3>2 DEF Pinned
    <2>4. ASSUME NEW w \in Workers, NEW v \in Versions, Feed!Serve(w, v) PROVE Pinned'
      BY <1>0, <2>1, <2>4 DEF Feed!Serve, Pinned
    <2>5. ASSUME NEW w \in Workers, Feed!Stop(w) PROVE Pinned'
      BY <1>0, <2>1, <2>5 DEF Feed!Stop, Pinned
    <2>6. CASE UNCHANGED Feed!feedVars
      BY <2>1, <2>6 DEF Feed!feedVars, Pinned
    <2> QED BY <1>1, <2>3, <2>4, <2>5, <2>6 DEF Feed!Next
  <1>2. CASE UNCHANGED vars
    BY <1>1, <1>2 DEF vars, Feed!feedVars
  <1>3. CASE Publish \/ \E w \in Workers : Stop(w) \/ \E v \in Versions : Refresh(w, v)
    BY <1>1, <1>3, FeedSteps
  <1>4. ASSUME NEW a \in Attempts, Request(a) PROVE Pinned'
    <2>1. published' = published /\ cache' = cache
      BY <1>4 DEF Request, Receive, Lookup, Gather, GatherFails, Save, Answer, Fail
    <2>2. ASSUME NEW w \in Workers, NEW k \in Keys, Receive(a, w, k) PROVE Pinned'
      <3>1. PICK r : /\ r = [Unsent EXCEPT !.phase = "received", !.key = k, !.version = cache[w],
                                           !.late = responses[k] # None]
                     /\ attempts' = [attempts EXCEPT ![a] = r]
        BY <2>2 DEF Receive
      <3>2. r.version = cache[w]
        BY <3>1 DEF Unsent
      <3> QED BY <1>0, <2>1, <3>1, <3>2 DEF Pinned
    <2>3. ASSUME NEW p, Evaluated(a, p) PROVE Pinned'
      <3>1. PICK body : attempts' = [attempts EXCEPT ![a].phase = "recording", ![a].provider = p,
                                                     ![a].body = body]
        BY <2>3 DEF Evaluated
      <3>2. \A b \in Attempts : attempts'[b].version = attempts[b].version
        BY <1>0, <3>1 DEF AttemptRecords
      <3> QED BY <2>1, <3>2 DEF Pinned
    <2>4. CASE Lookup(a) \/ Save(a) \/ Answer(a) \/ Fail(a)
      <3>1. \A b \in Attempts : attempts'[b].version = attempts[b].version
        BY <1>0, <2>4 DEF Lookup, Save, Answer, Fail, AttemptRecords
      <3> QED BY <2>1, <3>1 DEF Pinned
    <2> QED BY <1>4, <2>2, <2>3, <2>4 DEF Request, Gather, GatherFails
  <1> QED BY <1>2, <1>3, <1>4 DEF Next

\* DecisionMiddleware pins what the cache holds: the version a decision is recorded
\* under was published before it was decided, and compiled.
THEOREM VersionsArePublished == Spec => []DecidedByPublished
  <1>1. Init => Pinned
    BY RuleSetsAssumption DEF Init, Feed!Init, Pinned, Unsent
  <1>2. Spec => []Pinned
    BY <1>1, PinnedPreserved, Invariance, PTL DEF Spec
  <1>3. IInv /\ Pinned => DecidedByPublished
    <2> SUFFICES ASSUME IInv, Pinned, NEW row \in decisions
                 PROVE  row.body.version \in Versions /\ row.body.version <= published
      BY DEF DecidedByPublished
    <2>1. PICK a \in Attempts : RowOf(row, a)
      BY DEF IInv, Evidence
    <2>2. row.body.version = attempts[a].version /\ attempts[a].version \in Versions
      BY <2>1, BodyVerdict DEF RowOf
    <2> QED BY <2>2 DEF Pinned
  <1> QED BY <1>2, <1>3, Invariance, PTL

-----------------------------------------------------------------------------
(* The endpoint implements the ledger.                                     *)

LEMMA BodyIsOnes ==
  ASSUME NEW a, NEW v, NEW k, NEW p
  PROVE  Body(a, v, k, p).decision_id = a
  BY DEF Body

\* A step that shows neither on the tables nor in an answer.
LEMMA Unseen ==
  ASSUME decisions' = decisions, responses' = responses,
         \A b \in Attempts :
            /\ attempts'[b].key = attempts[b].key /\ attempts'[b].late = attempts[b].late
            /\ attempts'[b].phase = "unsent" <=> attempts[b].phase = "unsent"
            /\ attempts'[b].phase = "answered" <=> attempts[b].phase = "answered"
            /\ attempts[b].phase = "answered" => attempts'[b].body = attempts[b].body
  PROVE  UNCHANGED Ledger!ledgerVars
  <1>1. Asked' = Asked
    BY DEF Asked
  <1>2. OnLedger' = OnLedger
    BY DEF OnLedger
  <1>3. Sent' = Sent
    BY DEF Sent, Answered
  <1> QED BY <1>1, <1>2, <1>3 DEF Ledger!ledgerVars

LEMMA UnseenSteps ==
  ASSUME IInv, NEW a \in Attempts, Lookup(a) \/ Gather(a) \/ GatherFails(a) \/ Fail(a)
  PROVE  UNCHANGED Ledger!ledgerVars
  <1> DEFINE at == attempts[a]
  <1>0. attempts \in [Attempts -> AttemptRecords] /\ at \in AttemptRecords
    BY DEF IInv, TypeInv
  <1>1. decisions' = decisions /\ responses' = responses
    BY DEF Lookup, Gather, GatherFails, Fail
  <1>2. at.phase \notin {"unsent", "answered"}
    BY DEF Lookup, Gather, GatherFails, Fail
  <1>3. /\ attempts'[a].key = at.key /\ attempts'[a].late = at.late
        /\ attempts'[a].phase \notin {"unsent", "answered"}
        /\ \A b \in Attempts \ {a} : attempts'[b] = attempts[b]
    <2>1. CASE Lookup(a)
      BY <1>0, <2>1 DEF Lookup, AttemptRecords
    <2>2. CASE Gather(a) \/ GatherFails(a)
      <3>1. PICK p : Evaluated(a, p)
        BY <2>2 DEF Gather, GatherFails
      <3>2. PICK body : body = evaluate(a, p)
        OBVIOUS
      <3>3. attempts' = [attempts EXCEPT ![a].phase = "recording", ![a].provider = p, ![a].body = body]
        BY <3>1, <3>2 DEF Evaluated
      <3> QED BY <1>0, <3>3 DEF AttemptRecords
    <2>3. CASE Fail(a)
      BY <1>0, <2>3 DEF Fail, AttemptRecords
    <2> QED BY <2>1, <2>2, <2>3
  <1> QED BY <1>1, <1>2, <1>3, Unseen

LEMMA ReceiveAsks ==
  ASSUME IInv, NEW a \in Attempts, NEW w \in Workers, NEW k \in Keys, Receive(a, w, k)
  PROVE  Ledger!Ask(a, k)
  <1>0. attempts \in [Attempts -> AttemptRecords]
    BY DEF IInv, TypeInv
  <1>1. PICK r : r = [Unsent EXCEPT !.phase = "received", !.key = k, !.version = cache[w],
                                    !.late = responses[k] # None]
    OBVIOUS
  <1>2. /\ attempts' = [attempts EXCEPT ![a] = r] /\ attempts[a].phase = "unsent"
        /\ decisions' = decisions /\ responses' = responses
    BY <1>1 DEF Receive
  <1>3. r.phase = "received" /\ r.key = k /\ r.late = (responses[k] # None)
    BY <1>1 DEF Unsent
  <1>4. attempts'[a] = r /\ \A b \in Attempts \ {a} : attempts'[b] = attempts[b]
    BY <1>0, <1>2
  <1>5. \A q \in Asked : q.by # a
    BY <1>2 DEF Asked
  <1>6. Asked' = Asked \cup {[by |-> a, key |-> k, settled |-> responses[k] # None]}
    BY <1>2, <1>3, <1>4 DEF Asked
  <1>7. OnLedger' = OnLedger
    BY <1>2 DEF OnLedger
  <1>8. Sent' = Sent
    BY <1>2, <1>3, <1>4 DEF Sent, Answered
  <1> QED BY <1>2, <1>5, <1>6, <1>7, <1>8 DEF Ledger!Ask

LEMMA SaveRecords ==
  ASSUME IInv, NEW a \in Attempts, Save(a)
  PROVE  \E q \in Asked : Ledger!Record(q)
  <1> DEFINE at == attempts[a]
             q == [by |-> a, key |-> at.key, settled |-> at.late]
             entry == [by |-> a, key |-> at.key, body |-> at.body]
  <1>0. /\ at \in AttemptRecords /\ attempts \in [Attempts -> AttemptRecords]
        /\ at.phase = "recording" /\ at.key \in Keys
        /\ at.body = Body(a, at.version, at.key, at.provider)
    BY DEF IInv, TypeInv, Carried, Save
  <1>r. PICK row : row = [key |-> at.key, transaction_ref |-> RefOf[at.key],
                          provider |-> at.provider, body |-> at.body]
    OBVIOUS
  <1>1. /\ attempts' = [attempts EXCEPT ![a].phase = "committed"]
        /\ decisions' = decisions \cup {row}
        /\ responses' = [responses EXCEPT ![at.key] = IF @ = None THEN at.body ELSE @]
    BY <1>r DEF Save, rows_after, stored_after
  <1>2. /\ attempts'[a].phase = "committed" /\ attempts'[a].key = at.key
        /\ attempts'[a].late = at.late
        /\ \A b \in Attempts \ {a} : attempts'[b] = attempts[b]
    BY <1>0, <1>1 DEF AttemptRecords
  <1>3. q \in Asked /\ q.by = a /\ q.key = at.key
    BY <1>0 DEF Asked
  <1>4. ~ q.settled
    BY <1>0 DEF IInv, Late, AttemptRecords
  <1>5. \A t \in Sent : t.by # a
    BY <1>0 DEF Sent, Answered
  <1>6. \A e \in OnLedger : e.by # a
    <2>1. ASSUME NEW d \in decisions PROVE d.body.decision_id # a
      <3>1. PICK b \in Attempts : RowOf(d, b)
        BY DEF IInv, Evidence
      <3>2. b # a /\ d.body = Body(b, attempts[b].version, attempts[b].key, attempts[b].provider)
        BY <1>0, <3>1 DEF RowOf
      <3> QED BY <3>2, BodyIsOnes
    <2> QED BY <2>1 DEF OnLedger
  <1>7. OnLedger' = OnLedger \cup {entry}
    <2>1. row.body.decision_id = a /\ row.key = at.key /\ row.body = at.body
      BY <1>0, <1>r, BodyIsOnes
    <2>2. OnLedger' = {[by |-> d.body.decision_id, key |-> d.key, body |-> d.body] :
                          d \in decisions \cup {row}}
      BY <1>1 DEF OnLedger
    <2> QED BY <2>1, <2>2 DEF OnLedger
  <1>8. Asked' = Asked
    BY <1>0, <1>2 DEF Asked
  <1>9. Sent' = Sent
    BY <1>0, <1>2 DEF Sent, Answered
  <1>10. entry \in OnLedger' /\ entry.by = a /\ entry.key = at.key /\ entry.body = at.body
    BY <1>7
  <1> HIDE DEF q, entry
  <1>11. Ledger!Record(q)
    BY <1>1, <1>3, <1>4, <1>5, <1>6, <1>7, <1>8, <1>9, <1>10 DEF Ledger!Record
  <1> QED BY <1>3, <1>11

LEMMA AnswerTells ==
  ASSUME IInv, NEW a \in Attempts, Answer(a)
  PROVE  \E q \in Asked : Ledger!Tell(q)
  <1> DEFINE at == attempts[a]
             q == [by |-> a, key |-> at.key, settled |-> at.late]
  <1>0. /\ at \in AttemptRecords /\ attempts \in [Attempts -> AttemptRecords]
        /\ at.phase \in {"committed", "replaying"}
        /\ attempts' = [attempts EXCEPT ![a].phase = "answered"]
        /\ decisions' = decisions /\ responses' = responses
    BY DEF IInv, TypeInv, Answer
  <1>1. /\ attempts'[a].phase = "answered" /\ attempts'[a].key = at.key
        /\ attempts'[a].late = at.late /\ attempts'[a].body = at.body
        /\ \A b \in Attempts \ {a} : attempts'[b] = attempts[b]
    BY <1>0 DEF AttemptRecords
  <1>2. q \in Asked /\ q.by = a /\ q.key = at.key
    BY <1>0 DEF Asked
  <1>3. \A t \in Sent : t.by # a
    BY <1>0 DEF Sent, Answered
  <1>4. at.body \in ({responses[at.key]} \ {None}) \cup {e.body : e \in {f \in OnLedger : f.by = a}}
    <2>1. CASE at.phase = "replaying"
      BY <2>1 DEF IInv, Told
    <2>2. CASE at.phase = "committed"
      <3>1. PICK d \in decisions : d.key = at.key /\ d.body = at.body
        BY <2>2 DEF IInv, Told, OnRecord
      <3>2. d.body.decision_id = a
        BY <2>2, <3>1, BodyIsOnes DEF IInv, Carried
      <3>3. PICK e : e = [by |-> d.body.decision_id, key |-> d.key, body |-> d.body]
        OBVIOUS
      <3>4. e \in OnLedger /\ e.by = a /\ e.body = at.body
        BY <3>1, <3>2, <3>3 DEF OnLedger
      <3> QED BY <3>4
    <2> QED BY <1>0, <2>1, <2>2
  <1>5. Asked' = Asked
    BY <1>0, <1>1 DEF Asked
  <1>6. OnLedger' = OnLedger
    BY <1>0 DEF OnLedger
  <1>7. Sent' = Sent \cup {[by |-> a, body |-> at.body]}
    BY <1>0, <1>1 DEF Sent, Answered
  <1> HIDE DEF q
  <1>8. Ledger!Tell(q)
    BY <1>0, <1>2, <1>3, <1>4, <1>5, <1>6, <1>7 DEF Ledger!Tell, Ledger!Own
  <1> QED BY <1>2, <1>8

\* replay, get_or_create and the transaction around store.save: however attempts
\* interleave, die and are sent again, each puts at most one row on record, none
\* once its key has an answer, and nobody is told what is not on record.
THEOREM EndpointImplementsLedger == Spec => ImplementsLedger
  <1>1. Init => Ledger!Init
    <2> SUFFICES ASSUME Init PROVE Ledger!Init
      OBVIOUS
    <2>1. \A a \in Attempts : attempts[a].phase = "unsent"
      BY DEF Init, Unsent
    <2>2. Asked = {} /\ Sent = {}
      BY <2>1 DEF Asked, Sent, Answered
    <2>3. OnLedger = {} /\ responses = [k \in Keys |-> None]
      BY DEF Init, OnLedger
    <2> QED BY <2>2, <2>3 DEF Ledger!Init
  <1>2. IInv /\ [Next]_vars => [Ledger!Next]_(Ledger!ledgerVars)
    <2> SUFFICES ASSUME IInv, [Next]_vars PROVE [Ledger!Next]_(Ledger!ledgerVars)
      OBVIOUS
    <2>1. ASSUME UNCHANGED requestVars PROVE UNCHANGED Ledger!ledgerVars
      <3>1. attempts' = attempts /\ decisions' = decisions /\ responses' = responses
        BY <2>1 DEF requestVars
      <3> QED BY <3>1, Unseen
    <2>2. CASE UNCHANGED vars
      BY <2>1, <2>2 DEF vars
    <2>3. CASE Publish \/ \E w \in Workers : Stop(w) \/ \E v \in Versions : Refresh(w, v)
      BY <2>1, <2>3, FeedSteps
    <2>4. ASSUME NEW a \in Attempts, Request(a) PROVE [Ledger!Next]_(Ledger!ledgerVars)
      <3>1. ASSUME NEW w \in Workers, NEW k \in Keys, Receive(a, w, k) PROVE Ledger!Next
        BY <3>1, ReceiveAsks DEF Ledger!Next
      <3>2. CASE Save(a)
        BY <3>2, SaveRecords DEF Ledger!Next
      <3>3. CASE Answer(a)
        BY <3>3, AnswerTells DEF Ledger!Next
      <3>4. CASE Lookup(a) \/ Gather(a) \/ GatherFails(a) \/ Fail(a)
        BY <3>4, UnseenSteps
      <3> QED BY <2>4, <3>1, <3>2, <3>3, <3>4 DEF Request
    <2> QED BY <2>2, <2>3, <2>4 DEF Next
  <1> QED BY <1>1, <1>2, Invariance, PTL DEF Spec, ImplementsLedger, Ledger!Spec
=============================================================================
