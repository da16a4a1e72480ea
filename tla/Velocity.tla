------------------------------ MODULE Velocity ------------------------------
(***************************************************************************)
(* One customer's rolling window in Redis: velocity/redis_store.py, with   *)
(* the time that DecisionPath leaves out.  A sorted set holds the score of *)
(* every transaction reference, a hash its amount and type, a second hash  *)
(* the customer's lifetime numbers.                                        *)
(*                                                                         *)
(* A decision takes its `now` when it starts and reaches Redis later, so   *)
(* fetches run in another order than that of their moments; each fetch is  *)
(* one MULTI/EXEC.  Hosts agree on the time.  A tick is a day.             *)
(***************************************************************************)
EXTENDS Naturals, FiniteSetsExt, Functions

CONSTANTS
    Refs,         \* transaction references, ordered as Redis orders members
    Details,      \* what a transaction may carry: its amount and its type
    Filters,      \* the filters rules pass: min, max and kind, each or None
    Deciders,     \* requests in flight
    Windows,      \* the window lengths rules may name
    Margin,       \* KEY_TTL_SECONDS beyond the largest window
    MAX_MEMBERS_FETCHED,
    MaxLate,      \* bound: how long a decision takes to reach Redis
    MaxTime,      \* bound: the last tick
    MaxCalls,     \* bound: transactions recorded in a behaviour
    None

LARGEST_WINDOW == Max(Windows)
KEY_TTL == LARGEST_WINDOW + Margin

\* A transaction of a negative amount is refused before it comes here.
ASSUME DetailsAssumption == \A d \in Details : d.amount \in Nat
ASSUME RefsAssumption == Refs \subseteq Nat /\ IsFiniteSet(Refs)
ASSUME WindowsAssumption ==
    /\ Windows \subseteq Nat \ {0} /\ IsFiniteSet(Windows) /\ Windows # {}
    /\ {Margin, MaxLate, MAX_MEMBERS_FETCHED} \subseteq Nat
    /\ MAX_MEMBERS_FETCHED > 0 /\ MaxLate < Margin

NoAggregates == [lifetime_count |-> 0, lifetime_volume_minor |-> 0,
                 first_seen_at |-> 0, last_transaction_at |-> 0]

VARIABLES
    now,         \* the time
    moment,      \* the `now` each decision in flight has taken, 0 if it has none
    members,     \* the sorted set: the score of each reference in it
    amounts,     \* the amounts hash, which is never trimmed
    deadline,    \* when the two keys above expire, 0 before the first record
    aggregates,  \* the lifetime hash, which never expires
    window,      \* what the latest fetch returned
    seen,        \* history: the last attempt recorded for each reference
    previous     \* history: last_transaction_at before the latest fetch

vars == <<now, moment, members, amounts, deadline, aggregates, window, seen, previous>>

Empty == [r \in {} |-> 0]
NoWindow == [moment |-> 0, entries |-> Empty, truncated |-> FALSE, aggregates |-> NoAggregates]

Init ==
    /\ now = 1
    /\ moment = [p \in Deciders |-> 0]
    /\ members = Empty /\ amounts = Empty /\ deadline = 0
    /\ aggregates = NoAggregates
    /\ window = NoWindow
    /\ seen = Empty /\ previous = 0

-----------------------------------------------------------------------------
\* Redis drops a key when its time has come.
Tick ==
    /\ now < MaxTime
    /\ \A p \in Deciders : moment[p] # 0 => now - moment[p] < MaxLate
    /\ now' = now + 1
    /\ IF deadline # 0 /\ deadline <= now'
       THEN members' = Empty /\ amounts' = Empty /\ deadline' = 0
       ELSE UNCHANGED <<members, amounts, deadline>>
    /\ UNCHANGED <<moment, aggregates, window, seen, previous>>

\* handler.decide takes the time before it asks Postgres for the policy.
Start(p) ==
    /\ moment[p] = 0
    /\ moment' = [moment EXCEPT ![p] = now]
    /\ UNCHANGED <<now, members, amounts, deadline, aggregates, window, seen, previous>>

-----------------------------------------------------------------------------
(* _fetch *)

\* ZREMRANGEBYSCORE 0 cutoff: a score equal to the cutoff goes too.
trimmed(at) == Restrict(members, {r \in DOMAIN members : members[r] + LARGEST_WINDOW > at})

put(f, r, v) == [x \in DOMAIN f \cup {r} |-> IF x = r THEN v ELSE f[x]]

\* Mutant: the lifetime is given to the keys when they are created, and not again.
expire_once(at) == IF deadline # 0 THEN deadline ELSE at + KEY_TTL

\* EXPIRE on both keys with every record, by the server's clock.
expire(at) == at + KEY_TTL

\* Mutant: a reference that is in the window has been counted before.
aggregated_once(at, r, d) ==
    IF r \in DOMAIN members THEN [aggregates EXCEPT !.last_transaction_at = at]
    ELSE [ lifetime_count |-> aggregates.lifetime_count + 1,
           lifetime_volume_minor |-> aggregates.lifetime_volume_minor + d.amount,
           first_seen_at |-> IF aggregates.first_seen_at = 0 THEN at ELSE aggregates.first_seen_at,
           last_transaction_at |-> at ]

\* HINCRBY, HINCRBY, HSETNX, HSET: a retry counts again.
aggregated(at, r, d) ==
    [ lifetime_count |-> aggregates.lifetime_count + 1,
      lifetime_volume_minor |-> aggregates.lifetime_volume_minor + d.amount,
      first_seen_at |-> IF aggregates.first_seen_at = 0 THEN at ELSE aggregates.first_seen_at,
      last_transaction_at |-> at ]

\* Sorted set order: by score, then by member.
Above(m, r) == {s \in DOMAIN m : m[s] > m[r] \/ (m[s] = m[r] /\ s > r)}

\* Mutant: the oldest members survive the cap.
fetched_oldest(m) ==
    {r \in DOMAIN m : Cardinality(DOMAIN m) - Cardinality(Above(m, r)) <= MAX_MEMBERS_FETCHED}

\* members[-MAX_MEMBERS_FETCHED:]
fetched(m) == {r \in DOMAIN m : Cardinality(Above(m, r)) < MAX_MEMBERS_FETCHED}

\* _split_amount: a member without a field is an amount of zero.
detail(hash, r) == IF r \in DOMAIN hash THEN hash[r] ELSE [amount |-> 0, kind |-> None]

fetch(at, m, hash, agg) ==
    [ moment     |-> at,
      entries    |-> [r \in fetched(m) |->
                       [score |-> m[r], amount |-> detail(hash, r).amount,
                        kind |-> detail(hash, r).kind]],
      truncated  |-> Cardinality(DOMAIN m) > MAX_MEMBERS_FETCHED,
      aggregates |-> agg ]

record_and_gather(p, r, d) ==
    /\ moment[p] # 0
    /\ aggregates.lifetime_count < MaxCalls
    /\ members' = put(trimmed(moment[p]), r, moment[p])
    /\ amounts' = put(amounts, r, d)
    /\ deadline' = expire(now)
    /\ aggregates' = aggregated(moment[p], r, d)
    /\ window' = fetch(moment[p], members', amounts', aggregates')
    /\ seen' = put(seen, r, [at |-> moment[p], amount |-> d.amount, kind |-> d.kind])
    /\ previous' = aggregates.last_transaction_at
    /\ moment' = [moment EXCEPT ![p] = 0]
    /\ UNCHANGED now

\* The read without a write, at the time of the call.
gather ==
    /\ members' = trimmed(now)
    /\ window' = fetch(now, members', amounts, aggregates)
    /\ previous' = aggregates.last_transaction_at
    /\ UNCHANGED <<now, moment, amounts, deadline, aggregates, seen>>

\* The decision dies before it reaches Redis, or Redis does.
Abandon(p) ==
    /\ moment[p] # 0
    /\ moment' = [moment EXCEPT ![p] = 0]
    /\ UNCHANGED <<now, members, amounts, deadline, aggregates, window, seen, previous>>

Next ==
    \/ Tick
    \/ gather
    \/ \E p \in Deciders :
        \/ Start(p)
        \/ Abandon(p)
        \/ \E r \in Refs, d \in Details : record_and_gather(p, r, d)

Spec == Init /\ [][Next]_vars

-----------------------------------------------------------------------------
(* Window *)

passes(f, e) ==
    /\ f.min = None \/ e.amount >= f.min
    /\ f.max = None \/ e.amount <= f.max
    /\ f.kind = None \/ e.kind = f.kind

matching(w, f) ==
    {r \in DOMAIN window.entries :
        window.entries[r].score + w >= window.moment /\ passes(f, window.entries[r])}

count(w, f) == Cardinality(matching(w, f))
total(w, f) == SumFunction([r \in matching(w, f) |-> window.entries[r].amount])

NoFilter == [min |-> None, max |-> None, kind |-> None]

days_since_last_activity ==
    IF window.aggregates.last_transaction_at = 0 \/ window.moment < window.aggregates.last_transaction_at
    THEN 0 ELSE window.moment - window.aggregates.last_transaction_at

-----------------------------------------------------------------------------
(* Safety *)

\* The reference definition: the transactions whose last recorded attempt is
\* not older than the window.
InWindow(w, f) == {r \in DOMAIN seen : seen[r].at + w >= window.moment /\ passes(f, seen[r])}

\* The windows no trim of an earlier decision can have cut into.
SafeWindows == {w \in Windows : w + MaxLate < LARGEST_WINDOW}

\* Whatever was trimmed, expired, retried or late: every count and every sum a
\* rule asks for is that of the distinct transactions attempted in the window,
\* each with what its last attempt said, as long as nothing was cut off.
WindowExact ==
    ~ window.truncated =>
        \A w \in SafeWindows, f \in Filters :
            /\ count(w, f) = Cardinality(InWindow(w, f))
            /\ total(w, f) = SumFunction([r \in InWindow(w, f) |-> seen[r].amount])

\* A customer above the cap is counted up to the cap, in every window: the
\* newest transactions are the ones that are kept.
CountUpToCap ==
    \A w \in SafeWindows :
        count(w, NoFilter) = Min({MAX_MEMBERS_FETCHED, Cardinality(InWindow(w, NoFilter))})

\* The lifetime numbers cover the window they were fetched with: no window
\* counts or sums more than the customer has ever done.
LifetimeCoversWindow ==
    \A w \in Windows :
        /\ window.aggregates.lifetime_count >= count(w, NoFilter)
        /\ window.aggregates.lifetime_volume_minor >= total(w, NoFilter)

\* days_since_last_activity is the age of the customer's last transaction before
\* the one that is being decided.
DormancySeen ==
    (previous # 0 /\ previous <= window.moment) =>
        days_since_last_activity = window.moment - previous
=============================================================================
