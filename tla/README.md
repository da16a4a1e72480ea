# ComplyLayer in TLA+

A verification project for ComplyLayer, the service that decides whether a
transaction is allowed, flagged or blocked under rules that compliance officers
write, review and activate. It keeps TLA+ modules of the parts whose correctness
depends on the order of events, TLC configurations for small instances, and
proofs checked by TLAPS for the statements that hold for instances of any size.

Paths below are relative to the repository; `complylayer/` is `src/complylayer/`.

## 1. Inventory

### The parts, their state, their operations

| Part | State | Operations | Talks to |
|---|---|---|---|
| Rule lifecycle (`rules/lifecycle.py`, `tenancy/roles.py`, `api/management/views.py`) | tables Rule, NamedList, RuleSetVersion | create, edit, request approval, approve, shadow, activate, archive, revert; create, update, delete a list | the audit writer, in the same transaction; the caches, through the version table |
| Audit chain (`audit/chain.py`, `audit/writer.py`) | table AuditRecord | append, correct, verify | every operation above, API keys, decision reviews |
| Checkpoints (`audit/checkpoint.py`, `audit/writer.py`) | table AuditCheckpoint | sign the head, verify against the last signature | a scheduled command and `GET /v1/audit/verify` |
| Decision endpoint (`api/decision.py`, `api/handler.py`, `api/store.py`) | tables Decision and IdempotencyRecord | replay, gather, evaluate, record, answer | the cache, Redis, Postgres |
| Rule engine (`engine/evaluation.py`) | none | combine single results into one decision | the interpreter |
| Rule set cache (`engine/cache.py`, `api/decision_middleware.py`) | one compiled version per worker and tenant | refresh by poll, by announcement, by a cold request | the version table, Redis pub/sub |
| Velocity store (`velocity/redis_store.py`) | a sorted set and two hashes per customer in Redis | record and gather, peek, note flagged | the decision endpoint |
| Tenant scope (`tenancy/scope.py`) | the tenant setting of a connection | open and close a scope, with the transaction | every request |
| Expression language (`dsl/`, `dashboard/builder.py`) | none | build, render, parse, validate, evaluate under a step budget | engine, lifecycle, backtest |
| API keys (`api/auth.py`, `api/management/views.py`) | table ApiKey, verification cache per worker | authenticate, issue, revoke | every request |
| Dashboard sign-in (`dashboard/auth.py`, `throttle.py`, `views.py`) | sessions, DashboardUser, counters in Redis | sign in, verify a code, enrol, throttle | Django sessions, Redis |
| Backtest (`backtest/`) | none of its own | backtest, replay, divergence, export | the Decision table |
| Partitions (`partitions.py`) | partitions of the Decision table | ensure, list | a scheduled command |
| Metrics, health | counters per worker, a gauge hash in Redis | publish, render | scrapes |
| Node SDK (`sdk/node`) | none | decide with a timeout and a fallback | the decision endpoint |

### What is hard

* **Reads that are used later.** A management request is one READ COMMITTED
  transaction (`tenant_scope`). It selects a row, checks everything on the copy
  and writes it back; nothing locks the row or compares its version, so another
  request may commit in between. Publishers are arbitrated by the unique
  constraint on (tenant, version) alone.
* **Two stores.** A decision writes Redis and then Postgres with no transaction
  over both, and clients retry with the same idempotency key at any point.
* **An order made of clocks and random ids.** The audit chain is read in the order
  of (recorded_at, id). The row lock serialises appends; whether the order of
  reading is the order of the lock depends on the hosts' clocks.
* **Two statements that are not one.** `write_checkpoint` counts, then reads the
  head.
* **Threads that die.** The poll is the only thing a worker can rely on to see a
  new version, and it has to survive whatever the load raises.
* **Counters that expire.** The sign-in throttle is a counter, its TTL and a
  check, in three separate Redis calls, each of which may fail and be ignored.
* **Scopes in scopes.** A tenant is a setting of the transaction; scopes nest in
  savepoints, and what restores the setting depends on how each one ends.
* **Checked now, run later.** A rule is checked when it is published and runs
  when a transaction arrives, against facts nobody saw then; reports run it a
  third time, against what was stored.
* **Failing controls.** A rule that cannot be evaluated fails open or closed
  according to its severity and the tenant's policy; a shadow rule never matters.

What makes each part correct is the list of properties in section 3.
`PROJECT.json` lists the hazards with their lines.

## 2. The modules

Comments in the modules name the code each definition stands for; `map` in
`PROJECT.json` has the lines. A definition whose comment starts with *Mutant*
is a deliberately wrong version of the one after it: replacing the right one by
it makes the property named in `mutants` fail, which shows that the property
depends on that code.

**RuleLifecycle.** `rules`, `lists`, `rulesets` are the tables, `changes` what was
done to them, each with the audit record written about it or the mark that there is
none (`recorded`), `requests` what each handler in flight has in memory, `staged` what
a publisher has computed before its INSERT. `load_*` are `get_object` and the
handler's guards on the copy. `edit_draft`, `approve`, `move_to_shadow`,
`request_approval`, `delete_list` are the writes and the commit; the publishing
operations go through `publish_version` and then `commit_publish` or, when the
constraint refuses the number or the name, `publish_conflict`. `crash` rolls back.
Four decisions matter for fidelity. `edit_draft` saves the whole copy while the others
save single columns (`update_fields`), as in the code. An uncommitted UPDATE blocks
other writers of its row (`RowFree`). A change carries the in-memory row its record
shows, and a history field `fresh` that says whether the copy was still current at
commit. `audit_append` may fail by itself: it runs in a savepoint of its own, and the
view's exception becomes a response inside the middleware's scope, which commits the
rest. Only `activate` and `archive` put the row, the version and the record in one
block, and an approval request writes nothing but its record (`AllOrNothing`); a
revert or a list change may leave a version without its record. A request that a guard
refuses changes nothing and is not a step. All columns a rule has beside its state and
its approval (name, severity, priority, messages) are represented by `expression`: the
code treats them alike.

**AuditLog** is the abstract specification: entries are appended, nothing else
changes, short of damage from outside. **AuditChain** is the implementation. The
four steps of `append` (`Lock`, `ReadTail`, `Insert`, `Commit`), `Rollback`, the
two of `write_checkpoint` (`Count`, `Sign`), and two kinds of damage the
documentation of `chain.py` says the chain must expose: a row altered in place
(`Alter`) and the newest rows missing after a restore (`Lose`). The hash of a
record is the sequence of (id, payload) pairs it covers: SHA-256 without
collisions. `recorded_at` is the inserting host's clock, `Offset` ahead of true
time. `verify_ok`, `broken_at` and `verify_anchoring` are the verifiers. The
refinement maps the abstract log to the entries in the order of verification.
Rewriting a chain with recomputed hashes is not modelled.

**DecisionEngine** is `engine/evaluation.py` as operators. **DecisionPath** runs
it: `Receive` pins the worker's version, `Lookup` is the replay, `Gather` the
MULTI/EXEC that adds the transaction to the window and reads it, `GatherFails` a
Redis error whose EXEC did or did not run, `Save` the Postgres transaction,
`Answer` and `Fail` the end of the attempt, with `Fail` possible anywhere. A rule
is a test on the window count, the lifetime count or the transaction itself; a
window that is not there makes the first two fail. `Publish`, `Refresh` and `Stop`
are the steps of RuleSetFeed below, on the `published` and `cache` that requests
read: a version appears, a worker picks one up, a process is replaced. A worker
that holds nothing answers 409 and decides nothing. `would_have_blocked` is
`divergence`, the officer's report on a shadow rule, over the rows. Body validation
comes before any of this and is left out: the attempts are those that passed.

**DecisionLedger** is what the endpoint promises a client and an auditor: a request
that reaches a key before its first answer may put one row of its own on record
(`Record`), one that comes after it puts none; the first row of a key is its answer
for good; whoever is told something (`Tell`) is told the key's answer or the
request's own row. DecisionPath implements it with `Asked` (the attempts sent),
`OnLedger` (the Decision table), `responses` and `Sent` (the answered attempts).

**Velocity** is the window that DecisionPath keeps without time. A decision
takes its `now` at `Start` and reaches Redis later (`record_and_gather`), so
fetches run out of the order of their moments; `trimmed`, `expire`, `aggregated`
and `fetched` are the commands of the MULTI/EXEC, `Tick` advances the clock and lets
Redis expire the keys. `count` and `total` are what rules call. `seen` is a history
of the last attempt of each reference, over which the reference definition
`InWindow` is written. Two facts the properties make explicit: the largest
window is not among the exact ones, because the trim removes a score equal to the
cutoff and a decision that started later may have trimmed first; and above the
fetch limit only unfiltered counts can be relied on, up to the limit.

**RuleSetCache.** Each worker has `created`, `current`, `polling`, `pending`
and its three threads. `Call` is a thread entering `refresh`, `Load` taking the
lock and reading the latest version, `Use` the comparison, the compilation and
the swap, `LoadRaises` an error in the load. A version in `Uncompilable` fails
re-validation with the SnapshotError that the watcher catches; one in `Malformed`
raises something else (a severity or an id that `compile_snapshot` reads outside
its `try`), which, like an error in the load, ends the poll thread (`Uncaught`). `Publish`
reaches any subset of the workers with an announcement; no code in the repository
calls `announce` today, which is one of those subsets each time. A worker with
`WATCH_RULESET_VERSIONS` off has no watcher and is not modelled.

**RuleSetFeed** is what the cache promises the request path: a worker serves
nothing, or a published version that compiles, and moves to newer ones only until
its process is replaced. RuleSetCache implements it (`serving` is `current`), and
DecisionPath uses it in place of the three threads and their lock, so what holds of
DecisionPath holds of requests over the real cache.

**SignIn.** One account and several browsers. `request` is what each browser has
in flight, with the profile row it read; `counter` and `burned` are Redis keys with
the ticks they have left. `PostSignIn` and `PostCode` are the lockout checks,
`CheckPassword` and `CheckCode` the answers, `Incr` and `Expire` the two calls of
`record_failure`, `Clear` the success, `EnrolPage`, `SaveSecret`, `PostEnrolment`
and `SaveConfirmed` the enrolment with its two saves of two column sets. Any
Redis call may raise and is then skipped, as in `throttle.py`; a worker may die in
any request. Time is relative, so a behaviour can go on for ever: a code is its
distance from the current step and moves back with each `Tick`. A phone that runs
fast shows a code before its step, which is where the length of the replay guard
matters. A code is also the text in which it was typed: `consume_code` burns the
text, while pyotp's `verify` compares NFKC forms, so that one code has several
`Spellings`.

**RequestScope.** What surrounds a management view: `Resolve` and `Verify` are
`authenticate`, with the digests each worker remembers; `enter`, `CloseInner`,
`Commit` and `Rollback` are `tenant_scope` and its transaction, to two levels (the
middleware's scope and a dashboard page's); `create`, `revoke` and
`review_decision` are the views with their guards, `Save` and `AuditAppend` their
writes, `DatabaseError` any statement that fails. Django answers an exception of a
view before the middleware sees it, so the middleware's scope commits what was
written: `AuditAppend` may fail in its own savepoint and leave the row. What a
local setting does at a savepoint or at the end of its transaction is PostgreSQL's
and taken from its documentation.

**RuleLanguage** is the language of rules as operators: JSON to text
(`structured.py`), the scanner's limits, the parser, the validator and the
interpreter with its step budget and its functions. Text is a sequence of lexemes,
a value carries its Python type, an evaluation gives a value, an error the engine
catches, or an exception it does not. A name of the JSON form goes into the text as
it is, so a fact called `True` or `False` is a constant and `and`, `or`, `not` and
`in` are operators there (`identifier`). **RuleHistory** composes it with
DecisionEngine: rules are built in the dashboard, sent or written (`Built`,
`Sent`, `Written`), published, applied (`Decide`) and stored; `backtest` and
`replay_decision` read the rows back, where every list has become a tuple. A backtest
that meets an exception other than RuleEvaluationError has no report. `Meant` is the
reference for the first half: what the JSON form says, without going through text.
Both modules are recursive, so nothing is proved about them.

**DecisionTable.** The partitions, the rows of the default partition, and the
maintenance command statement by statement: `Begin`, `Check` (`to_regclass`),
`Create`, `Report`. Runs overlap, die and cross the end of a month; a row may
arrive in the month after its `decided_at`.

**MC\*** modules give TLC its constants. **\*Proofs** modules hold the theorems.

## 3. The runs

| Run | Instance | Checks |
|---|---|---|
| `lifecycle` | 2 rules, an officer and a risk manager, 2 expressions, 1 list, 2 requests in flight, 4 changes, 1 of them unrecorded | `TypeOK`, `VersionsAudited`, `ForceOnRecord`, `ActivationApproved`, `NoActivationLost`, `ReviewedUnlessStale`, `TablesExplained` |
| `audit_chain` | 2 appenders, 4 inserts, 2 checkpoints, 2 faults, ids in the reverse of time | `TypeOK`, `NoFalseAlarm`, `AlterationLocated`, `QuietCheckpointHolds`, `LossDetected`, `ImplementsAuditLog` |
| `decision_path` | 3 attempts, 2 keys, 1 worker, 2 versions | `RetryReplays`, `VelocityExact`, `AllowedIsCounted`, `ShadowInert`, `ShadowForecast`, `ImplementsLedger` |
| `velocity` | 3 references, 2 decisions in flight, windows of 1 and 3 ticks, a limit of 2 members, lateness 1 | `WindowExact`, `CountUpToCap`, `LifetimeCoversWindow` |
| `cache` | 1 worker with its 3 threads, 5 versions, 1 that fails re-validation and 1 malformed | `TypeOK`, `NeverGoesBack`, `ImplementsFeed`, `PollPropagates` |
| `sign_in` | 2 browsers, 1 free attempt, lockouts of 1 and 2 ticks, a counting window of 3, 2 secrets, 2 spellings, 1 fault | `CodeOnce`, `FailuresBounded`, `FactorProved`, `LockoutEnds` |
| `request_scope` | 2 workers, 2 tenants, an officer's key and one to issue, 1 decision, 2 changes | `QueryScoped`, `AcceptedIsLive`, `NoEscalation`, `ChangesAudited` |
| `rule_language` | some 300 rules over 5 tests, groups to two levels, 9 builder answers, 21 written rules; 3 transactions, one with a list among its facts, 2 fallback policies | `BuiltAsMeant`, `PublishedEvaluates`, `BacktestSound`, `ReplayReproduces` |
| `decision_table` | 3 overlapping runs, 2 months ahead, 3 months | `StrandedMeansLapsed`, `OneRunCompletes` |

Three more runs show a disagreement between the code and what the repository says
of it. TLC gives the shortest trace of each.

| Run | Property refuted | What happens |
|---|---|---|
| `lifecycle_reviewed` | `ActiveContentReviewed` | an edit and an approval, or an activation, load the same row; the later commit combines content nobody approved with an approval |
| `velocity_dormant` | `DormancySeen` | `last_transaction_at` is set before it is read back, so `days_since_last_activity` is 0 in every decision |
| `rule_language_total` | `NoTraceback` | `velocity_count()` without its window passes the validator and raises a TypeError that the engine does not catch: one rule takes every decision down |

Several passing properties state what remains of a promise.

* `ReviewedUnlessStale`: the review holds as long as no handler commits from a
  copy that another commit has overtaken.
* `TablesExplained`: the latest version is what the tables say, except after
  shadowing an active rule, after an edit, after deleting a list (none of which
  publishes) and after a revert (which leaves the rows alone). So an active rule
  moved to shadow goes on blocking until something else is published.
* `VersionsAudited` counts activations, archivings, reverts and list changes. A
  version of the last two may be without its record, if the append failed.
  The repository's README.md:526-527 has approving publish a version too; in the
  code it does not.
* `ForceOnRecord` is what the trail can be relied on for all the same: a rule in
  force was activated on record. It says nothing of the records of edits, reverts
  and lists.
* `ActivationApproved` compares the approver with the rule's creator, as the
  code does: somebody who edited another's draft may approve the edit.
* `RetryReplays`: a retry sent after an answer was committed gets that answer.
  Two attempts in flight together may get different ones, since the window,
  Redis' health or the version may differ between them. The comment at
  `api/store.py:114-118` has evaluation give both the same answer;
  `ImplementsLedger` states what holds: each is told the key's answer or a row
  of its own, and both rows are on record.
* `PollPropagates`: the latest version arrives while the poll thread lives. One
  database error in the load, or one malformed snapshot, ends it, and nothing
  restarts it.
* `LossDetected`: as long as the longest checkpoint covers a row that was lost. Once
  the chain has grown beyond it and is signed again, the new checkpoint agrees with
  the chain as it then is, and the loss is masked.
* `CodeOnce` is about the text that was typed. The same code in other digits that
  NFKC maps to the same (fullwidth ones) is another text to the guard and the same
  code to `verify`, so it is accepted once in each spelling, although
  `throttle.py:125` says of the guard "False if it has already been used".
* `QuietCheckpointHolds`: a checkpoint whose two reads no commit separated stays
  true. A record that commits between `count()` and `last()` makes the signature
  cover the wrong position, and the chain is later reported as rewritten.
* `ChangesAudited`: trail and tables agree except where `append` failed: it has a
  savepoint of its own, the view's exception becomes a response before the
  middleware's scope sees it, and the change is committed without its record.
* `FactorProved`: except after two enrolments raced. `begin_enrolment` saves a
  secret over a row read earlier, so a session may be marked for a code checked
  against a secret that the row no longer has.
* `PublishedEvaluates`: `MayRaise` lists the rules that can raise past the engine.
* `ReplayReproduces`: `backtest/replay.py:191` says a replay must reproduce the original
  exactly. It runs without functions and with the default fallback, so it does for
  rules without calls, and for degraded decisions only under that fallback. And it
  turns every stored list into a tuple: named lists were tuples, but a customer,
  destination or device fact may be any JSON value, and one that was a list when the
  rule read it made `in` an error then and gives an answer in the replay.
* `BacktestSound` leaves the same rows open: over a fact that was a list the report
  may count a match that never happened, with confidence EXACT. So may a row be
  counted wrongly when the tenant has a named list called like a function the rule
  calls. Otherwise a rule that calls a function requires the function's name as a
  fact and is therefore always reported as unavailable, which is sound and useless.
* `BuiltAsMeant` reads a fact called `True` or `False` as the constant, as the parser
  does, and leaves out rules that call `not`, which `structured.py` takes for a
  function and the parser for an operator that binds less than a comparison.
* `ShadowForecast` is about blocking rules: for other severities the report
  counts the same way though activating them would block nothing. It also leaves
  out rows where the rule failed and would have failed closed.
* `FailuresBounded`, `LockoutEnds`: the counter expires with its lockout, so
  lockouts do not double from one period to the next. Two EXPIREs that arrive in
  the other order leave a counting window's length instead of the capped lockout.
  `confirm_enrolment` is neither throttled nor burns its code.
* `OneRunCompletes`: while the default partition is empty of rows. A row of a month
  that has no partition makes creating that month raise in every later run, before
  the months after it and before the warning.

**Bounds.** Every bound is a CONSTANT with a comment. Two requests in flight are
enough for a read-write or write-write race on a row and for two publishers with one
number. Four changes cover create, create, and two racing activations, or create,
approve, activate, edit; the instance of `lifecycle_reviewed` allows five. One record
that fails is enough to leave a version unexplained. Four inserts cover a chain with a
middle, a loss and two later appends. Three attempts over two keys cover a retry
racing its original while another transaction enters the window, with a limit of one.
One worker stands for all of them there: a request reads no cache but its own
worker's, once, and since the worker may be replaced and warmed up again, later
requests may be served an older version as another worker would. Three recorded
transactions over seven ticks cover one that is trimmed, one that outlives the first
write's expiry, and one more than the fetch limit. Two browsers are enough for a check
that passes beside another's last free attempt; the two scopes of the throttle share
no key, so `MaxCounters` lets one of them count at a time, and `MaxCodes` follows one
code through its life, in both spellings. Two changes cover an issue and a use or a
revocation of the new key, or two racing reviews. Groups to two levels are enough for
every pair of operators to nest; `MaxTogether` keeps several rules or decisions
together to short rules. Three runs are enough for one to be overtaken by one that is
itself overtaken. The lifecycle, audit, decision, velocity and rule-language
behaviours end when their bound is reached, so these runs do not check deadlock; the
others do. Symmetry is used only in runs without liveness properties, and for workers
only where they are interchangeable.

**Fairness.** In SignIn, weak fairness of `Tick`: time passes. Nobody has to
finish a request, and nothing limits how often attempts are made. In RuleSetCache,
weak fairness of the poll's call: the loop waits ten seconds and calls again while
its thread lives. Weak fairness of `Use`: compiling and swapping take no lock that
is not held already. Strong fairness of the poll's `Load`: the lock is released
after each refresh, and the thread that waits for it gets it in the end. Nothing
is assumed about announcements, requests, restarts or publishing.

## 4. The proofs

Eight modules, one per component that can be reached, each for every value of the
constants its component's `ASSUME`s allow. In each the invariants of the run are
not inductive; the module states the invariant that is, proves that `Init` gives it
and every action keeps it, and derives the properties from it. Two groups of theorems
have a hypothesis of their own, both about deployment constants: `ClocksAgree` for
the audit chain, and a replay guard of at least three steps for `CodesAreBurned`.

**RuleLifecycleProofs**, for any rules, users, lists, requests in flight and changes
of any number. `IInv` is `TypeOK`, what the guards established of each request in
flight (`Guarded`), that a publisher has read some latest version, perhaps an old one
(`Numbered`), and that versions have no gaps. Each action is first summarised by what
it writes and logs (`Creates`, `Edits`, `Approves`, ...), so that the properties are
proved from the summaries. On top of `IInv`: `VersionsExplained` (each version is one
change, in order, and only a revert's or a list change's can lack its record: the
version and the row commit together, the record with them where a block says so, and
the unique constraint lets one of the publishers that read the same latest version
insert it); `ForceIsOnRecord` (a row that is active, in the table or in a publisher's
hands, has an activation on record, since activation is all or nothing; a revert
copies a version that had them); `FourEyes` (a copy's author never changes and an
approval it shows was given); `ActivationsSurvive` (a publisher holds the row it wrote
until it commits); `ForceIsReviewed` (as long as no handler commits from an overtaken
copy, the expression a version has in force is the one that was approved);
`ForceIsExplained` (the tables and the latest version differ only by the ways
`TablesExplained` lists).

**DecisionPathProofs**, for any attempts, workers, keys, versions and rules. The steps
of the feed leave the requests' variables alone (`FeedSteps`), so the argument is
about requests. `IInv` says whose each row is: every row in `decisions` is one
attempt's, decided by the version it pinned with the window it gathered (`Evidence`,
`Carried`); what an attempt was told is on record (`Told`); one that came after its
key's answer never decides (`Late`). `RetriesReplay` and `AnswersAreOnRecord` follow.
`VelocityLimitsHold` needs `Counted`: for every n, the transactions that saw a window
of n or less are at most n. A new transaction is in the window when it reads it, and
so is everyone counted before, so the set that saw at most n stays inside a window of
at most n members. `AllowedAreCounted` and `ShadowsAreInert` are facts about `decide`,
lifted to every row by `Evidence`; so are `ForecastIsRight` (an active blocking rule
that matches decides, and one that does not changes nothing, so the decisions that
activating it would turn into a block are those `divergence` counts) and
`PolicyOnlyWhenDegraded` (a row that is not degraded is what every fallback policy
would have given). `VersionsArePublished` adds that no cache and no attempt is ahead
of what is published (`Pinned`). `EndpointImplementsLedger` is the refinement:
`Receive` is the ledger's `Ask`, `Save` its `Record`, `Answer` its `Tell`, every other
step a stutter. It needs `Late` for the guard of `Record`, `Evidence` for one row per
attempt, and `Told` for what `Tell` may send.

**VelocityProofs**, for any references, amounts, windows, filters and decisions
in flight. `KeyInv`: a key outlives the entries it holds, and what is stored are
attempts of the past. `WindowInv`: the fetched entries are true (each is the
reference's last attempt), complete in every window that late decisions leave
alone, and at the limit they are the newest. `LifetimeInv` bounds the lifetime hash
from below. `CapKeepsNewest`, `WindowsExact` and `LifetimeCovers` follow. Sums over
a set need induction: `Induction` is stated for a set of naturals, from the least
element outside it, which the provers can use where an operator parameter is
beyond them; from it come `SumIs`, `SumSplit` and `SumMonotone`: the library's sum
does not depend on the order in which it takes the elements.

**SignInProofs**, for any browsers, faults, free attempts and lockouts.
`FailuresStayBounded`: a counter above its free attempts that still lets somebody
in has no TTL yet, so everyone who counted is between INCR and EXPIRE, or met a
fault there (`Bounded`). A doubled lockout is never empty because
powers of two are positive, which is a lemma, not an assumption.
`CodesAreBurned` assumes `CODE_REPLAY >= 3`: `verify` takes a code in three
steps (`valid_window=1`), and `CODE_REPLAY_SECONDS` in `throttle.py` is 90, three
steps of 30 seconds; with a shorter guard the theorem is false. It is about typed
texts, for any set of spellings. `FactorIsProved`: a
session that has its factor, and a request that relies on a copy of the profile,
go by the secret now in the row, until an enrolment is saved over a row it had not
read (`overtaken`).

**RequestScopeProofs**, for any keys, tenants, decisions and workers.
`ShapeInv` says what a request looks like at each place: scopes nest two deep, the
inner one found the tenant of the outer one, which is what its end restores; what a
worker remembers are digests of genuine keys. `KeyInv`: a key about to be issued is
nobody's yet, nobody else is about to issue it, and it may do no more than its
issuer. `ScopesHold`, `ServedIsGenuine`, `PermissionsOnlyShrink` follow, and
`TrailMatchesTables` from the pairing of a row and its record in one transaction.

**RuleSetCacheProofs**, for any workers and versions, uncompilable and malformed
ones among them.
`NeverGoesBack` is not inductive: a thread might hold an older load. The invariant
adds that at most one thread per worker is between load and swap (`OneLoads`),
that no load and no served version is ahead of what is published (`NotAhead`), and
that a load is not older than what is served (`LoadedNotOlder`). The last is kept by
a new load because of `NotAhead`, and by a swap because of `OneLoads`.
`TypeOK` and `NeverGoesBack` follow, and `CacheImplementsFeed`:
a swap is the feed's `Serve` because what was loaded is published, compiles and is
newer than what is served; a restart is its `Stop`, and the rest stutters.

**AuditChainProofs**, for any workers, ids, payloads and bounds, under
`ClocksAgree`. `OrderInv`: one worker at a time is inside `append`, the rows'
timestamps increase with their index, and an inserted row is newer than all of
them. Hence `Position(i) = i` and `Nth(n) = records[n]` (lemmas `PositionIsIndex`,
`NthIsIndexed`): readers see the order of commits. `ChainInv` adds that each row
names its predecessor's hash, that the worker in `append` has read the tail, and
that a row which was not altered hashes to its stored value. `NoFalseAlarm` and
`AlterationLocated` follow from `LinkOkUnlessAltered`: a link holds exactly where
the row was not altered. `AnchorInv` adds that the hash of the n-th record has
depth n, and that a checkpoint was signed over a record of its depth that stays
until the table is damaged; `QuietCheckpointsHold` follows. For `LossesDetected` a
hash spells the ids it covers (`Spelled`), and no row, stored or about to be, spells
the id of a lost one, because ids are drawn once (`Gone`): a checkpoint whose hash
spells a lost id agrees with no record the chain can have at its length, however it
grew again.
`ChainImplementsLog` is the refinement: a commit is `AuditLog`'s append, a fault its
damage, and every other step a stutter. Without `ClocksAgree` these are false: a
host whose clock is behind inserts a row that readers put before its predecessor.

**DecisionTableProofs**, for any runs, `months_ahead` and number of months.
`PassedIsThere`: every month from a run's start up to the one it looks at has its
partition, hence a run that reports has covered its months and
`StrandedMeansLapsed` is kept. `OneRunCompletes` needs more: a run about to create
a month that exists is doomed. `Led` says that then another run is ahead of it and
not doomed, and that if any run has failed one that is not doomed is still there.
When a run dooms others by creating a month it moves ahead of them, and a doomed run
that fails was not the one ahead; so the last of a group to end has completed.

Model-checked only, because out of the prover's reach:

* `BuiltAsMeant`, `PublishedEvaluates`, `BacktestSound` and `ReplayReproduces` of
  RuleHistory, which evaluate expressions with the recursive operators of
  RuleLanguage;
* the liveness properties `PollPropagates` and `LockoutEnds`;
* the three runs that show a disagreement, which are about what does not hold.

## 5. What is not modelled

Not modelled:

* **Metrics and health.** Counters per worker and a probe; no other part reads them.
* **Request validation and serializers.** Stateless checks of single values: what
  passes is the input of the models.
* **Pages, diff, labels, CSV export, analytics.** Rendering and SQL aggregates over
  rows other modules model.
* **System checks, doctor, demo seed, benchmark, routing, bootstrap.** Deployment.
* **Node SDK.** To the server it is an attempt that repeats a key; DecisionPath has it.
* **Parts of modelled components.** `note_flagged` and `record` of the velocity
  store, which no request calls; the migration history; a worker with
  `WATCH_RULESET_VERSIONS` off; an audit deployment without a signing key.
* Signatures and hashes as cryptography, and the durability of Redis itself.

Nothing of the plan is left open. Every safety property a run checks outside
RuleHistory is also a theorem, and the three abstract specifications (AuditLog,
RuleSetFeed, DecisionLedger) are implemented by proof. A change to the code starts
at `map`, which names the definition to change with it; the run of that component
shows whether a property is lost, and its proof module which argument has to be
made again.
