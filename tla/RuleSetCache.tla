---------------------------- MODULE RuleSetCache ----------------------------
(***************************************************************************)
(* One tenant's compiled rule set in the memory of every worker process:   *)
(* engine/cache.py (RuleSetCache.refresh, VersionWatcher) and the parts of *)
(* api/decision_middleware.py that create, warm and drop a cache.          *)
(*                                                                         *)
(* Three threads of a worker refresh its cache: the poll, the subscriber   *)
(* and a request that found the cache cold.  A refresh holds the cache's   *)
(* lock from before it reads the latest version until it has swapped the   *)
(* compiled one in; publishers, other workers and the readers of `current` *)
(* take no notice of that lock.                                            *)
(***************************************************************************)
EXTENDS Naturals

CONSTANTS
    Workers,      \* server processes
    MaxVersion,   \* bound: versions published in a behaviour
    Uncompilable, \* the versions whose snapshot fails re-validation: SnapshotError
    Malformed     \* the versions on whose snapshot compile_snapshot raises anything else

ASSUME VersionsAssumption ==
    /\ MaxVersion \in Nat
    /\ Uncompilable \subseteq 1 .. MaxVersion /\ Malformed \subseteq 1 .. MaxVersion

Threads == {"poll", "subscriber", "request"}

\* A thread that is not in refresh, waits for the lock, or has it and has read
\* the latest version.
Steps == [step : {"idle", "waiting", "loaded"}, version : 0 .. MaxVersion]
Idle == [step |-> "idle", version |-> 0]

VARIABLES
    published,   \* the highest RuleSetVersion of the tenant, 0 if there is none
    created,     \* has the worker a cache for the tenant?
    current,     \* the version in memory, 0 while the cache is cold
    polling,     \* is the worker's poll thread alive?
    pending,     \* is there an announcement the worker has not handled?
    threads      \* where each thread is in refresh

vars == <<published, created, current, polling, pending, threads>>

TypeOK ==
    /\ published \in 0 .. MaxVersion
    /\ created \in [Workers -> BOOLEAN]
    /\ current \in [Workers -> 0 .. MaxVersion]
    /\ polling \in [Workers -> BOOLEAN]
    /\ pending \in [Workers -> BOOLEAN]
    /\ threads \in [Workers -> [Threads -> Steps]]
    /\ \A w \in Workers : ~ created[w] =>
          current[w] = 0 /\ ~ polling[w] /\ ~ pending[w] /\ \A t \in Threads : threads[w][t] = Idle

Init ==
    /\ published = 0
    /\ created = [w \in Workers |-> FALSE]
    /\ current = [w \in Workers |-> 0]
    /\ polling = [w \in Workers |-> FALSE]
    /\ pending = [w \in Workers |-> FALSE]
    /\ threads = [w \in Workers |-> [t \in Threads |-> Idle]]

-----------------------------------------------------------------------------
\* A version commits.  Its announcement reaches any subset of the watching
\* workers: pub/sub keeps nothing for a subscriber that is not connected.
Publish ==
    /\ published < MaxVersion
    /\ published' = published + 1
    /\ \E reached \in SUBSET {w \in Workers : created[w]} :
          pending' = [w \in Workers |-> pending[w] \/ w \in reached]
    /\ UNCHANGED <<created, current, polling, threads>>

\* cache_for, on the first request of the tenant that this worker serves: the
\* cache and its watcher.
Create(w) ==
    /\ ~ created[w]
    /\ created' = [created EXCEPT ![w] = TRUE]
    /\ polling' = [polling EXCEPT ![w] = TRUE]
    /\ UNCHANGED <<published, current, pending, threads>>

\* Mutant: the caches are dropped and the watchers left running.
Restart_keeps_watcher(w) ==
    /\ created[w]
    /\ created' = [created EXCEPT ![w] = FALSE]
    /\ current' = [current EXCEPT ![w] = 0]
    /\ UNCHANGED <<published, polling, pending, threads>>

\* The process stops (shutdown, or a crash) and another takes its place.
Restart(w) ==
    /\ created[w]
    /\ created' = [created EXCEPT ![w] = FALSE]
    /\ current' = [current EXCEPT ![w] = 0]
    /\ polling' = [polling EXCEPT ![w] = FALSE]
    /\ pending' = [pending EXCEPT ![w] = FALSE]
    /\ threads' = [threads EXCEPT ![w] = [t \in Threads |-> Idle]]
    /\ UNCHANGED published

-----------------------------------------------------------------------------
(* refresh *)

\* What makes a thread call refresh: the poll interval, an announcement, or a
\* request that finds the cache cold.
Due(w, t) ==
    CASE t = "poll"       -> polling[w]
      [] t = "subscriber" -> pending[w]
      [] t = "request"    -> current[w] = 0

Call(w, t) ==
    /\ created[w]
    /\ threads[w][t] = Idle
    /\ Due(w, t)
    /\ threads' = [threads EXCEPT ![w][t] = [step |-> "waiting", version |-> 0]]
    /\ pending' = IF t = "subscriber" THEN [pending EXCEPT ![w] = FALSE] ELSE pending
    /\ UNCHANGED <<published, created, current, polling>>

\* Mutant: the lock covers the swap and not the load.
LockFree_for_load(w) == w \in Workers

LockFree(w) == \A t \in Threads : threads[w][t].step # "loaded"

Load(w, t) ==
    /\ threads[w][t].step = "waiting"
    /\ LockFree(w)
    /\ threads' = [threads EXCEPT ![w][t] = [step |-> "loaded", version |-> published]]
    /\ UNCHANGED <<published, created, current, polling, pending>>

Leave(w, t) == threads' = [threads EXCEPT ![w][t] = Idle]

\* Mutant: only the successor of the version in memory is taken.
Newer_by_one(w, v) == v = current[w] + 1

\* There is a version, and it differs from the one in memory.
Newer(w, v) == v # 0 /\ v # current[w]

\* Mutant: the snapshot is trusted because it was validated once.
Compiles_trusting(v) == v \in 1 .. MaxVersion

Compiles(v) == v \notin Uncompilable /\ v \notin Malformed

\* Anything but a SnapshotError.  The subscriber logs it and reconnects, the
\* request is answered with a 500; the poll's thread has nothing that catches it
\* and ends.
Uncaught(w, t) ==
    polling' = IF t = "poll" THEN [polling EXCEPT ![w] = FALSE] ELSE polling

\* The load is used: nothing to do or the swap; a SnapshotError (which the poll
\* and the subscriber catch, and which a request answers with a 500); or what the
\* id and the severity of a rule raise, which are read outside compile_snapshot's
\* try.
Use(w, t) ==
    LET v == threads[w][t].version
    IN /\ threads[w][t].step = "loaded"
       /\ current' = IF Newer(w, v) /\ Compiles(v) THEN [current EXCEPT ![w] = v] ELSE current
       /\ IF Newer(w, v) /\ v \in Malformed THEN Uncaught(w, t) ELSE UNCHANGED polling
       /\ Leave(w, t)
       /\ UNCHANGED <<published, created, pending>>

\* The load itself raises, a database error say.
LoadRaises(w, t) ==
    /\ threads[w][t].step = "waiting"
    /\ LockFree(w)
    /\ Uncaught(w, t)
    /\ Leave(w, t)
    /\ UNCHANGED <<published, created, current, pending>>

-----------------------------------------------------------------------------
Next ==
    \/ Publish
    \/ \E w \in Workers :
        \/ Create(w)
        \/ Restart(w)
        \/ \E t \in Threads : Call(w, t) \/ Load(w, t) \/ Use(w, t) \/ LoadRaises(w, t)

\* The poll thread wakes again and again and a thread that holds the lock gets
\* on.  A thread that waits for a lock which is released again and again gets
\* it some time: strong fairness, since other threads may take it in between.
Fairness ==
    \A w \in Workers :
        /\ WF_vars(Call(w, "poll"))
        /\ SF_vars(Load(w, "poll"))
        /\ \A t \in Threads : WF_vars(Use(w, t))

Spec == Init /\ [][Next]_vars /\ Fairness

-----------------------------------------------------------------------------
\* While a process lives, the version it serves never goes back and a warm cache
\* never turns cold, whichever of its threads refresh at once.
NeverGoesBack ==
    [][ \A w \in Workers : (created[w] /\ created'[w]) => current'[w] >= current[w] ]_vars

\* What the request path is promised.
Feed == INSTANCE RuleSetFeed WITH
            serving <- current, Servable <- (1 .. MaxVersion) \ (Uncompilable \cup Malformed)

\* The cache implements the feed: whatever the threads of a worker do at once, a
\* swap brings in a published version that compiles and is newer than the one it
\* replaces, and a worker serves nothing else in between.
ImplementsFeed == Feed!Spec

\* What a worker that is left running must come to serve.
UpToDate(w) == Compiles(published) => current[w] = published

\* As long as its poll thread lives, a worker comes to serve the latest version
\* even if every announcement is lost.
PollPropagates ==
    \A w \in Workers : <>[](created[w] /\ polling[w]) => <>[]UpToDate(w)
=============================================================================
