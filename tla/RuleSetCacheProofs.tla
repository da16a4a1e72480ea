------------------------- MODULE RuleSetCacheProofs -------------------------
(***************************************************************************)
(* What RuleSetCache promises for any number of workers and versions.  The *)
(* argument rests on the lock: the thread that has loaded a version is the *)
(* only one of its worker that can swap, and versions only grow, so what   *)
(* it holds cannot be older than what it replaces.                         *)
(***************************************************************************)
EXTENDS RuleSetCache, TLAPS

\* The lock of a cache is held by one thread at most.
OneLoads ==
    \A w \in Workers : \A s, t \in Threads :
        threads[w][s].step = "loaded" /\ threads[w][t].step = "loaded" => s = t

\* What a thread has loaded is not older than what is in memory.
LoadedNotOlder ==
    \A w \in Workers, t \in Threads :
        threads[w][t].step = "loaded" => threads[w][t].version >= current[w]

\* Nothing in memory is ahead of the table, and nothing that has been loaded is.
NotAhead ==
    \A w \in Workers :
        /\ current[w] <= published
        /\ \A t \in Threads : threads[w][t].version <= published

\* The inductive invariant.
IInv == TypeOK /\ OneLoads /\ NotAhead /\ LoadedNotOlder

LEMMA InitEstablishes == Init => IInv
  BY VersionsAssumption
  DEF Init, IInv, TypeOK, OneLoads, NotAhead, LoadedNotOlder, Steps, Idle

\* The step a thread takes inside refresh, whatever it is, leaves every other
\* worker and every other thread of this one alone.
LEMMA TypesPreserved == IInv /\ [Next]_vars => TypeOK'
  <1> SUFFICES ASSUME IInv, [Next]_vars PROVE TypeOK'
    OBVIOUS
  <1> USE VersionsAssumption DEF IInv, TypeOK, Steps, Idle
  <1>1. CASE Publish
    BY <1>1 DEF Publish
  <1>2. ASSUME NEW w \in Workers, Create(w) PROVE TypeOK'
    BY <1>2 DEF Create
  <1>3. ASSUME NEW w \in Workers, Restart(w) PROVE TypeOK'
    BY <1>3 DEF Restart
  <1>4. ASSUME NEW w \in Workers, NEW t \in Threads, Call(w, t) PROVE TypeOK'
    <2>1. threads' \in [Workers -> [Threads -> Steps]]
      BY <1>4 DEF Call
    <2>2. pending' \in [Workers -> BOOLEAN]
      BY <1>4 DEF Call
    <2>3. QED
      BY <1>4, <2>1, <2>2 DEF Call
  <1>5. ASSUME NEW w \in Workers, NEW t \in Threads, Load(w, t) PROVE TypeOK'
    BY <1>5 DEF Load
  <1>6. ASSUME NEW w \in Workers, NEW t \in Threads, Use(w, t) PROVE TypeOK'
    <2>1. created[w] /\ threads' \in [Workers -> [Threads -> Steps]]
      BY <1>6 DEF Use, Leave
    <2>2. \/ polling' = polling
          \/ polling' = [polling EXCEPT ![w] = FALSE]
      BY <1>6 DEF Use, Uncaught
    <2>3. polling' \in [Workers -> BOOLEAN] /\ \A x \in Workers : ~ polling[x] => ~ polling'[x]
      BY <2>2
    <2>4. current' \in [Workers -> 0 .. MaxVersion] /\ \A x \in Workers : x # w => current'[x] = current[x]
      BY <1>6 DEF Use
    <2>5. \A x \in Workers : x # w => threads'[x] = threads[x]
      BY <1>6 DEF Use, Leave
    <2>6. UNCHANGED <<published, created, pending>>
      BY <1>6 DEF Use
    <2>7. created'[w] /\ \A x \in Workers : ~ created'[x] => x # w /\ ~ created[x]
      BY <2>1, <2>6
    <2>8. ASSUME NEW x \in Workers, ~ created'[x]
          PROVE  /\ current'[x] = 0 /\ ~ polling'[x] /\ ~ pending'[x]
                 /\ \A s \in Threads : threads'[x][s] = Idle
      <3>1. /\ current[x] = 0 /\ ~ polling[x] /\ ~ pending[x]
            /\ \A s \in Threads : threads[x][s] = Idle
        BY <2>7, <2>8
      <3>2. QED
        BY <2>3, <2>4, <2>5, <2>6, <2>7, <2>8, <3>1
    <2>9. QED
      BY <2>1, <2>3, <2>4, <2>6, <2>8
  <1>7. ASSUME NEW w \in Workers, NEW t \in Threads, LoadRaises(w, t) PROVE TypeOK'
    BY <1>7 DEF LoadRaises, Leave, Uncaught
  <1>8. CASE UNCHANGED vars
    BY <1>8 DEF vars
  <1>9. QED
    BY <1>1, <1>2, <1>3, <1>4, <1>5, <1>6, <1>7, <1>8 DEF Next

\* Only Use writes `current`, and it does so with the lock in hand.
LEMMA OrderPreserved ==
  IInv /\ [Next]_vars => OneLoads' /\ NotAhead' /\ LoadedNotOlder'
  <1> SUFFICES ASSUME IInv, [Next]_vars
               PROVE  OneLoads' /\ NotAhead' /\ LoadedNotOlder'
    OBVIOUS
  <1> DEFINE Goal == OneLoads /\ NotAhead /\ LoadedNotOlder
  <1> USE VersionsAssumption
      DEF IInv, TypeOK, Steps, Idle, OneLoads, NotAhead, LoadedNotOlder
  <1>1. CASE Publish
    BY <1>1 DEF Publish
  <1>2. ASSUME NEW w \in Workers, Create(w) PROVE Goal'
    BY <1>2 DEF Create
  <1>3. ASSUME NEW w \in Workers, Restart(w) PROVE Goal'
    BY <1>3 DEF Restart
  <1>4. ASSUME NEW w \in Workers, NEW t \in Threads, Call(w, t) PROVE Goal'
    BY <1>4 DEF Call
  <1>5. ASSUME NEW w \in Workers, NEW t \in Threads, Load(w, t) PROVE Goal'
    BY <1>5 DEF Load, LockFree
  <1>6. ASSUME NEW w \in Workers, NEW t \in Threads, Use(w, t) PROVE Goal'
    BY <1>6 DEF Use, Leave, Newer, Compiles
  <1>7. ASSUME NEW w \in Workers, NEW t \in Threads, LoadRaises(w, t) PROVE Goal'
    BY <1>7 DEF LoadRaises, Leave
  <1>8. CASE UNCHANGED vars
    BY <1>8 DEF vars
  <1>9. QED
    BY <1>1, <1>2, <1>3, <1>4, <1>5, <1>6, <1>7, <1>8 DEF Next

\* Every reachable state satisfies the inductive invariant.
THEOREM Invariance == Spec => []IInv
  <1>1. IInv /\ [Next]_vars => IInv'
    BY TypesPreserved, OrderPreserved DEF IInv
  <1>2. QED
    BY InitEstablishes, <1>1, PTL DEF Spec

\* The variables have their types, and a worker without a cache has no watcher
\* and no thread in refresh.
THEOREM TypeCorrect == Spec => []TypeOK
  <1>1. IInv => TypeOK
    BY DEF IInv
  <1>2. QED
    BY Invariance, <1>1, PTL

\* The version a live process serves never decreases.
THEOREM Monotone == Spec => NeverGoesBack
  <1> DEFINE Step == \A w \in Workers : (created[w] /\ created'[w]) => current'[w] >= current[w]
  <1>1. IInv /\ [Next]_vars => [Step]_vars
    <2> SUFFICES ASSUME IInv, Next PROVE Step
      OBVIOUS
    <2> USE VersionsAssumption DEF IInv, TypeOK
    <2>1. CASE Publish
      BY <2>1 DEF Publish
    <2>2. ASSUME NEW w \in Workers, Create(w) PROVE Step
      BY <2>2 DEF Create
    <2>3. ASSUME NEW w \in Workers, Restart(w) PROVE Step
      BY <2>3 DEF Restart
    <2>4. ASSUME NEW w \in Workers, NEW t \in Threads, Call(w, t) PROVE Step
      BY <2>4 DEF Call
    <2>5. ASSUME NEW w \in Workers, NEW t \in Threads, Load(w, t) PROVE Step
      BY <2>5 DEF Load
    <2>6. ASSUME NEW w \in Workers, NEW t \in Threads, Use(w, t) PROVE Step
      BY <2>6 DEF Use, LoadedNotOlder, Steps
    <2>7. ASSUME NEW w \in Workers, NEW t \in Threads, LoadRaises(w, t) PROVE Step
      BY <2>7 DEF LoadRaises
    <2>8. QED
      BY <2>1, <2>2, <2>3, <2>4, <2>5, <2>6, <2>7 DEF Next
  <1>2. QED
    BY Invariance, <1>1, PTL DEF Spec, NeverGoesBack

\* refresh, the poll, the subscriber and cache_for together implement the feed the
\* request path relies on: the swap is a Serve, because what the lock holder has
\* loaded is published, compiles and is newer; the end of a process is a Stop; and
\* every other step is invisible to a request.
THEOREM CacheImplementsFeed == Spec => ImplementsFeed
  <1>1. Init => Feed!Init
    BY DEF Init, Feed!Init
  <1>2. IInv /\ [Next]_vars => [Feed!Next]_(Feed!feedVars)
    <2> SUFFICES ASSUME IInv, [Next]_vars PROVE [Feed!Next]_(Feed!feedVars)
      OBVIOUS
    <2>1. CASE Publish
      BY <2>1 DEF Publish, Feed!Next, Feed!Publish
    <2>2. ASSUME published' = published, current' = current PROVE UNCHANGED Feed!feedVars
      BY <2>2 DEF Feed!feedVars
    <2>3. ASSUME NEW w \in Workers, Restart(w) PROVE Feed!Next
      BY <2>3 DEF Restart, Feed!Next, Feed!Stop
    <2>4. ASSUME NEW w \in Workers, NEW t \in Threads, Use(w, t)
          PROVE  [Feed!Next]_(Feed!feedVars)
      <3>1. PICK v : v = threads[w][t].version
        OBVIOUS
      <3>2. CASE Newer(w, v) /\ Compiles(v)
        <4>1. v \in 0 .. MaxVersion /\ v <= published /\ v >= current[w] /\ current[w] \in Nat
          BY <2>4, <3>1 DEF IInv, TypeOK, Steps, NotAhead, LoadedNotOlder, Use
        <4>2. v \in (1 .. MaxVersion) \ (Uncompilable \cup Malformed) /\ current[w] < v
          BY <3>2, <4>1, VersionsAssumption DEF Newer, Compiles
        <4>3. Feed!Serve(w, v)
          BY <2>4, <3>1, <3>2, <4>1, <4>2 DEF Use, Feed!Serve
        <4>4. QED
          BY <4>2, <4>3 DEF Feed!Next
      <3>3. CASE ~ (Newer(w, v) /\ Compiles(v))
        BY <2>2, <2>4, <3>1, <3>3 DEF Use
      <3>4. QED
        BY <3>2, <3>3
    <2>5. ASSUME NEW w \in Workers, NEW t \in Threads, Create(w) \/ Call(w, t) \/ Load(w, t) \/ LoadRaises(w, t)
          PROVE  UNCHANGED Feed!feedVars
      BY <2>2, <2>5 DEF Create, Call, Load, LoadRaises
    <2>6. CASE UNCHANGED vars
      BY <2>2, <2>6 DEF vars
    <2>7. Threads # {}
      BY DEF Threads
    <2>8. QED
      BY <2>1, <2>3, <2>4, <2>5, <2>6, <2>7 DEF Next
  <1>3. QED
    BY Invariance, <1>1, <1>2, PTL DEF Spec, ImplementsFeed, Feed!Spec
=============================================================================
