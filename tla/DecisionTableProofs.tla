------------------------ MODULE DecisionTableProofs ------------------------
(***************************************************************************)
(* Partition maintenance, for any number of overlapping runs, any          *)
(* months_ahead and any number of months.                                  *)
(*                                                                         *)
(* Coverage: a run has a partition behind it for every month from its      *)
(* start up to the one it is about to look at, so a run that reports has   *)
(* them all.  Completion: a run that is about to create a month another    *)
(* run has created is doomed, but then the creator is ahead of it and is   *)
(* not doomed, so of a group of overlapping runs one reaches the end.      *)
(***************************************************************************)
EXTENDS DecisionTable, TLAPS

Commands == [at : {"idle", "check", "create"}, start : Nat, next : Nat]

Typed ==
    /\ today \in Nat
    /\ partitions \subseteq Nat
    /\ run \in [Runs -> Commands]
    /\ ended \subseteq {"ok", "failed", "crashed"}

\* Every month a run has passed has its partition.
PassedIsThere ==
    \A r \in Runs :
        /\ run[r].start <= run[r].next
        /\ \A m \in Nat : run[r].start <= m /\ m < run[r].next => m \in partitions

\* A run that will fail at its next statement, and one that will not.
Doomed(r) == run[r].at = "create" /\ run[r].next \in partitions
Live(r) == run[r].at = "check" \/ (run[r].at = "create" /\ run[r].next \notin partitions)

Led ==
    /\ \A r \in Runs : Doomed(r) => \E p \in Runs : Live(p) /\ run[r].next < run[p].next
    /\ "failed" \in ended => \E p \in Runs : Live(p)

Completion == heap = {} /\ "crashed" \notin ended => "ok" \in ended \/ Led

CoverageInv == Typed /\ PassedIsThere /\ StrandedMeansLapsed
IInv == CoverageInv /\ Completion

-----------------------------------------------------------------------------
\* Before the first run there is nothing to cover and nobody to lead.
LEMMA InitIInv == Init => IInv
  BY DEF Init, IInv, CoverageInv, Typed, PassedIsThere, StrandedMeansLapsed, Completion,
         Led, Doomed, Live, Idle, Commands

\* Every statement of the command keeps months and runs what they are.
LEMMA NextTyped ==
  ASSUME Typed, [Next]_vars
  PROVE  Typed'
  <1>0. CASE UNCHANGED vars
    BY <1>0 DEF Typed, vars
  <1>1. CASE NextMonth
    BY <1>1 DEF Typed, NextMonth
  <1>2. ASSUME NEW m \in {today, today - 1}, Store(m) PROVE Typed'
    BY <1>2 DEF Typed, Store
  <1>3. ASSUME NEW r \in Runs, Begin(r) PROVE Typed'
    BY <1>3 DEF Typed, Begin, Commands, Idle
  <1>4. ASSUME NEW r \in Runs, Check(r) PROVE Typed'
    BY <1>4 DEF Typed, Check, Commands
  <1>5. ASSUME NEW r \in Runs, Create(r) PROVE Typed'
    BY <1>5 DEF Typed, Create, Commands, End, Idle
  <1>6. ASSUME NEW r \in Runs, Report(r) PROVE Typed'
    BY <1>6 DEF Typed, Report, Commands, End, Idle
  <1>7. ASSUME NEW r \in Runs, Crash(r) PROVE Typed'
    BY <1>7 DEF Typed, Crash, Commands, End, Idle
  <1> QED BY <1>0, <1>1, <1>2, <1>3, <1>4, <1>5, <1>6, <1>7 DEF Next

\* Check passes a month that has its partition, Create one that it makes.
LEMMA NextPassed ==
  ASSUME Typed, PassedIsThere, [Next]_vars
  PROVE  PassedIsThere'
  <1>0. CASE UNCHANGED vars
    BY <1>0 DEF PassedIsThere, vars
  <1>1. CASE NextMonth
    BY <1>1 DEF PassedIsThere, NextMonth
  <1>2. ASSUME NEW m \in {today, today - 1}, Store(m) PROVE PassedIsThere'
    BY <1>2 DEF PassedIsThere, Store
  <1>3. ASSUME NEW r \in Runs, Begin(r) PROVE PassedIsThere'
    BY <1>3 DEF Typed, PassedIsThere, Begin, Commands
  <1>4. ASSUME NEW r \in Runs, Check(r) PROVE PassedIsThere'
    <2>1. CASE missing(run[r].next)
      BY <1>4, <2>1 DEF Typed, PassedIsThere, Check, Commands
    <2>2. CASE ~ missing(run[r].next)
      <3>1. \A m \in Nat : m < run[r].next + 1 => m < run[r].next \/ m \in partitions
        BY <2>2 DEF Typed, Commands, missing
      <3> QED BY <1>4, <2>2, <3>1 DEF Typed, PassedIsThere, Check, Commands
    <2> QED BY <2>1, <2>2
  <1>5. ASSUME NEW r \in Runs, Create(r) PROVE PassedIsThere'
    BY <1>5 DEF Typed, PassedIsThere, Create, Commands, End, Idle
  <1>6. ASSUME NEW r \in Runs, Report(r) PROVE PassedIsThere'
    BY <1>6 DEF Typed, PassedIsThere, Report, Commands, End, Idle
  <1>7. ASSUME NEW r \in Runs, Crash(r) PROVE PassedIsThere'
    BY <1>7 DEF Typed, PassedIsThere, Crash, Commands, End, Idle
  <1> QED BY <1>0, <1>1, <1>2, <1>3, <1>4, <1>5, <1>6, <1>7 DEF Next

\* Report is the step that promises: it comes after the last month.
LEMMA NextStranded ==
  ASSUME Typed, PassedIsThere, StrandedMeansLapsed, [Next]_vars
  PROVE  StrandedMeansLapsed'
  <1>0. CASE UNCHANGED vars
    BY <1>0 DEF StrandedMeansLapsed, vars
  <1>1. CASE NextMonth
    BY <1>1 DEF StrandedMeansLapsed, NextMonth
  <1>2. ASSUME NEW m \in {today, today - 1}, Store(m) PROVE StrandedMeansLapsed'
    BY <1>2 DEF StrandedMeansLapsed, Store
  <1>3. ASSUME NEW r \in Runs, Begin(r) PROVE StrandedMeansLapsed'
    BY <1>3 DEF StrandedMeansLapsed, Begin
  <1>4. ASSUME NEW r \in Runs, Check(r) PROVE StrandedMeansLapsed'
    BY <1>4 DEF StrandedMeansLapsed, Check
  <1>5. ASSUME NEW r \in Runs, Create(r) PROVE StrandedMeansLapsed'
    BY <1>5 DEF StrandedMeansLapsed, Create
  <1>6. ASSUME NEW r \in Runs, Report(r) PROVE StrandedMeansLapsed'
    <2>1. run[r].start \in Nat /\ run[r].next \in Nat /\ months_ahead \in Nat
      BY TableAssumption DEF Typed, Commands
    <2>2. run[r].start + months_ahead < run[r].next
      BY <1>6, <2>1 DEF PassedIsThere, Report, partitions_for
    <2>3. run[r].start..run[r].start + months_ahead \subseteq partitions
      BY <2>1, <2>2 DEF PassedIsThere
    <2> QED BY <1>6, <2>3 DEF StrandedMeansLapsed, Report
  <1>7. ASSUME NEW r \in Runs, Crash(r) PROVE StrandedMeansLapsed'
    BY <1>7 DEF StrandedMeansLapsed, Crash
  <1> QED BY <1>0, <1>1, <1>2, <1>3, <1>4, <1>5, <1>6, <1>7 DEF Next

\* One step per action; Create is the step that dooms the runs it overtakes.
LEMMA NextCompletion ==
  ASSUME Typed, Completion, [Next]_vars
  PROVE  Completion'
  <1>0. CASE UNCHANGED vars
    BY <1>0 DEF Completion, Led, Doomed, Live, vars
  <1>1. CASE NextMonth
    BY <1>1 DEF Completion, Led, Doomed, Live, NextMonth
  <1>2. ASSUME NEW m \in {today, today - 1}, Store(m) PROVE Completion'
    BY <1>2 DEF Completion, Led, Doomed, Live, Store
  <1>3. ASSUME NEW r \in Runs, Begin(r) PROVE Completion'
    <2>1. CASE Quiet
      <3>1. \A p \in Runs : ~Doomed(p)'
        BY <1>3, <2>1 DEF Typed, Commands, Begin, Quiet, Doomed, Idle
      <3>2. ended' = {}
        BY <1>3, <2>1 DEF Begin
      <3> QED BY <3>1, <3>2 DEF Completion, Led
    <2>2. CASE ~Quiet
      <3>1. ended' = ended /\ heap' = heap /\ partitions' = partitions
        BY <1>3, <2>2 DEF Begin
      <3>2. \A p \in Runs : Doomed(p)' => Doomed(p) /\ p # r
        BY <1>3 DEF Typed, Commands, Begin, Doomed
      <3>3. \A p \in Runs : Live(p) => p # r
        BY <1>3 DEF Live, Begin, Idle
      <3>4. \A p \in Runs : p # r => run'[p] = run[p]
        BY <1>3 DEF Typed, Begin
      <3> QED BY <3>1, <3>2, <3>3, <3>4 DEF Completion, Led, Live
    <2> QED BY <2>1, <2>2
  <1>4. ASSUME NEW r \in Runs, Check(r) PROVE Completion'
    <2>1. ended' = ended /\ heap' = heap /\ partitions' = partitions
      BY <1>4 DEF Check
    <2>2. \A p \in Runs : p # r => run'[p] = run[p]
      BY <1>4 DEF Typed, Check
    <2>3. Live(r)' /\ run[r].next \in Nat /\ run'[r].next \in Nat /\ run[r].next <= run'[r].next
      BY <1>4 DEF Typed, Commands, Check, Live, missing
    <2>4. ~Doomed(r)'
      BY <2>3 DEF Live, Doomed
    <2>5. \A p \in Runs : run[p].next \in Nat
      BY DEF Typed, Commands
    <2> QED BY <2>1, <2>2, <2>3, <2>4, <2>5 DEF Completion, Led, Live, Doomed
  <1>5. ASSUME NEW r \in Runs, Create(r) PROVE Completion'
    <2> DEFINE m == run[r].next
    <2> SUFFICES ASSUME heap' = {}, "crashed" \notin ended', "ok" \notin ended'
                 PROVE  Led'
      BY DEF Completion
    <2>0. /\ heap = {} /\ m \in Nat /\ run[r].at = "create"
          /\ \A p \in Runs : run[p].next \in Nat
      BY <1>5 DEF Create, Typed, Commands
    <2>1. CASE m \in partitions
      <3>1. /\ partitions' = partitions /\ ended' = ended \cup {"failed"}
            /\ run'[r] = Idle /\ \A p \in Runs : p # r => run'[p] = run[p]
        BY <1>5, <2>1 DEF Create, End, Typed
      <3>2. Led
        BY <2>0, <3>1 DEF Completion
      <3>3. PICK q \in Runs : Live(q) /\ m < run[q].next
        BY <2>0, <2>1, <3>2 DEF Led, Doomed
      <3>4. q # r /\ Live(q)'
        BY <2>0, <2>1, <3>1, <3>3 DEF Live
      <3>5. \A p \in Runs : Live(p) => p # r /\ Live(p)'
        BY <2>0, <2>1, <3>1 DEF Live
      <3>6. \A p \in Runs : Doomed(p)' => p # r /\ Doomed(p)
        BY <3>1 DEF Doomed, Idle
      <3> QED BY <3>1, <3>2, <3>4, <3>5, <3>6 DEF Led
    <2>2. CASE m \notin partitions
      <3>1. /\ partitions' = partitions \cup {m} /\ ended' = ended
            /\ run'[r].at = "check" /\ run'[r].next = m + 1
            /\ \A p \in Runs : p # r => run'[p] = run[p]
        BY <1>5, <2>0, <2>2 DEF Create, Typed, Commands
      <3>2. Led
        BY <2>0, <3>1 DEF Completion
      <3>3. Live(r)' /\ ~Doomed(r)'
        BY <3>1 DEF Live, Doomed
      <3>4. ASSUME NEW p \in Runs, Doomed(p)'
            PROVE  \E q \in Runs : Live(q)' /\ run'[p].next < run'[q].next
        <4>1. p # r /\ run'[p] = run[p]
          BY <3>1, <3>3, <3>4
        <4>2. CASE run[p].next = m
          BY <2>0, <3>1, <3>3, <4>1, <4>2
        <4>3. CASE run[p].next # m
          <5>1. Doomed(p)
            BY <3>1, <3>4, <4>1, <4>3 DEF Doomed
          <5>2. PICK q \in Runs : Live(q) /\ run[p].next < run[q].next
            BY <3>2, <5>1 DEF Led
          <5>3. CASE q = r
            BY <2>0, <3>1, <3>3, <4>1, <5>2, <5>3
          <5>4. CASE q # r /\ Live(q)'
            BY <3>1, <4>1, <5>2, <5>4
          <5>5. CASE q # r /\ ~Live(q)'
            <6>1. run[q].next = m
              BY <3>1, <5>2, <5>5 DEF Live
            <6> QED BY <2>0, <3>1, <3>3, <4>1, <5>2, <6>1
          <5> QED BY <5>3, <5>4, <5>5
        <4> QED BY <4>2, <4>3
      <3> QED BY <3>3, <3>4 DEF Led
    <2> QED BY <2>1, <2>2
  <1>6. ASSUME NEW r \in Runs, Report(r) PROVE Completion'
    BY <1>6 DEF Completion, Report, End
  <1>7. ASSUME NEW r \in Runs, Crash(r) PROVE Completion'
    BY <1>7 DEF Completion, Crash, End
  <1> QED BY <1>0, <1>1, <1>2, <1>3, <1>4, <1>5, <1>6, <1>7 DEF Next

-----------------------------------------------------------------------------
\* The inductive invariant of complylayer_partitions: what a run has passed
\* is there, and overlapping runs have a leader.
THEOREM MaintenanceInvariant == Spec => []IInv
  <1>1. Init => IInv
    BY InitIInv
  <1>2. IInv /\ [Next]_vars => IInv'
    BY NextTyped, NextPassed, NextStranded, NextCompletion DEF IInv, CoverageInv
  <1> QED BY <1>1, <1>2, PTL DEF Spec

\* Once ensure_partitions has completed, no decision of its months goes to
\* the default partition.
THEOREM NothingStranded == Spec => []StrandedMeansLapsed
  <1>1. IInv => StrandedMeansLapsed
    BY DEF IInv, CoverageInv
  <1> QED BY <1>1, MaintenanceInvariant, PTL

\* However many runs of the command overlap, one completes unless one was
\* killed or the default partition already held rows.
THEOREM OneCompletes == Spec => []OneRunCompletes
  <1>1. IInv => OneRunCompletes
    <2> SUFFICES ASSUME IInv, Quiet, ended # {}, "crashed" \notin ended, heap = {}
                 PROVE  "ok" \in ended
      BY DEF OneRunCompletes
    <2>1. \A p \in Runs : ~Live(p)
      BY DEF Quiet, Live, Idle
    <2>2. "failed" \notin ended \/ "ok" \in ended
      BY <2>1 DEF IInv, Completion, Led
    <2> QED BY <2>2 DEF IInv, CoverageInv, Typed
  <1> QED BY <1>1, MaintenanceInvariant, PTL
=============================================================================
