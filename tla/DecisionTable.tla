--------------------------- MODULE DecisionTable ---------------------------
(***************************************************************************)
(* The partitioned decisions table (migrations/0001, partitions.py) and    *)
(* the command that creates partitions ahead (complylayer_partitions).     *)
(* The command runs on a schedule and on every deploy, so two runs may     *)
(* overlap; each of its statements commits by itself.  Months are numbers. *)
(*                                                                         *)
(* PostgreSQL (external): a row goes to the partition of its month or, if  *)
(* there is none, to the default partition; a partition cannot be created  *)
(* twice, nor for a month that the default partition holds rows of.        *)
(***************************************************************************)
EXTENDS Naturals, FiniteSets

CONSTANTS
    Runs,          \* executions of the command that may overlap
    months_ahead,
    MaxMonth       \* bound: the last month

ASSUME TableAssumption == months_ahead \in Nat /\ MaxMonth \in Nat \ {0}

Idle == [at |-> "idle", start |-> 0, next |-> 0]

VARIABLES
    today,       \* the current month
    partitions,  \* the months that have one
    heap,        \* the months of the rows in the default partition
    run,
    warned,      \* the months that the last warning was about
    covered,     \* history: months that a completed run was to cover
    late,        \* history: months of rows that missed a partition they were to have
    ended        \* history: how the runs ended since the command was last idle

vars == <<today, partitions, heap, run, warned, covered, late, ended>>

Init ==
    /\ today = 1
    /\ partitions = {} /\ heap = {} /\ warned = {}
    /\ run = [r \in Runs |-> Idle]
    /\ covered = {} /\ late = {} /\ ended = {}

-----------------------------------------------------------------------------
NextMonth ==
    /\ today < MaxMonth
    /\ today' = today + 1
    /\ UNCHANGED <<partitions, heap, run, warned, covered, late, ended>>

\* An INSERT.  decided_at is read before the decision is stored, so the row
\* of a month's last moment arrives in the next.
Store(m) ==
    /\ m \in {today, today - 1} \ {0}
    /\ IF m \in partitions
       THEN UNCHANGED <<heap, late>>
       ELSE /\ heap' = heap \cup {m}
            /\ late' = IF m \in covered THEN late \cup {m} ELSE late
    /\ UNCHANGED <<today, partitions, run, warned, covered, ended>>

-----------------------------------------------------------------------------
(* ensure_partitions and the command around it.                            *)

\* Mutant: range(months_ahead) instead of range(months_ahead + 1).
partitions_for_one_less(start) == start..start + months_ahead - 1

partitions_for(start) == start..start + months_ahead

\* Mutant: the month is created without looking whether it exists.
missing_always(m) == TRUE

\* SELECT to_regclass(...) IS NOT NULL
missing(m) == m \notin partitions

Quiet == \A r \in Runs : run[r] = Idle

Begin(r) ==
    /\ run[r] = Idle
    /\ run' = [run EXCEPT ![r] = [at |-> "check", start |-> today, next |-> today]]
    /\ ended' = IF Quiet THEN {} ELSE ended
    /\ UNCHANGED <<today, partitions, heap, warned, covered, late>>

Check(r) ==
    /\ run[r].at = "check" /\ run[r].next \in partitions_for(run[r].start)
    /\ run' = IF missing(run[r].next) THEN [run EXCEPT ![r].at = "create"]
              ELSE [run EXCEPT ![r].next = @ + 1]
    /\ UNCHANGED <<today, partitions, heap, warned, covered, late, ended>>

End(r, how) ==
    /\ run' = [run EXCEPT ![r] = Idle]
    /\ ended' = ended \cup {how}

\* CREATE TABLE ... PARTITION OF; its exception ends the command, and with it
\* the months that were still to come and the warning.
Create(r) ==
    LET m == run[r].next
    IN /\ run[r].at = "create"
       /\ IF m \in partitions \cup heap
          THEN End(r, "failed") /\ UNCHANGED partitions
          ELSE /\ partitions' = partitions \cup {m}
               /\ run' = [run EXCEPT ![r].at = "check", ![r].next = @ + 1]
               /\ UNCHANGED ended
       /\ UNCHANGED <<today, heap, warned, covered, late>>

\* rows_in_default_partition, and the warning if there are any.
Report(r) ==
    /\ run[r].at = "check" /\ run[r].next \notin partitions_for(run[r].start)
    /\ warned' = heap
    /\ covered' = covered \cup run[r].start..run[r].start + months_ahead
    /\ End(r, "ok")
    /\ UNCHANGED <<today, partitions, heap, late>>

Crash(r) ==
    /\ run[r] # Idle
    /\ End(r, "crashed")
    /\ UNCHANGED <<today, partitions, heap, warned, covered, late>>

Next ==
    \/ NextMonth
    \/ \E m \in {today, today - 1} : Store(m)
    \/ \E r \in Runs : Begin(r) \/ Check(r) \/ Create(r) \/ Report(r) \/ Crash(r)

Spec == Init /\ [][Next]_vars

-----------------------------------------------------------------------------
\* A row in the default partition means that maintenance had lapsed: once a
\* run has completed, no row of its month or of the months_ahead after it
\* goes there, whatever other runs, crashes and months' ends come between.
StrandedMeansLapsed == late = {} /\ covered \subseteq partitions

\* Overlapping runs do not defeat each other: of runs that overlapped, none of
\* them killed, one completed, unless the default partition already held rows.
OneRunCompletes == Quiet /\ ended # {} /\ "crashed" \notin ended /\ heap = {} => "ok" \in ended
=============================================================================
