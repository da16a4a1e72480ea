----------------------------- MODULE AuditChain -----------------------------
(***************************************************************************)
(* One tenant's audit trail: complylayer/audit/writer.py (append, verify,  *)
(* write_checkpoint, verify_anchoring), chain.py and checkpoint.py.        *)
(*                                                                         *)
(* append runs in the caller's transaction.  SELECT ... FOR UPDATE on the  *)
(* tenant row is held from the lock to the commit of that transaction, so  *)
(* locking, reading the tail, inserting and committing are four steps and  *)
(* an insert is invisible to others until the last of them.  Every reader  *)
(* orders the records by (recorded_at, id): recorded_at is the clock of    *)
(* the host that inserted the row, id is random.                           *)
(*                                                                         *)
(* write_checkpoint runs in autocommit mode: its count() and its last()    *)
(* are two statements, and a transaction may commit between them.          *)
(***************************************************************************)
EXTENDS Naturals, Sequences, FiniteSets

CONSTANTS
    Workers,      \* processes that append, each on a host with its own clock
    Offset,       \* how far each host's clock is ahead of true time
    IdOf,         \* the id the n-th insert draws
    Payloads,     \* everything a hash covers beside the id and the link
    MaxTime,      \* bound: inserts attempted in a behaviour
    MaxCheckpoints, \* bound: checkpoints signed in a behaviour
    MaxFaults     \* bound: times something outside the application damages the table

ASSUME ClocksAssumption == Offset \in [Workers -> Nat]
ASSUME BoundsAssumption == {MaxTime, MaxCheckpoints, MaxFaults} \subseteq Nat
\* new_audit_id draws 96 random bits: never twice the same, in no order.
ASSUME IdsAssumption ==
    /\ IdOf \in [0 .. MaxTime - 1 -> Nat]
    /\ \A m, n \in 0 .. MaxTime - 1 : m # n => IdOf[m] # IdOf[n]

\* The condition under which the order of recorded_at is the order of commits:
\* all hosts show the same time.
ClocksAgree == \A v, w \in Workers : Offset[v] = Offset[w]

-----------------------------------------------------------------------------
Ids == {IdOf[n] : n \in 0 .. MaxTime - 1}

Entry == Ids \X Payloads

\* SHA-256 over the canonical JSON of the record, its prev_hash included, with
\* the collisions left out: the hash of a record determines the record and
\* everything the record follows.
Hashes == Seq(Entry)
GENESIS == << >>

\* Mutant: the id is left out of what is hashed.
compute_hash_without_id(id, payload, prev) == Append(prev, <<payload>>)

compute_hash(id, payload, prev) == Append(prev, <<id, payload>>)

Rows == [id : Ids, recorded_at : Nat, payload : Payloads, prev_hash : Hashes, hash : Hashes]

Checkpoints == [chain_length : Nat, head_hash : Hashes]

VARIABLES
    records,      \* the committed rows, in commit order
    pc,           \* where each worker is in append
    prev_hash,    \* the hash of the tail each worker has read
    inserted,     \* the row each worker has inserted and not committed: a sequence of length 0 or 1
    now,          \* true time, which every insert takes some of
    counted,      \* what write_checkpoint's count() has returned; 0 when it is not running
    checkpoints,  \* the AuditCheckpoint table, in insertion order
    faults,       \* history: times the table has been damaged from outside
    altered,      \* history: ids of the rows whose payload was changed in place
    lost          \* history: ids of the rows that were lost

chainVars == <<records, pc, prev_hash, inserted, now>>
vars == <<chainVars, counted, checkpoints, faults, altered, lost>>

TypeOK ==
    /\ records \in Seq(Rows)
    /\ pc \in [Workers -> {"idle", "locked", "read", "inserted"}]
    /\ prev_hash \in [Workers -> Hashes]
    /\ inserted \in [Workers -> Seq(Rows)]
    /\ now \in Nat
    /\ counted \in Nat
    /\ checkpoints \in Seq(Checkpoints)
    /\ faults \in Nat
    /\ altered \in SUBSET Ids
    /\ lost \in SUBSET Ids

Init ==
    /\ records = << >>
    /\ pc = [w \in Workers |-> "idle"]
    /\ prev_hash = [w \in Workers |-> GENESIS]
    /\ inserted = [w \in Workers |-> << >>]
    /\ now = 0
    /\ counted = 0
    /\ checkpoints = << >>
    /\ faults = 0
    /\ altered = {}
    /\ lost = {}

-----------------------------------------------------------------------------
(* order_by("recorded_at", "id") *)

\* Mutant: the order in which rows happen to lie in the table's index on id.
Precedes_by_id(a, b) == a.id < b.id

Precedes(a, b) ==
    \/ a.recorded_at < b.recorded_at
    \/ a.recorded_at = b.recorded_at /\ a.id < b.id

Position(i) == Cardinality({j \in DOMAIN records : Precedes(records[j], records[i])}) + 1

\* The n-th record of the chain as every reader sees it.
Nth(n) == records[CHOOSE i \in DOMAIN records : Position(i) = n]

-----------------------------------------------------------------------------
(* append *)

\* Mutant: the tail is read without the row lock.
LockFree_ignored(w) == w = w

\* SELECT ... FOR UPDATE waits while another transaction holds the tenant row.
LockFree(w) == \A v \in Workers \ {w} : pc[v] = "idle"

Lock(w) ==
    /\ pc[w] = "idle"
    /\ LockFree(w)
    /\ now < MaxTime
    /\ pc' = [pc EXCEPT ![w] = "locked"]
    /\ UNCHANGED <<records, prev_hash, inserted, now, counted, checkpoints, faults, altered, lost>>

ReadTail(w) ==
    /\ pc[w] = "locked"
    /\ prev_hash' = [prev_hash EXCEPT ![w] =
          IF records = << >> THEN GENESIS ELSE Nth(Len(records)).hash]
    /\ pc' = [pc EXCEPT ![w] = "read"]
    /\ UNCHANGED <<records, inserted, now, counted, checkpoints, faults, altered, lost>>

Insert(w, payload) ==
    /\ pc[w] = "read"
    /\ now < MaxTime
    /\ inserted' = [inserted EXCEPT ![w] =
          << [id          |-> IdOf[now],
              recorded_at |-> now + Offset[w],
              payload     |-> payload,
              prev_hash   |-> prev_hash[w],
              hash        |-> compute_hash(IdOf[now], payload, prev_hash[w])] >>]
    /\ now' = now + 1
    /\ pc' = [pc EXCEPT ![w] = "inserted"]
    /\ UNCHANGED <<records, prev_hash, counted, checkpoints, faults, altered, lost>>

\* The lock goes with the transaction.
EndTransaction(w) ==
    /\ inserted' = [inserted EXCEPT ![w] = << >>]
    /\ prev_hash' = [prev_hash EXCEPT ![w] = GENESIS]
    /\ pc' = [pc EXCEPT ![w] = "idle"]

Commit(w) ==
    /\ pc[w] = "inserted"
    /\ records' = Append(records, inserted[w][1])
    /\ EndTransaction(w)
    /\ UNCHANGED <<now, counted, checkpoints, faults, altered, lost>>

\* An exception in the caller, a lost connection or a dead worker.
Rollback(w) ==
    /\ pc[w] # "idle"
    /\ EndTransaction(w)
    /\ UNCHANGED <<records, now, counted, checkpoints, faults, altered, lost>>

-----------------------------------------------------------------------------
(* write_checkpoint *)

Count ==
    /\ counted = 0
    /\ Len(checkpoints) < MaxCheckpoints
    /\ records # << >>                      \* an empty chain is not anchored
    /\ counted' = Len(records)
    /\ UNCHANGED <<chainVars, checkpoints, faults, altered, lost>>

\* last(), the signature and the INSERT.
Sign ==
    /\ counted # 0
    /\ records # << >>
    /\ checkpoints' = Append(checkpoints,
          [chain_length |-> counted, head_hash |-> Nth(Len(records)).hash])
    /\ counted' = 0
    /\ UNCHANGED <<chainVars, faults, altered, lost>>

-----------------------------------------------------------------------------
(* Damage from outside the application, which the chain exists to expose:  *)
(* "a restored backup, an altered replica, a file-level change".  It finds *)
(* no transaction running.                                                 *)

Quiescent == counted = 0 /\ \A w \in Workers : pc[w] = "idle"

Alter(i, payload) ==
    /\ faults < MaxFaults
    /\ Quiescent
    /\ payload # records[i].payload
    /\ records[i].id \notin altered
    /\ records' = [records EXCEPT ![i].payload = payload]
    /\ altered' = altered \cup {records[i].id}
    /\ faults' = faults + 1
    /\ UNCHANGED <<pc, prev_hash, inserted, now, counted, checkpoints, lost>>

\* Only the newest n rows go; the checkpoints, which auditors hold copies of,
\* stay.
Lose(n) ==
    /\ faults < MaxFaults
    /\ Quiescent
    /\ records' = SubSeq(records, 1, Len(records) - n)
    /\ faults' = faults + 1
    /\ lost' = lost \cup {records[i].id : i \in Len(records) - n + 1 .. Len(records)}
    /\ altered' = altered \cap {records[i].id : i \in 1 .. Len(records) - n}
    /\ UNCHANGED <<pc, prev_hash, inserted, now, counted, checkpoints>>

-----------------------------------------------------------------------------
Append_step(w) ==
    \/ Lock(w)
    \/ ReadTail(w)
    \/ \E payload \in Payloads : Insert(w, payload)
    \/ Commit(w)
    \/ Rollback(w)

Fault ==
    \/ \E i \in DOMAIN records, payload \in Payloads : Alter(i, payload)
    \/ \E n \in 1 .. Len(records) : Lose(n)

Next == (\E w \in Workers : Append_step(w)) \/ Count \/ Sign \/ Fault

Spec == Init /\ [][Next]_vars

-----------------------------------------------------------------------------
(* verify_chain: walk the records in order, check every link.              *)

expected_prev(n) == IF n = 1 THEN GENESIS ELSE Nth(n - 1).hash

\* Mutant: a record is checked against its link only, not against its content.
LinkOk_ignores_content(n) == Nth(n).prev_hash = expected_prev(n)

LinkOk(n) ==
    LET r == Nth(n)
    IN /\ r.prev_hash = expected_prev(n)
       /\ r.hash = compute_hash(r.id, r.payload, r.prev_hash)

verify_ok == \A n \in 1 .. Len(records) : LinkOk(n)

\* The position of the record verify_chain names when it is not ok.
broken_at ==
    CHOOSE n \in 1 .. Len(records) : ~ LinkOk(n) /\ \A m \in 1 .. n - 1 : LinkOk(m)

(* verify_anchoring, with a key configured and every signature its own.    *)

\* Mutant: only the length of the chain is compared with what was signed.
anchoring_of_length_only(c) == IF Len(records) < c.chain_length THEN "broken" ELSE "signed"

anchoring_of(c) ==
    IF Len(records) < c.chain_length THEN "broken"
    ELSE IF Nth(c.chain_length).hash # c.head_hash THEN "broken"
    ELSE "signed"

\* order_by("-chain_length").first(): any of the longest.
latest_checkpoints ==
    {c \in {checkpoints[i] : i \in DOMAIN checkpoints} :
        \A i \in DOMAIN checkpoints : checkpoints[i].chain_length <= c.chain_length}

verify_anchoring ==
    IF checkpoints = << >> THEN {"unanchored"} ELSE {anchoring_of(c) : c \in latest_checkpoints}

-----------------------------------------------------------------------------
(* Safety *)

\* A chain nobody has touched verifies, whatever interleaving, crash or
\* rollback produced it: the row lock leaves no fork and no gap.
NoFalseAlarm == (faults = 0) => verify_ok

\* verify_chain stops at the first altered record: a record changed in place is
\* found, and nothing before it is blamed.
AlterationLocated ==
    altered # {} =>
        /\ ~ verify_ok
        /\ Nth(broken_at).id \in altered
        /\ \A m \in 1 .. broken_at - 1 : Nth(m).id \notin altered

\* A checkpoint whose two reads no commit separated is true for good: the
\* record at its length keeps the hash that was signed.
QuietCheckpointHolds ==
    faults = 0 =>
        \A i \in DOMAIN checkpoints :
            checkpoints[i].chain_length = Len(checkpoints[i].head_hash) =>
                anchoring_of(checkpoints[i]) = "signed"

\* Losing rows a checkpoint covers shows for as long as that checkpoint is the
\* longest: verify_anchoring answers BROKEN however the chain has grown again
\* since, and whether or not a commit separated the checkpoint's two reads.
LossDetected ==
    ( /\ checkpoints # << >>
      /\ \A c \in latest_checkpoints : \E k \in DOMAIN c.head_hash : c.head_hash[k][1] \in lost ) =>
    verify_anchoring = {"broken"}

\* What an auditor reads: the entries in the order of verification.
Evidence == [n \in 1 .. Len(records) |-> <<Nth(n).id, Nth(n).payload>>]

Log == INSTANCE AuditLog WITH log <- Evidence, damaged <- (faults > 0)

\* The chain implements the append-only log.
ImplementsAuditLog == Log!Spec
=============================================================================
