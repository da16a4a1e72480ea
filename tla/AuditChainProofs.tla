-------------------------- MODULE AuditChainProofs --------------------------
(***************************************************************************)
(* What the audit chain promises for any number of workers, records,       *)
(* checkpoints and faults, as long as the hosts' clocks agree.             *)
(*                                                                         *)
(* Readers see the records ordered by (recorded_at, id), writers add them  *)
(* in commit order.  The row lock and the clock make the two orders one    *)
(* (InOrder); from then on the chain can be reasoned about in commit       *)
(* order, where each record links to the one before it (Linked).           *)
(***************************************************************************)
EXTENDS AuditChain, FiniteSetTheorems, SequenceTheorems, WellFoundedInduction, TLAPS

\* One transaction at a time is between the lock and its end.
OneWriter == \A v, w \in Workers : pc[v] # "idle" /\ pc[w] # "idle" => v = w

\* Commit order is the order of recorded_at, strictly, and the past.
InOrder ==
    /\ \A i, j \in 1 .. Len(records) : i < j => records[i].recorded_at < records[j].recorded_at
    /\ \A i \in 1 .. Len(records), w \in Workers : records[i].recorded_at < now + Offset[w]

\* The row that waits for its commit is newer than all that have committed.
PendingIsNewest ==
    \A w \in Workers : pc[w] = "inserted" =>
        /\ Len(inserted[w]) = 1
        /\ inserted[w][1].recorded_at < now + Offset[w]
        /\ \A i \in 1 .. Len(records) : records[i].recorded_at < inserted[w][1].recorded_at

OrderInv == TypeOK /\ OneWriter /\ InOrder /\ PendingIsNewest

-----------------------------------------------------------------------------
(* When the orders are one, the n-th record a reader sees is the n-th      *)
(* committed.                                                              *)

LEMMA RecordsTyped ==
  ASSUME TypeOK
  PROVE  /\ Len(records) \in Nat
         /\ DOMAIN records = 1 .. Len(records)
         /\ \A i \in 1 .. Len(records) : records[i] \in Rows /\ records[i].recorded_at \in Nat
  <1>1. Len(records) \in Nat /\ DOMAIN records = 1 .. Len(records)
    BY LenProperties DEF TypeOK
  <1>2. \A i \in 1 .. Len(records) : records[i] \in Rows
    BY ElementOfSeq DEF TypeOK
  <1>3. QED
    BY <1>1, <1>2 DEF Rows

LEMMA PositionIsIndex ==
  ASSUME TypeOK, InOrder, NEW i \in 1 .. Len(records)
  PROVE  Position(i) = i
  <1>1. DOMAIN records = 1 .. Len(records) /\ Len(records) \in Nat
    BY RecordsTyped
  <1>2. \A j \in 1 .. Len(records) : records[j] \in Rows
    BY RecordsTyped
  <1>3. \A j \in 1 .. Len(records) : Precedes(records[j], records[i]) <=> j < i
    <2> TAKE j \in 1 .. Len(records)
    <2>1. records[j].recorded_at \in Nat /\ records[i].recorded_at \in Nat
      BY <1>2 DEF Rows
    <2>2. CASE j < i
      BY <2>1, <2>2 DEF InOrder, Precedes
    <2>3. CASE i < j
      BY <2>1, <2>3 DEF InOrder, Precedes
    <2>4. CASE j = i
      <3>1. records[i].id \in Nat
        BY <1>2, IdsAssumption DEF Rows, Ids
      <3>2. QED
        BY <2>1, <2>4, <3>1 DEF Precedes
    <2>5. QED
      BY <1>1, <2>2, <2>3, <2>4
  <1>4. {j \in DOMAIN records : Precedes(records[j], records[i])} = 1 .. i - 1
    BY <1>1, <1>3
  <1>5. Cardinality(1 .. i - 1) = i - 1
    BY <1>1, FS_Interval
  <1>6. Position(i) = Cardinality(1 .. i - 1) + 1
    BY <1>4, Zenon DEF Position
  <1>7. QED
    BY <1>1, <1>5, <1>6

LEMMA NthIsIndexed ==
  ASSUME TypeOK, InOrder, NEW n \in 1 .. Len(records)
  PROVE  Nth(n) = records[n]
  <1>1. DOMAIN records = 1 .. Len(records) /\ Len(records) \in Nat
    BY RecordsTyped
  <1>2. \A i \in DOMAIN records : Position(i) = n <=> i = n
    BY <1>1, PositionIsIndex
  <1>3. (CHOOSE i \in DOMAIN records : Position(i) = n) = n
    BY <1>1, <1>2
  <1>4. QED
    BY <1>3 DEF Nth

-----------------------------------------------------------------------------
(* The order is invariant.                                                 *)

LEMMA HashTyped ==
  ASSUME NEW id \in Ids, NEW payload \in Payloads, NEW h \in Hashes
  PROVE  compute_hash(id, payload, h) \in Hashes
  BY AppendProperties DEF compute_hash, Hashes, Entry

LEMMA GenesisTyped == GENESIS \in Hashes
  BY EmptySeq DEF GENESIS, Hashes

\* What ReadTail and Sign take from the newest record.
LEMMA TailTyped ==
  ASSUME TypeOK, InOrder, records # << >>
  PROVE  /\ Len(records) \in Nat \ {0}
         /\ Nth(Len(records)) = records[Len(records)]
         /\ records[Len(records)] \in Rows
         /\ Nth(Len(records)).hash \in Hashes
  <1>1. Len(records) \in Nat \ {0}
    BY EmptySeq DEF TypeOK
  <1>2. Len(records) \in 1 .. Len(records)
    BY <1>1
  <1>3. Nth(Len(records)) = records[Len(records)]
    BY <1>2, NthIsIndexed
  <1>4. records[Len(records)] \in Rows
    BY <1>2, ElementOfSeq DEF TypeOK
  <1>5. QED
    BY <1>1, <1>3, <1>4 DEF Rows

\* The row Insert makes.
NewRow(w, payload) ==
    [id          |-> IdOf[now],
     recorded_at |-> now + Offset[w],
     payload     |-> payload,
     prev_hash   |-> prev_hash[w],
     hash        |-> compute_hash(IdOf[now], payload, prev_hash[w])]

LEMMA NewRowTyped ==
  ASSUME TypeOK, NEW w \in Workers, NEW payload \in Payloads, now < MaxTime
  PROVE  NewRow(w, payload) \in Rows
  <1>1. now \in 0 .. MaxTime - 1
    BY BoundsAssumption DEF TypeOK
  <1>2. IdOf[now] \in Ids
    BY <1>1 DEF Ids
  <1>3. prev_hash[w] \in Hashes
    BY DEF TypeOK
  <1>4. compute_hash(IdOf[now], payload, prev_hash[w]) \in Hashes
    BY <1>2, <1>3, HashTyped
  <1>5. now + Offset[w] \in Nat
    BY ClocksAssumption DEF TypeOK
  <1>6. QED
    BY <1>2, <1>3, <1>4, <1>5 DEF NewRow, Rows

LEMMA InitOrdered == Init => OrderInv
  <1> SUFFICES ASSUME Init PROVE OrderInv
    OBVIOUS
  <1>1. << >> \in Seq(Rows) /\ << >> \in Seq(Checkpoints) /\ Len(<< >>) = 0
    BY EmptySeq
  <1>2. TypeOK
    BY <1>1, GenesisTyped DEF Init, TypeOK
  <1>3. OneWriter /\ InOrder /\ PendingIsNewest
    BY <1>1 DEF Init, OneWriter, InOrder, PendingIsNewest
  <1>4. QED
    BY <1>2, <1>3 DEF OrderInv

LEMMA LockOrdered ==
  ASSUME OrderInv, NEW w \in Workers, Lock(w)
  PROVE  OrderInv'
  BY DEF OrderInv, TypeOK, OneWriter, InOrder, PendingIsNewest, Lock, LockFree

LEMMA ReadTailOrdered ==
  ASSUME OrderInv, NEW w \in Workers, ReadTail(w)
  PROVE  OrderInv'
  <1>1. (IF records = << >> THEN GENESIS ELSE Nth(Len(records)).hash) \in Hashes
    BY GenesisTyped, TailTyped DEF OrderInv
  <1>2. QED
    BY <1>1 DEF OrderInv, TypeOK, OneWriter, InOrder, PendingIsNewest, ReadTail

\* The clock moves on with the insert, so the new row is newer than the table
\* and older than whatever comes next, on any host.
LEMMA InsertOrdered ==
  ASSUME ClocksAgree, OrderInv, NEW w \in Workers, NEW payload \in Payloads, Insert(w, payload)
  PROVE  OrderInv'
  <1> DEFINE row == NewRow(w, payload)
  <1>1. row \in Rows
    BY NewRowTyped DEF OrderInv, Insert
  <1>2. inserted' = [inserted EXCEPT ![w] = << row >>]
    BY DEF Insert, NewRow
  <1>3. << row >> \in Seq(Rows) /\ Len(<< row >>) = 1 /\ << row >>[1] = row
    BY <1>1
  <1>4. row.recorded_at = now + Offset[w]
    BY DEF NewRow
  <1> HIDE DEF row
  <1>5. TypeOK'
    BY <1>2, <1>3 DEF OrderInv, TypeOK, Insert
  <1>6. OneWriter'
    BY DEF OrderInv, OneWriter, TypeOK, Insert
  <1>7. now' = now + 1 /\ records' = records /\ now \in Nat /\ Offset \in [Workers -> Nat]
    BY ClocksAssumption DEF OrderInv, TypeOK, Insert
  <1>8. \A i \in 1 .. Len(records) : records[i].recorded_at \in Nat
    BY RecordsTyped DEF OrderInv
  <1>9. InOrder'
    <2>1. \A i \in 1 .. Len(records), v \in Workers : records[i].recorded_at < now' + Offset[v]
      <3> SUFFICES ASSUME NEW i \in 1 .. Len(records), NEW v \in Workers
                   PROVE  records[i].recorded_at < now' + Offset[v]
        OBVIOUS
      <3>1. records[i].recorded_at < now + Offset[v]
        BY DEF OrderInv, InOrder
      <3>2. Offset[v] \in Nat /\ records[i].recorded_at \in Nat
        BY <1>7, <1>8
      <3>3. QED
        BY <1>7, <3>1, <3>2
    <2>2. \A i, j \in 1 .. Len(records) :
             i < j => records[i].recorded_at < records[j].recorded_at
      BY DEF OrderInv, InOrder
    <2>3. QED
      BY <1>7, <2>1, <2>2 DEF InOrder
  <1>10. PendingIsNewest'
    <2> SUFFICES ASSUME NEW v \in Workers, pc'[v] = "inserted"
                 PROVE  /\ Len(inserted'[v]) = 1
                        /\ inserted'[v][1].recorded_at < now' + Offset[v]
                        /\ \A i \in 1 .. Len(records') :
                               records'[i].recorded_at < inserted'[v][1].recorded_at
      BY DEF PendingIsNewest
    <2>1. v = w
      BY DEF OrderInv, OneWriter, TypeOK, Insert
    <2>2. inserted'[v] = << row >>
      BY <1>2, <2>1 DEF OrderInv, TypeOK
    <2>3. QED
      BY <1>3, <1>4, <1>7, <1>8, <2>1, <2>2 DEF OrderInv, InOrder
  <1>11. QED
    BY <1>5, <1>6, <1>9, <1>10 DEF OrderInv

LEMMA CommitOrdered ==
  ASSUME ClocksAgree, OrderInv, NEW w \in Workers, Commit(w)
  PROVE  OrderInv'
  <1> DEFINE row == inserted[w][1]
  <1>1. /\ row \in Rows
        /\ row.recorded_at \in Nat
        /\ row.recorded_at < now + Offset[w]
        /\ \A i \in 1 .. Len(records) : records[i].recorded_at < row.recorded_at
    <2>1. Len(inserted[w]) = 1 /\ inserted[w] \in Seq(Rows)
      BY DEF OrderInv, TypeOK, PendingIsNewest, Commit
    <2>2. row \in Rows
      BY <2>1, ElementOfSeq
    <2>3. QED
      BY <2>2 DEF OrderInv, PendingIsNewest, Commit, Rows
  <1>2. records' = Append(records, row)
    BY DEF Commit
  <1> HIDE DEF row
  <1>3. /\ records' \in Seq(Rows)
        /\ Len(records) \in Nat
        /\ Len(records') = Len(records) + 1
        /\ \A i \in 1 .. Len(records) : records'[i] = records[i]
        /\ records'[Len(records) + 1] = row
    BY <1>1, <1>2, AppendProperties, LenProperties DEF OrderInv, TypeOK
  <1>4. \A v \in Workers : pc'[v] = "idle"
    BY DEF Commit, EndTransaction, OrderInv, OneWriter, TypeOK
  <1>5. TypeOK'
    BY <1>3, GenesisTyped, EmptySeq DEF OrderInv, TypeOK, Commit, EndTransaction
  <1>6. OneWriter' /\ PendingIsNewest'
    BY <1>4 DEF OneWriter, PendingIsNewest
  <1>7. InOrder'
    <2>1. \A v \in Workers : row.recorded_at < now + Offset[v]
      BY <1>1 DEF ClocksAgree
    <2>2. now' = now
      BY DEF Commit
    <2>3. QED
      BY <1>1, <1>3, <2>1, <2>2 DEF OrderInv, InOrder
  <1>8. QED
    BY <1>5, <1>6, <1>7 DEF OrderInv

LEMMA RollbackOrdered ==
  ASSUME OrderInv, NEW w \in Workers, Rollback(w)
  PROVE  OrderInv'
  <1>1. TypeOK'
    BY GenesisTyped, EmptySeq DEF OrderInv, TypeOK, Rollback, EndTransaction
  <1>2. \A v \in Workers : pc'[v] = "idle"
    BY DEF Rollback, EndTransaction, OrderInv, OneWriter, TypeOK
  <1>3. OneWriter' /\ PendingIsNewest' /\ InOrder'
    BY <1>2 DEF OneWriter, PendingIsNewest, InOrder, OrderInv, Rollback
  <1>4. QED
    BY <1>1, <1>3 DEF OrderInv

LEMMA CheckpointOrdered ==
  ASSUME OrderInv, Count \/ Sign
  PROVE  OrderInv'
  <1>1. UNCHANGED chainVars => (OneWriter /\ InOrder /\ PendingIsNewest)'
    BY DEF chainVars, OrderInv, OneWriter, InOrder, PendingIsNewest
  <1>2. CASE Count
    <2>1. TypeOK'
      BY <1>2, RecordsTyped DEF OrderInv, TypeOK, Count, chainVars
    <2>2. QED
      BY <1>1, <1>2, <2>1 DEF OrderInv, Count
  <1>3. CASE Sign
    <2>1. [chain_length |-> counted, head_hash |-> Nth(Len(records)).hash] \in Checkpoints
      BY <1>3, TailTyped DEF OrderInv, TypeOK, Sign, Checkpoints
    <2>2. checkpoints' \in Seq(Checkpoints)
      BY <1>3, <2>1, AppendProperties DEF OrderInv, TypeOK, Sign
    <2>3. TypeOK'
      BY <1>3, <2>2 DEF OrderInv, TypeOK, Sign, chainVars
    <2>4. QED
      BY <1>1, <1>3, <2>3 DEF OrderInv, Sign
  <1>4. QED
    BY <1>2, <1>3

\* What an alteration in place leaves of a row.
LEMMA AlteredRow ==
  ASSUME TypeOK, NEW i \in DOMAIN records, NEW payload \in Payloads, Alter(i, payload)
  PROVE  /\ records' \in Seq(Rows)
         /\ Len(records') = Len(records)
         /\ \A j \in 1 .. Len(records) : j # i => records'[j] = records[j]
         /\ records'[i].id = records[i].id
         /\ records'[i].recorded_at = records[i].recorded_at
         /\ records'[i].prev_hash = records[i].prev_hash
         /\ records'[i].hash = records[i].hash
         /\ records'[i].payload = payload
  <1> DEFINE row == [records[i] EXCEPT !.payload = payload]
  <1>1. i \in 1 .. Len(records) /\ records[i] \in Rows
    BY RecordsTyped
  <1>2. /\ row \in Rows
        /\ row.id = records[i].id
        /\ row.recorded_at = records[i].recorded_at
        /\ row.prev_hash = records[i].prev_hash
        /\ row.hash = records[i].hash
        /\ row.payload = payload
    BY <1>1 DEF Rows
  <1>3. records' = [records EXCEPT ![i] = row]
    BY DEF Alter
  <1> HIDE DEF row
  <1>4. QED
    BY <1>1, <1>2, <1>3, ExceptSeq DEF TypeOK

\* What is left when the newest n rows are lost.
LEMMA RemainingRows ==
  ASSUME TypeOK, NEW n \in 1 .. Len(records), Lose(n)
  PROVE  /\ Len(records) - n \in Nat
         /\ records' \in Seq(Rows)
         /\ Len(records') = Len(records) - n
         /\ \A j \in 1 .. Len(records) - n : j \in 1 .. Len(records) /\ records'[j] = records[j]
  <1>1. Len(records) \in Nat /\ \A j \in 1 .. Len(records) : records[j] \in Rows
    BY RecordsTyped
  <1>2. Len(records) - n \in Nat
    BY <1>1
  <1> DEFINE m == Len(records) - n
  <1>3. \A j \in 1 .. m : j \in 1 .. Len(records) /\ records[j] \in Rows
    BY <1>1
  <1>4. records' = SubSeq(records, 1, m)
    BY DEF Lose
  <1> HIDE DEF m
  <1>5. /\ SubSeq(records, 1, m) \in Seq(Rows)
        /\ Len(SubSeq(records, 1, m)) = IF 1 <= m THEN m - 1 + 1 ELSE 0
        /\ \A j \in 1 .. m - 1 + 1 : SubSeq(records, 1, m)[j] = records[1 + j - 1]
    BY <1>2, <1>3, SubSeqProperties DEF m
  <1>6. m \in Nat
    BY <1>2 DEF m
  <1>7. Len(records') = m /\ \A j \in 1 .. m : records'[j] = records[j]
    BY <1>4, <1>5, <1>6
  <1>8. QED
    BY <1>2, <1>3, <1>4, <1>5, <1>7 DEF m

LEMMA AlterOrdered ==
  ASSUME OrderInv, NEW i \in DOMAIN records, NEW payload \in Payloads, Alter(i, payload)
  PROVE  OrderInv'
  <1>1. TypeOK
    BY DEF OrderInv
  <1>2. /\ records' \in Seq(Rows)
        /\ Len(records') = Len(records)
        /\ \A j \in 1 .. Len(records) : records'[j].recorded_at = records[j].recorded_at
    BY <1>1, AlteredRow
  <1>3. records[i].id \in Ids
    BY <1>1, RecordsTyped DEF Rows
  <1>4. TypeOK'
    BY <1>1, <1>2, <1>3 DEF TypeOK, Alter
  <1>5. \A v \in Workers : pc'[v] = "idle"
    BY DEF Alter, Quiescent
  <1>6. InOrder'
    BY <1>2 DEF OrderInv, InOrder, Alter
  <1>7. QED
    BY <1>4, <1>5, <1>6 DEF OrderInv, OneWriter, PendingIsNewest

LEMMA LoseOrdered ==
  ASSUME OrderInv, NEW n \in 1 .. Len(records), Lose(n)
  PROVE  OrderInv'
  <1>1. TypeOK
    BY DEF OrderInv
  <1>2. /\ records' \in Seq(Rows)
        /\ Len(records') = Len(records) - n
        /\ \A j \in 1 .. Len(records) - n : j \in 1 .. Len(records) /\ records'[j] = records[j]
    BY <1>1, RemainingRows
  <1>3. {records[i].id : i \in Len(records) - n + 1 .. Len(records)} \subseteq Ids
    <2> SUFFICES ASSUME NEW i \in Len(records) - n + 1 .. Len(records)
                 PROVE  records[i].id \in Ids
      OBVIOUS
    <2>1. i \in 1 .. Len(records)
      BY <1>1, RecordsTyped
    <2>2. QED
      BY <1>1, <2>1, RecordsTyped DEF Rows
  <1>4. TypeOK'
    <2>1. lost' \in SUBSET Ids /\ altered' \in SUBSET Ids /\ faults' \in Nat
      BY <1>1, <1>3 DEF TypeOK, Lose
    <2>2. QED
      BY <1>1, <1>2, <2>1 DEF TypeOK, Lose
  <1>5. \A v \in Workers : pc'[v] = "idle"
    BY DEF Lose, Quiescent
  <1>6. InOrder'
    BY <1>2 DEF OrderInv, InOrder, Lose
  <1>7. QED
    BY <1>4, <1>5, <1>6 DEF OrderInv, OneWriter, PendingIsNewest

LEMMA NextOrdered ==
  ASSUME ClocksAgree, OrderInv, [Next]_vars
  PROVE  OrderInv'
  <1>1. ASSUME NEW w \in Workers, Append_step(w) PROVE OrderInv'
    BY <1>1, LockOrdered, ReadTailOrdered, InsertOrdered, CommitOrdered, RollbackOrdered
    DEF Append_step
  <1>2. CASE Fault
    BY <1>2, AlterOrdered, LoseOrdered DEF Fault
  <1>3. CASE UNCHANGED vars
    BY <1>3 DEF vars, chainVars, OrderInv, TypeOK, OneWriter, InOrder, PendingIsNewest
  <1>4. QED
    BY <1>1, <1>2, <1>3, CheckpointOrdered DEF Next

\* Under agreeing clocks every reachable state has its types, one writer, and
\* records that lie in the order in which readers see them.
THEOREM OrderInvariant ==
  ASSUME ClocksAgree
  PROVE  Spec => []OrderInv
  <1>1. OrderInv /\ [Next]_vars => OrderInv'
    BY NextOrdered
  <1>2. QED
    BY InitOrdered, <1>1, PTL DEF Spec

\* The variables have their types.
THEOREM TypeCorrect ==
  ASSUME ClocksAgree
  PROVE  Spec => []TypeOK
  <1>1. OrderInv => TypeOK
    BY DEF OrderInv
  <1>2. QED
    BY OrderInvariant, <1>1, PTL

-----------------------------------------------------------------------------
(* The links.                                                              *)

Genuine(r) == r.hash = compute_hash(r.id, r.payload, r.prev_hash)

\* A row carries the time and the id of one insert.
Stamped(r) ==
    \E w \in Workers : \E n \in 0 .. MaxTime - 1 : r.recorded_at = n + Offset[w] /\ r.id = IdOf[n]

TailHash == IF records = << >> THEN GENESIS ELSE records[Len(records)].hash

Links ==
    \A i \in 1 .. Len(records) :
        /\ Stamped(records[i])
        /\ records[i].prev_hash = IF i = 1 THEN GENESIS ELSE records[i - 1].hash

\* A writer works on the tail as it is: nobody else can have moved it.
WriterHasTail ==
    \A w \in Workers :
        /\ pc[w] = "read" => prev_hash[w] = TailHash
        /\ pc[w] = "inserted" => /\ Stamped(inserted[w][1])
                                 /\ Genuine(inserted[w][1])
                                 /\ inserted[w][1].prev_hash = TailHash

\* Exactly the rows altered in place do not have the hash of their content.
Authentic ==
    /\ \A i \in 1 .. Len(records) : Genuine(records[i]) <=> records[i].id \notin altered
    /\ altered \subseteq {records[i].id : i \in 1 .. Len(records)}
    /\ faults = 0 => altered = {}

ChainInv == OrderInv /\ Links /\ WriterHasTail /\ Authentic

LEMMA DistinctIds ==
  ASSUME ClocksAgree, NEW r, NEW s, Stamped(r), Stamped(s), r.recorded_at # s.recorded_at
  PROVE  r.id # s.id
  <1>1. PICK v \in Workers, m \in 0 .. MaxTime - 1 : r.recorded_at = m + Offset[v] /\ r.id = IdOf[m]
    BY DEF Stamped
  <1>2. PICK w \in Workers, n \in 0 .. MaxTime - 1 : s.recorded_at = n + Offset[w] /\ s.id = IdOf[n]
    BY DEF Stamped
  <1>3. Offset[v] = Offset[w]
    BY DEF ClocksAgree
  <1>4. m # n
    BY <1>1, <1>2, <1>3
  <1>5. QED
    BY <1>1, <1>2, <1>4, IdsAssumption

LEMMA InitLinked == Init => ChainInv
  <1>1. Len(<< >>) = 0
    BY EmptySeq
  <1>2. QED
    BY <1>1, InitOrdered DEF Init, ChainInv, Links, WriterHasTail, Authentic

\* Steps that touch neither the table nor what a writer holds.
LEMMA QuietLinked ==
  ASSUME ChainInv, OrderInv', UNCHANGED <<records, altered, faults, inserted, prev_hash>>,
         \A w \in Workers : pc'[w] \in {"read", "inserted"} => pc'[w] = pc[w]
  PROVE  ChainInv'
  BY DEF ChainInv, Links, WriterHasTail, Authentic, Stamped, Genuine, TailHash

LEMMA ReadTailLinked ==
  ASSUME ChainInv, OrderInv', NEW w \in Workers, ReadTail(w)
  PROVE  ChainInv'
  <1>1. prev_hash'[w] = TailHash
    <2>1. records # << >> => Nth(Len(records)) = records[Len(records)]
      BY TailTyped DEF ChainInv, OrderInv
    <2>2. QED
      BY <2>1 DEF ReadTail, TailHash, ChainInv, OrderInv, TypeOK
  <1>2. (Links /\ Authentic)'
    BY DEF ChainInv, Links, Authentic, ReadTail, Stamped, Genuine
  <1>3. WriterHasTail'
    <2>1. TailHash' = TailHash
      BY DEF TailHash, ReadTail
    <2>2. \A v \in Workers : pc'[v] \in {"read", "inserted"} => v = w
      BY DEF ReadTail, ChainInv, OrderInv, OneWriter, TypeOK
    <2>3. pc'[w] = "read"
      BY DEF ReadTail, ChainInv, OrderInv, TypeOK
    <2>4. QED
      BY <1>1, <2>1, <2>2, <2>3 DEF WriterHasTail
  <1>4. QED
    BY <1>2, <1>3 DEF ChainInv

LEMMA InsertLinked ==
  ASSUME ChainInv, OrderInv', NEW w \in Workers, NEW payload \in Payloads, Insert(w, payload)
  PROVE  ChainInv'
  <1> DEFINE row == NewRow(w, payload)
  <1>1. inserted'[w] = << row >> /\ << row >>[1] = row
    BY DEF Insert, NewRow, ChainInv, OrderInv, TypeOK
  <1>2. Stamped(row)
    <2>1. now \in 0 .. MaxTime - 1
      BY BoundsAssumption DEF Insert, ChainInv, OrderInv, TypeOK
    <2>2. row.recorded_at = now + Offset[w] /\ row.id = IdOf[now]
      BY DEF NewRow
    <2>3. QED
      BY <2>1, <2>2 DEF Stamped
  <1>3. Genuine(row) /\ row.prev_hash = TailHash
    BY DEF NewRow, Genuine, Insert, ChainInv, WriterHasTail
  <1> HIDE DEF row
  <1>4. (Links /\ Authentic)'
    <2>1. UNCHANGED <<records, altered, faults>>
      BY DEF Insert
    <2>2. Links'
      BY <2>1 DEF ChainInv, Links, Stamped
    <2>3. Authentic'
      BY <2>1 DEF ChainInv, Authentic, Genuine
    <2>4. QED
      BY <2>2, <2>3
  <1>5. WriterHasTail'
    <2>1. TailHash' = TailHash
      BY DEF TailHash, Insert
    <2>2. \A v \in Workers : pc'[v] \in {"read", "inserted"} => v = w
      BY DEF Insert, ChainInv, OrderInv, OneWriter, TypeOK
    <2>3. pc'[w] = "inserted"
      BY DEF Insert, ChainInv, OrderInv, TypeOK
    <2>4. QED
      BY <1>1, <1>2, <1>3, <2>1, <2>2, <2>3 DEF WriterHasTail, Stamped, Genuine
  <1>6. QED
    BY <1>4, <1>5 DEF ChainInv

\* The committed row becomes the tail: it links to the tail there was, and no
\* alteration concerns it.
LEMMA CommitLinked ==
  ASSUME ClocksAgree, ChainInv, OrderInv', NEW w \in Workers, Commit(w)
  PROVE  ChainInv'
  <1> DEFINE row == inserted[w][1]
  <1>1. /\ row \in Rows
        /\ \A i \in 1 .. Len(records) : records[i].recorded_at < row.recorded_at
        /\ Stamped(row) /\ Genuine(row) /\ row.prev_hash = TailHash
    <2>1. Len(inserted[w]) = 1 /\ inserted[w] \in Seq(Rows)
      BY DEF ChainInv, OrderInv, TypeOK, PendingIsNewest, Commit
    <2>2. row \in Rows
      BY <2>1, ElementOfSeq
    <2>3. QED
      BY <2>2 DEF ChainInv, OrderInv, PendingIsNewest, WriterHasTail, Commit
  <1>2. records' = Append(records, row)
    BY DEF Commit
  <1> HIDE DEF row
  <1>3. /\ Len(records) \in Nat
        /\ Len(records') = Len(records) + 1
        /\ \A i \in 1 .. Len(records) : records'[i] = records[i]
        /\ records'[Len(records) + 1] = row
    BY <1>1, <1>2, AppendProperties, LenProperties DEF ChainInv, OrderInv, TypeOK
  <1>4. TailHash = IF Len(records) = 0 THEN GENESIS ELSE records[Len(records)].hash
    BY EmptySeq DEF TailHash, ChainInv, OrderInv, TypeOK
  <1>5. Links'
    <2>1. \A i \in 1 .. Len(records) + 1 :
             /\ Stamped(records'[i])
             /\ records'[i].prev_hash = IF i = 1 THEN GENESIS ELSE records'[i - 1].hash
      <3> TAKE i \in 1 .. Len(records) + 1
      <3>1. CASE i = Len(records) + 1
        BY <1>1, <1>3, <1>4, <3>1
      <3>2. CASE i \in 1 .. Len(records)
        <4>1. records'[i] = records[i] /\ (i # 1 => records'[i - 1] = records[i - 1])
          BY <1>3, <3>2
        <4>2. QED
          BY <3>2, <4>1 DEF ChainInv, Links
      <3>3. QED
        BY <1>3, <3>1, <3>2
    <2>2. QED
      BY <1>3, <2>1 DEF Links, Stamped
  <1>6. row.id \notin altered
    <2>1. \A i \in 1 .. Len(records) : records[i].id # row.id
      <3> TAKE i \in 1 .. Len(records)
      <3>1. records[i].recorded_at # row.recorded_at
        BY <1>1, RecordsTyped DEF ChainInv, OrderInv, Rows
      <3>2. Stamped(records[i])
        BY DEF ChainInv, Links
      <3>3. QED
        BY <1>1, <3>1, <3>2, DistinctIds
    <2>2. QED
      BY <2>1 DEF ChainInv, Authentic
  <1>7. Authentic'
    <2>1. altered' = altered /\ faults' = faults
      BY DEF Commit
    <2>2. \A i \in 1 .. Len(records') : Genuine(records'[i]) <=> records'[i].id \notin altered
      BY <1>1, <1>3, <1>6 DEF ChainInv, Authentic
    <2>3. altered \subseteq {records'[i].id : i \in 1 .. Len(records')}
      BY <1>3 DEF ChainInv, Authentic
    <2>4. QED
      BY <2>1, <2>2, <2>3 DEF ChainInv, Authentic, Genuine
  <1>8. \A v \in Workers : pc'[v] = "idle"
    BY DEF Commit, EndTransaction, ChainInv, OrderInv, OneWriter, TypeOK
  <1>9. WriterHasTail'
    BY <1>8 DEF WriterHasTail
  <1>10. QED
    BY <1>5, <1>7, <1>9 DEF ChainInv

LEMMA RollbackLinked ==
  ASSUME ChainInv, OrderInv', NEW w \in Workers, Rollback(w)
  PROVE  ChainInv'
  <1>1. \A v \in Workers : pc'[v] = "idle"
    BY DEF Rollback, EndTransaction, ChainInv, OrderInv, OneWriter, TypeOK
  <1>2. QED
    BY <1>1 DEF Rollback, ChainInv, Links, WriterHasTail, Authentic, Stamped, Genuine

\* A hash determines the payload it was computed from.
LEMMA HashBindsPayload ==
  ASSUME NEW id \in Ids, NEW h \in Hashes, NEW p \in Payloads, NEW q \in Payloads, p # q
  PROVE  compute_hash(id, p, h) # compute_hash(id, q, h)
  <1>1. <<id, p>> \in Entry /\ <<id, q>> \in Entry /\ <<id, p>> # <<id, q>>
    BY DEF Entry
  <1>2. QED
    BY <1>1, AppendInjective DEF compute_hash, Hashes

LEMMA AlterLinked ==
  ASSUME ClocksAgree, ChainInv, OrderInv',
         NEW i \in DOMAIN records, NEW payload \in Payloads, Alter(i, payload)
  PROVE  ChainInv'
  <1>1. TypeOK /\ i \in 1 .. Len(records) /\ records[i] \in Rows
    BY RecordsTyped DEF ChainInv, OrderInv
  <1>2. /\ Len(records') = Len(records)
        /\ \A j \in 1 .. Len(records) : j # i => records'[j] = records[j]
        /\ records'[i].id = records[i].id
        /\ records'[i].recorded_at = records[i].recorded_at
        /\ records'[i].prev_hash = records[i].prev_hash
        /\ records'[i].hash = records[i].hash
        /\ records'[i].payload = payload
    BY <1>1, AlteredRow
  <1>3. \A j \in 1 .. Len(records) :
           /\ records'[j].id = records[j].id
           /\ records'[j].recorded_at = records[j].recorded_at
           /\ records'[j].prev_hash = records[j].prev_hash
           /\ records'[j].hash = records[j].hash
    BY <1>2
  <1>4. Links'
    <2> SUFFICES ASSUME NEW j \in 1 .. Len(records)
                 PROVE  /\ Stamped(records[j])'
                        /\ records'[j].prev_hash =
                             IF j = 1 THEN GENESIS ELSE records'[j - 1].hash
      BY <1>2 DEF Links
    <2>1. /\ Stamped(records[j])
          /\ records[j].prev_hash = IF j = 1 THEN GENESIS ELSE records[j - 1].hash
      BY DEF ChainInv, Links
    <2>2. Stamped(records[j])'
      BY <1>3, <2>1 DEF Stamped
    <2>3. CASE j = 1
      BY <1>3, <2>1, <2>2, <2>3
    <2>4. CASE j # 1
      <3>1. j - 1 \in 1 .. Len(records)
        BY <1>1, <2>4, RecordsTyped
      <3>2. records'[j - 1].hash = records[j - 1].hash
        BY <1>3, <3>1
      <3>3. QED
        BY <1>3, <2>1, <2>2, <2>4, <3>2
    <2>5. QED
      BY <2>3, <2>4
  <1>5. ~ Genuine(records'[i])
    <2>1. Genuine(records[i])
      BY <1>1 DEF ChainInv, Authentic, Alter
    <2>2. compute_hash(records[i].id, records[i].payload, records[i].prev_hash)
            # compute_hash(records[i].id, payload, records[i].prev_hash)
      BY <1>1, HashBindsPayload DEF Rows, Alter
    <2>3. QED
      BY <1>2, <2>1, <2>2 DEF Genuine
  <1>6. \A j \in 1 .. Len(records) : j # i => records[j].id # records[i].id
    <2> SUFFICES ASSUME NEW j \in 1 .. Len(records), j # i PROVE records[j].id # records[i].id
      OBVIOUS
    <2>1. records[j].recorded_at # records[i].recorded_at
      BY <1>1, RecordsTyped DEF ChainInv, OrderInv, InOrder
    <2>2. Stamped(records[j]) /\ Stamped(records[i])
      BY <1>1 DEF ChainInv, Links
    <2>3. QED
      BY <2>1, <2>2, DistinctIds
  <1>7. Authentic'
    <2>1. altered' = altered \cup {records[i].id} /\ faults' # 0
      BY <1>1 DEF Alter, TypeOK
    <2>2. \A j \in 1 .. Len(records') : Genuine(records'[j]) <=> records'[j].id \notin altered'
      BY <1>2, <1>5, <1>6, <2>1 DEF ChainInv, Authentic
    <2>3. altered' \subseteq {records'[j].id : j \in 1 .. Len(records')}
      BY <1>1, <1>2, <1>3, <2>1 DEF ChainInv, Authentic
    <2>4. QED
      BY <2>1, <2>2, <2>3 DEF Authentic, Genuine
  <1>8. WriterHasTail'
    BY DEF WriterHasTail, Alter, Quiescent
  <1>9. QED
    BY <1>4, <1>7, <1>8 DEF ChainInv

LEMMA LoseLinked ==
  ASSUME ChainInv, OrderInv', NEW n \in 1 .. Len(records), Lose(n)
  PROVE  ChainInv'
  <1> DEFINE m == Len(records) - n
  <1>1. /\ m \in Nat
        /\ Len(records') = m
        /\ \A j \in 1 .. m : j \in 1 .. Len(records) /\ records'[j] = records[j]
    BY RemainingRows DEF ChainInv, OrderInv
  <1>2. altered' = altered \cap {records[i].id : i \in 1 .. m} /\ faults' # 0
    BY DEF Lose, ChainInv, OrderInv, TypeOK
  <1> HIDE DEF m
  <1>3. Links'
    <2>1. \A j \in 1 .. m :
             /\ Stamped(records'[j])
             /\ records'[j].prev_hash = IF j = 1 THEN GENESIS ELSE records'[j - 1].hash
      <3> TAKE j \in 1 .. m
      <3>1. records'[j] = records[j] /\ (j # 1 => records'[j - 1] = records[j - 1])
        BY <1>1
      <3>2. j \in 1 .. Len(records)
        BY <1>1
      <3>3. QED
        BY <3>1, <3>2 DEF ChainInv, Links
    <2>2. QED
      BY <1>1, <2>1 DEF Links, Stamped
  <1>4. Authentic'
    <2>1. \A j \in 1 .. m : Genuine(records'[j]) <=> records'[j].id \notin altered'
      BY <1>1, <1>2 DEF ChainInv, Authentic
    <2>2. altered' \subseteq {records'[j].id : j \in 1 .. m}
      BY <1>1, <1>2
    <2>3. QED
      BY <1>1, <1>2, <2>1, <2>2 DEF Authentic, Genuine
  <1>5. WriterHasTail'
    BY DEF WriterHasTail, Lose, Quiescent
  <1>6. QED
    BY <1>3, <1>4, <1>5 DEF ChainInv

LEMMA NextLinked ==
  ASSUME ClocksAgree, ChainInv, [Next]_vars
  PROVE  ChainInv'
  <1>1. OrderInv'
    BY NextOrdered DEF ChainInv
  <1>2. ASSUME NEW w \in Workers, Lock(w) PROVE ChainInv'
    BY <1>1, <1>2, QuietLinked DEF Lock, ChainInv, OrderInv, TypeOK
  <1>3. ASSUME NEW w \in Workers, Append_step(w) PROVE ChainInv'
    BY <1>1, <1>2, <1>3, ReadTailLinked, InsertLinked, CommitLinked, RollbackLinked
    DEF Append_step
  <1>4. CASE Count \/ Sign
    BY <1>1, <1>4, QuietLinked DEF Count, Sign, chainVars
  <1>5. CASE Fault
    BY <1>1, <1>5, AlterLinked, LoseLinked DEF Fault
  <1>6. CASE UNCHANGED vars
    BY <1>1, <1>6, QuietLinked DEF vars, chainVars
  <1>7. QED
    BY <1>3, <1>4, <1>5, <1>6 DEF Next

\* Under agreeing clocks the chain is linked in commit order, and exactly the
\* rows somebody altered do not have the hash of their content.
THEOREM ChainInvariant ==
  ASSUME ClocksAgree
  PROVE  Spec => []ChainInv
  <1>1. ChainInv /\ [Next]_vars => ChainInv'
    BY NextLinked
  <1>2. QED
    BY InitLinked, <1>1, PTL DEF Spec

-----------------------------------------------------------------------------
(* What verify_chain reports.                                              *)

\* A record passes verify_chain exactly when nobody has altered it.
LEMMA LinkOkUnlessAltered ==
  ASSUME ChainInv, NEW n \in 1 .. Len(records)
  PROVE  LinkOk(n) <=> records[n].id \notin altered
  <1>1. TypeOK /\ InOrder
    BY DEF ChainInv, OrderInv
  <1>2. Nth(n) = records[n]
    BY <1>1, NthIsIndexed
  <1>3. expected_prev(n) = IF n = 1 THEN GENESIS ELSE records[n - 1].hash
    <2>1. n # 1 => n - 1 \in 1 .. Len(records)
      BY <1>1, RecordsTyped
    <2>2. n # 1 => Nth(n - 1) = records[n - 1]
      BY <1>1, <2>1, NthIsIndexed
    <2>3. QED
      BY <2>2 DEF expected_prev
  <1>4. records[n].prev_hash = expected_prev(n)
    BY <1>3 DEF ChainInv, Links
  <1>5. LinkOk(n) <=> Genuine(records[n])
    BY <1>2, <1>4 DEF LinkOk, Genuine
  <1>6. QED
    BY <1>5 DEF ChainInv, Authentic

\* No interleaving of appends, commits, rollbacks and crashes leaves a chain
\* that verify_chain rejects.
THEOREM NoFalseAlarms ==
  ASSUME ClocksAgree
  PROVE  Spec => []NoFalseAlarm
  <1>1. ChainInv => NoFalseAlarm
    BY LinkOkUnlessAltered DEF NoFalseAlarm, verify_ok, ChainInv, Authentic
  <1>2. QED
    BY ChainInvariant, <1>1, PTL

LEMMA LeastExists ==
  ASSUME NEW S \in SUBSET Nat, S # {}
  PROVE  \E n \in S : \A m \in S : n <= m
  <1>1. PICK n \in S : \A m \in S : ~ (<<m, n>> \in OpToRel(<, Nat))
    BY NatLessThanWellFounded, WFMin
  <1>2. \A m \in S : ~ (m < n)
    BY <1>1 DEF OpToRel
  <1>3. QED
    BY <1>2

\* verify_chain finds every in-place alteration and names the first one.
THEOREM AlterationsLocated ==
  ASSUME ClocksAgree
  PROVE  Spec => []AlterationLocated
  <1>1. ASSUME ChainInv, altered # {}
        PROVE  /\ ~ verify_ok
               /\ Nth(broken_at).id \in altered
               /\ \A m \in 1 .. broken_at - 1 : Nth(m).id \notin altered
    <2>1. TypeOK /\ InOrder /\ Len(records) \in Nat
      BY <1>1, RecordsTyped DEF ChainInv, OrderInv
    <2> DEFINE Bad == {n \in 1 .. Len(records) : ~ LinkOk(n)}
    <2>2. PICK k \in 1 .. Len(records) : records[k].id \in altered
      BY <1>1 DEF ChainInv, Authentic
    <2>3. k \in Bad
      BY <1>1, <2>2, LinkOkUnlessAltered
    <2>4. PICK n \in Bad : \A m \in Bad : n <= m
      <3>1. Bad \in SUBSET Nat
        BY <2>1
      <3>2. Bad # {}
        BY <2>3
      <3> HIDE DEF Bad
      <3>3. QED
        BY <3>1, <3>2, LeastExists
    <2>5. n \in 1 .. Len(records) /\ ~ LinkOk(n) /\ \A m \in 1 .. n - 1 : LinkOk(m)
      BY <2>1, <2>4
    <2>6. /\ broken_at \in 1 .. Len(records)
          /\ ~ LinkOk(broken_at)
          /\ \A m \in 1 .. broken_at - 1 : LinkOk(m)
      <3> DEFINE First(b) == ~ LinkOk(b) /\ \A m \in 1 .. b - 1 : LinkOk(m)
      <3>1. \E b \in 1 .. Len(records) : First(b)
        BY <2>5
      <3>2. broken_at = CHOOSE b \in 1 .. Len(records) : First(b)
        BY DEF broken_at
      <3> HIDE DEF First
      <3>3. broken_at \in 1 .. Len(records) /\ First(broken_at)
        BY <3>1, <3>2
      <3>4. QED
        BY <3>3 DEF First
    <2> HIDE DEF Bad
    <2>7. \A m \in 1 .. Len(records) : Nth(m) = records[m]
      BY <2>1, NthIsIndexed
    <2>8. \A m \in 1 .. broken_at - 1 : m \in 1 .. Len(records)
      BY <2>1, <2>6
    <2>9. QED
      BY <1>1, <2>6, <2>7, <2>8, LinkOkUnlessAltered DEF verify_ok
  <1>2. ChainInv => AlterationLocated
    BY <1>1 DEF AlterationLocated
  <1>3. QED
    BY ChainInvariant, <1>2, PTL
-----------------------------------------------------------------------------
(* What the checkpoints anchor.                                            *)

\* A hash knows how many records it follows: the hash of the n-th record is
\* the n-th of its chain.
Depth == \A i \in 1 .. Len(records) : Len(records[i].hash) = i

\* Every checkpoint was signed over the hash of a record, and while nothing has
\* been damaged that record is still where it was.
Anchored ==
    \A i \in 1 .. Len(checkpoints) :
        /\ checkpoints[i].chain_length >= 1 /\ Len(checkpoints[i].head_hash) >= 1
        /\ faults = 0 =>
              /\ Len(checkpoints[i].head_hash) \in 1 .. Len(records)
              /\ records[Len(checkpoints[i].head_hash)].hash = checkpoints[i].head_hash

AnchorInv == ChainInv /\ Depth /\ Anchored

LEMMA CheckpointsTyped ==
  ASSUME TypeOK
  PROVE  /\ Len(checkpoints) \in Nat
         /\ DOMAIN checkpoints = 1 .. Len(checkpoints)
         /\ \A i \in 1 .. Len(checkpoints) :
               /\ checkpoints[i] \in Checkpoints
               /\ checkpoints[i].chain_length \in Nat
               /\ checkpoints[i].head_hash \in Hashes
               /\ Len(checkpoints[i].head_hash) \in Nat
  <1>1. Len(checkpoints) \in Nat /\ DOMAIN checkpoints = 1 .. Len(checkpoints)
    BY LenProperties DEF TypeOK
  <1>2. \A i \in 1 .. Len(checkpoints) : checkpoints[i] \in Checkpoints
    BY ElementOfSeq DEF TypeOK
  <1>3. \A i \in 1 .. Len(checkpoints) :
           checkpoints[i].chain_length \in Nat /\ checkpoints[i].head_hash \in Hashes
    BY <1>2 DEF Checkpoints
  <1>4. \A h \in Hashes : Len(h) \in Nat
    BY LenProperties DEF Hashes
  <1>5. QED
    BY <1>1, <1>2, <1>3, <1>4

\* The row a writer commits is one deeper than the tail it read.
LEMMA CommitDeepens ==
  ASSUME ChainInv, Depth, NEW w \in Workers, Commit(w)
  PROVE  /\ Len(records) \in Nat
         /\ Len(records') = Len(records) + 1
         /\ \A i \in 1 .. Len(records) : records'[i] = records[i]
         /\ records'[Len(records) + 1] = inserted[w][1]
         /\ inserted[w][1] \in Rows
         /\ Len(inserted[w][1].hash) = Len(records) + 1
  <1>1. PICK row : row = inserted[w][1]
    OBVIOUS
  <1>2. row \in Rows
    <2>1. Len(inserted[w]) = 1 /\ inserted[w] \in Seq(Rows)
      BY DEF ChainInv, OrderInv, TypeOK, PendingIsNewest, Commit
    <2>2. QED
      BY <1>1, <2>1, ElementOfSeq
  <1>3. Genuine(row) /\ row.prev_hash = TailHash
    BY <1>1 DEF ChainInv, WriterHasTail, Commit
  <1>4. /\ Len(records) \in Nat
        /\ Len(records') = Len(records) + 1
        /\ \A i \in 1 .. Len(records) : records'[i] = records[i]
        /\ records'[Len(records) + 1] = row
    BY <1>1, <1>2, AppendProperties, LenProperties DEF ChainInv, OrderInv, TypeOK, Commit
  <1>5. Len(TailHash) = Len(records)
    <2>1. CASE records = << >>
      BY <2>1, EmptySeq DEF TailHash, GENESIS
    <2>2. CASE records # << >>
      <3>1. Len(records) \in 1 .. Len(records)
        BY <2>2, <1>4, EmptySeq DEF ChainInv, OrderInv, TypeOK
      <3>2. QED
        BY <2>2, <3>1 DEF TailHash, Depth
    <2>3. QED
      BY <2>1, <2>2
  <1>6. Len(row.hash) = Len(row.prev_hash) + 1
    <2>1. row.prev_hash \in Seq(Entry) /\ <<row.id, row.payload>> \in Entry
      BY <1>2 DEF Rows, Hashes, Entry
    <2>2. row.hash = Append(row.prev_hash, <<row.id, row.payload>>)
      BY <1>3 DEF Genuine, compute_hash
    <2>3. QED
      BY <2>1, <2>2, AppendProperties
  <1>7. QED
    BY <1>1, <1>2, <1>3, <1>4, <1>5, <1>6

LEMMA CommitAnchored ==
  ASSUME AnchorInv, ChainInv', NEW w \in Workers, Commit(w)
  PROVE  AnchorInv'
  <1>1. PICK row : row = inserted[w][1]
    OBVIOUS
  <1>2. /\ Len(records) \in Nat
        /\ Len(records') = Len(records) + 1
        /\ \A i \in 1 .. Len(records) : records'[i] = records[i]
        /\ records'[Len(records) + 1] = row
        /\ Len(row.hash) = Len(records) + 1
    BY <1>1, CommitDeepens DEF AnchorInv
  <1>3. checkpoints' = checkpoints /\ faults' = faults
    BY DEF Commit
  <1>4. Depth'
    <2> SUFFICES ASSUME NEW i \in 1 .. Len(records) + 1
                 PROVE  Len(records'[i].hash) = i
      BY <1>2 DEF Depth
    <2>1. i \in 1 .. Len(records) \/ i = Len(records) + 1
      BY <1>2
    <2>2. QED
      BY <1>2, <2>1 DEF AnchorInv, Depth
  <1>5. Anchored'
    <2> SUFFICES ASSUME NEW i \in 1 .. Len(checkpoints)
                 PROVE  /\ checkpoints[i].chain_length >= 1 /\ Len(checkpoints[i].head_hash) >= 1
                        /\ faults = 0 =>
                              /\ Len(checkpoints[i].head_hash) \in 1 .. Len(records')
                              /\ records'[Len(checkpoints[i].head_hash)].hash
                                    = checkpoints[i].head_hash
      BY <1>3 DEF Anchored
    <2>1. PICK h : h = checkpoints[i].head_hash
      OBVIOUS
    <2>2. /\ checkpoints[i].chain_length >= 1 /\ Len(h) >= 1
          /\ faults = 0 => Len(h) \in 1 .. Len(records) /\ records[Len(h)].hash = h
      BY <2>1 DEF AnchorInv, Anchored
    <2>3. QED
      BY <1>2, <2>1, <2>2
  <1>6. QED
    BY <1>4, <1>5 DEF AnchorInv
\* The signature goes over the newest record, as every reader sees it.
LEMMA SignAnchored ==
  ASSUME AnchorInv, ChainInv', Sign
  PROVE  AnchorInv'
  <1>1. TypeOK /\ InOrder /\ records # << >>
    BY DEF AnchorInv, ChainInv, OrderInv, Sign
  <1>2. PICK h : h = Nth(Len(records)).hash
    OBVIOUS
  <1>3. /\ Len(records) \in Nat \ {0}
        /\ h = records[Len(records)].hash
        /\ h \in Hashes
    BY <1>1, <1>2, TailTyped
  <1>4. Len(h) = Len(records)
    <2>1. Len(records) \in 1 .. Len(records)
      BY <1>3
    <2>2. QED
      BY <1>3, <2>1 DEF AnchorInv, Depth
  <1>5. PICK c : c = [chain_length |-> counted, head_hash |-> h]
    OBVIOUS
  <1>6. c \in Checkpoints /\ c.head_hash = h /\ c.chain_length >= 1
    BY <1>1, <1>3, <1>5 DEF Checkpoints, TypeOK, Sign
  <1>7. checkpoints' = Append(checkpoints, c) /\ records' = records /\ faults' = faults
    BY <1>2, <1>5 DEF Sign, chainVars
  <1>8. /\ Len(checkpoints) \in Nat
        /\ Len(checkpoints') = Len(checkpoints) + 1
        /\ \A i \in 1 .. Len(checkpoints) : checkpoints'[i] = checkpoints[i]
        /\ checkpoints'[Len(checkpoints) + 1] = c
    BY <1>1, <1>6, <1>7, AppendProperties, LenProperties DEF TypeOK
  <1>9. Anchored'
    <2> SUFFICES ASSUME NEW i \in 1 .. Len(checkpoints) + 1
                 PROVE  /\ checkpoints'[i].chain_length >= 1 /\ Len(checkpoints'[i].head_hash) >= 1
                        /\ faults = 0 =>
                              /\ Len(checkpoints'[i].head_hash) \in 1 .. Len(records)
                              /\ records[Len(checkpoints'[i].head_hash)].hash
                                    = checkpoints'[i].head_hash
      BY <1>7, <1>8 DEF Anchored
    <2>1. CASE i = Len(checkpoints) + 1
      BY <1>3, <1>4, <1>6, <1>8, <2>1
    <2>2. CASE i \in 1 .. Len(checkpoints)
      BY <1>8, <2>2 DEF AnchorInv, Anchored
    <2>3. QED
      BY <1>8, <2>1, <2>2
  <1>10. QED
    BY <1>7, <1>9 DEF AnchorInv, Depth

LEMMA NextAnchored ==
  ASSUME ClocksAgree, AnchorInv, [Next]_vars
  PROVE  AnchorInv'
  <1>1. ChainInv'
    BY NextLinked DEF AnchorInv
  <1>2. ASSUME UNCHANGED <<records, checkpoints, faults>> PROVE AnchorInv'
    BY <1>1, <1>2 DEF AnchorInv, Depth, Anchored
  <1>3. ASSUME NEW w \in Workers, Append_step(w) PROVE AnchorInv'
    BY <1>1, <1>2, <1>3, CommitAnchored
    DEF Append_step, Lock, ReadTail, Insert, Rollback
  <1>4. CASE Count
    BY <1>2, <1>4 DEF Count, chainVars
  <1>5. ASSUME checkpoints' = checkpoints, faults' # 0, Depth' PROVE AnchorInv'
    BY <1>1, <1>5 DEF AnchorInv, Anchored
  <1>6. ASSUME NEW i \in DOMAIN records, NEW payload \in Payloads, Alter(i, payload)
        PROVE  AnchorInv'
    <2>1. TypeOK /\ i \in 1 .. Len(records)
      BY RecordsTyped DEF AnchorInv, ChainInv, OrderInv
    <2>2. Len(records') = Len(records)
      BY <1>6, <2>1, AlteredRow
    <2>3. \A j \in 1 .. Len(records) : records'[j].hash = records[j].hash
      BY <1>6, <2>1, AlteredRow
    <2>4. Depth'
      BY <2>2, <2>3 DEF Depth, AnchorInv
    <2>5. QED
      BY <1>5, <1>6, <2>1, <2>4 DEF Alter, TypeOK
  <1>7. ASSUME NEW n \in 1 .. Len(records), Lose(n) PROVE AnchorInv'
    <2>1. TypeOK
      BY DEF AnchorInv, ChainInv, OrderInv
    <2>2. /\ Len(records') = Len(records) - n
          /\ \A j \in 1 .. Len(records) - n :
                j \in 1 .. Len(records) /\ records'[j] = records[j]
      BY <1>7, <2>1, RemainingRows
    <2>3. Depth'
      BY <2>2 DEF Depth, AnchorInv
    <2>4. QED
      BY <1>5, <1>7, <2>1, <2>3 DEF Lose, TypeOK
  <1>8. CASE Fault
    BY <1>6, <1>7, <1>8 DEF Fault
  <1>9. CASE UNCHANGED vars
    BY <1>2, <1>9 DEF vars, chainVars
  <1>10. QED
    BY <1>1, <1>3, <1>4, <1>8, <1>9, SignAnchored DEF Next

\* Every checkpoint was signed over the hash of a record of its depth, which
\* stays in its place until the table is damaged.
THEOREM AnchorInvariant ==
  ASSUME ClocksAgree
  PROVE  Spec => []AnchorInv
  <1>1. Init => AnchorInv
    <2>1. Len(<< >>) = 0
      BY EmptySeq
    <2>2. QED
      BY <2>1, InitLinked DEF Init, AnchorInv, Depth, Anchored
  <1>2. AnchorInv /\ [Next]_vars => AnchorInv'
    BY NextAnchored
  <1>3. QED
    BY <1>1, <1>2, PTL DEF Spec

\* A checkpoint whose count() and last() saw the same table is confirmed by
\* verify_anchoring for as long as nothing outside the application has
\* damaged the table.
THEOREM QuietCheckpointsHold ==
  ASSUME ClocksAgree
  PROVE  Spec => []QuietCheckpointHolds
  <1>1. ASSUME AnchorInv, faults = 0, NEW i \in DOMAIN checkpoints,
               checkpoints[i].chain_length = Len(checkpoints[i].head_hash)
        PROVE  anchoring_of(checkpoints[i]) = "signed"
    <2>1. TypeOK /\ InOrder
      BY <1>1 DEF AnchorInv, ChainInv, OrderInv
    <2>2. PICK n, h : n = checkpoints[i].chain_length /\ h = checkpoints[i].head_hash
      OBVIOUS
    <2>3. n \in 1 .. Len(records) /\ records[n].hash = h
      BY <1>1, <2>1, <2>2, CheckpointsTyped DEF AnchorInv, Anchored
    <2>4. Nth(n) = records[n]
      BY <2>1, <2>3, NthIsIndexed
    <2>5. ~ (Len(records) < n)
      BY <2>1, <2>3, RecordsTyped
    <2>6. QED
      BY <2>2, <2>3, <2>4, <2>5 DEF anchoring_of
  <1>2. AnchorInv => QuietCheckpointHolds
    BY <1>1 DEF QuietCheckpointHolds
  <1>3. QED
    BY AnchorInvariant, <1>2, PTL

\* The longest checkpoint exists: an induction over the length of the table,
\* from the least length at which there would be none.
LEMMA LongestExists ==
  ASSUME NEW s, NEW L \in Nat, \A i \in 1 .. L : s[i] \in Nat
  PROVE  L = 0 \/ \E i \in 1 .. L : \A j \in 1 .. L : s[j] <= s[i]
  <1> DEFINE Topped(n) == \E i \in 1 .. n : \A j \in 1 .. n : s[j] <= s[i]
             Bad == {n \in 1 .. L : ~ Topped(n)}
  <1>1. Bad = {}
    <2> SUFFICES ASSUME Bad # {} PROVE FALSE
      OBVIOUS
    <2>1. Bad \in SUBSET Nat
      <3> HIDE DEF Topped
      <3>1. QED
        OBVIOUS
    <2>2. PICK n \in Bad : \A m \in Bad : n <= m
      <3> HIDE DEF Bad
      <3>1. QED
        BY <2>1, LeastExists
    <2>3. n \in 1 .. L /\ ~ Topped(n)
      BY <2>2
    <2>4. n # 1
      <3> SUFFICES ASSUME n = 1 PROVE FALSE
        OBVIOUS
      <3>1. s[1] <= s[1]
        BY <2>3
      <3>2. \A j \in 1 .. 1 : j = 1
        OBVIOUS
      <3>3. \A j \in 1 .. 1 : s[j] <= s[1]
        BY <3>1, <3>2
      <3>4. 1 \in 1 .. 1
        OBVIOUS
      <3>5. Topped(1)
        BY <3>3, <3>4
      <3>6. QED
        BY <2>3, <3>5
    <2>5. n - 1 \in 1 .. L /\ Topped(n - 1)
      <3>1. n - 1 \in 1 .. L /\ ~ (n <= n - 1)
        BY <2>3, <2>4
      <3>2. n - 1 \notin Bad
        <4> HIDE DEF Bad
        <4>1. QED
          BY <2>2, <3>1
      <3> HIDE DEF Topped
      <3>3. QED
        BY <3>1, <3>2
    <2>6. PICK i \in 1 .. n - 1 : \A j \in 1 .. n - 1 : s[j] <= s[i]
      BY <2>5
    <2>7. /\ i \in 1 .. n /\ n \in 1 .. n
          /\ \A j \in 1 .. n : j \in 1 .. n - 1 \/ j = n
          /\ s[n] \in Nat /\ s[i] \in Nat
          /\ \A j \in 1 .. n - 1 : s[j] \in Nat
      BY <2>3, <2>5, <2>6
    <2>8. CASE s[n] <= s[i]
      <3>1. \A j \in 1 .. n : s[j] <= s[i]
        BY <2>6, <2>7, <2>8
      <3>2. QED
        BY <2>3, <2>7, <3>1
    <2>9. CASE s[i] <= s[n]
      <3>1. \A j \in 1 .. n - 1 : s[j] <= s[n]
        BY <2>6, <2>7, <2>9
      <3>2. s[n] <= s[n]
        BY <2>7
      <3>3. \A j \in 1 .. n : s[j] <= s[n]
        BY <2>7, <3>1, <3>2
      <3>4. QED
        BY <2>3, <2>7, <3>3
    <2>10. QED
      BY <2>7, <2>8, <2>9
  <1>2. ASSUME L # 0 PROVE Topped(L)
    BY <1>1, <1>2
  <1>3. QED
    BY <1>2

-----------------------------------------------------------------------------
(* What was lost stays lost.                                               *)

\* The k-th entry under any hash is the id of the k-th record.
Spelled ==
    \A i \in 1 .. Len(records) : \A k \in 1 .. i : records[i].hash[k][1] = records[k].id

\* Ids are drawn once: no row, committed or not, has the id of a lost one.
Gone ==
    /\ \A id \in lost : \E n \in 0 .. MaxTime - 1 : n < now /\ id = IdOf[n]
    /\ \A i \in 1 .. Len(records) : records[i].id \notin lost
    /\ \A w \in Workers : pc[w] = "inserted" => inserted[w][1].id \notin lost

LossInv == AnchorInv /\ Spelled /\ Gone

\* The time of a record is past, so is the draw of its id.
LEMMA DrawnBefore ==
  ASSUME ChainInv, NEW i \in 1 .. Len(records)
  PROVE  \E n \in 0 .. MaxTime - 1 : n < now /\ records[i].id = IdOf[n]
  <1>1. PICK w \in Workers, n \in 0 .. MaxTime - 1 :
           records[i].recorded_at = n + Offset[w] /\ records[i].id = IdOf[n]
    BY DEF ChainInv, Links, Stamped
  <1>2. records[i].recorded_at < now + Offset[w] /\ Offset[w] \in Nat /\ now \in Nat
    BY ClocksAssumption DEF ChainInv, OrderInv, InOrder, TypeOK
  <1>3. n < now
    BY <1>1, <1>2
  <1>4. QED
    BY <1>1, <1>3

LEMMA CommitSpells ==
  ASSUME LossInv, NEW w \in Workers, Commit(w)
  PROVE  Spelled'
  <1>1. PICK row : row = inserted[w][1]
    OBVIOUS
  <1>2. /\ Len(records) \in Nat
        /\ Len(records') = Len(records) + 1
        /\ \A i \in 1 .. Len(records) : records'[i] = records[i]
        /\ records'[Len(records) + 1] = row
        /\ row \in Rows
        /\ Len(row.hash) = Len(records) + 1
    BY <1>1, CommitDeepens DEF LossInv, AnchorInv
  <1>3. Genuine(row) /\ row.prev_hash = TailHash
    BY <1>1 DEF LossInv, AnchorInv, ChainInv, WriterHasTail, Commit
  <1>4. /\ \A k \in 1 .. Len(records) : row.hash[k] = TailHash[k]
        /\ row.hash[Len(records) + 1] = <<row.id, row.payload>>
    <2>1. row.prev_hash \in Seq(Entry) /\ <<row.id, row.payload>> \in Entry
      BY <1>2 DEF Rows, Hashes, Entry
    <2>2. row.hash = Append(TailHash, <<row.id, row.payload>>) /\ TailHash \in Seq(Entry)
      BY <1>3, <2>1 DEF Genuine, compute_hash
    <2>3. Len(TailHash) \in Nat /\ Len(row.hash) = Len(TailHash) + 1
      BY <2>1, <2>2, AppendProperties, LenProperties
    <2>4. Len(TailHash) = Len(records)
      BY <1>2, <2>3
    <2>5. QED
      BY <2>1, <2>2, <2>4, AppendProperties
  <1>5. ASSUME NEW i \in 1 .. Len(records'), NEW k \in 1 .. i
        PROVE  records'[i].hash[k][1] = records'[k].id
    <2>1. CASE i \in 1 .. Len(records)
      <3>1. k \in 1 .. Len(records)
        BY <1>2, <2>1
      <3>2. QED
        BY <1>2, <2>1, <3>1 DEF LossInv, Spelled
    <2>2. CASE i = Len(records) + 1 /\ k = i
      BY <1>2, <1>4, <2>2
    <2>3. CASE i = Len(records) + 1 /\ k # i
      <3>1. k \in 1 .. Len(records) /\ Len(records) \in 1 .. Len(records) /\ records # << >>
        BY <1>2, <2>3, EmptySeq
      <3>2. row.hash[k] = records[Len(records)].hash[k]
        BY <1>4, <3>1 DEF TailHash
      <3>3. records[Len(records)].hash[k][1] = records[k].id
        BY <3>1 DEF LossInv, Spelled
      <3>4. QED
        BY <1>2, <2>3, <3>1, <3>2, <3>3
    <2>4. QED
      BY <1>2, <2>1, <2>2, <2>3
  <1>6. QED
    BY <1>5 DEF Spelled

LEMMA CommitGone ==
  ASSUME LossInv, NEW w \in Workers, Commit(w)
  PROVE  Gone'
  <1>1. /\ Len(records) \in Nat
        /\ Len(records') = Len(records) + 1
        /\ \A i \in 1 .. Len(records) : records'[i] = records[i]
        /\ records'[Len(records) + 1] = inserted[w][1]
    BY CommitDeepens DEF LossInv, AnchorInv
  <1>2. UNCHANGED <<lost, now>> /\ pc[w] = "inserted"
    BY DEF Commit
  <1>3. ASSUME NEW i \in 1 .. Len(records') PROVE records'[i].id \notin lost
    <2>1. i \in 1 .. Len(records) \/ i = Len(records) + 1
      BY <1>1
    <2>2. QED
      BY <1>1, <1>2, <2>1 DEF LossInv, Gone
  <1>4. ASSUME NEW v \in Workers, pc'[v] = "inserted" PROVE inserted'[v][1].id \notin lost
    <2>1. pc \in [Workers -> {"idle", "locked", "read", "inserted"}] /\ inserted \in [Workers -> Seq(Rows)]
      BY DEF LossInv, AnchorInv, ChainInv, OrderInv, TypeOK
    <2>2. v # w /\ pc[v] = "inserted" /\ inserted'[v] = inserted[v]
      BY <1>4, <2>1 DEF Commit, EndTransaction
    <2>3. QED
      BY <2>2 DEF LossInv, Gone
  <1>5. QED
    BY <1>2, <1>3, <1>4 DEF LossInv, Gone

\* The clock moves with every insert, so the id is a new one.
LEMMA InsertGone ==
  ASSUME LossInv, NEW w \in Workers, NEW payload \in Payloads, Insert(w, payload)
  PROVE  Gone'
  <1>1. UNCHANGED <<lost, records>> /\ now' = now + 1
    BY DEF Insert
  <1>2. now \in Nat /\ now \in 0 .. MaxTime - 1
    BY BoundsAssumption DEF LossInv, AnchorInv, ChainInv, OrderInv, TypeOK, Insert
  <1>3. \A id \in lost : \E n \in 0 .. MaxTime - 1 : n < now + 1 /\ id = IdOf[n]
    BY <1>2 DEF LossInv, Gone
  <1>4. IdOf[now] \notin lost
    <2> SUFFICES ASSUME IdOf[now] \in lost PROVE FALSE
      OBVIOUS
    <2>1. PICK n \in 0 .. MaxTime - 1 : n < now /\ IdOf[now] = IdOf[n]
      BY DEF LossInv, Gone
    <2>2. n # now
      BY <1>2, <2>1
    <2>3. QED
      BY <1>2, <2>1, <2>2, IdsAssumption
  <1>5. ASSUME NEW v \in Workers, pc'[v] = "inserted" PROVE inserted'[v][1].id \notin lost
    <2>1. pc \in [Workers -> {"idle", "locked", "read", "inserted"}] /\ inserted \in [Workers -> Seq(Rows)]
      BY DEF LossInv, AnchorInv, ChainInv, OrderInv, TypeOK
    <2>2. CASE v = w
      <3>1. inserted'[w] = << NewRow(w, payload) >>
        BY <2>1 DEF Insert, NewRow
      <3>2. inserted'[w][1].id = IdOf[now]
        BY <3>1 DEF NewRow
      <3>3. QED
        BY <1>4, <2>2, <3>2
    <2>3. CASE v # w
      <3>1. pc[v] = "inserted" /\ inserted'[v] = inserted[v]
        BY <1>5, <2>1, <2>3 DEF Insert
      <3>2. QED
        BY <3>1 DEF LossInv, Gone
    <2>4. QED
      BY <2>2, <2>3
  <1>6. QED
    BY <1>1, <1>3, <1>5 DEF LossInv, Gone

\* The rows that remain have other ids than those that went.
LEMMA LoseGone ==
  ASSUME ClocksAgree, LossInv, NEW n \in 1 .. Len(records), Lose(n)
  PROVE  Spelled' /\ Gone'
  <1>1. ChainInv /\ TypeOK /\ InOrder
    BY DEF LossInv, AnchorInv, ChainInv, OrderInv
  <1>2. PICK m : m = Len(records) - n
    OBVIOUS
  <1>3. /\ Len(records) \in Nat /\ m \in Nat /\ m < Len(records)
        /\ Len(records') = m
        /\ \A j \in 1 .. m : j \in 1 .. Len(records) /\ records'[j] = records[j]
    BY <1>1, <1>2, RemainingRows, RecordsTyped
  <1>4. lost' = lost \cup {records[i].id : i \in m + 1 .. Len(records)} /\ UNCHANGED now
    BY <1>2 DEF Lose
  <1>5. \A w \in Workers : pc'[w] # "inserted"
    BY DEF Lose, Quiescent
  <1>6. ASSUME NEW i \in m + 1 .. Len(records)
        PROVE  /\ \E d \in 0 .. MaxTime - 1 : d < now /\ records[i].id = IdOf[d]
               /\ \A j \in 1 .. m : records[j].id # records[i].id
    <2>1. i \in 1 .. Len(records)
      BY <1>3
    <2>2. ASSUME NEW j \in 1 .. m PROVE records[j].id # records[i].id
      <3>1. j \in 1 .. Len(records) /\ j < i
        BY <1>3
      <3>2. /\ records[j].recorded_at < records[i].recorded_at
            /\ records[i].recorded_at \in Nat /\ records[j].recorded_at \in Nat
        BY <1>1, <2>1, <3>1, RecordsTyped DEF InOrder
      <3>3. Stamped(records[i]) /\ Stamped(records[j]) /\ records[j].recorded_at # records[i].recorded_at
        BY <1>1, <2>1, <3>1, <3>2 DEF ChainInv, Links
      <3>4. QED
        BY <3>3, DistinctIds
    <2>3. QED
      BY <1>1, <2>1, <2>2, DrawnBefore
  <1>7. Gone'
    <2>1. \A id \in lost' : \E d \in 0 .. MaxTime - 1 : d < now /\ id = IdOf[d]
      BY <1>4, <1>6 DEF LossInv, Gone
    <2>2. \A j \in 1 .. m : records'[j].id \notin lost'
      BY <1>3, <1>4, <1>6 DEF LossInv, Gone
    <2>3. QED
      BY <1>3, <1>4, <1>5, <2>1, <2>2 DEF Gone
  <1>8. Spelled'
    <2>1. ASSUME NEW i \in 1 .. m, NEW k \in 1 .. i PROVE records'[i].hash[k][1] = records'[k].id
      <3>1. k \in 1 .. m
        BY <1>3
      <3>2. QED
        BY <1>3, <3>1 DEF LossInv, Spelled
    <2>2. QED
      BY <1>3, <2>1 DEF Spelled
  <1>9. QED
    BY <1>7, <1>8

LEMMA NextGone ==
  ASSUME ClocksAgree, LossInv, [Next]_vars
  PROVE  LossInv'
  <1>1. AnchorInv'
    BY NextAnchored DEF LossInv
  <1>2. ASSUME UNCHANGED <<records, now, lost, inserted>>,
               \A w \in Workers : pc'[w] = "inserted" => pc[w] = "inserted"
        PROVE  Spelled' /\ Gone'
    <2>1. Spelled /\ Gone
      BY DEF LossInv
    <2>2. Spelled'
      BY <1>2, <2>1 DEF Spelled
    <2>3. Gone'
      BY <1>2, <2>1 DEF Gone
    <2>4. QED
      BY <2>2, <2>3
  <1>3. TypeOK
    BY DEF LossInv, AnchorInv, ChainInv, OrderInv
  <1>4. ASSUME NEW w \in Workers, Lock(w) \/ ReadTail(w) PROVE Spelled' /\ Gone'
    BY <1>2, <1>3, <1>4 DEF Lock, ReadTail, TypeOK
  <1>5. ASSUME NEW w \in Workers, NEW payload \in Payloads, Insert(w, payload) PROVE Spelled' /\ Gone'
    BY <1>5, InsertGone DEF Insert, LossInv, Spelled
  <1>6. ASSUME NEW w \in Workers, Rollback(w) PROVE Spelled' /\ Gone'
    <2>1. UNCHANGED <<records, now, lost>>
      BY <1>6 DEF Rollback
    <2>2. \A v \in Workers : pc'[v] = "inserted" => pc[v] = "inserted" /\ inserted'[v] = inserted[v]
      BY <1>3, <1>6 DEF Rollback, EndTransaction, TypeOK
    <2>3. QED
      BY <2>1, <2>2 DEF LossInv, Spelled, Gone
  <1>7. ASSUME Count \/ Sign PROVE Spelled' /\ Gone'
    <2>1. UNCHANGED <<records, now, lost, inserted, pc>>
      BY <1>7 DEF Count, Sign, chainVars
    <2>2. QED
      BY <1>2, <2>1
  <1>8. ASSUME NEW i \in DOMAIN records, NEW payload \in Payloads, Alter(i, payload)
        PROVE  Spelled' /\ Gone'
    <2>1. i \in 1 .. Len(records)
      BY <1>3, RecordsTyped
    <2>2. /\ Len(records') = Len(records) /\ Len(records) \in Nat
          /\ \A j \in 1 .. Len(records) : /\ records'[j].hash = records[j].hash
                                          /\ records'[j].id = records[j].id
      BY <1>3, <1>8, <2>1, AlteredRow, RecordsTyped
    <2>3. UNCHANGED <<now, lost, pc, inserted>>
      BY <1>8 DEF Alter
    <2>4. Spelled'
      <3>1. ASSUME NEW j \in 1 .. Len(records), NEW k \in 1 .. j
            PROVE  records'[j].hash[k][1] = records'[k].id
        <4>1. k \in 1 .. Len(records)
          BY <2>2
        <4>2. QED
          BY <2>2, <4>1 DEF LossInv, Spelled
      <3>2. QED
        BY <2>2, <3>1 DEF Spelled
    <2>5. Gone'
      <3>1. \A j \in 1 .. Len(records') : records'[j].id \notin lost
        BY <2>2 DEF LossInv, Gone
      <3>2. QED
        BY <2>3, <3>1 DEF LossInv, Gone
    <2>6. QED
      BY <2>4, <2>5
  <1>9. ASSUME UNCHANGED vars PROVE Spelled' /\ Gone'
    <2>1. UNCHANGED <<records, now, lost, inserted, pc>>
      BY <1>9 DEF vars, chainVars
    <2>2. QED
      BY <1>2, <2>1
  <1>10. Spelled' /\ Gone'
    BY <1>4, <1>5, <1>6, <1>7, <1>8, <1>9, CommitSpells, CommitGone, LoseGone
    DEF Next, Append_step, Fault
  <1>11. QED
    BY <1>1, <1>10 DEF LossInv

\* Rows that a checkpoint covers cannot be lost unseen: until a checkpoint of a
\* longer chain is signed verify_anchoring answers BROKEN, whatever has been
\* appended in place of the lost rows, because the record at the signed length,
\* if there is one, spells ids in its hash and none of them is a lost one.
THEOREM LossesDetected ==
  ASSUME ClocksAgree
  PROVE  Spec => []LossDetected
  <1>1. ASSUME LossInv, checkpoints # << >>,
               \A c \in latest_checkpoints : \E k \in DOMAIN c.head_hash : c.head_hash[k][1] \in lost
        PROVE  verify_anchoring = {"broken"}
    <2>1. TypeOK /\ InOrder /\ AnchorInv
      BY <1>1 DEF LossInv, AnchorInv, ChainInv, OrderInv
    <2>2. /\ Len(checkpoints) \in Nat /\ DOMAIN checkpoints = 1 .. Len(checkpoints)
          /\ \A i \in 1 .. Len(checkpoints) : checkpoints[i].chain_length \in Nat
      BY <2>1, CheckpointsTyped
    <2>3. Len(checkpoints) # 0
      BY <1>1, <2>1, EmptySeq DEF TypeOK
    <2>4. latest_checkpoints # {}
      <3> DEFINE s == [i \in 1 .. Len(checkpoints) |-> checkpoints[i].chain_length]
      <3>1. \A i \in 1 .. Len(checkpoints) : s[i] \in Nat /\ s[i] = checkpoints[i].chain_length
        BY <2>2
      <3> HIDE DEF s
      <3>2. PICK i \in 1 .. Len(checkpoints) : \A j \in 1 .. Len(checkpoints) : s[j] <= s[i]
        BY <2>2, <2>3, <3>1, LongestExists
      <3>3. checkpoints[i] \in latest_checkpoints
        BY <2>2, <3>1, <3>2 DEF latest_checkpoints
      <3>4. QED
        BY <3>3
    <2>5. \A c \in latest_checkpoints : anchoring_of(c) = "broken"
      <3> SUFFICES ASSUME NEW c \in latest_checkpoints, ~ (Len(records) < c.chain_length)
                   PROVE  Nth(c.chain_length).hash # c.head_hash
        BY DEF anchoring_of
      <3>1. PICK i \in 1 .. Len(checkpoints) : c = checkpoints[i]
        BY <2>2 DEF latest_checkpoints
      <3>2. PICK n : n = c.chain_length
        OBVIOUS
      <3>3. n \in Nat /\ n >= 1
        BY <2>1, <2>2, <3>1, <3>2 DEF AnchorInv, Anchored
      <3>4. n \in 1 .. Len(records) /\ Len(records) \in Nat
        BY <2>1, <3>2, <3>3, RecordsTyped
      <3>5. Nth(n) = records[n]
        BY <2>1, <3>4, NthIsIndexed
      <3>6. PICK k \in DOMAIN c.head_hash : c.head_hash[k][1] \in lost
        BY <1>1
      <3>7. ASSUME records[n].hash = c.head_hash PROVE FALSE
        <4>1. Len(records[n].hash) = n /\ records[n].hash \in Seq(Entry)
          BY <2>1, <3>4, RecordsTyped DEF AnchorInv, Depth, Rows, Hashes
        <4>2. k \in 1 .. n
          BY <3>6, <3>7, <4>1, LenProperties
        <4>3. records[n].hash[k][1] = records[k].id /\ k \in 1 .. Len(records)
          BY <1>1, <3>4, <4>2 DEF LossInv, Spelled
        <4>4. QED
          BY <1>1, <3>6, <3>7, <4>3 DEF LossInv, Gone
      <3>8. QED
        BY <3>2, <3>5, <3>7
    <2>6. QED
      BY <1>1, <2>4, <2>5 DEF verify_anchoring
  <1>2. LossInv => LossDetected
    BY <1>1 DEF LossDetected
  <1>3. Init => LossInv
    <2>1. Len(<< >>) = 0
      BY EmptySeq
    <2>2. Init => AnchorInv
      BY <2>1, InitLinked DEF Init, AnchorInv, Depth, Anchored
    <2>3. QED
      BY <2>1, <2>2 DEF Init, LossInv, Spelled, Gone
  <1>4. LossInv /\ [Next]_vars => LossInv'
    BY NextGone
  <1>5. QED
    BY <1>2, <1>3, <1>4, PTL DEF Spec
-----------------------------------------------------------------------------
(* The chain implements the append-only log of AuditLog.                   *)

EntryOf(r) == <<r.id, r.payload>>

\* What an auditor reads is the table in commit order.
LEMMA EvidenceIsTable ==
  OrderInv => /\ Evidence \in Seq(Entry)
              /\ Len(Evidence) = Len(records)
              /\ \A n \in 1 .. Len(records) : Evidence[n] = EntryOf(records[n])
  <1> SUFFICES ASSUME OrderInv
               PROVE  /\ Evidence \in Seq(Entry)
                      /\ Len(Evidence) = Len(records)
                      /\ \A n \in 1 .. Len(records) : Evidence[n] = EntryOf(records[n])
    OBVIOUS
  <1>1. TypeOK /\ InOrder
    BY DEF OrderInv
  <1>2. Len(records) \in Nat /\ \A n \in 1 .. Len(records) : records[n] \in Rows
    BY <1>1, RecordsTyped
  <1>3. \A n \in 1 .. Len(records) : Nth(n) = records[n]
    BY <1>1, NthIsIndexed
  <1>4. \A n \in 1 .. Len(records) : EntryOf(records[n]) \in Entry
    BY <1>2 DEF EntryOf, Entry, Rows
  <1>5. Evidence \in [1 .. Len(records) -> Entry]
    BY <1>3, <1>4 DEF Evidence, EntryOf
  <1>6. \A n \in 1 .. Len(records) : Evidence[n] = EntryOf(records[n])
    BY <1>3 DEF Evidence, EntryOf
  <1>7. QED
    BY <1>2, <1>5, <1>6, LenProperties, IsASeq DEF Evidence

LEMMA EvidencePrimed ==
  ASSUME OrderInv'
  PROVE  /\ Evidence' \in Seq(Entry)
         /\ Len(Evidence') = Len(records')
         /\ \A n \in 1 .. Len(records') : Evidence'[n] = EntryOf(records'[n])
  <1>1. (OrderInv => /\ Evidence \in Seq(Entry)
                     /\ Len(Evidence) = Len(records)
                     /\ \A n \in 1 .. Len(records) : Evidence[n] = EntryOf(records[n]))'
    BY EvidenceIsTable, PTL
  <1>2. QED
    BY <1>1 DEF EntryOf

LEMMA SameSeq ==
  ASSUME NEW S, NEW s \in Seq(S), NEW t \in Seq(S), Len(s) = Len(t),
         \A n \in 1 .. Len(s) : s[n] = t[n]
  PROVE  s = t
  BY SeqEqual

\* A commit appends the entry it commits.
LEMMA CommitAppends ==
  ASSUME OrderInv, OrderInv', NEW w \in Workers, Commit(w)
  PROVE  \E e \in Entry : Log!AppendEntry(e)
  <1>1. PICK row : row = inserted[w][1]
    OBVIOUS
  <1>2. row \in Rows
    <2>1. Len(inserted[w]) = 1 /\ inserted[w] \in Seq(Rows)
      BY DEF OrderInv, TypeOK, PendingIsNewest, Commit
    <2>2. QED
      BY <1>1, <2>1, ElementOfSeq
  <1>3. EntryOf(row) \in Entry
    BY <1>2 DEF EntryOf, Entry, Rows
  <1>4. /\ Len(records) \in Nat
        /\ Len(records') = Len(records) + 1
        /\ \A i \in 1 .. Len(records) : records'[i] = records[i]
        /\ records'[Len(records) + 1] = row
    BY <1>1, <1>2, AppendProperties, LenProperties DEF OrderInv, TypeOK, Commit
  <1>5. PICK t, u : t = Evidence /\ u = Evidence'
    OBVIOUS
  <1>6. /\ t \in Seq(Entry) /\ Len(t) = Len(records)
        /\ \A n \in 1 .. Len(records) : t[n] = EntryOf(records[n])
    BY <1>5, EvidenceIsTable
  <1>7. /\ u \in Seq(Entry) /\ Len(u) = Len(records')
        /\ \A n \in 1 .. Len(records') : u[n] = EntryOf(records'[n])
    BY <1>5, EvidencePrimed
  <1>8. /\ Append(t, EntryOf(row)) \in Seq(Entry)
        /\ Len(Append(t, EntryOf(row))) = Len(records) + 1
        /\ \A n \in 1 .. Len(records) : Append(t, EntryOf(row))[n] = t[n]
        /\ Append(t, EntryOf(row))[Len(records) + 1] = EntryOf(row)
    BY <1>3, <1>6, AppendProperties
  <1>9. \A n \in 1 .. Len(records) + 1 : u[n] = Append(t, EntryOf(row))[n]
    <2> TAKE n \in 1 .. Len(records) + 1
    <2>1. n \in 1 .. Len(records) \/ n = Len(records) + 1
      BY <1>4
    <2>2. QED
      BY <1>4, <1>6, <1>7, <1>8, <2>1
  <1>10. u = Append(t, EntryOf(row))
    BY <1>4, <1>7, <1>8, <1>9, SameSeq
  <1>11. faults' = faults
    BY DEF Commit
  <1>12. Log!AppendEntry(EntryOf(row))
    BY <1>5, <1>10, <1>11 DEF Log!AppendEntry
  <1>13. QED
    BY <1>3, <1>12

\* Damage never makes the log longer, and leaves entries.
LEMMA FaultDamages ==
  ASSUME OrderInv, OrderInv', Fault
  PROVE  Log!Damage
  <1>1. TypeOK /\ Len(records) \in Nat
    BY RecordsTyped DEF OrderInv
  <1>2. Len(records') <= Len(records)
    <2>1. ASSUME NEW i \in DOMAIN records, NEW payload \in Payloads, Alter(i, payload)
          PROVE  Len(records') <= Len(records)
      BY <1>1, <2>1, AlteredRow
    <2>2. ASSUME NEW n \in 1 .. Len(records), Lose(n)
          PROVE  Len(records') <= Len(records)
      BY <1>1, <2>2, RemainingRows
    <2>3. QED
      BY <2>1, <2>2 DEF Fault
  <1>3. faults' > 0
    BY <1>1 DEF Fault, Alter, Lose, TypeOK
  <1>4. Len(Evidence) = Len(records)
    BY EvidenceIsTable
  <1>5. Evidence' \in Seq(Entry) /\ Len(Evidence') = Len(records')
    BY EvidencePrimed
  <1>6. QED
    BY <1>2, <1>3, <1>4, <1>5 DEF Log!Damage

\* Under agreeing clocks the table, the row lock and the hashes give what
\* chain.py promises: a log to which committed entries are appended, one per
\* commit, and in which nothing changes unless it is damaged from outside.
THEOREM ChainImplementsLog ==
  ASSUME ClocksAgree
  PROVE  Spec => ImplementsAuditLog
  <1>1. Init => Log!Init
    <2> SUFFICES ASSUME Init PROVE Log!Init
      OBVIOUS
    <2>1. Evidence \in Seq(Entry) /\ Len(Evidence) = Len(records)
      BY InitOrdered, EvidenceIsTable
    <2>2. Len(records) = 0
      BY EmptySeq DEF Init
    <2>3. Evidence = << >>
      BY <2>1, <2>2, EmptySeq
    <2>4. (faults > 0) = FALSE
      BY DEF Init
    <2>5. QED
      BY <2>3, <2>4 DEF Log!Init
  <1>2. OrderInv /\ OrderInv' /\ [Next]_vars => [Log!Next]_(Log!logVars)
    <2> SUFFICES ASSUME OrderInv, OrderInv', [Next]_vars
                 PROVE  [Log!Next]_(Log!logVars)
      OBVIOUS
    <2>1. ASSUME records' = records, faults' = faults PROVE UNCHANGED Log!logVars
      <3>1. PICK t, u : t = Evidence /\ u = Evidence'
        OBVIOUS
      <3>2. /\ t \in Seq(Entry) /\ Len(t) = Len(records)
            /\ \A n \in 1 .. Len(records) : t[n] = EntryOf(records[n])
        BY <3>1, EvidenceIsTable
      <3>3. /\ u \in Seq(Entry) /\ Len(u) = Len(records)
            /\ \A n \in 1 .. Len(records) : u[n] = EntryOf(records[n])
        BY <2>1, <3>1, EvidencePrimed
      <3>4. t = u
        BY <3>2, <3>3, SameSeq
      <3>5. QED
        BY <2>1, <3>1, <3>4 DEF Log!logVars
    <2>2. ASSUME NEW w \in Workers, Append_step(w) PROVE [Log!Next]_(Log!logVars)
      <3>1. CASE Commit(w)
        BY <3>1, CommitAppends DEF Log!Next
      <3>2. QED
        BY <2>1, <2>2, <3>1 DEF Append_step, Lock, ReadTail, Insert, Rollback
    <2>3. CASE Count \/ Sign
      BY <2>1, <2>3 DEF Count, Sign, chainVars
    <2>4. CASE Fault
      BY <2>4, FaultDamages DEF Log!Next
    <2>5. CASE UNCHANGED vars
      BY <2>1, <2>5 DEF vars, chainVars
    <2>6. QED
      BY <2>2, <2>3, <2>4, <2>5 DEF Next
  <1>3. QED
    BY <1>1, <1>2, OrderInvariant, PTL DEF Spec, ImplementsAuditLog, Log!Spec
=============================================================================
