------------------------- MODULE OrderOutboxProofs -------------------------
(***************************************************************************)
(* Proofs about the order service's outbox for any number of rows,         *)
(* replicas and attempts.                                                  *)
(***************************************************************************)
EXTENDS OrderOutbox, TLAPS

\* Appending an event to the log adds that event, and nothing else, to what
\* Kafka holds.  (Store, the effect of a PublishRaw the broker received.)
LEMMA StoreDelivers ==
  ASSUME log \in Seq(Rows), NEW r \in Rows, Store(r)
  PROVE  /\ log' \in Seq(Rows)
         /\ Delivered' = Delivered \union {r}
<1>1. CASE r \in Delivered
  BY <1>1 DEF Store, Delivered
<1>2. CASE r \notin Delivered
  <2>1. log' = Append(log, r)
    BY <1>2 DEF Store
  <2>2. log' \in Seq(Rows)
    BY <2>1
  <2>3. /\ DOMAIN log = 1..Len(log)
        /\ DOMAIN log' = 1..(Len(log) + 1)
        /\ Len(log) \in Nat
    BY <2>1
  <2>4. \A i \in 1..Len(log) : log'[i] = log[i]
    BY <2>1
  <2>5. log'[Len(log) + 1] = r
    BY <2>1
  <2>6. ASSUME NEW e PROVE e \in Delivered' <=> e \in Delivered \union {r}
    <3>1. ASSUME e \in Delivered' PROVE e \in Delivered \union {r}
      <4>1. PICK i \in 1..(Len(log) + 1) : log'[i] = e
        BY <3>1, <2>3 DEF Delivered
      <4>2. CASE i = Len(log) + 1
        BY <4>1, <4>2, <2>5
      <4>3. CASE i \in 1..Len(log)
        BY <4>1, <4>3, <2>3, <2>4 DEF Delivered
      <4>4. QED
        BY <4>2, <4>3, <2>3
    <3>2. ASSUME e \in Delivered PROVE e \in Delivered'
      <4>1. PICK i \in 1..Len(log) : log[i] = e
        BY <3>2, <2>3 DEF Delivered
      <4>2. i \in DOMAIN log' /\ log'[i] = e
        BY <4>1, <2>3, <2>4
      <4>3. QED
        BY <4>2 DEF Delivered
    <3>3. r \in Delivered'
      <4>1. Len(log) + 1 \in DOMAIN log'
        BY <2>3
      <4>2. QED
        BY <4>1, <2>5 DEF Delivered
    <3>4. QED
      BY <3>1, <3>2, <3>3
  <2>7. QED
    BY <2>2, <2>6
<1>3. QED
  BY <1>1, <1>2

\* The table is empty and no batch is in hand.
LEMMA InitOutboxInv == Init => OutboxInv
<1> SUFFICES ASSUME Init PROVE OutboxInv
  OBVIOUS
<1> USE OutboxAssumption DEF Init
<1>1. TypeOK
  BY DEF TypeOK, Statuses, Record
<1>2. RowsAgree
  BY DEF RowsAgree
<1>3. RecordsAgree
  BY DEF RecordsAgree
<1>4. FailuresCounted
  BY DEF FailuresCounted, Open
<1>5. QED
  BY <1>1, <1>2, <1>3, <1>4 DEF OutboxInv

\* A transaction commits, or a timer runs out.
LEMMA EnvironmentStep ==
  ASSUME OutboxInv, 
         \/ \E tx \in Transactions : InsertOutbox(tx)
         \/ \E r \in Rows : BackoffElapses(r) \/ LeaseExpires(r)
  PROVE  OutboxInv'
<1> USE OutboxAssumption DEF OutboxInv, table, workers
<1>1. ASSUME NEW tx \in Transactions, InsertOutbox(tx) PROVE OutboxInv'
  <2> USE <1>1 DEF InsertOutbox
  <2>1. TypeOK'
    BY DEF TypeOK, Statuses
  <2>2. RowsAgree'
    BY DEF RowsAgree, TypeOK, Delivered
  <2>3. RecordsAgree'
    BY DEF RecordsAgree, TypeOK, Delivered, Current, Record
  <2>4. FailuresCounted'
    BY DEF FailuresCounted, RowsAgree, TypeOK, Open
  <2>5. QED
    BY <2>1, <2>2, <2>3, <2>4
<1>2. ASSUME NEW r \in Rows, BackoffElapses(r) PROVE OutboxInv'
  <2> USE <1>2 DEF BackoffElapses
  <2>1. TypeOK'
    BY DEF TypeOK
  <2>2. RowsAgree' /\ RecordsAgree' /\ FailuresCounted'
    BY DEF RowsAgree, RecordsAgree, FailuresCounted, Delivered, Current, Open
  <2>3. QED
    BY <2>1, <2>2
<1>3. ASSUME NEW r \in Rows, LeaseExpires(r) PROVE OutboxInv'
  <2> USE <1>3 DEF LeaseExpires
  <2>1. TypeOK'
    BY DEF TypeOK
  <2>2. RowsAgree' 
    BY DEF RowsAgree, TypeOK, Delivered
  <2>3. RecordsAgree' /\ FailuresCounted'
    BY DEF RecordsAgree, FailuresCounted, Delivered, Current, Open
  <2>4. QED
    BY <2>1, <2>2, <2>3
<1>4. QED
  BY <1>1, <1>2, <1>3

\* A replica claims rows whose lease is over: whoever held them before no
\* longer owns them, and the new records carry the attempt_count of now.
LEMMA ClaimStep ==
  ASSUME OutboxInv, NEW w \in Workers, Claim(w)
  PROVE  OutboxInv'
<1> USE OutboxAssumption DEF OutboxInv
<1>1. PICK skipped \in MaySkip(w), S \in (SUBSET Rows) \ {{}} :
        /\ FirstRows(S, {r \in Rows : Claimable(r)} \ skipped)
        /\ status' = [r \in Rows |-> IF r \in S THEN "processing" ELSE status[r]]
        /\ lockedBy' = [r \in Rows |-> IF r \in S THEN w ELSE lockedBy[r]]
        /\ lease' = [r \in Rows |-> IF r \in S THEN "live" ELSE lease[r]]
        /\ claimed' = [claimed EXCEPT ![w] =
                         {[row |-> r, attempt |-> attempts[r]] : r \in S}]
  BY DEF Claim
<1>2. \A r \in S : r \in Rows /\ Claimable(r)
  BY <1>1 DEF FirstRows
<1>3. /\ w \in alive /\ claimed[w] = {}
      /\ UNCHANGED <<publishedAt, attempts, available, alive, pc, log>>
  BY DEF Claim
<1>4. TypeOK'
  BY <1>1, <1>2, <1>3 DEF TypeOK, Statuses, Record
<1>5. RowsAgree'
  BY <1>1, <1>2, <1>3 DEF RowsAgree, TypeOK, Claimable, Delivered
<1>6. RecordsAgree'
  <2>0. \A v \in Workers : claimed'[v] = {} => pc'[v] = "publish"
    BY <1>1, <1>3 DEF TypeOK, RecordsAgree
  <2> SUFFICES ASSUME NEW v \in Workers, NEW rec \in claimed'[v]
               PROVE  /\ v \in alive'
                      /\ rec.attempt < MaxAttempts
                      /\ status'[rec.row] # "absent"
                      /\ lockedBy'[rec.row] = v => attempts'[rec.row] = rec.attempt
                      /\ \A o \in claimed'[v] : o.row = rec.row => o = rec
                      /\ pc'[v] = "acked" /\ Current(v, rec)' => rec.row \in Delivered'
    BY <2>0 DEF RecordsAgree
  <2>1. CASE v = w
    <3>1. PICK r \in S : rec = [row |-> r, attempt |-> attempts[r]]
      BY <1>1, <2>1 DEF TypeOK
    <3>2. \A o \in claimed'[v] : o.row = rec.row => o = rec
      BY <1>1, <2>1, <3>1 DEF TypeOK
    <3>3. pc[w] = "publish"
      BY <1>3 DEF RecordsAgree
    <3>4. QED
      BY <1>1, <1>2, <1>3, <2>1, <3>1, <3>2, <3>3 DEF TypeOK, Claimable
  <2>2. CASE v # w
    <3>1. claimed'[v] = claimed[v] /\ rec \in claimed[v]
      BY <1>1, <2>2 DEF TypeOK
    <3>2. rec.row \in Rows
      BY <3>1 DEF TypeOK, Record
    <3>3. Current(v, rec)' => Current(v, rec)
      BY <3>1 DEF Current
    <3>4. QED
      BY <1>1, <1>2, <1>3, <2>2, <3>1, <3>2, <3>3 DEF TypeOK, RecordsAgree, Delivered
  <2>3. QED
    BY <2>1, <2>2
<1>7. FailuresCounted'
  BY <1>1, <1>2, <1>3 DEF FailuresCounted, TypeOK, Claimable, Open
<1>8. QED
  BY <1>4, <1>5, <1>6, <1>7

\* PublishRaw returns: only the log and the progress of w on its current
\* record change, and an acknowledged record is in the log.
LEMMA PublishStep ==
  ASSUME OutboxInv, NEW w \in Workers, Publish(w)
  PROVE  OutboxInv'
<1> USE OutboxAssumption DEF OutboxInv
<1>1. PICK rec \in claimed[w] : /\ Current(w, rec)
                                /\ Store(rec.row) \/ UNCHANGED log
                                /\ pc' = [pc EXCEPT ![w] = "acked"] => Store(rec.row)
  BY DEF Publish, PublishAcked, PublishErrored, TypeOK
<1>2. /\ UNCHANGED <<table, alive, claimed>>
      /\ \/ pc' = [pc EXCEPT ![w] = "acked"]
         \/ pc' = [pc EXCEPT ![w] = "errored"]
  BY DEF Publish, PublishAcked, PublishErrored
<1>3. rec.row \in Rows
  BY <1>1 DEF TypeOK, Record
<1>4. /\ log' \in Seq(Rows)
      /\ Delivered \subseteq Delivered'
      /\ pc' = [pc EXCEPT ![w] = "acked"] => rec.row \in Delivered'
  <2>1. ASSUME Store(rec.row)
        PROVE  log' \in Seq(Rows) /\ Delivered' = Delivered \union {rec.row}
    BY <2>1, <1>3, StoreDelivers DEF TypeOK
  <2>2. ASSUME UNCHANGED log PROVE log' \in Seq(Rows) /\ Delivered' = Delivered
    BY <2>2 DEF TypeOK, Delivered
  <2>3. QED
    BY <1>1, <2>1, <2>2
<1>5. TypeOK'
  BY <1>2, <1>4 DEF TypeOK, table
<1>6. RowsAgree' /\ FailuresCounted'
  BY <1>2, <1>4 DEF RowsAgree, FailuresCounted, Open, table
<1>7. RecordsAgree'
  <2>1. ASSUME NEW v \in Workers, claimed'[v] = {} PROVE pc'[v] = "publish"
    BY <1>1, <1>2, <2>1 DEF RecordsAgree, TypeOK
  <2>2. ASSUME NEW v \in Workers, NEW o \in claimed'[v], pc'[v] = "acked", Current(v, o)'
        PROVE  o.row \in Delivered'
    <3>1. Current(v, o)
      BY <1>2, <2>2 DEF Current
    <3>2. CASE v = w
      <4>1. pc' = [pc EXCEPT ![w] = "acked"]
        BY <1>2, <2>2, <3>2 DEF TypeOK
      <4>2. o.row \in Nat /\ rec.row \in Nat
        <5>1. o \in claimed[w]
          BY <3>1, <3>2 DEF Current
        <5>2. o \in Record
          BY <5>1 DEF TypeOK
        <5>3. QED
          BY <1>3, <5>2 DEF Record
      <4>3. o.row = rec.row
        BY <1>1, <1>2, <3>1, <3>2, <4>2 DEF Current
      <4>4. QED
        BY <1>4, <4>1, <4>3
    <3>3. CASE v # w
      BY <1>2, <1>4, <2>2, <3>1, <3>3 DEF RecordsAgree, TypeOK
    <3>4. QED
      BY <3>2, <3>3
  <2>3. QED
    BY <1>2, <2>1, <2>2 DEF RecordsAgree, table
<1>8. QED
  BY <1>5, <1>6, <1>7

\* A record is dealt with: the memory of w still agrees with the table if the
\* table changed at most in the row of that record, which w then released.
LEMMA DoneAgrees ==
  ASSUME OutboxInv, NEW w \in Workers, NEW rec \in claimed[w],
         Current(w, rec), Done(w, rec), UNCHANGED log,
         \A r \in Rows : /\ status[r] # "absent" => status'[r] # "absent"
                         /\ \/ attempts'[r] = attempts[r] /\ lockedBy'[r] = lockedBy[r]
                            \/ lockedBy'[r] = NoWorker
  PROVE  /\ RecordsAgree'
         /\ claimed' \in [Workers -> SUBSET Record]
         /\ pc' \in [Workers -> {"publish", "acked", "errored"}]
<1> USE OutboxAssumption DEF OutboxInv
<1>1. /\ claimed' = [claimed EXCEPT ![w] = claimed[w] \ {rec}]
      /\ pc' = [pc EXCEPT ![w] = "publish"]
      /\ alive' = alive
  BY DEF Done
<1>2. /\ claimed' \in [Workers -> SUBSET Record]
      /\ pc' \in [Workers -> {"publish", "acked", "errored"}]
  BY <1>1 DEF TypeOK
<1>3. ASSUME NEW v \in Workers, claimed'[v] = {} PROVE pc'[v] = "publish"
  BY <1>1, <1>3 DEF RecordsAgree, TypeOK
<1>4. ASSUME NEW v \in Workers, NEW o \in claimed'[v]
      PROVE  /\ v \in alive'
             /\ o.attempt < MaxAttempts
             /\ status'[o.row] # "absent"
             /\ lockedBy'[o.row] = v => attempts'[o.row] = o.attempt
             /\ \A q \in claimed'[v] : q.row = o.row => q = o
             /\ pc'[v] = "acked" /\ Current(v, o)' => o.row \in Delivered'
  <2>1. o \in claimed[v] /\ claimed'[v] \subseteq claimed[v]
    BY <1>1, <1>4 DEF TypeOK
  <2>2. o.row \in Rows
    BY <2>1 DEF TypeOK, Record
  <2>3. v # NoWorker
    OBVIOUS
  <2>4. ASSUME pc'[v] = "acked", Current(v, o)' PROVE o.row \in Delivered'
    <3>1. v # w
      BY <1>1, <2>4 DEF TypeOK
    <3>2. pc[v] = "acked" /\ claimed'[v] = claimed[v]
      BY <1>1, <2>4, <3>1 DEF TypeOK
    <3>3. Current(v, o)
      BY <2>4, <3>2 DEF Current
    <3>4. QED
      BY <2>1, <3>2, <3>3 DEF RecordsAgree, Delivered
  <2>5. QED
    BY <1>1, <2>1, <2>2, <2>3, <2>4 DEF RecordsAgree
<1>5. QED
  BY <1>2, <1>3, <1>4 DEF RecordsAgree

\* The three mark statements that change a row, and the one that changes none.
LEMMA MarkStep ==
  ASSUME OutboxInv, NEW w \in Workers, Mark(w) \/ MarkLost(w)
  PROVE  OutboxInv'
<1> USE OutboxAssumption DEF OutboxInv
<1>1. PICK rec \in claimed[w] : Current(w, rec) /\ Done(w, rec)
  BY DEF Mark, MarkPublished, MarkFailed, MarkTerminal, MarkLost
<1>2. rec \in Record /\ rec.row \in Rows /\ rec.attempt \in Nat
  BY DEF TypeOK, Record
<1>3. CASE MarkLost(w)
  <2>1. UNCHANGED <<table, log>> /\ alive' = alive
    BY <1>1, <1>3 DEF MarkLost, Done
  <2>2. RecordsAgree' /\ TypeOK'
    BY <1>1, <2>1, DoneAgrees DEF table, TypeOK
  <2>3. RowsAgree' /\ FailuresCounted'
    BY <2>1 DEF RowsAgree, FailuresCounted, Open, Delivered, table
  <2>4. QED
    BY <2>2, <2>3
<1>4. CASE MarkPublished(w)
  <2>1. PICK o \in claimed[w] :
          /\ Current(w, o)
          /\ Owns(w, o.row)
          /\ status' = [status EXCEPT ![o.row] = "published"]
          /\ publishedAt' = [publishedAt EXCEPT ![o.row] = TRUE]
          /\ Release(o.row)
          /\ Done(w, o)
    BY <1>4 DEF MarkPublished
  <2>2. UNCHANGED <<attempts, available, log>> /\ pc[w] = "acked" /\ alive' = alive
    BY <1>4, <2>1 DEF MarkPublished, Done
  <2>3. o.row \in Rows /\ o.row \in Delivered
    BY <2>1, <2>2 DEF TypeOK, Record, RecordsAgree
  <2>4. /\ status' \in [Rows -> Statuses]
        /\ publishedAt' \in [Rows -> BOOLEAN]
        /\ attempts' \in [Rows -> Nat]
        /\ available' \in [Rows -> BOOLEAN]
        /\ lockedBy' \in [Rows -> Workers \union {NoWorker}]
        /\ lease' \in [Rows -> {"none", "live", "expired"}]
    BY <2>1, <2>2, <2>3 DEF TypeOK, Statuses, Release
  <2>5. \A r \in Rows :
          /\ status[r] # "absent" => status'[r] # "absent"
          /\ \/ attempts'[r] = attempts[r] /\ lockedBy'[r] = lockedBy[r]
             \/ lockedBy'[r] = NoWorker
    BY <2>1, <2>2, <2>3 DEF TypeOK, Release
  <2>6. /\ RecordsAgree'
        /\ claimed' \in [Workers -> SUBSET Record]
        /\ pc' \in [Workers -> {"publish", "acked", "errored"}]
    BY <2>1, <2>2, <2>5, DoneAgrees
  <2>7. TypeOK'
    BY <2>2, <2>4, <2>6 DEF TypeOK
  <2>8. RowsAgree' /\ FailuresCounted'
    BY <2>1, <2>2, <2>3
    DEF RowsAgree, FailuresCounted, Open, Delivered, Release, TypeOK, Owns
  <2>9. QED
    BY <2>6, <2>7, <2>8
<1>5. CASE MarkFailed(w)
  <2>1. PICK o \in claimed[w] :
          /\ Current(w, o)
          /\ ~Exhausted(o)
          /\ Owns(w, o.row)
          /\ status' = [status EXCEPT ![o.row] = "pending"]
          /\ attempts' = [attempts EXCEPT ![o.row] = @ + 1]
          /\ available' = [available EXCEPT ![o.row] = FALSE]
          /\ Release(o.row)
          /\ Done(w, o)
    BY <1>5 DEF MarkFailed
  <2>2. UNCHANGED <<publishedAt, log>> /\ alive' = alive
    BY <1>5, <2>1 DEF MarkFailed, Done
  <2>3. /\ o.row \in Rows /\ o.attempt \in Nat
        /\ attempts[o.row] = o.attempt
        /\ attempts[o.row] + 1 < MaxAttempts
    BY <2>1 DEF TypeOK, Record, RecordsAgree, Owns, Exhausted
  <2>4. /\ status' \in [Rows -> Statuses]
        /\ publishedAt' \in [Rows -> BOOLEAN]
        /\ attempts' \in [Rows -> Nat]
        /\ available' \in [Rows -> BOOLEAN]
        /\ lockedBy' \in [Rows -> Workers \union {NoWorker}]
        /\ lease' \in [Rows -> {"none", "live", "expired"}]
    BY <2>1, <2>2, <2>3 DEF TypeOK, Statuses, Release
  <2>5. \A r \in Rows :
          /\ status[r] # "absent" => status'[r] # "absent"
          /\ \/ attempts'[r] = attempts[r] /\ lockedBy'[r] = lockedBy[r]
             \/ lockedBy'[r] = NoWorker
    BY <2>1, <2>2, <2>3 DEF TypeOK, Release
  <2>6. /\ RecordsAgree'
        /\ claimed' \in [Workers -> SUBSET Record]
        /\ pc' \in [Workers -> {"publish", "acked", "errored"}]
    BY <2>1, <2>2, <2>5, DoneAgrees
  <2>7. TypeOK'
    BY <2>2, <2>4, <2>6 DEF TypeOK
  <2>8. RowsAgree' /\ FailuresCounted'
    BY <2>1, <2>2, <2>3
    DEF RowsAgree, FailuresCounted, Open, Delivered, Release, TypeOK, Owns
  <2>9. QED
    BY <2>6, <2>7, <2>8
<1>6. CASE MarkTerminal(w)
  <2>1. PICK o \in claimed[w] :
          /\ Current(w, o)
          /\ Exhausted(o)
          /\ Owns(w, o.row)
          /\ status' = [status EXCEPT ![o.row] = "failed"]
          /\ attempts' = [attempts EXCEPT ![o.row] = @ + 1]
          /\ Release(o.row)
          /\ Done(w, o)
    BY <1>6 DEF MarkTerminal
  <2>2. UNCHANGED <<publishedAt, available, log>> /\ alive' = alive
    BY <1>6, <2>1 DEF MarkTerminal, Done
  <2>3. /\ o.row \in Rows /\ o.attempt \in Nat
        /\ attempts[o.row] = o.attempt
        /\ attempts[o.row] + 1 = MaxAttempts
    BY <2>1 DEF TypeOK, Record, RecordsAgree, Owns, Exhausted
  <2>4. /\ status' \in [Rows -> Statuses]
        /\ publishedAt' \in [Rows -> BOOLEAN]
        /\ attempts' \in [Rows -> Nat]
        /\ available' \in [Rows -> BOOLEAN]
        /\ lockedBy' \in [Rows -> Workers \union {NoWorker}]
        /\ lease' \in [Rows -> {"none", "live", "expired"}]
    BY <2>1, <2>2, <2>3 DEF TypeOK, Statuses, Release
  <2>5. \A r \in Rows :
          /\ status[r] # "absent" => status'[r] # "absent"
          /\ \/ attempts'[r] = attempts[r] /\ lockedBy'[r] = lockedBy[r]
             \/ lockedBy'[r] = NoWorker
    BY <2>1, <2>2, <2>3 DEF TypeOK, Release
  <2>6. /\ RecordsAgree'
        /\ claimed' \in [Workers -> SUBSET Record]
        /\ pc' \in [Workers -> {"publish", "acked", "errored"}]
    BY <2>1, <2>2, <2>5, DoneAgrees
  <2>7. TypeOK'
    BY <2>2, <2>4, <2>6 DEF TypeOK
  <2>8. RowsAgree' /\ FailuresCounted'
    BY <2>1, <2>2, <2>3
    DEF RowsAgree, FailuresCounted, Open, Delivered, Release, TypeOK, Owns
  <2>9. QED
    BY <2>6, <2>7, <2>8
<1>7. QED
  BY <1>3, <1>4, <1>5, <1>6 DEF Mark

\* A process ends: its rows wait for their lease to run out.
LEMMA StopStep ==
  ASSUME OutboxInv, NEW w \in Workers, Stop(w)
  PROVE  OutboxInv'
<1> USE DEF OutboxInv, Stop
<1>1. TypeOK'
  BY DEF TypeOK, table
<1>2. RowsAgree' /\ FailuresCounted'
  BY DEF RowsAgree, FailuresCounted, Open, Delivered, table
<1>3. RecordsAgree'
  BY DEF RecordsAgree, TypeOK, Delivered, Current, table
<1>4. QED
  BY <1>1, <1>2, <1>3

\* Every step of the outbox preserves the invariant.
LEMMA NextOutboxInv == OutboxInv /\ [Next]_vars => OutboxInv'
<1> SUFFICES ASSUME OutboxInv, [Next]_vars PROVE OutboxInv'
  OBVIOUS
<1>1. CASE UNCHANGED vars
  <2> USE <1>1 DEF vars, table, workers, OutboxInv
  <2>1. TypeOK'
    BY DEF TypeOK
  <2>2. RowsAgree' /\ FailuresCounted'
    BY DEF RowsAgree, FailuresCounted, Open, Delivered
  <2>3. RecordsAgree'
    BY DEF RecordsAgree, Delivered, Current
  <2>4. QED
    BY <2>1, <2>2, <2>3
<1>2. CASE Next
  BY <1>2, EnvironmentStep, ClaimStep, PublishStep, MarkStep, StopStep DEF Next
<1>3. QED
  BY <1>1, <1>2

\* The columns of every row agree with each other and with what the replicas
\* hold in memory, in every state of every execution.
THEOREM OutboxInvariant == Spec => []OutboxInv
<1>1. QED
  BY InitOutboxInv, NextOutboxInv, PTL DEF Spec

\* A mark only ever changes a row that is still in processing.
LEMMA SettledStep ==
  ASSUME OutboxInv, [Next]_vars, NEW r \in Rows, Settled(r)
  PROVE  status'[r] = status[r] /\ attempts'[r] = attempts[r] /\ publishedAt'[r] = publishedAt[r]
<1> USE DEF OutboxInv, table, workers
<1>1. status[r] \in {"published", "failed"} /\ lockedBy[r] = NoWorker
  BY DEF Settled, RowsAgree
<1>2. CASE UNCHANGED vars
  BY <1>2 DEF vars
<1>3. CASE \E tx \in Transactions : InsertOutbox(tx)
  BY <1>1, <1>3, OutboxAssumption DEF InsertOutbox, TypeOK
<1>4. CASE \E o \in Rows : BackoffElapses(o) \/ LeaseExpires(o)
  BY <1>4 DEF BackoffElapses, LeaseExpires
<1>5. ASSUME NEW w \in Workers, Claim(w) PROVE status'[r] = status[r]
  <2>1. PICK skipped \in MaySkip(w), S \in (SUBSET Rows) \ {{}} :
          /\ FirstRows(S, {o \in Rows : Claimable(o)} \ skipped)
          /\ status' = [o \in Rows |-> IF o \in S THEN "processing" ELSE status[o]]
    BY <1>5 DEF Claim
  <2>2. r \notin S
    BY <1>1, <2>1 DEF FirstRows, Claimable
  <2>3. QED
    BY <2>1, <2>2
<1>6. ASSUME NEW w \in Workers, Claim(w) PROVE UNCHANGED <<attempts, publishedAt>>
  BY <1>6 DEF Claim
<1>7. ASSUME NEW w \in Workers, Publish(w) \/ MarkLost(w) \/ Stop(w)
      PROVE  UNCHANGED <<status, attempts, publishedAt>>
  BY <1>7 DEF Publish, PublishAcked, PublishErrored, MarkLost, Stop
<1>8. ASSUME NEW w \in Workers, Mark(w)
      PROVE  status'[r] = status[r] /\ attempts'[r] = attempts[r] /\ publishedAt'[r] = publishedAt[r]
  <2>1. w # NoWorker
    BY OutboxAssumption
  <2>2. QED
    BY <1>1, <1>8, <2>1 DEF Mark, MarkPublished, MarkFailed, MarkTerminal, Owns, TypeOK
<1>9. QED
  BY <1>2, <1>3, <1>4, <1>5, <1>6, <1>7, <1>8 DEF Next

\* Published and failed are final, whatever stale replicas still do.
THEOREM SettledIsFinalHolds == Spec => SettledIsFinal
<1>1. OutboxInv /\ [Next]_vars =>
        [\A r \in Rows : Settled(r) =>
           /\ status'[r] = status[r]
           /\ attempts'[r] = attempts[r]
           /\ publishedAt'[r] = publishedAt[r]]_vars
  BY SettledStep
<1>2. QED
  BY <1>1, OutboxInvariant, PTL DEF Spec, SettledIsFinal

-----------------------------------------------------------------------------
(***************************************************************************)
(* Refinement: the outbox implements OutboxContract.                       *)
(***************************************************************************)

\* Writing a status moves the abstract outcome of that row only.
LEMMA OutcomeFollowsStatus ==
  ASSUME status \in [Rows -> Statuses], NEW r \in Rows, NEW s \in Statuses,
         status' = [status EXCEPT ![r] = s]
  PROVE  Outcome' = [Outcome EXCEPT ![r] = OutcomeOf(s)]
BY DEF Outcome, OutcomeOf

\* A table that keeps its statuses, and a log that keeps its events, is a
\* stuttering step of the contract.
LEMMA ContractStutter ==
  ASSUME UNCHANGED Outcome, UNCHANGED Delivered
  PROVE  UNCHANGED Contract!vars
BY DEF Contract!vars

\* Kafka storing a message is Deliver, or a stutter for a repeated copy.
LEMMA PublishRefines ==
  ASSUME OutboxInv, NEW w \in Workers, Publish(w)
  PROVE  [Contract!Next]_(Contract!vars)
<1> USE DEF OutboxInv
<1>1. PICK rec \in claimed[w] : Store(rec.row) \/ UNCHANGED log
  BY DEF Publish, PublishAcked, PublishErrored
<1>2. rec.row \in Rows
  BY DEF TypeOK, Record
<1>3. UNCHANGED Outcome
  BY DEF Publish, PublishAcked, PublishErrored, table, Outcome
<1>4. CASE UNCHANGED log
  <2>1. UNCHANGED Delivered
    BY <1>4 DEF Delivered
  <2>2. QED
    BY <1>3, <2>1, ContractStutter
<1>5. CASE Store(rec.row)
  <2>1. Delivered' = Delivered \union {rec.row}
    BY <1>2, <1>5, StoreDelivers DEF TypeOK
  <2>2. CASE rec.row \in Delivered
    <3>1. UNCHANGED Delivered
      BY <2>1, <2>2
    <3>2. QED
      BY <1>3, <3>1, ContractStutter
  <2>3. CASE rec.row \notin Delivered
    <3>1. status[rec.row] \in {"pending", "processing", "failed"}
      BY <1>2, <2>3 DEF TypeOK, Statuses, RowsAgree, RecordsAgree
    <3>2. Outcome[rec.row] \in {"open", "failed"}
      BY <1>2, <3>1 DEF Outcome, OutcomeOf
    <3>3. Contract!Deliver(rec.row)
      BY <1>3, <2>1, <3>2 DEF Contract!Deliver
    <3>4. QED
      BY <1>2, <3>3 DEF Contract!Next
  <2>4. QED
    BY <2>2, <2>3
<1>6. QED
  BY <1>1, <1>4, <1>5

\* The marks: published is Publish, the retry is invisible, terminal is GiveUp.
LEMMA MarkRefines ==
  ASSUME OutboxInv, NEW w \in Workers, Mark(w)
  PROVE  [Contract!Next]_(Contract!vars)
<1> USE DEF OutboxInv
<1>1. \A r \in Rows : Owns(w, r) => Outcome[r] = "open"
  <2>1. w # NoWorker
    BY OutboxAssumption
  <2>2. QED
    BY <2>1 DEF Owns, RowsAgree, Outcome, OutcomeOf
<1>2. UNCHANGED Delivered
  BY DEF Mark, MarkPublished, MarkFailed, MarkTerminal, Delivered
<1>3. CASE MarkPublished(w)
  <2>1. PICK rec \in claimed[w] :
          /\ Current(w, rec)
          /\ Owns(w, rec.row)
          /\ status' = [status EXCEPT ![rec.row] = "published"]
    BY <1>3 DEF MarkPublished
  <2>2. rec.row \in Rows /\ rec.row \in Delivered
    BY <1>3, <2>1 DEF MarkPublished, TypeOK, Record, RecordsAgree
  <2>3. Outcome' = [Outcome EXCEPT ![rec.row] = "published"]
    BY <2>1, <2>2, OutcomeFollowsStatus DEF TypeOK, Statuses, OutcomeOf
  <2>4. Contract!Publish(rec.row)
    BY <1>1, <1>2, <2>1, <2>2, <2>3 DEF Contract!Publish
  <2>5. QED
    BY <2>2, <2>4 DEF Contract!Next
<1>4. CASE MarkFailed(w)
  <2>1. PICK rec \in claimed[w] :
          /\ Owns(w, rec.row)
          /\ status' = [status EXCEPT ![rec.row] = "pending"]
    BY <1>4 DEF MarkFailed
  <2>2. rec.row \in Rows
    BY DEF TypeOK, Record
  <2>3. Outcome' = [Outcome EXCEPT ![rec.row] = "open"]
    BY <2>1, <2>2, OutcomeFollowsStatus DEF TypeOK, Statuses, OutcomeOf
  <2>4. UNCHANGED Outcome
    BY <1>1, <2>1, <2>2, <2>3 DEF Outcome
  <2>5. QED
    BY <1>2, <2>4, ContractStutter
<1>5. CASE MarkTerminal(w)
  <2>1. PICK rec \in claimed[w] :
          /\ Owns(w, rec.row)
          /\ status' = [status EXCEPT ![rec.row] = "failed"]
    BY <1>5 DEF MarkTerminal
  <2>2. rec.row \in Rows
    BY DEF TypeOK, Record
  <2>3. Outcome' = [Outcome EXCEPT ![rec.row] = "failed"]
    BY <2>1, <2>2, OutcomeFollowsStatus DEF TypeOK, Statuses, OutcomeOf
  <2>4. Contract!GiveUp(rec.row)
    BY <1>1, <1>2, <2>1, <2>2, <2>3 DEF Contract!GiveUp
  <2>5. QED
    BY <2>2, <2>4 DEF Contract!Next
<1>6. QED
  BY <1>3, <1>4, <1>5 DEF Mark

\* A claim takes only open rows and leaves them open.
LEMMA ClaimRefines ==
  ASSUME OutboxInv, NEW w \in Workers, Claim(w)
  PROVE  UNCHANGED Contract!vars
<1>1. PICK skipped \in MaySkip(w), S \in (SUBSET Rows) \ {{}} :
        /\ FirstRows(S, {r \in Rows : Claimable(r)} \ skipped)
        /\ status' = [r \in Rows |-> IF r \in S THEN "processing" ELSE status[r]]
  BY DEF Claim
<1>2. \A r \in S : OutcomeOf(status[r]) = "open"
  BY <1>1 DEF FirstRows, Claimable, OutcomeOf
<1>3. \A r \in Rows : OutcomeOf(status'[r]) = OutcomeOf(status[r])
  BY <1>1, <1>2 DEF OutcomeOf
<1>4. UNCHANGED Outcome
  BY <1>3 DEF Outcome
<1>5. UNCHANGED Delivered
  BY DEF Claim, Delivered
<1>6. QED
  BY <1>4, <1>5, ContractStutter

\* Every step of the leased outbox is a step of the abstract one or a stutter.
LEMMA RefineStep == OutboxInv /\ [Next]_vars => [Contract!Next]_(Contract!vars)
<1> SUFFICES ASSUME OutboxInv, [Next]_vars
             PROVE  [Contract!Next]_(Contract!vars)
  OBVIOUS
<1>1. CASE UNCHANGED vars
  <2>1. UNCHANGED Outcome /\ UNCHANGED Delivered
    BY <1>1 DEF vars, table, Outcome, Delivered
  <2>2. QED
    BY <2>1, ContractStutter
<1>2. ASSUME NEW tx \in Transactions, InsertOutbox(tx)
      PROVE  [Contract!Next]_(Contract!vars)
  <2>1. tx \in SUBSET Rows
    BY OutboxAssumption
  <2>2. \A r \in tx : Outcome[r] = "absent"
    BY <1>2, <2>1 DEF InsertOutbox, Outcome, OutcomeOf
  <2>3. Outcome' = [r \in Rows |-> IF r \in tx THEN "open" ELSE Outcome[r]]
    BY <1>2 DEF InsertOutbox, Outcome, OutcomeOf
  <2>4. UNCHANGED Delivered
    BY <1>2 DEF InsertOutbox, Delivered
  <2>5. Contract!Commit(tx)
    BY <2>2, <2>3, <2>4 DEF Contract!Commit
  <2>6. QED
    BY <2>1, <2>5 DEF Contract!Next
<1>3. ASSUME NEW r \in Rows, BackoffElapses(r) \/ LeaseExpires(r)
      PROVE  UNCHANGED Contract!vars
  <2>1. UNCHANGED Outcome /\ UNCHANGED Delivered
    BY <1>3 DEF BackoffElapses, LeaseExpires, Outcome, Delivered
  <2>2. QED
    BY <2>1, ContractStutter
<1>4. ASSUME NEW w \in Workers, MarkLost(w) \/ Stop(w)
      PROVE  UNCHANGED Contract!vars
  <2>1. UNCHANGED Outcome /\ UNCHANGED Delivered
    BY <1>4 DEF MarkLost, Stop, table, Outcome, Delivered
  <2>2. QED
    BY <2>1, ContractStutter
<1>5. CASE Next
  BY <1>2, <1>3, <1>4, <1>5, PublishRefines, MarkRefines, ClaimRefines DEF Next
<1>6. QED
  BY <1>1, <1>5

\* The outbox implements its contract: at-least-once delivery before an event
\* is called published, and outcomes that are never revised.
THEOREM OutboxImplementsContract == Spec => ImplementsContract
<1>1. Init => Contract!Init
  BY DEF Init, Contract!Init, Outcome, OutcomeOf, Delivered
<1>2. QED
  BY <1>1, OutboxInvariant, RefineStep, PTL DEF Spec, ImplementsContract, Contract!Spec
=============================================================================
