---------------------------- MODULE OrderOutbox ----------------------------
(***************************************************************************)
(* The order service's transactional outbox: the order_outbox table and    *)
(* the publisher of every replica (internal/outbox).                       *)
(*                                                                         *)
(* A replica polls: it claims a batch of rows in one transaction (status   *)
(* processing, locked_by, lease_until), then publishes the batch one       *)
(* record at a time outside any transaction, and writes the outcome of     *)
(* each record back.  The interesting steps are the ones between a claim   *)
(* and its mark: the lease runs out, another replica claims the row, the   *)
(* process dies, Kafka stores the message but the answer is lost, the mark *)
(* itself fails.                                                           *)
(*                                                                         *)
(* Abstractions.  Rows are numbered in the order of the claim query        *)
(* (created_at, id).  Clocks appear only through their comparisons:        *)
(* `available' is available_at <= NOW(), `lease' says whether lease_until  *)
(* is NULL, in the future or in the past.  The payload column is JSONB, so *)
(* json.Valid never fails and publishOne's malformed branch is dead.  The  *)
(* log keeps the first copy of each event; repeated copies change nothing  *)
(* any property here speaks of.  Every process has a fresh worker id       *)
(* (workerID), so a restart is another element of Workers.                 *)
(***************************************************************************)
EXTENDS Naturals, Sequences, FiniteSets

CONSTANTS
  Rows,          \* outbox rows, numbered in (created_at, id) order
  Transactions,  \* the sets of rows that one business transaction inserts
  Workers,       \* worker ids of the publisher processes
  NoWorker,      \* locked_by IS NULL
  MaxAttempts,   \* OUTBOX_MAX_ATTEMPTS
  BatchSize      \* OUTBOX_BATCH_SIZE

ASSUME OutboxAssumption ==
  /\ Rows \subseteq Nat
  /\ Transactions \subseteq SUBSET Rows
  /\ NoWorker \notin Workers
  /\ MaxAttempts \in Nat \ {0}
  /\ BatchSize \in Nat \ {0}

VARIABLES
  status,       \* status[r]: the status column, "absent" before the insert
  publishedAt,  \* publishedAt[r]: published_at IS NOT NULL
  attempts,     \* attempts[r]: attempt_count
  available,    \* available[r]: available_at <= NOW()
  lockedBy,     \* lockedBy[r]: locked_by
  lease,        \* lease[r]: lease_until is "none", "live" or "expired"
  alive,        \* the processes that run
  claimed,      \* claimed[w]: the records of w's batch not yet dealt with
  pc,           \* pc[w]: how far w is with the first of them
  log           \* the events Kafka stores, in the order of their first copy

table == <<status, publishedAt, attempts, available, lockedBy, lease>>
workers == <<alive, claimed, pc>>
vars == <<table, workers, log>>

\* A Record as Claim returns it: the row and its attempt_count at that time.
Record == [row : Rows, attempt : Nat]

Statuses == {"absent", "pending", "processing", "published", "failed"}

TypeOK ==
  /\ status \in [Rows -> Statuses]
  /\ publishedAt \in [Rows -> BOOLEAN]
  /\ attempts \in [Rows -> Nat]
  /\ available \in [Rows -> BOOLEAN]
  /\ lockedBy \in [Rows -> Workers \union {NoWorker}]
  /\ lease \in [Rows -> {"none", "live", "expired"}]
  /\ alive \in SUBSET Workers
  /\ claimed \in [Workers -> SUBSET Record]
  /\ pc \in [Workers -> {"publish", "acked", "errored"}]
  /\ log \in Seq(Rows)

Init ==
  /\ status = [r \in Rows |-> "absent"]
  /\ publishedAt = [r \in Rows |-> FALSE]
  /\ attempts = [r \in Rows |-> 0]
  /\ available = [r \in Rows |-> TRUE]
  /\ lockedBy = [r \in Rows |-> NoWorker]
  /\ lease = [r \in Rows |-> "none"]
  /\ alive = Workers
  /\ claimed = [w \in Workers |-> {}]
  /\ pc = [w \in Workers |-> "publish"]
  /\ log = <<>>

Delivered == {log[i] : i \in DOMAIN log}

-----------------------------------------------------------------------------
(***************************************************************************)
(* Rows                                                                    *)
(***************************************************************************)

\* insertOutbox, once per event of a business transaction, atomically with
\* the rest of it.
InsertOutbox(tx) ==
  /\ \A r \in tx : status[r] = "absent"
  /\ status' = [r \in Rows |-> IF r \in tx THEN "pending" ELSE status[r]]
  /\ UNCHANGED <<publishedAt, attempts, available, lockedBy, lease, workers, log>>

\* available_at passes.
BackoffElapses(r) ==
  /\ ~available[r]
  /\ available' = [available EXCEPT ![r] = TRUE]
  /\ UNCHANGED <<status, publishedAt, attempts, lockedBy, lease, workers, log>>

\* lease_until passes.
LeaseExpires(r) ==
  /\ lease[r] = "live"
  /\ lease' = [lease EXCEPT ![r] = "expired"]
  /\ UNCHANGED <<status, publishedAt, attempts, available, lockedBy, workers, log>>

-----------------------------------------------------------------------------
(***************************************************************************)
(* Claim                                                                   *)
(***************************************************************************)

\* The WHERE clause when rows left in processing are never looked at again.
ClaimablePendingOnly(r) ==
  /\ ~publishedAt[r]
  /\ status[r] = "pending"
  /\ available[r]
  /\ attempts[r] < MaxAttempts
  /\ lease[r] \in {"none", "expired"}

\* The WHERE clause of the claim query.
Claimable(r) ==
  /\ ~publishedAt[r]
  /\ status[r] \in {"pending", "processing"}
  /\ available[r]
  /\ attempts[r] < MaxAttempts
  /\ lease[r] \in {"none", "expired"}

\* ORDER BY created_at, id ... LIMIT: the first BatchSize rows of C.
FirstRows(S, C) ==
  /\ S \subseteq C
  /\ \A r \in S, o \in C \ S : r < o
  /\ \/ Cardinality(S) = BatchSize
     \/ Cardinality(S) < BatchSize /\ S = C

\* SKIP LOCKED passes over the rows that a transaction of another replica
\* holds locked at that moment: any rows, but none when there is no other.
MaySkip(w) == IF alive = {w} THEN {{}} ELSE SUBSET Rows

\* A poll claims a batch: nothing else of the replica runs until the batch
\* is dealt with.
Claim(w) ==
  /\ w \in alive
  /\ claimed[w] = {}
  /\ \E skipped \in MaySkip(w), S \in (SUBSET Rows) \ {{}} :
       /\ FirstRows(S, {r \in Rows : Claimable(r)} \ skipped)
       /\ status' = [r \in Rows |-> IF r \in S THEN "processing" ELSE status[r]]
       /\ lockedBy' = [r \in Rows |-> IF r \in S THEN w ELSE lockedBy[r]]
       /\ lease' = [r \in Rows |-> IF r \in S THEN "live" ELSE lease[r]]
       /\ claimed' = [claimed EXCEPT ![w] =
                        {[row |-> r, attempt |-> attempts[r]] : r \in S}]
  /\ UNCHANGED <<publishedAt, attempts, available, alive, pc, log>>

-----------------------------------------------------------------------------
(***************************************************************************)
(* Publishing one record                                                   *)
(***************************************************************************)

\* The record of the batch that w is busy with: the batch is published in
\* the order of the claim query.
Current(w, rec) ==
  /\ rec \in claimed[w]
  /\ \A o \in claimed[w] : rec.row <= o.row

Store(r) == log' = IF r \in Delivered THEN log ELSE Append(log, r)

\* PublishRaw returns nil: the broker has acknowledged the message.
PublishAcked(w) ==
  /\ w \in alive
  /\ pc[w] = "publish"
  /\ \E rec \in claimed[w] : Current(w, rec) /\ Store(rec.row)
  /\ pc' = [pc EXCEPT ![w] = "acked"]
  /\ UNCHANGED <<table, alive, claimed>>

\* PublishRaw returns an error.  A timeout does not say whether the broker
\* stored the message.
PublishErrored(w) ==
  /\ w \in alive
  /\ pc[w] = "publish"
  /\ \E rec \in claimed[w] : Current(w, rec) /\ (Store(rec.row) \/ UNCHANGED log)
  /\ pc' = [pc EXCEPT ![w] = "errored"]
  /\ UNCHANGED <<table, alive, claimed>>

\* publishOne returns and the loop of poll goes on to the next record.
Done(w, rec) ==
  /\ claimed' = [claimed EXCEPT ![w] = @ \ {rec}]
  /\ pc' = [pc EXCEPT ![w] = "publish"]
  /\ UNCHANGED alive

\* The WHERE clause without its ownership test.
OwnsIfUnpublished(w, r) == ~publishedAt[r]

\* The WHERE clause of the three mark statements: published_at IS NULL AND
\* locked_by = workerID.
Owns(w, r) == ~publishedAt[r] /\ lockedBy[r] = w

Release(r) ==
  /\ lockedBy' = [lockedBy EXCEPT ![r] = NoWorker]
  /\ lease' = [lease EXCEPT ![r] = "none"]

\* The mark statement of a publisher that also treats an errored record so.
MarkPublishedAlways(w) ==
  /\ w \in alive
  /\ pc[w] \in {"acked", "errored"}
  /\ \E rec \in claimed[w] :
       /\ Current(w, rec)
       /\ Owns(w, rec.row)
       /\ status' = [status EXCEPT ![rec.row] = "published"]
       /\ publishedAt' = [publishedAt EXCEPT ![rec.row] = TRUE]
       /\ Release(rec.row)
       /\ Done(w, rec)
  /\ UNCHANGED <<attempts, available, log>>

\* repo.MarkPublished updates the row.
MarkPublished(w) ==
  /\ w \in alive
  /\ pc[w] = "acked"
  /\ \E rec \in claimed[w] :
       /\ Current(w, rec)
       /\ Owns(w, rec.row)
       /\ status' = [status EXCEPT ![rec.row] = "published"]
       /\ publishedAt' = [publishedAt EXCEPT ![rec.row] = TRUE]
       /\ Release(rec.row)
       /\ Done(w, rec)
  /\ UNCHANGED <<attempts, available, log>>

\* retryOrTerminal's test, on the attempt_count the claim returned.
Exhausted(rec) == rec.attempt + 1 >= MaxAttempts

\* retryOrTerminal below the limit: repo.MarkFailed updates the row and the
\* backoff starts.
MarkFailed(w) ==
  /\ w \in alive
  /\ pc[w] = "errored"
  /\ \E rec \in claimed[w] :
       /\ Current(w, rec)
       /\ ~Exhausted(rec)
       /\ Owns(w, rec.row)
       /\ status' = [status EXCEPT ![rec.row] = "pending"]
       /\ attempts' = [attempts EXCEPT ![rec.row] = @ + 1]
       /\ available' = [available EXCEPT ![rec.row] = FALSE]
       /\ Release(rec.row)
       /\ Done(w, rec)
  /\ UNCHANGED <<publishedAt, log>>

\* retryOrTerminal at the limit: repo.MarkTerminal updates the row.
MarkTerminal(w) ==
  /\ w \in alive
  /\ pc[w] = "errored"
  /\ \E rec \in claimed[w] :
       /\ Current(w, rec)
       /\ Exhausted(rec)
       /\ Owns(w, rec.row)
       /\ status' = [status EXCEPT ![rec.row] = "failed"]
       /\ attempts' = [attempts EXCEPT ![rec.row] = @ + 1]
       /\ Release(rec.row)
       /\ Done(w, rec)
  /\ UNCHANGED <<publishedAt, available, log>>

\* The mark changes no row: either the statement returns an error, or it
\* matches no row because the lease was lost.  Both are logged and skipped.
MarkLost(w) ==
  /\ w \in alive
  /\ pc[w] \in {"acked", "errored"}
  /\ \E rec \in claimed[w] : Current(w, rec) /\ Done(w, rec)
  /\ UNCHANGED <<table, log>>

\* The process ends, by a crash or by a shutdown in the middle of a batch:
\* the rows stay in processing under its id.  Another replica is left.
Stop(w) ==
  /\ w \in alive
  /\ alive # {w}
  /\ alive' = alive \ {w}
  /\ claimed' = [claimed EXCEPT ![w] = {}]
  /\ pc' = [pc EXCEPT ![w] = "publish"]
  /\ UNCHANGED <<table, log>>

-----------------------------------------------------------------------------
Mark(w) == MarkPublished(w) \/ MarkFailed(w) \/ MarkTerminal(w)

Publish(w) == PublishAcked(w) \/ PublishErrored(w)

Next ==
  \/ \E tx \in Transactions : InsertOutbox(tx)
  \/ \E r \in Rows : BackoffElapses(r) \/ LeaseExpires(r)
  \/ \E w \in Workers : Claim(w) \/ Publish(w) \/ Mark(w) \/ MarkLost(w) \/ Stop(w)

Spec == Init /\ [][Next]_vars

(***************************************************************************)
(* Fairness.  Timers run out, and a replica that is up keeps polling and   *)
(* gets through its batch (the ticker loop of Run, the publish and mark    *)
(* timeouts).  The database answers a mark that keeps being tried: strong  *)
(* fairness, since an error skips the record.  Timely says that from some  *)
(* time on no lease runs out while its owner is busy with that very row,   *)
(* which is what config.go:233 (lease longer than the publish timeout) is  *)
(* there for; the other rows of a batch may lose their lease for ever.     *)
(***************************************************************************)
BusyWith(r) == \E w \in alive : lockedBy[r] = w /\ \E rec \in claimed[w] :
                 Current(w, rec) /\ rec.row = r

Timely ==
  <>[][\A r \in Rows : lease[r] = "live" /\ lease'[r] = "expired" => ~BusyWith(r)]_vars

Fairness ==
  /\ \A r \in Rows : WF_vars(BackoffElapses(r)) /\ WF_vars(LeaseExpires(r))
  /\ \A w \in Workers : /\ WF_vars(Claim(w))
                        /\ WF_vars(Publish(w))
                        /\ SF_vars(Mark(w))
                        /\ WF_vars(MarkLost(w))

FairSpec == Spec /\ Fairness /\ Timely

-----------------------------------------------------------------------------
(***************************************************************************)
(* Properties                                                              *)
(***************************************************************************)

Open(r) == status[r] \in {"pending", "processing"}
Settled(r) == status[r] \in {"published", "failed"}

\* attempt_count is the number of failures that were recorded, MaxAttempts at
\* most: a row is given up on the last of them, and one that is still open has
\* one left, whatever stale replicas write in between.  It is no bound on how
\* often a record is published: a try that ends in a crash, an expired lease or
\* a mark that fails is not counted (MarkFailed and MarkTerminal count).
FailuresCounted ==
  \A r \in Rows :
    /\ attempts[r] <= MaxAttempts
    /\ status[r] = "failed" => attempts[r] = MaxAttempts
    /\ Open(r) => attempts[r] < MaxAttempts

\* The row columns that must agree: an open row can always be claimed once
\* its timers have run out, and a settled row belongs to nobody.
RowsAgree ==
  \A r \in Rows :
    /\ publishedAt[r] <=> status[r] = "published"
    /\ status[r] = "processing" <=> lockedBy[r] # NoWorker
    /\ lease[r] = "none" <=> lockedBy[r] = NoWorker
    /\ status[r] = "absent" => attempts[r] = 0
    /\ status[r] = "published" => r \in Delivered

\* What a replica holds in memory agrees with the table as long as the row is
\* still its own, and it calls a record acknowledged only if Kafka has it.
RecordsAgree ==
  \A w \in Workers :
    /\ claimed[w] = {} => pc[w] = "publish"
    /\ \A rec \in claimed[w] :
         /\ w \in alive
         /\ rec.attempt < MaxAttempts
         /\ status[rec.row] # "absent"
         /\ lockedBy[rec.row] = w => attempts[rec.row] = rec.attempt
         /\ \A o \in claimed[w] : o.row = rec.row => o = rec
         /\ pc[w] = "acked" /\ Current(w, rec) => rec.row \in Delivered

\* The inductive invariant: types, the agreement of the columns, of the
\* replicas' memory with the table, and what the attempt count means.
OutboxInv == TypeOK /\ RowsAgree /\ RecordsAgree /\ FailuresCounted

\* Once a row is published or given up no replica changes it any more, not
\* even one that claimed it before and only now comes back with its mark.
SettledIsFinal ==
  [][\A r \in Rows : Settled(r) =>
       /\ status'[r] = status[r]
       /\ attempts'[r] = attempts[r]
       /\ publishedAt'[r] = publishedAt[r]]_vars

OutcomeOf(s) == IF s \in {"pending", "processing"} THEN "open" ELSE s

\* The abstract state a table stands for: a claim or a retry is invisible.
Outcome == [r \in Rows |-> OutcomeOf(status[r])]

Contract == INSTANCE OutboxContract WITH
  Events <- Rows, outcome <- Outcome, delivered <- Delivered

\* The leases, retries and marks implement the abstract outbox: nothing is
\* called published that Kafka does not hold, and no outcome is revised.
ImplementsContract == Contract!Spec

\* Every committed event is eventually published or given up, although
\* replicas die, leases run out, publishes time out and marks get lost.
EverySettles == \A r \in Rows : Open(r) ~> Settled(r)

=============================================================================
