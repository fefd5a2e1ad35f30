-------------------------- MODULE PortfolioOutbox --------------------------
(***************************************************************************)
(* The portfolio service's outbox: the portfolio_outbox_events table and   *)
(* its publisher (internal/outbox).  Unlike the order service's it has no  *)
(* lease: a poll moves the rows it takes to `publishing', and only the     *)
(* poll that took them ever looks at them again.                           *)
(*                                                                         *)
(* Abstractions.  Row i is the i-th row inserted (id).  next_attempt_at    *)
(* only delays the next poll that takes the row.  attempts is counted up   *)
(* to MaxAttempts, beyond which no comparison changes.  No other process   *)
(* reads or writes a row in `publishing', so publishing a record and       *)
(* marking it is one step with several outcomes.  Rows of one poll are     *)
(* published in any order (created_at is the start of the inserting        *)
(* transaction, not its place in the table).                               *)
(***************************************************************************)
EXTENDS Integers, Sequences, FiniteSets

CONSTANTS
  Publishers,   \* the processes with OUTBOX_ENABLED
  MaxAttempts,  \* OUTBOX_MAX_ATTEMPTS
  BatchSize     \* OUTBOX_BATCH_SIZE

ASSUME PortfolioOutboxAssumption ==
  /\ MaxAttempts \in Nat \ {0}
  /\ BatchSize \in Nat \ {0}

VARIABLES
  outbox,     \* the rows: [status, attempts, event]
  batch,      \* batch[w]: the rows w took and has not dealt with
  delivered   \* the rows whose event the portfolio.updated topic holds

outboxVars == <<outbox, batch, delivered>>

RowStatuses == {"pending", "publishing", "published", "failed"}
Row(Events) == [status : RowStatuses, attempts : 0 .. MaxAttempts, event : Events]

OutboxTypeOK(Events) ==
  /\ outbox \in Seq(Row(Events))
  /\ batch \in [Publishers -> SUBSET Nat]
  /\ delivered \in SUBSET Nat

OutboxInit ==
  /\ outbox = <<>>
  /\ batch = [w \in Publishers |-> {}]
  /\ delivered = {}

\* insertPortfolioOutbox, inside the transaction that applies a trade.
Insert(event) ==
  /\ outbox' = Append(outbox, [status |-> "pending", attempts |-> 0, event |-> event])
  /\ UNCHANGED <<batch, delivered>>

\* The WHERE clause when a failed row is given up for good.
DuePendingOnly == {i \in DOMAIN outbox : outbox[i].status = "pending"}

\* The WHERE clause of FetchPending.  A row marked failed is taken again.
Due == {i \in DOMAIN outbox : outbox[i].status \in {"pending", "failed"}}

\* ORDER BY created_at, id LIMIT: as many as fit; SKIP LOCKED lets other
\* rows be taken than the first.
FetchPending(w) ==
  /\ batch[w] = {}
  /\ \E S \in SUBSET Due :
       /\ S # {}
       /\ \/ Cardinality(S) = BatchSize
          \/ Cardinality(S) < BatchSize /\ S = Due
       /\ outbox' = [i \in DOMAIN outbox |->
            IF i \in S THEN [outbox[i] EXCEPT !.status = "publishing"] ELSE outbox[i]]
       /\ batch' = [batch EXCEPT ![w] = S]
  /\ UNCHANGED delivered

Dealt(w, i) == batch' = [batch EXCEPT ![w] = @ \ {i}]

\* The broker acknowledges and the row is marked.
MarkPublished(w, i) ==
  /\ i \in batch[w]
  /\ Dealt(w, i)
  /\ delivered' = delivered \union {i}
  /\ outbox' = [outbox EXCEPT ![i].status = "published"]

\* The publish fails: the broker may hold the event all the same.
MarkFailed(w, i) ==
  /\ i \in batch[w]
  /\ Dealt(w, i)
  /\ delivered' \in {delivered, delivered \union {i}}
  /\ outbox' = [outbox EXCEPT
       ![i].status = IF outbox[i].attempts + 1 >= MaxAttempts THEN "failed" ELSE "pending",
       ![i].attempts = IF @ < MaxAttempts THEN @ + 1 ELSE @]

\* The mark itself fails, which is logged: the row stays in publishing.
MarkLost(w, i) ==
  /\ i \in batch[w]
  /\ Dealt(w, i)
  /\ delivered' \in {delivered, delivered \union {i}}
  /\ UNCHANGED outbox

\* The process stops between two records, or dies.
DropBatch(w) == batch' = [batch EXCEPT ![w] = {}]

\* Rows that no poll takes any more and no process holds.
Stranded == {i \in DOMAIN outbox :
  outbox[i].status = "publishing" /\ \A w \in Publishers : i \notin batch[w]}
=============================================================================
