-------------------------- MODULE PortfolioService --------------------------
(***************************************************************************)
(* The portfolio service: the trade consumer, the transaction that applies *)
(* an execution to two portfolios (ApplyTradeExecution) and the outbox its *)
(* portfolio.updated events leave by.  Every process runs one reader and   *)
(* one publisher.                                                          *)
(*                                                                         *)
(* The transaction is modelled at the granularity of its conflicts: it     *)
(* looks for the execution among the processed events, takes the row lock  *)
(* of the buyer's portfolio, then the seller's (ensurePortfolio), and does *)
(* the rest holding both.  The sorted locks on cash and holdings come      *)
(* after these two and are never waited for.                               *)
(*                                                                         *)
(* Abstractions.  One symbol and one tenant.  A user without a portfolio   *)
(* row has the initial cash, which is what ensurePortfolio inserts.        *)
(* Amounts are integers that count the last digit the average price keeps, *)
(* a quotient in an unbounded NUMERIC column.  Every other amount is       *)
(* rounded where the code rounds it: to ten decimals on its way into a     *)
(* statement, to eight in the columns of portfolio_transactions and in the *)
(* event.  In between the code computes in float64, which tells apart      *)
(* amounts of at most fifteen digits: the model is about those, and about  *)
(* amounts that fit the twelve places of NUMERIC(20, 8).  (The average,    *)
(* too, is read as a float64; that can move the tenth decimal of a profit, *)
(* and no property asks how large a profit is.)                            *)
(* `ledger' lists the rows of portfolio_processed_events by id, as the     *)
(* messages they were made from; the payload hash compares the fields of a *)
(* message that it covers.                                                 *)
(***************************************************************************)
EXTENDS EventConsumer, PortfolioOutbox, Decimals, FiniteSetsExt

CONSTANTS
  Users,
  Messages,          \* what the partitions may contain
  Body,              \* Body[m]: what message m says
  Feed,              \* Feed[p]: the messages partition p is going to get
  FirstAssignment,   \* which reader the group gives which partition at first
  InitialCash,       \* PORTFOLIO_INITIAL_CASH
  InitialHoldings,   \* InitialHoldings[u]: rows from before, bought at price 1
  One,               \* the number 1
  TenthDecimal,      \* what the tenth decimal of an amount stands for
  EighthDecimal,     \* what the eighth decimal stands for
  MaxFaults          \* bound on crashes, rebalances, failed statements and publishes

Bodies == [eventType : {"trade.executed", "order.filled"}, complete : BOOLEAN,
           executionId : Nat, buyer : Users, seller : Users,
           quantity : Int, price : Int]

\* The balances of a user, and what a portfolio.updated event says of them.
Portfolios == [user : Users, cash : Int, totalValue : Int, realized : Int]
Updates == [portfolio : Portfolios, quantity : Int, average : Int]

ASSUME PortfolioAssumption ==
  /\ Publishers \subseteq Readers
  /\ Nothing \notin Readers
  /\ Body \in [Messages -> Bodies]
  /\ Feed \in [Partitions -> Seq(Messages)]
  /\ FirstAssignment \in [Partitions -> Readers]
  /\ InitialCash \in Nat
  /\ {One, TenthDecimal, EighthDecimal} \subseteq Nat \ {0}
  /\ InitialHoldings \in [Users -> Nat]
  /\ \A u \in Users : InitialHoldings[u] % TenthDecimal = 0
  /\ MaxFaults \in Nat

VARIABLES
  cash,          \* cash_balances.cash_balance
  realized,      \* cash_balances.realized_pnl
  holdings,      \* portfolio_holdings: [quantity, average]
  transactions,  \* portfolio_transactions
  ledger,        \* portfolio_processed_events, by id
  snapshots,     \* portfolio_snapshots, by id
  tx,            \* tx[r]: how far r's transaction is
  lockedBy,      \* lockedBy[u]: the reader that holds u's portfolio row
  faults         \* faults so far

books == <<cash, realized, holdings, transactions, ledger, snapshots>>
vars == <<consumerVars, outboxVars, books, tx, lockedBy, faults>>

Init ==
  /\ ConsumerInit(FirstAssignment)
  /\ OutboxInit
  /\ cash = [u \in Users |-> InitialCash]
  /\ realized = [u \in Users |-> 0]
  /\ holdings = [u \in Users |-> [quantity |-> InitialHoldings[u], average |-> One]]
  /\ transactions = {}
  /\ ledger = <<>>
  /\ snapshots = <<>>
  /\ tx = [r \in Readers |-> "none"]
  /\ lockedBy = [u \in Users |-> Nothing]
  /\ faults = 0

\* One of the faults that MaxFaults bounds.
Fault == faults < MaxFaults /\ faults' = faults + 1

\* The body of the message r is busy with.
Event(r) == Body[Message(r)]

-----------------------------------------------------------------------------
(***************************************************************************)
(* Handling a message                                                      *)
(***************************************************************************)

\* normalizeTradeExecuted; `complete' stands for the version, the required
\* fields, the two order ids, the currency and the time.
Valid(b) ==
  /\ b.complete
  /\ b.buyer # b.seller
  /\ b.quantity > 0
  /\ b.price > 0

\* order.filled is consumed and ignored; so is every type but trade.executed.
SkipOther(r) ==
  /\ Attempting(r)
  /\ tx[r] = "none"
  /\ Event(r).eventType # "trade.executed"
  /\ Succeed(r)
  /\ UNCHANGED <<outboxVars, books, tx, lockedBy, faults>>

RejectInvalid(r) ==
  /\ Attempting(r)
  /\ tx[r] = "none"
  /\ Event(r).eventType = "trade.executed"
  /\ ~Valid(Event(r))
  /\ FailAttempt(r)
  /\ UNCHANGED <<outboxVars, books, tx, lockedBy, faults>>

\* fmt.Sprintf("%.10f") of an amount, and of a product of two.
Ten(x) == RoundedTo(x, TenthDecimal)
Product(x, y) == TenthDecimal * Nearest(x * y, One * TenthDecimal)

PayloadHash(b) == <<b.executionId, b.buyer, b.seller, Ten(b.quantity), Ten(b.price)>>

RowsOf(execution) == {i \in DOMAIN ledger : Body[ledger[i]].executionId = execution}
Processed(execution) == RowsOf(execution) # {}

Starting(r) ==
  /\ Attempting(r)
  /\ tx[r] = "none"
  /\ Event(r).eventType = "trade.executed"
  /\ Valid(Event(r))

\* The execution is not among the processed events: the transaction goes on.
BeginTransaction(r) ==
  /\ Starting(r)
  /\ ~Processed(Event(r).executionId)
  /\ tx' = [tx EXCEPT ![r] = "checked"]
  /\ UNCHANGED <<consumerVars, outboxVars, books, lockedBy, faults>>

\* It is: a duplicate when the payload hash agrees, an error when it does not.
SkipDuplicate(r) ==
  /\ Starting(r)
  /\ \E i \in RowsOf(Event(r).executionId) :
       IF PayloadHash(Body[ledger[i]]) = PayloadHash(Event(r))
       THEN Succeed(r) ELSE FailAttempt(r)
  /\ UNCHANGED <<outboxVars, books, tx, lockedBy, faults>>

LockBuyer(r) ==
  /\ tx[r] = "checked"
  /\ lockedBy[Event(r).buyer] = Nothing
  /\ lockedBy' = [lockedBy EXCEPT ![Event(r).buyer] = r]
  /\ tx' = [tx EXCEPT ![r] = "buyer"]
  /\ UNCHANGED <<consumerVars, outboxVars, books, faults>>

LockSeller(r) ==
  /\ tx[r] = "buyer"
  /\ lockedBy[Event(r).seller] = Nothing
  /\ lockedBy' = [lockedBy EXCEPT ![Event(r).seller] = r]
  /\ tx' = [tx EXCEPT ![r] = "both"]
  /\ UNCHANGED <<consumerVars, outboxVars, books, faults>>

\* An error path without the rollback: the locks stay.
EndWithoutRollback(r) ==
  /\ tx' = [tx EXCEPT ![r] = "none"]
  /\ UNCHANGED lockedBy

\* The transaction ends, one way or the other: its locks go.
EndTransaction(r) ==
  /\ tx' = [tx EXCEPT ![r] = "none"]
  /\ lockedBy' = [u \in Users |-> IF lockedBy[u] = r THEN Nothing ELSE lockedBy[u]]

\* The buyer's new row; the average weighs what was held and what is bought.
Bought(h, b) ==
  LET total == h.quantity + Ten(b.quantity)
  IN [quantity |-> total,
      average |-> IF total = 0 THEN 0
                  ELSE Nearest(h.quantity * h.average + Ten(b.quantity) * Ten(b.price), total)]

Gross(b) == Product(b.quantity, b.price)

\* A row of portfolio_transactions, whose amounts are NUMERIC(20, 8).
Transaction(b, user, side, profit) ==
  [user |-> user, executionId |-> b.executionId, side |-> side,
   quantity |-> RoundedTo(Ten(b.quantity), EighthDecimal),
   gross |-> RoundedTo(Gross(b), EighthDecimal),
   realized |-> RoundedTo(profit, EighthDecimal)]

\* Balances read before the transaction changed them.
PortfolioBefore(u, c, h, p) ==
  [user |-> u, cash |-> cash[u],
   totalValue |-> c[u] + Nearest(h[u].quantity * h[u].average, One), realized |-> p[u]]

\* readPortfolio, the row of createSnapshot: balances, with holdings at cost.
Portfolio(u, c, h, p) ==
  [user |-> u, cash |-> c[u],
   totalValue |-> c[u] + Nearest(h[u].quantity * h[u].average, One), realized |-> p[u]]

\* buildPortfolioUpdatedEvent; formatDecimal keeps eight decimals.
PortfolioUpdated(u, c, h, p) ==
  [portfolio |-> Portfolio(u, c, h, p),
   quantity |-> RoundedTo(h[u].quantity, EighthDecimal),
   average |-> RoundedTo(h[u].average, EighthDecimal)]

\* Everything the transaction writes; the unique indexes on processed events
\* keep a second row for the execution out.
WriteBooks(b, m) ==
  LET profit == Product(b.price - holdings[b.seller].average, b.quantity)
  IN /\ cash' = [cash EXCEPT ![b.buyer] = @ - Gross(b), ![b.seller] = @ + Gross(b)]
     /\ realized' = [realized EXCEPT ![b.seller] = @ + profit]
     /\ holdings' = [holdings EXCEPT ![b.buyer] = Bought(@, b),
                                     ![b.seller].quantity = @ - Ten(b.quantity)]
     /\ transactions' = transactions
          \union {Transaction(b, b.buyer, "BUY", 0), Transaction(b, b.seller, "SELL", profit)}
     /\ ledger' = Append(ledger, m)
     /\ snapshots' = Append(snapshots, Portfolio(b.buyer, cash', holdings', realized'))
     /\ Insert(PortfolioUpdated(b.buyer, cash', holdings', realized'))

\* The guards when the processed events had no unique index, and when the
\* seller's holdings were not tested.
ApplicableAgain(b) ==
  /\ cash[b.buyer] >= Gross(b)
  /\ holdings[b.seller].quantity >= b.quantity
ApplicableShort(b) ==
  /\ cash[b.buyer] >= Gross(b)
  /\ ~Processed(b.executionId)

\* applyExecutionBuyer, applyExecutionSeller and the insert of the processed
\* event go through.
Applicable(b) ==
  /\ cash[b.buyer] >= Gross(b)
  /\ holdings[b.seller].quantity >= b.quantity
  /\ ~Processed(b.executionId)

\* The commit is acknowledged, or its answer is lost and the attempt counts
\* as failed.
ApplyTradeExecution(r) ==
  /\ tx[r] = "both"
  /\ Applicable(Event(r))
  /\ WriteBooks(Event(r), Message(r))
  /\ \/ Succeed(r) /\ UNCHANGED faults
     \/ FailAttempt(r) /\ Fault
  /\ EndTransaction(r)

\* ErrInsufficientCash, ErrInsufficientHoldings or a unique violation.
RefuseTrade(r) ==
  /\ tx[r] = "both"
  /\ ~Applicable(Event(r))
  /\ FailAttempt(r)
  /\ EndTransaction(r)
  /\ UNCHANGED <<outboxVars, books, faults>>

\* Two transactions wait for each other's portfolio: the database aborts one.
Waits(r, o) == tx[r] = "buyer" /\ lockedBy[Event(r).seller] = o
DeadlockVictim(r) ==
  /\ \E o \in Readers \ {r} : Waits(r, o) /\ Waits(o, r)
  /\ FailAttempt(r)
  /\ EndTransaction(r)
  /\ UNCHANGED <<outboxVars, books, faults>>

\* Any statement may fail.
DatabaseError(r) ==
  /\ Starting(r) \/ tx[r] # "none"
  /\ Fault
  /\ FailAttempt(r)
  /\ EndTransaction(r)
  /\ UNCHANGED <<outboxVars, books>>

-----------------------------------------------------------------------------
(***************************************************************************)
(* The consumer around it, the publisher and the faults                    *)
(***************************************************************************)

Unmoved == UNCHANGED <<outboxVars, books, tx, lockedBy, faults>>

\* A poll of the order service's outbox publishes the trades of partition p.
TradesPublished(p) ==
  /\ topic[p] = <<>>
  /\ Feed[p] # <<>>
  /\ Produce({p}, Feed[p])
  /\ Unmoved

Fetch(r) == FetchMessage(r) /\ Unmoved
WriteDeadLetter(r) == DeadLetter(r) /\ Unmoved
Commit(r) == CommitMessages(r) /\ Unmoved

Poll(w) == FetchPending(w) /\ UNCHANGED <<consumerVars, books, tx, lockedBy, faults>>
Publish(w) ==
  /\ \E i \in batch[w] : MarkPublished(w, i)
  /\ UNCHANGED <<consumerVars, books, tx, lockedBy, faults>>
PublishFails(w) ==
  /\ Fault
  /\ \E i \in batch[w] : MarkFailed(w, i) \/ MarkLost(w, i)
  /\ UNCHANGED <<consumerVars, books, tx, lockedBy>>

\* The process of reader r dies or is shut down, and starts again.
Restart(r) ==
  /\ Fault
  /\ CrashReaders({r}) \/ ShutdownReaders({r})
  /\ IF r \in Publishers THEN DropBatch(r) ELSE UNCHANGED batch
  /\ EndTransaction(r)
  /\ UNCHANGED <<outbox, delivered, books>>

Reassign(p, r) ==
  /\ Fault
  /\ Rebalance(p, r)
  /\ UNCHANGED <<outboxVars, books, tx, lockedBy>>

Handle(r) ==
  \/ Fetch(r) \/ SkipOther(r) \/ RejectInvalid(r) \/ BeginTransaction(r)
  \/ SkipDuplicate(r) \/ LockBuyer(r) \/ LockSeller(r)
  \/ ApplyTradeExecution(r) \/ RefuseTrade(r) \/ DeadlockVictim(r)
  \/ WriteDeadLetter(r) \/ Commit(r)

Next ==
  \/ \E p \in Partitions : TradesPublished(p)
  \/ \E r \in Readers : Handle(r) \/ DatabaseError(r) \/ Restart(r)
  \/ \E w \in Publishers : Poll(w) \/ Publish(w) \/ PublishFails(w)
  \/ \E p \in Partitions, r \in Readers : Reassign(p, r)

Spec == Init /\ [][Next]_vars

\* A reader goes on while it can, a poll comes round on its ticker, and
\* publishing a row ends (the faults are bounded, so it succeeds in the end).
FairSpec ==
  /\ Spec
  /\ \A r \in Readers : WF_vars(Handle(r))
  /\ \A w \in Publishers : WF_vars(Poll(w)) /\ WF_vars(Publish(w))

-----------------------------------------------------------------------------
(***************************************************************************)
(* Properties                                                              *)
(***************************************************************************)

\* Types; amounts never below zero; a portfolio is locked by the transaction
\* that says it holds it and by no other; a row of each table per execution;
\* a row that is being published is held by one process at most.
PortfolioTypeOK ==
  /\ ConsumerTypeOK(Messages)
  /\ OutboxTypeOK(Updates)
  /\ cash \in [Users -> Int]
  /\ realized \in [Users -> Int]
  /\ holdings \in [Users -> [quantity : Int, average : Int]]
  /\ ledger \in Seq(Messages)
  /\ tx \in [Readers -> {"none", "checked", "buyer", "both"}]
  /\ lockedBy \in [Users -> Readers \union {Nothing}]
  /\ faults \in Nat

LocksHeld ==
  \A r \in Readers :
    /\ tx[r] # "none" => Attempting(r) /\ Valid(Event(r))
    /\ \A u \in Users : lockedBy[u] = r <=>
         \/ tx[r] \in {"buyer", "both"} /\ u = Event(r).buyer
         \/ tx[r] = "both" /\ u = Event(r).seller

NothingOverdrawn ==
  \A u \in Users : cash[u] >= 0 /\ holdings[u].quantity >= 0

OncePerExecution ==
  \A i, j \in DOMAIN ledger :
    Body[ledger[i]].executionId = Body[ledger[j]].executionId => i = j

BatchesApart ==
  /\ Len(outbox) = Len(ledger)
  /\ \A w \in Publishers : \A i \in batch[w] :
       /\ i \in DOMAIN outbox
       /\ outbox[i].status = "publishing"
       /\ \A o \in Publishers : i \in batch[o] => o = w
  /\ \A i \in DOMAIN outbox : outbox[i].status = "published" => i \in delivered

PortfolioInv ==
  /\ PortfolioTypeOK
  /\ LocksHeld
  /\ NothingOverdrawn
  /\ OncePerExecution
  /\ BatchesApart

\* Cash, holdings and realized profit are the opening balances plus what the
\* transaction rows say, however often and by whomever a trade was handled,
\* up to what rounding to the rows' eight decimals makes of every row.
Rows(u, side) == {t \in transactions : t.user = u /\ t.side = side}
Amounts == [t \in transactions |-> t.gross]
Volumes == [t \in transactions |-> t.quantity]
Profits == [t \in transactions |-> t.realized]
Close(x, y, roundings) ==
  /\ x <= y + Slack(EighthDecimal) * roundings
  /\ y <= x + Slack(EighthDecimal) * roundings
BooksBalance ==
  \A u \in Users :
    LET bought == Rows(u, "BUY")
        sold == Rows(u, "SELL")
        rounded == Cardinality(bought) + Cardinality(sold)
    IN /\ Close(cash[u], InitialCash - SumFunctionOnSet(Amounts, bought)
                                     + SumFunctionOnSet(Amounts, sold), rounded)
       /\ Close(holdings[u].quantity,
                InitialHoldings[u] + SumFunctionOnSet(Volumes, bought)
                                   - SumFunctionOnSet(Volumes, sold), rounded)
       /\ Close(realized[u], SumFunctionOnSet(Profits, sold), Cardinality(sold))

\* portfolio.updated goes out for the buyer only, so what a user was last
\* told is the balance less what they have sold since, and nothing else:
\* no announcement was computed from balances that another trade changed.
Purchases(u) == {i \in DOMAIN ledger : Body[ledger[i]].buyer = u}
SalesAfter(u, i) == {j \in DOMAIN ledger : j > i /\ Body[ledger[j]].seller = u}
Value == [i \in DOMAIN ledger |-> Gross(Body[ledger[i]])]
LastToldPlusSales ==
  \A u \in Users : Purchases(u) # {} =>
    LET last == Max(Purchases(u))
    IN /\ outbox[last].event.portfolio = snapshots[last]
       /\ cash[u] = outbox[last].event.portfolio.cash + SumFunctionOnSet(Value, SalesAfter(u, last))

\* Every message a reader has passed, and every message below a committed
\* offset, was applied, or is in the dead-letter topic, or is `dropped': the
\* write of its dead letter failed, its reader was shut down and committed it
\* all the same, or a group without a committed offset started behind it.
\* There is no fourth way to lose a trade; that there is any is what
\* CommittedOnlyHandled finds.
TradeApplied(p, n) ==
  LET b == Body[topic[p][n]]
  IN b.eventType = "trade.executed" =>
       \E i \in DOMAIN ledger : PayloadHash(Body[ledger[i]]) = PayloadHash(b)
Accounted(p, n) == TradeApplied(p, n) \/ <<p, n>> \in deadLettered \union dropped
PassedIsAccountedFor ==
  \A p \in Partitions : \A n \in 1 .. Len(topic[p]) :
    /\ n <= committed[p] => Accounted(p, n)
    /\ n <= position[p] => Accounted(p, n) \/ \E r \in Readers : handling[r] = <<p, n>>

\* What docs/reliability/graceful-shutdown.md:24 says: "Messages are committed
\* only after processing finishes or after the failed event has been retried
\* and sent to a DLQ."  Consumer.Start commits whatever processWithRetry
\* returns, and processWithRetry only logs that the dead letter was not written.
CommittedOnlyHandled ==
  \A p \in Partitions : \A n \in 1 .. Len(topic[p]) :
    n <= committed[p] => TradeApplied(p, n) \/ <<p, n>> \in deadLettered

\* Duplicates, redeliveries, concurrent readers and lost answers
\* notwithstanding, the books change as the ledger specification says.
TradeOf(m) ==
  [execution |-> Body[m].executionId, buyer |-> Body[m].buyer,
   seller |-> Body[m].seller, quantity |-> Ten(Body[m].quantity), amount |-> Gross(Body[m])]
Ledger == INSTANCE PortfolioLedger WITH
  Trades <- {TradeOf(m) : m \in Messages},
  quantity <- [u \in Users |-> holdings[u].quantity],
  applied <- {TradeOf(ledger[i]) : i \in DOMAIN ledger}
ImplementsLedger == Ledger!Spec

\* Every trade that reaches the topic is settled: applied, dead-lettered or
\* given up; two portfolios locked crosswise do not hold it up for ever.
EveryTradeSettles ==
  \A p \in Partitions : \A n \in 1 .. Len(Feed[p]) :
    (n <= Len(topic[p])) ~> (n <= Len(topic[p]) /\ Accounted(p, n))

\* Every update leaves for Kafka, unless a crash or a failed mark strands it
\* in publishing.  Exhausted attempts do not hold it back, because FetchPending
\* takes rows marked failed again.  UpdatesSettle finds that neither is what
\* the documentation says.
Executions == {Body[m].executionId : m \in {n \in Messages : Valid(Body[n])}}
EveryUpdateLeaves ==
  \A i \in 1 .. Cardinality(Executions) :
    (i \in DOMAIN outbox) ~> (i \in delivered \/ i \in Stranded)

\* What docs/portfolio/transactional-outbox.md:13 says: "Publish failures are
\* retried with exponential backoff until `PORTFOLIO_OUTBOX_MAX_ATTEMPTS`;
\* terminal failures remain in the table with `status='failed'`", and :43:
\* "Kafka delivery is at-least-once": an update is delivered or given up, and
\* what is given up stays so.
UpdatesSettle ==
  /\ [][\A i \in DOMAIN outbox :
          outbox[i].status = "failed" => outbox'[i].status = "failed"]_vars
  /\ \A i \in 1 .. Cardinality(Executions) :
       (i \in DOMAIN outbox) ~>
         (i \in delivered \/ (i \in DOMAIN outbox /\ outbox[i].status = "failed"))
=============================================================================
