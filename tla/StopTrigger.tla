---------------------------- MODULE StopTrigger ----------------------------
(***************************************************************************)
(* Stop orders: the reference price of the symbol, the consumer of price   *)
(* events that sets it, and the worker that triggers pending STOP and      *)
(* STOP_LIMIT orders when it reaches their stop price, on top of the order *)
(* service (internal/stoptrigger, TriggerDueStopOrders).                   *)
(*                                                                         *)
(* The batch is one transaction.  It locks its rows before it takes the    *)
(* advisory lock of the symbol, and reads the book after.  Nobody else     *)
(* changes a locked row, so the batch is one step at its commit; the rows  *)
(* it skips are those that some other transaction holds locked.            *)
(*                                                                         *)
(* Price events reach the table in the order of the topic, whatever their  *)
(* event times: a late one overwrites a younger price and may be too old   *)
(* to be used.                                                             *)
(***************************************************************************)
EXTENDS OrderService

CONSTANTS
  Prices,        \* prices that events report, as the table keeps them
  TriggerBatch   \* STOP_TRIGGER_BATCH_SIZE

ASSUME StopAssumption ==
  /\ Prices \subseteq Nat \ {NoPrice}
  /\ TriggerBatch \in Nat \ {0}

VARIABLES
  reference,   \* the row of reference_prices, and whether it is young enough
  triggers     \* stop_trigger_reference_price of each order with a triggered_at

stopVars == <<vars, reference, triggers>>

ReferencePrice == [price : Prices \union {NoPrice}, fresh : BOOLEAN]

StopInit ==
  /\ Init
  /\ reference = [price |-> NoPrice, fresh |-> FALSE]
  /\ triggers = Empty

-----------------------------------------------------------------------------
(***************************************************************************)
(* Reference prices                                                        *)
(***************************************************************************)

\* PriceConsumer.handle upserts the price of the next event, which may be older
\* than the price it overwrites, and too old.  An event that cannot be parsed
\* or stored is committed and forgotten: it changes nothing.
UpsertReferencePrice(price) ==
  /\ \E fresh \in BOOLEAN : reference' = [price |-> price, fresh |-> fresh]
  /\ UNCHANGED <<vars, triggers>>

\* The price gets older than STOP_TRIGGER_MAX_REFERENCE_PRICE_AGE.
ReferencePriceAges ==
  /\ reference.fresh
  /\ reference' = [reference EXCEPT !.fresh = FALSE]
  /\ UNCHANGED <<vars, triggers>>

-----------------------------------------------------------------------------
(***************************************************************************)
(* The trigger worker                                                      *)
(***************************************************************************)

\* The WHERE clause of the worker's query.
Pending(o) ==
  /\ Live(o)
  /\ orders[o].type \in {"STOP", "STOP_LIMIT"}
  /\ orders[o].stop # NoPrice
  /\ o \notin DOMAIN triggers
  /\ orders[o].remaining > 0

\* The join with the reference price, however old.
CandidatesAtAnyPrice == {o \in Requests : Pending(o)}

Candidates == {o \in Requests : reference.fresh /\ Pending(o)}

\* ORDER BY created_at ... LIMIT.
Batch(skipped) ==
  LET free == Candidates \ skipped
  IN {o \in free : Cardinality({p \in free : p < o}) < TriggerBatch}

\* A comparison that leaves out the stop price itself.
ShouldTriggerStrictly(order) ==
  IF order.side = "BUY" THEN reference.price > order.stop ELSE reference.price < order.stop

\* ShouldTrigger.
ShouldTrigger(order) ==
  IF order.side = "BUY" THEN reference.price >= order.stop ELSE reference.price <= order.stop

\* Every stop order activated as a market order.
ActivatedAsMarket(type) == "MARKET"

\* ActivatedOrderType.
ActivatedOrderType(type) == IF type = "STOP" THEN "MARKET" ELSE "LIMIT"

\* activateLockedStopOrder: the row is locked, so its WHERE clause holds.
Activated(rows, o) ==
  [rows EXCEPT ![o] = [@ EXCEPT !.type = ActivatedOrderType(rows[o].type),
                                !.version = NextVersion(rows[o])]]

\* One order of the batch, trading on the book that the batch has found.
TriggerOnOldBook(sofar, o) ==
  LET rows == Activated(sofar.rows, o)
  IN [rows |-> MatchedOrders(rows, o),
      executions |-> sofar.executions \union MatchedExecutions(Activated(orders, o), o),
      failed |-> sofar.failed \/ Panics(Book(rows, o)) \/ ~Storable(rows, o)]

\* One order of the batch: activated, then matched in the same transaction
\* against what the orders before it have left.
Trigger(sofar, o) ==
  LET rows == Activated(sofar.rows, o)
  IN [rows |-> MatchedOrders(rows, o),
      executions |-> sofar.executions \union MatchedExecutions(rows, o),
      failed |-> sofar.failed \/ Panics(Book(rows, o)) \/ ~Storable(rows, o)]

\* The order of the batch reversed.
YoungestFirst(S) ==
  [i \in 1..Cardinality(S) |-> CHOOSE o \in S : Cardinality({p \in S : p > o}) = i - 1]

\* The loop of TriggerDueStopOrders goes through the batch as it was read.
InCreationOrder(S) ==
  [i \in 1..Cardinality(S) |-> CHOOSE o \in S : Cardinality({p \in S : p < o}) = i - 1]

\* The orders of the batch that are due: the LIMIT comes before ShouldTrigger.
Triggerable(skipped) == {o \in Batch(skipped) : ShouldTrigger(orders[o])}

\* The loop: after[n] is what the first n orders of the batch make of the tables.
AfterTriggers(batch) ==
  LET after[n \in 0..Len(batch)] ==
        IF n = 0
        THEN [rows |-> orders, executions |-> executions, failed |-> FALSE]
        ELSE Trigger(after[n - 1], batch[n])
  IN after

Outcome(skipped) ==
  LET batch == InCreationOrder(Triggerable(skipped))
  IN AfterTriggers(batch)[Len(batch)]

\* The batch triggers something.  A panic in one match, or an execution that
\* cannot be stored, takes all of it back.
CanTrigger(skipped) == Triggerable(skipped) # {} /\ ~Outcome(skipped).failed

\* TriggerDueStopOrders, while the rows in `skipped' are locked by others.
TriggerDueStopOrders(skipped) ==
  /\ CanTrigger(skipped)
  /\ orders' = Outcome(skipped).rows
  /\ executions' = Outcome(skipped).executions
  /\ triggers' = [o \in DOMAIN triggers \union Triggerable(skipped) |->
                    IF o \in Triggerable(skipped) THEN reference.price ELSE triggers[o]]
  /\ UNCHANGED <<expiry, keys, decisions, creates, amends, cancels, amended,
                 reference>>

-----------------------------------------------------------------------------
StopNext ==
  \/ Next /\ UNCHANGED <<reference, triggers>>
  \/ \E price \in Prices : UpsertReferencePrice(price)
  \/ ReferencePriceAges
  \/ \E skipped \in SUBSET Requests : TriggerDueStopOrders(skipped)

StopSpec == StopInit /\ [][StopNext]_stopVars

\* Weak fairness of the worker's poll (its ticker loop), spelled out: it finds
\* no row of the symbol locked again and again, because the transactions that
\* lock them are short.  CanTrigger says when the poll changes something.
PollsKeepComing ==
  <>[]CanTrigger({}) => []<><<TriggerDueStopOrders({})>>_stopVars

\* Both workers keep polling.
StopFairSpec == StopSpec /\ WF_vars(ExpireDueBatch) /\ PollsKeepComing

-----------------------------------------------------------------------------
(***************************************************************************)
(* Properties                                                              *)
(***************************************************************************)

StopTypeOK ==
  /\ TypeOK
  /\ reference \in ReferencePrice
  /\ DOMAIN triggers \subseteq DOMAIN orders
  /\ \A o \in DOMAIN triggers : triggers[o] \in Prices

\* An order has the type it was created with until it is triggered, and then
\* for ever the one its activation gave it: STOP_LIMIT keeps its limit as a
\* LIMIT order, and no order is activated twice, or without a trigger, by any
\* interleaving of replicas with cancels, expiries and matches.
TypesFollowTriggers ==
  \A o \in DOMAIN orders :
    IF o \in DOMAIN triggers
    THEN <<body[o].type, orders[o].type>> \in {<<"STOP", "MARKET">>, <<"STOP_LIMIT", "LIMIT">>}
    ELSE orders[o].type = body[o].type

\* Order o is triggered in this step.
TriggeredNow(o) == o \in DOMAIN triggers' \ DOMAIN triggers

\* Orders of one side that one batch triggers are served in the order of their
\* creation: a younger one trades with a maker whose price the older one
\* accepts only if the older one is used up, or is an all-or-nothing order, or
\* could not meet that maker, which the same batch triggered after it.
OlderStopFirst ==
  [][\A o, p \in Requests :
       /\ o < p /\ TriggeredNow(o) /\ TriggeredNow(p)
       /\ orders[o].side = orders[p].side
       /\ orders[o].tif # "FOK"
       /\ \E e \in executions' \ executions :
            /\ e.taker = p /\ Crosses(orders'[o], orders'[e.maker])
            /\ TriggeredNow(e.maker) => e.maker < o
       => orders'[o].status = "filled"]_stopVars

\* The orders the worker's query could return in this state, due or not, fit
\* in one batch.
BatchSuffices == Cardinality({o \in Requests : Pending(o)}) <= TriggerBatch

\* The trigger rules of docs/orders/stop-order-triggering.md:11-16.
StopReached(o) ==
  \/ orders[o].side = "BUY" /\ orders[o].stop <= reference.price
  \/ orders[o].side = "SELL" /\ orders[o].stop >= reference.price

Waiting(o) == reference.fresh /\ Pending(o) /\ StopReached(o)

\* While the pending stop orders fit in a batch, and no match in it fails and
\* takes back the whole batch every time, an order whose stop price the
\* reference price has reached does not wait for ever, whatever else is
\* created, cancelled, expired or triggered meanwhile.
DueStopsTrigger ==
  LET Held(o) == Waiting(o) /\ BatchSuffices /\ ~Outcome({}).failed
  IN \A o \in Requests : Held(o) ~> ~Held(o)

\* docs/orders/stop-order-triggering.md:13, "`BUY` | `STOP` | reference price >=
\* stop price": an order triggers when its stop price is reached, however many
\* older ones are pending.
EveryDueStopTriggers == \A o \in Requests : Waiting(o) ~> ~Waiting(o)

=============================================================================
