---------------------------- MODULE OrderService ----------------------------
(***************************************************************************)
(* The order service around the orders table, for one tenant and symbol:   *)
(* the handlers that create, cancel and amend orders, the pre-trade risk   *)
(* decision, the matching that acceptance sets off, and the expiry worker. *)
(*                                                                         *)
(* A handler is several steps with anything in between: it reads a row,    *)
(* calls another service, and writes in a transaction of its own.  A       *)
(* transaction is one step: it locks every row it changes (the UPDATE      *)
(* itself, or SELECT ... FOR UPDATE before it), and two transactions that  *)
(* match in the same book exclude each other by the advisory lock on       *)
(* tenant:symbol, which they take before they read the book.               *)
(*                                                                         *)
(* An order is identified by the create request that inserts it; requests  *)
(* are numbered by the start of their transaction, which is the created_at *)
(* of their order.  Prices, quantities and NoPrice are MatchingEngine's.   *)
(*                                                                         *)
(* Amounts go to the database in two ways.  An execution is written as a   *)
(* string of ten decimals (RatString).  The columns of an order are        *)
(* unbounded NUMERIC and are written and read as float64: the model covers *)
(* the orders whose quantities, with all their sums and differences, have  *)
(* at most 15 significant digits, which that round trip returns exactly.   *)
(*                                                                         *)
(* Roles, correlation ids, the average fill price and the events handed to *)
(* the outbox (see OrderOutbox) are left out.                              *)
(***************************************************************************)
EXTENDS MatchingEngine, Decimals

CONSTANTS
  Requests,     \* calls of CreateOrder, numbered in created_at order
  Keys,         \* idempotency keys (of one tenant and user)
  Bodies,       \* what a request may ask for, and under which key
  Amenders,     \* calls of AmendOrder
  Changes,      \* what an amendment may ask for
  Cancellers,   \* calls of CancelOrder
  RiskEnabled,  \* PRETRADE_RISK_ENABLED
  FailOpen,     \* PRETRADE_RISK_FAIL_OPEN
  ExpiryBatch,  \* ORDER_EXPIRY_BATCH_SIZE
  TenthDecimal, \* what a tenth decimal counts; 1 if no amount is any finer
  NoBody,       \* a create request that has not been sent
  NoCall, Over  \* a cancel or amend call before and after its life

Types == {"MARKET", "LIMIT", "STOP", "STOP_LIMIT"}
TimesInForce == {"DAY", "GTC", "GTD", "IOC", "FOK"}

\* The Idempotency-Key and the body of a create request; its hash is the body
\* itself.
Body == [key : Keys, side : Sides, type : Types, tif : TimesInForce, quantity : Nat \ {0},
         limit : Nat, stop : Nat]

\* The body of an amend request: NoQuantity and NoPrice where a field is
\* absent, and whether it carries an expiresAt.
NoQuantity == 0
Change == [quantity : Nat, limit : Nat, stop : Nat, expires : BOOLEAN]

ASSUME OrderAssumption ==
  /\ Requests \subseteq Nat \ {0}
  /\ Bodies \subseteq Body
  /\ Changes \subseteq Change
  /\ RiskEnabled \in BOOLEAN /\ FailOpen \in BOOLEAN
  /\ ExpiryBatch \in Nat \ {0}
  /\ TenthDecimal \in Nat \ {0}
  /\ NoBody \notin Bodies
  /\ NoCall # Over /\ {NoCall, Over} \intersect Requests = {}

VARIABLES
  orders,       \* the orders table: row of each order that was inserted
  expiry,       \* expiry[o]: expires_at is "none" (NULL), "future" or "past"
  keys,         \* idempotency_keys: the order each used key stands for
  executions,   \* the order_executions table
  decisions,    \* order_risk_decisions: what the risk engine said of an order
  pc,           \* pc[r]: where the handler of create request r is, or its end
  body,         \* body[r]: what create request r asks for, and its key
  answer,       \* answer[r]: the order it was answered with, NoAnswer if none
  amends,       \* amends[a]: the amend call in flight, with what it has read
  cancels,      \* cancels[c]: the cancel call in flight
  amended       \* the orders that were ever amended (a history variable)

table == <<orders, expiry, keys, executions, decisions>>
creates == <<pc, body, answer>>
vars == <<table, creates, amends, cancels, amended>>

Statuses == {"rejected", "risk_pending", "risk_rejected", "risk_error", "accepted",
             "partially_filled", "filled", "cancelled", "expired"}
LiveStatuses == {"accepted", "partially_filled"}

Order == [side : Sides, type : Types, tif : TimesInForce, quantity : Nat, filled : Nat,
          remaining : Nat, limit : Nat, stop : Nat, status : Statuses,
          risk : {"NOT_EVALUATED", "PENDING", "APPROVED", "REJECTED", "ERROR"},
          version : Nat]

Execution == [taker : Requests, maker : Requests, quantity : Nat, price : Nat,
              version : Nat]

\* What s.risk.Evaluate may answer.
RiskAnswers == {"approved", "rejected", "unavailable", "invalid"}

NoAnswer == 0

\* An amend call in flight: the order, the version its client has read, the
\* change it asks for, and (history) the row that carried the version.
AmendCall == [order : Requests, version : Nat, change : Changes, seen : Order]

Live(o) == o \in DOMAIN orders /\ orders[o].status \in LiveStatuses

TypeOK ==
  /\ DOMAIN orders \subseteq Requests
  /\ \A o \in DOMAIN orders : orders[o] \in Order
  /\ expiry \in [Requests -> {"none", "future", "past"}]
  /\ DOMAIN keys \subseteq Keys
  /\ \A k \in DOMAIN keys : keys[k] \in Requests
  /\ executions \subseteq Execution
  /\ DOMAIN decisions \subseteq Requests
  /\ \A o \in DOMAIN decisions : decisions[o] \in RiskAnswers
  /\ pc \in [Requests -> {"idle", "create", "risk", "answered", "conflict", "error", "lost"}]
  /\ body \in [Requests -> Bodies \union {NoBody}]
  /\ answer \in [Requests -> Requests \union {NoAnswer}]
  /\ amends \in [Amenders -> AmendCall \union {NoCall, Over}]
  /\ cancels \in [Cancellers -> Requests \union {NoCall, Over}]
  /\ amended \in SUBSET Requests

Empty == [x \in {} |-> x]

Init ==
  /\ orders = Empty
  /\ expiry = [o \in Requests |-> "none"]
  /\ keys = Empty
  /\ executions = {}
  /\ decisions = Empty
  /\ pc = [r \in Requests |-> "idle"]
  /\ body = [r \in Requests |-> NoBody]
  /\ answer = [r \in Requests |-> NoAnswer]
  /\ amends = [a \in Amenders |-> NoCall]
  /\ cancels = [c \in Cancellers |-> NoCall]
  /\ amended = {}

-----------------------------------------------------------------------------
(***************************************************************************)
(* Matching an accepted order against the book                             *)
(***************************************************************************)

\* loadRestingOrders asking for accepted orders only.
RestingAccepted(rows, o) ==
  {m \in DOMAIN rows : /\ rows[m].side # rows[o].side
                       /\ rows[m].status = "accepted"
                       /\ rows[m].remaining > 0
                       /\ rows[m].type = "LIMIT"}

\* The WHERE clause of loadRestingOrders.  It does not look at expires_at.
Resting(rows, o) ==
  {m \in DOMAIN rows : /\ rows[m].side # rows[o].side
                       /\ rows[m].status \in LiveStatuses
                       /\ rows[m].remaining > 0
                       /\ rows[m].type = "LIMIT"}

Book(rows, o) == [m \in Resting(rows, o) |-> rows[m]]

\* A statement that leaves the version alone.
SameVersion(row) == row.version

\* Every UPDATE of an order sets version = version + 1.
NextVersion(row) == row.version + 1

\* The engine's fill put in the place of the fills before it.
CreditAfresh(row, quantity) == quantity

\* The engine adds a fill to what the order had filled before.
Credit(row, quantity) == row.filled + quantity

\* updateOrderLifecycleFromFill followed by persistOrderState: `quantity' of
\* the order traded and `remaining' is left.  Both columns get the float64
\* nearest to the engine's exact number: the same number, with 15 digits.
Persisted(row, quantity, remaining, cancelled) ==
  LET filled == Credit(row, quantity)
  IN [row EXCEPT
        !.filled = filled,
        !.remaining = IF cancelled THEN 0 ELSE remaining,
        !.status = IF cancelled THEN "cancelled"
                   ELSE IF filled = 0 THEN @
                   ELSE IF remaining = 0 THEN "filled" ELSE "partially_filled",
        !.version = NextVersion(row)]

\* The orders table after matchAcceptedOrder(o) on `rows', in which o is an
\* accepted row: every resting order the engine calls changed is saved, and
\* the incoming one if it traded or is cancelled.
MatchedOrders(rows, o) ==
  LET result == Match(rows[o], Book(rows, o))
      traded == \E m \in Resting(rows, o) : result.fills[m] > 0
  IN [x \in DOMAIN rows |->
        IF x = o /\ (traded \/ result.cancelled)
        THEN Persisted(rows[o], rows[o].remaining - result.left,
                       result.left, result.cancelled)
        ELSE IF x # o /\ x \in result.changed
        THEN Persisted(rows[x], result.fills[x], rows[x].remaining - result.fills[x], FALSE)
        ELSE rows[x]]

\* RatString: ten decimals.
RatString(amount) == RoundedTo(amount, TenthDecimal)

\* The executions matchAcceptedOrder(o) inserts, at the makers' prices.
MatchedExecutions(rows, o) ==
  LET result == Match(rows[o], Book(rows, o))
  IN {[taker |-> o, maker |-> m, quantity |-> RatString(result.fills[m]),
       price |-> RatString(rows[m].limit), version |-> rows[o].version]
      : m \in {m \in Resting(rows, o) : result.fills[m] > 0}}

\* The CHECK constraints of order_executions: an amount that ten decimals
\* round to zero is refused, and the transaction with it.
Storable(rows, o) == \A e \in MatchedExecutions(rows, o) : e.quantity > 0 /\ e.price > 0

\* The transaction that accepts o, as a row of `rows', commits.
Accept(rows, o) ==
  /\ ~Panics(Book(rows, o))
  /\ Storable(rows, o)
  /\ orders' = MatchedOrders(rows, o)
  /\ executions' = executions \union MatchedExecutions(rows, o)

-----------------------------------------------------------------------------
(***************************************************************************)
(* CreateOrder                                                             *)
(***************************************************************************)

Answer(r, o) ==
  /\ pc' = [pc EXCEPT ![r] = "answered"]
  /\ answer' = [answer EXCEPT ![r] = o]

Fail(r, outcome) ==
  /\ pc' = [pc EXCEPT ![r] = outcome]
  /\ UNCHANGED answer

\* FindIdempotency: a key that is in use replays the order it stands for, or
\* refuses a different body.
FindIdempotency(r) ==
  /\ pc[r] = "idle"
  /\ \E b \in Bodies :
       /\ body' = [body EXCEPT ![r] = b]
       /\ IF b.key \in DOMAIN keys
          THEN IF body[keys[b.key]] = b THEN Answer(r, keys[b.key]) ELSE Fail(r, "conflict")
          ELSE /\ pc' = [pc EXCEPT ![r] = "create"]
               /\ UNCHANGED answer
  /\ UNCHANGED <<table, amends, cancels, amended>>

\* validateOrder, for the fields that are modelled.
Valid(b) ==
  /\ b.type \in {"LIMIT", "STOP_LIMIT"} => b.limit # NoPrice
  /\ b.type \in {"STOP", "STOP_LIMIT"} => b.stop # NoPrice

\* buildOrder.
NewOrder(b) ==
  LET status == IF ~Valid(b) THEN "rejected"
                ELSE IF RiskEnabled THEN "risk_pending" ELSE "accepted"
  IN [side |-> b.side, type |-> b.type, tif |-> b.tif, quantity |-> b.quantity,
      filled |-> 0, remaining |-> b.quantity, limit |-> b.limit,
      stop |-> b.stop, status |-> status,
      risk |-> IF status = "risk_pending" THEN "PENDING" ELSE "NOT_EVALUATED",
      version |-> 1]

\* The rows with the new order of request r among them.
Inserted(r) ==
  [o \in DOMAIN orders \union {r} |-> IF o = r THEN NewOrder(body[r]) ELSE orders[o]]

\* A DAY order expires with the trading session, a GTD order when it says so.
FirstExpiry(b) == IF Valid(b) /\ b.tif \in {"DAY", "GTD"} THEN "future" ELSE "none"

\* No uniqueness constraint on the keys.
KeyFreeUnchecked(r) == TRUE

\* The primary key of idempotency_keys.
KeyFree(r) == body[r].key \notin DOMAIN keys

\* repo.CreateOrder: one transaction inserts the order, matches it if it is
\* accepted right away, and inserts the key.
CreateOrder(r) ==
  /\ pc[r] = "create"
  /\ KeyFree(r)
  /\ keys' = [k \in DOMAIN keys \union {body[r].key} |->
                IF k = body[r].key THEN r ELSE keys[k]]
  /\ expiry' = [expiry EXCEPT ![r] = FirstExpiry(body[r])]
  /\ IF Inserted(r)[r].status = "accepted"
     THEN Accept(Inserted(r), r)
     ELSE orders' = Inserted(r) /\ UNCHANGED executions
  /\ IF Inserted(r)[r].status = "risk_pending"
     THEN pc' = [pc EXCEPT ![r] = "risk"] /\ UNCHANGED answer
     ELSE Answer(r, r)
  /\ UNCHANGED <<decisions, body, amends, cancels, amended>>

\* Another request has inserted the key since FindIdempotency: the insert
\* violates the primary key and the transaction is rolled back.
CreateRefused(r) ==
  /\ pc[r] = "create"
  /\ ~KeyFree(r)
  /\ Fail(r, "error")
  /\ UNCHANGED <<table, body, amends, cancels, amended>>

\* The request ends without an answer: the process dies, the client goes
\* away, the database fails or refuses an execution, or the matching panics.
\* What was committed stays; an order in risk_pending is never looked at again.
Lose(r) ==
  /\ pc[r] \in {"create", "risk"}
  /\ Fail(r, "lost")
  /\ UNCHANGED <<table, body, amends, cancels, amended>>

-----------------------------------------------------------------------------
(***************************************************************************)
(* The pre-trade risk decision                                             *)
(***************************************************************************)

\* buildRiskRequest finds a price only in the limit of a (STOP_)LIMIT order.
Priced(order) == order.type \in {"LIMIT", "STOP_LIMIT"} /\ order.limit # NoPrice

\* evaluateAndApplyRisk when every error of the engine passes for an outage
\* and the fail-open setting is not looked at.
DecisionFailingOpen(order, reply) ==
  IF ~Priced(order) \/ reply = "rejected" THEN "REJECTED" ELSE "APPROVED"

\* evaluateAndApplyRisk: the decision drawn from the answer.
Decision(order, reply) ==
  IF ~Priced(order) THEN "REJECTED"
  ELSE IF reply = "approved" \/ (reply = "unavailable" /\ FailOpen) THEN "APPROVED"
  ELSE IF reply = "rejected" THEN "REJECTED" ELSE "ERROR"

\* The row ApplyRiskDecision writes before any matching.
Decided(order, decision) ==
  [order EXCEPT !.status = CASE decision = "APPROVED" -> "accepted"
                             [] decision = "REJECTED" -> "risk_rejected"
                             [] decision = "ERROR" -> "risk_error",
                !.risk = decision,
                !.version = NextVersion(order)]

\* repo.ApplyRiskDecision.  The engine is not asked about an unpriced order.
\* Nothing but its own request moves an order out of
\* risk_pending, so its test of the status never fails.
ApplyRiskDecision(r) ==
  /\ pc[r] = "risk"
  /\ orders[r].status = "risk_pending"
  /\ \E reply \in IF Priced(orders[r]) THEN RiskAnswers ELSE {"rejected"} :
       LET decision == Decision(orders[r], reply)
           rows == [orders EXCEPT ![r] = Decided(@, decision)]
       IN /\ decisions' = [o \in DOMAIN decisions \union {r} |->
                            IF o = r THEN reply ELSE decisions[o]]
          /\ IF decision = "APPROVED"
             THEN Accept(rows, r)
             ELSE orders' = rows /\ UNCHANGED executions
  /\ Answer(r, r)
  /\ UNCHANGED <<expiry, keys, body, amends, cancels, amended>>

-----------------------------------------------------------------------------
(***************************************************************************)
(* CancelOrder and AmendOrder                                              *)
(***************************************************************************)

\* CancelOrder reads the order, and goes on only if it is accepted: a
\* partially filled order is refused here.
CancelRead(c, o) ==
  /\ cancels[c] = NoCall
  /\ o \in DOMAIN orders
  /\ orders[o].status = "accepted"
  /\ cancels' = [cancels EXCEPT ![c] = o]
  /\ UNCHANGED <<table, creates, amends, amended>>

\* repo.CancelOrder trusting what the handler has read.
CancellableUnchecked(o) == o \in DOMAIN orders

\* The WHERE clause of repo.CancelOrder: it tests the status again, and takes
\* a partially filled order as well.
Cancellable(o) == Live(o)

CancelWrite(c) ==
  /\ cancels[c] \in Requests
  /\ orders' = IF Cancellable(cancels[c])
               THEN [orders EXCEPT ![cancels[c]] =
                       [@ EXCEPT !.status = "cancelled", !.remaining = 0,
                                 !.version = NextVersion(orders[cancels[c]])]]
               ELSE orders
  /\ cancels' = [cancels EXCEPT ![c] = Over]
  /\ UNCHANGED <<expiry, keys, executions, decisions, creates, amends, amended>>

\* A client reads an order and asks for a change with the version it saw; the
\* service refuses at once what the UPDATE would refuse later for good.
AmendRead(a, o) ==
  /\ amends[a] = NoCall
  /\ Live(o)
  /\ \E change \in Changes :
       /\ change.quantity # NoQuantity => change.quantity >= orders[o].filled
       /\ change.expires => orders[o].tif = "GTD"
       /\ amends' = [amends EXCEPT ![a] =
                       [order |-> o, version |-> orders[o].version,
                        change |-> change, seen |-> orders[o]]]
  /\ UNCHANGED <<table, creates, cancels, amended>>

\* The new quantity taken for what is left to fill.
UnfilledOfAll(row, quantity) == quantity

Unfilled(row, quantity) == quantity - row.filled

\* The row repo.AmendOrder writes: the quantity stays when none is given, but
\* the prices and the expiry become whatever the request holds, NULL too.
AmendedRow(row, change) ==
  LET quantity == IF change.quantity = NoQuantity THEN row.quantity ELSE change.quantity
  IN [row EXCEPT !.quantity = quantity,
                 !.remaining = Unfilled(row, quantity),
                 !.limit = change.limit,
                 !.stop = change.stop,
                 !.version = NextVersion(row)]

\* The WHERE clause without the version.
AmendableAtAnyVersion(call) ==
  /\ Live(call.order)
  /\ \/ call.change.quantity = NoQuantity
     \/ call.change.quantity >= orders[call.order].filled

\* The WHERE clause of repo.AmendOrder.
Amendable(call) ==
  /\ Live(call.order)
  /\ orders[call.order].version = call.version
  /\ \/ call.change.quantity = NoQuantity
     \/ call.change.quantity >= orders[call.order].filled

\* repo.AmendOrder changes the row.
AmendWrite(a) ==
  /\ amends[a] \notin {NoCall, Over}
  /\ Amendable(amends[a])
  /\ LET call == amends[a]
     IN /\ orders' = [orders EXCEPT ![call.order] = AmendedRow(@, call.change)]
        /\ expiry' = [expiry EXCEPT ![call.order] =
                        IF call.change.expires THEN "future" ELSE "none"]
        /\ amended' = amended \union {call.order}
  /\ amends' = [amends EXCEPT ![a] = Over]
  /\ UNCHANGED <<keys, executions, decisions, creates, cancels>>

\* repo.AmendOrder matches no row: a version conflict.
AmendRefused(a) ==
  /\ amends[a] \notin {NoCall, Over}
  /\ ~Amendable(amends[a])
  /\ amends' = [amends EXCEPT ![a] = Over]
  /\ UNCHANGED <<table, creates, cancels, amended>>

-----------------------------------------------------------------------------
(***************************************************************************)
(* Expiry                                                                  *)
(***************************************************************************)

\* expires_at passes.
ExpiryPasses(o) ==
  /\ expiry[o] = "future"
  /\ Live(o) \/ (o \in DOMAIN orders /\ orders[o].status = "risk_pending")
  /\ expiry' = [expiry EXCEPT ![o] = "past"]
  /\ UNCHANGED <<orders, keys, executions, decisions, creates, amends, cancels, amended>>

\* The WHERE clause of the expiry worker for DAY orders alone.
DueDay(o) ==
  /\ expiry[o] = "past"
  /\ Live(o)
  /\ orders[o].remaining > 0
  /\ orders[o].tif = "DAY"

\* The WHERE clause of the expiry worker.
Due(o) ==
  /\ expiry[o] = "past"
  /\ Live(o)
  /\ orders[o].remaining > 0
  /\ orders[o].tif \in {"DAY", "GTD"}

\* ExpireDueBatch: one transaction expires a batch of due orders, any of them
\* since rows that are locked at that moment are skipped.
ExpireDueBatch ==
  /\ \E S \in (SUBSET {o \in DOMAIN orders : Due(o)}) \ {{}} :
       /\ Cardinality(S) <= ExpiryBatch
       /\ orders' = [o \in DOMAIN orders |->
                       IF o \in S
                       THEN [orders[o] EXCEPT !.status = "expired",
                                              !.version = NextVersion(orders[o])]
                       ELSE orders[o]]
  /\ UNCHANGED <<expiry, keys, executions, decisions, creates, amends, cancels, amended>>

-----------------------------------------------------------------------------
Create(r) ==
  \/ FindIdempotency(r) \/ CreateOrder(r) \/ CreateRefused(r)
  \/ Lose(r) \/ ApplyRiskDecision(r)

Next ==
  \/ \E r \in Requests : Create(r) \/ ExpiryPasses(r)
  \/ \E c \in Cancellers : CancelWrite(c) \/ \E o \in Requests : CancelRead(c, o)
  \/ \E a \in Amenders : \/ AmendWrite(a) \/ AmendRefused(a)
                         \/ \E o \in Requests : AmendRead(a, o)
  \/ ExpireDueBatch

Spec == Init /\ [][Next]_vars

\* The expiry worker keeps polling (its ticker loop).
FairSpec == Spec /\ WF_vars(ExpireDueBatch)

-----------------------------------------------------------------------------
(***************************************************************************)
(* Properties                                                              *)
(***************************************************************************)

TerminalStatuses == Statuses \ (LiveStatuses \union {"risk_pending"})

\* The statuses that an order reaches only through acceptance.
OnceAccepted == LiveStatuses \union {"filled", "cancelled", "expired"}

\* A row has all the columns, a known status and a version number.
Columns == {"side", "type", "tif", "quantity", "filled", "remaining", "limit",
            "stop", "status", "risk", "version"}

Shaped(row) ==
  /\ row = [column \in Columns |-> row[column]]
  /\ row.status \in Statuses
  /\ row.version \in Nat

RowsShaped == \A o \in DOMAIN orders : Shaped(orders[o])

\* Orders and used keys stand for each other.
KeysNameOrders ==
  /\ \A k \in DOMAIN keys : keys[k] \in DOMAIN orders /\ body[keys[k]].key = k
  /\ \A o \in DOMAIN orders : body[o].key \in DOMAIN keys /\ keys[body[o].key] = o

\* How far a create handler is tells whether its order exists and is decided.
HandlersKnow ==
  \A r \in Requests :
    /\ pc[r] \in {"idle", "create"} => r \notin DOMAIN orders
    /\ pc[r] = "risk" => r \in DOMAIN orders /\ orders[r].status = "risk_pending"
    /\ pc[r] = "answered" => /\ answer[r] \in DOMAIN orders
                            /\ body[answer[r]] = body[r]

\* The risk gate as the transactions see it: status and decision agree.
Cleared(o) ==
  /\ o \in DOMAIN decisions
  /\ decisions[o] \in {"approved"} \union (IF FailOpen THEN {"unavailable"} ELSE {})

GatedByStatus ==
  /\ RiskEnabled =>
       \A o \in DOMAIN orders : orders[o].status \in OnceAccepted => Cleared(o)
  /\ \A e \in executions :
       /\ e.taker \in DOMAIN orders /\ orders[e.taker].status \in OnceAccepted
       /\ e.maker \in DOMAIN orders /\ orders[e.maker].status \in OnceAccepted

\* A version number names the row it was read with.
VersionsNameRows ==
  \A a \in Amenders : amends[a] \notin {NoCall, Over} =>
    LET call == amends[a]
    IN /\ call.order \in DOMAIN orders
       /\ call.version \in Nat
       /\ call.version <= orders[call.order].version
       /\ call.version = orders[call.order].version => call.seen = orders[call.order]

\* The domains of the functions, and the calls that may be in flight.
CallsShaped ==
  /\ DOMAIN orders \subseteq Requests
  /\ DOMAIN keys \subseteq Keys
  /\ pc \in [Requests -> {"idle", "create", "risk", "answered", "conflict", "error", "lost"}]
  /\ body \in [Requests -> Bodies \union {NoBody}]
  /\ answer \in [Requests -> Requests \union {NoAnswer}]
  /\ \A r \in Requests : pc[r] \in {"create", "risk"} => body[r] \in Bodies
  /\ amends = [a \in Amenders |-> amends[a]]

\* The inductive invariant.  It leaves the quantities to the invariants above
\* and below: they come out of a loop over the book.
OrdersInv ==
  /\ CallsShaped /\ RowsShaped /\ KeysNameOrders /\ HandlersKnow
  /\ GatedByStatus /\ VersionsNameRows

\* The trades of order o, and the volume that they say it has traded.
TradesOf(trades, o) == {e \in trades : e.taker = o \/ e.maker = o}
Traded(trades, o) == SumFunctionOnSet([e \in trades |-> e.quantity], TradesOf(trades, o))

\* `filled' is what the trades of o add up to, up to the rounding of each.
AddsUp(filled, trades, o) ==
  LET slack == Slack(TenthDecimal) * Cardinality(TradesOf(trades, o))
  IN /\ Traded(trades, o) - slack <= filled
     /\ filled <= Traded(trades, o) + slack

\* An order's filled quantity is what its executions add up to, give or take
\* the half of a tenth decimal that RatString moves each of them by, although
\* every match writes the absolute number it computed from the row it read,
\* cancels, amendments and expiries come in between, and a killed FOK order
\* rewrites rows it never traded with (persistOrderState).  With amounts of at
\* most ten decimals (TenthDecimal = 1) the two are equal.
FillsMatchExecutions ==
  \A o \in DOMAIN orders : AddsUp(orders[o].filled, executions, o)

Agrees(row) ==
  /\ row.filled <= row.quantity
  /\ row.status \in {"accepted", "partially_filled", "filled", "expired"} =>
       row.remaining = row.quantity - row.filled
  /\ row.status = "cancelled" => row.remaining = 0
  /\ row.status = "filled" => row.filled = row.quantity
  /\ row.status \in {"accepted", "risk_pending", "risk_rejected", "risk_error"} =>
       row.filled = 0
  /\ row.status = "partially_filled" => row.filled > 0

\* Quantity, filled and remaining quantity agree with each other and with the
\* status, whatever combination of match, amendment, cancel and expiry wrote
\* them (the columns are written by five statements).
QuantitiesAgree == \A o \in DOMAIN orders : Agrees(orders[o])

\* No order ever leaves a terminal status or changes in it: not by a cancel or
\* an amendment decided on an older row, not by a match whose book was read
\* before (docs/orders/order-lifecycle.md:16).
TerminalIsFinal ==
  [][\A o \in DOMAIN orders : orders[o].status \in TerminalStatuses =>
       orders'[o] = orders[o]]_vars

\* An amendment is applied only to exactly the row its client has seen, never
\* to one that was filled or changed since (version in repo.AmendOrder).
AmendsWhatWasSeen ==
  [][\A a \in Amenders : AmendWrite(a) =>
       orders[amends[a].order] = amends[a].seen]_vars

\* With risk checks on, nothing rests, trades or is cancelled that the risk
\* engine did not approve, or that was let through, where failing open is
\* configured, because the engine could not be reached; whatever handlers die
\* between the insert and the decision.
RiskGate ==
  RiskEnabled =>
    \A o \in DOMAIN orders :
      \/ orders[o].status \in OnceAccepted
      \/ \E e \in executions : o \in {e.taker, e.maker}
      => Cleared(o)

\* However many requests with one idempotency key run at once, they insert at
\* most one order, and each that is answered is answered with that order and
\* had asked for it.
OneOrderPerKey ==
  /\ \A o, p \in DOMAIN orders : body[o].key = body[p].key => o = p
  /\ \A r \in Requests : pc[r] = "answered" =>
       answer[r] \in DOMAIN orders /\ body[answer[r]] = body[r]

\* A price as what it costs the given side.
CostTo(side, price) == IF side = "BUY" THEN price ELSE -price

\* Execution e of this step is at the maker's price, to ten decimals, and within
\* the taker's limit, and an order that was in the book with a better price, or as good a
\* price and an earlier creation, is filled completely in the same step.
Served(e) ==
  LET taker == orders'[e.taker]
      maker == orders[e.maker]
      Better(o) ==
        \/ CostTo(taker.side, orders[o].limit) < CostTo(taker.side, maker.limit)
        \/ orders[o].limit = maker.limit /\ o < e.maker
  IN /\ e.price = RatString(maker.limit)
     /\ taker.type # "MARKET" =>
          CostTo(taker.side, maker.limit) <= CostTo(taker.side, taker.limit)
     /\ \A o \in DOMAIN orders :
          Live(o) /\ orders[o].remaining > 0 /\ orders[o].type = "LIMIT"
            /\ orders[o].side = maker.side /\ Better(o) =>
          orders'[o].status = "filled"

\* Whatever was cancelled, amended or expired between a maker's arrival and the
\* match, the best makers in the book are served first, at their prices.
BestFirst == [][\A e \in executions' \ executions : Served(e)]_vars

\* A row that rests in the book with a price.
Rests(row) ==
  /\ row.status \in LiveStatuses /\ row.type = "LIMIT"
  /\ row.remaining > 0 /\ row.limit # NoPrice

\* The book never stays crossed, unless an amendment crossed it: an amended
\* price is written without matching (repo.AmendOrder).
CrossedOnlyByAmendment ==
  \A b, s \in DOMAIN orders :
    /\ Rests(orders[b]) /\ orders[b].side = "BUY"
    /\ Rests(orders[s]) /\ orders[s].side = "SELL"
    /\ {b, s} \intersect amended = {}
    => orders[b].limit < orders[s].limit

\* order_service.go:534: "LIMIT order requires limitPrice greater than zero".
\* A live LIMIT order has a price to be matched at.
LimitOrdersPriced ==
  \A o \in DOMAIN orders : Live(o) /\ orders[o].type = "LIMIT" => orders[o].limit # NoPrice

Overdue(o) == Live(o) /\ expiry[o] = "past" /\ orders[o].remaining > 0

\* An order past its expiry does not stay in the book for ever.
OverdueEnds == \A o \in Requests : Overdue(o) ~> ~Overdue(o)

=============================================================================
