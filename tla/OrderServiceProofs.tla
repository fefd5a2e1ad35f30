------------------------- MODULE OrderServiceProofs -------------------------
(***************************************************************************)
(* Proofs about the order service for any number of requests, keys, calls  *)
(* and any book.  Every step is described by which rows it may move and    *)
(* how (MovesBut), so that each part of the inductive invariant is shown   *)
(* once for moved rows and not again for every action.                     *)
(***************************************************************************)
EXTENDS StopTrigger, MatchingProofs

\* A row as a match, a cancel, an amendment or an expiry leaves it.
Moved(old, new) ==
  /\ old.status \in LiveStatuses
  /\ Shaped(new)
  /\ new.status \in OnceAccepted
  /\ new.version > old.version

\* The step changes rows only that way, but for the rows of X, which it may
\* insert.
MovesBut(X) ==
  /\ DOMAIN orders' = DOMAIN orders \union X
  /\ \A o \in DOMAIN orders \ X : orders'[o] = orders[o] \/ Moved(orders[o], orders'[o])

-----------------------------------------------------------------------------
(***************************************************************************)
(* The operators the transactions are built from                           *)
(***************************************************************************)

\* persistOrderState writes a well-formed row with the next version.
LEMMA PersistedMoves ==
  ASSUME NEW row, Shaped(row), row.status \in LiveStatuses,
         NEW quantity, NEW remaining, NEW cancelled
  PROVE  Moved(row, Persisted(row, quantity, remaining, cancelled))
<1> DEFINE new == Persisted(row, quantity, remaining, cancelled)
<1>1. DOMAIN row = Columns
  BY DEF Shaped
<1>2. /\ new.status \in {row.status, "cancelled", "filled", "partially_filled"}
      /\ new.version = row.version + 1
  <2>1. new.version = row.version + 1
    BY <1>1 DEF Persisted, NextVersion, Columns
  <2>2. new.status = IF cancelled THEN "cancelled"
                     ELSE IF Credit(row, quantity) = 0 THEN row.status
                     ELSE IF remaining = 0 THEN "filled" ELSE "partially_filled"
    BY <1>1 DEF Persisted, Columns
  <2>3. QED
    BY <2>1, <2>2
<1>3. new = [column \in Columns |-> new[column]]
  BY <1>1 DEF Persisted
<1>4. new.status \in OnceAccepted /\ new.status \in Statuses
  BY <1>2 DEF OnceAccepted, LiveStatuses, Statuses
<1>5. new.version \in Nat /\ new.version > row.version
  BY <1>2 DEF Shaped
<1>6. QED
  BY <1>3, <1>4, <1>5 DEF Moved, Shaped

\* ApplyRiskDecision writes a well-formed row with the next version and the
\* status the decision calls for.
LEMMA DecidedShaped ==
  ASSUME NEW order, Shaped(order), NEW decision \in {"APPROVED", "REJECTED", "ERROR"}
  PROVE  /\ Shaped(Decided(order, decision))
         /\ Decided(order, decision).version = order.version + 1
         /\ Decided(order, decision).status =
              CASE decision = "APPROVED" -> "accepted"
                [] decision = "REJECTED" -> "risk_rejected"
                [] decision = "ERROR" -> "risk_error"
<1> DEFINE row == Decided(order, decision)
<1>1. DOMAIN order = Columns
  BY DEF Shaped
<1>2. row.version = order.version + 1
  BY <1>1 DEF Decided, NextVersion, Columns
<1>3. row.status = CASE decision = "APPROVED" -> "accepted"
                     [] decision = "REJECTED" -> "risk_rejected"
                     [] decision = "ERROR" -> "risk_error"
  BY <1>1 DEF Decided, Columns
<1>4. row = [column \in Columns |-> row[column]]
  <2> DEFINE status == CASE decision = "APPROVED" -> "accepted"
                         [] decision = "REJECTED" -> "risk_rejected"
                         [] decision = "ERROR" -> "risk_error"
  <2>1. row = [order EXCEPT !.status = status, !.risk = decision,
                            !.version = NextVersion(order)]
    BY DEF Decided
  <2> HIDE DEF status, row
  <2>2. QED
    BY <2>1, <1>1
<1>5. row.status \in Statuses
  BY <1>3 DEF Statuses
<1>6. row.version \in Nat
  BY <1>2 DEF Shaped
<1>7. QED
  BY <1>2, <1>3, <1>4, <1>5, <1>6 DEF Shaped

\* matchAcceptedOrder moves the accepted order and resting ones, nothing else.
LEMMA MatchedOrdersMove ==
  ASSUME NEW rows, NEW o \in DOMAIN rows,
         \A x \in DOMAIN rows : Shaped(rows[x]),
         rows[o].status \in LiveStatuses
  PROVE  /\ DOMAIN MatchedOrders(rows, o) = DOMAIN rows
         /\ \A x \in DOMAIN rows : \/ MatchedOrders(rows, o)[x] = rows[x]
                                   \/ Moved(rows[x], MatchedOrders(rows, o)[x])
<1> DEFINE matched == Match(rows[o], Book(rows, o))
           traded == \E m \in Resting(rows, o) : matched.fills[m] > 0
<1>1. MatchedOrders(rows, o) =
        [x \in DOMAIN rows |->
          IF x = o /\ (traded \/ matched.cancelled)
          THEN Persisted(rows[o], rows[o].remaining - matched.left,
                         matched.left, matched.cancelled)
          ELSE IF x # o /\ x \in matched.changed
          THEN Persisted(rows[x], matched.fills[x], rows[x].remaining - matched.fills[x], FALSE)
          ELSE rows[x]]
  BY DEF MatchedOrders
<1>2. matched.changed \subseteq Resting(rows, o)
  <2>1. DOMAIN Book(rows, o) = Resting(rows, o)
    BY DEF Book
  <2>2. QED
    BY <2>1, MatchChangesTheBook
<1>3. \A x \in Resting(rows, o) : x \in DOMAIN rows /\ rows[x].status \in LiveStatuses
  BY DEF Resting
<1>5. ASSUME NEW x \in DOMAIN rows
      PROVE  \/ MatchedOrders(rows, o)[x] = rows[x]
             \/ Moved(rows[x], MatchedOrders(rows, o)[x])
  <2> HIDE DEF matched, traded
  <2>1. CASE x = o /\ (traded \/ matched.cancelled)
    BY <2>1, <1>1, PersistedMoves
  <2>2. CASE x # o /\ x \in matched.changed
    <3>1. Moved(rows[x], Persisted(rows[x], matched.fills[x],
                                   rows[x].remaining - matched.fills[x], FALSE))
      BY <2>2, <1>2, <1>3, PersistedMoves
    <3>2. QED
      BY <3>1, <2>2, <1>1
  <2>3. CASE ~(x = o /\ (traded \/ matched.cancelled)) /\ ~(x # o /\ x \in matched.changed)
    BY <2>3, <1>1
  <2>4. QED
    BY <2>1, <2>2, <2>3
<1>6. DOMAIN MatchedOrders(rows, o) = DOMAIN rows
  BY <1>1
<1>7. QED
  BY <1>5, <1>6

\* Its executions are between the accepted order and live resting ones.
LEMMA MatchedExecutionsBetween ==
  ASSUME NEW rows, NEW o, NEW e \in MatchedExecutions(rows, o)
  PROVE  /\ e.taker = o
         /\ e.maker \in DOMAIN rows
         /\ rows[e.maker].status \in LiveStatuses
<1> DEFINE matched == Match(rows[o], Book(rows, o))
<1>1. PICK m \in Resting(rows, o) :
        e = [taker |-> o, maker |-> m, quantity |-> RatString(matched.fills[m]),
             price |-> RatString(rows[m].limit), version |-> rows[o].version]
  BY DEF MatchedExecutions
<1>2. m \in DOMAIN rows /\ rows[m].status \in LiveStatuses
  BY DEF Resting
<1>3. QED
  BY <1>1, <1>2

\* The transaction that accepts o moves rows, from `rows', only as a match does.
LEMMA AcceptMoves ==
  ASSUME NEW rows, NEW o \in DOMAIN rows,
         \A x \in DOMAIN rows : Shaped(rows[x]),
         rows[o].status = "accepted",
         Accept(rows, o)
  PROVE  /\ DOMAIN orders' = DOMAIN rows
         /\ \A x \in DOMAIN rows : orders'[x] = rows[x] \/ Moved(rows[x], orders'[x])
         /\ \A e \in executions' \ executions :
              /\ e.taker = o
              /\ e.maker \in DOMAIN rows
              /\ rows[e.maker].status \in LiveStatuses
<1>1. orders' = MatchedOrders(rows, o) /\ executions' = executions \union MatchedExecutions(rows, o)
  BY DEF Accept
<1>2. rows[o].status \in LiveStatuses
  BY DEF LiveStatuses
<1>3. QED
  BY <1>1, <1>2, MatchedOrdersMove, MatchedExecutionsBetween

-----------------------------------------------------------------------------
(***************************************************************************)
(* What moving rows preserves, part by part of the invariant               *)
(***************************************************************************)

\* A table that moves by well-formed rows stays well-formed.
LEMMA ShapedPreserved ==
  ASSUME RowsShaped, NEW X, MovesBut(X), \A x \in X : Shaped(orders'[x])
  PROVE  RowsShaped'
BY DEF RowsShaped, MovesBut, Moved

\* A version a client holds still names the row it read, if the rows outside
\* the usual moves are new or get a higher version.
LEMMA VersionsPreserved ==
  ASSUME VersionsNameRows, RowsShaped, NEW X, MovesBut(X), RowsShaped',
         \A x \in X : x \in DOMAIN orders => orders'[x].version > orders[x].version,
         \A a \in Amenders : amends'[a] \in {amends[a], Over}
  PROVE  VersionsNameRows'
<1> SUFFICES ASSUME NEW a \in Amenders, amends'[a] \notin {NoCall, Over}
             PROVE  /\ amends'[a].order \in DOMAIN orders'
                    /\ amends'[a].version \in Nat
                    /\ amends'[a].version <= orders'[amends'[a].order].version
                    /\ amends'[a].version = orders'[amends'[a].order].version =>
                         amends'[a].seen = orders'[amends'[a].order]
  BY DEF VersionsNameRows
<1> DEFINE o == amends[a].order
<1>1. amends'[a] = amends[a] /\ amends[a] \notin {NoCall, Over}
  OBVIOUS
<1>2. /\ o \in DOMAIN orders
      /\ amends[a].version \in Nat
      /\ amends[a].version <= orders[o].version
      /\ amends[a].version = orders[o].version => amends[a].seen = orders[o]
  BY <1>1 DEF VersionsNameRows
<1>3. o \in DOMAIN orders' /\ orders[o].version \in Nat /\ orders'[o].version \in Nat
  BY <1>2 DEF MovesBut, RowsShaped, Shaped
<1>4. orders'[o] = orders[o] \/ orders'[o].version > orders[o].version
  BY <1>2 DEF MovesBut, Moved
<1>5. QED
  BY <1>1, <1>2, <1>3, <1>4

\* Moved rows stay behind the risk gate, and new executions are between rows
\* that are behind it.
LEMMA GatePreserved ==
  ASSUME GatedByStatus, NEW X, MovesBut(X),
         \A o \in DOMAIN orders \ X : Cleared(o) => Cleared(o)',
         RiskEnabled => \A x \in X : orders'[x].status \in OnceAccepted => Cleared(x)',
         \A x \in X : x \in DOMAIN orders /\ orders[x].status \in OnceAccepted =>
           orders'[x].status \in OnceAccepted,
         \A e \in executions' \ executions :
           /\ e.taker \in DOMAIN orders' /\ orders'[e.taker].status \in OnceAccepted
           /\ e.maker \in DOMAIN orders' /\ orders'[e.maker].status \in OnceAccepted
  PROVE  GatedByStatus'
<1>1. ASSUME NEW o \in DOMAIN orders, orders[o].status \in OnceAccepted
      PROVE  o \in DOMAIN orders' /\ orders'[o].status \in OnceAccepted
  BY <1>1 DEF MovesBut, Moved
<1>2. ASSUME NEW e \in executions'
      PROVE  /\ e.taker \in DOMAIN orders' /\ orders'[e.taker].status \in OnceAccepted
             /\ e.maker \in DOMAIN orders' /\ orders'[e.maker].status \in OnceAccepted
  BY <1>1, <1>2 DEF GatedByStatus
<1>3. ASSUME RiskEnabled, NEW o \in DOMAIN orders', orders'[o].status \in OnceAccepted
      PROVE  Cleared(o)'
  <2>1. CASE o \in X
    BY <2>1, <1>3
  <2>2. CASE o \notin X
    <3>1. o \in DOMAIN orders /\ orders[o].status \in OnceAccepted
      BY <2>2, <1>3 DEF MovesBut, Moved, OnceAccepted
    <3>2. QED
      BY <3>1, <2>2, <1>3 DEF GatedByStatus
  <2>3. QED
    BY <2>1, <2>2
<1>4. QED
  BY <1>2, <1>3 DEF GatedByStatus

\* Nothing a handler knows of its order changes when rows move.
LEMMA HandlersPreserved ==
  ASSUME HandlersKnow, MovesBut({}), UNCHANGED creates
  PROVE  HandlersKnow'
<1>1. DOMAIN orders' = DOMAIN orders
  BY DEF MovesBut
<1>2. \A o \in DOMAIN orders : orders[o].status = "risk_pending" => orders'[o] = orders[o]
  BY DEF MovesBut, Moved, LiveStatuses
<1>3. QED
  BY <1>1, <1>2 DEF HandlersKnow, creates

\* The steps that only move rows, or that do nothing to the tables at all.
LEMMA MovesKeepInv ==
  ASSUME OrdersInv, MovesBut({}),
         UNCHANGED <<keys, executions, decisions, creates>>,
         \A a \in Amenders : amends'[a] \in {amends[a], Over},
         amends' = [a \in Amenders |-> amends'[a]]
  PROVE  OrdersInv'
<1> USE DEF OrdersInv
<1>1. CallsShaped'
  BY DEF CallsShaped, MovesBut, creates
<1>2. RowsShaped'
  BY ShapedPreserved
<1>3. KeysNameOrders'
  BY DEF KeysNameOrders, MovesBut, creates
<1>4. HandlersKnow'
  BY HandlersPreserved
<1>5. GatedByStatus'
  BY GatePreserved DEF Cleared
<1>6. VersionsNameRows'
  BY <1>2, VersionsPreserved
<1>7. QED
  BY <1>1, <1>2, <1>3, <1>4, <1>5, <1>6

-----------------------------------------------------------------------------
(***************************************************************************)
(* The inductive invariant                                                 *)
(***************************************************************************)

\* Before the first request the tables and the handlers agree.
LEMMA InitOrdersInv == Init => OrdersInv
<1> SUFFICES ASSUME Init PROVE OrdersInv
  OBVIOUS
<1> USE DEF Init, Empty
<1>1. DOMAIN orders = {} /\ DOMAIN keys = {} /\ executions = {}
  OBVIOUS
<1>2. CallsShaped
  BY <1>1 DEF CallsShaped
<1>3. RowsShaped /\ KeysNameOrders /\ GatedByStatus
  BY <1>1 DEF RowsShaped, KeysNameOrders, GatedByStatus
<1>4. HandlersKnow
  BY <1>1 DEF HandlersKnow
<1>5. VersionsNameRows
  BY DEF VersionsNameRows
<1>6. QED
  BY <1>2, <1>3, <1>4, <1>5 DEF OrdersInv

\* A step of a handler that leaves the tables and the amend calls alone.
LEMMA StillKeepsInv ==
  ASSUME OrdersInv, UNCHANGED <<table, amends>>, CallsShaped', HandlersKnow',
         \A o \in DOMAIN orders : body'[o] = body[o]
  PROVE  OrdersInv'
<1> USE DEF OrdersInv, table
<1>1. RowsShaped' /\ KeysNameOrders' /\ GatedByStatus'
  BY DEF RowsShaped, KeysNameOrders, GatedByStatus, Cleared
<1>2. VersionsNameRows'
  BY DEF VersionsNameRows
<1>3. QED
  BY <1>1, <1>2

\* The idempotency lookup changes no row: it may only answer with an order that
\* its key already stands for and whose body is the request's.
LEMMA FindIdempotencyKeepsInv ==
  ASSUME OrderAssumption, OrdersInv, NEW r \in Requests, FindIdempotency(r)
  PROVE  OrdersInv'
<1> USE DEF OrdersInv
<1>1. PICK b \in Bodies :
        /\ body' = [body EXCEPT ![r] = b]
        /\ IF b.key \in DOMAIN keys
           THEN IF body[keys[b.key]] = b THEN Answer(r, keys[b.key]) ELSE Fail(r, "conflict")
           ELSE /\ pc' = [pc EXCEPT ![r] = "create"]
                /\ UNCHANGED answer
  BY DEF FindIdempotency
<1>2. pc[r] = "idle" /\ UNCHANGED <<table, amends>>
  BY DEF FindIdempotency
<1>3. r \notin DOMAIN orders
  BY <1>2 DEF HandlersKnow
<1>4. UNCHANGED <<orders, keys>> /\ \A o \in DOMAIN orders : body'[o] = body[o]
  BY <1>1, <1>2, <1>3 DEF CallsShaped, table
<1>5. CASE b.key \in DOMAIN keys /\ body[keys[b.key]] = b
  <2> DEFINE o == keys[b.key]
  <2>1. o \in DOMAIN orders /\ o \in Requests
    BY <1>5 DEF KeysNameOrders, CallsShaped
  <2>2. /\ pc' = [pc EXCEPT ![r] = "answered"]
        /\ answer' = [answer EXCEPT ![r] = o]
    BY <1>1, <1>5 DEF Answer
  <2>3. CallsShaped'
    BY <1>1, <1>2, <1>4, <2>1, <2>2 DEF CallsShaped, table
  <2>4. \A q \in Requests : body'[q] = IF q = r THEN b ELSE body[q]
    BY <1>1 DEF CallsShaped
  <2>5. HandlersKnow'
    <3>1. ASSUME NEW q \in Requests, pc'[q] = "answered"
          PROVE  /\ answer'[q] \in DOMAIN orders
                 /\ body'[answer'[q]] = body'[q]
      <4>1. CASE q = r
        BY <4>1, <2>1, <2>2, <2>4, <1>3, <1>5 DEF CallsShaped
      <4>2. CASE q # r
        <5>1. pc[q] = "answered" /\ answer'[q] = answer[q]
          BY <4>2, <2>2, <3>1 DEF CallsShaped
        <5>2. answer[q] \in DOMAIN orders /\ body[answer[q]] = body[q]
          BY <5>1 DEF HandlersKnow
        <5>3. answer[q] \in Requests /\ answer[q] # r
          BY <5>2, <1>3 DEF CallsShaped
        <5>4. QED
          BY <5>1, <5>2, <5>3, <4>2, <2>4
      <4>3. QED
        BY <4>1, <4>2
    <3>2. ASSUME NEW q \in Requests, pc'[q] # "answered"
          PROVE  pc'[q] = pc[q]
      BY <3>2, <2>2 DEF CallsShaped
    <3>3. QED
      BY <3>1, <3>2, <1>4 DEF HandlersKnow
  <2>6. QED
    BY <1>2, <1>4, <2>3, <2>5, StillKeepsInv
<1>6. CASE ~(b.key \in DOMAIN keys /\ body[keys[b.key]] = b)
  <2>1. UNCHANGED answer /\ \E x \in {"create", "conflict"} : pc' = [pc EXCEPT ![r] = x]
    BY <1>1, <1>6 DEF Fail
  <2>2. CallsShaped'
    BY <1>1, <1>2, <1>4, <2>1 DEF CallsShaped, table
  <2>3. HandlersKnow'
    <3>1. ASSUME NEW q \in Requests, pc'[q] = "answered"
          PROVE  /\ answer[q] \in DOMAIN orders
                 /\ body'[answer[q]] = body'[q]
      <4>1. q # r /\ pc[q] = "answered"
        BY <2>1, <3>1 DEF CallsShaped
      <4>2. answer[q] \in DOMAIN orders /\ body[answer[q]] = body[q]
        BY <4>1 DEF HandlersKnow
      <4>3. answer[q] \in Requests /\ answer[q] # r
        BY <4>2, <1>3 DEF CallsShaped
      <4>4. QED
        BY <4>1, <4>2, <4>3, <1>1 DEF CallsShaped
    <3>2. ASSUME NEW q \in Requests
          PROVE  /\ pc'[q] \in {"idle", "create"} => q \notin DOMAIN orders
                 /\ pc'[q] = "risk" => pc[q] = "risk"
      BY <1>3, <2>1 DEF HandlersKnow, CallsShaped
    <3>3. QED
      BY <3>1, <3>2, <1>4, <2>1 DEF HandlersKnow
  <2>4. QED
    BY <1>2, <1>4, <2>2, <2>3, StillKeepsInv
<1>7. QED
  BY <1>5, <1>6

\* A create request that ends without an answer: CreateRefused and Lose.
LEMMA FailKeepsInv ==
  ASSUME OrdersInv, NEW r \in Requests, NEW outcome \in {"error", "lost"},
         Fail(r, outcome), UNCHANGED <<table, body, amends>>
  PROVE  OrdersInv'
<1> USE DEF OrdersInv
<1>1. pc' = [pc EXCEPT ![r] = outcome] /\ UNCHANGED answer
  BY DEF Fail
<1>2. CallsShaped'
  BY <1>1 DEF CallsShaped, table
<1>3. HandlersKnow'
  <2>1. \A q \in Requests : pc'[q] \in {"idle", "create", "risk", "answered"} => pc'[q] = pc[q]
    BY <1>1 DEF CallsShaped
  <2>2. QED
    BY <2>1, <1>1 DEF HandlersKnow, table
<1>4. QED
  BY <1>2, <1>3, StillKeepsInv

\* A create handler that is about to insert finds its key unused, so no other
\* order carries it.
LEMMA CreateOrderKeepsInv ==
  ASSUME OrderAssumption, OrdersInv, NEW r \in Requests, CreateOrder(r)
  PROVE  OrdersInv' /\ MovesBut({r}) /\ r \notin DOMAIN orders
<1> USE DEF OrdersInv
<1> DEFINE row == NewOrder(body[r])
           rows == Inserted(r)
<1>1. /\ pc[r] = "create" /\ r \notin DOMAIN orders /\ body[r] \in Bodies
      /\ body[r].key \notin DOMAIN keys /\ body[r].key \in Keys
  BY DEF CreateOrder, KeyFree, HandlersKnow, CallsShaped, OrderAssumption, Body
<1>2. /\ row.status \in {"rejected", "risk_pending", "accepted"}
      /\ row.status = "accepted" => ~RiskEnabled
      /\ row.version = 1
      /\ Shaped(row)
  BY DEF NewOrder, Shaped, Columns, Statuses
<1>3. /\ DOMAIN rows = DOMAIN orders \union {r}
      /\ rows[r] = row
      /\ \A o \in DOMAIN orders : rows[o] = orders[o]
  BY <1>1 DEF Inserted
<1>4. \A o \in DOMAIN rows : Shaped(rows[o])
  BY <1>2, <1>3 DEF RowsShaped
<1> HIDE DEF row, rows
<1>5. /\ MovesBut({r})
      /\ Shaped(orders'[r])
      /\ orders'[r].status \in OnceAccepted => ~RiskEnabled
      /\ row.status # "accepted" => orders'[r] = row
      /\ \A e \in executions' \ executions :
           /\ e.taker \in DOMAIN orders' /\ orders'[e.taker].status \in OnceAccepted
           /\ e.maker \in DOMAIN orders' /\ orders'[e.maker].status \in OnceAccepted
  <2>1. CASE row.status = "accepted"
    <3>1. Accept(rows, r)
      BY <2>1, <1>3 DEF CreateOrder, rows
    <3>2. /\ DOMAIN orders' = DOMAIN rows
          /\ \A x \in DOMAIN rows : orders'[x] = rows[x] \/ Moved(rows[x], orders'[x])
          /\ \A e \in executions' \ executions :
               /\ e.taker = r
               /\ e.maker \in DOMAIN rows
               /\ rows[e.maker].status \in LiveStatuses
      BY <3>1, <2>1, <1>3, <1>4, AcceptMoves
    <3>3. \A x \in DOMAIN rows : rows[x].status \in LiveStatuses =>
            orders'[x].status \in OnceAccepted
      BY <3>2 DEF Moved, OnceAccepted
    <3>4. MovesBut({r})
      BY <3>2, <1>3 DEF MovesBut
    <3>5. Shaped(orders'[r])
      BY <3>2, <1>3, <1>2 DEF Moved
    <3>6. QED
      BY <3>2, <3>3, <3>4, <3>5, <2>1, <1>2, <1>3 DEF LiveStatuses
  <2>2. CASE row.status # "accepted"
    <3>1. orders' = rows /\ UNCHANGED executions
      BY <2>2, <1>3 DEF CreateOrder, rows
    <3>2. MovesBut({r})
      BY <3>1, <1>3 DEF MovesBut
    <3>3. QED
      BY <3>1, <3>2, <2>2, <1>2, <1>3 DEF OnceAccepted, LiveStatuses
  <2>3. QED
    BY <2>1, <2>2
<1>6. UNCHANGED <<decisions, body, amends>>
  BY DEF CreateOrder
<1>7. keys' = [k \in DOMAIN keys \union {body[r].key} |->
                 IF k = body[r].key THEN r ELSE keys[k]]
  BY DEF CreateOrder
<1>8. \/ row.status = "risk_pending" /\ pc' = [pc EXCEPT ![r] = "risk"] /\ UNCHANGED answer
      \/ pc' = [pc EXCEPT ![r] = "answered"] /\ answer' = [answer EXCEPT ![r] = r]
  BY <1>3 DEF CreateOrder, Answer, rows
<1>9. DOMAIN orders' = DOMAIN orders \union {r}
  BY <1>5 DEF MovesBut
<1>10. CallsShaped'
  BY <1>1, <1>6, <1>7, <1>8, <1>9 DEF CallsShaped
<1>11. RowsShaped'
  BY <1>5, ShapedPreserved
<1>12. KeysNameOrders'
  BY <1>1, <1>6, <1>7, <1>9 DEF KeysNameOrders
<1>13. HandlersKnow'
  <2>1. ASSUME NEW q \in Requests, q # r
        PROVE  pc'[q] = pc[q] /\ answer'[q] = answer[q]
    BY <2>1, <1>8 DEF CallsShaped
  <2>2. \A o \in DOMAIN orders : orders[o].status = "risk_pending" => orders'[o] = orders[o]
    BY <1>1, <1>5 DEF MovesBut, Moved, LiveStatuses
  <2>3. pc'[r] = "risk" => orders'[r].status = "risk_pending"
    BY <1>5, <1>8 DEF CallsShaped
  <2>4. pc'[r] = "answered" => answer'[r] = r
    BY <1>8 DEF CallsShaped
  <2>5. pc'[r] \in {"risk", "answered"}
    BY <1>8 DEF CallsShaped
  <2>6. QED
    BY <2>1, <2>2, <2>3, <2>4, <2>5, <1>6, <1>9 DEF HandlersKnow
<1>14. GatedByStatus'
  BY <1>1, <1>5, <1>6, GatePreserved DEF Cleared
<1>15. VersionsNameRows'
  BY <1>1, <1>5, <1>6, <1>11, VersionsPreserved
<1>16. QED
  BY <1>1, <1>5, <1>10, <1>11, <1>12, <1>13, <1>14, <1>15

\* The decision is recorded in the transaction that lets the order through.
LEMMA ApplyRiskDecisionKeepsInv ==
  ASSUME OrderAssumption, OrdersInv, NEW r \in Requests, ApplyRiskDecision(r)
  PROVE  OrdersInv' /\ MovesBut({r}) /\ orders[r].status = "risk_pending"
<1> USE DEF OrdersInv
<1>1. PICK reply \in (IF Priced(orders[r]) THEN RiskAnswers ELSE {"rejected"}) :
        /\ decisions' = [o \in DOMAIN decisions \union {r} |->
                          IF o = r THEN reply ELSE decisions[o]]
        /\ IF Decision(orders[r], reply) = "APPROVED"
           THEN Accept([orders EXCEPT ![r] = Decided(@, Decision(orders[r], reply))], r)
           ELSE /\ orders' = [orders EXCEPT ![r] = Decided(@, Decision(orders[r], reply))]
                /\ UNCHANGED executions
  BY DEF ApplyRiskDecision
<1> DEFINE decision == Decision(orders[r], reply)
           row == Decided(orders[r], decision)
           rows == [orders EXCEPT ![r] = row]
<1>2. /\ r \in DOMAIN orders /\ orders[r].status = "risk_pending" /\ pc[r] = "risk"
      /\ body[r] \in Bodies
  BY DEF ApplyRiskDecision, HandlersKnow, CallsShaped
<1>3. /\ decision \in {"APPROVED", "REJECTED", "ERROR"}
      /\ decision = "APPROVED" =>
           reply \in {"approved"} \union (IF FailOpen THEN {"unavailable"} ELSE {})
  BY DEF Decision
<1>4. /\ Shaped(row)
      /\ row.version = orders[r].version + 1
      /\ row.status = CASE decision = "APPROVED" -> "accepted"
                         [] decision = "REJECTED" -> "risk_rejected"
                         [] decision = "ERROR" -> "risk_error"
  <2>1. Shaped(orders[r])
    BY <1>2 DEF RowsShaped
  <2> HIDE DEF decision
  <2>2. QED
    BY <2>1, <1>3, DecidedShaped
<1>5. /\ DOMAIN rows = DOMAIN orders
      /\ rows[r] = row
      /\ \A o \in DOMAIN orders : o # r => rows[o] = orders[o]
  BY <1>2
<1>6. \A o \in DOMAIN rows : Shaped(rows[o])
  BY <1>4, <1>5 DEF RowsShaped
<1>7. IF decision = "APPROVED" THEN Accept(rows, r)
                               ELSE orders' = rows /\ UNCHANGED executions
  BY <1>1
<1> HIDE DEF decision, row, rows
<1>8. /\ MovesBut({r})
      /\ Shaped(orders'[r])
      /\ orders'[r].version > orders[r].version
      /\ orders'[r].status \in OnceAccepted => decision = "APPROVED"
      /\ \A e \in executions' \ executions :
           /\ e.taker \in DOMAIN orders' /\ orders'[e.taker].status \in OnceAccepted
           /\ e.maker \in DOMAIN orders' /\ orders'[e.maker].status \in OnceAccepted
  <2>0. orders[r].version \in Nat
    BY <1>2 DEF RowsShaped, Shaped
  <2>1. CASE decision = "APPROVED"
    <3>1. Accept(rows, r) /\ row.status = "accepted"
      BY <2>1, <1>4, <1>7
    <3>2. /\ DOMAIN orders' = DOMAIN rows
          /\ \A x \in DOMAIN rows : orders'[x] = rows[x] \/ Moved(rows[x], orders'[x])
          /\ \A e \in executions' \ executions :
               /\ e.taker = r
               /\ e.maker \in DOMAIN rows
               /\ rows[e.maker].status \in LiveStatuses
      BY <3>1, <1>2, <1>5, <1>6, AcceptMoves
    <3>3. \A x \in DOMAIN rows : rows[x].status \in LiveStatuses =>
            orders'[x].status \in OnceAccepted
      BY <3>2 DEF Moved, OnceAccepted
    <3>4. MovesBut({r})
      BY <3>2, <1>2, <1>5 DEF MovesBut
    <3>5. Shaped(orders'[r])
      BY <3>2, <1>2, <1>4, <1>5 DEF Moved
    <3>6. orders'[r].version > orders[r].version
      <4>1. CASE orders'[r] = row
        BY <4>1, <2>0, <1>4
      <4>2. CASE Moved(row, orders'[r])
        <5>1. orders'[r].version > row.version /\ orders'[r].version \in Nat
          BY <4>2 DEF Moved, Shaped
        <5>2. QED
          BY <5>1, <2>0, <1>4
      <4>3. QED
        BY <4>1, <4>2, <3>2, <1>2, <1>5
    <3>7. orders'[r].status \in OnceAccepted
      BY <3>1, <3>3, <1>2, <1>5 DEF LiveStatuses
    <3>8. \A e \in executions' \ executions :
            /\ e.taker \in DOMAIN orders' /\ orders'[e.taker].status \in OnceAccepted
            /\ e.maker \in DOMAIN orders' /\ orders'[e.maker].status \in OnceAccepted
      BY <3>2, <3>3, <3>7, <1>2, <1>5
    <3>9. QED
      BY <3>4, <3>5, <3>6, <3>8, <2>1
  <2>2. CASE decision # "APPROVED"
    <3>1. orders' = rows /\ UNCHANGED executions
      BY <2>2, <1>7
    <3>2. MovesBut({r})
      BY <3>1, <1>2, <1>5 DEF MovesBut
    <3>3. row.status \notin OnceAccepted
      BY <2>2, <1>3, <1>4 DEF OnceAccepted, LiveStatuses
    <3>4. orders'[r] = row
      BY <3>1, <1>5
    <3>5. Shaped(row) /\ row.version > orders[r].version
      BY <1>4, <2>0
    <3>6. QED
      BY <3>1, <3>2, <3>3, <3>4, <3>5
  <2>3. QED
    BY <2>1, <2>2
<1>9. UNCHANGED <<keys, body, amends>>
  BY DEF ApplyRiskDecision
<1>10. pc' = [pc EXCEPT ![r] = "answered"] /\ answer' = [answer EXCEPT ![r] = r]
  BY DEF ApplyRiskDecision, Answer
<1>11. DOMAIN orders' = DOMAIN orders
  BY <1>2, <1>8 DEF MovesBut
<1>12. CallsShaped'
  BY <1>2, <1>9, <1>10, <1>11 DEF CallsShaped
<1>13. RowsShaped'
  BY <1>8, ShapedPreserved
<1>14. KeysNameOrders'
  BY <1>9, <1>11 DEF KeysNameOrders
<1>15. HandlersKnow'
  <2>1. ASSUME NEW q \in Requests, q # r
        PROVE  pc'[q] = pc[q] /\ answer'[q] = answer[q]
    BY <2>1, <1>10 DEF CallsShaped
  <2>2. \A o \in DOMAIN orders : o # r /\ orders[o].status = "risk_pending" =>
          orders'[o] = orders[o]
    BY <1>8 DEF MovesBut, Moved, LiveStatuses
  <2>3. pc'[r] = "answered" /\ answer'[r] = r
    BY <1>10 DEF CallsShaped
  <2>4. QED
    BY <2>1, <2>2, <2>3, <1>2, <1>9, <1>11 DEF HandlersKnow
<1>16. GatedByStatus'
  <2>1. \A o \in DOMAIN orders \ {r} : Cleared(o) => Cleared(o)'
    BY <1>1 DEF Cleared
  <2>2. orders'[r].status \in OnceAccepted => Cleared(r)'
    <3>1. r \in DOMAIN decisions' /\ decisions'[r] = reply
      BY <1>1
    <3>2. QED
      BY <3>1, <1>3, <1>8 DEF Cleared, decision
  <2>3. orders[r].status \notin OnceAccepted
    BY <1>2 DEF OnceAccepted, LiveStatuses
  <2>4. QED
    BY <2>1, <2>2, <2>3, <1>8, GatePreserved
<1>17. VersionsNameRows'
  BY <1>8, <1>9, <1>13, VersionsPreserved
<1>18. QED
  BY <1>2, <1>8, <1>12, <1>13, <1>14, <1>15, <1>16, <1>17

\* A cancel moves one accepted or partially filled row to cancelled.
LEMMA CancelWriteKeepsInv ==
  ASSUME OrdersInv, NEW c \in Cancellers, CancelWrite(c)
  PROVE  OrdersInv' /\ MovesBut({})
<1> DEFINE o == cancels[c]
           row == [orders[o] EXCEPT !.status = "cancelled", !.remaining = 0,
                                    !.version = NextVersion(orders[o])]
<1>1. orders' = IF Live(o) THEN [orders EXCEPT ![o] = row] ELSE orders
  BY DEF CancelWrite, Cancellable
<1>2. MovesBut({})
  <2>1. CASE ~Live(o)
    BY <2>1, <1>1 DEF MovesBut
  <2>2. CASE Live(o)
    <3>1. Shaped(orders[o]) /\ orders[o].status \in LiveStatuses /\ o \in DOMAIN orders
      BY <2>2 DEF Live, OrdersInv, RowsShaped
    <3>2. DOMAIN orders[o] = Columns
      BY <3>1 DEF Shaped
    <3>3. row.status = "cancelled" /\ row.version = orders[o].version + 1
      BY <3>2 DEF Columns, NextVersion
    <3>4. row = [column \in Columns |-> row[column]]
      BY <3>2
    <3>5. Moved(orders[o], row)
      <4>1. orders[o].version \in Nat
        BY <3>1 DEF Shaped
      <4> HIDE DEF row
      <4>2. QED
        BY <3>1, <3>3, <3>4, <4>1 DEF Moved, Shaped, Statuses, OnceAccepted
    <3>6. QED
      BY <3>1, <3>5, <2>2, <1>1 DEF MovesBut
  <2>3. QED
    BY <2>1, <2>2
<1>3. UNCHANGED <<keys, executions, decisions, creates, amends>>
  BY DEF CancelWrite
<1>4. amends' = [a \in Amenders |-> amends'[a]]
  BY <1>3 DEF OrdersInv, CallsShaped
<1>5. QED
  BY <1>2, <1>3, <1>4, MovesKeepInv

\* An amendment moves one live row and leaves its status alone.
LEMMA AmendWriteKeepsInv ==
  ASSUME OrdersInv, NEW a \in Amenders, AmendWrite(a)
  PROVE  OrdersInv' /\ MovesBut({})
<1> DEFINE o == amends[a].order
           change == amends[a].change
           row == AmendedRow(orders[o], change)
<1>1. /\ orders' = [orders EXCEPT ![o] = row]
      /\ Live(o)
  BY DEF AmendWrite, Amendable
<1>2. Shaped(orders[o]) /\ orders[o].status \in LiveStatuses /\ o \in DOMAIN orders
  BY <1>1 DEF Live, OrdersInv, RowsShaped
<1>3. DOMAIN orders[o] = Columns
  BY <1>2 DEF Shaped
<1>4. row.status = orders[o].status /\ row.version = orders[o].version + 1
  BY <1>3 DEF AmendedRow, Columns, NextVersion
<1>5. row = [column \in Columns |-> row[column]]
  BY <1>3 DEF AmendedRow
<1>6. Moved(orders[o], row)
  BY <1>2, <1>4, <1>5 DEF Moved, Shaped, OnceAccepted
<1>7. MovesBut({})
  BY <1>1, <1>2, <1>6 DEF MovesBut
<1>8. UNCHANGED <<keys, executions, decisions, creates>> /\ amends' = [amends EXCEPT ![a] = Over]
  BY DEF AmendWrite
<1>9. amends = [b \in Amenders |-> amends[b]]
  BY DEF OrdersInv, CallsShaped
<1>10. /\ amends' = [b \in Amenders |-> amends'[b]]
       /\ \A b \in Amenders : amends'[b] \in {amends[b], Over}
  BY <1>8, <1>9
<1>11. QED
  BY <1>7, <1>8, <1>10, MovesKeepInv

\* The expiry batch moves live rows to expired.
LEMMA ExpireDueBatchKeepsInv ==
  ASSUME OrdersInv, ExpireDueBatch
  PROVE  OrdersInv' /\ MovesBut({})
<1> DEFINE Row(o) == [orders[o] EXCEPT !.status = "expired", !.version = NextVersion(orders[o])]
<1>1. PICK S \in SUBSET {o \in DOMAIN orders : Due(o)} :
        orders' = [o \in DOMAIN orders |-> IF o \in S THEN Row(o) ELSE orders[o]]
  BY DEF ExpireDueBatch
<1>2. ASSUME NEW o \in S PROVE Moved(orders[o], Row(o))
  <2>1. Shaped(orders[o]) /\ orders[o].status \in LiveStatuses /\ o \in DOMAIN orders
    BY <1>1 DEF Due, Live, OrdersInv, RowsShaped
  <2>2. DOMAIN orders[o] = Columns
    BY <2>1 DEF Shaped
  <2>3. Row(o).status = "expired" /\ Row(o).version = orders[o].version + 1
    BY <2>2 DEF Columns, NextVersion
  <2>4. Row(o) = [column \in Columns |-> Row(o)[column]]
    BY <2>2
  <2>5. orders[o].version \in Nat
    BY <2>1 DEF Shaped
  <2> HIDE DEF Row
  <2>6. QED
    BY <2>1, <2>3, <2>4, <2>5 DEF Moved, Shaped, Statuses, OnceAccepted
<1>3. MovesBut({})
  BY <1>1, <1>2 DEF MovesBut
<1>4. UNCHANGED <<keys, executions, decisions, creates, amends>>
  BY DEF ExpireDueBatch
<1>5. amends' = [a \in Amenders |-> amends'[a]]
  BY <1>4 DEF OrdersInv, CallsShaped
<1>6. QED
  BY <1>3, <1>4, <1>5, MovesKeepInv

\* A client that reads a row holds the version it has.
LEMMA AmendReadKeepsInv ==
  ASSUME OrdersInv, NEW a \in Amenders, NEW o \in Requests, AmendRead(a, o)
  PROVE  OrdersInv'
<1> USE DEF OrdersInv
<1>1. PICK change \in Changes :
        amends' = [amends EXCEPT ![a] =
                     [order |-> o, version |-> orders[o].version,
                      change |-> change, seen |-> orders[o]]]
  BY DEF AmendRead
<1>2. UNCHANGED <<table, creates>> /\ o \in DOMAIN orders
  BY DEF AmendRead, Live
<1>3. orders[o].version \in Nat
  BY <1>2 DEF RowsShaped, Shaped
<1>4. CallsShaped'
  BY <1>1, <1>2 DEF CallsShaped, table, creates
<1>5. RowsShaped' /\ KeysNameOrders' /\ HandlersKnow' /\ GatedByStatus'
  BY <1>2 DEF RowsShaped, KeysNameOrders, HandlersKnow, GatedByStatus, Cleared, table, creates
<1>6. VersionsNameRows'
  <2>1. ASSUME NEW b \in Amenders, b # a PROVE amends'[b] = amends[b]
    BY <2>1, <1>1 DEF CallsShaped
  <2>2. amends'[a] = [order |-> o, version |-> orders[o].version,
                      change |-> change, seen |-> orders[o]]
    BY <1>1 DEF CallsShaped
  <2>3. UNCHANGED orders
    BY <1>2 DEF table
  <2>4. QED
    BY <2>1, <2>2, <2>3, <1>2, <1>3 DEF VersionsNameRows
<1>7. QED
  BY <1>4, <1>5, <1>6

\* The steps that leave every row as it is: refused amendments, the reads of
\* cancel calls, the passing of time, and stuttering.
LEMMA IdleKeepsInv ==
  ASSUME OrdersInv, UNCHANGED <<orders, keys, executions, decisions, creates>>,
         \/ UNCHANGED amends
         \/ \E a \in Amenders : amends' = [amends EXCEPT ![a] = Over]
  PROVE  OrdersInv' /\ MovesBut({})
<1>1. MovesBut({})
  BY DEF MovesBut
<1>2. amends = [a \in Amenders |-> amends[a]]
  BY DEF OrdersInv, CallsShaped
<1>3. /\ amends' = [a \in Amenders |-> amends'[a]]
      /\ \A a \in Amenders : amends'[a] \in {amends[a], Over}
  BY <1>2
<1>4. QED
  BY <1>1, <1>3, MovesKeepInv

\* Every step keeps the invariant.
LEMMA NextOrdersInv == OrderAssumption /\ OrdersInv /\ [Next]_vars => OrdersInv'
<1> SUFFICES ASSUME OrderAssumption, OrdersInv, [Next]_vars PROVE OrdersInv'
  OBVIOUS
<1>1. ASSUME NEW r \in Requests, Create(r) PROVE OrdersInv'
  <2>1. CASE FindIdempotency(r)
    BY <2>1, FindIdempotencyKeepsInv
  <2>2. CASE CreateOrder(r)
    BY <2>2, CreateOrderKeepsInv
  <2>3. CASE CreateRefused(r)
    BY <2>3, FailKeepsInv DEF CreateRefused
  <2>4. CASE Lose(r)
    BY <2>4, FailKeepsInv DEF Lose
  <2>5. CASE ApplyRiskDecision(r)
    BY <2>5, ApplyRiskDecisionKeepsInv
  <2>6. QED
    BY <1>1, <2>1, <2>2, <2>3, <2>4, <2>5 DEF Create
<1>2. ASSUME NEW r \in Requests, ExpiryPasses(r) PROVE OrdersInv'
  BY <1>2, IdleKeepsInv DEF ExpiryPasses
<1>3. ASSUME NEW c \in Cancellers, CancelWrite(c) PROVE OrdersInv'
  BY <1>3, CancelWriteKeepsInv
<1>4. ASSUME NEW c \in Cancellers, NEW o \in Requests, CancelRead(c, o) PROVE OrdersInv'
  BY <1>4, IdleKeepsInv DEF CancelRead, table
<1>5. ASSUME NEW a \in Amenders, AmendWrite(a) PROVE OrdersInv'
  BY <1>5, AmendWriteKeepsInv
<1>6. ASSUME NEW a \in Amenders, AmendRefused(a) PROVE OrdersInv'
  BY <1>6, IdleKeepsInv DEF AmendRefused, table
<1>7. ASSUME NEW a \in Amenders, NEW o \in Requests, AmendRead(a, o) PROVE OrdersInv'
  BY <1>7, AmendReadKeepsInv
<1>8. CASE ExpireDueBatch
  BY <1>8, ExpireDueBatchKeepsInv
<1>9. CASE UNCHANGED vars
  BY <1>9, IdleKeepsInv DEF vars, table
<1>10. QED
  BY <1>1, <1>2, <1>3, <1>4, <1>5, <1>6, <1>7, <1>8, <1>9 DEF Next

\* In every reachable state the handlers' memory agrees with the tables, used
\* keys and orders stand for each other, versions name the rows they were read
\* with, and what was accepted was cleared.
THEOREM OrdersInvariant == Spec => []OrdersInv
<1>1. Init => OrdersInv
  BY InitOrdersInv
<1>2. OrdersInv /\ [Next]_vars => OrdersInv'
  BY OrderAssumption, NextOrdersInv
<1>3. QED
  BY <1>1, <1>2, PTL DEF Spec

\* RiskGate: nothing is accepted, traded or cancelled that the risk engine did
\* not clear, for any number of orders and any death of a create handler
\* (evaluateAndApplyRisk, repo.ApplyRiskDecision).
THEOREM RiskGateHolds == Spec => []RiskGate
<1>1. OrdersInv => RiskGate
  BY DEF OrdersInv, RiskGate, GatedByStatus
<1>2. QED
  BY <1>1, OrdersInvariant, PTL

\* OneOrderPerKey: any number of concurrent requests with one idempotency key
\* insert one order, and only requests that asked for it are answered with it
\* (FindIdempotency, the key insert of repo.CreateOrder).
THEOREM OneOrderPerKeyHolds == Spec => []OneOrderPerKey
<1>1. OrdersInv => OneOrderPerKey
  BY DEF OrdersInv, OneOrderPerKey, KeysNameOrders, HandlersKnow
<1>2. QED
  BY <1>1, OrdersInvariant, PTL

-----------------------------------------------------------------------------
(***************************************************************************)
(* What a step may do to a row                                             *)
(***************************************************************************)

\* A terminal row is not one that a step may move or insert.
LEMMA MovesSpareTerminal ==
  ASSUME NEW X, MovesBut(X),
         \A x \in X : x \in DOMAIN orders => orders[x].status = "risk_pending",
         NEW o \in DOMAIN orders, orders[o].status \in TerminalStatuses
  PROVE  orders'[o] = orders[o]
BY DEF MovesBut, Moved, TerminalStatuses, LiveStatuses

\* No step changes a terminal order.
LEMMA NextSparesTerminal ==
  ASSUME OrderAssumption, OrdersInv, [Next]_vars,
         NEW o \in DOMAIN orders, orders[o].status \in TerminalStatuses
  PROVE  orders'[o] = orders[o]
<1>1. ASSUME NEW r \in Requests, Create(r) PROVE orders'[o] = orders[o]
  <2>1. CASE FindIdempotency(r) \/ CreateRefused(r) \/ Lose(r)
    BY <2>1 DEF FindIdempotency, CreateRefused, Lose, table
  <2>2. CASE CreateOrder(r)
    BY <2>2, CreateOrderKeepsInv, MovesSpareTerminal
  <2>3. CASE ApplyRiskDecision(r)
    BY <2>3, ApplyRiskDecisionKeepsInv, MovesSpareTerminal
  <2>4. QED
    BY <1>1, <2>1, <2>2, <2>3 DEF Create
<1>2. ASSUME NEW c \in Cancellers, CancelWrite(c) PROVE orders'[o] = orders[o]
  BY <1>2, CancelWriteKeepsInv, MovesSpareTerminal
<1>3. ASSUME NEW a \in Amenders, AmendWrite(a) PROVE orders'[o] = orders[o]
  BY <1>3, AmendWriteKeepsInv, MovesSpareTerminal
<1>4. CASE ExpireDueBatch
  BY <1>4, ExpireDueBatchKeepsInv, MovesSpareTerminal
<1>5. ASSUME \/ \E r \in Requests : ExpiryPasses(r)
             \/ \E c \in Cancellers, p \in Requests : CancelRead(c, p)
             \/ \E a \in Amenders : AmendRefused(a) \/ \E p \in Requests : AmendRead(a, p)
             \/ UNCHANGED vars
      PROVE  orders'[o] = orders[o]
  BY <1>5 DEF ExpiryPasses, CancelRead, AmendRefused, AmendRead, vars, table
<1>6. QED
  BY <1>1, <1>2, <1>3, <1>4, <1>5 DEF Next

\* TerminalIsFinal: no interleaving of handlers, matches and the expiry worker
\* changes an order that has ended (the WHERE clauses of repo.CancelOrder and
\* repo.AmendOrder, loadRestingOrders, ExpireDueBatch).
THEOREM TerminalIsFinalHolds == Spec => TerminalIsFinal
<1>1. OrdersInv /\ [Next]_vars =>
        [\A o \in DOMAIN orders : orders[o].status \in TerminalStatuses =>
           orders'[o] = orders[o]]_vars
  BY OrderAssumption, NextSparesTerminal
<1>2. QED
  BY <1>1, OrdersInvariant, PTL DEF Spec, TerminalIsFinal

\* AmendsWhatWasSeen: an amendment that is applied finds the very row its
\* client has seen, as every write of a row takes a new version number
\* (repo.AmendOrder).
THEOREM AmendsWhatWasSeenHolds == Spec => AmendsWhatWasSeen
<1>1. OrdersInv /\ [Next]_vars =>
        [\A a \in Amenders : AmendWrite(a) => orders[amends[a].order] = amends[a].seen]_vars
  <2> SUFFICES ASSUME OrdersInv, NEW a \in Amenders, AmendWrite(a)
               PROVE  orders[amends[a].order] = amends[a].seen
    OBVIOUS
  <2>1. amends[a] \notin {NoCall, Over}
    BY DEF AmendWrite
  <2>2. orders[amends[a].order].version = amends[a].version
    BY DEF AmendWrite, Amendable
  <2>3. QED
    BY <2>1, <2>2 DEF OrdersInv, VersionsNameRows
<1>2. QED
  BY <1>1, OrdersInvariant, PTL DEF Spec, AmendsWhatWasSeen

-----------------------------------------------------------------------------
(***************************************************************************)
(* The tables: quantities and executions                                   *)
(***************************************************************************)

\* A row whose quantities agree.  What waits for the risk decision has
\* everything left to trade.
RowOK(row) ==
  /\ row \in Order
  /\ Agrees(row)
  /\ row.status = "risk_pending" => row.remaining = row.quantity

\* Executions are between two orders of the table, and older than the version
\* their taker has now, so that no later match repeats one.
TradesOK(rows, trades) ==
  /\ IsFiniteSet(trades) /\ trades \subseteq Execution
  /\ \A e \in trades : /\ e.taker \in DOMAIN rows /\ e.maker \in DOMAIN rows
                       /\ e.taker # e.maker
                       /\ e.version < rows[e.taker].version

\* The orders table and the executions agree with each other.
TableOK(rows, trades) ==
  /\ IsFiniteSet(DOMAIN rows) /\ DOMAIN rows \subseteq Requests
  /\ \A o \in DOMAIN rows : RowOK(rows[o])
  /\ TradesOK(rows, trades)
  /\ \A o \in DOMAIN rows : AddsUp(rows[o].filled, trades, o)

\* RatString moves an amount by half a tenth decimal at most.
LEMMA RatStringClose ==
  ASSUME OrderAssumption, NEW amount \in Nat
  PROVE  /\ RatString(amount) \in Nat
         /\ Slack(TenthDecimal) \in Nat
         /\ RatString(amount) - Slack(TenthDecimal) <= amount
         /\ amount <= RatString(amount) + Slack(TenthDecimal)
<1>1. PICK d : d = TenthDecimal /\ d \in Nat \ {0}
  BY DEF OrderAssumption
<1>2. PICK rounded : rounded = RoundedTo(amount, d)
  OBVIOUS
<1>3. /\ rounded \in Nat /\ Slack(d) \in Nat
      /\ amount - Slack(d) <= rounded /\ rounded <= amount + Slack(d)
  BY <1>1, <1>2, RoundedClose
<1> QED
  BY <1>1, <1>2, <1>3 DEF RatString

\* What is zero adds nothing.
LEMMA SumPositive ==
  ASSUME NEW S, IsFiniteSet(S), NEW f, \A x \in S : f[x] \in Nat
  PROVE  SumFunctionOnSet(f, {x \in S : f[x] > 0}) = SumFunctionOnSet(f, S)
<1> DEFINE T == {x \in S : f[x] > 0}
           Z == S \ T
           g == [x \in Z |-> 0]
<1>1. T \in SUBSET S /\ Z \in SUBSET S /\ T \intersect Z = {} /\ T \union Z = S
  OBVIOUS
<1>2. IsFiniteSet(T) /\ IsFiniteSet(Z)
  BY <1>1, FS_Subset
<1>3. \A x \in Z : f[x] = g[x]
  OBVIOUS
<1>4. g \in [Z -> {0}]
  OBVIOUS
<1>5. \A x \in T \union Z : f[x] \in Int
  OBVIOUS
<1>6. \A x \in T : f[x] \in Nat
  OBVIOUS
<1> HIDE DEF T, Z, g
<1>7. SumFunctionOnSet(f, T \union Z) = SumFunctionOnSet(f, T) + SumFunctionOnSet(f, Z)
  BY <1>1, <1>2, <1>5, SumUnion
<1>8. SumFunctionOnSet(g, Z) = 0
  BY <1>2, <1>4, SumNought
<1>9. SumFunctionOnSet(f, Z) = SumFunctionOnSet(g, Z)
  BY <1>2, <1>3, SumSame
<1>10. SumFunctionOnSet(f, T) \in Nat
  BY <1>2, <1>6, SumNatural
<1>11. SumFunctionOnSet(f, T) = SumFunctionOnSet(f, S)
  <2>1. PICK a, b : a = SumFunctionOnSet(f, T) /\ b = SumFunctionOnSet(f, Z)
    OBVIOUS
  <2>2. a \in Nat /\ b = 0
    BY <1>8, <1>9, <1>10, <2>1
  <2>3. SumFunctionOnSet(f, S) = a + b
    BY <1>1, <1>7, <2>1
  <2> QED
    BY <2>1, <2>2, <2>3
<1> QED
  BY <1>11 DEF T

\* What two sets of executions say was traded adds up.
LEMMA TradedAdds ==
  ASSUME NEW A \in SUBSET Execution, NEW B \in SUBSET Execution,
         IsFiniteSet(A), IsFiniteSet(B), A \intersect B = {}, NEW o
  PROVE  /\ Traded(A, o) \in Nat /\ Traded(B, o) \in Nat
         /\ Traded(A \union B, o) = Traded(A, o) + Traded(B, o)
<1> DEFINE Of(S) == TradesOf(S, o)
           Q(S) == [e \in S |-> e.quantity]
<1>0. \A e \in A \union B : e.quantity \in Nat
  BY DEF Execution
<1>1. PICK a, b, q, qa, qb : /\ a = Of(A) /\ b = Of(B)
                            /\ q = Q(A \union B) /\ qa = Q(A) /\ qb = Q(B)
  OBVIOUS
<1>2. Of(A \union B) = a \union b /\ a \in SUBSET A /\ b \in SUBSET B
  BY <1>1 DEF TradesOf
<1>3. IsFiniteSet(a) /\ IsFiniteSet(b) /\ a \intersect b = {}
  BY <1>2, FS_Subset
<1>4. \A e \in a \union b : q[e] \in Int
  BY <1>0, <1>1, <1>2
<1>5. \A e \in a : q[e] = qa[e] /\ qa[e] \in Nat
  BY <1>0, <1>1, <1>2
<1>6. \A e \in b : q[e] = qb[e] /\ qb[e] \in Nat
  BY <1>0, <1>1, <1>2
<1>7. SumFunctionOnSet(q, a \union b) = SumFunctionOnSet(q, a) + SumFunctionOnSet(q, b)
  BY <1>3, <1>4, SumUnion
<1>8. SumFunctionOnSet(q, a) = SumFunctionOnSet(qa, a) /\ SumFunctionOnSet(qa, a) \in Nat
  BY <1>3, <1>5, SumSame, SumNatural
<1>9. SumFunctionOnSet(q, b) = SumFunctionOnSet(qb, b) /\ SumFunctionOnSet(qb, b) \in Nat
  BY <1>3, <1>6, SumSame, SumNatural
<1>10. /\ Traded(A, o) = SumFunctionOnSet(qa, a) /\ Traded(B, o) = SumFunctionOnSet(qb, b)
       /\ Traded(A \union B, o) = SumFunctionOnSet(q, a \union b)
  BY <1>1, <1>2 DEF Traded
<1> QED
  BY <1>7, <1>8, <1>9, <1>10

\* Fills and trades that agree do so together.
LEMMA AddsUpTogether ==
  ASSUME OrderAssumption, NEW A \in SUBSET Execution, NEW B \in SUBSET Execution,
         IsFiniteSet(A), IsFiniteSet(B), A \intersect B = {}, NEW o,
         NEW p \in Int, NEW q \in Int, AddsUp(p, A, o), AddsUp(q, B, o)
  PROVE  AddsUp(p + q, A \union B, o)
<1>1. PICK a, b, slack : a = Traded(A, o) /\ b = Traded(B, o) /\ slack = Slack(TenthDecimal)
  OBVIOUS
<1>2. a \in Nat /\ b \in Nat /\ Traded(A \union B, o) = a + b
  BY <1>1, TradedAdds
<1>3. PICK c, d : c = Cardinality(TradesOf(A, o)) /\ d = Cardinality(TradesOf(B, o))
  OBVIOUS
<1>4. c \in Nat /\ d \in Nat /\ Cardinality(TradesOf(A \union B, o)) = c + d
  <2>1. PICK S, T : S = TradesOf(A, o) /\ T = TradesOf(B, o)
    OBVIOUS
  <2>2. /\ S \in SUBSET A /\ T \in SUBSET B /\ S \intersect T = {}
        /\ TradesOf(A \union B, o) = S \union T
    BY <2>1 DEF TradesOf
  <2>3. IsFiniteSet(S) /\ IsFiniteSet(T)
    BY <2>2, FS_Subset
  <2>4. /\ Cardinality(S) \in Nat /\ Cardinality(T) \in Nat
        /\ Cardinality(S \union T) = Cardinality(S) + Cardinality(T) - Cardinality(S \intersect T)
    BY <2>3, FS_Union, FS_CardinalityType
  <2>5. Cardinality(S \intersect T) = 0
    BY <2>2, FS_EmptySet
  <2>6. Cardinality(S \union T) = Cardinality(S) + Cardinality(T)
    BY <2>4, <2>5
  <2> QED
    BY <1>3, <2>1, <2>2, <2>4, <2>6
<1>5. slack \in Nat
  BY <1>1, RatStringClose
<1>6. /\ a - slack * c <= p /\ p <= a + slack * c
      /\ b - slack * d <= q /\ q <= b + slack * d
  BY <1>1, <1>3 DEF AddsUp
<1>7. slack * (c + d) = slack * c + slack * d /\ slack * c \in Int /\ slack * d \in Int
  BY <1>4, <1>5
<1>8. (a + b) - slack * (c + d) <= p + q /\ p + q <= (a + b) + slack * (c + d)
  BY <1>2, <1>6, <1>7
<1> QED
  BY <1>1, <1>2, <1>4, <1>8 DEF AddsUp

\* An order without executions has traded nothing.
LEMMA TradedNothing ==
  ASSUME OrderAssumption, NEW trades, NEW o, \A e \in trades : e.taker # o /\ e.maker # o
  PROVE  AddsUp(0, trades, o)
<1>1. TradesOf(trades, o) = {}
  BY DEF TradesOf
<1>2. Traded(trades, o) = 0
  BY <1>1, SumEmpty DEF Traded
<1>3. Cardinality(TradesOf(trades, o)) = 0
  BY <1>1, FS_EmptySet
<1>4. Slack(TenthDecimal) \in Nat
  BY RatStringClose
<1> QED
  BY <1>2, <1>3, <1>4 DEF AddsUp

\* What the engine is called with is well formed.
LEMMA BookWellFormed ==
  ASSUME OrderAssumption, NEW rows, NEW trades, TableOK(rows, trades),
         NEW o \in DOMAIN rows, ~Panics(Book(rows, o))
  PROVE  /\ WellFormed(rows[o], Book(rows, o))
         /\ DOMAIN Book(rows, o) = Resting(rows, o)
         /\ \A m \in Resting(rows, o) :
              /\ m \in DOMAIN rows /\ m # o /\ RowOK(rows[m]) /\ Book(rows, o)[m] = rows[m]
              /\ rows[m].side = Opposite(rows[o].side)
<1>1. DOMAIN Book(rows, o) = Resting(rows, o) /\ Resting(rows, o) \in SUBSET DOMAIN rows
  BY DEF Book, Resting
<1>2. IsFiniteSet(Resting(rows, o)) /\ Resting(rows, o) \subseteq Nat
  BY <1>1, FS_Subset DEF TableOK, OrderAssumption
<1>3. \A x \in DOMAIN rows : rows[x] \in Order /\ RowOK(rows[x])
  BY DEF TableOK, RowOK
<1>4. \A x \in DOMAIN rows : rows[x].side \in Sides /\ rows[x].limit \in Nat /\ rows[x].remaining \in Nat
  BY <1>3 DEF Order
<1>5. ASSUME NEW m \in Resting(rows, o)
      PROVE  /\ m \in DOMAIN rows /\ m # o /\ RowOK(rows[m]) /\ Book(rows, o)[m] = rows[m]
             /\ rows[m].side = Opposite(rows[o].side)
  <2>1. m \in DOMAIN rows /\ rows[m].side # rows[o].side
    BY DEF Resting
  <2> QED
    BY <1>3, <1>4, <2>1 DEF Book, Opposite, Sides
<1>6. WellFormed(rows[o], Book(rows, o))
  BY <1>1, <1>2, <1>4, <1>5 DEF WellFormed, Sides
<1> QED
  BY <1>1, <1>5, <1>6

\* persistOrderState keeps the quantities of a live row in agreement.
LEMMA PersistedAgrees ==
  ASSUME NEW row, RowOK(row), row.status \in LiveStatuses,
         NEW quantity \in Nat, NEW left \in Nat, NEW cancelled \in BOOLEAN,
         quantity + left = row.remaining,
         NEW new, new = Persisted(row, quantity, left, cancelled)
  PROVE  /\ RowOK(new)
         /\ new.filled = row.filled + quantity
         /\ new.remaining = IF cancelled THEN 0 ELSE left
         /\ new.version = row.version + 1
         /\ new.side = row.side /\ new.type = row.type /\ new.limit = row.limit
         /\ new.tif = row.tif
         /\ new.status = IF cancelled THEN "cancelled"
                         ELSE IF new.filled = 0 THEN row.status
                         ELSE IF left = 0 THEN "filled" ELSE "partially_filled"
<1>1. /\ row \in Order /\ row.filled \in Nat /\ row.quantity \in Nat /\ row.remaining \in Nat
      /\ row.version \in Nat /\ row.status \in Statuses
  BY DEF RowOK, Order
<1>2. DOMAIN row = Columns
  BY <1>1 DEF Order, Columns
<1>3. /\ new.filled = row.filled + quantity
      /\ new.remaining = IF cancelled THEN 0 ELSE left
      /\ new.version = row.version + 1
      /\ new.side = row.side /\ new.type = row.type /\ new.limit = row.limit
      /\ new.tif = row.tif /\ new.quantity = row.quantity /\ new.risk = row.risk
      /\ new.stop = row.stop
      /\ new.status = IF cancelled THEN "cancelled"
                      ELSE IF new.filled = 0 THEN row.status
                      ELSE IF left = 0 THEN "filled" ELSE "partially_filled"
  BY <1>2 DEF Persisted, Credit, NextVersion, Columns
<1>4. new.status \in Statuses
  BY <1>1, <1>3 DEF Statuses
<1>5. new.filled \in Nat /\ new.remaining \in Nat /\ new.version \in Nat
  BY <1>1, <1>3
<1>6. new \in Order
  <2>1. new = [column \in Columns |-> new[column]]
    BY <1>2 DEF Persisted
  <2> HIDE DEF Columns
  <2>2. new = [side |-> new.side, type |-> new.type, tif |-> new.tif,
               quantity |-> new.quantity, filled |-> new.filled, remaining |-> new.remaining,
               limit |-> new.limit, stop |-> new.stop, status |-> new.status,
               risk |-> new.risk, version |-> new.version]
    BY <2>1 DEF Columns
  <2> QED
    BY <1>1, <1>3, <1>4, <1>5, <2>2 DEF Order
<1>7. row.remaining = row.quantity - row.filled /\ row.filled <= row.quantity
  BY DEF RowOK, Agrees, LiveStatuses
<1>8. row.status = "partially_filled" => row.filled > 0
  BY DEF RowOK, Agrees
<1>9. Agrees(new) /\ new.status # "risk_pending"
  <2>1. row.status \in {"accepted", "partially_filled"}
    BY DEF LiveStatuses
  <2>2. PICK f, n, k : f = row.filled /\ n = row.quantity /\ k = row.remaining
    OBVIOUS
  <2>3. /\ f \in Nat /\ n \in Nat /\ k \in Nat /\ k = n - f /\ quantity + left = k
        /\ new.filled = f + quantity /\ new.quantity = n
    BY <1>1, <1>3, <1>7, <2>2
  <2>4. /\ new.filled <= new.quantity /\ new.filled \in Nat /\ left = new.quantity - new.filled
        /\ left = 0 => new.filled = new.quantity
    BY <2>3
  <2>5. CASE cancelled
    <3>1. new.status = "cancelled" /\ new.remaining = 0
      BY <1>3, <2>5
    <3> QED
      BY <2>4, <3>1 DEF Agrees
  <2>6. CASE ~cancelled /\ new.filled = 0
    <3>1. new.status = row.status /\ new.remaining = left
      BY <1>3, <2>6
    <3>2. row.filled = 0
      BY <2>2, <2>3, <2>6
    <3>3. row.status = "accepted"
      BY <1>8, <2>1, <3>2
    <3> QED
      BY <2>4, <2>6, <3>1, <3>3 DEF Agrees
  <2>7. CASE ~cancelled /\ new.filled # 0 /\ left = 0
    <3>1. new.status = "filled" /\ new.remaining = left
      BY <1>3, <2>7
    <3> QED
      BY <2>4, <2>7, <3>1 DEF Agrees
  <2>8. CASE ~cancelled /\ new.filled # 0 /\ left # 0
    <3>1. new.status = "partially_filled" /\ new.remaining = left
      BY <1>3, <2>8
    <3> QED
      BY <2>4, <2>8, <3>1 DEF Agrees
  <2> QED
    BY <2>5, <2>6, <2>7, <2>8
<1> QED
  BY <1>3, <1>6, <1>9 DEF RowOK

\* What a match never changes about an order.
SameTerms(old, new) ==
  /\ new.side = old.side /\ new.type = old.type /\ new.limit = old.limit /\ new.tif = old.tif
  /\ new.version >= old.version

\* What matchAcceptedOrder(o) makes of the rows, in terms of what Match returns.
LEMMA MatchedRows ==
  ASSUME OrderAssumption, NEW rows, NEW trades, TableOK(rows, trades),
         NEW o \in DOMAIN rows, rows[o].status \in LiveStatuses, ~Panics(Book(rows, o)),
         NEW matched, matched = Match(rows[o], Book(rows, o)),
         NEW after, after = MatchedOrders(rows, o)
  PROVE  /\ DOMAIN after = DOMAIN rows
         /\ \A x \in DOMAIN rows :
              /\ RowOK(after[x]) /\ SameTerms(rows[x], after[x])
              /\ x # o /\ x \notin Resting(rows, o) => after[x] = rows[x]
         /\ \A m \in Resting(rows, o) :
              /\ after[m].filled = rows[m].filled + matched.fills[m]
              /\ after[m].remaining = rows[m].remaining - matched.fills[m]
              /\ matched.fills[m] = rows[m].remaining => after[m].status = "filled"
         /\ after[o].filled = rows[o].filled + (rows[o].remaining - matched.left)
         /\ after[o].remaining = IF matched.cancelled THEN 0 ELSE matched.left
         /\ (\E m \in Resting(rows, o) : matched.fills[m] > 0) =>
              after[o].version > rows[o].version
         /\ matched.cancelled => after[o].status = "cancelled"
         /\ ~matched.cancelled /\ matched.left = 0 /\ rows[o].remaining > 0 =>
              after[o].status = "filled"
<1> DEFINE R == Resting(rows, o)
           traded == \E m \in R : matched.fills[m] > 0
<1>1. /\ WellFormed(rows[o], Book(rows, o)) /\ DOMAIN Book(rows, o) = R
      /\ \A m \in R : /\ m \in DOMAIN rows /\ m # o /\ RowOK(rows[m])
                      /\ Book(rows, o)[m] = rows[m]
  BY BookWellFormed
<1>2. /\ matched.cancelled \in BOOLEAN
      /\ matched.left \in Nat /\ matched.left <= rows[o].remaining
      /\ matched.fills \in [R -> Nat]
      /\ SumFunctionOnSet(matched.fills, R) = rows[o].remaining - matched.left
      /\ \A m \in R : matched.fills[m] <= rows[m].remaining
      /\ matched.changed \subseteq R
      /\ \A m \in R : matched.fills[m] > 0 => m \in matched.changed
  <2>1. PICK k : k = Book(rows, o)
    OBVIOUS
  <2>2. WellFormed(rows[o], k) /\ matched = Match(rows[o], k) /\ DOMAIN k = R
    BY <1>1, <2>1
  <2>3. /\ matched.cancelled \in BOOLEAN
        /\ matched.left \in Nat /\ matched.left <= rows[o].remaining
        /\ matched.fills \in [DOMAIN k -> Nat]
        /\ SumFunctionOnSet(matched.fills, DOMAIN k) = rows[o].remaining - matched.left
        /\ \A m \in DOMAIN k : matched.fills[m] <= k[m].remaining
        /\ matched.changed \subseteq DOMAIN k
        /\ \A m \in DOMAIN k : matched.fills[m] > 0 => m \in matched.changed
    BY <2>2, MatchFacts
  <2> QED
    BY <1>1, <2>1, <2>2, <2>3
<1>3. after = [x \in DOMAIN rows |->
                IF x = o /\ (traded \/ matched.cancelled)
                THEN Persisted(rows[o], rows[o].remaining - matched.left,
                               matched.left, matched.cancelled)
                ELSE IF x # o /\ x \in matched.changed
                THEN Persisted(rows[x], matched.fills[x],
                               rows[x].remaining - matched.fills[x], FALSE)
                ELSE rows[x]]
  BY DEF MatchedOrders
<1>4. \A x \in DOMAIN rows : RowOK(rows[x])
  BY DEF TableOK
<1>5. \A x \in DOMAIN rows : /\ rows[x].remaining \in Nat /\ rows[x].filled \in Nat
                             /\ rows[x].version \in Nat
  BY <1>4 DEF RowOK, Order
<1>6. \A x \in DOMAIN rows : SameTerms(rows[x], rows[x])
  BY <1>5 DEF SameTerms
<1>7. ~traded => matched.left = rows[o].remaining
  <2> SUFFICES ASSUME ~traded PROVE matched.left = rows[o].remaining
    OBVIOUS
  <2>1. IsFiniteSet(R) /\ \A m \in R : matched.fills[m] \in Nat
    BY <1>1, <1>2 DEF WellFormed
  <2>2. {m \in R : matched.fills[m] > 0} = {}
    OBVIOUS
  <2>3. SumFunctionOnSet(matched.fills, {m \in R : matched.fills[m] > 0})
          = SumFunctionOnSet(matched.fills, R)
    <3>1. PICK f, S : f = matched.fills /\ S = R
      OBVIOUS
    <3>2. IsFiniteSet(S) /\ \A m \in S : f[m] \in Nat
      BY <2>1, <3>1
    <3> HIDE DEF R
    <3>3. SumFunctionOnSet(f, {m \in S : f[m] > 0}) = SumFunctionOnSet(f, S)
      BY <3>2, SumPositive
    <3> QED
      BY <3>1, <3>3
  <2>4. SumFunctionOnSet(matched.fills, R) = 0
    BY <2>2, <2>3, SumEmpty
  <2> QED
    BY <1>2, <1>5, <2>4
<1> HIDE DEF traded
<1>8. /\ RowOK(after[o]) /\ SameTerms(rows[o], after[o])
      /\ after[o].filled = rows[o].filled + (rows[o].remaining - matched.left)
      /\ after[o].remaining = IF matched.cancelled THEN 0 ELSE matched.left
      /\ traded => after[o].version > rows[o].version
      /\ matched.cancelled => after[o].status = "cancelled"
      /\ ~matched.cancelled /\ matched.left = 0 /\ rows[o].remaining > 0 =>
           after[o].status = "filled"
  <2>1. CASE traded \/ matched.cancelled
    <3>1. PICK q : q = rows[o].remaining - matched.left
      OBVIOUS
    <3>2. q \in Nat /\ q + matched.left = rows[o].remaining
      BY <1>2, <1>5, <3>1
    <3>3. after[o] = Persisted(rows[o], q, matched.left, matched.cancelled)
      BY <1>3, <2>1, <3>1
    <3>4. PICK row, new : row = rows[o] /\ new = after[o]
      OBVIOUS
    <3>5. /\ RowOK(new) /\ new.filled = row.filled + q
          /\ new.remaining = IF matched.cancelled THEN 0 ELSE matched.left
          /\ new.version = row.version + 1
          /\ new.side = row.side /\ new.type = row.type /\ new.limit = row.limit
          /\ new.tif = row.tif
          /\ new.status = IF matched.cancelled THEN "cancelled"
                          ELSE IF new.filled = 0 THEN row.status
                          ELSE IF matched.left = 0 THEN "filled" ELSE "partially_filled"
      BY <1>2, <1>4, <3>2, <3>3, <3>4, PersistedAgrees
    <3>6. row.version \in Nat /\ row.filled \in Nat
      BY <1>5, <3>4
    <3>7. matched.left = 0 /\ row.remaining > 0 => new.filled # 0
      BY <3>2, <3>4, <3>5, <3>6
    <3> QED
      BY <3>1, <3>4, <3>5, <3>6, <3>7 DEF SameTerms
  <2>2. CASE ~traded /\ ~matched.cancelled
    <3>1. after[o] = rows[o] /\ matched.left = rows[o].remaining
      BY <1>3, <1>7, <2>2
    <3> QED
      BY <1>2, <1>4, <1>5, <1>6, <2>2, <3>1
  <2> QED
    BY <2>1, <2>2
<1>9. ASSUME NEW m \in R
      PROVE  /\ RowOK(after[m]) /\ SameTerms(rows[m], after[m])
             /\ after[m].filled = rows[m].filled + matched.fills[m]
             /\ after[m].remaining = rows[m].remaining - matched.fills[m]
             /\ matched.fills[m] = rows[m].remaining => after[m].status = "filled"
  <2>1. /\ m \in DOMAIN rows /\ m # o /\ rows[m].remaining > 0
        /\ rows[m].status \in LiveStatuses
    BY <1>1 DEF Resting
  <2>2. PICK q, k : q = matched.fills[m] /\ k = rows[m].remaining - q
    OBVIOUS
  <2>3. q \in Nat /\ k \in Nat /\ q + k = rows[m].remaining
    BY <1>2, <1>5, <2>1, <2>2
  <2>4. CASE m \in matched.changed
    <3>1. after[m] = Persisted(rows[m], q, k, FALSE)
      BY <1>3, <2>1, <2>2, <2>4
    <3>2. PICK row, new : row = rows[m] /\ new = after[m]
      OBVIOUS
    <3>3. /\ RowOK(new) /\ new.filled = row.filled + q /\ new.remaining = k
          /\ new.version = row.version + 1
          /\ new.side = row.side /\ new.type = row.type /\ new.limit = row.limit
          /\ new.tif = row.tif
          /\ new.status = IF new.filled = 0 THEN row.status
                          ELSE IF k = 0 THEN "filled" ELSE "partially_filled"
      <4>1. PICK c \in BOOLEAN : c = FALSE
        OBVIOUS
      <4>2. RowOK(row) /\ row.status \in LiveStatuses /\ q + k = row.remaining
        BY <1>4, <2>1, <2>3, <3>2
      <4>3. new = Persisted(row, q, k, c)
        BY <3>1, <3>2, <4>1
      <4>4. /\ RowOK(new) /\ new.filled = row.filled + q
            /\ new.remaining = IF c THEN 0 ELSE k
            /\ new.version = row.version + 1
            /\ new.side = row.side /\ new.type = row.type /\ new.limit = row.limit
            /\ new.tif = row.tif
            /\ new.status = IF c THEN "cancelled"
                            ELSE IF new.filled = 0 THEN row.status
                            ELSE IF k = 0 THEN "filled" ELSE "partially_filled"
        BY <2>3, <4>2, <4>3, PersistedAgrees
      <4> QED
        BY <4>1, <4>4
    <3>4. row.version \in Nat /\ row.filled \in Nat
      BY <1>5, <2>1, <3>2
    <3>5. q = rows[m].remaining => new.filled # 0 /\ k = 0
      BY <2>1, <2>3, <3>3, <3>4
    <3> QED
      BY <2>2, <3>2, <3>3, <3>4, <3>5 DEF SameTerms
  <2>5. CASE m \notin matched.changed
    <3>1. after[m] = rows[m]
      BY <1>3, <2>1, <2>5
    <3>2. q = 0
      BY <1>2, <2>2, <2>3, <2>5
    <3> QED
      BY <1>4, <1>5, <1>6, <2>1, <2>2, <2>3, <3>1, <3>2
  <2> QED
    BY <2>4, <2>5
<1>10. \A x \in DOMAIN rows : x # o /\ x \notin R => after[x] = rows[x]
  BY <1>2, <1>3
<1>11. DOMAIN after = DOMAIN rows
  BY <1>3
<1> QED
  BY <1>4, <1>6, <1>8, <1>9, <1>10, <1>11 DEF traded

\* The sum over one element.
LEMMA SumSingle ==
  ASSUME NEW f, NEW x, f[x] \in Int
  PROVE  SumFunctionOnSet(f, {x}) = f[x]
<1>1. IsFiniteSet({}) /\ x \notin {} /\ {} \union {x} = {x} /\ \A y \in {} : f[y] \in Int
  BY FS_EmptySet
<1>2. SumFunctionOnSet(f, {} \union {x}) = SumFunctionOnSet(f, {}) + f[x]
  BY <1>1, SumAdd
<1>3. SumFunctionOnSet(f, {}) = 0
  BY SumEmpty
<1> QED
  BY <1>1, <1>2, <1>3

\* The executions matchAcceptedOrder(o) inserts, in terms of what Match returns.
LEMMA MatchedTrades ==
  ASSUME OrderAssumption, NEW rows, NEW trades, TableOK(rows, trades),
         NEW o \in DOMAIN rows, ~Panics(Book(rows, o)),
         NEW matched, matched = Match(rows[o], Book(rows, o)),
         NEW made, made = MatchedExecutions(rows, o)
  PROVE  /\ IsFiniteSet(made) /\ made \subseteq Execution
         /\ \A e \in made :
              /\ e.taker = o /\ e.maker \in Resting(rows, o) /\ e.version = rows[o].version
              /\ e.price = RatString(rows[e.maker].limit)
              /\ matched.fills[e.maker] > 0
         /\ trades \intersect made = {}
         /\ AddsUp(rows[o].remaining - matched.left, made, o)
         /\ \A m \in Resting(rows, o) : AddsUp(matched.fills[m], made, m)
         /\ \A x \in DOMAIN rows : x # o /\ x \notin Resting(rows, o) => AddsUp(0, made, x)
<1> DEFINE R == Resting(rows, o)
           fills == matched.fills
           T == {m \in R : fills[m] > 0}
           h == [m \in T |-> [taker |-> o, maker |-> m, quantity |-> RatString(fills[m]),
                              price |-> RatString(rows[m].limit),
                              version |-> rows[o].version]]
           f == [e \in made |-> e.quantity]
           stored == [m \in T |-> RatString(fills[m])]
           slack == Slack(TenthDecimal)
<1>1. /\ WellFormed(rows[o], Book(rows, o)) /\ DOMAIN Book(rows, o) = R
      /\ \A m \in R : m \in DOMAIN rows /\ m # o
  BY BookWellFormed
<1>2. /\ matched.left \in Nat /\ matched.left <= rows[o].remaining
      /\ fills \in [R -> Nat]
      /\ SumFunctionOnSet(fills, R) = rows[o].remaining - matched.left
  <2>1. PICK k : k = Book(rows, o)
    OBVIOUS
  <2>2. WellFormed(rows[o], k) /\ matched = Match(rows[o], k) /\ DOMAIN k = R
    BY <1>1, <2>1
  <2>3. /\ matched.left \in Nat /\ matched.left <= rows[o].remaining
        /\ matched.fills \in [DOMAIN k -> Nat]
        /\ SumFunctionOnSet(matched.fills, DOMAIN k) = rows[o].remaining - matched.left
    BY <2>2, MatchFacts
  <2> QED
    BY <2>2, <2>3
<1>3. made = {h[m] : m \in T}
  BY DEF MatchedExecutions
<1>4. IsFiniteSet(R) /\ IsFiniteSet(T)
  <2>1. IsFiniteSet(R)
    BY <1>1 DEF WellFormed
  <2>2. T \in SUBSET R
    OBVIOUS
  <2> QED
    BY <2>1, <2>2, FS_Subset
<1>5. \A x \in DOMAIN rows : x \in Requests /\ rows[x] \in Order
  BY DEF TableOK, RowOK
<1>0. \A m \in T : /\ fills[m] \in Nat /\ rows[m].limit \in Nat
                   /\ RatString(fills[m]) \in Nat /\ RatString(rows[m].limit) \in Nat
                   /\ slack \in Nat
                   /\ RatString(fills[m]) - slack <= fills[m]
                   /\ fills[m] <= RatString(fills[m]) + slack
  <2>1. \A m \in T : fills[m] \in Nat /\ rows[m].limit \in Nat
    BY <1>1, <1>2, <1>5 DEF Order
  <2> QED
    BY <2>1, RatStringClose
<1>6. \A m \in T : /\ h[m] \in Execution /\ h[m].taker = o /\ h[m].maker = m
                   /\ h[m].version = rows[o].version
                   /\ h[m].price = RatString(rows[m].limit)
                   /\ h[m].quantity = stored[m] /\ stored[m] = RatString(fills[m])
  BY <1>0, <1>1, <1>5 DEF Execution, Order
<1> HIDE DEF h, stored
<1>7. \A m \in T : stored[m] \in Int /\ f[h[m]] = stored[m]
  BY <1>0, <1>3, <1>6
<1>8. \A m, n \in T : h[m] = h[n] => m = n
  BY <1>6
<1>9. /\ IsFiniteSet(made) /\ SumFunctionOnSet(f, made) = SumFunctionOnSet(stored, T)
      /\ Cardinality(made) = Cardinality(T)
  <2>1. PICK c, g, k, S : c = f /\ g = stored /\ k = h /\ S = T
    OBVIOUS
  <2>2. /\ IsFiniteSet(S) /\ \A m, n \in S : k[m] = k[n] => m = n
        /\ \A m \in S : g[m] \in Int /\ c[k[m]] = g[m]
    BY <1>4, <1>7, <1>8, <2>1
  <2>3. /\ IsFiniteSet({k[m] : m \in S})
        /\ SumFunctionOnSet(c, {k[m] : m \in S}) = SumFunctionOnSet(g, S)
    <3>1. Carries(k, S, c, g)
      BY <2>2 DEF Carries
    <3>2. ASSUME NEW D, IsFiniteSet(D), NEW j, NEW a, NEW b, Carries(j, D, a, b)
          PROVE  /\ IsFiniteSet({j[m] : m \in D})
                 /\ SumFunctionOnSet(a, {j[m] : m \in D}) = SumFunctionOnSet(b, D)
      BY <3>2, SumImage
    <3> QED
      BY <2>2, <3>1, <3>2
  <2>4. made = {k[m] : m \in S}
    BY <1>3, <2>1
  <2>5. Cardinality(made) = Cardinality(T)
    <3> HIDE DEF T
    <3>1. h \in [T -> made]
      BY <1>3 DEF h
    <3>2. h \in Bijection(T, made)
      BY <1>3, <1>8, <3>1 DEF Bijection, Injection, Surjection, IsInjective
    <3> QED
      BY <1>4, <3>2, FS_Bijection DEF ExistsBijection
  <2> QED
    BY <2>1, <2>3, <2>4, <2>5
<1>10. \A e \in made : \E m \in T : e = h[m]
  BY <1>3
<1>11. \A e \in made :
         /\ e \in Execution /\ e.taker = o /\ e.maker \in T /\ e.version = rows[o].version
         /\ e.price = RatString(rows[e.maker].limit) /\ e = h[e.maker]
  BY <1>6, <1>10
<1>12. trades \intersect made = {}
  <2>1. \A e \in trades : e.taker \in DOMAIN rows /\ e.version < rows[e.taker].version
                          /\ e.version \in Nat
    BY DEF TableOK, TradesOK, Execution
  <2>2. rows[o].version \in Nat
    BY <1>5 DEF Order
  <2> QED
    BY <1>11, <2>1, <2>2
<1>13. AddsUp(rows[o].remaining - matched.left, made, o)
  <2>1. TradesOf(made, o) = made
    BY <1>11 DEF TradesOf
  <2>2. SumFunctionOnSet(fills, T) = SumFunctionOnSet(fills, R)
    <3>1. PICK g, S : g = fills /\ S = R
      OBVIOUS
    <3>2. IsFiniteSet(S) /\ \A m \in S : g[m] \in Nat
      BY <1>2, <1>4, <3>1
    <3>3. SumFunctionOnSet(g, {m \in S : g[m] > 0}) = SumFunctionOnSet(g, S)
      BY <3>2, SumPositive
    <3> QED
      BY <3>1, <3>3
  <2>3. /\ SumFunctionOnSet(stored, T) - slack * Cardinality(T) <= SumFunctionOnSet(fills, T)
        /\ SumFunctionOnSet(fills, T) <= SumFunctionOnSet(stored, T) + slack * Cardinality(T)
    <3>1. PICK g, k, S, c : g = fills /\ k = stored /\ S = T /\ c = slack
      OBVIOUS
    <3>2. /\ IsFiniteSet(S) /\ c \in Nat
          /\ \A m \in S : /\ g[m] \in Int /\ k[m] \in Int
                          /\ g[m] - c <= k[m] /\ k[m] <= g[m] + c
      <4>1. c \in Nat
        BY <3>1, RatStringClose
      <4> HIDE DEF T, slack
      <4> QED
        BY <1>0, <1>4, <1>6, <3>1, <4>1
    <3>3. /\ SumFunctionOnSet(k, S) - c * Cardinality(S) <= SumFunctionOnSet(g, S)
          /\ SumFunctionOnSet(g, S) <= SumFunctionOnSet(k, S) + c * Cardinality(S)
      BY <3>2, SumsClose
    <3> QED
      BY <3>1, <3>3
  <2>4. Traded(made, o) = SumFunctionOnSet(stored, T)
    BY <1>9, <2>1 DEF Traded
  <2> HIDE DEF T, f
  <2> QED
    BY <1>2, <1>9, <2>1, <2>2, <2>3, <2>4 DEF AddsUp
<1>14. ASSUME NEW m \in R PROVE AddsUp(fills[m], made, m)
  <2>1. m # o
    BY <1>1
  <2>2. CASE m \in T
    <3>1. TradesOf(made, m) = {h[m]}
      BY <1>3, <1>6, <1>11, <2>1, <2>2 DEF TradesOf
    <3>2. SumFunctionOnSet(f, {h[m]}) = f[h[m]]
      <4>1. PICK c, y : c = f /\ y = h[m]
        OBVIOUS
      <4>2. c[y] \in Int
        BY <1>7, <2>2, <4>1
      <4>3. SumFunctionOnSet(c, {y}) = c[y]
        BY <4>2, SumSingle
      <4> QED
        BY <4>1, <4>3
    <3>3. Traded(made, m) = RatString(fills[m])
      BY <1>6, <1>7, <2>2, <3>1, <3>2 DEF Traded
    <3>4. Cardinality(TradesOf(made, m)) = 1
      BY <3>1, FS_Singleton
    <3>5. PICK a, b, c : a = fills[m] /\ b = RatString(fills[m]) /\ c = slack
      OBVIOUS
    <3>6. a \in Nat /\ b \in Nat /\ c \in Nat /\ b - c <= a /\ a <= b + c
      BY <1>0, <2>2, <3>5
    <3>7. b - c * 1 <= a /\ a <= b + c * 1
      BY <3>6
    <3> QED
      BY <3>3, <3>4, <3>5, <3>7 DEF AddsUp
  <2>3. CASE m \notin T
    <3>1. fills[m] = 0
      BY <1>2, <2>3
    <3>2. \A e \in made : e.taker # m /\ e.maker # m
      BY <1>11, <2>1, <2>3
    <3> QED
      BY <3>1, <3>2, TradedNothing
  <2> QED
    BY <2>2, <2>3
<1>15. ASSUME NEW x \in DOMAIN rows, x # o, x \notin R PROVE AddsUp(0, made, x)
  <2>1. \A e \in made : e.taker # x /\ e.maker # x
    BY <1>11, <1>15
  <2> QED
    BY <2>1, TradedNothing
<1> HIDE DEF f
<1> QED
  BY <1>9, <1>11, <1>12, <1>13, <1>14, <1>15

\* A match keeps the tables in agreement.
LEMMA MatchKeepsTable ==
  ASSUME OrderAssumption, NEW rows, NEW trades, TableOK(rows, trades),
         NEW o \in DOMAIN rows, rows[o].status \in LiveStatuses, ~Panics(Book(rows, o))
  PROVE  TableOK(MatchedOrders(rows, o), trades \union MatchedExecutions(rows, o))
<1>1. PICK matched, after, made :
        /\ matched = Match(rows[o], Book(rows, o))
        /\ after = MatchedOrders(rows, o)
        /\ made = MatchedExecutions(rows, o)
  OBVIOUS
<1> DEFINE R == Resting(rows, o)
<1>2. /\ DOMAIN after = DOMAIN rows
      /\ \A x \in DOMAIN rows :
           /\ RowOK(after[x]) /\ SameTerms(rows[x], after[x])
           /\ x # o /\ x \notin R => after[x] = rows[x]
      /\ \A m \in R : after[m].filled = rows[m].filled + matched.fills[m]
      /\ after[o].filled = rows[o].filled + (rows[o].remaining - matched.left)
      /\ (\E m \in R : matched.fills[m] > 0) => after[o].version > rows[o].version
  BY <1>1, MatchedRows
<1>3. /\ IsFiniteSet(made) /\ made \subseteq Execution
      /\ \A e \in made : /\ e.taker = o /\ e.maker \in R /\ e.version = rows[o].version
                         /\ matched.fills[e.maker] > 0
      /\ trades \intersect made = {}
      /\ AddsUp(rows[o].remaining - matched.left, made, o)
      /\ \A m \in R : AddsUp(matched.fills[m], made, m)
      /\ \A x \in DOMAIN rows : x # o /\ x \notin R => AddsUp(0, made, x)
  BY <1>1, MatchedTrades
<1>4. \A m \in R : m \in DOMAIN rows /\ m # o
  BY BookWellFormed
<1>5. IsFiniteSet(trades) /\ trades \subseteq Execution
  BY DEF TableOK, TradesOK
<1>6. \A x \in DOMAIN rows : rows[x].version \in Nat /\ after[x].version \in Nat
                            /\ rows[x].filled \in Nat
  BY <1>2 DEF TableOK, RowOK, Order
<1>7. TradesOK(after, trades \union made)
  <2>1. IsFiniteSet(trades \union made) /\ trades \union made \subseteq Execution
    BY <1>3, <1>5, FS_Union
  <2>2. ASSUME NEW e \in trades \union made
        PROVE  /\ e.taker \in DOMAIN after /\ e.maker \in DOMAIN after
               /\ e.taker # e.maker
               /\ e.version < after[e.taker].version
    <3>1. CASE e \in trades
      <4>1. /\ e.taker \in DOMAIN rows /\ e.maker \in DOMAIN rows /\ e.taker # e.maker
            /\ e.version < rows[e.taker].version /\ e.version \in Nat
        BY <3>1 DEF TableOK, TradesOK, Execution
      <4>2. after[e.taker].version >= rows[e.taker].version
        BY <1>2, <4>1 DEF SameTerms
      <4> QED
        BY <1>2, <1>6, <4>1, <4>2
    <3>2. CASE e \in made
      <4>1. /\ e.taker = o /\ e.maker \in R /\ e.version = rows[o].version
            /\ matched.fills[e.maker] > 0
        BY <1>3, <3>2
      <4>2. after[o].version > rows[o].version
        BY <1>2, <4>1
      <4> QED
        BY <1>2, <1>4, <1>6, <4>1, <4>2
    <3> QED
      BY <3>1, <3>2
  <2> QED
    BY <2>1, <2>2 DEF TradesOK
<1>8. ASSUME NEW x \in DOMAIN rows PROVE AddsUp(after[x].filled, trades \union made, x)
  <2>1. PICK old, new : old = rows[x].filled /\ new = after[x].filled - old
    OBVIOUS
  <2>2. after[x].filled \in Nat /\ old \in Nat /\ new \in Int /\ after[x].filled = old + new
    BY <1>2, <1>6, <2>1 DEF RowOK, Order
  <2>3. AddsUp(new, made, x)
    <3>1. CASE x = o
      <4>1. new = rows[o].remaining - matched.left
        <5>1. /\ rows[o].remaining \in Nat /\ matched.left \in Nat /\ rows[o].filled \in Nat
              /\ after[o].filled = rows[o].filled + (rows[o].remaining - matched.left)
          <6>1. WellFormed(rows[o], Book(rows, o))
            BY BookWellFormed
          <6> QED
            BY <1>1, <1>2, <1>6, <6>1, MatchFacts DEF TableOK, RowOK, Order
        <5> QED
          BY <2>1, <3>1, <5>1
      <4> QED
        BY <1>3, <3>1, <4>1
    <3>2. CASE x \in R
      <4>1. matched.fills[x] \in Nat
        <5>1. PICK k : k = Book(rows, o)
          OBVIOUS
        <5>2. WellFormed(rows[o], k) /\ matched = Match(rows[o], k) /\ DOMAIN k = R
          BY <1>1, <5>1, BookWellFormed
        <5>3. matched.fills \in [DOMAIN k -> Nat]
          BY <5>2, MatchFacts
        <5> QED
          BY <3>2, <5>2, <5>3
      <4>2. new = matched.fills[x]
        BY <1>2, <1>6, <2>1, <3>2, <4>1
      <4> QED
        BY <1>3, <3>2, <4>2
    <3>3. CASE x # o /\ x \notin R
      <4>1. new = 0
        BY <1>2, <1>6, <2>1, <3>3
      <4> QED
        BY <1>3, <3>3, <4>1
    <3> QED
      BY <3>1, <3>2, <3>3
  <2>4. AddsUp(old, trades, x)
    BY <2>1 DEF TableOK
  <2>5. AddsUp(old + new, trades \union made, x)
    <3>1. trades \in SUBSET Execution /\ made \in SUBSET Execution
      BY <1>3, <1>5
    <3> QED
      BY <1>3, <1>5, <2>2, <2>3, <2>4, <3>1, AddsUpTogether
  <2> QED
    BY <2>2, <2>5
<1>9. TableOK(after, trades \union made)
  BY <1>2, <1>7, <1>8 DEF TableOK
<1> QED
  BY <1>1, <1>9

\* Among the orders of S, nothing in the book is crossed.
Uncrossed(rows, S) ==
  \A b, s \in S :
    /\ Rests(rows[b]) /\ rows[b].side = "BUY"
    /\ Rests(rows[s]) /\ rows[s].side = "SELL"
    => rows[b].limit < rows[s].limit

\* After a match nothing is left in the book that the accepted order crosses.
LEMMA MatchedUncrossed ==
  ASSUME OrderAssumption, NEW rows, NEW trades, TableOK(rows, trades),
         NEW o \in DOMAIN rows, rows[o].status \in LiveStatuses, ~Panics(Book(rows, o)),
         NEW S \in SUBSET DOMAIN rows, Uncrossed(rows, S \ {o})
  PROVE  Uncrossed(MatchedOrders(rows, o), S)
<1>1. PICK matched, after :
        matched = Match(rows[o], Book(rows, o)) /\ after = MatchedOrders(rows, o)
  OBVIOUS
<1> DEFINE R == Resting(rows, o)
<1>2. /\ \A x \in DOMAIN rows :
           /\ RowOK(after[x]) /\ SameTerms(rows[x], after[x])
           /\ x # o /\ x \notin R => after[x] = rows[x]
      /\ \A m \in R : after[m].remaining = rows[m].remaining - matched.fills[m]
      /\ after[o].remaining = IF matched.cancelled THEN 0 ELSE matched.left
  BY <1>1, MatchedRows
<1>3. \A m \in R : /\ m \in DOMAIN rows /\ rows[m].status \in LiveStatuses
                   /\ rows[m].type = "LIMIT" /\ rows[m].remaining > 0
  BY DEF Resting
<1>4. ASSUME NEW x \in DOMAIN rows, x # o, Rests(after[x]) PROVE Rests(rows[x])
  <2>1. CASE x \in R
    BY <1>2, <1>3, <1>4, <2>1 DEF Rests, SameTerms
  <2>2. CASE x \notin R
    BY <1>2, <1>4, <2>2
  <2> QED
    BY <2>1, <2>2
<1>5. /\ WellFormed(rows[o], Book(rows, o)) /\ DOMAIN Book(rows, o) = R
      /\ \A m \in R : Book(rows, o)[m] = rows[m]
  BY BookWellFormed
<1>6. matched.left > 0 /\ ~matched.cancelled =>
        \A m \in R : Crosses(rows[o], rows[m]) => matched.fills[m] = rows[m].remaining
  <2>1. PICK k : k = Book(rows, o)
    OBVIOUS
  <2>2. WellFormed(rows[o], k) /\ matched = Match(rows[o], k) /\ DOMAIN k = R
    BY <1>1, <1>5, <2>1
  <2>3. matched.left > 0 /\ ~matched.cancelled =>
          \A m \in Takers(rows[o], k) : matched.fills[m] = k[m].remaining
    BY <2>2, MatchFacts
  <2> QED
    BY <1>5, <2>1, <2>2, <2>3 DEF Takers
<1>7. \A x \in DOMAIN rows : rows[x].limit \in Nat /\ rows[x].remaining \in Nat
  BY DEF TableOK, RowOK, Order
<1>8. ASSUME NEW m \in DOMAIN rows, m # o, Rests(after[m]), Rests(after[o]),
             rows[m].side # rows[o].side
      PROVE  ~Crosses(rows[o], rows[m])
  <2>1. Rests(rows[m])
    BY <1>4, <1>8
  <2>2. m \in R
    BY <1>8, <2>1 DEF Resting, Rests
  <2>3. after[o].remaining > 0
    BY <1>8 DEF Rests
  <2>4. ~matched.cancelled /\ matched.left > 0
    BY <1>2, <2>3
  <2>5. after[m].remaining > 0
    BY <1>8 DEF Rests
  <2>6. matched.fills[m] # rows[m].remaining
    BY <1>2, <1>7, <2>2, <2>5
  <2> QED
    BY <1>6, <2>2, <2>4, <2>6
<1>9. ASSUME NEW b \in S, NEW s \in S,
             Rests(after[b]), after[b].side = "BUY", Rests(after[s]), after[s].side = "SELL"
      PROVE  after[b].limit < after[s].limit
  <2>1. /\ rows[b].side = "BUY" /\ rows[s].side = "SELL"
        /\ rows[b].limit = after[b].limit /\ rows[s].limit = after[s].limit
        /\ rows[b].type = after[b].type /\ rows[s].type = after[s].type
    BY <1>2, <1>9 DEF SameTerms
  <2>2. b # s /\ b \in DOMAIN rows /\ s \in DOMAIN rows
    BY <2>1
  <2>3. CASE b # o /\ s # o
    BY <1>4, <1>9, <2>1, <2>2, <2>3 DEF Uncrossed
  <2>4. CASE b = o
    <3>1. ~Crosses(rows[b], rows[s])
      BY <1>8, <1>9, <2>1, <2>2, <2>4
    <3>2. rows[b].type = "LIMIT" /\ rows[b].limit # NoPrice /\ rows[s].limit # NoPrice
      BY <1>9, <2>1 DEF Rests
    <3> QED
      BY <1>7, <2>1, <2>2, <3>1, <3>2 DEF Crosses
  <2>5. CASE s = o
    <3>1. ~Crosses(rows[s], rows[b])
      BY <1>8, <1>9, <2>1, <2>2, <2>5
    <3>2. rows[s].type = "LIMIT" /\ rows[b].limit # NoPrice /\ rows[s].limit # NoPrice
      BY <1>9, <2>1 DEF Rests
    <3> QED
      BY <1>7, <2>1, <2>2, <3>1, <3>2 DEF Crosses
  <2> QED
    BY <2>3, <2>4, <2>5
<1> QED
  BY <1>1, <1>9 DEF Uncrossed

-----------------------------------------------------------------------------
(***************************************************************************)
(* The statements that write rows without a match                          *)
(***************************************************************************)

\* A row whose trades stay what they were.
Rewritten(old, new) ==
  RowOK(new) /\ new.filled = old.filled /\ new.version >= old.version

\* Such rows leave the tables in agreement.
LEMMA RewriteKeepsTable ==
  ASSUME NEW rows, NEW trades, TableOK(rows, trades),
         NEW new, DOMAIN new = DOMAIN rows,
         \A x \in DOMAIN rows : new[x] = rows[x] \/ Rewritten(rows[x], new[x])
  PROVE  TableOK(new, trades)
<1>1. \A x \in DOMAIN rows : /\ RowOK(rows[x]) /\ rows[x].version \in Nat
                            /\ AddsUp(rows[x].filled, trades, x)
  BY DEF TableOK, RowOK, Order
<1>2. \A x \in DOMAIN rows : /\ RowOK(new[x]) /\ new[x].filled = rows[x].filled
                            /\ new[x].version >= rows[x].version /\ new[x].version \in Nat
  BY <1>1 DEF Rewritten, RowOK, Order
<1>3. \A x \in DOMAIN new : AddsUp(new[x].filled, trades, x)
  BY <1>1, <1>2
<1>4. TradesOK(new, trades)
  <2>1. \A e \in trades : /\ e.taker \in DOMAIN rows /\ e.maker \in DOMAIN rows
                          /\ e.taker # e.maker
                          /\ e.version < rows[e.taker].version /\ e.version \in Nat
    BY DEF TableOK, TradesOK, Execution
  <2>2. IsFiniteSet(trades) /\ trades \subseteq Execution
    BY DEF TableOK, TradesOK
  <2> QED
    BY <1>1, <1>2, <2>1, <2>2 DEF TradesOK
<1> QED
  BY <1>2, <1>3, <1>4 DEF TableOK

\* Orders that leave the book, or stay in it as they were, cross nothing.
LEMMA StaysUncrossed ==
  ASSUME NEW rows, NEW new, NEW S, NEW T, Uncrossed(rows, S),
         \A x \in T : Rests(new[x]) =>
           x \in S /\ Rests(rows[x]) /\ new[x].side = rows[x].side /\ new[x].limit = rows[x].limit
  PROVE  Uncrossed(new, T)
BY DEF Uncrossed

\* repo.CancelOrder of a live order.
LEMMA CancelledRow ==
  ASSUME NEW row, RowOK(row), row.status \in LiveStatuses,
         NEW new, new = [row EXCEPT !.status = "cancelled", !.remaining = 0,
                                    !.version = NextVersion(row)]
  PROVE  Rewritten(row, new) /\ ~Rests(new)
<1>1. row \in Order /\ row.filled \in Nat /\ row.quantity \in Nat /\ row.version \in Nat
      /\ row.filled <= row.quantity
  BY DEF RowOK, Order, Agrees
<1>2. /\ new.status = "cancelled" /\ new.remaining = 0 /\ new.version = row.version + 1
      /\ new.filled = row.filled /\ new.quantity = row.quantity
  BY <1>1 DEF Order, NextVersion
<1>3. new \in Order
  <2>1. row.version + 1 \in Nat /\ NextVersion(row) = row.version + 1
    BY <1>1 DEF NextVersion
  <2>2. "cancelled" \in Statuses /\ "expired" \in Statuses /\ 0 \in Nat
    BY DEF Statuses
  <2> QED
    BY <1>1, <2>1, <2>2 DEF Order
<1>4. Agrees(new)
  BY <1>1, <1>2 DEF Agrees
<1> QED
  BY <1>1, <1>2, <1>3, <1>4 DEF Rewritten, RowOK, Rests, LiveStatuses

\* ExpireDueBatch on a live order.
LEMMA ExpiredRow ==
  ASSUME NEW row, RowOK(row), row.status \in LiveStatuses,
         NEW new, new = [row EXCEPT !.status = "expired", !.version = NextVersion(row)]
  PROVE  Rewritten(row, new) /\ ~Rests(new)
<1>1. row \in Order /\ row.filled \in Nat /\ row.quantity \in Nat /\ row.version \in Nat
      /\ row.filled <= row.quantity /\ row.remaining = row.quantity - row.filled
  BY DEF RowOK, Order, Agrees, LiveStatuses
<1>2. /\ new.status = "expired" /\ new.remaining = row.remaining
      /\ new.version = row.version + 1
      /\ new.filled = row.filled /\ new.quantity = row.quantity
  BY <1>1 DEF Order, NextVersion
<1>3. new \in Order
  <2>1. row.version + 1 \in Nat /\ NextVersion(row) = row.version + 1
    BY <1>1 DEF NextVersion
  <2>2. "cancelled" \in Statuses /\ "expired" \in Statuses /\ 0 \in Nat
    BY DEF Statuses
  <2> QED
    BY <1>1, <2>1, <2>2 DEF Order
<1>4. Agrees(new)
  BY <1>1, <1>2 DEF Agrees
<1> QED
  BY <1>1, <1>2, <1>3, <1>4 DEF Rewritten, RowOK, Rests, LiveStatuses

\* repo.AmendOrder of a live order to a quantity it has not filled beyond.
LEMMA AmendedRowAgrees ==
  ASSUME NEW row, RowOK(row), row.status \in LiveStatuses,
         NEW change \in Change,
         change.quantity = NoQuantity \/ change.quantity >= row.filled,
         NEW new, new = AmendedRow(row, change)
  PROVE  Rewritten(row, new)
<1>1. /\ row \in Order /\ row.filled \in Nat /\ row.quantity \in Nat /\ row.version \in Nat
      /\ row.filled <= row.quantity
      /\ row.status = "accepted" => row.filled = 0
      /\ row.status = "partially_filled" => row.filled > 0
  BY DEF RowOK, Order, Agrees
<1>2. PICK q : q = IF change.quantity = NoQuantity THEN row.quantity ELSE change.quantity
  OBVIOUS
<1>3. q \in Nat /\ row.filled <= q
  BY <1>1, <1>2 DEF Change
<1>4. new = [row EXCEPT !.quantity = q, !.remaining = q - row.filled,
                        !.limit = change.limit, !.stop = change.stop,
                        !.version = row.version + 1]
  BY <1>2 DEF AmendedRow, Unfilled, NextVersion
<1>5. /\ new.status = row.status /\ new.remaining = q - row.filled
      /\ new.version = row.version + 1
      /\ new.filled = row.filled /\ new.quantity = q
  BY <1>1, <1>4 DEF Order
<1>6. new \in Order
  <2>1. q - row.filled \in Nat /\ row.version + 1 \in Nat
    BY <1>1, <1>3
  <2>2. change.limit \in Nat /\ change.stop \in Nat
    BY DEF Change
  <2> QED
    BY <1>1, <1>3, <1>4, <2>1, <2>2 DEF Order
<1>7. Agrees(new)
  BY <1>1, <1>3, <1>5 DEF Agrees, LiveStatuses
<1> QED
  BY <1>1, <1>5, <1>6, <1>7 DEF Rewritten, RowOK, LiveStatuses

\* ApplyRiskDecision on an order that waits for it.
LEMMA DecidedRow ==
  ASSUME NEW row, RowOK(row), row.status = "risk_pending",
         NEW decision \in {"APPROVED", "REJECTED", "ERROR"},
         NEW new, new = Decided(row, decision)
  PROVE  /\ Rewritten(row, new)
         /\ new.status = "accepted" <=> decision = "APPROVED"
         /\ new.status \in LiveStatuses => new.status = "accepted"
<1>1. /\ row \in Order /\ row.filled = 0 /\ row.quantity \in Nat /\ row.version \in Nat
      /\ row.remaining = row.quantity
  BY DEF RowOK, Order, Agrees
<1>2. PICK s \in {"accepted", "risk_rejected", "risk_error"} :
        /\ s = "accepted" <=> decision = "APPROVED"
        /\ new = [row EXCEPT !.status = s, !.risk = decision, !.version = row.version + 1]
  BY DEF Decided, NextVersion
<1>3. /\ new.status = s /\ new.remaining = row.quantity /\ new.version = row.version + 1
      /\ new.filled = 0 /\ new.quantity = row.quantity
  BY <1>1, <1>2 DEF Order
<1>4. new \in Order
  <2>1. s \in Statuses /\ row.version + 1 \in Nat
    BY <1>1 DEF Statuses
  <2>2. decision \in {"NOT_EVALUATED", "PENDING", "APPROVED", "REJECTED", "ERROR"}
    OBVIOUS
  <2> QED
    BY <1>1, <1>2, <2>1, <2>2 DEF Order
<1>5. Agrees(new)
  BY <1>1, <1>3 DEF Agrees
<1> QED
  BY <1>1, <1>2, <1>3, <1>4, <1>5 DEF Rewritten, RowOK, LiveStatuses

\* buildOrder.
LEMMA NewOrderAgrees ==
  ASSUME NEW b \in Body, NEW new, new = NewOrder(b)
  PROVE  /\ RowOK(new) /\ new.filled = 0 /\ new.version = 1
         /\ new.status \in {"rejected", "risk_pending", "accepted"}
<1>1. PICK s, k : /\ s \in {"rejected", "risk_pending", "accepted"}
                  /\ k \in {"PENDING", "NOT_EVALUATED"}
                  /\ new = [side |-> b.side, type |-> b.type, tif |-> b.tif,
                            quantity |-> b.quantity, filled |-> 0,
                            remaining |-> b.quantity, limit |-> b.limit, stop |-> b.stop,
                            status |-> s, risk |-> k, version |-> 1]
  BY DEF NewOrder
<1>2. b.quantity \in Nat
  BY DEF Body
<1>3. new \in Order
  BY <1>1 DEF Order, Body, Statuses
<1>4. /\ new.status = s /\ new.filled = 0 /\ new.quantity = b.quantity
      /\ new.remaining = b.quantity /\ new.version = 1
  BY <1>1
<1>5. Agrees(new)
  BY <1>1, <1>2, <1>4 DEF Agrees
<1> QED
  BY <1>1, <1>3, <1>4, <1>5 DEF RowOK

-----------------------------------------------------------------------------
(***************************************************************************)
(* Every step keeps the tables in agreement and the book uncrossed         *)
(***************************************************************************)

TablesInv == TableOK(orders, executions) /\ CrossedOnlyByAmendment

\* The variables around the tables have their types.
CallsTyped ==
  /\ expiry \in [Requests -> {"none", "future", "past"}]
  /\ \A k \in DOMAIN keys : keys[k] \in Requests
  /\ DOMAIN decisions \subseteq Requests
  /\ \A o \in DOMAIN decisions : decisions[o] \in RiskAnswers
  /\ amends \in [Amenders -> AmendCall \union {NoCall, Over}]
  /\ cancels \in [Cancellers -> Requests \union {NoCall, Over}]
  /\ amended \in SUBSET Requests

LEMMA CrossedMeans ==
  /\ CrossedOnlyByAmendment <=> Uncrossed(orders, (DOMAIN orders) \ amended)
  /\ CrossedOnlyByAmendment' <=> Uncrossed(orders', (DOMAIN orders') \ amended')
<1>1. CrossedOnlyByAmendment <=> Uncrossed(orders, (DOMAIN orders) \ amended)
  BY DEF CrossedOnlyByAmendment, Uncrossed
<1>2. CrossedOnlyByAmendment' <=> Uncrossed(orders', (DOMAIN orders') \ amended')
  BY DEF CrossedOnlyByAmendment, Uncrossed
<1> QED
  BY <1>1, <1>2

\* A transaction that accepts o and matches it.
LEMMA AcceptKeepsTables ==
  ASSUME OrderAssumption, NEW rows, TableOK(rows, executions),
         NEW o \in DOMAIN rows, rows[o].status = "accepted",
         Uncrossed(rows, ((DOMAIN rows) \ amended) \ {o}),
         Accept(rows, o), UNCHANGED amended
  PROVE  TablesInv'
<1>1. /\ ~Panics(Book(rows, o))
      /\ orders' = MatchedOrders(rows, o)
      /\ executions' = executions \union MatchedExecutions(rows, o)
  BY DEF Accept
<1>2. rows[o].status \in LiveStatuses
  BY DEF LiveStatuses
<1>3. TableOK(orders', executions')
  BY <1>1, <1>2, MatchKeepsTable
<1>4. DOMAIN orders' = DOMAIN rows
  BY <1>1 DEF MatchedOrders
<1>5. (DOMAIN rows) \ amended \in SUBSET DOMAIN rows
  OBVIOUS
<1>6. Uncrossed(orders', (DOMAIN rows) \ amended)
  BY <1>1, <1>2, <1>5, MatchedUncrossed
<1>7. CrossedOnlyByAmendment'
  BY <1>4, <1>6, CrossedMeans
<1> QED
  BY <1>3, <1>7 DEF TablesInv

\* A transaction that rewrites rows: what it leaves in the book it has amended.
LEMMA RewriteKeepsTables ==
  ASSUME TablesInv, DOMAIN orders' = DOMAIN orders, UNCHANGED executions,
         amended \subseteq amended',
         \A x \in DOMAIN orders :
           \/ orders'[x] = orders[x]
           \/ /\ Rewritten(orders[x], orders'[x])
              /\ x \in amended' \/ ~Rests(orders'[x])
  PROVE  TablesInv'
<1>1. TableOK(orders', executions')
  BY RewriteKeepsTable DEF TablesInv
<1>2. Uncrossed(orders, (DOMAIN orders) \ amended)
  BY CrossedMeans DEF TablesInv
<1>3. Uncrossed(orders', (DOMAIN orders') \ amended')
  <2>1. \A x \in (DOMAIN orders') \ amended' : Rests(orders'[x]) =>
          /\ x \in (DOMAIN orders) \ amended /\ Rests(orders[x])
          /\ orders'[x].side = orders[x].side /\ orders'[x].limit = orders[x].limit
    OBVIOUS
  <2> QED
    BY <1>2, <2>1, StaysUncrossed
<1> QED
  BY <1>1, <1>3, CrossedMeans DEF TablesInv

\* The tables as repo.CreateOrder has them after the insert.
LEMMA InsertedTable ==
  ASSUME OrderAssumption, OrdersInv, TablesInv, NEW r \in Requests, CreateOrder(r)
  PROVE  /\ TableOK(Inserted(r), executions)
         /\ DOMAIN Inserted(r) = DOMAIN orders \union {r} /\ r \notin DOMAIN orders
         /\ \A o \in DOMAIN orders : Inserted(r)[o] = orders[o]
         /\ Uncrossed(Inserted(r), ((DOMAIN Inserted(r)) \ amended) \ {r})
         /\ Inserted(r)[r].status \in {"rejected", "risk_pending", "accepted"}
<1>1. PICK rows, row : rows = Inserted(r) /\ row = NewOrder(body[r])
  OBVIOUS
<1>2. r \notin DOMAIN orders /\ body[r] \in Body
  BY DEF CreateOrder, OrdersInv, HandlersKnow, CallsShaped, OrderAssumption
<1>3. /\ RowOK(row) /\ row.filled = 0 /\ row.version = 1
      /\ row.status \in {"rejected", "risk_pending", "accepted"}
  BY <1>1, <1>2, NewOrderAgrees
<1>4. /\ DOMAIN rows = DOMAIN orders \union {r} /\ rows[r] = row
      /\ \A o \in DOMAIN orders : rows[o] = orders[o]
  BY <1>1, <1>2 DEF Inserted
<1>5. /\ IsFiniteSet(DOMAIN orders) /\ DOMAIN orders \subseteq Requests
      /\ \A o \in DOMAIN orders : RowOK(orders[o]) /\ AddsUp(orders[o].filled, executions, o)
      /\ IsFiniteSet(executions) /\ executions \subseteq Execution
      /\ \A e \in executions : /\ e.taker \in DOMAIN orders /\ e.maker \in DOMAIN orders
                               /\ e.taker # e.maker
                               /\ e.version < orders[e.taker].version
  BY DEF TablesInv, TableOK, TradesOK
<1>6. IsFiniteSet(DOMAIN rows) /\ DOMAIN rows \subseteq Requests
  BY <1>4, <1>5, FS_AddElement
<1>7. AddsUp(0, executions, r)
  <2>1. \A e \in executions : e.taker # r /\ e.maker # r
    BY <1>2, <1>5
  <2> QED
    BY <2>1, TradedNothing
<1>8. \A o \in DOMAIN rows : RowOK(rows[o]) /\ AddsUp(rows[o].filled, executions, o)
  BY <1>3, <1>4, <1>5, <1>7
<1>9. TradesOK(rows, executions)
  BY <1>4, <1>5 DEF TradesOK
<1>10. TableOK(rows, executions)
  BY <1>6, <1>8, <1>9 DEF TableOK
<1>11. Uncrossed(rows, ((DOMAIN rows) \ amended) \ {r})
  <2>1. Uncrossed(orders, (DOMAIN orders) \ amended)
    BY CrossedMeans DEF TablesInv
  <2>2. \A x \in ((DOMAIN rows) \ amended) \ {r} : rows[x] = orders[x] /\ x \in (DOMAIN orders) \ amended
    BY <1>4
  <2> QED
    BY <2>1, <2>2, StaysUncrossed
<1> QED
  BY <1>1, <1>2, <1>3, <1>4, <1>10, <1>11

LEMMA CreateOrderKeepsTables ==
  ASSUME OrderAssumption, OrdersInv, TablesInv, NEW r \in Requests, CreateOrder(r)
  PROVE  TablesInv'
<1>1. PICK rows : rows = Inserted(r)
  OBVIOUS
<1>2. /\ TableOK(rows, executions) /\ r \in DOMAIN rows
      /\ Uncrossed(rows, ((DOMAIN rows) \ amended) \ {r})
      /\ rows[r].status \in {"rejected", "risk_pending", "accepted"}
  BY <1>1, InsertedTable
<1>3. /\ IF rows[r].status = "accepted" THEN Accept(rows, r)
                                       ELSE orders' = rows /\ UNCHANGED executions
      /\ UNCHANGED amended
  BY <1>1 DEF CreateOrder
<1>4. CASE rows[r].status = "accepted"
  BY <1>2, <1>3, <1>4, AcceptKeepsTables
<1>5. CASE rows[r].status # "accepted"
  <2>1. ~Rests(rows[r])
    BY <1>2, <1>5 DEF Rests, LiveStatuses
  <2>2. Uncrossed(rows, (DOMAIN rows) \ amended)
    BY <1>2, <2>1 DEF Uncrossed
  <2> QED
    BY <1>2, <1>3, <1>5, <2>2, CrossedMeans DEF TablesInv
<1> QED
  BY <1>4, <1>5

\* The tables as repo.ApplyRiskDecision has them before any matching.
LEMMA DecidedTable ==
  ASSUME TablesInv, NEW r \in DOMAIN orders, orders[r].status = "risk_pending",
         NEW decision \in {"APPROVED", "REJECTED", "ERROR"},
         NEW rows, rows = [orders EXCEPT ![r] = Decided(orders[r], decision)]
  PROVE  /\ TableOK(rows, executions)
         /\ DOMAIN rows = DOMAIN orders
         /\ \A x \in DOMAIN orders : x # r => rows[x] = orders[x]
         /\ Uncrossed(rows, ((DOMAIN rows) \ amended) \ {r})
         /\ rows[r].status = "accepted" <=> decision = "APPROVED"
         /\ rows[r].status \in LiveStatuses => rows[r].status = "accepted"
<1>1. RowOK(orders[r])
  BY DEF TablesInv, TableOK
<1>2. rows[r] = Decided(orders[r], decision) /\ DOMAIN rows = DOMAIN orders
      /\ \A x \in DOMAIN orders : x # r => rows[x] = orders[x]
  OBVIOUS
<1>3. /\ Rewritten(orders[r], rows[r])
      /\ rows[r].status = "accepted" <=> decision = "APPROVED"
      /\ rows[r].status \in LiveStatuses => rows[r].status = "accepted"
  BY <1>1, <1>2, DecidedRow
<1>4. TableOK(rows, executions)
  BY <1>2, <1>3, RewriteKeepsTable DEF TablesInv
<1>5. Uncrossed(rows, ((DOMAIN rows) \ amended) \ {r})
  <2>1. Uncrossed(orders, (DOMAIN orders) \ amended)
    BY CrossedMeans DEF TablesInv
  <2>2. PICK S, T : S = (DOMAIN orders) \ amended /\ T = ((DOMAIN rows) \ amended) \ {r}
    OBVIOUS
  <2>3. \A x \in T : rows[x] = orders[x] /\ x \in S
    BY <1>2, <2>2
  <2> QED
    BY <2>1, <2>2, <2>3 DEF Uncrossed
<1> QED
  BY <1>2, <1>3, <1>4, <1>5

LEMMA ApplyRiskDecisionKeepsTables ==
  ASSUME OrderAssumption, OrdersInv, TablesInv, NEW r \in Requests, ApplyRiskDecision(r)
  PROVE  TablesInv'
<1>1. r \in DOMAIN orders /\ orders[r].status = "risk_pending"
  BY DEF ApplyRiskDecision, OrdersInv, HandlersKnow
<1>2. PICK decision \in {"APPROVED", "REJECTED", "ERROR"} :
        IF decision = "APPROVED"
        THEN Accept([orders EXCEPT ![r] = Decided(orders[r], decision)], r)
        ELSE /\ orders' = [orders EXCEPT ![r] = Decided(orders[r], decision)]
             /\ UNCHANGED executions
  <2>1. PICK reply : LET d == Decision(orders[r], reply)
                         rows == [orders EXCEPT ![r] = Decided(@, d)]
                     IN IF d = "APPROVED" THEN Accept(rows, r)
                                          ELSE orders' = rows /\ UNCHANGED executions
    BY DEF ApplyRiskDecision
  <2>2. Decision(orders[r], reply) \in {"APPROVED", "REJECTED", "ERROR"}
    BY DEF Decision
  <2> QED
    BY <2>1, <2>2
<1>3. PICK rows : rows = [orders EXCEPT ![r] = Decided(orders[r], decision)]
  OBVIOUS
<1>4. /\ TableOK(rows, executions)
      /\ DOMAIN rows = DOMAIN orders
      /\ Uncrossed(rows, ((DOMAIN rows) \ amended) \ {r})
      /\ rows[r].status = "accepted" <=> decision = "APPROVED"
      /\ rows[r].status \in LiveStatuses => rows[r].status = "accepted"
  BY <1>1, <1>3, DecidedTable
<1>5. UNCHANGED amended
  BY DEF ApplyRiskDecision
<1>6. CASE decision = "APPROVED"
  BY <1>1, <1>2, <1>3, <1>4, <1>5, <1>6, AcceptKeepsTables
<1>7. CASE decision # "APPROVED"
  <2>1. ~Rests(rows[r])
    BY <1>4, <1>7 DEF Rests
  <2>2. Uncrossed(rows, (DOMAIN rows) \ amended)
    BY <1>4, <2>1 DEF Uncrossed
  <2> QED
    BY <1>2, <1>3, <1>4, <1>5, <1>7, <2>2, CrossedMeans DEF TablesInv
<1> QED
  BY <1>6, <1>7

LEMMA CancelWriteKeepsTables ==
  ASSUME OrdersInv, TablesInv, NEW c \in Cancellers, CancelWrite(c)
  PROVE  TablesInv'
<1>1. PICK o : o = cancels[c]
  OBVIOUS
<1>2. /\ orders' = IF Live(o)
                   THEN [orders EXCEPT ![o] = [orders[o] EXCEPT !.status = "cancelled",
                                                                !.remaining = 0,
                                                                !.version = NextVersion(orders[o])]]
                   ELSE orders
      /\ UNCHANGED <<executions, amended>>
  BY <1>1 DEF CancelWrite, Cancellable
<1>3. CASE Live(o)
  <2>1. o \in DOMAIN orders /\ orders[o].status \in LiveStatuses /\ RowOK(orders[o])
    BY <1>3 DEF Live, TablesInv, TableOK
  <2>2. /\ DOMAIN orders' = DOMAIN orders
        /\ orders'[o] = [orders[o] EXCEPT !.status = "cancelled", !.remaining = 0,
                                          !.version = NextVersion(orders[o])]
        /\ \A x \in DOMAIN orders : x # o => orders'[x] = orders[x]
    BY <1>2, <1>3, <2>1
  <2>3. Rewritten(orders[o], orders'[o]) /\ ~Rests(orders'[o])
    BY <2>1, <2>2, CancelledRow
  <2> QED
    BY <1>2, <2>2, <2>3, RewriteKeepsTables
<1>4. CASE ~Live(o)
  BY <1>2, <1>4, RewriteKeepsTables
<1> QED
  BY <1>3, <1>4

LEMMA AmendWriteKeepsTables ==
  ASSUME OrderAssumption, OrdersInv, CallsTyped, TablesInv, NEW a \in Amenders, AmendWrite(a)
  PROVE  TablesInv'
<1>1. PICK o, change : o = amends[a].order /\ change = amends[a].change
  OBVIOUS
<1>2. /\ orders' = [orders EXCEPT ![o] = AmendedRow(orders[o], change)]
      /\ amended' = amended \union {o}
      /\ UNCHANGED executions
      /\ Live(o)
      /\ change.quantity = NoQuantity \/ change.quantity >= orders[o].filled
      /\ amends[a] \notin {NoCall, Over}
  BY <1>1 DEF AmendWrite, Amendable
<1>3. change \in Change
  BY <1>1, <1>2 DEF CallsTyped, AmendCall, OrderAssumption
<1>4. o \in DOMAIN orders /\ orders[o].status \in LiveStatuses /\ RowOK(orders[o])
  BY <1>2 DEF Live, TablesInv, TableOK
<1>5. /\ DOMAIN orders' = DOMAIN orders
      /\ orders'[o] = AmendedRow(orders[o], change)
      /\ \A x \in DOMAIN orders : x # o => orders'[x] = orders[x]
  BY <1>2, <1>4
<1>6. Rewritten(orders[o], orders'[o])
  BY <1>2, <1>3, <1>4, <1>5, AmendedRowAgrees
<1>7. o \in amended' /\ amended \subseteq amended'
  BY <1>2
<1> QED
  BY <1>2, <1>5, <1>6, <1>7, RewriteKeepsTables

LEMMA ExpireDueBatchKeepsTables ==
  ASSUME OrdersInv, TablesInv, ExpireDueBatch
  PROVE  TablesInv'
<1>1. PICK S \in SUBSET {o \in DOMAIN orders : Due(o)} :
        orders' = [o \in DOMAIN orders |->
                     IF o \in S
                     THEN [orders[o] EXCEPT !.status = "expired",
                                            !.version = NextVersion(orders[o])]
                     ELSE orders[o]]
  BY DEF ExpireDueBatch
<1>2. UNCHANGED <<executions, amended>>
  BY DEF ExpireDueBatch
<1>3. ASSUME NEW x \in S PROVE Rewritten(orders[x], orders'[x]) /\ ~Rests(orders'[x])
  <2>1. x \in DOMAIN orders /\ orders[x].status \in LiveStatuses /\ RowOK(orders[x])
    BY <1>1 DEF Due, Live, TablesInv, TableOK
  <2>2. orders'[x] = [orders[x] EXCEPT !.status = "expired", !.version = NextVersion(orders[x])]
    BY <1>1, <2>1
  <2> QED
    BY <2>1, <2>2, ExpiredRow
<1>4. DOMAIN orders' = DOMAIN orders /\ \A x \in DOMAIN orders : x \notin S => orders'[x] = orders[x]
  BY <1>1
<1> QED
  BY <1>2, <1>3, <1>4, RewriteKeepsTables

\* The steps that write neither rows nor executions.
LEMMA IdleKeepsTables ==
  ASSUME TablesInv, UNCHANGED <<orders, executions, amended>>
  PROVE  TablesInv'
BY DEF TablesInv, TableOK, TradesOK, CrossedOnlyByAmendment, Traded, Rests

LEMMA NextTables ==
  ASSUME OrderAssumption, OrdersInv, CallsTyped, TablesInv, [Next]_vars
  PROVE  TablesInv'
<1>1. ASSUME NEW r \in Requests, Create(r) PROVE TablesInv'
  <2>1. CASE FindIdempotency(r) \/ CreateRefused(r) \/ Lose(r)
    BY <2>1, IdleKeepsTables DEF FindIdempotency, CreateRefused, Lose, table
  <2>2. CASE CreateOrder(r)
    BY <2>2, CreateOrderKeepsTables
  <2>3. CASE ApplyRiskDecision(r)
    BY <2>3, ApplyRiskDecisionKeepsTables
  <2> QED
    BY <1>1, <2>1, <2>2, <2>3 DEF Create
<1>2. ASSUME NEW c \in Cancellers, CancelWrite(c) PROVE TablesInv'
  BY <1>2, CancelWriteKeepsTables
<1>3. ASSUME NEW a \in Amenders, AmendWrite(a) PROVE TablesInv'
  BY <1>3, AmendWriteKeepsTables
<1>4. CASE ExpireDueBatch
  BY <1>4, ExpireDueBatchKeepsTables
<1>5. ASSUME \/ \E r \in Requests : ExpiryPasses(r)
             \/ \E c \in Cancellers, o \in Requests : CancelRead(c, o)
             \/ \E a \in Amenders : AmendRefused(a) \/ \E o \in Requests : AmendRead(a, o)
             \/ UNCHANGED vars
      PROVE  TablesInv'
  BY <1>5, IdleKeepsTables DEF ExpiryPasses, CancelRead, AmendRefused, AmendRead, vars, table
<1> QED
  BY <1>1, <1>2, <1>3, <1>4, <1>5 DEF Next

LEMMA NextCallsTyped ==
  ASSUME OrderAssumption, OrdersInv, TablesInv, CallsTyped, [Next]_vars
  PROVE  CallsTyped'
<1> USE DEF CallsTyped
<1>0. /\ DOMAIN orders \subseteq Requests
      /\ \A o \in DOMAIN orders : orders[o] \in Order /\ orders[o].version \in Nat
  BY DEF TablesInv, TableOK, RowOK, Order
<1>1. ASSUME NEW r \in Requests, Create(r) PROVE CallsTyped'
  <2>1. CASE FindIdempotency(r) \/ CreateRefused(r) \/ Lose(r)
    BY <2>1 DEF FindIdempotency, CreateRefused, Lose, table
  <2>2. CASE CreateOrder(r)
    <3>1. /\ keys' = [k \in DOMAIN keys \union {body[r].key} |->
                        IF k = body[r].key THEN r ELSE keys[k]]
          /\ expiry' = [expiry EXCEPT ![r] = FirstExpiry(body[r])]
          /\ UNCHANGED <<decisions, amends, cancels, amended>>
      BY <2>2 DEF CreateOrder
    <3>2. FirstExpiry(body[r]) \in {"none", "future", "past"}
      BY DEF FirstExpiry
    <3> QED
      BY <3>1, <3>2
  <2>3. CASE ApplyRiskDecision(r)
    <3>1. PICK reply \in RiskAnswers :
            decisions' = [o \in DOMAIN decisions \union {r} |->
                            IF o = r THEN reply ELSE decisions[o]]
      BY <2>3 DEF ApplyRiskDecision, RiskAnswers
    <3>2. UNCHANGED <<expiry, keys, amends, cancels, amended>>
      BY <2>3 DEF ApplyRiskDecision
    <3> QED
      BY <3>1, <3>2
  <2> QED
    BY <1>1, <2>1, <2>2, <2>3 DEF Create
<1>2. ASSUME NEW r \in Requests, ExpiryPasses(r) PROVE CallsTyped'
  BY <1>2 DEF ExpiryPasses
<1>3. ASSUME NEW c \in Cancellers, CancelWrite(c) PROVE CallsTyped'
  BY <1>3 DEF CancelWrite
<1>4. ASSUME NEW c \in Cancellers, NEW o \in Requests, CancelRead(c, o) PROVE CallsTyped'
  BY <1>4 DEF CancelRead, table
<1>5. ASSUME NEW a \in Amenders, AmendWrite(a) PROVE CallsTyped'
  <2>1. PICK o, e : /\ o \in DOMAIN orders
                    /\ expiry' = [expiry EXCEPT ![o] = e] /\ e \in {"future", "none"}
                    /\ amended' = amended \union {o}
                    /\ amends' = [amends EXCEPT ![a] = Over]
                    /\ UNCHANGED <<keys, decisions, cancels>>
    BY <1>5 DEF AmendWrite, Amendable, Live
  <2> QED
    BY <1>0, <2>1
<1>6. ASSUME NEW a \in Amenders, AmendRefused(a) PROVE CallsTyped'
  BY <1>6 DEF AmendRefused, table
<1>7. ASSUME NEW a \in Amenders, NEW o \in Requests, AmendRead(a, o) PROVE CallsTyped'
  <2>1. PICK change \in Changes :
          amends' = [amends EXCEPT ![a] =
                       [order |-> o, version |-> orders[o].version,
                        change |-> change, seen |-> orders[o]]]
    BY <1>7 DEF AmendRead
  <2>2. o \in DOMAIN orders /\ UNCHANGED <<table, cancels, amended>>
    BY <1>7 DEF AmendRead, Live
  <2>3. [order |-> o, version |-> orders[o].version, change |-> change,
         seen |-> orders[o]] \in AmendCall
    BY <1>0, <2>2 DEF AmendCall
  <2> QED
    BY <2>1, <2>2, <2>3 DEF table
<1>8. CASE ExpireDueBatch
  BY <1>8 DEF ExpireDueBatch
<1>9. CASE UNCHANGED vars
  BY <1>9 DEF vars, table
<1> QED
  BY <1>1, <1>2, <1>3, <1>4, <1>5, <1>6, <1>7, <1>8, <1>9 DEF Next

\* Before the first request there is nothing that could disagree.
LEMMA InitTables == OrderAssumption /\ Init => TablesInv /\ CallsTyped
<1> SUFFICES ASSUME OrderAssumption, Init PROVE TablesInv /\ CallsTyped
  OBVIOUS
<1>1. DOMAIN orders = {} /\ DOMAIN keys = {} /\ executions = {} /\ DOMAIN decisions = {}
  BY DEF Init, Empty
<1>2. IsFiniteSet({})
  BY FS_EmptySet
<1>3. TablesInv
  BY <1>1, <1>2 DEF TablesInv, TableOK, TradesOK, CrossedOnlyByAmendment
<1>4. CallsTyped
  BY <1>1 DEF CallsTyped, Init
<1> QED
  BY <1>3, <1>4

\* What the invariants say together.
LEMMA TablesMean ==
  OrdersInv /\ TablesInv /\ CallsTyped =>
    TypeOK /\ FillsMatchExecutions /\ QuantitiesAgree /\ CrossedOnlyByAmendment
<1> SUFFICES ASSUME OrdersInv, TablesInv, CallsTyped
             PROVE  TypeOK /\ FillsMatchExecutions /\ QuantitiesAgree /\ CrossedOnlyByAmendment
  OBVIOUS
<1>1. /\ \A o \in DOMAIN orders : orders[o] \in Order /\ Agrees(orders[o])
      /\ executions \subseteq Execution
      /\ \A o \in DOMAIN orders : AddsUp(orders[o].filled, executions, o)
      /\ CrossedOnlyByAmendment
  BY DEF TablesInv, TableOK, TradesOK, RowOK
<1>2. TypeOK
  BY <1>1 DEF TypeOK, OrdersInv, CallsShaped, CallsTyped
<1> QED
  BY <1>1, <1>2 DEF FillsMatchExecutions, QuantitiesAgree

\* In every reachable state rows, executions and book agree: an order's filled
\* quantity is what its executions add up to, and what rests is not crossed.
THEOREM TablesInvariant == Spec => [](OrdersInv /\ TablesInv /\ CallsTyped)
<1>1. Init => OrdersInv /\ TablesInv /\ CallsTyped
  BY InitOrdersInv, InitTables, OrderAssumption
<1>2. OrdersInv /\ TablesInv /\ CallsTyped /\ [Next]_vars =>
        (OrdersInv /\ TablesInv /\ CallsTyped)'
  BY NextOrdersInv, NextTables, NextCallsTyped, OrderAssumption
<1> QED
  BY <1>1, <1>2, PTL DEF Spec

\* TypeOK: every statement writes rows, executions and keys of their types.
THEOREM TypeOKHolds == Spec => []TypeOK
<1>1. OrdersInv /\ TablesInv /\ CallsTyped => TypeOK
  BY TablesMean
<1> QED
  BY <1>1, TablesInvariant, PTL

\* FillsMatchExecutions: the absolute fills that matches write, in whatever order
\* with cancels, amendments, expiries and killed orders, are what the executions,
\* each rounded to ten decimals, add up to, within half a tenth decimal for each
\* of them, for any number of orders and any quantities (persistOrderState).
THEOREM FillsMatchExecutionsHolds == Spec => []FillsMatchExecutions
<1>1. OrdersInv /\ TablesInv /\ CallsTyped => FillsMatchExecutions
  BY TablesMean
<1> QED
  BY <1>1, TablesInvariant, PTL

\* QuantitiesAgree: the five statements that write quantities and statuses leave
\* every row in agreement with itself (updateOrderLifecycleFromFill,
\* repo.CancelOrder, repo.AmendOrder, ExpireDueBatch, repo.CreateOrder).
THEOREM QuantitiesAgreeHolds == Spec => []QuantitiesAgree
<1>1. OrdersInv /\ TablesInv /\ CallsTyped => QuantitiesAgree
  BY TablesMean
<1> QED
  BY <1>1, TablesInvariant, PTL

\* CrossedOnlyByAmendment: two orders that were never amended do not rest at
\* crossing prices, however accepted, cancelled, expired and matched orders
\* follow each other (matchAcceptedOrder).
THEOREM CrossedOnlyByAmendmentHolds == Spec => []CrossedOnlyByAmendment
<1>1. OrdersInv /\ TablesInv /\ CallsTyped => CrossedOnlyByAmendment
  BY TablesMean
<1> QED
  BY <1>1, TablesInvariant, PTL

-----------------------------------------------------------------------------
(***************************************************************************)
(* Who trades first                                                        *)
(***************************************************************************)

\* An execution that accepting o inserts.
LEMMA MatchedServes ==
  ASSUME OrderAssumption, NEW rows, NEW trades, TableOK(rows, trades),
         NEW o \in DOMAIN rows, rows[o].status \in LiveStatuses, ~Panics(Book(rows, o)),
         NEW e \in MatchedExecutions(rows, o)
  PROVE  /\ e.taker = o /\ e.maker \in Resting(rows, o)
         /\ e.price = RatString(rows[e.maker].limit)
         /\ Crosses(rows[o], rows[e.maker])
         /\ \A p \in Resting(rows, o) :
              p # e.maker => rows[p].limit # NoPrice
         /\ \A p \in Resting(rows, o) : Ahead(rows, p, e.maker) =>
              MatchedOrders(rows, o)[p].status = "filled"
<1>1. PICK matched, after, k :
        /\ matched = Match(rows[o], Book(rows, o))
        /\ after = MatchedOrders(rows, o)
        /\ k = Book(rows, o)
  OBVIOUS
<1> DEFINE R == Resting(rows, o)
<1>2. /\ e.taker = o /\ e.maker \in R /\ e.price = RatString(rows[e.maker].limit)
      /\ matched.fills[e.maker] > 0
  BY <1>1, MatchedTrades
<1>3. /\ WellFormed(rows[o], k) /\ matched = Match(rows[o], k) /\ DOMAIN k = R
      /\ \A m \in R : k[m] = rows[m] /\ rows[m].side = Opposite(rows[o].side)
  BY <1>1, BookWellFormed
<1>4. \A m \in R : matched.fills[m] = rows[m].remaining => after[m].status = "filled"
  BY <1>1, MatchedRows
<1>5. \A m \in DOMAIN k : matched.fills[m] > 0 =>
        /\ Crosses(rows[o], k[m])
        /\ \A p \in DOMAIN k : Ahead(k, p, m) => matched.fills[p] = k[p].remaining
  BY <1>3, MatchFacts
<1>6. PICK m \in R : m = e.maker
  BY <1>2
<1>7. Crosses(rows[o], rows[m])
  BY <1>2, <1>3, <1>5, <1>6
<1>8. \A p \in R : Ahead(k, p, m) <=> Ahead(rows, p, m)
  BY <1>3 DEF Ahead
<1>9. ASSUME NEW p \in R, Ahead(rows, p, m) PROVE after[p].status = "filled"
  <2>1. matched.fills[p] = k[p].remaining
    BY <1>2, <1>3, <1>5, <1>6, <1>8, <1>9
  <2> QED
    BY <1>3, <1>4, <2>1
<1>10. ASSUME NEW p \in R, p # m PROVE rows[p].limit # NoPrice
  <2>1. k[p].side = k[m].side
    BY <1>3
  <2> QED
    BY <1>1, <1>3, <1>10, <2>1 DEF Panics
<1> QED
  BY <1>1, <1>2, <1>6, <1>7, <1>9, <1>10

\* A transaction that accepts o serves the best makers first.
LEMMA AcceptServes ==
  ASSUME OrderAssumption, NEW rows, TableOK(rows, executions),
         NEW o \in DOMAIN rows, rows[o].status = "accepted", Accept(rows, o),
         o \in DOMAIN orders => ~Live(o),
         DOMAIN rows = DOMAIN orders \union {o},
         \A x \in DOMAIN orders : x # o => rows[x] = orders[x],
         NEW e \in executions' \ executions
  PROVE  Served(e)
<1>1. /\ ~Panics(Book(rows, o)) /\ orders' = MatchedOrders(rows, o)
      /\ e \in MatchedExecutions(rows, o) /\ rows[o].status \in LiveStatuses
  BY DEF Accept, LiveStatuses
<1> DEFINE R == Resting(rows, o)
<1>2. /\ e.taker = o /\ e.maker \in R
      /\ e.price = RatString(rows[e.maker].limit)
      /\ Crosses(rows[o], rows[e.maker])
      /\ \A p \in R : p # e.maker => rows[p].limit # NoPrice
      /\ \A p \in R : Ahead(rows, p, e.maker) => orders'[p].status = "filled"
  BY <1>1, MatchedServes
<1>3. \A m \in R : /\ m \in DOMAIN rows /\ m # o /\ m \in DOMAIN orders
                   /\ rows[m] = orders[m] /\ rows[m].side = Opposite(rows[o].side)
  BY <1>1, BookWellFormed
<1>4. SameTerms(rows[o], orders'[o])
  BY <1>1, MatchedRows
<1>5. /\ \A x \in DOMAIN rows : rows[x].limit \in Nat
      /\ rows[o].side \in {"BUY", "SELL"}
  BY DEF TableOK, RowOK, Order, Sides
<1>6. PICK m, side : m = e.maker /\ side = rows[o].side
  OBVIOUS
<1>7. /\ m \in R /\ m \in DOMAIN orders /\ rows[m] = orders[m] /\ rows[m].limit \in Nat
      /\ rows[m].side = Opposite(side) /\ side \in {"BUY", "SELL"}
      /\ orders'[e.taker].side = side /\ orders'[e.taker].type = rows[o].type
      /\ orders'[e.taker].limit = rows[o].limit /\ e.price = RatString(rows[m].limit)
      /\ Crosses(rows[o], rows[m]) /\ rows[o].limit \in Nat
  BY <1>2, <1>3, <1>4, <1>5, <1>6 DEF SameTerms
<1>8. orders'[e.taker].type # "MARKET" =>
        CostTo(side, orders[m].limit) <= CostTo(side, orders'[e.taker].limit)
  BY <1>6, <1>7 DEF Crosses, CostTo
<1>9. ASSUME NEW p \in DOMAIN orders, Live(p), orders[p].remaining > 0,
             orders[p].type = "LIMIT", orders[p].side = orders[m].side,
             \/ CostTo(side, orders[p].limit) < CostTo(side, orders[m].limit)
             \/ orders[p].limit = orders[m].limit /\ p < m
      PROVE  orders'[p].status = "filled"
  <2>1. p # o /\ rows[p] = orders[p] /\ p \in DOMAIN rows
    BY <1>9
  <2>2. p \in R
    BY <1>6, <1>7, <1>9, <2>1 DEF Resting, Live, Opposite
  <2>3. rows[p].limit \in Nat /\ rows[m].limit \in Nat /\ rows[p].side = Opposite(side)
    BY <1>5, <1>7, <1>9, <2>1
  <2>4. Ahead(rows, p, m)
    <3>1. CASE orders[p].limit = orders[m].limit /\ p < m
      BY <1>7, <2>1, <3>1 DEF Ahead
    <3>2. CASE CostTo(side, orders[p].limit) < CostTo(side, orders[m].limit)
      <4>1. CASE side = "BUY"
        BY <1>7, <2>1, <2>3, <3>2, <4>1 DEF Ahead, CostTo, Opposite
      <4>2. CASE side = "SELL"
        BY <1>7, <2>1, <2>3, <3>2, <4>2 DEF Ahead, CostTo, Opposite
      <4> QED
        BY <1>7, <4>1, <4>2
    <3> QED
      BY <1>9, <3>1, <3>2
  <2> QED
    BY <1>2, <1>6, <2>2, <2>4
<1> QED
  BY <1>6, <1>7, <1>8, <1>9 DEF Served

\* Every step serves the best makers first.
LEMMA NextServes ==
  ASSUME OrderAssumption, OrdersInv, TablesInv, [Next]_vars, NEW e \in executions' \ executions
  PROVE  Served(e)
<1>1. ASSUME NEW r \in Requests, CreateOrder(r) PROVE Served(e)
  <2>1. PICK rows : rows = Inserted(r)
    OBVIOUS
  <2>2. /\ TableOK(rows, executions) /\ r \notin DOMAIN orders
        /\ DOMAIN rows = DOMAIN orders \union {r}
        /\ \A x \in DOMAIN orders : x # r => rows[x] = orders[x]
    BY <1>1, <2>1, InsertedTable
  <2>3. rows[r].status = "accepted" /\ Accept(rows, r)
    BY <1>1, <2>1 DEF CreateOrder
  <2> QED
    BY <2>2, <2>3, AcceptServes
<1>2. ASSUME NEW r \in Requests, ApplyRiskDecision(r) PROVE Served(e)
  <2>1. r \in DOMAIN orders /\ orders[r].status = "risk_pending"
    BY <1>2 DEF ApplyRiskDecision, OrdersInv, HandlersKnow
  <2>2. PICK decision : /\ decision = "APPROVED"
                        /\ Accept([orders EXCEPT ![r] = Decided(orders[r], decision)], r)
    BY <1>2 DEF ApplyRiskDecision
  <2>3. PICK rows : rows = [orders EXCEPT ![r] = Decided(orders[r], decision)]
    OBVIOUS
  <2>4. /\ TableOK(rows, executions) /\ DOMAIN rows = DOMAIN orders
        /\ \A x \in DOMAIN orders : x # r => rows[x] = orders[x]
        /\ rows[r].status = "accepted"
    <3>1. decision \in {"APPROVED", "REJECTED", "ERROR"}
      BY <2>2
    <3> QED
      BY <2>1, <2>2, <2>3, <3>1, DecidedTable
  <2>5. ~Live(r) /\ DOMAIN rows = DOMAIN orders \union {r}
    BY <2>1, <2>4 DEF Live, LiveStatuses
  <2> QED
    BY <2>1, <2>2, <2>3, <2>4, <2>5, AcceptServes
<1>3. ASSUME \/ \E r \in Requests : \/ FindIdempotency(r) \/ CreateRefused(r) \/ Lose(r)
                                   \/ ExpiryPasses(r)
             \/ \E c \in Cancellers : CancelWrite(c) \/ \E o \in Requests : CancelRead(c, o)
             \/ \E a \in Amenders : \/ AmendWrite(a) \/ AmendRefused(a)
                                    \/ \E o \in Requests : AmendRead(a, o)
             \/ ExpireDueBatch
             \/ UNCHANGED vars
      PROVE  FALSE
  BY <1>3 DEF FindIdempotency, CreateRefused, Lose, ExpiryPasses, CancelWrite, CancelRead,
              AmendWrite, AmendRefused, AmendRead, ExpireDueBatch, vars, table
<1> QED
  BY <1>1, <1>2, <1>3 DEF Next, Create

\* BestFirst: every execution is at its maker's price, within its taker's limit,
\* and only after the makers with a better price or an earlier creation are used
\* up, for any book (matchAcceptedOrder, Book.Sort).
THEOREM BestFirstHolds == Spec => BestFirst
<1>1. OrdersInv /\ TablesInv /\ CallsTyped /\ [Next]_vars =>
        [\A e \in executions' \ executions : Served(e)]_vars
  BY NextServes, OrderAssumption
<1> QED
  BY <1>1, TablesInvariant, PTL DEF Spec, BestFirst

-----------------------------------------------------------------------------
(***************************************************************************)
(* The trigger worker: one order of a batch                                *)
(***************************************************************************)

\* A row that the query for resting orders returns to the other side.
Waits(row) == row.status \in LiveStatuses /\ row.type = "LIMIT" /\ row.remaining > 0

\* A row with all its types has the columns the versions are kept for.
LEMMA OrderShaped ==
  ASSUME NEW row \in Order
  PROVE  Shaped(row)
<1>1. row = [column \in Columns |-> row[column]]
  BY DEF Order, Columns
<1>2. row.status \in Statuses /\ row.version \in Nat
  BY DEF Order
<1> QED
  BY <1>1, <1>2 DEF Shaped

LEMMA MovedTwice ==
  ASSUME NEW a, NEW b, NEW c, Shaped(a), a = b \/ Moved(a, b), b = c \/ Moved(b, c)
  PROVE  a = c \/ Moved(a, c)
<1>1. CASE Moved(a, b) /\ Moved(b, c)
  <2>1. a.version \in Nat /\ b.version \in Nat /\ c.version \in Nat
    BY <1>1 DEF Moved, Shaped
  <2> QED
    BY <1>1, <2>1 DEF Moved
<1> QED
  BY <1>1

\* activateLockedStopOrder changes the type and the version.
LEMMA ActivatedRow ==
  ASSUME NEW row, RowOK(row), row.status \in LiveStatuses, row.type \in {"STOP", "STOP_LIMIT"},
         NEW new, new = [row EXCEPT !.type = ActivatedOrderType(row.type),
                                    !.version = NextVersion(row)]
  PROVE  /\ Rewritten(row, new) /\ Moved(row, new)
         /\ new.status = row.status /\ new.remaining = row.remaining
         /\ new.type = ActivatedOrderType(row.type)
         /\ new.side = row.side /\ new.limit = row.limit /\ new.tif = row.tif
<1>1. row \in Order /\ row.version \in Nat /\ Agrees(row)
  BY DEF RowOK, Order
<1>2. PICK type : type = ActivatedOrderType(row.type) /\ type \in {"MARKET", "LIMIT"}
  BY DEF ActivatedOrderType
<1>3. new = [row EXCEPT !.type = type, !.version = row.version + 1] /\ row.version + 1 \in Nat
  BY <1>1, <1>2 DEF NextVersion
<1>4. new \in Order
  BY <1>1, <1>2, <1>3 DEF Order, Types
<1>5. /\ new.type = type /\ new.version = row.version + 1
      /\ new.status = row.status /\ new.remaining = row.remaining
      /\ new.side = row.side /\ new.limit = row.limit /\ new.tif = row.tif
      /\ new.quantity = row.quantity /\ new.filled = row.filled
  BY <1>1, <1>3 DEF Order
<1>6. Agrees(new)
  BY <1>1, <1>5 DEF Agrees
<1>7. RowOK(new)
  BY <1>4, <1>5, <1>6 DEF RowOK, LiveStatuses
<1>8. Moved(row, new)
  BY <1>1, <1>4, <1>5, OrderShaped DEF Moved, OnceAccepted
<1> QED
  BY <1>1, <1>2, <1>5, <1>7, <1>8 DEF Rewritten

\* What triggering order b in s makes of the rows and the executions in t.
TriggerMakes(s, b, t) ==
  /\ DOMAIN t.rows = DOMAIN s.rows
  /\ TableOK(t.rows, t.executions)
  /\ \A x \in DOMAIN s.rows :
       /\ x # b => \/ t.rows[x] = s.rows[x]
                   \/ Waits(s.rows[x]) /\ SameTerms(s.rows[x], t.rows[x])
       /\ t.rows[x] = s.rows[x] \/ Moved(s.rows[x], t.rows[x])
  /\ t.rows[b].side = s.rows[b].side /\ t.rows[b].limit = s.rows[b].limit
  /\ t.rows[b].tif = s.rows[b].tif
  /\ t.rows[b].type = ActivatedOrderType(s.rows[b].type)
  /\ \A S \in SUBSET DOMAIN s.rows : Uncrossed(s.rows, S) => Uncrossed(t.rows, S)
  /\ s.executions \subseteq t.executions
  /\ \A e \in t.executions \ s.executions :
       /\ e.taker = b /\ e.maker \in DOMAIN s.rows /\ e.maker # b
       /\ Waits(s.rows[e.maker]) /\ s.rows[e.maker].side # s.rows[b].side
  /\ s.rows[b].tif # "FOK" =>
       \/ t.rows[b].status = "filled"
       \/ \A m \in DOMAIN s.rows :
            m # b /\ Waits(t.rows[m]) /\ s.rows[m].side # s.rows[b].side =>
              ~Crosses(t.rows[b], t.rows[m])

LEMMA TriggerStep ==
  ASSUME OrderAssumption, NEW s, NEW b, TableOK(s.rows, s.executions),
         b \in DOMAIN s.rows, s.rows[b].status \in LiveStatuses,
         s.rows[b].type \in {"STOP", "STOP_LIMIT"}, s.rows[b].remaining > 0,
         NEW t, t = Trigger(s, b), ~t.failed
  PROVE  TriggerMakes(s, b, t)
<1>1. PICK rows : rows = Activated(s.rows, b)
  OBVIOUS
<1>2. /\ t.rows = MatchedOrders(rows, b)
      /\ t.executions = s.executions \union MatchedExecutions(rows, b)
      /\ ~Panics(Book(rows, b))
  BY <1>1 DEF Trigger
<1>3. /\ DOMAIN rows = DOMAIN s.rows
      /\ rows[b] = [s.rows[b] EXCEPT !.type = ActivatedOrderType(s.rows[b].type),
                                     !.version = NextVersion(s.rows[b])]
      /\ \A x \in DOMAIN s.rows : x # b => rows[x] = s.rows[x]
  BY <1>1 DEF Activated
<1>4. \A x \in DOMAIN s.rows : RowOK(s.rows[x]) /\ s.rows[x] \in Order
  BY DEF TableOK, RowOK
<1>5. /\ Rewritten(s.rows[b], rows[b]) /\ Moved(s.rows[b], rows[b])
      /\ rows[b].status = s.rows[b].status /\ rows[b].remaining = s.rows[b].remaining
      /\ rows[b].type = ActivatedOrderType(s.rows[b].type)
      /\ rows[b].side = s.rows[b].side /\ rows[b].limit = s.rows[b].limit
      /\ rows[b].tif = s.rows[b].tif
  BY <1>3, <1>4, ActivatedRow
<1>6. TableOK(rows, s.executions)
  <2>1. \A x \in DOMAIN s.rows : rows[x] = s.rows[x] \/ Rewritten(s.rows[x], rows[x])
    BY <1>3, <1>5
  <2> QED
    BY <1>3, <2>1, RewriteKeepsTable
<1>7. b \in DOMAIN rows /\ rows[b].status \in LiveStatuses
  BY <1>3, <1>5
<1>8. TableOK(t.rows, t.executions)
  BY <1>2, <1>6, <1>7, MatchKeepsTable
<1>9. \A x \in DOMAIN rows : t.rows[x] = rows[x] \/ Moved(rows[x], t.rows[x])
  <2>1. \A x \in DOMAIN rows : Shaped(rows[x])
    BY <1>6, OrderShaped DEF TableOK, RowOK
  <2> QED
    BY <1>2, <1>7, <2>1, MatchedOrdersMove
<1>10. PICK matched : matched = Match(rows[b], Book(rows, b))
  OBVIOUS
<1> DEFINE R == Resting(rows, b)
<1>11. /\ DOMAIN t.rows = DOMAIN rows
       /\ \A x \in DOMAIN rows :
            /\ SameTerms(rows[x], t.rows[x])
            /\ x # b /\ x \notin R => t.rows[x] = rows[x]
       /\ \A m \in R : t.rows[m].remaining = rows[m].remaining - matched.fills[m]
       /\ ~matched.cancelled /\ matched.left = 0 /\ rows[b].remaining > 0 =>
            t.rows[b].status = "filled"
  BY <1>2, <1>6, <1>7, <1>10, MatchedRows
<1>12. \A m \in DOMAIN s.rows : m # b =>
         (m \in R <=> Waits(s.rows[m]) /\ s.rows[m].side # s.rows[b].side)
  BY <1>3, <1>5 DEF Resting, Waits
<1>13. \A m \in R : m # b /\ m \in DOMAIN s.rows
  BY <1>3 DEF Resting
<1>14. ASSUME NEW x \in DOMAIN s.rows
       PROVE  /\ x # b => \/ t.rows[x] = s.rows[x]
                          \/ Waits(s.rows[x]) /\ SameTerms(s.rows[x], t.rows[x])
              /\ t.rows[x] = s.rows[x] \/ Moved(s.rows[x], t.rows[x])
  <2>1. CASE x # b
    BY <1>3, <1>9, <1>11, <1>12, <2>1
  <2>2. CASE x = b
    <3>1. Shaped(s.rows[b])
      BY <1>4, OrderShaped
    <3>2. t.rows[b] = rows[b] \/ Moved(rows[b], t.rows[b])
      BY <1>7, <1>9
    <3>3. s.rows[b] = t.rows[b] \/ Moved(s.rows[b], t.rows[b])
      BY <1>5, <3>1, <3>2, MovedTwice
    <3> QED
      BY <2>2, <3>3
  <2> QED
    BY <2>1, <2>2
<1>15. ASSUME NEW S \in SUBSET DOMAIN s.rows, Uncrossed(s.rows, S)
       PROVE  Uncrossed(t.rows, S)
  <2>1. Uncrossed(rows, S \ {b})
    BY <1>3, <1>15 DEF Uncrossed
  <2>2. S \in SUBSET DOMAIN rows
    BY <1>3
  <2> QED
    BY <1>2, <1>6, <1>7, <2>1, <2>2, MatchedUncrossed
<1>16. ASSUME NEW e \in t.executions \ s.executions
       PROVE  /\ e.taker = b /\ e.maker \in DOMAIN s.rows /\ e.maker # b
              /\ Waits(s.rows[e.maker]) /\ s.rows[e.maker].side # s.rows[b].side
  <2>1. e \in MatchedExecutions(rows, b)
    BY <1>2
  <2>2. e.taker = b /\ e.maker \in R
    BY <1>2, <1>6, <1>7, <2>1, MatchedServes
  <2> QED
    BY <1>3, <1>12, <1>13, <2>2
<1>17. ASSUME s.rows[b].tif # "FOK"
       PROVE  \/ t.rows[b].status = "filled"
              \/ \A m \in DOMAIN s.rows :
                   m # b /\ Waits(t.rows[m]) /\ s.rows[m].side # s.rows[b].side =>
                     ~Crosses(t.rows[b], t.rows[m])
  <2>1. PICK k : k = Book(rows, b)
    OBVIOUS
  <2>2. /\ WellFormed(rows[b], k) /\ DOMAIN k = R /\ matched = Match(rows[b], k)
        /\ \A m \in R : k[m] = rows[m]
    BY <1>2, <1>6, <1>7, <1>10, <2>1, BookWellFormed
  <2>3. /\ matched.left \in Nat
        /\ matched.left > 0 /\ (rows[b].tif = "FOK" => ~matched.cancelled) =>
             \A m \in Takers(rows[b], k) : matched.fills[m] = k[m].remaining
        /\ rows[b].tif # "FOK" /\ matched.left = 0 => ~matched.cancelled
    BY <2>2, MatchFacts
  <2>4. CASE matched.left = 0
    BY <1>5, <1>11, <1>17, <2>3, <2>4
  <2>5. CASE matched.left > 0
    <3> SUFFICES ASSUME NEW m \in DOMAIN s.rows, m # b, Waits(t.rows[m]),
                        s.rows[m].side # s.rows[b].side, Crosses(t.rows[b], t.rows[m])
                 PROVE  FALSE
      OBVIOUS
    <3>1. m \in R
      BY <1>12, <1>14
    <3>2. Crosses(rows[b], rows[m])
      BY <1>3, <1>7, <1>11 DEF Crosses, SameTerms
    <3>3. matched.fills[m] = rows[m].remaining
      BY <1>5, <1>17, <2>2, <2>3, <2>5, <3>1, <3>2 DEF Takers
    <3>4. t.rows[m].remaining = 0
      <4>1. rows[m].remaining \in Nat
        BY <1>3, <1>4, <3>1 DEF Order
      <4> QED
        BY <1>11, <3>1, <3>3, <4>1
    <3> QED
      BY <3>4 DEF Waits
  <2> QED
    BY <2>3, <2>4, <2>5
<1> QED
  BY <1>2, <1>3, <1>5, <1>7, <1>8, <1>11, <1>14, <1>15, <1>16, <1>17 DEF SameTerms, TriggerMakes


-----------------------------------------------------------------------------
(***************************************************************************)
(* The batch                                                               *)
(***************************************************************************)

\* The loop over the batch goes from order to order.
LEMMA TriggersGo ==
  ASSUME NEW batch, Len(batch) \in Nat, NEW after, after = AfterTriggers(batch)
  PROVE  /\ after[0] = [rows |-> orders, executions |-> executions, failed |-> FALSE]
         /\ \A n \in 1 .. Len(batch) : after[n] = Trigger(after[n - 1], batch[n])
<1> DEFINE N == Len(batch)
           base == [rows |-> orders, executions |-> executions, failed |-> FALSE]
           Upto(k, f) == f = [n \in 0 .. k |-> IF n = 0 THEN base
                                               ELSE Trigger(f[n - 1], batch[n])]
           T == {k \in Nat : \E f : Upto(k, f)}
<1>1. after = CHOOSE f : Upto(N, f)
  BY DEF AfterTriggers
<1> HIDE DEF base, N
<1>2. 0 \in T
  <2> DEFINE h == [n \in 0 .. 0 |-> base]
  <2>1. Upto(0, h)
    OBVIOUS
  <2> HIDE DEF h, Upto
  <2>2. \E f : Upto(0, f)
    BY <2>1
  <2> QED
    BY <2>2
<1>3. ASSUME NEW k \in T PROVE k + 1 \in T
  <2>1. k \in Nat
    OBVIOUS
  <2>2. PICK f : Upto(k, f)
    OBVIOUS
  <2> DEFINE h == [n \in 0 .. (k + 1) |-> IF n <= k THEN f[n]
                                          ELSE Trigger(f[k], batch[k + 1])]
  <2>3. ASSUME NEW n \in 0 .. (k + 1)
        PROVE  h[n] = IF n = 0 THEN base ELSE Trigger(h[n - 1], batch[n])
    <3>1. CASE n = 0
      BY <2>1, <2>2, <3>1
    <3>2. CASE n # 0 /\ n <= k
      <4>1. n - 1 \in 0 .. (k + 1) /\ n - 1 <= k /\ n \in 0 .. k
        BY <2>1, <3>2
      <4>2. h[n] = f[n] /\ h[n - 1] = f[n - 1]
        BY <3>2, <4>1
      <4>3. f[n] = Trigger(f[n - 1], batch[n])
        BY <2>2, <3>2, <4>1
      <4> QED
        BY <3>2, <4>2, <4>3
    <3>3. CASE n = k + 1
      <4>1. n - 1 = k /\ k \in 0 .. (k + 1) /\ n # 0 /\ ~(n <= k)
        BY <2>1, <3>3
      <4>2. h[n] = Trigger(f[k], batch[k + 1]) /\ h[k] = f[k]
        BY <2>1, <4>1
      <4> QED
        BY <3>3, <4>1, <4>2
    <3> QED
      BY <2>1, <3>1, <3>2, <3>3
  <2>4. h = [n \in 0 .. (k + 1) |-> h[n]]
    OBVIOUS
  <2> HIDE DEF h
  <2>5. Upto(k + 1, h)
    BY <2>3, <2>4
  <2> HIDE DEF Upto
  <2>6. \E f_1 : Upto(k + 1, f_1)
    BY <2>5
  <2> QED
    BY <2>1, <2>6
<1> HIDE DEF T, Upto
<1>4. T = Nat
  <2>1. T \in SUBSET Nat
    BY DEF T
  <2> QED
    BY <1>2, <1>3, <2>1, NumberInduction
<1>5. N \in Nat
  BY DEF N
<1>6. Upto(N, after)
  <2>1. \E f : Upto(N, f)
    BY <1>4, <1>5 DEF T
  <2> QED
    BY <1>1, <2>1
<1>7. after[0] = base /\ \A n \in 1 .. N : after[n] = Trigger(after[n - 1], batch[n])
  BY <1>5, <1>6 DEF Upto
<1> QED
  BY <1>7 DEF N, base

\* The batch holds every order of S once, the older before the younger.
LEMMA BatchInOrder ==
  ASSUME NEW S \in SUBSET Nat, IsFiniteSet(S), NEW batch, batch = InCreationOrder(S)
  PROVE  /\ Len(batch) \in Nat
         /\ \A i \in 1 .. Len(batch) : batch[i] \in S
         /\ \A o \in S : \E i \in 1 .. Len(batch) : batch[i] = o
         /\ \A i, j \in 1 .. Len(batch) : i < j => batch[i] < batch[j]
<1> DEFINE R == {r \in S \X S : r[1] < r[2]}
<1>1. \A o, p \in S : <<p, o>> \in R <=> p < o
  OBVIOUS
<1>2. R \subseteq S \X S
  OBVIOUS
<1>3. \A o \in S : o \in Nat
  OBVIOUS
<1> HIDE DEF R
<1>4. Ranks(R, S)
  BY <1>1, <1>2, <1>3 DEF Ranks
<1>5. \A o \in S : {p \in S : <<p, o>> \in R} = {p \in S : p < o}
  BY <1>1
<1>6. batch = Listed(R, S)
  <2>0. batch = [i \in 1 .. Cardinality(S) |->
                   CHOOSE o \in S : Cardinality({p \in S : p < o}) = i - 1]
    BY DEF InCreationOrder
  <2>1. \A i \in 1 .. Cardinality(S) :
          (CHOOSE o \in S : Cardinality({p \in S : p < o}) = i - 1) =
          (CHOOSE o \in S : Cardinality({p \in S : <<p, o>> \in R}) = i - 1)
    BY <1>5
  <2> QED
    BY <2>0, <2>1 DEF Listed
<1>7. /\ Cardinality(S) \in Nat
      /\ batch \in [1 .. Cardinality(S) -> S]
      /\ \A o \in S : \E i \in 1 .. Cardinality(S) : batch[i] = o
      /\ \A i, j \in 1 .. Cardinality(S) : i < j => <<batch[i], batch[j]>> \in R
  BY <1>4, <1>6, ListedInOrder
<1>8. Len(batch) = Cardinality(S)
  BY <1>7
<1>9. \A i \in 1 .. Cardinality(S) : batch[i] \in S
  BY <1>7
<1> QED
  BY <1>1, <1>7, <1>8, <1>9


\* A batch of pending stop orders in the order of their creation.
Batched(batch) ==
  /\ Len(batch) \in Nat
  /\ \A i \in 1 .. Len(batch) :
       /\ batch[i] \in DOMAIN orders /\ batch[i] \in Nat
       /\ orders[batch[i]].status \in LiveStatuses
       /\ orders[batch[i]].type \in {"STOP", "STOP_LIMIT"}
       /\ orders[batch[i]].remaining > 0
  /\ \A i, j \in 1 .. Len(batch) : i < j => batch[i] < batch[j]

\* Order o cannot trade any more with those of the rows that o could meet: all
\* but the orders that the batch triggers after it.
Spent(rows, batch, o) ==
  \/ rows[o].status = "filled"
  \/ \A m \in DOMAIN rows :
       /\ m # o /\ Waits(rows[m]) /\ rows[m].side # rows[o].side
       /\ m \in First(batch, Len(batch)) => m < o
       => ~Crosses(rows[o], rows[m])

\* What the first n orders of the batch make of the rows: none of them jumps
\* the book or an older one, and the orders that come after are as they were.
RowsMoved(rows, batch, n) ==
  /\ DOMAIN rows = DOMAIN orders
  /\ \A x \in DOMAIN orders :
       /\ rows[x] = orders[x] \/ Moved(orders[x], rows[x])
       /\ rows[x].side = orders[x].side /\ rows[x].tif = orders[x].tif
       /\ rows[x].type = IF x \in First(batch, n) THEN ActivatedOrderType(orders[x].type)
                                                  ELSE orders[x].type
  /\ \A i \in (n + 1) .. Len(batch) : rows[batch[i]] = orders[batch[i]]

\* The executions of the first n orders: those of a younger one come after the
\* older ones that could have had them are filled.
TradesMade(rows, trades, batch, n) ==
  /\ executions \subseteq trades
  /\ \A e \in trades \ executions :
       /\ e.taker \in First(batch, n)
       /\ e.maker \in DOMAIN rows /\ rows[e.maker].status \in OnceAccepted
       /\ \A o \in First(batch, n) :
            /\ o < e.taker /\ rows[o].side = rows[e.taker].side /\ rows[o].tif # "FOK"
            /\ Crosses(rows[o], rows[e.maker])
            /\ e.maker \in First(batch, Len(batch)) => e.maker < o
            => rows[o].status = "filled"

\* Where the batch is after its first n orders.
Progress(s, batch, n) ==
  /\ TableOK(s.rows, s.executions)
  /\ Uncrossed(s.rows, (DOMAIN orders) \ amended)
  /\ RowsMoved(s.rows, batch, n)
  /\ TradesMade(s.rows, s.executions, batch, n)
  /\ \A o \in First(batch, n) : s.rows[o].tif # "FOK" => Spent(s.rows, batch, o)

LEMMA ProgressStart ==
  ASSUME TablesInv, NEW batch, Batched(batch), NEW s,
         s = [rows |-> orders, executions |-> executions, failed |-> FALSE]
  PROVE  Progress(s, batch, 0)
<1>1. s.rows = orders /\ s.executions = executions
  OBVIOUS
<1>2. First(batch, 0) = {}
  BY DEF First
<1>3. Uncrossed(orders, (DOMAIN orders) \ amended)
  BY CrossedMeans DEF TablesInv
<1>4. RowsMoved(orders, batch, 0)
  BY <1>2 DEF RowsMoved
<1>5. TradesMade(orders, executions, batch, 0)
  BY <1>2 DEF TradesMade
<1> QED
  BY <1>1, <1>2, <1>3, <1>4, <1>5 DEF Progress, TablesInv

LEMMA FirstNext ==
  ASSUME NEW batch, Batched(batch), NEW n \in 1 .. Len(batch)
  PROVE  /\ First(batch, n) = First(batch, n - 1) \union {batch[n]}
         /\ \A o \in First(batch, n - 1) : o < batch[n]
         /\ \A i \in (n + 1) .. Len(batch) : batch[i] # batch[n] /\ batch[i] \notin First(batch, n)
         /\ batch[n] \in First(batch, Len(batch))
         /\ \A o \in First(batch, Len(batch)) : o \in DOMAIN orders /\ o \in Nat
         /\ \A o \in First(batch, n) : o \in First(batch, Len(batch))
<1>1. /\ Len(batch) \in Nat
      /\ \A i \in 1 .. Len(batch) : batch[i] \in DOMAIN orders /\ batch[i] \in Nat
      /\ \A i, j \in 1 .. Len(batch) : i < j => batch[i] < batch[j]
  BY DEF Batched
<1>2. n - 1 \in Nat /\ n \in Nat /\ 1 .. n = 1 .. (n - 1) \union {n}
  BY <1>1
<1>3. First(batch, n) = First(batch, n - 1) \union {batch[n]}
  BY <1>2 DEF First
<1>4. \A o \in First(batch, n - 1) : o < batch[n]
  BY <1>1, <1>2 DEF First
<1>5. ASSUME NEW i \in (n + 1) .. Len(batch)
      PROVE  batch[i] # batch[n] /\ batch[i] \notin First(batch, n)
  <2>1. i \in 1 .. Len(batch)
    BY <1>1
  <2>2. \A j \in 1 .. n : batch[j] < batch[i] /\ batch[j] \in Nat /\ batch[i] \in Nat
    BY <1>1, <2>1
  <2>3. \A j \in 1 .. n : batch[j] # batch[i]
    BY <2>2
  <2> QED
    BY <1>2, <2>3 DEF First
<1>6. batch[n] \in First(batch, Len(batch))
  BY DEF First
<1>7. \A o \in First(batch, n) : o \in First(batch, Len(batch))
  BY <1>1 DEF First
<1> QED
  BY <1>1, <1>3, <1>4, <1>5, <1>6, <1>7 DEF First


LEMMA RowsMovedOn ==
  ASSUME NEW batch, Batched(batch), NEW n \in 1 .. Len(batch), NEW s, NEW t,
         RowsMoved(s.rows, batch, n - 1), TableOK(s.rows, s.executions),
         RowsShaped, TriggerMakes(s, batch[n], t)
  PROVE  RowsMoved(t.rows, batch, n)
<1>1. PICK b : b = batch[n]
  OBVIOUS
<1>2. /\ b \in DOMAIN orders /\ orders[b].type \in {"STOP", "STOP_LIMIT"}
      /\ \A i \in (n + 1) .. Len(batch) : /\ batch[i] \in DOMAIN orders /\ batch[i] # b
                                          /\ orders[batch[i]].type \in {"STOP", "STOP_LIMIT"}
      /\ Len(batch) \in Nat
  <2>1. Len(batch) \in Nat
    BY DEF Batched
  <2>2. \A i \in (n + 1) .. Len(batch) : i \in 1 .. Len(batch)
    BY <2>1
  <2>3. \A i \in (n + 1) .. Len(batch) : batch[i] # b
    BY <1>1, FirstNext
  <2> QED
    BY <1>1, <2>1, <2>2, <2>3 DEF Batched
<1>3. /\ DOMAIN s.rows = DOMAIN orders
      /\ \A x \in DOMAIN orders :
           /\ s.rows[x] = orders[x] \/ Moved(orders[x], s.rows[x])
           /\ s.rows[x].side = orders[x].side /\ s.rows[x].tif = orders[x].tif
           /\ s.rows[x].type = IF x \in First(batch, n - 1)
                               THEN ActivatedOrderType(orders[x].type) ELSE orders[x].type
      /\ \A i \in n .. Len(batch) : s.rows[batch[i]] = orders[batch[i]]
  <2>1. (n - 1) + 1 = n
    OBVIOUS
  <2> QED
    BY <2>1 DEF RowsMoved
<1>4. /\ DOMAIN t.rows = DOMAIN orders
      /\ \A x \in DOMAIN orders :
           /\ x # b => \/ t.rows[x] = s.rows[x]
                       \/ Waits(s.rows[x]) /\ SameTerms(s.rows[x], t.rows[x])
           /\ t.rows[x] = s.rows[x] \/ Moved(s.rows[x], t.rows[x])
      /\ t.rows[b].side = s.rows[b].side /\ t.rows[b].tif = s.rows[b].tif
      /\ t.rows[b].type = ActivatedOrderType(s.rows[b].type)
  BY <1>1, <1>3 DEF TriggerMakes
<1>5. ASSUME NEW x \in DOMAIN orders
      PROVE  t.rows[x] = orders[x] \/ Moved(orders[x], t.rows[x])
  <2>1. Shaped(orders[x])
    BY DEF RowsShaped
  <2>2. orders[x] = s.rows[x] \/ Moved(orders[x], s.rows[x])
    BY <1>3
  <2>3. s.rows[x] = t.rows[x] \/ Moved(s.rows[x], t.rows[x])
    BY <1>4
  <2>4. orders[x] = t.rows[x] \/ Moved(orders[x], t.rows[x])
    BY <2>1, <2>2, <2>3, MovedTwice
  <2> QED
    BY <2>4
<1>6. \A x \in DOMAIN orders : t.rows[x].side = orders[x].side /\ t.rows[x].tif = orders[x].tif
  BY <1>3, <1>4 DEF SameTerms
<1>7. ASSUME NEW x \in DOMAIN orders
      PROVE  t.rows[x].type = IF x \in First(batch, n) THEN ActivatedOrderType(orders[x].type)
                                                       ELSE orders[x].type
  <2>1. First(batch, n) = First(batch, n - 1) \union {b}
    BY <1>1, FirstNext
  <2>2. CASE x # b
    BY <1>3, <1>4, <2>1, <2>2 DEF SameTerms
  <2>3. CASE x = b
    <3>1. s.rows[b] = orders[b]
      BY <1>1, <1>2, <1>3
    <3> QED
      BY <1>4, <2>1, <2>3, <3>1
  <2> QED
    BY <2>2, <2>3
<1>8. ASSUME NEW i \in (n + 1) .. Len(batch) PROVE t.rows[batch[i]] = orders[batch[i]]
  <2>1. s.rows[batch[i]] = orders[batch[i]]
    BY <1>2, <1>3
  <2>2. ~Waits(s.rows[batch[i]])
    BY <1>2, <2>1 DEF Waits
  <2> QED
    BY <1>2, <1>4, <2>1, <2>2
<1> QED
  BY <1>4, <1>5, <1>6, <1>7, <1>8 DEF RowsMoved

\* What is spent stays so.
LEMMA StaysSpent ==
  ASSUME NEW batch, Batched(batch), NEW n \in 1 .. Len(batch), NEW s, NEW t,
         RowsMoved(s.rows, batch, n - 1), TriggerMakes(s, batch[n], t),
         NEW o \in First(batch, n), t.rows[o].tif # "FOK",
         o \in First(batch, n - 1) => Spent(s.rows, batch, o)
  PROVE  Spent(t.rows, batch, o)
<1>1. PICK b : b = batch[n]
  OBVIOUS
<1>2. /\ First(batch, n) = First(batch, n - 1) \union {b}
      /\ \A x \in First(batch, n - 1) : x < b
      /\ b \in First(batch, Len(batch)) /\ b \in Nat /\ o \in Nat
      /\ o \in DOMAIN orders
  BY <1>1, FirstNext
<1>3. /\ DOMAIN s.rows = DOMAIN orders /\ DOMAIN t.rows = DOMAIN orders
      /\ \A x \in DOMAIN orders :
           x # b => \/ t.rows[x] = s.rows[x]
                    \/ Waits(s.rows[x]) /\ SameTerms(s.rows[x], t.rows[x])
      /\ t.rows[b].side = s.rows[b].side
      /\ t.rows[b].tif = s.rows[b].tif
      /\ s.rows[b].tif # "FOK" =>
           \/ t.rows[b].status = "filled"
           \/ \A m \in DOMAIN s.rows :
                m # b /\ Waits(t.rows[m]) /\ s.rows[m].side # s.rows[b].side =>
                  ~Crosses(t.rows[b], t.rows[m])
  BY <1>1 DEF TriggerMakes, RowsMoved
<1>4. \A x \in DOMAIN orders : t.rows[x].side = s.rows[x].side
  BY <1>3 DEF SameTerms
<1>5. CASE o = b
  BY <1>3, <1>4, <1>5 DEF Spent
<1>6. CASE o # b
  <2>1. o \in First(batch, n - 1) /\ o < b /\ Spent(s.rows, batch, o)
    BY <1>2, <1>6
  <2>2. CASE s.rows[o].status = "filled"
    BY <1>2, <1>3, <1>6, <2>2 DEF Waits, LiveStatuses, Spent
  <2>3. ASSUME s.rows[o].status # "filled", NEW m \in DOMAIN orders,
               m # o, Waits(t.rows[m]), t.rows[m].side # t.rows[o].side,
               m \in First(batch, Len(batch)) => m < o
        PROVE  ~Crosses(t.rows[o], t.rows[m])
    <3>1. m # b
      BY <1>2, <2>1, <2>3
    <3>2. Waits(s.rows[m]) /\ t.rows[m].limit = s.rows[m].limit
      BY <1>3, <2>3, <3>1 DEF SameTerms
    <3>3. /\ t.rows[o].type = s.rows[o].type /\ t.rows[o].limit = s.rows[o].limit
          /\ t.rows[o].side = s.rows[o].side
      BY <1>2, <1>3, <1>6 DEF SameTerms
    <3>4. ~Crosses(s.rows[o], s.rows[m])
      BY <1>3, <1>4, <2>1, <2>3, <3>2, <3>3 DEF Spent
    <3> QED
      BY <3>2, <3>3, <3>4 DEF Crosses
  <2> QED
    BY <1>3, <2>2, <2>3 DEF Spent
<1> QED
  BY <1>5, <1>6


LEMMA TradesMadeOn ==
  ASSUME NEW batch, Batched(batch), NEW n \in 1 .. Len(batch), NEW s, NEW t,
         Progress(s, batch, n - 1), TriggerMakes(s, batch[n], t)
  PROVE  TradesMade(t.rows, t.executions, batch, n)
<1>1. PICK b : b = batch[n]
  OBVIOUS
<1>2. /\ First(batch, n) = First(batch, n - 1) \union {b}
      /\ \A x \in First(batch, n - 1) : x < b
      /\ b \in Nat
      /\ \A x \in First(batch, n) : x \in DOMAIN orders /\ x \in Nat
  BY <1>1, FirstNext
<1>3. /\ DOMAIN s.rows = DOMAIN orders /\ DOMAIN t.rows = DOMAIN orders
      /\ \A x \in DOMAIN orders :
           x # b => \/ t.rows[x] = s.rows[x]
                    \/ Waits(s.rows[x]) /\ SameTerms(s.rows[x], t.rows[x])
      /\ t.rows[b].side = s.rows[b].side /\ t.rows[b].limit = s.rows[b].limit
      /\ s.executions \subseteq t.executions
      /\ \A e \in t.executions \ s.executions :
           /\ e.taker = b /\ e.maker \in DOMAIN s.rows
           /\ Waits(s.rows[e.maker]) /\ s.rows[e.maker].side # s.rows[b].side
  BY <1>1 DEF TriggerMakes, Progress, RowsMoved
<1>4. \A x \in DOMAIN orders : t.rows[x].side = s.rows[x].side
  BY <1>3 DEF SameTerms
<1>5. /\ executions \subseteq s.executions
      /\ \A e \in s.executions \ executions :
           /\ e.taker \in First(batch, n - 1)
           /\ e.maker \in DOMAIN s.rows /\ s.rows[e.maker].status \in OnceAccepted
           /\ \A o \in First(batch, n - 1) :
                /\ o < e.taker /\ s.rows[o].side = s.rows[e.taker].side
                /\ s.rows[o].tif # "FOK"
                /\ Crosses(s.rows[o], s.rows[e.maker])
                /\ e.maker \in First(batch, Len(batch)) => e.maker < o
                => s.rows[o].status = "filled"
      /\ \A o \in First(batch, n - 1) : s.rows[o].tif # "FOK" => Spent(s.rows, batch, o)
  BY DEF Progress, TradesMade
<1>6. ASSUME NEW o \in DOMAIN orders, o # b
      PROVE  /\ t.rows[o].tif = s.rows[o].tif
             /\ s.rows[o].status = "filled" => t.rows[o].status = "filled"
             /\ \A k : Crosses(t.rows[o], k) => Crosses(s.rows[o], k)
  BY <1>3, <1>6 DEF SameTerms, Waits, LiveStatuses, Crosses
<1>7. ASSUME NEW e \in t.executions \ executions
      PROVE  /\ e.taker \in First(batch, n)
             /\ e.maker \in DOMAIN t.rows /\ t.rows[e.maker].status \in OnceAccepted
  <2>1. e.taker \in First(batch, n) /\ e.maker \in DOMAIN s.rows
    BY <1>2, <1>3, <1>5
  <2>2. s.rows[e.maker].status \in OnceAccepted
    BY <1>3, <1>5, <1>7 DEF Waits, OnceAccepted
  <2>3. t.rows[e.maker] = s.rows[e.maker] \/ Moved(s.rows[e.maker], t.rows[e.maker])
    BY <2>1 DEF TriggerMakes
  <2> QED
    BY <1>3, <2>1, <2>2, <2>3 DEF Moved
<1>8. ASSUME NEW e \in t.executions \ executions, NEW o \in First(batch, n),
             o < e.taker, t.rows[o].side = t.rows[e.taker].side, t.rows[o].tif # "FOK",
             Crosses(t.rows[o], t.rows[e.maker]),
             e.maker \in First(batch, Len(batch)) => e.maker < o
      PROVE  t.rows[o].status = "filled"
  <2>1. e.taker \in First(batch, n)
    BY <1>7
  <2>2. e.taker <= b /\ e.taker \in Nat /\ o \in Nat /\ o \in DOMAIN orders
        /\ e.taker \in DOMAIN orders
    BY <1>2, <2>1
  <2>3. o # b /\ o \in First(batch, n - 1)
    BY <1>2, <1>8, <2>2
  <2>4. /\ s.rows[o].side = s.rows[e.taker].side /\ s.rows[o].tif # "FOK"
        /\ Crosses(s.rows[o], s.rows[e.maker])
    <3>1. Crosses(s.rows[o], t.rows[e.maker])
      BY <1>6, <1>8, <2>2, <2>3
    <3>2. t.rows[e.maker].limit = s.rows[e.maker].limit
      BY <1>3, <1>7 DEF SameTerms
    <3> QED
      BY <1>4, <1>6, <1>8, <2>2, <2>3, <3>1, <3>2 DEF Crosses
  <2>5. CASE e \in s.executions
    BY <1>5, <1>6, <1>8, <2>2, <2>3, <2>4, <2>5
  <2>6. CASE e \notin s.executions
    <3>1. PICK m : m = e.maker
      OBVIOUS
    <3>2. /\ e.taker = b /\ m \in DOMAIN s.rows /\ Waits(s.rows[m])
          /\ s.rows[m].side # s.rows[b].side
      BY <1>3, <2>6, <3>1
    <3>3. m # o /\ s.rows[m].side # s.rows[o].side
      BY <2>4, <3>2
    <3>4. Crosses(s.rows[o], s.rows[m])
      BY <2>4, <3>1
    <3>5. s.rows[o].status = "filled"
      BY <1>5, <1>8, <2>3, <2>4, <3>1, <3>2, <3>3, <3>4 DEF Spent
    <3> QED
      BY <1>6, <2>2, <2>3, <3>5
  <2> QED
    BY <2>5, <2>6
<1>9. executions \subseteq t.executions
  BY <1>3, <1>5
<1> QED
  BY <1>7, <1>8, <1>9 DEF TradesMade

LEMMA ProgressNext ==
  ASSUME OrderAssumption, RowsShaped, NEW batch, Batched(batch),
         NEW n \in 1 .. Len(batch), NEW s,
         Progress(s, batch, n - 1), NEW t, t = Trigger(s, batch[n]), ~t.failed
  PROVE  Progress(t, batch, n)
<1>1. PICK b : b = batch[n]
  OBVIOUS
<1>2. /\ TableOK(s.rows, s.executions) /\ RowsMoved(s.rows, batch, n - 1)
      /\ Uncrossed(s.rows, (DOMAIN orders) \ amended)
      /\ \A o \in First(batch, n - 1) : s.rows[o].tif # "FOK" => Spent(s.rows, batch, o)
  BY DEF Progress
<1>3. /\ b \in DOMAIN s.rows /\ s.rows[b].status \in LiveStatuses
      /\ s.rows[b].type \in {"STOP", "STOP_LIMIT"} /\ s.rows[b].remaining > 0
  <2>1. n \in (n - 1) + 1 .. Len(batch)
    OBVIOUS
  <2>2. s.rows[b] = orders[b] /\ DOMAIN s.rows = DOMAIN orders
    BY <1>1, <1>2, <2>1 DEF RowsMoved
  <2> QED
    BY <1>1, <2>2 DEF Batched
<1>4. TriggerMakes(s, b, t)
  BY <1>1, <1>2, <1>3, TriggerStep
<1>5. RowsMoved(t.rows, batch, n)
  BY <1>1, <1>2, <1>4, RowsMovedOn
<1>6. TradesMade(t.rows, t.executions, batch, n)
  BY <1>1, <1>4, TradesMadeOn
<1>7. ASSUME NEW o \in First(batch, n), t.rows[o].tif # "FOK"
      PROVE  Spent(t.rows, batch, o)
  <2>1. o \in First(batch, n - 1) => s.rows[o].tif # "FOK"
    <3>1. o \in DOMAIN orders
      BY FirstNext
    <3> QED
      BY <1>2, <1>5, <1>7, <3>1 DEF RowsMoved
  <2> QED
    BY <1>1, <1>2, <1>4, <1>7, <2>1, StaysSpent
<1>8. TableOK(t.rows, t.executions) /\ Uncrossed(t.rows, (DOMAIN orders) \ amended)
  <2>1. (DOMAIN orders) \ amended \in SUBSET DOMAIN s.rows
    BY <1>2 DEF RowsMoved
  <2> QED
    BY <1>2, <1>4, <2>1 DEF TriggerMakes
<1> QED
  BY <1>5, <1>6, <1>7, <1>8 DEF Progress

\* What the whole batch makes of the tables, if no match fails.
LEMMA BatchProgress ==
  ASSUME OrderAssumption, OrdersInv, TablesInv, NEW batch, Batched(batch),
         NEW after, after = AfterTriggers(batch), ~after[Len(batch)].failed
  PROVE  Progress(after[Len(batch)], batch, Len(batch))
<1>1. PICK N : N = Len(batch)
  OBVIOUS
<1>2. N \in Nat /\ RowsShaped
  BY <1>1 DEF Batched, OrdersInv
<1>3. /\ after[0] = [rows |-> orders, executions |-> executions, failed |-> FALSE]
      /\ \A n \in 1 .. N : after[n] = Trigger(after[n - 1], batch[n])
  BY <1>1, <1>2, TriggersGo
<1>4. ASSUME NEW n \in 1 .. N, ~after[n].failed PROVE ~after[n - 1].failed
  <2>1. PICK b, s : /\ b = batch[n] /\ s = after[n - 1] /\ after[n] = Trigger(s, b)
    BY <1>3
  <2>2. PICK failed : failed = (\/ Panics(Book(Activated(s.rows, b), b))
                                \/ ~Storable(Activated(s.rows, b), b))
    OBVIOUS
  <2>3. after[n].failed = (s.failed \/ failed)
    BY <2>1, <2>2 DEF Trigger
  <2> QED
    BY <1>4, <2>1, <2>3
<1> DEFINE T == {n \in Nat : n <= N /\ ~after[n].failed => Progress(after[n], batch, n)}
<1>5. 0 \in T
  BY <1>3, ProgressStart
<1>6. ASSUME NEW n \in T PROVE n + 1 \in T
  <2> SUFFICES ASSUME n + 1 <= N, ~after[n + 1].failed
               PROVE  Progress(after[n + 1], batch, n + 1)
    OBVIOUS
  <2>1. n \in Nat /\ n <= N /\ n + 1 \in 1 .. N /\ (n + 1) - 1 = n
    BY <1>2
  <2>2. ~after[n].failed
    BY <1>4, <2>1
  <2>3. Progress(after[n], batch, (n + 1) - 1)
    BY <2>1, <2>2
  <2>4. after[n + 1] = Trigger(after[n], batch[n + 1])
    BY <1>3, <2>1
  <2>5. n + 1 \in 1 .. Len(batch)
    BY <1>1, <2>1
  <2> QED
    BY <1>2, <2>3, <2>4, <2>5, ProgressNext
<1> HIDE DEF T
<1>7. T = Nat
  <2>1. T \in SUBSET Nat
    BY DEF T
  <2> QED
    BY <1>5, <1>6, <2>1, NumberInduction
<1>8. Progress(after[N], batch, N)
  BY <1>1, <1>2, <1>7 DEF T
<1> QED
  BY <1>1, <1>8


-----------------------------------------------------------------------------
(***************************************************************************)
(* The step of the worker                                                  *)
(***************************************************************************)

\* The worker goes through pending stop orders, and through all that are due.
LEMMA TriggerableBatched ==
  ASSUME OrderAssumption, TablesInv, NEW skipped, NEW batch,
         batch = InCreationOrder(Triggerable(skipped))
  PROVE  /\ Batched(batch) /\ First(batch, Len(batch)) = Triggerable(skipped)
         /\ \A o \in Triggerable(skipped) :
              o \in DOMAIN orders /\ o \notin DOMAIN triggers /\ reference.fresh
<1>1. PICK S : S = Triggerable(skipped)
  OBVIOUS
<1>2. \A o \in S : /\ o \in DOMAIN orders /\ o \in Requests /\ orders[o].status \in LiveStatuses
                   /\ orders[o].type \in {"STOP", "STOP_LIMIT"} /\ orders[o].remaining > 0
                   /\ o \notin DOMAIN triggers /\ reference.fresh
  BY <1>1 DEF Triggerable, Batch, Candidates, Pending, Live
<1>3. S \in SUBSET Nat /\ IsFiniteSet(S)
  <2>1. S \in SUBSET DOMAIN orders
    BY <1>2
  <2>2. IsFiniteSet(DOMAIN orders)
    BY DEF TablesInv, TableOK
  <2>3. Requests \subseteq Nat
    BY DEF OrderAssumption
  <2> QED
    BY <1>2, <2>1, <2>2, <2>3, FS_Subset
<1>4. /\ Len(batch) \in Nat
      /\ \A i \in 1 .. Len(batch) : batch[i] \in S
      /\ \A o \in S : \E i \in 1 .. Len(batch) : batch[i] = o
      /\ \A i, j \in 1 .. Len(batch) : i < j => batch[i] < batch[j]
  BY <1>1, <1>3, BatchInOrder
<1>5. Batched(batch)
  BY <1>2, <1>3, <1>4 DEF Batched
<1>6. First(batch, Len(batch)) = S
  BY <1>4 DEF First
<1> QED
  BY <1>1, <1>2, <1>5, <1>6

\* What TriggerDueStopOrders leaves in the tables.
LEMMA TriggerDueMakes ==
  ASSUME OrderAssumption, OrdersInv, TablesInv, NEW skipped, TriggerDueStopOrders(skipped)
  PROVE  \E batch :
           /\ Batched(batch) /\ First(batch, Len(batch)) = Triggerable(skipped)
           /\ TableOK(orders', executions')
           /\ Uncrossed(orders', (DOMAIN orders) \ amended)
           /\ RowsMoved(orders', batch, Len(batch))
           /\ TradesMade(orders', executions', batch, Len(batch))
<1>1. PICK batch : batch = InCreationOrder(Triggerable(skipped))
  OBVIOUS
<1>2. PICK after : after = AfterTriggers(batch)
  OBVIOUS
<1>3. PICK s : s = after[Len(batch)]
  OBVIOUS
<1>4. Outcome(skipped) = s
  BY <1>1, <1>2, <1>3 DEF Outcome
<1>5. ~s.failed /\ orders' = s.rows /\ executions' = s.executions
  BY <1>4 DEF TriggerDueStopOrders, CanTrigger
<1>6. Batched(batch) /\ First(batch, Len(batch)) = Triggerable(skipped)
  BY <1>1, TriggerableBatched
<1>7. Progress(s, batch, Len(batch))
  BY <1>2, <1>3, <1>5, <1>6, BatchProgress
<1> QED
  BY <1>5, <1>6, <1>7 DEF Progress

LEMMA TriggerDueKeepsInv ==
  ASSUME OrderAssumption, OrdersInv, TablesInv, CallsTyped,
         NEW skipped, TriggerDueStopOrders(skipped)
  PROVE  OrdersInv' /\ TablesInv' /\ CallsTyped'
<1>1. PICK batch :
        /\ Batched(batch)
        /\ TableOK(orders', executions')
        /\ Uncrossed(orders', (DOMAIN orders) \ amended)
        /\ RowsMoved(orders', batch, Len(batch))
        /\ TradesMade(orders', executions', batch, Len(batch))
  BY TriggerDueMakes
<1>2. UNCHANGED <<expiry, keys, decisions, creates, amends, cancels, amended>>
  BY DEF TriggerDueStopOrders
<1>3. MovesBut({})
  BY <1>1 DEF RowsMoved, MovesBut
<1>4. DOMAIN orders' = DOMAIN orders
  BY <1>3 DEF MovesBut
<1>5. TablesInv'
  BY <1>1, <1>2, <1>4, CrossedMeans DEF TablesInv
<1>6. CallsTyped'
  BY <1>2 DEF CallsTyped
<1>7. ASSUME NEW e \in executions' \ executions
      PROVE  /\ e.taker \in DOMAIN orders' /\ orders'[e.taker].status \in OnceAccepted
             /\ e.maker \in DOMAIN orders' /\ orders'[e.maker].status \in OnceAccepted
  <2>1. /\ e.taker \in First(batch, Len(batch))
        /\ e.maker \in DOMAIN orders' /\ orders'[e.maker].status \in OnceAccepted
    BY <1>1 DEF TradesMade
  <2>2. e.taker \in DOMAIN orders /\ orders[e.taker].status \in OnceAccepted
    BY <1>1, <2>1 DEF Batched, First, OnceAccepted
  <2> QED
    BY <1>3, <1>4, <2>1, <2>2 DEF MovesBut, Moved
<1>8. OrdersInv'
  <2> USE DEF OrdersInv
  <2>1. CallsShaped'
    BY <1>2, <1>4 DEF CallsShaped, creates
  <2>2. RowsShaped'
    BY <1>3, ShapedPreserved
  <2>3. KeysNameOrders'
    BY <1>2, <1>4 DEF KeysNameOrders, creates
  <2>4. HandlersKnow'
    BY <1>2, <1>3, HandlersPreserved
  <2>5. GatedByStatus'
    BY <1>2, <1>3, <1>7, GatePreserved DEF Cleared
  <2>6. VersionsNameRows'
    BY <1>2, <1>3, <2>2, VersionsPreserved
  <2> QED
    BY <2>1, <2>2, <2>3, <2>4, <2>5, <2>6
<1> QED
  BY <1>5, <1>6, <1>8


\* Outside the worker, an order has for ever the type and the body it was
\* created with.
TypesStay ==
  /\ DOMAIN orders \subseteq DOMAIN orders'
  /\ \A o \in DOMAIN orders : orders'[o].type = orders[o].type /\ body'[o] = body[o]
  /\ \A o \in DOMAIN orders' \ DOMAIN orders : orders'[o].type = body'[o].type

LEMMA NextTypesStay ==
  ASSUME OrderAssumption, OrdersInv, TablesInv, CallsTyped, [Next]_vars
  PROVE  TypesStay
<1>0. /\ \A o \in DOMAIN orders : orders[o] \in Order
      /\ DOMAIN orders \subseteq Requests
      /\ body \in [Requests -> Bodies \union {NoBody}]
      /\ \A r \in Requests : pc[r] \in {"idle", "create"} => r \notin DOMAIN orders
  BY DEF TablesInv, TableOK, RowOK, OrdersInv, CallsShaped, HandlersKnow
<1>1. ASSUME UNCHANGED orders, \A o \in DOMAIN orders : body'[o] = body[o] PROVE TypesStay
  BY <1>1 DEF TypesStay
<1>2. ASSUME NEW rows, NEW o \in DOMAIN rows, TableOK(rows, executions),
             rows[o].status = "accepted", Accept(rows, o), NEW x \in DOMAIN rows
      PROVE  DOMAIN orders' = DOMAIN rows /\ orders'[x].type = rows[x].type
  <2>1. /\ ~Panics(Book(rows, o)) /\ orders' = MatchedOrders(rows, o)
        /\ rows[o].status \in LiveStatuses
    BY <1>2 DEF Accept, LiveStatuses
  <2> QED
    BY <1>2, <2>1, MatchedRows DEF SameTerms
<1>3. ASSUME NEW r \in Requests, CreateOrder(r) PROVE TypesStay
  <2>1. PICK rows : rows = Inserted(r)
    OBVIOUS
  <2>2. /\ TableOK(rows, executions) /\ r \notin DOMAIN orders
        /\ DOMAIN rows = DOMAIN orders \union {r}
        /\ \A x \in DOMAIN orders : rows[x] = orders[x]
    BY <1>3, <2>1, InsertedTable
  <2>3. rows[r].type = body[r].type
    BY <2>1 DEF Inserted, NewOrder
  <2>4. UNCHANGED body
    BY <1>3 DEF CreateOrder
  <2>5. DOMAIN orders' = DOMAIN rows /\ \A x \in DOMAIN rows : orders'[x].type = rows[x].type
    <3>1. CASE rows[r].status = "accepted"
      <4>1. Accept(rows, r)
        BY <1>3, <2>1, <3>1 DEF CreateOrder
      <4> QED
        BY <1>2, <2>2, <3>1, <4>1
    <3>2. CASE rows[r].status # "accepted"
      BY <1>3, <2>1, <3>2 DEF CreateOrder
    <3> QED
      BY <3>1, <3>2
  <2> QED
    BY <2>2, <2>3, <2>4, <2>5 DEF TypesStay
<1>4. ASSUME NEW r \in Requests, ApplyRiskDecision(r) PROVE TypesStay
  <2>1. r \in DOMAIN orders /\ orders[r].status = "risk_pending" /\ UNCHANGED body
    BY <1>4 DEF ApplyRiskDecision, OrdersInv, HandlersKnow
  <2>2. PICK decision \in {"APPROVED", "REJECTED", "ERROR"} :
          LET rows == [orders EXCEPT ![r] = Decided(orders[r], decision)]
          IN IF decision = "APPROVED" THEN Accept(rows, r) ELSE orders' = rows
    <3>1. PICK reply : LET d == Decision(orders[r], reply)
                           rows == [orders EXCEPT ![r] = Decided(@, d)]
                       IN IF d = "APPROVED" THEN Accept(rows, r)
                                            ELSE orders' = rows /\ UNCHANGED executions
      BY <1>4 DEF ApplyRiskDecision
    <3>2. Decision(orders[r], reply) \in {"APPROVED", "REJECTED", "ERROR"}
      BY DEF Decision
    <3> QED
      BY <3>1, <3>2
  <2>3. PICK rows : rows = [orders EXCEPT ![r] = Decided(orders[r], decision)]
    OBVIOUS
  <2>4. /\ TableOK(rows, executions) /\ DOMAIN rows = DOMAIN orders
        /\ \A x \in DOMAIN orders : x # r => rows[x] = orders[x]
        /\ rows[r].status = "accepted" <=> decision = "APPROVED"
    BY <2>1, <2>3, DecidedTable
  <2>5. rows[r].type = orders[r].type
    BY <1>0, <2>1, <2>3 DEF Decided, Order
  <2>6. DOMAIN orders' = DOMAIN rows /\ \A x \in DOMAIN rows : orders'[x].type = rows[x].type
    <3>1. CASE decision = "APPROVED"
      BY <1>2, <2>1, <2>2, <2>3, <2>4, <3>1
    <3>2. CASE decision # "APPROVED"
      BY <2>2, <2>3, <3>2
    <3> QED
      BY <3>1, <3>2
  <2> QED
    BY <2>1, <2>4, <2>5, <2>6 DEF TypesStay
<1>5. ASSUME NEW r \in Requests, FindIdempotency(r) PROVE TypesStay
  <2>1. UNCHANGED orders /\ r \notin DOMAIN orders
    BY <1>0, <1>5 DEF FindIdempotency, table
  <2>2. PICK b : body' = [body EXCEPT ![r] = b]
    BY <1>5 DEF FindIdempotency
  <2>3. \A o \in DOMAIN orders : body'[o] = body[o]
    BY <1>0, <2>1, <2>2
  <2> QED
    BY <1>1, <2>1, <2>3
<1>6. ASSUME NEW c \in Cancellers, CancelWrite(c) PROVE TypesStay
  BY <1>0, <1>6 DEF CancelWrite, Cancellable, Live, TypesStay, Order, creates
<1>7. ASSUME NEW a \in Amenders, AmendWrite(a) PROVE TypesStay
  <2>1. PICK o, change : /\ orders' = [orders EXCEPT ![o] = AmendedRow(orders[o], change)]
                         /\ UNCHANGED body
    BY <1>7 DEF AmendWrite, creates
  <2>2. DOMAIN orders' = DOMAIN orders
    BY <2>1
  <2>3. ASSUME NEW x \in DOMAIN orders PROVE orders'[x].type = orders[x].type
    <3>1. orders'[x] = orders[x] \/ orders'[x] = AmendedRow(orders[x], change)
      BY <2>1
    <3>2. AmendedRow(orders[x], change).type = orders[x].type
      BY <1>0 DEF AmendedRow, Order
    <3> QED
      BY <3>1, <3>2
  <2> QED
    BY <2>1, <2>2, <2>3 DEF TypesStay
<1>8. CASE ExpireDueBatch
  <2>1. PICK S : orders' = [o \in DOMAIN orders |->
                              IF o \in S
                              THEN [orders[o] EXCEPT !.status = "expired",
                                                     !.version = NextVersion(orders[o])]
                              ELSE orders[o]]
    BY <1>8 DEF ExpireDueBatch
  <2>2. UNCHANGED body
    BY <1>8 DEF ExpireDueBatch, creates
  <2>3. ASSUME NEW x \in DOMAIN orders PROVE orders'[x].type = orders[x].type
    BY <1>0, <2>1 DEF Order
  <2> QED
    BY <2>1, <2>2, <2>3 DEF TypesStay
<1>9. ASSUME \/ \E r \in Requests : CreateRefused(r) \/ Lose(r) \/ ExpiryPasses(r)
             \/ \E c \in Cancellers, o \in Requests : CancelRead(c, o)
             \/ \E a \in Amenders : AmendRefused(a) \/ \E o \in Requests : AmendRead(a, o)
             \/ UNCHANGED vars
      PROVE  TypesStay
  BY <1>1, <1>9 DEF CreateRefused, Lose, Fail, ExpiryPasses, CancelRead, AmendRefused, AmendRead,
                    vars, table, creates
<1> QED
  BY <1>3, <1>4, <1>5, <1>6, <1>7, <1>8, <1>9 DEF Next, Create


\* The reference price and what the worker has noted of it.
StopInv ==
  /\ reference \in ReferencePrice
  /\ reference.fresh => reference.price \in Prices
  /\ DOMAIN triggers \subseteq DOMAIN orders
  /\ \A o \in DOMAIN triggers : triggers[o] \in Prices
  /\ TypesFollowTriggers

AllInv == OrdersInv /\ TablesInv /\ CallsTyped /\ StopInv

LEMMA TriggerDueKeepsStopInv ==
  ASSUME OrderAssumption, OrdersInv, TablesInv, StopInv,
         NEW skipped, TriggerDueStopOrders(skipped)
  PROVE  StopInv'
<1>1. PICK batch :
        /\ Batched(batch) /\ First(batch, Len(batch)) = Triggerable(skipped)
        /\ RowsMoved(orders', batch, Len(batch))
  BY TriggerDueMakes
<1>2. PICK S : S = Triggerable(skipped)
  OBVIOUS
<1>3. /\ triggers' = [o \in DOMAIN triggers \union S |->
                        IF o \in S THEN reference.price ELSE triggers[o]]
      /\ UNCHANGED <<body, reference>> /\ S # {}
  BY <1>2 DEF TriggerDueStopOrders, CanTrigger, creates
<1>4. /\ \A o \in S : /\ o \in DOMAIN orders /\ o \notin DOMAIN triggers /\ reference.fresh
                      /\ orders[o].type \in {"STOP", "STOP_LIMIT"}
  BY <1>2 DEF Triggerable, Batch, Candidates, Pending, Live
<1>5. reference.price \in Prices
  BY <1>3, <1>4 DEF StopInv
<1>6. DOMAIN orders' = DOMAIN orders
      /\ \A x \in DOMAIN orders :
           orders'[x].type = IF x \in S THEN ActivatedOrderType(orders[x].type)
                                        ELSE orders[x].type
  BY <1>1, <1>2 DEF RowsMoved
<1>7. \A o \in DOMAIN orders :
        IF o \in DOMAIN triggers
        THEN <<body[o].type, orders[o].type>> \in {<<"STOP", "MARKET">>, <<"STOP_LIMIT", "LIMIT">>}
        ELSE orders[o].type = body[o].type
  BY DEF StopInv, TypesFollowTriggers
<1>8. TypesFollowTriggers'
  <2> SUFFICES ASSUME NEW o \in DOMAIN orders
               PROVE  IF o \in DOMAIN triggers'
                      THEN <<body[o].type, orders'[o].type>> \in
                             {<<"STOP", "MARKET">>, <<"STOP_LIMIT", "LIMIT">>}
                      ELSE orders'[o].type = body[o].type
    BY <1>3, <1>6 DEF TypesFollowTriggers
  <2>1. CASE o \in S
    <3>1. orders[o].type = body[o].type /\ orders[o].type \in {"STOP", "STOP_LIMIT"}
      BY <1>4, <1>7, <2>1
    <3>2. o \in DOMAIN triggers' /\ orders'[o].type = ActivatedOrderType(orders[o].type)
      BY <1>3, <1>6, <2>1
    <3> QED
      BY <3>1, <3>2 DEF ActivatedOrderType
  <2>2. CASE o \notin S
    <3>1. o \in DOMAIN triggers' <=> o \in DOMAIN triggers
      BY <1>3, <2>2
    <3>2. orders'[o].type = orders[o].type
      BY <1>6, <2>2
    <3> QED
      BY <1>7, <3>1, <3>2
  <2> QED
    BY <2>1, <2>2
<1>9. DOMAIN triggers' \subseteq DOMAIN orders' /\ \A o \in DOMAIN triggers' : triggers'[o] \in Prices
  BY <1>3, <1>4, <1>5, <1>6 DEF StopInv
<1> QED
  BY <1>3, <1>8, <1>9 DEF StopInv

LEMMA StopNextKeepsInv == OrderAssumption /\ StopAssumption /\ AllInv /\ [StopNext]_stopVars => AllInv'
<1> SUFFICES ASSUME OrderAssumption, StopAssumption, AllInv, [StopNext]_stopVars
             PROVE  AllInv'
  OBVIOUS
<1>1. OrdersInv /\ TablesInv /\ CallsTyped /\ StopInv
  BY DEF AllInv
<1>2. ASSUME [Next]_vars
      PROVE  OrdersInv' /\ TablesInv' /\ CallsTyped' /\ TypesStay
  BY <1>1, <1>2, NextOrdersInv, NextTables, NextCallsTyped, NextTypesStay
<1>3. ASSUME [Next]_vars, UNCHANGED triggers PROVE TypesFollowTriggers'
  <2>1. TypesStay
    BY <1>2, <1>3
  <2>2. DOMAIN triggers \subseteq DOMAIN orders /\ TypesFollowTriggers
    BY <1>1 DEF StopInv
  <2> QED
    BY <1>3, <2>1, <2>2 DEF TypesStay, TypesFollowTriggers
<1>4. ASSUME [Next]_vars, UNCHANGED triggers
      PROVE  /\ DOMAIN triggers' \subseteq DOMAIN orders'
             /\ \A o \in DOMAIN triggers' : triggers'[o] \in Prices
  BY <1>1, <1>2, <1>4 DEF TypesStay, StopInv
<1>5. CASE Next /\ UNCHANGED <<reference, triggers>>
  BY <1>1, <1>2, <1>3, <1>4, <1>5 DEF AllInv, StopInv
<1>6. ASSUME NEW price \in Prices, UpsertReferencePrice(price) PROVE AllInv'
  <2>1. UNCHANGED <<vars, triggers>>
    BY <1>6 DEF UpsertReferencePrice
  <2>2. PICK fresh \in BOOLEAN : reference' = [price |-> price, fresh |-> fresh]
    BY <1>6 DEF UpsertReferencePrice
  <2>3. reference' \in ReferencePrice /\ reference'.price \in Prices
    BY <2>2 DEF ReferencePrice
  <2> QED
    BY <1>1, <1>2, <1>3, <1>4, <2>1, <2>3 DEF AllInv, StopInv
<1>7. CASE ReferencePriceAges
  <2>1. UNCHANGED <<vars, triggers>> /\ reference' = [reference EXCEPT !.fresh = FALSE]
    BY <1>7 DEF ReferencePriceAges
  <2>2. reference' \in ReferencePrice /\ ~reference'.fresh
    BY <1>1, <2>1 DEF ReferencePrice, StopInv
  <2> QED
    BY <1>1, <1>2, <1>3, <1>4, <2>1, <2>2 DEF AllInv, StopInv
<1>8. ASSUME NEW skipped, TriggerDueStopOrders(skipped) PROVE AllInv'
  BY <1>1, <1>8, TriggerDueKeepsInv, TriggerDueKeepsStopInv DEF AllInv
<1>9. CASE UNCHANGED stopVars
  BY <1>1, <1>2, <1>3, <1>4, <1>9 DEF AllInv, StopInv, stopVars
<1> QED
  BY <1>5, <1>6, <1>7, <1>8, <1>9 DEF StopNext

\* In every reachable state of the order service with its trigger worker, rows,
\* executions and triggers agree.
THEOREM StopInvariant == StopSpec => []AllInv
<1>1. StopInit => AllInv
  <2> SUFFICES ASSUME StopInit PROVE AllInv
    OBVIOUS
  <2>1. OrdersInv /\ TablesInv /\ CallsTyped
    BY InitOrdersInv, InitTables, OrderAssumption DEF StopInit
  <2>2. DOMAIN orders = {} /\ DOMAIN triggers = {} /\ reference = [price |-> NoPrice, fresh |-> FALSE]
    BY DEF StopInit, Init, Empty
  <2> QED
    BY <2>1, <2>2 DEF AllInv, StopInv, TypesFollowTriggers, ReferencePrice
<1>2. AllInv /\ [StopNext]_stopVars => AllInv'
  BY StopNextKeepsInv, OrderAssumption, StopAssumption
<1> QED
  BY <1>1, <1>2, PTL DEF StopSpec

\* StopTypeOK: the trigger worker writes rows, executions and triggers of their
\* types, and notes only prices that events reported (activateLockedStopOrder).
THEOREM StopTypeOKHolds == StopSpec => []StopTypeOK
<1>1. AllInv => StopTypeOK
  BY TablesMean DEF AllInv, StopInv, StopTypeOK
<1> QED
  BY <1>1, StopInvariant, PTL

\* FillsMatchExecutions, with the worker: however batches, matches within them and
\* other handlers follow each other, filled quantities are what the executions
\* add up to, within half a tenth decimal for each (TriggerDueStopOrders,
\* persistOrderState).
THEOREM StopFillsMatchExecutionsHolds == StopSpec => []FillsMatchExecutions
<1>1. AllInv => FillsMatchExecutions
  BY TablesMean DEF AllInv
<1> QED
  BY <1>1, StopInvariant, PTL

\* TypesFollowTriggers: no order is activated twice, or without a trigger, in any
\* interleaving of batches with creations, cancels, amendments, expiries and
\* matches (activateLockedStopOrder, ActivatedOrderType).
THEOREM TypesFollowTriggersHolds == StopSpec => []TypesFollowTriggers
<1>1. AllInv => TypesFollowTriggers
  BY DEF AllInv, StopInv
<1> QED
  BY <1>1, StopInvariant, PTL

\* The batch serves older stop orders first.
LEMMA TriggerDueServesOlder ==
  ASSUME OrderAssumption, OrdersInv, TablesInv, NEW skipped, TriggerDueStopOrders(skipped),
         NEW o, NEW p, o < p, TriggeredNow(o), TriggeredNow(p),
         orders[o].side = orders[p].side, orders[o].tif # "FOK",
         NEW e \in executions' \ executions, e.taker = p,
         Crosses(orders'[o], orders'[e.maker]),
         TriggeredNow(e.maker) => e.maker < o
  PROVE  orders'[o].status = "filled"
<1>1. PICK batch :
        /\ Batched(batch) /\ First(batch, Len(batch)) = Triggerable(skipped)
        /\ RowsMoved(orders', batch, Len(batch))
        /\ TradesMade(orders', executions', batch, Len(batch))
  BY TriggerDueMakes
<1>2. \A x : x \in First(batch, Len(batch)) <=> TriggeredNow(x)
  <2>1. DOMAIN triggers' = DOMAIN triggers \union Triggerable(skipped)
    BY DEF TriggerDueStopOrders
  <2>2. \A x \in Triggerable(skipped) : x \notin DOMAIN triggers
    BY DEF Triggerable, Batch, Candidates, Pending
  <2> QED
    BY <1>1, <2>1, <2>2 DEF TriggeredNow
<1>3. o \in DOMAIN orders /\ p \in DOMAIN orders
  BY <1>1, <1>2 DEF Batched, First
<1>4. orders'[o].side = orders'[p].side /\ orders'[o].tif # "FOK"
  BY <1>1, <1>3 DEF RowsMoved
<1> QED
  BY <1>1, <1>2, <1>4 DEF TradesMade

\* OlderStopFirst: in one batch, of any size and with any book, a younger stop
\* order does not trade at a price an older one of its side accepts and could
\* have had, unless the older one is filled (TriggerDueStopOrders' loop).
THEOREM OlderStopFirstHolds == StopSpec => OlderStopFirst
<1> DEFINE OlderFirst ==
      \A o, p \in Requests :
        /\ o < p /\ TriggeredNow(o) /\ TriggeredNow(p)
        /\ orders[o].side = orders[p].side
        /\ orders[o].tif # "FOK"
        /\ \E e \in executions' \ executions :
             /\ e.taker = p /\ Crosses(orders'[o], orders'[e.maker])
             /\ TriggeredNow(e.maker) => e.maker < o
        => orders'[o].status = "filled"
<1>1. AllInv /\ [StopNext]_stopVars => [OlderFirst]_stopVars
  <2> SUFFICES ASSUME AllInv, [StopNext]_stopVars, NEW o \in Requests, NEW p \in Requests,
                      o < p, TriggeredNow(o), TriggeredNow(p),
                      orders[o].side = orders[p].side, orders[o].tif # "FOK",
                      NEW e \in executions' \ executions, e.taker = p,
                      Crosses(orders'[o], orders'[e.maker]),
                      TriggeredNow(e.maker) => e.maker < o
               PROVE  orders'[o].status = "filled"
    OBVIOUS
  <2>1. triggers' # triggers
    BY DEF TriggeredNow
  <2>2. PICK skipped : TriggerDueStopOrders(skipped)
    BY <2>1 DEF StopNext, UpsertReferencePrice, ReferencePriceAges, stopVars
  <2> QED
    BY <2>2, TriggerDueServesOlder, OrderAssumption DEF AllInv
<1> QED
  BY <1>1, StopInvariant, PTL DEF StopSpec, OlderStopFirst

=============================================================================
