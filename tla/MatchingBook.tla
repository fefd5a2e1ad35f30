---------------------------- MODULE MatchingBook ----------------------------
(***************************************************************************)
(* The matching engine on its own: one incoming order, one book, one call  *)
(* of Match, compared with what price-time priority means.                 *)
(***************************************************************************)
EXTENDS MatchingEngine

CONSTANTS
  Makers,      \* ids of the orders that may rest, in creation order
  Limits,      \* limit prices
  Quantities,  \* remaining quantities of resting orders
  Demands      \* remaining quantities of incoming orders

ASSUME BookAssumption ==
  /\ Makers \subseteq Nat /\ IsFiniteSet(Makers)
  /\ Limits \subseteq Nat \ {NoPrice}
  /\ Quantities \subseteq Nat \ {0}
  /\ Demands \subseteq Nat \ {0}

VARIABLES
  incoming,   \* the incoming order
  book,       \* the resting orders of its tenant and symbol
  result      \* what Match returned, or NoResult

bookVars == <<incoming, book, result>>

NoResult == [cancelled |-> FALSE]

\* A maker is a LIMIT order; an amendment can leave its price NULL.
RestingOrders == [side : Sides, limit : Limits \union {NoPrice}, remaining : Quantities]

\* The query for the resting orders asks for one side, and a NULL price is
\* survived only when it is alone.
Books == {b \in UNION {[M -> RestingOrders] : M \in SUBSET Makers} :
            ~Panics(b) /\ \A m, n \in DOMAIN b : b[m].side = b[n].side}

\* An incoming order that validateOrder lets pass, or a triggered stop order.
Incoming ==
  [side : Sides, type : {"MARKET", "LIMIT"}, tif : {"GTC", "IOC", "FOK"},
   limit : Limits, remaining : Demands]

BookInit ==
  /\ incoming \in Incoming
  /\ book \in {b \in Books : \A m \in DOMAIN b : b[m].side = Opposite(incoming.side)}
  /\ result = NoResult

Call ==
  /\ result = NoResult
  /\ result' = Match(incoming, book)
  /\ UNCHANGED <<incoming, book>>

BookSpec == BookInit /\ [][Call]_bookVars

-----------------------------------------------------------------------------
Returned == result # NoResult

\* The reference: a price as what it costs the incoming side, so that less is
\* better for it whichever side it is on.
Cost(price) == IF incoming.side = "BUY" THEN price ELSE -price

Acceptable ==
  {m \in DOMAIN book : /\ book[m].limit # NoPrice
                       /\ \/ incoming.type = "MARKET"
                          \/ Cost(book[m].limit) <= Cost(incoming.limit)}

\* The volume that has to trade before maker m does.
VolumeAhead(m) ==
  LET Better(o) == Cost(book[o].limit) < Cost(book[m].limit)
      Earlier(o) == book[o].limit = book[m].limit /\ o < m
  IN Volume(book, {o \in Acceptable : Better(o) \/ Earlier(o)})

Filled == SumFunctionOnSet(result.fills, DOMAIN book)

\* What price-time priority gives maker m of an order for q: the volume ahead
\* of it trades first, then it gets what is left, up to what it has.
Share(m, q) ==
  IF m \in Acceptable
  THEN Lesser(book[m].remaining, Max({0, q - VolumeAhead(m)}))
  ELSE 0

\* Unless a fill-or-kill order is killed, the engine's loop gives every maker
\* exactly its share: price first, then creation time, nobody is passed over,
\* and no trade is worse than the incoming order's limit.
PriceTimePriority ==
  Returned /\ (incoming.tif = "FOK" => ~result.cancelled) =>
    \A m \in DOMAIN book : result.fills[m] = Share(m, incoming.remaining)

\* The precheck of a fill-or-kill order agrees with the loop that follows it:
\* it fills completely exactly when the acceptable orders hold enough, and
\* otherwise not at all, and only then it is cancelled.
FillOrKill ==
  Returned /\ incoming.tif = "FOK" =>
    LET enough == Volume(book, Acceptable) >= incoming.remaining
    IN /\ Filled = (IF enough THEN incoming.remaining ELSE 0)
       /\ result.cancelled <=> ~enough

\* What the engine leaves to rest crosses nothing it leaves in the book, and
\* every order but a resting one is used up or cancelled: docs/orders/
\* matching-engine.md:18-21 on what may rest.
RestsUncrossed ==
  Returned /\ ~result.cancelled /\ Filled < incoming.remaining =>
    /\ incoming.type = "LIMIT" /\ incoming.tif = "GTC"
    /\ \A m \in Acceptable : result.fills[m] = book[m].remaining

=============================================================================
