--------------------------- MODULE MatchingEngine ---------------------------
(***************************************************************************)
(* The order matching engine (internal/matching): a pure function of one   *)
(* incoming order and the resting orders of its tenant and symbol.         *)
(*                                                                         *)
(* A book maps order ids to orders.  Ids are numbers in the order of       *)
(* created_at, which is what equal prices are ranked by; two orders of one *)
(* symbol are taken to have different timestamps.  Quantities and prices   *)
(* are the engine's exact rationals: only their sums and comparisons       *)
(* matter, so small integers stand for them.  Prices are positive and      *)
(* NoPrice stands for a NULL limit price.                                  *)
(***************************************************************************)
EXTENDS Integers, Sequences, FiniteSets, FiniteSetsExt, Functions

NoPrice == 0

Sides == {"BUY", "SELL"}

Opposite(side) == IF side = "BUY" THEN "SELL" ELSE "BUY"

\* The comparison with the limit itself excluded.
CrossesStrictly(incoming, maker) ==
  /\ maker.limit # NoPrice
  /\ \/ incoming.type = "MARKET"
     \/ /\ incoming.limit # NoPrice
        /\ IF incoming.side = "BUY" THEN maker.limit < incoming.limit
                                    ELSE maker.limit > incoming.limit

\* crosses: the maker's price is acceptable to the incoming order.  Any type
\* but MARKET is held to its limit price, STOP and STOP_LIMIT included.
Crosses(incoming, maker) ==
  /\ maker.limit # NoPrice
  /\ \/ incoming.type = "MARKET"
     \/ /\ incoming.limit # NoPrice
        /\ IF incoming.side = "BUY" THEN maker.limit <= incoming.limit
                                    ELSE maker.limit >= incoming.limit

\* Price first, then the younger order: the time comparison reversed.
AheadLastIn(book, a, b) ==
  IF book[a].limit = book[b].limit THEN a > b
  ELSE IF book[a].side = "BUY" THEN book[a].limit > book[b].limit
                               ELSE book[a].limit < book[b].limit

\* Book.Sort: bids by descending, asks by ascending price, equal prices by
\* creation time.
Ahead(book, a, b) ==
  IF book[a].limit = book[b].limit THEN a < b
  ELSE IF book[a].side = "BUY" THEN book[a].limit > book[b].limit
                               ELSE book[a].limit < book[b].limit

\* Book.RestingFor: the sorted side of the book the incoming order meets.  As
\* many orders are ahead of an order as its place in the queue says.
RestingFor(incoming, book) ==
  LET side == {m \in DOMAIN book : book[m].side = Opposite(incoming.side)}
  IN [i \in 1..Cardinality(side) |->
        CHOOSE m \in side : Cardinality({o \in side : Ahead(book, o, m)}) = i - 1]

\* Book.Sort compares every order of a side with another one as soon as there
\* are two, and comparing a NULL price dereferences a nil pointer: a panic.
Panics(book) ==
  \E a, b \in DOMAIN book : /\ a # b
                            /\ book[a].side = book[b].side
                            /\ book[a].limit = NoPrice

\* The first n orders of a queue, and what a set of orders has left to trade.
First(queue, n) == {queue[i] : i \in 1..n}

Volume(book, orders) == SumFunctionOnSet([m \in DOMAIN book |-> book[m].remaining], orders)

\* canFullyFill when it counts every order of the side, acceptable or not.
CanFullyFillAnyPrice(incoming, book, queue) ==
  \E n \in DOMAIN queue : Volume(book, First(queue, n)) >= incoming.remaining

\* canFullyFill: the acceptable orders at the head of the queue hold enough.
CanFullyFill(incoming, book, queue) ==
  \E n \in DOMAIN queue :
    /\ \A m \in First(queue, n) : Crosses(incoming, book[m])
    /\ Volume(book, First(queue, n)) >= incoming.remaining

\* minRat with its comparison the wrong way round.
Greater(a, b) == IF a <= b THEN b ELSE a

\* minRat.
Lesser(a, b) == IF a <= b THEN a ELSE b

\* One round of the loop of Match: what is left of the incoming order, the
\* fills so far, and whether the loop is still running.
Round(incoming, book, sofar, m) ==
  LET quantity == Lesser(sofar.left, book[m].remaining)
  IN IF ~sofar.running \/ sofar.left = 0 \/ ~Crosses(incoming, book[m])
     THEN [sofar EXCEPT !.running = FALSE]
     ELSE [sofar EXCEPT !.left = @ - quantity, !.fills[m] = quantity]

\* shouldCancelRemainder.
ShouldCancelRemainder(order, left) ==
  left > 0 /\ (order.type = "MARKET" \/ order.tif \in {"IOC", "FOK"})

NoFills(book) == [m \in DOMAIN book |-> 0]

\* The loop of Match over the queue: after[n] is where n rounds lead.
After(incoming, book, queue) ==
  LET after[n \in 0..Len(queue)] ==
        IF n = 0
        THEN [left |-> incoming.remaining, fills |-> NoFills(book), running |-> TRUE]
        ELSE Round(incoming, book, after[n - 1], queue[n])
  IN after

Loop(incoming, book, queue) == After(incoming, book, queue)[Len(queue)]

\* Match: how much every resting order gives, the resting orders it returns
\* as changed, and whether the remainder is to be cancelled.  A FOK order that
\* cannot be filled returns the whole list it was given as changed.
Match(incoming, book) ==
  LET queue == RestingFor(incoming, book)
      loop  == Loop(incoming, book, queue)
  IN IF incoming.tif = "FOK" /\ ~CanFullyFill(incoming, book, queue)
     THEN [fills |-> NoFills(book), changed |-> DOMAIN book,
           left |-> incoming.remaining, cancelled |-> TRUE]
     ELSE [fills |-> loop.fills,
           changed |-> {m \in DOMAIN book : loop.fills[m] > 0},
           left |-> loop.left,
           cancelled |-> ShouldCancelRemainder(incoming, loop.left)]

=============================================================================
