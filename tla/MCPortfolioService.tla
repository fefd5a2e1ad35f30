-------------------------- MODULE MCPortfolioService --------------------------
(* A small instance of PortfolioService. *)
EXTENDS PortfolioService

CONSTANTS r1, r2

MCFirstAssignment == [p \in {"p1", "p2"} |-> IF p = "p1" THEN r1 ELSE r2]

\* ann buys from bob, bob buys back (the opposite lock order, and ann holds
\* nothing before the first trade), a trade with oneself, a legacy event.
\* The first trade's amount and quantity and the average price of what bob
\* then buys back are between two of the numbers that can be written.
MCMessages == {"buy", "buyback", "self", "filled"}

MCBody ==
  LET trade(id, b, s, q, p) ==
        [eventType |-> "trade.executed", complete |-> TRUE, executionId |-> id,
         buyer |-> b, seller |-> s, quantity |-> q, price |-> p]
  IN [m \in MCMessages |->
        CASE m = "buy" -> trade(1, "ann", "bob", 3, 3)
          [] m = "buyback" -> trade(2, "bob", "ann", 2, 5)
          [] m = "self" -> trade(3, "bob", "bob", 1, 1)
          [] OTHER -> [trade(1, "ann", "bob", 3, 3) EXCEPT !.eventType = "order.filled"]]

\* Trades of different orders are in different partitions, in no order.
MCFeed == [p \in {"p1", "p2"} |->
  IF p = "p1" THEN <<"filled", "buy">> ELSE <<"buyback", "self">>]

MCInitialHoldings == [u \in {"ann", "bob"} |-> IF u = "bob" THEN 6 ELSE 0]
=============================================================================
