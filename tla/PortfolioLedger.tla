-------------------------- MODULE PortfolioLedger --------------------------
(***************************************************************************)
(* What applying executions to portfolios promises, with no messages,      *)
(* replicas, retries or transactions in it: an execution changes both      *)
(* portfolios at once, once, and only when the buyer can pay and the       *)
(* seller holds what is sold.  docs/portfolio/                             *)
(* idempotent-event-processing.md.                                         *)
(***************************************************************************)
EXTENDS Integers

CONSTANTS
  Users,
  Trades,           \* [execution, buyer, seller, quantity, amount]
  InitialCash,
  InitialHoldings   \* InitialHoldings[u]

VARIABLES
  cash,
  quantity,   \* quantity[u] of the traded symbol
  applied     \* the trades applied

vars == <<cash, quantity, applied>>

Init ==
  /\ cash = [u \in Users |-> InitialCash]
  /\ quantity = InitialHoldings
  /\ applied = {}

Apply(t) ==
  /\ \A other \in applied : other.execution # t.execution
  /\ t.buyer # t.seller
  /\ cash[t.buyer] >= t.amount
  /\ quantity[t.seller] >= t.quantity
  /\ cash' = [cash EXCEPT ![t.buyer] = @ - t.amount,
                          ![t.seller] = @ + t.amount]
  /\ quantity' = [quantity EXCEPT ![t.buyer] = @ + t.quantity,
                                  ![t.seller] = @ - t.quantity]
  /\ applied' = applied \union {t}

Next == \E t \in Trades : Apply(t)

Spec == Init /\ [][Next]_vars
=============================================================================
