--------------------------- MODULE MCAlertPipeline ---------------------------
(* A small instance of AlertPipeline. *)
EXTENDS AlertPipeline

MCRules == {"LargeOrderRule", "RapidOrderSubmissionRule", "HighCancelRateRule",
            "RiskScoreBreachRule", "AbnormalPriceMovementRule"}

\* Limits that two events can reach.
MCFallback == [rule \in MCRules |->
  [enabled |-> TRUE,
   threshold |-> CASE rule \in {"RapidOrderSubmissionRule", "HighCancelRateRule"} -> 1
                   [] rule = "LargeOrderRule" -> 5
                   [] rule = "RiskScoreBreachRule" -> 80
                   [] OTHER -> 10]]

\* Every group's view of a topic has its own reader, of the same name.
MCReaderOf == [p \in {"s-orders", "s-ticks", "s-risk", "n-created", "n-ack",
                      "a-created", "a-risk"} |-> p]
MCSubscribed == [type \in EventTypes |->
  CASE type \in {"order.created"} -> {"s-orders"}
    [] type = "market.ticks" -> {"s-ticks"}
    [] type = "risk.score.updated" -> {"s-risk", "a-risk"}
    [] type = "surveillance.alert.created" -> {"n-created", "a-created"}
    [] type = "surveillance.alert.acknowledged" -> {"n-ack"}
    [] OTHER -> {}]

MCEvent(type, entity, user, value) ==
  [type |-> type, valid |-> TRUE, tenant |-> "default-tenant", entity |-> entity,
   user |-> user, value |-> value]
MCPlan(type, s, faults, calls) ==
  [feed |-> [t \in SourceTypes |-> IF t = type THEN s ELSE <<>>],
   faults |-> faults, calls |-> calls]

\* A large order and another one soon after, with one fault or one call; two
\* ticks of another tenant, with two calls; a high score; an unreadable one.
MCLarge == MCEvent("order.created", "o1", "ann", 9)
MCSmall == MCEvent("order.created", "o2", "ann", 1)
MCScore == MCEvent("risk.score.updated", "bob", "bob", 90)
MCTick(price) == [MCEvent("market.ticks", "BTC", NoOne, price) EXCEPT !.tenant = "acme"]
MCPlans == {
  MCPlan("order.created", <<MCLarge, MCSmall>>, 1, 0),
  MCPlan("order.created", <<MCLarge>>, 1, 1),
  MCPlan("market.ticks", <<MCTick(10), MCTick(20)>>, 0, 2),
  MCPlan("risk.score.updated", <<MCScore>>, 1, 0),
  MCPlan("risk.score.updated", <<[MCScore EXCEPT !.valid = FALSE]>>, 1, 0)}

MCRequests == {
  [tenant |-> "default-tenant", rule |-> "AbnormalPriceMovementRule", enabled |-> Keep, threshold |-> 200],
  [tenant |-> "acme", rule |-> "AbnormalPriceMovementRule", enabled |-> FALSE, threshold |-> Keep]}

MCFirstPrefs == [u \in {"ann", "bob"} |->
  IF u = "ann" THEN {"IN_APP", "WEBHOOK"} ELSE {"IN_APP", "EMAIL"}]
MCPrefRequests == {{}, {"IN_APP", "EMAIL"}}
=============================================================================
