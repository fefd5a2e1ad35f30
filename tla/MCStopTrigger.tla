--------------------------- MODULE MCStopTrigger ---------------------------
(* Small instances of StopTrigger. *)
EXTENDS StopTrigger

Ask(key, side, type, tif, quantity, limit, stop) ==
  [key |-> key, side |-> side, type |-> type, tif |-> tif, quantity |-> quantity,
   limit |-> limit, stop |-> stop]

\* A maker and stop orders of both types and sides, and one that is refused.
MCRequests == 1..3
MCBodies == {
  Ask("k1", "SELL", "LIMIT", "GTC", 2, 2, NoPrice),
  Ask("k2", "BUY", "STOP", "GTC", 2, NoPrice, 1),
  Ask("k3", "BUY", "STOP_LIMIT", "DAY", 2, 2, 2),
  Ask("k4", "SELL", "STOP_LIMIT", "GTC", 1, 2, 1),
  Ask("k4", "SELL", "STOP", "GTC", 1, NoPrice, NoPrice)}
NoChanges == {}
MCPrices == {1, 2}
=============================================================================
