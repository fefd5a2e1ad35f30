--------------------------- MODULE MCOrderService ---------------------------
(* A small instance of OrderService. *)
EXTENDS OrderService

Ask(key, side, type, tif, quantity, limit) ==
  [key |-> key, side |-> side, type |-> type, tif |-> tif, quantity |-> quantity,
   limit |-> limit, stop |-> NoPrice]

\* Three requests: two makers of different rank and a taker, or three tries of
\* one client under one key.
MCRequests == 1..3

\* k1 and k3 may come with either of two bodies.  The prices of the sellers
\* differ until an amendment makes them equal.
MCBodies == {
  Ask("k1", "BUY", "LIMIT", "GTC", 2, 2),
  Ask("k1", "BUY", "LIMIT", "FOK", 2, 1),
  Ask("k2", "SELL", "LIMIT", "DAY", 2, 1),
  Ask("k3", "SELL", "LIMIT", "GTD", 1, 2),
  Ask("k3", "SELL", "MARKET", "IOC", 1, NoPrice)}

\* Reprice with a new expiry, or resize and (by leaving it out) lose the price.
MCChanges == {
  [quantity |-> NoQuantity, limit |-> 1, stop |-> NoPrice, expires |-> TRUE],
  [quantity |-> 1, limit |-> NoPrice, stop |-> NoPrice, expires |-> FALSE]}
=============================================================================
