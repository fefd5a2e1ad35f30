--------------------------- MODULE MCOrderOutbox ---------------------------
(* Small instances of OrderOutbox. *)
EXTENDS OrderOutbox

\* Two transactions that may commit in either order, one event each.
MCTransactions == {{1}, {2}}
MCRows == {1, 2}
=============================================================================
