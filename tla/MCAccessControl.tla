-------------------------- MODULE MCAccessControl --------------------------
(***************************************************************************)
(* The instance: one session, two calls to the identity service at the     *)
(* same time, two requests validated at the same time, two key ids, one    *)
(* change of the key, which keeps the id or not, and one failure anywhere. *)
(***************************************************************************)
EXTENDS AccessControl, TLC

CONSTANTS c1, c2, s1, g1, g2, k1, k2

MCCallers == {c1, c2}
MCSessions == {s1}
MCRequests == {g1, g2}
MCKids == {k1, k2}
=============================================================================
