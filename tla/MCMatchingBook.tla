--------------------------- MODULE MCMatchingBook ---------------------------
(* Every book of up to three orders at three prices. *)
EXTENDS MatchingBook
MCMakers == 1..3
MCLimits == 1..3
MCQuantities == 1..2
MCDemands == 1..6
=============================================================================
