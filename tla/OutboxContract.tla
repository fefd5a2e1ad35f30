--------------------------- MODULE OutboxContract ---------------------------
(***************************************************************************)
(* What a transactional outbox promises, with no workers, leases or        *)
(* attempts in it: an event whose intent was committed is handed to Kafka  *)
(* at least once before it is called published, or it is given up, and     *)
(* neither outcome is ever revised.  docs/architecture/                    *)
(* transactional-outbox.md, "Delivery Semantics".                          *)
(***************************************************************************)
EXTENDS Naturals

CONSTANT Events

VARIABLES
  outcome,     \* outcome[e]: "absent", "open", "published" or "failed"
  delivered    \* the events Kafka holds at least one copy of

vars == <<outcome, delivered>>

Init ==
  /\ outcome = [e \in Events |-> "absent"]
  /\ delivered = {}

\* A business transaction commits the intent to publish the events of S.
Commit(S) ==
  /\ \A e \in S : outcome[e] = "absent"
  /\ outcome' = [e \in Events |-> IF e \in S THEN "open" ELSE outcome[e]]
  /\ UNCHANGED delivered

\* Kafka stores a copy.  An event that was given up may still arrive: the
\* publish that timed out may have succeeded on the broker.
Deliver(e) ==
  /\ outcome[e] \in {"open", "failed"}
  /\ delivered' = delivered \union {e}
  /\ UNCHANGED outcome

Publish(e) ==
  /\ outcome[e] = "open"
  /\ e \in delivered
  /\ outcome' = [outcome EXCEPT ![e] = "published"]
  /\ UNCHANGED delivered

GiveUp(e) ==
  /\ outcome[e] = "open"
  /\ outcome' = [outcome EXCEPT ![e] = "failed"]
  /\ UNCHANGED delivered

Next ==
  \/ \E S \in SUBSET Events : Commit(S)
  \/ \E e \in Events : Deliver(e) \/ Publish(e) \/ GiveUp(e)

Spec == Init /\ [][Next]_vars
=============================================================================
