--------------------------- MODULE PlatformEvents ---------------------------
(***************************************************************************)
(* The events that the surveillance, notification and audit services       *)
(* exchange, and the topics they travel by.  One EventConsumer holds the   *)
(* readers of the three consumer groups: a partition of it is one group's  *)
(* view of a topic, and every topic has one partition, so an event has the *)
(* same number in each of the views.                                       *)
(***************************************************************************)
EXTENDS EventConsumer

CONSTANTS
  Users,
  NoOne,        \* an event without a user
  Subscribed    \* Subscribed[type]: the partitions where groups read that topic

SourceTypes ==
  {"order.created", "order.filled", "order.cancelled", "risk.score.updated", "market.ticks"}
AlertTypes ==
  {"surveillance.alert.created", "surveillance.alert.acknowledged",
   "surveillance.alert.resolved", "surveillance.alert.dismissed"}
\* notification.created, which nobody subscribes to, is left out.
NotificationTypes ==
  {"notification.sent", "notification.failed", "notification.read",
   "notification.retry_requested"}
EventTypes == SourceTypes \union AlertTypes \union NotificationTypes

ASSUME EventsAssumption ==
  /\ Users \subseteq STRING /\ NoOne \notin Users
  /\ Subscribed \in [EventTypes -> SUBSET Partitions]

Publish(e) == Produce(Subscribed[e.type], <<e>>)

\* The event that r is busy with: its type and its place in the topic stand
\* for the eventId in its payload.
EventId(r) == <<Message(r).type, handling[r][2]>>
=============================================================================
