----------------------------- MODULE AuditTrail -----------------------------
(***************************************************************************)
(* The audit service: its readers store a row for every event of the       *)
(* topics it subscribes to.  A unique index on source_event_key keeps      *)
(* redelivered events out; an event that carries no id gets its key from   *)
(* the time in its payload, or from the clock when there is none, and is   *)
(* stored again each time it comes.                                        *)
(*                                                                         *)
(* Abstractions.  A row is the event and its key; what NormalizeEvent makes *)
(* of the payload (action, entity, severity) is left out, and so is        *)
(* audit.log.created, which nobody consumes.  Rows are never changed.      *)
(***************************************************************************)
EXTENDS PlatformEvents

CONSTANTS
  AuditReaders,
  Keyless       \* the types whose events carry neither an id nor a time

VARIABLE trail  \* audit_logs

ASSUME AuditAssumption == Keyless \subseteq EventTypes

AuditTypeOK ==
  trail \in Seq([event : EventTypes \X Nat, key : EventTypes \X Nat \X Nat])

AuditInit == trail = <<>>

\* Every event gets a key of its own, whatever its id.
ClockKey(r) == EventId(r) \o <<Len(trail) + 1>>

\* sourceEventKey; the clock of a keyless event never shows the same time.
SourceEventKey(r) ==
  EventId(r) \o <<IF Message(r).type \in Keyless THEN Len(trail) + 1 ELSE 0>>

Auditing(r) ==
  /\ r \in AuditReaders
  /\ Attempting(r)

Stored(r) == \E i \in DOMAIN trail : trail[i].key = SourceEventKey(r)
Insertion(r) ==
  trail' = IF Stored(r) THEN trail
           ELSE Append(trail, [event |-> EventId(r), key |-> SourceEventKey(r)])

\* CreateAuditLog: the row is inserted, or the index refuses it, which
\* counts as processed.
RecordEvent(r) ==
  /\ Auditing(r)
  /\ Insertion(r)
  /\ Succeed(r)

\* The insert fails, or its answer is lost.
AuditDatabaseError(r) ==
  /\ Auditing(r)
  /\ Insertion(r) \/ UNCHANGED trail
  /\ FailAttempt(r)

\* The payload is no JSON.
RejectUnreadable(r) ==
  /\ Auditing(r)
  /\ "valid" \in DOMAIN Message(r) /\ ~Message(r).valid
  /\ FailAttempt(r)
  /\ UNCHANGED trail

\* One row for every event that carries an id.
OneRowPerEvent ==
  \A i, j \in DOMAIN trail :
    trail[i].event = trail[j].event /\ trail[i].event[1] \notin Keyless => i = j
=============================================================================
