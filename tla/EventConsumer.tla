--------------------------- MODULE EventConsumer ---------------------------
(***************************************************************************)
(* The Kafka consumer that every event-driven service of the platform      *)
(* has a copy of (internal/kafka/consumer.go): fetch a message, process it *)
(* with retries, write it to the dead-letter topic when the retries are    *)
(* used up, and commit its offset whatever came of it.                     *)
(*                                                                         *)
(* What processing a message does is the service's business: a service     *)
(* conjoins Succeed or FailAttempt with its own action.  A reader is the   *)
(* goroutine of one consumer; the readers of one process die together.     *)
(* The reader library and the broker are external: a commit may fail, a    *)
(* partition may be taken from a reader that is still busy with one of its *)
(* messages, and a reader starts from the committed offset or, when there  *)
(* is none yet, at the end of the partition (StartOffset: LastOffset).     *)
(* The sleep between two attempts is not a step: the next attempt comes    *)
(* when it comes, and a shutdown may fall in between.                      *)
(***************************************************************************)
EXTENDS Integers, Sequences, FiniteSets

CONSTANTS
  Readers,      \* the consumer goroutines of the group
  Partitions,   \* the partitions they read
  MaxRetries,   \* EVENT_PROCESSING_MAX_RETRIES
  AsyncCommit,  \* CommitInterval > 0: offsets reach the broker later
  Nothing       \* a reader that is between two messages

ASSUME ConsumerAssumption ==
  /\ MaxRetries \in Nat
  /\ AsyncCommit \in BOOLEAN
  /\ Nothing \notin Partitions \X Nat

VARIABLES
  topic,        \* topic[p]: the messages of partition p so far
  assigned,     \* assigned[p]: the reader that partition p is assigned to
  position,     \* position[p]: how many messages of p its reader has passed
  marked,       \* marked[p]: the offset last given to CommitMessages
  committed,    \* committed[p]: the group's offset, NoOffset before the first
  handling,     \* handling[r]: <<partition, number>> of r's current message
  stage,        \* stage[r]: "attempt", "deadletter" or "commit"
  tries,        \* tries[r]: failed attempts at it
  deadLettered, \* the messages that the dead-letter topic holds
  dropped       \* history: passed by without being processed or dead-lettered

consumerVars == <<topic, assigned, position, marked, committed, handling,
                  stage, tries, deadLettered, dropped>>
groupVars == <<assigned, position, marked, committed>>

NoOffset == -1
Stages == {"attempt", "deadletter", "commit"}
Offsets == Nat \union {NoOffset}

\* `messages' is what the partitions may contain.
ConsumerTypeOK(messages) ==
  /\ topic \in [Partitions -> Seq(messages)]
  /\ assigned \in [Partitions -> Readers]
  /\ position \in [Partitions -> Nat]
  /\ marked \in [Partitions -> Offsets]
  /\ committed \in [Partitions -> Offsets]
  /\ handling \in [Readers -> (Partitions \X Nat) \union {Nothing}]
  /\ stage \in [Readers -> Stages]
  /\ tries \in [Readers -> 0 .. MaxRetries]
  /\ deadLettered \in SUBSET (Partitions \X Nat)
  /\ dropped \in SUBSET (Partitions \X Nat)

ConsumerInit(first) ==
  /\ topic = [p \in Partitions |-> <<>>]
  /\ assigned = first
  /\ position = [p \in Partitions |-> 0]
  /\ marked = [p \in Partitions |-> NoOffset]
  /\ committed = [p \in Partitions |-> NoOffset]
  /\ handling = [r \in Readers |-> Nothing]
  /\ stage = [r \in Readers |-> "attempt"]
  /\ tries = [r \in Readers |-> 0]
  /\ deadLettered = {}
  /\ dropped = {}

Busy(r) == handling[r] # Nothing
Message(r) == topic[handling[r][1]][handling[r][2]]

\* A producer appends the messages ms to the partitions P (the partitions
\* of one topic, as each group sees it).
Produce(P, ms) ==
  /\ topic' = [p \in Partitions |-> IF p \in P THEN topic[p] \o ms ELSE topic[p]]
  /\ UNCHANGED <<groupVars, handling, stage, tries, deadLettered, dropped>>

\* FetchMessage returns the next message of one of r's partitions.
FetchMessage(r) ==
  /\ ~Busy(r)
  /\ \E p \in Partitions :
       /\ assigned[p] = r
       /\ position[p] < Len(topic[p])
       /\ handling' = [handling EXCEPT ![r] = <<p, position[p] + 1>>]
       /\ position' = [position EXCEPT ![p] = @ + 1]
  /\ stage' = [stage EXCEPT ![r] = "attempt"]
  /\ tries' = [tries EXCEPT ![r] = 0]
  /\ UNCHANGED <<topic, assigned, marked, committed, deadLettered, dropped>>

Attempting(r) == Busy(r) /\ stage[r] = "attempt"

Succeed(r) ==
  /\ Attempting(r)
  /\ stage' = [stage EXCEPT ![r] = "commit"]
  /\ UNCHANGED <<topic, groupVars, handling, tries, deadLettered, dropped>>

\* A message whose retries are used up is committed without a dead letter.
FailQuietly(r) ==
  /\ Attempting(r)
  /\ IF tries[r] < MaxRetries
     THEN tries' = [tries EXCEPT ![r] = @ + 1] /\ UNCHANGED stage
     ELSE stage' = [stage EXCEPT ![r] = "commit"] /\ UNCHANGED tries
  /\ UNCHANGED <<topic, groupVars, handling, deadLettered, dropped>>

\* An attempt returns an error: another one follows, or the dead letter.
FailAttempt(r) ==
  /\ Attempting(r)
  /\ IF tries[r] < MaxRetries
     THEN tries' = [tries EXCEPT ![r] = @ + 1] /\ UNCHANGED stage
     ELSE stage' = [stage EXCEPT ![r] = "deadletter"] /\ UNCHANGED tries
  /\ UNCHANGED <<topic, groupVars, handling, deadLettered, dropped>>

\* The dead letter is written, or the write fails, which is logged only.
DeadLetter(r) ==
  /\ Busy(r)
  /\ stage[r] = "deadletter"
  /\ \/ deadLettered' = deadLettered \union {handling[r]} /\ UNCHANGED dropped
     \/ dropped' = dropped \union {handling[r]} /\ UNCHANGED deadLettered
  /\ stage' = [stage EXCEPT ![r] = "commit"]
  /\ UNCHANGED <<topic, groupVars, handling, tries>>

\* CommitMessages.  A synchronous commit takes effect or fails, and a reader
\* that has lost the partition since may still set the offset back.
CommitMessages(r) ==
  /\ Busy(r)
  /\ stage[r] = "commit"
  /\ LET p == handling[r][1]
         offset == handling[r][2]
     IN \/ /\ marked' = [marked EXCEPT ![p] = offset]
           /\ committed' = IF AsyncCommit THEN committed
                           ELSE [committed EXCEPT ![p] = offset]
        \/ ~AsyncCommit /\ UNCHANGED <<marked, committed>>
  /\ handling' = [handling EXCEPT ![r] = Nothing]
  /\ stage' = [stage EXCEPT ![r] = "attempt"]
  /\ tries' = [tries EXCEPT ![r] = 0]
  /\ UNCHANGED <<topic, assigned, position, deadLettered, dropped>>

-----------------------------------------------------------------------------
(***************************************************************************)
(* Restarts and rebalances                                                 *)
(***************************************************************************)

\* Where a reader starts on p, and what it never gets to see there.
StartsAt(offset, p) == IF offset = NoOffset THEN Len(topic[p]) ELSE offset
SkippedFrom(offset, p) ==
  IF offset = NoOffset THEN {p} \X (1 .. Len(topic[p])) ELSE {}

\* The partitions R has, and which of the offsets up to `last' the broker got:
\* with an asynchronous commit nobody sees the committed offset before a
\* restart, so when it moved is decided there.
PartitionsOf(R) == {p \in Partitions : assigned[p] \in R}
Reached(p, last) ==
  IF AsyncCommit
  THEN {committed[p]} \union {o \in 1 .. last : o >= committed[p]}
  ELSE {last}
Survivors(R, last) ==
  {f \in [PartitionsOf(R) -> UNION {Reached(p, last[p]) : p \in PartitionsOf(R)}] :
     \A p \in PartitionsOf(R) : f[p] \in Reached(p, last[p])}

\* The readers R lose what they held; their partitions start again from the
\* offsets in `offset'.
Restarted(R, offset) ==
  /\ committed' = [p \in Partitions |->
       IF AsyncCommit /\ assigned[p] \notin R THEN committed[p] ELSE offset[p]]
  /\ marked' = offset
  /\ position' = [p \in Partitions |->
       IF assigned[p] \in R THEN StartsAt(offset[p], p) ELSE position[p]]
  /\ handling' = [r \in Readers |-> IF r \in R THEN Nothing ELSE handling[r]]
  /\ stage' = [r \in Readers |-> IF r \in R THEN "attempt" ELSE stage[r]]
  /\ tries' = [r \in Readers |-> IF r \in R THEN 0 ELSE tries[r]]
  /\ UNCHANGED <<topic, assigned, deadLettered>>

Unseen(R, offset) == UNION {SkippedFrom(offset[p], p) : p \in PartitionsOf(R)}
Over(f, g) == [p \in Partitions |-> IF p \in DOMAIN f THEN f[p] ELSE g[p]]

\* The process dies.
CrashReaders(R) ==
  \E f \in Survivors(R, marked) :
    LET offset == Over(f, marked)
    IN /\ Restarted(R, offset)
       /\ dropped' = dropped \union Unseen(R, offset)

\* SIGTERM cancels the context: an attempt fails, the backoff and the dead
\* letter are cut short, and the commit that follows may still get through
\* (C: the readers for which it does), processed or not.
ShutdownReaders(R) ==
  \E C \in SUBSET {r \in R : Busy(r)} :
    LET last == [p \in Partitions |->
                   IF \E r \in C : handling[r][1] = p
                   THEN handling[CHOOSE r \in C : handling[r][1] = p][2]
                   ELSE marked[p]]
    IN \E f \in Survivors(R, last) :
         LET offset == Over(f, last)
         IN /\ Restarted(R, offset)
            /\ dropped' = dropped \union Unseen(R, offset)
                 \union {handling[r] : r \in {s \in C :
                     stage[s] # "commit" /\ handling[s][2] <= offset[handling[s][1]]}}

\* The group gives p to another reader; the one that had it may be busy with
\* a message of p and goes on.
Rebalance(p, r) ==
  /\ assigned[p] # r
  /\ assigned' = [assigned EXCEPT ![p] = r]
  /\ position' = [position EXCEPT ![p] = StartsAt(committed[p], p)]
  /\ dropped' = dropped \union SkippedFrom(committed[p], p)
  /\ UNCHANGED <<topic, marked, committed, handling, stage, tries, deadLettered>>
=============================================================================
