------------------------ MODULE EventConsumerProofs ------------------------
(***************************************************************************)
(* What the shared Kafka consumer guarantees whatever the service does     *)
(* with a message: if processing settles a message, then every message     *)
(* below a committed offset is settled, through retries, crashes,          *)
(* shutdowns and rebalances.                                               *)
(*                                                                         *)
(* The lemmas take one step each.  S and T are the settled messages before *)
(* and after the step, M is what the topics may contain: a service says    *)
(* what settled means, shows that it only grows and that Succeed settles   *)
(* the message at hand, and cites the lemma of each consumer action.       *)
(***************************************************************************)
EXTENDS EventConsumer, TLAPS

Numbers == Nat \ {0}

\* Offsets and messages at hand lie within the topics.
WithinTopics ==
  /\ \A p \in Partitions :
       /\ position[p] <= Len(topic[p])
       /\ marked[p] <= Len(topic[p])
       /\ committed[p] <= Len(topic[p])
  /\ \A r \in Readers : Busy(r) =>
       handling[r][2] \in Numbers /\ handling[r][2] <= Len(topic[handling[r][1]])

\* Offsets pass settled messages only; a reader has passed settled messages
\* and the one it is busy with, and gives its offset out when it is settled.
Behind(S) ==
  /\ \A p \in Partitions, n \in Numbers :
       /\ n <= marked[p] \/ n <= committed[p] => <<p, n>> \in S
       /\ n <= position[p] => <<p, n>> \in S \/ handling[assigned[p]] = <<p, n>>
  /\ \A r \in Readers : Busy(r) =>
       /\ \A n \in Numbers : n < handling[r][2] => <<handling[r][1], n>> \in S
       /\ stage[r] = "commit" => handling[r] \in S

ConsumerInv(M, S) == ConsumerTypeOK(M) /\ WithinTopics /\ Behind(S)

\* A topic is never rewritten.
TopicsGrow ==
  \A p \in Partitions :
    /\ Len(topic[p]) <= Len(topic'[p])
    /\ \A n \in Numbers : n <= Len(topic[p]) => topic'[p][n] = topic[p][n]

LEMMA InitConsumer ==
  ASSUME NEW M, NEW S, NEW first \in [Partitions -> Readers], ConsumerInit(first)
  PROVE  ConsumerInv(M, S)
<1>1. ConsumerTypeOK(M)
  BY ConsumerAssumption DEF ConsumerInit, ConsumerTypeOK, Offsets, NoOffset, Stages
<1>2. WithinTopics
  BY DEF ConsumerInit, WithinTopics, Busy, NoOffset
<1>3. Behind(S)
  BY DEF ConsumerInit, Behind, Busy, NoOffset, Numbers
<1>4. QED
  BY <1>1, <1>2, <1>3 DEF ConsumerInv

LEMMA ProduceKeeps ==
  ASSUME NEW M, NEW S, NEW T, S \subseteq T, ConsumerInv(M, S),
         NEW P, NEW ms \in Seq(M), Produce(P, ms)
  PROVE  ConsumerInv(M, T)' /\ TopicsGrow
<1> USE DEF ConsumerInv
<1>1. /\ topic' \in [Partitions -> Seq(M)]
      /\ TopicsGrow
  BY DEF Produce, ConsumerTypeOK, TopicsGrow, Numbers
<1>2. UNCHANGED <<assigned, position, marked, committed, handling, stage, tries,
                  deadLettered, dropped>>
  BY DEF Produce, groupVars
<1>3. ConsumerTypeOK(M)'
  BY <1>1, <1>2 DEF ConsumerTypeOK
<1>4. \A r \in Readers : Busy(r)' = Busy(r)
  BY <1>2 DEF Busy
<1>5. \A r \in Readers : Busy(r) => handling[r][1] \in Partitions
  BY DEF Busy, ConsumerTypeOK
<1>6. WithinTopics'
  <2>1. \A p \in Partitions :
          /\ Len(topic[p]) \in Nat /\ Len(topic'[p]) \in Nat
          /\ position[p] \in Nat /\ marked[p] \in Int /\ committed[p] \in Int
    BY <1>1 DEF ConsumerTypeOK, Offsets, NoOffset
  <2>2. QED
    BY <1>1, <1>2, <1>4, <1>5, <2>1 DEF WithinTopics, TopicsGrow, Numbers
<1>7. Behind(T)'
  BY <1>2, <1>4 DEF Behind
<1>8. QED
  BY <1>1, <1>3, <1>6, <1>7

\* A reader that is not busy has passed settled messages only.
LEMMA FetchKeeps ==
  ASSUME NEW M, NEW S, NEW T, S \subseteq T, ConsumerInv(M, S),
         NEW r \in Readers, FetchMessage(r)
  PROVE  ConsumerInv(M, T)'
<1> USE DEF ConsumerInv
<1>1. PICK p \in Partitions :
        /\ assigned[p] = r
        /\ position[p] < Len(topic[p])
        /\ handling' = [handling EXCEPT ![r] = <<p, position[p] + 1>>]
        /\ position' = [position EXCEPT ![p] = @ + 1]
  BY DEF FetchMessage
<1>2. /\ ~Busy(r)
      /\ stage' = [stage EXCEPT ![r] = "attempt"]
      /\ tries' = [tries EXCEPT ![r] = 0]
      /\ UNCHANGED <<topic, assigned, marked, committed, deadLettered, dropped>>
  BY DEF FetchMessage
<1>3. position[p] + 1 \in Numbers /\ <<p, position[p] + 1>> \in Partitions \X Nat
  BY DEF ConsumerTypeOK, Numbers
<1>4. ConsumerTypeOK(M)'
  BY <1>1, <1>2, <1>3, ConsumerAssumption DEF ConsumerTypeOK, Stages
<1>5. WithinTopics'
  BY <1>1, <1>2, <1>3 DEF ConsumerTypeOK, WithinTopics, Busy, Numbers
<1>6. Behind(T)'
  <2>1. \A n \in Numbers : n <= position[p] => <<p, n>> \in S
    <3>1. \A n \in Numbers : handling[assigned[p]] # <<p, n>>
      <4>1. handling[assigned[p]] = Nothing
        BY <1>1, <1>2 DEF Busy
      <4>2. \A n \in Numbers : <<p, n>> \in Partitions \X Nat
        BY DEF Numbers
      <4>3. QED
        BY <4>1, <4>2, ConsumerAssumption
    <3>2. QED
      BY <3>1 DEF Behind
  <2>2. \A q \in Partitions, n \in Numbers :
          n <= position'[q] => <<q, n>> \in T \/ handling'[assigned'[q]] = <<q, n>>
    <3> SUFFICES ASSUME NEW q \in Partitions, NEW n \in Numbers, n <= position'[q]
                 PROVE  <<q, n>> \in T \/ handling'[assigned'[q]] = <<q, n>>
      OBVIOUS
    <3>1. CASE q = p
      <4>1. n <= position[p] \/ n = position[p] + 1
        BY <1>1, <3>1 DEF ConsumerTypeOK, Numbers
      <4>2. QED
        BY <1>1, <1>2, <2>1, <3>1, <4>1 DEF ConsumerTypeOK
    <3>2. CASE q # p
      <4>1. n <= position[q]
        BY <1>1, <3>2 DEF ConsumerTypeOK
      <4>2. <<q, n>> \in S \/ handling[assigned[q]] = <<q, n>>
        BY <4>1 DEF Behind
      <4>3. handling[assigned[q]] = <<q, n>> => assigned[q] # r
        <5>1. <<q, n>> \in Partitions \X Nat
          BY DEF Numbers
        <5>2. handling[r] = Nothing /\ <<q, n>> # Nothing
          BY <1>2, <5>1, ConsumerAssumption DEF Busy
        <5>3. QED
          BY <5>2
      <4>4. QED
        BY <1>1, <1>2, <4>2, <4>3 DEF ConsumerTypeOK
    <3>3. QED
      BY <3>1, <3>2
  <2>3. \A o \in Readers : o # r => handling'[o] = handling[o] /\ stage'[o] = stage[o]
    BY <1>1, <1>2 DEF ConsumerTypeOK
  <2>4. handling'[r] = <<p, position[p] + 1>> /\ stage'[r] = "attempt"
    BY <1>1, <1>2 DEF ConsumerTypeOK
  <2>5. \A n \in Numbers : n < position[p] + 1 => n <= position[p]
    BY DEF ConsumerTypeOK, Numbers
  <2>6. \A o \in Readers : Busy(o)' =>
          /\ \A n \in Numbers : n < handling'[o][2] => <<handling'[o][1], n>> \in T
          /\ stage'[o] = "commit" => handling'[o] \in T
    BY <2>1, <2>3, <2>4, <2>5 DEF Behind, Busy
  <2>7. QED
    BY <1>2, <2>2, <2>6 DEF Behind
<1>7. QED
  BY <1>4, <1>5, <1>6

\* Steps at the message at hand: only its stage and the retries change.  The
\* message that is about to be committed is settled.
LEMMA HandlingKeeps ==
  ASSUME NEW M, NEW S, NEW T, S \subseteq T, ConsumerInv(M, S),
         NEW r \in Readers,
         stage' \in [Readers -> Stages],
         \A o \in Readers \ {r} : stage'[o] = stage[o],
         stage'[r] = "commit" => handling[r] \in T,
         tries' \in [Readers -> 0 .. MaxRetries],
         deadLettered' \in SUBSET (Partitions \X Nat),
         dropped' \in SUBSET (Partitions \X Nat),
         UNCHANGED <<topic, groupVars, handling>>
  PROVE  ConsumerInv(M, T)'
<1> USE DEF ConsumerInv
<1>1. UNCHANGED <<topic, assigned, position, marked, committed, handling>>
  BY DEF groupVars
<1>2. ConsumerTypeOK(M)'
  BY <1>1 DEF ConsumerTypeOK
<1>3. WithinTopics'
  BY <1>1 DEF WithinTopics, Busy
<1>4. Behind(T)'
  BY <1>1 DEF Behind, Busy
<1>5. QED
  BY <1>2, <1>3, <1>4

LEMMA SucceedKeeps ==
  ASSUME NEW M, NEW S, NEW T, S \subseteq T, ConsumerInv(M, S),
         NEW r \in Readers, Succeed(r), handling[r] \in T
  PROVE  ConsumerInv(M, T)'
<1>1. ConsumerTypeOK(M)
  BY DEF ConsumerInv
<1>2. /\ stage' \in [Readers -> Stages]
      /\ \A o \in Readers \ {r} : stage'[o] = stage[o]
  BY <1>1 DEF Succeed, ConsumerTypeOK, Stages
<1>3. /\ tries' \in [Readers -> 0 .. MaxRetries]
      /\ deadLettered' \in SUBSET (Partitions \X Nat)
      /\ dropped' \in SUBSET (Partitions \X Nat)
      /\ UNCHANGED <<topic, groupVars, handling>>
  BY <1>1 DEF Succeed, ConsumerTypeOK
<1>4. QED
  BY <1>2, <1>3, HandlingKeeps

LEMMA FailAttemptKeeps ==
  ASSUME NEW M, NEW S, NEW T, S \subseteq T, ConsumerInv(M, S),
         NEW r \in Readers, FailAttempt(r)
  PROVE  ConsumerInv(M, T)'
<1>1. ConsumerTypeOK(M)
  BY DEF ConsumerInv
<1>2. /\ stage' \in [Readers -> Stages]
      /\ \A o \in Readers \ {r} : stage'[o] = stage[o]
      /\ stage'[r] # "commit"
  BY <1>1 DEF FailAttempt, Attempting, ConsumerTypeOK, Stages
<1>3. tries' \in [Readers -> 0 .. MaxRetries]
  <2>1. tries[r] \in 0 .. MaxRetries /\ MaxRetries \in Nat
    BY <1>1, ConsumerAssumption DEF ConsumerTypeOK
  <2>2. CASE tries[r] < MaxRetries
    <3>1. tries[r] + 1 \in 0 .. MaxRetries
      BY <2>1, <2>2
    <3>2. tries' = [tries EXCEPT ![r] = @ + 1]
      BY <2>2 DEF FailAttempt
    <3>3. QED
      BY <1>1, <3>1, <3>2 DEF ConsumerTypeOK
  <2>3. CASE ~(tries[r] < MaxRetries)
    BY <1>1, <2>3 DEF FailAttempt, ConsumerTypeOK
  <2>4. QED
    BY <2>2, <2>3
<1>4. /\ deadLettered' \in SUBSET (Partitions \X Nat)
      /\ dropped' \in SUBSET (Partitions \X Nat)
      /\ UNCHANGED <<topic, groupVars, handling>>
  BY <1>1 DEF FailAttempt, ConsumerTypeOK
<1>5. QED
  BY <1>2, <1>3, <1>4, HandlingKeeps

LEMMA DeadLetterKeeps ==
  ASSUME NEW M, NEW S, NEW T, S \subseteq T, ConsumerInv(M, S),
         deadLettered' \union dropped' \subseteq T,
         NEW r \in Readers, DeadLetter(r)
  PROVE  ConsumerInv(M, T)'
<1>1. ConsumerTypeOK(M)
  BY DEF ConsumerInv
<1>2. /\ stage' \in [Readers -> Stages]
      /\ \A o \in Readers \ {r} : stage'[o] = stage[o]
  BY <1>1 DEF DeadLetter, ConsumerTypeOK, Stages
<1>3. handling[r] \in Partitions \X Nat
  BY <1>1 DEF DeadLetter, Busy, ConsumerTypeOK
<1>4. /\ tries' \in [Readers -> 0 .. MaxRetries]
      /\ deadLettered' \in SUBSET (Partitions \X Nat)
      /\ dropped' \in SUBSET (Partitions \X Nat)
      /\ UNCHANGED <<topic, groupVars, handling>>
  BY <1>1, <1>3 DEF DeadLetter, ConsumerTypeOK
<1>5. handling[r] \in T
  BY DEF DeadLetter
<1>6. QED
  BY <1>2, <1>4, <1>5, HandlingKeeps

\* An offset is given out for a message that is settled, as is all before it.
LEMMA CommitKeeps ==
  ASSUME NEW M, NEW S, NEW T, S \subseteq T, ConsumerInv(M, S),
         NEW r \in Readers, CommitMessages(r)
  PROVE  ConsumerInv(M, T)'
<1> USE DEF ConsumerInv
<1> DEFINE p == handling[r][1]
           offset == handling[r][2]
<1>1. /\ Busy(r)
      /\ stage[r] = "commit"
      /\ handling' = [handling EXCEPT ![r] = Nothing]
      /\ stage' = [stage EXCEPT ![r] = "attempt"]
      /\ tries' = [tries EXCEPT ![r] = 0]
      /\ UNCHANGED <<topic, assigned, position, deadLettered, dropped>>
  BY DEF CommitMessages
<1>2. /\ p \in Partitions /\ offset \in Numbers /\ offset <= Len(topic[p])
      /\ handling[r] = <<p, offset>>
  BY <1>1 DEF ConsumerTypeOK, WithinTopics, Busy
<1>3. \A n \in Numbers : n <= offset => <<p, n>> \in S
  BY <1>1, <1>2 DEF Behind, Numbers
<1>4. /\ marked' \in {marked, [marked EXCEPT ![p] = offset]}
      /\ committed' \in {committed, [committed EXCEPT ![p] = offset]}
  BY DEF CommitMessages
<1> HIDE DEF p, offset
<1>5. ConsumerTypeOK(M)'
  <2>1. offset \in Offsets
    BY <1>2 DEF Offsets, Numbers
  <2>2. marked' \in [Partitions -> Offsets] /\ committed' \in [Partitions -> Offsets]
    BY <1>2, <1>4, <2>1 DEF ConsumerTypeOK
  <2>3. /\ handling' \in [Readers -> (Partitions \X Nat) \union {Nothing}]
        /\ stage' \in [Readers -> Stages]
        /\ tries' \in [Readers -> 0 .. MaxRetries]
    BY <1>1, ConsumerAssumption DEF ConsumerTypeOK, Stages
  <2>4. QED
    BY <1>1, <2>2, <2>3 DEF ConsumerTypeOK
<1>6. \A o \in Readers \ {r} : handling'[o] = handling[o] /\ stage'[o] = stage[o]
  BY <1>1 DEF ConsumerTypeOK
<1>7. handling'[r] = Nothing
  BY <1>1 DEF ConsumerTypeOK
<1>8. \A q \in Partitions :
        /\ marked'[q] = marked[q] \/ (q = p /\ marked'[q] = offset)
        /\ committed'[q] = committed[q] \/ (q = p /\ committed'[q] = offset)
  BY <1>4 DEF ConsumerTypeOK
<1>9. WithinTopics'
  BY <1>1, <1>2, <1>6, <1>7, <1>8 DEF WithinTopics, Busy
<1>10. Behind(T)'
  <2>1. \A q \in Partitions, n \in Numbers : n <= marked'[q] \/ n <= committed'[q] => <<q, n>> \in T
    BY <1>3, <1>8 DEF Behind
  <2>2. \A q \in Partitions, n \in Numbers :
          n <= position'[q] => <<q, n>> \in T \/ handling'[assigned'[q]] = <<q, n>>
    <3> SUFFICES ASSUME NEW q \in Partitions, NEW n \in Numbers, n <= position[q]
                 PROVE  <<q, n>> \in T \/ handling'[assigned[q]] = <<q, n>>
      BY <1>1
    <3>1. <<q, n>> \in S \/ handling[assigned[q]] = <<q, n>>
      BY DEF Behind
    <3>2. assigned[q] = r /\ handling[r] = <<q, n>> => <<q, n>> \in S
      BY <1>2, <1>3 DEF Numbers
    <3>3. QED
      BY <1>6, <3>1, <3>2 DEF ConsumerTypeOK
  <2>3. \A o \in Readers : Busy(o)' =>
          /\ \A n \in Numbers : n < handling'[o][2] => <<handling'[o][1], n>> \in T
          /\ stage'[o] = "commit" => handling'[o] \in T
    BY <1>6, <1>7 DEF Behind, Busy
  <2>4. QED
    BY <2>1, <2>2, <2>3 DEF Behind
<1>11. QED
  BY <1>5, <1>9, <1>10

-----------------------------------------------------------------------------

\* The readers R start again from offsets below which all is settled.
LEMMA RestartedKeeps ==
  ASSUME NEW M, NEW S, NEW T, S \subseteq T, ConsumerInv(M, S),
         NEW R, NEW offset \in [Partitions -> Offsets],
         \A p \in Partitions : offset[p] <= Len(topic[p]),
         \A p \in Partitions, n \in Numbers : n <= offset[p] => <<p, n>> \in T,
         Restarted(R, offset),
         Unseen(R, offset) \subseteq dropped', dropped' \subseteq T,
         dropped' \in SUBSET (Partitions \X Nat)
  PROVE  ConsumerInv(M, T)'
<1> USE DEF ConsumerInv
<1>1. /\ UNCHANGED <<topic, assigned, deadLettered>>
      /\ marked' = offset
  BY DEF Restarted
<1>2. \A p \in Partitions :
        /\ committed'[p] = committed[p] \/ committed'[p] = offset[p]
        /\ assigned[p] \in R => position'[p] = StartsAt(offset[p], p)
        /\ assigned[p] \notin R => position'[p] = position[p]
  BY DEF Restarted
<1>3. \A r \in Readers :
        /\ r \in R => handling'[r] = Nothing
        /\ r \notin R => handling'[r] = handling[r] /\ stage'[r] = stage[r]
  BY DEF Restarted
<1>4. \A p \in Partitions :
        /\ Len(topic[p]) \in Nat
        /\ offset[p] \in Offsets
        /\ StartsAt(offset[p], p) \in Nat /\ StartsAt(offset[p], p) <= Len(topic[p])
  BY DEF ConsumerTypeOK, StartsAt, Offsets, NoOffset
<1>5. ConsumerTypeOK(M)'
  <2>1. committed' \in [Partitions -> Offsets]
    BY DEF Restarted, ConsumerTypeOK
  <2>2. position' \in [Partitions -> Nat]
    BY <1>4 DEF Restarted, ConsumerTypeOK
  <2>3. handling' \in [Readers -> (Partitions \X Nat) \union {Nothing}]
    BY DEF Restarted, ConsumerTypeOK
  <2>4. stage' \in [Readers -> Stages] /\ tries' \in [Readers -> 0 .. MaxRetries]
    BY ConsumerAssumption DEF Restarted, ConsumerTypeOK, Stages
  <2>5. QED
    BY <1>1, <2>1, <2>2, <2>3, <2>4 DEF ConsumerTypeOK
<1>6. WithinTopics'
  BY <1>1, <1>2, <1>3, <1>4 DEF WithinTopics, Busy
<1>7. Behind(T)'
  <2>1. \A p \in Partitions, n \in Numbers : n <= marked'[p] \/ n <= committed'[p] => <<p, n>> \in T
    BY <1>1, <1>2 DEF Behind
  <2>2. \A p \in Partitions, n \in Numbers :
          n <= position'[p] => <<p, n>> \in T \/ handling'[assigned'[p]] = <<p, n>>
    <3> SUFFICES ASSUME NEW p \in Partitions, NEW n \in Numbers, n <= position'[p]
                 PROVE  <<p, n>> \in T \/ handling'[assigned[p]] = <<p, n>>
      BY <1>1
    <3>1. CASE assigned[p] \notin R
      <4>1. <<p, n>> \in S \/ handling[assigned[p]] = <<p, n>>
        BY <1>2, <3>1 DEF Behind
      <4>2. QED
        BY <1>3, <3>1, <4>1 DEF ConsumerTypeOK
    <3>2. CASE assigned[p] \in R
      <4>1. CASE offset[p] = NoOffset
        <5>1. n \in 1 .. Len(topic[p])
          BY <1>2, <1>4, <3>2, <4>1 DEF StartsAt, Numbers
        <5>2. <<p, n>> \in SkippedFrom(offset[p], p)
          BY <4>1, <5>1 DEF SkippedFrom
        <5>3. QED
          BY <3>2, <5>2 DEF Unseen, PartitionsOf
      <4>2. CASE offset[p] # NoOffset
        BY <1>2, <3>2, <4>2 DEF StartsAt
      <4>3. QED
        BY <4>1, <4>2
    <3>3. QED
      BY <3>1, <3>2
  <2>3. \A r \in Readers : Busy(r)' =>
          /\ \A n \in Numbers : n < handling'[r][2] => <<handling'[r][1], n>> \in T
          /\ stage'[r] = "commit" => handling'[r] \in T
    BY <1>3 DEF Behind, Busy
  <2>4. QED
    BY <2>1, <2>2, <2>3 DEF Behind
<1>8. QED
  BY <1>5, <1>6, <1>7

\* What a restart leaves is an offset given out, or the committed one, or one
\* between them.
LEMMA SurvivingOffsets ==
  ASSUME NEW M, ConsumerTypeOK(M), NEW R, NEW last \in [Partitions -> Offsets],
         NEW f \in Survivors(R, last)
  PROVE  /\ Over(f, last) \in [Partitions -> Offsets]
         /\ \A p \in Partitions :
              Over(f, last)[p] <= last[p] \/ Over(f, last)[p] <= committed[p]
<1>1. DOMAIN f = PartitionsOf(R)
  BY DEF Survivors
<1>2. \A p \in PartitionsOf(R) : f[p] \in Reached(p, last[p])
  BY DEF Survivors
<1>3. \A p \in Partitions : last[p] \in Int /\ last[p] \in Offsets /\ committed[p] \in Offsets
  BY DEF ConsumerTypeOK, Offsets, NoOffset
<1>4. \A p \in Partitions : \A o \in Reached(p, last[p]) :
        o \in Offsets /\ (o <= last[p] \/ o <= committed[p])
  BY <1>3 DEF Reached, Offsets, NoOffset
<1>5. \A p \in Partitions :
        Over(f, last)[p] = last[p] \/ Over(f, last)[p] \in Reached(p, last[p])
  BY <1>1, <1>2 DEF Over, PartitionsOf
<1>6. \A p \in Partitions : Over(f, last)[p] \in Offsets
  BY <1>3, <1>4, <1>5
<1>7. QED
  BY <1>3, <1>4, <1>5, <1>6 DEF Over, Offsets, NoOffset

LEMMA CrashKeeps ==
  ASSUME NEW M, NEW S, NEW T, S \subseteq T, ConsumerInv(M, S), dropped' \subseteq T,
         NEW R, CrashReaders(R)
  PROVE  ConsumerInv(M, T)'
<1> USE DEF ConsumerInv
<1>1. PICK f \in Survivors(R, marked) :
        /\ Restarted(R, Over(f, marked))
        /\ dropped' = dropped \union Unseen(R, Over(f, marked))
  BY DEF CrashReaders
<1> DEFINE offset == Over(f, marked)
<1>2. marked \in [Partitions -> Offsets]
  BY DEF ConsumerTypeOK
<1>3. /\ offset \in [Partitions -> Offsets]
      /\ \A p \in Partitions : offset[p] <= marked[p] \/ offset[p] <= committed[p]
  BY <1>2, SurvivingOffsets
<1> HIDE DEF offset
<1>4. \A p \in Partitions :
        /\ offset[p] \in Int /\ marked[p] \in Int /\ committed[p] \in Int
        /\ Len(topic[p]) \in Nat
  BY <1>3 DEF ConsumerTypeOK, Offsets, NoOffset
<1>5. \A p \in Partitions : offset[p] <= Len(topic[p])
  BY <1>3, <1>4 DEF WithinTopics
<1>6. \A p \in Partitions, n \in Numbers : n <= offset[p] => <<p, n>> \in T
  BY <1>3, <1>4 DEF Behind, Numbers
<1>7. dropped' \in SUBSET (Partitions \X Nat)
  BY <1>1 DEF ConsumerTypeOK, Unseen, SkippedFrom, PartitionsOf
<1>8. QED
  BY <1>1, <1>3, <1>5, <1>6, <1>7, RestartedKeeps DEF offset

\* A shutdown may give out the offset of the message at hand, which is then
\* settled, or dropped.
LEMMA ShutdownKeeps ==
  ASSUME NEW M, NEW S, NEW T, S \subseteq T, ConsumerInv(M, S), dropped' \subseteq T,
         NEW R \in SUBSET Readers, ShutdownReaders(R)
  PROVE  ConsumerInv(M, T)'
<1> USE DEF ConsumerInv
<1>1. PICK C \in SUBSET {r \in R : Busy(r)} :
        LET last == [p \in Partitions |->
                       IF \E r \in C : handling[r][1] = p
                       THEN handling[CHOOSE r \in C : handling[r][1] = p][2]
                       ELSE marked[p]]
        IN \E f \in Survivors(R, last) :
             LET offset == Over(f, last)
             IN /\ Restarted(R, offset)
                /\ dropped' = dropped \union Unseen(R, offset)
                     \union {handling[r] : r \in {s \in C :
                         stage[s] # "commit" /\ handling[s][2] <= offset[handling[s][1]]}}
  BY DEF ShutdownReaders
<1> DEFINE Last(p) == CHOOSE r \in C : handling[r][1] = p
           last == [p \in Partitions |->
                      IF \E r \in C : handling[r][1] = p
                      THEN handling[Last(p)][2] ELSE marked[p]]
<1>2. PICK f \in Survivors(R, last) :
        /\ Restarted(R, Over(f, last))
        /\ dropped' = dropped \union Unseen(R, Over(f, last))
             \union {handling[r] : r \in {s \in C :
                 stage[s] # "commit" /\ handling[s][2] <= Over(f, last)[handling[s][1]]}}
  BY <1>1
<1>3. \A r \in C :
        /\ r \in Readers /\ Busy(r)
        /\ handling[r] \in Partitions \X Nat /\ handling[r][2] \in Numbers
        /\ handling[r][2] <= Len(topic[handling[r][1]])
  BY DEF Busy, ConsumerTypeOK, WithinTopics
<1>4. \A p \in Partitions :
        \/ last[p] = marked[p]
        \/ Last(p) \in C /\ handling[Last(p)] = <<p, last[p]>>
  <2> SUFFICES ASSUME NEW p \in Partitions, \E r \in C : handling[r][1] = p
               PROVE  Last(p) \in C /\ handling[Last(p)] = <<p, last[p]>>
    OBVIOUS
  <2>1. Last(p) \in C /\ handling[Last(p)][1] = p
    OBVIOUS
  <2>2. last[p] = handling[Last(p)][2]
    OBVIOUS
  <2>3. QED
    BY <1>3, <2>1, <2>2
<1> HIDE DEF Last
<1>5. \A p \in Partitions : last[p] \in Offsets /\ last[p] <= Len(topic[p])
  <2>1. \A p \in Partitions : marked[p] \in Offsets /\ marked[p] <= Len(topic[p])
    BY DEF ConsumerTypeOK, WithinTopics
  <2> HIDE DEF last
  <2>2. QED
    BY <1>3, <1>4, <2>1 DEF Offsets, Numbers
<1>6. last \in [Partitions -> Offsets]
  BY <1>5
<1> HIDE DEF last
<1> DEFINE offset == Over(f, last)
<1>7. /\ offset \in [Partitions -> Offsets]
      /\ \A p \in Partitions : offset[p] <= last[p] \/ offset[p] <= committed[p]
  BY <1>6, SurvivingOffsets
<1>8. \A p \in Partitions :
        /\ offset[p] \in Int /\ last[p] \in Int /\ committed[p] \in Int
        /\ Len(topic[p]) \in Nat
  BY <1>6, <1>7 DEF ConsumerTypeOK, Offsets, NoOffset
<1>9. /\ Restarted(R, offset) /\ Unseen(R, offset) \subseteq dropped'
      /\ \A s \in C : stage[s] # "commit" /\ handling[s][2] <= offset[handling[s][1]]
            => handling[s] \in dropped'
      /\ dropped' \subseteq dropped \union Unseen(R, offset) \union {handling[s] : s \in C}
  BY <1>2
<1> HIDE DEF offset
<1>10. \A p \in Partitions : offset[p] <= Len(topic[p])
  BY <1>5, <1>7, <1>8 DEF WithinTopics
<1>11. \A p \in Partitions, n \in Numbers : n <= offset[p] => <<p, n>> \in T
  <2> SUFFICES ASSUME NEW p \in Partitions, NEW n \in Numbers, n <= offset[p]
               PROVE  <<p, n>> \in T
    OBVIOUS
  <2>1. CASE n <= committed[p] \/ n <= marked[p]
    BY <2>1 DEF Behind
  <2>2. CASE ~(n <= committed[p]) /\ ~(n <= marked[p])
    <3>1. n <= last[p]
      BY <1>7, <1>8, <2>2 DEF Numbers
    <3>2. Last(p) \in C /\ handling[Last(p)] = <<p, last[p]>>
      BY <1>4, <2>2, <3>1
    <3>3. CASE n < last[p]
      BY <1>3, <3>2, <3>3 DEF Behind
    <3>4. CASE n = last[p] /\ stage[Last(p)] = "commit"
      BY <1>3, <3>2, <3>4 DEF Behind
    <3>5. CASE n = last[p] /\ stage[Last(p)] # "commit"
      BY <1>9, <3>2, <3>5
    <3>6. QED
      BY <1>8, <3>1, <3>3, <3>4, <3>5 DEF Numbers
  <2>3. QED
    BY <2>1, <2>2
<1>12. dropped' \in SUBSET (Partitions \X Nat)
  <2>1. Unseen(R, offset) \in SUBSET (Partitions \X Nat)
    BY DEF Unseen, SkippedFrom, PartitionsOf
  <2>2. QED
    BY <1>3, <1>9, <2>1 DEF ConsumerTypeOK
<1>13. QED
  BY <1>7, <1>9, <1>10, <1>11, <1>12, RestartedKeeps

\* The new reader of a partition starts behind what is committed, or skips
\* what is there.
LEMMA RebalanceKeeps ==
  ASSUME NEW M, NEW S, NEW T, S \subseteq T, ConsumerInv(M, S), dropped' \subseteq T,
         NEW p \in Partitions, NEW r \in Readers, Rebalance(p, r)
  PROVE  ConsumerInv(M, T)'
<1> USE DEF ConsumerInv
<1>1. /\ assigned' = [assigned EXCEPT ![p] = r]
      /\ position' = [position EXCEPT ![p] = StartsAt(committed[p], p)]
      /\ dropped' = dropped \union SkippedFrom(committed[p], p)
      /\ UNCHANGED <<topic, marked, committed, handling, stage, tries, deadLettered>>
  BY DEF Rebalance
<1>2. /\ StartsAt(committed[p], p) \in Nat
      /\ StartsAt(committed[p], p) <= Len(topic[p])
  BY DEF ConsumerTypeOK, WithinTopics, StartsAt, Offsets
<1>3. SkippedFrom(committed[p], p) \in SUBSET (Partitions \X Nat)
  BY DEF SkippedFrom
<1>4. ConsumerTypeOK(M)'
  BY <1>1, <1>2, <1>3 DEF ConsumerTypeOK
<1>5. WithinTopics'
  BY <1>1, <1>2 DEF ConsumerTypeOK, WithinTopics, Busy
<1>6. Behind(T)'
  <2>1. \A n \in Numbers : n <= StartsAt(committed[p], p) => <<p, n>> \in T
    <3>1. CASE committed[p] = NoOffset
      <4> SUFFICES ASSUME NEW n \in Numbers, n <= StartsAt(committed[p], p)
                   PROVE  <<p, n>> \in T
        OBVIOUS
      <4>1. n \in 1 .. Len(topic[p])
        BY <3>1 DEF StartsAt, Numbers, ConsumerTypeOK
      <4>2. <<p, n>> \in SkippedFrom(committed[p], p)
        BY <3>1, <4>1 DEF SkippedFrom
      <4>3. QED
        BY <1>1, <4>2
    <3>2. CASE committed[p] # NoOffset
      BY <3>2 DEF StartsAt, Behind
    <3>3. QED
      BY <3>1, <3>2
  <2>2. \A q \in Partitions, n \in Numbers :
          n <= position'[q] => <<q, n>> \in T \/ handling'[assigned'[q]] = <<q, n>>
    <3> SUFFICES ASSUME NEW q \in Partitions, NEW n \in Numbers, n <= position'[q]
                 PROVE  <<q, n>> \in T \/ handling'[assigned'[q]] = <<q, n>>
      OBVIOUS
    <3>1. CASE q = p
      BY <1>1, <2>1, <3>1 DEF ConsumerTypeOK
    <3>2. CASE q # p
      BY <1>1, <3>2 DEF ConsumerTypeOK, Behind
    <3>3. QED
      BY <3>1, <3>2
  <2>3. QED
    BY <1>1, <2>2 DEF Behind, Busy
<1>7. QED
  BY <1>4, <1>5, <1>6

\* Steps of the service that leave the consumer alone.
LEMMA OthersKeep ==
  ASSUME NEW M, NEW S, NEW T, S \subseteq T, ConsumerInv(M, S), UNCHANGED consumerVars
  PROVE  ConsumerInv(M, T)'
<1> USE DEF ConsumerInv, consumerVars
<1>1. ConsumerTypeOK(M)' /\ WithinTopics'
  BY DEF ConsumerTypeOK, WithinTopics, Busy
<1>2. Behind(T)'
  BY DEF Behind, Busy
<1>3. QED
  BY <1>1, <1>2
=============================================================================
