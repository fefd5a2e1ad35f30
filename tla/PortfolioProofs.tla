-------------------------- MODULE PortfolioProofs --------------------------
(***************************************************************************)
(* Theorems about the portfolio service, for any number of processes,      *)
(* partitions, messages, users and faults.                                 *)
(***************************************************************************)
EXTENDS PortfolioService, EventConsumerProofs, FoldLemmas

-----------------------------------------------------------------------------
(***************************************************************************)
(* Every message passed is accounted for                                   *)
(***************************************************************************)

\* The messages that are applied, dead-lettered or given up.
Settled ==
  deadLettered \union dropped \union
    {q \in Partitions \X Numbers : q[2] <= Len(topic[q[1]]) /\ TradeApplied(q[1], q[2])}

PassedInv == ledger \in Seq(Messages) /\ ConsumerInv(Messages, Settled)

LedgerGrows ==
  \A i \in DOMAIN ledger : i \in DOMAIN ledger' /\ ledger'[i] = ledger[i]
DropsGrow ==
  deadLettered \subseteq deadLettered' /\ dropped \subseteq dropped'

\* What is settled stays settled.
LEMMA SettledGrows ==
  ASSUME \A p \in Partitions : topic[p] \in Seq(Messages) /\ topic'[p] \in Seq(Messages),
         TopicsGrow, LedgerGrows, DropsGrow
  PROVE  Settled \subseteq Settled'
<1> SUFFICES ASSUME NEW p \in Partitions, NEW n \in Numbers,
                    n <= Len(topic[p]), TradeApplied(p, n)
             PROVE  n <= Len(topic'[p]) /\ TradeApplied(p, n)'
  BY DEF Settled, DropsGrow
<1>1. n <= Len(topic'[p])
  BY DEF TopicsGrow, Numbers
<1>2. topic'[p][n] = topic[p][n]
  BY DEF TopicsGrow
<1>3. TradeApplied(p, n)'
  BY <1>2 DEF TradeApplied, LedgerGrows
<1>4. QED
  BY <1>1, <1>3

LEMMA SameTopics ==
  ASSUME ConsumerTypeOK(Messages), UNCHANGED topic
  PROVE  /\ TopicsGrow
         /\ \A p \in Partitions : topic[p] \in Seq(Messages) /\ topic'[p] \in Seq(Messages)
  BY DEF ConsumerTypeOK, TopicsGrow, Numbers

\* The message of a busy reader.
LEMMA AtHand ==
  ASSUME ConsumerTypeOK(Messages), WithinTopics, NEW r \in Readers, Busy(r)
  PROVE  /\ handling[r] \in Partitions \X Numbers
         /\ handling[r][2] <= Len(topic[handling[r][1]])
         /\ Message(r) \in Messages
<1>1. /\ handling[r] \in Partitions \X Nat
      /\ handling[r][2] \in Numbers
      /\ handling[r][2] <= Len(topic[handling[r][1]])
  BY DEF ConsumerTypeOK, WithinTopics, Busy
<1>2. topic[handling[r][1]] \in Seq(Messages)
  BY <1>1 DEF ConsumerTypeOK
<1>3. Message(r) \in Messages
  BY <1>1, <1>2 DEF Message, Numbers
<1>4. QED
  BY <1>1, <1>3

LEMMA InitPassed ==
  ASSUME Init
  PROVE  PassedInv
<1>1. ConsumerInv(Messages, Settled)
  BY PortfolioAssumption, InitConsumer DEF Init
<1>2. QED
  BY <1>1 DEF Init, PassedInv

\* A message that needs no row, or has one, is settled by Succeed.
LEMMA SucceedSettles ==
  ASSUME PassedInv, NEW r \in Readers, Succeed(r), LedgerGrows,
         ledger' \in Seq(Messages),
         TradeApplied(handling[r][1], handling[r][2])'
  PROVE  PassedInv'
<1> USE DEF PassedInv
<1>1. ConsumerTypeOK(Messages) /\ WithinTopics
  BY DEF ConsumerInv
<1>2. UNCHANGED <<topic, handling, deadLettered, dropped>> /\ Busy(r)
  BY DEF Succeed, Attempting
<1>3. Settled \subseteq Settled'
  BY <1>1, <1>2, SameTopics, SettledGrows DEF DropsGrow
<1>4. handling[r] \in Settled'
  BY <1>1, <1>2, AtHand DEF Settled
<1>5. PICK T : T = Settled'
  OBVIOUS
<1>6. ConsumerInv(Messages, T)'
  BY <1>3, <1>4, <1>5, SucceedKeeps
<1>7. QED
  BY <1>5, <1>6 DEF ConsumerInv, Behind

\* The attempts that fail, whatever they wrote.
LEMMA FailPasses ==
  ASSUME PassedInv, NEW r \in Readers, FailAttempt(r), LedgerGrows, ledger' \in Seq(Messages)
  PROVE  PassedInv'
<1> USE DEF PassedInv
<1>1. ConsumerTypeOK(Messages)
  BY DEF ConsumerInv
<1>2. UNCHANGED <<topic, deadLettered, dropped>>
  BY DEF FailAttempt
<1>3. Settled \subseteq Settled'
  BY <1>1, <1>2, SameTopics, SettledGrows DEF DropsGrow
<1>4. PICK T : T = Settled'
  OBVIOUS
<1>5. ConsumerInv(Messages, T)'
  BY <1>3, <1>4, FailAttemptKeeps
<1>6. QED
  BY <1>4, <1>5 DEF ConsumerInv, Behind

LEMMA SameLedger ==
  ASSUME UNCHANGED ledger
  PROVE  LedgerGrows
BY DEF LedgerGrows

\* The execution is appended with the message at hand.
LEMMA AppliedSettles ==
  ASSUME PassedInv, NEW r \in Readers, Attempting(r), UNCHANGED <<topic, handling>>,
         ledger' = Append(ledger, Message(r))
  PROVE  /\ LedgerGrows
         /\ ledger' \in Seq(Messages)
         /\ TradeApplied(handling[r][1], handling[r][2])'
<1>1. Message(r) \in Messages /\ ledger \in Seq(Messages)
  BY AtHand DEF PassedInv, ConsumerInv, Attempting
<1>2. ledger' \in Seq(Messages) /\ LedgerGrows
  BY <1>1 DEF LedgerGrows
<1>3. Len(ledger') \in DOMAIN ledger' /\ ledger'[Len(ledger')] = Message(r)
  BY <1>1
<1>4. TradeApplied(handling[r][1], handling[r][2])'
  BY <1>3 DEF TradeApplied, Message
<1>5. QED
  BY <1>2, <1>4

\* The steps of a transaction.
LEMMA TransactionPasses ==
  ASSUME PassedInv, NEW r \in Readers,
         \/ SkipOther(r) \/ RejectInvalid(r) \/ BeginTransaction(r) \/ SkipDuplicate(r)
         \/ LockBuyer(r) \/ LockSeller(r) \/ ApplyTradeExecution(r) \/ RefuseTrade(r)
         \/ DeadlockVictim(r) \/ DatabaseError(r)
  PROVE  PassedInv'
<1>1. CASE SkipOther(r)
  <2>1. Succeed(r) /\ UNCHANGED ledger /\ UNCHANGED <<topic, handling>>
    BY <1>1 DEF SkipOther, books, Succeed
  <2>2. TradeApplied(handling[r][1], handling[r][2])'
    BY <1>1, <2>1 DEF SkipOther, Event, Message, TradeApplied
  <2>3. QED
    BY <2>1, <2>2, SameLedger, SucceedSettles DEF PassedInv
<1>2. CASE RejectInvalid(r)
  BY <1>2, SameLedger, FailPasses DEF RejectInvalid, books, PassedInv
<1>3. CASE BeginTransaction(r) \/ LockBuyer(r) \/ LockSeller(r)
  <2>1. UNCHANGED <<consumerVars, ledger>>
    BY <1>3 DEF BeginTransaction, LockBuyer, LockSeller, books
  <2>2. Settled' = Settled
    BY <2>1 DEF consumerVars, Settled, TradeApplied
  <2>3. PICK T : T = Settled'
    OBVIOUS
  <2>4. ConsumerInv(Messages, T)'
    BY <2>1, <2>2, <2>3, OthersKeep DEF PassedInv
  <2>5. QED
    BY <2>1, <2>3, <2>4 DEF PassedInv, ConsumerInv, Behind
<1>4. CASE SkipDuplicate(r)
  <2>1. PICK i \in RowsOf(Event(r).executionId) :
          IF PayloadHash(Body[ledger[i]]) = PayloadHash(Event(r))
          THEN Succeed(r) ELSE FailAttempt(r)
    BY <1>4 DEF SkipDuplicate
  <2>2. UNCHANGED ledger
    BY <1>4 DEF SkipDuplicate, books
  <2>3. CASE PayloadHash(Body[ledger[i]]) = PayloadHash(Event(r))
    <3>1. Succeed(r) /\ UNCHANGED <<topic, handling>>
      BY <2>1, <2>3 DEF Succeed
    <3>2. TradeApplied(handling[r][1], handling[r][2])'
      BY <2>2, <2>3, <3>1 DEF Event, Message, TradeApplied, RowsOf
    <3>3. QED
      BY <2>2, <3>1, <3>2, SameLedger, SucceedSettles DEF PassedInv
  <2>4. CASE PayloadHash(Body[ledger[i]]) # PayloadHash(Event(r))
    BY <2>1, <2>2, <2>4, SameLedger, FailPasses DEF PassedInv
  <2>5. QED
    BY <2>3, <2>4
<1>5. CASE ApplyTradeExecution(r)
  <2>1. ledger' = Append(ledger, Message(r))
    BY <1>5 DEF ApplyTradeExecution, WriteBooks
  <2>2. Attempting(r) /\ UNCHANGED <<topic, handling>>
    BY <1>5 DEF ApplyTradeExecution, Succeed, FailAttempt
  <2>3. /\ LedgerGrows /\ ledger' \in Seq(Messages)
        /\ TradeApplied(handling[r][1], handling[r][2])'
    BY <2>1, <2>2, AppliedSettles
  <2>4. CASE Succeed(r)
    BY <2>3, <2>4, SucceedSettles
  <2>5. CASE FailAttempt(r)
    BY <2>3, <2>5, FailPasses
  <2>6. QED
    BY <1>5, <2>4, <2>5 DEF ApplyTradeExecution
<1>6. CASE RefuseTrade(r) \/ DeadlockVictim(r) \/ DatabaseError(r)
  BY <1>6, SameLedger, FailPasses DEF RefuseTrade, DeadlockVictim, DatabaseError, books, PassedInv
<1>7. QED
  BY <1>1, <1>2, <1>3, <1>4, <1>5, <1>6

\* The consumer's own steps.
LEMMA ConsumingPasses ==
  ASSUME PassedInv, UNCHANGED ledger,
         \/ \E p \in Partitions : Produce({p}, Feed[p])
         \/ \E r \in Readers : \/ FetchMessage(r) \/ DeadLetter(r) \/ CommitMessages(r)
                              \/ CrashReaders({r}) \/ ShutdownReaders({r})
         \/ \E p \in Partitions, r \in Readers : Rebalance(p, r)
         \/ UNCHANGED consumerVars
  PROVE  PassedInv'
<1> USE DEF PassedInv
<1>1. ConsumerTypeOK(Messages) /\ LedgerGrows
  BY SameLedger DEF ConsumerInv
<1>2. PICK T : T = Settled'
  OBVIOUS
<1>3. ConsumerInv(Messages, T)' => PassedInv'
  BY <1>2 DEF ConsumerInv, Behind
<1>4. deadLettered' \union dropped' \subseteq T
  BY <1>2 DEF Settled
<1>5. ASSUME UNCHANGED topic, DropsGrow
      PROVE  Settled \subseteq T
  BY <1>1, <1>2, <1>5, SameTopics, SettledGrows
<1>6. ASSUME NEW p \in Partitions, Produce({p}, Feed[p])
      PROVE  ConsumerInv(Messages, T)'
  <2>1. Feed[p] \in Seq(Messages)
    BY PortfolioAssumption
  <2>2. TopicsGrow /\ DropsGrow
    BY <1>6, <2>1, ProduceKeeps DEF Produce, DropsGrow
  <2>3. \A q \in Partitions : topic[q] \in Seq(Messages) /\ topic'[q] \in Seq(Messages)
    BY <1>1, <1>6, <2>1 DEF Produce, ConsumerTypeOK
  <2>4. Settled \subseteq T
    BY <1>1, <1>2, <2>2, <2>3, SettledGrows
  <2>5. QED
    BY <1>6, <2>1, <2>4, ProduceKeeps
<1>7. ASSUME NEW r \in Readers
      PROVE  /\ FetchMessage(r) => ConsumerInv(Messages, T)'
             /\ DeadLetter(r) => ConsumerInv(Messages, T)'
             /\ CommitMessages(r) => ConsumerInv(Messages, T)'
  <2>1. CASE FetchMessage(r)
    BY <1>5, <2>1, FetchKeeps DEF FetchMessage, DropsGrow
  <2>2. CASE DeadLetter(r)
    BY <1>4, <1>5, <2>2, DeadLetterKeeps DEF DeadLetter, DropsGrow
  <2>3. CASE CommitMessages(r)
    BY <1>5, <2>3, CommitKeeps DEF CommitMessages, DropsGrow
  <2>4. QED
    BY <2>1, <2>2, <2>3
<1>8. ASSUME NEW r \in Readers
      PROVE  /\ CrashReaders({r}) => ConsumerInv(Messages, T)'
             /\ ShutdownReaders({r}) => ConsumerInv(Messages, T)'
  <2>1. CASE CrashReaders({r})
    <3>1. UNCHANGED topic /\ DropsGrow
      BY <2>1 DEF CrashReaders, Restarted, DropsGrow
    <3>2. QED
      BY <1>4, <1>5, <2>1, <3>1, CrashKeeps
  <2>2. CASE ShutdownReaders({r})
    <3>1. UNCHANGED topic /\ DropsGrow
      BY <2>2 DEF ShutdownReaders, Restarted, DropsGrow
    <3>2. QED
      BY <1>4, <1>5, <2>2, <3>1, ShutdownKeeps
  <2>3. QED
    BY <2>1, <2>2
<1>9. ASSUME NEW p \in Partitions, NEW r \in Readers, Rebalance(p, r)
      PROVE  ConsumerInv(Messages, T)'
  <2>1. UNCHANGED topic /\ DropsGrow
    BY <1>9 DEF Rebalance, DropsGrow
  <2>2. QED
    BY <1>4, <1>5, <1>9, <2>1, RebalanceKeeps
<1>10. CASE UNCHANGED consumerVars
  <2>1. UNCHANGED topic /\ DropsGrow
    BY <1>10 DEF consumerVars, DropsGrow
  <2>2. QED
    BY <1>3, <1>5, <1>10, <2>1, OthersKeep
<1>11. QED
  BY <1>3, <1>6, <1>7, <1>8, <1>9, <1>10

LEMMA NextPassed ==
  ASSUME PassedInv, [Next]_vars
  PROVE  PassedInv'
<1>1. CASE UNCHANGED vars
  BY <1>1, ConsumingPasses DEF vars, books
<1>2. ASSUME NEW p \in Partitions, TradesPublished(p)
      PROVE  PassedInv'
  BY <1>2, ConsumingPasses DEF TradesPublished, Unmoved, books
<1>3. ASSUME NEW r \in Readers, Fetch(r) \/ WriteDeadLetter(r) \/ Commit(r)
      PROVE  PassedInv'
  BY <1>3, ConsumingPasses DEF Fetch, WriteDeadLetter, Commit, Unmoved, books
<1>4. ASSUME NEW r \in Readers, Handle(r) \/ DatabaseError(r)
      PROVE  PassedInv'
  BY <1>3, <1>4, TransactionPasses DEF Handle
<1>5. ASSUME NEW r \in Readers, Restart(r)
      PROVE  PassedInv'
  BY <1>5, ConsumingPasses DEF Restart, books
<1>6. ASSUME NEW w \in Publishers, Poll(w) \/ Publish(w) \/ PublishFails(w)
      PROVE  PassedInv'
  BY <1>6, ConsumingPasses DEF Poll, Publish, PublishFails, books
<1>7. ASSUME NEW p \in Partitions, NEW r \in Readers, Reassign(p, r)
      PROVE  PassedInv'
  BY <1>7, ConsumingPasses DEF Reassign, books
<1>8. QED
  BY <1>1, <1>2, <1>4, <1>5, <1>6, <1>7 DEF Next

LEMMA PassedInvariant == Spec => []PassedInv
<1>1. Init => PassedInv
  BY InitPassed
<1>2. PassedInv /\ [Next]_vars => PassedInv'
  BY NextPassed
<1>3. QED
  BY <1>1, <1>2, PTL DEF Spec

\* Every message that a reader has passed, and every message below a
\* committed offset, was applied, dead-lettered or given up: the retries, the
\* redelivery after a crash, the shutdown and the rebalance of
\* internal/kafka/consumer.go lose no other.
THEOREM PassedIsAccountedForHolds == Spec => []PassedIsAccountedFor
<1>1. PassedInv => PassedIsAccountedFor
  <2> SUFFICES ASSUME PassedInv, NEW p \in Partitions, NEW n \in 1 .. Len(topic[p])
               PROVE  /\ n <= committed[p] => Accounted(p, n)
                      /\ n <= position[p] =>
                           Accounted(p, n) \/ \E r \in Readers : handling[r] = <<p, n>>
    BY DEF PassedIsAccountedFor
  <2>1. n \in Numbers
    BY DEF PassedInv, ConsumerInv, ConsumerTypeOK, Numbers
  <2>2. <<p, n>> \in Settled => Accounted(p, n)
    BY DEF Settled, Accounted
  <2>3. assigned[p] \in Readers
    BY DEF PassedInv, ConsumerInv, ConsumerTypeOK
  <2>4. QED
    BY <2>1, <2>2, <2>3 DEF PassedInv, ConsumerInv, Behind
<1>2. QED
  BY <1>1, PassedInvariant, PTL

-----------------------------------------------------------------------------
(***************************************************************************)
(* Locks                                                                   *)
(***************************************************************************)

\* The transactions and their locks; PassedInv has the rest of the types.
LocksInv ==
  /\ tx \in [Readers -> {"none", "checked", "buyer", "both"}]
  /\ lockedBy \in [Users -> Readers \union {Nothing}]
  /\ faults \in Nat
  /\ LocksHeld

\* What r's transaction holds.
Holds(r, u) ==
  \/ tx[r] \in {"buyer", "both"} /\ u = Event(r).buyer
  \/ tx[r] = "both" /\ u = Event(r).seller

\* o is at the same message and stage as before.
SameWork(o) ==
  handling'[o] = handling[o] /\ stage'[o] = stage[o] /\ Message(o)' = Message(o)

\* A step of r, which takes or leaves its own locks only.
LEMMA LocksKept ==
  ASSUME LocksHeld, NEW r \in Readers,
         \A o \in Readers \ {r} : tx'[o] = tx[o] /\ (tx[o] # "none" => SameWork(o)),
         \A u \in Users : lockedBy'[u] = lockedBy[u]
                          \/ (lockedBy[u] \in {r, Nothing} /\ lockedBy'[u] \in {r, Nothing}),
         tx'[r] # "none" => Attempting(r)' /\ Valid(Event(r))',
         \A u \in Users : lockedBy'[u] = r <=> Holds(r, u)'
  PROVE  LocksHeld'
<1> SUFFICES ASSUME NEW o \in Readers
             PROVE  /\ tx'[o] # "none" => Attempting(o)' /\ Valid(Event(o))'
                    /\ \A u \in Users : lockedBy'[u] = o <=> Holds(o, u)'
  BY DEF LocksHeld, Holds
<1>1. CASE o = r
  BY <1>1
<1>2. CASE o # r
  <2>1. tx'[o] = tx[o] /\ (tx[o] # "none" => SameWork(o))
    BY <1>2
  <2>2. tx[o] # "none" => Attempting(o) /\ Valid(Event(o))
    BY DEF LocksHeld
  <2>3. tx[o] # "none" => Event(o)' = Event(o) /\ (Attempting(o)' <=> Attempting(o))
    BY <2>1 DEF SameWork, Event, Attempting, Busy
  <2>4. \A u \in Users : Holds(o, u)' <=> Holds(o, u)
    BY <2>1, <2>3 DEF Holds
  <2>5. \A u \in Users : lockedBy'[u] = o <=> lockedBy[u] = o
    BY <1>2, PortfolioAssumption
  <2>6. \A u \in Users : lockedBy[u] = o <=> Holds(o, u)
    BY DEF LocksHeld, Holds
  <2>7. tx'[o] # "none" => Attempting(o)' /\ Valid(Event(o))'
    BY <2>1, <2>2, <2>3
  <2>8. QED
    BY <2>4, <2>5, <2>6, <2>7
<1>3. QED
  BY <1>1, <1>2

\* Steps of r or of nobody that leave all transactions as they are.
LEMMA LocksUntouched ==
  ASSUME LocksInv, faults' \in Nat, UNCHANGED <<tx, lockedBy>>,
         \A o \in Readers : tx[o] # "none" => SameWork(o)
  PROVE  LocksInv'
<1>1. ASSUME NEW o \in Readers
      PROVE  /\ tx'[o] # "none" => Attempting(o)' /\ Valid(Event(o))'
             /\ \A u \in Users : lockedBy'[u] = o <=> Holds(o, u)'
  <2>1. tx[o] # "none" => Attempting(o) /\ Valid(Event(o))
    BY DEF LocksInv, LocksHeld
  <2>2. tx[o] # "none" => Event(o)' = Event(o) /\ (Attempting(o)' <=> Attempting(o))
    BY DEF SameWork, Event, Attempting, Busy
  <2>3. \A u \in Users : Holds(o, u)' <=> Holds(o, u)
    BY <2>2 DEF Holds
  <2>4. \A u \in Users : lockedBy[u] = o <=> Holds(o, u)
    BY DEF LocksInv, LocksHeld, Holds
  <2>5. QED
    BY <2>1, <2>2, <2>3, <2>4
<1>2. LocksHeld'
  BY <1>1 DEF LocksHeld, Holds
<1>3. QED
  BY <1>2 DEF LocksInv

\* The end of a transaction.
LEMMA LocksReleased ==
  ASSUME LocksInv, faults' \in Nat, NEW r \in Readers, EndTransaction(r),
         \A o \in Readers \ {r} : tx[o] # "none" => SameWork(o)
  PROVE  LocksInv'
<1> USE DEF LocksInv
<1>1. /\ tx' \in [Readers -> {"none", "checked", "buyer", "both"}]
      /\ lockedBy' \in [Users -> Readers \union {Nothing}]
  BY DEF EndTransaction
<1>2. tx'[r] = "none" /\ \A o \in Readers \ {r} : tx'[o] = tx[o]
  BY DEF EndTransaction
<1>3. \A u \in Users :
        /\ lockedBy[u] = r => lockedBy'[u] = Nothing
        /\ lockedBy[u] # r => lockedBy'[u] = lockedBy[u]
  BY DEF EndTransaction
<1>4. \A u \in Users : lockedBy'[u] # r /\ ~Holds(r, u)'
  BY <1>2, <1>3, PortfolioAssumption DEF Holds
<1>5. LocksHeld'
  BY <1>2, <1>3, <1>4, LocksKept
<1>6. QED
  BY <1>1, <1>5

LEMMA InitLocks ==
  ASSUME Init
  PROVE  LocksInv
BY PortfolioAssumption DEF Init, LocksInv, LocksHeld

\* The steps by which a transaction takes its locks.
LEMMA LockingKeepsLocks ==
  ASSUME PassedInv, LocksInv, NEW r \in Readers,
         BeginTransaction(r) \/ LockBuyer(r) \/ LockSeller(r)
  PROVE  LocksInv'
<1> USE DEF LocksInv
<1>1. UNCHANGED <<topic, handling, stage, faults>>
  BY DEF BeginTransaction, LockBuyer, LockSeller, consumerVars
<1>2. \A o \in Readers : SameWork(o) /\ Event(o)' = Event(o) /\ (Attempting(o)' <=> Attempting(o))
  BY <1>1 DEF SameWork, Message, Event, Attempting, Busy
<1>3. tx[r] # "none" => Attempting(r) /\ Valid(Event(r))
  BY DEF LocksHeld
<1>4. \A u \in Users : lockedBy[u] = r <=> Holds(r, u)
  BY DEF LocksHeld, Holds
<1>5. CASE BeginTransaction(r)
  <2>1. tx[r] = "none" /\ Attempting(r) /\ Valid(Event(r))
    BY <1>5 DEF BeginTransaction, Starting
  <2>2. tx' = [tx EXCEPT ![r] = "checked"] /\ lockedBy' = lockedBy
    BY <1>5 DEF BeginTransaction
  <2>3. tx'[r] = "checked" /\ \A o \in Readers \ {r} : tx'[o] = tx[o]
    BY <2>2
  <2>4. \A u \in Users : lockedBy'[u] = r <=> Holds(r, u)'
    BY <1>4, <2>1, <2>2, <2>3 DEF Holds
  <2>5. LocksHeld'
    BY <1>2, <2>1, <2>2, <2>3, <2>4, LocksKept
  <2>6. QED
    BY <1>1, <2>2, <2>5
<1>6. CASE LockBuyer(r)
  <2> DEFINE b == Event(r).buyer
  <2>1. /\ tx[r] = "checked" /\ lockedBy[b] = Nothing
        /\ lockedBy' = [lockedBy EXCEPT ![b] = r]
        /\ tx' = [tx EXCEPT ![r] = "buyer"]
    BY <1>6 DEF LockBuyer
  <2>2. tx'[r] = "buyer" /\ \A o \in Readers \ {r} : tx'[o] = tx[o]
    BY <2>1
  <2>3. b \in Users
    BY <1>3, <2>1, AtHand, PortfolioAssumption DEF PassedInv, ConsumerInv, Attempting, Event, Bodies
  <2>4. lockedBy'[b] = r /\ \A u \in Users \ {b} : lockedBy'[u] = lockedBy[u]
    BY <2>1, <2>3
  <2>5. \A u \in Users : lockedBy'[u] = r <=> Holds(r, u)'
    BY <1>2, <1>4, <2>1, <2>2, <2>4 DEF Holds
  <2>6. LocksHeld'
    <3>1. \A o \in Readers \ {r} : tx'[o] = tx[o] /\ (tx[o] # "none" => SameWork(o))
      BY <1>2, <2>2
    <3>2. \A u \in Users : lockedBy'[u] = lockedBy[u]
             \/ (lockedBy[u] \in {r, Nothing} /\ lockedBy'[u] \in {r, Nothing})
      BY <2>1, <2>4
    <3>3. Attempting(r)' /\ Valid(Event(r))'
      BY <1>2, <1>3, <2>1
    <3>4. QED
      BY <2>5, <3>1, <3>2, <3>3, LocksKept
  <2>7. QED
    BY <1>1, <2>1, <2>6
<1>7. CASE LockSeller(r)
  <2> DEFINE s == Event(r).seller
  <2>1. /\ tx[r] = "buyer" /\ lockedBy[s] = Nothing
        /\ lockedBy' = [lockedBy EXCEPT ![s] = r]
        /\ tx' = [tx EXCEPT ![r] = "both"]
    BY <1>7 DEF LockSeller
  <2>2. tx'[r] = "both" /\ \A o \in Readers \ {r} : tx'[o] = tx[o]
    BY <2>1
  <2>3. s \in Users
    BY <1>3, <2>1, AtHand, PortfolioAssumption DEF PassedInv, ConsumerInv, Attempting, Event, Bodies
  <2>4. lockedBy'[s] = r /\ \A u \in Users \ {s} : lockedBy'[u] = lockedBy[u]
    BY <2>1, <2>3
  <2>5. \A u \in Users : lockedBy'[u] = r <=> Holds(r, u)'
    BY <1>2, <1>4, <2>1, <2>2, <2>4 DEF Holds
  <2>6. LocksHeld'
    <3>1. \A o \in Readers \ {r} : tx'[o] = tx[o] /\ (tx[o] # "none" => SameWork(o))
      BY <1>2, <2>2
    <3>2. \A u \in Users : lockedBy'[u] = lockedBy[u]
             \/ (lockedBy[u] \in {r, Nothing} /\ lockedBy'[u] \in {r, Nothing})
      BY <2>1, <2>4
    <3>3. Attempting(r)' /\ Valid(Event(r))'
      BY <1>2, <1>3, <2>1
    <3>4. QED
      BY <2>5, <3>1, <3>2, <3>3, LocksKept
  <2>7. QED
    BY <1>1, <2>1, <2>6
<1>8. QED
  BY <1>5, <1>6, <1>7

\* The steps of a transaction that succeed, fail or end it.
LEMMA EndingKeepsLocks ==
  ASSUME PassedInv, LocksInv, NEW r \in Readers,
         \/ SkipOther(r) \/ RejectInvalid(r) \/ SkipDuplicate(r) \/ ApplyTradeExecution(r)
         \/ RefuseTrade(r) \/ DeadlockVictim(r) \/ DatabaseError(r)
  PROVE  LocksInv'
<1>1. ConsumerTypeOK(Messages)
  BY DEF PassedInv, ConsumerInv
<1>2. Succeed(r) \/ FailAttempt(r)
  BY DEF SkipOther, RejectInvalid, SkipDuplicate, ApplyTradeExecution, RefuseTrade,
         DeadlockVictim, DatabaseError
<1>3. \A o \in Readers \ {r} : SameWork(o)
  BY <1>1, <1>2 DEF Succeed, FailAttempt, SameWork, Message, ConsumerTypeOK
<1>4. CASE SkipOther(r) \/ RejectInvalid(r) \/ SkipDuplicate(r)
  <2>1. tx[r] = "none" /\ UNCHANGED <<tx, lockedBy, faults>>
    BY <1>4 DEF SkipOther, RejectInvalid, SkipDuplicate, Starting
  <2>2. QED
    BY <1>3, <2>1, LocksUntouched DEF LocksInv
<1>5. CASE \/ ApplyTradeExecution(r) \/ RefuseTrade(r) \/ DeadlockVictim(r)
           \/ DatabaseError(r)
  <2>1. EndTransaction(r) /\ faults' \in Nat
    BY <1>5 DEF ApplyTradeExecution, RefuseTrade, DeadlockVictim, DatabaseError, Fault, LocksInv
  <2>2. QED
    BY <1>3, <2>1, LocksReleased
<1>6. QED
  BY <1>4, <1>5

\* A reader without a message to process has no transaction.
LEMMA ConsumingKeepsLocks ==
  ASSUME PassedInv, LocksInv, NEW r \in Readers,
         Fetch(r) \/ WriteDeadLetter(r) \/ Commit(r)
  PROVE  LocksInv'
<1>1. ConsumerTypeOK(Messages)
  BY DEF PassedInv, ConsumerInv
<1>2. UNCHANGED <<topic, tx, lockedBy, faults>>
  BY DEF Fetch, WriteDeadLetter, Commit, Unmoved, FetchMessage, DeadLetter, CommitMessages
<1>3. ~Attempting(r)
  BY DEF Fetch, WriteDeadLetter, Commit, FetchMessage, DeadLetter, CommitMessages, Attempting
<1>4. tx[r] = "none"
  BY <1>3 DEF LocksInv, LocksHeld
<1>5. \A o \in Readers \ {r} : handling'[o] = handling[o] /\ stage'[o] = stage[o]
  <2>1. CASE FetchMessage(r)
    BY <1>1, <2>1 DEF FetchMessage, ConsumerTypeOK
  <2>2. CASE DeadLetter(r)
    BY <1>1, <2>2 DEF DeadLetter, ConsumerTypeOK
  <2>3. CASE CommitMessages(r)
    BY <1>1, <2>3 DEF CommitMessages, ConsumerTypeOK
  <2>4. QED
    BY <2>1, <2>2, <2>3 DEF Fetch, WriteDeadLetter, Commit
<1>6. \A o \in Readers \ {r} : SameWork(o)
  BY <1>2, <1>5 DEF SameWork, Message
<1>7. QED
  BY <1>2, <1>4, <1>6, LocksUntouched DEF LocksInv

LEMMA NextLocks ==
  ASSUME PassedInv, LocksInv, [Next]_vars
  PROVE  LocksInv'
<1>1. ConsumerTypeOK(Messages)
  BY DEF PassedInv, ConsumerInv
<1>2. ASSUME UNCHANGED <<topic, handling, stage, tx, lockedBy>>, faults' \in Nat
      PROVE  LocksInv'
  BY <1>2, LocksUntouched DEF SameWork, Message
<1>3. CASE UNCHANGED vars
  BY <1>2, <1>3 DEF vars, consumerVars, LocksInv
<1>4. ASSUME NEW p \in Partitions, TradesPublished(p)
      PROVE  LocksInv'
  <2>1. Feed[p] \in Seq(Messages) /\ Produce({p}, Feed[p])
    BY <1>4, PortfolioAssumption DEF TradesPublished
  <2>2. TopicsGrow
    BY <2>1, ProduceKeeps DEF PassedInv
  <2>3. UNCHANGED <<handling, stage, tx, lockedBy, faults>>
    BY <1>4 DEF TradesPublished, Produce, Unmoved
  <2>4. ASSUME NEW o \in Readers, tx[o] # "none"
        PROVE  SameWork(o)
    <3>1. Busy(o)
      BY <2>4 DEF LocksInv, LocksHeld, Attempting
    <3>2. handling[o] \in Partitions \X Numbers /\ handling[o][2] <= Len(topic[handling[o][1]])
      BY <3>1, AtHand DEF PassedInv, ConsumerInv
    <3>3. QED
      BY <2>2, <2>3, <3>2 DEF SameWork, Message, TopicsGrow
  <2>5. QED
    BY <2>3, <2>4, LocksUntouched DEF LocksInv
<1>5. ASSUME NEW r \in Readers, Handle(r) \/ DatabaseError(r)
      PROVE  LocksInv'
  BY <1>5, EndingKeepsLocks, LockingKeepsLocks, ConsumingKeepsLocks DEF Handle
<1>6. ASSUME NEW r \in Readers, Restart(r)
      PROVE  LocksInv'
  <2>1. EndTransaction(r) /\ faults' \in Nat
    BY <1>6 DEF Restart, Fault, LocksInv
  <2>2. CrashReaders({r}) \/ ShutdownReaders({r})
    BY <1>6 DEF Restart
  <2>3. PICK offset : Restarted({r}, offset)
    BY <2>2 DEF CrashReaders, ShutdownReaders
  <2>4. \A o \in Readers \ {r} : SameWork(o)
    BY <2>3 DEF Restarted, SameWork, Message
  <2>5. QED
    BY <2>1, <2>4, LocksReleased
<1>7. ASSUME NEW w \in Publishers, Poll(w) \/ Publish(w) \/ PublishFails(w)
      PROVE  LocksInv'
  BY <1>2, <1>7 DEF Poll, Publish, PublishFails, Fault, consumerVars, LocksInv
<1>8. ASSUME NEW p \in Partitions, NEW r \in Readers, Reassign(p, r)
      PROVE  LocksInv'
  BY <1>2, <1>8 DEF Reassign, Rebalance, Fault, LocksInv
<1>9. QED
  BY <1>3, <1>4, <1>5, <1>6, <1>7, <1>8 DEF Next

-----------------------------------------------------------------------------
(***************************************************************************)
(* The books                                                               *)
(***************************************************************************)

\* The amounts that can be written with ten decimals.
InTenths(x) == \E k \in Int : x = TenthDecimal * k

\* The holdings are among them, so that whoever holds what a trade says holds
\* what the statement subtracts.
BooksInv ==
  /\ cash \in [Users -> Int]
  /\ realized \in [Users -> Int]
  /\ holdings \in [Users -> [quantity : Int, average : Int]]
  /\ \A u \in Users : InTenths(holdings[u].quantity)
  /\ NothingOverdrawn
  /\ OncePerExecution

LEMMA Units == /\ One \in Nat \ {0} /\ TenthDecimal \in Nat \ {0} /\ EighthDecimal \in Nat \ {0}
               /\ One * TenthDecimal \in Nat \ {0}
<1>1. One \in Nat \ {0} /\ TenthDecimal \in Nat \ {0} /\ EighthDecimal \in Nat \ {0}
  BY PortfolioAssumption
<1>2. \A x, y \in Nat \ {0} : x * y \in Nat \ {0}
  OBVIOUS
<1>3. QED
  BY <1>1, <1>2

\* What the ten decimals of an amount are.
LEMMA TenFacts ==
  ASSUME NEW x \in Int
  PROVE  Ten(x) \in Int /\ (x >= 0 => Ten(x) \in Nat) /\ InTenths(Ten(x))
<1>1. Ten(x) \in Int /\ (x >= 0 => Ten(x) \in Nat)
  BY Units, RoundedClose DEF Ten
<1>2. Nearest(x, TenthDecimal) \in Int
  BY Units, NearestClose
<1>3. QED
  BY <1>1, <1>2 DEF Ten, RoundedTo, InTenths

\* A product of amounts is an amount.
LEMMA ProductFacts ==
  ASSUME NEW x \in Int, NEW y \in Int
  PROVE  Product(x, y) \in Int /\ (x >= 0 /\ y >= 0 => Product(x, y) \in Nat)
<1>1. x * y \in Int /\ (x >= 0 /\ y >= 0 => x * y >= 0)
  OBVIOUS
<1>2. PICK n, d, k : n = x * y /\ d = One * TenthDecimal /\ k = Nearest(n, d)
  OBVIOUS
<1>3. n \in Int /\ d \in Nat \ {0}
  BY <1>1, <1>2, Units
<1>4. k \in Int /\ (n >= 0 => k \in Nat)
  BY <1>2, <1>3, NearestClose
<1>5. TenthDecimal * k \in Int /\ (n >= 0 => TenthDecimal * k \in Nat)
  BY <1>4, Units
<1>6. Product(x, y) = TenthDecimal * k
  BY <1>2 DEF Product
<1>7. QED
  BY <1>1, <1>2, <1>5, <1>6

LEMMA InitBooks ==
  ASSUME Init
  PROVE  BooksInv
<1>1. \A u \in Users : InitialHoldings[u] \in Nat /\ InitialCash \in Nat
  BY PortfolioAssumption
<1>2. \A u \in Users : [quantity |-> InitialHoldings[u], average |-> One] \in [quantity : Int, average : Int]
  BY <1>1, Units
<1>3. ASSUME NEW u \in Users
      PROVE  InTenths(InitialHoldings[u])
  <2>1. PICK n : n = InitialHoldings[u]
    OBVIOUS
  <2>2. n \in Nat /\ n % TenthDecimal = 0
    BY <2>1, PortfolioAssumption
  <2>3. \A x \in Nat, d \in Nat \ {0} : x % d = 0 => x \div d \in Int /\ x = d * (x \div d)
    OBVIOUS
  <2>4. n \div TenthDecimal \in Int /\ n = TenthDecimal * (n \div TenthDecimal)
    BY <2>2, <2>3, Units
  <2>5. QED
    BY <2>1, <2>4 DEF InTenths
<1>4. QED
  BY <1>1, <1>2, <1>3 DEF Init, BooksInv, NothingOverdrawn, OncePerExecution

\* What a transaction may rely on when it has both locks.
LEMMA TradeAtHand ==
  ASSUME PassedInv, LocksInv, NEW r \in Readers, ApplyTradeExecution(r)
  PROVE  LET b == Event(r) IN
         /\ Message(r) \in Messages /\ b = Body[Message(r)] /\ b \in Bodies
         /\ b.buyer \in Users /\ b.seller \in Users /\ b.buyer # b.seller
         /\ b.quantity \in Nat \ {0} /\ b.price \in Nat \ {0}
         /\ Ten(b.quantity) \in Nat /\ Ten(b.price) \in Nat /\ Gross(b) \in Nat
         /\ Applicable(b) /\ WriteBooks(b, Message(r))
<1>1. Attempting(r) /\ Valid(Event(r))
  BY DEF ApplyTradeExecution, LocksInv, LocksHeld
<1>2. Message(r) \in Messages
  BY <1>1, AtHand DEF PassedInv, ConsumerInv, Attempting
<1>3. Event(r) \in Bodies
  BY <1>2, PortfolioAssumption DEF Event
<1>4. Event(r).quantity \in Nat \ {0} /\ Event(r).price \in Nat \ {0}
  BY <1>1, <1>3 DEF Valid, Bodies
<1>5. /\ Ten(Event(r).quantity) \in Nat /\ Ten(Event(r).price) \in Nat
      /\ Gross(Event(r)) \in Nat
  <2>1. PICK x, y : x = Event(r).quantity /\ y = Event(r).price
    OBVIOUS
  <2>2. x \in Int /\ y \in Int /\ x >= 0 /\ y >= 0
    BY <1>4, <2>1
  <2>3. Ten(x) \in Nat /\ Ten(y) \in Nat /\ Product(x, y) \in Nat
    BY <2>2, TenFacts, ProductFacts
  <2>4. QED
    BY <2>1, <2>3 DEF Gross
<1>6. QED
  BY <1>1, <1>2, <1>3, <1>4, <1>5 DEF ApplyTradeExecution, Valid, Event, Bodies

\* The buyer's row after a purchase.
LEMMA BoughtRow ==
  ASSUME NEW h \in [quantity : Int, average : Int], h.quantity >= 0,
         NEW b, Ten(b.quantity) \in Nat, Ten(b.price) \in Nat
  PROVE  /\ Bought(h, b) \in [quantity : Int, average : Int]
         /\ Bought(h, b).quantity = h.quantity + Ten(b.quantity)
<1>1. PICK q, p, total, cost :
        /\ q = Ten(b.quantity) /\ p = Ten(b.price) /\ total = h.quantity + q
        /\ cost = h.quantity * h.average + q * p
  OBVIOUS
<1>2. h.quantity \in Int /\ h.average \in Int /\ total \in Nat /\ q * p \in Int
  BY <1>1
<1>3. cost \in Int
  BY <1>1, <1>2
<1>4. total # 0 => Nearest(cost, total) \in Int
  BY <1>2, <1>3, NearestClose
<1>5. Bought(h, b) = [quantity |-> total, average |-> IF total = 0 THEN 0 ELSE Nearest(cost, total)]
  BY <1>1 DEF Bought
<1>6. QED
  BY <1>1, <1>2, <1>4, <1>5

\* What a trade does to the balances of the two users and of the others.
LEMMA TradeWritten ==
  ASSUME PassedInv, LocksInv, BooksInv, NEW r \in Readers, ApplyTradeExecution(r)
  PROVE  LET b == Event(r) IN
         /\ cash' = [cash EXCEPT ![b.buyer] = @ - Gross(b),
                                 ![b.seller] = @ + Gross(b)]
         /\ realized' \in [Users -> Int]
         /\ holdings' \in [Users -> [quantity : Int, average : Int]]
         /\ holdings'[b.buyer].quantity = holdings[b.buyer].quantity + Ten(b.quantity)
         /\ holdings'[b.seller].quantity = holdings[b.seller].quantity - Ten(b.quantity)
         /\ \A u \in Users \ {b.buyer, b.seller} : holdings'[u] = holdings[u]
         /\ ledger' = Append(ledger, Message(r))
         /\ Gross(b) \in Nat /\ Gross(b) <= cash[b.buyer]
         /\ Ten(b.quantity) \in Nat /\ Ten(b.quantity) <= holdings[b.seller].quantity
<1> DEFINE b == Event(r)
<1>1. /\ b.buyer \in Users /\ b.seller \in Users /\ b.buyer # b.seller
      /\ b.quantity \in Nat \ {0} /\ b.price \in Nat \ {0}
      /\ Ten(b.quantity) \in Nat /\ Ten(b.price) \in Nat /\ Gross(b) \in Nat
      /\ Applicable(b) /\ WriteBooks(b, Message(r))
  BY TradeAtHand
<1> HIDE DEF b
<1>2. /\ cash' = [cash EXCEPT ![b.buyer] = @ - Gross(b),
                              ![b.seller] = @ + Gross(b)]
      /\ ledger' = Append(ledger, Message(r))
  BY <1>1 DEF WriteBooks
<1>3. realized' \in [Users -> Int]
  <2> DEFINE profit == Product(b.price - holdings[b.seller].average, b.quantity)
  <2>1. b.price - holdings[b.seller].average \in Int /\ b.quantity \in Int
    BY <1>1 DEF BooksInv
  <2>2. profit \in Int
    BY <2>1, ProductFacts
  <2>3. realized' = [realized EXCEPT ![b.seller] = @ + profit]
    BY <1>1 DEF WriteBooks
  <2> HIDE DEF profit
  <2>4. QED
    BY <1>1, <2>2, <2>3 DEF BooksInv
<1>4. holdings' = [holdings EXCEPT ![b.buyer] = Bought(@, b),
                                   ![b.seller].quantity = @ - Ten(b.quantity)]
  BY <1>1 DEF WriteBooks
<1>5. /\ holdings[b.buyer] \in [quantity : Int, average : Int]
      /\ holdings[b.seller] \in [quantity : Int, average : Int]
      /\ holdings[b.buyer].quantity >= 0
  BY <1>1 DEF BooksInv, NothingOverdrawn
<1>6. /\ Bought(holdings[b.buyer], b) \in [quantity : Int, average : Int]
      /\ Bought(holdings[b.buyer], b).quantity = holdings[b.buyer].quantity + Ten(b.quantity)
  BY <1>1, <1>5, BoughtRow
<1>7. /\ holdings'[b.buyer] = Bought(holdings[b.buyer], b)
      /\ holdings'[b.seller] = [holdings[b.seller] EXCEPT !.quantity = @ - Ten(b.quantity)]
      /\ \A u \in Users \ {b.buyer, b.seller} : holdings'[u] = holdings[u]
      /\ DOMAIN holdings' = Users
      /\ holdings' = [u \in Users |-> holdings'[u]]
  BY <1>1, <1>4 DEF BooksInv
<1>8. /\ holdings'[b.seller] \in [quantity : Int, average : Int]
      /\ holdings'[b.seller].quantity = holdings[b.seller].quantity - Ten(b.quantity)
  BY <1>1, <1>5, <1>7
<1>9. \A u \in Users : holdings'[u] \in [quantity : Int, average : Int]
  BY <1>6, <1>7, <1>8 DEF BooksInv
<1>10. holdings' \in [Users -> [quantity : Int, average : Int]]
  BY <1>7, <1>9
<1>11. Ten(b.quantity) <= holdings[b.seller].quantity
  <2>1. PICK k \in Int : holdings[b.seller].quantity = TenthDecimal * k
    BY <1>1 DEF BooksInv, InTenths
  <2>2. b.quantity \in Int /\ b.quantity <= TenthDecimal * k
    BY <1>1, <2>1 DEF Applicable
  <2>3. QED
    BY <2>1, <2>2, Units, RoundedBelow DEF Ten
<1>12. Gross(b) <= cash[b.buyer]
  BY <1>1 DEF Applicable, BooksInv
<1>13. QED
  BY <1>1, <1>2, <1>3, <1>6, <1>7, <1>8, <1>10, <1>11, <1>12 DEF b

LEMMA ApplyKeepsBooks ==
  ASSUME PassedInv, LocksInv, BooksInv, NEW r \in Readers, ApplyTradeExecution(r)
  PROVE  BooksInv'
<1> DEFINE b == Event(r)
           gross == Gross(b)
           volume == Ten(b.quantity)
<1>1. /\ Message(r) \in Messages /\ b = Body[Message(r)]
      /\ b.buyer \in Users /\ b.seller \in Users /\ b.buyer # b.seller
      /\ b.quantity \in Nat \ {0} /\ b.price \in Nat \ {0}
      /\ Applicable(b)
  BY TradeAtHand
<1>2. /\ cash' = [cash EXCEPT ![b.buyer] = @ - gross, ![b.seller] = @ + gross]
      /\ realized' \in [Users -> Int]
      /\ holdings' \in [Users -> [quantity : Int, average : Int]]
      /\ holdings'[b.buyer].quantity = holdings[b.buyer].quantity + volume
      /\ holdings'[b.seller].quantity = holdings[b.seller].quantity - volume
      /\ \A u \in Users \ {b.buyer, b.seller} : holdings'[u] = holdings[u]
      /\ ledger' = Append(ledger, Message(r))
      /\ gross \in Nat /\ volume \in Nat
      /\ cash[b.buyer] >= gross
      /\ holdings[b.seller].quantity >= volume
  BY TradeWritten
<1>3. gross \in Nat /\ volume \in Nat
  BY <1>2
<1>4. /\ cash[b.buyer] >= gross
      /\ holdings[b.seller].quantity >= volume
      /\ ~Processed(b.executionId)
  BY <1>1, <1>2 DEF Applicable
<1>12. InTenths(volume)
  BY <1>1, TenFacts
<1> HIDE DEF b, gross, volume
<1>5. \A u \in Users :
        /\ cash[u] \in Int /\ cash[u] >= 0
        /\ holdings[u].quantity \in Int /\ holdings[u].quantity >= 0
  BY DEF BooksInv, NothingOverdrawn
<1>6. cash' \in [Users -> Int]
  <2>1. cash[b.buyer] - gross \in Int /\ cash[b.seller] + gross \in Int
    BY <1>1, <1>3, <1>5
  <2>2. cash \in [Users -> Int]
    BY DEF BooksInv
  <2>3. DOMAIN cash' = Users /\ cash' = [u \in Users |-> cash'[u]]
    BY <1>2, <2>2
  <2>4. \A u \in Users : cash'[u] \in {cash[u], cash[b.buyer] - gross, cash[b.seller] + gross}
    BY <1>1, <1>2, <2>2
  <2>5. \A u \in Users : cash'[u] \in Int
    BY <1>5, <2>1, <2>4
  <2>6. QED
    BY <2>3, <2>5
<1>7. \A u \in Users :
        \/ u = b.buyer /\ cash'[u] = cash[u] - gross
        \/ u = b.seller /\ cash'[u] = cash[u] + gross
        \/ u \in Users \ {b.buyer, b.seller} /\ cash'[u] = cash[u]
  BY <1>1, <1>2 DEF BooksInv
<1>8. \A u \in Users : cash'[u] >= 0
  BY <1>3, <1>4, <1>5, <1>7
<1>9. \A u \in Users : holdings'[u].quantity >= 0
  <2> SUFFICES ASSUME NEW u \in Users
               PROVE  holdings'[u].quantity >= 0
    OBVIOUS
  <2>1. CASE u = b.buyer
    <3>1. holdings[u].quantity + volume >= 0
      BY <1>1, <1>3, <1>5
    <3>2. QED
      BY <1>2, <2>1, <3>1
  <2>2. CASE u = b.seller
    <3>1. holdings[u].quantity - volume >= 0
      BY <1>1, <1>3, <1>4, <1>5, <2>2
    <3>2. QED
      BY <1>2, <2>2, <3>1
  <2>3. CASE u \in Users \ {b.buyer, b.seller}
    BY <1>2, <1>5, <2>3
  <2>4. QED
    BY <2>1, <2>2, <2>3
<1>10. OncePerExecution'
  <2>1. ledger \in Seq(Messages)
    BY DEF PassedInv
  <2>2. /\ DOMAIN ledger' = 1 .. Len(ledger) + 1 /\ DOMAIN ledger = 1 .. Len(ledger)
        /\ ledger'[Len(ledger) + 1] = Message(r)
        /\ \A i \in 1 .. Len(ledger) : ledger'[i] = ledger[i]
    BY <1>1, <1>2, <2>1
  <2>3. \A i \in DOMAIN ledger : Body[ledger[i]].executionId # Body[Message(r)].executionId
    BY <1>1, <1>4 DEF Processed, RowsOf
  <2>4. SUFFICES ASSUME NEW i \in DOMAIN ledger', NEW j \in DOMAIN ledger',
                        Body[ledger'[i]].executionId = Body[ledger'[j]].executionId
                 PROVE  i = j
    BY DEF OncePerExecution
  <2>5. CASE i \in DOMAIN ledger /\ j \in DOMAIN ledger
    BY <2>2, <2>4, <2>5 DEF BooksInv, OncePerExecution
  <2>6. CASE i = Len(ledger) + 1 /\ j \in DOMAIN ledger
    BY <2>2, <2>3, <2>4, <2>6
  <2>7. CASE i \in DOMAIN ledger /\ j = Len(ledger) + 1
    BY <2>2, <2>3, <2>4, <2>7
  <2>8. i \in DOMAIN ledger \/ i = Len(ledger) + 1
    BY <2>1, <2>2
  <2>9. j \in DOMAIN ledger \/ j = Len(ledger) + 1
    BY <2>1, <2>2
  <2>10. QED
    BY <2>5, <2>6, <2>7, <2>8, <2>9
<1>13. ASSUME NEW u \in Users
       PROVE  InTenths(holdings'[u].quantity)
  <2>1. PICK k \in Int : holdings[u].quantity = TenthDecimal * k
    BY DEF BooksInv, InTenths
  <2>2. PICK j \in Int : volume = TenthDecimal * j
    BY <1>12 DEF InTenths
  <2>3. /\ TenthDecimal * (k + j) = TenthDecimal * k + TenthDecimal * j
        /\ TenthDecimal * (k - j) = TenthDecimal * k - TenthDecimal * j
    BY Units
  <2>4. holdings'[u].quantity \in {TenthDecimal * k, TenthDecimal * (k + j), TenthDecimal * (k - j)}
    <3>1. CASE u = b.buyer
      BY <1>2, <2>1, <2>2, <2>3, <3>1
    <3>2. CASE u = b.seller
      BY <1>2, <2>1, <2>2, <2>3, <3>2
    <3>3. CASE u \in Users \ {b.buyer, b.seller}
      BY <1>2, <2>1, <3>3
    <3>4. QED
      BY <3>1, <3>2, <3>3
  <2>5. k + j \in Int /\ k - j \in Int
    OBVIOUS
  <2>6. QED
    BY <2>4, <2>5 DEF InTenths
<1>14. QED
  BY <1>2, <1>6, <1>8, <1>9, <1>10, <1>13 DEF BooksInv, NothingOverdrawn

\* Nothing but the application of a trade touches the books.
LEMMA BooksUntouched ==
  ASSUME [Next]_vars, \A r \in Readers : ~ApplyTradeExecution(r)
  PROVE  UNCHANGED books
<1>1. CASE UNCHANGED vars
  BY <1>1 DEF vars
<1>2. ASSUME NEW p \in Partitions, TradesPublished(p)
      PROVE  UNCHANGED books
  BY <1>2 DEF TradesPublished, Unmoved
<1>3. ASSUME NEW r \in Readers, Handle(r) \/ DatabaseError(r) \/ Restart(r)
      PROVE  UNCHANGED books
  BY <1>3 DEF Handle, Fetch, SkipOther, RejectInvalid, BeginTransaction, SkipDuplicate,
    LockBuyer, LockSeller, RefuseTrade, DeadlockVictim, WriteDeadLetter, Commit,
    DatabaseError, Restart, Unmoved
<1>4. ASSUME NEW w \in Publishers, Poll(w) \/ Publish(w) \/ PublishFails(w)
      PROVE  UNCHANGED books
  BY <1>4 DEF Poll, Publish, PublishFails
<1>5. ASSUME NEW p \in Partitions, NEW r \in Readers, Reassign(p, r)
      PROVE  UNCHANGED books
  BY <1>5 DEF Reassign
<1>6. QED
  BY <1>1, <1>2, <1>3, <1>4, <1>5 DEF Next

LEMMA NextBooks ==
  ASSUME PassedInv, LocksInv, BooksInv, [Next]_vars
  PROVE  BooksInv'
<1>1. CASE UNCHANGED books
  BY <1>1 DEF books, BooksInv, InTenths, NothingOverdrawn, OncePerExecution
<1>2. QED
  BY <1>1, ApplyKeepsBooks, BooksUntouched

-----------------------------------------------------------------------------
(***************************************************************************)
(* The outbox                                                              *)
(***************************************************************************)

PublishersInv == OutboxTypeOK(Updates) /\ BatchesApart

LEMMA InitPublishers ==
  ASSUME Init
  PROVE  PublishersInv
BY DEF Init, OutboxInit, PublishersInv, OutboxTypeOK, BatchesApart

\* The update that a trade announces.
LEMMA UpdateTyped ==
  ASSUME NEW u \in Users, NEW c \in [Users -> Int], NEW p \in [Users -> Int],
         NEW h \in [Users -> [quantity : Int, average : Int]]
  PROVE  Portfolio(u, c, h, p) \in Portfolios /\ PortfolioUpdated(u, c, h, p) \in Updates
<1>1. /\ c[u] \in Int /\ p[u] \in Int
      /\ h[u].quantity \in Int /\ h[u].average \in Int
  OBVIOUS
<1>2. PICK cost : cost = h[u].quantity * h[u].average
  OBVIOUS
<1>3. cost \in Int
  BY <1>1, <1>2
<1>4. Nearest(cost, One) \in Int
  BY <1>3, NearestClose, Units
<1>5. Portfolio(u, c, h, p) \in Portfolios
  BY <1>1, <1>2, <1>4 DEF Portfolio, Portfolios
<1>6. /\ RoundedTo(h[u].quantity, EighthDecimal) \in Int
      /\ RoundedTo(h[u].average, EighthDecimal) \in Int
  BY <1>1, RoundedClose, Units
<1>7. QED
  BY <1>5, <1>6 DEF PortfolioUpdated, Updates

LEMMA ApplyKeepsPublishers ==
  ASSUME PassedInv, LocksInv, BooksInv, PublishersInv,
         NEW r \in Readers, ApplyTradeExecution(r)
  PROVE  PublishersInv'
<1> USE DEF PublishersInv, OutboxTypeOK
<1> DEFINE update == PortfolioUpdated(Event(r).buyer, cash', holdings', realized')
           row == [status |-> "pending", attempts |-> 0, event |-> update]
<1>1. /\ outbox' = Append(outbox, row)
      /\ ledger' = Append(ledger, Message(r))
      /\ UNCHANGED <<batch, delivered>>
      /\ Event(r).buyer \in Users /\ Message(r) \in Messages
  BY TradeAtHand DEF WriteBooks, Insert
<1>2. update \in Updates
  BY <1>1, ApplyKeepsBooks, UpdateTyped DEF BooksInv
<1> HIDE DEF update
<1>3. row \in Row(Updates)
  BY <1>2, PortfolioOutboxAssumption DEF Row, RowStatuses
<1>4. row.status = "pending"
  OBVIOUS
<1> HIDE DEF row
<1>5. ledger \in Seq(Messages) /\ outbox \in Seq(Row(Updates))
  BY DEF PassedInv
<1>6. /\ outbox' \in Seq(Row(Updates)) /\ Len(outbox') = Len(ledger')
      /\ DOMAIN outbox \subseteq DOMAIN outbox'
      /\ \A i \in DOMAIN outbox : outbox'[i] = outbox[i]
      /\ \A i \in DOMAIN outbox' \ DOMAIN outbox : outbox'[i].status = "pending"
  BY <1>1, <1>3, <1>4, <1>5 DEF BatchesApart
<1>7. BatchesApart'
  BY <1>1, <1>6 DEF BatchesApart
<1>8. QED
  BY <1>1, <1>6, <1>7

\* A poll takes rows that nobody holds.
LEMMA PollKeepsPublishers ==
  ASSUME PublishersInv, NEW w \in Publishers, FetchPending(w), UNCHANGED ledger
  PROVE  PublishersInv'
<1> USE DEF PublishersInv, OutboxTypeOK
<1>1. PICK S \in SUBSET Due :
        /\ outbox' = [i \in DOMAIN outbox |->
             IF i \in S THEN [outbox[i] EXCEPT !.status = "publishing"] ELSE outbox[i]]
        /\ batch' = [batch EXCEPT ![w] = S]
  BY DEF FetchPending
<1>2. batch[w] = {} /\ UNCHANGED delivered
  BY DEF FetchPending
<1>3. DOMAIN outbox = 1 .. Len(outbox) /\ Len(outbox) \in Nat
  OBVIOUS
<1>4. \A i \in DOMAIN outbox : outbox[i] \in Row(Updates)
  OBVIOUS
<1>5. \A i \in DOMAIN outbox : [outbox[i] EXCEPT !.status = "publishing"] \in Row(Updates)
  BY <1>4 DEF Row, RowStatuses
<1>6. outbox' \in Seq(Row(Updates)) /\ Len(outbox') = Len(outbox) /\ DOMAIN outbox' = DOMAIN outbox
  BY <1>1, <1>3, <1>4, <1>5
<1>7. \A i \in DOMAIN outbox :
        /\ i \in S => outbox'[i].status = "publishing" /\ outbox[i].status \in {"pending", "failed"}
        /\ i \notin S => outbox'[i] = outbox[i]
  <2>1. \A i \in DOMAIN outbox : i \in S => outbox[i].status \in {"pending", "failed"}
    BY DEF Due
  <2>2. \A i \in DOMAIN outbox : i \in S => outbox'[i].status = "publishing"
    BY <1>1, <1>4 DEF Row
  <2>3. QED
    BY <1>1, <2>1, <2>2
<1>8. S \subseteq DOMAIN outbox
  BY DEF Due
<1>9. \A o \in Publishers : batch'[o] = IF o = w THEN S ELSE batch[o]
  BY <1>1
<1>10. \A o \in Publishers : batch[o] \intersect S = {}
  BY <1>7, <1>8 DEF BatchesApart
<1>11. BatchesApart'
  <2>1. ASSUME NEW o \in Publishers, NEW i \in batch'[o]
        PROVE  /\ i \in DOMAIN outbox'
               /\ outbox'[i].status = "publishing"
               /\ \A x \in Publishers : i \in batch'[x] => x = o
    <3>1. CASE o = w
      BY <1>6, <1>7, <1>8, <1>9, <1>10, <2>1, <3>1
    <3>2. CASE o # w
      <4>1. i \in batch[o] /\ i \notin S
        BY <1>9, <1>10, <2>1, <3>2
      <4>2. QED
        BY <1>6, <1>7, <1>9, <3>2, <4>1 DEF BatchesApart
    <3>3. QED
      BY <3>1, <3>2
  <2>2. \A i \in DOMAIN outbox' : outbox'[i].status = "published" => i \in delivered'
    BY <1>2, <1>6, <1>7 DEF BatchesApart
  <2>3. Len(outbox') = Len(ledger')
    BY <1>6 DEF BatchesApart
  <2>4. QED
    BY <2>1, <2>2, <2>3 DEF BatchesApart
<1>12. batch' \in [Publishers -> SUBSET Nat]
  BY <1>1, <1>3, <1>8
<1>13. QED
  BY <1>2, <1>6, <1>11, <1>12

\* A row of the batch is dealt with, and nobody else holds it.
LEMMA DealKeepsPublishers ==
  ASSUME PublishersInv, NEW w \in Publishers, NEW i \in batch[w], Dealt(w, i),
         UNCHANGED ledger,
         delivered' \in {delivered, delivered \union {i}},
         outbox' \in Seq(Row(Updates)), DOMAIN outbox' = DOMAIN outbox,
         Len(outbox') = Len(outbox),
         \A k \in DOMAIN outbox \ {i} : outbox'[k] = outbox[k],
         outbox'[i].status = "published" => i \in delivered'
  PROVE  PublishersInv'
<1> USE DEF PublishersInv, OutboxTypeOK
<1>1. batch' = [batch EXCEPT ![w] = @ \ {i}]
  BY DEF Dealt
<1>2. \A o \in Publishers : batch'[o] = IF o = w THEN batch[w] \ {i} ELSE batch[o]
  BY <1>1
<1>3. \A o \in Publishers : batch'[o] \subseteq batch[o] /\ i \notin batch'[o]
  BY <1>2 DEF BatchesApart
<1>4. batch' \in [Publishers -> SUBSET Nat]
  BY <1>1
<1>5. i \in Nat
  OBVIOUS
<1>6. BatchesApart'
  <2>1. ASSUME NEW o \in Publishers, NEW k \in batch'[o]
        PROVE  /\ k \in DOMAIN outbox' /\ outbox'[k].status = "publishing"
               /\ \A x \in Publishers : k \in batch'[x] => x = o
    BY <1>3, <2>1 DEF BatchesApart
  <2>2. ASSUME NEW k \in DOMAIN outbox', outbox'[k].status = "published"
        PROVE  k \in delivered'
    BY <2>2 DEF BatchesApart
  <2>3. QED
    BY <2>1, <2>2 DEF BatchesApart
<1>7. QED
  BY <1>4, <1>5, <1>6

LEMMA PublishKeepsPublishers ==
  ASSUME PublishersInv, NEW w \in Publishers, NEW i \in batch[w], UNCHANGED ledger,
         MarkPublished(w, i) \/ MarkFailed(w, i) \/ MarkLost(w, i)
  PROVE  PublishersInv'
<1>1. /\ outbox \in Seq(Row(Updates)) /\ i \in DOMAIN outbox
      /\ DOMAIN outbox = 1 .. Len(outbox)
      /\ outbox[i] \in Row(Updates) /\ outbox[i].status = "publishing"
  BY DEF PublishersInv, OutboxTypeOK, BatchesApart
<1>2. Dealt(w, i) /\ delivered' \in {delivered, delivered \union {i}}
  BY DEF MarkPublished, MarkFailed, MarkLost
<1>3. CASE MarkPublished(w, i)
  <2>1. outbox' = [outbox EXCEPT ![i] = [outbox[i] EXCEPT !.status = "published"]]
    BY <1>3 DEF MarkPublished
  <2>2. [outbox[i] EXCEPT !.status = "published"] \in Row(Updates)
    BY <1>1 DEF Row, RowStatuses
  <2>3. /\ outbox' \in Seq(Row(Updates)) /\ DOMAIN outbox' = DOMAIN outbox
        /\ Len(outbox') = Len(outbox)
        /\ \A k \in DOMAIN outbox \ {i} : outbox'[k] = outbox[k]
    BY <1>1, <2>1, <2>2
  <2>4. i \in delivered'
    BY <1>3 DEF MarkPublished
  <2>5. QED
    BY <1>2, <2>3, <2>4, DealKeepsPublishers
<1>4. CASE MarkFailed(w, i)
  <2> DEFINE status == IF outbox[i].attempts + 1 >= MaxAttempts THEN "failed" ELSE "pending"
             attempts == IF outbox[i].attempts < MaxAttempts
                         THEN outbox[i].attempts + 1 ELSE outbox[i].attempts
             row == [outbox[i] EXCEPT !.status = status, !.attempts = attempts]
  <2>1. outbox' = [outbox EXCEPT ![i] = row]
    BY <1>4 DEF MarkFailed
  <2>2. status \in {"failed", "pending"}
    OBVIOUS
  <2>3. attempts \in 0 .. MaxAttempts
    <3>1. outbox[i].attempts \in 0 .. MaxAttempts /\ MaxAttempts \in Nat
      BY <1>1, PortfolioOutboxAssumption DEF Row
    <3>2. QED
      BY <3>1
  <2> HIDE DEF status, attempts
  <2>4. row \in Row(Updates) /\ row.status = status
    BY <1>1, <2>2, <2>3 DEF Row, RowStatuses
  <2> HIDE DEF row
  <2>5. /\ outbox' \in Seq(Row(Updates)) /\ DOMAIN outbox' = DOMAIN outbox
        /\ Len(outbox') = Len(outbox) /\ outbox'[i] = row
        /\ \A k \in DOMAIN outbox \ {i} : outbox'[k] = outbox[k]
    BY <1>1, <2>1, <2>4
  <2>6. outbox'[i].status # "published"
    BY <2>2, <2>4, <2>5
  <2>7. QED
    BY <1>2, <2>5, <2>6, DealKeepsPublishers
<1>5. CASE MarkLost(w, i)
  <2>1. outbox' = outbox
    BY <1>5 DEF MarkLost
  <2>2. QED
    BY <1>1, <1>2, <2>1, DealKeepsPublishers
<1>6. QED
  BY <1>3, <1>4, <1>5

LEMMA NextPublishers ==
  ASSUME PassedInv, LocksInv, BooksInv, PublishersInv, [Next]_vars
  PROVE  PublishersInv'
<1>1. CASE \E r \in Readers : ApplyTradeExecution(r)
  BY <1>1, ApplyKeepsPublishers
<1>2. CASE UNCHANGED <<outboxVars, books>>
  BY <1>2 DEF outboxVars, books, PublishersInv, OutboxTypeOK, BatchesApart
<1>3. ASSUME NEW r \in Readers, Restart(r)
      PROVE  PublishersInv'
  <2>1. UNCHANGED <<outbox, delivered, ledger>>
    BY <1>3 DEF Restart, books
  <2>2. batch' = batch \/ (r \in Publishers /\ batch' = [batch EXCEPT ![r] = {}])
    BY <1>3 DEF Restart, DropBatch
  <2>3. batch' \in [Publishers -> SUBSET Nat] /\ \A o \in Publishers : batch'[o] \subseteq batch[o]
    BY <2>2 DEF PublishersInv, OutboxTypeOK
  <2>4. QED
    BY <2>1, <2>3 DEF PublishersInv, OutboxTypeOK, BatchesApart
<1>4. ASSUME NEW w \in Publishers, Poll(w) \/ Publish(w) \/ PublishFails(w)
      PROVE  PublishersInv'
  <2>1. UNCHANGED ledger
    BY <1>4 DEF Poll, Publish, PublishFails, books
  <2>2. CASE Poll(w)
    BY <2>1, <2>2, PollKeepsPublishers DEF Poll
  <2>3. CASE Publish(w) \/ PublishFails(w)
    BY <2>1, <2>3, PublishKeepsPublishers DEF Publish, PublishFails
  <2>4. QED
    BY <1>4, <2>2, <2>3
<1>5. ASSUME NEW r \in Readers, Handle(r) \/ DatabaseError(r), ~ApplyTradeExecution(r)
      PROVE  UNCHANGED <<outboxVars, books>>
  BY <1>5 DEF Handle, Fetch, SkipOther, RejectInvalid, BeginTransaction, SkipDuplicate,
    LockBuyer, LockSeller, RefuseTrade, DeadlockVictim, WriteDeadLetter, Commit,
    DatabaseError, Unmoved
<1>6. ASSUME NEW p \in Partitions, TradesPublished(p)
      PROVE  UNCHANGED <<outboxVars, books>>
  BY <1>6 DEF TradesPublished, Unmoved
<1>7. ASSUME NEW p \in Partitions, NEW r \in Readers, Reassign(p, r)
      PROVE  UNCHANGED <<outboxVars, books>>
  BY <1>7 DEF Reassign
<1>8. CASE UNCHANGED vars
  BY <1>2, <1>8 DEF vars
<1>9. QED
  BY <1>1, <1>2, <1>3, <1>4, <1>5, <1>6, <1>7, <1>8 DEF Next

-----------------------------------------------------------------------------

LEMMA AllInvariants == Spec => [](PassedInv /\ LocksInv /\ BooksInv /\ PublishersInv)
<1>1. Init => PassedInv /\ LocksInv /\ BooksInv /\ PublishersInv
  BY InitPassed, InitLocks, InitBooks, InitPublishers
<1>2. PassedInv /\ LocksInv /\ BooksInv /\ PublishersInv /\ [Next]_vars
        => (PassedInv /\ LocksInv /\ BooksInv /\ PublishersInv)'
  BY NextPassed, NextLocks, NextBooks, NextPublishers
<1>3. QED
  BY <1>1, <1>2, PTL DEF Spec

\* Types, the locks of the transactions, no negative balance, one row of
\* each table per execution, and a row that is being published is in one
\* process's batch at most (repository.ApplyTradeExecution, outbox.Publisher).
THEOREM PortfolioInvariant == Spec => []PortfolioInv
<1>1. PassedInv /\ LocksInv /\ BooksInv /\ PublishersInv => PortfolioInv
  BY DEF PassedInv, ConsumerInv, LocksInv, BooksInv, PublishersInv, PortfolioInv, PortfolioTypeOK
<1>2. QED
  BY <1>1, AllInvariants, PTL

-----------------------------------------------------------------------------
(***************************************************************************)
(* The books implement the ledger specification                            *)
(***************************************************************************)

LEMMA InitRefines ==
  ASSUME Init
  PROVE  Ledger!Init
<1>1. [u \in Users |-> holdings[u].quantity] = InitialHoldings
  BY PortfolioAssumption DEF Init
<1>2. {TradeOf(ledger[i]) : i \in DOMAIN ledger} = {}
  BY DEF Init
<1>3. QED
  BY <1>1, <1>2 DEF Init, Ledger!Init

\* The application of a trade is a step of the ledger: the unique index keeps
\* an execution from being applied twice, the locks make the two balances one
\* change, and the guards are tested under them.
LEMMA ApplyRefines ==
  ASSUME PassedInv, LocksInv, BooksInv, NEW r \in Readers, ApplyTradeExecution(r)
  PROVE  Ledger!Next
<1> DEFINE b == Event(r)
           m == Message(r)
           trade == TradeOf(m)
<1>1. /\ m \in Messages /\ b = Body[m]
      /\ b.buyer \in Users /\ b.seller \in Users /\ b.buyer # b.seller
      /\ Applicable(b)
  BY TradeAtHand
<1>2. /\ cash' = [cash EXCEPT ![b.buyer] = @ - Gross(b),
                              ![b.seller] = @ + Gross(b)]
      /\ holdings' \in [Users -> [quantity : Int, average : Int]]
      /\ holdings'[b.buyer].quantity = holdings[b.buyer].quantity + Ten(b.quantity)
      /\ holdings'[b.seller].quantity = holdings[b.seller].quantity - Ten(b.quantity)
      /\ \A u \in Users \ {b.buyer, b.seller} : holdings'[u] = holdings[u]
      /\ ledger' = Append(ledger, m)
      /\ Gross(b) <= cash[b.buyer]
      /\ Ten(b.quantity) <= holdings[b.seller].quantity
  BY TradeWritten
<1>3. /\ trade.execution = b.executionId /\ trade.buyer = b.buyer /\ trade.seller = b.seller
      /\ trade.quantity = Ten(b.quantity) /\ trade.amount = Gross(b)
  BY <1>1 DEF TradeOf
<1> HIDE DEF b, m, trade
<1>4. /\ cash[b.buyer] >= Gross(b)
      /\ holdings[b.seller].quantity >= Ten(b.quantity)
      /\ \A i \in DOMAIN ledger : Body[ledger[i]].executionId # b.executionId
  <2>1. /\ cash[b.buyer] \in Int /\ holdings[b.seller].quantity \in Int
        /\ Gross(b) \in Nat /\ Ten(b.quantity) \in Nat
    BY <1>1, TradeAtHand DEF BooksInv, b
  <2>2. QED
    BY <1>1, <1>2, <2>1 DEF Applicable, Processed, RowsOf
<1>5. \A other \in {TradeOf(ledger[i]) : i \in DOMAIN ledger} : other.execution # trade.execution
  BY <1>3, <1>4 DEF TradeOf
<1>6. ledger \in Seq(Messages)
  BY DEF PassedInv
<1>7. {TradeOf(ledger'[i]) : i \in DOMAIN ledger'}
        = {TradeOf(ledger[i]) : i \in DOMAIN ledger} \union {trade}
  <2>1. DOMAIN ledger' = DOMAIN ledger \union {Len(ledger) + 1}
    BY <1>1, <1>2, <1>6
  <2>2. \A i \in DOMAIN ledger : ledger'[i] = ledger[i]
    BY <1>1, <1>2, <1>6
  <2>3. ledger'[Len(ledger) + 1] = m
    BY <1>1, <1>2, <1>6
  <2>4. TradeOf(m) = trade
    BY DEF trade
  <2>5. QED
    BY <2>1, <2>2, <2>3, <2>4
<1>8. [u \in Users |-> holdings'[u].quantity]
        = [[u \in Users |-> holdings[u].quantity] EXCEPT
             ![trade.buyer] = @ + trade.quantity, ![trade.seller] = @ - trade.quantity]
  BY <1>1, <1>2, <1>3
<1>9. trade \in {TradeOf(n) : n \in Messages}
  BY <1>1 DEF trade
<1>10. QED
  BY <1>1, <1>2, <1>3, <1>4, <1>5, <1>7, <1>8, <1>9 DEF Ledger!Next, Ledger!Apply

\* docs/portfolio/idempotent-event-processing.md: duplicates, redeliveries,
\* concurrent processes, crashes and lost commit answers notwithstanding, an
\* execution changes both portfolios at once, once, and only when the buyer
\* can pay and the seller holds what is sold.
THEOREM PortfolioImplementsLedger == Spec => ImplementsLedger
<1>1. Init => Ledger!Init
  BY InitRefines
<1>2. PassedInv /\ LocksInv /\ BooksInv /\ [Next]_vars => [Ledger!Next]_Ledger!vars
  <2> SUFFICES ASSUME PassedInv, LocksInv, BooksInv, [Next]_vars
               PROVE  [Ledger!Next]_Ledger!vars
    OBVIOUS
  <2>1. CASE UNCHANGED books
    BY <2>1 DEF books, Ledger!vars
  <2>2. QED
    BY <2>1, ApplyRefines, BooksUntouched
<1>3. QED
  BY <1>1, <1>2, AllInvariants, PTL DEF Spec, ImplementsLedger, Ledger!Spec

-----------------------------------------------------------------------------
(***************************************************************************)
(* The balances add up                                                     *)
(***************************************************************************)

\* The rows are finitely many, their amounts are integers, and each belongs to
\* an execution of the ledger; the balances are what they add up to.
BalancesInv ==
  /\ IsFiniteSet(transactions)
  /\ \A t \in transactions : /\ t.gross \in Int /\ t.quantity \in Int /\ t.realized \in Int
                             /\ Processed(t.executionId)
  /\ BooksBalance

\* How rounding adds up: one more amount, and one more rounding.
LEMMA CloseGrows ==
  ASSUME NEW x \in Int, NEW y \in Int, NEW n \in Nat, Close(x, y, n),
         NEW d \in Int, NEW e \in Int,
         d - Slack(EighthDecimal) <= e, e <= d + Slack(EighthDecimal)
  PROVE  Close(x + d, y + e, n + 1) /\ Close(x - d, y - e, n + 1)
<1>1. PICK h : h = Slack(EighthDecimal)
  OBVIOUS
<1>2. h \in Nat
  BY <1>1, Units, RoundedClose
<1>3. PICK k : k = h * n
  OBVIOUS
<1>4. k \in Nat /\ h * (n + 1) = k + h
  BY <1>2, <1>3
<1>5. x <= y + k /\ y <= x + k /\ d - h <= e /\ e <= d + h
  BY <1>1, <1>3 DEF Close
<1>6. /\ x + d <= (y + e) + (k + h) /\ y + e <= (x + d) + (k + h)
      /\ x - d <= (y - e) + (k + h) /\ y - e <= (x - d) + (k + h)
  BY <1>2, <1>4, <1>5
<1>7. QED
  BY <1>1, <1>4, <1>6 DEF Close

LEMMA InitBalances ==
  ASSUME Init
  PROVE  BalancesInv
<1>1. transactions = {} /\ IsFiniteSet(transactions)
  BY FS_EmptySet DEF Init
<1>2. \A u \in Users : Rows(u, "BUY") = {} /\ Rows(u, "SELL") = {}
  BY <1>1 DEF Rows
<1>3. \A f : SumFunctionOnSet(f, {}) = 0
  BY SumEmpty
<1>4. \A u \in Users : /\ cash[u] = InitialCash /\ realized[u] = 0
                       /\ holdings[u].quantity = InitialHoldings[u]
  BY DEF Init
<1>5. InitialCash \in Int /\ \A u \in Users : InitialHoldings[u] \in Int
  BY PortfolioAssumption
<1>6. \A x \in Int : Close(x, x, 0)
  BY Units, RoundedClose DEF Close
<1>7. BooksBalance
  <2> SUFFICES ASSUME NEW u \in Users
               PROVE  LET n == Cardinality(Rows(u, "BUY")) + Cardinality(Rows(u, "SELL")) IN
                      /\ Close(cash[u], InitialCash - SumFunctionOnSet(Amounts, Rows(u, "BUY"))
                                                    + SumFunctionOnSet(Amounts, Rows(u, "SELL")), n)
                      /\ Close(holdings[u].quantity,
                               InitialHoldings[u] + SumFunctionOnSet(Volumes, Rows(u, "BUY"))
                                                  - SumFunctionOnSet(Volumes, Rows(u, "SELL")), n)
                      /\ Close(realized[u], SumFunctionOnSet(Profits, Rows(u, "SELL")),
                               Cardinality(Rows(u, "SELL")))
    BY DEF BooksBalance
  <2>1. /\ SumFunctionOnSet(Amounts, Rows(u, "BUY")) = 0
        /\ SumFunctionOnSet(Amounts, Rows(u, "SELL")) = 0
        /\ SumFunctionOnSet(Volumes, Rows(u, "BUY")) = 0
        /\ SumFunctionOnSet(Volumes, Rows(u, "SELL")) = 0
        /\ SumFunctionOnSet(Profits, Rows(u, "SELL")) = 0
    BY <1>2, <1>3
  <2>2. Cardinality(Rows(u, "BUY")) = 0 /\ Cardinality(Rows(u, "SELL")) = 0
    BY <1>2, FS_EmptySet
  <2>3. InitialCash - 0 + 0 = InitialCash /\ InitialHoldings[u] + 0 - 0 = InitialHoldings[u]
    BY <1>5
  <2>4. QED
    BY <1>4, <1>5, <1>6, <2>1, <2>2, <2>3
<1>8. QED
  BY <1>1, <1>7 DEF BalancesInv

\* What two new rows add to the sum of a column over a user's rows.
LEMMA ColumnGrows ==
  ASSUME BalancesInv, NEW u \in Users, NEW side,
         NEW t, t \notin transactions, t \in transactions',
         t.user = u, t.side = side,
         \A other \in transactions' \ transactions :
           other.user = u /\ other.side = side => other = t,
         transactions \subseteq transactions',
         NEW f, \A x \in transactions : f[x] \in Int,
         NEW g, \A x \in transactions : g[x] = f[x], g[t] \in Int
  PROVE  /\ SumFunctionOnSet(f, Rows(u, side)) \in Int
         /\ SumFunctionOnSet(g, Rows(u, side)') = SumFunctionOnSet(f, Rows(u, side)) + g[t]
         /\ Cardinality(Rows(u, side)) \in Nat
         /\ Cardinality(Rows(u, side)') = Cardinality(Rows(u, side)) + 1
<1>1. Rows(u, side)' = Rows(u, side) \union {t}
  BY DEF Rows
<1>2. Rows(u, side) \subseteq transactions
  BY DEF Rows
<1>3. IsFiniteSet(Rows(u, side))
  BY <1>2, FS_Subset DEF BalancesInv
<1>4. /\ t \notin Rows(u, side)
      /\ \A x \in Rows(u, side) : f[x] \in Int /\ g[x] = f[x]
  BY <1>2
<1>5. /\ Cardinality(Rows(u, side)) \in Nat
      /\ Cardinality(Rows(u, side) \union {t}) = Cardinality(Rows(u, side)) + 1
  BY <1>3, <1>4, FS_CardinalityType, FS_AddElement
<1>6. QED
  BY <1>1, <1>3, <1>4, <1>5, SumGrows

\* A column over the rows of a user the trade is none of.
LEMMA ColumnStays ==
  ASSUME BalancesInv, NEW u \in Users, NEW side,
         \A other \in transactions' \ transactions : ~(other.user = u /\ other.side = side),
         transactions \subseteq transactions',
         NEW f, \A x \in transactions : f[x] \in Int,
         NEW g, \A x \in transactions : g[x] = f[x]
  PROVE  /\ SumFunctionOnSet(f, Rows(u, side)) \in Int
         /\ SumFunctionOnSet(g, Rows(u, side)') = SumFunctionOnSet(f, Rows(u, side))
         /\ Cardinality(Rows(u, side)) \in Nat
         /\ Cardinality(Rows(u, side)') = Cardinality(Rows(u, side))
<1>1. Rows(u, side)' = Rows(u, side) /\ Rows(u, side) \subseteq transactions
  BY DEF Rows
<1>2. IsFiniteSet(Rows(u, side))
  BY <1>1, FS_Subset DEF BalancesInv
<1>3. \A x \in Rows(u, side) : f[x] \in Int /\ g[x] = f[x]
  BY <1>1
<1>4. SumFunctionOnSet(f, Rows(u, side)) \in Int
  BY <1>2, <1>3, SumInteger
<1>5. SumFunctionOnSet(g, Rows(u, side)) = SumFunctionOnSet(f, Rows(u, side))
  BY <1>2, <1>3, SumSame
<1>6. QED
  BY <1>1, <1>2, <1>4, <1>5, FS_CardinalityType

\* A trade adds a row for each side.
LEMMA TradeAddsRows ==
  ASSUME PassedInv, LocksInv, BooksInv, BalancesInv,
         NEW r \in Readers, ApplyTradeExecution(r)
  PROVE  \E b, buy, sell, profit :
         /\ b = Event(r)
         /\ b.buyer \in Users /\ b.seller \in Users /\ b.buyer # b.seller
         /\ b.quantity \in Nat \ {0} /\ b.price \in Nat \ {0}
         /\ Gross(b) \in Int /\ Ten(b.quantity) \in Int /\ profit \in Int
         /\ buy = Transaction(b, b.buyer, "BUY", 0)
         /\ sell = Transaction(b, b.seller, "SELL", profit)
         /\ transactions' = transactions \union {buy, sell}
         /\ buy \notin transactions /\ sell \notin transactions
         /\ realized' = [realized EXCEPT ![b.seller] = @ + profit]
         /\ Processed(b.executionId)'
<1>0. PICK b, buy, sell, profit :
        /\ b = Event(r)
        /\ profit = Product(b.price - holdings[b.seller].average, b.quantity)
        /\ buy = Transaction(b, b.buyer, "BUY", 0)
        /\ sell = Transaction(b, b.seller, "SELL", profit)
  OBVIOUS
<1>1. /\ Message(r) \in Messages /\ b = Body[Message(r)]
      /\ b.buyer \in Users /\ b.seller \in Users /\ b.buyer # b.seller
      /\ b.quantity \in Nat \ {0} /\ b.price \in Nat \ {0}
      /\ Ten(b.quantity) \in Int /\ Gross(b) \in Int
      /\ Applicable(b) /\ WriteBooks(b, Message(r))
  BY <1>0, TradeAtHand
<1>2. ledger' = Append(ledger, Message(r)) /\ ledger \in Seq(Messages)
  BY TradeWritten DEF PassedInv
<1>3. ~Processed(b.executionId)
  BY <1>1 DEF Applicable
<1>4. Processed(b.executionId)'
  <2>1. Len(ledger) + 1 \in DOMAIN ledger' /\ ledger'[Len(ledger) + 1] = Message(r)
    BY <1>1, <1>2
  <2>2. QED
    BY <1>1, <2>1 DEF Processed, RowsOf
<1>5. holdings[b.seller].average \in Int
  BY <1>1 DEF BooksInv
<1>6. profit \in Int
  <2>1. b.price - holdings[b.seller].average \in Int /\ b.quantity \in Int
    BY <1>1, <1>5
  <2>2. QED
    BY <1>0, <2>1, ProductFacts
<1>7. /\ transactions' = transactions \union {buy, sell}
      /\ realized' = [realized EXCEPT ![b.seller] = @ + profit]
  BY <1>0, <1>1 DEF WriteBooks
<1>8. \A t \in transactions : t.executionId # b.executionId
  BY <1>3 DEF BalancesInv
<1>9. buy.executionId = b.executionId /\ sell.executionId = b.executionId
  BY <1>0 DEF Transaction
<1>10. buy \notin transactions /\ sell \notin transactions
  BY <1>8, <1>9
<1>11. QED
  BY <1>0, <1>1, <1>4, <1>6, <1>7, <1>10

LEMMA ApplyKeepsBalances ==
  ASSUME PassedInv, LocksInv, BooksInv, BalancesInv,
         NEW r \in Readers, ApplyTradeExecution(r)
  PROVE  BalancesInv'
<1>1. PICK b, buy, sell, profit :
         /\ b = Event(r)
         /\ b.buyer \in Users /\ b.seller \in Users /\ b.buyer # b.seller
         /\ b.quantity \in Nat \ {0} /\ b.price \in Nat \ {0}
         /\ Gross(b) \in Int /\ Ten(b.quantity) \in Int /\ profit \in Int
         /\ buy = Transaction(b, b.buyer, "BUY", 0)
         /\ sell = Transaction(b, b.seller, "SELL", profit)
         /\ transactions' = transactions \union {buy, sell}
         /\ buy \notin transactions /\ sell \notin transactions
         /\ realized' = [realized EXCEPT ![b.seller] = @ + profit]
         /\ Processed(b.executionId)'
  BY TradeAddsRows
<1> DEFINE gross == Gross(b)
           volume == Ten(b.quantity)
<1>2. /\ cash' = [cash EXCEPT ![b.buyer] = @ - gross, ![b.seller] = @ + gross]
      /\ holdings'[b.buyer].quantity = holdings[b.buyer].quantity + volume
      /\ holdings'[b.seller].quantity = holdings[b.seller].quantity - volume
      /\ \A u \in Users \ {b.buyer, b.seller} : holdings'[u] = holdings[u]
      /\ ledger' = Append(ledger, Message(r))
  BY <1>1, TradeWritten
<1>3. /\ buy.user = b.buyer /\ buy.side = "BUY" /\ buy.executionId = b.executionId
      /\ buy.gross = RoundedTo(gross, EighthDecimal)
      /\ buy.quantity = RoundedTo(volume, EighthDecimal)
      /\ buy.realized = RoundedTo(0, EighthDecimal)
      /\ sell.user = b.seller /\ sell.side = "SELL" /\ sell.executionId = b.executionId
      /\ sell.gross = buy.gross /\ sell.quantity = buy.quantity
      /\ sell.realized = RoundedTo(profit, EighthDecimal)
  BY <1>1 DEF Transaction
<1>4. gross \in Int /\ volume \in Int
  BY <1>1
<1> HIDE DEF gross, volume
<1> DEFINE h == Slack(EighthDecimal)
<1>0. /\ buy.gross \in Int /\ gross - h <= buy.gross /\ buy.gross <= gross + h
      /\ buy.quantity \in Int /\ volume - h <= buy.quantity /\ buy.quantity <= volume + h
      /\ sell.realized \in Int /\ profit - h <= sell.realized /\ sell.realized <= profit + h
      /\ buy.realized \in Int
  <2>1. \A x \in Int : /\ RoundedTo(x, EighthDecimal) \in Int
                        /\ x - h <= RoundedTo(x, EighthDecimal)
                        /\ RoundedTo(x, EighthDecimal) <= x + h
    BY Units, RoundedClose
  <2> HIDE DEF h
  <2>2. 0 \in Int /\ profit \in Int
    BY <1>1
  <2>3. QED
    BY <1>3, <1>4, <2>1, <2>2
<1>5. IsFiniteSet(transactions')
  <2>1. IsFiniteSet(transactions \union {buy})
    BY FS_AddElement DEF BalancesInv
  <2>2. IsFiniteSet((transactions \union {buy}) \union {sell})
    BY <2>1, FS_AddElement
  <2>3. transactions' = (transactions \union {buy}) \union {sell}
    BY <1>1
  <2>4. QED
    BY <2>2, <2>3
<1>6. ASSUME NEW t \in transactions'
      PROVE  /\ t.gross \in Int /\ t.quantity \in Int /\ t.realized \in Int
             /\ Processed(t.executionId)'
  <2>1. CASE t \in transactions
    <3>1. /\ t.gross \in Int /\ t.quantity \in Int /\ t.realized \in Int
          /\ Processed(t.executionId)
      BY <2>1 DEF BalancesInv
    <3>2. ledger \in Seq(Messages) /\ Message(r) \in Messages
      BY TradeAtHand DEF PassedInv
    <3>3. \A i \in DOMAIN ledger : i \in DOMAIN ledger' /\ ledger'[i] = ledger[i]
      BY <1>2, <3>2
    <3>4. Processed(t.executionId)'
      BY <3>1, <3>3 DEF Processed, RowsOf
    <3>5. QED
      BY <3>1, <3>4
  <2>2. CASE t \in {buy, sell}
    BY <1>0, <1>1, <1>3, <2>2
  <2>3. QED
    BY <1>1, <2>1, <2>2
<1>7. /\ \A t \in transactions : Amounts[t] \in Int /\ Volumes[t] \in Int /\ Profits[t] \in Int
      /\ \A t \in transactions : /\ Amounts'[t] = Amounts[t] /\ Volumes'[t] = Volumes[t]
                                 /\ Profits'[t] = Profits[t]
      /\ Amounts'[buy] = buy.gross /\ Volumes'[buy] = buy.quantity
      /\ Amounts'[sell] = buy.gross /\ Volumes'[sell] = buy.quantity
      /\ Profits'[sell] = sell.realized
  BY <1>1, <1>3 DEF BalancesInv, Amounts, Volumes, Profits
<1>8. /\ transactions \subseteq transactions' /\ buy \in transactions' /\ sell \in transactions'
      /\ \A t \in transactions' \ transactions : t = buy \/ t = sell
  BY <1>1
<1> DEFINE Sum(column, u, side) == SumFunctionOnSet(column, Rows(u, side))
           SumAfter(column, u, side) == SumFunctionOnSet(column', Rows(u, side)')
           Count(u, side) == Cardinality(Rows(u, side))
           CountAfter(u, side) == Cardinality(Rows(u, side)')
<1>9. ASSUME NEW u \in Users
      PROVE  /\ Sum(Amounts, u, "BUY") \in Int /\ Sum(Volumes, u, "BUY") \in Int
             /\ Count(u, "BUY") \in Nat
             /\ u = b.buyer =>
                  /\ SumAfter(Amounts, u, "BUY") = Sum(Amounts, u, "BUY") + buy.gross
                  /\ SumAfter(Volumes, u, "BUY") = Sum(Volumes, u, "BUY") + buy.quantity
                  /\ CountAfter(u, "BUY") = Count(u, "BUY") + 1
             /\ u # b.buyer =>
                  /\ SumAfter(Amounts, u, "BUY") = Sum(Amounts, u, "BUY")
                  /\ SumAfter(Volumes, u, "BUY") = Sum(Volumes, u, "BUY")
                  /\ CountAfter(u, "BUY") = Count(u, "BUY")
  <2>1. CASE u = b.buyer
    <3>1. \A t \in transactions' \ transactions : t.user = u /\ t.side = "BUY" => t = buy
      BY <1>3, <1>8
    <3>2. /\ Sum(Amounts, u, "BUY") \in Int /\ Count(u, "BUY") \in Nat
          /\ SumAfter(Amounts, u, "BUY") = Sum(Amounts, u, "BUY") + Amounts'[buy]
          /\ CountAfter(u, "BUY") = Count(u, "BUY") + 1
      BY <1>0, <1>1, <1>3, <1>7, <1>8, <2>1, <3>1, ColumnGrows
    <3>3. /\ Sum(Volumes, u, "BUY") \in Int
          /\ SumAfter(Volumes, u, "BUY") = Sum(Volumes, u, "BUY") + Volumes'[buy]
      BY <1>0, <1>1, <1>3, <1>7, <1>8, <2>1, <3>1, ColumnGrows
    <3>4. QED
      BY <1>7, <2>1, <3>2, <3>3
  <2>2. CASE u # b.buyer
    <3>1. \A t \in transactions' \ transactions : ~(t.user = u /\ t.side = "BUY")
      BY <1>3, <1>8, <2>2
    <3>2. QED
      BY <1>7, <1>8, <2>2, <3>1, ColumnStays
  <2>3. QED
    BY <2>1, <2>2
<1>10. ASSUME NEW u \in Users
       PROVE  /\ Sum(Amounts, u, "SELL") \in Int /\ Sum(Volumes, u, "SELL") \in Int
              /\ Sum(Profits, u, "SELL") \in Int /\ Count(u, "SELL") \in Nat
              /\ u = b.seller =>
                   /\ SumAfter(Amounts, u, "SELL") = Sum(Amounts, u, "SELL") + buy.gross
                   /\ SumAfter(Volumes, u, "SELL") = Sum(Volumes, u, "SELL") + buy.quantity
                   /\ SumAfter(Profits, u, "SELL") = Sum(Profits, u, "SELL") + sell.realized
                   /\ CountAfter(u, "SELL") = Count(u, "SELL") + 1
              /\ u # b.seller =>
                   /\ SumAfter(Amounts, u, "SELL") = Sum(Amounts, u, "SELL")
                   /\ SumAfter(Volumes, u, "SELL") = Sum(Volumes, u, "SELL")
                   /\ SumAfter(Profits, u, "SELL") = Sum(Profits, u, "SELL")
                   /\ CountAfter(u, "SELL") = Count(u, "SELL")
  <2>1. CASE u = b.seller
    <3>1. \A t \in transactions' \ transactions : t.user = u /\ t.side = "SELL" => t = sell
      BY <1>3, <1>8
    <3>2. /\ Sum(Amounts, u, "SELL") \in Int /\ Count(u, "SELL") \in Nat
          /\ SumAfter(Amounts, u, "SELL") = Sum(Amounts, u, "SELL") + Amounts'[sell]
          /\ CountAfter(u, "SELL") = Count(u, "SELL") + 1
      BY <1>0, <1>1, <1>3, <1>7, <1>8, <2>1, <3>1, ColumnGrows
    <3>3. /\ Sum(Volumes, u, "SELL") \in Int
          /\ SumAfter(Volumes, u, "SELL") = Sum(Volumes, u, "SELL") + Volumes'[sell]
      BY <1>0, <1>1, <1>3, <1>7, <1>8, <2>1, <3>1, ColumnGrows
    <3>4. /\ Sum(Profits, u, "SELL") \in Int
          /\ SumAfter(Profits, u, "SELL") = Sum(Profits, u, "SELL") + Profits'[sell]
      BY <1>0, <1>1, <1>3, <1>7, <1>8, <2>1, <3>1, ColumnGrows
    <3>5. QED
      BY <1>7, <2>1, <3>2, <3>3, <3>4
  <2>2. CASE u # b.seller
    <3>1. \A t \in transactions' \ transactions : ~(t.user = u /\ t.side = "SELL")
      BY <1>3, <1>8, <2>2
    <3>2. QED
      BY <1>7, <1>8, <2>2, <3>1, ColumnStays
  <2>3. QED
    BY <2>1, <2>2
<1> DEFINE Owed(u) == InitialCash - Sum(Amounts, u, "BUY") + Sum(Amounts, u, "SELL")
           Held(u) == InitialHoldings[u] + Sum(Volumes, u, "BUY") - Sum(Volumes, u, "SELL")
           Made(u) == Sum(Profits, u, "SELL")
           All(u) == Count(u, "BUY") + Count(u, "SELL")
           OwedAfter(u) == InitialCash - SumAfter(Amounts, u, "BUY") + SumAfter(Amounts, u, "SELL")
           HeldAfter(u) ==
             InitialHoldings[u] + SumAfter(Volumes, u, "BUY") - SumAfter(Volumes, u, "SELL")
           MadeAfter(u) == SumAfter(Profits, u, "SELL")
           AllAfter(u) == CountAfter(u, "BUY") + CountAfter(u, "SELL")
<1>11. \A u \in Users : /\ Close(cash[u], Owed(u), All(u))
                        /\ Close(holdings[u].quantity, Held(u), All(u))
                        /\ Close(realized[u], Made(u), Count(u, "SELL"))
  BY DEF BalancesInv, BooksBalance
<1>12. /\ InitialCash \in Int /\ \A u \in Users : InitialHoldings[u] \in Int
       /\ cash \in [Users -> Int] /\ realized \in [Users -> Int]
       /\ \A u \in Users : holdings[u].quantity \in Int
  BY PortfolioAssumption DEF BooksInv
<1> HIDE DEF Sum, SumAfter, Count, CountAfter, h
<1>13. ASSUME NEW u \in Users
       PROVE  /\ Owed(u) \in Int /\ Held(u) \in Int /\ Made(u) \in Int
              /\ All(u) \in Nat /\ Count(u, "SELL") \in Nat
              /\ u = b.buyer => /\ OwedAfter(u) = Owed(u) - buy.gross
                                /\ HeldAfter(u) = Held(u) + buy.quantity
                                /\ AllAfter(u) = All(u) + 1
              /\ u = b.seller => /\ OwedAfter(u) = Owed(u) + buy.gross
                                 /\ HeldAfter(u) = Held(u) - buy.quantity
                                 /\ AllAfter(u) = All(u) + 1
                                 /\ MadeAfter(u) = Made(u) + sell.realized
                                 /\ CountAfter(u, "SELL") = Count(u, "SELL") + 1
              /\ u \notin {b.buyer, b.seller} =>
                   /\ OwedAfter(u) = Owed(u) /\ HeldAfter(u) = Held(u) /\ AllAfter(u) = All(u)
              /\ u # b.seller =>
                   MadeAfter(u) = Made(u) /\ CountAfter(u, "SELL") = Count(u, "SELL")
  <2>1. PICK A, V, B, W, P, n, m :
          /\ A = Sum(Amounts, u, "BUY") /\ V = Sum(Volumes, u, "BUY") /\ n = Count(u, "BUY")
          /\ B = Sum(Amounts, u, "SELL") /\ W = Sum(Volumes, u, "SELL") /\ m = Count(u, "SELL")
          /\ P = Sum(Profits, u, "SELL")
    OBVIOUS
  <2>2. PICK i, k : i = InitialCash /\ k = InitialHoldings[u]
    OBVIOUS
  <2>3. PICK g, v, t : g = buy.gross /\ v = buy.quantity /\ t = sell.realized
    OBVIOUS
  <2>4. /\ A \in Int /\ V \in Int /\ B \in Int /\ W \in Int /\ P \in Int /\ n \in Nat /\ m \in Nat
        /\ i \in Int /\ k \in Int /\ g \in Int /\ v \in Int /\ t \in Int
    BY <1>0, <1>9, <1>10, <1>12, <2>1, <2>2, <2>3
  <2>5. /\ Owed(u) = i - A + B /\ Held(u) = k + V - W /\ Made(u) = P /\ All(u) = n + m
        /\ Count(u, "SELL") = m
    BY <2>1, <2>2
  <2>6. CASE u = b.buyer
    <3>1. /\ OwedAfter(u) = i - (A + g) + B /\ HeldAfter(u) = k + (V + v) - W
          /\ MadeAfter(u) = P /\ AllAfter(u) = (n + 1) + m /\ CountAfter(u, "SELL") = m
      BY <1>1, <1>9, <1>10, <2>1, <2>2, <2>3, <2>6
    <3>2. QED
      BY <1>1, <2>3, <2>4, <2>5, <2>6, <3>1
  <2>7. CASE u = b.seller
    <3>1. /\ OwedAfter(u) = i - A + (B + g) /\ HeldAfter(u) = k + V - (W + v)
          /\ MadeAfter(u) = P + t /\ AllAfter(u) = n + (m + 1)
          /\ CountAfter(u, "SELL") = m + 1
      BY <1>1, <1>9, <1>10, <2>1, <2>2, <2>3, <2>7
    <3>2. QED
      BY <1>1, <2>3, <2>4, <2>5, <2>7, <3>1
  <2>8. CASE u \notin {b.buyer, b.seller}
    <3>1. /\ OwedAfter(u) = i - A + B /\ HeldAfter(u) = k + V - W
          /\ MadeAfter(u) = P /\ AllAfter(u) = n + m /\ CountAfter(u, "SELL") = m
      BY <1>9, <1>10, <2>1, <2>2, <2>8
    <3>2. QED
      BY <2>4, <2>5, <2>8, <3>1
  <2>9. QED
    BY <2>6, <2>7, <2>8
<1>14. \A u \in Users :
         /\ u = b.buyer => cash'[u] = cash[u] - gross
         /\ u = b.seller => /\ cash'[u] = cash[u] + gross
                            /\ realized'[u] = realized[u] + profit
         /\ u \notin {b.buyer, b.seller} => cash'[u] = cash[u]
         /\ u # b.seller => realized'[u] = realized[u]
  BY <1>1, <1>2, <1>12
<1> HIDE DEF Owed, Held, Made, All, OwedAfter, HeldAfter, MadeAfter, AllAfter
<1>15. ASSUME NEW u \in Users
       PROVE  /\ Close(cash'[u], OwedAfter(u), AllAfter(u))
              /\ Close(holdings'[u].quantity, HeldAfter(u), AllAfter(u))
              /\ Close(realized'[u], MadeAfter(u), CountAfter(u, "SELL"))
  <2>1. PICK c, q, p, due, held, all, made, sales :
          /\ c = cash[u] /\ q = holdings[u].quantity /\ p = realized[u]
          /\ due = Owed(u) /\ held = Held(u) /\ all = All(u)
          /\ made = Made(u) /\ sales = Count(u, "SELL")
    OBVIOUS
  <2>2. PICK g, v, t : g = buy.gross /\ v = buy.quantity /\ t = sell.realized
    OBVIOUS
  <2>3. /\ c \in Int /\ q \in Int /\ p \in Int
        /\ due \in Int /\ held \in Int /\ made \in Int /\ all \in Nat /\ sales \in Nat
    BY <1>12, <1>13, <2>1
  <2>4. Close(c, due, all) /\ Close(q, held, all) /\ Close(p, made, sales)
    BY <1>11, <2>1
  <2>5. Close(c + gross, due + g, all + 1) /\ Close(c - gross, due - g, all + 1)
    BY <1>0, <1>4, <2>2, <2>3, <2>4, CloseGrows DEF h
  <2>6. Close(q + volume, held + v, all + 1) /\ Close(q - volume, held - v, all + 1)
    BY <1>0, <1>4, <2>2, <2>3, <2>4, CloseGrows DEF h
  <2>7. Close(p + profit, made + t, sales + 1)
    BY <1>0, <1>1, <2>2, <2>3, <2>4, CloseGrows DEF h
  <2>8. CASE u = b.buyer
    BY <1>1, <1>2, <1>13, <1>14, <2>1, <2>2, <2>4, <2>5, <2>6, <2>8
  <2>9. CASE u = b.seller
    BY <1>1, <1>2, <1>13, <1>14, <2>1, <2>2, <2>5, <2>6, <2>7, <2>9
  <2>10. CASE u \in Users \ {b.buyer, b.seller}
    BY <1>2, <1>13, <1>14, <2>1, <2>4, <2>10
  <2>11. QED
    BY <2>8, <2>9, <2>10
<1>16. BooksBalance'
  BY <1>15 DEF BooksBalance, Close, Sum, SumAfter, Count, CountAfter, Owed, Held, Made, All,
               OwedAfter, HeldAfter, MadeAfter, AllAfter
<1>17. QED
  BY <1>5, <1>6, <1>16 DEF BalancesInv

LEMMA NextBalances ==
  ASSUME PassedInv, LocksInv, BooksInv, BalancesInv, [Next]_vars
  PROVE  BalancesInv'
<1>1. CASE UNCHANGED books
  BY <1>1 DEF books, BalancesInv, BooksBalance, Close, Rows, Amounts, Volumes, Profits, Processed, RowsOf
<1>2. QED
  BY <1>1, ApplyKeepsBalances, BooksUntouched

\* repository.ApplyTradeExecution: balances, holdings and realized profit are
\* changed by several statements, to ten decimals, and the transaction rows keep
\* eight; the books stay the opening balances plus what the rows say, up to half
\* an eighth decimal a row, whatever messages arrive twice, whichever
\* transactions conflict, and whichever processes die.
THEOREM BooksBalanceHolds == Spec => []BooksBalance
<1>1. Init => BalancesInv
  BY InitBalances
<1>2. PassedInv /\ LocksInv /\ BooksInv /\ BalancesInv /\ [Next]_vars => BalancesInv'
  BY NextBalances
<1>3. BalancesInv => BooksBalance
  BY DEF BalancesInv
<1>4. QED
  BY <1>1, <1>2, <1>3, AllInvariants, PTL DEF Spec

-----------------------------------------------------------------------------
(***************************************************************************)
(* What a user was last told                                               *)
(***************************************************************************)

\* Row, snapshot and announcement of a trade go together, and a buyer's cash is
\* what the announcement of the latest purchase says, plus the sales since.
AnnouncedInv ==
  /\ snapshots \in Seq(Portfolios) /\ Len(snapshots) = Len(ledger)
  /\ \A i \in DOMAIN outbox : outbox[i].event.portfolio = snapshots[i]
  /\ \A u \in Users : \A i \in Purchases(u) :
       (\A j \in Purchases(u) : j <= i) =>
         cash[u] = snapshots[i].cash + SumFunctionOnSet(Value, SalesAfter(u, i))

LEMMA InitAnnounced ==
  ASSUME Init
  PROVE  AnnouncedInv
BY DEF Init, OutboxInit, AnnouncedInv, Purchases

\* Every step but the application of a trade leaves the announcements alone.
LEMMA AnnouncementsKept ==
  ASSUME PublishersInv, [Next]_vars, \A r \in Readers : ~ApplyTradeExecution(r)
  PROVE  /\ DOMAIN outbox' = DOMAIN outbox
         /\ \A i \in DOMAIN outbox : outbox'[i].event = outbox[i].event
<1>1. \A i \in DOMAIN outbox : outbox[i] \in Row(Updates)
  BY DEF PublishersInv, OutboxTypeOK
<1>2. CASE UNCHANGED outbox
  BY <1>2
<1>3. ASSUME NEW w \in Publishers, FetchPending(w)
      PROVE  /\ DOMAIN outbox' = DOMAIN outbox
             /\ \A i \in DOMAIN outbox : outbox'[i].event = outbox[i].event
  BY <1>1, <1>3 DEF FetchPending, Row
<1>4. ASSUME NEW w \in Publishers, NEW i \in batch[w], MarkPublished(w, i) \/ MarkFailed(w, i)
      PROVE  /\ DOMAIN outbox' = DOMAIN outbox
             /\ \A k \in DOMAIN outbox : outbox'[k].event = outbox[k].event
  <2>1. i \in DOMAIN outbox
    BY DEF PublishersInv, BatchesApart
  <2>2. QED
    BY <1>1, <1>4, <2>1 DEF MarkPublished, MarkFailed, Row
<1>5. CASE UNCHANGED vars
  BY <1>2, <1>5 DEF vars, outboxVars
<1>6. ASSUME NEW p \in Partitions, TradesPublished(p)
      PROVE  UNCHANGED outbox
  BY <1>6 DEF TradesPublished, Unmoved, outboxVars
<1>7. ASSUME NEW r \in Readers, Handle(r) \/ DatabaseError(r) \/ Restart(r)
      PROVE  UNCHANGED outbox
  BY <1>7 DEF Handle, Fetch, SkipOther, RejectInvalid, BeginTransaction, SkipDuplicate,
    LockBuyer, LockSeller, RefuseTrade, DeadlockVictim, WriteDeadLetter, Commit,
    DatabaseError, Restart, Unmoved, outboxVars
<1>8. ASSUME NEW w \in Publishers, Poll(w) \/ Publish(w) \/ PublishFails(w)
      PROVE  \/ FetchPending(w) \/ UNCHANGED outbox
             \/ \E i \in batch[w] : MarkPublished(w, i) \/ MarkFailed(w, i)
  BY <1>8 DEF Poll, Publish, PublishFails, MarkLost
<1>9. ASSUME NEW p \in Partitions, NEW r \in Readers, Reassign(p, r)
      PROVE  UNCHANGED outbox
  BY <1>9 DEF Reassign, outboxVars
<1>10. QED
  BY <1>2, <1>3, <1>4, <1>5, <1>6, <1>7, <1>8, <1>9 DEF Next

\* The value of a ledger row, and the rows a user has sold in.
LEMMA SalesTyped ==
  ASSUME PassedInv, NEW u \in Users, NEW i
  PROVE  /\ IsFiniteSet(SalesAfter(u, i)) /\ SalesAfter(u, i) \subseteq DOMAIN ledger
         /\ \A j \in SalesAfter(u, i) : Value[j] \in Int
<1>1. ledger \in Seq(Messages)
  BY DEF PassedInv
<1>2. IsFiniteSet(DOMAIN ledger)
  BY <1>1, FS_Interval
<1>3. SalesAfter(u, i) \subseteq DOMAIN ledger
  BY DEF SalesAfter
<1>4. ASSUME NEW j \in DOMAIN ledger
      PROVE  Value[j] \in Int
  <2>1. Body[ledger[j]] \in Bodies
    BY <1>1, PortfolioAssumption
  <2>2. Body[ledger[j]].quantity \in Int /\ Body[ledger[j]].price \in Int
    BY <2>1 DEF Bodies
  <2>3. Gross(Body[ledger[j]]) \in Int
    BY <2>2, ProductFacts DEF Gross
  <2>4. QED
    BY <2>3 DEF Value
<1>5. QED
  BY <1>2, <1>3, <1>4, FS_Subset

LEMMA ApplyKeepsAnnounced ==
  ASSUME PassedInv, LocksInv, BooksInv, PublishersInv, AnnouncedInv,
         NEW r \in Readers, ApplyTradeExecution(r)
  PROVE  AnnouncedInv'
<1>1. PICK b, m :
        /\ b = Event(r) /\ m = Message(r)
        /\ m \in Messages /\ b = Body[m] /\ b \in Bodies
        /\ b.buyer \in Users /\ b.seller \in Users /\ b.buyer # b.seller
        /\ Gross(b) \in Nat
        /\ WriteBooks(b, m)
  BY TradeAtHand
<1>2. PICK gross : gross = Gross(b) /\ gross \in Int
  BY <1>1
<1>3. PICK n : n = Len(ledger) + 1
  OBVIOUS
<1>4. PICK portfolio, update : /\ portfolio = Portfolio(b.buyer, cash, holdings, realized)'
                              /\ update = PortfolioUpdated(b.buyer, cash, holdings, realized)'
  OBVIOUS
<1>5. /\ cash \in [Users -> Int]
      /\ cash' = [cash EXCEPT ![b.buyer] = @ - gross, ![b.seller] = @ + gross]
      /\ ledger \in Seq(Messages) /\ ledger' = Append(ledger, m)
      /\ snapshots' = Append(snapshots, portfolio)
      /\ outbox' = Append(outbox, [status |-> "pending", attempts |-> 0, event |-> update])
  BY <1>1, <1>2, <1>4 DEF WriteBooks, Insert, Portfolio, PortfolioUpdated, BooksInv, PassedInv
<1>6. /\ portfolio \in Portfolios /\ portfolio.cash = cash'[b.buyer]
      /\ update.portfolio = portfolio
  <2>1. BooksInv'
    BY ApplyKeepsBooks
  <2>2. /\ cash' \in [Users -> Int] /\ realized' \in [Users -> Int]
        /\ holdings' \in [Users -> [quantity : Int, average : Int]]
    BY <2>1 DEF BooksInv
  <2>3. Portfolio(b.buyer, cash, holdings, realized)' = Portfolio(b.buyer, cash', holdings', realized')
    BY DEF Portfolio
  <2>4. portfolio \in Portfolios
    BY <1>1, <1>4, <2>2, <2>3, UpdateTyped
  <2>5. portfolio.cash = cash'[b.buyer] /\ update.portfolio = portfolio
    BY <1>4 DEF Portfolio, PortfolioUpdated
  <2>6. QED
    BY <2>4, <2>5
<1>7. /\ n \in Nat \ {0} /\ DOMAIN ledger = 1 .. n - 1 /\ DOMAIN ledger' = 1 .. n
      /\ ledger'[n] = m /\ \A i \in 1 .. n - 1 : ledger'[i] = ledger[i]
  BY <1>1, <1>3, <1>5
<1>8. /\ snapshots' \in Seq(Portfolios) /\ Len(snapshots') = n
      /\ snapshots'[n] = portfolio
      /\ \A i \in 1 .. n - 1 : snapshots'[i] = snapshots[i]
  BY <1>3, <1>5, <1>6 DEF AnnouncedInv
<1>9. Len(snapshots') = Len(ledger')
  BY <1>3, <1>5, <1>8
<1>10. \A i \in DOMAIN outbox' : outbox'[i].event.portfolio = snapshots'[i]
  <2>1. outbox \in Seq(Row(Updates)) /\ Len(outbox) = n - 1
    BY <1>3 DEF PublishersInv, OutboxTypeOK, BatchesApart
  <2>2. /\ DOMAIN outbox' = 1 .. n /\ outbox'[n].event = update
        /\ \A i \in 1 .. n - 1 : i \in DOMAIN outbox /\ outbox'[i] = outbox[i]
    BY <1>5, <1>7, <2>1
  <2>3. \A i \in 1 .. n - 1 : outbox'[i].event.portfolio = snapshots'[i]
    BY <1>8, <2>2 DEF AnnouncedInv
  <2>4. QED
    BY <1>6, <1>7, <1>8, <2>2, <2>3
<1>11. \A i \in 1 .. n - 1 : Value'[i] = Value[i]
  BY <1>7 DEF Value
<1>12. Value'[n] = gross
  BY <1>1, <1>2, <1>7 DEF Value
<1>13. ASSUME NEW u \in Users, NEW i \in Purchases(u)',
              \A j \in Purchases(u)' : j <= i
       PROVE  cash'[u] = snapshots'[i].cash + SumFunctionOnSet(Value', SalesAfter(u, i)')
  <2>1. CASE u = b.buyer
    <3>1. n \in Purchases(u)'
      BY <1>1, <1>7, <2>1 DEF Purchases
    <3>2. i \in 1 .. n
      BY <1>7 DEF Purchases
    <3>3. i = n
      BY <1>7, <1>13, <3>1, <3>2
    <3>4. SalesAfter(u, i)' = {}
      BY <1>7, <3>3 DEF SalesAfter
    <3>5. cash'[u] \in Int
      BY <1>1, <1>2, <1>5
    <3>6. QED
      BY <1>6, <1>8, <2>1, <3>3, <3>4, <3>5, SumEmpty
  <2>2. CASE u # b.buyer
    <3>1. /\ Purchases(u)' = Purchases(u) /\ i \in 1 .. n - 1
      BY <1>1, <1>7, <2>2 DEF Purchases
    <3>2. cash[u] = snapshots[i].cash + SumFunctionOnSet(Value, SalesAfter(u, i))
      BY <1>13, <3>1 DEF AnnouncedInv
    <3>3. /\ IsFiniteSet(SalesAfter(u, i)) /\ SalesAfter(u, i) \subseteq 1 .. n - 1
          /\ \A j \in SalesAfter(u, i) : Value[j] \in Int
      BY <1>7, SalesTyped
    <3>4. /\ n \notin SalesAfter(u, i)
          /\ \A j \in SalesAfter(u, i) : Value'[j] = Value[j]
      BY <1>7, <1>11, <3>3
    <3>5. CASE u = b.seller
      <4>1. SalesAfter(u, i)' = SalesAfter(u, i) \union {n}
        BY <1>1, <1>7, <3>1, <3>5 DEF SalesAfter
      <4>2. /\ SumFunctionOnSet(Value, SalesAfter(u, i)) \in Int
            /\ SumFunctionOnSet(Value', SalesAfter(u, i) \union {n}) =
                 SumFunctionOnSet(Value, SalesAfter(u, i)) + Value'[n]
        BY <1>2, <1>12, <3>3, <3>4, SumGrows
      <4>3. cash'[u] = cash[u] + gross
        BY <1>1, <1>5, <2>2, <3>5
      <4>4. snapshots'[i].cash = snapshots[i].cash /\ snapshots[i].cash \in Int
        <5>1. snapshots \in Seq(Portfolios) /\ i \in 1 .. Len(snapshots)
          BY <1>3, <1>5, <3>1 DEF AnnouncedInv
        <5>2. snapshots[i] \in Portfolios
          BY <5>1
        <5>3. QED
          BY <1>8, <3>1, <5>2 DEF Portfolios
      <4>5. QED
        BY <1>2, <1>12, <3>2, <4>1, <4>2, <4>3, <4>4
    <3>6. CASE u # b.seller
      <4>1. SalesAfter(u, i)' = SalesAfter(u, i)
        BY <1>1, <1>7, <3>1, <3>6 DEF SalesAfter
      <4>2. SumFunctionOnSet(Value', SalesAfter(u, i)) = SumFunctionOnSet(Value, SalesAfter(u, i))
        BY <3>3, <3>4, SumSame
      <4>3. cash'[u] = cash[u]
        BY <1>1, <1>5, <2>2, <3>6
      <4>4. snapshots'[i].cash = snapshots[i].cash
        BY <1>8, <3>1
      <4>5. QED
        BY <3>2, <4>1, <4>2, <4>3, <4>4
    <3>7. QED
      BY <3>5, <3>6
  <2>3. QED
    BY <2>1, <2>2
<1>14. QED
  BY <1>8, <1>9, <1>10, <1>13 DEF AnnouncedInv

LEMMA NextAnnounced ==
  ASSUME PassedInv, LocksInv, BooksInv, PublishersInv, AnnouncedInv, [Next]_vars
  PROVE  AnnouncedInv'
<1>1. CASE \E r \in Readers : ApplyTradeExecution(r)
  BY <1>1, ApplyKeepsAnnounced
<1>2. CASE \A r \in Readers : ~ApplyTradeExecution(r)
  <2>1. UNCHANGED books
    BY <1>2, BooksUntouched
  <2>2. /\ DOMAIN outbox' = DOMAIN outbox
        /\ \A i \in DOMAIN outbox : outbox'[i].event = outbox[i].event
    BY <1>2, AnnouncementsKept
  <2>3. QED
    BY <2>1, <2>2 DEF AnnouncedInv, books, Purchases, SalesAfter, Value
<1>3. QED
  BY <1>1, <1>2

\* repository.ApplyTradeExecution, createSnapshot and insertPortfolioOutbox: only
\* the buyer is told of a trade, and what was last told is the balance of that
\* moment: it differs from the balance by the sales since, and by nothing else.
THEOREM LastToldPlusSalesHolds == Spec => []LastToldPlusSales
<1>1. Init => AnnouncedInv
  BY InitAnnounced
<1>2. PassedInv /\ LocksInv /\ BooksInv /\ PublishersInv /\ AnnouncedInv /\ [Next]_vars
        => AnnouncedInv'
  BY NextAnnounced
<1>3. PassedInv /\ PublishersInv /\ AnnouncedInv => LastToldPlusSales
  <2> SUFFICES ASSUME PassedInv, PublishersInv, AnnouncedInv,
                      NEW u \in Users, Purchases(u) # {},
                      NEW last, last = Max(Purchases(u))
               PROVE  /\ outbox[last].event.portfolio = snapshots[last]
                      /\ cash[u] = outbox[last].event.portfolio.cash
                                     + SumFunctionOnSet(Value, SalesAfter(u, last))
    BY DEF LastToldPlusSales
  <2>1. ledger \in Seq(Messages) /\ DOMAIN outbox = DOMAIN ledger
    BY DEF PassedInv, PublishersInv, OutboxTypeOK, BatchesApart
  <2>2. /\ Len(ledger) \in Nat /\ Purchases(u) \in SUBSET (0 .. Len(ledger))
        /\ Purchases(u) \subseteq DOMAIN ledger
    BY <2>1 DEF Purchases
  <2>3. last \in Purchases(u) /\ \A j \in Purchases(u) : j <= last
    BY <2>2, GreatestNumber
  <2>4. QED
    BY <2>1, <2>2, <2>3 DEF AnnouncedInv
<1>4. QED
  BY <1>1, <1>2, <1>3, AllInvariants, PTL DEF Spec

====
