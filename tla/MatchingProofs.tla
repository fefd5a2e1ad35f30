---------------------------- MODULE MatchingProofs ----------------------------
(***************************************************************************)
(* Proofs about the matching engine, for every finite book, price and      *)
(* quantity: what its operators return, which the proofs about the order   *)
(* service rest on too, and the properties of MatchingBook.                *)
(***************************************************************************)
EXTENDS MatchingBook, FoldLemmas

\* What the engine is called with: the resting orders of the other side.
WellFormed(taker, resting) ==
  /\ taker.side \in {"BUY", "SELL"}
  /\ taker.limit \in Nat /\ taker.remaining \in Nat
  /\ IsFiniteSet(DOMAIN resting) /\ DOMAIN resting \subseteq Nat
  /\ \A m \in DOMAIN resting : /\ resting[m].side = Opposite(taker.side)
                            /\ resting[m].limit \in Nat /\ resting[m].remaining \in Nat
  /\ ~Panics(resting)

\* What is left of a once b is gone.
Excess(a, b) == IF a > b THEN a - b ELSE 0

\* The acceptable orders ahead of m.
Before(taker, resting, m) ==
  {o \in DOMAIN resting : Crosses(taker, resting[o]) /\ Ahead(resting, o, m)}

\* What price-time priority gives m.
Takes(taker, resting, m) ==
  IF Crosses(taker, resting[m])
  THEN Lesser(resting[m].remaining,
              Excess(taker.remaining, Volume(resting, Before(taker, resting, m))))
  ELSE 0

\* The queue holds every order of the book once, the best first.
InOrder(queue, resting) ==
  /\ Len(queue) \in Nat
  /\ queue \in [1 .. Len(queue) -> DOMAIN resting]
  /\ \A m \in DOMAIN resting : \E i \in 1 .. Len(queue) : queue[i] = m
  /\ \A i, j \in 1 .. Len(queue) : i < j => Ahead(resting, queue[i], queue[j])

-----------------------------------------------------------------------------
\* Ranking is a strict total order.
LEMMA AheadRanks ==
  ASSUME NEW taker, NEW resting, WellFormed(taker, resting)
  PROVE  Ranks({r \in (DOMAIN resting) \X (DOMAIN resting) : Ahead(resting, r[1], r[2])}, DOMAIN resting)
<1> DEFINE R == {r \in (DOMAIN resting) \X (DOMAIN resting) : Ahead(resting, r[1], r[2])}
<1>1. \A a, b \in DOMAIN resting : <<a, b>> \in R <=> Ahead(resting, a, b)
  OBVIOUS
<1>2. \A m \in DOMAIN resting : m \in Nat /\ resting[m].limit \in Nat
  BY DEF WellFormed
<1>3. \A a, b \in DOMAIN resting : resting[a].side = resting[b].side
  BY DEF WellFormed
<1>4. R \subseteq (DOMAIN resting) \X (DOMAIN resting)
  OBVIOUS
<1> HIDE DEF R
<1>5. \A a \in DOMAIN resting : ~Ahead(resting, a, a)
  BY <1>2 DEF Ahead
<1>6. \A a, b \in DOMAIN resting : a = b \/ Ahead(resting, a, b) \/ Ahead(resting, b, a)
  BY <1>2, <1>3 DEF Ahead
<1>7. \A a, b, c \in DOMAIN resting :
        Ahead(resting, a, b) /\ Ahead(resting, b, c) => Ahead(resting, a, c)
  BY <1>2, <1>3 DEF Ahead
<1>8. Ranks(R, DOMAIN resting)
  BY <1>1, <1>4, <1>5, <1>6, <1>7 DEF Ranks
<1> QED
  BY <1>8 DEF R

\* The engine meets the orders of the book in the order of their ranks.
LEMMA QueueInOrder ==
  ASSUME NEW taker, NEW resting, WellFormed(taker, resting),
         NEW queue, queue = RestingFor(taker, resting)
  PROVE  InOrder(queue, resting)
<1> DEFINE S == {m \in DOMAIN resting : resting[m].side = Opposite(taker.side)}
           R == {r \in S \X S : Ahead(resting, r[1], r[2])}
<1>1. S = DOMAIN resting
  BY DEF WellFormed
<1>2. \A o, m \in S : <<o, m>> \in R <=> Ahead(resting, o, m)
  OBVIOUS
<1>3. IsFiniteSet(S) /\ Ranks(R, S)
  BY <1>1, AheadRanks DEF WellFormed
<1>4. queue = [i \in 1 .. Cardinality(S) |->
                 CHOOSE m \in S : Cardinality({o \in S : Ahead(resting, o, m)}) = i - 1]
  BY DEF RestingFor
<1> HIDE DEF R, S
<1>5. \A m \in S : {o \in S : <<o, m>> \in R} = {o \in S : Ahead(resting, o, m)}
  BY <1>2
<1>6. queue = Listed(R, S)
  <2>1. \A i \in 1 .. Cardinality(S) :
          (CHOOSE m \in S : Cardinality({o \in S : Ahead(resting, o, m)}) = i - 1) =
          (CHOOSE m \in S : Cardinality({o \in S : <<o, m>> \in R}) = i - 1)
    BY <1>5
  <2> QED
    BY <1>4, <2>1 DEF Listed
<1>7. /\ Cardinality(S) \in Nat
      /\ queue \in [1 .. Cardinality(S) -> S]
      /\ \A m \in S : \E i \in 1 .. Cardinality(S) : queue[i] = m
      /\ \A i, j \in 1 .. Cardinality(S) : i < j => <<queue[i], queue[j]>> \in R
  BY <1>3, <1>6, ListedInOrder
<1>8. Len(queue) = Cardinality(S)
  BY <1>7
<1> QED
  BY <1>1, <1>2, <1>7, <1>8 DEF InOrder

\* An order ahead of an acceptable one is acceptable.
LEMMA AheadAcceptable ==
  ASSUME NEW taker, NEW resting, WellFormed(taker, resting),
         NEW a \in DOMAIN resting, NEW b \in DOMAIN resting, Ahead(resting, a, b),
         Crosses(taker, resting[b])
  PROVE  Crosses(taker, resting[a])
<1>1. /\ resting[a].limit \in Nat /\ resting[b].limit \in Nat /\ taker.limit \in Nat
      /\ resting[a].side = Opposite(taker.side)
      /\ taker.side \in {"BUY", "SELL"}
      /\ a \in Nat /\ b \in Nat
  BY DEF WellFormed
<1>2. a # b
  BY <1>1 DEF Ahead
<1>3. resting[a].limit # NoPrice
  BY <1>2 DEF WellFormed, Panics
<1> QED
  BY <1>1, <1>3 DEF Crosses, Ahead, Opposite

-----------------------------------------------------------------------------
\* A volume is a number, and more orders have no less.
LEMMA VolumeGrows ==
  ASSUME NEW resting, IsFiniteSet(DOMAIN resting),
         \A m \in DOMAIN resting : resting[m].remaining \in Nat,
         NEW B \in SUBSET DOMAIN resting, NEW A \in SUBSET B
  PROVE  /\ Volume(resting, A) \in Nat /\ Volume(resting, B) \in Nat
         /\ Volume(resting, A) <= Volume(resting, B)
<1> DEFINE f == [m \in DOMAIN resting |-> resting[m].remaining]
<1>1. \A m \in B : f[m] \in Nat
  OBVIOUS
<1>2. IsFiniteSet(B)
  BY FS_Subset
<1> HIDE DEF f
<1>3. /\ SumFunctionOnSet(f, A) \in Nat /\ SumFunctionOnSet(f, B) \in Nat
      /\ SumFunctionOnSet(f, A) <= SumFunctionOnSet(f, B)
  BY <1>1, <1>2, SumPart
<1> QED
  BY <1>3 DEF Volume, f

\* The volume with one more order.
LEMMA VolumeAdds ==
  ASSUME NEW resting, IsFiniteSet(DOMAIN resting),
         \A m \in DOMAIN resting : resting[m].remaining \in Nat,
         NEW A \in SUBSET DOMAIN resting, NEW m \in DOMAIN resting \ A
  PROVE  Volume(resting, A \union {m}) = Volume(resting, A) + resting[m].remaining
<1> DEFINE f == [o \in DOMAIN resting |-> resting[o].remaining]
<1>1. IsFiniteSet(A) /\ m \notin A
  BY FS_Subset
<1>2. f[m] = resting[m].remaining /\ f[m] \in Int /\ \A o \in A : f[o] \in Int
  OBVIOUS
<1> HIDE DEF f
<1>3. SumFunctionOnSet(f, A \union {m}) = SumFunctionOnSet(f, A) + f[m]
  BY <1>1, <1>2, SumAdd
<1> QED
  BY <1>2, <1>3 DEF Volume, f

\* Where the rounds of the loop may lead.
Midway(resting) == [left : Nat, fills : [DOMAIN resting -> Nat], running : BOOLEAN]

\* A round, a field at a time.
LEMMA RoundFields ==
  ASSUME NEW taker, NEW resting, \A m \in DOMAIN resting : resting[m].remaining \in Nat,
         NEW s \in Midway(resting), NEW m \in DOMAIN resting,
         NEW t, t = Round(taker, resting, s, m)
  PROVE  /\ t \in Midway(resting)
         /\ ~s.running \/ s.left = 0 \/ ~Crosses(taker, resting[m]) =>
              t.left = s.left /\ t.fills = s.fills /\ ~t.running
         /\ s.running /\ s.left # 0 /\ Crosses(taker, resting[m]) =>
              /\ t.running
              /\ t.left = s.left - Lesser(s.left, resting[m].remaining)
              /\ t.fills = [s.fills EXCEPT ![m] = Lesser(s.left, resting[m].remaining)]
<1> DEFINE stops == ~s.running \/ s.left = 0 \/ ~Crosses(taker, resting[m])
           quantity == Lesser(s.left, resting[m].remaining)
<1>1. /\ s = [left |-> s.left, fills |-> s.fills, running |-> s.running]
      /\ s.left \in Nat /\ s.fills \in [DOMAIN resting -> Nat] /\ s.running \in BOOLEAN
  BY DEF Midway
<1>2. quantity \in Nat /\ quantity <= s.left
  BY <1>1 DEF Lesser
<1>3. CASE stops
  <2>1. t = [s EXCEPT !.running = FALSE]
    BY <1>3 DEF Round
  <2>2. t.left = s.left /\ t.fills = s.fills /\ t.running = FALSE
    BY <1>1, <2>1
  <2>3. t \in Midway(resting)
    BY <1>1, <2>1 DEF Midway
  <2> QED
    BY <1>3, <2>2, <2>3
<1>4. CASE ~stops
  <2>1. t = [s EXCEPT !.left = @ - quantity, !.fills[m] = quantity]
    BY <1>4 DEF Round
  <2>2. /\ t.left = s.left - quantity
        /\ t.fills = [s.fills EXCEPT ![m] = quantity]
        /\ t.running = s.running
    BY <1>1, <2>1
  <2>3. t = [left |-> t.left, fills |-> t.fills, running |-> t.running]
    BY <1>1, <2>1
  <2>4. t.left \in Nat /\ t.fills \in [DOMAIN resting -> Nat] /\ t.running \in BOOLEAN
    BY <1>1, <1>2, <2>2
  <2>5. t \in Midway(resting)
    BY <2>3, <2>4 DEF Midway
  <2> QED
    BY <1>4, <2>2, <2>5
<1> QED
  BY <1>3, <1>4

\* The loop goes round by round.
LEMMA LoopGoesRound ==
  ASSUME NEW taker, NEW resting, WellFormed(taker, resting),
         NEW queue, InOrder(queue, resting),
         NEW after, after = After(taker, resting, queue)
  PROVE  /\ after \in [0 .. Len(queue) -> Midway(resting)]
         /\ after[0] = [left |-> taker.remaining, fills |-> NoFills(resting),
                        running |-> TRUE]
         /\ \A n \in 1 .. Len(queue) :
              after[n] = Round(taker, resting, after[n - 1], queue[n])
<1> DEFINE N == Len(queue)
           V == Midway(resting)
           base == [left |-> taker.remaining, fills |-> NoFills(resting), running |-> TRUE]
           F == [n \in 1 .. N |-> [s \in V |-> Round(taker, resting, s, queue[n])]]
           Is(f) == f = [n \in 0 .. N |-> IF n = 0 THEN base
                                          ELSE Round(taker, resting, f[n - 1], queue[n])]
<1>1. after = CHOOSE f : Is(f)
  BY DEF After
<1>2. base \in V
  BY DEF Midway, NoFills, WellFormed
<1>3. F \in [1 .. N -> [V -> V]]
  <2> SUFFICES ASSUME NEW s \in V, NEW n \in 1 .. N
               PROVE  Round(taker, resting, s, queue[n]) \in V
    OBVIOUS
  <2>1. queue[n] \in DOMAIN resting
    BY DEF InOrder
  <2>2. \A m \in DOMAIN resting : resting[m].remaining \in Nat
    BY DEF WellFormed
  <2> QED
    BY <2>1, <2>2, RoundFields
<1>4. \A s \in V : \A n \in 1 .. N : F[n][s] = Round(taker, resting, s, queue[n])
  OBVIOUS
<1> HIDE DEF F, V, base, N
<1>5. N \in Nat
  BY DEF N, InOrder
<1>6. PICK f \in [0 .. N -> V] : f[0] = base /\ \A n \in 1 .. N : f[n] = F[n][f[n - 1]]
  <2>1. PICK f : Goes(f, V, base, F, N)
    BY <1>2, <1>3, <1>5, StepRecursion
  <2> QED
    BY <2>1 DEF Goes
<1>7. \A n \in 1 .. N : f[n] = Round(taker, resting, f[n - 1], queue[n])
  <2> SUFFICES ASSUME NEW n \in 1 .. N
               PROVE  f[n] = Round(taker, resting, f[n - 1], queue[n])
    OBVIOUS
  <2>1. n - 1 \in 0 .. N
    BY <1>5
  <2>2. f[n - 1] \in V
    BY <1>6, <2>1
  <2> QED
    BY <1>4, <1>6, <2>2
<1>8. Is(f)
  BY <1>5, <1>6, <1>7
<1>9. Is(after)
  <2> HIDE DEF Is
  <2> QED
    BY <1>1, <1>8
<1>10. after[0] = base /\ \A n \in 1 .. N : after[n] = Round(taker, resting, after[n - 1], queue[n])
  BY <1>5, <1>9
<1>11. after \in [0 .. N -> V]
  <2> DEFINE T == {n \in Nat : n <= N => after[n] \in V}
  <2>1. 0 \in T
    BY <1>2, <1>10
  <2>2. ASSUME NEW n \in T PROVE n + 1 \in T
    <3> SUFFICES ASSUME n + 1 <= N PROVE after[n + 1] \in V
      OBVIOUS
    <3>1. n \in Nat /\ n <= N /\ n + 1 \in 1 .. N /\ (n + 1) - 1 = n
      BY <1>5
    <3>2. after[n] \in V /\ after[n + 1] = Round(taker, resting, after[n], queue[n + 1])
      BY <1>10, <3>1
    <3>3. F[n + 1][after[n]] \in V
      BY <1>3, <3>1, <3>2
    <3> QED
      BY <1>4, <3>1, <3>2, <3>3
  <2> HIDE DEF T
  <2>3. T = Nat
    <3>1. T \in SUBSET Nat
      BY DEF T
    <3> QED
      BY <2>1, <2>2, <3>1, NumberInduction
  <2>4. \A n \in 0 .. N : after[n] \in V
    BY <1>5, <2>3 DEF T
  <2>5. after = [n \in 0 .. N |-> after[n]]
    BY <1>9
  <2> QED
    BY <2>4, <2>5
<1> QED
  BY <1>10, <1>11 DEF N, V, base


-----------------------------------------------------------------------------
\* No order is in the queue twice, and its acceptable ones are at its head.
LEMMA QueuePlaces ==
  ASSUME NEW taker, NEW resting, WellFormed(taker, resting),
         NEW queue, InOrder(queue, resting),
         NEW i \in 1 .. Len(queue), NEW j \in 1 .. Len(queue), i < j
  PROVE  /\ queue[i] # queue[j]
         /\ Ahead(resting, queue[i], queue[j]) /\ ~Ahead(resting, queue[j], queue[i])
         /\ Crosses(taker, resting[queue[j]]) => Crosses(taker, resting[queue[i]])
<1>1. /\ queue[i] \in DOMAIN resting /\ queue[j] \in DOMAIN resting
      /\ Ahead(resting, queue[i], queue[j])
  BY DEF InOrder
<1>2. \A a, b \in DOMAIN resting : Ahead(resting, a, b) => a # b /\ ~Ahead(resting, b, a)
  <2>1. \A m \in DOMAIN resting : m \in Nat /\ resting[m].limit \in Nat
    BY DEF WellFormed
  <2>2. \A a, b \in DOMAIN resting : resting[a].side = resting[b].side
    BY DEF WellFormed
  <2> QED
    BY <2>1, <2>2 DEF Ahead
<1>3. Crosses(taker, resting[queue[j]]) => Crosses(taker, resting[queue[i]])
  BY <1>1, AheadAcceptable
<1> QED
  BY <1>1, <1>2, <1>3

\* The volume at the head of the queue, order by order.
LEMMA HeadVolumes ==
  ASSUME NEW taker, NEW resting, WellFormed(taker, resting),
         NEW queue, InOrder(queue, resting)
  PROVE  /\ \A n \in 0 .. Len(queue) : /\ First(queue, n) \subseteq DOMAIN resting
                                       /\ Volume(resting, First(queue, n)) \in Nat
         /\ Volume(resting, First(queue, 0)) = 0
         /\ \A n \in 1 .. Len(queue) :
              Volume(resting, First(queue, n)) =
                Volume(resting, First(queue, n - 1)) + resting[queue[n]].remaining
<1>1. IsFiniteSet(DOMAIN resting) /\ \A m \in DOMAIN resting : resting[m].remaining \in Nat
  BY DEF WellFormed
<1>2. ASSUME NEW n \in 0 .. Len(queue)
      PROVE  First(queue, n) \subseteq DOMAIN resting /\ Volume(resting, First(queue, n)) \in Nat
  <2>1. First(queue, n) \subseteq DOMAIN resting
    BY DEF First, InOrder
  <2>2. First(queue, n) \in SUBSET DOMAIN resting
    BY <2>1
  <2> QED
    BY <1>1, <2>2, VolumeGrows
<1>3. Volume(resting, First(queue, 0)) = 0
  <2>1. First(queue, 0) = {}
    BY DEF First
  <2> QED
    BY <2>1, SumEmpty DEF Volume
<1>4. ASSUME NEW n \in 1 .. Len(queue)
      PROVE  Volume(resting, First(queue, n)) =
               Volume(resting, First(queue, n - 1)) + resting[queue[n]].remaining
  <2>1. n \in Nat /\ Len(queue) \in Nat /\ n - 1 \in 0 .. Len(queue)
    BY DEF InOrder
  <2>2. First(queue, n) = First(queue, n - 1) \union {queue[n]}
    BY <2>1 DEF First
  <2>3. queue[n] \in DOMAIN resting
    BY DEF InOrder
  <2>4. queue[n] \notin First(queue, n - 1)
    <3> SUFFICES ASSUME NEW i \in 1 .. (n - 1) PROVE queue[i] # queue[n]
      BY DEF First
    <3>1. i \in 1 .. Len(queue) /\ i < n
      BY <2>1
    <3> QED
      BY <3>1, QueuePlaces
  <2>5. First(queue, n - 1) \in SUBSET DOMAIN resting /\ queue[n] \in (DOMAIN resting) \ First(queue, n - 1)
    BY <1>2, <2>1, <2>3, <2>4
  <2>6. Volume(resting, First(queue, n - 1) \union {queue[n]}) =
          Volume(resting, First(queue, n - 1)) + resting[queue[n]].remaining
    BY <1>1, <2>5, VolumeAdds
  <2> QED
    BY <2>2, <2>6
<1> QED
  BY <1>2, <1>3, <1>4

\* What the i-th order of the queue gets, by the volume at the queue's head.
Gets(taker, resting, queue, i) ==
  IF Crosses(taker, resting[queue[i]])
  THEN Lesser(resting[queue[i]].remaining,
              Excess(taker.remaining, Volume(resting, First(queue, i - 1))))
  ELSE 0

\* The invariant of the loop, after n rounds that led to s: the orders met have
\* got what is theirs, the others nothing; a running loop has met acceptable
\* orders only and has left what they could not give; a stopped one has met an
\* order that is not acceptable, or as much volume as it needs; and as long as
\* anything is left, every acceptable order met is used up.
Stage(taker, resting, queue, s, n) ==
  /\ \A i \in 1 .. n : s.fills[queue[i]] = Gets(taker, resting, queue, i)
  /\ \A i \in (n + 1) .. Len(queue) : s.fills[queue[i]] = 0
  /\ s.running =>
       /\ \A i \in 1 .. n : Crosses(taker, resting[queue[i]])
       /\ s.left = Excess(taker.remaining, Volume(resting, First(queue, n)))
  /\ ~s.running =>
       \E i \in 1 .. n : \/ ~Crosses(taker, resting[queue[i]])
                         \/ /\ s.left = 0
                            /\ taker.remaining <= Volume(resting, First(queue, i))
  /\ s.left + SumFunctionOnSet(s.fills, DOMAIN resting) = taker.remaining
  /\ s.left > 0 => \A i \in 1 .. n : Crosses(taker, resting[queue[i]]) =>
                     s.fills[queue[i]] = resting[queue[i]].remaining

LEMMA StageStart ==
  ASSUME NEW taker, NEW resting, WellFormed(taker, resting),
         NEW queue, InOrder(queue, resting),
         NEW s, s = [left |-> taker.remaining, fills |-> NoFills(resting), running |-> TRUE]
  PROVE  Stage(taker, resting, queue, s, 0)
<1>1. IsFiniteSet(DOMAIN resting) /\ taker.remaining \in Nat
  BY DEF WellFormed
<1>2. SumFunctionOnSet(NoFills(resting), DOMAIN resting) = 0
  <2>1. NoFills(resting) \in [DOMAIN resting -> {0}]
    BY DEF NoFills
  <2> QED
    BY <1>1, <2>1, SumNought
<1>3. Volume(resting, First(queue, 0)) = 0
  BY HeadVolumes
<1>4. s.left = taker.remaining /\ s.fills = NoFills(resting) /\ s.running
  OBVIOUS
<1>5. \A i \in 1 .. Len(queue) : s.fills[queue[i]] = 0
  BY <1>4 DEF NoFills, InOrder
<1>6. s.left = Excess(taker.remaining, Volume(resting, First(queue, 0)))
  BY <1>1, <1>3, <1>4 DEF Excess
<1>7. s.left + SumFunctionOnSet(s.fills, DOMAIN resting) = taker.remaining
  BY <1>1, <1>2, <1>4
<1> QED
  BY <1>4, <1>5, <1>6, <1>7 DEF Stage

LEMMA StageNext ==
  ASSUME NEW taker, NEW resting, WellFormed(taker, resting),
         NEW queue, InOrder(queue, resting),
         NEW n \in Nat, n + 1 <= Len(queue),
         NEW s \in Midway(resting), Stage(taker, resting, queue, s, n),
         NEW t, t = Round(taker, resting, s, queue[n + 1])
  PROVE  Stage(taker, resting, queue, t, n + 1)
<1> DEFINE N == Len(queue)
           C(i) == Crosses(taker, resting[queue[i]])
           P(i) == Volume(resting, First(queue, i))
           R == taker.remaining
           G(i) == Gets(taker, resting, queue, i)
           m == queue[n + 1]
           rem == resting[m].remaining
           Sum(f) == SumFunctionOnSet(f, DOMAIN resting)
<1>1. N \in Nat /\ n + 1 \in 1 .. N /\ n \in 0 .. N
  BY DEF InOrder
<1>2. /\ \A i \in 1 .. N : queue[i] \in DOMAIN resting
      /\ \A o \in DOMAIN resting : resting[o].remaining \in Nat
      /\ IsFiniteSet(DOMAIN resting) /\ R \in Nat
  BY DEF InOrder, WellFormed
<1>3. m \in DOMAIN resting /\ rem \in Nat
  BY <1>1, <1>2
<1>4. \A i, j \in 1 .. N : i < j => queue[i] # queue[j] /\ (C(j) => C(i))
  BY QueuePlaces
<1>5. /\ \A i \in 0 .. N : P(i) \in Nat
      /\ P(n + 1) = P(n) + rem
  <2>1. \A i \in 1 .. N : P(i) = P(i - 1) + resting[queue[i]].remaining
    BY HeadVolumes
  <2>2. P(n + 1) = P((n + 1) - 1) + rem
    BY <1>1, <2>1
  <2>3. (n + 1) - 1 = n
    OBVIOUS
  <2> QED
    BY <2>2, <2>3, HeadVolumes
<1>6. \A i \in 1 .. n : P(i) <= P(n)
  <2> SUFFICES ASSUME NEW i \in 1 .. n PROVE P(i) <= P(n)
    OBVIOUS
  <2>1. First(queue, i) \subseteq First(queue, n)
    BY DEF First
  <2>2. First(queue, n) \subseteq DOMAIN resting
    BY <1>1, HeadVolumes
  <2> QED
    BY <1>2, <2>1, <2>2, VolumeGrows
<1>7. G(n + 1) = IF C(n + 1) THEN Lesser(rem, Excess(R, P(n))) ELSE 0
  <2>1. (n + 1) - 1 = n
    OBVIOUS
  <2> QED
    BY <2>1 DEF Gets
<1>8. /\ s.left \in Nat /\ s.fills \in [DOMAIN resting -> Nat] /\ s.running \in BOOLEAN
  BY DEF Midway
<1>9. /\ t \in Midway(resting)
      /\ ~s.running \/ s.left = 0 \/ ~C(n + 1) =>
           t.left = s.left /\ t.fills = s.fills /\ ~t.running
      /\ s.running /\ s.left # 0 /\ C(n + 1) =>
           /\ t.running
           /\ t.left = s.left - Lesser(s.left, rem)
           /\ t.fills = [s.fills EXCEPT ![m] = Lesser(s.left, rem)]
  <2>1. PICK x : x = m
    OBVIOUS
  <2>2. x \in DOMAIN resting /\ t = Round(taker, resting, s, x)
    BY <1>3, <2>1
  <2>3. /\ t \in Midway(resting)
        /\ ~s.running \/ s.left = 0 \/ ~Crosses(taker, resting[x]) =>
             t.left = s.left /\ t.fills = s.fills /\ ~t.running
        /\ s.running /\ s.left # 0 /\ Crosses(taker, resting[x]) =>
             /\ t.running
             /\ t.left = s.left - Lesser(s.left, resting[x].remaining)
             /\ t.fills = [s.fills EXCEPT ![x] = Lesser(s.left, resting[x].remaining)]
    BY <1>2, <2>2, RoundFields
  <2> QED
    BY <2>1, <2>3
<1> HIDE DEF N, P, G, R, Sum
<1>10. /\ \A i \in 1 .. n : s.fills[queue[i]] = G(i)
       /\ \A i \in (n + 1) .. N : s.fills[queue[i]] = 0
       /\ s.running => (\A i \in 1 .. n : C(i)) /\ s.left = Excess(R, P(n))
       /\ ~s.running => \E i \in 1 .. n : ~C(i) \/ (s.left = 0 /\ R <= P(i))
       /\ s.left + Sum(s.fills) = R
       /\ s.left > 0 => \A i \in 1 .. n : C(i) => s.fills[queue[i]] = resting[queue[i]].remaining
  BY DEF Stage, N, P, G, R, Sum
<1>11. s.fills[m] = 0
  BY <1>1, <1>10
<1>12. CASE ~s.running \/ s.left = 0 \/ ~C(n + 1)
  <2>1. t.left = s.left /\ t.fills = s.fills /\ ~t.running
    BY <1>9, <1>12
  <2>2. C(n + 1) => s.left = 0 /\ R <= P(n)
    <3> SUFFICES ASSUME C(n + 1) PROVE s.left = 0 /\ R <= P(n)
      OBVIOUS
    <3>1. \A i \in 1 .. n : C(i)
      BY <1>1, <1>4
    <3>2. CASE s.running
      <4>1. s.left = 0 /\ s.left = Excess(R, P(n))
        BY <1>10, <1>12, <3>2
      <4> QED
        BY <1>1, <1>2, <1>5, <4>1 DEF Excess
    <3>3. CASE ~s.running
      <4>1. PICK i \in 1 .. n : s.left = 0 /\ R <= P(i)
        BY <1>10, <3>1, <3>3
      <4>2. P(i) \in Nat /\ P(n) \in Nat /\ P(i) <= P(n)
        BY <1>1, <1>5, <1>6
      <4> QED
        BY <1>2, <4>1, <4>2 DEF R
    <3> QED
      BY <3>2, <3>3
  <2>3. G(n + 1) = 0
    <3>1. CASE C(n + 1)
      <4>1. Excess(R, P(n)) = 0
        BY <1>1, <1>2, <1>5, <2>2, <3>1 DEF Excess
      <4> QED
        BY <1>3, <1>7, <3>1, <4>1 DEF Lesser
    <3>2. CASE ~C(n + 1)
      BY <1>7, <3>2
    <3> QED
      BY <3>1, <3>2
  <2>4. \A i \in 1 .. (n + 1) : t.fills[queue[i]] = G(i)
    <3>1. \A i \in 1 .. (n + 1) : i \in 1 .. n \/ i = n + 1
      OBVIOUS
    <3> QED
      BY <1>10, <1>11, <2>1, <2>3, <3>1
  <2>5. \A i \in ((n + 1) + 1) .. N : t.fills[queue[i]] = 0
    BY <1>1, <1>10, <2>1
  <2>6. \E i \in 1 .. (n + 1) : ~C(i) \/ (t.left = 0 /\ R <= P(i))
    <3>1. n + 1 \in 1 .. (n + 1)
      OBVIOUS
    <3>2. CASE ~C(n + 1)
      BY <3>1, <3>2
    <3>3. CASE C(n + 1)
      <4>1. R <= P(n + 1)
        BY <1>1, <1>2, <1>3, <1>5, <2>2, <3>3
      <4> QED
        BY <2>1, <2>2, <3>1, <3>3, <4>1
    <3> QED
      BY <3>2, <3>3
  <2>7. t.left > 0 => \A i \in 1 .. (n + 1) : C(i) => t.fills[queue[i]] = resting[queue[i]].remaining
    <3>1. \A i \in 1 .. (n + 1) : i \in 1 .. n \/ i = n + 1
      OBVIOUS
    <3> QED
      BY <1>8, <1>10, <2>1, <2>2, <3>1
  <2>8. t.left + Sum(t.fills) = R
    BY <1>10, <2>1
  <2> QED
    BY <2>1, <2>4, <2>5, <2>6, <2>7, <2>8 DEF Stage, N, P, G, R, Sum
<1>13. CASE s.running /\ s.left # 0 /\ C(n + 1)
  <2> DEFINE q == Lesser(s.left, rem)
  <2>1. t.running /\ t.left = s.left - q /\ t.fills = [s.fills EXCEPT ![m] = q]
    BY <1>9, <1>13
  <2>2. s.left = Excess(R, P(n)) /\ \A i \in 1 .. n : C(i)
    BY <1>10, <1>13
  <2>3. G(n + 1) = q
    <3>1. G(n + 1) = Lesser(rem, s.left)
      BY <1>7, <1>13, <2>2
    <3> QED
      BY <1>3, <1>8, <3>1 DEF Lesser
  <2>4. /\ t.fills[m] = q
        /\ \A o \in (DOMAIN resting) \ {m} : t.fills[o] = s.fills[o]
        /\ q \in Nat
    BY <1>3, <1>8, <2>1 DEF Lesser
  <2> HIDE DEF q
  <2>5. \A i \in 1 .. N : i # n + 1 => t.fills[queue[i]] = s.fills[queue[i]]
    <3> SUFFICES ASSUME NEW i \in 1 .. N, i # n + 1
                 PROVE  t.fills[queue[i]] = s.fills[queue[i]]
      OBVIOUS
    <3>1. i < n + 1 \/ n + 1 < i
      OBVIOUS
    <3>2. queue[i] # m
      BY <1>1, <1>4, <3>1
    <3> QED
      BY <1>2, <2>4, <3>2
  <2>6. \A i \in 1 .. (n + 1) : t.fills[queue[i]] = G(i)
    <3>1. \A i \in 1 .. (n + 1) : i = n + 1 \/ (i \in 1 .. n /\ i \in 1 .. N /\ i # n + 1)
      BY <1>1
    <3> QED
      BY <1>10, <2>3, <2>4, <2>5, <3>1
  <2>7. \A i \in ((n + 1) + 1) .. N : t.fills[queue[i]] = 0
    <3>1. \A i \in ((n + 1) + 1) .. N : i \in (n + 1) .. N /\ i \in 1 .. N /\ i # n + 1
      BY <1>1
    <3> QED
      BY <1>10, <2>5, <3>1
  <2>8. \A i \in 1 .. (n + 1) : C(i)
    <3>1. \A i \in 1 .. (n + 1) : i \in 1 .. n \/ i = n + 1
      OBVIOUS
    <3> QED
      BY <1>13, <2>2, <3>1
  <2>9. t.left = Excess(R, P(n + 1))
    <3>1. PICK p : p = P(n)
      OBVIOUS
    <3>2. p \in Nat /\ P(n + 1) = p + rem /\ s.left = Excess(R, p)
      BY <1>1, <1>5, <2>2, <3>1
    <3>3. s.left - Lesser(s.left, rem) = Excess(R, p + rem)
      <4>1. PICK l, r, k : l = s.left /\ r = R /\ k = rem
        OBVIOUS
      <4>2. l \in Nat /\ r \in Nat /\ k \in Nat /\ p \in Nat /\ l = Excess(r, p)
        BY <1>2, <1>3, <1>8, <3>2, <4>1
      <4>3. l - Lesser(l, k) = Excess(r, p + k)
        BY <4>2 DEF Excess, Lesser
      <4> QED
        BY <4>1, <4>3
    <3> QED
      BY <2>1, <3>2, <3>3 DEF q
  <2>10. t.left > 0 => \A i \in 1 .. (n + 1) : C(i) => t.fills[queue[i]] = resting[queue[i]].remaining
    <3> SUFFICES ASSUME t.left > 0, NEW i \in 1 .. (n + 1)
                 PROVE  t.fills[queue[i]] = resting[queue[i]].remaining
      OBVIOUS
    <3>1. q = rem /\ s.left > 0
      BY <1>3, <1>8, <2>1, <2>4 DEF q, Lesser
    <3>2. CASE i = n + 1
      BY <2>4, <3>1, <3>2
    <3>3. CASE i # n + 1
      <4>1. i \in 1 .. n /\ i \in 1 .. N
        BY <1>1, <3>3
      <4> QED
        BY <1>10, <2>2, <2>5, <3>1, <3>3, <4>1
    <3> QED
      BY <3>2, <3>3
  <2>11. t.left + Sum(t.fills) = R
    <3>1. \A o \in DOMAIN resting : s.fills[o] \in Int
      BY <1>8
    <3>2. /\ Sum(s.fills) \in Int
          /\ Sum(t.fills) = (Sum(s.fills) - s.fills[m]) + t.fills[m]
      <4>1. PICK f, g, y : f = s.fills /\ g = t.fills /\ y = m
        OBVIOUS
      <4>2. /\ \A o \in DOMAIN resting : f[o] \in Int
            /\ y \in DOMAIN resting /\ g[y] \in Int
            /\ \A o \in (DOMAIN resting) \ {y} : g[o] = f[o]
        BY <1>3, <2>4, <3>1, <4>1
      <4>3. Sum(f) \in Int /\ Sum(g) = (Sum(f) - f[y]) + g[y]
        BY <1>2, <4>2, SumChanged DEF Sum
      <4> QED
        BY <4>1, <4>3
    <3>3. PICK a, b : a = Sum(s.fills) /\ b = Sum(t.fills)
      OBVIOUS
    <3>4. a \in Int /\ b = (a - 0) + q /\ s.left + a = R
      BY <1>10, <1>11, <2>4, <3>2, <3>3
    <3>5. t.left + b = R
      BY <1>8, <2>1, <2>4, <3>4
    <3> QED
      BY <3>3, <3>5
  <2> QED
    BY <2>1, <2>6, <2>7, <2>8, <2>9, <2>10, <2>11 DEF Stage, N, P, G, R, Sum
<1> QED
  BY <1>12, <1>13

\* Where the loop ends.
LEMMA LoopEnds ==
  ASSUME NEW taker, NEW resting, WellFormed(taker, resting),
         NEW queue, InOrder(queue, resting),
         NEW s, s = Loop(taker, resting, queue)
  PROVE  s \in Midway(resting) /\ Stage(taker, resting, queue, s, Len(queue))
<1>1. PICK after : after = After(taker, resting, queue)
  OBVIOUS
<1>2. PICK N : N = Len(queue)
  OBVIOUS
<1>3. /\ after \in [0 .. N -> Midway(resting)]
      /\ after[0] = [left |-> taker.remaining, fills |-> NoFills(resting), running |-> TRUE]
      /\ \A n \in 1 .. N : after[n] = Round(taker, resting, after[n - 1], queue[n])
  BY <1>1, <1>2, LoopGoesRound
<1>4. N \in Nat /\ s = after[N]
  BY <1>1, <1>2 DEF Loop, InOrder
<1> DEFINE T == {n \in Nat : n <= N => Stage(taker, resting, queue, after[n], n)}
<1>5. 0 \in T
  BY <1>3, StageStart
<1>6. ASSUME NEW n \in T PROVE n + 1 \in T
  <2> SUFFICES ASSUME n + 1 <= N PROVE Stage(taker, resting, queue, after[n + 1], n + 1)
    OBVIOUS
  <2>1. n \in Nat /\ n \in 0 .. N /\ n + 1 \in 1 .. N /\ (n + 1) - 1 = n /\ n + 1 <= Len(queue)
    BY <1>2, <1>4
  <2>2. after[n] \in Midway(resting) /\ Stage(taker, resting, queue, after[n], n)
    BY <1>3, <2>1
  <2>3. after[n + 1] = Round(taker, resting, after[n], queue[n + 1])
    BY <1>3, <2>1
  <2> QED
    BY <2>1, <2>2, <2>3, StageNext
<1> HIDE DEF T
<1>7. T = Nat
  <2>1. T \in SUBSET Nat
    BY DEF T
  <2> QED
    BY <1>5, <1>6, <2>1, NumberInduction
<1>8. N \in T
  BY <1>4, <1>7
<1>9. Stage(taker, resting, queue, after[N], N)
  BY <1>4, <1>8 DEF T
<1> QED
  BY <1>2, <1>3, <1>4, <1>9

\* The orders whose price is acceptable.
Takers(taker, resting) == {m \in DOMAIN resting : Crosses(taker, resting[m])}

\* The loop gives every order what price-time priority gives it, and leaves
\* nothing of the incoming order while an acceptable order has anything.
LEMMA LoopShares ==
  ASSUME NEW taker, NEW resting, WellFormed(taker, resting),
         NEW s, s = Loop(taker, resting, RestingFor(taker, resting))
  PROVE  /\ s.left \in Nat /\ s.fills \in [DOMAIN resting -> Nat]
         /\ s.left + SumFunctionOnSet(s.fills, DOMAIN resting) = taker.remaining
         /\ \A m \in DOMAIN resting : s.fills[m] = Takes(taker, resting, m)
         /\ \A m \in DOMAIN resting : s.fills[m] <= resting[m].remaining
         /\ s.left > 0 => \A m \in Takers(taker, resting) : s.fills[m] = resting[m].remaining
<1>1. PICK queue : queue = RestingFor(taker, resting)
  OBVIOUS
<1>2. InOrder(queue, resting)
  BY <1>1, QueueInOrder
<1>3. s \in Midway(resting) /\ Stage(taker, resting, queue, s, Len(queue))
  BY <1>1, <1>2, LoopEnds
<1>4. s.left \in Nat /\ s.fills \in [DOMAIN resting -> Nat]
  BY <1>3 DEF Midway
<1>5. s.left + SumFunctionOnSet(s.fills, DOMAIN resting) = taker.remaining
  BY <1>3 DEF Stage
<1>6. ASSUME NEW m \in DOMAIN resting PROVE s.fills[m] = Takes(taker, resting, m)
  <2>1. PICK i \in 1 .. Len(queue) : queue[i] = m
    BY <1>2 DEF InOrder
  <2>2. s.fills[m] = Gets(taker, resting, queue, i)
    BY <1>3, <2>1 DEF Stage
  <2>3. CASE ~Crosses(taker, resting[m])
    BY <2>1, <2>2, <2>3 DEF Gets, Takes
  <2>4. CASE Crosses(taker, resting[m])
    <3>1. First(queue, i - 1) = Before(taker, resting, m)
      <4>1. ASSUME NEW o \in First(queue, i - 1) PROVE o \in Before(taker, resting, m)
        <5>1. PICK j \in 1 .. (i - 1) : queue[j] = o
          BY DEF First
        <5>2. j \in 1 .. Len(queue) /\ j < i
          BY <1>2 DEF InOrder
        <5>3. Ahead(resting, o, m) /\ Crosses(taker, resting[o])
          BY <1>2, <2>1, <2>4, <5>1, <5>2, QueuePlaces
        <5>4. o \in DOMAIN resting
          BY <1>2, <5>1, <5>2 DEF InOrder
        <5> QED
          BY <5>3, <5>4 DEF Before
      <4>2. ASSUME NEW o \in Before(taker, resting, m) PROVE o \in First(queue, i - 1)
        <5>1. PICK j \in 1 .. Len(queue) : queue[j] = o
          BY <1>2 DEF InOrder, Before
        <5>2. Ahead(resting, queue[j], queue[i])
          BY <2>1, <5>1 DEF Before
        <5>3. ~(i < j)
          BY <1>2, <5>2, QueuePlaces
        <5>4. j # i
          <6>1. m \in Nat /\ resting[m].limit \in Nat
            BY DEF WellFormed
          <6>2. ~Ahead(resting, m, m)
            BY <6>1 DEF Ahead
          <6> QED
            BY <2>1, <5>2, <6>2
        <5>5. j \in 1 .. (i - 1)
          BY <5>3, <5>4
        <5> QED
          BY <5>1, <5>5 DEF First
      <4> QED
        BY <4>1, <4>2
    <3> QED
      BY <2>1, <2>2, <2>4, <3>1 DEF Gets, Takes
  <2> QED
    BY <2>3, <2>4
<1>7. ASSUME NEW m \in DOMAIN resting PROVE s.fills[m] <= resting[m].remaining
  <2>1. PICK r, e : /\ r = resting[m].remaining
                    /\ e = Excess(taker.remaining, Volume(resting, Before(taker, resting, m)))
    OBVIOUS
  <2>2. Volume(resting, Before(taker, resting, m)) \in Nat
    <3>1. Before(taker, resting, m) \in SUBSET DOMAIN resting
      BY DEF Before
    <3>2. IsFiniteSet(DOMAIN resting) /\ \A o \in DOMAIN resting : resting[o].remaining \in Nat
      BY DEF WellFormed
    <3> QED
      BY <3>1, <3>2, VolumeGrows
  <2>3. r \in Nat /\ e \in Nat
    BY <2>1, <2>2 DEF WellFormed, Excess
  <2>4. s.fills[m] = Lesser(r, e) \/ s.fills[m] = 0
    BY <1>6, <2>1 DEF Takes
  <2> QED
    BY <2>1, <2>3, <2>4 DEF Lesser
<1>8. ASSUME s.left > 0, NEW m \in Takers(taker, resting)
      PROVE  s.fills[m] = resting[m].remaining
  <2>1. PICK i \in 1 .. Len(queue) : queue[i] = m
    BY <1>2 DEF InOrder, Takers
  <2> QED
    BY <1>3, <1>8, <2>1 DEF Stage, Takers
<1> QED
  BY <1>4, <1>5, <1>6, <1>7, <1>8

\* An order that the acceptable orders can fill is filled.
LEMMA LoopFills ==
  ASSUME NEW taker, NEW resting, WellFormed(taker, resting),
         NEW s, s = Loop(taker, resting, RestingFor(taker, resting)),
         taker.remaining <= Volume(resting, Takers(taker, resting))
  PROVE  s.left = 0
<1> SUFFICES ASSUME s.left # 0 PROVE FALSE
  OBVIOUS
<1> DEFINE A == Takers(taker, resting)
           D == DOMAIN resting
           f == [m \in D |-> resting[m].remaining]
<1>1. /\ s.left \in Nat /\ s.fills \in [D -> Nat]
      /\ s.left + SumFunctionOnSet(s.fills, D) = taker.remaining
      /\ \A m \in A : s.fills[m] = resting[m].remaining
  BY LoopShares
<1>2. A \in SUBSET D /\ IsFiniteSet(D) /\ IsFiniteSet(A)
  BY FS_Subset DEF Takers, WellFormed
<1>3. PICK g : g = s.fills
  OBVIOUS
<1>4. \A m \in D : g[m] \in Nat
  BY <1>1, <1>3
<1>5. \A m \in A : f[m] = g[m]
  BY <1>1, <1>2, <1>3
<1>6. /\ SumFunctionOnSet(g, A) \in Nat /\ SumFunctionOnSet(g, D) \in Nat
      /\ SumFunctionOnSet(g, A) <= SumFunctionOnSet(g, D)
  BY <1>2, <1>4, SumPart
<1>7. Volume(resting, A) = SumFunctionOnSet(g, A)
  <2> HIDE DEF f, A
  <2>1. SumFunctionOnSet(f, A) = SumFunctionOnSet(g, A)
    BY <1>2, <1>5, SumSame
  <2> QED
    BY <2>1 DEF Volume, f
<1>8. PICK v : v = SumFunctionOnSet(g, D)
  OBVIOUS
<1>9. v \in Nat /\ s.left + v = taker.remaining /\ taker.remaining <= v
  <2>1. taker.remaining <= SumFunctionOnSet(g, A)
    BY <1>7
  <2>2. taker.remaining \in Nat
    BY DEF WellFormed
  <2> QED
    BY <1>1, <1>3, <1>6, <1>8, <2>1, <2>2
<1> QED
  BY <1>1, <1>9

\* The precheck of a fill-or-kill order adds up the acceptable orders.
LEMMA PrecheckCounts ==
  ASSUME NEW taker, NEW resting, WellFormed(taker, resting), taker.remaining > 0
  PROVE  CanFullyFill(taker, resting, RestingFor(taker, resting)) <=>
           taker.remaining <= Volume(resting, Takers(taker, resting))
<1> DEFINE A == Takers(taker, resting)
           D == DOMAIN resting
           R == taker.remaining
<1>1. PICK queue : queue = RestingFor(taker, resting)
  OBVIOUS
<1>2. InOrder(queue, resting)
  BY <1>1, QueueInOrder
<1>3. /\ A \in SUBSET D /\ IsFiniteSet(D) /\ R \in Nat
      /\ \A m \in D : resting[m].remaining \in Nat
  BY DEF Takers, WellFormed
<1>4. Len(queue) \in Nat /\ DOMAIN queue = 1 .. Len(queue)
  BY <1>2 DEF InOrder
<1>5. ASSUME CanFullyFill(taker, resting, queue) PROVE R <= Volume(resting, A)
  <2>1. PICK n \in 1 .. Len(queue) : /\ \A m \in First(queue, n) : Crosses(taker, resting[m])
                                     /\ Volume(resting, First(queue, n)) >= R
    BY <1>4, <1>5 DEF CanFullyFill
  <2>2. n \in 0 .. Len(queue)
    BY <1>4
  <2>3. First(queue, n) \subseteq D
    BY <1>2, <2>2, HeadVolumes
  <2>4. First(queue, n) \in SUBSET A
    BY <2>1, <2>3 DEF Takers
  <2>5. /\ Volume(resting, First(queue, n)) \in Nat /\ Volume(resting, A) \in Nat
        /\ Volume(resting, First(queue, n)) <= Volume(resting, A)
    BY <1>3, <2>4, VolumeGrows
  <2> QED
    BY <1>3, <2>1, <2>5
<1>6. ASSUME R <= Volume(resting, A) PROVE CanFullyFill(taker, resting, queue)
  <2> DEFINE I == {i \in 1 .. Len(queue) : queue[i] \in A}
  <2>1. A # {}
    <3>1. Volume(resting, {}) = 0
      BY SumEmpty DEF Volume
    <3> QED
      BY <1>3, <1>6, <3>1
  <2>2. I \in SUBSET (0 .. Len(queue)) /\ I # {}
    <3>1. PICK m \in A : TRUE
      BY <2>1
    <3>2. PICK i \in 1 .. Len(queue) : queue[i] = m
      BY <1>2, <1>3 DEF InOrder
    <3> QED
      BY <1>4, <3>2
  <2>3. PICK n \in I : \A i \in I : i <= n
    <3> HIDE DEF I
    <3> QED
      BY <1>4, <2>2, GreatestNumber
  <2>4. n \in 1 .. Len(queue) /\ Crosses(taker, resting[queue[n]])
    BY DEF Takers
  <2>5. First(queue, n) = A
    <3>1. ASSUME NEW m \in First(queue, n) PROVE m \in A
      <4>1. PICK i \in 1 .. n : queue[i] = m
        BY DEF First
      <4>2. i \in 1 .. Len(queue) /\ (i < n \/ i = n)
        BY <1>4, <2>4
      <4>3. Crosses(taker, resting[m])
        BY <1>2, <2>4, <4>1, <4>2, QueuePlaces
      <4>4. m \in D
        BY <1>2, <4>1, <4>2 DEF InOrder
      <4> QED
        BY <4>3, <4>4 DEF Takers
    <3>2. ASSUME NEW m \in A PROVE m \in First(queue, n)
      <4>1. PICK i \in 1 .. Len(queue) : queue[i] = m
        BY <1>2, <1>3 DEF InOrder
      <4>2. i <= n
        BY <2>3, <4>1
      <4> QED
        BY <2>4, <4>1, <4>2 DEF First
    <3> QED
      BY <3>1, <3>2
  <2>6. Volume(resting, First(queue, n)) >= R
    <3>1. Volume(resting, A) \in Nat
      BY <1>3, VolumeGrows
    <3> QED
      BY <1>3, <1>6, <2>5, <3>1
  <2>7. \A m \in First(queue, n) : Crosses(taker, resting[m])
    BY <2>5 DEF Takers
  <2> QED
    BY <1>4, <2>4, <2>6, <2>7 DEF CanFullyFill
<1> QED
  BY <1>1, <1>5, <1>6

\* Who is ahead of an order that trades is used up.
LEMMA BetterFirst ==
  ASSUME NEW taker, NEW resting, WellFormed(taker, resting),
         NEW s, s = Loop(taker, resting, RestingFor(taker, resting)),
         NEW m \in DOMAIN resting, s.fills[m] > 0,
         NEW p \in DOMAIN resting, Ahead(resting, p, m)
  PROVE  s.fills[p] = resting[p].remaining
<1> DEFINE D == DOMAIN resting
           V(x) == Volume(resting, Before(taker, resting, x))
           R == taker.remaining
<1>1. /\ s.fills[m] = Takes(taker, resting, m) /\ s.fills[p] = Takes(taker, resting, p)
      /\ s.fills[m] \in Nat
  BY LoopShares
<1>2. /\ IsFiniteSet(D) /\ \A x \in D : resting[x].remaining \in Nat
      /\ R \in Nat
  BY DEF WellFormed
<1>3. \A x \in D : Before(taker, resting, x) \in SUBSET D /\ V(x) \in Nat
  <2> SUFFICES ASSUME NEW x \in D PROVE Before(taker, resting, x) \in SUBSET D /\ V(x) \in Nat
    OBVIOUS
  <2>1. Before(taker, resting, x) \in SUBSET D
    BY DEF Before
  <2> QED
    BY <1>2, <2>1, VolumeGrows
<1>4. Crosses(taker, resting[m])
  BY <1>1 DEF Takes
<1>5. Crosses(taker, resting[p])
  BY <1>4, AheadAcceptable
<1>6. V(m) < R
  <2>1. PICK r, v : r = resting[m].remaining /\ v = V(m)
    OBVIOUS
  <2>2. s.fills[m] = Lesser(r, Excess(R, v))
    BY <1>1, <1>4, <2>1 DEF Takes
  <2>3. r \in Nat /\ v \in Nat
    BY <1>2, <1>3, <2>1
  <2> QED
    BY <1>2, <2>1, <2>2, <2>3 DEF Lesser, Excess
<1>7. V(p) + resting[p].remaining <= V(m)
  <2>1. \A a, b \in D : a \in Nat /\ resting[a].limit \in Nat /\ resting[a].side = resting[b].side
    BY DEF WellFormed
  <2>2. \A o \in D : Ahead(resting, o, p) => Ahead(resting, o, m)
    BY <2>1 DEF Ahead
  <2>3. ~Ahead(resting, p, p)
    BY <2>1 DEF Ahead
  <2>4. p \in D \ Before(taker, resting, p)
    BY <2>3 DEF Before
  <2>5. Volume(resting, Before(taker, resting, p) \union {p}) = V(p) + resting[p].remaining
    BY <1>2, <1>3, <2>4, VolumeAdds
  <2>6. Before(taker, resting, p) \union {p} \in SUBSET Before(taker, resting, m)
    BY <1>5, <2>2 DEF Before
  <2>7. Volume(resting, Before(taker, resting, p) \union {p}) <= V(m)
    BY <1>2, <1>3, <2>6, VolumeGrows
  <2> QED
    BY <2>5, <2>7, Zenon
<1>8. PICK r, v, w : r = resting[p].remaining /\ v = V(p) /\ w = V(m)
  OBVIOUS
<1>9. /\ r \in Nat /\ v \in Nat /\ w \in Nat /\ w < R /\ v + r <= w
      /\ s.fills[p] = Lesser(r, Excess(R, v))
  <2>1. r \in Nat /\ v \in Nat /\ w \in Nat
    BY <1>2, <1>3, <1>8
  <2>2. w < R /\ v + r <= w
    BY <1>6, <1>7, <1>8
  <2> QED
    BY <1>1, <1>5, <1>8, <2>1, <2>2 DEF Takes
<1>10. s.fills[p] = r
  <2> HIDE DEF R
  <2>1. R \in Nat
    BY <1>2
  <2> QED
    BY <1>9, <2>1 DEF Lesser, Excess
<1> QED
  BY <1>8, <1>10

\* What Match returns, killed or not, in the terms of its callers.
LEMMA MatchFacts ==
  ASSUME NEW taker, NEW resting, WellFormed(taker, resting),
         NEW r, r = Match(taker, resting)
  PROVE  /\ r.cancelled \in BOOLEAN
         /\ r.left \in Nat /\ r.left <= taker.remaining
         /\ r.fills \in [DOMAIN resting -> Nat]
         /\ SumFunctionOnSet(r.fills, DOMAIN resting) = taker.remaining - r.left
         /\ \A m \in DOMAIN resting : r.fills[m] <= resting[m].remaining
         /\ r.changed \subseteq DOMAIN resting
         /\ \A m \in DOMAIN resting : r.fills[m] > 0 =>
              /\ m \in r.changed
              /\ Crosses(taker, resting[m])
              /\ \A p \in DOMAIN resting : Ahead(resting, p, m) =>
                   r.fills[p] = resting[p].remaining
         /\ r.left > 0 /\ (taker.tif = "FOK" => ~r.cancelled) =>
              \A m \in Takers(taker, resting) : r.fills[m] = resting[m].remaining
         /\ taker.tif # "FOK" /\ r.left = 0 => ~r.cancelled
<1> DEFINE queue == RestingFor(taker, resting)
           D == DOMAIN resting
           kills == taker.tif = "FOK" /\ ~CanFullyFill(taker, resting, queue)
<1>1. /\ IsFiniteSet(D) /\ taker.remaining \in Nat
      /\ \A m \in D : resting[m].remaining \in Nat
  BY DEF WellFormed
<1>2. CASE kills
  <2>1. r = [fills |-> NoFills(resting), changed |-> D,
             left |-> taker.remaining, cancelled |-> TRUE]
    BY <1>2 DEF Match
  <2>2. NoFills(resting) \in [D -> {0}]
    BY DEF NoFills
  <2>3. SumFunctionOnSet(NoFills(resting), D) = 0
    BY <1>1, <2>2, SumNought
  <2>4. r.fills \in [D -> {0}] /\ SumFunctionOnSet(r.fills, D) = taker.remaining - r.left
    BY <1>1, <2>1, <2>2, <2>3
  <2>5. taker.tif = "FOK" /\ r.cancelled
    BY <1>2, <2>1
  <2> QED
    BY <1>1, <2>1, <2>4, <2>5
<1>3. CASE ~kills
  <2>1. PICK s : s = Loop(taker, resting, queue)
    OBVIOUS
  <2>2. r = [fills |-> s.fills, changed |-> {m \in D : s.fills[m] > 0},
             left |-> s.left, cancelled |-> ShouldCancelRemainder(taker, s.left)]
    BY <1>3, <2>1 DEF Match
  <2>3. /\ s.left \in Nat /\ s.fills \in [D -> Nat]
        /\ s.left + SumFunctionOnSet(s.fills, D) = taker.remaining
        /\ \A m \in D : s.fills[m] = Takes(taker, resting, m)
        /\ \A m \in D : s.fills[m] <= resting[m].remaining
        /\ s.left > 0 => \A m \in Takers(taker, resting) : s.fills[m] = resting[m].remaining
    BY <2>1, LoopShares
  <2>4. \A m, p \in D : s.fills[m] > 0 /\ Ahead(resting, p, m) => s.fills[p] = resting[p].remaining
    BY <2>1, BetterFirst
  <2>5. \A m \in D : s.fills[m] > 0 => Crosses(taker, resting[m])
    BY <2>3 DEF Takes
  <2>6. SumFunctionOnSet(s.fills, D) \in Nat
    <3>1. PICK f : f = s.fills
      OBVIOUS
    <3>2. \A m \in D : f[m] \in Nat
      BY <2>3, <3>1
    <3>3. SumFunctionOnSet(f, D) \in Nat
      BY <1>1, <3>2, SumNatural
    <3> QED
      BY <3>1, <3>3
  <2>7. SumFunctionOnSet(s.fills, D) = taker.remaining - s.left /\ s.left <= taker.remaining
    BY <1>1, <2>3, <2>6
  <2>8. ShouldCancelRemainder(taker, s.left) \in BOOLEAN
    BY DEF ShouldCancelRemainder
  <2>9. /\ r.fills = s.fills /\ r.left = s.left
        /\ r.cancelled = ShouldCancelRemainder(taker, s.left)
        /\ r.changed = {m \in D : s.fills[m] > 0}
    BY <2>2
  <2>10. r.left = 0 => ~r.cancelled
    <3>1. s.left = 0 => ~ShouldCancelRemainder(taker, s.left)
      BY DEF ShouldCancelRemainder
    <3> QED
      BY <2>9, <3>1
  <2> QED
    BY <2>3, <2>4, <2>5, <2>7, <2>8, <2>9, <2>10
<1> QED
  BY <1>2, <1>3

\* The engine returns as changed only orders of the book it was given.
LEMMA MatchChangesTheBook ==
  ASSUME NEW taker, NEW resting
  PROVE  Match(taker, resting).changed \subseteq DOMAIN resting
<1>1. CASE taker.tif = "FOK" /\ ~CanFullyFill(taker, resting, RestingFor(taker, resting))
  BY <1>1 DEF Match
<1>2. CASE ~(taker.tif = "FOK" /\ ~CanFullyFill(taker, resting, RestingFor(taker, resting)))
  BY <1>2 DEF Match
<1>3. QED
  BY <1>1, <1>2

-----------------------------------------------------------------------------
(***************************************************************************)
(* One call of Match                                                       *)
(***************************************************************************)

\* What the engine has been called with, and what it returned.
BookInv ==
  /\ incoming \in Incoming
  /\ WellFormed(incoming, book)
  /\ Returned => result = Match(incoming, book)

THEOREM BookInvariant == BookSpec => []BookInv
<1>1. BookInit => BookInv
  <2> SUFFICES ASSUME BookInit PROVE BookInv
    OBVIOUS
  <2>1. incoming \in Incoming /\ book \in Books /\ ~Returned
        /\ \A m \in DOMAIN book : book[m].side = Opposite(incoming.side)
    BY DEF BookInit, Returned
  <2>2. PICK M \in SUBSET Makers : book \in [M -> RestingOrders]
    BY <2>1 DEF Books
  <2>3. DOMAIN book = M /\ IsFiniteSet(M) /\ M \subseteq Nat
    BY <2>2, BookAssumption, FS_Subset
  <2>4. \A m \in DOMAIN book : book[m].limit \in Nat /\ book[m].remaining \in Nat
    <3>1. \A x \in Limits \union {NoPrice} : x \in Nat
      BY BookAssumption DEF NoPrice
    <3>2. \A m \in DOMAIN book : book[m] \in RestingOrders
      BY <2>2
    <3>3. \A m \in DOMAIN book : /\ book[m].limit \in Limits \union {NoPrice}
                                 /\ book[m].remaining \in Quantities
      BY <3>2 DEF RestingOrders
    <3> QED
      BY <3>1, <3>3, BookAssumption
  <2>5. incoming.side \in {"BUY", "SELL"} /\ incoming.limit \in Nat /\ incoming.remaining \in Nat
    BY <2>1, BookAssumption DEF Incoming, Sides
  <2>6. ~Panics(book)
    BY <2>1 DEF Books
  <2> QED
    BY <2>1, <2>3, <2>4, <2>5, <2>6 DEF BookInv, WellFormed
<1>2. BookInv /\ [Call]_bookVars => BookInv'
  <2> SUFFICES ASSUME BookInv, [Call]_bookVars PROVE BookInv'
    OBVIOUS
  <2>1. CASE Call
    <3>1. incoming' = incoming /\ book' = book /\ result' = Match(incoming, book)
      BY <2>1 DEF Call
    <3> QED
      BY <3>1 DEF BookInv
  <2>2. CASE UNCHANGED bookVars
    BY <2>2 DEF BookInv, bookVars, Returned
  <2> QED
    BY <2>1, <2>2
<1> QED
  BY <1>1, <1>2, PTL DEF BookSpec

-----------------------------------------------------------------------------
(***************************************************************************)
(* The reference in the engine's terms                                     *)
(***************************************************************************)

LEMMA AcceptableCross ==
  ASSUME BookInv
  PROVE  Acceptable = Takers(incoming, book)
<1>1. \A m \in DOMAIN book : book[m].limit \in Nat
  BY DEF BookInv, WellFormed
<1>2. incoming.limit \in Nat /\ incoming.limit # NoPrice /\ incoming.side \in {"BUY", "SELL"}
  BY BookAssumption DEF BookInv, Incoming, Sides
<1>3. \A m \in DOMAIN book : m \in Acceptable <=> Crosses(incoming, book[m])
  BY <1>1, <1>2 DEF Acceptable, Cost, Crosses
<1> QED
  BY <1>3 DEF Acceptable, Takers

LEMMA VolumeAheadIsBefore ==
  ASSUME BookInv, NEW m \in DOMAIN book
  PROVE  VolumeAhead(m) = Volume(book, Before(incoming, book, m))
<1>1. \A o \in DOMAIN book : book[o].limit \in Nat /\ book[o].side = Opposite(incoming.side)
  BY DEF BookInv, WellFormed
<1>2. incoming.side \in {"BUY", "SELL"}
  BY DEF BookInv, WellFormed
<1>3. \A o \in DOMAIN book :
        Ahead(book, o, m) <=> \/ Cost(book[o].limit) < Cost(book[m].limit)
                              \/ book[o].limit = book[m].limit /\ o < m
  BY <1>1, <1>2 DEF Ahead, Cost, Opposite
<1>4. {o \in Acceptable : \/ Cost(book[o].limit) < Cost(book[m].limit)
                          \/ book[o].limit = book[m].limit /\ o < m} =
        Before(incoming, book, m)
  BY <1>3, AcceptableCross DEF Before, Takers
<1> QED
  BY <1>4 DEF VolumeAhead

LEMMA MaxIsExcess ==
  ASSUME NEW a \in Int, NEW b \in Int
  PROVE  Max({0, a - b}) = Excess(a, b)
<1> DEFINE S == {0, a - b}
           e == Excess(a, b)
<1>1. e \in S /\ e \in Int /\ \A x \in S : x \in Int /\ e >= x
  BY DEF Excess
<1> HIDE DEF S, e
<1>2. Max(S) \in S /\ \A x \in S : Max(S) >= x
  BY <1>1 DEF Max
<1>3. Max(S) = e
  <2>1. Max(S) \in Int /\ Max(S) >= e /\ e >= Max(S)
    BY <1>1, <1>2
  <2> QED
    BY <1>1, <2>1
<1> QED
  BY <1>3 DEF S, e

LEMMA ShareIsTakes ==
  ASSUME BookInv, NEW m \in DOMAIN book
  PROVE  Share(m, incoming.remaining) = Takes(incoming, book, m)
<1>1. IsFiniteSet(DOMAIN book) /\ \A o \in DOMAIN book : book[o].remaining \in Nat
  BY DEF BookInv, WellFormed
<1>2. Before(incoming, book, m) \in SUBSET DOMAIN book
  BY DEF Before
<1>3. VolumeAhead(m) \in Int /\ incoming.remaining \in Int
  BY <1>1, <1>2, VolumeAheadIsBefore, VolumeGrows DEF BookInv, WellFormed
<1>4. Max({0, incoming.remaining - VolumeAhead(m)}) = Excess(incoming.remaining, VolumeAhead(m))
  BY <1>3, MaxIsExcess
<1> QED
  BY <1>4, AcceptableCross, VolumeAheadIsBefore DEF Share, Takes, Takers

-----------------------------------------------------------------------------
(***************************************************************************)
(* What Match returns                                                      *)
(***************************************************************************)

LEMMA MatchCases ==
  ASSUME BookInv, Returned,
         NEW loop, loop = Loop(incoming, book, RestingFor(incoming, book))
  PROVE  IF incoming.tif = "FOK" /\ Volume(book, Acceptable) < incoming.remaining
         THEN result.fills = NoFills(book) /\ result.left = incoming.remaining /\ result.cancelled = TRUE
         ELSE /\ result.fills = loop.fills /\ result.left = loop.left
              /\ result.cancelled = ShouldCancelRemainder(incoming, loop.left)
<1> DEFINE queue == RestingFor(incoming, book)
           kills == incoming.tif = "FOK" /\ ~CanFullyFill(incoming, book, queue)
<1>1. incoming.remaining \in Nat /\ incoming.remaining > 0 /\ WellFormed(incoming, book)
  <2>1. incoming.remaining \in Nat \ {0}
    BY BookAssumption DEF BookInv, Incoming
  <2> QED
    BY <2>1 DEF BookInv
<1>2. Takers(incoming, book) = Acceptable
  BY AcceptableCross
<1>3. Volume(book, Acceptable) \in Nat
  <2>1. Acceptable \in SUBSET DOMAIN book
    BY DEF Acceptable
  <2>2. IsFiniteSet(DOMAIN book) /\ \A o \in DOMAIN book : book[o].remaining \in Nat
    BY DEF BookInv, WellFormed
  <2> QED
    BY <2>1, <2>2, VolumeGrows
<1>4. CanFullyFill(incoming, book, queue) <=> ~(Volume(book, Acceptable) < incoming.remaining)
  BY <1>1, <1>2, <1>3, PrecheckCounts
<1>5. result = Match(incoming, book)
  BY DEF BookInv
<1>6. CASE kills
  <2>1. result = [fills |-> NoFills(book), changed |-> DOMAIN book,
                  left |-> incoming.remaining, cancelled |-> TRUE]
    BY <1>5, <1>6 DEF Match
  <2> QED
    BY <1>4, <1>6, <2>1
<1>7. CASE ~kills
  <2>1. result = [fills |-> loop.fills,
                  changed |-> {m \in DOMAIN book : loop.fills[m] > 0},
                  left |-> loop.left,
                  cancelled |-> ShouldCancelRemainder(incoming, loop.left)]
    BY <1>5, <1>7 DEF Match
  <2> QED
    BY <1>4, <1>7, <2>1
<1> QED
  BY <1>6, <1>7

\* Unless a fill-or-kill order is killed, every maker gets exactly its share of
\* the incoming order: Engine.Match walks the sorted side of the book.
THEOREM PriceTimePriorityHolds == BookSpec => []PriceTimePriority
<1>1. BookInv => PriceTimePriority
  <2> SUFFICES ASSUME BookInv, Returned, incoming.tif = "FOK" => ~result.cancelled,
                      NEW m \in DOMAIN book
               PROVE  result.fills[m] = Share(m, incoming.remaining)
    BY DEF PriceTimePriority
  <2>1. PICK loop : loop = Loop(incoming, book, RestingFor(incoming, book))
    OBVIOUS
  <2>2. result.fills = loop.fills
    BY <2>1, MatchCases
  <2>3. loop.fills[m] = Takes(incoming, book, m)
    BY <2>1, LoopShares DEF BookInv
  <2> QED
    BY <2>2, <2>3, ShareIsTakes
<1> QED
  BY <1>1, BookInvariant, PTL

\* canFullyFill and the loop agree: a fill-or-kill order trades completely or
\* not at all.
THEOREM FillOrKillHolds == BookSpec => []FillOrKill
<1>1. BookInv => FillOrKill
  <2> SUFFICES ASSUME BookInv, Returned, incoming.tif = "FOK"
               PROVE  LET enough == Volume(book, Acceptable) >= incoming.remaining
                      IN /\ Filled = (IF enough THEN incoming.remaining ELSE 0)
                         /\ result.cancelled <=> ~enough
    BY DEF FillOrKill
  <2>1. PICK loop : loop = Loop(incoming, book, RestingFor(incoming, book))
    OBVIOUS
  <2>2. PICK v : v = Volume(book, Acceptable)
    OBVIOUS
  <2>3. v \in Nat /\ incoming.remaining \in Nat
    <3>1. Acceptable \in SUBSET DOMAIN book
      BY DEF Acceptable
    <3>2. IsFiniteSet(DOMAIN book) /\ \A o \in DOMAIN book : book[o].remaining \in Nat
      BY DEF BookInv, WellFormed
    <3> QED
      BY <2>2, <3>1, <3>2, VolumeGrows DEF BookInv, WellFormed
  <2>4. CASE v < incoming.remaining
    <3>1. result.fills = NoFills(book) /\ result.cancelled = TRUE
      BY <2>1, <2>2, <2>4, MatchCases
    <3>2. SumFunctionOnSet(NoFills(book), DOMAIN book) = 0
      BY SumNought DEF NoFills, BookInv, WellFormed
    <3> QED
      BY <2>2, <2>3, <2>4, <3>1, <3>2 DEF Filled
  <2>5. CASE ~(v < incoming.remaining)
    <3>1. /\ result.fills = loop.fills
          /\ result.cancelled = ShouldCancelRemainder(incoming, loop.left)
      BY <2>1, <2>2, <2>5, MatchCases
    <3>2. loop.left = 0
      <4>1. incoming.remaining <= Volume(book, Takers(incoming, book))
        BY <2>2, <2>3, <2>5, AcceptableCross
      <4> QED
        BY <2>1, <4>1, LoopFills DEF BookInv
    <3>3. loop.left + SumFunctionOnSet(loop.fills, DOMAIN book) = incoming.remaining
      BY <2>1, LoopShares DEF BookInv
    <3>4. SumFunctionOnSet(loop.fills, DOMAIN book) = incoming.remaining
      <4>1. SumFunctionOnSet(loop.fills, DOMAIN book) \in Int
        <5>1. PICK f : f = loop.fills
          OBVIOUS
        <5>2. f \in [DOMAIN book -> Nat] /\ IsFiniteSet(DOMAIN book)
          BY <2>1, <5>1, LoopShares DEF BookInv, WellFormed
        <5>3. SumFunctionOnSet(f, DOMAIN book) \in Int
          BY <5>2, SumInteger
        <5> QED
          BY <5>1, <5>3
      <4> QED
        BY <3>2, <3>3, <4>1
    <3>5. ~result.cancelled
      <4>1. ~ShouldCancelRemainder(incoming, 0)
        BY DEF ShouldCancelRemainder
      <4> QED
        BY <3>1, <3>2, <4>1
    <3> QED
      BY <2>2, <2>3, <2>5, <3>1, <3>4, <3>5 DEF Filled
  <2> QED
    BY <2>4, <2>5
<1> QED
  BY <1>1, BookInvariant, PTL

\* Result.Rested: what is left of the incoming order rests only if it is a
\* limit order that may, and nothing acceptable is left in the book.
THEOREM RestsUncrossedHolds == BookSpec => []RestsUncrossed
<1>1. BookInv => RestsUncrossed
  <2> SUFFICES ASSUME BookInv, Returned, ~result.cancelled, Filled < incoming.remaining
               PROVE  /\ incoming.type = "LIMIT" /\ incoming.tif = "GTC"
                      /\ \A m \in Acceptable : result.fills[m] = book[m].remaining
    BY DEF RestsUncrossed
  <2>1. PICK loop : loop = Loop(incoming, book, RestingFor(incoming, book))
    OBVIOUS
  <2>2. /\ result.fills = loop.fills /\ result.left = loop.left
        /\ ~ShouldCancelRemainder(incoming, loop.left)
    BY <2>1, MatchCases
  <2>3. /\ loop.left \in Nat /\ loop.fills \in [DOMAIN book -> Nat]
        /\ loop.left + SumFunctionOnSet(loop.fills, DOMAIN book) = incoming.remaining
        /\ loop.left > 0 =>
             \A m \in Takers(incoming, book) : loop.fills[m] = book[m].remaining
    BY <2>1, LoopShares DEF BookInv
  <2>4. loop.left > 0
    <3>1. PICK v : v = Filled
      OBVIOUS
    <3>2. loop.left + v = incoming.remaining /\ v < incoming.remaining
      BY <2>2, <2>3, <3>1 DEF Filled
    <3>3. v \in Int
      <4>1. PICK f : f = loop.fills
        OBVIOUS
      <4>2. f \in [DOMAIN book -> Nat] /\ IsFiniteSet(DOMAIN book)
        BY <2>3, <4>1 DEF BookInv, WellFormed
      <4>3. SumFunctionOnSet(f, DOMAIN book) \in Int
        BY <4>2, SumInteger
      <4> QED
        BY <2>2, <3>1, <4>1, <4>3 DEF Filled
    <3> QED
      BY <2>3, <3>2, <3>3
  <2>5. incoming.type = "LIMIT" /\ incoming.tif = "GTC"
    BY <2>2, <2>4 DEF ShouldCancelRemainder, BookInv, Incoming
  <2> QED
    BY <2>2, <2>3, <2>4, <2>5, AcceptableCross
<1> QED
  BY <1>1, BookInvariant, PTL

===============================================================================
