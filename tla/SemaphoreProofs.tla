-------------------------- MODULE SemaphoreProofs --------------------------
(***************************************************************************)
(* What holds of Semaphore for every set of callers and every number of    *)
(* permits.                                                                *)
(***************************************************************************)
EXTENDS Semaphore, FiniteSetTheorems, FunctionTheorems, SequenceTheorems,
        TLAPS

\* No caller waits twice, or waits while it owns a permit.
WaitersAreApart ==
  /\ \A i, j \in DOMAIN waiters : waiters[i] = waiters[j] => i = j
  /\ Waiting \cap held = {}

\* The inductive invariant: the count is that of the owners, and a permit is
\* free only if nobody waits.
Exact ==
  /\ TypeOK
  /\ IsFiniteSet(held) /\ Cardinality(held) = active
  /\ waiters # <<>> => active = MaxConcurrency
  /\ WaitersAreApart

LEMMA InitExact == Init => Exact
BY SemaphoreAssumption, FS_EmptySet
DEF Init, Exact, TypeOK, WaitersAreApart, Waiting

\* With a free permit nobody waits, and acquire() takes it.
LEMMA AcquireAtOnce ==
  ASSUME Exact, NEW c \in Callers, Acquire(c), active < MaxConcurrency
  PROVE  /\ waiters = <<>> /\ waiters' = <<>>
         /\ active' = active + 1
         /\ held' = held \cup {c}
<1>1. /\ waiters = <<>> /\ active \in Nat
      /\ MaxConcurrency \in Nat
  BY SemaphoreAssumption DEF Exact, TypeOK
<1>2. FreePermits >= 1 /\ FreePermits \in Nat
  BY <1>1 DEF FreePermits
<1>3. Len(<<c>>) = 1 /\ Least(1, FreePermits) = 1
  BY <1>2 DEF Least
<1>4. /\ active' = active + 1
      /\ held' = held \cup {<<c>>[i] : i \in 1..1}
      /\ waiters' = waiters \o SubSeq(<<c>>, 2, 1)
  BY <1>3 DEF Acquire, AcquireInOrder
<1>5. {<<c>>[i] : i \in 1..1} = {c}
  OBVIOUS
<1>6. SubSeq(<<c>>, 2, 1) = <<>>
  OBVIOUS
<1> QED
  BY <1>1, <1>4, <1>5, <1>6

\* Without one it waits behind all others.
LEMMA AcquireQueues ==
  ASSUME Exact, NEW c \in Callers, Acquire(c), active = MaxConcurrency
  PROVE  /\ waiters' = Append(waiters, c)
         /\ active' = active
         /\ held' = held
<1>1. /\ waiters \in Seq(Callers) /\ active \in Nat
      /\ MaxConcurrency \in Nat
  BY SemaphoreAssumption DEF Exact, TypeOK
<1>2. FreePermits = 0
  BY <1>1 DEF FreePermits
<1>3. Len(<<c>>) = 1 /\ Least(1, FreePermits) = 0
  BY <1>2 DEF Least
<1>4. /\ active' = active + 0
      /\ held' = held \cup {<<c>>[i] : i \in 1..0}
      /\ waiters' = waiters \o SubSeq(<<c>>, 0 + 1, Len(<<c>>))
  BY <1>3, Zenon DEF Acquire, AcquireInOrder
<1>5. SubSeq(<<c>>, 0 + 1, Len(<<c>>)) = <<c>>
  <2>1. <<c>> \in Seq(Callers)
    OBVIOUS
  <2>2. SubSeq(<<c>>, 1, Len(<<c>>)) = <<c>>
    BY <2>1, SubSeqFull
  <2>3. 0 + 1 = 1
    OBVIOUS
  <2> QED
    BY <2>2, <2>3, Zenon
<1>6. waiters \o <<c>> = Append(waiters, c)
  BY <1>1
<1> QED
  BY <1>1, <1>4, <1>5, <1>6

LEMMA ExactAfterAcquire ==
  ASSUME Exact, NEW c \in Callers, Acquire(c)
  PROVE  Exact'
<1>1. c \notin held /\ c \notin Waiting
  BY DEF Acquire
<1>2. CASE active < MaxConcurrency
  <2>1. /\ waiters = <<>> /\ waiters' = <<>>
        /\ active' = active + 1
        /\ held' = held \cup {c}
    BY <1>2, AcquireAtOnce
  <2>2. TypeOK'
    BY <1>2, <2>1, SemaphoreAssumption DEF Exact, TypeOK
  <2>3. IsFiniteSet(held') /\ Cardinality(held') = active'
    BY <1>1, <2>1, FS_AddElement DEF Exact
  <2>4. WaitersAreApart'
    BY <2>1 DEF WaitersAreApart, Waiting
  <2> QED
    BY <2>1, <2>2, <2>3, <2>4 DEF Exact
<1>3. CASE active = MaxConcurrency
  <2>1. /\ waiters' = Append(waiters, c)
        /\ active' = active
        /\ held' = held
    BY <1>3, AcquireQueues
  <2>2. waiters \in Seq(Callers)
    BY DEF Exact, TypeOK
  <2>3. TypeOK'
    BY <2>1, <2>2 DEF Exact, TypeOK
  <2>4. /\ DOMAIN waiters' = 1..(Len(waiters) + 1)
        /\ \A i \in 1..Len(waiters) : waiters'[i] = waiters[i]
        /\ waiters'[Len(waiters) + 1] = c
        /\ DOMAIN waiters = 1..Len(waiters) /\ Len(waiters) \in Nat
    BY <2>1, <2>2
  <2>5. \A i \in 1..Len(waiters) : waiters[i] # c
    BY <1>1, <2>4 DEF Waiting
  <2>6. \A i, j \in DOMAIN waiters' : waiters'[i] = waiters'[j] => i = j
    BY <2>4, <2>5 DEF Exact, WaitersAreApart
  <2>7. Waiting' \subseteq Waiting \cup {c}
    BY <2>4 DEF Waiting
  <2>8. WaitersAreApart'
    BY <1>1, <2>1, <2>6, <2>7 DEF Exact, WaitersAreApart
  <2> QED
    BY <1>3, <2>1, <2>3, <2>8 DEF Exact
<1> QED
  BY <1>2, <1>3, SemaphoreAssumption DEF Exact, TypeOK

\* A run of acquire() calls: the first take what is free, the others wait in
\* their order behind all who wait already.
LEMMA ExactAfterAcquireInOrder ==
  ASSUME Exact, NEW calls \in Seq(Callers), AcquireInOrder(calls),
         \A i, j \in 1..Len(calls) : calls[i] = calls[j] => i = j,
         \A i \in 1..Len(calls) : calls[i] \notin held \cup Waiting
  PROVE  /\ Exact'
         /\ held' \subseteq held \cup {calls[i] : i \in 1..Len(calls)}
         /\ held \subseteq held'
         /\ held' \cup Waiting'
              = held \cup Waiting \cup {calls[i] : i \in 1..Len(calls)}
         /\ Waiting \subseteq Waiting'
<1> DEFINE n == Len(calls)
           granted == Least(n, FreePermits)
           queued == SubSeq(calls, granted + 1, n)
           taken == {calls[i] : i \in 1..granted}
<1>1. /\ waiters \in Seq(Callers) /\ held \subseteq Callers
      /\ active \in 0..MaxConcurrency /\ MaxConcurrency \in Nat
      /\ IsFiniteSet(held) /\ Cardinality(held) = active
      /\ waiters # <<>> => active = MaxConcurrency
  BY SemaphoreAssumption DEF Exact, TypeOK
<1>2. n \in Nat /\ \A i \in 1..n : calls[i] \in Callers
  BY LenProperties, ElementOfSeq
<1>3. /\ granted \in 0..n /\ active + granted \in 0..MaxConcurrency
      /\ granted < n => active + granted = MaxConcurrency
      /\ waiters # <<>> => granted = 0
  <2> HIDE DEF n
  <2> QED BY <1>1, <1>2 DEF Least, FreePermits
<1>4. /\ active' = active + granted
      /\ held' = held \cup taken
      /\ waiters' = waiters \o queued
  BY Zenon DEF AcquireInOrder
<1> HIDE DEF granted
<1>5. /\ queued \in Seq(Callers)
      /\ Len(queued) = n - granted
      /\ \A i \in 1..n - granted : queued[i] = calls[granted + i]
  <2> HIDE DEF n
  <2>1. \A i \in granted + 1..n : calls[i] \in Callers
    BY <1>2, <1>3
  <2>2. /\ queued \in Seq(Callers)
        /\ Len(queued) = IF granted + 1 <= n THEN n - (granted + 1) + 1 ELSE 0
        /\ \A i \in 1..n - (granted + 1) + 1 :
             queued[i] = calls[granted + 1 + i - 1]
    BY <2>1, <1>2, <1>3, SubSeqProperties
  <2> HIDE DEF queued
  <2>3. Len(queued) = n - granted /\ n - (granted + 1) + 1 = n - granted
    BY <2>2, <1>2, <1>3
  <2>4. \A i \in 1..n - granted : granted + 1 + i - 1 = granted + i
    BY <1>2, <1>3
  <2> QED BY <2>2, <2>3, <2>4
<1> HIDE DEF n, queued, taken
<1>6. \A i, j \in 1..n : calls[i] = calls[j] => i = j
  BY DEF n
<1>7. \A i \in 1..n : calls[i] \notin held /\ calls[i] \notin Waiting
  BY DEF n
<1>8. taken \subseteq Callers /\ taken \cap held = {} /\ taken \cap Waiting = {}
  BY <1>2, <1>3, <1>7 DEF taken
<1>9. IsFiniteSet(taken) /\ Cardinality(taken) = granted
  <2> DEFINE f == [i \in 1..granted |-> calls[i]]
  <2>1. f \in Bijection(1..granted, taken)
    <3>1. f \in [1..granted -> taken]
      BY DEF taken
    <3>2. f \in Surjection(1..granted, taken)
      BY <3>1 DEF Surjection, taken
    <3>3. f \in Injection(1..granted, taken)
      BY <3>1, <1>2, <1>3, <1>6 DEF Injection, IsInjective
    <3> QED BY <3>2, <3>3 DEF Bijection
  <2>2. ExistsBijection(1..granted, taken)
    BY <2>1 DEF ExistsBijection
  <2>3. IsFiniteSet(1..granted) /\ Cardinality(1..granted) = granted
    BY <1>2, <1>3, FS_Interval
  <2> QED BY <2>2, <2>3, FS_Bijection
<1>10. IsFiniteSet(held') /\ Cardinality(held') = active'
  <2>1. /\ IsFiniteSet(held \cup taken)
        /\ Cardinality(held \cup taken) = Cardinality(held)
             + Cardinality(taken) - Cardinality(held \cap taken)
    BY <1>1, <1>9, FS_Union
  <2>2. Cardinality(held \cap taken) = 0
    BY <1>8, FS_EmptySet
  <2>3. active + granted - 0 = active + granted
    BY <1>1, <1>2, <1>3
  <2> QED BY <2>1, <2>2, <2>3, <1>1, <1>4, <1>9
<1>11. /\ waiters' \in Seq(Callers)
       /\ DOMAIN waiters' = 1..Len(waiters) + (n - granted)
       /\ DOMAIN waiters = 1..Len(waiters) /\ Len(waiters) \in Nat
       /\ \A i \in 1..Len(waiters) + (n - granted) : waiters'[i] =
            IF i <= Len(waiters) THEN waiters[i] ELSE queued[i - Len(waiters)]
  BY <1>1, <1>4, <1>5, ConcatProperties, LenProperties
<1>12. ASSUME NEW i \in DOMAIN waiters'
       PROVE  \/ /\ i \in DOMAIN waiters /\ waiters'[i] = waiters[i]
                 /\ waiters'[i] \in Waiting
              \/ /\ i > Len(waiters) /\ granted + (i - Len(waiters)) \in granted + 1..n
                 /\ waiters'[i] = calls[granted + (i - Len(waiters))]
  <2>1. CASE i <= Len(waiters)
    BY <2>1, <1>11 DEF Waiting
  <2>2. CASE ~(i <= Len(waiters))
    <3>1. i - Len(waiters) \in 1..n - granted
      BY <2>2, <1>2, <1>3, <1>11
    <3>2. granted + (i - Len(waiters)) \in granted + 1..n
      BY <3>1, <1>2, <1>3
    <3>3. waiters'[i] = queued[i - Len(waiters)]
      BY <2>2, <1>11
    <3>4. waiters'[i] = calls[granted + (i - Len(waiters))]
      BY <3>1, <3>3, <1>5
    <3> QED BY <3>2, <3>4, <2>2, <1>11
  <2> QED BY <2>1, <2>2
<1>22. ASSUME NEW i \in DOMAIN waiters', i \notin DOMAIN waiters
      PROVE  waiters'[i] \notin Waiting
  <2>1. /\ granted + (i - Len(waiters)) \in granted + 1..n
        /\ waiters'[i] = calls[granted + (i - Len(waiters))]
    BY <1>22, <1>12
  <2>2. granted + (i - Len(waiters)) \in 1..n
    BY <2>1, <1>2, <1>3
  <2> QED BY <2>1, <2>2, <1>7
<1>13. \A i, j \in DOMAIN waiters' : waiters'[i] = waiters'[j] => i = j
  <2> SUFFICES ASSUME NEW i \in DOMAIN waiters', NEW j \in DOMAIN waiters',
                      waiters'[i] = waiters'[j]
               PROVE  i = j
    OBVIOUS
  <2>1. CASE i \in DOMAIN waiters /\ j \in DOMAIN waiters
    BY <2>1, <1>11, <1>12 DEF Exact, WaitersAreApart
  <2>2. CASE i \notin DOMAIN waiters /\ j \notin DOMAIN waiters
    <3>1. granted + (i - Len(waiters)) = granted + (j - Len(waiters))
      BY <2>2, <1>2, <1>3, <1>6, <1>12
    <3> QED BY <3>1, <1>2, <1>3, <1>11
  <2>3. CASE i \in DOMAIN waiters /\ j \notin DOMAIN waiters
    BY <2>3, <1>12, <1>22
  <2>4. CASE i \notin DOMAIN waiters /\ j \in DOMAIN waiters
    BY <2>4, <1>12, <1>22
  <2> QED BY <2>1, <2>2, <2>3, <2>4
<1>14. \A i \in granted + 1..n : calls[i] \notin taken
  BY <1>2, <1>3, <1>6 DEF taken
<1>15. ASSUME NEW i \in DOMAIN waiters' PROVE waiters'[i] \notin held'
  <2>1. CASE waiters'[i] \in Waiting
    BY <2>1, <1>4, <1>8 DEF Exact, WaitersAreApart
  <2>2. CASE waiters'[i] = calls[granted + (i - Len(waiters))]
             /\ granted + (i - Len(waiters)) \in granted + 1..n
    <3>1. granted + (i - Len(waiters)) \in 1..n
      BY <2>2, <1>2, <1>3
    <3> QED BY <2>2, <3>1, <1>4, <1>7, <1>14
  <2> QED BY <2>1, <2>2, <1>12
<1>16. Exact'
  <2>1. TypeOK'
    BY <1>1, <1>2, <1>3, <1>4, <1>8, <1>11 DEF TypeOK
  <2>2. WaitersAreApart'
    BY <1>13, <1>15 DEF WaitersAreApart, Waiting
  <2>3. waiters' # <<>> => active' = MaxConcurrency
    <3>1. CASE granted < n
      BY <3>1, <1>3, <1>4
    <3>2. CASE granted = n
      <4>1. Len(queued) = 0
        BY <3>2, <1>2, <1>5
      <4>2. queued = <<>>
        BY <4>1, <1>5, EmptySeq
      <4>3. waiters' = waiters
        BY <4>2, <1>1, <1>4, ConcatEmptySeq
      <4> QED BY <4>3, <1>1, <1>2, <1>3, <1>4
    <3> QED BY <3>1, <3>2, <1>2, <1>3
  <2> QED BY <2>1, <2>2, <2>3, <1>10 DEF Exact
<1>17. Waiting \subseteq Waiting'
  <2> SUFFICES ASSUME NEW i \in DOMAIN waiters PROVE waiters[i] \in Waiting'
    BY DEF Waiting
  <2>1. i \in DOMAIN waiters' /\ waiters'[i] = waiters[i]
    BY <1>2, <1>3, <1>11
  <2> QED BY <2>1 DEF Waiting
<1>18. \A i \in 1..n : calls[i] \in held' \cup Waiting'
  <2> SUFFICES ASSUME NEW i \in 1..n PROVE calls[i] \in held' \cup Waiting'
    OBVIOUS
  <2>1. CASE i <= granted
    BY <2>1, <1>2, <1>3, <1>4 DEF taken
  <2>2. CASE ~(i <= granted)
    <3> DEFINE k == Len(waiters) + (i - granted)
    <3>1. /\ k \in 1..Len(waiters) + (n - granted) /\ ~(k <= Len(waiters))
          /\ k - Len(waiters) = i - granted /\ i - granted \in 1..n - granted
          /\ granted + (i - granted) = i
      BY <2>2, <1>2, <1>3, <1>11
    <3> HIDE DEF k
    <3>2. waiters'[k] = queued[i - granted] /\ k \in DOMAIN waiters'
      BY <3>1, <1>11
    <3>3. waiters'[k] = calls[i]
      BY <3>1, <3>2, <1>5
    <3> QED BY <3>2, <3>3 DEF Waiting
  <2> QED BY <2>1, <2>2
<1>19. Waiting' \subseteq Waiting \cup {calls[i] : i \in 1..n}
  <2> SUFFICES ASSUME NEW i \in DOMAIN waiters'
               PROVE  waiters'[i] \in Waiting \cup {calls[k] : k \in 1..n}
    BY DEF Waiting
  <2>1. CASE waiters'[i] \in Waiting
    BY <2>1
  <2>2. CASE waiters'[i] = calls[granted + (i - Len(waiters))]
             /\ granted + (i - Len(waiters)) \in granted + 1..n
    <3>1. granted + (i - Len(waiters)) \in 1..n
      BY <2>2, <1>2, <1>3
    <3> QED BY <2>2, <3>1
  <2> QED BY <2>1, <2>2, <1>12
<1>20. held' \subseteq held \cup {calls[i] : i \in 1..n} /\ held \subseteq held'
  <2>1. taken \subseteq {calls[i] : i \in 1..n}
    BY <1>2, <1>3 DEF taken
  <2> QED BY <2>1, <1>4
<1>21. held' \cup Waiting' = held \cup Waiting \cup {calls[i] : i \in 1..n}
  BY <1>17, <1>18, <1>19, <1>20
<1> QED BY <1>16, <1>17, <1>20, <1>21 DEF n

LEMMA ExactAfterRelease ==
  ASSUME Exact, NEW c \in Callers, Release(c)
  PROVE  Exact'
<1>1. c \in held
  BY DEF Release
<1>2. IsFiniteSet(held \ {c}) /\ Cardinality(held \ {c}) = active - 1
  BY <1>1, FS_RemoveElement DEF Exact
<1>3. CASE waiters = <<>>
  <2>1. active' = active - 1 /\ held' = held \ {c} /\ waiters' = waiters
    BY <1>3 DEF Release
  <2>2. active - 1 \in Nat
    BY <1>2, FS_CardinalityType
  <2>3. TypeOK'
    BY <2>1, <2>2, SemaphoreAssumption DEF Exact, TypeOK
  <2> QED
    BY <1>2, <1>3, <2>1, <2>3 DEF Exact, WaitersAreApart, Waiting
<1>4. CASE waiters # <<>>
  <2>1. /\ waiters' = Tail(waiters)
        /\ held' = (held \ {c}) \cup {Head(waiters)}
        /\ active' = active
    BY <1>4 DEF Release
  <2>2. waiters \in Seq(Callers) /\ Len(waiters) \in Nat \ {0}
    BY <1>4 DEF Exact, TypeOK
  <2>3. /\ DOMAIN waiters = 1..Len(waiters)
        /\ DOMAIN waiters' = 1..(Len(waiters) - 1)
        /\ \A i \in DOMAIN waiters' : waiters'[i] = waiters[i + 1]
        /\ Head(waiters) = waiters[1]
    BY <2>1, <2>2
  <2>4. Head(waiters) \in Waiting /\ Head(waiters) \in Callers
    BY <2>2, <2>3 DEF Waiting
  <2>5. TypeOK'
    BY <2>1, <2>2, <2>4 DEF Exact, TypeOK
  <2>6. IsFiniteSet(held') /\ Cardinality(held') = active'
    <3>1. Head(waiters) \notin held \ {c}
      BY <2>4 DEF Exact, WaitersAreApart
    <3>2. /\ IsFiniteSet((held \ {c}) \cup {Head(waiters)})
          /\ Cardinality((held \ {c}) \cup {Head(waiters)}) = (active - 1) + 1
      BY <1>2, <3>1, FS_AddElement
    <3>3. active \in Int
      BY SemaphoreAssumption DEF Exact, TypeOK
    <3> QED
      BY <2>1, <3>2, <3>3
  <2>7. \A i, j \in DOMAIN waiters' : waiters'[i] = waiters'[j] => i = j
    BY <2>2, <2>3 DEF Exact, WaitersAreApart
  <2>8. Waiting' \subseteq Waiting \ {Head(waiters)}
    BY <2>2, <2>3 DEF Exact, WaitersAreApart, Waiting
  <2>9. WaitersAreApart'
    BY <2>1, <2>7, <2>8 DEF Exact, WaitersAreApart
  <2> QED
    BY <1>4, <2>1, <2>5, <2>6, <2>9 DEF Exact
<1> QED
  BY <1>3, <1>4
----------------------------------------------------------------------------
\* In every reachable state the count is exact.
THEOREM ExactHolds == Spec => []Exact
<1>1. Exact /\ [Next]_semaphore => Exact'
  <2> SUFFICES ASSUME Exact, [Next]_semaphore PROVE Exact'
    OBVIOUS
  <2>1. CASE \E c \in Callers : Acquire(c)
    BY <2>1, ExactAfterAcquire
  <2>2. CASE \E c \in Callers : Release(c)
    BY <2>2, ExactAfterRelease
  <2>3. CASE UNCHANGED semaphore
    BY <2>3 DEF semaphore, Exact, TypeOK, WaitersAreApart, Waiting
  <2> QED
    BY <2>1, <2>2, <2>3 DEF Next
<1> QED
  BY InitExact, <1>1, PTL DEF Spec

\* The semaphore of semaphore.ts keeps to its types: the count never leaves the
\* range the constructor promises.
THEOREM TypeCorrect == Spec => []TypeOK
BY ExactHolds, PTL DEF Exact

\* No permit of acquire() and release() is lost or given out twice.
THEOREM CountsOwnersHolds == Spec => []CountsOwners
<1>1. Exact => CountsOwners
  BY SemaphoreAssumption DEF Exact, TypeOK, CountsOwners
<1> QED
  BY ExactHolds, <1>1, PTL

\* The waiters of acquire() are as many as are in the queue.
LEMMA EachWaitsOnce ==
  ASSUME Exact
  PROVE  Cardinality(Waiting) = Len(waiters)
<1>1. waiters \in Seq(Callers) /\ Len(waiters) \in Nat
      /\ DOMAIN waiters = 1..Len(waiters)
  BY DEF Exact, TypeOK
<1>2. waiters \in Bijection(1..Len(waiters), Waiting)
  <2> DEFINE w == [i \in 1..Len(waiters) |-> waiters[i]]
  <2>1. waiters = w
    BY <1>1
  <2>2. w \in [1..Len(waiters) -> Waiting]
    BY <1>1 DEF Waiting
  <2>3. w \in Surjection(1..Len(waiters), Waiting)
    BY <1>1, <2>2 DEF Surjection, Waiting
  <2>4. w \in Injection(1..Len(waiters), Waiting)
    BY <1>1, <2>2 DEF Injection, IsInjective, Exact, WaitersAreApart
  <2> QED
    BY <2>1, <2>3, <2>4 DEF Bijection
<1>3. ExistsBijection(1..Len(waiters), Waiting)
  BY <1>2 DEF ExistsBijection
<1>4. IsFiniteSet(1..Len(waiters)) /\ Cardinality(1..Len(waiters)) = Len(waiters)
  BY <1>1, FS_Interval
<1> QED
  BY <1>3, <1>4, FS_Bijection

\* Whoever acquire() leaves waiting waits once, owns nothing, and finds every
\* permit given out.
THEOREM NoIdlePermitHolds == Spec => []NoIdlePermit
<1>1. Exact => NoIdlePermit
  BY EachWaitsOnce DEF Exact, WaitersAreApart, NoIdlePermit
<1> QED
  BY ExactHolds, <1>1, PTL

\* release() gives its permit to nobody but the caller that has waited longest.
LEMMA ReleaseInOrder ==
  ASSUME Exact, NEW b \in Callers, Release(b),
         NEW c \in Callers, NEW d \in Callers
  PROVE  ~Overtakes(c, d)
<1> SUFFICES ASSUME Overtakes(c, d) PROVE FALSE
  OBVIOUS
<1>1. PICK i, j \in DOMAIN waiters :
        waiters[i] = d /\ waiters[j] = c /\ i < j
  BY DEF Overtakes
<1>2. c \in Waiting /\ c \notin held /\ c \in held'
  BY DEF Overtakes, Exact, WaitersAreApart
<1>3. waiters \in Seq(Callers) /\ waiters # <<>>
  BY <1>1 DEF Exact, TypeOK
<1>4. held' = (held \ {b}) \cup {waiters[1]} /\ 1 \in DOMAIN waiters
  BY <1>3 DEF Release
<1>5. c = waiters[1]
  BY <1>2, <1>4
<1>6. j = 1
  BY <1>1, <1>4, <1>5 DEF Exact, WaitersAreApart
<1> QED
  BY <1>1, <1>3, <1>6

\* release() hands its permit to the caller that has waited longest, and
\* acquire() takes none past those who wait.
THEOREM FirstComeFirstServedHolds == Spec => FirstComeFirstServed
<1>1. Exact /\ [Next]_semaphore
        => [\A c, d \in Callers : ~Overtakes(c, d)]_semaphore
  <2> SUFFICES ASSUME Exact, Next,
                      NEW c \in Callers, NEW d \in Callers, Overtakes(c, d)
               PROVE  FALSE
    BY DEF semaphore
  <2>1. PICK i, j \in DOMAIN waiters :
          waiters[i] = d /\ waiters[j] = c /\ i < j
    BY DEF Overtakes
  <2>2. c \in Waiting /\ c \notin held /\ c \in held'
    BY DEF Overtakes, Exact, WaitersAreApart
  <2>3. ASSUME NEW b \in Callers, Acquire(b) PROVE FALSE
    <3>1. held' \subseteq held \cup {b}
      BY <2>3, AcquireAtOnce, AcquireQueues, SemaphoreAssumption
      DEF Exact, TypeOK
    <3> QED
      BY <2>2, <2>3, <3>1 DEF Acquire
  <2>4. ASSUME NEW b \in Callers, Release(b) PROVE FALSE
    BY <2>4, ReleaseInOrder
  <2> QED
    BY <2>3, <2>4 DEF Next
<1> QED
  BY ExactHolds, <1>1, PTL DEF Spec, FirstComeFirstServed
=============================================================================
