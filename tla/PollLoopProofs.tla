--------------------------- MODULE PollLoopProofs ---------------------------
(***************************************************************************)
(* What PollLoop promises, proved for any calls of start() and stop(), any *)
(* number of messages, slots and jobs.  That slots are exact holds however *)
(* the calls overlap; the rest is proved for a poller whose calls do not.  *)
(***************************************************************************)
EXTENDS PollLoop, FiniteSetTheorems, SequenceTheorems, TLAPS

Sem == INSTANCE SemaphoreProofs WITH Callers <- Jobs

\* Who owns a slot and who waits for one can be told from the jobs; jobs begin
\* in the order of their numbers.
SlotsAreTheJobs ==
  /\ held = {j \in Jobs : job[j] \in {"acquiring", "executing"}}
  /\ Sem!Waiting = {j \in Jobs : job[j] = "waiting"}
  /\ \E n \in 0..JobCount : \A j \in Jobs : job[j] = "unborn" <=> j > n

SlotInv == TypeOK /\ Sem!Exact /\ SlotsAreTheJobs

\* One loop at a time, and while it runs nothing of a shutdown.
OneLoop ==
  /\ \A l, k \in Loops :
       {loop[l], loop[k]} \cap {"idle", "resolved"} = {} => l = k
  /\ running =>
       /\ shutdownPromise = NoOne
       /\ \A l \in Loops :
            loop[l] \in {"idle", "top", "receiving", "sleeping", "resolved"}
       /\ \A s \in Stops : stop[s] \in {"idle", "resolved"}

\* The receive that is out is the one stop() sees, and the slots it was asked
\* to fill are free.
RoomIsKept ==
  /\ waiters = <<>>
  /\ activeReceive # NoOne => loop[activeReceive] = "receiving"
  /\ \A l \in Loops :
       loop[l] = "receiving" =>
         activeReceive = l /\ asked[l] + active <= MaxConcurrency

\* A stop() that has not joined the shutdown yet, or waits for it.
Stopping(s)  == stop[s] \in {"receive", "drain"}
Awaiting(s)  == stop[s] = "draining" /\ awaited[s] = shutdownPromise

\* A stopped poller: who awaits the receive that is out and the jobs in flight.
Attended ==
  /\ \A l \in Loops : loop[l] = "receiving" =>
       \E s \in Stops : stop[s] = "receive" /\ awaited[s] = l
  /\ \/ InFlight = {}
     \/ \E s \in Stops : Stopping(s)
     \/ /\ shutdownPromise # NoOne
        /\ drain[shutdownPromise] = "over" \/ \E s \in Stops : Awaiting(s)
  /\ shutdownPromise # NoOne => InFlight \subseteq snapshot[shutdownPromise]

SeqInv == SlotInv /\ OneLoop /\ RoomIsKept /\ (~running => Attended)
----------------------------------------------------------------------------
\* Slots

LEMMA Positive == MaxConcurrency \in Nat \ {0} /\ JobCount \in Nat
BY LoopAssumption

\* The poller's semaphore is one of Semaphore's.
LEMMA ReleaseKeeps ==
  ASSUME Sem!Exact, NEW j \in Jobs, Slots!Release(j)
  PROVE  Sem!Exact'
BY Sem!ExactAfterRelease, LoopAssumption
DEF Slots!Release, Sem!Release, Sem!SemaphoreAssumption

\* The jobs that have begun are the first ones.
LEMMA JobsInOrder ==
  ASSUME NEW m \in 0..JobCount, \A j \in Jobs : job[j] = "unborn" <=> j > m
  PROVE  /\ Jobs \ Unborn = 1..m /\ Unborn = m + 1..JobCount
         /\ Cardinality(Jobs \ Unborn) = m
         /\ Cardinality(Unborn) = JobCount - m
<1>1. Jobs \ Unborn = 1..m /\ Unborn = m + 1..JobCount
  BY Positive DEF Jobs, Unborn
<1>2. Cardinality(1..m) = m
  BY FS_Interval, Positive
<1>3. Cardinality(m + 1..JobCount) = JobCount - m
  <2>1. m + 1 \in Int /\ JobCount \in Int /\ m <= JobCount /\ m \in Int
    BY Positive
  <2>2. Cardinality(m + 1..JobCount)
          = IF m + 1 > JobCount THEN 0 ELSE JobCount - (m + 1) + 1
    BY <2>1, FS_Interval
  <2> QED BY <2>1, <2>2
<1> QED BY <1>1, <1>2, <1>3

\* What a receive brings: new jobs, which take the free slots in their order.
LEMMA DispatchKeeps ==
  ASSUME TypeOK, Sem!Exact, SlotsAreTheJobs,
         NEW n \in 0..Cardinality(Unborn), Dispatch(n)
  PROVE  /\ Sem!Exact'
         /\ SlotsAreTheJobs'
         /\ job' \in [Jobs -> {"unborn", "waiting", "acquiring", "executing",
                               "ended"}]
<1>1. PICK m \in 0..JobCount : \A j \in Jobs : job[j] = "unborn" <=> j > m
  BY DEF SlotsAreTheJobs
<1>2. /\ Jobs \ Unborn = 1..m /\ Unborn = m + 1..JobCount
      /\ Cardinality(Jobs \ Unborn) = m
      /\ Cardinality(Unborn) = JobCount - m
  BY <1>1, JobsInOrder
<1>3. n \in Nat /\ m \in Nat /\ JobCount \in Nat /\ m + n <= JobCount
  BY <1>2, Positive
<1> DEFINE batch == [i \in 1..n |-> m + i]
<1>4. /\ Slots!AcquireInOrder(batch)
      /\ job' = [j \in Jobs |->
                   IF j \notin m + 1 .. m + n THEN job[j]
                   ELSE IF j \in held' THEN "acquiring" ELSE "waiting"]
  BY <1>2 DEF Dispatch
<1>5. /\ batch \in Seq(Jobs) /\ Len(batch) = n
      /\ \A i \in 1..n : batch[i] = m + i
  <2>1. batch \in [1..n -> Jobs]
    BY <1>3 DEF Jobs
  <2>2. batch \in Seq(Jobs)
    BY <2>1, <1>3, SeqDef
  <2>3. DOMAIN batch = 1..n /\ DOMAIN batch = 1..Len(batch) /\ Len(batch) \in Nat
    BY <2>2, LenProperties
  <2>4. \A i \in 1..n : batch[i] = m + i
    OBVIOUS
  <2> HIDE DEF batch
  <2>5. Len(batch) = n
    BY <2>3, <1>3
  <2> QED BY <2>2, <2>4, <2>5
<1> HIDE DEF batch
<1>6. \A i, j \in 1..Len(batch) : batch[i] = batch[j] => i = j
  BY <1>3, <1>5
<1>7. \A i \in 1..n : batch[i] \in Jobs /\ job[batch[i]] = "unborn"
  BY <1>1, <1>3, <1>5 DEF Jobs
<1>8. \A i \in 1..Len(batch) : batch[i] \notin held \cup Sem!Waiting
  BY <1>5, <1>7 DEF SlotsAreTheJobs
<1>9. Sem!AcquireInOrder(batch)
  BY <1>4 DEF Slots!AcquireInOrder, Sem!AcquireInOrder, Slots!Least, Sem!Least,
              Slots!FreePermits, Sem!FreePermits
<1>10. {batch[i] : i \in 1..Len(batch)} = m + 1 .. m + n
  <2>1. \A k \in m + 1 .. m + n : k - m \in 1..n /\ m + (k - m) = k
    BY <1>3
  <2>2. \A i \in 1..n : m + i \in m + 1 .. m + n
    BY <1>3
  <2>3. \A i \in 1..Len(batch) : batch[i] \in m + 1 .. m + n
    BY <2>2, <1>5
  <2>4. ASSUME NEW k \in m + 1 .. m + n
        PROVE  \E i \in 1..Len(batch) : batch[i] = k
    <3>1. k - m \in 1..Len(batch) /\ batch[k - m] = k
      BY <2>1, <1>5
    <3> QED BY <3>1
  <2> QED BY <2>3, <2>4
<1>11. /\ Sem!Exact'
       /\ held' \subseteq held \cup (m + 1 .. m + n)
       /\ held \subseteq held'
       /\ held' \cup Sem!Waiting' = held \cup Sem!Waiting \cup (m + 1 .. m + n)
       /\ Sem!Waiting \subseteq Sem!Waiting'
  <2>1. /\ Sem!Exact'
        /\ held' \subseteq held \cup {batch[i] : i \in 1..Len(batch)}
        /\ held \subseteq held'
        /\ held' \cup Sem!Waiting'
             = held \cup Sem!Waiting \cup {batch[i] : i \in 1..Len(batch)}
        /\ Sem!Waiting \subseteq Sem!Waiting'
    BY <1>5, <1>6, <1>8, <1>9, Sem!ExactAfterAcquireInOrder, LoopAssumption
    DEF Sem!SemaphoreAssumption
  <2> QED BY <2>1, <1>10
<1>12. Sem!Waiting' \cap held' = {}
  BY <1>11 DEF Sem!Exact, Sem!WaitersAreApart
<1>13. m + 1 .. m + n \subseteq Unborn /\ m + 1 .. m + n \subseteq Jobs
  BY <1>2, <1>3 DEF Unborn
<1>14. job' \in [Jobs -> {"unborn", "waiting", "acquiring", "executing", "ended"}]
  BY <1>4 DEF TypeOK
<1>15. held' = {j \in Jobs : job'[j] \in {"acquiring", "executing"}}
  BY <1>4, <1>11, <1>13 DEF SlotsAreTheJobs, Unborn
<1>16. Sem!Waiting' = {j \in Jobs : job'[j] = "waiting"}
  BY <1>4, <1>11, <1>12, <1>13 DEF SlotsAreTheJobs, Unborn
<1>17. \E k \in 0..JobCount : \A j \in Jobs : job'[j] = "unborn" <=> j > k
  <2>1. m + n \in 0..JobCount
    BY <1>3
  <2>2. ASSUME NEW j \in Jobs PROVE job'[j] = "unborn" <=> j > m + n
    <3>1. j \in Nat /\ j <= JobCount
      BY Positive DEF Jobs
    <3>2. CASE j \in m + 1 .. m + n
      BY <3>1, <3>2, <1>3, <1>4
    <3>3. CASE j \notin m + 1 .. m + n
      <4>1. job'[j] = job[j]
        BY <3>3, <1>4
      <4>2. j > m <=> j > m + n
        BY <3>1, <3>3, <1>3
      <4> QED BY <4>1, <4>2, <1>1
    <3> QED BY <3>2, <3>3
  <2> QED BY <2>1, <2>2
<1> QED BY <1>11, <1>14, <1>15, <1>16, <1>17 DEF SlotsAreTheJobs

\* The end of a job, whose slot goes to the job that has waited longest.
LEMMA EndKeeps ==
  ASSUME TypeOK, Sem!Exact, SlotsAreTheJobs, NEW j \in Jobs, Ends(j)
  PROVE  /\ Sem!Exact'
         /\ SlotsAreTheJobs'
         /\ job' \in [Jobs -> {"unborn", "waiting", "acquiring", "executing",
                               "ended"}]
<1>1. /\ j \in held /\ Slots!Release(j)
      /\ job' = [i \in Jobs |->
                   IF i = j THEN "ended"
                   ELSE IF job[i] = "waiting" /\ i \in held' THEN "acquiring"
                   ELSE job[i]]
  BY DEF Ends, SlotsAreTheJobs
<1>2. Sem!Exact'
  BY <1>1, ReleaseKeeps
<1>3. job' \in [Jobs -> {"unborn", "waiting", "acquiring", "executing", "ended"}]
  BY <1>1 DEF TypeOK
<1>4. waiters \in Seq(Jobs) /\ Len(waiters) \in Nat
      /\ DOMAIN waiters = 1..Len(waiters)
  BY LenProperties DEF TypeOK, Slots!TypeOK
<1>5. Sem!Waiting = {waiters[i] : i \in DOMAIN waiters}
      /\ Sem!Waiting' = {waiters'[i] : i \in DOMAIN waiters'}
  BY DEF Sem!Waiting
<1>6. \/ /\ waiters = <<>> /\ waiters' = waiters /\ held' = held \ {j}
      \/ /\ waiters # <<>> /\ waiters' = Tail(waiters)
         /\ held' = (held \ {j}) \cup {Head(waiters)}
  BY <1>1 DEF Slots!Release
<1>7. CASE waiters = <<>> /\ waiters' = waiters /\ held' = held \ {j}
  <2>1. Sem!Waiting = {} /\ Sem!Waiting' = {}
    BY <1>4, <1>5, <1>7
  <2>2. job' = [i \in Jobs |-> IF i = j THEN "ended" ELSE job[i]]
    BY <1>1, <2>1 DEF SlotsAreTheJobs
  <2>3. held' = {i \in Jobs : job'[i] \in {"acquiring", "executing"}}
    BY <2>2, <1>1, <1>7 DEF SlotsAreTheJobs
  <2>4. Sem!Waiting' = {i \in Jobs : job'[i] = "waiting"}
    BY <2>1, <2>2 DEF SlotsAreTheJobs
  <2>5. \A i \in Jobs : job'[i] = "unborn" <=> job[i] = "unborn"
    BY <2>2, <1>1 DEF SlotsAreTheJobs
  <2> QED BY <2>3, <2>4, <2>5, <1>2, <1>3 DEF SlotsAreTheJobs
<1>8. CASE waiters # <<>> /\ waiters' = Tail(waiters)
           /\ held' = (held \ {j}) \cup {Head(waiters)}
  <2> DEFINE h == Head(waiters)
  <2>1. /\ Len(waiters) >= 1 /\ h = waiters[1]
        /\ DOMAIN waiters' = 1..Len(waiters) - 1
        /\ \A i \in 1..Len(waiters) - 1 : waiters'[i] = waiters[i + 1]
    BY <1>4, <1>8
  <2>2. /\ \A i, k \in DOMAIN waiters : waiters[i] = waiters[k] => i = k
        /\ Sem!Waiting \cap held = {}
    BY DEF Sem!Exact, Sem!WaitersAreApart, Sem!Waiting
  <2>3. h \in Sem!Waiting /\ h \notin held
    <3>1. 1 \in DOMAIN waiters
      BY <1>4, <2>1
    <3> QED BY <3>1, <2>1, <2>2, <1>5
  <2>4. Sem!Waiting' = Sem!Waiting \ {h}
    <3>1. ASSUME NEW x \in Sem!Waiting' PROVE x \in Sem!Waiting \ {h}
      <4>1. PICK i \in 1..Len(waiters) - 1 : x = waiters[i + 1]
        BY <2>1, <1>5
      <4>2. i + 1 \in DOMAIN waiters /\ i + 1 # 1 /\ 1 \in DOMAIN waiters
        BY <1>4, <2>1
      <4> QED BY <4>1, <4>2, <2>1, <2>2, <1>5
    <3>2. ASSUME NEW x \in Sem!Waiting, x # h PROVE x \in Sem!Waiting'
      <4>1. PICK i \in DOMAIN waiters : x = waiters[i]
        BY <1>5
      <4>2. i # 1
        BY <4>1, <3>2, <2>1
      <4>3. i - 1 \in 1..Len(waiters) - 1 /\ (i - 1) + 1 = i
        BY <4>2, <1>4
      <4> QED BY <4>1, <4>3, <2>1, <1>5
    <3> QED BY <3>1, <3>2
  <2> HIDE DEF h
  <2>5. held' = (held \ {j}) \cup {h}
    BY <1>8 DEF h
  <2>6. /\ h \in Jobs /\ job[h] = "waiting" /\ h # j
    BY <2>3, <1>1 DEF SlotsAreTheJobs
  <2>7. \A i \in Jobs : job[i] = "waiting" /\ i \in held' <=> i = h
    BY <2>5, <2>6, <2>2 DEF SlotsAreTheJobs
  <2>8. job' = [i \in Jobs |-> IF i = j THEN "ended"
                               ELSE IF i = h THEN "acquiring" ELSE job[i]]
    BY <1>1, <2>7
  <2>9. held' = {i \in Jobs : job'[i] \in {"acquiring", "executing"}}
    BY <2>5, <2>6, <2>8 DEF SlotsAreTheJobs
  <2>10. Sem!Waiting' = {i \in Jobs : job'[i] = "waiting"}
    BY <2>4, <2>6, <2>8, <1>1 DEF SlotsAreTheJobs
  <2>11. \A i \in Jobs : job'[i] = "unborn" <=> job[i] = "unborn"
    BY <2>6, <2>8, <1>1 DEF SlotsAreTheJobs
  <2> QED BY <2>9, <2>10, <2>11, <1>2, <1>3 DEF SlotsAreTheJobs
<1> QED BY <1>6, <1>7, <1>8

LEMMA ExactIsTyped == Sem!Exact => Slots!TypeOK
BY DEF Sem!Exact, Sem!TypeOK, Slots!TypeOK

LEMMA SameSlots ==
  ASSUME Sem!Exact, SlotsAreTheJobs, UNCHANGED <<job, active, waiters, held>>
  PROVE  Sem!Exact' /\ SlotsAreTheJobs'
BY DEF Sem!Exact, Sem!TypeOK, Sem!WaitersAreApart, Sem!Waiting, SlotsAreTheJobs

\* A call that begins a drain, or joins one.
LEMMA DrainTypes ==
  ASSUME TypeOK, NEW c \in Drains, ShutdownAndDrain(c)
  PROVE  /\ shutdownPromise' \in Drains \cup {NoOne}
         /\ awaited' \in [Drains -> Drains \cup {NoOne}]
         /\ drain' \in [Drains -> {"none", "grace", "cleanup", "over"}]
         /\ snapshot' \in [Drains -> SUBSET Jobs]
BY DEF ShutdownAndDrain, TypeOK, drains, InFlight
----------------------------------------------------------------------------
\* Types and slots

LEMMA InitSlots == Init => SlotInv
<1> SUFFICES ASSUME Init PROVE SlotInv
  OBVIOUS
<1>1. /\ held = {} /\ active = 0 /\ waiters = <<>>
      /\ \A j \in Jobs : job[j] = "unborn"
  BY DEF Init, Slots!Init
<1>2. Slots!TypeOK /\ Sem!TypeOK
  BY <1>1, Positive DEF Slots!TypeOK, Sem!TypeOK
<1>3. 0 \in 0..Least(MaxConcurrency, BatchSize)
  BY LoopAssumption DEF Least
<1>4. TypeOK
  BY <1>2, <1>3 DEF Init, TypeOK, Drains
<1>5. Sem!Waiting = {} /\ Sem!WaitersAreApart
  BY <1>1 DEF Sem!Waiting, Sem!WaitersAreApart
<1>6. Sem!Exact
  BY Sem!InitExact, LoopAssumption
  DEF Init, Slots!Init, Sem!Init, Sem!SemaphoreAssumption
<1>7. SlotsAreTheJobs
  <2>1. 0 \in 0..JobCount /\ \A j \in Jobs : j > 0
    BY Positive DEF Jobs
  <2> QED BY <2>1, <1>1, <1>5 DEF SlotsAreTheJobs
<1> QED BY <1>4, <1>6, <1>7 DEF SlotInv

LEMMA LoopTypes ==
  ASSUME SlotInv, NEW l \in Loops, Start(l) \/ LoopStep(l)
  PROVE  SlotInv'
<1>1. TypeOK /\ Sem!Exact /\ SlotsAreTheJobs
  BY DEF SlotInv
<1>2. active \in Nat /\ Len(waiters) \in Nat
      /\ MaxConcurrency \in Nat /\ BatchSize \in Nat
  BY <1>1, LenProperties, LoopAssumption DEF TypeOK, Slots!TypeOK
<1>3. CASE Start(l) \/ Wake(l) \/ ReceiveFails(l) \/ Returned(l)
           \/ LoopResolves(l)
  <2>1. UNCHANGED <<asked, stop, awaited, drains, jobs>>
    BY <1>3 DEF Start, Wake, ReceiveFails, Returned, LoopResolves, fields
  <2>2. /\ running' \in BOOLEAN
        /\ shutdownPromise' \in Drains \cup {NoOne}
        /\ activeReceive' \in Loops \cup {NoOne}
    BY <1>1, <1>3 DEF Start, Wake, ReceiveFails, Returned, LoopResolves, fields,
                      ReceiveSettles, TypeOK
  <2>3. loop' \in [Loops -> {"idle", "top", "receiving", "sleeping", "returning",
                             "drain", "draining", "resolved"}]
    BY <1>1, <1>3 DEF Start, Wake, ReceiveFails, Returned, LoopResolves, LoopAt,
                      TypeOK
  <2>4. Sem!Exact' /\ SlotsAreTheJobs'
    BY <2>1, <1>1, SameSlots DEF jobs
  <2>5. Slots!TypeOK'
    BY <2>1, <1>1 DEF TypeOK, Slots!TypeOK, jobs
  <2> QED BY <2>1, <2>2, <2>3, <2>4, <2>5, <1>1 DEF SlotInv, TypeOK, drains, jobs
<1>4. CASE Top(l)
  <2>1. UNCHANGED <<running, shutdownPromise, stop, awaited, drains, jobs>>
    BY <1>4 DEF Top
  <2>2. activeReceive' \in Loops \cup {NoOne}
    BY <1>1, <1>4 DEF Top, TypeOK
  <2>3. loop' \in [Loops -> {"idle", "top", "receiving", "sleeping", "returning",
                             "drain", "draining", "resolved"}]
    BY <1>1, <1>4 DEF Top, LoopAt, TypeOK
  <2>4. asked' \in [Loops -> 0..Least(MaxConcurrency, BatchSize)]
    <3>1. AvailableCapacity > 0
            => AvailableCapacity \in 0..Least(MaxConcurrency, BatchSize)
      BY <1>2 DEF AvailableCapacity, Least
    <3> QED BY <3>1, <1>1, <1>4 DEF Top, TypeOK
  <2>5. Sem!Exact' /\ SlotsAreTheJobs'
    BY <2>1, <1>1, SameSlots DEF jobs
  <2>6. Slots!TypeOK'
    BY <2>1, <1>1 DEF TypeOK, Slots!TypeOK, jobs
  <2> QED BY <2>1, <2>2, <2>3, <2>4, <2>5, <2>6, <1>1
          DEF SlotInv, TypeOK, drains, jobs
<1>5. CASE Received(l)
  <2>1. UNCHANGED <<running, shutdownPromise, asked, stop, awaited, drains>>
    BY <1>5 DEF Received
  <2>2. activeReceive' \in Loops \cup {NoOne}
    BY <1>1, <1>5 DEF Received, ReceiveSettles, TypeOK
  <2>3. loop' \in [Loops -> {"idle", "top", "receiving", "sleeping", "returning",
                             "drain", "draining", "resolved"}]
    BY <1>1, <1>5 DEF Received, LoopAt, TypeOK
  <2>4. PICK n \in 0 .. Least(asked[l], Cardinality(Unborn)) :
          UNCHANGED jobs \/ Dispatch(n)
    BY <1>5 DEF Received
  <2>5. n \in 0..Cardinality(Unborn)
    <3>1. Cardinality(Unborn) \in Nat
      <4>1. PICK m \in 0..JobCount : \A j \in Jobs : job[j] = "unborn" <=> j > m
        BY <1>1 DEF SlotsAreTheJobs
      <4>2. Cardinality(Unborn) = JobCount - m
        BY <4>1, JobsInOrder
      <4> QED BY <4>2, Positive
    <3>2. asked[l] \in Nat
      BY <1>1, <1>2 DEF TypeOK, Least
    <3> QED BY <3>1, <3>2 DEF Least
  <2>6. /\ Sem!Exact' /\ SlotsAreTheJobs'
        /\ job' \in [Jobs -> {"unborn", "waiting", "acquiring", "executing",
                              "ended"}]
        /\ aborted' = aborted
    <3>1. CASE UNCHANGED jobs
      BY <3>1, <1>1, SameSlots DEF jobs, TypeOK
    <3>2. CASE Dispatch(n)
      <4>1. aborted' = aborted
        BY <3>2 DEF Dispatch
      <4> QED BY <3>2, <4>1, <1>1, <2>5, DispatchKeeps
    <3> QED BY <2>4, <3>1, <3>2
  <2>7. Slots!TypeOK'
    BY <2>6 DEF Sem!Exact, Sem!TypeOK, Slots!TypeOK
  <2> QED BY <2>1, <2>2, <2>3, <2>6, <2>7, <1>1 DEF SlotInv, TypeOK, drains
<1>6. CASE LoopDrains(l)
  <2>1. UNCHANGED <<running, activeReceive, asked, stop, jobs>>
        /\ ShutdownAndDrain(l) /\ l \in Drains
    BY <1>6 DEF LoopDrains, Drains
  <2>2. loop' \in [Loops -> {"idle", "top", "receiving", "sleeping", "returning",
                             "drain", "draining", "resolved"}]
    BY <1>1, <1>6 DEF LoopDrains, LoopAt, TypeOK
  <2>3. /\ shutdownPromise' \in Drains \cup {NoOne}
        /\ awaited' \in [Drains -> Drains \cup {NoOne}]
        /\ drain' \in [Drains -> {"none", "grace", "cleanup", "over"}]
        /\ snapshot' \in [Drains -> SUBSET Jobs]
    BY <2>1, <1>1, DrainTypes
  <2>4. Sem!Exact' /\ SlotsAreTheJobs'
    BY <2>1, <1>1, SameSlots DEF jobs
  <2>5. Slots!TypeOK'
    BY <2>1, <1>1 DEF TypeOK, Slots!TypeOK, jobs
  <2> QED BY <2>1, <2>2, <2>3, <2>4, <2>5, <1>1 DEF SlotInv, TypeOK, jobs
<1> QED BY <1>3, <1>4, <1>5, <1>6 DEF LoopStep

LEMMA StopTypes ==
  ASSUME SlotInv, NEW s \in Stops, Stop(s) \/ StopStep(s)
  PROVE  SlotInv'
<1>1. TypeOK /\ Sem!Exact /\ SlotsAreTheJobs /\ s \in Drains
  BY DEF SlotInv, Drains
<1>2. UNCHANGED <<activeReceive, loop, asked, jobs>> /\ running' \in BOOLEAN
  BY <1>1 DEF Stop, StopStep, StopReceiveSettled, StopDrains, StopResolves,
              fields, TypeOK
<1>3. stop' \in [Stops -> {"idle", "receive", "drain", "draining", "resolved"}]
  BY <1>1 DEF Stop, StopStep, StopReceiveSettled, StopDrains, StopResolves,
              StopAt, TypeOK
<1>4. /\ shutdownPromise' \in Drains \cup {NoOne}
      /\ awaited' \in [Drains -> Drains \cup {NoOne}]
      /\ drain' \in [Drains -> {"none", "grace", "cleanup", "over"}]
      /\ snapshot' \in [Drains -> SUBSET Jobs]
  <2>1. CASE StopDrains(s)
    BY <2>1, <1>1, DrainTypes DEF StopDrains
  <2>2. CASE Stop(s) \/ StopReceiveSettled(s) \/ StopResolves(s)
    <3>1. UNCHANGED <<shutdownPromise, drains>>
      BY <2>2 DEF Stop, StopReceiveSettled, StopResolves, fields
    <3>2. awaited' \in [Drains -> Drains \cup {NoOne}]
      BY <2>2, <1>1 DEF Stop, StopReceiveSettled, StopResolves, TypeOK, Drains
    <3> QED BY <3>1, <3>2, <1>1 DEF TypeOK, drains
  <2> QED BY <2>1, <2>2 DEF StopStep
<1>5. Sem!Exact' /\ SlotsAreTheJobs'
  BY <1>1, <1>2, SameSlots DEF jobs
<1>6. Slots!TypeOK'
  BY <1>1, <1>2 DEF TypeOK, Slots!TypeOK, jobs
<1> QED BY <1>1, <1>2, <1>3, <1>4, <1>5, <1>6 DEF SlotInv, TypeOK, jobs

LEMMA DrainStepTypes ==
  ASSUME SlotInv, NEW d \in Drains, DrainStep(d)
  PROVE  SlotInv'
<1>1. TypeOK /\ Sem!Exact /\ SlotsAreTheJobs
  BY DEF SlotInv
<1>2. UNCHANGED <<fields, calls, job, active, waiters, held>>
  BY DEF DrainStep, Drained, GraceOver, CleanupOver, jobs
<1>3. /\ drain' \in [Drains -> {"none", "grace", "cleanup", "over"}]
      /\ snapshot' \in [Drains -> SUBSET Jobs]
      /\ aborted' \in [Jobs -> BOOLEAN]
  <2>1. CASE Drained(d) \/ CleanupOver(d)
    BY <2>1, <1>1 DEF Drained, CleanupOver, jobs, TypeOK
  <2>2. CASE GraceOver(d)
    <3>1. InFlight \in SUBSET Jobs
      BY DEF InFlight
    <3>2. ActiveExecutions \in SUBSET Jobs
      BY DEF ActiveExecutions
    <3>3. drain' \in [Drains -> {"none", "grace", "cleanup", "over"}]
          /\ snapshot' \in [Drains -> SUBSET Jobs]
      BY <2>2, <3>1, <1>1 DEF GraceOver, TypeOK
    <3>4. aborted' = [j \in Jobs |-> aborted[j] \/ j \in ActiveExecutions]
      BY <2>2 DEF GraceOver
    <3>5. \A j \in Jobs : (aborted[j] \/ j \in ActiveExecutions) \in BOOLEAN
      OBVIOUS
    <3> QED BY <3>3, <3>4, <3>5
  <2> QED BY <2>1, <2>2 DEF DrainStep
<1>4. Sem!Exact' /\ SlotsAreTheJobs'
  BY <1>1, <1>2, SameSlots
<1>5. Slots!TypeOK'
  BY <1>1, <1>2 DEF TypeOK, Slots!TypeOK
<1> QED BY <1>1, <1>2, <1>3, <1>4, <1>5 DEF SlotInv, TypeOK, fields, calls

LEMMA JobTypes ==
  ASSUME SlotInv, NEW j \in Jobs, Acquired(j) \/ Ends(j)
  PROVE  SlotInv'
<1>1. TypeOK /\ Sem!Exact /\ SlotsAreTheJobs
  BY DEF SlotInv
<1>2. UNCHANGED <<fields, calls, drains, aborted>>
  BY DEF Acquired, Ends
<1>3. /\ Sem!Exact' /\ SlotsAreTheJobs'
      /\ job' \in [Jobs -> {"unborn", "waiting", "acquiring", "executing",
                            "ended"}]
  <2>1. CASE Ends(j)
    BY <2>1, <1>1, EndKeeps
  <2>2. CASE Acquired(j)
    <3>1. /\ job[j] = "acquiring" /\ job' = [job EXCEPT ![j] = "executing"]
          /\ UNCHANGED <<active, waiters, held>>
      BY <2>2 DEF Acquired
    <3>2. Sem!Exact'
      BY <3>1, <1>1 DEF Sem!Exact, Sem!TypeOK, Sem!WaitersAreApart, Sem!Waiting
    <3>3. job' \in [Jobs -> {"unborn", "waiting", "acquiring", "executing",
                             "ended"}]
      BY <3>1, <1>1 DEF TypeOK
    <3>4. Sem!Waiting' = Sem!Waiting
      BY <3>1 DEF Sem!Waiting
    <3>5. SlotsAreTheJobs'
      BY <3>1, <3>4, <1>1 DEF SlotsAreTheJobs, TypeOK
    <3> QED BY <3>2, <3>3, <3>5
  <2> QED BY <2>1, <2>2
<1>4. Slots!TypeOK'
  BY <1>3 DEF Sem!Exact, Sem!TypeOK, Slots!TypeOK
<1> QED BY <1>1, <1>2, <1>3, <1>4 DEF SlotInv, TypeOK, fields, calls, drains

LEMMA StepKeepsSlots == SlotInv /\ [Next]_vars => SlotInv'
<1> SUFFICES ASSUME SlotInv, [Next]_vars PROVE SlotInv'
  OBVIOUS
<1>1. CASE UNCHANGED vars
  BY <1>1, SameSlots
  DEF vars, fields, calls, drains, jobs, SlotInv, TypeOK, Slots!TypeOK
<1> QED
  BY <1>1, LoopTypes, StopTypes, DrainStepTypes, JobTypes DEF Next

\* However start() and stop() overlap: the semaphore's count is that of the jobs
\* that hold a slot, which are those past run()'s acquire; the others in flight
\* wait for one, each once.
THEOREM SlotInvHolds == Spec => []SlotInv
<1> QED BY InitSlots, StepKeepsSlots, PTL DEF Spec

\* The steps of start(), stop(), the drain and the jobs keep to their types, for
\* every use of the poller.
THEOREM TypeCorrect == Spec => []TypeOK
<1>1. SlotInv => TypeOK
  BY DEF SlotInv
<1> QED BY <1>1, SlotInvHolds, PTL
\* Cardinality means the same in the instance.
LEMMA SameCardinality ==
  \A S : /\ Sem!Cardinality(S) = Cardinality(S)
         /\ Sem!IsFiniteSet(S) = IsFiniteSet(S)
<1>1. \A S : Sem!Cardinality(S) = Cardinality(S)
  BY DEF Sem!Cardinality, Cardinality
<1>2. \A S : Sem!IsFiniteSet(S) = IsFiniteSet(S)
  BY DEF Sem!IsFiniteSet, IsFiniteSet
<1> QED BY <1>1, <1>2

\* What the injected semaphore is for (poller.ts:112-114: the capacity ceiling).
ConcurrencyBounded ==
  /\ IsFiniteSet(ActiveExecutions)
  /\ Cardinality(ActiveExecutions) <= MaxConcurrency

\* Never do more than maxConcurrency handlers of a poller run at a time, even
\* while two of its loops receive for the same slots.
THEOREM ConcurrencyBoundedHolds == Spec => []ConcurrencyBounded
<1>1. SlotInv => ConcurrencyBounded
  <2> SUFFICES ASSUME SlotInv PROVE ConcurrencyBounded
    OBVIOUS
  <2>1. ActiveExecutions \subseteq held
    BY DEF SlotInv, SlotsAreTheJobs, ActiveExecutions
  <2>2. IsFiniteSet(held) /\ Cardinality(held) = active
    BY SameCardinality DEF SlotInv, Sem!Exact
  <2>3. /\ IsFiniteSet(ActiveExecutions)
        /\ Cardinality(ActiveExecutions) <= Cardinality(held)
    BY <2>1, <2>2, FS_Subset
  <2>4. active \in 0..MaxConcurrency
    BY DEF SlotInv, TypeOK, Slots!TypeOK
  <2>5. Cardinality(ActiveExecutions) \in Nat
    BY <2>3, FS_CardinalityType
  <2> QED BY <2>2, <2>3, <2>4, <2>5, Positive DEF ConcurrencyBounded
<1> QED BY <1>1, SlotInvHolds, PTL

\* Slots go to the jobs in the order in which their messages were received.
SlotsInOrder == [][\A c, d \in Jobs : ~Slots!Overtakes(c, d)]_vars

\* A job that waits for a slot is not passed by one that was received later,
\* neither when a job ends nor when another batch arrives.
THEOREM SlotsInOrderHolds == Spec => SlotsInOrder
<1>1. SlotInv /\ [Next]_vars => [\A c, d \in Jobs : ~Slots!Overtakes(c, d)]_vars
  <2> SUFFICES ASSUME SlotInv, Next, NEW c \in Jobs, NEW d \in Jobs,
                      Slots!Overtakes(c, d)
               PROVE  FALSE
    OBVIOUS
  <2>1. /\ TypeOK /\ Sem!Exact /\ SlotsAreTheJobs
        /\ job[c] = "waiting" /\ c \notin held /\ c \in held'
    BY DEF SlotInv, Slots!Overtakes, Slots!Waiting, Sem!Waiting,
           SlotsAreTheJobs
  <2>2. ASSUME NEW j \in Jobs, Ends(j) PROVE FALSE
    <3>1. Sem!Release(j)
      BY <2>2 DEF Ends, Slots!Release, Sem!Release
    <3>2. Sem!Overtakes(c, d)
      BY DEF Slots!Overtakes, Sem!Overtakes, Slots!Waiting, Sem!Waiting
    <3> QED BY <3>1, <3>2, <2>1, Sem!ReleaseInOrder, LoopAssumption
            DEF Sem!SemaphoreAssumption
  <2>3. ASSUME NEW n \in 0..Cardinality(Unborn), Dispatch(n) PROVE FALSE
    <3>1. PICK m \in 0..JobCount :
            \A j \in Jobs : job[j] = "unborn" <=> j > m
      BY <2>1 DEF SlotsAreTheJobs
    <3>2. Cardinality(Jobs \ Unborn) = m
      BY <3>1, JobsInOrder
    <3>3. c \notin m + 1 .. m + n
      BY <3>1, <2>1 DEF Jobs
    <3>4. job'[c] = "waiting"
      BY <3>2, <3>3, <2>1, <2>3 DEF Dispatch
    <3>5. SlotsAreTheJobs'
      BY <2>1, <2>3, DispatchKeeps
    <3> QED BY <3>4, <3>5, <2>1 DEF SlotsAreTheJobs
  <2>4. ASSUME NEW l \in Loops, Received(l) PROVE FALSE
    <3>1. PICK n \in 0 .. Least(asked[l], Cardinality(Unborn)) :
            UNCHANGED jobs \/ Dispatch(n)
      BY <2>4 DEF Received
    <3>2. CASE UNCHANGED jobs
      BY <3>2, <2>1 DEF jobs
    <3>3. CASE Dispatch(n)
      <4>1. n \in 0..Cardinality(Unborn)
        <5>1. PICK m \in 0..JobCount :
                \A j \in Jobs : job[j] = "unborn" <=> j > m
          BY <2>1 DEF SlotsAreTheJobs
        <5>2. Cardinality(Unborn) = JobCount - m
          BY <5>1, JobsInOrder
        <5>3. Cardinality(Unborn) \in Nat /\ asked[l] \in Nat
          BY <5>2, <2>1, Positive, LoopAssumption DEF TypeOK, Least
        <5> QED BY <5>3 DEF Least
      <4> QED BY <4>1, <3>3, <2>3
    <3> QED BY <3>1, <3>2, <3>3
  <2>5. CASE UNCHANGED held
    BY <2>5, <2>1
  <2>6. ASSUME NEW l \in Loops, Start(l) \/ (LoopStep(l) /\ ~Received(l))
        PROVE  UNCHANGED held
    BY <2>6 DEF Start, LoopStep, Top, Wake, ReceiveFails, Returned, LoopDrains,
               LoopResolves, jobs
  <2>7. ASSUME NEW s \in Stops, Stop(s) \/ StopStep(s) PROVE UNCHANGED held
    BY <2>7 DEF Stop, StopStep, StopReceiveSettled, StopDrains, StopResolves,
               jobs
  <2>8. ASSUME NEW e \in Drains, DrainStep(e) PROVE UNCHANGED held
    BY <2>8 DEF DrainStep, Drained, GraceOver, CleanupOver, jobs
  <2>9. ASSUME NEW j \in Jobs, Acquired(j) PROVE UNCHANGED held
    BY <2>9 DEF Acquired
  <2> QED BY <2>2, <2>4, <2>5, <2>6, <2>7, <2>8, <2>9 DEF Next
<1> QED BY <1>1, SlotInvHolds, PTL DEF Spec, SlotsInOrder
----------------------------------------------------------------------------
\* One call at a time

\* What was asked for still fits when it comes, and so nobody waits.
LEMMA DispatchFits ==
  ASSUME TypeOK, SlotsAreTheJobs, NEW n \in 0..Cardinality(Unborn),
         waiters = <<>>, active + n <= MaxConcurrency, Dispatch(n)
  PROVE  waiters' = <<>>
<1>1. PICK m \in 0..JobCount : \A j \in Jobs : job[j] = "unborn" <=> j > m
  BY DEF SlotsAreTheJobs
<1>2. /\ Cardinality(Jobs \ Unborn) = m /\ Cardinality(Unborn) = JobCount - m
  BY <1>1, JobsInOrder
<1>3. n \in Nat /\ m \in Nat /\ active \in Nat /\ MaxConcurrency \in Nat
  BY <1>2, Positive DEF TypeOK, Slots!TypeOK
<1> DEFINE batch == [i \in 1..n |-> m + i]
<1>4. Slots!AcquireInOrder(batch)
  BY <1>2 DEF Dispatch
<1>5. Len(batch) = n /\ batch \in Seq(Nat)
  <2>1. batch \in [1..n -> Nat]
    BY <1>3
  <2>2. batch \in Seq(Nat)
    BY <2>1, <1>3, SeqDef
  <2>3. DOMAIN batch = 1..n /\ DOMAIN batch = 1..Len(batch) /\ Len(batch) \in Nat
    BY <2>2, LenProperties
  <2> HIDE DEF batch
  <2> QED BY <2>2, <2>3, <1>3
<1> HIDE DEF batch
<1>6. Slots!Least(Len(batch), Slots!FreePermits) = n
  BY <1>3, <1>5 DEF Slots!Least, Slots!FreePermits
<1>7. waiters' = waiters \o SubSeq(batch, n + 1, Len(batch))
  BY <1>4, <1>6, Zenon DEF Slots!AcquireInOrder
<1>8. SubSeq(batch, n + 1, n) = <<>>
  BY <1>3, SubSeqEmpty
<1>9. waiters \in Seq(Nat)
  BY EmptySeq
<1> QED BY <1>5, <1>7, <1>8, <1>9, ConcatEmptySeq

\* A loop that has begun and not resolved stays the only one.
LEMMA StaysAlone ==
  ASSUME TypeOK, OneLoop, NEW l \in Loops, NEW p, LoopAt(l, p),
         loop[l] \notin {"idle", "resolved"}
  PROVE  /\ \A k \in Loops \ {l} : loop'[k] = loop[k]
                                   /\ loop[k] \in {"idle", "resolved"}
         /\ loop'[l] = p
         /\ \A i, k \in Loops :
              {loop'[i], loop'[k]} \cap {"idle", "resolved"} = {} => i = k
<1>1. \A k \in Loops : loop'[k] = IF k = l THEN p ELSE loop[k]
  BY DEF LoopAt, TypeOK
<1>2. \A k \in Loops \ {l} : loop[k] \in {"idle", "resolved"}
  BY DEF OneLoop
<1> QED BY <1>1, <1>2

\* Jobs end, and no others come: who is attended stays attended.
LEMMA FewerInFlight ==
  ASSUME InFlight' \subseteq InFlight, UNCHANGED <<fields, calls, drains>>,
         Attended
  PROVE  Attended'
BY DEF Attended, Stopping, Awaiting, fields, calls, drains

LEMMA StartKeeps ==
  ASSUME SeqInv, ~Overlap, NEW l \in Loops, Start(l)
  PROVE  OneLoop' /\ RoomIsKept' /\ running'
<1>1. /\ Settled /\ running' = TRUE /\ shutdownPromise' = NoOne
      /\ LoopAt(l, "top")
      /\ UNCHANGED <<activeReceive, asked, stop, awaited, drains, jobs>>
  BY DEF Start
<1>2. \A k \in Loops : loop'[k] = IF k = l THEN "top" ELSE loop[k]
  BY <1>1 DEF LoopAt, SeqInv, SlotInv, TypeOK
<1>3. \A k \in Loops : loop[k] \in {"idle", "resolved"}
  BY <1>1 DEF Settled
<1>4. OneLoop'
  BY <1>1, <1>2, <1>3 DEF OneLoop, Settled
<1>5. activeReceive = NoOne
  BY <1>3 DEF SeqInv, SlotInv, TypeOK, RoomIsKept
<1>6. RoomIsKept'
  BY <1>1, <1>2, <1>3, <1>5 DEF SeqInv, RoomIsKept, jobs
<1> QED BY <1>1, <1>4, <1>6

LEMMA TopKeeps ==
  ASSUME SeqInv, NEW l \in Loops, Top(l)
  PROVE  OneLoop' /\ RoomIsKept' /\ (~running' => Attended')
<1>1. /\ TypeOK /\ OneLoop /\ RoomIsKept /\ (~running => Attended)
      /\ loop[l] = "top"
      /\ UNCHANGED <<running, shutdownPromise, stop, awaited, drains, jobs>>
  BY DEF Top, SeqInv, SlotInv
<1>2. active \in Nat /\ MaxConcurrency \in Nat /\ BatchSize \in Nat
      /\ waiters = <<>>
  BY <1>1, LoopAssumption DEF TypeOK, Slots!TypeOK, RoomIsKept
<1>3. CASE ~running /\ LoopAt(l, "drain") /\ UNCHANGED <<asked, activeReceive>>
  <2>1. /\ \A k \in Loops \ {l} : loop'[k] = loop[k]
                                  /\ loop[k] \in {"idle", "resolved"}
        /\ loop'[l] = "drain"
        /\ \A i, k \in Loops :
             {loop'[i], loop'[k]} \cap {"idle", "resolved"} = {} => i = k
    BY <1>1, <1>3, StaysAlone
  <2>2. OneLoop'
    BY <2>1, <1>1, <1>3 DEF OneLoop
  <2>3. RoomIsKept'
    BY <2>1, <1>1, <1>3 DEF RoomIsKept, jobs, TypeOK
  <2>4. Attended'
    BY <2>1, <1>1, <1>3
    DEF Attended, Stopping, Awaiting, drains, jobs, InFlight
  <2> QED BY <2>2, <2>3, <2>4
<1>4. CASE running /\ LoopAt(l, "sleeping") /\ UNCHANGED <<asked, activeReceive>>
  <2>1. /\ \A k \in Loops \ {l} : loop'[k] = loop[k]
                                  /\ loop[k] \in {"idle", "resolved"}
        /\ loop'[l] = "sleeping"
        /\ \A i, k \in Loops :
             {loop'[i], loop'[k]} \cap {"idle", "resolved"} = {} => i = k
    BY <1>1, <1>4, StaysAlone
  <2>2. OneLoop'
    BY <2>1, <1>1, <1>4 DEF OneLoop
  <2>3. RoomIsKept'
    BY <2>1, <1>1, <1>4 DEF RoomIsKept, jobs, TypeOK
  <2> QED BY <2>2, <2>3, <1>1, <1>4
<1>5. CASE /\ running /\ AvailableCapacity > 0
           /\ LoopAt(l, "receiving")
           /\ asked' = [asked EXCEPT ![l] = AvailableCapacity]
           /\ activeReceive' = l
  <2>1. /\ \A k \in Loops \ {l} : loop'[k] = loop[k]
                                  /\ loop[k] \in {"idle", "resolved"}
        /\ loop'[l] = "receiving"
        /\ \A i, k \in Loops :
             {loop'[i], loop'[k]} \cap {"idle", "resolved"} = {} => i = k
    BY <1>1, <1>5, StaysAlone
  <2>2. OneLoop'
    BY <2>1, <1>1, <1>5 DEF OneLoop
  <2>3. asked'[l] + active <= MaxConcurrency
    <3>1. Len(waiters) = 0
      BY <1>2, EmptySeq
    <3>2. AvailableCapacity \in Int
          /\ AvailableCapacity + active <= MaxConcurrency
      BY <3>1, <1>2 DEF AvailableCapacity, Least
    <3>3. asked'[l] = AvailableCapacity
      BY <1>1, <1>5 DEF TypeOK
    <3> QED BY <3>2, <3>3
  <2>4. RoomIsKept'
    BY <2>1, <2>3, <1>1, <1>5 DEF RoomIsKept, jobs
  <2> QED BY <2>2, <2>4, <1>1, <1>5
<1> QED BY <1>3, <1>4, <1>5 DEF Top

\* The steps that leave the receive alone or end it, and bring no jobs.
LEMMA QuietLoopSteps ==
  ASSUME SeqInv, NEW l \in Loops, NEW p, LoopAt(l, p),
         loop[l] \in {"sleeping", "receiving", "returning", "draining"},
         p \in {"top", "sleeping", "returning", "drain", "resolved"},
         running => p \in {"top", "sleeping"} /\ loop[l] # "draining",
         ReceiveSettles(l),
         UNCHANGED <<running, shutdownPromise, asked, stop, awaited, drains, jobs>>
  PROVE  OneLoop' /\ RoomIsKept' /\ (~running' => Attended')
<1>1. /\ TypeOK /\ OneLoop /\ RoomIsKept /\ (~running => Attended)
  BY DEF SeqInv, SlotInv
<1>2. /\ \A k \in Loops \ {l} : loop'[k] = loop[k]
                                /\ loop[k] \in {"idle", "resolved"}
      /\ loop'[l] = p
      /\ \A i, k \in Loops :
           {loop'[i], loop'[k]} \cap {"idle", "resolved"} = {} => i = k
  BY <1>1, StaysAlone
<1>3. OneLoop'
  BY <1>1, <1>2 DEF OneLoop
<1>4. activeReceive' = NoOne
  BY <1>1, <1>2 DEF RoomIsKept, ReceiveSettles, TypeOK
<1>5. RoomIsKept'
  BY <1>1, <1>2, <1>4 DEF RoomIsKept, jobs
<1>6. ~running => Attended'
  BY <1>1, <1>2 DEF Attended, Stopping, Awaiting, drains, jobs, InFlight
<1> QED BY <1>3, <1>5, <1>6

LEMMA ReceivedKeeps ==
  ASSUME SeqInv, NEW l \in Loops, Received(l)
  PROVE  OneLoop' /\ RoomIsKept' /\ (~running' => Attended')
<1>1. /\ TypeOK /\ SlotsAreTheJobs /\ OneLoop /\ RoomIsKept
      /\ loop[l] = "receiving" /\ ReceiveSettles(l)
      /\ UNCHANGED <<running, shutdownPromise, asked, stop, awaited, drains>>
  BY DEF Received, SeqInv, SlotInv
<1>2. PICK n \in 0 .. Least(asked[l], Cardinality(Unborn)) :
        \/ /\ ~running
           /\ LoopAt(l, "returning")
           /\ UNCHANGED jobs
        \/ /\ running
           /\ LoopAt(l, "top")
           /\ Dispatch(n)
  BY DEF Received
<1>3. CASE ~running /\ LoopAt(l, "returning") /\ UNCHANGED jobs
  BY <1>1, <1>3, QuietLoopSteps
<1>4. CASE running /\ LoopAt(l, "top") /\ Dispatch(n)
  <2>1. /\ \A k \in Loops \ {l} : loop'[k] = loop[k]
                                  /\ loop[k] \in {"idle", "resolved"}
        /\ loop'[l] = "top"
        /\ \A i, k \in Loops :
             {loop'[i], loop'[k]} \cap {"idle", "resolved"} = {} => i = k
    BY <1>1, <1>4, StaysAlone
  <2>2. OneLoop'
    BY <2>1, <1>1, <1>4 DEF OneLoop
  <2>3. n \in 0..Cardinality(Unborn) /\ active + n <= MaxConcurrency
    <3>1. PICK m \in 0..JobCount : \A j \in Jobs : job[j] = "unborn" <=> j > m
      BY <1>1 DEF SlotsAreTheJobs
    <3>2. Cardinality(Unborn) = JobCount - m
      BY <3>1, JobsInOrder
    <3>3. Cardinality(Unborn) \in Nat
      BY <3>2, Positive
    <3>4. /\ asked[l] \in Nat /\ active \in Nat /\ MaxConcurrency \in Nat
          /\ asked[l] + active <= MaxConcurrency
      BY <1>1, LoopAssumption DEF TypeOK, Slots!TypeOK, Least, RoomIsKept
    <3> QED BY <3>3, <3>4 DEF Least
  <2>4. waiters' = <<>>
    BY <2>3, <1>1, <1>4, DispatchFits DEF RoomIsKept
  <2>5. activeReceive' = NoOne
    BY <1>1 DEF RoomIsKept, ReceiveSettles
  <2>6. RoomIsKept'
    BY <2>1, <2>4, <2>5 DEF RoomIsKept
  <2> QED BY <2>2, <2>6, <1>1, <1>4
<1> QED BY <1>2, <1>3, <1>4
LEMMA LoopDrainsKeeps ==
  ASSUME SeqInv, NEW l \in Loops, LoopDrains(l)
  PROVE  OneLoop' /\ RoomIsKept' /\ (~running' => Attended')
<1>1. /\ TypeOK /\ OneLoop /\ RoomIsKept /\ (~running => Attended)
      /\ loop[l] = "drain" /\ LoopAt(l, "draining") /\ ShutdownAndDrain(l)
      /\ UNCHANGED <<running, activeReceive, asked, stop, jobs>>
  BY DEF LoopDrains, SeqInv, SlotInv
<1>2. /\ \A k \in Loops \ {l} : loop'[k] = loop[k]
                                /\ loop[k] \in {"idle", "resolved"}
      /\ loop'[l] = "draining"
      /\ \A i, k \in Loops :
           {loop'[i], loop'[k]} \cap {"idle", "resolved"} = {} => i = k
  BY <1>1, StaysAlone
<1>3. ~running
  BY <1>1 DEF OneLoop
<1>4. OneLoop'
  BY <1>1, <1>2, <1>3 DEF OneLoop
<1>5. RoomIsKept'
  BY <1>1, <1>2 DEF RoomIsKept, jobs, TypeOK
<1>6. /\ InFlight' = InFlight
      /\ \A s \in Stops : awaited'[s] = awaited[s]
      /\ l \in Drains /\ NoOne \notin Drains
  <2>1. \A s \in Stops : s # l /\ s \in Drains
    BY LoopAssumption DEF Drains
  <2>2. \A s \in Stops : awaited'[s] = awaited[s]
    BY <2>1, <1>1 DEF ShutdownAndDrain, TypeOK
  <2> QED BY <2>2, <1>1, LoopAssumption DEF InFlight, jobs, Drains
<1>7. CASE shutdownPromise = NoOne
  <2>1. /\ shutdownPromise' = l
        /\ drain'[l] = IF InFlight = {} THEN "over" ELSE "grace"
        /\ snapshot'[l] = InFlight
    BY <1>1, <1>6, <1>7 DEF ShutdownAndDrain, TypeOK
  <2> QED BY <2>1, <1>1, <1>2, <1>3, <1>4, <1>5, <1>6, <1>7
          DEF Attended, Stopping, Awaiting
<1>8. CASE shutdownPromise # NoOne
  <2>1. UNCHANGED <<shutdownPromise, drains>>
    BY <1>1, <1>8 DEF ShutdownAndDrain
  <2> QED BY <2>1, <1>1, <1>2, <1>3, <1>4, <1>5, <1>6
          DEF Attended, Stopping, Awaiting, drains
<1> QED BY <1>7, <1>8

LEMMA LoopStepKeeps ==
  ASSUME SeqInv, NEW l \in Loops, LoopStep(l)
  PROVE  OneLoop' /\ RoomIsKept' /\ (~running' => Attended')
<1>1. /\ TypeOK /\ OneLoop /\ RoomIsKept /\ l # NoOne
  BY LoopAssumption DEF SeqInv, SlotInv
<1>2. CASE Wake(l) \/ Returned(l) \/ LoopResolves(l)
  <2>1. PICK p \in {"top", "drain", "resolved"} :
          /\ LoopAt(l, p)
          /\ loop[l] \in {"sleeping", "returning", "draining"}
          /\ running => p = "top" /\ loop[l] # "draining"
    BY <1>1, <1>2 DEF Wake, Returned, LoopResolves, OneLoop
  <2>2. UNCHANGED <<fields, asked, stop, awaited, drains, jobs>>
    BY <1>2 DEF Wake, Returned, LoopResolves
  <2>3. ReceiveSettles(l)
    BY <2>1, <2>2, <1>1 DEF ReceiveSettles, RoomIsKept, fields
  <2> QED BY <2>1, <2>2, <2>3, QuietLoopSteps DEF fields
<1>3. CASE ReceiveFails(l)
  BY <1>3, QuietLoopSteps DEF ReceiveFails
<1> QED BY <1>2, <1>3, TopKeeps, ReceivedKeeps, LoopDrainsKeeps DEF LoopStep

\* stop() is called while the poller runs, or again after it has stopped.
LEMMA StopKeeps ==
  ASSUME SeqInv, NEW s \in Stops, Stop(s)
  PROVE  OneLoop' /\ RoomIsKept' /\ (~running' => Attended')
<1>1. /\ TypeOK /\ OneLoop /\ RoomIsKept /\ (~running => Attended)
      /\ stop[s] = "idle" /\ running' = FALSE
      /\ StopAt(s, IF activeReceive = NoOne THEN "drain" ELSE "receive")
      /\ awaited' = [awaited EXCEPT ![s] = activeReceive]
      /\ UNCHANGED <<activeReceive, shutdownPromise, loop, asked, drains, jobs>>
      /\ s \in Drains
  BY DEF Stop, SeqInv, SlotInv, Drains
<1>2. OneLoop' /\ RoomIsKept'
  BY <1>1 DEF OneLoop, RoomIsKept, jobs
<1>3. /\ stop'[s] = IF activeReceive = NoOne THEN "drain" ELSE "receive"
      /\ awaited'[s] = activeReceive
      /\ \A t \in Stops \ {s} : stop'[t] = stop[t] /\ awaited'[t] = awaited[t]
  BY <1>1 DEF StopAt, TypeOK, Drains
<1>4. ASSUME NEW l \in Loops, loop[l] = "receiving"
      PROVE  stop'[s] = "receive" /\ awaited'[s] = l
  BY <1>1, <1>3, <1>4, LoopAssumption DEF RoomIsKept
<1>5. Stopping(s)'
  BY <1>3 DEF Stopping
<1>6. shutdownPromise # NoOne => InFlight \subseteq snapshot[shutdownPromise]
  BY <1>1 DEF OneLoop, Attended
<1>7. Attended'
  BY <1>1, <1>4, <1>5, <1>6 DEF Attended, drains, jobs, InFlight
<1> QED BY <1>2, <1>7

LEMMA StopStepKeeps ==
  ASSUME SeqInv, NEW s \in Stops, StopStep(s)
  PROVE  OneLoop' /\ RoomIsKept' /\ (~running' => Attended')
<1>1. /\ TypeOK /\ OneLoop /\ RoomIsKept /\ (~running => Attended)
      /\ s \in Drains /\ NoOne \notin Drains
      /\ stop[s] \in {"receive", "drain", "draining"}
      /\ UNCHANGED <<running, activeReceive, loop, asked, jobs>>
  BY LoopAssumption
  DEF SeqInv, SlotInv, Drains, StopStep, StopReceiveSettled, StopDrains,
      StopResolves, fields
<1>2. ~running /\ Attended
  BY <1>1 DEF OneLoop
<1>3. /\ RoomIsKept' /\ OneLoop' /\ InFlight' = InFlight
  BY <1>1, <1>2 DEF OneLoop, RoomIsKept, jobs, InFlight
<1>4. CASE StopReceiveSettled(s)
  <2>1. /\ stop'[s] = "drain" /\ loop[awaited[s]] # "receiving"
        /\ \A t \in Stops \ {s} : stop'[t] = stop[t] /\ awaited'[t] = awaited[t]
        /\ UNCHANGED <<fields, loop, asked, drains, jobs>>
    BY <1>1, <1>4 DEF StopReceiveSettled, StopAt, TypeOK, Drains
  <2>2. \A l \in Loops : loop'[l] = "receiving" =>
          \E t \in Stops : stop'[t] = "receive" /\ awaited'[t] = l
    BY <2>1, <1>1, <1>2 DEF Attended
  <2>3. Stopping(s)'
    BY <2>1 DEF Stopping
  <2> QED BY <2>1, <2>2, <2>3, <1>2, <1>3 DEF Attended, fields, drains
<1>5. CASE StopDrains(s)
  <2>1. /\ stop[s] = "drain" /\ stop'[s] = "draining"
        /\ \A t \in Stops \ {s} : stop'[t] = stop[t] /\ awaited'[t] = awaited[t]
        /\ ShutdownAndDrain(s)
    BY <1>1, <1>5 DEF StopDrains, StopAt, ShutdownAndDrain, TypeOK, Drains
  <2>2. \A l \in Loops : loop'[l] = "receiving" =>
          \E t \in Stops : stop'[t] = "receive" /\ awaited'[t] = l
    BY <2>1, <1>1, <1>2 DEF Attended
  <2>3. /\ awaited'[s] = shutdownPromise' /\ shutdownPromise' # NoOne
        /\ InFlight \subseteq snapshot'[shutdownPromise']
    <3>1. CASE shutdownPromise = NoOne
      BY <3>1, <2>1, <1>1 DEF ShutdownAndDrain, TypeOK
    <3>2. CASE shutdownPromise # NoOne
      BY <3>2, <2>1, <1>1, <1>2 DEF ShutdownAndDrain, TypeOK, Attended, drains
    <3> QED BY <3>1, <3>2
  <2>4. Awaiting(s)'
    BY <2>1, <2>3 DEF Awaiting
  <2> QED BY <2>2, <2>3, <2>4, <1>3 DEF Attended
<1>6. CASE StopResolves(s)
  <2>1. /\ stop[s] = "draining" /\ drain[awaited[s]] = "over"
        /\ stop'[s] = "resolved"
        /\ \A t \in Stops \ {s} : stop'[t] = stop[t]
        /\ UNCHANGED <<fields, loop, asked, awaited, drains, jobs>>
    BY <1>1, <1>6 DEF StopResolves, StopAt, TypeOK
  <2>2. \A l \in Loops : loop'[l] = "receiving" =>
          \E t \in Stops : stop'[t] = "receive" /\ awaited'[t] = l
    BY <2>1, <1>1, <1>2 DEF Attended
  <2>3. \A t \in Stops \ {s} :
          (Stopping(t) => Stopping(t)') /\ (Awaiting(t) => Awaiting(t)')
    BY <2>1 DEF Stopping, Awaiting, fields
  <2>4. ~Stopping(s) /\ (Awaiting(s) => drain[shutdownPromise] = "over")
    BY <2>1 DEF Stopping, Awaiting
  <2> QED BY <2>1, <2>2, <2>3, <2>4, <1>2, <1>3 DEF Attended, fields, drains
<1> QED BY <1>4, <1>5, <1>6 DEF StopStep

LEMMA DrainStepKeeps ==
  ASSUME SeqInv, NEW d \in Drains, DrainStep(d)
  PROVE  OneLoop' /\ RoomIsKept' /\ (~running' => Attended')
<1>1. /\ TypeOK /\ OneLoop /\ RoomIsKept /\ (~running => Attended)
      /\ UNCHANGED <<fields, calls, job, active, waiters, held>>
      /\ drain[d] \in {"grace", "cleanup"}
  BY DEF SeqInv, SlotInv, DrainStep, Drained, GraceOver, CleanupOver, jobs
<1>2. OneLoop' /\ RoomIsKept' /\ InFlight' = InFlight
  BY <1>1 DEF OneLoop, RoomIsKept, fields, calls, InFlight
<1>3. \A e \in Drains : /\ drain[e] = "over" => drain'[e] = "over"
                        /\ InFlight \subseteq snapshot[e] =>
                             InFlight \subseteq snapshot'[e]
  BY <1>1 DEF DrainStep, Drained, GraceOver, CleanupOver, TypeOK
<1>4. shutdownPromise \in Drains \cup {NoOne}
  BY <1>1 DEF TypeOK
<1>5. \A s \in Stops :
        (Stopping(s) => Stopping(s)') /\ (Awaiting(s) => Awaiting(s)')
  BY <1>1 DEF Stopping, Awaiting, fields, calls
<1> QED BY <1>1, <1>2, <1>3, <1>4, <1>5 DEF Attended, fields, calls

\* A job that ends frees a slot, and there is nobody to give it to.
LEMMA JobKeeps ==
  ASSUME SeqInv, NEW j \in Jobs, Acquired(j) \/ Ends(j)
  PROVE  OneLoop' /\ RoomIsKept' /\ (~running' => Attended')
<1>1. /\ TypeOK /\ OneLoop /\ RoomIsKept /\ (~running => Attended)
      /\ UNCHANGED <<fields, calls, drains>>
  BY DEF SeqInv, SlotInv, Acquired, Ends
<1>2. waiters' = <<>> /\ active' \in {active, active - 1}
  BY <1>1 DEF Acquired, Ends, Slots!Release, RoomIsKept
<1>3. active \in Nat /\ MaxConcurrency \in Nat /\ \A l \in Loops : asked[l] \in Nat
  BY <1>1, LoopAssumption DEF TypeOK, Slots!TypeOK, Least
<1>4. OneLoop'
  BY <1>1 DEF OneLoop, fields, calls
<1>5. RoomIsKept'
  BY <1>1, <1>2, <1>3 DEF RoomIsKept, fields, calls
<1>6. InFlight' \subseteq InFlight
  BY <1>1 DEF Acquired, Ends, InFlight, TypeOK
<1> QED BY <1>1, <1>4, <1>5, <1>6, FewerInFlight DEF fields

LEMMA InitSeq == Init => SeqInv
<1> SUFFICES ASSUME Init PROVE SeqInv
  OBVIOUS
<1>1. OneLoop
  BY DEF Init, OneLoop
<1>2. RoomIsKept
  BY DEF Init, RoomIsKept, Slots!Init
<1>3. Attended
  <2>1. InFlight = {}
    BY DEF Init, InFlight
  <2> QED BY <2>1 DEF Init, Attended
<1> QED BY <1>1, <1>2, <1>3, InitSlots DEF SeqInv

LEMMA StepKeepsSeq == ~Overlap /\ SeqInv /\ [Next]_vars => SeqInv'
<1> SUFFICES ASSUME ~Overlap, SeqInv, [Next]_vars PROVE SeqInv'
  OBVIOUS
<1>1. SlotInv'
  BY StepKeepsSlots DEF SeqInv
<1>2. CASE UNCHANGED vars
  <2>1. OneLoop' /\ RoomIsKept'
    BY <1>2 DEF SeqInv, OneLoop, RoomIsKept, vars, fields, calls, jobs
  <2>2. ~running' => Attended'
    BY <1>2 DEF SeqInv, Attended, Stopping, Awaiting, InFlight, vars, fields,
                calls, drains, jobs
  <2> QED BY <1>1, <2>1, <2>2 DEF SeqInv
<1>3. CASE Next
  <2>1. OneLoop' /\ RoomIsKept' /\ (~running' => Attended')
    BY <1>3, StartKeeps, LoopStepKeeps, StopKeeps, StopStepKeeps,
       DrainStepKeeps, JobKeeps DEF Next
  <2> QED BY <1>1, <2>1 DEF SeqInv
<1> QED BY <1>2, <1>3

\* While start() and stop() are called one at a time, at most one loop polls, the
\* slots its receive was asked to fill stay free, and a stopped poller's jobs
\* are waited for by somebody until the last deadline (poller.ts's fields
\* running, activeReceive and shutdownPromise tell stop() what to wait for).
THEOREM SeqInvHolds == ASSUME ~Overlap PROVE Spec => []SeqInv
<1>1. SeqInv /\ [Next]_vars => SeqInv'
  BY StepKeepsSeq
<1> QED BY <1>1, InitSeq, PTL DEF Spec

\* The capacity read before a receive still stands when its messages come: no
\* job waits for a slot while the visibility timeout of its message runs.
THEOREM NeverWaitsHolds == ASSUME ~Overlap PROVE Spec => []NeverWaits
<1>1. SeqInv => NeverWaits
  BY DEF SeqInv, RoomIsKept, NeverWaits
<1> QED BY <1>1, SeqInvHolds, PTL

\* Once every stop() has resolved, and until the next start(), no receive is out
\* and what is in flight was waited for until the drain's last deadline.
THEOREM StoppedIsQuietHolds == ASSUME ~Overlap PROVE Spec => []StoppedIsQuiet
<1>1. SeqInv => StoppedIsQuiet
  BY DEF SeqInv, Attended, Stopping, Awaiting, StoppedIsQuiet
<1> QED BY <1>1, SeqInvHolds, PTL
=============================================================================
