------------------------ MODULE MetricsBufferProofs ------------------------
(***************************************************************************)
(* What MetricsBuffer promises, proved for every size of event, batch and  *)
(* buffer, and for any number of calls of close().                         *)
(***************************************************************************)
EXTENDS MetricsBuffer, SequenceTheorems, TLAPS

\* A batch was buffered before, so that giving it back drops no more than what
\* has come since; it is empty unless it is under way.
BatchFits ==
  /\ Len(batch) <= MaxPendingMetrics
  /\ activeFlush # "sending" => batch = <<>>

\* What a call of close() knows of the flush it awaits.
Joined(c) ==
  /\ closing[c] # "none" => closed
  /\ closing[c] = "waiting" =>
       activeFlush # "none" /\ (activeFlush = "resolved" => Waiting = <<>>)
  /\ closing[c] = "late" => activeFlush \in {"resolved", "rejected"}

BufferInv ==
  /\ TypeOK
  /\ BatchFits
  /\ EveryPointCounted
  /\ NothingStranded
  /\ \A c \in Closers : Joined(c)
----------------------------------------------------------------------------
\* Sequences

\* The points of an event, as OnEvent numbers them.
New(n) == [i \in 1..n |-> recorded + i]

\* s begins as t does and is shorter by `over`.
Shortens(s, t, over) ==
  /\ Len(s) + over = Len(t)
  /\ \A i \in 1..Len(s) : s[i] = t[i]

\* What is taken and what is left are all that waited, in its order.
LEMMA TakenAndLeft ==
  ASSUME NEW S, NEW points \in Seq(S)
  PROVE  /\ Taken(points) \in Seq(S) /\ Left(points) \in Seq(S)
         /\ Len(Taken(points)) <= MaxBatchSize
         /\ Len(Taken(points)) + Len(Left(points)) = Len(points)
         /\ Taken(points) \o Left(points) = points
         /\ points = <<>> => Taken(points) = <<>> /\ Left(points) = <<>>
<1> DEFINE k == Least(MaxBatchSize, Len(points))
           n == Len(points)
<1>1. /\ \A i \in 1..n : points[i] \in S
      /\ n \in Nat /\ MaxBatchSize \in Nat \ {0}
  BY LenProperties, ElementOfSeq, BufferAssumption
<1>2. n \in Nat /\ MaxBatchSize \in Nat \ {0}
  BY <1>1
<1>3. k \in 0..n /\ k <= MaxBatchSize /\ (k = MaxBatchSize \/ k = n)
  <2> HIDE DEF n
  <2>1. k = Least(MaxBatchSize, n)
    BY DEF n
  <2> QED BY <2>1, <1>2 DEF Least
<1>4. Taken(points) = SubSeq(points, 1, k)
  BY DEF Taken
<1> HIDE DEF k
<1>5. Taken(points) \in Seq(S) /\ Len(Taken(points)) = k
  <2>1. \A i \in 1..k : points[i] \in S
    <3> HIDE DEF n
    <3> QED BY <1>1, <1>3
  <2>2. /\ SubSeq(points, 1, k) \in Seq(S)
        /\ Len(SubSeq(points, 1, k)) = IF 1 <= k THEN k - 1 + 1 ELSE 0
    BY <2>1, <1>3, SubSeqProperties
  <2> QED BY <2>2, <1>3, <1>4
<1>6. points = <<>> => n = 0
  BY EmptySeq
<1>7. n = 0 => points = <<>>
  BY EmptySeq
<1>8. CASE k = MaxBatchSize
  <2>1. Left(points) = SubSeq(points, k + 1, n)
    BY <1>8 DEF Left
  <2>2. \A i \in k+1..n : points[i] \in S
    <3> HIDE DEF n
    <3> QED BY <1>1, <1>3
  <2>3. /\ Left(points) \in Seq(S)
        /\ Len(Left(points)) = IF k + 1 <= n THEN n - (k + 1) + 1 ELSE 0
    <3> HIDE DEF n
    <3> QED BY <2>1, <2>2, <1>2, <1>3, SubSeqProperties
  <2>4. Len(Left(points)) = n - k
    <3> HIDE DEF n
    <3> QED BY <2>3, <1>2, <1>3
  <2>5. Taken(points) \o Left(points) = SubSeq(points, 1, n)
    <3>1. /\ 1 \in 1..Len(points) + 1 /\ k \in 1 - 1..Len(points)
          /\ Len(points) \in k..Len(points)
      BY <1>2, <1>3
    <3>2. SubSeq(points, 1, k) \o SubSeq(points, k + 1, Len(points))
            = SubSeq(points, 1, Len(points))
      BY <3>1, ConcatAdjacentSubSeq
    <3> QED BY <3>2, <2>1, <1>4
  <2>6. SubSeq(points, 1, n) = points
    BY SubSeqFull
  <2>7. points # <<>>
    BY <1>2, <1>3, <1>6, <1>8
  <2> HIDE DEF n
  <2>8. k + (n - k) = n
    BY <1>2, <1>3
  <2> QED BY <2>3, <2>4, <2>5, <2>6, <2>7, <2>8, <1>3, <1>5 DEF n
<1>9. CASE k # MaxBatchSize
  <2>1. k = n /\ n < MaxBatchSize
    <3> HIDE DEF n
    <3> QED BY <1>2, <1>3, <1>9
  <2>2. Left(points) = <<>>
    <3>1. n < MaxBatchSize + 1 /\ MaxBatchSize + 1 \in Int /\ n \in Int
      BY <2>1, <1>2
    <3> QED BY <3>1, SubSeqEmpty DEF Left
  <2>3. Taken(points) = points
    BY <2>1, <1>4, SubSeqFull
  <2>4. <<>> \in Seq(S) /\ Len(<<>>) = 0 /\ points \o <<>> = points
    BY EmptySeq, ConcatEmptySeq
  <2>5. n + 0 = n
    BY <1>2
  <2> QED BY <2>1, <2>2, <2>3, <2>4, <2>5, <1>3
<1> QED BY <1>8, <1>9

\* A failed batch goes back in front; what does not fit goes from the end.
LEMMA RequeuedIsPrefix ==
  ASSUME NEW S, batch \in Seq(S), pending \in Seq(S),
         Len(batch) <= MaxPendingMetrics, Len(pending) <= MaxPendingMetrics
  PROVE  /\ Overflow \in Nat
         /\ Requeued \in Seq(S)
         /\ Len(Requeued) <= MaxPendingMetrics
         /\ Shortens(Requeued, Waiting, Overflow)
<1>1. /\ Len(batch) \in Nat /\ Len(pending) \in Nat
      /\ pending \in [1..Len(pending) -> S]
      /\ MaxPendingMetrics \in Nat \ {0}
  BY LenProperties, BufferAssumption
<1>2. Overflow \in 0..Len(pending)
      /\ Len(batch) + Len(pending) - Overflow <= MaxPendingMetrics
  BY <1>1 DEF Overflow, Greatest
<1> DEFINE kept == SubSeq(pending, 1, Len(pending) - Overflow)
<1>3. /\ kept \in Seq(S) /\ Len(kept) = Len(pending) - Overflow
      /\ \A i \in 1..Len(kept) : kept[i] = pending[i]
  <2>1. \A i \in 1..Len(pending) - Overflow : pending[i] \in S
    BY <1>1, <1>2
  <2> DEFINE n == Len(pending) - Overflow
  <2>2. n \in Int /\ 1 \in Int /\ n >= 0
    BY <1>1, <1>2
  <2>3. /\ kept \in Seq(S)
        /\ Len(kept) = IF 1 <= n THEN n - 1 + 1 ELSE 0
        /\ \A i \in 1..n - 1 + 1 : kept[i] = pending[1 + i - 1]
    <3> HIDE DEF n
    <3> SUFFICES /\ SubSeq(pending, 1, n) \in Seq(S)
                 /\ Len(SubSeq(pending, 1, n)) = IF 1 <= n THEN n - 1 + 1 ELSE 0
                 /\ \A i \in 1..n - 1 + 1 :
                      SubSeq(pending, 1, n)[i] = pending[1 + i - 1]
      BY DEF n
    <3> QED BY <2>1, <2>2, SubSeqProperties DEF n
  <2> HIDE DEF kept
  <2>4. Len(kept) = n /\ \A i \in 1..n : kept[i] = pending[i]
    BY <2>2, <2>3
  <2> QED BY <2>3, <2>4
<1> HIDE DEF kept
<1>4. /\ batch \o kept \in Seq(S)
      /\ Len(batch \o kept) = Len(batch) + Len(kept)
      /\ \A i \in 1..Len(batch) + Len(kept) : (batch \o kept)[i] =
           IF i <= Len(batch) THEN batch[i] ELSE kept[i - Len(batch)]
  BY <1>3, ConcatProperties
<1>5. /\ Len(batch \o pending) = Len(batch) + Len(pending)
      /\ \A i \in 1..Len(batch) + Len(pending) : (batch \o pending)[i] =
           IF i <= Len(batch) THEN batch[i] ELSE pending[i - Len(batch)]
  BY ConcatProperties
<1>6. Requeued = batch \o kept
  BY DEF Requeued, kept
<1>7. Len(kept) \in Nat /\ Len(kept) <= Len(pending)
  BY <1>1, <1>2, <1>3
<1>8. ASSUME NEW i \in 1..Len(batch) + Len(kept)
      PROVE  (batch \o kept)[i] = (batch \o pending)[i]
  <2>1. i \in 1..Len(batch) + Len(pending)
    BY <1>1, <1>7
  <2>2. CASE i <= Len(batch)
    BY <2>1, <2>2, <1>4, <1>5
  <2>3. CASE i > Len(batch)
    <3>1. i - Len(batch) \in 1..Len(kept) /\ ~(i <= Len(batch))
      BY <2>3, <1>1, <1>7
    <3>2. (batch \o kept)[i] = kept[i - Len(batch)]
      BY <3>1, <1>4
    <3>3. (batch \o pending)[i] = pending[i - Len(batch)]
      BY <2>1, <3>1, <1>5
    <3> QED BY <3>1, <3>2, <3>3, <1>3, <1>7
  <2> QED BY <2>2, <2>3, <1>1, <1>7
<1>9. /\ Len(batch) + Len(kept) <= MaxPendingMetrics
      /\ Len(batch) + Len(kept) + Overflow = Len(batch) + Len(pending)
  BY <1>1, <1>2, <1>3
<1>10. Len(Requeued) = Len(batch) + Len(kept)
  BY <1>4, <1>6
<1> QED BY <1>2, <1>4, <1>5, <1>6, <1>8, <1>9, <1>10 DEF Waiting, Shortens
----------------------------------------------------------------------------
\* What the parts of the actions do

LEMMA SendNextKeeps ==
  ASSUME NEW S, NEW points \in Seq(S), Len(points) <= MaxPendingMetrics,
         SendNext(points)
  PROVE  /\ batch' \in Seq(S) /\ pending' \in Seq(S)
         /\ Len(batch') <= MaxBatchSize
         /\ Len(batch') <= MaxPendingMetrics
         /\ Len(pending') <= MaxPendingMetrics
         /\ Waiting' = points
         /\ activeFlush' \in {"sending", "resolved"}
         /\ activeFlush' # "sending" => batch' = <<>> /\ Waiting' = <<>>
<1>1. batch' = Taken(points) /\ pending' = Left(points)
      /\ activeFlush' = IF points # <<>> THEN "sending" ELSE "resolved"
  BY DEF SendNext
<1>2. Taken(points) \in Seq(S) /\ Left(points) \in Seq(S)
      /\ Len(Taken(points)) <= MaxBatchSize
      /\ Len(Taken(points)) + Len(Left(points)) = Len(points)
      /\ Taken(points) \o Left(points) = points
      /\ (points = <<>> => Taken(points) = <<>> /\ Left(points) = <<>>)
  BY TakenAndLeft
<1>3. Len(Taken(points)) \in Nat /\ Len(Left(points)) \in Nat
      /\ Len(points) \in Nat /\ MaxPendingMetrics \in Nat
  BY <1>2, LenProperties, BufferAssumption
<1>4. Len(Taken(points)) <= MaxPendingMetrics
      /\ Len(Left(points)) <= MaxPendingMetrics
  BY <1>2, <1>3
<1> QED BY <1>1, <1>2, <1>4 DEF Waiting

LEMMA FlushKeeps ==
  ASSUME NEW S, batch \in Seq(S), NEW points \in Seq(S),
         Len(batch) <= MaxBatchSize, BatchFits,
         Len(points) <= MaxPendingMetrics,
         activeFlush \in {"none", "sending", "resolved", "rejected"},
         Flush(points)
  PROVE  /\ batch' \in Seq(S) /\ pending' \in Seq(S)
         /\ Len(batch') <= MaxBatchSize
         /\ Len(pending') <= MaxPendingMetrics
         /\ BatchFits'
         /\ Waiting' = batch \o points
         /\ activeFlush' \in {"sending", "resolved", "rejected"}
         /\ activeFlush # "none" => activeFlush' = activeFlush
         /\ activeFlush = "none" => activeFlush' # "rejected"
              /\ (activeFlush' = "resolved" => Waiting' = <<>>)
<1>1. CASE activeFlush = "none"
  <2>1. SendNext(points)
    BY <1>1 DEF Flush
  <2>2. batch \o points = points
    BY <1>1, ConcatEmptySeq DEF BatchFits
  <2> QED BY <1>1, <2>1, <2>2, SendNextKeeps DEF BatchFits
<1>2. CASE activeFlush # "none"
  BY <1>2 DEF Flush, Waiting, BatchFits
<1> QED BY <1>1, <1>2

\* What holds of the points holds however they are divided.
LEMMA Rearranged ==
  ASSUME EveryPointCounted, Waiting' = Waiting,
         UNCHANGED <<sent, recorded, droppedMetrics>>
  PROVE  EveryPointCounted'
BY DEF EveryPointCounted, InOrder

LEMMA WaitingIsTyped ==
  ASSUME TypeOK
  PROVE  /\ Waiting \in Seq(1..recorded)
         /\ Len(Waiting) = Len(batch) + Len(pending)
         /\ Len(Waiting) \in Nat /\ Len(batch) \in Nat /\ Len(pending) \in Nat
         /\ Len(sent) \in Nat
         /\ sent \o Waiting \in Seq(1..recorded)
         /\ Len(sent \o Waiting) = Len(sent) + Len(Waiting)
         /\ DOMAIN (sent \o Waiting) = 1..Len(sent) + Len(Waiting)
<1>1. batch \in Seq(1..recorded) /\ pending \in Seq(1..recorded)
      /\ sent \in Seq(1..recorded)
  BY DEF TypeOK
<1>2. Waiting \in Seq(1..recorded) /\ Len(Waiting) = Len(batch) + Len(pending)
  BY <1>1, ConcatProperties DEF Waiting
<1>3. sent \o Waiting \in Seq(1..recorded)
      /\ Len(sent \o Waiting) = Len(sent) + Len(Waiting)
  BY <1>1, <1>2, ConcatProperties
<1>4. DOMAIN (sent \o Waiting) = 1..Len(sent \o Waiting)
  BY <1>3, LenProperties
<1> QED BY <1>1, <1>2, <1>3, <1>4, LenProperties

\* flush(), called for what is pending, loses and disorders nothing.
LEMMA FlushOfPending ==
  ASSUME TypeOK, BatchFits, EveryPointCounted, Flush(pending),
         UNCHANGED <<sent, recorded, droppedMetrics>>
  PROVE  /\ batch' \in Seq(1..recorded') /\ pending' \in Seq(1..recorded')
         /\ sent' \in Seq(1..recorded')
         /\ Len(batch') <= MaxBatchSize
         /\ Len(pending') <= MaxPendingMetrics
         /\ BatchFits'
         /\ EveryPointCounted'
         /\ Waiting' = Waiting
         /\ activeFlush' \in {"sending", "resolved", "rejected"}
         /\ activeFlush # "none" => activeFlush' = activeFlush
         /\ activeFlush = "none" => activeFlush' # "rejected"
              /\ (activeFlush' = "resolved" => Waiting' = <<>>)
<1>1. batch \in Seq(1..recorded) /\ pending \in Seq(1..recorded)
      /\ Len(batch) <= MaxBatchSize /\ Len(pending) <= MaxPendingMetrics
      /\ activeFlush \in {"none", "sending", "resolved", "rejected"}
      /\ sent \in Seq(1..recorded)
  BY DEF TypeOK
<1>2. /\ batch' \in Seq(1..recorded) /\ pending' \in Seq(1..recorded)
      /\ Len(batch') <= MaxBatchSize
      /\ Len(pending') <= MaxPendingMetrics
      /\ BatchFits'
      /\ Waiting' = batch \o pending
      /\ activeFlush' \in {"sending", "resolved", "rejected"}
      /\ activeFlush # "none" => activeFlush' = activeFlush
      /\ activeFlush = "none" => activeFlush' # "rejected"
           /\ (activeFlush' = "resolved" => Waiting' = <<>>)
  BY <1>1, FlushKeeps
<1>3. Waiting' = Waiting
  BY <1>2 DEF Waiting
<1>4. EveryPointCounted'
  BY <1>3, Rearranged
<1> QED BY <1>1, <1>2, <1>3, <1>4

\* The points of an event: they are numbered on from those before.
LEMMA NewPoints ==
  ASSUME recorded \in Nat, NEW n \in Nat
  PROVE  /\ New(n) \in Seq(1..recorded + n)
         /\ Len(New(n)) = n
         /\ \A i \in 1..n : New(n)[i] = recorded + i
<1> DEFINE new == [i \in 1..n |-> recorded + i]
<1>1. new \in [1..n -> 1..recorded + n]
  OBVIOUS
<1>2. new \in Seq(1..recorded + n)
  BY <1>1, SeqDef
<1>3. DOMAIN new = 1..n /\ DOMAIN new = 1..Len(new) /\ Len(new) \in Nat
  BY <1>2, LenProperties
<1>4. \A i \in 1..n : new[i] = recorded + i
  OBVIOUS
<1> HIDE DEF new
<1>5. Len(new) = n
  BY <1>3
<1> QED BY <1>2, <1>4, <1>5 DEF new, New

\* What a sequence begins with is a subsequence of it.
LEMMA BeginningIsSubSeq ==
  ASSUME NEW S, NEW s \in Seq(S), NEW t \in Seq(S), NEW over \in Nat,
         Shortens(s, t, over)
  PROVE  SubSeq(t, 1, Len(s)) = s
<1>1. Len(s) \in Nat /\ Len(t) \in Nat /\ Len(s) <= Len(t)
      /\ \A i \in 1..Len(s) : s[i] = t[i]
  BY LenProperties DEF Shortens
<1> DEFINE u == SubSeq(t, 1, Len(s))
<1>2. \A i \in 1..Len(s) : t[i] \in S
  BY <1>1, ElementOfSeq
<1>3. /\ u \in Seq(S)
      /\ Len(u) = IF 1 <= Len(s) THEN Len(s) - 1 + 1 ELSE 0
      /\ \A i \in 1..Len(s) - 1 + 1 : u[i] = t[1 + i - 1]
  BY <1>1, <1>2, SubSeqProperties
<1> HIDE DEF u
<1>4. Len(u) = Len(s) /\ \A i \in 1..Len(u) : u[i] = s[i]
  BY <1>1, <1>3
<1>5. u = s
  BY <1>3, <1>4, SeqEqual
<1> QED BY <1>5 DEF u

\* Concatenation is associative, for a set that is not to be guessed.
LEMMA Reassociated ==
  \A S : \A s, t, u \in Seq(S) : s \o (t \o u) = (s \o t) \o u
<1> TAKE S
<1> TAKE s, t, u \in Seq(S)
<1>1. (s \o t) \o u = s \o (t \o u)
  BY ConcatAssociative
<1> QED BY <1>1

\* The points are in order behind all that were recorded before.
LEMMA Appended ==
  ASSUME TypeOK, EveryPointCounted, NEW n \in Nat,
         recorded' = recorded + n, UNCHANGED <<sent, droppedMetrics>>,
         Waiting' = Waiting \o New(n)
  PROVE  EveryPointCounted'
<1> DEFINE new == New(n)
           all == sent \o Waiting
           len == Len(sent) + Len(Waiting)
           S == 1..recorded + n
<1>1. recorded \in Nat
  BY BufferAssumption DEF TypeOK
<1>2. new \in Seq(S) /\ Len(new) = n
  BY <1>1, NewPoints
<1>n. \A i \in 1..n : new[i] = recorded + i
  BY <1>1, NewPoints
<1>3. 1..recorded \subseteq S
  BY <1>1
<1>4. /\ sent \in Seq(S) /\ Waiting \in Seq(S)
      /\ all \in Seq(S)
  <2>1. sent \in Seq(1..recorded)
    BY DEF TypeOK
  <2> QED BY <1>3, <2>1, WaitingIsTyped, SeqMonotonic
<1>5. len \in Nat /\ Len(all) = len /\ DOMAIN all = 1..len
      /\ \A i \in 1..len : all[i] \in 1..recorded
  <2>1. len \in Nat /\ Len(all) = len /\ DOMAIN all = 1..len
        /\ all \in Seq(1..recorded)
    BY WaitingIsTyped
  <2> HIDE DEF all, len
  <2>2. \A i \in 1..Len(all) : all[i] \in 1..recorded
    BY <2>1, ElementOfSeq
  <2> QED BY <2>1, <2>2
<1> HIDE DEF new, all, S
<1>6. sent' \o Waiting' = all \o new
  <2>1. sent \o (Waiting \o new) = (sent \o Waiting) \o new
    <3>1. new \in Seq(S) /\ sent \in Seq(S) /\ Waiting \in Seq(S)
      BY <1>2, <1>4
    <3> QED BY <3>1, Reassociated
  <2> QED BY <2>1 DEF new, all
<1>7. /\ all \o new \in Seq(S)
      /\ Len(all \o new) = len + n
      /\ \A i \in 1..len + n : (all \o new)[i] =
           IF i <= len THEN all[i] ELSE new[i - len]
  <2>1. all \in Seq(S) /\ new \in Seq(S) /\ Len(all) = len /\ Len(new) = n
    BY <1>2, <1>4, <1>5
  <2> HIDE DEF len
  <2> QED BY <2>1, ConcatProperties
<1>8. DOMAIN (all \o new) = 1..len + n
  BY <1>7, LenProperties
<1>9. \A i, j \in 1..len : i < j => all[i] < all[j]
  BY <1>5 DEF EveryPointCounted, InOrder, all
<1> HIDE DEF len
<1>10. ASSUME NEW i \in 1..len + n, NEW j \in 1..len + n, i < j
       PROVE  (all \o new)[i] < (all \o new)[j]
  <2>1. len \in Nat /\ i \in Int /\ j \in Int
    BY <1>5
  <2>2. CASE j <= len
    <3>1. i \in 1..len /\ j \in 1..len /\ i <= len
      BY <2>1, <2>2, <1>10
    <3>2. (all \o new)[i] = all[i] /\ (all \o new)[j] = all[j]
      BY <2>2, <3>1, <1>7
    <3> QED BY <3>1, <3>2, <1>9, <1>10
  <2>3. CASE ~(j <= len)
    <3>1. j - len \in 1..n
      BY <2>1, <2>3
    <3>2. (all \o new)[j] = recorded + (j - len)
      BY <2>3, <3>1, <1>n, <1>7
    <3>3. CASE i <= len
      <4>1. i \in 1..len
        BY <2>1, <3>3
      <4>2. (all \o new)[i] \in 1..recorded
        BY <3>3, <4>1, <1>5, <1>7
      <4>3. \A k \in 1..recorded : k < recorded + (j - len)
        BY <2>1, <3>1, <1>1
      <4> QED BY <4>2, <4>3, <3>2
    <3>4. CASE ~(i <= len)
      <4>1. i - len \in 1..n
        BY <2>1, <3>4
      <4>2. (all \o new)[i] = recorded + (i - len)
        BY <3>4, <4>1, <1>n, <1>7
      <4> QED BY <4>2, <3>2, <2>1, <1>1, <1>10
    <3> QED BY <3>3, <3>4
  <2> QED BY <2>2, <2>3
<1>11. InOrder'
  BY <1>6, <1>8, <1>10 DEF InOrder
<1>12. (Len(sent) + Len(Waiting) + droppedMetrics = recorded)'
  <2>1. Len(Waiting') = Len(Waiting) + n
    <3>1. Len(Waiting \o new) = Len(Waiting) + Len(new)
      BY <1>2, <1>4, ConcatProperties
    <3> QED BY <3>1, <1>2 DEF new
  <2>2. Len(sent) \in Nat /\ Len(Waiting) \in Nat /\ droppedMetrics \in Int
    BY WaitingIsTyped, BufferAssumption DEF TypeOK
  <2>3. Len(sent) + Len(Waiting) + droppedMetrics = recorded
    BY DEF EveryPointCounted
  <2>4. Len(sent) + (Len(Waiting) + n) + droppedMetrics = recorded + n
    <3>1. \A a, b \in Nat, d \in Int :
            a + b + d = recorded => a + (b + n) + d = recorded + n
      BY <1>1
    <3> QED BY <3>1, <2>2, <2>3
  <2> QED BY <2>1, <2>4
<1> QED BY <1>11, <1>12 DEF EveryPointCounted

\* The youngest points are dropped, and counted.
LEMMA Shortened ==
  ASSUME TypeOK, EveryPointCounted, NEW over \in Nat,
         Waiting' \in Seq(1..recorded),
         Shortens(Waiting', Waiting, over),
         UNCHANGED <<sent, recorded>>, droppedMetrics' = droppedMetrics + over
  PROVE  EveryPointCounted'
<1> DEFINE all == sent \o Waiting
           rest == sent \o Waiting'
           len == Len(sent) + Len(Waiting)
           less == Len(sent) + Len(Waiting')
<1>1. sent \in Seq(1..recorded) /\ Waiting \in Seq(1..recorded)
      /\ Len(sent) \in Nat /\ Len(Waiting) \in Nat
  BY WaitingIsTyped DEF TypeOK
<1>2. /\ Len(Waiting') \in Nat /\ Len(Waiting') <= Len(Waiting)
      /\ Len(Waiting') + over = Len(Waiting)
  BY <1>1, LenProperties DEF Shortens
<1>3. /\ \A i \in 1..len : all[i] =
           IF i <= Len(sent) THEN sent[i] ELSE Waiting[i - Len(sent)]
      /\ DOMAIN all = 1..len
  BY <1>1, ConcatProperties, WaitingIsTyped
<1>4. /\ \A i \in 1..less : rest[i] =
           IF i <= Len(sent) THEN sent[i] ELSE Waiting'[i - Len(sent)]
      /\ rest \in Seq(1..recorded) /\ Len(rest) = less
  BY <1>1, ConcatProperties
<1>5. DOMAIN rest = 1..less
  BY <1>4, LenProperties
<1> HIDE DEF all, rest
<1>6. ASSUME NEW i \in 1..less
      PROVE  i \in 1..len /\ rest[i] = all[i]
  <2>1. i \in 1..len
    BY <1>1, <1>2
  <2>2. CASE i <= Len(sent)
    BY <2>1, <2>2, <1>3, <1>4
  <2>3. CASE ~(i <= Len(sent))
    <3>1. i - Len(sent) \in 1..Len(Waiting')
      BY <2>3, <1>1, <1>2
    <3>2. rest[i] = Waiting'[i - Len(sent)] /\ all[i] = Waiting[i - Len(sent)]
      BY <2>1, <2>3, <1>3, <1>4
    <3> QED BY <2>1, <3>1, <3>2 DEF Shortens
  <2> QED BY <2>2, <2>3
<1>7. InOrder'
  <2>1. \A i, j \in 1..len : i < j => all[i] < all[j]
    BY <1>3 DEF EveryPointCounted, InOrder, all
  <2>2. \A i, j \in 1..less : i < j => rest[i] < rest[j]
    BY <2>1, <1>6
  <2> QED BY <2>2, <1>5 DEF InOrder, rest
<1>8. (Len(sent) + Len(Waiting) + droppedMetrics = recorded)'
  <2>1. droppedMetrics \in Int /\ recorded \in Int
    BY BufferAssumption DEF TypeOK
  <2>2. Len(sent) + Len(Waiting) + droppedMetrics = recorded
    BY DEF EveryPointCounted
  <2>3. Len(sent) + Len(Waiting') + (droppedMetrics + over) = recorded
    <3>1. \A a, b, c \in Nat, d \in Int :
            a + b + d = recorded /\ c + over = b
              => a + c + (d + over) = recorded
      BY <2>1
    <3>2. Len(sent) \in Nat /\ Len(Waiting) \in Nat /\ Len(Waiting') \in Nat
          /\ Len(Waiting') + over = Len(Waiting)
      BY <1>1, <1>2
    <3> QED BY <3>1, <3>2, <2>1, <2>2
  <2> QED BY <2>3
<1> QED BY <1>7, <1>8 DEF EveryPointCounted
----------------------------------------------------------------------------
\* Each action preserves the invariant

LEMMA InvInit == Init => BufferInv
<1> SUFFICES ASSUME Init PROVE BufferInv
  OBVIOUS
<1>1. /\ pending = <<>> /\ batch = <<>> /\ activeFlush = "none"
      /\ timer = FALSE /\ closed = FALSE /\ droppedMetrics = 0
      /\ closing = [c \in Closers |-> "none"]
      /\ recorded = 0 /\ sent = <<>>
  BY DEF Init
<1>2. <<>> \in Seq(1..recorded) /\ Len(<<>>) = 0 /\ <<>> \o <<>> = <<>>
  BY EmptySeq, ConcatEmptySeq
<1>3. /\ MaxBatchSize \in Nat \ {0} /\ MaxPendingMetrics \in Nat \ {0}
      /\ MaxPoints \in Nat
  BY BufferAssumption
<1>4. TypeOK
  <2>1. /\ pending \in Seq(1..recorded) /\ Len(pending) <= MaxPendingMetrics
        /\ batch \in Seq(1..recorded) /\ Len(batch) <= MaxBatchSize
        /\ sent \in Seq(1..recorded)
    BY <1>1, <1>2, <1>3
  <2>2. droppedMetrics \in 0..MaxPoints /\ recorded \in 0..MaxPoints
    BY <1>1, <1>3
  <2>3. /\ activeFlush \in {"none", "sending", "resolved", "rejected"}
        /\ timer \in BOOLEAN /\ (timer => HasInterval)
        /\ closed \in BOOLEAN
        /\ closing \in [Closers -> {"none", "waiting", "late", "flushed",
                                    "missed", "failed"}]
    BY <1>1
  <2> QED BY <2>1, <2>2, <2>3 DEF TypeOK
<1>5. BatchFits
  BY <1>1, <1>2, <1>3 DEF BatchFits
<1>6. EveryPointCounted
  <2>1. DOMAIN (sent \o Waiting) = 1..Len(<<>>)
    BY <1>1, <1>2, LenProperties DEF Waiting
  <2>2. InOrder
    BY <2>1, <1>2 DEF InOrder
  <2> QED BY <1>1, <1>2, <2>2 DEF EveryPointCounted, Waiting
<1>7. NothingStranded
  BY <1>1 DEF NothingStranded, CloseFlushes
<1>8. ASSUME NEW c \in Closers PROVE Joined(c)
  BY <1>1 DEF Joined
<1> QED BY <1>4, <1>5, <1>6, <1>7, <1>8 DEF BufferInv

\* Every point is counted once, so that no more are dropped than there were.
LEMMA DroppedIsBounded ==
  ASSUME EveryPointCounted, Len(sent) \in Nat, Len(Waiting) \in Nat,
         recorded \in 0..MaxPoints, droppedMetrics \in Nat
  PROVE  droppedMetrics \in 0..MaxPoints
BY BufferAssumption DEF EveryPointCounted

\* The calls of flush() and its timer.
LEMMA StartOfFlush ==
  ASSUME BufferInv, Flush(pending), timer' = FALSE,
         UNCHANGED <<closed, droppedMetrics, closing, history>>
  PROVE  BufferInv'
<1>1. TypeOK /\ BatchFits /\ EveryPointCounted /\ NothingStranded
      /\ \A c \in Closers : Joined(c)
  BY DEF BufferInv
<1>2. UNCHANGED <<sent, recorded, droppedMetrics>>
  BY DEF history
<1>3. /\ batch' \in Seq(1..recorded') /\ pending' \in Seq(1..recorded')
      /\ sent' \in Seq(1..recorded')
      /\ Len(batch') <= MaxBatchSize
      /\ Len(pending') <= MaxPendingMetrics
      /\ BatchFits'
      /\ EveryPointCounted'
      /\ Waiting' = Waiting
      /\ activeFlush' \in {"sending", "resolved", "rejected"}
      /\ activeFlush # "none" => activeFlush' = activeFlush
      /\ activeFlush = "none" => activeFlush' # "rejected"
           /\ (activeFlush' = "resolved" => Waiting' = <<>>)
  BY <1>1, <1>2, FlushOfPending
<1>4. TypeOK'
  BY <1>1, <1>2, <1>3 DEF TypeOK
<1>5. NothingStranded'
  BY <1>1, <1>3 DEF NothingStranded, CloseFlushes
<1>6. ASSUME NEW c \in Closers PROVE Joined(c)'
  BY <1>1, <1>3 DEF Joined
<1> QED BY <1>3, <1>4, <1>5, <1>6 DEF BufferInv

LEMMA CloseKeeps ==
  ASSUME BufferInv, NEW c \in Closers, Close(c)
  PROVE  BufferInv'
<1>1. TypeOK /\ BatchFits /\ EveryPointCounted /\ NothingStranded
      /\ \A d \in Closers : Joined(d)
  BY DEF BufferInv
<1>2. /\ UNCHANGED <<sent, recorded, droppedMetrics>>
      /\ Flush(pending)
      /\ closed' = TRUE /\ timer' = FALSE
  BY DEF Close, history
<1>3. /\ batch' \in Seq(1..recorded') /\ pending' \in Seq(1..recorded')
      /\ sent' \in Seq(1..recorded')
      /\ Len(batch') <= MaxBatchSize
      /\ Len(pending') <= MaxPendingMetrics
      /\ BatchFits'
      /\ EveryPointCounted'
      /\ Waiting' = Waiting
      /\ activeFlush' \in {"sending", "resolved", "rejected"}
      /\ activeFlush # "none" => activeFlush' = activeFlush
      /\ activeFlush = "none" => activeFlush' # "rejected"
           /\ (activeFlush' = "resolved" => Waiting' = <<>>)
  BY <1>1, <1>2, FlushOfPending
<1>4. /\ closing' \in [Closers -> {"none", "waiting", "late", "flushed",
                                   "missed", "failed"}]
      /\ \A d \in Closers \ {c} : closing'[d] = closing[d]
      /\ closing'[c] = IF activeFlush \in {"resolved", "rejected"} THEN "late"
                       ELSE "waiting"
  BY <1>1 DEF TypeOK, Close
<1>5. TypeOK'
  BY <1>1, <1>2, <1>3, <1>4 DEF TypeOK
<1>6. NothingStranded'
  <2>1. CloseFlushes'
    BY <1>1, <1>3, <1>4 DEF NothingStranded, CloseFlushes
  <2> QED BY <2>1, <1>2 DEF NothingStranded
<1>7. activeFlush \in {"none", "sending", "resolved", "rejected"}
  BY <1>1 DEF TypeOK
<1>8. ASSUME NEW d \in Closers PROVE Joined(d)'
  <2>1. CASE d = c
    BY <2>1, <1>2, <1>3, <1>4, <1>7 DEF Joined
  <2>2. CASE d # c
    BY <2>2, <1>1, <1>2, <1>3, <1>4 DEF Joined
  <2> QED BY <2>1, <2>2
<1> QED BY <1>3, <1>5, <1>6, <1>8 DEF BufferInv

LEMMA SettleKeeps ==
  ASSUME BufferInv, Settle
  PROVE  BufferInv'
<1>1. TypeOK /\ BatchFits /\ EveryPointCounted /\ NothingStranded
      /\ \A c \in Closers : Joined(c)
  BY DEF BufferInv
<1>2. /\ activeFlush \in {"resolved", "rejected"} /\ activeFlush' = "none"
      /\ UNCHANGED <<pending, batch, sent, recorded, closed, droppedMetrics>>
      /\ ScheduleFlush(pending)
  BY DEF Settle, history
<1>3. timer' \in BOOLEAN /\ (timer' => HasInterval)
  <2>1. timer' = (timer \/ (pending # <<>> /\ HasInterval /\ ~closed))
    BY <1>2 DEF ScheduleFlush
  <2>2. timer \in BOOLEAN /\ (timer => HasInterval)
    BY <1>1 DEF TypeOK
  <2> QED BY <2>1, <2>2
<1>4. Waiting' = Waiting
  BY <1>2 DEF Waiting
<1>5. ASSUME NEW c \in Closers
      PROVE  /\ closing'[c] = Answer(c)
             /\ closing'[c] \in {"none", "waiting", "late", "flushed",
                                 "missed", "failed"}
             /\ closing'[c] \notin {"waiting", "late"}
             /\ closing'[c] # "none" => closing[c] # "none"
             /\ closing'[c] = "flushed" => Waiting = <<>>
  <2>1. closing'[c] = Answer(c)
    BY DEF Settle
  <2>2. closing[c] \in {"none", "waiting", "late", "flushed", "missed", "failed"}
    BY <1>1 DEF TypeOK
  <2>3. CASE closing[c] \notin {"waiting", "late"}
    <3>1. Answer(c) = closing[c]
      BY <2>3 DEF Answer
    <3> QED BY <2>1, <2>2, <2>3, <3>1, <1>1 DEF NothingStranded, CloseFlushes
  <2>4. CASE closing[c] \in {"waiting", "late"} /\ activeFlush = "rejected"
    <3>1. Answer(c) = "failed"
      BY <2>4 DEF Answer
    <3> QED BY <2>1, <2>4, <3>1
  <2>5. CASE closing[c] = "waiting" /\ activeFlush # "rejected"
    <3>1. Answer(c) = "flushed"
      BY <2>5 DEF Answer
    <3>2. activeFlush = "resolved"
      BY <2>5, <1>2
    <3> QED BY <2>1, <2>5, <3>1, <3>2, <1>1 DEF Joined
  <2>6. CASE closing[c] = "late" /\ activeFlush # "rejected"
    <3>1. Answer(c) = "missed"
      BY <2>6 DEF Answer
    <3> QED BY <2>1, <2>6, <3>1
  <2> QED BY <2>3, <2>4, <2>5, <2>6
<1>6. closing' = [c \in Closers |-> Answer(c)]
  BY DEF Settle
<1>7. closing' \in [Closers -> {"none", "waiting", "late", "flushed",
                                "missed", "failed"}]
  BY <1>5, <1>6
<1>8. TypeOK'
  BY <1>1, <1>2, <1>3, <1>7 DEF TypeOK
<1>9. BatchFits'
  BY <1>1, <1>2 DEF BatchFits
<1>10. EveryPointCounted'
  BY <1>1, <1>2, <1>4, Rearranged
<1>11. NothingStranded'
  <2>1. CloseFlushes'
    BY <1>4, <1>5 DEF CloseFlushes
  <2>2. pending' # <<>> /\ ~closed' /\ HasInterval => timer'
    BY <1>2 DEF ScheduleFlush
  <2> QED BY <2>1, <2>2 DEF NothingStranded
<1>12. ASSUME NEW c \in Closers PROVE Joined(c)'
  BY <1>1, <1>2, <1>5 DEF Joined
<1> QED BY <1>8, <1>9, <1>10, <1>11, <1>12 DEF BufferInv

LEMMA SuccessKeeps ==
  ASSUME BufferInv, SendSucceeds
  PROVE  BufferInv'
<1>1. TypeOK /\ BatchFits /\ EveryPointCounted /\ NothingStranded
      /\ \A c \in Closers : Joined(c)
  BY DEF BufferInv
<1>2. /\ activeFlush = "sending" /\ sent' = sent \o batch
      /\ SendNext(pending)
      /\ UNCHANGED <<timer, closed, droppedMetrics, closing, recorded>>
  BY DEF SendSucceeds
<1> DEFINE S == 1..recorded
<1>3. /\ batch \in Seq(S) /\ pending \in Seq(S) /\ sent \in Seq(S)
      /\ Len(pending) <= MaxPendingMetrics
  BY <1>1 DEF TypeOK
<1> HIDE DEF S
<1>4. /\ batch' \in Seq(S) /\ pending' \in Seq(S)
      /\ Len(batch') <= MaxBatchSize
      /\ Len(batch') <= MaxPendingMetrics
      /\ Len(pending') <= MaxPendingMetrics
      /\ Waiting' = pending
      /\ activeFlush' \in {"sending", "resolved"}
      /\ activeFlush' # "sending" => batch' = <<>> /\ Waiting' = <<>>
  BY <1>2, <1>3, SendNextKeeps
<1>5. sent' \in Seq(S) /\ Len(sent') = Len(sent) + Len(batch)
  BY <1>2, <1>3, ConcatProperties
<1>6. TypeOK'
  BY <1>1, <1>2, <1>4, <1>5 DEF TypeOK, S
<1>7. BatchFits'
  BY <1>4 DEF BatchFits
<1>8. sent' \o Waiting' = sent \o Waiting
  <2>1. batch \in Seq(S) /\ pending \in Seq(S) /\ sent \in Seq(S)
    BY <1>3
  <2>2. sent \o (batch \o pending) = (sent \o batch) \o pending
    BY <2>1, Reassociated
  <2> QED BY <2>2, <1>2, <1>4 DEF Waiting
<1>9. EveryPointCounted'
  <2>1. InOrder'
    BY <1>1, <1>8 DEF EveryPointCounted, InOrder
  <2>2. /\ Len(Waiting) = Len(batch) + Len(pending)
        /\ Len(batch) \in Nat /\ Len(pending) \in Nat /\ Len(sent) \in Nat
    BY <1>1, WaitingIsTyped
  <2>3. Len(sent') + Len(Waiting') = Len(sent) + Len(Waiting)
    BY <2>2, <1>4, <1>5
  <2> QED BY <2>1, <2>3, <1>1, <1>2 DEF EveryPointCounted
<1>10. NothingStranded'
  <2>1. CloseFlushes'
    <3>1. ASSUME NEW c \in Closers, closing[c] = "flushed" PROVE Waiting' = <<>>
      <4>1. Waiting = <<>>
        BY <3>1, <1>1 DEF NothingStranded, CloseFlushes
      <4>2. pending = <<>>
        BY <4>1, <1>3, ConcatEqualIffEmpty DEF Waiting
      <4> QED BY <4>2, <1>4
    <3> QED BY <3>1, <1>2 DEF CloseFlushes
  <2> QED BY <2>1, <1>4 DEF NothingStranded
<1>11. ASSUME NEW c \in Closers PROVE Joined(c)'
  BY <1>1, <1>2, <1>4 DEF Joined
<1> QED BY <1>6, <1>7, <1>9, <1>10, <1>11 DEF BufferInv

LEMMA FailureKeeps ==
  ASSUME BufferInv, SendFails
  PROVE  /\ BufferInv'
         /\ Overflow \in Nat /\ Waiting' \in Seq(1..recorded)
         /\ Shortens(Waiting', Waiting, Overflow)
<1>1. TypeOK /\ BatchFits /\ EveryPointCounted /\ NothingStranded
      /\ \A c \in Closers : Joined(c)
  BY DEF BufferInv
<1>2. /\ activeFlush = "sending" /\ activeFlush' = "rejected"
      /\ pending' = Requeued /\ batch' = <<>>
      /\ droppedMetrics' = droppedMetrics + Overflow
      /\ UNCHANGED <<timer, closed, closing, sent, recorded>>
  BY DEF SendFails, history
<1> DEFINE S == 1..recorded
<1>3. /\ batch \in Seq(S) /\ pending \in Seq(S) /\ sent \in Seq(S)
      /\ Len(pending) <= MaxPendingMetrics
      /\ Len(batch) <= MaxPendingMetrics
  BY <1>1 DEF TypeOK, BatchFits
<1> HIDE DEF S
<1>4. /\ Overflow \in Nat /\ Requeued \in Seq(S)
      /\ Len(Requeued) <= MaxPendingMetrics
      /\ Shortens(Requeued, Waiting, Overflow)
  BY <1>3, RequeuedIsPrefix
<1>5. <<>> \in Seq(S) /\ Len(<<>>) = 0
  BY EmptySeq
<1>6. Waiting' = Requeued
  BY <1>2, <1>4, ConcatEmptySeq DEF Waiting
<1>7. EveryPointCounted'
  BY <1>1, <1>2, <1>4, <1>6, Shortened DEF S
<1>8. TypeOK'
  <2>1. droppedMetrics' \in Nat
    BY <1>1, <1>2, <1>4, BufferAssumption DEF TypeOK
  <2>2. Len(sent') \in Nat /\ Len(Waiting') \in Nat
        /\ recorded' \in 0..MaxPoints
    BY <1>1, <1>2, <1>3, <1>4, <1>6, LenProperties DEF TypeOK
  <2>3. droppedMetrics' \in 0..MaxPoints
    <3>1. Len(sent') + Len(Waiting') + droppedMetrics' = recorded'
      BY <1>7 DEF EveryPointCounted
    <3> QED BY <2>1, <2>2, <3>1, BufferAssumption
  <2>4. Len(batch') <= MaxBatchSize
    BY <1>2, <1>5, BufferAssumption
  <2> QED BY <1>1, <1>2, <1>3, <1>4, <1>5, <2>2, <2>3, <2>4 DEF TypeOK, S
<1>9. BatchFits'
  BY <1>2, <1>5, BufferAssumption DEF BatchFits
<1>10. NothingStranded'
  <2>1. CloseFlushes'
    <3>1. ASSUME NEW c \in Closers, closing[c] = "flushed" PROVE Waiting' = <<>>
      <4>1. Len(Waiting) = 0
        BY <3>1, <1>1, <1>5 DEF NothingStranded, CloseFlushes
      <4>2. Len(Requeued) + Overflow = 0 /\ Len(Requeued) \in Nat
        BY <4>1, <1>4, LenProperties DEF Shortens
      <4>3. Len(Requeued) = 0
        BY <4>2, <1>4
      <4> QED BY <4>3, <1>4, <1>6, EmptySeq
    <3> QED BY <3>1, <1>2 DEF CloseFlushes
  <2> QED BY <2>1, <1>2 DEF NothingStranded
<1>11. ASSUME NEW c \in Closers PROVE Joined(c)'
  BY <1>1, <1>2 DEF Joined
<1> QED BY <1>4, <1>6, <1>7, <1>8, <1>9, <1>10, <1>11 DEF BufferInv, S

LEMMA EventKeeps ==
  ASSUME BufferInv, OnEvent
  PROVE  /\ BufferInv'
         /\ droppedMetrics' > droppedMetrics => Waiting' = Waiting
<1>1. TypeOK /\ BatchFits /\ EveryPointCounted /\ NothingStranded
      /\ \A c \in Closers : Joined(c)
  BY DEF BufferInv
<1>2. PICK n \in EventSizes :
        LET points == pending \o [i \in 1..n |-> recorded + i] IN
        /\ recorded + n <= MaxPoints
        /\ recorded' = recorded + n
        /\ \/ /\ Len(points) > MaxPendingMetrics
              /\ droppedMetrics' = droppedMetrics + n
              /\ UNCHANGED <<buffer, timer>>
           \/ /\ Len(points) \in MaxBatchSize..MaxPendingMetrics
              /\ timer' = FALSE
              /\ Flush(points)
              /\ UNCHANGED droppedMetrics
           \/ /\ Len(points) <= MaxPendingMetrics
              /\ Len(points) < MaxBatchSize
              /\ pending' = points
              /\ ScheduleFlush(points)
              /\ UNCHANGED <<batch, activeFlush, droppedMetrics>>
  BY Zenon DEF OnEvent
<1> DEFINE points == pending \o New(n)
           S == 1..recorded + n
<1>3. /\ recorded + n <= MaxPoints
      /\ recorded' = recorded + n
      /\ \/ /\ Len(points) > MaxPendingMetrics
            /\ droppedMetrics' = droppedMetrics + n
            /\ UNCHANGED <<buffer, timer>>
         \/ /\ Len(points) \in MaxBatchSize..MaxPendingMetrics
            /\ timer' = FALSE
            /\ Flush(points)
            /\ UNCHANGED droppedMetrics
         \/ /\ Len(points) <= MaxPendingMetrics
            /\ Len(points) < MaxBatchSize
            /\ pending' = points
            /\ ScheduleFlush(points)
            /\ UNCHANGED <<batch, activeFlush, droppedMetrics>>
  BY <1>2, Zenon DEF New
<1>4. ~closed /\ UNCHANGED <<closed, closing, sent>>
  BY DEF OnEvent
<1>5. n \in Nat \ {0} /\ recorded \in Nat /\ recorded' \in 0..MaxPoints
      /\ droppedMetrics \in Nat
      /\ MaxPendingMetrics \in Nat /\ MaxBatchSize \in Nat
  BY <1>1, <1>3, BufferAssumption DEF TypeOK
<1>6. /\ batch \in Seq(S) /\ pending \in Seq(S) /\ sent \in Seq(S)
      /\ New(n) \in Seq(S)
  <2>1. 1..recorded \subseteq S
    BY <1>5
  <2>2. /\ batch \in Seq(1..recorded) /\ pending \in Seq(1..recorded)
        /\ sent \in Seq(1..recorded)
    BY <1>1 DEF TypeOK
  <2>3. New(n) \in Seq(S)
    BY <1>5, NewPoints
  <2> QED BY <2>1, <2>2, <2>3, SeqMonotonic
<1>7. /\ Len(batch) <= MaxBatchSize /\ Len(batch) <= MaxPendingMetrics
      /\ Len(pending) <= MaxPendingMetrics
      /\ activeFlush \in {"none", "sending", "resolved", "rejected"}
      /\ timer \in BOOLEAN /\ (timer => HasInterval)
  BY <1>1 DEF TypeOK, BatchFits
<1>8. points \in Seq(S) /\ Len(points) \in Nat
  BY <1>6, ConcatProperties, LenProperties
<1>9. \A c \in Closers : closing[c] = "none" /\ closing'[c] = "none"
  BY <1>1, <1>4 DEF Joined
<1> HIDE DEF points, S
<1>10. CloseFlushes' /\ \A c \in Closers : Joined(c)'
  BY <1>9 DEF CloseFlushes, Joined
<1>11. batch \o points = Waiting \o New(n)
  <2>1. batch \in Seq(S) /\ pending \in Seq(S) /\ New(n) \in Seq(S)
    BY <1>6
  <2>2. batch \o (pending \o New(n)) = (batch \o pending) \o New(n)
    BY <2>1, Reassociated
  <2> QED BY <2>2 DEF points, Waiting
<1>12. ASSUME Waiting' = batch \o points, droppedMetrics' = droppedMetrics
       PROVE  EveryPointCounted'
  BY <1>1, <1>3, <1>4, <1>5, <1>11, <1>12, Appended
<1>13. ASSUME /\ batch' \in Seq(S) /\ pending' \in Seq(S)
              /\ Len(batch') <= MaxBatchSize
              /\ Len(pending') <= MaxPendingMetrics
              /\ activeFlush' \in {"none", "sending", "resolved", "rejected"}
              /\ timer' \in BOOLEAN /\ (timer' => HasInterval)
              /\ droppedMetrics' \in Nat
              /\ EveryPointCounted'
       PROVE  TypeOK'
  <2>1. droppedMetrics' \in 0..MaxPoints
    <3>1. Len(sent') \in Nat /\ Len(Waiting') \in Nat
      BY <1>4, <1>6, <1>13, ConcatProperties, LenProperties DEF Waiting
    <3>2. Len(sent') + Len(Waiting') + droppedMetrics' = recorded'
      BY <1>13 DEF EveryPointCounted
    <3> QED BY <3>1, <3>2, <1>5, <1>13, BufferAssumption
  <2> QED BY <2>1, <1>1, <1>3, <1>4, <1>5, <1>6, <1>13 DEF TypeOK, S
<1>14. CASE /\ droppedMetrics' = droppedMetrics + n
            /\ UNCHANGED <<buffer, timer>>
  <2>1. UNCHANGED <<pending, batch, activeFlush, timer>> /\ Waiting' = Waiting
    BY <1>14 DEF buffer, Waiting
  <2>2. EveryPointCounted'
    <3>1. InOrder'
      BY <2>1, <1>1, <1>4 DEF EveryPointCounted, InOrder
    <3>2. Len(sent) \in Nat /\ Len(Waiting) \in Nat
      BY <1>1, WaitingIsTyped
    <3>3. Len(sent) + Len(Waiting) + droppedMetrics = recorded
      BY <1>1 DEF EveryPointCounted
    <3>4. Len(sent) + Len(Waiting) + (droppedMetrics + n) = recorded + n
      BY <3>2, <3>3, <1>5
    <3> QED BY <3>1, <3>4, <2>1, <1>3, <1>4, <1>14 DEF EveryPointCounted
  <2>3. TypeOK'
    <3>1. droppedMetrics' \in Nat
      BY <1>5, <1>14
    <3> QED BY <3>1, <2>1, <2>2, <1>6, <1>7, <1>13
  <2>4. BatchFits'
    BY <2>1, <1>1 DEF BatchFits
  <2>5. NothingStranded'
    BY <2>1, <1>1, <1>4, <1>10 DEF NothingStranded
  <2> QED BY <2>1, <2>2, <2>3, <2>4, <2>5, <1>10 DEF BufferInv
<1>15. CASE /\ Len(points) \in MaxBatchSize..MaxPendingMetrics
            /\ timer' = FALSE
            /\ Flush(points)
            /\ UNCHANGED droppedMetrics
  <2>1. Len(points) <= MaxPendingMetrics
    BY <1>5, <1>8, <1>15
  <2>2. /\ batch' \in Seq(S) /\ pending' \in Seq(S)
        /\ Len(batch') <= MaxBatchSize
        /\ Len(pending') <= MaxPendingMetrics
        /\ BatchFits'
        /\ Waiting' = batch \o points
        /\ activeFlush' \in {"sending", "resolved", "rejected"}
    BY <2>1, <1>1, <1>6, <1>7, <1>8, <1>15, FlushKeeps
  <2>3. EveryPointCounted'
    BY <2>2, <1>12, <1>15
  <2>4. TypeOK'
    BY <2>2, <2>3, <1>5, <1>13, <1>15
  <2>5. NothingStranded'
    BY <2>2, <1>10 DEF NothingStranded
  <2> QED BY <2>2, <2>3, <2>4, <2>5, <1>5, <1>10, <1>15 DEF BufferInv
<1>16. CASE /\ Len(points) <= MaxPendingMetrics
            /\ Len(points) < MaxBatchSize
            /\ pending' = points
            /\ ScheduleFlush(points)
            /\ UNCHANGED <<batch, activeFlush, droppedMetrics>>
  <2>1. timer' = (timer \/ (points # <<>> /\ HasInterval /\ ~closed))
    BY <1>16 DEF ScheduleFlush
  <2>2. timer' \in BOOLEAN /\ (timer' => HasInterval)
    BY <2>1, <1>7
  <2>3. Waiting' = batch \o points
    BY <1>16 DEF Waiting
  <2>4. EveryPointCounted'
    BY <2>3, <1>12, <1>16
  <2>5. TypeOK'
    BY <2>2, <2>4, <1>5, <1>6, <1>7, <1>8, <1>13, <1>16
  <2>6. BatchFits'
    BY <1>1, <1>16 DEF BatchFits
  <2>7. NothingStranded'
    BY <2>1, <1>10, <1>16, <1>4 DEF NothingStranded
  <2> QED BY <2>4, <2>5, <2>6, <2>7, <1>5, <1>10, <1>16 DEF BufferInv
<1> QED BY <1>3, <1>14, <1>15, <1>16
----------------------------------------------------------------------------
\* The theorems

LEMMA StepKeepsInv == BufferInv /\ [Next]_vars => BufferInv'
<1> SUFFICES ASSUME BufferInv, [Next]_vars PROVE BufferInv'
  OBVIOUS
<1>1. CASE OnEvent
  BY <1>1, EventKeeps
<1>2. CASE CallFlush
  BY <1>2, StartOfFlush DEF CallFlush
<1>3. CASE TimerFires
  BY <1>3, StartOfFlush DEF TimerFires
<1>4. CASE SendSucceeds
  BY <1>4, SuccessKeeps
<1>5. CASE SendFails
  BY <1>5, FailureKeeps
<1>6. CASE Settle
  BY <1>6, SettleKeeps
<1>7. CASE \E c \in Closers : Close(c)
  BY <1>7, CloseKeeps
<1>8. CASE UNCHANGED vars
  BY <1>8 DEF vars, buffer, history, BufferInv, TypeOK, BatchFits,
              EveryPointCounted, InOrder, NothingStranded, CloseFlushes, Joined,
              Waiting
<1> QED BY <1>1, <1>2, <1>3, <1>4, <1>5, <1>6, <1>7, <1>8 DEF Next

\* The points, the flush and the calls of close() agree in every reachable
\* state: the buffer that onEvent(), flush(), close() and the timer share is
\* never left half-changed between two of them.
THEOREM BufferInvHolds == Spec => []BufferInv
<1>1. Init => BufferInv
  BY InvInit
<1>2. BufferInv /\ [Next]_vars => BufferInv'
  BY StepKeepsInv
<1> QED BY <1>1, <1>2, PTL DEF Spec

\* The buffer never holds more than its cap, nor a request more than a batch:
\* that pushes, splices and put-backs respect maxPendingMetrics.
THEOREM TypeCorrect == Spec => []TypeOK
<1>1. BufferInv => TypeOK
  BY DEF BufferInv
<1> QED BY <1>1, BufferInvHolds, PTL

\* Whatever fails and whatever the sizes, each point is sent, on its way,
\* waiting or counted in droppedMetrics, once and in the order of recording.
THEOREM EveryPointCountedHolds == Spec => []EveryPointCounted
<1>1. BufferInv => EveryPointCounted
  BY DEF BufferInv
<1> QED BY <1>1, BufferInvHolds, PTL

\* Points that wait have a flush or a timer coming, and close() that answers in
\* time leaves none.
THEOREM NothingStrandedHolds == Spec => []NothingStranded
<1>1. BufferInv => NothingStranded
  BY DEF BufferInv
<1> QED BY <1>1, BufferInvHolds, PTL

\* Where there is no room, the youngest points go: what is kept is what waited
\* before, from its beginning.
THEOREM OldestAreKeptHolds == Spec => OldestAreKept
<1> DEFINE Kept == droppedMetrics' > droppedMetrics =>
                     SubSeq(Waiting, 1, Len(Waiting')) = Waiting'
<1>1. BufferInv /\ [Next]_vars => [Kept]_vars
  <2> SUFFICES ASSUME BufferInv, Next, droppedMetrics' > droppedMetrics
               PROVE  SubSeq(Waiting, 1, Len(Waiting')) = Waiting'
    OBVIOUS
  <2>1. droppedMetrics \in Int /\ Waiting \in Seq(1..recorded)
    BY WaitingIsTyped, BufferAssumption DEF BufferInv, TypeOK
  <2>2. CASE OnEvent
    <3>1. Waiting' = Waiting
      BY <2>2, EventKeeps
    <3> QED BY <3>1, <2>1, SubSeqFull
  <2>3. CASE SendFails
    <3>1. /\ Overflow \in Nat /\ Waiting' \in Seq(1..recorded)
          /\ Shortens(Waiting', Waiting, Overflow)
      BY <2>3, FailureKeeps
    <3> QED BY <3>1, <2>1, BeginningIsSubSeq
  <2>4. CASE \/ CallFlush \/ TimerFires \/ SendSucceeds \/ Settle
             \/ \E c \in Closers : Close(c)
    BY <2>1, <2>4 DEF CallFlush, TimerFires, SendSucceeds, Settle, Close
  <2> QED BY <2>2, <2>3, <2>4 DEF Next
<1> QED BY <1>1, BufferInvHolds, PTL DEF Spec, OldestAreKept
=============================================================================
