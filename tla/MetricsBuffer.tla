--------------------------- MODULE MetricsBuffer ---------------------------
(***************************************************************************)
(* The buffered metrics writer of src/src/cloudwatch-metrics.ts: points    *)
(* wait in `pending`, one flush at a time sends them in batches, a failed  *)
(* batch goes back in front, and a cap bounds what waits.                  *)
(*                                                                         *)
(* A step is what runs between two awaits.  A flush whose loop is over     *)
(* stays the active one until its caller's code resumes (Settle); anything *)
(* else that is ready to run may run before that.                          *)
(***************************************************************************)
EXTENDS Integers, Sequences

CONSTANTS EventSizes,         \* how many points an event maps to
          MaxBatchSize,
          MaxPendingMetrics,
          HasInterval,        \* flushIntervalMs is not 0
          Closers,            \* calls of close()
          MaxPoints           \* bound on the points of all events

ASSUME BufferAssumption ==
  /\ EventSizes \subseteq Nat \ {0}
  /\ MaxBatchSize \in Nat \ {0}
  /\ MaxPendingMetrics \in Nat \ {0}
  /\ HasInterval \in BOOLEAN
  /\ MaxPoints \in Nat

VARIABLES pending,        \* points, oldest first; a point is its number
          batch,          \* the points of the request under way
          activeFlush,    \* the state of the active flush, if there is one
          timer,          \* whether the timer is armed
          closed,
          droppedMetrics,
          closing,        \* the calls of close()
          recorded,       \* history: how many points there have been
          sent            \* history: the points CloudWatch has confirmed

buffer  == <<pending, batch, activeFlush>>
history == <<recorded, sent>>
vars    == <<buffer, timer, closed, droppedMetrics, closing, history>>

\* late: it joined a flush whose loop was over already.
TypeOK ==
  /\ pending \in Seq(1..recorded) /\ Len(pending) <= MaxPendingMetrics
  /\ batch \in Seq(1..recorded) /\ Len(batch) <= MaxBatchSize
  /\ activeFlush \in {"none", "sending", "resolved", "rejected"}
  /\ timer \in BOOLEAN /\ (timer => HasInterval)
  /\ closed \in BOOLEAN
  /\ droppedMetrics \in 0..MaxPoints
  /\ closing \in [Closers -> {"none", "waiting", "late", "flushed", "missed",
                              "failed"}]
  /\ recorded \in 0..MaxPoints
  /\ sent \in Seq(1..recorded)

Init ==
  /\ pending = <<>> /\ batch = <<>> /\ activeFlush = "none"
  /\ timer = FALSE /\ closed = FALSE
  /\ droppedMetrics = 0
  /\ closing = [c \in Closers |-> "none"]
  /\ recorded = 0 /\ sent = <<>>

Least(a, b)    == IF a < b THEN a ELSE b
Greatest(a, b) == IF a > b THEN a ELSE b

\* The oldest points, and the others.
Taken(points) == SubSeq(points, 1, Least(MaxBatchSize, Len(points)))
Left(points)  == SubSeq(points, MaxBatchSize + 1, Len(points))
----------------------------------------------------------------------------
\* The head of the loop of flushPending().
SendNext(points) ==
  /\ batch' = Taken(points)
  /\ pending' = Left(points)
  /\ activeFlush' = IF points # <<>> THEN "sending" ELSE "resolved"

\* flush() with `points` waiting, apart from the timer.
Flush(points) ==
  IF activeFlush = "none" THEN SendNext(points)
  ELSE pending' = points /\ UNCHANGED <<batch, activeFlush>>

\* A timer, unless one is armed or none is wanted.
ScheduleFlush(points) ==
  timer' = (timer \/ (points # <<>> /\ HasInterval /\ ~closed))

\* onEvent: all points of an event are buffered, or all are dropped.
OnEvent ==
  /\ ~closed
  /\ \E n \in EventSizes :
       LET points == pending \o [i \in 1..n |-> recorded + i] IN
       /\ recorded + n <= MaxPoints
       /\ recorded' = recorded + n
       /\ \/ /\ Len(points) > MaxPendingMetrics
             /\ droppedMetrics' = droppedMetrics + n
             /\ UNCHANGED <<buffer, timer>>
          \/ /\ Len(points) \in MaxBatchSize..MaxPendingMetrics
             /\ timer' = FALSE
             /\ Flush(points)
             /\ UNCHANGED droppedMetrics
          \/ /\ Len(points) <= MaxPendingMetrics
             /\ Len(points) < MaxBatchSize
             /\ pending' = points
             /\ ScheduleFlush(points)
             /\ UNCHANGED <<batch, activeFlush, droppedMetrics>>
  /\ UNCHANGED <<closed, closing, sent>>

\* flush() called by the application: it starts a flush or joins one.
CallFlush ==
  /\ activeFlush = "none"
  /\ timer' = FALSE
  /\ Flush(pending)
  /\ UNCHANGED <<closed, droppedMetrics, closing, history>>

TimerFires ==
  /\ timer
  /\ timer' = FALSE
  /\ Flush(pending)
  /\ UNCHANGED <<closed, droppedMetrics, closing, history>>

\* Mutant: one batch only.
SendOnlyOne ==
  /\ activeFlush = "sending"
  /\ sent' = sent \o batch
  /\ batch' = <<>> /\ activeFlush' = "resolved"
  /\ UNCHANGED <<pending, timer, closed, droppedMetrics, closing, recorded>>

SendSucceeds ==
  /\ activeFlush = "sending"
  /\ sent' = sent \o batch
  /\ SendNext(pending)
  /\ UNCHANGED <<timer, closed, droppedMetrics, closing, recorded>>

\* Mutant: only what is queued counts against the cap.
OverflowOfQueue == Greatest(0, Len(pending) - MaxPendingMetrics)
Overflow == Greatest(0, Len(pending) + Len(batch) - MaxPendingMetrics)

\* Mutants: the failed batch goes behind what waits; the oldest points make
\* room; the batch is not put back.
RequeuedBehind   == SubSeq(pending, 1, Len(pending) - Overflow) \o batch
RequeuedYoungest ==
  SubSeq(batch \o pending, Overflow + 1, Len(batch) + Len(pending))
NotRequeued      == pending
Requeued         == batch \o SubSeq(pending, 1, Len(pending) - Overflow)

SendFails ==
  /\ activeFlush = "sending"
  /\ pending' = Requeued
  /\ batch' = <<>> /\ activeFlush' = "rejected"
  /\ droppedMetrics' = droppedMetrics + Overflow
  /\ UNCHANGED <<timer, closed, closing, history>>

\* What a call of close() answers when the flush it awaits is over.
Answer(c) ==
  IF closing[c] \notin {"waiting", "late"} THEN closing[c]
  ELSE IF activeFlush = "rejected" THEN "failed"
  ELSE IF closing[c] = "waiting" THEN "flushed" ELSE "missed"

\* Mutants: the active flush is not forgotten; no timer for what is left.
SettleForgettingNothing ==
  /\ activeFlush \in {"resolved", "rejected"}
  /\ ScheduleFlush(pending)
  /\ closing' = [c \in Closers |-> Answer(c)]
  /\ UNCHANGED <<buffer, closed, droppedMetrics, history>>

SettleUnscheduled ==
  /\ activeFlush \in {"resolved", "rejected"}
  /\ activeFlush' = "none"
  /\ closing' = [c \in Closers |-> Answer(c)]
  /\ UNCHANGED <<pending, batch, timer, closed, droppedMetrics, history>>

\* flush() and its callers resume.
Settle ==
  /\ activeFlush \in {"resolved", "rejected"}
  /\ activeFlush' = "none"
  /\ ScheduleFlush(pending)
  /\ closing' = [c \in Closers |-> Answer(c)]
  /\ UNCHANGED <<pending, batch, closed, droppedMetrics, history>>

Close(c) ==
  /\ closing[c] = "none"
  /\ closed' = TRUE
  /\ timer' = FALSE
  /\ closing' = [closing EXCEPT ![c] =
                   IF activeFlush \in {"resolved", "rejected"} THEN "late"
                   ELSE "waiting"]
  /\ Flush(pending)
  /\ UNCHANGED <<droppedMetrics, history>>

Next ==
  \/ OnEvent \/ CallFlush \/ TimerFires
  \/ SendSucceeds \/ SendFails \/ Settle
  \/ \E c \in Closers : Close(c)

Spec == Init /\ [][Next]_vars

\* Timers fire, the code resumes, requests are answered, and a request that is
\* made again and again succeeds in the end.
FairSpec ==
  /\ Spec
  /\ WF_vars(TimerFires) /\ WF_vars(Settle)
  /\ WF_vars(SendSucceeds \/ SendFails) /\ SF_vars(SendSucceeds)
----------------------------------------------------------------------------
Waiting == batch \o pending

InOrder ==
  LET points == sent \o Waiting IN
  \A i, j \in DOMAIN points : i < j => points[i] < points[j]

\* Every point is confirmed, on its way, waiting or counted as dropped, once
\* and in the order of recording: a failed batch goes back to its place in
\* front of what has come since, and the cap loses nothing silently.
EveryPointCounted ==
  /\ Len(sent) + Len(Waiting) + droppedMetrics = recorded
  /\ InOrder

\* close() leaves nothing behind when it succeeds, unless it came too late to
\* be noticed by the flush it joined.
CloseFlushes ==
  \A c \in Closers : closing[c] = "flushed" => Waiting = <<>>

\* While points wait, a flush is under way or a timer is armed for one; after
\* a close() that succeeded none wait.
NothingStranded ==
  /\ pending # <<>> /\ ~closed /\ HasInterval => timer \/ activeFlush # "none"
  /\ CloseFlushes

\* Whatever is dropped for want of room is younger than all that is kept.
OldestAreKept ==
  [][droppedMetrics' > droppedMetrics =>
       SubSeq(Waiting, 1, Len(Waiting')) = Waiting']_vars

\* Unless the writer is closed, all that was recorded and not dropped is sent.
EverythingIsSent == HasInterval => <>[](closed \/ Waiting = <<>>)
=============================================================================
