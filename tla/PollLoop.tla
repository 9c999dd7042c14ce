------------------------------ MODULE PollLoop ------------------------------
(***************************************************************************)
(* One worker's poll loop in src/src/poller.ts: start(), stop(), the       *)
(* receive, the dispatch of jobs into semaphore slots, and the bounded     *)
(* drain.  Each call of start() is a loop, each call of stop() a stop, and *)
(* each performBoundedDrain() a drain; all share the poller's fields.      *)
(* JavaScript runs each from one await to its next without interruption.   *)
(* A job is opaque here: it waits for a slot, acquires its lease, executes *)
(* its handler and ends; PollerJobs has what it does.                      *)
(***************************************************************************)
EXTENDS Integers, Sequences, FiniteSets

CONSTANTS Loops,            \* calls of start()
          Stops,            \* calls of stop()
          JobCount,         \* bound on the messages received
          MaxConcurrency, BatchSize,
          Overlap,          \* may start() be called while an earlier start()
                            \* or a stop() has not resolved?
          NoOne

Jobs   == 1..JobCount
Drains == Loops \cup Stops   \* a drain is named after the call that began it

Least(a, b) == IF a < b THEN a ELSE b

ASSUME LoopAssumption ==
  /\ JobCount \in Nat
  /\ MaxConcurrency \in Nat \ {0}
  /\ BatchSize \in 1..10
  /\ Overlap \in BOOLEAN
  /\ Loops \cap Stops = {} /\ NoOne \notin Loops \cup Stops

VARIABLES running,
          loop,             \* where each start() is
          asked,            \* MaxNumberOfMessages of its last receive
          activeReceive,    \* the loop whose receive stop() would await
          stop,             \* where each stop() is
          awaited,          \* the drain each call awaits
          shutdownPromise,
          drain,            \* the phase of each drain
          snapshot,         \* the jobs it waits for
          job, aborted,     \* each job, and whether its signal is aborted
          active, waiters, held

fields == <<running, activeReceive, shutdownPromise>>
calls  == <<loop, asked, stop, awaited>>
drains == <<drain, snapshot>>
jobs   == <<job, aborted, active, waiters, held>>
vars   == <<fields, calls, drains, jobs>>

Slots == INSTANCE Semaphore WITH Callers <- Jobs

TypeOK ==
  /\ running \in BOOLEAN
  /\ loop \in [Loops -> {"idle", "top", "receiving", "sleeping", "returning",
                         "drain", "draining", "resolved"}]
  /\ asked \in [Loops -> 0..Least(MaxConcurrency, BatchSize)]
  /\ activeReceive \in Loops \cup {NoOne}
  /\ stop \in [Stops -> {"idle", "receive", "drain", "draining", "resolved"}]
  /\ awaited \in [Drains -> Drains \cup {NoOne}]
  /\ shutdownPromise \in Drains \cup {NoOne}
  /\ drain \in [Drains -> {"none", "grace", "cleanup", "over"}]
  /\ snapshot \in [Drains -> SUBSET Jobs]
  /\ job \in [Jobs -> {"unborn", "waiting", "acquiring", "executing", "ended"}]
  /\ aborted \in [Jobs -> BOOLEAN]
  /\ Slots!TypeOK

Init ==
  /\ running = FALSE /\ activeReceive = NoOne /\ shutdownPromise = NoOne
  /\ loop = [l \in Loops |-> "idle"] /\ asked = [l \in Loops |-> 0]
  /\ stop = [s \in Stops |-> "idle"]
  /\ awaited = [d \in Drains |-> NoOne]
  /\ drain = [d \in Drains |-> "none"] /\ snapshot = [d \in Drains |-> {}]
  /\ job = [j \in Jobs |-> "unborn"] /\ aborted = [j \in Jobs |-> FALSE]
  /\ Slots!Init

InFlight == {j \in Jobs : job[j] \in {"waiting", "acquiring", "executing"}}
ActiveExecutions == {j \in Jobs : job[j] = "executing"}
Unborn   == {j \in Jobs : job[j] = "unborn"}
LoopAt(l, p)  == loop' = [loop EXCEPT ![l] = p]
StopAt(s, p)  == stop' = [stop EXCEPT ![s] = p]
----------------------------------------------------------------------------
(* The loop                                                                *)

Settled == /\ \A l \in Loops : loop[l] \in {"idle", "resolved"}
           /\ \A s \in Stops : stop[s] \in {"idle", "resolved"}

\* start() on a poller that is running is a no-op and not taken here.
Start(l) ==
  /\ loop[l] = "idle" /\ ~running
  /\ Overlap \/ Settled
  /\ running' = TRUE /\ shutdownPromise' = NoOne
  /\ LoopAt(l, "top")
  /\ UNCHANGED <<activeReceive, asked, stop, awaited, drains, jobs>>

\* Mutants: the slots in use are not looked at, or taken off the batch size.
CapacityIgnoringUse == Least(MaxConcurrency, BatchSize)
CapacityOfBatch     == BatchSize - active - Len(waiters)
AvailableCapacity == Least(MaxConcurrency - active - Len(waiters), BatchSize)

\* The while condition, and the receive or the pause behind it.
Top(l) ==
  /\ loop[l] = "top"
  /\ \/ /\ ~running
        /\ LoopAt(l, "drain")
        /\ UNCHANGED <<asked, activeReceive>>
     \/ /\ running /\ AvailableCapacity <= 0
        /\ LoopAt(l, "sleeping")
        /\ UNCHANGED <<asked, activeReceive>>
     \/ /\ running /\ AvailableCapacity > 0
        /\ LoopAt(l, "receiving")
        /\ asked' = [asked EXCEPT ![l] = AvailableCapacity]
        /\ activeReceive' = l
  /\ UNCHANGED <<running, shutdownPromise, stop, awaited, drains, jobs>>

\* The pause is over, or stop() cut it short.
Wake(l) ==
  /\ loop[l] = "sleeping"
  /\ LoopAt(l, "top")
  /\ UNCHANGED <<fields, asked, stop, awaited, drains, jobs>>

ReceiveSettles(l) ==
  activeReceive' = IF activeReceive = l THEN NoOne ELSE activeReceive

\* The jobs n messages become: process() starts in order, each as soon as it
\* has a slot.
Dispatch(n) ==
  LET first == Cardinality(Jobs \ Unborn)
      batch == [i \in 1..n |-> first + i]
  IN  /\ Slots!AcquireInOrder(batch)
      /\ job' = [j \in Jobs |->
                   IF j \notin first + 1 .. first + n THEN job[j]
                   ELSE IF j \in held' THEN "acquiring" ELSE "waiting"]
      /\ UNCHANGED aborted

\* Messages that arrive after stop() go back to the queue.
Received(l) ==
  /\ loop[l] = "receiving"
  /\ ReceiveSettles(l)
  /\ \E n \in 0 .. Least(asked[l], Cardinality(Unborn)) :
       \/ /\ ~running
          /\ LoopAt(l, "returning")
          /\ UNCHANGED jobs
       \/ /\ running
          /\ LoopAt(l, "top")
          /\ Dispatch(n)
  /\ UNCHANGED <<running, shutdownPromise, asked, stop, awaited, drains>>

\* The receive errs, or stop() aborted it.
ReceiveFails(l) ==
  /\ loop[l] = "receiving"
  /\ ReceiveSettles(l)
  /\ LoopAt(l, IF running THEN "sleeping" ELSE "drain")
  /\ UNCHANGED <<running, shutdownPromise, asked, stop, awaited, drains, jobs>>

Returned(l) ==
  /\ loop[l] = "returning"
  /\ LoopAt(l, "drain")
  /\ UNCHANGED <<fields, asked, stop, awaited, drains, jobs>>
----------------------------------------------------------------------------
(* stop() and the bounded drain                                            *)

\* Mutant: stop() does not wait for the receive it aborts.
StopAtOnce(s) ==
  /\ stop[s] = "idle"
  /\ running' = FALSE
  /\ StopAt(s, "drain")
  /\ UNCHANGED <<activeReceive, shutdownPromise, loop, asked, awaited, drains,
                 jobs>>

Stop(s) ==
  /\ stop[s] = "idle"
  /\ running' = FALSE
  /\ StopAt(s, IF activeReceive = NoOne THEN "drain" ELSE "receive")
  /\ awaited' = [awaited EXCEPT ![s] = activeReceive]
  /\ UNCHANGED <<activeReceive, shutdownPromise, loop, asked, drains, jobs>>

\* await this.activeReceive: the request that was active when s was called.
StopReceiveSettled(s) ==
  /\ stop[s] = "receive"
  /\ loop[awaited[s]] # "receiving"
  /\ StopAt(s, "drain")
  /\ awaited' = [awaited EXCEPT ![s] = NoOne]
  /\ UNCHANGED <<fields, loop, asked, drains, jobs>>

\* shutdownPromise ??= performBoundedDrain(): the first call begins it.
ShutdownAndDrain(c) ==
  IF shutdownPromise = NoOne
  THEN /\ shutdownPromise' = c
       /\ awaited' = [awaited EXCEPT ![c] = c]
       /\ drain' = [drain EXCEPT ![c] =
                      IF InFlight = {} THEN "over" ELSE "grace"]
       /\ snapshot' = [snapshot EXCEPT ![c] = InFlight]
  ELSE /\ awaited' = [awaited EXCEPT ![c] = shutdownPromise]
       /\ UNCHANGED <<shutdownPromise, drains>>

LoopDrains(l) ==
  /\ loop[l] = "drain"
  /\ LoopAt(l, "draining")
  /\ ShutdownAndDrain(l)
  /\ UNCHANGED <<running, activeReceive, asked, stop, jobs>>

StopDrains(s) ==
  /\ stop[s] = "drain"
  /\ StopAt(s, "draining")
  /\ ShutdownAndDrain(s)
  /\ UNCHANGED <<running, activeReceive, loop, asked, jobs>>

\* Every job of the snapshot has ended.
Drained(d) ==
  /\ drain[d] \in {"grace", "cleanup"}
  /\ snapshot[d] \cap InFlight = {}
  /\ drain' = [drain EXCEPT ![d] = "over"]
  /\ UNCHANGED <<fields, calls, snapshot, jobs>>

\* shutdownTimeoutMs is over: abort what is registered as executing, then
\* wait for whatever is in flight now, for a bounded time again.
GraceOver(d) ==
  /\ drain[d] = "grace" /\ snapshot[d] \cap InFlight # {}
  /\ aborted' = [j \in Jobs |-> aborted[j] \/ j \in ActiveExecutions]
  /\ drain' = [drain EXCEPT ![d] = "cleanup"]
  /\ snapshot' = [snapshot EXCEPT ![d] = InFlight]
  /\ UNCHANGED <<fields, calls, job, active, waiters, held>>

\* Mutant: the wait after the abort has no bound.
CleanupUnbounded(d) == FALSE /\ UNCHANGED vars

CleanupOver(d) ==
  /\ drain[d] = "cleanup" /\ snapshot[d] \cap InFlight # {}
  /\ drain' = [drain EXCEPT ![d] = "over"]
  /\ UNCHANGED <<fields, calls, snapshot, jobs>>

LoopResolves(l) ==
  /\ loop[l] = "draining" /\ drain[awaited[l]] = "over"
  /\ LoopAt(l, "resolved")
  /\ UNCHANGED <<fields, asked, stop, awaited, drains, jobs>>

StopResolves(s) ==
  /\ stop[s] = "draining" /\ drain[awaited[s]] = "over"
  /\ StopAt(s, "resolved")
  /\ UNCHANGED <<fields, loop, asked, awaited, drains, jobs>>
----------------------------------------------------------------------------
(* The jobs                                                                *)

Acquired(j) ==
  /\ job[j] = "acquiring"
  /\ job' = [job EXCEPT ![j] = "executing"]
  /\ UNCHANGED <<fields, calls, drains, aborted, active, waiters, held>>

\* process() is over and the slot goes to the job that has waited longest.
Ends(j) ==
  /\ job[j] \in {"acquiring", "executing"}
  /\ Slots!Release(j)
  /\ job' = [i \in Jobs |->
               IF i = j THEN "ended"
               ELSE IF job[i] = "waiting" /\ i \in held' THEN "acquiring"
               ELSE job[i]]
  /\ UNCHANGED <<fields, calls, drains, aborted>>
----------------------------------------------------------------------------
LoopStep(l) ==
  \/ Top(l) \/ Wake(l) \/ Received(l) \/ ReceiveFails(l) \/ Returned(l)
  \/ LoopDrains(l) \/ LoopResolves(l)

StopStep(s)  == StopReceiveSettled(s) \/ StopDrains(s) \/ StopResolves(s)
DrainStep(d) == Drained(d) \/ GraceOver(d) \/ CleanupOver(d)

Next ==
  \/ \E l \in Loops : Start(l) \/ LoopStep(l)
  \/ \E s \in Stops : Stop(s) \/ StopStep(s)
  \/ \E d \in Drains : DrainStep(d)
  \/ \E j \in Jobs : Acquired(j) \/ Ends(j)

Spec == Init /\ [][Next]_vars

\* Receives are answered, timers fire and awaiting code resumes.  No job is
\* promised to end, and nobody is promised to call stop().
Fairness ==
  /\ \A l \in Loops  : WF_vars(LoopStep(l))
  /\ \A s \in Stops  : WF_vars(StopStep(s))
  /\ \A d \in Drains : WF_vars(DrainStep(d))

FairSpec == Spec /\ Fairness
----------------------------------------------------------------------------
\* poller.ts:217-218 of the source: only what there is room for is fetched.
\* The capacity read before the receive still stands when its messages come:
\* no job waits for a slot while the visibility timeout of its message runs.
NeverWaits == waiters = <<>>

\* Once every stop() has resolved, and until the next start(), no receive is
\* out that could still bring a message, and what is in flight was waited for
\* until the drain's last deadline.
StoppedIsQuiet ==
  ~running /\ (\A s \in Stops : stop[s] \in {"idle", "resolved"}) =>
    /\ \A l \in Loops : loop[l] # "receiving"
    /\ InFlight # {} => /\ shutdownPromise # NoOne
                       /\ drain[shutdownPromise] = "over"
                       /\ InFlight \subseteq snapshot[shutdownPromise]

\* stop() resolves, and so does start() once the poller is stopped, even if
\* no job ever ends.
ShutdownEnds ==
  /\ \A s \in Stops : stop[s] # "idle" ~> stop[s] = "resolved"
  /\ \A l \in Loops :
       loop[l] # "idle" /\ ~running ~> loop[l] = "resolved"
=============================================================================
