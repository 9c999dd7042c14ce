----------------------------- MODULE PollerJobs -----------------------------
(***************************************************************************)
(* The life of a message in src/src/poller.ts: worker processes receive    *)
(* messages of one SQS queue and run process() for each of them, all       *)
(* sharing one idempotency table.  Two messages may carry the same key.    *)
(*                                                                         *)
(* A task is one call of process(); it is also the owner token drawn for   *)
(* it.  Between two awaits a task runs without interruption, so a step is  *)
(* the code from one await to the next, or one effect of an awaited call   *)
(* on the table or the queue.  A call may fail with or without its effect. *)
(*                                                                         *)
(* There is no clock here.  That a lease lapses, that a record outlives    *)
(* its retention or that a message becomes visible again are events that   *)
(* can happen at any moment, as they can to a worker that is paused for    *)
(* long enough; IdempotencyStore has the clock arithmetic behind them.     *)
(* Receiving is taken message by message; the loop that does it is start() *)
(* in src/src/poller.ts.                                                   *)
(***************************************************************************)
EXTENDS Integers, FiniteSets

CONSTANTS Workers, Messages, Keys, Tasks,
          KeyOf,             \* the idempotency key each message carries
          Concurrency,       \* WorkerOptions.concurrency
          MaxReceiveCount,   \* the queue's redrive policy
          Stable,            \* workers that are neither stopped nor killed
          Backlogs,          \* the queues that the workers may find
          None

ASSUME JobsAssumption ==
  /\ KeyOf \in [Messages -> Keys]
  /\ Concurrency \in Nat \ {0}
  /\ MaxReceiveCount \in Nat \ {0}
  /\ Stable \subseteq Workers
  /\ Backlogs \subseteq
       [Messages -> [state : {"visible", "dead"}, receives : 0..MaxReceiveCount,
                     receipt : {None}]]
  /\ None \notin Workers \cup Messages \cup Tasks

VARIABLES table,     \* the DynamoDB table
          queue,     \* the SQS queue and its dead-letter queue
          worker,    \* the worker processes
          task,      \* the calls of process()
          lapsed,    \* history: keys one of whose leases has lapsed
          forgotten  \* history: keys whose completed record was removed

vars == <<table, queue, worker, task, lapsed, forgotten>>

Acquiring == {"update", "granted", "read"}
Executing == {"run", "join"}
Settling  == {"release", "complete", "delete", "acknowledge"}
\* A call of process() is over, resolved or rejected, or its process is gone.
Ended     == {"over", "crashed"}

Entry ==
  [state  : {"ABSENT", "IN_PROGRESS", "COMPLETED", "FAILED"},
   owner  : Tasks \cup {None},
   lapsed : BOOLEAN]

Delivery ==
  [state    : {"visible", "inflight", "deleted", "dead"},
   receives : 0..MaxReceiveCount,
   receipt  : Tasks \cup {None}]     \* holder of the latest receipt handle

Task ==
  [pc        : {"unborn"} \cup Acquiring \cup Executing \cup Settling \cup Ended,
   home      : Workers \cup {None},
   message   : Messages \cup {None},
   attempt   : {0, 1},
   handler   : {"none", "running", "returned", "threw"},
   heartbeat : {"off", "waiting", "renewing", "extending", "stopped", "failed"},
   cancelled : BOOLEAN]              \* aborted by the shutdown timeout

TypeOK ==
  /\ table \in [Keys -> Entry]
  /\ queue \in [Messages -> Delivery]
  /\ worker \in [Workers -> {"up", "stopping", "timedout", "down"}]
  /\ task \in [Tasks -> Task]
  /\ lapsed \in [Keys -> BOOLEAN]
  /\ forgotten \in [Keys -> BOOLEAN]

Free   == [state |-> "ABSENT", owner |-> None, lapsed |-> FALSE]
Unborn == [pc |-> "unborn", home |-> None, message |-> None, attempt |-> 0,
           handler |-> "none", heartbeat |-> "off", cancelled |-> FALSE]

Init ==
  /\ table = [k \in Keys |-> Free]
  /\ queue \in Backlogs
  /\ worker = [w \in Workers |-> "up"]
  /\ task = [t \in Tasks |-> Unborn]
  /\ lapsed = [k \in Keys |-> FALSE]
  /\ forgotten = [k \in Keys |-> FALSE]
----------------------------------------------------------------------------
pc(t)     == task[t].pc
Key(t)    == KeyOf[task[t].message]
Alive(t)  == pc(t) \notin {"unborn"} \cup Ended

\* handlerController.signal.aborted, heartbeatController.signal.aborted
Aborted(t)          == task[t].cancelled \/ task[t].heartbeat = "failed"
\* Mutant: the end of the handler does not abort the heartbeat's loop.
AbortedByShutdownOnly(t) == task[t].cancelled
HeartbeatAborted(t) == task[t].cancelled \/ pc(t) = "join"

\* Mutants: a write that checks the state and not the owner token; a takeover
\* of every record in progress, and of every record that is not held.
OwnedByAnyone(t) == table[Key(t)].state = "IN_PROGRESS"

GrantableInProgress(t) == table[Key(t)].state \in {"ABSENT", "IN_PROGRESS"}

GrantableUnlessHeld(t) ==
  table[Key(t)].state = "IN_PROGRESS" => table[Key(t)].lapsed

Owned(t) ==
  table[Key(t)].state = "IN_PROGRESS" /\ table[Key(t)].owner = t

Grantable(t) ==
  \/ table[Key(t)].state = "ABSENT"
  \/ table[Key(t)].state = "IN_PROGRESS" /\ table[Key(t)].lapsed

\* acquireLock() counts its attempts and forgets them when it ends.
Goto(t, next) ==
  task' = [task EXCEPT ![t] =
             [task[t] EXCEPT !.pc = next,
                             !.attempt = IF next \in Acquiring THEN @ ELSE 0]]

Heartbeat(t, next) ==
  task' = [task EXCEPT ![t] = [task[t] EXCEPT !.heartbeat = next]]

Write(t, entry) == table' = [table EXCEPT ![Key(t)] = entry]
----------------------------------------------------------------------------
(* The queue: receiving, redelivery and redrive.                           *)

\* SQS hands m out: a new receipt handle, one more receive.
Receive(m, holder, state) ==
  /\ queue[m].state = "visible"
  /\ queue[m].receives < MaxReceiveCount
  /\ queue' = [queue EXCEPT ![m] =
                 [state |-> state, receives |-> queue[m].receives + 1,
                  receipt |-> holder]]

\* Mutant: slots that are never given back.
HasUnusedSlot(w) ==
  Cardinality({t \in Tasks : task[t].home = w}) < Concurrency

\* Free slots of w: what receive() asks for, so that dispatch() never waits.
HasCapacity(w) ==
  Cardinality({t \in Tasks : task[t].home = w /\ Alive(t)}) < Concurrency

Dispatch(w, m, t) ==
  /\ worker[w] = "up"
  /\ HasCapacity(w)
  /\ pc(t) = "unborn"
  /\ Receive(m, t, "inflight")
  /\ task' = [task EXCEPT ![t] =
                [task[t] EXCEPT !.pc = "update", !.home = w, !.message = m]]
  /\ UNCHANGED <<table, worker, lapsed, forgotten>>

\* stop() overtook the receive: returnUnstartedMessages makes the message
\* visible again, unless that call fails or the reply never arrived.
ReceiveInVain(w, m) ==
  /\ worker[w] # "down"
  /\ \/ worker[w] = "stopping" /\ Receive(m, None, "visible")
     \/ Receive(m, None, "inflight")
  /\ UNCHANGED <<table, worker, task, lapsed, forgotten>>

VisibilityLapses(m) ==
  /\ queue[m].state = "inflight"
  /\ queue' = [queue EXCEPT ![m] = [@ EXCEPT !.state = "visible"]]
  /\ UNCHANGED <<table, worker, task, lapsed, forgotten>>

Redrive(m) ==
  /\ queue[m].state = "visible"
  /\ queue[m].receives = MaxReceiveCount
  /\ queue' = [queue EXCEPT ![m] = [@ EXCEPT !.state = "dead"]]
  /\ UNCHANGED <<table, worker, task, lapsed, forgotten>>
----------------------------------------------------------------------------
(* acquireLock                                                             *)

UpdateGranted(t) ==
  /\ pc(t) = "update"
  /\ Grantable(t)
  /\ Write(t, [state |-> "IN_PROGRESS", owner |-> t, lapsed |-> FALSE])
  /\ Goto(t, "granted")
  /\ UNCHANGED <<queue, worker, lapsed, forgotten>>

UpdateRejected(t) ==
  /\ pc(t) = "update"
  /\ ~Grantable(t)
  /\ Goto(t, "read")
  /\ UNCHANGED <<table, queue, worker, lapsed, forgotten>>

\* The update's reply is lost and the SDK resends it.
UpdateResent(t) ==
  /\ pc(t) = "granted"
  /\ Goto(t, "update")
  /\ UNCHANGED <<table, queue, worker, lapsed, forgotten>>

\* Mutant: the loop bound off by one.
ThreeAttempts   == 3
AttemptsAllowed == 2

\* The record vanished since the update: try once more.
ReadAbsent(t) ==
  /\ pc(t) = "read"
  /\ table[Key(t)].state = "ABSENT"
  /\ IF task[t].attempt + 1 < AttemptsAllowed
     THEN task' = [task EXCEPT ![t] =
                     [task[t] EXCEPT !.pc = "update", !.attempt = @ + 1]]
     ELSE Goto(t, "over")
  /\ UNCHANGED <<table, queue, worker, lapsed, forgotten>>

\* Mutant: whatever is not acquired is taken for a finished duplicate.
KnownInAnyState(t) == table[Key(t)].state # "ABSENT"
KnownCompleted(t)  == table[Key(t)].state = "COMPLETED"

\* A completed job is acknowledged, any other is left to the queue.
ReadPresent(t) ==
  /\ pc(t) = "read"
  /\ table[Key(t)].state # "ABSENT"
  /\ Goto(t, IF KnownCompleted(t) THEN "acknowledge" ELSE "over")
  /\ UNCHANGED <<table, queue, worker, lapsed, forgotten>>

\* acquireLock rejects, and process() with it.
AcquireThrows(t) ==
  /\ pc(t) \in Acquiring
  /\ Goto(t, "over")
  /\ UNCHANGED <<table, queue, worker, lapsed, forgotten>>
----------------------------------------------------------------------------
(* The handler and the heartbeat beside it.                                *)

\* The reply to the update arrives: heartbeat and handler start.
StartJob(t) ==
  /\ pc(t) = "granted"
  /\ task' = [task EXCEPT ![t] =
                [task[t] EXCEPT !.pc = "run", !.attempt = 0,
                                !.handler = "running",
                                !.heartbeat = "waiting"]]
  /\ UNCHANGED <<table, queue, worker, lapsed, forgotten>>

\* The handler returns or throws, whatever its AbortSignal says; the
\* heartbeat is aborted, which ends a wait at once but no call in flight.
HandlerEnds(t) ==
  /\ pc(t) = "run"
  /\ \E end \in {"returned", "threw"} :
       task' = [task EXCEPT ![t] =
                  [task[t] EXCEPT !.pc = "join", !.handler = end,
                                  !.heartbeat = IF @ = "waiting" THEN "stopped"
                                                ELSE @]]
  /\ UNCHANGED <<table, queue, worker, lapsed, forgotten>>

HeartbeatFires(t) ==
  /\ task[t].heartbeat = "waiting"
  /\ Heartbeat(t, "renewing")
  /\ UNCHANGED <<table, queue, worker, lapsed, forgotten>>

\* renewLease: it does not look at the deadline, only at the owner.
Renew(t) ==
  /\ task[t].heartbeat = "renewing"
  /\ Owned(t)
  /\ Write(t, [state |-> "IN_PROGRESS", owner |-> t, lapsed |-> FALSE])
  /\ Heartbeat(t, "extending") \/ Heartbeat(t, "failed")
  /\ UNCHANGED <<queue, worker, lapsed, forgotten>>

\* changeVisibility: SQS refuses a message that is not in flight.
Extend(t) ==
  /\ task[t].heartbeat = "extending"
  /\ queue[task[t].message].state = "inflight"
  /\ Heartbeat(t, IF HeartbeatAborted(t) THEN "stopped" ELSE "waiting")
  /\ UNCHANGED <<table, queue, worker, lapsed, forgotten>>

\* The renewal is refused, or either call errs: the handler is aborted.
HeartbeatFails(t) ==
  /\ task[t].heartbeat \in {"renewing", "extending"}
  /\ Heartbeat(t, "failed")
  /\ UNCHANGED <<table, queue, worker, lapsed, forgotten>>

\* Mutants: a failed handler is looked at before a failed heartbeat; a
\* shutdown's abort is not looked at.
VerdictHandlerFirst(t) ==
  IF task[t].handler = "threw" THEN "release"
  ELSE IF task[t].heartbeat = "failed" THEN "over"
  ELSE IF Aborted(t) THEN "release" ELSE "complete"

VerdictIgnoringShutdown(t) ==
  IF task[t].heartbeat = "failed" THEN "over"
  ELSE IF task[t].handler = "threw" THEN "release" ELSE "complete"

\* What to settle: nothing once ownership is in doubt, nor a job that failed
\* or was cancelled.
Verdict(t) ==
  IF task[t].heartbeat = "failed" THEN "over"
  ELSE IF task[t].handler = "threw" \/ Aborted(t) THEN "release"
  ELSE "complete"

\* await heartbeat.
Join(t) ==
  /\ pc(t) = "join"
  /\ task[t].heartbeat \in {"stopped", "failed"}
  /\ Goto(t, Verdict(t))
  /\ UNCHANGED <<table, queue, worker, lapsed, forgotten>>
----------------------------------------------------------------------------
(* Settlement                                                              *)

\* safeRelease swallows every failure of releaseLock.
Release(t) ==
  /\ pc(t) = "release"
  /\ \/ Owned(t) /\ Write(t, Free)
     \/ UNCHANGED table
  /\ Goto(t, "over")
  /\ UNCHANGED <<queue, worker, lapsed, forgotten>>

MarkComplete(t) ==
  /\ pc(t) = "complete"
  /\ Owned(t)
  /\ Write(t, [state |-> "COMPLETED", owner |-> None, lapsed |-> FALSE])
  /\ Goto(t, "delete") \/ Goto(t, "over")
  /\ UNCHANGED <<queue, worker, lapsed, forgotten>>

\* Mutant: a job that could not be marked complete gives its lease back.
MarkCompleteFailsAndReleases(t) ==
  /\ pc(t) = "complete"
  /\ Owned(t) /\ Write(t, Free)
  /\ Goto(t, "over")
  /\ UNCHANGED <<queue, worker, lapsed, forgotten>>

\* The lease is kept: a retry may take over only after it expires.
MarkCompleteFails(t) ==
  /\ pc(t) = "complete"
  /\ Goto(t, "over")
  /\ UNCHANGED <<table, queue, worker, lapsed, forgotten>>

\* DeleteMessage succeeds: with the latest receipt handle the message is
\* gone, with an older one SQS may or may not remove it.
Delete(t) ==
  LET m == task[t].message IN
  \/ /\ queue[m].state \in {"visible", "inflight"}
     /\ queue' = [queue EXCEPT ![m] = [@ EXCEPT !.state = "deleted"]]
  \/ /\ queue[m].receipt # t \/ queue[m].state \in {"deleted", "dead"}
     /\ UNCHANGED queue

DeleteMessage(t) ==
  /\ pc(t) \in {"delete", "acknowledge"}
  /\ Delete(t)
  /\ Goto(t, "over")
  /\ UNCHANGED <<table, worker, lapsed, forgotten>>

DeleteFails(t) ==
  /\ pc(t) \in {"delete", "acknowledge"}
  /\ Delete(t) \/ UNCHANGED queue
  /\ Goto(t, "over")
  /\ UNCHANGED <<table, worker, lapsed, forgotten>>
----------------------------------------------------------------------------
(* The lease clock, the retention and the worker processes.                *)

LeaseLapses(k) ==
  /\ table[k].state = "IN_PROGRESS" /\ ~table[k].lapsed
  /\ table' = [table EXCEPT ![k] = [@ EXCEPT !.lapsed = TRUE]]
  /\ lapsed' = [lapsed EXCEPT ![k] = TRUE]
  /\ UNCHANGED <<queue, worker, task, forgotten>>

\* DynamoDB removes a record after the retention that its last write gave it.
\* A retention shorter than the lease, which the store accepts, is a lease
\* that lapses and is removed at once.
TtlDelete(k) ==
  /\ table[k].state \in {"COMPLETED", "FAILED"} \/ table[k].lapsed
  /\ table' = [table EXCEPT ![k] = Free]
  /\ forgotten' = [forgotten EXCEPT ![k] = @ \/ table[k].state = "COMPLETED"]
  /\ UNCHANGED <<queue, worker, task, lapsed>>

Stop(w) ==
  /\ worker[w] = "up" /\ w \notin Stable
  /\ worker' = [worker EXCEPT ![w] = "stopping"]
  /\ UNCHANGED <<table, queue, task, lapsed, forgotten>>

\* performBoundedDrain: when the grace period is over, the executions
\* registered in activeExecutions are aborted, heartbeat first.
ShutdownTimeout(w) ==
  /\ worker[w] = "stopping"
  /\ \E t \in Tasks : task[t].home = w /\ Alive(t)
  /\ worker' = [worker EXCEPT ![w] = "timedout"]
  /\ task' = [t \in Tasks |->
                IF task[t].home = w /\ pc(t) \in Executing
                THEN [task[t] EXCEPT !.cancelled = TRUE,
                                     !.heartbeat = IF @ = "waiting"
                                                   THEN "stopped" ELSE @]
                ELSE task[t]]
  /\ UNCHANGED <<table, queue, lapsed, forgotten>>

\* What is left of a call whose process is gone: that it was begun and, of a
\* handler that returned, whether the heartbeat had failed it.
Crashed(t) ==
  [task[t] EXCEPT !.pc = "crashed", !.attempt = 0,
     !.heartbeat = IF @ = "failed" /\ task[t].handler = "returned"
                   THEN @ ELSE "off"]

\* The process ends, stopped or not; its leases and messages stay behind.
Crash(w) ==
  /\ worker[w] # "down" /\ w \notin Stable
  /\ worker' = [worker EXCEPT ![w] = "down"]
  /\ task' = [t \in Tasks |-> IF task[t].home = w /\ Alive(t) THEN Crashed(t)
                              ELSE task[t]]
  /\ UNCHANGED <<table, queue, lapsed, forgotten>>

\* Bound: while there is a call left that the worker could begin.
Restart(w) ==
  /\ worker[w] = "down" /\ \E t \in Tasks : pc(t) = "unborn"
  /\ worker' = [worker EXCEPT ![w] = "up"]
  /\ UNCHANGED <<table, queue, task, lapsed, forgotten>>
----------------------------------------------------------------------------
Acquire(t) ==
  \/ UpdateGranted(t) \/ UpdateRejected(t) \/ UpdateResent(t)
  \/ ReadAbsent(t) \/ ReadPresent(t) \/ AcquireThrows(t)

Beat(t)   == Renew(t) \/ Extend(t) \/ HeartbeatFails(t)

Settle(t) ==
  \/ Release(t) \/ MarkComplete(t) \/ MarkCompleteFails(t)
  \/ DeleteMessage(t) \/ DeleteFails(t)

Process(t) ==
  \/ Acquire(t) \/ StartJob(t) \/ HandlerEnds(t)
  \/ HeartbeatFires(t) \/ Beat(t) \/ Join(t) \/ Settle(t)

Next ==
  \/ \E t \in Tasks : Process(t)
  \/ \E w \in Workers, m \in Messages, t \in Tasks : Dispatch(w, m, t)
  \/ \E w \in Workers, m \in Messages : ReceiveInVain(w, m)
  \/ \E m \in Messages : VisibilityLapses(m) \/ Redrive(m)
  \/ \E k \in Keys : LeaseLapses(k) \/ TtlDelete(k)
  \/ \E w \in Workers : Stop(w) \/ ShutdownTimeout(w) \/ Crash(w) \/ Restart(w)

Spec == Init /\ [][Next]_vars
----------------------------------------------------------------------------
\* m is in flight and no heartbeat extends it.
Unattended(m) ==
  \A t \in Tasks :
    queue[m].receipt = t =>
      task[t].heartbeat \notin {"waiting", "renewing", "extending"}

\* Awaited calls are answered and handlers end; SQS makes an unattended
\* message visible again and redrives it; a stable worker keeps receiving.
\* Neither stops, crashes, lapses of attended leases nor lost replies are
\* promised.
Fairness ==
  /\ \A t \in Tasks :
       /\ WF_vars(Acquire(t)) /\ SF_vars(StartJob(t))
       /\ WF_vars(HandlerEnds(t)) /\ WF_vars(Beat(t))
       /\ WF_vars(Join(t)) /\ WF_vars(Settle(t))
  /\ \A m \in Messages :
       /\ WF_vars(VisibilityLapses(m) /\ Unattended(m))
       /\ WF_vars(Redrive(m))
       /\ WF_vars(\E w \in Stable, t \in Tasks : Dispatch(w, m, t))

FairSpec == Spec /\ Fairness
----------------------------------------------------------------------------
\* The job of k is recorded as completed, or was until its retention was over.
WasCommitted(k) == table[k].state = "COMPLETED" \/ forgotten[k]

\* F5: a message is gone from the queue only if its job was recorded as
\* completed - by the task that ran it or before a duplicate arrived.
AckedIsCommitted ==
  \A m \in Messages : queue[m].state = "deleted" => WasCommitted(KeyOf[m])

\* A job is recorded as completed only if a handler for it returned, was not
\* cancelled by a shutdown and never had its ownership in doubt; once a
\* heartbeat has failed (F4), its task is past every settlement.
NoSettlementInDoubt ==
  \A t \in Tasks : task[t].heartbeat = "failed" => pc(t) \notin Settling

CommittedWasDone ==
  /\ NoSettlementInDoubt
  /\ \A k \in Keys :
       WasCommitted(k) =>
         \E t \in Tasks :
           /\ task[t].message # None /\ Key(t) = k
           /\ task[t].handler = "returned"
           /\ ~task[t].cancelled /\ task[t].heartbeat # "failed"

\* A job is run beside a running handler only if a lease lapsed, and after one
\* that returned only if a lease lapsed, its completed record outlived its
\* retention or a shutdown discarded the result: lost replies, failed
\* settlements, crashes and redelivered or duplicate messages alone do not
\* repeat it.
RepeatedOnlyAfterExpiry ==
  \A t, u \in Tasks :
    t # u /\ pc(u) = "run" /\ pc(t) # "unborn" /\ Key(t) = Key(u) =>
      /\ task[t].handler = "running" => lapsed[Key(t)]
      /\ task[t].handler = "returned" /\ ~task[t].cancelled =>
           lapsed[Key(t)] \/ forgotten[Key(t)]

\* A concurrency slot is never lost: every call of process() ends.  A call
\* that has ended does not begin again, so that this is the same as saying
\* that of finitely many calls none is under way in the end.
EveryTaskEnds == <>[](\A t \in Tasks : ~Alive(t))

\* No message circulates for ever: it is deleted or goes to the DLQ.
EveryMessageLeaves ==
  \A m \in Messages : <>[](queue[m].state \in {"deleted", "dead"})

\* README.md:201-203 of the source says that when shutdownTimeoutMs expires
\* the worker stops extending message visibility: no heartbeat is armed any
\* more, whatever was in flight at that moment.
TimedOutWorkerStopsExtending ==
  \A t \in Tasks :
    Alive(t) /\ worker[task[t].home] = "timedout"
      => task[t].heartbeat # "waiting"
----------------------------------------------------------------------------
Ledger == INSTANCE LeaseLedger WITH Owners <- Tasks, NoOwner <- None,
                                    ledger <- table

\* A record of a finished job is never taken up, released or completed a
\* second time: it stays, or its retention removes it behind everyone's back.
CompletedIsFinal ==
  [][\A k \in Keys :
       table[k].state = "COMPLETED" =>
         \/ table'[k] = table[k]
         \/ table'[k] = Free /\ UNCHANGED <<queue, worker, task>>]_vars

\* Concurrent jobs keep to the protocol the table promises, and what is
\* finished is opened again only when its record is gone.
ImplementsLedger == Ledger!Spec /\ CompletedIsFinal
=============================================================================
