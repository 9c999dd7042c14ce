-------------------------- MODULE PollerJobsProofs --------------------------
(***************************************************************************)
(* Proofs about PollerJobs: for any workers, messages, keys and queues     *)
(* that the workers may find, what is acknowledged is recorded, what is    *)
(* recorded was done, a job is repeated only after a lapse or the end of   *)
(* its record's retention, and the table keeps the ledger's promise.       *)
(***************************************************************************)
EXTENDS PollerJobs, TLAPS

\* What handler and heartbeat of t are doing while t is at its pc.
Stage(t) ==
  LET x == task[t] IN
  /\ x.pc = "unborn" => x = Unborn
  /\ x.pc # "unborn" => x.message \in Messages /\ x.home \in Workers
  /\ x.pc \in Acquiring =>
       x.handler = "none" /\ x.heartbeat = "off" /\ ~x.cancelled
  /\ x.pc = "run" <=> x.handler = "running" /\ x.pc # "crashed"
  /\ x.pc = "join" => x.handler \in {"returned", "threw"}
  /\ x.heartbeat \in {"waiting", "renewing", "extending"} =>
       x.pc \in Executing
  /\ x.heartbeat = "failed" => x.pc \notin Settling
  /\ x.pc = "release" => x.handler = "threw" \/ x.cancelled
  /\ x.pc \in {"complete", "delete"} => x.handler = "returned" /\ ~x.cancelled

Stages == \A t \in Tasks : Stage(t)

\* A message is deleted, or about to be, only when its job is recorded.
Recorded ==
  /\ \A t \in Tasks :
       pc(t) \in {"delete", "acknowledge"} => WasCommitted(Key(t))
  /\ AckedIsCommitted

\* t has done its job and nothing will take that back.
Did(t, k) ==
  /\ task[t].message # None /\ Key(t) = k
  /\ task[t].handler = "returned"
  /\ ~task[t].cancelled /\ task[t].heartbeat # "failed"
  /\ pc(t) \in {"delete"} \cup Ended

Done ==
  \A k \in Keys : WasCommitted(k) => \E t \in Tasks : Did(t, k)

\* Until a lease of its key lapses, a task that runs its job holds the lease,
\* and one whose handler has returned holds it or has settled it, perhaps so
\* long ago that the record is gone.
LeaseKept ==
  /\ \A k \in Keys : table[k].lapsed => lapsed[k]
  /\ \A t \in Tasks :
       pc(t) # "unborn" /\ ~lapsed[Key(t)] =>
         /\ pc(t) = "granted" \/ task[t].handler = "running" => Owned(t)
         /\ task[t].handler = "returned" /\ ~task[t].cancelled =>
              Owned(t) \/ WasCommitted(Key(t))

JobsInv == TypeOK /\ Stages /\ Recorded /\ Done /\ LeaseKept
----------------------------------------------------------------------------
(* Types                                                                   *)

LEMMA UnbornIsATask == Unborn \in Task
BY DEF Unborn, Task

\* A task that has begun is a record of its own; so is one that goes on.
LEMMA GotoTypes ==
  ASSUME TypeOK, NEW t \in Tasks, NEW next, Goto(t, next),
         next \in {"unborn"} \cup Acquiring \cup Executing \cup Settling \cup Ended
  PROVE  task' \in [Tasks -> Task]
<1> DEFINE a == IF next \in Acquiring THEN task[t].attempt ELSE 0
           x == [task[t] EXCEPT !.pc = next, !.attempt = a]
<1>0. a \in {0, 1} /\ task[t] \in Task
  BY DEF TypeOK, Task
<1> HIDE DEF a
<1>1. x \in Task
  BY <1>0 DEF Task
<1>2. task' = [task EXCEPT ![t] = x]
  BY DEF Goto, a
<1> QED
  BY <1>1, <1>2 DEF TypeOK

LEMMA HeartbeatTypes ==
  ASSUME TypeOK, NEW t \in Tasks, NEW next, Heartbeat(t, next),
         next \in {"off", "waiting", "renewing", "extending", "stopped", "failed"}
  PROVE  task' \in [Tasks -> Task]
<1> DEFINE x == [task[t] EXCEPT !.heartbeat = next]
<1>1. x \in Task
  BY DEF TypeOK, Task
<1>2. task' = [task EXCEPT ![t] = x]
  BY DEF Heartbeat
<1> QED
  BY <1>1, <1>2 DEF TypeOK

LEMMA WriteTypes ==
  ASSUME TypeOK, NEW t \in Tasks, NEW e \in Entry, Write(t, e)
  PROVE  table' \in [Keys -> Entry]
BY DEF TypeOK, Write

LEMMA ReceiveTypes ==
  ASSUME TypeOK, NEW m \in Messages, NEW holder \in Tasks \cup {None},
         NEW state \in {"visible", "inflight"}, Receive(m, holder, state)
  PROVE  queue' \in [Messages -> Delivery]
<1> DEFINE d == [state |-> state, receives |-> queue[m].receives + 1,
                 receipt |-> holder]
<1>1. d \in Delivery
  BY JobsAssumption DEF Receive, TypeOK, Delivery
<1>2. queue' = [queue EXCEPT ![m] = d]
  BY DEF Receive
<1> QED
  BY <1>1, <1>2 DEF TypeOK

\* Every field a step of process() writes keeps its type.
LEMMA ProcessTypes ==
  ASSUME TypeOK, NEW t \in Tasks, Process(t)
  PROVE  TypeOK'
<1> USE DEF TypeOK
<1>0. /\ [state |-> "IN_PROGRESS", owner |-> t, lapsed |-> FALSE] \in Entry
      /\ [state |-> "COMPLETED", owner |-> None, lapsed |-> FALSE] \in Entry
      /\ Free \in Entry
  BY DEF Entry, Free
<1>1. ASSUME NEW e \in Entry, Write(t, e) PROVE table' \in [Keys -> Entry]
  BY <1>1, WriteTypes
<1>2. ASSUME NEW next \in {"update", "granted", "read", "release", "complete",
                           "delete", "acknowledge"} \cup Ended,
             Goto(t, next)
      PROVE  task' \in [Tasks -> Task]
  BY <1>2, GotoTypes DEF Acquiring, Settling
<1>3. CASE Acquire(t)
  <2>1. CASE UpdateGranted(t)
    BY <1>0, <1>1, <1>2, <2>1 DEF UpdateGranted
  <2>2. CASE UpdateRejected(t)
    BY <1>2, <2>2 DEF UpdateRejected
  <2>3. CASE UpdateResent(t)
    BY <1>2, <2>3 DEF UpdateResent
  <2>4. CASE ReadAbsent(t)
    <3>1. CASE Goto(t, "over")
      BY <1>2, <2>4, <3>1 DEF ReadAbsent, Ended
    <3>2. CASE /\ task[t].attempt + 1 < AttemptsAllowed
               /\ task' = [task EXCEPT ![t] =
                     [task[t] EXCEPT !.pc = "update", !.attempt = @ + 1]]
      <4> DEFINE n == task[t].attempt + 1
      <4>1. n \in {0, 1} /\ task[t] \in Task
        BY <3>2 DEF AttemptsAllowed, Task
      <4>2. [task[t] EXCEPT !.pc = "update", !.attempt = n] \in Task
        <5> HIDE DEF n
        <5> QED
          BY <4>1 DEF Task, Acquiring
      <4> QED
        BY <2>4, <3>2, <4>2 DEF ReadAbsent
    <3> QED
      BY <2>4, <3>1, <3>2 DEF ReadAbsent
  <2>5. CASE ReadPresent(t)
    BY <1>2, <2>5 DEF ReadPresent, Ended
  <2>6. CASE AcquireThrows(t)
    BY <1>2, <2>6 DEF AcquireThrows, Ended
  <2> QED
    BY <1>3, <2>1, <2>2, <2>3, <2>4, <2>5, <2>6 DEF Acquire
<1>4. CASE StartJob(t)
  <2>1. [task[t] EXCEPT !.pc = "run", !.attempt = 0, !.handler = "running",
                        !.heartbeat = "waiting"] \in Task
    <3>1. task[t] \in Task
      OBVIOUS
    <3> QED
      BY <3>1 DEF Task, Executing
  <2> QED
    BY <1>4, <2>1 DEF StartJob
<1>5. CASE HandlerEnds(t)
  <2> DEFINE h == IF task[t].heartbeat = "waiting" THEN "stopped"
                  ELSE task[t].heartbeat
  <2>1. PICK end \in {"returned", "threw"} :
          task' = [task EXCEPT ![t] =
                     [task[t] EXCEPT !.pc = "join", !.handler = end,
                                     !.heartbeat = h]]
    BY <1>5 DEF HandlerEnds
  <2>2. [task[t] EXCEPT !.pc = "join", !.handler = end, !.heartbeat = h]
          \in Task
    <3>1. /\ task[t] \in Task
          /\ h \in {"off", "waiting", "renewing", "extending", "stopped",
                    "failed"}
      BY DEF Task
    <3> HIDE DEF h
    <3> QED
      BY <3>1 DEF Task, Executing
  <2> QED
    BY <1>5, <2>1, <2>2 DEF HandlerEnds
<1>6. CASE HeartbeatFires(t) \/ Beat(t)
  BY <1>0, <1>1, <1>6, HeartbeatTypes
  DEF HeartbeatFires, Beat, Renew, Extend, HeartbeatFails
<1>7. CASE Join(t)
  <2>1. Verdict(t) \in {"over", "release", "complete"}
    BY DEF Verdict
  <2> QED
    BY <1>2, <1>7, <2>1 DEF Join, Ended
<1>8. CASE Settle(t)
  <2>1. CASE Release(t)
    BY <1>0, <1>1, <1>2, <2>1 DEF Release, Ended
  <2>2. CASE MarkComplete(t)
    BY <1>0, <1>1, <1>2, <2>2 DEF MarkComplete, Ended
  <2>3. CASE MarkCompleteFails(t)
    BY <1>2, <2>3 DEF MarkCompleteFails, Ended
  <2>4. ASSUME Delete(t) PROVE queue' \in [Messages -> Delivery]
    BY <2>4 DEF Delete, Delivery
  <2>5. CASE DeleteMessage(t)
    BY <1>2, <2>4, <2>5 DEF DeleteMessage, Ended
  <2>6. CASE DeleteFails(t)
    BY <1>2, <2>4, <2>6 DEF DeleteFails, Ended
  <2> QED
    BY <1>8, <2>1, <2>2, <2>3, <2>5, <2>6 DEF Settle
<1> QED
  BY <1>3, <1>4, <1>5, <1>6, <1>7, <1>8 DEF Process

\* Abbreviates the steps of the queue, the table's clocks and the processes.
Environment ==
  \/ \E w \in Workers, m \in Messages : ReceiveInVain(w, m)
  \/ \E m \in Messages : VisibilityLapses(m) \/ Redrive(m)
  \/ \E k \in Keys : LeaseLapses(k) \/ TtlDelete(k)
  \/ \E w \in Workers : Stop(w) \/ ShutdownTimeout(w) \/ Crash(w) \/ Restart(w)

LEMMA EnvironmentTypes ==
  ASSUME TypeOK, Environment
  PROVE  TypeOK'
<1> USE DEF TypeOK
<1>1. ASSUME NEW w \in Workers, NEW m \in Messages, ReceiveInVain(w, m)
      PROVE  TypeOK'
  BY <1>1, ReceiveTypes DEF ReceiveInVain
<1>2. ASSUME NEW m \in Messages, VisibilityLapses(m) \/ Redrive(m)
      PROVE  TypeOK'
  BY <1>2 DEF VisibilityLapses, Redrive, Delivery
<1>3. ASSUME NEW k \in Keys, LeaseLapses(k) \/ TtlDelete(k) PROVE TypeOK'
  <2>1. CASE LeaseLapses(k)
    BY <2>1 DEF LeaseLapses, Entry
  <2>2. CASE TtlDelete(k)
    <3>1. Free \in Entry
      BY DEF Free, Entry
    <3>2. \E b \in BOOLEAN : forgotten' = [forgotten EXCEPT ![k] = b]
      BY <2>2 DEF TtlDelete
    <3> QED
      BY <2>2, <3>1, <3>2 DEF TtlDelete
  <2> QED
    BY <1>3, <2>1, <2>2
<1>4. ASSUME NEW w \in Workers, Stop(w) \/ Restart(w) PROVE TypeOK'
  BY <1>4 DEF Stop, Restart
<1>5. ASSUME NEW w \in Workers, ShutdownTimeout(w) PROVE TypeOK'
  <2>1. ASSUME NEW t \in Tasks PROVE task'[t] \in Task
    <3> DEFINE h == IF task[t].heartbeat = "waiting" THEN "stopped"
                    ELSE task[t].heartbeat
    <3>1. /\ task[t] \in Task
          /\ h \in {"off", "waiting", "renewing", "extending", "stopped",
                    "failed"}
      BY DEF Task
    <3>2. \/ task'[t] = [task[t] EXCEPT !.cancelled = TRUE, !.heartbeat = h]
          \/ task'[t] = task[t]
      BY <1>5 DEF ShutdownTimeout
    <3> HIDE DEF h
    <3> QED
      BY <3>1, <3>2 DEF Task
  <2> QED
    BY <1>5, <2>1 DEF ShutdownTimeout
<1>6. ASSUME NEW w \in Workers, Crash(w) PROVE TypeOK'
  <2>1. ASSUME NEW t \in Tasks PROVE task'[t] \in Task
    <3>1. task[t] \in Task
      OBVIOUS
    <3>2. task'[t] = Crashed(t) \/ task'[t] = task[t]
      BY <1>6 DEF Crash
    <3>3. Crashed(t) \in Task
      BY <3>1 DEF Crashed, Task, Ended
    <3> QED
      BY <3>1, <3>2, <3>3
  <2> QED
    BY <1>6, <2>1 DEF Crash
<1> QED
  BY <1>1, <1>2, <1>3, <1>4, <1>5, <1>6 DEF Environment

LEMMA DispatchTypes ==
  ASSUME TypeOK, NEW w \in Workers, NEW m \in Messages, NEW t \in Tasks,
         Dispatch(w, m, t)
  PROVE  TypeOK'
<1> DEFINE x == [task[t] EXCEPT !.pc = "update", !.home = w, !.message = m]
<1>1. queue' \in [Messages -> Delivery]
  BY ReceiveTypes DEF Dispatch
<1>2. x \in Task
  <2>1. task[t] \in Task
    BY DEF TypeOK
  <2> QED
    BY <2>1 DEF Task, Acquiring
<1>3. task' = [task EXCEPT ![t] = x]
  BY DEF Dispatch
<1> QED
  BY <1>1, <1>2, <1>3 DEF Dispatch, TypeOK

\* The steps of a poller, its jobs, its queue and its table keep their types.
THEOREM TypeCorrect == Spec => []TypeOK
<1>1. Init => TypeOK
  BY JobsAssumption, UnbornIsATask
  DEF Init, TypeOK, Free, Entry, Delivery
<1>2. TypeOK /\ [Next]_vars => TypeOK'
  <2> SUFFICES ASSUME TypeOK, [Next]_vars PROVE TypeOK'
    OBVIOUS
  <2>1. ASSUME NEW t \in Tasks, Process(t) PROVE TypeOK'
    BY <2>1, ProcessTypes
  <2>2. ASSUME NEW w \in Workers, NEW m \in Messages, NEW t \in Tasks,
               Dispatch(w, m, t)
        PROVE  TypeOK'
    BY <2>2, DispatchTypes
  <2>3. CASE Environment
    BY <2>3, EnvironmentTypes
  <2>4. CASE UNCHANGED vars
    BY <2>4 DEF vars, TypeOK
  <2> QED
    BY <2>1, <2>2, <2>3, <2>4 DEF Next, Environment
<1> QED
  BY <1>1, <1>2, PTL DEF Spec
----------------------------------------------------------------------------
(* Stages                                                                  *)

\* A step that changes one task leaves the others at their stages.
LEMMA StagesOfOthers ==
  ASSUME TypeOK, Stages, NEW t \in Tasks, NEW x,
         task' = [task EXCEPT ![t] = x], Stage(t)'
  PROVE  Stages'
<1> SUFFICES ASSUME NEW u \in Tasks, u # t PROVE Stage(u)'
  BY DEF Stages
<1>1. task'[u] = task[u]
  BY DEF TypeOK
<1> QED
  BY <1>1 DEF Stages, Stage

\* Where Goto and Heartbeat lead.
LEMMA GotoEffect ==
  ASSUME TypeOK, NEW t \in Tasks, NEW next, Goto(t, next)
  PROVE  /\ task'[t].pc = next
         /\ task'[t].message = task[t].message
         /\ task'[t].home = task[t].home
         /\ task'[t].handler = task[t].handler
         /\ task'[t].heartbeat = task[t].heartbeat
         /\ task'[t].cancelled = task[t].cancelled
         /\ \A u \in Tasks \ {t} : task'[u] = task[u]
<1>1. t \in DOMAIN task /\ task[t] \in Task
  BY DEF TypeOK
<1> QED
  BY <1>1 DEF Goto, TypeOK, Task

LEMMA HeartbeatEffect ==
  ASSUME TypeOK, NEW t \in Tasks, NEW next, Heartbeat(t, next)
  PROVE  /\ task'[t] = [task[t] EXCEPT !.heartbeat = next]
         /\ task'[t].heartbeat = next
         /\ task'[t].pc = task[t].pc
         /\ task'[t].message = task[t].message
         /\ task'[t].home = task[t].home
         /\ task'[t].handler = task[t].handler
         /\ task'[t].cancelled = task[t].cancelled
         /\ \A u \in Tasks \ {t} : task'[u] = task[u]
<1>1. t \in DOMAIN task /\ task[t] \in Task
  BY DEF TypeOK
<1> QED
  BY <1>1 DEF Heartbeat, TypeOK, Task

LEMMA ReadAbsentEffect ==
  ASSUME TypeOK, NEW t \in Tasks, ReadAbsent(t)
  PROVE  /\ task'[t].pc \in {"update", "over"}
         /\ task'[t].handler = task[t].handler
<1>1. CASE Goto(t, "over")
  BY <1>1, GotoEffect
<1>2. CASE task' = [task EXCEPT ![t] =
                 [task[t] EXCEPT !.pc = "update", !.attempt = @ + 1]]
  BY <1>2 DEF TypeOK, Task
<1> QED
  BY <1>1, <1>2 DEF ReadAbsent

LEMMA ProcessStages ==
  ASSUME TypeOK, Stages, NEW t \in Tasks, Process(t)
  PROVE  Stages'
<1>0. Stage(t) /\ task[t] \in Task /\ t \in DOMAIN task
  BY DEF Stages, TypeOK
<1>a. ASSUME NEW next, Goto(t, next), Stage(t)' PROVE Stages'
  BY <1>a, StagesOfOthers DEF Goto
<1>b. ASSUME NEW next, Heartbeat(t, next), Stage(t)' PROVE Stages'
  BY <1>b, StagesOfOthers DEF Heartbeat
<1>1. CASE Acquire(t)
  <2>1. pc(t) \in Acquiring
    BY <1>1 DEF Acquire, UpdateGranted, UpdateRejected, UpdateResent,
         ReadAbsent, ReadPresent, AcquireThrows, Acquiring
  <2>2. ASSUME NEW next \in Acquiring \cup {"acknowledge", "over"},
               Goto(t, next)
        PROVE  Stages'
    <3>1. Stage(t)'
      BY <1>0, <2>1, <2>2, GotoEffect
      DEF Stage, pc, Acquiring, Executing, Settling, Task
    <3> QED
      BY <1>a, <2>2, <3>1
  <2>3. CASE task' = [task EXCEPT ![t] =
                       [task[t] EXCEPT !.pc = "update", !.attempt = @ + 1]]
    <3>1. Stage(t)'
      BY <1>0, <2>1, <2>3
      DEF Stage, pc, Acquiring, Executing, Settling, Task
    <3> QED
      BY <2>3, <3>1, StagesOfOthers
  <2> QED
    BY <1>1, <2>2, <2>3
    DEF Acquire, UpdateGranted, UpdateRejected, UpdateResent, ReadAbsent,
        ReadPresent, AcquireThrows, Acquiring
<1>2. CASE StartJob(t)
  <2>1. task' = [task EXCEPT ![t] =
                  [task[t] EXCEPT !.pc = "run", !.attempt = 0,
                                  !.handler = "running",
                                  !.heartbeat = "waiting"]]
        /\ task[t].pc = "granted"
    BY <1>2 DEF StartJob, pc
  <2>2. Stage(t)'
    BY <1>0, <2>1 DEF Stage, Acquiring, Executing, Settling, Task
  <2> QED
    BY <2>1, <2>2, StagesOfOthers
<1>3. CASE HandlerEnds(t)
  <2>1. PICK end \in {"returned", "threw"} :
          task' = [task EXCEPT ![t] =
                     [task[t] EXCEPT !.pc = "join", !.handler = end,
                        !.heartbeat = IF @ = "waiting" THEN "stopped" ELSE @]]
    BY <1>3 DEF HandlerEnds
  <2>2. task[t].pc = "run"
    BY <1>3 DEF HandlerEnds, pc
  <2>3. Stage(t)'
    BY <1>0, <2>1, <2>2 DEF Stage, Acquiring, Executing, Settling, Task
  <2> QED
    BY <2>1, <2>3, StagesOfOthers
<1>4. CASE HeartbeatFires(t) \/ Beat(t)
  <2>1. PICK next \in {"waiting", "renewing", "extending", "stopped", "failed"} :
          Heartbeat(t, next)
    BY <1>4 DEF HeartbeatFires, Beat, Renew, Extend, HeartbeatFails
  <2>2. task[t].heartbeat \in {"waiting", "renewing", "extending"}
    BY <1>4 DEF HeartbeatFires, Beat, Renew, Extend, HeartbeatFails
  <2>3. Stage(t)'
    BY <1>0, <2>1, <2>2, HeartbeatEffect
    DEF Stage, Acquiring, Executing, Settling
  <2> QED
    BY <1>b, <2>1, <2>3
<1>5. CASE Join(t)
  <2>1. Goto(t, Verdict(t)) /\ task[t].pc = "join"
    BY <1>5 DEF Join, pc
  <2>2. task[t].heartbeat \in {"stopped", "failed"}
    BY <1>5 DEF Join
  <2>3. Stage(t)'
    BY <1>0, <2>1, <2>2, GotoEffect
    DEF Stage, Verdict, Aborted, Acquiring, Executing, Settling, Task
  <2> QED
    BY <1>a, <2>1, <2>3
<1>6. CASE Settle(t)
  <2>1. /\ pc(t) \in Settling
        /\ \E next \in {"delete"} \cup Ended :
             Goto(t, next) /\ (next = "delete" => pc(t) = "complete")
    BY <1>6
    DEF Settle, Release, MarkComplete, MarkCompleteFails, DeleteMessage,
        DeleteFails, Settling, Ended
  <2>2. PICK next \in {"delete"} \cup Ended :
          Goto(t, next) /\ (next = "delete" => pc(t) = "complete")
    BY <2>1
  <2>3. Stage(t)'
    BY <1>0, <2>1, <2>2, GotoEffect
    DEF Stage, pc, Acquiring, Executing, Settling, Ended, Task
  <2> QED
    BY <1>a, <2>2, <2>3
<1> QED
  BY <1>1, <1>2, <1>3, <1>4, <1>5, <1>6 DEF Process

LEMMA DispatchStages ==
  ASSUME TypeOK, Stages, NEW w \in Workers, NEW m \in Messages,
         NEW t \in Tasks, Dispatch(w, m, t)
  PROVE  Stages'
<1>1. task' = [task EXCEPT ![t] =
         [task[t] EXCEPT !.pc = "update", !.home = w, !.message = m]]
  BY DEF Dispatch
<1>2. /\ t \in DOMAIN task /\ task[t] \in Task
      /\ task[t].handler = "none" /\ task[t].heartbeat = "off"
      /\ ~task[t].cancelled
  BY DEF Dispatch, Stages, Stage, pc, TypeOK, Unborn
<1>3. Stage(t)'
  BY <1>1, <1>2 DEF Stage, Task, Acquiring, Executing, Settling
<1> QED
  BY <1>1, <1>3, StagesOfOthers

\* What the environment does to a task: nothing, or a shutdown that aborts
\* what it executes, or a crash of its process.
LEMMA EnvironmentEffect ==
  ASSUME TypeOK, Environment, NEW t \in Tasks
  PROVE  \/ task'[t] = task[t]
         \/ /\ task[t].pc \in Executing
            /\ task'[t] = [task[t] EXCEPT !.cancelled = TRUE,
                             !.heartbeat = IF @ = "waiting" THEN "stopped"
                                           ELSE @]
         \/ /\ task[t].pc \notin {"unborn"} \cup Ended
            /\ task'[t] = Crashed(t)
<1>1. ASSUME NEW w \in Workers, ShutdownTimeout(w)
      PROVE  \/ task'[t] = task[t]
             \/ /\ task[t].pc \in Executing
                /\ task'[t] = [task[t] EXCEPT !.cancelled = TRUE,
                             !.heartbeat = IF @ = "waiting" THEN "stopped"
                                           ELSE @]
  BY <1>1 DEF ShutdownTimeout, pc
<1>2. ASSUME NEW w \in Workers, Crash(w)
      PROVE  \/ task'[t] = task[t]
             \/ /\ task[t].pc \notin {"unborn"} \cup Ended
                /\ task'[t] = Crashed(t)
  BY <1>2 DEF Crash, Alive, pc
<1>3. ASSUME UNCHANGED task PROVE task'[t] = task[t]
  BY <1>3
<1> QED
  BY <1>1, <1>2, <1>3
  DEF Environment, ReceiveInVain, VisibilityLapses, Redrive, LeaseLapses,
      TtlDelete, Stop, Restart

LEMMA EnvironmentStages ==
  ASSUME TypeOK, Stages, Environment
  PROVE  Stages'
<1> SUFFICES ASSUME NEW t \in Tasks PROVE Stage(t)'
  BY DEF Stages
<1>1. Stage(t) /\ task[t] \in Task
  BY DEF Stages, TypeOK
<1>2. CASE task'[t] = task[t]
  BY <1>1, <1>2 DEF Stage
<1>3. CASE /\ task[t].pc \in Executing
           /\ task'[t] = [task[t] EXCEPT !.cancelled = TRUE,
                            !.heartbeat = IF @ = "waiting" THEN "stopped"
                                          ELSE @]
  BY <1>1, <1>3 DEF Stage, Acquiring, Executing, Settling, Task
<1>4. CASE /\ task[t].pc \notin {"unborn"} \cup Ended
           /\ task'[t] = Crashed(t)
  BY <1>1, <1>4 DEF Crashed, Stage, Acquiring, Executing, Settling, Task
<1> QED
  BY <1>2, <1>3, <1>4, EnvironmentEffect
----------------------------------------------------------------------------
(* The table                                                               *)

\* A task that has begun has a key.
LEMMA BegunHasKey ==
  ASSUME TypeOK, Stages, NEW t \in Tasks, pc(t) # "unborn"
  PROVE  Key(t) \in Keys
BY JobsAssumption DEF Stages, Stage, pc, Key

\* What process() writes: a grant, or as the holder a renewal, a release or a
\* completion.
Granting(t)   == UpdateGranted(t)
Renewing(t)   == Renew(t)
Releasing(t)  == Release(t) /\ Owned(t) /\ Write(t, Free)
Completing(t) == MarkComplete(t)

LEMMA ProcessWrites ==
  ASSUME NEW t \in Tasks, Process(t)
  PROVE  \/ table' = table
         \/ Granting(t) \/ Renewing(t) \/ Releasing(t) \/ Completing(t)
BY DEF Granting, Renewing, Releasing, Completing, Process, Acquire,
   UpdateRejected, UpdateResent, ReadAbsent, ReadPresent, AcquireThrows,
   StartJob, HandlerEnds, HeartbeatFires, Beat, Extend, HeartbeatFails, Join,
   Settle, Release, MarkCompleteFails, DeleteMessage, DeleteFails

LEMMA WriteEffect ==
  ASSUME TypeOK, Stages, NEW t \in Tasks, pc(t) # "unborn",
         NEW e, Write(t, e)
  PROVE  /\ table'[Key(t)] = e
         /\ \A k \in Keys \ {Key(t)} : table'[k] = table[k]
BY BegunHasKey DEF Write, TypeOK

\* Writers have begun.
LEMMA WritersHaveBegun ==
  ASSUME TypeOK, Stages, NEW t \in Tasks,
         Granting(t) \/ Renewing(t) \/ Releasing(t) \/ Completing(t)
  PROVE  pc(t) # "unborn"
BY DEF Granting, Renewing, Releasing, Completing, UpdateGranted, Renew,
   Release, MarkComplete, pc, Stages, Stage, Unborn, Executing

\* The table changes at one key by a step of a task, by a lapse or when a
\* record has outlived its retention.
LEMMA OthersWriteNothing ==
  /\ Environment =>
       table' = table \/ \E k \in Keys : LeaseLapses(k) \/ TtlDelete(k)
  /\ \A w \in Workers, m \in Messages, t \in Tasks :
       Dispatch(w, m, t) => table' = table
BY DEF Environment, ReceiveInVain, VisibilityLapses, Redrive, Stop,
   ShutdownTimeout, Crash, Restart, Dispatch

\* A completed record stays as it is until its retention is over.
LEMMA CompletedStays ==
  ASSUME TypeOK, Stages, [Next]_vars, NEW k \in Keys,
         table[k].state = "COMPLETED"
  PROVE  table'[k] = table[k] \/ TtlDelete(k)
<1>1. ASSUME NEW t \in Tasks, Process(t) PROVE table'[k] = table[k]
  <2>1. CASE Granting(t) \/ Renewing(t) \/ Releasing(t) \/ Completing(t)
    <3>1. pc(t) # "unborn"
      BY <2>1, WritersHaveBegun
    <3>2. Grantable(t) \/ Owned(t)
      BY <2>1 DEF Granting, Renewing, Releasing, Completing, UpdateGranted,
           Renew, MarkComplete
    <3>3. Key(t) # k
      BY <3>2 DEF Grantable, Owned
    <3>4. \E e : Write(t, e)
      BY <2>1 DEF Granting, Renewing, Releasing, Completing, UpdateGranted,
           Renew, MarkComplete
    <3> QED
      BY <3>1, <3>3, <3>4, WriteEffect
  <2> QED
    BY <1>1, <2>1, ProcessWrites
<1>2. ASSUME NEW j \in Keys, LeaseLapses(j) PROVE table'[k] = table[k]
  BY <1>2 DEF LeaseLapses, TypeOK
<1>3. ASSUME NEW j \in Keys, TtlDelete(j)
      PROVE  table'[k] = table[k] \/ TtlDelete(k)
  BY <1>3 DEF TtlDelete, TypeOK
<1> QED
  BY <1>1, <1>2, <1>3, OthersWriteNothing DEF Next, Environment, vars

\* What is removed is remembered, and only a retention makes it so.
LEMMA ForgottenEffect ==
  ASSUME TypeOK, [Next]_vars, NEW k \in Keys
  PROVE  forgotten'[k] <=> \/ forgotten[k]
                           \/ table[k].state = "COMPLETED" /\ TtlDelete(k)
<1>1. ASSUME NEW j \in Keys, TtlDelete(j)
      PROVE  forgotten'[k] <=> \/ forgotten[k]
                               \/ table[k].state = "COMPLETED" /\ TtlDelete(k)
  <2>1. CASE j = k
    BY <1>1, <2>1 DEF TtlDelete, TypeOK
  <2>2. CASE j # k
    <3>1. forgotten'[k] = forgotten[k] /\ table'[k] = table[k]
      BY <1>1, <2>2 DEF TtlDelete, TypeOK
    <3>2. table[k].state = "COMPLETED" => ~TtlDelete(k)
      BY <3>1 DEF TtlDelete, TypeOK, Free
    <3> QED
      BY <3>1, <3>2
  <2> QED
    BY <2>1, <2>2
<1>2. ASSUME forgotten' = forgotten, ~TtlDelete(k)
      PROVE  forgotten'[k] <=> \/ forgotten[k]
                               \/ table[k].state = "COMPLETED" /\ TtlDelete(k)
  BY <1>2
<1>3. \/ forgotten' = forgotten
      \/ \E j \in Keys : TtlDelete(j)
  BY DEF Next, Process, Acquire, UpdateGranted, UpdateRejected, UpdateResent,
     ReadAbsent, ReadPresent, AcquireThrows, StartJob, HandlerEnds,
     HeartbeatFires, Beat, Renew, Extend, HeartbeatFails, Join, Settle,
     Release, MarkComplete, MarkCompleteFails, DeleteMessage, DeleteFails,
     Dispatch, ReceiveInVain, VisibilityLapses, Redrive, LeaseLapses, Stop,
     ShutdownTimeout, Crash, Restart, vars
<1> QED
  BY <1>1, <1>2, <1>3

\* What was recorded was recorded for good, though the record may go.
LEMMA CommittedStays ==
  ASSUME TypeOK, Stages, [Next]_vars, NEW k \in Keys, WasCommitted(k)
  PROVE  WasCommitted(k)'
<1>1. CASE forgotten[k]
  BY <1>1, ForgottenEffect DEF WasCommitted
<1>2. CASE table[k].state = "COMPLETED"
  BY <1>2, CompletedStays, ForgottenEffect DEF WasCommitted
<1> QED
  BY <1>1, <1>2 DEF WasCommitted


\* One that is completed in this step is completed by its holder.
LEMMA CompletedByHolder ==
  ASSUME TypeOK, Stages, [Next]_vars, NEW k \in Keys,
         table'[k].state = "COMPLETED"
  PROVE  \/ table[k].state = "COMPLETED"
         \/ \E t \in Tasks : Completing(t) /\ pc(t) # "unborn" /\ Key(t) = k
<1>1. ASSUME NEW t \in Tasks, Process(t), table[k].state # "COMPLETED"
      PROVE  Completing(t) /\ pc(t) # "unborn" /\ Key(t) = k
  <2>1. Granting(t) \/ Renewing(t) \/ Releasing(t) \/ Completing(t)
    BY <1>1, ProcessWrites
  <2>2. pc(t) # "unborn"
    BY <2>1, WritersHaveBegun
  <2>3. \E e : Write(t, e)
    BY <2>1 DEF Granting, Renewing, Releasing, Completing, UpdateGranted,
         Renew, MarkComplete
  <2>4. Key(t) = k
    BY <1>1, <2>2, <2>3, WriteEffect
  <2>5. ASSUME NEW e, Write(t, e), e.state # "COMPLETED" PROVE FALSE
    BY <2>2, <2>4, <2>5, WriteEffect
  <2> QED
    BY <2>1, <2>2, <2>4, <2>5
    DEF Granting, Renewing, Releasing, UpdateGranted, Renew, Free
<1>2. ASSUME NEW j \in Keys, LeaseLapses(j)
      PROVE  table[k].state = "COMPLETED"
  BY <1>2 DEF LeaseLapses, TypeOK, Entry
<1>3. ASSUME NEW j \in Keys, TtlDelete(j)
      PROVE  table[k].state = "COMPLETED"
  BY <1>3 DEF TtlDelete, TypeOK, Free
<1>4. CASE table' = table
  BY <1>4
<1> QED
  BY <1>1, <1>2, <1>3, <1>4, OthersWriteNothing DEF Next, Environment, vars
----------------------------------------------------------------------------
(* The lease                                                               *)

\* What LeaseKept says of one task.
Keeps(t) ==
  pc(t) # "unborn" /\ ~lapsed[Key(t)] =>
    /\ pc(t) = "granted" \/ task[t].handler = "running" => Owned(t)
    /\ task[t].handler = "returned" /\ ~task[t].cancelled =>
         Owned(t) \/ WasCommitted(Key(t))

LEMMA KeptByEach ==
  LeaseKept <=> /\ \A k \in Keys : table[k].lapsed => lapsed[k]
                /\ \A t \in Tasks : Keeps(t)
BY DEF LeaseKept, Keeps

\* While no lease of the key has lapsed, the record of a holder is written by
\* nobody but the holder.
LEMMA OnlyHolderWrites ==
  ASSUME TypeOK, Stages, LeaseKept, NEW t \in Tasks, NEW u \in Tasks, t # u,
         Process(t), pc(u) # "unborn", ~lapsed[Key(u)], Owned(u)
  PROVE  table'[Key(u)] = table[Key(u)]
<1>1. CASE Granting(t) \/ Renewing(t) \/ Releasing(t) \/ Completing(t)
  <2>1. pc(t) # "unborn"
    BY <1>1, WritersHaveBegun
  <2>2. Grantable(t) \/ Owned(t)
    BY <1>1 DEF Granting, Renewing, Releasing, Completing, UpdateGranted,
         Renew, MarkComplete
  <2>3. ~table[Key(u)].lapsed /\ Key(u) \in Keys
    BY BegunHasKey DEF LeaseKept
  <2>4. Key(t) # Key(u)
    BY <2>2, <2>3 DEF Grantable, Owned
  <2>5. \E e : Write(t, e)
    BY <1>1 DEF Granting, Renewing, Releasing, Completing, UpdateGranted,
         Renew, MarkComplete
  <2> QED
    BY <2>1, <2>3, <2>4, <2>5, WriteEffect
<1> QED
  BY <1>1, ProcessWrites

\* The task of the step itself.
LEMMA ProcessKeepsOwn ==
  ASSUME TypeOK, Stages, LeaseKept, NEW t \in Tasks, Process(t)
  PROVE  Keeps(t)'
<1>0. /\ Keeps(t) /\ Stage(t) /\ task[t] \in Task /\ t \in DOMAIN task
      /\ lapsed' = lapsed /\ forgotten' = forgotten
  BY DEF LeaseKept, Keeps, Stages, TypeOK, Process, Acquire, UpdateGranted,
     UpdateRejected, UpdateResent, ReadAbsent, ReadPresent, AcquireThrows,
     StartJob, HandlerEnds, HeartbeatFires, Beat, Renew, Extend,
     HeartbeatFails, Join, Settle, Release, MarkComplete, MarkCompleteFails,
     DeleteMessage, DeleteFails
<1>1. CASE Acquire(t)
  <2>1. task[t].handler = "none" /\ pc(t) \in Acquiring
    BY <1>0, <1>1
    DEF Acquire, UpdateGranted, UpdateRejected, UpdateResent, ReadAbsent,
        ReadPresent, AcquireThrows, Acquiring, Stage, pc
  <2>2. CASE UpdateGranted(t)
    <3>1. /\ Goto(t, "granted")
          /\ Write(t, [state |-> "IN_PROGRESS", owner |-> t, lapsed |-> FALSE])
          /\ pc(t) = "update"
      BY <2>2 DEF UpdateGranted
    <3>2. Key(t)' = Key(t) /\ task'[t].handler = "none"
      BY <2>1, <3>1, GotoEffect DEF Key
    <3>3. table'[Key(t)] =
            [state |-> "IN_PROGRESS", owner |-> t, lapsed |-> FALSE]
      BY <3>1, WriteEffect
    <3> QED
      BY <3>2, <3>3 DEF Keeps, Owned
  <2>3. CASE ReadAbsent(t)
    <3>1. task'[t].handler = "none" /\ task'[t].pc # "granted"
      BY <2>1, <2>3, ReadAbsentEffect
    <3> QED
      BY <3>1 DEF Keeps, pc
  <2>4. ASSUME NEW next, next # "granted", Goto(t, next) PROVE Keeps(t)'
    BY <2>1, <2>4, GotoEffect DEF Keeps, pc
  <2> QED
    BY <1>1, <2>2, <2>3, <2>4
    DEF Acquire, UpdateRejected, UpdateResent, ReadPresent, AcquireThrows
<1>2. CASE StartJob(t)
  <2>1. /\ task'[t].pc = "run" /\ task'[t].message = task[t].message
        /\ task'[t].handler = "running" /\ table' = table
    BY <1>0, <1>2 DEF StartJob, Task
  <2>2. ~lapsed[Key(t)] => Owned(t)
    BY <1>0, <1>2 DEF StartJob, Keeps
  <2> QED
    BY <1>0, <2>1, <2>2 DEF Keeps, Owned, Key
<1>3. CASE HandlerEnds(t)
  <2>1. /\ task'[t].pc = "join" /\ task'[t].message = task[t].message
        /\ task'[t].handler # "running" /\ table' = table
    BY <1>0, <1>3 DEF HandlerEnds, Task
  <2>2. ~lapsed[Key(t)] => Owned(t)
    BY <1>0, <1>3 DEF HandlerEnds, Keeps, Stage, pc
  <2> QED
    BY <1>0, <2>1, <2>2 DEF Keeps, Owned, Key, pc
<1>4. CASE HeartbeatFires(t) \/ Beat(t)
  <2>1. \E next : Heartbeat(t, next)
    BY <1>4 DEF HeartbeatFires, Beat, Renew, Extend, HeartbeatFails
  <2>2. /\ task'[t].pc = task[t].pc /\ task'[t].message = task[t].message
        /\ task'[t].handler = task[t].handler
        /\ task'[t].cancelled = task[t].cancelled
    BY <2>1, HeartbeatEffect
  <2>3. CASE table' = table
    BY <1>0, <2>2, <2>3 DEF Keeps, Owned, WasCommitted, Key, pc
  <2>4. CASE Renew(t)
    <3>1. pc(t) # "unborn"
      BY <2>4, WritersHaveBegun DEF Renewing
    <3>2. Owned(t)'
      BY <2>2, <2>4, <3>1, WriteEffect DEF Renew, Owned, Key
    <3> QED
      BY <3>2 DEF Keeps
  <2> QED
    BY <1>4, <2>3, <2>4 DEF HeartbeatFires, Beat, Extend, HeartbeatFails
<1>5. CASE Join(t)
  <2>1. /\ Goto(t, Verdict(t)) /\ table' = table /\ pc(t) # "unborn"
        /\ Verdict(t) # "granted"
    BY <1>5 DEF Join, Verdict
  <2> QED
    BY <1>0, <2>1, GotoEffect DEF Keeps, Owned, WasCommitted, Key, pc
<1>6. CASE Settle(t)
  <2>1. pc(t) \in Settling
    BY <1>6
    DEF Settle, Release, MarkComplete, MarkCompleteFails, DeleteMessage,
        DeleteFails, Settling
  <2>2. \E next \in {"delete"} \cup Ended : Goto(t, next)
    BY <1>6
    DEF Settle, Release, MarkComplete, MarkCompleteFails, DeleteMessage,
        DeleteFails, Ended
  <2>3. /\ task'[t].pc # "granted" /\ task'[t].message = task[t].message
        /\ task'[t].handler = task[t].handler
        /\ task'[t].cancelled = task[t].cancelled
        /\ task[t].handler # "running" /\ pc(t) # "unborn"
    BY <1>0, <2>1, <2>2, GotoEffect DEF Stage, pc, Settling, Ended
  <2>4. CASE table' = table
    BY <1>0, <2>3, <2>4 DEF Keeps, Owned, WasCommitted, Key, pc
  <2>5. CASE Release(t)
    BY <1>0, <2>3, <2>5 DEF Release, Stage, Keeps, pc
  <2>6. CASE MarkComplete(t)
    <3>1. table'[Key(t)].state = "COMPLETED"
      BY <2>3, <2>6, WriteEffect DEF MarkComplete
    <3> QED
      BY <2>3, <3>1 DEF Keeps, WasCommitted, Key, pc
  <2> QED
    BY <1>6, <2>4, <2>5, <2>6
    DEF Settle, MarkCompleteFails, DeleteMessage, DeleteFails
<1> QED
  BY <1>1, <1>2, <1>3, <1>4, <1>5, <1>6 DEF Process

\* A step of process() changes its own task only.
LEMMA ProcessEffect ==
  ASSUME NEW t \in Tasks, Process(t)
  PROVE  \E x : task' = [task EXCEPT ![t] = x]
BY DEF Process, Acquire, UpdateGranted, UpdateRejected, UpdateResent,
   ReadAbsent, ReadPresent, AcquireThrows, StartJob, HandlerEnds,
   HeartbeatFires, Beat, Renew, Extend, HeartbeatFails, Join, Settle, Release,
   MarkComplete, MarkCompleteFails, DeleteMessage, DeleteFails, Goto, Heartbeat

\* Steps that are not the task's own.
LEMMA KeepsCarries ==
  ASSUME TypeOK, Stages, NEW t \in Tasks, Keeps(t),
         task'[t] = task[t],
         ASSUME pc(t) # "unborn", ~lapsed'[Key(t)]
         PROVE  /\ ~lapsed[Key(t)]
                /\ Owned(t) => table'[Key(t)] = table[Key(t)]
                /\ WasCommitted(Key(t)) => WasCommitted(Key(t))'
  PROVE  Keeps(t)'
<1>1. Key(t)' = Key(t) /\ pc(t)' = pc(t)
  BY DEF Key, pc
<1> QED
  BY <1>1 DEF Keeps, Owned

LEMMA ProcessKeeps ==
  ASSUME TypeOK, Stages, LeaseKept, NEW t \in Tasks, Process(t)
  PROVE  LeaseKept'
<1>1. lapsed' = lapsed
  BY DEF Process, Acquire, UpdateGranted,
     UpdateRejected, UpdateResent, ReadAbsent, ReadPresent, AcquireThrows,
     StartJob, HandlerEnds, HeartbeatFires, Beat, Renew, Extend,
     HeartbeatFails, Join, Settle, Release, MarkComplete, MarkCompleteFails,
     DeleteMessage, DeleteFails
<1>2. ASSUME NEW k \in Keys, table'[k].lapsed PROVE lapsed'[k]
  <2>1. CASE Granting(t) \/ Renewing(t) \/ Releasing(t) \/ Completing(t)
    <3>1. PICK e : Write(t, e) /\ ~e.lapsed
      BY <2>1 DEF Granting, Renewing, Releasing, Completing, UpdateGranted,
           Renew, MarkComplete, Free
    <3>2. table'[k] = table[k]
      BY <1>2, <2>1, <3>1, WriteEffect, WritersHaveBegun
    <3> QED
      BY <1>1, <1>2, <3>2 DEF LeaseKept
  <2> QED
    BY <1>1, <1>2, <2>1, ProcessWrites DEF LeaseKept
<1>3. ASSUME NEW u \in Tasks, u # t PROVE Keeps(u)'
  <2>1. task'[u] = task[u]
    BY <1>3, ProcessEffect DEF TypeOK
  <2>2. Keeps(u)
    BY KeptByEach
  <2>3. ASSUME pc(u) # "unborn", ~lapsed'[Key(u)]
        PROVE  /\ ~lapsed[Key(u)]
               /\ Owned(u) => table'[Key(u)] = table[Key(u)]
               /\ WasCommitted(Key(u)) => WasCommitted(Key(u))'
    <3>1. ~lapsed[Key(u)] /\ Key(u)' = Key(u)
      BY <1>1, <2>1, <2>3 DEF Key
    <3>2. Owned(u) => table'[Key(u)] = table[Key(u)]
      BY <1>3, <2>3, <3>1, OnlyHolderWrites
    <3>3. WasCommitted(Key(u)) => WasCommitted(Key(u))'
      BY <2>3, <3>1, BegunHasKey, CommittedStays DEF Next, WasCommitted
    <3> QED
      BY <3>1, <3>2, <3>3
  <2> QED
    BY <2>1, <2>2, <2>3, KeepsCarries
<1> QED
  BY <1>2, <1>3, ProcessKeepsOwn, KeptByEach DEF LeaseKept, Keeps

LEMMA DispatchKeeps ==
  ASSUME TypeOK, Stages, LeaseKept, NEW w \in Workers, NEW m \in Messages,
         NEW t \in Tasks, Dispatch(w, m, t)
  PROVE  LeaseKept'
<1>1. UNCHANGED <<table, lapsed, forgotten>>
  BY DEF Dispatch
<1>2. /\ task' = [task EXCEPT ![t] =
            [task[t] EXCEPT !.pc = "update", !.home = w, !.message = m]]
      /\ task[t].handler = "none" /\ t \in DOMAIN task /\ task[t] \in Task
  BY DEF Dispatch, Stages, Stage, pc, TypeOK, Unborn
<1>3. task'[t].pc = "update" /\ task'[t].handler = "none"
  BY <1>2 DEF Task
<1>4. ASSUME NEW u \in Tasks PROVE Keeps(u)'
  <2>1. CASE u = t
    BY <1>3, <2>1 DEF Keeps, pc
  <2>2. CASE u # t
    <3>1. task'[u] = task[u] /\ Keeps(u)
      BY <1>2, <2>2, KeptByEach DEF TypeOK
    <3> QED
      BY <1>1, <3>1 DEF Keeps, Owned, WasCommitted, Key, pc
  <2> QED
    BY <2>1, <2>2
<1> QED
  BY <1>1, <1>4 DEF LeaseKept, Keeps

LEMMA EnvironmentKeeps ==
  ASSUME TypeOK, Stages, LeaseKept, Environment
  PROVE  LeaseKept'
<1>1. \/ table' = table /\ lapsed' = lapsed
      \/ \E k \in Keys : LeaseLapses(k) \/ TtlDelete(k)
  BY DEF Environment, ReceiveInVain, VisibilityLapses, Redrive, Stop,
     ShutdownTimeout, Crash, Restart
<1>2. ASSUME NEW k \in Keys, ~lapsed'[k]
      PROVE  /\ ~lapsed[k] /\ ~table'[k].lapsed
             /\ table[k].state = "IN_PROGRESS" => table'[k] = table[k]
  <2>1. ASSUME NEW j \in Keys, LeaseLapses(j)
        PROVE  ~lapsed[k] /\ table'[k] = table[k]
    BY <1>2, <2>1 DEF LeaseLapses, TypeOK
  <2>2. ASSUME NEW j \in Keys, TtlDelete(j)
        PROVE  /\ ~lapsed[k]
               /\ \/ table'[k] = table[k]
                  \/ table'[k] = Free /\ table[k].state # "IN_PROGRESS"
    BY <1>2, <2>2 DEF TtlDelete, TypeOK, LeaseKept
  <2> QED
    BY <1>1, <1>2, <2>1, <2>2 DEF LeaseKept, Free
<1>3. ASSUME NEW t \in Tasks PROVE Keeps(t)'
  <2>1. /\ Keeps(t) /\ Stage(t) /\ task[t] \in Task
        /\ pc(t) # "unborn" => Key(t) \in Keys
    BY KeptByEach, BegunHasKey DEF Stages, TypeOK
  <2>2. /\ task'[t].message = task[t].message
        /\ pc(t)' = "unborn" <=> pc(t) = "unborn"
        /\ task'[t].handler = task[t].handler
        /\ pc(t)' = "granted" => pc(t) = "granted"
        /\ ~task'[t].cancelled => ~task[t].cancelled
    BY <2>1, EnvironmentEffect DEF Crashed, pc, Task, Executing
  <2>3. Key(t)' = Key(t)
    BY <2>2 DEF Key
  <2>4. ASSUME pc(t) # "unborn", ~lapsed'[Key(t)]
        PROVE  /\ ~lapsed[Key(t)]
               /\ Owned(t) => Owned(t)'
               /\ WasCommitted(Key(t)) => WasCommitted(Key(t))'
    <3>1. /\ ~lapsed[Key(t)]
          /\ table[Key(t)].state = "IN_PROGRESS" =>
               table'[Key(t)] = table[Key(t)]
      BY <1>2, <2>1, <2>4
    <3>2. Owned(t) => Owned(t)'
      BY <2>3, <3>1 DEF Owned
    <3>3. WasCommitted(Key(t)) => WasCommitted(Key(t))'
      BY <2>1, <2>3, <2>4, CommittedStays DEF Next, Environment, WasCommitted
    <3> QED
      BY <3>1, <3>2, <3>3
  <2> QED
    BY <2>1, <2>2, <2>3, <2>4 DEF Keeps
<1>4. \A k \in Keys : table'[k].lapsed => lapsed'[k]
  BY <1>2
<1> QED
  BY <1>3, <1>4 DEF LeaseKept, Keeps
----------------------------------------------------------------------------
(* What is recorded                                                        *)

\* A task deletes or acknowledges only what is recorded by then.
LEMMA AboutToDelete ==
  ASSUME TypeOK, Stages, Recorded, [Next]_vars, NEW t \in Tasks,
         pc(t)' \in {"delete", "acknowledge"}
  PROVE  WasCommitted(Key(t))'
<1>0. t \in DOMAIN task /\ task[t] \in Task
  BY DEF TypeOK
<1>1. CASE task'[t] = task[t]
  <2>1. pc(t) \in {"delete", "acknowledge"} /\ Key(t)' = Key(t)
    BY <1>1 DEF pc, Key
  <2>2. Key(t) \in Keys
    BY <2>1, BegunHasKey
  <2> QED
    BY <2>1, <2>2, CommittedStays DEF Recorded, WasCommitted
<1>2. ASSUME Process(t), task'[t] # task[t]
      PROVE  WasCommitted(Key(t))'
  <2>1. CASE Acquire(t)
    <3>1. ReadPresent(t) /\ KnownCompleted(t)
      BY <2>1, GotoEffect, ReadAbsentEffect
      DEF Acquire, UpdateGranted, UpdateRejected, UpdateResent, ReadPresent,
          AcquireThrows, pc
    <3>2. table' = table /\ Key(t)' = Key(t)
      BY <3>1, GotoEffect DEF ReadPresent, Key
    <3> QED
      BY <3>1, <3>2 DEF KnownCompleted, WasCommitted
  <2>2. CASE StartJob(t) \/ HandlerEnds(t)
    BY <1>0, <2>2 DEF StartJob, HandlerEnds, pc, Task
  <2>3. CASE HeartbeatFires(t) \/ Beat(t)
    <3>1. task[t].heartbeat \in {"waiting", "renewing", "extending"}
      BY <2>3 DEF HeartbeatFires, Beat, Renew, Extend, HeartbeatFails
    <3>2. pc(t)' = pc(t)
      BY <2>3, HeartbeatEffect
      DEF HeartbeatFires, Beat, Renew, Extend, HeartbeatFails, pc
    <3> QED
      BY <3>1, <3>2 DEF Stages, Stage, Executing, pc
  <2>4. CASE Join(t)
    <3>1. pc(t)' = Verdict(t)
      BY <2>4, GotoEffect DEF Join, pc
    <3> QED
      BY <3>1 DEF Verdict
  <2>5. CASE Settle(t)
    <3>1. MarkComplete(t)
      BY <2>5, GotoEffect
      DEF Settle, Release, MarkCompleteFails, DeleteMessage, DeleteFails, pc
    <3>2. pc(t) # "unborn" /\ Key(t)' = Key(t)
      BY <3>1, GotoEffect DEF MarkComplete, Key
    <3> QED
      BY <3>1, <3>2, WriteEffect DEF MarkComplete, WasCommitted
  <2> QED
    BY <1>2, <2>1, <2>2, <2>3, <2>4, <2>5 DEF Process
<1>3. ASSUME NEW u \in Tasks, u # t, Process(u) PROVE task'[t] = task[t]
  BY <1>3, ProcessEffect DEF TypeOK
<1>4. ASSUME NEW w \in Workers, NEW m \in Messages, NEW u \in Tasks,
             Dispatch(w, m, u)
      PROVE  task'[t] = task[t]
  BY <1>0, <1>4 DEF Dispatch, pc, TypeOK, Task
<1>5. ASSUME Environment PROVE task'[t] = task[t]
  BY <1>0, <1>5, EnvironmentEffect DEF Crashed, pc, Executing, Task
<1> QED
  BY <1>1, <1>2, <1>3, <1>4, <1>5 DEF Next, Environment, vars

\* A message is deleted only by a task that is about to.
LEMMA DeletedByTask ==
  ASSUME TypeOK, [Next]_vars, NEW m \in Messages,
         queue'[m].state = "deleted"
  PROVE  \/ queue[m].state = "deleted"
         \/ \E t \in Tasks : /\ pc(t) \in {"delete", "acknowledge"}
                             /\ task[t].message = m
<1>0. m \in DOMAIN queue /\ queue[m] \in Delivery
  BY DEF TypeOK
<1>1. ASSUME NEW t \in Tasks, Delete(t), queue[m].state # "deleted"
      PROVE  task[t].message = m
  BY <1>1, <1>0 DEF Delete, TypeOK
<1>2. ASSUME NEW n \in Messages, NEW holder, NEW state \in {"visible", "inflight"},
             Receive(n, holder, state)
      PROVE  queue[m].state = "deleted"
  <2>1. queue' = [queue EXCEPT ![n] =
          [state |-> state, receives |-> queue[n].receives + 1,
           receipt |-> holder]]
    BY <1>2 DEF Receive
  <2>2. CASE n = m
    BY <1>0, <2>1, <2>2
  <2>3. CASE n # m
    BY <1>0, <2>1, <2>3
  <2> QED
    BY <2>2, <2>3
<1>3. ASSUME NEW t \in Tasks, Process(t), queue[m].state # "deleted"
      PROVE  pc(t) \in {"delete", "acknowledge"} /\ task[t].message = m
  BY <1>1, <1>3
  DEF Process, Acquire, UpdateGranted, UpdateRejected, UpdateResent,
      ReadAbsent, ReadPresent, AcquireThrows, StartJob, HandlerEnds,
      HeartbeatFires, Beat, Renew, Extend, HeartbeatFails, Join, Settle,
      Release, MarkComplete, MarkCompleteFails, DeleteMessage, DeleteFails
<1>4. ASSUME NEW w \in Workers, NEW n \in Messages, NEW t \in Tasks,
             Dispatch(w, n, t)
      PROVE  queue[m].state = "deleted"
  BY <1>2, <1>4 DEF Dispatch
<1>5. ASSUME Environment PROVE queue[m].state = "deleted"
  <2>1. ASSUME NEW w \in Workers, NEW n \in Messages, ReceiveInVain(w, n)
        PROVE  queue[m].state = "deleted"
    BY <1>2, <2>1 DEF ReceiveInVain
  <2>2. ASSUME NEW n \in Messages, VisibilityLapses(n) \/ Redrive(n)
        PROVE  queue[m].state = "deleted"
    BY <1>0, <2>2 DEF VisibilityLapses, Redrive, TypeOK, Delivery
  <2>3. ASSUME queue' = queue PROVE queue[m].state = "deleted"
    BY <2>3
  <2> QED
    BY <1>5, <2>1, <2>2, <2>3
    DEF Environment, LeaseLapses, TtlDelete, Stop, ShutdownTimeout, Crash,
        Restart
<1> QED
  BY <1>3, <1>4, <1>5 DEF Next, Environment, vars

LEMMA RecordedStep ==
  ASSUME TypeOK, Stages, Recorded, [Next]_vars
  PROVE  Recorded'
<1>1. ASSUME NEW t \in Tasks, pc(t)' \in {"delete", "acknowledge"}
      PROVE  WasCommitted(Key(t))'
  BY <1>1, AboutToDelete
<1>2. ASSUME NEW m \in Messages, queue'[m].state = "deleted"
      PROVE  WasCommitted(KeyOf[m])'
  <2>1. KeyOf[m] \in Keys
    BY JobsAssumption
  <2>2. WasCommitted(KeyOf[m])
    BY <1>2, DeletedByTask DEF Recorded, AckedIsCommitted, Key
  <2> QED
    BY <2>1, <2>2, CommittedStays
<1> QED
  BY <1>1, <1>2 DEF Recorded, AckedIsCommitted

\* What has been done stays done.
LEMMA DidStays ==
  ASSUME TypeOK, Stages, [Next]_vars, NEW t \in Tasks, NEW k, Did(t, k)
  PROVE  Did(t, k)'
<1>0. /\ t \in DOMAIN task /\ task[t] \in Task /\ Stage(t)
      /\ pc(t) # "unborn" /\ pc(t) \notin Executing \cup Acquiring
  BY DEF TypeOK, Stages, Did, pc, Ended, Executing, Acquiring
<1>1. CASE task'[t] = task[t]
  BY <1>1 DEF Did, pc, Key
<1>2. ASSUME Process(t) PROVE Did(t, k)'
  <2>1. CASE HeartbeatFires(t) \/ Beat(t)
    BY <1>0, <2>1
    DEF HeartbeatFires, Beat, Renew, Extend, HeartbeatFails, Stage, pc
  <2>2. CASE Settle(t)
    <3>1. \E next \in Ended \cup {"delete"} : Goto(t, next)
      BY <2>2
      DEF Settle, Release, MarkComplete, MarkCompleteFails, DeleteMessage,
          DeleteFails, Ended
    <3> QED
      BY <3>1, GotoEffect DEF Did, Key, pc, Ended
  <2>3. pc(t) \notin Acquiring \cup Executing
    BY <1>0
  <2> QED
    BY <1>2, <2>1, <2>2, <2>3
    DEF Process, Acquire, UpdateGranted, UpdateRejected, UpdateResent,
        ReadAbsent, ReadPresent, AcquireThrows, StartJob, HandlerEnds, Join,
        Acquiring, Executing
<1>3. ASSUME NEW u \in Tasks, u # t, Process(u) PROVE task'[t] = task[t]
  BY <1>3, ProcessEffect DEF TypeOK
<1>4. ASSUME NEW w \in Workers, NEW m \in Messages, NEW u \in Tasks,
             Dispatch(w, m, u)
      PROVE  task'[t] = task[t]
  BY <1>0, <1>4 DEF Dispatch, TypeOK
<1>5. ASSUME Environment PROVE Did(t, k)'
  <2>1. CASE /\ task[t].pc \notin {"unborn"} \cup Ended
             /\ task'[t] = Crashed(t)
    BY <1>0, <2>1 DEF Crashed, Did, Key, pc, Ended, Task
  <2> QED
    BY <1>0, <1>1, <1>5, <2>1, EnvironmentEffect DEF pc
<1> QED
  BY <1>1, <1>2, <1>3, <1>4, <1>5 DEF Next, Environment, vars

LEMMA DoneStep ==
  ASSUME TypeOK, Stages, Done, [Next]_vars
  PROVE  Done'
<1> SUFFICES ASSUME NEW k \in Keys, WasCommitted(k)'
             PROVE  \E t \in Tasks : Did(t, k)'
  BY DEF Done
<1>1. CASE WasCommitted(k)
  BY <1>1, DidStays DEF Done
<1>2. CASE \E t \in Tasks : Completing(t) /\ pc(t) # "unborn" /\ Key(t) = k
  <2>1. PICK t \in Tasks : Completing(t) /\ pc(t) # "unborn" /\ Key(t) = k
    BY <1>2
  <2>2. \E next \in {"delete", "over"} : Goto(t, next)
    BY <2>1 DEF Completing, MarkComplete
  <2>3. /\ task[t].handler = "returned" /\ ~task[t].cancelled
        /\ task[t].heartbeat # "failed" /\ task[t].message \in Messages
    BY <2>1 DEF Completing, MarkComplete, Stages, Stage, pc, Settling
  <2>4. Did(t, k)'
    BY <2>1, <2>2, <2>3, GotoEffect, JobsAssumption DEF Did, Key, pc, Ended
  <2> QED
    BY <2>4
<1>3. CASE table'[k].state = "COMPLETED"
  BY <1>1, <1>2, <1>3, CompletedByHolder DEF WasCommitted
<1>4. CASE forgotten'[k]
  BY <1>1, <1>4, ForgottenEffect DEF WasCommitted
<1> QED
  BY <1>3, <1>4 DEF WasCommitted
----------------------------------------------------------------------------
\* In every reachable state tasks are at their stages, what is or was recorded
\* was done, and a lease that has not lapsed is kept.
THEOREM JobsInvHolds == Spec => []JobsInv
<1>1. Init => JobsInv
  <2> SUFFICES ASSUME Init PROVE JobsInv
    OBVIOUS
  <2>1. TypeOK
    BY JobsAssumption, UnbornIsATask
    DEF Init, TypeOK, Free, Entry, Delivery
  <2>2. Stages
    BY DEF Init, Stages, Stage, Unborn, Acquiring, Executing, Settling
  <2>3. Recorded
    <3>1. \A m \in Messages : queue[m].state # "deleted"
      BY JobsAssumption DEF Init
    <3> QED
      BY <3>1 DEF Init, Recorded, AckedIsCommitted, Unborn, pc
  <2>4. Done
    BY DEF Init, Done, WasCommitted, Free
  <2>5. LeaseKept
    BY DEF Init, LeaseKept, Free, Unborn, pc
  <2> QED
    BY <2>1, <2>2, <2>3, <2>4, <2>5 DEF JobsInv
<1>2. JobsInv /\ TypeOK' /\ [Next]_vars => JobsInv'
  <2> SUFFICES ASSUME TypeOK, Stages, Recorded, Done, LeaseKept, TypeOK',
                      [Next]_vars
               PROVE  JobsInv'
    BY DEF JobsInv
  <2>1. Recorded' /\ Done'
    BY RecordedStep, DoneStep
  <2>2. ASSUME NEW t \in Tasks, Process(t) PROVE Stages' /\ LeaseKept'
    BY <2>2, ProcessStages, ProcessKeeps
  <2>3. ASSUME NEW w \in Workers, NEW m \in Messages, NEW t \in Tasks,
               Dispatch(w, m, t)
        PROVE  Stages' /\ LeaseKept'
    BY <2>3, DispatchStages, DispatchKeeps
  <2>4. ASSUME Environment PROVE Stages' /\ LeaseKept'
    BY <2>4, EnvironmentStages, EnvironmentKeeps
  <2>5. ASSUME UNCHANGED vars PROVE Stages' /\ LeaseKept'
    BY <2>5 DEF vars, Stages, Stage, LeaseKept, Owned, WasCommitted, Key, pc
  <2>6. Stages' /\ LeaseKept'
    BY <2>2, <2>3, <2>4, <2>5 DEF Next, Environment
  <2> QED
    BY <2>1, <2>6 DEF JobsInv
<1> QED
  BY <1>1, <1>2, TypeCorrect, PTL DEF Spec

\* process() deletes a message only when the job it carries has been recorded
\* as completed, whoever recorded it and however soon its retention is over.
THEOREM AckedIsCommittedHolds == Spec => []AckedIsCommitted
<1>1. JobsInv => AckedIsCommitted
  BY DEF JobsInv, Recorded
<1> QED
  BY <1>1, JobsInvHolds, PTL

\* markComplete is reached only by a task whose handler returned, that no
\* shutdown cancelled and whose heartbeat did not fail.
THEOREM CommittedWasDoneHolds == Spec => []CommittedWasDone
<1>1. JobsInv => CommittedWasDone
  <2> SUFFICES ASSUME JobsInv PROVE CommittedWasDone
    OBVIOUS
  <2>1. NoSettlementInDoubt
    BY DEF JobsInv, Stages, Stage, NoSettlementInDoubt, pc
  <2>2. ASSUME NEW k \in Keys, WasCommitted(k)
        PROVE  \E t \in Tasks :
                 /\ task[t].message # None /\ Key(t) = k
                 /\ task[t].handler = "returned"
                 /\ ~task[t].cancelled /\ task[t].heartbeat # "failed"
    BY <2>2 DEF JobsInv, Done, Did
  <2> QED
    BY <2>1, <2>2 DEF CommittedWasDone
<1> QED
  BY <1>1, JobsInvHolds, PTL

\* A handler runs beside another of its key only if a lease of the key lapsed,
\* and after one whose result counts only if a lease lapsed or the completed
\* record outlived its retention: lost replies, failed settlements, crashes
\* and redeliveries are not enough.
THEOREM RepeatedOnlyAfterExpiryHolds == Spec => []RepeatedOnlyAfterExpiry
<1>1. JobsInv => RepeatedOnlyAfterExpiry
  <2> SUFFICES ASSUME JobsInv, NEW t \in Tasks, NEW u \in Tasks, t # u,
                      pc(u) = "run", pc(t) # "unborn", Key(t) = Key(u),
                      ~lapsed[Key(t)]
               PROVE  /\ task[t].handler # "running"
                      /\ task[t].handler = "returned" /\ ~task[t].cancelled =>
                           forgotten[Key(t)]
    BY DEF RepeatedOnlyAfterExpiry
  <2>1. task[u].handler = "running" /\ pc(u) # "unborn"
    BY DEF JobsInv, Stages, Stage, pc
  <2>2. Owned(u)
    BY <2>1 DEF JobsInv, LeaseKept
  <2>3. ~Owned(t) /\ table[Key(t)].state # "COMPLETED"
    BY <2>2 DEF Owned
  <2>4. task[t].handler # "running"
    BY <2>3 DEF JobsInv, LeaseKept
  <2>5. task[t].handler = "returned" /\ ~task[t].cancelled => forgotten[Key(t)]
    BY <2>3 DEF JobsInv, LeaseKept, WasCommitted
  <2> QED
    BY <2>4, <2>5
<1> QED
  BY <1>1, JobsInvHolds, PTL
----------------------------------------------------------------------------
(* The ledger                                                              *)

\* What process() writes is a step of the ledger at the task's key.
LEMMA ProcessImplementsLedger ==
  ASSUME TypeOK, Stages, NEW t \in Tasks, Process(t)
  PROVE  [Ledger!Next]_table
<1>1. ASSUME Granting(t) \/ Renewing(t) \/ Releasing(t) \/ Completing(t)
      PROVE  Key(t) \in Keys
  BY <1>1, WritersHaveBegun, BegunHasKey
<1>2. ASSUME Granting(t) PROVE Ledger!Grant(Key(t), t)
  BY <1>2
  DEF Granting, UpdateGranted, Grantable, Write, Ledger!Grant,
      Ledger!Grantable, Ledger!Held
<1>3. ASSUME Renewing(t) PROVE Ledger!Renew(Key(t), t)
  BY <1>3
  DEF Renewing, Renew, Owned, Write, Ledger!Renew, Ledger!HeldBy, Ledger!Held
<1>4. ASSUME Releasing(t) PROVE Ledger!Drop(Key(t), t)
  BY <1>4
  DEF Releasing, Owned, Write, Free, Ledger!Drop, Ledger!HeldBy, Ledger!Free
<1>5. ASSUME Completing(t) PROVE Ledger!Settle(Key(t), t)
  BY <1>5
  DEF Completing, MarkComplete, Owned, Write, Ledger!Settle, Ledger!HeldBy,
      Ledger!Settled
<1> QED
  BY <1>1, <1>2, <1>3, <1>4, <1>5, ProcessWrites DEF Ledger!Next

\* Workers and Lambda can rely on the ledger: each step of the poller's jobs,
\* of the leases' clock and of the retention is one of the ledger's or leaves
\* the table alone, and a completed record goes in no other way than by its
\* retention, while no job, worker or message takes a step.
THEOREM JobsImplementLedger == Spec => ImplementsLedger
<1>1. Init => Ledger!Init
  BY DEF Init, Ledger!Init, Free, Ledger!Free
<1>2. JobsInv /\ [Next]_vars => [Ledger!Next]_table
  <2> SUFFICES ASSUME JobsInv, [Next]_vars PROVE [Ledger!Next]_table
    OBVIOUS
  <2>1. ASSUME NEW t \in Tasks, Process(t) PROVE [Ledger!Next]_table
    BY <2>1, ProcessImplementsLedger DEF JobsInv
  <2>2. ASSUME NEW k \in Keys, LeaseLapses(k) PROVE Ledger!Lapse
    <3>1. table' = [j \in Keys |->
                     IF j \in {k} THEN [table[j] EXCEPT !.lapsed = TRUE]
                     ELSE table[j]]
      BY <2>2 DEF LeaseLapses, JobsInv, TypeOK
    <3> QED
      BY <2>2, <3>1 DEF LeaseLapses, Ledger!Lapse
  <2>3. ASSUME NEW k \in Keys, TtlDelete(k) PROVE Ledger!Forget(k)
    BY <2>3 DEF TtlDelete, Free, Ledger!Forget, Ledger!Free
  <2>4. ASSUME table' = table PROVE [Ledger!Next]_table
    BY <2>4
  <2> QED
    BY <2>1, <2>2, <2>3, <2>4, OthersWriteNothing
    DEF Next, Environment, Ledger!Next, vars
<1>3. JobsInv /\ [Next]_vars
        => [\A k \in Keys :
              table[k].state = "COMPLETED" =>
                \/ table'[k] = table[k]
                \/ table'[k] = Free /\ UNCHANGED <<queue, worker, task>>]_vars
  <2> SUFFICES ASSUME JobsInv, [Next]_vars, NEW k \in Keys,
                      table[k].state = "COMPLETED"
               PROVE  \/ table'[k] = table[k]
                      \/ table'[k] = Free /\ UNCHANGED <<queue, worker, task>>
    OBVIOUS
  <2>1. table'[k] = table[k] \/ TtlDelete(k)
    BY CompletedStays DEF JobsInv
  <2> QED
    BY <2>1 DEF TtlDelete, JobsInv, TypeOK
<1> QED
  BY <1>1, <1>2, <1>3, JobsInvHolds, PTL
  DEF Spec, ImplementsLedger, CompletedIsFinal, Ledger!Spec
=============================================================================
