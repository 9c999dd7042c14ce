------------------------- MODULE LambdaBatchProofs -------------------------
(***************************************************************************)
(* Proofs about LambdaBatch: for any invocations, messages and keys, what  *)
(* is reported as done is recorded, what is recorded was done, a job is    *)
(* repeated only after a lapse or the end of its record's retention, and   *)
(* the table keeps the ledger's promise.                                   *)
(* The argument is PollerJobsProofs'; what differs is that a batch begins  *)
(* and ends as one, and that an aborted job may keep its lease.            *)
(***************************************************************************)
EXTENDS LambdaBatch, TLAPS

\* An invocation that has not begun has no records.
Idle ==
  \A r \in Records : invocation[r[1]] = "none" => record[r] = Nothing

\* What handler and heartbeat of r are doing while r is at its pc.
Stage(r) ==
  LET x == record[r] IN
  /\ x.pc \in {"none", "queued"} \cup Acquiring =>
       x.handler = "none" /\ x.heartbeat = "off"
  /\ x.pc = "run" <=> x.handler = "running" /\ x.pc # "crashed"
  /\ x.pc = "join" => x.handler \in {"returned", "threw"}
  /\ x.heartbeat \in {"waiting", "renewing"} => x.pc \in {"run", "join"}
  /\ x.heartbeat = "failed" => x.pc \notin {"release", "complete"}
  /\ x.pc = "release" => x.handler \in {"none", "threw"}
  /\ x.pc = "complete" => x.handler = "returned"

Stages == Idle /\ \A r \in Records : Stage(r)

\* A record is done, and a message deleted, only when its job is recorded.
Recorded ==
  /\ \A r \in Records : pc(r) = "done" => WasCommitted(Key(r))
  /\ \A m \in Messages : queue[m] = "deleted" => WasCommitted(KeyOf[m])

\* r has done its job and nothing will take that back.
Did(r, k) ==
  /\ Key(r) = k /\ record[r].handler = "returned"
  /\ record[r].heartbeat # "failed"
  /\ pc(r) \in {"done", "failed"}

Done ==
  \A k \in Keys : WasCommitted(k) => \E r \in Records : Did(r, k)

\* Until a lease of its key lapses, a record that runs its job holds the lease,
\* and one whose handler has returned holds it or has settled it, perhaps so
\* long ago that the table has forgotten.
Keeps(r) ==
  ~lapsed[Key(r)] =>
    /\ pc(r) = "granted" \/ record[r].handler = "running" => Owned(r)
    /\ record[r].handler = "returned" =>
         Owned(r) \/ WasCommitted(Key(r))

LeaseKept ==
  /\ \A k \in Keys : table[k].lapsed => lapsed[k]
  /\ \A r \in Records : Keeps(r)

BatchInv == TypeOK /\ Stages /\ Recorded /\ Done /\ LeaseKept
----------------------------------------------------------------------------
(* Types                                                                   *)

\* processRecord() and its heartbeat.
Act(r) == Step(r) \/ UpdateResent(r) \/ HeartbeatFires(r) \/ Beat(r)

LEMMA RecordKey ==
  ASSUME NEW r \in Records
  PROVE  Key(r) \in Keys /\ r[1] \in Invocations /\ r[2] \in Messages
BY BatchAssumption DEF Records, Key

LEMMA GotoTypes ==
  ASSUME TypeOK, NEW r \in Records,
         NEW next \in {"none", "queued", "done", "failed", "crashed"} \cup Active,
         Goto(r, next)
  PROVE  record' \in [Records -> Record]
<1> DEFINE a == IF next \in Acquiring THEN record[r].attempt ELSE 0
           x == [record[r] EXCEPT !.pc = next, !.attempt = a]
<1>0. a \in {0, 1} /\ record[r] \in Record
  BY DEF TypeOK, Record
<1> HIDE DEF a
<1>1. x \in Record
  BY <1>0 DEF Record
<1>2. record' = [record EXCEPT ![r] = x]
  BY DEF Goto, a
<1> QED
  BY <1>1, <1>2 DEF TypeOK

LEMMA HeartbeatTypes ==
  ASSUME TypeOK, NEW r \in Records,
         NEW next \in {"off", "waiting", "renewing", "stopped", "failed"},
         Heartbeat(r, next)
  PROVE  record' \in [Records -> Record]
<1> DEFINE x == [record[r] EXCEPT !.heartbeat = next]
<1>1. x \in Record
  BY DEF TypeOK, Record
<1>2. record' = [record EXCEPT ![r] = x]
  BY DEF Heartbeat
<1> QED
  BY <1>1, <1>2 DEF TypeOK

\* Every field a step of processRecord() writes keeps its type.
LEMMA ActTypes ==
  ASSUME TypeOK, NEW r \in Records, Act(r)
  PROVE  TypeOK'
<1> USE DEF TypeOK, sqs, lambda
<1>1. ASSUME NEW e \in Entry, Write(r, e) PROVE table' \in [Keys -> Entry]
  BY <1>1 DEF Write
<1>2. /\ [state |-> "IN_PROGRESS", owner |-> r, lapsed |-> FALSE] \in Entry
      /\ [state |-> "COMPLETED", owner |-> None, lapsed |-> FALSE] \in Entry
      /\ Free \in Entry
  BY DEF Entry, Free
<1>3. ASSUME NEW next \in {"update", "granted", "read", "release", "complete",
                           "done", "failed"},
             Goto(r, next)
      PROVE  record' \in [Records -> Record]
  BY <1>3, GotoTypes DEF Active, Acquiring
<1>4. CASE Begin(r)
  BY <1>3, <1>4 DEF Begin
<1>5. CASE UpdateGranted(r) \/ UpdateRejected(r) \/ UpdateResent(r)
  BY <1>1, <1>2, <1>3, <1>5 DEF UpdateGranted, UpdateRejected, UpdateResent
<1>6. CASE ReadAbsent(r)
  <2>1. CASE Goto(r, "failed")
    BY <1>3, <1>6, <2>1 DEF ReadAbsent
  <2>2. CASE /\ record[r].attempt + 1 < AttemptsAllowed
             /\ record' = [record EXCEPT ![r] =
                  [record[r] EXCEPT !.pc = "update", !.attempt = @ + 1]]
    <3> DEFINE n == record[r].attempt + 1
    <3>1. n \in {0, 1} /\ record[r] \in Record
      BY <2>2 DEF AttemptsAllowed, Record
    <3>2. [record[r] EXCEPT !.pc = "update", !.attempt = n] \in Record
      <4> HIDE DEF n
      <4> QED
        BY <3>1 DEF Record, Active, Acquiring
    <3> QED
      BY <1>6, <2>2, <3>2 DEF ReadAbsent
  <2> QED
    BY <1>6, <2>1, <2>2 DEF ReadAbsent
<1>7. CASE ReadPresent(r) \/ AcquireThrows(r)
  BY <1>3, <1>7 DEF ReadPresent, AcquireThrows
<1>8. CASE StartJob(r)
  <2>1. record[r] \in Record
    OBVIOUS
  <2>2. [record[r] EXCEPT !.pc = "run", !.attempt = 0, !.handler = "running",
                          !.heartbeat = "waiting"] \in Record
    BY <2>1 DEF Record, Active
  <2> QED
    BY <1>3, <1>8, <2>2 DEF StartJob
<1>9. CASE HandlerEnds(r)
  <2> DEFINE h == IF record[r].heartbeat = "waiting" THEN "stopped"
                  ELSE record[r].heartbeat
  <2>1. PICK end \in {"returned", "threw"} :
          record' = [record EXCEPT ![r] =
                       [record[r] EXCEPT !.pc = "join", !.handler = end,
                                         !.heartbeat = h]]
    BY <1>9 DEF HandlerEnds
  <2>2. [record[r] EXCEPT !.pc = "join", !.handler = end, !.heartbeat = h]
          \in Record
    <3>1. /\ record[r] \in Record
          /\ h \in {"off", "waiting", "renewing", "stopped", "failed"}
      BY DEF Record
    <3> HIDE DEF h
    <3> QED
      BY <3>1 DEF Record, Active
  <2> QED
    BY <1>9, <2>1, <2>2 DEF HandlerEnds
<1>10. CASE HeartbeatFires(r) \/ Beat(r)
  BY <1>1, <1>2, <1>10, HeartbeatTypes
  DEF HeartbeatFires, Beat, Renew, RenewFails
<1>11. CASE Join(r)
  <2>1. Verdict(r) \in {"failed", "release", "complete"}
    BY DEF Verdict
  <2> QED
    BY <1>3, <1>11, <2>1 DEF Join
<1>12. CASE Release(r) \/ MarkComplete(r) \/ MarkCompleteFails(r)
  BY <1>1, <1>2, <1>3, <1>12 DEF Release, MarkComplete, MarkCompleteFails
<1> QED
  BY <1>4, <1>5, <1>6, <1>7, <1>8, <1>9, <1>10, <1>11, <1>12 DEF Act, Step

\* Abbreviates the steps of Lambda, the queue and the table's clocks.
Environment ==
  \/ \E i \in Invocations : Invoke(i) \/ Abort(i) \/ Respond(i) \/ Kill(i)
  \/ \E m \in Messages : VisibilityLapses(m)
  \/ \E k \in Keys : LeaseLapses(k) \/ TtlDelete(k)

LEMMA EnvironmentTypes ==
  ASSUME TypeOK, Environment
  PROVE  TypeOK'
<1> USE DEF TypeOK, sqs, lambda
<1>1. ASSUME NEW i \in Invocations, Invoke(i) PROVE TypeOK'
  <2>1. PICK batch \in SUBSET Messages :
          /\ queue' = [m \in Messages |-> IF m \in batch THEN "inflight"
                                          ELSE queue[m]]
          /\ receipt' = [m \in Messages |-> IF m \in batch THEN i
                                            ELSE receipt[m]]
          /\ record' = [r \in Records |->
                          IF r[1] = i /\ r[2] \in batch
                          THEN [record[r] EXCEPT !.pc = "queued"]
                          ELSE record[r]]
    BY <1>1 DEF Invoke
  <2>2. ASSUME NEW r \in Records PROVE record'[r] \in Record
    BY <2>1 DEF Record
  <2> QED
    BY <1>1, <2>1, <2>2 DEF Invoke
<1>2. ASSUME NEW i \in Invocations, Abort(i) PROVE TypeOK'
  BY <1>2 DEF Abort
<1>3. ASSUME NEW i \in Invocations, Respond(i) PROVE TypeOK'
  BY <1>3 DEF Respond
<1>4. ASSUME NEW i \in Invocations, Kill(i) PROVE TypeOK'
  <2>1. ASSUME NEW r \in Records PROVE record'[r] \in Record
    <3> DEFINE h == IF record[r].heartbeat = "failed" THEN record[r].heartbeat
                    ELSE "off"
    <3>1. /\ record[r] \in Record
          /\ h \in {"off", "waiting", "renewing", "stopped", "failed"}
      BY DEF Record
    <3>2. \/ record'[r] = [record[r] EXCEPT !.pc = "crashed", !.attempt = 0,
                                            !.heartbeat = h]
          \/ record'[r] = record[r]
      BY <1>4 DEF Kill
    <3> HIDE DEF h
    <3> QED
      BY <3>1, <3>2 DEF Record
  <2> QED
    BY <1>4, <2>1 DEF Kill
<1>5. ASSUME NEW m \in Messages, VisibilityLapses(m) PROVE TypeOK'
  BY <1>5 DEF VisibilityLapses
<1>6. ASSUME NEW k \in Keys, LeaseLapses(k) PROVE TypeOK'
  BY <1>6 DEF LeaseLapses, Entry
<1>7. ASSUME NEW k \in Keys, TtlDelete(k) PROVE TypeOK'
  <2>1. Free \in Entry
    BY DEF Free, Entry
  <2>2. \E b \in BOOLEAN : forgotten' = [forgotten EXCEPT ![k] = b]
    BY <1>7 DEF TtlDelete
  <2> QED
    BY <1>7, <2>1, <2>2 DEF TtlDelete
<1> QED
  BY <1>1, <1>2, <1>3, <1>4, <1>5, <1>6, <1>7 DEF Environment

LEMMA InitTypes == Init => TypeOK
BY DEF Init, TypeOK, Free, Entry, Nothing, Record

\* The steps of a Lambda function, its records, its queue and its table keep
\* their types.
THEOREM TypeCorrect == Spec => []TypeOK
<1>1. TypeOK /\ [Next]_vars => TypeOK'
  <2> SUFFICES ASSUME TypeOK, [Next]_vars PROVE TypeOK'
    OBVIOUS
  <2>1. ASSUME NEW r \in Records, Act(r) PROVE TypeOK'
    BY <2>1, ActTypes
  <2>2. CASE Environment
    BY <2>2, EnvironmentTypes
  <2>3. CASE UNCHANGED vars
    BY <2>3 DEF vars, sqs, lambda, TypeOK
  <2> QED
    BY <2>1, <2>2, <2>3 DEF Next, Environment, Act
<1> QED
  BY InitTypes, <1>1, PTL DEF Spec
----------------------------------------------------------------------------
(* Stages                                                                  *)

LEMMA GotoEffect ==
  ASSUME TypeOK, NEW r \in Records, NEW next, Goto(r, next)
  PROVE  /\ record'[r].pc = next
         /\ record'[r].handler = record[r].handler
         /\ record'[r].heartbeat = record[r].heartbeat
         /\ \A s \in Records \ {r} : record'[s] = record[s]
BY DEF Goto, TypeOK, Record

LEMMA HeartbeatEffect ==
  ASSUME TypeOK, NEW r \in Records, NEW next, Heartbeat(r, next)
  PROVE  /\ record'[r].heartbeat = next
         /\ record'[r].pc = record[r].pc
         /\ record'[r].handler = record[r].handler
         /\ \A s \in Records \ {r} : record'[s] = record[s]
BY DEF Heartbeat, TypeOK, Record

LEMMA ReadAbsentEffect ==
  ASSUME TypeOK, NEW r \in Records, ReadAbsent(r)
  PROVE  /\ record'[r].pc \in {"update", "failed"}
         /\ record'[r].handler = record[r].handler
         /\ record'[r].heartbeat = record[r].heartbeat
<1>1. CASE Goto(r, "failed")
  BY <1>1, GotoEffect
<1>2. CASE record' = [record EXCEPT ![r] =
                 [record[r] EXCEPT !.pc = "update", !.attempt = @ + 1]]
  BY <1>2 DEF TypeOK, Record
<1> QED
  BY <1>1, <1>2 DEF ReadAbsent

\* A step of processRecord() changes its own record only, once it has begun.
LEMMA ActEffect ==
  ASSUME NEW r \in Records, Act(r)
  PROVE  /\ \E x : record' = [record EXCEPT ![r] = x]
         /\ UNCHANGED <<sqs, lambda, lapsed, forgotten>>
BY DEF Act, Step, Begin, UpdateGranted, UpdateRejected, UpdateResent,
   ReadAbsent, ReadPresent, AcquireThrows, StartJob, HandlerEnds,
   HeartbeatFires, Beat, Renew, RenewFails, Join, Release, MarkComplete,
   MarkCompleteFails, Goto, Heartbeat

LEMMA ActHasBegun ==
  ASSUME TypeOK, Stages, NEW r \in Records, Act(r)
  PROVE  invocation[r[1]] # "none"
<1>1. record[r] # Nothing
  BY DEF Act, Step, Begin, UpdateGranted, UpdateRejected, UpdateResent,
     ReadAbsent, ReadPresent, AcquireThrows, StartJob, HandlerEnds,
     HeartbeatFires, Beat, Renew, RenewFails, Join, Release, MarkComplete,
     MarkCompleteFails, pc, Nothing, Acquiring
<1> QED
  BY <1>1 DEF Stages, Idle

\* The record of the step is at a stage again.
LEMMA ActStage ==
  ASSUME TypeOK, Stages, NEW r \in Records, Act(r)
  PROVE  Stage(r)'
<1>0. Stage(r) /\ record[r] \in Record
  BY DEF Stages, TypeOK
<1>1. CASE Begin(r) \/ UpdateGranted(r) \/ UpdateRejected(r)
           \/ UpdateResent(r) \/ ReadPresent(r) \/ AcquireThrows(r)
  <2>1. pc(r) \in {"queued"} \cup Acquiring
    BY <1>1 DEF Begin, UpdateGranted, UpdateRejected, UpdateResent,
         ReadPresent, AcquireThrows, Acquiring
  <2>2. PICK next \in {"done", "failed"} \cup Acquiring : Goto(r, next)
    BY <1>1 DEF Begin, UpdateGranted, UpdateRejected, UpdateResent,
         ReadPresent, AcquireThrows, Acquiring
  <2> QED
    BY <1>0, <2>1, <2>2, GotoEffect DEF Stage, pc, Acquiring
<1>2. CASE ReadAbsent(r)
  BY <1>0, <1>2, ReadAbsentEffect DEF ReadAbsent, Stage, pc, Acquiring
<1>3. CASE StartJob(r)
  <2>1. CASE Goto(r, "release")
    BY <1>0, <1>3, <2>1, GotoEffect DEF StartJob, Stage, pc, Acquiring
  <2>2. CASE record' = [record EXCEPT ![r] =
                     [record[r] EXCEPT !.pc = "run", !.attempt = 0,
                                       !.handler = "running",
                                       !.heartbeat = "waiting"]]
    BY <1>0, <2>2 DEF Stage, Acquiring, TypeOK, Record
  <2> QED
    BY <1>3, <2>1, <2>2 DEF StartJob
<1>4. CASE HandlerEnds(r)
  <2>1. PICK end \in {"returned", "threw"} :
          record' = [record EXCEPT ![r] =
                       [record[r] EXCEPT !.pc = "join", !.handler = end,
                          !.heartbeat = IF @ = "waiting" THEN "stopped"
                                        ELSE @]]
    BY <1>4 DEF HandlerEnds
  <2> QED
    BY <1>0, <1>4, <2>1
    DEF HandlerEnds, Stage, Acquiring, TypeOK, Record, pc
<1>5. CASE HeartbeatFires(r) \/ Beat(r)
  <2>1. PICK next \in {"waiting", "renewing", "stopped", "failed"} :
          Heartbeat(r, next)
    BY <1>5 DEF HeartbeatFires, Beat, Renew, RenewFails
  <2>2. record[r].heartbeat \in {"waiting", "renewing"}
    BY <1>5 DEF HeartbeatFires, Beat, Renew, RenewFails
  <2> QED
    BY <1>0, <2>1, <2>2, HeartbeatEffect DEF Stage, Acquiring
<1>6. CASE Join(r)
  BY <1>0, <1>6, GotoEffect DEF Join, Verdict, Stage, pc, Acquiring
<1>7. CASE Release(r) \/ MarkComplete(r) \/ MarkCompleteFails(r)
  <2>1. PICK next \in {"done", "failed"} : Goto(r, next)
    BY <1>7 DEF Release, MarkComplete, MarkCompleteFails
  <2>2. pc(r) \in {"release", "complete"}
    BY <1>7 DEF Release, MarkComplete, MarkCompleteFails
  <2> QED
    BY <1>0, <2>1, <2>2, GotoEffect DEF Stage, pc, Acquiring
<1> QED
  BY <1>1, <1>2, <1>3, <1>4, <1>5, <1>6, <1>7 DEF Act, Step

LEMMA ActStages ==
  ASSUME TypeOK, Stages, NEW r \in Records, Act(r)
  PROVE  Stages'
<1>1. \A s \in Records \ {r} : record'[s] = record[s]
  BY ActEffect DEF TypeOK
<1>2. invocation' = invocation
  BY ActEffect DEF lambda
<1>3. Idle'
  BY <1>1, <1>2, ActHasBegun DEF Idle, Stages
<1>4. ASSUME NEW s \in Records, s # r PROVE Stage(s)'
  BY <1>1, <1>4 DEF Stages, Stage
<1> QED
  BY <1>3, <1>4, ActStage DEF Stages

\* What the environment does to a record: nothing, or it is queued when its
\* invocation begins, or it crashes with it.
LEMMA EnvironmentEffect ==
  ASSUME TypeOK, Stages, Environment, NEW r \in Records
  PROVE  \/ record'[r] = record[r]
         \/ /\ record[r] = Nothing
            /\ record'[r] = [record[r] EXCEPT !.pc = "queued"]
            /\ invocation'[r[1]] # "none"
         \/ /\ record[r].pc \in {"queued"} \cup Active
            /\ record'[r] = [record[r] EXCEPT !.pc = "crashed", !.attempt = 0,
                               !.heartbeat = IF @ = "failed" THEN @ ELSE "off"]
            /\ invocation'[r[1]] # "none"
<1>1. ASSUME NEW i \in Invocations, Invoke(i)
      PROVE  \/ record'[r] = record[r]
             \/ /\ record[r] = Nothing
                /\ record'[r] = [record[r] EXCEPT !.pc = "queued"]
                /\ invocation'[r[1]] # "none"
  <2>1. \/ record'[r] = record[r]
        \/ r[1] = i /\ record'[r] = [record[r] EXCEPT !.pc = "queued"]
    BY <1>1 DEF Invoke
  <2> QED
    BY <1>1, <2>1 DEF Invoke, Stages, Idle, TypeOK
<1>2. ASSUME NEW i \in Invocations, Kill(i)
      PROVE  \/ record'[r] = record[r]
             \/ /\ record[r].pc \in {"queued"} \cup Active
                /\ record'[r] = [record[r] EXCEPT !.pc = "crashed",
                     !.attempt = 0,
                     !.heartbeat = IF @ = "failed" THEN @ ELSE "off"]
                /\ invocation'[r[1]] # "none"
  BY <1>2 DEF Kill, TypeOK, pc
<1> QED
  BY <1>1, <1>2
  DEF Environment, Abort, Respond, VisibilityLapses, LeaseLapses, TtlDelete

LEMMA EnvironmentStages ==
  ASSUME TypeOK, Stages, Environment
  PROVE  Stages'
<1>1. ASSUME NEW r \in Records PROVE Stage(r)'
  <2>1. Stage(r) /\ record[r] \in Record
    BY DEF Stages, TypeOK
  <2>2. CASE record'[r] = record[r]
    BY <2>1, <2>2 DEF Stage
  <2>3. CASE /\ record[r] = Nothing
             /\ record'[r] = [record[r] EXCEPT !.pc = "queued"]
    BY <2>1, <2>3 DEF Stage, Nothing, Record, Acquiring
  <2>4. CASE record'[r] = [record[r] EXCEPT !.pc = "crashed", !.attempt = 0,
                             !.heartbeat = IF @ = "failed" THEN @ ELSE "off"]
    BY <2>1, <2>4 DEF Stage, Record, Acquiring
  <2> QED
    BY <2>2, <2>3, <2>4, EnvironmentEffect
<1>2. \A i \in Invocations : invocation'[i] = "none" => invocation[i] = "none"
  BY DEF Environment, Invoke, Abort, Respond, Kill, VisibilityLapses,
     LeaseLapses, TtlDelete, lambda, TypeOK
<1>3. ASSUME NEW r \in Records, invocation'[r[1]] = "none"
      PROVE  record'[r] = Nothing
  <2>1. record'[r] = record[r]
    BY <1>3, EnvironmentEffect
  <2> QED
    BY <1>2, <1>3, <2>1, RecordKey DEF Stages, Idle
<1> QED
  BY <1>1, <1>3 DEF Stages, Idle
----------------------------------------------------------------------------
(* The table                                                               *)

\* What a record writes: a grant, or as the holder a renewal, whether or not
\* it learns of it, a release or a completion.
Held(r) == [state |-> "IN_PROGRESS", owner |-> r, lapsed |-> FALSE]

Granting(r)   == UpdateGranted(r)
Renewing(r)   == Beat(r) /\ Owned(r) /\ Write(r, Held(r))
Releasing(r)  == Release(r) /\ Owned(r) /\ Write(r, Free)
Completing(r) == MarkComplete(r)

Writing(r) == Granting(r) \/ Renewing(r) \/ Releasing(r) \/ Completing(r)

LEMMA ActWrites ==
  ASSUME NEW r \in Records, Act(r)
  PROVE  table' = table \/ Writing(r)
BY DEF Writing, Granting, Renewing, Releasing, Completing, Held, Act, Step,
   Begin, UpdateRejected, UpdateResent, ReadAbsent, ReadPresent,
   AcquireThrows, StartJob, HandlerEnds, HeartbeatFires, Beat, Renew,
   RenewFails, Join, Release, MarkCompleteFails

\* Whatever is written is written by a record that is entitled to it, and is
\* not a lapsed lease.
LEMMA WriterIsEntitled ==
  ASSUME NEW r \in Records, Writing(r)
  PROVE  /\ Grantable(r) \/ Owned(r)
         /\ \E e : /\ Write(r, e) /\ ~e.lapsed
                   /\ e.state = "COMPLETED" => Completing(r)
BY DEF Writing, Granting, Renewing, Releasing, Completing, Held, UpdateGranted,
   MarkComplete, Free

LEMMA WriteEffect ==
  ASSUME TypeOK, NEW r \in Records, NEW e, Write(r, e)
  PROVE  /\ table'[Key(r)] = e
         /\ \A k \in Keys \ {Key(r)} : table'[k] = table[k]
BY RecordKey DEF Write, TypeOK

LEMMA EnvironmentWrites ==
  Environment =>
    table' = table \/ \E k \in Keys : LeaseLapses(k) \/ TtlDelete(k)
BY DEF Environment, Invoke, Abort, Respond, Kill, VisibilityLapses

\* What is removed is remembered, and only a retention makes it so.
LEMMA ForgottenEffect ==
  ASSUME TypeOK, [Next]_vars, NEW k \in Keys
  PROVE  forgotten'[k] <=> \/ forgotten[k]
                           \/ table[k].state = "COMPLETED" /\ TtlDelete(k)
<1>1. ASSUME NEW j \in Keys, TtlDelete(j)
      PROVE  forgotten'[k] <=> \/ forgotten[k]
                               \/ table[k].state = "COMPLETED" /\ TtlDelete(k)
  <2>1. CASE j = k
    BY <1>1, <2>1 DEF TtlDelete, TypeOK
  <2>2. CASE j # k
    <3>1. forgotten'[k] = forgotten[k] /\ table'[k] = table[k]
      BY <1>1, <2>2 DEF TtlDelete, TypeOK
    <3>2. table[k].state = "COMPLETED" => ~TtlDelete(k)
      BY <3>1 DEF TtlDelete, TypeOK, Free
    <3> QED
      BY <3>1, <3>2
  <2> QED
    BY <2>1, <2>2
<1>2. ASSUME forgotten' = forgotten, ~TtlDelete(k)
      PROVE  forgotten'[k] <=> \/ forgotten[k]
                               \/ table[k].state = "COMPLETED" /\ TtlDelete(k)
  BY <1>2
<1>3. \/ forgotten' = forgotten
      \/ \E j \in Keys : TtlDelete(j)
  BY ActEffect
  DEF Next, Act, Invoke, Abort, Respond, Kill, VisibilityLapses, LeaseLapses,
      vars
<1> QED
  BY <1>1, <1>2, <1>3

\* A completed record stays as it is until its retention is over, which is
\* remembered.
LEMMA CommittedStays ==
  ASSUME TypeOK, [Next]_vars, NEW k \in Keys, WasCommitted(k)
  PROVE  WasCommitted(k)'
<1>1. CASE forgotten[k]
  BY <1>1, ForgottenEffect DEF WasCommitted
<1>2. CASE table[k].state = "COMPLETED"
  <2>1. ASSUME NEW r \in Records, Act(r) PROVE table'[k] = table[k]
    <3>1. CASE Writing(r)
      <4>1. Key(r) # k
        BY <1>2, <3>1, WriterIsEntitled DEF Grantable, Owned
      <4> QED
        BY <3>1, <4>1, WriterIsEntitled, WriteEffect
    <3> QED
      BY <2>1, <3>1, ActWrites
  <2>2. ASSUME NEW j \in Keys, LeaseLapses(j) PROVE table'[k] = table[k]
    BY <1>2, <2>2 DEF LeaseLapses, TypeOK
  <2>3. ASSUME NEW j \in Keys, TtlDelete(j)
        PROVE  table'[k] = table[k] \/ TtlDelete(k)
    BY <2>3 DEF TtlDelete, TypeOK
  <2>4. table'[k] = table[k] \/ TtlDelete(k)
    BY <2>1, <2>2, <2>3, EnvironmentWrites DEF Next, Environment, Act, vars
  <2> QED
    BY <1>2, <2>4, ForgottenEffect DEF WasCommitted
<1> QED
  BY <1>1, <1>2 DEF WasCommitted

\* A record of a finished job is written by its holder.
LEMMA CompletedByHolder ==
  ASSUME TypeOK, [Next]_vars, NEW k \in Keys, table'[k].state = "COMPLETED"
  PROVE  \/ table[k].state = "COMPLETED"
         \/ \E r \in Records : Completing(r) /\ Key(r) = k
<1>1. ASSUME NEW r \in Records, Act(r), table[k].state # "COMPLETED"
      PROVE  Completing(r) /\ Key(r) = k
  <2>1. Writing(r)
    BY <1>1, ActWrites
  <2>2. PICK e : /\ Write(r, e)
                 /\ e.state = "COMPLETED" => Completing(r)
    BY <2>1, WriterIsEntitled
  <2> QED
    BY <1>1, <2>2, WriteEffect
<1>2. ASSUME NEW j \in Keys, LeaseLapses(j)
      PROVE  table[k].state = "COMPLETED"
  BY <1>2 DEF LeaseLapses, TypeOK, Entry
<1>3. ASSUME NEW j \in Keys, TtlDelete(j)
      PROVE  table[k].state = "COMPLETED"
  BY <1>3 DEF TtlDelete, TypeOK, Free
<1>4. CASE table' = table
  BY <1>4
<1> QED
  BY <1>1, <1>2, <1>3, <1>4, EnvironmentWrites DEF Next, Environment, Act, vars
----------------------------------------------------------------------------
(* The lease                                                               *)

\* While no lease of the key has lapsed, the table's entry for a holder is
\* written by nobody but the holder.
LEMMA OnlyHolderWrites ==
  ASSUME TypeOK, LeaseKept, NEW r \in Records, NEW s \in Records, r # s,
         Act(r), ~lapsed[Key(s)], Owned(s)
  PROVE  table'[Key(s)] = table[Key(s)]
<1>1. CASE Writing(r)
  <2>1. Key(r) # Key(s)
    BY <1>1, WriterIsEntitled, RecordKey DEF LeaseKept, Grantable, Owned
  <2> QED
    BY <1>1, <2>1, WriterIsEntitled, WriteEffect, RecordKey
<1> QED
  BY <1>1, ActWrites

\* The record of the step itself.
LEMMA ActKeepsOwn ==
  ASSUME TypeOK, Stages, LeaseKept, NEW r \in Records, Act(r)
  PROVE  Keeps(r)'
<1>0. /\ Keeps(r) /\ Stage(r) /\ record[r] \in Record
      /\ lapsed' = lapsed /\ forgotten' = forgotten
  BY ActEffect DEF LeaseKept, Stages, TypeOK
<1>1. ASSUME record'[r].handler = "none", record'[r].pc # "granted"
      PROVE  Keeps(r)'
  BY <1>1 DEF Keeps, pc
<1>2. CASE Begin(r) \/ UpdateRejected(r) \/ UpdateResent(r)
           \/ ReadPresent(r) \/ AcquireThrows(r)
  <2>1. record[r].handler = "none"
    BY <1>0, <1>2 DEF Begin, UpdateRejected, UpdateResent,
         ReadPresent, AcquireThrows, Acquiring, Stage, pc
  <2>2. PICK next : Goto(r, next) /\ next # "granted"
    BY <1>2 DEF Begin, UpdateRejected, UpdateResent, ReadPresent, AcquireThrows
  <2> QED
    BY <1>1, <2>1, <2>2, GotoEffect
<1>3. CASE UpdateGranted(r)
  <2>1. record'[r].handler = "none"
    BY <1>0, <1>3, GotoEffect DEF UpdateGranted, Stage, Acquiring, pc
  <2>2. Owned(r)'
    BY <1>3, WriteEffect DEF UpdateGranted, Owned, Key
  <2> QED
    BY <2>1, <2>2 DEF Keeps
<1>4. CASE ReadAbsent(r)
  <2>1. record[r].handler = "none"
    BY <1>0, <1>4 DEF ReadAbsent, Acquiring, Stage, pc
  <2> QED
    BY <1>1, <1>4, <2>1, ReadAbsentEffect
<1>5. CASE StartJob(r)
  <2>1. record[r].handler = "none" /\ pc(r) = "granted" /\ table' = table
    BY <1>0, <1>5 DEF StartJob, Acquiring, Stage, pc
  <2>2. CASE Goto(r, "release")
    BY <1>1, <2>1, <2>2, GotoEffect
  <2>3. CASE record' = [record EXCEPT ![r] =
                     [record[r] EXCEPT !.pc = "run", !.attempt = 0,
                                       !.handler = "running",
                                       !.heartbeat = "waiting"]]
    <3>1. record'[r].handler = "running"
      BY <1>0, <2>3 DEF TypeOK, Record
    <3> QED
      BY <1>0, <2>1, <3>1 DEF Keeps, Owned, Key
  <2> QED
    BY <1>5, <2>2, <2>3 DEF StartJob
<1>6. CASE HandlerEnds(r)
  <2>1. record'[r].handler # "running" /\ record'[r].pc = "join"
    BY <1>0, <1>6 DEF HandlerEnds, TypeOK, Record
  <2>2. ~lapsed[Key(r)] => Owned(r)
    BY <1>0, <1>6 DEF HandlerEnds, Keeps, Stage, pc
  <2>3. table' = table
    BY <1>6 DEF HandlerEnds
  <2> QED
    BY <1>0, <2>1, <2>2, <2>3 DEF Keeps, Owned, Key, pc
<1>7. CASE HeartbeatFires(r) \/ Beat(r)
  <2>1. /\ record'[r].pc = record[r].pc
        /\ record'[r].handler = record[r].handler
    BY <1>7, HeartbeatEffect DEF HeartbeatFires, Beat, Renew, RenewFails
  <2>2. CASE table' = table
    BY <1>0, <2>1, <2>2 DEF Keeps, Owned, WasCommitted, Key, pc
  <2>3. CASE Owned(r) /\ Write(r, Held(r))
    BY <2>1, <2>3, WriteEffect DEF Held, Keeps, Owned, Key
  <2> QED
    BY <1>7, <2>2, <2>3 DEF HeartbeatFires, Beat, Renew, RenewFails, Held
<1>8. CASE Join(r)
  <2>1. Goto(r, Verdict(r)) /\ Verdict(r) # "granted" /\ table' = table
    BY <1>8 DEF Join, Verdict
  <2> QED
    BY <1>0, <2>1, GotoEffect DEF Keeps, Owned, WasCommitted, Key, pc
<1>9. CASE Release(r)
  <2>1. record[r].handler \in {"none", "threw"} /\ Goto(r, "failed")
    BY <1>0, <1>9 DEF Release, Stage, pc
  <2> QED
    BY <2>1, GotoEffect DEF Keeps, pc
<1>10. CASE MarkComplete(r) \/ MarkCompleteFails(r)
  <2>1. PICK next \in {"done", "failed"} : Goto(r, next)
    BY <1>10 DEF MarkComplete, MarkCompleteFails
  <2>2. record[r].handler = "returned"
    BY <1>0, <1>10 DEF MarkComplete, MarkCompleteFails, Stage, pc
  <2>3. CASE MarkComplete(r)
    BY <2>1, <2>2, <2>3, GotoEffect, WriteEffect
    DEF MarkComplete, Keeps, WasCommitted, Key, pc
  <2>4. CASE MarkCompleteFails(r)
    BY <1>0, <2>1, <2>2, <2>4, GotoEffect
    DEF MarkCompleteFails, Keeps, Owned, WasCommitted, Key, pc
  <2> QED
    BY <1>10, <2>3, <2>4
<1> QED
  BY <1>2, <1>3, <1>4, <1>5, <1>6, <1>7, <1>8, <1>9, <1>10 DEF Act, Step

\* Steps that are not the record's own.
LEMMA KeepsCarries ==
  ASSUME NEW r \in Records, Keeps(r),
         record'[r].handler = record[r].handler,
         pc(r)' = "granted" => pc(r) = "granted",
         ASSUME ~lapsed'[Key(r)]
         PROVE  /\ ~lapsed[Key(r)]
                /\ Owned(r) => table'[Key(r)] = table[Key(r)]
                /\ WasCommitted(Key(r)) => WasCommitted(Key(r))'
  PROVE  Keeps(r)'
<1>1. Key(r)' = Key(r)
  BY DEF Key
<1> QED
  BY <1>1 DEF Keeps, Owned

LEMMA ActKeeps ==
  ASSUME TypeOK, Stages, LeaseKept, NEW r \in Records, Act(r)
  PROVE  LeaseKept'
<1>1. lapsed' = lapsed /\ \A s \in Records \ {r} : record'[s] = record[s]
  BY ActEffect DEF TypeOK
<1>2. ASSUME NEW k \in Keys, table'[k].lapsed PROVE lapsed'[k]
  <2>1. CASE Writing(r)
    <3>1. table'[k] = table[k]
      BY <1>2, <2>1, WriterIsEntitled, WriteEffect
    <3> QED
      BY <1>1, <1>2, <3>1 DEF LeaseKept
  <2> QED
    BY <1>1, <1>2, <2>1, ActWrites DEF LeaseKept
<1>3. ASSUME NEW s \in Records, s # r PROVE Keeps(s)'
  <2>1. Keeps(s) /\ record'[s] = record[s]
    BY <1>1, <1>3 DEF LeaseKept
  <2>2. ASSUME ~lapsed'[Key(s)]
        PROVE  /\ ~lapsed[Key(s)]
               /\ Owned(s) => table'[Key(s)] = table[Key(s)]
               /\ WasCommitted(Key(s)) => WasCommitted(Key(s))'
    <3>1. Owned(s) => table'[Key(s)] = table[Key(s)]
      BY <1>1, <1>3, <2>2, OnlyHolderWrites
    <3>2. WasCommitted(Key(s)) => WasCommitted(Key(s))'
      BY CommittedStays, RecordKey DEF Next, Act, Key, WasCommitted
    <3> QED
      BY <1>1, <2>2, <3>1, <3>2
  <2> QED
    BY <2>1, <2>2, KeepsCarries DEF pc
<1> QED
  BY <1>2, <1>3, ActKeepsOwn DEF LeaseKept

LEMMA EnvironmentKeeps ==
  ASSUME TypeOK, Stages, LeaseKept, Environment
  PROVE  LeaseKept'
<1>1. \/ table' = table /\ lapsed' = lapsed
      \/ \E k \in Keys : LeaseLapses(k) \/ TtlDelete(k)
  BY DEF Environment, Invoke, Abort, Respond, Kill, VisibilityLapses
<1>2. ASSUME NEW k \in Keys, ~lapsed'[k]
      PROVE  /\ ~lapsed[k] /\ ~table'[k].lapsed
             /\ table[k].state = "IN_PROGRESS" => table'[k] = table[k]
  <2>1. ASSUME NEW j \in Keys, LeaseLapses(j)
        PROVE  ~lapsed[k] /\ table'[k] = table[k]
    BY <1>2, <2>1 DEF LeaseLapses, TypeOK
  <2>2. ASSUME NEW j \in Keys, TtlDelete(j)
        PROVE  /\ ~lapsed[k]
               /\ \/ table'[k] = table[k]
                  \/ table'[k] = Free /\ table[k].state # "IN_PROGRESS"
    BY <1>2, <2>2 DEF TtlDelete, TypeOK, LeaseKept
  <2> QED
    BY <1>1, <1>2, <2>1, <2>2 DEF LeaseKept, Free
<1>3. ASSUME NEW r \in Records PROVE Keeps(r)'
  <2>1. Keeps(r) /\ record[r] \in Record /\ Key(r) \in Keys
    BY RecordKey DEF LeaseKept, TypeOK
  <2>2. /\ record'[r].handler = record[r].handler
        /\ pc(r)' = "granted" => pc(r) = "granted"
    BY <2>1, EnvironmentEffect DEF Record, Nothing, pc
  <2>3. ASSUME ~lapsed'[Key(r)]
        PROVE  /\ ~lapsed[Key(r)]
               /\ Owned(r) => table'[Key(r)] = table[Key(r)]
               /\ WasCommitted(Key(r)) => WasCommitted(Key(r))'
    <3>1. WasCommitted(Key(r)) => WasCommitted(Key(r))'
      BY <2>1, CommittedStays DEF Next, Environment, Key, WasCommitted
    <3> QED
      BY <1>2, <2>1, <2>3, <3>1 DEF Owned
  <2> QED
    BY <2>1, <2>2, <2>3, KeepsCarries
<1>4. \A k \in Keys : table'[k].lapsed => lapsed'[k]
  BY <1>2
<1> QED
  BY <1>3, <1>4 DEF LeaseKept
----------------------------------------------------------------------------
(* What is recorded                                                        *)

LEMMA RecordedStep ==
  ASSUME TypeOK, Stages, Recorded, [Next]_vars
  PROVE  Recorded'
<1>1. ASSUME NEW r \in Records, pc(r)' = "done"
      PROVE  WasCommitted(Key(r))'
  <2>1. CASE pc(r) = "done"
    BY <2>1, CommittedStays, RecordKey DEF Recorded, Key, WasCommitted
  <2>2. ASSUME pc(r) # "done", Act(r)
        PROVE  WasCommitted(Key(r))'
    <3>1. (ReadPresent(r) /\ KnownCompleted(r)) \/ MarkComplete(r)
      <4>1. CASE StartJob(r) \/ HandlerEnds(r)
        <5>1. r \in DOMAIN record /\ record[r] \in Record
          BY DEF TypeOK
        <5>2. ASSUME Goto(r, "release") PROVE record'[r].pc # "done"
          BY <5>2, GotoEffect
        <5>3. record'[r].pc # "done"
          BY <4>1, <5>1, <5>2 DEF StartJob, HandlerEnds, Record
        <5> QED
          BY <1>1, <5>3 DEF pc
      <4>2. CASE ReadAbsent(r)
        BY <1>1, <4>2, ReadAbsentEffect DEF pc
      <4>3. CASE HeartbeatFires(r) \/ Beat(r)
        BY <1>1, <2>2, <4>3, HeartbeatEffect
        DEF HeartbeatFires, Beat, Renew, RenewFails, pc
      <4> QED
        BY <1>1, <2>2, <4>1, <4>2, <4>3, GotoEffect
        DEF Act, Step, Begin, UpdateGranted, UpdateRejected, UpdateResent,
            ReadPresent, AcquireThrows, Join, Verdict, Release,
            MarkCompleteFails, pc
    <3> QED
      BY <3>1, WriteEffect
      DEF ReadPresent, KnownCompleted, MarkComplete, WasCommitted, Key
  <2>3. ASSUME NEW s \in Records, s # r, Act(s) PROVE pc(r) = "done"
    BY <1>1, <2>3, ActEffect DEF TypeOK, pc
  <2>4. ASSUME Environment PROVE pc(r) = "done"
    <3>1. record[r] \in Record
      BY DEF TypeOK
    <3> QED
      BY <1>1, <2>4, <3>1, EnvironmentEffect DEF pc, Record
  <2> QED
    BY <1>1, <2>1, <2>2, <2>3, <2>4 DEF Next, Environment, Act, vars, pc
<1>2. ASSUME NEW m \in Messages, queue'[m] = "deleted"
      PROVE  WasCommitted(KeyOf[m])'
  <2>1. KeyOf[m] \in Keys
    BY BatchAssumption
  <2>2. \/ queue[m] = "deleted"
        \/ \E r \in Records : pc(r) = "done" /\ r[2] = m
    <3>1. ASSUME NEW i \in Invocations, Respond(i), queue[m] # "deleted"
          PROVE  \E r \in Records : pc(r) = "done" /\ r[2] = m
      <4>1. pc(<<i, m>>) = "done"
        BY <1>2, <3>1 DEF Respond
      <4>2. <<i, m>> \in Records /\ <<i, m>>[2] = m
        BY DEF Records
      <4> QED
        BY <4>1, <4>2
    <3>2. ASSUME NEW r \in Records, Act(r) PROVE queue' = queue
      BY <3>2, ActEffect DEF sqs
    <3> QED
      BY <1>2, <3>1, <3>2
      DEF Next, Environment, Act, Invoke, Abort, Kill, VisibilityLapses,
          LeaseLapses, TtlDelete, sqs, vars, TypeOK
  <2>3. WasCommitted(KeyOf[m])
    BY <2>2 DEF Recorded, Key
  <2> QED
    BY <2>1, <2>3, CommittedStays
<1> QED
  BY <1>1, <1>2 DEF Recorded, Key

\* What has been done stays done.
LEMMA DidStays ==
  ASSUME TypeOK, Stages, [Next]_vars, NEW r \in Records, NEW k, Did(r, k)
  PROVE  Did(r, k)'
<1>0. record[r] \in Record /\ Stage(r) /\ pc(r) \in {"done", "failed"}
  BY DEF TypeOK, Stages, Did
<1>1. CASE record'[r] = record[r]
  BY <1>1 DEF Did, pc, Key
<1>2. ~Act(r)
  BY <1>0
  DEF Act, Step, Begin, UpdateGranted, UpdateRejected, UpdateResent,
      ReadAbsent, ReadPresent, AcquireThrows, StartJob, HandlerEnds,
      HeartbeatFires, Beat, Renew, RenewFails, Join, Release, MarkComplete,
      MarkCompleteFails, Stage, Acquiring, pc
<1>3. ASSUME NEW s \in Records, s # r, Act(s) PROVE record'[r] = record[r]
  BY <1>3, ActEffect DEF TypeOK
<1>4. ASSUME Environment PROVE record'[r] = record[r]
  <2>1. record[r] # Nothing /\ record[r].pc \notin {"queued"} \cup Active
    BY <1>0 DEF pc, Nothing, Active, Acquiring
  <2> QED
    BY <1>4, <2>1, EnvironmentEffect
<1> QED
  BY <1>1, <1>2, <1>3, <1>4 DEF Next, Environment, Act, vars

LEMMA DoneStep ==
  ASSUME TypeOK, Stages, Done, [Next]_vars
  PROVE  Done'
<1> SUFFICES ASSUME NEW k \in Keys, WasCommitted(k)'
             PROVE  \E r \in Records : Did(r, k)'
  BY DEF Done
<1>1. CASE WasCommitted(k)
  BY <1>1, DidStays DEF Done
<1>2. ASSUME NEW r \in Records, Completing(r), Key(r) = k PROVE Did(r, k)'
  <2>1. PICK next \in {"done", "failed"} : Goto(r, next)
    BY <1>2 DEF Completing, MarkComplete
  <2>2. record[r].handler = "returned" /\ record[r].heartbeat # "failed"
    BY <1>2 DEF Completing, MarkComplete, Stages, Stage, pc
  <2> QED
    BY <1>2, <2>1, <2>2, GotoEffect DEF Did, Key, pc
<1>3. CASE table'[k].state = "COMPLETED"
  BY <1>1, <1>2, <1>3, CompletedByHolder DEF WasCommitted
<1>4. CASE forgotten'[k]
  BY <1>1, <1>4, ForgottenEffect DEF WasCommitted
<1> QED
  BY <1>3, <1>4 DEF WasCommitted
----------------------------------------------------------------------------
\* In every reachable state records are at their stages, what is or was recorded
\* was done, and a lease that has not lapsed is kept.
THEOREM BatchInvHolds == Spec => []BatchInv
<1>1. Init => BatchInv
  <2> SUFFICES ASSUME Init PROVE BatchInv
    OBVIOUS
  <2>1. Stages
    BY DEF Init, Stages, Idle, Stage, Nothing, Acquiring
  <2>2. Recorded
    BY DEF Init, Recorded, Nothing, pc
  <2>3. Done
    BY DEF Init, Done, WasCommitted, Free
  <2>4. LeaseKept
    BY DEF Init, LeaseKept, Keeps, Free, Nothing, pc
  <2> QED
    BY <2>1, <2>2, <2>3, <2>4, InitTypes DEF BatchInv
<1>2. BatchInv /\ TypeOK' /\ [Next]_vars => BatchInv'
  <2> SUFFICES ASSUME TypeOK, Stages, Recorded, Done, LeaseKept, TypeOK',
                      [Next]_vars
               PROVE  BatchInv'
    BY DEF BatchInv
  <2>1. Recorded' /\ Done'
    BY RecordedStep, DoneStep
  <2>2. ASSUME NEW r \in Records, Act(r) PROVE Stages' /\ LeaseKept'
    BY <2>2, ActStages, ActKeeps
  <2>3. ASSUME Environment PROVE Stages' /\ LeaseKept'
    BY <2>3, EnvironmentStages, EnvironmentKeeps
  <2>4. ASSUME UNCHANGED vars PROVE Stages' /\ LeaseKept'
    BY <2>4
    DEF vars, lambda, Stages, Idle, Stage, LeaseKept, Keeps, Owned,
        WasCommitted, Key, pc
  <2>5. Stages' /\ LeaseKept'
    BY <2>2, <2>3, <2>4 DEF Next, Environment, Act
  <2> QED
    BY <2>1, <2>5 DEF BatchInv
<1> QED
  BY <1>1, <1>2, TypeCorrect, PTL DEF Spec

\* process() of the Lambda processor reports a record as done, and Lambda
\* deletes its message, only if its job has been recorded as completed, and that
\* is recorded only by a record whose handler returned and whose heartbeat did
\* not fail.
THEOREM DoneIsCommittedHolds == Spec => []DoneIsCommitted
<1>1. BatchInv => DoneIsCommitted
  BY DEF BatchInv, Recorded, Done, Did, DoneIsCommitted, CommittedWasDone
<1> QED
  BY <1>1, BatchInvHolds, PTL

\* A handler runs beside another of its key only if a lease of the key lapsed,
\* and after one that returned only if a lease lapsed or the completed record
\* outlived its retention: an abort, a kill, a failed settlement or a redelivery
\* is not enough.
THEOREM RepeatedOnlyAfterExpiryHolds == Spec => []RepeatedOnlyAfterExpiry
<1>1. BatchInv => RepeatedOnlyAfterExpiry
  <2> SUFFICES ASSUME BatchInv, NEW r \in Records, NEW s \in Records, r # s,
                      pc(s) = "run", Key(r) = Key(s), ~lapsed[Key(r)]
               PROVE  /\ record[r].handler # "running"
                      /\ record[r].handler = "returned" => forgotten[Key(r)]
    BY DEF RepeatedOnlyAfterExpiry
  <2>1. Owned(s)
    BY DEF BatchInv, Stages, Stage, LeaseKept, Keeps, pc
  <2>2. ~Owned(r) /\ table[Key(r)].state # "COMPLETED"
    BY <2>1 DEF Owned
  <2> QED
    BY <2>2 DEF BatchInv, LeaseKept, Keeps, WasCommitted
<1> QED
  BY <1>1, BatchInvHolds, PTL
----------------------------------------------------------------------------
(* The ledger                                                              *)

\* What a record writes is a step of the ledger at its key.
LEMMA ActImplementsLedger ==
  ASSUME NEW r \in Records, Act(r)
  PROVE  [Ledger!Next]_table
<1>1. ASSUME Granting(r) PROVE Ledger!Grant(Key(r), r)
  BY <1>1
  DEF Granting, UpdateGranted, Grantable, Write, Ledger!Grant,
      Ledger!Grantable, Ledger!Held
<1>2. ASSUME Renewing(r) PROVE Ledger!Renew(Key(r), r)
  BY <1>2
  DEF Renewing, Held, Owned, Write, Ledger!Renew, Ledger!HeldBy, Ledger!Held
<1>3. ASSUME Releasing(r) PROVE Ledger!Drop(Key(r), r)
  BY <1>3
  DEF Releasing, Owned, Write, Free, Ledger!Drop, Ledger!HeldBy, Ledger!Free
<1>4. ASSUME Completing(r) PROVE Ledger!Settle(Key(r), r)
  BY <1>4
  DEF Completing, MarkComplete, Owned, Write, Ledger!Settle, Ledger!HeldBy,
      Ledger!Settled
<1> QED
  BY <1>1, <1>2, <1>3, <1>4, ActWrites, RecordKey DEF Writing, Ledger!Next

\* The Lambda processor's records keep to the protocol the poller's jobs keep
\* to: each step, the end of a retention included, is one of the ledger's or
\* leaves the table alone.
THEOREM BatchImplementsLedger == Spec => ImplementsLedger
<1>1. Init => Ledger!Init
  BY DEF Init, Ledger!Init, Free, Ledger!Free
<1>2. TypeOK /\ [Next]_vars => [Ledger!Next]_table
  <2> SUFFICES ASSUME TypeOK, [Next]_vars PROVE [Ledger!Next]_table
    OBVIOUS
  <2>1. ASSUME NEW r \in Records, Act(r) PROVE [Ledger!Next]_table
    BY <2>1, ActImplementsLedger
  <2>2. ASSUME NEW k \in Keys, LeaseLapses(k) PROVE Ledger!Lapse
    <3>1. table' = [j \in Keys |->
                     IF j \in {k} THEN [table[j] EXCEPT !.lapsed = TRUE]
                     ELSE table[j]]
      BY <2>2 DEF LeaseLapses, TypeOK
    <3> QED
      BY <2>2, <3>1 DEF LeaseLapses, Ledger!Lapse
  <2>3. ASSUME NEW k \in Keys, TtlDelete(k) PROVE Ledger!Forget(k)
    BY <2>3 DEF TtlDelete, Free, Ledger!Forget, Ledger!Free
  <2>4. ASSUME table' = table PROVE [Ledger!Next]_table
    BY <2>4
  <2> QED
    BY <2>1, <2>2, <2>3, <2>4, EnvironmentWrites
    DEF Next, Environment, Act, Ledger!Next, vars
<1> QED
  BY <1>1, <1>2, TypeCorrect, PTL DEF Spec, ImplementsLedger, Ledger!Spec
=============================================================================
