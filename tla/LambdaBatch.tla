---------------------------- MODULE LambdaBatch ----------------------------
(***************************************************************************)
(* src/src/lambda-processor.ts: invocations of a Lambda function, each of  *)
(* which processes a batch of SQS messages under a semaphore and answers   *)
(* with the messages that failed.  Lambda deletes the others.              *)
(*                                                                         *)
(* A record is a message in an invocation: one call of processRecord(),    *)
(* and the owner token drawn for it.  Steps and the absence of a clock are *)
(* as in PollerJobs.  The order in which queued records get their slots is *)
(* Semaphore's concern.                                                    *)
(***************************************************************************)
EXTENDS Integers, FiniteSets

CONSTANTS Invocations, Messages, Keys,
          KeyOf,         \* the idempotency key each message carries
          Concurrency,   \* slots of one invocation
          MaxRecords,    \* bound on the records of all batches together
          None

ASSUME BatchAssumption ==
  /\ KeyOf \in [Messages -> Keys]
  /\ Concurrency \in Nat \ {0}
  /\ MaxRecords \in Nat
  /\ None \notin Invocations \cup (Invocations \X Messages)

VARIABLES table,        \* the DynamoDB table
          queue,        \* where each message is
          receipt,      \* the invocation that received it last
          invocation,   \* where each call of process() is
          aborted,      \* whether the signal of a running one is aborted
          record,       \* the calls of processRecord()
          lapsed,       \* history: keys one of whose leases has lapsed
          forgotten     \* history: keys whose completed record was removed

sqs    == <<queue, receipt>>
lambda == <<invocation, aborted>>
vars   == <<table, sqs, lambda, record, lapsed, forgotten>>

Records == Invocations \X Messages

Acquiring == {"update", "granted", "read"}
Active    == Acquiring \cup {"run", "join", "release", "complete"}

Entry ==
  [state  : {"ABSENT", "IN_PROGRESS", "COMPLETED", "FAILED"},
   owner  : Records \cup {None},
   lapsed : BOOLEAN]

\* done and failed: what processRecord() answers; crashed: it never does.
Record ==
  [pc        : {"none", "queued", "done", "failed", "crashed"} \cup Active,
   attempt   : {0, 1},
   handler   : {"none", "running", "returned", "threw"},
   heartbeat : {"off", "waiting", "renewing", "stopped", "failed"}]

TypeOK ==
  /\ table \in [Keys -> Entry]
  /\ queue \in [Messages -> {"visible", "inflight", "deleted"}]
  /\ receipt \in [Messages -> Invocations \cup {None}]
  /\ invocation \in [Invocations -> {"none", "running", "over"}]
  /\ aborted \in [Invocations -> BOOLEAN]
  /\ record \in [Records -> Record]
  /\ lapsed \in [Keys -> BOOLEAN]
  /\ forgotten \in [Keys -> BOOLEAN]

Free    == [state |-> "ABSENT", owner |-> None, lapsed |-> FALSE]
Nothing == [pc |-> "none", attempt |-> 0, handler |-> "none",
            heartbeat |-> "off"]

Init ==
  /\ table = [k \in Keys |-> Free]
  /\ queue = [m \in Messages |-> "visible"]
  /\ receipt = [m \in Messages |-> None]
  /\ invocation = [i \in Invocations |-> "none"]
  /\ aborted = [i \in Invocations |-> FALSE]
  /\ record = [r \in Records |-> Nothing]
  /\ lapsed = [k \in Keys |-> FALSE]
  /\ forgotten = [k \in Keys |-> FALSE]

pc(r)      == record[r].pc
Key(r)     == KeyOf[r[2]]
Aborted(r) == aborted[r[1]]
Batch(i)   == {m \in Messages : pc(<<i, m>>) # "none"}
Received   == {r \in Records : pc(r) # "none"}

\* Mutant: a write that checks the state and not the owner token.
OwnedByAnyone(r) == table[Key(r)].state = "IN_PROGRESS"
Owned(r) == table[Key(r)].state = "IN_PROGRESS" /\ table[Key(r)].owner = r

Grantable(r) ==
  \/ table[Key(r)].state = "ABSENT"
  \/ table[Key(r)].state = "IN_PROGRESS" /\ table[Key(r)].lapsed

\* acquireLock() counts its attempts and forgets them when it ends.
Goto(r, next) ==
  record' = [record EXCEPT ![r] =
               [record[r] EXCEPT !.pc = next,
                  !.attempt = IF next \in Acquiring THEN @ ELSE 0]]

Heartbeat(r, next) ==
  record' = [record EXCEPT ![r] = [record[r] EXCEPT !.heartbeat = next]]

Write(r, entry) == table' = [table EXCEPT ![Key(r)] = entry]
----------------------------------------------------------------------------
(* The invocation                                                          *)

\* Lambda receives a batch and calls process(), which queues every record.
Invoke(i) ==
  /\ invocation[i] = "none"
  /\ \E batch \in SUBSET {m \in Messages : queue[m] = "visible"} \ {{}} :
       /\ Cardinality(Received) + Cardinality(batch) <= MaxRecords
       /\ queue' = [m \in Messages |-> IF m \in batch THEN "inflight"
                                       ELSE queue[m]]
       /\ receipt' = [m \in Messages |-> IF m \in batch THEN i
                                         ELSE receipt[m]]
       /\ record' = [r \in Records |->
                       IF r[1] = i /\ r[2] \in batch
                       THEN [record[r] EXCEPT !.pc = "queued"] ELSE record[r]]
  /\ invocation' = [invocation EXCEPT ![i] = "running"]
  /\ UNCHANGED <<table, aborted, lapsed, forgotten>>

\* The application aborts the signal it passed, shortly before the deadline.
Abort(i) ==
  /\ invocation[i] = "running" /\ ~aborted[i]
  /\ aborted' = [aborted EXCEPT ![i] = TRUE]
  /\ UNCHANGED <<table, sqs, invocation, record, lapsed, forgotten>>

\* process() answers when every record has, and Lambda deletes what did not
\* fail.  With a receipt that is not the latest SQS may ignore the delete.
Respond(i) ==
  /\ invocation[i] = "running"
  /\ \A m \in Batch(i) : pc(<<i, m>>) \in {"done", "failed"}
  /\ \E ignored \in SUBSET {m \in Batch(i) : receipt[m] # i} :
       queue' = [m \in Messages |->
         IF m \in Batch(i) \ ignored /\ pc(<<i, m>>) = "done" THEN "deleted"
         ELSE IF receipt[m] = i /\ queue[m] = "inflight" THEN "visible"
         ELSE queue[m]]
  /\ invocation' = [invocation EXCEPT ![i] = "over"]
  /\ aborted' = [aborted EXCEPT ![i] = FALSE]
  /\ UNCHANGED <<table, receipt, record, lapsed, forgotten>>

\* The function times out or crashes: everything it was doing stops.
Kill(i) ==
  /\ invocation[i] = "running"
  /\ invocation' = [invocation EXCEPT ![i] = "over"]
  /\ record' = [r \in Records |->
                  IF r[1] = i /\ pc(r) \in {"queued"} \cup Active
                  THEN [record[r] EXCEPT !.pc = "crashed", !.attempt = 0,
                          !.heartbeat = IF @ = "failed" THEN @ ELSE "off"]
                  ELSE record[r]]
  /\ aborted' = [aborted EXCEPT ![i] = FALSE]
  /\ UNCHANGED <<table, sqs, lapsed, forgotten>>

\* Bound: while a batch can still be received.  After that it makes no
\* difference whether a message is visible.
VisibilityLapses(m) ==
  /\ queue[m] = "inflight" /\ Cardinality(Received) < MaxRecords
  /\ queue' = [queue EXCEPT ![m] = "visible"]
  /\ UNCHANGED <<table, receipt, lambda, record, lapsed, forgotten>>

LeaseLapses(k) ==
  /\ table[k].state = "IN_PROGRESS" /\ ~table[k].lapsed
  /\ table' = [table EXCEPT ![k] = [@ EXCEPT !.lapsed = TRUE]]
  /\ lapsed' = [lapsed EXCEPT ![k] = TRUE]
  /\ UNCHANGED <<sqs, lambda, record, forgotten>>

\* DynamoDB removes a record after the retention that its last write gave it,
\* as in PollerJobs.
TtlDelete(k) ==
  /\ table[k].state \in {"COMPLETED", "FAILED"} \/ table[k].lapsed
  /\ table' = [table EXCEPT ![k] = Free]
  /\ forgotten' = [forgotten EXCEPT ![k] = @ \/ table[k].state = "COMPLETED"]
  /\ UNCHANGED <<sqs, lambda, record, lapsed>>
----------------------------------------------------------------------------
(* acquireLock                                                             *)

HasSlot(i) ==
  Cardinality({m \in Batch(i) : pc(<<i, m>>) \in Active}) < Concurrency

\* The record gets its slot.  After an abort nothing is begun.
Begin(r) ==
  /\ pc(r) = "queued" /\ HasSlot(r[1])
  /\ Goto(r, IF Aborted(r) THEN "failed" ELSE "update")
  /\ UNCHANGED <<table, sqs, lambda, lapsed, forgotten>>

UpdateGranted(r) ==
  /\ pc(r) = "update" /\ Grantable(r)
  /\ Write(r, [state |-> "IN_PROGRESS", owner |-> r, lapsed |-> FALSE])
  /\ Goto(r, "granted")
  /\ UNCHANGED <<sqs, lambda, lapsed, forgotten>>

UpdateRejected(r) ==
  /\ pc(r) = "update" /\ ~Grantable(r)
  /\ Goto(r, "read")
  /\ UNCHANGED <<table, sqs, lambda, lapsed, forgotten>>

\* The update's reply is lost and the SDK resends it.
UpdateResent(r) ==
  /\ pc(r) = "granted"
  /\ Goto(r, "update")
  /\ UNCHANGED <<table, sqs, lambda, lapsed, forgotten>>

\* Mutant: the loop bound off by one.
ThreeAttempts   == 3
AttemptsAllowed == 2

ReadAbsent(r) ==
  /\ pc(r) = "read" /\ table[Key(r)].state = "ABSENT"
  /\ IF record[r].attempt + 1 < AttemptsAllowed
     THEN record' = [record EXCEPT ![r] =
                       [record[r] EXCEPT !.pc = "update", !.attempt = @ + 1]]
     ELSE Goto(r, "failed")
  /\ UNCHANGED <<table, sqs, lambda, lapsed, forgotten>>

\* Mutant: whatever is not acquired is taken for a finished duplicate.
KnownInAnyState(r) == table[Key(r)].state # "ABSENT"
KnownCompleted(r)  == table[Key(r)].state = "COMPLETED"

ReadPresent(r) ==
  /\ pc(r) = "read" /\ table[Key(r)].state # "ABSENT"
  /\ Goto(r, IF KnownCompleted(r) THEN "done" ELSE "failed")
  /\ UNCHANGED <<table, sqs, lambda, lapsed, forgotten>>

AcquireThrows(r) ==
  /\ pc(r) \in Acquiring
  /\ Goto(r, "failed")
  /\ UNCHANGED <<table, sqs, lambda, lapsed, forgotten>>
----------------------------------------------------------------------------
(* The handler, the heartbeat and settlement                               *)

\* The reply arrives: the job starts, or after an abort gives the lease back.
StartJob(r) ==
  /\ pc(r) = "granted"
  /\ \/ /\ Aborted(r)
        /\ Goto(r, "release")
     \/ /\ ~Aborted(r)
        /\ record' = [record EXCEPT ![r] =
                        [record[r] EXCEPT !.pc = "run", !.attempt = 0,
                                          !.handler = "running",
                                          !.heartbeat = "waiting"]]
  /\ UNCHANGED <<table, sqs, lambda, lapsed, forgotten>>

HandlerEnds(r) ==
  /\ pc(r) = "run"
  /\ \E end \in {"returned", "threw"} :
       record' = [record EXCEPT ![r] =
                    [record[r] EXCEPT !.pc = "join", !.handler = end,
                       !.heartbeat = IF @ = "waiting" THEN "stopped" ELSE @]]
  /\ UNCHANGED <<table, sqs, lambda, lapsed, forgotten>>

HeartbeatFires(r) ==
  /\ record[r].heartbeat = "waiting"
  /\ Heartbeat(r, "renewing")
  /\ UNCHANGED <<table, sqs, lambda, lapsed, forgotten>>

HeartbeatAborted(r) == pc(r) = "join"

Renew(r) ==
  /\ record[r].heartbeat = "renewing" /\ Owned(r)
  /\ Write(r, [state |-> "IN_PROGRESS", owner |-> r, lapsed |-> FALSE])
  /\ Heartbeat(r, IF HeartbeatAborted(r) THEN "stopped" ELSE "waiting")
  /\ UNCHANGED <<sqs, lambda, lapsed, forgotten>>

\* Refused, or failed with or without effect.
RenewFails(r) ==
  /\ record[r].heartbeat = "renewing"
  /\ \/ Owned(r)
        /\ Write(r, [state |-> "IN_PROGRESS", owner |-> r, lapsed |-> FALSE])
     \/ UNCHANGED table
  /\ Heartbeat(r, "failed")
  /\ UNCHANGED <<sqs, lambda, lapsed, forgotten>>

\* Mutants: an aborted job gives its lease back although its handler has
\* returned, as a poller's does; a failed heartbeat is not looked at.
VerdictReleasingAborted(r) ==
  IF record[r].heartbeat = "failed" THEN "failed"
  ELSE IF record[r].handler = "threw" \/ Aborted(r) THEN "release"
  ELSE "complete"

VerdictIgnoringHeartbeat(r) ==
  IF record[r].handler = "threw" THEN "release"
  ELSE IF Aborted(r) THEN "failed" ELSE "complete"

\* A job whose handler returned keeps its lease, completed or not.
Verdict(r) ==
  IF record[r].heartbeat = "failed" THEN "failed"
  ELSE IF record[r].handler = "threw" THEN "release"
  ELSE IF Aborted(r) THEN "failed" ELSE "complete"

Join(r) ==
  /\ pc(r) = "join" /\ record[r].heartbeat \in {"stopped", "failed"}
  /\ Goto(r, Verdict(r))
  /\ UNCHANGED <<table, sqs, lambda, lapsed, forgotten>>

\* safeRelease swallows every failure of releaseLock.
Release(r) ==
  /\ pc(r) = "release"
  /\ (Owned(r) /\ Write(r, Free)) \/ UNCHANGED table
  /\ Goto(r, "failed")
  /\ UNCHANGED <<sqs, lambda, lapsed, forgotten>>

MarkComplete(r) ==
  /\ pc(r) = "complete" /\ Owned(r)
  /\ Write(r, [state |-> "COMPLETED", owner |-> None, lapsed |-> FALSE])
  /\ Goto(r, "done") \/ Goto(r, "failed")
  /\ UNCHANGED <<sqs, lambda, lapsed, forgotten>>

MarkCompleteFails(r) ==
  /\ pc(r) = "complete"
  /\ Goto(r, "failed")
  /\ UNCHANGED <<table, sqs, lambda, lapsed, forgotten>>
----------------------------------------------------------------------------
\* processRecord() from one await to the next, and the heartbeat beside it.
Step(r) ==
  \/ Begin(r)
  \/ UpdateGranted(r) \/ UpdateRejected(r) \/ ReadAbsent(r) \/ ReadPresent(r)
  \/ AcquireThrows(r) \/ StartJob(r) \/ HandlerEnds(r) \/ Join(r)
  \/ Release(r) \/ MarkComplete(r) \/ MarkCompleteFails(r)

Beat(r) == Renew(r) \/ RenewFails(r)

Next ==
  \/ \E i \in Invocations : Invoke(i) \/ Abort(i) \/ Respond(i) \/ Kill(i)
  \/ \E m \in Messages : VisibilityLapses(m)
  \/ \E k \in Keys : LeaseLapses(k) \/ TtlDelete(k)
  \/ \E r \in Records :
       Step(r) \/ UpdateResent(r) \/ HeartbeatFires(r) \/ Beat(r)

Spec == Init /\ [][Next]_vars
----------------------------------------------------------------------------
\* The job of k is recorded as completed, or was until its retention was over.
WasCommitted(k) == table[k].state = "COMPLETED" \/ forgotten[k]

\* A job is recorded as completed only if a handler for it returned and its
\* ownership was never in doubt.
CommittedWasDone ==
  \A k \in Keys :
    WasCommitted(k) =>
      \E r \in Records : /\ Key(r) = k /\ record[r].handler = "returned"
                         /\ record[r].heartbeat # "failed"

\* A record is reported as done, and its message deleted, only if its job was
\* recorded as completed, by whichever record ran it, and so was really done.
DoneIsCommitted ==
  /\ CommittedWasDone
  /\ \A r \in Records : pc(r) = "done" => WasCommitted(Key(r))
  /\ \A m \in Messages : queue[m] = "deleted" => WasCommitted(KeyOf[m])

\* While a job is being run it is run again only if a lease lapsed, and after
\* its handler has returned only if a lease lapsed or the completed record
\* outlived its retention: an aborted or killed invocation alone, a failed
\* settlement or a redelivery does not repeat it.
RepeatedOnlyAfterExpiry ==
  \A r, s \in Records :
    r # s /\ pc(s) = "run" /\ Key(r) = Key(s) =>
      /\ record[r].handler = "running" => lapsed[Key(r)]
      /\ record[r].handler = "returned" => lapsed[Key(r)] \/ forgotten[Key(r)]
----------------------------------------------------------------------------
Ledger == INSTANCE LeaseLedger WITH Owners <- Records, NoOwner <- None,
                                    ledger <- table

\* Concurrent records keep to the protocol the table promises.
ImplementsLedger == Ledger!Spec
=============================================================================
