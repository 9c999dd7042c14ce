-------------------------- MODULE IdempotencyStore --------------------------
(***************************************************************************)
(* The DynamoDB execution leases of src/src/idempotency.ts, under the most *)
(* general client: any number of owners that call acquireLock, renewLease, *)
(* markComplete, markFailed and releaseLock in any order the API permits.  *)
(*                                                                         *)
(* Time is real time in ticks; each owner reads its own clock (Date.now),  *)
(* ahead of real time by a fixed offset of at most MaxSkew ticks.  Every   *)
(* request carries the clock its caller read before sending it, so the     *)
(* table applies requests that are older than the moment of application.   *)
(* A reply may be lost: the SDK then sends the same request again, or the  *)
(* caller sees an error although the request was applied.                  *)
(***************************************************************************)
EXTENDS Integers

CONSTANTS Keys, Owners, NoOwner,
          TicksPerSecond,        \* clock resolution: ticks in one second
          LeaseDurationSeconds,
          RecordTtlSeconds,
          MaxSkew,               \* largest offset of any clock, in ticks
          MaxNow                 \* bound on time, for model checking

ASSUME StoreAssumption ==
  /\ NoOwner \notin Owners
  /\ TicksPerSecond \in Nat \ {0}
  /\ LeaseDurationSeconds \in Nat \ {0}
  /\ RecordTtlSeconds \in Nat \ {0}
  /\ MaxSkew \in Nat
  /\ MaxNow \in Nat

VARIABLES table,      \* the DynamoDB table: a record per key
          now,        \* real time
          offset,     \* how far each owner's clock runs ahead
          pc,         \* what each owner is doing
          key,        \* the key of its call
          attempt,    \* acquireLock's loop counter
          calledAt,   \* real time at which its current request was built
          leaseFrom   \* real time at which its last granted or renewed lease
                      \* was requested

vars == <<table, now, offset, pc, key, attempt, calledAt, leaseFrom>>

FloorSeconds(ms) == ms \div TicksPerSecond
\* Mutant: the deadline rounded down, as docs/failures-and-lessons.md section 6
\* tells of an earlier version.
CeilRoundedDown(ms) == ms \div TicksPerSecond
CeilSeconds(ms)  == (ms + TicksPerSecond - 1) \div TicksPerSecond

\* nowMilliseconds, nowSeconds and leaseUntil of the request o has built.
NowMilliseconds(o) == calledAt[o] + offset[o]
NowSeconds(o)      == FloorSeconds(NowMilliseconds(o))
LeaseUntil(o)      == CeilSeconds(NowMilliseconds(o)) + LeaseDurationSeconds
ExpiresAt(o)       == NowSeconds(o) + RecordTtlSeconds

NoRecord == [state |-> "ABSENT", owner |-> NoOwner,
             leaseUntil |-> 0, expiresAt |-> 0]

Record ==
  [state      : {"ABSENT", "IN_PROGRESS", "COMPLETED", "FAILED"},
   owner      : Owners \cup {NoOwner},
   leaseUntil : Nat,
   expiresAt  : Nat]

Asking    == {"update", "read"}
Settling  == {"completing", "failing", "releasing"}
Finished  == {"saw_completed", "saw_failed", "saw_in_progress",
              "threw", "settled", "crashed"}
Control   == {"idle", "holding", "renewing", "unsure"}
               \cup Asking \cup Settling \cup Finished

TypeOK ==
  /\ table \in [Keys -> Record]
  /\ now \in Nat
  /\ offset \in [Owners -> 0..MaxSkew]
  /\ pc \in [Owners -> Control]
  /\ key \in [Owners -> Keys]
  /\ attempt \in [Owners -> {0, 1}]
  /\ calledAt \in [Owners -> Nat]
  /\ leaseFrom \in [Owners -> Nat]

Init ==
  /\ table = [k \in Keys |-> NoRecord]
  /\ now = 0
  /\ offset \in [Owners -> 0..MaxSkew]
  /\ pc = [o \in Owners |-> "idle"]
  /\ key \in [Owners -> Keys]
  /\ attempt = [o \in Owners |-> 0]
  /\ calledAt = [o \in Owners |-> 0]
  /\ leaseFrom = [o \in Owners |-> 0]
----------------------------------------------------------------------------
\* Mutants: a takeover that does not look at the state, or at the clock of
\* the request; writes that check the state and not the owner token.
TakeoverOfAnyState(o) ==
  \/ table[key[o]].state = "ABSENT"
  \/ table[key[o]].leaseUntil <= NowSeconds(o)

TakeoverOneSecondEarly(o) ==
  \/ table[key[o]].state = "ABSENT"
  \/ /\ table[key[o]].state = "IN_PROGRESS"
     /\ table[key[o]].leaseUntil <= NowSeconds(o) + 1

OwnedByAnyone(o) == table[key[o]].state = "IN_PROGRESS"

\* The conditions of the conditional writes.
MayAcquire(o) ==
  \/ table[key[o]].state = "ABSENT"
  \/ /\ table[key[o]].state = "IN_PROGRESS"
     /\ table[key[o]].leaseUntil <= NowSeconds(o)

Owned(o) ==
  /\ table[key[o]].state = "IN_PROGRESS"
  /\ table[key[o]].owner = o

\* o reads its clock, builds a request and sends it.
Send(o, next) ==
  /\ pc' = [pc EXCEPT ![o] = next]
  /\ calledAt' = [calledAt EXCEPT ![o] = now]

\* o has no request outstanding any more.
Goto(o, next) ==
  /\ pc' = [pc EXCEPT ![o] = next]
  /\ calledAt' = [calledAt EXCEPT ![o] = 0]

\* The reply is lost: the SDK sends the same request again.
Resend == UNCHANGED <<pc, calledAt>>

\* o was told that it holds the lease it asked for when it built the request.
Hold(o) ==
  /\ leaseFrom' = [leaseFrom EXCEPT ![o] = calledAt[o]]
  /\ Goto(o, "holding")

\* From here o makes no claim on a lease.
Disclaim(o) == leaseFrom' = [leaseFrom EXCEPT ![o] = 0]
----------------------------------------------------------------------------
\* acquireLock(k, o): the first turn of the loop builds the update.
AcquireLock(o, k) ==
  /\ pc[o] = "idle"
  /\ Send(o, "update")
  /\ key' = [key EXCEPT ![o] = k]
  /\ attempt' = [attempt EXCEPT ![o] = 0]
  /\ UNCHANGED <<table, now, offset, leaseFrom>>

\* The conditional update succeeds: a new record, or a takeover.
UpdateGranted(o) ==
  /\ pc[o] = "update"
  /\ MayAcquire(o)
  /\ table' = [table EXCEPT ![key[o]] =
                 [state |-> "IN_PROGRESS", owner |-> o,
                  leaseUntil |-> LeaseUntil(o), expiresAt |-> ExpiresAt(o)]]
  /\ Hold(o) \/ (Resend /\ UNCHANGED leaseFrom)
  /\ UNCHANGED <<now, offset, key, attempt>>

\* ConditionalCheckFailedException: acquireLock goes on to read the record.
UpdateRejected(o) ==
  /\ pc[o] = "update"
  /\ ~MayAcquire(o)
  /\ Goto(o, "read")
  /\ UNCHANGED <<table, now, offset, key, attempt, leaseFrom>>

\* Mutants: the loop bound off by one, and a counter that is not advanced.
ThreeAttempts   == 3
AttemptsAllowed == 2

SameAttempt(o) == attempt[o]
NextAttempt(o) == attempt[o] + 1

\* A record that vanished after the update is worth one more attempt.
ReadAbsent(o) ==
  /\ pc[o] = "read"
  /\ table[key[o]].state = "ABSENT"
  /\ IF NextAttempt(o) < AttemptsAllowed
     THEN /\ attempt' = [attempt EXCEPT ![o] = NextAttempt(o)]
          /\ Send(o, "update")
     ELSE /\ Goto(o, "saw_in_progress")
          /\ UNCHANGED attempt
  /\ UNCHANGED <<table, now, offset, key, leaseFrom>>

\* toAcquireStatus of the state read.
ReadPresent(o) ==
  /\ pc[o] = "read"
  /\ \/ table[key[o]].state = "COMPLETED" /\ Goto(o, "saw_completed")
     \/ table[key[o]].state = "FAILED" /\ Goto(o, "saw_failed")
     \/ table[key[o]].state = "IN_PROGRESS" /\ Goto(o, "saw_in_progress")
  /\ UNCHANGED <<table, now, offset, key, attempt, leaseFrom>>

\* Any other error of the update or the read leaves acquireLock.
AcquireFails(o) ==
  /\ pc[o] \in Asking
  /\ Goto(o, "threw")
  /\ UNCHANGED <<table, now, offset, key, attempt, leaseFrom>>
----------------------------------------------------------------------------
RenewLease(o) ==
  /\ pc[o] = "holding"
  /\ Send(o, "renewing")
  /\ UNCHANGED <<table, now, offset, key, attempt, leaseFrom>>

Renewed(o) ==
  /\ pc[o] = "renewing"
  /\ Owned(o)
  /\ table' = [table EXCEPT ![key[o]] =
                 [@ EXCEPT !.leaseUntil = LeaseUntil(o),
                           !.expiresAt = ExpiresAt(o)]]
  /\ Hold(o) \/ (Resend /\ UNCHANGED leaseFrom)
  /\ UNCHANGED <<now, offset, key, attempt>>

\* The condition fails or the request errs: the caller is back where it was.
RenewFails(o) ==
  /\ pc[o] = "renewing"
  /\ Goto(o, "holding")
  /\ UNCHANGED <<table, now, offset, key, attempt, leaseFrom>>

\* markComplete, markFailed and releaseLock: from here o claims no lease.
Settle(o) ==
  /\ pc[o] \in {"holding", "unsure"}
  /\ \E call \in Settling : Send(o, call)
  /\ Disclaim(o)
  /\ UNCHANGED <<table, now, offset, key, attempt>>

\* transition() to COMPLETED or FAILED removes owner and deadline.
Transition(o) ==
  /\ pc[o] \in {"completing", "failing"}
  /\ Owned(o)
  /\ table' = [table EXCEPT ![key[o]] =
                 [state |-> IF pc[o] = "completing" THEN "COMPLETED"
                            ELSE "FAILED",
                  owner |-> NoOwner, leaseUntil |-> 0,
                  expiresAt |-> ExpiresAt(o)]]
  /\ Goto(o, "settled") \/ Resend
  /\ UNCHANGED <<now, offset, key, attempt, leaseFrom>>

ReleaseLock(o) ==
  /\ pc[o] = "releasing"
  /\ Owned(o)
  /\ table' = [table EXCEPT ![key[o]] = NoRecord]
  /\ Goto(o, "settled") \/ Resend
  /\ UNCHANGED <<now, offset, key, attempt, leaseFrom>>

SettleFails(o) ==
  /\ pc[o] \in Settling
  /\ Goto(o, "unsure")
  /\ UNCHANGED <<table, now, offset, key, attempt, leaseFrom>>
----------------------------------------------------------------------------
\* The owner's process dies; its lease stays behind in the table.
Crash(o) ==
  /\ pc[o] \notin {"idle"} \cup Finished
  /\ Goto(o, "crashed")
  /\ Disclaim(o)
  /\ UNCHANGED <<table, now, offset, key, attempt>>

\* Owner tokens are fresh UUIDs: a finished token of which the table keeps
\* no trace may stand for a new one.
Recycle(o) ==
  /\ pc[o] \in Finished \cup {"unsure"}
  /\ \A k \in Keys : table[k].owner # o
  /\ Goto(o, "idle")
  /\ attempt' = [attempt EXCEPT ![o] = 0]
  /\ UNCHANGED <<table, now, offset, key, leaseFrom>>

\* DynamoDB deletes a record some time after its expiresAt has passed, by a
\* clock at most as fast as the fastest.
TtlDelete(k) ==
  /\ table[k].state # "ABSENT"
  /\ table[k].expiresAt < FloorSeconds(now + MaxSkew)
  /\ table' = [table EXCEPT ![k] = NoRecord]
  /\ UNCHANGED <<now, offset, pc, key, attempt, calledAt, leaseFrom>>

Tick ==
  /\ now < MaxNow
  /\ now' = now + 1
  /\ UNCHANGED <<table, offset, pc, key, attempt, calledAt, leaseFrom>>

Acquiring(o) ==
  UpdateGranted(o) \/ UpdateRejected(o) \/ ReadAbsent(o) \/ ReadPresent(o)

Holding(o) ==
  \/ RenewLease(o) \/ Renewed(o) \/ RenewFails(o)
  \/ Settle(o) \/ Transition(o) \/ ReleaseLock(o) \/ SettleFails(o)

Next ==
  \/ \E o \in Owners :
       \/ \E k \in Keys : AcquireLock(o, k)
       \/ Acquiring(o) \/ AcquireFails(o) \/ Holding(o)
       \/ Crash(o) \/ Recycle(o)
  \/ \E k \in Keys : TtlDelete(k)
  \/ Tick

Spec == Init /\ [][Next]_vars

\* DynamoDB answers what acquireLock awaits, and not every reply is lost: the
\* SDK's resends are few.
Fairness ==
  \A o \in Owners :
    /\ WF_vars(Acquiring(o))
    /\ []<><<UpdateGranted(o)>>_vars => []<><<UpdateGranted(o) /\ Hold(o)>>_vars

FairSpec == Spec /\ Fairness
----------------------------------------------------------------------------
LeaseTicks == LeaseDurationSeconds * TicksPerSecond

\* o was told that it holds the lease, and by no clock is that lease over.
Entitled(o) ==
  /\ pc[o] \in {"holding", "renewing"}
  /\ now + MaxSkew < leaseFrom[o] + LeaseTicks

\* Two processors are never entitled to the same job at the same time,
\* whatever their clocks, the age of their requests and the lost replies.
MutualExclusion ==
  \A o, p \in Owners :
    Entitled(o) /\ Entitled(p) /\ key[o] = key[p] => o = p

\* An entitled processor can still settle: its token is in the table.
EntitledCanSettle == \A o \in Owners : Entitled(o) => Owned(o)

\* Why (the inductive invariant).  Requests are built in the past and a
\* renewal after the grant it renews; and the record behind an entitlement
\* outlasts it, by its deadline and by its retention.
RequestsInPast ==
  \A o \in Owners :
    /\ calledAt[o] <= now
    /\ leaseFrom[o] <= now
    /\ pc[o] = "renewing" => leaseFrom[o] <= calledAt[o]

Backed(o) ==
  /\ Owned(o)
  /\ leaseFrom[o] + LeaseTicks <= table[key[o]].leaseUntil * TicksPerSecond
  /\ leaseFrom[o] + RecordTtlSeconds * TicksPerSecond
       < (table[key[o]].expiresAt + 1) * TicksPerSecond

EntitledIsBacked == \A o \in Owners : Entitled(o) => Backed(o)

Inductive == TypeOK /\ RequestsInPast /\ EntitledIsBacked

\* A COMPLETED or FAILED record is never reopened: it only disappears, and
\* not before its retention period is over.
TerminalIsFinal ==
  [][\A k \in Keys :
       table[k].state \in {"COMPLETED", "FAILED"} /\ table'[k] # table[k]
         => table'[k] = NoRecord
            /\ table[k].expiresAt < FloorSeconds(now + MaxSkew)]_vars

\* acquireLock answers or throws: the retry after a vanished record is
\* bounded, even if other owners keep creating and releasing the record.
AcquireAnswers == \A o \in Owners : pc[o] \in Asking ~> pc[o] \notin Asking
----------------------------------------------------------------------------
\* The ledger the store implements: a lease has lapsed once the fastest
\* clock has reached its deadline, or the end of its record's retention if
\* that is sooner.
Lapsed(k) ==
  /\ table[k].state = "IN_PROGRESS"
  /\ \/ table[k].leaseUntil * TicksPerSecond <= now + MaxSkew
     \/ table[k].expiresAt < FloorSeconds(now + MaxSkew)

LedgerOf ==
  [k \in Keys |-> [state |-> table[k].state, owner |-> table[k].owner,
                   lapsed |-> Lapsed(k)]]

Ledger == INSTANCE LeaseLedger WITH ledger <- LedgerOf

ImplementsLedger == Ledger!Spec
=============================================================================
