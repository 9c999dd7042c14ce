----------------------- MODULE IdempotencyStoreProofs -----------------------
(***************************************************************************)
(* What holds of IdempotencyStore for every set of keys and owners, every  *)
(* clock resolution, lease, retention period and clock skew.               *)
(***************************************************************************)
EXTENDS IdempotencyStore, TLAPS

\* Rounding down loses less than a second.
LEMMA FloorBounds ==
  ASSUME NEW ms \in Nat
  PROVE  /\ FloorSeconds(ms) \in Nat
         /\ FloorSeconds(ms) * TicksPerSecond <= ms
         /\ ms < (FloorSeconds(ms) + 1) * TicksPerSecond
BY StoreAssumption DEF FloorSeconds

\* Rounding up never loses anything.
LEMMA CeilBounds ==
  ASSUME NEW ms \in Nat
  PROVE  /\ CeilSeconds(ms) \in Nat
         /\ ms <= CeilSeconds(ms) * TicksPerSecond
BY StoreAssumption DEF CeilSeconds

LEMMA TimesMonotone ==
  ASSUME NEW a \in Int, NEW b \in Int, a <= b
  PROVE  a * TicksPerSecond <= b * TicksPerSecond
BY StoreAssumption

LEMMA FloorMonotone ==
  ASSUME NEW ms \in Nat
  PROVE  FloorSeconds(ms) <= FloorSeconds(ms + 1)
<1> DEFINE a == FloorSeconds(ms)
           b == FloorSeconds(ms + 1)
<1>1. /\ a \in Nat /\ b \in Nat
      /\ a * TicksPerSecond <= ms /\ ms + 1 < (b + 1) * TicksPerSecond
  BY FloorBounds
<1> HIDE DEF a, b
<1>2. ASSUME b + 1 <= a PROVE FALSE
  <2>1. (b + 1) * TicksPerSecond <= a * TicksPerSecond
    BY <1>1, <1>2, TimesMonotone
  <2>2. (b + 1) * TicksPerSecond \in Int /\ a * TicksPerSecond \in Int
    BY <1>1, StoreAssumption
  <2>3. QED
    BY <1>1, <2>1, <2>2
<1>3. a <= b
  BY <1>1, <1>2
<1>4. QED
  BY <1>3 DEF a, b

LEMMA Distribute ==
  ASSUME NEW a \in Int, NEW b \in Int
  PROVE  (a + b) * TicksPerSecond = a * TicksPerSecond + b * TicksPerSecond
BY StoreAssumption
----------------------------------------------------------------------------
LEMMA ReadingTypes ==
  ASSUME TypeOK, NEW o \in Owners
  PROVE  /\ NowMilliseconds(o) \in Nat
         /\ NowSeconds(o) \in Nat
         /\ LeaseUntil(o) \in Nat
         /\ ExpiresAt(o) \in Nat
<1>1. NowMilliseconds(o) \in Nat
  BY StoreAssumption DEF TypeOK, NowMilliseconds
<1>2. NowSeconds(o) \in Nat /\ CeilSeconds(NowMilliseconds(o)) \in Nat
  BY <1>1, FloorBounds, CeilBounds DEF NowSeconds
<1>3. QED
  BY <1>1, <1>2, StoreAssumption DEF LeaseUntil, ExpiresAt

LEMMA InitTypeOK == Init => TypeOK
BY StoreAssumption DEF Init, TypeOK, Record, NoRecord, Control

\* The steps of one owner, one action at a time.
LEMMA OwnerStepTypeOK ==
  ASSUME TypeOK, NEW o \in Owners,
         \/ \E k \in Keys : AcquireLock(o, k)
         \/ Acquiring(o) \/ AcquireFails(o) \/ Holding(o)
         \/ Crash(o) \/ Recycle(o)
  PROVE  TypeOK'
<1> USE DEF TypeOK, Send, Goto, Hold, Resend, Disclaim, Control, Asking,
            Settling, Finished
<1>0. LeaseUntil(o) \in Nat /\ ExpiresAt(o) \in Nat
  BY ReadingTypes
<1>1. ASSUME NEW k \in Keys, AcquireLock(o, k) PROVE TypeOK'
  BY <1>1 DEF AcquireLock
<1>2. CASE UpdateGranted(o)
  <2>1. table' \in [Keys -> Record]
    BY <1>0, <1>2 DEF UpdateGranted, Record
  <2>2. QED
    BY <1>2, <2>1 DEF UpdateGranted
<1>3. CASE UpdateRejected(o)
  BY <1>3 DEF UpdateRejected
<1>4. CASE ReadAbsent(o)
  BY <1>4 DEF ReadAbsent, NextAttempt, AttemptsAllowed
<1>5. CASE ReadPresent(o)
  BY <1>5 DEF ReadPresent
<1>6. CASE AcquireFails(o)
  BY <1>6 DEF AcquireFails
<1>7. CASE RenewLease(o)
  BY <1>7 DEF RenewLease
<1>8. CASE Renewed(o)
  <2>1. table' \in [Keys -> Record]
    BY <1>0, <1>8 DEF Renewed, Record
  <2>2. QED
    BY <1>8, <2>1 DEF Renewed
<1>9. CASE RenewFails(o)
  BY <1>9 DEF RenewFails
<1>10. CASE Settle(o)
  BY <1>10 DEF Settle
<1>11. CASE Transition(o)
  <2>1. table' \in [Keys -> Record]
    BY <1>0, <1>11 DEF Transition, Record
  <2>2. QED
    BY <1>11, <2>1 DEF Transition
<1>12. CASE ReleaseLock(o)
  <2>1. table' \in [Keys -> Record]
    BY <1>12 DEF ReleaseLock, Record, NoRecord
  <2>2. QED
    BY <1>12, <2>1 DEF ReleaseLock
<1>13. CASE SettleFails(o)
  BY <1>13 DEF SettleFails
<1>14. CASE Crash(o)
  BY <1>14 DEF Crash
<1>15. CASE Recycle(o)
  BY <1>15 DEF Recycle
<1>16. QED
  BY <1>1, <1>2, <1>3, <1>4, <1>5, <1>6, <1>7, <1>8, <1>9, <1>10, <1>11,
     <1>12, <1>13, <1>14, <1>15 DEF Acquiring, Holding

LEMMA NextTypeOK == TypeOK /\ [Next]_vars => TypeOK'
<1> SUFFICES ASSUME TypeOK, [Next]_vars PROVE TypeOK'
  OBVIOUS
<1>1. ASSUME NEW k \in Keys, TtlDelete(k) PROVE TypeOK'
  BY <1>1 DEF TypeOK, TtlDelete, Record, NoRecord
<1>2. CASE Tick
  BY <1>2 DEF TypeOK, Tick
<1>3. CASE UNCHANGED vars
  BY <1>3 DEF TypeOK, vars
<1>4. QED
  BY <1>1, <1>2, <1>3, OwnerStepTypeOK DEF Next

\* Type correctness: every reachable state of the store has the type of its
\* variables, acquireLock's loop counter never leaves 0..1 included.
THEOREM TypeCorrect == Spec => []TypeOK
BY InitTypeOK, NextTypeOK, PTL DEF Spec
----------------------------------------------------------------------------
\* A request built at calledAt asks for a deadline a full lease later, and
\* for a retention that starts less than a second before it.
LEMMA FullLease ==
  ASSUME TypeOK, NEW o \in Owners
  PROVE  /\ calledAt[o] + LeaseTicks <= LeaseUntil(o) * TicksPerSecond
         /\ calledAt[o] + RecordTtlSeconds * TicksPerSecond
              < (ExpiresAt(o) + 1) * TicksPerSecond
<1> DEFINE ms == NowMilliseconds(o)
<1>1. ms \in Nat /\ calledAt[o] \in Nat /\ calledAt[o] <= ms
  BY StoreAssumption DEF TypeOK, NowMilliseconds
<1>2. /\ CeilSeconds(ms) \in Nat
      /\ ms <= CeilSeconds(ms) * TicksPerSecond
      /\ NowSeconds(o) \in Nat
      /\ ms < (NowSeconds(o) + 1) * TicksPerSecond
  BY <1>1, FloorBounds, CeilBounds DEF NowSeconds
<1>3. LeaseUntil(o) * TicksPerSecond
        = CeilSeconds(ms) * TicksPerSecond + LeaseTicks
  BY <1>2, Distribute, StoreAssumption DEF LeaseUntil, LeaseTicks
<1>4. (ExpiresAt(o) + 1) * TicksPerSecond
        = (NowSeconds(o) + 1) * TicksPerSecond
          + RecordTtlSeconds * TicksPerSecond
  <2>1. ExpiresAt(o) + 1 = (NowSeconds(o) + 1) + RecordTtlSeconds
    BY <1>2, StoreAssumption DEF ExpiresAt
  <2>2. QED
    BY <1>2, <2>1, Distribute, StoreAssumption
<1>5. /\ CeilSeconds(ms) * TicksPerSecond \in Nat
      /\ (NowSeconds(o) + 1) * TicksPerSecond \in Nat
      /\ LeaseTicks \in Nat
      /\ RecordTtlSeconds * TicksPerSecond \in Nat
  BY <1>2, StoreAssumption DEF LeaseTicks
<1>6. QED
  BY <1>1, <1>2, <1>3, <1>4, <1>5

\* Nobody else's conditional update takes a key over from an owner whose
\* lease is backed, however fast that requester's clock runs.
LEMMA NoTakeover ==
  ASSUME Inductive, NEW o \in Owners, NEW p \in Owners,
         Entitled(p), key[o] = key[p]
  PROVE  ~MayAcquire(o)
<1> SUFFICES ASSUME MayAcquire(o) PROVE FALSE
  OBVIOUS
<1> DEFINE until == table[key[p]].leaseUntil
<1>1. Backed(p) /\ until \in Nat
  BY DEF Inductive, EntitledIsBacked, TypeOK, Record
<1>2. until <= NowSeconds(o)
  BY <1>1 DEF Backed, Owned, MayAcquire
<1>3. until * TicksPerSecond <= NowSeconds(o) * TicksPerSecond
  BY <1>1, <1>2, ReadingTypes, TimesMonotone DEF Inductive
<1>4. NowSeconds(o) * TicksPerSecond <= now + MaxSkew
  <2>1. NowMilliseconds(o) <= now + MaxSkew
    BY StoreAssumption
    DEF Inductive, RequestsInPast, TypeOK, NowMilliseconds
  <2>2. NowSeconds(o) * TicksPerSecond <= NowMilliseconds(o)
    BY ReadingTypes, FloorBounds DEF Inductive, NowSeconds
  <2>3. NowSeconds(o) * TicksPerSecond \in Int
    BY ReadingTypes, StoreAssumption DEF Inductive
  <2>4. QED
    BY <2>1, <2>2, <2>3, ReadingTypes, StoreAssumption DEF Inductive, TypeOK
<1>5. /\ until * TicksPerSecond \in Int
      /\ NowSeconds(o) * TicksPerSecond \in Int
      /\ LeaseTicks \in Int
  BY <1>1, ReadingTypes, StoreAssumption DEF Inductive, LeaseTicks
<1>6. QED
  BY <1>1, <1>3, <1>4, <1>5, StoreAssumption
  DEF Backed, Entitled, Inductive, TypeOK

\* With a retention period no shorter than the lease, DynamoDB's deletion
\* never takes a record from under an entitled owner.
LEMMA NoEarlyDeletion ==
  ASSUME Inductive, NEW k \in Keys, NEW p \in Owners,
         RecordTtlSeconds >= LeaseDurationSeconds,
         Entitled(p), key[p] = k
  PROVE  ~TtlDelete(k)
<1> SUFFICES ASSUME TtlDelete(k) PROVE FALSE
  OBVIOUS
<1> DEFINE expires == table[k].expiresAt
           clock   == FloorSeconds(now + MaxSkew)
<1>1. Backed(p) /\ expires \in Nat /\ now + MaxSkew \in Nat
  BY StoreAssumption DEF Inductive, EntitledIsBacked, TypeOK, Record
<1>2. expires + 1 <= clock /\ clock \in Nat
      /\ clock * TicksPerSecond <= now + MaxSkew
  BY <1>1, FloorBounds DEF TtlDelete
<1>3. (expires + 1) * TicksPerSecond <= clock * TicksPerSecond
  BY <1>1, <1>2, TimesMonotone
<1>4. LeaseTicks <= RecordTtlSeconds * TicksPerSecond
  BY TimesMonotone, StoreAssumption DEF LeaseTicks
<1>5. /\ (expires + 1) * TicksPerSecond \in Int
      /\ clock * TicksPerSecond \in Int
      /\ LeaseTicks \in Int
      /\ RecordTtlSeconds * TicksPerSecond \in Int
  BY <1>1, <1>2, StoreAssumption DEF LeaseTicks
<1>6. QED
  BY <1>1, <1>2, <1>3, <1>4, <1>5 DEF Backed, Entitled, Inductive, TypeOK
----------------------------------------------------------------------------
OwnerStep(o) ==
  \/ \E k \in Keys : AcquireLock(o, k)
  \/ Acquiring(o) \/ AcquireFails(o) \/ Holding(o)
  \/ Crash(o) \/ Recycle(o)

LEMMA RequestsStep ==
  ASSUME TypeOK, RequestsInPast, NEW o \in Owners, OwnerStep(o)
  PROVE  RequestsInPast'
<1> USE DEF TypeOK, RequestsInPast, Send, Goto, Hold, Resend,
            Disclaim
<1>1. ASSUME NEW k \in Keys, AcquireLock(o, k) PROVE RequestsInPast'
  BY <1>1 DEF AcquireLock
<1>2. CASE Acquiring(o) \/ AcquireFails(o)
  BY <1>2 DEF Acquiring, UpdateGranted, UpdateRejected, ReadAbsent,
              ReadPresent, AcquireFails
<1>3. CASE RenewLease(o) \/ Renewed(o) \/ RenewFails(o)
  BY <1>3 DEF RenewLease, Renewed, RenewFails
<1>4. CASE Settle(o) \/ SettleFails(o)
  BY <1>4 DEF Settle, SettleFails, Settling
<1>5. CASE Transition(o) \/ ReleaseLock(o)
  BY <1>5 DEF Transition, ReleaseLock
<1>6. CASE Crash(o) \/ Recycle(o)
  BY <1>6 DEF Crash, Recycle
<1>7. QED
  BY <1>1, <1>2, <1>3, <1>4, <1>5, <1>6 DEF OwnerStep, Holding

\* An entitlement survives the step of another owner that does not touch
\* its record.
LEMMA Undisturbed ==
  ASSUME Inductive, NEW p \in Owners, Entitled(p)',
         now' = now, pc'[p] = pc[p], leaseFrom'[p] = leaseFrom[p],
         key'[p] = key[p], table'[key[p]] = table[key[p]]
  PROVE  Backed(p)'
<1>1. Entitled(p)
  BY DEF Entitled
<1>2. Backed(p)
  BY <1>1 DEF Inductive, EntitledIsBacked
<1>3. QED
  BY <1>2 DEF Backed, Owned

LEMMA OtherStaysBacked ==
  ASSUME Inductive, NEW o \in Owners, OwnerStep(o),
         NEW p \in Owners, p # o, Entitled(p)'
  PROVE  Backed(p)'
<1>1. /\ now' = now /\ pc'[p] = pc[p]
      /\ leaseFrom'[p] = leaseFrom[p] /\ key'[p] = key[p]
  BY DEF OwnerStep, AcquireLock, Acquiring, UpdateGranted, UpdateRejected,
         ReadAbsent, ReadPresent, AcquireFails, Holding, RenewLease, Renewed,
         RenewFails, Settle, SettleFails, Transition, ReleaseLock, Crash,
         Recycle, Send, Goto, Hold, Resend, Disclaim, Inductive, TypeOK
<1>2. Entitled(p) /\ Backed(p)
  BY <1>1 DEF Entitled, Inductive, EntitledIsBacked
<1>3. Owned(o) => key[o] # key[p]
  BY <1>2 DEF Backed, Owned
<1>4. MayAcquire(o) => key[o] # key[p]
  BY <1>2, NoTakeover
<1>5. table'[key[p]] = table[key[p]]
  <2> USE DEF Inductive, TypeOK
  <2>1. CASE UpdateGranted(o)
    BY <1>4, <2>1 DEF UpdateGranted
  <2>2. CASE Renewed(o) \/ Transition(o) \/ ReleaseLock(o)
    BY <1>3, <2>2 DEF Renewed, Transition, ReleaseLock
  <2>3. CASE UNCHANGED table
    BY <2>3
  <2>4. QED
    BY <2>1, <2>2, <2>3
    DEF OwnerStep, AcquireLock, Acquiring, UpdateRejected, ReadAbsent,
        ReadPresent, AcquireFails, Holding, RenewLease, RenewFails, Settle,
        SettleFails, Crash, Recycle
<1>6. QED
  BY <1>1, <1>5, Undisturbed

LEMMA SelfStaysBacked ==
  ASSUME Inductive, NEW o \in Owners, OwnerStep(o), Entitled(o)'
  PROVE  Backed(o)'
<1> USE DEF Inductive, TypeOK
<1>1. CASE \/ UpdateGranted(o) /\ Hold(o)
           \/ Renewed(o) /\ Hold(o)
  <2>1. /\ table'[key[o]].state = "IN_PROGRESS"
        /\ table'[key[o]].owner = o
        /\ table'[key[o]].leaseUntil = LeaseUntil(o)
        /\ table'[key[o]].expiresAt = ExpiresAt(o)
        /\ key' = key
        /\ leaseFrom'[o] = calledAt[o]
    <3>1. CASE UpdateGranted(o) /\ Hold(o)
      BY <3>1 DEF UpdateGranted, Hold
    <3>2. CASE Renewed(o) /\ Hold(o)
      BY <3>2 DEF Renewed, Hold, Owned, Record
    <3>3. QED
      BY <1>1, <3>1, <3>2
  <2>2. QED
    BY <2>1, FullLease DEF Backed, Owned
<1>2. CASE Renewed(o) /\ UNCHANGED <<pc, leaseFrom>>
  <2>1. /\ table'[key[o]].state = "IN_PROGRESS"
        /\ table'[key[o]].owner = o
        /\ table'[key[o]].leaseUntil = LeaseUntil(o)
        /\ table'[key[o]].expiresAt = ExpiresAt(o)
        /\ key' = key
        /\ leaseFrom'[o] = leaseFrom[o]
        /\ leaseFrom[o] <= calledAt[o]
    BY <1>2 DEF Renewed, Owned, Record, RequestsInPast
  <2>2. /\ LeaseUntil(o) * TicksPerSecond \in Int
        /\ (ExpiresAt(o) + 1) * TicksPerSecond \in Int
        /\ RecordTtlSeconds * TicksPerSecond \in Int
        /\ LeaseTicks \in Int
    BY ReadingTypes, StoreAssumption DEF LeaseTicks
  <2>3. QED
    BY <2>1, <2>2, FullLease DEF Backed, Owned
<1>3. CASE RenewLease(o) \/ RenewFails(o)
  <2>1. /\ now' = now /\ leaseFrom' = leaseFrom /\ key' = key
        /\ table' = table /\ pc[o] \in {"holding", "renewing"}
    BY <1>3 DEF RenewLease, RenewFails
  <2>2. Backed(o)
    BY <2>1 DEF Entitled, EntitledIsBacked
  <2>3. QED
    BY <2>1, <2>2 DEF Backed, Owned
<1>4. CASE pc'[o] \notin {"holding", "renewing"}
  BY <1>4 DEF Entitled
<1>5. QED
  BY <1>1, <1>2, <1>3, <1>4
  DEF OwnerStep, AcquireLock, Acquiring, UpdateGranted, UpdateRejected,
      ReadAbsent, ReadPresent, AcquireFails, Holding, Renewed, Settle,
      SettleFails, Transition, ReleaseLock, Crash, Recycle, Send, Goto, Hold,
      Resend, Settling
----------------------------------------------------------------------------
LEMMA InitInductive == Init => Inductive
<1> SUFFICES ASSUME Init PROVE Inductive
  OBVIOUS
<1>1. TypeOK /\ RequestsInPast
  BY InitTypeOK DEF Init, RequestsInPast
<1>2. EntitledIsBacked
  BY DEF Init, EntitledIsBacked, Entitled
<1>3. QED
  BY <1>1, <1>2 DEF Inductive

LEMMA NextInductive ==
  ASSUME RecordTtlSeconds >= LeaseDurationSeconds
  PROVE  Inductive /\ [Next]_vars => Inductive'
<1> SUFFICES ASSUME Inductive, [Next]_vars PROVE Inductive'
  OBVIOUS
<1>1. TypeOK'
  BY NextTypeOK DEF Inductive
<1>2. ASSUME NEW o \in Owners, OwnerStep(o) PROVE Inductive'
  <2>1. RequestsInPast'
    BY <1>2, RequestsStep DEF Inductive
  <2>2. EntitledIsBacked'
    BY <1>2, OtherStaysBacked, SelfStaysBacked DEF EntitledIsBacked
  <2>3. QED
    BY <1>1, <2>1, <2>2 DEF Inductive
<1>3. ASSUME NEW k \in Keys, TtlDelete(k) PROVE Inductive'
  <2>1. RequestsInPast'
    BY <1>3 DEF Inductive, RequestsInPast, TtlDelete
  <2>2. ASSUME NEW p \in Owners, Entitled(p)' PROVE Backed(p)'
    <3>1. Entitled(p)
      BY <1>3, <2>2 DEF Entitled, TtlDelete
    <3>2. key[p] # k
      BY <1>3, <3>1, NoEarlyDeletion
    <3>3. QED
      BY <1>3, <2>2, <3>2, Undisturbed DEF TtlDelete, Inductive, TypeOK
  <2>3. QED
    BY <1>1, <2>1, <2>2 DEF Inductive, EntitledIsBacked
<1>4. CASE Tick
  <2>1. RequestsInPast'
    BY <1>4 DEF Inductive, TypeOK, RequestsInPast, Tick
  <2>2. ASSUME NEW p \in Owners, Entitled(p)' PROVE Backed(p)'
    <3>1. Entitled(p)
      BY <1>4, <2>2, StoreAssumption
      DEF Entitled, Tick, Inductive, TypeOK, LeaseTicks
    <3>2. QED
      BY <1>4, <3>1
      DEF Tick, Inductive, EntitledIsBacked, Backed, Owned
  <2>3. QED
    BY <1>1, <2>1, <2>2 DEF Inductive, EntitledIsBacked
<1>5. CASE UNCHANGED vars
  BY <1>5 DEF vars, Inductive, TypeOK, RequestsInPast, EntitledIsBacked,
              Entitled, Backed, Owned
<1>6. QED
  BY <1>2, <1>3, <1>4, <1>5 DEF Next, OwnerStep

\* The strengthening of the two properties below: behind every entitlement
\* there is a record that outlasts it.
THEOREM InductiveInvariant ==
  ASSUME RecordTtlSeconds >= LeaseDurationSeconds
  PROVE  Spec => []Inductive
BY InitInductive, NextInductive, PTL DEF Spec

\* As long as the retention period is no shorter than the lease, two
\* processors are never entitled to one job at once, whatever the clock
\* resolution, the lease, the skew and the number of processors.
THEOREM MutualExclusionHolds ==
  ASSUME RecordTtlSeconds >= LeaseDurationSeconds
  PROVE  Spec => []MutualExclusion
<1>1. Inductive => MutualExclusion
  BY DEF Inductive, EntitledIsBacked, MutualExclusion, Backed, Owned
<1>2. QED
  BY <1>1, InductiveInvariant, PTL

\* Under the same assumption an entitled processor's token is in the table:
\* its markComplete and its releaseLock meet their condition.
THEOREM EntitledCanSettleHolds ==
  ASSUME RecordTtlSeconds >= LeaseDurationSeconds
  PROVE  Spec => []EntitledCanSettle
<1>1. Inductive => EntitledCanSettle
  BY DEF Inductive, EntitledIsBacked, EntitledCanSettle, Backed
<1>2. QED
  BY <1>1, InductiveInvariant, PTL
----------------------------------------------------------------------------
\* A settled record is only ever deleted, and not before its retention ends:
\* no acquireLock, renewal or late settlement reopens a finished job.
THEOREM TerminalIsFinalHolds == Spec => TerminalIsFinal
<1> DEFINE Final(k) ==
      table[k].state \in {"COMPLETED", "FAILED"} /\ table'[k] # table[k]
        => table'[k] = NoRecord
           /\ table[k].expiresAt < FloorSeconds(now + MaxSkew)
<1>1. ASSUME TypeOK, [Next]_vars, NEW k \in Keys PROVE Final(k)
  <2>1. ASSUME NEW o \in Owners, OwnerStep(o) PROVE Final(k)
    <3> USE DEF TypeOK
    <3>1. CASE UpdateGranted(o)
      BY <3>1 DEF UpdateGranted, MayAcquire
    <3>2. CASE Renewed(o) \/ Transition(o) \/ ReleaseLock(o)
      <4>1. k = key[o] => table[k].state = "IN_PROGRESS"
        BY <3>2 DEF Renewed, Transition, ReleaseLock, Owned
      <4>2. k # key[o] => table'[k] = table[k]
        <5>1. \E r : table' = [table EXCEPT ![key[o]] = r]
          BY <3>2 DEF Renewed, Transition, ReleaseLock
        <5>2. QED
          BY <5>1
      <4>3. QED
        BY <4>1, <4>2
    <3>3. CASE UNCHANGED table
      BY <3>3
    <3>4. QED
      BY <2>1, <3>1, <3>2, <3>3
      DEF OwnerStep, AcquireLock, Acquiring, UpdateRejected, ReadAbsent,
          ReadPresent, AcquireFails, Holding, RenewLease, RenewFails, Settle,
          SettleFails, Crash, Recycle
  <2>2. ASSUME NEW j \in Keys, TtlDelete(j) PROVE Final(k)
    BY <1>1, <2>2 DEF TtlDelete, TypeOK
  <2>3. CASE Tick \/ UNCHANGED vars
    BY <2>3 DEF Tick, vars
  <2>4. QED
    BY <1>1, <2>1, <2>2, <2>3 DEF Next, OwnerStep
<1>2. TypeOK /\ [Next]_vars => [\A k \in Keys : Final(k)]_vars
  BY <1>1
<1>3. QED
  BY <1>2, TypeCorrect, PTL DEF Spec, TerminalIsFinal
----------------------------------------------------------------------------
\* What a change of one record is in the ledger: for a record in progress,
\* and for one that is not.
LEMMA LedgerHeld ==
  ASSUME TypeOK, now' = now, NEW k \in Keys, NEW w,
         NEW r, table' = [table EXCEPT ![k] = r],
         r.state = "IN_PROGRESS", r.owner = w
  PROVE  \E late \in BOOLEAN :
           LedgerOf' = [LedgerOf EXCEPT ![k] = Ledger!Held(w, late)]
<1>1. table'[k] = r /\ \A j \in Keys \ {k} : table'[j] = table[j]
  BY DEF TypeOK
<1>2. \A j \in Keys \ {k} : LedgerOf'[j] = LedgerOf[j]
  BY <1>1 DEF LedgerOf, Lapsed
<1>3. PICK late \in BOOLEAN : late = Lapsed(k)'
  BY DEF Lapsed
<1>4. LedgerOf'[k] = Ledger!Held(w, late)
  BY <1>1, <1>3 DEF LedgerOf, Ledger!Held
<1>5. LedgerOf' = [LedgerOf EXCEPT ![k] = Ledger!Held(w, late)]
  BY <1>2, <1>4 DEF LedgerOf
<1>6. QED
  BY <1>5

LEMMA LedgerNotHeld ==
  ASSUME TypeOK, now' = now, NEW k \in Keys, NEW s,
         NEW r, table' = [table EXCEPT ![k] = r],
         r.state = s, s # "IN_PROGRESS", r.owner = NoOwner
  PROVE  LedgerOf' = [LedgerOf EXCEPT ![k] = Ledger!Settled(s)]
<1>1. table'[k] = r /\ \A j \in Keys \ {k} : table'[j] = table[j]
  BY DEF TypeOK
<1>2. \A j \in Keys \ {k} : LedgerOf'[j] = LedgerOf[j]
  BY <1>1 DEF LedgerOf, Lapsed
<1>3. Lapsed(k)' = FALSE
  BY <1>1 DEF Lapsed
<1>4. LedgerOf'[k] = Ledger!Settled(s)
  BY <1>1, <1>3 DEF LedgerOf, Ledger!Settled
<1>5. QED
  BY <1>2, <1>4 DEF LedgerOf

\* A request whose condition admits a takeover proves the lease lapsed: its
\* clock reading is no later than the fastest clock now.
LEMMA TakeoverOfLapsed ==
  ASSUME TypeOK, RequestsInPast, NEW o \in Owners, MayAcquire(o),
         table[key[o]].state = "IN_PROGRESS"
  PROVE  Lapsed(key[o])
<1> DEFINE until == table[key[o]].leaseUntil
<1>1. until <= NowSeconds(o) /\ until \in Nat
  BY DEF MayAcquire, TypeOK, Record
<1>2. until * TicksPerSecond <= NowSeconds(o) * TicksPerSecond
  BY <1>1, ReadingTypes, TimesMonotone
<1>3. NowSeconds(o) * TicksPerSecond <= NowMilliseconds(o)
  BY ReadingTypes, FloorBounds DEF NowSeconds
<1>4. NowMilliseconds(o) <= now + MaxSkew
  BY StoreAssumption DEF RequestsInPast, TypeOK, NowMilliseconds
<1>5. /\ until * TicksPerSecond \in Int
      /\ NowSeconds(o) * TicksPerSecond \in Int
      /\ now + MaxSkew \in Int
  BY <1>1, ReadingTypes, StoreAssumption DEF TypeOK
<1>6. QED
  BY <1>2, <1>3, <1>4, <1>5, ReadingTypes DEF Lapsed

LEMMA RequestsInPastHolds == Spec => [](TypeOK /\ RequestsInPast)
<1>1. Init => TypeOK /\ RequestsInPast
  BY InitInductive DEF Inductive
<1>2. TypeOK /\ RequestsInPast /\ [Next]_vars => (TypeOK /\ RequestsInPast)'
  <2> SUFFICES ASSUME TypeOK, RequestsInPast, [Next]_vars
               PROVE  RequestsInPast'
    BY NextTypeOK
  <2>1. ASSUME NEW o \in Owners, OwnerStep(o) PROVE RequestsInPast'
    BY <2>1, RequestsStep
  <2>2. CASE \/ \E k \in Keys : TtlDelete(k)
             \/ Tick \/ UNCHANGED vars
    BY <2>2 DEF TypeOK, RequestsInPast, TtlDelete, Tick, vars
  <2>3. QED
    BY <2>1, <2>2 DEF Next, OwnerStep
<1>3. QED
  BY <1>1, <1>2, PTL DEF Spec

LEMMA ForgottenIsFree ==
  ASSUME TypeOK, now' = now, NEW k \in Keys,
         table' = [table EXCEPT ![k] = NoRecord]
  PROVE  LedgerOf' = [LedgerOf EXCEPT ![k] = Ledger!Free]
<1>1. NoRecord.state = "ABSENT" /\ NoRecord.owner = NoOwner
  BY DEF NoRecord
<1>2. Ledger!Free = Ledger!Settled("ABSENT")
  BY DEF Ledger!Free, Ledger!Settled
<1>3. QED
  BY <1>1, <1>2, LedgerNotHeld

\* Each write of an owner is the ledger's step of that owner.
LEMMA OwnerStepSimulates ==
  ASSUME TypeOK, RequestsInPast, NEW o \in Owners, OwnerStep(o)
  PROVE  [Ledger!Next]_LedgerOf
<1> PICK k \in Keys : k = key[o]
  BY DEF TypeOK
<1>0. Owned(o) => Ledger!HeldBy(k, o)
  BY DEF Owned, Ledger!HeldBy, LedgerOf
<1>1. CASE UpdateGranted(o)
  <2> DEFINE r == [state |-> "IN_PROGRESS", owner |-> o,
                   leaseUntil |-> LeaseUntil(o), expiresAt |-> ExpiresAt(o)]
  <2>1. now' = now /\ table' = [table EXCEPT ![k] = r]
    BY <1>1 DEF UpdateGranted
  <2>2. r.state = "IN_PROGRESS" /\ r.owner = o
    OBVIOUS
  <2>3. Ledger!Grantable(k)
    BY <1>1, TakeoverOfLapsed
    DEF UpdateGranted, MayAcquire, Ledger!Grantable, LedgerOf
  <2> HIDE DEF r
  <2>4. Ledger!Grant(k, o)
    BY <2>1, <2>2, <2>3, LedgerHeld DEF Ledger!Grant
  <2>5. QED
    BY <2>4 DEF Ledger!Next
<1>2. CASE Renewed(o)
  <2> DEFINE r == [table[k] EXCEPT !.leaseUntil = LeaseUntil(o),
                                   !.expiresAt = ExpiresAt(o)]
  <2>1. now' = now /\ table' = [table EXCEPT ![k] = r] /\ Owned(o)
    BY <1>2 DEF Renewed
  <2>2. r.state = "IN_PROGRESS" /\ r.owner = o
    BY <2>1 DEF Owned, TypeOK, Record
  <2> HIDE DEF r
  <2>3. Ledger!Renew(k, o)
    BY <1>0, <2>1, <2>2, LedgerHeld DEF Ledger!Renew
  <2>4. QED
    BY <2>3 DEF Ledger!Next
<1>3. CASE Transition(o)
  <2> DEFINE s == IF pc[o] = "completing" THEN "COMPLETED" ELSE "FAILED"
             r == [state |-> s, owner |-> NoOwner, leaseUntil |-> 0,
                   expiresAt |-> ExpiresAt(o)]
  <2>1. now' = now /\ table' = [table EXCEPT ![k] = r] /\ Owned(o)
    BY <1>3 DEF Transition
  <2>2. r.state = s /\ r.owner = NoOwner /\ s \in {"COMPLETED", "FAILED"}
    OBVIOUS
  <2> HIDE DEF r, s
  <2>3. Ledger!Settle(k, o)
    BY <1>0, <2>1, <2>2, LedgerNotHeld DEF Ledger!Settle
  <2>4. QED
    BY <2>3 DEF Ledger!Next
<1>4. CASE ReleaseLock(o)
  <2>1. now' = now /\ table' = [table EXCEPT ![k] = NoRecord] /\ Owned(o)
    BY <1>4 DEF ReleaseLock
  <2>2. LedgerOf' = [LedgerOf EXCEPT ![k] = Ledger!Free]
    BY <2>1, ForgottenIsFree
  <2>3. Ledger!Drop(k, o)
    BY <1>0, <2>1, <2>2 DEF Ledger!Drop
  <2>4. QED
    BY <2>3 DEF Ledger!Next
<1>5. CASE UNCHANGED <<table, now>>
  BY <1>5 DEF LedgerOf, Lapsed
<1>6. QED
  BY <1>1, <1>2, <1>3, <1>4, <1>5
  DEF OwnerStep, AcquireLock, Acquiring, UpdateRejected, ReadAbsent,
      ReadPresent, AcquireFails, Holding, RenewLease, RenewFails, Settle,
      SettleFails, Crash, Recycle

\* The passage of time is the lapse of the leases that end at this tick.
LEMMA TickSimulates ==
  ASSUME TypeOK, Tick
  PROVE  Ledger!Lapse
<1> DEFINE S == {k \in Keys : Lapsed(k)' /\ ~Lapsed(k)}
<1>1. S \in SUBSET Keys
  OBVIOUS
<1>2. ASSUME NEW k \in Keys, Lapsed(k) PROVE Lapsed(k)'
  <2> DEFINE until   == table[k].leaseUntil * TicksPerSecond
             expires == table[k].expiresAt
             clock   == FloorSeconds(now + MaxSkew)
             later   == FloorSeconds(now + MaxSkew + 1)
  <2>1. /\ now' = now + 1 /\ table' = table
        /\ now \in Nat /\ now + MaxSkew \in Nat
        /\ now + 1 + MaxSkew = now + MaxSkew + 1
    BY StoreAssumption DEF Tick, TypeOK
  <2>2. until \in Int /\ expires \in Int
    BY StoreAssumption DEF TypeOK, Record
  <2>3. clock \in Int /\ later \in Int /\ clock <= later
    BY <2>1, FloorBounds, FloorMonotone
  <2>4. /\ table[k].state = "IN_PROGRESS"
        /\ until <= now + MaxSkew \/ expires < clock
    BY <1>2 DEF Lapsed
  <2>5. until <= now + MaxSkew => until <= now + 1 + MaxSkew
    BY <2>1, <2>2, StoreAssumption
  <2>6. FloorSeconds(now' + MaxSkew) = later
    BY <2>1
  <2>7. expires < clock => expires < later
    <3> HIDE DEF expires, clock, later
    <3> QED
      BY <2>2, <2>3
  <2> QED
    BY <2>1, <2>4, <2>5, <2>6, <2>7 DEF Lapsed
<1>3. \A k \in S : LedgerOf[k].state = "IN_PROGRESS" /\ ~LedgerOf[k].lapsed
  BY DEF Tick, Lapsed, LedgerOf
<1>4. LedgerOf' = [k \in Keys |->
                     IF k \in S THEN [LedgerOf[k] EXCEPT !.lapsed = TRUE]
                     ELSE LedgerOf[k]]
  BY <1>2 DEF Tick, LedgerOf, Lapsed
<1>5. QED
  BY <1>1, <1>3, <1>4 DEF Ledger!Lapse

\* The store keeps the ledger's promise: second-rounded deadlines, skewed
\* clocks, requests that arrive late and replies that are lost all come down
\* to grants of free or lapsed keys and writes by the holder.
THEOREM StoreImplementsLedger == Spec => ImplementsLedger
<1>1. Init => Ledger!Init
  BY DEF Init, Ledger!Init, Ledger!Free, LedgerOf, Lapsed, NoRecord
<1>2. TypeOK /\ RequestsInPast /\ [Next]_vars => [Ledger!Next]_LedgerOf
  <2> SUFFICES ASSUME TypeOK, RequestsInPast, [Next]_vars
               PROVE  [Ledger!Next]_LedgerOf
    OBVIOUS
  <2>1. ASSUME NEW o \in Owners, OwnerStep(o) PROVE [Ledger!Next]_LedgerOf
    BY <2>1, OwnerStepSimulates
  <2>2. ASSUME NEW k \in Keys, TtlDelete(k) PROVE [Ledger!Next]_LedgerOf
    <3>1. now' = now /\ table' = [table EXCEPT ![k] = NoRecord]
      BY <2>2 DEF TtlDelete
    <3>2. LedgerOf' = [LedgerOf EXCEPT ![k] = Ledger!Free]
      BY <3>1, ForgottenIsFree
    <3>3. \/ LedgerOf[k].state \in {"COMPLETED", "FAILED"}
          \/ LedgerOf[k].lapsed
      BY <2>2 DEF TtlDelete, TypeOK, Record, LedgerOf, Lapsed
    <3>4. Ledger!Forget(k)
      BY <3>2, <3>3 DEF Ledger!Forget
    <3>5. QED
      BY <3>4 DEF Ledger!Next
  <2>3. CASE Tick
    BY <2>3, TickSimulates DEF Ledger!Next
  <2>4. CASE UNCHANGED vars
    BY <2>4 DEF vars, LedgerOf, Lapsed
  <2>5. QED
    BY <2>1, <2>2, <2>3, <2>4 DEF Next, OwnerStep
<1>3. QED
  BY <1>1, <1>2, RequestsInPastHolds, PTL
  DEF Spec, ImplementsLedger, Ledger!Spec
=============================================================================
