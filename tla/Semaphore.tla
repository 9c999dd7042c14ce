----------------------------- MODULE Semaphore -----------------------------
(***************************************************************************)
(* The counting semaphore of src/src/semaphore.ts, which gives each job of *)
(* a worker its concurrency slot.  A call of acquire() or release() runs   *)
(* without interruption; release() hands its slot to the caller that has   *)
(* waited longest, which owns it from then on, before its code resumes.    *)
(***************************************************************************)
EXTENDS Integers, Sequences, FiniteSets

CONSTANTS Callers, MaxConcurrency

ASSUME SemaphoreAssumption ==
  MaxConcurrency \in Nat \ {0}     \* the constructor rejects other values

VARIABLES active,      \* permits given out
          waiters,     \* callers queued by acquire(), oldest first
          held         \* history: the callers that own a permit

semaphore == <<active, waiters, held>>

Waiting  == {waiters[i] : i \in DOMAIN waiters}
Least(a, b) == IF a < b THEN a ELSE b

TypeOK ==
  /\ active \in 0..MaxConcurrency
  /\ waiters \in Seq(Callers)
  /\ held \subseteq Callers

Init == active = 0 /\ waiters = <<>> /\ held = {}

\* Mutant: one permit too many.
FreeCountingOneMore == MaxConcurrency + 1 - active
FreePermits == MaxConcurrency - active

\* A run of acquire() calls with no await between them.
AcquireInOrder(calls) ==
  LET granted == Least(Len(calls), FreePermits) IN
  /\ active' = active + granted
  /\ held' = held \cup {calls[i] : i \in 1..granted}
  /\ waiters' = waiters \o SubSeq(calls, granted + 1, Len(calls))

Acquire(c) ==
  /\ c \notin held \cup Waiting
  /\ AcquireInOrder(<<c>>)

\* Mutants: the slot goes to the newest waiter; the slot is handed over and
\* given back as well; nobody is woken.
ReleaseToNewest(c) ==
  /\ c \in held
  /\ IF waiters # <<>>
     THEN /\ waiters' = SubSeq(waiters, 1, Len(waiters) - 1)
          /\ held' = (held \ {c}) \cup {waiters[Len(waiters)]}
          /\ UNCHANGED active
     ELSE /\ active' = active - 1
          /\ held' = held \ {c}
          /\ UNCHANGED waiters

ReleaseTwice(c) ==
  /\ c \in held
  /\ active' = active - 1
  /\ IF waiters # <<>>
     THEN /\ waiters' = Tail(waiters)
          /\ held' = (held \ {c}) \cup {Head(waiters)}
     ELSE /\ held' = held \ {c}
          /\ UNCHANGED waiters

ReleaseWakingNobody(c) ==
  /\ c \in held
  /\ active' = active - 1
  /\ held' = held \ {c}
  /\ UNCHANGED waiters

Release(c) ==
  /\ c \in held
  /\ IF waiters # <<>>
     THEN /\ waiters' = Tail(waiters)
          /\ held' = (held \ {c}) \cup {Head(waiters)}
          /\ UNCHANGED active
     ELSE /\ active' = active - 1
          /\ held' = held \ {c}
          /\ UNCHANGED waiters

Next == \E c \in Callers : Acquire(c) \/ Release(c)

Spec == Init /\ [][Next]_semaphore

\* run() releases when its task is over, and tasks end.
FairSpec == Spec /\ \A c \in Callers : WF_semaphore(Release(c))
----------------------------------------------------------------------------
\* The count is the number of owners: no permit is lost or given twice, and
\* there are never more owners than permits.
CountsOwners == Cardinality(held) = active /\ active <= MaxConcurrency

\* Nobody waits beside a free permit, for two permits, or beside its own.
NoIdlePermit ==
  /\ waiters # <<>> => active = MaxConcurrency
  /\ Cardinality(Waiting) = Len(waiters)
  /\ Waiting \cap held = {}

\* Whoever waits gets a permit, however often others come back for one.
NoStarvation == \A c \in Callers : c \in Waiting ~> c \in held
----------------------------------------------------------------------------
\* c gets a permit in this step although d has waited longer.
Overtakes(c, d) ==
  /\ c \in Waiting /\ d \in Waiting
  /\ \E i, j \in DOMAIN waiters : waiters[i] = d /\ waiters[j] = c /\ i < j
  /\ c \in held' /\ d \notin held'

\* Permits go out in the order in which acquire() was called.
FirstComeFirstServed == [][\A c, d \in Callers : ~Overtakes(c, d)]_semaphore
=============================================================================
