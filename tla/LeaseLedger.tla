---------------------------- MODULE LeaseLedger ----------------------------
(***************************************************************************)
(* What the idempotency table promises the processors that share it, with  *)
(* no clock, no request and no retry: for each idempotency key, who may    *)
(* run the job and whether it is settled.  src/src/idempotency.ts states   *)
(* it in its header: correctness comes from the lease deadline and from an *)
(* owner token checked on every write.                                     *)
(*                                                                         *)
(* IdempotencyStore implements this ledger with second-rounded deadlines   *)
(* read from skewed clocks; PollerJobs and LambdaBatch with jobs that run  *)
(* concurrently.                                                           *)
(***************************************************************************)
CONSTANTS Keys,     \* idempotency keys
          Owners,   \* owner tokens, one per process() call
          NoOwner

VARIABLE ledger     \* [Keys -> Entry]

Free == [state |-> "ABSENT", owner |-> NoOwner, lapsed |-> FALSE]

Entry ==
  [state  : {"ABSENT", "IN_PROGRESS", "COMPLETED", "FAILED"},
   owner  : Owners \cup {NoOwner},
   lapsed : BOOLEAN]

Held(o, late)  == [state |-> "IN_PROGRESS", owner |-> o, lapsed |-> late]
Settled(s)     == [state |-> s, owner |-> NoOwner, lapsed |-> FALSE]
HeldBy(k, o)   == ledger[k].state = "IN_PROGRESS" /\ ledger[k].owner = o
Grantable(k)   == \/ ledger[k].state = "ABSENT"
                  \/ ledger[k].state = "IN_PROGRESS" /\ ledger[k].lapsed

Init == ledger = [k \in Keys |-> Free]

\* A free key, or one whose lease has lapsed, goes to a new owner.
Grant(k, o) ==
  /\ Grantable(k)
  /\ \E late \in BOOLEAN : ledger' = [ledger EXCEPT ![k] = Held(o, late)]

\* The holder, and nobody else, moves its own deadline.
Renew(k, o) ==
  /\ HeldBy(k, o)
  /\ \E late \in BOOLEAN : ledger' = [ledger EXCEPT ![k] = Held(o, late)]

Settle(k, o) ==
  /\ HeldBy(k, o)
  /\ \E s \in {"COMPLETED", "FAILED"} :
       ledger' = [ledger EXCEPT ![k] = Settled(s)]

Drop(k, o) ==
  /\ HeldBy(k, o)
  /\ ledger' = [ledger EXCEPT ![k] = Free]

\* Time passes: some leases that were running are over.
Lapse ==
  \E S \in SUBSET Keys :
    /\ \A k \in S : ledger[k].state = "IN_PROGRESS" /\ ~ledger[k].lapsed
    /\ ledger' = [k \in Keys |->
                    IF k \in S THEN [ledger[k] EXCEPT !.lapsed = TRUE]
                    ELSE ledger[k]]

\* The table's retention period removes a record that is settled, or whose
\* lease has lapsed; a lease that is running ends by its holder alone.
Forget(k) ==
  /\ ledger[k].state \in {"COMPLETED", "FAILED"} \/ ledger[k].lapsed
  /\ ledger' = [ledger EXCEPT ![k] = Free]

Next ==
  \/ Lapse
  \/ \E k \in Keys, o \in Owners :
       Grant(k, o) \/ Renew(k, o) \/ Settle(k, o) \/ Drop(k, o)
  \/ \E k \in Keys : Forget(k)

Spec == Init /\ [][Next]_ledger
=============================================================================
