---------------------------- MODULE ReplayProofs ----------------------------
(***************************************************************************)
(* Proofs about ReplayCoordinator: for any number of messages, listings    *)
(* and requests, nothing is lost and nothing is sent twice without reason. *)
(***************************************************************************)
EXTENDS ReplayCoordinator, TLAPS

\* What cache and flights know of the sends.  A send that is known of happened,
\* and somebody holds the object that says so; a flight sends only what is not
\* known to be sent and deletes only what is; and a copy that nothing would
\* excuse is known of, or its message is gone for good.
SendsHappened == published \subseteq copied

SendsAreHeld == \A m \in published : m \in cached \/ Flying(m)

FlightsAgree ==
  \A m \in Messages : /\ flight[m] = "deleting" => m \in published
                      /\ flight[m] = "sending" => m \notin published

CopiesAreKnown ==
  \A m \in Messages \ (excused \cup published) :
    m \notin dlq \cup cached /\ ~Flying(m)

Memory == SendsHappened /\ SendsAreHeld /\ FlightsAgree /\ CopiesAreKnown

Step(m) == Expire(m) \/ Send(m) \/ Remove(m) \/ ReplayFails(m)

\* Every reachable state of the dashboard is well typed.
THEOREM TypeCorrect == Spec => []TypeOK
<1>1. Init => TypeOK
  BY DEF Init, TypeOK, Idle, Handle, Listing, Caller
<1>2. TypeOK /\ [Next]_vars => TypeOK'
  <2> SUFFICES ASSUME TypeOK, [Next]_vars PROVE TypeOK'
    OBVIOUS
  <2> USE DEF TypeOK, Handle, Listing, Caller
  <2>1. ASSUME NEW m \in Messages, Step(m) PROVE TypeOK'
    <3>1. CASE Expire(m) BY <3>1 DEF Expire, queues
    <3>2. CASE SendSucceeds(m) BY <3>2 DEF SendSucceeds
    <3>3. CASE SendReplyLost(m) BY <3>3 DEF SendReplyLost, cache
    <3>4. CASE DeleteSucceeds(m) BY <3>4 DEF DeleteSucceeds, Delete, Lands
    <3>5. CASE DeleteReplyLost(m) BY <3>5 DEF DeleteReplyLost, Delete, cache
    <3>6. CASE ReplayFails(m) BY <3>6 DEF ReplayFails, Lands, Forget, queues
    <3> QED BY <2>1, <3>1, <3>2, <3>3, <3>4, <3>5, <3>6
         DEF Step, Send, Remove
  <2>2. ASSUME NEW l \in Listings, List(l) PROVE TypeOK'
    BY <2>2 DEF List, Prune, Pruned, Forget, queues
  <2>3. ASSUME NEW l \in Listings, Receive(l) PROVE TypeOK'
    <3>1. PICK got \in SUBSET dlq : ReceiveMessages(l, got)
      BY <2>3 DEF Receive
    <3>2. \A k \in Listings : listing'[k] \in Listing
      BY <3>1 DEF ReceiveMessages
    <3>3. listing' \in [Listings -> Listing] BY <3>1, <3>2 DEF ReceiveMessages
    <3> QED BY <3>1, <3>3 DEF ReceiveMessages, queues
  <2>4. ASSUME NEW l \in Listings, ListingReturns(l) PROVE TypeOK'
    <3>1. \A m \in Listed(l) : listing[l].received[m] \in Handle
      BY <2>4 DEF Listed
    <3> QED BY <2>4, <3>1 DEF ListingReturns, KnownSent, Listed, Idle, queues
  <2>5. ASSUME NEW l \in Listings, ListingFails(l) PROVE TypeOK'
    BY <2>5 DEF ListingFails, Idle, queues, cache
  <2>6. ASSUME NEW c \in Callers, NEW m \in Messages,
               Join(c, m) \/ Missing(c, m) \/ StartReplay(c, m)
        PROVE TypeOK'
    <3>1. CASE Join(c, m) BY <3>1 DEF Join, Calls, queues, cache
    <3>2. CASE Missing(c, m)
      BY <3>2 DEF Missing, Calls, Prune, Pruned, Forget, queues
    <3>3. CASE StartReplay(c, m)
      BY <3>3 DEF StartReplay, Calls, Prune, Pruned, Forget, queues
    <3> QED BY <2>6, <3>1, <3>2, <3>3
  <2>7. CASE Restart BY <2>7 DEF Restart, Forget, Idle, queues
  <2>8. CASE UNCHANGED vars BY <2>8 DEF vars, queues, cache
  <2> QED BY <2>1, <2>2, <2>3, <2>4, <2>5, <2>6, <2>7, <2>8 DEF Next, Step
<1> QED BY <1>1, <1>2, PTL DEF Spec
-----------------------------------------------------------------------------
\* Pruning the cache keeps the memory: what it forgets is excused or gone.
LEMMA PruneKeepsMemory ==
  ASSUME TypeOK, Memory, Prune, UNCHANGED <<queues, flight>>
  PROVE  Memory'
<1> USE DEF TypeOK, Prune, Pruned, Forget, Flying, queues
<1>1. SendsHappened' BY DEF Memory, SendsHappened
<1>2. SendsAreHeld' BY DEF Memory, SendsAreHeld
<1>3. FlightsAgree' BY DEF Memory, FlightsAgree
<1>4. CopiesAreKnown' BY DEF Memory, CopiesAreKnown
<1> QED BY <1>1, <1>2, <1>3, <1>4 DEF Memory

\* The steps of a replay, and the end of an entry's lifetime.
LEMMA StepKeepsMemory ==
  ASSUME TypeOK, Memory, NEW m \in Messages, Step(m)
  PROVE  Memory'
<1> USE DEF TypeOK, Memory, SendsHappened, SendsAreHeld, FlightsAgree,
            CopiesAreKnown, Flying
<1>1. CASE Expire(m) BY <1>1 DEF Expire, queues
<1>2. CASE SendSucceeds(m) BY <1>2 DEF SendSucceeds
<1>3. CASE SendReplyLost(m) BY <1>3 DEF SendReplyLost, cache
<1>4. CASE DeleteSucceeds(m) BY <1>4 DEF DeleteSucceeds, Delete, Lands
<1>5. CASE DeleteReplyLost(m) BY <1>5 DEF DeleteReplyLost, Delete, cache
<1>6. CASE ReplayFails(m) BY <1>6 DEF ReplayFails, Lands, Forget, queues
<1> QED BY <1>1, <1>2, <1>3, <1>4, <1>5, <1>6 DEF Step, Send, Remove

\* A listing renews entries and forgets no send.
LEMMA ListingKeepsMemory ==
  ASSUME TypeOK, Memory, NEW l \in Listings, ListingReturns(l)
  PROVE  Memory'
<1> USE DEF TypeOK, ListingReturns, Listed, KnownSent, Flying, queues
<1>1. SendsHappened' BY DEF Memory, SendsHappened
<1>2. SendsAreHeld' BY DEF Memory, SendsAreHeld
<1>3. FlightsAgree' BY DEF Memory, FlightsAgree
<1>4. CopiesAreKnown' BY DEF Memory, CopiesAreKnown, SendsAreHeld
<1> QED BY <1>1, <1>2, <1>3, <1>4 DEF Memory

LEMMA NextKeepsMemory ==
  ASSUME TypeOK, Memory, [Next]_vars
  PROVE  Memory'
<1>1. ASSUME NEW m \in Messages, Step(m) PROVE Memory'
  BY <1>1, StepKeepsMemory
<1>2. ASSUME NEW l \in Listings, List(l) PROVE Memory'
  BY <1>2, PruneKeepsMemory DEF List, queues
<1>3. ASSUME NEW l \in Listings, ListingReturns(l) PROVE Memory'
  BY <1>3, ListingKeepsMemory
<1>4. ASSUME NEW c \in Callers, NEW m \in Messages, Missing(c, m)
      PROVE  Memory'
  BY <1>4, PruneKeepsMemory DEF Missing, queues
<1>5. ASSUME NEW c \in Callers, NEW m \in Messages, StartReplay(c, m)
      PROVE  Memory'
  BY <1>5 DEF StartReplay, Prune, Pruned, Forget, TypeOK, Flying, queues,
              Memory, SendsHappened, SendsAreHeld, FlightsAgree,
              CopiesAreKnown
<1>6. CASE Restart
  BY <1>6 DEF Restart, Forget, TypeOK, Flying, queues, Memory,
              SendsHappened, SendsAreHeld, FlightsAgree, CopiesAreKnown
<1>7. ASSUME UNCHANGED <<queues, cached, published, flight, excused>>
      PROVE  Memory'
  BY <1>7 DEF Memory, SendsHappened, SendsAreHeld, FlightsAgree,
              CopiesAreKnown, Flying, queues
<1>8. ASSUME NEW l \in Listings, Receive(l) PROVE Memory'
  BY <1>7, <1>8 DEF Receive, ReceiveMessages
<1>9. ASSUME NEW l \in Listings, ListingFails(l) PROVE Memory'
  BY <1>7, <1>9 DEF ListingFails, cache
<1>10. ASSUME NEW c \in Callers, NEW m \in Messages, Join(c, m) PROVE Memory'
  BY <1>7, <1>10 DEF Join, cache
<1>11. CASE UNCHANGED vars BY <1>7, <1>11 DEF vars, cache
<1> QED BY <1>1, <1>2, <1>3, <1>4, <1>5, <1>6, <1>8, <1>9, <1>10, <1>11
     DEF Next, Step

\* The memory of cache and flights is right in every reachable state.
THEOREM MemoryHolds == Spec => []Memory
<1>1. Init => Memory
  BY DEF Init, Memory, SendsHappened, SendsAreHeld, FlightsAgree,
         CopiesAreKnown
<1> QED BY <1>1, NextKeepsMemory, TypeCorrect, PTL DEF Spec

\* A message is sent again only with a reason.
THEOREM SendingIsExcusedHolds == Spec => []SendingIsExcused
<1>1. TypeOK /\ Memory => SendingIsExcused
  BY DEF TypeOK, Memory, FlightsAgree, CopiesAreKnown, SendingIsExcused,
         Flying
<1> QED BY <1>1, TypeCorrect, MemoryHolds, PTL
-----------------------------------------------------------------------------
\* Only a replay's end removes a message, after it was sent, and only it tells
\* a request so.
LEMMA NextLosesNothing ==
  ASSUME TypeOK, Memory, NothingIsLost, [Next]_vars
  PROVE  NothingIsLost'
<1> USE DEF NothingIsLost, TypeOK, Caller
<1>1. ASSUME NEW m \in Messages, Step(m) PROVE NothingIsLost'
  <2>1. CASE Expire(m) BY <2>1 DEF Expire, queues
  <2>2. CASE SendSucceeds(m) BY <2>2 DEF SendSucceeds
  <2>3. CASE SendReplyLost(m) BY <2>3 DEF SendReplyLost
  <2>4. ASSUME flight[m] = "deleting" PROVE m \in copied
    BY <2>4 DEF Memory, SendsHappened, FlightsAgree
  <2>5. CASE DeleteSucceeds(m)
    BY <2>4, <2>5 DEF DeleteSucceeds, Delete, Lands
  <2>6. CASE DeleteReplyLost(m) BY <2>4, <2>6 DEF DeleteReplyLost, Delete
  <2>7. CASE ReplayFails(m) BY <2>7 DEF ReplayFails, Lands, queues
  <2> QED BY <1>1, <2>1, <2>2, <2>3, <2>5, <2>6, <2>7 DEF Step, Send, Remove
<1>2. ASSUME UNCHANGED <<queues, caller>> PROVE NothingIsLost'
  BY <1>2 DEF queues
<1>3. ASSUME NEW l \in Listings,
             List(l) \/ Receive(l) \/ ListingReturns(l) \/ ListingFails(l)
      PROVE  NothingIsLost'
  BY <1>2, <1>3 DEF List, Receive, ReceiveMessages, ListingReturns, ListingFails
<1>4. ASSUME NEW c \in Callers, NEW m \in Messages,
             Join(c, m) \/ Missing(c, m) \/ StartReplay(c, m)
      PROVE  NothingIsLost'
  <2>1. UNCHANGED queues BY <1>4 DEF Join, Missing, StartReplay
  <2>2. \E s \in {"waiting", "missing"} : Calls(c, m, s)
    BY <1>4 DEF Join, Missing, StartReplay
  <2> QED BY <2>1, <2>2 DEF Calls, queues
<1>5. CASE Restart BY <1>5 DEF Restart, queues
<1>6. CASE UNCHANGED vars BY <1>2, <1>6 DEF vars
<1> QED BY <1>1, <1>3, <1>4, <1>5, <1>6 DEF Next, Step

\* No message leaves the dead-letter queue, and no request is told that it was
\* replayed, before it was sent.
THEOREM NothingIsLostHolds == Spec => []NothingIsLost
<1>1. Init => NothingIsLost BY DEF Init, NothingIsLost
<1> QED BY <1>1, NextLosesNothing, TypeCorrect, MemoryHolds, PTL DEF Spec
=============================================================================
