------------------------- MODULE ReplayCoordinator -------------------------
(***************************************************************************)
(* src/src/dashboard.ts: an operator lists a dead-letter queue and replays *)
(* messages of it.  A listing remembers what it received in a cache; a     *)
(* replay of a cached message sends it to the main queue and then deletes  *)
(* it from the dead-letter queue; requests for a message that is being     *)
(* replayed join that replay.                                              *)
(*                                                                         *)
(* A step is the code between two awaits, or the effect of a request on a  *)
(* queue.  A request may fail with or without its effect.  Every receive   *)
(* gives a message a new receipt handle; a delete with an older one        *)
(* succeeds, but SQS may ignore it.  There is no clock: the lifetime of a  *)
(* cache entry may be over at any moment.                                  *)
(***************************************************************************)
CONSTANTS Messages,   \* what the dead-letter queue holds at first
          Listings,   \* concurrent GET /api/dlq requests
          Callers,    \* concurrent POST /api/dlq/replay requests
          None

ASSUME NoneAssumption == None \notin Messages

VARIABLES dlq,        \* the dead-letter queue
          copied,     \* messages that were sent to the main queue
          cached,     \* the ids in DashboardReplayCoordinator.cache
          receipt,    \* the receiptHandle of a cached message or a flight
          published,  \* those of them that are known to be sent
          expired,    \* the cached ones whose lifetime is over
          flight,     \* what the replay of a message awaits
          listing,    \* the listings under way
          caller,     \* the replay requests and how the last ones ended
          excused     \* history: there is a reason for one more copy of them

queues == <<dlq, copied>>
cache  == <<cached, receipt, published, expired>>
vars   == <<queues, cache, flight, listing, caller, excused>>

Handle  == {"latest", "old"}
Listing == [state : {"idle", "asked", "answered"},
            received : [Messages -> Handle \cup {None}]]
Caller  == [state : {"idle", "waiting", "replayed", "missing", "failed"},
            message : Messages \cup {None}]

TypeOK ==
  /\ dlq \subseteq Messages /\ copied \subseteq Messages
  /\ cached \subseteq Messages /\ published \subseteq Messages
  /\ expired \subseteq cached
  /\ receipt \in [Messages -> Handle]
  /\ flight \in [Messages -> {"none", "sending", "deleting"}]
  /\ listing \in [Listings -> Listing]
  /\ caller \in [Callers -> Caller]
  /\ excused \subseteq Messages

Idle == [state |-> "idle", received |-> [m \in Messages |-> None]]

Init ==
  /\ dlq = Messages /\ copied = {}
  /\ cached = {} /\ published = {} /\ expired = {}
  /\ receipt = [m \in Messages |-> "latest"]
  /\ flight = [m \in Messages |-> "none"]
  /\ listing = [l \in Listings |-> Idle]
  /\ caller = [c \in Callers |-> [state |-> "idle", message |-> None]]
  /\ excused = Messages

Flying(m) == flight[m] # "none"
----------------------------------------------------------------------------
(* The cache                                                               *)

Expire(m) ==
  /\ m \in cached \ expired
  /\ expired' = expired \cup {m}
  /\ UNCHANGED <<queues, cached, receipt, published, flight, listing, caller,
                 excused>>

\* Mutant: an entry is over as soon as it is made.
PrunedAtOnce == cached

\* prune() looks at the lifetimes only: an entry may go while its message is
\* being replayed, and the replay keeps the object.
Pruned == expired

\* What is no longer referenced is forgotten; that a message was sent although
\* it is still in the queue is a reason for the next copy of it.
Forget(gone) ==
  /\ receipt' = [m \in Messages |-> IF m \in gone THEN "latest" ELSE receipt[m]]
  /\ published' = published \ gone
  /\ excused' = excused \cup (gone \cap dlq \cap published)

Prune ==
  /\ cached' = cached \ Pruned
  /\ expired' = {}
  /\ Forget({m \in Pruned : ~Flying(m)})
----------------------------------------------------------------------------
(* GET /api/dlq                                                            *)

List(l) ==
  /\ listing[l].state = "idle"
  /\ Prune
  /\ listing' = [listing EXCEPT ![l].state = "asked"]
  /\ UNCHANGED <<queues, flight, caller>>

\* SQS hands some messages out and renews their receipt handles; with a
\* visibility timeout of zero they stay visible to everybody.
ReceiveMessages(l, got) ==
  /\ listing[l].state = "asked"
  /\ listing' = [k \in Listings |->
       IF k = l
       THEN [state |-> "answered",
             received |-> [m \in Messages |->
                             IF m \in got THEN "latest" ELSE None]]
       ELSE [listing[k] EXCEPT !.received =
               [m \in Messages |->
                  IF m \in got /\ @[m] # None THEN "old" ELSE @[m]]]]
  /\ receipt' = [m \in Messages |->
       IF m \in got /\ (m \in cached \/ Flying(m)) THEN "old" ELSE receipt[m]]
  /\ UNCHANGED <<queues, cached, published, expired, flight, caller, excused>>

\* Mutant: messages without a receipt handle are not skipped.
ListedUnseen(l) == {m \in Messages : ~Flying(m)}

\* The messages of a listing that are not being replayed.
Listed(l) == {m \in Messages : listing[l].received[m] # None /\ ~Flying(m)}

\* Mutants: a send that is forgotten; a listed message taken for a sent one.
NothingSent(ms) == published \ ms
AllKnownSent(ms) == published \cup (ms \cap cached)

\* remember(): a send that is known of stays known.
KnownSent(ms) == published \ (ms \ cached)

\* remember() renews the entries, but not those that are being replayed.  What
\* comes in after the message has left the queue is a second life of it, and
\* the reason for another copy.
ListingReturns(l) ==
  LET new == Listed(l) IN
  /\ listing[l].state = "answered"
  /\ cached' = cached \cup new
  /\ receipt' = [m \in Messages |-> IF m \in new THEN listing[l].received[m]
                                    ELSE receipt[m]]
  /\ published' = KnownSent(new)
  /\ expired' = expired \ new
  /\ excused' = excused \cup (new \ (cached \cup dlq))
  /\ listing' = [listing EXCEPT ![l] = Idle]
  /\ UNCHANGED <<queues, flight, caller>>

ListingFails(l) ==
  /\ listing[l].state # "idle"
  /\ listing' = [listing EXCEPT ![l] = Idle]
  /\ UNCHANGED <<queues, cache, flight, caller, excused>>
----------------------------------------------------------------------------
(* POST /api/dlq/replay                                                    *)

Calls(c, m, state) ==
  /\ caller[c].state # "waiting"
  /\ caller' = [caller EXCEPT ![c] = [state |-> state, message |-> m]]

Join(c, m) ==
  /\ Flying(m)
  /\ Calls(c, m, "waiting")
  /\ UNCHANGED <<queues, cache, flight, listing, excused>>

Missing(c, m) ==
  /\ ~Flying(m) /\ m \notin cached \ Pruned
  /\ Prune
  /\ Calls(c, m, "missing")
  /\ UNCHANGED <<queues, flight, listing>>

\* replayCachedMessage(): what was sent before is only deleted.
StartReplay(c, m) ==
  /\ ~Flying(m) /\ m \in cached \ Pruned
  /\ Prune
  /\ Calls(c, m, "waiting")
  /\ flight' = [flight EXCEPT
                  ![m] = IF m \in published THEN "deleting" ELSE "sending"]
  /\ UNCHANGED <<queues, listing>>

\* The replay of m is over, for everybody who waits for it.
Lands(m, outcome) ==
  /\ flight' = [flight EXCEPT ![m] = "none"]
  /\ caller' = [c \in Callers |->
                  IF caller[c] = [state |-> "waiting", message |-> m]
                  THEN [caller[c] EXCEPT !.state = outcome] ELSE caller[c]]

SendSucceeds(m) ==
  /\ flight[m] = "sending"
  /\ copied' = copied \cup {m}
  /\ published' = published \cup {m}
  /\ flight' = [flight EXCEPT ![m] = "deleting"]
  /\ excused' = excused \ {m}
  /\ UNCHANGED <<dlq, cached, receipt, expired, listing, caller>>

\* The message is sent and the reply is lost: the SDK sends it again.
SendReplyLost(m) ==
  /\ flight[m] = "sending"
  /\ copied' = copied \cup {m}
  /\ excused' = excused \cup {m}
  /\ UNCHANGED <<dlq, cache, flight, listing, caller>>

\* DeleteMessage takes effect on the queue, unless its handle is an old one.
Delete(m) ==
  \/ dlq' = dlq \ {m}
  \/ receipt[m] = "old" /\ UNCHANGED dlq

DeleteSucceeds(m) ==
  /\ flight[m] = "deleting"
  /\ Delete(m)
  /\ Lands(m, "replayed")
  /\ cached' = cached \ {m} /\ expired' = expired \ {m}
  /\ published' = published \ {m}
  /\ receipt' = [receipt EXCEPT ![m] = "latest"]
  /\ excused' = excused \cup ({m} \cap dlq')
  /\ UNCHANGED <<copied, listing>>

DeleteReplyLost(m) ==
  /\ flight[m] = "deleting"
  /\ Delete(m)
  /\ UNCHANGED <<copied, cache, flight, listing, caller, excused>>

\* Either request is rejected, and the replay with it: the entry stays, unless
\* it was pruned meanwhile.
ReplayFails(m) ==
  /\ Flying(m)
  /\ Lands(m, "failed")
  /\ Forget({m} \ cached)
  /\ UNCHANGED <<queues, cached, expired, listing>>

\* The dashboard is stopped and started again: cache and replays are lost.
Restart ==
  /\ cached' = {} /\ expired' = {}
  /\ Forget(Messages)
  /\ flight' = [m \in Messages |-> "none"]
  /\ listing' = [l \in Listings |-> Idle]
  /\ caller' = [c \in Callers |->
                  IF caller[c].state = "waiting"
                  THEN [caller[c] EXCEPT !.state = "failed"] ELSE caller[c]]
  /\ UNCHANGED queues
----------------------------------------------------------------------------
Receive(l) == \E got \in SUBSET dlq : ReceiveMessages(l, got)

Send(m)   == SendSucceeds(m) \/ SendReplyLost(m)
Remove(m) == DeleteSucceeds(m) \/ DeleteReplyLost(m)

Next ==
  \/ \E m \in Messages : Expire(m) \/ Send(m) \/ Remove(m) \/ ReplayFails(m)
  \/ \E l \in Listings :
       List(l) \/ Receive(l) \/ ListingReturns(l) \/ ListingFails(l)
  \/ \E c \in Callers, m \in Messages :
       Join(c, m) \/ Missing(c, m) \/ StartReplay(c, m)
  \/ Restart

Spec == Init /\ [][Next]_vars

\* The page refreshes itself, and now and then a message is handed out and
\* its listing comes in; the operator goes on replaying what is listed and now
\* and then is in time; and now and then a send, and a delete, gets through.
Fairness ==
  /\ \A l \in Listings :
       WF_vars(List(l)) /\ WF_vars(ListingReturns(l) \/ ListingFails(l))
  /\ \A m \in Messages :
       /\ \A l \in Listings :
            /\ SF_vars(\E got \in SUBSET dlq :
                         m \in got /\ ReceiveMessages(l, got))
            /\ SF_vars(m \in Listed(l) /\ ListingReturns(l))
       /\ SF_vars(\E c \in Callers : StartReplay(c, m))
       /\ SF_vars(SendSucceeds(m))
       /\ SF_vars(DeleteSucceeds(m) /\ m \notin dlq')
       /\ WF_vars(SendSucceeds(m) \/ DeleteSucceeds(m) \/ ReplayFails(m))

FairSpec == Spec /\ Fairness
----------------------------------------------------------------------------
\* A message leaves the dead-letter queue, and a request is told that it was
\* replayed, only after it was sent to the main queue.
NothingIsLost ==
  /\ Messages \ dlq \subseteq copied
  /\ \A c \in Callers :
       caller[c].state = "replayed" => caller[c].message \in copied

\* A message is sent a second time only for a reason: the reply to the send
\* was lost, the memory of it was pruned or died with the process, its delete
\* was ignored, or a listing that was answered before a replay came in after
\* it.  Concurrent and repeated requests, failing deletes and listings during
\* a replay alone are none.
SendingIsExcused == \A m \in Messages : flight[m] = "sending" => m \in excused

\* An operator who keeps at it empties the dead-letter queue.
DlqDrains == \A m \in Messages : <>[](m \notin dlq)
=============================================================================
