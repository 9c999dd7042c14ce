---------------------------- MODULE ObservedJobs ----------------------------
(***************************************************************************)
(* What surrounds a handler to trace it, and what its events become.       *)
(*                                                                         *)
(* A handler runs inside two wrappers that QueueCraft does not control:    *)
(* the trace propagation (src/src/trace-context.ts), layer 1, and inside   *)
(* it the instrumentation (src/src/instrumentation.ts), layer 2.  Either   *)
(* is given an operation to call and may call it never, late or again,     *)
(* throw, reject or never settle.  QueueCraftActiveTracing                 *)
(* (src/src/tracing.ts) is an instrumentation that opens a handler span,   *)
(* if the tracer lets it.                                                  *)
(*                                                                         *)
(* QueueCraftTracingObserver, of the same file, turns the events of all    *)
(* attempts into job spans that it finds by idempotency key.  A lease that *)
(* lapsed, or one that is given back before the event is emitted, lets     *)
(* attempts with one key overlap: here, any may.                           *)
(*                                                                         *)
(* A step is a piece of code that runs without interruption.               *)
(***************************************************************************)
EXTENDS Naturals

CONSTANTS Attempts,   \* jobs acquired by the pollers that share an observer
          Wrapped,    \* those with a carrier and an instrumentation
          Together,   \* the sets of attempts that may come to pass
          Keys,
          None

ASSUME ObservedAssumption ==
  /\ Wrapped \subseteq Attempts /\ Together \subseteq SUBSET Attempts
  /\ None \notin Attempts \cup Keys

VARIABLES attempt,     \* the poller's process() of each attempt
          wrap,        \* the two calls that guard the wrappers
          handler,     \* the handler, how often it was called, and its span
          span,        \* the job span that job_started opened
          active,      \* the observer's map from keys to spans
          observer,    \* the rest of the observer
          overlapped   \* history: keys whose attempts overlapped

spans == <<span, active, observer>>
vars  == <<attempt, wrap, handler, spans, overlapped>>

Layers == {1, 2}
Ended  == {"completed", "failed"}
Events == {"completed", "failed", "cancelled", "settlement_failed"}

Attempt ==
  [state : {"absent", "idle", "running", "ending", "over"},
   key   : Keys \cup {None},
   abort : {"no", "lease", "shutdown"},    \* context.signal
   event : Events \cup {"none"}]           \* its terminal event

Layer ==
  [calls   : {0, 1},                   \* operationCalls; 1 is one or more
   wrapper : {"none", "pending", "threw", "rejected"},
   error   : {"none", "foreign", "handlers"},
   answer  : {"none"} \cup Ended,
   blamed  : BOOLEAN]                  \* the wrapper's error was reported

Handler ==
  [runs  : 0..2,
   state : {"none", "running"} \cup Ended,
   span  : {"none", "open",   \* entered while the handler had not ended
            "late",           \* entered after that, and not over yet
            "completed", "failed", "cancelled"}]

Span ==
  [state : {"none", "open", "superseded", "finished", "closed"},
   by    : Attempts \cup {None}]       \* the attempt whose event ended it

TypeOK ==
  /\ attempt \in [Attempts -> Attempt]
  /\ wrap \in [Attempts -> [Layers -> Layer]]
  /\ handler \in [Attempts -> Handler]
  /\ span \in [Attempts -> Span]
  /\ active \in [Keys -> Attempts \cup {None}]
  /\ observer \in [closed : BOOLEAN, unseen : SUBSET Attempts,
                    late : SUBSET Attempts, again : SUBSET Attempts]
  /\ overlapped \subseteq Keys

Bare == [calls |-> 0, wrapper |-> "none", error |-> "none", answer |-> "none",
         blamed |-> FALSE]

Init ==
  /\ \E jobs \in Together :
       attempt = [a \in Attempts |->
                    [state |-> IF a \in jobs THEN "idle" ELSE "absent",
                     key |-> None, abort |-> "no", event |-> "none"]]
  /\ wrap = [a \in Attempts |-> [l \in Layers |-> Bare]]
  /\ handler = [a \in Attempts |->
                  [runs |-> 0, state |-> "none", span |-> "none"]]
  /\ span = [a \in Attempts |-> [state |-> "none", by |-> None]]
  /\ active = [k \in Keys |-> None]
  /\ observer = [closed |-> FALSE,
                 unseen |-> {},   \* attempts whose startSpan failed
                 late   |-> {},   \* those with a span that starts at its end
                 again  |-> {}]   \* those whose span was ended twice
  /\ overlapped = {}
----------------------------------------------------------------------------
(* runWithQueueCraftTraceContext and runInstrumentedJob                    *)

SetLayer(a, l, next) == wrap' = [wrap EXCEPT ![a][l] = next]

\* How the operation of layer l ended: that of layer 1 is layer 2.
Outcome(a, l) ==
  IF l = 2 \/ a \notin Wrapped THEN handler[a].state ELSE wrap[a][2].answer

OwnError(a, l) == wrap[a][l].error = "handlers" /\ Outcome(a, l) = "failed"

\* Mutant: an operation that its wrapper did not call is not started.
CallsWithoutFallback(n) == n

\* The operation is started by QueueCraft if the wrapper did not call it.
CallsAtLeastOnce(n) == IF n = 0 THEN 1 ELSE n

\* The synchronous part of the wrapper: it calls the operation or does not,
\* and returns or throws.  The operation is scheduled.
Enter(a, l) ==
  \E calls \in {0, 1}, wrapper \in {"pending", "threw"} :
    \E error \in IF wrapper = "threw" THEN {"foreign", "handlers"}
                 ELSE {"none"} :
      SetLayer(a, l, [Bare EXCEPT !.calls = CallsAtLeastOnce(calls),
                                  !.wrapper = wrapper, !.error = error])

\* A wrapper keeps the operation and may call it again: it gets the promise
\* of the only run.
CallAgain(a, l) == wrap[a][l].calls = 1 /\ UNCHANGED wrap

\* A wrapper that resolves makes no difference to one that never settles.
WrapperRejects(a, l) ==
  /\ wrap[a][l].wrapper = "pending"
  /\ \E error \in {"foreign", "handlers"} :
       SetLayer(a, l, [wrap[a][l] EXCEPT !.wrapper = "rejected",
                                         !.error = error])

\* Mutants: the answer waits for the wrapper, too; every error of the wrapper
\* is reported.
OperationAndWrapperEnded(a, l) ==
  Outcome(a, l) \in Ended /\ wrap[a][l].wrapper # "pending"

ToBlameForAll(a, l) == wrap[a][l].error # "none"

OperationEnded(a, l) == Outcome(a, l) \in Ended

ToBlame(a, l) == wrap[a][l].error # "none" /\ ~OwnError(a, l)

\* The handler's span awaits the promise of the operation itself, the answer
\* one derived from it: the reaction of an open span comes first.
SpanIsServed(a, l) == l = 2 => handler[a].span # "open"

\* The operation's outcome is the answer, whatever the wrapper does; what it
\* threw is reported now.
Answer(a, l) ==
  /\ OperationEnded(a, l) /\ wrap[a][l].answer = "none"
  /\ SpanIsServed(a, l)
  /\ SetLayer(a, l, [wrap[a][l] EXCEPT
       !.answer = Outcome(a, l),
       !.blamed = (wrap[a][l].wrapper = "threw" /\ ToBlame(a, l))])

\* The handler of a rejection awaits the outcome behind the answer, which has
\* awaited it since before the wrapper could reject.
ReportRejection(a, l) ==
  /\ wrap[a][l].wrapper = "rejected" /\ wrap[a][l].answer # "none"
  /\ ToBlame(a, l) /\ ~wrap[a][l].blamed
  /\ SetLayer(a, l, [wrap[a][l] EXCEPT !.blamed = TRUE])

AnswerOf(a) == wrap[a][1].answer

RunWithTraceContext(a) == Enter(a, 1)

\* The operation of layer 1 runs.
RunInstrumentedJob(a) ==
  /\ wrap[a][1].calls > 0 /\ wrap[a][2].calls = 0
  /\ Enter(a, 2)
  /\ UNCHANGED <<attempt, handler, spans, overlapped>>

\* So does that of layer 2, which is the handler.
HandlerStarts(a) ==
  /\ wrap[a][2].calls > 0 /\ handler[a].state = "none"
  /\ handler' = [handler EXCEPT ![a] =
                   [handler[a] EXCEPT !.runs = @ + 1, !.state = "running"]]
  /\ UNCHANGED <<attempt, wrap, spans, overlapped>>

\* Mutant: the second call starts the operation once more.
RestartHandler(a) == handler' = [handler EXCEPT ![a].state = "none"]

KeepHandler(a) == UNCHANGED handler

LateCall(a, l) ==
  /\ CallAgain(a, l) /\ KeepHandler(a)
  /\ UNCHANGED <<attempt, spans, overlapped>>

Rejects(a, l) ==
  WrapperRejects(a, l) /\ UNCHANGED <<attempt, handler, spans, overlapped>>
----------------------------------------------------------------------------
(* QueueCraftActiveTracing                                                 *)

\* Mutant: the outcome as it was before the operation.
OutcomeBefore(a, end) == "failed"

SpanOutcome(a, end) ==
  IF attempt[a].abort # "no" THEN "cancelled" ELSE end

\* startActiveSpan enters its callback at once, not yet, or fails: then run()
\* calls the operation without a span.
StartActiveSpan(a) ==
  /\ wrap[a][1].calls > 0 /\ wrap[a][2].calls = 0
  /\ \E entered \in BOOLEAN :
       handler' = [handler EXCEPT ![a].span = IF entered THEN "open" ELSE @]
  /\ SetLayer(a, 2, [Bare EXCEPT !.calls = 1, !.wrapper = "pending"])
  /\ UNCHANGED <<attempt, spans, overlapped>>

\* The callback is entered when QueueCraft has called the operation itself,
\* perhaps when all is over.
EnterLate(a) ==
  /\ wrap[a][2].wrapper # "threw" /\ handler[a].span = "none"
  /\ CallAgain(a, 2)
  /\ handler' = [handler EXCEPT ![a].span =
                   IF handler[a].state \in Ended THEN "late" ELSE "open"]
  /\ UNCHANGED <<attempt, spans, overlapped>>

HandlerEnds(a) ==
  /\ handler[a].state = "running"
  /\ \E end \in Ended : handler' = [handler EXCEPT ![a].state = end]
  /\ UNCHANGED <<attempt, wrap, spans, overlapped>>

\* await operation() goes on in the callback, and the span ends with what the
\* signal says now.
SpanEnds(a) ==
  /\ handler[a].span \in {"open", "late"} /\ handler[a].state \in Ended
  /\ handler' = [handler EXCEPT ![a].span = SpanOutcome(a, handler[a].state)]
  /\ UNCHANGED <<attempt, wrap, spans, overlapped>>
----------------------------------------------------------------------------
(* QueueCraftTracingObserver                                               *)

\* Mutant: finishJob leaves the span in the map.
NothingDeleted(k) == active

Deleted(k) == [active EXCEPT ![k] = None]

\* finishSpan on the span of an attempt, if there is one.
Finished(s, state, by) ==
  [a \in Attempts |-> IF a = s THEN [state |-> state, by |-> by] ELSE span[a]]

EndedBefore(S) == {a \in S \ {None} : span[a].state # "open"}

\* job_started: the previous span of the key is superseded, then the tracer
\* is asked for a new one; if that fails the map still holds the previous one.
ObserveStart(a, k) ==
  IF observer.closed THEN UNCHANGED spans
  ELSE LET superseded == Finished(active[k], "superseded", a)
           twice      == observer.again \cup EndedBefore({active[k]})
       IN
       \/ /\ span' = [superseded EXCEPT ![a].state = "open"]
          /\ active' = [active EXCEPT ![k] = a]
          /\ observer' = [observer EXCEPT !.again = twice]
       \/ /\ span' = superseded
          /\ observer' = [observer EXCEPT !.again = twice,
                                          !.unseen = @ \cup {a}]
          /\ UNCHANGED active

\* The terminal event of a: what is active for its key ends, or a span is made
\* that starts late, if the tracer can.
ObserveEnd(a, k) ==
  LET s == active[k] IN
  \/ observer.closed /\ UNCHANGED spans
  \/ /\ ~observer.closed /\ s # None
     /\ span' = Finished(s, "finished", a)
     /\ active' = Deleted(k)
     /\ observer' = [observer EXCEPT !.again = @ \cup EndedBefore({s})]
  \/ /\ ~observer.closed /\ s = None
     /\ \/ UNCHANGED observer
        \/ observer' = [observer EXCEPT !.late = @ \cup {a}]
     /\ UNCHANGED <<span, active>>

Close ==
  LET S == {active[k] : k \in Keys} IN
  /\ ~observer.closed
  /\ span' = [a \in Attempts |->
                IF a \in S THEN [state |-> "closed", by |-> None] ELSE span[a]]
  /\ active' = [k \in Keys |-> None]
  /\ observer' = [observer EXCEPT !.closed = TRUE,
                                  !.again = @ \cup EndedBefore(S)]
  /\ UNCHANGED <<attempt, wrap, handler, overlapped>>
----------------------------------------------------------------------------
(* The poller's side                                                       *)

Live(a) == attempt[a].state \in {"running", "ending"}

\* The lease is granted: job_started, and the handler inside its wrappers.
StartJob(a, k) ==
  /\ attempt[a].state = "idle"
  /\ attempt' = [attempt EXCEPT ![a] = [@ EXCEPT !.state = "running",
                                                 !.key = k]]
  /\ overlapped' = IF \E b \in Attempts : Live(b) /\ attempt[b].key = k
                   THEN overlapped \cup {k} ELSE overlapped
  /\ ObserveStart(a, k)
  /\ IF a \in Wrapped
     THEN RunWithTraceContext(a) /\ UNCHANGED handler
     ELSE /\ handler' = [handler EXCEPT ![a] =
                           [@ EXCEPT !.runs = 1, !.state = "running"]]
          /\ UNCHANGED wrap

\* The heartbeat fails, or the shutdown times out.
Abort(a) ==
  /\ attempt[a].state = "running"
  /\ \/ attempt[a].abort # "lease"
        /\ attempt' = [attempt EXCEPT ![a].abort = "lease"]
     \/ attempt[a].abort = "no"
        /\ attempt' = [attempt EXCEPT ![a].abort = "shutdown"]
  /\ UNCHANGED <<wrap, handler, spans, overlapped>>

Verdict(a) ==
  IF attempt[a].abort = "lease" THEN {"cancelled"}
  ELSE IF AnswerOf(a) = "failed" THEN {"failed"}
  ELSE IF attempt[a].abort = "shutdown" THEN {"cancelled"}
  ELSE {"completed", "settlement_failed"}

\* The answer is there and the heartbeat has ended: settlement begins.
Settle(a) ==
  /\ attempt[a].state = "running" /\ AnswerOf(a) # "none"
  /\ \E event \in Verdict(a) :
       attempt' = [attempt EXCEPT ![a] = [@ EXCEPT !.state = "ending",
                                                   !.event = event]]
  /\ UNCHANGED <<wrap, handler, spans, overlapped>>

ReportEnd(a) ==
  /\ attempt[a].state = "ending"
  /\ attempt' = [attempt EXCEPT ![a].state = "over"]
  /\ ObserveEnd(a, attempt[a].key)
  /\ UNCHANGED <<wrap, handler, overlapped>>
----------------------------------------------------------------------------
Scheduled(a) ==
  \/ RunInstrumentedJob(a) \/ StartActiveSpan(a) \/ HandlerStarts(a)
  \/ SpanEnds(a)

Answers(a, l) ==
  Answer(a, l) /\ UNCHANGED <<attempt, handler, spans, overlapped>>

Reports(a, l) ==
  ReportRejection(a, l) /\ UNCHANGED <<attempt, handler, spans, overlapped>>

Next ==
  \/ \E a \in Attempts, k \in Keys : StartJob(a, k)
  \/ \E a \in Attempts :
       \/ Scheduled(a) \/ EnterLate(a) \/ HandlerEnds(a)
       \/ Abort(a) \/ Settle(a) \/ ReportEnd(a)
  \/ \E a \in Attempts, l \in Layers :
       Answers(a, l) \/ Reports(a, l) \/ LateCall(a, l) \/ Rejects(a, l)
  \/ Close

Spec == Init /\ [][Next]_vars

\* What is scheduled or awaited goes on.  Neither handlers nor wrappers end.
Fairness ==
  /\ \A a \in Attempts : WF_vars(Answers(a, 1))
  /\ \A a \in Wrapped :
       /\ WF_vars(Scheduled(a)) /\ WF_vars(Answers(a, 2))
       /\ \A l \in Layers : WF_vars(Reports(a, l))

FairSpec == Spec /\ Fairness
----------------------------------------------------------------------------
\* However the wrappers behave, the handler runs once, the job is answered
\* with the handler's own outcome, and it is answered although a wrapper hangs.
CalledJobs == {a \in Attempts : attempt[a].state \notin {"absent", "idle"}}

Job == INSTANCE BareJob WITH
  called <- CalledJobs,
  runs   <- [a \in Attempts |-> handler[a].runs],
  state  <- [a \in Attempts |-> handler[a].state],
  answer <- [a \in Attempts |-> AnswerOf(a)]

ImplementsBareJob == Job!Spec

\* A wrapper's own error is reported, and an error of the handler's that it
\* passes on is not.
BlameIsFair ==
  \A a \in Wrapped, l \in Layers :
    LET guilty == wrap[a][l].error # "none" /\ ~OwnError(a, l) IN
    /\ [](wrap[a][l].blamed => guilty)
    /\ guilty /\ Outcome(a, l) \in Ended ~> wrap[a][l].blamed

\* A handler's span that was entered before its handler ended is over before
\* the job's event is emitted.  One entered later may outlast the event, but
\* either kind, once over, tells the event's story, except that a failure
\* during a shutdown is a cancellation for the one and a failure for the other.
HandlerSpanAgrees ==
  \A a \in Attempts :
    LET h == handler[a].span
        e == attempt[a].event
    IN  e # "none" =>
          /\ h # "open"
          /\ h = "completed" => e # "failed"
          /\ h = "failed" => e \in {"failed", "cancelled"}
          /\ h = "cancelled" => attempt[a].abort # "no"

\* Every open span is to be found under its attempt's key.
OpenIsActive ==
  \A a \in Attempts :
    span[a].state = "open" => active[attempt[a].key] = a /\ ~observer.closed

\* A span is ended twice only if a start failed over it.
EndedOnce ==
  \A a \in observer.again :
    \E b \in observer.unseen : attempt[b].key = attempt[a].key

\* Without overlapping attempts every span ends with its own attempt's event,
\* and no attempt needs a late span but one whose first span failed.
EndedByItsOwn ==
  \A a \in Attempts :
    attempt[a].key \notin overlapped =>
      /\ span[a].state \in {"superseded", "finished"} => span[a].by = a
      /\ a \in observer.late => a \in observer.unseen
      /\ attempt[a].state = "over" => span[a].state # "open"

\* When no attempt with a key is under way, no span is open for it.
NoneLeftOpen ==
  \A k \in Keys :
    (\A a \in Attempts : attempt[a].key = k => ~Live(a)) => active[k] = None

SpansAreOwn == OpenIsActive /\ EndedOnce /\ EndedByItsOwn /\ NoneLeftOpen
=============================================================================
