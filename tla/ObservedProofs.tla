--------------------------- MODULE ObservedProofs ---------------------------
(***************************************************************************)
(* Proofs about ObservedJobs: for any attempts, keys and wrappers, a       *)
(* handler runs at most once and its outcome is the answer, and spans end  *)
(* as their own attempts do.                                               *)
(***************************************************************************)
EXTENDS ObservedJobs, TLAPS

\* An attempt that has not begun has left no trace; one without wrappers has
\* none.  The handler is called once, by layer 2 if there is one.
NotBegun(a) == attempt[a].state \in {"absent", "idle"}

Untouched ==
  \A a \in Attempts :
    NotBegun(a) =>
      /\ attempt[a].key = None /\ attempt[a].abort = "no"
      /\ attempt[a].event = "none"
      /\ handler[a] = [runs |-> 0, state |-> "none", span |-> "none"]
      /\ wrap[a] = [l \in Layers |-> Bare]

Begun ==
  \A a \in Attempts :
    ~NotBegun(a) => /\ attempt[a].key \in Keys
                    /\ a \notin Wrapped => handler[a].state # "none"

RunsOnce ==
  \A a \in Attempts :
    handler[a].runs = IF handler[a].state = "none" THEN 0 ELSE 1

CalledByLayer2 ==
  \A a \in Attempts :
    /\ a \notin Wrapped => \A l \in Layers : wrap[a][l].calls = 0
    /\ wrap[a][2].calls = 0 /\ a \in Wrapped => handler[a].state = "none"

Calls == Untouched /\ Begun /\ RunsOnce /\ CalledByLayer2

\* Answers are the handler's outcome, and so is what its span says of it; an
\* open span holds the answers back.
AnswersAgree ==
  \A a \in Attempts, l \in Layers :
    wrap[a][l].answer # "none" => /\ wrap[a][l].answer = handler[a].state
                                  /\ handler[a].state \in Ended

SpanAgrees ==
  \A a \in Attempts :
    LET h == handler[a] IN
    /\ h.span = "open" => \A l \in Layers : wrap[a][l].answer = "none"
    /\ h.span = "open" => a \in Wrapped
    /\ h.span \in Ended => h.span = h.state
    /\ h.span = "cancelled" => attempt[a].abort # "no"

EventAgrees ==
  \A a \in Attempts :
    LET e == attempt[a].event IN
    /\ e # "none" => handler[a].state \in Ended /\ AnswerOf(a) # "none"
    /\ e = "failed" => handler[a].state = "failed"
    /\ e \in {"completed", "settlement_failed"} =>
         handler[a].state = "completed" /\ attempt[a].abort = "no"
    /\ e = "cancelled" => attempt[a].abort # "no"
    /\ attempt[a].state = "running" => e = "none"

Outcomes == AnswersAgree /\ SpanAgrees /\ EventAgrees

\* What has not begun has no span.  The map holds begun spans under their keys,
\* those that have ended only after a failed start, and none without a live
\* attempt; unless attempts of a key overlap there is one, and its own span is
\* the active one.
Unobserved ==
  \A a \in Attempts :
    NotBegun(a) =>
      /\ span[a].state = "none"
      /\ a \notin observer.unseen \cup observer.late \cup observer.again

ActiveIsBegun ==
  \A k \in Keys :
    active[k] # None => /\ attempt[active[k]].key = k
                        /\ span[active[k]].state # "none"

EndedUnderAFailure ==
  \A k \in Keys :
    active[k] # None /\ span[active[k]].state # "open" =>
      \E b \in observer.unseen : attempt[b].key = k

ClosedIsEmpty == observer.closed => \A k \in Keys : active[k] = None

OneAtATime ==
  \A a, b \in Attempts :
    /\ Live(a) /\ Live(b) /\ attempt[a].key = attempt[b].key
    /\ attempt[a].key \notin overlapped
    => a = b

ActiveIsLive ==
  \A k \in Keys :
    k \notin overlapped /\ active[k] # None => Live(active[k])

LiveIsActive ==
  \A a \in Attempts :
    /\ Live(a) /\ attempt[a].key \notin overlapped
    /\ ~observer.closed /\ a \notin observer.unseen
    => active[attempt[a].key] = a

Index == /\ Unobserved /\ ActiveIsBegun /\ EndedUnderAFailure /\ ClosedIsEmpty
         /\ OneAtATime /\ ActiveIsLive /\ LiveIsActive
-----------------------------------------------------------------------------
\* A step on a layer changes the record of that layer only.
LEMMA SetLayerSets ==
  ASSUME wrap \in [Attempts -> [Layers -> Layer]],
         NEW a \in Attempts, NEW l \in Layers, NEW next \in Layer,
         SetLayer(a, l, next)
  PROVE  /\ wrap' \in [Attempts -> [Layers -> Layer]]
         /\ wrap'[a][l] = next
         /\ \A b \in Attempts, k \in Layers :
              b # a \/ k # l => wrap'[b][k] = wrap[b][k]
<1>1. wrap' = [wrap EXCEPT ![a] = [wrap[a] EXCEPT ![l] = next]]
  BY DEF SetLayer
<1>2. [wrap[a] EXCEPT ![l] = next] \in [Layers -> Layer] OBVIOUS
<1> QED BY <1>1, <1>2

LEMMA EnterSchedules ==
  ASSUME wrap \in [Attempts -> [Layers -> Layer]],
         NEW a \in Attempts, NEW l \in Layers, Enter(a, l)
  PROVE  /\ wrap' \in [Attempts -> [Layers -> Layer]]
         /\ wrap'[a][l].calls = 1 /\ wrap'[a][l].answer = "none"
         /\ \A b \in Attempts, k \in Layers :
              b # a \/ k # l => wrap'[b][k] = wrap[b][k]
<1>1. PICK calls \in {0, 1}, wrapper \in {"pending", "threw"},
           error \in {"none", "foreign", "handlers"} :
        SetLayer(a, l, [Bare EXCEPT !.calls = CallsAtLeastOnce(calls),
                                    !.wrapper = wrapper, !.error = error])
  BY DEF Enter
<1> DEFINE next == [Bare EXCEPT !.calls = CallsAtLeastOnce(calls),
                                !.wrapper = wrapper, !.error = error]
<1>2. next \in Layer /\ next.calls = 1 /\ next.answer = "none"
  BY DEF Bare, Layer, CallsAtLeastOnce, Ended
<1> QED BY <1>1, <1>2, SetLayerSets

LEMMA EnterBlamesNobody ==
  ASSUME wrap \in [Attempts -> [Layers -> Layer]],
         NEW a \in Attempts, NEW l \in Layers, Enter(a, l)
  PROVE  wrap'[a][l].blamed = FALSE
<1>1. PICK calls \in {0, 1}, wrapper \in {"pending", "threw"},
           error \in {"none", "foreign", "handlers"} :
        SetLayer(a, l, [Bare EXCEPT !.calls = CallsAtLeastOnce(calls),
                                    !.wrapper = wrapper, !.error = error])
  BY DEF Enter
<1>2. wrap'[a][l] = [Bare EXCEPT !.calls = CallsAtLeastOnce(calls),
                                 !.wrapper = wrapper, !.error = error]
  BY <1>1 DEF SetLayer
<1> QED BY <1>2 DEF Bare

\* The other steps of a layer leave its calls alone, and its answer unless it
\* answers as the operation ended.
GoesOn(a, l, next) ==
  /\ next \in Layer /\ next.calls = wrap[a][l].calls
  /\ \/ next.answer = wrap[a][l].answer
     \/ next.answer = Outcome(a, l) /\ Outcome(a, l) \in Ended

LEMMA LayerGoesOn ==
  ASSUME TypeOK, NEW a \in Attempts, NEW l \in Layers,
         WrapperRejects(a, l) \/ Answer(a, l) \/ ReportRejection(a, l)
  PROVE  /\ wrap' \in [Attempts -> [Layers -> Layer]]
         /\ GoesOn(a, l, wrap'[a][l])
         /\ \A b \in Attempts, k \in Layers :
              b # a \/ k # l => wrap'[b][k] = wrap[b][k]
<1> USE DEF TypeOK
<1>0. wrap[a][l] \in Layer OBVIOUS
<1>1. \A next \in Layer :
        SetLayer(a, l, next) /\ GoesOn(a, l, next)
        => /\ wrap' \in [Attempts -> [Layers -> Layer]]
           /\ GoesOn(a, l, wrap'[a][l])
           /\ \A b \in Attempts, k \in Layers :
                b # a \/ k # l => wrap'[b][k] = wrap[b][k]
  BY SetLayerSets
<1>2. CASE WrapperRejects(a, l)
  <2>1. PICK error \in {"foreign", "handlers"} :
          SetLayer(a, l, [wrap[a][l] EXCEPT !.wrapper = "rejected",
                                            !.error = error])
    BY <1>2 DEF WrapperRejects
  <2> DEFINE next == [wrap[a][l] EXCEPT !.wrapper = "rejected",
                                        !.error = error]
  <2>2. next \in Layer /\ GoesOn(a, l, next)
    BY <1>0 DEF Layer, GoesOn
  <2>3. SetLayer(a, l, next) BY <2>1
  <2> HIDE DEF next
  <2> QED BY <1>1, <2>2, <2>3
<1>3. CASE Answer(a, l)
  <2> DEFINE next == [wrap[a][l] EXCEPT
               !.answer = Outcome(a, l),
               !.blamed = (wrap[a][l].wrapper = "threw" /\ ToBlame(a, l))]
  <2>1. next \in Layer /\ GoesOn(a, l, next)
    BY <1>0, <1>3 DEF Layer, Answer, OperationEnded, GoesOn
  <2>2. SetLayer(a, l, next) BY <1>3 DEF Answer
  <2> HIDE DEF next
  <2> QED BY <1>1, <2>1, <2>2
<1>4. CASE ReportRejection(a, l)
  <2> DEFINE next == [wrap[a][l] EXCEPT !.blamed = TRUE]
  <2>1. next \in Layer /\ GoesOn(a, l, next)
    BY <1>0 DEF Layer, GoesOn
  <2>2. SetLayer(a, l, next) BY <1>4 DEF ReportRejection
  <2> HIDE DEF next
  <2> QED BY <1>1, <2>1, <2>2
<1> QED BY <1>2, <1>3, <1>4
-----------------------------------------------------------------------------
(* Types and calls                                                         *)

LEMMA FinishedIsSpan ==
  ASSUME TypeOK, NEW s, NEW state \in {"superseded", "finished"},
         NEW by \in Attempts
  PROVE  Finished(s, state, by) \in [Attempts -> Span]
BY DEF TypeOK, Finished, Span

LEMMA ObserveStartTypes ==
  ASSUME TypeOK, NEW a \in Attempts, NEW k \in Keys, ObserveStart(a, k)
  PROVE  /\ span' \in [Attempts -> Span]
         /\ active' \in [Keys -> Attempts \cup {None}]
         /\ observer' \in [closed : BOOLEAN, unseen : SUBSET Attempts,
                          late : SUBSET Attempts, again : SUBSET Attempts]
<1> USE DEF TypeOK
<1>1. CASE UNCHANGED spans BY <1>1 DEF spans
<1>2. CASE ~UNCHANGED spans
  <2> DEFINE superseded == Finished(active[k], "superseded", a)
             twice == observer.again \cup EndedBefore({active[k]})
  <2>1. superseded \in [Attempts -> Span] BY FinishedIsSpan
  <2>2. twice \in SUBSET Attempts BY DEF EndedBefore
  <2>3. \/ /\ span' = [superseded EXCEPT ![a].state = "open"]
           /\ active' = [active EXCEPT ![k] = a]
           /\ observer' = [observer EXCEPT !.again = twice]
        \/ /\ span' = superseded
           /\ observer' = [observer EXCEPT !.again = twice,
                                           !.unseen = @ \cup {a}]
           /\ UNCHANGED active
    BY <1>2 DEF ObserveStart
  <2> HIDE DEF superseded, twice
  <2>4. [superseded EXCEPT ![a].state = "open"] \in [Attempts -> Span]
    BY <2>1 DEF Span
  <2>5. \A seen \in SUBSET Attempts :
          [observer EXCEPT !.again = twice, !.unseen = seen] \in
            [closed : BOOLEAN, unseen : SUBSET Attempts,
             late : SUBSET Attempts, again : SUBSET Attempts]
    BY <2>2
  <2>6. [observer EXCEPT !.again = twice] \in
          [closed : BOOLEAN, unseen : SUBSET Attempts,
           late : SUBSET Attempts, again : SUBSET Attempts]
    BY <2>2
  <2>7. [active EXCEPT ![k] = a] \in [Keys -> Attempts \cup {None}] OBVIOUS
  <2>8. observer.unseen \cup {a} \in SUBSET Attempts OBVIOUS
  <2>9. CASE active' = [active EXCEPT ![k] = a]
             /\ span' = [superseded EXCEPT ![a].state = "open"]
             /\ observer' = [observer EXCEPT !.again = twice]
    BY <2>4, <2>6, <2>7, <2>9
  <2>10. CASE span' = superseded /\ UNCHANGED active
              /\ observer' = [observer EXCEPT !.again = twice,
                                              !.unseen = @ \cup {a}]
    BY <2>1, <2>5, <2>8, <2>10
  <2> QED BY <2>3, <2>9, <2>10
<1> QED BY <1>1, <1>2

LEMMA ObserveEndTypes ==
  ASSUME TypeOK, NEW a \in Attempts, NEW k \in Keys, ObserveEnd(a, k)
  PROVE  /\ span' \in [Attempts -> Span]
         /\ active' \in [Keys -> Attempts \cup {None}]
         /\ observer' \in [closed : BOOLEAN, unseen : SUBSET Attempts,
                          late : SUBSET Attempts, again : SUBSET Attempts]
<1> USE DEF TypeOK
<1>1. Finished(active[k], "finished", a) \in [Attempts -> Span]
  BY FinishedIsSpan
<1>2. EndedBefore({active[k]}) \in SUBSET Attempts BY DEF EndedBefore
<1>3. \A S \in SUBSET Attempts :
        /\ [observer EXCEPT !.again = S] \in
             [closed : BOOLEAN, unseen : SUBSET Attempts,
              late : SUBSET Attempts, again : SUBSET Attempts]
        /\ [observer EXCEPT !.late = S] \in
             [closed : BOOLEAN, unseen : SUBSET Attempts,
              late : SUBSET Attempts, again : SUBSET Attempts]
  OBVIOUS
<1>4. CASE UNCHANGED spans BY <1>4 DEF spans
<1>5. CASE /\ span' = Finished(active[k], "finished", a)
           /\ active' = Deleted(k)
           /\ observer' = [observer EXCEPT
                !.again = @ \cup EndedBefore({active[k]})]
  <2>1. observer.again \cup EndedBefore({active[k]}) \in SUBSET Attempts
    BY <1>2
  <2>2. Deleted(k) \in [Keys -> Attempts \cup {None}] BY DEF Deleted
  <2> QED BY <1>1, <1>3, <1>5, <2>1, <2>2
<1>6. CASE /\ observer' = [observer EXCEPT !.late = @ \cup {a}]
           /\ UNCHANGED <<span, active>>
  <2>1. observer.late \cup {a} \in SUBSET Attempts OBVIOUS
  <2> QED BY <1>3, <1>6, <2>1
<1> QED BY <1>4, <1>5, <1>6 DEF ObserveEnd, spans

\* What a layer does later, when it has been entered.
Continues(a, l) == \/ Answers(a, l) \/ Reports(a, l)
                   \/ LateCall(a, l) \/ Rejects(a, l)

\* Only an attempt that has begun has layers to go on.
LEMMA ContinuesChanges ==
  ASSUME TypeOK, Calls, NEW a \in Attempts, NEW l \in Layers, Continues(a, l)
  PROVE  /\ wrap' \in [Attempts -> [Layers -> Layer]]
         /\ GoesOn(a, l, wrap'[a][l])
         /\ \A b \in Attempts, k \in Layers :
              b # a \/ k # l => wrap'[b][k] = wrap[b][k]
         /\ ~NotBegun(a)
         /\ UNCHANGED <<attempt, handler, spans, overlapped>>
<1> USE DEF TypeOK, Calls
<1>1. CASE LateCall(a, l)
  <2>1. /\ UNCHANGED <<wrap, attempt, handler, spans, overlapped>>
        /\ wrap[a][l].calls = 1
    BY <1>1 DEF LateCall, CallAgain, KeepHandler
  <2>2. ~NotBegun(a) BY <2>1 DEF Untouched, Bare
  <2>3. wrap[a][l] \in Layer OBVIOUS
  <2>4. GoesOn(a, l, wrap[a][l]) BY <2>3 DEF GoesOn
  <2> QED BY <2>1, <2>2, <2>4
<1>2. CASE ~LateCall(a, l)
  <2>1. WrapperRejects(a, l) \/ Answer(a, l) \/ ReportRejection(a, l)
    BY <1>2 DEF Continues, Answers, Reports, Rejects
  <2>2. UNCHANGED <<attempt, handler, spans, overlapped>>
    BY <1>2 DEF Continues, Answers, Reports, Rejects
  <2>3. ASSUME NotBegun(a) PROVE FALSE
    <3>1. /\ handler[a] = [runs |-> 0, state |-> "none", span |-> "none"]
          /\ \A k \in Layers : wrap[a][k] = Bare
      BY <2>3 DEF Untouched
    <3>2. Outcome(a, l) = "none" /\ wrap[a][l] = Bare
      BY <3>1 DEF Outcome, Bare, Layers
    <3> QED BY <2>1, <3>2 DEF Answer, OperationEnded, ReportRejection,
                WrapperRejects, Bare, Ended
  <2> QED BY <2>1, <2>2, <2>3, LayerGoesOn
<1> QED BY <1>1, <1>2

LEMMA ContinuesKeepsCalls ==
  ASSUME TypeOK, Calls, NEW a \in Attempts, NEW l \in Layers, Continues(a, l)
  PROVE  TypeOK' /\ Calls'
<1> USE ContinuesChanges DEF TypeOK, Calls
<1>1. /\ \A b \in Attempts, k \in Layers :
           wrap'[b][k].calls = wrap[b][k].calls
      /\ \A b \in Attempts \ {a} : wrap'[b] = wrap[b]
  BY DEF GoesOn
<1>2. TypeOK' BY DEF spans
<1>3. Untouched' BY <1>1 DEF Untouched, NotBegun
<1>4. Begun' BY DEF Begun, NotBegun
<1>5. RunsOnce' BY DEF RunsOnce
<1>6. CalledByLayer2' BY <1>1 DEF CalledByLayer2, Layers
<1> QED BY <1>2, <1>3, <1>4, <1>5, <1>6

LEMMA StartJobChanges ==
  ASSUME TypeOK, Calls, NEW a \in Attempts, NEW k \in Keys, StartJob(a, k)
  PROVE  /\ attempt' \in [Attempts -> Attempt]
         /\ handler' \in [Attempts -> Handler]
         /\ wrap' \in [Attempts -> [Layers -> Layer]]
         /\ \A b \in Attempts \ {a} : /\ attempt'[b] = attempt[b]
                                    /\ handler'[b] = handler[b]
                                    /\ wrap'[b] = wrap[b]
         /\ NotBegun(a) /\ attempt'[a].state = "running"
         /\ attempt'[a].key = k /\ attempt'[a].event = "none"
         /\ \A l \in Layers : wrap'[a][l].answer = "none"
         /\ wrap'[a][2] = wrap[a][2] /\ wrap[a] = [l \in Layers |-> Bare]
         /\ handler'[a].span = "none"
         /\ handler[a] = [runs |-> 0, state |-> "none", span |-> "none"]
         /\ a \in Wrapped => handler'[a] = handler[a]
         /\ a \notin Wrapped => /\ wrap' = wrap /\ handler'[a].runs = 1
                                /\ handler'[a].state = "running"
<1> USE DEF TypeOK, Calls
<1>1. /\ attempt' = [attempt EXCEPT ![a] = [@ EXCEPT !.state = "running",
                                                     !.key = k]]
      /\ attempt[a].state = "idle"
  BY DEF StartJob
<1>2. attempt' \in [Attempts -> Attempt]
  <2>1. attempt[a] \in Attempt OBVIOUS
  <2>2. [attempt[a] EXCEPT !.state = "running", !.key = k] \in Attempt
    BY <2>1 DEF Attempt
  <2> QED BY <1>1, <2>2
<1>3. /\ handler[a] = [runs |-> 0, state |-> "none", span |-> "none"]
      /\ wrap[a] = [l \in Layers |-> Bare] /\ NotBegun(a)
      /\ attempt[a].event = "none"
  BY <1>1 DEF Untouched, NotBegun
<1>4. /\ attempt'[a].state = "running" /\ attempt'[a].key = k
      /\ attempt'[a].event = "none"
      /\ \A b \in Attempts \ {a} : attempt'[b] = attempt[b]
  <2>1. attempt[a] \in Attempt OBVIOUS
  <2> QED BY <1>1, <1>3, <2>1 DEF Attempt
<1>5. \A l \in Layers : wrap[a][l].answer = "none" BY <1>3 DEF Bare
<1>6. CASE a \in Wrapped
  <2>1. Enter(a, 1) /\ UNCHANGED handler
    BY <1>6 DEF StartJob, RunWithTraceContext
  <2>2. /\ wrap' \in [Attempts -> [Layers -> Layer]]
        /\ wrap'[a][1].answer = "none"
        /\ \A b \in Attempts, l \in Layers :
             b # a \/ l # 1 => wrap'[b][l] = wrap[b][l]
    BY <2>1, EnterSchedules DEF Layers
  <2> QED BY <1>2, <1>3, <1>4, <1>5, <1>6, <2>1, <2>2 DEF Layers
<1>7. CASE a \notin Wrapped
  <2> DEFINE next == [handler[a] EXCEPT !.runs = 1, !.state = "running"]
  <2>1. UNCHANGED wrap /\ handler' = [handler EXCEPT ![a] = next]
    BY <1>7 DEF StartJob
  <2>2. handler[a] \in Handler OBVIOUS
  <2>3. /\ next.runs = 1 /\ next.state = "running"
        /\ next.span = handler[a].span
    BY <2>2 DEF Handler
  <2>4. 1 \in 0..2 OBVIOUS
  <2>5. next \in Handler BY <2>2, <2>4 DEF Handler
  <2>6. handler[a].span = "none" BY <1>3
  <2> HIDE DEF next
  <2> QED BY <1>2, <1>3, <1>4, <1>5, <1>7, <2>1, <2>3, <2>5, <2>6 DEF Layers
<1> QED BY <1>6, <1>7

LEMMA StartJobKeepsCalls ==
  ASSUME TypeOK, Calls, NEW a \in Attempts, NEW k \in Keys, StartJob(a, k)
  PROVE  TypeOK' /\ Calls'
<1> USE StartJobChanges DEF TypeOK, Calls
<1>1. TypeOK'
  <2>1. overlapped' \subseteq Keys BY ONLY TypeOK, StartJob(a, k) DEF StartJob
  <2> QED BY <2>1, ObserveStartTypes DEF StartJob
<1>2. Untouched'
  <2>1. \A b \in Attempts : NotBegun(b)' => b # a /\ NotBegun(b)
    BY DEF NotBegun
  <2>2. \A b \in Attempts \ {a} : /\ attempt'[b] = attempt[b]
                                 /\ handler'[b] = handler[b]
                                 /\ wrap'[b] = wrap[b]
    OBVIOUS
  <2> QED BY ONLY Untouched, <2>1, <2>2 DEF Untouched
<1>3. Begun' BY DEF Begun, NotBegun
<1>4. RunsOnce' BY DEF RunsOnce
<1>5. CalledByLayer2' BY DEF CalledByLayer2, Layers, Bare
<1> QED BY <1>1, <1>2, <1>3, <1>4, <1>5

\* The other steps between the wrappers and the handler.
WithinWrappers(a) == Scheduled(a) \/ EnterLate(a) \/ HandlerEnds(a)

LEMMA WithinWrappersChanges ==
  ASSUME TypeOK, Calls, NEW a \in Attempts, WithinWrappers(a)
  PROVE  /\ wrap' \in [Attempts -> [Layers -> Layer]]
         /\ handler' \in [Attempts -> Handler]
         /\ \A b \in Attempts : wrap'[b][1] = wrap[b][1]
         /\ \A b \in Attempts \ {a} :
              wrap'[b] = wrap[b] /\ handler'[b] = handler[b]
         /\ \/ wrap'[a] = wrap[a]
            \/ /\ a \in Wrapped /\ wrap'[a][2].calls = 1
               /\ wrap'[a][2].answer = "none"
               /\ handler[a].state = "none"
         /\ wrap'[a][2].calls > 0 \/ a \notin Wrapped
         /\ handler'[a].runs = IF handler'[a].state = "none" THEN 0 ELSE 1
         /\ handler'[a].state # handler[a].state => handler'[a].state # "none"
         /\ ~NotBegun(a)
         /\ UNCHANGED <<attempt, spans, overlapped>>
<1> USE DEF TypeOK, Calls
<1>0. /\ handler[a] \in Handler
      /\ handler[a].runs = IF handler[a].state = "none" THEN 0 ELSE 1
  BY DEF RunsOnce
<1>1. ASSUME NotBegun(a) PROVE FALSE
  <2>1. /\ handler[a] = [runs |-> 0, state |-> "none", span |-> "none"]
        /\ \A k \in Layers : wrap[a][k] = Bare
    BY <1>1 DEF Untouched
  <2>2. wrap[a][1].calls = 0 /\ wrap[a][2].calls = 0
    BY <2>1 DEF Bare, Layers
  <2>3. handler[a].state = "none" BY <2>1
  <2> QED BY ONLY <2>2, <2>3, WithinWrappers(a) DEF WithinWrappers, Scheduled, RunInstrumentedJob,
              StartActiveSpan, HandlerStarts, EnterLate, CallAgain, HandlerEnds,
              SpanEnds, Ended
<1>2. UNCHANGED <<attempt, spans, overlapped>>
  BY DEF WithinWrappers, Scheduled, RunInstrumentedJob, StartActiveSpan,
         HandlerStarts, EnterLate, HandlerEnds, SpanEnds
<1>3. wrap[a][1].calls > 0 \/ wrap[a][2].calls > 0 => a \in Wrapped
  BY DEF CalledByLayer2, Layers
<1>4. CASE RunInstrumentedJob(a)
  <2>1. Enter(a, 2) /\ UNCHANGED handler BY <1>4 DEF RunInstrumentedJob
  <2>2. /\ wrap' \in [Attempts -> [Layers -> Layer]]
        /\ wrap'[a][2].calls = 1 /\ wrap'[a][2].answer = "none"
        /\ \A b \in Attempts, l \in Layers :
             b # a \/ l # 2 => wrap'[b][l] = wrap[b][l]
    BY <2>1, EnterSchedules DEF Layers
  <2>3. a \in Wrapped /\ handler[a].state = "none"
    BY <1>3, <1>4 DEF RunInstrumentedJob, CalledByLayer2
  <2> QED BY <1>0, <1>1, <1>2, <2>1, <2>2, <2>3 DEF Layers
<1>5. CASE StartActiveSpan(a)
  <2> DEFINE next == [Bare EXCEPT !.calls = 1, !.wrapper = "pending"]
  <2>1. next \in Layer /\ next.calls = 1 /\ next.answer = "none"
    BY DEF Bare, Layer
  <2>2. SetLayer(a, 2, next) BY <1>5 DEF StartActiveSpan
  <2> HIDE DEF next
  <2>3. /\ wrap' \in [Attempts -> [Layers -> Layer]]
        /\ wrap'[a][2].calls = 1 /\ wrap'[a][2].answer = "none"
        /\ \A b \in Attempts, l \in Layers :
             b # a \/ l # 2 => wrap'[b][l] = wrap[b][l]
    BY <2>1, <2>2, SetLayerSets DEF Layers
  <2>4. a \in Wrapped /\ handler[a].state = "none"
    BY <1>3, <1>5 DEF StartActiveSpan, CalledByLayer2
  <2>5. PICK s \in {"open", handler[a].span} :
          handler' = [handler EXCEPT ![a] = [handler[a] EXCEPT !.span = s]]
    BY <1>5 DEF StartActiveSpan
  <2>6. [handler[a] EXCEPT !.span = s] \in Handler BY <1>0 DEF Handler
  <2> QED BY <1>0, <1>1, <1>2, <2>3, <2>4, <2>5, <2>6 DEF Layers
<1>6. CASE HandlerStarts(a)
  <2> DEFINE next == [handler[a] EXCEPT !.runs = handler[a].runs + 1,
                                    !.state = "running"]
  <2>1. handler[a].runs = 0 BY <1>0, <1>6 DEF HandlerStarts
  <2>2. next.runs = 1 /\ next.state = "running" BY <1>0, <2>1 DEF Handler
  <2>3. 1 \in 0..2 OBVIOUS
  <2>4. next \in Handler
    <3>1. next = [handler[a] EXCEPT !.runs = 1, !.state = "running"]
      BY <2>1
    <3> QED BY <1>0, <2>3, <3>1 DEF Handler
  <2>5. handler' = [handler EXCEPT ![a] = next] /\ UNCHANGED wrap
    BY ONLY HandlerStarts(a), <1>6 DEF HandlerStarts
  <2>6. wrap[a][2].calls > 0 BY <1>6 DEF HandlerStarts
  <2> HIDE DEF next
  <2> QED BY <1>1, <1>2, <2>2, <2>4, <2>5, <2>6
<1>7. CASE EnterLate(a)
  <2>1. PICK s \in {"open", "late"} :
          handler' = [handler EXCEPT ![a] = [handler[a] EXCEPT !.span = s]]
    BY <1>7 DEF EnterLate
  <2>2. [handler[a] EXCEPT !.span = s] \in Handler
    BY <1>0, <2>1 DEF Handler
  <2>3. UNCHANGED wrap /\ wrap[a][2].calls = 1
    BY <1>7 DEF EnterLate, CallAgain
  <2> QED BY <1>0, <1>1, <1>2, <2>1, <2>2, <2>3
<1>8. CASE HandlerEnds(a)
  <2>1. PICK end \in Ended :
          handler' = [handler EXCEPT ![a] = [handler[a] EXCEPT !.state = end]]
    BY <1>8 DEF HandlerEnds
  <2> DEFINE next == [handler[a] EXCEPT !.state = end]
  <2>2. next \in Handler /\ next.state = end
    BY <1>0 DEF Handler, Ended
  <2>3. next.runs = 1
    BY <1>0, <1>8 DEF HandlerEnds, Handler
  <2>4. UNCHANGED wrap BY <1>8 DEF HandlerEnds
  <2>5. wrap[a][2].calls > 0 \/ a \notin Wrapped
    <3>1. wrap[a][2] \in Layer BY DEF Layers
    <3>2. wrap[a][2].calls # 0 \/ a \notin Wrapped
      BY <1>8 DEF HandlerEnds, CalledByLayer2
    <3> QED BY <3>1, <3>2 DEF Layer
  <2>6. handler' = [handler EXCEPT ![a] = next] BY <2>1
  <2> HIDE DEF next
  <2> QED BY <1>1, <1>2, <2>2, <2>3, <2>4, <2>5, <2>6 DEF Ended
<1>9. CASE SpanEnds(a)
  <2> DEFINE s == SpanOutcome(a, handler[a].state)
  <2>1. /\ handler' = [handler EXCEPT ![a] = [handler[a] EXCEPT !.span = s]]
        /\ UNCHANGED wrap /\ handler[a].state # "none"
    BY <1>9 DEF SpanEnds, Ended
  <2>2. s \in {"cancelled"} \cup Ended BY <1>9 DEF SpanEnds, SpanOutcome
  <2> HIDE DEF s
  <2>3. [handler[a] EXCEPT !.span = s] \in Handler
    BY <1>0, <2>2 DEF Handler, Ended
  <2>4. wrap[a][2].calls > 0 \/ a \notin Wrapped
    <3>1. wrap[a][2] \in Layer BY DEF Layers
    <3>2. wrap[a][2].calls # 0 \/ a \notin Wrapped
      BY <2>1 DEF CalledByLayer2
    <3> QED BY <3>1, <3>2 DEF Layer
  <2> QED BY <1>0, <1>1, <1>2, <2>1, <2>3, <2>4
<1> QED BY <1>4, <1>5, <1>6, <1>7, <1>8, <1>9 DEF WithinWrappers, Scheduled

LEMMA WithinWrappersKeepsCalls ==
  ASSUME TypeOK, Calls, NEW a \in Attempts, WithinWrappers(a)
  PROVE  TypeOK' /\ Calls'
<1> USE WithinWrappersChanges DEF TypeOK, Calls
<1>1. TypeOK' BY DEF spans
<1>2. Untouched' BY DEF Untouched, NotBegun
<1>3. Begun'
  <2>1. \A b \in Attempts :
          handler[b].state # "none" => handler'[b].state # "none"
    OBVIOUS
  <2> QED BY <2>1 DEF Begun, NotBegun
<1>4. RunsOnce' BY DEF RunsOnce
<1>5. CalledByLayer2' BY DEF CalledByLayer2, Layers
<1> QED BY <1>1, <1>2, <1>3, <1>4, <1>5

\* The poller goes on with an attempt that has begun.
Proceeds(a) == Abort(a) \/ Settle(a) \/ ReportEnd(a)

LEMMA ProceedsChanges ==
  ASSUME TypeOK, NEW a \in Attempts, Proceeds(a)
  PROVE  /\ attempt' \in [Attempts -> Attempt]
         /\ \A b \in Attempts \ {a} : attempt'[b] = attempt[b]
         /\ attempt'[a].key = attempt[a].key
         /\ ~NotBegun(a) /\ attempt'[a].state \in {"running", "ending", "over"}
         /\ UNCHANGED <<wrap, handler, overlapped>>
<1> USE DEF TypeOK
<1>0. attempt[a] \in Attempt OBVIOUS
<1>1. CASE Abort(a)
  <2>1. PICK abort \in {"lease", "shutdown"} :
          attempt' = [attempt EXCEPT ![a] = [attempt[a] EXCEPT !.abort = abort]]
    BY <1>1 DEF Abort
  <2>2. [attempt[a] EXCEPT !.abort = abort] \in Attempt BY <1>0 DEF Attempt
  <2> QED BY <1>0, <1>1, <2>1, <2>2 DEF Abort, NotBegun
<1>2. CASE Settle(a)
  <2>1. PICK event \in Verdict(a) :
          attempt' = [attempt EXCEPT ![a] =
                        [attempt[a] EXCEPT !.state = "ending", !.event = event]]
    BY <1>2 DEF Settle
  <2>2. event \in Events BY DEF Verdict, Events
  <2>3. [attempt[a] EXCEPT !.state = "ending", !.event = event] \in Attempt
    BY <1>0, <2>2 DEF Attempt
  <2> QED BY <1>0, <1>2, <2>1, <2>3 DEF Settle, NotBegun
<1>3. CASE ReportEnd(a)
  <2>1. attempt' = [attempt EXCEPT ![a] = [attempt[a] EXCEPT !.state = "over"]]
    BY <1>3 DEF ReportEnd
  <2>2. [attempt[a] EXCEPT !.state = "over"] \in Attempt
    BY <1>0 DEF Attempt
  <2> QED BY <1>0, <1>3, <2>1, <2>2 DEF ReportEnd, NotBegun
<1> QED BY <1>1, <1>2, <1>3 DEF Proceeds

LEMMA CloseTypes ==
  ASSUME TypeOK, Close
  PROVE  TypeOK'
<1> USE DEF TypeOK
<1>1. EndedBefore({active[k] : k \in Keys}) \in SUBSET Attempts
  BY DEF EndedBefore
<1>2. \A S \in SUBSET Attempts :
        [observer EXCEPT !.closed = TRUE, !.again = S] \in
          [closed : BOOLEAN, unseen : SUBSET Attempts,
           late : SUBSET Attempts, again : SUBSET Attempts]
  OBVIOUS
<1>3. observer.again \cup EndedBefore({active[k] : k \in Keys})
        \in SUBSET Attempts
  BY <1>1
<1>4. observer' \in [closed : BOOLEAN, unseen : SUBSET Attempts,
                    late : SUBSET Attempts, again : SUBSET Attempts]
  BY <1>2, <1>3 DEF Close
<1>5. [state |-> "closed", by |-> None] \in Span BY DEF Span
<1>6. span' \in [Attempts -> Span] BY <1>5 DEF Close
<1> QED BY <1>4, <1>6 DEF Close

\* What the poller and the observer do leaves the calls alone.
LEMMA ProceedsKeepsCalls ==
  ASSUME TypeOK, Calls, NEW a \in Attempts, Proceeds(a)
  PROVE  TypeOK' /\ Calls'
<1> USE ProceedsChanges DEF TypeOK, Calls
<1>0. a \in Attempts OBVIOUS
<1>1. TypeOK'
  <2>1. CASE ReportEnd(a)
    <3>0. attempt[a].key \in Keys BY DEF Begun
    <3>1. ObserveEnd(a, attempt[a].key) BY <2>1 DEF ReportEnd
    <3> QED BY <3>0, <3>1, ObserveEndTypes
  <2>2. CASE UNCHANGED spans BY <2>2 DEF spans
  <2> QED BY <2>1, <2>2 DEF Proceeds, Abort, Settle
<1>2. Untouched' BY DEF Untouched, NotBegun
<1>3. Begun' BY DEF Begun, NotBegun
<1>4. RunsOnce' BY DEF RunsOnce
<1>5. CalledByLayer2' BY DEF CalledByLayer2
<1> QED BY <1>1, <1>2, <1>3, <1>4, <1>5

\* Every action is one of these.
LEMMA NextIs ==
  ASSUME [Next]_vars
  PROVE  \/ \E a \in Attempts, k \in Keys : StartJob(a, k)
         \/ \E a \in Attempts : WithinWrappers(a) \/ Proceeds(a)
         \/ \E a \in Attempts, l \in Layers : Continues(a, l)
         \/ Close
         \/ UNCHANGED vars
BY DEF Next, WithinWrappers, Proceeds, Continues

LEMMA NextKeepsCalls ==
  ASSUME TypeOK, Calls, [Next]_vars
  PROVE  TypeOK' /\ Calls'
<1>1. CASE Close
  <2>1. Calls' BY <1>1 DEF Close, Calls, Untouched, Begun, RunsOnce,
                           CalledByLayer2, NotBegun
  <2> QED BY <1>1, <2>1, CloseTypes
<1>2. CASE UNCHANGED vars
  BY <1>2 DEF vars, spans, TypeOK, Calls, Untouched, Begun, RunsOnce,
              CalledByLayer2, NotBegun
<1> QED BY <1>1, <1>2, NextIs, StartJobKeepsCalls, WithinWrappersKeepsCalls,
           ProceedsKeepsCalls, ContinuesKeepsCalls

LEMMA InitNotBegun ==
  Init => \A a \in Attempts : /\ NotBegun(a) /\ attempt[a].key = None
                              /\ attempt[a].event = "none"
<1> SUFFICES ASSUME Init
             PROVE  \A a \in Attempts : /\ NotBegun(a)
                                        /\ attempt[a].key = None
                                        /\ attempt[a].event = "none"
  OBVIOUS
<1>1. PICK jobs \in Together :
        attempt = [a \in Attempts |->
                     [state |-> IF a \in jobs THEN "idle" ELSE "absent",
                      key |-> None, abort |-> "no", event |-> "none"]]
  BY DEF Init
<1> QED BY <1>1 DEF NotBegun

LEMMA InitCalls == Init => TypeOK /\ Calls
<1> SUFFICES ASSUME Init PROVE TypeOK /\ Calls OBVIOUS
<1>1. PICK jobs \in Together :
        attempt = [a \in Attempts |->
                     [state |-> IF a \in jobs THEN "idle" ELSE "absent",
                      key |-> None, abort |-> "no", event |-> "none"]]
  BY DEF Init
<1>2. \A a \in Attempts : attempt[a] \in Attempt /\ NotBegun(a)
  BY <1>1 DEF Attempt, NotBegun
<1>3. attempt \in [Attempts -> Attempt] BY <1>1, <1>2
<1>4. Bare \in Layer BY DEF Bare, Layer
<1>5. wrap \in [Attempts -> [Layers -> Layer]] BY <1>4 DEF Init
<1>6. [runs |-> 0, state |-> "none", span |-> "none"] \in Handler
  BY DEF Handler
<1>7. handler \in [Attempts -> Handler] BY <1>6 DEF Init
<1>8. span \in [Attempts -> Span] BY DEF Init, Span
<1>9. TypeOK BY <1>3, <1>5, <1>7, <1>8 DEF Init, TypeOK
<1>10. Untouched BY <1>1 DEF Init, Untouched
<1>11. Begun BY <1>2 DEF Begun
<1>12. RunsOnce /\ CalledByLayer2
  BY DEF Init, RunsOnce, CalledByLayer2, Bare, Layers
<1> QED BY <1>9, <1>10, <1>11, <1>12 DEF Calls

LEMMA CallsHold == Spec => [](TypeOK /\ Calls)
BY InitCalls, NextKeepsCalls, PTL DEF Spec

\* Every reachable state is well typed.
THEOREM TypeCorrect == Spec => []TypeOK
BY CallsHold, PTL

\* A handler runs at most once, however often and whenever the wrappers call
\* their operation, and an attempt that has not begun has left no trace.
THEOREM RunsOnceHolds == Spec => []Calls
BY CallsHold, PTL
-----------------------------------------------------------------------------
(* Outcomes                                                                *)

LEMMA StartJobKeepsOutcomes ==
  ASSUME TypeOK, Calls, Outcomes, NEW a \in Attempts, NEW k \in Keys,
         StartJob(a, k)
  PROVE  Outcomes'
<1> USE StartJobChanges DEF TypeOK, Outcomes
<1>1. \A b \in Attempts \ {a} : /\ attempt'[b] = attempt[b]
                               /\ handler'[b] = handler[b]
                               /\ wrap'[b] = wrap[b]
  OBVIOUS
<1>2. /\ attempt'[a].event = "none" /\ handler'[a].span = "none"
      /\ \A l \in Layers : wrap'[a][l].answer = "none"
  OBVIOUS
<1>3. AnswersAgree' BY ONLY AnswersAgree, <1>1, <1>2 DEF AnswersAgree
<1>4. SpanAgrees' BY ONLY SpanAgrees, <1>1, <1>2 DEF SpanAgrees, Ended
<1>5. EventAgrees' BY ONLY EventAgrees, <1>1, <1>2 DEF EventAgrees, AnswerOf
<1> QED BY <1>3, <1>4, <1>5

\* An open span is entered before the handler has ended, when no layer has
\* answered, and what ends a span is how the handler ended.
LEMMA WithinWrappersKeepsSpan ==
  ASSUME TypeOK, Calls, AnswersAgree, SpanAgrees, NEW a \in Attempts,
         WithinWrappers(a)
  PROVE  SpanAgrees'
<1> USE WithinWrappersChanges DEF TypeOK
<1>1. /\ UNCHANGED attempt
      /\ \A b \in Attempts \ {a} :
           handler'[b] = handler[b] /\ wrap'[b] = wrap[b]
      /\ \A l \in Layers : \/ wrap'[a][l].answer = wrap[a][l].answer
                           \/ wrap'[a][l].answer = "none"
      /\ a \notin Wrapped => wrap'[a] = wrap[a]
  BY DEF Layers
<1> DEFINE h == handler'[a]
<1>2. SUFFICES /\ h.span = "open" =>
                    /\ \A l \in Layers : wrap'[a][l].answer = "none"
                    /\ a \in Wrapped
               /\ h.span \in Ended => h.span = h.state
               /\ h.span = "cancelled" => attempt[a].abort # "no"
  BY <1>1 DEF SpanAgrees
<1>3. /\ handler[a].span = "open" =>
           /\ \A l \in Layers : wrap'[a][l].answer = "none"
           /\ a \in Wrapped
      /\ handler[a].span \in Ended => handler[a].span = handler[a].state
      /\ handler[a].span = "cancelled" => attempt[a].abort # "no"
      /\ handler[a].state \notin Ended =>
           \A l \in Layers : wrap'[a][l].answer = "none"
  <2>1. handler[a].span = "open" =>
          \A l \in Layers : wrap[a][l].answer = "none"
    BY DEF SpanAgrees
  <2>2. handler[a].state \notin Ended =>
          \A l \in Layers : wrap[a][l].answer = "none"
    BY DEF AnswersAgree
  <2>3. /\ handler[a].span = "open" => a \in Wrapped
        /\ handler[a].span \in Ended => handler[a].span = handler[a].state
        /\ handler[a].span = "cancelled" => attempt[a].abort # "no"
    BY DEF SpanAgrees
  <2> QED BY ONLY <1>1, <2>1, <2>2, <2>3
<1>4. handler[a] \in Handler OBVIOUS
<1>5. CASE RunInstrumentedJob(a) BY <1>3, <1>5 DEF RunInstrumentedJob
<1>6. CASE StartActiveSpan(a)
  <2>1. handler[a].state = "none" /\ a \in Wrapped
    BY <1>6 DEF StartActiveSpan, Calls, CalledByLayer2, Layers
  <2>2. PICK s \in {"open", handler[a].span} :
          handler' = [handler EXCEPT ![a] = [handler[a] EXCEPT !.span = s]]
    BY <1>6 DEF StartActiveSpan
  <2>3. h.span = s /\ h.state = handler[a].state BY <1>4, <2>2 DEF Handler
  <2> QED BY <1>3, <2>1, <2>3 DEF Ended
<1>7. CASE HandlerStarts(a)
  <2>1. h.span = handler[a].span /\ h.state = "running"
    BY <1>4, <1>7 DEF HandlerStarts, Handler
  <2>2. handler[a].state = "none" BY <1>7 DEF HandlerStarts
  <2> QED BY <1>3, <2>1, <2>2 DEF Ended
<1>8. CASE EnterLate(a)
  <2> DEFINE s == IF handler[a].state \in Ended THEN "late" ELSE "open"
  <2>1. handler' = [handler EXCEPT ![a] = [handler[a] EXCEPT !.span = s]]
    BY <1>8 DEF EnterLate
  <2>2. h.span = s BY <1>4, <2>1 DEF Handler
  <2>3. a \in Wrapped
    BY <1>8 DEF EnterLate, CallAgain, Calls, CalledByLayer2, Layers
  <2> QED BY <1>3, <2>2, <2>3 DEF Ended
<1>9. CASE HandlerEnds(a)
  <2>1. PICK end \in Ended :
          handler' = [handler EXCEPT ![a] = [handler[a] EXCEPT !.state = end]]
    BY <1>9 DEF HandlerEnds
  <2>2. h.state = end /\ h.span = handler[a].span
    BY <1>4, <2>1 DEF Handler
  <2>3. handler[a].state = "running" BY <1>9 DEF HandlerEnds
  <2> QED BY <1>3, <2>2, <2>3 DEF Ended
<1>10. CASE SpanEnds(a)
  <2> DEFINE s == SpanOutcome(a, handler[a].state)
  <2>1. /\ handler' = [handler EXCEPT ![a] = [handler[a] EXCEPT !.span = s]]
        /\ handler[a].state \in Ended
    BY <1>10 DEF SpanEnds
  <2>2. h.span = s /\ h.state = handler[a].state BY <1>4, <2>1 DEF Handler
  <2> QED BY <2>1, <2>2 DEF SpanOutcome, Ended
<1> QED BY <1>5, <1>6, <1>7, <1>8, <1>9, <1>10 DEF WithinWrappers, Scheduled

LEMMA WithinWrappersKeepsOutcomes ==
  ASSUME TypeOK, Calls, Outcomes, NEW a \in Attempts, WithinWrappers(a)
  PROVE  Outcomes'
<1>1. /\ UNCHANGED attempt
      /\ \A b \in Attempts \ {a} :
           wrap'[b] = wrap[b] /\ handler'[b] = handler[b]
      /\ \A l \in Layers : \/ wrap'[a][l].answer = wrap[a][l].answer
                           \/ wrap'[a][l].answer = "none"
  BY WithinWrappersChanges DEF TypeOK, Layers
<1>2. handler[a].state \in Ended => handler'[a].state = handler[a].state
  <2> USE DEF TypeOK
  <2>0. handler[a] \in Handler OBVIOUS
  <2>1. CASE StartActiveSpan(a) \/ EnterLate(a)
    <3>1. PICK s : handler' = [handler EXCEPT ![a] =
                                 [handler[a] EXCEPT !.span = s]]
      BY <2>1 DEF StartActiveSpan, EnterLate
    <3> QED BY <2>0, <3>1 DEF Handler
  <2>2. CASE RunInstrumentedJob(a) BY <2>2 DEF RunInstrumentedJob
  <2>3. CASE HandlerStarts(a) \/ HandlerEnds(a)
    BY <2>3 DEF HandlerStarts, HandlerEnds, Ended
  <2>4. CASE SpanEnds(a)
    BY <2>0, <2>4 DEF SpanEnds, Handler
  <2> QED BY <2>1, <2>2, <2>3, <2>4 DEF WithinWrappers, Scheduled
<1>3. AnswersAgree'
  <2> SUFFICES ASSUME NEW b \in Attempts, NEW l \in Layers,
                      wrap'[b][l].answer # "none"
               PROVE  /\ wrap'[b][l].answer = handler'[b].state
                      /\ handler'[b].state \in Ended
    BY DEF AnswersAgree
  <2>1. /\ wrap[b][l].answer = handler[b].state
        /\ handler[b].state \in Ended
        /\ wrap'[b][l].answer = wrap[b][l].answer
    BY <1>1 DEF Outcomes, AnswersAgree
  <2> QED BY <1>1, <1>2, <2>1
<1>4. SpanAgrees' BY WithinWrappersKeepsSpan DEF Outcomes
<1>5. EventAgrees'
  <2>1. \A b \in Attempts : attempt[b].event # "none" =>
                             handler'[b].state = handler[b].state
    BY <1>1, <1>2 DEF Outcomes, EventAgrees
  <2>2. EventAgrees /\ AnswersAgree BY DEF Outcomes
  <2>3. \A b \in Attempts : AnswerOf(b) # "none" => AnswerOf(b)' # "none"
    <3>1. handler[a].state = "none" => AnswerOf(a) = "none"
      BY <2>2 DEF AnswersAgree, AnswerOf, Ended, Layers
    <3>2. \A b \in Attempts : wrap'[b][1] = wrap[b][1]
      BY WithinWrappersChanges
    <3> QED BY <3>2 DEF AnswerOf
  <2> QED BY <1>1, <2>1, <2>2, <2>3 DEF EventAgrees
<1> QED BY <1>3, <1>4, <1>5 DEF Outcomes

LEMMA ContinuesKeepsOutcomes ==
  ASSUME TypeOK, Calls, Outcomes, NEW a \in Attempts, NEW l \in Layers,
         Continues(a, l)
  PROVE  Outcomes'
<1>1. /\ GoesOn(a, l, wrap'[a][l])
      /\ \A b \in Attempts, k \in Layers :
           b # a \/ k # l => wrap'[b][k] = wrap[b][k]
      /\ UNCHANGED <<attempt, handler>>
  BY ContinuesChanges
<1>2. AnswersAgree BY DEF Outcomes
<1>3. Outcome(a, l) \in Ended => Outcome(a, l) = handler[a].state
  BY <1>2 DEF Outcome, AnswersAgree, Layers, Ended
<1>4. AnswersAgree'
  <2>1. wrap'[a][l].answer # "none" =>
          /\ wrap'[a][l].answer = handler[a].state
          /\ handler[a].state \in Ended
    BY <1>1, <1>2, <1>3 DEF GoesOn, AnswersAgree
  <2> QED BY <1>1, <1>2, <2>1 DEF AnswersAgree
<1>5. SpanAgrees'
  <2>1. SpanAgrees BY DEF Outcomes
  <2>2. wrap'[a][l].answer # wrap[a][l].answer => handler[a].span # "open"
    <3>1. CASE Answers(a, l)
      <4>1. /\ Outcome(a, l) \in Ended /\ SpanIsServed(a, l)
        BY <3>1 DEF Answers, Answer, OperationEnded
      <4> QED BY <2>1, <4>1
           DEF SpanAgrees, SpanIsServed, Outcome, Ended, Layers
    <3>2. CASE Reports(a, l) \/ LateCall(a, l) \/ Rejects(a, l)
      <4>0. wrap[a][l] \in Layer /\ wrap \in [Attempts -> [Layers -> Layer]]
        BY DEF TypeOK
      <4>1. CASE Reports(a, l)
        <5>1. wrap'[a][l] = [wrap[a][l] EXCEPT !.blamed = TRUE]
          BY <4>0, <4>1 DEF Reports, ReportRejection, SetLayer
        <5> QED BY <4>0, <5>1 DEF Layer
      <4>2. CASE LateCall(a, l) BY <4>2 DEF LateCall, CallAgain
      <4>3. CASE Rejects(a, l)
        <5>1. PICK error \in {"foreign", "handlers"} :
                wrap'[a][l] = [wrap[a][l] EXCEPT !.wrapper = "rejected",
                                                 !.error = error]
          BY <4>0, <4>3 DEF Rejects, WrapperRejects, SetLayer
        <5> QED BY <4>0, <5>1 DEF Layer
      <4> QED BY <3>2, <4>1, <4>2, <4>3
    <3> QED BY <3>1, <3>2 DEF Continues
  <2>3. \A b \in Attempts, k \in Layers :
          wrap'[b][k].answer = wrap[b][k].answer \/ handler[b].span # "open"
    BY <1>1, <2>2
  <2> QED BY <1>1, <2>1, <2>3 DEF SpanAgrees
<1>6. EventAgrees'
  <2>1. EventAgrees BY DEF Outcomes
  <2>2. \A b \in Attempts : AnswerOf(b) # "none" => AnswerOf(b)' # "none"
    BY <1>1 DEF GoesOn, AnswerOf, Ended, Layers
  <2> QED BY <1>1, <2>1, <2>2 DEF EventAgrees
<1> QED BY <1>4, <1>5, <1>6 DEF Outcomes

LEMMA ProceedsKeepsOutcomes ==
  ASSUME TypeOK, Outcomes, NEW a \in Attempts, Proceeds(a)
  PROVE  Outcomes'
<1> USE DEF TypeOK
<1> DEFINE e == attempt'[a].event
<1>0. attempt[a] \in Attempt OBVIOUS
<1>1. /\ \A b \in Attempts \ {a} : attempt'[b] = attempt[b]
      /\ UNCHANGED <<wrap, handler>>
  BY ProceedsChanges
<1>2. AnswersAgree /\ SpanAgrees /\ EventAgrees BY DEF Outcomes
<1>3. AnswersAgree' BY <1>1, <1>2 DEF AnswersAgree
<1>4. /\ attempt[a].abort # "no" => attempt'[a].abort # "no"
      /\ e # "none" => handler[a].state \in Ended /\ AnswerOf(a) # "none"
      /\ e = "failed" => handler[a].state = "failed"
      /\ e \in {"completed", "settlement_failed"} =>
           handler[a].state = "completed" /\ attempt'[a].abort = "no"
      /\ e = "cancelled" => attempt'[a].abort # "no"
      /\ attempt'[a].state = "running" => e = "none"
  <2>1. CASE Abort(a)
    <3>1. PICK abort \in {"lease", "shutdown"} :
            attempt' = [attempt EXCEPT ![a] =
                          [attempt[a] EXCEPT !.abort = abort]]
      BY <2>1 DEF Abort
    <3>2. e = attempt[a].event /\ attempt'[a].abort = abort
      BY <1>0, <3>1 DEF Attempt
    <3>3. e = "none" BY <1>2, <2>1, <3>2 DEF Abort, EventAgrees
    <3> QED BY <3>2, <3>3
  <2>2. CASE Settle(a)
    <3>1. PICK event \in Verdict(a) :
            attempt' = [attempt EXCEPT ![a] =
              [attempt[a] EXCEPT !.state = "ending", !.event = event]]
      BY <2>2 DEF Settle
    <3>2. /\ e = event /\ attempt'[a].abort = attempt[a].abort
          /\ attempt'[a].state = "ending"
      BY <1>0, <3>1 DEF Attempt
    <3>3. AnswerOf(a) = handler[a].state /\ handler[a].state \in Ended
      BY <1>2, <2>2 DEF Settle, AnswerOf, AnswersAgree, Layers
    <3>4. attempt[a].abort \in {"no", "lease", "shutdown"}
      BY <1>0 DEF Attempt
    <3> QED BY <3>1, <3>2, <3>3, <3>4 DEF Verdict, Ended
  <2>3. CASE ReportEnd(a)
    <3>1. /\ attempt'[a].state = "over" /\ e = attempt[a].event
          /\ attempt'[a].abort = attempt[a].abort
      BY <1>0, <2>3 DEF ReportEnd, Attempt
    <3> QED BY <1>2, <3>1 DEF EventAgrees
  <2> QED BY <2>1, <2>2, <2>3 DEF Proceeds
<1>5. SpanAgrees' BY <1>1, <1>2, <1>4 DEF SpanAgrees
<1>6. EventAgrees'
  <2>1. \A b \in Attempts : AnswerOf(b)' = AnswerOf(b)
    BY <1>1 DEF AnswerOf
  <2> QED BY <1>1, <1>2, <1>4, <2>1 DEF EventAgrees
<1> QED BY <1>3, <1>5, <1>6 DEF Outcomes

LEMMA InitOutcomes == Init => Outcomes
<1> SUFFICES ASSUME Init PROVE Outcomes OBVIOUS
<1>1. AnswersAgree BY DEF Init, AnswersAgree, Bare
<1>2. SpanAgrees BY DEF Init, SpanAgrees, Ended
<1>3. \A a \in Attempts : attempt[a].event = "none"
  BY InitNotBegun
<1>4. EventAgrees BY <1>3 DEF EventAgrees
<1> QED BY <1>1, <1>2, <1>4 DEF Outcomes

LEMMA NextKeepsOutcomes ==
  ASSUME TypeOK, Calls, Outcomes, [Next]_vars
  PROVE  Outcomes'
<1>1. CASE Close \/ UNCHANGED vars
  <2>1. UNCHANGED <<attempt, wrap, handler>> BY <1>1 DEF Close, vars
  <2> QED BY <2>1 DEF Outcomes, AnswersAgree, SpanAgrees, EventAgrees, AnswerOf
<1> QED BY <1>1, NextIs, StartJobKeepsOutcomes, WithinWrappersKeepsOutcomes,
           ProceedsKeepsOutcomes, ContinuesKeepsOutcomes

\* What the wrappers answer, what the handler's span says and what the event
\* says is how the handler ended.
THEOREM OutcomesHold == Spec => []Outcomes
BY InitOutcomes, NextKeepsOutcomes, CallsHold, PTL DEF Spec

\* The span that QueueCraftActiveTracing opens around a handler is over before
\* the job's event if it was entered before the handler ended, and a span that
\* is over, before or after the event, agrees with it.
THEOREM HandlerSpanAgreesHolds == Spec => []HandlerSpanAgrees
<1>1. TypeOK /\ Outcomes => HandlerSpanAgrees
  <2> SUFFICES ASSUME TypeOK, Outcomes, NEW a \in Attempts,
                      attempt[a].event # "none"
               PROVE  /\ handler[a].span # "open"
                      /\ handler[a].span = "completed" =>
                           attempt[a].event # "failed"
                      /\ handler[a].span = "failed" =>
                           attempt[a].event \in {"failed", "cancelled"}
                      /\ handler[a].span = "cancelled" =>
                           attempt[a].abort # "no"
    BY DEF HandlerSpanAgrees
  <2>1. attempt[a].event \in Events BY DEF TypeOK, Attempt
  <2> QED BY <2>1
       DEF Outcomes, SpanAgrees, EventAgrees, Events, Ended, AnswerOf, Layers
<1> QED BY <1>1, OutcomesHold, TypeCorrect, PTL

-----------------------------------------------------------------------------
(* Blame                                                                   *)

\* Who is blamed erred, and not with the error that the operation ended with;
\* the outer layer has answered only what the inner one has.
BlamedErred ==
  \A a \in Attempts, l \in Layers :
    LET w == wrap[a][l] IN
    w.blamed => /\ w.answer # "none" /\ w.wrapper \in {"threw", "rejected"}
                /\ w.error # "none"
                /\ ~(w.error = "handlers" /\ w.answer = "failed")

InnerFirst ==
  \A a \in Wrapped :
    wrap[a][1].answer # "none" => wrap[a][2].answer # "none"

Blame == BlamedErred /\ InnerFirst

LEMMA AnswerIsOutcome ==
  ASSUME Outcomes, InnerFirst, ObservedAssumption,
         NEW a \in Attempts, NEW l \in Layers, wrap[a][l].answer # "none"
  PROVE  Outcome(a, l) = wrap[a][l].answer
BY DEF Outcomes, AnswersAgree, InnerFirst, Outcome, Layers

LEMMA ContinuesKeepsBlame ==
  ASSUME TypeOK, Calls, Outcomes, Blame, NEW a \in Attempts, NEW l \in Layers,
         Continues(a, l)
  PROVE  Blame'
<1> DEFINE w == wrap[a][l]
           v == wrap'[a][l]
<1>1. /\ GoesOn(a, l, v)
      /\ \A b \in Attempts, k \in Layers :
           b # a \/ k # l => wrap'[b][k] = wrap[b][k]
      /\ w \in Layer /\ wrap \in [Attempts -> [Layers -> Layer]]
  BY ContinuesChanges DEF TypeOK
<1>2. BlamedErred /\ InnerFirst
  BY DEF Blame
<1>3. v.blamed => /\ v.answer # "none" /\ v.wrapper \in {"threw", "rejected"}
                  /\ v.error # "none"
                  /\ ~(v.error = "handlers" /\ v.answer = "failed")
  <2>0. w.blamed => /\ w.answer # "none" /\ w.wrapper \in {"threw", "rejected"}
                    /\ w.error # "none"
                    /\ ~(w.error = "handlers" /\ w.answer = "failed")
    BY <1>2 DEF BlamedErred
  <2>1. CASE LateCall(a, l)
    BY <2>0, <2>1 DEF LateCall, CallAgain
  <2>2. CASE Rejects(a, l)
    <3>1. PICK error \in {"foreign", "handlers"} :
            SetLayer(a, l, [w EXCEPT !.wrapper = "rejected", !.error = error])
      BY <2>2 DEF Rejects, WrapperRejects
    <3>2. v = [w EXCEPT !.wrapper = "rejected", !.error = error]
      BY <3>1, <1>1 DEF SetLayer
    <3>3. v.blamed = w.blamed /\ w.wrapper = "pending"
      BY <3>2, <2>2, <1>1 DEF Layer, Rejects, WrapperRejects
    <3> QED BY <3>3, <2>0
  <2>3. CASE Answers(a, l)
    <3>1. v = [w EXCEPT !.answer = Outcome(a, l),
                        !.blamed = (w.wrapper = "threw" /\ ToBlame(a, l))]
      BY <2>3, <1>1 DEF Answers, Answer, SetLayer
    <3>2. /\ v.answer = Outcome(a, l) /\ v.wrapper = w.wrapper
          /\ v.error = w.error
          /\ v.blamed = (w.wrapper = "threw" /\ ToBlame(a, l))
      BY <3>1, <1>1 DEF Layer
    <3>3. Outcome(a, l) \in Ended
      BY <2>3 DEF Answers, Answer, OperationEnded
    <3> QED BY <3>2, <3>3 DEF ToBlame, OwnError, Ended
  <2>4. CASE Reports(a, l)
    <3>1. v = [w EXCEPT !.blamed = TRUE]
      BY <2>4, <1>1 DEF Reports, ReportRejection, SetLayer
    <3>2. /\ v.answer = w.answer /\ v.wrapper = w.wrapper /\ v.error = w.error
      BY <3>1, <1>1 DEF Layer
    <3>3. /\ w.wrapper = "rejected" /\ w.answer # "none" /\ ToBlame(a, l)
      BY <2>4 DEF Reports, ReportRejection
    <3>4. Outcome(a, l) = w.answer
      BY <3>3, <1>2, ObservedAssumption, AnswerIsOutcome
    <3> QED BY <3>2, <3>3, <3>4 DEF ToBlame, OwnError
  <2> QED BY <2>1, <2>2, <2>3, <2>4 DEF Continues
<1>4. BlamedErred'
  <2> SUFFICES ASSUME NEW b \in Attempts, NEW k \in Layers
               PROVE  LET u == wrap'[b][k] IN
                      u.blamed => /\ u.answer # "none"
                                  /\ u.wrapper \in {"threw", "rejected"}
                                  /\ u.error # "none"
                                  /\ ~(u.error = "handlers"
                                         /\ u.answer = "failed")
    BY DEF BlamedErred
  <2>1. CASE b = a /\ k = l
    BY <2>1, <1>3
  <2>2. CASE b # a \/ k # l
    BY <2>2, <1>1, <1>2 DEF BlamedErred
  <2> QED BY <2>1, <2>2
<1>5. InnerFirst'
  <2>1. w.answer # "none" => v.answer # "none"
    BY <1>1 DEF GoesOn, Ended
  <2>2. \A b \in Wrapped : b \in Attempts
    BY ObservedAssumption
  <2>3. a \in Wrapped /\ l = 1 /\ v.answer # w.answer => wrap[a][2].answer # "none"
    BY <1>1 DEF GoesOn, Outcome, Ended
  <2> QED BY <2>1, <2>2, <2>3, <1>1, <1>2 DEF InnerFirst, Layers
<1> QED BY <1>4, <1>5 DEF Blame

\* A wrapper that begins has not been blamed, and its layer has not answered.
LEMMA StartJobKeepsBlame ==
  ASSUME TypeOK, Calls, Blame, NEW a \in Attempts, NEW k \in Keys,
         StartJob(a, k)
  PROVE  Blame'
<1>1. /\ \A b \in Attempts \ {a} : wrap'[b] = wrap[b]
      /\ \A l \in Layers : wrap'[a][l].answer = "none"
      /\ wrap'[a][2] = wrap[a][2] /\ wrap[a] = [l \in Layers |-> Bare]
      /\ a \notin Wrapped => wrap' = wrap
  BY StartJobChanges
<1>2. \A l \in Layers : wrap'[a][l].blamed = FALSE
  <2>1. \A l \in Layers : wrap[a][l].blamed = FALSE
    BY <1>1 DEF Bare
  <2>2. CASE a \in Wrapped
    <3>1. Enter(a, 1)
      BY <2>2 DEF StartJob, RunWithTraceContext
    <3>2. wrap'[a][1].blamed = FALSE
      BY <3>1, EnterBlamesNobody DEF TypeOK, Layers
    <3> QED BY <3>2, <2>1, <1>1 DEF Layers
  <2> QED BY <2>1, <2>2, <1>1
<1>3. BlamedErred'
  BY <1>1, <1>2 DEF Blame, BlamedErred
<1>4. InnerFirst'
  BY <1>1, ObservedAssumption DEF Blame, InnerFirst, Layers
<1> QED BY <1>3, <1>4 DEF Blame

LEMMA WithinWrappersKeepsBlame ==
  ASSUME TypeOK, Calls, Outcomes, Blame, NEW a \in Attempts, WithinWrappers(a)
  PROVE  Blame'
<1>1. /\ \A b \in Attempts : wrap'[b][1] = wrap[b][1]
      /\ \A b \in Attempts \ {a} : wrap'[b] = wrap[b]
      /\ \/ wrap'[a] = wrap[a]
         \/ handler[a].state = "none"
  BY WithinWrappersChanges
<1>2. wrap'[a][2].blamed => wrap'[a][2] = wrap[a][2]
  <2>1. CASE RunInstrumentedJob(a)
    <3>1. wrap'[a][2].blamed = FALSE
      BY <2>1, EnterBlamesNobody DEF RunInstrumentedJob, TypeOK, Layers
    <3> QED BY <3>1
  <2>2. CASE StartActiveSpan(a)
    <3>1. wrap'[a][2] = [Bare EXCEPT !.calls = 1, !.wrapper = "pending"]
      BY <2>2 DEF StartActiveSpan, SetLayer, TypeOK, Layers
    <3> QED BY <3>1 DEF Bare
  <2>3. CASE HandlerStarts(a) \/ EnterLate(a) \/ HandlerEnds(a) \/ SpanEnds(a)
    BY <2>3 DEF HandlerStarts, EnterLate, CallAgain, HandlerEnds, SpanEnds
  <2> QED BY <2>1, <2>2, <2>3 DEF WithinWrappers, Scheduled
<1>3. \A b \in Attempts, l \in Layers :
        wrap'[b][l].blamed => wrap'[b][l] = wrap[b][l]
  BY <1>1, <1>2 DEF Layers
<1>4. BlamedErred'
  BY <1>3 DEF Blame, BlamedErred
<1>5. handler[a].state = "none" => wrap[a][1].answer = "none"
  BY DEF Outcomes, AnswersAgree, Layers, Ended
<1>6. InnerFirst'
  BY <1>1, <1>5, ObservedAssumption DEF Blame, InnerFirst
<1> QED BY <1>4, <1>6 DEF Blame

LEMMA NextKeepsBlame ==
  ASSUME TypeOK, Calls, Outcomes, Blame, [Next]_vars
  PROVE  Blame'
<1>1. CASE (\E a \in Attempts : Proceeds(a)) \/ Close \/ UNCHANGED vars
  <2>1. UNCHANGED wrap
    BY <1>1, ProceedsChanges DEF Close, vars
  <2> QED BY <2>1 DEF Blame, BlamedErred, InnerFirst
<1> QED BY <1>1, NextIs, StartJobKeepsBlame, WithinWrappersKeepsBlame,
           ContinuesKeepsBlame

LEMMA InitBlame == Init => Blame
BY ObservedAssumption
DEF Init, Blame, BlamedErred, InnerFirst, Bare, Layers

\* The safety half of BlameIsFair: an error is reported to the instrumentation's
\* or the propagation's error callback only if the wrapper made it itself, and
\* did not just pass on what the handler threw.
BlameIsDeserved ==
  \A a \in Attempts, l \in Layers :
    wrap[a][l].blamed => wrap[a][l].error # "none" /\ ~OwnError(a, l)

\* An error that a wrapper passes on from the handler is never reported as its
\* own, by instrumentation.ts or trace-context.ts.
THEOREM BlameIsDeservedHolds == Spec => []BlameIsDeserved
<1>1. Outcomes /\ Blame => BlameIsDeserved
  <2> SUFFICES ASSUME Outcomes, Blame, NEW a \in Attempts, NEW l \in Layers,
                      wrap[a][l].blamed
               PROVE  wrap[a][l].error # "none" /\ ~OwnError(a, l)
    BY DEF BlameIsDeserved
  <2>1. /\ wrap[a][l].answer # "none" /\ wrap[a][l].error # "none"
        /\ ~(wrap[a][l].error = "handlers" /\ wrap[a][l].answer = "failed")
    BY DEF Blame, BlamedErred
  <2>2. Outcome(a, l) = wrap[a][l].answer
    BY <2>1, ObservedAssumption, AnswerIsOutcome DEF Blame
  <2> QED BY <2>1, <2>2 DEF OwnError
<1>2. Spec => []Blame
  BY InitBlame, NextKeepsBlame, CallsHold, OutcomesHold, PTL DEF Spec
<1> QED BY <1>1, <1>2, OutcomesHold, PTL
-----------------------------------------------------------------------------
(* One job                                                                 *)

LEMMA StartJobIsACall ==
  ASSUME TypeOK, Calls, NEW a \in Attempts, NEW k \in Keys, StartJob(a, k)
  PROVE  Job!Call(a)
<1>1. /\ NotBegun(a) /\ ~NotBegun(a)'
      /\ \A b \in Attempts \ {a} : /\ attempt'[b] = attempt[b]
                                 /\ handler'[b] = handler[b]
                                 /\ wrap'[b] = wrap[b]
      /\ handler[a].runs = 0
      /\ \/ handler'[a] = handler[a]
         \/ handler'[a].runs = 1 /\ handler'[a].state = "running"
      /\ wrap'[a][1].answer = "none" /\ wrap[a][1].answer = "none"
  <2>1. /\ NotBegun(a) /\ attempt'[a].state = "running"
        /\ \A b \in Attempts \ {a} : /\ attempt'[b] = attempt[b]
                                   /\ handler'[b] = handler[b]
                                   /\ wrap'[b] = wrap[b]
        /\ handler[a] = [runs |-> 0, state |-> "none", span |-> "none"]
        /\ a \in Wrapped => handler'[a] = handler[a]
        /\ a \notin Wrapped => /\ handler'[a].runs = 1
                               /\ handler'[a].state = "running"
        /\ wrap[a] = [l \in Layers |-> Bare]
        /\ \A l \in Layers : wrap'[a][l].answer = "none"
    BY StartJobChanges
  <2>2. ~NotBegun(a)' BY <2>1 DEF NotBegun
  <2>3. handler[a].runs = 0 BY <2>1
  <2>4. wrap[a][1].answer = "none" /\ wrap'[a][1].answer = "none"
    BY <2>1 DEF Bare, Layers
  <2>5. \/ handler'[a] = handler[a]
        \/ handler'[a].runs = 1 /\ handler'[a].state = "running"
    <3>1. CASE a \in Wrapped BY <2>1, <3>1
    <3>2. CASE a \notin Wrapped BY <2>1, <3>2
    <3> QED BY <3>1, <3>2
  <2>6. \A b \in Attempts \ {a} : /\ attempt'[b] = attempt[b]
                                 /\ handler'[b] = handler[b]
                                 /\ wrap'[b] = wrap[b]
    BY <2>1
  <2>7. NotBegun(a) BY <2>1
  <2> QED BY <2>2, <2>3, <2>4, <2>5, <2>6, <2>7, Zenon
<1>2. a \notin CalledJobs /\ CalledJobs' = CalledJobs \cup {a}
  BY <1>1 DEF CalledJobs, NotBegun
<1>3. CASE handler'[a] = handler[a]
  <2>1. \A b \in Attempts : handler'[b] = handler[b] BY <1>1, <1>3
  <2> QED BY <1>1, <1>2, <2>1 DEF Job!Call, AnswerOf
<1>4. CASE handler'[a].runs = 1 /\ handler'[a].state = "running"
  <2>1. [b \in Attempts |-> handler'[b].runs]
          = [[b \in Attempts |-> handler[b].runs] EXCEPT ![a] = 1]
    BY <1>1, <1>4
  <2>2. [b \in Attempts |-> handler'[b].state]
          = [[b \in Attempts |-> handler[b].state] EXCEPT ![a] = "running"]
    BY <1>1, <1>4
  <2>3. [b \in Attempts |-> wrap'[b][1].answer]
          = [b \in Attempts |-> wrap[b][1].answer]
    BY <1>1
  <2> QED BY <1>1, <1>2, <2>1, <2>2, <2>3 DEF Job!Call, Job!Running, AnswerOf
<1> QED BY <1>1, <1>3, <1>4

LEMMA WithinWrappersIsAJobs ==
  ASSUME TypeOK, Calls, NEW a \in Attempts, WithinWrappers(a)
  PROVE  Job!Start(a) \/ Job!End(a) \/ UNCHANGED Job!job
<1> DEFINE h == handler[a]
           n == handler'[a]
<1>0. h \in Handler BY DEF TypeOK
<1>1. /\ \A b \in Attempts \ {a} :
           handler'[b] = handler[b] /\ wrap'[b] = wrap[b]
      /\ ~NotBegun(a) /\ UNCHANGED attempt /\ wrap'[a][1] = wrap[a][1]
      /\ n.runs = IF n.state = "none" THEN 0 ELSE 1
      /\ h.runs = IF h.state = "none" THEN 0 ELSE 1
  BY WithinWrappersChanges DEF Calls, RunsOnce
<1>2. /\ UNCHANGED CalledJobs /\ a \in CalledJobs
      /\ [b \in Attempts |-> AnswerOf(b)]' = [b \in Attempts |-> AnswerOf(b)]
  BY <1>1 DEF CalledJobs, NotBegun, AnswerOf
<1>3. /\ [b \in Attempts |-> handler'[b].state] =
           [[b \in Attempts |-> handler[b].state] EXCEPT ![a] = n.state]
      /\ [b \in Attempts |-> handler'[b].runs] =
           [[b \in Attempts |-> handler[b].runs] EXCEPT ![a] = n.runs]
  BY <1>1
<1>4. CASE n.state = h.state
  <2>1. n.runs = h.runs BY <1>1, <1>4
  <2> QED BY <1>2, <1>3, <1>4, <2>1 DEF Job!job
<1>5. CASE HandlerStarts(a)
  <2>1. h.state = "none" /\ n.state = "running"
    BY <1>0, <1>5 DEF HandlerStarts, Handler, TypeOK
  <2>2. h.runs = 0 /\ n.runs = 1 BY <1>1, <2>1
  <2> QED BY <1>2, <1>3, <2>1, <2>2 DEF Job!Start, Job!Running
<1>6. CASE HandlerEnds(a)
  <2>1. h.state = "running" /\ n.state \in Ended
    BY <1>0, <1>6 DEF HandlerEnds, Handler, TypeOK
  <2>2. h.runs = 1 /\ n.runs = 1 BY <1>1, <2>1 DEF Ended
  <2>3. [b \in Attempts |-> handler'[b].runs] =
          [b \in Attempts |-> handler[b].runs]
    BY <1>1, <2>2
  <2> QED BY <1>2, <1>3, <2>1, <2>3 DEF Job!End, Job!Ended, Ended
<1>7. CASE RunInstrumentedJob(a) BY <1>4, <1>7 DEF RunInstrumentedJob
<1>8. CASE StartActiveSpan(a) \/ EnterLate(a)
  <2>1. PICK s : handler' = [handler EXCEPT ![a] = [h EXCEPT !.span = s]]
    BY <1>8 DEF StartActiveSpan, EnterLate
  <2>2. n.state = h.state BY <1>0, <2>1 DEF Handler, TypeOK
  <2> QED BY <1>4, <2>2
<1>9. CASE SpanEnds(a)
  BY <1>0, <1>4, <1>9 DEF SpanEnds, Handler, TypeOK
<1> QED BY <1>5, <1>6, <1>7, <1>8, <1>9 DEF WithinWrappers, Scheduled

LEMMA ContinuesIsAJobs ==
  ASSUME TypeOK, Calls, Outcomes, NEW a \in Attempts, NEW l \in Layers,
         Continues(a, l)
  PROVE  Job!Answer(a) \/ UNCHANGED Job!job
<1>1. /\ UNCHANGED <<attempt, handler>>
      /\ GoesOn(a, l, wrap'[a][l])
      /\ \A b \in Attempts, k \in Layers :
           b # a \/ k # l => wrap'[b][k] = wrap[b][k]
  BY ContinuesChanges
<1>2. UNCHANGED CalledJobs BY <1>1 DEF CalledJobs
<1>3. [b \in Attempts |-> wrap'[b][1].answer] =
        [[b \in Attempts |-> wrap[b][1].answer]
           EXCEPT ![a] = wrap'[a][1].answer]
  <2>1. \A b \in Attempts \ {a} : wrap'[b][1] = wrap[b][1]
    BY <1>1 DEF Layers
  <2> QED BY <2>1
<1>4. CASE wrap'[a][1].answer = wrap[a][1].answer
  BY <1>1, <1>2, <1>3, <1>4 DEF Job!job, AnswerOf
<1>5. CASE wrap'[a][1].answer # wrap[a][1].answer
  <2>1. l = 1 BY <1>1, <1>5 DEF Layers
  <2>2. wrap'[a][1].answer = Outcome(a, 1) /\ Outcome(a, 1) \in Ended
    BY <1>1, <1>5, <2>1 DEF GoesOn
  <2>3. AnswersAgree BY DEF Outcomes
  <2>4. Outcome(a, 1) = handler[a].state
    BY <2>2, <2>3 DEF Outcome, AnswersAgree, Layers, Ended
  <2>5. wrap[a][1].answer = "none"
    BY <1>5, <2>2, <2>3, <2>4 DEF AnswersAgree, Layers
  <2> QED BY <1>1, <1>2, <1>3, <2>2, <2>4, <2>5
       DEF Job!Answer, Job!Ended, Ended, AnswerOf
<1> QED BY <1>4, <1>5

LEMMA StepIsAJobs ==
  ASSUME TypeOK, Calls, Outcomes, [Next]_vars
  PROVE  [Job!Next]_(Job!job)
<1>1. CASE Close \/ UNCHANGED vars
  <2>1. UNCHANGED <<attempt, wrap, handler>> BY <1>1 DEF Close, vars
  <2> QED BY <2>1 DEF CalledJobs, AnswerOf, Job!job
<1>2. ASSUME NEW a \in Attempts, Proceeds(a) PROVE UNCHANGED Job!job
  <2>1. /\ \A b \in Attempts \ {a} : attempt'[b] = attempt[b]
        /\ ~NotBegun(a) /\ ~NotBegun(a)' /\ UNCHANGED <<wrap, handler>>
    BY <1>2, ProceedsChanges DEF NotBegun
  <2>2. UNCHANGED CalledJobs BY <2>1 DEF CalledJobs, NotBegun
  <2> QED BY <2>1, <2>2 DEF AnswerOf, Job!job
<1> QED BY <1>1, <1>2, NextIs, StartJobIsACall, WithinWrappersIsAJobs,
           ContinuesIsAJobs DEF Job!Next

\* Every job has its handler called once and is answered with its outcome,
\* whatever the wrappers do: this is what ImplementsBareJob says but for
\* liveness.
THEOREM JobIsSafe == Spec => Job!Safe
<1>1. Init => Job!Init
  <2> SUFFICES ASSUME Init PROVE Job!Init OBVIOUS
  <2>1. CalledJobs = {} BY InitNotBegun DEF CalledJobs, NotBegun
  <2> QED BY <2>1 DEF Init, AnswerOf, Bare, Layers, Job!Init
<1> QED BY <1>1, StepIsAJobs, CallsHold, OutcomesHold, PTL DEF Spec, Job!Safe
-----------------------------------------------------------------------------
(* Spans                                                                   *)

\* What is said of spans depends on how far attempts are, and on the observer.
SameStage(a) ==
  /\ attempt'[a].key = attempt[a].key
  /\ Live(a)' <=> Live(a)
  /\ NotBegun(a)' <=> NotBegun(a)
  /\ attempt'[a].state = "over" <=> attempt[a].state = "over"

LEMMA SameStagesKeepSpans ==
  ASSUME Index, SpansAreOwn, \A a \in Attempts : SameStage(a),
         UNCHANGED <<spans, overlapped>>, TypeOK, Begun
  PROVE  Index' /\ SpansAreOwn'
<1> USE DEF SameStage, Index, SpansAreOwn
<1>0. UNCHANGED span /\ UNCHANGED active /\ UNCHANGED observer
      /\ UNCHANGED overlapped
  BY DEF spans
<1>1. Unobserved' BY <1>0 DEF Unobserved
<1>2. ActiveIsBegun'
  BY <1>0 DEF ActiveIsBegun, TypeOK
<1>3. EndedUnderAFailure' BY <1>0 DEF EndedUnderAFailure, TypeOK
<1>4. ClosedIsEmpty' BY <1>0 DEF ClosedIsEmpty
<1>5. OneAtATime' BY <1>0 DEF OneAtATime
<1>6. ActiveIsLive' BY <1>0 DEF ActiveIsLive, TypeOK
<1>7. LiveIsActive' BY <1>0 DEF LiveIsActive
<1>8. OpenIsActive' BY <1>0 DEF OpenIsActive
<1>9. EndedOnce' BY <1>0 DEF EndedOnce, TypeOK
<1>10. EndedByItsOwn' BY <1>0 DEF EndedByItsOwn
<1>11. NoneLeftOpen' BY <1>0 DEF NoneLeftOpen
<1> QED BY <1>1, <1>2, <1>3, <1>4, <1>5, <1>6, <1>7, <1>8, <1>9, <1>10, <1>11

LEMMA FinishedAt ==
  ASSUME TypeOK, NEW s, NEW state, NEW by, NEW a \in Attempts
  PROVE  /\ a # s => Finished(s, state, by)[a] = span[a]
         /\ a = s => /\ Finished(s, state, by)[a].state = state
                     /\ Finished(s, state, by)[a].by = by
BY DEF Finished, TypeOK

\* What the start of an attempt finds and leaves.
LEMMA StartJobObserves ==
  ASSUME TypeOK, Calls, Index, NEW a \in Attempts, NEW k \in Keys,
         StartJob(a, k)
  PROVE  /\ NotBegun(a) /\ ~NotBegun(a)' /\ Live(a)' /\ attempt'[a].key = k
         /\ attempt'[a].state = "running"
         /\ \A b \in Attempts \ {a} : attempt'[b] = attempt[b]
         /\ \A b \in Attempts \ {a} : SameStage(b)
         /\ overlapped \subseteq overlapped'
         /\ k \notin overlapped' =>
              \A b \in Attempts : attempt[b].key = k => ~Live(b)
         /\ \A c \in Keys : active[c] # a
         /\ span[a].state = "none" /\ active[k] # a
<1>1. /\ NotBegun(a) /\ attempt'[a].state = "running" /\ attempt'[a].key = k
      /\ \A b \in Attempts \ {a} : attempt'[b] = attempt[b]
  BY StartJobChanges
<1>2. ~NotBegun(a)' /\ Live(a)' BY <1>1 DEF NotBegun, Live
<1>3. \A b \in Attempts \ {a} : SameStage(b)
  BY <1>1 DEF SameStage, Live, NotBegun
<1>4. overlapped' = IF \E b \in Attempts : Live(b) /\ attempt[b].key = k
                    THEN overlapped \cup {k} ELSE overlapped
  BY DEF StartJob
<1>5. span[a].state = "none" BY <1>1 DEF Index, Unobserved
<1>6. \A c \in Keys : active[c] # a
  BY <1>5, ObservedAssumption DEF Index, ActiveIsBegun
<1> QED BY <1>1, <1>2, <1>3, <1>4, <1>5, <1>6

\* What both outcomes of startSpan, and a closed observer, have in common: the
\* spans of others than the new attempt and the one it supersedes stay.
LEMMA StartJobKeepsStages ==
  ASSUME TypeOK, Calls, Index, NEW a \in Attempts, NEW k \in Keys,
         StartJob(a, k)
  PROVE  OneAtATime'
<1>1. /\ \A b \in Attempts \ {a} : SameStage(b)
      /\ attempt'[a].key = k /\ overlapped \subseteq overlapped'
      /\ k \notin overlapped' =>
           \A b \in Attempts : attempt[b].key = k => ~Live(b)
  BY StartJobObserves
<1>2. OneAtATime BY DEF Index
<1> QED BY <1>1, <1>2 DEF OneAtATime, SameStage

LEMMA StartWhenClosedKeepsSpans ==
  ASSUME TypeOK, Calls, Index, SpansAreOwn, NEW a \in Attempts, NEW k \in Keys,
         StartJob(a, k), observer.closed
  PROVE  Index' /\ SpansAreOwn'
<1>0. /\ UNCHANGED span /\ UNCHANGED active /\ UNCHANGED observer
      /\ \A c \in Keys : active[c] = None
  BY DEF StartJob, ObserveStart, spans, Index, ClosedIsEmpty
<1>1. /\ ~NotBegun(a)' /\ Live(a)' /\ attempt'[a].key = k
      /\ attempt'[a].state = "running"
      /\ overlapped \subseteq overlapped' /\ span[a].state = "none"
      /\ NotBegun(a)
  BY StartJobObserves
<1>2. \A b \in Attempts \ {a} : SameStage(b) BY StartJobObserves
<1>3. \A b \in Attempts : span[b].state # "open"
  BY <1>0, ObservedAssumption DEF SpansAreOwn, OpenIsActive
<1>4. a \notin observer.late \cup observer.again \cup observer.unseen
  BY <1>1 DEF Index, Unobserved
<1>5. Unobserved' BY <1>0, <1>1, <1>2 DEF Index, Unobserved, SameStage
<1>6. ActiveIsBegun' /\ EndedUnderAFailure' /\ ClosedIsEmpty' /\ ActiveIsLive'
  BY <1>0 DEF ActiveIsBegun, EndedUnderAFailure, ClosedIsEmpty, ActiveIsLive
<1>7. LiveIsActive' BY <1>0 DEF LiveIsActive
<1>8. OpenIsActive' BY <1>0, <1>3 DEF OpenIsActive
<1>9. EndedOnce'
  BY <1>0, <1>2, <1>4 DEF SpansAreOwn, EndedOnce, SameStage, TypeOK
<1>10. EndedByItsOwn'
  BY <1>0, <1>1, <1>2, <1>3, <1>4
     DEF SpansAreOwn, EndedByItsOwn, SameStage
<1>11. NoneLeftOpen' BY <1>0 DEF NoneLeftOpen
<1> QED BY <1>5, <1>6, <1>7, <1>8, <1>9, <1>10, <1>11, StartJobKeepsStages
     DEF Index, SpansAreOwn

\* When a span is superseded, whichever way it goes on.
LEMMA Supersedes ==
  ASSUME TypeOK, Calls, Index, SpansAreOwn, NEW a \in Attempts, NEW k \in Keys,
         StartJob(a, k), ~observer.closed,
         observer'.again = observer.again \cup EndedBefore({active[k]}),
         observer'.late = observer.late,
         observer'.unseen \in {observer.unseen, observer.unseen \cup {a}},
         \A b \in Attempts \ {a} :
           span'[b] = IF b = active[k]
                      THEN [state |-> "superseded", by |-> a] ELSE span[b],
         span'[a].state \in {"none", "open"}
  PROVE  /\ Unobserved' /\ EndedOnce' /\ EndedByItsOwn'
         /\ \A b \in Attempts \ {a} : span'[b].state = "open" =>
              /\ span[b].state = "open" /\ attempt[b].key # k
              /\ active[attempt[b].key] = b
<1>1. /\ NotBegun(a) /\ ~NotBegun(a)' /\ Live(a)' /\ attempt'[a].key = k
      /\ attempt'[a].state = "running"
      /\ overlapped \subseteq overlapped' /\ span[a].state = "none"
      /\ k \notin overlapped' =>
           \A b \in Attempts : attempt[b].key = k => ~Live(b)
      /\ active[k] # a
  BY StartJobObserves
<1>2. \A b \in Attempts \ {a} : SameStage(b) BY StartJobObserves
<1>3. a \notin observer.late \cup observer.again \cup observer.unseen
  BY <1>1 DEF Index, Unobserved
<1>4. active[k] # None => /\ active[k] \in Attempts /\ attempt[active[k]].key = k
                          /\ span[active[k]].state # "none"
  BY DEF TypeOK, Index, ActiveIsBegun
<1>5. Unobserved'
  <2> SUFFICES ASSUME NEW b \in Attempts, NotBegun(b)'
               PROVE  /\ span'[b].state = "none"
                      /\ b \notin observer'.unseen \cup observer'.late
                                    \cup observer'.again
    BY DEF Unobserved
  <2>1. b # a /\ NotBegun(b) BY <1>1, <1>2 DEF SameStage
  <2>2. /\ span[b].state = "none"
        /\ b \notin observer.unseen \cup observer.late \cup observer.again
    BY <2>1 DEF Index, Unobserved
  <2>3. b # active[k] BY <1>4, <2>2, ObservedAssumption
  <2> QED BY <2>1, <2>2, <2>3 DEF EndedBefore
<1>6. EndedOnce'
  <2> SUFFICES ASSUME NEW b \in observer'.again
               PROVE  \E c \in observer'.unseen :
                        attempt'[c].key = attempt'[b].key
    BY DEF EndedOnce
  <2>1. \E c \in observer.unseen : attempt[c].key = attempt[b].key
    <3>1. CASE b \in observer.again
      BY <3>1 DEF SpansAreOwn, EndedOnce
    <3>2. CASE b \in EndedBefore({active[k]})
      BY <1>4, <3>2 DEF EndedBefore, Index, EndedUnderAFailure
    <3> QED BY <3>1, <3>2
  <2>2. b \in Attempts \ {a} BY <1>1, <1>3, <1>4 DEF EndedBefore, TypeOK
  <2>3. \A c \in observer.unseen : c \in Attempts \ {a} BY <1>3 DEF TypeOK
  <2> QED BY <1>2, <2>1, <2>2, <2>3 DEF SameStage
<1>7. EndedByItsOwn'
  <2> SUFFICES ASSUME NEW b \in Attempts, attempt'[b].key \notin overlapped'
               PROVE  /\ span'[b].state \in {"superseded", "finished"} =>
                           span'[b].by = b
                      /\ b \in observer'.late => b \in observer'.unseen
                      /\ attempt'[b].state = "over" => span'[b].state # "open"
    BY DEF EndedByItsOwn
  <2>1. CASE b = a BY <1>1, <1>3, <2>1
  <2>2. CASE b # a
    <3>1. b # active[k]
      <4> SUFFICES ASSUME b = active[k] PROVE FALSE OBVIOUS
      <4>1. active[k] # None /\ attempt[b].key = k
        BY <1>4, ObservedAssumption
      <4>2. k \notin overlapped' /\ k \notin overlapped
        BY <1>1, <1>2, <2>2, <4>1 DEF SameStage
      <4>3. Live(b) BY <4>1, <4>2 DEF Index, ActiveIsLive
      <4> QED BY <1>1, <4>1, <4>2, <4>3
    <3>2. span'[b] = span[b] BY <2>2, <3>1
    <3>3. /\ attempt[b].key \notin overlapped
          /\ attempt'[b].state = "over" => attempt[b].state = "over"
      BY <1>1, <1>2, <2>2 DEF SameStage
    <3> QED BY <3>2, <3>3 DEF SpansAreOwn, EndedByItsOwn
  <2> QED BY <2>1, <2>2
<1>8. ASSUME NEW b \in Attempts \ {a}, span'[b].state = "open"
      PROVE  /\ span[b].state = "open" /\ attempt[b].key # k
             /\ active[attempt[b].key] = b
  <2>1. b # active[k] /\ span[b].state = "open" BY <1>8
  <2> QED BY <2>1 DEF SpansAreOwn, OpenIsActive
<1> QED BY <1>5, <1>6, <1>7, <1>8

\* startSpan returns a span.
LEMMA StartOpensKeepsSpans ==
  ASSUME TypeOK, Calls, Index, SpansAreOwn, NEW a \in Attempts, NEW k \in Keys,
         StartJob(a, k), ~observer.closed,
         span' = [Finished(active[k], "superseded", a)
                    EXCEPT ![a].state = "open"],
         active' = [active EXCEPT ![k] = a],
         observer' = [observer EXCEPT
           !.again = observer.again \cup EndedBefore({active[k]})]
  PROVE  Index' /\ SpansAreOwn'
<1>0. /\ observer'.again = observer.again \cup EndedBefore({active[k]})
      /\ observer'.late = observer.late /\ observer'.unseen = observer.unseen
      /\ observer'.closed = FALSE
  BY DEF TypeOK
<1>1. /\ ~NotBegun(a)' /\ Live(a)' /\ attempt'[a].key = k
      /\ overlapped \subseteq overlapped' /\ span[a].state = "none"
      /\ k \notin overlapped' =>
           \A b \in Attempts : attempt[b].key = k => ~Live(b)
      /\ \A c \in Keys : active[c] # a
  BY StartJobObserves
<1>2. \A b \in Attempts \ {a} : SameStage(b) BY StartJobObserves
<1>3. /\ \A b \in Attempts \ {a} :
           span'[b] = IF b = active[k]
                      THEN [state |-> "superseded", by |-> a] ELSE span[b]
      /\ span'[a].state = "open"
  BY DEF Finished, TypeOK, Span
<1>4. /\ active'[k] = a /\ \A c \in Keys \ {k} : active'[c] = active[c]
  BY DEF TypeOK
<1>5. /\ Unobserved' /\ EndedOnce' /\ EndedByItsOwn'
      /\ \A b \in Attempts \ {a} : span'[b].state = "open" =>
           /\ span[b].state = "open" /\ attempt[b].key # k
           /\ active[attempt[b].key] = b
  BY <1>0, <1>3, Supersedes
<1>6. \A c \in Keys \ {k} :
        active[c] # None => /\ active[c] \in Attempts \ {a}
                            /\ attempt[active[c]].key = c
                            /\ span[active[c]].state # "none"
                            /\ span'[active[c]] = span[active[c]]
  <2> SUFFICES ASSUME NEW c \in Keys \ {k}, active[c] # None
               PROVE  /\ active[c] \in Attempts \ {a}
                      /\ attempt[active[c]].key = c
                      /\ span[active[c]].state # "none"
                      /\ span'[active[c]] = span[active[c]]
    OBVIOUS
  <2>1. /\ active[c] \in Attempts \ {a} /\ attempt[active[c]].key = c
        /\ span[active[c]].state # "none"
    BY <1>1 DEF TypeOK, Index, ActiveIsBegun
  <2>2. active[c] # active[k]
    BY <2>1, ObservedAssumption DEF TypeOK, Index, ActiveIsBegun
  <2> QED BY <1>3, <2>1, <2>2
<1>7. ActiveIsBegun'
  BY <1>1, <1>2, <1>3, <1>4, <1>6 DEF ActiveIsBegun, SameStage
<1>8. EndedUnderAFailure'
  <2> SUFFICES ASSUME NEW c \in Keys, active'[c] # None,
                      span'[active'[c]].state # "open"
               PROVE  \E b \in observer.unseen : attempt'[b].key = c
    BY <1>0 DEF EndedUnderAFailure
  <2>1. c # k /\ active[c] # None /\ span[active[c]].state # "open"
    BY <1>3, <1>4, <1>6
  <2>2. PICK b \in observer.unseen : attempt[b].key = c
    BY <2>1 DEF Index, EndedUnderAFailure
  <2>3. b \in Attempts \ {a}
    BY StartJobObserves DEF TypeOK, Index, Unobserved
  <2> QED BY <1>2, <2>2, <2>3 DEF SameStage
<1>9. ClosedIsEmpty' BY <1>0 DEF ClosedIsEmpty
<1>10. ActiveIsLive'
  BY <1>1, <1>2, <1>4, <1>6 DEF Index, ActiveIsLive, SameStage
<1>11. LiveIsActive'
  <2> SUFFICES ASSUME NEW b \in Attempts, Live(b)',
                      attempt'[b].key \notin overlapped', b \notin observer.unseen
               PROVE  active'[attempt'[b].key] = b
    BY <1>0 DEF LiveIsActive
  <2>1. CASE b = a BY <1>1, <1>4, <2>1
  <2>2. CASE b # a
    <3>1. Live(b) /\ attempt'[b].key = attempt[b].key
      BY <1>2, <2>2 DEF SameStage
    <3>2. attempt[b].key # k /\ attempt[b].key \notin overlapped
      BY <1>1, <3>1
    <3>3. active[attempt[b].key] = b
      BY <3>1, <3>2 DEF Index, LiveIsActive
    <3>4. attempt[b].key \in Keys BY <3>1 DEF Calls, Begun, Live, NotBegun
    <3> QED BY <1>4, <3>1, <3>2, <3>3, <3>4
  <2> QED BY <2>1, <2>2
<1>12. OpenIsActive'
  <2> SUFFICES ASSUME NEW b \in Attempts, span'[b].state = "open"
               PROVE  active'[attempt'[b].key] = b
    BY <1>0 DEF OpenIsActive
  <2>1. CASE b = a BY <1>1, <1>4, <2>1
  <2>2. CASE b # a
    <3>1. /\ span[b].state = "open" /\ attempt[b].key # k
          /\ active[attempt[b].key] = b /\ attempt'[b].key = attempt[b].key
      BY <1>2, <1>5, <2>2 DEF SameStage
    <3>2. attempt[b].key \in Keys
      BY <3>1 DEF Index, Unobserved, Calls, Begun
    <3> QED BY <1>4, <3>1, <3>2
  <2> QED BY <2>1, <2>2
<1>13. NoneLeftOpen'
  <2> SUFFICES ASSUME NEW c \in Keys,
                      \A b \in Attempts : attempt'[b].key = c => ~Live(b)'
               PROVE  active'[c] = None
    BY DEF NoneLeftOpen
  <2>1. c # k BY <1>1
  <2>2. \A b \in Attempts : attempt[b].key = c => ~Live(b)
    BY <1>2, StartJobObserves DEF SameStage, Live, NotBegun
  <2> QED BY <1>4, <2>1, <2>2 DEF SpansAreOwn, NoneLeftOpen
<1> QED BY <1>5, <1>7, <1>8, <1>9, <1>10, <1>11, <1>12, <1>13,
           StartJobKeepsStages DEF Index, SpansAreOwn

\* startSpan throws: the superseded span stays in the map.
LEMMA StartFailsKeepsSpans ==
  ASSUME TypeOK, Calls, Index, SpansAreOwn, NEW a \in Attempts, NEW k \in Keys,
         StartJob(a, k), ~observer.closed,
         span' = Finished(active[k], "superseded", a),
         UNCHANGED active,
         observer' = [observer EXCEPT
           !.again = observer.again \cup EndedBefore({active[k]}),
           !.unseen = observer.unseen \cup {a}]
  PROVE  Index' /\ SpansAreOwn'
<1>0. /\ observer'.again = observer.again \cup EndedBefore({active[k]})
      /\ observer'.late = observer.late
      /\ observer'.unseen = observer.unseen \cup {a}
      /\ observer'.closed = FALSE
  BY DEF TypeOK
<1>1. /\ ~NotBegun(a)' /\ Live(a)' /\ attempt'[a].key = k
      /\ overlapped \subseteq overlapped' /\ span[a].state = "none"
      /\ k \notin overlapped' =>
           \A b \in Attempts : attempt[b].key = k => ~Live(b)
      /\ \A c \in Keys : active[c] # a
      /\ active[k] # a
  BY StartJobObserves
<1>2. \A b \in Attempts \ {a} : SameStage(b) BY StartJobObserves
<1>3. /\ \A b \in Attempts \ {a} :
           span'[b] = IF b = active[k]
                      THEN [state |-> "superseded", by |-> a] ELSE span[b]
      /\ span'[a].state = "none"
  BY <1>1 DEF Finished
<1>4. /\ Unobserved' /\ EndedOnce' /\ EndedByItsOwn'
      /\ \A b \in Attempts \ {a} : span'[b].state = "open" =>
           /\ span[b].state = "open" /\ attempt[b].key # k
           /\ active[attempt[b].key] = b
  BY <1>0, <1>3, Supersedes
<1>5. \A c \in Keys :
        active[c] # None => /\ active[c] \in Attempts \ {a}
                            /\ attempt[active[c]].key = c
                            /\ span[active[c]].state # "none"
  BY <1>1 DEF TypeOK, Index, ActiveIsBegun
<1>6. \A c \in Keys \ {k} :
        active[c] # None => span'[active[c]] = span[active[c]]
  <2> SUFFICES ASSUME NEW c \in Keys \ {k}, active[c] # None
               PROVE  active[c] # active[k]
    BY <1>3, <1>5
  <2> QED BY <1>5
<1>7. ActiveIsBegun'
  <2> SUFFICES ASSUME NEW c \in Keys, active[c] # None
               PROVE  /\ attempt'[active[c]].key = c
                      /\ span'[active[c]].state # "none"
    BY DEF ActiveIsBegun
  <2>1. attempt'[active[c]].key = c BY <1>2, <1>5 DEF SameStage
  <2>2. span'[active[c]].state # "none" BY <1>3, <1>5
  <2> QED BY <2>1, <2>2
<1>8. EndedUnderAFailure'
  <2> SUFFICES ASSUME NEW c \in Keys, active[c] # None,
                      span'[active[c]].state # "open"
               PROVE  \E b \in observer'.unseen : attempt'[b].key = c
    BY DEF EndedUnderAFailure
  <2>1. CASE c = k BY <1>0, <1>1, <2>1
  <2>2. CASE c # k
    <3>1. PICK b \in observer.unseen : attempt[b].key = c
      BY <1>6, <2>2 DEF Index, EndedUnderAFailure
    <3>2. b \in Attempts \ {a}
      BY StartJobObserves DEF TypeOK, Index, Unobserved
    <3> QED BY <1>0, <1>2, <3>1, <3>2 DEF SameStage
  <2> QED BY <2>1, <2>2
<1>9. ClosedIsEmpty' BY <1>0 DEF ClosedIsEmpty
<1>10. ActiveIsLive'
  <2> SUFFICES ASSUME NEW c \in Keys, c \notin overlapped', active[c] # None
               PROVE  Live(active[c])'
    BY DEF ActiveIsLive
  <2>1. Live(active[c]) BY <1>1 DEF Index, ActiveIsLive
  <2> QED BY <1>2, <1>5, <2>1 DEF SameStage
<1>11. LiveIsActive'
  <2> SUFFICES ASSUME NEW b \in Attempts, Live(b)',
                      attempt'[b].key \notin overlapped',
                      b \notin observer'.unseen
               PROVE  active[attempt'[b].key] = b
    BY DEF LiveIsActive
  <2>1. b # a /\ b \notin observer.unseen BY <1>0
  <2>2. Live(b) /\ attempt'[b].key = attempt[b].key
    BY <1>2, <2>1 DEF SameStage
  <2> QED BY <1>1, <2>1, <2>2 DEF Index, LiveIsActive
<1>12. OpenIsActive'
  BY <1>0, <1>2, <1>3, <1>4 DEF OpenIsActive, SameStage
<1>13. NoneLeftOpen'
  <2> SUFFICES ASSUME NEW c \in Keys,
                      \A b \in Attempts : attempt'[b].key = c => ~Live(b)'
               PROVE  active[c] = None
    BY DEF NoneLeftOpen
  <2>1. \A b \in Attempts : attempt[b].key = c => ~Live(b)
    BY <1>2, StartJobObserves DEF SameStage, Live, NotBegun
  <2> QED BY <2>1 DEF SpansAreOwn, NoneLeftOpen
<1> QED BY <1>4, <1>7, <1>8, <1>9, <1>10, <1>11, <1>12, <1>13,
           StartJobKeepsStages DEF Index, SpansAreOwn

LEMMA StartJobKeepsSpans ==
  ASSUME TypeOK, Calls, Index, SpansAreOwn, NEW a \in Attempts, NEW k \in Keys,
         StartJob(a, k)
  PROVE  Index' /\ SpansAreOwn'
<1>1. ObserveStart(a, k) BY DEF StartJob
<1> QED BY <1>1, StartWhenClosedKeepsSpans, StartOpensKeepsSpans,
           StartFailsKeepsSpans DEF ObserveStart

\* The end of an attempt, as far as it does not depend on what is active.
LEMMA ReportEndObserves ==
  ASSUME TypeOK, Calls, NEW a \in Attempts, ReportEnd(a)
  PROVE  /\ attempt[a].key \in Keys /\ Live(a) /\ ~Live(a)'
         /\ ~NotBegun(a) /\ ~NotBegun(a)'
         /\ attempt'[a].key = attempt[a].key
         /\ \A b \in Attempts \ {a} : SameStage(b)
         /\ \A b \in Attempts : attempt'[b].key = attempt[b].key
         /\ UNCHANGED overlapped
<1>1. attempt' = [attempt EXCEPT ![a] = [attempt[a] EXCEPT !.state = "over"]]
      /\ attempt[a].state = "ending" /\ UNCHANGED overlapped
  BY DEF ReportEnd
<1>2. attempt[a] \in Attempt BY DEF TypeOK
<1>3. attempt'[a].state = "over" /\ attempt'[a].key = attempt[a].key
  BY <1>1, <1>2 DEF TypeOK, Attempt
<1>4. \A b \in Attempts \ {a} : attempt'[b] = attempt[b]
  BY <1>1 DEF TypeOK
<1>5. attempt[a].key \in Keys BY <1>1 DEF Calls, Begun, NotBegun
<1> QED BY <1>1, <1>3, <1>4, <1>5 DEF Live, NotBegun, SameStage

\* An end that finds the observer closed, or no active span.
LEMMA EndWithoutSpanKeepsSpans ==
  ASSUME TypeOK, Calls, Index, SpansAreOwn, NEW a \in Attempts, ReportEnd(a),
         UNCHANGED span, UNCHANGED active,
         active[attempt[a].key] = None,
         observer'.unseen = observer.unseen, observer'.again = observer.again,
         observer'.closed = observer.closed,
         \/ observer'.late = observer.late
         \/ observer'.late = observer.late \cup {a} /\ ~observer.closed
  PROVE  Index' /\ SpansAreOwn'
<1>1. /\ Live(a) /\ ~Live(a)' /\ ~NotBegun(a) /\ ~NotBegun(a)'
      /\ attempt[a].key \in Keys /\ UNCHANGED overlapped
  BY ReportEndObserves
<1>2. /\ \A b \in Attempts \ {a} : SameStage(b)
      /\ \A b \in Attempts : attempt'[b].key = attempt[b].key
  BY ReportEndObserves
<1>3. Unobserved' BY <1>1, <1>2 DEF Index, Unobserved, SameStage
<1>4. ActiveIsBegun' BY <1>2 DEF Index, ActiveIsBegun, TypeOK
<1>5. EndedUnderAFailure' BY <1>2 DEF Index, EndedUnderAFailure, TypeOK
<1>6. ClosedIsEmpty' BY DEF Index, ClosedIsEmpty
<1>7. OneAtATime'
  BY <1>1, <1>2 DEF Index, OneAtATime, SameStage
<1>8. ActiveIsLive'
  <2> SUFFICES ASSUME NEW c \in Keys, c \notin overlapped, active[c] # None
               PROVE  Live(active[c])'
    BY <1>1 DEF ActiveIsLive
  <2>1. /\ active[c] \in Attempts /\ attempt[active[c]].key = c
        /\ Live(active[c])
    BY DEF TypeOK, Index, ActiveIsBegun, ActiveIsLive
  <2>2. active[c] # a BY <2>1
  <2> QED BY <1>2, <2>1, <2>2 DEF SameStage
<1>9. LiveIsActive'
  BY <1>1, <1>2 DEF Index, LiveIsActive, SameStage
<1>10. OpenIsActive' BY <1>2 DEF SpansAreOwn, OpenIsActive
<1>11. EndedOnce' BY <1>2 DEF SpansAreOwn, EndedOnce, TypeOK
<1>12. EndedByItsOwn'
  <2> SUFFICES ASSUME NEW b \in Attempts, attempt[b].key \notin overlapped
               PROVE  /\ span[b].state \in {"superseded", "finished"} =>
                           span[b].by = b
                      /\ b \in observer'.late => b \in observer.unseen
                      /\ attempt'[b].state = "over" => span[b].state # "open"
    BY <1>1, <1>2 DEF EndedByItsOwn
  <2>1. /\ span[b].state \in {"superseded", "finished"} => span[b].by = b
        /\ b \in observer.late => b \in observer.unseen
        /\ attempt[b].state = "over" => span[b].state # "open"
    BY DEF SpansAreOwn, EndedByItsOwn
  <2>2. CASE b # a BY <1>2, <2>1, <2>2 DEF SameStage
  <2>3. CASE b = a
    <3>1. span[a].state # "open"
      BY ObservedAssumption DEF SpansAreOwn, OpenIsActive
    <3>2. ~observer.closed => a \in observer.unseen
      BY <1>1, <2>3, ObservedAssumption DEF Index, LiveIsActive
    <3> QED BY <2>1, <2>3, <3>1, <3>2
  <2> QED BY <2>2, <2>3
<1>13. NoneLeftOpen'
  <2> SUFFICES ASSUME NEW c \in Keys, active[c] # None
               PROVE  \E b \in Attempts : attempt'[b].key = c /\ Live(b)'
    BY DEF NoneLeftOpen
  <2>1. PICK b \in Attempts : attempt[b].key = c /\ Live(b)
    BY DEF SpansAreOwn, NoneLeftOpen
  <2>2. b # a BY <2>1
  <2> QED BY <1>2, <2>1, <2>2 DEF SameStage
<1> QED BY <1>3, <1>4, <1>5, <1>6, <1>7, <1>8, <1>9, <1>10, <1>11, <1>12, <1>13
     DEF Index, SpansAreOwn

\* An end that finds an active span, which is its own if attempts of the key
\* do not overlap.
LEMMA EndWithSpanKeepsSpans ==
  ASSUME TypeOK, Calls, Index, SpansAreOwn, NEW a \in Attempts, ReportEnd(a),
         NEW s \in Attempts, s = active[attempt[a].key], ~observer.closed,
         span' = Finished(s, "finished", a),
         active' = Deleted(attempt[a].key),
         observer' = [observer EXCEPT
           !.again = observer.again \cup EndedBefore({s})]
  PROVE  Index' /\ SpansAreOwn'
<1> DEFINE k == attempt[a].key
<1>0. /\ observer'.again = observer.again \cup EndedBefore({s})
      /\ observer'.unseen = observer.unseen /\ observer'.late = observer.late
      /\ observer'.closed = FALSE
  BY DEF TypeOK
<1>1. /\ Live(a) /\ ~Live(a)' /\ ~NotBegun(a) /\ ~NotBegun(a)'
      /\ k \in Keys /\ UNCHANGED overlapped
  BY ReportEndObserves
<1>2. /\ \A b \in Attempts \ {a} : SameStage(b)
      /\ \A b \in Attempts : attempt'[b].key = attempt[b].key
  BY ReportEndObserves
<1>3. /\ active'[k] = None /\ \A c \in Keys \ {k} : active'[c] = active[c]
  BY <1>1 DEF Deleted, TypeOK
<1>4. /\ \A b \in Attempts \ {s} : span'[b] = span[b]
      /\ span'[s].state = "finished" /\ span'[s].by = a
  BY FinishedAt
<1>5. attempt[s].key = k /\ span[s].state # "none" /\ active[k] = s
  BY <1>1, ObservedAssumption DEF Index, ActiveIsBegun
<1>6. \A c \in Keys \ {k} :
        active[c] # None => /\ active[c] \in Attempts \ {a, s}
                            /\ attempt[active[c]].key = c
  BY <1>5 DEF TypeOK, Index, ActiveIsBegun
<1>7. Unobserved'
  BY <1>0, <1>1, <1>2, <1>4, <1>5
     DEF Index, Unobserved, SameStage, EndedBefore
<1>8. ActiveIsBegun' BY <1>2, <1>3, <1>4, <1>6 DEF Index, ActiveIsBegun
<1>9. EndedUnderAFailure'
  <2> SUFFICES ASSUME NEW c \in Keys, active'[c] # None,
                      span'[active'[c]].state # "open"
               PROVE  \E b \in observer.unseen : attempt'[b].key = c
    BY <1>0 DEF EndedUnderAFailure
  <2>1. active[c] # None /\ span[active[c]].state # "open"
    BY <1>3, <1>4, <1>6
  <2> QED BY <1>2, <2>1 DEF Index, EndedUnderAFailure, TypeOK
<1>10. ClosedIsEmpty' BY <1>0 DEF ClosedIsEmpty
<1>11. OneAtATime' BY <1>1, <1>2 DEF Index, OneAtATime, SameStage
<1>12. ActiveIsLive'
  BY <1>1, <1>2, <1>3, <1>6 DEF Index, ActiveIsLive, SameStage
<1>13. k \notin overlapped => s = a
  BY <1>1, <1>5, ObservedAssumption DEF Index, ActiveIsLive, OneAtATime
<1>14. LiveIsActive'
  <2> SUFFICES ASSUME NEW b \in Attempts, Live(b)',
                      attempt[b].key \notin overlapped, b \notin observer.unseen
               PROVE  active'[attempt[b].key] = b
    BY <1>0, <1>1, <1>2 DEF LiveIsActive
  <2>1. b # a /\ Live(b) BY <1>1, <1>2 DEF SameStage
  <2>2. active[attempt[b].key] = b BY <2>1 DEF Index, LiveIsActive
  <2>3. attempt[b].key # k BY <1>1, <2>1 DEF Index, OneAtATime
  <2>4. attempt[b].key \in Keys BY <2>1 DEF Calls, Begun, Live, NotBegun
  <2> QED BY <1>3, <2>2, <2>3, <2>4
<1>15. OpenIsActive'
  <2> SUFFICES ASSUME NEW b \in Attempts, span'[b].state = "open"
               PROVE  active'[attempt[b].key] = b
    BY <1>0, <1>2 DEF OpenIsActive
  <2>1. b # s /\ span[b].state = "open" BY <1>4
  <2>2. active[attempt[b].key] = b BY <2>1 DEF SpansAreOwn, OpenIsActive
  <2>3. attempt[b].key \in Keys
    BY <2>1 DEF Index, Unobserved, Calls, Begun
  <2> QED BY <1>3, <1>5, <2>1, <2>2, <2>3
<1>16. EndedOnce'
  <2> SUFFICES ASSUME NEW b \in observer'.again
               PROVE  \E c \in observer.unseen : attempt[c].key = attempt[b].key
    BY <1>0, <1>2 DEF EndedOnce, TypeOK, EndedBefore
  <2>1. CASE b \in observer.again BY <2>1 DEF SpansAreOwn, EndedOnce
  <2>2. CASE b \in EndedBefore({s})
    BY <1>1, <1>5, <2>2, ObservedAssumption
       DEF EndedBefore, Index, EndedUnderAFailure
  <2> QED BY <1>0, <2>1, <2>2
<1>17. EndedByItsOwn'
  <2> SUFFICES ASSUME NEW b \in Attempts, attempt[b].key \notin overlapped
               PROVE  /\ span'[b].state \in {"superseded", "finished"} =>
                           span'[b].by = b
                      /\ b \in observer.late => b \in observer.unseen
                      /\ attempt'[b].state = "over" => span'[b].state # "open"
    BY <1>0, <1>1, <1>2 DEF EndedByItsOwn
  <2>1. /\ span[b].state \in {"superseded", "finished"} => span[b].by = b
        /\ b \in observer.late => b \in observer.unseen
        /\ attempt[b].state = "over" => span[b].state # "open"
    BY DEF SpansAreOwn, EndedByItsOwn
  <2>2. CASE b = s BY <1>4, <1>5, <1>13, <2>1, <2>2
  <2>3. CASE b # s /\ b # a BY <1>2, <1>4, <2>1, <2>3 DEF SameStage
  <2>4. CASE b # s /\ b = a BY <1>13, <2>4
  <2> QED BY <2>2, <2>3, <2>4
<1>18. NoneLeftOpen'
  <2> SUFFICES ASSUME NEW c \in Keys, active'[c] # None
               PROVE  \E b \in Attempts : attempt'[b].key = c /\ Live(b)'
    BY DEF NoneLeftOpen
  <2>1. c # k /\ active[c] # None BY <1>3
  <2>2. PICK b \in Attempts : attempt[b].key = c /\ Live(b)
    BY <2>1 DEF SpansAreOwn, NoneLeftOpen
  <2>3. b # a BY <2>1, <2>2
  <2> QED BY <1>2, <2>2, <2>3 DEF SameStage
<1> QED BY <1>7, <1>8, <1>9, <1>10, <1>11, <1>12, <1>14, <1>15, <1>16, <1>17,
           <1>18 DEF Index, SpansAreOwn

LEMMA ReportEndKeepsSpans ==
  ASSUME TypeOK, Calls, Index, SpansAreOwn, NEW a \in Attempts, ReportEnd(a)
  PROVE  Index' /\ SpansAreOwn'
<1>1. ObserveEnd(a, attempt[a].key) /\ attempt[a].key \in Keys
  BY ReportEndObserves DEF ReportEnd
<1>2. CASE observer.closed /\ UNCHANGED spans
  <2>1. active[attempt[a].key] = None BY <1>1, <1>2 DEF Index, ClosedIsEmpty
  <2> QED BY <1>2, <2>1, EndWithoutSpanKeepsSpans DEF spans
<1>3. CASE /\ ~observer.closed /\ active[attempt[a].key] # None
           /\ span' = Finished(active[attempt[a].key], "finished", a)
           /\ active' = Deleted(attempt[a].key)
           /\ observer' = [observer EXCEPT !.again = observer.again
                            \cup EndedBefore({active[attempt[a].key]})]
  <2>1. active[attempt[a].key] \in Attempts BY <1>1, <1>3 DEF TypeOK
  <2> QED BY <1>3, <2>1, EndWithSpanKeepsSpans
<1>4. CASE /\ ~observer.closed /\ active[attempt[a].key] = None
           /\ UNCHANGED span /\ UNCHANGED active
           /\ \/ UNCHANGED observer
              \/ observer' = [observer EXCEPT !.late = observer.late \cup {a}]
  <2>1. /\ observer'.unseen = observer.unseen
        /\ observer'.again = observer.again
        /\ observer'.closed = observer.closed
        /\ \/ observer'.late = observer.late
           \/ observer'.late = observer.late \cup {a} /\ ~observer.closed
    BY <1>4 DEF TypeOK
  <2> QED BY <1>4, <2>1, EndWithoutSpanKeepsSpans
<1> QED BY <1>1, <1>2, <1>3, <1>4 DEF ObserveEnd

\* Closing ends every span that is open.
LEMMA CloseKeepsSpans ==
  ASSUME TypeOK, Calls, Index, SpansAreOwn, Close
  PROVE  Index' /\ SpansAreOwn'
<1> DEFINE S == {active[k] : k \in Keys}
<1>0. /\ observer'.again = observer.again \cup EndedBefore(S)
      /\ observer'.unseen = observer.unseen /\ observer'.late = observer.late
      /\ observer'.closed = TRUE
      /\ \A k \in Keys : active'[k] = None
      /\ \A b \in Attempts :
           span'[b] = IF b \in S THEN [state |-> "closed", by |-> None]
                      ELSE span[b]
      /\ UNCHANGED attempt /\ UNCHANGED overlapped
  BY DEF Close, TypeOK
<1>1. \A b \in S \ {None} : /\ b \in Attempts /\ attempt[b].key \in Keys
                            /\ active[attempt[b].key] = b
                            /\ span[b].state # "none"
  BY DEF TypeOK, Index, ActiveIsBegun
<1>2. Unobserved'
  <2> SUFFICES ASSUME NEW b \in Attempts, NotBegun(b)
               PROVE  /\ span'[b].state = "none"
                      /\ b \notin observer'.unseen \cup observer'.late
                                    \cup observer'.again
    BY <1>0 DEF Unobserved, NotBegun
  <2>1. /\ span[b].state = "none"
        /\ b \notin observer.unseen \cup observer.late \cup observer.again
    BY DEF Index, Unobserved
  <2>2. b \notin S BY <1>1, <2>1, ObservedAssumption
  <2> QED BY <1>0, <2>1, <2>2 DEF EndedBefore
<1>3. ActiveIsBegun' /\ EndedUnderAFailure' /\ ClosedIsEmpty' /\ ActiveIsLive'
  BY <1>0 DEF ActiveIsBegun, EndedUnderAFailure, ClosedIsEmpty, ActiveIsLive
<1>4. OneAtATime' BY <1>0 DEF Index, OneAtATime, Live
<1>5. LiveIsActive' BY <1>0 DEF LiveIsActive
<1>6. OpenIsActive'
  <2> SUFFICES ASSUME NEW b \in Attempts, span'[b].state = "open" PROVE FALSE
    BY DEF OpenIsActive
  <2>1. b \notin S /\ span[b].state = "open" BY <1>0
  <2>2. active[attempt[b].key] = b BY <2>1 DEF SpansAreOwn, OpenIsActive
  <2>3. attempt[b].key \in Keys BY <2>1 DEF Index, Unobserved, Calls, Begun
  <2> QED BY <2>1, <2>2, <2>3
<1>7. EndedOnce'
  <2> SUFFICES ASSUME NEW b \in observer'.again
               PROVE  \E c \in observer.unseen : attempt[c].key = attempt[b].key
    BY <1>0 DEF EndedOnce
  <2>1. CASE b \in observer.again BY <2>1 DEF SpansAreOwn, EndedOnce
  <2>2. CASE b \in EndedBefore(S)
    BY <1>1, <2>2, ObservedAssumption
       DEF EndedBefore, Index, EndedUnderAFailure
  <2> QED BY <1>0, <2>1, <2>2
<1>8. EndedByItsOwn' BY <1>0 DEF SpansAreOwn, EndedByItsOwn
<1>9. NoneLeftOpen' BY <1>0 DEF NoneLeftOpen
<1> QED BY <1>2, <1>3, <1>4, <1>5, <1>6, <1>7, <1>8, <1>9
     DEF Index, SpansAreOwn

\* No other step touches a span, or the stage of an attempt that matters.
LEMMA NextKeepsSpans ==
  ASSUME TypeOK, Calls, Index, SpansAreOwn, [Next]_vars
  PROVE  Index' /\ SpansAreOwn'
<1>1. ASSUME UNCHANGED <<attempt, spans, overlapped>>
      PROVE  Index' /\ SpansAreOwn'
  BY <1>1, SameStagesKeepSpans DEF SameStage, Live, NotBegun, Calls
<1>2. ASSUME NEW a \in Attempts, WithinWrappers(a)
      PROVE  Index' /\ SpansAreOwn'
  BY <1>1, <1>2, WithinWrappersChanges
<1>3. ASSUME NEW a \in Attempts, NEW l \in Layers, Continues(a, l)
      PROVE  Index' /\ SpansAreOwn'
  BY <1>1, <1>3, ContinuesChanges
<1>4. ASSUME NEW a \in Attempts, Abort(a) \/ Settle(a)
      PROVE  Index' /\ SpansAreOwn'
  <2>1. /\ attempt[a].state = "running"
        /\ attempt'[a].state \in {"running", "ending"}
    <3>1. CASE Abort(a)
      <4>1. PICK abort : attempt' = [attempt EXCEPT ![a] =
                                       [attempt[a] EXCEPT !.abort = abort]]
        BY <3>1 DEF Abort
      <4> QED BY <3>1, <4>1 DEF TypeOK, Attempt, Abort
    <3>2. CASE Settle(a)
      <4>1. PICK event :
              attempt' = [attempt EXCEPT ![a] =
                [attempt[a] EXCEPT !.state = "ending", !.event = event]]
        BY <3>2 DEF Settle
      <4> QED BY <3>2, <4>1 DEF TypeOK, Attempt, Settle
    <3> QED BY <1>4, <3>1, <3>2
  <2>2. /\ attempt'[a].key = attempt[a].key
        /\ \A b \in Attempts \ {a} : attempt'[b] = attempt[b]
    BY <1>4, ProceedsChanges DEF Proceeds
  <2>3. \A b \in Attempts : SameStage(b)
    BY <2>1, <2>2 DEF SameStage, Live, NotBegun
  <2>4. UNCHANGED <<spans, overlapped>> BY <1>4 DEF Abort, Settle
  <2> QED BY <2>3, <2>4, SameStagesKeepSpans DEF Calls
<1>5. CASE UNCHANGED vars BY <1>1, <1>5 DEF vars
<1> QED BY <1>2, <1>3, <1>4, <1>5, NextIs, StartJobKeepsSpans,
           ReportEndKeepsSpans, CloseKeepsSpans DEF Proceeds

LEMMA InitSpans == Init => Index /\ SpansAreOwn
<1> SUFFICES ASSUME Init PROVE Index /\ SpansAreOwn OBVIOUS
<1>1. /\ \A a \in Attempts : span[a].state = "none"
      /\ \A k \in Keys : active[k] = None
      /\ observer = [closed |-> FALSE, unseen |-> {}, late |-> {}, again |-> {}]
  BY DEF Init
<1>2. \A a \in Attempts : NotBegun(a) /\ ~Live(a)
  BY InitNotBegun DEF NotBegun, Live
<1>3. Index
  BY <1>1, <1>2 DEF Index, Unobserved, ActiveIsBegun, EndedUnderAFailure,
     ClosedIsEmpty, OneAtATime, ActiveIsLive, LiveIsActive
<1>4. SpansAreOwn
  BY <1>1, <1>2 DEF SpansAreOwn, OpenIsActive, EndedOnce, EndedByItsOwn,
     NoneLeftOpen
<1> QED BY <1>3, <1>4

\* Job spans end once, unless a start failed over them, with the event of their
\* own attempt, unless attempts overlapped, and none is left open or behind.
THEOREM SpansAreOwnHolds == Spec => []SpansAreOwn
<1>1. Spec => [](Index /\ SpansAreOwn)
  BY InitSpans, NextKeepsSpans, CallsHold, PTL DEF Spec
<1> QED BY <1>1, PTL
=============================================================================
