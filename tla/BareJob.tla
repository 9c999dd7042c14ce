------------------------------ MODULE BareJob ------------------------------
(***************************************************************************)
(* What a job is without any tracing around it: its handler is called      *)
(* once, ends as it likes, and the answer is how it ended.  The comments   *)
(* before runInstrumentedJob (src/src/instrumentation.ts) and              *)
(* runWithQueueCraftTraceContext (src/src/trace-context.ts) promise that   *)
(* no wrapper changes this, whatever it does; ObservedJobs implements it.  *)
(***************************************************************************)
EXTENDS Naturals

CONSTANT Attempts

VARIABLES called,   \* the jobs that were called
          runs,     \* how often each one's handler was
          state,    \* how its handler fares
          answer    \* what the caller got

job == <<called, runs, state, answer>>

Ended == {"completed", "failed"}

Init ==
  /\ called = {}
  /\ runs = [a \in Attempts |-> 0]
  /\ state = [a \in Attempts |-> "none"]
  /\ answer = [a \in Attempts |-> "none"]

Running(a) ==
  /\ runs' = [runs EXCEPT ![a] = 1]
  /\ state' = [state EXCEPT ![a] = "running"]

\* The handler starts at once, or later.
Call(a) ==
  /\ a \notin called /\ runs[a] = 0
  /\ called' = called \cup {a}
  /\ Running(a) \/ UNCHANGED <<runs, state>>
  /\ UNCHANGED answer

Start(a) ==
  /\ a \in called /\ runs[a] = 0
  /\ Running(a)
  /\ UNCHANGED <<called, answer>>

End(a) ==
  /\ state[a] = "running"
  /\ \E end \in Ended : state' = [state EXCEPT ![a] = end]
  /\ UNCHANGED <<called, runs, answer>>

Answer(a) ==
  /\ state[a] \in Ended /\ answer[a] = "none"
  /\ answer' = [answer EXCEPT ![a] = state[a]]
  /\ UNCHANGED <<called, runs, state>>

Next == \E a \in Attempts : Call(a) \/ Start(a) \/ End(a) \/ Answer(a)

Safe == Init /\ [][Next]_job

\* A call starts the handler, and its end is answered.
Spec ==
  /\ Safe
  /\ \A a \in Attempts : WF_job(Start(a)) /\ WF_job(Answer(a))
=============================================================================
