---------------------------- MODULE MCPollerJobs ----------------------------
(***************************************************************************)
(* Model values for PollerJobs: every message carries the same key, as the *)
(* messages of a producer that published one job twice do.                 *)
(***************************************************************************)
EXTENDS PollerJobs, TLC

CONSTANT TheKey

OneKey == {TheKey}

SameKey == [m \in Messages |-> TheKey]

Queue(state, receives) == [state |-> state, receives |-> receives,
                           receipt |-> None]

Fresh == {[m \in Messages |-> Queue("visible", 0)]}

\* One new message, or all of them with one receive left.
OneOrLast ==
  {[n \in Messages |-> IF n = m THEN Queue("visible", 0) ELSE Queue("dead", 0)] :
     m \in Messages}
  \cup {[m \in Messages |-> Queue("visible", MaxReceiveCount - 1)]}

JobsSymmetry == Permutations(Tasks) \cup Permutations(Messages)
=============================================================================
