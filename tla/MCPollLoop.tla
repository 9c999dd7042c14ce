----------------------------- MODULE MCPollLoop -----------------------------
(***************************************************************************)
(* Model values for PollLoop: the calls of stop() are interchangeable.     *)
(***************************************************************************)
EXTENDS PollLoop, TLC

StopSymmetry == Permutations(Stops)
=============================================================================
