--------------------------- MODULE MCLambdaBatch ---------------------------
(***************************************************************************)
(* Model values for LambdaBatch: all messages carry the same key.          *)
(***************************************************************************)
EXTENDS LambdaBatch, TLC

CONSTANT TheKey

OneKey == {TheKey}

SameKey == [m \in Messages |-> TheKey]

BatchSymmetry == Permutations(Invocations) \cup Permutations(Messages)
=============================================================================
