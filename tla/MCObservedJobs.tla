--------------------------- MODULE MCObservedJobs ---------------------------
(***************************************************************************)
(* Model values for ObservedJobs: either one job inside its wrappers, or   *)
(* two jobs without any that share an observer.                          *)
(***************************************************************************)
EXTENDS ObservedJobs

AloneOrTogether == {Wrapped, Attempts \ Wrapped}
=============================================================================
