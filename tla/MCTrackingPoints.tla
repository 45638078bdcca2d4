-------------------------- MODULE MCTrackingPoints --------------------------
(* Small instances of TrackingPoints for TLC.                              *)
EXTENDS TrackingPoints, TLC

Symmetry == Permutations(Requests) \cup Permutations(Events)
=============================================================================
