--------------------------- MODULE MCDurableQueue ---------------------------
(* Small instances of DurableQueue for TLC.  No symmetry: the run checks    *)
(* liveness.                                                               *)
EXTENDS DurableQueue
=============================================================================
