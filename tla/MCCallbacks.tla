---------------------------- MODULE MCCallbacks ----------------------------
(* Small instances of Callbacks for TLC.                                   *)
EXTENDS Callbacks, TLC

Symmetry == Permutations(Executors) \cup Permutations(Tokens)
              \cup Permutations(Presses) \cup Permutations(Workers)
=============================================================================
