----------------------------- MODULE MCDispatch -----------------------------
(* Small instances of Dispatch for TLC.                                    *)
EXTENDS Dispatch, TLC

Symmetry == Permutations(Orders) \cup Permutations(Executors)
              \cup Permutations(Sessions)
=============================================================================
