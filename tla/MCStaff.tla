------------------------------ MODULE MCStaff ------------------------------
(* The instance TLC checks of Staff. *)
EXTENDS Staff, TLC

MCRequestRole == [r \in {"request"} |-> "master"]

Symmetry == Permutations(Accounts) \cup Permutations(Workers) \cup Permutations(Codes)
=============================================================================
