------------------------------- MODULE Mailbox -------------------------------
(***************************************************************************)
(* What the durable queues promise, without workers, claims or retries:    *)
(* an accepted item stays until it is settled, it is settled as handled    *)
(* only after it was handled, it may be handled more than once, and it is  *)
(* settled in the end (docs/ARCHITECTURE.md: delivery is at least once).   *)
(***************************************************************************)
EXTENDS Naturals

CONSTANT Items

VARIABLES
  stage,          \* where each item is in its life
  count           \* how often each item was handled

vars == <<stage, count>>

Init ==
  /\ stage = [i \in Items |-> "absent"]
  /\ count = [i \in Items |-> 0]

Accept(i) ==
  /\ stage[i] = "absent"
  /\ stage' = [stage EXCEPT ![i] = "open"]
  /\ UNCHANGED count

\* A second copy of the work may still run when the item is settled.
Handle(i) ==
  /\ stage[i] # "absent"
  /\ count' = [count EXCEPT ![i] = @ + 1]
  /\ UNCHANGED stage

Settle(i) ==
  /\ stage[i] = "open" /\ count[i] > 0
  /\ stage' = [stage EXCEPT ![i] = "handled"]
  /\ UNCHANGED count

Bury(i) ==
  /\ stage[i] = "open"
  /\ stage' = [stage EXCEPT ![i] = "dead"]
  /\ UNCHANGED count

Next == \E i \in Items : Accept(i) \/ Handle(i) \/ Settle(i) \/ Bury(i)

Safety == Init /\ [][Next]_vars
Spec == Safety /\ \A i \in Items : WF_vars(Settle(i) \/ Bury(i))
=============================================================================
