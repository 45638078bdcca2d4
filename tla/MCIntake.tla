------------------------------ MODULE MCIntake ------------------------------
(* The instance TLC checks of Intake: a revision where several services can *)
(* be chosen, and one with a single choice and another required field.      *)
EXTENDS Intake, TLC

Field(key, required) == [key |-> key, required |-> required]

MCPack ==
  << [services |-> {"repair", "cleaning"}, multi_select |-> TRUE,
      fields |-> <<Field("address", TRUE), Field("floor", TRUE)>>],
     [services |-> {"repair"}, multi_select |-> FALSE,
      fields |-> <<Field("note", FALSE), Field("hours", TRUE)>>] >>

Symmetry == Permutations(Handlers)
=============================================================================
