--------------------------- MODULE MCConfigurator ---------------------------
(* The instance TLC checks of Configurator; the label is in Cyrillic.       *)
EXTENDS Configurator, TLC

MCBase == [l \in Labels |-> Prefix]

Symmetry == Permutations(Channels)
=============================================================================
