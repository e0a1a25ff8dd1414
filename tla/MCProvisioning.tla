--------------------------- MODULE MCProvisioning ---------------------------
(***************************************************************************)
(* Instances of Provisioning for TLC.  The lists of known networks cover   *)
(* a start-up without any, with one, and with a second one after a failure.*)
(***************************************************************************)
EXTENDS Provisioning, TLC

CONSTANTS n1, n2, c1, c2

OneNetwork    == {n1}
TwoNetworks   == {n1, n2}
OneConnector  == {c1}
TwoConnectors == {c1, c2}
ShortBoot     == {<<>>, <<n1>>}
LongBoot      == {<<>>, <<n1>>, <<n1, n2>>}

ConnectorSymmetry == Permutations(TwoConnectors)
=============================================================================
