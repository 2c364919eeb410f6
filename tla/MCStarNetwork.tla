--------------------------- MODULE MCStarNetwork ---------------------------
(* Small instances of StarNetwork.                                         *)
EXTENDS StarMembership, TLC
CONSTANTS c1, c2, e1, e2

MCBank == {0, 1}
MCOneBank == {0}
MCOwnShort == [d \in Device |-> d]
MCEndDevices == Permutations({e1, e2})
============================================================================
