--------------------------- MODULE MCCoordinator ---------------------------
(* Three devices and two entries: a removal can leave a hole in front of a *)
(* valid entry, every slot can be handed from one device to another, and   *)
(* the table can be full when a new device asks.  The first device is      *)
(* built with MAKE_ENDDEVICE_PERMANENT, the others are alike.              *)
EXTENDS Coordinator, TLC

CONSTANTS d1, d2, d3

MCShort == [d \in Device |-> d]
MCOrdinary == Permutations(Device \ {d1})
============================================================================
