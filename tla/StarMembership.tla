--------------------------- MODULE StarMembership ---------------------------
(***************************************************************************)
(* StarNetwork implements Membership, for an application that waits for    *)
(* each confirmation and answers that come in time.  A procedure is under  *)
(* way while its confirmation is owed: a device that learns meanwhile that *)
(* it was expelled is disconnected and still asking.                       *)
(***************************************************************************)
EXTENDS StarNetwork

Asking == {e \in EndDevice : est[e].callback}
Inside == {e \in EndDevice : state[e] = "IN_NETWORK_STATE"}
Before == {e \in EndDevice : est[e].backup = "IN_NETWORK_STATE"}
KnownDevices == {e \in EndDevice : Known(e)}

Abstract == INSTANCE Membership WITH
  Member <- EndDevice, asking <- Asking, inside <- Inside, before <- Before,
  accepted <- granted, known <- KnownDevices

(* Joining, as a coordinator and a device see it, is what Membership says. *)
MembershipSpec == Abstract!Spec
============================================================================
