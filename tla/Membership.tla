----------------------------- MODULE Membership -----------------------------
(***************************************************************************)
(* What joining a star promises, without frames, timers or tables: a       *)
(* device asks, a coordinator accepts it or not, and only a device that    *)
(* was accepted in the procedure it is asking in comes to be in the        *)
(* network.  A coordinator takes up nobody who does not ask; it may end a  *)
(* membership at any time, and the device learns of it later.              *)
(***************************************************************************)
CONSTANT Member    (* The devices that may join.                           *)

VARIABLES
  asking,    (* Devices with a connection procedure under way.             *)
  inside,    (* Devices that think they are in the network.                *)
  before,    (* Devices that thought so when they asked last.              *)
  accepted,  (* Devices accepted since they asked last.                    *)
  known      (* Devices a coordinator has in its table.                    *)

mvars == <<asking, inside, before, accepted, known>>

Init ==
  /\ asking = {} /\ inside = {} /\ before = {}
  /\ accepted = {} /\ known = {}

Ask(d) ==
  /\ d \notin asking
  /\ asking' = asking \union {d}
  /\ before' = IF d \in inside THEN before \union {d} ELSE before \ {d}
  /\ inside' = inside \ {d}
  /\ accepted' = accepted \ {d}
  /\ UNCHANGED known

Accept(d) ==
  /\ d \in asking
  /\ accepted' = accepted \union {d}
  /\ known' = known \union {d}
  /\ UNCHANGED <<asking, inside, before>>

Enter(d) ==
  /\ d \in asking /\ d \in accepted
  /\ asking' = asking \ {d}
  /\ inside' = inside \union {d}
  /\ UNCHANGED <<before, accepted, known>>

(* A procedure that fails restores what the device thought before.         *)
GiveUp(d) ==
  /\ d \in asking
  /\ asking' = asking \ {d}
  /\ inside' = IF d \in before THEN inside \union {d} ELSE inside \ {d}
  /\ UNCHANGED <<before, accepted, known>>

Expel(S) ==
  /\ S # {} /\ S \subseteq known
  /\ known' = known \ S
  /\ UNCHANGED <<asking, inside, before, accepted>>

Learn(d) ==
  /\ d \in inside
  /\ inside' = inside \ {d}
  /\ UNCHANGED <<asking, before, accepted, known>>

(* The device loses its power.                                             *)
Forget(d) ==
  /\ asking' = asking \ {d}
  /\ inside' = inside \ {d}
  /\ before' = before \ {d}
  /\ accepted' = accepted \ {d}
  /\ UNCHANGED known

Next ==
  \/ \E d \in Member : Ask(d) \/ Accept(d) \/ Enter(d) \/ GiveUp(d) \/ Learn(d) \/ Forget(d)
  \/ \E S \in SUBSET Member : Expel(S)

Spec == Init /\ [][Next]_mvars
============================================================================
