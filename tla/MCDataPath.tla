----------------------------- MODULE MCDataPath -----------------------------
(* A coordinator and two devices of its table.                             *)
EXTENDS DataPath
CONSTANTS c, e1, e2

MCMessage(src, dst, ackReq, id) == [src |-> src, dst |-> dst, ackReq |-> ackReq, id |-> id]
MCBank == {0}
(* One device sends two messages to the other one, and waits for both      *)
(* answers, and two to the coordinator.                                    *)
MCMessages == { MCMessage(e1, e2, TRUE, 1), MCMessage(e1, e2, TRUE, 2),
                MCMessage(e1, c, FALSE, 3), MCMessage(e1, c, FALSE, 4) }

(* Nothing tells the messages of a pair apart: they are sent in the order  *)
(* of their numbers.                                                       *)
Alike(l, m) == l.src = m.src /\ l.dst = m.dst /\ l.ackReq = m.ackReq
MCNext ==
  \/ P2PTasks
  \/ \E m \in Message, h \in HasMemory :
       /\ \A l \in Message : Alike(l, m) /\ l.id < m.id => l \in sent
       /\ SendData(m, h)
MCFairSpec == Init /\ [][MCNext]_vars /\ WF_vars(P2PTasks)
=============================================================================
