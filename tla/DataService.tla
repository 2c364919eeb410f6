---------------------------- MODULE DataService ----------------------------
(***************************************************************************)
(* What MiApp_SendData gives its caller.  A message that was taken is      *)
(* confirmed at most once.  If one hop ends it, it is told how this very   *)
(* message was sent.  SUCCESS for a message whose sender waits for an      *)
(* answer rests on an addressee's acknowledgement of a message of the same *)
(* sender, not always this one, and no acknowledgement confirms two        *)
(* messages.                                                               *)
(***************************************************************************)
EXTENDS Naturals, Sequences

CONSTANTS
  Message, Status,
  Awaiting     (* The messages whose sender waits for an answer.           *)

VARIABLES
  sent,        (* The messages taken.                                      *)
  confirmed,   (* The confirmations of each message, in their order.       *)
  left,        (* The messages that one hop ended, with success.           *)
  relayed,     (* The senders of the relayed messages that their           *)
               (* addressees acknowledged, in order.                       *)
  used         (* The places in relayed that confirmed a message.          *)

svars == <<sent, confirmed, left, relayed, used>>

Init ==
  /\ sent = {} /\ left = {} /\ relayed = <<>> /\ used = {}
  /\ confirmed = [m \in Message |-> <<>>]

Take(m) ==
  /\ m \notin sent
  /\ sent' = sent \union {m}
  /\ UNCHANGED <<confirmed, left, relayed, used>>

(* The addressee acknowledges m.                                           *)
Deliver(m) ==
  /\ m \in sent
  /\ relayed' = Append(relayed, m.src)
  /\ UNCHANGED <<sent, confirmed, left, used>>

Confirm(m, status) ==
  /\ m \in sent /\ confirmed[m] = <<>>
  /\ confirmed' = [confirmed EXCEPT ![m] = <<status>>]

(* One hop ends it: it is told how it was sent.                            *)
Sent(m, status) ==
  /\ m \notin Awaiting
  /\ Confirm(m, status)
  /\ left' = IF status = "SUCCESS" THEN left \union {m} ELSE left
  /\ UNCHANGED <<sent, relayed, used>>

(* An answer came.                                                         *)
Answered(m, place) ==
  /\ m \in Awaiting
  /\ Confirm(m, "SUCCESS")
  /\ place \notin used /\ relayed[place] = m.src
  /\ used' = used \union {place}
  /\ UNCHANGED <<sent, left, relayed>>

(* No answer came in time, or the first hop failed; one call of the timer  *)
(* may give up several messages.                                           *)
GivenUp(M, status) ==
  /\ status # "SUCCESS"
  /\ \A m \in M : m \in sent /\ confirmed[m] = <<>>
  /\ confirmed' = [m \in Message |-> IF m \in M THEN <<status>> ELSE confirmed[m]]
  /\ UNCHANGED <<sent, left, relayed, used>>

Next ==
  \/ \E m \in Message :
       \/ Take(m) \/ Deliver(m)
       \/ \E s \in Status : Sent(m, s)
       \/ \E p \in DOMAIN relayed : Answered(m, p)
  \/ \E M \in SUBSET Awaiting, s \in Status : GivenUp(M, s)

Spec == Init /\ [][Next]_svars
============================================================================
