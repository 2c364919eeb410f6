------------------------------- MODULE Radio -------------------------------
(***************************************************************************)
(* The way of a frame from one board to the others.  A board queues its    *)
(* frames, sends one at a time, hears later what became of it, and         *)
(* receives into a few banks between two frames of its own.  A frame may   *)
(* be lost, or reach a board without being acknowledged; it never reaches  *)
(* a board twice, PHY_Init turns the repetitions of the transceiver off.   *)
(***************************************************************************)
EXTENDS Naturals, Sequences

CONSTANTS
  Device,        (* The boards.                                            *)
  Bank,          (* The receive banks of a board, numbered from 0.         *)
  MemoryFails    (* Whether MiMem_Alloc may return NULL.                   *)

VARIABLES
  txq,        (* frameTxQueue of each board.                               *)
  sending,    (* The frame handed to the MAC and how its sending will end. *)
  rx          (* The receive banks of each board.                          *)

Broadcast == "broadcast"
NoFrame == [type |-> "NONE"]
Idle == [frame |-> NoFrame, status |-> "NONE"]

RadioTypeOK(Frame) ==
  /\ txq \in [Device -> Seq(Frame)]
  /\ sending \in [Device -> [frame : Frame, status : {"SUCCESS", "FAILURE"}] \union {Idle}]
  /\ rx \in [Device -> [Bank -> Frame \union {NoFrame}]]

RadioInit ==
  /\ txq = [n \in Device |-> <<>>]
  /\ sending = [n \in Device |-> Idle]
  /\ rx = [n \in Device |-> [b \in Bank |-> NoFrame]]

HasMemory == IF MemoryFails THEN BOOLEAN ELSE {TRUE}

(* frameTransmit with its buffer: nothing is queued without memory.        *)
Queue(n, frame, hasMemory) ==
  txq' = IF hasMemory THEN [txq EXCEPT ![n] = Append(txq[n], frame)] ELSE txq

Listening(n) == sending[n] = Idle /\ \E b \in Bank : rx[n][b] = NoFrame
FreeBank(n) == CHOOSE b \in Bank : rx[n][b] = NoFrame
                                   /\ \A a \in Bank : rx[n][a] = NoFrame => b <= a
Stored(n, f) == [rx[n] EXCEPT ![FreeBank(n)] = f]
Addressed(n, f) == f.dst = n \/ (f.dst = Broadcast /\ f.src # n)
Reach(n) == {m \in Device : m # n /\ Addressed(m, Head(txq[n])) /\ Listening(m)}

(* P2PTasks hands the next frame to the MAC and the radio sends it: some   *)
(* of the boards that are meant and can listen get it.  A frame that was   *)
(* sent may reach nobody, and one that was not acknowledged may have been  *)
(* received; a broadcast that fails was not sent.                          *)
Send(n, receivers, status) ==
  /\ sending[n] = Idle
  /\ txq[n] # <<>>
  /\ receivers \subseteq Reach(n)
  /\ status = "FAILURE" /\ Head(txq[n]).dst = Broadcast => receivers = {}
  /\ sending' = [sending EXCEPT ![n] = [frame |-> Head(txq[n]), status |-> status]]
  /\ txq' = [txq EXCEPT ![n] = Tail(txq[n])]
  /\ rx' = [m \in Device |-> IF m \in receivers THEN Stored(m, Head(txq[n])) ELSE rx[m]]

Transmit(n) ==
  /\ txq[n] # <<>>
  /\ \E R \in SUBSET Reach(n), s \in {"SUCCESS", "FAILURE"} : Send(n, R, s)

(* frameTxCallback, whatever the frame's own callback does.                *)
Sent(n) == sending' = [sending EXCEPT ![n] = Idle]

(* P2PTasks takes one frame per pass, from the lowest bank in use.         *)
Filled(n) == {b \in Bank : rx[n][b] # NoFrame}
FirstBank(n) == CHOOSE b \in Filled(n) : \A a \in Filled(n) : b <= a
Received(n) == rx[n][FirstBank(n)]

Receive(n, type) ==
  /\ Filled(n) # {}
  /\ Received(n).type = type
  /\ rx' = [rx EXCEPT ![n][FirstBank(n)] = NoFrame]

RadioOff(n) ==
  /\ txq' = [txq EXCEPT ![n] = <<>>]
  /\ sending' = [sending EXCEPT ![n] = Idle]
  /\ rx' = [rx EXCEPT ![n] = [b \in Bank |-> NoFrame]]
============================================================================
