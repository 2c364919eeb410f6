-------------------------------- MODULE Mac --------------------------------
(***************************************************************************)
(* One board from frameTransmit down to the transceiver.  P2PTasks runs    *)
(* for ever: hand the next frame to the MAC, look at one received frame,   *)
(* let the PHY start a transmission and read the interrupt status, pass a  *)
(* confirmation up.  The transceiver goes on between any two of these      *)
(* steps; all that ties it to them is one interrupt flag, which is set     *)
(* both by a frame that arrived and by a transmission that ended and is    *)
(* cleared whenever it is read.                                            *)
(*                                                                         *)
(* Frames are numbered in the order they were queued or heard.  The        *)
(* longest unsecured frame has 121 bytes, the test for MAX_PSDU never      *)
(* holds.  The transceiver keeps a frame it received until it is read      *)
(* (RX_SAFE_MODE) and hears nothing meanwhile.                             *)
(***************************************************************************)
EXTENDS MiQueue, Sequences, FiniteSets

CONSTANTS
  Buffer,        (* The buffers frameTransmit may get for a TxFrame_t.     *)
  BankSize,      (* BANK_SIZE, the receive banks.                          *)
  QueuedMax,     (* Bound: frames the layers above queue.                  *)
  HeardMax       (* Bound: frames that arrive.                             *)

ASSUME MacAssumption ==
  /\ Null \notin Buffer /\ IsFiniteSet(Buffer)
  /\ BankSize \in Nat \ {0} /\ QueuedMax \in Nat /\ HeardMax \in Nat

VARIABLES
  pc,            (* The next step of P2PTasks.                             *)
  frameTxQueue, nextItem,  (* The frames to send, chained.                 *)
  content,       (* The frame in each buffer, 0 if the buffer is free.     *)
  pace,          (* sentFrame, txCallbackReceived, and whether             *)
                 (* transaction_duration_us is over.                       *)
  packet,        (* The MAC's one buffer, built by MiMAC_SendPacket.       *)
  phyTxQueue,    (* How many requests wait; each points to packet.         *)
  conf,          (* dataConfAvailable and dataStatus.                      *)
  phyState,
  radio,         (* The transceiver: mode, interrupt flag, the frame it    *)
                 (* sends, the frame it received, TRAC_STATUS.             *)
  RxBuffer,      (* The frame in each bank, 0 if PayloadLen is 0.          *)
  queued, heard, (* History: how many frames were queued, and arrived.     *)
  ended,         (* History: how the transceiver ended each frame.         *)
  told,          (* History: what frameTxCallback was told, in order.      *)
  seen,          (* History: the frames MiMAC_ReceivedPacket looked at.    *)
  overrun        (* History: arrived, and overwritten by a transmission.   *)

tx == <<frameTxQueue, nextItem, content, pace, queued>>
down == <<packet, phyTxQueue, conf>>
rx == <<RxBuffer, seen>>
chip == <<phyState, radio, heard, ended, overrun>>
vars == <<pc, tx, down, rx, chip, told>>

Frames == 1 .. QueuedMax
Arrivals == 1 .. HeardMax
Banks == 0 .. BankSize - 1
Statuses == {"SUCCESS", "NO_ACK", "CHANNEL_ACCESS_FAILURE"}
None == 0

TypeOK ==
  /\ pc \in {"send", "receive", "transmit", "status", "confirm"}
  /\ frameTxQueue \in [head : Buffer \union {Null}, tail : Buffer \union {Null},
                       size : 0 .. Cardinality(Buffer)]
  /\ nextItem \in [Buffer -> Buffer \union {Null}]
  /\ content \in [Buffer -> Frames \union {None}]
  /\ pace \in [sentFrame : Buffer \union {Null}, received : BOOLEAN, over : BOOLEAN]
  /\ packet \in Frames \union {None} /\ phyTxQueue \in 0 .. 1
  /\ conf \in [available : BOOLEAN, status : Statuses \union {"ERROR"}]
  /\ phyState \in {"IDLE", "TX_WAIT_END"}
  /\ radio \in [mode : {"RX_AACK_ON", "TX_ARET_ON"}, irq : BOOLEAN,
                sends : Frames \union {None}, buffer : Arrivals \union {None}, trac : Statuses]
  /\ RxBuffer \in [Banks -> Arrivals \union {None}]
  /\ queued \in 0 .. QueuedMax /\ heard \in 0 .. HeardMax
  /\ ended \in [Frames -> Statuses \union {"NONE"}]
  /\ told \in Seq([frame : Frames, status : Statuses \union {"ERROR"}])
  /\ seen \in Seq(Arrivals) /\ overrun \subseteq Arrivals

Init ==
  /\ pc = "send"
  /\ frameTxQueue = EmptyQueue /\ nextItem = [b \in Buffer |-> Null]
  /\ content = [b \in Buffer |-> None]
  /\ pace = [sentFrame |-> Null, received |-> TRUE, over |-> TRUE]
  /\ packet = None /\ phyTxQueue = 0
  /\ conf = [available |-> FALSE, status |-> "SUCCESS"]
  /\ phyState = "IDLE"
  /\ radio = [mode |-> "RX_AACK_ON", irq |-> FALSE, sends |-> None, buffer |-> None,
              trac |-> "SUCCESS"]
  /\ RxBuffer = [b \in Banks |-> None]
  /\ queued = 0 /\ heard = 0 /\ ended = [f \in Frames |-> "NONE"]
  /\ told = <<>> /\ seen = <<>> /\ overrun = {}

----------------------------------------------------------------------------
(* The protocol above.                                                     *)

(* frameTransmit takes a buffer and appends the frame; without memory it   *)
(* returns false and nothing happens.  A pass calls it from several places *)
(* but looks at the queue only at its start.                               *)
frameTransmit ==
  /\ pc = "send"
  /\ queued < QueuedMax
  /\ \E b \in Buffer :
       /\ content[b] = None
       /\ content' = [content EXCEPT ![b] = queued + 1]
       /\ frameTxQueue' = Appended(frameTxQueue, b)
       /\ nextItem' = LinkedAfter(frameTxQueue, nextItem, b)
  /\ queued' = queued + 1
  /\ UNCHANGED <<pc, pace, down, rx, chip, told>>

(* The clock gets past lastTxFrameTick + transaction_duration_us.          *)
DurationEnds ==
  /\ ~ pace.over
  /\ pace' = [pace EXCEPT !.over = TRUE]
  /\ UNCHANGED <<pc, frameTxQueue, nextItem, content, queued, down, rx, chip, told>>

----------------------------------------------------------------------------
(* One pass of P2PTasks.                                                   *)

(* Mutation: a frame the PHY has no memory for is dropped in silence.      *)
PHY_DataReqSilent(hasMemory) ==
  /\ phyTxQueue' = IF hasMemory THEN phyTxQueue + 1 ELSE phyTxQueue
  /\ conf' = conf

(* Without memory the confirmation is made at once; P2PTasks hears of it   *)
(* at the end of the pass like of any other.                               *)
PHY_DataReq(hasMemory) ==
  IF hasMemory THEN phyTxQueue' = phyTxQueue + 1 /\ conf' = conf
  ELSE phyTxQueue' = phyTxQueue /\ conf' = [available |-> TRUE, status |-> "ERROR"]

MaySend == frameTxQueue.size # 0 /\ pace.received /\ pace.over

SendNext ==
  /\ pc = "send" /\ MaySend
  /\ frameTxQueue' = Removed(frameTxQueue, nextItem)
  /\ pace' = [sentFrame |-> frameTxQueue.head, received |-> FALSE, over |-> FALSE]
  /\ packet' = content[frameTxQueue.head]
  /\ \E hasMemory \in BOOLEAN : PHY_DataReq(hasMemory)
  /\ pc' = "receive"
  /\ UNCHANGED <<nextItem, content, queued, rx, chip, told>>

NothingToSend ==
  /\ pc = "send" /\ ~ MaySend
  /\ pc' = "receive"
  /\ UNCHANGED <<tx, down, rx, chip, told>>

Filled == {b \in Banks : RxBuffer[b] # None}
Lowest(banks) == CHOOSE b \in banks : \A c \in banks : b <= c

(* Mutation: the bank is not given back.                                   *)
DiscardedNever(b) == RxBuffer

(* MiMAC_DiscardPacket, by frameParse's caller or by MiMAC_ReceivedPacket  *)
(* itself when the frame is not for this layer.                            *)
Discarded(b) == [RxBuffer EXCEPT ![b] = None]

MiMAC_ReceivedPacket ==
  /\ pc = "receive"
  /\ IF Filled = {} THEN UNCHANGED rx
     ELSE /\ seen' = Append(seen, RxBuffer[Lowest(Filled)])
          /\ RxBuffer' = Discarded(Lowest(Filled))
  /\ pc' = "transmit"
  /\ UNCHANGED <<tx, down, chip, told>>

(* Mutation: the interrupt flag is left as it was.                         *)
StartedUncleared(r) == [r EXCEPT !.mode = "TX_ARET_ON", !.sends = packet, !.buffer = None]

(* FORCE_TRX_OFF ends a reception; the status is read, and so cleared, and *)
(* the packet is written over what the frame buffer held.                  *)
Started(r) ==
  [r EXCEPT !.mode = "TX_ARET_ON", !.irq = FALSE, !.sends = packet, !.buffer = None]

(* Mutation: the status is read before it is known that there is anything  *)
(* to send.                                                                *)
PHY_TxHandlerReads ==
  /\ pc = "transmit"
  /\ IF phyTxQueue # 0 /\ phyState = "IDLE"
     THEN /\ radio' = Started(radio)
          /\ phyTxQueue' = phyTxQueue - 1
          /\ overrun' = overrun \union ({radio.buffer} \ {None})
          /\ phyState' = "TX_WAIT_END"
     ELSE radio' = [radio EXCEPT !.irq = FALSE] /\ UNCHANGED <<overrun, phyState, phyTxQueue>>
  /\ pc' = "status"
  /\ UNCHANGED <<tx, packet, conf, rx, heard, ended, told>>

PHY_TxHandler ==
  /\ pc = "transmit"
  /\ IF phyTxQueue # 0 /\ phyState = "IDLE"
     THEN /\ radio' = Started(radio)
          /\ phyTxQueue' = phyTxQueue - 1
          /\ overrun' = overrun \union ({radio.buffer} \ {None})
          /\ phyState' = "TX_WAIT_END"
     ELSE UNCHANGED <<radio, overrun, phyState, phyTxQueue>>
  /\ pc' = "status"
  /\ UNCHANGED <<tx, packet, conf, rx, heard, ended, told>>

(* The lowest free bank takes the frame; one that finds none stays in the  *)
(* frame buffer and the transceiver hears nothing any more.                *)
FrameReceived ==
  /\ phyState = "IDLE"
  /\ IF Banks = Filled THEN RxBuffer' = RxBuffer /\ radio' = [radio EXCEPT !.irq = FALSE]
     ELSE /\ RxBuffer' = [RxBuffer EXCEPT ![Lowest(Banks \ Filled)] = radio.buffer]
          /\ radio' = [radio EXCEPT !.irq = FALSE, !.buffer = None]
  /\ UNCHANGED <<conf, phyState>>

(* phySetRxState clears the flag once more and turns the receiver on.      *)
FrameSent ==
  /\ phyState = "TX_WAIT_END"
  /\ conf' = [available |-> TRUE, status |-> radio.trac]
  /\ radio' = [radio EXCEPT !.mode = "RX_AACK_ON", !.irq = FALSE]
  /\ phyState' = "IDLE"
  /\ UNCHANGED RxBuffer

(* PHY_TaskHandler after PHY_TxHandler: reading the status clears it.      *)
PHY_TaskHandler ==
  /\ pc = "status"
  /\ \/ radio.irq /\ FrameReceived
     \/ radio.irq /\ FrameSent
     \/ ~ radio.irq /\ UNCHANGED <<RxBuffer, radio, conf, phyState>>
  /\ pc' = "confirm"
  /\ UNCHANGED <<tx, packet, phyTxQueue, seen, heard, ended, overrun, told>>

(* MiMAC_Task with frameTxCallback: the frame's own callback is called and *)
(* its buffer is freed.                                                    *)
MiMAC_Task ==
  /\ pc = "confirm"
  /\ IF conf.available
     THEN /\ told' = Append(told, [frame |-> content[pace.sentFrame], status |-> conf.status])
          /\ pace' = [pace EXCEPT !.received = TRUE]
          /\ content' = [content EXCEPT ![pace.sentFrame] = None]
          /\ conf' = [conf EXCEPT !.available = FALSE]
     ELSE UNCHANGED <<told, pace, content, conf>>
  /\ pc' = "send"
  /\ UNCHANGED <<frameTxQueue, nextItem, queued, packet, phyTxQueue, rx, chip>>

----------------------------------------------------------------------------
(* The transceiver.                                                        *)

(* A frame for this board arrived whole, and was acknowledged.             *)
FrameArrives ==
  /\ radio.mode = "RX_AACK_ON" /\ radio.buffer = None
  /\ heard < HeardMax
  /\ heard' = heard + 1
  /\ radio' = [radio EXCEPT !.irq = TRUE, !.buffer = heard + 1]
  /\ UNCHANGED <<pc, tx, down, rx, phyState, ended, overrun, told>>

(* The transmission is over, the answer came or did not.                   *)
TransmissionEnds ==
  /\ radio.mode = "TX_ARET_ON" /\ radio.sends # None
  /\ \E status \in Statuses :
       /\ radio' = [radio EXCEPT !.irq = TRUE, !.sends = None, !.trac = status]
       /\ ended' = [ended EXCEPT ![radio.sends] = status]
  /\ UNCHANGED <<pc, tx, down, rx, phyState, heard, overrun, told>>

Pass ==
  \/ SendNext \/ NothingToSend
  \/ MiMAC_ReceivedPacket
  \/ PHY_TxHandler \/ PHY_TaskHandler
  \/ MiMAC_Task

Next ==
  \/ frameTransmit \/ DurationEnds
  \/ Pass
  \/ FrameArrives \/ TransmissionEnds

(* The main loop calls P2PTasks again and again, the clock runs and the    *)
(* transceiver finishes what it began.                                     *)
Spec ==
  /\ Init /\ [][Next]_vars
  /\ WF_vars(Pass) /\ WF_vars(DurationEnds) /\ WF_vars(TransmissionEnds)

----------------------------------------------------------------------------
(* What must hold.                                                         *)

(* frameTxQueue is linked up, and the buffers on it hold, in order, just   *)
(* the frames that were queued and not yet handed on, although buffers are *)
(* freed and taken again while their links still point somewhere.          *)
QueueIsFifo ==
  LET chain == Chain(frameTxQueue, nextItem)
      first == queued - frameTxQueue.size
  IN  /\ TypeOK
      /\ WellLinked(frameTxQueue, nextItem)
      /\ \A k \in 1 .. frameTxQueue.size : content[chain[k]] = first + k

(* Every frame is confirmed once at most and in order, with what became of *)
(* this frame: ERROR means it never went out, anything else is how the     *)
(* transceiver ended it.  One flag, one status and one packet serve all.   *)
ConfirmIsOwn ==
  \A k \in DOMAIN told :
    /\ told[k].frame = k
    /\ IF told[k].status = "ERROR" THEN ended[k] = "NONE" ELSE ended[k] = told[k].status

(* Frames are passed up in the order they arrived, and none twice: lowest  *)
(* free bank in, lowest filled bank out keeps the order only because one   *)
(* frame is taken out before the next is put in.                           *)
HeardInOrder ==
  \A j, k \in DOMAIN seen : j < k => seen[j] < seen[k]

(* A frame that arrived, and so was acknowledged, waits with its interrupt *)
(* pending or in a bank, or was passed up, or a transmission of this board *)
(* was started over it; it is lost in no other way, and the transceiver is *)
(* never left holding a frame nobody will fetch.                           *)
OnlyOverrunLost ==
  /\ 1 .. heard = {seen[k] : k \in DOMAIN seen} \union overrun
                   \union (({radio.buffer} \union {RxBuffer[b] : b \in Banks}) \ {None})
  /\ radio.buffer # None => radio.irq /\ phyState = "IDLE"

(* Every frame that was queued is confirmed in the end, whether memory was *)
(* short or the radio refused it; a frame that never is would hold back    *)
(* all the frames behind it.                                               *)
EveryFrameConfirmed == \A f \in Frames : queued >= f ~> Len(told) >= f
=============================================================================
