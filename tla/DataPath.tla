------------------------------ MODULE DataPath ------------------------------
(***************************************************************************)
(* Data in a star whose devices have joined.  A message to the board next  *)
(* door is confirmed by the MAC; a message from one end device to another  *)
(* goes through the coordinator, and if it asked for an acknowledgement    *)
(* the sender waits for a command from the coordinator or for a timer.     *)
(*                                                                         *)
(* A message keeps its buffer, a P2PStarDataFrame_t, from MiApp_SendData   *)
(* to its confirmation.  The frame in frameTxQueue only points into it;    *)
(* the entry that owns it waits in one of two other queues, and nothing    *)
(* but the order ties the frames and the entries together.  The time-out   *)
(* may come at any moment: a frame may outlive its buffer, and then sends  *)
(* what the buffer holds by that time.                                     *)
(***************************************************************************)
EXTENDS Naturals, Sequences, FiniteSets, FiniteSetsExt

CONSTANTS
  Device,        (* The boards.                                            *)
  Coordinator,   (* The one whose role is PAN_COORD.                       *)
  Member,        (* The devices in its connection table.                   *)
  Message,       (* The messages: sender, addressee, acknowledged or not.  *)
  Buffer,        (* The buffers a heap has room for, numbered.             *)
  Bank,          (* The receive banks of a board (Radio).                  *)
  SwAckTimeout,  (* SW_ACK_TIMEOUT, in ticks of dataTimer.                 *)
  MemoryFails    (* Whether MiMem_Alloc may fail for a frame or a command. *)

ASSUME DataPathAssumption ==
  /\ Coordinator \in Device
  /\ Member \subseteq Device \ {Coordinator}
  /\ Buffer # {} /\ Buffer \subseteq Nat
  /\ Bank # {} /\ Bank \subseteq Nat
  /\ SwAckTimeout \in Nat
  /\ MemoryFails \in BOOLEAN

VARIABLES
  txq, sending, rx,   (* The frames of each board (Radio).                 *)
  macQ,        (* macAckOnlyFrameQueue.                                    *)
  ackQ,        (* appAckWaitDataQueue.                                     *)
  held,        (* The buffers that are allocated.                          *)
  timer,       (* Whether dataTimer runs.                                  *)
  sent,        (* History: messages MiApp_SendData took.                   *)
  confirmed,   (* History: calls of each message's ConfCallback.           *)
  left,        (* History: messages of macQ sent with status SUCCESS.      *)
  relayed,     (* History: the senders of the messages whose way from the  *)
               (* coordinator to the addressee was acknowledged, in order. *)
  used         (* History: the acknowledgements, by place in relayed,      *)
               (* whose answer confirmed a message.                        *)

INSTANCE Radio

radio == <<txq, sending, rx>>
history == <<left, relayed, used>>
vars == <<radio, macQ, ackQ, held, timer, sent, confirmed, history>>

ASSUME BroadcastAssumption == Broadcast \notin Device

ASSUME MessageAssumption ==
  \A m \in Message : /\ m.src \in Device
                     /\ m.dst \in (Device \ {m.src}) \union {Broadcast}
                     /\ m.ackReq \in BOOLEAN

----------------------------------------------------------------------------
(* Messages, frames and entries.                                           *)

Relayed(m) == m.src # Coordinator /\ m.dst \notin {Coordinator, Broadcast}
Awaited(m) == Relayed(m) /\ m.ackReq

(* A frame is queued for a message, its handle, and points to a buffer;    *)
(* msg is the message that the buffer holds.                               *)
Forward(m, b) == [type |-> "FORWARD_PACKET", src |-> m.src, dst |-> Coordinator,
                  handle |-> m, msg |-> m, buf |-> b]
Data(n, m, b) == [type |-> "DATA", src |-> n, dst |-> m.dst,
                  handle |-> m, msg |-> m, buf |-> b]
(* The command names no message.  Which acknowledgement it reports, by     *)
(* place in relayed, serves the properties only.                           *)
Success(n, place) ==
  [type |-> "DATA_TO_ENDDEV_SUCCESS", src |-> Coordinator, dst |-> n, place |-> place]

Pointing == [type : {"FORWARD_PACKET", "DATA"}, src : Device, dst : Device \union {Broadcast},
             handle : Message, msg : Message, buf : Buffer]
Frame ==
  Pointing \union [type : {"DATA_TO_ENDDEV_SUCCESS"}, src : {Coordinator}, dst : Device,
                   place : Nat]
Statuses == {"SUCCESS", "FAILURE", "NO_ACK"}

Entry(m, b, timeout) == [msg |-> m, buf |-> b, timeout |-> timeout]
Entries == [msg : Message, buf : Buffer, timeout : 0 .. SwAckTimeout + 1]

(* The callback a frame was queued with, a command's own one apart.        *)
WaitsForApp(f) ==
  \/ f.type = "FORWARD_PACKET" /\ f.handle.ackReq
  \/ f.type = "DATA" /\ f.src # f.handle.src
WaitsForMac(f) ==
  \/ f.type = "FORWARD_PACKET" /\ ~ f.handle.ackReq
  \/ f.type = "DATA" /\ f.src = f.handle.src

FreeBuffer(n) == Min(Buffer \ held[n])

TypeOK ==
  /\ RadioTypeOK(Frame)
  /\ macQ \in [Device -> Seq(Entries)]
  /\ ackQ \in [Device -> Seq(Entries)]
  /\ held \in [Device -> SUBSET Buffer]
  /\ timer \in [Device -> BOOLEAN]
  /\ sent \subseteq Message
  /\ confirmed \in [Message -> Seq(Statuses)]
  /\ left \subseteq Message
  /\ relayed \in Seq(Device)
  /\ used \subseteq Nat

(* The devices are in the network; no data was sent yet.                   *)
Init ==
  /\ RadioInit
  /\ macQ = [n \in Device |-> <<>>]
  /\ ackQ = [n \in Device |-> <<>>]
  /\ held = [n \in Device |-> {}]
  /\ timer = [n \in Device |-> FALSE]
  /\ sent = {} /\ left = {} /\ relayed = <<>> /\ used = {}
  /\ confirmed = [m \in Message |-> <<>>]

----------------------------------------------------------------------------
(* Helpers of the handlers.                                                *)

(* m is written into buffer b: what points there carries m from now on.    *)
Rewritten(n, m, b) ==
  [k \in DOMAIN txq[n] |-> IF txq[n][k] \in Pointing /\ txq[n][k].buf = b
                           THEN [txq[n][k] EXCEPT !.msg = m] ELSE txq[n][k]]

(* m is put into buffer b and f, which points there, is queued.            *)
Put(n, m, b, f, hasMemory) ==
  /\ held' = [held EXCEPT ![n] = held[n] \union {b}]
  /\ txq' = [txq EXCEPT ![n] = IF hasMemory THEN Append(Rewritten(n, m, b), f)
                               ELSE Rewritten(n, m, b)]

(* The loop that three handlers run over appAckWaitDataQueue: the head is  *)
(* taken off and appended again unless it is done with.  The loop counts   *)
(* up to the size of the queue, which shrinks under it: after an entry is  *)
(* dropped the last one is not reached, and the order is rotated.          *)
Turned(s, k, done, kept) ==
  IF k > Len(s) THEN s
  ELSE IF Head(s) \in done THEN Tail(s)
  ELSE Append(Tail(s), kept[Head(s)])

Swept(q, done, kept) ==
  LET pass[k \in 0 .. Len(q)] ==
        IF k = 0 THEN q ELSE Turned(pass[k - 1], k, done, kept)
  IN  pass[Len(q)]

Unchanged == [entry \in Entries |-> entry]
Bufs(q) == {q[k].buf : k \in DOMAIN q}
Messages(q) == {q[k].msg : k \in DOMAIN q}

(* ConfCallback of the messages of M, and what became of the buffers.      *)
Confirm(M, status) ==
  confirmed' = [m \in Message |-> IF m \in M THEN Append(confirmed[m], status)
                                  ELSE confirmed[m]]
FreeBufs(n, B) == held' = [held EXCEPT ![n] = held[n] \ B]

----------------------------------------------------------------------------
(* MiApp_SendData.  Without a buffer it returns false and nothing happens; *)
(* that the frame itself found no memory is not looked at.                 *)
SendData(m, hasMemory) ==
  LET n == m.src
      b == FreeBuffer(n)
  IN  /\ m \notin sent
      /\ held[n] # Buffer
      /\ sent' = sent \union {m}
      /\ Put(n, m, b, IF Relayed(m) THEN Forward(m, b) ELSE Data(n, m, b), hasMemory)
      /\ IF Awaited(m)
         THEN /\ ackQ' = [ackQ EXCEPT ![n] = Append(ackQ[n], Entry(m, b, SwAckTimeout + 1))]
              /\ timer' = [timer EXCEPT ![n] = TRUE]
              /\ UNCHANGED macQ
         ELSE /\ macQ' = [macQ EXCEPT ![n] = Append(macQ[n], Entry(m, b, 0))]
              /\ UNCHANGED <<ackQ, timer>>
      /\ UNCHANGED <<sending, rx, confirmed, history>>

(* P2PTasks sends the next frame.                                          *)
Transmission(n) ==
  /\ Transmit(n)
  /\ UNCHANGED <<macQ, ackQ, held, timer, sent, confirmed, history>>

(* A message of macQ was sent.                                             *)
Left(n) ==
  left' = IF sending[n].status = "SUCCESS" THEN left \union {sending[n].frame.msg} ELSE left

(* Mutation: the entry that was queued last is confirmed.                  *)
MacAckOnlyLast(n) ==
  LET last == macQ[n][Len(macQ[n])]
  IN  /\ sending[n] # Idle /\ WaitsForMac(sending[n].frame)
      /\ Sent(n)
      /\ Left(n)
      /\ macQ' = [macQ EXCEPT ![n] = SubSeq(macQ[n], 1, Len(macQ[n]) - 1)]
      /\ Confirm({last.msg}, sending[n].status)
      /\ FreeBufs(n, {last.buf})
      /\ UNCHANGED <<txq, rx, ackQ, timer, sent, relayed, used>>

(* macAckOnlyDataCallback: the head of the queue is confirmed, whatever    *)
(* frame was sent.                                                         *)
MacAckOnly(n) ==
  /\ sending[n] # Idle /\ WaitsForMac(sending[n].frame)
  /\ Sent(n)
  /\ Left(n)
  /\ IF macQ[n] = <<>> THEN UNCHANGED <<macQ, confirmed, held>>
     ELSE /\ macQ' = [macQ EXCEPT ![n] = Tail(macQ[n])]
          /\ Confirm({Head(macQ[n]).msg}, sending[n].status)
          /\ FreeBufs(n, {Head(macQ[n]).buf})
  /\ UNCHANGED <<txq, rx, ackQ, timer, sent, relayed, used>>

(* appAckWaitDataCallback at the sender: the first hop failed or not.      *)
FirstHop(n) ==
  /\ n # Coordinator
  /\ sending[n] # Idle /\ WaitsForApp(sending[n].frame)
  /\ Sent(n)
  /\ LET done == {entry \in Entries : /\ sending[n].status # "SUCCESS"
                                      /\ entry.msg = sending[n].frame.handle
                                      /\ entry.buf = sending[n].frame.buf}
         q == Swept(ackQ[n], done, Unchanged)
     IN  /\ ackQ' = [ackQ EXCEPT ![n] = q]
         /\ Confirm(Messages(ackQ[n]) \ Messages(q), sending[n].status)
         /\ FreeBufs(n, Bufs(ackQ[n]) \ Bufs(q))
  /\ UNCHANGED <<txq, rx, macQ, timer, sent, history>>

(* The last hop of a message was acknowledged.                             *)
Arrivals(f, status) == IF status = "SUCCESS" THEN Append(relayed, f.msg.src) ELSE relayed

(* Mutation: the buffer is freed only if the command could be built.       *)
LastHopLeaks(hasMemory) ==
  LET n == Coordinator
      f == sending[n].frame
      q == Swept(ackQ[n], {entry \in Entries : entry.buf = f.buf}, Unchanged)
      tells == sending[n].status = "SUCCESS" /\ q # ackQ[n] /\ f.msg.src \in Member
  IN  /\ sending[n] # Idle /\ WaitsForApp(f)
      /\ Sent(n)
      /\ relayed' = Arrivals(f, sending[n].status)
      /\ ackQ' = [ackQ EXCEPT ![n] = q]
      /\ IF tells THEN Queue(n, Success(f.msg.src, Len(relayed')), hasMemory) /\ FreeBufs(n, {f.buf})
         ELSE UNCHANGED <<txq, held>>
      /\ UNCHANGED <<rx, macQ, timer, sent, confirmed, left, used>>

(* Mutation: the status is not looked at.                                  *)
LastHopAny(hasMemory) ==
  LET n == Coordinator
      f == sending[n].frame
      q == Swept(ackQ[n], {entry \in Entries : entry.buf = f.buf}, Unchanged)
      tells == q # ackQ[n] /\ f.msg.src \in Member
  IN  /\ sending[n] # Idle /\ WaitsForApp(f)
      /\ Sent(n)
      /\ relayed' = Arrivals(f, sending[n].status)
      /\ ackQ' = [ackQ EXCEPT ![n] = q]
      /\ IF tells THEN Queue(n, Success(f.msg.src, Len(relayed')), hasMemory) ELSE UNCHANGED txq
      /\ FreeBufs(n, Bufs(ackQ[n]) \ Bufs(q))
      /\ UNCHANGED <<rx, macQ, timer, sent, confirmed, left, used>>

(* appAckWaitDataCallback at the coordinator.  Its own entries have no     *)
(* ConfCallback; without memory for the command the entry is lost.         *)
LastHop(hasMemory) ==
  LET n == Coordinator
      f == sending[n].frame
      q == Swept(ackQ[n], {entry \in Entries : entry.buf = f.buf}, Unchanged)
      tells == sending[n].status = "SUCCESS" /\ q # ackQ[n] /\ f.msg.src \in Member
  IN  /\ sending[n] # Idle /\ WaitsForApp(f)
      /\ Sent(n)
      /\ relayed' = Arrivals(f, sending[n].status)
      /\ ackQ' = [ackQ EXCEPT ![n] = q]
      /\ IF tells THEN Queue(n, Success(f.msg.src, Len(relayed')), hasMemory) ELSE UNCHANGED txq
      /\ IF tells /\ ~ hasMemory THEN UNCHANGED held
         ELSE FreeBufs(n, Bufs(ackQ[n]) \ Bufs(q))
      /\ UNCHANGED <<rx, macQ, timer, sent, confirmed, left, used>>

(* CommandConfCallback.                                                    *)
CommandSent(n) ==
  /\ sending[n].frame.type = "DATA_TO_ENDDEV_SUCCESS"
  /\ Sent(n)
  /\ UNCHANGED <<txq, rx, macQ, ackQ, held, timer, sent, confirmed, history>>

----------------------------------------------------------------------------
(* frameParse.                                                             *)

(* CMD_FORWRD_PACKET at the coordinator: a copy for the addressee, if it   *)
(* is in the table and there is a buffer.  No addressee sleeps: the queue  *)
(* for devices whose RXOnWhenIdle is 0 is not modelled.                    *)
ReceiveForward(hasMemory) ==
  LET n == Coordinator
      m == Received(n).msg
      b == FreeBuffer(n)
  IN  /\ Receive(n, "FORWARD_PACKET")
      /\ IF m.dst \in Member /\ held[n] # Buffer
         THEN /\ Put(n, m, b, Data(n, m, b), hasMemory)
              /\ ackQ' = [ackQ EXCEPT ![n] = Append(ackQ[n], Entry(m, b, 0))]
         ELSE UNCHANGED <<held, txq, ackQ>>
      /\ UNCHANGED <<sending, macQ, timer, sent, confirmed, history>>

(* CMD_DATA_TO_ENDDEV_SUCCESS: the head of the queue is confirmed,         *)
(* whatever message was delivered.                                         *)
ReceiveSuccess(n) ==
  /\ Receive(n, "DATA_TO_ENDDEV_SUCCESS")
  /\ IF ackQ[n] = <<>> THEN UNCHANGED <<ackQ, confirmed, held, used>>
     ELSE /\ ackQ' = [ackQ EXCEPT ![n] = Tail(ackQ[n])]
          /\ Confirm({Head(ackQ[n]).msg}, "SUCCESS")
          /\ FreeBufs(n, {Head(ackQ[n]).buf})
          /\ used' = used \union {Received(n).place}
  /\ UNCHANGED <<txq, sending, macQ, timer, sent, left, relayed>>

(* A message for the application.                                          *)
ReceiveData(n) ==
  /\ Receive(n, "DATA")
  /\ UNCHANGED <<txq, sending, macQ, ackQ, held, timer, sent, confirmed, history>>

(* What dataTimerHandler does to an entry.                                 *)
Expired == {entry \in Entries : entry.timeout = 1}
Older ==
  [entry \in Entries |->
     [entry EXCEPT !.timeout = IF entry.timeout = 0 THEN 0 ELSE entry.timeout - 1]]

(* Mutation: the timer is not periodic.                                    *)
DataTimerOnce(n) ==
  LET q == Swept(ackQ[n], Expired, Older)
      gone == Messages(ackQ[n]) \ Messages(q)
  IN  /\ timer[n]
      /\ ackQ' = [ackQ EXCEPT ![n] = q]
      /\ Confirm(gone, "NO_ACK")
      /\ FreeBufs(n, Bufs(ackQ[n]) \ Bufs(q))
      /\ timer' = [timer EXCEPT ![n] = FALSE]
      /\ UNCHANGED <<radio, macQ, sent, history>>

(* dataTimerHandler; the timer stops when nothing waits.                   *)
DataTimer(n) ==
  LET q == Swept(ackQ[n], Expired, Older)
      gone == Messages(ackQ[n]) \ Messages(q)
  IN  /\ timer[n]
      /\ ackQ' = [ackQ EXCEPT ![n] = q]
      /\ Confirm(gone, "NO_ACK")
      /\ FreeBufs(n, Bufs(ackQ[n]) \ Bufs(q))
      /\ timer' = [timer EXCEPT ![n] = q # <<>>]
      /\ UNCHANGED <<radio, macQ, sent, history>>

Report(n) ==
  \/ MacAckOnly(n) \/ FirstHop(n) \/ CommandSent(n)
  \/ n = Coordinator /\ \E h \in HasMemory : LastHop(h)
Parse(n) ==
  \/ ReceiveSuccess(n) \/ ReceiveData(n)
  \/ n = Coordinator /\ \E h \in HasMemory : ReceiveForward(h)

(* The super-loops of the boards: every step that is not a call of the     *)
(* application.                                                            *)
P2PTasks == \E n \in Device : Transmission(n) \/ Report(n) \/ Parse(n) \/ DataTimer(n)

Next == P2PTasks \/ \E m \in Message, h \in HasMemory : SendData(m, h)

Spec == Init /\ [][Next]_vars

(* The super-loops go round.                                               *)
FairSpec == Spec /\ WF_vars(P2PTasks)

----------------------------------------------------------------------------
(* Properties.                                                             *)

(* The frame of a message that was sent to be relayed and is confirmed     *)
(* before its own callback came, by a time-out or by an answer.            *)
Overtaken(f) ==
  f.type = "FORWARD_PACKET" /\ f.handle.ackReq /\ confirmed[f.handle] # <<>>

(* However early the time-out and whatever the answers confirm, every      *)
(* buffer that is allocated belongs to exactly one waiting entry, so that  *)
(* it is freed once and never leaked; and every frame that is queued or    *)
(* being sent carries its own message out of the buffer of its own entry,  *)
(* the frames of relayed messages that were confirmed too early apart.     *)
BuffersOwned ==
  \A n \in Device :
    LET q == macQ[n] \o ackQ[n]
        frames == {txq[n][k] : k \in DOMAIN txq[n]} \union {sending[n].frame}
    IN  /\ Cardinality(Bufs(q)) = Len(q)
        /\ held[n] = Bufs(q)
        /\ \A f \in frames \intersect Pointing :
             \/ f.msg = f.handle /\ \E k \in DOMAIN q : q[k].buf = f.buf /\ q[k].msg = f.handle
             \/ Overtaken(f)

(* The frames whose callbacks are to come, in their order.                 *)
Line(n) == IF sending[n] = Idle THEN txq[n] ELSE <<sending[n].frame>> \o txq[n]

(* q holds an entry for each frame of a line that waits for the MAC, and   *)
(* no other, in the order of the frames.                                   *)
Matches(q, line) ==
  \E at \in [DOMAIN q -> DOMAIN line] :
    /\ \A j, k \in DOMAIN q : j < k => at[j] < at[k]
    /\ {k \in DOMAIN line : WaitsForMac(line[k])} = {at[k] : k \in DOMAIN q}
    /\ \A k \in DOMAIN q : line[at[k]].buf = q[k].buf /\ line[at[k]].handle = q[k].msg

(* macAckOnlyFrameQueue holds the entries of exactly the frames that wait  *)
(* for the MAC, in their order, so that popping its head confirms the      *)
(* message that was sent.  TypeOK is checked with it.                      *)
HeadsMatch == TypeOK /\ \A n \in Device : Matches(macQ[n], Line(n))

(* MiApp_SendData confirms what it took, once and not without a reason:    *)
(* the three queues, the command and the timer implement DataService.      *)
Service == INSTANCE DataService WITH Status <- Statuses,
                                     Awaiting <- {m \in Message : Awaited(m)}
ServiceSpec == Service!Spec

(* Every message that was taken is confirmed: again and again, none of     *)
(* those taken so far is without its confirmation.                         *)
AllConfirmed == []<>(\A m \in sent : confirmed[m] # <<>>)
============================================================================
