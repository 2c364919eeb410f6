---------------------------- MODULE StarNetwork ----------------------------
(***************************************************************************)
(* A star: PAN coordinators and the end devices that join them, as every   *)
(* board runs it.  An end device broadcasts connection requests, a         *)
(* coordinator answers and enters it in its table, both keep the           *)
(* membership up with keep-alives and table broadcasts, and either side    *)
(* may end it.  P2PTasks sends one frame at a time, hears about it later,  *)
(* and receives into a few banks between two frames of its own.            *)
(*                                                                         *)
(* Time is the order of expirations: a running timer may expire at any     *)
(* step.  With Timely neither a connection interval nor a power cycle is   *)
(* shorter than the way of the answer to a request that was sent.          *)
(***************************************************************************)
EXTENDS ConnectionTable, Sequences

CONSTANTS
  Coordinator,   (* The boards whose role is PAN_COORD.                    *)
  SameTwo,       (* The first two bytes of an address.                     *)
  RetryTimes,    (* CONNECTION_RETRY_TIMES.                                *)
  RetryModulus,  (* connectionRetries is a uint8_t: 256 in the code.       *)
  FailureMax,    (* MAX_LINK_STATUS_FAILURES.                              *)
  Bank,          (* The receive banks of a board (Radio).                  *)
  Reenters,      (* Whether the application asks for the next connection   *)
                 (* inside the callbacks it gets; if not, it waits for the *)
                 (* confirmation to return.                                *)
  Timely,        (* Whether answers come within CONNECTION_INTERVAL.       *)
  MemoryFails,   (* Whether MiMem_Alloc may return NULL.                   *)
  AttemptMax,    (* Bound: connection procedures of one end device.        *)
  RemovalMax,    (* Bound: MiApp_RemoveConnection of a coordinator.        *)
  ResetMax,      (* Bound: power cycles, of all boards together.           *)
  AliveMax       (* Bound: keep-alives counted between two checks.         *)

ASSUME StarAssumption ==
  /\ Coordinator \subseteq Device
  /\ SameTwo \in [Device -> Device]
  /\ RetryTimes \in Nat \ {0} /\ RetryModulus \in Nat /\ RetryTimes < RetryModulus
  /\ FailureMax \in Nat
  /\ Bank # {} /\ Bank \subseteq Nat
  /\ Reenters \in BOOLEAN
  /\ Timely \in BOOLEAN /\ MemoryFails \in BOOLEAN
  /\ AttemptMax \in Nat /\ RemovalMax \in Nat /\ ResetMax \in Nat /\ AliveMax \in Nat

EndDevice == Device \ Coordinator

VARIABLES
  table,      (* The connection table of each board.                       *)
  state,      (* p2pStarCurrentState of each end device.                   *)
  joined,     (* The end devices whose role is END_DEVICE.                 *)
  est,        (* gEstConnectionInfo of each end device.                    *)
  connTimer,  (* Whether connectionTimeInterval runs.                      *)
  linkTimer,  (* Whether linkStatusTimeInterval runs.                      *)
  failures,   (* linkStatusFailureCount.                                   *)
  myIndex,    (* myConnectionIndex_in_PanCo.                               *)
  txq, sending, rx,   (* The frames of each board (Radio).                 *)
  used,       (* The calls made so far, for the three bounds.              *)
  tries,      (* History: requests queued in the current procedure.        *)
  granted     (* History: end devices accepted in their current procedure. *)

INSTANCE Radio

(* The broadcast address is nobody's.                                      *)
ASSUME BroadcastAssumption == Broadcast \notin Device

radio == <<txq, sending, rx>>
device == <<state, joined, est, connTimer, linkTimer, failures, myIndex, tries>>
vars == <<table, device, radio, used, granted>>

----------------------------------------------------------------------------
(* Frames.                                                                 *)

Request(e) == [type |-> "CONNECTION_REQUEST", src |-> e, dst |-> Broadcast]
Answer(c, e, status, i) ==
  [type |-> "CONNECTION_RESPONSE", src |-> c, dst |-> e, status |-> status, index |-> i]
IamAlive(e, c) == [type |-> "IAM_ALIVE", src |-> e, dst |-> c]
Share(c, entries) ==
  [type |-> "SHARE_CONNECTION_TABLE", src |-> c, dst |-> Broadcast, entries |-> entries]
RemovalRequest(n, m) == [type |-> "REMOVAL_REQUEST", src |-> n, dst |-> m]
RemovalResponse(n, m, found) ==
  [type |-> "REMOVAL_RESPONSE", src |-> n, dst |-> m, found |-> found]

AddStatuses == {"STATUS_SUCCESS", "STATUS_EXISTS", "STATUS_NOT_ENOUGH_SPACE"}
Frame ==
  {Request(e) : e \in EndDevice}
  \union {IamAlive(e, c) : e \in EndDevice, c \in Device \union {NoDevice}}
  \union {Answer(c, e, s, i) : c \in Coordinator, e \in EndDevice, s \in AddStatuses, i \in Slot}
  \union (UNION {{Share(c, f) : c \in Coordinator, f \in [0 .. k - 1 -> Device \union {NoDevice}]} :
                   k \in 0 .. ConnectionSize})
  \union {RemovalRequest(n, m) : n \in Device, m \in Device}
  \union {RemovalResponse(n, m, b) : n \in Device, m \in Device, b \in BOOLEAN}

States == {"INIT_STATE", "ESTABLISHING_NETWORK", "IN_NETWORK_STATE", "DISCONNECTED"}
EstStatuses == {"SCAN_NO_BEACON", "SUCCESS", "ALREADY_EXISTS"}
NoProcedure == [callback |-> FALSE, backup |-> "INIT_STATE",
                status |-> "SCAN_NO_BEACON", retries |-> 0]

TypeOK ==
  /\ table \in [Device -> Table]
  /\ state \in [EndDevice -> States]
  /\ joined \subseteq EndDevice
  /\ est \in [EndDevice -> [callback : BOOLEAN, backup : States, status : EstStatuses,
                            retries : 0 .. RetryModulus - 1]]
  /\ connTimer \in [EndDevice -> BOOLEAN]
  /\ linkTimer \in [EndDevice -> BOOLEAN]
  /\ failures \in [EndDevice -> 0 .. FailureMax + 1]
  /\ myIndex \in [EndDevice -> Slot]
  /\ RadioTypeOK(Frame)
  /\ used \in [attempts : [EndDevice -> 0 .. AttemptMax],
               removals : 0 .. RemovalMax, resets : 0 .. ResetMax]
  /\ tries \in [EndDevice -> Nat]
  /\ granted \subseteq EndDevice

(* Every board has run MiApp_ProtocolInit; the coordinators have started   *)
(* their network.                                                          *)
Init ==
  /\ table = [n \in Device |-> EmptyTable]
  /\ state = [e \in EndDevice |-> "INIT_STATE"]
  /\ joined = {}
  /\ est = [e \in EndDevice |-> NoProcedure]
  /\ connTimer = [e \in EndDevice |-> FALSE]
  /\ linkTimer = [e \in EndDevice |-> FALSE]
  /\ failures = [e \in EndDevice |-> 0]
  /\ myIndex = [e \in EndDevice |-> 0]
  /\ RadioInit
  /\ used = [attempts |-> [e \in EndDevice |-> 0], removals |-> 0, resets |-> 0]
  /\ tries = [e \in EndDevice |-> 0]
  /\ granted = {}

----------------------------------------------------------------------------
(* The connection procedure of an end device.                              *)

(* Mutation: a request that was sent is not counted.                       *)
DecNot(k) == k

(* --connectionRetries.                                                    *)
Dec(k) == (k + RetryModulus - 1) % RetryModulus

MayRetry(e, retries) == retries > 0 /\ state[e] = "ESTABLISHING_NETWORK"
Answered(e) == est[e].status \in {"SUCCESS", "ALREADY_EXISTS"}

(* Mutation: the status of the procedure before is kept.                   *)
ProcedureKept(e, backup) == [callback |-> TRUE, backup |-> backup,
                             status |-> est[e].status, retries |-> RetryTimes]

(* What MiApp_EstablishConnection stores; the first request is queued by   *)
(* the action that includes it.                                            *)
Procedure(e, backup) == [callback |-> TRUE, backup |-> backup,
                         status |-> "SCAN_NO_BEACON", retries |-> RetryTimes]

(* The state after the procedure.                                          *)
Outcome(e) == IF Answered(e) THEN "IN_NETWORK_STATE" ELSE est[e].backup

Counted(e) == used' = [used EXCEPT !.attempts[e] = used.attempts[e] + 1]

(* MiApp_EstablishConnection, while no confirmation is owed.  When its     *)
(* first request finds no memory it says so to its caller, who calls again;*)
(* only the call that queues a request is a step.                          *)
EstablishConnection(e) ==
  /\ ~ est[e].callback
  /\ used.attempts[e] < AttemptMax
  /\ Counted(e)
  /\ est' = [est EXCEPT ![e] = Procedure(e, state[e])]
  /\ state' = [state EXCEPT ![e] = "ESTABLISHING_NETWORK"]
  /\ Queue(e, Request(e), TRUE)
  /\ tries' = [tries EXCEPT ![e] = 1]
  /\ granted' = granted \ {e}
  /\ UNCHANGED <<table, joined, connTimer, linkTimer, failures, myIndex, sending, rx>>

(* sendConnectionRequest: another request, or the end of the procedure.    *)
(* In the confirmation the application may ask for the next connection     *)
(* (again): its callback is then cleared with the old one.                 *)
Retry(e, retries, hasMemory) ==
  /\ est' = [est EXCEPT ![e].retries = retries]
  /\ Queue(e, Request(e), hasMemory)
  /\ tries' = [tries EXCEPT ![e] = IF hasMemory THEN tries[e] + 1 ELSE tries[e]]
  /\ UNCHANGED <<state, used, granted>>

Confirm(e, retries, again, hasMemory) ==
  IF again
  THEN /\ used.attempts[e] < AttemptMax
       /\ Counted(e)
       /\ est' = [est EXCEPT ![e] = [Procedure(e, Outcome(e)) EXCEPT !.callback = FALSE]]
       /\ state' = [state EXCEPT ![e] = "ESTABLISHING_NETWORK"]
       /\ Queue(e, Request(e), hasMemory)
       /\ tries' = [tries EXCEPT ![e] = IF hasMemory THEN 1 ELSE 0]
       /\ granted' = granted \ {e}
  ELSE /\ est' = [est EXCEPT ![e].retries = retries, ![e].callback = FALSE]
       /\ state' = [state EXCEPT ![e] = Outcome(e)]
       /\ UNCHANGED <<txq, tries, used, granted>>

SendConnectionRequest(e, retries, again, hasMemory) ==
  \/ MayRetry(e, retries) /\ ~ again /\ Retry(e, retries, hasMemory)
  \/ ~ MayRetry(e, retries) /\ Confirm(e, retries, again, hasMemory)

Again == IF Reenters THEN BOOLEAN ELSE {FALSE}

(* connReqConfCallback: the request was sent.                              *)
RequestSent(e) ==
  /\ sending[e].frame = Request(e) /\ sending[e].status = "SUCCESS"
  /\ Sent(e)
  /\ est' = [est EXCEPT ![e].retries = Dec(est[e].retries)]
  /\ connTimer' = [connTimer EXCEPT ![e] = TRUE]
  /\ UNCHANGED <<table, state, joined, linkTimer, failures, myIndex, txq, rx, used,
                 tries, granted>>

(* Mutations: a request that was not sent is forgotten; the interval is    *)
(* started for it too.                                                     *)
RequestFailedForgotten(e, again, hasMemory) ==
  /\ sending[e].frame = Request(e) /\ sending[e].status = "FAILURE"
  /\ Sent(e)
  /\ UNCHANGED <<table, device, txq, rx, used, granted>>

RequestFailedTimed(e, again, hasMemory) ==
  /\ sending[e].frame = Request(e) /\ sending[e].status = "FAILURE"
  /\ Sent(e)
  /\ SendConnectionRequest(e, Dec(est[e].retries), again, hasMemory)
  /\ connTimer' = [connTimer EXCEPT ![e] = TRUE]
  /\ UNCHANGED <<table, joined, linkTimer, failures, myIndex, rx>>

(* connReqConfCallback: it was not.                                        *)
RequestFailed(e, again, hasMemory) ==
  /\ sending[e].frame = Request(e) /\ sending[e].status = "FAILURE"
  /\ Sent(e)
  /\ SendConnectionRequest(e, Dec(est[e].retries), again, hasMemory)
  /\ UNCHANGED <<table, joined, connTimer, linkTimer, failures, myIndex, rx>>

(* Frames of n to m that have not been handled yet.                        *)
OnTheWay(type, n, m) ==
  \/ \E k \in DOMAIN txq[n] : txq[n][k].type = type /\ txq[n][k].dst \in {m, Broadcast}
  \/ \E b \in Bank : rx[m][b].type = type /\ rx[m][b].src = n
AnswerPending(e) ==
  \E c \in Coordinator : OnTheWay("CONNECTION_REQUEST", e, c)
                         \/ OnTheWay("CONNECTION_RESPONSE", c, e)

(* Mutation: the interval is reloaded like the other intervals.            *)
ConnectionIntervalPeriodic(e, again, hasMemory) ==
  /\ connTimer[e]
  /\ Timely => ~ AnswerPending(e)
  /\ SendConnectionRequest(e, est[e].retries, again, hasMemory)
  /\ UNCHANGED <<table, joined, connTimer, linkTimer, failures, myIndex, sending, rx>>

(* protocolTimerHandler: CONNECTION_INTERVAL is over.                      *)
ConnectionInterval(e, again, hasMemory) ==
  /\ connTimer[e]
  /\ Timely => ~ AnswerPending(e)
  /\ connTimer' = [connTimer EXCEPT ![e] = FALSE]
  /\ SendConnectionRequest(e, est[e].retries, again, hasMemory)
  /\ UNCHANGED <<table, joined, linkTimer, failures, myIndex, sending, rx>>

----------------------------------------------------------------------------
(* The end of a membership, as an end device learns of it: the link        *)
(* failure callback, in which the application may ask for a connection     *)
(* (again), and then the state DISCONNECTED.                               *)
Lost(e, again, hasMemory) ==
  /\ state' = [state EXCEPT ![e] = "DISCONNECTED"]
  /\ linkTimer' = [linkTimer EXCEPT ![e] = FALSE]
  /\ IF again
     THEN /\ state[e] # "DISCONNECTED"
          /\ used.attempts[e] < AttemptMax
          /\ Counted(e)
          /\ est' = [est EXCEPT ![e] = Procedure(e, state[e])]
          /\ Queue(e, Request(e), hasMemory)
          /\ tries' = [tries EXCEPT ![e] = IF hasMemory THEN 1 ELSE 0]
          /\ granted' = granted \ {e}
     ELSE UNCHANGED <<used, est, txq, tries, granted>>

(* linkStatusConfCallback.  The count is compared before it is incremented *)
(* and survives a new connection.                                          *)
AliveSent(e, again, hasMemory) ==
  /\ sending[e].frame.type = "IAM_ALIVE"
  /\ Sent(e)
  /\ failures' = [failures EXCEPT ![e] =
                    IF sending[e].status = "SUCCESS" THEN 0
                    ELSE IF failures[e] > FailureMax THEN failures[e]
                    ELSE failures[e] + 1]
  /\ IF sending[e].status # "SUCCESS" /\ failures[e] >= FailureMax
     THEN Lost(e, again, hasMemory)
     ELSE ~ again /\ UNCHANGED <<state, linkTimer, used, est, txq, tries, granted>>
  /\ UNCHANGED <<table, joined, connTimer, myIndex, rx>>

(* protocolTimerHandler: LINK_STATUS_TIMEOUT is over, sendLinkStatus to    *)
(* the first entry of the table.                                           *)
LinkStatusInterval(e, hasMemory) ==
  /\ linkTimer[e]
  /\ \A n \in Device : ~ OnTheWay("IAM_ALIVE", e, n)
  /\ \A c \in Coordinator, i \in Slot : table[c].addr[i] = e => table[c].link[i] < AliveMax
  /\ Queue(e, IamAlive(e, table[e].addr[0]), hasMemory)
  /\ UNCHANGED <<table, device, sending, rx, used, granted>>

----------------------------------------------------------------------------
(* CMD_P2P_CONNECTION_REQUEST at a coordinator: the table changes before   *)
(* the memory for the response is asked for.                               *)
ReceiveRequest(c, hasMemory) ==
  /\ Receive(c, "CONNECTION_REQUEST")
  /\ LET e == Received(c).src
         status == AddStatus(table[c], e)
         t == Marked(Added(table[c], e, FALSE), e)
     IN  /\ table' = [table EXCEPT ![c] = t]
         /\ Queue(c, Answer(c, e, status, t.myIndex), hasMemory)
         /\ granted' = IF status = "STATUS_NOT_ENOUGH_SPACE" THEN granted
                       ELSE granted \union {e}
  /\ UNCHANGED <<device, sending, used>>

(* CMD_P2P_CONNECTION_RESPONSE.  The state changes when the connection     *)
(* interval is over, not here.                                             *)
Accepts(e, f) == /\ state[e] = "ESTABLISHING_NETWORK"
                 /\ f.status \in {"STATUS_SUCCESS", "STATUS_EXISTS"}

ReceiveResponse(e) ==
  /\ Receive(e, "CONNECTION_RESPONSE")
  /\ LET f == Received(e)
         t == Added(table[e], f.src, FALSE)
         entered == AddStatus(table[e], f.src) # "STATUS_NOT_ENOUGH_SPACE"
     IN  IF Accepts(e, f)
         THEN /\ est' = [est EXCEPT ![e].retries = 0,
                           ![e].status = IF f.status = "STATUS_EXISTS"
                                         THEN "ALREADY_EXISTS" ELSE "SUCCESS"]
              /\ table' = [table EXCEPT ![e] = t]
              /\ joined' = IF entered THEN joined \union {e} ELSE joined
              /\ linkTimer' = [linkTimer EXCEPT ![e] = linkTimer[e] \/ entered]
              /\ myIndex' = [myIndex EXCEPT ![e] = f.index]
         ELSE UNCHANGED <<est, table, joined, linkTimer, myIndex>>
  /\ UNCHANGED <<state, connTimer, failures, tries, txq, sending, used, granted>>

(* Mutation: any entry of the table counts as the device's own.            *)
ListedAny(e, entries) == DOMAIN entries # {}

(* CMD_SHARE_CONNECTION_TABLE at an end device: store_connection_tb and    *)
(* handleLostConnection, which compares two bytes and looks at no state.   *)
Listed(e, entries) ==
  \E i \in DOMAIN entries : entries[i] # NoDevice /\ SameTwo[entries[i]] = SameTwo[e]

ReceiveShare(e, again, hasMemory) ==
  /\ Receive(e, "SHARE_CONNECTION_TABLE")
  /\ IF e \in joined /\ ~ Listed(e, Received(e).entries)
     THEN Lost(e, again, hasMemory)
     ELSE ~ again /\ UNCHANGED <<state, linkTimer, used, est, txq, tries, granted>>
  /\ UNCHANGED <<table, joined, connTimer, failures, myIndex, sending>>

(* CMD_IAM_ALIVE at a coordinator.                                         *)
ReceiveAlive(c) ==
  /\ Receive(c, "IAM_ALIVE")
  /\ table' = [table EXCEPT ![c] = Alive(table[c], Received(c).src)]
  /\ UNCHANGED <<device, txq, sending, used, granted>>

(* CMD_P2P_CONNECTION_REMOVAL_REQUEST: nothing is done without memory.     *)
ReceiveRemovalRequest(n, hasMemory) ==
  /\ Receive(n, "REMOVAL_REQUEST")
  /\ LET m == Received(n).src
     IN  /\ table' = IF hasMemory THEN [table EXCEPT ![n] = RemovedDevice(table[n], m)]
                     ELSE table
         /\ Queue(n, RemovalResponse(n, m, HoldsValid(table[n], m) # {}), hasMemory)
  /\ UNCHANGED <<device, sending, used, granted>>

(* CMD_P2P_CONNECTION_REMOVAL_RESPONSE.                                    *)
ReceiveRemovalResponse(n) ==
  /\ Receive(n, "REMOVAL_RESPONSE")
  /\ table' = IF Received(n).found
              THEN [table EXCEPT ![n] = RemovedDevice(table[n], Received(n).src)]
              ELSE table
  /\ UNCHANGED <<device, txq, sending, used, granted>>

(* A frame for the other role.                                             *)
Ignore(n) ==
  /\ IF n \in Coordinator THEN Receive(n, "SHARE_CONNECTION_TABLE")
     ELSE Receive(n, "CONNECTION_REQUEST") \/ Receive(n, "IAM_ALIVE")
  /\ UNCHANGED <<table, device, txq, sending, used, granted>>

----------------------------------------------------------------------------
(* The coordinator's own steps, and removal by either side.                *)

(* MiApp_BroadcastConnectionTable.                                         *)
BroadcastTable(c, hasMemory) == Queue(c, Share(c, Shared(table[c])), hasMemory)

(* connectionRespConfCallback: whatever became of the response.            *)
ResponseSent(c, hasMemory) ==
  /\ sending[c].frame.type = "CONNECTION_RESPONSE"
  /\ Sent(c)
  /\ BroadcastTable(c, hasMemory)
  /\ UNCHANGED <<table, device, rx, used, granted>>

(* CommandConfCallback.                                                    *)
CommandSent(n) ==
  /\ sending[n].frame.type \in {"SHARE_CONNECTION_TABLE", "REMOVAL_REQUEST",
                                "REMOVAL_RESPONSE"}
  /\ Sent(n)
  /\ UNCHANGED <<table, device, txq, rx, used, granted>>

(* SHARE_PEER_DEVICE_INFO_TIMEOUT; one unsent broadcast at a time is       *)
(* enough, the next one would say no less.                                 *)
ShareInterval(c, hasMemory) ==
  /\ \A k \in DOMAIN txq[c] : txq[c][k].type # "SHARE_CONNECTION_TABLE"
  /\ BroadcastTable(c, hasMemory)
  /\ UNCHANGED <<table, device, sending, rx, used, granted>>

(* FIND_INACTIVE_DEVICE_TIMEOUT: removed entries are not told.             *)
FindInActiveDevices(c) ==
  /\ table[c] # InactiveRemoved(table[c])
  /\ table' = [table EXCEPT ![c] = InactiveRemoved(table[c])]
  /\ UNCHANGED <<device, radio, used, granted>>

(* MiApp_RemoveConnection of one entry.                                    *)
RemoveConnection(n, i, hasMemory) ==
  /\ table[n].valid[i]
  /\ used.removals < RemovalMax
  /\ used' = [used EXCEPT !.removals = used.removals + 1]
  /\ table' = [table EXCEPT ![n] = Removed(table[n], i)]
  /\ Queue(n, RemovalRequest(n, table[n].addr[i]), hasMemory)
  /\ UNCHANGED <<device, sending, rx, granted>>

(* A board loses its power and starts again; nothing is kept, the network  *)
(* freezer is not built in.                                                *)
PowerCycle(n) ==
  /\ used.resets < ResetMax
  /\ Timely /\ n \in EndDevice => ~ AnswerPending(n)
  /\ used' = [used EXCEPT !.resets = used.resets + 1]
  /\ table' = [table EXCEPT ![n] = EmptyTable]
  /\ RadioOff(n)
  /\ IF n \in Coordinator THEN UNCHANGED <<device, granted>>
     ELSE /\ state' = [state EXCEPT ![n] = "INIT_STATE"]
          /\ joined' = joined \ {n}
          /\ est' = [est EXCEPT ![n] = NoProcedure]
          /\ connTimer' = [connTimer EXCEPT ![n] = FALSE]
          /\ linkTimer' = [linkTimer EXCEPT ![n] = FALSE]
          /\ failures' = [failures EXCEPT ![n] = 0]
          /\ myIndex' = [myIndex EXCEPT ![n] = 0]
          /\ tries' = [tries EXCEPT ![n] = 0]
          /\ granted' = granted \ {n}

----------------------------------------------------------------------------
Transmission(n) ==
  /\ Transmit(n)
  /\ UNCHANGED <<table, device, used, granted>>

(* What MiMAC_Task reports of the frame that was sent.                     *)
Report(n) ==
  \/ CommandSent(n)
  \/ n \in Coordinator /\ \E m \in HasMemory : ResponseSent(n, m)
  \/ /\ n \in EndDevice
     /\ \/ RequestSent(n)
        \/ \E a \in Again, m \in HasMemory : RequestFailed(n, a, m)
        \/ \E a \in Again, m \in HasMemory : AliveSent(n, a, m)

(* frameParse of the next frame.                                           *)
Parse(n) ==
  \/ Ignore(n)
  \/ \E m \in HasMemory : ReceiveRemovalRequest(n, m)
  \/ ReceiveRemovalResponse(n)
  \/ /\ n \in Coordinator
     /\ \/ \E m \in HasMemory : ReceiveRequest(n, m)
        \/ ReceiveAlive(n)
  \/ /\ n \in EndDevice
     /\ \/ ReceiveResponse(n)
        \/ \E a \in Again, m \in HasMemory : ReceiveShare(n, a, m)

Next ==
  \/ \E n \in Device : Transmission(n) \/ Report(n) \/ Parse(n) \/ PowerCycle(n)
  \/ \E n \in Device, i \in Slot, m \in HasMemory : RemoveConnection(n, i, m)
  \/ \E c \in Coordinator, m \in HasMemory : ShareInterval(c, m)
  \/ \E c \in Coordinator : FindInActiveDevices(c)
  \/ \E e \in EndDevice : EstablishConnection(e)
  \/ \E e \in EndDevice, m \in HasMemory : LinkStatusInterval(e, m)
  \/ \E e \in EndDevice, a \in Again, m \in HasMemory : ConnectionInterval(e, a, m)

Spec == Init /\ [][Next]_vars

(* The super-loop sends, reports, parses and counts time again and again;  *)
(* and of the table broadcasts that are sent for ever, every device hears  *)
(* some for ever (the clocks of two boards do not stay in step).           *)
SendShare(R) ==
  \E c \in Coordinator :
    /\ txq[c] # <<>> /\ Head(txq[c]).type = "SHARE_CONNECTION_TABLE"
    /\ \E s \in {"SUCCESS", "FAILURE"} : Send(c, R, s)
    /\ UNCHANGED <<table, device, used, granted>>
SomeShare == \E R \in SUBSET Device : SendShare(R)
Hears(e) == \E R \in SUBSET Device : e \in R /\ SendShare(R)

Fairness ==
  /\ \A n \in Device : WF_vars(Transmission(n)) /\ WF_vars(Report(n)) /\ WF_vars(Parse(n))
  /\ \A e \in EndDevice :
       /\ WF_vars(\E a \in Again, m \in HasMemory : ConnectionInterval(e, a, m))
       /\ []<><<SomeShare>>_vars => []<><<Hears(e)>>_vars
  /\ \A c \in Coordinator : WF_vars(\E m \in HasMemory : ShareInterval(c, m))

FairSpec == Spec /\ Fairness

----------------------------------------------------------------------------
(* Properties.                                                             *)

Requests(e) == {k \in DOMAIN txq[e] : txq[e][k] = Request(e)}

(* A pending procedure is carried by exactly one thing: the running        *)
(* interval, a queued request or the request being sent.  So its           *)
(* confirmation can neither be lost nor come twice, across retries, late   *)
(* answers, lost memberships and power cycles.  TypeOK is checked with it. *)
OneCarrier ==
  /\ TypeOK
  /\ \A e \in EndDevice :
       Cardinality(Requests(e)) + (IF sending[e].frame = Request(e) THEN 1 ELSE 0)
         + (IF connTimer[e] THEN 1 ELSE 0) = IF est[e].callback THEN 1 ELSE 0

(* sendConnectionRequest never calls a confirmation callback that is NULL: *)
(* not when the interval is over, nor when a request could not be sent.    *)
NoNullCallback ==
  \A e \in EndDevice :
    (\/ connTimer[e] /\ ~ MayRetry(e, est[e].retries)
     \/ /\ sending[e] = [frame |-> Request(e), status |-> "FAILURE"]
        /\ ~ MayRetry(e, Dec(est[e].retries)))
    => est[e].callback

(* CONNECTION_RETRY_TIMES bounds the requests of a procedure.              *)
RetriesBounded == \A e \in EndDevice : tries[e] <= RetryTimes

(* The index a device in the network holds is the slot of its entry, when  *)
(* the coordinator has one: the answer, the two tables and the removals    *)
(* agree.                                                                  *)
IndexAgrees ==
  \A e \in EndDevice, c \in Coordinator, i \in Slot :
    /\ state[e] = "IN_NETWORK_STATE"
    /\ Answered(e)
    /\ table[c].valid[i] /\ table[c].addr[i] = e
    => myIndex[e] = i

(* Every connection procedure is confirmed.                                *)
ProcedureEnds == \A e \in EndDevice : est[e].callback ~> ~ est[e].callback

(* A device that thinks it is in the network and that no coordinator knows *)
(* learns it, or is taken up again.                                        *)
Known(e) == \E c \in Coordinator : HoldsValid(table[c], e) # {}
OrphanLearns ==
  \A e \in EndDevice :
    state[e] = "IN_NETWORK_STATE" /\ ~ Known(e)
      ~> state[e] # "IN_NETWORK_STATE" \/ Known(e)
============================================================================
