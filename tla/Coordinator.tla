---------------------------- MODULE Coordinator ----------------------------
(***************************************************************************)
(* The PAN coordinator of a star network: its connection table under every *)
(* order of connection requests, keep-alives, removals and inactivity      *)
(* checks, and the response each request gets.  The radio and the devices  *)
(* are an environment that may do anything; StarNetwork closes the loop.   *)
(*                                                                         *)
(* Two history variables: silent counts the inactivity checks a device     *)
(* has slept through since it was last heard (two is as many as matter);   *)
(* credited holds the devices whose keep-alive arrived while they were in  *)
(* the table, since the last check or since they joined.                   *)
(***************************************************************************)
EXTENDS ConnectionTable

CONSTANT AliveMax   (* Most keep-alives counted between two checks: the    *)
                    (* code's intervals allow 60 s / 15 s, far below the   *)
                    (* 255 that the uint8_t link_status can count.         *)

(* The three short bytes tell the devices of a network apart.              *)
ASSUME CoordinatorAssumption ==
  /\ AliveMax \in Nat \ {0}
  /\ \A a, b \in Device : Short[a] = Short[b] => a = b

VARIABLES
  table,      (* The connection table.                                     *)
  connMode,   (* ConnMode.                                                 *)
  response,   (* CMD_P2P_CONNECTION_RESPONSE queued by the last step.      *)
  silent,     (* History: checks since each device was heard.              *)
  credited    (* History: devices with a keep-alive since the last check.  *)

vars == <<table, connMode, response, silent, credited>>

ConnModes == {"ENABLE_ALL_CONN", "ENABLE_PREV_CONN",
              "ENABLE_ACTIVE_SCAN_RSP", "DISABLE_ALL_CONN"}
Statuses == {"STATUS_SUCCESS", "STATUS_EXISTS", "STATUS_NOT_ENOUGH_SPACE",
             "STATUS_NOT_PERMITTED", "STATUS_NOT_SAME_PAN"}
NoResponse == [to |-> NoDevice, status |-> "STATUS_NOT_PERMITTED", index |-> 0]

Response == [to : Device \union {NoDevice}, status : Statuses, index : Slot]

TypeOK ==
  /\ table \in Table
  /\ connMode \in ConnModes
  /\ response \in Response
  /\ silent \in [Device -> 0 .. 2]
  /\ credited \subseteq Device

Init ==
  /\ table = EmptyTable
  /\ connMode = "ENABLE_ALL_CONN"
  /\ response = NoResponse
  /\ silent = [d \in Device |-> 0]
  /\ credited = {}

----------------------------------------------------------------------------
(* The status byte of the response.  A device of another PAN is refused    *)
(* before the table is looked at; in ENABLE_PREV_CONN only a device that   *)
(* is already in the table is accepted.                                    *)
RequestStatus(d, samePan) ==
  CASE connMode = "ENABLE_PREV_CONN" /\ (samePan => AddStatus(table, d) # "STATUS_EXISTS")
         -> "STATUS_NOT_PERMITTED"
    [] connMode # "ENABLE_PREV_CONN" /\ ~ samePan -> "STATUS_NOT_SAME_PAN"
    [] OTHER -> AddStatus(table, d)

(* CMD_P2P_CONNECTION_REQUEST of d.  samePan is the comparison of the PAN  *)
(* identifiers, hasMemory whether the buffer of the response could be      *)
(* allocated: the table has changed either way.  Nothing is refused by     *)
(* MiApp_CB_AllowConnection, which is the macro true (miwi_api.h:1472).    *)
ConnectionRequest(d, samePan, hasMemory) ==
  /\ connMode \in {"ENABLE_ALL_CONN", "ENABLE_PREV_CONN"}
  /\ table' = Marked(IF samePan THEN Added(table, d, connMode = "ENABLE_PREV_CONN")
                     ELSE table, d)
  /\ response' = IF hasMemory
                 THEN [to |-> d, status |-> RequestStatus(d, samePan),
                       index |-> table'.myIndex]
                 ELSE NoResponse
  /\ silent' = IF samePan /\ connMode = "ENABLE_ALL_CONN"
               THEN [silent EXCEPT ![d] = 0] ELSE silent
  /\ credited' = IF HoldsValid(table, d) = {} THEN credited \ {d} ELSE credited
  /\ UNCHANGED connMode

(* CMD_IAM_ALIVE of d.                                                     *)
IamAlive(d) ==
  /\ \A i \in AliveSlots(table, d) : table.link[i] < AliveMax
  /\ table' = Alive(table, d)
  /\ silent' = [silent EXCEPT ![d] = 0]
  /\ credited' = IF HoldsValid(table, d) = {} THEN credited ELSE credited \union {d}
  /\ response' = NoResponse
  /\ UNCHANGED connMode

(* The inactivity timer: findInActiveDevices.                              *)
FindInActiveDevices ==
  /\ table' = InactiveRemoved(table)
  /\ silent' = [d \in Device |-> IF silent[d] < 2 THEN silent[d] + 1 ELSE 2]
  /\ credited' = {}
  /\ response' = NoResponse
  /\ UNCHANGED connMode

(* MiApp_RemoveConnection of one entry.                                    *)
RemoveConnection(i) ==
  /\ table.valid[i]
  /\ table' = Removed(table, i)
  /\ response' = NoResponse
  /\ UNCHANGED <<connMode, silent, credited>>

(* MiApp_RemoveConnection(0xFF).                                           *)
RemoveAllConnections ==
  /\ table' = [table EXCEPT !.valid = [i \in Slot |-> FALSE]]
  /\ response' = NoResponse
  /\ UNCHANGED <<connMode, silent, credited>>

(* CMD_P2P_CONNECTION_REMOVAL_REQUEST, or a successful                     *)
(* CMD_P2P_CONNECTION_REMOVAL_RESPONSE, of d.                              *)
ConnectionRemoval(d) ==
  /\ table' = RemovedDevice(table, d)
  /\ response' = NoResponse
  /\ UNCHANGED <<connMode, silent, credited>>

(* MiApp_ConnectionMode.                                                   *)
ConnectionMode(mode) ==
  /\ connMode' = mode
  /\ response' = NoResponse
  /\ UNCHANGED <<table, silent, credited>>

Next ==
  \/ \E d \in Device, samePan, hasMemory \in BOOLEAN : ConnectionRequest(d, samePan, hasMemory)
  \/ \E d \in Device : IamAlive(d)
  \/ FindInActiveDevices
  \/ \E i \in Slot : RemoveConnection(i)
  \/ RemoveAllConnections
  \/ \E d \in Device : ConnectionRemoval(d)
  \/ \E mode \in ConnModes : ConnectionMode(mode)

Spec == Init /\ [][Next]_vars

----------------------------------------------------------------------------
(* The used entries are a prefix of the table and conn_size is its length: *)
(* Find_Index and the table broadcast, which stop at conn_size, see every  *)
(* valid entry although removal leaves holes.                              *)
UsedIsPrefix == Used(table) = {i \in Slot : i < table.connSize}

(* AddConnection never gives a device two valid entries, whatever holes    *)
(* earlier removals left in front of its entry.                            *)
OneEntryPerDevice ==
  \A i, j \in Slot :
    table.valid[i] /\ table.valid[j] /\ table.addr[i] = table.addr[j] => i = j

(* CMD_IAM_ALIVE takes the first entry with the sender's address without   *)
(* looking at its valid bit.  It still credits the valid one: no stale     *)
(* copy of a valid device's address lies in front of its entry.            *)
NoStaleInFront ==
  \A i, j \in Slot :
    table.valid[i] /\ j < i => table.addr[j] # table.addr[i]

(* A device that slept through two inactivity checks is out of the table,  *)
(* even when its entry inherited the link counter of an earlier occupant,  *)
(* unless its entry carries the permanence mark.                           *)
SilentIsRemoved ==
  \A i \in Slot : table.valid[i] /\ ~ table.permanent[i] => silent[table.addr[i]] < 2

(* miwi_config.h: a device built with MAKE_ENDDEVICE_PERMANENT is active   *)
(* forever; no inactivity check removes it, whatever entry it was given.   *)
PermanentIsKept ==
  [][ FindInActiveDevices =>
        \A i \in Slot : table.valid[i] /\ table.addr[i] \in Permanent
                          => table'.valid[i] ]_vars

(* An inactivity check removes no device whose keep-alive arrived since    *)
(* the last check: the keep-alive was counted in the entry the check reads.*)
HeardIsKept ==
  [][ FindInActiveDevices =>
        \A i \in Slot : table.valid[i] /\ table.addr[i] \in credited
                          => table'.valid[i] ]_vars

(* No step hands a valid entry over to another device: an entry is free    *)
(* before it is given away.                                                *)
NoTakeover ==
  [][ \A i \in Slot : table.valid[i] /\ table'.valid[i]
                        => table'.addr[i] = table.addr[i] ]_vars

(* miwi_api.h says that the coordinator gives each device an index on its  *)
(* connection request: a response that accepts a device carries the slot   *)
(* of that device's entry.                                                 *)
Accepting(r) == r.status \in {"STATUS_SUCCESS", "STATUS_EXISTS"}

IndexOfRequester ==
  Accepting(response) =>
    /\ table.valid[response.index]
    /\ table.addr[response.index] = response.to

----------------------------------------------------------------------------
(* The inductive invariant: valid entries have an address, a device that   *)
(* slept through one check has nothing to its credit, one with a keep-     *)
(* alive since the last check has it counted in its own entry, the entry   *)
(* of a permanent device carries the mark.                                 *)
ValidIsUsed == \A i \in Slot : table.valid[i] => table.addr[i] # NoDevice

SilentUncounted ==
  \A i \in Slot : table.valid[i] /\ silent[table.addr[i]] = 1 => table.link[i] = 0

PermanentMarked ==
  \A i \in Slot : table.valid[i] /\ table.addr[i] \in Permanent => table.permanent[i]

CreditIsCounted ==
  \A i \in Slot : table.valid[i] /\ table.addr[i] \in credited => table.link[i] > 0

IInv ==
  /\ TypeOK
  /\ UsedIsPrefix
  /\ ValidIsUsed
  /\ OneEntryPerDevice
  /\ NoStaleInFront
  /\ SilentIsRemoved
  /\ SilentUncounted
  /\ CreditIsCounted
  /\ PermanentMarked
============================================================================
