-------------------------- MODULE ConnectionTable --------------------------
(***************************************************************************)
(* The P2P connection table of a MiWi Star node and the functions of       *)
(* miwi_p2p_star.c that search and change it.  The table is a value, so    *)
(* that the coordinator alone (Coordinator) and a whole network            *)
(* (StarNetwork) use the same definitions.                                 *)
(*                                                                         *)
(* An entry survives its removal: only the status byte is cleared, the     *)
(* address and the link counter stay.  conn_size counts addresses, the     *)
(* lookups test the valid bit, and the keep-alive handler tests neither.   *)
(***************************************************************************)
EXTENDS Naturals, FiniteSets

CONSTANTS
  Device,          (* The nodes, by their 8-byte long address.             *)
  NoDevice,        (* The all-zero address of a never used entry.          *)
  ConnectionSize,  (* The number of entries, CONNECTION_SIZE.              *)
  Short,           (* The first three bytes of an address.                 *)
  Permanent        (* The devices built with MAKE_ENDDEVICE_PERMANENT.     *)

ASSUME TableAssumption ==
  /\ ConnectionSize \in Nat \ {0}
  /\ ConnectionSize < 255
  /\ NoDevice \notin Device
  /\ Short \in [Device -> Device]
  /\ Permanent \subseteq Device

Slot == 0 .. ConnectionSize - 1
NoSlot == 255

Table == [ addr      : [Slot -> Device \union {NoDevice}],
           valid     : [Slot -> BOOLEAN],
           link      : [Slot -> Nat],
           permanent : [Slot -> BOOLEAN],
           connSize  : 0 .. ConnectionSize,
           myIndex   : Slot ]

(* The zero-initialised table: connectionTable, conn_size and MyindexinPC  *)
(* are objects of static storage.                                          *)
EmptyTable == [ addr      |-> [i \in Slot |-> NoDevice],
                valid     |-> [i \in Slot |-> FALSE],
                link      |-> [i \in Slot |-> 0],
                permanent |-> [i \in Slot |-> FALSE],
                connSize  |-> 0,
                myIndex   |-> 0 ]

(* The entries whose address was ever written, and the count of them that  *)
(* Total_Connections returns.                                              *)
Used(t) == {i \in Slot : t.addr[i] # NoDevice}

TotalConnections(t) == Cardinality(Used(t))

(* Two addresses that agree on the three bytes that the short comparisons  *)
(* look at; no device has a short address of zeros.                        *)
SameShort(a, d) == a # NoDevice /\ Short[a] = Short[d]

----------------------------------------------------------------------------
(* AddConnection.                                                          *)

HoldsValid(t, d) == {i \in Slot : t.valid[i] /\ t.addr[i] = d}
Free(t) == {i \in Slot : ~ t.valid[i]}

IsFirst(i, S) == i \in S /\ \A j \in S : i <= j

(* Slips of the scan, for mutation: an invalid entry ends it before a      *)
(* valid one of d is found; a never used entry is preferred to a freed     *)
(* one; an entry without keep-alives counts as free.                       *)
SlotForFreeFirst(t, d) ==
  IF Free(t) # {}               THEN CHOOSE i \in Slot : IsFirst(i, Free(t))
  ELSE IF HoldsValid(t, d) # {} THEN CHOOSE i \in Slot : IsFirst(i, HoldsValid(t, d))
  ELSE NoSlot

SlotForUnusedFirst(t, d) ==
  IF HoldsValid(t, d) # {}   THEN CHOOSE i \in Slot : IsFirst(i, HoldsValid(t, d))
  ELSE IF Used(t) # Slot     THEN CHOOSE i \in Slot : IsFirst(i, Slot \ Used(t))
  ELSE IF Free(t) # {}       THEN CHOOSE i \in Slot : IsFirst(i, Free(t))
  ELSE NoSlot

SlotForIdle(t, d) ==
  LET idle == {i \in Slot : ~ t.valid[i] \/ t.link[i] = 0}
  IN  IF HoldsValid(t, d) # {} THEN CHOOSE i \in Slot : IsFirst(i, HoldsValid(t, d))
      ELSE IF idle # {}        THEN CHOOSE i \in Slot : IsFirst(i, idle)
      ELSE NoSlot

(* The slot the scan stops with: the valid entry of d, else the first      *)
(* entry that is not valid, else none.                                     *)
SlotFor(t, d) ==
  IF HoldsValid(t, d) # {} THEN CHOOSE i \in Slot : IsFirst(i, HoldsValid(t, d))
  ELSE IF Free(t) # {}     THEN CHOOSE i \in Slot : IsFirst(i, Free(t))
  ELSE NoSlot

AddStatus(t, d) ==
  CASE HoldsValid(t, d) # {}                  -> "STATUS_EXISTS"
    [] HoldsValid(t, d) = {} /\ Free(t) # {}  -> "STATUS_SUCCESS"
    [] HoldsValid(t, d) = {} /\ Free(t) = {}  -> "STATUS_NOT_ENOUGH_SPACE"

(* Mutation: conn_size is counted before the address is stored.            *)
WrittenCountedEarly(t, d, i) ==
  [t EXCEPT !.addr[i] = d, !.valid[i] = TRUE, !.myIndex = i,
            !.connSize = TotalConnections(t)]

(* Mutation: the index that is answered is set by the next addition.       *)
WrittenIndexLate(t, d, i) ==
  LET addr == [t.addr EXCEPT ![i] = d]
  IN  [ t EXCEPT !.addr     = addr,
                 !.valid[i] = TRUE,
                 !.myIndex  = IF t.connSize = 0 THEN i ELSE t.connSize - 1,
                 !.connSize = TotalConnections([t EXCEPT !.addr = addr]) ]

(* The table after the entry of d is written in slot i.  The link counter  *)
(* of the slot keeps what its last occupant left there.                    *)
Written(t, d, i) ==
  LET addr == [t.addr EXCEPT ![i] = d]
  IN  [ t EXCEPT !.addr     = addr,
                 !.valid[i] = TRUE,
                 !.myIndex  = i,
                 !.connSize = TotalConnections([t EXCEPT !.addr = addr]) ]

(* Mutation: status 0xFF (table full) is not checked before the write.     *)
AddedUnchecked(t, d, onlyPrevious) ==
  IF onlyPrevious THEN t ELSE Written(t, d, SlotFor(t, d))

(* onlyPrevious is ConnMode >= ENABLE_PREV_CONN: nothing is written.       *)
Added(t, d, onlyPrevious) ==
  IF SlotFor(t, d) = NoSlot \/ onlyPrevious THEN t ELSE Written(t, d, SlotFor(t, d))

(* The connection request of a permanent device marks every entry with its *)
(* address.  Nothing ever clears the mark.                                 *)
Marked(t, d) ==
  IF d \in Permanent
  THEN [t EXCEPT !.permanent = [i \in Slot |-> t.permanent[i] \/ t.addr[i] = d]]
  ELSE t

----------------------------------------------------------------------------
(* Removal: MiApp_RemoveConnection and the two removal commands clear the  *)
(* status byte of one entry.                                               *)
Removed(t, i) == [t EXCEPT !.valid[i] = FALSE]

RemovedDevice(t, d) ==
  IF HoldsValid(t, d) = {} THEN t
  ELSE Removed(t, CHOOSE i \in Slot : IsFirst(i, HoldsValid(t, d)))

----------------------------------------------------------------------------
(* Link supervision.                                                       *)

(* The entry that CMD_IAM_ALIVE of d credits: the first one with the short *)
(* address of d, valid or not.                                             *)
AliveSlots(t, d) == {i \in Slot : SameShort(t.addr[i], d)}

(* Mutation: the loop does not break at the first match.                   *)
AliveLast(t, d) ==
  IF AliveSlots(t, d) = {} THEN t
  ELSE LET i == CHOOSE j \in AliveSlots(t, d) : \A k \in AliveSlots(t, d) : k <= j
       IN  [t EXCEPT !.link[i] = t.link[i] + 1]

Alive(t, d) ==
  IF AliveSlots(t, d) = {} THEN t
  ELSE LET i == CHOOSE j \in Slot : IsFirst(j, AliveSlots(t, d))
       IN  [t EXCEPT !.link[i] = t.link[i] + 1]

(* findInActiveDevices: a valid entry with link_status 0 and no permanence *)
(* mark is removed, the link_status of the others is reset.                *)
ActiveIfHeard(t, i) == t.valid[i] /\ t.link[i] # 0   (* Mutation: no mark.  *)

Active(t, i) == t.valid[i] /\ (t.link[i] # 0 \/ t.permanent[i])

(* Mutation: link_status is not reset.                                     *)
InactiveNotReset(t) ==
  [t EXCEPT !.valid = [i \in Slot |-> Active(t, i)]]

InactiveRemoved(t) ==
  [ t EXCEPT !.valid = [i \in Slot |-> Active(t, i)],
             !.link  = [i \in Slot |-> IF t.valid[i] THEN 0 ELSE t.link[i]] ]

----------------------------------------------------------------------------
(* Find_Index: the first valid entry below conn_size with the short        *)
(* address of d.                                                           *)
FindSlots(t, d) ==
  {i \in Slot : i < t.connSize /\ t.valid[i] /\ SameShort(t.addr[i], d)}

FindIndex(t, d) ==
  IF FindSlots(t, d) = {} THEN NoSlot
  ELSE CHOOSE i \in Slot : IsFirst(i, FindSlots(t, d))

(* The entries MiApp_BroadcastConnectionTable puts into the frame: those   *)
(* below conn_size, an invalid one as 0xFFFFFF.                            *)
Shared(t) == [i \in {j \in Slot : j < t.connSize} |->
                IF t.valid[i] THEN t.addr[i] ELSE NoDevice]
============================================================================
