------------------------- MODULE Coordinator_proofs -------------------------
(***************************************************************************)
(* Proofs about the coordinator's connection table: the type invariant and *)
(* the invariants of Coordinator, for every number of devices and entries. *)
(***************************************************************************)
EXTENDS Coordinator, ConnectionTable_proofs

(* conn_size of a table whose used entries are a prefix of length n.       *)
LEMMA PrefixCardinality ==
  ASSUME NEW n \in Nat, n <= ConnectionSize
  PROVE  Cardinality({j \in Slot : j < n}) = n
<1>1. {j \in Slot : j < n} = 0 .. n - 1
  BY TableAssumption DEF Slot
<1>2. Cardinality(0 .. n - 1) = IF 0 > n - 1 THEN 0 ELSE (n - 1) - 0 + 1
  BY FS_Interval
<1>3. Cardinality(0 .. n - 1) = n
  BY <1>2
<1> QED BY <1>1, <1>3

----------------------------------------------------------------------------
THEOREM InitInv == Init => IInv
<1> SUFFICES ASSUME Init PROVE IInv
  OBVIOUS
<1> USE TableAssumption DEF Init, EmptyTable
<1>1. TypeOK
  BY DEF TypeOK, Table, Slot, ConnModes, Response, NoResponse, Statuses
<1>2. UsedIsPrefix
  BY DEF UsedIsPrefix, Used, Slot
<1> QED
  BY <1>1, <1>2 DEF IInv, ValidIsUsed, OneEntryPerDevice, NoStaleInFront,
                    SilentIsRemoved, SilentUncounted, CreditIsCounted,
                    PermanentMarked

(* The steps that only clear valid bits: the three removals.               *)
LEMMA ClearingKeepsInv ==
  ASSUME IInv,
         table' \in Table,
         table'.addr = table.addr, table'.link = table.link,
         table'.connSize = table.connSize, table'.permanent = table.permanent,
         \A i \in Slot : table'.valid[i] => table.valid[i],
         response' = NoResponse, UNCHANGED <<connMode, silent, credited>>
  PROVE  IInv'
<1> USE DEF IInv
<1>1. TypeOK'
  BY TableAssumption DEF TypeOK, NoResponse, Response, Statuses, Slot
<1>2. UsedIsPrefix'
  BY DEF UsedIsPrefix, Used
<1> QED
  BY <1>1, <1>2 DEF ValidIsUsed, OneEntryPerDevice, NoStaleInFront,
                    SilentIsRemoved, SilentUncounted, CreditIsCounted,
                    PermanentMarked

(* A connection request.                                                   *)
LEMMA RequestKeepsInv ==
  ASSUME IInv, NEW d \in Device, NEW samePan \in BOOLEAN, NEW hasMemory \in BOOLEAN,
         ConnectionRequest(d, samePan, hasMemory)
  PROVE  IInv'
<1> USE DEF IInv
<1>a. table \in Table /\ silent \in [Device -> 0 .. 2] /\ credited \subseteq Device
  BY DEF TypeOK
<1>b. table.connSize \in Nat /\ table.connSize <= ConnectionSize
  BY <1>a, TableAssumption DEF Table
<1>r. ASSUME table'.myIndex \in Slot
      PROVE  response' \in Response
  <2>1. RequestStatus(d, samePan) \in Statuses
    BY DEF RequestStatus, AddStatus, Statuses
  <2>2. NoResponse \in Response
    BY TableAssumption DEF NoResponse, Response, Statuses, Slot
  <2> QED BY <1>r, <2>1, <2>2 DEF ConnectionRequest, Response
<1>1. CASE table' = Marked(table, d)
  <2>0. /\ table' \in Table /\ table'.myIndex \in Slot
        /\ table'.addr = table.addr /\ table'.valid = table.valid
        /\ table'.link = table.link /\ table'.connSize = table.connSize
        /\ \A i \in Slot : table.permanent[i] => table'.permanent[i]
    BY <1>1, <1>a, MarkedFields DEF Table
  <2>1. silent' \in [Device -> 0 .. 2] /\ \A e \in Device : silent'[e] = silent[e] \/ silent'[e] = 0
    BY <1>a DEF ConnectionRequest
  <2>2. credited' \subseteq credited
    BY DEF ConnectionRequest
  <2>3. TypeOK'
    BY <2>0, <1>a, <1>r, <2>1, <2>2 DEF TypeOK, ConnectionRequest
  <2>4. \A i \in Slot : table.valid[i] => table.addr[i] \in Device
    BY <1>a DEF ValidIsUsed, Table
  <2>5. UsedIsPrefix' /\ ValidIsUsed' /\ OneEntryPerDevice' /\ NoStaleInFront'
    BY <2>0 DEF UsedIsPrefix, Used, ValidIsUsed, OneEntryPerDevice, NoStaleInFront
  <2>6. SilentIsRemoved' /\ SilentUncounted'
    BY <2>0, <2>1, <2>4 DEF SilentIsRemoved, SilentUncounted
  <2>7. CreditIsCounted' /\ PermanentMarked'
    BY <2>0, <2>2 DEF CreditIsCounted, PermanentMarked
  <2> QED BY <2>3, <2>5, <2>6, <2>7
<1>2. ASSUME NEW i \in Slot, samePan, connMode = "ENABLE_ALL_CONN",
             table' = Marked(Written(table, d, i), d),
             \/ table.valid[i] /\ table.addr[i] = d
             \/ /\ HoldsValid(table, d) = {}
                /\ ~ table.valid[i]
                /\ \A j \in Slot : j < i => table.valid[j]
      PROVE  IInv'
  <2> DEFINE w == Written(table, d, i)
  <2>w. /\ w.addr = [table.addr EXCEPT ![i] = d]
        /\ w.valid = [table.valid EXCEPT ![i] = TRUE]
        /\ w.link = table.link /\ w.permanent = table.permanent
        /\ w.myIndex = i
        /\ w.connSize = Cardinality(Used(w))
        /\ Used(w) = Used(table) \union {i}
    BY <1>a, WrittenFields
  <2>1. silent' = [silent EXCEPT ![d] = 0]
    BY <1>2 DEF ConnectionRequest
  <2>2. i <= table.connSize
    <3>1. CASE table.valid[i]
      BY <3>1, <1>a, <1>b, TableAssumption DEF UsedIsPrefix, ValidIsUsed, Used, Slot
    <3>2. CASE \A j \in Slot : j < i => table.valid[j]
      <4> SUFFICES ASSUME table.connSize < i PROVE FALSE
        BY <1>b, TableAssumption DEF Slot
      <4>1. table.connSize \in Slot
        BY <1>b, TableAssumption DEF Slot
      <4>2. table.connSize \in Used(table)
        BY <3>2, <4>1 DEF ValidIsUsed, Used
      <4> QED BY <4>2, <1>b DEF UsedIsPrefix
    <3> QED BY <3>1, <3>2, <1>2
  <2>3. PICK n \in Nat : /\ n <= ConnectionSize
                         /\ Used(w) = {j \in Slot : j < n}
    <3>1. CASE i < table.connSize
      <4>1. Used(w) = Used(table)
        BY <2>w, <3>1 DEF UsedIsPrefix
      <4> QED BY <4>1, <1>b DEF UsedIsPrefix
    <3>2. CASE i = table.connSize
      <4>1. Used(w) = {j \in Slot : j < i + 1}
        BY <2>w, <3>2, TableAssumption DEF UsedIsPrefix, Slot
      <4>2. i + 1 \in Nat /\ i + 1 <= ConnectionSize
        BY TableAssumption DEF Slot
      <4> QED BY <4>1, <4>2
    <3> QED BY <3>1, <3>2, <2>2, <1>b, TableAssumption DEF Slot
  <2>4. w.connSize = n
    BY <2>w, <2>3, PrefixCardinality
  <2>5. w \in Table
    <3>1. w.connSize \in 0 .. ConnectionSize
      BY <2>3, <2>4, TableAssumption
    <3> QED BY <3>1, <1>a, <1>2, WrittenType
  <2> HIDE DEF w
  <2>0. /\ table' \in Table /\ table'.myIndex \in Slot
        /\ table'.addr = [table.addr EXCEPT ![i] = d]
        /\ table'.valid = [table.valid EXCEPT ![i] = TRUE]
        /\ table'.link = table.link
        /\ table'.connSize = n
        /\ \A j \in Slot : table.permanent[j] \/ (d \in Permanent /\ w.addr[j] = d)
                            <=> table'.permanent[j]
    <3>1. table' = Marked(w, d)
      BY <1>2 DEF w
    <3>2. /\ table' \in Table
          /\ table'.addr = w.addr /\ table'.valid = w.valid /\ table'.link = w.link
          /\ table'.connSize = w.connSize /\ table'.myIndex = w.myIndex
          /\ \A j \in Slot : w.permanent[j] \/ (d \in Permanent /\ w.addr[j] = d)
                              <=> table'.permanent[j]
      BY <3>1, <2>5, MarkedFields
    <3> QED BY <3>2, <2>w, <2>4
  <2>6. UsedIsPrefix'
    <3>1. Used(table') = Used(w)
      BY <2>0, <2>w DEF Used
    <3> QED BY <3>1, <2>3, <2>0 DEF UsedIsPrefix
  <2>7. TypeOK'
    BY <2>1, <2>0, <1>r, <1>a DEF TypeOK, ConnectionRequest
  <2>8. ValidIsUsed'
    BY <2>0, <1>a, TableAssumption DEF ValidIsUsed, Table
  <2>9. OneEntryPerDevice'
    BY <2>0, <1>a, <1>2 DEF OneEntryPerDevice, Table, HoldsValid
  <2>10. NoStaleInFront'
    <3> SUFFICES ASSUME NEW k \in Slot, NEW j \in Slot, table'.valid[k], j < k
                 PROVE  table'.addr[j] # table'.addr[k]
      BY DEF NoStaleInFront
    <3>1. CASE k = i
      <4>1. table'.addr[k] = d /\ table'.addr[j] = table.addr[j]
        BY <3>1, <2>0, <1>a, TableAssumption DEF Table, Slot
      <4>2. CASE table.valid[i] /\ table.addr[i] = d
        BY <4>1, <4>2, <3>1 DEF NoStaleInFront
      <4>3. CASE HoldsValid(table, d) = {} /\ \A l \in Slot : l < i => table.valid[l]
        BY <4>1, <4>3, <3>1 DEF HoldsValid
      <4> QED BY <4>2, <4>3, <1>2
    <3>2. CASE k # i
      <4>1. table.valid[k] /\ table'.addr[k] = table.addr[k]
        BY <3>2, <2>0, <1>a DEF Table
      <4>2. table.addr[k] # d
        BY <4>1, <3>2, <1>2 DEF HoldsValid, OneEntryPerDevice
      <4> QED BY <4>1, <4>2, <2>0, <1>a DEF Table, NoStaleInFront
    <3> QED BY <3>1, <3>2
  <2>11. SilentIsRemoved' /\ SilentUncounted'
    BY <2>0, <2>1, <1>a, <1>2 DEF SilentIsRemoved, SilentUncounted, Table, ValidIsUsed
  <2>12. CreditIsCounted'
    <3>1. credited' \subseteq credited /\ (HoldsValid(table, d) = {} => d \notin credited')
      BY DEF ConnectionRequest
    <3> QED BY <3>1, <2>0, <1>a, <1>2 DEF CreditIsCounted, Table
  <2>13. PermanentMarked'
    BY <2>0, <2>w, <1>a, <1>2 DEF PermanentMarked, Table
  <2> QED BY <2>6, <2>7, <2>8, <2>9, <2>10, <2>11, <2>12, <2>13
<1>3. \/ table' = Marked(table, d)
      \/ /\ samePan /\ connMode = "ENABLE_ALL_CONN"
         /\ \E i \in Slot :
              /\ table' = Marked(Written(table, d, i), d)
              /\ \/ table.valid[i] /\ table.addr[i] = d
                 \/ /\ HoldsValid(table, d) = {}
                    /\ ~ table.valid[i]
                    /\ \A j \in Slot : j < i => table.valid[j]
  <2>1. CASE samePan
    BY <2>1, <1>a, AddedCases DEF ConnectionRequest
  <2>2. CASE ~ samePan
    BY <2>2 DEF ConnectionRequest
  <2> QED BY <2>1, <2>2
<1> QED BY <1>1, <1>2, <1>3

(* A keep-alive: the entry it credits is the sender's valid one, if any.   *)
LEMMA AliveKeepsInv ==
  ASSUME IInv, NEW d \in Device, IamAlive(d)
  PROVE  IInv'
<1> USE DEF IInv
<1>a. table \in Table /\ silent \in [Device -> 0 .. 2] /\ credited \subseteq Device
  BY DEF TypeOK
<1> DEFINE f == CHOOSE i \in Slot : IsFirst(i, AliveSlots(table, d))
<1>1. AliveSlots(table, d) = {i \in Slot : table.addr[i] = d}
  BY <1>a, TableAssumption, CoordinatorAssumption DEF AliveSlots, SameShort, Table
<1>2. \/ AliveSlots(table, d) = {} /\ table' = table
      \/ /\ f \in Slot /\ table.addr[f] = d
         /\ \A j \in Slot : j < f => table.addr[j] # d
         /\ table' = [table EXCEPT !.link = [table.link EXCEPT ![f] = table.link[f] + 1]]
  <2>1. CASE AliveSlots(table, d) = {}
    BY <2>1 DEF IamAlive, Alive
  <2>2. CASE AliveSlots(table, d) # {}
    <3>1. AliveSlots(table, d) \in SUBSET Slot
      BY DEF AliveSlots
    <3>2. IsFirst(f, AliveSlots(table, d))
      BY <2>2, <3>1, FirstExists
    <3>3. f \in Slot /\ table.addr[f] = d
      BY <3>2, <1>1 DEF IsFirst
    <3>4. \A j \in Slot : j < f => table.addr[j] # d
      BY <3>2, <3>3, <1>1, TableAssumption DEF IsFirst, Slot
    <3>5. table' = [table EXCEPT !.link = [table.link EXCEPT ![f] = table.link[f] + 1]]
      <4>1. table' = [table EXCEPT !.link[f] = table.link[f] + 1]
        BY <2>2 DEF IamAlive, Alive
      <4> HIDE DEF f
      <4> QED BY <4>1, <1>a DEF Table
    <3> QED BY <3>3, <3>4, <3>5
  <2> QED BY <2>1, <2>2
<1> HIDE DEF f
<1>3. /\ table' \in Table
      /\ table'.addr = table.addr /\ table'.valid = table.valid
      /\ table'.connSize = table.connSize /\ table'.permanent = table.permanent
      /\ \A i \in Slot : table.addr[i] # d => table'.link[i] = table.link[i]
  <2>1. CASE table' = table
    BY <2>1, <1>a
  <2>2. CASE /\ f \in Slot /\ table.addr[f] = d
             /\ table' = [table EXCEPT !.link = [table.link EXCEPT ![f] = table.link[f] + 1]]
    <3>1. [table.link EXCEPT ![f] = table.link[f] + 1] \in [Slot -> Nat]
      BY <1>a, <2>2 DEF Table
    <3> QED BY <3>1, <2>2, <1>a DEF Table
  <2> QED BY <2>1, <2>2, <1>2
<1>4. \A i \in Slot : table.valid[i] /\ table.addr[i] = d => table'.link[i] > 0
  <2> SUFFICES ASSUME NEW i \in Slot, table.valid[i], table.addr[i] = d
               PROVE  table'.link[i] > 0
    OBVIOUS
  <2>1. AliveSlots(table, d) # {}
    BY <1>1
  <2>2. f = i
    BY <2>1, <1>2, TableAssumption DEF NoStaleInFront, Slot
  <2> QED BY <2>1, <2>2, <1>2, <1>a DEF Table
<1>6. silent' = [silent EXCEPT ![d] = 0] /\ connMode' = connMode /\ response' = NoResponse
  BY DEF IamAlive
<1>7. TypeOK'
  <2>1. NoResponse \in Response
    BY TableAssumption DEF NoResponse, Response, Statuses, Slot
  <2>2. credited' \subseteq Device
    BY <1>a DEF IamAlive
  <2> QED BY <2>1, <2>2, <1>3, <1>6, <1>a DEF TypeOK
<1>8. UsedIsPrefix' /\ ValidIsUsed' /\ OneEntryPerDevice' /\ NoStaleInFront'
  BY <1>3 DEF UsedIsPrefix, Used, ValidIsUsed, OneEntryPerDevice, NoStaleInFront
<1>9. SilentIsRemoved' /\ SilentUncounted'
  <2>1. \A i \in Slot : table.valid[i] => table.addr[i] \in Device
    BY <1>a DEF ValidIsUsed, Table
  <2> QED BY <2>1, <1>3, <1>6, <1>a DEF SilentIsRemoved, SilentUncounted
<1>10. CreditIsCounted'
  <2>1. credited' \subseteq credited \union {d}
    BY DEF IamAlive
  <2> QED BY <2>1, <1>3, <1>4 DEF CreditIsCounted
<1>11. PermanentMarked'
  BY <1>3 DEF PermanentMarked
<1> QED BY <1>7, <1>8, <1>9, <1>10, <1>11

(* An inactivity check.                                                    *)
LEMMA CheckKeepsInv ==
  ASSUME IInv, FindInActiveDevices
  PROVE  IInv'
<1> USE DEF IInv
<1>a. table \in Table /\ silent \in [Device -> 0 .. 2]
  BY DEF TypeOK
<1>1. /\ table'.addr = table.addr /\ table'.connSize = table.connSize
      /\ table'.permanent = table.permanent
      /\ table'.valid = [i \in Slot |-> Active(table, i)]
      /\ table'.link = [i \in Slot |-> IF table.valid[i] THEN 0 ELSE table.link[i]]
      /\ table' \in Table
  BY <1>a DEF FindInActiveDevices, InactiveRemoved, Active, Table
<1>2. /\ silent' = [d \in Device |-> IF silent[d] < 2 THEN silent[d] + 1 ELSE 2]
      /\ credited' = {} /\ response' = NoResponse /\ connMode' = connMode
  BY DEF FindInActiveDevices
<1>3. TypeOK'
  <2>1. NoResponse \in Response
    BY TableAssumption DEF NoResponse, Response, Statuses, Slot
  <2>2. silent' \in [Device -> 0 .. 2]
    BY <1>2, <1>a
  <2> QED BY <2>1, <2>2, <1>1, <1>2 DEF TypeOK
<1>4. UsedIsPrefix' /\ ValidIsUsed' /\ OneEntryPerDevice' /\ NoStaleInFront'
  <2>1. \A i \in Slot : table'.valid[i] => table.valid[i]
    BY <1>1 DEF Active
  <2>2. UsedIsPrefix'
    BY <1>1 DEF UsedIsPrefix, Used
  <2> QED
    BY <1>1, <2>1, <2>2 DEF ValidIsUsed, OneEntryPerDevice, NoStaleInFront
<1>5. SilentIsRemoved' /\ SilentUncounted' /\ CreditIsCounted' /\ PermanentMarked'
  <2>1. \A i \in Slot : table'.valid[i] =>
          /\ table.valid[i] /\ table'.link[i] = 0 /\ table.addr[i] \in Device
          /\ table.link[i] # 0 \/ table.permanent[i]
    BY <1>1, <1>a DEF ValidIsUsed, Table, Active
  <2>2. \A i \in Slot : table'.valid[i] /\ ~ table.permanent[i] => silent[table.addr[i]] = 0
    BY <2>1, <1>a DEF SilentIsRemoved, SilentUncounted
  <2>3. SilentIsRemoved'
    BY <2>1, <2>2, <1>1, <1>2 DEF SilentIsRemoved
  <2> QED BY <2>1, <2>3, <1>1, <1>2 DEF SilentUncounted, CreditIsCounted, PermanentMarked
<1> QED BY <1>3, <1>4, <1>5

----------------------------------------------------------------------------
LEMMA NextInv == IInv /\ [Next]_vars => IInv'
<1> SUFFICES ASSUME IInv, [Next]_vars PROVE IInv'
  OBVIOUS
<1>a. table \in Table
  BY DEF IInv, TypeOK
<1>1. ASSUME NEW d \in Device, NEW samePan \in BOOLEAN, NEW hasMemory \in BOOLEAN,
             ConnectionRequest(d, samePan, hasMemory)
      PROVE  IInv'
  BY <1>1, RequestKeepsInv
<1>2. ASSUME NEW d \in Device, IamAlive(d)
      PROVE  IInv'
  BY <1>2, AliveKeepsInv
<1>3. CASE FindInActiveDevices
  BY <1>3, CheckKeepsInv
<1>4. ASSUME NEW i \in Slot, table' = Removed(table, i), response' = NoResponse,
             UNCHANGED <<connMode, silent, credited>>
      PROVE  IInv'
  <2>1. /\ table' \in Table /\ table'.addr = table.addr /\ table'.link = table.link
        /\ table'.connSize = table.connSize /\ table'.permanent = table.permanent
        /\ \A j \in Slot : table'.valid[j] => table.valid[j]
    BY <1>4, <1>a DEF Removed, Table
  <2> QED BY <2>1, <1>4, ClearingKeepsInv
<1>5. CASE RemoveAllConnections
  <2>1. /\ table' \in Table /\ table'.addr = table.addr /\ table'.link = table.link
        /\ table'.connSize = table.connSize /\ table'.permanent = table.permanent
        /\ \A j \in Slot : table'.valid[j] => table.valid[j]
    BY <1>5, <1>a DEF RemoveAllConnections, Table
  <2> QED BY <2>1, <1>5, ClearingKeepsInv DEF RemoveAllConnections
<1>6. ASSUME NEW d \in Device, ConnectionRemoval(d)
      PROVE  IInv'
  <2>1. CASE HoldsValid(table, d) = {}
    BY <2>1, <1>6, <1>a, ClearingKeepsInv DEF ConnectionRemoval, RemovedDevice
  <2>2. CASE HoldsValid(table, d) # {}
    <3> DEFINE i == CHOOSE i \in Slot : IsFirst(i, HoldsValid(table, d))
    <3>1. HoldsValid(table, d) \in SUBSET Slot
      BY DEF HoldsValid
    <3>2. i \in Slot
      BY <2>2, <3>1, FirstExists DEF IsFirst
    <3>3. table' = Removed(table, i)
      BY <2>2, <1>6 DEF ConnectionRemoval, RemovedDevice
    <3> HIDE DEF i
    <3> QED BY <3>2, <3>3, <1>4, <1>6 DEF ConnectionRemoval
  <2> QED BY <2>1, <2>2
<1>7. ASSUME NEW mode \in ConnModes, ConnectionMode(mode)
      PROVE  IInv'
  <2>1. TypeOK'
    BY <1>7, TableAssumption DEF IInv, TypeOK, ConnectionMode, NoResponse, Response, Statuses, Slot
  <2> QED
    BY <2>1, <1>7 DEF IInv, ConnectionMode, UsedIsPrefix, Used, ValidIsUsed, OneEntryPerDevice,
       NoStaleInFront, SilentIsRemoved, SilentUncounted, CreditIsCounted, PermanentMarked
<1>8. CASE UNCHANGED vars
  BY <1>8 DEF vars, IInv, TypeOK, UsedIsPrefix, Used, ValidIsUsed, OneEntryPerDevice,
     NoStaleInFront, SilentIsRemoved, SilentUncounted, CreditIsCounted, PermanentMarked
<1>9. ASSUME NEW i \in Slot, RemoveConnection(i)
      PROVE  IInv'
  BY <1>9, <1>4 DEF RemoveConnection
<1> QED
  BY <1>1, <1>2, <1>3, <1>5, <1>6, <1>7, <1>8, <1>9 DEF Next

(* The inductive invariant holds in every reachable state.                 *)
THEOREM InductiveInvariant == Spec => []IInv
<1> QED BY InitInv, NextInv, PTL DEF Spec

(* Every variable keeps its type.                                          *)
THEOREM TypeCorrect == Spec => []TypeOK
<1>1. IInv => TypeOK
  BY DEF IInv
<1> QED BY <1>1, InductiveInvariant, PTL

(* Removal leaves holes among the valid entries, never among the used      *)
(* ones: conn_size bounds every entry that Find_Index and the table        *)
(* broadcast have to visit.                                                *)
THEOREM ConnSizeCountsAPrefix == Spec => []UsedIsPrefix
<1>1. IInv => UsedIsPrefix
  BY DEF IInv
<1> QED BY <1>1, InductiveInvariant, PTL

(* AddConnection never gives a device a second valid entry.                *)
THEOREM NoDuplicateEntry == Spec => []OneEntryPerDevice
<1>1. IInv => OneEntryPerDevice
  BY DEF IInv
<1> QED BY <1>1, InductiveInvariant, PTL

(* The keep-alive handler, which stops at the first matching address,      *)
(* always reaches the valid entry of a device that has one.                *)
THEOREM KeepAliveFindsEntry == Spec => []NoStaleInFront
<1>1. IInv => NoStaleInFront
  BY DEF IInv
<1> QED BY <1>1, InductiveInvariant, PTL

(* A device that slept through two inactivity checks is out of the table.  *)
THEOREM SilentDeviceRemoved == Spec => []SilentIsRemoved
<1>1. IInv => SilentIsRemoved
  BY DEF IInv
<1> QED BY <1>1, InductiveInvariant, PTL

(* An inactivity check keeps every device heard since the last one.        *)
THEOREM HeardDeviceKept == Spec => HeardIsKept
<1>1. IInv /\ [Next]_vars
        => [FindInActiveDevices =>
              \A i \in Slot : table.valid[i] /\ table.addr[i] \in credited
                                => table'.valid[i]]_vars
  <2> SUFFICES ASSUME IInv, FindInActiveDevices, NEW i \in Slot,
                      table.valid[i], table.addr[i] \in credited
               PROVE  table'.valid[i]
    OBVIOUS
  <2>1. table \in Table /\ table.link[i] # 0
    BY DEF IInv, TypeOK, CreditIsCounted, Table
  <2>2. table'.valid = [j \in Slot |-> Active(table, j)]
    BY <2>1 DEF FindInActiveDevices, InactiveRemoved, Table
  <2> QED BY <2>1, <2>2 DEF Active
<1> QED BY <1>1, InductiveInvariant, PTL DEF Spec, HeardIsKept

(* An inactivity check keeps every permanent device.                       *)
THEOREM PermanentDeviceKept == Spec => PermanentIsKept
<1>1. IInv /\ [Next]_vars
        => [FindInActiveDevices =>
              \A i \in Slot : table.valid[i] /\ table.addr[i] \in Permanent
                                => table'.valid[i]]_vars
  <2> SUFFICES ASSUME IInv, FindInActiveDevices, NEW i \in Slot,
                      table.valid[i], table.addr[i] \in Permanent
               PROVE  table'.valid[i]
    OBVIOUS
  <2>1. table \in Table /\ table.permanent[i]
    BY DEF IInv, TypeOK, PermanentMarked
  <2>2. table'.valid = [j \in Slot |-> Active(table, j)]
    BY <2>1 DEF FindInActiveDevices, InactiveRemoved, Table
  <2> QED BY <2>1, <2>2 DEF Active
<1> QED BY <1>1, InductiveInvariant, PTL DEF Spec, PermanentIsKept

(* An entry is free before it is given away: no step hands a valid entry   *)
(* from one device to another.                                             *)
THEOREM EntriesAreNotTakenOver == Spec => NoTakeover
<1>1. ASSUME IInv, Next
      PROVE  \A i \in Slot : table.valid[i] /\ table'.valid[i]
                               => table'.addr[i] = table.addr[i]
  <2>a. table \in Table
    BY <1>1 DEF IInv, TypeOK
  <2>1. ASSUME NEW d \in Device, NEW samePan \in BOOLEAN, NEW hasMemory \in BOOLEAN,
               ConnectionRequest(d, samePan, hasMemory), NEW i \in Slot, table.valid[i]
        PROVE  table'.addr[i] = table.addr[i]
    <3>1. CASE table' = Marked(table, d)
      BY <3>1, <2>a, MarkedFields
    <3>2. ASSUME NEW k \in Slot, table' = Marked(Written(table, d, k), d),
                 table.valid[k] => table.addr[k] = d
          PROVE  table'.addr[i] = table.addr[i]
      <4>1. Written(table, d, k).addr = [table.addr EXCEPT ![k] = d]
        BY <2>a DEF Written, Table
      <4>2. table'.addr = Written(table, d, k).addr
        BY <3>2 DEF Marked, Written
      <4> QED BY <4>1, <4>2, <3>2, <2>1, <2>a DEF Table
    <3>3. CASE samePan
      BY <3>1, <3>2, <3>3, <2>1, <2>a, AddedCases, ZenonT(60) DEF ConnectionRequest
    <3>4. CASE ~ samePan
      BY <3>1, <3>4, <2>1 DEF ConnectionRequest
    <3> QED BY <3>3, <3>4
  <2>2. ASSUME ~ \E d \in Device, samePan, hasMemory \in BOOLEAN :
                   ConnectionRequest(d, samePan, hasMemory)
        PROVE  table'.addr = table.addr
    BY <1>1, <2>2, <2>a DEF Next, IamAlive, Alive, FindInActiveDevices, InactiveRemoved,
       RemoveConnection, RemoveAllConnections, ConnectionRemoval, RemovedDevice, Removed,
       ConnectionMode, Table
  <2> QED BY <2>1, <2>2
<1>2. IInv /\ [Next]_vars
        => [\A i \in Slot : table.valid[i] /\ table'.valid[i]
                             => table'.addr[i] = table.addr[i]]_vars
  BY <1>1
<1> QED BY <1>2, InductiveInvariant, PTL DEF Spec, NoTakeover
============================================================================
