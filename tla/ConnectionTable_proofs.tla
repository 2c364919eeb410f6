------------------------ MODULE ConnectionTable_proofs ------------------------
(***************************************************************************)
(* Facts about the functions of the connection table, for every number of  *)
(* entries: which slot AddConnection stops with, what it writes, and what  *)
(* a removal, a keep-alive and the inactivity check leave alone.           *)
(***************************************************************************)
EXTENDS ConnectionTable, FiniteSetTheorems, WellFoundedInduction, TLAPS

(* Every nonempty set of naturals has a least element.                     *)
LEMMA LeastNatural ==
  ASSUME NEW S \in SUBSET Nat, S # {}
  PROVE  \E m \in S : \A n \in S : m <= n
<1> DEFINE R == OpToRel(<, Nat)
<1>1. \E m \in S : \A n \in S : ~ (<<n, m>> \in R)
  BY NatLessThanWellFounded, WFMin
<1>2. PICK m \in S : \A n \in S : ~ (<<n, m>> \in R)
  BY <1>1
<1>3. ASSUME NEW n \in S, n < m  PROVE FALSE
  <2>1. <<n, m>> \in R
    BY <1>3 DEF OpToRel
  <2> QED BY <2>1, <1>2
<1> QED BY <1>3

(* The first element that the table scans look for exists, and CHOOSE      *)
(* yields it.                                                              *)
LEMMA FirstExists ==
  ASSUME NEW S \in SUBSET Slot, S # {}
  PROVE  IsFirst(CHOOSE i \in Slot : IsFirst(i, S), S)
<1>1. S \in SUBSET Nat
  BY TableAssumption DEF Slot
<1>2. \E m \in S : \A n \in S : m <= n
  BY <1>1, LeastNatural
<1>3. \E i \in Slot : IsFirst(i, S)
  BY <1>2 DEF IsFirst
<1> QED BY <1>3

----------------------------------------------------------------------------
(* The slot AddConnection stops with: the device's own valid entry, or the *)
(* first free one when it has none.                                        *)
LEMMA SlotForCases ==
  ASSUME NEW t, NEW d
  PROVE  \/ SlotFor(t, d) \in HoldsValid(t, d)
         \/ HoldsValid(t, d) = {} /\ IsFirst(SlotFor(t, d), Free(t))
         \/ HoldsValid(t, d) = {} /\ Free(t) = {} /\ SlotFor(t, d) = NoSlot
<1>1. HoldsValid(t, d) \in SUBSET Slot /\ Free(t) \in SUBSET Slot
  BY DEF HoldsValid, Free
<1>2. CASE HoldsValid(t, d) # {}
  <2>1. IsFirst(SlotFor(t, d), HoldsValid(t, d))
    BY <1>1, <1>2, FirstExists DEF SlotFor
  <2> QED BY <2>1 DEF IsFirst
<1>3. CASE HoldsValid(t, d) = {} /\ Free(t) # {}
  <2>1. IsFirst(SlotFor(t, d), Free(t))
    BY <1>1, <1>3, FirstExists DEF SlotFor
  <2> QED BY <2>1, <1>3
<1>4. CASE HoldsValid(t, d) = {} /\ Free(t) = {}
  BY <1>4 DEF SlotFor
<1> QED BY <1>2, <1>3, <1>4

(* What AddConnection does to the table: nothing, or a write of one entry  *)
(* that is the device's own or the first free one.                         *)
LEMMA AddedCases ==
  ASSUME NEW t \in Table, NEW d \in Device, NEW p \in BOOLEAN
  PROVE  \/ Added(t, d, p) = t
         \/ ~ p /\ \E i \in Slot :
              /\ Added(t, d, p) = Written(t, d, i)
              /\ \/ t.valid[i] /\ t.addr[i] = d
                 \/ /\ HoldsValid(t, d) = {}
                    /\ ~ t.valid[i]
                    /\ \A j \in Slot : j < i => t.valid[j]
<1>1. CASE SlotFor(t, d) \in HoldsValid(t, d)
  BY <1>1 DEF Added, HoldsValid
<1>2. CASE HoldsValid(t, d) = {} /\ IsFirst(SlotFor(t, d), Free(t))
  <2>1. SlotFor(t, d) \in Slot /\ ~ t.valid[SlotFor(t, d)]
    BY <1>2 DEF IsFirst, Free
  <2>2. \A j \in Slot : j < SlotFor(t, d) => t.valid[j]
    BY <1>2, <2>1, TableAssumption DEF IsFirst, Free, Slot
  <2> QED BY <1>2, <2>1, <2>2 DEF Added
<1>3. CASE SlotFor(t, d) = NoSlot
  BY <1>3 DEF Added
<1> QED BY <1>1, <1>2, <1>3, SlotForCases

(* The fields of a written table.                                          *)
LEMMA WrittenFields ==
  ASSUME NEW t \in Table, NEW d \in Device, NEW i \in Slot
  PROVE  /\ Written(t, d, i).addr = [t.addr EXCEPT ![i] = d]
         /\ Written(t, d, i).valid = [t.valid EXCEPT ![i] = TRUE]
         /\ Written(t, d, i).link = t.link
         /\ Written(t, d, i).permanent = t.permanent
         /\ Written(t, d, i).myIndex = i
         /\ Written(t, d, i).connSize = Cardinality(Used(Written(t, d, i)))
         /\ Used(Written(t, d, i)) = Used(t) \union {i}
<1>1. d # NoDevice
  BY TableAssumption
<1>2. /\ Written(t, d, i).addr = [t.addr EXCEPT ![i] = d]
      /\ Written(t, d, i).valid = [t.valid EXCEPT ![i] = TRUE]
      /\ Written(t, d, i).link = t.link
      /\ Written(t, d, i).permanent = t.permanent
      /\ Written(t, d, i).myIndex = i
  BY DEF Written, Table
<1>3. Used(Written(t, d, i)) = Used(t) \union {i}
  BY <1>1, <1>2 DEF Used, Table
<1>4. Written(t, d, i).connSize
        = Cardinality(Used([t EXCEPT !.addr = [t.addr EXCEPT ![i] = d]]))
  BY DEF Written, Table, TotalConnections
<1>5. Used([t EXCEPT !.addr = [t.addr EXCEPT ![i] = d]]) = Used(Written(t, d, i))
  BY <1>2 DEF Used, Table
<1> QED BY <1>2, <1>3, <1>4, <1>5

LEMMA WrittenType ==
  ASSUME NEW t \in Table, NEW d \in Device, NEW i \in Slot,
         Written(t, d, i).connSize \in 0 .. ConnectionSize
  PROVE  Written(t, d, i) \in Table
<1> DEFINE a == [t.addr EXCEPT ![i] = d]
           v == [t.valid EXCEPT ![i] = TRUE]
           c == TotalConnections([t EXCEPT !.addr = a])
<1>1. Written(t, d, i) = [t EXCEPT !.addr = a, !.valid = v, !.myIndex = i, !.connSize = c]
  BY DEF Written, Table
<1>2. a \in [Slot -> Device \union {NoDevice}] /\ v \in [Slot -> BOOLEAN]
  BY DEF Table
<1> HIDE DEF a, v, c
<1>3. c \in 0 .. ConnectionSize
  BY <1>1 DEF Table
<1> QED BY <1>1, <1>2, <1>3 DEF Table

(* The permanence mark touches nothing else.                               *)
LEMMA MarkedFields ==
  ASSUME NEW t \in Table, NEW d \in Device
  PROVE  /\ Marked(t, d) \in Table
         /\ Marked(t, d).addr = t.addr
         /\ Marked(t, d).valid = t.valid
         /\ Marked(t, d).link = t.link
         /\ Marked(t, d).connSize = t.connSize
         /\ Marked(t, d).myIndex = t.myIndex
         /\ \A i \in Slot : t.permanent[i] \/ (d \in Permanent /\ t.addr[i] = d)
                            <=> Marked(t, d).permanent[i]
<1>1. CASE d \in Permanent
  <2> DEFINE q == [i \in Slot |-> t.permanent[i] \/ t.addr[i] = d]
  <2>1. Marked(t, d) = [t EXCEPT !.permanent = q]
    BY <1>1 DEF Marked
  <2>2. q \in [Slot -> BOOLEAN] /\ \A i \in Slot : q[i] <=> t.permanent[i] \/ t.addr[i] = d
    OBVIOUS
  <2> HIDE DEF q
  <2> QED BY <1>1, <2>1, <2>2 DEF Table
<1>2. CASE d \notin Permanent
  BY <1>2 DEF Marked
<1> QED BY <1>1, <1>2

----------------------------------------------------------------------------
(* conn_size stays in its range: there are only so many entries to count.  *)
LEMMA UsedFits ==
  ASSUME NEW t
  PROVE  Cardinality(Used(t)) \in 0 .. ConnectionSize
<1>1. Used(t) \subseteq Slot
  BY DEF Used
<1>2. IsFiniteSet(Slot) /\ Cardinality(Slot) = ConnectionSize
  <2>1. Cardinality(0 .. ConnectionSize - 1)
          = IF 0 > ConnectionSize - 1 THEN 0 ELSE (ConnectionSize - 1) - 0 + 1
    BY TableAssumption, FS_Interval
  <2>2. IsFiniteSet(0 .. ConnectionSize - 1)
    BY TableAssumption, FS_Interval
  <2> QED BY <2>1, <2>2, TableAssumption DEF Slot
<1>3. IsFiniteSet(Used(t)) /\ Cardinality(Used(t)) <= ConnectionSize
  BY <1>1, <1>2, FS_Subset
<1>4. Cardinality(Used(t)) \in Nat
  BY <1>3, FS_CardinalityType
<1> QED BY <1>3, <1>4, TableAssumption

(* AddConnection gives the device an entry when it says so, and takes no   *)
(* entry from another one.                                                 *)
LEMMA AddedKeeps ==
  ASSUME NEW t \in Table, NEW d \in Device
  PROVE  /\ Added(t, d, FALSE) \in Table
         /\ \A i \in Slot : t.valid[i] => /\ Added(t, d, FALSE).valid[i]
                                          /\ Added(t, d, FALSE).addr[i] = t.addr[i]
         /\ \A i \in Slot : Added(t, d, FALSE).valid[i]
              => \/ Added(t, d, FALSE).addr[i] = d
                 \/ t.valid[i] /\ Added(t, d, FALSE).addr[i] = t.addr[i]
<1>1. CASE Added(t, d, FALSE) = t
  BY <1>1
<1>2. ASSUME NEW i \in Slot, Added(t, d, FALSE) = Written(t, d, i),
             (t.valid[i] /\ t.addr[i] = d) \/ ~ t.valid[i]
      PROVE  /\ Added(t, d, FALSE) \in Table
             /\ \A j \in Slot : t.valid[j] => /\ Added(t, d, FALSE).valid[j]
                                              /\ Added(t, d, FALSE).addr[j] = t.addr[j]
             /\ \A j \in Slot : Added(t, d, FALSE).valid[j]
                  => \/ Added(t, d, FALSE).addr[j] = d
                     \/ t.valid[j] /\ Added(t, d, FALSE).addr[j] = t.addr[j]
  <2> DEFINE w == Written(t, d, i)
  <2>w. /\ w.addr = [t.addr EXCEPT ![i] = d]
        /\ w.valid = [t.valid EXCEPT ![i] = TRUE]
        /\ w.link = t.link /\ w.permanent = t.permanent
        /\ w.myIndex = i
        /\ w.connSize = Cardinality(Used(w))
        /\ Used(w) = Used(t) \union {i}
    BY WrittenFields
  <2>1. w.connSize \in 0 .. ConnectionSize
    <3>1. Cardinality(Used(w)) \in 0 .. ConnectionSize
      BY UsedFits
    <3> QED BY <2>w, <3>1
  <2>2. Written(t, d, i) \in Table
    BY <2>1, WrittenType
  <2>3. /\ Written(t, d, i).addr = [t.addr EXCEPT ![i] = d]
        /\ Written(t, d, i).valid = [t.valid EXCEPT ![i] = TRUE]
    BY <2>w
  <2>4. DOMAIN t.addr = Slot /\ DOMAIN t.valid = Slot
    BY DEF Table
  <2>5. ASSUME NEW j \in Slot
        PROVE  /\ t.valid[j] => /\ Written(t, d, i).valid[j]
                                /\ Written(t, d, i).addr[j] = t.addr[j]
               /\ Written(t, d, i).valid[j] => \/ Written(t, d, i).addr[j] = d
                                               \/ t.valid[j] /\ Written(t, d, i).addr[j] = t.addr[j]
    BY <1>2, <2>3, <2>4
  <2> QED BY <1>2, <2>2, <2>5
<1> QED BY <1>1, <1>2, AddedCases

(* A device has at most one entry, and the index that AddConnection leaves *)
(* for the answer is the slot of it.                                       *)
Entry(t, e, i) == t.valid[i] /\ t.addr[i] = e
Distinct(t) == \A i, j \in Slot : t.valid[i] /\ t.valid[j] /\ t.addr[i] = t.addr[j] => i = j

LEMMA AddedIndex ==
  ASSUME NEW t \in Table, NEW d \in Device, Distinct(t)
  PROVE  /\ Distinct(Added(t, d, FALSE))
         /\ \A j \in Slot : Entry(Added(t, d, FALSE), d, j) => Added(t, d, FALSE).myIndex = j
<1>1. NoSlot \notin Slot
  BY TableAssumption DEF NoSlot, Slot
<1>2. ASSUME NEW i \in Slot, SlotFor(t, d) = i,
             \A j \in Slot : Entry(t, d, j) => j = i
      PROVE  /\ Distinct(Added(t, d, FALSE))
             /\ \A j \in Slot : Entry(Added(t, d, FALSE), d, j) => Added(t, d, FALSE).myIndex = j
  <2>1. PICK w : w = Written(t, d, i)
    OBVIOUS
  <2>2. Added(t, d, FALSE) = w
    BY <1>1, <1>2, <2>1 DEF Added
  <2>3. /\ w.addr = [t.addr EXCEPT ![i] = d]
        /\ w.valid = [t.valid EXCEPT ![i] = TRUE]
        /\ w.myIndex = i
    BY <2>1, WrittenFields
  <2>4. DOMAIN t.addr = Slot /\ DOMAIN t.valid = Slot
    BY DEF Table
  <2>5. \A j \in Slot : w.addr[j] = (IF j = i THEN d ELSE t.addr[j])
    BY <2>3, <2>4
  <2>6. \A j \in Slot : j # i => (w.valid[j] <=> t.valid[j])
    BY <2>3, <2>4
  <2>7. \A j \in Slot : Entry(w, d, j) => j = i
    BY <1>2, <2>5, <2>6 DEF Entry
  <2>8. \A j, k \in Slot : w.valid[j] /\ w.valid[k] /\ w.addr[j] = w.addr[k] => j = k
    <3> SUFFICES ASSUME NEW j \in Slot, NEW k \in Slot,
                        w.valid[j], w.valid[k], w.addr[j] = w.addr[k]
                 PROVE  j = k
      OBVIOUS
    <3>1. CASE w.addr[j] = d
      BY <2>7, <3>1 DEF Entry
    <3>2. CASE w.addr[j] # d
      <4>1. j # i /\ k # i
        BY <2>5, <3>2
      <4> QED BY <2>5, <2>6, <4>1 DEF Distinct
    <3> QED BY <3>1, <3>2
  <2> QED BY <2>2, <2>3, <2>7, <2>8 DEF Distinct
<1>3. CASE SlotFor(t, d) \in HoldsValid(t, d)
  <2>1. SlotFor(t, d) \in Slot /\ Entry(t, d, SlotFor(t, d))
    BY <1>3 DEF HoldsValid, Entry
  <2>2. \A j \in Slot : Entry(t, d, j) => j = SlotFor(t, d)
    BY <2>1 DEF Distinct, Entry
  <2> QED BY <1>2, <2>1, <2>2
<1>4. CASE HoldsValid(t, d) = {} /\ IsFirst(SlotFor(t, d), Free(t))
  <2>1. SlotFor(t, d) \in Slot
    BY <1>4 DEF IsFirst, Free
  <2>2. \A j \in Slot : ~ Entry(t, d, j)
    BY <1>4 DEF HoldsValid, Entry
  <2> QED BY <1>2, <2>1, <2>2
<1>5. CASE HoldsValid(t, d) = {} /\ SlotFor(t, d) = NoSlot
  <2>1. Added(t, d, FALSE) = t
    BY <1>5 DEF Added
  <2>2. \A j \in Slot : ~ Entry(t, d, j)
    BY <1>5 DEF HoldsValid, Entry
  <2> QED BY <2>1, <2>2
<1> QED BY <1>3, <1>4, <1>5, SlotForCases

(* The status that is answered tells whether the device is in the table.   *)
LEMMA StatusTells ==
  ASSUME NEW t \in Table, NEW d \in Device
  PROVE  /\ AddStatus(t, d) \in {"STATUS_SUCCESS", "STATUS_EXISTS", "STATUS_NOT_ENOUGH_SPACE"}
         /\ AddStatus(t, d) = "STATUS_NOT_ENOUGH_SPACE" => Added(t, d, FALSE) = t
         /\ AddStatus(t, d) # "STATUS_NOT_ENOUGH_SPACE"
              => HoldsValid(Added(t, d, FALSE), d) # {}
<1>1. CASE HoldsValid(t, d) # {}
  <2>1. AddStatus(t, d) = "STATUS_EXISTS"
    BY <1>1 DEF AddStatus
  <2>2. PICK i \in Slot : t.valid[i] /\ t.addr[i] = d
    BY <1>1 DEF HoldsValid
  <2>3. Added(t, d, FALSE).valid[i] /\ Added(t, d, FALSE).addr[i] = t.addr[i]
    <3>1. \A j \in Slot : t.valid[j] => /\ Added(t, d, FALSE).valid[j]
                                        /\ Added(t, d, FALSE).addr[j] = t.addr[j]
      BY AddedKeeps
    <3> QED BY <2>2, <3>1
  <2>4. i \in HoldsValid(Added(t, d, FALSE), d)
    BY <2>2, <2>3 DEF HoldsValid
  <2> QED BY <2>1, <2>4
<1>2. CASE HoldsValid(t, d) = {} /\ Free(t) # {}
  <2>1. AddStatus(t, d) = "STATUS_SUCCESS"
    BY <1>2 DEF AddStatus
  <2>2. IsFirst(SlotFor(t, d), Free(t))
    BY <1>2, SlotForCases DEF HoldsValid
  <2> DEFINE i == SlotFor(t, d)
  <2>3. i \in Slot
    BY <2>2 DEF IsFirst, Free
  <2>4. Added(t, d, FALSE) = Written(t, d, i)
    BY <2>3, TableAssumption DEF Added, Slot, NoSlot
  <2> HIDE DEF i
  <2>5. Written(t, d, i).valid[i] /\ Written(t, d, i).addr[i] = d
    <3>1. /\ Written(t, d, i).addr = [t.addr EXCEPT ![i] = d]
          /\ Written(t, d, i).valid = [t.valid EXCEPT ![i] = TRUE]
      BY <2>3, WrittenFields
    <3>2. DOMAIN t.addr = Slot /\ DOMAIN t.valid = Slot
      BY DEF Table
    <3> QED BY <2>3, <3>1, <3>2
  <2>6. i \in HoldsValid(Added(t, d, FALSE), d)
    BY <2>3, <2>4, <2>5 DEF HoldsValid
  <2> QED BY <2>1, <2>6
<1>3. CASE HoldsValid(t, d) = {} /\ Free(t) = {}
  <2>1. AddStatus(t, d) = "STATUS_NOT_ENOUGH_SPACE"
    BY <1>3 DEF AddStatus
  <2>2. SlotFor(t, d) = NoSlot
    BY <1>3 DEF SlotFor
  <2>3. Added(t, d, FALSE) = t
    BY <2>2 DEF Added
  <2> QED BY <2>1, <2>3
<1> QED BY <1>1, <1>2, <1>3

(* What a removal, a keep-alive and the inactivity check leave: a table    *)
(* with the same addresses in which no entry has become valid.             *)
Shrunk(t, u) == /\ u \in Table
                /\ u.addr = t.addr
                /\ \A i \in Slot : u.valid[i] => t.valid[i]

LEMMA RemovedShrinks ==
  ASSUME NEW t \in Table, NEW i \in Slot
  PROVE  Shrunk(t, Removed(t, i))
BY DEF Removed, Shrunk, Table

LEMMA RemovedDeviceShrinks ==
  ASSUME NEW t \in Table, NEW d
  PROVE  Shrunk(t, RemovedDevice(t, d))
<1>1. CASE HoldsValid(t, d) = {}
  BY <1>1 DEF RemovedDevice, Shrunk
<1>2. CASE HoldsValid(t, d) # {}
  <2> DEFINE i == CHOOSE j \in Slot : IsFirst(j, HoldsValid(t, d))
  <2>1. HoldsValid(t, d) \in SUBSET Slot
    BY DEF HoldsValid
  <2>2. IsFirst(i, HoldsValid(t, d))
    BY <1>2, <2>1, FirstExists
  <2>3. i \in Slot
    BY <2>1, <2>2 DEF IsFirst
  <2>4. RemovedDevice(t, d) = Removed(t, i)
    BY <1>2 DEF RemovedDevice
  <2> HIDE DEF i
  <2> QED BY <2>3, <2>4, RemovedShrinks
<1> QED BY <1>1, <1>2

LEMMA AliveShrinks ==
  ASSUME NEW t \in Table, NEW d
  PROVE  Shrunk(t, Alive(t, d))
<1>1. CASE AliveSlots(t, d) = {}
  BY <1>1 DEF Alive, Shrunk
<1>2. CASE AliveSlots(t, d) # {}
  <2> DEFINE i == CHOOSE j \in Slot : IsFirst(j, AliveSlots(t, d))
             l == [t.link EXCEPT ![i] = t.link[i] + 1]
  <2>1. AliveSlots(t, d) \in SUBSET Slot
    BY DEF AliveSlots
  <2>2. IsFirst(i, AliveSlots(t, d))
    BY <1>2, <2>1, FirstExists
  <2>3. i \in Slot
    BY <2>1, <2>2 DEF IsFirst
  <2>4. l \in [Slot -> Nat]
    BY <2>3 DEF Table
  <2>5. Alive(t, d) = [t EXCEPT !.link = l]
    BY <1>2 DEF Alive, Table
  <2> HIDE DEF l
  <2> QED BY <2>4, <2>5 DEF Shrunk, Table
<1> QED BY <1>1, <1>2

LEMMA InactiveShrinks ==
  ASSUME NEW t \in Table
  PROVE  Shrunk(t, InactiveRemoved(t))
<1> DEFINE v == [i \in Slot |-> Active(t, i)]
           l == [i \in Slot |-> IF t.valid[i] THEN 0 ELSE t.link[i]]
<1>1. l \in [Slot -> Nat]
  BY DEF Table
<1>2. v \in [Slot -> BOOLEAN] /\ \A i \in Slot : v[i] => t.valid[i]
  <2>1. \A i \in Slot : Active(t, i) \in BOOLEAN
    BY DEF Active
  <2>2. \A i \in Slot : Active(t, i) => t.valid[i]
    BY Zenon DEF Active
  <2> QED BY <2>1, <2>2
<1>3. InactiveRemoved(t) = [t EXCEPT !.valid = v, !.link = l]
  BY DEF InactiveRemoved
<1> HIDE DEF v, l
<1> QED BY <1>1, <1>2, <1>3 DEF Shrunk, Table

LEMMA EmptyIsTable == Shrunk(EmptyTable, EmptyTable)
<1>1. 0 \in Slot /\ 0 \in 0 .. ConnectionSize
  BY TableAssumption DEF Slot
<1> QED BY <1>1 DEF Shrunk, EmptyTable, Table
==============================================================================
