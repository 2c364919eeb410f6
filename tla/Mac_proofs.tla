----------------------------- MODULE Mac_proofs -----------------------------
(***************************************************************************)
(* Proofs about the way of a frame through queue, MAC and PHY.  Of all the *)
(* frames handed on, at most one is unconfirmed, and it is in one of three *)
(* places: waiting for PHY_TxHandler, with the transceiver, or confirmed   *)
(* and not yet passed up.  That is why one flag, one status and one packet *)
(* are enough.                                                             *)
(***************************************************************************)
EXTENDS Mac, WellFoundedInduction, FunctionTheorems, FiniteSetTheorems, TLAPS

(* How many frames were handed to the MAC.                                 *)
Sent == queued - frameTxQueue.size

(* c lists the buffers of frameTxQueue, first to last.                     *)
Lists(c, q, next) ==
  /\ c \in [1 .. q.size -> Buffer]
  /\ q.size = 0 => q.head = Null /\ q.tail = Null
  /\ q.size # 0 => c[1] = q.head /\ c[q.size] = q.tail /\ next[q.tail] = Null
  /\ \A k \in 1 .. q.size : k # q.size => next[c[k]] = c[k + 1]

Fifo ==
  \E c \in [1 .. frameTxQueue.size -> Buffer] :
    /\ Lists(c, frameTxQueue, nextItem)
    /\ \A k \in 1 .. frameTxQueue.size : content[c[k]] = Sent + k

Idle == phyTxQueue = 0 /\ phyState = "IDLE" /\ ~ conf.available

(* The frame handed on last waits for PHY_TxHandler ...                    *)
Waits ==
  /\ phyTxQueue = 1 /\ packet = Sent
  /\ phyState = "IDLE" /\ ~ conf.available
  /\ ended[Sent] = "NONE"

(* ... or is with the transceiver, which may have finished it ...          *)
OnAir ==
  /\ phyTxQueue = 0 /\ phyState = "TX_WAIT_END" /\ ~ conf.available
  /\ \/ radio.sends = Sent /\ ~ radio.irq /\ ended[Sent] = "NONE"
     \/ radio.sends = None /\ radio.irq /\ ended[Sent] = radio.trac

(* ... or is confirmed, with its own outcome.                              *)
Confirmed ==
  /\ phyTxQueue = 0 /\ phyState = "IDLE" /\ conf.available
  /\ IF conf.status = "ERROR" THEN ended[Sent] = "NONE" ELSE ended[Sent] = conf.status

OneInFlight ==
  IF pace.received THEN Idle
  ELSE /\ pace.sentFrame \in Buffer /\ Sent > 0
       /\ content[pace.sentFrame] = Sent
       /\ Waits \/ OnAir \/ Confirmed

(* The transceiver sends just when the PHY waits for the end of it.        *)
ModeFollows ==
  IF phyState = "IDLE" THEN radio.mode = "RX_AACK_ON" /\ radio.sends = None
  ELSE radio.mode = "TX_ARET_ON"

Outcomes ==
  /\ Len(told) = IF pace.received THEN Sent ELSE Sent - 1
  /\ \A f \in Frames : f > Sent => ended[f] = "NONE"
  /\ ConfirmIsOwn

(* What was seen came before what is in a bank, and that before what the   *)
(* transceiver holds; never are two banks filled.                          *)
InOrder ==
  /\ \A b, c \in Filled : b = c
  /\ pc \in {"transmit", "status"} => Filled = {}
  /\ HeardInOrder
  /\ \A k \in DOMAIN seen :
       /\ seen[k] <= heard
       /\ \A b \in Filled : seen[k] < RxBuffer[b]
       /\ radio.buffer # None => seen[k] < radio.buffer
  /\ \A b \in Filled :
       /\ RxBuffer[b] <= heard
       /\ radio.buffer # None => RxBuffer[b] < radio.buffer
  /\ radio.buffer <= heard

IInv ==
  /\ TypeOK
  /\ Fifo
  /\ ModeFollows /\ OneInFlight
  /\ Outcomes
  /\ InOrder /\ OnlyOverrunLost

----------------------------------------------------------------------------
(* Induction over the numbers, for a set instead of a predicate.           *)
Less == {ss \in Nat \X Nat : ss[1] < ss[2]}

LEMMA SetInduction ==
  ASSUME NEW S, 0 \in S, \A n \in Nat : n \in S => n + 1 \in S
  PROVE  Nat \subseteq S
<1> DEFINE T == Nat \ S
<1> SUFFICES ASSUME T # {} PROVE FALSE
  OBVIOUS
<1>1. IsWellFoundedOn(Less, Nat)
  BY NatLessThanWellFounded DEF OpToRel, Less
<1>2. PICK x \in T : \A y \in T : ~ (<<y, x>> \in Less)
  BY <1>1, WFMin
<1>3. x \in Nat /\ x # 0 /\ x - 1 \in Nat /\ <<x - 1, x>> \in Less
  BY DEF Less
<1>4. x - 1 \in S
  BY <1>2, <1>3
<1>5. (x - 1) + 1 \in S
  BY <1>3, <1>4
<1> QED
  BY <1>3, <1>5

----------------------------------------------------------------------------
(* The operators of MiQueue.                                               *)

(* The chain that is followed from the head lists the buffers of a queue,  *)
(* and the queue is well linked.                                           *)
LEMMA ListsChain ==
  ASSUME NEW q, q.size \in Nat, NEW next, NEW c, Lists(c, q, next), Null \notin Buffer
  PROVE  /\ \A k \in 1 .. q.size : Chain(q, next)[k] = c[k]
         /\ WellLinked(q, next)
<1> DEFINE Step(f, k) == IF k = 1 THEN q.head
                         ELSE IF f[k - 1] = Null THEN Null ELSE next[f[k - 1]]
           g == [k \in Nat \ {0} |-> IF k <= q.size THEN c[k] ELSE Null]
           at == CHOOSE f : f = [k \in Nat \ {0} |-> Step(f, k)]
<1>1. \A k \in Nat \ {0} : g[k] = Step(g, k)
  <2> TAKE k \in Nat \ {0}
  <2>1. CASE k = 1
    BY <2>1 DEF Lists
  <2>2. CASE k # 1 /\ k <= q.size
    <3>1. k - 1 \in 1 .. q.size /\ k - 1 # q.size /\ (k - 1) + 1 = k
      BY <2>2
    <3>2. g[k - 1] = c[k - 1] /\ c[k - 1] \in Buffer
      BY <3>1 DEF Lists
    <3>3. next[c[k - 1]] = c[k]
      BY <3>1 DEF Lists
    <3> QED
      BY <2>2, <3>2, <3>3
  <2>3. CASE k # 1 /\ k = q.size + 1
    <3>1. g[k - 1] = q.tail /\ q.tail \in Buffer /\ next[q.tail] = Null
      BY <2>3 DEF Lists
    <3> QED
      BY <2>3, <3>1
  <2>4. CASE k # 1 /\ k > q.size + 1
    <3>1. g[k - 1] = Null /\ g[k] = Null
      BY <2>4
    <3> QED
      BY <2>4, <3>1
  <2> QED
    BY <2>1, <2>2, <2>3, <2>4
<1>2. g = [k \in Nat \ {0} |-> Step(g, k)]
  BY <1>1
<1>3. at = [k \in Nat \ {0} |-> Step(at, k)]
  BY <1>2
<1> HIDE DEF at, g
<1>4. \A k \in Nat \ {0} : at[k] = Step(at, k)
  BY <1>3
<1>5. \A k \in Nat \ {0} : at[k] = g[k]
  <2> DEFINE S == {k \in Nat : at[k + 1] = g[k + 1]}
  <2>1. 0 \in S
    BY <1>1, <1>4
  <2>2. \A k \in Nat : k \in S => k + 1 \in S
    <3> TAKE k \in Nat
    <3> HAVE k \in S
    <3>1. ((k + 1) + 1) - 1 = k + 1 /\ (k + 1) + 1 \in Nat \ {0} /\ (k + 1) + 1 # 1
      OBVIOUS
    <3>2. at[k + 1] = g[k + 1]
      OBVIOUS
    <3>3. Step(at, (k + 1) + 1) = Step(g, (k + 1) + 1)
      BY <3>1, <3>2
    <3> QED
      BY <1>1, <1>4, <3>1, <3>3
  <2>3. Nat \subseteq S
    <3> HIDE DEF S
    <3> QED
      BY <2>1, <2>2, SetInduction
  <2> TAKE k \in Nat \ {0}
  <2>4. k - 1 \in S /\ (k - 1) + 1 = k
    BY <2>3
  <2> QED
    BY <2>4
<1>6. Chain(q, next) = [k \in 1 .. q.size |-> at[k]]
  BY DEF Chain, at
<1>7. \A k \in 1 .. q.size : Chain(q, next)[k] = c[k]
  BY <1>5, <1>6 DEF g
<1>8. \A k \in 1 .. q.size : c[k] \in Buffer
  BY DEF Lists
<1>9. q.size # 0 => q.size \in 1 .. q.size
  OBVIOUS
<1>10. WellLinked(q, next)
  BY <1>7, <1>8, <1>9 DEF WellLinked, Lists
<1> QED
  BY <1>7, <1>10

(* miQueueAppend puts the buffer behind the others.                        *)
LEMMA AppendLists ==
  ASSUME NEW q, q.size \in Nat, NEW next \in [Buffer -> Buffer \union {Null}],
         NEW c, Lists(c, q, next), \A j, k \in 1 .. q.size : c[j] = c[k] => j = k,
         NEW b \in Buffer, \A k \in 1 .. q.size : c[k] # b
  PROVE  LET d == [k \in 1 .. (q.size + 1) |-> IF k = q.size + 1 THEN b ELSE c[k]]
         IN  Lists(d, Appended(q, b), LinkedAfter(q, next, b))
<1> DEFINE d == [k \in 1 .. (q.size + 1) |-> IF k = q.size + 1 THEN b ELSE c[k]]
           r == Appended(q, b)
           new == LinkedAfter(q, next, b)
<1>1. r.size = q.size + 1 /\ r.tail = b /\ r.head = (IF q.size = 0 THEN b ELSE q.head)
  BY DEF Appended
<1>2. \A x \in Buffer : new[x] = IF x = b THEN Null
                                 ELSE IF q.size # 0 /\ x = q.tail THEN b ELSE next[x]
  BY DEF LinkedAfter
<1>3. c \in [1 .. q.size -> Buffer]
  BY DEF Lists
<1>4. d \in [1 .. r.size -> Buffer]
  BY <1>1, <1>3
<1>5. d[1] = r.head /\ d[r.size] = r.tail /\ new[r.tail] = Null
  BY <1>1, <1>2 DEF Lists
<1>6. \A k \in 1 .. r.size : k # r.size => new[d[k]] = d[k + 1]
  <2> TAKE k \in 1 .. r.size
  <2> HAVE k # r.size
  <2>1. k \in 1 .. q.size /\ d[k] = c[k] /\ c[k] \in Buffer /\ c[k] # b /\ k + 1 \in 1 .. r.size
    BY <1>1, <1>3
  <2>2. CASE k = q.size
    BY <1>1, <1>2, <2>1, <2>2 DEF Lists
  <2>3. CASE k # q.size
    <3>1. c[k] # q.tail
      BY <2>1, <2>3 DEF Lists
    <3>2. new[c[k]] = next[c[k]] /\ next[c[k]] = c[k + 1]
      BY <1>2, <2>1, <2>3, <3>1 DEF Lists
    <3>3. d[k + 1] = c[k + 1]
      BY <1>1, <2>1, <2>3
    <3> QED
      BY <2>1, <3>2, <3>3
  <2> QED
    BY <2>2, <2>3
<1>7. r.size # 0
  BY <1>1
<1> QED
  BY <1>1, <1>4, <1>5, <1>6, <1>7 DEF Lists

(* miQueueReadOrRemove takes the first buffer out.                         *)
LEMMA RemoveLists ==
  ASSUME NEW q, q.size \in Nat \ {0}, NEW next, NEW c, Lists(c, q, next), Null \notin Buffer
  PROVE  Lists([k \in 1 .. (q.size - 1) |-> c[k + 1]], Removed(q, next), next)
<1> DEFINE d == [k \in 1 .. (q.size - 1) |-> c[k + 1]]
           r == Removed(q, next)
<1>1. c \in [1 .. q.size -> Buffer]
  BY DEF Lists
<1>2. r.size = q.size - 1 /\ r.head = next[q.head]
      /\ r.tail = (IF next[q.head] = Null THEN Null ELSE q.tail)
  BY DEF Removed
<1>3. d \in [1 .. r.size -> Buffer]
  BY <1>1, <1>2
<1>4. CASE q.size = 1
  <2>1. next[q.head] = Null /\ r.size = 0
    BY <1>2, <1>4 DEF Lists
  <2> QED
    BY <1>2, <1>3, <2>1 DEF Lists
<1>5. CASE q.size # 1
  <2>1. next[q.head] = c[2] /\ c[2] \in Buffer
    BY <1>1, <1>5 DEF Lists
  <2>2. d[1] = r.head /\ d[r.size] = r.tail /\ next[r.tail] = Null /\ r.size # 0
    BY <1>2, <1>5, <2>1 DEF Lists
  <2>3. \A k \in 1 .. r.size : k # r.size => next[d[k]] = d[k + 1]
    BY <1>2 DEF Lists
  <2> QED
    BY <1>3, <2>2, <2>3 DEF Lists
<1> QED
  BY <1>4, <1>5

----------------------------------------------------------------------------
(* The invariant.                                                          *)

LEMMA InitInv == Init => IInv
<1> SUFFICES ASSUME Init PROVE IInv
  OBVIOUS
<1> USE MacAssumption DEF Init
<1>1. Cardinality(Buffer) \in Nat
  BY FS_CardinalityType
<1>2. TypeOK
  BY <1>1 DEF TypeOK, EmptyQueue, Statuses, None, Frames, Arrivals
<1>3. Fifo
  <2> DEFINE c == [k \in 1 .. 0 |-> Null]
  <2>1. c \in [1 .. frameTxQueue.size -> Buffer]
    BY DEF EmptyQueue
  <2>2. Lists(c, frameTxQueue, nextItem)
    BY <2>1 DEF EmptyQueue, Lists
  <2> QED
    BY <2>1, <2>2 DEF Fifo, EmptyQueue
<1>4. ModeFollows /\ OneInFlight
  BY DEF ModeFollows, OneInFlight, Idle
<1>5. Outcomes
  BY DEF Outcomes, ConfirmIsOwn, Sent, EmptyQueue
<1>6. InOrder
  BY DEF InOrder, HeardInOrder, Filled, None
<1>7. OnlyOverrunLost
  BY DEF OnlyOverrunLost, None
<1> QED
  BY <1>2, <1>3, <1>4, <1>5, <1>6, <1>7 DEF IInv

(* What the types say of the numbers.                                      *)
LEMMA Numbers ==
  ASSUME IInv
  PROVE  /\ queued \in Nat /\ frameTxQueue.size \in Nat /\ queued <= QueuedMax
         /\ Sent \in Nat /\ Sent <= queued /\ Sent + frameTxQueue.size = queued
         /\ Len(told) \in Nat /\ DOMAIN told = 1 .. Len(told)
         /\ heard \in Nat /\ Len(seen) \in Nat /\ DOMAIN seen = 1 .. Len(seen)
<1> USE MacAssumption DEF IInv, TypeOK
<1>1. queued \in Nat /\ queued <= QueuedMax /\ heard \in Nat
  OBVIOUS
<1>2. Cardinality(Buffer) \in Nat
  BY FS_CardinalityType
<1>3. frameTxQueue.size \in Nat
  BY <1>2
<1>4. Len(told) \in Nat /\ DOMAIN told = 1 .. Len(told)
  OBVIOUS
<1>5. Len(seen) \in Nat /\ DOMAIN seen = 1 .. Len(seen)
  OBVIOUS
<1>6. Len(told) = IF pace.received THEN Sent ELSE Sent - 1
  BY DEF Outcomes
<1> QED
  BY <1>1, <1>3, <1>4, <1>5, <1>6 DEF Sent

(* A queue never holds more frames than there are buffers.                 *)
LEMMA ListIsShort ==
  ASSUME NEW n \in Nat, NEW c \in [1 .. n -> Buffer], \A j, k \in 1 .. n : c[j] = c[k] => j = k
  PROVE  n \in 0 .. Cardinality(Buffer)
<1>1. IsFiniteSet(Buffer) /\ Cardinality(Buffer) \in Nat
  BY MacAssumption, FS_CardinalityType
<1>2. c \in Injection(1 .. n, Buffer)
  BY DEF Injection, IsInjective
<1>3. Cardinality(1 .. n) <= Cardinality(Buffer)
  BY <1>1, <1>2, FS_Injection
<1>4. Cardinality(1 .. n) = n
  BY FS_Interval
<1> QED
  BY <1>1, <1>3, <1>4

LEMMA TransmitKeeps ==
  ASSUME IInv, frameTransmit
  PROVE  IInv'
<1> USE DEF frameTransmit, down, rx, chip
<1> PICK b \in Buffer :
      /\ content[b] = None
      /\ content' = [content EXCEPT ![b] = queued + 1]
      /\ frameTxQueue' = Appended(frameTxQueue, b)
      /\ nextItem' = LinkedAfter(frameTxQueue, nextItem, b)
  OBVIOUS
<1> PICK c \in [1 .. frameTxQueue.size -> Buffer] :
      /\ Lists(c, frameTxQueue, nextItem)
      /\ \A k \in 1 .. frameTxQueue.size : content[c[k]] = Sent + k
  BY DEF IInv, Fifo
<1> DEFINE n == frameTxQueue.size + 1
           d == [k \in 1 .. n |-> IF k = n THEN b ELSE c[k]]
<1>0. /\ queued' = queued + 1 /\ queued + 1 \in Frames /\ queued + 1 \in 0 .. QueuedMax
      /\ frameTxQueue'.size = n /\ n \in Nat /\ Sent' = Sent
      /\ \A x \in Buffer : content'[x] = IF x = b THEN queued + 1 ELSE content[x]
  BY Numbers, MacAssumption DEF Appended, Sent, Frames, IInv, TypeOK
<1>1. \A j, k \in 1 .. frameTxQueue.size : c[j] = c[k] => j = k
  BY Numbers
<1>2. \A k \in 1 .. frameTxQueue.size : c[k] # b
  BY Numbers DEF None
<1>3. nextItem \in [Buffer -> Buffer \union {Null}]
  BY DEF IInv, TypeOK
<1>4. Lists(d, frameTxQueue', nextItem')
  BY <1>1, <1>2, <1>3, Numbers, AppendLists
<1>5. d \in [1 .. n -> Buffer]
  BY Numbers
<1>6. \A k \in 1 .. n : content'[d[k]] = Sent + k
  <2> TAKE k \in 1 .. n
  <2>1. CASE k = n
    BY <2>1, <1>0, Numbers
  <2>2. CASE k # n
    <3>1. k \in 1 .. frameTxQueue.size /\ d[k] = c[k] /\ c[k] \in Buffer
      BY <2>2, Numbers
    <3> QED
      BY <3>1, <1>0, <1>2
  <2> QED
    BY <2>1, <2>2
<1>7. Fifo'
  <2> HIDE DEF d, n
  <2>1. /\ d \in [1 .. frameTxQueue'.size -> Buffer]
        /\ \A k \in 1 .. frameTxQueue'.size : content'[d[k]] = Sent' + k
    BY <1>0, <1>5, <1>6
  <2> QED
    BY <1>4, <2>1, Zenon DEF Fifo
<1>8. TypeOK'
  <2>1. \A j, k \in 1 .. n : d[j] = d[k] => j = k
    <3> TAKE j, k \in 1 .. n
    <3>1. \A x \in 1 .. n : \/ x = n /\ d[x] = b
                            \/ x \in 1 .. frameTxQueue.size /\ d[x] = c[x]
      BY Numbers
    <3> HIDE DEF d, n
    <3> QED
      BY <1>1, <1>2, <3>1
  <2>2. n \in 0 .. Cardinality(Buffer)
    BY <1>0, <1>5, <2>1, ListIsShort
  <2>3. frameTxQueue' \in [head : Buffer \union {Null}, tail : Buffer \union {Null},
                           size : 0 .. Cardinality(Buffer)]
    BY <2>2 DEF Appended, IInv, TypeOK
  <2>4. nextItem' \in [Buffer -> Buffer \union {Null}]
    BY DEF LinkedAfter, IInv, TypeOK
  <2>5. content' \in [Buffer -> Frames \union {None}]
    BY <1>0 DEF IInv, TypeOK
  <2> QED
    BY <1>0, <2>3, <2>4, <2>5 DEF IInv, TypeOK
<1>9. ModeFollows' /\ OneInFlight'
  <2>1. pace.sentFrame \in Buffer /\ content[pace.sentFrame] = Sent /\ Sent > 0
        => content'[pace.sentFrame] = Sent
    BY <1>0 DEF None
  <2>2. OneInFlight'
    BY <1>0, <2>1 DEF IInv, OneInFlight, Idle, Waits, OnAir, Confirmed
  <2> QED
    BY <2>2 DEF IInv, ModeFollows
<1>10. Outcomes'
  BY <1>0 DEF IInv, Outcomes, ConfirmIsOwn
<1>11. InOrder' /\ OnlyOverrunLost'
  BY DEF IInv, InOrder, OnlyOverrunLost, HeardInOrder, Filled
<1> QED
  BY <1>7, <1>8, <1>9, <1>10, <1>11 DEF IInv

LEMMA DurationKeeps ==
  ASSUME IInv, DurationEnds
  PROVE  IInv'
<1> USE DEF DurationEnds, down, rx, chip
<1>1. pace' \in [sentFrame : Buffer \union {Null}, received : BOOLEAN, over : BOOLEAN]
      /\ pace'.sentFrame = pace.sentFrame /\ pace'.received = pace.received
  BY DEF IInv, TypeOK
<1>2. TypeOK'
  BY <1>1 DEF IInv, TypeOK
<1>3. Fifo' /\ Sent' = Sent
  BY DEF IInv, Fifo, Sent
<1>4. ModeFollows' /\ OneInFlight'
  BY <1>1, <1>3 DEF IInv, ModeFollows, OneInFlight, Idle, Waits, OnAir, Confirmed
<1>5. Outcomes'
  BY <1>1, <1>3 DEF IInv, Outcomes, ConfirmIsOwn
<1>6. InOrder' /\ OnlyOverrunLost'
  BY DEF IInv, InOrder, OnlyOverrunLost, HeardInOrder, Filled
<1> QED
  BY <1>2, <1>3, <1>4, <1>5, <1>6 DEF IInv

(* P2PTasks hands the first frame on.                                      *)
LEMMA SendKeeps ==
  ASSUME IInv, SendNext
  PROVE  IInv'
<1> USE DEF SendNext, MaySend, rx, chip
<1> PICK c \in [1 .. frameTxQueue.size -> Buffer] :
      /\ Lists(c, frameTxQueue, nextItem)
      /\ \A k \in 1 .. frameTxQueue.size : content[c[k]] = Sent + k
  BY DEF IInv, Fifo
<1> PICK hasMemory \in BOOLEAN : PHY_DataReq(hasMemory)
  OBVIOUS
<1> DEFINE n == frameTxQueue.size - 1
           d == [k \in 1 .. n |-> c[k + 1]]
<1>1. /\ frameTxQueue.size \in Nat \ {0} /\ n \in Nat
      /\ frameTxQueue'.size = n /\ queued' = queued /\ Sent' = Sent + 1
  BY Numbers DEF Removed, Sent
<1>2. /\ frameTxQueue.head = c[1] /\ c[1] \in Buffer /\ content[c[1]] = Sent + 1
      /\ Sent + 1 \in Frames
  BY <1>1, Numbers, MacAssumption, SMTT(30) DEF Lists, Frames
<1>3. Lists(d, frameTxQueue', nextItem')
  BY <1>1, RemoveLists, MacAssumption
<1>4. d \in [1 .. n -> Buffer] /\ \A k \in 1 .. n : content[d[k]] = (Sent + 1) + k
  <2>1. \A k \in 1 .. n : k + 1 \in 1 .. frameTxQueue.size /\ Sent + (k + 1) = (Sent + 1) + k
    <3>1. Sent \in Nat /\ frameTxQueue.size \in Nat
      BY Numbers
    <3> QED
      BY <3>1
  <2>2. \A k \in 1 .. n : c[k + 1] \in Buffer /\ content[c[k + 1]] = (Sent + 1) + k
    BY <2>1
  <2> HIDE DEF n
  <2> QED
    BY <2>2
<1>5. Fifo'
  <2> HIDE DEF d, n
  <2>1. /\ d \in [1 .. frameTxQueue'.size -> Buffer]
        /\ \A k \in 1 .. frameTxQueue'.size : content'[d[k]] = Sent' + k
    BY <1>1, <1>4
  <2> QED
    BY <1>3, <2>1, Zenon DEF Fifo
<1>6. pace.received /\ Idle
  BY DEF IInv, OneInFlight
<1>7. TypeOK'
  <2>1. nextItem[frameTxQueue.head] \in Buffer \union {Null}
    BY <1>2 DEF IInv, TypeOK
  <2>2. n \in 0 .. Cardinality(Buffer)
    BY <1>1, MacAssumption, FS_CardinalityType DEF IInv, TypeOK
  <2>3. frameTxQueue' \in [head : Buffer \union {Null}, tail : Buffer \union {Null},
                           size : 0 .. Cardinality(Buffer)]
    BY <1>1, <2>1, <2>2 DEF Removed, IInv, TypeOK
  <2>4. /\ pace' \in [sentFrame : Buffer \union {Null}, received : BOOLEAN, over : BOOLEAN]
        /\ packet' \in Frames \union {None}
    BY <1>2
  <2>5. phyTxQueue' \in 0 .. 1
    BY <1>6 DEF PHY_DataReq, Idle
  <2>6. conf' \in [available : BOOLEAN, status : Statuses \union {"ERROR"}]
    <3>1. conf' = conf \/ conf' = [available |-> TRUE, status |-> "ERROR"]
      BY DEF PHY_DataReq
    <3>2. conf \in [available : BOOLEAN, status : Statuses \union {"ERROR"}]
      BY DEF IInv, TypeOK
    <3>3. [available |-> TRUE, status |-> "ERROR"]
            \in [available : BOOLEAN, status : Statuses \union {"ERROR"}]
      OBVIOUS
    <3> QED
      BY <3>1, <3>2, <3>3, Zenon
  <2> QED
    BY <2>3, <2>4, <2>5, <2>6 DEF IInv, TypeOK
<1>8. ModeFollows' /\ OneInFlight'
  <2>1. ended[Sent + 1] = "NONE"
    BY <1>2, Numbers DEF IInv, Outcomes
  <2>2. /\ pace'.sentFrame \in Buffer /\ Sent' > 0 /\ ~ pace'.received
        /\ content'[pace'.sentFrame] = Sent'
    BY <1>1, <1>2, Numbers
  <2>3. packet' = Sent' /\ ended'[Sent'] = "NONE"
    BY <1>1, <1>2, <2>1
  <2>4. CASE hasMemory
    <3>1. Waits'
      BY <1>6, <2>3, <2>4 DEF PHY_DataReq, Idle, Waits
    <3> QED
      BY <2>2, <3>1 DEF OneInFlight, IInv, ModeFollows
  <2>5. CASE ~ hasMemory
    <3>1. Confirmed'
      BY <1>6, <2>3, <2>5 DEF PHY_DataReq, Idle, Confirmed
    <3> QED
      BY <2>2, <3>1 DEF OneInFlight, IInv, ModeFollows
  <2> QED
    BY <2>4, <2>5
<1>9. Outcomes'
  <2>1. Len(told') = Sent /\ told' = told /\ ended' = ended /\ ~ pace'.received
    BY <1>6 DEF IInv, Outcomes
  <2>2. \A f \in Frames : f > Sent' => ended'[f] = "NONE"
    BY <1>1, <2>1, Numbers DEF IInv, Outcomes, Frames
  <2>3. ConfirmIsOwn'
    BY <2>1 DEF IInv, Outcomes, ConfirmIsOwn
  <2> QED
    BY <1>1, <2>1, <2>2, <2>3, Numbers DEF Outcomes
<1>10. InOrder' /\ OnlyOverrunLost'
  BY DEF IInv, InOrder, OnlyOverrunLost, HeardInOrder, Filled
<1> QED
  BY <1>5, <1>7, <1>8, <1>9, <1>10 DEF IInv

LEMMA NothingKeeps ==
  ASSUME IInv, NothingToSend
  PROVE  IInv'
<1> USE DEF NothingToSend, tx, down, rx, chip
<1>1. TypeOK'
  BY DEF IInv, TypeOK
<1>2. Fifo' /\ Sent' = Sent
  BY DEF IInv, Fifo, Sent
<1>3. ModeFollows' /\ OneInFlight'
  BY <1>2 DEF IInv, ModeFollows, OneInFlight, Idle, Waits, OnAir, Confirmed
<1>4. Outcomes'
  BY <1>2 DEF IInv, Outcomes, ConfirmIsOwn
<1>5. InOrder' /\ OnlyOverrunLost'
  BY DEF IInv, InOrder, OnlyOverrunLost, HeardInOrder, Filled
<1> QED
  BY <1>1, <1>2, <1>3, <1>4, <1>5 DEF IInv

(* The one filled bank is the lowest, and it is emptied.                   *)
LEMMA ReceivedKeeps ==
  ASSUME IInv, MiMAC_ReceivedPacket
  PROVE  IInv'
<1> USE DEF MiMAC_ReceivedPacket, tx, down, chip
<1>1. Fifo' /\ Sent' = Sent
  BY DEF IInv, Fifo, Sent
<1>2. ModeFollows' /\ OneInFlight'
  BY <1>1 DEF IInv, ModeFollows, OneInFlight, Idle, Waits, OnAir, Confirmed
<1>3. Outcomes'
  BY <1>1 DEF IInv, Outcomes, ConfirmIsOwn
<1>4. CASE Filled = {}
  <2>1. RxBuffer' = RxBuffer /\ seen' = seen /\ Filled' = Filled
    BY <1>4 DEF rx, Filled
  <2>2. TypeOK'
    BY <2>1 DEF IInv, TypeOK
  <2>3. InOrder' /\ OnlyOverrunLost'
    BY <1>4, <2>1 DEF IInv, InOrder, OnlyOverrunLost, HeardInOrder
  <2> QED
    BY <1>1, <1>2, <1>3, <2>2, <2>3 DEF IInv
<1>5. CASE Filled # {}
  <2> PICK b \in Filled : TRUE
    BY <1>5
  <2>1. Filled = {b} /\ b \in Banks /\ b \in Nat
    BY MacAssumption DEF IInv, InOrder, Filled, Banks
  <2>2. Lowest(Filled) = b
    BY <2>1 DEF Lowest
  <2>3. RxBuffer[b] \in Arrivals /\ RxBuffer[b] # None
    BY <2>1 DEF IInv, TypeOK, Filled
  <2>4. seen' = Append(seen, RxBuffer[b]) /\ RxBuffer' = [RxBuffer EXCEPT ![b] = None]
    BY <1>5, <2>2 DEF Discarded
  <2>5. TypeOK'
    BY <2>1, <2>3, <2>4 DEF IInv, TypeOK
  <2>6. Filled' = {}
    BY <2>1, <2>4 DEF Filled, IInv, TypeOK
  <2>7. /\ Len(seen') = Len(seen) + 1 /\ DOMAIN seen' = 1 .. (Len(seen) + 1)
        /\ \A k \in DOMAIN seen : seen'[k] = seen[k] /\ seen[k] \in Arrivals
        /\ seen'[Len(seen) + 1] = RxBuffer[b]
    BY <2>3, <2>4, Numbers DEF IInv, TypeOK
  <2>8. \A k \in DOMAIN seen' : k = Len(seen) + 1 \/ k \in DOMAIN seen
    BY <2>7, Numbers
  <2>9. InOrder'
    <3>1. HeardInOrder'
      <4> SUFFICES ASSUME NEW j \in DOMAIN seen', NEW k \in DOMAIN seen', j < k
                   PROVE  seen'[j] < seen'[k]
        BY DEF HeardInOrder
      <4>1. j \in DOMAIN seen
        BY <2>7, <2>8, Numbers
      <4>2. CASE k \in DOMAIN seen
        BY <4>1, <4>2, <2>7 DEF IInv, InOrder, HeardInOrder
      <4>3. CASE k = Len(seen) + 1
        BY <4>1, <4>3, <2>7 DEF IInv, InOrder
      <4> QED
        BY <4>2, <4>3, <2>8
    <3>2. \A k \in DOMAIN seen' :
            seen'[k] <= heard /\ (radio.buffer # None => seen'[k] < radio.buffer)
      <4> TAKE k \in DOMAIN seen'
      <4>1. CASE k \in DOMAIN seen
        BY <4>1, <2>7 DEF IInv, InOrder
      <4>2. CASE k = Len(seen) + 1
        BY <4>2, <2>7 DEF IInv, InOrder
      <4> QED
        BY <4>1, <4>2, <2>8
    <3> QED
      BY <2>6, <3>1, <3>2 DEF IInv, InOrder
  <2>10. OnlyOverrunLost'
    <3>1. {seen'[k] : k \in DOMAIN seen'} = {seen[k] : k \in DOMAIN seen} \union {RxBuffer[b]}
      <4>1. \A k \in DOMAIN seen : k \in DOMAIN seen'
        BY <2>7, Numbers
      <4>2. Len(seen) + 1 \in DOMAIN seen'
        BY <2>7, Numbers
      <4> QED
        BY <2>7, <2>8, <4>1, <4>2
    <3>2. {RxBuffer[x] : x \in Banks} \ {None} = {RxBuffer[b]}
      BY <2>1, <2>3 DEF Filled
    <3>3. {RxBuffer'[x] : x \in Banks} \ {None} = {}
      BY <2>6 DEF Filled
    <3>4. 1 .. heard = {seen'[k] : k \in DOMAIN seen'} \union overrun
                        \union (({radio.buffer} \union {RxBuffer'[x] : x \in Banks}) \ {None})
      BY <3>1, <3>2, <3>3 DEF IInv, OnlyOverrunLost
    <3> QED
      BY <3>4 DEF IInv, OnlyOverrunLost
  <2> QED
    BY <1>1, <1>2, <1>3, <2>5, <2>9, <2>10 DEF IInv
<1> QED
  BY <1>4, <1>5

(* What a started transmission overwrites is an overrun.                   *)
LEMMA TxHandlerKeeps ==
  ASSUME IInv, PHY_TxHandler
  PROVE  IInv'
<1> USE DEF PHY_TxHandler, tx, rx
<1>1. Fifo' /\ Sent' = Sent
  BY DEF IInv, Fifo, Sent
<1>2. Outcomes'
  BY <1>1 DEF IInv, Outcomes, ConfirmIsOwn
<1>3. CASE phyTxQueue # 0 /\ phyState = "IDLE"
  <2>1. /\ ~ pace.received /\ Waits /\ phyTxQueue' = 0
        /\ pace.sentFrame \in Buffer /\ Sent > 0 /\ content[pace.sentFrame] = Sent
    BY <1>3 DEF IInv, OneInFlight, Idle, Waits, OnAir, Confirmed
  <2>2. /\ radio'.mode = "TX_ARET_ON" /\ radio'.irq = FALSE /\ radio'.sends = packet
        /\ radio'.buffer = None /\ radio'.trac = radio.trac
        /\ radio' \in [mode : {"RX_AACK_ON", "TX_ARET_ON"}, irq : BOOLEAN,
                       sends : Frames \union {None}, buffer : Arrivals \union {None},
                       trac : Statuses]
    BY <1>3, ZenonT(60) DEF Started, IInv, TypeOK
  <2>3. TypeOK'
    BY <1>3, <2>1, <2>2 DEF IInv, TypeOK
  <2>4. OnAir'
    BY <1>1, <1>3, <2>1, <2>2 DEF OnAir, Waits
  <2>5. ModeFollows' /\ OneInFlight'
    BY <1>1, <1>3, <2>1, <2>2, <2>4 DEF ModeFollows, OneInFlight
  <2>6. InOrder'
    <3>1. None <= heard
      BY Numbers DEF None
    <3> QED
      BY <1>3, <2>2, <3>1 DEF IInv, InOrder, HeardInOrder, Filled
  <2>7. OnlyOverrunLost'
    BY <1>3, <2>2 DEF IInv, OnlyOverrunLost
  <2> QED
    BY <1>1, <1>2, <2>3, <2>5, <2>6, <2>7 DEF IInv
<1>4. CASE ~ (phyTxQueue # 0 /\ phyState = "IDLE")
  <2>1. UNCHANGED <<radio, overrun, phyState, phyTxQueue>>
    BY <1>4
  <2>2. TypeOK'
    BY <2>1 DEF IInv, TypeOK
  <2>3. ModeFollows' /\ OneInFlight'
    BY <1>1, <2>1 DEF IInv, ModeFollows, OneInFlight, Idle, Waits, OnAir, Confirmed
  <2>4. InOrder' /\ OnlyOverrunLost'
    BY <2>1 DEF IInv, InOrder, OnlyOverrunLost, HeardInOrder, Filled
  <2> QED
    BY <1>1, <1>2, <2>2, <2>3, <2>4 DEF IInv
<1> QED
  BY <1>3, <1>4

(* No bank is filled when the PHY fetches a frame: there is a free one.    *)
LEMMA FrameReceivedKeeps ==
  ASSUME IInv, PHY_TaskHandler, radio.irq, FrameReceived
  PROVE  IInv'
<1> USE DEF PHY_TaskHandler, FrameReceived, tx
<1> DEFINE b == Lowest(Banks \ Filled)
<1>1. Filled = {} /\ 0 \in Banks /\ b = 0 /\ Banks # Filled
  <2>1. Filled = {} /\ 0 \in Banks /\ \A x \in Banks : x \in Nat
    BY MacAssumption DEF IInv, InOrder, Banks
  <2>2. Lowest(Banks) = 0
    BY <2>1 DEF Lowest
  <2> QED
    BY <2>1, <2>2
<1>2. /\ RxBuffer' = [RxBuffer EXCEPT ![0] = radio.buffer]
      /\ radio' = [radio EXCEPT !.irq = FALSE, !.buffer = None]
      /\ phyState' = phyState /\ phyState = "IDLE" /\ conf' = conf
  BY <1>1
<1> HIDE DEF FrameReceived
<1>3. /\ radio'.mode = radio.mode /\ radio'.irq = FALSE /\ radio'.sends = radio.sends
      /\ radio'.buffer = None /\ radio'.trac = radio.trac
      /\ radio' \in [mode : {"RX_AACK_ON", "TX_ARET_ON"}, irq : BOOLEAN,
                     sends : Frames \union {None}, buffer : Arrivals \union {None},
                     trac : Statuses]
  BY <1>2 DEF IInv, TypeOK
<1>4. /\ radio.buffer \in Arrivals \union {None}
      /\ RxBuffer \in [Banks -> Arrivals \union {None}]
      /\ RxBuffer' \in [Banks -> Arrivals \union {None}]
  BY <1>2 DEF IInv, TypeOK
<1>5. TypeOK'
  BY <1>2, <1>3, <1>4 DEF IInv, TypeOK
<1>6. Fifo' /\ Sent' = Sent
  BY DEF IInv, Fifo, Sent
<1>7. Outcomes'
  BY <1>6 DEF IInv, Outcomes, ConfirmIsOwn
<1>8. ModeFollows' /\ OneInFlight'
  BY <1>2, <1>3, <1>6 DEF IInv, ModeFollows, OneInFlight, Idle, Waits, OnAir, Confirmed
<1>9. /\ RxBuffer'[0] = radio.buffer
      /\ \A x \in Banks \ {0} : RxBuffer'[x] = None
  BY <1>1, <1>2, <1>4 DEF Filled
<1>10. InOrder'
  <2>1. Filled' \subseteq {0}
    BY <1>9 DEF Filled
  <2>2. 0 \in Filled' => radio.buffer # None
    BY <1>9 DEF Filled
  <2>3. None <= heard
    BY Numbers DEF None
  <2> QED
    BY <1>1, <1>3, <1>9, <2>1, <2>2, <2>3 DEF IInv, InOrder, HeardInOrder
<1>11. OnlyOverrunLost'
  <2>1. {RxBuffer[x] : x \in Banks} \subseteq {None}
    BY <1>1 DEF Filled
  <2>2. {RxBuffer'[x] : x \in Banks} \ {None} = {radio.buffer} \ {None}
    BY <1>1, <1>9
  <2>3. ({radio'.buffer} \union {RxBuffer'[x] : x \in Banks}) \ {None}
          = ({radio.buffer} \union {RxBuffer[x] : x \in Banks}) \ {None}
    BY <1>3, <2>1, <2>2
  <2> QED
    BY <1>3, <2>3 DEF IInv, OnlyOverrunLost
<1> QED
  BY <1>5, <1>6, <1>7, <1>8, <1>10, <1>11 DEF IInv

(* The status read belongs to the frame in flight.                         *)
LEMMA FrameSentKeeps ==
  ASSUME IInv, PHY_TaskHandler, radio.irq, FrameSent
  PROVE  IInv'
<1> USE DEF PHY_TaskHandler, FrameSent, tx
<1>1. /\ radio'.mode = "RX_AACK_ON" /\ radio'.irq = FALSE /\ radio'.sends = radio.sends
      /\ radio'.buffer = radio.buffer /\ radio'.trac = radio.trac
      /\ radio' \in [mode : {"RX_AACK_ON", "TX_ARET_ON"}, irq : BOOLEAN,
                     sends : Frames \union {None}, buffer : Arrivals \union {None},
                     trac : Statuses]
  BY DEF IInv, TypeOK
<1>2. /\ conf' \in [available : BOOLEAN, status : Statuses \union {"ERROR"}]
      /\ conf'.available = TRUE /\ conf'.status = radio.trac
      /\ radio.trac \in Statuses /\ radio.trac # "ERROR"
  BY DEF IInv, TypeOK, Statuses
<1>3. TypeOK'
  BY <1>1, <1>2 DEF IInv, TypeOK
<1>4. Fifo' /\ Sent' = Sent
  BY DEF IInv, Fifo, Sent
<1>5. Outcomes'
  BY <1>4 DEF IInv, Outcomes, ConfirmIsOwn
<1>6. /\ ~ pace.received /\ OnAir /\ radio.sends = None /\ ended[Sent] = radio.trac
      /\ pace.sentFrame \in Buffer /\ Sent > 0 /\ content[pace.sentFrame] = Sent
  BY DEF IInv, OneInFlight, Idle, Waits, OnAir, Confirmed
<1>7. Confirmed'
  BY <1>1, <1>2, <1>4, <1>6 DEF Confirmed, OnAir
<1>8. ModeFollows' /\ OneInFlight'
  BY <1>1, <1>4, <1>6, <1>7 DEF ModeFollows, OneInFlight
<1>9. radio.buffer = None
  BY DEF IInv, OnlyOverrunLost
<1>10. InOrder' /\ OnlyOverrunLost'
  BY <1>1, <1>9 DEF IInv, InOrder, OnlyOverrunLost, HeardInOrder, Filled
<1> QED
  BY <1>3, <1>4, <1>5, <1>8, <1>10 DEF IInv

LEMMA TaskHandlerKeeps ==
  ASSUME IInv, PHY_TaskHandler
  PROVE  IInv'
<1> USE DEF PHY_TaskHandler, tx
<1>1. CASE ~ radio.irq /\ UNCHANGED <<RxBuffer, radio, conf, phyState>>
  <2>1. TypeOK'
    BY <1>1 DEF IInv, TypeOK
  <2>2. Fifo' /\ Sent' = Sent
    BY DEF IInv, Fifo, Sent
  <2>3. ModeFollows' /\ OneInFlight'
    BY <1>1, <2>2 DEF IInv, ModeFollows, OneInFlight, Idle, Waits, OnAir, Confirmed
  <2>4. Outcomes'
    BY <2>2 DEF IInv, Outcomes, ConfirmIsOwn
  <2>5. InOrder' /\ OnlyOverrunLost'
    BY <1>1 DEF IInv, InOrder, OnlyOverrunLost, HeardInOrder, Filled
  <2> QED
    BY <2>1, <2>2, <2>3, <2>4, <2>5 DEF IInv
<1> QED
  BY <1>1, FrameReceivedKeeps, FrameSentKeeps

(* frameTxCallback gets the frame that was handed on last, and its buffer  *)
(* is none of those on the queue.                                          *)
LEMMA ConfirmKeeps ==
  ASSUME IInv, MiMAC_Task
  PROVE  IInv'
<1> USE DEF MiMAC_Task, rx, chip
<1>1. Sent' = Sent
  BY DEF Sent
<1>2. CASE conf.available
  <2> DEFINE entry == [frame |-> content[pace.sentFrame], status |-> conf.status]
  <2>1. /\ ~ pace.received /\ Confirmed
        /\ pace.sentFrame \in Buffer /\ Sent > 0 /\ content[pace.sentFrame] = Sent
    BY <1>2 DEF IInv, OneInFlight, Idle, Waits, OnAir
  <2>2. Sent \in Frames /\ Len(told) = Sent - 1
    BY <2>1, Numbers, MacAssumption DEF Frames, IInv, Outcomes
  <2>3. entry \in [frame : Frames, status : Statuses \union {"ERROR"}]
    BY <2>1, <2>2 DEF IInv, TypeOK
  <2>4. told' = Append(told, entry)
    BY <1>2
  <2>5. /\ Len(told') = Sent /\ DOMAIN told' = 1 .. Sent
        /\ \A k \in 1 .. Sent - 1 : told'[k] = told[k]
        /\ told'[Sent] = entry
    BY <2>2, <2>3, <2>4, Numbers DEF IInv, TypeOK
  <2>6. /\ pace'.received = TRUE /\ conf'.available = FALSE
        /\ pace' \in [sentFrame : Buffer \union {Null}, received : BOOLEAN, over : BOOLEAN]
        /\ conf' \in [available : BOOLEAN, status : Statuses \union {"ERROR"}]
    BY <1>2, ZenonT(60) DEF IInv, TypeOK
  <2>7. content' = [content EXCEPT ![pace.sentFrame] = None]
    BY <1>2
  <2>8. TypeOK'
    <3>1. told' \in Seq([frame : Frames, status : Statuses \union {"ERROR"}])
      BY <2>3, <2>4 DEF IInv, TypeOK
    <3>2. content' \in [Buffer -> Frames \union {None}]
      BY <2>7 DEF IInv, TypeOK
    <3> QED
      BY <2>6, <3>1, <3>2 DEF IInv, TypeOK
  <2>9. Fifo'
    <3> PICK c \in [1 .. frameTxQueue.size -> Buffer] :
          /\ Lists(c, frameTxQueue, nextItem)
          /\ \A k \in 1 .. frameTxQueue.size : content[c[k]] = Sent + k
      BY DEF IInv, Fifo
    <3>1. \A k \in 1 .. frameTxQueue.size : c[k] # pace.sentFrame
      BY <2>1, Numbers
    <3>2. \A k \in 1 .. frameTxQueue.size : content'[c[k]] = Sent + k
      BY <2>7, <3>1 DEF IInv, TypeOK
    <3> QED
      BY <1>1, <3>2 DEF Fifo
  <2>10. ModeFollows' /\ OneInFlight'
    BY <1>1, <2>1, <2>6 DEF IInv, ModeFollows, OneInFlight, Idle, Confirmed
  <2>11. Outcomes'
    <3>1. ConfirmIsOwn'
      <4> SUFFICES ASSUME NEW k \in 1 .. Sent
                   PROVE  /\ told'[k].frame = k
                          /\ IF told'[k].status = "ERROR" THEN ended[k] = "NONE"
                             ELSE ended[k] = told'[k].status
        BY <2>5 DEF ConfirmIsOwn
      <4>1. CASE k = Sent
        BY <2>1, <2>5, <4>1 DEF Confirmed
      <4>2. CASE k # Sent
        <5>1. k \in 1 .. Sent - 1 /\ k \in DOMAIN told
          BY <2>2, <4>2, Numbers
        <5> QED
          BY <2>5, <5>1 DEF IInv, Outcomes, ConfirmIsOwn
      <4> QED
        BY <4>1, <4>2
    <3> QED
      BY <1>1, <2>5, <2>6, <3>1 DEF IInv, Outcomes
  <2>12. InOrder' /\ OnlyOverrunLost'
    BY DEF IInv, InOrder, OnlyOverrunLost, HeardInOrder, Filled
  <2> QED
    BY <2>8, <2>9, <2>10, <2>11, <2>12 DEF IInv
<1>3. CASE ~ conf.available
  <2>1. UNCHANGED <<told, pace, content, conf>>
    BY <1>3
  <2>2. TypeOK'
    BY <2>1 DEF IInv, TypeOK
  <2>3. Fifo'
    BY <1>1, <2>1 DEF IInv, Fifo
  <2>4. ModeFollows' /\ OneInFlight'
    BY <1>1, <2>1 DEF IInv, ModeFollows, OneInFlight, Idle, Waits, OnAir, Confirmed
  <2>5. Outcomes'
    BY <1>1, <2>1 DEF IInv, Outcomes, ConfirmIsOwn
  <2>6. InOrder' /\ OnlyOverrunLost'
    BY DEF IInv, InOrder, OnlyOverrunLost, HeardInOrder, Filled
  <2> QED
    BY <2>2, <2>3, <2>4, <2>5, <2>6 DEF IInv
<1> QED
  BY <1>2, <1>3

(* The transceiver hears only when the PHY is idle and the frame before    *)
(* was fetched.                                                            *)
LEMMA ArrivesKeeps ==
  ASSUME IInv, FrameArrives
  PROVE  IInv'
<1> USE DEF FrameArrives, tx, down, rx
<1>1. /\ heard' = heard + 1 /\ heard + 1 \in Arrivals /\ heard' \in 0 .. HeardMax
      /\ heard + 1 # None
  BY Numbers, MacAssumption DEF Arrivals, None
<1>2. /\ radio'.mode = "RX_AACK_ON" /\ radio'.irq = TRUE /\ radio'.sends = radio.sends
      /\ radio'.buffer = heard + 1 /\ radio'.trac = radio.trac
      /\ radio' \in [mode : {"RX_AACK_ON", "TX_ARET_ON"}, irq : BOOLEAN,
                     sends : Frames \union {None}, buffer : Arrivals \union {None},
                     trac : Statuses]
  BY <1>1 DEF IInv, TypeOK
<1>3. TypeOK'
  BY <1>1, <1>2 DEF IInv, TypeOK
<1>4. Fifo' /\ Sent' = Sent
  BY DEF IInv, Fifo, Sent
<1>5. phyState = "IDLE"
  BY DEF IInv, ModeFollows
<1>6. ModeFollows' /\ OneInFlight'
  BY <1>2, <1>4, <1>5 DEF IInv, ModeFollows, OneInFlight, Idle, Waits, OnAir, Confirmed
<1>7. Outcomes'
  BY <1>4 DEF IInv, Outcomes, ConfirmIsOwn
<1>8. InOrder'
  <2>1. \A k \in DOMAIN seen : seen[k] <= heard /\ seen[k] \in Nat
    BY MacAssumption DEF IInv, InOrder, TypeOK, Arrivals
  <2>2. \A b \in Filled : RxBuffer[b] <= heard /\ RxBuffer[b] \in Nat
    BY MacAssumption DEF IInv, InOrder, TypeOK, Arrivals, Filled
  <2> QED
    BY <1>1, <1>2, <2>1, <2>2, Numbers DEF IInv, InOrder, HeardInOrder, Filled
<1>9. OnlyOverrunLost'
  <2> DEFINE rest == {seen[k] : k \in DOMAIN seen} \union overrun
           banks == {RxBuffer[b] : b \in Banks}
  <2>1. 1 .. heard = rest \union (({radio.buffer} \union banks) \ {None})
    BY DEF IInv, OnlyOverrunLost
  <2>2. 1 .. heard' = (1 .. heard) \union {heard + 1}
    BY <1>1, Numbers
  <2> HIDE DEF rest, banks
  <2>3. 1 .. heard' = rest \union (({radio'.buffer} \union banks) \ {None})
    BY <1>1, <1>2, <2>1, <2>2
  <2> QED
    BY <1>2, <1>5, <2>3 DEF OnlyOverrunLost, rest, banks
<1> QED
  BY <1>3, <1>4, <1>6, <1>7, <1>8, <1>9 DEF IInv

(* The transceiver finishes the frame in flight.                           *)
LEMMA EndsKeeps ==
  ASSUME IInv, TransmissionEnds
  PROVE  IInv'
<1> USE DEF TransmissionEnds, tx, down, rx
<1> PICK status \in Statuses :
      /\ radio' = [radio EXCEPT !.irq = TRUE, !.sends = None, !.trac = status]
      /\ ended' = [ended EXCEPT ![radio.sends] = status]
  OBVIOUS
<1>1. /\ radio'.mode = radio.mode /\ radio'.irq = TRUE /\ radio'.sends = None
      /\ radio'.buffer = radio.buffer /\ radio'.trac = status
      /\ radio' \in [mode : {"RX_AACK_ON", "TX_ARET_ON"}, irq : BOOLEAN,
                     sends : Frames \union {None}, buffer : Arrivals \union {None},
                     trac : Statuses]
  BY DEF IInv, TypeOK
<1>2. phyState = "TX_WAIT_END"
  BY DEF IInv, TypeOK, ModeFollows
<1>3. /\ ~ pace.received /\ OnAir /\ radio.sends = Sent
      /\ pace.sentFrame \in Buffer /\ Sent > 0 /\ content[pace.sentFrame] = Sent
  BY <1>2 DEF IInv, OneInFlight, Idle, Waits, OnAir, Confirmed
<1>4. Sent \in Frames /\ ended' = [ended EXCEPT ![Sent] = status]
  <2>1. Sent \in 1 .. QueuedMax
    BY <1>3, Numbers, MacAssumption
  <2>2. ended' = [ended EXCEPT ![radio.sends] = status]
    OBVIOUS
  <2> QED
    BY <1>3, <2>1, <2>2, Zenon DEF Frames
<1>5. ended' \in [Frames -> Statuses \union {"NONE"}] /\ ended'[Sent] = status
      /\ \A f \in Frames : f # Sent => ended'[f] = ended[f]
  BY <1>4 DEF IInv, TypeOK
<1>6. TypeOK'
  BY <1>1, <1>5 DEF IInv, TypeOK
<1>7. Fifo' /\ Sent' = Sent
  BY DEF IInv, Fifo, Sent
<1>8. OnAir'
  BY <1>1, <1>3, <1>5, <1>7 DEF OnAir
<1>9. ModeFollows' /\ OneInFlight'
  BY <1>1, <1>2, <1>3, <1>7, <1>8 DEF IInv, ModeFollows, OneInFlight
<1>10. Outcomes'
  <2>1. Len(told) = Sent - 1
    BY <1>3 DEF IInv, Outcomes
  <2>2. \A k \in DOMAIN told : k \in Frames /\ k # Sent
    BY <1>4, <2>1, Numbers, MacAssumption DEF Frames
  <2>3. ConfirmIsOwn'
    BY <1>5, <2>2 DEF IInv, Outcomes, ConfirmIsOwn
  <2>4. \A f \in Frames : f > Sent => f # Sent
    BY <1>4, MacAssumption DEF Frames
  <2> QED
    BY <1>5, <1>7, <2>3, <2>4 DEF IInv, Outcomes
<1>11. InOrder' /\ OnlyOverrunLost'
  <2>1. radio.buffer = None
    BY <1>2 DEF IInv, OnlyOverrunLost
  <2> QED
    BY <1>1, <2>1 DEF IInv, InOrder, OnlyOverrunLost, HeardInOrder, Filled
<1> QED
  BY <1>6, <1>7, <1>9, <1>10, <1>11 DEF IInv

LEMMA NextKeeps == IInv /\ [Next]_vars => IInv'
<1> SUFFICES ASSUME IInv, [Next]_vars PROVE IInv'
  OBVIOUS
<1>1. CASE UNCHANGED vars
  <2> USE <1>1 DEF vars, tx, down, rx, chip
  <2>1. TypeOK'
    BY DEF IInv, TypeOK
  <2>2. Fifo' /\ Sent' = Sent
    BY DEF IInv, Fifo, Sent
  <2>3. ModeFollows' /\ OneInFlight'
    BY <2>2 DEF IInv, ModeFollows, OneInFlight, Idle, Waits, OnAir, Confirmed
  <2>4. Outcomes'
    BY <2>2 DEF IInv, Outcomes, ConfirmIsOwn
  <2>5. InOrder' /\ OnlyOverrunLost'
    BY DEF IInv, InOrder, OnlyOverrunLost, HeardInOrder, Filled
  <2> QED
    BY <2>1, <2>2, <2>3, <2>4, <2>5 DEF IInv
<1> QED
  BY <1>1, TransmitKeeps, DurationKeeps, SendKeeps, NothingKeeps, ReceivedKeeps,
     TxHandlerKeeps, TaskHandlerKeeps, ConfirmKeeps, ArrivesKeeps, EndsKeeps DEF Next, Pass

----------------------------------------------------------------------------
(* The theorems.                                                           *)

(* What ties queue, MAC, PHY and transceiver together, in every state.     *)
THEOREM InFlight == Spec => []IInv
  BY InitInv, NextKeeps, PTL DEF Spec

(* frameTxQueue holds, in order, just the frames queued and not handed on, *)
(* in distinct buffers whose links lead from the head to the tail.         *)
THEOREM Queue == Spec => []QueueIsFifo
<1>1. IInv => QueueIsFifo
  <2> SUFFICES ASSUME IInv PROVE QueueIsFifo
    OBVIOUS
  <2> PICK c \in [1 .. frameTxQueue.size -> Buffer] :
        /\ Lists(c, frameTxQueue, nextItem)
        /\ \A k \in 1 .. frameTxQueue.size : content[c[k]] = Sent + k
    BY DEF IInv, Fifo
  <2>1. /\ \A k \in 1 .. frameTxQueue.size : Chain(frameTxQueue, nextItem)[k] = c[k]
        /\ WellLinked(frameTxQueue, nextItem)
    BY Numbers, MacAssumption, ListsChain
  <2> QED
    BY <2>1 DEF QueueIsFifo, Sent, IInv
<1> QED
  BY <1>1, InFlight, PTL

(* Every confirmation is of the frame sent last, told once, in order, and  *)
(* with this frame's outcome.                                              *)
THEOREM Confirmation == Spec => []ConfirmIsOwn
<1>1. IInv => ConfirmIsOwn
  BY DEF IInv, Outcomes
<1> QED
  BY <1>1, InFlight, PTL

(* Received frames are passed up in the order they arrived, none twice.    *)
THEOREM ReceptionOrder == Spec => []HeardInOrder
<1>1. IInv => HeardInOrder
  BY DEF IInv, InOrder
<1> QED
  BY <1>1, InFlight, PTL

(* A frame that arrived is lost only to a transmission started over it.    *)
THEOREM ReceptionLoss == Spec => []OnlyOverrunLost
<1>1. IInv => OnlyOverrunLost
  BY DEF IInv
<1> QED
  BY <1>1, InFlight, PTL
=============================================================================
