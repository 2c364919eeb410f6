------------------------- MODULE StarNetwork_proofs -------------------------
(***************************************************************************)
(* Proofs about a star of any number of coordinators and end devices, over *)
(* a radio that loses frames, with power cycles and any number of removals *)
(* and connection procedures.                                              *)
(*                                                                         *)
(* For any timing: a pending procedure is carried by exactly one request   *)
(* or timer.  When answers come in time, the requests of a procedure are   *)
(* bounded and joining implements Membership; with one coordinator, the    *)
(* index that a device was told is the slot of its entry.                  *)
(***************************************************************************)
EXTENDS StarMembership, ConnectionTable_proofs, SequenceTheorems

(* What is queued on a board, and what it has received but not handled.    *)
Frames(q) == {q[k] : k \in DOMAIN q}
Inbox(n) == {rx[n][b] : b \in Bank} \ {NoFrame}

(* A frame is in the queue of its source, and was received by whom it was  *)
(* meant for.                                                              *)
Routed ==
  /\ \A n \in Device : \A f \in Frames(txq[n]) : f.src = n
  /\ \A n \in Device : \A f \in Inbox(n) : Addressed(n, f)

(* An entry that is valid has the address of a device.                     *)
Good(t) == t \in Table /\ \A i \in Slot : t.valid[i] => t.addr[i] \in Device

TablesGood == table \in [Device -> Table] /\ \A n \in Device : Good(table[n])

EstType == [callback : BOOLEAN, backup : States, status : EstStatuses,
            retries : 0 .. RetryModulus - 1]

DevicesTyped ==
  /\ state \in [EndDevice -> States]
  /\ joined \subseteq EndDevice
  /\ est \in [EndDevice -> EstType]
  /\ connTimer \in [EndDevice -> BOOLEAN]
  /\ linkTimer \in [EndDevice -> BOOLEAN]
  /\ failures \in [EndDevice -> 0 .. FailureMax + 1]
  /\ myIndex \in [EndDevice -> Slot]
  /\ tries \in [EndDevice -> Nat]

CountsTyped ==
  /\ used \in [attempts : [EndDevice -> 0 .. AttemptMax],
               removals : 0 .. RemovalMax, resets : 0 .. ResetMax]
  /\ granted \subseteq EndDevice

RadioFormed == RadioTypeOK(Frame) /\ Routed

(* What holds whatever the application, the memory and the clocks do.      *)
Formed == TablesGood /\ DevicesTyped /\ CountsTyped /\ RadioFormed

----------------------------------------------------------------------------
(* The application waits for its confirmations, and the heap is not empty. *)
Patient == ~ Reenters /\ ~ MemoryFails

Once(f, q) == \A j, k \in DOMAIN q : q[j] = f /\ q[k] = f => j = k
Queued(e) == Request(e) \in Frames(txq[e])
Sending(e) == sending[e].frame = Request(e)

(* OneCarrier without counting: at most one request and not both a request *)
(* and the interval, and one of them if and only if a callback waits.      *)
CarriedOnce(e) ==
  /\ Once(Request(e), txq[e])
  /\ ~ (Queued(e) /\ Sending(e))
  /\ ~ (Queued(e) /\ connTimer[e])
  /\ ~ (Sending(e) /\ connTimer[e])
  /\ est[e].callback <=> Queued(e) \/ Sending(e) \/ connTimer[e]

Carried == \A e \in EndDevice : CarriedOnce(e)

----------------------------------------------------------------------------
(* A request of e that a coordinator has not handled, and the answers to e *)
(* that e has not handled.                                                 *)
Asked(e) == \E c \in Coordinator : Request(e) \in Inbox(c)
ReplyTo(e, f) == f.type = "CONNECTION_RESPONSE" /\ f.dst = e
Replies(e) ==
  {f \in Inbox(e) \union (UNION {Frames(txq[c]) : c \in Coordinator}) : ReplyTo(e, f)}

(* Answers are on the way only while the interval runs, or a request is    *)
(* about to be reported as sent; while one is being sent nothing is heard. *)
QuietOtherwise(e) ==
  /\ \/ connTimer[e]
     \/ sending[e] = [frame |-> Request(e), status |-> "SUCCESS"]
     \/ ~ Asked(e) /\ Replies(e) = {}
  /\ Sending(e) => \A f \in Inbox(e) : f.type # "CONNECTION_RESPONSE"

(* The requests queued and the retries that are left add up.  A procedure  *)
(* that was answered has no retries left.                                  *)
RetriesAddUp(e) ==
  /\ tries[e] <= RetryTimes
  /\ Queued(e) \/ Sending(e)
       => est[e].retries > 0 /\ ~ Answered(e) /\ tries[e] + est[e].retries = RetryTimes + 1
  /\ connTimer[e] /\ ~ Answered(e) => tries[e] + est[e].retries = RetryTimes
  /\ connTimer[e] /\ Answered(e) => est[e].retries = 0

(* Who is told that it is accepted was accepted in this procedure.         *)
Granted(e) ==
  /\ \A f \in Replies(e) : f.status # "STATUS_NOT_ENOUGH_SPACE" => e \in granted
  /\ est[e].callback /\ Answered(e) => e \in granted

InTime(e) == QuietOtherwise(e) /\ RetriesAddUp(e) /\ Granted(e)
AnswersInTime == \A e \in EndDevice : InTime(e)

----------------------------------------------------------------------------
(* Queues of frames.                                                       *)

LEMMA FramesType ==
  ASSUME NEW S, NEW q \in Seq(S)
  PROVE  Frames(q) \subseteq S
BY ElementOfSeq DEF Frames

LEMMA FramesAppend ==
  ASSUME NEW S, NEW q \in Seq(S), NEW f \in S
  PROVE  /\ Append(q, f) \in Seq(S)
         /\ Frames(Append(q, f)) = Frames(q) \union {f}
         /\ \A g : Once(g, q) /\ (f # g \/ g \notin Frames(q)) => Once(g, Append(q, f))
<1>1. /\ Append(q, f) \in Seq(S)
      /\ Len(Append(q, f)) = Len(q) + 1
      /\ \A k \in 1 .. Len(q) : Append(q, f)[k] = q[k]
      /\ Append(q, f)[Len(q) + 1] = f
  BY AppendProperties
<1>2. Len(q) \in Nat /\ DOMAIN q = 1 .. Len(q) /\ DOMAIN Append(q, f) = 1 .. Len(q) + 1
  BY <1>1, LenProperties
<1> DEFINE a == Append(q, f)
           n == Len(q)
<1> HIDE DEF a, n
<1>3. /\ n \in Nat /\ DOMAIN q = 1 .. n /\ DOMAIN a = 1 .. n + 1
      /\ \A k \in 1 .. n : a[k] = q[k]
      /\ a[n + 1] = f
  BY <1>1, <1>2 DEF a, n
<1>4. \A k \in 1 .. n + 1 : k \in 1 .. n \/ k = n + 1
  BY <1>3
<1>5. 1 .. n \subseteq 1 .. n + 1 /\ n + 1 \in 1 .. n + 1
  BY <1>3
<1>6. Frames(a) = Frames(q) \union {f}
  BY <1>3, <1>4, <1>5 DEF Frames
<1>7. ASSUME NEW g, Once(g, q), f # g \/ g \notin Frames(q)
      PROVE  Once(g, a)
  <2>1. ASSUME NEW j \in 1 .. n + 1, NEW k \in 1 .. n + 1, a[j] = g, a[k] = g
        PROVE  j = k
    <3>1. CASE f # g
      BY <2>1, <3>1, <1>3, <1>4, <1>7 DEF Once
    <3>2. CASE g \notin Frames(q)
      <4>1. \A m \in 1 .. n : q[m] # g
        BY <3>2, <1>3 DEF Frames
      <4> QED BY <2>1, <4>1, <1>3, <1>4
    <3> QED BY <3>1, <3>2, <1>7
  <2> QED BY <2>1, <1>3 DEF Once
<1> QED BY <1>1, <1>6, <1>7 DEF a

LEMMA FramesTail ==
  ASSUME NEW S, NEW q \in Seq(S), q # <<>>
  PROVE  /\ Tail(q) \in Seq(S)
         /\ Head(q) \in S
         /\ Frames(q) = Frames(Tail(q)) \union {Head(q)}
         /\ \A g : Once(g, q) => /\ Once(g, Tail(q))
                                 /\ Head(q) = g => g \notin Frames(Tail(q))
<1>1. /\ Tail(q) \in Seq(S) /\ Head(q) \in S
      /\ Len(Tail(q)) = Len(q) - 1
      /\ \A k \in 1 .. Len(Tail(q)) : Tail(q)[k] = q[k + 1]
  BY HeadTailProperties
<1>2. /\ Len(q) \in Nat /\ Len(q) # 0
      /\ DOMAIN q = 1 .. Len(q) /\ DOMAIN Tail(q) = 1 .. Len(q) - 1
      /\ Head(q) = q[1]
  BY <1>1, LenProperties, EmptySeq, SMTT(30) DEF Head
<1> DEFINE t == Tail(q)
           h == Head(q)
           n == Len(q)
<1> HIDE DEF t, h, n
<1>3. /\ n \in Nat /\ n # 0
      /\ DOMAIN q = 1 .. n /\ DOMAIN t = 1 .. n - 1
      /\ h = q[1]
      /\ \A k \in 1 .. n - 1 : t[k] = q[k + 1]
  BY <1>1, <1>2 DEF t, h, n
<1>4. \A k \in 1 .. n : k = 1 \/ (k - 1 \in 1 .. n - 1 /\ (k - 1) + 1 = k)
  BY <1>3
<1>5. 1 \in 1 .. n /\ \A k \in 1 .. n - 1 : k + 1 \in 1 .. n /\ k + 1 # 1
  BY <1>3
<1>6. Frames(q) = Frames(t) \union {h}
  <2>1. ASSUME NEW k \in 1 .. n  PROVE q[k] \in Frames(t) \union {h}
    <3>1. CASE k = 1
      BY <3>1, <1>3
    <3>2. CASE k - 1 \in 1 .. n - 1 /\ (k - 1) + 1 = k
      <4>1. t[k - 1] = q[k]
        BY <3>2, <1>3
      <4> QED BY <3>2, <4>1, <1>3 DEF Frames
    <3> QED BY <3>1, <3>2, <1>4
  <2>2. ASSUME NEW k \in 1 .. n - 1  PROVE t[k] \in Frames(q)
    BY <1>3, <1>5 DEF Frames
  <2>3. h \in Frames(q)
    BY <1>3, <1>5 DEF Frames
  <2>4. Frames(q) \subseteq Frames(t) \union {h}
    BY <2>1, <1>3 DEF Frames
  <2>5. Frames(t) \subseteq Frames(q)
    BY <2>2, <1>3 DEF Frames
  <2> QED BY <2>3, <2>4, <2>5
<1>7. ASSUME NEW g, Once(g, q)
      PROVE  Once(g, t) /\ (h = g => g \notin Frames(t))
  <2>1. ASSUME NEW j \in 1 .. n - 1, NEW k \in 1 .. n - 1, t[j] = g, t[k] = g
        PROVE  j = k
    <3>1. j + 1 = k + 1
      BY <2>1, <1>3, <1>5, <1>7 DEF Once
    <3> QED BY <3>1
  <2>2. ASSUME h = g, NEW k \in 1 .. n - 1, t[k] = g
        PROVE  FALSE
    BY <2>2, <1>3, <1>5, <1>7 DEF Once
  <2>3. h = g => g \notin Frames(t)
    BY <2>2, <1>3 DEF Frames
  <2> QED BY <2>1, <2>3, <1>3 DEF Once
<1> QED BY <1>1, <1>6, <1>7 DEF t, h

LEMMA FramesEmpty == Frames(<<>>) = {} /\ \A g : Once(g, <<>>)
BY DEF Frames, Once

----------------------------------------------------------------------------
(* Frames by their type.                                                   *)
LEMMA FrameShape ==
  ASSUME NEW f \in Frame
  PROVE  /\ f # NoFrame
         /\ f.src \in Device
         /\ f.type = "CONNECTION_REQUEST" => \E e \in EndDevice : f = Request(e)
         /\ f.type = "CONNECTION_RESPONSE"
              => /\ f.src \in Coordinator /\ f.dst \in EndDevice
                 /\ f.status \in AddStatuses /\ f.index \in Slot
         /\ f.type = "IAM_ALIVE" => f.src \in EndDevice
<1> USE StarAssumption
<1>1. CASE \E e \in EndDevice : f = Request(e)
  BY <1>1 DEF Request, NoFrame, EndDevice
<1>2. CASE \E e \in EndDevice, c \in Device \union {NoDevice} : f = IamAlive(e, c)
  BY <1>2 DEF IamAlive, NoFrame, EndDevice
<1>3. CASE \E c \in Coordinator, e \in EndDevice, s \in AddStatuses, i \in Slot :
             f = Answer(c, e, s, i)
  BY <1>3 DEF Answer, NoFrame, EndDevice
<1>4. CASE \E c \in Coordinator : \E g : f = Share(c, g)
  BY <1>4 DEF Share, NoFrame, EndDevice
<1>5. CASE \E n, m \in Device : f = RemovalRequest(n, m)
  BY <1>5 DEF RemovalRequest, NoFrame
<1>6. CASE \E n, m \in Device, b \in BOOLEAN : f = RemovalResponse(n, m, b)
  BY <1>6 DEF RemovalResponse, NoFrame
<1>7. \/ \E e \in EndDevice : f = Request(e)
      \/ \E e \in EndDevice, c \in Device \union {NoDevice} : f = IamAlive(e, c)
      \/ \E c \in Coordinator, e \in EndDevice, s \in AddStatuses, i \in Slot :
            f = Answer(c, e, s, i)
      \/ \E c \in Coordinator : \E g : f = Share(c, g)
      \/ \E n, m \in Device : f = RemovalRequest(n, m)
      \/ \E n, m \in Device, b \in BOOLEAN : f = RemovalResponse(n, m, b)
  <2> DEFINE A == {Request(e) : e \in EndDevice}
             B == {IamAlive(e, c) : e \in EndDevice, c \in Device \union {NoDevice}}
             C == {Answer(c, e, s, i) : c \in Coordinator, e \in EndDevice,
                                        s \in AddStatuses, i \in Slot}
             D(k) == {Share(c, g) : c \in Coordinator, g \in [0 .. k - 1 -> Device \union {NoDevice}]}
             E == {RemovalRequest(n, m) : n \in Device, m \in Device}
             F == {RemovalResponse(n, m, b) : n \in Device, m \in Device, b \in BOOLEAN}
  <2>1. Frame = A \union B \union C \union (UNION {D(k) : k \in 0 .. ConnectionSize}) \union E \union F
    BY DEF Frame
  <2>2. \A k : f \in D(k) => \E c \in Coordinator : \E g : f = Share(c, g)
    OBVIOUS
  <2>3. f \in A => \E e \in EndDevice : f = Request(e)
    OBVIOUS
  <2>4. f \in B => \E e \in EndDevice, c \in Device \union {NoDevice} : f = IamAlive(e, c)
    OBVIOUS
  <2>5. f \in C => \E c \in Coordinator, e \in EndDevice, s \in AddStatuses, i \in Slot :
                    f = Answer(c, e, s, i)
    OBVIOUS
  <2>6. f \in E => \E n, m \in Device : f = RemovalRequest(n, m)
    OBVIOUS
  <2>7. f \in F => \E n, m \in Device, b \in BOOLEAN : f = RemovalResponse(n, m, b)
    OBVIOUS
  <2> HIDE DEF A, B, C, D, E, F
  <2>8. f \in A \/ f \in B \/ f \in C \/ (\E k \in 0 .. ConnectionSize : f \in D(k))
        \/ f \in E \/ f \in F
    BY <2>1
  <2> QED BY <2>2, <2>3, <2>4, <2>5, <2>6, <2>7, <2>8
<1> QED BY <1>1, <1>2, <1>3, <1>4, <1>5, <1>6, <1>7

----------------------------------------------------------------------------
(* The steps of the radio.                                                 *)
LEMMA QueueKeeps ==
  ASSUME RadioFormed, NEW n \in Device, NEW f \in Frame, NEW m \in BOOLEAN,
         f.src = n, Queue(n, f, m)
  PROVE  /\ txq' \in [Device -> Seq(Frame)]
         /\ \A k \in Device : k # n => txq'[k] = txq[k]
         /\ txq'[n] = IF m THEN Append(txq[n], f) ELSE txq[n]
         /\ Frames(txq'[n]) \subseteq Frames(txq[n]) \union {f}
         /\ \A k \in Device : \A g \in Frames(txq'[k]) : g.src = k
<1>1. txq \in [Device -> Seq(Frame)] /\ \A k \in Device : \A g \in Frames(txq[k]) : g.src = k
  BY DEF RadioFormed, RadioTypeOK, Routed
<1>2. /\ Append(txq[n], f) \in Seq(Frame)
      /\ Frames(Append(txq[n], f)) = Frames(txq[n]) \union {f}
  BY <1>1, FramesAppend
<1>3. txq' = IF m THEN [txq EXCEPT ![n] = Append(txq[n], f)] ELSE txq
  BY DEF Queue
<1>4. txq' \in [Device -> Seq(Frame)]
  BY <1>1, <1>2, <1>3
<1>5. /\ \A k \in Device : k # n => txq'[k] = txq[k]
      /\ txq'[n] = IF m THEN Append(txq[n], f) ELSE txq[n]
  BY <1>1, <1>3
<1>6. Frames(txq'[n]) \subseteq Frames(txq[n]) \union {f}
  BY <1>2, <1>5
<1>7. \A k \in Device : \A g \in Frames(txq'[k]) : g.src = k
  <2> SUFFICES ASSUME NEW k \in Device, NEW g \in Frames(txq'[k])  PROVE g.src = k
    OBVIOUS
  <2>1. CASE k = n
    BY <2>1, <1>1, <1>6
  <2>2. CASE k # n
    BY <2>2, <1>1, <1>5
  <2> QED BY <2>1, <2>2
<1> QED BY <1>4, <1>5, <1>6, <1>7

LEMMA FirstBankFilled ==
  ASSUME RadioFormed, NEW n \in Device, Filled(n) # {}
  PROVE  /\ FirstBank(n) \in Bank
         /\ Received(n) \in Inbox(n) /\ Received(n) \in Frame
<1>1. Filled(n) \in SUBSET Nat
  BY StarAssumption DEF Filled
<1>2. \E b \in Filled(n) : \A a \in Filled(n) : b <= a
  BY <1>1, LeastNatural
<1>3. FirstBank(n) \in Filled(n)
  BY <1>2 DEF FirstBank
<1>4. rx[n] \in [Bank -> Frame \union {NoFrame}]
  BY DEF RadioFormed, RadioTypeOK
<1> QED BY <1>3, <1>4 DEF Filled, Received, Inbox

LEMMA ReceiveKeeps ==
  ASSUME RadioFormed, NEW n \in Device, NEW type, Receive(n, type)
  PROVE  /\ Received(n) \in Inbox(n) /\ Received(n) \in Frame /\ Received(n).type = type
         /\ rx' \in [Device -> [Bank -> Frame \union {NoFrame}]]
         /\ \A m \in Device : (Inbox(m))' \subseteq Inbox(m)
         /\ \A m \in Device : \A f \in (Inbox(m))' : Addressed(m, f)
<1>1. /\ rx \in [Device -> [Bank -> Frame \union {NoFrame}]]
      /\ \A m \in Device : \A f \in Inbox(m) : Addressed(m, f)
  BY DEF RadioFormed, RadioTypeOK, Routed
<1>2. Filled(n) # {} /\ Received(n).type = type
  BY DEF Receive
<1>3. /\ FirstBank(n) \in Bank
      /\ Received(n) \in Inbox(n) /\ Received(n) \in Frame
  BY <1>2, FirstBankFilled
<1> DEFINE k == FirstBank(n)
<1>4. rx' = [rx EXCEPT ![n][k] = NoFrame]
  BY DEF Receive
<1> HIDE DEF k
<1>5. rx' \in [Device -> [Bank -> Frame \union {NoFrame}]]
  BY <1>1, <1>3, <1>4
<1>6. \A m \in Device, b \in Bank : rx'[m][b] = rx[m][b] \/ rx'[m][b] = NoFrame
  BY <1>1, <1>4
<1>7. \A m \in Device : (Inbox(m))' \subseteq Inbox(m)
  BY <1>6 DEF Inbox
<1> QED BY <1>1, <1>2, <1>3, <1>5, <1>7

LEMMA FreeBankExists ==
  ASSUME NEW n \in Device, Listening(n)
  PROVE  FreeBank(n) \in Bank
<1> DEFINE F == {b \in Bank : rx[n][b] = NoFrame}
<1>1. F \in SUBSET Nat /\ F # {}
  BY StarAssumption DEF Listening
<1>2. \E b \in F : \A a \in F : b <= a
  BY <1>1, LeastNatural
<1>3. \E b \in Bank : rx[n][b] = NoFrame /\ \A a \in Bank : rx[n][a] = NoFrame => b <= a
  BY <1>2
<1> QED BY <1>3 DEF FreeBank

SendEffect(n, R, s) ==
  /\ Head(txq[n]) \in Frame
  /\ Frames(txq[n]) = Frames(txq'[n]) \union {Head(txq[n])}
  /\ \A g : Once(g, txq[n])
       => Once(g, txq'[n]) /\ (Head(txq[n]) = g => g \notin Frames(txq'[n]))
  /\ \A k \in Device : k # n => txq'[k] = txq[k] /\ sending'[k] = sending[k]
  /\ sending'[n] = [frame |-> Head(txq[n]), status |-> s]
  /\ \A m \in Device : m \in R => (Inbox(m))' \subseteq Inbox(m) \union {Head(txq[n])}
  /\ \A m \in Device : m \notin R => (Inbox(m))' \subseteq Inbox(m)

LEMMA SendKeeps ==
  ASSUME RadioFormed, NEW n \in Device, NEW R, NEW s \in {"SUCCESS", "FAILURE"}, Send(n, R, s)
  PROVE  RadioFormed' /\ SendEffect(n, R, s)
<1> DEFINE h == Head(txq[n])
<1>1. /\ txq \in [Device -> Seq(Frame)]
      /\ sending \in [Device -> [frame : Frame, status : {"SUCCESS", "FAILURE"}] \union {Idle}]
      /\ rx \in [Device -> [Bank -> Frame \union {NoFrame}]]
      /\ \A k \in Device : \A g \in Frames(txq[k]) : g.src = k
      /\ \A m \in Device : \A f \in Inbox(m) : Addressed(m, f)
  BY DEF RadioFormed, RadioTypeOK, Routed
<1>2. /\ txq[n] # <<>>
      /\ R \subseteq Reach(n)
      /\ sending' = [sending EXCEPT ![n] = [frame |-> h, status |-> s]]
      /\ txq' = [txq EXCEPT ![n] = Tail(txq[n])]
      /\ rx' = [m \in Device |-> IF m \in R THEN Stored(m, h) ELSE rx[m]]
  BY DEF Send
<1>3. /\ Tail(txq[n]) \in Seq(Frame) /\ h \in Frame
      /\ Frames(txq[n]) = Frames(Tail(txq[n])) \union {h}
      /\ \A g : Once(g, txq[n]) => /\ Once(g, Tail(txq[n]))
                                   /\ h = g => g \notin Frames(Tail(txq[n]))
  BY <1>1, <1>2, FramesTail
<1>4. txq'[n] = Tail(txq[n]) /\ txq' \in [Device -> Seq(Frame)]
  BY <1>1, <1>2, <1>3
<1>5. sending' \in [Device -> [frame : Frame, status : {"SUCCESS", "FAILURE"}] \union {Idle}]
  BY <1>1, <1>2, <1>3
<1>6. ASSUME NEW m \in Device
      PROVE  /\ rx'[m] \in [Bank -> Frame \union {NoFrame}]
             /\ (Inbox(m))' \subseteq IF m \in R THEN Inbox(m) \union {h} ELSE Inbox(m)
  <2>1. CASE m \in R
    <3>1. Listening(m)
      BY <2>1, <1>2 DEF Reach
    <3> DEFINE b == FreeBank(m)
    <3>2. b \in Bank
      BY <3>1, FreeBankExists
    <3>3. rx'[m] = [rx[m] EXCEPT ![b] = h]
      BY <2>1, <1>2 DEF Stored
    <3> HIDE DEF b, h
    <3>4. rx'[m] \in [Bank -> Frame \union {NoFrame}]
      BY <3>2, <3>3, <1>1, <1>3
    <3>5. \A a \in Bank : rx'[m][a] = rx[m][a] \/ rx'[m][a] = h
      BY <3>3, <1>1
    <3>6. (Inbox(m))' \subseteq Inbox(m) \union {h}
      BY <3>5 DEF Inbox
    <3> QED BY <2>1, <3>4, <3>6
  <2>2. CASE m \notin R
    <3>1. rx'[m] = rx[m]
      BY <2>2, <1>2
    <3> QED BY <2>2, <3>1, <1>1 DEF Inbox
  <2> QED BY <2>1, <2>2
<1>7. rx' \in [Device -> [Bank -> Frame \union {NoFrame}]]
  <2>1. rx' = [m \in Device |-> rx'[m]]
    BY <1>2
  <2> QED BY <2>1, <1>6
<1>8. \A k \in Device : k # n => txq'[k] = txq[k] /\ sending'[k] = sending[k]
  BY <1>1, <1>2
<1>9. sending'[n] = [frame |-> h, status |-> s]
  BY <1>1, <1>2
<1>10. \A k \in Device : \A g \in Frames(txq'[k]) : g.src = k
  <2> SUFFICES ASSUME NEW k \in Device, NEW g \in Frames(txq'[k])  PROVE g.src = k
    OBVIOUS
  <2>1. g \in Frames(txq[k])
    BY <1>3, <1>4, <1>8
  <2> QED BY <2>1, <1>1
<1>11. \A m \in Device : \A f \in (Inbox(m))' : Addressed(m, f)
  <2> SUFFICES ASSUME NEW m \in Device, NEW f \in (Inbox(m))'  PROVE Addressed(m, f)
    OBVIOUS
  <2>1. CASE f \in Inbox(m)
    BY <2>1, <1>1
  <2>2. CASE m \in R /\ f = h
    BY <2>2, <1>2 DEF Reach
  <2> QED BY <2>1, <2>2, <1>6
<1>12. RadioFormed'
  BY <1>4, <1>5, <1>7, <1>10, <1>11 DEF RadioFormed, RadioTypeOK, Routed, Addressed
<1>13. SendEffect(n, R, s)
  BY <1>3, <1>4, <1>6, <1>8, <1>9 DEF SendEffect
<1> QED BY <1>12, <1>13

----------------------------------------------------------------------------
(* Formed, from its parts.                                                 *)
LEMMA FormedTypeOK == Formed => TypeOK
BY Zenon DEF Formed, TablesGood, RadioFormed, TypeOK, DevicesTyped, CountsTyped, EstType

LEMMA GoodIfShrunk ==
  ASSUME NEW t, NEW u, Good(t), Shrunk(t, u)
  PROVE  Good(u)
BY DEF Good, Shrunk

LEMMA GoodIfAdded ==
  ASSUME NEW t, NEW d \in Device, Good(t)
  PROVE  Good(Added(t, d, FALSE)) /\ Good(Marked(Added(t, d, FALSE), d))
<1> DEFINE a == Added(t, d, FALSE)
<1>1. t \in Table
  BY DEF Good
<1>2. /\ a \in Table
      /\ \A i \in Slot : a.valid[i] => a.addr[i] = d \/ (t.valid[i] /\ a.addr[i] = t.addr[i])
  BY <1>1, AddedKeeps
<1> HIDE DEF a
<1>3. Good(a)
  BY <1>2 DEF Good
<1>4. Marked(a, d) \in Table /\ Marked(a, d).addr = a.addr /\ Marked(a, d).valid = a.valid
  BY <1>2, MarkedFields
<1>5. Good(Marked(a, d))
  BY <1>3, <1>4 DEF Good
<1> QED BY <1>3, <1>5 DEF a

LEMMA TableChanged ==
  ASSUME TablesGood, NEW n \in Device, NEW u, Good(u), table' = [table EXCEPT ![n] = u]
  PROVE  TablesGood'
<1>1. table' \in [Device -> Table]
  BY DEF TablesGood, Good
<1>2. \A m \in Device : table'[m] = IF m = n THEN u ELSE table[m]
  BY DEF TablesGood
<1> QED BY <1>1, <1>2 DEF TablesGood, Good

LEMMA TablesUnchanged ==
  ASSUME TablesGood, UNCHANGED table
  PROVE  TablesGood'
BY DEF TablesGood, Good

LEMMA DevicesUnchanged ==
  ASSUME DevicesTyped, UNCHANGED device
  PROVE  DevicesTyped'
BY DEF DevicesTyped, device, EstType

LEMMA CountsUnchanged ==
  ASSUME CountsTyped, UNCHANGED <<used, granted>>
  PROVE  CountsTyped'
BY DEF CountsTyped

(* The radio, from its three variables.                                    *)
LEMMA RadioParts ==
  ASSUME RadioFormed,
         \/ UNCHANGED txq
         \/ \E n \in Device, f \in Frame, m \in BOOLEAN : f.src = n /\ Queue(n, f, m),
         UNCHANGED sending \/ \E n \in Device : Sent(n),
         UNCHANGED rx \/ \E n \in Device : \E type : Receive(n, type)
  PROVE  RadioFormed'
<1>1. /\ txq' \in [Device -> Seq(Frame)]
      /\ \A k \in Device : \A g \in Frames(txq'[k]) : g.src = k
  <2>1. CASE UNCHANGED txq
    BY <2>1 DEF RadioFormed, RadioTypeOK, Routed
  <2>2. CASE \E n \in Device, f \in Frame, m \in BOOLEAN : f.src = n /\ Queue(n, f, m)
    BY <2>2, QueueKeeps
  <2> QED BY <2>1, <2>2
<1>2. sending' \in [Device -> [frame : Frame, status : {"SUCCESS", "FAILURE"}] \union {Idle}]
  BY DEF RadioFormed, RadioTypeOK, Sent
<1>3. /\ rx' \in [Device -> [Bank -> Frame \union {NoFrame}]]
      /\ \A m \in Device : \A f \in (Inbox(m))' : Addressed(m, f)
  <2>1. CASE UNCHANGED rx
    BY <2>1 DEF RadioFormed, RadioTypeOK, Routed, Inbox
  <2>2. CASE \E n \in Device : \E type : Receive(n, type)
    BY <2>2, ReceiveKeeps
  <2> QED BY <2>1, <2>2
<1> QED BY <1>1, <1>2, <1>3 DEF RadioFormed, RadioTypeOK, Routed, Addressed

LEMMA CountedTyped ==
  ASSUME CountsTyped, NEW e \in EndDevice, used.attempts[e] < AttemptMax, Counted(e)
  PROVE  used' \in [attempts : [EndDevice -> 0 .. AttemptMax],
                    removals : 0 .. RemovalMax, resets : 0 .. ResetMax]
<1> DEFINE a == [used.attempts EXCEPT ![e] = used.attempts[e] + 1]
<1>1. used.attempts \in [EndDevice -> 0 .. AttemptMax]
  BY DEF CountsTyped
<1>2. used.attempts[e] + 1 \in 0 .. AttemptMax
  BY <1>1, StarAssumption
<1>3. a \in [EndDevice -> 0 .. AttemptMax]
  BY <1>1, <1>2
<1>4. used' = [used EXCEPT !.attempts = a]
  BY DEF Counted, CountsTyped
<1> HIDE DEF a
<1> QED BY <1>3, <1>4 DEF CountsTyped

----------------------------------------------------------------------------
(* The frames that the boards build.                                       *)
LEMMA FramesBuilt ==
  /\ \A e \in EndDevice : Request(e) \in Frame /\ Request(e).src = e
                          /\ Request(e).type = "CONNECTION_REQUEST"
  /\ \A e \in EndDevice, c \in Device \union {NoDevice} :
       IamAlive(e, c) \in Frame /\ IamAlive(e, c).src = e /\ IamAlive(e, c).type = "IAM_ALIVE"
  /\ \A c \in Coordinator, e \in EndDevice, s \in AddStatuses, i \in Slot :
       /\ Answer(c, e, s, i) \in Frame /\ Answer(c, e, s, i).src = c
       /\ Answer(c, e, s, i).type = "CONNECTION_RESPONSE"
       /\ Answer(c, e, s, i).dst = e /\ Answer(c, e, s, i).status = s
       /\ Answer(c, e, s, i).index = i
  /\ \A n, m \in Device : /\ RemovalRequest(n, m) \in Frame /\ RemovalRequest(n, m).src = n
                          /\ RemovalRequest(n, m).type = "REMOVAL_REQUEST"
  /\ \A n, m \in Device, b \in BOOLEAN :
       /\ RemovalResponse(n, m, b) \in Frame /\ RemovalResponse(n, m, b).src = n
       /\ RemovalResponse(n, m, b).type = "REMOVAL_RESPONSE"
<1>1. \A e \in EndDevice : Request(e) \in Frame
  BY DEF Frame
<1>2. \A e \in EndDevice, c \in Device \union {NoDevice} : IamAlive(e, c) \in Frame
  BY DEF Frame
<1>3. \A c \in Coordinator, e \in EndDevice, s \in AddStatuses, i \in Slot :
        Answer(c, e, s, i) \in Frame
  BY DEF Frame
<1>4. \A n, m \in Device : RemovalRequest(n, m) \in Frame
  BY DEF Frame
<1>5. \A n, m \in Device, b \in BOOLEAN : RemovalResponse(n, m, b) \in Frame
  BY DEF Frame
<1> QED BY <1>1, <1>2, <1>3, <1>4, <1>5 DEF Request, IamAlive, Answer, RemovalRequest, RemovalResponse

LEMMA ShareBuilt ==
  ASSUME NEW c \in Coordinator, NEW t \in Table
  PROVE  /\ Share(c, Shared(t)) \in Frame
         /\ Share(c, Shared(t)).src = c
         /\ Share(c, Shared(t)).type = "SHARE_CONNECTION_TABLE"
<1> DEFINE k == t.connSize
           g == Shared(t)
<1>1. k \in 0 .. ConnectionSize
  BY DEF Table
<1>2. {j \in Slot : j < k} = 0 .. k - 1
  BY <1>1, TableAssumption DEF Slot
<1>3. g \in [0 .. k - 1 -> Device \union {NoDevice}]
  BY <1>2 DEF Shared, Table
<1> HIDE DEF k, g
<1>4. Share(c, g) \in {Share(d, f) : d \in Coordinator, f \in [0 .. k - 1 -> Device \union {NoDevice}]}
  BY <1>3
<1>5. Share(c, g) \in UNION {{Share(d, f) : d \in Coordinator,
                                            f \in [0 .. m - 1 -> Device \union {NoDevice}]} :
                             m \in 0 .. ConnectionSize}
  BY <1>1, <1>4
<1>6. Share(c, g) \in Frame
  BY <1>5 DEF Frame
<1> QED BY <1>6 DEF g, Share

----------------------------------------------------------------------------
(* sendConnectionRequest keeps the types.                                  *)
LEMMA ProcedureTyped ==
  ASSUME NEW e \in EndDevice, NEW backup \in States
  PROVE  /\ Procedure(e, backup) \in EstType
         /\ [Procedure(e, backup) EXCEPT !.callback = FALSE] \in EstType
<1>1. RetryTimes \in 0 .. RetryModulus - 1
  BY StarAssumption
<1>2. "SCAN_NO_BEACON" \in EstStatuses
  BY DEF EstStatuses
<1> DEFINE p == Procedure(e, backup)
<1>3. p \in EstType
  BY <1>1, <1>2 DEF Procedure, EstType
<1> HIDE DEF p
<1>4. [p EXCEPT !.callback = FALSE] \in EstType
  BY <1>3 DEF EstType
<1> QED BY <1>3, <1>4 DEF p

LEMMA DecTyped ==
  ASSUME NEW k \in 0 .. RetryModulus - 1
  PROVE  /\ Dec(k) \in 0 .. RetryModulus - 1
         /\ k > 0 => Dec(k) = k - 1
<1>1. RetryModulus \in Nat \ {0}
  BY StarAssumption
<1>2. k + RetryModulus - 1 \in Nat
  BY <1>1
<1>3. (k + RetryModulus - 1) % RetryModulus \in 0 .. RetryModulus - 1
  BY <1>1, <1>2
<1>4. ASSUME k > 0  PROVE (k + RetryModulus - 1) % RetryModulus = k - 1
  BY <1>1, <1>4
<1> QED BY <1>3, <1>4 DEF Dec

LEMMA SendRequestTyped ==
  ASSUME DevicesTyped, CountsTyped,
         NEW e \in EndDevice, NEW r \in 0 .. RetryModulus - 1,
         NEW again \in BOOLEAN, NEW m \in BOOLEAN,
         SendConnectionRequest(e, r, again, m)
  PROVE  /\ state' \in [EndDevice -> States]
         /\ est' \in [EndDevice -> EstType]
         /\ tries' \in [EndDevice -> Nat]
         /\ CountsTyped'
         /\ UNCHANGED txq \/ Queue(e, Request(e), m)
<1> USE DEF DevicesTyped
<1>1. CASE MayRetry(e, r) /\ ~ again /\ Retry(e, r, m)
  <2>1. est' = [est EXCEPT ![e].retries = r]
    BY <1>1 DEF Retry
  <2>2. est' \in [EndDevice -> EstType]
    BY <2>1 DEF EstType
  <2>3. tries' \in [EndDevice -> Nat]
    BY <1>1 DEF Retry
  <2> QED BY <1>1, <2>2, <2>3, CountsUnchanged DEF Retry
<1>2. CASE ~ MayRetry(e, r) /\ Confirm(e, r, again, m) /\ again
  <2>1. Outcome(e) \in States
    BY DEF Outcome, EstType, States
  <2>2. /\ used.attempts[e] < AttemptMax /\ Counted(e)
        /\ est' = [est EXCEPT ![e] = [Procedure(e, Outcome(e)) EXCEPT !.callback = FALSE]]
        /\ state' = [state EXCEPT ![e] = "ESTABLISHING_NETWORK"]
        /\ Queue(e, Request(e), m)
        /\ tries' = [tries EXCEPT ![e] = IF m THEN 1 ELSE 0]
        /\ granted' = granted \ {e}
    BY <1>2 DEF Confirm
  <2>3. est' \in [EndDevice -> EstType]
    BY <2>1, <2>2, ProcedureTyped
  <2>4. CountsTyped'
    BY <2>2, CountedTyped DEF CountsTyped
  <2> QED BY <2>2, <2>3, <2>4 DEF States
<1>3. CASE ~ MayRetry(e, r) /\ Confirm(e, r, again, m) /\ ~ again
  <2>1. Outcome(e) \in States
    BY DEF Outcome, EstType, States
  <2>2. /\ est' = [est EXCEPT ![e].retries = r, ![e].callback = FALSE]
        /\ state' = [state EXCEPT ![e] = Outcome(e)]
        /\ UNCHANGED <<txq, tries, used, granted>>
    BY <1>3 DEF Confirm
  <2>3. est' \in [EndDevice -> EstType]
    BY <2>2, ZenonT(60) DEF EstType
  <2> QED BY <2>1, <2>2, <2>3, CountsUnchanged
<1> QED BY <1>1, <1>2, <1>3 DEF SendConnectionRequest

LEMMA LostTyped ==
  ASSUME DevicesTyped, CountsTyped,
         NEW e \in EndDevice, NEW again \in BOOLEAN, NEW m \in BOOLEAN,
         Lost(e, again, m)
  PROVE  /\ state' \in [EndDevice -> States]
         /\ linkTimer' \in [EndDevice -> BOOLEAN]
         /\ est' \in [EndDevice -> EstType]
         /\ tries' \in [EndDevice -> Nat]
         /\ CountsTyped'
         /\ UNCHANGED txq \/ Queue(e, Request(e), m)
<1> USE DEF DevicesTyped
<1>1. state' \in [EndDevice -> States] /\ linkTimer' \in [EndDevice -> BOOLEAN]
  BY DEF Lost, States
<1>2. CASE again
  <2>1. /\ used.attempts[e] < AttemptMax /\ Counted(e)
        /\ est' = [est EXCEPT ![e] = Procedure(e, state[e])]
        /\ Queue(e, Request(e), m)
        /\ tries' = [tries EXCEPT ![e] = IF m THEN 1 ELSE 0]
        /\ granted' = granted \ {e}
    BY <1>2 DEF Lost
  <2>2. est' \in [EndDevice -> EstType]
    BY <2>1, ProcedureTyped
  <2>3. CountsTyped'
    BY <2>1, CountedTyped DEF CountsTyped
  <2> QED BY <1>1, <2>1, <2>2, <2>3
<1>3. CASE ~ again
  BY <1>1, <1>3, CountsUnchanged DEF Lost
<1> QED BY <1>2, <1>3

----------------------------------------------------------------------------
(* Every step keeps what is well formed.                                   *)

LEMMA InitFormed == Init => Formed
<1> SUFFICES ASSUME Init  PROVE Formed
  OBVIOUS
<1> USE DEF Init
<1>1. Good(EmptyTable)
  <2>1. EmptyTable \in Table
    BY EmptyIsTable DEF Shrunk
  <2> QED BY <2>1 DEF Good, EmptyTable
<1>2. TablesGood
  BY <1>1 DEF TablesGood, Good
<1>3. DevicesTyped
  <2>1. NoProcedure \in EstType
    BY StarAssumption DEF NoProcedure, EstType, States, EstStatuses
  <2>2. 0 \in Slot /\ 0 \in 0 .. FailureMax + 1
    BY TableAssumption, StarAssumption DEF Slot
  <2> QED BY <2>1, <2>2 DEF DevicesTyped, States
<1>4. CountsTyped
  <2>1. 0 \in 0 .. AttemptMax /\ 0 \in 0 .. RemovalMax /\ 0 \in 0 .. ResetMax
    BY StarAssumption
  <2> QED BY <2>1 DEF CountsTyped
<1>5. RadioFormed
  <2>1. \A n \in Device : Frames(txq[n]) = {} /\ Inbox(n) = {}
    BY FramesEmpty DEF RadioInit, Inbox
  <2>2. RadioTypeOK(Frame)
    BY EmptySeq DEF RadioInit, RadioTypeOK
  <2> QED BY <2>1, <2>2 DEF RadioFormed, Routed
<1> QED BY <1>2, <1>3, <1>4, <1>5 DEF Formed

LEMMA HasMemoryType == HasMemory \subseteq BOOLEAN /\ Again \subseteq BOOLEAN
BY DEF HasMemory, Again

LEMMA TransmissionFormed ==
  ASSUME Formed, NEW n \in Device, Transmission(n)
  PROVE  Formed'
<1>1. PICK R \in SUBSET Reach(n), s \in {"SUCCESS", "FAILURE"} : Send(n, R, s)
  BY DEF Transmission, Transmit
<1>2. RadioFormed'
  BY <1>1, SendKeeps DEF Formed
<1> QED BY <1>2, TablesUnchanged, DevicesUnchanged, CountsUnchanged DEF Formed, Transmission

LEMMA CommandSentFormed ==
  ASSUME Formed, NEW n \in Device, CommandSent(n)
  PROVE  Formed'
<1>1. RadioFormed'
  BY RadioParts DEF Formed, CommandSent
<1> QED BY <1>1, TablesUnchanged, DevicesUnchanged, CountsUnchanged DEF Formed, CommandSent

LEMMA BroadcastTableQueues ==
  ASSUME Formed, NEW c \in Coordinator, NEW m \in BOOLEAN, BroadcastTable(c, m)
  PROVE  \E f \in Frame : /\ f.src = c /\ Queue(c, f, m)
                          /\ f.type = "SHARE_CONNECTION_TABLE"
<1>1. c \in Device
  BY StarAssumption
<1>2. table[c] \in Table
  BY <1>1 DEF Formed, TablesGood
<1> QED BY <1>2, ShareBuilt DEF BroadcastTable

LEMMA ResponseSentFormed ==
  ASSUME Formed, NEW c \in Coordinator, NEW m \in BOOLEAN, ResponseSent(c, m)
  PROVE  Formed'
<1>1. c \in Device
  BY StarAssumption
<1>2. \E n \in Device, f \in Frame, k \in BOOLEAN : f.src = n /\ Queue(n, f, k)
  BY <1>1, BroadcastTableQueues DEF ResponseSent
<1>3. RadioFormed'
  BY <1>1, <1>2, RadioParts DEF Formed, ResponseSent
<1> QED BY <1>3, TablesUnchanged, DevicesUnchanged, CountsUnchanged DEF Formed, ResponseSent

LEMMA ShareIntervalFormed ==
  ASSUME Formed, NEW c \in Coordinator, NEW m \in BOOLEAN, ShareInterval(c, m)
  PROVE  Formed'
<1>1. c \in Device
  BY StarAssumption
<1>2. \E n \in Device, f \in Frame, k \in BOOLEAN : f.src = n /\ Queue(n, f, k)
  BY <1>1, BroadcastTableQueues DEF ShareInterval
<1>3. RadioFormed'
  BY <1>2, RadioParts DEF Formed, ShareInterval
<1> QED BY <1>3, TablesUnchanged, DevicesUnchanged, CountsUnchanged DEF Formed, ShareInterval

LEMMA RequestSentFormed ==
  ASSUME Formed, NEW e \in EndDevice, RequestSent(e)
  PROVE  Formed'
<1>1. e \in Device
  BY DEF EndDevice
<1>2. RadioFormed'
  BY <1>1, RadioParts DEF Formed, RequestSent
<1>3. DevicesTyped'
  <2>1. est \in [EndDevice -> EstType]
    BY DEF Formed, DevicesTyped
  <2>2. Dec(est[e].retries) \in 0 .. RetryModulus - 1
    BY <2>1, DecTyped DEF EstType
  <2> DEFINE r == Dec(est[e].retries)
  <2>3. est' = [est EXCEPT ![e].retries = r]
    BY DEF RequestSent
  <2> HIDE DEF r
  <2>4. est' \in [EndDevice -> EstType]
    BY <2>1, <2>2, <2>3 DEF EstType, r
  <2> QED BY <2>4 DEF RequestSent, Formed, DevicesTyped
<1> QED BY <1>2, <1>3, TablesUnchanged, CountsUnchanged DEF Formed, RequestSent

LEMMA RequestFailedFormed ==
  ASSUME Formed, NEW e \in EndDevice, NEW a \in BOOLEAN, NEW m \in BOOLEAN,
         RequestFailed(e, a, m)
  PROVE  Formed'
<1>1. e \in Device
  BY DEF EndDevice
<1>2. est[e].retries \in 0 .. RetryModulus - 1
  BY DEF Formed, DevicesTyped, EstType
<1>3. Dec(est[e].retries) \in 0 .. RetryModulus - 1
  BY <1>2, DecTyped
<1>4. /\ state' \in [EndDevice -> States]
      /\ est' \in [EndDevice -> EstType]
      /\ tries' \in [EndDevice -> Nat]
      /\ CountsTyped'
      /\ UNCHANGED txq \/ Queue(e, Request(e), m)
  BY <1>3, SendRequestTyped DEF RequestFailed, Formed
<1>5. Request(e) \in Frame /\ Request(e).src = e
  BY FramesBuilt
<1>6. RadioFormed'
  BY <1>1, <1>4, <1>5, RadioParts DEF Formed, RequestFailed
<1>7. DevicesTyped'
  BY <1>4 DEF RequestFailed, Formed, DevicesTyped
<1> QED BY <1>4, <1>6, <1>7, TablesUnchanged DEF Formed, RequestFailed

LEMMA ConnectionIntervalFormed ==
  ASSUME Formed, NEW e \in EndDevice, NEW a \in BOOLEAN, NEW m \in BOOLEAN,
         ConnectionInterval(e, a, m)
  PROVE  Formed'
<1>1. e \in Device
  BY DEF EndDevice
<1>2. est[e].retries \in 0 .. RetryModulus - 1
  BY DEF Formed, DevicesTyped, EstType
<1>4. /\ state' \in [EndDevice -> States]
      /\ est' \in [EndDevice -> EstType]
      /\ tries' \in [EndDevice -> Nat]
      /\ CountsTyped'
      /\ UNCHANGED txq \/ Queue(e, Request(e), m)
  BY <1>2, SendRequestTyped DEF ConnectionInterval, Formed
<1>5. Request(e) \in Frame /\ Request(e).src = e
  BY FramesBuilt
<1>6. RadioFormed'
  BY <1>1, <1>4, <1>5, RadioParts DEF Formed, ConnectionInterval
<1>7. DevicesTyped'
  BY <1>4 DEF ConnectionInterval, Formed, DevicesTyped
<1> QED BY <1>4, <1>6, <1>7, TablesUnchanged DEF Formed, ConnectionInterval

LEMMA EstablishFormed ==
  ASSUME Formed, NEW e \in EndDevice, EstablishConnection(e)
  PROVE  Formed'
<1>1. e \in Device
  BY DEF EndDevice
<1>2. Request(e) \in Frame /\ Request(e).src = e
  BY FramesBuilt
<1>3. RadioFormed'
  BY <1>1, <1>2, RadioParts DEF Formed, EstablishConnection
<1>4. CountsTyped'
  BY CountedTyped DEF Formed, CountsTyped, EstablishConnection
<1>5. DevicesTyped'
  <2>1. Procedure(e, state[e]) \in EstType
    BY ProcedureTyped DEF Formed, DevicesTyped
  <2> QED BY <2>1 DEF Formed, DevicesTyped, EstablishConnection, States
<1> QED BY <1>3, <1>4, <1>5, TablesUnchanged DEF Formed, EstablishConnection

LEMMA AliveSentFormed ==
  ASSUME Formed, NEW e \in EndDevice, NEW a \in BOOLEAN, NEW m \in BOOLEAN,
         AliveSent(e, a, m)
  PROVE  Formed'
<1>1. e \in Device
  BY DEF EndDevice
<1>2. Request(e) \in Frame /\ Request(e).src = e
  BY FramesBuilt
<1>3. /\ state' \in [EndDevice -> States]
      /\ linkTimer' \in [EndDevice -> BOOLEAN]
      /\ est' \in [EndDevice -> EstType]
      /\ tries' \in [EndDevice -> Nat]
      /\ CountsTyped'
      /\ UNCHANGED txq \/ Queue(e, Request(e), m)
  <2>1. CASE Lost(e, a, m)
    BY <2>1, LostTyped DEF Formed
  <2>2. CASE UNCHANGED <<state, linkTimer, used, est, txq, tries, granted>>
    BY <2>2, CountsUnchanged DEF Formed, DevicesTyped
  <2> QED BY <2>1, <2>2 DEF AliveSent
<1>4. failures' \in [EndDevice -> 0 .. FailureMax + 1]
  <2> DEFINE k == IF sending[e].status = "SUCCESS" THEN 0
                  ELSE IF failures[e] > FailureMax THEN failures[e] ELSE failures[e] + 1
  <2>1. failures \in [EndDevice -> 0 .. FailureMax + 1] /\ FailureMax \in Nat
    BY StarAssumption DEF Formed, DevicesTyped
  <2>2. k \in 0 .. FailureMax + 1
    BY <2>1
  <2>3. failures' = [failures EXCEPT ![e] = k]
    BY DEF AliveSent
  <2> HIDE DEF k
  <2> QED BY <2>1, <2>2, <2>3
<1>5. RadioFormed'
  BY <1>1, <1>2, <1>3, RadioParts DEF Formed, AliveSent
<1>6. DevicesTyped'
  BY <1>3, <1>4 DEF AliveSent, Formed, DevicesTyped
<1> QED BY <1>3, <1>5, <1>6, TablesUnchanged DEF Formed, AliveSent

LEMMA LinkStatusFormed ==
  ASSUME Formed, NEW e \in EndDevice, NEW m \in BOOLEAN, LinkStatusInterval(e, m)
  PROVE  Formed'
<1>1. e \in Device /\ 0 \in Slot
  BY TableAssumption DEF EndDevice, Slot
<1>2. table[e].addr[0] \in Device \union {NoDevice}
  BY <1>1 DEF Formed, TablesGood, Table
<1>3. IamAlive(e, table[e].addr[0]) \in Frame /\ IamAlive(e, table[e].addr[0]).src = e
  BY <1>2, FramesBuilt
<1>4. RadioFormed'
  BY <1>1, <1>3, RadioParts DEF Formed, LinkStatusInterval
<1> QED BY <1>4, TablesUnchanged, DevicesUnchanged, CountsUnchanged DEF Formed, LinkStatusInterval

LEMMA RemoveConnectionFormed ==
  ASSUME Formed, NEW n \in Device, NEW i \in Slot, NEW m \in BOOLEAN, RemoveConnection(n, i, m)
  PROVE  Formed'
<1>1. Good(table[n]) /\ table[n].valid[i]
  BY DEF Formed, TablesGood, RemoveConnection
<1>2. table[n].addr[i] \in Device
  BY <1>1 DEF Good
<1>3. Good(Removed(table[n], i))
  BY <1>1, RemovedShrinks, GoodIfShrunk DEF Good
<1>4. TablesGood'
  BY <1>3, TableChanged DEF Formed, RemoveConnection
<1>5. RemovalRequest(n, table[n].addr[i]) \in Frame /\ RemovalRequest(n, table[n].addr[i]).src = n
  BY <1>2, FramesBuilt
<1>6. RadioFormed'
  BY <1>5, RadioParts DEF Formed, RemoveConnection
<1>7. CountsTyped'
  <2>1. used.removals \in 0 .. RemovalMax /\ used.removals < RemovalMax /\ RemovalMax \in Nat
    BY StarAssumption DEF Formed, CountsTyped, RemoveConnection
  <2>2. used.removals + 1 \in 0 .. RemovalMax
    BY <2>1
  <2> QED BY <2>2 DEF Formed, CountsTyped, RemoveConnection
<1> QED BY <1>4, <1>6, <1>7, DevicesUnchanged DEF Formed, RemoveConnection

LEMMA FindInActiveFormed ==
  ASSUME Formed, NEW c \in Coordinator, FindInActiveDevices(c)
  PROVE  Formed'
<1>1. c \in Device
  BY StarAssumption
<1>2. Good(table[c])
  BY <1>1 DEF Formed, TablesGood
<1>3. Good(InactiveRemoved(table[c]))
  BY <1>2, InactiveShrinks, GoodIfShrunk DEF Good
<1>4. TablesGood'
  BY <1>1, <1>3, TableChanged DEF Formed, FindInActiveDevices
<1>5. RadioFormed'
  BY RadioParts DEF Formed, FindInActiveDevices, radio
<1> QED BY <1>4, <1>5, DevicesUnchanged, CountsUnchanged DEF Formed, FindInActiveDevices

(* What ReceiveRequest answers, to whom.                                   *)
LEMMA RequestAnswered ==
  ASSUME Formed, NEW c \in Coordinator, NEW m \in BOOLEAN, ReceiveRequest(c, m)
  PROVE  \E e \in EndDevice, f \in Frame :
           /\ Received(c) = Request(e) /\ Request(e) \in Inbox(c)
           /\ f.src = c /\ f.type = "CONNECTION_RESPONSE" /\ f.dst = e
           /\ f.status = AddStatus(table[c], e)
           /\ f.index = Marked(Added(table[c], e, FALSE), e).myIndex
           /\ Queue(c, f, m)
           /\ table' = [table EXCEPT ![c] = Marked(Added(table[c], e, FALSE), e)]
           /\ granted' = IF f.status = "STATUS_NOT_ENOUGH_SPACE" THEN granted
                         ELSE granted \union {e}
<1>1. c \in Device
  BY StarAssumption
<1>2. PICK e \in EndDevice : Received(c) = Request(e) /\ Request(e) \in Inbox(c)
  <2>1. /\ Received(c) \in Frame /\ Received(c).type = "CONNECTION_REQUEST"
        /\ Received(c) \in Inbox(c)
    BY <1>1, ReceiveKeeps DEF Formed, ReceiveRequest
  <2> QED BY <2>1, FrameShape
<1>3. Received(c).src = e /\ e \in Device
  BY <1>2, FramesBuilt DEF EndDevice
<1> DEFINE t == Marked(Added(table[c], e, FALSE), e)
           status == AddStatus(table[c], e)
           f == Answer(c, e, status, t.myIndex)
<1>4. /\ table' = [table EXCEPT ![c] = t]
      /\ Queue(c, f, m)
      /\ granted' = IF status = "STATUS_NOT_ENOUGH_SPACE" THEN granted ELSE granted \union {e}
  BY <1>3 DEF ReceiveRequest
<1>5. Good(table[c])
  BY <1>1 DEF Formed, TablesGood
<1>6. Good(t)
  BY <1>3, <1>5, GoodIfAdded
<1>7. status \in AddStatuses
  BY <1>3, <1>5, StatusTells DEF Good, AddStatuses
<1>8. t.myIndex \in Slot
  BY <1>6 DEF Good, Table
<1> HIDE DEF t, status
<1>9. /\ f \in Frame /\ f.src = c /\ f.type = "CONNECTION_RESPONSE"
      /\ f.dst = e /\ f.status = status /\ f.index = t.myIndex
  BY <1>2, <1>7, <1>8, FramesBuilt
<1> HIDE DEF f
<1> QED BY <1>2, <1>4, <1>9 DEF t, status

LEMMA ReceiveRequestFormed ==
  ASSUME Formed, NEW c \in Coordinator, NEW m \in BOOLEAN, ReceiveRequest(c, m)
  PROVE  Formed'
<1>1. c \in Device
  BY StarAssumption
<1>2. PICK e \in EndDevice, f \in Frame :
           /\ Received(c) = Request(e) /\ Request(e) \in Inbox(c)
           /\ f.src = c /\ f.type = "CONNECTION_RESPONSE" /\ f.dst = e
           /\ f.status = AddStatus(table[c], e)
           /\ f.index = Marked(Added(table[c], e, FALSE), e).myIndex
           /\ Queue(c, f, m)
           /\ table' = [table EXCEPT ![c] = Marked(Added(table[c], e, FALSE), e)]
           /\ granted' = IF f.status = "STATUS_NOT_ENOUGH_SPACE" THEN granted
                         ELSE granted \union {e}
  BY RequestAnswered
<1>3. Good(Marked(Added(table[c], e, FALSE), e))
  BY <1>1, GoodIfAdded DEF Formed, TablesGood, EndDevice
<1>4. TablesGood'
  BY <1>1, <1>2, <1>3, TableChanged DEF Formed
<1>5. Receive(c, "CONNECTION_REQUEST") /\ UNCHANGED <<device, sending, used>>
  BY DEF ReceiveRequest
<1>6. RadioFormed'
  BY <1>1, <1>2, <1>5, RadioParts DEF Formed
<1>7. CountsTyped'
  BY <1>2, <1>5 DEF Formed, CountsTyped
<1> QED BY <1>4, <1>5, <1>6, <1>7, DevicesUnchanged DEF Formed

LEMMA ReceiveResponseFormed ==
  ASSUME Formed, NEW e \in EndDevice, ReceiveResponse(e)
  PROVE  Formed'
<1>1. e \in Device
  BY DEF EndDevice
<1> DEFINE f == Received(e)
<1>2. f \in Frame /\ f.type = "CONNECTION_RESPONSE"
  BY <1>1, ReceiveKeeps DEF Formed, ReceiveResponse
<1>3. f.src \in Device /\ f.index \in Slot
  BY <1>2, FrameShape, StarAssumption
<1>4. RadioFormed'
  BY <1>1, RadioParts DEF Formed, ReceiveResponse
<1>5. CountsTyped'
  BY CountsUnchanged DEF Formed, ReceiveResponse
<1> DEFINE t == Added(table[e], f.src, FALSE)
           entered == AddStatus(table[e], f.src) # "STATUS_NOT_ENOUGH_SPACE"
<1>6. /\ UNCHANGED <<state, connTimer, failures, tries>>
      /\ \/ /\ est' = [est EXCEPT ![e].retries = 0,
                           ![e].status = IF f.status = "STATUS_EXISTS"
                                         THEN "ALREADY_EXISTS" ELSE "SUCCESS"]
            /\ table' = [table EXCEPT ![e] = t]
            /\ joined' = IF entered THEN joined \union {e} ELSE joined
            /\ linkTimer' = [linkTimer EXCEPT ![e] = linkTimer[e] \/ entered]
            /\ myIndex' = [myIndex EXCEPT ![e] = f.index]
         \/ UNCHANGED <<est, table, joined, linkTimer, myIndex>>
  BY DEF ReceiveResponse
<1>7. Good(t)
  BY <1>1, <1>3, GoodIfAdded DEF Formed, TablesGood
<1> HIDE DEF f, t, entered
<1>8. TablesGood'
  BY <1>1, <1>6, <1>7, TableChanged, TablesUnchanged DEF Formed
<1>9. DevicesTyped'
  <2>1. est' \in [EndDevice -> EstType]
    <3>1. CASE UNCHANGED est
      BY <3>1 DEF Formed, DevicesTyped
    <3>2. CASE est' = [est EXCEPT ![e].retries = 0,
                                  ![e].status = IF f.status = "STATUS_EXISTS"
                                                THEN "ALREADY_EXISTS" ELSE "SUCCESS"]
      <4> DEFINE st == IF f.status = "STATUS_EXISTS" THEN "ALREADY_EXISTS" ELSE "SUCCESS"
      <4>1. st \in EstStatuses /\ 0 \in 0 .. RetryModulus - 1
        BY StarAssumption DEF EstStatuses
      <4>2. est' = [est EXCEPT ![e].retries = 0, ![e].status = st]
        BY <3>2
      <4> HIDE DEF st
      <4> QED BY <4>1, <4>2, ZenonT(60) DEF Formed, DevicesTyped, EstType
    <3> QED BY <3>1, <3>2, <1>6
  <2>2. joined' \subseteq EndDevice /\ myIndex' \in [EndDevice -> Slot]
    BY <1>3, <1>6 DEF Formed, DevicesTyped, f
  <2>3. linkTimer' \in [EndDevice -> BOOLEAN]
    <3> DEFINE b == linkTimer[e] \/ entered
    <3>1. b \in BOOLEAN
      OBVIOUS
    <3>2. linkTimer' = [linkTimer EXCEPT ![e] = b] \/ UNCHANGED linkTimer
      BY <1>6
    <3> HIDE DEF b
    <3> QED BY <3>1, <3>2 DEF Formed, DevicesTyped
  <2> QED BY <1>6, <2>1, <2>2, <2>3 DEF Formed, DevicesTyped
<1> QED BY <1>4, <1>5, <1>8, <1>9 DEF Formed

LEMMA ReceiveShareFormed ==
  ASSUME Formed, NEW e \in EndDevice, NEW a \in BOOLEAN, NEW m \in BOOLEAN,
         ReceiveShare(e, a, m)
  PROVE  Formed'
<1>1. e \in Device
  BY DEF EndDevice
<1>2. Request(e) \in Frame /\ Request(e).src = e
  BY FramesBuilt
<1>3. /\ state' \in [EndDevice -> States]
      /\ linkTimer' \in [EndDevice -> BOOLEAN]
      /\ est' \in [EndDevice -> EstType]
      /\ tries' \in [EndDevice -> Nat]
      /\ CountsTyped'
      /\ UNCHANGED txq \/ Queue(e, Request(e), m)
  <2>1. CASE Lost(e, a, m)
    BY <2>1, LostTyped DEF Formed
  <2>2. CASE UNCHANGED <<state, linkTimer, used, est, txq, tries, granted>>
    BY <2>2, CountsUnchanged DEF Formed, DevicesTyped
  <2> QED BY <2>1, <2>2 DEF ReceiveShare
<1>4. RadioFormed'
  BY <1>1, <1>2, <1>3, RadioParts DEF Formed, ReceiveShare
<1>5. DevicesTyped'
  BY <1>3 DEF ReceiveShare, Formed, DevicesTyped
<1> QED BY <1>3, <1>4, <1>5, TablesUnchanged DEF Formed, ReceiveShare

LEMMA ReceiveAliveFormed ==
  ASSUME Formed, NEW c \in Coordinator, ReceiveAlive(c)
  PROVE  Formed'
<1>1. c \in Device
  BY StarAssumption
<1>2. Good(Alive(table[c], Received(c).src))
  BY <1>1, AliveShrinks, GoodIfShrunk DEF Formed, TablesGood, Good
<1>3. TablesGood'
  BY <1>1, <1>2, TableChanged DEF Formed, ReceiveAlive
<1>4. RadioFormed'
  BY <1>1, RadioParts DEF Formed, ReceiveAlive
<1> QED BY <1>3, <1>4, DevicesUnchanged, CountsUnchanged DEF Formed, ReceiveAlive

LEMMA ReceiveRemovalRequestFormed ==
  ASSUME Formed, NEW n \in Device, NEW m \in BOOLEAN, ReceiveRemovalRequest(n, m)
  PROVE  Formed'
<1> DEFINE d == Received(n).src
           found == HoldsValid(table[n], d) # {}
<1>1. d \in Device
  BY ReceiveKeeps, FrameShape DEF Formed, ReceiveRemovalRequest
<1>2. /\ table' = IF m THEN [table EXCEPT ![n] = RemovedDevice(table[n], d)] ELSE table
      /\ Queue(n, RemovalResponse(n, d, found), m)
      /\ Receive(n, "REMOVAL_REQUEST")
      /\ UNCHANGED <<device, sending, used, granted>>
  BY DEF ReceiveRemovalRequest
<1>3. Good(RemovedDevice(table[n], d))
  BY RemovedDeviceShrinks, GoodIfShrunk DEF Formed, TablesGood, Good
<1>4. found \in BOOLEAN
  OBVIOUS
<1> HIDE DEF d, found
<1>5. TablesGood'
  BY <1>2, <1>3, TableChanged, TablesUnchanged DEF Formed
<1>6. RemovalResponse(n, d, found) \in Frame /\ RemovalResponse(n, d, found).src = n
  BY <1>1, <1>4, FramesBuilt
<1>7. RadioFormed'
  BY <1>2, <1>6, RadioParts DEF Formed
<1> QED BY <1>2, <1>5, <1>7, DevicesUnchanged, CountsUnchanged DEF Formed

LEMMA ReceiveRemovalResponseFormed ==
  ASSUME Formed, NEW n \in Device, ReceiveRemovalResponse(n)
  PROVE  Formed'
<1>1. Good(RemovedDevice(table[n], Received(n).src))
  BY RemovedDeviceShrinks, GoodIfShrunk DEF Formed, TablesGood, Good
<1>2. TablesGood'
  BY <1>1, TableChanged, TablesUnchanged DEF Formed, ReceiveRemovalResponse
<1>3. RadioFormed'
  BY RadioParts DEF Formed, ReceiveRemovalResponse
<1> QED BY <1>2, <1>3, DevicesUnchanged, CountsUnchanged DEF Formed, ReceiveRemovalResponse

LEMMA IgnoreFormed ==
  ASSUME Formed, NEW n \in Device, Ignore(n)
  PROVE  Formed'
<1>1. \E type : Receive(n, type)
  BY DEF Ignore
<1>2. RadioFormed'
  BY <1>1, RadioParts DEF Formed, Ignore
<1> QED BY <1>2, TablesUnchanged, DevicesUnchanged, CountsUnchanged DEF Formed, Ignore

LEMMA PowerCycleFormed ==
  ASSUME Formed, NEW n \in Device, PowerCycle(n)
  PROVE  Formed'
<1>1. TablesGood'
  <2>1. Good(EmptyTable)
    <3>1. EmptyTable \in Table
      BY EmptyIsTable DEF Shrunk
    <3> QED BY <3>1 DEF Good, EmptyTable
  <2> QED BY <2>1, TableChanged DEF Formed, PowerCycle
<1>2. RadioFormed'
  <2>1. /\ txq' = [txq EXCEPT ![n] = <<>>]
        /\ sending' = [sending EXCEPT ![n] = Idle]
        /\ rx' = [rx EXCEPT ![n] = [b \in Bank |-> NoFrame]]
    BY DEF PowerCycle, RadioOff
  <2>2. <<>> \in Seq(Frame)
    BY EmptySeq
  <2>3. RadioTypeOK(Frame)
    BY DEF Formed, RadioFormed
  <2>4. /\ txq' \in [Device -> Seq(Frame)]
        /\ sending' \in [Device -> [frame : Frame, status : {"SUCCESS", "FAILURE"}] \union {Idle}]
        /\ rx' \in [Device -> [Bank -> Frame \union {NoFrame}]]
    BY <2>1, <2>2, <2>3 DEF RadioTypeOK
  <2>5. \A m \in Device : Frames(txq'[m]) \subseteq Frames(txq[m])
    BY <2>1, <2>3, FramesEmpty DEF RadioTypeOK
  <2>6. \A m \in Device : (Inbox(m))' \subseteq Inbox(m)
    BY <2>1, <2>3 DEF RadioTypeOK, Inbox
  <2> QED BY <2>4, <2>5, <2>6 DEF Formed, RadioFormed, RadioTypeOK, Routed, Addressed
<1>3. CountsTyped'
  <2>1. used.resets \in 0 .. ResetMax /\ used.resets < ResetMax /\ ResetMax \in Nat
    BY StarAssumption DEF Formed, CountsTyped, PowerCycle
  <2>2. used.resets + 1 \in 0 .. ResetMax
    BY <2>1
  <2>3. granted' \subseteq EndDevice
    BY DEF Formed, CountsTyped, PowerCycle
  <2> QED BY <2>2, <2>3 DEF Formed, CountsTyped, PowerCycle
<1>4. DevicesTyped'
  <2>1. CASE n \in Coordinator
    BY <2>1, DevicesUnchanged DEF Formed, PowerCycle
  <2>2. CASE n \notin Coordinator
    <3>1. NoProcedure \in EstType
      BY StarAssumption DEF NoProcedure, EstType, States, EstStatuses
    <3>2. 0 \in Slot /\ 0 \in 0 .. FailureMax + 1
      BY TableAssumption, StarAssumption DEF Slot
    <3>3. /\ state' = [state EXCEPT ![n] = "INIT_STATE"]
          /\ joined' = joined \ {n}
          /\ est' = [est EXCEPT ![n] = NoProcedure]
          /\ connTimer' = [connTimer EXCEPT ![n] = FALSE]
          /\ linkTimer' = [linkTimer EXCEPT ![n] = FALSE]
          /\ failures' = [failures EXCEPT ![n] = 0]
          /\ myIndex' = [myIndex EXCEPT ![n] = 0]
          /\ tries' = [tries EXCEPT ![n] = 0]
      BY <2>2 DEF PowerCycle
    <3>4. state' \in [EndDevice -> States] /\ tries' \in [EndDevice -> Nat]
      BY <3>3 DEF Formed, DevicesTyped, States
    <3>5. est' \in [EndDevice -> EstType]
      BY <3>1, <3>3 DEF Formed, DevicesTyped
    <3> QED BY <3>2, <3>3, <3>4, <3>5 DEF Formed, DevicesTyped
  <2> QED BY <2>1, <2>2
<1> QED BY <1>1, <1>2, <1>3, <1>4 DEF Formed

LEMMA ReportFormed ==
  ASSUME Formed, NEW n \in Device, Report(n)
  PROVE  Formed'
<1>1. CASE CommandSent(n)
  BY <1>1, CommandSentFormed
<1>2. CASE n \in Coordinator /\ \E m \in HasMemory : ResponseSent(n, m)
  BY <1>2, ResponseSentFormed, HasMemoryType
<1>3. CASE n \in EndDevice /\ RequestSent(n)
  BY <1>3, RequestSentFormed
<1>4. CASE n \in EndDevice /\ \E a \in Again, m \in HasMemory : RequestFailed(n, a, m)
  BY <1>4, RequestFailedFormed, HasMemoryType
<1>5. CASE n \in EndDevice /\ \E a \in Again, m \in HasMemory : AliveSent(n, a, m)
  BY <1>5, AliveSentFormed, HasMemoryType
<1> QED BY <1>1, <1>2, <1>3, <1>4, <1>5 DEF Report

LEMMA ParseFormed ==
  ASSUME Formed, NEW n \in Device, Parse(n)
  PROVE  Formed'
<1>1. CASE Ignore(n)
  BY <1>1, IgnoreFormed
<1>2. CASE \E m \in HasMemory : ReceiveRemovalRequest(n, m)
  BY <1>2, ReceiveRemovalRequestFormed, HasMemoryType
<1>3. CASE ReceiveRemovalResponse(n)
  BY <1>3, ReceiveRemovalResponseFormed
<1>4. CASE n \in Coordinator /\ \E m \in HasMemory : ReceiveRequest(n, m)
  BY <1>4, ReceiveRequestFormed, HasMemoryType
<1>5. CASE n \in Coordinator /\ ReceiveAlive(n)
  BY <1>5, ReceiveAliveFormed
<1>6. CASE n \in EndDevice /\ ReceiveResponse(n)
  BY <1>6, ReceiveResponseFormed
<1>7. CASE n \in EndDevice /\ \E a \in Again, m \in HasMemory : ReceiveShare(n, a, m)
  BY <1>7, ReceiveShareFormed, HasMemoryType
<1> QED BY <1>1, <1>2, <1>3, <1>4, <1>5, <1>6, <1>7 DEF Parse

LEMMA NextFormed ==
  ASSUME Formed, [Next]_vars
  PROVE  Formed'
<1>1. ASSUME NEW n \in Device, Transmission(n) \/ Report(n) \/ Parse(n) \/ PowerCycle(n)
      PROVE  Formed'
  BY <1>1, TransmissionFormed, ReportFormed, ParseFormed, PowerCycleFormed
<1>2. ASSUME NEW n \in Device, NEW i \in Slot, NEW m \in HasMemory, RemoveConnection(n, i, m)
      PROVE  Formed'
  BY <1>2, RemoveConnectionFormed, HasMemoryType
<1>3. ASSUME NEW c \in Coordinator, NEW m \in HasMemory, ShareInterval(c, m)
      PROVE  Formed'
  BY <1>3, ShareIntervalFormed, HasMemoryType
<1>4. ASSUME NEW c \in Coordinator, FindInActiveDevices(c)
      PROVE  Formed'
  BY <1>4, FindInActiveFormed
<1>5. ASSUME NEW e \in EndDevice, EstablishConnection(e)
      PROVE  Formed'
  BY <1>5, EstablishFormed
<1>6. ASSUME NEW e \in EndDevice, NEW m \in HasMemory, LinkStatusInterval(e, m)
      PROVE  Formed'
  BY <1>6, LinkStatusFormed, HasMemoryType
<1>7. ASSUME NEW e \in EndDevice, NEW a \in Again, NEW m \in HasMemory, ConnectionInterval(e, a, m)
      PROVE  Formed'
  BY <1>7, ConnectionIntervalFormed, HasMemoryType
<1>8. CASE UNCHANGED vars
  <2>1. UNCHANGED <<table, device, txq, sending, rx, used, granted>>
    BY <1>8 DEF vars, radio
  <2>2. RadioFormed'
    BY <2>1, RadioParts DEF Formed
  <2> QED BY <2>1, <2>2, TablesUnchanged, DevicesUnchanged, CountsUnchanged DEF Formed
<1> QED BY <1>1, <1>2, <1>3, <1>4, <1>5, <1>6, <1>7, <1>8 DEF Next

(* Frames, tables and counters are well formed whatever the application,   *)
(* the memory and the clocks do: an entry that is valid has an address     *)
(* (MiApp_RemoveConnection sends to it), every frame is in the queue of    *)
(* its source and only reaches whom it is addressed to.                    *)
THEOREM StarFormed == Spec => []Formed
BY InitFormed, NextFormed, PTL DEF Spec

----------------------------------------------------------------------------
(* One carrier of a procedure.                                             *)

LEMMA InitCarried == Init => Carried
<1> SUFFICES ASSUME Init, NEW e \in EndDevice  PROVE CarriedOnce(e)
  BY DEF Carried
<1>1. txq[e] = <<>> /\ sending[e] = Idle /\ connTimer[e] = FALSE /\ est[e] = NoProcedure
  BY DEF Init, RadioInit, EndDevice
<1>2. ~ Queued(e) /\ Once(Request(e), txq[e])
  BY <1>1, FramesEmpty DEF Queued
<1>3. ~ Sending(e)
  BY <1>1 DEF Sending, Idle, NoFrame, Request
<1> QED BY <1>1, <1>2, <1>3 DEF CarriedOnce, NoProcedure

(* What a step leaves alone: nothing for the procedure of e is queued,     *)
(* sent or reported, and its interval and callback stay.                   *)
CalmFor(e) ==
  /\ connTimer'[e] = connTimer[e]
  /\ est'[e].callback = est[e].callback
  /\ sending'[e].frame = Request(e) <=> sending[e].frame = Request(e)
  /\ \/ txq'[e] = txq[e]
     \/ \E f \in Frame : f # Request(e) /\ txq'[e] = Append(txq[e], f)

LEMMA CalmKeeps ==
  ASSUME Formed, NEW e \in EndDevice, CarriedOnce(e), CalmFor(e)
  PROVE  CarriedOnce(e)'
<1> DEFINE g == Request(e)
<1>1. e \in Device /\ txq[e] \in Seq(Frame)
  BY DEF EndDevice, Formed, RadioFormed, RadioTypeOK
<1>2. (g \in Frames(txq'[e]) <=> g \in Frames(txq[e])) /\ (Once(g, txq[e]) => Once(g, txq'[e]))
  <2>1. CASE txq'[e] = txq[e]
    BY <2>1
  <2>2. ASSUME NEW f \in Frame, f # g, txq'[e] = Append(txq[e], f)
        PROVE  /\ g \in Frames(txq'[e]) <=> g \in Frames(txq[e])
               /\ Once(g, txq[e]) => Once(g, txq'[e])
    <3>1. /\ Frames(Append(txq[e], f)) = Frames(txq[e]) \union {f}
          /\ Once(g, txq[e]) => Once(g, Append(txq[e], f))
      BY <1>1, <2>2, FramesAppend
    <3> QED BY <2>2, <3>1
  <2> QED BY <2>1, <2>2 DEF CalmFor
<1>3. Queued(e)' <=> Queued(e)
  BY <1>2 DEF Queued, Request
<1>4. Sending(e)' <=> Sending(e)
  BY DEF Sending, CalmFor, Request
<1>5. Once(Request(e), txq[e])' <=> Once(g, txq'[e])
  BY DEF Once, Request
<1> QED BY <1>2, <1>3, <1>4, <1>5 DEF CarriedOnce, CalmFor

(* The steps of the stack that have nothing to do with a procedure.        *)
OtherQueue ==
  \/ UNCHANGED txq
  \/ \E n \in Device, f \in Frame, m \in BOOLEAN :
       f.src = n /\ f.type # "CONNECTION_REQUEST" /\ Queue(n, f, m)
PlainQueue ==
  \/ UNCHANGED txq
  \/ \E n \in Device, f \in Frame, m \in BOOLEAN :
       /\ f.src = n /\ Queue(n, f, m)
       /\ f.type \notin {"CONNECTION_REQUEST", "CONNECTION_RESPONSE"}
OtherSent ==
  \/ UNCHANGED sending
  \/ \E n \in Device : sending[n].frame.type # "CONNECTION_REQUEST" /\ Sent(n)
OtherEst == \A e \in EndDevice : est'[e].callback = est[e].callback

LEMMA PlainIsOther == PlainQueue => OtherQueue
BY DEF PlainQueue, OtherQueue

LEMMA OtherIsCalm ==
  ASSUME Formed, OtherQueue, OtherSent, OtherEst, UNCHANGED connTimer
  PROVE  \A e \in EndDevice : CalmFor(e)
<1> SUFFICES ASSUME NEW e \in EndDevice  PROVE CalmFor(e)
  OBVIOUS
<1>1. e \in Device
  BY DEF EndDevice
<1>2. Request(e).type = "CONNECTION_REQUEST"
  BY FramesBuilt
<1>3. sending'[e].frame = Request(e) <=> sending[e].frame = Request(e)
  <2>1. CASE UNCHANGED sending
    BY <2>1
  <2>2. ASSUME NEW n \in Device, sending[n].frame.type # "CONNECTION_REQUEST", Sent(n)
        PROVE  sending'[e].frame = Request(e) <=> sending[e].frame = Request(e)
    <3>1. CASE n = e
      <4>1. sending'[e] = Idle
        BY <2>2, <3>1, <1>1 DEF Sent, Formed, RadioFormed, RadioTypeOK
      <4>2. Idle.frame.type = "NONE"
        BY DEF Idle, NoFrame
      <4> QED BY <4>1, <4>2, <1>2, <2>2, <3>1
    <3>2. CASE n # e
      BY <2>2, <3>2, <1>1 DEF Sent, Formed, RadioFormed, RadioTypeOK
    <3> QED BY <3>1, <3>2
  <2> QED BY <2>1, <2>2 DEF OtherSent
<1>4. txq'[e] = txq[e] \/ \E f \in Frame : f # Request(e) /\ txq'[e] = Append(txq[e], f)
  <2>1. CASE UNCHANGED txq
    BY <2>1
  <2>2. ASSUME NEW n \in Device, NEW f \in Frame, NEW m \in BOOLEAN,
               f.src = n, f.type # "CONNECTION_REQUEST", Queue(n, f, m)
        PROVE  txq'[e] = txq[e] \/ \E g \in Frame : g # Request(e) /\ txq'[e] = Append(txq[e], g)
    <3>1. /\ \A k \in Device : k # n => txq'[k] = txq[k]
          /\ txq'[n] = IF m THEN Append(txq[n], f) ELSE txq[n]
      BY <2>2, QueueKeeps DEF Formed
    <3>2. f # Request(e)
      BY <1>2, <2>2
    <3> QED BY <1>1, <3>1, <3>2
  <2> QED BY <2>1, <2>2 DEF OtherQueue
<1> QED BY <1>3, <1>4 DEF CalmFor, OtherEst

LEMMA CalmCarried ==
  ASSUME Formed, Carried, \A e \in EndDevice : CalmFor(e)
  PROVE  Carried'
BY CalmKeeps DEF Carried

----------------------------------------------------------------------------
(* The calm steps.                                                         *)

LEMMA BroadcastIsPlain ==
  ASSUME Formed, NEW c \in Coordinator, NEW m \in BOOLEAN, BroadcastTable(c, m)
  PROVE  PlainQueue
<1>1. PICK f \in Frame : f.src = c /\ Queue(c, f, m) /\ f.type = "SHARE_CONNECTION_TABLE"
  BY BroadcastTableQueues
<1> QED BY <1>1, StarAssumption DEF PlainQueue

LEMMA ReportIsPlain ==
  ASSUME Formed, Patient, NEW n \in Device,
         \/ CommandSent(n)
         \/ n \in Coordinator /\ \E m \in HasMemory : ResponseSent(n, m)
         \/ n \in EndDevice /\ \E a \in Again, m \in HasMemory : AliveSent(n, a, m)
  PROVE  PlainQueue /\ OtherSent /\ UNCHANGED <<est, connTimer, tries, granted, rx>>
<1>1. CASE CommandSent(n)
  <2>1. sending[n].frame.type # "CONNECTION_REQUEST" /\ Sent(n)
    BY <1>1 DEF CommandSent
  <2> QED BY <1>1, <2>1 DEF CommandSent, PlainQueue, OtherSent, device
<1>2. CASE n \in Coordinator /\ \E m \in HasMemory : ResponseSent(n, m)
  <2>1. PICK m \in BOOLEAN : ResponseSent(n, m)
    BY <1>2, HasMemoryType
  <2>2. PlainQueue
    BY <1>2, <2>1, BroadcastIsPlain DEF ResponseSent
  <2>3. sending[n].frame.type # "CONNECTION_REQUEST" /\ Sent(n)
    BY <2>1 DEF ResponseSent
  <2> QED BY <2>1, <2>2, <2>3 DEF ResponseSent, OtherSent, device
<1>3. CASE n \in EndDevice /\ \E a \in Again, m \in HasMemory : AliveSent(n, a, m)
  <2>1. PICK m \in BOOLEAN : AliveSent(n, FALSE, m)
    BY <1>3, HasMemoryType DEF Again, Patient
  <2>2. UNCHANGED <<est, txq, tries, granted>>
    BY <2>1 DEF AliveSent, Lost
  <2>3. sending[n].frame.type # "CONNECTION_REQUEST" /\ Sent(n)
    BY <2>1 DEF AliveSent
  <2> QED BY <2>1, <2>2, <2>3 DEF AliveSent, PlainQueue, OtherSent
<1> QED BY <1>1, <1>2, <1>3

LEMMA ParseIsPlain ==
  ASSUME Formed, Patient, NEW n \in Device, Parse(n)
  PROVE  \/ /\ PlainQueue /\ UNCHANGED <<est, connTimer, tries, sending, granted>>
            /\ \E type : Receive(n, type)
         \/ n \in EndDevice /\ ReceiveResponse(n)
         \/ n \in Coordinator /\ \E m \in HasMemory : ReceiveRequest(n, m)
<1>1. CASE Ignore(n)
  BY <1>1 DEF Ignore, device, PlainQueue
<1>2. CASE \E m \in HasMemory : ReceiveRemovalRequest(n, m)
  <2>1. PICK m \in BOOLEAN : ReceiveRemovalRequest(n, m)
    BY <1>2, HasMemoryType
  <2> DEFINE d == Received(n).src
             found == HoldsValid(table[n], d) # {}
             f == RemovalResponse(n, d, found)
  <2>2. d \in Device
    BY <2>1, ReceiveKeeps, FrameShape DEF Formed, ReceiveRemovalRequest
  <2>4. Queue(n, f, m) /\ found \in BOOLEAN
    BY <2>1 DEF ReceiveRemovalRequest
  <2> HIDE DEF found, d
  <2>3. f \in Frame /\ f.src = n /\ f.type = "REMOVAL_RESPONSE"
    BY <2>2, <2>4, FramesBuilt
  <2> HIDE DEF f
  <2>5. PlainQueue
    BY <2>3, <2>4 DEF PlainQueue
  <2> QED BY <2>1, <2>5 DEF ReceiveRemovalRequest, device
<1>3. CASE ReceiveRemovalResponse(n)
  BY <1>3 DEF ReceiveRemovalResponse, device, PlainQueue
<1>4. CASE n \in Coordinator /\ ReceiveAlive(n)
  BY <1>4 DEF ReceiveAlive, device, PlainQueue
<1>5. CASE n \in EndDevice /\ \E a \in Again, m \in HasMemory : ReceiveShare(n, a, m)
  <2>1. PICK m \in BOOLEAN : ReceiveShare(n, FALSE, m)
    BY <1>5, HasMemoryType DEF Again, Patient
  <2>2. UNCHANGED <<est, txq, tries, granted>>
    BY <2>1 DEF ReceiveShare, Lost
  <2> QED BY <2>1, <2>2 DEF ReceiveShare, PlainQueue
<1> QED BY <1>1, <1>2, <1>3, <1>4, <1>5 DEF Parse

LEMMA ParseIsOther ==
  ASSUME Formed, Patient, NEW n \in Device, Parse(n)
  PROVE  OtherQueue /\ OtherSent /\ OtherEst /\ UNCHANGED connTimer
<1>1. CASE PlainQueue /\ UNCHANGED <<est, connTimer, tries, sending, granted>>
  BY <1>1, PlainIsOther DEF OtherSent, OtherEst
<1>2. CASE n \in EndDevice /\ ReceiveResponse(n)
  <2>1. \/ UNCHANGED est
        \/ \E st : est' = [est EXCEPT ![n].retries = 0, ![n].status = st]
    BY <1>2 DEF ReceiveResponse
  <2>2. est \in [EndDevice -> EstType]
    BY DEF Formed, DevicesTyped
  <2>3. OtherEst
    BY <1>2, <2>1, <2>2 DEF OtherEst, EstType
  <2> QED BY <1>2, <2>3 DEF ReceiveResponse, OtherQueue, OtherSent
<1>3. ASSUME n \in Coordinator, NEW m \in HasMemory, ReceiveRequest(n, m)
      PROVE  OtherQueue /\ OtherSent /\ OtherEst /\ UNCHANGED connTimer
  <2>1. m \in BOOLEAN
    BY HasMemoryType
  <2>2. PICK f \in Frame : f.src = n /\ f.type = "CONNECTION_RESPONSE" /\ Queue(n, f, m)
    BY <1>3, <2>1, RequestAnswered
  <2>3. OtherQueue
    BY <2>1, <2>2 DEF OtherQueue
  <2> QED BY <1>3, <2>3 DEF ReceiveRequest, device, OtherSent, OtherEst
<1> QED BY <1>1, <1>2, <1>3, ParseIsPlain

----------------------------------------------------------------------------
(* The steps of a procedure.                                               *)

LEMMA TransmissionCarried ==
  ASSUME Formed, Carried, NEW n \in Device, Transmission(n)
  PROVE  Carried'
<1>1. PICK R \in SUBSET Reach(n), s \in {"SUCCESS", "FAILURE"} : Send(n, R, s)
  BY DEF Transmission, Transmit
<1>2. UNCHANGED <<connTimer, est>>
  BY DEF Transmission, device
<1> DEFINE h == Head(txq[n])
<1>3. /\ Frames(txq[n]) = Frames(txq'[n]) \union {h}
      /\ \A g : Once(g, txq[n]) => Once(g, txq'[n]) /\ (h = g => g \notin Frames(txq'[n]))
      /\ \A k \in Device : k # n => txq'[k] = txq[k] /\ sending'[k] = sending[k]
      /\ sending'[n] = [frame |-> h, status |-> s]
  <2>1. SendEffect(n, R, s)
    BY <1>1, SendKeeps DEF Formed
  <2> QED BY <2>1 DEF SendEffect
<1>4. ASSUME NEW e \in EndDevice
      PROVE  CarriedOnce(e)'
  <2>1. CarriedOnce(e) /\ e \in Device
    BY DEF Carried, EndDevice
  <2>2. CASE e # n
    <3>1. CalmFor(e)
      BY <1>2, <1>3, <2>1, <2>2 DEF CalmFor
    <3> QED BY <2>1, <3>1, CalmKeeps
  <2>3. CASE e = n
    <3>1. sending[e] = Idle
      BY <1>1, <2>3 DEF Send
    <3>2. ~ Sending(e)
      BY <3>1 DEF Sending, Idle, NoFrame, Request
    <3> DEFINE g == Request(e)
    <3>3. /\ Queued(e)' <=> g \in Frames(txq'[e])
          /\ Queued(e) <=> g \in Frames(txq[e])
          /\ Sending(e)' <=> sending'[e].frame = g
          /\ Once(Request(e), txq[e])' <=> Once(g, txq'[e])
      BY DEF Queued, Sending, Request, Once
    <3>4. sending'[e].frame = Head(txq[e])
      BY <1>3, <2>3
    <3>5. Once(g, txq[e])
      BY <2>1 DEF CarriedOnce
    <3> HIDE DEF g
    <3>6. /\ g \in Frames(txq[e]) <=> g \in Frames(txq'[e]) \/ Head(txq[e]) = g
          /\ Once(g, txq'[e])
          /\ Head(txq[e]) = g => g \notin Frames(txq'[e])
      BY <1>3, <2>3, <3>5
    <3>7. connTimer'[e] = connTimer[e] /\ est'[e] = est[e]
      BY <1>2
    <3> QED BY <2>1, <3>2, <3>3, <3>4, <3>6, <3>7 DEF CarriedOnce
  <2> QED BY <2>2, <2>3
<1> QED BY <1>4 DEF Carried

(* A step of one end device leaves the procedures of the others alone.     *)
LEMMA CarriedOfOne ==
  ASSUME Formed, Carried, NEW e \in EndDevice, CarriedOnce(e)',
         \A d \in EndDevice : d # e => CalmFor(d)
  PROVE  Carried'
BY CalmKeeps DEF Carried

LEMMA SendRequestOthers ==
  ASSUME Formed, NEW e \in EndDevice, NEW r, SendConnectionRequest(e, r, FALSE, TRUE)
  PROVE  /\ \A d \in Device : d # e => txq'[d] = txq[d]
         /\ \A d \in EndDevice : d # e => /\ est'[d] = est[d]
                                          /\ tries'[d] = tries[d]
                                          /\ state'[d] = state[d]
         /\ UNCHANGED granted
         /\ \/ /\ MayRetry(e, r) /\ est'[e] = [est[e] EXCEPT !.retries = r]
               /\ txq'[e] = Append(txq[e], Request(e)) /\ tries'[e] = tries[e] + 1
               /\ UNCHANGED state
            \/ /\ ~ MayRetry(e, r)
               /\ est'[e] = [est[e] EXCEPT !.retries = r, !.callback = FALSE]
               /\ txq'[e] = txq[e] /\ tries'[e] = tries[e]
               /\ state'[e] = Outcome(e)
<1> USE DEF Formed, DevicesTyped, RadioFormed, RadioTypeOK
<1>1. e \in Device
  BY DEF EndDevice
<1>2. CASE MayRetry(e, r) /\ Retry(e, r, TRUE)
  <2>1. /\ est' = [est EXCEPT ![e].retries = r]
        /\ txq' = [txq EXCEPT ![e] = Append(txq[e], Request(e))]
        /\ tries' = [tries EXCEPT ![e] = tries[e] + 1]
        /\ UNCHANGED <<state, granted>>
    BY <1>2 DEF Retry, Queue
  <2> QED BY <1>1, <1>2, <2>1
<1>3. CASE ~ MayRetry(e, r) /\ Confirm(e, r, FALSE, TRUE)
  <2>1. /\ est' = [est EXCEPT ![e].retries = r, ![e].callback = FALSE]
        /\ state' = [state EXCEPT ![e] = Outcome(e)]
        /\ UNCHANGED <<txq, tries, granted>>
    BY <1>3 DEF Confirm
  <2>2. est'[e] = [est[e] EXCEPT !.retries = r, !.callback = FALSE]
    BY <2>1
  <2> QED BY <1>1, <1>3, <2>1, <2>2
<1> QED BY <1>2, <1>3 DEF SendConnectionRequest

LEMMA SendRequestCarried ==
  ASSUME Formed, Carried, NEW e \in EndDevice, NEW r,
         SendConnectionRequest(e, r, FALSE, TRUE),
         est[e].callback, ~ Queued(e), ~ Sending(e)', connTimer'[e] = FALSE
  PROVE  CarriedOnce(e)'
<1> DEFINE g == Request(e)
<1>1. e \in Device /\ txq[e] \in Seq(Frame) /\ g \in Frame /\ est[e] \in EstType
  BY FramesBuilt DEF EndDevice, Formed, RadioFormed, RadioTypeOK, DevicesTyped
<1>2. /\ Queued(e)' <=> g \in Frames(txq'[e])
      /\ Queued(e) <=> g \in Frames(txq[e])
      /\ Once(Request(e), txq[e])' <=> Once(g, txq'[e])
  BY DEF Queued, Request, Once
<1>3. Once(g, txq[e])
  BY DEF Carried, CarriedOnce
<1>4. /\ Frames(Append(txq[e], g)) = Frames(txq[e]) \union {g}
      /\ Once(g, Append(txq[e], g))
  BY <1>1, <1>2, <1>3, FramesAppend
<1>5. \/ est'[e] = [est[e] EXCEPT !.retries = r] /\ txq'[e] = Append(txq[e], g)
      \/ est'[e] = [est[e] EXCEPT !.retries = r, !.callback = FALSE] /\ txq'[e] = txq[e]
  BY SendRequestOthers
<1> HIDE DEF g
<1>6. CASE est'[e] = [est[e] EXCEPT !.retries = r] /\ txq'[e] = Append(txq[e], g)
  <2>1. est'[e].callback = TRUE
    BY <1>1, <1>6 DEF EstType
  <2> QED BY <1>2, <1>4, <1>6, <2>1 DEF CarriedOnce
<1>7. CASE est'[e] = [est[e] EXCEPT !.retries = r, !.callback = FALSE] /\ txq'[e] = txq[e]
  <2>1. est'[e].callback = FALSE
    BY <1>1, <1>7 DEF EstType
  <2> QED BY <1>2, <1>3, <1>7, <2>1 DEF CarriedOnce
<1> QED BY <1>5, <1>6, <1>7

LEMMA RequestSentCarried ==
  ASSUME Formed, Carried, NEW e \in EndDevice, RequestSent(e)
  PROVE  Carried'
<1> USE DEF Formed, DevicesTyped, RadioFormed, RadioTypeOK
<1>1. /\ Sending(e) /\ sending' = [sending EXCEPT ![e] = Idle]
      /\ est' = [est EXCEPT ![e].retries = Dec(est[e].retries)]
      /\ connTimer' = [connTimer EXCEPT ![e] = TRUE]
      /\ UNCHANGED txq
  BY DEF RequestSent, Sending, Sent
<1>2. e \in Device
  BY DEF EndDevice
<1>3. ~ Sending(e)'
  BY <1>1, <1>2 DEF Sending, Idle, NoFrame, Request
<1>4. est'[e].callback = est[e].callback /\ connTimer'[e] = TRUE
  BY <1>1 DEF EstType
<1>5. CarriedOnce(e)
  BY DEF Carried
<1>6. Queued(e)' = Queued(e) /\ Once(Request(e), txq[e])' = Once(Request(e), txq[e])
  BY <1>1 DEF Queued, Once, Request
<1>7. CarriedOnce(e)'
  BY <1>1, <1>3, <1>4, <1>5, <1>6 DEF CarriedOnce
<1>8. \A d \in EndDevice : d # e => CalmFor(d)
  BY <1>1, <1>2 DEF CalmFor, EndDevice
<1> QED BY <1>7, <1>8, CarriedOfOne

LEMMA RequestFailedCarried ==
  ASSUME Formed, Carried, NEW e \in EndDevice, RequestFailed(e, FALSE, TRUE)
  PROVE  Carried'
<1> USE DEF Formed, DevicesTyped, RadioFormed, RadioTypeOK
<1>1. /\ Sending(e) /\ sending' = [sending EXCEPT ![e] = Idle]
      /\ UNCHANGED connTimer
  BY DEF RequestFailed, Sending, Sent
<1>2. e \in Device
  BY DEF EndDevice
<1>3. ~ Sending(e)'
  BY <1>1, <1>2 DEF Sending, Idle, NoFrame, Request
<1>4. est[e].callback /\ ~ Queued(e) /\ connTimer'[e] = FALSE
  BY <1>1 DEF Carried, CarriedOnce
<1>5. CarriedOnce(e)'
  BY <1>3, <1>4, SendRequestCarried DEF RequestFailed
<1>6. \A d \in EndDevice : d # e => CalmFor(d)
  <2>1. \A d \in EndDevice : d # e => est'[d] = est[d] /\ txq'[d] = txq[d]
    BY SendRequestOthers DEF RequestFailed, EndDevice
  <2> QED BY <1>1, <1>2, <2>1 DEF CalmFor, EndDevice
<1> QED BY <1>5, <1>6, CarriedOfOne

LEMMA ConnectionIntervalCarried ==
  ASSUME Formed, Carried, NEW e \in EndDevice, ConnectionInterval(e, FALSE, TRUE)
  PROVE  Carried'
<1> USE DEF Formed, DevicesTyped, RadioFormed, RadioTypeOK
<1>1. /\ connTimer[e] /\ connTimer' = [connTimer EXCEPT ![e] = FALSE]
      /\ UNCHANGED sending
  BY DEF ConnectionInterval
<1>2. e \in Device
  BY DEF EndDevice
<1>3. est[e].callback /\ ~ Queued(e) /\ ~ Sending(e) /\ connTimer'[e] = FALSE
  BY <1>1 DEF Carried, CarriedOnce
<1>4. ~ Sending(e)'
  BY <1>1, <1>3 DEF Sending, Request
<1>5. CarriedOnce(e)'
  BY <1>3, <1>4, SendRequestCarried DEF ConnectionInterval
<1>6. \A d \in EndDevice : d # e => CalmFor(d)
  <2>1. \A d \in EndDevice : d # e => est'[d] = est[d] /\ txq'[d] = txq[d]
    BY SendRequestOthers DEF ConnectionInterval, EndDevice
  <2> QED BY <1>1, <1>2, <2>1 DEF CalmFor, EndDevice
<1> QED BY <1>5, <1>6, CarriedOfOne

LEMMA EstablishCarried ==
  ASSUME Formed, Carried, NEW e \in EndDevice, EstablishConnection(e)
  PROVE  Carried'
<1> USE DEF Formed, DevicesTyped, RadioFormed, RadioTypeOK
<1> DEFINE g == Request(e)
<1>1. /\ ~ est[e].callback
      /\ est' = [est EXCEPT ![e] = Procedure(e, state[e])]
      /\ txq' = [txq EXCEPT ![e] = Append(txq[e], g)]
      /\ UNCHANGED <<connTimer, sending>>
  BY DEF EstablishConnection, Queue
<1>2. e \in Device /\ txq[e] \in Seq(Frame) /\ g \in Frame
  BY FramesBuilt DEF EndDevice
<1>3. ~ Queued(e) /\ ~ Sending(e) /\ ~ connTimer[e] /\ Once(g, txq[e])
  BY <1>1 DEF Carried, CarriedOnce
<1>4. /\ Frames(Append(txq[e], g)) = Frames(txq[e]) \union {g}
      /\ Once(g, Append(txq[e], g))
  BY <1>2, <1>3, FramesAppend DEF Queued
<1>5. /\ Queued(e)' <=> g \in Frames(txq'[e])
      /\ Once(Request(e), txq[e])' <=> Once(g, txq'[e])
      /\ Sending(e)' <=> Sending(e)
  BY <1>1 DEF Queued, Request, Once, Sending
<1>6. est'[e].callback = TRUE
  BY <1>1 DEF Procedure
<1>7. txq'[e] = Append(txq[e], g)
  BY <1>1, <1>2
<1> HIDE DEF g
<1>8. CarriedOnce(e)'
  BY <1>1, <1>3, <1>4, <1>5, <1>6, <1>7 DEF CarriedOnce
<1>9. \A d \in EndDevice : d # e => CalmFor(d)
  BY <1>1, <1>2 DEF CalmFor, EndDevice
<1> QED BY <1>8, <1>9, CarriedOfOne

LEMMA PowerCycleCarried ==
  ASSUME Formed, Carried, NEW n \in Device, PowerCycle(n)
  PROVE  Carried'
<1> USE DEF Formed, DevicesTyped, RadioFormed, RadioTypeOK
<1>1. txq' = [txq EXCEPT ![n] = <<>>] /\ sending' = [sending EXCEPT ![n] = Idle]
  BY DEF PowerCycle, RadioOff
<1>2. \/ n \in Coordinator /\ UNCHANGED <<est, connTimer>>
      \/ /\ n \in EndDevice
         /\ est' = [est EXCEPT ![n] = NoProcedure]
         /\ connTimer' = [connTimer EXCEPT ![n] = FALSE]
  BY DEF PowerCycle, device, EndDevice
<1>3. \A d \in EndDevice : d # n => CalmFor(d)
  BY <1>1, <1>2 DEF CalmFor, EndDevice
<1>4. CASE n \in Coordinator
  <2>1. \A d \in EndDevice : CalmFor(d)
    BY <1>3, <1>4 DEF EndDevice
  <2> QED BY <2>1, CalmCarried
<1>5. CASE n \in EndDevice
  <2>1. txq'[n] = <<>> /\ sending'[n] = Idle /\ connTimer'[n] = FALSE /\ est'[n] = NoProcedure
    BY <1>1, <1>2, <1>5 DEF EndDevice
  <2>2. ~ Queued(n)' /\ Once(Request(n), txq[n])'
    BY <2>1, FramesEmpty DEF Queued
  <2>3. ~ Sending(n)'
    BY <2>1 DEF Sending, Idle, NoFrame, Request
  <2>4. CarriedOnce(n)'
    BY <2>1, <2>2, <2>3 DEF CarriedOnce, NoProcedure
  <2> QED BY <1>3, <1>5, <2>4, CarriedOfOne
<1> QED BY <1>4, <1>5 DEF EndDevice

(* The timers and calls that have nothing to do with a procedure.          *)
LEMMA RestIsPlain ==
  ASSUME Formed,
         \/ \E n \in Device, i \in Slot, m \in HasMemory : RemoveConnection(n, i, m)
         \/ \E c \in Coordinator, m \in HasMemory : ShareInterval(c, m)
         \/ \E c \in Coordinator : FindInActiveDevices(c)
         \/ \E e \in EndDevice, m \in HasMemory : LinkStatusInterval(e, m)
         \/ UNCHANGED vars
  PROVE  PlainQueue /\ UNCHANGED <<sending, rx, est, state, connTimer, tries, granted>>
<1>1. ASSUME NEW n \in Device, NEW i \in Slot, NEW m \in HasMemory, RemoveConnection(n, i, m)
      PROVE  PlainQueue
  <2> DEFINE f == RemovalRequest(n, table[n].addr[i])
  <2>1. table[n].addr[i] \in Device
    BY <1>1 DEF Formed, TablesGood, Good, RemoveConnection
  <2>2. f \in Frame /\ f.src = n /\ f.type = "REMOVAL_REQUEST"
    BY <2>1, FramesBuilt
  <2>3. Queue(n, f, m)
    BY <1>1 DEF RemoveConnection
  <2> HIDE DEF f
  <2> QED BY <2>2, <2>3, HasMemoryType DEF PlainQueue
<1>2. ASSUME NEW e \in EndDevice, NEW m \in HasMemory, LinkStatusInterval(e, m)
      PROVE  PlainQueue
  <2> DEFINE f == IamAlive(e, table[e].addr[0])
  <2>1. table[e].addr[0] \in Device \union {NoDevice}
    BY TableAssumption, SMTT(30) DEF Formed, TablesGood, Table, EndDevice, Slot
  <2>2. f \in Frame /\ f.src = e /\ f.type = "IAM_ALIVE"
    BY <2>1, FramesBuilt
  <2>3. Queue(e, f, m)
    BY <1>2 DEF LinkStatusInterval
  <2> HIDE DEF f
  <2> QED BY <2>2, <2>3, HasMemoryType DEF PlainQueue, EndDevice
<1>3. ASSUME NEW c \in Coordinator, NEW m \in HasMemory, ShareInterval(c, m)
      PROVE  PlainQueue
  BY <1>3, BroadcastIsPlain, HasMemoryType DEF ShareInterval
<1>4. CASE \E c \in Coordinator : FindInActiveDevices(c)
  BY <1>4 DEF FindInActiveDevices, PlainQueue, radio, device
<1>5. CASE UNCHANGED vars
  BY <1>5 DEF PlainQueue, vars, radio, device
<1>6. CASE \E n \in Device, i \in Slot, m \in HasMemory : RemoveConnection(n, i, m)
  BY <1>1, <1>6 DEF RemoveConnection, device
<1>7. CASE \E c \in Coordinator, m \in HasMemory : ShareInterval(c, m)
  BY <1>3, <1>7 DEF ShareInterval, device
<1>8. CASE \E e \in EndDevice, m \in HasMemory : LinkStatusInterval(e, m)
  BY <1>2, <1>8 DEF LinkStatusInterval, device
<1> QED BY <1>4, <1>5, <1>6, <1>7, <1>8

LEMMA NextCarried ==
  ASSUME Patient, Formed, Carried, [Next]_vars
  PROVE  Carried'
<1>0. Again = {FALSE} /\ HasMemory = {TRUE}
  BY DEF Patient, Again, HasMemory
<1>1. ASSUME OtherQueue, OtherSent, OtherEst, UNCHANGED connTimer
      PROVE  Carried'
  BY <1>1, OtherIsCalm, CalmCarried
<1>2. ASSUME NEW n \in Device, Transmission(n) \/ PowerCycle(n)
      PROVE  Carried'
  BY <1>2, TransmissionCarried, PowerCycleCarried
<1>3. ASSUME NEW n \in Device, Parse(n)
      PROVE  Carried'
  BY <1>1, <1>3, ParseIsOther
<1>4. ASSUME NEW n \in Device, Report(n)
      PROVE  Carried'
  <2>1. CASE n \in EndDevice /\ RequestSent(n)
    BY <2>1, RequestSentCarried
  <2>2. CASE n \in EndDevice /\ \E a \in Again, m \in HasMemory : RequestFailed(n, a, m)
    BY <1>0, <2>2, RequestFailedCarried
  <2>3. CASE \/ CommandSent(n)
             \/ n \in Coordinator /\ \E m \in HasMemory : ResponseSent(n, m)
             \/ n \in EndDevice /\ \E a \in Again, m \in HasMemory : AliveSent(n, a, m)
    <3>1. PlainQueue /\ OtherSent /\ UNCHANGED <<est, connTimer>>
      BY <2>3, ReportIsPlain
    <3> QED BY <1>1, <3>1, PlainIsOther DEF OtherEst
  <2> QED BY <1>4, <2>1, <2>2, <2>3 DEF Report
<1>5. CASE \/ \E n \in Device, i \in Slot, m \in HasMemory : RemoveConnection(n, i, m)
           \/ \E c \in Coordinator, m \in HasMemory : ShareInterval(c, m)
           \/ \E c \in Coordinator : FindInActiveDevices(c)
           \/ \E e \in EndDevice, m \in HasMemory : LinkStatusInterval(e, m)
           \/ UNCHANGED vars
  <2>1. PlainQueue /\ UNCHANGED <<sending, est, connTimer>>
    BY <1>5, RestIsPlain
  <2> QED BY <1>1, <2>1, PlainIsOther DEF OtherEst, OtherSent
<1>6. ASSUME NEW e \in EndDevice, EstablishConnection(e)
      PROVE  Carried'
  BY <1>6, EstablishCarried
<1>7. ASSUME NEW e \in EndDevice, NEW a \in Again, NEW m \in HasMemory, ConnectionInterval(e, a, m)
      PROVE  Carried'
  BY <1>0, <1>7, ConnectionIntervalCarried
<1> QED BY <1>2, <1>3, <1>4, <1>5, <1>6, <1>7 DEF Next

LEMMA StarCarried == ASSUME Patient PROVE Spec => [](Formed /\ Carried)
<1>1. Init => Formed /\ Carried
  BY InitFormed, InitCarried
<1>2. Formed /\ Carried /\ [Next]_vars => (Formed /\ Carried)'
  BY NextFormed, NextCarried
<1> QED BY <1>1, <1>2, PTL DEF Spec

LEMMA RequestsCounted ==
  ASSUME NEW e \in EndDevice, Once(Request(e), txq[e])
  PROVE  Cardinality(Requests(e)) = IF Queued(e) THEN 1 ELSE 0
<1>1. CASE Queued(e)
  <2>1. PICK k \in DOMAIN txq[e] : txq[e][k] = Request(e)
    BY <1>1 DEF Queued, Frames
  <2>2. Requests(e) = {k}
    BY <2>1 DEF Requests, Once
  <2> QED BY <1>1, <2>2, FS_Singleton
<1>2. CASE ~ Queued(e)
  <2>1. Requests(e) = {}
    BY <1>2 DEF Queued, Frames, Requests
  <2> QED BY <1>2, <2>1, FS_EmptySet
<1> QED BY <1>1, <1>2

(* A pending procedure is carried by exactly one thing, a queued request,  *)
(* the request being sent or the running interval: whatever is lost, power *)
(* cycled or removed and however late an answer comes, its confirmation is *)
(* neither lost nor given twice.  The application waits for it, and the    *)
(* heap is not empty.                                                      *)
THEOREM StarCarrier == ASSUME Patient PROVE Spec => []OneCarrier
<1>1. ASSUME Formed, Carried
      PROVE  OneCarrier
  <2>1. TypeOK
    BY <1>1, FormedTypeOK
  <2>2. ASSUME NEW e \in EndDevice
        PROVE  Cardinality(Requests(e)) + (IF sending[e].frame = Request(e) THEN 1 ELSE 0)
                 + (IF connTimer[e] THEN 1 ELSE 0) = IF est[e].callback THEN 1 ELSE 0
    <3>1. CarriedOnce(e)
      BY <1>1 DEF Carried
    <3>2. Cardinality(Requests(e)) = IF Queued(e) THEN 1 ELSE 0
      BY <3>1, RequestsCounted DEF CarriedOnce
    <3>3. (sending[e].frame = Request(e)) <=> Sending(e)
      BY DEF Sending
    <3>4. CASE Queued(e)
      BY <3>1, <3>2, <3>3, <3>4 DEF CarriedOnce
    <3>5. CASE ~ Queued(e)
      BY <3>1, <3>2, <3>3, <3>5 DEF CarriedOnce
    <3> QED BY <3>4, <3>5
  <2> QED BY <2>1, <2>2 DEF OneCarrier
<1> QED BY <1>1, StarCarried, PTL

(* sendConnectionRequest finds a confirmation callback whenever it calls   *)
(* it, at the end of an interval and after a request that was not sent.    *)
THEOREM StarCallback == ASSUME Patient PROVE Spec => []NoNullCallback
<1>1. ASSUME Formed, Carried
      PROVE  NoNullCallback
  <2> SUFFICES ASSUME NEW e \in EndDevice, connTimer[e] \/ Sending(e)
               PROVE  est[e].callback
    BY DEF NoNullCallback, Sending
  <2> QED BY <1>1 DEF Carried, CarriedOnce
<1> QED BY <1>1, StarCarried, PTL

----------------------------------------------------------------------------
(* Answers that come in time.                                              *)

(* What a step must not do to the procedure of e.                          *)
NothingComes(e) ==
  /\ Asked(e)' => Asked(e)
  /\ Replies(e)' \subseteq Replies(e)
  /\ Inbox(e)' \subseteq Inbox(e)
Untouched(e) ==
  /\ NothingComes(e)
  /\ connTimer'[e] = connTimer[e] /\ est'[e] = est[e] /\ tries'[e] = tries[e]
  /\ Queued(e)' <=> Queued(e)
  /\ sending'[e] = sending[e] \/ (~ Sending(e) /\ ~ Sending(e)')
  /\ e \in granted => e \in granted'

LEMMA UntouchedKeeps ==
  ASSUME NEW e \in EndDevice, InTime(e), Untouched(e)
  PROVE  InTime(e)'
<1> DEFINE ok == sending[e] = [frame |-> Request(e), status |-> "SUCCESS"]
<1>1. ok => Sending(e)
  BY DEF Sending
<1>2. (Sending(e)' => Sending(e)) /\ (ok => ok')
  <2>1. Request(e)' = Request(e)
    BY DEF Request
  <2> QED BY <1>1, <2>1 DEF Untouched, Sending
<1>3. Answered(e)' <=> Answered(e)
  BY DEF Untouched, Answered
<1>4. QuietOtherwise(e)'
  <2>1. \/ connTimer[e] \/ ok \/ (~ Asked(e) /\ Replies(e) = {})
    BY DEF InTime, QuietOtherwise
  <2>2. \/ connTimer'[e] \/ ok' \/ (~ Asked(e)' /\ Replies(e)' = {})
    BY <1>2, <2>1 DEF Untouched, NothingComes
  <2>3. Sending(e)' => \A f \in Inbox(e)' : f.type # "CONNECTION_RESPONSE"
    BY <1>2 DEF InTime, QuietOtherwise, Untouched, NothingComes
  <2> QED BY <2>2, <2>3 DEF QuietOtherwise
<1>5. RetriesAddUp(e)'
  BY <1>2, <1>3 DEF InTime, RetriesAddUp, Untouched
<1>6. Granted(e)'
  BY <1>3 DEF InTime, Granted, Untouched, NothingComes
<1> QED BY <1>4, <1>5, <1>6 DEF InTime

LEMMA InitInTime == Init => AnswersInTime
<1> SUFFICES ASSUME Init, NEW e \in EndDevice  PROVE InTime(e)
  BY DEF AnswersInTime
<1>1. /\ \A n \in Device : txq[n] = <<>> /\ sending[n] = Idle
      /\ \A n \in Device, b \in Bank : rx[n][b] = NoFrame
      /\ connTimer[e] = FALSE /\ est[e] = NoProcedure /\ tries[e] = 0
  BY DEF Init, RadioInit
<1>2. e \in Device /\ Coordinator \subseteq Device
  BY StarAssumption DEF EndDevice
<1>3. \A n \in Device : Inbox(n) = {} /\ Frames(txq[n]) = {}
  BY <1>1, FramesEmpty DEF Inbox
<1>4. ~ Asked(e) /\ Replies(e) = {}
  BY <1>2, <1>3 DEF Asked, Replies
<1>5. ~ Queued(e) /\ ~ Sending(e)
  BY <1>1, <1>2, <1>3 DEF Queued, Sending, Idle, NoFrame, Request
<1>6. ~ est[e].callback
  BY <1>1 DEF NoProcedure
<1>7. QuietOtherwise(e)
  BY <1>4, <1>5 DEF QuietOtherwise
<1>8. RetriesAddUp(e)
  BY <1>1, <1>5, StarAssumption DEF RetriesAddUp
<1> QED BY <1>4, <1>6, <1>7, <1>8 DEF InTime, Granted

(* An answer that has been received was meant for its receiver.            *)
LEMMA HeardIsReply ==
  ASSUME Formed, NEW e \in EndDevice, NEW f \in Inbox(e), f.type = "CONNECTION_RESPONSE"
  PROVE  f \in Replies(e)
<1>1. e \in Device
  BY DEF EndDevice
<1>2. f \in Frame /\ Addressed(e, f)
  BY <1>1 DEF Formed, RadioFormed, RadioTypeOK, Routed, Inbox
<1>3. f.dst \in Device
  BY <1>2, FrameShape DEF EndDevice
<1>4. f.dst = e
  BY <1>2, <1>3, BroadcastAssumption DEF Addressed
<1> QED BY <1>4 DEF Replies, ReplyTo

LEMMA NotPending ==
  ASSUME Formed, NEW e \in EndDevice, ~ AnswerPending(e)
  PROVE  ~ Asked(e) /\ Replies(e) = {}
<1> USE StarAssumption
<1>1. ASSUME Asked(e)  PROVE FALSE
  <2>1. PICK c \in Coordinator : Request(e) \in Inbox(c)
    BY <1>1 DEF Asked
  <2>2. OnTheWay("CONNECTION_REQUEST", e, c)
    BY <2>1, FramesBuilt DEF OnTheWay, Inbox
  <2> QED BY <2>2 DEF AnswerPending
<1>2. ASSUME NEW f \in Replies(e)  PROVE FALSE
  <2>1. f.type = "CONNECTION_RESPONSE" /\ f.dst = e
    BY <1>2 DEF Replies, ReplyTo
  <2>2. CASE f \in Inbox(e)
    <3>1. f \in Frame /\ e \in Device
      BY <2>2 DEF Formed, RadioFormed, RadioTypeOK, Inbox, EndDevice
    <3>2. f.src \in Coordinator
      BY <2>1, <3>1, FrameShape
    <3>3. OnTheWay("CONNECTION_RESPONSE", f.src, e)
      BY <2>1, <2>2 DEF OnTheWay, Inbox
    <3> QED BY <3>2, <3>3 DEF AnswerPending
  <2>3. ASSUME NEW c \in Coordinator, f \in Frames(txq[c])
        PROVE  FALSE
    <3>1. OnTheWay("CONNECTION_RESPONSE", c, e)
      BY <2>1, <2>3 DEF OnTheWay, Frames
    <3> QED BY <3>1 DEF AnswerPending
  <2> QED BY <1>2, <2>2, <2>3 DEF Replies
<1> QED BY <1>1, <1>2

(* Nothing comes when inboxes only empty and no answer is queued.          *)
LEMMA NothingCame ==
  ASSUME NEW e \in EndDevice,
         \A n \in Device : Inbox(n)' \subseteq Inbox(n),
         \A c \in Coordinator : \A f \in Frames(txq'[c]) :
            f \in Frames(txq[c]) \/ f.type # "CONNECTION_RESPONSE" \/ f.dst # e
  PROVE  NothingComes(e)
<1>1. e \in Device /\ Coordinator \subseteq Device
  BY StarAssumption DEF EndDevice
<1>2. Request(e)' = Request(e) /\ \A f : ReplyTo(e, f)' <=> ReplyTo(e, f)
  BY DEF Request, ReplyTo
<1>3. Asked(e)' => Asked(e)
  BY <1>1, <1>2 DEF Asked
<1>4. Replies(e)' \subseteq Replies(e)
  <2> SUFFICES ASSUME NEW f \in Replies(e)'  PROVE f \in Replies(e)
    OBVIOUS
  <2>1. /\ f.type = "CONNECTION_RESPONSE" /\ f.dst = e
        /\ f \in Inbox(e)' \/ \E c \in Coordinator : f \in Frames(txq'[c])
    BY DEF Replies, ReplyTo, Frames
  <2>2. f \in Inbox(e) \/ \E c \in Coordinator : f \in Frames(txq[c])
    BY <1>1, <2>1
  <2> QED BY <2>1, <2>2 DEF Replies, ReplyTo
<1> QED BY <1>1, <1>3, <1>4 DEF NothingComes

(* What the radio does with rx when nothing is sent: banks only empty.     *)
Drained == UNCHANGED rx \/ \E n \in Device : \E type : Receive(n, type)

LEMMA DrainedKeeps ==
  ASSUME Formed, Drained
  PROVE  \A n \in Device : Inbox(n)' \subseteq Inbox(n)
<1>1. CASE UNCHANGED rx
  BY <1>1 DEF Inbox
<1>2. CASE \E n \in Device : \E type : Receive(n, type)
  BY <1>2, ReceiveKeeps DEF Formed
<1> QED BY <1>1, <1>2 DEF Drained

LEMMA PlainQueueKeeps ==
  ASSUME Formed, PlainQueue, NEW k \in Device
  PROVE  \A f : f \in Frames(txq'[k]) <=>
                  \/ f \in Frames(txq[k])
                  \/ /\ f \in Frames(txq'[k])
                     /\ f.type \notin {"CONNECTION_REQUEST", "CONNECTION_RESPONSE"}
<1>1. CASE UNCHANGED txq
  BY <1>1
<1>2. ASSUME NEW n \in Device, NEW g \in Frame, NEW m \in BOOLEAN,
             g.src = n, Queue(n, g, m),
             g.type \notin {"CONNECTION_REQUEST", "CONNECTION_RESPONSE"}
      PROVE  \A f : f \in Frames(txq'[k]) <=>
                  \/ f \in Frames(txq[k])
                  \/ /\ f \in Frames(txq'[k])
                     /\ f.type \notin {"CONNECTION_REQUEST", "CONNECTION_RESPONSE"}
  <2>1. /\ \A d \in Device : d # n => txq'[d] = txq[d]
        /\ txq'[n] = IF m THEN Append(txq[n], g) ELSE txq[n]
    BY <1>2, QueueKeeps DEF Formed
  <2>2. txq[n] \in Seq(Frame)
    BY DEF Formed, RadioFormed, RadioTypeOK
  <2>3. Frames(Append(txq[n], g)) = Frames(txq[n]) \union {g}
    BY <2>2, FramesAppend
  <2>4. CASE k # n
    BY <2>1, <2>4
  <2>5. CASE k = n /\ ~ m
    BY <2>1, <2>5
  <2>6. CASE k = n /\ m
    <3>1. Frames(txq'[k]) = Frames(txq[k]) \union {g}
      BY <2>1, <2>3, <2>6
    <3> QED BY <3>1, <1>2
  <2> QED BY <2>4, <2>5, <2>6
<1> QED BY <1>1, <1>2 DEF PlainQueue

LEMMA PlainUntouched ==
  ASSUME Formed, PlainQueue, OtherSent, Drained, UNCHANGED <<est, connTimer, tries, granted>>
  PROVE  \A e \in EndDevice : Untouched(e)
<1> SUFFICES ASSUME NEW e \in EndDevice  PROVE Untouched(e)
  OBVIOUS
<1>1. e \in Device /\ Coordinator \subseteq Device
  BY StarAssumption DEF EndDevice
<1>2. \A c \in Coordinator : \A f \in Frames(txq'[c]) :
            f \in Frames(txq[c]) \/ f.type # "CONNECTION_RESPONSE" \/ f.dst # e
  BY <1>1, PlainQueueKeeps
<1>3. NothingComes(e)
  BY <1>2, DrainedKeeps, NothingCame
<1>4. Request(e).type = "CONNECTION_REQUEST" /\ Request(e)' = Request(e)
  BY FramesBuilt DEF Request
<1>5. Queued(e)' <=> Queued(e)
  <2>1. Request(e) \in Frames(txq'[e]) <=> Request(e) \in Frames(txq[e])
    BY <1>1, <1>4, PlainQueueKeeps
  <2>2. Queued(e)' <=> Request(e) \in Frames(txq'[e])
    BY <1>4 DEF Queued, Frames
  <2> QED BY <2>1, <2>2 DEF Queued
<1>6. sending'[e] = sending[e] \/ (~ Sending(e) /\ ~ Sending(e)')
  <2>1. CASE UNCHANGED sending
    BY <2>1
  <2>2. ASSUME NEW n \in Device, sending[n].frame.type # "CONNECTION_REQUEST", Sent(n)
        PROVE  sending'[e] = sending[e] \/ (~ Sending(e) /\ ~ Sending(e)')
    <3>1. sending' = [sending EXCEPT ![n] = Idle] /\ sending[e] = sending[e]
      BY <2>2 DEF Sent
    <3>2. CASE n # e
      BY <3>1, <3>2, <1>1 DEF Formed, RadioFormed, RadioTypeOK
    <3>3. CASE n = e
      <4>1. sending'[e] = Idle
        BY <3>1, <3>3, <1>1 DEF Formed, RadioFormed, RadioTypeOK
      <4>2. ~ Sending(e)'
        BY <4>1 DEF Sending, Idle, NoFrame, Request
      <4> QED BY <2>2, <3>3, <4>2, <1>4 DEF Sending
    <3> QED BY <3>2, <3>3
  <2> QED BY <2>1, <2>2 DEF OtherSent
<1> QED BY <1>3, <1>5, <1>6 DEF Untouched

LEMMA UntouchedInTime ==
  ASSUME AnswersInTime, \A e \in EndDevice : Untouched(e)
  PROVE  AnswersInTime'
BY UntouchedKeeps DEF AnswersInTime

LEMMA OneTouched ==
  ASSUME AnswersInTime, NEW e \in EndDevice, InTime(e)',
         \A d \in EndDevice : d # e => Untouched(d)
  PROVE  AnswersInTime'
BY UntouchedKeeps DEF AnswersInTime

(* Sending brings no new answer: it moves one from a queue to an inbox.    *)
LEMMA SentReplies ==
  ASSUME Formed, NEW n \in Device, NEW R \in SUBSET Reach(n),
         NEW s \in {"SUCCESS", "FAILURE"}, Send(n, R, s), NEW e \in EndDevice
  PROVE  Replies(e)' \subseteq Replies(e)
<1> DEFINE h == Head(txq[n])
<1>1. /\ h \in Frame
      /\ Frames(txq[n]) = Frames(txq'[n]) \union {h}
      /\ \A k \in Device : k # n => txq'[k] = txq[k]
      /\ \A m \in Device : Inbox(m)' \subseteq Inbox(m) \union {h}
  <2>1. SendEffect(n, R, s)
    BY SendKeeps DEF Formed
  <2> QED BY <2>1 DEF SendEffect
<1>2. h.src = n
  BY <1>1 DEF Formed, RadioFormed, Routed
<1> HIDE DEF h
<1>3. e \in Device /\ Coordinator \subseteq Device
  BY StarAssumption DEF EndDevice
<1> SUFFICES ASSUME NEW f \in Replies(e)'  PROVE f \in Replies(e)
  OBVIOUS
<1>4. /\ f.type = "CONNECTION_RESPONSE" /\ f.dst = e
      /\ f \in Inbox(e)' \/ \E c \in Coordinator : f \in Frames(txq'[c])
  BY DEF Replies, ReplyTo, Frames
<1>5. f \in Inbox(e) \/ f = h \/ \E c \in Coordinator : f \in Frames(txq[c])
  BY <1>1, <1>3, <1>4
<1>6. CASE f = h
  <2>1. n \in Coordinator
    BY <1>1, <1>2, <1>4, <1>6, FrameShape
  <2>2. f \in Frames(txq[n])
    BY <1>1, <1>6
  <2> QED BY <1>4, <2>1, <2>2 DEF Replies, ReplyTo
<1> QED BY <1>4, <1>5, <1>6 DEF Replies, ReplyTo

LEMMA TransmissionInTime ==
  ASSUME Formed, Carried, AnswersInTime, NEW n \in Device, Transmission(n)
  PROVE  AnswersInTime'
<1>1. PICK R \in SUBSET Reach(n), s \in {"SUCCESS", "FAILURE"} : Send(n, R, s)
  BY DEF Transmission, Transmit
<1>2. UNCHANGED <<connTimer, est, tries, granted>>
  BY DEF Transmission, device
<1> DEFINE h == Head(txq[n])
<1>3. /\ h \in Frame
      /\ Frames(txq[n]) = Frames(txq'[n]) \union {h}
      /\ \A g : Once(g, txq[n]) => (h = g => g \notin Frames(txq'[n]))
      /\ \A k \in Device : k # n => txq'[k] = txq[k] /\ sending'[k] = sending[k]
      /\ sending'[n] = [frame |-> h, status |-> s]
      /\ \A m \in Device : m \in R => Inbox(m)' \subseteq Inbox(m) \union {h}
      /\ \A m \in Device : m \notin R => Inbox(m)' \subseteq Inbox(m)
  <2>1. SendEffect(n, R, s)
    BY <1>1, SendKeeps DEF Formed
  <2> QED BY <2>1 DEF SendEffect
<1>4. /\ sending[n] = Idle
      /\ s = "FAILURE" /\ h.dst = Broadcast => R = {}
      /\ \A m \in R : m # n /\ sending[m] = Idle /\ Addressed(m, h)
  BY <1>1 DEF Send, Reach, Listening
<1>5. h.src = n
  BY <1>3 DEF Formed, RadioFormed, Routed
<1> HIDE DEF h
<1>6. \A m \in Device : \A f \in Inbox(m)' : f \in Inbox(m) \/ (f = h /\ m \in R)
  BY <1>3
<1>7. ASSUME NEW e \in EndDevice
      PROVE  InTime(e)'
  <2>1. InTime(e) /\ CarriedOnce(e) /\ e \in Device /\ Coordinator \subseteq Device
    BY StarAssumption DEF AnswersInTime, Carried, EndDevice
  <2> DEFINE q == Request(e)
  <2>2. q' = q /\ q.type = "CONNECTION_REQUEST" /\ q.src = e /\ q.dst = Broadcast
    BY DEF Request
  <2> HIDE DEF q
  <2>3. Replies(e)' \subseteq Replies(e)
    BY <1>1, SentReplies
  <2>4. \/ Asked(e)' => Asked(e)
        \/ h = q /\ R # {}
    BY <1>6, <2>1, <2>2 DEF Asked, q
  <2>5. Inbox(e)' \subseteq Inbox(e) \/ e \in R
    BY <1>3, <2>1
  <2>6. /\ Queued(e)' <=> q \in Frames(txq'[e])
        /\ Queued(e) <=> q \in Frames(txq[e])
        /\ Sending(e)' <=> sending'[e].frame = q
        /\ Sending(e) <=> sending[e].frame = q
        /\ Answered(e)' <=> Answered(e)
    BY <1>2 DEF Queued, Sending, Request, Answered, q, Frames
  <2>7. CASE e # n
    <3>1. q # h
      BY <1>5, <2>2, <2>7
    <3>2. Asked(e)' => Asked(e)
      BY <2>4, <3>1
    <3>3. (Queued(e)' <=> Queued(e)) /\ sending'[e] = sending[e]
      BY <1>3, <2>1, <2>6, <2>7
    <3>4. CASE e \notin R
      <4>1. Untouched(e)
        BY <1>2, <2>3, <2>5, <3>2, <3>3, <3>4 DEF Untouched, NothingComes
      <4> QED BY <2>1, <4>1, UntouchedKeeps
    <3>5. CASE e \in R
      <4>1. sending[e] = Idle
        BY <1>4, <3>5
      <4>2. ~ Sending(e) /\ ~ Sending(e)' /\ sending[e].status # "SUCCESS"
        BY <2>2, <2>6, <3>3, <4>1 DEF Idle, NoFrame
      <4>3. QuietOtherwise(e)'
        BY <1>2, <2>1, <2>3, <3>2, <3>3, <4>2 DEF InTime, QuietOtherwise
      <4>4. RetriesAddUp(e)'
        BY <1>2, <2>1, <2>6, <3>3, <4>2 DEF InTime, RetriesAddUp
      <4>5. Granted(e)'
        BY <1>2, <2>1, <2>3, <2>6 DEF InTime, Granted
      <4> QED BY <4>3, <4>4, <4>5 DEF InTime
    <3> QED BY <3>4, <3>5
  <2>8. CASE e = n
    <3>1. e \notin R /\ ~ Sending(e) /\ sending[e].status # "SUCCESS"
      BY <1>4, <2>2, <2>6, <2>8 DEF Idle, NoFrame
    <3>2. Inbox(e)' \subseteq Inbox(e)
      BY <2>5, <3>1
    <3>3. CASE h # q
      <4>1. ~ Sending(e)'
        BY <1>3, <2>6, <2>8, <3>3
      <4>2. Queued(e)' <=> Queued(e)
        BY <1>3, <2>6, <2>8, <3>3
      <4>3. Untouched(e)
        BY <1>2, <2>3, <2>4, <3>1, <3>2, <3>3, <4>1, <4>2 DEF Untouched, NothingComes
      <4> QED BY <2>1, <4>3, UntouchedKeeps
    <3>4. CASE h = q
      <4>1. Queued(e) /\ ~ Queued(e)' /\ Sending(e)' /\ ~ connTimer[e]
        BY <1>3, <2>1, <2>6, <2>8, <3>4 DEF CarriedOnce, q
      <4>2. ~ Asked(e) /\ Replies(e) = {}
        BY <2>1, <3>1, <4>1 DEF InTime, QuietOtherwise
      <4>3. \A f \in Inbox(e)' : f.type # "CONNECTION_RESPONSE"
        BY <3>2, <4>2, HeardIsReply
      <4>4. ASSUME s = "SUCCESS"
            PROVE  QuietOtherwise(e)'
        <5>1. sending'[e] = [frame |-> q, status |-> "SUCCESS"]
          BY <1>3, <2>8, <3>4, <4>4
        <5>2. (sending[e] = [frame |-> Request(e), status |-> "SUCCESS"])'
          BY <2>2, <5>1 DEF q
        <5> QED BY <4>3, <5>2 DEF QuietOtherwise
      <4>5. ASSUME s = "FAILURE"
            PROVE  QuietOtherwise(e)'
        <5>1. R = {}
          BY <1>4, <2>2, <3>4, <4>5
        <5>2. ~ Asked(e)' /\ Replies(e)' = {}
          BY <2>3, <2>4, <4>2, <5>1
        <5> QED BY <4>3, <5>2 DEF QuietOtherwise
      <4>6. QuietOtherwise(e)'
        BY <4>4, <4>5
      <4>7. RetriesAddUp(e)'
        BY <1>2, <2>1, <2>6, <4>1 DEF InTime, RetriesAddUp
      <4>8. Granted(e)'
        BY <1>2, <2>1, <2>3, <2>6 DEF InTime, Granted
      <4> QED BY <4>6, <4>7, <4>8 DEF InTime
    <3> QED BY <3>3, <3>4
  <2> QED BY <2>7, <2>8
<1> QED BY <1>7 DEF AnswersInTime

(* A step of one end device.                                               *)
LEMMA OthersUntouched ==
  ASSUME NEW e \in EndDevice,
         \A n \in Device : Inbox(n)' \subseteq Inbox(n),
         \A n \in Device : n # e => txq'[n] = txq[n] /\ sending'[n] = sending[n],
         \A d \in EndDevice : d # e => /\ connTimer'[d] = connTimer[d]
                                       /\ est'[d] = est[d] /\ tries'[d] = tries[d],
         granted \ {e} \subseteq granted'
  PROVE  NothingComes(e) /\ \A d \in EndDevice : d # e => Untouched(d)
<1>1. Coordinator \subseteq Device
  BY StarAssumption
<1>2. \A c \in Coordinator : Frames(txq'[c]) = Frames(txq[c])
  BY <1>1 DEF EndDevice
<1>3. \A d \in EndDevice : NothingComes(d)
  BY <1>2, NothingCame
<1>4. ASSUME NEW d \in EndDevice, d # e
      PROVE  Untouched(d)
  <2>1. txq'[d] = txq[d] /\ sending'[d] = sending[d]
    BY <1>4 DEF EndDevice
  <2>2. Queued(d)' <=> Queued(d)
    BY <2>1 DEF Queued, Request, Frames
  <2> QED BY <1>3, <1>4, <2>1, <2>2 DEF Untouched
<1> QED BY <1>3, <1>4

LEMMA SendRequestInTime ==
  ASSUME Formed, NEW e \in EndDevice, NEW r \in 0 .. RetryModulus - 1,
         SendConnectionRequest(e, r, FALSE, TRUE),
         ~ Queued(e), ~ Sending(e)', connTimer'[e] = FALSE,
         ~ Asked(e)', Replies(e)' = {},
         tries[e] <= RetryTimes,
         r > 0 => ~ Answered(e) /\ tries[e] + r = RetryTimes
  PROVE  InTime(e)'
<1>1. /\ est[e] \in EstType /\ tries[e] \in Nat /\ RetryTimes \in Nat
  BY StarAssumption DEF Formed, DevicesTyped
<1>2. QuietOtherwise(e)'
  BY DEF QuietOtherwise
<1>3. CASE /\ MayRetry(e, r) /\ est'[e] = [est[e] EXCEPT !.retries = r]
           /\ tries'[e] = tries[e] + 1
  <2>1. r > 0 /\ ~ Answered(e) /\ tries[e] + r = RetryTimes
    BY <1>3 DEF MayRetry
  <2>2. est'[e].retries = r /\ est'[e].status = est[e].status
    BY <1>1, <1>3 DEF EstType
  <2>3. ~ Answered(e)'
    BY <2>1, <2>2 DEF Answered
  <2>4. tries'[e] <= RetryTimes /\ tries'[e] + est'[e].retries = RetryTimes + 1
    BY <1>1, <1>3, <2>1, <2>2
  <2>5. RetriesAddUp(e)'
    BY <2>1, <2>2, <2>3, <2>4 DEF RetriesAddUp
  <2>6. Granted(e)'
    BY <2>3 DEF Granted
  <2> QED BY <1>2, <2>5, <2>6 DEF InTime
<1>4. CASE /\ est'[e] = [est[e] EXCEPT !.retries = r, !.callback = FALSE]
           /\ txq'[e] = txq[e] /\ tries'[e] = tries[e]
  <2>1. est'[e].callback = FALSE
    BY <1>1, <1>4 DEF EstType
  <2>2. ~ Queued(e)'
    BY <1>4 DEF Queued, Request, Frames
  <2>3. RetriesAddUp(e)'
    BY <1>4, <2>2 DEF RetriesAddUp
  <2>4. Granted(e)'
    BY <2>1 DEF Granted
  <2> QED BY <1>2, <2>3, <2>4 DEF InTime
<1> QED BY <1>3, <1>4, SendRequestOthers

LEMMA RequestSentInTime ==
  ASSUME Formed, Carried, AnswersInTime, NEW e \in EndDevice, RequestSent(e)
  PROVE  AnswersInTime'
<1> USE DEF Formed, DevicesTyped, RadioFormed, RadioTypeOK
<1>1. /\ Sending(e) /\ sending' = [sending EXCEPT ![e] = Idle]
      /\ est' = [est EXCEPT ![e].retries = Dec(est[e].retries)]
      /\ connTimer' = [connTimer EXCEPT ![e] = TRUE]
      /\ UNCHANGED <<txq, rx, tries, granted>>
  BY DEF RequestSent, Sending, Sent
<1>2. e \in Device /\ InTime(e) /\ CarriedOnce(e) /\ est[e] \in EstType
  BY DEF EndDevice, AnswersInTime, Carried
<1>3. ~ Sending(e)' /\ connTimer'[e] = TRUE /\ ~ Queued(e)'
  <2>1. ~ Sending(e)' /\ connTimer'[e] = TRUE
    BY <1>1, <1>2 DEF Sending, Idle, NoFrame, Request
  <2>2. ~ Queued(e)
    BY <1>1, <1>2 DEF CarriedOnce
  <2> QED BY <1>1, <2>1, <2>2 DEF Queued, Request
<1>4. /\ NothingComes(e)
      /\ \A d \in EndDevice : d # e => Untouched(d)
  <2>1. /\ \A n \in Device : n # e => txq'[n] = txq[n] /\ sending'[n] = sending[n]
        /\ \A d \in EndDevice : d # e => /\ connTimer'[d] = connTimer[d]
                                         /\ est'[d] = est[d] /\ tries'[d] = tries[d]
        /\ granted \ {e} \subseteq granted'
    BY <1>1
  <2>2. \A n \in Device : Inbox(n)' \subseteq Inbox(n)
    BY <1>1 DEF Inbox
  <2> QED BY <2>1, <2>2, OthersUntouched
<1>5. /\ est[e].retries > 0 /\ ~ Answered(e)
      /\ tries[e] + est[e].retries = RetryTimes + 1 /\ tries[e] <= RetryTimes
  BY <1>1, <1>2 DEF InTime, RetriesAddUp
<1>6. /\ est'[e].retries = est[e].retries - 1
      /\ est'[e].status = est[e].status
  <2>1. est[e].retries \in 0 .. RetryModulus - 1
    BY <1>2 DEF EstType
  <2>2. Dec(est[e].retries) = est[e].retries - 1
    BY <1>5, <2>1, DecTyped
  <2> QED BY <1>1, <1>2, <2>2 DEF EstType
<1>7. ~ Answered(e)'
  BY <1>5, <1>6 DEF Answered
<1>8. tries'[e] <= RetryTimes /\ tries'[e] + est'[e].retries = RetryTimes
  <2>1. est[e].retries \in Nat /\ tries[e] \in Nat /\ RetryTimes \in Nat
    BY <1>2, StarAssumption DEF EstType
  <2>2. tries'[e] = tries[e]
    BY <1>1
  <2> HIDE DEF Formed, DevicesTyped, RadioFormed, RadioTypeOK
  <2>3. tries[e] + (est[e].retries - 1) = RetryTimes
    BY <1>5, <2>1
  <2> QED BY <1>5, <1>6, <2>2, <2>3
<1>9. QuietOtherwise(e)'
  BY <1>3 DEF QuietOtherwise
<1>10. RetriesAddUp(e)'
  BY <1>3, <1>7, <1>8 DEF RetriesAddUp
<1>11. Granted(e)'
  BY <1>1, <1>2, <1>4, <1>7 DEF InTime, Granted, NothingComes
<1>12. InTime(e)'
  BY <1>9, <1>10, <1>11 DEF InTime
<1> QED BY <1>4, <1>12, OneTouched

LEMMA RequestFailedInTime ==
  ASSUME Formed, Carried, AnswersInTime, NEW e \in EndDevice, RequestFailed(e, FALSE, TRUE)
  PROVE  AnswersInTime'
<1> USE DEF Formed, DevicesTyped, RadioFormed, RadioTypeOK
<1> DEFINE r == Dec(est[e].retries)
<1>1. /\ Sending(e) /\ sending[e].status = "FAILURE"
      /\ sending' = [sending EXCEPT ![e] = Idle]
      /\ SendConnectionRequest(e, r, FALSE, TRUE)
      /\ UNCHANGED <<connTimer, rx>>
  BY DEF RequestFailed, Sending, Sent
<1>2. e \in Device /\ InTime(e) /\ CarriedOnce(e) /\ est[e] \in EstType
  BY DEF EndDevice, AnswersInTime, Carried
<1>3. ~ Sending(e)' /\ connTimer'[e] = FALSE /\ ~ Queued(e) /\ ~ connTimer[e]
  <2>1. ~ Sending(e)'
    BY <1>1, <1>2 DEF Sending, Idle, NoFrame, Request
  <2>2. ~ Queued(e) /\ ~ connTimer[e]
    BY <1>1, <1>2 DEF CarriedOnce
  <2> QED BY <1>1, <2>1, <2>2
<1>4. /\ NothingComes(e)
      /\ \A d \in EndDevice : d # e => Untouched(d)
  <2>1. /\ \A n \in Device : n # e => txq'[n] = txq[n] /\ sending'[n] = sending[n]
        /\ \A d \in EndDevice : d # e => /\ connTimer'[d] = connTimer[d]
                                         /\ est'[d] = est[d] /\ tries'[d] = tries[d]
        /\ granted \ {e} \subseteq granted'
    BY <1>1, SendRequestOthers
  <2>2. \A n \in Device : Inbox(n)' \subseteq Inbox(n)
    BY <1>1 DEF Inbox
  <2> QED BY <2>1, <2>2, OthersUntouched
<1>5. /\ est[e].retries > 0 /\ ~ Answered(e)
      /\ tries[e] + est[e].retries = RetryTimes + 1 /\ tries[e] <= RetryTimes
  BY <1>1, <1>2 DEF InTime, RetriesAddUp
<1>6. r \in 0 .. RetryModulus - 1 /\ r = est[e].retries - 1
  BY <1>2, <1>5, DecTyped DEF EstType
<1>7. tries[e] + r = RetryTimes
  <2>1. est[e].retries \in Nat /\ tries[e] \in Nat /\ RetryTimes \in Nat
    BY <1>2, StarAssumption DEF EstType
  <2> QED BY <1>5, <1>6, <2>1
<1>8. ~ Asked(e)' /\ Replies(e)' = {}
  <2>1. sending[e] # [frame |-> Request(e), status |-> "SUCCESS"]
    BY <1>1
  <2> QED BY <1>2, <1>3, <1>4, <2>1 DEF InTime, QuietOtherwise, NothingComes
<1> HIDE DEF r
<1>9. InTime(e)'
  BY <1>1, <1>3, <1>5, <1>6, <1>7, <1>8, SendRequestInTime
<1> QED BY <1>4, <1>9, OneTouched

LEMMA ConnectionIntervalInTime ==
  ASSUME Timely, Formed, Carried, AnswersInTime, NEW e \in EndDevice,
         ConnectionInterval(e, FALSE, TRUE)
  PROVE  AnswersInTime'
<1> USE DEF Formed, DevicesTyped, RadioFormed, RadioTypeOK
<1> DEFINE r == est[e].retries
<1>1. /\ connTimer[e] /\ ~ AnswerPending(e)
      /\ connTimer' = [connTimer EXCEPT ![e] = FALSE]
      /\ SendConnectionRequest(e, r, FALSE, TRUE)
      /\ UNCHANGED <<sending, rx>>
  BY DEF ConnectionInterval
<1>2. e \in Device /\ InTime(e) /\ CarriedOnce(e) /\ est[e] \in EstType
  BY DEF EndDevice, AnswersInTime, Carried
<1>3. ~ Sending(e)' /\ connTimer'[e] = FALSE /\ ~ Queued(e)
  <2>1. ~ Queued(e) /\ ~ Sending(e)
    BY <1>1, <1>2 DEF CarriedOnce
  <2> QED BY <1>1, <2>1 DEF Sending, Request
<1>4. /\ NothingComes(e)
      /\ \A d \in EndDevice : d # e => Untouched(d)
  <2>1. /\ \A n \in Device : n # e => txq'[n] = txq[n] /\ sending'[n] = sending[n]
        /\ \A d \in EndDevice : d # e => /\ connTimer'[d] = connTimer[d]
                                         /\ est'[d] = est[d] /\ tries'[d] = tries[d]
        /\ granted \ {e} \subseteq granted'
    BY <1>1, SendRequestOthers
  <2>2. \A n \in Device : Inbox(n)' \subseteq Inbox(n)
    BY <1>1 DEF Inbox
  <2> QED BY <2>1, <2>2, OthersUntouched
<1>5. /\ tries[e] <= RetryTimes
      /\ r > 0 => ~ Answered(e) /\ tries[e] + r = RetryTimes
  BY <1>1, <1>2 DEF InTime, RetriesAddUp
<1>6. r \in 0 .. RetryModulus - 1
  BY <1>2 DEF EstType
<1>7. ~ Asked(e)' /\ Replies(e)' = {}
  BY <1>1, <1>4, NotPending DEF NothingComes
<1> HIDE DEF r
<1>8. InTime(e)'
  BY <1>1, <1>3, <1>5, <1>6, <1>7, SendRequestInTime
<1> QED BY <1>4, <1>8, OneTouched

LEMMA EstablishInTime ==
  ASSUME Formed, Carried, AnswersInTime, NEW e \in EndDevice, EstablishConnection(e)
  PROVE  AnswersInTime'
<1> USE DEF Formed, DevicesTyped, RadioFormed, RadioTypeOK
<1>1. /\ ~ est[e].callback
      /\ est' = [est EXCEPT ![e] = Procedure(e, state[e])]
      /\ txq' = [txq EXCEPT ![e] = Append(txq[e], Request(e))]
      /\ tries' = [tries EXCEPT ![e] = 1]
      /\ granted' = granted \ {e}
      /\ UNCHANGED <<connTimer, sending, rx>>
  BY DEF EstablishConnection, Queue
<1>2. e \in Device /\ InTime(e) /\ CarriedOnce(e)
  BY DEF EndDevice, AnswersInTime, Carried
<1>3. ~ Sending(e) /\ ~ connTimer[e] /\ ~ Asked(e) /\ Replies(e) = {}
  <2>1. ~ Sending(e) /\ ~ connTimer[e]
    BY <1>1, <1>2 DEF CarriedOnce
  <2> QED BY <1>2, <2>1 DEF InTime, QuietOtherwise, Sending
<1>4. /\ NothingComes(e)
      /\ \A d \in EndDevice : d # e => Untouched(d)
  <2>1. /\ \A n \in Device : n # e => txq'[n] = txq[n] /\ sending'[n] = sending[n]
        /\ \A d \in EndDevice : d # e => /\ connTimer'[d] = connTimer[d]
                                         /\ est'[d] = est[d] /\ tries'[d] = tries[d]
        /\ granted \ {e} \subseteq granted'
    BY <1>1
  <2>2. \A n \in Device : Inbox(n)' \subseteq Inbox(n)
    BY <1>1 DEF Inbox
  <2> QED BY <2>1, <2>2, OthersUntouched
<1>5. ~ Asked(e)' /\ Replies(e)' = {}
  BY <1>3, <1>4 DEF NothingComes
<1>6. /\ est'[e].retries = RetryTimes /\ est'[e].status = "SCAN_NO_BEACON"
      /\ tries'[e] = 1
  BY <1>1 DEF Procedure
<1>7. ~ Answered(e)'
  BY <1>6 DEF Answered
<1>8. ~ Sending(e)' /\ connTimer'[e] = connTimer[e]
  BY <1>1, <1>3 DEF Sending, Request
<1>9. QuietOtherwise(e)'
  BY <1>5, <1>8 DEF QuietOtherwise
<1>10. RetriesAddUp(e)'
  <2>1. RetryTimes > 0 /\ 1 <= RetryTimes /\ 1 + RetryTimes = RetryTimes + 1
    BY StarAssumption
  <2> QED BY <1>3, <1>6, <1>7, <1>8, <2>1 DEF RetriesAddUp
<1>11. Granted(e)'
  BY <1>5, <1>7 DEF Granted
<1>12. InTime(e)'
  BY <1>9, <1>10, <1>11 DEF InTime
<1> QED BY <1>4, <1>12, OneTouched

LEMMA PowerCycleInTime ==
  ASSUME Timely, Formed, Carried, AnswersInTime, NEW n \in Device, PowerCycle(n)
  PROVE  AnswersInTime'
<1> USE DEF Formed, DevicesTyped, RadioFormed, RadioTypeOK
<1>1. /\ txq' = [txq EXCEPT ![n] = <<>>]
      /\ sending' = [sending EXCEPT ![n] = Idle]
      /\ rx' = [rx EXCEPT ![n] = [b \in Bank |-> NoFrame]]
  BY DEF PowerCycle, RadioOff
<1>2. \/ n \in Coordinator /\ UNCHANGED <<est, connTimer, tries, granted>>
      \/ /\ n \in EndDevice
         /\ est' = [est EXCEPT ![n] = NoProcedure]
         /\ connTimer' = [connTimer EXCEPT ![n] = FALSE]
         /\ tries' = [tries EXCEPT ![n] = 0]
         /\ granted' = granted \ {n}
  BY DEF PowerCycle, device, EndDevice
<1>3. /\ txq'[n] = <<>> /\ Frames(txq'[n]) = {}
      /\ sending'[n] = Idle /\ Inbox(n)' = {}
      /\ \A k \in Device : k # n => /\ txq'[k] = txq[k] /\ sending'[k] = sending[k]
                                    /\ rx'[k] = rx[k]
  <2>1. /\ txq'[n] = <<>> /\ sending'[n] = Idle /\ rx'[n] = [b \in Bank |-> NoFrame]
        /\ \A k \in Device : k # n => /\ txq'[k] = txq[k] /\ sending'[k] = sending[k]
                                      /\ rx'[k] = rx[k]
    BY <1>1
  <2>2. Inbox(n)' = {}
    BY <2>1 DEF Inbox
  <2> QED BY <2>1, <2>2, FramesEmpty
<1>4. \A k \in Device : Inbox(k)' \subseteq Inbox(k)
  <2> SUFFICES ASSUME NEW k \in Device  PROVE Inbox(k)' \subseteq Inbox(k)
    OBVIOUS
  <2>1. CASE k = n
    BY <1>3, <2>1
  <2>2. CASE k # n
    BY <1>3, <2>2 DEF Inbox
  <2> QED BY <2>1, <2>2
<1>5. \A c \in Coordinator : \A f \in Frames(txq'[c]) : f \in Frames(txq[c])
  BY <1>3, StarAssumption
<1>6. \A e \in EndDevice : NothingComes(e)
  BY <1>4, <1>5, NothingCame
<1>7. ASSUME NEW e \in EndDevice, e # n
      PROVE  Untouched(e)
  <2>1. txq'[e] = txq[e] /\ sending'[e] = sending[e]
    BY <1>3, <1>7 DEF EndDevice
  <2>2. Queued(e)' <=> Queued(e)
    BY <2>1 DEF Queued, Request, Frames
  <2>3. connTimer'[e] = connTimer[e] /\ est'[e] = est[e] /\ tries'[e] = tries[e]
    BY <1>2, <1>7
  <2>4. e \in granted => e \in granted'
    BY <1>2, <1>7
  <2> QED BY <1>6, <2>1, <2>2, <2>3, <2>4 DEF Untouched
<1>8. CASE n \in Coordinator
  <2>1. \A e \in EndDevice : Untouched(e)
    BY <1>7, <1>8 DEF EndDevice
  <2> QED BY <2>1, UntouchedInTime
<1>9. CASE n \in EndDevice
  <2>1. ~ AnswerPending(n)
    BY <1>9 DEF PowerCycle
  <2>2. ~ Asked(n)' /\ Replies(n)' = {}
    BY <1>6, <1>9, <2>1, NotPending DEF NothingComes
  <2>3. connTimer'[n] = FALSE /\ est'[n] = NoProcedure /\ tries'[n] = 0
    BY <1>2, <1>9 DEF EndDevice
  <2>4. ~ Queued(n)' /\ ~ Sending(n)'
    BY <1>3 DEF Queued, Sending, Idle, NoFrame, Request, Frames
  <2>5. QuietOtherwise(n)'
    BY <2>2, <2>4 DEF QuietOtherwise
  <2>6. RetriesAddUp(n)'
    BY <2>3, <2>4, StarAssumption DEF RetriesAddUp
  <2>7. Granted(n)'
    BY <2>2, <2>3 DEF Granted, NoProcedure
  <2>8. InTime(n)'
    BY <2>5, <2>6, <2>7 DEF InTime
  <2> QED BY <1>7, <1>9, <2>8, OneTouched
<1> QED BY <1>8, <1>9 DEF EndDevice

LEMMA ReceiveResponseInTime ==
  ASSUME Formed, Carried, AnswersInTime, NEW e \in EndDevice, ReceiveResponse(e)
  PROVE  AnswersInTime'
<1> DEFINE f == Received(e)
<1>1. /\ Receive(e, "CONNECTION_RESPONSE")
      /\ \/ UNCHANGED est
         \/ /\ f.status \in {"STATUS_SUCCESS", "STATUS_EXISTS"}
            /\ \E st \in {"SUCCESS", "ALREADY_EXISTS"} :
                 est' = [est EXCEPT ![e].retries = 0, ![e].status = st]
      /\ UNCHANGED <<connTimer, tries, txq, sending, granted>>
  BY DEF ReceiveResponse, Accepts
<1>2. e \in Device /\ InTime(e) /\ CarriedOnce(e) /\ est[e] \in EstType
  BY DEF EndDevice, AnswersInTime, Carried, Formed, DevicesTyped
<1>3. f \in Inbox(e) /\ f.type = "CONNECTION_RESPONSE"
  BY <1>1, <1>2, ReceiveKeeps DEF Formed
<1>4. f \in Replies(e)
  BY <1>3, HeardIsReply
<1>5. ~ Sending(e) /\ connTimer[e] /\ ~ Queued(e)
  <2>1. ~ Sending(e)
    BY <1>2, <1>3 DEF InTime, QuietOtherwise
  <2>2. connTimer[e]
    BY <1>2, <1>4, <2>1 DEF InTime, QuietOtherwise, Sending
  <2> QED BY <1>2, <2>1, <2>2 DEF CarriedOnce
<1>6. NothingComes(e) /\ \A d \in EndDevice : d # e => Untouched(d)
  <2>1. Drained
    BY <1>1, <1>2 DEF Drained
  <2>2. \A n \in Device : Inbox(n)' \subseteq Inbox(n)
    BY <2>1, DrainedKeeps
  <2>3. \A d \in EndDevice : d # e => est'[d] = est[d]
    BY <1>1 DEF Formed, DevicesTyped
  <2> QED BY <1>1, <2>2, <2>3, OthersUntouched
<1>7. CASE UNCHANGED est
  <2>1. Queued(e)' <=> Queued(e)
    BY <1>1 DEF Queued, Request
  <2>2. Untouched(e)
    BY <1>1, <1>6, <1>7, <2>1 DEF Untouched
  <2>3. InTime(e)'
    BY <1>2, <2>2, UntouchedKeeps
  <2> QED BY <1>6, <2>3, OneTouched
<1>8. ASSUME f.status \in {"STATUS_SUCCESS", "STATUS_EXISTS"},
             NEW st \in {"SUCCESS", "ALREADY_EXISTS"},
             est' = [est EXCEPT ![e].retries = 0, ![e].status = st]
      PROVE  AnswersInTime'
  <2>1. e \in granted
    BY <1>2, <1>4, <1>8 DEF InTime, Granted
  <2>2. est'[e].retries = 0
    BY <1>2, <1>8 DEF EstType, Formed, DevicesTyped
  <2>3. ~ Queued(e)' /\ ~ Sending(e)' /\ connTimer'[e]
    BY <1>1, <1>5 DEF Queued, Sending, Request
  <2>4. QuietOtherwise(e)'
    BY <2>3 DEF QuietOtherwise
  <2>5. RetriesAddUp(e)'
    <3>1. Answered(e)'
      <4>1. est'[e].status = st
        BY <1>2, <1>8 DEF EstType, Formed, DevicesTyped
      <4> QED BY <1>8, <4>1 DEF Answered
    <3> QED BY <1>1, <1>2, <2>2, <2>3, <3>1 DEF InTime, RetriesAddUp
  <2>6. Granted(e)'
    BY <1>1, <2>1 DEF Granted
  <2> QED BY <1>6, <2>4, <2>5, <2>6, OneTouched DEF InTime
<1> QED BY <1>1, <1>7, <1>8

LEMMA ReceiveRequestInTime ==
  ASSUME Formed, AnswersInTime, NEW c \in Coordinator, NEW m \in HasMemory,
         ReceiveRequest(c, m)
  PROVE  AnswersInTime'
<1>0. c \in Device /\ Coordinator \subseteq Device /\ m \in BOOLEAN
  BY StarAssumption, HasMemoryType
<1>1. PICK e \in EndDevice, f \in Frame :
        /\ Received(c) = Request(e) /\ Request(e) \in Inbox(c)
        /\ f.src = c /\ f.type = "CONNECTION_RESPONSE" /\ f.dst = e
        /\ f.status = AddStatus(table[c], e)
        /\ f.index = Marked(Added(table[c], e, FALSE), e).myIndex
        /\ Queue(c, f, m)
        /\ table' = [table EXCEPT ![c] = Marked(Added(table[c], e, FALSE), e)]
        /\ granted' = IF f.status = "STATUS_NOT_ENOUGH_SPACE" THEN granted
                      ELSE granted \union {e}
  BY <1>0, RequestAnswered
<1>2. /\ Receive(c, "CONNECTION_REQUEST")
      /\ UNCHANGED <<est, connTimer, tries, sending>>
  BY DEF ReceiveRequest, device
<1>3. /\ \A k \in Device : k # c => txq'[k] = txq[k]
      /\ Frames(txq'[c]) \subseteq Frames(txq[c]) \union {f}
  <2>1. RadioFormed /\ f.src = c /\ Queue(c, f, m)
    BY <1>1 DEF Formed
  <2> HIDE DEF Formed
  <2> QED BY <1>0, <2>1, QueueKeeps
<1>4. \A n \in Device : Inbox(n)' \subseteq Inbox(n)
  BY <1>0, <1>2, ReceiveKeeps DEF Formed
<1>5. ASSUME NEW d \in EndDevice
      PROVE  (Queued(d)' <=> Queued(d)) /\ (d \in granted => d \in granted')
  <2>1. txq'[d] = txq[d]
    BY <1>3, StarAssumption DEF EndDevice
  <2> QED BY <1>1, <2>1 DEF Queued, Request, Frames
<1>6. ASSUME NEW d \in EndDevice, d # e
      PROVE  Untouched(d)
  <2>1. \A k \in Coordinator : \A g \in Frames(txq'[k]) :
            g \in Frames(txq[k]) \/ g.type # "CONNECTION_RESPONSE" \/ g.dst # d
    BY <1>0, <1>1, <1>3, <1>6
  <2>2. NothingComes(d)
    BY <1>4, <2>1, NothingCame
  <2> QED BY <1>2, <1>5, <2>2 DEF Untouched
<1>7. InTime(e)'
  <2>1. InTime(e) /\ e \in Device /\ Asked(e)
    BY <1>1 DEF AnswersInTime, EndDevice, Asked
  <2>2. connTimer[e] \/ sending[e] = [frame |-> Request(e), status |-> "SUCCESS"]
    BY <2>1 DEF InTime, QuietOtherwise
  <2>3. /\ connTimer'[e] = connTimer[e] /\ est'[e] = est[e] /\ tries'[e] = tries[e]
        /\ Sending(e)' <=> Sending(e)
        /\ Answered(e)' <=> Answered(e)
    BY <1>2 DEF Sending, Request, Answered
  <2>4. QuietOtherwise(e)'
    <3>1. connTimer'[e] \/ (sending[e] = [frame |-> Request(e), status |-> "SUCCESS"])'
      BY <1>2, <2>2 DEF Request
    <3>2. Sending(e)' => \A g \in Inbox(e)' : g.type # "CONNECTION_RESPONSE"
      BY <1>4, <2>1, <2>3 DEF InTime, QuietOtherwise
    <3> QED BY <3>1, <3>2 DEF QuietOtherwise
  <2>5. RetriesAddUp(e)'
    BY <1>5, <2>1, <2>3 DEF InTime, RetriesAddUp
  <2>6. ASSUME NEW g \in Replies(e)', g.status # "STATUS_NOT_ENOUGH_SPACE"
        PROVE  e \in granted'
    <3>1. /\ g.type = "CONNECTION_RESPONSE" /\ g.dst = e
          /\ g \in Inbox(e)' \/ \E k \in Coordinator : g \in Frames(txq'[k])
      BY <2>6 DEF Replies, ReplyTo, Frames
    <3>2. \/ g = f
          \/ g \in Inbox(e) \/ \E k \in Coordinator : g \in Frames(txq[k])
      BY <1>0, <1>3, <1>4, <2>1, <3>1
    <3>3. g = f \/ g \in Replies(e)
      BY <3>1, <3>2 DEF Replies, ReplyTo
    <3>4. CASE g = f
      BY <1>1, <2>6, <3>4
    <3>5. CASE g \in Replies(e)
      BY <1>5, <2>1, <2>6, <3>5 DEF InTime, Granted
    <3> QED BY <3>3, <3>4, <3>5
  <2>7. Granted(e)'
    BY <1>5, <2>1, <2>3, <2>6 DEF InTime, Granted
  <2> QED BY <2>4, <2>5, <2>7 DEF InTime
<1> QED BY <1>6, <1>7, OneTouched

LEMMA NextInTime ==
  ASSUME Patient, Timely, Formed, Carried, AnswersInTime, [Next]_vars
  PROVE  AnswersInTime'
<1>0. Again = {FALSE} /\ HasMemory = {TRUE}
  BY DEF Patient, Again, HasMemory
<1>1. ASSUME PlainQueue, OtherSent, Drained, UNCHANGED <<est, connTimer, tries, granted>>
      PROVE  AnswersInTime'
  BY <1>1, PlainUntouched, UntouchedInTime
<1>2. ASSUME NEW n \in Device, Transmission(n) \/ PowerCycle(n)
      PROVE  AnswersInTime'
  BY <1>2, TransmissionInTime, PowerCycleInTime
<1>3. ASSUME NEW n \in Device, Parse(n)
      PROVE  AnswersInTime'
  <2>1. CASE /\ PlainQueue /\ UNCHANGED <<est, connTimer, tries, sending, granted>>
             /\ \E type : Receive(n, type)
    BY <1>1, <2>1 DEF OtherSent, Drained
  <2>2. CASE n \in EndDevice /\ ReceiveResponse(n)
    BY <2>2, ReceiveResponseInTime
  <2>3. CASE n \in Coordinator /\ \E m \in HasMemory : ReceiveRequest(n, m)
    BY <2>3, ReceiveRequestInTime
  <2> QED BY <1>3, <2>1, <2>2, <2>3, ParseIsPlain
<1>4. ASSUME NEW n \in Device, Report(n)
      PROVE  AnswersInTime'
  <2>1. CASE n \in EndDevice /\ RequestSent(n)
    BY <2>1, RequestSentInTime
  <2>2. CASE n \in EndDevice /\ \E a \in Again, m \in HasMemory : RequestFailed(n, a, m)
    BY <1>0, <2>2, RequestFailedInTime
  <2>3. CASE \/ CommandSent(n)
             \/ n \in Coordinator /\ \E m \in HasMemory : ResponseSent(n, m)
             \/ n \in EndDevice /\ \E a \in Again, m \in HasMemory : AliveSent(n, a, m)
    <3>1. PlainQueue /\ OtherSent /\ UNCHANGED <<est, connTimer, tries, granted, rx>>
      BY <2>3, ReportIsPlain
    <3> QED BY <1>1, <3>1 DEF Drained
  <2> QED BY <1>4, <2>1, <2>2, <2>3 DEF Report
<1>5. CASE \/ \E n \in Device, i \in Slot, m \in HasMemory : RemoveConnection(n, i, m)
           \/ \E c \in Coordinator, m \in HasMemory : ShareInterval(c, m)
           \/ \E c \in Coordinator : FindInActiveDevices(c)
           \/ \E e \in EndDevice, m \in HasMemory : LinkStatusInterval(e, m)
           \/ UNCHANGED vars
  <2>1. PlainQueue /\ UNCHANGED <<sending, rx, est, connTimer, tries, granted>>
    BY <1>5, RestIsPlain
  <2> QED BY <1>1, <2>1 DEF OtherSent, Drained
<1>6. ASSUME NEW e \in EndDevice, EstablishConnection(e)
      PROVE  AnswersInTime'
  BY <1>6, EstablishInTime
<1>7. ASSUME NEW e \in EndDevice, NEW a \in Again, NEW m \in HasMemory, ConnectionInterval(e, a, m)
      PROVE  AnswersInTime'
  BY <1>0, <1>7, ConnectionIntervalInTime
<1> QED BY <1>2, <1>3, <1>4, <1>5, <1>6, <1>7 DEF Next

StarInv == Formed /\ Carried /\ AnswersInTime

LEMMA StarInTime == ASSUME Patient, Timely PROVE Spec => []StarInv
<1>1. Init => StarInv
  BY InitFormed, InitCarried, InitInTime DEF StarInv
<1>2. StarInv /\ [Next]_vars => StarInv'
  BY NextFormed, NextCarried, NextInTime DEF StarInv
<1> QED BY <1>1, <1>2, PTL DEF Spec

(* CONNECTION_RETRY_TIMES bounds the requests of a procedure: the counter  *)
(* that the interval, the confirmation of a request and a late answer      *)
(* share never wraps.  Answers come within CONNECTION_INTERVAL.            *)
THEOREM StarRetries == ASSUME Patient, Timely PROVE Spec => []RetriesBounded
<1>1. StarInv => RetriesBounded
  BY DEF StarInv, AnswersInTime, InTime, RetriesAddUp, RetriesBounded
<1> QED BY <1>1, StarInTime, PTL

----------------------------------------------------------------------------
(* The index that is told.                                                 *)

(* The entries of e in the tables are in slot k.                           *)
Points(tables, e, k) == \A c \in Coordinator, i \in Slot : Entry(tables[c], e, i) => k = i

(* No coordinator has the same request in two banks.                       *)
AskedOnce(e) ==
  \A c \in Coordinator : \A a, b \in Bank :
    rx[c][a] = Request(e) /\ rx[c][b] = Request(e) => a = b

(* An answer and what the device made of it agree with the entry; nothing  *)
(* is left of an earlier answer when a coordinator has a new request.      *)
IndexTold(e) ==
  /\ \A f \in Replies(e) : Points(table, e, f.index)
  /\ Answered(e) => Points(table, e, myIndex[e])
  /\ Asked(e) => ~ Answered(e) /\ Replies(e) = {}
  /\ AskedOnce(e)

TablesDistinct == \A c \in Coordinator : Distinct(table[c])
Indexed == TablesDistinct /\ \A e \in EndDevice : IndexTold(e)

(* What a step must not do to the index of e.                              *)
FewerEntries(e) ==
  \A c \in Coordinator, i \in Slot : Entry(table'[c], e, i) => Entry(table[c], e, i)
OldRequests(e) ==
  \A c \in Coordinator, b \in Bank : rx'[c][b] = Request(e) => rx[c][b] = Request(e)
Steady(e) ==
  /\ NothingComes(e) /\ OldRequests(e) /\ FewerEntries(e)
  /\ Answered(e)' => Answered(e) /\ myIndex'[e] = myIndex[e]

LEMMA FewerPoints ==
  ASSUME NEW e \in EndDevice, FewerEntries(e), NEW k, Points(table, e, k)
  PROVE  Points(table', e, k)
BY DEF FewerEntries, Points

LEMMA OldAskedOnce ==
  ASSUME NEW e \in EndDevice, AskedOnce(e), OldRequests(e)
  PROVE  AskedOnce(e)'
<1>1. Request(e)' = Request(e)
  BY DEF Request
<1>2. \A c \in Coordinator : \A a, b \in Bank :
        rx'[c][a] = Request(e) /\ rx'[c][b] = Request(e) => a = b
  BY DEF AskedOnce, OldRequests
<1> QED BY <1>1, <1>2 DEF AskedOnce

LEMMA SteadyKeeps ==
  ASSUME NEW e \in EndDevice, IndexTold(e), Steady(e)
  PROVE  IndexTold(e)'
<1>1. FewerEntries(e) /\ OldRequests(e)
  BY DEF Steady
<1>2. ASSUME NEW f \in Replies(e)'  PROVE Points(table', e, f.index)
  <2>1. Points(table, e, f.index)
    BY <1>2 DEF Steady, NothingComes, IndexTold
  <2> QED BY <1>1, <2>1, FewerPoints
<1>3. ASSUME Answered(e)'  PROVE Points(table', e, myIndex'[e])
  <2>1. Points(table, e, myIndex[e]) /\ myIndex'[e] = myIndex[e]
    BY <1>3 DEF Steady, IndexTold
  <2> QED BY <1>1, <2>1, FewerPoints
<1>4. Asked(e)' => ~ Answered(e)' /\ Replies(e)' = {}
  BY DEF Steady, NothingComes, IndexTold
<1>5. AskedOnce(e)'
  BY <1>1, OldAskedOnce DEF IndexTold
<1>6. \A f \in Replies(e)' : Points(table, e, f.index)'
  BY <1>2 DEF Points
<1>7. Answered(e)' => Points(table, e, myIndex[e])'
  BY <1>3 DEF Points
<1> QED BY <1>4, <1>5, <1>6, <1>7 DEF IndexTold

----------------------------------------------------------------------------
(* The steps that only lose frames, entries and answers.                   *)

(* Banks are only emptied.                                                 *)
Emptied == \A n \in Device, b \in Bank : rx'[n][b] = rx[n][b] \/ rx'[n][b] = NoFrame
NoNewAnswer ==
  \A c \in Coordinator : \A f \in Frames(txq'[c]) :
    f \in Frames(txq[c]) \/ f.type # "CONNECTION_RESPONSE"
OldAnswer ==
  \A e \in EndDevice :
    /\ est'[e].status \in {est[e].status, "SCAN_NO_BEACON"}
    /\ est'[e].status = "SCAN_NO_BEACON" \/ myIndex'[e] = myIndex[e]
FewerValid ==
  \A c \in Coordinator, i \in Slot :
    table'[c].valid[i] => table[c].valid[i] /\ table'[c].addr[i] = table[c].addr[i]
Mild == Emptied /\ NoNewAnswer /\ OldAnswer /\ FewerValid

LEMMA EmptiedKeeps ==
  ASSUME Emptied
  PROVE  /\ \A n \in Device : Inbox(n)' \subseteq Inbox(n)
         /\ \A e \in EndDevice : OldRequests(e)
<1>1. \A n \in Device : Inbox(n)' \subseteq Inbox(n)
  BY DEF Emptied, Inbox
<1>2. \A e \in EndDevice : Request(e) # NoFrame
  BY DEF Request, NoFrame
<1>3. \A e \in EndDevice : OldRequests(e)
  BY <1>2, StarAssumption DEF Emptied, OldRequests
<1> QED BY <1>1, <1>3

LEMMA DrainedEmpties ==
  ASSUME Formed, Drained
  PROVE  Emptied
<1>1. CASE UNCHANGED rx
  BY <1>1 DEF Emptied
<1>2. ASSUME NEW n \in Device, NEW type, Receive(n, type)
      PROVE  Emptied
  <2>1. rx' = [rx EXCEPT ![n][FirstBank(n)] = NoFrame] /\ Filled(n) # {}
    BY <1>2 DEF Receive
  <2>2. FirstBank(n) \in Bank
    BY <2>1, FirstBankFilled DEF Formed
  <2>3. rx \in [Device -> [Bank -> Frame \union {NoFrame}]]
    BY DEF Formed, RadioFormed, RadioTypeOK
  <2> QED BY <2>1, <2>2, <2>3 DEF Emptied
<1> QED BY <1>1, <1>2 DEF Drained

LEMMA MildIsSteady ==
  ASSUME Mild
  PROVE  \A e \in EndDevice : Steady(e)
<1> SUFFICES ASSUME NEW e \in EndDevice  PROVE Steady(e)
  OBVIOUS
<1>1. (\A n \in Device : Inbox(n)' \subseteq Inbox(n)) /\ OldRequests(e)
  BY EmptiedKeeps DEF Mild
<1>2. NothingComes(e)
  BY <1>1, NothingCame DEF Mild, NoNewAnswer
<1>3. Answered(e)' => Answered(e) /\ myIndex'[e] = myIndex[e]
  <2>1. Answered(e)' <=> est'[e].status \in {"SUCCESS", "ALREADY_EXISTS"}
    BY DEF Answered
  <2> QED BY <2>1 DEF Mild, OldAnswer, Answered
<1>4. FewerEntries(e)
  BY DEF Mild, FewerValid, FewerEntries, Entry
<1> QED BY <1>1, <1>2, <1>3, <1>4 DEF Steady

(* A table that lost entries.                                              *)
LEMMA EntriesLost ==
  ASSUME Formed,
         \/ UNCHANGED table
         \/ \E n \in Device : \E u :
              /\ table' = [table EXCEPT ![n] = u]
              /\ Shrunk(table[n], u) \/ \A i \in Slot : ~ u.valid[i]
  PROVE  FewerValid
<1>1. CASE UNCHANGED table
  BY <1>1 DEF FewerValid
<1>2. ASSUME NEW n \in Device, NEW u, table' = [table EXCEPT ![n] = u],
             Shrunk(table[n], u) \/ \A i \in Slot : ~ u.valid[i]
      PROVE  FewerValid
  <2>1. \A c \in Device : table'[c] = IF c = n THEN u ELSE table[c]
    BY <1>2 DEF Formed, TablesGood
  <2>2. \A i \in Slot : u.valid[i] => table[n].valid[i] /\ u.addr[i] = table[n].addr[i]
    BY <1>2 DEF Shrunk
  <2> QED BY <2>1, <2>2, StarAssumption DEF FewerValid
<1> QED BY <1>1, <1>2

LEMMA SilentQueue ==
  ASSUME Formed,
         \/ PlainQueue
         \/ \E e \in EndDevice : \A n \in Device : n # e => txq'[n] = txq[n]
  PROVE  NoNewAnswer
<1> USE StarAssumption
<1>1. CASE PlainQueue
  BY <1>1, PlainQueueKeeps DEF NoNewAnswer
<1>2. CASE \E e \in EndDevice : \A n \in Device : n # e => txq'[n] = txq[n]
  BY <1>2 DEF NoNewAnswer, EndDevice
<1> QED BY <1>1, <1>2

LEMMA PlainIsMild ==
  ASSUME Formed, PlainQueue, Drained, UNCHANGED <<est, myIndex>>,
         FewerValid
  PROVE  Mild
<1>1. Emptied /\ NoNewAnswer
  BY DrainedEmpties, SilentQueue
<1> QED BY <1>1 DEF Mild, OldAnswer

(* The procedure of one end device goes on or is confirmed.                *)
LEMMA ProcedureIsMild ==
  ASSUME Formed, NEW e \in EndDevice,
         UNCHANGED <<table, rx>>,
         \A n \in Device : n # e => txq'[n] = txq[n],
         \A d \in EndDevice : d # e => est'[d] = est[d],
         est'[e].status \in {est[e].status, "SCAN_NO_BEACON"},
         UNCHANGED myIndex
  PROVE  Mild
<1>1. Emptied /\ NoNewAnswer /\ FewerValid
  BY DrainedEmpties, SilentQueue, EntriesLost DEF Drained
<1> QED BY <1>1 DEF Mild, OldAnswer

LEMMA SendRequestIsMild ==
  ASSUME Formed, NEW e \in EndDevice, NEW r, SendConnectionRequest(e, r, FALSE, TRUE),
         UNCHANGED <<table, rx, myIndex>>
  PROVE  Mild
<1>1. est[e] \in EstType
  BY DEF Formed, DevicesTyped
<1>2. /\ \A d \in Device : d # e => txq'[d] = txq[d]
      /\ \A d \in EndDevice : d # e => est'[d] = est[d]
      /\ \/ est'[e] = [est[e] EXCEPT !.retries = r]
         \/ est'[e] = [est[e] EXCEPT !.retries = r, !.callback = FALSE]
  BY SendRequestOthers
<1>3. est'[e].status = est[e].status
  BY <1>1, <1>2 DEF EstType
<1> QED BY <1>2, <1>3, ProcedureIsMild

LEMMA ReportIsMild ==
  ASSUME Patient, Formed, NEW n \in Device, Report(n)
  PROVE  Mild
<1>0. Again = {FALSE} /\ HasMemory = {TRUE}
  BY DEF Patient, Again, HasMemory
<1>1. CASE n \in EndDevice /\ RequestSent(n)
  <2>1. /\ est' = [est EXCEPT ![n].retries = Dec(est[n].retries)]
        /\ UNCHANGED <<table, rx, txq, myIndex>>
    BY <1>1 DEF RequestSent
  <2>2. est \in [EndDevice -> EstType]
    BY DEF Formed, DevicesTyped
  <2>3. /\ est'[n].status = est[n].status
        /\ \A d \in EndDevice : d # n => est'[d] = est[d]
    BY <1>1, <2>1, <2>2 DEF EstType
  <2> QED BY <1>1, <2>1, <2>3, ProcedureIsMild
<1>2. CASE n \in EndDevice /\ RequestFailed(n, FALSE, TRUE)
  BY <1>2, SendRequestIsMild DEF RequestFailed
<1>3. CASE \/ CommandSent(n)
           \/ n \in Coordinator /\ \E m \in HasMemory : ResponseSent(n, m)
           \/ n \in EndDevice /\ \E a \in Again, m \in HasMemory : AliveSent(n, a, m)
  <2>1. PlainQueue /\ UNCHANGED <<est, rx>>
    BY <1>3, ReportIsPlain
  <2>2. UNCHANGED <<table, myIndex>>
    BY <1>3 DEF CommandSent, ResponseSent, AliveSent, device
  <2> QED BY <2>1, <2>2, EntriesLost, PlainIsMild DEF Drained
<1> QED BY <1>0, <1>1, <1>2, <1>3 DEF Report

LEMMA ParseIsMild ==
  ASSUME Patient, Formed, NEW n \in Device, Parse(n),
         ~ (n \in EndDevice /\ ReceiveResponse(n)),
         ~ (n \in Coordinator /\ \E m \in HasMemory : ReceiveRequest(n, m))
  PROVE  Mild
<1>0. table[n] \in Table
  BY DEF Formed, TablesGood
<1>1. PlainQueue /\ UNCHANGED est /\ Drained
  BY ParseIsPlain DEF Drained
<1>2. UNCHANGED myIndex /\ FewerValid
  <2>1. CASE Ignore(n)
    BY <2>1, EntriesLost DEF Ignore, device
  <2>2. CASE (\E m \in HasMemory : ReceiveRemovalRequest(n, m)) \/ ReceiveRemovalResponse(n)
    <3>1. /\ UNCHANGED myIndex
          /\ \/ table' = table
             \/ table' = [table EXCEPT ![n] = RemovedDevice(table[n], Received(n).src)]
      BY <2>2 DEF ReceiveRemovalRequest, ReceiveRemovalResponse, device
    <3> QED BY <1>0, <3>1, RemovedDeviceShrinks, EntriesLost
  <2>3. CASE ReceiveAlive(n)
    <3>1. /\ UNCHANGED myIndex
          /\ table' = [table EXCEPT ![n] = Alive(table[n], Received(n).src)]
      BY <2>3 DEF ReceiveAlive, device
    <3> QED BY <1>0, <3>1, AliveShrinks, EntriesLost
  <2>4. CASE \E a \in Again, m \in HasMemory : ReceiveShare(n, a, m)
    BY <2>4, EntriesLost DEF ReceiveShare
  <2> QED BY <2>1, <2>2, <2>3, <2>4 DEF Parse
<1> QED BY <1>1, <1>2, PlainIsMild

LEMMA RestIsMild ==
  ASSUME Formed,
         \/ \E n \in Device, i \in Slot, m \in HasMemory : RemoveConnection(n, i, m)
         \/ \E c \in Coordinator, m \in HasMemory : ShareInterval(c, m)
         \/ \E c \in Coordinator : FindInActiveDevices(c)
         \/ \E e \in EndDevice, m \in HasMemory : LinkStatusInterval(e, m)
         \/ UNCHANGED vars
  PROVE  Mild
<1>1. PlainQueue /\ UNCHANGED <<est, rx>>
  BY RestIsPlain
<1>2. UNCHANGED myIndex /\ FewerValid
  <2>1. ASSUME NEW n \in Device, NEW i \in Slot, NEW m \in HasMemory, RemoveConnection(n, i, m)
        PROVE  UNCHANGED myIndex /\ FewerValid
    <3>1. UNCHANGED myIndex /\ table' = [table EXCEPT ![n] = Removed(table[n], i)]
      BY <2>1 DEF RemoveConnection, device
    <3>2. table[n] \in Table
      BY DEF Formed, TablesGood
    <3> QED BY <3>1, <3>2, RemovedShrinks, EntriesLost
  <2>2. ASSUME NEW c \in Coordinator, FindInActiveDevices(c)
        PROVE  UNCHANGED myIndex /\ FewerValid
    <3>1. UNCHANGED myIndex /\ table' = [table EXCEPT ![c] = InactiveRemoved(table[c])]
      BY <2>2 DEF FindInActiveDevices, device
    <3>2. c \in Device /\ table[c] \in Table
      BY StarAssumption DEF Formed, TablesGood
    <3> QED BY <3>1, <3>2, InactiveShrinks, EntriesLost
  <2>3. CASE \/ \E c \in Coordinator, m \in HasMemory : ShareInterval(c, m)
             \/ \E e \in EndDevice, m \in HasMemory : LinkStatusInterval(e, m)
             \/ UNCHANGED vars
    <3>1. UNCHANGED <<table, myIndex>>
      BY <2>3 DEF ShareInterval, LinkStatusInterval, vars, device
    <3> QED BY <3>1, EntriesLost
  <2> QED BY <2>1, <2>2, <2>3
<1> QED BY <1>1, <1>2, PlainIsMild DEF Drained

LEMMA EstablishIsMild ==
  ASSUME Formed, NEW e \in EndDevice, EstablishConnection(e)
  PROVE  Mild
<1>1. /\ est' = [est EXCEPT ![e] = Procedure(e, state[e])]
      /\ txq' = [txq EXCEPT ![e] = Append(txq[e], Request(e))]
      /\ UNCHANGED <<table, rx, myIndex>>
  BY DEF EstablishConnection, Queue
<1>2. /\ \A n \in Device : n # e => txq'[n] = txq[n]
      /\ \A d \in EndDevice : d # e => est'[d] = est[d]
      /\ est'[e] = Procedure(e, state[e])
  BY <1>1 DEF Formed, RadioFormed, RadioTypeOK, DevicesTyped
<1>3. est'[e].status = "SCAN_NO_BEACON"
  BY <1>2 DEF Procedure
<1> QED BY <1>1, <1>2, <1>3, ProcedureIsMild

LEMMA PowerCycleIsMild ==
  ASSUME Formed, NEW n \in Device, PowerCycle(n)
  PROVE  Mild
<1>1. /\ table' = [table EXCEPT ![n] = EmptyTable]
      /\ txq' = [txq EXCEPT ![n] = <<>>]
      /\ rx' = [rx EXCEPT ![n] = [b \in Bank |-> NoFrame]]
      /\ \/ UNCHANGED <<est, myIndex>>
         \/ /\ est' = [est EXCEPT ![n] = NoProcedure]
            /\ myIndex' = [myIndex EXCEPT ![n] = 0]
  BY DEF PowerCycle, RadioOff, device
<1>2. Emptied
  <2>1. \A m \in Device : rx'[m] = IF m = n THEN [b \in Bank |-> NoFrame] ELSE rx[m]
    BY <1>1 DEF Formed, RadioFormed, RadioTypeOK
  <2> QED BY <2>1 DEF Emptied
<1>3. NoNewAnswer
  <2>1. \A c \in Device : txq'[c] = IF c = n THEN <<>> ELSE txq[c]
    BY <1>1 DEF Formed, RadioFormed, RadioTypeOK
  <2>2. \A c \in Device : Frames(txq'[c]) \subseteq Frames(txq[c])
    BY <2>1, FramesEmpty
  <2> QED BY <2>2, StarAssumption DEF NoNewAnswer
<1>4. OldAnswer
  <2>1. \A e \in EndDevice : /\ est'[e] \in {est[e], NoProcedure}
                             /\ est'[e] = NoProcedure \/ myIndex'[e] = myIndex[e]
    BY <1>1 DEF Formed, DevicesTyped
  <2>2. NoProcedure.status = "SCAN_NO_BEACON"
    BY DEF NoProcedure
  <2> QED BY <2>1, <2>2 DEF OldAnswer
<1>5. FewerValid
  <2>1. \A i \in Slot : ~ EmptyTable.valid[i]
    BY DEF EmptyTable
  <2> QED BY <1>1, <2>1, EntriesLost
<1> QED BY <1>2, <1>3, <1>4, <1>5 DEF Mild

LEMMA MildIndexed ==
  ASSUME Indexed, Mild
  PROVE  Indexed'
<1>1. \A e \in EndDevice : IndexTold(e)'
  BY MildIsSteady, SteadyKeeps DEF Indexed
<1>2. \A c \in Coordinator : Distinct(table'[c])
  BY DEF Mild, FewerValid, Indexed, TablesDistinct, Distinct
<1>3. TablesDistinct'
  BY <1>2 DEF TablesDistinct, Distinct
<1> QED BY <1>1, <1>3 DEF Indexed

----------------------------------------------------------------------------
(* A request is queued when nothing is left of an earlier one.             *)
LEMMA QueuedIsQuiet ==
  ASSUME Carried, AnswersInTime, NEW e \in EndDevice, Queued(e)
  PROVE  ~ Asked(e) /\ Replies(e) = {} /\ ~ Answered(e)
<1>1. CarriedOnce(e) /\ InTime(e)
  BY DEF Carried, AnswersInTime
<1>2. ~ connTimer[e] /\ ~ Sending(e)
  BY <1>1 DEF CarriedOnce
<1> QED BY <1>1, <1>2 DEF InTime, QuietOtherwise, RetriesAddUp, Sending

(* It is stored in one bank of a coordinator.                              *)
LEMMA TransmissionIndexed ==
  ASSUME StarInv, Indexed, NEW n \in Device, Transmission(n)
  PROVE  Indexed'
<1>0. Formed /\ Carried /\ AnswersInTime /\ Coordinator \subseteq Device
  BY StarAssumption DEF StarInv
<1>1. PICK R \in SUBSET Reach(n), s \in {"SUCCESS", "FAILURE"} : Send(n, R, s)
  BY DEF Transmission, Transmit
<1>2. UNCHANGED <<table, est, myIndex>>
  BY DEF Transmission, device
<1> DEFINE h == Head(txq[n])
<1>3. h \in Frames(txq[n]) /\ h.src = n
  <2>1. SendEffect(n, R, s)
    BY <1>0, <1>1, SendKeeps DEF Formed
  <2> QED BY <1>0, <2>1 DEF SendEffect, Formed, RadioFormed, Routed
<1>4. /\ \A m \in Device : m \notin R => rx'[m] = rx[m]
      /\ \A m \in Device : m \in R => /\ FreeBank(m) \in Bank
                                      /\ rx'[m] = [rx[m] EXCEPT ![FreeBank(m)] = h]
  <2>1. rx' = [m \in Device |-> IF m \in R THEN Stored(m, h) ELSE rx[m]]
    BY <1>1 DEF Send
  <2>2. \A m \in R : Listening(m)
    BY DEF Reach
  <2> QED BY <2>1, <2>2, FreeBankExists DEF Stored
<1>5. rx \in [Device -> [Bank -> Frame \union {NoFrame}]]
  BY <1>0 DEF Formed, RadioFormed, RadioTypeOK
<1> HIDE DEF h
<1>6. \A m \in Device, b \in Bank : \/ rx'[m][b] = rx[m][b]
                                    \/ rx'[m][b] = h /\ m \in R /\ b = FreeBank(m)
  <2> SUFFICES ASSUME NEW m \in Device, NEW b \in Bank
               PROVE  \/ rx'[m][b] = rx[m][b]
                      \/ rx'[m][b] = h /\ m \in R /\ b = FreeBank(m)
    OBVIOUS
  <2>1. CASE m \notin R
    BY <1>4, <2>1
  <2>2. CASE m \in R
    <3>1. rx'[m] = [rx[m] EXCEPT ![FreeBank(m)] = h] /\ DOMAIN rx[m] = Bank
      BY <1>4, <1>5, <2>2
    <3> QED BY <2>2, <3>1
  <2> QED BY <2>1, <2>2
<1>7. ASSUME NEW e \in EndDevice
      PROVE  IndexTold(e)'
  <2>1. IndexTold(e) /\ e \in Device
    BY DEF Indexed, EndDevice
  <2>2. Replies(e)' \subseteq Replies(e)
    BY <1>0, <1>1, SentReplies
  <2>3. FewerEntries(e) /\ (Answered(e)' => Answered(e) /\ myIndex'[e] = myIndex[e])
    BY <1>2 DEF FewerEntries, Answered
  <2>4. Request(e)' = Request(e) /\ Request(e).src = e /\ Request(e) # NoFrame
    BY DEF Request, NoFrame
  <2>5. Asked(e)' <=> \E c \in Coordinator, b \in Bank : rx'[c][b] = Request(e)
    BY <2>4 DEF Asked, Inbox
  <2>6. Asked(e) <=> \E c \in Coordinator, b \in Bank : rx[c][b] = Request(e)
    BY <2>4 DEF Asked, Inbox
  <2>7. CASE h # Request(e)
    <3>1. OldRequests(e)
      BY <1>0, <1>6, <2>7 DEF OldRequests
    <3>2. Asked(e)' => Asked(e)
      BY <2>5, <2>6, <3>1 DEF OldRequests
    <3>3. AskedOnce(e)'
      BY <2>1, <3>1, OldAskedOnce DEF IndexTold
    <3>4. \A f \in Replies(e)' : Points(table, e, f.index)'
      BY <1>2, <2>1, <2>2 DEF IndexTold, Points
    <3>5. Answered(e)' => Points(table, e, myIndex[e])'
      BY <1>2, <2>1, <2>3 DEF IndexTold, Points
    <3>6. Asked(e)' => ~ Answered(e)' /\ Replies(e)' = {}
      BY <2>1, <2>2, <2>3, <3>2 DEF IndexTold
    <3> QED BY <3>3, <3>4, <3>5, <3>6 DEF IndexTold
  <2>8. CASE h = Request(e)
    <3>1. Queued(e)
      BY <1>3, <2>4, <2>8 DEF Queued
    <3>2. ~ Asked(e) /\ Replies(e) = {} /\ ~ Answered(e)
      BY <1>0, <3>1, QueuedIsQuiet
    <3>3. ~ Answered(e)' /\ Replies(e)' = {}
      BY <2>2, <2>3, <3>2
    <3>4. \A c \in Coordinator, b \in Bank : rx'[c][b] = Request(e) => b = FreeBank(c)
      BY <1>0, <1>6, <2>6, <3>2
    <3>5. \A c \in Coordinator : \A a, b \in Bank :
            rx'[c][a] = Request(e) /\ rx'[c][b] = Request(e) => a = b
      BY <3>4
    <3>6. AskedOnce(e)'
      BY <2>4, <3>5 DEF AskedOnce
    <3> QED BY <3>3, <3>6 DEF IndexTold
  <2> QED BY <2>7, <2>8
<1>8. TablesDistinct'
  BY <1>2 DEF Indexed, TablesDistinct, Distinct
<1> QED BY <1>7, <1>8 DEF Indexed

OneCoordinator == \A c, d \in Coordinator : c = d

(* The answer has the index of the entry that is written for it.           *)
LEMMA ReceiveRequestIndexed ==
  ASSUME OneCoordinator, StarInv, Indexed, NEW c \in Coordinator, NEW m \in HasMemory,
         ReceiveRequest(c, m)
  PROVE  Indexed'
<1>0. Formed /\ c \in Device /\ Coordinator \subseteq Device /\ m \in BOOLEAN
  BY StarAssumption, HasMemoryType DEF StarInv
<1>1. PICK e \in EndDevice, f \in Frame :
        /\ Received(c) = Request(e) /\ Request(e) \in Inbox(c)
        /\ f.src = c /\ f.type = "CONNECTION_RESPONSE" /\ f.dst = e
        /\ f.status = AddStatus(table[c], e)
        /\ f.index = Marked(Added(table[c], e, FALSE), e).myIndex
        /\ Queue(c, f, m)
        /\ table' = [table EXCEPT ![c] = Marked(Added(table[c], e, FALSE), e)]
        /\ granted' = IF f.status = "STATUS_NOT_ENOUGH_SPACE" THEN granted
                      ELSE granted \union {e}
  BY <1>0, RequestAnswered
<1>2. Receive(c, "CONNECTION_REQUEST") /\ UNCHANGED <<est, myIndex>>
  BY DEF ReceiveRequest, device
<1>3. /\ \A k \in Device : k # c => txq'[k] = txq[k]
      /\ Frames(txq'[c]) \subseteq Frames(txq[c]) \union {f}
  <2>1. RadioFormed /\ c \in Device /\ f \in Frame /\ m \in BOOLEAN
    BY <1>0 DEF Formed
  <2>2. f.src = c /\ Queue(c, f, m)
    BY <1>1
  <2> QED BY <2>1, <2>2, QueueKeeps, SMTT(30)
<1>4. Emptied
  <2>1. Drained
    BY <1>0, <1>2 DEF Drained
  <2> QED BY <1>0, <2>1, DrainedEmpties
<1>5. (\A n \in Device : Inbox(n)' \subseteq Inbox(n)) /\ \A d \in EndDevice : OldRequests(d)
  BY <1>4, EmptiedKeeps
<1>6. PICK t : t = table[c]
  OBVIOUS
<1>7. PICK a : a = Added(t, e, FALSE)
  OBVIOUS
<1>8. PICK u : u = Marked(a, e)
  OBVIOUS
<1>9. t \in Table /\ e \in Device /\ Distinct(t)
  BY <1>0, <1>6 DEF Formed, TablesGood, EndDevice, Indexed, TablesDistinct
<1>10. /\ a \in Table
       /\ \A i \in Slot : a.valid[i] => \/ a.addr[i] = e
                                        \/ t.valid[i] /\ a.addr[i] = t.addr[i]
  <2>1. /\ Added(t, e, FALSE) \in Table
        /\ \A i \in Slot : Added(t, e, FALSE).valid[i]
              => \/ Added(t, e, FALSE).addr[i] = e
                 \/ t.valid[i] /\ Added(t, e, FALSE).addr[i] = t.addr[i]
    BY <1>9, AddedKeeps
  <2> QED BY <1>7, <2>1
<1>11. Distinct(a) /\ \A j \in Slot : Entry(a, e, j) => a.myIndex = j
  BY <1>7, <1>9, AddedIndex
<1>12. u.addr = a.addr /\ u.valid = a.valid /\ u.myIndex = a.myIndex
  BY <1>8, <1>9, <1>10, MarkedFields
<1>13. table'[c] = u /\ f.index = u.myIndex
  BY <1>0, <1>1, <1>6, <1>7, <1>8 DEF Formed, TablesGood
<1>14. \A d \in Coordinator : d = c
  BY DEF OneCoordinator
<1>15. TablesDistinct'
  <2>1. Distinct(u)
    BY <1>11, <1>12 DEF Distinct
  <2>2. \A d \in Coordinator : Distinct(table'[d])
    BY <1>13, <1>14, <2>1
  <2> QED BY <2>2 DEF TablesDistinct, Distinct
<1>16. ASSUME NEW d \in EndDevice, d # e
       PROVE  IndexTold(d)'
  <2>1. \A k \in Coordinator : \A g \in Frames(txq'[k]) :
            g \in Frames(txq[k]) \/ g.type # "CONNECTION_RESPONSE" \/ g.dst # d
    BY <1>0, <1>1, <1>3, <1>16
  <2>2. NothingComes(d)
    BY <1>5, <2>1, NothingCame
  <2>3. FewerEntries(d)
    <3>1. \A i \in Slot : Entry(u, d, i) => Entry(t, d, i)
      BY <1>10, <1>12, <1>16 DEF Entry
    <3> QED BY <1>6, <1>13, <1>14, <3>1 DEF FewerEntries
  <2>4. Answered(d)' => Answered(d) /\ myIndex'[d] = myIndex[d]
    BY <1>2 DEF Answered
  <2>5. Steady(d)
    BY <1>5, <2>2, <2>3, <2>4 DEF Steady
  <2> QED BY <2>5, SteadyKeeps DEF Indexed
<1>17. IndexTold(e)'
  <2>1. IndexTold(e) /\ Asked(e)
    BY <1>1 DEF Indexed, Asked
  <2>2. ~ Answered(e)' /\ Replies(e) = {}
    BY <1>2, <2>1 DEF IndexTold, Answered
  <2>3. ~ Asked(e)'
    <3> DEFINE k == FirstBank(c)
    <3>1. k \in Bank /\ rx[c][k] = Request(e) /\ rx' = [rx EXCEPT ![c][k] = NoFrame]
      BY <1>0, <1>1, <1>2, FirstBankFilled DEF Receive, Received, Formed
    <3> HIDE DEF k
    <3>2. rx \in [Device -> [Bank -> Frame \union {NoFrame}]]
      BY <1>0 DEF Formed, RadioFormed, RadioTypeOK
    <3>3. rx'[c][k] = NoFrame /\ \A b \in Bank : b # k => rx'[c][b] = rx[c][b]
      BY <1>0, <3>1, <3>2
    <3>4. Request(e) # NoFrame /\ Request(e)' = Request(e)
      BY DEF Request, NoFrame
    <3>5. \A b \in Bank : rx'[c][b] # Request(e)
      BY <2>1, <3>1, <3>3, <3>4 DEF IndexTold, AskedOnce
    <3> QED BY <1>14, <3>4, <3>5 DEF Asked, Inbox
  <2>4. ASSUME NEW g \in Replies(e)'  PROVE g = f
    <3>1. /\ g.type = "CONNECTION_RESPONSE" /\ g.dst = e
          /\ g \in Inbox(e)' \/ \E k \in Coordinator : g \in Frames(txq'[k])
      BY <2>4 DEF Replies, ReplyTo, Frames
    <3>2. g = f \/ g \in Inbox(e) \/ \E k \in Coordinator : g \in Frames(txq[k])
      BY <1>0, <1>3, <1>5, <1>9, <3>1
    <3>3. g = f \/ g \in Replies(e)
      BY <3>1, <3>2 DEF Replies, ReplyTo
    <3> QED BY <2>2, <3>3
  <2>5. Points(table', e, f.index)
    <3>1. \A j \in Slot : Entry(u, e, j) => u.myIndex = j
      BY <1>11, <1>12 DEF Entry
    <3> QED BY <1>13, <1>14, <3>1 DEF Points
  <2>6. \A g \in Replies(e)' : Points(table, e, g.index)'
    BY <2>4, <2>5 DEF Points
  <2>7. AskedOnce(e)'
    BY <1>5, <2>1, OldAskedOnce DEF IndexTold
  <2> QED BY <2>2, <2>3, <2>6, <2>7 DEF IndexTold
<1> QED BY <1>15, <1>16, <1>17 DEF Indexed

(* The device takes the index of an answer, when no request is on its way. *)
LEMMA ReceiveResponseIndexed ==
  ASSUME StarInv, Indexed, NEW e \in EndDevice, ReceiveResponse(e)
  PROVE  Indexed'
<1> DEFINE f == Received(e)
<1>0. Formed /\ e \in Device
  BY DEF StarInv, EndDevice
<1>1. /\ Receive(e, "CONNECTION_RESPONSE")
      /\ UNCHANGED txq
      /\ \/ UNCHANGED <<est, myIndex>>
         \/ /\ \E st : est' = [est EXCEPT ![e].retries = 0, ![e].status = st]
            /\ myIndex' = [myIndex EXCEPT ![e] = f.index]
      /\ table' = table \/ \E u : table' = [table EXCEPT ![e] = u]
  BY DEF ReceiveResponse
<1>2. f \in Replies(e)
  <2>1. f \in Inbox(e) /\ f.type = "CONNECTION_RESPONSE"
    BY <1>0, <1>1, ReceiveKeeps DEF Formed
  <2> QED BY <1>0, <2>1, HeardIsReply
<1> HIDE DEF f
<1>3. \A c \in Coordinator : table'[c] = table[c]
  BY <1>0, <1>1, StarAssumption DEF Formed, TablesGood, EndDevice
<1>4. /\ \A d \in EndDevice : d # e => est'[d] = est[d] /\ myIndex'[d] = myIndex[d]
      /\ \/ est'[e] = est[e] /\ myIndex'[e] = myIndex[e]
         \/ myIndex'[e] = f.index
  BY <1>0, <1>1 DEF Formed, DevicesTyped
<1>5. Emptied
  <2>1. Drained
    BY <1>0, <1>1 DEF Drained
  <2> QED BY <1>0, <2>1, DrainedEmpties
<1>6. ASSUME NEW d \in EndDevice
      PROVE  NothingComes(d) /\ OldRequests(d) /\ FewerEntries(d)
  <2>1. OldRequests(d) /\ \A n \in Device : Inbox(n)' \subseteq Inbox(n)
    BY <1>5, EmptiedKeeps
  <2>2. NothingComes(d)
    BY <1>1, <2>1, NothingCame
  <2>3. FewerEntries(d)
    BY <1>3 DEF FewerEntries
  <2> QED BY <2>1, <2>2, <2>3
<1>7. ASSUME NEW d \in EndDevice, est'[d] = est[d], myIndex'[d] = myIndex[d]
      PROVE  IndexTold(d)'
  <2>1. Answered(d)' => Answered(d) /\ myIndex'[d] = myIndex[d]
    BY <1>7 DEF Answered
  <2> QED BY <1>6, <2>1, SteadyKeeps DEF Steady, Indexed
<1>8. ASSUME myIndex'[e] = f.index
      PROVE  IndexTold(e)'
  <2>1. IndexTold(e) /\ FewerEntries(e) /\ OldRequests(e) /\ NothingComes(e)
    BY <1>6 DEF Indexed
  <2>2. ~ Asked(e)'
    BY <1>2, <2>1 DEF IndexTold, NothingComes
  <2>3. \A g \in Replies(e)' : Points(table', e, g.index)
    BY <2>1, FewerPoints DEF IndexTold, NothingComes
  <2>4. Points(table', e, myIndex'[e])
    BY <1>2, <1>8, <2>1, FewerPoints DEF IndexTold
  <2>5. AskedOnce(e)'
    BY <2>1, OldAskedOnce DEF IndexTold
  <2>6. Points(table, e, myIndex[e])' /\ \A g \in Replies(e)' : Points(table, e, g.index)'
    BY <2>3, <2>4 DEF Points
  <2> QED BY <2>2, <2>5, <2>6 DEF IndexTold
<1>9. TablesDistinct'
  BY <1>3 DEF Indexed, TablesDistinct, Distinct
<1> QED BY <1>4, <1>7, <1>8, <1>9 DEF Indexed

LEMMA InitIndexed == Init => Indexed
<1> SUFFICES ASSUME Init  PROVE Indexed
  OBVIOUS
<1>1. \A c \in Coordinator : /\ \A i \in Slot : ~ table[c].valid[i]
                             /\ txq[c] = <<>> /\ \A b \in Bank : rx[c][b] = NoFrame
  BY StarAssumption DEF Init, RadioInit, EmptyTable
<1>2. ASSUME NEW e \in EndDevice
      PROVE  IndexTold(e)
  <2>1. Request(e) # NoFrame
    BY DEF Request, NoFrame
  <2>2. ~ Asked(e) /\ AskedOnce(e)
    BY <1>1, <2>1 DEF Asked, Inbox, AskedOnce
  <2>3. \A k : Points(table, e, k)
    BY <1>1 DEF Points, Entry
  <2> QED BY <2>2, <2>3 DEF IndexTold
<1>3. TablesDistinct
  BY <1>1 DEF TablesDistinct, Distinct
<1> QED BY <1>2, <1>3 DEF Indexed

LEMMA NextIndexed ==
  ASSUME Patient, OneCoordinator, StarInv, Indexed, [Next]_vars
  PROVE  Indexed'
<1>0. Again = {FALSE} /\ HasMemory = {TRUE} /\ Formed
  BY DEF Patient, Again, HasMemory, StarInv
<1>1. ASSUME NEW n \in Device, Transmission(n)
      PROVE  Indexed'
  BY <1>1, TransmissionIndexed
<1>2. ASSUME NEW n \in Device, Report(n) \/ PowerCycle(n)
      PROVE  Indexed'
  BY <1>0, <1>2, ReportIsMild, PowerCycleIsMild, MildIndexed
<1>3. ASSUME NEW n \in Device, Parse(n)
      PROVE  Indexed'
  <2>1. CASE n \in EndDevice /\ ReceiveResponse(n)
    BY <2>1, ReceiveResponseIndexed
  <2>2. CASE n \in Coordinator /\ \E m \in HasMemory : ReceiveRequest(n, m)
    BY <2>2, ReceiveRequestIndexed
  <2> QED BY <1>0, <1>3, <2>1, <2>2, ParseIsMild, MildIndexed
<1>4. CASE \/ \E n \in Device, i \in Slot, m \in HasMemory : RemoveConnection(n, i, m)
           \/ \E c \in Coordinator, m \in HasMemory : ShareInterval(c, m)
           \/ \E c \in Coordinator : FindInActiveDevices(c)
           \/ \E e \in EndDevice, m \in HasMemory : LinkStatusInterval(e, m)
           \/ UNCHANGED vars
  BY <1>0, <1>4, RestIsMild, MildIndexed
<1>5. ASSUME NEW e \in EndDevice, EstablishConnection(e)
      PROVE  Indexed'
  BY <1>0, <1>5, EstablishIsMild, MildIndexed
<1>6. ASSUME NEW e \in EndDevice, NEW a \in Again, NEW m \in HasMemory, ConnectionInterval(e, a, m)
      PROVE  Indexed'
  <2>1. ConnectionInterval(e, FALSE, TRUE)
    BY <1>0, <1>6
  <2>2. Mild
    BY <1>0, <2>1, SendRequestIsMild DEF ConnectionInterval
  <2> QED BY <2>2, MildIndexed
<1> QED BY <1>1, <1>2, <1>3, <1>4, <1>5, <1>6 DEF Next

(* The index that a device in the network holds is the slot of its entry:  *)
(* the answer, the table and the removals agree.  Answers come within      *)
(* CONNECTION_INTERVAL, and there is one coordinator: with two of them a   *)
(* device keeps the index of the one whose answer it heard last.           *)
THEOREM StarIndex ==
  ASSUME Patient, Timely, OneCoordinator
  PROVE  Spec => []IndexAgrees
<1>1. StarInv /\ Indexed => IndexAgrees
  BY DEF Indexed, IndexTold, Points, Entry, IndexAgrees
<1>2. Init => Indexed
  BY InitIndexed
<1>3. StarInv /\ Indexed /\ [Next]_vars => Indexed'
  BY NextIndexed
<1> QED BY <1>1, <1>2, <1>3, StarInTime, PTL DEF Spec

----------------------------------------------------------------------------
(* Joining implements Membership.                                          *)

(* What the abstract variables are made of.                                *)
LEMMA MembersKept ==
  ASSUME \A e \in EndDevice : /\ est'[e].callback = est[e].callback
                              /\ est'[e].backup = est[e].backup
                              /\ state'[e] = state[e]
  PROVE  Asking' = Asking /\ Inside' = Inside /\ Before' = Before
BY DEF Asking, Inside, Before

LEMMA KnownShrinks ==
  ASSUME \A c \in Coordinator, d \in EndDevice :
            HoldsValid(table'[c], d) # {} => HoldsValid(table[c], d) # {}
  PROVE  KnownDevices' \subseteq KnownDevices
<1>1. \A d \in EndDevice : Known(d)' <=> \E c \in Coordinator : HoldsValid(table'[c], d) # {}
  BY DEF Known, HoldsValid
<1> QED BY <1>1 DEF KnownDevices, Known

LEMMA KnownKept ==
  ASSUME \A c \in Coordinator : table'[c] = table[c]
  PROVE  KnownDevices' = KnownDevices
<1>1. \A d \in EndDevice : Known(d)' <=> \E c \in Coordinator : HoldsValid(table'[c], d) # {}
  BY DEF Known, HoldsValid
<1> QED BY <1>1 DEF KnownDevices, Known

(* A step that at most ends memberships.                                   *)
LEMMA ExpelMaps ==
  ASSUME Asking' = Asking, Inside' = Inside, Before' = Before, granted' = granted,
         KnownDevices' \subseteq KnownDevices
  PROVE  [Abstract!Next]_(Abstract!mvars)
<1>1. CASE KnownDevices' = KnownDevices
  BY <1>1 DEF Abstract!mvars
<1>2. CASE KnownDevices' # KnownDevices
  <2> DEFINE S == KnownDevices \ KnownDevices'
  <2>1. S # {} /\ S \subseteq KnownDevices /\ S \in SUBSET EndDevice
    BY <1>2 DEF KnownDevices
  <2>2. KnownDevices' = KnownDevices \ S
    OBVIOUS
  <2> HIDE DEF S
  <2>3. Abstract!Expel(S)
    BY <2>1, <2>2 DEF Abstract!Expel
  <2> QED BY <2>1, <2>3 DEF Abstract!Next
<1> QED BY <1>1, <1>2

(* The table of one board loses entries.                                   *)
LEMMA RemovalMaps ==
  ASSUME Formed, NEW n \in Device, NEW u,
         \A d : HoldsValid(u, d) # {} => HoldsValid(table[n], d) # {},
         table' = table \/ table' = [table EXCEPT ![n] = u],
         UNCHANGED <<state, est, granted>>
  PROVE  [Abstract!Next]_(Abstract!mvars)
<1>1. \A c \in Device : table'[c] = table[c] \/ (c = n /\ table'[c] = u)
  BY DEF Formed, TablesGood
<1>2. \A c \in Coordinator, d \in EndDevice :
        HoldsValid(table'[c], d) # {} => HoldsValid(table[c], d) # {}
  BY <1>1, StarAssumption
<1>3. KnownDevices' \subseteq KnownDevices
  BY <1>2, KnownShrinks
<1>4. Asking' = Asking /\ Inside' = Inside /\ Before' = Before
  BY MembersKept
<1> QED BY <1>3, <1>4, ExpelMaps

LEMMA ShrunkMaps ==
  ASSUME Formed, NEW n \in Device, NEW u, Shrunk(table[n], u),
         table' = table \/ table' = [table EXCEPT ![n] = u],
         UNCHANGED <<state, est, granted>>
  PROVE  [Abstract!Next]_(Abstract!mvars)
<1>1. \A d : HoldsValid(u, d) # {} => HoldsValid(table[n], d) # {}
  BY DEF HoldsValid, Shrunk
<1> QED BY <1>1, RemovalMaps

(* An end device learns that it is out.                                    *)
LEMMA LostMaps ==
  ASSUME Formed, NEW e \in EndDevice, UNCHANGED <<table, est, granted>>,
         state' = [state EXCEPT ![e] = "DISCONNECTED"]
  PROVE  [Abstract!Next]_(Abstract!mvars)
<1>1. \A d \in EndDevice : state'[d] = IF d = e THEN "DISCONNECTED" ELSE state[d]
  BY DEF Formed, DevicesTyped
<1>2. KnownDevices' = KnownDevices
  BY KnownKept
<1>3. Asking' = Asking /\ Before' = Before
  BY DEF Asking, Before
<1>4. Inside' = Inside \ {e}
  BY <1>1 DEF Inside
<1>5. CASE e \in Inside
  <2>1. Abstract!Learn(e)
    BY <1>2, <1>3, <1>4, <1>5 DEF Abstract!Learn
  <2> QED BY <2>1 DEF Abstract!Next
<1>6. CASE e \notin Inside
  <2>1. Inside' = Inside
    BY <1>4, <1>6
  <2> QED BY <1>2, <1>3, <2>1, ExpelMaps
<1> QED BY <1>5, <1>6

LEMMA EstablishMaps ==
  ASSUME Formed, NEW e \in EndDevice, EstablishConnection(e)
  PROVE  [Abstract!Next]_(Abstract!mvars)
<1>1. /\ ~ est[e].callback
      /\ est' = [est EXCEPT ![e] = Procedure(e, state[e])]
      /\ state' = [state EXCEPT ![e] = "ESTABLISHING_NETWORK"]
      /\ granted' = granted \ {e}
      /\ UNCHANGED table
  BY DEF EstablishConnection
<1>2. /\ est'[e].callback = TRUE /\ est'[e].backup = state[e]
      /\ state'[e] = "ESTABLISHING_NETWORK"
      /\ \A d \in EndDevice : d # e => est'[d] = est[d] /\ state'[d] = state[d]
  BY <1>1 DEF Formed, DevicesTyped, Procedure
<1>3. KnownDevices' = KnownDevices
  BY <1>1, KnownKept
<1>4. e \notin Asking /\ Asking' = Asking \union {e}
  BY <1>1, <1>2 DEF Asking
<1>5. Inside' = Inside \ {e}
  BY <1>2 DEF Inside
<1>6. Before' = IF e \in Inside THEN Before \union {e} ELSE Before \ {e}
  <2>1. CASE state[e] = "IN_NETWORK_STATE"
    BY <1>2, <2>1 DEF Before, Inside
  <2>2. CASE state[e] # "IN_NETWORK_STATE"
    BY <1>2, <2>2 DEF Before, Inside
  <2> QED BY <2>1, <2>2
<1>7. Abstract!Ask(e)
  BY <1>1, <1>3, <1>4, <1>5, <1>6 DEF Abstract!Ask
<1> QED BY <1>7 DEF Abstract!Next

(* Another request, or the confirmation: the device enters or gives up.    *)
LEMMA SendRequestMaps ==
  ASSUME Formed, NEW e \in EndDevice, NEW r \in 0 .. RetryModulus - 1,
         SendConnectionRequest(e, r, FALSE, TRUE),
         est[e].callback, Granted(e), UNCHANGED table
  PROVE  [Abstract!Next]_(Abstract!mvars)
<1>1. KnownDevices' = KnownDevices /\ granted' = granted
  BY KnownKept, SendRequestOthers
<1>2. \A d \in EndDevice : d # e => est'[d] = est[d] /\ state'[d] = state[d]
  BY SendRequestOthers
<1>3. est[e] \in EstType
  BY DEF Formed, DevicesTyped
<1>4. CASE est'[e] = [est[e] EXCEPT !.retries = r] /\ state' = state
  <2>1. est'[e].callback = est[e].callback /\ est'[e].backup = est[e].backup
    BY <1>3, <1>4 DEF EstType
  <2>2. Asking' = Asking /\ Inside' = Inside /\ Before' = Before
    BY <1>2, <1>4, <2>1, MembersKept
  <2> QED BY <1>1, <2>2, ExpelMaps
<1>5. CASE /\ est'[e] = [est[e] EXCEPT !.retries = r, !.callback = FALSE]
           /\ state'[e] = Outcome(e)
  <2>1. est'[e].callback = FALSE /\ est'[e].backup = est[e].backup
    BY <1>3, <1>5 DEF EstType
  <2>2. e \in Asking /\ Asking' = Asking \ {e}
    BY <1>2, <2>1 DEF Asking
  <2>3. Before' = Before
    BY <1>2, <2>1 DEF Before
  <2>4. CASE Answered(e)
    <3>1. Inside' = Inside \union {e}
      BY <1>2, <1>5, <2>4 DEF Inside, Outcome
    <3>2. e \in granted
      BY <2>4 DEF Granted
    <3>3. Abstract!Enter(e)
      BY <1>1, <2>2, <2>3, <3>1, <3>2 DEF Abstract!Enter
    <3> QED BY <3>3 DEF Abstract!Next
  <2>5. CASE ~ Answered(e)
    <3>1. state'[e] = est[e].backup
      BY <1>5, <2>5 DEF Outcome
    <3>2. Inside' = IF e \in Before THEN Inside \union {e} ELSE Inside \ {e}
      <4>1. CASE e \in Before
        BY <1>2, <3>1, <4>1 DEF Inside, Before
      <4>2. CASE e \notin Before
        BY <1>2, <3>1, <4>2 DEF Inside, Before
      <4> QED BY <4>1, <4>2
    <3>3. Abstract!GiveUp(e)
      BY <1>1, <2>2, <2>3, <3>2 DEF Abstract!GiveUp
    <3> QED BY <3>3 DEF Abstract!Next
  <2> QED BY <2>4, <2>5
<1> QED BY <1>4, <1>5, SendRequestOthers

LEMMA RequestSentMaps ==
  ASSUME Formed, NEW e \in EndDevice, RequestSent(e)
  PROVE  [Abstract!Next]_(Abstract!mvars)
<1>1. /\ est' = [est EXCEPT ![e].retries = Dec(est[e].retries)]
      /\ UNCHANGED <<table, state, granted>>
  BY DEF RequestSent
<1>2. est \in [EndDevice -> EstType]
  BY DEF Formed, DevicesTyped
<1>3. \A d \in EndDevice : /\ est'[d].callback = est[d].callback
                           /\ est'[d].backup = est[d].backup
  BY <1>1, <1>2 DEF EstType
<1>4. Asking' = Asking /\ Inside' = Inside /\ Before' = Before
  BY <1>1, <1>3, MembersKept
<1> QED BY <1>1, <1>4, KnownKept, ExpelMaps

LEMMA ReceiveResponseMaps ==
  ASSUME Formed, NEW e \in EndDevice, ReceiveResponse(e)
  PROVE  [Abstract!Next]_(Abstract!mvars)
<1>1. /\ \/ UNCHANGED est
         \/ \E st : est' = [est EXCEPT ![e].retries = 0, ![e].status = st]
      /\ table' = table \/ \E u : table' = [table EXCEPT ![e] = u]
      /\ UNCHANGED <<state, granted>>
  BY DEF ReceiveResponse
<1>2. est \in [EndDevice -> EstType]
  BY DEF Formed, DevicesTyped
<1>3. \A d \in EndDevice : /\ est'[d].callback = est[d].callback
                           /\ est'[d].backup = est[d].backup
  BY <1>1, <1>2 DEF EstType
<1>4. Asking' = Asking /\ Inside' = Inside /\ Before' = Before
  BY <1>1, <1>3, MembersKept
<1>5. \A c \in Coordinator : table'[c] = table[c]
  BY <1>1, StarAssumption DEF Formed, TablesGood, EndDevice
<1> QED BY <1>1, <1>4, <1>5, KnownKept, ExpelMaps

LEMMA ReceiveRequestMaps ==
  ASSUME StarInv, NEW c \in Coordinator, NEW m \in HasMemory, ReceiveRequest(c, m)
  PROVE  [Abstract!Next]_(Abstract!mvars)
<1>0. c \in Device /\ m \in BOOLEAN /\ Formed
  BY StarAssumption, HasMemoryType DEF StarInv
<1>1. PICK e \in EndDevice, f \in Frame :
        /\ Received(c) = Request(e) /\ Request(e) \in Inbox(c)
        /\ f.src = c /\ f.type = "CONNECTION_RESPONSE" /\ f.dst = e
        /\ f.status = AddStatus(table[c], e)
        /\ f.index = Marked(Added(table[c], e, FALSE), e).myIndex
        /\ Queue(c, f, m)
        /\ table' = [table EXCEPT ![c] = Marked(Added(table[c], e, FALSE), e)]
        /\ granted' = IF f.status = "STATUS_NOT_ENOUGH_SPACE" THEN granted
                      ELSE granted \union {e}
  BY <1>0, RequestAnswered
<1> DEFINE t == table[c]
           a == Added(t, e, FALSE)
           u == Marked(a, e)
<1>2. UNCHANGED <<est, state>>
  BY DEF ReceiveRequest, device
<1>3. Asking' = Asking /\ Inside' = Inside /\ Before' = Before
  BY <1>2, MembersKept
<1>4. e \in Asking
  <2>1. Asked(e) /\ CarriedOnce(e) /\ InTime(e)
    BY <1>1 DEF Asked, StarInv, Carried, AnswersInTime
  <2>2. connTimer[e] \/ Sending(e)
    BY <2>1 DEF InTime, QuietOtherwise, Sending
  <2> QED BY <2>1, <2>2 DEF CarriedOnce, Asking
<1>5. t \in Table /\ e \in Device
  BY <1>0 DEF Formed, TablesGood, EndDevice
<1>6. \A k \in Coordinator : table'[k] = IF k = c THEN u ELSE table[k]
  BY <1>0, <1>1, StarAssumption DEF Formed, TablesGood
<1> HIDE DEF t
<1>7. /\ a \in Table
      /\ \A i \in Slot : t.valid[i] => a.valid[i] /\ a.addr[i] = t.addr[i]
      /\ \A i \in Slot : a.valid[i] => \/ a.addr[i] = e
                                       \/ t.valid[i] /\ a.addr[i] = t.addr[i]
  BY <1>5, AddedKeeps
<1>8. /\ AddStatus(t, e) = "STATUS_NOT_ENOUGH_SPACE" => a = t
      /\ AddStatus(t, e) # "STATUS_NOT_ENOUGH_SPACE" => HoldsValid(a, e) # {}
  BY <1>5, StatusTells
<1> HIDE DEF a
<1>9. u.addr = a.addr /\ u.valid = a.valid
  BY <1>5, <1>7, MarkedFields
<1> HIDE DEF u
<1>10. \A d : HoldsValid(u, d) = HoldsValid(a, d)
  BY <1>9 DEF HoldsValid
<1>11. \A d \in EndDevice : Known(d)' <=> \E k \in Coordinator : HoldsValid(table'[k], d) # {}
  BY DEF Known, HoldsValid
<1>12. CASE f.status = "STATUS_NOT_ENOUGH_SPACE"
  <2>1. a = t /\ granted' = granted
    BY <1>1, <1>8, <1>12 DEF t
  <2>2. \A k \in Coordinator, d \in EndDevice :
          HoldsValid(table'[k], d) # {} => HoldsValid(table[k], d) # {}
    BY <1>6, <1>10, <2>1 DEF t
  <2> QED BY <1>3, <2>1, <2>2, KnownShrinks, ExpelMaps
<1>13. CASE f.status # "STATUS_NOT_ENOUGH_SPACE"
  <2>1. HoldsValid(u, e) # {} /\ granted' = granted \union {e}
    BY <1>1, <1>8, <1>10, <1>13 DEF t
  <2>2. \A d : d # e => HoldsValid(a, d) = HoldsValid(t, d)
    BY <1>7 DEF HoldsValid
  <2>3. \A d \in EndDevice : d # e => (Known(d)' <=> Known(d))
    BY <1>6, <1>10, <1>11, <2>2 DEF Known, t
  <2>4. Known(e)'
    BY <1>6, <1>11, <2>1
  <2>5. KnownDevices' = KnownDevices \union {e}
    BY <2>3, <2>4 DEF KnownDevices
  <2>6. Abstract!Accept(e)
    BY <1>3, <1>4, <2>1, <2>5 DEF Abstract!Accept
  <2> QED BY <2>6 DEF Abstract!Next
<1> QED BY <1>12, <1>13

LEMMA PowerCycleMaps ==
  ASSUME Formed, NEW n \in Device, PowerCycle(n)
  PROVE  [Abstract!Next]_(Abstract!mvars)
<1>1. table' = [table EXCEPT ![n] = EmptyTable]
  BY DEF PowerCycle
<1>2. CASE n \in Coordinator
  <2>1. UNCHANGED <<state, est, granted>>
    BY <1>2 DEF PowerCycle, device
  <2>2. \A d : HoldsValid(EmptyTable, d) = {}
    BY DEF HoldsValid, EmptyTable
  <2> QED BY <1>1, <2>1, <2>2, RemovalMaps
<1>3. CASE n \in EndDevice
  <2>1. /\ state' = [state EXCEPT ![n] = "INIT_STATE"]
        /\ est' = [est EXCEPT ![n] = NoProcedure]
        /\ granted' = granted \ {n}
    BY <1>3 DEF PowerCycle, EndDevice
  <2>2. /\ state'[n] = "INIT_STATE" /\ est'[n] = NoProcedure
        /\ \A d \in EndDevice : d # n => est'[d] = est[d] /\ state'[d] = state[d]
    BY <1>3, <2>1 DEF Formed, DevicesTyped
  <2>3. est'[n].callback = FALSE /\ est'[n].backup = "INIT_STATE"
    BY <2>2 DEF NoProcedure
  <2>4. \A c \in Coordinator : table'[c] = table[c]
    BY <1>1, <1>3, StarAssumption DEF Formed, TablesGood, EndDevice
  <2>5. KnownDevices' = KnownDevices
    BY <2>4, KnownKept
  <2>6. Asking' = Asking \ {n} /\ Inside' = Inside \ {n} /\ Before' = Before \ {n}
    BY <2>2, <2>3 DEF Asking, Inside, Before
  <2>7. Abstract!Forget(n)
    BY <2>1, <2>5, <2>6 DEF Abstract!Forget
  <2> QED BY <1>3, <2>7 DEF Abstract!Next
<1> QED BY <1>2, <1>3 DEF EndDevice

(* A step that leaves everything that Membership sees alone.               *)
LEMMA StutterMaps ==
  ASSUME UNCHANGED <<table, state, est, granted>>
  PROVE  [Abstract!Next]_(Abstract!mvars)
<1>1. Asking' = Asking /\ Inside' = Inside /\ Before' = Before
  BY MembersKept
<1> QED BY <1>1, KnownKept, ExpelMaps

LEMMA ReportMaps ==
  ASSUME Patient, StarInv, NEW n \in Device, Report(n)
  PROVE  [Abstract!Next]_(Abstract!mvars)
<1>0. Again = {FALSE} /\ HasMemory = {TRUE} /\ Formed
  BY DEF Patient, Again, HasMemory, StarInv
<1>1. CASE CommandSent(n)
  BY <1>1, StutterMaps DEF CommandSent, device
<1>2. CASE n \in Coordinator /\ \E m \in HasMemory : ResponseSent(n, m)
  BY <1>2, StutterMaps DEF ResponseSent, device
<1>3. CASE n \in EndDevice /\ RequestSent(n)
  BY <1>0, <1>3, RequestSentMaps
<1>4. CASE n \in EndDevice /\ RequestFailed(n, FALSE, TRUE)
  <2>1. /\ Sending(n) /\ SendConnectionRequest(n, Dec(est[n].retries), FALSE, TRUE)
        /\ UNCHANGED table
    BY <1>4 DEF RequestFailed, Sending
  <2>2. est[n].callback /\ Granted(n)
    BY <1>4, <2>1 DEF StarInv, Carried, CarriedOnce, AnswersInTime, InTime
  <2>3. Dec(est[n].retries) \in 0 .. RetryModulus - 1
    <3>1. est[n].retries \in 0 .. RetryModulus - 1
      BY <1>0, <1>4 DEF Formed, DevicesTyped, EstType
    <3> QED BY <3>1, DecTyped
  <2> QED BY <1>0, <1>4, <2>1, <2>2, <2>3, SendRequestMaps
<1>5. CASE n \in EndDevice /\ AliveSent(n, FALSE, TRUE)
  <2>1. UNCHANGED <<table, est, granted>>
    BY <1>5 DEF AliveSent, Lost
  <2>2. UNCHANGED state \/ state' = [state EXCEPT ![n] = "DISCONNECTED"]
    BY <1>5 DEF AliveSent, Lost
  <2> QED BY <1>0, <1>5, <2>1, <2>2, StutterMaps, LostMaps
<1> QED BY <1>0, <1>1, <1>2, <1>3, <1>4, <1>5 DEF Report

LEMMA ParseMaps ==
  ASSUME Patient, StarInv, NEW n \in Device, Parse(n)
  PROVE  [Abstract!Next]_(Abstract!mvars)
<1>0. Again = {FALSE} /\ HasMemory = {TRUE} /\ Formed /\ table[n] \in Table
  BY DEF Patient, Again, HasMemory, StarInv, Formed, TablesGood
<1>1. CASE Ignore(n)
  BY <1>1, StutterMaps DEF Ignore, device
<1>2. CASE \E m \in HasMemory : ReceiveRemovalRequest(n, m)
  <2>1. /\ UNCHANGED <<state, est, granted>>
        /\ \/ table' = table
           \/ table' = [table EXCEPT ![n] = RemovedDevice(table[n], Received(n).src)]
    BY <1>2 DEF ReceiveRemovalRequest, device
  <2> QED BY <1>0, <2>1, RemovedDeviceShrinks, ShrunkMaps
<1>3. CASE ReceiveRemovalResponse(n)
  <2>1. /\ UNCHANGED <<state, est, granted>>
        /\ \/ table' = table
           \/ table' = [table EXCEPT ![n] = RemovedDevice(table[n], Received(n).src)]
    BY <1>3 DEF ReceiveRemovalResponse, device
  <2> QED BY <1>0, <2>1, RemovedDeviceShrinks, ShrunkMaps
<1>4. CASE n \in Coordinator /\ \E m \in HasMemory : ReceiveRequest(n, m)
  BY <1>4, ReceiveRequestMaps
<1>5. CASE n \in Coordinator /\ ReceiveAlive(n)
  <2>1. /\ UNCHANGED <<state, est, granted>>
        /\ table' = [table EXCEPT ![n] = Alive(table[n], Received(n).src)]
    BY <1>5 DEF ReceiveAlive, device
  <2> QED BY <1>0, <2>1, AliveShrinks, ShrunkMaps
<1>6. CASE n \in EndDevice /\ ReceiveResponse(n)
  BY <1>0, <1>6, ReceiveResponseMaps
<1>7. CASE n \in EndDevice /\ ReceiveShare(n, FALSE, TRUE)
  <2>1. UNCHANGED <<table, est, granted>>
    BY <1>7 DEF ReceiveShare, Lost
  <2>2. UNCHANGED state \/ state' = [state EXCEPT ![n] = "DISCONNECTED"]
    BY <1>7 DEF ReceiveShare, Lost
  <2> QED BY <1>0, <1>7, <2>1, <2>2, StutterMaps, LostMaps
<1> QED BY <1>0, <1>1, <1>2, <1>3, <1>4, <1>5, <1>6, <1>7 DEF Parse

LEMMA StepMaps ==
  ASSUME Patient, StarInv, [Next]_vars
  PROVE  [Abstract!Next]_(Abstract!mvars)
<1>0. Again = {FALSE} /\ HasMemory = {TRUE} /\ Formed
  BY DEF Patient, Again, HasMemory, StarInv
<1>1. ASSUME NEW n \in Device, Transmission(n)
      PROVE  [Abstract!Next]_(Abstract!mvars)
  BY <1>1, StutterMaps DEF Transmission, device
<1>2. ASSUME NEW n \in Device, Report(n) \/ Parse(n) \/ PowerCycle(n)
      PROVE  [Abstract!Next]_(Abstract!mvars)
  BY <1>0, <1>2, ReportMaps, ParseMaps, PowerCycleMaps
<1>3. ASSUME NEW n \in Device, NEW i \in Slot, RemoveConnection(n, i, TRUE)
      PROVE  [Abstract!Next]_(Abstract!mvars)
  <2>1. /\ UNCHANGED <<state, est, granted>>
        /\ table' = [table EXCEPT ![n] = Removed(table[n], i)]
    BY <1>3 DEF RemoveConnection, device
  <2>2. table[n] \in Table
    BY <1>0 DEF Formed, TablesGood
  <2> QED BY <1>0, <2>1, <2>2, RemovedShrinks, ShrunkMaps
<1>4. ASSUME NEW c \in Coordinator, ShareInterval(c, TRUE)
      PROVE  [Abstract!Next]_(Abstract!mvars)
  BY <1>4, StutterMaps DEF ShareInterval, device
<1>5. ASSUME NEW c \in Coordinator, FindInActiveDevices(c)
      PROVE  [Abstract!Next]_(Abstract!mvars)
  <2>1. /\ UNCHANGED <<state, est, granted>>
        /\ table' = [table EXCEPT ![c] = InactiveRemoved(table[c])]
    BY <1>5 DEF FindInActiveDevices, device
  <2>2. table[c] \in Table /\ c \in Device
    BY <1>0, StarAssumption DEF Formed, TablesGood
  <2> QED BY <1>0, <2>1, <2>2, InactiveShrinks, ShrunkMaps
<1>6. ASSUME NEW e \in EndDevice, EstablishConnection(e)
      PROVE  [Abstract!Next]_(Abstract!mvars)
  BY <1>0, <1>6, EstablishMaps
<1>7. ASSUME NEW e \in EndDevice, LinkStatusInterval(e, TRUE)
      PROVE  [Abstract!Next]_(Abstract!mvars)
  BY <1>7, StutterMaps DEF LinkStatusInterval, device
<1>8. ASSUME NEW e \in EndDevice, ConnectionInterval(e, FALSE, TRUE)
      PROVE  [Abstract!Next]_(Abstract!mvars)
  <2>1. /\ connTimer[e] /\ SendConnectionRequest(e, est[e].retries, FALSE, TRUE)
        /\ UNCHANGED table
    BY <1>8 DEF ConnectionInterval
  <2>2. est[e].callback /\ Granted(e)
    BY <2>1 DEF StarInv, Carried, CarriedOnce, AnswersInTime, InTime
  <2>3. est[e].retries \in 0 .. RetryModulus - 1
    BY <1>0 DEF Formed, DevicesTyped, EstType
  <2> QED BY <1>0, <2>1, <2>2, <2>3, SendRequestMaps
<1>9. CASE UNCHANGED vars
  BY <1>9, StutterMaps DEF vars, device
<1> QED BY <1>0, <1>1, <1>2, <1>3, <1>4, <1>5, <1>6, <1>7, <1>8, <1>9 DEF Next

LEMMA InitMaps == Init => Abstract!Init
<1> SUFFICES ASSUME Init PROVE Abstract!Init
  OBVIOUS
<1>1. /\ table = [n \in Device |-> EmptyTable]
      /\ state = [e \in EndDevice |-> "INIT_STATE"]
      /\ est = [e \in EndDevice |-> NoProcedure]
      /\ granted = {}
  BY DEF Init
<1>2. Asking = {} /\ Inside = {} /\ Before = {}
  BY <1>1 DEF Asking, Inside, Before, NoProcedure
<1>3. \A c \in Coordinator, d \in EndDevice : HoldsValid(table[c], d) = {}
  BY <1>1, StarAssumption DEF HoldsValid, EmptyTable
<1>4. KnownDevices = {}
  BY <1>3 DEF KnownDevices, Known
<1> QED BY <1>1, <1>2, <1>4 DEF Abstract!Init

(* Joining, by frames that are lost, retries, late tables and power cycles,*)
(* implements Membership: only a device that asked is taken up, and only   *)
(* one that was accepted in its own procedure comes to be in the network.  *)
THEOREM StarIsMembership == ASSUME Patient, Timely PROVE Spec => MembershipSpec
<1>1. StarInv /\ [Next]_vars => [Abstract!Next]_(Abstract!mvars)
  BY StepMaps
<1> QED BY <1>1, InitMaps, StarInTime, PTL DEF Spec, MembershipSpec, Abstract!Spec

============================================================================
