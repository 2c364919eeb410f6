-------------------------- MODULE DataPath_proofs ---------------------------
(***************************************************************************)
(* Proofs about the data path, for any number of boards, messages, buffers *)
(* and banks, and however early the time-outs.  Whenever there is memory   *)
(* for frames and commands, the frames that wait for the MAC and their     *)
(* entries stay in step, each buffer has one owner, and messages are       *)
(* confirmed once and never without the acknowledgement they need.         *)
(***************************************************************************)
EXTENDS DataPath, FiniteSetTheorems, FunctionTheorems, SequenceTheorems,
        WellFoundedInduction, TLAPS

Elements(q) == {q[k] : k \in DOMAIN q}

(* The line of every board.                                                *)
lines == [n \in Device |-> Line(n)]

----------------------------------------------------------------------------
(* What holds in any case.                                                 *)

(* A frame that board n has queued, and one that it has received.          *)
Own(n, f) ==
  /\ f.src = n
  /\ f.type = "FORWARD_PACKET" => /\ n = f.handle.src /\ Relayed(f.handle)
                                  /\ n = f.msg.src /\ f.dst = Coordinator
  /\ f.type = "DATA" => IF n = f.handle.src THEN ~ Relayed(f.handle)
                        ELSE n = Coordinator /\ Relayed(f.handle)
  /\ f.type = "DATA_TO_ENDDEV_SUCCESS" => n = Coordinator /\ f.dst # Coordinator

Heard(n, f) ==
  /\ f.type = "FORWARD_PACKET" => n = Coordinator /\ f.msg.src # Coordinator
  /\ f.type = "DATA_TO_ENDDEV_SUCCESS" => n = f.dst /\ n # Coordinator

(* What a frame carries out of a buffer was sent by someone.               *)
Taken(f, S) == f.type # "DATA_TO_ENDDEV_SUCCESS" => f.msg \in S

(* The message of an entry: the coordinator waits for the messages that it *)
(* relays, the others for their own.                                       *)
MacEntry(n, m) == m.src = n /\ ~ Awaited(m)
AckEntry(n, m) == IF n = Coordinator THEN Relayed(m) ELSE m.src = n /\ Awaited(m)

FramesFormed ==
  /\ \A n \in Device : \A f \in Elements(lines[n]) : Taken(f, sent) /\ Own(n, f)
  /\ \A n \in Device, b \in Bank :
       rx[n][b] = NoFrame \/ (Taken(rx[n][b], sent) /\ Heard(n, rx[n][b]))

EntriesFormed ==
  /\ \A n \in Device : \A m \in Messages(macQ[n]) : m \in sent /\ MacEntry(n, m)
  /\ \A n \in Device : \A m \in Messages(ackQ[n]) : m \in sent /\ AckEntry(n, m)
  /\ ~ timer[Coordinator]

Formed == TypeOK /\ FramesFormed /\ EntriesFormed

----------------------------------------------------------------------------
(* With memory for frames.                                                 *)

InStep == \A n \in Device : Matches(macQ[n], lines[n])

(* No two entries have a buffer in common.                                 *)
Apart(q) == \A j, k \in DOMAIN q : q[j].buf = q[k].buf => j = k

OwnedBy(H, p, q) ==
  /\ Apart(p) /\ Apart(q)
  /\ Bufs(p) \intersect Bufs(q) = {}
  /\ H = Bufs(p) \union Bufs(q)

(* No two entries are for the same message.                                *)
Distinct(q) == \A j, k \in DOMAIN q : q[j].msg = q[k].msg => j = k

(* A frame carries its own message, and an entry owns the buffer.          *)
Backed(f, q) == f.msg = f.handle /\ \E x \in Elements(q) : x.buf = f.buf /\ x.msg = f.handle

(* The frames of board n that wait for the application's own confirmation  *)
(* are backed, or were overtaken; at the coordinator they are backed and   *)
(* have a buffer each.                                                     *)
BackedLine(n) ==
  \A f \in Elements(lines[n]) :
    WaitsForApp(f) => Backed(f, ackQ[n]) \/ (n # Coordinator /\ Overtaken(f))

OneEach(line) ==
  \A j, k \in DOMAIN line :
    WaitsForApp(line[j]) /\ WaitsForApp(line[k]) /\ line[j].buf = line[k].buf => j = k

(* The frames that wait for the MAC carry their own messages.              *)
Faithful(n) == \A f \in Elements(lines[n]) : WaitsForMac(f) => f.msg = f.handle

Ownership ==
  /\ \A n \in Device : OwnedBy(held[n], macQ[n], ackQ[n]) /\ BackedLine(n) /\ Faithful(n)
  /\ OneEach(lines[Coordinator])

(* Who has an entry at its sender is not confirmed yet, and has only one.  *)
Unconfirmed ==
  /\ \A m \in Message : confirmed[m] # <<>> => m \in sent
  /\ \A n \in Device : Distinct(macQ[n])
  /\ \A n \in Device : \A m \in Messages(macQ[n]) : confirmed[m] = <<>>
  /\ \A n \in Device \ {Coordinator} :
       Distinct(ackQ[n]) /\ \A m \in Messages(ackQ[n]) : confirmed[m] = <<>>

(* The answers that are queued or received and not parsed: each reports an *)
(* acknowledgement that its addressee may still use, and no two the same.  *)
Answer(f) == f.type = "DATA_TO_ENDDEV_SUCCESS"
Reports(f, r, u) == f.place \in DOMAIN r /\ f.place \notin u /\ r[f.place] = f.dst

QueuedAnswers ==
  \A k \in DOMAIN txq[Coordinator] :
    LET f == txq[Coordinator][k]
    IN  Answer(f) => /\ Reports(f, relayed, used)
                     /\ \A j \in DOMAIN txq[Coordinator] :
                          Answer(txq[Coordinator][j]) /\ txq[Coordinator][j].place = f.place
                            => j = k
                     /\ \A n \in Device, b \in Bank :
                          Answer(rx[n][b]) => rx[n][b].place # f.place

HeardAnswers ==
  \A n \in Device, b \in Bank :
    LET f == rx[n][b]
    IN  Answer(f) => /\ Reports(f, relayed, used)
                     /\ \A i \in Device, a \in Bank :
                          Answer(rx[i][a]) /\ rx[i][a].place = f.place => i = n /\ a = b

Answers == used \subseteq DOMAIN relayed /\ QueuedAnswers /\ HeardAnswers

(* What the promise of MiApp_SendData rests on.                            *)
IInv == Formed /\ InStep /\ Ownership /\ Unconfirmed /\ Answers

----------------------------------------------------------------------------
(* Numbers and sequences.                                                  *)
Less == {ss \in Nat \X Nat : ss[1] < ss[2]}

LEMMA Smallest ==
  ASSUME NEW T, T \subseteq Nat, T # {}
  PROVE  \E x \in T : \A y \in T : x <= y
<1>1. IsWellFoundedOn(Less, Nat)
  BY NatLessThanWellFounded DEF OpToRel, Less
<1>2. PICK x \in T : \A y \in T : ~ (<<y, x>> \in Less)
  BY <1>1, WFMin
<1>3. \A y \in T : x <= y
  <2> SUFFICES ASSUME NEW y \in T, ~ (x <= y)  PROVE FALSE
    OBVIOUS
  <2>1. y < x /\ x \in Nat /\ y \in Nat
    OBVIOUS
  <2>2. <<y, x>> \in Less
    BY <2>1 DEF Less
  <2> QED
    BY <1>2, <2>2
<1> QED
  BY <1>3

LEMMA SetInduction ==
  ASSUME NEW S, 0 \in S, \A n \in Nat : n \in S => n + 1 \in S
  PROVE  Nat \subseteq S
<1> DEFINE T == Nat \ S
<1> SUFFICES ASSUME T # {} PROVE FALSE
  OBVIOUS
<1>1. PICK x \in T : \A y \in T : x <= y
  BY Smallest
<1>2. x \in Nat /\ x # 0 /\ x - 1 \in Nat /\ x - 1 \in S
  BY <1>1
<1>3. (x - 1) + 1 \in S
  BY <1>2
<1> QED
  BY <1>2, <1>3

(* How a sequence and what is left of it, or made of it, hang together.    *)
IsTail(t, q) ==
  /\ Len(q) \in Nat \ {0} /\ DOMAIN q = 1 .. Len(q)
  /\ Len(t) = Len(q) - 1 /\ DOMAIN t = 1 .. Len(q) - 1
  /\ \A k \in 1 .. Len(q) - 1 : t[k] = q[k + 1]

IsAppended(a, q, x) ==
  /\ Len(q) \in Nat /\ DOMAIN q = 1 .. Len(q)
  /\ Len(a) = Len(q) + 1 /\ DOMAIN a = 1 .. Len(q) + 1
  /\ \A k \in 1 .. Len(q) : a[k] = q[k]
  /\ a[Len(q) + 1] = x

LEMMA TailIs ==
  ASSUME NEW S, NEW q \in Seq(S), q # <<>>
  PROVE  /\ Tail(q) \in Seq(S) /\ IsTail(Tail(q), q)
         /\ Head(q) = q[1] /\ q[1] \in S
<1>1. /\ Tail(q) \in Seq(S)
      /\ Len(Tail(q)) = Len(q) - 1
      /\ \A k \in 1 .. Len(Tail(q)) : Tail(q)[k] = q[k + 1]
  BY HeadTailProperties
<1>2. /\ Len(q) \in Nat \ {0} /\ DOMAIN q = 1 .. Len(q)
      /\ DOMAIN Tail(q) = 1 .. Len(Tail(q))
  BY <1>1, LenProperties, EmptySeq
<1>3. Head(q) = q[1]
  OBVIOUS
<1>4. q[1] \in S
  BY <1>2, ElementOfSeq
<1> QED
  BY <1>1, <1>2, <1>3, <1>4 DEF IsTail

LEMMA AppendIs ==
  ASSUME NEW S, NEW q \in Seq(S), NEW x \in S
  PROVE  Append(q, x) \in Seq(S) /\ IsAppended(Append(q, x), q, x)
<1>1. /\ Append(q, x) \in Seq(S)
      /\ Len(Append(q, x)) = Len(q) + 1
      /\ \A k \in 1 .. Len(q) : Append(q, x)[k] = q[k]
      /\ Append(q, x)[Len(q) + 1] = x
  BY AppendProperties
<1>2. /\ Len(q) \in Nat /\ DOMAIN q = 1 .. Len(q)
      /\ DOMAIN Append(q, x) = 1 .. Len(Append(q, x))
  BY <1>1, LenProperties
<1> QED
  BY <1>1, <1>2 DEF IsAppended

LEMMA PrefixedIs ==
  ASSUME NEW S, NEW q \in Seq(S), NEW x \in S
  PROVE  LET p == <<x>> \o q
         IN  p \in Seq(S) /\ IsTail(q, p) /\ p[1] = x
<1> DEFINE p == <<x>> \o q
<1>1. <<x>> \in Seq(S) /\ Len(<<x>>) = 1 /\ <<x>>[1] = x
  OBVIOUS
<1>2. /\ p \in Seq(S) /\ Len(p) = 1 + Len(q)
      /\ \A i \in 1 .. 1 + Len(q) : p[i] = IF i <= 1 THEN <<x>>[i] ELSE q[i - 1]
  BY <1>1, ConcatProperties
<1>3. /\ Len(q) \in Nat /\ DOMAIN q = 1 .. Len(q)
      /\ DOMAIN p = 1 .. Len(p)
  BY <1>2, LenProperties
<1> HIDE DEF p
<1>4. p[1] = x
  BY <1>1, <1>2, <1>3
<1>5. \A k \in 1 .. Len(q) : q[k] = p[k + 1]
  <2> TAKE k \in 1 .. Len(q)
  <2>1. k + 1 \in 1 .. 1 + Len(q) /\ ~ (k + 1 <= 1) /\ (k + 1) - 1 = k
    BY <1>3
  <2> QED
    BY <1>2, <2>1
<1>6. IsTail(q, p)
  BY <1>2, <1>3, <1>5 DEF IsTail
<1> QED
  BY <1>2, <1>4, <1>6 DEF p

(* Where an element of the longer sequence is in the shorter one.          *)
LEMMA TailPlaces ==
  ASSUME NEW t, NEW q, IsTail(t, q)
  PROVE  /\ 1 \in DOMAIN q
         /\ \A k \in DOMAIN t : k + 1 \in DOMAIN q /\ k + 1 # 1 /\ t[k] = q[k + 1]
         /\ \A k \in DOMAIN q : k = 1 \/ (k - 1 \in DOMAIN t /\ q[k] = t[k - 1])
         /\ Elements(q) = Elements(t) \union {q[1]}
<1> DEFINE L == Len(q)
<1>1. /\ L \in Nat \ {0} /\ DOMAIN q = 1 .. L /\ DOMAIN t = 1 .. L - 1
      /\ \A k \in 1 .. L - 1 : t[k] = q[k + 1]
  BY DEF IsTail
<1> HIDE DEF L
<1>2. 1 \in DOMAIN q /\ \A k \in DOMAIN t : k + 1 \in DOMAIN q /\ k + 1 # 1
  BY <1>1
<1>3. \A k \in DOMAIN q : k = 1 \/ (k - 1 \in DOMAIN t /\ (k - 1) + 1 = k)
  BY <1>1
<1>4. \A k \in DOMAIN q : k = 1 \/ (k - 1 \in DOMAIN t /\ q[k] = t[k - 1])
  <2> TAKE k \in DOMAIN q
  <2>1. CASE k - 1 \in DOMAIN t /\ (k - 1) + 1 = k
    BY <1>1, <2>1
  <2> QED
    BY <1>3, <2>1
<1>5. Elements(q) \subseteq Elements(t) \union {q[1]}
  BY <1>4 DEF Elements
<1>6. Elements(t) \union {q[1]} \subseteq Elements(q)
  BY <1>1, <1>2 DEF Elements
<1> QED
  BY <1>1, <1>2, <1>4, <1>5, <1>6

LEMMA AppendedPlaces ==
  ASSUME NEW a, NEW q, NEW x, IsAppended(a, q, x)
  PROVE  /\ Len(q) + 1 \in DOMAIN a /\ a[Len(q) + 1] = x
         /\ \A k \in DOMAIN q : k \in DOMAIN a /\ k < Len(q) + 1 /\ a[k] = q[k]
         /\ \A k \in DOMAIN a : k \in DOMAIN q \/ k = Len(q) + 1
         /\ Elements(a) = Elements(q) \union {x}
<1> DEFINE L == Len(q)
<1>1. /\ L \in Nat /\ DOMAIN q = 1 .. L /\ DOMAIN a = 1 .. L + 1
      /\ \A k \in 1 .. L : a[k] = q[k]
      /\ a[L + 1] = x
  BY DEF IsAppended
<1> HIDE DEF L
<1>2. /\ L + 1 \in DOMAIN a
      /\ \A k \in DOMAIN q : k \in DOMAIN a /\ k < L + 1
      /\ \A k \in DOMAIN a : k \in DOMAIN q \/ k = L + 1
  BY <1>1
<1>3. Elements(a) = Elements(q) \union {x}
  BY <1>1, <1>2 DEF Elements
<1> QED
  BY <1>1, <1>2, <1>3 DEF L

----------------------------------------------------------------------------
(* The loop over appAckWaitDataQueue.                                      *)

KeepsOwner(kept) ==
  /\ kept \in [Entries -> Entries]
  /\ \A x \in Entries : kept[x].buf = x.buf /\ kept[x].msg = x.msg

(* What it makes of q: no entry is invented or doubled, and none is lost   *)
(* that is not done with.                                                  *)
Derived(p, q, done, kept) ==
  /\ p \in Seq(Entries) /\ Len(p) <= Len(q)
  /\ \A y \in Elements(p) : \E x \in Elements(q) : y.buf = x.buf /\ y.msg = x.msg
  /\ (Apart(q) => Apart(p)) /\ (Distinct(q) => Distinct(p))
  /\ kept = Unchanged => \A x \in Elements(q) : x \in done \/ x \in Elements(p)

LEMMA ApartTail ==
  ASSUME NEW t, NEW q, IsTail(t, q), Apart(q)
  PROVE  Apart(t) /\ q[1].buf \notin Bufs(t)
<1>1. /\ 1 \in DOMAIN q
      /\ \A k \in DOMAIN t : k + 1 \in DOMAIN q /\ k + 1 # 1 /\ t[k] = q[k + 1]
  BY TailPlaces
<1>2. DOMAIN t \subseteq Nat
  BY DEF IsTail
<1>3. ASSUME NEW j \in DOMAIN t, NEW k \in DOMAIN t, t[j].buf = t[k].buf
      PROVE  j = k
  <2>1. j + 1 = k + 1
    BY <1>1, <1>3 DEF Apart
  <2> QED
    BY <1>2, <2>1
<1>4. \A k \in DOMAIN t : t[k].buf # q[1].buf
  BY <1>1 DEF Apart
<1> QED
  BY <1>3, <1>4 DEF Apart, Bufs

LEMMA ApartAppended ==
  ASSUME NEW a, NEW q, NEW x, IsAppended(a, q, x), Apart(q), x.buf \notin Bufs(q)
  PROVE  Apart(a)
<1>1. /\ a[Len(q) + 1] = x
      /\ \A k \in DOMAIN q : k \in DOMAIN a /\ a[k] = q[k]
      /\ \A k \in DOMAIN a : k \in DOMAIN q \/ k = Len(q) + 1
  BY AppendedPlaces
<1>2. ASSUME NEW j \in DOMAIN a, NEW k \in DOMAIN a, a[j].buf = a[k].buf
      PROVE  j = k
  <2>1. \A i \in DOMAIN q : a[i].buf # x.buf
    BY <1>1 DEF Bufs
  <2>2. CASE j \in DOMAIN q /\ k \in DOMAIN q
    BY <1>1, <1>2, <2>2 DEF Apart
  <2> QED
    BY <1>1, <1>2, <2>1, <2>2
<1> QED
  BY <1>2 DEF Apart

LEMMA DistinctTail ==
  ASSUME NEW t, NEW q, IsTail(t, q), Distinct(q)
  PROVE  Distinct(t) /\ q[1].msg \notin Messages(t)
<1>1. /\ 1 \in DOMAIN q
      /\ \A k \in DOMAIN t : k + 1 \in DOMAIN q /\ k + 1 # 1 /\ t[k] = q[k + 1]
  BY TailPlaces
<1>2. DOMAIN t \subseteq Nat
  BY DEF IsTail
<1>3. ASSUME NEW j \in DOMAIN t, NEW k \in DOMAIN t, t[j].msg = t[k].msg
      PROVE  j = k
  <2>1. j + 1 = k + 1
    BY <1>1, <1>3 DEF Distinct
  <2> QED
    BY <1>2, <2>1
<1>4. \A k \in DOMAIN t : t[k].msg # q[1].msg
  BY <1>1 DEF Distinct
<1> QED
  BY <1>3, <1>4 DEF Distinct, Messages

LEMMA DistinctAppended ==
  ASSUME NEW a, NEW q, NEW x, IsAppended(a, q, x), Distinct(q), x.msg \notin Messages(q)
  PROVE  Distinct(a)
<1>1. /\ a[Len(q) + 1] = x
      /\ \A k \in DOMAIN q : k \in DOMAIN a /\ a[k] = q[k]
      /\ \A k \in DOMAIN a : k \in DOMAIN q \/ k = Len(q) + 1
  BY AppendedPlaces
<1>2. ASSUME NEW j \in DOMAIN a, NEW k \in DOMAIN a, a[j].msg = a[k].msg
      PROVE  j = k
  <2>1. \A i \in DOMAIN q : q[i].msg # x.msg
    BY DEF Messages
  <2> QED
    BY <1>1, <1>2, <2>1 DEF Distinct
<1> QED
  BY <1>2 DEF Distinct

LEMMA BufsOfElements ==
  ASSUME NEW q
  PROVE  /\ Bufs(q) = {x.buf : x \in Elements(q)}
         /\ Messages(q) = {x.msg : x \in Elements(q)}
BY DEF Bufs, Messages, Elements

LEMMA SeqElements ==
  ASSUME NEW S, NEW q \in Seq(S)
  PROVE  Elements(q) \subseteq S
BY ElementOfSeq, LenProperties DEF Elements

LEMMA TurnedKeeps ==
  ASSUME NEW q, NEW s, NEW done, NEW kept, NEW k \in Nat \ {0},
         KeepsOwner(kept), q \in Seq(Entries), Derived(s, q, done, kept)
  PROVE  Derived(Turned(s, k, done, kept), q, done, kept)
<1> DEFINE p == Turned(s, k, done, kept)
           t == Tail(s)
           x == s[1]
           a == Append(t, kept[x])
<1>1. /\ s \in Seq(Entries) /\ Len(s) \in Nat /\ Len(s) <= Len(q) /\ Len(q) \in Nat
      /\ \A y \in Elements(s) : \E z \in Elements(q) : y.buf = z.buf /\ y.msg = z.msg
      /\ (Apart(q) => Apart(s)) /\ (Distinct(q) => Distinct(s))
      /\ kept = Unchanged => \A z \in Elements(q) : z \in done \/ z \in Elements(s)
  BY LenProperties DEF Derived
<1>2. CASE k > Len(s)
  <2>1. p = s
    BY <1>2 DEF Turned
  <2> QED
    BY <2>1
<1>3. CASE ~ (k > Len(s))
  <2>1. s # <<>>
    BY <1>1, <1>3
  <2>2. t \in Seq(Entries) /\ IsTail(t, s) /\ Head(s) = x /\ x \in Entries
    BY <1>1, <2>1, TailIs
  <2>3. Len(t) = Len(s) - 1 /\ Elements(s) = Elements(t) \union {x}
    BY <2>2, TailPlaces DEF IsTail
  <2>4. p = IF x \in done THEN t ELSE a
    BY <1>3, <2>2 DEF Turned
  <2> HIDE DEF p, t, x
  <2>5. /\ Apart(q) => Apart(t) /\ x.buf \notin Bufs(t)
        /\ Distinct(q) => Distinct(t) /\ x.msg \notin Messages(t)
    BY <1>1, <2>2, ApartTail, DistinctTail DEF x
  <2>6. CASE x \in done
    <3>1. p = t
      BY <2>4, <2>6
    <3>2. \A y \in Elements(t) : \E z \in Elements(q) : y.buf = z.buf /\ y.msg = z.msg
      BY <1>1, <2>3
    <3>3. kept = Unchanged => \A z \in Elements(q) : z \in done \/ z \in Elements(t)
      BY <1>1, <2>3, <2>6
    <3>4. Len(t) <= Len(q)
      BY <1>1, <2>3
    <3>5. Derived(t, q, done, kept)
      BY <2>2, <2>5, <3>2, <3>3, <3>4 DEF Derived
    <3> QED
      BY <3>1, <3>5 DEF p
  <2>7. CASE x \notin done
    <3>1. p = a
      BY <2>4, <2>7
    <3>2. kept[x] \in Entries /\ kept[x].buf = x.buf /\ kept[x].msg = x.msg
      BY <2>2 DEF KeepsOwner
    <3>3. a \in Seq(Entries) /\ IsAppended(a, t, kept[x])
      BY <2>2, <3>2, AppendIs
    <3> HIDE DEF a
    <3>4. Len(a) = Len(t) + 1 /\ Elements(a) = Elements(t) \union {kept[x]}
      BY <3>3, AppendedPlaces DEF IsAppended
    <3>5. \A y \in Elements(a) : \E z \in Elements(q) : y.buf = z.buf /\ y.msg = z.msg
      BY <1>1, <2>3, <3>2, <3>4
    <3>6. kept = Unchanged => \A z \in Elements(q) : z \in done \/ z \in Elements(a)
      <4>1. kept = Unchanged => kept[x] = x
        BY <2>2 DEF Unchanged
      <4> QED
        BY <1>1, <2>3, <3>4, <4>1
    <3>7. (Apart(q) => Apart(a)) /\ (Distinct(q) => Distinct(a))
      BY <2>5, <3>2, <3>3, ApartAppended, DistinctAppended
    <3>8. Len(a) <= Len(q)
      BY <1>1, <2>3, <3>4
    <3>9. Derived(a, q, done, kept)
      BY <3>3, <3>5, <3>6, <3>7, <3>8 DEF Derived
    <3> QED
      BY <3>1, <3>9 DEF p
  <2> QED
    BY <2>6, <2>7
<1> QED
  BY <1>2, <1>3

LEMMA SweptDerived ==
  ASSUME NEW q \in Seq(Entries), NEW done, NEW kept, KeepsOwner(kept)
  PROVE  Derived(Swept(q, done, kept), q, done, kept)
<1> DEFINE L == Len(q)
           Round(f, k) == IF k = 0 THEN q ELSE Turned(f[k - 1], k, done, kept)
           pass == CHOOSE f : f = [k \in 0 .. L |-> Round(f, k)]
           Upto(n, f) == /\ f = [k \in 0 .. n |-> Round(f, k)]
           S == {n \in Nat : \E f : Upto(n, f)}
<1>1. L \in Nat
  BY LenProperties
<1>2. 0 \in S
  <2> DEFINE f == [k \in 0 .. 0 |-> q]
  <2>1. \A k \in 0 .. 0 : Round(f, k) = q
    OBVIOUS
  <2>2. Upto(0, f)
    BY <2>1
  <2> HIDE DEF f
  <2> QED
    BY <2>2
<1>3. ASSUME NEW n \in Nat, n \in S  PROVE n + 1 \in S
  <2>1. PICK f : Upto(n, f)
    BY <1>3
  <2> DEFINE g == [k \in 0 .. n + 1 |-> IF k = n + 1 THEN Turned(f[n], n + 1, done, kept) ELSE f[k]]
  <2>2. \A k \in 0 .. n : f[k] = Round(f, k)
    BY <2>1
  <2>3. \A k \in 0 .. n + 1 : g[k] = Round(g, k)
    <3> SUFFICES ASSUME NEW k \in 0 .. n + 1  PROVE g[k] = Round(g, k)
      OBVIOUS
    <3>1. CASE k = n + 1
      <4>1. g[k] = Turned(f[n], n + 1, done, kept) /\ g[k - 1] = f[n] /\ k # 0
        BY <3>1
      <4> HIDE DEF g
      <4> QED
        BY <3>1, <4>1
    <3>2. CASE k = 0
      <4>1. g[0] = f[0] /\ f[0] = q
        BY <2>2
      <4> HIDE DEF g
      <4> QED
        BY <3>2, <4>1
    <3>3. CASE k \in 1 .. n
      <4>1. g[k] = f[k] /\ g[k - 1] = f[k - 1] /\ k # 0 /\ k \in 0 .. n
        BY <3>3
      <4> HIDE DEF g
      <4> QED
        BY <2>2, <4>1
    <3> QED
      BY <3>1, <3>2, <3>3
  <2>4. g = [k \in 0 .. n + 1 |-> g[k]]
    OBVIOUS
  <2> HIDE DEF g
  <2>5. Upto(n + 1, g)
    BY <2>3, <2>4
  <2> QED
    BY <2>5
<1>4. L \in S
  <2> HIDE DEF S
  <2>1. Nat \subseteq S
    BY ONLY <1>2, <1>3, SetInduction
  <2> QED
    BY <1>1, <2>1
<1>5. pass = [k \in 0 .. L |-> Round(pass, k)]
  BY <1>4
<1>6. Swept(q, done, kept) = pass[L]
  BY DEF Swept
<1> HIDE DEF pass
<1>7. \A k \in 0 .. L : pass[k] = Round(pass, k)
  BY <1>5
<1> DEFINE T == {n \in Nat : n <= L => Derived(pass[n], q, done, kept)}
<1>8. 0 \in T
  <2>1. pass[0] = q
    BY <1>1, <1>7
  <2>2. Derived(q, q, done, kept)
    BY <1>1 DEF Derived
  <2> QED
    BY <2>1, <2>2
<1>9. ASSUME NEW n \in Nat, n \in T  PROVE n + 1 \in T
  <2> SUFFICES ASSUME n + 1 <= L  PROVE Derived(pass[n + 1], q, done, kept)
    OBVIOUS
  <2>1. Derived(pass[n], q, done, kept)
    BY <1>1, <1>9
  <2>2. n + 1 \in 0 .. L /\ n + 1 # 0 /\ (n + 1) - 1 = n /\ n + 1 \in Nat \ {0}
    BY <1>1
  <2>3. pass[n + 1] = Turned(pass[n], n + 1, done, kept)
    BY <1>7, <2>2
  <2> QED
    BY <2>1, <2>2, <2>3, TurnedKeeps
<1>10. L \in T
  <2> HIDE DEF T
  <2>1. Nat \subseteq T
    BY ONLY <1>8, <1>9, SetInduction
  <2> QED
    BY <1>1, <2>1
<1> QED
  BY <1>1, <1>6, <1>10

LEMMA KeptOwners == KeepsOwner(Unchanged) /\ KeepsOwner(Older)
<1>1. KeepsOwner(Unchanged)
  BY DEF KeepsOwner, Unchanged
<1>2. ASSUME NEW x \in Entries
      PROVE  /\ Older[x] \in Entries
             /\ Older[x].buf = x.buf /\ Older[x].msg = x.msg
  <2>1. x.timeout \in Nat /\ x.timeout <= SwAckTimeout + 1
    BY DataPathAssumption DEF Entries
  <2> DEFINE t == IF x.timeout = 0 THEN 0 ELSE x.timeout - 1
  <2>2. t \in 0 .. SwAckTimeout + 1
    BY <2>1, DataPathAssumption
  <2>3. Older[x] = [x EXCEPT !.timeout = t]
    BY DEF Older
  <2> HIDE DEF t
  <2> QED
    BY <2>2, <2>3 DEF Entries
<1>3. Older = [x \in Entries |-> Older[x]]
  BY DEF Older
<1> QED
  BY <1>1, <1>2, <1>3 DEF KeepsOwner

----------------------------------------------------------------------------
(* Frames by their type.                                                   *)
LEMMA FrameShape ==
  ASSUME NEW f \in Frame
  PROVE  /\ f # NoFrame
         /\ f.type \in {"FORWARD_PACKET", "DATA", "DATA_TO_ENDDEV_SUCCESS"}
         /\ f.type = "DATA_TO_ENDDEV_SUCCESS" <=> f \notin Pointing
         /\ f.type = "DATA_TO_ENDDEV_SUCCESS" => f.dst \in Device /\ f.place \in Nat
         /\ f.type # "DATA_TO_ENDDEV_SUCCESS" =>
              f.msg \in Message /\ f.handle \in Message /\ f.buf \in Buffer
<1>1. CASE f \in Pointing
  <2>1. f.type # "DATA_TO_ENDDEV_SUCCESS" /\ f.type # "NONE"
    BY <1>1 DEF Pointing
  <2> QED
    BY <1>1, <2>1 DEF Pointing, NoFrame
<1>2. CASE f \notin Pointing
  <2>1. f \in [type : {"DATA_TO_ENDDEV_SUCCESS"}, src : {Coordinator}, dst : Device, place : Nat]
    BY <1>2 DEF Frame
  <2>2. f.type # "NONE"
    BY <2>1
  <2> QED
    BY <1>2, <2>1, <2>2 DEF NoFrame
<1> QED
  BY <1>1, <1>2

LEMMA FramesBuilt ==
  ASSUME NEW m \in Message, NEW b \in Buffer, NEW n \in Device
  PROVE  /\ Forward(m, b) \in Frame /\ Data(n, m, b) \in Frame
         /\ Forward(m, b).type = "FORWARD_PACKET" /\ Forward(m, b).src = m.src
         /\ Forward(m, b).msg = m /\ Forward(m, b).handle = m
         /\ Forward(m, b).buf = b /\ Forward(m, b).dst = Coordinator
         /\ Data(n, m, b).type = "DATA" /\ Data(n, m, b).src = n
         /\ Data(n, m, b).msg = m /\ Data(n, m, b).handle = m /\ Data(n, m, b).buf = b
<1>1. m.src \in Device /\ m.dst \in Device \union {Broadcast}
  BY MessageAssumption
<1>2. Forward(m, b) \in Pointing /\ Data(n, m, b) \in Pointing
  BY <1>1, DataPathAssumption DEF Pointing, Forward, Data
<1> QED
  BY <1>2 DEF Frame, Forward, Data

LEMMA SuccessBuilt ==
  ASSUME NEW n \in Device, NEW place \in Nat
  PROVE  /\ Success(n, place) \in Frame
         /\ Success(n, place).type = "DATA_TO_ENDDEV_SUCCESS"
         /\ Success(n, place).src = Coordinator /\ Success(n, place).dst = n
         /\ Success(n, place).place = place
BY DEF Frame, Success

(* A frame whose buffer is written again is the same but for its message.  *)
Again(f, m) == [f EXCEPT !.msg = m]

LEMMA AgainIs ==
  ASSUME NEW f \in Pointing, NEW m \in Message
  PROVE  /\ Again(f, m) \in Pointing /\ Again(f, m) \in Frame
         /\ Again(f, m).type = f.type /\ Again(f, m).src = f.src /\ Again(f, m).dst = f.dst
         /\ Again(f, m).handle = f.handle /\ Again(f, m).buf = f.buf /\ Again(f, m).msg = m
         /\ WaitsForMac(Again(f, m)) <=> WaitsForMac(f)
         /\ WaitsForApp(Again(f, m)) <=> WaitsForApp(f)
<1> DEFINE g == Again(f, m)
<1>1. /\ g \in Pointing /\ g.type = f.type /\ g.src = f.src /\ g.dst = f.dst
      /\ g.handle = f.handle /\ g.buf = f.buf /\ g.msg = m
  BY DEF Again, Pointing
<1> HIDE DEF g
<1>2. g \in Frame
  BY <1>1 DEF Frame
<1>3. (WaitsForMac(g) <=> WaitsForMac(f)) /\ (WaitsForApp(g) <=> WaitsForApp(f))
  BY <1>1 DEF WaitsForMac, WaitsForApp
<1> QED
  BY <1>1, <1>2, <1>3 DEF g

LEMMA MessageShape ==
  ASSUME NEW m \in Message
  PROVE  /\ m.src \in Device /\ m.src # Broadcast
         /\ Relayed(m) \in BOOLEAN /\ Awaited(m) \in BOOLEAN
         /\ Relayed(m) => m.src # Coordinator
         /\ Awaited(m) <=> Relayed(m) /\ m.ackReq
BY MessageAssumption, BroadcastAssumption DEF Relayed, Awaited

----------------------------------------------------------------------------
(* Lines and banks.                                                        *)
SendingType == [frame : Frame, status : {"SUCCESS", "FAILURE"}]

LEMMA LineIs ==
  ASSUME RadioTypeOK(Frame), NEW n \in Device
  PROVE  /\ lines[n] = Line(n) /\ lines[n] \in Seq(Frame) /\ txq[n] \in Seq(Frame)
         /\ sending[n] = Idle => lines[n] = txq[n]
         /\ sending[n] # Idle
              => /\ sending[n] \in SendingType /\ sending[n].frame \in Frame
                 /\ IsTail(txq[n], lines[n])
                 /\ lines[n][1] = sending[n].frame
<1>1. /\ txq[n] \in Seq(Frame)
      /\ sending[n] \in SendingType \union {Idle}
  BY DEF RadioTypeOK, SendingType
<1>2. lines[n] = Line(n)
  BY DEF lines
<1>3. CASE sending[n] = Idle
  BY <1>1, <1>2, <1>3 DEF Line
<1>4. CASE sending[n] # Idle
  <2>1. sending[n] \in SendingType /\ sending[n].frame \in Frame
    BY <1>1, <1>4 DEF SendingType
  <2>2. lines[n] = <<sending[n].frame>> \o txq[n]
    BY <1>2, <1>4 DEF Line
  <2>3. lines[n] \in Seq(Frame) /\ IsTail(txq[n], lines[n]) /\ lines[n][1] = sending[n].frame
    BY <1>1, <2>1, <2>2, PrefixedIs
  <2> QED
    BY <1>1, <1>2, <1>4, <2>1, <2>3
<1> QED
  BY <1>3, <1>4

(* The lines after a step that changes them on one board.                  *)
LEMMA LinesFrom ==
  ASSUME NEW n \in Device, NEW q,
         Line(n)' = q,
         \A k \in Device : k # n => txq'[k] = txq[k] /\ sending'[k] = sending[k]
  PROVE  lines' = [lines EXCEPT ![n] = q]
<1>1. \A k \in Device : k # n => Line(k)' = Line(k)
  BY DEF Line
<1> QED
  BY <1>1 DEF lines

LEMMA LinesSame ==
  ASSUME UNCHANGED <<txq, sending>>
  PROVE  lines' = lines
BY DEF lines, Line

(* A step of Radio, as it is seen here.                                    *)
Transmitted(n, h) ==
  /\ sending[n] = Idle /\ h \in Frame /\ IsTail(txq'[n], txq[n]) /\ txq[n][1] = h
  /\ txq' = [txq EXCEPT ![n] = txq'[n]]
  /\ sending'[n] \in SendingType /\ sending'[n].frame = h
  /\ sending' = [sending EXCEPT ![n] = sending'[n]]
  /\ RadioTypeOK(Frame)'
  /\ \A k \in Device, b \in Bank :
       rx'[k][b] = rx[k][b] \/ (rx'[k][b] = h /\ Addressed(k, h) /\ sending[k] = Idle /\ k # n)
  /\ \A k \in Device, a, b \in Bank : rx'[k][a] # rx[k][a] /\ rx'[k][b] # rx[k][b] => a = b

LEMMA TransmitIs ==
  ASSUME RadioTypeOK(Frame), NEW n \in Device, Transmit(n)
  PROVE  Transmitted(n, Head(txq[n])) /\ lines' = lines
<1> DEFINE h == Head(txq[n])
<1>1. PICK R \in SUBSET Reach(n), s \in {"SUCCESS", "FAILURE"} : Send(n, R, s)
  BY DEF Transmit
<1>2. /\ txq \in [Device -> Seq(Frame)]
      /\ sending \in [Device -> SendingType \union {Idle}]
      /\ rx \in [Device -> [Bank -> Frame \union {NoFrame}]]
  BY DEF RadioTypeOK, SendingType
<1>3. /\ sending[n] = Idle /\ txq[n] # <<>> /\ R \subseteq Reach(n)
      /\ sending' = [sending EXCEPT ![n] = [frame |-> h, status |-> s]]
      /\ txq' = [txq EXCEPT ![n] = Tail(txq[n])]
      /\ rx' = [m \in Device |-> IF m \in R THEN Stored(m, h) ELSE rx[m]]
  BY <1>1 DEF Send
<1>4. /\ Tail(txq[n]) \in Seq(Frame) /\ IsTail(Tail(txq[n]), txq[n])
      /\ h = txq[n][1] /\ h \in Frame
  BY <1>2, <1>3, TailIs
<1> HIDE DEF h
<1>5. /\ txq'[n] = Tail(txq[n]) /\ txq' = [txq EXCEPT ![n] = txq'[n]]
      /\ txq' \in [Device -> Seq(Frame)]
  BY <1>2, <1>3, <1>4
<1>6. /\ sending'[n] = [frame |-> h, status |-> s]
      /\ sending'[n] \in SendingType /\ sending'[n].frame = h
      /\ sending' = [sending EXCEPT ![n] = sending'[n]]
      /\ sending' \in [Device -> SendingType \union {Idle}]
  BY <1>2, <1>3, <1>4 DEF SendingType
<1>7. ASSUME NEW k \in Device
      PROVE  /\ rx'[k] \in [Bank -> Frame \union {NoFrame}]
             /\ \A b \in Bank : rx'[k][b] = rx[k][b]
                  \/ (rx'[k][b] = h /\ Addressed(k, h) /\ sending[k] = Idle /\ k # n)
             /\ \A a, b \in Bank : rx'[k][a] # rx[k][a] /\ rx'[k][b] # rx[k][b] => a = b
  <2>1. CASE k \in R
    <3>1. Addressed(k, h) /\ sending[k] = Idle /\ k # n
      BY <1>3, <2>1 DEF Reach, Listening, h
    <3>2. rx'[k] = [rx[k] EXCEPT ![FreeBank(k)] = h]
      BY <1>3, <2>1 DEF Stored
    <3>3. /\ \A b \in Bank : rx'[k][b] = rx[k][b] \/ rx'[k][b] = h
          /\ \A b \in Bank : rx'[k][b] # rx[k][b] => b = FreeBank(k)
      BY <1>2, <3>2
    <3>4. rx'[k] \in [Bank -> Frame \union {NoFrame}]
      <4>1. rx'[k] = [b \in Bank |-> rx'[k][b]]
        BY <1>2, <3>2
      <4>2. \A b \in Bank : rx[k][b] \in Frame \union {NoFrame}
        BY <1>2
      <4>3. \A b \in Bank : rx'[k][b] \in Frame \union {NoFrame}
        BY <1>4, <3>3, <4>2
      <4> QED
        BY <4>1, <4>3
    <3>5. \A a, b \in Bank : rx'[k][a] # rx[k][a] /\ rx'[k][b] # rx[k][b] => a = b
      BY <3>3
    <3> QED
      BY <3>1, <3>3, <3>4, <3>5
  <2>2. CASE k \notin R
    BY <1>2, <1>3, <2>2
  <2> QED
    BY <2>1, <2>2
<1>8. rx' \in [Device -> [Bank -> Frame \union {NoFrame}]]
  <2>1. rx' = [m \in Device |-> rx'[m]]
    BY <1>3
  <2> QED
    BY <1>7, <2>1
<1>9. RadioTypeOK(Frame)'
  BY <1>5, <1>6, <1>8 DEF RadioTypeOK, SendingType
<1>10. Transmitted(n, h)
  BY <1>3, <1>4, <1>5, <1>6, <1>7, <1>9 DEF Transmitted
<1>11. lines' = lines
  <2>1. sending'[n] # Idle
    BY <1>4, <1>6, FrameShape DEF Idle
  <2>2. Line(n) = txq[n]
    BY <1>3 DEF Line
  <2>3. Line(n)' = <<h>> \o Tail(txq[n])
    BY <1>5, <1>6, <2>1 DEF Line
  <2>4. txq[n] = <<h>> \o Tail(txq[n])
    <3> DEFINE p == <<h>> \o Tail(txq[n])
    <3>1. p \in Seq(Frame) /\ IsTail(Tail(txq[n]), p) /\ p[1] = h
      BY <1>4, PrefixedIs
    <3> HIDE DEF p
    <3>2. Len(p) = Len(txq[n]) /\ txq[n] \in Seq(Frame) /\ Len(p) \in Nat
      <4>1. Len(Tail(txq[n])) = Len(p) - 1 /\ Len(Tail(txq[n])) = Len(txq[n]) - 1
        BY <1>4, <3>1 DEF IsTail
      <4>2. Len(p) \in Nat /\ Len(txq[n]) \in Nat
        BY <1>4, <3>1 DEF IsTail
      <4> QED
        BY <1>2, <4>1, <4>2
    <3>3. \A k \in 1 .. Len(p) : p[k] = txq[n][k]
      <4> TAKE k \in 1 .. Len(p)
      <4>1. k \in DOMAIN p /\ k \in DOMAIN txq[n]
        BY <3>1, <3>2, <1>4 DEF IsTail
      <4>2. /\ k = 1 \/ (k - 1 \in DOMAIN Tail(txq[n]) /\ p[k] = Tail(txq[n])[k - 1])
            /\ k = 1 \/ (k - 1 \in DOMAIN Tail(txq[n]) /\ txq[n][k] = Tail(txq[n])[k - 1])
        BY <1>4, <3>1, <4>1, TailPlaces
      <4> QED
        BY <1>4, <3>1, <4>2
    <3>4. p = txq[n]
      BY <3>1, <3>2, <3>3, SeqEqual
    <3> QED
      BY <3>4 DEF p
  <2>5. Line(n)' = lines[n]
    BY <2>2, <2>3, <2>4 DEF lines
  <2>6. \A k \in Device : k # n => txq'[k] = txq[k] /\ sending'[k] = sending[k]
    BY <1>2, <1>3
  <2>7. lines' = [lines EXCEPT ![n] = lines[n]]
    BY <2>5, <2>6, LinesFrom
  <2> QED
    BY <2>7 DEF lines
<1> QED
  BY <1>10, <1>11 DEF h

LEMMA AppendToLine ==
  ASSUME NEW S, NEW q \in Seq(S), NEW x \in S, NEW y \in S
  PROVE  <<y>> \o Append(q, x) = Append(<<y>> \o q, x)
<1>1. <<y>> \in Seq(S) /\ <<x>> \in Seq(S)
  OBVIOUS
<1>2. <<y>> \o q \in Seq(S)
  BY <1>1, ConcatProperties
<1>3. Append(q, x) = q \o <<x>> /\ Append(<<y>> \o q, x) = (<<y>> \o q) \o <<x>>
  BY <1>2, AppendIsConcat
<1> QED
  BY <1>1, <1>3, ConcatAssociative

(* p is line after m was written into buffer b.                            *)
Renewed(p, line, m, b) ==
  /\ p \in Seq(Frame) /\ Len(p) = Len(line) /\ DOMAIN p = DOMAIN line
  /\ \A k \in DOMAIN line :
       \/ p[k] = line[k] /\ (line[k] \in Pointing => line[k].buf # b)
       \/ line[k] \in Pointing /\ line[k].buf = b /\ p[k] \in {line[k], Again(line[k], m)}

LEMMA RewrittenIs ==
  ASSUME NEW n \in Device, txq[n] \in Seq(Frame), NEW m \in Message, NEW b
  PROVE  Renewed(Rewritten(n, m, b), txq[n], m, b)
<1> DEFINE q == txq[n]
           p == Rewritten(n, m, b)
<1>1. Len(q) \in Nat /\ DOMAIN q = 1 .. Len(q)
  BY LenProperties
<1>2. \A k \in DOMAIN q : q[k] \in Frame
  BY <1>1, ElementOfSeq
<1>3. p = [k \in 1 .. Len(q) |-> p[k]]
  BY <1>1 DEF Rewritten
<1>4. \A k \in DOMAIN q :
        p[k] = IF q[k] \in Pointing /\ q[k].buf = b THEN Again(q[k], m) ELSE q[k]
  BY <1>1 DEF Rewritten, Again
<1> HIDE DEF p, q
<1>5. \A k \in DOMAIN q : p[k] \in Frame
  BY <1>2, <1>4, AgainIs
<1>6. p \in Seq(Frame) /\ Len(p) = Len(q)
  <2>1. p \in [1 .. Len(q) -> Frame]
    BY <1>1, <1>3, <1>5
  <2> QED
    BY <1>1, <2>1
<1>7. DOMAIN p = DOMAIN q
  BY <1>1, <1>3
<1> QED
  BY <1>4, <1>6, <1>7 DEF Renewed, p, q

LEMMA RenewedPrefixed ==
  ASSUME NEW q \in Seq(Frame), NEW p, NEW m \in Message, NEW b, Renewed(p, q, m, b),
         NEW x \in Frame
  PROVE  Renewed(<<x>> \o p, <<x>> \o q, m, b)
<1> DEFINE r == <<x>> \o p
           s == <<x>> \o q
<1>1. /\ p \in Seq(Frame) /\ Len(p) = Len(q) /\ DOMAIN p = DOMAIN q
      /\ \A k \in DOMAIN q :
           \/ p[k] = q[k] /\ (q[k] \in Pointing => q[k].buf # b)
           \/ q[k] \in Pointing /\ q[k].buf = b /\ p[k] \in {q[k], Again(q[k], m)}
  BY DEF Renewed
<1>2. r \in Seq(Frame) /\ IsTail(p, r) /\ r[1] = x
  BY <1>1, PrefixedIs
<1>3. s \in Seq(Frame) /\ IsTail(q, s) /\ s[1] = x
  BY PrefixedIs
<1> HIDE DEF r, s
<1>4. Len(r) = Len(s) /\ DOMAIN r = DOMAIN s
  <2>1. /\ Len(r) \in Nat /\ DOMAIN r = 1 .. Len(r) /\ Len(p) = Len(r) - 1
        /\ Len(s) \in Nat /\ DOMAIN s = 1 .. Len(s) /\ Len(q) = Len(s) - 1
    BY <1>2, <1>3 DEF IsTail
  <2>2. PICK i, j : i = Len(r) /\ j = Len(s)
    OBVIOUS
  <2>3. i \in Nat /\ j \in Nat /\ i - 1 = j - 1
    BY <1>1, <2>1, <2>2
  <2>4. i = j
    BY <2>3
  <2> QED
    BY <2>1, <2>2, <2>4
<1>5. ASSUME NEW k \in DOMAIN s
      PROVE  \/ r[k] = s[k] /\ (s[k] \in Pointing => s[k].buf # b)
             \/ s[k] \in Pointing /\ s[k].buf = b /\ r[k] \in {s[k], Again(s[k], m)}
  <2>1. CASE k = 1
    BY <1>2, <1>3, <2>1
  <2>2. CASE k # 1
    <3>1. k - 1 \in DOMAIN q /\ s[k] = q[k - 1] /\ r[k] = p[k - 1]
      BY <1>2, <1>3, <1>4, <2>2, TailPlaces
    <3> QED
      BY <1>1, <3>1
  <2> QED
    BY <2>1, <2>2
<1> QED
  BY <1>2, <1>4, <1>5 DEF Renewed, r, s

(* f is queued by board n after m was written into buffer b; l and t are   *)
(* its line and its queue in between.                                      *)
QueuedBy(n, m, b, f, h, l, t) ==
  /\ Renewed(l, lines[n], m, b) /\ Renewed(t, txq[n], m, b)
  /\ lines' = [lines EXCEPT ![n] = IF h THEN Append(l, f) ELSE l]
  /\ txq' = [txq EXCEPT ![n] = IF h THEN Append(t, f) ELSE t]

LEMMA QueuedIs ==
  ASSUME RadioTypeOK(Frame), NEW n \in Device, NEW m \in Message, NEW b, NEW f \in Frame,
         NEW h \in BOOLEAN, Put(n, m, b, f, h), UNCHANGED sending
  PROVE  /\ txq' \in [Device -> Seq(Frame)]
         /\ \E l, t : QueuedBy(n, m, b, f, h, l, t)
<1> DEFINE t == Rewritten(n, m, b)
           l == IF sending[n] = Idle THEN t ELSE <<sending[n].frame>> \o t
<1>1. /\ txq \in [Device -> Seq(Frame)]
      /\ sending \in [Device -> SendingType \union {Idle}]
  BY DEF RadioTypeOK, SendingType
<1>2. Renewed(t, txq[n], m, b)
  BY <1>1, RewrittenIs
<1>3. t \in Seq(Frame) /\ Append(t, f) \in Seq(Frame)
  <2>1. t \in Seq(Frame)
    BY <1>2 DEF Renewed
  <2> QED
    BY <2>1, AppendIs
<1>4. txq' = [txq EXCEPT ![n] = IF h THEN Append(t, f) ELSE t]
  BY DEF Put
<1> HIDE DEF t
<1>5. txq' \in [Device -> Seq(Frame)] /\ txq'[n] = IF h THEN Append(t, f) ELSE t
  BY <1>1, <1>3, <1>4
<1>6. Renewed(l, lines[n], m, b)
  <2>1. CASE sending[n] = Idle
    BY <1>2, <2>1 DEF Line, lines
  <2>2. CASE sending[n] # Idle
    <3>1. sending[n].frame \in Frame
      BY <2>2, LineIs
    <3>2. lines[n] = <<sending[n].frame>> \o txq[n]
      BY <2>2 DEF Line, lines
    <3> QED
      BY <1>1, <1>2, <2>2, <3>1, <3>2, RenewedPrefixed
  <2> QED
    BY <2>1, <2>2
<1>7. Line(n)' = IF h THEN Append(l, f) ELSE l
  <2>1. CASE sending[n] = Idle
    BY <1>5, <2>1 DEF Line
  <2>2. CASE sending[n] # Idle
    <3>1. sending[n].frame \in Frame
      BY <2>2, LineIs
    <3>2. <<sending[n].frame>> \o Append(t, f) = Append(<<sending[n].frame>> \o t, f)
      BY <1>3, <3>1, AppendToLine
    <3>3. Line(n)' = <<sending[n].frame>> \o (IF h THEN Append(t, f) ELSE t)
      BY <1>5, <2>2 DEF Line
    <3> QED
      BY <2>2, <3>2, <3>3
  <2> QED
    BY <2>1, <2>2
<1>8. \A k \in Device : k # n => txq'[k] = txq[k] /\ sending'[k] = sending[k]
  BY <1>1, <1>4
<1>9. lines' = [lines EXCEPT ![n] = IF h THEN Append(l, f) ELSE l]
  <2> HIDE DEF l
  <2>1. PICK g : g = IF h THEN Append(l, f) ELSE l
    OBVIOUS
  <2> QED
    BY <1>7, <1>8, <2>1, LinesFrom
<1>10. QueuedBy(n, m, b, f, h, l, t)
  BY <1>2, <1>4, <1>6, <1>9 DEF QueuedBy
<1> QED
  BY <1>5, <1>10

LEMMA SentIs ==
  ASSUME RadioTypeOK(Frame), NEW n \in Device, sending[n] # Idle, Sent(n),
         NEW q, txq' = [txq EXCEPT ![n] = q]
  PROVE  /\ sending' \in [Device -> SendingType \union {Idle}]
         /\ sending' = [sending EXCEPT ![n] = Idle] /\ sending'[n] = Idle
         /\ lines' = [lines EXCEPT ![n] = q]
<1>1. /\ txq \in [Device -> Seq(Frame)]
      /\ sending \in [Device -> SendingType \union {Idle}]
  BY DEF RadioTypeOK, SendingType
<1>2. sending' = [sending EXCEPT ![n] = Idle]
  BY DEF Sent
<1>3. Line(n)' = q
  BY <1>1, <1>2 DEF Line
<1>4. \A k \in Device : k # n => txq'[k] = txq[k] /\ sending'[k] = sending[k]
  BY <1>1, <1>2
<1>5. lines' = [lines EXCEPT ![n] = q]
  BY <1>3, <1>4, LinesFrom
<1> QED
  BY <1>1, <1>2, <1>5

LEMMA ReceiveIs ==
  ASSUME RadioTypeOK(Frame), NEW n \in Device, NEW type, Receive(n, type)
  PROVE  /\ rx' \in [Device -> [Bank -> Frame \union {NoFrame}]]
         /\ \A k \in Device, b \in Bank : rx'[k][b] = rx[k][b] \/ rx'[k][b] = NoFrame
         /\ \E b \in Bank : Received(n) = rx[n][b] /\ rx'[n][b] = NoFrame
         /\ Received(n) \in Frame /\ Received(n) # NoFrame /\ Received(n).type = type
<1>1. rx \in [Device -> [Bank -> Frame \union {NoFrame}]]
  BY DEF RadioTypeOK
<1>2. Filled(n) # {} /\ Received(n).type = type
  BY DEF Receive
<1>3. Filled(n) \subseteq Nat
  BY DataPathAssumption DEF Filled
<1>4. \E b \in Filled(n) : \A a \in Filled(n) : b <= a
  BY <1>2, <1>3, Smallest
<1>5. FirstBank(n) \in Filled(n)
  BY <1>4 DEF FirstBank
<1> DEFINE k == FirstBank(n)
<1>6. k \in Bank /\ Received(n) = rx[n][k] /\ Received(n) # NoFrame
  BY <1>5 DEF Filled, Received
<1>7. rx' = [rx EXCEPT ![n][k] = NoFrame]
  BY DEF Receive
<1> HIDE DEF k
<1>8. rx' \in [Device -> [Bank -> Frame \union {NoFrame}]]
  BY <1>1, <1>6, <1>7
<1>9. /\ \A m \in Device, b \in Bank : rx'[m][b] = rx[m][b] \/ rx'[m][b] = NoFrame
      /\ rx'[n][k] = NoFrame
  BY <1>1, <1>6, <1>7
<1>10. Received(n) \in Frame
  BY <1>1, <1>6
<1> QED
  BY <1>2, <1>6, <1>8, <1>9, <1>10

LEMMA FreeBufferIs ==
  ASSUME NEW n \in Device, held \in [Device -> SUBSET Buffer], held[n] # Buffer
  PROVE  FreeBuffer(n) \in Buffer /\ FreeBuffer(n) \notin held[n]
<1> DEFINE F == Buffer \ held[n]
<1>1. F \subseteq Nat /\ F # {}
  BY DataPathAssumption
<1>2. \E b \in F : \A a \in F : b <= a
  BY <1>1, Smallest
<1>3. FreeBuffer(n) \in F
  BY <1>2 DEF FreeBuffer, Min
<1> QED
  BY <1>3

----------------------------------------------------------------------------
(* Queues of entries.                                                      *)
LEMMA OwnersOfTail ==
  ASSUME NEW t, NEW q, IsTail(t, q)
  PROVE  /\ Bufs(q) = Bufs(t) \union {q[1].buf}
         /\ Messages(q) = Messages(t) \union {q[1].msg}
<1>1. Elements(q) = Elements(t) \union {q[1]}
  BY TailPlaces
<1> QED
  BY <1>1, BufsOfElements

LEMMA OwnersOfAppended ==
  ASSUME NEW a, NEW q, NEW x, IsAppended(a, q, x)
  PROVE  /\ Bufs(a) = Bufs(q) \union {x.buf}
         /\ Messages(a) = Messages(q) \union {x.msg}
<1>1. Elements(a) = Elements(q) \union {x}
  BY AppendedPlaces
<1> QED
  BY <1>1, BufsOfElements

LEMMA OwnersOfDerived ==
  ASSUME NEW p, NEW q, NEW done, NEW kept, Derived(p, q, done, kept)
  PROVE  Bufs(p) \subseteq Bufs(q) /\ Messages(p) \subseteq Messages(q)
BY BufsOfElements DEF Derived

LEMMA OwnersTyped ==
  ASSUME NEW q \in Seq(Entries)
  PROVE  Bufs(q) \subseteq Buffer /\ Messages(q) \subseteq Message
<1>1. Elements(q) \subseteq Entries
  BY SeqElements
<1> QED
  BY <1>1, BufsOfElements DEF Entries

LEMMA EntryIs ==
  ASSUME NEW m \in Message, NEW b \in Buffer, NEW t \in 0 .. SwAckTimeout + 1
  PROVE  Entry(m, b, t) \in Entries /\ Entry(m, b, t).msg = m /\ Entry(m, b, t).buf = b
BY DEF Entry, Entries

(* An entry is put into, or taken from, the queue of one board.            *)
LEMMA PutIs ==
  ASSUME NEW S, NEW Q \in [Device -> Seq(S)], NEW n \in Device, NEW x \in S
  PROVE  LET Q2 == [Q EXCEPT ![n] = Append(Q[n], x)]
         IN  /\ Q2 \in [Device -> Seq(S)]
             /\ IsAppended(Q2[n], Q[n], x)
             /\ \A k \in Device : k # n => Q2[k] = Q[k]
<1>1. Append(Q[n], x) \in Seq(S) /\ IsAppended(Append(Q[n], x), Q[n], x)
  BY AppendIs
<1> QED
  BY <1>1

LEMMA TakeIs ==
  ASSUME NEW S, NEW Q \in [Device -> Seq(S)], NEW n \in Device, Q[n] # <<>>
  PROVE  LET Q2 == [Q EXCEPT ![n] = Tail(Q[n])]
         IN  /\ Q2 \in [Device -> Seq(S)]
             /\ IsTail(Q2[n], Q[n]) /\ Head(Q[n]) = Q[n][1] /\ Q[n][1] \in S
             /\ \A k \in Device : k # n => Q2[k] = Q[k]
<1>1. /\ Tail(Q[n]) \in Seq(S) /\ IsTail(Tail(Q[n]), Q[n])
      /\ Head(Q[n]) = Q[n][1] /\ Q[n][1] \in S
  BY TailIs
<1> QED
  BY <1>1

(* The confirmations of some messages.                                     *)
LEMMA ConfirmIs ==
  ASSUME NEW M, NEW s \in Statuses, Confirm(M, s), confirmed \in [Message -> Seq(Statuses)]
  PROVE  /\ confirmed' \in [Message -> Seq(Statuses)]
         /\ \A m \in Message : confirmed'[m] = IF m \in M THEN Append(confirmed[m], s)
                                                ELSE confirmed[m]
<1>1. confirmed' = [m \in Message |-> IF m \in M THEN Append(confirmed[m], s)
                                      ELSE confirmed[m]]
  BY DEF Confirm
<1>2. \A m \in Message : Append(confirmed[m], s) \in Seq(Statuses)
  BY AppendIs
<1> QED
  BY <1>1, <1>2

LEMMA FreeBufsIs ==
  ASSUME NEW n \in Device, NEW B, FreeBufs(n, B), held \in [Device -> SUBSET Buffer]
  PROVE  /\ held' \in [Device -> SUBSET Buffer]
         /\ held'[n] = held[n] \ B
         /\ \A k \in Device : k # n => held'[k] = held[k]
BY DEF FreeBufs

LEMMA ReportIs ==
  ASSUME RadioTypeOK(Frame), NEW n \in Device, sending[n] # Idle, Sent(n), UNCHANGED <<txq, rx>>
  PROVE  /\ RadioTypeOK(Frame)'
         /\ sending' = [sending EXCEPT ![n] = Idle]
         /\ lines' = [lines EXCEPT ![n] = txq[n]]
         /\ IsTail(txq[n], lines[n]) /\ lines[n][1] = sending[n].frame
         /\ sending[n].frame \in Frame /\ sending[n].status \in Statuses
<1>1. /\ sending' \in [Device -> SendingType \union {Idle}]
      /\ sending' = [sending EXCEPT ![n] = Idle]
      /\ lines' = [lines EXCEPT ![n] = txq[n]]
  <2>1. txq' = [txq EXCEPT ![n] = txq[n]]
    BY DEF RadioTypeOK
  <2> QED
    BY <2>1, SentIs
<1>2. RadioTypeOK(Frame)'
  BY <1>1 DEF RadioTypeOK, SendingType
<1>3. /\ IsTail(txq[n], lines[n]) /\ lines[n][1] = sending[n].frame
      /\ sending[n].frame \in Frame /\ sending[n] \in SendingType
  BY LineIs
<1>4. sending[n].status \in Statuses
  BY <1>3 DEF SendingType, Statuses
<1> QED
  BY <1>1, <1>2, <1>3, <1>4

----------------------------------------------------------------------------
(* What the actions do to the lines, the banks and the entries.            *)
Outgoing(m) ==
  IF Relayed(m) THEN Forward(m, FreeBuffer(m.src)) ELSE Data(m.src, m, FreeBuffer(m.src))

LEMMA OutgoingIs ==
  ASSUME NEW m \in Message, FreeBuffer(m.src) \in Buffer
  PROVE  /\ Outgoing(m) \in Frame
         /\ Outgoing(m).src = m.src /\ Outgoing(m).msg = m /\ Outgoing(m).handle = m
         /\ Outgoing(m).buf = FreeBuffer(m.src)
         /\ Relayed(m) => Outgoing(m).dst = Coordinator
         /\ Outgoing(m).type = IF Relayed(m) THEN "FORWARD_PACKET" ELSE "DATA"
BY FramesBuilt, MessageShape DEF Outgoing

LEMMA SendDataIs ==
  ASSUME TypeOK, NEW m \in Message, NEW h \in BOOLEAN, SendData(m, h)
  PROVE  LET n == m.src
             b == FreeBuffer(m.src)
         IN  /\ TypeOK'
             /\ n \in Device /\ b \in Buffer /\ b \notin held[n] /\ m \notin sent
             /\ sent' = sent \union {m}
             /\ held' = [held EXCEPT ![n] = held[n] \union {b}]
             /\ \E l, t : QueuedBy(n, m, b, Outgoing(m), h, l, t)
             /\ Awaited(m) =>
                  /\ IsAppended(ackQ'[n], ackQ[n], Entry(m, b, SwAckTimeout + 1))
                  /\ \A k \in Device : k # n => ackQ'[k] = ackQ[k]
                  /\ macQ' = macQ
                  /\ timer' = [timer EXCEPT ![n] = TRUE]
             /\ ~ Awaited(m) =>
                  /\ IsAppended(macQ'[n], macQ[n], Entry(m, b, 0))
                  /\ \A k \in Device : k # n => macQ'[k] = macQ[k]
                  /\ UNCHANGED <<ackQ, timer>>
             /\ UNCHANGED <<sending, rx, confirmed, history>>
<1> DEFINE n == m.src
           b == FreeBuffer(m.src)
<1>1. /\ m \notin sent /\ held[n] # Buffer
      /\ sent' = sent \union {m}
      /\ held' = [held EXCEPT ![n] = held[n] \union {b}]
      /\ Put(n, m, b, Outgoing(m), h)
      /\ UNCHANGED <<sending, rx, confirmed, history>>
  BY DEF SendData, Outgoing, Put
<1>2. n \in Device
  BY MessageShape
<1>3. b \in Buffer /\ b \notin held[n]
  BY <1>1, <1>2, FreeBufferIs DEF TypeOK
<1> HIDE DEF n, b
<1>4. Outgoing(m) \in Frame
  BY <1>3, OutgoingIs DEF b
<1>5. /\ txq' \in [Device -> Seq(Frame)]
      /\ \E l, t : QueuedBy(n, m, b, Outgoing(m), h, l, t)
  <2>1. RadioTypeOK(Frame) /\ Put(n, m, b, Outgoing(m), h) /\ UNCHANGED sending
    BY <1>1 DEF TypeOK
  <2>2. PICK f : f = Outgoing(m)
    OBVIOUS
  <2>3. f \in Frame /\ Put(n, m, b, f, h)
    BY <1>4, <2>1, <2>2
  <2>4. txq' \in [Device -> Seq(Frame)] /\ \E l, t : QueuedBy(n, m, b, f, h, l, t)
    BY <1>2, <2>1, <2>3, QueuedIs
  <2> QED
    BY <2>2, <2>4
<1>6. RadioTypeOK(Frame)'
  BY <1>1, <1>5 DEF TypeOK, RadioTypeOK
<1>7. /\ held' \in [Device -> SUBSET Buffer] /\ sent' \subseteq Message
      /\ UNCHANGED <<left, relayed, used>>
  BY <1>1, <1>2, <1>3 DEF TypeOK, history
<1>8. CASE Awaited(m)
  <2> DEFINE e == Entry(m, b, SwAckTimeout + 1)
  <2>1. /\ ackQ' = [ackQ EXCEPT ![n] = Append(ackQ[n], e)]
        /\ timer' = [timer EXCEPT ![n] = TRUE] /\ macQ' = macQ
    BY <1>8 DEF SendData, n, b
  <2>2. e \in Entries
    <3>1. SwAckTimeout + 1 \in 0 .. SwAckTimeout + 1
      BY DataPathAssumption
    <3> QED
      BY <1>3, <3>1, EntryIs
  <2> HIDE DEF e
  <2>3. /\ ackQ' \in [Device -> Seq(Entries)] /\ IsAppended(ackQ'[n], ackQ[n], e)
        /\ \A k \in Device : k # n => ackQ'[k] = ackQ[k]
    BY <1>2, <2>1, <2>2, PutIs DEF TypeOK
  <2>4. TypeOK'
    <3>1. timer' \in [Device -> BOOLEAN]
      BY <2>1 DEF TypeOK
    <3> QED
      BY <1>1, <1>6, <1>7, <2>1, <2>3, <3>1 DEF TypeOK
  <2> QED
    BY <1>1, <1>2, <1>3, <1>5, <1>8, <2>1, <2>3, <2>4 DEF e, n, b
<1>9. CASE ~ Awaited(m)
  <2> DEFINE e == Entry(m, b, 0)
  <2>1. /\ macQ' = [macQ EXCEPT ![n] = Append(macQ[n], e)]
        /\ UNCHANGED <<ackQ, timer>>
    BY <1>9 DEF SendData, n, b
  <2>2. e \in Entries
    <3>1. 0 \in 0 .. SwAckTimeout + 1
      BY DataPathAssumption
    <3> QED
      BY <1>3, <3>1, EntryIs
  <2> HIDE DEF e
  <2>3. /\ macQ' \in [Device -> Seq(Entries)] /\ IsAppended(macQ'[n], macQ[n], e)
        /\ \A k \in Device : k # n => macQ'[k] = macQ[k]
    BY <1>2, <2>1, <2>2, PutIs DEF TypeOK
  <2>4. TypeOK'
    BY <1>1, <1>6, <1>7, <2>1, <2>3 DEF TypeOK
  <2> QED
    BY <1>1, <1>2, <1>3, <1>5, <1>9, <2>1, <2>3, <2>4 DEF e, n, b
<1> QED
  BY <1>8, <1>9

LEMMA TransmissionIs ==
  ASSUME TypeOK, NEW n \in Device, Transmission(n)
  PROVE  /\ TypeOK' /\ lines' = lines /\ Transmitted(n, Head(txq[n]))
         /\ UNCHANGED <<macQ, ackQ, held, timer, sent, confirmed, history>>
<1>1. /\ Transmit(n)
      /\ UNCHANGED <<macQ, ackQ, held, timer, sent, confirmed, history>>
  BY DEF Transmission
<1>2. Transmitted(n, Head(txq[n])) /\ lines' = lines
  BY <1>1, TransmitIs DEF TypeOK
<1>3. TypeOK'
  BY <1>1, <1>2 DEF TypeOK, Transmitted, history
<1> QED
  BY <1>1, <1>2, <1>3

(* A report of the radio takes the first frame off the line.               *)
Reported(n) ==
  /\ sending[n] # Idle /\ sending' = [sending EXCEPT ![n] = Idle]
  /\ IsTail(txq[n], lines[n]) /\ lines[n][1] = sending[n].frame
  /\ sending[n].frame \in Frame /\ sending[n].status \in Statuses

LEMMA MacAckOnlyIs ==
  ASSUME TypeOK, NEW n \in Device, MacAckOnly(n)
  PROVE  /\ TypeOK' /\ Reported(n) /\ WaitsForMac(sending[n].frame)
         /\ lines' = [lines EXCEPT ![n] = txq[n]]
         /\ Left(n) /\ sending[n].frame.msg \in Message
         /\ macQ[n] = <<>> => UNCHANGED <<macQ, confirmed, held>>
         /\ macQ[n] # <<>> =>
              /\ IsTail(macQ'[n], macQ[n])
              /\ \A k \in Device : k # n => macQ'[k] = macQ[k]
              /\ Confirm({macQ[n][1].msg}, sending[n].status)
              /\ FreeBufs(n, {macQ[n][1].buf})
         /\ UNCHANGED <<txq, rx, ackQ, timer, sent, relayed, used>>
<1>1. /\ sending[n] # Idle /\ WaitsForMac(sending[n].frame) /\ Sent(n) /\ Left(n)
      /\ UNCHANGED <<txq, rx, ackQ, timer, sent, relayed, used>>
  BY DEF MacAckOnly
<1>2. /\ RadioTypeOK(Frame)' /\ Reported(n)
      /\ lines' = [lines EXCEPT ![n] = txq[n]]
  BY <1>1, ReportIs DEF TypeOK, Reported
<1>3. sending[n].frame.msg \in Message /\ left' \subseteq Message
  <2>1. sending[n].frame.type # "DATA_TO_ENDDEV_SUCCESS"
    BY <1>1 DEF WaitsForMac
  <2>2. sending[n].frame.msg \in Message
    BY <1>2, <2>1, FrameShape DEF Reported
  <2> QED
    BY <1>1, <2>2 DEF TypeOK, Left
<1>4. CASE macQ[n] = <<>>
  <2>1. UNCHANGED <<macQ, confirmed, held>>
    BY <1>4 DEF MacAckOnly
  <2> QED
    BY <1>1, <1>2, <1>3, <1>4, <2>1 DEF TypeOK
<1>5. CASE macQ[n] # <<>>
  <2>1. /\ macQ' = [macQ EXCEPT ![n] = Tail(macQ[n])]
        /\ Confirm({Head(macQ[n]).msg}, sending[n].status)
        /\ FreeBufs(n, {Head(macQ[n]).buf})
    BY <1>5 DEF MacAckOnly
  <2>2. /\ macQ' \in [Device -> Seq(Entries)] /\ IsTail(macQ'[n], macQ[n])
        /\ Head(macQ[n]) = macQ[n][1]
        /\ \A k \in Device : k # n => macQ'[k] = macQ[k]
    <3>1. macQ \in [Device -> Seq(Entries)]
      BY DEF TypeOK
    <3> DEFINE Q2 == [macQ EXCEPT ![n] = Tail(macQ[n])]
    <3>2. /\ Q2 \in [Device -> Seq(Entries)] /\ IsTail(Q2[n], macQ[n])
          /\ Head(macQ[n]) = macQ[n][1]
          /\ \A k \in Device : k # n => Q2[k] = macQ[k]
      BY <1>5, <3>1, TakeIs
    <3> QED
      BY <2>1, <3>2
  <2>3. confirmed' \in [Message -> Seq(Statuses)]
    BY <1>2, <2>1, ConfirmIs DEF TypeOK, Reported
  <2>4. held' \in [Device -> SUBSET Buffer]
    BY <2>1, FreeBufsIs DEF TypeOK
  <2>5. TypeOK'
    BY <1>1, <1>2, <1>3, <2>2, <2>3, <2>4 DEF TypeOK
  <2> QED
    BY <1>1, <1>2, <1>3, <1>5, <2>1, <2>2, <2>5
<1> QED
  BY <1>4, <1>5

(* The entries that the sender, or the coordinator, is done with.          *)
FirstDone(n) ==
  {entry \in Entries : /\ sending[n].status # "SUCCESS"
                       /\ entry.msg = sending[n].frame.handle
                       /\ entry.buf = sending[n].frame.buf}
LastDone(n) == {entry \in Entries : entry.buf = sending[n].frame.buf}

(* The loop has been over the queue of board n.                            *)
SweptOnce(n, done, kept) ==
  /\ Derived(ackQ'[n], ackQ[n], done, kept)
  /\ \A k \in Device : k # n => ackQ'[k] = ackQ[k]

LEMMA SweepIs ==
  ASSUME NEW n \in Device, NEW done, NEW kept, KeepsOwner(kept),
         ackQ \in [Device -> Seq(Entries)],
         ackQ' = [ackQ EXCEPT ![n] = Swept(ackQ[n], done, kept)]
  PROVE  ackQ' \in [Device -> Seq(Entries)] /\ SweptOnce(n, done, kept)
<1>1. Derived(Swept(ackQ[n], done, kept), ackQ[n], done, kept)
  BY SweptDerived
<1>2. Swept(ackQ[n], done, kept) \in Seq(Entries)
  BY <1>1 DEF Derived
<1>3. ackQ'[n] = Swept(ackQ[n], done, kept) /\ \A k \in Device : k # n => ackQ'[k] = ackQ[k]
  OBVIOUS
<1> QED
  BY <1>1, <1>2, <1>3 DEF SweptOnce

LEMMA FirstHopIs ==
  ASSUME TypeOK, NEW n \in Device, FirstHop(n)
  PROVE  /\ TypeOK' /\ Reported(n) /\ WaitsForApp(sending[n].frame) /\ n # Coordinator
         /\ lines' = [lines EXCEPT ![n] = txq[n]]
         /\ SweptOnce(n, FirstDone(n), Unchanged)
         /\ Confirm(Messages(ackQ[n]) \ Messages(ackQ'[n]), sending[n].status)
         /\ FreeBufs(n, Bufs(ackQ[n]) \ Bufs(ackQ'[n]))
         /\ UNCHANGED <<txq, rx, macQ, timer, sent, history>>
<1> DEFINE q == Swept(ackQ[n], FirstDone(n), Unchanged)
<1>1. /\ n # Coordinator
      /\ sending[n] # Idle /\ WaitsForApp(sending[n].frame) /\ Sent(n)
      /\ ackQ' = [ackQ EXCEPT ![n] = q]
      /\ Confirm(Messages(ackQ[n]) \ Messages(q), sending[n].status)
      /\ FreeBufs(n, Bufs(ackQ[n]) \ Bufs(q))
      /\ UNCHANGED <<txq, rx, macQ, timer, sent, history>>
  BY DEF FirstHop, FirstDone
<1>2. /\ RadioTypeOK(Frame)' /\ Reported(n)
      /\ lines' = [lines EXCEPT ![n] = txq[n]]
  BY <1>1, ReportIs DEF TypeOK, Reported
<1>3. ackQ' \in [Device -> Seq(Entries)] /\ SweptOnce(n, FirstDone(n), Unchanged)
  BY <1>1, KeptOwners, SweepIs DEF TypeOK
<1>4. ackQ'[n] = q
  BY <1>1 DEF TypeOK
<1> HIDE DEF q
<1>5. confirmed' \in [Message -> Seq(Statuses)]
  BY <1>1, <1>2, ConfirmIs DEF TypeOK, Reported
<1>6. held' \in [Device -> SUBSET Buffer]
  BY <1>1, FreeBufsIs DEF TypeOK
<1>7. TypeOK'
  BY <1>1, <1>2, <1>3, <1>5, <1>6 DEF TypeOK, history
<1> QED
  BY <1>1, <1>2, <1>3, <1>4, <1>7

(* The coordinator tells a member that its message arrived.                *)
Tells ==
  /\ sending[Coordinator].status = "SUCCESS"
  /\ Swept(ackQ[Coordinator], LastDone(Coordinator), Unchanged) # ackQ[Coordinator]
  /\ sending[Coordinator].frame.msg.src \in Member

(* What it queues then.                                                    *)
Told(h) ==
  IF Tells /\ h THEN Append(txq[Coordinator], Success(sending[Coordinator].frame.msg.src, Len(relayed')))
  ELSE txq[Coordinator]

LEMMA LastHopIs ==
  ASSUME TypeOK, NEW h \in BOOLEAN, LastHop(h)
  PROVE  LET n == Coordinator
             f == sending[Coordinator].frame
         IN  /\ TypeOK' /\ Reported(n) /\ WaitsForApp(f)
             /\ relayed' = Arrivals(f, sending[n].status)
             /\ f.msg \in Message /\ Success(f.msg.src, Len(relayed')) \in Frame
             /\ lines' = [lines EXCEPT ![n] = Told(h)] /\ txq' = [txq EXCEPT ![n] = Told(h)]
             /\ SweptOnce(n, LastDone(n), Unchanged)
             /\ IF Tells /\ ~ h THEN UNCHANGED held
                ELSE FreeBufs(n, Bufs(ackQ[n]) \ Bufs(ackQ'[n]))
             /\ UNCHANGED <<rx, macQ, timer, sent, confirmed, left, used>>
<1> DEFINE n == Coordinator
           f == sending[n].frame
           q == Swept(ackQ[n], LastDone(n), Unchanged)
<1>1. /\ sending[n] # Idle /\ WaitsForApp(f) /\ Sent(n)
      /\ relayed' = Arrivals(f, sending[n].status)
      /\ ackQ' = [ackQ EXCEPT ![n] = q]
      /\ IF Tells THEN Queue(n, Success(f.msg.src, Len(relayed')), h) ELSE UNCHANGED txq
      /\ IF Tells /\ ~ h THEN UNCHANGED held ELSE FreeBufs(n, Bufs(ackQ[n]) \ Bufs(q))
      /\ UNCHANGED <<rx, macQ, timer, sent, confirmed, left, used>>
  BY DEF LastHop, LastDone, Tells
<1>2. n \in Device
  BY DataPathAssumption
<1>3. /\ IsTail(txq[n], lines[n]) /\ lines[n][1] = f /\ f \in Frame
      /\ sending[n] \in SendingType /\ txq[n] \in Seq(Frame)
  BY <1>1, <1>2, LineIs DEF TypeOK
<1>4. f.msg \in Message /\ f.msg.src \in Device
  <2>1. f.type # "DATA_TO_ENDDEV_SUCCESS"
    BY <1>1 DEF WaitsForApp
  <2>2. f.msg \in Message
    BY <1>3, <2>1, FrameShape
  <2> QED
    BY <2>2, MessageShape
<1>5. Reported(n)
  BY <1>1, <1>3 DEF Reported, Sent, SendingType, Statuses
<1>6. ackQ' \in [Device -> Seq(Entries)] /\ SweptOnce(n, LastDone(n), Unchanged)
  BY <1>1, <1>2, KeptOwners, SweepIs DEF TypeOK
<1>7. ackQ'[n] = q
  BY <1>1, <1>2 DEF TypeOK
<1> HIDE DEF q
<1>8. relayed' \in Seq(Device) /\ Len(relayed') \in Nat
  <2>1. relayed \in Seq(Device)
    BY DEF TypeOK
  <2>2. Append(relayed, f.msg.src) \in Seq(Device)
    BY <1>4, <2>1, AppendIs
  <2>3. relayed' \in Seq(Device)
    BY <1>1, <2>1, <2>2 DEF Arrivals
  <2> QED
    BY <2>3, LenProperties
<1> DEFINE g == Success(f.msg.src, Len(relayed'))
<1>9. g \in Frame
  BY <1>4, <1>8, SuccessBuilt
<1> HIDE DEF g
<1>10. PICK p : p = Told(h)
  OBVIOUS
<1>11. p = IF Tells /\ h THEN Append(txq[n], g) ELSE txq[n]
  BY <1>10 DEF Told, g
<1>12. txq' = [txq EXCEPT ![n] = p]
  <2>1. txq = [txq EXCEPT ![n] = txq[n]]
    BY DEF TypeOK, RadioTypeOK
  <2> QED
    BY <1>1, <1>11, <2>1 DEF Queue, g
<1>13. p \in Seq(Frame)
  BY <1>3, <1>9, <1>11, AppendIs
<1>14. /\ sending' \in [Device -> SendingType \union {Idle}]
       /\ lines' = [lines EXCEPT ![n] = p]
  BY <1>1, <1>2, <1>12, SentIs DEF TypeOK
<1>15. RadioTypeOK(Frame)'
  <2>1. txq' \in [Device -> Seq(Frame)]
    BY <1>12, <1>13 DEF TypeOK, RadioTypeOK
  <2> QED
    BY <1>1, <1>14, <2>1 DEF TypeOK, RadioTypeOK, SendingType
<1>16. held' \in [Device -> SUBSET Buffer]
  BY <1>1, <1>2, FreeBufsIs DEF TypeOK
<1>17. TypeOK'
  BY <1>1, <1>6, <1>8, <1>15, <1>16 DEF TypeOK
<1> QED
  BY <1>1, <1>4, <1>5, <1>6, <1>7, <1>9, <1>10, <1>12, <1>14, <1>17 DEF g

LEMMA CommandSentIs ==
  ASSUME TypeOK, NEW n \in Device, CommandSent(n)
  PROVE  /\ TypeOK' /\ Reported(n) /\ sending[n].frame.type = "DATA_TO_ENDDEV_SUCCESS"
         /\ lines' = [lines EXCEPT ![n] = txq[n]]
         /\ UNCHANGED <<txq, rx, macQ, ackQ, held, timer, sent, confirmed, history>>
<1>1. /\ sending[n].frame.type = "DATA_TO_ENDDEV_SUCCESS" /\ Sent(n)
      /\ UNCHANGED <<txq, rx, macQ, ackQ, held, timer, sent, confirmed, history>>
  BY DEF CommandSent
<1>2. sending[n] # Idle
  BY <1>1 DEF Idle, NoFrame
<1>3. /\ RadioTypeOK(Frame)' /\ Reported(n)
      /\ lines' = [lines EXCEPT ![n] = txq[n]]
  BY <1>1, <1>2, ReportIs DEF TypeOK, Reported
<1> QED
  BY <1>1, <1>3 DEF TypeOK, history

(* A frame of some type is taken from a bank.                              *)
Fetched(n, type) ==
  /\ \A k \in Device, b \in Bank : rx'[k][b] = rx[k][b] \/ rx'[k][b] = NoFrame
  /\ \E b \in Bank : Received(n) = rx[n][b] /\ rx'[n][b] = NoFrame
  /\ Received(n) \in Frame /\ Received(n) # NoFrame /\ Received(n).type = type

LEMMA ReceiveForwardIs ==
  ASSUME TypeOK, NEW h \in BOOLEAN, ReceiveForward(h)
  PROVE  LET n == Coordinator
             m == Received(Coordinator).msg
             b == FreeBuffer(Coordinator)
             takes == m.dst \in Member /\ held[n] # Buffer
         IN  /\ TypeOK' /\ Fetched(n, "FORWARD_PACKET") /\ m \in Message
             /\ takes =>
                  /\ b \in Buffer /\ b \notin held[n]
                  /\ held' = [held EXCEPT ![n] = held[n] \union {b}]
                  /\ \E l, t : QueuedBy(n, m, b, Data(n, m, b), h, l, t)
                  /\ IsAppended(ackQ'[n], ackQ[n], Entry(m, b, 0))
                  /\ \A k \in Device : k # n => ackQ'[k] = ackQ[k]
             /\ ~ takes => lines' = lines /\ UNCHANGED <<held, txq, ackQ>>
             /\ UNCHANGED <<sending, macQ, timer, sent, confirmed, history>>
<1> DEFINE n == Coordinator
           m == Received(n).msg
           b == FreeBuffer(n)
           takes == m.dst \in Member /\ held[n] # Buffer
<1>1. /\ Receive(n, "FORWARD_PACKET")
      /\ UNCHANGED <<sending, macQ, timer, sent, confirmed, history>>
      /\ takes => /\ held' = [held EXCEPT ![n] = held[n] \union {b}]
                  /\ Put(n, m, b, Data(n, m, b), h)
                  /\ ackQ' = [ackQ EXCEPT ![n] = Append(ackQ[n], Entry(m, b, 0))]
      /\ ~ takes => UNCHANGED <<held, txq, ackQ>>
  BY DEF ReceiveForward, Put
<1>2. n \in Device
  BY DataPathAssumption
<1>3. /\ Fetched(n, "FORWARD_PACKET")
      /\ rx' \in [Device -> [Bank -> Frame \union {NoFrame}]]
  BY <1>1, <1>2, ReceiveIs DEF TypeOK, Fetched
<1>4. m \in Message /\ UNCHANGED <<left, relayed, used>>
  BY <1>1, <1>3, FrameShape DEF Fetched, history
<1>5. CASE takes
  <2>1. b \in Buffer /\ b \notin held[n]
    BY <1>2, <1>5, FreeBufferIs DEF TypeOK
  <2> HIDE DEF b, m, n
  <2>2. Data(n, m, b) \in Frame
    BY <1>2, <1>4, <2>1, FramesBuilt
  <2> DEFINE e == Entry(m, b, 0)
  <2>3. e \in Entries
    <3>1. 0 \in 0 .. SwAckTimeout + 1
      BY DataPathAssumption
    <3> QED
      BY <1>4, <2>1, <3>1, EntryIs
  <2> HIDE DEF e
  <2>4. /\ txq' \in [Device -> Seq(Frame)]
        /\ \E l, t : QueuedBy(n, m, b, Data(n, m, b), h, l, t)
    <3>1. RadioTypeOK(Frame) /\ Put(n, m, b, Data(n, m, b), h) /\ UNCHANGED sending
      BY <1>1, <1>5 DEF TypeOK
    <3>2. PICK f : f = Data(n, m, b)
      OBVIOUS
    <3>3. f \in Frame /\ Put(n, m, b, f, h)
      BY <2>2, <3>1, <3>2
    <3>4. txq' \in [Device -> Seq(Frame)] /\ \E l, t : QueuedBy(n, m, b, f, h, l, t)
      BY <1>2, <1>4, <3>1, <3>3, QueuedIs
    <3> QED
      BY <3>2, <3>4
  <2>5. /\ ackQ' \in [Device -> Seq(Entries)] /\ IsAppended(ackQ'[n], ackQ[n], e)
        /\ \A k \in Device : k # n => ackQ'[k] = ackQ[k]
    <3>1. ackQ' = [ackQ EXCEPT ![n] = Append(ackQ[n], e)]
      BY <1>1, <1>5 DEF e
    <3>2. ackQ \in [Device -> Seq(Entries)]
      BY DEF TypeOK
    <3> QED
      BY <1>2, <2>3, <3>1, <3>2, PutIs
  <2>6. held' \in [Device -> SUBSET Buffer]
    <3>1. held' = [held EXCEPT ![n] = held[n] \union {b}]
      BY <1>1, <1>5
    <3>2. held \in [Device -> SUBSET Buffer]
      BY DEF TypeOK
    <3> QED
      BY <1>2, <2>1, <3>1, <3>2
  <2>7. RadioTypeOK(Frame)'
    BY <1>1, <1>3, <2>4 DEF TypeOK, RadioTypeOK
  <2>8. TypeOK'
    BY <1>1, <1>4, <2>5, <2>6, <2>7 DEF TypeOK
  <2> QED
    BY <1>1, <1>3, <1>4, <1>5, <2>1, <2>4, <2>5, <2>8 DEF e, b, m, n
<1>6. CASE ~ takes
  <2>1. UNCHANGED <<held, txq, ackQ>> /\ lines' = lines
    BY <1>1, <1>6, LinesSame
  <2>2. TypeOK'
    BY <1>1, <1>3, <1>4, <2>1 DEF TypeOK, RadioTypeOK
  <2> QED
    BY <1>1, <1>3, <1>4, <1>6, <2>1, <2>2
<1> QED
  BY <1>5, <1>6

LEMMA ReceiveSuccessIs ==
  ASSUME TypeOK, NEW n \in Device, ReceiveSuccess(n)
  PROVE  /\ TypeOK' /\ Fetched(n, "DATA_TO_ENDDEV_SUCCESS") /\ lines' = lines
         /\ ackQ[n] = <<>> => UNCHANGED <<ackQ, confirmed, held, used>>
         /\ ackQ[n] # <<>> =>
              /\ IsTail(ackQ'[n], ackQ[n])
              /\ \A k \in Device : k # n => ackQ'[k] = ackQ[k]
              /\ Confirm({ackQ[n][1].msg}, "SUCCESS")
              /\ FreeBufs(n, {ackQ[n][1].buf})
              /\ used' = used \union {Received(n).place}
         /\ UNCHANGED <<txq, sending, macQ, timer, sent, left, relayed>>
<1>1. /\ Receive(n, "DATA_TO_ENDDEV_SUCCESS")
      /\ UNCHANGED <<txq, sending, macQ, timer, sent, left, relayed>>
  BY DEF ReceiveSuccess
<1>2. /\ Fetched(n, "DATA_TO_ENDDEV_SUCCESS")
      /\ rx' \in [Device -> [Bank -> Frame \union {NoFrame}]]
  BY <1>1, ReceiveIs DEF TypeOK, Fetched
<1>3. lines' = lines
  BY <1>1, LinesSame
<1>4. RadioTypeOK(Frame)'
  BY <1>1, <1>2 DEF TypeOK, RadioTypeOK
<1>5. CASE ackQ[n] = <<>>
  <2>1. UNCHANGED <<ackQ, confirmed, held, used>>
    BY <1>5 DEF ReceiveSuccess
  <2> QED
    BY <1>1, <1>2, <1>3, <1>4, <1>5, <2>1 DEF TypeOK
<1>6. CASE ackQ[n] # <<>>
  <2>1. /\ ackQ' = [ackQ EXCEPT ![n] = Tail(ackQ[n])]
        /\ Confirm({Head(ackQ[n]).msg}, "SUCCESS")
        /\ FreeBufs(n, {Head(ackQ[n]).buf})
        /\ used' = used \union {Received(n).place}
    BY <1>6 DEF ReceiveSuccess
  <2>2. /\ ackQ' \in [Device -> Seq(Entries)] /\ IsTail(ackQ'[n], ackQ[n])
        /\ Head(ackQ[n]) = ackQ[n][1]
        /\ \A k \in Device : k # n => ackQ'[k] = ackQ[k]
    <3>1. ackQ \in [Device -> Seq(Entries)]
      BY DEF TypeOK
    <3> DEFINE Q2 == [ackQ EXCEPT ![n] = Tail(ackQ[n])]
    <3>2. /\ Q2 \in [Device -> Seq(Entries)] /\ IsTail(Q2[n], ackQ[n])
          /\ Head(ackQ[n]) = ackQ[n][1]
          /\ \A k \in Device : k # n => Q2[k] = ackQ[k]
      BY <1>6, <3>1, TakeIs
    <3> QED
      BY <2>1, <3>2
  <2>3. confirmed' \in [Message -> Seq(Statuses)]
    <3>1. "SUCCESS" \in Statuses
      BY DEF Statuses
    <3> QED
      BY <2>1, <3>1, ConfirmIs DEF TypeOK
  <2>4. held' \in [Device -> SUBSET Buffer]
    BY <2>1, FreeBufsIs DEF TypeOK
  <2>5. used' \subseteq Nat
    <3>1. Received(n).place \in Nat
      BY <1>2, FrameShape DEF Fetched
    <3> QED
      BY <2>1, <3>1 DEF TypeOK
  <2>6. TypeOK'
    BY <1>1, <1>4, <2>2, <2>3, <2>4, <2>5 DEF TypeOK
  <2> QED
    BY <1>1, <1>2, <1>3, <1>6, <2>1, <2>2, <2>6
<1> QED
  BY <1>5, <1>6

LEMMA ReceiveDataIs ==
  ASSUME TypeOK, NEW n \in Device, ReceiveData(n)
  PROVE  /\ TypeOK' /\ Fetched(n, "DATA") /\ lines' = lines
         /\ UNCHANGED <<txq, sending, macQ, ackQ, held, timer, sent, confirmed, history>>
<1>1. /\ Receive(n, "DATA")
      /\ UNCHANGED <<txq, sending, macQ, ackQ, held, timer, sent, confirmed, history>>
  BY DEF ReceiveData
<1>2. /\ Fetched(n, "DATA")
      /\ rx' \in [Device -> [Bank -> Frame \union {NoFrame}]]
  BY <1>1, ReceiveIs DEF TypeOK, Fetched
<1>3. lines' = lines
  BY <1>1, LinesSame
<1>4. TypeOK'
  BY <1>1, <1>2 DEF TypeOK, RadioTypeOK, history
<1> QED
  BY <1>1, <1>2, <1>3, <1>4

LEMMA DataTimerIs ==
  ASSUME TypeOK, NEW n \in Device, DataTimer(n)
  PROVE  LET gone == Messages(ackQ[n]) \ Messages(ackQ'[n])
         IN  /\ TypeOK' /\ lines' = lines
             /\ timer[n] /\ SweptOnce(n, Expired, Older)
             /\ Confirm(gone, "NO_ACK")
             /\ FreeBufs(n, Bufs(ackQ[n]) \ Bufs(ackQ'[n]))
             /\ timer' = [timer EXCEPT ![n] = ackQ'[n] # <<>>]
             /\ UNCHANGED <<radio, macQ, sent, history>>
<1> DEFINE q == Swept(ackQ[n], Expired, Older)
           gone == Messages(ackQ[n]) \ Messages(q)
<1>1. /\ timer[n]
      /\ ackQ' = [ackQ EXCEPT ![n] = q]
      /\ Confirm(gone, "NO_ACK")
      /\ FreeBufs(n, Bufs(ackQ[n]) \ Bufs(q))
      /\ timer' = [timer EXCEPT ![n] = q # <<>>]
      /\ UNCHANGED <<radio, macQ, sent, history>>
  BY DEF DataTimer
<1>2. ackQ' \in [Device -> Seq(Entries)] /\ SweptOnce(n, Expired, Older)
  BY <1>1, KeptOwners, SweepIs DEF TypeOK
<1>3. ackQ'[n] = q
  BY <1>1 DEF TypeOK
<1> HIDE DEF q
<1>4. confirmed' \in [Message -> Seq(Statuses)]
  <2>1. "NO_ACK" \in Statuses
    BY DEF Statuses
  <2> QED
    BY <1>1, <2>1, ConfirmIs DEF TypeOK
<1>5. held' \in [Device -> SUBSET Buffer]
  BY <1>1, FreeBufsIs DEF TypeOK
<1>6. RadioTypeOK(Frame)' /\ lines' = lines
  <2>1. UNCHANGED <<txq, sending, rx>>
    BY <1>1 DEF radio
  <2> QED
    BY <2>1, LinesSame DEF TypeOK, RadioTypeOK
<1>7. timer' \in [Device -> BOOLEAN]
  <2>1. (q # <<>>) \in BOOLEAN
    OBVIOUS
  <2> QED
    BY <1>1, <2>1 DEF TypeOK
<1>8. TypeOK'
  BY <1>1, <1>2, <1>4, <1>5, <1>6, <1>7 DEF TypeOK, history
<1> QED
  BY <1>1, <1>2, <1>3, <1>6, <1>8

----------------------------------------------------------------------------
(* The lines after a step.                                                 *)
LEMMA LinesAt ==
  ASSUME NEW n \in Device, NEW q, lines' = [lines EXCEPT ![n] = q]
  PROVE  lines'[n] = q /\ \A k \in Device : k # n => lines'[k] = lines[k]
BY DEF lines

LEMMA ElementsRenewed ==
  ASSUME NEW l, NEW q, NEW m, NEW b, Renewed(l, q, m, b)
  PROVE  \A g \in Elements(l) :
           g \in Elements(q)
             \/ \E f \in Elements(q) : f \in Pointing /\ f.buf = b /\ g = Again(f, m)
<1>1. DOMAIN l = DOMAIN q
  BY DEF Renewed
<1>2. \A k \in DOMAIN q :
        l[k] = q[k] \/ (q[k] \in Pointing /\ q[k].buf = b /\ l[k] = Again(q[k], m))
  BY DEF Renewed
<1> QED
  BY <1>1, <1>2 DEF Elements

LEMMA LineLonger ==
  ASSUME TypeOK, NEW n \in Device, NEW m, NEW b, NEW f \in Frame, NEW h \in BOOLEAN,
         NEW l, NEW t, QueuedBy(n, m, b, f, h, l, t)
  PROVE  /\ \A k \in Device : k # n => lines'[k] = lines[k]
         /\ IF h THEN IsAppended(lines'[n], l, f) ELSE lines'[n] = l
         /\ Elements(lines'[n]) \subseteq Elements(l) \union {f}
         /\ \A k \in Device : \A g \in Elements(lines'[k]) :
              \/ g \in Elements(lines[k])
              \/ k = n /\ g = f
              \/ k = n /\ \E o \in Elements(lines[n]) :
                   o \in Pointing /\ o.buf = b /\ g = Again(o, m)
<1>1. /\ Renewed(l, lines[n], m, b)
      /\ lines' = [lines EXCEPT ![n] = IF h THEN Append(l, f) ELSE l]
  BY DEF QueuedBy
<1>2. /\ lines'[n] = IF h THEN Append(l, f) ELSE l
      /\ \A k \in Device : k # n => lines'[k] = lines[k]
  <2>1. PICK g : g = IF h THEN Append(l, f) ELSE l
    OBVIOUS
  <2> QED
    BY <1>1, <2>1, LinesAt
<1>3. l \in Seq(Frame)
  BY <1>1 DEF Renewed
<1>4. IsAppended(Append(l, f), l, f)
  BY <1>3, AppendIs
<1>5. Elements(Append(l, f)) = Elements(l) \union {f}
  BY <1>4, AppendedPlaces
<1>6. Elements(lines'[n]) \subseteq Elements(l) \union {f}
  BY <1>2, <1>5
<1>7. \A g \in Elements(l) :
        g \in Elements(lines[n])
          \/ \E o \in Elements(lines[n]) : o \in Pointing /\ o.buf = b /\ g = Again(o, m)
  BY <1>1, ElementsRenewed
<1> QED
  BY <1>2, <1>4, <1>6, <1>7

LEMMA LineAppended ==
  ASSUME TypeOK, NEW n \in Device, NEW m, NEW b, NEW f \in Frame,
         NEW l, NEW t, QueuedBy(n, m, b, f, TRUE, l, t)
  PROVE  /\ IsAppended(lines'[n], l, f)
         /\ \A k \in Device : k # n => lines'[k] = lines[k]
BY LineLonger

LEMMA LineShorter ==
  ASSUME TypeOK, NEW n \in Device, Reported(n), lines' = [lines EXCEPT ![n] = txq[n]]
  PROVE  /\ lines'[n] = txq[n] /\ \A k \in Device : k # n => lines'[k] = lines[k]
         /\ \A k \in Device : Elements(lines'[k]) \subseteq Elements(lines[k])
         /\ sending[n].frame \in Elements(lines[n])
<1>1. lines'[n] = txq[n] /\ \A k \in Device : k # n => lines'[k] = lines[k]
  BY LinesAt
<1>2. Elements(lines[n]) = Elements(txq[n]) \union {sending[n].frame}
  BY TailPlaces DEF Reported
<1> QED
  BY <1>1, <1>2

----------------------------------------------------------------------------
(* Frames and entries stay formed.                                         *)
LEMMA FormedFrom ==
  ASSUME Formed, TypeOK', sent \subseteq sent', ~ timer'[Coordinator],
         \A n \in Device : \A f \in Elements(lines'[n]) :
           f \in Elements(lines[n]) \/ (Taken(f, sent') /\ Own(n, f)),
         \A n \in Device, b \in Bank :
           \/ rx'[n][b] = rx[n][b] \/ rx'[n][b] = NoFrame
           \/ Taken(rx'[n][b], sent') /\ Heard(n, rx'[n][b]),
         \A n \in Device : \A m \in Messages(macQ'[n]) :
           m \in Messages(macQ[n]) \/ (m \in sent' /\ MacEntry(n, m)),
         \A n \in Device : \A m \in Messages(ackQ'[n]) :
           m \in Messages(ackQ[n]) \/ (m \in sent' /\ AckEntry(n, m))
  PROVE  Formed'
<1>1. \A n \in Device : \A f \in Elements(lines'[n]) : Taken(f, sent') /\ Own(n, f)
  BY DEF Formed, FramesFormed, Taken
<1>2. \A n \in Device, b \in Bank :
        rx'[n][b] = NoFrame \/ (Taken(rx'[n][b], sent') /\ Heard(n, rx'[n][b]))
  <2> TAKE n \in Device, b \in Bank
  <2>1. CASE rx'[n][b] = rx[n][b]
    BY <2>1 DEF Formed, FramesFormed, Taken
  <2> QED
    BY <2>1
<1>3. \A n \in Device : \A m \in Messages(macQ'[n]) : m \in sent' /\ MacEntry(n, m)
  BY DEF Formed, EntriesFormed
<1>4. \A n \in Device : \A m \in Messages(ackQ'[n]) : m \in sent' /\ AckEntry(n, m)
  BY DEF Formed, EntriesFormed
<1>5. FramesFormed'
  BY <1>1, <1>2 DEF FramesFormed
<1>6. EntriesFormed'
  BY <1>3, <1>4 DEF EntriesFormed
<1> QED
  BY <1>5, <1>6 DEF Formed

LEMMA OwnAgain ==
  ASSUME NEW n \in Device, NEW f \in Pointing, Own(n, f), NEW m \in Message,
         n = m.src \/ n = Coordinator
  PROVE  Own(n, Again(f, m))
<1>1. PICK g : g = Again(f, m)
  OBVIOUS
<1>2. g.type = f.type /\ g.src = f.src /\ g.dst = f.dst /\ g.handle = f.handle /\ g.msg = m
  BY <1>1, AgainIs
<1>3. f.type = "FORWARD_PACKET" => n # Coordinator
  BY DEF Own, Relayed
<1>4. Own(n, g)
  BY <1>2, <1>3 DEF Own
<1> QED
  BY <1>1, <1>4

(* What is queued, with what is written again, is formed.                  *)
LEMMA FormedQueued ==
  ASSUME Formed, NEW n \in Device, NEW m \in Message, NEW b, NEW f \in Frame, NEW h \in BOOLEAN,
         \E l, t : QueuedBy(n, m, b, f, h, l, t),
         Own(n, f), f.msg = m, m \in sent', n = m.src \/ n = Coordinator
  PROVE  \A k \in Device : \A g \in Elements(lines'[k]) :
           g \in Elements(lines[k]) \/ (Taken(g, sent') /\ Own(k, g))
<1>1. PICK l, t : QueuedBy(n, m, b, f, h, l, t)
  OBVIOUS
<1>2. \A k \in Device : \A g \in Elements(lines'[k]) :
        \/ g \in Elements(lines[k])
        \/ k = n /\ g = f
        \/ k = n /\ \E o \in Elements(lines[n]) :
             o \in Pointing /\ o.buf = b /\ g = Again(o, m)
  BY <1>1, LineLonger DEF Formed
<1>3. Taken(f, sent')
  BY DEF Taken
<1>4. ASSUME NEW o \in Elements(lines[n]), o \in Pointing
      PROVE  Taken(Again(o, m), sent') /\ Own(n, Again(o, m))
  <2>1. Own(n, o)
    BY DEF Formed, FramesFormed
  <2>2. Own(n, Again(o, m))
    BY <1>4, <2>1, OwnAgain
  <2>3. Again(o, m).msg = m
    BY <1>4, AgainIs
  <2> QED
    BY <2>2, <2>3 DEF Taken
<1> QED
  BY <1>2, <1>3, <1>4

LEMMA FormedSendData ==
  ASSUME Formed, NEW m \in Message, NEW h \in BOOLEAN, SendData(m, h)
  PROVE  Formed'
<1> DEFINE n == m.src
           b == FreeBuffer(m.src)
           f == Outgoing(m)
<1>1. /\ TypeOK' /\ n \in Device /\ b \in Buffer
      /\ sent' = sent \union {m} /\ rx' = rx
      /\ \E l, t : QueuedBy(n, m, b, f, h, l, t)
  BY SendDataIs DEF Formed
<1>2. f \in Frame /\ f.msg = m /\ Own(n, f)
  <2>1. /\ f \in Frame /\ f.src = n /\ f.msg = m /\ f.handle = m
        /\ f.type = IF Relayed(m) THEN "FORWARD_PACKET" ELSE "DATA"
        /\ Relayed(m) => f.dst = Coordinator
    BY <1>1, OutgoingIs
  <2> HIDE DEF f
  <2> QED
    BY <1>1, <2>1, MessageShape DEF Own
<1>3. \A k \in Device : \A g \in Elements(lines'[k]) :
        g \in Elements(lines[k]) \/ (Taken(g, sent') /\ Own(k, g))
  <2>1. m \in sent' /\ n = m.src
    BY <1>1
  <2> HIDE DEF f, n, b
  <2> QED
    BY <1>1, <1>2, <2>1, FormedQueued
<1>4. CASE Awaited(m)
  <2>1. /\ IsAppended(ackQ'[n], ackQ[n], Entry(m, b, SwAckTimeout + 1))
        /\ \A k \in Device : k # n => ackQ'[k] = ackQ[k]
        /\ macQ' = macQ /\ timer' = [timer EXCEPT ![n] = TRUE]
    BY <1>4, SendDataIs DEF Formed
  <2>2. n # Coordinator /\ AckEntry(n, m)
    BY <1>1, <1>4, MessageShape DEF AckEntry
  <2>3. Messages(ackQ'[n]) = Messages(ackQ[n]) \union {m}
    BY <2>1, OwnersOfAppended DEF Entry
  <2> HIDE DEF n, f, b
  <2>4. \A k \in Device : \A l \in Messages(ackQ'[k]) :
          l \in Messages(ackQ[k]) \/ (l \in sent' /\ AckEntry(k, l))
    BY <1>1, <2>1, <2>2, <2>3
  <2>5. ~ timer'[Coordinator]
    BY <2>1, <2>2 DEF Formed, EntriesFormed, TypeOK
  <2> QED
    BY <1>1, <1>3, <2>1, <2>4, <2>5, FormedFrom
<1>5. CASE ~ Awaited(m)
  <2>1. /\ IsAppended(macQ'[n], macQ[n], Entry(m, b, 0))
        /\ \A k \in Device : k # n => macQ'[k] = macQ[k]
        /\ UNCHANGED <<ackQ, timer>>
    BY <1>5, SendDataIs DEF Formed
  <2>2. MacEntry(n, m)
    BY <1>5 DEF MacEntry
  <2>3. Messages(macQ'[n]) = Messages(macQ[n]) \union {m}
    BY <2>1, OwnersOfAppended DEF Entry
  <2> HIDE DEF n, f, b
  <2>4. \A k \in Device : \A l \in Messages(macQ'[k]) :
          l \in Messages(macQ[k]) \/ (l \in sent' /\ MacEntry(k, l))
    BY <1>1, <2>1, <2>2, <2>3
  <2>5. ~ timer'[Coordinator]
    BY <2>1 DEF Formed, EntriesFormed
  <2> QED
    BY <1>1, <1>3, <2>1, <2>4, <2>5, FormedFrom
<1> QED
  BY <1>4, <1>5

LEMMA HeardFrom ==
  ASSUME NEW n \in Device, NEW k \in Device, NEW f \in Frame, Own(n, f), Addressed(k, f)
  PROVE  Heard(k, f)
<1>1. k = f.dst \/ f.dst = Broadcast
  BY DEF Addressed
<1>2. f.type = "FORWARD_PACKET" => k = Coordinator /\ f.msg.src # Coordinator
  BY <1>1, BroadcastAssumption, DataPathAssumption DEF Own, Relayed
<1>3. f.type = "DATA_TO_ENDDEV_SUCCESS" => k = f.dst /\ k # Coordinator
  BY <1>1, FrameShape, BroadcastAssumption DEF Own
<1> QED
  BY <1>2, <1>3 DEF Heard

LEMMA FormedTransmission ==
  ASSUME Formed, NEW n \in Device, Transmission(n)
  PROVE  Formed'
<1> DEFINE f == Head(txq[n])
<1>1. /\ TypeOK' /\ lines' = lines /\ Transmitted(n, f)
      /\ UNCHANGED <<macQ, ackQ, held, timer, sent, confirmed, history>>
  BY TransmissionIs DEF Formed
<1> HIDE DEF f
<1>2. /\ f \in Frame /\ f \in Elements(lines[n])
      /\ \A k \in Device, b \in Bank :
           rx'[k][b] = rx[k][b] \/ (rx'[k][b] = f /\ Addressed(k, f))
  <2>1. f \in Frame /\ sending[n] = Idle /\ IsTail(txq'[n], txq[n]) /\ txq[n][1] = f
    BY <1>1 DEF Transmitted
  <2>2. lines[n] = txq[n]
    BY <2>1, LineIs DEF Formed, TypeOK
  <2>3. f \in Elements(lines[n])
    BY <2>1, <2>2, TailPlaces
  <2> QED
    BY <1>1, <2>1, <2>3 DEF Transmitted
<1>3. Taken(f, sent') /\ Own(n, f)
  BY <1>1, <1>2 DEF Formed, FramesFormed
<1>4. \A k \in Device, b \in Bank :
        \/ rx'[k][b] = rx[k][b] \/ rx'[k][b] = NoFrame
        \/ Taken(rx'[k][b], sent') /\ Heard(k, rx'[k][b])
  <2> TAKE k \in Device, b \in Bank
  <2>1. CASE rx'[k][b] = f /\ Addressed(k, f)
    BY <1>2, <1>3, <2>1, HeardFrom
  <2> QED
    BY <1>2, <2>1
<1>5. ~ timer'[Coordinator]
  BY <1>1 DEF Formed, EntriesFormed
<1> QED
  BY <1>1, <1>4, <1>5, FormedFrom

LEMMA FormedMacAckOnly ==
  ASSUME Formed, NEW n \in Device, MacAckOnly(n)
  PROVE  Formed'
<1>1. /\ TypeOK' /\ Reported(n) /\ lines' = [lines EXCEPT ![n] = txq[n]]
      /\ macQ[n] = <<>> => UNCHANGED macQ
      /\ macQ[n] # <<>> =>
           IsTail(macQ'[n], macQ[n]) /\ \A k \in Device : k # n => macQ'[k] = macQ[k]
      /\ UNCHANGED <<txq, rx, ackQ, timer, sent>>
  BY MacAckOnlyIs DEF Formed
<1>2. \A k \in Device : Elements(lines'[k]) \subseteq Elements(lines[k])
  BY <1>1, LineShorter DEF Formed
<1>3. \A k \in Device : Messages(macQ'[k]) \subseteq Messages(macQ[k])
  BY <1>1, OwnersOfTail
<1>4. ~ timer'[Coordinator]
  BY <1>1 DEF Formed, EntriesFormed
<1> QED
  BY <1>1, <1>2, <1>3, <1>4, FormedFrom

LEMMA FormedFirstHop ==
  ASSUME Formed, NEW n \in Device, FirstHop(n)
  PROVE  Formed'
<1>1. /\ TypeOK' /\ Reported(n) /\ lines' = [lines EXCEPT ![n] = txq[n]]
      /\ SweptOnce(n, FirstDone(n), Unchanged)
      /\ UNCHANGED <<txq, rx, macQ, timer, sent, history>>
  BY FirstHopIs DEF Formed
<1>2. \A k \in Device : Elements(lines'[k]) \subseteq Elements(lines[k])
  BY <1>1, LineShorter DEF Formed
<1>3. \A k \in Device : Messages(ackQ'[k]) \subseteq Messages(ackQ[k])
  BY <1>1, OwnersOfDerived DEF SweptOnce
<1>4. ~ timer'[Coordinator]
  BY <1>1 DEF Formed, EntriesFormed
<1> QED
  BY <1>1, <1>2, <1>3, <1>4, FormedFrom

LEMMA FormedCommandSent ==
  ASSUME Formed, NEW n \in Device, CommandSent(n)
  PROVE  Formed'
<1>1. /\ TypeOK' /\ Reported(n) /\ lines' = [lines EXCEPT ![n] = txq[n]]
      /\ UNCHANGED <<txq, rx, macQ, ackQ, held, timer, sent, confirmed, history>>
  BY CommandSentIs DEF Formed
<1>2. \A k \in Device : Elements(lines'[k]) \subseteq Elements(lines[k])
  BY <1>1, LineShorter DEF Formed
<1>3. ~ timer'[Coordinator]
  BY <1>1 DEF Formed, EntriesFormed
<1> QED
  BY <1>1, <1>2, <1>3, FormedFrom

(* The coordinator waits with the messages that it relays.                 *)
LEMMA LastIsRelayed ==
  ASSUME Formed, Reported(Coordinator), WaitsForApp(sending[Coordinator].frame)
  PROVE  LET f == sending[Coordinator].frame
         IN  /\ f \in Frame /\ f \in Elements(lines[Coordinator])
             /\ f.msg \in sent /\ f.msg \in Message /\ f.msg.src \in Device
             /\ f.type = "DATA" /\ f.src # f.handle.src
<1> DEFINE f == sending[Coordinator].frame
<1>1. f \in Elements(lines[Coordinator]) /\ f \in Frame
  BY TailPlaces DEF Reported
<1>2. Taken(f, sent) /\ Own(Coordinator, f)
  BY <1>1, DataPathAssumption DEF Formed, FramesFormed
<1>3. f.type # "DATA_TO_ENDDEV_SUCCESS"
  BY DEF WaitsForApp
<1>4. f.msg \in sent /\ f.msg \in Message /\ f.msg.src \in Device
  BY <1>1, <1>2, <1>3, FrameShape, MessageShape DEF Taken
<1>5. f.type = "DATA" /\ f.src # f.handle.src
  BY <1>2 DEF WaitsForApp, Own, Relayed
<1> QED
  BY <1>1, <1>4, <1>5

(* The line of the coordinator when it has told, or not.                   *)
LEMMA ToldIs ==
  ASSUME TypeOK, NEW h \in BOOLEAN, LastHop(h)
  PROVE  LET n == Coordinator
             f == sending[Coordinator].frame
             g == Success(f.msg.src, Len(relayed'))
         IN  /\ \A k \in Device : k # n => lines'[k] = lines[k]
             /\ lines'[n] = txq'[n]
             /\ IF Tells /\ h THEN IsAppended(txq'[n], txq[n], g) ELSE txq'[n] = txq[n]
             /\ \A k \in Device : \A x \in Elements(lines'[k]) :
                  x \in Elements(lines[k]) \/ (k = n /\ Tells /\ x = g)
<1> DEFINE n == Coordinator
           f == sending[n].frame
           g == Success(f.msg.src, Len(relayed'))
<1>1. /\ Reported(n) /\ g \in Frame
      /\ lines' = [lines EXCEPT ![n] = Told(h)] /\ txq' = [txq EXCEPT ![n] = Told(h)]
  BY LastHopIs
<1>2. n \in Device
  BY DataPathAssumption
<1> HIDE DEF g
<1>3. Told(h) = IF Tells /\ h THEN Append(txq[n], g) ELSE txq[n]
  BY DEF Told, g
<1>4. /\ lines'[n] = Told(h) /\ txq'[n] = Told(h)
      /\ \A k \in Device : k # n => lines'[k] = lines[k]
  <2>1. PICK p : p = Told(h)
    OBVIOUS
  <2>2. lines' = [lines EXCEPT ![n] = p] /\ txq' = [txq EXCEPT ![n] = p]
    BY <1>1, <2>1
  <2>3. lines'[n] = p /\ \A k \in Device : k # n => lines'[k] = lines[k]
    BY <1>2, <2>2, LinesAt
  <2>4. txq'[n] = p
    BY <1>2, <2>2 DEF TypeOK, RadioTypeOK
  <2> QED
    BY <2>1, <2>3, <2>4
<1>5. txq[n] \in Seq(Frame)
  BY <1>2, LineIs DEF TypeOK
<1>6. IsAppended(Append(txq[n], g), txq[n], g)
  BY <1>1, <1>5, AppendIs
<1>7. Elements(Append(txq[n], g)) = Elements(txq[n]) \union {g}
  BY <1>6, AppendedPlaces
<1>8. Elements(txq[n]) \subseteq Elements(lines[n])
  BY <1>1, TailPlaces DEF Reported
<1>9. IF Tells /\ h THEN IsAppended(txq'[n], txq[n], g) ELSE txq'[n] = txq[n]
  BY <1>3, <1>4, <1>6
<1>10. \A k \in Device : \A x \in Elements(lines'[k]) :
         x \in Elements(lines[k]) \/ (k = n /\ Tells /\ x = g)
  BY <1>3, <1>4, <1>7, <1>8
<1> QED
  BY <1>4, <1>9, <1>10 DEF g

LEMMA FormedLastHop ==
  ASSUME Formed, NEW h \in BOOLEAN, LastHop(h)
  PROVE  Formed'
<1> DEFINE n == Coordinator
           f == sending[Coordinator].frame
           g == Success(f.msg.src, Len(relayed'))
<1>1. /\ TypeOK' /\ Reported(n) /\ WaitsForApp(f) /\ g \in Frame
      /\ SweptOnce(n, LastDone(n), Unchanged)
      /\ UNCHANGED <<rx, macQ, timer, sent, confirmed, left, used>>
  BY LastHopIs DEF Formed
<1>2. /\ \A k \in Device : \A x \in Elements(lines'[k]) :
           x \in Elements(lines[k]) \/ (k = n /\ Tells /\ x = g)
  BY ToldIs DEF Formed
<1>3. Tells => Taken(g, sent') /\ Own(n, g)
  <2>1. Tells => f.msg.src # Coordinator
    BY DataPathAssumption DEF Tells
  <2>2. /\ g.type = "DATA_TO_ENDDEV_SUCCESS" /\ g.src = Coordinator /\ g.dst = f.msg.src
    BY DEF Success
  <2> HIDE DEF g, f
  <2> QED
    BY <2>1, <2>2 DEF Taken, Own
<1> HIDE DEF f, n, g
<1>4. \A k \in Device : \A x \in Elements(lines'[k]) :
        x \in Elements(lines[k]) \/ (Taken(x, sent') /\ Own(k, x))
  BY <1>2, <1>3
<1>5. \A k \in Device : Messages(ackQ'[k]) \subseteq Messages(ackQ[k])
  BY <1>1, OwnersOfDerived DEF SweptOnce
<1>6. ~ timer'[Coordinator]
  BY <1>1 DEF Formed, EntriesFormed
<1> QED
  BY <1>1, <1>4, <1>5, <1>6, FormedFrom

LEMMA FetchedHeard ==
  ASSUME Formed, NEW n \in Device, NEW type, Fetched(n, type)
  PROVE  Taken(Received(n), sent) /\ Heard(n, Received(n)) /\ Received(n).type = type
<1>1. PICK b \in Bank : Received(n) = rx[n][b]
  BY DEF Fetched
<1>2. Received(n) \in Frame /\ Received(n) # NoFrame /\ Received(n).type = type
  BY DEF Fetched
<1>3. Taken(rx[n][b], sent) /\ Heard(n, rx[n][b])
  BY <1>1, <1>2 DEF Formed, FramesFormed
<1> QED
  BY <1>1, <1>2, <1>3

(* What the coordinator receives to be relayed, and relays.                *)
LEMMA ForwardHeard ==
  ASSUME Formed, Fetched(Coordinator, "FORWARD_PACKET")
  PROVE  LET m == Received(Coordinator).msg
         IN  /\ m \in sent /\ m \in Message /\ m.src # Coordinator
             /\ m.dst \in Member => Relayed(m)
<1> DEFINE m == Received(Coordinator).msg
<1>1. /\ Taken(Received(Coordinator), sent) /\ Heard(Coordinator, Received(Coordinator))
      /\ Received(Coordinator).type = "FORWARD_PACKET" /\ Received(Coordinator) \in Frame
  BY FetchedHeard, DataPathAssumption DEF Fetched
<1>2. m \in sent /\ m \in Message /\ m.src # Coordinator
  BY <1>1, FrameShape DEF Taken, Heard
<1>3. m.dst \in Member => Relayed(m)
  BY <1>2, DataPathAssumption, BroadcastAssumption DEF Relayed
<1> QED
  BY <1>2, <1>3

LEMMA FormedReceiveForward ==
  ASSUME Formed, NEW h \in BOOLEAN, ReceiveForward(h)
  PROVE  Formed'
<1> DEFINE n == Coordinator
           m == Received(Coordinator).msg
           b == FreeBuffer(Coordinator)
           takes == m.dst \in Member /\ held[n] # Buffer
<1>1. /\ TypeOK' /\ Fetched(n, "FORWARD_PACKET") /\ m \in Message
      /\ takes => /\ b \in Buffer
                  /\ \E l, t : QueuedBy(n, m, b, Data(n, m, b), h, l, t)
                  /\ IsAppended(ackQ'[n], ackQ[n], Entry(m, b, 0))
                  /\ \A k \in Device : k # n => ackQ'[k] = ackQ[k]
      /\ ~ takes => lines' = lines /\ ackQ' = ackQ
      /\ UNCHANGED <<sending, macQ, timer, sent, confirmed, history>>
  BY ReceiveForwardIs DEF Formed
<1>2. n \in Device
  BY DataPathAssumption
<1>3. m \in sent /\ m.src # n /\ (takes => Relayed(m))
  BY <1>1, ForwardHeard
<1>4. ~ timer'[Coordinator]
  BY <1>1 DEF Formed, EntriesFormed
<1>5. \A k \in Device, a \in Bank : rx'[k][a] = rx[k][a] \/ rx'[k][a] = NoFrame
  BY <1>1 DEF Fetched
<1>6. CASE takes
  <2>1. /\ b \in Buffer /\ \E l, t : QueuedBy(n, m, b, Data(n, m, b), h, l, t)
        /\ IsAppended(ackQ'[n], ackQ[n], Entry(m, b, 0))
        /\ \A k \in Device : k # n => ackQ'[k] = ackQ[k]
        /\ Relayed(m)
    BY <1>1, <1>3, <1>6
  <2>2. AckEntry(n, m)
    BY <2>1 DEF AckEntry
  <2> HIDE DEF m, b
  <2>3. Messages(ackQ'[n]) = Messages(ackQ[n]) \union {m}
    BY <2>1, OwnersOfAppended DEF Entry
  <2> DEFINE f == Data(n, m, b)
  <2>4. f \in Frame /\ f.msg = m /\ f.handle = m /\ f.src = n /\ f.type = "DATA"
    BY <1>1, <1>2, <2>1, FramesBuilt
  <2>5. \E l, t : QueuedBy(n, m, b, f, h, l, t)
    BY <2>1
  <2> HIDE DEF f
  <2>6. Own(n, f)
    BY <1>1, <1>3, <2>1, <2>4, MessageShape DEF Own
  <2>7. \A k \in Device : \A g \in Elements(lines'[k]) :
          g \in Elements(lines[k]) \/ (Taken(g, sent') /\ Own(k, g))
    BY <1>1, <1>2, <1>3, <2>4, <2>5, <2>6, FormedQueued
  <2>8. \A k \in Device : \A l \in Messages(ackQ'[k]) :
          l \in Messages(ackQ[k]) \/ (l \in sent' /\ AckEntry(k, l))
    BY <1>1, <1>3, <2>1, <2>2, <2>3
  <2> QED
    BY <1>1, <1>4, <1>5, <2>7, <2>8, FormedFrom
<1>7. CASE ~ takes
  BY <1>1, <1>4, <1>5, <1>7, FormedFrom
<1> QED
  BY <1>6, <1>7

LEMMA FormedReceiveSuccess ==
  ASSUME Formed, NEW n \in Device, ReceiveSuccess(n)
  PROVE  Formed'
<1>1. /\ TypeOK' /\ Fetched(n, "DATA_TO_ENDDEV_SUCCESS") /\ lines' = lines
      /\ ackQ[n] = <<>> => UNCHANGED ackQ
      /\ ackQ[n] # <<>> =>
           IsTail(ackQ'[n], ackQ[n]) /\ \A k \in Device : k # n => ackQ'[k] = ackQ[k]
      /\ UNCHANGED <<txq, sending, macQ, timer, sent, left, relayed>>
  BY ReceiveSuccessIs DEF Formed
<1>2. \A k \in Device, b \in Bank : rx'[k][b] = rx[k][b] \/ rx'[k][b] = NoFrame
  BY <1>1 DEF Fetched
<1>3. \A k \in Device : Messages(ackQ'[k]) \subseteq Messages(ackQ[k])
  BY <1>1, OwnersOfTail
<1>4. ~ timer'[Coordinator]
  BY <1>1 DEF Formed, EntriesFormed
<1> QED
  BY <1>1, <1>2, <1>3, <1>4, FormedFrom

LEMMA FormedReceiveData ==
  ASSUME Formed, NEW n \in Device, ReceiveData(n)
  PROVE  Formed'
<1>1. /\ TypeOK' /\ Fetched(n, "DATA") /\ lines' = lines
      /\ UNCHANGED <<txq, sending, macQ, ackQ, held, timer, sent, confirmed, history>>
  BY ReceiveDataIs DEF Formed
<1>2. \A k \in Device, b \in Bank : rx'[k][b] = rx[k][b] \/ rx'[k][b] = NoFrame
  BY <1>1 DEF Fetched
<1>3. ~ timer'[Coordinator]
  BY <1>1 DEF Formed, EntriesFormed
<1> QED
  BY <1>1, <1>2, <1>3, FormedFrom

LEMMA FormedDataTimer ==
  ASSUME Formed, NEW n \in Device, DataTimer(n)
  PROVE  Formed'
<1>1. /\ TypeOK' /\ lines' = lines /\ timer[n]
      /\ SweptOnce(n, Expired, Older)
      /\ timer' = [timer EXCEPT ![n] = ackQ'[n] # <<>>]
      /\ UNCHANGED <<radio, macQ, sent, history>>
  BY DataTimerIs DEF Formed
<1>2. \A k \in Device, b \in Bank : rx'[k][b] = rx[k][b]
  BY <1>1 DEF radio
<1>3. \A k \in Device : Messages(ackQ'[k]) \subseteq Messages(ackQ[k])
  BY <1>1, OwnersOfDerived DEF SweptOnce
<1>4. ~ timer'[Coordinator]
  BY <1>1, DataPathAssumption DEF Formed, EntriesFormed, TypeOK
<1> QED
  BY <1>1, <1>2, <1>3, <1>4, FormedFrom

LEMMA FormedStutter ==
  ASSUME Formed, UNCHANGED vars
  PROVE  Formed'
<1>1. /\ UNCHANGED <<txq, sending, rx, macQ, ackQ, held, timer, sent, confirmed>>
      /\ UNCHANGED <<left, relayed, used>>
  BY DEF vars, radio, history
<1>2. lines' = lines
  BY <1>1, LinesSame
<1>3. TypeOK'
  BY <1>1 DEF Formed, TypeOK, RadioTypeOK
<1>4. ~ timer'[Coordinator]
  BY <1>1 DEF Formed, EntriesFormed
<1> QED
  BY <1>1, <1>2, <1>3, <1>4, FormedFrom

LEMMA MemoryIs == \A h \in HasMemory : h \in BOOLEAN /\ (~ MemoryFails => h = TRUE)
BY DEF HasMemory

LEMMA FormedNext == Formed /\ [Next]_vars => Formed'
<1> SUFFICES ASSUME Formed, [Next]_vars  PROVE Formed'
  OBVIOUS
<1>1. CASE \E m \in Message, h \in HasMemory : SendData(m, h)
  BY <1>1, MemoryIs, FormedSendData
<1>2. CASE \E n \in Device : Transmission(n)
  BY <1>2, FormedTransmission
<1>3. CASE \E n \in Device : Report(n)
  <2>1. PICK n \in Device : Report(n)
    BY <1>3
  <2>2. CASE MacAckOnly(n)
    BY <2>2, FormedMacAckOnly
  <2>3. CASE FirstHop(n)
    BY <2>3, FormedFirstHop
  <2>4. CASE CommandSent(n)
    BY <2>4, FormedCommandSent
  <2>5. CASE \E h \in HasMemory : LastHop(h)
    BY <2>5, MemoryIs, FormedLastHop
  <2> QED
    BY <2>1, <2>2, <2>3, <2>4, <2>5 DEF Report
<1>4. CASE \E n \in Device : Parse(n)
  <2>1. PICK n \in Device : Parse(n)
    BY <1>4
  <2>2. CASE ReceiveSuccess(n)
    BY <2>2, FormedReceiveSuccess
  <2>3. CASE ReceiveData(n)
    BY <2>3, FormedReceiveData
  <2>4. CASE \E h \in HasMemory : ReceiveForward(h)
    BY <2>4, MemoryIs, FormedReceiveForward
  <2> QED
    BY <2>1, <2>2, <2>3, <2>4 DEF Parse
<1>5. CASE \E n \in Device : DataTimer(n)
  BY <1>5, FormedDataTimer
<1>6. CASE UNCHANGED vars
  BY <1>6, FormedStutter
<1> QED
  BY <1>1, <1>2, <1>3, <1>4, <1>5, <1>6 DEF Next, P2PTasks

----------------------------------------------------------------------------
(* The entries and the frames that they are for.                           *)
MatchedBy(at, q, line) ==
  /\ \A j, k \in DOMAIN q : j < k => at[j] < at[k]
  /\ {k \in DOMAIN line : WaitsForMac(line[k])} = {at[k] : k \in DOMAIN q}
  /\ \A k \in DOMAIN q : line[at[k]].buf = q[k].buf /\ line[at[k]].handle = q[k].msg

LEMMA MatchesIs ==
  ASSUME NEW q, NEW line
  PROVE  Matches(q, line) <=> \E at \in [DOMAIN q -> DOMAIN line] : MatchedBy(at, q, line)
BY DEF Matches, MatchedBy

LEMMA MatchAppendPlain ==
  ASSUME NEW q, NEW line, NEW f, NEW longer, IsAppended(longer, line, f),
         Matches(q, line), ~ WaitsForMac(f)
  PROVE  Matches(q, longer)
<1>1. PICK at \in [DOMAIN q -> DOMAIN line] : MatchedBy(at, q, line)
  BY MatchesIs
<1>2. /\ longer[Len(line) + 1] = f
      /\ \A k \in DOMAIN line : k \in DOMAIN longer /\ longer[k] = line[k]
      /\ \A k \in DOMAIN longer : k \in DOMAIN line \/ k = Len(line) + 1
  BY AppendedPlaces
<1>3. at \in [DOMAIN q -> DOMAIN longer]
  BY <1>2
<1>4. {k \in DOMAIN longer : WaitsForMac(longer[k])} = {k \in DOMAIN line : WaitsForMac(line[k])}
  BY <1>2
<1>5. MatchedBy(at, q, longer)
  BY <1>1, <1>2, <1>4 DEF MatchedBy
<1> QED
  BY <1>3, <1>5, MatchesIs

LEMMA MatchAppendBoth ==
  ASSUME NEW q, NEW line, NEW f, NEW x, NEW longer, NEW more,
         IsAppended(longer, line, f), IsAppended(more, q, x),
         Matches(q, line), WaitsForMac(f), f.buf = x.buf, f.handle = x.msg
  PROVE  Matches(more, longer)
<1>1. PICK at \in [DOMAIN q -> DOMAIN line] : MatchedBy(at, q, line)
  BY MatchesIs
<1> DEFINE L == Len(line) + 1
           K == Len(q) + 1
<1>2. /\ L \in DOMAIN longer /\ longer[L] = f
      /\ \A k \in DOMAIN line : k \in DOMAIN longer /\ k < L /\ longer[k] = line[k]
      /\ \A k \in DOMAIN longer : k \in DOMAIN line \/ k = L
  BY AppendedPlaces
<1>3. /\ K \in DOMAIN more /\ more[K] = x
      /\ \A k \in DOMAIN q : k \in DOMAIN more /\ k < K /\ more[k] = q[k]
      /\ \A k \in DOMAIN more : k \in DOMAIN q \/ k = K
  BY AppendedPlaces
<1>4. K \in Nat /\ DOMAIN q \subseteq Nat
  BY DEF IsAppended
<1> HIDE DEF L, K
<1> DEFINE at2 == [k \in DOMAIN more |-> IF k = K THEN L ELSE at[k]]
<1>5. /\ at2[K] = L
      /\ \A k \in DOMAIN q : k # K /\ at2[k] = at[k] /\ at[k] \in DOMAIN line
  BY <1>3, <1>4
<1>6. at2 \in [DOMAIN more -> DOMAIN longer]
  BY <1>2, <1>3, <1>5
<1> HIDE DEF at2
<1>7. ASSUME NEW j \in DOMAIN more, NEW k \in DOMAIN more, j < k
      PROVE  at2[j] < at2[k]
  <2>1. CASE k = K
    <3>1. j # K
      BY <1>4, <1>7, <2>1
    <3> QED
      BY <1>2, <1>3, <1>5, <2>1, <3>1
  <2>2. CASE k # K
    <3>1. j \in DOMAIN q /\ k \in DOMAIN q
      BY <1>3, <1>4, <1>7, <2>2
    <3> QED
      BY <1>1, <1>5, <1>7, <3>1 DEF MatchedBy
  <2> QED
    BY <2>1, <2>2
<1>8. {k \in DOMAIN longer : WaitsForMac(longer[k])} = {at2[k] : k \in DOMAIN more}
  <2> DEFINE W == {k \in DOMAIN line : WaitsForMac(line[k])}
             A == {at[k] : k \in DOMAIN q}
  <2>1. W = A
    BY <1>1 DEF MatchedBy
  <2>2. {k \in DOMAIN longer : WaitsForMac(longer[k])} = W \union {L}
    BY <1>2
  <2>3. {at2[k] : k \in DOMAIN more} = A \union {L}
    BY <1>3, <1>5
  <2> QED
    BY <2>1, <2>2, <2>3
<1>9. ASSUME NEW k \in DOMAIN more
      PROVE  longer[at2[k]].buf = more[k].buf /\ longer[at2[k]].handle = more[k].msg
  <2>1. CASE k = K
    BY <1>2, <1>3, <1>5, <2>1
  <2>2. CASE k \in DOMAIN q
    BY <1>1, <1>2, <1>3, <1>5, <2>2 DEF MatchedBy
  <2> QED
    BY <1>3, <2>1, <2>2
<1>10. MatchedBy(at2, more, longer)
  BY <1>7, <1>8, <1>9 DEF MatchedBy
<1> QED
  BY <1>6, <1>10, MatchesIs

LEMMA MatchTailPlain ==
  ASSUME NEW q, NEW line, NEW rest, IsTail(rest, line),
         Matches(q, line), ~ WaitsForMac(line[1])
  PROVE  Matches(q, rest)
<1>1. PICK at \in [DOMAIN q -> DOMAIN line] : MatchedBy(at, q, line)
  BY MatchesIs
<1>2. /\ \A k \in DOMAIN rest : k + 1 \in DOMAIN line /\ rest[k] = line[k + 1]
      /\ \A k \in DOMAIN line : k = 1 \/ (k - 1 \in DOMAIN rest /\ line[k] = rest[k - 1])
      /\ DOMAIN line \subseteq Nat /\ DOMAIN rest \subseteq Nat
  BY TailPlaces DEF IsTail
<1> DEFINE W == {k \in DOMAIN line : WaitsForMac(line[k])}
<1>3. W = {at[k] : k \in DOMAIN q}
  BY <1>1 DEF MatchedBy
<1>4. \A k \in DOMAIN q : at[k] \in DOMAIN line /\ at[k] \in W
  BY <1>3
<1>5. \A k \in DOMAIN q : at[k] # 1 /\ at[k] - 1 \in DOMAIN rest /\ at[k] \in Nat
                          /\ line[at[k]] = rest[at[k] - 1]
  BY <1>2, <1>4
<1> DEFINE at2 == [k \in DOMAIN q |-> at[k] - 1]
<1>6. at2 \in [DOMAIN q -> DOMAIN rest] /\ \A k \in DOMAIN q : at2[k] = at[k] - 1
  BY <1>5
<1> HIDE DEF at2
<1>7. \A j, k \in DOMAIN q : j < k => at2[j] < at2[k]
  <2>1. \A j, k \in DOMAIN q : j < k => at[j] < at[k]
    BY <1>1 DEF MatchedBy
  <2> QED
    BY <1>5, <1>6, <2>1
<1>8. {k \in DOMAIN rest : WaitsForMac(rest[k])} = {at2[k] : k \in DOMAIN q}
  <2>1. ASSUME NEW k \in DOMAIN rest, WaitsForMac(rest[k])
        PROVE  k \in {at2[j] : j \in DOMAIN q}
    <3>1. k + 1 \in W
      BY <1>2, <2>1
    <3>2. PICK j \in DOMAIN q : at[j] = k + 1
      BY <1>3, <3>1
    <3>3. at2[j] = k
      BY <1>2, <1>6, <3>2
    <3> QED
      BY <3>3
  <2>2. ASSUME NEW k \in DOMAIN q
        PROVE  at2[k] \in DOMAIN rest /\ WaitsForMac(rest[at2[k]])
    BY <1>4, <1>5, <1>6
  <2> QED
    BY <2>1, <2>2
<1>9. \A k \in DOMAIN q : rest[at2[k]].buf = q[k].buf /\ rest[at2[k]].handle = q[k].msg
  BY <1>1, <1>5, <1>6 DEF MatchedBy
<1>10. MatchedBy(at2, q, rest)
  BY <1>7, <1>8, <1>9 DEF MatchedBy
<1> QED
  BY <1>6, <1>10, MatchesIs

LEMMA MatchTailBoth ==
  ASSUME NEW q \in Seq(Entries), NEW line, NEW rest, IsTail(rest, line),
         Matches(q, line), WaitsForMac(line[1])
  PROVE  /\ q # <<>> /\ line[1].buf = q[1].buf /\ line[1].handle = q[1].msg
         /\ \A t : IsTail(t, q) => Matches(t, rest)
<1>1. PICK at \in [DOMAIN q -> DOMAIN line] : MatchedBy(at, q, line)
  BY MatchesIs
<1>2. /\ 1 \in DOMAIN line
      /\ \A k \in DOMAIN rest : k + 1 \in DOMAIN line /\ k + 1 # 1 /\ rest[k] = line[k + 1]
      /\ \A k \in DOMAIN line : k = 1 \/ (k - 1 \in DOMAIN rest /\ line[k] = rest[k - 1])
      /\ DOMAIN line \subseteq Nat /\ DOMAIN rest \subseteq Nat
      /\ \A k \in DOMAIN line : k >= 1
  BY TailPlaces DEF IsTail
<1> DEFINE W == {k \in DOMAIN line : WaitsForMac(line[k])}
<1>3. W = {at[k] : k \in DOMAIN q}
  BY <1>1 DEF MatchedBy
<1>4. 1 \in W
  BY <1>2
<1>5. PICK i \in DOMAIN q : at[i] = 1
  BY <1>3, <1>4
<1>6. DOMAIN q = 1 .. Len(q) /\ Len(q) \in Nat
  BY LenProperties
<1>7. 1 \in DOMAIN q
  BY <1>6
<1>8. \A j, k \in DOMAIN q : j < k => at[j] < at[k]
  BY <1>1 DEF MatchedBy
<1>9. i = 1
  <2> SUFFICES ASSUME i # 1  PROVE FALSE
    OBVIOUS
  <2>1. 1 < i
    BY <1>6
  <2>2. at[1] < 1 /\ at[1] \in DOMAIN line
    BY <1>5, <1>7, <1>8, <2>1
  <2> QED
    BY <1>2, <2>2
<1>10. q # <<>> /\ line[1].buf = q[1].buf /\ line[1].handle = q[1].msg
  BY <1>1, <1>5, <1>6, <1>7, <1>9 DEF MatchedBy
<1>11. \A k \in DOMAIN q : at[k] \in DOMAIN line /\ at[k] \in W
  BY <1>3
<1>12. ASSUME NEW t, IsTail(t, q)
       PROVE  Matches(t, rest)
  <2>1. /\ \A k \in DOMAIN t : k + 1 \in DOMAIN q /\ k + 1 # 1 /\ t[k] = q[k + 1]
        /\ \A k \in DOMAIN q : k = 1 \/ (k - 1 \in DOMAIN t /\ (k - 1) + 1 = k)
        /\ DOMAIN t \subseteq Nat
    <3>1. \A k \in DOMAIN t : k + 1 \in DOMAIN q /\ k + 1 # 1 /\ t[k] = q[k + 1]
      BY <1>12, TailPlaces
    <3>2. \A k \in DOMAIN q : k = 1 \/ k - 1 \in DOMAIN t
      BY <1>12, TailPlaces
    <3>3. DOMAIN t \subseteq Nat
      BY <1>6, <1>12 DEF IsTail
    <3>4. \A k \in DOMAIN q : (k - 1) + 1 = k
      BY <1>6
    <3> QED
      BY <3>1, <3>2, <3>3, <3>4
  <2>2. ASSUME NEW k \in DOMAIN t
        PROVE  /\ at[k + 1] # 1 /\ at[k + 1] \in Nat /\ at[k + 1] - 1 \in DOMAIN rest
               /\ line[at[k + 1]] = rest[at[k + 1] - 1]
    <3>1. k + 1 \in DOMAIN q /\ 1 < k + 1
      BY <1>6, <2>1
    <3>2. 1 < at[k + 1] /\ at[k + 1] \in DOMAIN line
      BY <1>5, <1>7, <1>8, <1>9, <1>11, <3>1
    <3> QED
      BY <1>2, <3>2
  <2> DEFINE at2 == [k \in DOMAIN t |-> at[k + 1] - 1]
  <2>3. at2 \in [DOMAIN t -> DOMAIN rest] /\ \A k \in DOMAIN t : at2[k] = at[k + 1] - 1
    BY <2>2
  <2> HIDE DEF at2
  <2>4. ASSUME NEW j \in DOMAIN t, NEW k \in DOMAIN t, j < k
        PROVE  at2[j] < at2[k]
    <3>1. j + 1 \in DOMAIN q /\ k + 1 \in DOMAIN q /\ j + 1 < k + 1
      BY <2>1, <2>4
    <3>2. at[j + 1] < at[k + 1]
      BY <1>8, <3>1
    <3> QED
      BY <2>2, <2>3, <3>2
  <2>5. {k \in DOMAIN rest : WaitsForMac(rest[k])} = {at2[k] : k \in DOMAIN t}
    <3>1. ASSUME NEW k \in DOMAIN rest, WaitsForMac(rest[k])
          PROVE  k \in {at2[j] : j \in DOMAIN t}
      <4>1. k + 1 \in W /\ k + 1 # 1
        BY <1>2, <3>1
      <4>2. PICK j \in DOMAIN q : at[j] = k + 1
        BY <1>3, <4>1
      <4>3. j # 1
        BY <1>5, <1>9, <4>1, <4>2
      <4>4. j - 1 \in DOMAIN t /\ (j - 1) + 1 = j
        BY <2>1, <4>3
      <4>5. at2[j - 1] = (k + 1) - 1
        BY <2>3, <4>2, <4>4
      <4>6. at2[j - 1] = k
        BY <1>2, <4>5
      <4> QED
        BY <4>4, <4>6
    <3>2. ASSUME NEW k \in DOMAIN t
          PROVE  at2[k] \in DOMAIN rest /\ WaitsForMac(rest[at2[k]])
      <4>1. k + 1 \in DOMAIN q
        BY <2>1
      <4>2. WaitsForMac(line[at[k + 1]])
        BY <1>11, <4>1
      <4> QED
        BY <2>2, <2>3, <4>2
    <3> QED
      BY <3>1, <3>2
  <2>6. \A k \in DOMAIN t : rest[at2[k]].buf = t[k].buf /\ rest[at2[k]].handle = t[k].msg
    <3> TAKE k \in DOMAIN t
    <3>1. k + 1 \in DOMAIN q /\ t[k] = q[k + 1]
      BY <2>1
    <3>2. line[at[k + 1]].buf = q[k + 1].buf /\ line[at[k + 1]].handle = q[k + 1].msg
      BY <1>1, <3>1 DEF MatchedBy
    <3> QED
      BY <2>2, <2>3, <3>1, <3>2
  <2>7. MatchedBy(at2, t, rest)
    BY <2>4, <2>5, <2>6 DEF MatchedBy
  <2> QED
    BY <2>3, <2>7, MatchesIs
<1> QED
  BY <1>10, <1>12

LEMMA MatchRenewed ==
  ASSUME NEW q, NEW line, NEW l, NEW m \in Message, NEW b, Renewed(l, line, m, b),
         Matches(q, line)
  PROVE  Matches(q, l)
<1>1. PICK at \in [DOMAIN q -> DOMAIN line] : MatchedBy(at, q, line)
  BY MatchesIs
<1>2. DOMAIN l = DOMAIN line
  BY DEF Renewed
<1>3. ASSUME NEW k \in DOMAIN line
      PROVE  /\ WaitsForMac(l[k]) <=> WaitsForMac(line[k])
             /\ WaitsForMac(line[k]) => l[k].buf = line[k].buf /\ l[k].handle = line[k].handle
  <2>1. CASE l[k] = line[k]
    BY <2>1
  <2>2. CASE line[k] \in Pointing /\ l[k] = Again(line[k], m)
    BY <2>2, AgainIs
  <2> QED
    BY <2>1, <2>2 DEF Renewed
<1>4. {k \in DOMAIN line : WaitsForMac(line[k])} = {at[k] : k \in DOMAIN q}
  BY <1>1 DEF MatchedBy
<1>5. {k \in DOMAIN l : WaitsForMac(l[k])} = {k \in DOMAIN line : WaitsForMac(line[k])}
  BY <1>2, <1>3
<1>6. \A k \in DOMAIN q : at[k] \in DOMAIN line /\ WaitsForMac(line[at[k]])
  BY <1>4
<1>7. \A k \in DOMAIN q : l[at[k]].buf = q[k].buf /\ l[at[k]].handle = q[k].msg
  BY <1>1, <1>3, <1>6 DEF MatchedBy
<1>8. MatchedBy(at, q, l)
  BY <1>1, <1>4, <1>5, <1>7 DEF MatchedBy
<1>9. at \in [DOMAIN q -> DOMAIN l]
  BY <1>2
<1> QED
  BY <1>8, <1>9, MatchesIs

LEMMA NotBoth == \A f : WaitsForApp(f) => ~ WaitsForMac(f)
BY DEF WaitsForApp, WaitsForMac

LEMMA InStepSendData ==
  ASSUME Formed, InStep, NEW m \in Message, SendData(m, TRUE)
  PROVE  InStep'
<1> DEFINE n == m.src
           b == FreeBuffer(m.src)
           f == Outgoing(m)
<1>1. /\ n \in Device /\ b \in Buffer
      /\ \E l, t : QueuedBy(n, m, b, f, TRUE, l, t)
      /\ Awaited(m) => macQ' = macQ
      /\ ~ Awaited(m) => /\ IsAppended(macQ'[n], macQ[n], Entry(m, b, 0))
                         /\ \A k \in Device : k # n => macQ'[k] = macQ[k]
  BY SendDataIs DEF Formed
<1>2. /\ f \in Frame /\ f.src = n /\ f.handle = m /\ f.buf = b
      /\ f.type = IF Relayed(m) THEN "FORWARD_PACKET" ELSE "DATA"
  BY <1>1, OutgoingIs
<1>3. Entry(m, b, 0).buf = b /\ Entry(m, b, 0).msg = m
  BY DEF Entry
<1> HIDE DEF f, b, n
<1>4. PICK l, t : QueuedBy(n, m, b, f, TRUE, l, t)
  BY <1>1
<1>5. IsAppended(lines'[n], l, f) /\ \A k \in Device : k # n => lines'[k] = lines[k]
  BY <1>1, <1>2, <1>4, LineLonger DEF Formed
<1>6. Matches(macQ[n], l)
  <2>1. Renewed(l, lines[n], m, b) /\ Matches(macQ[n], lines[n])
    BY <1>1, <1>4 DEF InStep, QueuedBy
  <2> QED
    BY <2>1, MatchRenewed
<1>7. CASE Awaited(m)
  <2>1. ~ WaitsForMac(f)
    BY <1>2, <1>7, MessageShape DEF WaitsForMac
  <2>2. Matches(macQ[n], lines'[n])
    BY <1>5, <1>6, <2>1, MatchAppendPlain
  <2> QED
    BY <1>1, <1>5, <1>7, <2>2 DEF InStep
<1>8. CASE ~ Awaited(m)
  <2>1. WaitsForMac(f)
    BY <1>2, <1>8, MessageShape DEF WaitsForMac, n
  <2>2. Matches(macQ'[n], lines'[n])
    BY <1>1, <1>2, <1>3, <1>5, <1>6, <1>8, <2>1, MatchAppendBoth
  <2> QED
    BY <1>1, <1>5, <1>8, <2>2 DEF InStep
<1> QED
  BY <1>7, <1>8

LEMMA InStepMacAckOnly ==
  ASSUME Formed, InStep, NEW n \in Device, MacAckOnly(n)
  PROVE  /\ InStep' /\ macQ[n] # <<>>
         /\ macQ[n][1].msg = sending[n].frame.handle /\ macQ[n][1].buf = sending[n].frame.buf
<1>1. /\ Reported(n) /\ lines' = [lines EXCEPT ![n] = txq[n]]
      /\ WaitsForMac(sending[n].frame)
      /\ macQ[n] # <<>> =>
           IsTail(macQ'[n], macQ[n]) /\ \A k \in Device : k # n => macQ'[k] = macQ[k]
  BY MacAckOnlyIs DEF Formed
<1>2. lines'[n] = txq[n] /\ \A k \in Device : k # n => lines'[k] = lines[k]
  BY <1>1, LineShorter DEF Formed
<1>3. IsTail(txq[n], lines[n]) /\ lines[n][1] = sending[n].frame
  BY <1>1 DEF Reported
<1>4. Matches(macQ[n], lines[n]) /\ macQ[n] \in Seq(Entries)
  BY DEF InStep, Formed, TypeOK
<1>5. /\ macQ[n] # <<>> /\ lines[n][1].buf = macQ[n][1].buf /\ lines[n][1].handle = macQ[n][1].msg
      /\ \A t : IsTail(t, macQ[n]) => Matches(t, txq[n])
  BY <1>1, <1>3, <1>4, MatchTailBoth
<1>6. Matches(macQ'[n], lines'[n])
  BY <1>1, <1>2, <1>5
<1>7. InStep'
  BY <1>1, <1>2, <1>5, <1>6 DEF InStep
<1> QED
  BY <1>3, <1>5, <1>7

LEMMA InStepReport ==
  ASSUME Formed, InStep, NEW n \in Device, Reported(n), macQ' = macQ,
         lines' = [lines EXCEPT ![n] = txq[n]], ~ WaitsForMac(sending[n].frame)
  PROVE  InStep'
<1>1. lines'[n] = txq[n] /\ \A k \in Device : k # n => lines'[k] = lines[k]
  BY LineShorter DEF Formed
<1>2. Matches(macQ[n], lines[n]) /\ IsTail(txq[n], lines[n]) /\ lines[n][1] = sending[n].frame
  BY DEF InStep, Reported
<1>3. Matches(macQ[n], txq[n])
  BY <1>2, MatchTailPlain
<1> QED
  BY <1>1, <1>3 DEF InStep

LEMMA InStepLastHop ==
  ASSUME Formed, InStep, LastHop(TRUE)
  PROVE  InStep'
<1> DEFINE n == Coordinator
           f == sending[Coordinator].frame
           g == Success(f.msg.src, Len(relayed'))
<1>1. Reported(n) /\ WaitsForApp(f) /\ macQ' = macQ
  BY LastHopIs DEF Formed
<1>2. /\ \A k \in Device : k # n => lines'[k] = lines[k]
      /\ IF Tells THEN IsAppended(lines'[n], txq[n], g) ELSE lines'[n] = txq[n]
  BY ToldIs DEF Formed
<1>3. n \in Device /\ ~ WaitsForMac(f)
  BY <1>1, NotBoth, DataPathAssumption
<1>4. Matches(macQ[n], lines[n]) /\ IsTail(txq[n], lines[n]) /\ lines[n][1] = f
  BY <1>1, <1>3 DEF InStep, Reported
<1>5. Matches(macQ[n], txq[n])
  BY <1>3, <1>4, MatchTailPlain
<1>6. ~ WaitsForMac(g)
  BY DEF WaitsForMac, Success
<1> HIDE DEF g
<1>7. Matches(macQ[n], lines'[n])
  BY <1>2, <1>5, <1>6, MatchAppendPlain
<1> QED
  BY <1>1, <1>2, <1>7 DEF InStep

LEMMA InStepReceiveForward ==
  ASSUME Formed, InStep, ReceiveForward(TRUE)
  PROVE  InStep'
<1> DEFINE n == Coordinator
           m == Received(Coordinator).msg
           b == FreeBuffer(Coordinator)
           takes == m.dst \in Member /\ held[n] # Buffer
<1>1. /\ Fetched(n, "FORWARD_PACKET") /\ macQ' = macQ /\ m \in Message
      /\ takes => b \in Buffer /\ \E l, t : QueuedBy(n, m, b, Data(n, m, b), TRUE, l, t)
      /\ ~ takes => lines' = lines
  BY ReceiveForwardIs DEF Formed
<1>2. n \in Device
  BY DataPathAssumption
<1>3. m.src # n
  BY <1>1, ForwardHeard
<1>4. CASE takes
  <2>1. \E l, t : QueuedBy(n, m, b, Data(n, m, b), TRUE, l, t)
    BY <1>1, <1>4
  <2>2. b \in Buffer
    BY <1>1, <1>4
  <2> HIDE DEF b, m
  <2> DEFINE f == Data(n, m, b)
  <2>3. f \in Frame /\ f.handle = m /\ f.src = n /\ f.type = "DATA"
    BY <1>1, <1>2, <2>2, FramesBuilt
  <2>4. PICK l, t : QueuedBy(n, m, b, f, TRUE, l, t)
    BY <2>1
  <2> HIDE DEF f
  <2>5. IsAppended(lines'[n], l, f) /\ \A k \in Device : k # n => lines'[k] = lines[k]
    <3>1. TypeOK
      BY DEF Formed
    <3> QED
      BY <1>2, <2>3, <2>4, <3>1, LineAppended
  <2>6. Renewed(l, lines[n], m, b) /\ Matches(macQ[n], lines[n])
    BY <1>2, <2>4 DEF InStep, QueuedBy
  <2>7. Matches(macQ[n], l)
    BY <1>1, <2>6, MatchRenewed
  <2>8. ~ WaitsForMac(f)
    BY <1>3, <2>3 DEF WaitsForMac
  <2>9. Matches(macQ[n], lines'[n])
    BY <2>5, <2>7, <2>8, MatchAppendPlain
  <2> QED
    BY <1>1, <2>5, <2>9 DEF InStep
<1>5. CASE ~ takes
  BY <1>1, <1>5 DEF InStep
<1> QED
  BY <1>4, <1>5

LEMMA InStepSame ==
  ASSUME InStep, lines' = lines, macQ' = macQ
  PROVE  InStep'
BY DEF InStep

LEMMA InStepNext == ~ MemoryFails /\ Formed /\ InStep /\ [Next]_vars => InStep'
<1> SUFFICES ASSUME ~ MemoryFails, Formed, InStep, [Next]_vars  PROVE InStep'
  OBVIOUS
<1>1. CASE \E m \in Message, h \in HasMemory : SendData(m, h)
  BY <1>1, MemoryIs, InStepSendData
<1>2. CASE \E n \in Device : Transmission(n)
  BY <1>2, TransmissionIs, InStepSame DEF Formed
<1>3. CASE \E n \in Device : Report(n)
  <2>1. PICK n \in Device : Report(n)
    BY <1>3
  <2>2. CASE MacAckOnly(n)
    BY <2>2, InStepMacAckOnly
  <2>3. CASE FirstHop(n)
    BY <2>3, FirstHopIs, NotBoth, InStepReport DEF Formed
  <2>4. CASE CommandSent(n)
    <3>1. /\ Reported(n) /\ sending[n].frame.type = "DATA_TO_ENDDEV_SUCCESS"
          /\ lines' = [lines EXCEPT ![n] = txq[n]] /\ macQ' = macQ
      BY <2>4, CommandSentIs DEF Formed
    <3>2. ~ WaitsForMac(sending[n].frame)
      BY <3>1 DEF WaitsForMac
    <3> QED
      BY <3>1, <3>2, InStepReport
  <2>5. CASE \E h \in HasMemory : LastHop(h)
    BY <2>5, MemoryIs, InStepLastHop
  <2> QED
    BY <2>1, <2>2, <2>3, <2>4, <2>5 DEF Report
<1>4. CASE \E n \in Device : Parse(n)
  <2>1. PICK n \in Device : Parse(n)
    BY <1>4
  <2>2. CASE ReceiveSuccess(n)
    BY <2>2, ReceiveSuccessIs, InStepSame DEF Formed
  <2>3. CASE ReceiveData(n)
    BY <2>3, ReceiveDataIs, InStepSame DEF Formed
  <2>4. CASE \E h \in HasMemory : ReceiveForward(h)
    BY <2>4, MemoryIs, InStepReceiveForward
  <2> QED
    BY <2>1, <2>2, <2>3, <2>4 DEF Parse
<1>5. CASE \E n \in Device : DataTimer(n)
  BY <1>5, DataTimerIs, InStepSame DEF Formed
<1>6. CASE UNCHANGED vars
  <2>1. lines' = lines /\ macQ' = macQ
    BY <1>6, LinesSame DEF vars, radio
  <2> QED
    BY <2>1, InStepSame
<1> QED
  BY <1>1, <1>2, <1>3, <1>4, <1>5, <1>6 DEF Next, P2PTasks

----------------------------------------------------------------------------
(* Who waits is not confirmed, and waits once.                             *)
LEMMA OwnEntries ==
  ASSUME Formed, NEW n \in Device
  PROVE  /\ macQ[n] \in Seq(Entries) /\ ackQ[n] \in Seq(Entries)
         /\ \A m \in Messages(macQ[n]) : m \in Message /\ m \in sent /\ m.src = n /\ ~ Awaited(m)
         /\ n # Coordinator =>
              \A m \in Messages(ackQ[n]) : m \in Message /\ m \in sent /\ m.src = n /\ Awaited(m)
<1>1. macQ[n] \in Seq(Entries) /\ ackQ[n] \in Seq(Entries)
  BY DEF Formed, TypeOK
<1>2. Messages(macQ[n]) \subseteq Message /\ Messages(ackQ[n]) \subseteq Message
  BY <1>1, OwnersTyped
<1> QED
  BY <1>1, <1>2 DEF Formed, EntriesFormed, MacEntry, AckEntry

(* A step that confirms the messages of M, and they wait no more.          *)
LEMMA UnconfirmedFrom ==
  ASSUME Unconfirmed, sent \subseteq sent', NEW M, M \subseteq sent',
         \A m \in Message \ M : confirmed'[m] = confirmed[m],
         \A k \in Device :
           /\ Distinct(macQ'[k])
           /\ \A m \in Messages(macQ'[k]) : m \in Message \ M /\ confirmed[m] = <<>>,
         \A k \in Device \ {Coordinator} :
           /\ Distinct(ackQ'[k])
           /\ \A m \in Messages(ackQ'[k]) : m \in Message \ M /\ confirmed[m] = <<>>
  PROVE  Unconfirmed'
<1>1. \A m \in Message : confirmed'[m] # <<>> => m \in sent'
  BY DEF Unconfirmed
<1>2. \A k \in Device : \A m \in Messages(macQ'[k]) : confirmed'[m] = <<>>
  OBVIOUS
<1>3. \A k \in Device \ {Coordinator} : \A m \in Messages(ackQ'[k]) : confirmed'[m] = <<>>
  OBVIOUS
<1> QED
  BY <1>1, <1>2, <1>3 DEF Unconfirmed

(* The same if they waited at one board.                                   *)
LEMMA UnconfirmedAt ==
  ASSUME Formed, Unconfirmed, sent' = sent, NEW n \in Device, NEW M,
         \A m \in M : m \in Messages(macQ[n]) \/ (n # Coordinator /\ m \in Messages(ackQ[n])),
         \A m \in Message \ M : confirmed'[m] = confirmed[m],
         \A k \in Device : k # n => macQ'[k] = macQ[k] /\ ackQ'[k] = ackQ[k],
         Distinct(macQ'[n]), Messages(macQ'[n]) \subseteq Messages(macQ[n]) \ M,
         n # Coordinator =>
           Distinct(ackQ'[n]) /\ Messages(ackQ'[n]) \subseteq Messages(ackQ[n]) \ M
  PROVE  Unconfirmed'
<1>1. \A m \in M : m \in Message /\ m \in sent /\ m.src = n
  BY OwnEntries
<1>2. ASSUME NEW k \in Device
      PROVE  /\ Distinct(macQ'[k])
             /\ \A m \in Messages(macQ'[k]) : m \in Message \ M /\ confirmed[m] = <<>>
  <2>1. CASE k = n
    BY <2>1, OwnEntries DEF Unconfirmed
  <2>2. CASE k # n
    BY <1>1, <2>2, OwnEntries DEF Unconfirmed
  <2> QED
    BY <2>1, <2>2
<1>3. ASSUME NEW k \in Device \ {Coordinator}
      PROVE  /\ Distinct(ackQ'[k])
             /\ \A m \in Messages(ackQ'[k]) : m \in Message \ M /\ confirmed[m] = <<>>
  <2>1. CASE k = n
    BY <2>1, OwnEntries DEF Unconfirmed
  <2>2. CASE k # n
    BY <1>1, <2>2, OwnEntries DEF Unconfirmed
  <2> QED
    BY <2>1, <2>2
<1> QED
  BY <1>1, <1>2, <1>3, UnconfirmedFrom

(* Nobody is confirmed, and nobody waits anew.                             *)
LEMMA UnconfirmedSame ==
  ASSUME Unconfirmed, UNCHANGED <<sent, confirmed, macQ>>,
         \A k \in Device \ {Coordinator} : ackQ'[k] = ackQ[k]
  PROVE  Unconfirmed'
BY DEF Unconfirmed

LEMMA UnconfirmedSendData ==
  ASSUME Formed, Unconfirmed, NEW m \in Message, NEW h \in BOOLEAN, SendData(m, h)
  PROVE  Unconfirmed'
<1> DEFINE n == m.src
           b == FreeBuffer(m.src)
<1>1. /\ n \in Device /\ m \notin sent /\ sent' = sent \union {m} /\ UNCHANGED confirmed
      /\ Awaited(m) => /\ IsAppended(ackQ'[n], ackQ[n], Entry(m, b, SwAckTimeout + 1))
                       /\ \A k \in Device : k # n => ackQ'[k] = ackQ[k]
                       /\ macQ' = macQ
      /\ ~ Awaited(m) => /\ IsAppended(macQ'[n], macQ[n], Entry(m, b, 0))
                         /\ \A k \in Device : k # n => macQ'[k] = macQ[k]
                         /\ ackQ' = ackQ
  BY SendDataIs DEF Formed
<1>2. confirmed[m] = <<>>
  BY <1>1 DEF Unconfirmed
<1>3. \A t : Entry(m, b, t).msg = m
  BY DEF Entry
<1> HIDE DEF n, b
<1>4. ASSUME NEW k \in Device
      PROVE  /\ Distinct(macQ'[k])
             /\ \A x \in Messages(macQ'[k]) : x \in Message /\ confirmed[x] = <<>>
  <2>1. CASE macQ'[k] = macQ[k]
    BY <2>1, OwnEntries DEF Unconfirmed
  <2>2. CASE IsAppended(macQ'[k], macQ[k], Entry(m, b, 0))
    <3>1. m \notin Messages(macQ[k]) /\ Messages(macQ'[k]) = Messages(macQ[k]) \union {m}
      BY <1>1, <1>3, <2>2, OwnEntries, OwnersOfAppended
    <3>2. Distinct(macQ'[k])
      BY <1>3, <2>2, <3>1, DistinctAppended DEF Unconfirmed
    <3> QED
      BY <1>2, <3>1, <3>2, OwnEntries DEF Unconfirmed
  <2> QED
    BY <1>1, <2>1, <2>2
<1>5. ASSUME NEW k \in Device \ {Coordinator}
      PROVE  /\ Distinct(ackQ'[k])
             /\ \A x \in Messages(ackQ'[k]) : x \in Message /\ confirmed[x] = <<>>
  <2>1. CASE ackQ'[k] = ackQ[k]
    BY <2>1, OwnEntries DEF Unconfirmed
  <2>2. CASE IsAppended(ackQ'[k], ackQ[k], Entry(m, b, SwAckTimeout + 1))
    <3>1. m \notin Messages(ackQ[k]) /\ Messages(ackQ'[k]) = Messages(ackQ[k]) \union {m}
      BY <1>1, <1>3, <2>2, OwnEntries, OwnersOfAppended
    <3>2. Distinct(ackQ'[k])
      BY <1>3, <2>2, <3>1, DistinctAppended DEF Unconfirmed
    <3> QED
      BY <1>2, <3>1, <3>2, OwnEntries DEF Unconfirmed
  <2> QED
    BY <1>1, <2>1, <2>2
<1> QED
  BY <1>1, <1>4, <1>5, UnconfirmedFrom

LEMMA UnconfirmedMacAckOnly ==
  ASSUME Formed, Unconfirmed, NEW n \in Device, MacAckOnly(n)
  PROVE  Unconfirmed'
<1>1. /\ Reported(n) /\ UNCHANGED <<ackQ, sent>>
      /\ macQ[n] = <<>> => UNCHANGED <<macQ, confirmed>>
      /\ macQ[n] # <<>> => /\ IsTail(macQ'[n], macQ[n])
                           /\ \A k \in Device : k # n => macQ'[k] = macQ[k]
                           /\ Confirm({macQ[n][1].msg}, sending[n].status)
  BY MacAckOnlyIs DEF Formed
<1>2. CASE macQ[n] = <<>>
  BY <1>1, <1>2, UnconfirmedSame
<1>3. CASE macQ[n] # <<>>
  <2> DEFINE m == macQ[n][1].msg
  <2>1. \A x \in Message \ {m} : confirmed'[x] = confirmed[x]
    BY <1>1, <1>3, ConfirmIs DEF Formed, TypeOK, Reported
  <2>2. m \in Messages(macQ[n]) /\ Messages(macQ'[n]) \subseteq Messages(macQ[n])
    BY <1>1, <1>3, OwnersOfTail
  <2>3. Distinct(macQ'[n]) /\ m \notin Messages(macQ'[n])
    BY <1>1, <1>3, DistinctTail DEF Unconfirmed
  <2> HIDE DEF m
  <2>4. PICK M : M = {m}
    OBVIOUS
  <2>5. ASSUME n # Coordinator
        PROVE  Distinct(ackQ'[n]) /\ Messages(ackQ'[n]) \subseteq Messages(ackQ[n]) \ M
    <3>1. ackQ'[n] = ackQ[n] /\ m \notin Messages(ackQ[n])
      BY <1>1, <2>2, <2>5, OwnEntries
    <3> QED
      BY <2>4, <2>5, <3>1 DEF Unconfirmed
  <2>6. /\ Messages(macQ'[n]) \subseteq Messages(macQ[n]) \ M
        /\ \A x \in M : x \in Messages(macQ[n])
        /\ \A x \in Message \ M : confirmed'[x] = confirmed[x]
    BY <2>1, <2>2, <2>3, <2>4
  <2> QED
    BY <1>1, <1>3, <2>3, <2>5, <2>6, UnconfirmedAt
<1> QED
  BY <1>2, <1>3

(* A device has gone over its queue, or dropped the head.                  *)
LEMMA UnconfirmedLess ==
  ASSUME Formed, Unconfirmed, NEW n \in Device \ {Coordinator}, NEW status \in Statuses,
         Distinct(ackQ'[n]), Messages(ackQ'[n]) \subseteq Messages(ackQ[n]),
         \A k \in Device : k # n => ackQ'[k] = ackQ[k],
         Confirm(Messages(ackQ[n]) \ Messages(ackQ'[n]), status),
         UNCHANGED <<macQ, sent>>
  PROVE  Unconfirmed'
<1>1. PICK M : M = Messages(ackQ[n]) \ Messages(ackQ'[n])
  OBVIOUS
<1>2. \A x \in Message \ M : confirmed'[x] = confirmed[x]
  <2>1. Confirm(M, status)
    BY <1>1
  <2> QED
    BY <2>1, ConfirmIs DEF Formed, TypeOK
<1>3. Distinct(macQ'[n]) /\ Messages(macQ'[n]) \subseteq Messages(macQ[n]) \ M
  BY <1>1, OwnEntries DEF Unconfirmed
<1> QED
  BY <1>1, <1>2, <1>3, UnconfirmedAt

LEMMA UnconfirmedSwept ==
  ASSUME Formed, Unconfirmed, NEW n \in Device \ {Coordinator}, NEW status \in Statuses,
         NEW done, NEW kept, SweptOnce(n, done, kept),
         Confirm(Messages(ackQ[n]) \ Messages(ackQ'[n]), status),
         UNCHANGED <<macQ, sent>>
  PROVE  Unconfirmed'
<1>1. Derived(ackQ'[n], ackQ[n], done, kept) /\ \A k \in Device : k # n => ackQ'[k] = ackQ[k]
  BY DEF SweptOnce
<1>2. Messages(ackQ'[n]) \subseteq Messages(ackQ[n])
  BY <1>1, OwnersOfDerived
<1>3. Distinct(ackQ'[n])
  BY <1>1 DEF Derived, Unconfirmed
<1> QED
  BY <1>1, <1>2, <1>3, UnconfirmedLess

(* The head of the queue is confirmed.                                     *)
LEMMA HeadGone ==
  ASSUME NEW t, NEW q, IsTail(t, q), Distinct(q)
  PROVE  /\ Distinct(t) /\ Messages(t) \subseteq Messages(q)
         /\ Messages(q) \ Messages(t) = {q[1].msg}
BY DistinctTail, OwnersOfTail

(* Answers are for devices only.                                           *)
LEMMA AnswerHeard ==
  ASSUME Formed, NEW n \in Device, ReceiveSuccess(n)
  PROVE  n # Coordinator /\ Received(n).dst = n
<1>1. Fetched(n, "DATA_TO_ENDDEV_SUCCESS")
  BY ReceiveSuccessIs DEF Formed
<1> QED
  BY <1>1, FetchedHeard DEF Heard

LEMMA UnconfirmedReceiveSuccess ==
  ASSUME Formed, Unconfirmed, NEW n \in Device, ReceiveSuccess(n)
  PROVE  Unconfirmed'
<1>1. /\ UNCHANGED <<macQ, sent>>
      /\ ackQ[n] = <<>> => UNCHANGED <<ackQ, confirmed>>
      /\ ackQ[n] # <<>> => /\ IsTail(ackQ'[n], ackQ[n])
                           /\ \A k \in Device : k # n => ackQ'[k] = ackQ[k]
                           /\ Confirm({ackQ[n][1].msg}, "SUCCESS")
  BY ReceiveSuccessIs DEF Formed
<1>2. n # Coordinator
  BY AnswerHeard
<1>3. CASE ackQ[n] = <<>>
  BY <1>1, <1>3, UnconfirmedSame
<1>4. CASE ackQ[n] # <<>>
  <2>1. /\ Distinct(ackQ'[n]) /\ Messages(ackQ'[n]) \subseteq Messages(ackQ[n])
        /\ Messages(ackQ[n]) \ Messages(ackQ'[n]) = {ackQ[n][1].msg}
    BY <1>1, <1>2, <1>4, HeadGone DEF Unconfirmed
  <2>2. "SUCCESS" \in Statuses
    BY DEF Statuses
  <2> QED
    BY <1>1, <1>2, <1>4, <2>1, <2>2, UnconfirmedLess
<1> QED
  BY <1>3, <1>4

(* The timer of the coordinator never runs.                                *)
LEMMA TimerIsDevices ==
  ASSUME Formed, NEW n \in Device, DataTimer(n)
  PROVE  n # Coordinator
BY DataTimerIs DEF Formed, EntriesFormed

LEMMA UnconfirmedNext == Formed /\ Unconfirmed /\ [Next]_vars => Unconfirmed'
<1> SUFFICES ASSUME Formed, Unconfirmed, [Next]_vars  PROVE Unconfirmed'
  OBVIOUS
<1>1. CASE \E m \in Message, h \in HasMemory : SendData(m, h)
  BY <1>1, MemoryIs, UnconfirmedSendData
<1>2. CASE \E n \in Device : Transmission(n)
  BY <1>2, TransmissionIs, UnconfirmedSame DEF Formed
<1>3. CASE \E n \in Device : Report(n)
  <2>1. PICK n \in Device : Report(n)
    BY <1>3
  <2>2. CASE MacAckOnly(n)
    BY <2>2, UnconfirmedMacAckOnly
  <2>3. CASE FirstHop(n)
    BY <2>3, FirstHopIs, UnconfirmedSwept DEF Formed, Reported
  <2>4. CASE CommandSent(n)
    BY <2>4, CommandSentIs, UnconfirmedSame DEF Formed
  <2>5. CASE \E h \in HasMemory : LastHop(h)
    <3>1. PICK h \in BOOLEAN : LastHop(h)
      BY <2>5, MemoryIs
    <3>2. UNCHANGED <<sent, confirmed, macQ>>
      BY <3>1, LastHopIs DEF Formed
    <3>3. SweptOnce(Coordinator, LastDone(Coordinator), Unchanged)
      BY <3>1, LastHopIs DEF Formed
    <3> QED
      BY <3>2, <3>3, UnconfirmedSame DEF SweptOnce
  <2> QED
    BY <2>1, <2>2, <2>3, <2>4, <2>5 DEF Report
<1>4. CASE \E n \in Device : Parse(n)
  <2>1. PICK n \in Device : Parse(n)
    BY <1>4
  <2>2. CASE ReceiveSuccess(n)
    BY <2>2, UnconfirmedReceiveSuccess
  <2>3. CASE ReceiveData(n)
    BY <2>3, ReceiveDataIs, UnconfirmedSame DEF Formed
  <2>4. CASE \E h \in HasMemory : ReceiveForward(h)
    <3>1. PICK h \in BOOLEAN : ReceiveForward(h)
      BY <2>4, MemoryIs
    <3>2. UNCHANGED <<sent, confirmed, macQ>> /\ \A k \in Device \ {Coordinator} : ackQ'[k] = ackQ[k]
      BY <3>1 DEF ReceiveForward, Formed, TypeOK
    <3> QED
      BY <3>2, UnconfirmedSame
  <2> QED
    BY <2>1, <2>2, <2>3, <2>4 DEF Parse
<1>5. CASE \E n \in Device : DataTimer(n)
  <2>1. PICK n \in Device : DataTimer(n)
    BY <1>5
  <2>2. /\ SweptOnce(n, Expired, Older) /\ UNCHANGED <<macQ, sent>>
        /\ Confirm(Messages(ackQ[n]) \ Messages(ackQ'[n]), "NO_ACK")
    BY <2>1, DataTimerIs DEF Formed
  <2>3. "NO_ACK" \in Statuses
    BY DEF Statuses
  <2> QED
    BY <2>1, <2>2, <2>3, TimerIsDevices, UnconfirmedSwept
<1>6. CASE UNCHANGED vars
  BY <1>6, UnconfirmedSame DEF vars
<1> QED
  BY <1>1, <1>2, <1>3, <1>4, <1>5, <1>6 DEF Next, P2PTasks

----------------------------------------------------------------------------
(* Who owns a buffer.                                                      *)
LEMMA OwnedSwap ==
  ASSUME NEW H, NEW p, NEW q, OwnedBy(H, p, q)
  PROVE  OwnedBy(H, q, p)
BY DEF OwnedBy

LEMMA OwnedMore ==
  ASSUME NEW H, NEW p, NEW q, OwnedBy(H, p, q),
         NEW more, NEW x, IsAppended(more, q, x), x.buf \notin H
  PROVE  OwnedBy(H \union {x.buf}, p, more)
<1>1. Bufs(more) = Bufs(q) \union {x.buf}
  BY OwnersOfAppended
<1>2. Apart(more)
  BY ApartAppended DEF OwnedBy
<1> QED
  BY <1>1, <1>2 DEF OwnedBy

LEMMA OwnedLess ==
  ASSUME NEW H, NEW p, NEW q, OwnedBy(H, p, q), NEW rest, IsTail(rest, q)
  PROVE  OwnedBy(H \ {q[1].buf}, p, rest)
<1>1. Bufs(q) = Bufs(rest) \union {q[1].buf}
  BY OwnersOfTail
<1>2. Apart(rest) /\ q[1].buf \notin Bufs(rest)
  BY ApartTail DEF OwnedBy
<1> QED
  BY <1>1, <1>2 DEF OwnedBy

LEMMA OwnedSwept ==
  ASSUME NEW H, NEW p, NEW q, OwnedBy(H, p, q),
         NEW rest, NEW done, NEW kept, Derived(rest, q, done, kept)
  PROVE  OwnedBy(H \ (Bufs(q) \ Bufs(rest)), p, rest)
<1>1. Bufs(rest) \subseteq Bufs(q)
  BY OwnersOfDerived
<1>2. Apart(rest)
  BY DEF OwnedBy, Derived
<1> QED
  BY <1>1, <1>2 DEF OwnedBy

(* Who was confirmed stays so, and who was overtaken.                      *)
Growing == \A m \in Message : confirmed[m] # <<>> => confirmed'[m] # <<>>

LEMMA ConfirmGrows ==
  ASSUME TypeOK, NEW M, NEW s \in Statuses, Confirm(M, s)
  PROVE  Growing /\ \A m \in Message : m \in M => confirmed'[m] # <<>>
<1>1. \A m \in Message : confirmed'[m] = IF m \in M THEN Append(confirmed[m], s) ELSE confirmed[m]
  BY ConfirmIs DEF TypeOK
<1>2. \A m \in Message : Append(confirmed[m], s) # <<>>
  <2> TAKE m \in Message
  <2>1. PICK q \in Seq(Statuses) : q = confirmed[m]
    BY DEF TypeOK
  <2>2. Append(q, s) # <<>>
    OBVIOUS
  <2> QED
    BY <2>1, <2>2
<1> QED
  BY <1>1, <1>2 DEF Growing

LEMMA OvertakenStays ==
  ASSUME Growing, NEW f \in Frame, Overtaken(f)
  PROVE  Overtaken(f)'
<1>1. f.type = "FORWARD_PACKET" /\ f.handle.ackReq /\ confirmed[f.handle] # <<>>
  BY DEF Overtaken
<1>2. f.handle \in Message
  BY <1>1, FrameShape
<1>3. confirmed'[f.handle] # <<>>
  BY <1>1, <1>2 DEF Growing
<1> QED
  BY <1>1, <1>3 DEF Overtaken

(* Frames of a line are frames.                                            *)
LEMMA LineFrames ==
  ASSUME TypeOK, NEW n \in Device
  PROVE  Elements(lines[n]) \subseteq Frame
<1>1. lines[n] \in Seq(Frame)
  BY LineIs DEF TypeOK
<1> QED
  BY <1>1, SeqElements

(* A step of board n leaves the other boards alone.                        *)
LEMMA OwnershipFrom ==
  ASSUME Formed, Ownership, Growing, NEW n \in Device,
         \A k \in Device : k # n => /\ held'[k] = held[k] /\ macQ'[k] = macQ[k]
                                    /\ ackQ'[k] = ackQ[k] /\ lines'[k] = lines[k],
         OwnedBy(held'[n], macQ'[n], ackQ'[n]), BackedLine(n)', Faithful(n)',
         n = Coordinator => OneEach(lines'[n])
  PROVE  Ownership'
<1>1. ASSUME NEW k \in Device, k # n
      PROVE  OwnedBy(held'[k], macQ'[k], ackQ'[k]) /\ BackedLine(k)' /\ Faithful(k)'
  <2>1. OwnedBy(held[k], macQ[k], ackQ[k]) /\ BackedLine(k) /\ Faithful(k)
    BY DEF Ownership
  <2>2. lines'[k] = lines[k] /\ ackQ'[k] = ackQ[k]
    BY <1>1
  <2>3. \A f \in Elements(lines[k]) : Overtaken(f) => Overtaken(f)'
    BY LineFrames, OvertakenStays DEF Formed
  <2>4. BackedLine(k)'
    BY <2>1, <2>2, <2>3 DEF BackedLine
  <2>5. Faithful(k)'
    BY <2>1, <2>2 DEF Faithful
  <2> QED
    BY <1>1, <2>1, <2>4, <2>5
<1>2. OneEach(lines'[Coordinator])
  <2>1. CASE n = Coordinator
    BY <2>1
  <2>2. CASE n # Coordinator
    BY <2>2, DataPathAssumption DEF Ownership
  <2> QED
    BY <2>1, <2>2
<1>3. \A k \in Device : OwnedBy(held'[k], macQ'[k], ackQ'[k]) /\ BackedLine(k)' /\ Faithful(k)'
  BY <1>1
<1> QED
  BY <1>2, <1>3 DEF Ownership

LEMMA OwnershipSame ==
  ASSUME Ownership, UNCHANGED <<held, macQ, ackQ, confirmed>>, lines' = lines
  PROVE  Ownership'
BY DEF Ownership, BackedLine, Faithful, Overtaken

(* No frame is queued anew, and every entry is still there or its message  *)
(* was confirmed.                                                          *)
LEMMA BackedKept ==
  ASSUME Formed, Ownership, Growing, NEW n \in Device,
         Elements(lines'[n]) \subseteq Elements(lines[n]),
         \A x \in Elements(ackQ[n]) :
           \/ \E y \in Elements(ackQ'[n]) : y.buf = x.buf /\ y.msg = x.msg
           \/ n # Coordinator /\ confirmed'[x.msg] # <<>>
  PROVE  BackedLine(n)' /\ Faithful(n)'
<1>1. BackedLine(n) /\ Faithful(n)
  BY DEF Ownership
<1>2. ASSUME NEW f \in Elements(lines'[n]), WaitsForApp(f)
      PROVE  Backed(f, ackQ'[n]) \/ (n # Coordinator /\ Overtaken(f)')
  <2>1. f \in Elements(lines[n]) /\ f \in Frame
    BY LineFrames DEF Formed
  <2>2. CASE Backed(f, ackQ[n])
    <3>1. PICK x \in Elements(ackQ[n]) : f.msg = f.handle /\ x.buf = f.buf /\ x.msg = f.handle
      BY <2>2 DEF Backed
    <3>2. CASE \E y \in Elements(ackQ'[n]) : y.buf = x.buf /\ y.msg = x.msg
      BY <3>1, <3>2 DEF Backed
    <3>3. CASE n # Coordinator /\ confirmed'[x.msg] # <<>>
      <4>1. f.type = "FORWARD_PACKET" /\ f.handle.ackReq
        BY <1>2, <2>1, <3>3 DEF WaitsForApp, Formed, FramesFormed, Own
      <4> QED
        BY <3>1, <3>3, <4>1 DEF Overtaken
    <3> QED
      BY <3>2, <3>3
  <2>3. CASE n # Coordinator /\ Overtaken(f)
    BY <2>1, <2>3, OvertakenStays
  <2> QED
    BY <1>1, <1>2, <2>1, <2>2, <2>3 DEF BackedLine
<1>3. BackedLine(n)'
  BY <1>2 DEF BackedLine
<1>4. Faithful(n)'
  BY <1>1 DEF Faithful
<1> QED
  BY <1>3, <1>4

(* A line whose frames are the same or were overtaken.                     *)
LEMMA RewrittenFrames ==
  ASSUME Formed, InStep, Ownership, NEW n \in Device, NEW m \in Message, NEW b, b \notin held[n],
         NEW l, Renewed(l, lines[n], m, b)
  PROVE  \A g \in Elements(l) :
           g \in Elements(lines[n]) \/ (n # Coordinator /\ WaitsForApp(g) /\ Overtaken(g))
<1> TAKE g \in Elements(l)
<1>1. CASE g \in Elements(lines[n])
  BY <1>1
<1>2. CASE \E f \in Elements(lines[n]) : f \in Pointing /\ f.buf = b /\ g = Again(f, m)
  <2>1. PICK f \in Elements(lines[n]) : f \in Pointing /\ f.buf = b /\ g = Again(f, m)
    BY <1>2
  <2>2. g.type = f.type /\ g.handle = f.handle /\ (WaitsForApp(g) <=> WaitsForApp(f))
    BY <2>1, AgainIs
  <2>3. held[n] = Bufs(macQ[n]) \union Bufs(ackQ[n])
    BY DEF Ownership, OwnedBy
  <2>4. ~ WaitsForMac(f)
    <3>1. SUFFICES ASSUME WaitsForMac(f)  PROVE b \in Bufs(macQ[n])
      BY <2>3
    <3>2. PICK at \in [DOMAIN macQ[n] -> DOMAIN lines[n]] : MatchedBy(at, macQ[n], lines[n])
      BY MatchesIs DEF InStep
    <3>3. PICK j \in DOMAIN lines[n] : lines[n][j] = f
      BY DEF Elements
    <3>4. j \in {k \in DOMAIN lines[n] : WaitsForMac(lines[n][k])}
      BY <3>1, <3>3
    <3>5. PICK k \in DOMAIN macQ[n] : at[k] = j
      BY <3>2, <3>4 DEF MatchedBy
    <3>6. f.buf = macQ[n][k].buf
      BY <3>2, <3>3, <3>5 DEF MatchedBy
    <3> QED
      BY <2>1, <3>6 DEF Bufs
  <2>5. WaitsForApp(f)
    BY <2>1, <2>4 DEF WaitsForApp, WaitsForMac, Pointing
  <2>6. ~ Backed(f, ackQ[n])
    <3>1. Bufs(ackQ[n]) = {x.buf : x \in Elements(ackQ[n])}
      BY BufsOfElements
    <3> QED
      BY <2>1, <2>3, <3>1 DEF Backed
  <2>7. n # Coordinator /\ Overtaken(f)
    BY <2>1, <2>5, <2>6 DEF Ownership, BackedLine
  <2>8. Overtaken(g)
    BY <2>2, <2>7 DEF Overtaken
  <2> QED
    BY <2>2, <2>5, <2>7, <2>8
<1> QED
  BY <1>1, <1>2, ElementsRenewed

(* The line of the coordinator is not rewritten.                           *)
LEMMA OneEachRenewed ==
  ASSUME Formed, InStep, Ownership, NEW m \in Message, NEW b, b \notin held[Coordinator],
         NEW l, Renewed(l, lines[Coordinator], m, b)
  PROVE  /\ OneEach(l)
         /\ \A g \in Elements(l) : WaitsForApp(g) => g.buf # b
<1> DEFINE n == Coordinator
           q == lines[n]
<1>1. n \in Device
  BY DataPathAssumption
<1>2. \A g \in Elements(l) : WaitsForApp(g) => g \in Elements(q)
  BY <1>1, RewrittenFrames
<1>3. \A f \in Elements(q) : WaitsForApp(f) => f.buf # b
  <2> TAKE f \in Elements(q)
  <2>1. HAVE WaitsForApp(f)
  <2>2. Backed(f, ackQ[n])
    BY <1>1, <2>1 DEF Ownership, BackedLine
  <2>3. f.buf \in Bufs(ackQ[n])
    BY <2>2, BufsOfElements DEF Backed
  <2> QED
    BY <1>1, <2>3 DEF Ownership, OwnedBy
<1>4. /\ DOMAIN l = DOMAIN q
      /\ \A k \in DOMAIN q : \/ l[k] = q[k]
                             \/ q[k] \in Pointing /\ q[k].buf = b /\ l[k] = Again(q[k], m)
  BY DEF Renewed
<1>5. \A k \in DOMAIN q : WaitsForApp(l[k]) => l[k] = q[k]
  <2> TAKE k \in DOMAIN q
  <2>1. HAVE WaitsForApp(l[k])
  <2>2. ASSUME q[k] \in Pointing, q[k].buf = b, l[k] = Again(q[k], m)
        PROVE  FALSE
    <3>1. WaitsForApp(q[k])
      BY <2>1, <2>2, AgainIs
    <3> QED
      BY <1>3, <2>2, <3>1 DEF Elements
  <2> QED
    BY <1>4, <2>2
<1>6. OneEach(l)
  BY <1>4, <1>5 DEF Ownership, OneEach
<1> QED
  BY <1>2, <1>3, <1>6

LEMMA OneEachAppended ==
  ASSUME NEW a, NEW l, NEW f, IsAppended(a, l, f), OneEach(l),
         WaitsForApp(f) => \A g \in Elements(l) : WaitsForApp(g) => g.buf # f.buf
  PROVE  OneEach(a)
<1>1. /\ a[Len(l) + 1] = f
      /\ \A k \in DOMAIN l : k \in DOMAIN a /\ a[k] = l[k]
      /\ \A k \in DOMAIN a : k \in DOMAIN l \/ k = Len(l) + 1
  BY AppendedPlaces
<1>2. ASSUME NEW j \in DOMAIN a, NEW k \in DOMAIN a,
             WaitsForApp(a[j]), WaitsForApp(a[k]), a[j].buf = a[k].buf
      PROVE  j = k
  <2>1. CASE j \in DOMAIN l /\ k \in DOMAIN l
    BY <1>1, <1>2, <2>1 DEF OneEach
  <2>2. CASE j \in DOMAIN l /\ k = Len(l) + 1
    BY <1>1, <1>2, <2>2 DEF Elements
  <2>3. CASE j = Len(l) + 1 /\ k \in DOMAIN l
    BY <1>1, <1>2, <2>3 DEF Elements
  <2> QED
    BY <1>1, <2>1, <2>2, <2>3
<1> QED
  BY <1>2 DEF OneEach

LEMMA OneEachTail ==
  ASSUME NEW t, NEW l, IsTail(t, l), OneEach(l)
  PROVE  /\ OneEach(t)
         /\ WaitsForApp(l[1]) => \A g \in Elements(t) : WaitsForApp(g) => g.buf # l[1].buf
<1>1. /\ 1 \in DOMAIN l
      /\ \A k \in DOMAIN t : k + 1 \in DOMAIN l /\ k + 1 # 1 /\ t[k] = l[k + 1]
  BY TailPlaces
<1>2. DOMAIN t \subseteq Nat
  BY DEF IsTail
<1>3. ASSUME NEW j \in DOMAIN t, NEW k \in DOMAIN t,
             WaitsForApp(t[j]), WaitsForApp(t[k]), t[j].buf = t[k].buf
      PROVE  j = k
  <2>1. j + 1 = k + 1
    BY <1>1, <1>3 DEF OneEach
  <2> QED
    BY <1>2, <2>1
<1>4. WaitsForApp(l[1]) => \A g \in Elements(t) : WaitsForApp(g) => g.buf # l[1].buf
  BY <1>1 DEF OneEach, Elements
<1> QED
  BY <1>3, <1>4 DEF OneEach

(* A frame is queued together with its entry, and both have a new buffer.  *)
LEMMA OwnershipQueued ==
  ASSUME Formed, InStep, Ownership, NEW n \in Device, NEW m \in Message,
         NEW b, b \notin held[n], NEW f \in Frame, f.msg = m, f.handle = m, f.buf = b,
         \E l, t : QueuedBy(n, m, b, f, TRUE, l, t),
         held' = [held EXCEPT ![n] = held[n] \union {b}], confirmed' = confirmed,
         \A k \in Device : k # n => macQ'[k] = macQ[k] /\ ackQ'[k] = ackQ[k],
         NEW x, x.buf = b, x.msg = m,
         \/ IsAppended(ackQ'[n], ackQ[n], x) /\ macQ'[n] = macQ[n]
         \/ IsAppended(macQ'[n], macQ[n], x) /\ ackQ'[n] = ackQ[n] /\ ~ WaitsForApp(f)
  PROVE  Ownership'
<1>1. PICK l, t : QueuedBy(n, m, b, f, TRUE, l, t)
  OBVIOUS
<1>2. Renewed(l, lines[n], m, b)
  BY <1>1 DEF QueuedBy
<1>3. /\ IsAppended(lines'[n], l, f) /\ \A k \in Device : k # n => lines'[k] = lines[k]
      /\ Elements(lines'[n]) \subseteq Elements(l) \union {f}
  BY <1>1, LineLonger DEF Formed
<1>4. Growing
  BY DEF Growing
<1>5. /\ held'[n] = held[n] \union {b} /\ \A k \in Device : k # n => held'[k] = held[k]
  BY DEF Formed, TypeOK
<1>6. OwnedBy(held'[n], macQ'[n], ackQ'[n])
  <2>1. OwnedBy(held[n], macQ[n], ackQ[n])
    BY DEF Ownership
  <2>2. CASE IsAppended(ackQ'[n], ackQ[n], x) /\ macQ'[n] = macQ[n]
    BY <1>5, <2>1, <2>2, OwnedMore
  <2>3. CASE IsAppended(macQ'[n], macQ[n], x) /\ ackQ'[n] = ackQ[n]
    <3>1. OwnedBy(held[n], ackQ[n], macQ[n])
      BY <2>1, OwnedSwap
    <3>2. OwnedBy(held'[n], ackQ'[n], macQ'[n])
      BY <1>5, <2>3, <3>1, OwnedMore
    <3> QED
      BY <3>2, OwnedSwap
  <2> QED
    BY <2>2, <2>3
<1>7. /\ Elements(ackQ[n]) \subseteq Elements(ackQ'[n])
      /\ WaitsForApp(f) => x \in Elements(ackQ'[n])
  BY AppendedPlaces
<1>8. ASSUME NEW g \in Elements(lines'[n])
      PROVE  /\ WaitsForApp(g) => Backed(g, ackQ'[n]) \/ (n # Coordinator /\ Overtaken(g)')
             /\ WaitsForMac(g) => g.msg = g.handle
  <2>1. CASE g = f
    BY <1>7, <2>1 DEF Backed
  <2>2. CASE g \in Elements(lines[n])
    <3>1. WaitsForApp(g) => Backed(g, ackQ[n]) \/ (n # Coordinator /\ Overtaken(g))
      BY <2>2 DEF Ownership, BackedLine
    <3>2. WaitsForMac(g) => g.msg = g.handle
      BY <2>2 DEF Ownership, Faithful
    <3>3. Backed(g, ackQ[n]) => Backed(g, ackQ'[n])
      BY <1>7 DEF Backed
    <3>4. Overtaken(g) => Overtaken(g)'
      BY DEF Overtaken
    <3> QED
      BY <3>1, <3>2, <3>3, <3>4
  <2>3. CASE n # Coordinator /\ WaitsForApp(g) /\ Overtaken(g)
    BY <2>3, NotBoth DEF Overtaken
  <2> QED
    BY <1>2, <1>3, <2>1, <2>2, <2>3, RewrittenFrames
<1>9. BackedLine(n)'
  BY <1>8 DEF BackedLine
<1>10. Faithful(n)'
  BY <1>8 DEF Faithful
<1>11. ASSUME n = Coordinator  PROVE OneEach(lines'[n])
  <2>1. OneEach(l) /\ \A g \in Elements(l) : WaitsForApp(g) => g.buf # b
    BY <1>2, <1>11, OneEachRenewed
  <2> QED
    BY <1>3, <2>1, OneEachAppended
<1> QED
  BY <1>3, <1>4, <1>5, <1>6, <1>9, <1>10, <1>11, OwnershipFrom

LEMMA OwnershipSendData ==
  ASSUME Formed, InStep, Ownership, NEW m \in Message, SendData(m, TRUE)
  PROVE  Ownership'
<1> DEFINE n == m.src
           b == FreeBuffer(m.src)
           f == Outgoing(m)
<1>1. /\ n \in Device /\ b \in Buffer /\ b \notin held[n] /\ UNCHANGED confirmed
      /\ held' = [held EXCEPT ![n] = held[n] \union {b}]
      /\ \E l, t : QueuedBy(n, m, b, f, TRUE, l, t)
      /\ Awaited(m) => /\ IsAppended(ackQ'[n], ackQ[n], Entry(m, b, SwAckTimeout + 1))
                       /\ \A k \in Device : k # n => ackQ'[k] = ackQ[k]
                       /\ macQ' = macQ
      /\ ~ Awaited(m) => /\ IsAppended(macQ'[n], macQ[n], Entry(m, b, 0))
                         /\ \A k \in Device : k # n => macQ'[k] = macQ[k]
                         /\ ackQ' = ackQ
  BY SendDataIs DEF Formed
<1>2. /\ f \in Frame /\ f.src = n /\ f.msg = m /\ f.handle = m /\ f.buf = b
      /\ f.type = IF Relayed(m) THEN "FORWARD_PACKET" ELSE "DATA"
  BY <1>1, OutgoingIs
<1>3. \A t : Entry(m, b, t).buf = b /\ Entry(m, b, t).msg = m
  BY DEF Entry
<1>4. ~ Awaited(m) => ~ WaitsForApp(f)
  BY <1>2, MessageShape DEF WaitsForApp
<1> HIDE DEF f, b, n
<1>5. PICK g \in Frame :
        /\ g.msg = m /\ g.handle = m /\ g.buf = b
        /\ \E l, t : QueuedBy(n, m, b, g, TRUE, l, t)
        /\ ~ Awaited(m) => ~ WaitsForApp(g)
  BY <1>1, <1>2, <1>4
<1>6. /\ n \in Device /\ b \notin held[n] /\ confirmed' = confirmed
      /\ held' = [held EXCEPT ![n] = held[n] \union {b}]
  BY <1>1
<1>7. CASE Awaited(m)
  <2>1. PICK x : x = Entry(m, b, SwAckTimeout + 1)
    OBVIOUS
  <2>2. x.buf = b /\ x.msg = m
    BY <1>3, <2>1
  <2>3. /\ IsAppended(ackQ'[n], ackQ[n], x) /\ macQ'[n] = macQ[n]
        /\ \A k \in Device : k # n => macQ'[k] = macQ[k] /\ ackQ'[k] = ackQ[k]
    BY <1>1, <1>7, <2>1
  <2> QED
    BY <1>5, <1>6, <2>2, <2>3, OwnershipQueued
<1>8. CASE ~ Awaited(m)
  <2>1. PICK x : x = Entry(m, b, 0)
    OBVIOUS
  <2>2. x.buf = b /\ x.msg = m
    BY <1>3, <2>1
  <2>3. /\ IsAppended(macQ'[n], macQ[n], x) /\ ackQ'[n] = ackQ[n]
        /\ \A k \in Device : k # n => macQ'[k] = macQ[k] /\ ackQ'[k] = ackQ[k]
    BY <1>1, <1>8, <2>1
  <2>4. ~ WaitsForApp(g)
    BY <1>5, <1>8
  <2> QED
    BY <1>5, <1>6, <2>2, <2>3, <2>4, OwnershipQueued
<1> QED
  BY <1>7, <1>8

LEMMA OwnershipReceiveForward ==
  ASSUME Formed, InStep, Ownership, ReceiveForward(TRUE)
  PROVE  Ownership'
<1> DEFINE n == Coordinator
           m == Received(Coordinator).msg
           b == FreeBuffer(Coordinator)
           takes == m.dst \in Member /\ held[n] # Buffer
<1>1. /\ m \in Message /\ UNCHANGED <<macQ, confirmed>>
      /\ takes => /\ b \in Buffer /\ b \notin held[n]
                  /\ held' = [held EXCEPT ![n] = held[n] \union {b}]
                  /\ \E l, t : QueuedBy(n, m, b, Data(n, m, b), TRUE, l, t)
                  /\ IsAppended(ackQ'[n], ackQ[n], Entry(m, b, 0))
                  /\ \A k \in Device : k # n => ackQ'[k] = ackQ[k]
      /\ ~ takes => lines' = lines /\ UNCHANGED <<held, ackQ>>
  BY ReceiveForwardIs DEF Formed
<1>2. n \in Device
  BY DataPathAssumption
<1>3. CASE takes
  <2>1. /\ b \in Buffer /\ b \notin held[n]
        /\ held' = [held EXCEPT ![n] = held[n] \union {b}]
        /\ \E l, t : QueuedBy(n, m, b, Data(n, m, b), TRUE, l, t)
        /\ IsAppended(ackQ'[n], ackQ[n], Entry(m, b, 0))
        /\ \A k \in Device : k # n => ackQ'[k] = ackQ[k]
    BY <1>1, <1>3
  <2> HIDE DEF b, m, n
  <2>2. PICK f : f = Data(n, m, b)
    OBVIOUS
  <2>3. f \in Frame /\ f.msg = m /\ f.handle = m /\ f.buf = b
    BY <1>1, <1>2, <2>1, <2>2, FramesBuilt
  <2>4. PICK x : x = Entry(m, b, 0)
    OBVIOUS
  <2>5. x.buf = b /\ x.msg = m
    BY <2>4 DEF Entry
  <2>6. (\E l, t : QueuedBy(n, m, b, f, TRUE, l, t)) /\ IsAppended(ackQ'[n], ackQ[n], x)
    BY <2>1, <2>2, <2>4
  <2>7. /\ m \in Message /\ confirmed' = confirmed /\ macQ'[n] = macQ[n]
        /\ \A k \in Device : k # n => macQ'[k] = macQ[k] /\ ackQ'[k] = ackQ[k]
    BY <1>1, <2>1
  <2> QED
    BY <1>2, <2>1, <2>3, <2>5, <2>6, <2>7, OwnershipQueued
<1>4. CASE ~ takes
  BY <1>1, <1>4, OwnershipSame
<1> QED
  BY <1>3, <1>4

LEMMA OwnershipMacAckOnly ==
  ASSUME Formed, InStep, Ownership, NEW n \in Device, MacAckOnly(n)
  PROVE  Ownership'
<1>1. /\ Reported(n) /\ lines' = [lines EXCEPT ![n] = txq[n]]
      /\ IsTail(macQ'[n], macQ[n]) /\ \A k \in Device : k # n => macQ'[k] = macQ[k]
      /\ Confirm({macQ[n][1].msg}, sending[n].status)
      /\ FreeBufs(n, {macQ[n][1].buf})
      /\ UNCHANGED ackQ
  BY MacAckOnlyIs, InStepMacAckOnly DEF Formed
<1>2. Growing
  BY <1>1, ConfirmGrows DEF Formed, Reported
<1>3. /\ lines'[n] = txq[n] /\ \A k \in Device : k # n => lines'[k] = lines[k]
      /\ Elements(lines'[n]) \subseteq Elements(lines[n])
  BY <1>1, LineShorter DEF Formed
<1>4. held'[n] = held[n] \ {macQ[n][1].buf} /\ \A k \in Device : k # n => held'[k] = held[k]
  BY <1>1, FreeBufsIs DEF Formed, TypeOK
<1>5. OwnedBy(held'[n], macQ'[n], ackQ'[n])
  <2>1. OwnedBy(held[n], ackQ[n], macQ[n])
    BY OwnedSwap DEF Ownership
  <2>2. OwnedBy(held[n] \ {macQ[n][1].buf}, ackQ[n], macQ'[n])
    BY <1>1, <2>1, OwnedLess
  <2> QED
    BY <1>1, <1>4, <2>2, OwnedSwap
<1>6. BackedLine(n)' /\ Faithful(n)'
  BY <1>1, <1>2, <1>3, BackedKept
<1>7. n = Coordinator => OneEach(lines'[n])
  BY <1>1, <1>3, OneEachTail DEF Reported, Ownership
<1> QED
  BY <1>1, <1>2, <1>3, <1>4, <1>5, <1>6, <1>7, OwnershipFrom

(* A device has gone over its queue, or dropped the head.                  *)
LEMMA OwnershipLess ==
  ASSUME Formed, Ownership, Unconfirmed, NEW n \in Device \ {Coordinator},
         NEW status \in Statuses,
         \A k \in Device : Elements(lines'[k]) \subseteq Elements(lines[k]),
         \A k \in Device : k # n => ackQ'[k] = ackQ[k] /\ lines'[k] = lines[k],
         \A y \in Elements(ackQ'[n]) :
           \E x \in Elements(ackQ[n]) : y.buf = x.buf /\ y.msg = x.msg,
         Confirm(Messages(ackQ[n]) \ Messages(ackQ'[n]), status),
         UNCHANGED macQ, \A k \in Device : k # n => held'[k] = held[k],
         OwnedBy(held'[n], macQ'[n], ackQ'[n])
  PROVE  Ownership'
<1>1. PICK M : M = Messages(ackQ[n]) \ Messages(ackQ'[n])
  OBVIOUS
<1>2. Growing /\ \A m \in Message : m \in M => confirmed'[m] # <<>>
  <2>1. Confirm(M, status)
    BY <1>1
  <2> QED
    BY <2>1, ConfirmGrows DEF Formed
<1>3. ASSUME NEW x \in Elements(ackQ[n])
      PROVE  \/ \E y \in Elements(ackQ'[n]) : y.buf = x.buf /\ y.msg = x.msg
             \/ confirmed'[x.msg] # <<>>
  <2>1. x.msg \in Messages(ackQ[n])
    BY BufsOfElements
  <2>2. x.msg \in Message
    BY <2>1, OwnEntries
  <2>3. CASE x.msg \notin Messages(ackQ'[n])
    BY <1>1, <1>2, <2>1, <2>2, <2>3
  <2>4. CASE x.msg \in Messages(ackQ'[n])
    <3>1. PICK y \in Elements(ackQ'[n]) : y.msg = x.msg
      BY <2>4, BufsOfElements
    <3>2. PICK z \in Elements(ackQ[n]) : y.buf = z.buf /\ y.msg = z.msg
      BY <3>1
    <3>3. Distinct(ackQ[n])
      BY DEF Unconfirmed
    <3>4. PICK i, j \in DOMAIN ackQ[n] : x = ackQ[n][i] /\ z = ackQ[n][j]
      BY DEF Elements
    <3>5. z = x
      BY <3>1, <3>2, <3>3, <3>4 DEF Distinct
    <3> QED
      BY <3>1, <3>2, <3>5
  <2> QED
    BY <2>3, <2>4
<1>4. BackedLine(n)' /\ Faithful(n)'
  BY <1>2, <1>3, BackedKept
<1> QED
  BY <1>2, <1>4, OwnershipFrom

LEMMA OwnershipSwept ==
  ASSUME Formed, Ownership, Unconfirmed, NEW n \in Device \ {Coordinator},
         NEW status \in Statuses, NEW done, NEW kept, SweptOnce(n, done, kept),
         \A k \in Device : Elements(lines'[k]) \subseteq Elements(lines[k]),
         \A k \in Device : k # n => lines'[k] = lines[k],
         Confirm(Messages(ackQ[n]) \ Messages(ackQ'[n]), status),
         FreeBufs(n, Bufs(ackQ[n]) \ Bufs(ackQ'[n])), UNCHANGED macQ
  PROVE  Ownership'
<1>1. Derived(ackQ'[n], ackQ[n], done, kept) /\ \A k \in Device : k # n => ackQ'[k] = ackQ[k]
  BY DEF SweptOnce
<1>2. PICK B : B = Bufs(ackQ[n]) \ Bufs(ackQ'[n])
  OBVIOUS
<1>3. held'[n] = held[n] \ B /\ \A k \in Device : k # n => held'[k] = held[k]
  <2>1. FreeBufs(n, B)
    BY <1>2
  <2> QED
    BY <2>1, FreeBufsIs DEF Formed, TypeOK
<1>4. OwnedBy(held'[n], macQ'[n], ackQ'[n])
  <2>1. OwnedBy(held[n], macQ[n], ackQ[n])
    BY DEF Ownership
  <2>2. OwnedBy(held[n] \ (Bufs(ackQ[n]) \ Bufs(ackQ'[n])), macQ[n], ackQ'[n])
    BY <1>1, <2>1, OwnedSwept
  <2> QED
    BY <1>2, <1>3, <2>2
<1>5. \A y \in Elements(ackQ'[n]) :
        \E x \in Elements(ackQ[n]) : y.buf = x.buf /\ y.msg = x.msg
  BY <1>1 DEF Derived
<1> QED
  BY <1>1, <1>3, <1>4, <1>5, OwnershipLess

LEMMA OwnershipFirstHop ==
  ASSUME Formed, Ownership, Unconfirmed, NEW n \in Device, FirstHop(n)
  PROVE  Ownership'
<1>1. /\ Reported(n) /\ n # Coordinator
      /\ lines' = [lines EXCEPT ![n] = txq[n]]
      /\ SweptOnce(n, FirstDone(n), Unchanged)
      /\ Confirm(Messages(ackQ[n]) \ Messages(ackQ'[n]), sending[n].status)
      /\ FreeBufs(n, Bufs(ackQ[n]) \ Bufs(ackQ'[n])) /\ UNCHANGED macQ
  BY FirstHopIs DEF Formed
<1>2. /\ \A k \in Device : k # n => lines'[k] = lines[k]
      /\ \A k \in Device : Elements(lines'[k]) \subseteq Elements(lines[k])
  BY <1>1, LineShorter DEF Formed
<1>3. sending[n].status \in Statuses
  BY <1>1 DEF Reported
<1> QED
  BY <1>1, <1>2, <1>3, OwnershipSwept

LEMMA OwnershipDataTimer ==
  ASSUME Formed, Ownership, Unconfirmed, NEW n \in Device, DataTimer(n)
  PROVE  Ownership'
<1>1. /\ lines' = lines /\ SweptOnce(n, Expired, Older)
      /\ Confirm(Messages(ackQ[n]) \ Messages(ackQ'[n]), "NO_ACK")
      /\ FreeBufs(n, Bufs(ackQ[n]) \ Bufs(ackQ'[n])) /\ UNCHANGED macQ
  BY DataTimerIs DEF Formed
<1>2. n # Coordinator
  BY TimerIsDevices
<1>3. "NO_ACK" \in Statuses
  BY DEF Statuses
<1> QED
  BY <1>1, <1>2, <1>3, OwnershipSwept

LEMMA OwnershipReceiveSuccess ==
  ASSUME Formed, Ownership, Unconfirmed, NEW n \in Device, ReceiveSuccess(n)
  PROVE  Ownership'
<1>1. /\ lines' = lines /\ UNCHANGED macQ
      /\ ackQ[n] = <<>> => UNCHANGED <<ackQ, confirmed, held>>
      /\ ackQ[n] # <<>> => /\ IsTail(ackQ'[n], ackQ[n])
                           /\ \A k \in Device : k # n => ackQ'[k] = ackQ[k]
                           /\ Confirm({ackQ[n][1].msg}, "SUCCESS")
                           /\ FreeBufs(n, {ackQ[n][1].buf})
  BY ReceiveSuccessIs DEF Formed
<1>2. n # Coordinator
  BY AnswerHeard
<1>3. CASE ackQ[n] = <<>>
  BY <1>1, <1>3, OwnershipSame
<1>4. CASE ackQ[n] # <<>>
  <2>1. /\ held'[n] = held[n] \ {ackQ[n][1].buf}
        /\ \A k \in Device : k # n => held'[k] = held[k]
    BY <1>1, <1>4, FreeBufsIs DEF Formed, TypeOK
  <2>2. OwnedBy(held'[n], macQ'[n], ackQ'[n])
    BY <1>1, <1>4, <2>1, OwnedLess DEF Ownership
  <2>3. Messages(ackQ[n]) \ Messages(ackQ'[n]) = {ackQ[n][1].msg}
    BY <1>1, <1>2, <1>4, HeadGone DEF Unconfirmed
  <2>4. Confirm(Messages(ackQ[n]) \ Messages(ackQ'[n]), "SUCCESS")
    BY <1>1, <1>4, <2>3
  <2>5. Elements(ackQ'[n]) \subseteq Elements(ackQ[n])
    BY <1>1, <1>4, TailPlaces
  <2>6. "SUCCESS" \in Statuses
    BY DEF Statuses
  <2> QED
    BY <1>1, <1>2, <1>4, <2>1, <2>2, <2>4, <2>5, <2>6, OwnershipLess
<1> QED
  BY <1>3, <1>4

LEMMA OwnershipCommandSent ==
  ASSUME Formed, Ownership, NEW n \in Device, CommandSent(n)
  PROVE  Ownership'
<1>1. /\ Reported(n) /\ lines' = [lines EXCEPT ![n] = txq[n]]
      /\ UNCHANGED <<held, macQ, ackQ, confirmed>>
  BY CommandSentIs DEF Formed
<1>2. /\ lines'[n] = txq[n] /\ \A k \in Device : k # n => lines'[k] = lines[k]
      /\ Elements(lines'[n]) \subseteq Elements(lines[n])
  BY <1>1, LineShorter DEF Formed
<1>3. Growing
  BY <1>1 DEF Growing
<1>4. BackedLine(n)' /\ Faithful(n)'
  BY <1>1, <1>2, <1>3, BackedKept
<1>5. n = Coordinator => OneEach(lines'[n])
  BY <1>1, <1>2, OneEachTail DEF Reported, Ownership
<1>6. OwnedBy(held'[n], macQ'[n], ackQ'[n])
  BY <1>1 DEF Ownership
<1> QED
  BY <1>1, <1>2, <1>3, <1>4, <1>5, <1>6, OwnershipFrom

(* The entry of the frame that was sent goes, and nobody else's does.      *)
LEMMA OwnershipLastHop ==
  ASSUME Formed, Ownership, LastHop(TRUE)
  PROVE  Ownership'
<1> DEFINE n == Coordinator
           f == sending[Coordinator].frame
           g == Success(f.msg.src, Len(relayed'))
<1>1. /\ Reported(n) /\ WaitsForApp(f)
      /\ SweptOnce(n, LastDone(n), Unchanged)
      /\ FreeBufs(n, Bufs(ackQ[n]) \ Bufs(ackQ'[n]))
      /\ UNCHANGED <<macQ, confirmed>>
  BY LastHopIs DEF Formed
<1>2. /\ \A k \in Device : k # n => lines'[k] = lines[k]
      /\ IF Tells THEN IsAppended(lines'[n], txq[n], g) ELSE lines'[n] = txq[n]
  BY ToldIs DEF Formed
<1>3. n \in Device
  BY DataPathAssumption
<1>4. IsTail(txq[n], lines[n]) /\ lines[n][1] = f
  BY <1>1 DEF Reported
<1>5. ~ WaitsForApp(g) /\ ~ WaitsForMac(g)
  BY DEF WaitsForApp, WaitsForMac, Success
<1> HIDE DEF g
<1>6. /\ OneEach(txq[n])
      /\ \A x \in Elements(txq[n]) : WaitsForApp(x) => x.buf # f.buf
  BY <1>1, <1>4, OneEachTail DEF Ownership
<1>7. Elements(lines'[n]) \subseteq Elements(txq[n]) \union {g}
  BY <1>2, AppendedPlaces
<1>8. Elements(txq[n]) \subseteq Elements(lines[n])
  BY <1>4, TailPlaces
<1>9. OneEach(lines'[n])
  BY <1>2, <1>5, <1>6, OneEachAppended
<1>10. /\ Derived(ackQ'[n], ackQ[n], LastDone(n), Unchanged)
       /\ \A k \in Device : k # n => ackQ'[k] = ackQ[k]
  BY <1>1 DEF SweptOnce
<1>11. ASSUME NEW x \in Elements(lines'[n]), WaitsForApp(x)
       PROVE  Backed(x, ackQ'[n])
  <2>1. x \in Elements(txq[n]) /\ x.buf # f.buf
    BY <1>5, <1>6, <1>7, <1>11
  <2>2. Backed(x, ackQ[n])
    BY <1>3, <1>8, <1>11, <2>1 DEF Ownership, BackedLine
  <2>3. PICK y \in Elements(ackQ[n]) : y.buf = x.buf /\ y.msg = x.handle
    BY <2>2 DEF Backed
  <2>4. y \in Elements(ackQ'[n])
    BY <1>10, <2>1, <2>3 DEF Derived, LastDone
  <2> QED
    BY <2>2, <2>3, <2>4 DEF Backed
<1>12. BackedLine(n)'
  BY <1>11 DEF BackedLine
<1>13. Faithful(n)'
  BY <1>3, <1>5, <1>7, <1>8 DEF Ownership, Faithful
<1>14. PICK B : B = Bufs(ackQ[n]) \ Bufs(ackQ'[n])
  OBVIOUS
<1>15. held'[n] = held[n] \ B /\ \A k \in Device : k # n => held'[k] = held[k]
  <2>1. FreeBufs(n, B)
    BY <1>1, <1>14
  <2> QED
    BY <1>3, <2>1, FreeBufsIs DEF Formed, TypeOK
<1>16. OwnedBy(held'[n], macQ'[n], ackQ'[n])
  <2>1. OwnedBy(held[n], macQ[n], ackQ[n])
    BY <1>3 DEF Ownership
  <2>2. OwnedBy(held[n] \ (Bufs(ackQ[n]) \ Bufs(ackQ'[n])), macQ[n], ackQ'[n])
    BY <1>10, <2>1, OwnedSwept
  <2> QED
    BY <1>1, <1>14, <1>15, <2>2
<1>17. Growing
  BY <1>1 DEF Growing
<1> QED
  BY <1>1, <1>2, <1>3, <1>9, <1>10, <1>12, <1>13, <1>15, <1>16, <1>17, OwnershipFrom

LEMMA OwnershipNext ==
  ~ MemoryFails /\ Formed /\ InStep /\ Ownership /\ Unconfirmed /\ [Next]_vars => Ownership'
<1> SUFFICES ASSUME ~ MemoryFails, Formed, InStep, Ownership, Unconfirmed, [Next]_vars
             PROVE  Ownership'
  OBVIOUS
<1>1. CASE \E m \in Message, h \in HasMemory : SendData(m, h)
  BY <1>1, MemoryIs, OwnershipSendData
<1>2. CASE \E n \in Device : Transmission(n)
  BY <1>2, TransmissionIs, OwnershipSame DEF Formed
<1>3. CASE \E n \in Device : Report(n)
  <2>1. PICK n \in Device : Report(n)
    BY <1>3
  <2>2. CASE MacAckOnly(n)
    BY <2>2, OwnershipMacAckOnly
  <2>3. CASE FirstHop(n)
    BY <2>3, OwnershipFirstHop
  <2>4. CASE CommandSent(n)
    BY <2>4, OwnershipCommandSent
  <2>5. CASE \E h \in HasMemory : LastHop(h)
    BY <2>5, MemoryIs, OwnershipLastHop
  <2> QED
    BY <2>1, <2>2, <2>3, <2>4, <2>5 DEF Report
<1>4. CASE \E n \in Device : Parse(n)
  <2>1. PICK n \in Device : Parse(n)
    BY <1>4
  <2>2. CASE ReceiveSuccess(n)
    BY <2>2, OwnershipReceiveSuccess
  <2>3. CASE ReceiveData(n)
    BY <2>3, ReceiveDataIs, OwnershipSame DEF Formed
  <2>4. CASE \E h \in HasMemory : ReceiveForward(h)
    BY <2>4, MemoryIs, OwnershipReceiveForward
  <2> QED
    BY <2>1, <2>2, <2>3, <2>4 DEF Parse
<1>5. CASE \E n \in Device : DataTimer(n)
  BY <1>5, OwnershipDataTimer
<1>6. CASE UNCHANGED vars
  <2>1. UNCHANGED <<held, macQ, ackQ, confirmed>> /\ lines' = lines
    BY <1>6, LinesSame DEF vars, radio
  <2> QED
    BY <2>1, OwnershipSame
<1> QED
  BY <1>1, <1>2, <1>3, <1>4, <1>5, <1>6 DEF Next, P2PTasks

----------------------------------------------------------------------------
(* What the parts say of the model's own words.                            *)
LEMMA ConcatOwners ==
  ASSUME NEW p \in Seq(Entries), NEW q \in Seq(Entries)
  PROVE  LET r == p \o q
         IN  /\ r \in Seq(Entries) /\ Elements(r) = Elements(p) \union Elements(q)
             /\ Apart(p) /\ Apart(q) /\ Bufs(p) \intersect Bufs(q) = {} => Apart(r)
<1> DEFINE r == p \o q
           P == Len(p)
           Q == Len(q)
<1>1. /\ P \in Nat /\ DOMAIN p = 1 .. P /\ Q \in Nat /\ DOMAIN q = 1 .. Q
  BY LenProperties
<1>2. /\ r \in Seq(Entries) /\ Len(r) = P + Q
      /\ \A i \in 1 .. P + Q : r[i] = IF i <= P THEN p[i] ELSE q[i - P]
  BY ConcatProperties
<1>3. DOMAIN r = 1 .. P + Q
  BY <1>2, LenProperties
<1> HIDE DEF r, P, Q
<1>4. ASSUME NEW i \in DOMAIN r
      PROVE  \/ i \in DOMAIN p /\ r[i] = p[i]
             \/ i - P \in DOMAIN q /\ r[i] = q[i - P] /\ i = (i - P) + P
  BY <1>1, <1>2, <1>3
<1>5. \A i \in DOMAIN p : i \in DOMAIN r /\ r[i] = p[i]
  BY <1>1, <1>2, <1>3
<1>6. ASSUME NEW i \in DOMAIN q
      PROVE  i + P \in DOMAIN r /\ r[i + P] = q[i]
  <2>1. i + P \in 1 .. P + Q /\ ~ (i + P <= P) /\ (i + P) - P = i
    BY <1>1
  <2> QED
    BY <1>2, <1>3, <2>1
<1>7. Elements(r) \subseteq Elements(p) \union Elements(q)
  BY <1>4 DEF Elements
<1>8. Elements(p) \union Elements(q) \subseteq Elements(r)
  BY <1>5, <1>6 DEF Elements
<1>9. ASSUME Apart(p), Apart(q), Bufs(p) \intersect Bufs(q) = {},
             NEW i \in DOMAIN r, NEW j \in DOMAIN r, r[i].buf = r[j].buf
      PROVE  i = j
  <2>1. \A a \in DOMAIN p, c \in DOMAIN q : p[a].buf # q[c].buf
    BY <1>9 DEF Bufs
  <2>2. CASE i \in DOMAIN p /\ r[i] = p[i]
    BY <1>4, <1>9, <2>1, <2>2 DEF Apart
  <2>3. CASE i - P \in DOMAIN q /\ r[i] = q[i - P] /\ i = (i - P) + P
    <3>1. j - P \in DOMAIN q /\ r[j] = q[j - P] /\ j = (j - P) + P
      BY <1>4, <1>9, <2>1, <2>3
    <3>2. i - P = j - P
      BY <1>9, <2>3, <3>1 DEF Apart
    <3> QED
      BY <2>3, <3>1, <3>2
  <2> QED
    BY <1>4, <2>2, <2>3
<1>10. Apart(p) /\ Apart(q) /\ Bufs(p) \intersect Bufs(q) = {} => Apart(r)
  BY <1>9 DEF Apart
<1> QED
  BY <1>2, <1>7, <1>8, <1>10 DEF r

LEMMA ApartCounts ==
  ASSUME NEW q \in Seq(Entries), Apart(q)
  PROVE  Cardinality(Bufs(q)) = Len(q)
<1>1. Len(q) \in Nat /\ DOMAIN q = 1 .. Len(q)
  BY LenProperties
<1> DEFINE F == [k \in 1 .. Len(q) |-> q[k].buf]
<1>2. F \in [1 .. Len(q) -> Bufs(q)]
  BY <1>1 DEF Bufs
<1>3. \A j, k \in 1 .. Len(q) : F[j] = F[k] => j = k
  BY <1>1 DEF Apart
<1>4. \A t \in Bufs(q) : \E k \in 1 .. Len(q) : F[k] = t
  BY <1>1 DEF Bufs
<1> HIDE DEF F
<1>5. F \in Bijection(1 .. Len(q), Bufs(q))
  BY <1>2, <1>3, <1>4, Fun_IsBij
<1>6. ExistsBijection(1 .. Len(q), Bufs(q))
  BY <1>5 DEF ExistsBijection
<1> QED
  BY <1>1, <1>6, FS_CountingElements

LEMMA HeadsMatchIs ==
  ASSUME Formed, InStep
  PROVE  HeadsMatch
<1>1. \A n \in Device : lines[n] = Line(n)
  BY DEF lines
<1> QED
  BY <1>1 DEF HeadsMatch, InStep, Formed

LEMMA BuffersOwnedIs ==
  ASSUME Formed, InStep, Ownership
  PROVE  BuffersOwned
<1> SUFFICES ASSUME NEW n \in Device
             PROVE  LET q == macQ[n] \o ackQ[n]
                        frames == {txq[n][k] : k \in DOMAIN txq[n]} \union {sending[n].frame}
                    IN  /\ Cardinality(Bufs(q)) = Len(q)
                        /\ held[n] = Bufs(q)
                        /\ \A f \in frames \intersect Pointing :
                             \/ /\ f.msg = f.handle
                                /\ \E k \in DOMAIN q : q[k].buf = f.buf /\ q[k].msg = f.handle
                             \/ Overtaken(f)
  BY DEF BuffersOwned
<1> DEFINE q == macQ[n] \o ackQ[n]
<1>1. macQ[n] \in Seq(Entries) /\ ackQ[n] \in Seq(Entries)
  BY DEF Formed, TypeOK
<1>2. OwnedBy(held[n], macQ[n], ackQ[n]) /\ BackedLine(n) /\ Faithful(n)
  BY DEF Ownership
<1>3. /\ q \in Seq(Entries) /\ Elements(q) = Elements(macQ[n]) \union Elements(ackQ[n])
      /\ Apart(q)
  BY <1>1, <1>2, ConcatOwners DEF OwnedBy
<1>4. Cardinality(Bufs(q)) = Len(q)
  BY <1>3, ApartCounts
<1>5. held[n] = Bufs(q)
  BY <1>2, <1>3, BufsOfElements DEF OwnedBy
<1> HIDE DEF q
<1>6. ASSUME NEW f \in {txq[n][k] : k \in DOMAIN txq[n]} \union {sending[n].frame},
             f \in Pointing, ~ Overtaken(f)
      PROVE  f.msg = f.handle /\ \E k \in DOMAIN q : q[k].buf = f.buf /\ q[k].msg = f.handle
  <2>1. f \in Elements(lines[n])
    <3>1. CASE sending[n] = Idle
      <4>1. lines[n] = txq[n]
        BY <3>1, LineIs DEF Formed, TypeOK
      <4>2. f # sending[n].frame
        BY <1>6, <3>1, FrameShape DEF Idle, Frame
      <4> QED
        BY <1>6, <4>1, <4>2 DEF Elements
    <3>2. CASE sending[n] # Idle
      <4>1. IsTail(txq[n], lines[n]) /\ lines[n][1] = sending[n].frame
        BY <3>2, LineIs DEF Formed, TypeOK
      <4>2. Elements(lines[n]) = Elements(txq[n]) \union {sending[n].frame}
        BY <4>1, TailPlaces
      <4> QED
        BY <1>6, <4>2 DEF Elements
    <3> QED
      BY <3>1, <3>2
  <2>2. WaitsForApp(f) \/ WaitsForMac(f)
    BY <1>6 DEF WaitsForApp, WaitsForMac, Pointing
  <2>3. f.msg = f.handle /\ \E x \in Elements(q) : x.buf = f.buf /\ x.msg = f.handle
    <3>1. CASE WaitsForApp(f)
      BY <1>2, <1>3, <1>6, <2>1, <3>1 DEF BackedLine, Backed
    <3>2. CASE WaitsForMac(f)
      <4>1. PICK at \in [DOMAIN macQ[n] -> DOMAIN lines[n]] : MatchedBy(at, macQ[n], lines[n])
        BY MatchesIs DEF InStep
      <4>2. PICK j \in DOMAIN lines[n] : lines[n][j] = f
        BY <2>1 DEF Elements
      <4>3. j \in {k \in DOMAIN lines[n] : WaitsForMac(lines[n][k])}
        BY <3>2, <4>2
      <4>4. PICK k \in DOMAIN macQ[n] : at[k] = j
        BY <4>1, <4>3 DEF MatchedBy
      <4>5. f.buf = macQ[n][k].buf /\ f.handle = macQ[n][k].msg
        BY <4>1, <4>2, <4>4 DEF MatchedBy
      <4>6. macQ[n][k] \in Elements(q)
        BY <1>3, <4>4 DEF Elements
      <4>7. f.msg = f.handle
        BY <1>2, <2>1, <3>2 DEF Faithful
      <4> QED
        BY <4>5, <4>6, <4>7
    <3> QED
      BY <2>2, <3>1, <3>2
  <2> QED
    BY <2>3 DEF Elements
<1> QED
  BY <1>4, <1>5, <1>6 DEF q

LEMMA InitParts == Init => IInv
<1> SUFFICES ASSUME Init  PROVE IInv
  OBVIOUS
<1>1. /\ txq = [n \in Device |-> <<>>] /\ sending = [n \in Device |-> Idle]
      /\ rx = [n \in Device |-> [b \in Bank |-> NoFrame]]
      /\ macQ = [n \in Device |-> <<>>] /\ ackQ = [n \in Device |-> <<>>]
      /\ held = [n \in Device |-> {}] /\ timer = [n \in Device |-> FALSE]
      /\ sent = {} /\ left = {} /\ relayed = <<>> /\ used = {}
      /\ confirmed = [m \in Message |-> <<>>]
  BY DEF Init, RadioInit
<1>2. TypeOK
  <2>1. RadioTypeOK(Frame)
    BY <1>1 DEF RadioTypeOK
  <2> QED
    BY <1>1, <2>1 DEF TypeOK
<1>3. /\ \A n \in Device : lines[n] = <<>>
      /\ DOMAIN <<>> = {} /\ Elements(<<>>) = {} /\ Bufs(<<>>) = {} /\ Messages(<<>>) = {}
  BY <1>1 DEF lines, Line, Elements, Bufs, Messages
<1>4. Formed
  <2>1. FramesFormed
    BY <1>1, <1>3 DEF FramesFormed
  <2>2. EntriesFormed
    BY <1>1, <1>3, DataPathAssumption DEF EntriesFormed
  <2> QED
    BY <1>2, <2>1, <2>2 DEF Formed
<1>5. InStep
  <2>1. Matches(<<>>, <<>>)
    <3>1. <<>> \in [DOMAIN <<>> -> DOMAIN <<>>]
      BY <1>3
    <3>2. MatchedBy(<<>>, <<>>, <<>>)
      BY <1>3 DEF MatchedBy
    <3> QED
      BY <3>1, <3>2, MatchesIs
  <2> QED
    BY <1>1, <1>3, <2>1 DEF InStep
<1>6. Ownership
  <2>1. OwnedBy({}, <<>>, <<>>)
    BY <1>3 DEF OwnedBy, Apart
  <2>2. \A n \in Device : BackedLine(n) /\ Faithful(n)
    BY <1>3 DEF BackedLine, Faithful
  <2>3. OneEach(lines[Coordinator])
    BY <1>3, DataPathAssumption DEF OneEach
  <2> QED
    BY <1>1, <2>1, <2>2, <2>3 DEF Ownership
<1>7. Unconfirmed
  BY <1>1, <1>3 DEF Unconfirmed, Distinct
<1>8. Answers
  <2>1. QueuedAnswers
    BY <1>1, <1>3, DataPathAssumption DEF QueuedAnswers
  <2>2. HeardAnswers
    BY <1>1 DEF HeardAnswers, Answer, NoFrame
  <2> QED
    BY <1>1, <2>1, <2>2 DEF Answers
<1> QED
  BY <1>4, <1>5, <1>6, <1>7, <1>8 DEF IInv

----------------------------------------------------------------------------
(* In every state each frame is one that its board sends, a frame that     *)
(* was received is for its receiver, the entries are about messages that   *)
(* were taken and wait for the right confirmation, and the coordinator's   *)
(* dataTimer never runs.                                                   *)
THEOREM DataFormed == Spec => []Formed
<1>1. Init => Formed
  BY InitParts DEF IInv
<1>2. Formed /\ [Next]_vars => Formed'
  BY FormedNext
<1> QED
  BY <1>1, <1>2, PTL DEF Spec

(* While there is memory for frames macAckOnlyFrameQueue holds the entries *)
(* of exactly the frames that wait for the MAC, in their order, whatever   *)
(* is lost and however late a confirmation is.                             *)
THEOREM DataInStep == ASSUME ~ MemoryFails  PROVE Spec => []HeadsMatch
<1>1. Init => Formed /\ InStep
  BY InitParts DEF IInv
<1>2. Formed /\ InStep /\ [Next]_vars => Formed' /\ InStep'
  BY FormedNext, InStepNext
<1>3. Formed /\ InStep => HeadsMatch
  BY HeadsMatchIs
<1> QED
  BY <1>1, <1>2, <1>3, PTL DEF Spec

(* While there is memory for frames every buffer has one owner, however    *)
(* early a time-out and whatever an answer confirms: none is leaked, none  *)
(* is freed twice, and each frame is sent out of the buffer of its own     *)
(* entry, but for a relayed message that was confirmed before its frame    *)
(* was.                                                                    *)
THEOREM DataOwned == ASSUME ~ MemoryFails  PROVE Spec => []BuffersOwned
<1> DEFINE I == Formed /\ InStep /\ Ownership /\ Unconfirmed
<1>1. Init => I
  BY InitParts DEF IInv
<1>2. I /\ [Next]_vars => I'
  BY FormedNext, InStepNext, UnconfirmedNext, OwnershipNext
<1>3. I => BuffersOwned
  BY BuffersOwnedIs
<1> QED
  BY <1>1, <1>2, <1>3, PTL DEF Spec

----------------------------------------------------------------------------
(* Answers.                                                                *)

(* A step after which every answer is where it was, or one place ahead in  *)
(* its queue.                                                              *)
LEMMA AnswersKept ==
  ASSUME Answers, used' = used,
         \A p \in DOMAIN relayed : p \in DOMAIN relayed' /\ relayed'[p] = relayed[p],
         NEW d \in {0, 1}, DOMAIN txq'[Coordinator] \subseteq Nat,
         \A k \in DOMAIN txq'[Coordinator] :
           Answer(txq'[Coordinator][k]) =>
             k + d \in DOMAIN txq[Coordinator] /\ txq'[Coordinator][k] = txq[Coordinator][k + d],
         \A n \in Device, b \in Bank : Answer(rx'[n][b]) => rx'[n][b] = rx[n][b]
  PROVE  Answers'
<1> DEFINE q == txq[Coordinator]
           p == txq'[Coordinator]
<1>1. \A f : Reports(f, relayed, used) => Reports(f, relayed', used')
  BY DEF Reports
<1>2. ASSUME NEW k \in DOMAIN p, Answer(p[k])
      PROVE  /\ Reports(p[k], relayed', used')
             /\ \A j \in DOMAIN p : Answer(p[j]) /\ p[j].place = p[k].place => j = k
             /\ \A n \in Device, b \in Bank : Answer(rx'[n][b]) => rx'[n][b].place # p[k].place
  <2>1. k + d \in DOMAIN q /\ p[k] = q[k + d]
    BY <1>2
  <2>2. /\ Reports(q[k + d], relayed, used)
        /\ \A j \in DOMAIN q : Answer(q[j]) /\ q[j].place = q[k + d].place => j = k + d
        /\ \A n \in Device, b \in Bank : Answer(rx[n][b]) => rx[n][b].place # q[k + d].place
    BY <1>2, <2>1 DEF Answers, QueuedAnswers
  <2>3. ASSUME NEW j \in DOMAIN p, Answer(p[j]), p[j].place = p[k].place
        PROVE  j = k
    <3>1. j + d \in DOMAIN q /\ p[j] = q[j + d]
      BY <2>3
    <3>2. j + d = k + d
      BY <2>1, <2>2, <2>3, <3>1
    <3>3. j \in Nat /\ k \in Nat /\ d \in Nat
      OBVIOUS
    <3> HIDE DEF p
    <3> QED
      BY <3>2, <3>3
  <2>4. Reports(p[k], relayed', used')
    BY <1>1, <2>1, <2>2
  <2> QED
    BY <2>1, <2>2, <2>3, <2>4
<1>3. QueuedAnswers'
  BY <1>2 DEF QueuedAnswers
<1>4. ASSUME NEW n \in Device, NEW b \in Bank, Answer(rx'[n][b])
      PROVE  /\ Reports(rx'[n][b], relayed', used')
             /\ \A i \in Device, a \in Bank :
                  Answer(rx'[i][a]) /\ rx'[i][a].place = rx'[n][b].place => i = n /\ a = b
  <2>1. rx'[n][b] = rx[n][b]
    BY <1>4
  <2>2. /\ Reports(rx[n][b], relayed, used)
        /\ \A i \in Device, a \in Bank :
             Answer(rx[i][a]) /\ rx[i][a].place = rx[n][b].place => i = n /\ a = b
    BY <1>4, <2>1 DEF Answers, HeardAnswers
  <2>3. Reports(rx'[n][b], relayed', used')
    BY <1>1, <2>1, <2>2
  <2> QED
    BY <2>1, <2>2, <2>3
<1>5. HeardAnswers'
  BY <1>4 DEF HeardAnswers
<1>6. used' \subseteq DOMAIN relayed'
  BY DEF Answers
<1> QED
  BY <1>3, <1>5, <1>6 DEF Answers

LEMMA NoAnswer == ~ Answer(NoFrame)
BY DEF Answer, NoFrame

LEMMA QueueIndices ==
  ASSUME TypeOK, NEW n \in Device
  PROVE  DOMAIN txq[n] \subseteq Nat /\ \A k \in DOMAIN txq[n] : k + 0 = k
<1>1. txq[n] \in Seq(Frame)
  BY DEF TypeOK, RadioTypeOK
<1>2. DOMAIN txq[n] = 1 .. Len(txq[n]) /\ Len(txq[n]) \in Nat
  BY <1>1, LenProperties
<1> QED
  BY <1>2

(* The queue of the coordinator and the acknowledgements are as before.    *)
LEMMA AnswersSame ==
  ASSUME Formed, Answers, UNCHANGED <<used, relayed>>, txq'[Coordinator] = txq[Coordinator],
         \A n \in Device, b \in Bank : rx'[n][b] = rx[n][b] \/ ~ Answer(rx'[n][b])
  PROVE  Answers'
<1>1. /\ DOMAIN txq[Coordinator] \subseteq Nat
      /\ \A k \in DOMAIN txq[Coordinator] : k + 0 = k
  BY QueueIndices, DataPathAssumption DEF Formed
<1> QED
  BY <1>1, AnswersKept

(* Something that is not an answer is queued.                              *)
LEMMA AnswersQueued ==
  ASSUME Formed, Answers, NEW n \in Device, NEW m \in Message, NEW b, NEW f \in Frame,
         NEW h \in BOOLEAN, ~ Answer(f), \E l, t : QueuedBy(n, m, b, f, h, l, t),
         UNCHANGED <<used, relayed>>,
         \A k \in Device, a \in Bank : rx'[k][a] = rx[k][a] \/ rx'[k][a] = NoFrame
  PROVE  Answers'
<1>1. PICK l, t : QueuedBy(n, m, b, f, h, l, t)
  OBVIOUS
<1>2. Renewed(t, txq[n], m, b) /\ txq' = [txq EXCEPT ![n] = IF h THEN Append(t, f) ELSE t]
  BY <1>1 DEF QueuedBy
<1>3. txq \in [Device -> Seq(Frame)] /\ t \in Seq(Frame)
  BY <1>2 DEF Formed, TypeOK, RadioTypeOK, Renewed
<1>4. PICK p : p = IF h THEN Append(t, f) ELSE t
  OBVIOUS
<1>5. txq'[n] = p /\ \A k \in Device : k # n => txq'[k] = txq[k]
  BY <1>2, <1>3, <1>4
<1>6. CASE n # Coordinator
  <2>1. txq'[Coordinator] = txq[Coordinator]
    BY <1>5, <1>6, DataPathAssumption
  <2> QED
    BY <2>1, NoAnswer, AnswersSame
<1>7. CASE n = Coordinator
  <2>1. IsAppended(Append(t, f), t, f)
    BY <1>3, AppendIs
  <2>2. /\ DOMAIN t = DOMAIN txq[n]
        /\ \A k \in DOMAIN txq[n] :
             t[k] = txq[n][k] \/ (txq[n][k] \in Pointing /\ t[k] \in {txq[n][k], Again(txq[n][k], m)})
    BY <1>2 DEF Renewed
  <2>3. \A k \in DOMAIN txq[n] : Answer(t[k]) => t[k] = txq[n][k]
    <3> TAKE k \in DOMAIN txq[n]
    <3>1. ASSUME txq[n][k] \in Pointing, t[k] = Again(txq[n][k], m)
          PROVE  ~ Answer(t[k])
      BY <3>1, AgainIs, FrameShape DEF Answer
    <3> QED
      BY <2>2, <3>1
  <2>4. \A k \in DOMAIN p : Answer(p[k]) => k \in DOMAIN txq[n] /\ p[k] = txq[n][k]
    <3>1. \A k \in DOMAIN Append(t, f) :
            Answer(Append(t, f)[k]) => k \in DOMAIN t /\ Append(t, f)[k] = t[k]
      BY <2>1, AppendedPlaces
    <3>2. CASE h
      BY <1>4, <2>2, <2>3, <3>1, <3>2
    <3>3. CASE ~ h
      BY <1>4, <2>2, <2>3, <3>3
    <3> QED
      BY <3>2, <3>3
  <2>5. p \in Seq(Frame)
    BY <1>3, <1>4, AppendIs
  <2>6. DOMAIN p \subseteq Nat /\ \A k \in DOMAIN p : k + 0 = k
    <3>1. DOMAIN p = 1 .. Len(p) /\ Len(p) \in Nat
      BY <2>5, LenProperties
    <3> QED
      BY <3>1
  <2> QED
    BY <1>5, <1>7, <2>4, <2>6, NoAnswer, AnswersKept
<1> QED
  BY <1>6, <1>7

(* The frame that is sent is one answer to one device, or none.            *)
LEMMA AnswersTransmission ==
  ASSUME Formed, Answers, NEW n \in Device, Transmission(n)
  PROVE  Answers'
<1>0. PICK f : f = Head(txq[n])
  OBVIOUS
<1>1. /\ Transmitted(n, f) /\ UNCHANGED <<used, relayed>>
  BY <1>0, TransmissionIs DEF Formed, history
<1>2. /\ f \in Frame /\ IsTail(txq'[n], txq[n]) /\ txq[n][1] = f /\ sending[n] = Idle
      /\ \A k \in Device, b \in Bank :
           rx'[k][b] = rx[k][b] \/ (rx'[k][b] = f /\ Addressed(k, f))
      /\ \A k \in Device, a, b \in Bank :
           rx'[k][a] # rx[k][a] /\ rx'[k][b] # rx[k][b] => a = b
  BY <1>1 DEF Transmitted
<1>3. \A k \in Device : k # n => txq'[k] = txq[k]
  <2>1. PICK q : q = txq'[n]
    OBVIOUS
  <2>2. txq' = [txq EXCEPT ![n] = q]
    BY <1>1, <2>1 DEF Transmitted
  <2> QED
    BY <2>2 DEF Formed, TypeOK, RadioTypeOK
<1>4. /\ 1 \in DOMAIN txq[n]
      /\ \A k \in DOMAIN txq'[n] : /\ k + 1 \in DOMAIN txq[n] /\ k + 1 # 1
                                   /\ txq'[n][k] = txq[n][k + 1]
  BY <1>2, TailPlaces
<1>5. DOMAIN txq'[n] \subseteq Nat
  BY <1>2 DEF IsTail
<1>6. Own(n, f)
  <2>1. lines[n] = txq[n]
    BY <1>2, LineIs DEF Formed, TypeOK
  <2>2. f \in Elements(lines[n])
    BY <1>2, <1>4, <2>1 DEF Elements
  <2> QED
    BY <2>2 DEF Formed, FramesFormed
<1>7. CASE ~ Answer(f)
  <2>1. \A k \in Device, b \in Bank : Answer(rx'[k][b]) => rx'[k][b] = rx[k][b]
    BY <1>2, <1>7
  <2>2. CASE n # Coordinator
    <3>1. txq'[Coordinator] = txq[Coordinator]
      BY <1>3, <2>2, DataPathAssumption
    <3> QED
      BY <1>1, <2>1, <3>1, AnswersSame
  <2>3. CASE n = Coordinator
    BY <1>1, <1>4, <1>5, <2>1, <2>3, AnswersKept
  <2> QED
    BY <2>2, <2>3
<1>8. CASE Answer(f)
  <2>1. n = Coordinator /\ f.dst \in Device /\ f.dst # Broadcast
    BY <1>2, <1>6, <1>8, FrameShape, BroadcastAssumption DEF Own, Answer
  <2>2. /\ Reports(f, relayed, used)
        /\ \A j \in DOMAIN txq[n] : Answer(txq[n][j]) /\ txq[n][j].place = f.place => j = 1
        /\ \A k \in Device, b \in Bank : Answer(rx[k][b]) => rx[k][b].place # f.place
    BY <1>2, <1>4, <1>8, <2>1 DEF Answers, QueuedAnswers
  <2>3. \A k \in Device, b \in Bank :
          rx'[k][b] = rx[k][b] \/ (rx'[k][b] = f /\ rx[k][b] # f /\ k = f.dst)
    BY <1>2, <2>1 DEF Addressed
  <2>4. \A g : Reports(g, relayed', used') <=> Reports(g, relayed, used)
    BY <1>1 DEF Reports
  <2>5. ASSUME NEW k \in DOMAIN txq'[n], Answer(txq'[n][k])
        PROVE  /\ Reports(txq'[n][k], relayed', used')
               /\ \A j \in DOMAIN txq'[n] :
                    Answer(txq'[n][j]) /\ txq'[n][j].place = txq'[n][k].place => j = k
               /\ \A i \in Device, b \in Bank :
                    Answer(rx'[i][b]) => rx'[i][b].place # txq'[n][k].place
    <3> DEFINE g == txq[n][k + 1]
    <3>1. k + 1 \in DOMAIN txq[n] /\ k + 1 # 1 /\ txq'[n][k] = g
      BY <1>4
    <3>2. /\ Reports(g, relayed, used)
          /\ \A j \in DOMAIN txq[n] : Answer(txq[n][j]) /\ txq[n][j].place = g.place => j = k + 1
          /\ \A i \in Device, b \in Bank : Answer(rx[i][b]) => rx[i][b].place # g.place
      BY <2>1, <2>5, <3>1 DEF Answers, QueuedAnswers
    <3>3. f.place # g.place
      BY <2>2, <2>5, <3>1
    <3>4. ASSUME NEW j \in DOMAIN txq'[n], Answer(txq'[n][j]), txq'[n][j].place = g.place
          PROVE  j = k
      <4>1. j + 1 \in DOMAIN txq[n] /\ txq'[n][j] = txq[n][j + 1]
        BY <1>4
      <4>2. j + 1 = k + 1
        BY <3>2, <3>4, <4>1
      <4> QED
        BY <1>5, <4>2
    <3>5. \A i \in Device, b \in Bank : Answer(rx'[i][b]) => rx'[i][b].place # g.place
      BY <2>3, <3>2, <3>3
    <3>6. Reports(txq'[n][k], relayed', used')
      BY <2>4, <3>1, <3>2
    <3> QED
      BY <3>1, <3>4, <3>5, <3>6
  <2>6. QueuedAnswers'
    BY <2>1, <2>5 DEF QueuedAnswers
  <2>7. ASSUME NEW k \in Device, NEW b \in Bank, Answer(rx'[k][b])
        PROVE  /\ Reports(rx'[k][b], relayed', used')
               /\ \A i \in Device, a \in Bank :
                    Answer(rx'[i][a]) /\ rx'[i][a].place = rx'[k][b].place => i = k /\ a = b
    <3>1. CASE rx'[k][b] = rx[k][b]
      <4>1. /\ Reports(rx[k][b], relayed, used) /\ rx[k][b].place # f.place
            /\ \A i \in Device, a \in Bank :
                 Answer(rx[i][a]) /\ rx[i][a].place = rx[k][b].place => i = k /\ a = b
        BY <2>2, <2>7, <3>1 DEF Answers, HeardAnswers
      <4>2. Reports(rx'[k][b], relayed', used')
        BY <2>4, <3>1, <4>1
      <4> QED
        BY <2>3, <3>1, <4>1, <4>2
    <3>2. CASE rx'[k][b] = f /\ rx[k][b] # f /\ k = f.dst
      <4>1. Reports(rx'[k][b], relayed', used')
        BY <2>2, <2>4, <3>2
      <4>2. ASSUME NEW i \in Device, NEW a \in Bank,
                   Answer(rx'[i][a]), rx'[i][a].place = f.place
            PROVE  i = k /\ a = b
        <5>1. rx'[i][a] = f /\ rx[i][a] # f /\ i = k
          BY <2>2, <2>3, <3>2, <4>2
        <5> QED
          BY <1>2, <3>2, <5>1
      <4> QED
        BY <3>2, <4>1, <4>2
    <3> QED
      BY <2>3, <3>1, <3>2
  <2>8. HeardAnswers'
    BY <2>7 DEF HeardAnswers
  <2>9. used' \subseteq DOMAIN relayed'
    BY <1>1 DEF Answers
  <2> QED
    BY <2>6, <2>8, <2>9 DEF Answers
<1> QED
  BY <1>7, <1>8

(* The coordinator has noted an acknowledgement and queued an answer.      *)
LEMMA AnswersTold ==
  ASSUME Formed, Answers, NEW d \in Device, relayed' = Append(relayed, d), used' = used,
         rx' = rx, NEW g, g.place = Len(relayed) + 1, g.dst = d,
         IsAppended(txq'[Coordinator], txq[Coordinator], g)
  PROVE  Answers'
<1> DEFINE q == txq[Coordinator]
           p == txq'[Coordinator]
           i == Len(relayed) + 1
<1>1. IsAppended(relayed', relayed, d) /\ relayed \in Seq(Device)
  BY AppendIs DEF Formed, TypeOK
<1>2. /\ \A k \in DOMAIN relayed : k \in DOMAIN relayed' /\ relayed'[k] = relayed[k]
      /\ i \in DOMAIN relayed' /\ relayed'[i] = d
  BY <1>1, AppendedPlaces
<1>3. i \notin DOMAIN relayed
  <2>1. DOMAIN relayed = 1 .. Len(relayed) /\ Len(relayed) \in Nat
    BY <1>1, LenProperties
  <2> QED
    BY <2>1
<1>4. /\ \A k \in DOMAIN q : k \in DOMAIN p /\ p[k] = q[k]
      /\ \A k \in DOMAIN p : k \in DOMAIN q \/ k = Len(q) + 1
      /\ p[Len(q) + 1] = g
  BY AppendedPlaces
<1> HIDE DEF p, q, i
<1>5. \A f : Reports(f, relayed, used) => Reports(f, relayed', used') /\ f.place # i
  BY <1>2, <1>3 DEF Reports
<1>6. Reports(g, relayed', used') /\ g.place = i
  BY <1>2, <1>3 DEF Reports, Answers, i
<1>7. /\ used \subseteq DOMAIN relayed
      /\ \A k \in DOMAIN q : Answer(q[k]) =>
           /\ Reports(q[k], relayed, used)
           /\ \A j \in DOMAIN q : Answer(q[j]) /\ q[j].place = q[k].place => j = k
           /\ \A n \in Device, b \in Bank : Answer(rx[n][b]) => rx[n][b].place # q[k].place
  BY DEF Answers, QueuedAnswers, q
<1>8. \A n \in Device, b \in Bank : Answer(rx[n][b]) =>
        /\ Reports(rx[n][b], relayed, used)
        /\ \A j \in Device, a \in Bank :
             Answer(rx[j][a]) /\ rx[j][a].place = rx[n][b].place => j = n /\ a = b
  BY DEF Answers, HeardAnswers
<1>9. ASSUME NEW k \in DOMAIN p, Answer(p[k])
      PROVE  /\ Reports(p[k], relayed', used')
             /\ \A j \in DOMAIN p : Answer(p[j]) /\ p[j].place = p[k].place => j = k
             /\ \A n \in Device, b \in Bank : Answer(rx'[n][b]) => rx'[n][b].place # p[k].place
  <2>1. CASE k \in DOMAIN q
    <3>1. p[k] = q[k] /\ Reports(q[k], relayed, used) /\ q[k].place # i
      BY <1>4, <1>5, <1>7, <1>9, <2>1
    <3>2. \A j \in DOMAIN p : Answer(p[j]) /\ p[j].place = p[k].place => j = k
      BY <1>4, <1>6, <1>7, <1>9, <2>1, <3>1
    <3> QED
      BY <1>5, <1>7, <1>9, <2>1, <3>1, <3>2
  <2>2. CASE k = Len(q) + 1
    <3>1. p[k] = g /\ p[k].place = i
      BY <1>4, <1>6, <2>2
    <3>2. \A j \in DOMAIN p : Answer(p[j]) /\ p[j].place = p[k].place => j = k
      BY <1>4, <1>5, <1>7, <2>2, <3>1
    <3>3. \A n \in Device, b \in Bank : Answer(rx[n][b]) => rx[n][b].place # i
      BY <1>5, <1>8
    <3> QED
      BY <1>6, <3>1, <3>2, <3>3
  <2> QED
    BY <1>4, <2>1, <2>2
<1>10. QueuedAnswers'
  BY <1>9 DEF QueuedAnswers, p
<1>11. ASSUME NEW n \in Device, NEW b \in Bank, Answer(rx'[n][b])
       PROVE  /\ Reports(rx'[n][b], relayed', used')
              /\ \A j \in Device, a \in Bank :
                   Answer(rx'[j][a]) /\ rx'[j][a].place = rx'[n][b].place => j = n /\ a = b
  BY <1>5, <1>8, <1>11
<1>12. HeardAnswers'
  BY <1>11 DEF HeardAnswers
<1>13. used' \subseteq DOMAIN relayed'
  BY <1>2, <1>7
<1> QED
  BY <1>10, <1>12, <1>13 DEF Answers

LEMMA AnswersLastHop ==
  ASSUME Formed, Answers, NEW h \in BOOLEAN, LastHop(h)
  PROVE  Answers'
<1> DEFINE n == Coordinator
           f == sending[Coordinator].frame
           g == Success(f.msg.src, Len(relayed'))
<1>1. /\ Reported(n) /\ WaitsForApp(f)
      /\ relayed' = Arrivals(f, sending[n].status) /\ UNCHANGED <<rx, used>>
  BY LastHopIs DEF Formed
<1>2. PICK d \in Device : d = f.msg.src
  BY <1>1, LastIsRelayed
<1>3. IF Tells /\ h THEN IsAppended(txq'[n], txq[n], g) ELSE txq'[n] = txq[n]
  BY ToldIs DEF Formed
<1>4. /\ relayed \in Seq(Device)
      /\ Len(Append(relayed, d)) = Len(relayed) + 1
      /\ \A k \in DOMAIN relayed :
           k \in DOMAIN Append(relayed, d) /\ Append(relayed, d)[k] = relayed[k]
  <2>1. IsAppended(Append(relayed, d), relayed, d) /\ relayed \in Seq(Device)
    BY AppendIs DEF Formed, TypeOK
  <2> QED
    BY <2>1, AppendedPlaces DEF IsAppended
<1>5. relayed' \in {relayed, Append(relayed, d)}
  BY <1>1, <1>2 DEF Arrivals
<1>6. Tells => relayed' = Append(relayed, d)
  BY <1>1, <1>2 DEF Arrivals, Tells
<1> HIDE DEF f
<1>7. CASE Tells /\ h
  <2>1. relayed' = Append(relayed, d) /\ IsAppended(txq'[n], txq[n], g)
    BY <1>3, <1>6, <1>7
  <2>2. g.place = Len(relayed) + 1 /\ g.dst = d
    BY <1>2, <1>4, <2>1 DEF Success
  <2> HIDE DEF g
  <2> QED
    BY <1>1, <2>1, <2>2, AnswersTold
<1>8. CASE ~ (Tells /\ h)
  <2>1. txq'[n] = txq[n]
    BY <1>3, <1>8
  <2>2. \A k \in DOMAIN relayed : k \in DOMAIN relayed' /\ relayed'[k] = relayed[k]
    BY <1>4, <1>5
  <2>3. DOMAIN txq[n] \subseteq Nat /\ \A k \in DOMAIN txq[n] : k + 0 = k
    BY QueueIndices, DataPathAssumption DEF Formed
  <2> QED
    BY <1>1, <2>1, <2>2, <2>3, AnswersKept
<1> QED
  BY <1>7, <1>8

(* An answer was used.                                                     *)
LEMMA AnswersUsed ==
  ASSUME Formed, Answers, NEW n \in Device, NEW b \in Bank, Answer(rx[n][b]),
         rx'[n][b] = NoFrame, used' = used \union {rx[n][b].place},
         UNCHANGED <<txq, relayed>>,
         \A k \in Device, a \in Bank : rx'[k][a] = rx[k][a] \/ rx'[k][a] = NoFrame
  PROVE  Answers'
<1> DEFINE f == rx[n][b]
<1>1. /\ Reports(f, relayed, used) /\ used \subseteq DOMAIN relayed
      /\ \A i \in Device, a \in Bank : Answer(rx[i][a]) /\ rx[i][a].place = f.place => i = n /\ a = b
  BY DEF Answers, HeardAnswers
<1>2. \A g : Reports(g, relayed, used) /\ g.place # f.place => Reports(g, relayed', used')
  BY DEF Reports
<1>3. ASSUME NEW k \in DOMAIN txq[Coordinator], Answer(txq[Coordinator][k])
      PROVE  /\ Reports(txq[Coordinator][k], relayed', used')
             /\ \A j \in DOMAIN txq[Coordinator] :
                  Answer(txq[Coordinator][j]) /\ txq[Coordinator][j].place = txq[Coordinator][k].place
                    => j = k
             /\ \A i \in Device, a \in Bank :
                  Answer(rx'[i][a]) => rx'[i][a].place # txq[Coordinator][k].place
  <2> DEFINE g == txq[Coordinator][k]
  <2>1. /\ Reports(g, relayed, used)
        /\ \A j \in DOMAIN txq[Coordinator] :
             Answer(txq[Coordinator][j]) /\ txq[Coordinator][j].place = g.place => j = k
        /\ \A i \in Device, a \in Bank : Answer(rx[i][a]) => rx[i][a].place # g.place
    BY <1>3 DEF Answers, QueuedAnswers
  <2>2. Reports(g, relayed', used')
    BY <1>2, <2>1
  <2>3. \A i \in Device, a \in Bank : Answer(rx'[i][a]) => rx'[i][a].place # g.place
    BY <2>1, NoAnswer
  <2> QED
    BY <2>1, <2>2, <2>3
<1>4. QueuedAnswers'
  BY <1>3 DEF QueuedAnswers
<1>5. ASSUME NEW k \in Device, NEW c \in Bank, Answer(rx'[k][c])
      PROVE  /\ Reports(rx'[k][c], relayed', used')
             /\ \A i \in Device, a \in Bank :
                  Answer(rx'[i][a]) /\ rx'[i][a].place = rx'[k][c].place => i = k /\ a = c
  <2>1. rx'[k][c] = rx[k][c] /\ ~ (k = n /\ c = b)
    BY <1>5, NoAnswer
  <2>2. /\ Reports(rx[k][c], relayed, used) /\ rx[k][c].place # f.place
        /\ \A i \in Device, a \in Bank :
             Answer(rx[i][a]) /\ rx[i][a].place = rx[k][c].place => i = k /\ a = c
    BY <1>1, <1>5, <2>1 DEF Answers, HeardAnswers
  <2>3. Reports(rx'[k][c], relayed', used')
    BY <1>2, <2>1, <2>2
  <2>4. \A i \in Device, a \in Bank : Answer(rx'[i][a]) => rx'[i][a] = rx[i][a]
    BY NoAnswer
  <2> QED
    BY <2>1, <2>2, <2>3, <2>4
<1>6. HeardAnswers'
  BY <1>5 DEF HeardAnswers
<1>7. used' \subseteq DOMAIN relayed'
  BY <1>1 DEF Reports
<1> QED
  BY <1>4, <1>6, <1>7 DEF Answers

LEMMA AnswersReceiveSuccess ==
  ASSUME Formed, Answers, NEW n \in Device, ReceiveSuccess(n)
  PROVE  Answers'
<1>1. /\ Fetched(n, "DATA_TO_ENDDEV_SUCCESS")
      /\ ackQ[n] = <<>> => used' = used
      /\ ackQ[n] # <<>> => used' = used \union {Received(n).place}
      /\ UNCHANGED <<txq, relayed>>
  BY ReceiveSuccessIs DEF Formed
<1>2. /\ \A k \in Device, b \in Bank : rx'[k][b] = rx[k][b] \/ rx'[k][b] = NoFrame
      /\ Received(n).type = "DATA_TO_ENDDEV_SUCCESS"
  BY <1>1 DEF Fetched
<1>3. PICK b \in Bank : Received(n) = rx[n][b] /\ rx'[n][b] = NoFrame
  BY <1>1 DEF Fetched
<1>4. CASE used' = used
  BY <1>1, <1>2, <1>4, NoAnswer, AnswersSame
<1>5. CASE used' = used \union {Received(n).place}
  <2>1. Answer(rx[n][b]) /\ used' = used \union {rx[n][b].place}
    BY <1>2, <1>3, <1>5 DEF Answer
  <2> QED
    BY <1>1, <1>2, <1>3, <2>1, AnswersUsed
<1> QED
  BY <1>1, <1>4, <1>5

LEMMA AnswersSendData ==
  ASSUME Formed, Answers, NEW m \in Message, NEW h \in BOOLEAN, SendData(m, h)
  PROVE  Answers'
<1>0. PICK n, b, f : n = m.src /\ b = FreeBuffer(m.src) /\ f = Outgoing(m)
  OBVIOUS
<1>1. /\ n \in Device /\ \E l, t : QueuedBy(n, m, b, f, h, l, t)
      /\ UNCHANGED <<rx, relayed, used>>
  BY <1>0, SendDataIs DEF Formed, history
<1>2. f \in Frame /\ ~ Answer(f)
  <2>1. b \in Buffer
    BY <1>0, SendDataIs DEF Formed
  <2> QED
    BY <1>0, <2>1, OutgoingIs DEF Answer
<1> QED
  BY <1>1, <1>2, AnswersQueued

LEMMA AnswersReceiveForward ==
  ASSUME Formed, Answers, NEW h \in BOOLEAN, ReceiveForward(h)
  PROVE  Answers'
<1> DEFINE n == Coordinator
           takes == Received(Coordinator).msg.dst \in Member /\ held[Coordinator] # Buffer
<1>0. PICK m, b, f : /\ m = Received(Coordinator).msg /\ b = FreeBuffer(Coordinator)
                     /\ f = Data(n, m, b)
  OBVIOUS
<1>1. /\ Fetched(n, "FORWARD_PACKET") /\ m \in Message
      /\ takes => b \in Buffer /\ \E l, t : QueuedBy(n, m, b, f, h, l, t)
      /\ ~ takes => UNCHANGED txq
      /\ UNCHANGED <<relayed, used>>
  BY <1>0, ReceiveForwardIs DEF Formed, history
<1>2. n \in Device
  BY DataPathAssumption
<1>3. \A k \in Device, a \in Bank : rx'[k][a] = rx[k][a] \/ rx'[k][a] = NoFrame
  BY <1>1 DEF Fetched
<1> HIDE DEF takes
<1>4. CASE takes
  <2>1. f \in Frame /\ ~ Answer(f)
    BY <1>0, <1>1, <1>2, <1>4, FramesBuilt DEF Answer
  <2> QED
    BY <1>1, <1>2, <1>3, <1>4, <2>1, AnswersQueued
<1>5. CASE ~ takes
  BY <1>1, <1>3, <1>5, NoAnswer, AnswersSame
<1> QED
  BY <1>4, <1>5

LEMMA AnswersNext == Formed /\ Answers /\ [Next]_vars => Answers'
<1> SUFFICES ASSUME Formed, Answers, [Next]_vars  PROVE Answers'
  OBVIOUS
<1>1. CASE \E m \in Message, h \in HasMemory : SendData(m, h)
  BY <1>1, MemoryIs, AnswersSendData
<1>2. CASE \E n \in Device : Transmission(n)
  BY <1>2, AnswersTransmission
<1>3. CASE \E n \in Device : Report(n)
  <2>1. PICK n \in Device : Report(n)
    BY <1>3
  <2>2. CASE MacAckOnly(n)
    BY <2>2, MacAckOnlyIs, AnswersSame DEF Formed
  <2>3. CASE FirstHop(n)
    BY <2>3, FirstHopIs, AnswersSame DEF Formed, history
  <2>4. CASE CommandSent(n)
    BY <2>4, CommandSentIs, AnswersSame DEF Formed, history
  <2>5. CASE \E h \in HasMemory : LastHop(h)
    BY <2>5, MemoryIs, AnswersLastHop
  <2> QED
    BY <2>1, <2>2, <2>3, <2>4, <2>5 DEF Report
<1>4. CASE \E n \in Device : Parse(n)
  <2>1. PICK n \in Device : Parse(n)
    BY <1>4
  <2>2. CASE ReceiveSuccess(n)
    BY <2>2, AnswersReceiveSuccess
  <2>3. CASE ReceiveData(n)
    <3>1. Fetched(n, "DATA") /\ UNCHANGED <<txq, relayed, used>>
      BY <2>3, ReceiveDataIs DEF Formed, history
    <3>2. \A k \in Device, b \in Bank : rx'[k][b] = rx[k][b] \/ ~ Answer(rx'[k][b])
      BY <3>1, NoAnswer DEF Fetched
    <3> QED
      BY <3>1, <3>2, AnswersSame
  <2>4. CASE \E h \in HasMemory : ReceiveForward(h)
    BY <2>4, MemoryIs, AnswersReceiveForward
  <2> QED
    BY <2>1, <2>2, <2>3, <2>4 DEF Parse
<1>5. CASE \E n \in Device : DataTimer(n)
  BY <1>5, DataTimerIs, AnswersSame DEF Formed, radio, history
<1>6. CASE UNCHANGED vars
  BY <1>6, AnswersSame DEF vars, radio, history
<1> QED
  BY <1>1, <1>2, <1>3, <1>4, <1>5, <1>6 DEF Next, P2PTasks

----------------------------------------------------------------------------
(* What MiApp_SendData promises.                                           *)
ServiceStep == [Service!Next]_(Service!svars)

LEMMA ServiceSame ==
  ASSUME UNCHANGED <<sent, confirmed, history>>
  PROVE  ServiceStep
BY DEF ServiceStep, Service!svars, history

LEMMA ConfirmsOne ==
  ASSUME TypeOK, NEW m \in Message, confirmed[m] = <<>>, NEW s \in Statuses, Confirm({m}, s)
  PROVE  confirmed' = [confirmed EXCEPT ![m] = <<s>>]
<1>1. /\ confirmed' = [l \in Message |-> IF l \in {m} THEN Append(confirmed[l], s)
                                         ELSE confirmed[l]]
      /\ confirmed \in [Message -> Seq(Statuses)]
  BY DEF Confirm, TypeOK
<1>2. Append(<<>>, s) = <<s>>
  OBVIOUS
<1> QED
  BY <1>1, <1>2

LEMMA ConfirmsNone ==
  ASSUME TypeOK, NEW s, Confirm({}, s)
  PROVE  confirmed' = confirmed
BY DEF Confirm, TypeOK

LEMMA ServiceSendData ==
  ASSUME Formed, NEW m \in Message, NEW h \in BOOLEAN, SendData(m, h)
  PROVE  ServiceStep
<1>1. /\ m \notin sent /\ sent' = sent \union {m}
      /\ UNCHANGED <<confirmed, left, relayed, used>>
  BY SendDataIs DEF Formed, history
<1>2. Service!Take(m)
  BY <1>1 DEF Service!Take
<1> QED
  BY <1>2 DEF ServiceStep, Service!Next

LEMMA ServiceMacAckOnly ==
  ASSUME Formed, InStep, Ownership, Unconfirmed, NEW n \in Device, MacAckOnly(n)
  PROVE  ServiceStep
<1>0. PICK f, m, s : f = sending[n].frame /\ m = macQ[n][1].msg /\ s = sending[n].status
  OBVIOUS
<1>1. macQ[n] # <<>> /\ m = f.handle
  BY <1>0, InStepMacAckOnly
<1>2. /\ Reported(n) /\ WaitsForMac(f) /\ Left(n)
      /\ IsTail(macQ'[n], macQ[n])
      /\ Confirm({m}, s)
      /\ UNCHANGED <<sent, relayed, used>>
  BY <1>0, <1>1, MacAckOnlyIs DEF Formed
<1>3. f \in Elements(lines[n]) /\ s \in Statuses
  BY <1>0, <1>2, TailPlaces DEF Reported
<1>4. f.msg = m
  BY <1>1, <1>2, <1>3 DEF Ownership, Faithful
<1>5. m \in Messages(macQ[n])
  BY <1>0, <1>2, OwnersOfTail
<1>6. m \in Message /\ m \in sent /\ ~ Awaited(m) /\ confirmed[m] = <<>>
  BY <1>5, OwnEntries DEF Unconfirmed
<1>7. left' = IF s = "SUCCESS" THEN left \union {m} ELSE left
  BY <1>0, <1>2, <1>4 DEF Left
<1>8. confirmed' = [confirmed EXCEPT ![m] = <<s>>]
  BY <1>2, <1>3, <1>6, ConfirmsOne DEF Formed
<1>9. Service!Sent(m, s)
  BY <1>2, <1>6, <1>7, <1>8 DEF Service!Sent, Service!Confirm
<1> QED
  BY <1>3, <1>6, <1>9 DEF ServiceStep, Service!Next

(* A device gives up the messages that are in its queue no more.           *)
LEMMA ServiceGivenUp ==
  ASSUME Formed, Unconfirmed, NEW n \in Device, n # Coordinator,
         NEW s \in Statuses, s # "SUCCESS",
         Confirm(Messages(ackQ[n]) \ Messages(ackQ'[n]), s), UNCHANGED <<sent, history>>
  PROVE  ServiceStep
<1>1. PICK M : M = Messages(ackQ[n]) \ Messages(ackQ'[n])
  OBVIOUS
<1>2. \A m \in M : m \in Message /\ Awaited(m) /\ m \in sent /\ confirmed[m] = <<>>
  BY <1>1, OwnEntries DEF Unconfirmed
<1>3. confirmed' = [m \in Message |-> IF m \in M THEN <<s>> ELSE confirmed[m]]
  <2>1. Confirm(M, s)
    BY <1>1
  <2>2. confirmed' = [m \in Message |-> IF m \in M THEN Append(confirmed[m], s)
                                        ELSE confirmed[m]]
    BY <2>1 DEF Confirm
  <2>3. \A m \in M : Append(confirmed[m], s) = <<s>>
    <3>1. Append(<<>>, s) = <<s>>
      OBVIOUS
    <3> QED
      BY ONLY <1>2, <3>1
  <2> QED
    BY <2>2, <2>3
<1>4. Service!GivenUp(M, s)
  BY <1>2, <1>3 DEF Service!GivenUp, history
<1>5. M \in SUBSET {m \in Message : Awaited(m)}
  BY <1>2
<1> QED
  BY <1>4, <1>5 DEF ServiceStep, Service!Next

LEMMA ServiceFirstHop ==
  ASSUME Formed, Unconfirmed, NEW n \in Device, FirstHop(n)
  PROVE  ServiceStep
<1>1. /\ Reported(n) /\ n # Coordinator /\ SweptOnce(n, FirstDone(n), Unchanged)
      /\ Confirm(Messages(ackQ[n]) \ Messages(ackQ'[n]), sending[n].status)
      /\ UNCHANGED <<sent, history>>
  BY FirstHopIs DEF Formed
<1>2. PICK s \in Statuses : s = sending[n].status
  BY <1>1 DEF Reported
<1>3. CASE s = "SUCCESS"
  <2>1. \A x \in Elements(ackQ[n]) : x \in Elements(ackQ'[n])
    BY <1>1, <1>2, <1>3 DEF SweptOnce, Derived, FirstDone
  <2>2. Messages(ackQ[n]) \ Messages(ackQ'[n]) = {}
    BY <2>1, BufsOfElements
  <2>3. Confirm({}, s)
    BY <1>1, <1>2, <2>2
  <2>4. confirmed' = confirmed
    BY <2>3, ConfirmsNone DEF Formed
  <2> QED
    BY <1>1, <2>4, ServiceSame
<1>4. CASE s # "SUCCESS"
  BY <1>1, <1>2, <1>4, ServiceGivenUp
<1> QED
  BY <1>3, <1>4

LEMMA ServiceDataTimer ==
  ASSUME Formed, Unconfirmed, NEW n \in Device, DataTimer(n)
  PROVE  ServiceStep
<1>1. /\ Confirm(Messages(ackQ[n]) \ Messages(ackQ'[n]), "NO_ACK")
      /\ UNCHANGED <<sent, history>>
  BY DataTimerIs DEF Formed
<1>2. "NO_ACK" \in Statuses /\ n # Coordinator
  BY TimerIsDevices DEF Statuses
<1> QED
  BY <1>1, <1>2, ServiceGivenUp

LEMMA ServiceLastHop ==
  ASSUME Formed, NEW h \in BOOLEAN, LastHop(h)
  PROVE  ServiceStep
<1>0. PICK f, s : f = sending[Coordinator].frame /\ s = sending[Coordinator].status
  OBVIOUS
<1>1. /\ Reported(Coordinator) /\ WaitsForApp(f) /\ relayed' = Arrivals(f, s)
      /\ UNCHANGED <<sent, confirmed, left, used>>
  BY <1>0, LastHopIs DEF Formed
<1>2. f.msg \in sent /\ f.msg \in Message
  BY <1>0, <1>1, LastIsRelayed
<1>3. CASE s = "SUCCESS"
  <2>1. Service!Deliver(f.msg)
    BY <1>1, <1>2, <1>3 DEF Service!Deliver, Arrivals
  <2> QED
    BY <1>2, <2>1 DEF ServiceStep, Service!Next
<1>4. CASE s # "SUCCESS"
  BY <1>1, <1>4, ServiceSame DEF Arrivals, history
<1> QED
  BY <1>3, <1>4

(* The answer reports an acknowledgement that nobody used, for a message   *)
(* of the board that gets it.                                              *)
LEMMA ServiceReceiveSuccess ==
  ASSUME Formed, Unconfirmed, Answers, NEW n \in Device, ReceiveSuccess(n)
  PROVE  ServiceStep
<1>0. PICK m, p : m = ackQ[n][1].msg /\ p = Received(n).place
  OBVIOUS
<1>1. /\ Fetched(n, "DATA_TO_ENDDEV_SUCCESS")
      /\ ackQ[n] = <<>> => UNCHANGED <<confirmed, used>>
      /\ ackQ[n] # <<>> => /\ IsTail(ackQ'[n], ackQ[n])
                           /\ Confirm({m}, "SUCCESS")
                           /\ used' = used \union {p}
      /\ UNCHANGED <<sent, left, relayed>>
  BY <1>0, ReceiveSuccessIs DEF Formed
<1>2. n # Coordinator /\ Received(n).dst = n
  BY AnswerHeard
<1>3. CASE ackQ[n] = <<>>
  BY <1>1, <1>3, ServiceSame DEF history
<1>4. CASE ackQ[n] # <<>>
  <2>1. PICK b \in Bank : Received(n) = rx[n][b]
    BY <1>1 DEF Fetched
  <2>2. Answer(rx[n][b])
    BY <1>1, <2>1 DEF Fetched, Answer
  <2>3. p \in DOMAIN relayed /\ p \notin used /\ relayed[p] = n
    BY <1>0, <1>2, <2>1, <2>2 DEF Answers, HeardAnswers, Reports
  <2>4. m \in Messages(ackQ[n])
    BY <1>0, <1>1, <1>4, OwnersOfTail
  <2>5. m \in Message /\ m \in sent /\ m.src = n /\ Awaited(m) /\ confirmed[m] = <<>>
    BY <1>2, <2>4, OwnEntries DEF Unconfirmed
  <2>6. "SUCCESS" \in Statuses
    BY DEF Statuses
  <2>7. confirmed' = [confirmed EXCEPT ![m] = <<"SUCCESS">>]
    BY <1>1, <1>4, <2>5, <2>6, ConfirmsOne DEF Formed
  <2>8. Service!Answered(m, p)
    BY <1>1, <1>4, <2>3, <2>5, <2>7 DEF Service!Answered, Service!Confirm
  <2> QED
    BY <2>3, <2>5, <2>8 DEF ServiceStep, Service!Next
<1> QED
  BY <1>3, <1>4

LEMMA ServiceNext ==
  ASSUME IInv, [Next]_vars
  PROVE  ServiceStep
<1>0. Formed /\ InStep /\ Ownership /\ Unconfirmed /\ Answers
  BY DEF IInv
<1>1. CASE \E m \in Message, h \in HasMemory : SendData(m, h)
  BY <1>0, <1>1, MemoryIs, ServiceSendData
<1>2. CASE \E n \in Device : Transmission(n)
  BY <1>0, <1>2, TransmissionIs, ServiceSame DEF Formed
<1>3. CASE \E n \in Device : Report(n)
  <2>1. PICK n \in Device : Report(n)
    BY <1>3
  <2>2. CASE MacAckOnly(n)
    BY <1>0, <2>2, ServiceMacAckOnly
  <2>3. CASE FirstHop(n)
    BY <1>0, <2>3, ServiceFirstHop
  <2>4. CASE CommandSent(n)
    BY <1>0, <2>4, CommandSentIs, ServiceSame DEF Formed
  <2>5. CASE \E h \in HasMemory : LastHop(h)
    BY <1>0, <2>5, MemoryIs, ServiceLastHop
  <2> QED
    BY <2>1, <2>2, <2>3, <2>4, <2>5 DEF Report
<1>4. CASE \E n \in Device : Parse(n)
  <2>1. PICK n \in Device : Parse(n)
    BY <1>4
  <2>2. CASE ReceiveSuccess(n)
    BY <1>0, <2>2, ServiceReceiveSuccess
  <2>3. CASE ReceiveData(n)
    BY <1>0, <2>3, ReceiveDataIs, ServiceSame DEF Formed
  <2>4. CASE \E h \in HasMemory : ReceiveForward(h)
    BY <1>0, <2>4, MemoryIs, ReceiveForwardIs, ServiceSame DEF Formed
  <2> QED
    BY <2>1, <2>2, <2>3, <2>4 DEF Parse
<1>5. CASE \E n \in Device : DataTimer(n)
  BY <1>0, <1>5, ServiceDataTimer
<1>6. CASE UNCHANGED vars
  BY <1>6, ServiceSame DEF vars
<1> QED
  BY <1>1, <1>2, <1>3, <1>4, <1>5, <1>6 DEF Next, P2PTasks

(* While there is memory for frames a message is confirmed at most once.   *)
(* If one hop ends it, it is told how it was itself sent; SUCCESS for one  *)
(* that waits for an answer rests on an addressee's acknowledgement of a   *)
(* message of its sender that confirmed no other message, however early    *)
(* the time-outs and whatever is lost.                                     *)
THEOREM DataIsService == ASSUME ~ MemoryFails  PROVE Spec => ServiceSpec
<1>1. Init => IInv /\ Service!Init
  <2>1. Init => Service!Init
    BY DEF Init, Service!Init
  <2> QED
    BY <2>1, InitParts
<1>2. IInv /\ [Next]_vars => IInv' /\ [Service!Next]_(Service!svars)
  <2> SUFFICES ASSUME IInv, [Next]_vars
               PROVE  IInv' /\ [Service!Next]_(Service!svars)
    OBVIOUS
  <2>1. Formed' /\ InStep' /\ Ownership' /\ Unconfirmed' /\ Answers'
    BY FormedNext, InStepNext, OwnershipNext, UnconfirmedNext, AnswersNext DEF IInv
  <2>2. ServiceStep
    BY ServiceNext
  <2> QED
    BY <2>1, <2>2 DEF IInv, ServiceStep
<1> QED
  BY <1>1, <1>2, PTL DEF Spec, ServiceSpec, Service!Spec

=============================================================================
