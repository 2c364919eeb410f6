-------------------------- MODULE SysTimer_proofs ---------------------------
(***************************************************************************)
(* Proofs about the software timers.  The times to the timers of a list    *)
(* are the sums of its differences.  Lemmas about any list say what        *)
(* inserting, removing and expiring do to these sums: nothing, but for the *)
(* timer meant, and the time that passed.  From them the list agrees with  *)
(* the ticks, and the timers implement one deadline for each.              *)
(***************************************************************************)
EXTENDS SysTimer, SequenceTheorems, WellFoundedInduction, TLAPS

Elements(ts) == {ts[k] : k \in 1 .. Len(ts)}

(* A list of timers, none twice, with differences.                         *)
List(ts, to) ==
  /\ ts \in Seq(Timer)
  /\ \A m, n \in 1 .. Len(ts) : ts[m] = ts[n] => m = n
  /\ to \in [Timer -> Nat]

(* What is left for a timer of a list.                                     *)
Left(ts, to, t) ==
  IF t \in Elements(ts) THEN Until(ts, to)[CHOOSE n \in 1 .. Len(ts) : ts[n] = t] ELSE 0

(* f sums up the differences of a list.                                    *)
Sums(f, ts, to) ==
  /\ f \in [0 .. Len(ts) -> Int]
  /\ f[0] = 0
  /\ \A n \in 1 .. Len(ts) : f[n] = f[n - 1] + to[ts[n]]

----------------------------------------------------------------------------
(* Induction over the numbers, for a set instead of a predicate.           *)
Less == {ss \in Nat \X Nat : ss[1] < ss[2]}

LEMMA Smallest ==
  ASSUME NEW T, T \subseteq Nat, T # {}
  PROVE  \E x \in T : \A y \in T : x <= y
<1>1. IsWellFoundedOn(Less, Nat)
  BY NatLessThanWellFounded DEF OpToRel, Less
<1>2. PICK x \in T : \A y \in T : ~ (<<y, x>> \in Less)
  BY <1>1, WFMin
<1>3. \A y \in T : x <= y
  <2> SUFFICES ASSUME NEW y \in T, ~ (x <= y) PROVE FALSE
    OBVIOUS
  <2>1. x \in Nat /\ y \in Nat
    OBVIOUS
  <2>2. <<y, x>> \in Less
    <3>1. y < x
      BY <2>1
    <3> QED
      BY <2>1, <3>1 DEF Less
  <2> QED
    BY <1>2, <2>2
<1> QED
  BY <1>3

LEMMA SetInduction ==
  ASSUME NEW S, 0 \in S, \A n \in Nat : n \in S => n + 1 \in S
  PROVE  Nat \subseteq S
<1> DEFINE T == Nat \ S
<1> SUFFICES ASSUME T # {} PROVE FALSE
  OBVIOUS
<1>1. PICK x \in T : \A y \in T : x <= y
  BY Smallest
<1>2. x \in Nat /\ x # 0 /\ x - 1 \in Nat /\ x - 1 \in S
  BY <1>1
<1>3. (x - 1) + 1 \in S
  BY <1>2
<1> QED
  BY <1>2, <1>3

LEMMA Largest ==
  ASSUME NEW L \in Nat, NEW T, T \subseteq 0 .. L, T # {}
  PROVE  \E x \in T : \A y \in T : y <= x
<1> DEFINE D == {L - y : y \in T}
<1>1. D \subseteq Nat /\ D # {}
  <2>1. \A y \in T : y \in Nat /\ L - y \in Nat
    OBVIOUS
  <2>2. PICK y \in T : TRUE
    OBVIOUS
  <2>3. L - y \in D
    OBVIOUS
  <2> QED
    BY <2>1, <2>3
<1>2. PICK d \in D : \A e \in D : d <= e
  BY <1>1, Smallest
<1>3. PICK x \in T : d = L - x
  OBVIOUS
<1>4. \A y \in T : y <= x
  <2> TAKE y \in T
  <2>1. d <= L - y
    BY <1>2
  <2> QED
    BY <1>3, <2>1
<1> QED
  BY <1>4

----------------------------------------------------------------------------
(* The sums.                                                               *)

LEMMA SumsExist ==
  ASSUME NEW ts \in Seq(Timer), NEW to \in [Timer -> Int]
  PROVE  \E f : Sums(f, ts, to)
<1> DEFINE Upto(n, f) == /\ f \in [0 .. n -> Int] /\ f[0] = 0
                         /\ \A k \in 1 .. n : k <= Len(ts) => f[k] = f[k - 1] + to[ts[k]]
           S == {n \in Nat : \E f : Upto(n, f)}
<1>1. 0 \in S
  <2>1. Upto(0, [k \in 0 .. 0 |-> 0])
    OBVIOUS
  <2> QED
    BY <2>1
<1>2. \A n \in Nat : n \in S => n + 1 \in S
  <2> TAKE n \in Nat
  <2> HAVE n \in S
  <2> PICK f : Upto(n, f)
    OBVIOUS
  <2> DEFINE next == IF n + 1 <= Len(ts) THEN f[n] + to[ts[n + 1]] ELSE 0
             g == [k \in 0 .. n + 1 |-> IF k = n + 1 THEN next ELSE f[k]]
  <2>1. next \in Int
    <3>1. CASE n + 1 <= Len(ts)
      <4>1. n + 1 \in 1 .. Len(ts) /\ ts[n + 1] \in Timer
        BY <3>1
      <4>2. to[ts[n + 1]] \in Int /\ f[n] \in Int
        BY <4>1
      <4> QED
        BY <4>2
    <3> QED
      BY <3>1
  <2>2. g \in [0 .. n + 1 -> Int] /\ g[0] = 0
    <3>1. \A k \in 0 .. n + 1 : (IF k = n + 1 THEN next ELSE f[k]) \in Int
      BY <2>1
    <3> QED
      BY <3>1
  <2>3. \A k \in 1 .. n + 1 : k <= Len(ts) => g[k] = g[k - 1] + to[ts[k]]
    <3> SUFFICES ASSUME NEW k \in 1 .. n + 1, k <= Len(ts)
                 PROVE  g[k] = g[k - 1] + to[ts[k]]
      OBVIOUS
    <3>1. CASE k = n + 1
      <4>1. g[k] = next /\ g[k - 1] = f[n]
        BY <3>1
      <4> QED
        BY <3>1, <4>1
    <3>2. CASE k # n + 1
      <4>1. k \in 1 .. n /\ g[k] = f[k] /\ g[k - 1] = f[k - 1]
        BY <3>2
      <4> QED
        BY <4>1
    <3> QED
      BY <3>1, <3>2
  <2>4. Upto(n + 1, g)
    BY <2>2, <2>3
  <2> HIDE DEF g
  <2>5. n + 1 \in Nat
    OBVIOUS
  <2> QED
    BY <2>4, <2>5
<1>3. Len(ts) \in S
  <2> HIDE DEF S
  <2>1. Nat \subseteq S
    BY ONLY <1>1, <1>2, SetInduction
  <2> QED
    BY <2>1
<1>4. PICK f : Upto(Len(ts), f)
  BY <1>3
<1> QED
  BY <1>4 DEF Sums

LEMMA SumsUnique ==
  ASSUME NEW ts \in Seq(Timer), NEW to, NEW f, NEW g, Sums(f, ts, to), Sums(g, ts, to)
  PROVE  f = g
<1> DEFINE S == {n \in Nat : n <= Len(ts) => f[n] = g[n]}
<1>1. 0 \in S
  BY DEF Sums
<1>2. \A n \in Nat : n \in S => n + 1 \in S
  <2> SUFFICES ASSUME NEW n \in Nat, n \in S, n + 1 <= Len(ts)
               PROVE  f[n + 1] = g[n + 1]
    OBVIOUS
  <2>1. f[n] = g[n] /\ n + 1 \in 1 .. Len(ts) /\ (n + 1) - 1 = n
    OBVIOUS
  <2> QED
    BY <2>1 DEF Sums
<1>3. Nat \subseteq S
  <2> HIDE DEF S
  <2> QED
    BY <1>1, <1>2, SetInduction
<1>4. \A n \in 0 .. Len(ts) : f[n] = g[n]
  BY <1>3
<1> QED
  BY <1>4 DEF Sums

LEMMA UntilSums ==
  ASSUME NEW ts \in Seq(Timer), NEW to \in [Timer -> Int]
  PROVE  Sums(Until(ts, to), ts, to)
<1> DEFINE Step(f, n) == IF n = 0 THEN 0 ELSE f[n - 1] + to[ts[n]]
           sum == CHOOSE f : f = [n \in 0 .. Len(ts) |-> Step(f, n)]
<1>1. PICK f : Sums(f, ts, to)
  BY SumsExist
<1>2. \A n \in 0 .. Len(ts) : f[n] = Step(f, n)
  BY <1>1 DEF Sums
<1>3. f = [n \in 0 .. Len(ts) |-> Step(f, n)]
  BY <1>1, <1>2 DEF Sums
<1>4. sum = [n \in 0 .. Len(ts) |-> Step(sum, n)]
  BY <1>3
<1>5. Until(ts, to) = sum
  BY DEF Until
<1> HIDE DEF sum
<1>6. \A n \in 0 .. Len(ts) : sum[n] = Step(sum, n)
  BY <1>4
<1> DEFINE S == {n \in Nat : n <= Len(ts) => sum[n] \in Int}
<1>7. 0 \in S
  BY <1>6
<1>8. \A n \in Nat : n \in S => n + 1 \in S
  <2> SUFFICES ASSUME NEW n \in Nat, n \in S, n + 1 <= Len(ts)
               PROVE  sum[n + 1] \in Int
    OBVIOUS
  <2>1. sum[n] \in Int /\ n + 1 \in 0 .. Len(ts) /\ (n + 1) - 1 = n /\ n + 1 # 0
    OBVIOUS
  <2>2. sum[n + 1] = sum[n] + to[ts[n + 1]]
    BY <1>6, <2>1
  <2> QED
    BY <2>1, <2>2
<1>9. Nat \subseteq S
  <2> HIDE DEF S
  <2> QED
    BY <1>7, <1>8, SetInduction
<1>10. sum \in [0 .. Len(ts) -> Int]
  <2>1. \A n \in 0 .. Len(ts) : sum[n] \in Int
    BY <1>9
  <2>2. DOMAIN sum = 0 .. Len(ts) /\ sum = [n \in 0 .. Len(ts) |-> sum[n]]
    BY <1>4
  <2> QED
    BY <2>1, <2>2
<1> QED
  BY <1>5, <1>6, <1>10 DEF Sums

LEMMA SumsAreUntil ==
  ASSUME NEW ts \in Seq(Timer), NEW to \in [Timer -> Int], NEW f, Sums(f, ts, to)
  PROVE  Until(ts, to) = f
BY UntilSums, SumsUnique

(* The times grow along a list.                                            *)
LEMMA UntilGrows ==
  ASSUME NEW ts, NEW to, List(ts, to)
  PROVE  /\ Until(ts, to) \in [0 .. Len(ts) -> Nat]
         /\ Until(ts, to)[0] = 0
         /\ \A n \in 1 .. Len(ts) :
              Until(ts, to)[n] = Until(ts, to)[n - 1] + to[ts[n]]
         /\ \A m, n \in 0 .. Len(ts) : m <= n => Until(ts, to)[m] <= Until(ts, to)[n]
<1> DEFINE U == Until(ts, to)
<1>1. to \in [Timer -> Nat] /\ ts \in Seq(Timer)
  BY DEF List
<1>2. to \in [Timer -> Int]
  BY <1>1
<1>3. Sums(U, ts, to)
  BY <1>1, <1>2, UntilSums
<1> HIDE DEF U
<1>4. /\ U \in [0 .. Len(ts) -> Int]
      /\ U[0] = 0
      /\ \A n \in 1 .. Len(ts) : U[n] = U[n - 1] + to[ts[n]]
  BY <1>3 DEF Sums
<1>5. \A n \in 1 .. Len(ts) : to[ts[n]] \in Nat
  BY <1>1
<1> DEFINE S == {d \in Nat : \A m \in Nat : m + d <= Len(ts) => U[m] <= U[m + d]}
<1>6. 0 \in S
  BY <1>4
<1>7. \A d \in Nat : d \in S => d + 1 \in S
  <2> TAKE d \in Nat
  <2> HAVE d \in S
  <2> SUFFICES ASSUME NEW m \in Nat, m + (d + 1) <= Len(ts)
               PROVE  U[m] <= U[m + (d + 1)]
    <3>1. d + 1 \in Nat
      OBVIOUS
    <3> QED
      BY <3>1
  <2> DEFINE k == m + (d + 1)
  <2>1. k \in 1 .. Len(ts) /\ k - 1 = m + d /\ m + d \in 0 .. Len(ts) /\ m \in 0 .. Len(ts)
    BY <1>1
  <2>2. U[m] <= U[m + d]
    BY <2>1
  <2>3. U[k] = U[m + d] + to[ts[k]] /\ to[ts[k]] \in Nat
    BY <2>1, <1>4, <1>5
  <2>4. U[m] \in Int /\ U[m + d] \in Int
    BY <2>1, <1>4
  <2> QED
    BY <2>2, <2>3, <2>4, SMTT(30)
<1>8. Nat \subseteq S
  <2> HIDE DEF S
  <2> QED
    BY <1>6, <1>7, SetInduction
<1>9. \A m, n \in 0 .. Len(ts) : m <= n => U[m] <= U[n]
  <2> SUFFICES ASSUME NEW m \in 0 .. Len(ts), NEW n \in 0 .. Len(ts), m <= n
               PROVE  U[m] <= U[n]
    OBVIOUS
  <2>1. n - m \in Nat /\ m \in Nat /\ m + (n - m) = n
    OBVIOUS
  <2>2. n - m \in S
    BY <1>8, <2>1
  <2> QED
    BY <2>1, <2>2
<1>10. U \in [0 .. Len(ts) -> Nat]
  <2>1. \A n \in 0 .. Len(ts) : U[n] \in Nat
    BY <1>4, <1>9
  <2> QED
    BY <2>1, <1>4
<1> QED
  BY <1>4, <1>9, <1>10 DEF U

(* What is left for the n-th timer.                                        *)
LEMMA LeftAt ==
  ASSUME NEW ts, NEW to, List(ts, to), NEW n \in 1 .. Len(ts)
  PROVE  Left(ts, to, ts[n]) = Until(ts, to)[n] /\ ts[n] \in Elements(ts) /\ ts[n] \in Timer
<1>1. ts[n] \in Elements(ts)
  BY DEF Elements
<1>2. (CHOOSE k \in 1 .. Len(ts) : ts[k] = ts[n]) = n
  <2>1. \A k \in 1 .. Len(ts) : ts[k] = ts[n] => k = n
    BY DEF List
  <2> QED
    BY <2>1
<1>3. ts[n] \in Timer
  BY DEF List
<1> QED
  BY <1>1, <1>2, <1>3 DEF Left

LEMMA LeftNowhere ==
  ASSUME NEW ts, NEW to, NEW t, t \notin Elements(ts)
  PROVE  Left(ts, to, t) = 0
BY DEF Left

LEMMA LeftIsNat ==
  ASSUME NEW ts, NEW to, List(ts, to), NEW t
  PROVE  Left(ts, to, t) \in Nat
<1>1. CASE t \in Elements(ts)
  <2>1. PICK n \in 1 .. Len(ts) : t = ts[n]
    BY <1>1 DEF Elements
  <2>2. Until(ts, to)[n] \in Nat
    BY UntilGrows
  <2> QED
    BY <2>1, <2>2, LeftAt
<1>2. CASE t \notin Elements(ts)
  BY <1>2, LeftNowhere
<1> QED
  BY <1>1, <1>2

(* The head is the first that is due.                                      *)
LEMMA HeadIsFirst ==
  ASSUME NEW ts, NEW to, List(ts, to), ts # <<>>
  PROVE  /\ Head(ts) \in Elements(ts)
         /\ Head(ts) \in Timer
         /\ Left(ts, to, Head(ts)) = to[Head(ts)]
         /\ \A u \in Elements(ts) : to[Head(ts)] <= Left(ts, to, u)
<1>1. 1 \in 1 .. Len(ts) /\ Head(ts) = ts[1]
  BY DEF List
<1>2. Until(ts, to)[1] = to[ts[1]]
  <2>1. Until(ts, to)[1] = Until(ts, to)[1 - 1] + to[ts[1]] /\ Until(ts, to)[0] = 0
    BY <1>1, UntilGrows
  <2>2. to[ts[1]] \in Nat
    BY <1>1 DEF List
  <2> QED
    BY <2>1, <2>2
<1>3. Left(ts, to, ts[1]) = to[ts[1]] /\ ts[1] \in Elements(ts) /\ ts[1] \in Timer
  BY <1>1, <1>2, LeftAt
<1>4. ASSUME NEW u \in Elements(ts)
      PROVE  to[ts[1]] <= Left(ts, to, u)
  <2>1. PICK n \in 1 .. Len(ts) : u = ts[n]
    BY DEF Elements
  <2>2. Until(ts, to)[1] <= Until(ts, to)[n]
    <3>1. 1 \in 0 .. Len(ts) /\ n \in 0 .. Len(ts) /\ 1 <= n
      BY <1>1
    <3> QED
      BY <3>1, UntilGrows
  <2>3. Left(ts, to, u) = Until(ts, to)[n]
    BY <2>1, LeftAt
  <2> QED
    BY <1>2, <2>2, <2>3
<1> QED
  BY <1>1, <1>3, <1>4

----------------------------------------------------------------------------
(* What the operations on a list do to the time that is left.              *)

LEMMA PositionIsFirst ==
  ASSUME NEW ts, NEW to, List(ts, to), NEW i \in Nat
  PROVE  /\ Position(ts, to, i) \in 0 .. Len(ts)
         /\ Until(ts, to)[Position(ts, to, i)] <= i
         /\ Position(ts, to, i) < Len(ts) => i < Until(ts, to)[Position(ts, to, i) + 1]
<1> DEFINE U == Until(ts, to)
           earlier == {n \in 1 .. Len(ts) : U[n] <= i}
           n == Position(ts, to, i)
<1>1. /\ U \in [0 .. Len(ts) -> Nat] /\ U[0] = 0 /\ Len(ts) \in Nat
  BY UntilGrows DEF List
<1>2. n = IF earlier = {} THEN 0
          ELSE CHOOSE k \in earlier : \A m \in earlier : m <= k
  BY DEF Position
<1> HIDE DEF U, n
<1>3. CASE earlier = {}
  <2>1. n = 0
    BY <1>2, <1>3
  <2>2. 0 < Len(ts) => 1 \notin earlier
    BY <1>3
  <2>3. 0 < Len(ts) => 1 \in 1 .. Len(ts) /\ U[1] \in Nat
    BY <1>1
  <2>4. 0 < Len(ts) => i < U[1]
    BY <2>2, <2>3
  <2> QED
    BY <1>1, <2>1, <2>4 DEF U, n
<1>4. CASE earlier # {}
  <2>1. \E k \in earlier : \A m \in earlier : m <= k
    <3>1. earlier \subseteq 0 .. Len(ts)
      OBVIOUS
    <3> HIDE DEF earlier
    <3> QED
      BY <1>1, <1>4, <3>1, Largest
  <2>2. n \in earlier /\ \A m \in earlier : m <= n
    <3> HIDE DEF earlier
    <3> QED
      BY <1>2, <1>4, <2>1
  <2>3. n \in 1 .. Len(ts) /\ U[n] <= i
    BY <2>2
  <2>4. ASSUME n < Len(ts) PROVE i < U[n + 1]
    <3>1. n + 1 \in 1 .. Len(ts) /\ ~ (n + 1 <= n)
      BY <1>1, <2>3, <2>4
    <3>2. n + 1 \notin earlier
      BY <2>2, <3>1
    <3>3. U[n + 1] \in Nat
      BY <1>1, <3>1
    <3> QED
      BY <3>1, <3>2, <3>3
  <2> QED
    BY <1>1, <2>3, <2>4 DEF U, n
<1> QED
  BY <1>3, <1>4

Splice(ts, n, t) == SubSeq(ts, 1, n) \o <<t>> \o SubSeq(ts, n + 1, Len(ts))

LEMMA Spliced ==
  ASSUME NEW ts \in Seq(Timer), NEW n \in 0 .. Len(ts), NEW t \in Timer
  PROVE  /\ Splice(ts, n, t) \in Seq(Timer) /\ Len(Splice(ts, n, t)) = Len(ts) + 1
         /\ \A k \in 1 .. Len(ts) + 1 :
              Splice(ts, n, t)[k] =
                IF k <= n THEN ts[k] ELSE IF k = n + 1 THEN t ELSE ts[k - 1]
<1> DEFINE front == SubSeq(ts, 1, n)
           back == SubSeq(ts, n + 1, Len(ts))
           middle == front \o <<t>>
           ss == middle \o back
<1>1. /\ front \in Seq(Timer) /\ Len(front) = n
      /\ \A k \in 1 .. n : front[k] = ts[k]
  OBVIOUS
<1>2. /\ back \in Seq(Timer) /\ Len(back) = Len(ts) - n
      /\ \A k \in 1 .. Len(ts) - n : back[k] = ts[n + k]
  OBVIOUS
<1>3. Splice(ts, n, t) = ss
  BY DEF Splice
<1>4. n \in Nat /\ Len(ts) \in Nat /\ n <= Len(ts)
  OBVIOUS
<1> HIDE DEF front, back
<1>5. /\ middle \in Seq(Timer) /\ Len(middle) = n + 1
      /\ \A k \in 1 .. n + 1 : middle[k] = IF k <= n THEN ts[k] ELSE t
  BY <1>1
<1> HIDE DEF middle
<1>6. /\ ss \in Seq(Timer)
      /\ Len(ss) = Len(middle) + Len(back)
      /\ \A k \in 1 .. Len(middle) + Len(back) :
           ss[k] = IF k <= Len(middle) THEN middle[k] ELSE back[k - Len(middle)]
  BY <1>2, <1>5, ConcatProperties
<1> HIDE DEF ss
<1>7. Len(ss) = Len(ts) + 1 /\ Len(middle) + Len(back) = Len(ts) + 1
  BY <1>2, <1>4, <1>5, <1>6
<1>8. ASSUME NEW k \in 1 .. Len(ts) + 1
      PROVE  ss[k] = IF k <= n THEN ts[k] ELSE IF k = n + 1 THEN t ELSE ts[k - 1]
  <2>1. CASE k <= n + 1
    <3>1. ss[k] = middle[k] /\ k \in 1 .. n + 1
      BY <1>4, <1>5, <1>6, <1>7, <2>1
    <3> QED
      BY <1>4, <1>5, <2>1, <3>1
  <2>2. CASE k > n + 1
    <3>1. /\ k - (n + 1) \in 1 .. Len(ts) - n /\ n + (k - (n + 1)) = k - 1
          /\ ~ (k <= n + 1) /\ ~ (k <= n) /\ k # n + 1
      BY <1>4, <2>2
    <3>2. ss[k] = back[k - (n + 1)]
      BY <1>5, <1>6, <1>7, <3>1
    <3>3. ss[k] = ts[k - 1]
      BY <1>2, <3>1, <3>2
    <3> QED
      BY <3>1, <3>3
  <2> QED
    BY <1>4, <2>1, <2>2
<1> QED
  BY <1>3, <1>6, <1>7, <1>8

(* A timer that is inserted has its interval left, and no other changes.   *)
LEMMA InsertKeeps ==
  ASSUME NEW ts, NEW to, List(ts, to), NEW t \in Timer, t \notin Elements(ts),
         NEW i \in Nat
  PROVE  /\ List(Inserted(ts, to, t, i), TimeoutsWith(ts, to, t, i))
         /\ Elements(Inserted(ts, to, t, i)) = Elements(ts) \union {t}
         /\ Left(Inserted(ts, to, t, i), TimeoutsWith(ts, to, t, i), t) = i
         /\ \A u \in Elements(ts) :
              Left(Inserted(ts, to, t, i), TimeoutsWith(ts, to, t, i), u)
                = Left(ts, to, u)
<1> DEFINE U == Until(ts, to)
           L == Len(ts)
           n == Position(ts, to, i)
           ss == Inserted(ts, to, t, i)
           so == TimeoutsWith(ts, to, t, i)
           F == [k \in 0 .. L + 1 |-> IF k <= n THEN U[k] ELSE IF k = n + 1 THEN i ELSE U[k - 1]]
<1>1. /\ ts \in Seq(Timer) /\ to \in [Timer -> Nat] /\ L \in Nat
      /\ \A j, k \in 1 .. L : ts[j] = ts[k] => j = k
      /\ \A k \in 1 .. L : ts[k] \in Timer /\ ts[k] # t /\ to[ts[k]] \in Nat
  BY DEF List, Elements
<1>2. /\ U \in [0 .. L -> Nat] /\ U[0] = 0
      /\ \A k \in 1 .. L : U[k] = U[k - 1] + to[ts[k]]
  BY UntilGrows
<1>3. n \in 0 .. L /\ U[n] <= i /\ (n < L => i < U[n + 1])
  BY PositionIsFirst
<1>4. /\ ss \in Seq(Timer) /\ Len(ss) = L + 1
      /\ \A k \in 1 .. L + 1 :
           ss[k] = IF k <= n THEN ts[k] ELSE IF k = n + 1 THEN t ELSE ts[k - 1]
  <2>1. ss = Splice(ts, n, t)
    BY DEF Inserted, Splice
  <2> HIDE DEF ss, n
  <2>2. /\ Splice(ts, n, t) \in Seq(Timer) /\ Len(Splice(ts, n, t)) = Len(ts) + 1
        /\ \A k \in 1 .. Len(ts) + 1 :
             Splice(ts, n, t)[k] =
               IF k <= n THEN ts[k] ELSE IF k = n + 1 THEN t ELSE ts[k - 1]
    <3>1. ts \in Seq(Timer) /\ n \in 0 .. Len(ts)
      BY <1>1, <1>3
    <3> QED
      BY <3>1, Spliced
  <2> QED
    BY <2>1, <2>2
<1>5. so = [u \in Timer |->
              IF u = t THEN i - U[n]
              ELSE IF n < L /\ u = ts[n + 1] THEN to[u] - (i - U[n])
              ELSE to[u]]
  BY DEF TimeoutsWith
<1> HIDE DEF U, n, ss, so
<1>6. \A k \in 1 .. L : ss[IF k <= n THEN k ELSE k + 1] = ts[k]
  BY <1>1, <1>3, <1>4, SMTT(30)
<1>7. ss[n + 1] = t
  BY <1>1, <1>3, <1>4
<1>8. so[t] = i - U[n] /\ so[t] \in Nat
  <2>1. U[n] \in Nat
    BY <1>2, <1>3
  <2> QED
    BY <1>3, <1>5, <2>1
<1>9. ASSUME n < L
      PROVE  so[ts[n + 1]] = U[n + 1] - i /\ so[ts[n + 1]] \in Nat
  <2>1. n + 1 \in 1 .. L /\ n + 1 \in 0 .. L /\ (n + 1) - 1 = n
    BY <1>1, <1>3, <1>9
  <2>2. U[n + 1] = U[n] + to[ts[n + 1]] /\ U[n] \in Nat /\ to[ts[n + 1]] \in Nat
    BY <1>1, <1>2, <1>3, <2>1
  <2>3. ts[n + 1] \in Timer /\ ts[n + 1] # t
    BY <1>1, <2>1
  <2>4. so[ts[n + 1]] = to[ts[n + 1]] - (i - U[n])
    BY <1>5, <1>9, <2>3
  <2> QED
    BY <1>3, <1>9, <2>2, <2>4
<1>10. \A k \in 1 .. L : k # n + 1 => so[ts[k]] = to[ts[k]]
  <2> SUFFICES ASSUME NEW k \in 1 .. L, k # n + 1 PROVE so[ts[k]] = to[ts[k]]
    OBVIOUS
  <2>1. ts[k] \in Timer /\ ts[k] # t
    BY <1>1
  <2>2. n < L => ts[k] # ts[n + 1]
    <3>1. n < L => n + 1 \in 1 .. L
      BY <1>1, <1>3
    <3> QED
      BY <1>1, <3>1
  <2> QED
    BY <1>5, <2>1, <2>2
<1>11. so \in [Timer -> Nat]
  <2>1. ASSUME NEW u \in Timer PROVE so[u] \in Nat
    <3>1. CASE u = t
      BY <1>8, <3>1
    <3>2. CASE u # t /\ n < L /\ u = ts[n + 1]
      BY <1>9, <3>2
    <3>3. CASE u # t /\ ~ (n < L /\ u = ts[n + 1])
      BY <1>1, <1>5, <3>3
    <3> QED
      BY <3>1, <3>2, <3>3
  <2> QED
    BY <1>5, <2>1
<1>12. \A j, k \in 1 .. Len(ss) : ss[j] = ss[k] => j = k
  <2> SUFFICES ASSUME NEW j \in 1 .. L + 1, NEW k \in 1 .. L + 1, ss[j] = ss[k]
               PROVE  j = k
    BY <1>4
  <2>1. j <= n => j \in 1 .. L /\ ss[j] = ts[j] /\ ss[j] # t
    BY <1>1, <1>3, <1>4, SMTT(30)
  <2>2. j > n + 1 => j - 1 \in 1 .. L /\ ss[j] = ts[j - 1] /\ ss[j] # t
    <3>1. j > n + 1 => j - 1 \in 1 .. L /\ ~ (j <= n) /\ j # n + 1
      BY <1>1, <1>3
    <3>2. j > n + 1 => ss[j] = ts[j - 1]
      BY <1>4, <3>1
    <3> QED
      BY <1>1, <3>1, <3>2
  <2>3. k <= n => k \in 1 .. L /\ ss[k] = ts[k] /\ ss[k] # t
    BY <1>1, <1>3, <1>4, SMTT(30)
  <2>4. k > n + 1 => k - 1 \in 1 .. L /\ ss[k] = ts[k - 1] /\ ss[k] # t
    <3>1. k > n + 1 => k - 1 \in 1 .. L /\ ~ (k <= n) /\ k # n + 1
      BY <1>1, <1>3
    <3>2. k > n + 1 => ss[k] = ts[k - 1]
      BY <1>4, <3>1
    <3> QED
      BY <1>1, <3>1, <3>2
  <2>5. n \in Int /\ j \in Int /\ k \in Int
    BY <1>3
  <2>6. CASE j <= n /\ k <= n
    BY <1>1, <2>1, <2>3, <2>6
  <2>7. CASE j <= n /\ k > n + 1
    <3>1. j = k - 1
      BY <1>1, <2>1, <2>4, <2>7
    <3> QED
      BY <2>5, <2>7, <3>1
  <2>8. CASE j > n + 1 /\ k <= n
    <3>1. j - 1 = k
      BY <1>1, <2>2, <2>3, <2>8
    <3> QED
      BY <2>5, <2>8, <3>1
  <2>9. CASE j > n + 1 /\ k > n + 1
    <3>1. j - 1 = k - 1
      BY <1>1, <2>2, <2>4, <2>9
    <3> QED
      BY <2>5, <3>1
  <2>10. CASE j = n + 1 \/ k = n + 1
    BY <1>7, <2>1, <2>2, <2>3, <2>4, <2>5, <2>10
  <2> QED
    BY <2>5, <2>6, <2>7, <2>8, <2>9, <2>10
<1>13. List(ss, so)
  BY <1>4, <1>11, <1>12 DEF List
<1>14. Sums(F, ss, so)
  <2>1. F \in [0 .. Len(ss) -> Int] /\ F[0] = 0
    <3>1. \A k \in 0 .. L + 1 :
            (IF k <= n THEN U[k] ELSE IF k = n + 1 THEN i ELSE U[k - 1]) \in Int
      <4> TAKE k \in 0 .. L + 1
      <4>1. k <= n => k \in 0 .. L
        BY <1>1, <1>3
      <4>2. ~ (k <= n) => k - 1 \in 0 .. L
        BY <1>1, <1>3
      <4>3. CASE k <= n
        BY <1>2, <4>1, <4>3
      <4>4. CASE ~ (k <= n)
        BY <1>2, <4>2, <4>4
      <4> QED
        BY <4>3, <4>4
    <3>2. F[0] = 0
      BY <1>2, <1>1, <1>3
    <3> QED
      BY <1>4, <3>1, <3>2
  <2>2. ASSUME NEW k \in 1 .. L + 1
        PROVE  F[k] = F[k - 1] + so[ss[k]]
    <3>1. CASE k <= n
      <4>1. k \in 1 .. L /\ F[k] = U[k] /\ F[k - 1] = U[k - 1] /\ ss[k] = ts[k] /\ k # n + 1
        BY <1>1, <1>3, <1>4, <3>1, SMTT(30)
      <4> QED
        BY <1>2, <1>10, <4>1
    <3>2. CASE k = n + 1
      <4>1. F[k] = i /\ F[k - 1] = U[n] /\ ss[k] = t
        BY <1>1, <1>3, <1>7, <3>2
      <4>2. U[n] \in Nat
        BY <1>2, <1>3
      <4> QED
        BY <1>8, <4>1, <4>2
    <3>3. CASE k = n + 2
      <4>1. n < L /\ F[k] = U[n + 1] /\ F[k - 1] = i /\ ss[k] = ts[n + 1]
        BY <1>1, <1>3, <1>4, <3>3
      <4>2. U[n + 1] \in Nat
        BY <1>1, <1>2, <1>3, <4>1
      <4> QED
        BY <1>9, <4>1, <4>2
    <3>4. CASE k > n + 2
      <4>1. /\ k - 1 \in 1 .. L /\ k - 1 # n + 1 /\ F[k] = U[k - 1]
            /\ F[k - 1] = U[(k - 1) - 1] /\ ss[k] = ts[k - 1]
        <5>1. /\ k \in 0 .. L + 1 /\ k - 1 \in 0 .. L + 1 /\ k - 1 \in 1 .. L
              /\ ~ (k <= n) /\ k # n + 1 /\ ~ (k - 1 <= n) /\ k - 1 # n + 1
          BY <1>1, <1>3, <3>4
        <5>2. F[k] = U[k - 1]
          BY <5>1
        <5>3. F[k - 1] = U[(k - 1) - 1]
          BY <5>1
        <5>4. ss[k] = ts[k - 1]
          BY <1>4, <5>1
        <5> QED
          BY <5>1, <5>2, <5>3, <5>4
      <4> QED
        BY <1>2, <1>10, <4>1
    <3> QED
      BY <1>3, <3>1, <3>2, <3>3, <3>4
  <2> HIDE DEF F
  <2> QED
    BY <1>4, <2>1, <2>2 DEF Sums
<1>15. Until(ss, so) = F
  <2>1. so \in [Timer -> Int]
    BY <1>11
  <2> HIDE DEF F
  <2> QED
    BY <1>4, <1>14, <2>1, SumsAreUntil
<1>16. n + 1 \in 1 .. Len(ss) /\ F[n + 1] = i
  BY <1>1, <1>3, <1>4
<1>17. Left(ss, so, t) = i
  BY <1>7, <1>13, <1>15, <1>16, LeftAt
<1>18. ASSUME NEW k \in 1 .. L
       PROVE  Left(ss, so, ts[k]) = Left(ts, to, ts[k])
  <2> DEFINE j == IF k <= n THEN k ELSE k + 1
  <2>1. j \in 1 .. Len(ss) /\ F[j] = U[k] /\ ss[j] = ts[k]
    BY <1>1, <1>3, <1>4, SMTT(30)
  <2> HIDE DEF j, F
  <2>2. Left(ss, so, ss[j]) = U[k]
    BY <1>13, <1>15, <2>1, LeftAt
  <2>3. Left(ts, to, ts[k]) = U[k]
    BY LeftAt DEF U
  <2> QED
    BY <2>1, <2>2, <2>3
<1>19. Elements(ss) = Elements(ts) \union {t}
  <2>1. ASSUME NEW j \in 1 .. Len(ss) PROVE ss[j] \in Elements(ts) \union {t}
    <3>1. \/ j \in 1 .. L /\ ss[j] = ts[j]
          \/ ss[j] = t
          \/ j - 1 \in 1 .. L /\ ss[j] = ts[j - 1]
      <4>1. j \in 1 .. L + 1 /\ (j <= n => j \in 1 .. L)
        BY <1>1, <1>3, <1>4
      <4>2. ~ (j <= n) /\ j # n + 1 => j - 1 \in 1 .. L
        BY <1>1, <1>3, <1>4
      <4> QED
        BY <1>4, <4>1, <4>2
    <3> QED
      BY <3>1 DEF Elements
  <2>2. ASSUME NEW k \in 1 .. L PROVE ts[k] \in Elements(ss)
    <3>1. (IF k <= n THEN k ELSE k + 1) \in 1 .. Len(ss)
      BY <1>1, <1>3, <1>4
    <3> QED
      BY <1>6, <3>1 DEF Elements
  <2>3. t \in Elements(ss)
    BY <1>7, <1>16 DEF Elements
  <2> QED
    BY <2>1, <2>2, <2>3 DEF Elements
<1>20. ASSUME NEW u \in Elements(ts) PROVE Left(ss, so, u) = Left(ts, to, u)
  BY <1>18 DEF Elements
<1> QED
  BY <1>13, <1>17, <1>19, <1>20 DEF ss, so

Cut(ts, n) == SubSeq(ts, 1, n - 1) \o SubSeq(ts, n + 1, Len(ts))

LEMMA CutOut ==
  ASSUME NEW ts \in Seq(Timer), NEW n \in 1 .. Len(ts)
  PROVE  /\ Cut(ts, n) \in Seq(Timer) /\ Len(Cut(ts, n)) = Len(ts) - 1
         /\ \A k \in 1 .. Len(ts) - 1 :
              Cut(ts, n)[k] = IF k < n THEN ts[k] ELSE ts[k + 1]
<1> DEFINE front == SubSeq(ts, 1, n - 1)
           back == SubSeq(ts, n + 1, Len(ts))
           ss == front \o back
<1>1. /\ front \in Seq(Timer) /\ Len(front) = n - 1
      /\ \A k \in 1 .. n - 1 : front[k] = ts[k]
  OBVIOUS
<1>2. /\ back \in Seq(Timer) /\ Len(back) = Len(ts) - n
      /\ \A k \in 1 .. Len(ts) - n : back[k] = ts[n + k]
  OBVIOUS
<1>3. Cut(ts, n) = ss
  BY DEF Cut
<1>4. n \in Nat /\ Len(ts) \in Nat /\ 1 <= n /\ n <= Len(ts)
  OBVIOUS
<1> HIDE DEF front, back
<1>5. /\ ss \in Seq(Timer)
      /\ Len(ss) = Len(front) + Len(back)
      /\ \A k \in 1 .. Len(front) + Len(back) :
           ss[k] = IF k <= Len(front) THEN front[k] ELSE back[k - Len(front)]
  BY <1>1, <1>2, ConcatProperties
<1> HIDE DEF ss
<1>6. Len(ss) = Len(ts) - 1 /\ Len(front) + Len(back) = Len(ts) - 1
  BY <1>1, <1>2, <1>4, <1>5
<1>7. ASSUME NEW k \in 1 .. Len(ts) - 1
      PROVE  ss[k] = IF k < n THEN ts[k] ELSE ts[k + 1]
  <2>1. CASE k < n
    <3>1. ss[k] = front[k] /\ k \in 1 .. n - 1
      BY <1>1, <1>4, <1>5, <1>6, <2>1
    <3> QED
      BY <1>1, <2>1, <3>1
  <2>2. CASE ~ (k < n)
    <3>1. /\ k - (n - 1) \in 1 .. Len(ts) - n /\ n + (k - (n - 1)) = k + 1
          /\ ~ (k <= n - 1)
      BY <1>4, <2>2
    <3>2. ss[k] = back[k - (n - 1)]
      BY <1>1, <1>5, <1>6, <3>1
    <3>3. ss[k] = ts[k + 1]
      BY <1>2, <3>1, <3>2
    <3> QED
      BY <2>2, <3>3
  <2> QED
    BY <2>1, <2>2
<1> QED
  BY <1>3, <1>5, <1>6, <1>7

(* A list without its n-th timer: an index and its index in the list.      *)
IsCut(ss, ts, n) ==
  /\ ss \in Seq(Timer) /\ Len(ss) = Len(ts) - 1
  /\ \A j, k \in 1 .. Len(ts) : ts[j] = ts[k] => j = k
  /\ \A k \in 1 .. Len(ts) - 1 : ss[k] = IF k < n THEN ts[k] ELSE ts[k + 1]

LEMMA CutElements ==
  ASSUME NEW ts \in Seq(Timer), NEW n \in 1 .. Len(ts), NEW ss, IsCut(ss, ts, n)
  PROVE  /\ \A j, k \in 1 .. Len(ss) : ss[j] = ss[k] => j = k
         /\ Elements(ss) = Elements(ts) \ {ts[n]}
         /\ \A u \in Elements(ss) : \E k \in 1 .. Len(ss) :
              /\ ss[k] = u
              /\ (IF k < n THEN k ELSE k + 1) \in 1 .. Len(ts)
              /\ ts[IF k < n THEN k ELSE k + 1] = u
<1> USE DEF IsCut
<1> DEFINE old(k) == IF k < n THEN k ELSE k + 1
<1>1. n \in Nat /\ Len(ts) \in Nat /\ 1 <= n /\ n <= Len(ts)
  OBVIOUS
<1>2. ASSUME NEW k \in 1 .. Len(ss)
      PROVE  old(k) \in 1 .. Len(ts) /\ old(k) # n /\ ss[k] = ts[old(k)]
  <2>1. CASE k < n
    BY <1>1, <2>1
  <2>2. CASE ~ (k < n)
    BY <1>1, <2>2
  <2> QED
    BY <2>1, <2>2
<1>3. ASSUME NEW j \in 1 .. Len(ss), NEW k \in 1 .. Len(ss), ss[j] = ss[k]
      PROVE  j = k
  <2>1. old(j) = old(k)
    <3> HIDE DEF old
    <3> QED
      BY <1>2, <1>3
  <2> QED
    BY <1>1, <2>1
<1>4. ASSUME NEW u \in Elements(ss)
      PROVE  \E k \in 1 .. Len(ss) :
               /\ ss[k] = u /\ old(k) \in 1 .. Len(ts) /\ ts[old(k)] = u /\ old(k) # n
  <2>1. PICK k \in 1 .. Len(ss) : ss[k] = u
    BY DEF Elements
  <2> HIDE DEF old
  <2> QED
    BY <1>2, <2>1
<1>5. ASSUME NEW u \in Elements(ss) PROVE u \in Elements(ts) \ {ts[n]}
  <2>1. PICK k \in 1 .. Len(ss) :
               old(k) \in 1 .. Len(ts) /\ ts[old(k)] = u /\ old(k) # n
    BY <1>4
  <2> HIDE DEF old
  <2> QED
    BY <2>1 DEF Elements
<1>6. ASSUME NEW u \in Elements(ts), u # ts[n] PROVE u \in Elements(ss)
  <2>1. PICK k \in 1 .. Len(ts) : ts[k] = u
    BY DEF Elements
  <2>2. k # n
    BY <1>6, <2>1
  <2>3. CASE k < n
    <3>1. k \in 1 .. Len(ss) /\ ss[k] = u
      BY <1>1, <2>1, <2>3
    <3> QED
      BY <3>1 DEF Elements
  <2>4. CASE k > n
    <3>1. k - 1 \in 1 .. Len(ss) /\ ~ (k - 1 < n) /\ (k - 1) + 1 = k
      BY <1>1, <2>4
    <3>2. ss[k - 1] = u
      BY <2>1, <3>1
    <3> QED
      BY <3>1, <3>2 DEF Elements
  <2> QED
    BY <1>1, <2>2, <2>3, <2>4
<1> QED
  BY <1>3, <1>4, <1>5, <1>6

(* A timer that is stopped leaves the others what was left to them.        *)
LEMMA StopKeeps ==
  ASSUME NEW ts, NEW to, List(ts, to), NEW t \in Elements(ts)
  PROVE  /\ List(Without(ts, t), TimeoutsWithout(ts, to, t))
         /\ Elements(Without(ts, t)) = Elements(ts) \ {t}
         /\ \A u \in Elements(ts) \ {t} :
              Left(Without(ts, t), TimeoutsWithout(ts, to, t), u) = Left(ts, to, u)
<1> DEFINE U == Until(ts, to)
           L == Len(ts)
           ss == Without(ts, t)
           so == TimeoutsWithout(ts, to, t)
<1>1. /\ ts \in Seq(Timer) /\ to \in [Timer -> Nat] /\ L \in Nat
      /\ \A j, k \in 1 .. L : ts[j] = ts[k] => j = k
      /\ \A k \in 1 .. L : ts[k] \in Timer /\ to[ts[k]] \in Nat
  BY DEF List
<1>2. /\ U \in [0 .. L -> Nat] /\ U[0] = 0
      /\ \A k \in 1 .. L : U[k] = U[k - 1] + to[ts[k]]
  BY UntilGrows
<1>3. PICK n \in 1 .. L : ts[n] = t
  BY DEF Elements
<1>4. (CHOOSE k \in 1 .. L : ts[k] = t) = n
  BY <1>1, <1>3
<1>5. ss = Cut(ts, n)
  BY <1>4 DEF Without, Cut
<1>6. /\ ss \in Seq(Timer) /\ Len(ss) = L - 1
      /\ \A k \in 1 .. L - 1 : ss[k] = IF k < n THEN ts[k] ELSE ts[k + 1]
  <2>1. /\ Cut(ts, n) \in Seq(Timer) /\ Len(Cut(ts, n)) = Len(ts) - 1
        /\ \A k \in 1 .. Len(ts) - 1 :
             Cut(ts, n)[k] = IF k < n THEN ts[k] ELSE ts[k + 1]
    BY <1>1, CutOut
  <2> HIDE DEF ss
  <2> QED
    BY <1>5, <2>1
<1>7. so = [u \in Timer |->
              IF \E k \in 1 .. L - 1 : ts[k] = t /\ ts[k + 1] = u
              THEN to[u] + to[t] ELSE to[u]]
  BY DEF TimeoutsWithout
<1> HIDE DEF U, ss, so
<1>8. /\ \A j, k \in 1 .. Len(ss) : ss[j] = ss[k] => j = k
      /\ Elements(ss) = Elements(ts) \ {t}
      /\ \A u \in Elements(ss) : \E k \in 1 .. Len(ss) :
           /\ ss[k] = u
           /\ (IF k < n THEN k ELSE k + 1) \in 1 .. Len(ts)
           /\ ts[IF k < n THEN k ELSE k + 1] = u
  <2>1. ts \in Seq(Timer) /\ n \in 1 .. Len(ts) /\ IsCut(ss, ts, n)
    BY <1>1, <1>6 DEF IsCut
  <2>2. /\ \A j, k \in 1 .. Len(ss) : ss[j] = ss[k] => j = k
        /\ Elements(ss) = Elements(ts) \ {ts[n]}
        /\ \A u \in Elements(ss) : \E k \in 1 .. Len(ss) :
             /\ ss[k] = u
             /\ (IF k < n THEN k ELSE k + 1) \in 1 .. Len(ts)
             /\ ts[IF k < n THEN k ELSE k + 1] = u
    BY <2>1, CutElements
  <2> QED
    BY <1>3, <2>2
<1>9. to[t] \in Nat /\ t \in Timer
  BY <1>1, <1>3
<1>10. so \in [Timer -> Nat]
  <2>1. \A u \in Timer : to[u] \in Nat /\ to[u] + to[t] \in Nat
    BY <1>1, <1>9
  <2> QED
    BY <1>7, <2>1
<1>11. \A k \in 1 .. L : k # n + 1 => so[ts[k]] = to[ts[k]]
  <2> SUFFICES ASSUME NEW k \in 1 .. L, k # n + 1 PROVE so[ts[k]] = to[ts[k]]
    OBVIOUS
  <2>1. ASSUME NEW j \in 1 .. L - 1, ts[j] = t, ts[j + 1] = ts[k] PROVE FALSE
    <3>1. j \in 1 .. L /\ j + 1 \in 1 .. L
      BY <1>1
    <3>2. j = n /\ j + 1 = k
      BY <1>1, <1>3, <2>1, <3>1
    <3> QED
      BY <3>2
  <2> QED
    BY <1>1, <1>7, <2>1
<1>12. n < L => so[ts[n + 1]] = to[ts[n + 1]] + to[t]
  <2> SUFFICES ASSUME n < L PROVE so[ts[n + 1]] = to[ts[n + 1]] + to[t]
    OBVIOUS
  <2>1. n \in 1 .. L - 1 /\ n + 1 \in 1 .. L
    BY <1>1
  <2> QED
    BY <1>1, <1>3, <1>7, <2>1
<1>13. List(ss, so)
  BY <1>6, <1>8, <1>10 DEF List
<1> DEFINE F == [k \in 0 .. L - 1 |-> IF k < n THEN U[k] ELSE U[k + 1]]
<1>14. Sums(F, ss, so)
  <2>1. F \in [0 .. Len(ss) -> Int] /\ F[0] = 0
    <3>1. ASSUME NEW k \in 0 .. L - 1
          PROVE  (IF k < n THEN U[k] ELSE U[k + 1]) \in Int
      <4>1. k \in 0 .. L /\ k + 1 \in 0 .. L
        BY <1>1
      <4> QED
        BY <1>2, <4>1
    <3>2. F[0] = 0
      BY <1>1, <1>2
    <3> QED
      BY <1>6, <3>1, <3>2
  <2>2. ASSUME NEW k \in 1 .. L - 1
        PROVE  F[k] = F[k - 1] + so[ss[k]]
    <3>0. k \in 0 .. L - 1 /\ k - 1 \in 0 .. L - 1 /\ k \in 1 .. L /\ k + 1 \in 1 .. L
      BY <1>1
    <3>1. CASE k < n
      <4>1. F[k] = U[k] /\ F[k - 1] = U[k - 1] /\ ss[k] = ts[k] /\ k # n + 1
        BY <1>6, <3>0, <3>1
      <4> QED
        BY <1>2, <1>11, <3>0, <4>1
    <3>2. CASE k = n
      <4>1. F[k] = U[n + 1] /\ F[k - 1] = U[n - 1] /\ ss[k] = ts[n + 1] /\ n < L
        <5>1. ~ (k < n) /\ k - 1 < n /\ n < L
          BY <1>1, <3>2
        <5>2. F[k] = U[k + 1] /\ F[k - 1] = U[k - 1] /\ ss[k] = ts[k + 1]
          BY <1>6, <3>0, <5>1
        <5> QED
          BY <3>2, <5>1, <5>2
      <4>2. U[n + 1] = U[n] + to[ts[n + 1]] /\ U[n] = U[n - 1] + to[t]
        <5>1. (n + 1) - 1 = n /\ n + 1 \in 1 .. L
          BY <3>0, <3>2
        <5> QED
          BY <1>2, <1>3, <5>1
      <4>3. U[n - 1] \in Nat /\ to[t] \in Nat /\ to[ts[n + 1]] \in Nat
        <5>1. n - 1 \in 0 .. L /\ n + 1 \in 1 .. L
          BY <3>0, <3>2
        <5> QED
          BY <1>1, <1>2, <1>9, <5>1
      <4> QED
        BY <1>12, <4>1, <4>2, <4>3
    <3>3. CASE k > n
      <4>1. F[k] = U[k + 1] /\ F[k - 1] = U[(k - 1) + 1] /\ ss[k] = ts[k + 1] /\ k + 1 # n + 1
        <5>1. ~ (k < n) /\ ~ (k - 1 < n) /\ k + 1 # n + 1
          BY <1>1, <3>0, <3>3
        <5> QED
          BY <1>6, <3>0, <5>1
      <4>2. (k - 1) + 1 = k /\ (k + 1) - 1 = k
        BY <3>0
      <4>3. U[k + 1] = U[k] + to[ts[k + 1]]
        BY <1>2, <3>0, <4>2
      <4> QED
        BY <1>11, <3>0, <4>1, <4>2, <4>3
    <3> QED
      BY <1>1, <3>1, <3>2, <3>3
  <2> HIDE DEF F
  <2> QED
    BY <1>6, <2>1, <2>2 DEF Sums
<1>15. Until(ss, so) = F
  <2>1. so \in [Timer -> Int]
    BY <1>10
  <2> HIDE DEF F
  <2> QED
    BY <1>6, <1>14, <2>1, SumsAreUntil
<1>16. ASSUME NEW u \in Elements(ts) \ {t}
       PROVE  Left(ss, so, u) = Left(ts, to, u)
  <2> DEFINE old(k) == IF k < n THEN k ELSE k + 1
  <2>1. PICK k \in 1 .. Len(ss) : ss[k] = u /\ old(k) \in 1 .. L /\ ts[old(k)] = u
    BY <1>8
  <2>2. F[k] = U[old(k)]
    <3>1. k \in 0 .. L - 1
      BY <1>1, <1>6
    <3>2. F[k] = IF k < n THEN U[k] ELSE U[k + 1]
      BY <3>1
    <3> QED
      BY <3>2
  <2> HIDE DEF old, F
  <2>3. Left(ss, so, u) = F[k]
    BY <1>13, <1>15, <2>1, LeftAt
  <2>4. Left(ts, to, u) = U[old(k)]
    BY <2>1, LeftAt DEF U
  <2> QED
    BY <2>2, <2>3, <2>4
<1> QED
  BY <1>8, <1>13, <1>16 DEF ss, so

(* When the head leaves the list, its time comes off all behind it.        *)
LEMMA TailKeeps ==
  ASSUME NEW ts, NEW to, List(ts, to), ts # <<>>
  PROVE  /\ List(Tail(ts), to)
         /\ Elements(Tail(ts)) = Elements(ts) \ {Head(ts)}
         /\ \A u \in Elements(ts) \ {Head(ts)} :
              Left(Tail(ts), to, u) = Left(ts, to, u) - to[Head(ts)]
<1> DEFINE U == Until(ts, to)
           L == Len(ts)
           ss == Tail(ts)
<1>1. /\ ts \in Seq(Timer) /\ to \in [Timer -> Nat] /\ L \in Nat
      /\ \A j, k \in 1 .. L : ts[j] = ts[k] => j = k
      /\ \A k \in 1 .. L : ts[k] \in Timer /\ to[ts[k]] \in Nat
  BY DEF List
<1>2. /\ U \in [0 .. L -> Nat] /\ U[0] = 0
      /\ \A k \in 1 .. L : U[k] = U[k - 1] + to[ts[k]]
  BY UntilGrows
<1>3. L >= 1 /\ Head(ts) = ts[1] /\ 1 \in 1 .. L
  BY <1>1
<1>4. /\ ss \in Seq(Timer) /\ Len(ss) = L - 1
      /\ \A k \in 1 .. L - 1 : ss[k] = ts[k + 1]
  BY <1>1, HeadTailProperties
<1> HIDE DEF U, ss
<1>5. IsCut(ss, ts, 1)
  <2>1. \A k \in 1 .. L - 1 : ss[k] = IF k < 1 THEN ts[k] ELSE ts[k + 1]
    BY <1>4
  <2> QED
    BY <1>1, <1>4, <2>1 DEF IsCut
<1>6. /\ \A j, k \in 1 .. Len(ss) : ss[j] = ss[k] => j = k
      /\ Elements(ss) = Elements(ts) \ {ts[1]}
  BY <1>1, <1>3, <1>5, CutElements
<1>7. List(ss, to)
  BY <1>1, <1>4, <1>6 DEF List
<1>8. U[1] = to[ts[1]]
  <2>1. U[1] = U[1 - 1] + to[ts[1]] /\ to[ts[1]] \in Nat /\ 1 - 1 = 0
    BY <1>1, <1>2, <1>3
  <2> QED
    BY <1>2, <2>1
<1> DEFINE F == [k \in 0 .. L - 1 |-> U[k + 1] - U[1]]
<1>9. \A k \in 0 .. L - 1 : k + 1 \in 0 .. L /\ k + 1 \in 1 .. L /\ U[k + 1] \in Nat
  <2> TAKE k \in 0 .. L - 1
  <2>1. k + 1 \in 0 .. L /\ k + 1 \in 1 .. L
    BY <1>1
  <2> QED
    BY <1>2, <2>1
<1>10. Sums(F, ss, to)
  <2>1. F \in [0 .. Len(ss) -> Int] /\ F[0] = 0
    <3>1. U[1] \in Nat /\ 0 \in 0 .. L - 1 /\ 0 + 1 = 1
      BY <1>1, <1>2, <1>3
    <3>2. \A k \in 0 .. L - 1 : U[k + 1] - U[1] \in Int
      BY <1>9, <3>1
    <3>3. F[0] = U[1] - U[1]
      BY <3>1
    <3> QED
      BY <1>4, <3>1, <3>2, <3>3
  <2>2. ASSUME NEW k \in 1 .. L - 1
        PROVE  F[k] = F[k - 1] + to[ss[k]]
    <3>1. k \in 0 .. L - 1 /\ k - 1 \in 0 .. L - 1 /\ (k + 1) - 1 = k /\ (k - 1) + 1 = k
      BY <1>1
    <3>2. F[k] = U[k + 1] - U[1] /\ F[k - 1] = U[k] - U[1] /\ ss[k] = ts[k + 1]
      BY <1>4, <3>1
    <3>3. U[k + 1] = U[k] + to[ts[k + 1]]
      BY <1>2, <1>9, <3>1
    <3>4. U[k] \in Nat /\ U[1] \in Nat /\ to[ts[k + 1]] \in Nat
      <4>1. k \in 0 .. L /\ 1 \in 0 .. L /\ k + 1 \in 1 .. L
        BY <1>3, <1>9, <3>1
      <4>2. U[k] \in Nat /\ U[1] \in Nat
        BY <1>2, <4>1
      <4> QED
        BY <1>1, <4>1, <4>2
    <3> HIDE DEF F, U
    <3> QED
      BY <3>2, <3>3, <3>4
  <2> HIDE DEF F
  <2> QED
    BY <1>4, <2>1, <2>2 DEF Sums
<1>11. Until(ss, to) = F
  <2>1. to \in [Timer -> Int]
    BY <1>1
  <2> HIDE DEF F
  <2> QED
    BY <1>4, <1>10, <2>1, SumsAreUntil
<1>12. ASSUME NEW u \in Elements(ts) \ {Head(ts)}
       PROVE  Left(ss, to, u) = Left(ts, to, u) - to[Head(ts)]
  <2>1. PICK k \in 1 .. Len(ss) : ss[k] = u
    BY <1>3, <1>6 DEF Elements
  <2>2. k \in 0 .. L - 1 /\ k + 1 \in 1 .. L /\ ts[k + 1] = u
    BY <1>1, <1>4, <2>1
  <2>3. F[k] = U[k + 1] - U[1]
    BY <2>2
  <2> HIDE DEF F
  <2>4. Left(ss, to, u) = F[k]
    BY <1>7, <1>11, <2>1, LeftAt
  <2>5. Left(ts, to, u) = U[k + 1]
    BY <2>2, LeftAt DEF U
  <2> QED
    BY <1>3, <1>8, <2>3, <2>4, <2>5
<1> QED
  BY <1>3, <1>6, <1>7, <1>12 DEF ss

(* Time taken off the head comes off all of them.                          *)
LEMMA RestKeeps ==
  ASSUME NEW ts, NEW to, List(ts, to), NEW e \in Nat,
         ts # <<>> => e <= to[Head(ts)],
         NEW so, so = [t \in Timer |-> IF ts # <<>> /\ t = Head(ts)
                                     THEN to[Head(ts)] - e ELSE to[t]]
  PROVE  /\ List(ts, so)
         /\ \A u \in Elements(ts) : Left(ts, so, u) = Left(ts, to, u) - e
<1> DEFINE U == Until(ts, to)
           L == Len(ts)
<1>1. /\ ts \in Seq(Timer) /\ to \in [Timer -> Nat] /\ L \in Nat
      /\ \A j, k \in 1 .. L : ts[j] = ts[k] => j = k
      /\ \A k \in 1 .. L : ts[k] \in Timer /\ to[ts[k]] \in Nat
  BY DEF List
<1>2. /\ U \in [0 .. L -> Nat] /\ U[0] = 0
      /\ \A k \in 1 .. L : U[k] = U[k - 1] + to[ts[k]]
  BY UntilGrows
<1> HIDE DEF U
<1>3. CASE ts = <<>>
  <2>1. so = to
    BY <1>1, <1>3
  <2>2. Elements(ts) = {}
    BY <1>3 DEF Elements
  <2> QED
    BY <2>1, <2>2
<1>4. CASE ts # <<>>
  <2>1. Head(ts) = ts[1] /\ 1 \in 1 .. L /\ L >= 1
    BY <1>1, <1>4
  <2>2. so[ts[1]] = to[ts[1]] - e /\ so[ts[1]] \in Nat
    BY <1>1, <1>4, <2>1
  <2>3. \A k \in 2 .. L : so[ts[k]] = to[ts[k]]
    <3> TAKE k \in 2 .. L
    <3>1. k \in 1 .. L /\ k # 1
      OBVIOUS
    <3>2. ts[k] # ts[1] /\ ts[k] \in Timer
      BY <1>1, <2>1, <3>1
    <3> QED
      BY <2>1, <3>2
  <2>4. so \in [Timer -> Nat]
    <3>1. ASSUME NEW t \in Timer PROVE so[t] \in Nat
      <4>1. CASE t = ts[1]
        BY <2>2, <4>1
      <4>2. CASE t # ts[1]
        BY <1>1, <2>1, <4>2
      <4> QED
        BY <4>1, <4>2
    <3> QED
      BY <3>1
  <2>5. List(ts, so)
    BY <1>1, <2>4 DEF List
  <2> DEFINE F == [k \in 0 .. L |-> IF k = 0 THEN 0 ELSE U[k] - e]
  <2>6. Sums(F, ts, so)
    <3>1. F \in [0 .. L -> Int] /\ F[0] = 0
      <4>1. \A k \in 0 .. L : (IF k = 0 THEN 0 ELSE U[k] - e) \in Int
        BY <1>2
      <4>2. 0 \in 0 .. L
        BY <1>1
      <4> QED
        BY <4>1, <4>2
    <3>2. ASSUME NEW k \in 1 .. L PROVE F[k] = F[k - 1] + so[ts[k]]
      <4>1. k \in 0 .. L /\ k - 1 \in 0 .. L /\ k # 0
        OBVIOUS
      <4>2. F[k] = U[k] - e
        BY <4>1
      <4>3. U[k] = U[k - 1] + to[ts[k]] /\ U[k - 1] \in Nat /\ to[ts[k]] \in Nat
        BY <1>1, <1>2, <4>1
      <4>4. CASE k = 1
        <5>1. F[k - 1] = 0 /\ U[k - 1] = 0
          BY <1>2, <4>1, <4>4
        <5> QED
          BY <2>2, <4>2, <4>3, <4>4, <5>1
      <4>5. CASE k # 1
        <5>1. k - 1 # 0 /\ k \in 2 .. L
          BY <4>5
        <5>2. F[k - 1] = U[k - 1] - e
          BY <4>1, <5>1
        <5>3. so[ts[k]] = to[ts[k]]
          BY <2>3, <5>1
        <5> HIDE DEF F
        <5> QED
          BY <4>2, <4>3, <5>2, <5>3
      <4> QED
        BY <4>4, <4>5
    <3> HIDE DEF F
    <3> QED
      BY <3>1, <3>2 DEF Sums
  <2>7. Until(ts, so) = F
    <3>1. so \in [Timer -> Int]
      BY <2>4
    <3> HIDE DEF F
    <3> QED
      BY <1>1, <2>6, <3>1, SumsAreUntil
  <2>8. ASSUME NEW u \in Elements(ts) PROVE Left(ts, so, u) = Left(ts, to, u) - e
    <3>1. PICK k \in 1 .. L : ts[k] = u
      BY DEF Elements
    <3>2. F[k] = U[k] - e
      <4>1. k \in 0 .. L /\ k # 0
        OBVIOUS
      <4> QED
        BY <4>1
    <3> HIDE DEF F
    <3>3. Left(ts, so, u) = F[k]
      BY <2>5, <2>7, <3>1, LeftAt
    <3>4. Left(ts, to, u) = U[k]
      BY <3>1, LeftAt DEF U
    <3> QED
      BY <3>2, <3>3, <3>4
  <2> QED
    BY <2>5, <2>8
<1> QED
  BY <1>3, <1>4

----------------------------------------------------------------------------
(* The invariant.                                                          *)

(* The program between its parts: time is only taken inside the task       *)
(* handler, and a timer has expired only while its handler runs.           *)
Between ==
  /\ pc = "main" => elapsed = 0
  /\ pc # "handler" => expired = NoTimer

IInv ==
  /\ TypeOK
  /\ Between
  /\ NeverEarly
  /\ NeverLate

Remaining(t) == Left(timers, timeout, t)

(* What the invariant says of the list, in the terms of the lemmas.        *)
LEMMA RunningLeft ==
  /\ Running = Elements(timers)
  /\ \A t : SYS_TimerRemainingTimeout(t) = Remaining(t)
BY DEF Running, Elements, SYS_TimerRemainingTimeout, Remaining, Left

LEMMA RunningLeftNext ==
  /\ Running' = Elements(timers')
  /\ \A t : SYS_TimerRemainingTimeout(t)' = Left(timers', timeout', t)
BY DEF Running, Elements, SYS_TimerRemainingTimeout, Left

LEMMA ListOfTimers == TypeOK => List(timers, timeout)
BY DEF TypeOK, List

LEMMA RunningAreTimers == TypeOK => Elements(timers) \subseteq Timer
BY DEF TypeOK, Elements

(* The bounds in numbers.                                                  *)
LEMMA Numbers ==
  ASSUME TypeOK
  PROVE  /\ Tick \in Nat /\ Tick > 0
         /\ pending * Tick \in 0 .. PendingMax * Tick
         /\ PendingMax * Tick \in Nat
         /\ elapsed \in 0 .. PendingMax * Tick
         /\ Unaccounted \in Nat
         /\ Unaccounted = pending * Tick + elapsed
         /\ \A n \in 0 .. PendingMax : n * Tick \in 0 .. PendingMax * Tick
         /\ LateMax = PendingMax * Tick + PendingMax * Tick
<1>1. /\ Tick \in Nat /\ Tick > 0 /\ PendingMax \in Nat
      /\ pending \in 0 .. PendingMax /\ elapsed \in 0 .. PendingMax * Tick
  BY TimerAssumption DEF TypeOK
<1>2. ASSUME NEW n \in 0 .. PendingMax
      PROVE  n * Tick \in 0 .. PendingMax * Tick
  <2>1. n * Tick \in Nat /\ PendingMax * Tick \in Nat
    BY <1>1
  <2>2. (PendingMax - n) * Tick >= 0
    BY <1>1
  <2>3. (PendingMax - n) * Tick = PendingMax * Tick - n * Tick
    BY <1>1
  <2> QED
    BY <2>1, <2>2, <2>3
<1>3. PendingMax * Tick \in Nat
  BY <1>1
<1>4. LateMax = PendingMax * Tick + PendingMax * Tick
  BY <1>1 DEF LateMax
<1>5. pending * Tick \in 0 .. PendingMax * Tick
  BY <1>1, <1>2
<1>6. Unaccounted = pending * Tick + elapsed
  BY DEF Unaccounted
<1>7. Unaccounted \in Nat
  BY <1>1, <1>3, <1>5, <1>6
<1> QED
  BY <1>1, <1>2, <1>3, <1>4, <1>5, <1>6, <1>7

LEMMA InitInv == Init => IInv
<1> SUFFICES ASSUME Init PROVE IInv
  OBVIOUS
<1> USE DEF Init
<1>1. Interval \subseteq Nat /\ PendingMax \in Nat /\ Tick \in Nat /\ SleepMax \in Nat
  BY TimerAssumption
<1>2. Len(timers) = 0 /\ timers \in Seq(Timer)
  OBVIOUS
<1>3. 0 \in 0 .. PendingMax * Tick /\ 0 \in 0 .. PendingMax /\ 0 \in 0 .. SleepMax
  BY <1>1
<1>4. TypeOK
  <2>1. \A m, n \in 1 .. Len(timers) : timers[m] = timers[n] => m = n
    BY <1>2
  <2>2. timeout \in [Timer -> Nat] /\ due \in [Timer -> Int]
    OBVIOUS
  <2> QED
    BY <1>2, <1>3, <2>1, <2>2 DEF TypeOK
<1>5. Running = {}
  BY <1>2 DEF Running
<1> QED
  BY <1>4, <1>5 DEF IInv, Between, NeverEarly, NeverLate

(* The invariant, timer by timer.                                          *)
LEMMA Agreement ==
  ASSUME IInv
  PROVE  /\ List(timers, timeout)
         /\ Elements(timers) \subseteq Timer
         /\ \A t : Remaining(t) \in Nat
         /\ due \in [Timer -> Int]
         /\ \A t \in Elements(timers) :
              /\ due[t] \in Int
              /\ due[t] + Unaccounted <= Remaining(t)
              /\ sleeps = 0 => Remaining(t) <= due[t] + Unaccounted
<1>1. TypeOK /\ NeverEarly /\ NeverLate
  BY DEF IInv
<1>2. List(timers, timeout) /\ Elements(timers) \subseteq Timer
  BY <1>1, ListOfTimers, RunningAreTimers
<1>3. \A t : Remaining(t) \in Nat
  BY <1>2, LeftIsNat DEF Remaining
<1>4. due \in [Timer -> Int]
  BY <1>1 DEF TypeOK
<1>5. Unaccounted \in Nat
  BY <1>1, Numbers
<1>6. ASSUME NEW t \in Elements(timers)
      PROVE  /\ due[t] \in Int
             /\ due[t] + Unaccounted <= Remaining(t)
             /\ sleeps = 0 => Remaining(t) <= due[t] + Unaccounted
  <2>1. due[t] \in Int
    BY <1>2, <1>4
  <2>2. SYS_TimerRemainingTimeout(t) = Remaining(t) /\ t \in Running
    BY RunningLeft
  <2>3. Remaining(t) >= due[t] + Unaccounted
    BY <1>1, <2>2 DEF NeverEarly
  <2>4. sleeps = 0 => Remaining(t) <= due[t] + Unaccounted
    BY <1>1, <2>2 DEF NeverLate
  <2>5. Remaining(t) \in Nat
    BY <1>3
  <2> QED
    BY <1>5, <2>1, <2>3, <2>4, <2>5
<1> QED
  BY <1>2, <1>3, <1>4, <1>6

LEMMA AgreementNext ==
  ASSUME List(timers', timeout'),
         interval' \in [Timer -> Interval],
         pending' \in 0 .. PendingMax,
         elapsed' \in 0 .. PendingMax * Tick,
         pc' \in {"main", "loop", "handler"},
         expired' \in Timer \union {NoTimer},
         sleeps' \in 0 .. SleepMax,
         due' \in [Timer -> Int],
         Between',
         \A t \in Elements(timers') :
           /\ Left(timers', timeout', t) >= due'[t] + Unaccounted'
           /\ sleeps' = 0 => Left(timers', timeout', t) <= due'[t] + Unaccounted'
  PROVE  IInv'
<1>1. TypeOK'
  BY DEF TypeOK, List
<1>2. NeverEarly'
  BY <1>1, RunningLeftNext DEF NeverEarly
<1>3. NeverLate'
  BY RunningLeftNext DEF NeverLate
<1> QED
  BY <1>1, <1>2, <1>3 DEF IInv

----------------------------------------------------------------------------
(* What each action does to the time that is left.                         *)

LEMMA StartEffect ==
  ASSUME IInv, NEW t \in Timer, NEW i \in Interval, SYS_TimerStart(t, i)
  PROVE  /\ i \in Nat
         /\ List(timers', timeout')
         /\ Elements(timers') = Elements(timers) \union {t}
         /\ \A u \in Elements(timers) : Left(timers', timeout', u) = Remaining(u)
         /\ t \notin Elements(timers) => Left(timers', timeout', t) = i
<1>1. i \in Nat
  BY TimerAssumption
<1>2. List(timers, timeout)
  BY Agreement
<1>3. CASE t \in Elements(timers)
  <2>1. timers' = timers /\ timeout' = timeout
    BY <1>3, RunningLeft DEF SYS_TimerStart, SYS_TimerStarted, list
  <2> QED
    BY <1>1, <1>2, <1>3, <2>1 DEF Remaining
<1>4. CASE t \notin Elements(timers)
  <2>1. /\ timers' = Inserted(timers, timeout, t, i)
        /\ timeout' = TimeoutsWith(timers, timeout, t, i)
    BY <1>4, RunningLeft DEF SYS_TimerStart, SYS_TimerStarted
  <2> QED
    BY <1>1, <1>2, <1>4, <2>1, InsertKeeps DEF Remaining
<1> QED
  BY <1>3, <1>4

LEMMA StopEffect ==
  ASSUME IInv, NEW t \in Timer, SYS_TimerStop(t)
  PROVE  /\ t \in Elements(timers)
         /\ List(timers', timeout')
         /\ Elements(timers') = Elements(timers) \ {t}
         /\ \A u \in Elements(timers') : Left(timers', timeout', u) = Remaining(u)
<1>1. List(timers, timeout)
  BY Agreement
<1>2. /\ t \in Elements(timers)
      /\ timers' = Without(timers, t)
      /\ timeout' = TimeoutsWithout(timers, timeout, t)
  BY RunningLeft DEF SYS_TimerStop
<1> QED
  BY <1>1, <1>2, StopKeeps DEF Remaining

LEMMA ExpireEffect ==
  ASSUME IInv, Expire
  PROVE  LET t == Head(timers)
         IN  /\ t \in Elements(timers)
             /\ Remaining(t) = timeout[t]
             /\ Remaining(t) <= elapsed
             /\ \A u \in Elements(timers) : Remaining(t) <= Remaining(u)
             /\ elapsed' = elapsed - Remaining(t)
             /\ expired' = t
             /\ List(timers', timeout')
             /\ Elements(timers') =
                  IF t \in Periodic THEN Elements(timers) ELSE Elements(timers) \ {t}
             /\ \A u \in Elements(timers) \ {t} :
                  Left(timers', timeout', u) = Remaining(u) - Remaining(t)
             /\ t \in Periodic => Left(timers', timeout', t) = interval[t]
<1> DEFINE t == Head(timers)
           ts == Tail(timers)
<1>1. List(timers, timeout) /\ timers # <<>> /\ timeout[t] <= elapsed
  BY Agreement DEF Expire, HeadIsDue
<1>2. /\ t \in Elements(timers) /\ t \in Timer
      /\ Remaining(t) = timeout[t]
      /\ \A u \in Elements(timers) : timeout[t] <= Remaining(u)
  BY <1>1, HeadIsFirst DEF Remaining
<1>3. /\ List(ts, timeout)
      /\ Elements(ts) = Elements(timers) \ {t}
      /\ \A u \in Elements(timers) \ {t} : Left(ts, timeout, u) = Remaining(u) - Remaining(t)
  BY <1>1, <1>2, TailKeeps DEF Remaining
<1>4. elapsed' = elapsed - Remaining(t) /\ expired' = t
  BY <1>2 DEF Expire, RestAfter
<1>5. interval[t] \in Nat
  BY <1>2, TimerAssumption DEF IInv, TypeOK
<1>6. CASE t \in Periodic
  <2>1. /\ timers' = Inserted(ts, timeout, t, interval[t])
        /\ timeout' = TimeoutsWith(ts, timeout, t, interval[t])
    BY <1>6 DEF Expire
  <2> HIDE DEF t, ts
  <2>2. t \notin Elements(ts)
    BY <1>3
  <2>3. /\ List(timers', timeout')
        /\ Elements(timers') = Elements(ts) \union {t}
        /\ Left(timers', timeout', t) = interval[t]
        /\ \A u \in Elements(ts) : Left(timers', timeout', u) = Left(ts, timeout, u)
    BY <1>2, <1>3, <1>5, <2>1, <2>2, InsertKeeps
  <2>4. Elements(timers') = Elements(timers)
    BY <1>2, <1>3, <2>3
  <2> QED
    BY <1>1, <1>2, <1>3, <1>4, <1>6, <2>3, <2>4 DEF t
<1>7. CASE t \notin Periodic
  <2>1. timers' = ts /\ timeout' = timeout
    BY <1>7 DEF Expire
  <2> HIDE DEF ts
  <2> QED
    BY <1>1, <1>2, <1>3, <1>4, <1>7, <2>1
<1> QED
  BY <1>6, <1>7

LEMMA EndEffect ==
  ASSUME IInv, EndTask
  PROVE  /\ List(timers', timeout')
         /\ timers' = timers
         /\ \A u \in Elements(timers) :
              /\ elapsed < Remaining(u)
              /\ Left(timers', timeout', u) = Remaining(u) - elapsed
<1>1. List(timers, timeout) /\ TypeOK
  BY Agreement DEF IInv
<1>2. elapsed \in Nat /\ timeout \in [Timer -> Nat]
  BY <1>1, Numbers DEF TypeOK
<1>3. /\ timers' = timers
      /\ timers # <<>> => ~ (timeout[Head(timers)] <= elapsed)
      /\ timeout' = [t \in Timer |-> IF timers # <<>> /\ t = Head(timers)
                                   THEN timeout[Head(timers)] - elapsed
                                   ELSE timeout[t]]
  BY DEF EndTask, HeadIsDue, HeadTimeout
<1>4. timers # <<>> => Head(timers) \in Timer /\ timeout[Head(timers)] \in Nat
  BY <1>1, <1>2, HeadIsFirst
<1>5. timers # <<>> => elapsed <= timeout[Head(timers)]
  BY <1>2, <1>3, <1>4
<1>6. /\ List(timers, timeout')
      /\ \A u \in Elements(timers) : Left(timers, timeout', u) = Remaining(u) - elapsed
  BY <1>1, <1>2, <1>3, <1>5, RestKeeps DEF Remaining
<1>7. ASSUME NEW u \in Elements(timers) PROVE elapsed < Remaining(u)
  <2>1. timers # <<>>
    BY DEF Elements
  <2>2. timeout[Head(timers)] <= Remaining(u) /\ Remaining(u) \in Nat
    BY <1>1, <2>1, HeadIsFirst, LeftIsNat DEF Remaining
  <2> QED
    BY <1>2, <1>3, <1>4, <2>1, <2>2
<1> QED
  BY <1>3, <1>6, <1>7

----------------------------------------------------------------------------
(* Every action keeps the invariant.                                       *)

LEMMA StartKeeps ==
  ASSUME IInv, NEW t \in Timer, NEW i \in Interval, SYS_TimerStart(t, i)
  PROVE  IInv'
<1>1. TypeOK /\ Between
  BY DEF IInv
<1>2. /\ i \in Nat
      /\ List(timers', timeout')
      /\ Elements(timers') = Elements(timers) \union {t}
      /\ \A u \in Elements(timers) : Left(timers', timeout', u) = Remaining(u)
      /\ t \notin Elements(timers) => Left(timers', timeout', t) = i
  BY StartEffect
<1>3. Unaccounted \in Nat
  BY <1>1, Numbers
<1>4. /\ sleeps' = sleeps /\ pending' = pending /\ elapsed' = elapsed
      /\ pc' = pc /\ expired' = expired
      /\ interval' = [interval EXCEPT ![t] = i]
  BY DEF SYS_TimerStart
<1>5. Unaccounted' = Unaccounted
  BY <1>4 DEF Unaccounted
<1>6. /\ t \in Elements(timers) => due' = due
      /\ t \notin Elements(timers) => due' = [due EXCEPT ![t] = i - Unaccounted]
  BY RunningLeft DEF SYS_TimerStart, SYS_TimerStarted, list
<1>7. due' \in [Timer -> Int]
  BY <1>2, <1>3, <1>6, Agreement
<1>8. ASSUME NEW u \in Elements(timers')
      PROVE  /\ Left(timers', timeout', u) >= due'[u] + Unaccounted'
             /\ sleeps' = 0 => Left(timers', timeout', u) <= due'[u] + Unaccounted'
  <2>1. CASE u \in Elements(timers)
    <3>1. due'[u] = due[u]
      BY <1>6, <2>1, Agreement
    <3>2. Left(timers', timeout', u) = Remaining(u)
      BY <1>2, <2>1
    <3>3. /\ due[u] \in Int /\ Remaining(u) \in Nat
          /\ due[u] + Unaccounted <= Remaining(u)
          /\ sleeps = 0 => Remaining(u) <= due[u] + Unaccounted
      BY <2>1, Agreement
    <3> QED
      BY <1>3, <1>4, <1>5, <3>1, <3>2, <3>3
  <2>2. CASE u \notin Elements(timers)
    <3>1. u = t
      BY <1>2, <2>2
    <3>2. due'[u] = i - Unaccounted
      BY <1>6, <2>2, <3>1, Agreement
    <3> QED
      BY <1>2, <1>3, <1>5, <2>2, <3>1, <3>2
  <2> QED
    BY <2>1, <2>2
<1>9. interval' \in [Timer -> Interval]
  BY <1>1, <1>4 DEF TypeOK
<1>10. /\ pending' \in 0 .. PendingMax /\ elapsed' \in 0 .. PendingMax * Tick
       /\ pc' \in {"main", "loop", "handler"} /\ expired' \in Timer \union {NoTimer}
       /\ sleeps' \in 0 .. SleepMax /\ Between'
  BY <1>1, <1>4 DEF TypeOK, Between
<1> QED
  BY <1>2, <1>7, <1>8, <1>9, <1>10, AgreementNext

LEMMA StopKeepsInv ==
  ASSUME IInv, NEW t \in Timer, SYS_TimerStop(t)
  PROVE  IInv'
<1>1. TypeOK /\ Between
  BY DEF IInv
<1>2. /\ List(timers', timeout')
      /\ Elements(timers') = Elements(timers) \ {t}
      /\ \A u \in Elements(timers') : Left(timers', timeout', u) = Remaining(u)
  BY StopEffect
<1>3. /\ sleeps' = sleeps /\ pending' = pending /\ elapsed' = elapsed
      /\ pc' = pc /\ expired' = expired /\ interval' = interval
      /\ due' = [due EXCEPT ![t] = 0]
  BY DEF SYS_TimerStop, config
<1>4. Unaccounted' = Unaccounted
  BY <1>3 DEF Unaccounted
<1>5. due' \in [Timer -> Int]
  BY <1>3, Agreement
<1>6. ASSUME NEW u \in Elements(timers')
      PROVE  /\ Left(timers', timeout', u) >= due'[u] + Unaccounted'
             /\ sleeps' = 0 => Left(timers', timeout', u) <= due'[u] + Unaccounted'
  <2>1. u \in Elements(timers) /\ u # t
    BY <1>2
  <2>2. due'[u] = due[u]
    BY <1>3, <2>1, Agreement
  <2>3. Unaccounted \in Nat
    BY <1>1, Numbers
  <2>4. /\ due[u] \in Int /\ Remaining(u) \in Nat
        /\ due[u] + Unaccounted <= Remaining(u)
        /\ sleeps = 0 => Remaining(u) <= due[u] + Unaccounted
    BY <2>1, Agreement
  <2> QED
    BY <1>2, <1>3, <1>4, <2>2, <2>3, <2>4
<1>7. /\ pending' \in 0 .. PendingMax /\ elapsed' \in 0 .. PendingMax * Tick
      /\ pc' \in {"main", "loop", "handler"} /\ expired' \in Timer \union {NoTimer}
      /\ sleeps' \in 0 .. SleepMax /\ Between' /\ interval' \in [Timer -> Interval]
  BY <1>1, <1>3 DEF TypeOK, Between
<1> QED
  BY <1>2, <1>5, <1>6, <1>7, AgreementNext

(* Real time passes: at the bound for how late a timer may be said to be,  *)
(* the ticks that wait are still fewer.                                    *)
LEMMA TimePasses ==
  ASSUME IInv, NEW time \in Nat, NEW u \in Elements(timers)
  PROVE  /\ DueAfter(time)[u] \in Int
         /\ DueAfter(time)[u] >= due[u] - time
         /\ DueAfter(time)[u] = due[u] - time \/ DueAfter(time)[u] = -LateMax
<1>1. u \in Timer /\ u \in Running /\ due[u] \in Int
  BY Agreement, RunningLeft
<1>2. LateMax \in Nat
  BY Numbers DEF IInv
<1>3. DueAfter(time)[u] =
        IF due[u] - time < -LateMax THEN -LateMax ELSE due[u] - time
  BY <1>1 DEF DueAfter
<1> QED
  BY <1>1, <1>2, <1>3

LEMMA DueAfterType ==
  ASSUME IInv, NEW time \in Nat
  PROVE  DueAfter(time) \in [Timer -> Int]
<1>1. LateMax \in Nat
  BY Numbers DEF IInv
<1>2. due \in [Timer -> Int]
  BY Agreement
<1>3. ASSUME NEW u \in Timer
      PROVE  (IF u \notin Running THEN 0
              ELSE IF due[u] - time < -LateMax THEN -LateMax ELSE due[u] - time) \in Int
  BY <1>1, <1>2
<1> QED
  BY <1>3 DEF DueAfter

LEMMA TickKeeps ==
  ASSUME IInv, SYS_HwExpiry_Cb
  PROVE  IInv'
<1>1. TypeOK /\ Between
  BY DEF IInv
<1>2. /\ timers' = timers /\ timeout' = timeout /\ sleeps' = sleeps
      /\ pending' = pending + 1 /\ elapsed' = elapsed
      /\ pc' = pc /\ expired' = expired /\ interval' = interval
      /\ due' = DueAfter(Tick) /\ pending < PendingMax
  BY DEF SYS_HwExpiry_Cb, config
<1>3. /\ Tick \in Nat /\ PendingMax * Tick \in Nat /\ pending * Tick \in Nat
      /\ elapsed \in 0 .. PendingMax * Tick /\ Unaccounted = pending * Tick + elapsed
      /\ LateMax = PendingMax * Tick + PendingMax * Tick
      /\ \A n \in 0 .. PendingMax : n * Tick \in 0 .. PendingMax * Tick
  BY <1>1, Numbers
<1>4. pending \in Nat /\ PendingMax \in Nat /\ pending + 1 \in 0 .. PendingMax
  BY <1>1, <1>2, TimerAssumption DEF TypeOK
<1>5. /\ (pending + 1) * Tick = pending * Tick + Tick
      /\ pending * Tick + Tick <= PendingMax * Tick
  <2>1. (pending + 1) * Tick = pending * Tick + Tick
    BY <1>3, <1>4
  <2>2. (pending + 1) * Tick \in 0 .. PendingMax * Tick
    BY <1>3, <1>4
  <2> QED
    BY <1>3, <2>1, <2>2
<1>6. Unaccounted' = (pending * Tick + Tick) + elapsed
  BY <1>2, <1>5 DEF Unaccounted
<1>7. List(timers', timeout') /\ \A u : Left(timers', timeout', u) = Remaining(u)
  BY <1>2, Agreement DEF Remaining
<1>8. due' \in [Timer -> Int]
  BY <1>2, <1>3, DueAfterType
<1>9. ASSUME NEW u \in Elements(timers')
      PROVE  /\ Left(timers', timeout', u) >= due'[u] + Unaccounted'
             /\ sleeps' = 0 => Left(timers', timeout', u) <= due'[u] + Unaccounted'
  <2>1. u \in Elements(timers)
    BY <1>2
  <2>2. /\ due'[u] \in Int /\ due'[u] >= due[u] - Tick
        /\ due'[u] = due[u] - Tick \/ due'[u] = -LateMax
    BY <1>2, <1>3, <2>1, TimePasses
  <2>3. /\ due[u] \in Int /\ Remaining(u) \in Nat
        /\ due[u] + Unaccounted <= Remaining(u)
        /\ sleeps = 0 => Remaining(u) <= due[u] + Unaccounted
    BY <2>1, Agreement
  <2> DEFINE pt == pending * Tick
             mt == PendingMax * Tick
  <2>4. /\ pt \in Nat /\ mt \in Nat /\ pt + Tick <= mt /\ elapsed \in 0 .. mt
        /\ LateMax = mt + mt /\ Unaccounted = pt + elapsed
        /\ Unaccounted' = (pt + Tick) + elapsed /\ Tick \in Nat
    BY <1>3, <1>5, <1>6
  <2> HIDE DEF pt, mt
  <2>5. Remaining(u) >= due'[u] + Unaccounted'
    BY <2>2, <2>3, <2>4
  <2>6. sleeps = 0 => Remaining(u) <= due'[u] + Unaccounted'
    BY <2>2, <2>3, <2>4
  <2> QED
    BY <1>2, <1>7, <2>5, <2>6
<1>10. /\ pending' \in 0 .. PendingMax /\ elapsed' \in 0 .. PendingMax * Tick
       /\ pc' \in {"main", "loop", "handler"} /\ expired' \in Timer \union {NoTimer}
       /\ sleeps' \in 0 .. SleepMax /\ Between' /\ interval' \in [Timer -> Interval]
  BY <1>1, <1>2, <1>4 DEF TypeOK, Between
<1> QED
  BY <1>7, <1>8, <1>9, <1>10, AgreementNext

LEMMA SleepKeeps ==
  ASSUME IInv, NEW n \in 0 .. PendingMax, SYS_TimerAdjust_SleptTime(n)
  PROVE  IInv'
<1>1. TypeOK /\ Between
  BY DEF IInv
<1>2. /\ timers' = timers /\ timeout' = timeout /\ sleeps' = sleeps + 1
      /\ pending' = n /\ elapsed' = elapsed /\ sleeps < SleepMax
      /\ pc' = pc /\ expired' = expired /\ interval' = interval
      /\ due' = DueAfter(n * Tick) /\ pc = "main"
  BY DEF SYS_TimerAdjust_SleptTime
<1>3. /\ PendingMax * Tick \in Nat /\ n * Tick \in 0 .. PendingMax * Tick
      /\ LateMax = PendingMax * Tick + PendingMax * Tick
      /\ Unaccounted \in Nat
  BY <1>1, Numbers
<1>4. elapsed = 0
  BY <1>1, <1>2 DEF Between
<1>5. Unaccounted' = n * Tick
  BY <1>2, <1>3, <1>4 DEF Unaccounted
<1>6. List(timers', timeout') /\ \A u : Left(timers', timeout', u) = Remaining(u)
  BY <1>2, Agreement DEF Remaining
<1> DEFINE nt == n * Tick
           mt == PendingMax * Tick
<1>7. /\ nt \in Nat /\ mt \in Nat /\ nt <= mt /\ LateMax = mt + mt
      /\ Unaccounted' = nt /\ due' = DueAfter(nt)
  BY <1>2, <1>3, <1>5
<1> HIDE DEF nt, mt
<1>8. due' \in [Timer -> Int]
  BY <1>7, DueAfterType
<1>9. sleeps' # 0 /\ sleeps' \in 0 .. SleepMax
  BY <1>1, <1>2, TimerAssumption DEF TypeOK
<1>10. ASSUME NEW u \in Elements(timers')
       PROVE  /\ Left(timers', timeout', u) >= due'[u] + Unaccounted'
              /\ sleeps' = 0 => Left(timers', timeout', u) <= due'[u] + Unaccounted'
  <2>1. u \in Elements(timers)
    BY <1>2
  <2>2. /\ due'[u] \in Int
        /\ due'[u] = due[u] - nt \/ due'[u] = -LateMax
    BY <1>7, <2>1, TimePasses
  <2>3. /\ due[u] \in Int /\ Remaining(u) \in Nat
        /\ due[u] + Unaccounted <= Remaining(u)
    BY <2>1, Agreement
  <2>4. Remaining(u) >= due'[u] + Unaccounted'
    BY <1>3, <1>7, <2>2, <2>3
  <2> QED
    BY <1>6, <1>9, <2>4
<1>11. /\ pending' \in 0 .. PendingMax /\ elapsed' \in 0 .. PendingMax * Tick
       /\ pc' \in {"main", "loop", "handler"} /\ expired' \in Timer \union {NoTimer}
       /\ Between' /\ interval' \in [Timer -> Interval]
  BY <1>1, <1>2 DEF TypeOK, Between
<1> QED
  BY <1>6, <1>8, <1>9, <1>10, <1>11, AgreementNext

LEMMA TakeKeeps ==
  ASSUME IInv, TakeTicks
  PROVE  IInv'
<1>1. TypeOK /\ Between
  BY DEF IInv
<1>2. /\ timers' = timers /\ timeout' = timeout /\ due' = due /\ sleeps' = sleeps
      /\ pending' = 0 /\ elapsed' = pending * Tick /\ pc = "main" /\ pc' = "loop"
      /\ expired' = expired /\ interval' = interval
  BY DEF TakeTicks, list, config
<1>3. /\ pending * Tick \in 0 .. PendingMax * Tick /\ Tick \in Nat
      /\ Unaccounted = pending * Tick + elapsed
  BY <1>1, Numbers
<1>4. elapsed = 0 /\ 0 * Tick = 0
  BY <1>1, <1>2, <1>3 DEF Between
<1>5. Unaccounted' = Unaccounted
  BY <1>2, <1>3, <1>4 DEF Unaccounted
<1>6. /\ pending' \in 0 .. PendingMax /\ elapsed' \in 0 .. PendingMax * Tick
      /\ pc' \in {"main", "loop", "handler"} /\ expired' \in Timer \union {NoTimer}
      /\ sleeps' \in 0 .. SleepMax /\ Between' /\ interval' \in [Timer -> Interval]
  BY <1>1, <1>2, <1>3, TimerAssumption DEF TypeOK, Between
<1>7. /\ List(timers', timeout') /\ due' \in [Timer -> Int]
      /\ \A u : Left(timers', timeout', u) = Remaining(u)
  BY <1>2, Agreement DEF Remaining
<1>8. ASSUME NEW u \in Elements(timers')
      PROVE  /\ Left(timers', timeout', u) >= due'[u] + Unaccounted'
             /\ sleeps' = 0 => Left(timers', timeout', u) <= due'[u] + Unaccounted'
  <2>1. Unaccounted \in Nat
    BY <1>1, Numbers
  <2>2. /\ due[u] \in Int /\ Remaining(u) \in Nat
        /\ due[u] + Unaccounted <= Remaining(u)
        /\ sleeps = 0 => Remaining(u) <= due[u] + Unaccounted
    BY <1>2, Agreement
  <2> QED
    BY <1>2, <1>5, <1>7, <2>1, <2>2
<1> QED
  BY <1>6, <1>7, <1>8, AgreementNext

LEMMA ExpireKeeps ==
  ASSUME IInv, Expire
  PROVE  IInv'
<1> DEFINE t == Head(timers)
<1>1. TypeOK /\ Between
  BY DEF IInv
<1>2. /\ t \in Elements(timers) /\ t \in Timer
      /\ Remaining(t) <= elapsed
      /\ elapsed' = elapsed - Remaining(t)
      /\ expired' = t
      /\ List(timers', timeout')
      /\ Elements(timers') =
           IF t \in Periodic THEN Elements(timers) ELSE Elements(timers) \ {t}
      /\ \A u \in Elements(timers) \ {t} :
           Left(timers', timeout', u) = Remaining(u) - Remaining(t)
      /\ t \in Periodic => Left(timers', timeout', t) = interval[t]
  BY ExpireEffect, Agreement
<1>3. /\ sleeps' = sleeps /\ pending' = pending /\ pc' = "handler" /\ interval' = interval
      /\ due' = [due EXCEPT ![t] = IF t \in Periodic
                                 THEN interval[t] - (pending * Tick + elapsed')
                                 ELSE 0]
  BY DEF Expire, config
<1> HIDE DEF t
<1>4. /\ Remaining(t) \in Nat /\ interval[t] \in Nat
      /\ pending * Tick \in Nat /\ elapsed \in 0 .. PendingMax * Tick
      /\ PendingMax * Tick \in Nat
      /\ Unaccounted = pending * Tick + elapsed
  <2>1. interval[t] \in Nat
    BY <1>1, <1>2, TimerAssumption DEF TypeOK
  <2> QED
    BY <1>1, <2>1, Numbers, Agreement
<1>5. /\ Unaccounted' = pending * Tick + elapsed'
      /\ Unaccounted' = Unaccounted - Remaining(t)
      /\ elapsed' \in Nat /\ elapsed' \in 0 .. PendingMax * Tick
      /\ Unaccounted \in Nat /\ Unaccounted' \in Nat
  <2>1. Unaccounted' = pending * Tick + elapsed'
    BY <1>3 DEF Unaccounted
  <2> QED
    BY <1>2, <1>4, <2>1
<1>6. due' = [due EXCEPT ![t] = IF t \in Periodic THEN interval[t] - Unaccounted' ELSE 0]
  BY <1>3, <1>5
<1>7. due' \in [Timer -> Int]
  <2>1. (IF t \in Periodic THEN interval[t] - Unaccounted' ELSE 0) \in Int
    BY <1>4, <1>5
  <2> QED
    BY <1>6, <2>1, Agreement
<1>8. ASSUME NEW u \in Elements(timers')
      PROVE  /\ Left(timers', timeout', u) >= due'[u] + Unaccounted'
             /\ sleeps' = 0 => Left(timers', timeout', u) <= due'[u] + Unaccounted'
  <2>1. CASE u = t
    <3>1. t \in Periodic
      BY <1>2, <2>1
    <3>2. due'[t] = interval[t] - Unaccounted'
      BY <1>2, <1>6, <3>1, Agreement
    <3> QED
      BY <1>2, <1>4, <1>5, <2>1, <3>1, <3>2
  <2>2. CASE u # t
    <3>1. u \in Elements(timers)
      BY <1>2
    <3>2. due'[u] = due[u]
      BY <1>6, <2>2, <3>1, Agreement
    <3>3. /\ due[u] \in Int /\ Remaining(u) \in Nat
          /\ due[u] + Unaccounted <= Remaining(u)
          /\ sleeps = 0 => Remaining(u) <= due[u] + Unaccounted
      BY <3>1, Agreement
    <3>4. Left(timers', timeout', u) = Remaining(u) - Remaining(t)
      BY <1>2, <2>2, <3>1
    <3> QED
      BY <1>3, <1>4, <1>5, <3>2, <3>3, <3>4
  <2> QED
    BY <2>1, <2>2
<1>9. /\ pending' \in 0 .. PendingMax /\ elapsed' \in 0 .. PendingMax * Tick
      /\ pc' \in {"main", "loop", "handler"} /\ expired' \in Timer \union {NoTimer}
      /\ sleeps' \in 0 .. SleepMax /\ Between' /\ interval' \in [Timer -> Interval]
  BY <1>1, <1>2, <1>3, <1>5 DEF TypeOK, Between
<1> QED
  BY <1>2, <1>7, <1>8, <1>9, AgreementNext

LEMMA ReturnKeeps ==
  ASSUME IInv, HandlerReturns
  PROVE  IInv'
<1>1. TypeOK /\ Between
  BY DEF IInv
<1>2. /\ timers' = timers /\ timeout' = timeout /\ due' = due /\ sleeps' = sleeps
      /\ pending' = pending /\ elapsed' = elapsed /\ pc' = "loop"
      /\ expired' = NoTimer /\ interval' = interval
  BY DEF HandlerReturns, list, config
<1>3. Unaccounted' = Unaccounted
  BY <1>2 DEF Unaccounted
<1>4. /\ pending' \in 0 .. PendingMax /\ elapsed' \in 0 .. PendingMax * Tick
      /\ pc' \in {"main", "loop", "handler"} /\ expired' \in Timer \union {NoTimer}
      /\ sleeps' \in 0 .. SleepMax /\ Between' /\ interval' \in [Timer -> Interval]
  BY <1>1, <1>2 DEF TypeOK, Between
<1>5. /\ List(timers', timeout') /\ due' \in [Timer -> Int]
      /\ \A u : Left(timers', timeout', u) = Remaining(u)
  BY <1>2, Agreement DEF Remaining
<1>6. ASSUME NEW u \in Elements(timers')
      PROVE  /\ Left(timers', timeout', u) >= due'[u] + Unaccounted'
             /\ sleeps' = 0 => Left(timers', timeout', u) <= due'[u] + Unaccounted'
  <2>1. Unaccounted \in Nat
    BY <1>1, Numbers
  <2>2. /\ due[u] \in Int /\ Remaining(u) \in Nat
        /\ due[u] + Unaccounted <= Remaining(u)
        /\ sleeps = 0 => Remaining(u) <= due[u] + Unaccounted
    BY <1>2, Agreement
  <2> QED
    BY <1>2, <1>3, <1>5, <2>1, <2>2
<1> QED
  BY <1>4, <1>5, <1>6, AgreementNext

LEMMA EndKeeps ==
  ASSUME IInv, EndTask
  PROVE  IInv'
<1>1. TypeOK /\ Between
  BY DEF IInv
<1>2. /\ due' = due /\ sleeps' = sleeps
      /\ pending' = pending /\ elapsed' = 0 /\ pc = "loop" /\ pc' = "main"
      /\ expired' = expired /\ interval' = interval
  BY DEF EndTask, config
<1>3. /\ List(timers', timeout') /\ timers' = timers
      /\ \A u \in Elements(timers) : Left(timers', timeout', u) = Remaining(u) - elapsed
  BY EndEffect
<1>4. /\ pending * Tick \in Nat /\ elapsed \in Nat /\ PendingMax * Tick \in Nat
      /\ Unaccounted = pending * Tick + elapsed
  BY <1>1, Numbers
<1>5. Unaccounted' = pending * Tick + 0
  BY <1>2 DEF Unaccounted
<1>6. /\ pending' \in 0 .. PendingMax /\ elapsed' \in 0 .. PendingMax * Tick
      /\ pc' \in {"main", "loop", "handler"} /\ expired' \in Timer \union {NoTimer}
      /\ sleeps' \in 0 .. SleepMax /\ Between' /\ interval' \in [Timer -> Interval]
  BY <1>1, <1>2, <1>4 DEF TypeOK, Between
<1>7. due' \in [Timer -> Int]
  BY <1>2, Agreement
<1>8. ASSUME NEW u \in Elements(timers')
      PROVE  /\ Left(timers', timeout', u) >= due'[u] + Unaccounted'
             /\ sleeps' = 0 => Left(timers', timeout', u) <= due'[u] + Unaccounted'
  <2>1. /\ due[u] \in Int /\ Remaining(u) \in Nat
        /\ due[u] + Unaccounted <= Remaining(u)
        /\ sleeps = 0 => Remaining(u) <= due[u] + Unaccounted
        /\ Left(timers', timeout', u) = Remaining(u) - elapsed
    BY <1>3, Agreement
  <2> QED
    BY <1>2, <1>4, <1>5, <2>1
<1> QED
  BY <1>3, <1>6, <1>7, <1>8, AgreementNext

LEMMA StutterKeeps ==
  ASSUME IInv, UNCHANGED vars
  PROVE  IInv'
<1>1. TypeOK' /\ Between' /\ NeverEarly' /\ NeverLate'
  <2>1. /\ timers' = timers /\ timeout' = timeout /\ due' = due
        /\ interval' = interval /\ sleeps' = sleeps /\ pending' = pending
        /\ elapsed' = elapsed /\ pc' = pc /\ expired' = expired
    BY DEF vars, list, config
  <2>2. Unaccounted' = Unaccounted /\ Running' = Running
        /\ \A t : SYS_TimerRemainingTimeout(t)' = SYS_TimerRemainingTimeout(t)
    BY <2>1, RunningLeft, RunningLeftNext DEF Unaccounted, Remaining
  <2>3. TypeOK'
    BY <2>1 DEF IInv, TypeOK
  <2>4. Between'
    BY <2>1 DEF IInv, Between
  <2>5. NeverEarly'
    BY <2>1, <2>2, <2>3 DEF IInv, NeverEarly
  <2>6. NeverLate'
    BY <2>1, <2>2 DEF IInv, NeverLate
  <2> QED
    BY <2>3, <2>4, <2>5, <2>6
<1> QED
  BY <1>1 DEF IInv

LEMMA NextKeeps == IInv /\ [Next]_vars => IInv'
<1> SUFFICES ASSUME IInv, [Next]_vars PROVE IInv'
  OBVIOUS
<1>1. CASE \E t \in Timer, i \in Interval : SYS_TimerStart(t, i)
  BY <1>1, StartKeeps
<1>2. CASE \E t \in Timer : SYS_TimerStop(t)
  BY <1>2, StopKeepsInv
<1>3. CASE SYS_HwExpiry_Cb
  BY <1>3, TickKeeps
<1>4. CASE \E n \in 0 .. PendingMax : SYS_TimerAdjust_SleptTime(n)
  BY <1>4, SleepKeeps
<1>5. CASE TakeTicks
  BY <1>5, TakeKeeps
<1>6. CASE Expire
  BY <1>6, ExpireKeeps
<1>7. CASE HandlerReturns
  BY <1>7, ReturnKeeps
<1>8. CASE EndTask
  BY <1>8, EndKeeps
<1>9. CASE UNCHANGED vars
  BY <1>9, StutterKeeps
<1> QED
  BY <1>1, <1>2, <1>3, <1>4, <1>5, <1>6, <1>7, <1>8, <1>9
  DEF Next, SYS_TimerTaskHandler

(* The list names every timer once, its differences and the ticks agree,   *)
(* and time is only taken inside the task handler (sysTimer.c:83-187).     *)
THEOREM TimersAgree == Spec => []IInv
BY InitInv, NextKeeps, PTL DEF Spec

(* No timer expires before its time, whatever handlers start and stop and  *)
(* however the board sleeps (sysTimer.c:133-151).                          *)
THEOREM TimersNotEarly == Spec => []NeverEarly
<1>1. IInv => NeverEarly
  BY DEF IInv
<1> QED
  BY <1>1, TimersAgree, PTL

(* Without sleep none is held back (sysTimer.c:83-96, 156-187).            *)
THEOREM TimersNotLate == Spec => []NeverLate
<1>1. IInv => NeverLate
  BY DEF IInv
<1> QED
  BY <1>1, TimersAgree, PTL

----------------------------------------------------------------------------
(* The timers implement one deadline for each.                             *)

left == [t \in Timer |-> SYS_TimerRemainingTimeout(t)]

LEMMA LeftNow ==
  /\ left = [t \in Timer |-> Remaining(t)]
  /\ \A t \in Timer : left[t] = Remaining(t)
  /\ \A t \in Timer : t \notin Running => left[t] = 0
BY RunningLeft, LeftNowhere DEF left, Remaining

LEMMA LeftNext ==
  /\ left' = [t \in Timer |-> Left(timers', timeout', t)]
  /\ \A t \in Timer : left'[t] = Left(timers', timeout', t)
  /\ \A t \in Timer : t \notin Running' => left'[t] = 0
BY RunningLeftNext, LeftNowhere DEF left

LEMMA InitMaps == Init => Abstract!Init
<1> SUFFICES ASSUME Init PROVE Abstract!Init
  OBVIOUS
<1>1. Running = {}
  <2>1. Len(timers) = 0
    BY DEF Init
  <2> QED
    BY <2>1 DEF Running
<1>2. left = [t \in Timer |-> 0]
  BY <1>1, LeftNow
<1> QED
  BY <1>1, <1>2 DEF Init, Abstract!Init, left

LEMMA StartMaps ==
  ASSUME IInv, NEW t \in Timer, NEW i \in Interval, SYS_TimerStart(t, i)
  PROVE  Abstract!Start(t, i)
<1>1. /\ Elements(timers') = Elements(timers) \union {t}
      /\ \A u \in Elements(timers) : Left(timers', timeout', u) = Remaining(u)
      /\ t \notin Elements(timers) => Left(timers', timeout', t) = i
  BY StartEffect
<1>2. Running' = Running \union {t}
  BY <1>1, RunningLeft, RunningLeftNext
<1>3. left' = IF t \in Running THEN left ELSE [left EXCEPT ![t] = i]
  <2>1. ASSUME NEW u \in Timer
        PROVE  left'[u] = IF u = t /\ t \notin Running THEN i ELSE left[u]
    <3>1. CASE u \in Running
      BY <1>1, <3>1, LeftNow, LeftNext, RunningLeft
    <3>2. CASE u \notin Running /\ u = t
      BY <1>1, <3>2, LeftNext, RunningLeft
    <3>3. CASE u \notin Running /\ u # t
      BY <1>2, <3>3, LeftNow, LeftNext
    <3> QED
      BY <3>1, <3>2, <3>3
  <2>2. left \in [Timer -> {left[u] : u \in Timer}] /\ left' = [u \in Timer |-> left'[u]]
    BY LeftNow, LeftNext
  <2>3. left' = [u \in Timer |-> IF u = t /\ t \notin Running THEN i ELSE left[u]]
    BY <2>1, <2>2
  <2> QED
    BY <2>2, <2>3
<1>4. /\ interval' = [interval EXCEPT ![t] = i]
      /\ pending' = pending /\ elapsed' = elapsed /\ expired' = expired
  BY DEF SYS_TimerStart
<1> QED
  BY <1>2, <1>3, <1>4 DEF Abstract!Start, left

LEMMA StopMaps ==
  ASSUME IInv, NEW t \in Timer, SYS_TimerStop(t)
  PROVE  Abstract!Stop(t)
<1>1. /\ Elements(timers') = Elements(timers) \ {t}
      /\ \A u \in Elements(timers') : Left(timers', timeout', u) = Remaining(u)
  BY StopEffect
<1>2. Running' = Running \ {t}
  BY <1>1, RunningLeft, RunningLeftNext
<1>3. left' = [left EXCEPT ![t] = 0]
  <2>1. ASSUME NEW u \in Timer
        PROVE  left'[u] = IF u = t THEN 0 ELSE left[u]
    <3>1. CASE u \in Running'
      BY <1>1, <1>2, <3>1, LeftNow, LeftNext, RunningLeftNext
    <3>2. CASE u \notin Running'
      BY <1>2, <3>2, LeftNow, LeftNext
    <3> QED
      BY <3>1, <3>2
  <2>2. /\ left' = [u \in Timer |-> left'[u]] /\ left = [u \in Timer |-> left[u]]
    BY LeftNow, LeftNext
  <2> QED
    BY <2>1, <2>2
<1>4. /\ interval' = interval
      /\ pending' = pending /\ elapsed' = elapsed /\ expired' = expired
  BY DEF SYS_TimerStop, config
<1> QED
  BY <1>2, <1>3, <1>4 DEF Abstract!Stop, left

(* Steps that do not touch the list.                                       *)
LEMMA SameList ==
  ASSUME timers' = timers, timeout' = timeout
  PROVE  Running' = Running /\ left' = left
<1>1. Running' = Running
  BY RunningLeft, RunningLeftNext
<1>2. left' = left
  BY LeftNow, LeftNext DEF Remaining
<1> QED
  BY <1>1, <1>2

LEMMA ExpireMaps ==
  ASSUME IInv, Expire
  PROVE  \E t \in Timer : Abstract!Expire(t)
<1> DEFINE t == Head(timers)
<1>1. /\ t \in Elements(timers) /\ t \in Timer
      /\ Remaining(t) <= elapsed
      /\ \A u \in Elements(timers) : Remaining(t) <= Remaining(u)
      /\ elapsed' = elapsed - Remaining(t)
      /\ expired' = t
      /\ Elements(timers') =
           IF t \in Periodic THEN Elements(timers) ELSE Elements(timers) \ {t}
      /\ \A u \in Elements(timers) \ {t} :
           Left(timers', timeout', u) = Remaining(u) - Remaining(t)
      /\ t \in Periodic => Left(timers', timeout', t) = interval[t]
  BY ExpireEffect, Agreement
<1>2. /\ pending' = pending /\ interval' = interval /\ expired = NoTimer
  BY DEF Expire, config, IInv, Between
<1> HIDE DEF t
<1>3. /\ t \in Running /\ left[t] <= elapsed
      /\ \A u \in Running : left[t] <= left[u]
      /\ elapsed' = elapsed - left[t]
  <2>1. Running \subseteq Timer
    BY RunningLeft, Agreement
  <2> QED
    BY <1>1, <2>1, LeftNow, RunningLeft
<1>4. Running' = IF t \in Periodic THEN Running ELSE Running \ {t}
  BY <1>1, RunningLeft, RunningLeftNext
<1>5. left' = [u \in Timer |->
                 IF u = t THEN IF t \in Periodic THEN interval[t] ELSE 0
                 ELSE IF u \in Running THEN left[u] - left[t] ELSE 0]
  <2>1. ASSUME NEW u \in Timer
        PROVE  left'[u] = IF u = t THEN IF t \in Periodic THEN interval[t] ELSE 0
                          ELSE IF u \in Running THEN left[u] - left[t] ELSE 0
    <3>1. CASE u = t
      BY <1>1, <1>4, <3>1, LeftNext
    <3>2. CASE u # t /\ u \in Running
      BY <1>1, <3>2, LeftNow, LeftNext, RunningLeft
    <3>3. CASE u # t /\ u \notin Running
      BY <1>4, <3>3, LeftNext
    <3> QED
      BY <3>1, <3>2, <3>3
  <2>2. left' = [u \in Timer |-> left'[u]]
    BY LeftNext
  <2> QED
    BY <2>1, <2>2
<1>6. Abstract!Expire(t)
  BY <1>1, <1>2, <1>3, <1>4, <1>5 DEF Abstract!Expire, left
<1> QED
  BY <1>1, <1>6

LEMMA EndMaps ==
  ASSUME IInv, EndTask
  PROVE  Abstract!Pass
<1>1. /\ timers' = timers
      /\ \A u \in Elements(timers) :
           /\ elapsed < Remaining(u)
           /\ Left(timers', timeout', u) = Remaining(u) - elapsed
  BY EndEffect
<1>2. Running' = Running /\ Running \subseteq Timer
  BY <1>1, RunningLeft, RunningLeftNext, Agreement
<1>3. \A u \in Running : left[u] > elapsed
  <2>1. elapsed \in Int /\ \A u : Remaining(u) \in Nat
    BY Agreement, Numbers DEF IInv
  <2> QED
    BY <1>1, <1>2, <2>1, LeftNow, RunningLeft
<1>4. left' = [u \in Timer |-> IF u \in Running THEN left[u] - elapsed ELSE 0]
  <2>1. ASSUME NEW u \in Timer
        PROVE  left'[u] = IF u \in Running THEN left[u] - elapsed ELSE 0
    BY <1>1, <1>2, LeftNow, LeftNext, RunningLeft
  <2>2. left' = [u \in Timer |-> left'[u]]
    BY LeftNext
  <2> QED
    BY <2>1, <2>2
<1>5. /\ elapsed' = 0 /\ interval' = interval /\ pending' = pending /\ expired' = expired
  BY DEF EndTask, config
<1> QED
  BY <1>2, <1>3, <1>4, <1>5 DEF Abstract!Pass, left

LEMMA CountMaps ==
  ASSUME IInv,
         SYS_HwExpiry_Cb \/ \E n \in 0 .. PendingMax : SYS_TimerAdjust_SleptTime(n)
  PROVE  Abstract!Count
<1>1. /\ timers' = timers /\ timeout' = timeout /\ interval' = interval
      /\ elapsed' = elapsed /\ expired' = expired
  BY DEF SYS_HwExpiry_Cb, SYS_TimerAdjust_SleptTime, config
<1>2. pending' \in 0 .. PendingMax
  <2>1. pending \in 0 .. PendingMax /\ PendingMax \in Nat
    BY TimerAssumption DEF IInv, TypeOK
  <2> QED
    BY <2>1 DEF SYS_HwExpiry_Cb, SYS_TimerAdjust_SleptTime
<1> QED
  BY <1>1, <1>2, SameList DEF Abstract!Count, left

LEMMA TakeMaps ==
  ASSUME IInv, TakeTicks
  PROVE  Abstract!Handle
<1>1. /\ timers' = timers /\ timeout' = timeout /\ interval' = interval
      /\ elapsed = 0 /\ elapsed' = pending * Tick /\ pending' = 0 /\ expired' = expired
  BY DEF TakeTicks, list, config, IInv, Between
<1> QED
  BY <1>1, SameList DEF Abstract!Handle, left

LEMMA ReturnMaps ==
  ASSUME IInv, HandlerReturns
  PROVE  Abstract!Return
<1>1. /\ timers' = timers /\ timeout' = timeout /\ interval' = interval
      /\ elapsed' = elapsed /\ pending' = pending /\ expired' = NoTimer
  BY DEF HandlerReturns, list, config
<1> QED
  BY <1>1, SameList DEF Abstract!Return, left

LEMMA StepMaps == IInv /\ [Next]_vars => [Abstract!Next]_(Abstract!vars)
<1> SUFFICES ASSUME IInv, [Next]_vars PROVE [Abstract!Next]_(Abstract!vars)
  OBVIOUS
<1>1. CASE \E t \in Timer, i \in Interval : SYS_TimerStart(t, i)
  BY <1>1, StartMaps DEF Abstract!Next
<1>2. CASE \E t \in Timer : SYS_TimerStop(t)
  BY <1>2, StopMaps DEF Abstract!Next
<1>3. CASE SYS_HwExpiry_Cb \/ \E n \in 0 .. PendingMax : SYS_TimerAdjust_SleptTime(n)
  BY <1>3, CountMaps DEF Abstract!Next
<1>4. CASE TakeTicks
  BY <1>4, TakeMaps DEF Abstract!Next
<1>5. CASE Expire
  BY <1>5, ExpireMaps DEF Abstract!Next
<1>6. CASE HandlerReturns
  BY <1>6, ReturnMaps DEF Abstract!Next
<1>7. CASE EndTask
  BY <1>7, EndMaps DEF Abstract!Next
<1>8. CASE UNCHANGED vars
  <2>1. /\ timers' = timers /\ timeout' = timeout /\ interval' = interval
        /\ elapsed' = elapsed /\ pending' = pending /\ expired' = expired
    BY <1>8 DEF vars, list, config
  <2> QED
    BY <2>1, SameList DEF Abstract!vars, left
<1> QED
  BY <1>1, <1>2, <1>3, <1>4, <1>5, <1>6, <1>7, <1>8
  DEF Next, SYS_TimerTaskHandler

(* The list of differences implements one deadline for every timer: the    *)
(* earliest expires first, and starting, stopping and expiring one leaves  *)
(* the others alone (sysTimer.c:83-96, 133-187, 200-228).                  *)
THEOREM TimersAreDeadlines == Spec => DeadlineSpec
BY InitMaps, StepMaps, TimersAgree, PTL DEF Spec, DeadlineSpec, Abstract!Spec
=============================================================================
