---------------------------- MODULE DanielsProofs ----------------------------
(***************************************************************************)
(* Proofs about DanielsKernel, for every number of descriptors and events  *)
(* and all timing parameters.  The delta list is compared with countdowns  *)
(* that no other task touches (SleepTimers); then every task is where the  *)
(* kernel looks for it, and the dispatcher picks the most urgent one.      *)
(***************************************************************************)
EXTENDS DanielsKernel, KernelLemmas

-----------------------------------------------------------------------------
(* The sums of the delta list.                                             *)

\* What TicksTo(q, i) is, up to position n.
SumsTo(q, n, f) ==
  f = [k \in 0 .. n |-> IF k = 0 THEN 0 ELSE f[k - 1] + q[k].diff]

LEMMA SumsExist ==
  ASSUME NEW q \in Seq(Entries)
  PROVE  \E f : SumsTo(q, Len(q), f)
<1> DEFINE bad == {n \in Nat : n <= Len(q) /\ ~ \E f : SumsTo(q, n, f)}
<1>1. Len(q) \in Nat
  OBVIOUS
<1>2. CASE bad = {}
  BY <1>1, <1>2
<1>3. CASE bad # {}
  <2>1. PICK n \in bad : \A k \in bad : n <= k
    BY <1>3, LeastOne
  <2>2. CASE n = 0
    <3> DEFINE f == [k \in 0 .. 0 |-> 0]
    <3>1. f = [k \in 0 .. 0 |-> IF k = 0 THEN 0 ELSE f[k - 1] + q[k].diff]
      OBVIOUS
    <3> QED  BY <2>1, <2>2, <3>1 DEF SumsTo
  <2>3. CASE n # 0
    <3>1. n - 1 \in Nat /\ n - 1 <= Len(q) /\ n - 1 \notin bad /\ n \in Nat
      BY <1>1, <2>1, <2>3
    <3>2. PICK f : SumsTo(q, n - 1, f)
      BY <3>1
    <3> DEFINE g == [k \in 0 .. n |-> IF k = n THEN f[n - 1] + q[n].diff ELSE f[k]]
    <3>3. ASSUME NEW k \in 0 .. n
          PROVE  g[k] = IF k = 0 THEN 0 ELSE g[k - 1] + q[k].diff
      <4>1. CASE k = 0
        BY <2>3, <3>1, <3>2, <4>1 DEF SumsTo
      <4>2. CASE k = n
        BY <2>3, <3>1, <4>2
      <4>3. CASE k # 0 /\ k # n
        <5>1. k \in 0 .. n - 1 /\ k - 1 \in 0 .. n /\ k - 1 # n
          BY <3>1, <4>3
        <5>2. f[k] = f[k - 1] + q[k].diff
          BY <3>2, <4>3, <5>1 DEF SumsTo
        <5> QED  BY <4>3, <5>1, <5>2
      <4> QED  BY <4>1, <4>2, <4>3
    <3> HIDE DEF g
    <3>4. g = [k \in 0 .. n |-> g[k]]
      BY DEF g
    <3>5. g = [k \in 0 .. n |-> IF k = 0 THEN 0 ELSE g[k - 1] + q[k].diff]
      BY <3>3, <3>4
    <3> QED  BY <2>1, <3>5 DEF SumsTo
  <2> QED  BY <2>2, <2>3
<1> QED  BY <1>2, <1>3

\* TicksTo, step by step.
LEMMA TicksToStep ==
  ASSUME NEW q \in Seq(Entries)
  PROVE  /\ TicksTo(q, 0) = 0
         /\ \A i \in 1 .. Len(q) : TicksTo(q, i) = TicksTo(q, i - 1) + q[i].diff
<1> DEFINE sum == CHOOSE f : SumsTo(q, Len(q), f)
<1>1. SumsTo(q, Len(q), sum)
  BY SumsExist
<1>2. \A i : TicksTo(q, i) = sum[i]
  BY DEF TicksTo, SumsTo
<1> HIDE DEF sum
<1>3. Len(q) \in Nat
  OBVIOUS
<1>4. \A k \in 0 .. Len(q) : sum[k] = IF k = 0 THEN 0 ELSE sum[k - 1] + q[k].diff
  BY <1>1 DEF SumsTo
<1> QED  BY <1>2, <1>3, <1>4

\* The sums are numbers that grow along the list.
LEMMA TicksToGrows ==
  ASSUME NEW q \in Seq(Entries)
  PROVE  /\ \A i \in 0 .. Len(q) : TicksTo(q, i) \in Nat
         /\ \A i, j \in 0 .. Len(q) : i <= j => TicksTo(q, i) <= TicksTo(q, j)
<1>1. /\ Len(q) \in Nat /\ TicksTo(q, 0) = 0
      /\ \A i \in 1 .. Len(q) : TicksTo(q, i) = TicksTo(q, i - 1) + q[i].diff
      /\ \A i \in 1 .. Len(q) : q[i].diff \in Nat
  <2>1. \A i \in 1 .. Len(q) : q[i] \in Entries
    OBVIOUS
  <2>2. Len(q) \in Nat /\ \A i \in 1 .. Len(q) : q[i].diff \in Nat
    BY <2>1 DEF Entries
  <2> QED  BY <2>2, TicksToStep
<1>2. \A i \in 0 .. Len(q) : TicksTo(q, i) \in Nat
  <2> DEFINE bad == {i \in 0 .. Len(q) : TicksTo(q, i) \notin Nat}
  <2> SUFFICES ASSUME bad # {} PROVE FALSE
    OBVIOUS
  <2>1. PICK n \in bad : \A k \in bad : n <= k
    <3>1. bad \in SUBSET Nat
      BY <1>1
    <3> QED  BY <3>1, LeastOne
  <2>2. n # 0 /\ n \in 1 .. Len(q) /\ n - 1 \in 0 .. Len(q) /\ n - 1 \notin bad
    BY <1>1, <2>1
  <2> QED  BY <1>1, <2>1, <2>2
<1>3. ASSUME NEW i \in 0 .. Len(q), NEW j \in 0 .. Len(q), i <= j
      PROVE  TicksTo(q, i) <= TicksTo(q, j)
  <2> DEFINE bad == {k \in 0 .. Len(q) : i <= k /\ ~ TicksTo(q, i) <= TicksTo(q, k)}
  <2> SUFFICES ASSUME bad # {} PROVE FALSE
    BY <1>3
  <2>1. PICK n \in bad : \A k \in bad : n <= k
    <3>1. bad \in SUBSET Nat
      BY <1>1
    <3> QED  BY <3>1, LeastOne
  <2>2. n # i
    BY <1>2, <2>1
  <2>3. n \in 1 .. Len(q) /\ n - 1 \in 0 .. Len(q) /\ i <= n - 1 /\ n - 1 \notin bad
    BY <1>1, <2>1, <2>2
  <2>4. TicksTo(q, i) <= TicksTo(q, n - 1) /\ TicksTo(q, n) = TicksTo(q, n - 1) + q[n].diff
    BY <1>1, <2>3
  <2>5. /\ TicksTo(q, i) \in Nat /\ TicksTo(q, n - 1) \in Nat /\ q[n].diff \in Nat
        /\ ~ TicksTo(q, i) <= TicksTo(q, n)
    BY <1>1, <1>2, <2>1, <2>3
  <2> HIDE DEF bad
  <2> QED  BY <2>4, <2>5
<1> QED  BY <1>2, <1>3

\* They are the only numbers with their differences.
LEMMA TicksToAre ==
  ASSUME NEW q \in Seq(Entries), NEW f, f[0] = 0,
         \A i \in 1 .. Len(q) : f[i] = f[i - 1] + q[i].diff
  PROVE  \A i \in 0 .. Len(q) : TicksTo(q, i) = f[i]
<1>1. /\ Len(q) \in Nat /\ TicksTo(q, 0) = 0
      /\ \A i \in 1 .. Len(q) : TicksTo(q, i) = TicksTo(q, i - 1) + q[i].diff
  BY TicksToStep
<1> DEFINE bad == {i \in 0 .. Len(q) : TicksTo(q, i) # f[i]}
<1> SUFFICES ASSUME bad # {} PROVE FALSE
  OBVIOUS
<1>2. PICK n \in bad : \A k \in bad : n <= k
  <2>1. bad \in SUBSET Nat
    BY <1>1
  <2> QED  BY <2>1, LeastOne
<1>3. n # 0 /\ n \in 1 .. Len(q) /\ n - 1 \in 0 .. Len(q) /\ n - 1 \notin bad
  BY <1>1, <1>2
<1> QED  BY <1>1, <1>2, <1>3

-----------------------------------------------------------------------------
(* The countdowns that the list stands for.                                *)

\* A countdown is the sum up to the task's entry.
LEMMA CountdownIs ==
  ASSUME NEW q, DeltaList(q)
  PROVE  /\ \A i \in 1 .. Len(q) : /\ q[i].task \in Tasks
                                   /\ Countdown(q)[q[i].task] = TicksTo(q, i)
         /\ \A t \in Tasks : t \in Range(Names(q)) <=> \E i \in 1 .. Len(q) : q[i].task = t
         /\ \A t \in Tasks : Countdown(q)[t] \in 0 .. WORD - 1
         /\ \A t \in Tasks : Countdown(q)[t] = 0 <=> t \notin Range(Names(q))
         /\ Countdown(q) \in [Tasks -> Nat]
<1>1. /\ q \in Seq(Entries) /\ DOMAIN q = 1 .. Len(q) /\ Len(q) \in Nat
      /\ \A i \in 1 .. Len(q) : q[i].task \in Tasks
  <2>1. q \in Seq(Entries) /\ \A i \in 1 .. Len(q) : q[i] \in Entries
    BY DEF DeltaList
  <2> QED  BY <2>1 DEF Entries
<1>2. \A i, j \in 1 .. Len(q) : q[i].task = q[j].task => i = j
  BY <1>1 DEF DeltaList, IsInjective, Names
<1>3. \A t : t \in Range(Names(q)) <=> \E i \in 1 .. Len(q) : q[i].task = t
  BY <1>1 DEF Range, Names
<1>4. ASSUME NEW i \in 1 .. Len(q) PROVE Countdown(q)[q[i].task] = TicksTo(q, i)
  <2>1. (CHOOSE j \in 1 .. Len(q) : q[j].task = q[i].task) = i
    BY <1>2
  <2> QED  BY <1>1, <1>3, <2>1 DEF Countdown
<1>5. \A t \in Tasks : t \notin Range(Names(q)) => Countdown(q)[t] = 0
  BY DEF Countdown, Asleep
<1>6. ASSUME NEW t \in Tasks
      PROVE  /\ Countdown(q)[t] \in 0 .. WORD - 1
             /\ Countdown(q)[t] = 0 <=> t \notin Range(Names(q))
  <2>1. CASE t \notin Range(Names(q))
    BY <1>5, <2>1, DanielsAssumption DEF DanielsAssumption
  <2>2. CASE t \in Range(Names(q))
    <3>1. PICK i \in 1 .. Len(q) : q[i].task = t
      BY <1>3, <2>2
    <3>2. Countdown(q)[t] \in 1 .. WORD - 1
      BY <1>4, <3>1 DEF DeltaList
    <3> QED  BY <2>2, <3>2, DanielsAssumption DEF DanielsAssumption
  <2> QED  BY <2>1, <2>2
<1>7. Countdown(q) \in [Tasks -> Nat]
  <2>1. Countdown(q) = [t \in Tasks |-> Countdown(q)[t]]
    BY DEF Countdown
  <2>2. \A t \in Tasks : Countdown(q)[t] \in Nat
    BY <1>6
  <2> QED  BY <2>1, <2>2
<1> QED  BY <1>1, <1>3, <1>4, <1>6, <1>7

\* What the countdowns of a list are.
LEMMA CountdownBy ==
  ASSUME NEW q, DeltaList(q), NEW c \in [Tasks -> Nat],
         \A i \in 1 .. Len(q) : c[q[i].task] = TicksTo(q, i),
         \A t \in Tasks : t \notin Range(Names(q)) => c[t] = 0
  PROVE  Countdown(q) = c
<1>1. ASSUME NEW t \in Tasks PROVE Countdown(q)[t] = c[t]
  BY CountdownIs
<1> QED  BY <1>1, CountdownIs

-----------------------------------------------------------------------------
(* What the operations do to the countdowns.                               *)

LEMMA InsertAnywhere ==
  ASSUME NEW T, NEW q \in Seq(T), NEW x \in T, NEW i \in 1 .. Len(q) + 1
  PROVE  /\ InsertAt(q, i, x) \in Seq(T) /\ Len(InsertAt(q, i, x)) = Len(q) + 1
         /\ DOMAIN InsertAt(q, i, x) = 1 .. Len(q) + 1
         /\ \A j \in 1 .. Len(q) + 1 :
              InsertAt(q, i, x)[j] = IF j < i THEN q[j] ELSE IF j = i THEN x ELSE q[j - 1]
<1>1. CASE i \in 1 .. Len(q)
  BY <1>1 DEF InsertAt
<1>2. CASE i = Len(q) + 1
  <2>1. SubSeq(q, 1, Len(q)) = q /\ SubSeq(q, Len(q) + 1, Len(q)) = <<>>
    OBVIOUS
  <2>2. (Len(q) + 1) - 1 = Len(q)
    OBVIOUS
  <2>3. InsertAt(q, i, x) = (q \o <<x>>) \o <<>>
    BY <1>2, <2>1, <2>2 DEF InsertAt
  <2>4. InsertAt(q, i, x) = Append(q, x)
    BY <2>3
  <2> QED  BY <1>2, <2>4
<1> QED  BY <1>1, <1>2

LEMMA RemoveAnywhere ==
  ASSUME NEW T, NEW q \in Seq(T), NEW i \in 1 .. Len(q)
  PROVE  /\ RemoveAt(q, i) \in Seq(T) /\ Len(RemoveAt(q, i)) = Len(q) - 1
         /\ DOMAIN RemoveAt(q, i) = 1 .. Len(q) - 1
         /\ \A j \in 1 .. Len(q) - 1 :
              RemoveAt(q, i)[j] = IF j < i THEN q[j] ELSE q[j + 1]
<1> DEFINE a == SubSeq(q, 1, i - 1)
           b == SubSeq(q, i + 1, Len(q))
<1>1. /\ a \in Seq(T) /\ Len(a) = i - 1 /\ \A j \in 1 .. i - 1 : a[j] = q[j]
  OBVIOUS
<1>2. /\ b \in Seq(T) /\ Len(b) = Len(q) - i
      /\ \A j \in 1 .. Len(q) - i : b[j] = q[j + i]
  OBVIOUS
<1>3. RemoveAt(q, i) = a \o b
  BY DEF RemoveAt
<1> HIDE DEF a, b
<1>4. /\ a \o b \in Seq(T) /\ Len(a \o b) = Len(q) - 1 /\ DOMAIN (a \o b) = 1 .. Len(q) - 1
  <2>1. a \o b \in Seq(T)
    BY <1>1, <1>2
  <2>2. Len(a \o b) = Len(a) + Len(b)
    BY <1>1, <1>2, ConcatProperties
  <2>4. DOMAIN (a \o b) = 1 .. Len(a \o b)
    BY <2>1
  <2>3. (i - 1) + (Len(q) - i) = Len(q) - 1
    OBVIOUS
  <2> QED  BY <1>1, <1>2, <2>1, <2>2, <2>3, <2>4
<1>5. ASSUME NEW j \in 1 .. Len(q) - 1
      PROVE  (a \o b)[j] = IF j < i THEN q[j] ELSE q[j + 1]
  <2>1. CASE j < i
    BY <1>1, <1>2, <2>1
  <2>2. CASE ~(j < i)
    <3>1. j - (i - 1) \in 1 .. Len(q) - i /\ (j - (i - 1)) + i = j + 1
      BY <2>2
    <3>2. (a \o b)[j] = b[j - (i - 1)]
      BY <1>1, <1>2, <2>2
    <3> QED  BY <1>2, <2>2, <3>1, <3>2
  <2> QED  BY <2>1, <2>2
<1> QED  BY <1>3, <1>4, <1>5

\* Where sleep_enqueue stops.
LEMMA PlaceLemma ==
  ASSUME NEW q \in Seq(Entries), NEW ticks \in Nat \ {0}
  PROVE  /\ Place(q, ticks) \in 1 .. Len(q) + 1
         /\ Place(q, ticks) <= Len(q) => TicksTo(q, Place(q, ticks)) >= ticks
         /\ TicksTo(q, Place(q, ticks) - 1) < ticks
<1> DEFINE stops == {i \in 1 .. Len(q) + 1 : i <= Len(q) => TicksTo(q, i) >= ticks}
           Fits(i) == /\ i <= Len(q) => TicksTo(q, i) >= ticks
                      /\ \A j \in 1 .. i - 1 : TicksTo(q, j) < ticks
<1>1. Len(q) \in Nat /\ TicksTo(q, 0) = 0 /\ \A i \in 0 .. Len(q) : TicksTo(q, i) \in Nat
  BY TicksToStep, TicksToGrows
<1>2. PICK i \in stops : \A j \in stops : i <= j
  <2>1. Len(q) + 1 \in stops /\ stops \in SUBSET Nat
    BY <1>1
  <2> QED  BY <2>1, LeastOne
<1>3. \A j \in 1 .. i - 1 : TicksTo(q, j) < ticks
  <2> SUFFICES ASSUME NEW j \in 1 .. i - 1 PROVE TicksTo(q, j) < ticks
    OBVIOUS
  <2>1. j \in 1 .. Len(q) /\ j \notin stops /\ j \in 0 .. Len(q) /\ j \in 1 .. Len(q) + 1
    BY <1>1, <1>2
  <2> QED  BY <1>1, <2>1
<1>4. i \in 1 .. Len(q) + 1 /\ Fits(i)
  BY <1>2, <1>3
<1>5. Place(q, ticks) = CHOOSE k \in 1 .. Len(q) + 1 : Fits(k)
  BY DEF Place
<1>6. Place(q, ticks) \in 1 .. Len(q) + 1 /\ Fits(Place(q, ticks))
  BY <1>4, <1>5
<1> DEFINE p == Place(q, ticks)
<1>7. TicksTo(q, p - 1) < ticks
  <2>1. CASE p = 1
    BY <1>1, <2>1
  <2>2. CASE p # 1
    <3>1. p - 1 \in 1 .. p - 1
      BY <1>1, <1>6, <2>2
    <3> QED  BY <1>6, <3>1
  <2> QED  BY <2>1, <2>2
<1> QED  BY <1>6, <1>7

\* sleep_enqueue starts one countdown.
LEMMA EnqueueStarts ==
  ASSUME NEW q, DeltaList(q), NEW t \in Tasks, t \notin Range(Names(q)),
         NEW ticks \in 1 .. WORD - 1
  PROVE  /\ DeltaList(sleep_enqueue(q, t, ticks))
         /\ Range(Names(sleep_enqueue(q, t, ticks))) = Range(Names(q)) \cup {t}
         /\ Countdown(sleep_enqueue(q, t, ticks)) = [Countdown(q) EXCEPT ![t] = ticks]
<1> DEFINE pos == Place(q, ticks)
           Sum(j) == TicksTo(q, j)
           diff == ticks - Sum(pos - 1)
           rest == IF pos > Len(q) THEN q ELSE [q EXCEPT ![pos].diff = @ - diff]
           new == [task |-> t, diff |-> diff]
           e == sleep_enqueue(q, t, ticks)
           n == Len(q)
           f == [j \in 0 .. n + 1 |-> IF j < pos THEN Sum(j) ELSE IF j = pos THEN ticks ELSE Sum(j - 1)]
<1>1. /\ q \in Seq(Entries) /\ n \in Nat /\ DOMAIN q = 1 .. n /\ ticks \in Nat \ {0}
      /\ \A j \in 1 .. n : q[j] \in Entries /\ q[j].task \in Tasks /\ q[j].diff \in Nat
  <2>1. WORD \in Nat
    BY DanielsAssumption DEF DanielsAssumption
  <2>2. q \in Seq(Entries) /\ \A j \in 1 .. n : q[j] \in Entries
    BY DEF DeltaList
  <2> QED  BY <2>1, <2>2 DEF Entries
<1>2. /\ Sum(0) = 0 /\ \A j \in 1 .. n : Sum(j) = Sum(j - 1) + q[j].diff
      /\ \A j \in 0 .. n : Sum(j) \in Nat
  BY <1>1, TicksToStep, TicksToGrows
<1>3. /\ pos \in 1 .. n + 1 /\ (pos <= n => Sum(pos) >= ticks) /\ Sum(pos - 1) < ticks
  BY <1>1, PlaceLemma
<1> HIDE DEF pos, Sum, n, f
<1>4. /\ pos - 1 \in 0 .. n /\ Sum(pos - 1) \in Nat /\ diff \in Nat
      /\ pos <= n => pos \in 1 .. n /\ q[pos].diff - diff = Sum(pos) - ticks /\ q[pos].diff - diff \in Nat
  <2>1. pos - 1 \in 0 .. n /\ Sum(pos - 1) \in Nat /\ diff \in Nat
    BY <1>1, <1>2, <1>3
  <2>2. ASSUME pos <= n
        PROVE  pos \in 1 .. n /\ q[pos].diff - diff = Sum(pos) - ticks /\ q[pos].diff - diff \in Nat
    <3>1. pos \in 1 .. n /\ Sum(pos) = Sum(pos - 1) + q[pos].diff /\ q[pos].diff \in Nat /\ Sum(pos) >= ticks
          /\ Sum(pos) \in Nat
      BY <1>1, <1>2, <1>3, <2>2
    <3> QED  BY <1>1, <2>1, <3>1
  <2> QED  BY <2>1, <2>2
<1> HIDE DEF diff
<1>5. /\ rest \in Seq(Entries) /\ Len(rest) = n /\ DOMAIN rest = 1 .. n
      /\ \A j \in 1 .. n : /\ rest[j].task = q[j].task
                           /\ rest[j].diff = IF j = pos THEN q[j].diff - diff ELSE q[j].diff
  <2>1. CASE pos > n
    <3>1. rest = q
      BY <2>1 DEF n
    <3> QED  BY <1>1, <1>3, <2>1, <3>1 DEF n
  <2>2. CASE ~(pos > n)
    <3>1. rest = [q EXCEPT ![pos].diff = @ - diff] /\ pos \in 1 .. n
      BY <1>1, <1>3, <2>2 DEF n
    <3>2. [q[pos] EXCEPT !.diff = @ - diff] \in Entries
      <4>1. q[pos] \in Entries /\ q[pos].diff - diff \in Nat
        BY <1>1, <1>4, <3>1
      <4> HIDE DEF rest
      <4> QED  BY <4>1 DEF Entries
    <3>3. rest = [j \in 1 .. n |-> IF j = pos THEN [q[pos] EXCEPT !.diff = @ - diff] ELSE q[j]]
      BY <1>1, <3>1
    <3>4. rest \in [1 .. n -> Entries]
      BY <1>1, <3>2, <3>3
    <3>5. rest \in Seq(Entries) /\ Len(rest) = n
      BY <1>1, <3>4
    <3>6. [q[pos] EXCEPT !.diff = @ - diff].task = q[pos].task
          /\ [q[pos] EXCEPT !.diff = @ - diff].diff = q[pos].diff - diff
      BY <1>1, <3>1 DEF Entries
    <3> QED  BY <1>1, <3>3, <3>5, <3>6
  <2> QED  BY <2>1, <2>2
<1>6. new \in Entries /\ new.task = t /\ new.diff = diff
  BY <1>4 DEF Entries
<1>7. e = InsertAt(rest, pos, new)
  BY DEF sleep_enqueue, pos, Sum, n, diff
<1> HIDE DEF rest, new, e
<1>8. /\ e \in Seq(Entries) /\ Len(e) = n + 1 /\ DOMAIN e = 1 .. n + 1
      /\ \A j \in 1 .. n + 1 : e[j] = IF j < pos THEN rest[j] ELSE IF j = pos THEN new ELSE rest[j - 1]
  <2>1. pos \in 1 .. Len(rest) + 1
    BY <1>3, <1>5
  <2>2. /\ InsertAt(rest, pos, new) \in Seq(Entries) /\ Len(InsertAt(rest, pos, new)) = Len(rest) + 1
        /\ DOMAIN InsertAt(rest, pos, new) = 1 .. Len(rest) + 1
        /\ \A j \in 1 .. Len(rest) + 1 :
             InsertAt(rest, pos, new)[j] = IF j < pos THEN rest[j] ELSE IF j = pos THEN new ELSE rest[j - 1]
    <3>1. rest \in Seq(Entries) /\ new \in Entries
      BY <1>5, <1>6
    <3>2. /\ InsertAt(rest, pos, new) \in Seq(Entries)
          /\ Len(InsertAt(rest, pos, new)) = Len(rest) + 1
          /\ DOMAIN InsertAt(rest, pos, new) = 1 .. Len(rest) + 1
      BY <2>1, <3>1, InsertAnywhere
    <3>3. ASSUME NEW j \in 1 .. Len(rest) + 1
          PROVE  InsertAt(rest, pos, new)[j]
                   = IF j < pos THEN rest[j] ELSE IF j = pos THEN new ELSE rest[j - 1]
      BY <2>1, <3>1, InsertAnywhere
    <3> QED  BY <3>2, <3>3
  <2> QED  BY <1>5, <1>7, <2>2
<1>9. ASSUME NEW j \in 1 .. n + 1
      PROVE  f[j] = f[j - 1] + e[j].diff
  <2>0. j \in 0 .. n + 1 /\ j - 1 \in 0 .. n + 1
    BY <1>1
  <2>1. CASE j < pos
    <3>1. j \in 1 .. n /\ j # pos /\ j - 1 < pos
      BY <1>1, <1>3, <2>1
    <3>2. f[j] = Sum(j) /\ f[j - 1] = Sum(j - 1) /\ e[j].diff = q[j].diff
      BY <1>5, <1>8, <2>0, <2>1, <3>1 DEF f
    <3> QED  BY <1>2, <3>1, <3>2
  <2>2. CASE j = pos
    <3>1. f[j] = ticks /\ f[j - 1] = Sum(pos - 1) /\ e[j].diff = diff
      BY <1>3, <1>6, <1>8, <2>0, <2>2 DEF f
    <3> QED  BY <1>1, <1>4, <3>1 DEF diff
  <2>3. CASE j = pos + 1
    <3>1. pos \in 1 .. n /\ pos <= n /\ ~(j < pos) /\ j # pos /\ j - 1 = pos
      BY <1>1, <1>3, <2>3
    <3>2. f[j] = Sum(pos) /\ f[j - 1] = ticks /\ e[j].diff = q[pos].diff - diff
      BY <1>5, <1>8, <2>0, <3>1 DEF f
    <3> QED  BY <1>1, <1>2, <1>4, <3>1, <3>2
  <2>4. CASE j > pos + 1
    <3>1. j - 1 \in 1 .. n /\ ~(j < pos) /\ j # pos /\ ~(j - 1 < pos) /\ j - 1 # pos
      BY <1>1, <1>3, <2>4
    <3>2. f[j] = Sum(j - 1) /\ f[j - 1] = Sum((j - 1) - 1) /\ e[j].diff = q[j - 1].diff
      BY <1>5, <1>8, <2>0, <3>1 DEF f
    <3> QED  BY <1>2, <3>1, <3>2
  <2> QED  BY <1>1, <1>3, <2>1, <2>2, <2>3, <2>4
<1>10. f[0] = 0
  BY <1>1, <1>2, <1>3 DEF f
<1>11. \A j \in 0 .. n + 1 : TicksTo(e, j) = f[j]
  BY <1>8, <1>9, <1>10, TicksToAre
<1>12. \A j \in 1 .. n + 1 :
         /\ j < pos => j \in 1 .. n /\ e[j].task = q[j].task /\ TicksTo(e, j) = Sum(j)
         /\ j = pos => e[j].task = t /\ TicksTo(e, j) = ticks
         /\ j > pos => /\ j - 1 \in 1 .. n /\ e[j].task = q[j - 1].task
                     /\ TicksTo(e, j) = Sum(j - 1)
  <2> SUFFICES ASSUME NEW j \in 1 .. n + 1
               PROVE  /\ j < pos => j \in 1 .. n /\ e[j].task = q[j].task /\ TicksTo(e, j) = Sum(j)
                      /\ j = pos => e[j].task = t /\ TicksTo(e, j) = ticks
                      /\ j > pos => /\ j - 1 \in 1 .. n /\ e[j].task = q[j - 1].task
                                  /\ TicksTo(e, j) = Sum(j - 1)
    OBVIOUS
  <2>1. j \in 0 .. n + 1 /\ (j < pos => j \in 1 .. n) /\ (j > pos => j - 1 \in 1 .. n)
        /\ TicksTo(e, j) = f[j]
    BY <1>1, <1>3, <1>11
  <2> QED  BY <1>3, <1>5, <1>6, <1>8, <2>1 DEF f
<1>13. DeltaList(e)
  <2>1. \A j \in 1 .. n : Sum(j) \in 1 .. WORD - 1
    BY DEF DeltaList, Sum, n
  <2>2. ASSUME NEW j \in 1 .. n + 1 PROVE TicksTo(e, j) \in 1 .. WORD - 1
    BY <1>3, <1>12, <2>1
  <2>3. \A j \in 1 .. n : q[j].task # t
    BY <1>1 DEF Range, Names
  <2>4. \A j, k \in 1 .. n : q[j].task = q[k].task => j = k
    BY <1>1 DEF DeltaList, IsInjective, Names
  <2>5. ASSUME NEW j \in 1 .. n + 1, NEW k \in 1 .. n + 1, e[j].task = e[k].task
        PROVE  j = k
    BY <1>1, <1>3, <1>12, <2>3, <2>4, <2>5
  <2> QED  BY <1>8, <2>2, <2>5 DEF DeltaList, IsInjective, Names
<1>14. Range(Names(e)) = Range(Names(q)) \cup {t}
  <2>1. \A u : u \in Range(Names(e)) <=> \E j \in 1 .. n + 1 : e[j].task = u
    BY <1>8 DEF Range, Names
  <2>2. \A u : u \in Range(Names(q)) <=> \E j \in 1 .. n : q[j].task = u
    BY <1>1 DEF Range, Names
  <2>3. ASSUME NEW j \in 1 .. n PROVE \E k \in 1 .. n + 1 : e[k].task = q[j].task
    <3>1. CASE j < pos
      <4>1. j \in 1 .. n + 1
        BY <1>1
      <4> QED  BY <1>12, <3>1, <4>1
    <3>2. CASE ~(j < pos)
      <4>1. j + 1 \in 1 .. n + 1 /\ j + 1 > pos /\ (j + 1) - 1 = j
        BY <1>1, <1>3, <3>2
      <4> QED  BY <1>12, <4>1
    <3> QED  BY <3>1, <3>2
  <2>4. e[pos].task = t
    BY <1>3, <1>12
  <2>5. ASSUME NEW j \in 1 .. n + 1 PROVE e[j].task = t \/ \E k \in 1 .. n : q[k].task = e[j].task
    BY <1>3, <1>12
  <2> QED  BY <1>3, <2>1, <2>2, <2>3, <2>4, <2>5
<1>15. Countdown(e) = [Countdown(q) EXCEPT ![t] = ticks]
  <2> DEFINE c == [Countdown(q) EXCEPT ![t] = ticks]
  <2>1. Countdown(q) \in [Tasks -> Nat] /\ \A j \in 1 .. n : Countdown(q)[q[j].task] = Sum(j)
    BY CountdownIs DEF Sum, n
  <2>2. c \in [Tasks -> Nat] /\ c[t] = ticks /\ \A u \in Tasks : u # t => c[u] = Countdown(q)[u]
    BY <1>1, <2>1
  <2>3. \A j \in 1 .. n : q[j].task # t /\ q[j].task \in Tasks
    BY <1>1 DEF Range, Names
  <2> HIDE DEF c
  <2>4. \A j \in 1 .. n : c[q[j].task] = Sum(j)
    BY <2>1, <2>2, <2>3
  <2>5. ASSUME NEW j \in 1 .. Len(e) PROVE c[e[j].task] = TicksTo(e, j)
    BY <1>3, <1>8, <1>12, <2>2, <2>4
  <2>6. \A u \in Tasks : u \notin Range(Names(e)) => c[u] = 0
    <3>1. \A u \in Tasks : u \notin Range(Names(q)) => Countdown(q)[u] = 0
      BY CountdownIs
    <3> QED  BY <1>14, <2>2, <3>1
  <2>7. Countdown(e) = c
    BY <1>13, <2>2, <2>5, <2>6, CountdownBy
  <2> QED  BY <2>7 DEF c
<1> QED  BY <1>13, <1>14, <1>15 DEF e

\* remove_from_sleep_queue stops one.
LEMMA RemoveStops ==
  ASSUME NEW q, DeltaList(q), NEW t \in Tasks
  PROVE  /\ DeltaList(remove_from_sleep_queue(q, t))
         /\ Range(Names(remove_from_sleep_queue(q, t))) = Range(Names(q)) \ {t}
         /\ Countdown(remove_from_sleep_queue(q, t)) = [Countdown(q) EXCEPT ![t] = 0]
<1> DEFINE e == remove_from_sleep_queue(q, t)
           n == Len(q)
           Sum(j) == TicksTo(q, j)
<1>1. /\ q \in Seq(Entries) /\ n \in Nat /\ DOMAIN q = 1 .. n
      /\ \A j \in 1 .. n : q[j] \in Entries /\ q[j].task \in Tasks /\ q[j].diff \in Nat
  <2>1. q \in Seq(Entries) /\ \A j \in 1 .. n : q[j] \in Entries
    BY DEF DeltaList
  <2> QED  BY <2>1 DEF Entries
<1>2. /\ Sum(0) = 0 /\ \A j \in 1 .. n : Sum(j) = Sum(j - 1) + q[j].diff
      /\ \A j \in 0 .. n : Sum(j) \in Nat
  BY <1>1, TicksToStep, TicksToGrows
<1>3. /\ \A u \in Tasks : u \in Range(Names(q)) <=> \E j \in 1 .. n : q[j].task = u
      /\ Countdown(q) \in [Tasks -> Nat]
      /\ \A j \in 1 .. n : Countdown(q)[q[j].task] = Sum(j)
      /\ \A u \in Tasks : u \notin Range(Names(q)) => Countdown(q)[u] = 0
  BY CountdownIs
<1>4. \A j, k \in 1 .. n : q[j].task = q[k].task => j = k
  BY <1>1 DEF DeltaList, IsInjective, Names
<1>5. \A j \in 1 .. n : Sum(j) \in 1 .. WORD - 1
  BY DEF DeltaList
<1>6. CASE t \notin Range(Names(q))
  <2>1. e = q
    BY <1>1, <1>3, <1>6 DEF remove_from_sleep_queue
  <2>2. [Countdown(q) EXCEPT ![t] = 0] = Countdown(q)
    BY <1>3, <1>6
  <2> QED  BY <1>6, <2>1, <2>2
<1>7. CASE t \in Range(Names(q))
  <2> DEFINE pos == CHOOSE j \in DOMAIN q : q[j].task = t
             rest == IF pos = Len(q) THEN q ELSE [q EXCEPT ![pos + 1].diff = @ + q[pos].diff]
             f == [j \in 0 .. n - 1 |-> IF j < pos THEN Sum(j) ELSE Sum(j + 1)]
             c == [Countdown(q) EXCEPT ![t] = 0]
  <2>1. pos \in 1 .. n /\ q[pos].task = t
    BY <1>1, <1>3, <1>7
  <2>2. e = RemoveAt(rest, pos)
    BY <1>1, <2>1 DEF remove_from_sleep_queue
  <2> HIDE DEF pos, f, n, Sum, c
  <2>3. /\ rest \in Seq(Entries) /\ Len(rest) = n /\ DOMAIN rest = 1 .. n
        /\ \A j \in 1 .. n :
             /\ rest[j].task = q[j].task
             /\ rest[j].diff = IF j = pos + 1 THEN q[j].diff + q[pos].diff ELSE q[j].diff
    <3>1. CASE pos = n
      <4>1. rest = q
        BY <3>1 DEF n
      <4>2. \A j \in 1 .. n : j # pos + 1
        BY <1>1, <3>1
      <4> QED  BY <1>1, <4>1, <4>2 DEF n
    <3>2. CASE pos # n
      <4>1. rest = [q EXCEPT ![pos + 1].diff = @ + q[pos].diff] /\ pos + 1 \in 1 .. n
        BY <1>1, <2>1, <3>2 DEF n
      <4>2. [q[pos + 1] EXCEPT !.diff = @ + q[pos].diff] \in Entries
        <5>1. q[pos + 1] \in Entries /\ q[pos + 1].diff + q[pos].diff \in Nat
          BY <1>1, <2>1, <4>1
        <5> HIDE DEF rest
        <5> QED  BY <5>1 DEF Entries
      <4>3. rest = [j \in 1 .. n |-> IF j = pos + 1 THEN [q[pos + 1] EXCEPT !.diff = @ + q[pos].diff]
                                     ELSE q[j]]
        BY <1>1, <4>1
      <4>4. rest \in [1 .. n -> Entries]
        BY <1>1, <4>2, <4>3
      <4>5. rest \in Seq(Entries) /\ Len(rest) = n
        BY <1>1, <4>4
      <4>6. /\ [q[pos + 1] EXCEPT !.diff = @ + q[pos].diff].task = q[pos + 1].task
            /\ [q[pos + 1] EXCEPT !.diff = @ + q[pos].diff].diff = q[pos + 1].diff + q[pos].diff
        BY <1>1, <4>1 DEF Entries
      <4> QED  BY <1>1, <4>3, <4>5, <4>6
    <3> QED  BY <3>1, <3>2
  <2> HIDE DEF rest, e
  <2>4. /\ e \in Seq(Entries) /\ Len(e) = n - 1 /\ DOMAIN e = 1 .. n - 1
        /\ \A j \in 1 .. n - 1 : e[j] = IF j < pos THEN rest[j] ELSE rest[j + 1]
    <3>1. pos \in 1 .. Len(rest)
      BY <2>1, <2>3
    <3>2. /\ RemoveAt(rest, pos) \in Seq(Entries) /\ Len(RemoveAt(rest, pos)) = Len(rest) - 1
          /\ DOMAIN RemoveAt(rest, pos) = 1 .. Len(rest) - 1
      BY <2>3, <3>1, RemoveAnywhere
    <3>3. ASSUME NEW j \in 1 .. Len(rest) - 1
          PROVE  RemoveAt(rest, pos)[j] = IF j < pos THEN rest[j] ELSE rest[j + 1]
      BY <2>3, <3>1, RemoveAnywhere
    <3> QED  BY <2>2, <2>3, <3>2, <3>3
  <2>5. ASSUME NEW j \in 1 .. n - 1
        PROVE  f[j] = f[j - 1] + e[j].diff
    <3>0. j \in 0 .. n - 1 /\ j - 1 \in 0 .. n - 1 /\ (j - 1) + 1 = j
      BY <1>1
    <3>1. CASE j < pos
      <4>1. j \in 1 .. n /\ j # pos + 1 /\ j - 1 < pos
        BY <1>1, <2>1, <3>1
      <4>2. f[j] = Sum(j) /\ f[j - 1] = Sum(j - 1) /\ e[j].diff = q[j].diff
        BY <2>3, <2>4, <3>0, <3>1, <4>1 DEF f
      <4> QED  BY <1>2, <4>1, <4>2
    <3>2. CASE j = pos
      <4>1. j + 1 \in 1 .. n /\ j \in 1 .. n /\ ~(j < pos) /\ j - 1 < pos /\ (j + 1) - 1 = j
        BY <1>1, <2>1, <3>2
      <4>2. f[j] = Sum(j + 1) /\ f[j - 1] = Sum(j - 1) /\ e[j].diff = q[j + 1].diff + q[j].diff
        BY <2>3, <2>4, <3>0, <3>2, <4>1 DEF f
      <4>3. Sum(j + 1) = Sum(j) + q[j + 1].diff /\ Sum(j) = Sum(j - 1) + q[j].diff
        BY <1>2, <4>1
      <4>4. Sum(j - 1) \in Nat /\ q[j].diff \in Nat /\ q[j + 1].diff \in Nat
        BY <1>1, <1>2, <3>0, <4>1
      <4> QED  BY <4>2, <4>3, <4>4
    <3>3. CASE j > pos
      <4>1. /\ j + 1 \in 1 .. n /\ ~(j < pos) /\ ~(j - 1 < pos) /\ j + 1 # pos + 1
            /\ (j + 1) - 1 = j
        BY <1>1, <2>1, <3>3
      <4>2. f[j] = Sum(j + 1) /\ f[j - 1] = Sum(j) /\ e[j].diff = q[j + 1].diff
        BY <2>3, <2>4, <3>0, <3>3, <4>1 DEF f
      <4> QED  BY <1>2, <4>1, <4>2
    <3> QED  BY <1>1, <2>1, <3>1, <3>2, <3>3
  <2>6. f[0] = 0 /\ n - 1 \in Nat
    BY <1>1, <1>2, <2>1 DEF f
  <2>7. \A j \in 0 .. n - 1 : TicksTo(e, j) = f[j]
    BY <2>4, <2>5, <2>6, TicksToAre
  <2>8. \A j \in 1 .. n - 1 :
          /\ j < pos => j \in 1 .. n /\ e[j].task = q[j].task /\ TicksTo(e, j) = Sum(j)
          /\ ~(j < pos) => /\ j + 1 \in 1 .. n /\ e[j].task = q[j + 1].task
                           /\ TicksTo(e, j) = Sum(j + 1) /\ j + 1 # pos
    <3> SUFFICES ASSUME NEW j \in 1 .. n - 1
                 PROVE  /\ j < pos => j \in 1 .. n /\ e[j].task = q[j].task /\ TicksTo(e, j) = Sum(j)
                        /\ ~(j < pos) => /\ j + 1 \in 1 .. n /\ e[j].task = q[j + 1].task
                                         /\ TicksTo(e, j) = Sum(j + 1) /\ j + 1 # pos
      OBVIOUS
    <3>1. j \in 0 .. n - 1 /\ j \in 1 .. n /\ j + 1 \in 1 .. n /\ (~(j < pos) => j + 1 # pos)
          /\ TicksTo(e, j) = f[j]
      BY <1>1, <2>1, <2>7
    <3> QED  BY <2>1, <2>3, <2>4, <3>1 DEF f
  <2>9. DeltaList(e)
    <3>1. ASSUME NEW j \in 1 .. n - 1 PROVE TicksTo(e, j) \in 1 .. WORD - 1
      BY <1>5, <2>8
    <3>2. ASSUME NEW j \in 1 .. n - 1, NEW k \in 1 .. n - 1, e[j].task = e[k].task
          PROVE  j = k
      BY <1>1, <1>4, <2>1, <2>8, <3>2
    <3> QED  BY <2>4, <3>1, <3>2 DEF DeltaList, IsInjective, Names
  <2>10. Range(Names(e)) = Range(Names(q)) \ {t}
    <3>1. \A u : u \in Range(Names(e)) <=> \E j \in 1 .. n - 1 : e[j].task = u
      BY <2>4 DEF Range, Names
    <3>2. \A u : u \in Range(Names(q)) <=> \E j \in 1 .. n : q[j].task = u
      BY <1>1 DEF Range, Names
    <3>3. ASSUME NEW j \in 1 .. n, q[j].task # t PROVE \E k \in 1 .. n - 1 : e[k].task = q[j].task
      <4>1. CASE j < pos
        <5>1. j \in 1 .. n - 1
          BY <1>1, <2>1, <4>1
        <5> QED  BY <2>8, <4>1, <5>1
      <4>2. CASE ~(j < pos)
        <5>1. j - 1 \in 1 .. n - 1 /\ ~(j - 1 < pos) /\ (j - 1) + 1 = j
          BY <1>1, <2>1, <3>3, <4>2
        <5> QED  BY <2>8, <5>1
      <4> QED  BY <4>1, <4>2
    <3>4. ASSUME NEW j \in 1 .. n - 1
          PROVE  e[j].task # t /\ \E k \in 1 .. n : q[k].task = e[j].task
      <4>1. CASE j < pos
        BY <1>1, <1>4, <2>1, <2>8, <4>1
      <4>2. CASE ~(j < pos)
        BY <1>1, <1>4, <2>1, <2>8, <4>2
      <4> QED  BY <4>1, <4>2
    <3> QED  BY <3>1, <3>2, <3>3, <3>4
  <2>11. Countdown(e) = c
    <3>1. c \in [Tasks -> Nat] /\ c[t] = 0 /\ \A u \in Tasks : u # t => c[u] = Countdown(q)[u]
      BY <1>3 DEF c
    <3>2. ASSUME NEW j \in 1 .. n - 1 PROVE c[e[j].task] = TicksTo(e, j)
      <4>1. e[j].task # t
        BY <2>4, <2>10 DEF Range, Names
      <4> QED  BY <1>1, <1>3, <2>8, <3>1, <4>1
    <3>3. \A u \in Tasks : u \notin Range(Names(e)) => c[u] = 0
      BY <1>3, <2>10, <3>1
    <3>4. Len(e) = n - 1
      BY <2>4
    <3>5. \A j \in 1 .. Len(e) : c[e[j].task] = TicksTo(e, j)
      BY <3>2, <3>4
    <3> QED  BY <2>9, <3>1, <3>3, <3>5, CountdownBy
  <2> QED  BY <2>9, <2>10, <2>11 DEF c, e
<1> QED  BY <1>6, <1>7

\* The countdowns a tick later, but for the tasks that wake.
Passed(c) == [t \in Tasks |-> IF c[t] \in {0, 1} THEN 0 ELSE c[t] - 1]

\* Shortening the head takes one from every countdown.
LEMMA HeadTicks ==
  ASSUME NEW q, DeltaList(q)
  PROVE  /\ TickHead(q) \in Seq(Entries) /\ Len(TickHead(q)) = Len(q)
         /\ DOMAIN TickHead(q) = 1 .. Len(q)
         /\ Names(TickHead(q)) = Names(q)
         /\ \A i \in 1 .. Len(q) : /\ TickHead(q)[i].task = q[i].task
                                   /\ TicksTo(TickHead(q), i) = TicksTo(q, i) - 1
<1> DEFINE r == TickHead(q)
           n == Len(q)
<1>1. /\ q \in Seq(Entries) /\ n \in Nat /\ DOMAIN q = 1 .. n
      /\ \A j \in 1 .. n : q[j] \in Entries /\ q[j].task \in Tasks /\ q[j].diff \in Nat
  <2>1. q \in Seq(Entries) /\ \A j \in 1 .. n : q[j] \in Entries
    BY DEF DeltaList
  <2> QED  BY <2>1 DEF Entries
<1>2. /\ TicksTo(q, 0) = 0 /\ \A j \in 1 .. n : TicksTo(q, j) = TicksTo(q, j - 1) + q[j].diff
      /\ \A j \in 0 .. n : TicksTo(q, j) \in Nat
      /\ \A j \in 1 .. n : TicksTo(q, j) \in 1 .. WORD - 1
  BY <1>1, TicksToStep, TicksToGrows DEF DeltaList
<1>3. CASE q = <<>>
  BY <1>1, <1>3 DEF TickHead, Names
<1>4. CASE q # <<>>
  <2>1. 1 \in 1 .. n /\ 0 \in 0 .. n
    BY <1>1, <1>4
  <2>2. q[1].diff - 1 \in Nat
    <3>1. TicksTo(q, 1) = 0 + q[1].diff /\ TicksTo(q, 1) >= 1 /\ q[1].diff \in Nat
      <4>1. TicksTo(q, 1) = TicksTo(q, 1 - 1) + q[1].diff
        BY <1>2, <2>1
      <4>2. TicksTo(q, 1) \in 1 .. WORD - 1 /\ WORD - 1 \in Int
        BY <1>2, <2>1, DanielsAssumption DEF DanielsAssumption
      <4> QED  BY <1>1, <1>2, <2>1, <4>1, <4>2
    <3> QED  BY <3>1
  <2>3. r = [j \in 1 .. n |-> IF j = 1 THEN [q[1] EXCEPT !.diff = @ - 1] ELSE q[j]]
    BY <1>1, <1>4 DEF TickHead
  <2>4. /\ [q[1] EXCEPT !.diff = @ - 1] \in Entries
        /\ [q[1] EXCEPT !.diff = @ - 1].task = q[1].task
        /\ [q[1] EXCEPT !.diff = @ - 1].diff = q[1].diff - 1
    <3>1. q[1] \in Entries
      BY <1>1, <2>1
    <3> HIDE DEF r, n
    <3> QED  BY <2>2, <3>1 DEF Entries
  <2> HIDE DEF r, n
  <2>5. /\ r \in Seq(Entries) /\ Len(r) = n /\ DOMAIN r = 1 .. n
        /\ \A j \in 1 .. n : /\ r[j].task = q[j].task
                             /\ r[j].diff = IF j = 1 THEN q[1].diff - 1 ELSE q[j].diff
    <3>1. r \in [1 .. n -> Entries]
      BY <1>1, <2>3, <2>4
    <3>2. r \in Seq(Entries) /\ Len(r) = n /\ DOMAIN r = 1 .. n
      BY <1>1, <3>1
    <3> QED  BY <2>3, <2>4, <3>2
  <2>6. Names(r) = Names(q)
    BY <1>1, <2>5 DEF Names
  <2> DEFINE f == [j \in 0 .. n |-> IF j = 0 THEN 0 ELSE TicksTo(q, j) - 1]
  <2>7. ASSUME NEW j \in 1 .. n PROVE f[j] = f[j - 1] + r[j].diff
    <3>1. j \in 0 .. n /\ j - 1 \in 0 .. n /\ j # 0 /\ j - 1 \in Nat
      BY <1>1
    <3>2. TicksTo(q, j) = TicksTo(q, j - 1) + q[j].diff /\ TicksTo(q, j - 1) \in Nat
          /\ q[j].diff \in Nat
      BY <1>1, <1>2, <3>1
    <3>3. CASE j = 1
      <4>1. f[j] = TicksTo(q, j) - 1 /\ f[j - 1] = 0 /\ r[j].diff = q[j].diff - 1
            /\ TicksTo(q, j - 1) = 0
        BY <1>2, <2>5, <3>1, <3>3
      <4> HIDE DEF f
      <4> QED  BY <3>2, <4>1
    <3>4. CASE j # 1
      <4>1. j - 1 # 0
        BY <3>4
      <4>2. f[j] = TicksTo(q, j) - 1 /\ f[j - 1] = TicksTo(q, j - 1) - 1 /\ r[j].diff = q[j].diff
        BY <2>5, <3>1, <3>4, <4>1
      <4> HIDE DEF f
      <4> QED  BY <3>2, <4>2
    <3> QED  BY <3>3, <3>4
  <2>8. f[0] = 0 /\ \A j \in 1 .. n : f[j] = TicksTo(q, j) - 1 /\ j \in 0 .. n
    BY <1>1
  <2> HIDE DEF f
  <2>9. \A j \in 0 .. n : TicksTo(r, j) = f[j]
    BY <2>5, <2>7, <2>8, TicksToAre
  <2> QED  BY <2>5, <2>6, <2>8, <2>9 DEF r, n
<1> QED  BY <1>3, <1>4

\* A list without its head counts from there.
LEMMA TailTicks ==
  ASSUME NEW q \in Seq(Entries), q # <<>>
  PROVE  /\ Tail(q) \in Seq(Entries) /\ Len(Tail(q)) = Len(q) - 1
         /\ \A i \in 1 .. Len(q) - 1 : /\ Tail(q)[i] = q[i + 1]
                                       /\ TicksTo(Tail(q), i) = TicksTo(q, i + 1) - TicksTo(q, 1)
<1> DEFINE f == [j \in 0 .. Len(q) - 1 |-> TicksTo(q, j + 1) - TicksTo(q, 1)]
<1>1. /\ Tail(q) \in Seq(Entries) /\ Len(Tail(q)) = Len(q) - 1 /\ Len(q) \in Nat /\ Len(q) >= 1
      /\ \A i \in 1 .. Len(q) - 1 : Tail(q)[i] = q[i + 1]
  BY SeqEnds
<1>2. /\ \A j \in 1 .. Len(q) : TicksTo(q, j) = TicksTo(q, j - 1) + q[j].diff
      /\ \A j \in 0 .. Len(q) : TicksTo(q, j) \in Nat
      /\ \A j \in 1 .. Len(q) : q[j].diff \in Nat
  <2>1. \A j \in 1 .. Len(q) : q[j] \in Entries
    OBVIOUS
  <2>2. \A j \in 1 .. Len(q) : q[j].diff \in Nat
    BY <2>1 DEF Entries
  <2> QED  BY <2>2, TicksToStep, TicksToGrows
<1>3. f[0] = 0
  <2>1. 0 \in 0 .. Len(q) - 1 /\ TicksTo(q, 1) \in Nat /\ 0 + 1 = 1
    BY <1>1, <1>2
  <2> QED  BY <2>1
<1>4. ASSUME NEW j \in 1 .. Len(q) - 1 PROVE f[j] = f[j - 1] + Tail(q)[j].diff
  <2>1. /\ j \in 0 .. Len(q) - 1 /\ j - 1 \in 0 .. Len(q) - 1 /\ (j - 1) + 1 = j
        /\ j + 1 \in 1 .. Len(q) /\ (j + 1) - 1 = j /\ j \in 0 .. Len(q) /\ 1 \in 0 .. Len(q)
    BY <1>1
  <2>2. f[j] = TicksTo(q, j + 1) - TicksTo(q, 1) /\ f[j - 1] = TicksTo(q, j) - TicksTo(q, 1)
    BY <2>1
  <2>3. TicksTo(q, j + 1) = TicksTo(q, j) + q[j + 1].diff /\ Tail(q)[j] = q[j + 1]
    BY <1>1, <1>2, <2>1
  <2>4. TicksTo(q, j) \in Nat /\ TicksTo(q, 1) \in Nat /\ q[j + 1].diff \in Nat
    BY <1>2, <2>1
  <2> HIDE DEF f
  <2> QED  BY <2>2, <2>3, <2>4
<1>5. \A j \in 1 .. Len(q) - 1 : f[j] = TicksTo(q, j + 1) - TicksTo(q, 1) /\ j \in 0 .. Len(q) - 1
  BY <1>1
<1> DEFINE u == Tail(q)
<1>7. /\ u \in Seq(Entries) /\ Len(u) = Len(q) - 1
      /\ \A j \in 1 .. Len(u) : f[j] = f[j - 1] + u[j].diff
  BY <1>1, <1>4
<1> HIDE DEF f, u
<1>8. \A j \in 0 .. Len(u) : TicksTo(u, j) = f[j]
  BY <1>3, <1>7, TicksToAre
<1>6. \A j \in 0 .. Len(q) - 1 : TicksTo(Tail(q), j) = f[j]
  BY <1>7, <1>8 DEF u
<1> QED  BY <1>1, <1>5, <1>6

LEMMA TickPasses ==
  ASSUME NEW q, DeltaList(q)
  PROVE  /\ IsFiniteSet(Waking(TickHead(q)))
         /\ Waking(TickHead(q)) = {t \in Tasks : Countdown(q)[t] = 1}
         /\ Waking(TickHead(q)) = {} =>
              /\ DeltaList(TickHead(q)) /\ Range(Names(TickHead(q))) = Range(Names(q))
              /\ Countdown(TickHead(q)) = Passed(Countdown(q))
         /\ Waking(TickHead(q)) # {} /\ ~ (Cardinality(Waking(TickHead(q))) > 1) =>
              /\ Waking(TickHead(q)) = {Head(TickHead(q)).task} /\ TickHead(q) # <<>>
              /\ Head(TickHead(q)).task \in Range(Names(q))
              /\ Head(TickHead(q)).task \in Tasks
              /\ DeltaList(Tail(TickHead(q)))
              /\ Range(Names(Tail(TickHead(q)))) = Range(Names(q)) \ {Head(TickHead(q)).task}
              /\ Countdown(Tail(TickHead(q))) = Passed(Countdown(q))
<1> DEFINE r == TickHead(q)
           n == Len(q)
           awake == {j \in 1 .. n : TicksTo(r, j) = 0}
           c == Countdown(q)
           p == Passed(c)
<1>1. /\ r \in Seq(Entries) /\ Len(r) = n /\ DOMAIN r = 1 .. n /\ n \in Nat
      /\ Names(r) = Names(q) /\ q \in Seq(Entries) /\ DOMAIN q = 1 .. n
      /\ \A i \in 1 .. n : r[i].task = q[i].task /\ TicksTo(r, i) = TicksTo(q, i) - 1
  <2>1. q \in Seq(Entries)
    BY DEF DeltaList
  <2> QED  BY <2>1, HeadTicks
<1>2. /\ \A i \in 1 .. n : q[i].task \in Tasks /\ c[q[i].task] = TicksTo(q, i)
      /\ \A t \in Tasks : t \in Range(Names(q)) <=> \E i \in 1 .. n : q[i].task = t
      /\ \A t \in Tasks : c[t] \in 0 .. WORD - 1 /\ (c[t] = 0 <=> t \notin Range(Names(q)))
      /\ c \in [Tasks -> Nat]
  BY CountdownIs
<1>3. /\ \A i \in 1 .. n : TicksTo(q, i) \in 1 .. WORD - 1
      /\ \A i, j \in 1 .. n : q[i].task = q[j].task => i = j
      /\ WORD \in Nat
  BY <1>1, DanielsAssumption DEF DeltaList, IsInjective, Names, DanielsAssumption
<1>4. p \in [Tasks -> Nat] /\ \A t \in Tasks : p[t] = IF c[t] \in {0, 1} THEN 0 ELSE c[t] - 1
  BY <1>2 DEF Passed
<1>5. Waking(r) = {r[i].task : i \in awake}
  BY <1>1 DEF Waking
<1>6. IsFiniteSet(Waking(r))
  <2>1. IsFiniteSet(1 .. n)
    BY <1>1, FS_Interval
  <2>2. awake \subseteq 1 .. n
    OBVIOUS
  <2> HIDE DEF awake, r
  <2>3. IsFiniteSet(awake)
    BY <2>1, <2>2, FS_Subset
  <2> DEFINE g == [i \in awake |-> r[i].task]
  <2>4. g \in Surjection(awake, Waking(r))
    BY <1>5 DEF Surjection
  <2> HIDE DEF g
  <2> QED  BY <2>3, <2>4, FS_Surjection
<1> HIDE DEF r, n, c, p
<1>7. \A t : t \in Waking(r) <=> \E i \in 1 .. n : q[i].task = t /\ TicksTo(q, i) = 1
  <2>1. \A i \in 1 .. n : TicksTo(r, i) = 0 <=> TicksTo(q, i) = 1
    BY <1>1, <1>3
  <2> QED  BY <1>1, <1>5, <2>1
<1>8. Waking(r) = {t \in Tasks : c[t] = 1}
  <2>1. ASSUME NEW t \in Waking(r) PROVE t \in Tasks /\ c[t] = 1
    BY <1>2, <1>7
  <2>2. ASSUME NEW t \in Tasks, c[t] = 1 PROVE t \in Waking(r)
    <3>1. t \in Range(Names(q))
      BY <1>2, <2>2
    <3>2. PICK i \in 1 .. n : q[i].task = t
      BY <1>2, <3>1
    <3> QED  BY <1>2, <1>7, <2>2, <3>2
  <2> QED  BY <2>1, <2>2
<1>9. ASSUME Waking(r) = {}
      PROVE  /\ DeltaList(r) /\ Range(Names(r)) = Range(Names(q)) /\ Countdown(r) = p
  <2>1. \A i \in 1 .. n : TicksTo(r, i) \in 1 .. WORD - 1
    <3>1. \A i \in 1 .. n : TicksTo(q, i) # 1
      BY <1>7, <1>9
    <3> QED  BY <1>1, <1>3, <3>1
  <2>2. DeltaList(r)
    BY <1>1, <2>1 DEF DeltaList
  <2>3. ASSUME NEW i \in 1 .. Len(r) PROVE p[r[i].task] = TicksTo(r, i)
    <3>1. TicksTo(q, i) # 1 /\ i \in 1 .. n
      BY <1>1, <1>7, <1>9
    <3>2. p[q[i].task] = IF TicksTo(q, i) \in {0, 1} THEN 0 ELSE TicksTo(q, i) - 1
      BY <1>2, <1>4, <3>1
    <3> QED  BY <1>1, <1>3, <3>1, <3>2
  <2>4. \A t \in Tasks : t \notin Range(Names(r)) => p[t] = 0
    BY <1>1, <1>2, <1>4
  <2> QED  BY <1>1, <1>4, <2>2, <2>3, <2>4, CountdownBy
<1>10. ASSUME Waking(r) # {}, ~ (Cardinality(Waking(r)) > 1)
       PROVE  /\ Waking(r) = {Head(r).task} /\ r # <<>>
              /\ Head(r).task \in Range(Names(q)) /\ Head(r).task \in Tasks
              /\ DeltaList(Tail(r))
              /\ Range(Names(Tail(r))) = Range(Names(q)) \ {Head(r).task}
              /\ Countdown(Tail(r)) = p
  <2> DEFINE w == Head(r).task
             u == Tail(r)
  <2>1. PICK k \in 1 .. n : TicksTo(q, k) = 1
    BY <1>7, <1>10
  <2>2. 1 \in 1 .. n /\ 1 \in 0 .. n /\ k \in 0 .. n
    BY <1>1, <2>1
  <2>3. TicksTo(q, 1) = 1
    <3>1. TicksTo(q, 1) <= TicksTo(q, k) /\ 1 <= k
      BY <1>1, <2>1, <2>2, TicksToGrows
    <3> QED  BY <1>3, <2>1, <2>2, <3>1
  <2>4. r # <<>> /\ Head(r) = r[1] /\ w = q[1].task
    <3>1. r # <<>>
      BY <1>1, <2>2
    <3> QED  BY <1>1, <2>2, <3>1, SeqEnds
  <2>5. w \in Waking(r)
    BY <1>7, <2>2, <2>3, <2>4
  <2>6. Waking(r) = {w}
    <3> SUFFICES ASSUME NEW v \in Waking(r), v # w PROVE FALSE
      BY <2>5
    <3> HIDE DEF w
    <3>1. {w} \subseteq Waking(r) /\ {w} # Waking(r)
      BY <2>5
    <3>2. Cardinality({w}) = 1
      BY FS_Singleton
    <3>3. /\ Cardinality({w}) <= Cardinality(Waking(r)) /\ Cardinality(Waking(r)) \in Nat
          /\ Cardinality(Waking(r)) # Cardinality({w})
      BY <1>6, <3>1, FS_Subset, FS_CardinalityType
    <3> QED  BY <1>10, <3>2, <3>3
  <2>7. /\ u \in Seq(Entries) /\ Len(u) = n - 1 /\ DOMAIN u = 1 .. n - 1
        /\ \A i \in 1 .. n - 1 : /\ i + 1 \in 1 .. n /\ u[i].task = q[i + 1].task
                                 /\ TicksTo(u, i) = TicksTo(q, i + 1) - 1
    <3>1. /\ u \in Seq(Entries) /\ Len(u) = n - 1
          /\ \A i \in 1 .. n - 1 : u[i] = r[i + 1] /\ TicksTo(u, i) = TicksTo(r, i + 1) - TicksTo(r, 1)
      BY <1>1, <2>4, TailTicks
    <3>2. TicksTo(r, 1) = 0
      BY <1>1, <2>2, <2>3
    <3>3. \A i \in 1 .. n - 1 : i + 1 \in 1 .. n
      BY <1>1
    <3> HIDE DEF u
    <3>4. ASSUME NEW i \in 1 .. n - 1
          PROVE  u[i].task = q[i + 1].task /\ TicksTo(u, i) = TicksTo(q, i + 1) - 1
      <4>1. TicksTo(r, i + 1) = TicksTo(q, i + 1) - 1 /\ TicksTo(q, i + 1) \in 1 .. WORD - 1
        BY <1>1, <1>3, <3>3
      <4>2. u[i].task = q[i + 1].task
        BY <1>1, <3>1, <3>3
      <4>3. TicksTo(u, i) = (TicksTo(q, i + 1) - 1) - 0
        BY <3>1, <3>2, <4>1
      <4> QED  BY <1>3, <4>1, <4>2, <4>3
    <3> QED  BY <3>1, <3>3, <3>4
  <2> HIDE DEF u
  <2>8. \A i \in 1 .. n - 1 : TicksTo(q, i + 1) # 1
    <3> SUFFICES ASSUME NEW i \in 1 .. n - 1, TicksTo(q, i + 1) = 1 PROVE FALSE
      OBVIOUS
    <3>1. i + 1 \in 1 .. n
      BY <2>7
    <3>2. q[i + 1].task = w
      BY <1>7, <2>6, <3>1
    <3> HIDE DEF w
    <3>3. i + 1 = 1
      BY <1>3, <2>2, <2>4, <3>1, <3>2
    <3> QED  BY <1>1, <3>3
  <2>9. DeltaList(u)
    <3>1. ASSUME NEW i \in 1 .. n - 1 PROVE TicksTo(u, i) \in 1 .. WORD - 1
      <4>1. i + 1 \in 1 .. n /\ TicksTo(q, i + 1) \in 1 .. WORD - 1 /\ TicksTo(q, i + 1) # 1
            /\ TicksTo(u, i) = TicksTo(q, i + 1) - 1
        BY <1>3, <2>7, <2>8
      <4> QED  BY <1>3, <4>1
    <3>2. ASSUME NEW i \in 1 .. n - 1, NEW j \in 1 .. n - 1, u[i].task = u[j].task
          PROVE  i = j
      <4>1. i + 1 = j + 1
        BY <1>3, <2>7, <3>2
      <4> QED  BY <1>1, <4>1
    <3> QED  BY <2>7, <3>1, <3>2 DEF DeltaList, IsInjective, Names
  <2>10. \A t : t \in Range(Names(u)) <=> t \in Range(Names(q)) /\ t # w
    <3>1. \A t : t \in Range(Names(u)) <=> \E i \in 1 .. n - 1 : q[i + 1].task = t
      BY <2>7 DEF Range, Names
    <3>2. \A t : t \in Range(Names(q)) <=> \E i \in 1 .. n : q[i].task = t
      BY <1>1 DEF Range, Names
    <3>3. ASSUME NEW i \in 1 .. n, q[i].task # w PROVE \E j \in 1 .. n - 1 : j + 1 = i
      <4>1. i # 1
        BY <2>4, <3>3
      <4>2. i - 1 \in 1 .. n - 1 /\ (i - 1) + 1 = i
        BY <1>1, <4>1
      <4> QED  BY <4>2
    <3>4. ASSUME NEW i \in 1 .. n - 1 PROVE i + 1 \in 1 .. n /\ q[i + 1].task # w
      <4>1. i + 1 \in 1 .. n /\ i + 1 # 1
        BY <1>1
      <4> QED  BY <1>3, <2>2, <2>4, <4>1
    <3> HIDE DEF w
    <3> QED  BY <3>1, <3>2, <3>3, <3>4
  <2>11. Countdown(u) = p
    <3>1. ASSUME NEW i \in 1 .. Len(u) PROVE p[u[i].task] = TicksTo(u, i)
      <4>1. /\ i + 1 \in 1 .. n /\ TicksTo(q, i + 1) \in 1 .. WORD - 1 /\ TicksTo(q, i + 1) # 1
            /\ TicksTo(u, i) = TicksTo(q, i + 1) - 1 /\ u[i].task = q[i + 1].task
        BY <1>3, <2>7, <2>8
      <4>2. p[q[i + 1].task] = IF TicksTo(q, i + 1) \in {0, 1} THEN 0 ELSE TicksTo(q, i + 1) - 1
        BY <1>2, <1>4, <4>1
      <4> QED  BY <1>3, <4>1, <4>2
    <3>2. ASSUME NEW t \in Tasks, t \notin Range(Names(u)) PROVE p[t] = 0
      <4>1. t \notin Range(Names(q)) \/ t = w
        BY <2>10, <3>2
      <4>2. c[t] = 0 \/ c[t] = 1
        BY <1>2, <1>8, <2>5, <4>1
      <4> QED  BY <1>4, <4>2
    <3> QED  BY <1>4, <2>9, <3>1, <3>2, CountdownBy
  <2>12. w \in Range(Names(q)) /\ w \in Tasks
    BY <1>2, <2>2, <2>4
  <2> QED  BY <2>4, <2>6, <2>9, <2>10, <2>11, <2>12 DEF u
<1> QED  BY <1>6, <1>8, <1>9, <1>10 DEF r, c, p


-----------------------------------------------------------------------------
(* The inductive invariant.                                                *)

LEMMA TimerMaxType == TimerMax \in Nat
<1> DEFINE S == Wcets \cup {QUANTUM}
           b == WORD + QUANTUM
           R == {n \in Nat : b - n \in S}
<1>1. /\ b \in Nat /\ QUANTUM \in S /\ QUANTUM \in Nat /\ TICK \in Nat
      /\ \A v \in S : v \in Nat /\ v <= b
  BY DanielsAssumption DEF DanielsAssumption
<1> HIDE DEF S, b
<1>2. b - QUANTUM \in R
  BY <1>1
<1>3. PICK m \in R : \A k \in R : m <= k
  <2>1. R \in SUBSET Nat /\ R # {}
    BY <1>2
  <2> HIDE DEF R
  <2> QED  BY <2>1, LeastOne
<1>4. b - m \in S /\ \A v \in S : v <= b - m
  <2>1. ASSUME NEW v \in S PROVE v <= b - m
    <3>1. b - v \in Nat /\ b - (b - v) = v
      BY <1>1
    <3>2. b - v \in R
      BY <3>1
    <3>3. m <= b - v /\ m \in Nat
      BY <1>3, <3>2
    <3> QED  BY <1>1, <3>3
  <2> QED  BY <1>3, <2>1
<1> DEFINE w == CHOOSE x \in S : \A v \in S : v <= x
<1>5. w \in S
  BY <1>4
<1>6. TimerMax = TICK * (1 + w)
  BY DEF TimerMax, S
<1> HIDE DEF w
<1>7. 1 + w \in Nat
  BY <1>1, <1>5
<1> HIDE DEF R
<1> DEFINE x == 1 + w
<1> HIDE DEF x
<1>8. TICK * x \in Nat
  BY <1>1, <1>7 DEF x
<1> QED  BY <1>6, <1>8 DEF x

LEMMA InitIInv == Init => IInv
<1> SUFFICES ASSUME Init PROVE IInv
  OBVIOUS
<1> USE DanielsAssumption
<1>1. /\ cur_task \in Tasks /\ cur_task # Idle /\ level[Idle] = "NULL" /\ state[Idle] = "READY"
      /\ state[cur_task] = "RUNNING" /\ level[cur_task] = "SYSTEM"
      /\ \A t \in Tasks : t # cur_task => state[t] = "DEAD" /\ level[t] = "NULL"
  BY DEF Init, DanielsAssumption
<1>2. /\ rr_queue = <<>> /\ system_queue = <<>> /\ sleep_queue = <<>>
      /\ <<>> \in Seq(Tasks) /\ <<>> \in Seq([task : Tasks, diff : 0 .. WORD - 1])
      /\ Range(<<>>) = {} /\ IsInjective(<<>>) /\ Names(<<>>) = <<>> /\ <<>> \in Seq(Entries)
      /\ Len(<<>>) = 0
  BY DEF Init, Range, IsInjective, Names
<1>3. TypeOK
  <2>1. 0 \in 0 .. TimerMax
    BY TimerMaxType
  <2>2. \A t \in Tasks : timer[t] = [paused |-> TRUE, value |-> 0]
    BY DEF Init, Stopped
  <2>3. timer \in [Tasks -> [paused : BOOLEAN, value : 0 .. TimerMax]]
    BY <2>1 DEF Init, Stopped
  <2>4. cur_ticks \in 0 .. WORD - 1 /\ ms \in 0 .. TICK - 1 /\ num_events_created \in 0 .. MAXEVENT
    BY DEF Init, DanielsAssumption
  <2> QED  BY <1>1, <1>2, <2>3, <2>4 DEF Init, TypeOK, Located, Errors
<1>4. DescriptorsKept
  BY <1>1 DEF DescriptorsKept
<1>5. QueuesKept
  <2>1. Ready("RR") = {} /\ Ready("SYSTEM") = {}
    BY <1>1 DEF Ready
  <2> QED  BY <1>2, <2>1 DEF QueuesKept, Holds
<1>6. SleepersKept
  <2>1. {t \in Tasks : level[t] = "PERIODIC"} = {}
    BY <1>1
  <2> QED  BY <1>2, <2>1 DEF SleepersKept, DeltaList, Sleepers
<1>7. WaitersKept
  BY <1>1 DEF WaitersKept, Init, DanielsAssumption
<1>8. ReleasedKept
  BY <1>1 DEF ReleasedKept, Init, Level
<1>9. TimersKept
  BY <1>1 DEF TimersKept, Timed
<1>10. UrgencyKept
  BY <1>1 DEF UrgencyKept, MostUrgent, Level
<1> QED  BY <1>3, <1>4, <1>5, <1>6, <1>7, <1>8, <1>9, <1>10 DEF IInv

\* What the other parts say of sleep_queue types it.
LEMMA SleepQueueType ==
  ASSUME NEW q, DeltaList(q)
  PROVE  q \in Seq([task : Tasks, diff : 0 .. WORD - 1])
<1>1. /\ q \in Seq(Entries) /\ \A i \in 1 .. Len(q) : TicksTo(q, i) \in 1 .. WORD - 1
      /\ DOMAIN q = 1 .. Len(q) /\ Len(q) \in Nat
  BY DEF DeltaList
<1>2. \A i \in 1 .. Len(q) : q[i] \in Entries
  BY <1>1
<1>3. ASSUME NEW i \in 1 .. Len(q)
      PROVE  q[i] \in [task : Tasks, diff : 0 .. WORD - 1]
  <2>1. q[i] \in Entries /\ q[i].diff \in Nat
    BY <1>2 DEF Entries
  <2>2. TicksTo(q, i) = TicksTo(q, i - 1) + q[i].diff
    BY <1>1, TicksToStep
  <2>3. TicksTo(q, i - 1) \in Nat
    BY <1>1, TicksToGrows
  <2>4. TicksTo(q, i) \in 1 .. WORD - 1 /\ WORD \in Nat
    BY <1>1, DanielsAssumption DEF DanielsAssumption
  <2>5. q[i].diff \in 0 .. WORD - 1
    BY <2>1, <2>2, <2>3, <2>4
  <2> QED  BY <2>1, <2>5 DEF Entries
<1>4. q = [i \in 1 .. Len(q) |-> q[i]]
  BY <1>1
<1>5. q \in [1 .. Len(q) -> [task : Tasks, diff : 0 .. WORD - 1]]
  BY <1>3, <1>4
<1> DEFINE T == [task : Tasks, diff : 0 .. WORD - 1]
<1>6. q \in [1 .. Len(q) -> T] /\ Len(q) \in Nat
  BY <1>1, <1>5
<1> HIDE DEF T
<1>7. q \in Seq(T)
  BY <1>6
<1> QED  BY <1>7 DEF T

-----------------------------------------------------------------------------
(* Steps that leave the tasks where they are.                              *)

Settled == <<cur_task, tasks, queues, sleep_queue, current_periodic_task,
             events_waiting, preempt_async>>

LEMMA SettledKeeps ==
  ASSUME IInv, UNCHANGED Settled, TypeOK',
         inKernel' = inKernel \/ inKernel',
         state[cur_task] = "RUNNING" /\ Timed(cur_task) => timer'[cur_task].paused = timer[cur_task].paused
  PROVE  IInv'
<1> USE DEF Settled, tasks, queues
<1>1. DescriptorsKept'
  BY DEF IInv, DescriptorsKept
<1>2. QueuesKept'
  BY DEF IInv, QueuesKept, Ready
<1>3. SleepersKept'
  BY DEF IInv, SleepersKept, Sleepers
<1>4. WaitersKept'
  BY DEF IInv, WaitersKept
<1>5. ReleasedKept'
  BY DEF IInv, ReleasedKept, Level
<1>6. TimersKept'
  BY DEF IInv, TimersKept, Timed
<1>7. UrgencyKept'
  BY DEF IInv, UrgencyKept, MostUrgent, Level
<1> QED  BY <1>1, <1>2, <1>3, <1>4, <1>5, <1>6, <1>7 DEF IInv

LEMMA RestKeeps ==
  ASSUME IInv, UNCHANGED <<Settled, timer, num_events_created, clock, ms>>,
         inKernel' \in BOOLEAN, inKernel' = inKernel \/ inKernel',
         events_state' \subseteq Events, error_msg' \in Errors
  PROVE  IInv'
<1>1. TypeOK'
  BY DEF IInv, TypeOK, Settled, tasks, queues, clock, Located
<1> QED  BY <1>1, SettledKeeps DEF Settled

LEMMA AbortKeeps ==
  ASSUME IInv, NEW e \in Errors, Abort(e)
  PROVE  IInv'
<1>1. inKernel \in BOOLEAN /\ events_state \subseteq Events
  BY DEF IInv, TypeOK
<1> QED  BY <1>1, RestKeeps DEF Abort, Settled, events, queues, tasks

LEMMA CreateFailsKeeps == IInv /\ CreateFails => IInv'
<1> SUFFICES ASSUME IInv, CreateFails PROVE IInv'
  OBVIOUS
<1>1. error_msg \in Errors /\ events_state \subseteq Events
  BY DEF IInv, TypeOK
<1> QED  BY <1>1, RestKeeps DEF CreateFails, Enter, Settled, events, queues, tasks

LEMMA Event_InitKeeps == IInv /\ Event_Init => IInv'
<1> SUFFICES ASSUME IInv, Event_Init PROVE IInv'
  OBVIOUS
<1>1. error_msg \in Errors /\ events_state \subseteq Events /\ num_events_created \in 0 .. MAXEVENT
  BY DEF IInv, TypeOK
<1>2. num_events_created' \in 0 .. MAXEVENT
  BY <1>1, DanielsAssumption DEF Event_Init, DanielsAssumption
<1>3. TypeOK'
  BY <1>2 DEF IInv, TypeOK, Event_Init, Enter, tasks, queues, clock, Located
<1> QED  BY <1>1, <1>3, SettledKeeps DEF Event_Init, Enter, Settled

LEMMA Event_ClearKeeps ==
  ASSUME IInv, NEW e \in Events, Event_Clear(e)
  PROVE  IInv'
<1>1. error_msg \in Errors /\ events_state \subseteq Events
  BY DEF IInv, TypeOK
<1> QED  BY <1>1, RestKeeps DEF Event_Clear, Enter, Settled

LEMMA RecordKeeps ==
  ASSUME IInv, NEW e \in Events, Record(e), Enter \/ UNCHANGED <<inKernel, error_msg>>
  PROVE  IInv'
<1>1. error_msg \in Errors /\ events_state \subseteq Events /\ inKernel \in BOOLEAN
  BY DEF IInv, TypeOK
<1> QED  BY <1>1, RestKeeps DEF Record, Enter, Settled

LEMMA AbortedKeeps == IInv /\ Aborted => IInv'
<1> SUFFICES ASSUME IInv, Aborted PROVE IInv'
  OBVIOUS
<1>1. error_msg \in Errors /\ events_state \subseteq Events /\ inKernel \in BOOLEAN
  BY DEF IInv, TypeOK
<1> QED  BY <1>1, RestKeeps DEF Aborted, vars, Settled, events

\* A millisecond, with or without a tick, moves the timers that run.
LEMMA TimersMove ==
  ASSUME TypeOK
  PROVE  /\ TimersAfterMs \in [Tasks -> [paused : BOOLEAN, value : 0 .. TimerMax]]
         /\ \A t \in Tasks : TimersAfterMs[t].paused = timer[t].paused
<1>1. ASSUME NEW t \in Tasks
      PROVE  /\ TimersAfterMs[t] \in [paused : BOOLEAN, value : 0 .. TimerMax]
             /\ TimersAfterMs[t].paused = timer[t].paused
  <2>1. /\ timer[t] \in [paused : BOOLEAN, value : 0 .. TimerMax]
        /\ timer[t].value \in 0 .. TimerMax /\ TimerMax \in Nat
    BY TimerMaxType DEF TypeOK
  <2> DEFINE tm == timer[t]
  <2>2. TimersAfterMs[t] = IF ~tm.paused /\ tm.value < TimerMax
                           THEN [tm EXCEPT !.value = @ + 1] ELSE tm
    BY DEF TimersAfterMs
  <2>3. tm.value < TimerMax => tm.value + 1 \in 0 .. TimerMax
    BY <2>1
  <2>4. tm \in [paused : BOOLEAN, value : 0 .. TimerMax]
    BY <2>1
  <2> HIDE DEF tm
  <2>5. TimersAfterMs[t] \in [paused : BOOLEAN, value : 0 .. TimerMax]
        /\ TimersAfterMs[t].paused = tm.paused
    BY <2>2, <2>3, <2>4
  <2> QED  BY <2>5 DEF tm
<1>2. TimersAfterMs = [t \in Tasks |-> TimersAfterMs[t]]
  BY DEF TimersAfterMs
<1> QED  BY <1>1, <1>2

LEMMA MillisecondKeeps == IInv /\ Millisecond => IInv'
<1> SUFFICES ASSUME IInv, Millisecond PROVE IInv'
  OBVIOUS
<1>1. timer' = TimersAfterMs /\ timer' \in [Tasks -> [paused : BOOLEAN, value : 0 .. TimerMax]]
      /\ \A t \in Tasks : timer'[t].paused = timer[t].paused
  BY TimersMove DEF IInv, Millisecond
<1>2. ms' \in 0 .. TICK - 1
  BY DanielsAssumption DEF IInv, TypeOK, Millisecond, DanielsAssumption
<1>3. TypeOK'
  BY <1>1, <1>2 DEF IInv, TypeOK, Millisecond, tasks, queues, events, clock, Located
<1> QED  BY <1>1, <1>3, SettledKeeps DEF Millisecond, Settled, events, Timed

-----------------------------------------------------------------------------
(* A dispatch.                                                             *)

\* Where the running task stands.
LEMMA Standing ==
  ASSUME IInv
  PROVE  /\ cur_task \in Tasks \cup {Idle} /\ Idle \notin Tasks /\ NULL \notin Tasks
         /\ cur_task # Idle => cur_task \in Tasks
         /\ \A t \in Tasks : state[t] = "RUNNING" => t = cur_task
         /\ \A t \in Tasks : t \in Range(system_queue) => level[t] = "SYSTEM" /\ state[t] = "READY"
         /\ \A t \in Tasks : t \in Range(rr_queue) <=> level[t] = "RR" /\ state[t] = "READY"
         /\ \A t \in Tasks : level[t] \in {"SYSTEM", "PERIODIC", "RR"} => state[t] # "DEAD"
         /\ \A t \in Tasks : level[t] = "PERIODIC" => state[t] \in {"READY", "RUNNING"}
         /\ state[Idle] = IF cur_task = Idle THEN "RUNNING" ELSE "READY"
         /\ level[Idle] = "NULL"
         /\ state \in [Tasks \cup {Idle} -> {"DEAD", "RUNNING", "READY", "WAITING"}]
         /\ level \in [Tasks \cup {Idle} -> {"NULL", "SYSTEM", "PERIODIC", "RR"}]
<1> USE DEF IInv
<1>1. /\ cur_task \in Tasks \cup {Idle} /\ Idle \notin Tasks /\ NULL \notin Tasks
      /\ state \in [Tasks \cup {Idle} -> {"DEAD", "RUNNING", "READY", "WAITING"}]
      /\ level \in [Tasks \cup {Idle} -> {"NULL", "SYSTEM", "PERIODIC", "RR"}]
  BY DanielsAssumption DEF DanielsAssumption, TypeOK
<1>2. /\ \A t \in Tasks : state[t] = "RUNNING" => t = cur_task
      /\ state[Idle] = IF cur_task = Idle THEN "RUNNING" ELSE "READY"
      /\ level[Idle] = "NULL"
      /\ \A t \in Tasks : level[t] \in {"SYSTEM", "PERIODIC", "RR"} => state[t] # "DEAD"
  BY DEF DescriptorsKept
<1>3. /\ \A t \in Tasks : t \in Range(system_queue) => level[t] = "SYSTEM" /\ state[t] = "READY"
      /\ \A t \in Tasks : t \in Range(rr_queue) <=> level[t] = "RR" /\ state[t] = "READY"
  BY DEF QueuesKept, Ready, Holds
<1>4. \A t \in Tasks : level[t] = "PERIODIC" => state[t] \in {"READY", "RUNNING"}
  BY <1>1, <1>2 DEF WaitersKept
<1> QED  BY <1>1, <1>2, <1>3, <1>4

\* The task kernel_dispatch picks, with the round-robin queue it picks from.
LEMMA ChosenLemma ==
  ASSUME IInv, NEW rr \in Seq(Tasks), \A t \in Range(rr) : level[t] = "RR"
  PROVE  /\ Chosen(rr) \in Tasks \cup {Idle}
         /\ level[Chosen(rr)] = "SYSTEM" =>
              system_queue # <<>> /\ Chosen(rr) = Head(system_queue) /\ Chosen(rr) \in Range(system_queue)
         /\ level[Chosen(rr)] = "PERIODIC" =>
              system_queue = <<>> /\ current_periodic_task = Chosen(rr)
         /\ level[Chosen(rr)] = "RR" =>
              /\ system_queue = <<>> /\ current_periodic_task = NULL
              /\ rr # <<>> /\ Chosen(rr) = Head(rr) /\ Chosen(rr) \in Range(rr)
         /\ level[Chosen(rr)] = "NULL" =>
              /\ system_queue = <<>> /\ current_periodic_task = NULL /\ rr = <<>>
              /\ Chosen(rr) = Idle
         /\ Chosen(rr) = Idle => level[Chosen(rr)] = "NULL"
         /\ level[Chosen(rr)] \in {"NULL", "SYSTEM", "PERIODIC", "RR"}
<1>1. /\ system_queue \in Seq(Tasks) /\ current_periodic_task \in Tasks \cup {NULL}
      /\ current_periodic_task # NULL => level[current_periodic_task] = "PERIODIC"
  BY DEF IInv, TypeOK, ReleasedKept, Located
<1>2. /\ system_queue # <<>> => Head(system_queue) \in Range(system_queue)
      /\ Range(system_queue) \subseteq Tasks /\ Range(rr) \subseteq Tasks
      /\ rr # <<>> => Head(rr) \in Range(rr)
  BY <1>1, SeqEnds
<1>3. /\ \A t \in Tasks : t \in Range(system_queue) => level[t] = "SYSTEM" /\ state[t] = "READY"
      /\ level[Idle] = "NULL" /\ Idle \notin Tasks
  BY Standing
<1> QED  BY <1>1, <1>2, <1>3 DEF Chosen

LEMMA DispatchKeeps == IInv /\ Dispatch => IInv' /\ MostUrgent'
<1> SUFFICES ASSUME IInv, Dispatch PROVE IInv' /\ MostUrgent'
  OBVIOUS
<1> DEFINE rr == IF AsyncPreempts /\ Level = "RR" THEN Cons(cur_task, rr_queue) ELSE rr_queue
           t  == Chosen(rr)
           switch == state[cur_task] # "RUNNING" \/ AsyncPreempts \/ cur_task = Idle
           given == {x \in Tasks : level[x] = "RR" /\ (state[x] = "READY" \/ (x = cur_task /\ AsyncPreempts))}
           paused == IF AsyncPreempts /\ Timed(cur_task) THEN timer_pause(cur_task) ELSE timer
<1>0. /\ inKernel /\ error_msg = "NONE" /\ inKernel' = FALSE
      /\ UNCHANGED <<level, wcet, period, sleep_queue, current_periodic_task, events,
                     preempt_async, clock, ms, error_msg>>
  BY DEF Dispatch
<1>1. /\ cur_task \in Tasks \cup {Idle} /\ Idle \notin Tasks /\ NULL \notin Tasks
      /\ cur_task # Idle => cur_task \in Tasks
      /\ \A x \in Tasks : state[x] = "RUNNING" => x = cur_task
      /\ state[Idle] = IF cur_task = Idle THEN "RUNNING" ELSE "READY"
      /\ level[Idle] = "NULL"
      /\ state \in [Tasks \cup {Idle} -> {"DEAD", "RUNNING", "READY", "WAITING"}]
      /\ level \in [Tasks \cup {Idle} -> {"NULL", "SYSTEM", "PERIODIC", "RR"}]
  BY Standing
<1>2. CASE ~switch
  <2>1. UNCHANGED <<cur_task, state, queues, timer>> /\ state[cur_task] = "RUNNING"
        /\ ~preempt_async /\ cur_task # Idle
    BY <1>2 DEF Dispatch, AsyncPreempts
  <2>2. TypeOK'
    BY <1>0, <2>1 DEF IInv, TypeOK, queues, events, clock, Located
  <2>3. UNCHANGED Settled
    BY <1>0, <2>1 DEF Settled, tasks, events, queues
  <2>4. DescriptorsKept'
    BY <1>0, <2>1 DEF IInv, DescriptorsKept
  <2>5. QueuesKept' /\ SleepersKept' /\ WaitersKept' /\ ReleasedKept' /\ TimersKept' /\ UrgencyKept'
    <3> USE <2>1, <2>3 DEF IInv, Settled, tasks, queues
    <3>1. QueuesKept'
      BY DEF QueuesKept, Ready
    <3>2. SleepersKept'
      BY DEF SleepersKept, Sleepers
    <3>3. WaitersKept'
      BY DEF WaitersKept
    <3>4. ReleasedKept'
      BY DEF ReleasedKept, Level
    <3>5. TimersKept'
      BY DEF TimersKept, Timed
    <3>6. UrgencyKept'
      BY DEF UrgencyKept, MostUrgent, Level
    <3> QED  BY <3>1, <3>2, <3>3, <3>4, <3>5, <3>6
  <2>6. MostUrgent'
    BY <1>0, <2>1, <2>5 DEF UrgencyKept
  <2> QED  BY <2>2, <2>4, <2>5, <2>6 DEF IInv
<1>3. CASE switch
  <2>1. /\ cur_task' = t
        /\ state' = [state EXCEPT ![cur_task] = IF @ = "RUNNING" THEN "READY" ELSE @, ![t] = "RUNNING"]
        /\ system_queue' = IF level[t] = "SYSTEM" THEN Tail(system_queue) ELSE system_queue
        /\ rr_queue' = IF level[t] = "RR" THEN Tail(rr) ELSE rr
        /\ timer' = timer_resume(t, paused)
    BY <1>3 DEF Dispatch
  <2>2. rr \in Seq(Tasks) /\ Holds(rr, given) /\ \A x \in Range(rr) : level[x] = "RR"
    <3>1. rr_queue \in Seq(Tasks) /\ Holds(rr_queue, Ready("RR"))
      BY DEF IInv, TypeOK, QueuesKept
    <3>2. CASE AsyncPreempts /\ Level = "RR"
      <4>1. /\ cur_task \in Tasks /\ cur_task \notin Ready("RR")
            /\ given = Ready("RR") \cup {cur_task}
        BY <1>1, <3>2 DEF Ready, AsyncPreempts, Level
      <4> QED  BY <3>1, <3>2, <4>1, ConsHolds DEF Holds
    <3>3. CASE ~(AsyncPreempts /\ Level = "RR")
      <4>1. given = Ready("RR")
        BY <3>3 DEF Ready, Level
      <4> QED  BY <3>1, <3>3, <4>1 DEF Holds
    <3> QED  BY <3>2, <3>3
  <2> HIDE DEF rr, paused
  <2>3. /\ t \in Tasks \cup {Idle}
        /\ level[t] = "SYSTEM" => system_queue # <<>> /\ t = Head(system_queue) /\ t \in Range(system_queue)
        /\ level[t] = "PERIODIC" => system_queue = <<>> /\ current_periodic_task = t
        /\ level[t] = "RR" => /\ system_queue = <<>> /\ current_periodic_task = NULL
                              /\ rr # <<>> /\ t = Head(rr) /\ t \in Range(rr)
        /\ level[t] = "NULL" => /\ system_queue = <<>> /\ current_periodic_task = NULL /\ rr = <<>>
                                /\ t = Idle
        /\ t = Idle => level[t] = "NULL"
        /\ level[t] \in {"NULL", "SYSTEM", "PERIODIC", "RR"}
    BY <2>2, ChosenLemma
  <2> HIDE DEF t
  <2>4. /\ state' \in [Tasks \cup {Idle} -> {"DEAD", "RUNNING", "READY", "WAITING"}]
        /\ \A x \in Tasks \cup {Idle} :
             state'[x] = IF x = t THEN "RUNNING"
                         ELSE IF x = cur_task /\ state[x] = "RUNNING" THEN "READY" ELSE state[x]
    BY <1>1, <2>1, <2>3
  <2>5. /\ system_queue \in Seq(Tasks) /\ Holds(system_queue, Range(system_queue))
        /\ Range(system_queue) \subseteq Ready("SYSTEM")
        /\ ~preempt_async => Range(system_queue) = Ready("SYSTEM")
    BY DEF IInv, TypeOK, QueuesKept, Holds
  <2>6. /\ system_queue' \in Seq(Tasks)
        /\ Holds(system_queue', IF level[t] = "SYSTEM" THEN Range(system_queue) \ {t} ELSE Range(system_queue))
    BY <2>1, <2>3, <2>5, TailHolds
  <2>7. rr_queue' \in Seq(Tasks) /\ Holds(rr_queue', IF level[t] = "RR" THEN given \ {t} ELSE given)
    BY <2>1, <2>2, <2>3, TailHolds
  <2>8. /\ timer' \in [Tasks -> [paused : BOOLEAN, value : 0 .. TimerMax]]
        /\ t \in Tasks /\ level[t] \in {"PERIODIC", "RR"} => timer'[t].paused = FALSE
    <3>1. paused \in [Tasks -> [paused : BOOLEAN, value : 0 .. TimerMax]]
      BY DEF IInv, TypeOK, paused, timer_pause, Timed
    <3> QED  BY <2>1, <3>1 DEF timer_resume, Timed
  <2>9. TypeOK'
    BY <1>0, <2>1, <2>3, <2>4, <2>6, <2>7, <2>8 DEF IInv, TypeOK, events, clock, Located
  <2>10. DescriptorsKept'
    BY <1>0, <1>1, <2>1, <2>3, <2>4 DEF IInv, DescriptorsKept
  <2>11. QueuesKept'
    <3>1. Ready("RR")' = IF level[t] = "RR" THEN given \ {t} ELSE given
      <4>1. \A x \in Tasks : x \in given <=> level[x] = "RR" /\ (state[x] = "READY"
                               \/ (x = cur_task /\ state[x] = "RUNNING" /\ AsyncPreempts))
        BY DEF AsyncPreempts
      <4>2. \A x \in Tasks : state[x] = "RUNNING" => AsyncPreempts
        BY <1>1, <1>3 DEF AsyncPreempts
      <4> QED  BY <1>0, <1>1, <2>4, <4>1, <4>2 DEF Ready
    <3>2. \A x \in Tasks : x \in Ready("SYSTEM")' <=>
             x # t /\ (x \in Ready("SYSTEM") \/ (x = cur_task /\ state[x] = "RUNNING" /\ level[x] = "SYSTEM"))
      BY <1>0, <2>4 DEF Ready
    <3>3. Range(system_queue') \subseteq Ready("SYSTEM")'
      BY <2>3, <2>5, <2>6, <3>2 DEF Holds, Ready
    <3>4. ASSUME ~preempt_async PROVE Range(system_queue') = Ready("SYSTEM")'
      <4>1. \A x \in Tasks : state[x] # "RUNNING"
        BY <1>1, <1>3, <3>4 DEF AsyncPreempts
      <4>2. Ready("SYSTEM")' \subseteq Tasks /\ Ready("SYSTEM") \subseteq Tasks
        BY DEF Ready
      <4>3. level[t] # "SYSTEM" => t \notin Ready("SYSTEM")
        BY DEF Ready
      <4> QED  BY <2>5, <2>6, <3>2, <3>4, <4>1, <4>2, <4>3 DEF Holds
    <3> QED  BY <1>0, <2>6, <2>7, <3>1, <3>3, <3>4 DEF QueuesKept, Holds
  <2>12. SleepersKept'
    BY <1>0 DEF IInv, SleepersKept, Sleepers
  <2>13. WaitersKept'
    <3>1. \A x \in Tasks : state'[x] = "WAITING" <=> state[x] = "WAITING"
      <4>1. t \in Tasks => state[t] # "WAITING"
        <5>1. /\ \A x \in Tasks : x \in Range(system_queue) => state[x] = "READY"
              /\ \A x \in Tasks : level[x] = "PERIODIC" => state[x] \in {"READY", "RUNNING"}
          BY Standing
        <5>2. \A x \in Range(rr) : state[x] \in {"READY", "RUNNING"}
          BY <2>2 DEF Holds, AsyncPreempts
        <5> QED  BY <1>1, <2>3, <5>1, <5>2
      <4> QED  BY <2>4, <4>1
    <3> QED  BY <1>0, <3>1 DEF IInv, WaitersKept, events
  <2>14. ReleasedKept'
    BY <1>0, <2>1, <2>3 DEF IInv, ReleasedKept, Level
  <2>15. TimersKept'
    BY <1>0, <2>1, <2>8 DEF TimersKept, Timed
  <2>16. MostUrgent'
    BY <1>0, <2>1, <2>3 DEF MostUrgent, Level
  <2> QED
    BY <2>9, <2>10, <2>11, <2>12, <2>13, <2>14, <2>15, <2>16 DEF IInv, UrgencyKept
<1> QED  BY <1>2, <1>3

-----------------------------------------------------------------------------
(* A tick.                                                                 *)

\* What kernel_update_ticker leaves of the sleep queue, if it goes on.
LEMMA TickSleepers ==
  ASSUME IInv, ~WakeConflicts(Waking(TickHead(sleep_queue))),
         sleep_queue' = IF Waking(TickHead(sleep_queue)) = {} THEN TickHead(sleep_queue)
                        ELSE sleep_enqueue(Tail(TickHead(sleep_queue)), Head(TickHead(sleep_queue)).task,
                                           period[Head(TickHead(sleep_queue)).task])
  PROVE  /\ DeltaList(sleep_queue') /\ Range(Names(sleep_queue')) = Range(Names(sleep_queue))
         /\ Waking(TickHead(sleep_queue)) = {t \in Tasks : Countdown(sleep_queue)[t] = 1}
         /\ ~ (Cardinality(Waking(TickHead(sleep_queue))) > 1)
         /\ Waking(TickHead(sleep_queue)) = {} => Countdown(sleep_queue') = Passed(Countdown(sleep_queue))
         /\ Waking(TickHead(sleep_queue)) # {} =>
              /\ current_periodic_task = NULL
              /\ Head(TickHead(sleep_queue)).task \in Tasks
              /\ level[Head(TickHead(sleep_queue)).task] = "PERIODIC"
              /\ Waking(TickHead(sleep_queue)) = {Head(TickHead(sleep_queue)).task}
              /\ period[Head(TickHead(sleep_queue)).task] \in 1 .. WORD - 1
              /\ Countdown(sleep_queue') =
                   [Passed(Countdown(sleep_queue)) EXCEPT
                      ![Head(TickHead(sleep_queue)).task] = period[Head(TickHead(sleep_queue)).task]]
<1> DEFINE q == sleep_queue
           r == TickHead(q)
           due == Waking(r)
           w == Head(r).task
<1>1. /\ DeltaList(q) /\ Range(Names(q)) = {t \in Tasks : level[t] = "PERIODIC"}
      /\ \A t \in Tasks : level[t] = "PERIODIC" => period[t] # 0
      /\ period \in [Tasks -> {0} \cup Periods]
  BY DEF IInv, TypeOK, SleepersKept, Sleepers
<1>2. ~ (Cardinality(due) > 1) /\ (due # {} => current_periodic_task = NULL)
  BY DEF WakeConflicts
<1>3. /\ due = {t \in Tasks : Countdown(q)[t] = 1}
      /\ due = {} => /\ DeltaList(r) /\ Range(Names(r)) = Range(Names(q))
                     /\ Countdown(r) = Passed(Countdown(q))
      /\ due # {} => /\ due = {w} /\ w \in Range(Names(q)) /\ w \in Tasks
                     /\ DeltaList(Tail(r)) /\ Range(Names(Tail(r))) = Range(Names(q)) \ {w}
                     /\ Countdown(Tail(r)) = Passed(Countdown(q))
  BY <1>1, <1>2, TickPasses
<1> DEFINE u == Tail(r)
<1>4. sleep_queue' = IF due = {} THEN r ELSE sleep_enqueue(u, w, period[w])
  OBVIOUS
<1> HIDE DEF r, due, w, u
<1>5. CASE due = {}
  BY <1>2, <1>3, <1>4, <1>5 DEF r, due, w
<1>6. CASE due # {}
  <2>1. /\ w \in Tasks /\ level[w] = "PERIODIC" /\ period[w] \in 1 .. WORD - 1
    <3>1. w \in Tasks /\ level[w] = "PERIODIC" /\ period[w] # 0 /\ period[w] \in {0} \cup Periods
      BY <1>1, <1>3, <1>6
    <3>2. period[w] \in 0 .. WORD - 1 /\ WORD \in Nat
      BY <3>1, DanielsAssumption DEF DanielsAssumption
    <3> QED  BY <3>1, <3>2
  <2>2. DeltaList(u) /\ Range(Names(u)) = Range(Names(q)) \ {w} /\ w \notin Range(Names(u))
    BY <1>3, <1>6 DEF u
  <2>3. /\ DeltaList(sleep_enqueue(u, w, period[w]))
        /\ Range(Names(sleep_enqueue(u, w, period[w]))) = Range(Names(u)) \cup {w}
        /\ Countdown(sleep_enqueue(u, w, period[w])) = [Countdown(u) EXCEPT ![w] = period[w]]
    BY <2>1, <2>2, EnqueueStarts
  <2>4. Range(Names(u)) \cup {w} = Range(Names(q)) /\ Countdown(u) = Passed(Countdown(q))
    BY <1>3, <1>6, <2>2 DEF u
  <2> QED  BY <1>2, <1>3, <1>4, <1>6, <2>1, <2>3, <2>4 DEF r, due, w
<1> QED  BY <1>5, <1>6

LEMMA TickKeeps == IInv /\ Tick => IInv'
<1> SUFFICES ASSUME IInv, Tick PROVE IInv'
  OBVIOUS
<1> DEFINE ticked == TickHead(sleep_queue)
           due    == Waking(ticked)
           woken  == Head(ticked).task
           stops  == Level = "RR" /\ (Elapsed \/ due # {})
<1>1. InTask /\ inKernel = FALSE /\ ms = TICK - 1
  BY DEF Tick, InTask, IInv, TypeOK
<1>2. CASE WakeConflicts(due)
  BY <1>2, AbortKeeps DEF Tick, Errors
<1>3. CASE Level = "PERIODIC" /\ Elapsed
  BY <1>3, AbortKeeps DEF Tick, Errors
<1>4. CASE ~WakeConflicts(due) /\ ~(Level = "PERIODIC" /\ Elapsed)
  <2>1. /\ ms' = 0
        /\ cur_ticks' = (cur_ticks + 1) % WORD
        /\ tick_overflow_flag' = (tick_overflow_flag \/ cur_ticks' = WORD - 1)
        /\ sleep_queue' = IF due = {} THEN ticked
                          ELSE sleep_enqueue(Tail(ticked), woken, period[woken])
        /\ current_periodic_task' = IF due = {} THEN current_periodic_task ELSE woken
        /\ state' = [t \in Tasks \cup {Idle} |->
                        IF t \in due \/ (t = cur_task /\ stops) THEN "READY" ELSE state[t]]
        /\ rr_queue' = RrAfterTick(due)
        /\ timer' = IF ~stops THEN TimersAfterMs
                    ELSE IF Elapsed THEN [TimersAfterMs EXCEPT ![cur_task] = Stopped]
                    ELSE [TimersAfterMs EXCEPT ![cur_task].paused = TRUE]
        /\ inKernel' = TRUE /\ UNCHANGED error_msg
        /\ UNCHANGED <<cur_task, level, wcet, period, system_queue, events, preempt_async>>
    BY <1>4 DEF Tick, Enter
  <2>2. /\ cur_task \in Tasks \cup {Idle} /\ Idle \notin Tasks /\ NULL \notin Tasks
        /\ cur_task # Idle => cur_task \in Tasks
        /\ \A x \in Tasks : state[x] = "RUNNING" => x = cur_task
        /\ \A x \in Tasks : level[x] = "PERIODIC" => state[x] \in {"READY", "RUNNING"}
        /\ \A x \in Tasks : level[x] \in {"SYSTEM", "PERIODIC", "RR"} => state[x] # "DEAD"
        /\ state[Idle] = IF cur_task = Idle THEN "RUNNING" ELSE "READY"
        /\ level[Idle] = "NULL" /\ state[cur_task] = "RUNNING"
        /\ state \in [Tasks \cup {Idle} -> {"DEAD", "RUNNING", "READY", "WAITING"}]
        /\ level \in [Tasks \cup {Idle} -> {"NULL", "SYSTEM", "PERIODIC", "RR"}]
    BY <1>1, Standing DEF IInv, DescriptorsKept
  <2>3. /\ DeltaList(sleep_queue') /\ Range(Names(sleep_queue')) = Range(Names(sleep_queue))
        /\ due # {} => current_periodic_task = NULL /\ woken \in Tasks /\ level[woken] = "PERIODIC"
                       /\ due = {woken}
    BY <1>4, <2>1, TickSleepers
  <2>4. /\ \A x \in due : x \in Tasks /\ level[x] = "PERIODIC" /\ state[x] = "READY" /\ x # cur_task
    BY <2>2, <2>3 DEF IInv, ReleasedKept, Level
  <2>5. /\ stops \in BOOLEAN /\ (stops => Level = "RR" /\ cur_task \in Tasks)
        /\ ~stops => ~(Level = "RR" /\ due # {}) /\ (Level = "RR" => ~Elapsed)
    BY <2>2 DEF Level
  <2>6. rr_queue' = IF ~stops THEN rr_queue
                    ELSE IF Elapsed THEN Append(rr_queue, cur_task) ELSE Cons(cur_task, rr_queue)
    BY <2>1 DEF RrAfterTick
  <2>7. TimersAfterMs \in [Tasks -> [paused : BOOLEAN, value : 0 .. TimerMax]]
        /\ \A t \in Tasks : TimersAfterMs[t].paused = timer[t].paused
    BY TimersMove DEF IInv
  <2> HIDE DEF stops, due, woken, ticked
  <2>8. /\ state' \in [Tasks \cup {Idle} -> {"DEAD", "RUNNING", "READY", "WAITING"}]
        /\ \A x \in Tasks \cup {Idle} : state'[x] = IF x = cur_task /\ stops THEN "READY" ELSE state[x]
    BY <2>1, <2>2, <2>4
  <2>9. /\ rr_queue' \in Seq(Tasks)
        /\ Holds(rr_queue', IF stops THEN Ready("RR") \cup {cur_task} ELSE Ready("RR"))
    <3>1. rr_queue \in Seq(Tasks) /\ Holds(rr_queue, Ready("RR"))
      BY DEF IInv, TypeOK, QueuesKept
    <3>2. cur_task \notin Ready("RR")
      BY <2>2 DEF Ready
    <3> QED  BY <2>5, <2>6, <3>1, <3>2, AppendHolds, ConsHolds
  <2>10. timer' \in [Tasks -> [paused : BOOLEAN, value : 0 .. TimerMax]]
    <3>1. Stopped \in [paused : BOOLEAN, value : 0 .. TimerMax]
      BY TimerMaxType DEF Stopped
    <3>2. stops => [TimersAfterMs[cur_task] EXCEPT !.paused = TRUE] \in [paused : BOOLEAN, value : 0 .. TimerMax]
      BY <2>5, <2>7
    <3> HIDE DEF Elapsed, TimersAfterMs
    <3> QED  BY <2>1, <2>5, <2>7, <3>1, <3>2
  <2>11. ~stops => timer' = TimersAfterMs
    BY <2>1
  <2>12. cur_ticks' \in 0 .. WORD - 1 /\ ms' \in 0 .. TICK - 1 /\ tick_overflow_flag' \in BOOLEAN
    BY <2>1, DanielsAssumption DEF IInv, TypeOK, DanielsAssumption
  <2>13. current_periodic_task' \in Tasks \cup {NULL}
    BY <2>1, <2>3 DEF IInv, TypeOK, Located
  <2>14. sleep_queue' \in Seq([task : Tasks, diff : 0 .. WORD - 1])
    BY <2>3, SleepQueueType
  <2>15. TypeOK'
    BY <2>1, <2>8, <2>9, <2>10, <2>12, <2>13, <2>14 DEF IInv, TypeOK, events, Located
  <2>16. DescriptorsKept'
    BY <2>1, <2>2, <2>5, <2>8 DEF IInv, DescriptorsKept, Level
  <2>17. QueuesKept'
    <3>1. Ready("RR")' = IF stops THEN Ready("RR") \cup {cur_task} ELSE Ready("RR")
      BY <2>1, <2>2, <2>5, <2>8 DEF Ready, Level
    <3>2. Ready("SYSTEM")' = Ready("SYSTEM")
      BY <2>1, <2>2, <2>5, <2>8 DEF Ready, Level
    <3> QED  BY <2>1, <2>9, <3>1, <3>2 DEF IInv, QueuesKept, Holds
  <2>18. SleepersKept'
    BY <2>1, <2>3 DEF IInv, SleepersKept, Sleepers
  <2>19. WaitersKept'
    <3>1. \A x \in Tasks : state'[x] = "WAITING" <=> state[x] = "WAITING"
      BY <2>2, <2>8
    <3> QED  BY <2>1, <3>1 DEF IInv, WaitersKept, events
  <2>20. ReleasedKept'
    <3>1. due # {} => Level # "PERIODIC"
      BY <2>2, <2>3 DEF IInv, ReleasedKept, Level
    <3> QED  BY <2>1, <2>2, <2>3, <2>8, <3>1 DEF IInv, ReleasedKept, Level
  <2>21. TimersKept'
    BY <2>1, <2>2, <2>5, <2>7, <2>8, <2>11 DEF IInv, TimersKept, Timed, Level
  <2>22. UrgencyKept'
    <3> SUFFICES ASSUME ~stops, ~preempt_async, cur_task # Idle PROVE MostUrgent'
      BY <2>1, <2>2, <2>8 DEF UrgencyKept
    <3>1. MostUrgent
      BY <2>2 DEF IInv, UrgencyKept
    <3>2. Level # "NULL" /\ cur_task \in Tasks
      BY <2>2 DEF IInv, DescriptorsKept, Level
    <3>3. due # {} => Level # "PERIODIC" /\ Level # "RR"
      BY <2>2, <2>3, <2>5 DEF IInv, ReleasedKept, Level
    <3>4. Level' = Level /\ rr_queue' = rr_queue /\ system_queue' = system_queue /\ cur_task' = cur_task
      BY <2>1, <2>6 DEF Level
    <3>5. current_periodic_task' = current_periodic_task \/ Level \notin {"PERIODIC", "RR", "NULL"}
      BY <2>1, <3>2, <3>3
    <3> HIDE DEF Level
    <3> QED  BY <3>1, <3>4, <3>5 DEF MostUrgent
  <2> QED  BY <2>15, <2>16, <2>17, <2>18, <2>19, <2>20, <2>21, <2>22 DEF IInv
<1> QED  BY <1>2, <1>3, <1>4

-----------------------------------------------------------------------------
(* A task is created.                                                      *)

\* The parts that do not depend on the new task's queue.
LEMMA FillKeeps ==
  ASSUME IInv, InCall, NEW p \in Dead, NEW lev \in {"SYSTEM", "PERIODIC", "RR"},
         NEW w \in {0, QUANTUM} \cup Wcets, NEW per \in {0} \cup Periods,
         Fill(p, lev, w, per),
         lev = "PERIODIC" => per # 0,
         rr_queue' = IF lev = "RR" THEN Append(rr_queue, p) ELSE RrAfterCreate(rr_queue, lev),
         system_queue' = IF lev = "SYSTEM" THEN Append(system_queue, p) ELSE system_queue,
         DeltaList(sleep_queue'),
         Range(Names(sleep_queue')) = IF lev = "PERIODIC" THEN Range(Names(sleep_queue)) \cup {p}
                                      ELSE Range(Names(sleep_queue)),
         \/ UNCHANGED current_periodic_task
         \/ current_periodic_task = NULL /\ lev = "PERIODIC" /\ current_periodic_task' = p
  PROVE  IInv'
<1> DEFINE stops == CreatorStops(lev)
<1>0. /\ p \in Tasks /\ state[p] = "DEAD" /\ level[p] = "NULL" /\ cur_task \in Tasks
      /\ state[cur_task] = "RUNNING" /\ p # cur_task /\ level[cur_task] # "NULL"
      /\ inKernel = FALSE /\ error_msg = "NONE"
  <2>1. p \in Tasks /\ state[p] = "DEAD"
    BY DEF Dead
  <2>2. cur_task \in Tasks /\ ~inKernel /\ inKernel \in BOOLEAN /\ error_msg = "NONE"
    BY Standing DEF InCall, InTask, IInv, TypeOK
  <2> QED  BY <2>1, <2>2 DEF IInv, DescriptorsKept
<1>1. /\ Idle \notin Tasks /\ NULL \notin Tasks
      /\ \A x \in Tasks : state[x] = "RUNNING" => x = cur_task
      /\ state[Idle] = "READY" /\ level[Idle] = "NULL"
      /\ state \in [Tasks \cup {Idle} -> {"DEAD", "RUNNING", "READY", "WAITING"}]
      /\ level \in [Tasks \cup {Idle} -> {"NULL", "SYSTEM", "PERIODIC", "RR"}]
  BY <1>0, Standing
<1>2. /\ state' \in [Tasks \cup {Idle} -> {"DEAD", "RUNNING", "READY", "WAITING"}]
      /\ level' \in [Tasks \cup {Idle} -> {"NULL", "SYSTEM", "PERIODIC", "RR"}]
      /\ wcet' \in [Tasks -> {0, QUANTUM} \cup Wcets] /\ period' \in [Tasks -> {0} \cup Periods]
      /\ \A x \in Tasks \cup {Idle} :
           /\ level'[x] = IF x = p THEN lev ELSE level[x]
           /\ state'[x] = IF x = p THEN "READY" ELSE IF x = cur_task /\ stops THEN "READY" ELSE state[x]
      /\ \A x \in Tasks : period'[x] = IF x = p THEN per ELSE period[x]
  BY <1>0, <1>1 DEF Fill, IInv, TypeOK
<1>3. /\ timer' \in [Tasks -> [paused : BOOLEAN, value : 0 .. TimerMax]]
      /\ \A x \in Tasks : x # p => timer'[x] = timer[x]
  <2>1. Stopped \in [paused : BOOLEAN, value : 0 .. TimerMax]
    BY TimerMaxType DEF Stopped
  <2> QED  BY <1>0, <2>1 DEF Fill, timer_reset, IInv, TypeOK
<1>4. /\ inKernel' = TRUE /\ UNCHANGED error_msg
      /\ UNCHANGED <<cur_task, events, preempt_async, clock, ms>>
  BY DEF Fill, Enter
<1>5. stops \in BOOLEAN /\ (stops => Level # "SYSTEM")
      /\ (lev = "SYSTEM" => (stops <=> Level # "SYSTEM"))
      /\ (lev = "PERIODIC" => (stops <=> Level = "RR"))
      /\ (lev = "RR" => ~stops)
  BY DEF CreatorStops
<1> HIDE DEF stops
<1>6. /\ rr_queue' \in Seq(Tasks)
      /\ Holds(rr_queue', Ready("RR") \cup (IF lev = "RR" THEN {p} ELSE {})
                                      \cup (IF stops /\ Level = "RR" THEN {cur_task} ELSE {}))
      /\ system_queue' \in Seq(Tasks)
      /\ Holds(system_queue', IF lev = "SYSTEM" THEN Range(system_queue) \cup {p} ELSE Range(system_queue))
  <2>1. /\ rr_queue \in Seq(Tasks) /\ Holds(rr_queue, Ready("RR"))
        /\ system_queue \in Seq(Tasks) /\ Holds(system_queue, Range(system_queue))
        /\ Range(system_queue) \subseteq Ready("SYSTEM")
    BY DEF IInv, TypeOK, QueuesKept, Holds
  <2>2. p \notin Ready("RR") /\ p \notin Ready("SYSTEM") /\ cur_task \notin Ready("RR")
    BY <1>0 DEF Ready
  <2>3. CASE lev = "RR"
    <3>1. rr_queue' = Append(rr_queue, p) /\ system_queue' = system_queue
      BY <2>3
    <3>2. Append(rr_queue, p) \in Seq(Tasks) /\ Holds(Append(rr_queue, p), Ready("RR") \cup {p})
      BY <1>0, <2>1, <2>2, AppendHolds
    <3> QED  BY <1>5, <2>1, <2>3, <3>1, <3>2
  <2>4. CASE lev # "RR"
    <3>1. rr_queue' = IF stops /\ Level = "RR" THEN Cons(cur_task, rr_queue) ELSE rr_queue
      BY <2>4 DEF RrAfterCreate, stops
    <3>2. Cons(cur_task, rr_queue) \in Seq(Tasks) /\ Holds(Cons(cur_task, rr_queue), Ready("RR") \cup {cur_task})
      BY <1>0, <2>1, <2>2, ConsHolds
    <3>3. system_queue' \in Seq(Tasks)
          /\ Holds(system_queue', IF lev = "SYSTEM" THEN Range(system_queue) \cup {p} ELSE Range(system_queue))
      <4>1. p \notin Range(system_queue)
        BY <2>1, <2>2
      <4>2. Append(system_queue, p) \in Seq(Tasks) /\ Holds(Append(system_queue, p), Range(system_queue) \cup {p})
        BY <1>0, <2>1, <4>1, AppendHolds
      <4> QED  BY <2>1, <4>2
    <3> QED  BY <2>1, <2>4, <3>1, <3>2, <3>3
  <2> QED  BY <2>3, <2>4
<1>7. sleep_queue' \in Seq([task : Tasks, diff : 0 .. WORD - 1])
  BY SleepQueueType
<1>8. TypeOK'
  BY <1>0, <1>2, <1>3, <1>4, <1>6, <1>7 DEF IInv, TypeOK, events, clock, Located
<1>9. DescriptorsKept'
  BY <1>0, <1>1, <1>2, <1>4 DEF IInv, DescriptorsKept
<1>10. QueuesKept'
  <2>1. Ready("RR")' = Ready("RR") \cup (IF lev = "RR" THEN {p} ELSE {})
                                   \cup (IF stops /\ Level = "RR" THEN {cur_task} ELSE {})
    BY <1>0, <1>1, <1>2 DEF Ready, Level
  <2>2. Ready("SYSTEM")' = IF lev = "SYSTEM" THEN Ready("SYSTEM") \cup {p} ELSE Ready("SYSTEM")
    BY <1>0, <1>1, <1>2, <1>5 DEF Ready, Level
  <2> QED  BY <1>4, <1>6, <2>1, <2>2 DEF IInv, QueuesKept, Holds
<1>11. SleepersKept'
  <2>1. {x \in Tasks : level'[x] = "PERIODIC"} =
           IF lev = "PERIODIC" THEN {x \in Tasks : level[x] = "PERIODIC"} \cup {p}
           ELSE {x \in Tasks : level[x] = "PERIODIC"}
    BY <1>0, <1>2
  <2> QED  BY <1>0, <1>2, <2>1 DEF IInv, SleepersKept, Sleepers
<1>12. WaitersKept'
  <2>1. \A x \in Tasks : /\ state'[x] = "WAITING" <=> state[x] = "WAITING"
                         /\ state'[x] = "WAITING" => x # p
    BY <1>0, <1>2
  <2> QED  BY <1>2, <1>4, <2>1 DEF IInv, WaitersKept, events
<1>13. ReleasedKept'
  BY <1>0, <1>1, <1>2, <1>4 DEF IInv, TypeOK, Located, ReleasedKept, Level
<1>14. TimersKept'
  BY <1>0, <1>2, <1>3, <1>4 DEF IInv, TimersKept, Timed
<1>15. UrgencyKept'
  <2> SUFFICES ASSUME ~stops, ~preempt_async PROVE MostUrgent'
    BY <1>0, <1>1, <1>2, <1>4 DEF UrgencyKept
  <2>1. MostUrgent /\ Level # "NULL"
    BY <1>0, <1>1 DEF IInv, UrgencyKept, Level
  <2>2. Level' = Level /\ cur_task' = cur_task
    BY <1>0, <1>2, <1>4 DEF Level
  <2>3. system_queue' = system_queue \/ Level = "SYSTEM"
    BY <1>5
  <2>4. current_periodic_task' = current_periodic_task \/ Level = "SYSTEM"
    <3>1. ASSUME lev = "PERIODIC", current_periodic_task = NULL PROVE Level = "SYSTEM"
      <4>1. Level # "RR"
        BY <1>5, <3>1
      <4>2. Level # "PERIODIC"
        BY <1>0, <1>1, <3>1 DEF IInv, ReleasedKept, Level
      <4> QED  BY <1>0, <1>1, <2>1, <4>1, <4>2 DEF Level
    <3> QED  BY <3>1
  <2> HIDE DEF Level
  <2> QED  BY <2>1, <2>2, <2>3, <2>4 DEF MostUrgent
<1> QED
  BY <1>8, <1>9, <1>10, <1>11, <1>12, <1>13, <1>14, <1>15 DEF IInv

LEMMA Task_Create_SystemKeeps == IInv /\ Task_Create_System => IInv'
<1> SUFFICES ASSUME IInv, Task_Create_System PROVE IInv'
  OBVIOUS
<1>1. CASE CreateFails
  BY <1>1, CreateFailsKeeps
<1>2. CASE ~CreateFails
  <2>1. PICK p \in Dead : /\ Fill(p, "SYSTEM", 0, 0)
                          /\ system_queue' = Append(system_queue, p)
                          /\ rr_queue' = RrAfterCreate(rr_queue, "SYSTEM")
                          /\ UNCHANGED <<sleep_queue, current_periodic_task>>
    BY <1>2 DEF Task_Create_System
  <2>2. InCall /\ DeltaList(sleep_queue') /\ Range(Names(sleep_queue')) = Range(Names(sleep_queue))
    BY <2>1 DEF Task_Create_System, IInv, SleepersKept
  <2> QED  BY <2>1, <2>2, FillKeeps
<1> QED  BY <1>1, <1>2

LEMMA Task_Create_RRKeeps == IInv /\ Task_Create_RR => IInv'
<1> SUFFICES ASSUME IInv, Task_Create_RR PROVE IInv'
  OBVIOUS
<1>1. CASE CreateFails
  BY <1>1, CreateFailsKeeps
<1>2. CASE ~CreateFails
  <2>1. PICK p \in Dead : /\ Fill(p, "RR", QUANTUM, 0)
                          /\ rr_queue' = Append(rr_queue, p)
                          /\ UNCHANGED <<system_queue, sleep_queue, current_periodic_task>>
    BY <1>2 DEF Task_Create_RR
  <2>2. InCall /\ DeltaList(sleep_queue') /\ Range(Names(sleep_queue')) = Range(Names(sleep_queue))
    BY <2>1 DEF Task_Create_RR, IInv, SleepersKept
  <2> QED  BY <2>1, <2>2, FillKeeps
<1> QED  BY <1>1, <1>2

\* The start that is reached is not before the tick that counts it, and no earlier
\* one would do.
LEMMA FirstStartIs ==
  ASSUME TypeOK, NEW start \in Starts, NEW per \in Periods, Reached(start, per) # {}
  PROVE  /\ FirstStart(start, per) - cur_ticks \in 0 .. WORD - 1
         /\ FirstStart(start, per) - cur_ticks \in Timers!Delays(start, per)
<1> DEFINE R == Reached(start, per)
           k == CHOOSE k \in R : \A j \in R : k <= j
<1>1. /\ WORD \in Nat \ {0} /\ start \in Nat /\ per \in Nat /\ cur_ticks \in 0 .. WORD - 1
  BY DanielsAssumption DEF DanielsAssumption, TypeOK
<1>2. PICK m \in R : \A j \in R : m <= j
  <2>1. R \in SUBSET Nat
    BY <1>1 DEF Reached
  <2> QED  BY <2>1, LeastOne
<1>3. k \in R
  BY <1>2
<1> HIDE DEF k
<1>4. /\ k \in 0 .. WORD - 1 /\ StartsTried(start, per)[k] >= cur_ticks
      /\ FirstStart(start, per) = StartsTried(start, per)[k]
  BY <1>3 DEF Reached, FirstStart, k
<1> DEFINE x == start + k * per
<1>5. k \in Nat /\ StartsTried(start, per)[k] = x % WORD
  BY <1>1, <1>4 DEF StartsTried
<1>6. x \in Int
  <2>1. k * per \in Nat
    BY <1>1, <1>5
  <2> QED  BY <1>1, <2>1
<1> HIDE DEF x
<1>7. x % WORD \in 0 .. WORD - 1
  BY <1>1, <1>6, Quotient
<1>8. FirstStart(start, per) - cur_ticks \in 0 .. WORD - 1
  BY <1>1, <1>4, <1>5, <1>7
<1>9. ASSUME NEW j \in 0 .. k - 1
      PROVE  (start + j * per) % WORD < cur_ticks
  <2>1. j \in 0 .. WORD - 1 /\ ~(k <= j)
    BY <1>1, <1>4, <1>9
  <2>2. j \notin R
    BY <1>2, <2>1 DEF k
  <2>3. j \in Nat /\ ~(StartsTried(start, per)[j] >= cur_ticks)
    BY <1>1, <2>1, <2>2 DEF Reached
  <2>4. StartsTried(start, per)[j] = (start + j * per) % WORD
    BY <2>1 DEF StartsTried
  <2>5. start + j * per \in Int
    BY <1>1, <2>3
  <2>6. (start + j * per) % WORD \in Nat
    BY <1>1, <2>5, Quotient
  <2> QED  BY <1>1, <2>3, <2>4, <2>6
<1>10. cur_ticks + (FirstStart(start, per) - cur_ticks) = (start + k * per) % WORD
  BY <1>1, <1>4, <1>5, <1>7 DEF x
<1> QED  BY <1>4, <1>8, <1>9, <1>10 DEF Timers!Delays

\* What Task_Create_Period does, when it succeeds, to the sleepers.
LEMMA CreatePeriodSleepers ==
  ASSUME IInv, Task_Create_Period
  PROVE  \/ \E e \in Errors \ {"NONE"} : Abort(e)
         \/ CreateFails
         \/ \E p \in Dead, start \in Starts, per \in Periods \ {0}, w \in Wcets :
             \E delay \in Timers!Delays(start, per) :
              /\ Fill(p, "PERIODIC", w, per)
              /\ p \notin Range(Names(sleep_queue)) /\ p \in Tasks
              /\ DeltaList(sleep_queue')
              /\ Range(Names(sleep_queue')) = Range(Names(sleep_queue)) \cup {p}
              /\ Countdown(sleep_queue') = [Countdown(sleep_queue) EXCEPT ![p] = IF delay = 0 THEN per ELSE delay]
              /\ IF delay = 0 THEN current_periodic_task = NULL /\ current_periodic_task' = p
                 ELSE UNCHANGED current_periodic_task
              /\ rr_queue' = RrAfterCreate(rr_queue, "PERIODIC")
              /\ UNCHANGED system_queue
<1>1. PICK start \in Starts, per \in Periods, w \in Wcets :
       LET offset == FirstStart(start, per) - cur_ticks
       IN  IF per = 0 THEN Abort("PERIODIC_CONFLICT")
           ELSE IF Reached(start, per) = {} THEN Abort("HANG")
           ELSE IF Dead = {} THEN CreateFails
           ELSE IF tick_overflow_flag THEN Abort("PERIODIC_AFTER_ROLL_OVER")
           ELSE IF offset = 0 /\ current_periodic_task # NULL THEN Abort("PERIODIC_CONFLICT")
           ELSE \E p \in Dead :
                  /\ Fill(p, "PERIODIC", w, per)
                  /\ sleep_queue' = sleep_enqueue(sleep_queue, p, IF offset = 0 THEN per ELSE offset)
                  /\ current_periodic_task' = IF offset = 0 THEN p ELSE current_periodic_task
                  /\ rr_queue' = RrAfterCreate(rr_queue, "PERIODIC")
                  /\ UNCHANGED system_queue
  BY DEF Task_Create_Period
<1> DEFINE offset == FirstStart(start, per) - cur_ticks
<1>2. CASE ~ \E p \in Dead : Fill(p, "PERIODIC", w, per)
  BY <1>1, <1>2 DEF Errors
<1>3. CASE \E p \in Dead : Fill(p, "PERIODIC", w, per)
  <2>0. ~CreateFails /\ \A e \in Errors \ {"NONE"} : ~Abort(e)
    <3>1. error_msg' = error_msg /\ Dead # {}
      BY <1>3 DEF Fill, Enter
    <3>2. error_msg = "NONE"
      BY DEF Task_Create_Period, InCall, InTask
    <3> QED  BY <3>1, <3>2 DEF CreateFails, Abort
  <2>1. /\ per \in Periods \ {0} /\ Reached(start, per) # {}
        /\ ~(offset = 0 /\ current_periodic_task # NULL)
        /\ \E p \in Dead :
              /\ Fill(p, "PERIODIC", w, per)
              /\ sleep_queue' = sleep_enqueue(sleep_queue, p, IF offset = 0 THEN per ELSE offset)
              /\ current_periodic_task' = IF offset = 0 THEN p ELSE current_periodic_task
              /\ rr_queue' = RrAfterCreate(rr_queue, "PERIODIC")
              /\ UNCHANGED system_queue
    BY <1>1, <2>0 DEF Errors
  <2>2. PICK p \in Dead :
          /\ Fill(p, "PERIODIC", w, per)
          /\ sleep_queue' = sleep_enqueue(sleep_queue, p, IF offset = 0 THEN per ELSE offset)
          /\ current_periodic_task' = IF offset = 0 THEN p ELSE current_periodic_task
          /\ rr_queue' = RrAfterCreate(rr_queue, "PERIODIC")
          /\ UNCHANGED system_queue
    BY <2>1
  <2>3. offset \in 0 .. WORD - 1 /\ offset \in Timers!Delays(start, per) /\ per \in 1 .. WORD - 1 /\ WORD \in Nat
    BY <2>1, FirstStartIs, DanielsAssumption DEF IInv, DanielsAssumption
  <2> HIDE DEF offset
  <2> DEFINE n == IF offset = 0 THEN per ELSE offset
  <2>4. n \in 1 .. WORD - 1
    BY <2>3
  <2>5. p \in Tasks /\ p \notin Range(Names(sleep_queue)) /\ DeltaList(sleep_queue)
    BY DEF IInv, SleepersKept, Sleepers, DescriptorsKept, Dead
  <2>6. sleep_queue' = sleep_enqueue(sleep_queue, p, n)
    BY <2>2
  <2>9. IF offset = 0 THEN current_periodic_task = NULL /\ current_periodic_task' = p
        ELSE UNCHANGED current_periodic_task
    BY <2>1, <2>2
  <2> HIDE DEF n
  <2>7. /\ DeltaList(sleep_enqueue(sleep_queue, p, n))
        /\ Range(Names(sleep_enqueue(sleep_queue, p, n))) = Range(Names(sleep_queue)) \cup {p}
        /\ Countdown(sleep_enqueue(sleep_queue, p, n)) = [Countdown(sleep_queue) EXCEPT ![p] = n]
    BY <2>4, <2>5, EnqueueStarts
  <2> DEFINE e == sleep_enqueue(sleep_queue, p, n)
  <2> HIDE DEF e
  <2>8. /\ sleep_queue' = e /\ DeltaList(e) /\ Range(Names(e)) = Range(Names(sleep_queue)) \cup {p}
        /\ Countdown(e) = [Countdown(sleep_queue) EXCEPT ![p] = n]
    BY <2>6, <2>7 DEF e
  <2>10. DeltaList(sleep_queue') /\ Range(Names(sleep_queue')) = Range(Names(sleep_queue)) \cup {p}
         /\ Countdown(sleep_queue') = [Countdown(sleep_queue) EXCEPT ![p] = n]
    BY <2>8
  <2>11. Countdown(sleep_queue') =
           [Countdown(sleep_queue) EXCEPT ![p] = IF offset = 0 THEN per ELSE offset]
    BY <2>10 DEF n
  <2> QED  BY <2>1, <2>2, <2>3, <2>5, <2>9, <2>10, <2>11
<1> QED  BY <1>2, <1>3

LEMMA Task_Create_PeriodKeeps == IInv /\ Task_Create_Period => IInv'
<1> SUFFICES ASSUME IInv, Task_Create_Period PROVE IInv'
  OBVIOUS
<1>1. CASE \E e \in Errors \ {"NONE"} : Abort(e)
  BY <1>1, AbortKeeps
<1>2. CASE CreateFails
  BY <1>2, CreateFailsKeeps
<1>3. CASE ~(\E e \in Errors \ {"NONE"} : Abort(e)) /\ ~CreateFails
  <2>1. PICK p \in Dead, start \in Starts, per \in Periods \ {0}, w \in Wcets :
              /\ Fill(p, "PERIODIC", w, per)
              /\ DeltaList(sleep_queue')
              /\ Range(Names(sleep_queue')) = Range(Names(sleep_queue)) \cup {p}
              /\ \/ UNCHANGED current_periodic_task
                 \/ current_periodic_task = NULL /\ current_periodic_task' = p
              /\ rr_queue' = RrAfterCreate(rr_queue, "PERIODIC")
              /\ UNCHANGED system_queue
    BY <1>3, CreatePeriodSleepers
  <2>2. InCall
    BY DEF Task_Create_Period
  <2>3. per # 0 /\ per \in {0} \cup Periods /\ w \in {0, QUANTUM} \cup Wcets
    OBVIOUS
  <2> QED  BY <2>1, <2>2, <2>3, FillKeeps
<1> QED  BY <1>1, <1>2, <1>3

-----------------------------------------------------------------------------
(* The other calls.                                                        *)

\* Who calls.
LEMMA Caller ==
  ASSUME IInv, InTask
  PROVE  /\ inKernel = FALSE /\ error_msg = "NONE" /\ state[cur_task] = "RUNNING"
         /\ cur_task # Idle => cur_task \in Tasks /\ level[cur_task] # "NULL"
         /\ cur_task \in Tasks \cup {Idle}
         /\ Idle \notin Tasks /\ NULL \notin Tasks /\ NULL # Idle
         /\ \A x \in Tasks : state[x] = "RUNNING" => x = cur_task
         /\ state[Idle] = IF cur_task = Idle THEN "RUNNING" ELSE "READY"
         /\ level[Idle] = "NULL"
         /\ state \in [Tasks \cup {Idle} -> {"DEAD", "RUNNING", "READY", "WAITING"}]
         /\ level \in [Tasks \cup {Idle} -> {"NULL", "SYSTEM", "PERIODIC", "RR"}]
<1>1. inKernel = FALSE /\ error_msg = "NONE" /\ state[cur_task] = "RUNNING"
  BY DEF InTask, IInv, TypeOK, DescriptorsKept
<1> QED  BY <1>1, Standing, DanielsAssumption DEF IInv, DescriptorsKept, DanielsAssumption

LEMMA TerminateSleepers ==
  ASSUME IInv, Task_Terminate
  PROVE  /\ DeltaList(sleep_queue')
         /\ Range(Names(sleep_queue')) = Range(Names(sleep_queue)) \ {cur_task}
         /\ IF Level = "PERIODIC"
            THEN cur_task \in Tasks /\ Countdown(sleep_queue') = [Countdown(sleep_queue) EXCEPT ![cur_task] = 0]
                 /\ cur_task \in Range(Names(sleep_queue))
            ELSE sleep_queue' = sleep_queue
<1>1. /\ cur_task \in Tasks /\ DeltaList(sleep_queue)
      /\ cur_task \in Range(Names(sleep_queue)) <=> Level = "PERIODIC"
      /\ sleep_queue' = remove_from_sleep_queue(sleep_queue, cur_task)
  BY Caller DEF Task_Terminate, InCall, IInv, SleepersKept, Sleepers, Level
<1>2. CASE Level = "PERIODIC"
  BY <1>1, <1>2, RemoveStops
<1>3. CASE Level # "PERIODIC"
  <2>1. cur_task \notin {sleep_queue[i].task : i \in DOMAIN sleep_queue}
    BY <1>1, <1>3 DEF Range, Names
  <2>2. sleep_queue' = sleep_queue
    BY <1>1, <2>1 DEF remove_from_sleep_queue
  <2> QED  BY <1>1, <1>3, <2>2
<1> QED  BY <1>2, <1>3

LEMMA Task_TerminateKeeps == IInv /\ Task_Terminate => IInv'
<1> SUFFICES ASSUME IInv, Task_Terminate PROVE IInv'
  OBVIOUS
<1>0. /\ state' = [state EXCEPT ![cur_task] = "DEAD"]
      /\ level' = [level EXCEPT ![cur_task] = "NULL"]
      /\ wcet' = [wcet EXCEPT ![cur_task] = 0]
      /\ period' = [period EXCEPT ![cur_task] = 0]
      /\ timer' = timer_reset(cur_task)
      /\ current_periodic_task' = IF Level = "PERIODIC" THEN NULL ELSE current_periodic_task
      /\ inKernel' = TRUE /\ UNCHANGED error_msg
      /\ UNCHANGED <<cur_task, queues, events, preempt_async, clock, ms>>
      /\ cur_task # Idle /\ InTask
  BY DEF Task_Terminate, Enter, InCall
<1>1. /\ cur_task \in Tasks /\ level[cur_task] # "NULL" /\ state[cur_task] = "RUNNING"
      /\ Idle \notin Tasks /\ NULL \notin Tasks
      /\ \A x \in Tasks : state[x] = "RUNNING" => x = cur_task
      /\ state[Idle] = "READY" /\ level[Idle] = "NULL"
      /\ state \in [Tasks \cup {Idle} -> {"DEAD", "RUNNING", "READY", "WAITING"}]
      /\ level \in [Tasks \cup {Idle} -> {"NULL", "SYSTEM", "PERIODIC", "RR"}]
  BY <1>0, Caller
<1>2. /\ state' \in [Tasks \cup {Idle} -> {"DEAD", "RUNNING", "READY", "WAITING"}]
      /\ level' \in [Tasks \cup {Idle} -> {"NULL", "SYSTEM", "PERIODIC", "RR"}]
      /\ wcet' \in [Tasks -> {0, QUANTUM} \cup Wcets] /\ period' \in [Tasks -> {0} \cup Periods]
      /\ \A x \in Tasks \cup {Idle} :
           /\ level'[x] = IF x = cur_task THEN "NULL" ELSE level[x]
           /\ state'[x] = IF x = cur_task THEN "DEAD" ELSE state[x]
      /\ \A x \in Tasks : x # cur_task => period'[x] = period[x]
  BY <1>0, <1>1 DEF IInv, TypeOK
<1>3. timer' \in [Tasks -> [paused : BOOLEAN, value : 0 .. TimerMax]]
  <2>1. Stopped \in [paused : BOOLEAN, value : 0 .. TimerMax]
    BY TimerMaxType DEF Stopped
  <2> QED  BY <1>0, <1>1, <2>1 DEF timer_reset, IInv, TypeOK
<1>4. /\ DeltaList(sleep_queue')
      /\ Range(Names(sleep_queue')) = Range(Names(sleep_queue)) \ {cur_task}
  BY TerminateSleepers
<1>5. sleep_queue' \in Seq([task : Tasks, diff : 0 .. WORD - 1])
  BY <1>4, SleepQueueType
<1>6. TypeOK'
  BY <1>0, <1>1, <1>2, <1>3, <1>5 DEF IInv, TypeOK, queues, events, clock, Located
<1>7. DescriptorsKept'
  BY <1>0, <1>1, <1>2 DEF IInv, DescriptorsKept
<1>8. QueuesKept'
  <2>1. Ready("RR")' = Ready("RR") /\ Ready("SYSTEM")' = Ready("SYSTEM")
    BY <1>1, <1>2 DEF Ready
  <2> QED  BY <1>0, <2>1 DEF IInv, QueuesKept, queues
<1>9. SleepersKept'
  <2>1. {x \in Tasks : level'[x] = "PERIODIC"} = {x \in Tasks : level[x] = "PERIODIC"} \ {cur_task}
    BY <1>1, <1>2
  <2> QED  BY <1>1, <1>2, <1>4, <2>1 DEF IInv, SleepersKept, Sleepers
<1>10. WaitersKept'
  <2>1. \A x \in Tasks : /\ state'[x] = "WAITING" <=> state[x] = "WAITING"
                         /\ state'[x] = "WAITING" => level'[x] = level[x]
    BY <1>1, <1>2
  <2> QED  BY <1>0, <2>1 DEF IInv, WaitersKept, events
<1>11. ReleasedKept'
  <2>1. current_periodic_task' # NULL => current_periodic_task' # cur_task
    BY <1>0, <1>1 DEF IInv, ReleasedKept, Level
  <2> QED  BY <1>0, <1>1, <1>2, <2>1 DEF IInv, TypeOK, Located, ReleasedKept, Level
<1>12. TimersKept' /\ UrgencyKept'
  BY <1>0, <1>1, <1>2 DEF TimersKept, UrgencyKept
<1> QED  BY <1>6, <1>7, <1>8, <1>9, <1>10, <1>11, <1>12 DEF IInv

\* The parts for a step that stops the running task, and wakes nobody.
LEMMA Task_NextKeeps == IInv /\ Task_Next => IInv'
<1> SUFFICES ASSUME IInv, Task_Next PROVE IInv'
  OBVIOUS
<1>a. CASE Level = "PERIODIC" /\ has_execution_time_elapsed(cur_task)
  BY <1>a, AbortKeeps DEF Task_Next, Errors
<1>b. CASE ~(Level = "PERIODIC" /\ has_execution_time_elapsed(cur_task))
  <2>0. /\ system_queue' = IF Level = "SYSTEM" THEN Append(system_queue, cur_task) ELSE system_queue
        /\ rr_queue' = IF Level = "RR" THEN Append(rr_queue, cur_task) ELSE rr_queue
        /\ current_periodic_task' = IF Level = "PERIODIC" THEN NULL ELSE current_periodic_task
        /\ timer' = timer_reset(cur_task)
        /\ state' = [state EXCEPT ![cur_task] = "READY"]
        /\ inKernel' = TRUE /\ UNCHANGED error_msg
        /\ UNCHANGED <<cur_task, level, wcet, period, sleep_queue, events, preempt_async, clock, ms>>
        /\ cur_task # Idle /\ InTask
    BY <1>b DEF Task_Next, Enter, InCall
  <2>1. /\ cur_task \in Tasks /\ level[cur_task] # "NULL" /\ state[cur_task] = "RUNNING"
        /\ Idle \notin Tasks /\ NULL \notin Tasks
        /\ \A x \in Tasks : state[x] = "RUNNING" => x = cur_task
        /\ state[Idle] = "READY" /\ level[Idle] = "NULL"
        /\ state \in [Tasks \cup {Idle} -> {"DEAD", "RUNNING", "READY", "WAITING"}]
        /\ level \in [Tasks \cup {Idle} -> {"NULL", "SYSTEM", "PERIODIC", "RR"}]
    BY <2>0, Caller
  <2>2. /\ state' \in [Tasks \cup {Idle} -> {"DEAD", "RUNNING", "READY", "WAITING"}]
        /\ \A x \in Tasks \cup {Idle} : state'[x] = IF x = cur_task THEN "READY" ELSE state[x]
    BY <2>0, <2>1
  <2>3. timer' \in [Tasks -> [paused : BOOLEAN, value : 0 .. TimerMax]]
    <3>1. Stopped \in [paused : BOOLEAN, value : 0 .. TimerMax]
      BY TimerMaxType DEF Stopped
    <3> QED  BY <2>0, <2>1, <3>1 DEF timer_reset, IInv, TypeOK
  <2>4. /\ rr_queue' \in Seq(Tasks) /\ system_queue' \in Seq(Tasks)
        /\ Holds(rr_queue', IF Level = "RR" THEN Ready("RR") \cup {cur_task} ELSE Ready("RR"))
        /\ Holds(system_queue', IF Level = "SYSTEM" THEN Range(system_queue) \cup {cur_task}
                                ELSE Range(system_queue))
    <3>1. /\ rr_queue \in Seq(Tasks) /\ Holds(rr_queue, Ready("RR"))
          /\ system_queue \in Seq(Tasks) /\ Holds(system_queue, Range(system_queue))
          /\ Range(system_queue) \subseteq Ready("SYSTEM")
      BY DEF IInv, TypeOK, QueuesKept, Holds
    <3>2. cur_task \notin Ready("RR") /\ cur_task \notin Range(system_queue)
      BY <2>1, <3>1 DEF Ready
    <3>3. /\ Append(rr_queue, cur_task) \in Seq(Tasks)
          /\ Holds(Append(rr_queue, cur_task), Ready("RR") \cup {cur_task})
      BY <2>1, <3>1, <3>2, AppendHolds
    <3>4. /\ Append(system_queue, cur_task) \in Seq(Tasks)
          /\ Holds(Append(system_queue, cur_task), Range(system_queue) \cup {cur_task})
      BY <2>1, <3>1, <3>2, AppendHolds
    <3> QED  BY <2>0, <3>1, <3>3, <3>4
  <2>5. TypeOK'
    BY <2>0, <2>1, <2>2, <2>3, <2>4 DEF IInv, TypeOK, events, clock, Located
  <2>6. DescriptorsKept'
    BY <2>0, <2>1, <2>2 DEF IInv, DescriptorsKept
  <2>7. QueuesKept'
    <3>1. Ready("RR")' = IF Level = "RR" THEN Ready("RR") \cup {cur_task} ELSE Ready("RR")
      BY <2>0, <2>1, <2>2 DEF Ready, Level
    <3>2. Ready("SYSTEM")' = IF Level = "SYSTEM" THEN Ready("SYSTEM") \cup {cur_task} ELSE Ready("SYSTEM")
      BY <2>0, <2>1, <2>2 DEF Ready, Level
    <3> QED  BY <2>0, <2>4, <3>1, <3>2 DEF IInv, QueuesKept, Holds
  <2>8. SleepersKept'
    BY <2>0 DEF IInv, SleepersKept, Sleepers
  <2>9. WaitersKept'
    <3>1. \A x \in Tasks : state'[x] = "WAITING" <=> state[x] = "WAITING"
      BY <2>1, <2>2
    <3> QED  BY <2>0, <3>1 DEF IInv, WaitersKept, events
  <2>10. ReleasedKept'
    BY <2>0, <2>1, <2>2 DEF IInv, ReleasedKept, Level
  <2>11. TimersKept' /\ UrgencyKept'
    BY <2>0, <2>1, <2>2 DEF TimersKept, UrgencyKept
  <2> QED  BY <2>5, <2>6, <2>7, <2>8, <2>9, <2>10, <2>11 DEF IInv
<1> QED  BY <1>a, <1>b

LEMMA WaitKeeps ==
  ASSUME IInv, InCall, NEW e \in Events, NEW signalled \in SUBSET Events,
         kernel_event_wait(e, signalled)
  PROVE  IInv'
<1>1. CASE \E m \in Errors : Abort(m)
  BY <1>1, AbortKeeps
<1>2. CASE ~ \E m \in Errors : Abort(m)
  <2>0. /\ e \notin signalled => events_waiting[e] = NULL
        /\ Level # "PERIODIC" /\ events_state' = signalled \ {e}
        /\ IF e \in signalled
           THEN UNCHANGED <<state, events_waiting>>
           ELSE /\ state' = [state EXCEPT ![cur_task] = "WAITING"]
                /\ events_waiting' = [events_waiting EXCEPT ![e] = cur_task]
        /\ inKernel' = TRUE /\ UNCHANGED error_msg
        /\ UNCHANGED <<cur_task, level, wcet, period, timer, queues, sleep_queue,
                       current_periodic_task, num_events_created, preempt_async, clock, ms>>
        /\ cur_task # Idle /\ InTask
    BY <1>2 DEF kernel_event_wait, Errors, Enter, InCall
  <2>1. CASE e \in signalled
    <3>1. events_state' \subseteq Events /\ error_msg \in Errors
      BY <2>0 DEF IInv, TypeOK
    <3> QED  BY <2>0, <2>1, <3>1, RestKeeps DEF Settled, tasks
  <2>2. CASE e \notin signalled
    <3>1. /\ cur_task \in Tasks /\ level[cur_task] # "NULL" /\ state[cur_task] = "RUNNING"
          /\ Idle \notin Tasks /\ NULL \notin Tasks
          /\ \A x \in Tasks : state[x] = "RUNNING" => x = cur_task
          /\ state[Idle] = "READY" /\ level[Idle] = "NULL"
          /\ state \in [Tasks \cup {Idle} -> {"DEAD", "RUNNING", "READY", "WAITING"}]
          /\ level \in [Tasks \cup {Idle} -> {"NULL", "SYSTEM", "PERIODIC", "RR"}]
      BY <2>0, Caller
    <3>2. /\ state' \in [Tasks \cup {Idle} -> {"DEAD", "RUNNING", "READY", "WAITING"}]
          /\ \A x \in Tasks \cup {Idle} : state'[x] = IF x = cur_task THEN "WAITING" ELSE state[x]
      BY <2>0, <2>2, <3>1
    <3>3. /\ events_waiting \in [Events -> Tasks \cup {NULL}] /\ events_waiting[e] = NULL
          /\ events_waiting' \in [Events -> Tasks \cup {NULL}]
          /\ \A f \in Events : events_waiting'[f] = IF f = e THEN cur_task ELSE events_waiting[f]
      BY <2>0, <2>2, <3>1 DEF IInv, TypeOK, Located
    <3>4. TypeOK'
      BY <2>0, <3>2, <3>3 DEF IInv, TypeOK, queues, clock, Located
    <3>5. DescriptorsKept'
      BY <2>0, <3>1, <3>2 DEF IInv, DescriptorsKept
    <3>6. QueuesKept'
      <4>1. Ready("RR")' = Ready("RR") /\ Ready("SYSTEM")' = Ready("SYSTEM")
        BY <2>0, <3>1, <3>2 DEF Ready
      <4> QED  BY <2>0, <4>1 DEF IInv, QueuesKept, queues
    <3>7. SleepersKept'
      BY <2>0 DEF IInv, SleepersKept, Sleepers
    <3>8. WaitersKept'
      <4>0. WaitersKept
        BY DEF IInv
      <4>1. \A f \in Events : events_waiting[f] # cur_task
        BY <3>1, <4>0 DEF WaitersKept
      <4>2. \A x \in Tasks : state'[x] = "WAITING" <=> \E f \in Events : events_waiting'[f] = x
        BY <3>1, <3>2, <3>3, <4>0 DEF WaitersKept
      <4>3. \A x \in Tasks : state'[x] = "WAITING" => level'[x] \in {"SYSTEM", "RR"}
        BY <2>0, <3>1, <3>2, <4>0 DEF WaitersKept, Level
      <4>4. \A f, g \in Events : events_waiting'[f] = events_waiting'[g] /\ f # g => events_waiting'[f] = NULL
        BY <3>1, <3>3, <4>0, <4>1 DEF WaitersKept
      <4> QED  BY <4>2, <4>3, <4>4 DEF WaitersKept
    <3>9. ReleasedKept'
      BY <2>0, <3>1, <3>2 DEF IInv, ReleasedKept, Level
    <3>10. TimersKept' /\ UrgencyKept'
      BY <2>0, <3>1, <3>2 DEF TimersKept, UrgencyKept
    <3> QED  BY <3>4, <3>5, <3>6, <3>7, <3>8, <3>9, <3>10 DEF IInv
  <2> QED  BY <2>1, <2>2
<1> QED  BY <1>1, <1>2

\* A signal wakes the task that waits, and may stop the one that runs.
LEMMA WakeKeeps ==
  ASSUME IInv, InTask, NEW e \in Events, NEW t, t = events_waiting[e], t # NULL,
         NEW stops \in BOOLEAN, stops => cur_task # Idle /\ Level # "SYSTEM",
         stops \/ preempt_async' \/ Level = "SYSTEM",
         preempt_async' \in BOOLEAN, preempt_async => preempt_async',
         inKernel' \in BOOLEAN, ~stops \/ inKernel',
         events_waiting' = [events_waiting EXCEPT ![e] = NULL],
         state' = [state EXCEPT ![t] = "READY", ![cur_task] = IF stops THEN "READY" ELSE @],
         system_queue' = SystemWith(t),
         rr_queue' = IF stops /\ Level = "RR" THEN Cons(cur_task, RrWith(t)) ELSE RrWith(t),
         timer' = IF stops THEN timer_pause(cur_task) ELSE timer,
         UNCHANGED <<cur_task, level, wcet, period, sleep_queue, current_periodic_task,
                     num_events_created, events_state, clock, ms, error_msg>>
  PROVE  IInv'
<1>1. /\ cur_task \in Tasks \cup {Idle} /\ state[cur_task] = "RUNNING"
      /\ cur_task # Idle => cur_task \in Tasks /\ level[cur_task] # "NULL"
      /\ Idle \notin Tasks /\ NULL \notin Tasks
      /\ \A x \in Tasks : state[x] = "RUNNING" => x = cur_task
      /\ state[Idle] = IF cur_task = Idle THEN "RUNNING" ELSE "READY"
      /\ level[Idle] = "NULL"
      /\ state \in [Tasks \cup {Idle} -> {"DEAD", "RUNNING", "READY", "WAITING"}]
      /\ level \in [Tasks \cup {Idle} -> {"NULL", "SYSTEM", "PERIODIC", "RR"}]
  BY Caller
<1>2. t \in Tasks /\ state[t] = "WAITING" /\ level[t] \in {"SYSTEM", "RR"} /\ t # cur_task
  <2>1. t \in Tasks
    BY DEF IInv, TypeOK, Located
  <2> QED  BY <1>1, <2>1 DEF IInv, WaitersKept
<1>3. /\ state' \in [Tasks \cup {Idle} -> {"DEAD", "RUNNING", "READY", "WAITING"}]
      /\ \A x \in Tasks \cup {Idle} :
           state'[x] = IF x = t THEN "READY" ELSE IF x = cur_task /\ stops THEN "READY" ELSE state[x]
  BY <1>1, <1>2
<1>4. timer' \in [Tasks -> [paused : BOOLEAN, value : 0 .. TimerMax]]
  BY <1>1 DEF IInv, TypeOK, timer_pause
<1>5. /\ events_waiting \in [Events -> Tasks \cup {NULL}]
      /\ events_waiting' \in [Events -> Tasks \cup {NULL}]
      /\ \A f \in Events : events_waiting'[f] = IF f = e THEN NULL ELSE events_waiting[f]
  BY DEF IInv, TypeOK, Located
<1>6. /\ rr_queue \in Seq(Tasks) /\ Holds(rr_queue, Ready("RR"))
      /\ system_queue \in Seq(Tasks) /\ Holds(system_queue, Range(system_queue))
      /\ Range(system_queue) \subseteq Ready("SYSTEM")
      /\ ~preempt_async => Range(system_queue) = Ready("SYSTEM")
      /\ preempt_async \in BOOLEAN
  BY DEF IInv, TypeOK, QueuesKept, Holds
<1>7. /\ t \notin Ready("RR") /\ t \notin Ready("SYSTEM") /\ cur_task \notin Ready("RR")
  BY <1>1, <1>2 DEF Ready
<1>8. /\ SystemWith(t) \in Seq(Tasks)
      /\ Holds(SystemWith(t), IF level[t] = "SYSTEM" THEN Range(system_queue) \cup {t}
                              ELSE Range(system_queue))
  <2>1. t \notin Range(system_queue)
    BY <1>6, <1>7
  <2>2. Append(system_queue, t) \in Seq(Tasks) /\ Holds(Append(system_queue, t), Range(system_queue) \cup {t})
    BY <1>2, <1>6, <2>1, AppendHolds
  <2> QED  BY <1>6, <2>2 DEF SystemWith
<1> DEFINE R == IF level[t] = "RR" THEN Ready("RR") \cup {t} ELSE Ready("RR")
<1>9. RrWith(t) \in Seq(Tasks) /\ Holds(RrWith(t), R)
  <2>1. Append(rr_queue, t) \in Seq(Tasks) /\ Holds(Append(rr_queue, t), Ready("RR") \cup {t})
    BY <1>2, <1>6, <1>7, AppendHolds
  <2> QED  BY <1>2, <1>6, <2>1 DEF RrWith
<1>10. /\ rr_queue' \in Seq(Tasks)
       /\ Holds(rr_queue', IF stops /\ Level = "RR" THEN R \cup {cur_task} ELSE R)
  <2>1. CASE stops /\ Level = "RR"
    <3>1. cur_task \in Tasks /\ cur_task \notin R
      BY <1>1, <1>2, <1>7, <2>1
    <3> HIDE DEF R
    <3> QED  BY <1>9, <2>1, <3>1, ConsHolds
  <2>2. CASE ~(stops /\ Level = "RR")
    BY <1>9, <2>2
  <2> QED  BY <2>1, <2>2
<1>11. TypeOK'
  BY <1>3, <1>4, <1>5, <1>8, <1>10 DEF IInv, TypeOK, clock, Located
<1>12. DescriptorsKept'
  BY <1>1, <1>2, <1>3 DEF IInv, DescriptorsKept
<1>13. QueuesKept'
  <2>1. Ready("RR")' = IF stops /\ Level = "RR" THEN R \cup {cur_task} ELSE R
    <3>1. \A x \in Tasks : x \in Ready("RR")' <=>
            level[x] = "RR" /\ (state[x] = "READY" \/ x = t \/ (x = cur_task /\ stops))
      BY <1>3 DEF Ready
    <3>2. Ready("RR")' \subseteq Tasks /\ Ready("RR") \subseteq Tasks
      BY DEF Ready
    <3>3. \A x \in Tasks : x \in Ready("RR") <=> level[x] = "RR" /\ state[x] = "READY"
      BY DEF Ready
    <3>4. stops => cur_task \in Tasks
      BY <1>1
    <3> QED  BY <1>2, <3>1, <3>2, <3>3, <3>4 DEF Level
  <2>2. \A x \in Tasks : x \in Ready("SYSTEM")' <=>
            x \in Ready("SYSTEM") \/ (level[x] = "SYSTEM" /\ (x = t \/ (x = cur_task /\ stops)))
    BY <1>3 DEF Ready
  <2>3. Range(system_queue') \subseteq Ready("SYSTEM")'
    <3>1. Range(system_queue') \subseteq Range(system_queue) \cup {t}
          /\ (t \in Range(system_queue') => level[t] = "SYSTEM" \/ t \in Range(system_queue))
      BY <1>8 DEF Holds
    <3>2. \A x \in Range(system_queue') : x \in Tasks
      BY <1>2, <1>6, <3>1 DEF Ready
    <3> QED  BY <1>2, <1>6, <1>7, <2>2, <3>1, <3>2
  <2>4. ASSUME ~preempt_async' PROVE Range(system_queue') = Ready("SYSTEM")'
    <3>1. Range(system_queue) = Ready("SYSTEM")
      BY <1>6, <2>4
    <3>2. \A x \in Tasks : x \in Ready("SYSTEM")' <=>
            x \in Ready("SYSTEM") \/ (x = t /\ level[t] = "SYSTEM")
      BY <2>2 DEF Level
    <3>3. Ready("SYSTEM")' \subseteq Tasks /\ Ready("SYSTEM") \subseteq Tasks
      BY DEF Ready
    <3>4. Range(system_queue') = IF level[t] = "SYSTEM" THEN Ready("SYSTEM") \cup {t} ELSE Ready("SYSTEM")
      BY <1>8, <3>1 DEF Holds
    <3> QED  BY <1>2, <3>2, <3>3, <3>4
  <2> QED  BY <1>8, <1>10, <2>1, <2>3, <2>4 DEF QueuesKept, Holds
<1>14. SleepersKept'
  BY DEF IInv, SleepersKept, Sleepers
<1>15. WaitersKept'
  <2>0. WaitersKept
    BY DEF IInv
  <2>1. \A f \in Events : f # e => events_waiting[f] # t
    BY <2>0 DEF WaitersKept
  <2>2. \A x \in Tasks : state'[x] = "WAITING" <=> state[x] = "WAITING" /\ x # t
    BY <1>1, <1>3
  <2>3. \A x \in Tasks : state'[x] = "WAITING" <=> \E f \in Events : events_waiting'[f] = x
    BY <1>1, <1>5, <2>0, <2>1, <2>2 DEF WaitersKept
  <2>4. \A f, g \in Events : events_waiting'[f] = events_waiting'[g] /\ f # g => events_waiting'[f] = NULL
    BY <1>5, <2>0 DEF WaitersKept
  <2> QED  BY <2>0, <2>2, <2>3, <2>4 DEF WaitersKept
<1>16. ReleasedKept'
  BY <1>1, <1>3 DEF IInv, ReleasedKept, Level
<1>17. TimersKept'
  BY <1>1, <1>2, <1>3 DEF IInv, TimersKept, Timed
<1>18. UrgencyKept'
  BY <1>1, <1>2, <1>3 DEF UrgencyKept, MostUrgent, Level
<1> QED
  BY <1>11, <1>12, <1>13, <1>14, <1>15, <1>16, <1>17, <1>18 DEF IInv

LEMMA Event_SignalKeeps ==
  ASSUME IInv, NEW e \in Events, Event_Signal(e)
  PROVE  IInv'
<1> DEFINE t == events_waiting[e]
<1>0. InCall /\ InTask /\ cur_task # Idle
  BY DEF Event_Signal, InCall
<1>1. CASE e > num_events_created
  BY <1>1, AbortKeeps DEF Event_Signal, Errors
<1>2. CASE ~(e > num_events_created) /\ t = NULL
  BY <1>2, RecordKeeps DEF Event_Signal
<1>3. CASE ~(e > num_events_created) /\ t # NULL
  <2>1. /\ events_waiting' = [events_waiting EXCEPT ![e] = NULL]
        /\ state' = [state EXCEPT ![t] = "READY",
                       ![cur_task] = IF SignallerStops THEN "READY" ELSE @]
        /\ system_queue' = SystemWith(t)
        /\ rr_queue' = IF SignallerStops /\ Level = "RR"
                       THEN Cons(cur_task, RrWith(t)) ELSE RrWith(t)
        /\ timer' = IF SignallerStops THEN timer_pause(cur_task) ELSE timer
        /\ inKernel' = TRUE
        /\ UNCHANGED <<cur_task, level, wcet, period, sleep_queue, current_periodic_task,
                       num_events_created, events_state, clock, ms, error_msg>>
        /\ preempt_async' = preempt_async
    BY <1>3 DEF Event_Signal, Enter
  <2>2. SignallerStops \in BOOLEAN /\ (SignallerStops <=> Level # "SYSTEM")
    BY DEF SignallerStops
  <2>3. preempt_async \in BOOLEAN
    BY DEF IInv, TypeOK
  <2> HIDE DEF t
  <2> QED  BY <1>0, <1>3, <2>1, <2>2, <2>3, WakeKeeps DEF t
<1> QED  BY <1>1, <1>2, <1>3

LEMMA Event_Async_SignalKeeps ==
  ASSUME IInv, NEW e \in Events, Event_Async_Signal(e)
  PROVE  IInv'
<1> DEFINE t == events_waiting[e]
<1>0. InTask
  BY DEF Event_Async_Signal
<1>1. CASE e > num_events_created
  BY <1>1, AbortKeeps DEF Event_Async_Signal, Errors
<1>2. CASE ~(e > num_events_created) /\ t = NULL
  BY <1>2, RecordKeeps DEF Event_Async_Signal
<1>3. CASE ~(e > num_events_created) /\ t # NULL
  <2>1. /\ events_waiting' = [events_waiting EXCEPT ![e] = NULL]
        /\ state' = [state EXCEPT ![t] = "READY"]
        /\ system_queue' = SystemWith(t)
        /\ rr_queue' = RrWith(t)
        /\ preempt_async' = (preempt_async \/ Level # "SYSTEM")
        /\ UNCHANGED <<inKernel, timer>>
        /\ UNCHANGED <<cur_task, level, wcet, period, sleep_queue, current_periodic_task,
                       num_events_created, events_state, clock, ms, error_msg>>
    BY <1>3 DEF Event_Async_Signal
  <2>2. preempt_async \in BOOLEAN /\ inKernel \in BOOLEAN /\ t \in Tasks \cup {NULL}
    BY DEF IInv, TypeOK, Located
  <2>3. cur_task \in Tasks \cup {Idle} /\ state \in [Tasks \cup {Idle} -> {"DEAD", "RUNNING", "READY", "WAITING"}]
        /\ state[cur_task] = "RUNNING"
    BY <1>0, Caller
  <2>4. t # cur_task
    <3>1. t \in Tasks /\ state[t] = "WAITING"
      BY <1>3, <2>2 DEF IInv, WaitersKept
    <3> QED  BY <2>3, <3>1
  <2> DEFINE stops == FALSE
  <2>5. state' = [state EXCEPT ![t] = "READY", ![cur_task] = IF stops THEN "READY" ELSE @]
    BY <2>1, <2>2, <2>3, <2>4
  <2>6. /\ rr_queue' = IF stops /\ Level = "RR" THEN Cons(cur_task, RrWith(t)) ELSE RrWith(t)
        /\ timer' = IF stops THEN timer_pause(cur_task) ELSE timer
        /\ stops \in BOOLEAN /\ ~stops
    BY <2>1
  <2>7. /\ preempt_async' \in BOOLEAN /\ inKernel' \in BOOLEAN /\ (preempt_async => preempt_async')
        /\ (preempt_async' \/ Level = "SYSTEM")
    BY <2>1, <2>2
  <2> HIDE DEF t, stops
  <2> QED  BY <1>0, <1>3, <2>1, <2>5, <2>6, <2>7, WakeKeeps DEF t
<1> QED  BY <1>1, <1>2, <1>3

LEMMA OS_AbortKeeps == IInv /\ OS_Abort => IInv'
  BY AbortKeeps DEF OS_Abort, Errors

-----------------------------------------------------------------------------
(* The theorems.                                                           *)

LEMMA StepKeeps == IInv /\ [Next]_vars => IInv'
<1> SUFFICES ASSUME IInv, [Next]_vars PROVE IInv'
  OBVIOUS
<1>1. ASSUME UNCHANGED vars PROVE IInv'
  <2>1. events_state \subseteq Events /\ error_msg \in Errors /\ inKernel \in BOOLEAN
    BY DEF IInv, TypeOK
  <2> QED  BY <1>1, <2>1, RestKeeps DEF vars, Settled, events
<1>2. ASSUME NEW e \in Events, Call(e) \/ Event_Async_Signal(e) PROVE IInv'
  <2>1. CASE Event_Clear(e)
    BY <2>1, Event_ClearKeeps
  <2>2. CASE Event_Wait(e)
    <3>1. InCall /\ kernel_event_wait(e, events_state) /\ events_state \in SUBSET Events
      BY <2>2 DEF Event_Wait, IInv, TypeOK
    <3> QED  BY <3>1, WaitKeeps
  <2>3. CASE Event_Wait_Next(e)
    <3>1. InCall /\ kernel_event_wait(e, events_state \ {e}) /\ events_state \ {e} \in SUBSET Events
      BY <2>3 DEF Event_Wait_Next, IInv, TypeOK
    <3> QED  BY <3>1, WaitKeeps
  <2>4. CASE Event_Signal(e)
    BY <2>4, Event_SignalKeeps
  <2>5. CASE Event_Async_Signal(e)
    BY <2>5, Event_Async_SignalKeeps
  <2> QED  BY <1>2, <2>1, <2>2, <2>3, <2>4, <2>5 DEF Call
<1>3. CASE Next
  BY <1>2, <1>3, DispatchKeeps, MillisecondKeeps, TickKeeps, Task_Create_SystemKeeps,
     Task_Create_RRKeeps, Task_Create_PeriodKeeps, Task_TerminateKeeps, Task_NextKeeps,
     OS_AbortKeeps, Event_InitKeeps, AbortedKeeps
     DEF Next, Create
<1> QED  BY <1>1, <1>3

\* The invariant of the Daniels kernel, whatever the tasks call and the timers do.
THEOREM Invariance == Spec => []IInv
  BY InitIInv, StepKeeps, PTL DEF Spec

\* While a PERIODIC or round-robin task has the processor its execution timer runs,
\* however it came there: kernel_dispatch resumes it after every way a timer is paused.
THEOREM ExecutionTimed == Spec => []RunningIsTimed
<1>1. IInv => RunningIsTimed
  BY Caller DEF RunningIsTimed, IInv, TimersKept
<1> QED  BY <1>1, Invariance, PTL

\* kernel_dispatch leaves no more urgent task waiting.  Where it keeps the caller without
\* looking at the queues, the request itself has left nobody more urgent.
THEOREM DispatchIsUrgent == Spec => DispatchesMostUrgent
<1>1. IInv /\ [Next]_vars => [inKernel /\ ~inKernel' => MostUrgent']_vars
  <2> SUFFICES ASSUME IInv, Next, inKernel, ~inKernel' PROVE MostUrgent'
    OBVIOUS
  <2>1. Dispatch
    <3>1. ~InTask /\ ~InCall
      BY DEF InTask, InCall
    <3>2. ~Aborted
      BY DEF Aborted, vars
    <3> QED
      BY <3>1, <3>2 DEF Next, Create, Call, Millisecond, Tick, Task_Create_System, Task_Create_RR,
         Task_Create_Period, Task_Terminate, Task_Next, OS_Abort, Event_Init, Event_Clear,
         Event_Wait, Event_Wait_Next, Event_Signal, Event_Async_Signal
  <2> QED  BY <2>1, DispatchKeeps
<1> QED  BY <1>1, Invariance, PTL DEF Spec, DispatchesMostUrgent

\* How often a task is in a queue that holds it at most once.
LEMMA TimesIs ==
  ASSUME NEW T, NEW q \in Seq(T), IsInjective(q), NEW t
  PROVE  Times(t, q) = IF t \in Range(q) THEN 1 ELSE 0
<1> DEFINE at == {i \in DOMAIN q : q[i] = t}
<1>1. CASE t \notin Range(q)
  <2>1. at = {}
    BY <1>1 DEF Range
  <2> QED  BY <1>1, <2>1, FS_EmptySet DEF Times
<1>2. CASE t \in Range(q)
  <2>1. PICK i \in DOMAIN q : q[i] = t
    BY <1>2 DEF Range
  <2>2. at = {i}
    BY <2>1 DEF IsInjective
  <2> QED  BY <1>2, <2>2, FS_Singleton DEF Times
<1> QED  BY <1>1, <1>2

\* Every task is where the kernel will look for it: in the queue of its level, at the
\* event it waits for, in the sleep queue or on the processor, and nowhere twice.
THEOREM TasksInPlace == Spec => []TasksAccounted
<1>1. IInv => TasksAccounted
  <2> SUFFICES ASSUME IInv PROVE TasksAccounted
    OBVIOUS
  <2>1. /\ rr_queue \in Seq(Tasks) /\ IsInjective(rr_queue) /\ Range(rr_queue) = Ready("RR")
        /\ system_queue \in Seq(Tasks) /\ IsInjective(system_queue)
        /\ Range(system_queue) \subseteq Ready("SYSTEM")
        /\ ~preempt_async => Range(system_queue) = Ready("SYSTEM")
    BY DEF IInv, TypeOK, QueuesKept, Holds
  <2>2. /\ Sleepers \in Seq(Tasks) /\ IsInjective(Sleepers)
        /\ Range(Sleepers) = {t \in Tasks : level[t] = "PERIODIC"}
    <3>1. /\ sleep_queue \in Seq(Entries) /\ IsInjective(Sleepers)
          /\ Range(Sleepers) = {t \in Tasks : level[t] = "PERIODIC"}
      BY DEF IInv, SleepersKept, DeltaList, Sleepers
    <3>2. /\ DOMAIN sleep_queue = 1 .. Len(sleep_queue) /\ Len(sleep_queue) \in Nat
          /\ \A i \in 1 .. Len(sleep_queue) : sleep_queue[i] \in Entries
      BY <3>1
    <3>3. Sleepers \in [1 .. Len(sleep_queue) -> Tasks]
      BY <3>2 DEF Sleepers, Names, Entries
    <3>4. Sleepers \in Seq(Tasks)
      BY <3>2, <3>3
    <3> QED  BY <3>1, <3>4
  <2>3. ASSUME NEW t \in Tasks
        PROVE  /\ Times(t, rr_queue) = IF level[t] = "RR" /\ state[t] = "READY" THEN 1 ELSE 0
               /\ Times(t, system_queue) <= IF level[t] = "SYSTEM" /\ state[t] = "READY" THEN 1 ELSE 0
               /\ ~preempt_async /\ level[t] = "SYSTEM" /\ state[t] = "READY" => Times(t, system_queue) = 1
               /\ Times(t, Sleepers) = IF level[t] = "PERIODIC" THEN 1 ELSE 0
    <3>1. Times(t, rr_queue) = IF t \in Ready("RR") THEN 1 ELSE 0
      BY <2>1, TimesIs
    <3>2. Times(t, system_queue) = IF t \in Range(system_queue) THEN 1 ELSE 0
      BY <2>1, TimesIs
    <3>3. Times(t, Sleepers) = IF t \in Range(Sleepers) THEN 1 ELSE 0
      BY <2>2, TimesIs
    <3>4. t \in Range(system_queue) => level[t] = "SYSTEM" /\ state[t] = "READY"
      BY <2>1 DEF Ready
    <3>5. ~preempt_async /\ level[t] = "SYSTEM" /\ state[t] = "READY" => t \in Range(system_queue)
      BY <2>1 DEF Ready
    <3>6. t \in Ready("RR") <=> level[t] = "RR" /\ state[t] = "READY"
      BY DEF Ready
    <3>7. t \in Range(Sleepers) <=> level[t] = "PERIODIC"
      BY <2>2
    <3> QED  BY <3>1, <3>2, <3>3, <3>4, <3>5, <3>6, <3>7
  <2>4. ASSUME NEW t \in Tasks
        PROVE  /\ state[t] = "WAITING" <=> t \in {events_waiting[e] : e \in Events}
               /\ state[t] = "RUNNING" => t = cur_task
    BY DEF IInv, WaitersKept, DescriptorsKept
  <2> QED  BY <2>3, <2>4 DEF TasksAccounted, IInv
<1> QED  BY <1>1, Invariance, PTL

-----------------------------------------------------------------------------
(* The delta list implements the countdowns, and releases follow them.     *)

LEMMA InitTimers == Init => Timers!Init
<1> SUFFICES ASSUME Init PROVE Timers!Init
  OBVIOUS
<1>1. Names(<<>>) = <<>> /\ Range(<<>>) = {} /\ sleep_queue = <<>> /\ error_msg = "NONE"
  BY DEF Names, Range, Init
<1>2. Countdown(sleep_queue) = [t \in Tasks |-> Asleep]
  BY <1>1 DEF Countdown
<1>3. Cycles = [t \in Tasks |-> 0]
  BY DEF Cycles, Init
<1>4. cur_ticks = 0 /\ current_periodic_task = NULL
  BY DEF Init
<1> QED  BY <1>1, <1>2, <1>3, <1>4 DEF Timers!Init

\* What a tick that aborts nothing does to the countdowns and to the task released.
LEMMA TickTimers ==
  ASSUME IInv, Tick, error_msg' = "NONE"
  PROVE  Timers!Tick
<1> DEFINE q == sleep_queue
           r == TickHead(q)
           due == Waking(r)
           w == Head(r).task
           c == Countdown(q)
           d == Countdown(sleep_queue')
<1>1. error_msg = "NONE"
  BY DEF Tick, InTask
<1>2. /\ ~WakeConflicts(due)
      /\ sleep_queue' = IF due = {} THEN r ELSE sleep_enqueue(Tail(r), w, period[w])
      /\ current_periodic_task' = IF due = {} THEN current_periodic_task ELSE w
      /\ cur_ticks' = (cur_ticks + 1) % WORD
      /\ UNCHANGED <<level, period>>
  BY DEF Tick, Abort
<1>3. /\ due = {t \in Tasks : c[t] = 1} /\ ~ (Cardinality(due) > 1)
      /\ due = {} => d = Passed(c)
      /\ due # {} => /\ w \in Tasks /\ due = {w} /\ level[w] = "PERIODIC"
                     /\ current_periodic_task = NULL
                     /\ d = [Passed(c) EXCEPT ![w] = period[w]]
  BY <1>2, TickSleepers
<1>4. c \in [Tasks -> Nat] /\ IsFiniteSet(due)
  BY CountdownIs, TickPasses DEF IInv, SleepersKept
<1>5. Cardinality(due) <= 1
  BY <1>3, <1>4, FS_CardinalityType
<1>6. due # {} => current_periodic_task = NULL /\ current_periodic_task' \in due
  BY <1>2, <1>3
<1>7. due = {} => UNCHANGED current_periodic_task
  BY <1>2
<1> HIDE DEF due, r, w, c, d
<1>8. d = [t \in Tasks |-> IF c[t] = Asleep THEN Asleep
                           ELSE IF t \in due THEN Cycles[t] ELSE c[t] - 1]
  <2>1. CASE due = {}
    <3>1. \A t \in Tasks : c[t] # 1
      BY <1>3, <2>1
    <3> QED  BY <1>3, <2>1, <3>1 DEF Passed, Asleep
  <2>2. CASE due # {}
    <3>1. /\ \A t \in Tasks : t = w <=> c[t] = 1
          /\ \A t \in Tasks : t \in due <=> t = w
          /\ w \in Tasks /\ Cycles[w] = period[w]
      BY <1>3, <2>2 DEF Cycles
    <3>2. d = [t \in Tasks |-> IF t = w THEN period[w] ELSE IF c[t] \in {0, 1} THEN 0 ELSE c[t] - 1]
      BY <1>3, <2>2 DEF Passed
    <3>3. ASSUME NEW t \in Tasks
          PROVE  (IF t = w THEN period[w] ELSE IF c[t] \in {0, 1} THEN 0 ELSE c[t] - 1) =
                 (IF c[t] = 0 THEN 0 ELSE IF t \in due THEN Cycles[t] ELSE c[t] - 1)
      BY <3>1
    <3> QED  BY <3>2, <3>3 DEF Asleep
  <2> QED  BY <2>1, <2>2
<1>9. Timers!Due = due
  BY <1>3 DEF Timers!Due, c
<1>10. Timers!Cardinality(Timers!Due) <= 1
  <2>1. Timers!Cardinality(due) = Cardinality(due)
    BY DEF Cardinality, Timers!Cardinality
  <2> QED  BY <1>5, <1>9, <2>1
<1>11. Countdown(sleep_queue)' =
         [t \in Tasks |-> IF Countdown(sleep_queue)[t] = Asleep THEN Asleep
                          ELSE IF t \in Timers!Due THEN Cycles[t]
                          ELSE Countdown(sleep_queue)[t] - 1]
  BY <1>8, <1>9 DEF c, d
<1>12. Cycles' = Cycles
  BY <1>2 DEF Cycles
<1>13. UNCHANGED (error_msg # "NONE")
  BY <1>1
<1>14. /\ Timers!Due # {} => current_periodic_task = NULL
       /\ IF Timers!Due = {} THEN UNCHANGED current_periodic_task
          ELSE current_periodic_task' \in Timers!Due
  BY <1>6, <1>7, <1>9
<1> HIDE DEF Timers!Due
<1> QED  BY <1>2, <1>10, <1>11, <1>12, <1>13, <1>14 DEF Timers!Tick

\* A step that leaves what the countdowns are about as it is.
LEMMA TimersStand ==
  ASSUME UNCHANGED <<sleep_queue, current_periodic_task, cur_ticks, error_msg>>, Cycles' = Cycles
  PROVE  UNCHANGED Timers!vars
BY DEF Timers!vars

\* A new task that is not PERIODIC has no period, as the DEAD descriptor had none.
LEMMA FillCycles ==
  ASSUME IInv, NEW p \in Dead, NEW lev, NEW wc, NEW per, Fill(p, lev, wc, per)
  PROVE  Cycles' = [Cycles EXCEPT ![p] = IF lev = "PERIODIC" THEN per ELSE 0]
<1>1. /\ p \in Tasks /\ state[p] = "DEAD" /\ level[p] = "NULL"
      /\ level \in [Tasks \cup {Idle} -> {"NULL", "SYSTEM", "PERIODIC", "RR"}]
      /\ period \in [Tasks -> {0} \cup Periods]
  BY DEF Dead, IInv, TypeOK, DescriptorsKept
<1>2. level' = [level EXCEPT ![p] = lev] /\ period' = [period EXCEPT ![p] = per]
  BY DEF Fill
<1>3. \A t \in Tasks : /\ level'[t] = IF t = p THEN lev ELSE level[t]
                       /\ period'[t] = IF t = p THEN per ELSE period[t]
  BY <1>1, <1>2
<1>4. Cycles' = [t \in Tasks |-> IF level'[t] = "PERIODIC" THEN period'[t] ELSE 0]
  BY DEF Cycles
<1>5. Cycles = [t \in Tasks |-> IF level[t] = "PERIODIC" THEN period[t] ELSE 0]
  BY DEF Cycles
<1> QED  BY <1>1, <1>3, <1>4, <1>5

LEMMA CreateTimers ==
  ASSUME IInv, Task_Create_Period, ~(\E e \in Errors \ {"NONE"} : Abort(e)), ~CreateFails
  PROVE  \E t \in Tasks : Timers!Start(t)
<1>1. PICK p \in Dead, start \in Starts, per \in Periods \ {0}, w \in Wcets :
       \E delay \in Timers!Delays(start, per) :
        /\ Fill(p, "PERIODIC", w, per)
        /\ p \notin Range(Names(sleep_queue)) /\ p \in Tasks
        /\ Countdown(sleep_queue') = [Countdown(sleep_queue) EXCEPT ![p] = IF delay = 0 THEN per ELSE delay]
        /\ IF delay = 0 THEN current_periodic_task = NULL /\ current_periodic_task' = p
           ELSE UNCHANGED current_periodic_task
  BY CreatePeriodSleepers
<1>2. PICK delay \in Timers!Delays(start, per) :
        /\ Fill(p, "PERIODIC", w, per)
        /\ p \notin Range(Names(sleep_queue)) /\ p \in Tasks
        /\ Countdown(sleep_queue') = [Countdown(sleep_queue) EXCEPT ![p] = IF delay = 0 THEN per ELSE delay]
        /\ IF delay = 0 THEN current_periodic_task = NULL /\ current_periodic_task' = p
           ELSE UNCHANGED current_periodic_task
  BY <1>1
<1>3. Countdown(sleep_queue)[p] = Asleep
  BY <1>2, CountdownIs DEF Asleep, IInv, SleepersKept
<1>4. error_msg' = error_msg /\ cur_ticks' = cur_ticks
  BY <1>2 DEF Fill, Enter, clock
<1>5. Cycles' = [Cycles EXCEPT ![p] = per]
  BY <1>2, FillCycles
<1>6. Timers!Start(p)
  BY <1>2, <1>3, <1>4, <1>5 DEF Timers!Start
<1> QED  BY <1>2, <1>6

LEMMA TerminateTimers ==
  ASSUME IInv, Task_Terminate
  PROVE  Timers!Stop \/ UNCHANGED Timers!vars
<1>1. /\ error_msg' = error_msg /\ cur_ticks' = cur_ticks
      /\ state[cur_task] = "RUNNING" /\ cur_task \in Tasks
      /\ level \in [Tasks \cup {Idle} -> {"NULL", "SYSTEM", "PERIODIC", "RR"}]
      /\ period \in [Tasks -> {0} \cup Periods]
  BY Caller DEF Task_Terminate, InCall, Enter, clock, IInv, TypeOK
<1>2. level' = [level EXCEPT ![cur_task] = "NULL"] /\ period' = [period EXCEPT ![cur_task] = 0]
  BY DEF Task_Terminate
<1>3. \A t \in Tasks : /\ level'[t] = IF t = cur_task THEN "NULL" ELSE level[t]
                       /\ period'[t] = IF t = cur_task THEN 0 ELSE period[t]
  BY <1>1, <1>2
<1>4. Cycles' = [t \in Tasks |-> IF level'[t] = "PERIODIC" THEN period'[t] ELSE 0]
  BY DEF Cycles
<1>5. Cycles = [t \in Tasks |-> IF level[t] = "PERIODIC" THEN period[t] ELSE 0]
  BY DEF Cycles
<1>6. Cycles' = [Cycles EXCEPT ![cur_task] = 0]
  BY <1>1, <1>3, <1>4, <1>5
<1>7. CASE Level = "PERIODIC"
  <2>1. cur_task = current_periodic_task
    BY <1>1, <1>7 DEF IInv, ReleasedKept
  <2>2. current_periodic_task # NULL
    BY <1>1, <2>1, DanielsAssumption DEF DanielsAssumption
  <2>3. Countdown(sleep_queue') = [Countdown(sleep_queue) EXCEPT ![cur_task] = 0]
    BY <1>7, TerminateSleepers
  <2>4. current_periodic_task' = NULL
    BY <1>7 DEF Task_Terminate
  <2> QED  BY <1>1, <1>6, <2>1, <2>2, <2>3, <2>4 DEF Timers!Stop, Asleep
<1>8. CASE Level # "PERIODIC"
  <2>1. sleep_queue' = sleep_queue /\ current_periodic_task' = current_periodic_task
    BY <1>8, TerminateSleepers DEF Task_Terminate
  <2>2. Cycles[cur_task] = 0
    BY <1>1, <1>8 DEF Cycles, Level
  <2>3. Cycles' = Cycles
    BY <1>1, <1>5, <1>6, <2>2
  <2> QED  BY <1>1, <2>1, <2>3, TimersStand
<1> QED  BY <1>7, <1>8

LEMMA FinishTimers ==
  ASSUME IInv, Task_Next, ~ \E e \in Errors : e # "NONE" /\ Abort(e)
  PROVE  Timers!Finish \/ UNCHANGED Timers!vars
<1>1. state[cur_task] = "RUNNING" /\ cur_task \in Tasks
  BY Caller DEF Task_Next, InCall
<1>2. /\ current_periodic_task' = IF Level = "PERIODIC" THEN NULL ELSE current_periodic_task
      /\ UNCHANGED <<level, period, sleep_queue, clock, error_msg>>
  BY DEF Task_Next, Errors, Enter
<1>3. Cycles' = Cycles /\ Countdown(sleep_queue') = Countdown(sleep_queue)
  BY <1>2 DEF Cycles
<1>4. CASE Level = "PERIODIC"
  <2>1. current_periodic_task # NULL
    BY <1>1, <1>4, DanielsAssumption DEF IInv, ReleasedKept, DanielsAssumption
  <2> QED  BY <1>2, <1>3, <1>4, <2>1 DEF Timers!Finish, clock
<1>5. CASE Level # "PERIODIC"
  BY <1>2, <1>3, <1>5, TimersStand DEF clock
<1> QED  BY <1>4, <1>5

LEMMA NextTimers == IInv /\ [Next]_vars => [Timers!Next]_(Timers!vars)
<1> SUFFICES ASSUME IInv, [Next]_vars PROVE [Timers!Next]_(Timers!vars)
  OBVIOUS
<1>1. ASSUME UNCHANGED <<level, period, sleep_queue, current_periodic_task, cur_ticks, error_msg>>
      PROVE  UNCHANGED Timers!vars
  <2>1. Cycles' = Cycles
    BY <1>1 DEF Cycles
  <2> QED  BY <1>1, <2>1, TimersStand
<1>2. ASSUME NEW e \in Errors, e # "NONE", error_msg = "NONE", Abort(e) PROVE Timers!Next
  <2>1. Cycles' = Cycles /\ UNCHANGED <<sleep_queue, current_periodic_task, cur_ticks>>
    BY <1>2 DEF Abort, Cycles, tasks, clock
  <2>2. error_msg' # "NONE"
    BY <1>2 DEF Abort
  <2> QED  BY <1>2, <2>1, <2>2 DEF Timers!Next, Timers!Halt
<1>3. CASE Dispatch \/ Millisecond \/ Event_Init \/ Aborted \/ UNCHANGED vars
  BY <1>1, <1>3 DEF Dispatch, Millisecond, Event_Init, Enter, Aborted, vars, tasks, clock
<1>4. CASE Tick
  <2>1. error_msg = "NONE"
    BY <1>4 DEF Tick, InTask
  <2>2. CASE error_msg' = "NONE"
    BY <1>4, <2>1, <2>2, TickTimers DEF Timers!Next
  <2>3. CASE error_msg' # "NONE"
    <3>1. Abort("PERIODIC_CONFLICT") \/ Abort("PERIODIC_TOOK_TOO_LONG")
      BY <1>4, <2>1, <2>3 DEF Tick, Enter
    <3> QED  BY <1>2, <2>1, <3>1 DEF Errors
  <2> QED  BY <2>2, <2>3
<1>5. CASE Task_Create_System \/ Task_Create_RR
  <2>1. CASE CreateFails
    BY <1>1, <2>1 DEF CreateFails, Enter, tasks, clock
  <2>2. CASE ~CreateFails
    <3>1. PICK p \in Dead, lev \in {"SYSTEM", "RR"}, wc \in {0, QUANTUM} :
            Fill(p, lev, wc, 0) /\ UNCHANGED <<sleep_queue, current_periodic_task>>
      BY <1>5, <2>2 DEF Task_Create_System, Task_Create_RR
    <3>2. Cycles' = [Cycles EXCEPT ![p] = 0] /\ p \in Tasks /\ level[p] = "NULL"
      BY <3>1, FillCycles DEF Dead, IInv, DescriptorsKept
    <3>3. Cycles' = Cycles
      BY <3>2 DEF Cycles
    <3> QED  BY <3>1, <3>3, TimersStand DEF Fill, Enter, clock
  <2> QED  BY <2>1, <2>2
<1>6. CASE Task_Create_Period
  <2>0. error_msg = "NONE"
    BY <1>6 DEF Task_Create_Period, InCall, InTask
  <2>1. CASE \E e \in Errors \ {"NONE"} : Abort(e)
    BY <1>2, <2>0, <2>1
  <2>2. CASE CreateFails
    BY <1>1, <2>2 DEF CreateFails, Enter, tasks, clock
  <2>3. CASE ~(\E e \in Errors \ {"NONE"} : Abort(e)) /\ ~CreateFails
    BY <1>6, <2>0, <2>3, CreateTimers DEF Timers!Next
  <2> QED  BY <2>1, <2>2, <2>3
<1>7. CASE Task_Terminate
  <2>1. error_msg = "NONE"
    BY <1>7 DEF Task_Terminate, InCall, InTask
  <2> QED  BY <1>7, <2>1, TerminateTimers DEF Timers!Next
<1>8. CASE Task_Next
  <2>0. error_msg = "NONE"
    BY <1>8 DEF Task_Next, InCall, InTask
  <2>1. CASE \E m \in Errors : m # "NONE" /\ Abort(m)
    BY <1>2, <2>0, <2>1
  <2>2. CASE ~ \E m \in Errors : m # "NONE" /\ Abort(m)
    BY <1>8, <2>0, <2>2, FinishTimers DEF Timers!Next
  <2> QED  BY <2>1, <2>2
<1>9. CASE OS_Abort
  BY <1>2, <1>9 DEF OS_Abort, InCall, InTask, Errors
<1>10. ASSUME NEW e \in Events, Call(e) \/ Event_Async_Signal(e)
       PROVE  [Timers!Next]_(Timers!vars)
  <2>0. error_msg = "NONE"
    BY <1>10 DEF Call, Event_Clear, Event_Wait, Event_Wait_Next, Event_Signal, Event_Async_Signal,
                 InCall, InTask
  <2>1. CASE \E m \in Errors : m # "NONE" /\ Abort(m)
    BY <1>2, <2>0, <2>1
  <2>2. CASE ~ \E m \in Errors : m # "NONE" /\ Abort(m)
    <3>1. UNCHANGED <<level, period, sleep_queue, current_periodic_task, cur_ticks, error_msg>>
      BY <1>10, <2>0, <2>2
         DEF Call, Event_Clear, Event_Wait, Event_Wait_Next, kernel_event_wait, Event_Signal,
             Event_Async_Signal, Record, Enter, Errors, tasks, clock
    <3> QED  BY <1>1, <3>1
  <2> QED  BY <2>1, <2>2
<1> QED
  BY <1>3, <1>4, <1>5, <1>6, <1>7, <1>8, <1>9, <1>10 DEF Next, Create

\* The delta list keeps every PERIODIC task's own time: each tick counts for every
\* sleeper (task_descriptor_queue.c keeps relative ticks and shortens the head only), a
\* task is released when its own start or period has passed and at no other tick, and
\* it then counts the period it asked for, whatever tasks are inserted, woken or
\* removed around it.
THEOREM SleepersRefineTimers == Spec => SleepersOnTime
<1>1. Spec => Timers!Init /\ [][Timers!Next]_(Timers!vars)
  BY InitTimers, NextTimers, Invariance, PTL DEF Spec
<1> QED  BY <1>1 DEF SleepersOnTime, Timers!Spec
=============================================================================
