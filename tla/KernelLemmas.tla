---------------------------- MODULE KernelLemmas ----------------------------
(***************************************************************************)
(* Facts about the sequences that stand for the kernels' queues, about     *)
(* remainders, which their clocks count in, about recursive definitions    *)
(* and about linked lists, for the proofs about the kernels.               *)
(***************************************************************************)
EXTENDS TaskSequences, FiniteSetTheorems, SequenceTheorems, WellFoundedInduction, TLAPS

-----------------------------------------------------------------------------
(* Queues that hold a given set.                                           *)

\* Appending a new element keeps a queue free of repetitions.
LEMMA AppendHolds ==
  ASSUME NEW T, NEW q \in Seq(T), NEW S, Holds(q, S), NEW x \in T, x \notin S
  PROVE  Append(q, x) \in Seq(T) /\ Holds(Append(q, x), S \cup {x})
<1> DEFINE a == Append(q, x)
<1>1. a \in Seq(T) /\ DOMAIN a = 1 .. Len(q) + 1 /\ DOMAIN q = 1 .. Len(q) /\ Len(q) \in Nat
  OBVIOUS
<1>2. \A i \in 1 .. Len(q) : a[i] = q[i] /\ q[i] \in S
  BY DEF Holds, Range
<1>3. a[Len(q) + 1] = x
  OBVIOUS
<1>4. IsInjective(a)
  BY <1>1, <1>2, <1>3 DEF Holds, IsInjective
<1>5. Range(a) = S \cup {x}
  BY <1>1, <1>2, <1>3 DEF Holds, Range
<1> QED
  BY <1>1, <1>4, <1>5 DEF Holds

\* So does pushing one at the front.
LEMMA ConsHolds ==
  ASSUME NEW T, NEW q \in Seq(T), NEW S, Holds(q, S), NEW x \in T, x \notin S
  PROVE  Cons(x, q) \in Seq(T) /\ Holds(Cons(x, q), S \cup {x})
<1> DEFINE a == Cons(x, q)
<1>1. a \in Seq(T) /\ DOMAIN a = 1 .. Len(q) + 1 /\ DOMAIN q = 1 .. Len(q) /\ Len(q) \in Nat
  BY DEF Cons
<1>2. \A i \in 1 .. Len(q) : a[i + 1] = q[i] /\ q[i] \in S
  BY DEF Holds, Range, Cons
<1>3. a[1] = x
  BY DEF Cons
<1>4. IsInjective(a)
  <2> SUFFICES ASSUME NEW i \in DOMAIN a, NEW j \in DOMAIN a, a[i] = a[j]
               PROVE  i = j
    BY DEF IsInjective
  <2>1. CASE i = 1 /\ j # 1
    BY <2>1, <1>1, <1>2, <1>3, j - 1 \in 1 .. Len(q), a[(j - 1) + 1] \in S
  <2>2. CASE i # 1 /\ j = 1
    BY <2>2, <1>1, <1>2, <1>3, i - 1 \in 1 .. Len(q), a[(i - 1) + 1] \in S
  <2>3. CASE i # 1 /\ j # 1
    <3>1. i - 1 \in 1 .. Len(q) /\ j - 1 \in 1 .. Len(q)
      BY <2>3, <1>1
    <3>2. q[i - 1] = q[j - 1]
      BY <3>1, <1>1, <1>2
    <3>3. i - 1 = j - 1
      BY <3>1, <3>2, <1>1 DEF Holds, IsInjective
    <3> QED  BY <3>3, <1>1
  <2> QED  BY <2>1, <2>2, <2>3
<1>5. Range(a) = S \cup {x}
  <2>1. \A y \in S : \E i \in DOMAIN a : a[i] = y
    <3> SUFFICES ASSUME NEW y \in S PROVE \E i \in DOMAIN a : a[i] = y
      OBVIOUS
    <3>1. PICK i \in 1 .. Len(q) : q[i] = y
      BY <1>1 DEF Holds, Range
    <3> QED  BY <3>1, <1>1, <1>2
  <2>2. \A i \in DOMAIN a : a[i] \in S \cup {x}
    <3> SUFFICES ASSUME NEW i \in DOMAIN a, i # 1 PROVE a[i] \in S
      BY <1>3
    <3>1. i - 1 \in 1 .. Len(q) /\ (i - 1) + 1 = i
      BY <1>1
    <3> QED  BY <3>1, <1>2
  <2> QED  BY <2>1, <2>2, <1>1, <1>3 DEF Range
<1> QED
  BY <1>1, <1>4, <1>5 DEF Holds

\* Taking the head removes exactly that element.
LEMMA TailHolds ==
  ASSUME NEW T, NEW q \in Seq(T), NEW S, Holds(q, S), q # <<>>
  PROVE  /\ Head(q) \in T /\ Head(q) \in S
         /\ Tail(q) \in Seq(T) /\ Holds(Tail(q), S \ {Head(q)})
<1> DEFINE a == Tail(q)
<1>1. /\ Len(q) \in Nat /\ Len(q) >= 1 /\ DOMAIN q = 1 .. Len(q)
      /\ a \in Seq(T) /\ DOMAIN a = 1 .. Len(q) - 1 /\ Head(q) = q[1]
  OBVIOUS
<1>2. \A i \in DOMAIN a : a[i] = q[i + 1] /\ i + 1 \in DOMAIN q
  BY <1>1
<1>3. IsInjective(a)
  <2> SUFFICES ASSUME NEW i \in DOMAIN a, NEW j \in DOMAIN a, a[i] = a[j]
               PROVE  i = j
    BY DEF IsInjective
  <2>1. i + 1 = j + 1
    BY <1>2 DEF Holds, IsInjective
  <2> QED  BY <2>1, <1>1
<1>4. Head(q) \in T /\ Head(q) \in S
  BY <1>1 DEF Holds, Range
<1>5. \A i \in DOMAIN a : a[i] \in S \ {Head(q)}
  <2> SUFFICES ASSUME NEW i \in DOMAIN a PROVE a[i] \in S /\ a[i] # q[1]
    BY <1>1
  <2>1. q[i + 1] \in S
    BY <1>2 DEF Holds, Range
  <2>2. q[i + 1] # q[1]
    BY <1>1, <1>2 DEF Holds, IsInjective
  <2> QED  BY <2>1, <2>2, <1>2
<1>6. \A y \in S \ {Head(q)} : \E i \in DOMAIN a : a[i] = y
  <2> SUFFICES ASSUME NEW y \in S, y # q[1] PROVE \E i \in DOMAIN a : a[i] = y
    BY <1>1
  <2>1. PICK i \in DOMAIN q : q[i] = y
    BY DEF Holds, Range
  <2>2. i - 1 \in DOMAIN a /\ (i - 1) + 1 = i
    BY <2>1, <1>1
  <2> QED  BY <2>1, <2>2, <1>2
<1>7. Range(a) = S \ {Head(q)}
  BY <1>5, <1>6 DEF Range
<1> QED
  BY <1>1, <1>3, <1>4, <1>7 DEF Holds

-----------------------------------------------------------------------------
(* The ends of a queue, and the order inside it.                           *)

\* What is at the ends of a sequence, and what taking or adding one there leaves.
LEMMA SeqEnds ==
  ASSUME NEW T, NEW q \in Seq(T)
  PROVE  /\ Range(q) \subseteq T /\ DOMAIN q = 1 .. Len(q) /\ Len(q) \in Nat
         /\ q # <<>> => /\ Head(q) \in Range(q) /\ Head(q) = q[1]
                        /\ Tail(q) \in Seq(T) /\ Range(Tail(q)) \subseteq Range(q)
                        /\ Len(q) >= 1
                        /\ \A i \in 1 .. Len(q) - 1 : Tail(q)[i] = q[i + 1]
                        /\ Len(Tail(q)) = Len(q) - 1
<1>1. q \in Seq(T) /\ DOMAIN q = 1 .. Len(q) /\ Len(q) \in Nat
  OBVIOUS
<1>2. Range(q) \subseteq T
  BY <1>1 DEF Range
<1>3. ASSUME q # <<>>
      PROVE  /\ Head(q) \in Range(q) /\ Head(q) = q[1]
             /\ Tail(q) \in Seq(T) /\ Range(Tail(q)) \subseteq Range(q)
             /\ Len(q) >= 1
             /\ \A i \in 1 .. Len(q) - 1 : Tail(q)[i] = q[i + 1]
             /\ Len(Tail(q)) = Len(q) - 1
  <2>1. /\ Len(q) >= 1 /\ Head(q) = q[1] /\ Tail(q) \in Seq(T)
        /\ \A i \in 1 .. Len(q) - 1 : Tail(q)[i] = q[i + 1]
        /\ Len(Tail(q)) = Len(q) - 1 /\ DOMAIN Tail(q) = 1 .. Len(q) - 1
    BY <1>1, <1>3
  <2>2. \A i \in 1 .. Len(q) - 1 : i + 1 \in 1 .. Len(q)
    BY <1>1
  <2> QED  BY <1>1, <2>1, <2>2 DEF Range
<1> QED  BY <1>1, <1>2, <1>3

\* What adding an element at an end does.
LEMMA SeqAdd ==
  ASSUME NEW T, NEW q \in Seq(T), NEW x \in T
  PROVE  /\ Append(q, x) \in Seq(T) /\ Range(Append(q, x)) = Range(q) \cup {x}
         /\ Append(q, x) # <<>> /\ Len(Append(q, x)) = Len(q) + 1
         /\ Cons(x, q) \in Seq(T) /\ Range(Cons(x, q)) = Range(q) \cup {x}
         /\ Cons(x, q) # <<>> /\ Head(Cons(x, q)) = x /\ Tail(Cons(x, q)) = q
         /\ Len(Cons(x, q)) = Len(q) + 1
         /\ \A i \in 1 .. Len(q) : Cons(x, q)[i + 1] = q[i]
<1>1. DOMAIN q = 1 .. Len(q) /\ Len(q) \in Nat
  OBVIOUS
<1>2. /\ Append(q, x) \in Seq(T) /\ Range(Append(q, x)) = Range(q) \cup {x}
      /\ Append(q, x) # <<>> /\ Len(Append(q, x)) = Len(q) + 1
  <2>1. /\ Append(q, x) \in Seq(T) /\ DOMAIN Append(q, x) = 1 .. Len(q) + 1
        /\ Append(q, x)[Len(q) + 1] = x /\ Len(Append(q, x)) = Len(q) + 1
        /\ \A i \in 1 .. Len(q) : Append(q, x)[i] = q[i]
    BY <1>1
  <2>2. 1 .. Len(q) + 1 = (1 .. Len(q)) \cup {Len(q) + 1}
    BY <1>1
  <2>3. Range(Append(q, x)) = Range(q) \cup {x}
    BY <1>1, <2>1, <2>2 DEF Range
  <2> QED  BY <1>1, <2>1, <2>3, EmptySeq
<1>3. /\ Cons(x, q) \in Seq(T) /\ Range(Cons(x, q)) = Range(q) \cup {x}
      /\ Cons(x, q) # <<>> /\ Head(Cons(x, q)) = x /\ Tail(Cons(x, q)) = q
      /\ Len(Cons(x, q)) = Len(q) + 1
      /\ \A i \in 1 .. Len(q) : Cons(x, q)[i + 1] = q[i]
  <2> DEFINE c == Cons(x, q)
  <2>1. /\ c \in Seq(T) /\ DOMAIN c = 1 .. Len(q) + 1 /\ Len(c) = Len(q) + 1
        /\ c[1] = x /\ \A i \in 1 .. Len(q) : c[i + 1] = q[i]
    BY <1>1 DEF Cons
  <2>2. \A i \in 1 .. Len(q) + 1 : i = 1 \/ (i - 1 \in 1 .. Len(q) /\ (i - 1) + 1 = i)
    BY <1>1
  <2>3. 1 \in 1 .. Len(q) + 1 /\ \A i \in 1 .. Len(q) : i + 1 \in 1 .. Len(q) + 1
    BY <1>1
  <2>4. Range(c) = Range(q) \cup {x}
    <3>1. \A y \in Range(c) : y \in Range(q) \cup {x}
      <4> HIDE DEF c
      <4> SUFFICES ASSUME NEW i \in 1 .. Len(q) + 1, i # 1 PROVE c[i] \in Range(q)
        BY <2>1 DEF Range
      <4>1. i - 1 \in 1 .. Len(q) /\ c[(i - 1) + 1] = q[i - 1] /\ (i - 1) + 1 = i
        BY <2>1, <2>2
      <4> QED  BY <1>1, <4>1 DEF Range
    <3>2. \A y \in Range(q) \cup {x} : y \in Range(c)
      BY <1>1, <2>1, <2>3 DEF Range
    <3> QED  BY <3>1, <3>2
  <2>5. c # <<>> /\ Head(c) = x
    BY <1>1, <2>1, EmptySeq
  <2> HIDE DEF c
  <2>6. /\ Tail(c) \in Seq(T) /\ Len(Tail(c)) = Len(q)
        /\ \A i \in 1 .. Len(q) : Tail(c)[i] = q[i]
    BY <1>1, <2>1, <2>5
  <2>7. Tail(c) = q
    BY <1>1, <2>6, SeqEqual
  <2> QED  BY <2>1, <2>4, <2>5, <2>7 DEF c
<1> QED  BY <1>2, <1>3

\* Removing the head, or adding a new element at an end, reorders nothing.
LEMMA SeqOrderKept ==
  ASSUME NEW T, NEW q \in Seq(T), NEW a, NEW b
  PROVE  /\ q # <<>> /\ Before(Tail(q), b, a) => Before(q, b, a)
         /\ \A x \in T : Before(Append(q, x), b, a) /\ a # x => Before(q, b, a)
         /\ \A x \in T : Before(Cons(x, q), b, a) => b = x \/ Before(q, b, a)
<1>1. ASSUME q # <<>>, Before(Tail(q), b, a) PROVE Before(q, b, a)
  <2>1. /\ Tail(q) \in Seq(T) /\ \A i \in 1 .. Len(q) - 1 : Tail(q)[i] = q[i + 1]
        /\ DOMAIN Tail(q) = 1 .. Len(Tail(q)) /\ Len(Tail(q)) = Len(q) - 1
        /\ DOMAIN q = 1 .. Len(q) /\ Len(q) \in Nat
    BY <1>1, SeqEnds, SeqAdd
  <2>2. PICK i, j \in 1 .. Len(q) - 1 : i < j /\ Tail(q)[i] = b /\ Tail(q)[j] = a
    BY <1>1, <2>1 DEF Before
  <2>3. i + 1 \in 1 .. Len(q) /\ j + 1 \in 1 .. Len(q) /\ i + 1 < j + 1
    BY <2>1, <2>2
  <2> QED  BY <2>1, <2>2, <2>3 DEF Before
<1>2. ASSUME NEW x \in T, Before(Append(q, x), b, a), a # x PROVE Before(q, b, a)
  <2>1. /\ DOMAIN Append(q, x) = 1 .. Len(q) + 1 /\ Len(q) \in Nat /\ DOMAIN q = 1 .. Len(q)
        /\ Append(q, x)[Len(q) + 1] = x
        /\ \A i \in 1 .. Len(q) : Append(q, x)[i] = q[i]
    OBVIOUS
  <2>2. PICK i, j \in 1 .. Len(q) + 1 : i < j /\ Append(q, x)[i] = b /\ Append(q, x)[j] = a
    BY <1>2, <2>1 DEF Before
  <2>3. j # Len(q) + 1
    BY <1>2, <2>1, <2>2
  <2>4. i \in 1 .. Len(q) /\ j \in 1 .. Len(q)
    BY <2>1, <2>2, <2>3
  <2> QED  BY <2>1, <2>2, <2>4 DEF Before
<1>3. ASSUME NEW x \in T, Before(Cons(x, q), b, a), b # x PROVE Before(q, b, a)
  <2> DEFINE c == Cons(x, q)
  <2>1. /\ DOMAIN q = 1 .. Len(q) /\ Len(q) \in Nat
        /\ c \in Seq(T) /\ Len(c) = Len(q) + 1 /\ c # <<>> /\ Head(c) = x
        /\ \A i \in 1 .. Len(q) : c[i + 1] = q[i]
    BY SeqEnds, SeqAdd
  <2> HIDE DEF c
  <2>2. DOMAIN c = 1 .. Len(q) + 1 /\ c[1] = x
    BY <2>1, SeqEnds, SeqAdd
  <2>3. PICK i, j \in 1 .. Len(q) + 1 : i < j /\ c[i] = b /\ c[j] = a
    BY <1>3, <2>2 DEF Before, c
  <2>4. i # 1
    BY <1>3, <2>2, <2>3
  <2>5. /\ i - 1 \in 1 .. Len(q) /\ j - 1 \in 1 .. Len(q) /\ i - 1 < j - 1
        /\ (i - 1) + 1 = i /\ (j - 1) + 1 = j
    BY <2>1, <2>3, <2>4
  <2>6. q[i - 1] = b /\ q[j - 1] = a
    BY <2>1, <2>3, <2>5
  <2> QED  BY <2>1, <2>5, <2>6 DEF Before
<1> QED  BY <1>1, <1>2, <1>3

\* The first two elements of a queue, after the head has been taken.
LEMMA SeqTailOfAppend ==
  ASSUME NEW T, NEW q \in Seq(T), NEW x \in T, q # <<>>
  PROVE  Head(Append(q, x)) = Head(q) /\ Tail(Append(q, x)) = Append(Tail(q), x)
<1>1. q \in Seq(T) /\ Len(q) >= 1 /\ Len(q) \in Nat
  BY SeqEnds, SeqAdd
<1> QED  BY <1>1, HeadTailAppend

\* Two queues without a common element, one after the other: nothing in the first
\* is overtaken.
LEMMA ConcatHolds ==
  ASSUME NEW T, NEW p \in Seq(T), NEW q \in Seq(T), NEW S, NEW R,
         Holds(p, S), Holds(q, R), S \cap R = {}
  PROVE  /\ p \o q \in Seq(T) /\ Holds(p \o q, S \cup R)
         /\ \A a \in S : \A b : Before(p \o q, b, a) => Before(p, b, a)
<1> DEFINE c == p \o q
           m == Len(p)
           n == Len(q)
<1>1. /\ c \in Seq(T) /\ m \in Nat /\ n \in Nat /\ DOMAIN c = 1 .. m + n
      /\ DOMAIN p = 1 .. m /\ DOMAIN q = 1 .. n
  OBVIOUS
<1>2. \A i \in 1 .. m : c[i] = p[i] /\ p[i] \in S
  BY <1>1 DEF Holds, Range
<1>3. \A i \in 1 .. n : c[m + i] = q[i] /\ q[i] \in R
  BY <1>1 DEF Holds, Range
<1>4. \A i \in DOMAIN c : i \in 1 .. m \/ (i - m \in 1 .. n /\ m + (i - m) = i)
  BY <1>1
<1>5. \A i \in 1 .. n : m + i \in DOMAIN c
  BY <1>1
<1>6. \A i \in 1 .. m : i \in DOMAIN c
  BY <1>1
<1> HIDE DEF c, m, n
<1>7. \A i \in DOMAIN c : /\ c[i] \in S => i \in 1 .. m
                          /\ c[i] \in S \cup R
  <2> SUFFICES ASSUME NEW i \in DOMAIN c
               PROVE  (c[i] \in S => i \in 1 .. m) /\ c[i] \in S \cup R
    OBVIOUS
  <2>1. CASE i \in 1 .. m
    BY <1>2, <2>1
  <2>2. CASE i - m \in 1 .. n /\ m + (i - m) = i
    <3>1. c[m + (i - m)] \in R
      BY <1>3, <2>2
    <3> QED  BY <2>2, <3>1
  <2> QED  BY <1>4, <2>1, <2>2
<1>8. IsInjective(c)
  <2> SUFFICES ASSUME NEW i \in DOMAIN c, NEW j \in DOMAIN c, c[i] = c[j] PROVE i = j
    BY DEF IsInjective
  <2>1. CASE i \in 1 .. m
    <3>1. j \in 1 .. m
      BY <1>2, <1>7, <2>1
    <3> QED  BY <1>1, <1>2, <2>1, <3>1 DEF Holds, IsInjective
  <2>2. CASE i - m \in 1 .. n /\ m + (i - m) = i
    <3>1. c[i] \in R /\ c[i] = q[i - m]
      BY <1>3, <2>2
    <3>2. j \notin 1 .. m
      BY <1>2, <3>1
    <3>3. j - m \in 1 .. n /\ m + (j - m) = j /\ c[j] = q[j - m]
      BY <1>3, <1>4, <3>2
    <3>4. i - m = j - m
      BY <1>1, <2>2, <3>1, <3>3 DEF Holds, IsInjective
    <3> QED  BY <2>2, <3>3, <3>4
  <2> QED  BY <1>4, <2>1, <2>2
<1>9. \A y \in S \cup R : \E i \in DOMAIN c : c[i] = y
  <2>1. ASSUME NEW y \in S PROVE \E i \in DOMAIN c : c[i] = y
    <3>1. PICK i \in 1 .. m : p[i] = y
      BY <1>1 DEF Holds, Range
    <3> QED  BY <1>2, <1>6, <3>1
  <2>2. ASSUME NEW y \in R PROVE \E i \in DOMAIN c : c[i] = y
    <3>1. PICK i \in 1 .. n : q[i] = y
      BY <1>1 DEF Holds, Range
    <3> QED  BY <1>3, <1>5, <3>1
  <2> QED  BY <2>1, <2>2
<1>10. ASSUME NEW a \in S, NEW b, Before(c, b, a) PROVE Before(p, b, a)
  <2>1. PICK i, j \in DOMAIN c : i < j /\ c[i] = b /\ c[j] = a
    BY <1>10 DEF Before
  <2>2. j \in 1 .. m
    BY <1>7, <2>1
  <2>3. i \in 1 .. m
    BY <1>1, <2>1, <2>2
  <2> QED  BY <1>1, <1>2, <2>1, <2>2, <2>3 DEF Before
<1>11. Range(c) = S \cup R
  BY <1>7, <1>9 DEF Range
<1> QED  BY <1>1, <1>8, <1>10, <1>11 DEF Holds, c

\* An element put before position i.
LEMMA InsertIndex ==
  ASSUME NEW T, NEW q \in Seq(T), NEW x \in T, NEW i \in 1 .. Len(q)
  PROVE  /\ InsertAt(q, i, x) \in Seq(T) /\ Len(InsertAt(q, i, x)) = Len(q) + 1
         /\ DOMAIN InsertAt(q, i, x) = 1 .. Len(q) + 1
         /\ \A j \in 1 .. Len(q) + 1 :
              InsertAt(q, i, x)[j] = IF j < i THEN q[j] ELSE IF j = i THEN x ELSE q[j - 1]
  BY DEF InsertAt

\* A new one keeps the queue free of repetitions.
LEMMA InsertHolds ==
  ASSUME NEW T, NEW q \in Seq(T), NEW S, Holds(q, S), NEW x \in T, x \notin S,
         NEW i \in 1 .. Len(q)
  PROVE  /\ InsertAt(q, i, x) \in Seq(T) /\ Holds(InsertAt(q, i, x), S \cup {x})
<1> DEFINE a == InsertAt(q, i, x)
           n == Len(q)
<1>1. /\ n \in Nat /\ a \in Seq(T) /\ Len(a) = n + 1 /\ DOMAIN a = 1 .. n + 1
      /\ DOMAIN q = 1 .. n /\ i \in 1 .. n
  BY DEF InsertAt
<1>2. \A j \in 1 .. n + 1 : a[j] = IF j < i THEN q[j] ELSE IF j = i THEN x ELSE q[j - 1]
  BY DEF InsertAt
<1>3. \A j \in 1 .. n : q[j] \in S
  BY <1>1 DEF Holds, Range
<1> HIDE DEF a, n
\* Where the element at position j of a was in q.
<1> DEFINE Old(j) == IF j < i THEN j ELSE j - 1
<1>4. \A j \in 1 .. n + 1 : j # i => Old(j) \in 1 .. n /\ a[j] = q[Old(j)] /\ a[j] \in S
  BY <1>1, <1>2, <1>3
<1>5. a[i] = x
  BY <1>1, <1>2
<1>6. \A j, k \in 1 .. n + 1 : j # i /\ k # i /\ Old(j) = Old(k) => j = k
  BY <1>1
<1>7. IsInjective(a)
  <2> SUFFICES ASSUME NEW j \in 1 .. n + 1, NEW k \in 1 .. n + 1, a[j] = a[k] PROVE j = k
    BY <1>1 DEF IsInjective
  <2>1. CASE j = i \/ k = i
    BY <1>4, <1>5, <2>1
  <2>2. CASE j # i /\ k # i
    <3>1. q[Old(j)] = q[Old(k)] /\ Old(j) \in 1 .. n /\ Old(k) \in 1 .. n
      BY <1>4, <2>2
    <3> HIDE DEF Old
    <3>2. Old(j) = Old(k)
      BY <1>1, <3>1 DEF Holds, IsInjective
    <3> QED  BY <1>6, <2>2, <3>2
  <2> QED  BY <2>1, <2>2
<1>8. \A y \in S : \E j \in DOMAIN a : a[j] = y
  <2> SUFFICES ASSUME NEW y \in S PROVE \E j \in DOMAIN a : a[j] = y
    OBVIOUS
  <2>1. PICK k \in 1 .. n : q[k] = y
    BY <1>1 DEF Holds, Range
  <2>2. CASE k < i
    BY <1>1, <1>2, <2>1, <2>2, k \in 1 .. n + 1
  <2>3. CASE ~ (k < i)
    BY <1>1, <1>2, <2>1, <2>3, k + 1 \in 1 .. n + 1, (k + 1) - 1 = k
  <2> QED  BY <2>2, <2>3
<1>9. Range(a) = S \cup {x}
  <2>1. \A j \in DOMAIN a : a[j] \in S \cup {x}
    BY <1>1, <1>4, <1>5
  <2> QED  BY <1>1, <1>5, <1>8, <2>1 DEF Range
<1> QED  BY <1>1, <1>7, <1>9 DEF Holds, a, n

-----------------------------------------------------------------------------
(* Parts of a queue.                                                       *)

\* A set of numbers has a least one.
LEMMA LeastOne ==
  ASSUME NEW S \in SUBSET Nat, S # {}
  PROVE  \E m \in S : \A k \in S : m <= k
<1>1. PICK m \in S : \A k \in S : ~ (<<k, m>> \in OpToRel(<, Nat))
  BY NatLessThanWellFounded, WFMin
<1>2. \A k \in S : ~ (k < m)
  BY <1>1 DEF OpToRel
<1> QED
  BY <1>2

\* The numbers of a finite set up to each bound.
UpTo(P, i) == {j \in P : j <= i}

LEMMA UpToLemma ==
  ASSUME NEW n \in Nat, NEW P \in SUBSET (1 .. n)
  PROVE  /\ IsFiniteSet(P) /\ Cardinality(P) \in Nat
         /\ \A i : IsFiniteSet(UpTo(P, i)) /\ Cardinality(UpTo(P, i)) \in Nat
         /\ \A i : Cardinality(UpTo(P, i)) <= Cardinality(P)
         /\ \A i \in P : Cardinality(UpTo(P, i)) >= 1
         /\ \A i, j \in P : i < j => Cardinality(UpTo(P, i)) < Cardinality(UpTo(P, j))
         /\ \A k \in 1 .. Cardinality(P) : \E i \in P : Cardinality(UpTo(P, i)) = k
<1>0. \A i \in P : i \in Nat /\ i \in 1 .. n
  OBVIOUS
<1>1. IsFiniteSet(P)
  <2>1. IsFiniteSet(1 .. n)
    BY FS_Interval
  <2> QED  BY <2>1, FS_Subset
<1>2. \A i : UpTo(P, i) \subseteq P
  BY DEF UpTo
<1>3. \A i : IsFiniteSet(UpTo(P, i)) /\ Cardinality(UpTo(P, i)) \in Nat
             /\ Cardinality(UpTo(P, i)) <= Cardinality(P)
  BY <1>1, <1>2, FS_Subset, FS_CardinalityType
<1>4. Cardinality(P) \in Nat
  BY <1>1, FS_CardinalityType
<1>5. \A i \in P : Cardinality(UpTo(P, i)) >= 1
  <2> SUFFICES ASSUME NEW i \in P PROVE Cardinality(UpTo(P, i)) >= 1
    OBVIOUS
  <2>1. UpTo(P, i) # {}
    BY DEF UpTo
  <2>2. Cardinality(UpTo(P, i)) # 0
    BY <1>3, <2>1, FS_EmptySet
  <2> QED  BY <1>3, <2>2
<1>6. \A i, j \in P : i < j => Cardinality(UpTo(P, i)) < Cardinality(UpTo(P, j))
  <2> SUFFICES ASSUME NEW i \in P, NEW j \in P, i < j
               PROVE  Cardinality(UpTo(P, i)) < Cardinality(UpTo(P, j))
    OBVIOUS
  <2>1. UpTo(P, i) \subseteq UpTo(P, j) /\ j \in UpTo(P, j) /\ j \notin UpTo(P, i)
    <3>1. i \in Nat /\ j \in Nat
      BY <1>0
    <3>2. \A k : k \in UpTo(P, i) <=> k \in P /\ k \in Nat /\ k <= i
      BY <1>0 DEF UpTo
    <3>3. \A k : k \in UpTo(P, j) <=> k \in P /\ k \in Nat /\ k <= j
      BY <1>0 DEF UpTo
    <3> QED  BY <3>1, <3>2, <3>3
  <2>2. UpTo(P, i) # UpTo(P, j)
    BY <2>1
  <2> QED  BY <1>3, <2>1, <2>2, FS_Subset
<1>7. ASSUME NEW k \in 1 .. Cardinality(P)
      PROVE  \E i \in P : Cardinality(UpTo(P, i)) = k
  <2> DEFINE C(i) == Cardinality(UpTo(P, i))
             Enough == {i \in 0 .. n : C(i) >= k}
  <2>0. \A i, j : j \in UpTo(P, i) <=> j \in P /\ j \in Nat /\ j \in 1 .. n /\ j <= i
    BY <1>0 DEF UpTo
  <2>1. UpTo(P, n) = P /\ UpTo(P, 0) = {}
    <3>1. \A j : j \in UpTo(P, n) <=> j \in P
      <4>1. \A j \in P : j \in Nat /\ j \in 1 .. n /\ j <= n
        BY <1>0
      <4> QED  BY <2>0, <4>1
    <3>2. \A j : j \notin UpTo(P, 0)
      BY <2>0
    <3> QED  BY <3>1, <3>2
  <2>2. C(n) = Cardinality(P) /\ C(0) = 0
    BY <2>1, FS_EmptySet
  <2>3. n \in Enough /\ 0 \notin Enough
    BY <1>4, <2>2
  <2>4. PICK m \in Enough : \A i \in Enough : m <= i
    <3>1. Enough \in SUBSET Nat /\ Enough # {}
      BY <2>3
    <3> HIDE DEF Enough
    <3> QED  BY <3>1, LeastOne
  <2>5. m \in 1 .. n /\ m - 1 \in 0 .. n /\ m - 1 \notin Enough
    BY <2>3, <2>4
  <2>6. C(m - 1) \in Nat /\ C(m - 1) < k /\ C(m) >= k
    BY <1>3, <2>4, <2>5
  <2>7. UpTo(P, m) \ {m} = UpTo(P, m - 1)
    <3>1. \A j : j \in UpTo(P, m) /\ j # m <=> j \in UpTo(P, m - 1)
      BY <2>0, <2>5
    <3> QED  BY <3>1
  <2>8. m \in P
    <3> SUFFICES ASSUME m \notin P PROVE FALSE
      OBVIOUS
    <3>1. UpTo(P, m) = UpTo(P, m - 1)
      BY <2>7 DEF UpTo
    <3> QED  BY <1>3, <2>6, <3>1
  <2>9. C(m) = C(m - 1) + 1
    <3>1. UpTo(P, m) = UpTo(P, m - 1) \cup {m} /\ m \notin UpTo(P, m - 1)
      <4>1. m \in UpTo(P, m) /\ m \notin UpTo(P, m - 1)
        BY <2>0, <2>5, <2>8
      <4> QED  BY <2>7, <4>1
    <3> QED  BY <1>3, <3>1, FS_AddElement
  <2> QED  BY <1>3, <2>6, <2>8, <2>9
<1> QED  BY <1>1, <1>3, <1>4, <1>5, <1>6, <1>7

\* A subsequence of a queue is a queue of the elements at its positions.
LEMMA SubsequenceHolds ==
  ASSUME NEW T, NEW q \in Seq(T), IsInjective(q), NEW P \in SUBSET DOMAIN q
  PROVE  /\ Subsequence(q, P) \in Seq(T)
         /\ Holds(Subsequence(q, P), {q[i] : i \in P})
<1> DEFINE C(i) == Cardinality(UpTo(P, i))
           n == Cardinality(P)
           at == [k \in 1 .. n |-> CHOOSE i \in P : C(i) = k]
           s == Subsequence(q, P)
<1>1. Len(q) \in Nat /\ DOMAIN q = 1 .. Len(q) /\ P \in SUBSET (1 .. Len(q))
  OBVIOUS
<1>2. /\ n \in Nat /\ \A i \in P : C(i) \in 1 .. n /\ C(i) \in Nat
      /\ \A i, j \in P : i < j => C(i) < C(j)
      /\ \A k \in 1 .. n : \E i \in P : C(i) = k
  <2>1. Len(q) \in Nat /\ P \in SUBSET (1 .. Len(q))
    BY <1>1
  <2>2. /\ n \in Nat /\ \A i : C(i) \in Nat /\ C(i) <= n
        /\ \A i \in P : C(i) >= 1
        /\ \A i, j \in P : i < j => C(i) < C(j)
        /\ \A k \in 1 .. n : \E i \in P : C(i) = k
    BY <2>1, UpToLemma
  <2> HIDE DEF C, n
  <2> QED  BY <2>2
<1>3. s = [k \in 1 .. n |-> q[at[k]]]
  BY DEF Subsequence, UpTo
<1> HIDE DEF C, n, s
<1>4. \A k \in 1 .. n : at[k] \in P /\ C(at[k]) = k
  BY <1>2
<1>5. \A i \in P : at[C(i)] = i
  <2> SUFFICES ASSUME NEW i \in P PROVE at[C(i)] = i
    OBVIOUS
  <2>1. C(i) \in 1 .. n /\ at[C(i)] \in P /\ C(at[C(i)]) = C(i)
    BY <1>2, <1>4
  <2> HIDE DEF at
  <2>2. at[C(i)] \in 1 .. Len(q) /\ i \in 1 .. Len(q)
    BY <1>1, <2>1
  <2>3. ~ (at[C(i)] < i) /\ ~ (i < at[C(i)])
    BY <1>2, <2>1
  <2> QED  BY <1>1, <2>2, <2>3
<1> HIDE DEF at
<1>6. s \in Seq(T) /\ DOMAIN s = 1 .. n /\ \A k \in 1 .. n : s[k] = q[at[k]]
  BY <1>1, <1>2, <1>3, <1>4
<1>7. IsInjective(s)
  <2> SUFFICES ASSUME NEW j \in 1 .. n, NEW k \in 1 .. n, s[j] = s[k] PROVE j = k
    BY <1>6 DEF IsInjective
  <2>1. at[j] = at[k]
    BY <1>4, <1>6 DEF IsInjective
  <2> QED  BY <1>4, <2>1
<1>8. Range(s) = {q[i] : i \in P}
  <2>1. \A k \in 1 .. n : s[k] \in {q[i] : i \in P}
    BY <1>4, <1>6
  <2>2. \A i \in P : C(i) \in 1 .. n /\ s[C(i)] = q[i]
    BY <1>2, <1>5, <1>6
  <2> QED  BY <1>6, <2>1, <2>2 DEF Range
<1> QED  BY <1>6, <1>7, <1>8 DEF Holds, s

\* A sequence of one element and one more.
LEMMA AppendOne ==
  ASSUME NEW a, NEW b
  PROVE  Append(<<a>>, b) = <<a, b>>
<1>1. ASSUME NEW S, NEW s \in Seq(S), NEW t \in Seq(S), NEW c \in S,
             Len(s) = 1, Len(t) = 2, s[1] = t[1], c = t[2]
      PROVE  Append(s, c) = t
  <2>1. /\ Append(s, c) \in Seq(S) /\ Len(Append(s, c)) = Len(s) + 1
        /\ \A i \in 1 .. Len(s) : Append(s, c)[i] = s[i]
        /\ Append(s, c)[Len(s) + 1] = c
    BY AppendProperties
  <2>2. \A i \in 1 .. 2 : Append(s, c)[i] = t[i]
    BY <1>1, <2>1
  <2> QED  BY <1>1, <2>1, <2>2, SeqEqual
<1>2. <<a>> \in Seq({a, b}) /\ <<a, b>> \in Seq({a, b})
  OBVIOUS
<1>3. /\ Len(<<a>>) = 1 /\ Len(<<a, b>>) = 2
      /\ <<a>>[1] = <<a, b>>[1] /\ b = <<a, b>>[2]
  OBVIOUS
<1>4. b \in {a, b}
  OBVIOUS
<1> DEFINE S == {a, b}
           s == <<a>>
           t == <<a, b>>
<1>5. /\ s \in Seq(S) /\ t \in Seq(S) /\ b \in S
      /\ Len(s) = 1 /\ Len(t) = 2 /\ s[1] = t[1] /\ b = t[2]
  BY <1>2, <1>3, <1>4
<1> HIDE DEF S, s, t
<1>6. Append(s, b) = t
  BY <1>1, <1>5
<1> QED  BY <1>6 DEF s, t

-----------------------------------------------------------------------------
(* Remainders.                                                             *)

LEMMA Quotient ==
  \A a \in Int, p \in Nat \ {0} :
    a = p * (a \div p) + (a % p) /\ a % p \in 0 .. p - 1 /\ a \div p \in Int
  OBVIOUS

LEMMA OneRemainder ==
  ASSUME NEW p \in Nat \ {0}, NEW q \in Int, NEW k \in Int,
         NEW r \in 0 .. p - 1, NEW s \in 0 .. p - 1, p * q + r = p * k + s
  PROVE  r = s
<1>1. CASE q = k
  BY <1>1
<1>2. CASE q < k
  <2>1. k - q >= 1 /\ k - q \in Nat
    BY <1>2
  <2>2. p * (k - q) >= p
    BY <2>1
  <2>3. p * (k - q) = p * k - p * q
    OBVIOUS
  <2> QED  BY <2>2, <2>3
<1>3. CASE k < q
  <2>1. q - k >= 1 /\ q - k \in Nat
    BY <1>3
  <2>2. p * (q - k) >= p
    BY <2>1
  <2>3. p * (q - k) = p * q - p * k
    OBVIOUS
  <2> QED  BY <2>2, <2>3
<1> QED  BY <1>1, <1>2, <1>3

\* Adding a multiple of p leaves the remainder by p.
LEMMA Periodicity ==
  ASSUME NEW p \in Nat \ {0}, NEW a \in Int, NEW k \in Int
  PROVE  (a + p * k) % p = a % p
<1> DEFINE b == a + p * k
           q == a \div p
           r == a % p
           u == b \div p
           w == b % p
<1>1. b \in Int /\ b = p * u + w /\ w \in 0 .. p - 1 /\ u \in Int
  BY Quotient
<1>2. a = p * q + r /\ r \in 0 .. p - 1 /\ q \in Int
  BY Quotient
<1>3. p * (q + k) = p * q + p * k /\ q + k \in Int
  BY <1>2
<1> HIDE DEF q, r, u, w
<1>4. p * (q + k) + r = p * u + w
  BY <1>1, <1>2, <1>3
<1> HIDE DEF b
<1>5. r = w
  BY <1>1, <1>2, <1>3, <1>4, OneRemainder
<1> QED  BY <1>5 DEF r, w, b

\* A number below p is its own remainder.
LEMMA OwnRemainder ==
  ASSUME NEW p \in Nat \ {0}, NEW x \in 0 .. p - 1
  PROVE  x % p = x
<1>1. x = p * (x \div p) + (x % p) /\ x % p \in 0 .. p - 1 /\ x \div p \in Int
  BY Quotient
<1>2. p * 0 + x = p * (x \div p) + (x % p)
  BY <1>1
<1> QED  BY <1>1, <1>2, OneRemainder

\* The remainder of a sum depends on the remainders only.
LEMMA RemainderInSum ==
  ASSUME NEW p \in Nat \ {0}, NEW a \in Int, NEW b \in Int
  PROVE  ((a % p) + b) % p = (a + b) % p
<1> DEFINE q == a \div p
           r == a % p
<1>1. a = p * q + r /\ r \in Int /\ q \in Int
  BY Quotient
<1> HIDE DEF q, r
<1>2. r + b \in Int /\ (r + b) + p * q = a + b
  BY <1>1
<1>3. ((r + b) + p * q) % p = (r + b) % p
  BY <1>1, <1>2, Periodicity
<1> QED  BY <1>2, <1>3 DEF r

LEMMA OneTurn ==
  ASSUME NEW p \in Nat \ {0}, NEW a \in Int
  PROVE  (a + p) % p = a % p
<1> DEFINE k == 1
<1>1. k \in Int /\ a + p * k = a + p
  OBVIOUS
<1> HIDE DEF k
<1>2. (a + p * k) % p = a % p
  BY <1>1, Periodicity
<1> QED  BY <1>1, <1>2

\* The ticks from t to n on a clock of p ticks: none if and only if they are the same,
\* otherwise one less from the tick after t.
LEMMA ClockDistance ==
  ASSUME NEW p \in Nat \ {0}, NEW n \in 0 .. p - 1, NEW t \in 0 .. p - 1
  PROVE  /\ (n - t) % p \in 0 .. p - 1
         /\ (n - t) % p = 0 <=> n = t
         /\ (t + 1) % p \in 0 .. p - 1
         /\ n # t => (n - ((t + 1) % p)) % p = ((n - t) % p) - 1
<1>1. ASSUME NEW u \in 0 .. p - 1
      PROVE  (n - u) % p = IF u <= n THEN n - u ELSE n - u + p
  <2>1. CASE u <= n
    <3>1. n - u \in 0 .. p - 1
      BY <2>1
    <3> QED  BY <2>1, <3>1, OwnRemainder
  <2>2. CASE ~(u <= n)
    <3>1. n - u + p \in 0 .. p - 1 /\ n - u \in Int
      BY <2>2
    <3>2. (n - u + p) % p = n - u + p
      BY <3>1, OwnRemainder
    <3>3. (n - u + p) % p = (n - u) % p
      BY <3>1, OneTurn
    <3> QED  BY <2>2, <3>2, <3>3
  <2> QED  BY <2>1, <2>2
<1>2. (t + 1) % p = IF t = p - 1 THEN 0 ELSE t + 1
  <2>1. CASE t = p - 1
    <3>1. (0 + p) % p = 0 % p
      BY OneTurn
    <3>2. 0 % p = 0
      BY OwnRemainder
    <3>3. t + 1 = 0 + p
      BY <2>1
    <3> QED  BY <2>1, <3>1, <3>2, <3>3
  <2>2. CASE t # p - 1
    <3>1. t + 1 \in 0 .. p - 1
      BY <2>2
    <3> QED  BY <2>2, <3>1, OwnRemainder
  <2> QED  BY <2>1, <2>2
<1>3. (t + 1) % p \in 0 .. p - 1
  BY <1>2
<1>4. /\ (n - t) % p = IF t <= n THEN n - t ELSE n - t + p
      /\ (n - ((t + 1) % p)) % p = IF (t + 1) % p <= n THEN n - ((t + 1) % p)
                                   ELSE n - ((t + 1) % p) + p
  BY <1>1, <1>3
<1> DEFINE d == (n - t) % p
           e == (n - ((t + 1) % p)) % p
           u == (t + 1) % p
<1>5. /\ d = IF t <= n THEN n - t ELSE n - t + p
      /\ e = IF u <= n THEN n - u ELSE n - u + p
      /\ u = IF t = p - 1 THEN 0 ELSE t + 1
  BY <1>2, <1>4
<1> HIDE DEF d, e, u
<1>6. d \in 0 .. p - 1 /\ (d = 0 <=> n = t) /\ (n # t => e = d - 1)
  BY <1>5
<1> QED  BY <1>3, <1>6 DEF d, e, u

\* A quotient is the only number with its remainder.
LEMMA OneQuotient ==
  ASSUME NEW p \in Nat \ {0}, NEW q \in Int, NEW r \in 0 .. p - 1
  PROVE  (p * q + r) \div p = q /\ (p * q + r) % p = r
<1> DEFINE a == p * q + r
<1>1. a \in Int /\ a = p * (a \div p) + (a % p) /\ a % p \in 0 .. p - 1 /\ a \div p \in Int
  BY Quotient
<1> DEFINE k == a \div p
           s == a % p
<1>2. p * q + r = p * k + s /\ k \in Int /\ s \in 0 .. p - 1
  BY <1>1
<1> HIDE DEF k, s
<1>3. r = s
  BY <1>2, OneRemainder
<1>4. p * q = p * k
  BY <1>2, <1>3
<1>5. CASE q < k
  <2>1. k - q >= 1 /\ k - q \in Nat
    BY <1>2, <1>5
  <2>2. p * (k - q) >= p
    BY <2>1
  <2>3. p * (k - q) = p * k - p * q
    BY <1>2
  <2> QED  BY <1>2, <1>4, <2>2, <2>3
<1>6. CASE k < q
  <2>1. q - k >= 1 /\ q - k \in Nat
    BY <1>2, <1>6
  <2>2. p * (q - k) >= p
    BY <2>1
  <2>3. p * (q - k) = p * q - p * k
    BY <1>2
  <2> QED  BY <1>2, <1>4, <2>2, <2>3
<1>7. q = k
  BY <1>2, <1>5, <1>6
<1> QED  BY <1>3, <1>7 DEF k, s

\* A remainder is no more than the number, and the same for numbers that differ by a
\* multiple.
LEMMA RemainderUpTo ==
  ASSUME NEW p \in Nat \ {0}, NEW x \in Nat, NEW k \in Int, NEW a \in Int, a = x + p * k
  PROVE  a % p \in 0 .. x
<1>1. a % p = x % p
  <2>1. x \in Int
    OBVIOUS
  <2>2. (x + p * k) % p = x % p
    BY <2>1, Periodicity
  <2> QED  BY <2>2
<1>2. x = p * (x \div p) + (x % p) /\ x % p \in 0 .. p - 1 /\ x \div p \in Int
  BY Quotient
<1> DEFINE q == x \div p
           r == x % p
<1>3. x = p * q + r /\ r \in 0 .. p - 1 /\ q \in Int
  BY <1>2
<1> HIDE DEF q, r
<1>4. q >= 0
  <2> SUFFICES ASSUME q <= -1 PROVE FALSE
    BY <1>3
  <2>1. p * q <= -p
    BY <1>3
  <2> QED  BY <1>3, <2>1
<1>5. p * q >= 0
  BY <1>3, <1>4
<1>6. r \in 0 .. x
  BY <1>3, <1>5
<1> QED  BY <1>1, <1>6 DEF r

\* The next number has the next remainder, below the modulus.
LEMMA RemainderStep ==
  ASSUME NEW p \in Nat \ {0}, NEW a \in Int, (a % p) + 1 < p
  PROVE  (a + 1) % p = (a % p) + 1
<1>1. a % p \in 0 .. p - 1
  BY Quotient
<1>2. (a % p) + 1 \in 0 .. p - 1
  BY <1>1
<1>3. ((a % p) + 1) % p = (a + 1) % p
  BY RemainderInSum, 1 \in Int
<1>4. ((a % p) + 1) % p = (a % p) + 1
  BY <1>2, OwnRemainder
<1> QED  BY <1>3, <1>4

\* The remainder of a difference depends on the remainders only.
LEMMA RemainderInDifference ==
  ASSUME NEW p \in Nat \ {0}, NEW a \in Int, NEW b \in Int
  PROVE  (b - (a % p)) % p = (b - a) % p
<1> DEFINE q == a \div p
           r == a % p
<1>1. a = p * q + r /\ r \in Int /\ q \in Int
  BY Quotient
<1> HIDE DEF q, r
<1>2. b - a \in Int /\ b - r = (b - a) + p * q
  BY <1>1
<1>3. ((b - a) + p * q) % p = (b - a) % p
  BY <1>1, <1>2, Periodicity
<1> QED  BY <1>2, <1>3 DEF r

-----------------------------------------------------------------------------
(* Recursion.                                                              *)

\* The function f begins with a and goes on as the functions g[1], g[2], ... say.
Follows(f, a, g, n) == f[0] = a /\ \A k \in 1 .. n : f[k] = g[k][f[k - 1]]

\* There is such a function: the one that a recursive definition over 0 .. n chooses.
LEMMA RecursionExists ==
  ASSUME NEW n \in Nat, NEW S, NEW a \in S, NEW g \in [1 .. n -> [S -> S]]
  PROVE  \E f \in [0 .. n -> S] : Follows(f, a, g, n)
<1> DEFINE Can(m) == \E f \in [0 .. m -> S] : Follows(f, a, g, m)
           bad == {m \in Nat : m <= n /\ ~ Can(m)}
<1> SUFFICES Can(n)
  OBVIOUS
<1>1. Can(0)
  <2> DEFINE f == [k \in 0 .. 0 |-> a]
  <2>1. f \in [0 .. 0 -> S] /\ Follows(f, a, g, 0)
    BY DEF Follows
  <2> QED  BY <2>1
<1>2. ASSUME NEW m \in 1 .. n, Can(m - 1) PROVE Can(m)
  <2>1. m - 1 \in Nat /\ m \in Nat /\ m # 0
    OBVIOUS
  <2>2. PICK f \in [0 .. m - 1 -> S] : Follows(f, a, g, m - 1)
    BY <1>2
  <2>3. f[m - 1] \in S /\ g[m] \in [S -> S]
    BY <2>1
  <2> DEFINE c == g[m][f[m - 1]]
             h == [k \in 0 .. m |-> IF k = m THEN c ELSE f[k]]
  <2>4. c \in S
    BY <2>3
  <2> HIDE DEF c
  <2>5. h \in [0 .. m -> S] /\ h[0] = a
    BY <2>1, <2>2, <2>4 DEF Follows
  <2>6. ASSUME NEW k \in 1 .. m PROVE h[k] = g[k][h[k - 1]]
    <3>1. CASE k = m
      <4>1. h[k] = c /\ h[m - 1] = f[m - 1]
        BY <2>1, <3>1
      <4> HIDE DEF h
      <4> QED  BY <3>1, <4>1 DEF c
    <3>2. CASE k # m
      <4>1. k \in 1 .. m - 1 /\ h[k] = f[k] /\ h[k - 1] = f[k - 1]
        BY <2>1, <3>2
      <4> HIDE DEF h
      <4> QED  BY <2>2, <4>1 DEF Follows
    <3> QED  BY <3>1, <3>2
  <2> HIDE DEF h
  <2>7. Follows(h, a, g, m)
    BY <2>5, <2>6 DEF Follows
  <2> QED  BY <2>5, <2>7
<1> HIDE DEF Can
<1>3. CASE bad = {}
  BY <1>3
<1>4. CASE bad # {}
  <2>1. PICK m \in bad : \A k \in bad : m <= k
    BY <1>4, LeastOne
  <2>2. m # 0
    BY <1>1, <2>1
  <2>3. m \in 1 .. n /\ m - 1 \notin bad /\ m - 1 \in Nat /\ m - 1 <= n
    BY <2>1, <2>2
  <2> QED  BY <1>2, <2>1, <2>3
<1> QED  BY <1>3, <1>4

-----------------------------------------------------------------------------
(* Linked lists, and the sequences that they stand for.                    *)

\* What comes after i elements of s, 0 for nothing.
ElementAfter(s, i) == IF i = Len(s) THEN 0 ELSE s[i + 1]

\* The list that begins at b and goes on along the links nx is s.
Chain(nx, b, s) ==
  b = ElementAfter(s, 0) /\ \A i \in 1 .. Len(s) : nx[s[i]] = ElementAfter(s, i)

\* The links lead through the sequence of the list.
LEMMA LinkedChain ==
  ASSUME NEW D, 0 \notin D, NEW nx \in [D -> D \cup {0}], NEW n \in Nat,
         NEW s \in Seq(D), Len(s) <= n, NEW b, Chain(nx, b, s)
  PROVE  Linked(nx, n)[b] = s
<1> DEFINE E == D \cup {0}
           S == [E -> Seq(D)]
           a == [t \in E |-> <<>>]
           step(f) == [t \in E |-> IF t = 0 THEN <<>> ELSE <<t>> \o f[nx[t]]]
           g == [k \in 1 .. n |-> [f \in S |-> step(f)]]
<1>1. DOMAIN nx = D /\ DOMAIN nx \cup {0} = E
  OBVIOUS
<1>2. a \in S
  <2>1. <<>> \in Seq(D)
    OBVIOUS
  <2> QED  BY <2>1
<1>3. ASSUME NEW f \in S PROVE step(f) \in S
  <2>1. ASSUME NEW t \in E, t # 0 PROVE <<t>> \o f[nx[t]] \in Seq(D)
    <3>1. t \in D /\ nx[t] \in E
      BY <2>1
    <3>2. <<t>> \in Seq(D) /\ f[nx[t]] \in Seq(D)
      BY <3>1
    <3> QED  BY <3>2
  <2>2. <<>> \in Seq(D)
    OBVIOUS
  <2> QED  BY <2>1, <2>2
<1>4. g \in [1 .. n -> [S -> S]] /\ \A k \in 1 .. n, f \in S : g[k][f] = step(f)
  BY <1>3
<1> HIDE DEF g, S
<1>5. PICK h \in [0 .. n -> S] : Follows(h, a, g, n)
  BY <1>2, <1>4, RecursionExists
<1> DEFINE Solves(e) == e = [k \in 0 .. n |->
             [t \in DOMAIN nx \cup {0} |->
                IF k = 0 \/ t = 0 THEN <<>> ELSE <<t>> \o e[k - 1][nx[t]]]]
           from == CHOOSE e : Solves(e)
<1>6. Solves(h)
  <2>1. ASSUME NEW k \in 0 .. n
        PROVE  h[k] = [t \in E |-> IF k = 0 \/ t = 0 THEN <<>> ELSE <<t>> \o h[k - 1][nx[t]]]
    <3>1. CASE k = 0
      BY <1>5, <3>1 DEF Follows
    <3>2. CASE k # 0
      <4>1. k \in 1 .. n /\ k - 1 \in 0 .. n
        BY <3>2
      <4>2. h[k] = g[k][h[k - 1]] /\ h[k - 1] \in S
        BY <1>5, <4>1 DEF Follows
      <4>3. h[k] = step(h[k - 1])
        BY <1>4, <4>1, <4>2
      <4> QED  BY <3>2, <4>3
    <3> QED  BY <3>1, <3>2
  <2> QED  BY <1>1, <1>5, <2>1
<1>7. Solves(from)
  BY <1>6
<1>8. Linked(nx, n) = from[n]
  BY DEF Linked
<1> HIDE DEF from
<1>9. \A k \in 0 .. n, t \in E :
        from[k][t] = IF k = 0 \/ t = 0 THEN <<>> ELSE <<t>> \o from[k - 1][nx[t]]
  <2>1. from = [k \in 0 .. n |->
             [t \in E |-> IF k = 0 \/ t = 0 THEN <<>> ELSE <<t>> \o from[k - 1][nx[t]]]]
    BY <1>1, <1>7
  <2> SUFFICES ASSUME NEW k \in 0 .. n, NEW t \in E
               PROVE  from[k][t] = IF k = 0 \/ t = 0 THEN <<>> ELSE <<t>> \o from[k - 1][nx[t]]
    OBVIOUS
  <2>2. from[k] = [u \in E |-> IF k = 0 \/ u = 0 THEN <<>> ELSE <<u>> \o from[k - 1][nx[u]]]
    BY <2>1
  <2> HIDE DEF Solves, E
  <2> QED  BY <2>2
<1> HIDE DEF Solves
<1> DEFINE L == Len(s)
           Good(k) == \A j \in 0 .. L : L - j <= k => from[k][ElementAfter(s, j)] = SubSeq(s, j + 1, L)
           bad == {k \in 0 .. n : ~ Good(k)}
<1>10. L \in Nat /\ \A i \in 1 .. L : s[i] \in D /\ s[i] # 0
  OBVIOUS
<1>11. 0 \in 0 .. n /\ \A k \in 0 .. n : from[k][0] = <<>>
  <2>1. 0 \in E /\ 0 \in 0 .. n
    OBVIOUS
  <2> HIDE DEF E
  <2> QED  BY <1>9, <2>1
<1>12. ElementAfter(s, L) = 0 /\ SubSeq(s, L + 1, L) = <<>>
  BY <1>10 DEF ElementAfter
<1>13. Good(0)
  <2> SUFFICES ASSUME NEW j \in 0 .. L, L - j <= 0 PROVE from[0][ElementAfter(s, j)] = SubSeq(s, j + 1, L)
    OBVIOUS
  <2>1. j = L
    BY <1>10
  <2>2. ElementAfter(s, j) = 0 /\ SubSeq(s, j + 1, L) = <<>>
    BY <1>12, <2>1
  <2> QED  BY <1>11, <2>2
<1>14. ASSUME NEW k \in 1 .. n, Good(k - 1) PROVE Good(k)
  <2> SUFFICES ASSUME NEW j \in 0 .. L, L - j <= k PROVE from[k][ElementAfter(s, j)] = SubSeq(s, j + 1, L)
    OBVIOUS
  <2>1. CASE j = L
    <3>1. ElementAfter(s, j) = 0 /\ SubSeq(s, j + 1, L) = <<>>
      BY <1>12, <2>1
    <3>2. k \in 0 .. n
      OBVIOUS
    <3> QED  BY <1>11, <3>1, <3>2
  <2>2. CASE j # L
    <3>1. j + 1 \in 1 .. L /\ L - (j + 1) <= k - 1 /\ j + 1 \in 0 .. L /\ ElementAfter(s, j) = s[j + 1]
      BY <1>10, <2>2 DEF ElementAfter
    <3>2. from[k - 1][ElementAfter(s, j + 1)] = SubSeq(s, (j + 1) + 1, L)
      BY <1>14, <3>1
    <3>3. nx[s[j + 1]] = ElementAfter(s, j + 1)
      BY <3>1 DEF Chain
    <3>4. from[k][s[j + 1]] = <<s[j + 1]>> \o from[k - 1][nx[s[j + 1]]]
      <4>1. k \in 0 .. n /\ k # 0 /\ s[j + 1] \in E /\ s[j + 1] # 0
        BY <1>10, <3>1
      <4> HIDE DEF E
      <4> QED  BY <1>9, <4>1
    <3>5. <<s[j + 1]>> \o SubSeq(s, (j + 1) + 1, L) = SubSeq(s, j + 1, L)
      BY <1>10, <3>1
    <3> HIDE DEF L
    <3> QED  BY <3>1, <3>2, <3>3, <3>4, <3>5
  <2> QED  BY <2>1, <2>2
<1> HIDE DEF Good
<1>15. bad = {}
  <2> SUFFICES ASSUME bad # {} PROVE FALSE
    OBVIOUS
  <2>1. PICK m \in bad : \A k \in bad : m <= k
    <3>1. bad \in SUBSET Nat
      OBVIOUS
    <3> QED  BY <3>1, LeastOne
  <2>2. m # 0 /\ m \in 1 .. n /\ m - 1 \in 0 .. n /\ m - 1 \notin bad
    BY <1>13, <2>1
  <2> QED  BY <1>14, <2>1, <2>2
<1>16. Good(n)
  BY <1>15
<1>17. from[n][ElementAfter(s, 0)] = SubSeq(s, 0 + 1, L)
  <2>1. 0 \in 0 .. L /\ L - 0 <= n
    BY <1>10
  <2> QED  BY <1>16, <2>1 DEF Good
<1>18. SubSeq(s, 0 + 1, L) = s
  OBVIOUS
<1> HIDE DEF L
<1> QED  BY <1>8, <1>17, <1>18 DEF Chain

\* p is q with x put before position i.
Inserted(p, q, i, x) ==
  /\ Len(p) = Len(q) + 1
  /\ \A j \in 1 .. Len(q) + 1 :
       p[j] = IF j < i THEN q[j] ELSE IF j = i THEN x ELSE q[j - 1]

LEMMA InsertedAt ==
  ASSUME NEW T, NEW q \in Seq(T), NEW x \in T
  PROVE  /\ \A i \in 1 .. Len(q) + 1 :
              InsertAt(q, i, x) \in Seq(T) /\ Inserted(InsertAt(q, i, x), q, i, x)
         /\ Append(q, x) \in Seq(T) /\ Inserted(Append(q, x), q, Len(q) + 1, x)
         /\ Cons(x, q) \in Seq(T) /\ Inserted(Cons(x, q), q, 1, x)
<1>1. Append(q, x) \in Seq(T) /\ Inserted(Append(q, x), q, Len(q) + 1, x)
  BY DEF Inserted
<1>2. Cons(x, q) \in Seq(T) /\ Inserted(Cons(x, q), q, 1, x)
  BY DEF Inserted, Cons
<1>3. ASSUME NEW i \in 1 .. Len(q) + 1
      PROVE  InsertAt(q, i, x) \in Seq(T) /\ Inserted(InsertAt(q, i, x), q, i, x)
  <2>1. CASE i = Len(q) + 1
    <3>1. SubSeq(q, 1, i - 1) = q /\ SubSeq(q, i, Len(q)) = <<>>
      BY <2>1
    <3>2. InsertAt(q, i, x) = (q \o <<x>>) \o <<>>
      BY <3>1 DEF InsertAt
    <3>3. q \o <<x>> = Append(q, x) /\ Append(q, x) \in Seq(T)
      OBVIOUS
    <3>4. Append(q, x) \o <<>> = Append(q, x)
      BY <3>3
    <3> QED  BY <1>1, <2>1, <3>2, <3>3, <3>4
  <2>2. CASE i # Len(q) + 1
    <3>1. i \in 1 .. Len(q)
      BY <2>2
    <3> QED  BY <3>1, InsertIndex DEF Inserted
  <2> QED  BY <2>1, <2>2
<1> QED  BY <1>1, <1>2, <1>3

LEMMA InsertedHolds ==
  ASSUME NEW T, NEW q \in Seq(T), NEW p \in Seq(T), NEW x \in T,
         NEW i \in 1 .. Len(q) + 1, Inserted(p, q, i, x), IsInjective(q), x \notin Range(q)
  PROVE  IsInjective(p) /\ Range(p) = Range(q) \cup {x}
<1>1. /\ Len(q) \in Nat /\ DOMAIN q = 1 .. Len(q) /\ DOMAIN p = 1 .. Len(q) + 1
      /\ i \in Nat
  BY DEF Inserted
<1>2. \A j \in 1 .. Len(q) + 1 : p[j] = IF j < i THEN q[j] ELSE IF j = i THEN x ELSE q[j - 1]
  BY DEF Inserted
<1>3. \A j \in 1 .. Len(q) : q[j] \in Range(q) /\ q[j] # x
  BY <1>1 DEF Range
<1>4. \A j, k \in 1 .. Len(q) : q[j] = q[k] => j = k
  BY <1>1 DEF IsInjective
<1>5. \A j, k \in 1 .. Len(q) + 1 : p[j] = p[k] => j = k
  <2> SUFFICES ASSUME NEW j \in 1 .. Len(q) + 1, NEW k \in 1 .. Len(q) + 1, p[j] = p[k]
               PROVE  j = k
    OBVIOUS
  <2> DEFINE old(m) == IF m < i THEN m ELSE m - 1
  <2>1. ASSUME NEW m \in 1 .. Len(q) + 1, m # i
        PROVE  old(m) \in 1 .. Len(q) /\ p[m] = q[old(m)]
    BY <1>1, <1>2, <2>1
  <2>2. p[i] = x
    BY <1>2
  <2>3. CASE j = i
    BY <1>3, <2>1, <2>2, <2>3
  <2>4. CASE k = i
    BY <1>3, <2>1, <2>2, <2>4
  <2>5. CASE j # i /\ k # i
    <3>1. old(j) = old(k)
      BY <1>4, <2>1, <2>5
    <3> QED  BY <1>1, <2>5, <3>1
  <2> QED  BY <2>3, <2>4, <2>5
<1>6. IsInjective(p)
  BY <1>1, <1>5 DEF IsInjective
<1>7. \A y \in Range(p) : y \in Range(q) \cup {x}
  <2> SUFFICES ASSUME NEW j \in 1 .. Len(q) + 1 PROVE p[j] \in Range(q) \cup {x}
    BY <1>1 DEF Range
  <2> QED  BY <1>1, <1>2, <1>3
<1>8. x \in Range(p)
  BY <1>1, <1>2 DEF Range
<1>9. ASSUME NEW j \in 1 .. Len(q) PROVE q[j] \in Range(p)
  <2>1. CASE j < i
    BY <1>1, <1>2, <2>1 DEF Range
  <2>2. CASE ~(j < i)
    <3>1. j + 1 \in 1 .. Len(q) + 1 /\ p[j + 1] = q[j]
      BY <1>1, <1>2, <2>2
    <3> QED  BY <1>1, <3>1 DEF Range
  <2> QED  BY <2>1, <2>2
<1>10. \A y \in Range(q) : y \in Range(p)
  BY <1>1, <1>9 DEF Range
<1> QED  BY <1>6, <1>7, <1>8, <1>10

\* A node that is linked in.
LEMMA ChainInserted ==
  ASSUME NEW D, 0 \notin D, NEW q \in Seq(D), NEW p \in Seq(D), NEW x \in D,
         NEW i \in 1 .. Len(q) + 1, Inserted(p, q, i, x),
         NEW nx, NEW ny, NEW b, Chain(nx, b, q),
         ny[x] = ElementAfter(q, i - 1), i > 1 => ny[q[i - 1]] = x,
         \A j \in 1 .. Len(q) : j # i - 1 => ny[q[j]] = nx[q[j]]
  PROVE  Chain(ny, IF i = 1 THEN x ELSE b, p)
<1>1. Len(q) \in Nat /\ Len(p) = Len(q) + 1 /\ i \in Nat
  BY DEF Inserted
<1>2. \A j \in 1 .. Len(q) + 1 : p[j] = IF j < i THEN q[j] ELSE IF j = i THEN x ELSE q[j - 1]
  BY DEF Inserted
<1>3. (IF i = 1 THEN x ELSE b) = ElementAfter(p, 0)
  <2>1. ElementAfter(p, 0) = p[1]
    BY <1>1 DEF ElementAfter
  <2>2. CASE i = 1
    BY <1>1, <1>2, <2>1, <2>2
  <2>3. CASE i # 1
    <3>1. b = q[1]
      BY <1>1, <2>3 DEF Chain, ElementAfter
    <3> QED  BY <1>1, <1>2, <2>1, <2>3, <3>1
  <2> QED  BY <2>2, <2>3
<1>4. ASSUME NEW j \in 1 .. Len(q) + 1 PROVE ny[p[j]] = ElementAfter(p, j)
  <2>0. \A k \in 1 .. Len(q) : nx[q[k]] = ElementAfter(q, k)
    BY DEF Chain
  <2>1. CASE j < i - 1
    <3>1. /\ j \in 1 .. Len(q) /\ j # i - 1 /\ p[j] = q[j] /\ p[j + 1] = q[j + 1]
          /\ j # Len(q) /\ j # Len(p)
      BY <1>1, <1>2, <2>1
    <3> QED  BY <2>0, <3>1 DEF ElementAfter
  <2>2. CASE j = i - 1
    <3>1. j \in 1 .. Len(q) /\ p[j] = q[j] /\ p[j + 1] = x /\ j # Len(p) /\ i > 1
      BY <1>1, <1>2, <2>2
    <3> QED  BY <2>2, <3>1 DEF ElementAfter
  <2>3. CASE j = i
    <3>1. p[j] = x
      BY <1>2, <2>3
    <3>2. CASE i = Len(q) + 1
      BY <1>1, <2>3, <3>1, <3>2 DEF ElementAfter
    <3>3. CASE i # Len(q) + 1
      <4>1. i + 1 \in 1 .. Len(q) + 1 /\ p[i + 1] = q[i] /\ (i - 1) + 1 = i /\ i - 1 # Len(q)
            /\ i # Len(p)
        BY <1>1, <1>2, <3>3
      <4> QED  BY <2>3, <3>1, <4>1 DEF ElementAfter
    <3> QED  BY <3>2, <3>3
  <2>4. CASE j > i
    <3>1. j - 1 \in 1 .. Len(q) /\ j - 1 # i - 1 /\ p[j] = q[j - 1] /\ (j - 1) + 1 = j
      BY <1>1, <1>2, <2>4
    <3>2. ny[p[j]] = ElementAfter(q, j - 1)
      BY <2>0, <3>1
    <3>3. CASE j = Len(q) + 1
      BY <1>1, <3>2, <3>3 DEF ElementAfter
    <3>4. CASE j # Len(q) + 1
      <4>1. j + 1 \in 1 .. Len(q) + 1 /\ p[j + 1] = q[j] /\ j # Len(p) /\ j - 1 # Len(q)
        <5>1. j + 1 \in 1 .. Len(q) + 1 /\ (j + 1) - 1 = j /\ ~(j + 1 < i) /\ j + 1 # i
              /\ j # Len(p) /\ j - 1 # Len(q)
          BY <1>1, <2>4, <3>4
        <5> QED  BY <1>2, <5>1
      <4> QED  BY <3>1, <3>2, <4>1 DEF ElementAfter
    <3> QED  BY <3>3, <3>4
  <2> QED  BY <1>1, <2>1, <2>2, <2>3, <2>4
<1> QED  BY <1>1, <1>3, <1>4 DEF Chain

\* The first node that is taken out.
LEMMA ChainTail ==
  ASSUME NEW D, NEW q \in Seq(D), q # <<>>, NEW nx, NEW ny, NEW b, Chain(nx, b, q),
         \A j \in 2 .. Len(q) : ny[q[j]] = nx[q[j]]
  PROVE  Chain(ny, nx[b], Tail(q))
<1>1. /\ Len(q) \in Nat /\ Len(q) >= 1 /\ Len(Tail(q)) = Len(q) - 1
      /\ \A i \in 1 .. Len(q) - 1 : Tail(q)[i] = q[i + 1]
  BY SeqEnds
<1>2. b = q[1] /\ nx[b] = ElementAfter(q, 1)
  <2>1. ElementAfter(q, 0) = q[1] /\ 1 \in 1 .. Len(q)
    BY <1>1 DEF ElementAfter
  <2> QED  BY <2>1 DEF Chain
<1>3. \A j \in 1 .. Len(q) : nx[q[j]] = ElementAfter(q, j)
  BY DEF Chain
<1>4. nx[b] = ElementAfter(Tail(q), 0)
  BY <1>1, <1>2 DEF ElementAfter
<1>5. ASSUME NEW j \in 1 .. Len(q) - 1 PROVE ny[Tail(q)[j]] = ElementAfter(Tail(q), j)
  <2>1. Tail(q)[j] = q[j + 1] /\ j + 1 \in 2 .. Len(q) /\ j + 1 \in 1 .. Len(q)
    BY <1>1
  <2>2. ny[Tail(q)[j]] = ElementAfter(q, j + 1)
    BY <1>3, <2>1
  <2>3. ElementAfter(Tail(q), j) = ElementAfter(q, j + 1)
    <3>1. CASE j = Len(q) - 1
      BY <1>1, <3>1 DEF ElementAfter
    <3>2. CASE j # Len(q) - 1
      <4>1. j + 1 \in 1 .. Len(q) - 1 /\ j + 1 # Len(q) /\ j # Len(Tail(q))
        <5>1. Len(q) \in Nat /\ Len(Tail(q)) = Len(q) - 1 /\ j \in 1 .. Len(q) - 1
          BY <1>1
        <5>2. \A m \in Nat : \A k \in 1 .. m - 1 : k # m - 1 => k + 1 \in 1 .. m - 1 /\ k + 1 # m
          OBVIOUS
        <5>3. j + 1 \in 1 .. Len(q) - 1 /\ j + 1 # Len(q)
          BY <3>2, <5>1, <5>2
        <5> QED  BY <3>2, <5>1, <5>3
      <4> QED  BY <1>1, <4>1 DEF ElementAfter
    <3> QED  BY <3>1, <3>2
  <2> QED  BY <2>2, <2>3
<1> QED  BY <1>1, <1>4, <1>5 DEF Chain

\* A list whose links stay.
LEMMA ChainSame ==
  ASSUME NEW q, NEW nx, NEW ny, NEW b, Chain(nx, b, q),
         \A j \in 1 .. Len(q) : ny[q[j]] = nx[q[j]]
  PROVE  Chain(ny, b, q)
BY DEF Chain

\* Lists in which each node is once at most, the rest of the nodes being outside.
Apart(list, outside) ==
  /\ \A q \in DOMAIN list : IsInjective(list[q]) /\ Range(list[q]) \cap outside = {}
  /\ \A q, r \in DOMAIN list : q # r => Range(list[q]) \cap Range(list[r]) = {}

LEMMA ApartPut ==
  ASSUME NEW Q, NEW D, NEW list \in [Q -> Seq(D)], NEW outside, Apart(list, outside),
         NEW q \in Q, NEW x \in outside, NEW s \in Seq(D),
         IsInjective(s), Range(s) = Range(list[q]) \cup {x}
  PROVE  Apart([list EXCEPT ![q] = s], outside \ {x})
<1> DEFINE after == [list EXCEPT ![q] = s]
<1>1. DOMAIN after = Q /\ after[q] = s /\ \A r \in Q : r # q => after[r] = list[r]
  OBVIOUS
<1>2. DOMAIN list = Q
  OBVIOUS
<1> HIDE DEF after
<1>3. \A r \in Q : IsInjective(after[r]) /\ Range(after[r]) \cap (outside \ {x}) = {}
  <2> SUFFICES ASSUME NEW r \in Q
               PROVE  IsInjective(after[r]) /\ Range(after[r]) \cap (outside \ {x}) = {}
    OBVIOUS
  <2>1. /\ IsInjective(list[r]) /\ Range(list[r]) \cap outside = {}
        /\ Range(list[q]) \cap outside = {}
    BY <1>2 DEF Apart
  <2>2. CASE r = q
    BY <1>1, <2>1, <2>2
  <2>3. CASE r # q
    BY <1>1, <2>1, <2>3
  <2> QED  BY <2>2, <2>3
<1>4. ASSUME NEW r \in Q, NEW u \in Q, r # u PROVE Range(after[r]) \cap Range(after[u]) = {}
  <2>1. Range(list[r]) \cap Range(list[u]) = {} /\ x \notin Range(list[r]) /\ x \notin Range(list[u])
    BY <1>2, <1>4 DEF Apart
  <2>2. CASE r = q
    <3>1. after[u] = list[u] /\ Range(after[r]) = Range(list[r]) \cup {x}
      BY <1>1, <1>4, <2>2
    <3> QED  BY <2>1, <3>1
  <2>3. CASE u = q
    <3>1. after[r] = list[r] /\ Range(after[u]) = Range(list[u]) \cup {x}
      BY <1>1, <1>4, <2>3
    <3> QED  BY <2>1, <3>1
  <2>4. CASE r # q /\ u # q
    BY <1>1, <2>1, <2>4
  <2> QED  BY <2>2, <2>3, <2>4
<1> QED  BY <1>1, <1>3, <1>4 DEF Apart, after

LEMMA ApartTake ==
  ASSUME NEW Q, NEW D, NEW list \in [Q -> Seq(D)], NEW outside, Apart(list, outside),
         NEW q \in Q, list[q] # <<>>
  PROVE  /\ Head(list[q]) \notin outside /\ Head(list[q]) \in D
         /\ Tail(list[q]) \in Seq(D)
         /\ Apart([list EXCEPT ![q] = Tail(list[q])], outside \cup {Head(list[q])})
<1> DEFINE s == Tail(list[q])
           x == Head(list[q])
           after == [list EXCEPT ![q] = s]
<1>1. DOMAIN after = Q /\ after[q] = s /\ \A r \in Q : r # q => after[r] = list[r]
  OBVIOUS
<1>2. DOMAIN list = Q /\ list[q] \in Seq(D)
  OBVIOUS
<1>3. Holds(list[q], Range(list[q]))
  BY <1>2 DEF Holds, Apart
<1>4. /\ x \in D /\ x \in Range(list[q]) /\ s \in Seq(D)
      /\ IsInjective(s) /\ Range(s) = Range(list[q]) \ {x}
  BY <1>2, <1>3, TailHolds DEF Holds
<1> HIDE DEF after, s, x
<1>5. x \notin outside /\ \A r \in Q : r # q => x \notin Range(list[r])
  BY <1>2, <1>4 DEF Apart
<1>6. \A r \in Q : IsInjective(after[r]) /\ Range(after[r]) \cap (outside \cup {x}) = {}
  BY <1>1, <1>2, <1>4, <1>5 DEF Apart
<1>7. \A r, u \in Q : r # u => Range(after[r]) \cap Range(after[u]) = {}
  BY <1>1, <1>2, <1>4 DEF Apart
<1>8. Apart(after, outside \cup {x})
  BY <1>1, <1>6, <1>7 DEF Apart
<1> QED  BY <1>4, <1>5, <1>8 DEF after, s, x

\* A list is no longer than there are nodes.
LEMMA ListFits ==
  ASSUME NEW n \in Nat, NEW s \in Seq(1 .. n), IsInjective(s)
  PROVE  Len(s) <= n
<1>1. Len(s) \in Nat /\ DOMAIN s = 1 .. Len(s) /\ s \in [1 .. Len(s) -> 1 .. n]
  OBVIOUS
<1>2. \A j, k \in 1 .. Len(s) : s[j] = s[k] => j = k
  BY <1>1 DEF IsInjective
<1>3. s \in Injection(1 .. Len(s), 1 .. n)
  BY <1>1, <1>2 DEF Injection, IsInjective
<1>4. /\ IsFiniteSet(1 .. n) /\ Cardinality(1 .. n) = n
      /\ IsFiniteSet(1 .. Len(s)) /\ Cardinality(1 .. Len(s)) = Len(s)
  <2>1. \A m \in Nat : IsFiniteSet(1 .. m) /\ Cardinality(1 .. m) = m
    <3> SUFFICES ASSUME NEW m \in Nat PROVE IsFiniteSet(1 .. m) /\ Cardinality(1 .. m) = m
      OBVIOUS
    <3>1. \A a, b \in Int : IsFiniteSet(a .. b) /\ Cardinality(a .. b) = IF a > b THEN 0 ELSE b - a + 1
      BY FS_Interval
    <3> QED  BY <3>1
  <2> QED  BY <1>1, <2>1
<1>5. Cardinality(1 .. Len(s)) <= Cardinality(1 .. n)
  BY <1>3, <1>4, FS_Injection
<1> QED  BY <1>4, <1>5

=============================================================================
