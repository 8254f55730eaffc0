--------------------------- MODULE TaskSequences ----------------------------
(***************************************************************************)
(* Operators on the sequences that stand for the kernels' queues.          *)
(***************************************************************************)
EXTENDS Integers, FiniteSets, SequencesExt

\* The queue q holds exactly the elements of S, each once.
Holds(q, S) == IsInjective(q) /\ Range(q) = S

\* The element a is ahead of b in q.
Before(q, a, b) ==
  \E i, j \in DOMAIN q : i < j /\ q[i] = a /\ q[j] = b

\* The elements of q at the positions P, in their order.
Subsequence(q, P) ==
  [k \in 1 .. Cardinality(P) |->
     q[CHOOSE i \in P : Cardinality({j \in P : j <= i}) = k]]

\* The sequence that a linked list stands for, as a function of where it begins: the
\* nodes met along the links nx, n at most, until there is none (0).
Linked(nx, n) ==
  LET from[k \in 0 .. n] ==
        [t \in DOMAIN nx \cup {0} |->
           IF k = 0 \/ t = 0 THEN <<>> ELSE <<t>> \o from[k - 1][nx[t]]]
  IN  from[n]

=============================================================================
