--------------------------- MODULE MachinesProofs ---------------------------
(***************************************************************************)
(* The safety of the small machines that Machines puts side by side, for   *)
(* every number of tasks and of blocks, every length of a tick and width   *)
(* of a word, and every time table.                                        *)
(***************************************************************************)
EXTENDS Machines, KernelLemmas

-----------------------------------------------------------------------------
(* A behaviour of Machines is one of each machine, which may rest.         *)

LEMMA QueueSpec == MachinesSpec => Queue!Spec
<1>1. MachinesInit => Queue!Init
  BY DEF MachinesInit
<1>2. ASSUME [MachinesNext]_machine_vars
      PROVE  [Queue!Next]_(Queue!vars)
  <2>1. CASE machine = "queue" /\ MachinesNext
    BY <2>1 DEF MachinesNext
  <2>2. CASE UNCHANGED queue_vars
    BY <2>2 DEF queue_vars, Queue!vars
  <2> QED
    BY <1>2, <2>1, <2>2 DEF MachinesNext, machine_vars
<1> QED  BY <1>1, <1>2, PTL DEF MachinesSpec, Queue!Spec

LEMMA RobotQueueSpec == MachinesSpec => RobotQueue!Spec
<1>1. MachinesInit => RobotQueue!Init
  BY DEF MachinesInit
<1>2. ASSUME [MachinesNext]_machine_vars
      PROVE  [RobotQueue!Next]_(RobotQueue!vars)
  <2>1. CASE machine = "robot queue" /\ MachinesNext
    BY <2>1 DEF MachinesNext
  <2>2. CASE UNCHANGED list_vars
    BY <2>2 DEF list_vars, RobotQueue!vars
  <2> QED
    BY <1>2, <2>1, <2>2 DEF MachinesNext, machine_vars
<1> QED  BY <1>1, <1>2, PTL DEF MachinesSpec, RobotQueue!Spec

LEMMA ReleasesSpec == MachinesSpec => Releases!Spec
<1>1. MachinesInit => Releases!Init
  BY DEF MachinesInit
<1>2. ASSUME [MachinesNext]_machine_vars
      PROVE  [Releases!Next]_(Releases!vars)
  <2>1. CASE machine = "releases" /\ MachinesNext
    BY <2>1 DEF MachinesNext
  <2>2. CASE UNCHANGED block_vars
    BY <2>2 DEF block_vars, Releases!vars
  <2> QED
    BY <1>2, <2>1, <2>2 DEF MachinesNext, machine_vars
<1> QED  BY <1>1, <1>2, PTL DEF MachinesSpec, Releases!Spec

LEMMA ClockSpec == MachinesSpec => Clock!Spec
<1>1. MachinesInit => Clock!Init
  BY DEF MachinesInit
<1>2. ASSUME [MachinesNext]_machine_vars
      PROVE  [Clock!Next]_(Clock!vars)
  <2>1. CASE machine = "clock" /\ MachinesNext
    BY <2>1 DEF MachinesNext
  <2>2. CASE UNCHANGED clock_vars
    BY <2>2 DEF clock_vars, Clock!vars
  <2> QED
    BY <1>2, <2>1, <2>2 DEF MachinesNext, machine_vars
<1> QED  BY <1>1, <1>2, PTL DEF MachinesSpec, Clock!Spec

LEMMA RobotClockSpec == MachinesSpec => RobotClock!Spec
<1>1. MachinesInit => RobotClock!Init
  BY DEF MachinesInit
<1>2. ASSUME [MachinesNext]_machine_vars
      PROVE  [RobotClock!Next]_(RobotClock!vars)
  <2>1. CASE machine = "robot clock" /\ MachinesNext
    BY <2>1 DEF MachinesNext
  <2>2. CASE UNCHANGED robot_vars
    BY <2>2 DEF robot_vars, RobotClock!vars, RobotClock!clock
  <2> QED
    BY <1>2, <2>1, <2>2 DEF MachinesNext, machine_vars
<1> QED  BY <1>1, <1>2, PTL DEF MachinesSpec, RobotClock!Spec

LEMMA PppSpec == MachinesSpec => Ppp!Spec
<1>1. MachinesInit => Ppp!Init
  BY DEF MachinesInit
<1>2. ASSUME [MachinesNext]_machine_vars
      PROVE  [Ppp!Next]_(Ppp!vars)
  <2>1. CASE machine = "ppp" /\ MachinesNext
    BY <2>1 DEF MachinesNext
  <2>2. CASE UNCHANGED ppp_vars
    BY <2>2 DEF ppp_vars, Ppp!vars, Ppp!tasks, Ppp!queues, Ppp!slots
  <2> QED
    BY <1>2, <2>1, <2>2 DEF MachinesNext, machine_vars
<1> QED  BY <1>1, <1>2, PTL DEF MachinesSpec, Ppp!Spec

LEMMA ActiveSpec == MachinesSpec => Active!Spec
<1>1. MachinesInit => Active!Init
  BY DEF MachinesInit
<1>2. ASSUME [MachinesNext]_machine_vars
      PROVE  [Active!Next]_(Active!vars)
  <2>1. CASE machine = "active" /\ MachinesNext
    BY <2>1 DEF MachinesNext
  <2>2. CASE UNCHANGED active_vars
    BY <2>2 DEF active_vars, Active!vars
  <2> QED
    BY <1>2, <2>1, <2>2 DEF MachinesNext, machine_vars
<1> QED  BY <1>1, <1>2, PTL DEF MachinesSpec, Active!Spec

-----------------------------------------------------------------------------
(* The task queues of Project 2 (TaskQueue).                               *)

\* The lists stand for the sequences of list, a descriptor is in one of them at most,
\* once, and the tail of a list that is not empty is its last descriptor.
QueueLists(list) ==
  /\ Apart(list, outside)
  /\ \A q \in Queues :
       /\ Chain(next, head[q], list[q])
       /\ list[q] # <<>> => tail[q] = list[q][Len(list[q])]
       /\ size[q] = Len(list[q])

QueueTypeInv ==
  /\ head \in [Queues -> Queue!Tasks \cup {Queue!NULL}]
  /\ tail \in [Queues -> Queue!Tasks \cup {Queue!NULL}]
  /\ size \in [Queues -> Int] /\ next \in [Queue!Tasks -> Queue!Tasks \cup {Queue!NULL}]
  /\ outside \in SUBSET Queue!Tasks

QueueIInv == QueueTypeInv /\ \E list \in [Queues -> Seq(Queue!Tasks)] : QueueLists(list)

LEMMA QueueConstants ==
  ASSUME Queue!QueueAssumption
  PROVE  /\ MAXPROCESS \in Nat \ {0} /\ "dead_pool_queue" \in Queues
         /\ Queue!Tasks = 1 .. MAXPROCESS /\ Queue!NULL = 0 /\ 0 \notin Queue!Tasks
BY DEF Queue!QueueAssumption, Queue!Tasks, Queue!NULL

\* The sequence of a list is what its links lead through.
LEMMA QueueListIs ==
  ASSUME Queue!QueueAssumption,
         NEW nx \in [Queue!Tasks -> Queue!Tasks \cup {Queue!NULL}], NEW b,
         NEW s \in Seq(Queue!Tasks),
         IsInjective(s), Chain(nx, b, s)
  PROVE  Queue!Linked(nx, MAXPROCESS + 1)[b] = s
<1>0. \A links, m : Queue!Linked(links, m) = Linked(links, m)
  BY DEF Queue!Linked, Linked
<1>1. MAXPROCESS \in Nat /\ MAXPROCESS + 1 \in Nat /\ Queue!Tasks = 1 .. MAXPROCESS
      /\ Queue!NULL = 0 /\ 0 \notin Queue!Tasks
  BY QueueConstants
<1>2. Len(s) <= MAXPROCESS /\ Len(s) \in Nat
  BY <1>1, ListFits
<1>3. Len(s) <= MAXPROCESS + 1
  BY <1>1, <1>2
<1> QED  BY <1>0, <1>1, <1>3, LinkedChain

LEMMA QueueListsAre ==
  ASSUME Queue!QueueAssumption, QueueTypeInv, NEW list \in [Queues -> Seq(Queue!Tasks)],
         QueueLists(list)
  PROVE  [q \in Queues |-> Queue!List(q)] = list
<1>1. ASSUME NEW q \in Queues PROVE Queue!List(q) = list[q]
  <2>1. next \in [Queue!Tasks -> Queue!Tasks \cup {Queue!NULL}] /\ IsInjective(list[q])
        /\ Chain(next, head[q], list[q])
    BY DEF QueueTypeInv, QueueLists, Apart
  <2> QED  BY <2>1, QueueListIs DEF Queue!List
<1> QED  BY <1>1

LEMMA QueueListsInit ==
  ASSUME Queue!QueueAssumption, Queue!Init
  PROVE  QueueTypeInv /\ QueueLists([q \in Queues |->
           IF q = "dead_pool_queue" THEN [i \in 1 .. MAXPROCESS |-> i] ELSE <<>>])
<1> DEFINE boot == [i \in 1 .. MAXPROCESS |-> i]
           list == [q \in Queues |-> IF q = "dead_pool_queue" THEN boot ELSE <<>>]
<1>0. MAXPROCESS \in Nat \ {0} /\ Queue!Tasks = 1 .. MAXPROCESS /\ Queue!NULL = 0
      /\ "dead_pool_queue" \in Queues
  BY QueueConstants
<1>1. QueueTypeInv
  BY <1>0 DEF Queue!Init, QueueTypeInv
<1>2. boot \in Seq(Queue!Tasks) /\ Len(boot) = MAXPROCESS /\ DOMAIN boot = 1 .. MAXPROCESS
      /\ (\A i \in 1 .. MAXPROCESS : boot[i] = i) /\ <<>> \in Seq(Queue!Tasks)
         /\ boot # <<>>
  BY <1>0
<1>3. IsInjective(boot) /\ IsInjective(<<>>) /\ Range(<<>>) = {}
  BY <1>2 DEF IsInjective, Range
<1> HIDE DEF boot
<1>4. Chain(next, 1, boot) /\ Chain(next, 0, <<>>)
  <2>1. \A u \in 1 .. MAXPROCESS : next[u] = IF u = MAXPROCESS THEN 0 ELSE u + 1
    BY <1>0 DEF Queue!Init
  <2>2. ASSUME NEW i \in 1 .. Len(boot) PROVE next[boot[i]] = ElementAfter(boot, i)
    <3>1. i \in 1 .. MAXPROCESS /\ boot[i] = i
          /\ (i # MAXPROCESS => i + 1 \in 1 .. MAXPROCESS)
      BY <1>0, <1>2
    <3> QED  BY <1>0, <1>2, <2>1, <3>1 DEF ElementAfter
  <2>3. ElementAfter(boot, 0) = 1
    BY <1>0, <1>2 DEF ElementAfter
  <2>4. Chain(next, 1, boot)
    BY <2>2, <2>3 DEF Chain
  <2> QED  BY <2>4 DEF Chain, ElementAfter
<1>5. Apart(list, outside)
  <2>1. outside = {}
    BY DEF Queue!Init
  <2> QED  BY <1>3, <2>1 DEF Apart
<1>6. \A q \in Queues : /\ Chain(next, head[q], list[q])
                        /\ list[q] # <<>> => tail[q] = list[q][Len(list[q])]
                        /\ size[q] = Len(list[q])
  BY <1>0, <1>2, <1>4 DEF Queue!Init
<1>7. QueueLists(list)
  BY <1>5, <1>6 DEF QueueLists
<1> QED  BY <1>1, <1>7 DEF boot

\* An addition of t to q at a place where the links allow for it.
LEMMA QueueListsPut ==
  ASSUME Queue!QueueAssumption, QueueTypeInv, NEW list \in [Queues -> Seq(Queue!Tasks)],
         QueueLists(list),
         NEW q \in Queues, NEW t \in outside, NEW s \in Seq(Queue!Tasks),
         NEW i \in 1 .. Len(list[q]) + 1, Inserted(s, list[q], i, t),
         QueueTypeInv', outside' = outside \ {t},
         \A r \in Queues : r # q =>
           head'[r] = head[r] /\ tail'[r] = tail[r] /\ size'[r] = size[r],
         head'[q] = IF i = 1 THEN t ELSE head[q],
         tail'[q] = IF i = Len(list[q]) + 1 THEN t ELSE tail[q],
         size'[q] = size[q] + 1,
         next'[t] = ElementAfter(list[q], i - 1),
         i > 1 => next'[list[q][i - 1]] = t,
         \A u \in Queue!Tasks : u # t /\ (i > 1 => u # list[q][i - 1])
         => next'[u] = next[u]
  PROVE  QueueLists([list EXCEPT ![q] = s])'
<1> DEFINE after == [list EXCEPT ![q] = s]
           n == Len(list[q])
<1>1. /\ after \in [Queues -> Seq(Queue!Tasks)] /\ after[q] = s
      /\ \A r \in Queues : r # q => after[r] = list[r]
      /\ list[q] \in Seq(Queue!Tasks) /\ t \in Queue!Tasks /\ n \in Nat /\ i \in Nat
  BY DEF QueueTypeInv
<1>2. 0 \notin Queue!Tasks
  BY QueueConstants
<1>3. \A r \in Queues : IsInjective(list[r]) /\ t \notin Range(list[r])
  BY DEF QueueLists, Apart
<1>4. IsInjective(s) /\ Range(s) = Range(list[q]) \cup {t}
  BY <1>1, <1>3, InsertedHolds
<1>5. Apart(after, outside \ {t})
  BY <1>4, ApartPut DEF QueueLists
<1> HIDE DEF after
<1>6. \A r \in Queues : \A j \in 1 .. Len(list[r]) : list[r][j] \in Range(list[r])
      /\ list[r][j] \in Queue!Tasks
  <2> SUFFICES ASSUME NEW r \in Queues, NEW j \in 1 .. Len(list[r])
               PROVE  list[r][j] \in Range(list[r]) /\ list[r][j] \in Queue!Tasks
    OBVIOUS
  <2>1. list[r] \in Seq(Queue!Tasks)
    OBVIOUS
  <2> QED  BY <2>1 DEF Range
<1>7. ASSUME NEW r \in Queues, r # q PROVE Chain(next', head'[r], after[r])
  <2>1. ASSUME NEW j \in 1 .. Len(list[r]) PROVE next'[list[r][j]] = next[list[r][j]]
    <3>1. list[r][j] \in Range(list[r]) /\ list[r][j] \in Queue!Tasks /\ list[r][j] # t
      BY <1>3, <1>6
    <3>2. ASSUME i > 1 PROVE list[r][j] # list[q][i - 1]
      <4>1. i - 1 \in 1 .. Len(list[q])
        BY <1>1, <3>2
      <4>2. list[q][i - 1] \in Range(list[q])
        BY <1>6, <4>1
      <4> QED  BY <1>7, <3>1, <4>2 DEF QueueLists, Apart
    <3> QED  BY <3>1, <3>2
  <2>2. Chain(next, head[r], list[r])
    BY DEF QueueLists
  <2>3. head'[r] = head[r] /\ after[r] = list[r]
    BY <1>1, <1>7
  <2>4. Chain(next', head[r], list[r])
    BY <2>1, <2>2, ChainSame
  <2> QED  BY <2>3, <2>4
<1>8. Chain(next', head'[q], after[q])
  <2>1. ASSUME NEW j \in 1 .. n, j # i - 1 PROVE next'[list[q][j]] = next[list[q][j]]
    <3>1. list[q][j] \in Range(list[q]) /\ list[q][j] \in Queue!Tasks /\ list[q][j] # t
      BY <1>3, <1>6
    <3>2. ASSUME i > 1 PROVE list[q][j] # list[q][i - 1]
      <4>1. i - 1 \in DOMAIN list[q] /\ j \in DOMAIN list[q]
        BY <1>1, <3>2
      <4> QED  BY <1>3, <2>1, <4>1 DEF IsInjective
    <3> QED  BY <3>1, <3>2
  <2>2. Chain(next, head[q], list[q])
    BY DEF QueueLists
  <2> DEFINE old == list[q]
             ny == next'
             first == head[q]
  <2>3. /\ old \in Seq(Queue!Tasks) /\ t \in Queue!Tasks /\ i \in 1 .. Len(old) + 1
        /\ Inserted(s, old, i, t)
        /\ Chain(next, first, old) /\ ny[t] = ElementAfter(old, i - 1)
        /\ (i > 1 => ny[old[i - 1]] = t)
        /\ \A j \in 1 .. Len(old) : j # i - 1 => ny[old[j]] = next[old[j]]
    BY <1>1, <2>1, <2>2
  <2> HIDE DEF old, ny, first
  <2>4. Chain(ny, IF i = 1 THEN t ELSE first, s)
    BY <1>2, <2>3, ChainInserted
  <2> QED  BY <1>1, <2>4 DEF ny, first
<1>9. Len(s) = n + 1 /\ s[n + 1] = IF i = n + 1 THEN t ELSE list[q][n]
  <2>1. n + 1 \in 1 .. n + 1 /\ (n + 1) - 1 = n
    BY <1>1
  <2> QED  BY <1>1, <2>1 DEF Inserted
<1>10. ASSUME NEW r \in Queues
       PROVE  /\ Chain(next', head'[r], after[r])
              /\ after[r] # <<>> => tail'[r] = after[r][Len(after[r])]
              /\ size'[r] = Len(after[r])
  <2>1. CASE r = q
    <3>1. i # n + 1 => list[q] # <<>>
      BY <1>1
    <3>2. /\ list[q] # <<>> => tail[q] = list[q][n]
          /\ size[q] = n
      BY DEF QueueLists
    <3> QED  BY <1>1, <1>8, <1>9, <2>1, <3>1, <3>2
  <2>2. CASE r # q
    BY <1>1, <1>7, <2>2 DEF QueueLists
  <2> QED  BY <2>1, <2>2
<1>11. QueueLists(after)'
  BY <1>5, <1>10 DEF QueueLists
<1> QED  BY <1>11 DEF after

\* What an operation does to the lists.
QueueDoes(before, after) ==
  \E q \in Queues, t \in Queue!Tasks :
    \/ /\ t \in outside /\ outside' = outside \ {t}
       /\ \/ after = [before EXCEPT ![q] = Append(before[q], t)]
          \/ after = [before EXCEPT ![q] = Cons(t, before[q])]
    \/ /\ t \notin outside /\ outside' = outside \cup {t}
       /\ before[q] # <<>> /\ Head(before[q]) = t
       /\ after = [before EXCEPT ![q] = Tail(before[q])]

LEMMA QueueEnqueueDoes ==
  ASSUME Queue!QueueAssumption, QueueTypeInv, NEW list \in [Queues -> Seq(Queue!Tasks)],
         QueueLists(list),
         NEW q \in Queues, NEW t \in Queue!Tasks, Queue!enqueue(q, t)
  PROVE  /\ QueueTypeInv'
         /\ \E after \in [Queues -> Seq(Queue!Tasks)] : QueueLists(after)'
            /\ QueueDoes(list, after)
<1> DEFINE s == list[q]
           n == Len(s)
           p == Append(s, t)
<1>1. t \in outside /\ outside' = outside \ {t}
  BY DEF Queue!enqueue
<1>2. /\ s \in Seq(Queue!Tasks) /\ n \in Nat /\ 0 \notin Queue!Tasks /\ Queue!NULL = 0
      /\ Chain(next, head[q], s) /\ size[q] = n /\ (s # <<>> => tail[q] = s[n])
  BY QueueConstants DEF QueueLists
<1>3. /\ QueueTypeInv'
      /\ \A r \in Queues : r # q =>
           head'[r] = head[r] /\ tail'[r] = tail[r] /\ size'[r] = size[r]
      /\ tail'[q] = t /\ next'[t] = 0
  <2>1. CASE head[q] = Queue!NULL
    <3>1. /\ head' = [head EXCEPT ![q] = t] /\ tail' = [tail EXCEPT ![q] = t]
          /\ size' = [size EXCEPT ![q] = 1] /\ next' = [next EXCEPT ![t] = Queue!NULL]
      BY <2>1 DEF Queue!enqueue, Queue!FirstElement
    <3> QED  BY <1>1, <1>2, <3>1 DEF QueueTypeInv
  <2>2. CASE head[q] # Queue!NULL
    <3>1. /\ next' = [next EXCEPT ![t] = Queue!NULL, ![tail[q]] = t] /\ head' = head
          /\ tail' = [tail EXCEPT ![q] = t] /\ size' = [size EXCEPT ![q] = @ + 1]
      BY <2>2 DEF Queue!enqueue
    <3>2. s # <<>>
      BY <1>2, <2>2 DEF Chain, ElementAfter
    <3>3. tail[q] # t
      <4>1. n \in DOMAIN s /\ s[n] \in Range(s)
        BY <1>2, <3>2 DEF Range
      <4> QED  BY <1>1, <1>2, <3>2, <4>1 DEF QueueLists, Apart
    <3>4. QueueTypeInv'
      <4>1. tail' \in [Queues -> Queue!Tasks \cup {Queue!NULL}]
            /\ head' \in [Queues -> Queue!Tasks \cup {Queue!NULL}]
        BY <3>1 DEF QueueTypeInv
      <4>2. size' \in [Queues -> Int]
        BY <3>1 DEF QueueTypeInv
      <4>3. next' \in [Queue!Tasks -> Queue!Tasks \cup {Queue!NULL}]
        BY <3>1 DEF QueueTypeInv
      <4>4. outside' \in SUBSET Queue!Tasks
        BY <1>1 DEF QueueTypeInv
      <4> QED  BY <4>1, <4>2, <4>3, <4>4 DEF QueueTypeInv
    <3> QED  BY <1>2, <3>1, <3>3, <3>4 DEF QueueTypeInv
  <2> QED  BY <2>1, <2>2
<1>4. p \in Seq(Queue!Tasks) /\ Inserted(p, s, n + 1, t)
  BY <1>2, InsertedAt
<1>5. ElementAfter(s, (n + 1) - 1) = 0
  BY <1>2 DEF ElementAfter
<1>6. (head[q] = Queue!NULL <=> s = <<>>) /\ (s # <<>> => n >= 1 /\ s[n] \in Queue!Tasks)
  <2>1. CASE s = <<>>
    BY <1>2, <2>1 DEF Chain, ElementAfter
  <2>2. CASE s # <<>>
    <3>1. n >= 1 /\ n # 0 /\ s[1] \in Queue!Tasks /\ s[n] \in Queue!Tasks
      BY <1>2, <2>2
    <3>2. head[q] = s[1]
      BY <1>2, <3>1 DEF Chain, ElementAfter
    <3> QED  BY <1>2, <2>2, <3>1, <3>2
  <2> QED  BY <2>1, <2>2
<1>7. t \notin Range(s)
  BY <1>1 DEF QueueLists, Apart
<1>8. s # <<>> => s[n] # t
  BY <1>2, <1>6, <1>7 DEF Range
<1>9. /\ head'[q] = IF n + 1 = 1 THEN t ELSE head[q]
      /\ size'[q] = size[q] + 1
      /\ n + 1 > 1 => next'[s[(n + 1) - 1]] = t
      /\ \A u \in Queue!Tasks : u # t /\ (n + 1 > 1 => u # s[(n + 1) - 1])
         => next'[u] = next[u]
  <2>1. CASE s = <<>>
    <3>1. n = 0
      BY <2>1
    <3>2. /\ head' = [head EXCEPT ![q] = t] /\ size' = [size EXCEPT ![q] = 1]
          /\ next' = [next EXCEPT ![t] = Queue!NULL]
      BY <1>6, <2>1 DEF Queue!enqueue, Queue!FirstElement
    <3> HIDE DEF n, s
    <3> QED  BY <1>2, <3>1, <3>2 DEF QueueTypeInv
  <2>2. CASE s # <<>>
    <3>1. n >= 1 /\ (n + 1) - 1 = n /\ tail[q] = s[n] /\ s[n] \in Queue!Tasks
      BY <1>2, <1>6, <2>2
    <3>2. /\ head' = head /\ size' = [size EXCEPT ![q] = @ + 1]
          /\ next' = [next EXCEPT ![t] = Queue!NULL, ![tail[q]] = t]
      BY <1>6, <2>2 DEF Queue!enqueue
    <3> HIDE DEF n, s
    <3> QED  BY <1>2, <1>8, <2>2, <3>1, <3>2 DEF QueueTypeInv
  <2> QED  BY <2>1, <2>2
<1>10. n + 1 \in 1 .. n + 1
  BY <1>2
<1> DEFINE after == [list EXCEPT ![q] = p]
<1>11. QueueLists(after)'
  <2> HIDE DEF p
  <2>1. tail'[q] = IF n + 1 = n + 1 THEN t ELSE tail[q]
    BY <1>3
  <2>2. next'[t] = ElementAfter(s, (n + 1) - 1)
    BY <1>3, <1>5
  <2>3. PICK i \in 1 .. n + 1 : i = n + 1
    BY <1>10
  <2>4. /\ Inserted(p, s, i, t) /\ head'[q] = IF i = 1 THEN t ELSE head[q]
        /\ tail'[q] = IF i = n + 1 THEN t ELSE tail[q]
        /\ next'[t] = ElementAfter(s, i - 1) /\ (i > 1 => next'[s[i - 1]] = t)
        /\ \A u \in Queue!Tasks : u # t /\ (i > 1 => u # s[i - 1]) => next'[u] = next[u]
    BY <1>4, <1>9, <2>1, <2>2, <2>3
  <2> QED  BY <1>1, <1>3, <1>4, <1>9, <2>4, QueueListsPut
<1>12. after \in [Queues -> Seq(Queue!Tasks)]
  BY <1>4
<1>13. QueueDoes(list, after)
  BY <1>1 DEF QueueDoes
<1> QED  BY <1>3, <1>11, <1>12, <1>13

LEMMA QueuePushDoes ==
  ASSUME Queue!QueueAssumption, QueueTypeInv, NEW list \in [Queues -> Seq(Queue!Tasks)],
         QueueLists(list),
         NEW q \in Queues, NEW t \in Queue!Tasks, Queue!queue_push(q, t)
  PROVE  /\ QueueTypeInv'
         /\ \E after \in [Queues -> Seq(Queue!Tasks)] : QueueLists(after)'
            /\ QueueDoes(list, after)
<1> DEFINE s == list[q]
           n == Len(s)
           p == Cons(t, s)
<1>1. t \in outside /\ outside' = outside \ {t}
  BY DEF Queue!queue_push
<1>2. /\ s \in Seq(Queue!Tasks) /\ n \in Nat /\ 0 \notin Queue!Tasks /\ Queue!NULL = 0
      /\ Chain(next, head[q], s) /\ size[q] = n /\ (s # <<>> => tail[q] = s[n])
  BY QueueConstants DEF QueueLists
<1>3. p \in Seq(Queue!Tasks) /\ Inserted(p, s, 1, t)
  BY <1>2, InsertedAt
<1>4. head[q] = Queue!NULL <=> s = <<>>
  <2>1. CASE s = <<>>
    BY <1>2, <2>1 DEF Chain, ElementAfter
  <2>2. CASE s # <<>>
    <3>1. n >= 1 /\ n # 0 /\ s[1] \in Queue!Tasks
      BY <1>2, <2>2
    <3>2. head[q] = s[1]
      BY <1>2, <3>1 DEF Chain, ElementAfter
    <3> QED  BY <1>2, <2>2, <3>1, <3>2
  <2> QED  BY <2>1, <2>2
<1>5. /\ head' = [head EXCEPT ![q] = t] /\ next' = [next EXCEPT ![t] = head[q]]
      /\ tail' = (IF head[q] = Queue!NULL THEN [tail EXCEPT ![q] = t] ELSE tail)
      /\ size' = [size EXCEPT ![q] = IF head[q] = Queue!NULL THEN 1 ELSE @ + 1]
  BY DEF Queue!queue_push, Queue!PushTail
<1>6. /\ QueueTypeInv'
      /\ \A r \in Queues : r # q =>
           head'[r] = head[r] /\ tail'[r] = tail[r] /\ size'[r] = size[r]
  BY <1>1, <1>2, <1>5 DEF QueueTypeInv
<1>7. n = 0 <=> s = <<>>
  BY <1>2
<1>8. head'[q] = t /\ next'[t] = head[q] /\ \A u \in Queue!Tasks : u # t
      => next'[u] = next[u]
  BY <1>5 DEF QueueTypeInv
<1>9. tail'[q] = IF n = 0 THEN t ELSE tail[q]
  <2> HIDE DEF n, s
  <2> QED  BY <1>4, <1>5, <1>7 DEF QueueTypeInv
<1>10. size'[q] = size[q] + 1
  <2>1. size'[q] = IF n = 0 THEN 1 ELSE size[q] + 1
    <3> HIDE DEF n, s
    <3> QED  BY <1>4, <1>5, <1>7 DEF QueueTypeInv
  <2> QED  BY <1>2, <2>1
<1>11. head[q] = ElementAfter(s, 1 - 1)
  BY <1>2 DEF Chain
<1> DEFINE after == [list EXCEPT ![q] = p]
<1>12. QueueLists(after)'
  <2>1. /\ 1 \in 1 .. n + 1
        /\ tail'[q] = IF 1 = n + 1 THEN t ELSE tail[q]
        /\ head'[q] = IF 1 = 1 THEN t ELSE head[q]
        /\ next'[t] = ElementAfter(s, 1 - 1)
        /\ 1 > 1 => next'[s[1 - 1]] = t
        /\ \A u \in Queue!Tasks : u # t /\ (1 > 1 => u # s[1 - 1]) => next'[u] = next[u]
    <3>1. 1 \in 1 .. n + 1 /\ (1 = n + 1 <=> n = 0) /\ ~(1 > 1)
      BY <1>2
    <3> HIDE DEF n, s
    <3> QED  BY <1>8, <1>9, <1>11, <3>1
  <2> HIDE DEF p
  <2> QED  BY <1>1, <1>3, <1>6, <1>10, <2>1, QueueListsPut
<1>13. after \in [Queues -> Seq(Queue!Tasks)]
  BY <1>3
<1>14. QueueDoes(list, after)
  BY <1>1 DEF QueueDoes
<1> QED  BY <1>6, <1>12, <1>13, <1>14

LEMMA QueueDequeueDoes ==
  ASSUME Queue!QueueAssumption, QueueTypeInv, NEW list \in [Queues -> Seq(Queue!Tasks)],
         QueueLists(list),
         NEW q \in Queues, Queue!dequeue(q)
  PROVE  /\ QueueTypeInv'
         /\ \E after \in [Queues -> Seq(Queue!Tasks)] : QueueLists(after)'
            /\ QueueDoes(list, after)
<1> DEFINE s == list[q]
           n == Len(s)
           t == Head(s)
           after == [list EXCEPT ![q] = Tail(s)]
<1>1. /\ s \in Seq(Queue!Tasks) /\ n \in Nat /\ 0 \notin Queue!Tasks /\ Queue!NULL = 0
      /\ Chain(next, head[q], s) /\ size[q] = n /\ (s # <<>> => tail[q] = s[n])
  BY QueueConstants DEF QueueLists
<1>2. s # <<>> /\ n >= 1 /\ head[q] = s[1] /\ t = s[1] /\ t \in Queue!Tasks
  <2>1. s # <<>>
    <3> SUFFICES ASSUME s = <<>> PROVE FALSE
      OBVIOUS
    <3>1. head[q] = 0
      BY <1>1 DEF Chain, ElementAfter
    <3> QED  BY <1>1, <3>1 DEF Queue!dequeue
  <2>2. n >= 1 /\ n # 0 /\ s[1] \in Queue!Tasks /\ t = s[1]
    BY <1>1, <2>1
  <2>3. head[q] = s[1]
    BY <1>1, <2>2 DEF Chain, ElementAfter
  <2> QED  BY <2>1, <2>2, <2>3
<1>3. /\ head' = [head EXCEPT ![q] = next[t]] /\ next' = [next EXCEPT ![t] = Queue!NULL]
      /\ size' = [size EXCEPT ![q] = @ - 1] /\ outside' = outside \cup {t} /\ tail' = tail
  BY <1>2 DEF Queue!dequeue, Queue!SizeAfterDequeue
<1>4. QueueTypeInv'
  <2> HIDE DEF t
  <2> QED  BY <1>2, <1>3 DEF QueueTypeInv
<1>5. /\ t \notin outside /\ Tail(s) \in Seq(Queue!Tasks)
      /\ Apart(after, outside \cup {t})
  BY <1>2, ApartTake DEF QueueLists
<1>6. after \in [Queues -> Seq(Queue!Tasks)] /\ after[q] = Tail(s)
      /\ \A r \in Queues : r # q => after[r] = list[r]
  BY <1>5
<1>7. \A r \in Queues : \A j \in 1 .. Len(list[r]) :
        list[r][j] \in Queue!Tasks /\ ((r = q => j # 1) => list[r][j] # t)
  <2> SUFFICES ASSUME NEW r \in Queues, NEW j \in 1 .. Len(list[r])
               PROVE  list[r][j] \in Queue!Tasks /\ ((r = q => j # 1) => list[r][j] # t)
    OBVIOUS
  <2>1. /\ list[r] \in Seq(Queue!Tasks) /\ list[r][j] \in Queue!Tasks
        /\ list[r][j] \in Range(list[r])
        /\ t \in Range(s) /\ j \in DOMAIN list[r] /\ 1 \in DOMAIN s
    BY <1>1, <1>2 DEF Range
  <2>2. CASE r = q
    BY <1>2, <2>1, <2>2 DEF QueueLists, Apart, IsInjective
  <2>3. CASE r # q
    BY <2>1, <2>3 DEF QueueLists, Apart
  <2> QED  BY <2>1, <2>2, <2>3
<1> HIDE DEF after
<1>8. ASSUME NEW r \in Queues, r # q PROVE Chain(next', head'[r], after[r])
  <2>1. \A j \in 1 .. Len(list[r]) : next'[list[r][j]] = next[list[r][j]]
    <3> HIDE DEF t
    <3> QED  BY <1>3, <1>7, <1>8 DEF QueueTypeInv
  <2>2. Chain(next, head[r], list[r])
    BY DEF QueueLists
  <2>3. Chain(next', head[r], list[r])
    BY <2>1, <2>2, ChainSame
  <2> QED  BY <1>3, <1>6, <1>8, <2>3 DEF QueueTypeInv
<1>9. Chain(next', head'[q], after[q])
  <2>1. \A j \in 2 .. n : next'[s[j]] = next[s[j]]
    <3>1. \A j \in 2 .. n : j \in 1 .. n /\ s[j] # t /\ s[j] \in Queue!Tasks
      BY <1>1, <1>7
    <3> HIDE DEF t, s, n
    <3> QED  BY <1>3, <3>1 DEF QueueTypeInv
  <2>2. Chain(next', next[head[q]], Tail(s))
    BY <1>1, <1>2, <2>1, ChainTail
  <2>3. head'[q] = next[head[q]]
    BY <1>2, <1>3 DEF QueueTypeInv
  <2> QED  BY <1>6, <2>2, <2>3
<1>10. ASSUME NEW r \in Queues
       PROVE  /\ Chain(next', head'[r], after[r])
              /\ after[r] # <<>> => tail'[r] = after[r][Len(after[r])]
              /\ size'[r] = Len(after[r])
  <2>1. CASE r = q
    <3>1. Len(Tail(s)) = n - 1 /\ (\A j \in 1 .. n - 1 : Tail(s)[j] = s[j + 1])
      BY <1>1, <1>2, SeqEnds
    <3>2. size'[q] = n - 1
      BY <1>1, <1>3 DEF QueueTypeInv
    <3>3. ASSUME Tail(s) # <<>> PROVE s[n] = Tail(s)[n - 1]
      <4>1. n - 1 # 0 /\ n - 1 \in Nat
        BY <1>1, <1>2, <1>5, <3>1, <3>3
      <4>2. n - 1 \in 1 .. n - 1 /\ (n - 1) + 1 = n
        <5>1. \A m \in Nat : m - 1 \in Nat /\ m - 1 # 0 => m - 1 \in 1 .. m - 1
              /\ (m - 1) + 1 = m
          OBVIOUS
        <5> QED  BY <1>1, <4>1, <5>1
      <4> QED  BY <3>1, <4>2
    <3> QED  BY <1>1, <1>2, <1>3, <1>6, <1>9, <2>1, <3>1, <3>2, <3>3
  <2>2. CASE r # q
    BY <1>3, <1>6, <1>8, <2>2 DEF QueueLists, QueueTypeInv
  <2> QED  BY <2>1, <2>2
<1>11. QueueLists(after)'
  BY <1>3, <1>5, <1>10 DEF QueueLists, after
<1>12. QueueDoes(list, after)
  BY <1>2, <1>3, <1>5 DEF QueueDoes, after
<1> QED  BY <1>4, <1>6, <1>11, <1>12

LEMMA QueueNextDoes ==
  ASSUME Queue!QueueAssumption, QueueTypeInv, NEW list \in [Queues -> Seq(Queue!Tasks)],
         QueueLists(list), Queue!Next
  PROVE  /\ QueueTypeInv'
         /\ \E after \in [Queues -> Seq(Queue!Tasks)] : QueueLists(after)'
            /\ QueueDoes(list, after)
BY QueueEnqueueDoes, QueuePushDoes, QueueDequeueDoes DEF Queue!Next

LEMMA QueueIInvStep ==
  ASSUME Queue!QueueAssumption, QueueIInv, [Queue!Next]_(Queue!vars)
  PROVE  QueueIInv'
<1>1. CASE Queue!Next
  BY <1>1, QueueNextDoes DEF QueueIInv
<1>2. CASE UNCHANGED Queue!vars
  BY <1>2 DEF Queue!vars, QueueIInv, QueueTypeInv, QueueLists
<1> QED  BY <1>1, <1>2

LEMMA QueueFifoStep ==
  ASSUME Queue!QueueAssumption, QueueIInv, [Queue!Next]_(Queue!vars)
  PROVE  [Queue!Fifo!FifoNext]_(Queue!Fifo!fifo_vars)
<1>1. PICK list \in [Queues -> Seq(Queue!Tasks)] : QueueLists(list)
  BY DEF QueueIInv
<1>2. [q \in Queues |-> Queue!List(q)] = list /\ QueueTypeInv
  BY <1>1, QueueListsAre DEF QueueIInv
<1>3. CASE Queue!Next
  <2>1. PICK after \in [Queues -> Seq(Queue!Tasks)] : QueueTypeInv' /\ QueueLists(after)'
             /\ QueueDoes(list, after)
    BY <1>1, <1>2, <1>3, QueueNextDoes
  <2>2. [q \in Queues |-> Queue!List(q)]' = after
    <3>1. \A nx, b, s : nx \in [Queue!Tasks -> Queue!Tasks \cup {Queue!NULL}]
          /\ s \in Seq(Queue!Tasks)
                        /\ IsInjective(s) /\ Chain(nx, b, s)
                        => Queue!Linked(nx, MAXPROCESS + 1)[b] = s
      BY QueueListIs
    <3>2. ASSUME NEW q \in Queues PROVE Queue!List(q)' = after[q]
      <4>1. next' \in [Queue!Tasks -> Queue!Tasks \cup {Queue!NULL}]
            /\ IsInjective(after[q]) /\ Chain(next', head'[q], after[q])
            /\ after[q] \in Seq(Queue!Tasks)
        BY <2>1 DEF QueueTypeInv, QueueLists, Apart
      <4>2. Queue!List(q)' = Queue!Linked(next', MAXPROCESS + 1)[head'[q]]
        BY DEF Queue!List
      <4> QED  BY <3>1, <4>1, <4>2
    <3> QED  BY <3>2
  <2>3. PICK q \in Queues, t \in Queue!Tasks :
          \/ /\ t \in outside /\ outside' = outside \ {t}
             /\ \/ after = [list EXCEPT ![q] = Append(list[q], t)]
                \/ after = [list EXCEPT ![q] = Cons(t, list[q])]
          \/ /\ t \notin outside /\ outside' = outside \cup {t}
             /\ list[q] # <<>> /\ Head(list[q]) = t
             /\ after = [list EXCEPT ![q] = Tail(list[q])]
    BY <2>1 DEF QueueDoes
  <2>4. CASE t \in outside /\ outside' = outside \ {t}
             /\ after = [list EXCEPT ![q] = Append(list[q], t)]
    <3>1. Queue!Fifo!AddLast(q, t)
      BY <1>2, <2>2, <2>4 DEF Queue!Fifo!AddLast
    <3> QED  BY <3>1 DEF Queue!Fifo!FifoNext
  <2>5. CASE t \in outside /\ outside' = outside \ {t}
             /\ after = [list EXCEPT ![q] = Cons(t, list[q])]
    <3>1. Queue!Fifo!AddFirst(q, t)
      BY <1>2, <2>2, <2>5 DEF Queue!Fifo!AddFirst, Queue!Fifo!Cons, Cons
    <3> QED  BY <3>1 DEF Queue!Fifo!FifoNext
  <2>6. CASE /\ t \notin outside /\ outside' = outside \cup {t}
             /\ list[q] # <<>> /\ Head(list[q]) = t
             /\ after = [list EXCEPT ![q] = Tail(list[q])]
    <3>1. Queue!Fifo!TakeFirst(q, t)
      BY <1>2, <2>2, <2>6 DEF Queue!Fifo!TakeFirst
    <3> QED  BY <3>1 DEF Queue!Fifo!FifoNext
  <2> QED  BY <2>3, <2>4, <2>5, <2>6
<1>4. CASE UNCHANGED Queue!vars
  BY <1>4 DEF Queue!vars, Queue!Fifo!fifo_vars, Queue!List
<1> QED  BY <1>3, <1>4

LEMMA QueueFifoInit ==
  ASSUME Queue!QueueAssumption, Queue!Init
  PROVE  QueueIInv /\ Queue!Fifo!FifoInit
<1> DEFINE boot == [i \in 1 .. MAXPROCESS |-> i]
           list == [q \in Queues |-> IF q = "dead_pool_queue" THEN boot ELSE <<>>]
<1>1. QueueTypeInv /\ QueueLists(list)
  BY QueueListsInit
<1>2. list \in [Queues -> Seq(Queue!Tasks)]
  <2>1. boot \in Seq(Queue!Tasks) /\ <<>> \in Seq(Queue!Tasks)
    BY QueueConstants
  <2> QED  BY <2>1
<1> HIDE DEF boot
<1>3. [q \in Queues |-> Queue!List(q)] = list
  BY <1>1, <1>2, QueueListsAre
<1> QED  BY <1>1, <1>2, <1>3 DEF QueueIInv, Queue!Init, Queue!Fifo!FifoInit, boot

LEMMA QueueSizeIs ==
  ASSUME Queue!QueueAssumption, QueueIInv
  PROVE  Queue!SizeIsLength
<1>1. PICK list \in [Queues -> Seq(Queue!Tasks)] : QueueLists(list)
  BY DEF QueueIInv
<1>2. [q \in Queues |-> Queue!List(q)] = list
  BY <1>1, QueueListsAre DEF QueueIInv
<1>3. \A q \in Queues : Queue!List(q) = list[q] /\ size[q] = Len(list[q])
  BY <1>1, <1>2 DEF QueueLists
<1> QED  BY <1>3 DEF Queue!SizeIsLength

\* The linked lists of the Project 2 kernel, whose next fields are shared and whose
\* tails go stale, implement FIFO queues.
LEMMA QueueAreFifo ==
  ASSUME Queue!QueueAssumption PROVE Queue!Spec => Queue!ImplementsFifo
<1>1. Queue!Spec => Queue!Fifo!FifoInit /\ [][Queue!Fifo!FifoNext]_(Queue!Fifo!fifo_vars)
  BY QueueFifoInit, QueueIInvStep, QueueFifoStep, PTL DEF Queue!Spec
<1> QED  BY <1>1 DEF Queue!ImplementsFifo, Queue!Fifo!FifoSpec

\* The size field is the length of the list.
LEMMA QueueSizesAre ==
  ASSUME Queue!QueueAssumption PROVE Queue!Spec => []Queue!SizeIsLength
BY QueueFifoInit, QueueIInvStep, QueueSizeIs, PTL DEF Queue!Spec

-----------------------------------------------------------------------------
(* The task queues of the robots (RoombaQueue).                            *)

\* The links of a list that ends at last.
RobotQueueLinks(nx, last) == [t \in RobotQueue!Tasks |->
                               IF t = last THEN RobotQueue!NULL ELSE nx[t]]

\* The lists stand for the sequences of list, a descriptor is in one of them at most,
\* once, and the tail of a list is its last descriptor, or none.
RobotQueueLists(list) ==
  /\ Apart(list, robot_outside)
  /\ \A q \in RobotQueues :
       /\ Chain(RobotQueueLinks(robot_next, robot_tail[q]), robot_head[q], list[q])
       /\ robot_tail[q] = IF list[q] = <<>> THEN RobotQueue!NULL
          ELSE list[q][Len(list[q])]

RobotQueueTypeInv ==
  /\ robot_head \in [RobotQueues -> RobotQueue!Tasks \cup {RobotQueue!NULL}]
  /\ robot_tail \in [RobotQueues -> RobotQueue!Tasks \cup {RobotQueue!NULL}]
  /\ robot_next \in [RobotQueue!Tasks -> RobotQueue!Tasks \cup {RobotQueue!NULL}]
  /\ robot_outside \in SUBSET RobotQueue!Tasks

RobotQueueIInv == RobotQueueTypeInv
                  /\ \E list \in [RobotQueues -> Seq(RobotQueue!Tasks)]
                       : RobotQueueLists(list)

LEMMA RobotQueueConstants ==
  ASSUME RobotQueue!RoombaQueueAssumption
  PROVE  /\ ROBOT_MAXPROCESS \in Nat \ {0} /\ "dead_pool_queue" \in RobotQueues
         /\ RobotQueue!Tasks = 1 .. ROBOT_MAXPROCESS /\ RobotQueue!NULL = 0
         /\ 0 \notin RobotQueue!Tasks
BY DEF RobotQueue!RoombaQueueAssumption, RobotQueue!Tasks, RobotQueue!NULL

\* The sequence of a list is what its links lead through.
LEMMA RobotQueueListIs ==
  ASSUME RobotQueue!RoombaQueueAssumption,
         NEW nx \in [RobotQueue!Tasks -> RobotQueue!Tasks \cup {RobotQueue!NULL}], NEW b,
         NEW s \in Seq(RobotQueue!Tasks),
         IsInjective(s), Chain(nx, b, s)
  PROVE  RobotQueue!Linked(nx, ROBOT_MAXPROCESS + 1)[b] = s
<1>0. \A links, m : RobotQueue!Linked(links, m) = Linked(links, m)
  BY DEF RobotQueue!Linked, Linked
<1>1. ROBOT_MAXPROCESS \in Nat /\ ROBOT_MAXPROCESS + 1 \in Nat
      /\ RobotQueue!Tasks = 1 .. ROBOT_MAXPROCESS /\ RobotQueue!NULL = 0
      /\ 0 \notin RobotQueue!Tasks
  BY RobotQueueConstants
<1>2. Len(s) <= ROBOT_MAXPROCESS /\ Len(s) \in Nat
  BY <1>1, ListFits
<1>3. Len(s) <= ROBOT_MAXPROCESS + 1
  BY <1>1, <1>2
<1> QED  BY <1>0, <1>1, <1>3, LinkedChain

LEMMA RobotQueueLinksAre ==
  ASSUME NEW nx \in [RobotQueue!Tasks -> RobotQueue!Tasks \cup {RobotQueue!NULL}],
         NEW last
  PROVE  /\ RobotQueueLinks(nx,
            last) \in [RobotQueue!Tasks -> RobotQueue!Tasks \cup {RobotQueue!NULL}]
         /\ \A u \in RobotQueue!Tasks : RobotQueueLinks(nx, last)[u] =
              IF u = last THEN RobotQueue!NULL ELSE nx[u]
BY DEF RobotQueueLinks

LEMMA RobotQueueListsAre ==
  ASSUME RobotQueue!RoombaQueueAssumption, RobotQueueTypeInv,
         NEW list \in [RobotQueues -> Seq(RobotQueue!Tasks)], RobotQueueLists(list)
  PROVE  [q \in RobotQueues |-> RobotQueue!List(q)] = list
<1>1. ASSUME NEW q \in RobotQueues PROVE RobotQueue!List(q) = list[q]
  <2>1. /\ RobotQueueLinks(robot_next,
           robot_tail[q])
             \in [RobotQueue!Tasks -> RobotQueue!Tasks \cup {RobotQueue!NULL}]
        /\ IsInjective(list[q])
        /\ Chain(RobotQueueLinks(robot_next, robot_tail[q]), robot_head[q], list[q])
    BY RobotQueueLinksAre DEF RobotQueueTypeInv, RobotQueueLists, Apart
  <2>2. RobotQueue!UpToTail(q) = RobotQueueLinks(robot_next, robot_tail[q])
    BY DEF RobotQueue!UpToTail, RobotQueueLinks
  <2> QED  BY <2>1, <2>2, RobotQueueListIs DEF RobotQueue!List
<1> QED  BY <1>1

LEMMA RobotQueueListsInit ==
  ASSUME RobotQueue!RoombaQueueAssumption, RobotQueue!Init
  PROVE  RobotQueueTypeInv /\ RobotQueueLists([q \in RobotQueues |->
           IF q = "dead_pool_queue" THEN [i \in 1 .. ROBOT_MAXPROCESS |-> i] ELSE <<>>])
<1> DEFINE boot == [i \in 1 .. ROBOT_MAXPROCESS |-> i]
           list == [q \in RobotQueues |-> IF q = "dead_pool_queue" THEN boot ELSE <<>>]
<1>0. ROBOT_MAXPROCESS \in Nat \ {0} /\ RobotQueue!Tasks = 1 .. ROBOT_MAXPROCESS
      /\ RobotQueue!NULL = 0 /\ "dead_pool_queue" \in RobotQueues
  BY RobotQueueConstants
<1>1. RobotQueueTypeInv
  BY <1>0 DEF RobotQueue!Init, RobotQueueTypeInv
<1>2. boot \in Seq(RobotQueue!Tasks) /\ Len(boot) = ROBOT_MAXPROCESS
      /\ DOMAIN boot = 1 .. ROBOT_MAXPROCESS
      /\ (\A i \in 1 .. ROBOT_MAXPROCESS : boot[i] = i) /\ <<>> \in Seq(RobotQueue!Tasks)
         /\ boot # <<>>
  BY <1>0
<1>3. IsInjective(boot) /\ IsInjective(<<>>) /\ Range(<<>>) = {}
  BY <1>2 DEF IsInjective, Range
<1> HIDE DEF boot
<1>4. Chain(RobotQueueLinks(robot_next, ROBOT_MAXPROCESS), 1, boot)
      /\ Chain(RobotQueueLinks(robot_next, 0), 0, <<>>)
  <2>1. \A u \in RobotQueue!Tasks : RobotQueueLinks(robot_next, ROBOT_MAXPROCESS)[u] =
          IF u = ROBOT_MAXPROCESS THEN 0 ELSE u + 1
    BY <1>0 DEF RobotQueue!Init, RobotQueueLinks
  <2>2. ASSUME NEW i \in 1 .. Len(boot)
        PROVE  RobotQueueLinks(robot_next,
               ROBOT_MAXPROCESS)[boot[i]] = ElementAfter(boot, i)
    <3>1. i \in 1 .. ROBOT_MAXPROCESS /\ boot[i] = i
          /\ (i # ROBOT_MAXPROCESS => i + 1 \in 1 .. ROBOT_MAXPROCESS)
      BY <1>0, <1>2
    <3> QED  BY <1>0, <1>2, <2>1, <3>1 DEF ElementAfter
  <2>3. ElementAfter(boot, 0) = 1
    BY <1>0, <1>2 DEF ElementAfter
  <2>4. Chain(RobotQueueLinks(robot_next, ROBOT_MAXPROCESS), 1, boot)
    BY <2>2, <2>3 DEF Chain
  <2> QED  BY <2>4 DEF Chain, ElementAfter
<1>5. Apart(list, robot_outside)
  <2>1. robot_outside = {}
    BY DEF RobotQueue!Init
  <2> QED  BY <1>3, <2>1 DEF Apart
<1>6. \A q \in RobotQueues : /\ Chain(RobotQueueLinks(robot_next, robot_tail[q]),
                                robot_head[q], list[q])
                             /\ robot_tail[q] = IF list[q] = <<>> THEN RobotQueue!NULL
                                ELSE list[q][Len(list[q])]
  BY <1>0, <1>2, <1>4 DEF RobotQueue!Init
<1>7. RobotQueueLists(list)
  BY <1>5, <1>6 DEF RobotQueueLists
<1> QED  BY <1>1, <1>7 DEF boot

\* An addition of t to q at a place where the links allow for it.
LEMMA RobotQueueListsPut ==
  ASSUME RobotQueue!RoombaQueueAssumption, RobotQueueTypeInv,
         NEW list \in [RobotQueues -> Seq(RobotQueue!Tasks)], RobotQueueLists(list),
         NEW q \in RobotQueues, NEW t \in robot_outside, NEW s \in Seq(RobotQueue!Tasks),
         NEW i \in 1 .. Len(list[q]) + 1, Inserted(s, list[q], i, t),
         RobotQueueTypeInv', robot_outside' = robot_outside \ {t},
         \A r \in RobotQueues : r # q =>
           robot_head'[r] = robot_head[r] /\ robot_tail'[r] = robot_tail[r],
         robot_head'[q] = IF i = 1 THEN t ELSE robot_head[q],
         robot_tail'[q] = IF i = Len(list[q]) + 1 THEN t ELSE robot_tail[q],
         i <= Len(list[q]) => robot_next'[t] = list[q][i],
         i > 1 => robot_next'[list[q][i - 1]] = t,
         \A u \in RobotQueue!Tasks : u # t /\ (i > 1 => u # list[q][i - 1])
         => robot_next'[u] = robot_next[u]
  PROVE  RobotQueueLists([list EXCEPT ![q] = s])'
<1> DEFINE after == [list EXCEPT ![q] = s]
           n == Len(list[q])
<1>1. /\ after \in [RobotQueues -> Seq(RobotQueue!Tasks)] /\ after[q] = s
      /\ \A r \in RobotQueues : r # q => after[r] = list[r]
      /\ list[q] \in Seq(RobotQueue!Tasks) /\ t \in RobotQueue!Tasks /\ n \in Nat
      /\ i \in Nat
  BY DEF RobotQueueTypeInv
<1>2. 0 \notin RobotQueue!Tasks
  BY RobotQueueConstants
<1>3. \A r \in RobotQueues : IsInjective(list[r]) /\ t \notin Range(list[r])
  BY DEF RobotQueueLists, Apart
<1>4. IsInjective(s) /\ Range(s) = Range(list[q]) \cup {t}
  BY <1>1, <1>3, InsertedHolds
<1>5. Apart(after, robot_outside \ {t})
  BY <1>4, ApartPut DEF RobotQueueLists
<1> HIDE DEF after
<1>6. \A r \in RobotQueues : \A j \in 1 .. Len(list[r]) : list[r][j] \in Range(list[r])
      /\ list[r][j] \in RobotQueue!Tasks
  <2> SUFFICES ASSUME NEW r \in RobotQueues, NEW j \in 1 .. Len(list[r])
               PROVE  list[r][j] \in Range(list[r]) /\ list[r][j] \in RobotQueue!Tasks
    OBVIOUS
  <2>1. list[r] \in Seq(RobotQueue!Tasks)
    OBVIOUS
  <2> QED  BY <2>1 DEF Range
<1>7. ASSUME NEW r \in RobotQueues, r # q
      PROVE  Chain(RobotQueueLinks(robot_next', robot_tail'[r]), robot_head'[r], after[r])
  <2>1. ASSUME NEW j \in 1 .. Len(list[r])
        PROVE  robot_next'[list[r][j]] = robot_next[list[r][j]]
    <3>1. list[r][j] \in Range(list[r]) /\ list[r][j] \in RobotQueue!Tasks
          /\ list[r][j] # t
      BY <1>3, <1>6
    <3>2. ASSUME i > 1 PROVE list[r][j] # list[q][i - 1]
      <4>1. i - 1 \in 1 .. Len(list[q])
        BY <1>1, <3>2
      <4>2. list[q][i - 1] \in Range(list[q])
        BY <1>6, <4>1
      <4> QED  BY <1>7, <3>1, <4>2 DEF RobotQueueLists, Apart
    <3> QED  BY <3>1, <3>2
  <2>2. Chain(RobotQueueLinks(robot_next, robot_tail[r]), robot_head[r], list[r])
    BY DEF RobotQueueLists
  <2>3. robot_head'[r] = robot_head[r] /\ robot_tail'[r] = robot_tail[r]
        /\ after[r] = list[r]
    BY <1>1, <1>7
  <2>4. \A j \in 1 .. Len(list[r]) : RobotQueueLinks(robot_next',
        robot_tail[r])[list[r][j]] = RobotQueueLinks(robot_next,
        robot_tail[r])[list[r][j]]
    BY <1>6, <2>1 DEF RobotQueueLinks
  <2>5. Chain(RobotQueueLinks(robot_next', robot_tail[r]), robot_head[r], list[r])
    BY <2>2, <2>4, ChainSame
  <2> QED  BY <2>3, <2>5
<1>8. Chain(RobotQueueLinks(robot_next', robot_tail'[q]), robot_head'[q], after[q])
  <2> DEFINE nx == RobotQueueLinks(robot_next, robot_tail[q])
             ny == RobotQueueLinks(robot_next', robot_tail'[q])
  <2>0. /\ robot_next \in [RobotQueue!Tasks -> RobotQueue!Tasks \cup {RobotQueue!NULL}]
        /\ robot_next' \in [RobotQueue!Tasks -> RobotQueue!Tasks \cup {RobotQueue!NULL}]
        /\ \A u \in RobotQueue!Tasks : nx[u] =
             IF u = robot_tail[q] THEN RobotQueue!NULL ELSE robot_next[u]
        /\ \A u \in RobotQueue!Tasks : ny[u] =
             IF u = robot_tail'[q] THEN RobotQueue!NULL ELSE robot_next'[u]
    BY DEF RobotQueueTypeInv, RobotQueueLinks
  <2> HIDE DEF nx, ny
  <2>1. list[q] # <<>> => robot_tail[q] = list[q][n]
    BY DEF RobotQueueLists
  <2>2. \A j \in 1 .. n : list[q][j] # t /\ list[q][j] \in RobotQueue!Tasks
    BY <1>3, <1>6
  <2>3. \A j, k \in 1 .. n : list[q][j] = list[q][k] => j = k
    BY <1>1, <1>3 DEF IsInjective
  <2>4. ny[t] = ElementAfter(list[q], i - 1)
    <3>1. CASE i = n + 1
      <4>1. robot_tail'[q] = t /\ i - 1 = n
        BY <1>1, <3>1
      <4> QED  BY <1>1, <2>0, <4>1, RobotQueueConstants DEF ElementAfter
    <3>2. CASE i # n + 1
      <4>1. i <= n /\ n \in 1 .. n /\ i - 1 # n /\ (i - 1) + 1 = i /\ list[q] # <<>>
        BY <1>1, <3>2
      <4>2. robot_tail'[q] = list[q][n] /\ robot_tail'[q] # t
        BY <2>1, <2>2, <3>2, <4>1
      <4> QED  BY <1>1, <2>0, <4>1, <4>2 DEF ElementAfter
    <3> QED  BY <3>1, <3>2
  <2>5. i > 1 => ny[list[q][i - 1]] = t
    <3> SUFFICES ASSUME i > 1 PROVE ny[list[q][i - 1]] = t
      OBVIOUS
    <3>1. i - 1 \in 1 .. n /\ n \in 1 .. n /\ list[q] # <<>>
      BY <1>1
    <3>2. robot_tail'[q] # list[q][i - 1]
      <4>1. CASE i = n + 1
        BY <2>2, <3>1, <4>1
      <4>2. CASE i # n + 1
        <5>1. i - 1 # n /\ robot_tail'[q] = list[q][n]
          BY <1>1, <2>1, <3>1, <4>2
        <5> QED  BY <2>3, <3>1, <5>1
      <4> QED  BY <4>1, <4>2
    <3> QED  BY <2>0, <2>2, <3>1, <3>2
  <2>6. ASSUME NEW j \in 1 .. n, j # i - 1 PROVE ny[list[q][j]] = nx[list[q][j]]
    <3>1. list[q][j] \in RobotQueue!Tasks /\ list[q][j] # t /\ list[q] # <<>>
          /\ n \in 1 .. n
      BY <1>1, <2>2
    <3>2. ASSUME i > 1 PROVE list[q][j] # list[q][i - 1]
      <4>1. i - 1 \in 1 .. n
        BY <1>1, <3>2
      <4> QED  BY <2>3, <2>6, <4>1
    <3>3. robot_next'[list[q][j]] = robot_next[list[q][j]]
      BY <3>1, <3>2
    <3>4. CASE i = n + 1
      <4>1. j # n /\ robot_tail'[q] = t /\ robot_tail[q] = list[q][n]
        BY <1>1, <2>1, <2>6, <3>1, <3>4
      <4>2. list[q][j] # list[q][n]
        BY <2>3, <3>1, <4>1
      <4> QED  BY <2>0, <3>1, <3>3, <4>1, <4>2
    <3>5. CASE i # n + 1
      BY <2>0, <3>1, <3>3, <3>5
    <3> QED  BY <3>4, <3>5
  <2>7. Chain(nx, robot_head[q], list[q])
    BY DEF RobotQueueLists, nx
  <2>8. Chain(ny, IF i = 1 THEN t ELSE robot_head[q], s)
    BY <1>1, <1>2, <2>4, <2>5, <2>6, <2>7, ChainInserted
  <2> QED  BY <1>1, <2>8 DEF ny
<1>9. Len(s) = n + 1 /\ s[n + 1] = IF i = n + 1 THEN t ELSE list[q][n]
  <2>1. n + 1 \in 1 .. n + 1 /\ (n + 1) - 1 = n
    BY <1>1
  <2> QED  BY <1>1, <2>1 DEF Inserted
<1>10. ASSUME NEW r \in RobotQueues
       PROVE  /\ Chain(RobotQueueLinks(robot_next', robot_tail'[r]), robot_head'[r],
                 after[r])
              /\ robot_tail'[r] =
                   IF after[r] = <<>> THEN RobotQueue!NULL ELSE after[r][Len(after[r])]
  <2>1. CASE r = q
    <3>1. i # n + 1 => list[q] # <<>>
      BY <1>1
    <3>2. list[q] # <<>> => robot_tail[q] = list[q][n]
      BY DEF RobotQueueLists
    <3>3. s # <<>>
      BY <1>1, <1>9
    <3> QED  BY <1>1, <1>8, <1>9, <2>1, <3>1, <3>2, <3>3
  <2>2. CASE r # q
    BY <1>1, <1>7, <2>2 DEF RobotQueueLists
  <2> QED  BY <2>1, <2>2
<1>11. RobotQueueLists(after)'
  BY <1>5, <1>10 DEF RobotQueueLists
<1> QED  BY <1>11 DEF after

\* What an operation does to the lists.
RobotQueueDoes(before, after) ==
  \E q \in RobotQueues, t \in RobotQueue!Tasks :
    \/ /\ t \in robot_outside /\ robot_outside' = robot_outside \ {t}
       /\ \/ after = [before EXCEPT ![q] = Append(before[q], t)]
          \/ after = [before EXCEPT ![q] = Cons(t, before[q])]
    \/ /\ t \notin robot_outside /\ robot_outside' = robot_outside \cup {t}
       /\ before[q] # <<>> /\ Head(before[q]) = t
       /\ after = [before EXCEPT ![q] = Tail(before[q])]

LEMMA RobotQueueEnqueueDoes ==
  ASSUME RobotQueue!RoombaQueueAssumption, RobotQueueTypeInv,
         NEW list \in [RobotQueues -> Seq(RobotQueue!Tasks)], RobotQueueLists(list),
         NEW q \in RobotQueues, NEW t \in RobotQueue!Tasks, RobotQueue!enqueue(q, t)
  PROVE  /\ RobotQueueTypeInv'
         /\ \E after \in [RobotQueues -> Seq(RobotQueue!Tasks)] : RobotQueueLists(after)'
            /\ RobotQueueDoes(list, after)
<1> DEFINE s == list[q]
           n == Len(s)
           p == Append(s, t)
<1>1. t \in robot_outside /\ robot_outside' = robot_outside \ {t}
  BY DEF RobotQueue!enqueue
<1>2. /\ s \in Seq(RobotQueue!Tasks) /\ n \in Nat /\ 0 \notin RobotQueue!Tasks
      /\ RobotQueue!NULL = 0
      /\ Chain(RobotQueueLinks(robot_next, robot_tail[q]), robot_head[q], s)
      /\ (s # <<>> => robot_tail[q] = s[n])
  BY RobotQueueConstants DEF RobotQueueLists
<1>3. (robot_head[q] = RobotQueue!NULL <=> s = <<>>) /\ (n = 0 <=> s = <<>>)
      /\ (s # <<>> => n >= 1 /\ s[n] \in RobotQueue!Tasks)
  <2>1. CASE s = <<>>
    BY <1>2, <2>1 DEF Chain, ElementAfter
  <2>2. CASE s # <<>>
    <3>1. n >= 1 /\ n # 0 /\ s[1] \in RobotQueue!Tasks /\ s[n] \in RobotQueue!Tasks
      BY <1>2, <2>2
    <3>2. robot_head[q] = s[1]
      BY <1>2, <3>1 DEF Chain, ElementAfter
    <3> QED  BY <1>2, <2>2, <3>1, <3>2
  <2> QED  BY <2>1, <2>2
<1>4. p \in Seq(RobotQueue!Tasks) /\ Inserted(p, s, n + 1, t)
  BY <1>2, InsertedAt
<1>5. n + 1 \in 1 .. n + 1 /\ (n + 1) - 1 = n /\ (n + 1 = 1 <=> n = 0)
      /\ (n + 1 > 1 <=> n # 0) /\ ~(n + 1 <= n)
  BY <1>2
<1>6. robot_tail' = [robot_tail EXCEPT ![q] = t]
  BY DEF RobotQueue!enqueue, RobotQueue!FirstElement
<1>7. /\ robot_head' = IF n = 0 THEN [robot_head EXCEPT ![q] = t] ELSE robot_head
      /\ robot_next' = IF n = 0 THEN robot_next ELSE [robot_next EXCEPT ![s[n]] = t]
  <2> HIDE DEF n, s
  <2> QED  BY <1>2, <1>3 DEF RobotQueue!enqueue, RobotQueue!FirstElement
<1>8. RobotQueueTypeInv'
  <2> HIDE DEF n, s
  <2>1. robot_next' \in [RobotQueue!Tasks -> RobotQueue!Tasks \cup {RobotQueue!NULL}]
    BY <1>3, <1>7 DEF RobotQueueTypeInv
  <2>2. robot_head' \in [RobotQueues -> RobotQueue!Tasks \cup {RobotQueue!NULL}]
        /\ robot_tail' \in [RobotQueues -> RobotQueue!Tasks \cup {RobotQueue!NULL}]
    BY <1>6, <1>7 DEF RobotQueueTypeInv
  <2> QED  BY <1>1, <2>1, <2>2 DEF RobotQueueTypeInv
<1>9. /\ \A r \in RobotQueues : r # q => robot_head'[r] = robot_head[r]
         /\ robot_tail'[r] = robot_tail[r]
      /\ robot_head'[q] = IF n = 0 THEN t ELSE robot_head[q]
      /\ robot_tail'[q] = t
      /\ n # 0 => robot_next'[s[n]] = t
      /\ \A u \in RobotQueue!Tasks : u # t /\ (n # 0 => u # s[n])
         => robot_next'[u] = robot_next[u]
  <2> HIDE DEF n, s
  <2> QED  BY <1>3, <1>6, <1>7 DEF RobotQueueTypeInv
<1> DEFINE after == [list EXCEPT ![q] = p]
<1>10. RobotQueueLists(after)'
  <2> HIDE DEF p
  <2>1. PICK i \in 1 .. n + 1 : i = n + 1
    BY <1>5
  <2>2. /\ Inserted(p, s, i, t) /\ robot_head'[q] = IF i = 1 THEN t ELSE robot_head[q]
        /\ robot_tail'[q] = IF i = n + 1 THEN t ELSE robot_tail[q]
        /\ (i <= n => robot_next'[t] = s[i]) /\ (i > 1 => robot_next'[s[i - 1]] = t)
        /\ \A u \in RobotQueue!Tasks : u # t /\ (i > 1 => u # s[i - 1])
           => robot_next'[u] = robot_next[u]
    BY <1>4, <1>5, <1>9, <2>1
  <2> QED  BY <1>1, <1>4, <1>8, <1>9, <2>2, RobotQueueListsPut
<1>11. after \in [RobotQueues -> Seq(RobotQueue!Tasks)]
  BY <1>4
<1>12. RobotQueueDoes(list, after)
  BY <1>1 DEF RobotQueueDoes
<1> QED  BY <1>8, <1>10, <1>11, <1>12

LEMMA RobotQueueBudgeDoes ==
  ASSUME RobotQueue!RoombaQueueAssumption, RobotQueueTypeInv,
         NEW list \in [RobotQueues -> Seq(RobotQueue!Tasks)], RobotQueueLists(list),
         NEW q \in RobotQueues, NEW t \in RobotQueue!Tasks, RobotQueue!budgequeue(q, t)
  PROVE  /\ RobotQueueTypeInv'
         /\ \E after \in [RobotQueues -> Seq(RobotQueue!Tasks)] : RobotQueueLists(after)'
            /\ RobotQueueDoes(list, after)
<1> DEFINE s == list[q]
           n == Len(s)
           p == Cons(t, s)
<1>1. t \in robot_outside /\ robot_outside' = robot_outside \ {t}
  BY DEF RobotQueue!budgequeue
<1>2. /\ s \in Seq(RobotQueue!Tasks) /\ n \in Nat /\ 0 \notin RobotQueue!Tasks
      /\ RobotQueue!NULL = 0
      /\ Chain(RobotQueueLinks(robot_next, robot_tail[q]), robot_head[q], s)
  BY RobotQueueConstants DEF RobotQueueLists
<1>3. (robot_head[q] = RobotQueue!NULL <=> n = 0) /\ (n # 0 => robot_head[q] = s[1])
  <2>1. CASE s = <<>>
    BY <1>2, <2>1 DEF Chain, ElementAfter
  <2>2. CASE s # <<>>
    <3>1. n >= 1 /\ n # 0 /\ s[1] \in RobotQueue!Tasks
      BY <1>2, <2>2
    <3>2. robot_head[q] = s[1]
      BY <1>2, <3>1 DEF Chain, ElementAfter
    <3> QED  BY <1>2, <3>1, <3>2
  <2> QED  BY <2>1, <2>2
<1>4. p \in Seq(RobotQueue!Tasks) /\ Inserted(p, s, 1, t)
  BY <1>2, InsertedAt
<1>5. 1 \in 1 .. n + 1 /\ (1 = n + 1 <=> n = 0) /\ (1 <= n <=> n # 0) /\ ~(1 > 1)
  BY <1>2
<1>6. /\ robot_head' = [robot_head EXCEPT ![q] = t]
      /\ robot_next' = [robot_next EXCEPT ![t] = robot_head[q]]
      /\ robot_tail' = (IF n = 0 THEN [robot_tail EXCEPT ![q] = t] ELSE robot_tail)
  <2> HIDE DEF n, s
  <2> QED  BY <1>3 DEF RobotQueue!budgequeue, RobotQueue!FirstElement
<1>7. RobotQueueTypeInv'
  <2> HIDE DEF n, s
  <2> QED  BY <1>1, <1>6 DEF RobotQueueTypeInv
<1>8. /\ \A r \in RobotQueues : r # q => robot_head'[r] = robot_head[r]
         /\ robot_tail'[r] = robot_tail[r]
      /\ robot_head'[q] = t
      /\ robot_tail'[q] = IF n = 0 THEN t ELSE robot_tail[q]
      /\ robot_next'[t] = robot_head[q]
      /\ \A u \in RobotQueue!Tasks : u # t => robot_next'[u] = robot_next[u]
  <2> HIDE DEF n, s
  <2> QED  BY <1>6 DEF RobotQueueTypeInv
<1> DEFINE after == [list EXCEPT ![q] = p]
<1>9. RobotQueueLists(after)'
  <2> HIDE DEF p
  <2>1. /\ robot_head'[q] = IF 1 = 1 THEN t ELSE robot_head[q]
        /\ robot_tail'[q] = IF 1 = n + 1 THEN t ELSE robot_tail[q]
        /\ (1 <= n => robot_next'[t] = s[1]) /\ (1 > 1 => robot_next'[s[1 - 1]] = t)
        /\ \A u \in RobotQueue!Tasks : u # t /\ (1 > 1 => u # s[1 - 1])
           => robot_next'[u] = robot_next[u]
    <3> HIDE DEF n, s
    <3> QED  BY <1>3, <1>5, <1>8
  <2> QED  BY <1>1, <1>4, <1>5, <1>7, <1>8, <2>1, RobotQueueListsPut
<1>10. after \in [RobotQueues -> Seq(RobotQueue!Tasks)]
  BY <1>4
<1>11. RobotQueueDoes(list, after)
  BY <1>1 DEF RobotQueueDoes
<1> QED  BY <1>7, <1>9, <1>10, <1>11

LEMMA RobotQueueDequeueDoes ==
  ASSUME RobotQueue!RoombaQueueAssumption, RobotQueueTypeInv,
         NEW list \in [RobotQueues -> Seq(RobotQueue!Tasks)], RobotQueueLists(list),
         NEW q \in RobotQueues, RobotQueue!dequeue(q)
  PROVE  /\ RobotQueueTypeInv'
         /\ \E after \in [RobotQueues -> Seq(RobotQueue!Tasks)] : RobotQueueLists(after)'
            /\ RobotQueueDoes(list, after)
<1> DEFINE s == list[q]
           n == Len(s)
           t == Head(s)
           after == [list EXCEPT ![q] = Tail(s)]
           nx == RobotQueueLinks(robot_next, robot_tail[q])
<1>1. /\ s \in Seq(RobotQueue!Tasks) /\ n \in Nat /\ 0 \notin RobotQueue!Tasks
      /\ RobotQueue!NULL = 0
      /\ Chain(nx, robot_head[q], s) /\ (s # <<>> => robot_tail[q] = s[n])
  BY RobotQueueConstants DEF RobotQueueLists
<1>2. s # <<>> /\ n >= 1 /\ robot_head[q] = s[1] /\ t = s[1] /\ t \in RobotQueue!Tasks
      /\ n \in 1 .. n /\ 1 \in 1 .. n
  <2>1. s # <<>>
    <3> SUFFICES ASSUME s = <<>> PROVE FALSE
      OBVIOUS
    <3>1. robot_head[q] = 0
      BY <1>1 DEF Chain, ElementAfter
    <3> QED  BY <1>1, <3>1 DEF RobotQueue!dequeue
  <2>2. n >= 1 /\ n # 0 /\ s[1] \in RobotQueue!Tasks /\ t = s[1] /\ n \in 1 .. n
        /\ 1 \in 1 .. n
    BY <1>1, <2>1
  <2>3. robot_head[q] = s[1]
    BY <1>1, <2>2 DEF Chain, ElementAfter
  <2> QED  BY <2>1, <2>2, <2>3
<1>3. robot_tail[q] = robot_head[q] <=> n = 1
  <2>1. \A j, k \in 1 .. n : s[j] = s[k] => j = k
    BY <1>1 DEF RobotQueueLists, Apart, IsInjective
  <2> QED  BY <1>1, <1>2, <2>1
<1>4. n # 1 => nx[robot_head[q]] = robot_next[robot_head[q]]
      /\ robot_next[robot_head[q]] \in RobotQueue!Tasks \cup {RobotQueue!NULL}
  BY <1>2, <1>3 DEF RobotQueueLinks, RobotQueueTypeInv
<1>5. /\ robot_head' = [robot_head EXCEPT ![q] =
           IF n = 1 THEN RobotQueue!NULL ELSE robot_next[t]] /\ robot_next' = robot_next
      /\ robot_tail' = (IF n = 1 THEN [robot_tail EXCEPT ![q] = RobotQueue!NULL]
         ELSE robot_tail) /\ robot_outside' = robot_outside \cup {t}
  <2> HIDE DEF n, t
  <2> QED  BY <1>2, <1>3
       DEF RobotQueue!dequeue, RobotQueue!LastOne, RobotQueue!FirstElement
<1>6. RobotQueueTypeInv'
  <2> HIDE DEF t, n
  <2> QED  BY <1>2, <1>5 DEF RobotQueueTypeInv
<1>7. /\ t \notin robot_outside /\ Tail(s) \in Seq(RobotQueue!Tasks)
      /\ Apart(after, robot_outside \cup {t})
  BY <1>2, ApartTake DEF RobotQueueLists
<1>8. /\ after \in [RobotQueues -> Seq(RobotQueue!Tasks)] /\ after[q] = Tail(s)
      /\ \A r \in RobotQueues : r # q => after[r] = list[r]
  BY <1>7
<1>9. Len(Tail(s)) = n - 1 /\ \A j \in 1 .. n - 1 : Tail(s)[j] = s[j + 1]
  BY <1>1, <1>2, SeqEnds
<1> HIDE DEF after
<1>10. ASSUME NEW r \in RobotQueues, r # q
       PROVE  /\ Chain(RobotQueueLinks(robot_next', robot_tail'[r]), robot_head'[r],
                 after[r])
              /\ robot_tail'[r] =
                   IF after[r] = <<>> THEN RobotQueue!NULL ELSE after[r][Len(after[r])]
  <2>1. robot_head'[r] = robot_head[r] /\ robot_tail'[r] = robot_tail[r]
        /\ robot_next' = robot_next
    <3> HIDE DEF t, n
    <3> QED  BY <1>5, <1>10 DEF RobotQueueTypeInv
  <2> QED  BY <1>8, <1>10, <2>1 DEF RobotQueueLists
<1>11. CASE n = 1
  <2>1. Tail(s) = <<>>
    <3>1. Len(Tail(s)) = 0
      BY <1>9, <1>11
    <3> DEFINE rest == Tail(s)
    <3>2. rest \in Seq(RobotQueue!Tasks) /\ Len(rest) = 0
      BY <1>7, <3>1
    <3> HIDE DEF rest
    <3>3. rest = <<>>
      BY <3>2
    <3> QED  BY <3>3 DEF rest
  <2>2. robot_head'[q] = 0 /\ robot_tail'[q] = 0
    <3> HIDE DEF n, t
    <3> QED  BY <1>1, <1>5, <1>11 DEF RobotQueueTypeInv
  <2>3. Chain(RobotQueueLinks(robot_next', robot_tail'[q]), 0, <<>>)
    BY DEF Chain, ElementAfter
  <2>4. RobotQueueLists(after)'
    BY <1>1, <1>5, <1>7, <1>8, <1>10, <2>1, <2>2, <2>3 DEF RobotQueueLists
  <2> QED  BY <1>2, <1>5, <1>6, <1>7, <1>8, <2>4 DEF RobotQueueDoes, after
<1>12. CASE n # 1
  <2>1. robot_head'[q] = nx[robot_head[q]] /\ robot_tail'[q] = robot_tail[q]
    <3> HIDE DEF n, t, nx
    <3> QED  BY <1>2, <1>4, <1>5, <1>12 DEF RobotQueueTypeInv
  <2>2. Chain(nx, nx[robot_head[q]], Tail(s))
    <3> HIDE DEF nx
    <3> QED  BY <1>1, <1>2, ChainTail
  <2>3. RobotQueueLinks(robot_next', robot_tail'[q]) = nx
    BY <1>5, <2>1
  <2>4. Tail(s) # <<>> /\ s[n] = Tail(s)[n - 1]
    <3>1. n - 1 # 0 /\ n - 1 \in 1 .. n - 1 /\ (n - 1) + 1 = n
      <4>1. \A m \in Nat : m >= 1 /\ m # 1 => m - 1 # 0 /\ m - 1 \in 1 .. m - 1
            /\ (m - 1) + 1 = m
        OBVIOUS
      <4> QED  BY <1>1, <1>2, <1>12, <4>1
    <3> QED  BY <1>9, <3>1
  <2>5. /\ Chain(RobotQueueLinks(robot_next', robot_tail'[q]), robot_head'[q], after[q])
        /\ robot_tail'[q] =
             IF after[q] = <<>> THEN RobotQueue!NULL ELSE after[q][Len(after[q])]
    <3> HIDE DEF nx
    <3> QED  BY <1>1, <1>2, <1>8, <1>9, <2>1, <2>2, <2>3, <2>4
  <2>6. RobotQueueLists(after)'
    <3> HIDE DEF s, n, t, nx
    <3> QED  BY <1>5, <1>7, <1>10, <2>5 DEF RobotQueueLists
  <2> QED  BY <1>2, <1>5, <1>6, <1>7, <1>8, <2>6 DEF RobotQueueDoes, after
<1> QED  BY <1>11, <1>12

LEMMA RobotQueueNextDoes ==
  ASSUME RobotQueue!RoombaQueueAssumption, RobotQueueTypeInv,
         NEW list \in [RobotQueues -> Seq(RobotQueue!Tasks)], RobotQueueLists(list),
         RobotQueue!Next
  PROVE  /\ RobotQueueTypeInv'
         /\ \E after \in [RobotQueues -> Seq(RobotQueue!Tasks)] : RobotQueueLists(after)'
            /\ RobotQueueDoes(list, after)
BY RobotQueueEnqueueDoes, RobotQueueBudgeDoes, RobotQueueDequeueDoes DEF RobotQueue!Next

LEMMA RobotQueueIInvStep ==
  ASSUME RobotQueue!RoombaQueueAssumption, RobotQueueIInv,
         [RobotQueue!Next]_(RobotQueue!vars)
  PROVE  RobotQueueIInv'
<1>1. CASE RobotQueue!Next
  BY <1>1, RobotQueueNextDoes DEF RobotQueueIInv
<1>2. CASE UNCHANGED RobotQueue!vars
  BY <1>2 DEF RobotQueue!vars, RobotQueueIInv, RobotQueueTypeInv, RobotQueueLists
<1> QED  BY <1>1, <1>2

LEMMA RobotQueueFifoStep ==
  ASSUME RobotQueue!RoombaQueueAssumption, RobotQueueIInv,
         [RobotQueue!Next]_(RobotQueue!vars)
  PROVE  [RobotQueue!Fifo!FifoNext]_(RobotQueue!Fifo!fifo_vars)
<1>1. PICK list \in [RobotQueues -> Seq(RobotQueue!Tasks)] : RobotQueueLists(list)
  BY DEF RobotQueueIInv
<1>2. [q \in RobotQueues |-> RobotQueue!List(q)] = list /\ RobotQueueTypeInv
  BY <1>1, RobotQueueListsAre DEF RobotQueueIInv
<1>3. CASE RobotQueue!Next
  <2>1. PICK after \in [RobotQueues -> Seq(RobotQueue!Tasks)] : RobotQueueTypeInv'
             /\ RobotQueueLists(after)' /\ RobotQueueDoes(list, after)
    BY <1>1, <1>2, <1>3, RobotQueueNextDoes
  <2>2. [q \in RobotQueues |-> RobotQueue!List(q)]' = after
    <3>1. \A nx, b, s
            : nx \in [RobotQueue!Tasks -> RobotQueue!Tasks \cup {RobotQueue!NULL}]
            /\ s \in Seq(RobotQueue!Tasks)
                        /\ IsInjective(s) /\ Chain(nx, b, s)
                        => RobotQueue!Linked(nx, ROBOT_MAXPROCESS + 1)[b] = s
      BY RobotQueueListIs
    <3>2. ASSUME NEW q \in RobotQueues PROVE RobotQueue!List(q)' = after[q]
      <4>1. RobotQueueLinks(robot_next',
            robot_tail'[q])
              \in [RobotQueue!Tasks -> RobotQueue!Tasks \cup {RobotQueue!NULL}]
              /\ IsInjective(after[q])
              /\ Chain(RobotQueueLinks(robot_next', robot_tail'[q]), robot_head'[q],
                 after[q])
            /\ after[q] \in Seq(RobotQueue!Tasks)
        BY <2>1, RobotQueueLinksAre DEF RobotQueueTypeInv, RobotQueueLists, Apart
      <4>2. RobotQueue!List(q)' = RobotQueue!Linked(RobotQueueLinks(robot_next',
            robot_tail'[q]), ROBOT_MAXPROCESS + 1)[robot_head'[q]]
        BY DEF RobotQueue!List, RobotQueue!UpToTail, RobotQueueLinks
      <4> QED  BY <3>1, <4>1, <4>2
    <3> QED  BY <3>2
  <2>3. PICK q \in RobotQueues, t \in RobotQueue!Tasks :
          \/ /\ t \in robot_outside /\ robot_outside' = robot_outside \ {t}
             /\ \/ after = [list EXCEPT ![q] = Append(list[q], t)]
                \/ after = [list EXCEPT ![q] = Cons(t, list[q])]
          \/ /\ t \notin robot_outside /\ robot_outside' = robot_outside \cup {t}
             /\ list[q] # <<>> /\ Head(list[q]) = t
             /\ after = [list EXCEPT ![q] = Tail(list[q])]
    BY <2>1 DEF RobotQueueDoes
  <2>4. CASE t \in robot_outside /\ robot_outside' = robot_outside \ {t}
             /\ after = [list EXCEPT ![q] = Append(list[q], t)]
    <3>1. RobotQueue!Fifo!AddLast(q, t)
      BY <1>2, <2>2, <2>4 DEF RobotQueue!Fifo!AddLast
    <3> QED  BY <3>1 DEF RobotQueue!Fifo!FifoNext
  <2>5. CASE t \in robot_outside /\ robot_outside' = robot_outside \ {t}
             /\ after = [list EXCEPT ![q] = Cons(t, list[q])]
    <3>1. RobotQueue!Fifo!AddFirst(q, t)
      BY <1>2, <2>2, <2>5 DEF RobotQueue!Fifo!AddFirst, RobotQueue!Fifo!Cons, Cons
    <3> QED  BY <3>1 DEF RobotQueue!Fifo!FifoNext
  <2>6. CASE /\ t \notin robot_outside /\ robot_outside' = robot_outside \cup {t}
             /\ list[q] # <<>> /\ Head(list[q]) = t
             /\ after = [list EXCEPT ![q] = Tail(list[q])]
    <3>1. RobotQueue!Fifo!TakeFirst(q, t)
      BY <1>2, <2>2, <2>6 DEF RobotQueue!Fifo!TakeFirst
    <3> QED  BY <3>1 DEF RobotQueue!Fifo!FifoNext
  <2> QED  BY <2>3, <2>4, <2>5, <2>6
<1>4. CASE UNCHANGED RobotQueue!vars
  BY <1>4 DEF RobotQueue!vars, RobotQueue!Fifo!fifo_vars, RobotQueue!List,
              RobotQueue!UpToTail
<1> QED  BY <1>3, <1>4

LEMMA RobotQueueFifoInit ==
  ASSUME RobotQueue!RoombaQueueAssumption, RobotQueue!Init
  PROVE  RobotQueueIInv /\ RobotQueue!Fifo!FifoInit
<1> DEFINE boot == [i \in 1 .. ROBOT_MAXPROCESS |-> i]
           list == [q \in RobotQueues |-> IF q = "dead_pool_queue" THEN boot ELSE <<>>]
<1>1. RobotQueueTypeInv /\ RobotQueueLists(list)
  BY RobotQueueListsInit
<1>2. list \in [RobotQueues -> Seq(RobotQueue!Tasks)]
  <2>1. boot \in Seq(RobotQueue!Tasks) /\ <<>> \in Seq(RobotQueue!Tasks)
    BY RobotQueueConstants
  <2> QED  BY <2>1
<1> HIDE DEF boot
<1>3. [q \in RobotQueues |-> RobotQueue!List(q)] = list
  BY <1>1, <1>2, RobotQueueListsAre
<1> QED  BY <1>1, <1>2, <1>3
     DEF RobotQueueIInv, RobotQueue!Init, RobotQueue!Fifo!FifoInit, boot

\* The linked lists of the Project 3 kernel, which only their tails end, implement FIFO
\* queues that also take a task at the front.
LEMMA RobotQueueAreFifo ==
  ASSUME RobotQueue!RoombaQueueAssumption
  PROVE  RobotQueue!Spec => RobotQueue!ImplementsFifo
<1>1. RobotQueue!Spec => RobotQueue!Fifo!FifoInit
      /\ [][RobotQueue!Fifo!FifoNext]_(RobotQueue!Fifo!fifo_vars)
  BY RobotQueueFifoInit, RobotQueueIInvStep, RobotQueueFifoStep, PTL DEF RobotQueue!Spec
<1> QED  BY <1>1 DEF RobotQueue!ImplementsFifo, RobotQueue!Fifo!FifoSpec

\* The lists of both kernels implement FIFO queues, and the size fields of Project 2 are
\* the lengths of its lists.
THEOREM QueuesAreFifo == MachinesSpec => ListsImplementFifo
<1>1. Queue!Spec => Queue!ImplementsFifo
  BY MachinesAssumption, QueueAreFifo
<1>2. Queue!Spec => []Queue!SizeIsLength
  BY MachinesAssumption, QueueSizesAre
<1>3. RobotQueue!Spec => RobotQueue!ImplementsFifo
  BY MachinesAssumption, RobotQueueAreFifo
<1> QED  BY QueueSpec, RobotQueueSpec, <1>1, <1>2, <1>3, PTL DEF ListsImplementFifo

-----------------------------------------------------------------------------
(* The queues of metadata of the robots (ReleaseQueue).                    *)

\* The lists stand for the sequences of list, a block is in one of them at most, once,
\* and the tail of a list is its last block, or none.
ReleaseLists(list) ==
  /\ Apart(list, blocks_outside)
  /\ \A q \in BlockQueues :
       /\ Chain(nextT, first_block[q], list[q])
       /\ last_block[q] = IF list[q] = <<>> THEN Releases!NULL ELSE list[q][Len(list[q])]

ReleaseTypeInv ==
  /\ first_block \in [BlockQueues -> Releases!Blocks \cup {Releases!NULL}]
  /\ last_block \in [BlockQueues -> Releases!Blocks \cup {Releases!NULL}]
  /\ nextT \in [Releases!Blocks -> Releases!Blocks \cup {Releases!NULL}]
  /\ blocks_outside \in SUBSET Releases!Blocks
  /\ release \in [Releases!Blocks -> 0 .. RELEASE_WORD - 1]
  /\ tick \in 0 .. RELEASE_WORD - 1

ReleaseIInv == ReleaseTypeInv
               /\ \E list \in [BlockQueues -> Seq(Releases!Blocks)] : ReleaseLists(list)

LEMMA ReleaseConstants ==
  ASSUME Releases!ReleaseQueueAssumption
  PROVE  /\ MAXPERIODICPRO \in Nat \ {0} /\ "periodic_dead_pool_queue" \in BlockQueues
         /\ Releases!Blocks = 1 .. MAXPERIODICPRO /\ Releases!NULL = 0
         /\ 0 \notin Releases!Blocks /\ RELEASE_WORD \in Nat \ {0}
BY DEF Releases!ReleaseQueueAssumption, Releases!Blocks, Releases!NULL

\* The sequence of a list is what its links lead through.
LEMMA ReleaseListIs ==
  ASSUME Releases!ReleaseQueueAssumption,
         NEW nx \in [Releases!Blocks -> Releases!Blocks \cup {Releases!NULL}], NEW b,
         NEW s \in Seq(Releases!Blocks),
         IsInjective(s), Chain(nx, b, s)
  PROVE  Releases!Linked(nx, MAXPERIODICPRO + 1)[b] = s
<1>0. \A links, m : Releases!Linked(links, m) = Linked(links, m)
  BY DEF Releases!Linked, Linked
<1>1. MAXPERIODICPRO \in Nat /\ MAXPERIODICPRO + 1 \in Nat
      /\ Releases!Blocks = 1 .. MAXPERIODICPRO /\ Releases!NULL = 0
      /\ 0 \notin Releases!Blocks
  BY ReleaseConstants
<1>2. Len(s) <= MAXPERIODICPRO /\ Len(s) \in Nat
  BY <1>1, ListFits
<1>3. Len(s) <= MAXPERIODICPRO + 1
  BY <1>1, <1>2
<1> QED  BY <1>0, <1>1, <1>3, LinkedChain

LEMMA ReleaseListsAre ==
  ASSUME Releases!ReleaseQueueAssumption, ReleaseTypeInv,
         NEW list \in [BlockQueues -> Seq(Releases!Blocks)], ReleaseLists(list)
  PROVE  [q \in BlockQueues |-> Releases!Walk(first_block[q])] = list
<1>1. ASSUME NEW q \in BlockQueues PROVE Releases!Walk(first_block[q]) = list[q]
  <2>1. nextT \in [Releases!Blocks -> Releases!Blocks \cup {Releases!NULL}]
        /\ IsInjective(list[q]) /\ Chain(nextT, first_block[q], list[q])
    BY DEF ReleaseTypeInv, ReleaseLists, Apart
  <2> QED  BY <2>1, ReleaseListIs DEF Releases!Walk
<1> QED  BY <1>1

LEMMA ReleaseListsInit ==
  ASSUME Releases!ReleaseQueueAssumption, Releases!Init
  PROVE  ReleaseTypeInv /\ ReleaseLists([q \in BlockQueues |->
           IF q = "periodic_dead_pool_queue" THEN [i \in 1 .. MAXPERIODICPRO |-> i]
           ELSE <<>>])
<1> DEFINE boot == [i \in 1 .. MAXPERIODICPRO |-> i]
           list == [q \in BlockQueues |->
                     IF q = "periodic_dead_pool_queue" THEN boot ELSE <<>>]
<1>0. MAXPERIODICPRO \in Nat \ {0} /\ Releases!Blocks = 1 .. MAXPERIODICPRO
      /\ Releases!NULL = 0 /\ "periodic_dead_pool_queue" \in BlockQueues
  BY ReleaseConstants
<1>1. ReleaseTypeInv
  <2>1. RELEASE_WORD \in Nat \ {0} /\ 0 \in 0 .. RELEASE_WORD - 1
    BY ReleaseConstants
  <2> QED  BY <1>0, <2>1 DEF Releases!Init, ReleaseTypeInv
<1>2. boot \in Seq(Releases!Blocks) /\ Len(boot) = MAXPERIODICPRO
      /\ DOMAIN boot = 1 .. MAXPERIODICPRO
      /\ (\A i \in 1 .. MAXPERIODICPRO : boot[i] = i) /\ <<>> \in Seq(Releases!Blocks)
         /\ boot # <<>>
  BY <1>0
<1>3. IsInjective(boot) /\ IsInjective(<<>>) /\ Range(<<>>) = {}
  BY <1>2 DEF IsInjective, Range
<1> HIDE DEF boot
<1>4. Chain(nextT, 1, boot) /\ Chain(nextT, 0, <<>>)
  <2>1. \A u \in 1 .. MAXPERIODICPRO : nextT[u] = IF u = MAXPERIODICPRO THEN 0 ELSE u + 1
    BY <1>0 DEF Releases!Init
  <2>2. ASSUME NEW i \in 1 .. Len(boot) PROVE nextT[boot[i]] = ElementAfter(boot, i)
    <3>1. i \in 1 .. MAXPERIODICPRO /\ boot[i] = i
          /\ (i # MAXPERIODICPRO => i + 1 \in 1 .. MAXPERIODICPRO)
      BY <1>0, <1>2
    <3> QED  BY <1>0, <1>2, <2>1, <3>1 DEF ElementAfter
  <2>3. ElementAfter(boot, 0) = 1
    BY <1>0, <1>2 DEF ElementAfter
  <2>4. Chain(nextT, 1, boot)
    BY <2>2, <2>3 DEF Chain
  <2> QED  BY <2>4 DEF Chain, ElementAfter
<1>5. Apart(list, blocks_outside)
  <2>1. blocks_outside = {}
    BY DEF Releases!Init
  <2> QED  BY <1>3, <2>1 DEF Apart
<1>6. \A q \in BlockQueues : /\ Chain(nextT, first_block[q], list[q])
                             /\ last_block[q] = IF list[q] = <<>> THEN Releases!NULL
                                ELSE list[q][Len(list[q])]
  BY <1>0, <1>2, <1>4 DEF Releases!Init
<1>7. ReleaseLists(list)
  BY <1>5, <1>6 DEF ReleaseLists
<1> QED  BY <1>1, <1>7 DEF boot

\* An addition of t to q at a place where the links allow for it.
LEMMA ReleaseListsPut ==
  ASSUME Releases!ReleaseQueueAssumption, ReleaseTypeInv,
         NEW list \in [BlockQueues -> Seq(Releases!Blocks)], ReleaseLists(list),
         NEW q \in BlockQueues, NEW t \in blocks_outside, NEW s \in Seq(Releases!Blocks),
         NEW i \in 1 .. Len(list[q]) + 1, Inserted(s, list[q], i, t),
         ReleaseTypeInv', blocks_outside' = blocks_outside \ {t},
         \A r \in BlockQueues : r # q =>
           first_block'[r] = first_block[r] /\ last_block'[r] = last_block[r],
         first_block'[q] = IF i = 1 THEN t ELSE first_block[q],
         last_block'[q] = IF i = Len(list[q]) + 1 THEN t ELSE last_block[q],
         nextT'[t] = ElementAfter(list[q], i - 1),
         i > 1 => nextT'[list[q][i - 1]] = t,
         \A u \in Releases!Blocks : u # t /\ (i > 1 => u # list[q][i - 1])
         => nextT'[u] = nextT[u]
  PROVE  ReleaseLists([list EXCEPT ![q] = s])'
<1> DEFINE after == [list EXCEPT ![q] = s]
           n == Len(list[q])
<1>1. /\ after \in [BlockQueues -> Seq(Releases!Blocks)] /\ after[q] = s
      /\ \A r \in BlockQueues : r # q => after[r] = list[r]
      /\ list[q] \in Seq(Releases!Blocks) /\ t \in Releases!Blocks /\ n \in Nat
      /\ i \in Nat
  BY DEF ReleaseTypeInv
<1>2. 0 \notin Releases!Blocks
  BY ReleaseConstants
<1>3. \A r \in BlockQueues : IsInjective(list[r]) /\ t \notin Range(list[r])
  BY DEF ReleaseLists, Apart
<1>4. IsInjective(s) /\ Range(s) = Range(list[q]) \cup {t}
  BY <1>1, <1>3, InsertedHolds
<1>5. Apart(after, blocks_outside \ {t})
  BY <1>4, ApartPut DEF ReleaseLists
<1> HIDE DEF after
<1>6. \A r \in BlockQueues : \A j \in 1 .. Len(list[r]) : list[r][j] \in Range(list[r])
      /\ list[r][j] \in Releases!Blocks
  <2> SUFFICES ASSUME NEW r \in BlockQueues, NEW j \in 1 .. Len(list[r])
               PROVE  list[r][j] \in Range(list[r]) /\ list[r][j] \in Releases!Blocks
    OBVIOUS
  <2>1. list[r] \in Seq(Releases!Blocks)
    OBVIOUS
  <2> QED  BY <2>1 DEF Range
<1>7. ASSUME NEW r \in BlockQueues, r # q PROVE Chain(nextT', first_block'[r], after[r])
  <2>1. ASSUME NEW j \in 1 .. Len(list[r]) PROVE nextT'[list[r][j]] = nextT[list[r][j]]
    <3>1. list[r][j] \in Range(list[r]) /\ list[r][j] \in Releases!Blocks
          /\ list[r][j] # t
      BY <1>3, <1>6
    <3>2. ASSUME i > 1 PROVE list[r][j] # list[q][i - 1]
      <4>1. i - 1 \in 1 .. Len(list[q])
        BY <1>1, <3>2
      <4>2. list[q][i - 1] \in Range(list[q])
        BY <1>6, <4>1
      <4> QED  BY <1>7, <3>1, <4>2 DEF ReleaseLists, Apart
    <3> QED  BY <3>1, <3>2
  <2>2. Chain(nextT, first_block[r], list[r])
    BY DEF ReleaseLists
  <2>3. first_block'[r] = first_block[r] /\ after[r] = list[r]
    BY <1>1, <1>7
  <2>4. Chain(nextT', first_block[r], list[r])
    BY <2>1, <2>2, ChainSame
  <2> QED  BY <2>3, <2>4
<1>8. Chain(nextT', first_block'[q], after[q])
  <2>1. ASSUME NEW j \in 1 .. n, j # i - 1 PROVE nextT'[list[q][j]] = nextT[list[q][j]]
    <3>1. list[q][j] \in Range(list[q]) /\ list[q][j] \in Releases!Blocks
          /\ list[q][j] # t
      BY <1>3, <1>6
    <3>2. ASSUME i > 1 PROVE list[q][j] # list[q][i - 1]
      <4>1. i - 1 \in DOMAIN list[q] /\ j \in DOMAIN list[q]
        BY <1>1, <3>2
      <4> QED  BY <1>3, <2>1, <4>1 DEF IsInjective
    <3> QED  BY <3>1, <3>2
  <2>2. Chain(nextT, first_block[q], list[q])
    BY DEF ReleaseLists
  <2> DEFINE old == list[q]
             ny == nextT'
             first == first_block[q]
  <2>3. /\ old \in Seq(Releases!Blocks) /\ t \in Releases!Blocks
        /\ i \in 1 .. Len(old) + 1 /\ Inserted(s, old, i, t)
        /\ Chain(nextT, first, old) /\ ny[t] = ElementAfter(old, i - 1)
        /\ (i > 1 => ny[old[i - 1]] = t)
        /\ \A j \in 1 .. Len(old) : j # i - 1 => ny[old[j]] = nextT[old[j]]
    BY <1>1, <2>1, <2>2
  <2> HIDE DEF old, ny, first
  <2>4. Chain(ny, IF i = 1 THEN t ELSE first, s)
    BY <1>2, <2>3, ChainInserted
  <2> QED  BY <1>1, <2>4 DEF ny, first
<1>9. Len(s) = n + 1 /\ s[n + 1] = IF i = n + 1 THEN t ELSE list[q][n]
  <2>1. n + 1 \in 1 .. n + 1 /\ (n + 1) - 1 = n
    BY <1>1
  <2> QED  BY <1>1, <2>1 DEF Inserted
<1>10. ASSUME NEW r \in BlockQueues
       PROVE  /\ Chain(nextT', first_block'[r], after[r])
              /\ last_block'[r] =
                   IF after[r] = <<>> THEN Releases!NULL ELSE after[r][Len(after[r])]
  <2>1. CASE r = q
    <3>1. i # n + 1 => list[q] # <<>>
      BY <1>1
    <3>2. list[q] # <<>> => last_block[q] = list[q][n]
      BY DEF ReleaseLists
    <3>3. s # <<>>
      BY <1>1, <1>9
    <3> QED  BY <1>1, <1>8, <1>9, <2>1, <3>1, <3>2, <3>3
  <2>2. CASE r # q
    BY <1>1, <1>7, <2>2 DEF ReleaseLists
  <2> QED  BY <2>1, <2>2
<1>11. ReleaseLists(after)'
  BY <1>5, <1>10 DEF ReleaseLists
<1> QED  BY <1>11 DEF after

\* What an operation, or a tick, does to the lists.
ReleaseDoes(before, after) ==
  \/ /\ after = before /\ blocks_outside' = blocks_outside /\ release' = release
     /\ tick' = (tick + 1) % RELEASE_WORD
  \/ /\ tick' = tick
     /\ \E q \in BlockQueues, b \in Releases!Blocks :
          \/ /\ b \in blocks_outside /\ blocks_outside' = blocks_outside \ {b}
             /\ \E r \in 0 .. RELEASE_WORD - 1 : release' = [release EXCEPT ![b] = r]
             /\ after = [before EXCEPT ![q] = InsertAt(before[q],
                Releases!Order!Place(before[q], b), b)]
          \/ /\ b \notin blocks_outside /\ blocks_outside' = blocks_outside \cup {b}
             /\ release' = release
             /\ before[q] # <<>> /\ Head(before[q]) = b
             /\ after = [before EXCEPT ![q] = Tail(before[q])]

\* The walk of periodic_enqueue stops where the order puts the block.
LEMMA ReleasePlaceIs ==
  ASSUME ReleaseTypeInv, NEW s \in Seq(Releases!Blocks), NEW b \in Releases!Blocks,
         b \notin Range(s),
         NEW r \in 0 .. RELEASE_WORD - 1, release' = [release EXCEPT ![b] = r]
  PROVE  /\ Releases!Order!Place(s, b) =
              IF Releases!FirstLater(s, r) = 0 THEN Len(s) + 1
              ELSE Releases!FirstLater(s, r)
         /\ Releases!FirstLater(s, r) \in 0 .. Len(s)
<1> DEFINE Remaining(x) == (x - tick) % RELEASE_WORD
           Left(x) == (release'[x] - tick) % RELEASE_WORD
           later == {i \in DOMAIN s : Remaining(r) < Remaining(release[s[i]])}
           after == {i \in DOMAIN s : Left(b) < Left(s[i])}
           least == CHOOSE i \in later : \A j \in later : i <= j
<1>1. DOMAIN s = 1 .. Len(s) /\ Len(s) \in Nat
  OBVIOUS
<1>2. release'[b] = r /\ \A i \in DOMAIN s : release'[s[i]] = release[s[i]]
  <2>1. \A i \in DOMAIN s : s[i] \in Releases!Blocks /\ s[i] # b
    BY <1>1 DEF Range
  <2> QED  BY <2>1 DEF ReleaseTypeInv
<1>3. after = later
  BY <1>2
<1>4. Releases!FirstLater(s, r) = IF later = {} THEN 0 ELSE least
  BY DEF Releases!FirstLater
<1>5. Releases!Order!Place(s, b) =
        IF after = {} THEN Len(s) + 1 ELSE CHOOSE i \in after : \A j \in after : i <= j
  BY DEF Releases!Order!Place
<1>6. Releases!Order!Place(s, b) = IF later = {} THEN Len(s) + 1 ELSE least
  <2> HIDE DEF after, later
  <2> QED  BY <1>3, <1>5
<1>7. ASSUME later # {} PROVE least \in 1 .. Len(s)
  <2>1. later \in SUBSET Nat /\ later \subseteq 1 .. Len(s)
    BY <1>1
  <2> HIDE DEF later
  <2>2. \E i \in later : \A j \in later : i <= j
    BY <1>7, <2>1, LeastOne
  <2>3. least \in later
    BY <2>2
  <2> QED  BY <2>1, <2>3
<1> HIDE DEF later, least
<1> QED  BY <1>1, <1>4, <1>6, <1>7

LEMMA ReleaseEnqueueDoes ==
  ASSUME Releases!ReleaseQueueAssumption, ReleaseTypeInv,
         NEW list \in [BlockQueues -> Seq(Releases!Blocks)], ReleaseLists(list),
         NEW q \in BlockQueues, NEW b \in Releases!Blocks,
         NEW r \in 0 .. RELEASE_WORD - 1, Releases!periodic_enqueue(q, b, r)
  PROVE  /\ ReleaseTypeInv'
         /\ \E after \in [BlockQueues -> Seq(Releases!Blocks)] : ReleaseLists(after)'
            /\ ReleaseDoes(list, after)
<1> DEFINE s == list[q]
           n == Len(s)
           i == Releases!FirstLater(s, r)
<1>1. /\ b \in blocks_outside /\ blocks_outside' = blocks_outside \ {b}
      /\ release' = [release EXCEPT ![b] = r]
      /\ tick' = tick
  BY DEF Releases!periodic_enqueue
<1>2. /\ s \in Seq(Releases!Blocks) /\ n \in Nat /\ 0 \notin Releases!Blocks
      /\ Releases!NULL = 0
      /\ Chain(nextT, first_block[q], s) /\ (s # <<>> => last_block[q] = s[n])
  BY ReleaseConstants DEF ReleaseLists
<1>3. Releases!Walk(first_block[q]) = s
  <2>1. [u \in BlockQueues |-> Releases!Walk(first_block[u])] = list
    BY ReleaseListsAre
  <2> QED  BY <2>1
<1>4. b \notin Range(s)
  BY <1>1 DEF ReleaseLists, Apart
<1>5. PICK place \in 1 .. n + 1 :
        /\ place = Releases!Order!Place(s, b)
        /\ place = (IF i = 0 THEN n + 1 ELSE i) /\ i \in 0 .. n
  <2>1. Releases!Order!Place(s, b) = (IF i = 0 THEN n + 1 ELSE i) /\ i \in 0 .. n
    BY <1>1, <1>2, <1>4, ReleasePlaceIs
  <2> HIDE DEF i
  <2> QED  BY <1>2, <2>1
<1> HIDE DEF i
<1> DEFINE p == InsertAt(s, place, b)
           after == [list EXCEPT ![q] = p]
<1>6. place \in 1 .. n + 1
  BY <1>5
<1>7. p \in Seq(Releases!Blocks) /\ Inserted(p, s, place, b)
  BY <1>2, <1>6, InsertedAt
<1>8. /\ (first_block[q] = Releases!NULL <=> n = 0)
         /\ (n # 0 => first_block[q] = s[1] /\ last_block[q] = s[n])
      /\ \A j \in 1 .. n : s[j] \in Releases!Blocks /\ s[j] # b
  <2>1. \A j \in 1 .. n : s[j] \in Releases!Blocks /\ s[j] # b
    BY <1>2, <1>4 DEF Range
  <2>2. CASE s = <<>>
    BY <1>2, <2>1, <2>2 DEF Chain, ElementAfter
  <2>3. CASE s # <<>>
    <3>1. n >= 1 /\ n # 0 /\ s[1] \in Releases!Blocks
      BY <1>2, <2>3
    <3>2. first_block[q] = s[1]
      BY <1>2, <3>1 DEF Chain, ElementAfter
    <3> QED  BY <1>2, <2>1, <2>3, <3>1, <3>2
  <2> QED  BY <2>2, <2>3
<1>9. \/ /\ n = 0 /\ place = 1
         /\ first_block' = [first_block EXCEPT ![q] = b]
         /\ last_block' = [last_block EXCEPT ![q] = b]
         /\ nextT' = [nextT EXCEPT ![b] = Releases!NULL]
      \/ /\ n # 0 /\ place = 1
         /\ first_block' = [first_block EXCEPT ![q] = b] /\ last_block' = last_block
         /\ nextT' = [nextT EXCEPT ![b] = s[1]]
      \/ /\ place > 1 /\ place <= n
         /\ first_block' = first_block /\ last_block' = last_block
         /\ nextT' = [nextT EXCEPT ![s[place - 1]] = b, ![b] = s[place]]
      \/ /\ n # 0 /\ place = n + 1
         /\ first_block' = first_block /\ last_block' = [last_block EXCEPT ![q] = b]
         /\ nextT' = [nextT EXCEPT ![s[n]] = b, ![b] = Releases!NULL]
  <2>1. \/ /\ first_block[q] = Releases!NULL
           /\ first_block' = [first_block EXCEPT ![q] = b]
           /\ last_block' = [last_block EXCEPT ![q] = b]
           /\ nextT' = [nextT EXCEPT ![b] = Releases!NULL]
        \/ /\ i = 1
           /\ first_block' = [first_block EXCEPT ![q] = b] /\ last_block' = last_block
           /\ nextT' = [nextT EXCEPT ![b] = s[1]]
        \/ /\ i > 1
           /\ first_block' = first_block /\ last_block' = last_block
           /\ nextT' = [nextT EXCEPT ![s[i - 1]] = b, ![b] = s[i]]
        \/ /\ first_block[q] # Releases!NULL /\ i = 0
           /\ first_block' = first_block /\ last_block' = [last_block EXCEPT ![q] = b]
           /\ nextT' = [nextT EXCEPT ![last_block[q]] = b, ![b] = Releases!NULL]
    <3> HIDE DEF s
    <3> QED  BY <1>3 DEF Releases!periodic_enqueue, Releases!EndLink, i
  <2> HIDE DEF s, n
  <2> QED  BY <1>2, <1>5, <1>8, <2>1
<1>10. /\ ReleaseTypeInv'
       /\ \A u \in BlockQueues : u # q => first_block'[u] = first_block[u]
          /\ last_block'[u] = last_block[u]
       /\ first_block'[q] = IF place = 1 THEN b ELSE first_block[q]
       /\ last_block'[q] = IF place = n + 1 THEN b ELSE last_block[q]
       /\ nextT'[b] = ElementAfter(s, place - 1)
       /\ place > 1 => nextT'[s[place - 1]] = b
       /\ \A u \in Releases!Blocks : u # b /\ (place > 1 => u # s[place - 1])
          => nextT'[u] = nextT[u]
  <2> HIDE DEF s
  <2>0. /\ release' \in [Releases!Blocks -> 0 .. RELEASE_WORD - 1]
        /\ blocks_outside' \in SUBSET Releases!Blocks
        /\ tick' \in 0 .. RELEASE_WORD - 1
    BY <1>1 DEF ReleaseTypeInv
  <2>1. CASE /\ n = 0 /\ place = 1
             /\ first_block' = [first_block EXCEPT ![q] = b]
             /\ last_block' = [last_block EXCEPT ![q] = b]
             /\ nextT' = [nextT EXCEPT ![b] = Releases!NULL]
    BY <1>2, <2>0, <2>1 DEF ReleaseTypeInv, ElementAfter
  <2>2. CASE /\ n # 0 /\ place = 1
             /\ first_block' = [first_block EXCEPT ![q] = b] /\ last_block' = last_block
             /\ nextT' = [nextT EXCEPT ![b] = s[1]]
    <3>1. s[1] \in Releases!Blocks /\ place # n + 1 /\ ElementAfter(s, place - 1) = s[1]
          /\ ~(place > 1)
      <4>1. 1 \in 1 .. n
        BY <1>2, <2>2
      <4> QED  BY <1>2, <1>8, <2>2, <4>1 DEF ElementAfter
    <3> HIDE DEF n
    <3> QED  BY <2>0, <2>2, <3>1 DEF ReleaseTypeInv
  <2>3. CASE /\ place > 1 /\ place <= n
             /\ first_block' = first_block /\ last_block' = last_block
             /\ nextT' = [nextT EXCEPT ![s[place - 1]] = b, ![b] = s[place]]
    <3>1. /\ s[place] \in Releases!Blocks /\ place # n + 1
          /\ ElementAfter(s, place - 1) = s[place] /\ place # 1
          /\ s[place - 1] \in Releases!Blocks /\ s[place - 1] # b
      <4>1. place \in 1 .. n /\ place - 1 \in 1 .. n /\ place - 1 # n
            /\ (place - 1) + 1 = place /\ place # n + 1 /\ place # 1
        BY <1>2, <1>6, <2>3
      <4> QED  BY <1>2, <1>8, <4>1 DEF ElementAfter
    <3> DEFINE prev == s[place - 1]
    <3> HIDE DEF n, prev
    <3>2. nextT' \in [Releases!Blocks -> Releases!Blocks \cup {Releases!NULL}]
      BY <2>3, <3>1 DEF ReleaseTypeInv, prev
    <3>3. /\ nextT'[b] = s[place] /\ nextT'[prev] = b
          /\ \A u \in Releases!Blocks : u # b /\ u # prev => nextT'[u] = nextT[u]
      BY <2>3, <3>1 DEF ReleaseTypeInv, prev
    <3> QED  BY <2>0, <2>3, <3>1, <3>2, <3>3 DEF ReleaseTypeInv, prev
  <2>4. CASE /\ n # 0 /\ place = n + 1
             /\ first_block' = first_block /\ last_block' = [last_block EXCEPT ![q] = b]
             /\ nextT' = [nextT EXCEPT ![s[n]] = b, ![b] = Releases!NULL]
    <3>1. s[n] \in Releases!Blocks /\ s[n] # b /\ place # 1
          /\ ElementAfter(s, place - 1) = 0 /\ place - 1 = n
      <4>1. n \in 1 .. n /\ n + 1 # 1 /\ (n + 1) - 1 = n
        BY <1>2, <2>4
      <4> QED  BY <1>2, <1>8, <2>4, <4>1 DEF ElementAfter
    <3> DEFINE last == s[n]
    <3>2. nextT' = [nextT EXCEPT ![last] = b, ![b] = Releases!NULL]
          /\ last \in Releases!Blocks /\ last # b /\ s[place - 1] = last
      BY <2>4, <3>1
    <3> HIDE DEF n, last
    <3>3. nextT' \in [Releases!Blocks -> Releases!Blocks \cup {Releases!NULL}]
      BY <3>2 DEF ReleaseTypeInv
    <3>4. /\ nextT'[b] = Releases!NULL /\ nextT'[last] = b
          /\ \A u \in Releases!Blocks : u # b /\ u # last => nextT'[u] = nextT[u]
      BY <3>2 DEF ReleaseTypeInv
    <3>5. first_block'[q] = first_block[q] /\ last_block'[q] = b
          /\ (\A u \in BlockQueues : u # q => first_block'[u] = first_block[u]
             /\ last_block'[u] = last_block[u])
          /\ first_block' \in [BlockQueues -> Releases!Blocks \cup {Releases!NULL}]
          /\ last_block' \in [BlockQueues -> Releases!Blocks \cup {Releases!NULL}]
      BY <2>4 DEF ReleaseTypeInv
    <3>6. ReleaseTypeInv'
      BY <2>0, <3>3, <3>5 DEF ReleaseTypeInv
    <3>7. place > 1 /\ place = n + 1
      BY <1>2, <2>4
    <3> QED  BY <1>2, <3>1, <3>2, <3>4, <3>5, <3>6, <3>7
  <2> HIDE DEF n
  <2> QED  BY <1>9, <2>1, <2>2, <2>3, <2>4
<1> HIDE DEF p
<1>11. ReleaseLists(after)'
  BY <1>1, <1>6, <1>7, <1>10, ReleaseListsPut
<1>12. after \in [BlockQueues -> Seq(Releases!Blocks)]
  BY <1>7
<1>13. ReleaseDoes(list, after)
  BY <1>1, <1>5 DEF ReleaseDoes, p
<1> QED  BY <1>10, <1>11, <1>12, <1>13

LEMMA ReleaseDequeueDoes ==
  ASSUME Releases!ReleaseQueueAssumption, ReleaseTypeInv,
         NEW list \in [BlockQueues -> Seq(Releases!Blocks)], ReleaseLists(list),
         NEW q \in BlockQueues, Releases!periodic_dequeue(q)
  PROVE  /\ ReleaseTypeInv'
         /\ \E after \in [BlockQueues -> Seq(Releases!Blocks)] : ReleaseLists(after)'
            /\ ReleaseDoes(list, after)
<1> DEFINE s == list[q]
           n == Len(s)
           t == Head(s)
           after == [list EXCEPT ![q] = Tail(s)]
<1>1. /\ s \in Seq(Releases!Blocks) /\ n \in Nat /\ 0 \notin Releases!Blocks
      /\ Releases!NULL = 0
      /\ Chain(nextT, first_block[q], s) /\ (s # <<>> => last_block[q] = s[n])
  BY ReleaseConstants DEF ReleaseLists
<1>2. s # <<>> /\ n >= 1 /\ first_block[q] = s[1] /\ t = s[1] /\ t \in Releases!Blocks
      /\ n \in 1 .. n /\ 1 \in 1 .. n
  <2>1. s # <<>>
    <3> SUFFICES ASSUME s = <<>> PROVE FALSE
      OBVIOUS
    <3>1. first_block[q] = 0
      BY <1>1 DEF Chain, ElementAfter
    <3> QED  BY <1>1, <3>1 DEF Releases!periodic_dequeue
  <2>2. n >= 1 /\ n # 0 /\ s[1] \in Releases!Blocks /\ t = s[1] /\ n \in 1 .. n
        /\ 1 \in 1 .. n
    BY <1>1, <2>1
  <2>3. first_block[q] = s[1]
    BY <1>1, <2>2 DEF Chain, ElementAfter
  <2> QED  BY <2>1, <2>2, <2>3
<1>3. last_block[q] = first_block[q] <=> n = 1
  <2>1. \A j, k \in 1 .. n : s[j] = s[k] => j = k
    BY <1>1 DEF ReleaseLists, Apart, IsInjective
  <2> QED  BY <1>1, <1>2, <2>1
<1>4. nextT[t] \in Releases!Blocks \cup {Releases!NULL}
  <2> HIDE DEF t
  <2> QED  BY <1>2 DEF ReleaseTypeInv
<1>5. /\ first_block' = [first_block EXCEPT ![q] =
           IF n = 1 THEN Releases!NULL ELSE nextT[t]] /\ nextT' = nextT
      /\ last_block' = (IF n = 1 THEN [last_block EXCEPT ![q] = Releases!NULL]
         ELSE last_block) /\ blocks_outside' = blocks_outside \cup {t}
      /\ release' = release /\ tick' = tick
  <2> HIDE DEF n, t
  <2> QED  BY <1>2, <1>3 DEF Releases!periodic_dequeue
<1>6. ReleaseTypeInv'
  <2> HIDE DEF t, n
  <2> QED  BY <1>2, <1>4, <1>5 DEF ReleaseTypeInv
<1>7. /\ t \notin blocks_outside /\ Tail(s) \in Seq(Releases!Blocks)
      /\ Apart(after, blocks_outside \cup {t})
  BY <1>2, ApartTake DEF ReleaseLists
<1>8. /\ after \in [BlockQueues -> Seq(Releases!Blocks)] /\ after[q] = Tail(s)
      /\ \A r \in BlockQueues : r # q => after[r] = list[r]
  BY <1>7
<1>9. Len(Tail(s)) = n - 1 /\ \A j \in 1 .. n - 1 : Tail(s)[j] = s[j + 1]
  BY <1>1, <1>2, SeqEnds
<1> HIDE DEF after
<1>10. ASSUME NEW r \in BlockQueues, r # q
       PROVE  /\ Chain(nextT', first_block'[r], after[r])
              /\ last_block'[r] =
                   IF after[r] = <<>> THEN Releases!NULL ELSE after[r][Len(after[r])]
  <2>1. first_block'[r] = first_block[r] /\ last_block'[r] = last_block[r]
        /\ nextT' = nextT
    <3> HIDE DEF t, n
    <3> QED  BY <1>5, <1>10 DEF ReleaseTypeInv
  <2> QED  BY <1>8, <1>10, <2>1 DEF ReleaseLists
<1>11. CASE n = 1
  <2>1. Tail(s) = <<>>
    <3>1. Len(Tail(s)) = 0
      BY <1>9, <1>11
    <3> DEFINE rest == Tail(s)
    <3>2. rest \in Seq(Releases!Blocks) /\ Len(rest) = 0
      BY <1>7, <3>1
    <3> HIDE DEF rest
    <3>3. rest = <<>>
      BY <3>2
    <3> QED  BY <3>3 DEF rest
  <2>2. first_block'[q] = 0 /\ last_block'[q] = 0
    <3> HIDE DEF n, t
    <3> QED  BY <1>1, <1>5, <1>11 DEF ReleaseTypeInv
  <2>3. Chain(nextT', 0, <<>>)
    BY DEF Chain, ElementAfter
  <2>4. ReleaseLists(after)'
    BY <1>1, <1>5, <1>7, <1>8, <1>10, <2>1, <2>2, <2>3 DEF ReleaseLists
  <2> QED  BY <1>2, <1>5, <1>6, <1>7, <1>8, <2>4 DEF ReleaseDoes, after
<1>12. CASE n # 1
  <2>1. first_block'[q] = nextT[first_block[q]] /\ last_block'[q] = last_block[q]
    <3> HIDE DEF n, t
    <3> QED  BY <1>2, <1>4, <1>5, <1>12 DEF ReleaseTypeInv
  <2>2. Chain(nextT, nextT[first_block[q]], Tail(s))
    <3> QED  BY <1>1, <1>2, ChainTail
  <2>3. nextT' = nextT
    BY <1>5
  <2>4. Tail(s) # <<>> /\ s[n] = Tail(s)[n - 1]
    <3>1. n - 1 # 0 /\ n - 1 \in 1 .. n - 1 /\ (n - 1) + 1 = n
      <4>1. \A m \in Nat : m >= 1 /\ m # 1 => m - 1 # 0 /\ m - 1 \in 1 .. m - 1
            /\ (m - 1) + 1 = m
        OBVIOUS
      <4> QED  BY <1>1, <1>2, <1>12, <4>1
    <3> QED  BY <1>9, <3>1
  <2>5. /\ Chain(nextT', first_block'[q], after[q])
        /\ last_block'[q] =
             IF after[q] = <<>> THEN Releases!NULL ELSE after[q][Len(after[q])]
    <3> QED  BY <1>1, <1>2, <1>8, <1>9, <2>1, <2>2, <2>3, <2>4
  <2>6. ReleaseLists(after)'
    <3> HIDE DEF s, n, t
    <3> QED  BY <1>5, <1>7, <1>10, <2>5 DEF ReleaseLists
  <2> QED  BY <1>2, <1>5, <1>6, <1>7, <1>8, <2>6 DEF ReleaseDoes, after
<1> QED  BY <1>11, <1>12

LEMMA ReleaseNextDoes ==
  ASSUME Releases!ReleaseQueueAssumption, ReleaseTypeInv,
         NEW list \in [BlockQueues -> Seq(Releases!Blocks)], ReleaseLists(list),
         Releases!Next
  PROVE  /\ ReleaseTypeInv'
         /\ \E after \in [BlockQueues -> Seq(Releases!Blocks)] : ReleaseLists(after)'
            /\ ReleaseDoes(list, after)
<1>1. CASE Releases!TIMER_EXPIRED
  <2>1. /\ tick' = (tick + 1) % RELEASE_WORD
        /\ UNCHANGED <<first_block, last_block, nextT, release, blocks_outside>>
    BY <1>1 DEF Releases!TIMER_EXPIRED
  <2>2. ReleaseTypeInv'
    <3>1. \A m \in 0 .. RELEASE_WORD - 1
            : (m + 1) % RELEASE_WORD \in 0 .. RELEASE_WORD - 1
      BY ReleaseConstants
    <3> QED  BY <2>1, <3>1 DEF ReleaseTypeInv
  <2>3. ReleaseLists(list)' /\ ReleaseDoes(list, list)
    BY <2>1 DEF ReleaseLists, ReleaseDoes
  <2> QED  BY <2>2, <2>3
<1>2. CASE \E q \in BlockQueues : Releases!periodic_dequeue(q)
  BY <1>2, ReleaseDequeueDoes
<1>3. CASE \E q \in BlockQueues, b \in Releases!Blocks,
           r \in 0 .. RELEASE_WORD - 1 : Releases!periodic_enqueue(q, b, r)
  BY <1>3, ReleaseEnqueueDoes
<1> QED  BY <1>1, <1>2, <1>3 DEF Releases!Next

LEMMA ReleaseIInvStep ==
  ASSUME Releases!ReleaseQueueAssumption, ReleaseIInv, [Releases!Next]_(Releases!vars)
  PROVE  ReleaseIInv'
<1>1. CASE Releases!Next
  BY <1>1, ReleaseNextDoes DEF ReleaseIInv
<1>2. CASE UNCHANGED Releases!vars
  BY <1>2 DEF Releases!vars, ReleaseIInv, ReleaseTypeInv, ReleaseLists
<1> QED  BY <1>1, <1>2

LEMMA ReleaseOrderStep ==
  ASSUME Releases!ReleaseQueueAssumption, ReleaseIInv, [Releases!Next]_(Releases!vars)
  PROVE  [Releases!Order!OrderNext]_(Releases!Order!order_vars)
<1>1. PICK list \in [BlockQueues -> Seq(Releases!Blocks)] : ReleaseLists(list)
  BY DEF ReleaseIInv
<1>2. [q \in BlockQueues |-> Releases!Walk(first_block[q])] = list /\ ReleaseTypeInv
  BY <1>1, ReleaseListsAre DEF ReleaseIInv
<1>3. CASE Releases!Next
  <2>1. PICK after \in [BlockQueues -> Seq(Releases!Blocks)] : ReleaseTypeInv'
             /\ ReleaseLists(after)' /\ ReleaseDoes(list, after)
    BY <1>1, <1>2, <1>3, ReleaseNextDoes
  <2>2. [q \in BlockQueues |-> Releases!Walk(first_block[q])]' = after
    <3>1. \A nx, b, s : nx \in [Releases!Blocks -> Releases!Blocks \cup {Releases!NULL}]
          /\ s \in Seq(Releases!Blocks)
                        /\ IsInjective(s) /\ Chain(nx, b, s)
                        => Releases!Linked(nx, MAXPERIODICPRO + 1)[b] = s
      BY ReleaseListIs
    <3>2. ASSUME NEW q \in BlockQueues PROVE Releases!Walk(first_block[q])' = after[q]
      <4>1. /\ nextT' \in [Releases!Blocks -> Releases!Blocks \cup {Releases!NULL}]
            /\ IsInjective(after[q])
            /\ Chain(nextT', first_block'[q], after[q])
            /\ after[q] \in Seq(Releases!Blocks)
        BY <2>1 DEF ReleaseTypeInv, ReleaseLists, Apart
      <4>2. Releases!Walk(first_block[q])' = Releases!Linked(nextT',
            MAXPERIODICPRO + 1)[first_block'[q]]
        BY DEF Releases!Walk
      <4> QED  BY <3>1, <4>1, <4>2
    <3> QED  BY <3>2
  <2>3. CASE /\ after = list /\ blocks_outside' = blocks_outside /\ release' = release
             /\ tick' = (tick + 1) % RELEASE_WORD
    <3>1. Releases!Order!Tick
      BY <1>2, <2>2, <2>3 DEF Releases!Order!Tick
    <3> QED  BY <3>1 DEF Releases!Order!OrderNext
  <2>4. ASSUME tick' = tick, NEW q \in BlockQueues, NEW b \in Releases!Blocks,
               b \in blocks_outside, blocks_outside' = blocks_outside \ {b},
               NEW r \in 0 .. RELEASE_WORD - 1, release' = [release EXCEPT ![b] = r],
               after = [list EXCEPT ![q] = InsertAt(list[q],
               Releases!Order!Place(list[q], b), b)]
        PROVE  Releases!Order!OrderNext
    <3>1. Releases!Order!Insert(q, b, r)
      BY <1>2, <2>2, <2>4 DEF Releases!Order!Insert, Releases!Order!InsertAt, InsertAt
    <3> QED  BY <3>1 DEF Releases!Order!OrderNext
  <2>5. ASSUME tick' = tick, NEW q \in BlockQueues, NEW b \in Releases!Blocks,
               b \notin blocks_outside, blocks_outside' = blocks_outside \cup {b},
               release' = release,
               list[q] # <<>>, Head(list[q]) = b,
               after = [list EXCEPT ![q] = Tail(list[q])]
        PROVE  Releases!Order!OrderNext
    <3>1. Releases!Order!TakeFirst(q, b)
      BY <1>2, <2>2, <2>5 DEF Releases!Order!TakeFirst
    <3> QED  BY <3>1 DEF Releases!Order!OrderNext
  <2> QED  BY <2>1, <2>3, <2>4, <2>5 DEF ReleaseDoes
<1>4. CASE UNCHANGED Releases!vars
  BY <1>4 DEF Releases!vars, Releases!Order!order_vars, Releases!Walk
<1> QED  BY <1>3, <1>4

LEMMA ReleaseOrderInit ==
  ASSUME Releases!ReleaseQueueAssumption, Releases!Init
  PROVE  ReleaseIInv /\ Releases!Order!OrderInit
<1> DEFINE boot == [i \in 1 .. MAXPERIODICPRO |-> i]
           list == [q \in BlockQueues |->
                     IF q = "periodic_dead_pool_queue" THEN boot ELSE <<>>]
<1>1. ReleaseTypeInv /\ ReleaseLists(list)
  BY ReleaseListsInit
<1>2. list \in [BlockQueues -> Seq(Releases!Blocks)]
  <2>1. boot \in Seq(Releases!Blocks) /\ <<>> \in Seq(Releases!Blocks)
    BY ReleaseConstants
  <2> QED  BY <2>1
<1> HIDE DEF boot
<1>3. [q \in BlockQueues |-> Releases!Walk(first_block[q])] = list
  BY <1>1, <1>2, ReleaseListsAre
<1> QED  BY <1>1, <1>2, <1>3
     DEF ReleaseIInv, Releases!Init, Releases!Order!OrderInit, boot

\* The linked lists of metadata keep their blocks in the order of release.
LEMMA ReleaseAreInOrder ==
  ASSUME Releases!ReleaseQueueAssumption PROVE Releases!Spec => Releases!ImplementsOrder
<1>1. Releases!Spec => Releases!Order!OrderInit
      /\ [][Releases!Order!OrderNext]_(Releases!Order!order_vars)
  BY ReleaseOrderInit, ReleaseIInvStep, ReleaseOrderStep, PTL DEF Releases!Spec
<1> QED  BY <1>1 DEF Releases!ImplementsOrder, Releases!Order!OrderSpec

\* The release queue and the free list keep their blocks in the order in which they were
\* due when they were put in.
THEOREM BlocksAreInOrder == MachinesSpec => BlocksInOrder
<1>1. Releases!Spec => Releases!ImplementsOrder
  BY MachinesAssumption, ReleaseAreInOrder
<1> QED  BY ReleasesSpec, <1>1, PTL DEF BlocksInOrder

-----------------------------------------------------------------------------
(* The clock of Project 2 (RtosClock).                                     *)

\* The ticks that the timer has requested, counted or not, and its count are the time.
ClockRequested == (ticks_since_boot + (IF OCF1A THEN 1 ELSE 0)) % CLOCK_WORD
ClockIInv ==
  /\ ticks_since_boot \in 0 .. CLOCK_WORD - 1 /\ TCNT1 \in 0 .. Clock!OCR1A
  /\ OCF1A \in BOOLEAN
  /\ time = (Clock!OCR1A + 1) * ClockRequested + TCNT1

LEMMA ClockConstants ==
  ASSUME Clock!ClockAssumption
  PROVE  /\ TICK \in Nat \ {0} /\ CYCLES_PER_MS \in Nat \ {0} /\ CLOCK_WORD \in Nat \ {0}
         /\ Clock!OCR1A \in Nat \ {0} /\ Clock!OCR1A = TICK * CYCLES_PER_MS
         /\ Clock!HALF_MS \in Nat
         /\ Clock!Wrap \in Nat \ {0} /\ Clock!Cycles \in Nat \ {0}
<1>1. TICK \in Nat \ {0} /\ CYCLES_PER_MS \in Nat \ {0} /\ CLOCK_WORD \in Nat \ {0}
  BY DEF Clock!ClockAssumption
<1>2. \A a, b \in Nat \ {0} : a * b \in Nat \ {0}
  OBVIOUS
<1>3. Clock!OCR1A \in Nat \ {0} /\ Clock!OCR1A = TICK * CYCLES_PER_MS
  BY <1>1, <1>2 DEF Clock!OCR1A, Clock!TICK_CYCLES
<1>4. Clock!HALF_MS \in Nat
  <2>1. Clock!TICK_CYCLES \in Nat /\ TICK * 2 \in Nat \ {0}
    BY <1>1, <1>3 DEF Clock!TICK_CYCLES
  <2>2. \A a \in Nat, b \in Nat \ {0} : a \div b \in Nat
    OBVIOUS
  <2> QED  BY <2>1, <2>2 DEF Clock!HALF_MS
<1>5. Clock!Wrap \in Nat \ {0} /\ Clock!Cycles \in Nat \ {0}
  <2>1. Clock!OCR1A + 1 \in Nat \ {0}
    BY <1>3
  <2> QED  BY <1>1, <1>2, <2>1 DEF Clock!Wrap, Clock!Cycles
<1> QED  BY <1>1, <1>3, <1>4, <1>5

LEMMA ClockInit ==
  ASSUME Clock!ClockAssumption, Clock!Init PROVE ClockIInv
<1>1. 0 \in 0 .. CLOCK_WORD - 1 /\ CLOCK_WORD \in Nat \ {0} /\ Clock!OCR1A \in Nat
  BY ClockConstants
<1>2. 0 % CLOCK_WORD = 0
  BY <1>1, OwnRemainder
<1>3. ClockRequested = 0
  BY <1>2 DEF Clock!Init, ClockRequested
<1>4. (Clock!OCR1A + 1) * 0 + 0 = 0
  BY <1>1
<1>5. time = 0 /\ TCNT1 = 0 /\ ticks_since_boot = 0 /\ OCF1A = FALSE
  BY DEF Clock!Init
<1>6. time = (Clock!OCR1A + 1) * ClockRequested + TCNT1
  BY <1>3, <1>4, <1>5
<1>7. ticks_since_boot \in 0 .. CLOCK_WORD - 1 /\ TCNT1 \in 0 .. Clock!OCR1A
      /\ OCF1A \in BOOLEAN
  <2>1. 0 \in 0 .. Clock!OCR1A
    BY <1>1
  <2>2. OCF1A \in BOOLEAN
    BY <1>5
  <2> QED  BY <1>1, <1>5, <2>1, <2>2
<1> QED  BY <1>6, <1>7 DEF ClockIInv

LEMMA CycleKeeps ==
  ASSUME Clock!ClockAssumption, ClockIInv, Clock!Cycle PROVE ClockIInv'
<1> DEFINE P == Clock!OCR1A + 1
           T == ClockRequested
<1>0. /\ CLOCK_WORD \in Nat \ {0} /\ Clock!OCR1A \in Nat \ {0} /\ P \in Nat \ {0}
      /\ Clock!Cycles = CLOCK_WORD * P
      /\ Clock!Cycles \in Nat \ {0} /\ ticks_since_boot \in 0 .. CLOCK_WORD - 1
      /\ TCNT1 \in 0 .. Clock!OCR1A
      /\ time = P * T + TCNT1 /\ OCF1A \in BOOLEAN
  BY ClockConstants DEF ClockIInv, Clock!Cycles
<1>1. T \in 0 .. CLOCK_WORD - 1
  <2>1. ticks_since_boot + (IF OCF1A THEN 1 ELSE 0) \in Int
    BY <1>0
  <2> QED  BY <1>0, <2>1, Quotient DEF ClockRequested
<1>2. /\ ~(OCF1A /\ TCNT1 = Clock!OCR1A) /\ TCNT1' = (TCNT1 + 1) % P
      /\ OCF1A' = (OCF1A \/ TCNT1 = Clock!OCR1A)
      /\ time' = (time + 1) % Clock!Cycles /\ ticks_since_boot' = ticks_since_boot
  BY DEF Clock!Cycle
<1>3. CASE TCNT1 # Clock!OCR1A
  <2>1. TCNT1 + 1 \in 0 .. P - 1
    BY <1>0, <1>3
  <2>2. TCNT1' = TCNT1 + 1 /\ OCF1A' = OCF1A
    BY <1>0, <1>2, <1>3, <2>1, OwnRemainder
  <2>3. ClockRequested' = ClockRequested
    BY <1>2, <2>2 DEF ClockRequested
  <2> HIDE DEF T, P
  <2>4. time + 1 \in 0 .. Clock!Cycles - 1
    <3>1. P * T + P <= CLOCK_WORD * P /\ P * T >= 0
      <4>1. CLOCK_WORD - T - 1 \in Nat
        BY <1>0, <1>1
      <4>2. P * (CLOCK_WORD - T - 1) >= 0
        BY <1>0, <4>1
      <4>3. P * (CLOCK_WORD - T - 1) = P * CLOCK_WORD - P * T - P
        BY <1>0, <1>1
      <4>4. P * T >= 0 /\ P * CLOCK_WORD = CLOCK_WORD * P
        BY <1>0, <1>1
      <4> QED  BY <1>0, <1>1, <4>2, <4>3, <4>4
    <3>2. P * T \in Int /\ P = Clock!OCR1A + 1
      BY <1>0, <1>1 DEF P
    <3> QED  BY <1>0, <2>1, <3>1, <3>2
  <2>5. time' = time + 1
    BY <1>0, <1>2, <2>4, OwnRemainder
  <2>6. time' = P * T + TCNT1'
    BY <1>0, <1>1, <2>2, <2>5
  <2> USE DEF T, P
  <2>7. Clock!OCR1A' = Clock!OCR1A
    BY DEF Clock!OCR1A, Clock!TICK_CYCLES
  <2> QED  BY <1>0, <1>2, <2>1, <2>2, <2>3, <2>6, <2>7 DEF ClockIInv
<1>4. CASE TCNT1 = Clock!OCR1A
  <2>1. ~OCF1A /\ OCF1A'
    BY <1>0, <1>2, <1>4
  <2>2. T = ticks_since_boot
    BY <1>0, <2>1, OwnRemainder DEF ClockRequested
  <2>3. ClockRequested' = (T + 1) % CLOCK_WORD
    BY <1>2, <2>1, <2>2 DEF ClockRequested
  <2>4. TCNT1' = 0
    <3>1. TCNT1 + 1 = P * 1 + 0 /\ 0 \in 0 .. P - 1 /\ 1 \in Int
      BY <1>0, <1>4
    <3> QED  BY <1>0, <1>2, <3>1, OneQuotient
  <2> HIDE DEF T
  <2>5. time' = P * ((T + 1) % CLOCK_WORD)
    <3> HIDE DEF P
    <3>1. time + 1 = P * (T + 1)
      <4>1. P = Clock!OCR1A + 1
        BY DEF P
      <4>2. P * (T + 1) = P * T + P
        BY <1>0, <1>1
      <4>3. P * T \in Int
        BY <1>0, <1>1
      <4> QED  BY <1>0, <1>4, <4>1, <4>2, <4>3
    <3>2. CASE T = CLOCK_WORD - 1
      <4>1. T + 1 = CLOCK_WORD * 1 + 0 /\ 0 \in 0 .. CLOCK_WORD - 1 /\ 1 \in Int
        BY <1>0, <3>2
      <4>2. (T + 1) % CLOCK_WORD = 0
        BY <1>0, <4>1, OneQuotient
      <4>3. time + 1 = Clock!Cycles * 1 + 0 /\ 0 \in 0 .. Clock!Cycles - 1
        BY <1>0, <3>1, <3>2
      <4>4. time' = 0
        BY <1>0, <1>2, <4>1, <4>3, OneQuotient
      <4>5. P * 0 = 0
        BY <1>0
      <4> QED  BY <4>2, <4>4, <4>5
    <3>3. CASE T # CLOCK_WORD - 1
      <4>1. T + 1 \in 0 .. CLOCK_WORD - 1
        BY <1>0, <1>1, <3>3
      <4>2. (T + 1) % CLOCK_WORD = T + 1
        BY <1>0, <4>1, OwnRemainder
      <4>3. time + 1 \in 0 .. Clock!Cycles - 1
        <5>1. CLOCK_WORD - (T + 1) \in Nat \ {0} /\ T + 1 \in Nat
          BY <1>0, <4>1
        <5>2. P * (CLOCK_WORD - (T + 1)) \in Nat \ {0} /\ P * (T + 1) \in Nat
          BY <1>0, <5>1
        <5>3. P * (CLOCK_WORD - (T + 1)) = P * CLOCK_WORD - P * (T + 1)
              /\ P * CLOCK_WORD = CLOCK_WORD * P
          BY <1>0, <1>1
        <5> QED  BY <1>0, <3>1, <5>2, <5>3
      <4> QED  BY <1>0, <1>2, <3>1, <4>2, <4>3, OwnRemainder
    <3> QED  BY <3>2, <3>3
  <2>6. Clock!OCR1A' = Clock!OCR1A /\ (T + 1) % CLOCK_WORD \in 0 .. CLOCK_WORD - 1
    <3>1. Clock!OCR1A' = Clock!OCR1A
      BY DEF Clock!OCR1A, Clock!TICK_CYCLES
    <3>2. T + 1 \in Int
      BY <1>0, <1>1
    <3> QED  BY <1>0, <3>1, <3>2, Quotient
  <2>7. P * ((T + 1) % CLOCK_WORD) + 0 = P * ((T + 1) % CLOCK_WORD)
    BY <1>0, <2>6
  <2> QED  BY <1>0, <1>2, <2>1, <2>3, <2>4, <2>5, <2>6, <2>7 DEF ClockIInv
<1> QED  BY <1>3, <1>4

LEMMA TickCounted ==
  ASSUME Clock!ClockAssumption, ClockIInv, Clock!TIMER1_COMPA PROVE ClockIInv'
<1>0. CLOCK_WORD \in Nat \ {0} /\ ticks_since_boot \in 0 .. CLOCK_WORD - 1
      /\ Clock!OCR1A' = Clock!OCR1A
  BY ClockConstants DEF ClockIInv, Clock!OCR1A, Clock!TICK_CYCLES
<1>1. /\ OCF1A /\ ~OCF1A' /\ OCF1A' \in BOOLEAN
      /\ ticks_since_boot' = (ticks_since_boot + 1) % CLOCK_WORD
      /\ UNCHANGED <<TCNT1, time>>
  BY DEF Clock!TIMER1_COMPA
<1>2. ticks_since_boot' \in 0 .. CLOCK_WORD - 1
  BY <1>0, <1>1, Quotient
<1>3. ticks_since_boot' % CLOCK_WORD = ticks_since_boot'
  BY <1>0, <1>2, OwnRemainder
<1>4. ClockRequested' = ClockRequested
  BY <1>0, <1>1, <1>2, <1>3 DEF ClockRequested
<1> QED  BY <1>0, <1>1, <1>2, <1>4 DEF ClockIInv

LEMMA ClockStep ==
  ASSUME Clock!ClockAssumption, ClockIInv, [Clock!Next]_(Clock!vars) PROVE ClockIInv'
<1>1. CASE UNCHANGED <<TCNT1, OCF1A, ticks_since_boot, time>>
  BY <1>1 DEF ClockIInv, ClockRequested, Clock!OCR1A, Clock!TICK_CYCLES
<1> QED
  BY <1>1, CycleKeeps, TickCounted
     DEF Clock!Next, Clock!enter_kernel, Clock!exit_kernel, Clock!Disable_Interrupt,
         Clock!Now, Clock!vars

\* How the reading of Now differs from the time.
LEMMA ClockReadingIs ==
  ASSUME Clock!ClockAssumption, ClockIInv
  PROVE  (time + Clock!HALF_MS - Clock!Reading * CYCLES_PER_MS) % Clock!Wrap
           \in 0 .. CYCLES_PER_MS - 1 + time \div (Clock!OCR1A + 1) + (IF OCF1A
           THEN Clock!TICK_CYCLES ELSE 0)
<1> DEFINE P == Clock!OCR1A + 1
           T == ClockRequested
           n == ticks_since_boot
           M == CYCLES_PER_MS
           q == (TCNT1 + Clock!HALF_MS) \div M
           r == (TCNT1 + Clock!HALF_MS) % M
           s == n * TICK + q
           b == IF OCF1A THEN Clock!OCR1A ELSE 0
<1>0. /\ TICK \in Nat \ {0} /\ M \in Nat \ {0} /\ CLOCK_WORD \in Nat \ {0}
      /\ Clock!OCR1A \in Nat \ {0} /\ Clock!OCR1A = TICK * M /\ Clock!HALF_MS \in Nat
      /\ Clock!Wrap \in Nat \ {0} /\ Clock!Wrap = CLOCK_WORD * M
      /\ Clock!TICK_CYCLES = Clock!OCR1A
      /\ n \in 0 .. CLOCK_WORD - 1 /\ TCNT1 \in 0 .. Clock!OCR1A /\ OCF1A \in BOOLEAN
      /\ time = P * T + TCNT1 /\ P \in Nat \ {0}
  BY ClockConstants DEF ClockIInv, Clock!Wrap, Clock!OCR1A
<1>1. T \in 0 .. CLOCK_WORD - 1
  <2>1. ticks_since_boot + (IF OCF1A THEN 1 ELSE 0) \in Int
    BY <1>0
  <2> QED  BY <1>0, <2>1, Quotient DEF ClockRequested
<1>2. /\ TCNT1 + Clock!HALF_MS = M * q + r /\ r \in 0 .. M - 1 /\ q \in Int
  <2>1. TCNT1 + Clock!HALF_MS \in Int
    BY <1>0
  <2> QED  BY <1>0, <2>1, Quotient
<1>3. time \div P = T
  <2>1. TCNT1 \in 0 .. P - 1
    BY <1>0
  <2> QED  BY <1>0, <1>1, <2>1, OneQuotient
<1> HIDE DEF q, r
<1>4. s \in Int /\ s = CLOCK_WORD * (s \div CLOCK_WORD) + (s % CLOCK_WORD)
      /\ s \div CLOCK_WORD \in Int /\ s % CLOCK_WORD \in Int
  <2>1. n * TICK \in Int
    BY <1>0
  <2> QED  BY <1>0, <1>2, <2>1, Quotient
<1> DEFINE k == s \div CLOCK_WORD
           A == s % CLOCK_WORD
<1>5. Clock!Reading = A
  BY DEF Clock!Reading, q
<1>6. \E j \in {0, 1} : n + (IF OCF1A THEN 1 ELSE 0) = T + CLOCK_WORD * j
  <2>1. CASE n + (IF OCF1A THEN 1 ELSE 0) = CLOCK_WORD
    <3>1. CLOCK_WORD = CLOCK_WORD * 1 + 0 /\ 0 \in 0 .. CLOCK_WORD - 1 /\ 1 \in Int
      BY <1>0
    <3>2. T = 0
      <4>1. (CLOCK_WORD * 1 + 0) % CLOCK_WORD = 0
        BY <1>0, <3>1, OneQuotient
      <4> QED  BY <2>1, <3>1, <4>1 DEF ClockRequested
    <3> QED  BY <1>0, <2>1, <3>1, <3>2
  <2>2. CASE n + (IF OCF1A THEN 1 ELSE 0) # CLOCK_WORD
    <3>1. n + (IF OCF1A THEN 1 ELSE 0) \in 0 .. CLOCK_WORD - 1
      BY <1>0, <2>2
    <3>2. T = n + (IF OCF1A THEN 1 ELSE 0)
      BY <1>0, <3>1, OwnRemainder DEF ClockRequested
    <3>3. CLOCK_WORD * 0 = 0
      BY <1>0
    <3> QED  BY <1>0, <3>1, <3>2, <3>3
  <2> QED  BY <2>1, <2>2
<1>7. PICK j \in {0, 1} : n + (IF OCF1A THEN 1 ELSE 0) = T + CLOCK_WORD * j
  BY <1>6
<1> DEFINE x == T + b + r
           z == k - TICK * j
           a == time + Clock!HALF_MS - A * M
<1>8. x \in Nat /\ x \in 0 .. M - 1 + T + b /\ b \in Nat
  BY <1>0, <1>1, <1>2
<1>9. /\ k \in Int /\ A \in Int /\ z \in Int /\ s = CLOCK_WORD * k + A /\ TICK * j \in Int
  BY <1>0, <1>4
<1> HIDE DEF k, A, s, T, P
<1>10. a = x + Clock!Wrap * z
  <2>1. A * M = s * M - CLOCK_WORD * k * M
    <3>1. (CLOCK_WORD * k + A) * M = CLOCK_WORD * k * M + A * M
      BY <1>0, <1>9
    <3>2. s * M = CLOCK_WORD * k * M + A * M
      BY <1>9, <3>1
    <3> QED  BY <1>0, <1>4, <1>9, <3>2
  <2>2. s * M = n * Clock!OCR1A + M * q
    <3>1. (n * TICK + q) * M = n * (TICK * M) + M * q
      BY <1>0, <1>2
    <3> QED  BY <1>0, <3>1 DEF s
  <2>3. time = T * Clock!OCR1A + T + TCNT1
    <3>1. (Clock!OCR1A + 1) * T = T * Clock!OCR1A + T
      BY <1>0, <1>1
    <3> QED  BY <1>0, <3>1 DEF P
  <2>4. n * Clock!OCR1A = T * Clock!OCR1A + CLOCK_WORD * j * Clock!OCR1A - b
    <3>1. n = T + CLOCK_WORD * j - (IF OCF1A THEN 1 ELSE 0)
      BY <1>0, <1>1, <1>7
    <3>2. (T + CLOCK_WORD * j - 1) * Clock!OCR1A
            = T * Clock!OCR1A + CLOCK_WORD * j * Clock!OCR1A - Clock!OCR1A
      BY <1>0, <1>1
    <3>3. (T + CLOCK_WORD * j - 0) * Clock!OCR1A
            = T * Clock!OCR1A + CLOCK_WORD * j * Clock!OCR1A - 0
      BY <1>0, <1>1
    <3> QED  BY <3>1, <3>2, <3>3
  <2>5. Clock!Wrap * z = CLOCK_WORD * k * M - CLOCK_WORD * j * Clock!OCR1A
    <3>1. CLOCK_WORD * M * (k - TICK * j)
            = CLOCK_WORD * k * M - CLOCK_WORD * j * (TICK * M)
      BY <1>0, <1>9
    <3> QED  BY <1>0, <3>1
  <2>6. /\ T * Clock!OCR1A \in Int /\ CLOCK_WORD * j * Clock!OCR1A \in Int
        /\ CLOCK_WORD * k * M \in Int /\ M * q \in Int
        /\ T \in Int /\ b \in Int /\ n * Clock!OCR1A \in Int /\ s * M \in Int
        /\ A * M \in Int
        /\ Clock!HALF_MS \in Int /\ TCNT1 \in Int
    BY <1>0, <1>1, <1>2, <1>4, <1>8, <1>9
  <2> DEFINE c1 == T * Clock!OCR1A
             c2 == CLOCK_WORD * j * Clock!OCR1A
             c3 == CLOCK_WORD * k * M
             c4 == M * q
             c5 == n * Clock!OCR1A
             c6 == s * M
             c7 == A * M
  <2> HIDE DEF b, c1, c2, c3, c4, c5, c6, c7, n, M
  <2>7. /\ c1 \in Int /\ c2 \in Int /\ c3 \in Int /\ c4 \in Int /\ c5 \in Int
        /\ c6 \in Int
        /\ c7 \in Int /\ T \in Int /\ b \in Int /\ Clock!HALF_MS \in Int /\ TCNT1 \in Int
        /\ r \in Int /\ Clock!Wrap * z \in Int
    <3>1. r \in Int /\ Clock!Wrap * z \in Int
      BY <1>0, <1>2, <1>9
    <3> QED  BY <2>6, <3>1 DEF c1, c2, c3, c4, c5, c6, c7
  <2>8. /\ c7 = c6 - c3 /\ c6 = c5 + c4 /\ time = c1 + T + TCNT1 /\ c5 = c1 + c2 - b
        /\ Clock!Wrap * z = c3 - c2 /\ TCNT1 + Clock!HALF_MS = c4 + r
    BY <1>2, <2>1, <2>2, <2>3, <2>4, <2>5 DEF c1, c2, c3, c4, c5, c6, c7
  <2>9. a = time + Clock!HALF_MS - c7 /\ x = T + b + r
    BY DEF c7
  <2> HIDE DEF a, x, z
  <2> QED  BY <2>7, <2>8, <2>9
<1>11. a \in Int
  BY <1>0, <1>8, <1>9, <1>10
<1>12. a % Clock!Wrap \in 0 .. x
  BY <1>0, <1>8, <1>9, <1>10, <1>11, RemainderUpTo
<1>13. time \div (Clock!OCR1A + 1) = T
  BY <1>3 DEF P
<1>14. a % Clock!Wrap \in 0 .. M - 1 + T + b
  <2> HIDE DEF x, a, b
  <2> QED  BY <1>0, <1>1, <1>8, <1>12
<1> QED  BY <1>0, <1>5, <1>13, <1>14

LEMMA ClockTracks ==
  ASSUME Clock!ClockAssumption PROVE Clock!Spec => Clock!NowTracksTime
<1>1. ASSUME ClockIInv, [Clock!Next]_(Clock!vars)
      PROVE  [Clock!Returns =>
                (time + Clock!HALF_MS - answer' * CYCLES_PER_MS) % Clock!Wrap
                  \in 0 .. CYCLES_PER_MS - 1 + time \div (Clock!OCR1A + 1)
                             + (IF OCF1A THEN Clock!TICK_CYCLES ELSE 0)]_(Clock!vars)
  <2>1. Clock!Returns => answer' = Clock!Reading
    BY <1>1 DEF Clock!Returns, Clock!Next, Clock!Cycle, Clock!TIMER1_COMPA,
                Clock!enter_kernel, Clock!exit_kernel, Clock!Disable_Interrupt,
                Clock!Now, Clock!vars
  <2> QED  BY <1>1, <2>1, ClockReadingIs
<1> QED  BY <1>1, ClockInit, ClockStep, PTL DEF Clock!Spec, Clock!NowTracksTime

-----------------------------------------------------------------------------
(* The clock of the robots (RoombaClock).                                  *)

\* Cycles to the next compare match; it may have been some cycles ago.
RobotToMatch == IF waiting >= 0 THEN 0 - waiting ELSE (OCR1A - robot_TCNT1) % TIMER_WORD
\* Cycles since the count of the last tick was noted.
RobotSinceCount == (robot_TCNT1 - current_timer_val) % TIMER_WORD

RobotTypeInv ==
  /\ robot_TCNT1 \in 0 .. TIMER_WORD - 1 /\ OCR1A \in 0 .. TIMER_WORD - 1
  /\ waiting \in -1 .. LATENCY
  /\ ticks_from_start \in 0 .. ROBOT_WORD - 1 /\ current_timer_val \in 0 .. TIMER_WORD - 1
  /\ robot_time \in 0 .. RobotClock!Cycles - 1 /\ at \in Int
  /\ in_now \in BOOLEAN /\ torn \in BOOLEAN
  /\ reads \in [RobotClock!Operands -> Int]

RobotMatchInv ==
  /\ waiting = -1 => OCR1A # robot_TCNT1
  /\ waiting >= 0 => (robot_TCNT1 - OCR1A) % TIMER_WORD = waiting

\* The compare matches are TICK_CYCLES apart, late by the delay of the first only;
\* the count that was noted is late by that of the last.
RobotMatchAt(k, c) == robot_time + RobotToMatch
                        = (ticks_from_start + 1) * RobotClock!TICK_CYCLES + c
                          + RobotClock!Cycles * k
RobotOnTime ==
  \E k \in Int, c \in 0 .. LATENCY :
    /\ RobotMatchAt(k, c)
    /\ c + RobotClock!TICK_CYCLES - (RobotSinceCount + RobotToMatch) \in 0 .. 2 * LATENCY

RobotReadAt(k, e) ==
  at = ticks_from_start * RobotClock!TICK_CYCLES
    + ((reads["TCNT1"] - current_timer_val) % TIMER_WORD)
         + e + RobotClock!Cycles * k
RobotReadInv ==
  /\ ~in_now => \A o \in RobotClock!Operands : reads[o] = RobotClock!NotRead
  /\ in_now /\ ~torn =>
       /\ reads["ticks"] \in {RobotClock!NotRead, ticks_from_start}
       /\ reads["val"] \in {RobotClock!NotRead, current_timer_val}
       /\ reads["TCNT1"] # RobotClock!NotRead
          => \E k \in Int, e \in 0 .. 2 * LATENCY : RobotReadAt(k, e)

RobotIInv == RobotTypeInv /\ RobotMatchInv /\ RobotOnTime /\ RobotReadInv

\* No tick waits for as long as a tick.
RobotTicksInTime == LATENCY < RobotClock!TICK_CYCLES

LEMMA RobotConstants ==
  ASSUME RobotClock!RoombaClockAssumption
  PROVE  /\ ROBOT_TICK \in Nat \ {0} /\ ROBOT_CYCLES_PER_MS \in Nat \ {0}
         /\ ROBOT_WORD \in Nat \ {0}
         /\ RobotClock!TICK_CYCLES \in Nat \ {0}
         /\ RobotClock!TICK_CYCLES = ROBOT_TICK * ROBOT_CYCLES_PER_MS /\ LATENCY \in Nat
         /\ TIMER_WORD \in Nat \ {0} /\ TIMER_WORD > RobotClock!TICK_CYCLES + 2 * LATENCY
         /\ RobotClock!Wrap \in Nat \ {0}
         /\ RobotClock!Wrap = ROBOT_WORD * ROBOT_CYCLES_PER_MS
         /\ RobotClock!Cycles \in Nat \ {0}
         /\ RobotClock!Cycles = ROBOT_WORD * RobotClock!TICK_CYCLES
<1>1. ROBOT_TICK \in Nat \ {0} /\ ROBOT_CYCLES_PER_MS \in Nat \ {0}
      /\ ROBOT_WORD \in Nat \ {0} /\ LATENCY \in Nat
  BY DEF RobotClock!RoombaClockAssumption
<1>2. \A a, b \in Nat \ {0} : a * b \in Nat \ {0}
  OBVIOUS
<1>3. RobotClock!TICK_CYCLES \in Nat \ {0}
      /\ RobotClock!TICK_CYCLES = ROBOT_TICK * ROBOT_CYCLES_PER_MS
  BY <1>1, <1>2 DEF RobotClock!TICK_CYCLES
<1>4. TIMER_WORD \in Nat /\ TIMER_WORD > RobotClock!TICK_CYCLES + 2 * LATENCY
  BY DEF RobotClock!RoombaClockAssumption, RobotClock!TICK_CYCLES
<1>5. RobotClock!Wrap \in Nat \ {0} /\ RobotClock!Cycles \in Nat \ {0}
  BY <1>1, <1>2, <1>3 DEF RobotClock!Wrap, RobotClock!Cycles
<1> QED  BY <1>1, <1>3, <1>4, <1>5 DEF RobotClock!Wrap, RobotClock!Cycles

LEMMA RobotInit ==
  ASSUME RobotClock!RoombaClockAssumption, RobotTicksInTime, RobotClock!Init
  PROVE  RobotIInv
<1>0. /\ RobotClock!TICK_CYCLES \in Nat \ {0} /\ LATENCY \in Nat
      /\ TIMER_WORD \in Nat \ {0}
      /\ TIMER_WORD > RobotClock!TICK_CYCLES + 2 * LATENCY /\ ROBOT_WORD \in Nat \ {0}
      /\ RobotClock!Cycles \in Nat \ {0}
  BY RobotConstants
<1>1. PICK c \in 0 .. LATENCY : OCR1A = (c + RobotClock!TICK_CYCLES) % TIMER_WORD
  BY DEF RobotClock!Init
<1>2. c + RobotClock!TICK_CYCLES \in 0 .. TIMER_WORD - 1
      /\ OCR1A = c + RobotClock!TICK_CYCLES
  <2>1. c + RobotClock!TICK_CYCLES \in 0 .. TIMER_WORD - 1
    BY <1>0
  <2> QED  BY <1>0, <1>1, <2>1, OwnRemainder
<1>3. /\ robot_TCNT1 = 0 /\ waiting = -1 /\ ticks_from_start = 0 /\ current_timer_val = 0
      /\ reads = [o \in RobotClock!Operands |-> RobotClock!NotRead] /\ in_now = FALSE
      /\ robot_time = 0 /\ at = 0 /\ torn = FALSE
  BY DEF RobotClock!Init
<1>4. RobotTypeInv
  <2>1. 0 \in 0 .. TIMER_WORD - 1 /\ 0 \in 0 .. ROBOT_WORD - 1
        /\ 0 \in 0 .. RobotClock!Cycles - 1 /\ 0 \in Int
        /\ -1 \in -1 .. LATENCY
    BY <1>0
  <2>2. in_now \in BOOLEAN /\ torn \in BOOLEAN
    BY <1>3
  <2>3. reads \in [RobotClock!Operands -> Int]
    BY <1>3 DEF RobotClock!NotRead
  <2> QED  BY <1>2, <1>3, <2>1, <2>2, <2>3 DEF RobotTypeInv
<1>5. RobotMatchInv
  BY <1>0, <1>2, <1>3 DEF RobotMatchInv
<1>6. RobotOnTime
  <2>1. RobotToMatch = c + RobotClock!TICK_CYCLES
    <3>1. (OCR1A - robot_TCNT1) % TIMER_WORD = c + RobotClock!TICK_CYCLES
      <4>1. OCR1A - robot_TCNT1 = c + RobotClock!TICK_CYCLES
        BY <1>0, <1>2, <1>3
      <4> QED  BY <1>0, <1>2, <4>1, OwnRemainder
    <3> QED  BY <1>3, <3>1 DEF RobotToMatch
  <2>2. RobotSinceCount = 0
    <3>1. 0 % TIMER_WORD = 0
      BY <1>0, OwnRemainder, 0 \in 0 .. TIMER_WORD - 1
    <3>2. robot_TCNT1 - current_timer_val = 0
      BY <1>3
    <3> QED  BY <3>1, <3>2 DEF RobotSinceCount
  <2>3. RobotMatchAt(0, c)
    <3>1. (0 + 1) * RobotClock!TICK_CYCLES + c + RobotClock!Cycles * 0
            = RobotClock!TICK_CYCLES + c
      BY <1>0
    <3> QED  BY <1>0, <1>3, <2>1, <3>1 DEF RobotMatchAt
  <2>4. c + RobotClock!TICK_CYCLES - (RobotSinceCount + RobotToMatch) \in 0 .. 2 * LATENCY
    BY <1>0, <2>1, <2>2
  <2> QED  BY <2>3, <2>4, 0 \in Int DEF RobotOnTime
<1>7. RobotReadInv
  BY <1>3 DEF RobotReadInv
<1> QED  BY <1>4, <1>5, <1>6, <1>7 DEF RobotIInv

LEMMA RobotCycle ==
  ASSUME RobotClock!RoombaClockAssumption, RobotTicksInTime, RobotIInv, RobotClock!Cycle
  PROVE  RobotIInv'
<1>0. /\ RobotClock!TICK_CYCLES \in Nat \ {0} /\ LATENCY \in Nat
      /\ TIMER_WORD \in Nat \ {0}
      /\ TIMER_WORD > RobotClock!TICK_CYCLES + 2 * LATENCY /\ ROBOT_WORD \in Nat \ {0}
      /\ RobotClock!Cycles \in Nat \ {0}
      /\ RobotClock!TICK_CYCLES' = RobotClock!TICK_CYCLES
      /\ RobotClock!Cycles' = RobotClock!Cycles
  BY RobotConstants DEF RobotClock!TICK_CYCLES, RobotClock!Cycles
<1>1. /\ robot_TCNT1 \in 0 .. TIMER_WORD - 1 /\ OCR1A \in 0 .. TIMER_WORD - 1
      /\ waiting \in -1 .. LATENCY /\ current_timer_val \in 0 .. TIMER_WORD - 1
      /\ robot_time \in 0 .. RobotClock!Cycles - 1
      /\ ticks_from_start \in 0 .. ROBOT_WORD - 1
  BY DEF RobotIInv, RobotTypeInv
<1>2. /\ waiting < LATENCY
      /\ robot_TCNT1' = (robot_TCNT1 + 1) % TIMER_WORD
      /\ waiting' = IF waiting >= 0 THEN waiting + 1 ELSE
           IF robot_TCNT1' = OCR1A THEN 0 ELSE -1
      /\ robot_time' = (robot_time + 1) % RobotClock!Cycles
      /\ UNCHANGED <<OCR1A, ticks_from_start, current_timer_val, reads, in_now, at, torn>>
  BY DEF RobotClock!Cycle
<1>3. robot_TCNT1' \in 0 .. TIMER_WORD - 1
  BY <1>0, <1>1, <1>2, Quotient, robot_TCNT1 + 1 \in Int
<1>4. ASSUME NEW x \in 0 .. TIMER_WORD - 1,
             ((robot_TCNT1 - x) % TIMER_WORD) + 1 < TIMER_WORD
      PROVE  (robot_TCNT1' - x) % TIMER_WORD = ((robot_TCNT1 - x) % TIMER_WORD) + 1
  <2>1. robot_TCNT1 + 1 \in Int /\ -x \in Int /\ robot_TCNT1 - x \in Int
    BY <1>0, <1>1
  <2>2. (((robot_TCNT1 + 1) % TIMER_WORD) + (-x)) % TIMER_WORD
          = ((robot_TCNT1 + 1) + (-x)) % TIMER_WORD
    BY <1>0, <2>1, RemainderInSum
  <2>3. ((robot_TCNT1 + 1) % TIMER_WORD) + (-x) = robot_TCNT1' - x
        /\ (robot_TCNT1 + 1) + (-x) = (robot_TCNT1 - x) + 1
    BY <1>0, <1>1, <1>2, <1>3
  <2>4. ((robot_TCNT1 - x) + 1) % TIMER_WORD = ((robot_TCNT1 - x) % TIMER_WORD) + 1
    BY <1>0, <1>4, <2>1, RemainderStep
  <2> QED  BY <2>2, <2>3, <2>4
<1>d. \A n, t \in 0 .. TIMER_WORD - 1 :
        /\ (n - t) % TIMER_WORD \in 0 .. TIMER_WORD - 1
        /\ (n - t) % TIMER_WORD = 0 <=> n = t
        /\ n # t => (n - ((t + 1) % TIMER_WORD)) % TIMER_WORD = ((n - t) % TIMER_WORD) - 1
  <2>1. \A p \in Nat \ {0} : \A n, t \in 0 .. p - 1 :
          /\ (n - t) % p \in 0 .. p - 1
          /\ (n - t) % p = 0 <=> n = t
          /\ (t + 1) % p \in 0 .. p - 1
          /\ n # t => (n - ((t + 1) % p)) % p = ((n - t) % p) - 1
    BY ClockDistance
  <2>2. TIMER_WORD \in Nat \ {0}
    BY <1>0
  <2>3. \A n, t \in 0 .. TIMER_WORD - 1 :
          /\ (n - t) % TIMER_WORD \in 0 .. TIMER_WORD - 1
          /\ (n - t) % TIMER_WORD = 0 <=> n = t
          /\ (t + 1) % TIMER_WORD \in 0 .. TIMER_WORD - 1
          /\ n # t
             => (n - ((t + 1) % TIMER_WORD)) % TIMER_WORD = ((n - t) % TIMER_WORD) - 1
    BY <2>1, <2>2
  <2> QED  BY <2>3
<1>5. RobotMatchInv' /\ RobotToMatch' = RobotToMatch - 1 /\ RobotToMatch \in Int
      /\ (waiting >= 0 => RobotToMatch = 0 - waiting)
         /\ (waiting = -1 => RobotToMatch >= 1)
      /\ waiting' \in -1 .. LATENCY
  <2>1. CASE waiting >= 0
    <3>1. (robot_TCNT1 - OCR1A) % TIMER_WORD = waiting
      BY <2>1 DEF RobotIInv, RobotMatchInv
    <3>2. (robot_TCNT1' - OCR1A) % TIMER_WORD = waiting + 1
      <4>1. waiting + 1 < TIMER_WORD
        BY <1>0, <1>1, <1>2
      <4> QED  BY <1>1, <1>4, <3>1, <4>1
    <3>3. waiting' = waiting + 1 /\ waiting' >= 0 /\ waiting' # -1 /\ waiting # -1
      BY <1>1, <1>2, <2>1
    <3>4. RobotToMatch = 0 - waiting /\ RobotToMatch' = 0 - (waiting + 1)
      BY <2>1, <3>3 DEF RobotToMatch
    <3> QED  BY <1>0, <1>1, <1>2, <2>1, <3>2, <3>3, <3>4 DEF RobotMatchInv
  <2>2. CASE waiting = -1
    <3> DEFINE d == (OCR1A - robot_TCNT1) % TIMER_WORD
    <3>1. OCR1A # robot_TCNT1 /\ RobotToMatch = d
      BY <2>2 DEF RobotIInv, RobotMatchInv, RobotToMatch
    <3>2. d \in 0 .. TIMER_WORD - 1 /\ d # 0
          /\ (OCR1A - robot_TCNT1') % TIMER_WORD = d - 1
      <4>1. /\ d \in 0 .. TIMER_WORD - 1
            /\ (OCR1A # robot_TCNT1
               => (OCR1A - ((robot_TCNT1 + 1) % TIMER_WORD)) % TIMER_WORD = d - 1)
            /\ (d = 0 <=> OCR1A = robot_TCNT1)
        BY <1>1, <1>d
      <4> QED  BY <1>2, <3>1, <4>1
    <3>3. (OCR1A - robot_TCNT1') % TIMER_WORD = 0 <=> OCR1A = robot_TCNT1'
      BY <1>1, <1>3, <1>d
    <3> HIDE DEF d
    <3>4. CASE robot_TCNT1' = OCR1A
      <4>1. waiting' = 0 /\ d = 1
        BY <1>2, <2>2, <3>2, <3>3, <3>4
      <4>2. RobotToMatch' = 0
        <5>1. waiting' >= 0 /\ 0 - waiting' = 0
          BY <4>1
        <5> QED  BY <5>1 DEF RobotToMatch
      <4>3. (robot_TCNT1' - OCR1A') % TIMER_WORD = 0
        BY <1>0, <1>1, <1>2, <3>4, OwnRemainder, 0 \in 0 .. TIMER_WORD - 1,
           robot_TCNT1' - OCR1A' = 0
      <4> QED  BY <1>0, <2>2, <3>1, <4>1, <4>2, <4>3 DEF RobotMatchInv
    <3>5. CASE robot_TCNT1' # OCR1A
      <4>1. waiting' = -1
        BY <1>2, <2>2, <3>5
      <4>2. RobotToMatch' = d - 1
        BY <1>2, <3>2, <4>1 DEF RobotToMatch
      <4> QED  BY <1>0, <1>2, <2>2, <3>1, <3>2, <3>5, <4>1, <4>2 DEF RobotMatchInv
    <3> QED  BY <3>4, <3>5
  <2> QED  BY <1>1, <2>1, <2>2
<1>6. PICK k \in Int, c \in 0 .. LATENCY :
        RobotMatchAt(k, c)
        /\ c + RobotClock!TICK_CYCLES - (RobotSinceCount
             + RobotToMatch) \in 0 .. 2 * LATENCY
  BY DEF RobotIInv, RobotOnTime
<1>7. RobotSinceCount' = RobotSinceCount + 1 /\ RobotSinceCount \in Int
  <2>1. RobotSinceCount \in 0 .. TIMER_WORD - 1
    BY <1>0, <1>1, Quotient, robot_TCNT1 - current_timer_val \in Int DEF RobotSinceCount
  <2>2. RobotToMatch >= 1 - LATENCY
    BY <1>0, <1>1, <1>2, <1>5
  <2>3. RobotSinceCount + 1 < TIMER_WORD
    BY <1>0, <1>5, <1>6, <2>1, <2>2
  <2> QED  BY <1>1, <1>2, <1>4, <2>1, <2>3 DEF RobotSinceCount
<1>8. RobotOnTime'
  <2>0. robot_time + 1
          = RobotClock!Cycles * ((robot_time + 1) \div RobotClock!Cycles) + robot_time'
          /\ (robot_time + 1) \div RobotClock!Cycles \in Int
        /\ robot_time' \in 0 .. RobotClock!Cycles - 1
    BY <1>0, <1>1, <1>2, Quotient, robot_time + 1 \in Int
  <2>1. PICK j \in Int : robot_time + 1 = RobotClock!Cycles * j + robot_time'
             /\ robot_time' \in 0 .. RobotClock!Cycles - 1
    BY <2>0
  <2>2. RobotClock!Cycles * (k - j) = RobotClock!Cycles * k - RobotClock!Cycles * j
        /\ k - j \in Int
    BY <1>0, <2>1
  <2>3. robot_time + RobotToMatch
          = (ticks_from_start + 1) * RobotClock!TICK_CYCLES + c + RobotClock!Cycles * k
    BY <1>6 DEF RobotMatchAt
  <2>4. \E m, ck, cj \in Int :
          m = (ticks_from_start + 1) * RobotClock!TICK_CYCLES
          /\ ck = RobotClock!Cycles * k /\ cj = RobotClock!Cycles * j
    BY <1>0, <1>1, <2>1
  <2>5. robot_time' + RobotToMatch'
          = (ticks_from_start' + 1) * RobotClock!TICK_CYCLES + c
            + RobotClock!Cycles * (k - j)
    <3>0. PICK m, ck, cj \in Int :
            m = (ticks_from_start + 1) * RobotClock!TICK_CYCLES
            /\ ck = RobotClock!Cycles * k /\ cj = RobotClock!Cycles * j
      BY <2>4
    <3>1. robot_time + 1 = cj + robot_time' /\ robot_time + RobotToMatch = m + c + ck
          /\ RobotToMatch' = RobotToMatch - 1
          /\ RobotClock!Cycles * (k - j) = ck - cj
      BY <1>5, <2>1, <2>2, <2>3, <3>0
    <3>2. (ticks_from_start' + 1) * RobotClock!TICK_CYCLES = m
      BY <1>2, <3>0
    <3>3. robot_time \in Int /\ robot_time' \in Int /\ c \in Int /\ RobotToMatch \in Int
      BY <1>0, <1>1, <1>5, <2>1
    <3>4. robot_time' + RobotToMatch' = m + c + (ck - cj)
      <4>1. \A u, v, t \in Int : u + 1 = cj + v /\ u + t = m + c + ck
            => v + (t - 1) = m + c + (ck - cj)
        BY <3>3
      <4> QED  BY <3>1, <3>3, <4>1
    <3> QED  BY <3>1, <3>2, <3>4
  <2>6. PICK i \in Int : i = k - j
    BY <2>2
  <2>7. RobotMatchAt(i, c)'
    BY <1>0, <2>5, <2>6 DEF RobotMatchAt
  <2>8. c + RobotClock!TICK_CYCLES' - (RobotSinceCount'
          + RobotToMatch') \in 0 .. 2 * LATENCY
    <3>1. RobotSinceCount' + RobotToMatch' = RobotSinceCount + RobotToMatch
      BY <1>5, <1>7
    <3> QED  BY <1>0, <1>6, <3>1
  <2> QED  BY <2>7, <2>8 DEF RobotOnTime
<1>9. RobotTypeInv'
  <2>1. robot_time' \in 0 .. RobotClock!Cycles - 1
    BY <1>0, <1>1, <1>2, Quotient, robot_time + 1 \in Int
  <2> QED  BY <1>0, <1>2, <1>3, <1>5, <2>1 DEF RobotIInv, RobotTypeInv
<1>10. RobotReadInv'
  BY <1>0, <1>2 DEF RobotIInv, RobotReadInv, RobotReadAt
<1> QED  BY <1>5, <1>8, <1>9, <1>10 DEF RobotIInv

LEMMA RobotTick ==
  ASSUME RobotClock!RoombaClockAssumption, RobotTicksInTime, RobotIInv,
         RobotClock!TIMER1_COMPA
  PROVE  RobotIInv'
<1>0. /\ RobotClock!TICK_CYCLES \in Nat \ {0} /\ LATENCY \in Nat
      /\ TIMER_WORD \in Nat \ {0}
      /\ TIMER_WORD > RobotClock!TICK_CYCLES + 2 * LATENCY /\ ROBOT_WORD \in Nat \ {0}
      /\ RobotClock!Cycles \in Nat \ {0}
      /\ RobotClock!Cycles = ROBOT_WORD * RobotClock!TICK_CYCLES
      /\ LATENCY < RobotClock!TICK_CYCLES
      /\ RobotClock!TICK_CYCLES' = RobotClock!TICK_CYCLES
      /\ RobotClock!Cycles' = RobotClock!Cycles
  BY RobotConstants DEF RobotClock!TICK_CYCLES, RobotClock!Cycles, RobotTicksInTime
<1>1. /\ robot_TCNT1 \in 0 .. TIMER_WORD - 1 /\ OCR1A \in 0 .. TIMER_WORD - 1
      /\ waiting \in 0 .. LATENCY /\ current_timer_val \in 0 .. TIMER_WORD - 1
      /\ robot_time \in 0 .. RobotClock!Cycles - 1
      /\ ticks_from_start \in 0 .. ROBOT_WORD - 1
      /\ (robot_TCNT1 - OCR1A) % TIMER_WORD = waiting
  BY DEF RobotIInv, RobotTypeInv, RobotMatchInv, RobotClock!TIMER1_COMPA
<1>2. /\ waiting' = -1 /\ OCR1A' = (OCR1A + RobotClock!TICK_CYCLES) % TIMER_WORD
      /\ ticks_from_start' = (ticks_from_start + 1) % ROBOT_WORD
      /\ current_timer_val' = robot_TCNT1
      /\ torn' = TRUE /\ UNCHANGED <<robot_TCNT1, reads, in_now, robot_time, at>>
  BY DEF RobotClock!TIMER1_COMPA, RobotClock!NextMatch
<1>3. OCR1A' \in 0 .. TIMER_WORD - 1
  BY <1>0, <1>1, <1>2, Quotient, OCR1A + RobotClock!TICK_CYCLES \in Int
<1>4. (OCR1A' - robot_TCNT1) % TIMER_WORD = RobotClock!TICK_CYCLES - waiting
  <2> DEFINE a == robot_TCNT1 - OCR1A
  <2>1. OCR1A + RobotClock!TICK_CYCLES \in Int /\ -robot_TCNT1 \in Int /\ a \in Int
        /\ RobotClock!TICK_CYCLES \in Int
    BY <1>0, <1>1
  <2>2. (((OCR1A + RobotClock!TICK_CYCLES) % TIMER_WORD) + (-robot_TCNT1)) % TIMER_WORD
          = ((OCR1A + RobotClock!TICK_CYCLES) + (-robot_TCNT1)) % TIMER_WORD
    BY <1>0, <2>1, RemainderInSum
  <2>3. /\ ((OCR1A + RobotClock!TICK_CYCLES) % TIMER_WORD) + (-robot_TCNT1)
             = OCR1A' - robot_TCNT1
        /\ (OCR1A + RobotClock!TICK_CYCLES) + (-robot_TCNT1) = RobotClock!TICK_CYCLES - a
    BY <1>0, <1>1, <1>2, <1>3
  <2>4. (RobotClock!TICK_CYCLES - (a % TIMER_WORD)) % TIMER_WORD
          = (RobotClock!TICK_CYCLES - a) % TIMER_WORD
    BY <1>0, <2>1, RemainderInDifference
  <2>5. RobotClock!TICK_CYCLES - waiting \in 0 .. TIMER_WORD - 1
    BY <1>0, <1>1
  <2>6. (RobotClock!TICK_CYCLES - waiting) % TIMER_WORD = RobotClock!TICK_CYCLES - waiting
    BY <1>0, <2>5, OwnRemainder
  <2> QED  BY <1>1, <2>2, <2>3, <2>4, <2>6
<1>5. OCR1A' # robot_TCNT1
  <2> SUFFICES ASSUME OCR1A' = robot_TCNT1 PROVE FALSE
    OBVIOUS
  <2>1. OCR1A' - robot_TCNT1 = 0 /\ 0 \in 0 .. TIMER_WORD - 1
    BY <1>0, <1>1
  <2>2. RobotClock!TICK_CYCLES - waiting = 0
    BY <1>0, <1>4, <2>1, OwnRemainder
  <2> QED  BY <1>0, <1>1, <2>2
<1>6. RobotMatchInv' /\ RobotToMatch' = RobotClock!TICK_CYCLES - waiting
      /\ RobotToMatch = 0 - waiting
  BY <1>1, <1>2, <1>4, <1>5 DEF RobotMatchInv, RobotToMatch
<1>7. RobotSinceCount' = 0
  <2>1. robot_TCNT1' - current_timer_val' = 0 /\ 0 \in 0 .. TIMER_WORD - 1
    BY <1>0, <1>1, <1>2
  <2> QED  BY <1>0, <2>1, OwnRemainder DEF RobotSinceCount
<1>8. PICK k \in Int, c \in 0 .. LATENCY : RobotMatchAt(k, c)
  BY DEF RobotIInv, RobotOnTime
<1>9. RobotOnTime'
  <2>0. /\ ticks_from_start + 1
             = ROBOT_WORD * ((ticks_from_start + 1) \div ROBOT_WORD) + ticks_from_start'
        /\ (ticks_from_start + 1) \div ROBOT_WORD \in Int
        /\ ticks_from_start' \in 0 .. ROBOT_WORD - 1
    BY <1>0, <1>1, <1>2, Quotient, ticks_from_start + 1 \in Int
  <2>1. PICK j \in Int : ticks_from_start + 1 = ROBOT_WORD * j + ticks_from_start'
                          /\ ticks_from_start' \in 0 .. ROBOT_WORD - 1
    BY <2>0
  <2> DEFINE t == ticks_from_start'
             m == t * RobotClock!TICK_CYCLES
             ck == RobotClock!Cycles * k
             cj == RobotClock!Cycles * j
  <2>2. m \in Int /\ ck \in Int /\ cj \in Int
    BY <1>0, <2>1
  <2>3. (ticks_from_start + 1) * RobotClock!TICK_CYCLES = cj + m
    <3>1. (ROBOT_WORD * j + t) * RobotClock!TICK_CYCLES
            = (ROBOT_WORD * RobotClock!TICK_CYCLES) * j + t * RobotClock!TICK_CYCLES
      BY <1>0, <2>1
    <3> QED  BY <1>0, <2>1, <3>1
  <2>4. (t + 1) * RobotClock!TICK_CYCLES = m + RobotClock!TICK_CYCLES
    BY <1>0, <2>1
  <2>5. RobotClock!Cycles * (k + j) = ck + cj /\ k + j \in Int
    BY <1>0, <2>1
  <2>6. robot_time + RobotToMatch = cj + m + c + ck
    BY <1>8, <2>3 DEF RobotMatchAt
  <2>7. robot_time' + RobotToMatch'
          = (t + 1) * RobotClock!TICK_CYCLES + c + RobotClock!Cycles * (k + j)
    <3>1. robot_time + (0 - waiting) = cj + m + c + ck
          /\ robot_time' + RobotToMatch' = robot_time + (RobotClock!TICK_CYCLES - waiting)
      BY <1>2, <1>6, <2>6
    <3> HIDE DEF m, ck, cj
    <3>2. robot_time' + RobotToMatch' = m + RobotClock!TICK_CYCLES + c + (ck + cj)
      BY <1>0, <1>1, <2>2, <3>1
    <3> QED  BY <2>4, <2>5, <3>2
  <2>8. PICK i \in Int : i = k + j
    BY <2>5
  <2>9. RobotMatchAt(i, c)'
    BY <1>0, <2>7, <2>8 DEF RobotMatchAt
  <2>10. c + RobotClock!TICK_CYCLES' - (RobotSinceCount'
           + RobotToMatch') \in 0 .. 2 * LATENCY
    BY <1>0, <1>1, <1>6, <1>7
  <2> QED  BY <2>9, <2>10 DEF RobotOnTime
<1>10. RobotTypeInv'
  <2>1. ticks_from_start' \in 0 .. ROBOT_WORD - 1 /\ -1 \in -1 .. LATENCY
    BY <1>0, <1>1, <1>2, Quotient, ticks_from_start + 1 \in Int
  <2>2. torn' \in BOOLEAN
    BY <1>2
  <2> QED  BY <1>0, <1>1, <1>2, <1>3, <2>1, <2>2 DEF RobotIInv, RobotTypeInv
<1>11. RobotReadInv'
  BY <1>2 DEF RobotIInv, RobotReadInv
<1> QED  BY <1>6, <1>9, <1>10, <1>11 DEF RobotIInv

\* What does not count leaves the clock as it is.
LEMMA RobotClockRests ==
  ASSUME RobotClock!RoombaClockAssumption, RobotIInv, UNCHANGED <<RobotClock!clock,
         robot_time>>
  PROVE  RobotMatchInv' /\ RobotOnTime'
<1>1. RobotClock!TICK_CYCLES' = RobotClock!TICK_CYCLES
      /\ RobotClock!Cycles' = RobotClock!Cycles /\ RobotToMatch' = RobotToMatch
      /\ RobotSinceCount' = RobotSinceCount
  BY DEF RobotClock!TICK_CYCLES, RobotClock!Cycles, RobotToMatch, RobotSinceCount,
         RobotClock!clock
<1>2. \A k, c : RobotMatchAt(k, c)' = RobotMatchAt(k, c)
  BY <1>1 DEF RobotMatchAt, RobotClock!clock
<1> QED  BY <1>1, <1>2 DEF RobotIInv, RobotMatchInv, RobotOnTime, RobotClock!clock

LEMMA RobotRead ==
  ASSUME RobotClock!RoombaClockAssumption, RobotTicksInTime, RobotIInv,
         NEW o \in RobotClock!Operands, RobotClock!Read(o)
  PROVE  RobotIInv'
<1>0. /\ RobotClock!TICK_CYCLES \in Nat \ {0} /\ LATENCY \in Nat
      /\ TIMER_WORD \in Nat \ {0}
      /\ ROBOT_WORD \in Nat \ {0} /\ RobotClock!Cycles \in Nat \ {0}
      /\ RobotClock!TICK_CYCLES' = RobotClock!TICK_CYCLES
      /\ RobotClock!Cycles' = RobotClock!Cycles
  BY RobotConstants DEF RobotClock!TICK_CYCLES, RobotClock!Cycles
<1>1. /\ in_now /\ reads[o] = RobotClock!NotRead
      /\ UNCHANGED <<RobotClock!clock, in_now, robot_time, torn>>
      /\ reads' = [reads EXCEPT ![o] = CASE o = "ticks" -> ticks_from_start
                                         [] o = "TCNT1" -> robot_TCNT1
                                         [] o = "val"   -> current_timer_val]
      /\ at' = IF o = "TCNT1" THEN robot_time ELSE at
  BY DEF RobotClock!Read
<1>2. RobotMatchInv' /\ RobotOnTime'
  BY <1>1, RobotClockRests
<1>3. /\ robot_TCNT1 \in 0 .. TIMER_WORD - 1 /\ current_timer_val \in 0 .. TIMER_WORD - 1
      /\ waiting \in -1 .. LATENCY /\ OCR1A \in 0 .. TIMER_WORD - 1
      /\ ticks_from_start \in 0 .. ROBOT_WORD - 1
      /\ robot_time \in 0 .. RobotClock!Cycles - 1 /\ at \in Int
      /\ reads \in [RobotClock!Operands -> Int] /\ in_now \in BOOLEAN /\ torn \in BOOLEAN
  BY DEF RobotIInv, RobotTypeInv
<1>4. UNCHANGED <<robot_TCNT1, OCR1A, waiting, ticks_from_start, current_timer_val>>
  BY <1>1 DEF RobotClock!clock
<1>5. o \in {"ticks", "TCNT1", "val"} /\ RobotClock!Operands = {"ticks", "TCNT1", "val"}
  BY DEF RobotClock!Operands
<1>6. /\ o = "ticks" => reads' = [reads EXCEPT !["ticks"] = ticks_from_start]
      /\ o = "TCNT1" => reads' = [reads EXCEPT !["TCNT1"] = robot_TCNT1]
         /\ at' = robot_time
      /\ o = "val" => reads' = [reads EXCEPT !["val"] = current_timer_val]
      /\ o # "TCNT1" => at' = at
  BY <1>1, <1>5
<1>7. reads' \in [RobotClock!Operands -> Int] /\ at' \in Int
  BY <1>3, <1>5, <1>6
<1>8. RobotTypeInv'
  BY <1>0, <1>1, <1>3, <1>4, <1>7 DEF RobotTypeInv
<1>9. RobotReadInv'
  <2> SUFFICES ASSUME ~torn
               PROVE  /\ reads'["ticks"] \in {RobotClock!NotRead, ticks_from_start}
                      /\ reads'["val"] \in {RobotClock!NotRead, current_timer_val}
                      /\ reads'["TCNT1"] # RobotClock!NotRead
                         => \E k \in Int, e \in 0 .. 2 * LATENCY : RobotReadAt(k, e)'
    BY <1>1, <1>4 DEF RobotReadInv
  <2>1. /\ reads["ticks"] \in {RobotClock!NotRead, ticks_from_start}
        /\ reads["val"] \in {RobotClock!NotRead, current_timer_val}
        /\ reads["TCNT1"] # RobotClock!NotRead
           => \E k \in Int, e \in 0 .. 2 * LATENCY : RobotReadAt(k, e)
    BY <1>1 DEF RobotIInv, RobotReadInv
  <2>2. /\ reads'["ticks"] \in {RobotClock!NotRead, ticks_from_start}
        /\ reads'["val"] \in {RobotClock!NotRead, current_timer_val}
    BY <1>3, <1>5, <1>6, <2>1
  <2>3. CASE o = "TCNT1"
    <3>1. PICK k \in Int, c \in 0 .. LATENCY :
            RobotMatchAt(k, c)
            /\ c + RobotClock!TICK_CYCLES - (RobotSinceCount
                 + RobotToMatch) \in 0 .. 2 * LATENCY
      BY DEF RobotIInv, RobotOnTime
    <3>e. PICK e \in 0 .. 2 * LATENCY
                 : e = c + RobotClock!TICK_CYCLES - (RobotSinceCount + RobotToMatch)
      BY <3>1
    <3> DEFINE m == ticks_from_start * RobotClock!TICK_CYCLES
               ck == RobotClock!Cycles * k
    <3>2. RobotSinceCount \in Int /\ RobotToMatch \in Int
      BY <1>0, <1>3, Quotient, robot_TCNT1 - current_timer_val \in Int,
         OCR1A - robot_TCNT1 \in Int
         DEF RobotSinceCount, RobotToMatch
    <3>3. (ticks_from_start + 1) * RobotClock!TICK_CYCLES = m + RobotClock!TICK_CYCLES
          /\ m \in Int /\ ck \in Int
      BY <1>0, <1>3
    <3>4. robot_time + RobotToMatch = (m + RobotClock!TICK_CYCLES) + c + ck
      BY <3>1, <3>3 DEF RobotMatchAt
    <3>5. robot_time = m + RobotSinceCount + e + ck
      <4> HIDE DEF m, ck
      <4> QED  BY <1>0, <1>3, <3>2, <3>3, <3>4, <3>e
    <3>6. reads'["TCNT1"] = robot_TCNT1
      BY <1>3, <1>5, <1>6, <2>3
    <3>7. at' = ticks_from_start' * RobotClock!TICK_CYCLES'
            + ((reads'["TCNT1"] - current_timer_val') % TIMER_WORD)
                  + e + RobotClock!Cycles' * k
      BY <1>0, <1>4, <1>6, <2>3, <3>5, <3>6 DEF RobotSinceCount
    <3>8. RobotReadAt(k, e)'
      BY <3>7 DEF RobotReadAt
    <3> QED  BY <2>2, <3>8
  <2>4. CASE o # "TCNT1"
    <3>1. reads'["TCNT1"] = reads["TCNT1"] /\ at' = at
      BY <1>3, <1>5, <1>6, <2>4
    <3>2. \A k, e : RobotReadAt(k, e)' = RobotReadAt(k, e)
      BY <1>0, <1>4, <3>1 DEF RobotReadAt
    <3> QED  BY <2>1, <2>2, <3>1, <3>2
  <2> QED  BY <2>3, <2>4
<1> QED  BY <1>2, <1>8, <1>9 DEF RobotIInv

LEMMA RobotStep ==
  ASSUME RobotClock!RoombaClockAssumption, RobotTicksInTime, RobotIInv,
         [RobotClock!Next]_(RobotClock!vars)
  PROVE  RobotIInv'
<1>0. RobotClock!Cycles' = RobotClock!Cycles
      /\ RobotClock!TICK_CYCLES' = RobotClock!TICK_CYCLES
  BY DEF RobotClock!Cycles, RobotClock!TICK_CYCLES
<1>1. CASE RobotClock!Call
  <2>1. ~in_now /\ in_now' = TRUE /\ torn' = FALSE
        /\ UNCHANGED <<RobotClock!clock, reads, robot_time, at>>
    BY <1>1 DEF RobotClock!Call
  <2>2. in_now' \in BOOLEAN /\ torn' \in BOOLEAN
    BY <2>1
  <2>3. RobotTypeInv'
    BY <1>0, <2>1, <2>2 DEF RobotIInv, RobotTypeInv, RobotClock!clock
  <2>4. RobotReadInv'
    <3>1. \A o \in RobotClock!Operands : reads'[o] = RobotClock!NotRead
      BY <2>1 DEF RobotIInv, RobotReadInv
    <3> QED  BY <2>1, <3>1 DEF RobotReadInv, RobotClock!Operands
  <2> QED  BY <2>1, <2>3, <2>4, RobotClockRests DEF RobotIInv
<1>2. CASE RobotClock!Return
  <2>1. in_now' = FALSE /\ reads' = [o \in RobotClock!Operands |-> RobotClock!NotRead]
        /\ UNCHANGED <<RobotClock!clock, robot_time, at, torn>>
    BY <1>2 DEF RobotClock!Return
  <2>2. in_now' \in BOOLEAN /\ reads' \in [RobotClock!Operands -> Int]
    <3>1. RobotClock!NotRead \in Int
      BY DEF RobotClock!NotRead
    <3> QED  BY <2>1, <3>1
  <2>3. RobotTypeInv'
    BY <1>0, <2>1, <2>2 DEF RobotIInv, RobotTypeInv, RobotClock!clock
  <2>4. RobotReadInv'
    BY <2>1 DEF RobotReadInv
  <2> QED  BY <2>1, <2>3, <2>4, RobotClockRests DEF RobotIInv
<1>3. CASE UNCHANGED RobotClock!vars
  <2>1. UNCHANGED <<RobotClock!clock, reads, in_now, robot_time, at, torn>>
    BY <1>3 DEF RobotClock!vars
  <2>2. RobotTypeInv'
    BY <1>0, <2>1 DEF RobotIInv, RobotTypeInv, RobotClock!clock
  <2>3. RobotReadInv'
    BY <1>0, <2>1 DEF RobotIInv, RobotReadInv, RobotReadAt, RobotClock!clock
  <2> QED  BY <2>1, <2>2, <2>3, RobotClockRests DEF RobotIInv
<1> QED  BY <1>1, <1>2, <1>3, RobotCycle, RobotTick, RobotRead DEF RobotClock!Next

LEMMA RobotReadingIs ==
  ASSUME RobotClock!RoombaClockAssumption, RobotIInv, RobotClock!Return, ~torn
  PROVE  (at - robot_answer' * ROBOT_CYCLES_PER_MS) % RobotClock!Wrap
           \in 0 .. ROBOT_CYCLES_PER_MS - 1 + 2 * LATENCY
<1> DEFINE M == ROBOT_CYCLES_PER_MS
           n == ticks_from_start
           S == RobotClock!SinceTick
           q == S \div M
           r == S % M
           s == n * ROBOT_TICK + q
           A == s % ROBOT_WORD
           k == s \div ROBOT_WORD
<1>0. /\ ROBOT_TICK \in Nat \ {0} /\ M \in Nat \ {0} /\ ROBOT_WORD \in Nat \ {0}
      /\ LATENCY \in Nat
      /\ TIMER_WORD \in Nat \ {0} /\ RobotClock!TICK_CYCLES = ROBOT_TICK * M
      /\ RobotClock!TICK_CYCLES \in Nat \ {0}
      /\ RobotClock!Wrap \in Nat \ {0} /\ RobotClock!Wrap = ROBOT_WORD * M
      /\ RobotClock!Cycles = ROBOT_WORD * RobotClock!TICK_CYCLES
      /\ RobotClock!Cycles \in Nat \ {0}
      /\ n \in 0 .. ROBOT_WORD - 1 /\ at \in Int /\ reads \in [RobotClock!Operands -> Int]
  BY RobotConstants DEF RobotIInv, RobotTypeInv
<1>1. /\ in_now /\ reads["ticks"] = n /\ reads["val"] = current_timer_val
      /\ \E i \in Int, e \in 0 .. 2 * LATENCY : RobotReadAt(i, e)
  BY DEF RobotClock!Return, RobotIInv, RobotReadInv, RobotClock!Operands
<1>2. S \in Int
  <2>1. reads["TCNT1"] \in Int /\ reads["val"] \in Int
    BY <1>0 DEF RobotClock!Operands
  <2>2. reads["TCNT1"] - reads["val"] \in Int
    BY <2>1
  <2>3. (reads["TCNT1"] - reads["val"]) % TIMER_WORD \in 0 .. TIMER_WORD - 1
    BY <1>0, <2>2, Quotient
  <2> QED  BY <2>3 DEF RobotClock!SinceTick
<1>3. PICK i \in Int, e \in 0 .. 2 * LATENCY
             : at = n * RobotClock!TICK_CYCLES + S + e + RobotClock!Cycles * i
  BY <1>1 DEF RobotReadAt, RobotClock!SinceTick
<1>4. S = M * q + r /\ r \in 0 .. M - 1 /\ q \in Int
  BY <1>0, <1>2, Quotient
<1>5. robot_answer' = A
  BY <1>1 DEF RobotClock!Return, RobotClock!Reading
<1> HIDE DEF S, q, r
<1>6. s \in Int /\ s = ROBOT_WORD * k + A /\ k \in Int /\ A \in Int
  <2>1. s \in Int
    BY <1>0, <1>4
  <2>2. s = ROBOT_WORD * (s \div ROBOT_WORD) + (s % ROBOT_WORD)
        /\ s % ROBOT_WORD \in 0 .. ROBOT_WORD - 1 /\ s \div ROBOT_WORD \in Int
    <3> HIDE DEF s
    <3> QED  BY <1>0, <2>1, Quotient
  <2> QED  BY <1>0, <2>1, <2>2
<1> HIDE DEF k, A, s
<1> DEFINE a == at - A * M
           z == k + ROBOT_TICK * i
           x == e + r
           c1 == n * RobotClock!TICK_CYCLES
           c2 == ROBOT_WORD * k * M
           c3 == RobotClock!Cycles * i
           c4 == M * q
           c5 == s * M
           c6 == A * M
<1>7. z \in Int /\ x \in Nat /\ x \in 0 .. M - 1 + 2 * LATENCY
  <2>1. ROBOT_TICK * i \in Int
    BY <1>0
  <2> QED  BY <1>0, <1>4, <1>6, <2>1
<1>8. /\ c1 \in Int /\ c2 \in Int /\ c3 \in Int /\ c4 \in Int /\ c5 \in Int /\ c6 \in Int
      /\ RobotClock!Wrap * z \in Int
  BY <1>0, <1>3, <1>4, <1>6, <1>7
<1>9. c5 = c2 + c6
  <2>1. (ROBOT_WORD * k + A) * M = ROBOT_WORD * k * M + A * M
    BY <1>0, <1>6
  <2> QED  BY <1>6, <2>1
<1>10. c5 = c1 + c4
  <2>1. (n * ROBOT_TICK + q) * M = n * (ROBOT_TICK * M) + M * q
    BY <1>0, <1>4
  <2> QED  BY <1>0, <2>1 DEF s
<1>11. RobotClock!Wrap * z = c2 + c3
  <2>1. ROBOT_WORD * M * (k + ROBOT_TICK * i)
          = ROBOT_WORD * k * M + ROBOT_WORD * (ROBOT_TICK * M) * i
    BY <1>0, <1>6
  <2> QED  BY <1>0, <2>1
<1>12. a = x + RobotClock!Wrap * z /\ a \in Int
  <2>1. at = c1 + S + e + c3 /\ S = c4 + r /\ a = at - c6 /\ x = e + r
    BY <1>3, <1>4
  <2>2. e \in Int /\ r \in Int /\ at \in Int
    BY <1>0, <1>4
  <2> HIDE DEF c1, c2, c3, c4, c5, c6, a, x, z
  <2> QED  BY <1>2, <1>8, <1>9, <1>10, <1>11, <2>1, <2>2
<1>13. a % RobotClock!Wrap \in 0 .. x
  <2> HIDE DEF a, x, z
  <2> QED  BY <1>0, <1>7, <1>12, RemainderUpTo
<1>14. a % RobotClock!Wrap \in 0 .. M - 1 + 2 * LATENCY
  <2> HIDE DEF a, x, z
  <2> QED  BY <1>0, <1>7, <1>13
<1> QED  BY <1>5, <1>14

LEMMA RobotClockTracks ==
  ASSUME RobotClock!RoombaClockAssumption, RobotTicksInTime
  PROVE  RobotClock!Spec => RobotClock!NowTracksTime
<1>1. ASSUME RobotIInv, [RobotClock!Next]_(RobotClock!vars)
      PROVE  [RobotClock!Returns /\ ~torn =>
                (at - robot_answer' * ROBOT_CYCLES_PER_MS) % RobotClock!Wrap
                  \in 0 .. ROBOT_CYCLES_PER_MS - 1 + 2 * LATENCY]_(RobotClock!vars)
  <2>1. RobotClock!Returns => RobotClock!Return
    BY <1>1 DEF RobotClock!Returns, RobotClock!Next, RobotClock!Cycle,
                RobotClock!TIMER1_COMPA, RobotClock!Call, RobotClock!Read, RobotClock!vars
  <2> QED  BY <1>1, <2>1, RobotReadingIs
<1> QED  BY <1>1, RobotInit, RobotStep, PTL
     DEF RobotClock!Spec, RobotClock!NowTracksTime

\* The answer of Now() is the time, on the robots if no tick waits for as long as a
\* tick: rounding, drift and late ticks do not add up.
THEOREM ClocksTrack ==
  ASSUME LATENCY < RobotClock!TICK_CYCLES
  PROVE  MachinesSpec => ClocksTrackTime
<1>1. Clock!Spec => Clock!NowTracksTime
  BY MachinesAssumption, ClockTracks
<1>2. RobotClock!Spec => RobotClock!NowTracksTime
  BY MachinesAssumption, RobotClockTracks DEF RobotTicksInTime
<1> QED  BY ClockSpec, RobotClockSpec, <1>1, <1>2, PTL DEF ClocksTrackTime

-----------------------------------------------------------------------------
(* The scheduling of the PPP kernel (PppKernel).                           *)

\* READY tasks of a level.
PppReadyOf(l) == {t \in Ppp!Tasks : level[t] = l /\ state[t] = "READY"}
PppDeadTasks == {t \in Ppp!Tasks : state[t] = "DEAD"}

\* The task that has the processor, or will have it back.
PppRuns == ~inKernel \/ (state[cur_task] = "RUNNING" /\ cur_task # Ppp!Idle)

PppTypeInv ==
  /\ PPP \in Tables
  /\ cur_task \in Ppp!Tasks \cup {Ppp!Idle}
  /\ state \in [Ppp!Tasks \cup {Ppp!Idle} -> {"DEAD", "READY", "RUNNING"}]
  /\ level \in [Ppp!Tasks \cup {Ppp!Idle} -> {"SYSTEM", "PERIODIC", "RR", "NULL"}]
  /\ name \in [Ppp!Tasks -> {Ppp!IDLE} \cup Ppp!Names]
  /\ name_to_task_ptr \in [{Ppp!IDLE} \cup Ppp!Names -> Ppp!Tasks \cup {Ppp!NULL}]
  /\ dead_pool_queue \in Seq(Ppp!Tasks) /\ system_queue \in Seq(Ppp!Tasks)
  /\ rr_queue \in Seq(Ppp!Tasks)
  /\ slot \in Nat /\ (Ppp!PT > 0 => slot \in 1 .. Ppp!PT)
  /\ slot_task_finished \in BOOLEAN /\ inKernel \in BOOLEAN
  /\ error_msg = "NONE"
     => \A i \in 1 .. Ppp!PT : PPP[i].name \in {Ppp!IDLE} \cup Ppp!Names

PppPlaceInv ==
  /\ Holds(dead_pool_queue, PppDeadTasks)
  /\ Holds(system_queue, PppReadyOf("SYSTEM"))
  /\ Holds(rr_queue, PppReadyOf("RR"))

PppStateInv ==
  /\ level[Ppp!Idle] = "NULL"
  /\ \A t \in Ppp!Tasks :
       /\ state[t] = "DEAD" <=> level[t] = "NULL"
       /\ state[t] = "RUNNING" => t = cur_task
       /\ level[t] = "PERIODIC" => name[t] \in Ppp!Names /\ name_to_task_ptr[name[t]] = t
  /\ name_to_task_ptr[Ppp!IDLE] = Ppp!NULL
  /\ \A n \in Ppp!Names : name_to_task_ptr[n] # Ppp!NULL =>
        level[name_to_task_ptr[n]] = "PERIODIC" /\ name[name_to_task_ptr[n]] = n
  /\ ~inKernel => cur_task = Ppp!Idle \/ state[cur_task] = "RUNNING"

PppRunInv ==
  error_msg = "NONE" /\ PppRuns =>
     /\ Ppp!Level = "PERIODIC" => Ppp!PT > 0 /\ PPP[slot].name = name[cur_task]
        /\ ~slot_task_finished
     /\ Ppp!Level # "SYSTEM" => system_queue = <<>>
     /\ Ppp!Level \notin {"SYSTEM", "PERIODIC"} => ~Ppp!SlotTaskDue
     /\ cur_task = Ppp!Idle => rr_queue = <<>>

PppIInv == PppTypeInv /\ PppPlaceInv /\ PppStateInv /\ PppRunInv

LEMMA PppBasics ==
  ASSUME Ppp!PppAssumption
  PROVE  /\ MAXPROCESS \in Nat \ {0} /\ Ppp!Idle \notin Ppp!Tasks
         /\ Ppp!NULL \notin Ppp!Tasks
         /\ Ppp!Tasks \subseteq Nat /\ Ppp!IDLE \notin Ppp!Names /\ Ppp!Names = Ppp!Tasks
         /\ \A table \in Tables : Len(table) \in Nat
BY Ppp!PppAssumption
     DEF Ppp!PppAssumption, Ppp!Tasks, Ppp!Idle, Ppp!NULL, Ppp!IDLE, Ppp!Names

LEMMA PppSameHolds ==
  ASSUME NEW q, NEW S, NEW R, Holds(q, S), S = R PROVE Holds(q, R)
OBVIOUS

LEMMA PppEmptyHolds ==
  Holds(<<>>, {})
BY DEF Holds, IsInjective, Range

LEMMA PppIInvInit ==
  ASSUME Ppp!PppAssumption, Ppp!Init PROVE PppIInv
<1> USE PppBasics
<1>1. MAXPROCESS \in Nat /\ MAXPROCESS >= 1 /\ 1 \in Ppp!Tasks
  BY DEF Ppp!Tasks
<1>2. dead_pool_queue \in Seq(Ppp!Tasks)
  BY <1>1 DEF Ppp!Init, Ppp!Tasks
<1>3. PppTypeInv
  <2>1. Ppp!PT \in Nat /\ PPP \in Tables
    BY DEF Ppp!Init, Ppp!PT
  <2>2. slot \in Nat /\ (Ppp!PT > 0 => slot \in 1 .. Ppp!PT)
    BY <2>1 DEF Ppp!Init
  <2>3. error_msg = "NONE"
        => \A i \in 1 .. Ppp!PT : PPP[i].name \in {Ppp!IDLE} \cup Ppp!Names
    BY DEF Ppp!Init
  <2>4. <<>> \in Seq(Ppp!Tasks)
    OBVIOUS
  <2> QED  BY <1>1, <1>2, <2>1, <2>2, <2>3, <2>4 DEF Ppp!Init, PppTypeInv
<1>4. Holds(dead_pool_queue, PppDeadTasks)
  <2>1. PppDeadTasks = 2 .. MAXPROCESS
    <3>1. \A t \in Ppp!Tasks : state[t] = IF t = 1 THEN "RUNNING" ELSE "DEAD"
      BY <1>1, PppBasics DEF Ppp!Init
    <3>2. PppDeadTasks = {t \in 1 .. MAXPROCESS : t # 1}
      BY <3>1 DEF PppDeadTasks, Ppp!Tasks
    <3> QED  BY <1>1, <3>2
  <2>2. DOMAIN dead_pool_queue = 1 .. MAXPROCESS - 1
        /\ \A i \in 1 .. MAXPROCESS - 1 : dead_pool_queue[i] = i + 1
    BY DEF Ppp!Init
  <2>3. IsInjective(dead_pool_queue)
    BY <1>1, <2>2 DEF IsInjective
  <2>4. \A t \in 2 .. MAXPROCESS : t - 1 \in 1 .. MAXPROCESS - 1
        /\ dead_pool_queue[t - 1] = t
    BY <1>1, <2>2
  <2>5. Range(dead_pool_queue) = 2 .. MAXPROCESS
    <3>1. \A i \in 1 .. MAXPROCESS - 1 : i + 1 \in 2 .. MAXPROCESS
      BY <1>1
    <3> QED  BY <2>2, <2>4, <3>1 DEF Range
  <2> QED  BY <2>1, <2>3, <2>5 DEF Holds
<1>5. PppReadyOf("SYSTEM") = {} /\ PppReadyOf("RR") = {}
  BY <1>1 DEF Ppp!Init, PppReadyOf
<1>6. PppPlaceInv
  BY <1>4, <1>5, PppEmptyHolds DEF Ppp!Init, PppPlaceInv
<1>7. PppStateInv
  BY <1>1 DEF Ppp!Init, PppStateInv, Ppp!NULL, Ppp!Idle
<1>8. PppRunInv
  BY <1>1 DEF Ppp!Init, PppRunInv, Ppp!Level
<1> QED  BY <1>3, <1>6, <1>7, <1>8 DEF PppIInv

\* While a call or a tick is served the task that has the processor is RUNNING.
LEMMA PppCaller ==
  ASSUME Ppp!PppAssumption, PppIInv, Ppp!InTask, cur_task # Ppp!Idle
  PROVE  /\ cur_task \in Ppp!Tasks /\ state[cur_task] = "RUNNING"
         /\ Ppp!Level \in {"SYSTEM", "PERIODIC", "RR"}
         /\ PppRuns /\ error_msg = "NONE"
BY PppBasics DEF PppIInv, PppTypeInv, PppStateInv, Ppp!InTask, Ppp!Level, PppRuns

LEMMA PppAbortStep ==
  ASSUME Ppp!PppAssumption, PppIInv, NEW e, e # "NONE", Ppp!Abort(e) PROVE PppIInv'
<1> USE DEF Ppp!Abort, Ppp!tasks, Ppp!queues, Ppp!slots
<1>1. PppTypeInv'
  BY DEF PppIInv, PppTypeInv, Ppp!PT
<1>2. PppPlaceInv'
  BY DEF PppIInv, PppPlaceInv, PppDeadTasks, PppReadyOf
<1>3. PppStateInv'
  BY DEF PppIInv, PppStateInv
<1>4. PppRunInv'
  BY DEF PppRunInv
<1> QED  BY <1>1, <1>2, <1>3, <1>4 DEF PppIInv

\* What kernel_dispatch chooses.
LEMMA PppChosenIs ==
  ASSUME Ppp!PppAssumption, PppIInv, error_msg = "NONE"
  PROVE  \/ system_queue # <<>> /\ Ppp!Chosen = Head(system_queue)
            /\ Ppp!Chosen \in PppReadyOf("SYSTEM")
         \/ /\ system_queue = <<>> /\ Ppp!SlotTaskDue /\ Ppp!Chosen = Ppp!SlotTask
            /\ Ppp!PT > 0 /\ Ppp!Chosen \in Ppp!Tasks
            /\ level[Ppp!Chosen] = "PERIODIC" /\ name[Ppp!Chosen] = PPP[slot].name
         \/ /\ system_queue = <<>> /\ ~Ppp!SlotTaskDue /\ rr_queue # <<>>
            /\ Ppp!Chosen = Head(rr_queue)
            /\ Ppp!Chosen \in PppReadyOf("RR")
         \/ system_queue = <<>> /\ ~Ppp!SlotTaskDue /\ rr_queue = <<>>
            /\ Ppp!Chosen = Ppp!Idle
<1>1. /\ system_queue \in Seq(Ppp!Tasks) /\ rr_queue \in Seq(Ppp!Tasks)
      /\ Holds(system_queue, PppReadyOf("SYSTEM")) /\ Holds(rr_queue, PppReadyOf("RR"))
  BY DEF PppIInv, PppTypeInv, PppPlaceInv
<1>2. system_queue # <<>> => Head(system_queue) \in PppReadyOf("SYSTEM")
  BY <1>1, TailHolds
<1>3. rr_queue # <<>> => Head(rr_queue) \in PppReadyOf("RR")
  BY <1>1, TailHolds
<1>4. ASSUME Ppp!SlotTaskDue
      PROVE  Ppp!PT > 0 /\ Ppp!SlotTask \in Ppp!Tasks /\ level[Ppp!SlotTask] = "PERIODIC"
             /\ name[Ppp!SlotTask] = PPP[slot].name
  <2>1. Ppp!PT > 0 /\ Ppp!SlotTask = name_to_task_ptr[PPP[slot].name]
        /\ Ppp!SlotTask # Ppp!NULL
    BY <1>4 DEF Ppp!SlotTaskDue, Ppp!SlotTask
  <2>2. slot \in 1 .. Ppp!PT
    BY <2>1 DEF PppIInv, PppTypeInv
  <2>3. PPP[slot].name \in {Ppp!IDLE} \cup Ppp!Names
    BY <2>2 DEF PppIInv, PppTypeInv
  <2>4. PPP[slot].name \in Ppp!Names
    BY <2>1, <2>3 DEF PppIInv, PppStateInv
  <2> QED  BY <2>1, <2>4 DEF PppIInv, PppTypeInv, PppStateInv
<1> QED  BY <1>2, <1>3, <1>4 DEF Ppp!Chosen

LEMMA PppDispatchStep ==
  ASSUME Ppp!PppAssumption, PppIInv, Ppp!Dispatch PROVE PppIInv'
<1> DEFINE c == Ppp!Chosen
<1>0. error_msg = "NONE" /\ inKernel /\ PPP' = PPP /\ Ppp!PT' = Ppp!PT /\ ~inKernel'
      /\ inKernel' = FALSE
  BY DEF Ppp!Dispatch, Ppp!PT
<1>1. UNCHANGED <<PPP, level, name, name_to_task_ptr, dead_pool_queue, Ppp!slots,
      error_msg>>
  BY DEF Ppp!Dispatch
<1>2. CASE state[cur_task] = "RUNNING" /\ cur_task # Ppp!Idle
  <2>1. UNCHANGED <<cur_task, state, system_queue, rr_queue>>
    BY <1>2 DEF Ppp!Dispatch
  <2>2. PppTypeInv'
    BY <1>0, <1>1, <2>1 DEF PppIInv, PppTypeInv, Ppp!slots
  <2>3. PppPlaceInv'
    BY <1>1, <2>1 DEF PppIInv, PppPlaceInv, PppDeadTasks, PppReadyOf
  <2>4. PppStateInv'
    BY <1>1, <1>2, <2>1 DEF PppIInv, PppStateInv
  <2>5. PppRunInv'
    BY <1>0, <1>1, <1>2, <2>1 DEF PppIInv, PppRunInv, PppRuns, Ppp!Level,
                                  Ppp!SlotTaskDue, Ppp!SlotTask, Ppp!slots
  <2> QED  BY <2>2, <2>3, <2>4, <2>5 DEF PppIInv
<1>3. CASE ~(state[cur_task] = "RUNNING" /\ cur_task # Ppp!Idle)
  <2>1. /\ cur_task' = c /\ state' = [state EXCEPT ![c] = "RUNNING"]
        /\ system_queue' = IF level[c] = "SYSTEM" THEN Tail(system_queue)
           ELSE system_queue
        /\ rr_queue' = IF level[c] = "RR" THEN Tail(rr_queue) ELSE rr_queue
    BY <1>3 DEF Ppp!Dispatch
  <2>2. \/ system_queue # <<>> /\ c = Head(system_queue) /\ c \in PppReadyOf("SYSTEM")
        \/ /\ system_queue = <<>> /\ Ppp!SlotTaskDue /\ Ppp!PT > 0 /\ c \in Ppp!Tasks
           /\ level[c] = "PERIODIC" /\ name[c] = PPP[slot].name
        \/ /\ system_queue = <<>> /\ ~Ppp!SlotTaskDue /\ rr_queue # <<>>
           /\ c = Head(rr_queue)
           /\ c \in PppReadyOf("RR")
        \/ system_queue = <<>> /\ ~Ppp!SlotTaskDue /\ rr_queue = <<>> /\ c = Ppp!Idle
    BY <1>0, PppChosenIs
  <2> HIDE DEF c
  <2>3. c \in Ppp!Tasks \cup {Ppp!Idle} /\ level[Ppp!Idle] = "NULL"
        /\ Ppp!Idle \notin Ppp!Tasks
    BY <2>2, PppBasics DEF PppReadyOf, PppIInv, PppStateInv
  <2>4. /\ system_queue' \in Seq(Ppp!Tasks)
        /\ level[c] = "SYSTEM" => system_queue # <<>> /\ c = Head(system_queue)
        /\ Holds(system_queue', PppReadyOf("SYSTEM") \ {c})
    <3>1. system_queue \in Seq(Ppp!Tasks) /\ Holds(system_queue, PppReadyOf("SYSTEM"))
      BY DEF PppIInv, PppTypeInv, PppPlaceInv
    <3>2. level[c] = "SYSTEM" => system_queue # <<>> /\ c = Head(system_queue)
      BY <2>2, <2>3 DEF PppReadyOf
    <3>3. CASE level[c] = "SYSTEM"
      BY <2>1, <3>1, <3>2, <3>3, TailHolds
    <3>4. CASE level[c] # "SYSTEM"
      <4>1. c \notin PppReadyOf("SYSTEM")
        BY <3>4 DEF PppReadyOf
      <4> QED  BY <2>1, <3>1, <3>4, <4>1, PppSameHolds
    <3> QED  BY <3>2, <3>3, <3>4
  <2>5. /\ rr_queue' \in Seq(Ppp!Tasks)
        /\ Holds(rr_queue', PppReadyOf("RR") \ {c})
    <3>1. rr_queue \in Seq(Ppp!Tasks) /\ Holds(rr_queue, PppReadyOf("RR"))
      BY DEF PppIInv, PppTypeInv, PppPlaceInv
    <3>2. level[c] = "RR" => rr_queue # <<>> /\ c = Head(rr_queue)
      BY <2>2, <2>3 DEF PppReadyOf
    <3>3. CASE level[c] = "RR"
      BY <2>1, <3>1, <3>2, <3>3, TailHolds
    <3>4. CASE level[c] # "RR"
      <4>1. c \notin PppReadyOf("RR")
        BY <3>4 DEF PppReadyOf
      <4> QED  BY <2>1, <3>1, <3>4, <4>1, PppSameHolds
    <3> QED  BY <3>3, <3>4
  <2>6. state' \in [Ppp!Tasks \cup {Ppp!Idle} -> {"DEAD", "READY", "RUNNING"}]
        /\ \A t \in Ppp!Tasks : state'[t] = IF t = c THEN "RUNNING" ELSE state[t]
    BY <2>1, <2>3 DEF PppIInv, PppTypeInv
  <2>7. c = Ppp!Idle \/ level[c] \in {"SYSTEM", "PERIODIC", "RR"}
    BY <2>2 DEF PppReadyOf
  <2>8. PppTypeInv'
    BY <1>0, <1>1, <2>1, <2>3, <2>4, <2>5, <2>6 DEF PppIInv, PppTypeInv, Ppp!slots
  <2>9. PppPlaceInv'
    <3>1. PppDeadTasks' = PppDeadTasks
      BY <2>3, <2>6, <2>7, <1>1 DEF PppDeadTasks, PppIInv, PppStateInv
    <3>2. PppReadyOf("SYSTEM")' = PppReadyOf("SYSTEM") \ {c}
          /\ PppReadyOf("RR")' = PppReadyOf("RR") \ {c}
      BY <2>6, <1>1 DEF PppReadyOf
    <3> QED  BY <1>1, <2>4, <2>5, <3>1, <3>2 DEF PppIInv, PppPlaceInv
  <2>10. PppStateInv'
    <3>1. \A t \in Ppp!Tasks : state'[t] = "RUNNING" => t = cur_task'
      BY <1>3, <2>1, <2>3, <2>6 DEF PppIInv, PppStateInv
    <3>2. \A t \in Ppp!Tasks : state'[t] = "DEAD" <=> level[t] = "NULL"
      BY <2>3, <2>6, <2>7 DEF PppIInv, PppStateInv
    <3>3. cur_task' = Ppp!Idle \/ state'[cur_task'] = "RUNNING"
      BY <2>1, <2>3, <2>6
    <3> QED  BY <1>1, <3>1, <3>2, <3>3 DEF PppIInv, PppStateInv
  <2>11. PppRunInv'
    <3>1. Ppp!SlotTaskDue' = Ppp!SlotTaskDue /\ Ppp!Level' = level[c]
      BY <1>0, <1>1, <2>1 DEF Ppp!SlotTaskDue, Ppp!SlotTask, Ppp!slots, Ppp!Level
    <3>2. level[c] = "PERIODIC" => Ppp!PT > 0 /\ PPP[slot].name = name[c]
          /\ ~slot_task_finished
      BY <2>2, <2>3 DEF PppReadyOf, Ppp!SlotTaskDue
    <3>3. level[c] # "SYSTEM" => system_queue' = <<>>
      BY <2>1, <2>2 DEF PppReadyOf
    <3>4. level[c] \notin {"SYSTEM", "PERIODIC"} => ~Ppp!SlotTaskDue
      BY <2>2 DEF PppReadyOf
    <3>5. c = Ppp!Idle => rr_queue' = <<>>
      BY <2>1, <2>2, <2>3 DEF PppReadyOf
    <3> QED
      BY <1>0, <1>1, <2>1, <3>1, <3>2, <3>3, <3>4, <3>5 DEF PppRunInv, Ppp!slots
  <2> QED  BY <2>8, <2>9, <2>10, <2>11 DEF PppIInv
<1> QED  BY <1>2, <1>3

\* A task that is not ready goes to the end of its queue, or stays.
LEMMA PppRequeue ==
  ASSUME NEW q \in Seq(Ppp!Tasks), NEW S, Holds(q, S), NEW t \in Ppp!Tasks, t \notin S,
         NEW b \in BOOLEAN
  PROVE  LET r == IF b THEN Append(q, t) ELSE q
         IN  r \in Seq(Ppp!Tasks) /\ Holds(r, IF b THEN S \cup {t} ELSE S)
BY AppendHolds

LEMMA PppTickStep ==
  ASSUME Ppp!PppAssumption, PppIInv, Ppp!Tick PROVE PppIInv'
<1>0. Ppp!InTask /\ ~inKernel /\ error_msg = "NONE" /\ PppRuns
  BY DEF Ppp!Tick, Ppp!InTask, PppRuns
<1>1. CASE Ppp!SlotEnds /\ Ppp!Level = "PERIODIC" /\ ~slot_task_finished
  <2>1. Ppp!Abort("PERIODIC_TOOK_TOO_LONG")
    BY <1>1 DEF Ppp!Tick
  <2> QED  BY <2>1, PppAbortStep
<1>2. CASE ~(Ppp!SlotEnds /\ Ppp!Level = "PERIODIC" /\ ~slot_task_finished)
  <2>1. /\ IF Ppp!SlotEnds
           THEN /\ slot' = Ppp!NextSlot
                /\ slot_task_finished' = (name_to_task_ptr[PPP[Ppp!NextSlot].name]
                     = Ppp!NULL)
           ELSE UNCHANGED <<slot, slot_task_finished>>
        /\ state' = [state EXCEPT ![cur_task] = IF Ppp!Level = "RR" THEN "READY" ELSE @]
        /\ rr_queue' = IF Ppp!Level = "RR" THEN Append(rr_queue, cur_task) ELSE rr_queue
        /\ inKernel' = TRUE
        /\ UNCHANGED <<PPP, error_msg, cur_task, level, name, name_to_task_ptr,
                       dead_pool_queue, system_queue>>
        /\ Ppp!PT' = Ppp!PT
    BY <1>2 DEF Ppp!Tick, Ppp!RrAfterTick, Ppp!Enter, Ppp!PT
  <2>2. /\ cur_task # Ppp!Idle => cur_task \in Ppp!Tasks /\ state[cur_task] = "RUNNING"
        /\ cur_task = Ppp!Idle => Ppp!Level = "NULL"
    BY <1>0, PppCaller DEF Ppp!Level, PppIInv, PppStateInv
  <2>3. ~(Ppp!SlotEnds /\ Ppp!Level = "PERIODIC")
    BY <1>0, <1>2 DEF PppIInv, PppRunInv
  <2>4. state' \in [Ppp!Tasks \cup {Ppp!Idle} -> {"DEAD", "READY", "RUNNING"}]
        /\ \A t \in Ppp!Tasks : state'[t] =
             IF Ppp!Level = "RR" /\ t = cur_task THEN "READY" ELSE state[t]
    BY <2>1, <2>2 DEF PppIInv, PppTypeInv
  <2>5. rr_queue' \in Seq(Ppp!Tasks)
        /\ Holds(rr_queue',
             IF Ppp!Level = "RR" THEN PppReadyOf("RR") \cup {cur_task}
             ELSE PppReadyOf("RR"))
    <3>1. rr_queue \in Seq(Ppp!Tasks) /\ Holds(rr_queue, PppReadyOf("RR"))
      BY DEF PppIInv, PppTypeInv, PppPlaceInv
    <3>2. Ppp!Level = "RR" => cur_task \in Ppp!Tasks /\ cur_task \notin PppReadyOf("RR")
      BY <2>2 DEF PppReadyOf
    <3> QED  BY <2>1, <3>1, <3>2, AppendHolds
  <2>6. slot' \in Nat /\ slot_task_finished' \in BOOLEAN
        /\ (Ppp!PT > 0 => slot' \in 1 .. Ppp!PT)
    <3>1. Ppp!PT \in Nat
      BY PppBasics DEF Ppp!PT, PppIInv, PppTypeInv
    <3>2. CASE Ppp!SlotEnds
      <4>1. Ppp!PT > 0 /\ slot \in Nat
        BY <3>2 DEF Ppp!SlotEnds, PppIInv, PppTypeInv
      <4>2. Ppp!NextSlot \in 1 .. Ppp!PT
        BY <3>1, <4>1 DEF Ppp!NextSlot
      <4> QED  BY <2>1, <3>2, <4>2
    <3>3. CASE ~Ppp!SlotEnds
      BY <2>1, <3>3 DEF PppIInv, PppTypeInv
    <3> QED  BY <3>2, <3>3
  <2>7. PppTypeInv'
    BY <2>1, <2>4, <2>5, <2>6 DEF PppIInv, PppTypeInv
  <2>8. PppPlaceInv'
    <3>1. PppDeadTasks' = PppDeadTasks
      BY <2>2, <2>4 DEF PppDeadTasks
    <3>2. PppReadyOf("SYSTEM")' = PppReadyOf("SYSTEM")
      BY <2>1, <2>2, <2>4 DEF PppReadyOf, Ppp!Level
    <3>3. PppReadyOf("RR")' =
            IF Ppp!Level = "RR" THEN PppReadyOf("RR") \cup {cur_task}
            ELSE PppReadyOf("RR")
      BY <2>1, <2>2, <2>4 DEF PppReadyOf, Ppp!Level
    <3> QED  BY <2>1, <2>5, <3>1, <3>2, <3>3 DEF PppIInv, PppPlaceInv
  <2>9. PppStateInv'
    <3>1. \A t \in Ppp!Tasks : (state'[t] = "DEAD" <=> level[t] = "NULL")
                               /\ (state'[t] = "RUNNING" => t = cur_task)
      BY <2>2, <2>4 DEF PppIInv, PppStateInv
    <3> QED  BY <2>1, <3>1 DEF PppIInv, PppStateInv
  <2>10. PppRunInv'
    <3> SUFFICES ASSUME PppRuns'
                 PROVE  /\ Ppp!Level' = "PERIODIC" => Ppp!PT' > 0
                           /\ PPP'[slot'].name = name'[cur_task']
                                                      /\ ~slot_task_finished'
                        /\ Ppp!Level' # "SYSTEM" => system_queue' = <<>>
                        /\ Ppp!Level' \notin {"SYSTEM", "PERIODIC"} => ~Ppp!SlotTaskDue'
                        /\ cur_task' = Ppp!Idle => rr_queue' = <<>>
      BY DEF PppRunInv
    <3>1. cur_task # Ppp!Idle /\ state'[cur_task] = "RUNNING"
      BY <2>1 DEF PppRuns
    <3>2. Ppp!Level' = Ppp!Level /\ Ppp!Level \in {"SYSTEM", "PERIODIC"}
      BY <2>1, <2>4, <3>1, <1>0, PppCaller DEF Ppp!Level
    <3>3. Ppp!Level = "PERIODIC" => ~Ppp!SlotEnds
      BY <2>3
    <3> QED  BY <1>0, <2>1, <3>1, <3>2, <3>3 DEF PppIInv, PppRunInv
  <2> QED  BY <2>7, <2>8, <2>9, <2>10 DEF PppIInv
<1> QED  BY <1>1, <1>2

\* Nothing but the step into the kernel.
LEMMA PppEnterStep ==
  ASSUME Ppp!PppAssumption, PppIInv, Ppp!InCall, Ppp!Enter, UNCHANGED <<cur_task,
         Ppp!tasks, Ppp!queues, Ppp!slots>>
  PROVE  PppIInv'
<1> USE DEF Ppp!Enter, Ppp!tasks, Ppp!queues, Ppp!slots
<1>0. PppRuns /\ cur_task \in Ppp!Tasks /\ state[cur_task] = "RUNNING" /\ Ppp!PT' = Ppp!PT
  BY PppCaller DEF Ppp!InCall, Ppp!PT
<1>1. PppTypeInv'
  BY <1>0 DEF PppIInv, PppTypeInv
<1>2. PppPlaceInv'
  BY DEF PppIInv, PppPlaceInv, PppDeadTasks, PppReadyOf
<1>3. PppStateInv'
  BY DEF PppIInv, PppStateInv
<1>4. PppRunInv'
  BY <1>0 DEF PppIInv, PppRunInv, Ppp!Level, Ppp!SlotTaskDue, Ppp!SlotTask
<1> QED  BY <1>1, <1>2, <1>3, <1>4 DEF PppIInv

LEMMA PppCreateStep ==
  ASSUME Ppp!PppAssumption, PppIInv, Ppp!InCall, NEW l \in {"SYSTEM", "PERIODIC", "RR"},
         NEW n,
         dead_pool_queue # <<>>, Ppp!Create(l, n), n \in {Ppp!IDLE} \cup Ppp!Names,
         l = "PERIODIC" => n \in Ppp!Names /\ name_to_task_ptr[n] = Ppp!NULL
  PROVE  PppIInv'
<1> DEFINE t == Head(dead_pool_queue)
           stops == Ppp!CreatorStops(l, n)
<1>0. /\ cur_task \in Ppp!Tasks /\ state[cur_task] = "RUNNING"
      /\ Ppp!Level \in {"SYSTEM", "PERIODIC", "RR"}
      /\ PppRuns /\ error_msg = "NONE" /\ Ppp!Level = level[cur_task]
  BY PppCaller DEF Ppp!InCall, Ppp!Level
<1>1. /\ state' = [state EXCEPT ![t] = "READY", ![cur_task] =
           IF stops THEN "READY" ELSE @]
      /\ level' = [level EXCEPT ![t] = l]
      /\ name' = [name EXCEPT ![t] = n]
      /\ dead_pool_queue' = Tail(dead_pool_queue)
      /\ name_to_task_ptr' =
            IF l = "PERIODIC" THEN [name_to_task_ptr EXCEPT ![n] = t]
            ELSE name_to_task_ptr
      /\ system_queue' = IF l = "SYSTEM" THEN Append(system_queue, t) ELSE system_queue
      /\ rr_queue' = LET ready == IF l = "RR" THEN Append(rr_queue, t) ELSE rr_queue
                     IN  IF stops /\ Ppp!Level = "RR" THEN Append(ready, cur_task)
                     ELSE ready
      /\ inKernel' = TRUE
      /\ UNCHANGED <<PPP, error_msg, cur_task, Ppp!slots>> /\ Ppp!PT' = Ppp!PT
  BY DEF Ppp!Create, Ppp!Enter, Ppp!PT
<1>2. /\ t \in PppDeadTasks /\ t \in Ppp!Tasks
      /\ Tail(dead_pool_queue) \in Seq(Ppp!Tasks)
      /\ Holds(Tail(dead_pool_queue), PppDeadTasks \ {t})
  BY TailHolds DEF PppIInv, PppTypeInv, PppPlaceInv
<1>3. stops => (l = "SYSTEM" /\ Ppp!Level # "SYSTEM")
      \/ (l = "PERIODIC" /\ Ppp!Level = "RR")
  BY DEF Ppp!CreatorStops
<1> HIDE DEF t
<1>4. t # cur_task /\ level[t] = "NULL" /\ state[t] = "DEAD"
      /\ name_to_task_ptr[Ppp!IDLE] = Ppp!NULL
  BY <1>0, <1>2 DEF PppDeadTasks, PppIInv, PppStateInv
<1>5. /\ stops \in BOOLEAN
      /\ stops => Ppp!Level # "SYSTEM"
  BY <1>3 DEF Ppp!CreatorStops
<1> HIDE DEF stops
<1>6. /\ state' \in [Ppp!Tasks \cup {Ppp!Idle} -> {"DEAD", "READY", "RUNNING"}]
      /\ level' \in [Ppp!Tasks \cup {Ppp!Idle} -> {"SYSTEM", "PERIODIC", "RR", "NULL"}]
      /\ name' \in [Ppp!Tasks -> {Ppp!IDLE} \cup Ppp!Names]
      /\ name_to_task_ptr' \in [{Ppp!IDLE} \cup Ppp!Names -> Ppp!Tasks \cup {Ppp!NULL}]
      /\ \A u \in Ppp!Tasks : /\ state'[u] = IF u = t \/ (u = cur_task /\ stops)
                                 THEN "READY" ELSE state[u]
                              /\ level'[u] = IF u = t THEN l ELSE level[u]
                              /\ name'[u] = IF u = t THEN n ELSE name[u]
      /\ \A m \in {Ppp!IDLE} \cup Ppp!Names :
            name_to_task_ptr'[m] =
              IF l = "PERIODIC" /\ m = n THEN t ELSE name_to_task_ptr[m]
      /\ level'[Ppp!Idle] = "NULL"
  <2>1. /\ state \in [Ppp!Tasks \cup {Ppp!Idle} -> {"DEAD", "READY", "RUNNING"}]
        /\ level \in [Ppp!Tasks \cup {Ppp!Idle} -> {"SYSTEM", "PERIODIC", "RR", "NULL"}]
        /\ name \in [Ppp!Tasks -> {Ppp!IDLE} \cup Ppp!Names] /\ level[Ppp!Idle] = "NULL"
        /\ name_to_task_ptr \in [{Ppp!IDLE} \cup Ppp!Names -> Ppp!Tasks \cup {Ppp!NULL}]
        /\ Ppp!Idle \notin Ppp!Tasks
    BY PppBasics DEF PppIInv, PppTypeInv, PppStateInv
  <2>2. /\ state' \in [Ppp!Tasks \cup {Ppp!Idle} -> {"DEAD", "READY", "RUNNING"}]
        /\ \A u \in Ppp!Tasks : state'[u] =
             IF u = t \/ (u = cur_task /\ stops) THEN "READY" ELSE state[u]
    BY <1>0, <1>1, <1>2, <1>4, <2>1
  <2>3. /\ level' \in [Ppp!Tasks \cup {Ppp!Idle} -> {"SYSTEM", "PERIODIC", "RR", "NULL"}]
        /\ \A u \in Ppp!Tasks : level'[u] = IF u = t THEN l ELSE level[u]
        /\ level'[Ppp!Idle] = "NULL"
    BY <1>1, <1>2, <2>1
  <2>4. /\ name' \in [Ppp!Tasks -> {Ppp!IDLE} \cup Ppp!Names]
        /\ \A u \in Ppp!Tasks : name'[u] = IF u = t THEN n ELSE name[u]
    BY <1>1, <1>2, <2>1
  <2>5. /\ name_to_task_ptr' \in [{Ppp!IDLE} \cup Ppp!Names -> Ppp!Tasks \cup {Ppp!NULL}]
        /\ \A m \in {Ppp!IDLE} \cup Ppp!Names :
              name_to_task_ptr'[m] =
                IF l = "PERIODIC" /\ m = n THEN t ELSE name_to_task_ptr[m]
    BY <1>1, <1>2, <2>1
  <2> QED  BY <2>2, <2>3, <2>4, <2>5
<1>7. /\ system_queue \in Seq(Ppp!Tasks) /\ Holds(system_queue, PppReadyOf("SYSTEM"))
      /\ rr_queue \in Seq(Ppp!Tasks) /\ Holds(rr_queue, PppReadyOf("RR"))
      /\ t \notin PppReadyOf("SYSTEM") /\ t \notin PppReadyOf("RR")
      /\ cur_task \notin PppReadyOf("RR")
  BY <1>0, <1>4 DEF PppIInv, PppTypeInv, PppPlaceInv, PppReadyOf
<1>8. /\ system_queue' \in Seq(Ppp!Tasks)
      /\ Holds(system_queue',
           IF l = "SYSTEM" THEN PppReadyOf("SYSTEM") \cup {t} ELSE PppReadyOf("SYSTEM"))
  BY <1>1, <1>2, <1>7, AppendHolds
<1> DEFINE ready == IF l = "RR" THEN Append(rr_queue, t) ELSE rr_queue
           R == IF l = "RR" THEN PppReadyOf("RR") \cup {t} ELSE PppReadyOf("RR")
<1>9. ready \in Seq(Ppp!Tasks) /\ Holds(ready, R) /\ cur_task \notin R
  BY <1>2, <1>4, <1>7, AppendHolds
<1>10. rr_queue' = IF stops /\ Ppp!Level = "RR" THEN Append(ready, cur_task) ELSE ready
  BY <1>1
<1> HIDE DEF ready, R
<1>11. /\ rr_queue' \in Seq(Ppp!Tasks)
       /\ Holds(rr_queue', IF stops /\ Ppp!Level = "RR" THEN R \cup {cur_task} ELSE R)
  BY <1>0, <1>9, <1>10, AppendHolds
<1>12. PppTypeInv'
  BY <1>1, <1>2, <1>6, <1>8, <1>11 DEF PppIInv, PppTypeInv, Ppp!slots
<1>13. PppPlaceInv'
  <2>1. PppDeadTasks' = PppDeadTasks \ {t}
    BY <1>0, <1>2, <1>6 DEF PppDeadTasks
  <2>2. PppReadyOf("SYSTEM")' =
          IF l = "SYSTEM" THEN PppReadyOf("SYSTEM") \cup {t} ELSE PppReadyOf("SYSTEM")
    BY <1>0, <1>2, <1>4, <1>5, <1>6 DEF PppReadyOf
  <2>3. PppReadyOf("RR")' = IF stops /\ Ppp!Level = "RR" THEN R \cup {cur_task} ELSE R
    BY <1>0, <1>2, <1>4, <1>6 DEF PppReadyOf, R
  <2> QED  BY <1>1, <1>2, <1>8, <1>11, <2>1, <2>2, <2>3 DEF PppPlaceInv
<1>14. PppStateInv'
  <2>1. ASSUME NEW u \in Ppp!Tasks
        PROVE  /\ state'[u] = "DEAD" <=> level'[u] = "NULL"
               /\ state'[u] = "RUNNING" => u = cur_task
               /\ level'[u] = "PERIODIC" => name'[u] \in Ppp!Names
                  /\ name_to_task_ptr'[name'[u]] = u
    <3>1. CASE u = t
      BY <1>4, <1>6, <3>1
    <3>2. CASE u # t
      <4>1. /\ level[u] = "NULL" <=> state[u] = "DEAD"
            /\ state[u] = "RUNNING" => u = cur_task
            /\ level[u] = "PERIODIC" => name[u] \in Ppp!Names
               /\ name_to_task_ptr[name[u]] = u
        BY DEF PppIInv, PppStateInv
      <4>2. level[u] = "PERIODIC" /\ l = "PERIODIC" => name[u] # n
        BY <4>1, PppBasics
      <4> QED  BY <1>0, <1>6, <3>2, <4>1, <4>2
    <3> QED  BY <3>1, <3>2
  <2>2. name_to_task_ptr'[Ppp!IDLE] = Ppp!NULL
    BY <1>4, <1>6, PppBasics
  <2>3. ASSUME NEW m \in Ppp!Names, name_to_task_ptr'[m] # Ppp!NULL
        PROVE  level'[name_to_task_ptr'[m]] = "PERIODIC"
               /\ name'[name_to_task_ptr'[m]] = m
    <3>1. CASE l = "PERIODIC" /\ m = n
      BY <1>2, <1>6, <3>1
    <3>2. CASE ~(l = "PERIODIC" /\ m = n)
      <4>1. name_to_task_ptr'[m] = name_to_task_ptr[m]
        BY <1>6, <3>2
      <4>2. name_to_task_ptr[m] \in Ppp!Tasks /\ level[name_to_task_ptr[m]] = "PERIODIC"
            /\ name[name_to_task_ptr[m]] = m
        BY <2>3, <4>1 DEF PppIInv, PppTypeInv, PppStateInv
      <4> QED  BY <1>4, <1>6, <4>1, <4>2
    <3> QED  BY <3>1, <3>2
  <2> QED  BY <1>1, <1>6, <2>1, <2>2, <2>3 DEF PppStateInv
<1>15. PppRunInv'
  <2> SUFFICES ASSUME PppRuns'
               PROVE  /\ Ppp!Level' = "PERIODIC" => Ppp!PT' > 0
                         /\ PPP'[slot'].name = name'[cur_task']
                                                    /\ ~slot_task_finished'
                      /\ Ppp!Level' # "SYSTEM" => system_queue' = <<>>
                      /\ Ppp!Level' \notin {"SYSTEM", "PERIODIC"} => ~Ppp!SlotTaskDue'
                      /\ cur_task' = Ppp!Idle => rr_queue' = <<>>
    BY DEF PppRunInv
  <2>1. ~stops
    BY <1>0, <1>1, <1>6 DEF PppRuns
  <2>2. Ppp!Level' = Ppp!Level /\ name'[cur_task'] = name[cur_task]
        /\ cur_task' # Ppp!Idle
    BY <1>0, <1>1, <1>4, <1>6, PppBasics DEF Ppp!Level
  <2>3. l = "SYSTEM" => Ppp!Level = "SYSTEM"
    BY <2>1 DEF stops, Ppp!CreatorStops
  <2>4. l = "PERIODIC" /\ Ppp!Level = "RR" => ~(Ppp!PT > 0 /\ PPP[slot].name = n)
    BY <2>1 DEF stops, Ppp!CreatorStops
  <2>5. ASSUME Ppp!Level = "RR" PROVE Ppp!SlotTask' = Ppp!SlotTask
    <3>1. CASE Ppp!PT > 0
      <4>1. slot \in 1 .. Ppp!PT /\ PPP[slot].name \in {Ppp!IDLE} \cup Ppp!Names
        BY <1>0, <3>1 DEF PppIInv, PppTypeInv
      <4>2. name_to_task_ptr'[PPP[slot].name] = name_to_task_ptr[PPP[slot].name]
        BY <1>6, <2>4, <2>5, <3>1, <4>1
      <4> QED  BY <1>1, <3>1, <4>2 DEF Ppp!SlotTask, Ppp!slots
    <3>2. CASE ~(Ppp!PT > 0)
      BY <1>1, <3>2 DEF Ppp!SlotTask
    <3> QED  BY <3>1, <3>2
  <2>6. Ppp!Level = "PERIODIC" => Ppp!PT > 0 /\ PPP[slot].name = name[cur_task]
        /\ ~slot_task_finished
    BY <1>0 DEF PppIInv, PppRunInv
  <2>7. Ppp!Level # "SYSTEM" => system_queue' = <<>>
    BY <1>0, <1>1, <2>3 DEF PppIInv, PppRunInv
  <2>8. Ppp!Level \notin {"SYSTEM", "PERIODIC"} => ~Ppp!SlotTaskDue'
    <3>1. Ppp!Level \notin {"SYSTEM", "PERIODIC"} => ~Ppp!SlotTaskDue /\ Ppp!Level = "RR"
      BY <1>0 DEF PppIInv, PppRunInv
    <3> QED  BY <1>1, <2>5, <3>1 DEF Ppp!SlotTaskDue, Ppp!slots
  <2> QED  BY <1>1, <2>2, <2>6, <2>7, <2>8 DEF Ppp!slots
<1> QED  BY <1>12, <1>13, <1>14, <1>15 DEF PppIInv

LEMMA PppTask_CreateStep ==
  ASSUME Ppp!PppAssumption, PppIInv, NEW l \in {"SYSTEM", "PERIODIC", "RR"}, NEW n,
         Ppp!Task_Create(l, n),
         l # "PERIODIC" => n = Ppp!IDLE
  PROVE  PppIInv'
<1>1. Ppp!InCall
  BY DEF Ppp!Task_Create
<1>2. CASE dead_pool_queue = <<>>
  BY <1>1, <1>2, PppEnterStep DEF Ppp!Task_Create
<1>3. CASE dead_pool_queue # <<>>
           /\ (l = "PERIODIC" => n \in Ppp!Names /\ name_to_task_ptr[n] = Ppp!NULL)
            /\ Ppp!Create(l, n)
  <2>1. n \in {Ppp!IDLE} \cup Ppp!Names
    BY <1>3
  <2> QED  BY <1>1, <1>3, <2>1, PppCreateStep
<1>4. CASE \E e \in {"CREATE_NAME_OUT_OF_RANGE", "NAME_NOT_IN_PPP",
           "PERIODIC_NAME_IN_USE"} : Ppp!Abort(e)
  BY <1>4, PppAbortStep
<1> QED  BY <1>2, <1>3, <1>4 DEF Ppp!Task_Create

\* A call after which the caller does not run on: it is READY in its queue, or DEAD.
LEMMA PppTask_NextStep ==
  ASSUME Ppp!PppAssumption, PppIInv, Ppp!Task_Next PROVE PppIInv'
<1>0. /\ cur_task \in Ppp!Tasks /\ state[cur_task] = "RUNNING"
      /\ Ppp!Level \in {"SYSTEM", "PERIODIC", "RR"}
      /\ PppRuns /\ error_msg = "NONE" /\ Ppp!Level = level[cur_task] /\ Ppp!InCall
  BY PppCaller DEF Ppp!Task_Next, Ppp!InCall, Ppp!Level
<1>1. /\ state' = [state EXCEPT ![cur_task] = "READY"]
      /\ system_queue' = IF Ppp!Level = "SYSTEM" THEN Append(system_queue, cur_task)
         ELSE system_queue
      /\ rr_queue' = IF Ppp!Level = "RR" THEN Append(rr_queue, cur_task) ELSE rr_queue
      /\ slot_task_finished' = (slot_task_finished \/ Ppp!Level = "PERIODIC")
      /\ inKernel' = TRUE
      /\ UNCHANGED <<PPP, error_msg, cur_task, level, name, name_to_task_ptr,
         dead_pool_queue, slot>>
      /\ Ppp!PT' = Ppp!PT
  BY DEF Ppp!Task_Next, Ppp!Enter, Ppp!PT
<1>2. state' \in [Ppp!Tasks \cup {Ppp!Idle} -> {"DEAD", "READY", "RUNNING"}]
      /\ \A t \in Ppp!Tasks : state'[t] = IF t = cur_task THEN "READY" ELSE state[t]
  BY <1>0, <1>1 DEF PppIInv, PppTypeInv
<1>3. /\ system_queue' \in Seq(Ppp!Tasks) /\ rr_queue' \in Seq(Ppp!Tasks)
      /\ Holds(system_queue',
           IF Ppp!Level = "SYSTEM" THEN PppReadyOf("SYSTEM") \cup {cur_task}
           ELSE PppReadyOf("SYSTEM"))
      /\ Holds(rr_queue',
           IF Ppp!Level = "RR" THEN PppReadyOf("RR") \cup {cur_task}
           ELSE PppReadyOf("RR"))
  <2>1. /\ system_queue \in Seq(Ppp!Tasks) /\ Holds(system_queue, PppReadyOf("SYSTEM"))
        /\ rr_queue \in Seq(Ppp!Tasks) /\ Holds(rr_queue, PppReadyOf("RR"))
        /\ cur_task \notin PppReadyOf("SYSTEM") /\ cur_task \notin PppReadyOf("RR")
    BY <1>0 DEF PppIInv, PppTypeInv, PppPlaceInv, PppReadyOf
  <2> QED  BY <1>0, <1>1, <2>1, AppendHolds
<1>4. PppTypeInv'
  BY <1>1, <1>2, <1>3 DEF PppIInv, PppTypeInv
<1>5. PppPlaceInv'
  <2>1. PppDeadTasks' = PppDeadTasks
    BY <1>0, <1>2 DEF PppDeadTasks
  <2>2. /\ PppReadyOf("SYSTEM")' =
             IF Ppp!Level = "SYSTEM" THEN PppReadyOf("SYSTEM") \cup {cur_task}
             ELSE PppReadyOf("SYSTEM")
        /\ PppReadyOf("RR")' =
             IF Ppp!Level = "RR" THEN PppReadyOf("RR") \cup {cur_task}
             ELSE PppReadyOf("RR")
    BY <1>0, <1>1, <1>2 DEF PppReadyOf
  <2> QED  BY <1>1, <1>3, <2>1, <2>2 DEF PppIInv, PppPlaceInv
<1>6. PppStateInv'
  <2>1. \A t \in Ppp!Tasks : (state'[t] = "DEAD" <=> level[t] = "NULL")
        /\ (state'[t] = "RUNNING" => t = cur_task)
    BY <1>0, <1>2 DEF PppIInv, PppStateInv
  <2> QED  BY <1>1, <2>1 DEF PppIInv, PppStateInv
<1>7. PppRunInv'
  <2>1. ~PppRuns'
    BY <1>0, <1>1, <1>2 DEF PppRuns
  <2> QED  BY <2>1 DEF PppRunInv
<1> QED  BY <1>4, <1>5, <1>6, <1>7 DEF PppIInv

LEMMA PppTask_TerminateStep ==
  ASSUME Ppp!PppAssumption, PppIInv, Ppp!Task_Terminate PROVE PppIInv'
<1>0. /\ cur_task \in Ppp!Tasks /\ state[cur_task] = "RUNNING"
      /\ Ppp!Level \in {"SYSTEM", "PERIODIC", "RR"}
      /\ PppRuns /\ error_msg = "NONE" /\ Ppp!Level = level[cur_task] /\ Ppp!InCall
  BY PppCaller DEF Ppp!Task_Terminate, Ppp!InCall, Ppp!Level
<1>1. /\ state' = [state EXCEPT ![cur_task] = "DEAD"]
      /\ level' = [level EXCEPT ![cur_task] = "NULL"]
      /\ name' = [name EXCEPT ![cur_task] = Ppp!IDLE]
      /\ name_to_task_ptr' = Ppp!PointersWithout(cur_task)
      /\ dead_pool_queue' = Append(dead_pool_queue, cur_task)
      /\ inKernel' = TRUE
      /\ UNCHANGED <<PPP, error_msg, cur_task, system_queue, rr_queue, Ppp!slots>>
      /\ Ppp!PT' = Ppp!PT
  BY DEF Ppp!Task_Terminate, Ppp!Enter, Ppp!PT
<1>2. /\ state' \in [Ppp!Tasks \cup {Ppp!Idle} -> {"DEAD", "READY", "RUNNING"}]
      /\ level' \in [Ppp!Tasks \cup {Ppp!Idle} -> {"SYSTEM", "PERIODIC", "RR", "NULL"}]
      /\ name' \in [Ppp!Tasks -> {Ppp!IDLE} \cup Ppp!Names]
      /\ \A t \in Ppp!Tasks : /\ state'[t] = IF t = cur_task THEN "DEAD" ELSE state[t]
                              /\ level'[t] = IF t = cur_task THEN "NULL" ELSE level[t]
                              /\ name'[t] = IF t = cur_task THEN Ppp!IDLE ELSE name[t]
      /\ level'[Ppp!Idle] = "NULL"
  BY <1>0, <1>1, PppBasics DEF PppIInv, PppTypeInv, PppStateInv
<1>3. /\ name_to_task_ptr' \in [{Ppp!IDLE} \cup Ppp!Names -> Ppp!Tasks \cup {Ppp!NULL}]
      /\ \A m \in {Ppp!IDLE} \cup Ppp!Names :
           name_to_task_ptr'[m] =
             IF level[cur_task] = "PERIODIC" /\ m = name[cur_task] THEN Ppp!NULL
                                  ELSE name_to_task_ptr[m]
  BY <1>0, <1>1 DEF Ppp!PointersWithout, PppIInv, PppTypeInv
<1>4. /\ dead_pool_queue' \in Seq(Ppp!Tasks)
      /\ Holds(dead_pool_queue', PppDeadTasks \cup {cur_task})
  <2>1. dead_pool_queue \in Seq(Ppp!Tasks) /\ Holds(dead_pool_queue, PppDeadTasks)
        /\ cur_task \notin PppDeadTasks
    BY <1>0 DEF PppIInv, PppTypeInv, PppPlaceInv, PppDeadTasks
  <2> QED  BY <1>0, <1>1, <2>1, AppendHolds
<1>5. PppTypeInv'
  BY <1>1, <1>2, <1>3, <1>4 DEF PppIInv, PppTypeInv, Ppp!slots
<1>6. PppPlaceInv'
  <2>1. PppDeadTasks' = PppDeadTasks \cup {cur_task}
    BY <1>0, <1>2 DEF PppDeadTasks
  <2>2. PppReadyOf("SYSTEM")' = PppReadyOf("SYSTEM")
        /\ PppReadyOf("RR")' = PppReadyOf("RR")
    BY <1>0, <1>2 DEF PppReadyOf
  <2> QED  BY <1>1, <1>4, <2>1, <2>2 DEF PppIInv, PppPlaceInv
<1>7. PppStateInv'
  <2>1. ASSUME NEW t \in Ppp!Tasks
        PROVE  /\ state'[t] = "DEAD" <=> level'[t] = "NULL"
               /\ state'[t] = "RUNNING" => t = cur_task
               /\ level'[t] = "PERIODIC" => name'[t] \in Ppp!Names
                  /\ name_to_task_ptr'[name'[t]] = t
    <3>1. CASE t = cur_task
      BY <1>2, <3>1
    <3>2. CASE t # cur_task
      <4>1. /\ state[t] = "DEAD" <=> level[t] = "NULL"
            /\ state[t] # "RUNNING"
            /\ level[t] = "PERIODIC" => name[t] \in Ppp!Names
               /\ name_to_task_ptr[name[t]] = t
            /\ level[cur_task] = "PERIODIC" => name_to_task_ptr[name[cur_task]] = cur_task
        BY <1>0, <3>2 DEF PppIInv, PppStateInv
      <4> QED  BY <1>2, <1>3, <3>2, <4>1
    <3> QED  BY <3>1, <3>2
  <2>2. name_to_task_ptr'[Ppp!IDLE] = Ppp!NULL
    BY <1>3 DEF PppIInv, PppStateInv
  <2>3. ASSUME NEW m \in Ppp!Names, name_to_task_ptr'[m] # Ppp!NULL
        PROVE  level'[name_to_task_ptr'[m]] = "PERIODIC"
               /\ name'[name_to_task_ptr'[m]] = m
    <3>1. name_to_task_ptr'[m] = name_to_task_ptr[m]
          /\ ~(level[cur_task] = "PERIODIC" /\ m = name[cur_task])
      BY <1>3, <2>3
    <3>2. name_to_task_ptr[m] \in Ppp!Tasks /\ level[name_to_task_ptr[m]] = "PERIODIC"
          /\ name[name_to_task_ptr[m]] = m
      BY <2>3, <3>1 DEF PppIInv, PppTypeInv, PppStateInv
    <3> QED  BY <1>2, <3>1, <3>2
  <2> QED  BY <1>1, <1>2, <2>1, <2>2, <2>3 DEF PppStateInv
<1>8. PppRunInv'
  <2>1. ~PppRuns'
    BY <1>0, <1>1, <1>2 DEF PppRuns
  <2> QED  BY <2>1 DEF PppRunInv
<1> QED  BY <1>5, <1>6, <1>7, <1>8 DEF PppIInv

LEMMA PppIInvStep ==
  ASSUME Ppp!PppAssumption, PppIInv, [Ppp!Next]_(Ppp!vars) PROVE PppIInv'
<1>1. CASE Ppp!Dispatch
  BY <1>1, PppDispatchStep
<1>2. CASE Ppp!Tick
  BY <1>2, PppTickStep
<1>3. CASE \E l \in {"SYSTEM", "RR"} : Ppp!Task_Create(l, Ppp!IDLE)
  BY <1>3, PppTask_CreateStep
<1>4. CASE \E n \in 0 .. MAXPROCESS + 1 : Ppp!Task_Create("PERIODIC", n)
  BY <1>4, PppTask_CreateStep
<1>5. CASE Ppp!Task_Next
  BY <1>5, PppTask_NextStep
<1>6. CASE Ppp!Task_Terminate
  BY <1>6, PppTask_TerminateStep
<1>7. CASE Ppp!OS_Abort
  BY <1>7, PppAbortStep DEF Ppp!OS_Abort
<1>8. CASE UNCHANGED Ppp!vars
  <2> USE <1>8 DEF Ppp!vars, Ppp!tasks, Ppp!queues, Ppp!slots
  <2>1. PppTypeInv'
    BY DEF PppIInv, PppTypeInv, Ppp!PT
  <2>2. PppPlaceInv'
    BY DEF PppIInv, PppPlaceInv, PppDeadTasks, PppReadyOf
  <2>3. PppStateInv'
    BY DEF PppIInv, PppStateInv
  <2>4. PppRunInv'
    BY DEF PppIInv, PppRunInv, PppRuns, Ppp!Level, Ppp!SlotTaskDue, Ppp!SlotTask, Ppp!PT
  <2> QED  BY <2>1, <2>2, <2>3, <2>4 DEF PppIInv
<1> QED
  BY <1>1, <1>2, <1>3, <1>4, <1>5, <1>6, <1>7, <1>8 DEF Ppp!Next, Ppp!Aborted

LEMMA PppInvariantScheduled ==
  ASSUME Ppp!PppAssumption, PppIInv
  PROVE  Ppp!TasksAccounted /\ Ppp!RunsInOwnSlot /\ Ppp!RunsMostUrgent
<1>1. /\ dead_pool_queue \in Seq(Ppp!Tasks) /\ system_queue \in Seq(Ppp!Tasks)
      /\ rr_queue \in Seq(Ppp!Tasks)
      /\ Holds(dead_pool_queue, PppDeadTasks) /\ Holds(system_queue, PppReadyOf("SYSTEM"))
      /\ Holds(rr_queue, PppReadyOf("RR"))
  BY DEF PppIInv, PppTypeInv, PppPlaceInv
<1> DEFINE queued == dead_pool_queue \o system_queue \o rr_queue
           S == (PppDeadTasks \cup PppReadyOf("SYSTEM")) \cup PppReadyOf("RR")
<1>2. Holds(queued, S)
  <2>1. /\ dead_pool_queue \o system_queue \in Seq(Ppp!Tasks)
        /\ Holds(dead_pool_queue \o system_queue, PppDeadTasks \cup PppReadyOf("SYSTEM"))
    <3>1. PppDeadTasks \cap PppReadyOf("SYSTEM") = {}
      BY DEF PppDeadTasks, PppReadyOf
    <3> QED  BY <1>1, <3>1, ConcatHolds
  <2>2. (PppDeadTasks \cup PppReadyOf("SYSTEM")) \cap PppReadyOf("RR") = {}
    BY DEF PppDeadTasks, PppReadyOf
  <2> QED  BY <1>1, <2>1, <2>2, ConcatHolds
<1>3. IsInjective(queued) /\ ToSet(queued) = S
  BY <1>2 DEF Holds, Range, ToSet
<1>4. ToSet(dead_pool_queue) = PppDeadTasks
  BY <1>1 DEF Holds, Range, ToSet
<1> HIDE DEF queued
<1>5. ASSUME NEW t \in Ppp!Tasks
      PROVE  /\ (state[t] = "DEAD") = (t \in ToSet(dead_pool_queue))
             /\ level[t] = "PERIODIC" =>
                  name_to_task_ptr[name[t]] = t /\ t \notin ToSet(queued)
             /\ level[t] \in {"SYSTEM", "RR"} =>
                  (t \in ToSet(queued)) = (t # cur_task \/ state[t] # "RUNNING")
  <2>1. state[t] = "DEAD" <=> t \in PppDeadTasks
    BY DEF PppDeadTasks
  <2>2. /\ state[t] = "DEAD" <=> level[t] = "NULL"
        /\ state[t] = "RUNNING" => t = cur_task
        /\ level[t] = "PERIODIC" => name_to_task_ptr[name[t]] = t
        /\ state[t] \in {"DEAD", "READY", "RUNNING"}
    BY DEF PppIInv, PppTypeInv, PppStateInv
  <2>3. t \in S <=> state[t] = "DEAD"
        \/ (state[t] = "READY" /\ level[t] \in {"SYSTEM", "RR"})
    BY DEF PppDeadTasks, PppReadyOf
  <2>4. t \in ToSet(queued) <=> t \in S
    BY <1>3
  <2>5. t \in ToSet(dead_pool_queue) <=> t \in PppDeadTasks
    BY <1>4
  <2> HIDE DEF S
  <2> QED  BY <2>1, <2>2, <2>3, <2>4, <2>5
<1>6. Ppp!TasksAccounted
  <2>1. \A n \in Ppp!Names : name_to_task_ptr[n] # Ppp!NULL =>
           level[name_to_task_ptr[n]] = "PERIODIC" /\ name[name_to_task_ptr[n]] = n
    BY DEF PppIInv, PppStateInv
  <2>2. Ppp!IsInjective(queued) /\ Ppp!ToSet(queued) = ToSet(queued)
        /\ Ppp!ToSet(dead_pool_queue) = ToSet(dead_pool_queue)
    BY <1>3 DEF IsInjective, Ppp!IsInjective, ToSet, Ppp!ToSet
  <2> QED  BY <1>5, <2>1, <2>2 DEF Ppp!TasksAccounted, queued
<1>7. Ppp!InTask => PppRuns /\ error_msg = "NONE"
  BY DEF Ppp!InTask, PppRuns
<1>8. Ppp!RunsInOwnSlot /\ Ppp!RunsMostUrgent
  BY <1>7 DEF PppIInv, PppRunInv, Ppp!RunsInOwnSlot, Ppp!RunsMostUrgent
<1> QED  BY <1>6, <1>8

LEMMA PppIsScheduled ==
  ASSUME Ppp!PppAssumption
  PROVE  Ppp!Spec => [](Ppp!TasksAccounted /\ Ppp!RunsInOwnSlot /\ Ppp!RunsMostUrgent)
<1>1. Ppp!Init => PppIInv
  BY PppIInvInit
<1>2. PppIInv /\ [Ppp!Next]_(Ppp!vars) => PppIInv'
  BY PppIInvStep
<1>3. PppIInv => Ppp!TasksAccounted /\ Ppp!RunsInOwnSlot /\ Ppp!RunsMostUrgent
  BY PppInvariantScheduled
<1> QED  BY <1>1, <1>2, <1>3, PTL DEF Ppp!Spec

-----------------------------------------------------------------------------
(* The timetable.                                                          *)

\* The times at which the slots of a table start.
LEMMA PppStartsAre ==
  ASSUME Ppp!PppAssumption, PPP \in Tables
  PROVE  /\ Ppp!PT \in Nat /\ Ppp!StartOf(1) = 0
         /\ \A s \in 1 .. Ppp!PT : /\ Ppp!StartOf(s) \in Nat
                                   /\ Ppp!Duration(s) \in 1 .. BYTE
                                   /\ Ppp!StartOf(s + 1)
                                        = Ppp!StartOf(s) + Ppp!Duration(s)
<1>1. Ppp!PT \in Nat /\ BYTE \in Nat /\ BYTE > 1
  BY PppBasics, Ppp!PppAssumption DEF Ppp!PT, Ppp!PppAssumption
<1>2. ASSUME NEW s \in 1 .. Ppp!PT
      PROVE  Ppp!Duration(s) \in 1 .. BYTE
  <2>1. PPP \in Seq([name : Nat, ticks : Nat]) /\ s \in DOMAIN PPP
    BY Ppp!PppAssumption DEF Ppp!PppAssumption, Ppp!PT
  <2>2. PPP[s].ticks \in Nat /\ PPP[s].ticks < BYTE
    <3>1. PPP[s] \in [name : Nat, ticks : Nat]
      <4> DEFINE R == [name : Nat, ticks : Nat]
      <4>1. PPP \in Seq(R)
        BY <2>1
      <4> HIDE DEF R
      <4>2. PPP[s] \in R
        BY <2>1, <4>1
      <4> QED  BY <4>2 DEF R
    <3> QED  BY <2>1, <3>1, Ppp!PppAssumption DEF Ppp!PppAssumption
  <2> QED  BY <1>1, <2>2 DEF Ppp!Duration
<1> DEFINE g == [k \in 1 .. Ppp!PT |-> [m \in Nat |-> m + Ppp!Duration(k)]]
<1>3. g \in [1 .. Ppp!PT -> [Nat -> Nat]]
      /\ \A k \in 1 .. Ppp!PT, m \in Nat : g[k][m] = m + Ppp!Duration(k)
  BY <1>1, <1>2
<1> HIDE DEF g
<1>4. PICK f \in [0 .. Ppp!PT -> Nat] : Follows(f, 0, g, Ppp!PT)
  BY <1>1, <1>3, RecursionExists, 0 \in Nat
<1> DEFINE Sums(e) == e = [i \in 0 .. Ppp!PT |->
                        IF i = 0 THEN 0 ELSE e[i - 1] + Ppp!Duration(i)]
           end == CHOOSE e : Sums(e)
<1>5. Sums(f)
  <2>1. ASSUME NEW i \in 0 .. Ppp!PT
        PROVE  f[i] = IF i = 0 THEN 0 ELSE f[i - 1] + Ppp!Duration(i)
    <3>1. CASE i = 0
      BY <1>4, <3>1 DEF Follows
    <3>2. CASE i # 0
      <4>1. i \in 1 .. Ppp!PT /\ i - 1 \in 0 .. Ppp!PT
        BY <1>1, <3>2
      <4> QED  BY <1>3, <1>4, <3>2, <4>1 DEF Follows
    <3> QED  BY <3>1, <3>2
  <2> QED  BY <1>4, <2>1
<1>6. Sums(end)
  BY <1>5
<1>7. \A s : Ppp!StartOf(s) = end[s - 1]
  BY DEF Ppp!StartOf
<1> HIDE DEF end
<1>8. \A i \in 0 .. Ppp!PT : end[i] = IF i = 0 THEN 0 ELSE end[i - 1] + Ppp!Duration(i)
  BY <1>6
<1>9. \A i \in 0 .. Ppp!PT : end[i] \in Nat
  <2> DEFINE bad == {i \in 0 .. Ppp!PT : end[i] \notin Nat}
  <2> SUFFICES ASSUME bad # {} PROVE FALSE
    OBVIOUS
  <2>1. PICK m \in bad : \A k \in bad : m <= k
    <3>1. bad \in SUBSET Nat
      BY <1>1
    <3> QED  BY <3>1, LeastOne
  <2>2. m # 0 /\ m \in 1 .. Ppp!PT /\ m - 1 \in 0 .. Ppp!PT /\ m - 1 \notin bad
    BY <1>1, <1>8, <2>1
  <2> QED  BY <1>2, <1>8, <2>1, <2>2
<1>10. Ppp!StartOf(1) = 0
  BY <1>1, <1>7, <1>8
<1>11. ASSUME NEW s \in 1 .. Ppp!PT
       PROVE  Ppp!StartOf(s) \in Nat
              /\ Ppp!StartOf(s + 1) = Ppp!StartOf(s) + Ppp!Duration(s)
  <2>1. s - 1 \in 0 .. Ppp!PT /\ s \in 0 .. Ppp!PT /\ (s + 1) - 1 = s
    BY <1>1
  <2> QED  BY <1>7, <1>8, <1>9, <2>1
<1> QED  BY <1>1, <1>2, <1>10, <1>11

LEMMA PppStartsGrow ==
  ASSUME Ppp!PppAssumption, PPP \in Tables, NEW s \in 1 .. Ppp!PT
  PROVE  Ppp!StartOf(s) + Ppp!Duration(s) <= Ppp!Cycle /\ Ppp!Cycle \in Nat
         /\ Ppp!Cycle > 0
<1>1. /\ Ppp!PT \in Nat
      /\ \A i \in 1 .. Ppp!PT : /\ Ppp!StartOf(i) \in Nat /\ Ppp!Duration(i) \in 1 .. BYTE
                                /\ Ppp!StartOf(i + 1) = Ppp!StartOf(i) + Ppp!Duration(i)
  BY PppStartsAre
<1>2. Ppp!PT \in 1 .. Ppp!PT /\ BYTE \in Nat
  BY <1>1, Ppp!PppAssumption DEF Ppp!PppAssumption
<1>3. Ppp!Cycle = Ppp!StartOf(Ppp!PT) + Ppp!Duration(Ppp!PT)
      /\ Ppp!StartOf(Ppp!PT) \in Nat /\ Ppp!Duration(Ppp!PT) \in 1 .. BYTE
  BY <1>1, <1>2 DEF Ppp!Cycle
<1>4. \A i \in s .. Ppp!PT : Ppp!StartOf(s) <= Ppp!StartOf(i)
      /\ (i > s => Ppp!StartOf(s) + Ppp!Duration(s) <= Ppp!StartOf(i))
  <2> DEFINE bad == {i \in s .. Ppp!PT : ~ (Ppp!StartOf(s) <= Ppp!StartOf(i)
                                        /\ (i > s
                                           => Ppp!StartOf(s)
                                             + Ppp!Duration(s) <= Ppp!StartOf(i)))}
  <2> SUFFICES ASSUME bad # {} PROVE FALSE
    OBVIOUS
  <2>1. PICK m \in bad : \A k \in bad : m <= k
    <3>1. bad \in SUBSET Nat
      BY <1>1
    <3> QED  BY <3>1, LeastOne
  <2>2. m # s
    BY <1>1, <2>1
  <2>3. m - 1 \in s .. Ppp!PT /\ m - 1 \notin bad /\ m \in 1 .. Ppp!PT
        /\ m - 1 \in 1 .. Ppp!PT /\ (m - 1) + 1 = m
    BY <1>1, <2>1, <2>2
  <2>4. /\ Ppp!StartOf(m) = Ppp!StartOf(m - 1) + Ppp!Duration(m - 1)
        /\ Ppp!StartOf(m - 1) \in Nat /\ Ppp!Duration(m - 1) \in 1 .. BYTE
        /\ Ppp!StartOf(s) \in Nat
        /\ Ppp!Duration(s) \in 1 .. BYTE
    BY <1>1, <2>3
  <2>5. Ppp!StartOf(s) <= Ppp!StartOf(m - 1)
        /\ (m - 1 > s => Ppp!StartOf(s) + Ppp!Duration(s) <= Ppp!StartOf(m - 1))
        /\ (m - 1 = s \/ m - 1 > s)
    BY <2>3
  <2>6. Ppp!StartOf(s) <= Ppp!StartOf(m)
        /\ Ppp!StartOf(s) + Ppp!Duration(s) <= Ppp!StartOf(m)
    <3>1. CASE m - 1 = s
      BY <1>2, <2>4, <3>1
    <3>2. CASE m - 1 > s
      BY <1>2, <2>4, <2>5, <3>2
    <3> QED  BY <2>5, <3>1, <3>2
  <2> QED  BY <2>1, <2>6
<1> QED  BY <1>1, <1>2, <1>3, <1>4

\* The slot is as far as the ticks that passed say.
PppTimeInv ==
  /\ slot \in Nat /\ (Ppp!PT > 0 => slot \in 1 .. Ppp!PT)
  /\ ticks_remaining \in 0 .. BYTE - 1
  /\ PPP \in Tables
  /\ Ppp!PT > 0 =>
     /\ (IF ticks_remaining = 0 THEN BYTE ELSE ticks_remaining) <= Ppp!Duration(slot)
                   /\ elapsed = Ppp!StartOf(slot) + Ppp!Duration(slot)
                                  - (IF ticks_remaining = 0 THEN BYTE
                                  ELSE ticks_remaining)

\* What is left of a slot that begins.
LEMMA PppTicksOf ==
  ASSUME Ppp!PppAssumption, PPP \in Tables, NEW s \in 1 .. Ppp!PT
  PROVE  /\ PPP[s].ticks \in 0 .. BYTE - 1
         /\ Ppp!Duration(s) = IF PPP[s].ticks = 0 THEN BYTE ELSE PPP[s].ticks
<1>1. PPP \in Seq([name : Nat, ticks : Nat]) /\ s \in DOMAIN PPP /\ BYTE \in Nat
  BY Ppp!PppAssumption DEF Ppp!PppAssumption, Ppp!PT
<1> DEFINE R == [name : Nat, ticks : Nat]
<1>2. PPP \in Seq(R)
  BY <1>1
<1> HIDE DEF R
<1>3. PPP[s] \in R
  BY <1>1, <1>2
<1>4. PPP[s].ticks \in Nat
  BY <1>3 DEF R
<1>5. PPP[s].ticks < BYTE
  BY <1>1, Ppp!PppAssumption DEF Ppp!PppAssumption
<1> QED  BY <1>1, <1>4, <1>5 DEF Ppp!Duration

LEMMA PppTimeInit ==
  ASSUME Ppp!PppAssumption, Ppp!Init PROVE PppTimeInv
<1>1. PPP \in Tables /\ slot = 1 /\ elapsed = 0 /\ BYTE \in Nat \ {0, 1}
      /\ ticks_remaining = IF Ppp!PT > 0 THEN PPP[1].ticks ELSE 0
  BY Ppp!PppAssumption DEF Ppp!Init, Ppp!PppAssumption
<1>2. Ppp!PT \in Nat /\ Ppp!StartOf(1) = 0
  BY <1>1, PppStartsAre
<1>3. CASE Ppp!PT > 0
  <2>1. 1 \in 1 .. Ppp!PT
    BY <1>2, <1>3
  <2>2. /\ PPP[1].ticks \in 0 .. BYTE - 1
        /\ Ppp!Duration(1) = IF PPP[1].ticks = 0 THEN BYTE ELSE PPP[1].ticks
    BY <1>1, <2>1, PppTicksOf
  <2> QED  BY <1>1, <1>2, <1>3, <2>1, <2>2 DEF PppTimeInv
<1>4. CASE ~(Ppp!PT > 0)
  BY <1>1, <1>2, <1>4 DEF PppTimeInv
<1> QED  BY <1>3, <1>4

LEMMA PppTimeTick ==
  ASSUME Ppp!PppAssumption, PppTimeInv, Ppp!Tick PROVE PppTimeInv'
<1> DEFINE rem == IF ticks_remaining = 0 THEN BYTE ELSE ticks_remaining
<1>0. /\ PPP \in Tables /\ PPP' = PPP /\ Ppp!PT' = Ppp!PT /\ Ppp!PT \in Nat
      /\ BYTE \in Nat \ {0, 1}
      /\ ticks_remaining \in 0 .. BYTE - 1 /\ Ppp!StartOf(1) = 0
      /\ \A s \in 1 .. Ppp!PT : /\ Ppp!StartOf(s) \in Nat /\ Ppp!Duration(s) \in 1 .. BYTE
                                /\ Ppp!StartOf(s + 1) = Ppp!StartOf(s) + Ppp!Duration(s)
  BY PppStartsAre, Ppp!PppAssumption
       DEF PppTimeInv, Ppp!Tick, Ppp!Enter, Ppp!Abort, Ppp!PT, Ppp!PppAssumption
<1>1. (\A s : Ppp!Duration(s)' = Ppp!Duration(s))
      /\ (\A s : Ppp!StartOf(s)' = Ppp!StartOf(s))
  BY <1>0 DEF Ppp!Duration, Ppp!StartOf
<1>2. CASE UNCHANGED <<slot, ticks_remaining, elapsed>>
  BY <1>0, <1>1, <1>2 DEF PppTimeInv
<1>3. CASE Ppp!PT = 0 /\ UNCHANGED <<slot, ticks_remaining>>
  BY <1>0, <1>3 DEF PppTimeInv
<1>4. ASSUME Ppp!PT > 0, elapsed' = (elapsed + 1) % Ppp!Cycle,
             IF Ppp!SlotEnds THEN slot' = Ppp!NextSlot
             /\ ticks_remaining' = PPP[Ppp!NextSlot].ticks
             ELSE slot' = slot /\ ticks_remaining' = Ppp!Left
      PROVE  PppTimeInv'
  <2>1. slot \in 1 .. Ppp!PT /\ rem \in 1 .. BYTE /\ rem <= Ppp!Duration(slot)
        /\ elapsed = Ppp!StartOf(slot) + Ppp!Duration(slot) - rem
    BY <1>0, <1>4 DEF PppTimeInv
  <2>2. Ppp!Left = rem - 1
    <3>1. CASE ticks_remaining = 0
      <4>1. (-1 + BYTE) % BYTE = (-1) % BYTE
        <5>1. -1 \in Int /\ BYTE \in Nat \ {0}
          BY <1>0
        <5> QED  BY <5>1, OneTurn
      <4>2. (BYTE - 1) % BYTE = BYTE - 1
        BY <1>0, OwnRemainder
      <4>3. -1 + BYTE = BYTE - 1 /\ ticks_remaining - 1 = -1
        BY <1>0, <3>1
      <4> QED  BY <3>1, <4>1, <4>2, <4>3 DEF Ppp!Left
    <3>2. CASE ticks_remaining # 0
      <4>1. ticks_remaining - 1 \in 0 .. BYTE - 1
        BY <1>0, <3>2
      <4> QED  BY <1>0, <3>2, <4>1, OwnRemainder DEF Ppp!Left
    <3> QED  BY <3>1, <3>2
  <2> HIDE DEF rem
  <2>3. /\ Ppp!StartOf(slot) \in Nat /\ Ppp!Duration(slot) \in 1 .. BYTE
        /\ Ppp!StartOf(slot) + Ppp!Duration(slot) <= Ppp!Cycle /\ Ppp!Cycle \in Nat \ {0}
    BY <1>0, <2>1, PppStartsGrow
  <2>4. CASE ~Ppp!SlotEnds
    <3>1. rem # 1 /\ slot' = slot /\ ticks_remaining' = rem - 1
      BY <1>4, <2>2, <2>4 DEF Ppp!SlotEnds
    <3>2. elapsed + 1 \in 0 .. Ppp!Cycle - 1
      BY <1>0, <2>1, <2>3, <3>1
    <3>3. elapsed' = elapsed + 1
      BY <1>4, <2>3, <3>2, OwnRemainder
    <3>4. ticks_remaining' \in 1 .. BYTE - 1 /\ ticks_remaining' <= Ppp!Duration(slot)
          /\ elapsed' = Ppp!StartOf(slot) + Ppp!Duration(slot) - ticks_remaining'
      BY <1>0, <2>1, <2>3, <3>1, <3>3
    <3> QED  BY <1>0, <1>1, <2>1, <3>1, <3>4 DEF PppTimeInv
  <2>5. CASE Ppp!SlotEnds
    <3>1. rem = 1 /\ slot' = Ppp!NextSlot /\ ticks_remaining' = PPP[Ppp!NextSlot].ticks
      BY <1>4, <2>1, <2>2, <2>5 DEF Ppp!SlotEnds
    <3>2. elapsed + 1 = Ppp!StartOf(slot) + Ppp!Duration(slot)
      BY <1>0, <2>1, <2>3, <3>1
    <3>3. Ppp!NextSlot \in 1 .. Ppp!PT /\ elapsed' = Ppp!StartOf(Ppp!NextSlot)
      <4>1. CASE slot = Ppp!PT
        <5>1. Ppp!NextSlot = 1
          <6>1. Ppp!PT \in Nat \ {0} /\ 0 \in Int /\ 0 \in 0 .. Ppp!PT - 1
                /\ 0 + Ppp!PT = Ppp!PT
            BY <1>0, <1>4
          <6>2. (0 + Ppp!PT) % Ppp!PT = 0 % Ppp!PT
            BY <6>1, OneTurn
          <6>3. 0 % Ppp!PT = 0
            BY <6>1, OwnRemainder
          <6> QED  BY <4>1, <6>1, <6>2, <6>3 DEF Ppp!NextSlot
        <5>2. Ppp!Cycle = Ppp!StartOf(slot) + Ppp!Duration(slot)
          BY <1>0, <2>1, <4>1 DEF Ppp!Cycle
        <5>3. (0 + Ppp!Cycle) % Ppp!Cycle = 0 % Ppp!Cycle /\ 0 % Ppp!Cycle = 0
          BY <2>3, OneTurn, OwnRemainder
        <5> QED  BY <1>0, <1>4, <2>3, <3>2, <5>1, <5>2, <5>3
      <4>2. CASE slot # Ppp!PT
        <5>1. slot \in 0 .. Ppp!PT - 1 /\ slot + 1 \in 1 .. Ppp!PT
          BY <1>0, <2>1, <4>2
        <5>2. Ppp!NextSlot = slot + 1
          <6>1. Ppp!PT \in Nat \ {0}
            BY <1>0, <1>4
          <6>2. slot % Ppp!PT = slot
            BY <5>1, <6>1, OwnRemainder
          <6> QED  BY <6>2 DEF Ppp!NextSlot
        <5>3. Ppp!StartOf(slot + 1) + Ppp!Duration(slot + 1) <= Ppp!Cycle
              /\ Ppp!StartOf(slot + 1) \in Nat /\ Ppp!Duration(slot + 1) \in 1 .. BYTE
          BY <1>0, <5>1, PppStartsGrow
        <5>4. elapsed + 1 = Ppp!StartOf(slot + 1)
          BY <1>0, <2>1, <3>2
        <5>5. elapsed + 1 \in 0 .. Ppp!Cycle - 1
          BY <1>0, <2>3, <5>3, <5>4
        <5> QED  BY <1>4, <2>3, <5>1, <5>2, <5>4, <5>5, OwnRemainder
      <4> QED  BY <4>1, <4>2
    <3>4. /\ PPP[Ppp!NextSlot].ticks \in 0 .. BYTE - 1
          /\ Ppp!Duration(Ppp!NextSlot) =
               IF PPP[Ppp!NextSlot].ticks = 0 THEN BYTE ELSE PPP[Ppp!NextSlot].ticks
          /\ Ppp!Duration(Ppp!NextSlot) \in 1 .. BYTE /\ Ppp!StartOf(Ppp!NextSlot) \in Nat
      BY <1>0, <3>3, PppTicksOf
    <3> QED  BY <1>0, <1>1, <3>1, <3>3, <3>4 DEF PppTimeInv
  <2> QED  BY <2>4, <2>5
<1>5. \/ UNCHANGED <<slot, ticks_remaining, elapsed>>
      \/ Ppp!PT = 0 /\ UNCHANGED <<slot, ticks_remaining>>
      \/ /\ Ppp!PT > 0 /\ elapsed' = (elapsed + 1) % Ppp!Cycle
         /\ IF Ppp!SlotEnds THEN slot' = Ppp!NextSlot
            /\ ticks_remaining' = PPP[Ppp!NextSlot].ticks
            ELSE slot' = slot /\ ticks_remaining' = Ppp!Left
  <2>1. CASE Ppp!SlotEnds /\ Ppp!Level = "PERIODIC" /\ ~slot_task_finished
    BY <2>1 DEF Ppp!Tick, Ppp!Abort, Ppp!slots
  <2>2. CASE ~(Ppp!SlotEnds /\ Ppp!Level = "PERIODIC" /\ ~slot_task_finished)
    <3>1. /\ elapsed' = IF Ppp!PT > 0 THEN (elapsed + 1) % Ppp!Cycle ELSE 0
          /\ IF Ppp!SlotEnds THEN slot' = Ppp!NextSlot
             /\ ticks_remaining' = PPP[Ppp!NextSlot].ticks
             ELSE slot' = slot /\ ticks_remaining' =
               IF Ppp!PT > 0 THEN Ppp!Left ELSE ticks_remaining
      BY <2>2 DEF Ppp!Tick, Ppp!TicksOfSlot
    <3>2. Ppp!SlotEnds => Ppp!PT > 0
      BY DEF Ppp!SlotEnds
    <3> QED  BY <1>0, <3>1, <3>2
  <2> QED  BY <2>1, <2>2
<1> QED  BY <1>2, <1>3, <1>4, <1>5

LEMMA PppTimeStep ==
  ASSUME Ppp!PppAssumption, PppTimeInv, [Ppp!Next]_(Ppp!vars) PROVE PppTimeInv'
<1>1. CASE UNCHANGED <<PPP, slot, ticks_remaining, elapsed>>
  <2>1. Ppp!PT' = Ppp!PT /\ (\A s : Ppp!Duration(s)' = Ppp!Duration(s))
        /\ (\A s : Ppp!StartOf(s)' = Ppp!StartOf(s))
    BY <1>1 DEF Ppp!Duration, Ppp!StartOf, Ppp!PT
  <2> QED  BY <1>1, <2>1 DEF PppTimeInv
<1>2. CASE Ppp!Tick
  BY <1>2, PppTimeTick
<1>3. Ppp!Next \/ UNCHANGED Ppp!vars => Ppp!Tick
      \/ UNCHANGED <<PPP, slot, ticks_remaining, elapsed>>
  BY DEF Ppp!Next, Ppp!vars, Ppp!slots, Ppp!Dispatch, Ppp!Task_Create, Ppp!Create,
         Ppp!Task_Next, Ppp!Task_Terminate, Ppp!OS_Abort,
         Ppp!Aborted, Ppp!Abort, Ppp!Enter
<1> QED  BY <1>1, <1>2, <1>3

LEMMA PppTimetable ==
  ASSUME Ppp!PppAssumption PROVE Ppp!Spec => []Ppp!TimetableKept
<1>1. Ppp!Init => PppTimeInv
  BY PppTimeInit
<1>2. PppTimeInv /\ [Ppp!Next]_(Ppp!vars) => PppTimeInv'
  BY PppTimeStep
<1>3. PppTimeInv => Ppp!TimetableKept
  BY DEF PppTimeInv, Ppp!TimetableKept
<1> QED  BY <1>1, <1>2, <1>3, PTL DEF Ppp!Spec

\* Every descriptor is in one place, a PERIODIC task runs in a slot of its name only,
\* once, and no task runs while one that comes before it could.
THEOREM PppTasksScheduled == MachinesSpec => []PppScheduled
<1>1. Ppp!Spec => [](Ppp!TasksAccounted /\ Ppp!RunsInOwnSlot /\ Ppp!RunsMostUrgent)
  BY MachinesAssumption, PppIsScheduled
<1>2. Ppp!TasksAccounted /\ Ppp!RunsInOwnSlot /\ Ppp!RunsMostUrgent => PppScheduled
  BY DEF PppScheduled
<1> QED  BY PppSpec, <1>1, <1>2, PTL

\* The slots begin and end when the table says so, in every cycle.
THEOREM PppSlotsOnTime == MachinesSpec => []PppTimetableKept
<1>1. Ppp!Spec => []Ppp!TimetableKept
  BY MachinesAssumption, PppTimetable
<1>2. Ppp!TimetableKept => PppTimetableKept
  BY DEF PppTimetableKept
<1> QED  BY PppSpec, <1>1, <1>2, PTL

-----------------------------------------------------------------------------
(* The skeleton kernels (ActiveKernel).                                    *)

\* The kernel that has a request to serve is not looking for a task to run, and
\* whoever has the processor is RUNNING.
ActiveIInv ==
  /\ active_state \in [Active!Process -> {"DEAD", "READY", "RUNNING"}]
  /\ Cp \in Active!Process \cup {Active!NULL}
  /\ request \in {"NONE", "CREATE", "NEXT", "TERMINATE"}
  /\ NextP \in Active!Process
  /\ KernelActive \in BOOLEAN /\ dispatching \in BOOLEAN
  /\ request # "NONE" => KernelActive /\ ~dispatching
  /\ KernelActive /\ ~dispatching => Cp \in Active!Process /\ active_state[Cp] = "RUNNING"

\* The descriptors in use are no more than the tasks created so far.
ActiveInUse == {p \in Active!Process : active_state[p] # "DEAD"}
ActiveCountInv == Tasks \in 0 .. MAXPROCESS /\ Cardinality(ActiveInUse) <= Tasks

-----------------------------------------------------------------------------
(* The descriptors.                                                        *)

\* The successor of a descriptor is a descriptor.
LEMMA ActiveNextInProcess ==
  ASSUME Active!SkeletonAssumption, NEW p \in Active!Process
  PROVE  (p + 1) % MAXPROCESS \in Active!Process
BY Active!SkeletonAssumption DEF Active!SkeletonAssumption, Active!Process

\* There are MAXPROCESS descriptors.
LEMMA ActiveProcessFinite ==
  ASSUME Active!SkeletonAssumption
  PROVE  IsFiniteSet(Active!Process) /\ Cardinality(Active!Process) = MAXPROCESS
<1>1. MAXPROCESS \in Nat \ {0}
  BY Active!SkeletonAssumption DEF Active!SkeletonAssumption
<1> QED
  BY <1>1, FS_Interval, 0 \in Int, MAXPROCESS - 1 \in Int DEF Active!Process

\* While not every descriptor is in use the search for a DEAD one finds it.
LEMMA ActiveFirstDeadFound ==
  ASSUME Active!SkeletonAssumption, NEW d \in Active!Process, active_state[d] = "DEAD"
  PROVE  Active!FirstDead \in Active!Process /\ active_state[Active!FirstDead] = "DEAD"
<1> DEFINE D == {p \in Active!Process : active_state[p] = "DEAD"}
<1>1. D \in SUBSET Nat /\ D # {}
  BY Active!SkeletonAssumption DEF Active!SkeletonAssumption, Active!Process
<1>2. PICK m \in D : \A k \in 0 .. m - 1 : k \notin D
  <2>1. PICK m \in D : \A k \in D : m <= k
    BY <1>1, LeastOne
  <2> QED  BY <1>1, <2>1
<1>3. \A q \in 0 .. m - 1 : q \in Active!Process
  BY <1>1, Active!SkeletonAssumption DEF Active!SkeletonAssumption, Active!Process
<1> QED
  BY <1>2, <1>3 DEF Active!FirstDead

-----------------------------------------------------------------------------
(* The invariant.                                                          *)

\* While the count allows a creation a descriptor is left for it.
LEMMA ActiveDeadOneLeft ==
  ASSUME Active!SkeletonAssumption
  PROVE  ActiveCountInv => Active!DeadOneFound
<1> SUFFICES ASSUME ActiveCountInv, Tasks < MAXPROCESS,
             ActiveInUse = Active!Process PROVE FALSE
  BY DEF Active!DeadOneFound, ActiveInUse
<1> QED
  BY ActiveProcessFinite, Active!SkeletonAssumption
       DEF ActiveCountInv, Active!SkeletonAssumption

\* IInv holds after OS_Init.
LEMMA ActiveInitIInv ==
  ASSUME Active!SkeletonAssumption
  PROVE  Active!Init => ActiveIInv
<1>1. MAXPROCESS \in Nat \ {0}
  BY Active!SkeletonAssumption DEF Active!SkeletonAssumption
<1>2. 0 \in Active!Process
  BY <1>1 DEF Active!Process
<1> QED
  BY <1>2 DEF Active!Init, ActiveIInv

\* Creating a task keeps it: the descriptor used is not that of the creator.
LEMMA ActiveCreateIInv ==
  ASSUME Active!SkeletonAssumption, ActiveIInv, ActiveCountInv, Active!Kernel_Create_Task,
         UNCHANGED <<Cp, NextP, KernelActive, dispatching>>, request' \in {request,
         "NONE"}
  PROVE  ActiveIInv'
<1>1. CASE Tasks = MAXPROCESS
  BY <1>1 DEF Active!Kernel_Create_Task, ActiveIInv
<1>2. CASE Tasks # MAXPROCESS
  <2>1. Tasks < MAXPROCESS
    BY <1>2, Active!SkeletonAssumption DEF ActiveCountInv, Active!SkeletonAssumption
  <2>2. active_state[Active!FirstDead] = "DEAD"
    BY <2>1, ActiveDeadOneLeft, ActiveFirstDeadFound DEF Active!DeadOneFound
  <2> QED
    BY <1>2, <2>2 DEF Active!Kernel_Create_Task, ActiveIInv
<1> QED
  BY <1>1, <1>2

\* Every step keeps it.
LEMMA ActiveNextIInv ==
  ASSUME Active!SkeletonAssumption
  PROVE  ActiveIInv /\ ActiveCountInv /\ [Active!Next]_(Active!vars) => ActiveIInv'
<1> SUFFICES ASSUME ActiveIInv, ActiveCountInv,
             [Active!Next]_(Active!vars) PROVE ActiveIInv'
  OBVIOUS
<1> USE DEF ActiveIInv
<1>1. ASSUME NEW r \in {"CREATE", "NEXT", "TERMINATE"}, Active!Request(r)
      PROVE  ActiveIInv'
  BY <1>1 DEF Active!Request, Active!InTask
<1>2. CASE Active!Task_Create
  <2>1. CASE Active!Request("CREATE")
    BY <2>1, <1>1
  <2>2. CASE ~ Active!Request("CREATE")
    BY <1>2, <2>2, ActiveCreateIInv DEF Active!Task_Create
  <2> QED
    BY <2>1, <2>2
<1>3. CASE Active!Task_Next \/ Active!Task_Terminate
  BY <1>3, <1>1 DEF Active!Task_Next, Active!Task_Terminate
<1>4. CASE Active!OS_Start
  BY <1>4 DEF Active!OS_Start
<1>5. CASE Active!Dispatch
  BY <1>5, ActiveNextInProcess DEF Active!Dispatch, Active!NextAfter
<1>6. CASE Active!Next_Kernel_Request
  <2>1. CASE request = "CREATE"
    BY <1>6, <2>1, ActiveCreateIInv DEF Active!Next_Kernel_Request
  <2>2. CASE request # "CREATE"
    BY <1>6, <2>2 DEF Active!Next_Kernel_Request, Active!StateAfterRequest
  <2> QED
    BY <2>1, <2>2
<1>7. CASE UNCHANGED Active!vars
  BY <1>7 DEF Active!vars
<1> QED
  BY <1>2, <1>3, <1>4, <1>5, <1>6, <1>7 DEF Active!Next

\* A descriptor is used at most once for each task created.
LEMMA ActiveInitCount ==
  ASSUME Active!SkeletonAssumption
  PROVE  Active!Init => ActiveCountInv
<1> SUFFICES ASSUME Active!Init PROVE ActiveCountInv
  OBVIOUS
<1>1. ActiveInUse = {}
  BY DEF Active!Init, ActiveInUse
<1> QED
  BY <1>1, FS_EmptySet, Active!SkeletonAssumption
       DEF Active!Init, ActiveCountInv, Active!SkeletonAssumption

\* Creating a task uses one more, and counts it.
LEMMA ActiveCreateCount ==
  ASSUME Active!SkeletonAssumption, ActiveIInv, ActiveCountInv, Active!Kernel_Create_Task
  PROVE  ActiveCountInv'
<1>1. CASE Tasks = MAXPROCESS
  BY <1>1 DEF Active!Kernel_Create_Task, ActiveCountInv, ActiveInUse
<1>2. CASE Tasks # MAXPROCESS
  <2>1. ActiveInUse' \in SUBSET (ActiveInUse \cup {Active!FirstDead})
    BY <1>2 DEF Active!Kernel_Create_Task, ActiveIInv, ActiveInUse
  <2>2. IsFiniteSet(ActiveInUse) /\ Cardinality(ActiveInUse) \in Nat
    BY ActiveProcessFinite, FS_Subset, FS_CardinalityType,
       ActiveInUse \in SUBSET Active!Process DEF ActiveInUse
  <2>3. /\ IsFiniteSet(ActiveInUse \cup {Active!FirstDead})
        /\ Cardinality(ActiveInUse \cup {Active!FirstDead}) <= Cardinality(ActiveInUse)
             + 1
    BY <2>2, FS_AddElement
  <2>4. IsFiniteSet(ActiveInUse')
        /\ Cardinality(ActiveInUse') <= Cardinality(ActiveInUse \cup {Active!FirstDead})
    BY <2>1, <2>3, FS_Subset
  <2>5. Cardinality(ActiveInUse') \in Nat
        /\ Cardinality(ActiveInUse \cup {Active!FirstDead}) \in Nat
    BY <2>3, <2>4, FS_CardinalityType
  <2>6. Tasks' = Tasks + 1
    BY <1>2 DEF Active!Kernel_Create_Task, Active!CountAfterCreate
  <2> QED
    BY <1>2, <2>2, <2>3, <2>4, <2>5, <2>6, Active!SkeletonAssumption
       DEF ActiveCountInv, Active!SkeletonAssumption
<1> QED
  BY <1>1, <1>2

\* The other steps use no more descriptors.
LEMMA ActiveOtherCount ==
  ASSUME Active!SkeletonAssumption, ActiveCountInv, ActiveInUse' \in SUBSET ActiveInUse,
         UNCHANGED Tasks
  PROVE  ActiveCountInv'
<1>1. IsFiniteSet(ActiveInUse) /\ Cardinality(ActiveInUse) \in Nat
  BY ActiveProcessFinite, FS_Subset, FS_CardinalityType,
     ActiveInUse \in SUBSET Active!Process DEF ActiveInUse
<1>2. IsFiniteSet(ActiveInUse') /\ Cardinality(ActiveInUse') <= Cardinality(ActiveInUse)
  BY <1>1, FS_Subset
<1>3. Cardinality(ActiveInUse') \in Nat
  BY <1>2, FS_CardinalityType
<1> QED
  BY <1>1, <1>2, <1>3, Active!SkeletonAssumption
       DEF ActiveCountInv, Active!SkeletonAssumption

\* Every step keeps the count.
LEMMA ActiveNextCount ==
  ASSUME Active!SkeletonAssumption
  PROVE  ActiveIInv /\ ActiveCountInv /\ [Active!Next]_(Active!vars) => ActiveCountInv'
<1> SUFFICES ASSUME ActiveIInv, ActiveCountInv,
             [Active!Next]_(Active!vars) PROVE ActiveCountInv'
  OBVIOUS
<1>1. ASSUME NEW r, Active!Request(r) PROVE ActiveCountInv'
  BY <1>1, ActiveOtherCount DEF Active!Request, ActiveInUse
<1>2. CASE Active!Task_Create
  BY <1>2, <1>1, ActiveCreateCount DEF Active!Task_Create
<1>3. CASE Active!Task_Next \/ Active!Task_Terminate
  BY <1>3, <1>1 DEF Active!Task_Next, Active!Task_Terminate
<1>4. CASE Active!OS_Start
  BY <1>4, ActiveOtherCount DEF Active!OS_Start, ActiveInUse
<1>5. CASE Active!Dispatch
  <2>1. ActiveInUse' \in SUBSET ActiveInUse /\ UNCHANGED Tasks
    BY <1>5 DEF Active!Dispatch, ActiveInUse, ActiveIInv
  <2> QED
    BY <2>1, ActiveOtherCount
<1>6. CASE Active!Next_Kernel_Request
  <2>1. CASE request = "CREATE"
    BY <1>6, <2>1, ActiveCreateCount DEF Active!Next_Kernel_Request
  <2>2. CASE request # "CREATE"
    <3>1. Cp \in Active!Process /\ active_state[Cp] = "RUNNING"
      BY <1>6 DEF Active!Next_Kernel_Request, ActiveIInv
    <3>2. ActiveInUse' \in SUBSET ActiveInUse /\ UNCHANGED Tasks
      BY <1>6, <2>2, <3>1 DEF Active!Next_Kernel_Request, ActiveInUse, ActiveIInv
    <3> QED
      BY <3>2, ActiveOtherCount
  <2> QED
    BY <2>1, <2>2
<1>7. CASE UNCHANGED Active!vars
  BY <1>7, ActiveOtherCount DEF Active!vars, ActiveInUse
<1> QED
  BY <1>2, <1>3, <1>4, <1>5, <1>6, <1>7 DEF Active!Next

\* So both parts hold at all times.
LEMMA ActiveInvHolds ==
  ASSUME Active!SkeletonAssumption
  PROVE  Active!Spec => [](ActiveIInv /\ ActiveCountInv)
BY ActiveInitIInv, ActiveNextIInv, ActiveInitCount, ActiveNextCount, PTL DEF Active!Spec

-----------------------------------------------------------------------------
(* The kernel with a stack of its own implements the shared one.           *)

\* It boots as the other does.
LEMMA ActiveInitShared == Active!Init => Active!Shared!Init
BY DEF Active!Init, Active!Shared!Init, Active!Process, Active!Shared!Process,
       Active!NULL, Active!Shared!NULL

\* Creating a task is the same in both.
LEMMA ActiveCreateShared ==
  ASSUME Active!Kernel_Create_Task
  PROVE  Active!Shared!Kernel_Create_Task
BY DEF Active!Kernel_Create_Task, Active!Shared!Kernel_Create_Task,
       Active!CountAfterCreate,
       Active!FirstDead, Active!Shared!FirstDead, Active!Process, Active!Shared!Process

\* A request is a stutter there, and what serves it is the call itself.
LEMMA ActiveNextShared == ActiveIInv /\ [Active!Next]_(Active!vars)
=> [Active!Shared!Next]_(Active!Shared!vars)
<1> SUFFICES ASSUME ActiveIInv,
             [Active!Next]_(Active!vars) PROVE [Active!Shared!Next]_(Active!Shared!vars)
  OBVIOUS
<1> USE DEF Active!Shared!Next, Active!Shared!vars
<1>1. ASSUME NEW r, Active!Request(r) PROVE UNCHANGED Active!Shared!vars
  BY <1>1 DEF Active!Request
<1>2. CASE Active!Task_Create
  <2>1. CASE Active!Request("CREATE")
    BY <2>1, <1>1
  <2>2. CASE ~ Active!Request("CREATE")
    BY <1>2, <2>2, ActiveCreateShared DEF Active!Task_Create, Active!Shared!Task_Create
  <2> QED
    BY <2>1, <2>2
<1>3. CASE Active!Task_Next \/ Active!Task_Terminate
  BY <1>3, <1>1 DEF Active!Task_Next, Active!Task_Terminate
<1>4. CASE Active!OS_Start
  BY <1>4 DEF Active!OS_Start, Active!Shared!OS_Start
<1>5. CASE Active!Dispatch
  BY <1>5 DEF Active!Dispatch, Active!Shared!Dispatch, Active!NextAfter
<1>6. CASE Active!Next_Kernel_Request
  <2>1. request # "NONE" /\ Active!Shared!InTask
    BY <1>6 DEF Active!Next_Kernel_Request, ActiveIInv, Active!Shared!InTask
  <2>2. CASE request = "CREATE"
    BY <1>6, <2>1, <2>2, ActiveCreateShared
         DEF Active!Next_Kernel_Request, Active!Shared!Task_Create
  <2>3. CASE request # "CREATE"
    BY <1>6, <2>1, <2>3
       DEF ActiveIInv, Active!Next_Kernel_Request, Active!StateAfterRequest,
           Active!Shared!Task_Next,
           Active!Shared!Task_Terminate, Active!Shared!Leave
  <2> QED
    BY <2>2, <2>3
<1>7. CASE UNCHANGED Active!vars
  BY <1>7 DEF Active!vars
<1> QED
  BY <1>2, <1>3, <1>4, <1>5, <1>6, <1>7 DEF Active!Next

\* The full-served skeleton (active.c) does nothing that the self-served one
\* (shared.c) could not do: a task that asks the kernel for a service sees what it
\* would see if it executed the service itself.
LEMMA ActiveImplementsShared ==
  ASSUME Active!SkeletonAssumption
  PROVE  Active!Spec => Active!ImplementsShared
<1>1. Active!Spec => Active!Shared!Init /\ [][Active!Shared!Next]_(Active!Shared!vars)
  BY ActiveInvHolds, ActiveInitShared, ActiveNextShared, PTL DEF Active!Spec
<1> QED
  BY <1>1 DEF Active!ImplementsShared, Active!Shared!Spec

-----------------------------------------------------------------------------
(* The search for a DEAD descriptor.                                       *)

\* Kernel_Create_Task of active.c searches for a DEAD descriptor without a check
\* of its own; the count of tasks, which is never decremented, is enough.
LEMMA ActiveDeadOneIsFound ==
  ASSUME Active!SkeletonAssumption
  PROVE  Active!Spec => []Active!DeadOneFound
BY ActiveInvHolds, ActiveDeadOneLeft, PTL

-----------------------------------------------------------------------------
(* The turns of the tasks.                                                 *)

\* The search for a task is where the order of the descriptors behind Cp has taken it:
\* none that is READY lies before NextP.
ActiveTurnInv ==
  /\ ~KernelActive => Cp = Active!NULL /\ NextP = 0 /\ ~dispatching
  /\ KernelActive /\ ~dispatching => NextP = (Cp + 1) % MAXPROCESS
  /\ dispatching => KernelActive /\ \A p \in Active!Process : active_state[p] = "READY"
     => Active!Behind(NextP) <= Active!Behind(p)

\* Behind numbers the descriptors from the successor of Cp on.
LEMMA ActiveBehindIs ==
  ASSUME Active!SkeletonAssumption, Cp \in Active!Process \cup {Active!NULL},
         NEW p \in Active!Process
  PROVE  Active!Behind(p) = IF p > Cp THEN p - Cp - 1 ELSE p - Cp - 1 + MAXPROCESS
<1>1. MAXPROCESS \in Nat \ {0} /\ p \in 0 .. MAXPROCESS - 1 /\ Cp \in -1 .. MAXPROCESS - 1
  BY Active!SkeletonAssumption
       DEF Active!SkeletonAssumption, Active!Process, Active!NULL
<1>2. CASE p > Cp
  <2>1. p - Cp - 1 \in 0 .. MAXPROCESS - 1
    BY <1>1, <1>2
  <2> QED  BY <1>1, <1>2, <2>1, OwnRemainder DEF Active!Behind
<1>3. CASE ~(p > Cp)
  <2>1. p - Cp - 1 \in Int /\ p - Cp - 1 + MAXPROCESS \in 0 .. MAXPROCESS - 1
    BY <1>1, <1>3
  <2>2. (p - Cp - 1 + MAXPROCESS) % MAXPROCESS = (p - Cp - 1) % MAXPROCESS
    BY <1>1, <2>1, OneTurn
  <2>3. (p - Cp - 1 + MAXPROCESS) % MAXPROCESS = p - Cp - 1 + MAXPROCESS
    BY <1>1, <2>1, OwnRemainder
  <2> QED  BY <1>3, <2>2, <2>3 DEF Active!Behind
<1> QED  BY <1>2, <1>3

\* The search begins right behind Cp and goes one on at a time.
LEMMA ActiveSearchGoesOn ==
  ASSUME Active!SkeletonAssumption, Cp \in Active!Process \cup {Active!NULL}
  PROVE  /\ \A p \in Active!Process : Active!Behind(p) \in Nat
         /\ \A p \in Active!Process
              : Active!Behind((Cp + 1) % MAXPROCESS) <= Active!Behind(p)
         /\ \A n, p \in Active!Process : Active!Behind(n) <= Active!Behind(p) /\ p # n
                                    => Active!Behind((n
                                      + 1) % MAXPROCESS) <= Active!Behind(p)
<1>1. MAXPROCESS \in Nat \ {0} /\ Cp \in -1 .. MAXPROCESS - 1
      /\ Active!Process = 0 .. MAXPROCESS - 1
  BY Active!SkeletonAssumption
       DEF Active!SkeletonAssumption, Active!Process, Active!NULL
<1>2. \A n \in -1 .. MAXPROCESS - 1 :
         (n + 1) % MAXPROCESS = IF n = MAXPROCESS - 1 THEN 0 ELSE n + 1
  <2> SUFFICES ASSUME NEW n \in -1 .. MAXPROCESS - 1
               PROVE (n + 1) % MAXPROCESS = IF n = MAXPROCESS - 1 THEN 0 ELSE n + 1
    OBVIOUS
  <2>1. CASE n = MAXPROCESS - 1
    <3>1. 0 \in Int /\ 0 \in 0 .. MAXPROCESS - 1 /\ 0 + MAXPROCESS = n + 1
      BY <1>1, <2>1
    <3>2. (0 + MAXPROCESS) % MAXPROCESS = 0 % MAXPROCESS /\ 0 % MAXPROCESS = 0
      BY <1>1, <3>1, OneTurn, OwnRemainder
    <3> QED  BY <2>1, <3>1, <3>2
  <2>2. CASE n # MAXPROCESS - 1
    <3>1. n + 1 \in 0 .. MAXPROCESS - 1
      BY <1>1, <2>2
    <3> QED  BY <1>1, <2>2, <3>1, OwnRemainder
  <2> QED  BY <2>1, <2>2
<1>3. \A p \in Active!Process : Active!Behind(p) =
        IF p > Cp THEN p - Cp - 1 ELSE p - Cp - 1 + MAXPROCESS
  BY ActiveBehindIs
<1>4. \A n \in -1 .. MAXPROCESS - 1 : (n + 1) % MAXPROCESS \in Active!Process
  BY <1>1, <1>2
<1>5. \A p \in Active!Process : Active!Behind(p) \in Nat
  BY <1>1, <1>3
<1>6. \A p \in Active!Process : Active!Behind((Cp + 1) % MAXPROCESS) <= Active!Behind(p)
  <2>1. Active!Behind((Cp + 1) % MAXPROCESS) = 0
    BY <1>1, <1>2, <1>3, <1>4
  <2> QED  BY <1>5, <2>1
<1>7. ASSUME NEW n \in Active!Process, NEW p \in Active!Process,
             Active!Behind(n) <= Active!Behind(p), p # n
      PROVE  Active!Behind((n + 1) % MAXPROCESS) <= Active!Behind(p)
  <2>1. /\ n \in 0 .. MAXPROCESS - 1 /\ p \in 0 .. MAXPROCESS - 1
        /\ (n + 1) % MAXPROCESS = IF n = MAXPROCESS - 1 THEN 0 ELSE n + 1
        /\ (n + 1) % MAXPROCESS \in Active!Process
    BY <1>1, <1>2, <1>4
  <2>2. /\ Active!Behind(n) = IF n > Cp THEN n - Cp - 1 ELSE n - Cp - 1 + MAXPROCESS
        /\ Active!Behind(p) = IF p > Cp THEN p - Cp - 1 ELSE p - Cp - 1 + MAXPROCESS
    BY <1>3
  <2> DEFINE m == (n + 1) % MAXPROCESS
  <2>3. m \in Active!Process /\ m = IF n = MAXPROCESS - 1 THEN 0 ELSE n + 1
    BY <2>1
  <2> HIDE DEF m
  <2>4. Active!Behind(m) = IF m > Cp THEN m - Cp - 1 ELSE m - Cp - 1 + MAXPROCESS
    BY <1>3, <2>3
  <2>5. Active!Behind(m) <= Active!Behind(p)
    BY <1>1, <1>7, <2>1, <2>2, <2>3, <2>4
  <2> QED  BY <2>5 DEF m
<1> QED  BY <1>5, <1>6, <1>7

LEMMA ActiveTurnInit ==
  ASSUME Active!Init PROVE ActiveTurnInv
BY DEF Active!Init, ActiveTurnInv

LEMMA ActiveTurnStep ==
  ASSUME Active!SkeletonAssumption, ActiveIInv, ActiveTurnInv, [Active!Next]_(Active!vars)
  PROVE  ActiveTurnInv'
<1>0. /\ Cp \in Active!Process \cup {Active!NULL} /\ NextP \in Active!Process
      /\ MAXPROCESS \in Nat \ {0}
      /\ (\A p : Cp' = Cp => Active!Behind(p)' = Active!Behind(p))
      /\ request # "NONE" => KernelActive /\ ~dispatching
      /\ KernelActive \in BOOLEAN /\ dispatching \in BOOLEAN
  BY Active!SkeletonAssumption DEF ActiveIInv, Active!SkeletonAssumption, Active!Behind
<1>1. CASE UNCHANGED <<Cp, NextP, KernelActive, dispatching>> /\ ~dispatching
  BY <1>1 DEF ActiveTurnInv
<1>2. CASE UNCHANGED Active!vars
  BY <1>0, <1>2 DEF ActiveTurnInv, Active!vars
<1>3. CASE Active!OS_Start
  <2>1. Cp = Active!NULL /\ NextP = 0 /\ UNCHANGED <<Cp, NextP, active_state>>
        /\ KernelActive' /\ dispatching'
    BY <1>3 DEF Active!OS_Start, ActiveTurnInv
  <2>2. NextP = (Cp + 1) % MAXPROCESS
    <3>1. 0 % MAXPROCESS = 0 /\ Cp + 1 = 0
      <4>1. 0 \in 0 .. MAXPROCESS - 1
        BY <1>0
      <4> QED  BY <1>0, <2>1, <4>1, OwnRemainder DEF Active!NULL
    <3> QED  BY <2>1, <3>1
  <2>3. \A p \in Active!Process : Active!Behind(NextP) <= Active!Behind(p)
    BY <1>0, <2>2, ActiveSearchGoesOn
  <2>4. \A p \in Active!Process : (Active!Behind(NextP) <= Active!Behind(p))'
    BY <2>1, <2>3 DEF Active!Behind
  <2> QED  BY <2>1, <2>4 DEF ActiveTurnInv
<1>4. CASE Active!Dispatch
  <2>1. dispatching /\ KernelActive /\ KernelActive' = KernelActive
    BY <1>4 DEF Active!Dispatch, ActiveTurnInv
  <2>2. CASE active_state[NextP] = "READY"
    BY <1>4, <2>1, <2>2 DEF Active!Dispatch, ActiveTurnInv, Active!NextAfter
  <2>3. CASE active_state[NextP] # "READY"
    <3>1. NextP' = (NextP + 1) % MAXPROCESS /\ UNCHANGED <<Cp, active_state, dispatching>>
      BY <1>4, <2>3 DEF Active!Dispatch
    <3>2. \A p \in Active!Process : active_state[p] = "READY"
          => Active!Behind((NextP + 1) % MAXPROCESS) <= Active!Behind(p)
      BY <1>0, <2>1, <2>3, ActiveSearchGoesOn DEF ActiveTurnInv
    <3>3. \A p \in Active!Process : active_state'[p] = "READY"
          => (Active!Behind(NextP) <= Active!Behind(p))'
      BY <3>1, <3>2 DEF Active!Behind
    <3> QED  BY <2>1, <3>1, <3>3 DEF ActiveTurnInv
  <2> QED  BY <2>2, <2>3
<1>5. CASE Active!Next_Kernel_Request /\ request # "CREATE"
  <2>1. KernelActive /\ ~dispatching /\ dispatching'
        /\ UNCHANGED <<Cp, NextP, KernelActive>>
    BY <1>0, <1>5 DEF Active!Next_Kernel_Request
  <2>2. NextP = (Cp + 1) % MAXPROCESS
    BY <2>1 DEF ActiveTurnInv
  <2>3. \A p \in Active!Process : Active!Behind(NextP) <= Active!Behind(p)
    BY <1>0, <2>2, ActiveSearchGoesOn
  <2>4. \A p \in Active!Process : (Active!Behind(NextP) <= Active!Behind(p))'
    BY <2>1, <2>3 DEF Active!Behind
  <2> QED  BY <2>1, <2>4 DEF ActiveTurnInv
<1>6. \/ UNCHANGED <<Cp, NextP, KernelActive, dispatching>> /\ ~dispatching
      \/ UNCHANGED Active!vars \/ Active!OS_Start \/ Active!Dispatch
         \/ (Active!Next_Kernel_Request /\ request # "CREATE")
  <2>1. ~KernelActive => ~dispatching
    BY DEF ActiveTurnInv
  <2> QED
    BY <1>0, <2>1 DEF Active!Next, Active!Task_Create, Active!Task_Next,
                      Active!Task_Terminate, Active!Request, Active!InTask,
                      Active!Next_Kernel_Request
<1> QED  BY <1>1, <1>2, <1>3, <1>4, <1>5, <1>6

\* A task that is READY when the kernel looks for one waits for no more than the
\* others: the search passes over none.
LEMMA ActiveNoneIsSkipped ==
  ASSUME Active!SkeletonAssumption
  PROVE  Active!Spec => Active!NoneSkipped
<1>1. ASSUME ActiveTurnInv, [Active!Next]_(Active!vars)
      PROVE  [dispatching /\ ~dispatching' =>
                \A p \in Active!Process : active_state[p] = "READY"
                => Active!Behind(Cp') <= Active!Behind(p)]_(Active!vars)
  <2>1. dispatching /\ ~dispatching' => Active!Dispatch /\ Cp' = NextP
    BY <1>1 DEF Active!Next, Active!vars, Active!Task_Create, Active!Task_Next,
                Active!Task_Terminate, Active!Request, Active!InTask, Active!OS_Start,
                Active!Next_Kernel_Request, Active!Dispatch
  <2> QED  BY <1>1, <2>1 DEF ActiveTurnInv
<1> QED
  BY <1>1, ActiveInvHolds, ActiveTurnInit, ActiveTurnStep, PTL
       DEF Active!Spec, Active!NoneSkipped

\* The full-served skeleton (active.c) does what the self-served one (shared.c) does,
\* passes over no READY task and finds a descriptor for each task that it creates.
THEOREM SkeletonsAgree == MachinesSpec => SkeletonTakesTurns
<1>1. Active!Spec => Active!ImplementsShared
  BY MachinesAssumption, ActiveImplementsShared
<1>2. Active!Spec => Active!NoneSkipped
  BY MachinesAssumption, ActiveNoneIsSkipped
<1>3. Active!Spec => []Active!DeadOneFound
  BY MachinesAssumption, ActiveDeadOneIsFound
<1> QED  BY ActiveSpec, <1>1, <1>2, <1>3, PTL DEF SkeletonTakesTurns

=============================================================================
