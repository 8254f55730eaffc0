-------------------------- MODULE RtosKernelProofs --------------------------
(***************************************************************************)
(* The safety of RtosKernel for any number of tasks and services, any word *)
(* size and any sets of periods and WCETs, and what its steps may not do.  *)
(* One lemma per action shows that it preserves IInv.  Then every step is  *)
(* put in one of a few classes, by what it does to the processor and the   *)
(* ready queues; the action properties follow from the class.  What the    *)
(* history variables of RtosKernelHistory say follows from invariants that *)
(* tie them to the kernel's own counters and service data.                 *)
(***************************************************************************)
EXTENDS RtosKernelHistory, KernelLemmas

-----------------------------------------------------------------------------
(* The dispatcher.                                                         *)

Queue == Seq(Tasks)

LEMMA EmptyQueue == <<>> \in Queue /\ Range(<<>>) = {} /\ Len(<<>>) = 0
<1>1. <<>> \in Seq(Tasks) /\ Len(<<>>) = 0
  BY EmptySeq
<1>2. DOMAIN <<>> = 1 .. 0
  BY <1>1, LenProperties
<1> QED  BY <1>1, <1>2 DEF Queue, Range

LEMMA Singleton ==
  ASSUME NEW t \in Tasks
  PROVE  /\ Cons(t, <<>>) \in Queue /\ Range(Cons(t, <<>>)) = {t} /\ Len(Cons(t, <<>>)) = 1
         /\ Append(<<>>, t) \in Queue /\ Range(Append(<<>>, t)) = {t}
         /\ Len(Append(<<>>, t)) = 1
<1>1. <<>> \in Seq(Tasks) /\ Holds(<<>>, {}) /\ Len(<<>>) = 0
  BY EmptyQueue DEF Queue, Holds, IsInjective
<1>2. Append(<<>>, t) \in Seq(Tasks) /\ Holds(Append(<<>>, t), {} \cup {t})
  BY <1>1, AppendHolds
<1>3. Cons(t, <<>>) \in Seq(Tasks) /\ Holds(Cons(t, <<>>), {} \cup {t})
  BY <1>1, ConsHolds
<1>4. Len(Append(<<>>, t)) = 1 /\ Len(Cons(t, <<>>)) = 1
  BY <1>1 DEF Cons
<1> QED  BY <1>2, <1>3, <1>4 DEF Queue, Holds

LEMMA NatOne == \A n \in Nat : n # 0 /\ n <= 1 => n = 1
  OBVIOUS

\* The periodic queue has at most one element.
LEMMA ShortQueue ==
  ASSUME NEW q \in Queue, q # <<>>, Len(q) <= 1
  PROVE  /\ Tail(q) = <<>> /\ Head(q) \in Range(q) /\ Len(q) = 1
         /\ Range(q) = {Head(q)}
<1>0. q \in Seq(Tasks)
  BY DEF Queue
<1>1. Len(q) = 1
  BY <1>0, EmptySeq, NatOne
<1>2. Head(q) = q[1] /\ DOMAIN q = 1 .. 1
  BY <1>0, <1>1
<1>3. Tail(q) \in Seq(Tasks) /\ Len(Tail(q)) = 0
  BY <1>0, <1>1
<1>4. Tail(q) = <<>>
  BY <1>3, EmptySeq
<1> QED  BY <1>1, <1>2, <1>4 DEF Range

\* The ready queues sq, pq, rq hold the tasks the states st make ready.
QueuesOK(st, lv, sq, pq, rq) ==
  /\ st \in [Tasks -> States]
  /\ sq \in Queue /\ pq \in Queue /\ rq \in Queue
  /\ Holds(sq, ReadyAt(st, lv, "SYSTEM"))
  /\ Holds(rq, ReadyAt(st, lv, "RR"))
  /\ Range(pq) \subseteq ReadyAt(st, lv, "PERIODIC")
  /\ Len(pq) <= 1

\* Nothing in the ready queues has a higher level than task c.
Top(c, lv, sq, pq, rq) ==
  /\ c = Idle \/ lv[c] # "SYSTEM" => sq = <<>> /\ pq = <<>>
  /\ c = Idle => rq = <<>>

ResumeOK ==
  /\ resuming \in [Tasks -> Services \cup {NoService}]
  /\ received \in [Tasks -> Values]
  /\ service_data \in [Services -> Values]

\* SwitchTo a ready task makes it the running one and no other.
LEMMA SwitchLemma ==
  ASSUME ResumeOK,
         NEW st \in [Tasks -> States], NEW t \in Tasks,
         \A u \in Tasks : st[u] # "RUNNING",
         SwitchTo(t, st)
  PROVE  /\ cur_task' = t
         /\ state' = [st EXCEPT ![t] = "RUNNING"]
         /\ state' \in [Tasks -> States]
         /\ \A u \in Tasks : state'[u] = "RUNNING" <=> cur_task' = u
         /\ resuming' \in [Tasks -> Services \cup {NoService}]
         /\ received' \in [Tasks -> Values]
  BY DEF SwitchTo, ResumeOK, States

\* Dispatch keeps the ready queues in order and leaves a task of the highest
\* ready level running.
LEMMA DispatchLemma ==
  ASSUME ResumeOK, cur_task \in Tasks \cup {Idle},
         NEW st, NEW lv, NEW sq, NEW pq, NEW rq,
         QueuesOK(st, lv, sq, pq, rq),
         \A t \in Tasks : st[t] = "RUNNING" => t = cur_task,
         cur_task \in Tasks /\ st[cur_task] = "RUNNING" => Top(cur_task, lv, sq, pq, rq),
         Dispatch(st, sq, pq, rq)
  PROVE  /\ cur_task' \in Tasks \cup {Idle}
         /\ QueuesOK(state', lv, system_queue', periodic_queue', rr_queue')
         /\ Top(cur_task', lv, system_queue', periodic_queue', rr_queue')
         /\ \A t \in Tasks : state'[t] = "RUNNING" <=> cur_task' = t
         /\ \A t \in Tasks : \A x \in {"DEAD", "WAITING"} : state'[t] = x <=> st[t] = x
         /\ resuming' \in [Tasks -> Services \cup {NoService}]
         /\ received' \in [Tasks -> Values]
<1>0. /\ Idle \notin Tasks
      /\ st \in [Tasks -> States]
      /\ sq \in Queue /\ pq \in Queue /\ rq \in Queue
      /\ Holds(sq, ReadyAt(st, lv, "SYSTEM")) /\ Holds(rq, ReadyAt(st, lv, "RR"))
      /\ Range(pq) \subseteq ReadyAt(st, lv, "PERIODIC") /\ Len(pq) <= 1
  BY KernelAssumption DEF Idle, Tasks, QueuesOK
<1>1. CASE cur_task # Idle /\ st[cur_task] = "RUNNING"
  <2>1. /\ state' = st /\ cur_task' = cur_task
        /\ system_queue' = sq /\ periodic_queue' = pq /\ rr_queue' = rq
        /\ resuming' = resuming /\ received' = received
    BY <1>1 DEF Dispatch, Ready
  <2> QED  BY <2>1, <1>1, <1>0 DEF ResumeOK
<1>2. CASE ~ (cur_task # Idle /\ st[cur_task] = "RUNNING")
  <2>0. \A u \in Tasks : st[u] # "RUNNING"
    BY <1>2, <1>0
  <2>1. CASE sq # <<>> /\ SwitchTo(Head(sq), st) /\ Ready(Tail(sq), pq, rq)
    <3> DEFINE t == Head(sq)
    <3>1. /\ t \in Tasks /\ t \in ReadyAt(st, lv, "SYSTEM")
          /\ Tail(sq) \in Queue /\ Holds(Tail(sq), ReadyAt(st, lv, "SYSTEM") \ {t})
      BY <2>1, <1>0, TailHolds DEF Queue
    <3>2. st[t] = "READY" /\ lv[t] = "SYSTEM"
      BY <3>1 DEF ReadyAt
    <3>3. /\ cur_task' = t /\ state' = [st EXCEPT ![t] = "RUNNING"]
          /\ state' \in [Tasks -> States]
          /\ \A u \in Tasks : state'[u] = "RUNNING" <=> cur_task' = u
          /\ resuming' \in [Tasks -> Services \cup {NoService}]
          /\ received' \in [Tasks -> Values]
      BY <2>0, <2>1, <3>1, <1>0, SwitchLemma
    <3>4. /\ ReadyAt(state', lv, "SYSTEM") = ReadyAt(st, lv, "SYSTEM") \ {t}
          /\ ReadyAt(state', lv, "PERIODIC") = ReadyAt(st, lv, "PERIODIC")
          /\ ReadyAt(state', lv, "RR") = ReadyAt(st, lv, "RR")
      BY <3>1, <3>2, <3>3, <1>0 DEF ReadyAt
    <3>5. QueuesOK(state', lv, system_queue', periodic_queue', rr_queue')
      BY <2>1, <3>1, <3>3, <3>4, <1>0 DEF QueuesOK, Ready
    <3> QED  BY <3>1, <3>2, <3>3, <3>5, <1>0 DEF Top
  <2>2. CASE sq = <<>> /\ pq # <<>> /\ SwitchTo(Head(pq), st) /\ Ready(sq, Tail(pq), rq)
    <3> DEFINE t == Head(pq)
    <3>1. t \in Tasks /\ t \in ReadyAt(st, lv, "PERIODIC") /\ Tail(pq) = <<>>
      <4>1. Tail(pq) = <<>> /\ t \in Range(pq)
        BY <2>2, <1>0, ShortQueue DEF Queue
      <4> QED  BY <4>1, <1>0 DEF ReadyAt
    <3>2. st[t] = "READY" /\ lv[t] = "PERIODIC"
      BY <3>1 DEF ReadyAt
    <3>3. /\ cur_task' = t /\ state' = [st EXCEPT ![t] = "RUNNING"]
          /\ state' \in [Tasks -> States]
          /\ \A u \in Tasks : state'[u] = "RUNNING" <=> cur_task' = u
          /\ resuming' \in [Tasks -> Services \cup {NoService}]
          /\ received' \in [Tasks -> Values]
      BY <2>0, <2>2, <3>1, <1>0, SwitchLemma
    <3>4. /\ ReadyAt(state', lv, "SYSTEM") = ReadyAt(st, lv, "SYSTEM")
          /\ ReadyAt(state', lv, "RR") = ReadyAt(st, lv, "RR")
      BY <3>1, <3>2, <3>3, <1>0 DEF ReadyAt
    <3>5. periodic_queue' = <<>> /\ periodic_queue' \in Queue
          /\ Range(periodic_queue') = {} /\ Len(periodic_queue') = 0
      BY <2>2, <3>1, EmptyQueue DEF Ready
    <3>6. QueuesOK(state', lv, system_queue', periodic_queue', rr_queue')
      BY <2>2, <3>3, <3>4, <3>5, <1>0 DEF QueuesOK, Ready
    <3> QED  BY <2>2, <3>1, <3>2, <3>3, <3>5, <3>6, <1>0 DEF Top, Ready
  <2>3. CASE /\ sq = <<>> /\ pq = <<>> /\ rq # <<>>
             /\ SwitchTo(Head(rq), st) /\ Ready(sq, pq, Tail(rq))
    <3> DEFINE t == Head(rq)
    <3>1. /\ t \in Tasks /\ t \in ReadyAt(st, lv, "RR")
          /\ Tail(rq) \in Queue /\ Holds(Tail(rq), ReadyAt(st, lv, "RR") \ {t})
      BY <2>3, <1>0, TailHolds DEF Queue
    <3>2. st[t] = "READY" /\ lv[t] = "RR"
      BY <3>1 DEF ReadyAt
    <3>3. /\ cur_task' = t /\ state' = [st EXCEPT ![t] = "RUNNING"]
          /\ state' \in [Tasks -> States]
          /\ \A u \in Tasks : state'[u] = "RUNNING" <=> cur_task' = u
          /\ resuming' \in [Tasks -> Services \cup {NoService}]
          /\ received' \in [Tasks -> Values]
      BY <2>0, <2>3, <3>1, <1>0, SwitchLemma
    <3>4. /\ ReadyAt(state', lv, "RR") = ReadyAt(st, lv, "RR") \ {t}
          /\ ReadyAt(state', lv, "PERIODIC") = ReadyAt(st, lv, "PERIODIC")
          /\ ReadyAt(state', lv, "SYSTEM") = ReadyAt(st, lv, "SYSTEM")
      BY <3>1, <3>2, <3>3, <1>0 DEF ReadyAt
    <3>5. QueuesOK(state', lv, system_queue', periodic_queue', rr_queue')
      BY <2>3, <3>1, <3>3, <3>4, <1>0 DEF QueuesOK, Ready
    <3> QED  BY <2>3, <3>1, <3>2, <3>3, <3>5, <1>0 DEF Top, Ready
  <2>4. CASE /\ sq = <<>> /\ pq = <<>> /\ rq = <<>>
             /\ cur_task' = Idle /\ state' = st /\ Ready(sq, pq, rq)
             /\ UNCHANGED <<resuming, received>>
    BY <2>4, <2>0, <1>0 DEF Ready, QueuesOK, Top, ResumeOK
  <2> QED  BY <1>2, <2>1, <2>2, <2>3, <2>4 DEF Dispatch
<1> QED
  BY <1>1, <1>2

-----------------------------------------------------------------------------
(* One pass of the kernel, from the intermediate task states and queues a  *)
(* request leaves to the dispatcher.                                       *)

\* The free descriptors and the subscribers, for task states st.
Accounted(st, lv, dq, svq) ==
  /\ dq \in Queue
  /\ Holds(dq, {t \in Tasks : st[t] = "DEAD"})
  /\ svq \in [Services -> Queue]
  /\ \A s \in Services : IsInjective(svq[s])
  /\ \A r, s \in Services : r # s => Range(svq[r]) \cap Range(svq[s]) = {}
  /\ \A t \in Tasks : st[t] = "WAITING" /\ lv[t] # "PERIODIC"
                        <=> \E s \in Services : t \in Range(svq[s])
  /\ \A t \in Tasks : lv[t] = "IDLE" => st[t] = "DEAD"

\* What a request guarantees when it calls the dispatcher.
Handled(st, lv, sq, pq, rq, dq, svq) ==
  /\ lv \in [Tasks -> Levels]
  /\ QueuesOK(st, lv, sq, pq, rq)
  /\ Accounted(st, lv, dq, svq)
  /\ \A t \in Tasks : st[t] = "RUNNING" => t = cur_task

\* The part of IInv that the scheduler is responsible for.
SchedulerInv ==
  /\ cur_task \in Tasks \cup {Idle}
  /\ level \in [Tasks -> Levels]
  /\ state \in [Tasks -> States]
  /\ dead_pool_queue \in Queue
  /\ system_queue \in Queue /\ periodic_queue \in Queue /\ rr_queue \in Queue
  /\ service_queue \in [Services -> Queue]
  /\ resuming \in [Tasks -> Services \cup {NoService}]
  /\ received \in [Tasks -> Values]
  /\ DescriptorsAccounted
  /\ Scheduled
  /\ OnePeriodicActive

\* The part that the timing data of periodic tasks is responsible for.
TimingInv ==
  /\ periodic_tasks \in [Slots -> Tasks \cup {NoTask}]
  /\ period \in [Tasks -> Word] /\ wcet \in [Tasks -> Word]
  /\ counter \in [Tasks -> Word] /\ wcet_counter \in [Tasks -> Word]
  /\ ticks_since_boot \in Word
  /\ SlotsMatchTasks
  /\ CountersNeverWrap

\* The part that services and aborts are responsible for.
ServiceInv ==
  /\ service_data \in [Services -> Values]
  /\ num_services \in 0 .. MAXSERVICE
  /\ publishing \in Services \cup {NoService}
  /\ will_be_preempted \in BOOLEAN
  /\ error_msg \in Errors
  /\ NoInternalError

LEMMA Parts == IInv <=> SchedulerInv /\ TimingInv /\ ServiceInv
  BY DEF IInv, SchedulerInv, TimingInv, ServiceInv, TypeOK, Queue

LEMMA PartsNext == SchedulerInv' /\ TimingInv' /\ ServiceInv' => IInv'
  BY DEF IInv, SchedulerInv, TimingInv, ServiceInv, TypeOK, Queue

LEMMA IdleNotTask == Idle \notin Tasks /\ NoTask \notin Tasks /\ NoService \notin Services
  BY KernelAssumption DEF Idle, Tasks, NoTask, NoService, Services

\* The dispatcher re-establishes the scheduler's invariant.
LEMMA PassLemma ==
  ASSUME ResumeOK, cur_task \in Tasks \cup {Idle},
         NEW st, NEW sq, NEW pq, NEW rq,
         Handled(st, level', sq, pq, rq, dead_pool_queue', service_queue'),
         cur_task \in Tasks /\ st[cur_task] = "RUNNING" => Top(cur_task, level', sq, pq, rq),
         Dispatch(st, sq, pq, rq),
         ~will_be_preempted'
  PROVE  SchedulerInv' /\ \A t \in Tasks : state'[t] = "DEAD" <=> st[t] = "DEAD"
<1>0. QueuesOK(st, level', sq, pq, rq) /\ Accounted(st, level', dead_pool_queue', service_queue')
      /\ level' \in [Tasks -> Levels] /\ \A t \in Tasks : st[t] = "RUNNING" => t = cur_task
  BY DEF Handled
<1>1. /\ cur_task' \in Tasks \cup {Idle}
      /\ QueuesOK(state', level', system_queue', periodic_queue', rr_queue')
      /\ Top(cur_task', level', system_queue', periodic_queue', rr_queue')
      /\ \A t \in Tasks : state'[t] = "RUNNING" <=> cur_task' = t
      /\ \A t \in Tasks : \A x \in {"DEAD", "WAITING"} : state'[t] = x <=> st[t] = x
      /\ resuming' \in [Tasks -> Services \cup {NoService}]
      /\ received' \in [Tasks -> Values]
  BY <1>0, DispatchLemma
<1>2. \A t \in Tasks : /\ state'[t] = "DEAD" <=> st[t] = "DEAD"
                       /\ state'[t] = "WAITING" <=> st[t] = "WAITING"
  BY <1>1
<1>3. {t \in Tasks : state'[t] = "DEAD"} = {t \in Tasks : st[t] = "DEAD"}
  BY <1>2
<1>4. DescriptorsAccounted'
  BY <1>0, <1>1, <1>2, <1>3 DEF DescriptorsAccounted, Accounted, QueuesOK, ReadyAt
<1>5. CurLevel' = IF cur_task' = Idle THEN "IDLE" ELSE level'[cur_task']
  BY DEF CurLevel
<1>6. Scheduled'
  BY <1>1, <1>4, <1>5, IdleNotTask DEF Scheduled, Top, DescriptorsAccounted
<1>7. OnePeriodicActive'
  BY <1>1, <1>5, IdleNotTask DEF OnePeriodicActive, Top, QueuesOK, Queue
<1> QED
  BY <1>0, <1>1, <1>2, <1>4, <1>6, <1>7 DEF SchedulerInv, QueuesOK, Accounted

Yielded(st) == [st EXCEPT ![cur_task] = "READY"]

\* The running task gives up the processor but stays ready.
LEMMA YieldLemma ==
  ASSUME NEW st, NEW lv, NEW sq, NEW pq, NEW rq, NEW dq, NEW svq,
         Handled(st, lv, sq, pq, rq, dq, svq),
         cur_task \in Tasks, st[cur_task] = "RUNNING"
  PROVE  LET y == Yielded(st) IN
         /\ y \in [Tasks -> States]
         /\ Accounted(y, lv, dq, svq)
         /\ \A t \in Tasks : y[t] # "RUNNING"
         /\ \A l : cur_task \notin ReadyAt(st, lv, l)
         /\ \A l : lv[cur_task] = l => ReadyAt(y, lv, l) = ReadyAt(st, lv, l) \cup {cur_task}
         /\ \A l : lv[cur_task] # l => ReadyAt(y, lv, l) = ReadyAt(st, lv, l)
<1> DEFINE y == Yielded(st)
<1>1. /\ st \in [Tasks -> States] /\ Accounted(st, lv, dq, svq)
      /\ \A t \in Tasks : st[t] = "RUNNING" => t = cur_task
  BY DEF Handled, QueuesOK
<1>2. y \in [Tasks -> States] /\ \A t \in Tasks : y[t] = IF t = cur_task THEN "READY" ELSE st[t]
  BY <1>1 DEF States, Yielded
<1>3. \A t \in Tasks : /\ y[t] = "DEAD" <=> st[t] = "DEAD"
                       /\ y[t] = "WAITING" <=> st[t] = "WAITING"
  BY <1>2
<1>4. {t \in Tasks : y[t] = "DEAD"} = {t \in Tasks : st[t] = "DEAD"}
  BY <1>3
<1>5. Accounted(y, lv, dq, svq)
  BY <1>1, <1>3, <1>4 DEF Accounted
<1> QED  BY <1>1, <1>2, <1>5 DEF ReadyAt

\* Preemption re-establishes the scheduler's invariant.
LEMMA PreemptLemma ==
  ASSUME ResumeOK, cur_task \in Tasks \cup {Idle},
         NEW st, NEW sq, NEW pq, NEW rq,
         Handled(st, level', sq, pq, rq, dead_pool_queue', service_queue'),
         cur_task \in Tasks => st[cur_task] = "RUNNING" /\ level'[cur_task] = level[cur_task],
         CurLevel = "PERIODIC" => pq = <<>>,
         Preempt(st, sq, pq, rq),
         ~will_be_preempted'
  PROVE  SchedulerInv' /\ \A t \in Tasks : state'[t] = "DEAD" <=> st[t] = "DEAD"
<1> DEFINE y == Yielded(st)
<1>0. QueuesOK(st, level', sq, pq, rq) /\ level' \in [Tasks -> Levels]
  BY DEF Handled
<1>1. CASE CurLevel = "RR"
  <2>1. cur_task \in Tasks /\ st[cur_task] = "RUNNING" /\ level'[cur_task] = "RR"
    BY <1>1 DEF CurLevel
  <2>2. /\ y \in [Tasks -> States]
        /\ Accounted(y, level', dead_pool_queue', service_queue')
        /\ \A t \in Tasks : y[t] # "RUNNING"
        /\ cur_task \notin ReadyAt(st, level', "RR")
        /\ ReadyAt(y, level', "RR") = ReadyAt(st, level', "RR") \cup {cur_task}
        /\ ReadyAt(y, level', "SYSTEM") = ReadyAt(st, level', "SYSTEM")
        /\ ReadyAt(y, level', "PERIODIC") = ReadyAt(st, level', "PERIODIC")
    BY <2>1, YieldLemma
  <2>3. /\ Cons(cur_task, rq) \in Queue
        /\ Holds(Cons(cur_task, rq), ReadyAt(y, level', "RR"))
    BY <1>0, <2>1, <2>2, ConsHolds DEF QueuesOK, Queue
  <2>4. Handled(y, level', sq, pq, Cons(cur_task, rq), dead_pool_queue', service_queue')
    BY <1>0, <2>2, <2>3 DEF Handled, QueuesOK
  <2>5. Dispatch(y, sq, pq, Cons(cur_task, rq))
    BY <1>1 DEF Preempt, Yielded
  <2>6. SchedulerInv' /\ \A t \in Tasks : state'[t] = "DEAD" <=> y[t] = "DEAD"
    BY <2>2, <2>4, <2>5, PassLemma
  <2> QED  BY <2>1, <2>6, <1>0 DEF QueuesOK, Yielded
<1>2. CASE CurLevel = "PERIODIC"
  <2>1. cur_task \in Tasks /\ st[cur_task] = "RUNNING" /\ level'[cur_task] = "PERIODIC" /\ pq = <<>>
    BY <1>2 DEF CurLevel
  <2>2. /\ y \in [Tasks -> States]
        /\ Accounted(y, level', dead_pool_queue', service_queue')
        /\ \A t \in Tasks : y[t] # "RUNNING"
        /\ ReadyAt(y, level', "PERIODIC") = ReadyAt(st, level', "PERIODIC") \cup {cur_task}
        /\ ReadyAt(y, level', "SYSTEM") = ReadyAt(st, level', "SYSTEM")
        /\ ReadyAt(y, level', "RR") = ReadyAt(st, level', "RR")
    BY <2>1, YieldLemma
  <2>3. /\ Cons(cur_task, pq) \in Queue /\ Len(Cons(cur_task, pq)) <= 1
        /\ Range(Cons(cur_task, pq)) = {cur_task}
    BY <2>1, Singleton DEF Cons
  <2>4. Handled(y, level', sq, Cons(cur_task, pq), rq, dead_pool_queue', service_queue')
    BY <1>0, <2>2, <2>3 DEF Handled, QueuesOK
  <2>5. Dispatch(y, sq, Cons(cur_task, pq), rq)
    BY <1>2 DEF Preempt, Yielded
  <2>6. SchedulerInv' /\ \A t \in Tasks : state'[t] = "DEAD" <=> y[t] = "DEAD"
    BY <2>2, <2>4, <2>5, PassLemma
  <2> QED  BY <2>1, <2>6, <1>0 DEF QueuesOK, Yielded
<1>3. CASE CurLevel \notin {"RR", "PERIODIC"}
  <2>1. Dispatch(st, sq, pq, rq)
    BY <1>3 DEF Preempt
  <2>2. cur_task \in Tasks => level'[cur_task] = "SYSTEM"
    <3> SUFFICES ASSUME cur_task \in Tasks PROVE level'[cur_task] = "SYSTEM"
      OBVIOUS
    <3>1. level'[cur_task] \notin {"RR", "PERIODIC"}
      BY <1>3, IdleNotTask DEF CurLevel
    <3>2. level'[cur_task] # "IDLE"
      BY DEF Handled, Accounted
    <3> QED  BY <3>1, <3>2, <1>0 DEF Levels
  <2> QED  BY <2>1, <2>2, PassLemma, IdleNotTask DEF Top
<1> QED  BY <1>1, <1>2, <1>3

-----------------------------------------------------------------------------
(* The initial state, aborts, and what the other actions share.            *)

LEMMA InitInv == Init => IInv
<1> SUFFICES ASSUME Init PROVE IInv
  OBVIOUS
<1>0. MAXPROCESS \in Nat \ {0} /\ MAXSERVICE \in 0 .. 255 /\ WORD \in Nat \ {0} /\ 0 \in Values
  BY KernelAssumption
<1>1. 1 \in Tasks /\ 0 \in Word /\ cur_task = 1
  BY <1>0 DEF Tasks, Word, Init
<1>2. dead_pool_queue \in Seq(Tasks) /\ Holds(dead_pool_queue, {t \in Tasks : state[t] = "DEAD"})
  <2> DEFINE e(i) == i + 1
             q == [i \in 1 .. MAXPROCESS - 1 |-> e(i)]
  <2>1. MAXPROCESS - 1 \in Nat /\ \A i \in 1 .. MAXPROCESS - 1 : e(i) \in Tasks
    BY <1>0 DEF Tasks
  <2>2. q \in Seq(Tasks)
    BY <2>1
  <2>3. dead_pool_queue = q
    BY DEF Init
  <2>4. {t \in Tasks : state[t] = "DEAD"} = 2 .. MAXPROCESS
    BY <1>0 DEF Init, Tasks
  <2>5. IsInjective(q)
    BY <2>1 DEF IsInjective
  <2>6. Range(q) = 2 .. MAXPROCESS
    <3>1. \A t \in 2 .. MAXPROCESS : t - 1 \in DOMAIN q /\ q[t - 1] = t
      BY <1>0
    <3>2. \A i \in DOMAIN q : q[i] \in 2 .. MAXPROCESS
      BY <1>0
    <3> QED  BY <3>1, <3>2 DEF Range
  <2> QED  BY <2>2, <2>3, <2>4, <2>5, <2>6 DEF Holds
<1>3. /\ \A l : ReadyAt(state, level, l) = {}
      /\ \A t \in Tasks : state[t] # "WAITING"
      /\ \A t \in Tasks : state[t] = "RUNNING" <=> t = 1
  BY DEF Init, ReadyAt
<1>4. <<>> \in Seq(Tasks) /\ Range(<<>>) = {} /\ IsInjective(<<>>) /\ Len(<<>>) = 0
  BY EmptyQueue DEF Queue, IsInjective
<1>5. TypeOK
  <2>1. state \in [Tasks -> States] /\ level \in [Tasks -> Levels]
    BY DEF Init, States, Levels
  <2>2. /\ period \in [Tasks -> Word] /\ wcet \in [Tasks -> Word]
        /\ counter \in [Tasks -> Word] /\ wcet_counter \in [Tasks -> Word]
        /\ ticks_since_boot \in Word
    BY <1>1 DEF Init
  <2>3. /\ service_queue \in [Services -> Seq(Tasks)]
        /\ service_data \in [Services -> Values] /\ received \in [Tasks -> Values]
    BY <1>0, <1>4 DEF Init
  <2>4. /\ publishing \in Services \cup {NoService} /\ will_be_preempted \in BOOLEAN
        /\ resuming \in [Tasks -> Services \cup {NoService}]
        /\ periodic_tasks \in [Slots -> Tasks \cup {NoTask}]
        /\ error_msg \in Errors
    BY DEF Init, Errors
  <2>5. num_services \in 0 .. MAXSERVICE
    BY <1>0 DEF Init
  <2>6. cur_task \in Tasks \cup {Idle} /\ rr_queue = <<>> /\ system_queue = <<>> /\ periodic_queue = <<>>
    BY <1>1 DEF Init
  <2> QED  BY <1>2, <1>4, <2>1, <2>2, <2>3, <2>4, <2>5, <2>6 DEF TypeOK
<1>6. DescriptorsAccounted
  BY <1>1, <1>2, <1>3, <1>4 DEF Init, DescriptorsAccounted, Holds
<1>7. Periodics = {}
  BY IdleNotTask DEF Init, Periodics
<1>8. SlotsMatchTasks
  BY <1>7 DEF Init, SlotsMatchTasks
<1>9. CurLevel = "SYSTEM"
  BY <1>1, IdleNotTask DEF Init, CurLevel
<1> QED
  BY <1>4, <1>5, <1>6, <1>7, <1>8, <1>9
  DEF IInv, Scheduled, OnePeriodicActive, CountersNeverWrap, NoInternalError, Init

\* An abort leaves everything but the error code.
LEMMA AbortLemma ==
  ASSUME IInv, NEW code \in Errors, Abort(code),
         code \notin {"RTOS_INTERNAL_ERROR", "NO_FREE_PERIODIC_BLOCK"}
  PROVE  IInv'
<1>1. UNCHANGED <<cur_task, state, level, dead_pool_queue, ready_queues,
                  periodic_vars, service_vars, publish_vars, resuming,
                  received, ticks_since_boot>> /\ error_msg' = code
  BY DEF Abort
<1>2. SchedulerInv /\ TimingInv /\ ServiceInv
  BY Parts
<1>3. SchedulerInv'
  BY <1>1, <1>2 DEF SchedulerInv, DescriptorsAccounted, Scheduled, OnePeriodicActive,
     ReadyAt, CurLevel, ready_queues, service_vars, publish_vars
<1>4. TimingInv'
  BY <1>1, <1>2 DEF TimingInv, SlotsMatchTasks, CountersNeverWrap, Periodics,
     periodic_vars, periodic_args
<1>5. ServiceInv'
  BY <1>1, <1>2 DEF ServiceInv, NoInternalError, service_vars, publish_vars
<1> QED  BY <1>3, <1>4, <1>5, PartsNext

\* The state a request finds, as the dispatcher's lemmas want it.
LEMMA Now ==
  ASSUME IInv
  PROVE  /\ ResumeOK
         /\ cur_task \in Tasks \cup {Idle}
         /\ \A t \in Tasks : state[t] = "RUNNING" <=> cur_task = t
         /\ Handled(state, level, system_queue, periodic_queue, rr_queue,
                    dead_pool_queue, service_queue)
         /\ cur_task \in Tasks => CurLevel = level[cur_task] /\ CurLevel # "IDLE"
         /\ ~will_be_preempted => \/ CurLevel = "SYSTEM"
                                  \/ system_queue = <<>> /\ periodic_queue = <<>>
         /\ CurLevel # "SYSTEM" => periodic_queue = <<>>
         /\ publishing = NoService => ~will_be_preempted
<1>1. SchedulerInv /\ TimingInv /\ ServiceInv
  BY Parts
<1>2. Len(periodic_queue) <= 1
  <2>1. Len(periodic_queue) \in Nat
    BY <1>1 DEF SchedulerInv, Queue
  <2> QED  BY <2>1, <1>1 DEF SchedulerInv, OnePeriodicActive
<1>3. QueuesOK(state, level, system_queue, periodic_queue, rr_queue)
  BY <1>1, <1>2 DEF SchedulerInv, DescriptorsAccounted, QueuesOK
<1>4. Accounted(state, level, dead_pool_queue, service_queue)
  BY <1>1 DEF SchedulerInv, DescriptorsAccounted, Accounted
<1>5. \A t \in Tasks : level[t] = "IDLE" => state[t] = "DEAD"
  BY <1>4 DEF Accounted
<1>6. cur_task \in Tasks => CurLevel = level[cur_task] /\ CurLevel # "IDLE"
  BY <1>1, <1>5, IdleNotTask DEF SchedulerInv, DescriptorsAccounted, CurLevel
<1> QED
  BY <1>1, <1>3, <1>4, <1>6
  DEF SchedulerInv, ServiceInv, DescriptorsAccounted, Handled, ResumeOK, Scheduled

\* A free descriptor p becomes a task of level l, ready or (PERIODIC) waiting.
LEMMA ClaimLemma ==
  ASSUME IInv, dead_pool_queue # <<>>,
         NEW l \in {"SYSTEM", "PERIODIC", "RR"}, NEW x \in {"READY", "WAITING"},
         x = "WAITING" => l = "PERIODIC"
  PROVE  LET p   == Head(dead_pool_queue)
             st2 == [state EXCEPT ![p] = x]
             lv2 == [level EXCEPT ![p] = l]
         IN  /\ p \in Tasks /\ p # cur_task /\ state[p] = "DEAD"
             /\ st2 \in [Tasks -> States] /\ lv2 \in [Tasks -> Levels]
             /\ Accounted(st2, lv2, Tail(dead_pool_queue), service_queue)
             /\ \A t \in Tasks : st2[t] = "RUNNING" <=> t = cur_task
             /\ \A m : p \notin ReadyAt(state, level, m)
             /\ \A m : m # l \/ x = "WAITING" => ReadyAt(st2, lv2, m) = ReadyAt(state, level, m)
             /\ x = "READY" => ReadyAt(st2, lv2, l) = ReadyAt(state, level, l) \cup {p}
<1> DEFINE p   == Head(dead_pool_queue)
           st2 == [state EXCEPT ![p] = x]
           lv2 == [level EXCEPT ![p] = l]
           D   == {t \in Tasks : state[t] = "DEAD"}
<1>1. Handled(state, level, system_queue, periodic_queue, rr_queue, dead_pool_queue, service_queue)
      /\ \A t \in Tasks : state[t] = "RUNNING" <=> cur_task = t
  BY Now
<1>2. Accounted(state, level, dead_pool_queue, service_queue)
      /\ state \in [Tasks -> States] /\ level \in [Tasks -> Levels]
  BY <1>1 DEF Handled, QueuesOK
<1>3. p \in Tasks /\ p \in D /\ Tail(dead_pool_queue) \in Queue
      /\ Holds(Tail(dead_pool_queue), D \ {p})
  BY <1>2, TailHolds DEF Accounted, Queue
<1>4. state[p] = "DEAD" /\ p # cur_task
  BY <1>1, <1>3
<1>5. /\ st2 \in [Tasks -> States] /\ lv2 \in [Tasks -> Levels]
      /\ \A t \in Tasks : /\ st2[t] = IF t = p THEN x ELSE state[t]
                          /\ lv2[t] = IF t = p THEN l ELSE level[t]
  BY <1>2, <1>3 DEF States, Levels
<1>6. {t \in Tasks : st2[t] = "DEAD"} = D \ {p}
  BY <1>5
<1>7. \A t \in Tasks : /\ st2[t] = "WAITING" /\ lv2[t] # "PERIODIC"
                            <=> state[t] = "WAITING" /\ level[t] # "PERIODIC"
                       /\ lv2[t] = "IDLE" => st2[t] = "DEAD"
  BY <1>2, <1>4, <1>5 DEF Accounted
<1>8. Accounted(st2, lv2, Tail(dead_pool_queue), service_queue)
  BY <1>2, <1>3, <1>6, <1>7 DEF Accounted
<1>9. \A m : p \notin ReadyAt(state, level, m)
  BY <1>4 DEF ReadyAt
<1>10. \A m : m # l \/ x = "WAITING" => ReadyAt(st2, lv2, m) = ReadyAt(state, level, m)
  BY <1>4, <1>5 DEF ReadyAt
<1>11. x = "READY" => ReadyAt(st2, lv2, l) = ReadyAt(state, level, l) \cup {p}
  BY <1>3, <1>5 DEF ReadyAt
<1> HIDE DEF p, st2, lv2
<1>12. \A t \in Tasks : st2[t] = "RUNNING" <=> t = cur_task
  BY <1>1, <1>4, <1>5
<1> USE DEF p, st2, lv2
<1> QED  BY <1>3, <1>4, <1>5, <1>8, <1>9, <1>10, <1>11, <1>12

\* The timing data of a pass that creates and ends no periodic task.
LEMMA TimingKept ==
  ASSUME TimingInv, UNCHANGED <<periodic_vars, ticks_since_boot>>,
         \A t \in Tasks : level'[t] = "PERIODIC" /\ state'[t] # "DEAD"
                            <=> level[t] = "PERIODIC" /\ state[t] # "DEAD"
  PROVE  TimingInv'
<1>1. Periodics' = Periodics
  BY DEF Periodics, periodic_vars
<1>2. SlotsMatchTasks'
  BY <1>1 DEF TimingInv, SlotsMatchTasks, periodic_vars
<1>3. CountersNeverWrap'
  BY <1>1 DEF TimingInv, CountersNeverWrap, periodic_vars, periodic_args
<1> QED  BY <1>2, <1>3 DEF TimingInv, periodic_vars, periodic_args

LEMMA ServiceKept ==
  ASSUME ServiceInv, UNCHANGED <<service_data, num_services, publish_vars, error_msg>>
  PROVE  ServiceInv'
  BY DEF ServiceInv, NoInternalError, publish_vars

-----------------------------------------------------------------------------
(* One lemma per action: it preserves the invariant.                       *)

LEMMA Task_Create_RRInv == IInv /\ Task_Create_RR => IInv'
<1> SUFFICES ASSUME IInv, Task_Create_RR PROVE IInv'
  OBVIOUS
<1>1. CASE dead_pool_queue = <<>>
  <2>1. Abort("TOO_MANY_TASKS")
    BY <1>1 DEF Task_Create_RR
  <2> QED  BY <2>1, AbortLemma DEF Errors
<1>2. CASE dead_pool_queue # <<>>
  <2> DEFINE p   == Head(dead_pool_queue)
             st2 == [state EXCEPT ![p] = "READY"]
             lv2 == [level EXCEPT ![p] = "RR"]
             rq2 == Append(rr_queue, p)
  <2>1. /\ Claim(p, "RR")
        /\ Dispatch(st2, system_queue, periodic_queue, rq2)
        /\ UNCHANGED <<periodic_vars, service_vars, publish_vars, ticks_since_boot, error_msg>>
    BY <1>2 DEF Task_Create_RR
  <2>2. dead_pool_queue' = Tail(dead_pool_queue) /\ level' = lv2 /\ service_queue' = service_queue
    BY <2>1 DEF Claim, service_vars
  <2>3. /\ p \in Tasks /\ p # cur_task /\ state[p] = "DEAD"
        /\ st2 \in [Tasks -> States] /\ lv2 \in [Tasks -> Levels]
        /\ Accounted(st2, lv2, Tail(dead_pool_queue), service_queue)
        /\ \A t \in Tasks : st2[t] = "RUNNING" <=> t = cur_task
        /\ p \notin ReadyAt(state, level, "RR")
        /\ ReadyAt(st2, lv2, "SYSTEM") = ReadyAt(state, level, "SYSTEM")
        /\ ReadyAt(st2, lv2, "PERIODIC") = ReadyAt(state, level, "PERIODIC")
        /\ ReadyAt(st2, lv2, "RR") = ReadyAt(state, level, "RR") \cup {p}
    BY <1>2, ClaimLemma
  <2>4. QueuesOK(state, level, system_queue, periodic_queue, rr_queue)
    BY Now DEF Handled
  <2> HIDE DEF p, st2, lv2
  <2>5. rq2 \in Queue /\ Holds(rq2, ReadyAt(st2, lv2, "RR"))
    <3>1. rq2 \in Queue /\ Holds(rq2, ReadyAt(state, level, "RR") \cup {p})
      BY <2>3, <2>4, AppendHolds DEF QueuesOK, Queue
    <3> QED  BY <3>1, <2>3
  <2> HIDE DEF rq2
  <2>6. Handled(st2, level', system_queue, periodic_queue, rq2, dead_pool_queue', service_queue')
    BY <2>2, <2>3, <2>4, <2>5 DEF Handled, QueuesOK
  <2>7. cur_task \in Tasks /\ level'[cur_task] = level[cur_task]
    BY <2>2, <2>3, Now DEF lv2, Task_Create_RR, InCall, Handled
  <2>8. publishing = NoService /\ ~will_be_preempted' /\ ~will_be_preempted
    BY <2>1, Now DEF Task_Create_RR, InCall, InTask, publish_vars
  <2>9. Top(cur_task, level', system_queue, periodic_queue, rq2)
    BY <2>7, <2>8, Now, IdleNotTask DEF Top
  <2>10. SchedulerInv' /\ \A t \in Tasks : state'[t] = "DEAD" <=> st2[t] = "DEAD"
    BY <2>1, <2>6, <2>8, <2>9, Now, PassLemma
  <2>11. \A t \in Tasks : level'[t] = "PERIODIC" /\ state'[t] # "DEAD"
                            <=> level[t] = "PERIODIC" /\ state[t] # "DEAD"
    BY <2>2, <2>3, <2>4, <2>10, Now DEF st2, lv2, Handled, QueuesOK
  <2>12. TimingInv' /\ ServiceInv'
    BY <2>1, <2>11, Parts, TimingKept, ServiceKept DEF service_vars
  <2> QED  BY <2>10, <2>12, PartsNext
<1> QED  BY <1>1, <1>2

LEMMA Task_Create_SystemInv == IInv /\ Task_Create_System => IInv'
<1> SUFFICES ASSUME IInv, Task_Create_System PROVE IInv'
  OBVIOUS
<1>1. CASE dead_pool_queue = <<>>
  <2>1. Abort("TOO_MANY_TASKS")
    BY <1>1 DEF Task_Create_System
  <2> QED  BY <2>1, AbortLemma DEF Errors
<1>2. CASE dead_pool_queue # <<>> /\ CurLevel = "PERIODIC" /\ Len(periodic_queue) >= 1
  <2>1. Abort("PERIODIC_TASK_TIME_CONFLICT")
    BY <1>2 DEF Task_Create_System
  <2> QED  BY <2>1, AbortLemma DEF Errors
<1>3. CASE dead_pool_queue # <<>> /\ ~ (CurLevel = "PERIODIC" /\ Len(periodic_queue) >= 1)
  <2> DEFINE p   == Head(dead_pool_queue)
             st2 == [state EXCEPT ![p] = "READY"]
             lv2 == [level EXCEPT ![p] = "SYSTEM"]
             sq2 == Append(system_queue, p)
  <2>1. /\ Claim(p, "SYSTEM")
        /\ Preempt(st2, sq2, periodic_queue, rr_queue)
        /\ UNCHANGED <<periodic_vars, service_vars, publish_vars, ticks_since_boot, error_msg>>
    BY <1>3 DEF Task_Create_System
  <2>2. dead_pool_queue' = Tail(dead_pool_queue) /\ level' = lv2 /\ service_queue' = service_queue
    BY <2>1 DEF Claim, service_vars
  <2>3. /\ p \in Tasks /\ p # cur_task /\ state[p] = "DEAD"
        /\ st2 \in [Tasks -> States] /\ lv2 \in [Tasks -> Levels]
        /\ Accounted(st2, lv2, Tail(dead_pool_queue), service_queue)
        /\ \A t \in Tasks : st2[t] = "RUNNING" <=> t = cur_task
        /\ p \notin ReadyAt(state, level, "SYSTEM")
        /\ ReadyAt(st2, lv2, "RR") = ReadyAt(state, level, "RR")
        /\ ReadyAt(st2, lv2, "PERIODIC") = ReadyAt(state, level, "PERIODIC")
        /\ ReadyAt(st2, lv2, "SYSTEM") = ReadyAt(state, level, "SYSTEM") \cup {p}
    BY <1>3, ClaimLemma
  <2>4. QueuesOK(state, level, system_queue, periodic_queue, rr_queue)
    BY Now DEF Handled
  <2> HIDE DEF p, st2, lv2
  <2>5. sq2 \in Queue /\ Holds(sq2, ReadyAt(st2, lv2, "SYSTEM"))
    <3>1. sq2 \in Queue /\ Holds(sq2, ReadyAt(state, level, "SYSTEM") \cup {p})
      BY <2>3, <2>4, AppendHolds DEF QueuesOK, Queue
    <3> QED  BY <3>1, <2>3
  <2> HIDE DEF sq2
  <2>6. Handled(st2, level', sq2, periodic_queue, rr_queue, dead_pool_queue', service_queue')
    BY <2>2, <2>3, <2>4, <2>5 DEF Handled, QueuesOK
  <2>7. cur_task \in Tasks /\ level'[cur_task] = level[cur_task]
    BY <2>2, <2>3, Now DEF lv2, Task_Create_System, InCall, Handled
  <2>8. publishing = NoService /\ ~will_be_preempted' /\ ~will_be_preempted
    BY <2>1, Now DEF Task_Create_System, InCall, InTask, publish_vars
  <2>9. st2[cur_task] = "RUNNING" /\ (CurLevel = "PERIODIC" => periodic_queue = <<>>)
    BY <2>3, <2>7, Now
  <2>10. SchedulerInv' /\ \A t \in Tasks : state'[t] = "DEAD" <=> st2[t] = "DEAD"
    BY <2>1, <2>6, <2>7, <2>8, <2>9, Now, PreemptLemma
  <2>11. \A t \in Tasks : level'[t] = "PERIODIC" /\ state'[t] # "DEAD"
                            <=> level[t] = "PERIODIC" /\ state[t] # "DEAD"
    BY <2>2, <2>3, <2>4, <2>10, Now DEF st2, lv2, Handled, QueuesOK
  <2>12. TimingInv' /\ ServiceInv'
    BY <2>1, <2>11, Parts, TimingKept, ServiceKept DEF service_vars
  <2> QED  BY <2>10, <2>12, PartsNext
<1> QED  BY <1>1, <1>2, <1>3

LEMMA Task_NextInv == IInv /\ Task_Next => IInv'
<1> SUFFICES ASSUME IInv, Task_Next PROVE IInv'
  OBVIOUS
<1> DEFINE y   == Yielded(state)
           sq2 == IF CurLevel = "SYSTEM" THEN Append(system_queue, cur_task) ELSE system_queue
           rq2 == IF CurLevel = "RR" THEN Append(rr_queue, cur_task) ELSE rr_queue
<1>1. /\ Dispatch(y, sq2, periodic_queue, rq2)
      /\ UNCHANGED <<level, dead_pool_queue, periodic_vars, service_vars,
                     publish_vars, ticks_since_boot, error_msg>>
  BY DEF Task_Next, Yielded
<1>2. cur_task \in Tasks /\ state[cur_task] = "RUNNING" /\ CurLevel = level[cur_task]
      /\ ~will_be_preempted' /\ ~will_be_preempted
  BY <1>1, Now DEF Task_Next, InCall, InTask, publish_vars
<1>3. Handled(state, level, system_queue, periodic_queue, rr_queue, dead_pool_queue, service_queue)
      /\ QueuesOK(state, level, system_queue, periodic_queue, rr_queue)
      /\ level \in [Tasks -> Levels]
  BY Now DEF Handled
<1>4. /\ y \in [Tasks -> States] /\ Accounted(y, level, dead_pool_queue, service_queue)
      /\ \A t \in Tasks : y[t] # "RUNNING"
      /\ \A l : cur_task \notin ReadyAt(state, level, l)
      /\ \A l : level[cur_task] = l =>
                  ReadyAt(y, level, l) = ReadyAt(state, level, l) \cup {cur_task}
      /\ \A l : level[cur_task] # l => ReadyAt(y, level, l) = ReadyAt(state, level, l)
  BY <1>2, <1>3, YieldLemma
<1>5. sq2 \in Queue /\ Holds(sq2, ReadyAt(y, level, "SYSTEM"))
  <2>1. CASE level[cur_task] = "SYSTEM"
    <3>1. sq2 \in Queue /\ Holds(sq2, ReadyAt(state, level, "SYSTEM") \cup {cur_task})
      BY <1>2, <1>3, <1>4, <2>1, AppendHolds DEF QueuesOK, Queue
    <3> QED  BY <3>1, <1>4, <2>1
  <2>2. CASE level[cur_task] # "SYSTEM"
    BY <1>2, <1>3, <1>4, <2>2 DEF QueuesOK
  <2> QED  BY <2>1, <2>2
<1>6. rq2 \in Queue /\ Holds(rq2, ReadyAt(y, level, "RR"))
  <2>1. CASE level[cur_task] = "RR"
    <3>1. rq2 \in Queue /\ Holds(rq2, ReadyAt(state, level, "RR") \cup {cur_task})
      BY <1>2, <1>3, <1>4, <2>1, AppendHolds DEF QueuesOK, Queue
    <3> QED  BY <3>1, <1>4, <2>1
  <2>2. CASE level[cur_task] # "RR"
    BY <1>2, <1>3, <1>4, <2>2 DEF QueuesOK
  <2> QED  BY <2>1, <2>2
<1>7. Range(periodic_queue) \subseteq ReadyAt(y, level, "PERIODIC")
  BY <1>3, <1>4 DEF QueuesOK
<1> HIDE DEF y, sq2, rq2
<1>8. Handled(y, level', sq2, periodic_queue, rq2, dead_pool_queue', service_queue')
  BY <1>1, <1>3, <1>4, <1>5, <1>6, <1>7 DEF Handled, QueuesOK, service_vars
<1>9. SchedulerInv' /\ \A t \in Tasks : state'[t] = "DEAD" <=> y[t] = "DEAD"
  BY <1>1, <1>2, <1>4, <1>8, Now, PassLemma
<1>10. \A t \in Tasks : level'[t] = "PERIODIC" /\ state'[t] # "DEAD"
                          <=> level[t] = "PERIODIC" /\ state[t] # "DEAD"
  BY <1>1, <1>2, <1>3, <1>9 DEF y, Yielded, QueuesOK
<1>11. TimingInv' /\ ServiceInv'
  BY <1>1, <1>10, Parts, TimingKept, ServiceKept DEF service_vars
<1> QED  BY <1>9, <1>11, PartsNext

LEMMA OS_AbortInv == IInv /\ OS_Abort => IInv'
  BY AbortLemma DEF OS_Abort, Errors

LEMMA Service_InitInv == IInv /\ Service_Init => IInv'
<1> SUFFICES ASSUME IInv, Service_Init PROVE IInv'
  OBVIOUS
<1>1. CASE num_services < MAXSERVICE
  <2>1. /\ num_services' = num_services + 1
        /\ UNCHANGED <<cur_task, state, level, dead_pool_queue, ready_queues,
                       periodic_vars, service_queue, service_data, publish_vars,
                       resuming, received, ticks_since_boot, error_msg>>
    BY <1>1 DEF Service_Init
  <2>2. SchedulerInv /\ TimingInv /\ ServiceInv
    BY Parts
  <2>3. SchedulerInv'
    BY <2>1, <2>2 DEF SchedulerInv, DescriptorsAccounted, Scheduled, OnePeriodicActive,
       ReadyAt, CurLevel, ready_queues, publish_vars
  <2>4. TimingInv'
    BY <2>1, <2>2, TimingKept
  <2>5. num_services' \in 0 .. MAXSERVICE
    BY <1>1, <2>1, <2>2, KernelAssumption DEF ServiceInv
  <2>6. ServiceInv'
    BY <2>1, <2>2, <2>5 DEF ServiceInv, NoInternalError, publish_vars
  <2> QED  BY <2>3, <2>4, <2>6, PartsNext
<1>2. CASE ~ (num_services < MAXSERVICE)
  BY <1>2, AbortLemma DEF Service_Init, Errors
<1> QED  BY <1>1, <1>2

LEMMA Mod256 ==
  \A x \in Int : /\ x % 256 \in 0 .. 255 /\ x \div 256 \in Int
                 /\ x = (x \div 256) * 256 + (x % 256)
  OBVIOUS

\* A handle the kernel accepts is one it has handed out.
LEMMA HandleLemma ==
  ASSUME IInv, NEW h \in Handles, ~InvalidHandle(h)
  PROVE  h \in Services
<1>1. num_services \in 0 .. MAXSERVICE /\ MAXSERVICE \in 0 .. 255
  BY KernelAssumption DEF IInv, TypeOK
<1>2. (h - 1) % 256 < num_services
  BY <1>1 DEF InvalidHandle, Handles
<1>3. CASE h = 0
  <2> DEFINE q == (h - 1) \div 256
             r == (h - 1) % 256
  <2>1. h - 1 \in Int /\ h - 1 = 0 - 1
    BY <1>3
  <2>2. /\ (h - 1) % 256 \in 0 .. 255 /\ (h - 1) \div 256 \in Int
        /\ h - 1 = ((h - 1) \div 256) * 256 + ((h - 1) % 256)
    BY <2>1, Mod256, Zenon
  <2>3. q \in Int /\ r \in 0 .. 255 /\ h - 1 = q * 256 + r
    BY <2>2, Zenon
  <2> HIDE DEF q, r
  <2>4. 0 - 1 = q * 256 + r
    BY <2>1, <2>3
  <2>5. r = 255
    BY <2>3, <2>4
  <2> QED  BY <1>1, <1>2, <2>5 DEF r
<1>4. CASE h # 0
  <2>1. h - 1 \in 0 .. 255 /\ (h - 1) % 256 = h - 1
    BY <1>1, <1>4 DEF Handles
  <2>2. h \in Int /\ h >= 1 /\ h - 1 < num_services
    BY <1>1, <1>2, <1>4, <2>1 DEF Handles
  <2> QED  BY <1>1, <2>2 DEF Services
<1> QED  BY <1>3, <1>4

LEMMA Service_PublishInv ==
  ASSUME IInv, NEW h \in Handles, NEW v \in Values, Service_Publish(h, v)
  PROVE  IInv'
<1>1. CASE InvalidHandle(h)
  BY <1>1, AbortLemma DEF Service_Publish, Errors
<1>2. CASE ~InvalidHandle(h)
  <2>1. /\ service_data' = [service_data EXCEPT ![h] = v]
        /\ publishing' = h /\ will_be_preempted' = FALSE
        /\ UNCHANGED <<cur_task, state, level, dead_pool_queue, ready_queues,
                       periodic_vars, service_queue, num_services, resuming,
                       received, ticks_since_boot, error_msg>>
    BY <1>2 DEF Service_Publish, Record
  <2>2. SchedulerInv /\ TimingInv /\ ServiceInv /\ h \in Services
    BY Parts, HandleLemma, <1>2
  <2>3. ~will_be_preempted
    BY Now DEF Service_Publish, InTask
  <2>4. SchedulerInv'
    BY <2>1, <2>2, <2>3, IdleNotTask DEF SchedulerInv, DescriptorsAccounted, Scheduled,
       OnePeriodicActive, ReadyAt, CurLevel, ready_queues
  <2>5. TimingInv'
    BY <2>1, <2>2, TimingKept
  <2>6. ServiceInv'
    BY <2>1, <2>2 DEF ServiceInv, NoInternalError
  <2> QED  BY <2>4, <2>5, <2>6, PartsNext
<1> QED  BY <1>1, <1>2

LEMMA EndPublishInv == IInv /\ EndPublish => IInv'
<1> SUFFICES ASSUME IInv, EndPublish PROVE IInv'
  OBVIOUS
<1>1. CASE will_be_preempted /\ CurLevel = "PERIODIC" /\ Len(periodic_queue) >= 1
  BY <1>1, AbortLemma DEF EndPublish, Errors
<1>2. CASE ~ (will_be_preempted /\ CurLevel = "PERIODIC" /\ Len(periodic_queue) >= 1)
  <2>1. /\ publishing' = NoService /\ will_be_preempted' = FALSE
        /\ IF will_be_preempted
           THEN Preempt(state, system_queue, periodic_queue, rr_queue)
           ELSE Dispatch(state, system_queue, periodic_queue, rr_queue)
        /\ UNCHANGED <<level, dead_pool_queue, periodic_vars, service_vars,
                       ticks_since_boot, error_msg>>
    BY <1>2 DEF EndPublish
  <2>2. Handled(state, level', system_queue, periodic_queue, rr_queue,
                dead_pool_queue', service_queue')
    BY <2>1, Now DEF service_vars
  <2>3. SchedulerInv' /\ \A t \in Tasks : state'[t] = "DEAD" <=> state[t] = "DEAD"
    <3>1. CASE will_be_preempted
      <4>1. cur_task \in Tasks => state[cur_task] = "RUNNING" /\ level'[cur_task] = level[cur_task]
        BY <2>1, Now
      <4>2. CurLevel = "PERIODIC" => periodic_queue = <<>>
        BY Now
      <4> QED  BY <3>1, <2>1, <2>2, <4>1, <4>2, Now, PreemptLemma
    <3>2. CASE ~will_be_preempted
      <4>1. cur_task \in Tasks => Top(cur_task, level', system_queue, periodic_queue, rr_queue)
        BY <3>2, <2>1, Now, IdleNotTask DEF Top
      <4> QED  BY <3>2, <2>1, <2>2, <4>1, Now, PassLemma
    <3> QED  BY <3>1, <3>2
  <2>4. TimingInv'
    BY <2>1, <2>3, Parts, TimingKept
  <2>5. ServiceInv'
    BY <2>1, Parts DEF ServiceInv, NoInternalError, service_vars
  <2> QED  BY <2>3, <2>4, <2>5, PartsNext
<1> QED  BY <1>1, <1>2

LEMMA Service_SubscribeInv ==
  ASSUME IInv, NEW h \in Handles, Service_Subscribe(h)
  PROVE  IInv'
<1>1. CASE InvalidHandle(h)
  BY <1>1, AbortLemma DEF Service_Subscribe, Errors
<1>2. CASE ~InvalidHandle(h) /\ CurLevel = "PERIODIC"
  BY <1>2, AbortLemma DEF Service_Subscribe, Errors
<1>3. CASE ~InvalidHandle(h) /\ CurLevel # "PERIODIC"
  <2> DEFINE st2 == [state EXCEPT ![cur_task] = "WAITING"]
             old == service_queue[h]
             new == Append(old, cur_task)
             sv2 == [service_queue EXCEPT ![h] = new]
  <2>1. /\ service_queue' = sv2
        /\ Dispatch(st2, system_queue, periodic_queue, rr_queue)
        /\ UNCHANGED <<level, dead_pool_queue, periodic_vars, service_data,
                       num_services, publish_vars, ticks_since_boot, error_msg>>
    BY <1>3 DEF Service_Subscribe
  <2>2. /\ cur_task \in Tasks /\ h \in Services
        /\ state[cur_task] = "RUNNING" /\ level[cur_task] # "PERIODIC"
        /\ level[cur_task] # "IDLE" /\ ~will_be_preempted'
    BY <1>3, <2>1, Now, HandleLemma DEF Service_Subscribe, InCall, InTask, publish_vars
  <2>3. /\ Handled(state, level, system_queue, periodic_queue, rr_queue, dead_pool_queue, service_queue)
        /\ QueuesOK(state, level, system_queue, periodic_queue, rr_queue)
        /\ Accounted(state, level, dead_pool_queue, service_queue)
    BY Now DEF Handled
  <2>4. /\ st2 \in [Tasks -> States]
        /\ \A t \in Tasks : st2[t] = IF t = cur_task THEN "WAITING" ELSE state[t]
        /\ \A t \in Tasks : st2[t] # "RUNNING"
        /\ {t \in Tasks : st2[t] = "DEAD"} = {t \in Tasks : state[t] = "DEAD"}
        /\ \A l : ReadyAt(st2, level, l) = ReadyAt(state, level, l)
    <3>1. st2 \in [Tasks -> States] /\ \A t \in Tasks : st2[t] = IF t = cur_task THEN "WAITING" ELSE state[t]
      BY <2>3 DEF QueuesOK, States
    <3>2. \A t \in Tasks : state[t] = "RUNNING" => t = cur_task
      BY Now
    <3> QED  BY <2>2, <3>1, <3>2 DEF ReadyAt
  <2>5. \A s \in Services : cur_task \notin Range(service_queue[s])
    BY <2>2, <2>3 DEF Accounted
  <2>6. /\ new \in Queue /\ IsInjective(new) /\ Range(new) = Range(old) \cup {cur_task}
    <3>1. old \in Seq(Tasks) /\ Holds(old, Range(old))
      BY <2>2, <2>3 DEF Accounted, Holds, Queue
    <3> HIDE DEF old
    <3>2. cur_task \notin Range(old)
      BY <2>2, <2>5 DEF old
    <3> QED  BY <2>2, <3>1, <3>2, AppendHolds DEF Holds, Queue
  <2> HIDE DEF new, st2
  <2>7. /\ sv2 \in [Services -> Queue]
        /\ \A s \in Services : sv2[s] = IF s = h THEN new ELSE service_queue[s]
    BY <2>2, <2>3, <2>6 DEF Accounted
  <2>8. \A s \in Services : Range(sv2[s]) = IF s = h THEN Range(service_queue[h]) \cup {cur_task}
                                                    ELSE Range(service_queue[s])
    BY <2>6, <2>7
  <2> HIDE DEF sv2, old
  <2>9. Accounted(st2, level, dead_pool_queue, sv2)
    <3>1. \A s \in Services : IsInjective(sv2[s])
      BY <2>3, <2>6, <2>7 DEF Accounted
    <3>2. \A r, s \in Services : r # s => Range(sv2[r]) \cap Range(sv2[s]) = {}
      BY <2>2, <2>3, <2>5, <2>8 DEF Accounted
    <3>3. \A t \in Tasks : st2[t] = "WAITING" /\ level[t] # "PERIODIC"
                             <=> \E s \in Services : t \in Range(sv2[s])
      BY <2>2, <2>3, <2>4, <2>8 DEF Accounted
    <3>4. \A t \in Tasks : level[t] = "IDLE" => st2[t] = "DEAD"
      BY <2>2, <2>3, <2>4 DEF Accounted
    <3> QED  BY <2>3, <2>4, <2>7, <3>1, <3>2, <3>3, <3>4 DEF Accounted
  <2>10. Handled(st2, level', system_queue, periodic_queue, rr_queue, dead_pool_queue', service_queue')
    BY <2>1, <2>3, <2>4, <2>9 DEF Handled, QueuesOK
  <2>11. SchedulerInv' /\ \A t \in Tasks : state'[t] = "DEAD" <=> st2[t] = "DEAD"
    BY <2>1, <2>2, <2>4, <2>10, Now, PassLemma
  <2>12. \A t \in Tasks : level'[t] = "PERIODIC" /\ state'[t] # "DEAD"
                            <=> level[t] = "PERIODIC" /\ state[t] # "DEAD"
    BY <2>1, <2>2, <2>4, <2>11
  <2>13. TimingInv' /\ ServiceInv'
    BY <2>1, <2>12, Parts, TimingKept, ServiceKept
  <2> QED  BY <2>11, <2>13, PartsNext
<1> QED  BY <1>1, <1>2, <1>3

LEMMA WakeSubscriberInv == IInv /\ WakeSubscriber => IInv'
<1> SUFFICES ASSUME IInv, WakeSubscriber PROVE IInv'
  OBVIOUS
<1> DEFINE t   == Head(service_queue[publishing])
           old == service_queue[publishing]
           st2 == [state EXCEPT ![t] = "READY"]
           sv2 == [service_queue EXCEPT ![publishing] = Tail(old)]
<1>0. SchedulerInv /\ TimingInv /\ ServiceInv
  BY Parts
<1>1. publishing \in Services /\ old # <<>>
  BY <1>0 DEF WakeSubscriber, InPublish, ServiceInv
<1>2. /\ QueuesOK(state, level, system_queue, periodic_queue, rr_queue)
      /\ Accounted(state, level, dead_pool_queue, service_queue)
      /\ level \in [Tasks -> Levels]
  BY Now DEF Handled
<1>3. old \in Seq(Tasks) /\ Holds(old, Range(old))
  BY <1>1, <1>2 DEF Accounted, Holds, Queue
<1>4. /\ t \in Tasks /\ t \in Range(old)
      /\ Tail(old) \in Queue /\ Holds(Tail(old), Range(old) \ {t})
  BY <1>1, <1>3, TailHolds DEF Queue
<1>5. state[t] = "WAITING" /\ level[t] \in {"SYSTEM", "RR"}
  <2>1. state[t] = "WAITING" /\ level[t] # "PERIODIC" /\ level[t] # "IDLE"
    BY <1>1, <1>2, <1>4 DEF Accounted
  <2> QED  BY <1>2, <1>4, <2>1 DEF Levels
<1>6. /\ service_queue' = sv2 /\ state' = st2
      /\ resuming' = [resuming EXCEPT ![t] = publishing]
      /\ IF level[t] = "SYSTEM"
         THEN /\ will_be_preempted' = TRUE
              /\ Ready(Append(system_queue, t), periodic_queue, rr_queue)
         ELSE /\ Ready(system_queue, periodic_queue, Append(rr_queue, t))
              /\ UNCHANGED will_be_preempted
      /\ UNCHANGED <<cur_task, level, dead_pool_queue, periodic_vars,
                     service_data, num_services, publishing, received,
                     ticks_since_boot, error_msg>>
  BY <1>5 DEF WakeSubscriber
<1>7. /\ st2 \in [Tasks -> States]
      /\ \A u \in Tasks : st2[u] = IF u = t THEN "READY" ELSE state[u]
  BY <1>2, <1>4 DEF QueuesOK, States
<1>8. /\ sv2 \in [Services -> Queue]
      /\ \A s \in Services : sv2[s] = IF s = publishing THEN Tail(old) ELSE service_queue[s]
      /\ \A s \in Services : Range(sv2[s]) = Range(service_queue[s]) \ {t}
  <2>1. /\ sv2 \in [Services -> Queue]
        /\ \A s \in Services : sv2[s] = IF s = publishing THEN Tail(old) ELSE service_queue[s]
    BY <1>1, <1>2, <1>4 DEF Accounted
  <2>2. Range(Tail(old)) = Range(old) \ {t}
    BY <1>4 DEF Holds
  <2>3. \A s \in Services : s # publishing => t \notin Range(service_queue[s])
    BY <1>1, <1>2, <1>4 DEF Accounted
  <2> QED  BY <2>1, <2>2, <2>3
<1>9. /\ \A l : t \notin ReadyAt(state, level, l)
      /\ \A l : l = level[t] => ReadyAt(st2, level, l) = ReadyAt(state, level, l) \cup {t}
      /\ \A l : l # level[t] => ReadyAt(st2, level, l) = ReadyAt(state, level, l)
      /\ {u \in Tasks : st2[u] = "DEAD"} = {u \in Tasks : state[u] = "DEAD"}
  BY <1>4, <1>5, <1>7 DEF ReadyAt
<1>10. IsInjective(Tail(old))
  BY <1>4 DEF Holds
<1> HIDE DEF t, old, st2, sv2
<1>11. Accounted(st2, level, dead_pool_queue, sv2)
  <2>1. \A s \in Services : IsInjective(sv2[s])
    BY <1>2, <1>8, <1>10 DEF Accounted
  <2>2. \A u \in Tasks : st2[u] = "WAITING" /\ level[u] # "PERIODIC"
                           <=> \E s \in Services : u \in Range(sv2[s])
    BY <1>2, <1>4, <1>5, <1>7, <1>8 DEF Accounted
  <2>3. \A r, s \in Services : r # s => Range(sv2[r]) \cap Range(sv2[s]) = {}
    BY <1>2, <1>8 DEF Accounted
  <2>4. \A u \in Tasks : level[u] = "IDLE" => st2[u] = "DEAD"
    BY <1>2, <1>4, <1>5, <1>7 DEF Accounted
  <2> QED  BY <1>2, <1>8, <1>9, <2>1, <2>2, <2>3, <2>4 DEF Accounted
<1>12. /\ QueuesOK(state', level', system_queue', periodic_queue', rr_queue')
       /\ level[t] # "SYSTEM" => system_queue' = system_queue
       /\ periodic_queue' = periodic_queue
       /\ will_be_preempted' \in BOOLEAN
       /\ will_be_preempted' <=> will_be_preempted \/ level[t] = "SYSTEM"
  <2>1. CASE level[t] = "SYSTEM"
    <3>1. /\ Append(system_queue, t) \in Queue
          /\ Holds(Append(system_queue, t), ReadyAt(state, level, "SYSTEM") \cup {t})
      BY <1>2, <1>4, <1>9, AppendHolds DEF QueuesOK, Queue
    <3> QED  BY <1>2, <1>6, <1>7, <1>9, <2>1, <3>1 DEF QueuesOK, Ready
  <2>2. CASE level[t] = "RR"
    <3>1. /\ Append(rr_queue, t) \in Queue
          /\ Holds(Append(rr_queue, t), ReadyAt(state, level, "RR") \cup {t})
      BY <1>2, <1>4, <1>9, AppendHolds DEF QueuesOK, Queue
    <3>2. will_be_preempted' = will_be_preempted /\ will_be_preempted \in BOOLEAN
      BY <1>0, <1>6, <2>2 DEF ServiceInv
    <3> QED  BY <1>2, <1>6, <1>7, <1>9, <2>2, <3>1, <3>2 DEF QueuesOK, Ready
  <2> QED  BY <1>5, <2>1, <2>2
<1>13. \A u \in Tasks : state'[u] = "RUNNING" <=> cur_task' = u
  BY <1>4, <1>5, <1>6, <1>7, Now
<1>14. DescriptorsAccounted'
  BY <1>6, <1>11, <1>12, <1>13 DEF DescriptorsAccounted, Accounted, QueuesOK
<1>15. CurLevel' = CurLevel
  BY <1>6 DEF CurLevel
<1>16. Scheduled' /\ OnePeriodicActive'
  BY <1>0, <1>1, <1>6, <1>12, <1>15, IdleNotTask DEF SchedulerInv, Scheduled, OnePeriodicActive
<1>17. resuming' \in [Tasks -> Services \cup {NoService}]
  BY <1>0, <1>1, <1>6 DEF SchedulerInv
<1>18. SchedulerInv'
  BY <1>0, <1>6, <1>11, <1>12, <1>14, <1>16, <1>17 DEF SchedulerInv, Accounted, QueuesOK
<1>19. TimingInv'
  <2>1. \A u \in Tasks : level'[u] = "PERIODIC" /\ state'[u] # "DEAD"
                           <=> level[u] = "PERIODIC" /\ state[u] # "DEAD"
    BY <1>5, <1>6, <1>7
  <2> QED  BY <1>0, <1>6, <2>1, TimingKept
<1>20. ServiceInv'
  BY <1>0, <1>6, <1>12 DEF ServiceInv, NoInternalError
<1> QED  BY <1>18, <1>19, <1>20, PartsNext

LEMMA Task_TerminateInv == IInv /\ Task_Terminate => IInv'
<1> SUFFICES ASSUME IInv, Task_Terminate PROVE IInv'
  OBVIOUS
<1> DEFINE st2 == [state EXCEPT ![cur_task] = "DEAD"]
           dq2 == Append(dead_pool_queue, cur_task)
           D   == {t \in Tasks : state[t] = "DEAD"}
<1>1. /\ periodic_tasks' = WithoutTask(cur_task) /\ dead_pool_queue' = dq2
      /\ Dispatch(st2, system_queue, periodic_queue, rr_queue)
      /\ UNCHANGED <<level, periodic_args, counter, wcet_counter, service_vars,
                     publish_vars, ticks_since_boot, error_msg>>
  BY DEF Task_Terminate
<1>2. /\ cur_task \in Tasks /\ state[cur_task] = "RUNNING" /\ ~will_be_preempted'
      /\ \A t \in Tasks : state[t] = "RUNNING" <=> cur_task = t
  BY <1>1, Now DEF Task_Terminate, InCall, InTask, publish_vars
<1>3. /\ QueuesOK(state, level, system_queue, periodic_queue, rr_queue)
      /\ Accounted(state, level, dead_pool_queue, service_queue)
      /\ level \in [Tasks -> Levels]
  BY Now DEF Handled
<1>4. /\ st2 \in [Tasks -> States]
      /\ \A t \in Tasks : st2[t] = IF t = cur_task THEN "DEAD" ELSE state[t]
  BY <1>3 DEF QueuesOK, States
<1>5. /\ \A t \in Tasks : st2[t] # "RUNNING"
      /\ {t \in Tasks : st2[t] = "DEAD"} = D \cup {cur_task}
      /\ \A l : ReadyAt(st2, level, l) = ReadyAt(state, level, l)
      /\ \A t \in Tasks : st2[t] = "WAITING" <=> state[t] = "WAITING"
  BY <1>2, <1>4 DEF ReadyAt
<1>6. dq2 \in Queue /\ Holds(dq2, D \cup {cur_task})
  BY <1>2, <1>3, AppendHolds DEF Accounted, Queue
<1> HIDE DEF st2, dq2, D
<1>7. Accounted(st2, level, dq2, service_queue)
  BY <1>2, <1>3, <1>4, <1>5, <1>6 DEF Accounted
<1>8. Handled(st2, level', system_queue, periodic_queue, rr_queue, dead_pool_queue', service_queue')
  BY <1>1, <1>3, <1>4, <1>5, <1>7 DEF Handled, QueuesOK, service_vars
<1>9. SchedulerInv' /\ \A t \in Tasks : state'[t] = "DEAD" <=> st2[t] = "DEAD"
  BY <1>1, <1>2, <1>5, <1>8, Now, PassLemma
<1>10. TimingInv
  BY Parts
<1>11. /\ periodic_tasks' \in [Slots -> Tasks \cup {NoTask}]
       /\ \A i \in Slots : periodic_tasks'[i] =
            IF level[cur_task] = "PERIODIC" /\ periodic_tasks[i] = cur_task
            THEN NoTask ELSE periodic_tasks[i]
  BY <1>1, <1>2, <1>10 DEF WithoutTask, TimingInv
<1>12. Periodics = {t \in Tasks : level[t] = "PERIODIC" /\ state[t] # "DEAD"}
  BY <1>10 DEF TimingInv, SlotsMatchTasks
<1>13. Periodics' = Periodics \ {cur_task}
  <2>1. CASE level[cur_task] = "PERIODIC"
    BY <2>1, <1>2, <1>11, IdleNotTask DEF Periodics
  <2>2. CASE level[cur_task] # "PERIODIC"
    <3>1. cur_task \notin Periodics
      BY <2>2, <1>12
    <3> QED  BY <2>2, <3>1, <1>11 DEF Periodics
  <2> QED  BY <2>1, <2>2
<1>14. Periodics' = {t \in Tasks : level'[t] = "PERIODIC" /\ state'[t] # "DEAD"}
  BY <1>1, <1>4, <1>9, <1>12, <1>13
<1>15. SlotsMatchTasks'
  BY <1>10, <1>11, <1>14 DEF TimingInv, SlotsMatchTasks
<1>16. CountersNeverWrap'
  BY <1>1, <1>10, <1>13 DEF TimingInv, CountersNeverWrap, periodic_args
<1>17. TimingInv' /\ ServiceInv'
  BY <1>1, <1>10, <1>11, <1>15, <1>16, Parts, ServiceKept
  DEF TimingInv, periodic_args, service_vars
<1> QED  BY <1>9, <1>17, PartsNext

-----------------------------------------------------------------------------
(* The timer interrupt.                                                    *)

LEMMA WordFacts ==
  ASSUME NEW n \in Word
  PROVE  /\ Inc(n) \in Word /\ Dec(n) \in Word
         /\ n > 0 => Dec(n) = n - 1
  BY KernelAssumption DEF Word, Inc, Dec

\* A tick that does not abort releases at most one task, into an empty queue.
LEMMA ReleasedLemma ==
  ASSUME IInv, ~(ReadyAfterTick >= 2)
  PROVE  /\ Released = {} \/ \E t \in Tasks : Released = {t} /\ periodic_queue = <<>>
         /\ ~(ReadyAfterTick >= 1) => Released = {}
<1>1. Released \subseteq Tasks /\ IsFiniteSet(Released)
  <2>1. Released \subseteq 1 .. MAXPROCESS
    BY DEF Released, Periodics, Tasks
  <2>2. IsFiniteSet(1 .. MAXPROCESS)
    BY KernelAssumption, FS_Interval
  <2> QED  BY <2>1, <2>2, FS_Subset DEF Tasks
<1>2. periodic_queue \in Seq(Tasks) /\ Len(periodic_queue) \in Nat
  BY DEF IInv, TypeOK
<1>3. Cardinality(Released) \in Nat
  BY <1>1, FS_CardinalityType
<1>4. Cardinality(Released) = 0 <=> Released = {}
  BY <1>1, FS_EmptySet
<1>5. Cardinality(Released) = 1 => \E x : Released = {x}
  BY <1>1, FS_Singleton
<1> DEFINE n == Len(periodic_queue)
           c == Cardinality(Released)
<1>6. n \in Nat /\ c \in Nat /\ ReadyAfterTick = n + c
  BY <1>2, <1>3 DEF ReadyAfterTick
<1> HIDE DEF n, c
<1>7. c = 0 \/ (c = 1 /\ n = 0)
  BY <1>6
<1>8. ~(ReadyAfterTick >= 1) => c = 0
  BY <1>6
<1>9. n = 0 => periodic_queue = <<>>
  BY <1>2, EmptySeq DEF n
<1> QED  BY <1>1, <1>4, <1>5, <1>7, <1>8, <1>9 DEF c

LEMMA TIMER_EXPIREDInv == IInv /\ TIMER_EXPIRED => IInv'
<1> SUFFICES ASSUME IInv, TIMER_EXPIRED PROVE IInv'
  OBVIOUS
<1>1. CASE \/ Overrun \/ ReadyAfterTick >= 2
           \/ CurLevel = "PERIODIC" /\ ReadyAfterTick >= 1
  <2>1. \/ Abort("PERIODIC_TOOK_TOO_LONG") \/ Abort("TWO_PERIODIC_TASKS_READY")
        \/ Abort("PERIODIC_TASK_TIME_CONFLICT")
    BY <1>1 DEF TIMER_EXPIRED
  <2> QED  BY <2>1, AbortLemma DEF Errors
<1>2. CASE /\ ~Overrun /\ ~(ReadyAfterTick >= 2)
           /\ ~(CurLevel = "PERIODIC" /\ ReadyAfterTick >= 1)
  <2> DEFINE st2 == [t \in Tasks |->
                       IF t \in Released \/ (t = cur_task /\ level[t] = "RR")
                       THEN "READY" ELSE state[t]]
             pq2 == IF Released = {} THEN periodic_queue
                    ELSE Append(periodic_queue, CHOOSE t \in Released : TRUE)
             rq2 == QuantumQueue
  <2>1. /\ ticks_since_boot' = Inc(ticks_since_boot)
        /\ counter' = [t \in Tasks |-> CounterAfterTick(t)]
        /\ wcet_counter' = [t \in Tasks |-> WcetAfterTick(t)]
        /\ Dispatch(st2, system_queue, pq2, rq2)
        /\ UNCHANGED <<level, dead_pool_queue, periodic_tasks, periodic_args,
                       service_vars, publish_vars, error_msg>>
    BY <1>2 DEF TIMER_EXPIRED
  <2>2. /\ cur_task \in Tasks \cup {Idle}
        /\ \A t \in Tasks : state[t] = "RUNNING" <=> cur_task = t
        /\ cur_task \in Tasks => CurLevel = level[cur_task]
        /\ cur_task = Idle => CurLevel = "IDLE"
        /\ publishing = NoService /\ ~will_be_preempted /\ ~will_be_preempted'
    BY <2>1, Now DEF TIMER_EXPIRED, InTask, publish_vars, CurLevel
  <2>3. /\ QueuesOK(state, level, system_queue, periodic_queue, rr_queue)
        /\ Accounted(state, level, dead_pool_queue, service_queue)
        /\ level \in [Tasks -> Levels]
    BY Now DEF Handled
  <2>4. TimingInv /\ ServiceInv
    BY Parts
  <2>5. \A t \in Released : /\ t \in Tasks /\ t \in Periodics /\ level[t] = "PERIODIC"
                            /\ state[t] # "DEAD" /\ state[t] # "RUNNING"
    <3> SUFFICES ASSUME NEW t \in Released
                 PROVE  /\ t \in Tasks /\ t \in Periodics /\ level[t] = "PERIODIC"
                        /\ state[t] # "DEAD" /\ state[t] # "RUNNING"
      OBVIOUS
    <3>1. t \in Tasks /\ t \in Periodics /\ level[t] = "PERIODIC" /\ state[t] # "DEAD"
      BY <2>4 DEF Released, TimingInv, SlotsMatchTasks
    <3>2. CurLevel # "PERIODIC"
      BY <1>2, ReleasedLemma
    <3> QED  BY <2>2, <3>1, <3>2
  <2>6. /\ st2 \in [Tasks -> States]
        /\ \A t \in Tasks : st2[t] = IF t \in Released \/ (t = cur_task /\ level[t] = "RR")
                                     THEN "READY" ELSE state[t]
    BY <2>3 DEF QueuesOK, States
  <2>7. \A t \in Tasks : /\ st2[t] = "DEAD" <=> state[t] = "DEAD"
                         /\ st2[t] = "WAITING" /\ level[t] # "PERIODIC"
                              <=> state[t] = "WAITING" /\ level[t] # "PERIODIC"
                         /\ st2[t] = "RUNNING" => t = cur_task /\ level[t] # "RR"
    BY <2>2, <2>5, <2>6
  <2>8. /\ ReadyAt(st2, level, "SYSTEM") = ReadyAt(state, level, "SYSTEM")
        /\ ReadyAt(st2, level, "PERIODIC") = ReadyAt(state, level, "PERIODIC") \cup Released
        /\ ReadyAt(st2, level, "RR") = ReadyAt(state, level, "RR") \cup
             (IF CurLevel = "RR" THEN {cur_task} ELSE {})
    <3>1. ReadyAt(st2, level, "SYSTEM") = ReadyAt(state, level, "SYSTEM")
      BY <2>5, <2>6 DEF ReadyAt
    <3>2. ReadyAt(st2, level, "PERIODIC") = ReadyAt(state, level, "PERIODIC") \cup Released
      BY <2>5, <2>6 DEF ReadyAt
    <3>3. CASE CurLevel = "RR"
      <4>1. cur_task \in Tasks /\ level[cur_task] = "RR"
        BY <2>2, <3>3
      <4> QED  BY <2>5, <2>6, <3>1, <3>2, <3>3, <4>1 DEF ReadyAt
    <3>4. CASE CurLevel # "RR"
      <4>1. cur_task \in Tasks => level[cur_task] # "RR"
        BY <2>2, <3>4
      <4> QED  BY <2>5, <2>6, <3>1, <3>2, <3>4, <4>1 DEF ReadyAt
    <3> QED  BY <3>3, <3>4
  <2> HIDE DEF st2
  <2>9. rq2 \in Queue /\ Holds(rq2, ReadyAt(st2, level, "RR"))
    <3>1. CASE CurLevel = "RR"
      <4>1. cur_task \in Tasks /\ cur_task \notin ReadyAt(state, level, "RR")
        BY <2>2, <3>1 DEF ReadyAt
      <4>2. /\ Append(rr_queue, cur_task) \in Queue
            /\ Holds(Append(rr_queue, cur_task), ReadyAt(state, level, "RR") \cup {cur_task})
        BY <2>3, <4>1, AppendHolds DEF QueuesOK, Queue
      <4> QED  BY <2>8, <3>1, <4>2 DEF QuantumQueue
    <3>2. CASE CurLevel # "RR"
      BY <2>3, <2>8, <3>2 DEF QuantumQueue, QueuesOK
    <3> QED  BY <3>1, <3>2
  <2>10. pq2 \in Queue /\ Len(pq2) <= 1 /\ Range(pq2) \subseteq ReadyAt(st2, level, "PERIODIC")
    <3>1. CASE Released = {}
      BY <2>3, <2>8, <3>1 DEF QueuesOK
    <3>2. CASE Released # {}
      <4>1. PICK r \in Tasks : Released = {r} /\ periodic_queue = <<>>
        BY <1>2, <3>2, ReleasedLemma
      <4>2. pq2 = Append(<<>>, r)
        BY <3>2, <4>1
      <4>3. Append(<<>>, r) \in Queue /\ Range(Append(<<>>, r)) = {r} /\ Len(Append(<<>>, r)) = 1
        BY Singleton
      <4> QED  BY <2>8, <4>1, <4>2, <4>3
    <3> QED  BY <3>1, <3>2
  <2>11. CurLevel # "SYSTEM" /\ cur_task \in Tasks /\ st2[cur_task] = "RUNNING"
           => system_queue = <<>> /\ pq2 = <<>>
    <3> SUFFICES ASSUME CurLevel # "SYSTEM", cur_task \in Tasks, st2[cur_task] = "RUNNING"
                 PROVE  system_queue = <<>> /\ pq2 = <<>>
      OBVIOUS
    <3>1. CurLevel = "PERIODIC"
      BY <2>2, <2>3, <2>7, Now DEF Levels
    <3>2. Released = {}
      BY <1>2, <3>1, ReleasedLemma
    <3> QED  BY <2>2, <3>2, Now
  <2> HIDE DEF rq2, pq2
  <2>12. {t \in Tasks : st2[t] = "DEAD"} = {t \in Tasks : state[t] = "DEAD"}
    BY <2>7
  <2>13. Accounted(st2, level, dead_pool_queue, service_queue)
    BY <2>3, <2>7, <2>12 DEF Accounted
  <2>14. Handled(st2, level', system_queue, pq2, rq2, dead_pool_queue', service_queue')
    BY <2>1, <2>3, <2>6, <2>7, <2>8, <2>9, <2>10, <2>13 DEF Handled, QueuesOK, service_vars
  <2>15. cur_task \in Tasks /\ st2[cur_task] = "RUNNING"
           => Top(cur_task, level', system_queue, pq2, rq2)
    BY <2>1, <2>2, <2>11, IdleNotTask DEF Top
  <2>16. SchedulerInv' /\ \A t \in Tasks : state'[t] = "DEAD" <=> st2[t] = "DEAD"
    BY <2>1, <2>2, <2>14, <2>15, Now, PassLemma
  <2>17. Periodics' = Periodics
    BY <2>1 DEF Periodics
  <2>18. SlotsMatchTasks'
    BY <2>1, <2>4, <2>7, <2>16, <2>17 DEF TimingInv, SlotsMatchTasks
  <2>19. \A t \in Tasks : counter'[t] \in Word /\ wcet_counter'[t] \in Word
    <3> SUFFICES ASSUME NEW t \in Tasks PROVE counter'[t] \in Word /\ wcet_counter'[t] \in Word
      OBVIOUS
    <3>1. /\ counter[t] \in Word /\ wcet_counter[t] \in Word
          /\ period[t] \in Word /\ wcet[t] \in Word
      BY <2>4 DEF TimingInv
    <3>2. Dec(counter[t]) \in Word /\ Dec(wcet_counter[t]) \in Word
      BY <3>1, WordFacts
    <3> QED  BY <2>1, <3>1, <3>2 DEF CounterAfterTick, WcetAfterTick
  <2>20. CountersNeverWrap'
    <3> SUFFICES ASSUME NEW t \in Periodics
                 PROVE  /\ counter'[t] > 0
                        /\ 0 < wcet_counter'[t] /\ wcet_counter'[t] <= wcet[t]
                        /\ wcet[t] <= period[t]
      BY <2>1, <2>17 DEF CountersNeverWrap, periodic_args
    <3>1. /\ t \in Tasks
          /\ counter[t] > 0 /\ 0 < wcet_counter[t] /\ wcet_counter[t] <= wcet[t]
          /\ wcet[t] <= period[t]
      BY <2>4 DEF TimingInv, CountersNeverWrap, Periodics
    <3>2. counter[t] \in Word /\ wcet_counter[t] \in Word /\ period[t] \in Word /\ wcet[t] \in Word
      BY <2>4, <3>1 DEF TimingInv
    <3>3. Word \subseteq Nat
      BY KernelAssumption DEF Word
    <3>7. counter[t] \in Nat /\ wcet_counter[t] \in Nat /\ period[t] \in Nat /\ wcet[t] \in Nat
      BY <3>2, <3>3
    <3>4. Dec(counter[t]) = counter[t] - 1 /\ Dec(wcet_counter[t]) = wcet_counter[t] - 1
      BY <3>1, <3>2, WordFacts
    <3>5. counter'[t] > 0
      <4>1. CASE t \in Released
        <5>1. counter'[t] = period[t]
          BY <2>1, <3>1, <4>1 DEF CounterAfterTick
        <5> QED  BY <3>1, <3>7, <5>1
      <4>2. CASE t \notin Released
        <5>1. ~(Dec(counter[t]) <= 0) /\ counter'[t] = Dec(counter[t])
          BY <2>1, <3>1, <4>2 DEF CounterAfterTick, Released
        <5> QED  BY <3>1, <3>7, <3>4, <5>1
      <4> QED  BY <4>1, <4>2
    <3>6. 0 < wcet_counter'[t] /\ wcet_counter'[t] <= wcet[t]
      <4>1. CASE t \in Released
        <5>1. wcet_counter'[t] = wcet[t]
          BY <2>1, <3>1, <4>1 DEF WcetAfterTick
        <5> QED  BY <3>1, <3>7, <5>1
      <4>2. CASE t \notin Released /\ t = cur_task /\ level[t] = "PERIODIC"
        <5>1. ~(Dec(wcet_counter[t]) <= 0)
          BY <1>2, <2>2, <3>1, <4>2 DEF Overrun
        <5>2. wcet_counter'[t] = Dec(wcet_counter[t])
          BY <2>1, <3>1, <4>2 DEF WcetAfterTick
        <5> QED  BY <3>1, <3>7, <3>4, <5>1, <5>2
      <4>3. CASE t \notin Released /\ ~(t = cur_task /\ level[t] = "PERIODIC")
        <5>1. wcet_counter'[t] = wcet_counter[t]
          BY <2>1, <3>1, <4>3 DEF WcetAfterTick
        <5> QED  BY <3>1, <5>1
      <4> QED  BY <4>1, <4>2, <4>3
    <3> QED  BY <3>1, <3>5, <3>6
  <2>21. ticks_since_boot' \in Word
    BY <2>1, <2>4, WordFacts DEF TimingInv
  <2>22. TimingInv'
    <3>1. counter' \in [Tasks -> Word] /\ wcet_counter' \in [Tasks -> Word]
      BY <2>1, <2>19
    <3> QED  BY <2>1, <2>4, <2>18, <2>20, <2>21, <3>1 DEF TimingInv, periodic_args
  <2>23. ServiceInv'
    BY <2>1, <2>4, ServiceKept DEF service_vars
  <2> QED  BY <2>16, <2>22, <2>23, PartsNext
<1> QED  BY <1>1, <1>2

-----------------------------------------------------------------------------
(* Periodic tasks.                                                         *)

\* While a descriptor is free, so is a slot of periodic_tasks: the slots are as
\* many as the descriptors and hold distinct live tasks.
LEMMA FreeSlot ==
  ASSUME IInv, dead_pool_queue # <<>>
  PROVE  \E k \in Slots : periodic_tasks[k] = NoTask
<1> SUFFICES ASSUME \A k \in Slots : periodic_tasks[k] # NoTask PROVE FALSE
  OBVIOUS
<1> DEFINE p == Head(dead_pool_queue)
           T == Tasks \ {p}
<1>1. TimingInv
  BY Parts
<1>2. p \in Tasks /\ state[p] = "DEAD"
  BY ClaimLemma
<1>3. p \notin Periodics
  BY <1>1, <1>2 DEF TimingInv, SlotsMatchTasks
<1>4. periodic_tasks \in [Slots -> T]
  <2>1. \A k \in Slots : periodic_tasks[k] \in Tasks
    BY <1>1 DEF TimingInv
  <2>2. \A k \in Slots : periodic_tasks[k] # p
    BY <1>2, <1>3 DEF Periodics
  <2> QED  BY <1>1, <2>1, <2>2 DEF TimingInv
<1>5. MAXPROCESS \in Nat \ {0}
  BY KernelAssumption
<1>6. IsFiniteSet(Tasks) /\ Cardinality(Tasks) = MAXPROCESS
  BY <1>5, FS_Interval DEF Tasks
<1>7. IsFiniteSet(T) /\ Cardinality(T) = MAXPROCESS - 1
  BY <1>2, <1>6, FS_RemoveElement
<1>8. IsFiniteSet(Slots) /\ Cardinality(Slots) = MAXPROCESS
  BY <1>6 DEF Slots, Tasks
<1> HIDE DEF T
<1>9. Cardinality(T) < Cardinality(Slots)
  BY <1>5, <1>7, <1>8
<1>10. \E x, y \in Slots : x # y /\ periodic_tasks[x] = periodic_tasks[y]
  BY <1>4, <1>7, <1>8, <1>9, FS_PigeonHole
<1> QED  BY <1>1, <1>10 DEF TimingInv, SlotsMatchTasks

\* The timing data of a new periodic task.
LEMMA SetTimingLemma ==
  ASSUME TimingInv, NEW p \in Tasks, p \notin Periodics,
         NEW per \in PeriodArgs, NEW wc \in WcetArgs, NEW st \in Word,
         ~InvalidTiming(per, wc), ~(st < ticks_since_boot),
         SetTiming(p, per, wc, st)
  PROVE  /\ Periodics' = Periodics \cup {p}
         /\ periodic_tasks' \in [Slots -> Tasks \cup {NoTask}]
         /\ \A i, j \in Slots : periodic_tasks'[i] = periodic_tasks'[j] =>
                                  i = j \/ periodic_tasks'[i] = NoTask
         /\ period' \in [Tasks -> Word] /\ wcet' \in [Tasks -> Word]
         /\ counter' \in [Tasks -> Word] /\ wcet_counter' \in [Tasks -> Word]
         /\ CountersNeverWrap'
<1>1. PICK k \in Slots : FirstFree(k) /\ periodic_tasks' = [periodic_tasks EXCEPT ![k] = p]
  BY DEF SetTiming
<1>2. /\ periodic_tasks' \in [Slots -> Tasks \cup {NoTask}]
      /\ \A i \in Slots : periodic_tasks'[i] = IF i = k THEN p ELSE periodic_tasks[i]
      /\ periodic_tasks[k] = NoTask
  BY <1>1 DEF TimingInv, FirstFree
<1>3. Periodics' = Periodics \cup {p}
  BY <1>2, IdleNotTask DEF Periodics
<1>4. \A i, j \in Slots : periodic_tasks'[i] = periodic_tasks'[j] =>
                            i = j \/ periodic_tasks'[i] = NoTask
  BY <1>2 DEF TimingInv, SlotsMatchTasks, Periodics
<1>5. /\ per \in Nat /\ wc \in Nat /\ st \in Nat /\ ticks_since_boot \in Nat
      /\ per \in Word /\ wc \in Word /\ ticks_since_boot \in Word
  BY KernelAssumption DEF TimingInv, Word
<1>6. 0 < wc /\ 0 < per /\ wc <= per
  BY <1>5 DEF InvalidTiming
<1> DEFINE c == IF st = ticks_since_boot THEN per ELSE st - ticks_since_boot
<1>7. c \in Word /\ c > 0
  <2>1. CASE st = ticks_since_boot
    BY <2>1, <1>5, <1>6
  <2>2. CASE st # ticks_since_boot
    BY <2>2, <1>5, KernelAssumption DEF Word
  <2> QED  BY <2>1, <2>2
<1> HIDE DEF c
<1>8. /\ period' = [period EXCEPT ![p] = per] /\ wcet' = [wcet EXCEPT ![p] = wc]
      /\ counter' = [counter EXCEPT ![p] = c] /\ wcet_counter' = [wcet_counter EXCEPT ![p] = wc]
  BY DEF SetTiming, c
<1>9. /\ period' \in [Tasks -> Word] /\ wcet' \in [Tasks -> Word]
      /\ counter' \in [Tasks -> Word] /\ wcet_counter' \in [Tasks -> Word]
  BY <1>5, <1>7, <1>8 DEF TimingInv
<1>10. CountersNeverWrap'
  <2> SUFFICES ASSUME NEW t \in Periodics \cup {p}
               PROVE  /\ counter'[t] > 0
                      /\ 0 < wcet_counter'[t] /\ wcet_counter'[t] <= wcet'[t]
                      /\ wcet'[t] <= period'[t]
    BY <1>3 DEF CountersNeverWrap
  <2>1. CASE t = p
    <3>1. counter'[t] = c /\ wcet_counter'[t] = wc /\ wcet'[t] = wc /\ period'[t] = per
      BY <2>1, <1>8 DEF TimingInv
    <3> QED  BY <3>1, <1>5, <1>6, <1>7
  <2>2. CASE t # p
    <3>1. /\ counter'[t] = counter[t] /\ wcet_counter'[t] = wcet_counter[t]
          /\ wcet'[t] = wcet[t] /\ period'[t] = period[t] /\ t \in Periodics
      BY <2>2, <1>8 DEF TimingInv, Periodics
    <3> QED  BY <3>1 DEF TimingInv, CountersNeverWrap
  <2> QED  BY <2>1, <2>2
<1> QED  BY <1>2, <1>3, <1>4, <1>9, <1>10

LEMMA Task_Create_PeriodicInv ==
  ASSUME IInv, NEW per \in PeriodArgs, NEW wc \in WcetArgs, NEW st \in Word,
         Task_Create_Periodic(per, wc, st)
  PROVE  IInv'
<1> DEFINE p   == Head(dead_pool_queue)
           now == st = ticks_since_boot
           pq2 == IF now THEN Append(periodic_queue, p) ELSE periodic_queue
           x   == IF now THEN "READY" ELSE "WAITING"
           st2 == [state EXCEPT ![p] = x]
           lv2 == [level EXCEPT ![p] = "PERIODIC"]
           tooMany == CurLevel \in {"SYSTEM", "PERIODIC"} /\ Len(pq2) >= 2
<1>1. CASE dead_pool_queue = <<>>
  BY <1>1, AbortLemma DEF Task_Create_Periodic, Errors
<1>2. CASE dead_pool_queue # <<>> /\ InvalidTiming(per, wc)
  BY <1>2, AbortLemma DEF Task_Create_Periodic, Errors
<1>3. CASE dead_pool_queue # <<>> /\ ~InvalidTiming(per, wc) /\ st < ticks_since_boot
  BY <1>3, AbortLemma DEF Task_Create_Periodic, Errors
<1>4. CASE /\ dead_pool_queue # <<>> /\ ~InvalidTiming(per, wc) /\ ~(st < ticks_since_boot)
           /\ (CurLevel = "PERIODIC" /\ now) \/ tooMany
  <2>1. ~ \A k \in Slots : periodic_tasks[k] # NoTask
    BY <1>4, FreeSlot
  <2>2. Abort("PERIODIC_TASK_TIME_CONFLICT") \/ Abort("TWO_PERIODIC_TASKS_READY")
    BY <1>4, <2>1 DEF Task_Create_Periodic
  <2> QED  BY <2>2, AbortLemma DEF Errors
<1>5. CASE /\ dead_pool_queue # <<>> /\ ~InvalidTiming(per, wc) /\ ~(st < ticks_since_boot)
           /\ ~(CurLevel = "PERIODIC" /\ now) /\ ~tooMany
  <2>0. ~ \A k \in Slots : periodic_tasks[k] # NoTask
    BY <1>5, FreeSlot
  <2>1. /\ Claim(p, "PERIODIC") /\ SetTiming(p, per, wc, st)
        /\ IF CurLevel = "RR" /\ now
           THEN Preempt(st2, system_queue, pq2, rr_queue)
           ELSE Dispatch(st2, system_queue, pq2, rr_queue)
        /\ UNCHANGED <<service_vars, publish_vars, ticks_since_boot, error_msg>>
    BY <1>5, <2>0 DEF Task_Create_Periodic
  <2>2. dead_pool_queue' = Tail(dead_pool_queue) /\ level' = lv2 /\ service_queue' = service_queue
    BY <2>1 DEF Claim, service_vars
  <2>3. /\ p \in Tasks /\ p # cur_task /\ state[p] = "DEAD"
        /\ st2 \in [Tasks -> States] /\ lv2 \in [Tasks -> Levels]
        /\ Accounted(st2, lv2, Tail(dead_pool_queue), service_queue)
        /\ \A t \in Tasks : st2[t] = "RUNNING" <=> t = cur_task
        /\ ReadyAt(st2, lv2, "SYSTEM") = ReadyAt(state, level, "SYSTEM")
        /\ ReadyAt(st2, lv2, "RR") = ReadyAt(state, level, "RR")
        /\ x = "WAITING" => ReadyAt(st2, lv2, "PERIODIC") = ReadyAt(state, level, "PERIODIC")
        /\ x = "READY" => ReadyAt(st2, lv2, "PERIODIC") = ReadyAt(state, level, "PERIODIC") \cup {p}
    BY <1>5, ClaimLemma
  <2>4. /\ QueuesOK(state, level, system_queue, periodic_queue, rr_queue)
        /\ level \in [Tasks -> Levels] /\ state \in [Tasks -> States]
    BY Now DEF Handled, QueuesOK
  <2>5. \A t \in Tasks : t # p => lv2[t] = level[t] /\ st2[t] = state[t]
    BY <2>3, <2>4
  <2>6. lv2[p] = "PERIODIC" /\ st2[p] # "DEAD"
    BY <2>3, <2>4
  <2> HIDE DEF p, st2, lv2
  <2>7. /\ cur_task \in Tasks /\ CurLevel = level[cur_task] /\ level'[cur_task] = level[cur_task]
        /\ CurLevel \in {"SYSTEM", "PERIODIC", "RR"} /\ st2[cur_task] = "RUNNING"
        /\ publishing = NoService /\ ~will_be_preempted /\ ~will_be_preempted'
    BY <2>1, <2>2, <2>3, <2>4, <2>5, Now
    DEF Task_Create_Periodic, InCall, InTask, Levels, publish_vars
  <2>8. CurLevel # "SYSTEM" => system_queue = <<>> /\ periodic_queue = <<>>
    BY <2>7, Now
  <2>9. pq2 \in Queue /\ Len(pq2) <= 1 /\ Range(pq2) \subseteq ReadyAt(st2, lv2, "PERIODIC")
    <3>1. CASE ~now
      <4>1. pq2 = periodic_queue /\ x = "WAITING"
        BY <3>1
      <4>2. /\ periodic_queue \in Queue /\ Len(periodic_queue) <= 1
            /\ Range(periodic_queue) \subseteq ReadyAt(state, level, "PERIODIC")
        BY <2>4 DEF QueuesOK
      <4>3. ReadyAt(st2, lv2, "PERIODIC") = ReadyAt(state, level, "PERIODIC")
        BY <2>3, <4>1
      <4> HIDE DEF pq2, x
      <4> QED  BY <4>1, <4>2, <4>3
    <3>2. CASE now
      <4>1. pq2 = Append(periodic_queue, p) /\ x = "READY"
        BY <3>2
      <4>2. periodic_queue = <<>>
        <5>1. CASE CurLevel = "SYSTEM"
          <6>1. Len(periodic_queue) \in Nat /\ Len(pq2) = Len(periodic_queue) + 1
            BY <2>4, <4>1 DEF QueuesOK, Queue
          <6>2. Len(periodic_queue) = 0
            BY <1>5, <5>1, <6>1
          <6> QED  BY <2>4, <6>2, EmptySeq DEF QueuesOK, Queue
        <5>2. CASE CurLevel # "SYSTEM"
          BY <5>2, <2>8
        <5> QED  BY <5>1, <5>2
      <4>3. pq2 = Append(<<>>, p)
        BY <4>1, <4>2
      <4>4. pq2 \in Queue /\ Range(pq2) = {p} /\ Len(pq2) = 1
        BY <2>3, <4>3, Singleton
      <4>5. p \in ReadyAt(st2, lv2, "PERIODIC")
        BY <2>3, <4>1
      <4> HIDE DEF pq2
      <4> QED  BY <4>4, <4>5, NatOne
    <3> QED  BY <3>1, <3>2
  <2>10. now => CurLevel # "PERIODIC"
    BY <1>5
  <2>11. ~now => pq2 = periodic_queue
    OBVIOUS
  <2> HIDE DEF pq2, x, now
  <2>12. Handled(st2, level', system_queue, pq2, rr_queue, dead_pool_queue', service_queue')
    BY <2>2, <2>3, <2>4, <2>9 DEF Handled, QueuesOK
  <2>13. SchedulerInv' /\ \A t \in Tasks : state'[t] = "DEAD" <=> st2[t] = "DEAD"
    <3>1. CASE CurLevel = "RR" /\ now
      BY <3>1, <2>1, <2>7, <2>12, Now, PreemptLemma
    <3>2. CASE ~(CurLevel = "RR" /\ now)
      <4>1. CurLevel # "SYSTEM" => ~now
        BY <3>2, <2>7, <2>10
      <4>2. Top(cur_task, level', system_queue, pq2, rr_queue)
        BY <2>7, <2>8, <2>11, <4>1, IdleNotTask DEF Top
      <4> QED  BY <3>2, <2>1, <2>7, <2>12, <4>2, Now, PassLemma
    <3> QED  BY <3>1, <3>2
  <2>14. TimingInv /\ ServiceInv
    BY Parts
  <2>15. Periodics = {t \in Tasks : level[t] = "PERIODIC" /\ state[t] # "DEAD"}
    BY <2>14 DEF TimingInv, SlotsMatchTasks
  <2>16. p \notin Periodics
    BY <2>3, <2>15
  <2>17. /\ Periodics' = Periodics \cup {p}
         /\ periodic_tasks' \in [Slots -> Tasks \cup {NoTask}]
         /\ \A i, j \in Slots : periodic_tasks'[i] = periodic_tasks'[j] =>
                                  i = j \/ periodic_tasks'[i] = NoTask
         /\ period' \in [Tasks -> Word] /\ wcet' \in [Tasks -> Word]
         /\ counter' \in [Tasks -> Word] /\ wcet_counter' \in [Tasks -> Word]
         /\ CountersNeverWrap'
    BY <1>5, <2>1, <2>3, <2>14, <2>16, SetTimingLemma
  <2>18. Periodics' = {t \in Tasks : level'[t] = "PERIODIC" /\ state'[t] # "DEAD"}
    BY <2>2, <2>3, <2>5, <2>6, <2>13, <2>15, <2>17
  <2>19. SlotsMatchTasks'
    BY <2>17, <2>18 DEF SlotsMatchTasks
  <2>20. TimingInv'
    BY <2>1, <2>14, <2>17, <2>19 DEF TimingInv
  <2>21. ServiceInv'
    BY <2>1, <2>14, ServiceKept DEF service_vars
  <2> QED  BY <2>13, <2>20, <2>21, PartsNext
<1> QED  BY <1>1, <1>2, <1>3, <1>4, <1>5

-----------------------------------------------------------------------------
(* The theorems.                                                           *)

LEMMA NextInv == IInv /\ [Next]_vars => IInv'
<1> SUFFICES ASSUME IInv, [Next]_vars PROVE IInv'
  OBVIOUS
<1>1. CASE UNCHANGED vars
  BY <1>1 DEF IInv, TypeOK, DescriptorsAccounted, SlotsMatchTasks, Scheduled,
     OnePeriodicActive, CountersNeverWrap, NoInternalError, ReadyAt, Periodics,
     CurLevel, vars, ready_queues, periodic_vars, periodic_args, service_vars,
     publish_vars
<1>2. CASE TIMER_EXPIRED
  BY <1>2, TIMER_EXPIREDInv
<1>3. CASE Task_Create_System
  BY <1>3, Task_Create_SystemInv
<1>4. CASE Task_Create_RR
  BY <1>4, Task_Create_RRInv
<1>5. ASSUME NEW per \in PeriodArgs, NEW wc \in WcetArgs, NEW st \in Word,
             Task_Create_Periodic(per, wc, st)
      PROVE  IInv'
  BY <1>5, Task_Create_PeriodicInv
<1>6. CASE Task_Next
  BY <1>6, Task_NextInv
<1>7. CASE Task_Terminate
  BY <1>7, Task_TerminateInv
<1>8. CASE OS_Abort
  BY <1>8, OS_AbortInv
<1>9. CASE Service_Init
  BY <1>9, Service_InitInv
<1>10. ASSUME NEW h \in Handles, Service_Subscribe(h) PROVE IInv'
  BY <1>10, Service_SubscribeInv
<1>11. ASSUME NEW h \in Handles, NEW v \in Values, Service_Publish(h, v) PROVE IInv'
  BY <1>11, Service_PublishInv
<1>12. CASE WakeSubscriber
  BY <1>12, WakeSubscriberInv
<1>13. CASE EndPublish
  BY <1>13, EndPublishInv
<1>14. CASE Aborted
  BY <1>1, <1>14 DEF Aborted
<1> QED
  BY <1>1, <1>2, <1>3, <1>4, <1>5, <1>6, <1>7, <1>8, <1>9, <1>10, <1>11, <1>12,
     <1>13, <1>14 DEF Next, OtherStep

\* The inductive invariant holds in every reachable state, for any number of
\* descriptors, services and ticks.
THEOREM Invariance == Spec => []IInv
<1>1. Init => IInv
  BY InitInv
<1>2. IInv /\ [Next]_vars => IInv'
  BY NextInv
<1> QED  BY <1>1, <1>2, PTL DEF Spec

\* Every variable keeps its type.
THEOREM TypeCorrect == Spec => []TypeOK
<1>1. IInv => TypeOK
  BY DEF IInv
<1> QED  BY <1>1, Invariance, PTL

\* No descriptor is ever lost, queued twice, or freed while it is queued.
THEOREM NoDescriptorLost == Spec => []DescriptorsAccounted
<1>1. IInv => DescriptorsAccounted
  BY DEF IInv
<1> QED  BY <1>1, Invariance, PTL

\* The slots of periodic_tasks are exactly the live periodic tasks.
THEOREM NoSlotLost == Spec => []SlotsMatchTasks
<1>1. IInv => SlotsMatchTasks
  BY DEF IInv
<1> QED  BY <1>1, Invariance, PTL

\* No task runs while one of a higher level is ready.
THEOREM NoInversion == Spec => []NoPriorityInversion
<1>1. IInv => NoPriorityInversion
  BY DEF IInv, Scheduled, NoPriorityInversion
<1> QED  BY <1>1, Invariance, PTL

\* At most one periodic task is active.
THEOREM OneActive == Spec => []OnePeriodicActive
<1>1. IInv => OnePeriodicActive
  BY DEF IInv
<1> QED  BY <1>1, Invariance, PTL

\* The release and execution counters never reach zero between passes.
THEOREM NoWrap == Spec => []CountersNeverWrap
<1>1. IInv => CountersNeverWrap
  BY DEF IInv
<1> QED  BY <1>1, Invariance, PTL

\* The aborts that would report a kernel bug are unreachable.
THEOREM KernelNeverAtFault == Spec => []NoInternalError
<1>1. IInv => NoInternalError
  BY DEF IInv
<1> QED  BY <1>1, Invariance, PTL

-----------------------------------------------------------------------------
(* The ends of a queue.                                                    *)

LEMMA QueueEnds ==
  ASSUME NEW q \in Queue
  PROVE  /\ Range(q) \subseteq Tasks /\ DOMAIN q = 1 .. Len(q) /\ Len(q) \in Nat
         /\ q # <<>> => /\ Head(q) \in Range(q) /\ Head(q) = q[1]
                        /\ Tail(q) \in Queue /\ Range(Tail(q)) \subseteq Range(q)
                        /\ Len(q) >= 1
                        /\ \A i \in 1 .. Len(q) - 1 : Tail(q)[i] = q[i + 1]
                        /\ Len(Tail(q)) = Len(q) - 1
         /\ \A x \in Tasks :
              /\ Append(q, x) \in Queue /\ Range(Append(q, x)) = Range(q) \cup {x}
              /\ Append(q, x) # <<>> /\ Len(Append(q, x)) = Len(q) + 1
              /\ Cons(x, q) \in Queue /\ Range(Cons(x, q)) = Range(q) \cup {x}
              /\ Cons(x, q) # <<>> /\ Head(Cons(x, q)) = x /\ Tail(Cons(x, q)) = q
              /\ Len(Cons(x, q)) = Len(q) + 1
              /\ \A i \in 1 .. Len(q) : Cons(x, q)[i + 1] = q[i]
<1>0. q \in Seq(Tasks)
  BY DEF Queue
<1>1. Queue = Seq(Tasks)
  BY DEF Queue
<1>2. Range(q) \subseteq Tasks /\ DOMAIN q = 1 .. Len(q) /\ Len(q) \in Nat
  BY <1>0, <1>1, SeqEnds
<1>3. q # <<>> => /\ Head(q) \in Range(q) /\ Head(q) = q[1]
                  /\ Tail(q) \in Queue /\ Range(Tail(q)) \subseteq Range(q)
                  /\ Len(q) >= 1
                  /\ \A i \in 1 .. Len(q) - 1 : Tail(q)[i] = q[i + 1]
                  /\ Len(Tail(q)) = Len(q) - 1
  BY <1>0, <1>1, SeqEnds
<1>4. ASSUME NEW x \in Tasks
      PROVE  /\ Append(q, x) \in Queue /\ Range(Append(q, x)) = Range(q) \cup {x}
             /\ Append(q, x) # <<>> /\ Len(Append(q, x)) = Len(q) + 1
             /\ Cons(x, q) \in Queue /\ Range(Cons(x, q)) = Range(q) \cup {x}
             /\ Cons(x, q) # <<>> /\ Head(Cons(x, q)) = x /\ Tail(Cons(x, q)) = q
             /\ Len(Cons(x, q)) = Len(q) + 1
             /\ \A i \in 1 .. Len(q) : Cons(x, q)[i + 1] = q[i]
  <2>1. /\ Append(q, x) \in Seq(Tasks) /\ Range(Append(q, x)) = Range(q) \cup {x}
        /\ Len(Append(q, x)) = Len(q) + 1
    BY <1>0, SeqAdd
  <2>2. Append(q, x) # <<>> /\ Cons(x, q) # <<>>
    BY <1>0, SeqAdd
  <2>3. Cons(x, q) \in Seq(Tasks) /\ Range(Cons(x, q)) = Range(q) \cup {x}
    BY <1>0, SeqAdd
  <2>4. Head(Cons(x, q)) = x /\ Tail(Cons(x, q)) = q
    BY <1>0, SeqAdd
  <2>5. Len(Cons(x, q)) = Len(q) + 1
    BY <1>0, SeqAdd
  <2>6. \A i \in 1 .. Len(q) : Cons(x, q)[i + 1] = q[i]
    BY <1>0, SeqAdd
  <2> QED  BY <1>1, <2>1, <2>2, <2>3, <2>4, <2>5, <2>6
<1> QED  BY <1>2, <1>3, <1>4

-----------------------------------------------------------------------------
(* What Dispatch does to the processor.                                    *)

\* The task at the head of the highest ready queue gets the processor.
Picks(sq, pq, rq) ==
  \/ /\ sq # <<>> /\ cur_task' = Head(sq) /\ CurLevel' = "SYSTEM"
     /\ Ready(Tail(sq), pq, rq)
  \/ /\ sq = <<>> /\ pq # <<>> /\ cur_task' = Head(pq) /\ CurLevel' = "PERIODIC"
     /\ Ready(sq, Tail(pq), rq)
  \/ /\ sq = <<>> /\ pq = <<>> /\ rq # <<>> /\ cur_task' = Head(rq) /\ CurLevel' = "RR"
     /\ Ready(sq, pq, Tail(rq))
  \/ /\ sq = <<>> /\ pq = <<>> /\ rq = <<>> /\ cur_task' = Idle /\ CurLevel' = "IDLE"
     /\ Ready(sq, pq, rq)

\* The queues hold tasks of their level.
Sorted(lv, sq, pq, rq) ==
  /\ sq \in Queue /\ pq \in Queue /\ rq \in Queue
  /\ \A t \in Range(sq) : lv[t] = "SYSTEM"
  /\ \A t \in Range(pq) : lv[t] = "PERIODIC"
  /\ \A t \in Range(rq) : lv[t] = "RR"

\* Adding a task at the end of the queue of its level keeps the queues sorted.
LEMMA SortedAppend ==
  ASSUME NEW lv, NEW sq, NEW pq, NEW rq, Sorted(lv, sq, pq, rq), NEW x \in Tasks
  PROVE  /\ lv[x] = "SYSTEM" => Sorted(lv, Append(sq, x), pq, rq)
         /\ lv[x] = "PERIODIC" => Sorted(lv, sq, Append(pq, x), rq)
         /\ lv[x] = "RR" => Sorted(lv, sq, pq, Append(rq, x))
<1>1. /\ Append(sq, x) \in Queue /\ Range(Append(sq, x)) = Range(sq) \cup {x}
      /\ Append(pq, x) \in Queue /\ Range(Append(pq, x)) = Range(pq) \cup {x}
      /\ Append(rq, x) \in Queue /\ Range(Append(rq, x)) = Range(rq) \cup {x}
  BY QueueEnds DEF Sorted
<1> QED  BY <1>1, Zenon DEF Sorted

LEMMA PickLemma ==
  ASSUME NEW st \in [Tasks -> States], NEW sq, NEW pq, NEW rq,
         Sorted(level', sq, pq, rq), cur_task \in Tasks \cup {Idle},
         cur_task \in Tasks => st[cur_task] # "RUNNING",
         Dispatch(st, sq, pq, rq)
  PROVE  /\ Picks(sq, pq, rq)
         /\ \A t \in Tasks : t # cur_task' => state'[t] = st[t]
<1>1. sq \in Queue /\ pq \in Queue /\ rq \in Queue /\ Idle \notin Tasks
  BY IdleNotTask DEF Sorted
<1>2. CurLevel' = IF cur_task' = Idle THEN "IDLE" ELSE level'[cur_task']
  BY DEF CurLevel
<1>3. CASE sq # <<>> /\ SwitchTo(Head(sq), st) /\ Ready(Tail(sq), pq, rq)
  <2>1. Head(sq) \in Range(sq) /\ Head(sq) \in Tasks
    BY <1>1, <1>3, QueueEnds
  <2>2. cur_task' = Head(sq) /\ state' = [st EXCEPT ![Head(sq)] = "RUNNING"]
    BY <1>3 DEF SwitchTo
  <2> QED  BY <1>1, <1>2, <1>3, <2>1, <2>2 DEF Sorted, Picks
<1>4. CASE sq = <<>> /\ pq # <<>> /\ SwitchTo(Head(pq), st) /\ Ready(sq, Tail(pq), rq)
  <2>1. Head(pq) \in Range(pq) /\ Head(pq) \in Tasks
    BY <1>1, <1>4, QueueEnds
  <2>2. cur_task' = Head(pq) /\ state' = [st EXCEPT ![Head(pq)] = "RUNNING"]
    BY <1>4 DEF SwitchTo
  <2> QED  BY <1>1, <1>2, <1>4, <2>1, <2>2 DEF Sorted, Picks
<1>5. CASE sq = <<>> /\ pq = <<>> /\ rq # <<>> /\ SwitchTo(Head(rq), st)
           /\ Ready(sq, pq, Tail(rq))
  <2>1. Head(rq) \in Range(rq) /\ Head(rq) \in Tasks
    BY <1>1, <1>5, QueueEnds
  <2>2. cur_task' = Head(rq) /\ state' = [st EXCEPT ![Head(rq)] = "RUNNING"]
    BY <1>5 DEF SwitchTo
  <2> QED  BY <1>1, <1>2, <1>5, <2>1, <2>2 DEF Sorted, Picks
<1>6. CASE sq = <<>> /\ pq = <<>> /\ rq = <<>> /\ cur_task' = Idle /\ state' = st
           /\ Ready(sq, pq, rq)
  BY <1>1, <1>2, <1>6 DEF Picks
<1> QED
  BY <1>1, <1>3, <1>4, <1>5, <1>6 DEF Dispatch

\* What a request finds in the ready queues.
LEMMA QueuesNow ==
  ASSUME IInv
  PROVE  /\ Sorted(level, system_queue, periodic_queue, rr_queue)
         /\ cur_task \in Tasks \cup {Idle} /\ state \in [Tasks -> States]
         /\ level \in [Tasks -> Levels] /\ dead_pool_queue \in Queue
         /\ cur_task \in Tasks => state[cur_task] = "RUNNING" /\ CurLevel = level[cur_task]
         /\ \A q \in {system_queue, periodic_queue, rr_queue} :
              cur_task \notin Range(q) /\ \A t \in Range(q) : state[t] = "READY"
         /\ \A t \in Range(dead_pool_queue) : state[t] = "DEAD"
         /\ Len(periodic_queue) <= 1 /\ (CurLevel # "SYSTEM" => periodic_queue = <<>>)
         /\ CurLevel # "SYSTEM" /\ ~will_be_preempted => system_queue = <<>>
         /\ publishing = NoService => ~will_be_preempted
         /\ cur_task \in Tasks => CurLevel \in {"SYSTEM", "PERIODIC", "RR"}
<1>1. /\ TypeOK /\ DescriptorsAccounted /\ Scheduled /\ OnePeriodicActive
  BY DEF IInv
<1>2. Sorted(level, system_queue, periodic_queue, rr_queue)
  BY <1>1 DEF TypeOK, DescriptorsAccounted, Holds, ReadyAt, Sorted, Queue
<1>3. \A t \in Range(dead_pool_queue) : state[t] = "DEAD"
  BY <1>1 DEF DescriptorsAccounted, Holds
<1>4. \A q \in {system_queue, periodic_queue, rr_queue} :
        \A t \in Range(q) : state[t] = "READY" /\ t \in Tasks
  BY <1>1 DEF DescriptorsAccounted, Holds, ReadyAt
<1>5. cur_task \in Tasks => state[cur_task] = "RUNNING" /\ CurLevel = level[cur_task]
  BY <1>1, IdleNotTask DEF DescriptorsAccounted, CurLevel
<1>6. \A q \in {system_queue, periodic_queue, rr_queue} : cur_task \notin Range(q)
  BY <1>4, <1>5
<1>7. Len(periodic_queue) <= 1
  <2>1. Len(periodic_queue) \in Nat
    BY <1>2, QueueEnds DEF Sorted
  <2> QED  BY <2>1, <1>1 DEF OnePeriodicActive
<1>8. cur_task \in Tasks => CurLevel \in {"SYSTEM", "PERIODIC", "RR"}
  BY <1>1, <1>5 DEF DescriptorsAccounted, TypeOK, Levels
<1> QED
  BY <1>1, <1>2, <1>3, <1>4, <1>5, <1>6, <1>7, <1>8 DEF TypeOK, Scheduled, Queue

-----------------------------------------------------------------------------
(* The classes of steps.                                                   *)

\* Task x starts a release: it is a new task, or one that a tick releases.
Starts(x) ==
  /\ wcet_counter'[x] = wcet'[x]
  /\ x \notin Periodics \/ (x \in Released /\ ticks_since_boot' = Inc(ticks_since_boot))

\* The periodic queue pq after a request: a task that joins it starts a release.
Joins(pq) ==
  \/ pq = periodic_queue
  \/ \E x \in Tasks : pq = Append(periodic_queue, x) /\ Starts(x)

\* The running task keeps the processor.
Stays ==
  /\ cur_task' = cur_task /\ Joins(periodic_queue')
  /\ \/ rr_queue' = rr_queue
     \/ \E x \in Tasks \ Range(rr_queue) : rr_queue' = Append(rr_queue, x)

\* It terminates, blocks or, PERIODIC, waits for its next release.
Leaves ==
  /\ cur_task \in Tasks
  /\ CurLevel = "SYSTEM" => state'[cur_task] \in {"DEAD", "WAITING"} \/ cur_task' = cur_task
  /\ CurLevel # "SYSTEM" => system_queue = <<>> /\ periodic_queue = <<>>
  /\ Picks(system_queue, periodic_queue, rr_queue)

\* The idle task gives way to what has become ready.
Wakes ==
  /\ cur_task = Idle
  /\ \E sq, pq \in Queue : Joins(pq) /\ Picks(sq, pq, rr_queue)

\* A SYSTEM task yields.
SystemYields ==
  /\ CurLevel = "SYSTEM" /\ ticks_since_boot' = ticks_since_boot
  /\ Picks(Append(system_queue, cur_task), periodic_queue, rr_queue)

\* An RR task yields, or its quantum ends, perhaps with a release.
RRYields ==
  /\ CurLevel = "RR"
  /\ \E pq \in Queue : /\ Joins(pq) /\ (pq # <<>> => ticks_since_boot' # ticks_since_boot)
                       /\ Picks(<<>>, pq, Append(rr_queue, cur_task))

\* An RR task is preempted between two ticks.
RRPreempted ==
  /\ CurLevel = "RR" /\ ticks_since_boot' = ticks_since_boot
  /\ \E sq, pq \in Queue : /\ Joins(pq) /\ (sq # <<>> \/ pq # <<>>)
                           /\ Picks(sq, pq, Cons(cur_task, rr_queue))

\* A PERIODIC task is preempted.
PeriodicPreempted ==
  /\ CurLevel = "PERIODIC"
  /\ \E sq \in Queue : Picks(sq, Cons(cur_task, <<>>), rr_queue)

Class == \/ Stays \/ Leaves \/ Wakes \/ SystemYields \/ RRYields \/ RRPreempted
         \/ PeriodicPreempted

\* A step that touches neither the processor nor the RR queue.
LEMMA Untouched == UNCHANGED <<cur_task, rr_queue, periodic_queue>> => Class
  BY DEF Class, Stays, Joins

LEMMA AbortClass == ASSUME NEW code, Abort(code) PROVE Class
  BY Untouched DEF Abort, ready_queues

\* A request after which the running task is still RUNNING.
LEMMA StaysClass ==
  ASSUME NEW st, NEW sq, NEW pq, NEW rq, cur_task \in Tasks, st[cur_task] = "RUNNING",
         Dispatch(st, sq, pq, rq), Joins(pq),
         rq = rr_queue \/ \E x \in Tasks \ Range(rr_queue) : rq = Append(rr_queue, x)
  PROVE  Class
<1>1. cur_task' = cur_task /\ rr_queue' = rq /\ periodic_queue' = pq
  BY IdleNotTask DEF Dispatch, Ready
<1> QED  BY <1>1 DEF Class, Stays

\* A request that makes a higher task ready.
LEMMA PreemptClass ==
  ASSUME IInv, NEW st \in [Tasks -> States], NEW sq, NEW pq,
         Sorted(level', sq, pq, rr_queue), level' \in [Tasks -> Levels],
         cur_task \in Tasks => st[cur_task] = "RUNNING" /\ level'[cur_task] = level[cur_task],
         CurLevel = "PERIODIC" => pq = <<>>, Joins(pq),
         ticks_since_boot' = ticks_since_boot,
         Preempt(st, sq, pq, rr_queue)
  PROVE  Class
<1> DEFINE y == Yielded(st)
<1>0. /\ cur_task \in Tasks \cup {Idle} /\ Idle \notin Tasks
      /\ sq \in Queue /\ pq \in Queue /\ rr_queue \in Queue
      /\ cur_task \in Tasks => CurLevel = level[cur_task]
      /\ cur_task \in Tasks => CurLevel \in {"SYSTEM", "PERIODIC", "RR"}
      /\ y \in [Tasks -> States]
      /\ cur_task \in Tasks => y[cur_task] = "READY"
  BY QueuesNow, IdleNotTask DEF Sorted, Yielded, States
<1>1. CASE CurLevel = "RR"
  <2>0. cur_task \in Tasks
    BY <1>0, <1>1 DEF CurLevel
  <2> DEFINE rq == Cons(cur_task, rr_queue)
  <2>1. rq \in Queue /\ Range(rq) = Range(rr_queue) \cup {cur_task} /\ Tail(rq) = rr_queue
        /\ Head(rq) = cur_task /\ rq # <<>>
    BY <1>0, <2>0, QueueEnds
  <2> HIDE DEF rq, y
  <2>2. Sorted(level', sq, pq, rq)
    BY <1>0, <1>1, <2>0, <2>1 DEF Sorted
  <2>3. Dispatch(y, sq, pq, rq)
    BY <1>1 DEF Preempt, Yielded, y, rq
  <2>4. Picks(sq, pq, rq)
    BY <1>0, <2>0, <2>2, <2>3, PickLemma
  <2>5. CASE sq = <<>> /\ pq = <<>>
    BY <2>1, <2>4, <2>5 DEF Picks, Class, Stays, Ready, Joins
  <2>6. CASE sq # <<>> \/ pq # <<>>
    BY <1>0, <1>1, <2>4, <2>6 DEF Class, RRPreempted, rq
  <2> QED  BY <2>5, <2>6
<1>2. CASE CurLevel = "PERIODIC"
  <2>0. cur_task \in Tasks /\ pq = <<>>
    BY <1>0, <1>2 DEF CurLevel
  <2> DEFINE pq2 == Cons(cur_task, pq)
  <2>1. pq2 \in Queue /\ Range(pq2) = Range(pq) \cup {cur_task}
    BY <1>0, <2>0, QueueEnds
  <2> HIDE DEF pq2, y
  <2>2. Sorted(level', sq, pq2, rr_queue)
    BY <1>0, <1>2, <2>0, <2>1 DEF Sorted
  <2>3. Dispatch(y, sq, pq2, rr_queue)
    BY <1>2 DEF Preempt, Yielded, y, pq2
  <2>4. Picks(sq, pq2, rr_queue)
    BY <1>0, <2>0, <2>2, <2>3, PickLemma
  <2> QED  BY <1>0, <1>2, <2>0, <2>4 DEF Class, PeriodicPreempted, pq2
<1>3. CASE CurLevel \notin {"RR", "PERIODIC"}
  <2>1. Dispatch(st, sq, pq, rr_queue)
    BY <1>3 DEF Preempt
  <2>2. CASE cur_task \in Tasks
    BY <2>1, <2>2, StaysClass
  <2>3. CASE cur_task = Idle
    <3>1. Picks(sq, pq, rr_queue)
      BY <1>0, <2>1, <2>3, PickLemma
    <3> QED  BY <1>0, <2>3, <3>1 DEF Class, Wakes
  <2> QED  BY <1>0, <2>2, <2>3
<1> QED  BY <1>1, <1>2, <1>3

\* A request after which the running task is no longer ready.
LEMMA LeavesClass ==
  ASSUME IInv, cur_task \in Tasks, publishing = NoService,
         NEW st \in [Tasks -> States], level' = level,
         st[cur_task] \in {"DEAD", "WAITING"} \/ (CurLevel = "PERIODIC" /\ st[cur_task] = "READY"),
         Dispatch(st, system_queue, periodic_queue, rr_queue)
  PROVE  Class
<1>1. /\ Sorted(level', system_queue, periodic_queue, rr_queue)
      /\ CurLevel # "SYSTEM" => system_queue = <<>> /\ periodic_queue = <<>>
  BY QueuesNow
<1>2. /\ Picks(system_queue, periodic_queue, rr_queue)
      /\ \A t \in Tasks : t # cur_task' => state'[t] = st[t]
  BY <1>1, PickLemma
<1> QED  BY <1>1, <1>2 DEF Class, Leaves

\* The descriptor a new task is given.
LEMMA NewTask ==
  ASSUME IInv, dead_pool_queue # <<>>, NEW l \in {"SYSTEM", "PERIODIC", "RR"},
         NEW x \in {"READY", "WAITING"}, Claim(Head(dead_pool_queue), l)
  PROVE  LET p   == Head(dead_pool_queue)
             st2 == [state EXCEPT ![p] = x]
         IN  /\ p \in Tasks /\ p # cur_task /\ state[p] = "DEAD"
             /\ st2 \in [Tasks -> States]
             /\ cur_task \in Tasks => st2[cur_task] = "RUNNING" /\ level'[cur_task] = level[cur_task]
             /\ \A q \in {system_queue, periodic_queue, rr_queue} : p \notin Range(q)
             /\ level' \in [Tasks -> Levels] /\ level'[p] = l
             /\ \A t \in Tasks : t # p => level'[t] = level[t]
             /\ Sorted(level', system_queue, periodic_queue, rr_queue)
<1> DEFINE p   == Head(dead_pool_queue)
           st2 == [state EXCEPT ![p] = x]
<1>1. /\ Sorted(level, system_queue, periodic_queue, rr_queue)
      /\ state \in [Tasks -> States] /\ level \in [Tasks -> Levels]
      /\ dead_pool_queue \in Queue
      /\ cur_task \in Tasks => state[cur_task] = "RUNNING"
      /\ \A q \in {system_queue, periodic_queue, rr_queue} : \A t \in Range(q) : state[t] = "READY"
      /\ \A t \in Range(dead_pool_queue) : state[t] = "DEAD"
      /\ cur_task \in Tasks \cup {Idle}
  BY QueuesNow
<1>2. p \in Range(dead_pool_queue) /\ p \in Tasks
  BY <1>1, QueueEnds
<1>3. state[p] = "DEAD" /\ p # cur_task
  BY <1>1, <1>2, IdleNotTask
<1>4. level' = [level EXCEPT ![p] = l]
  BY DEF Claim
<1>5. /\ level' \in [Tasks -> Levels] /\ level'[p] = l
      /\ \A t \in Tasks : t # p => level'[t] = level[t]
  BY <1>1, <1>2, <1>4 DEF Levels
<1>6. \A q \in {system_queue, periodic_queue, rr_queue} : p \notin Range(q) /\ Range(q) \subseteq Tasks
  BY <1>1, <1>3, QueueEnds DEF Sorted
<1>7. st2 \in [Tasks -> States] /\ (cur_task \in Tasks => st2[cur_task] = "RUNNING")
  BY <1>1, <1>2, <1>3 DEF States
<1>8. Sorted(level', system_queue, periodic_queue, rr_queue)
  BY <1>1, <1>5, <1>6 DEF Sorted
<1>9. cur_task \in Tasks => level'[cur_task] = level[cur_task]
  BY <1>3, <1>5
<1> HIDE DEF p, st2
<1>10. /\ p \in Tasks /\ p # cur_task /\ state[p] = "DEAD"
       /\ st2 \in [Tasks -> States]
       /\ cur_task \in Tasks => st2[cur_task] = "RUNNING" /\ level'[cur_task] = level[cur_task]
       /\ \A q \in {system_queue, periodic_queue, rr_queue} : p \notin Range(q)
       /\ level' \in [Tasks -> Levels] /\ level'[p] = l
       /\ \A t \in Tasks : t # p => level'[t] = level[t]
       /\ Sorted(level', system_queue, periodic_queue, rr_queue)
  BY <1>2, <1>3, <1>5, <1>6, <1>7, <1>8, <1>9
<1> QED  BY <1>10 DEF p, st2

LEMMA CallerIsTask == IInv /\ InCall => cur_task \in Tasks /\ publishing = NoService
  BY QueuesNow DEF InCall, InTask

LEMMA Task_Create_RRClass == IInv /\ Task_Create_RR => Class
<1> SUFFICES ASSUME IInv, Task_Create_RR PROVE Class
  OBVIOUS
<1>1. CASE dead_pool_queue = <<>>
  BY <1>1, AbortClass DEF Task_Create_RR
<1>2. CASE dead_pool_queue # <<>>
  <2> DEFINE p   == Head(dead_pool_queue)
             st2 == [state EXCEPT ![p] = "READY"]
             rq  == Append(rr_queue, p)
  <2>1. Claim(p, "RR") /\ Dispatch(st2, system_queue, periodic_queue, rq)
    BY <1>2 DEF Task_Create_RR
  <2>2. cur_task \in Tasks
    BY CallerIsTask DEF Task_Create_RR
  <2>3. p \in Tasks /\ st2[cur_task] = "RUNNING" /\ p \notin Range(rr_queue)
    BY <1>2, <2>1, <2>2, NewTask
  <2> QED  BY <2>1, <2>2, <2>3, StaysClass DEF Joins
<1> QED  BY <1>1, <1>2

LEMMA Task_Create_SystemClass == IInv /\ Task_Create_System => Class
<1> SUFFICES ASSUME IInv, Task_Create_System PROVE Class
  OBVIOUS
<1>1. CASE dead_pool_queue = <<>> \/ (CurLevel = "PERIODIC" /\ Len(periodic_queue) >= 1)
  BY <1>1, AbortClass DEF Task_Create_System
<1>2. CASE dead_pool_queue # <<>> /\ ~(CurLevel = "PERIODIC" /\ Len(periodic_queue) >= 1)
  <2> DEFINE p   == Head(dead_pool_queue)
             st2 == [state EXCEPT ![p] = "READY"]
             sq  == Append(system_queue, p)
  <2>1. Claim(p, "SYSTEM") /\ Preempt(st2, sq, periodic_queue, rr_queue)
        /\ ticks_since_boot' = ticks_since_boot
    BY <1>2 DEF Task_Create_System
  <2>2. /\ p \in Tasks /\ st2 \in [Tasks -> States]
        /\ cur_task \in Tasks => st2[cur_task] = "RUNNING" /\ level'[cur_task] = level[cur_task]
        /\ level' \in [Tasks -> Levels] /\ level'[p] = "SYSTEM"
        /\ Sorted(level', system_queue, periodic_queue, rr_queue)
    BY <1>2, <2>1, NewTask
  <2>3. sq \in Queue /\ Range(sq) = Range(system_queue) \cup {p}
    BY <2>2, QueueEnds DEF Sorted
  <2> HIDE DEF sq, st2, p
  <2>4. Sorted(level', sq, periodic_queue, rr_queue)
    BY <2>2, <2>3 DEF Sorted
  <2>5. CurLevel = "PERIODIC" => periodic_queue = <<>>
    BY QueuesNow
  <2> QED  BY <2>1, <2>2, <2>4, <2>5, PreemptClass DEF Joins
<1> QED  BY <1>1, <1>2

LEMMA Task_Create_PeriodicClass ==
  ASSUME IInv, NEW per \in PeriodArgs, NEW wc \in WcetArgs, NEW tick \in Word,
         Task_Create_Periodic(per, wc, tick)
  PROVE  Class
<1> DEFINE p   == Head(dead_pool_queue)
           now == tick = ticks_since_boot
           x   == IF now THEN "READY" ELSE "WAITING"
           pq  == IF now THEN Append(periodic_queue, p) ELSE periodic_queue
           st2 == [state EXCEPT ![p] = x]
<1>1. \/ \E code : Abort(code)
      \/ /\ dead_pool_queue # <<>> /\ Claim(p, "PERIODIC") /\ SetTiming(p, per, wc, tick)
         /\ ticks_since_boot' = ticks_since_boot
         /\ IF CurLevel = "RR" /\ now
            THEN Preempt(st2, system_queue, pq, rr_queue)
            ELSE Dispatch(st2, system_queue, pq, rr_queue)
  BY DEF Task_Create_Periodic
<1>2. CASE \E code : Abort(code)
  BY <1>2, AbortClass
<1>3. CASE /\ dead_pool_queue # <<>> /\ Claim(p, "PERIODIC") /\ SetTiming(p, per, wc, tick)
           /\ ticks_since_boot' = ticks_since_boot
           /\ IF CurLevel = "RR" /\ now
              THEN Preempt(st2, system_queue, pq, rr_queue)
              ELSE Dispatch(st2, system_queue, pq, rr_queue)
  <2>1. cur_task \in Tasks
    BY CallerIsTask DEF Task_Create_Periodic
  <2>2. /\ p \in Tasks /\ st2 \in [Tasks -> States] /\ state[p] = "DEAD"
        /\ st2[cur_task] = "RUNNING" /\ level'[cur_task] = level[cur_task]
        /\ level' \in [Tasks -> Levels] /\ level'[p] = "PERIODIC"
        /\ Sorted(level', system_queue, periodic_queue, rr_queue)
    BY <1>3, <2>1, NewTask
  <2>3. Append(periodic_queue, p) \in Queue
        /\ Range(Append(periodic_queue, p)) = Range(periodic_queue) \cup {p}
    BY <2>2, QueueEnds DEF Sorted
  <2>4. Sorted(level', system_queue, pq, rr_queue)
    BY <2>2, <2>3 DEF Sorted
  <2>7. Starts(p)
    <3>1. wcet_counter'[p] = wcet'[p]
      BY <1>3, <2>2 DEF SetTiming, IInv, TypeOK
    <3>2. p \notin Periodics
      BY <2>2 DEF IInv, SlotsMatchTasks
    <3> QED  BY <3>1, <3>2 DEF Starts
  <2>8. Joins(pq)
    BY <2>2, <2>7 DEF Joins
  <2> HIDE DEF pq, st2, p, now
  <2>5. CASE CurLevel = "RR" /\ now
    <3>1. Preempt(st2, system_queue, pq, rr_queue)
      BY <1>3, <2>5
    <3> QED  BY <1>3, <2>2, <2>4, <2>5, <2>8, <3>1, PreemptClass
  <2>6. CASE ~(CurLevel = "RR" /\ now)
    <3>1. Dispatch(st2, system_queue, pq, rr_queue)
      BY <1>3, <2>6
    <3> QED  BY <2>1, <2>2, <2>8, <3>1, StaysClass
  <2> QED  BY <2>5, <2>6
<1> QED  BY <1>1, <1>2, <1>3

LEMMA Task_NextClass == IInv /\ Task_Next => Class
<1> SUFFICES ASSUME IInv, Task_Next PROVE Class
  OBVIOUS
<1> DEFINE y  == Yielded(state)
           sq == IF CurLevel = "SYSTEM" THEN Append(system_queue, cur_task) ELSE system_queue
           rq == IF CurLevel = "RR" THEN Append(rr_queue, cur_task) ELSE rr_queue
<1>1. /\ Dispatch(y, sq, periodic_queue, rq)
      /\ level' = level /\ ticks_since_boot' = ticks_since_boot
  BY DEF Task_Next, Yielded
<1>2. cur_task \in Tasks /\ publishing = NoService
  BY CallerIsTask DEF Task_Next
<1>3. /\ Sorted(level, system_queue, periodic_queue, rr_queue)
      /\ state \in [Tasks -> States] /\ CurLevel = level[cur_task]
      /\ CurLevel \in {"SYSTEM", "PERIODIC", "RR"}
      /\ CurLevel # "SYSTEM" => system_queue = <<>> /\ periodic_queue = <<>>
  BY <1>2, QueuesNow
<1>4. y \in [Tasks -> States] /\ y[cur_task] = "READY"
  BY <1>2, <1>3 DEF Yielded, States
<1>5. CASE CurLevel = "SYSTEM"
  <2>1. Sorted(level', Append(system_queue, cur_task), periodic_queue, rr_queue)
    BY <1>1, <1>2, <1>3, <1>5, SortedAppend
  <2>2. Picks(Append(system_queue, cur_task), periodic_queue, rr_queue)
    BY <1>1, <1>2, <1>4, <1>5, <2>1, PickLemma
  <2> QED  BY <1>1, <1>5, <2>2 DEF Class, SystemYields
<1>6. CASE CurLevel = "RR"
  <2>1. Sorted(level', system_queue, periodic_queue, Append(rr_queue, cur_task))
    BY <1>1, <1>2, <1>3, <1>6, SortedAppend
  <2>2. Picks(system_queue, periodic_queue, Append(rr_queue, cur_task))
    BY <1>1, <1>2, <1>4, <1>6, <2>1, PickLemma
  <2> QED  BY <1>1, <1>3, <1>6, <2>2, EmptyQueue DEF Class, RRYields, Joins
<1>7. CASE CurLevel = "PERIODIC"
  BY <1>1, <1>2, <1>3, <1>4, <1>7, LeavesClass
<1> QED  BY <1>3, <1>5, <1>6, <1>7

LEMMA Task_TerminateClass == IInv /\ Task_Terminate => Class
<1> SUFFICES ASSUME IInv, Task_Terminate PROVE Class
  OBVIOUS
<1> DEFINE st2 == [state EXCEPT ![cur_task] = "DEAD"]
<1>1. Dispatch(st2, system_queue, periodic_queue, rr_queue) /\ level' = level
  BY DEF Task_Terminate
<1>2. cur_task \in Tasks /\ publishing = NoService
  BY CallerIsTask DEF Task_Terminate
<1>3. st2 \in [Tasks -> States] /\ st2[cur_task] = "DEAD"
  BY <1>2, QueuesNow DEF States
<1> QED  BY <1>1, <1>2, <1>3, LeavesClass

LEMMA Service_SubscribeClass ==
  ASSUME IInv, NEW h \in Handles, Service_Subscribe(h)
  PROVE  Class
<1> DEFINE st2 == [state EXCEPT ![cur_task] = "WAITING"]
<1>1. \/ \E code : Abort(code)
      \/ Dispatch(st2, system_queue, periodic_queue, rr_queue) /\ level' = level
  BY DEF Service_Subscribe
<1>2. cur_task \in Tasks /\ publishing = NoService
  BY CallerIsTask DEF Service_Subscribe
<1>3. st2 \in [Tasks -> States] /\ st2[cur_task] = "WAITING"
  BY <1>2, QueuesNow DEF States
<1> QED  BY <1>1, <1>2, <1>3, LeavesClass, AbortClass

LEMMA WakeSubscriberClass == IInv /\ WakeSubscriber => Class
<1> SUFFICES ASSUME IInv, WakeSubscriber PROVE Class
  OBVIOUS
<1> DEFINE t == Head(service_queue[publishing])
<1>1. \/ \E code : Abort(code)
      \/ UNCHANGED <<cur_task, rr_queue, periodic_queue>>
      \/ UNCHANGED <<cur_task, periodic_queue>> /\ rr_queue' = Append(rr_queue, t)
  BY DEF WakeSubscriber, Ready
<1>2. t \in Tasks \ Range(rr_queue)
  <2>1. publishing \in Services /\ service_queue[publishing] \in Queue
        /\ service_queue[publishing] # <<>>
    BY DEF IInv, TypeOK, WakeSubscriber, InPublish, Queue
  <2>2. t \in Range(service_queue[publishing]) /\ t \in Tasks
    BY <2>1, QueueEnds
  <2>3. state[t] = "WAITING"
    BY <2>1, <2>2 DEF IInv, DescriptorsAccounted
  <2>4. \A u \in Range(rr_queue) : state[u] = "READY"
    BY QueuesNow
  <2> QED  BY <2>2, <2>3, <2>4
<1> QED  BY <1>1, <1>2, AbortClass, Untouched DEF Class, Stays, Joins

LEMMA EndPublishClass == IInv /\ EndPublish => Class
<1> SUFFICES ASSUME IInv, EndPublish PROVE Class
  OBVIOUS
<1>1. \/ \E code : Abort(code)
      \/ /\ IF will_be_preempted
            THEN Preempt(state, system_queue, periodic_queue, rr_queue)
            ELSE Dispatch(state, system_queue, periodic_queue, rr_queue)
         /\ level' = level /\ ticks_since_boot' = ticks_since_boot
  BY DEF EndPublish
<1>2. /\ Sorted(level, system_queue, periodic_queue, rr_queue)
      /\ state \in [Tasks -> States] /\ level \in [Tasks -> Levels]
      /\ cur_task \in Tasks \cup {Idle}
      /\ cur_task \in Tasks => state[cur_task] = "RUNNING"
      /\ CurLevel # "SYSTEM" => periodic_queue = <<>>
      /\ system_queue \in Queue /\ periodic_queue \in Queue
  BY QueuesNow DEF Sorted
<1>3. CASE \E code : Abort(code)
  BY <1>3, AbortClass
<1>4. ASSUME level' = level, ticks_since_boot' = ticks_since_boot,
             Preempt(state, system_queue, periodic_queue, rr_queue)
      PROVE  Class
  BY <1>2, <1>4, PreemptClass DEF Joins
<1>5. ASSUME level' = level, Dispatch(state, system_queue, periodic_queue, rr_queue)
      PROVE  Class
  <2>1. CASE cur_task \in Tasks
    BY <1>2, <1>5, <2>1, StaysClass DEF Joins
  <2>2. CASE cur_task = Idle
    <3>1. Picks(system_queue, periodic_queue, rr_queue)
      BY <1>2, <1>5, <2>2, IdleNotTask, PickLemma
    <3> QED  BY <1>2, <2>2, <3>1 DEF Class, Wakes, Joins
  <2> QED  BY <1>2, <2>1, <2>2
<1> QED  BY <1>1, <1>3, <1>4, <1>5

LEMMA TIMER_EXPIREDClass == IInv /\ TIMER_EXPIRED => Class
<1> SUFFICES ASSUME IInv, TIMER_EXPIRED PROVE Class
  OBVIOUS
<1>1. CASE \E code : Abort(code)
  BY <1>1, AbortClass
<1>2. CASE ~ \E code : Abort(code)
  <2> DEFINE st2 == [t \in Tasks |->
                       IF t \in Released \/ (t = cur_task /\ level[t] = "RR")
                       THEN "READY" ELSE state[t]]
             pq  == IF Released = {} THEN periodic_queue
                    ELSE Append(periodic_queue, CHOOSE t \in Released : TRUE)
  <2>1. /\ ~(ReadyAfterTick >= 2) /\ ~(CurLevel = "PERIODIC" /\ ReadyAfterTick >= 1)
        /\ ticks_since_boot' = Inc(ticks_since_boot)
        /\ Dispatch(st2, system_queue, pq, QuantumQueue)
        /\ level' = level /\ publishing = NoService
        /\ wcet_counter' = [t \in Tasks |-> WcetAfterTick(t)] /\ wcet' = wcet
    BY <1>2 DEF TIMER_EXPIRED, InTask, periodic_args
  <2>2. /\ Sorted(level, system_queue, periodic_queue, rr_queue)
        /\ state \in [Tasks -> States] /\ cur_task \in Tasks \cup {Idle}
        /\ cur_task \in Tasks => state[cur_task] = "RUNNING" /\ CurLevel = level[cur_task]
        /\ CurLevel # "SYSTEM" => system_queue = <<>> /\ periodic_queue = <<>>
        /\ cur_task \in Tasks => CurLevel \in {"SYSTEM", "PERIODIC", "RR"}
        /\ system_queue \in Queue /\ periodic_queue \in Queue
    BY <2>1, QueuesNow DEF Sorted
  <2>3. /\ Released = {} \/ \E t \in Tasks : Released = {t} /\ periodic_queue = <<>>
        /\ CurLevel = "PERIODIC" => Released = {}
    BY <2>1, ReleasedLemma
  <2>4. \A t \in Released : t \in Periodics /\ t \in Tasks /\ level[t] = "PERIODIC"
    BY DEF Released, IInv, SlotsMatchTasks
  <2>5. st2 \in [Tasks -> States]
    BY <2>2 DEF States
  <2>6. Sorted(level', system_queue, pq, rr_queue) /\ pq \in Queue /\ Joins(pq)
    <3>1. CASE Released = {}
      BY <2>1, <2>2, <3>1 DEF Sorted, Joins
    <3>2. CASE Released # {}
      <4>1. PICK t \in Tasks : Released = {t} /\ periodic_queue = <<>>
        BY <2>3, <3>2
      <4>2. (CHOOSE u \in Released : TRUE) = t
        BY <4>1
      <4>3. pq = Append(periodic_queue, t)
        BY <3>2, <4>2
      <4>4. level'[t] = "PERIODIC"
        BY <2>1, <2>4, <4>1
      <4>5. Sorted(level', system_queue, Append(periodic_queue, t), rr_queue)
        BY <2>1, <2>2, <4>4, SortedAppend
      <4>6. Starts(t)
        BY <2>1, <4>1 DEF WcetAfterTick, Starts
      <4> QED  BY <4>3, <4>5, <4>6 DEF Sorted, Joins
    <3> QED  BY <3>1, <3>2
  <2>7. CurLevel = "RR" /\ pq # <<>> => ticks_since_boot' # ticks_since_boot
    <3> SUFFICES ASSUME CurLevel = "RR", pq # <<>>
                 PROVE  ticks_since_boot' # ticks_since_boot
      OBVIOUS
    <3>1. PICK t : t \in Released
      BY <2>2
    <3>2. t \in Periodics /\ t \in Tasks
      BY <2>4, <3>1
    <3>3. counter[t] \in 0 .. WORD - 1 /\ counter[t] > 0 /\ ticks_since_boot \in 0 .. WORD - 1
      BY <3>2 DEF IInv, TypeOK, CountersNeverWrap, Word
    <3>4. WORD \in Nat /\ WORD > 1
      BY <3>3, KernelAssumption
    <3> QED  BY <2>1, <3>3, <3>4 DEF Inc
  <2>8. CASE CurLevel = "RR"
    <3>1. cur_task \in Tasks
      BY <2>2, <2>8, IdleNotTask DEF CurLevel
    <3>2. st2[cur_task] = "READY" /\ QuantumQueue = Append(rr_queue, cur_task)
      BY <2>2, <2>8, <3>1 DEF QuantumQueue
    <3>3. Sorted(level', system_queue, pq, Append(rr_queue, cur_task))
      BY <2>1, <2>2, <2>6, <2>8, <3>1, SortedAppend
    <3> HIDE DEF pq, st2
    <3>4. Picks(system_queue, pq, Append(rr_queue, cur_task))
      BY <2>1, <2>5, <3>1, <3>2, <3>3, PickLemma
    <3> QED  BY <2>2, <2>6, <2>7, <2>8, <3>4 DEF Class, RRYields
  <2>9. CASE cur_task = Idle
    <3>1. QuantumQueue = rr_queue /\ cur_task \notin Tasks
      BY <2>9, IdleNotTask DEF QuantumQueue, CurLevel
    <3> HIDE DEF pq, st2
    <3>2. Picks(system_queue, pq, rr_queue)
      BY <2>1, <2>2, <2>5, <2>6, <3>1, PickLemma
    <3> QED  BY <2>2, <2>6, <2>9, <3>2 DEF Class, Wakes
  <2>10. CASE cur_task \in Tasks /\ CurLevel # "RR"
    <3>1. QuantumQueue = rr_queue /\ cur_task \notin Released
      BY <2>2, <2>3, <2>4, <2>10 DEF QuantumQueue
    <3>2. st2[cur_task] = "RUNNING"
      BY <2>2, <2>10, <3>1
    <3> HIDE DEF pq, st2
    <3> QED  BY <2>1, <2>6, <2>10, <3>1, <3>2, StaysClass
  <2> QED  BY <2>2, <2>8, <2>9, <2>10
<1> QED  BY <1>1, <1>2

\* Every step of the kernel is of one of the classes.
LEMMA StepClass == IInv /\ [Next]_vars => Class
<1> SUFFICES ASSUME IInv, [Next]_vars PROVE Class
  OBVIOUS
<1>1. CASE UNCHANGED vars
  BY <1>1, Untouched DEF vars, ready_queues
<1>2. CASE OS_Abort \/ Service_Init \/ Aborted
  BY <1>1, <1>2, Untouched, AbortClass DEF OS_Abort, Service_Init, Aborted, ready_queues
<1>3. ASSUME NEW h \in Handles, NEW v \in Values, Service_Publish(h, v) PROVE Class
  BY <1>3, Untouched, AbortClass DEF Service_Publish, ready_queues
<1> QED
  BY <1>1, <1>2, <1>3, TIMER_EXPIREDClass, Task_Create_SystemClass, Task_Create_RRClass,
     Task_Create_PeriodicClass, Task_NextClass, Task_TerminateClass,
     Service_SubscribeClass, WakeSubscriberClass, EndPublishClass
  DEF Next, OtherStep

-----------------------------------------------------------------------------
(* The action properties.                                                  *)

\* Removing the head, or adding a new element at an end, reorders nothing.
LEMMA OrderKept ==
  ASSUME NEW q \in Queue, NEW a, NEW b
  PROVE  /\ q # <<>> /\ Before(Tail(q), b, a) => Before(q, b, a)
         /\ \A x \in Tasks : Before(Append(q, x), b, a) /\ a # x => Before(q, b, a)
         /\ \A x \in Tasks : Before(Cons(x, q), b, a) => b = x \/ Before(q, b, a)
<1> q \in Seq(Tasks)
  BY DEF Queue
<1> QED  BY SeqOrderKept

\* The first two elements of a queue, after the head has been taken.
LEMMA TailOfAppend ==
  ASSUME NEW q \in Queue, NEW x \in Tasks, q # <<>>
  PROVE  Head(Append(q, x)) = Head(q) /\ Tail(Append(q, x)) = Append(Tail(q), x)
<1> q \in Seq(Tasks)
  BY DEF Queue
<1> QED  BY SeqTailOfAppend

\* A SYSTEM task keeps the processor until it terminates, blocks or yields to
\* the next in line.
THEOREM SystemTasksComplete == Spec => SystemRunsToCompletion
<1> DEFINE A == CurLevel = "SYSTEM" /\ cur_task' # cur_task =>
                  \/ state'[cur_task] \in {"DEAD", "WAITING"}
                  \/ /\ ticks_since_boot' = ticks_since_boot /\ system_queue # <<>>
                     /\ cur_task' = Head(system_queue)
                     /\ system_queue' = Append(Tail(system_queue), cur_task)
<1>1. IInv /\ [Next]_vars => [A]_vars
  <2> SUFFICES ASSUME IInv, Class, CurLevel = "SYSTEM", cur_task' # cur_task
               PROVE  \/ state'[cur_task] \in {"DEAD", "WAITING"}
                      \/ /\ ticks_since_boot' = ticks_since_boot /\ system_queue # <<>>
                         /\ cur_task' = Head(system_queue)
                         /\ system_queue' = Append(Tail(system_queue), cur_task)
    BY StepClass
  <2>1. cur_task \in Tasks /\ cur_task # Idle
    BY QueuesNow, IdleNotTask DEF CurLevel
  <2>2. CASE Leaves
    BY <2>2 DEF Leaves
  <2>3. CASE SystemYields
    <3>1. system_queue \in Queue
      BY QueuesNow DEF Sorted
    <3>2. /\ Append(system_queue, cur_task) # <<>>
          /\ cur_task' = Head(Append(system_queue, cur_task))
          /\ system_queue' = Tail(Append(system_queue, cur_task))
      BY <2>1, <2>3, <3>1, QueueEnds DEF SystemYields, Picks, Ready
    <3>3. system_queue # <<>>
      <4> SUFFICES ASSUME system_queue = <<>> PROVE FALSE
        OBVIOUS
      <4>1. Append(system_queue, cur_task)[1] = cur_task
        BY <2>1
      <4>2. Head(Append(system_queue, cur_task)) = cur_task
        BY <2>1
      <4> QED  BY <3>2, <4>2
    <3> QED  BY <2>1, <2>3, <3>1, <3>2, <3>3, TailOfAppend DEF SystemYields
  <2> QED  BY <2>1, <2>2, <2>3 DEF Class, Stays, Wakes, RRYields, RRPreempted, PeriodicPreempted
<1> QED  BY <1>1, Invariance, PTL DEF Spec, SystemRunsToCompletion

\* A task preempted between two ticks is the first of its level to run again.
THEOREM PreemptedKeepTheirTurn == Spec => PreemptionKeepsTurn
<1> DEFINE A == cur_task' # cur_task /\ ticks_since_boot' = ticks_since_boot =>
                  /\ CurLevel = "RR" /\ CurLevel' \in {"SYSTEM", "PERIODIC"} =>
                       rr_queue' = Cons(cur_task, rr_queue)
                  /\ CurLevel = "PERIODIC" /\ CurLevel' = "SYSTEM" =>
                       periodic_queue' = <<cur_task>>
<1>1. IInv /\ [Next]_vars => [A]_vars
  <2> SUFFICES ASSUME IInv, Class, cur_task' # cur_task, ticks_since_boot' = ticks_since_boot
               PROVE  A
    BY StepClass
  <2>1. CurLevel \in {"RR", "PERIODIC"} => cur_task # Idle
    BY DEF CurLevel
  <2>2. CASE Leaves
    BY <2>2 DEF Leaves, Picks
  <2>3. CASE RRYields
    BY <2>3 DEF RRYields, Picks
  <2>4. CASE RRPreempted
    BY <2>4 DEF RRPreempted, Picks, Ready
  <2>5. CASE PeriodicPreempted
    <3>1. Cons(cur_task, <<>>) = <<cur_task>>
      BY DEF Cons
    <3>2. CurLevel' = "SYSTEM" => periodic_queue' = Cons(cur_task, <<>>)
      BY <2>5 DEF PeriodicPreempted, Picks, Ready
    <3> QED  BY <2>5, <3>1, <3>2 DEF PeriodicPreempted
  <2> QED  BY <2>1, <2>2, <2>3, <2>4, <2>5 DEF Class, Stays, Wakes, SystemYields
<1> QED  BY <1>1, Invariance, PTL DEF Spec, PreemptionKeepsTurn

\* No RR task overtakes another one that is waiting for the processor.
THEOREM NobodyOvertakes == Spec => NoOvertaking
<1> DEFINE A == \A a \in Range(rr_queue), b \in Range(rr_queue') :
                  Before(rr_queue', b, a) =>
                    \/ Before(rr_queue, b, a)
                    \/ /\ b = cur_task
                       /\ CurLevel' \in {"SYSTEM", "PERIODIC"}
                       /\ ticks_since_boot' = ticks_since_boot
<1>1. IInv /\ [Next]_vars => [A]_vars
  <2> SUFFICES ASSUME IInv, Class,
                      NEW a \in Range(rr_queue), NEW b, Before(rr_queue', b, a)
               PROVE  \/ Before(rr_queue, b, a)
                      \/ /\ b = cur_task
                         /\ CurLevel' \in {"SYSTEM", "PERIODIC"}
                         /\ ticks_since_boot' = ticks_since_boot
    BY StepClass
  <2>1. /\ rr_queue \in Queue /\ a \in Tasks /\ a # cur_task
        /\ CurLevel = "RR" => cur_task \in Tasks
    BY QueuesNow, QueueEnds DEF Sorted, CurLevel
  <2>2. \A x \in Tasks : /\ Append(rr_queue, x) \in Queue /\ Append(rr_queue, x) # <<>>
                         /\ Cons(x, rr_queue) \in Queue /\ Cons(x, rr_queue) # <<>>
                         /\ Tail(Cons(x, rr_queue)) = rr_queue
    BY <2>1, QueueEnds
  <2>3. CASE rr_queue' = rr_queue
    BY <2>3
  <2>4. CASE rr_queue # <<>> /\ rr_queue' = Tail(rr_queue)
    BY <2>1, <2>4, OrderKept
  <2>5. ASSUME NEW x \in Tasks, x # a,
               rr_queue' = Append(rr_queue, x) \/ rr_queue' = Tail(Append(rr_queue, x))
        PROVE  Before(rr_queue, b, a)
    <3>1. Before(Append(rr_queue, x), b, a)
      BY <2>2, <2>5, OrderKept
    <3> QED  BY <2>1, <2>5, <3>1, OrderKept
  <2>6. CASE /\ CurLevel = "RR" /\ rr_queue' = Cons(cur_task, rr_queue)
             /\ CurLevel' \in {"SYSTEM", "PERIODIC"} /\ ticks_since_boot' = ticks_since_boot
    BY <2>1, <2>6, OrderKept
  <2>7. CASE Stays
    <3>1. rr_queue' = rr_queue \/ \E x \in Tasks \ Range(rr_queue) : rr_queue' = Append(rr_queue, x)
      BY <2>7 DEF Stays
    <3> QED  BY <2>3, <2>5, <3>1
  <2>8. CASE Leaves \/ Wakes \/ SystemYields \/ PeriodicPreempted
    <3>1. rr_queue' = rr_queue \/ (rr_queue # <<>> /\ rr_queue' = Tail(rr_queue))
      BY <2>8 DEF Leaves, Wakes, SystemYields, PeriodicPreempted, Picks, Ready
    <3> QED  BY <2>3, <2>4, <3>1
  <2>9. CASE RRYields
    <3>1. \/ rr_queue' = Append(rr_queue, cur_task)
          \/ rr_queue' = Tail(Append(rr_queue, cur_task))
      BY <2>9 DEF RRYields, Picks, Ready
    <3> QED  BY <2>1, <2>5, <2>9, <3>1 DEF RRYields
  <2>10. CASE RRPreempted
    <3>1. /\ CurLevel = "RR" /\ rr_queue' = Cons(cur_task, rr_queue)
          /\ CurLevel' \in {"SYSTEM", "PERIODIC"} /\ ticks_since_boot' = ticks_since_boot
      BY <2>10 DEF RRPreempted, Picks, Ready
    <3> QED  BY <2>6, <3>1
  <2> QED  BY <2>7, <2>8, <2>9, <2>10 DEF Class
<1> QED  BY <1>1, Invariance, PTL DEF Spec, NoOvertaking

-----------------------------------------------------------------------------
(* The history variables: execution counted against the WCET.              *)

\* A task that becomes active starts a release.
LEMMA ActivatedStarts ==
  ASSUME IInv, Class, NEW t \in Tasks, level'[t] = "PERIODIC", Activated(t)
  PROVE  Starts(t)
<1>1. t # Idle /\ t \notin Range(periodic_queue) /\ t # cur_task /\ periodic_queue \in Queue
      /\ (t \in Range(periodic_queue') \/ t = cur_task')
  BY QueuesNow, IdleNotTask DEF Activated, Sorted
<1>2. t = cur_task' => CurLevel' = "PERIODIC"
  BY <1>1 DEF CurLevel
<1>3. ASSUME NEW pq, Joins(pq), t \in Range(pq) PROVE Starts(t)
  <2>1. \A x \in Tasks : Range(Append(periodic_queue, x)) = Range(periodic_queue) \cup {x}
    BY <1>1, QueueEnds
  <2>2. \A x \in Tasks : pq = Append(periodic_queue, x) => t = x
    BY <1>1, <1>3, <2>1
  <2> QED  BY <1>1, <1>3, <2>2 DEF Joins
<1>4. ASSUME NEW sq, NEW pq \in Queue, NEW rq, Picks(sq, pq, rq) PROVE t \in Range(pq)
  <2>1. pq # <<>> => Head(pq) \in Range(pq) /\ Range(Tail(pq)) \subseteq Range(pq)
    BY QueueEnds
  <2>2. \/ periodic_queue' = pq /\ (t = cur_task' => FALSE)
        \/ pq # <<>> /\ cur_task' = Head(pq) /\ periodic_queue' = Tail(pq)
    BY <1>1, <1>2, <1>4 DEF Picks, Ready
  <2> QED  BY <1>1, <2>1, <2>2
<1>5. CASE Stays
  BY <1>1, <1>3, <1>5 DEF Stays
<1>6. CASE Leaves
  BY <1>1, <1>4, <1>6 DEF Leaves
<1>7. CASE Wakes
  BY <1>3, <1>4, <1>7 DEF Wakes
<1>8. CASE SystemYields
  BY <1>1, <1>4, <1>8 DEF SystemYields
<1>9. CASE RRYields
  BY <1>3, <1>4, <1>9 DEF RRYields
<1>10. CASE RRPreempted
  BY <1>3, <1>4, <1>10 DEF RRPreempted
<1>11. CASE PeriodicPreempted
  <2>1. cur_task \in Tasks
    BY <1>11, QueuesNow DEF PeriodicPreempted, CurLevel
  <2>2. Cons(cur_task, <<>>) \in Queue /\ Range(Cons(cur_task, <<>>)) = {cur_task}
    BY <2>1, Singleton
  <2> QED  BY <1>1, <1>4, <1>11, <2>2 DEF PeriodicPreempted
<1> QED  BY <1>5, <1>6, <1>7, <1>8, <1>9, <1>10, <1>11 DEF Class

\* A step that charges nothing and starts releases only by making tasks active.
LEMMA RanKept ==
  ASSUME IInv, IInv', RanInv, Class, Count, ticks_since_boot' = ticks_since_boot,
         \A t \in Periodics' : t \in Periodics =>
           wcet_counter'[t] = wcet_counter[t] /\ wcet'[t] = wcet[t],
         \A t \in Periodics' : t \notin Periodics => wcet_counter'[t] = wcet'[t]
  PROVE  RanInv'
<1> SUFFICES ASSUME NEW t \in Tasks
             PROVE  /\ ran'[t] \in Nat
                    /\ t \in Periodics' => ran'[t] + wcet_counter'[t] = wcet'[t]
                    /\ t \notin Periodics' => ran'[t] = 0
  BY DEF RanInv
<1>1. /\ ran[t] \in Nat
      /\ t \in Periodics => ran[t] + wcet_counter[t] = wcet[t]
      /\ t \notin Periodics => ran[t] = 0
  BY DEF RanInv
<1>2. wcet'[t] \in Nat /\ wcet_counter'[t] \in Nat
  BY KernelAssumption DEF IInv, TypeOK, Word
<1>3. ran'[t] = IF t \notin Periodics' \/ Activated(t) THEN 0 ELSE ran[t]
  BY DEF Count, Ticked
<1>4. CASE t \notin Periodics'
  BY <1>3, <1>4
<1>5. CASE t \in Periodics' /\ Activated(t)
  <2>1. level'[t] = "PERIODIC"
    BY <1>5 DEF IInv, SlotsMatchTasks
  <2>2. wcet_counter'[t] = wcet'[t]
    BY <1>5, <2>1, ActivatedStarts DEF Starts
  <2> QED  BY <1>2, <1>3, <1>5, <2>2
<1>6. CASE t \in Periodics' /\ ~Activated(t) /\ t \in Periodics
  BY <1>1, <1>3, <1>6
<1>7. CASE t \in Periodics' /\ ~Activated(t) /\ t \notin Periodics
  BY <1>1, <1>2, <1>3, <1>7
<1> QED  BY <1>4, <1>5, <1>6, <1>7

LEMMA PeriodicKept ==
  ASSUME IInv, IInv', RanInv, Class, Count, UNCHANGED <<periodic_vars, ticks_since_boot>>
  PROVE  RanInv'
<1>1. Periodics' = Periodics /\ UNCHANGED <<wcet, wcet_counter>>
  BY DEF Periodics, periodic_vars, periodic_args
<1> QED  BY <1>1, RanKept

LEMMA AbortRan ==
  ASSUME IInv, IInv', RanInv, Count, NEW code, Abort(code)
  PROVE  RanInv'
  BY PeriodicKept, AbortClass DEF Abort

LEMMA TerminateRan ==
  ASSUME IInv, IInv', RanInv, Count, Task_Terminate
  PROVE  RanInv'
<1>1. /\ periodic_tasks' = WithoutTask(cur_task) /\ ticks_since_boot' = ticks_since_boot
      /\ UNCHANGED <<wcet, wcet_counter>>
  BY DEF Task_Terminate, periodic_args
<1>2. Periodics' \subseteq Periodics
  BY <1>1, IdleNotTask DEF Periodics, WithoutTask, IInv, TypeOK
<1> QED  BY <1>1, <1>2, RanKept, Task_TerminateClass

LEMMA CreateRan ==
  ASSUME IInv, IInv', RanInv, Count,
         NEW per \in PeriodArgs, NEW wc \in WcetArgs, NEW tick \in Word,
         Task_Create_Periodic(per, wc, tick)
  PROVE  RanInv'
<1> DEFINE p == Head(dead_pool_queue)
<1>1. \/ \E code : Abort(code)
      \/ /\ dead_pool_queue # <<>> /\ SetTiming(p, per, wc, tick)
         /\ ~InvalidTiming(per, wc) /\ ~(tick < ticks_since_boot)
         /\ ticks_since_boot' = ticks_since_boot /\ Claim(p, "PERIODIC")
  BY DEF Task_Create_Periodic
<1>2. CASE \E code : Abort(code)
  BY <1>2, AbortRan
<1>3. CASE /\ dead_pool_queue # <<>> /\ SetTiming(p, per, wc, tick)
           /\ ~InvalidTiming(per, wc) /\ ~(tick < ticks_since_boot)
           /\ ticks_since_boot' = ticks_since_boot /\ Claim(p, "PERIODIC")
  <2>1. p \in Tasks /\ state[p] = "DEAD"
    BY <1>3, NewTask
  <2>2. TimingInv
    BY Parts
  <2>3. p \notin Periodics
    BY <2>1 DEF IInv, SlotsMatchTasks
  <2>4. Periodics' = Periodics \cup {p}
    BY <1>3, <2>1, <2>2, <2>3, SetTimingLemma
  <2>5. /\ wcet' = [wcet EXCEPT ![p] = wc]
        /\ wcet_counter' = [wcet_counter EXCEPT ![p] = wc]
        /\ wcet \in [Tasks -> Word] /\ wcet_counter \in [Tasks -> Word]
    BY <1>3, <2>2 DEF SetTiming, TimingInv
  <2>6. Class
    BY Task_Create_PeriodicClass
  <2> HIDE DEF p
  <2>7. /\ \A t \in Periodics' : t \in Periodics =>
             wcet_counter'[t] = wcet_counter[t] /\ wcet'[t] = wcet[t]
        /\ \A t \in Periodics' : t \notin Periodics => wcet_counter'[t] = wcet'[t]
    BY <2>1, <2>3, <2>4, <2>5 DEF Periodics
  <2> QED  BY <1>3, <2>6, <2>7, RanKept
<1> QED  BY <1>1, <1>2, <1>3

\* A tick makes every task that it releases active.
LEMMA ReleasedActivated ==
  ASSUME IInv, TIMER_EXPIRED, ~ \E code : Abort(code), NEW t \in Released
  PROVE  Activated(t)
<1> DEFINE st2 == [u \in Tasks |->
                     IF u \in Released \/ (u = cur_task /\ level[u] = "RR")
                     THEN "READY" ELSE state[u]]
           pq  == IF Released = {} THEN periodic_queue
                  ELSE Append(periodic_queue, CHOOSE u \in Released : TRUE)
<1>1. /\ ~(ReadyAfterTick >= 2) /\ ~(CurLevel = "PERIODIC" /\ ReadyAfterTick >= 1)
      /\ Dispatch(st2, system_queue, pq, QuantumQueue)
  BY DEF TIMER_EXPIRED
<1>2. Released = {t} /\ periodic_queue = <<>> /\ CurLevel # "PERIODIC"
  BY <1>1, ReleasedLemma
<1>3. t \in Tasks /\ level[t] = "PERIODIC"
  BY DEF Released, Periodics, IInv, SlotsMatchTasks
<1>4. cur_task # t
  BY <1>2, <1>3, QueuesNow
<1>5. pq = Append(<<>>, t)
  <2>1. (CHOOSE u \in Released : TRUE) = t
    BY <1>2
  <2> QED  BY <1>2, <2>1
<1>6. pq \in Queue /\ Range(pq) = {t} /\ Head(pq) \in Range(pq)
  <2>1. Append(<<>>, t) \in Queue /\ Range(Append(<<>>, t)) = {t}
    BY <1>3, Singleton
  <2>2. Append(<<>>, t) # <<>>
    BY <2>1, EmptyQueue
  <2>3. Head(Append(<<>>, t)) \in Range(Append(<<>>, t))
    BY <2>1, <2>2, QueueEnds
  <2> QED  BY <1>5, <2>1, <2>3
<1> HIDE DEF pq, st2
<1>7. periodic_queue' = pq \/ cur_task' = t
  BY <1>1, <1>6 DEF Dispatch, Ready, SwitchTo
<1> QED  BY <1>2, <1>4, <1>6, <1>7, EmptyQueue DEF Activated

LEMMA TickRan ==
  ASSUME IInv, IInv', RanInv, Count, TIMER_EXPIRED
  PROVE  RanInv'
<1>1. CASE \E code : Abort(code)
  BY <1>1, AbortRan
<1>2. CASE ~ \E code : Abort(code)
  <2> DEFINE st2 == [t \in Tasks |->
                       IF t \in Released \/ (t = cur_task /\ level[t] = "RR")
                       THEN "READY" ELSE state[t]]
             pq  == IF Released = {} THEN periodic_queue
                    ELSE Append(periodic_queue, CHOOSE t \in Released : TRUE)
  <2>1. /\ ~Overrun /\ ~(ReadyAfterTick >= 2) /\ ~(CurLevel = "PERIODIC" /\ ReadyAfterTick >= 1)
        /\ ticks_since_boot' = Inc(ticks_since_boot)
        /\ Dispatch(st2, system_queue, pq, QuantumQueue)
        /\ UNCHANGED <<level, periodic_tasks, wcet>>
        /\ wcet_counter' = [t \in Tasks |-> WcetAfterTick(t)]
    BY <1>2 DEF TIMER_EXPIRED, InTask, periodic_args
  <2>2. Periodics' = Periodics
    BY <2>1 DEF Periodics
  <2> SUFFICES ASSUME NEW t \in Tasks
               PROVE  /\ ran'[t] \in Nat
                      /\ t \in Periodics' => ran'[t] + wcet_counter'[t] = wcet'[t]
                      /\ t \notin Periodics' => ran'[t] = 0
    BY DEF RanInv
  <2>3. /\ ran[t] \in Nat
        /\ t \in Periodics => ran[t] + wcet_counter[t] = wcet[t]
        /\ wcet[t] \in Nat /\ wcet_counter[t] \in Word /\ wcet'[t] = wcet[t]
        /\ wcet_counter'[t] = WcetAfterTick(t)
    BY <2>1, KernelAssumption DEF RanInv, IInv, TypeOK, Word
  <2>4. CASE t \notin Periodics
    BY <2>2, <2>4 DEF Count
  <2>5. CASE t \in Released
    <3>1. t \in Periodics
      BY <2>5 DEF Released
    <3>2. Activated(t)
      BY <1>2, <2>5, ReleasedActivated
    <3>3. ran'[t] = 0 /\ WcetAfterTick(t) = wcet[t]
      BY <2>5, <3>2 DEF Count, WcetAfterTick
    <3> QED  BY <2>2, <2>3, <3>1, <3>3
  <2>6. CASE t \in Periodics /\ t \notin Released
    <3>1. level[t] = "PERIODIC" /\ level'[t] = "PERIODIC" /\ wcet_counter[t] > 0
          /\ counter[t] \in Word /\ counter[t] > 0 /\ ticks_since_boot \in Word
      BY <2>1, <2>6 DEF IInv, SlotsMatchTasks, CountersNeverWrap, TypeOK
    <3>2. WORD \in Nat /\ WORD > 1
      BY <3>1, KernelAssumption DEF Word
    <3>3. Ticked
      BY <2>1, <3>1, <3>2 DEF Ticked, Inc, Word
    <3>4. CASE Activated(t)
      <4>1. wcet_counter'[t] = wcet'[t] /\ ran'[t] = 0
        BY <3>1, <3>4, TIMER_EXPIREDClass, ActivatedStarts DEF Count, Starts
      <4> QED  BY <2>2, <2>3, <2>6, <4>1
    <3>5. CASE ~Activated(t) /\ cur_task = t
      <4>1. ran'[t] = ran[t] + 1 /\ WcetAfterTick(t) = Dec(wcet_counter[t])
        BY <2>2, <2>6, <3>1, <3>3, <3>5 DEF Count, WcetAfterTick
      <4>2. Dec(wcet_counter[t]) = wcet_counter[t] - 1
        BY <2>3, <3>1 DEF Dec
      <4>3. wcet_counter[t] \in Nat
        BY <2>3, KernelAssumption DEF Word
      <4> QED  BY <2>2, <2>3, <2>6, <4>1, <4>2, <4>3
    <3>6. CASE ~Activated(t) /\ cur_task # t
      <4>1. ran'[t] = ran[t] /\ WcetAfterTick(t) = wcet_counter[t]
        BY <2>2, <2>6, <3>1, <3>6 DEF Count, WcetAfterTick
      <4> QED  BY <2>2, <2>3, <2>6, <4>1
    <3> QED  BY <3>4, <3>5, <3>6
  <2> QED  BY <2>4, <2>5, <2>6
<1> QED  BY <1>1, <1>2

LEMMA OtherRan ==
  ASSUME IInv, IInv', RanInv, Count, OtherStep
  PROVE  RanInv'
<1>1. Class
  BY StepClass DEF Next
<1>2. CASE \E code : Abort(code)
  BY <1>2, AbortRan
<1>3. CASE UNCHANGED <<periodic_vars, ticks_since_boot>>
  BY <1>1, <1>3, PeriodicKept
<1>4. CASE Task_Create_System
  BY <1>2, <1>3, <1>4 DEF Task_Create_System
<1>5. CASE Task_Create_RR
  BY <1>2, <1>3, <1>5 DEF Task_Create_RR
<1>6. CASE Task_Next \/ OS_Abort \/ Service_Init \/ Aborted
  BY <1>2, <1>3, <1>6 DEF Task_Next, OS_Abort, Service_Init, Aborted, vars
<1>7. ASSUME NEW h \in Handles, Service_Subscribe(h) PROVE RanInv'
  BY <1>2, <1>3, <1>7 DEF Service_Subscribe
<1>8. CASE WakeSubscriber \/ EndPublish
  BY <1>2, <1>3, <1>8 DEF WakeSubscriber, EndPublish
<1> QED
  BY <1>4, <1>5, <1>6, <1>7, <1>8, TickRan, TerminateRan DEF OtherStep

-----------------------------------------------------------------------------
(* The history variables: what a subscriber obtains.                       *)

\* A task that gets the processor has its service's data, no other obtains any.
Obtains ==
  \A t \in Tasks :
    /\ resuming'[t] = IF t = cur_task' THEN NoService ELSE resuming[t]
    /\ received'[t] = IF t = cur_task' /\ resuming[t] # NoService
                      THEN service_data[resuming[t]] ELSE received[t]

LEMMA IdleRunner ==
  ASSUME IInv, HeardInv
  PROVE  /\ \A t \in Tasks : t = cur_task => resuming[t] = NoService
         /\ resuming \in [Tasks -> Services \cup {NoService}]
         /\ received \in [Tasks -> Values] /\ service_queue \in [Services -> Queue]
         /\ cur_task \in Tasks => \A s \in Services : cur_task \notin Range(service_queue[s])
<1>1. cur_task \in Tasks => \A s \in Services : cur_task \notin Range(service_queue[s])
  BY QueuesNow DEF IInv, DescriptorsAccounted
<1> QED  BY <1>1 DEF HeardInv, IInv, TypeOK, Queue

LEMMA NoneObtained ==
  ASSUME IInv, HeardInv, UNCHANGED <<cur_task, resuming, received>>
  PROVE  Obtains
  BY IdleRunner DEF Obtains

LEMMA DispatchObtains ==
  ASSUME IInv, HeardInv, NEW st, NEW sq, NEW pq, NEW rq, Dispatch(st, sq, pq, rq)
  PROVE  Obtains
<1>1. /\ resuming \in [Tasks -> Services \cup {NoService}] /\ received \in [Tasks -> Values]
      /\ \A t \in Tasks : t = cur_task => resuming[t] = NoService
      /\ Idle \notin Tasks
  BY IdleRunner, IdleNotTask
<1>2. ASSUME NEW x, SwitchTo(x, st) PROVE Obtains
  <2>1. /\ cur_task' = x /\ resuming' = [resuming EXCEPT ![x] = NoService]
        /\ received' = [received EXCEPT ![x] =
             IF resuming[x] = NoService THEN @ ELSE service_data[resuming[x]]]
    BY <1>2 DEF SwitchTo
  <2> QED  BY <1>1, <2>1 DEF Obtains
<1>3. CASE UNCHANGED <<resuming, received>> /\ (cur_task' = cur_task \/ cur_task' = Idle)
  BY <1>1, <1>3 DEF Obtains
<1> QED  BY <1>2, <1>3 DEF Dispatch

LEMMA PreemptObtains ==
  ASSUME IInv, HeardInv, NEW st, NEW sq, NEW pq, NEW rq, Preempt(st, sq, pq, rq)
  PROVE  Obtains
  BY DispatchObtains DEF Preempt

\* The steps that leave the data of all services alone, and wake nobody.
Steady ==
  /\ Obtains /\ service_data' = service_data
  /\ publishing' = NoService \/ (publishing' = publishing /\ cur_task' = cur_task)
  /\ \/ service_queue' = service_queue
     \/ /\ publishing = NoService /\ cur_task \in Tasks
        /\ \E h \in Services :
             service_queue' = [service_queue EXCEPT ![h] = Append(@, cur_task)]

LEMMA SteadySteps ==
  ASSUME IInv, HeardInv,
         \/ OtherStep
         \/ \E per \in PeriodArgs, wc \in WcetArgs, st \in Word :
              Task_Create_Periodic(per, wc, st)
  PROVE  Steady \/ (WakeSubscriber /\ ~ \E code : Abort(code))
<1>1. CASE \E code : Abort(code)
  BY <1>1, NoneObtained DEF Abort, Steady, service_vars, publish_vars
<1>2. CASE TIMER_EXPIRED
  BY <1>1, <1>2, DispatchObtains DEF TIMER_EXPIRED, InCall, InTask, Steady, service_vars, publish_vars
<1>3. CASE Task_Create_System
  BY <1>1, <1>3, PreemptObtains DEF Task_Create_System, InCall, InTask, Steady, service_vars, publish_vars
<1>4. CASE Task_Create_RR
  BY <1>1, <1>4, DispatchObtains DEF Task_Create_RR, InCall, InTask, Steady, service_vars, publish_vars
<1>5. ASSUME NEW per \in PeriodArgs, NEW wc \in WcetArgs, NEW st \in Word,
             Task_Create_Periodic(per, wc, st)
      PROVE  Steady
  BY <1>1, <1>5, DispatchObtains, PreemptObtains
  DEF Task_Create_Periodic, InCall, InTask, Steady, service_vars, publish_vars
<1>6. CASE Task_Next \/ Task_Terminate
  BY <1>6, DispatchObtains DEF Task_Next, Task_Terminate, InCall, InTask, Steady,
      service_vars, publish_vars
<1>7. CASE OS_Abort \/ Service_Init \/ Aborted
  <2>1. \/ \E code : Abort(code)
        \/ UNCHANGED <<cur_task, resuming, received, service_queue, service_data, publishing>>
    BY <1>7 DEF OS_Abort, Service_Init, Aborted, vars, service_vars, publish_vars
  <2> QED  BY <1>1, <2>1, NoneObtained DEF Steady
<1>8. ASSUME NEW h \in Handles, Service_Subscribe(h) PROVE Steady
  <2>1. CASE InvalidHandle(h) \/ CurLevel = "PERIODIC"
    BY <1>1, <1>8, <2>1 DEF Service_Subscribe
  <2>2. CASE ~InvalidHandle(h) /\ CurLevel # "PERIODIC"
    <3>1. h \in Services /\ cur_task \in Tasks /\ publishing = NoService
      BY <1>8, <2>2, HandleLemma, CallerIsTask DEF Service_Subscribe
    <3>2. Obtains
      BY <1>8, <2>2, DispatchObtains DEF Service_Subscribe
    <3> QED  BY <1>8, <2>2, <3>1, <3>2 DEF Service_Subscribe, Steady, publish_vars
  <2> QED  BY <2>1, <2>2
<1>9. CASE EndPublish
  BY <1>1, <1>9, DispatchObtains, PreemptObtains DEF EndPublish, Steady, service_vars
<1> QED
  BY <1>1, <1>2, <1>3, <1>4, <1>5, <1>6, <1>7, <1>8, <1>9 DEF OtherStep

LEMMA SteadyHeard ==
  ASSUME IInv, HeardInv, Steady, Forget
  PROVE  HeardInv'
<1>1. /\ heard \in [Tasks -> Heard]
      /\ \A t \in Tasks : heard'[t] = IF cur_task' = t THEN <<>> ELSE heard[t]
      /\ heard' \in [Tasks -> Heard]
  BY DEF HeardInv, Forget, Heard
<1>2. ASSUME NEW t \in Tasks, NEW s \in Services, t # cur_task, t \in Range(service_queue'[s])
      PROVE  t \in Range(service_queue[s])
  <2>1. service_queue \in [Services -> Queue]
    BY IdleRunner
  <2>2. CASE service_queue' = service_queue
    BY <1>2, <2>2
  <2>3. ASSUME NEW h \in Services, cur_task \in Tasks,
               service_queue' = [service_queue EXCEPT ![h] = Append(@, cur_task)]
        PROVE  t \in Range(service_queue[s])
    <3>1. service_queue'[s] = IF s = h THEN Append(service_queue[s], cur_task)
                                       ELSE service_queue[s]
      BY <2>1, <2>3
    <3>2. service_queue[s] \in Queue
      BY <2>1
    <3>3. Range(Append(service_queue[s], cur_task)) = Range(service_queue[s]) \cup {cur_task}
      BY <2>3, <3>2, QueueEnds
    <3> QED  BY <1>2, <3>1, <3>3
  <2> QED  BY <2>2, <2>3 DEF Steady
<1>3. ASSUME NEW t \in Tasks, resuming'[t] # NoService
      PROVE  /\ t # cur_task'
             /\ \A s \in Services : t \notin Range(service_queue'[s])
             /\ UpToDate(t, resuming[t])' /\ resuming'[t] = resuming[t]
  <2>1. t # cur_task' /\ resuming'[t] = resuming[t] /\ resuming[t] # NoService
    BY <1>3 DEF Steady, Obtains
  <2>2. /\ t # cur_task /\ \A s \in Services : t \notin Range(service_queue[s])
        /\ heard[t] # <<>> /\ Last(heard[t]) = service_data[resuming[t]]
    BY <2>1 DEF HeardInv, UpToDate
  <2>3. heard'[t] = heard[t] /\ service_data' = service_data
    BY <1>1, <2>1 DEF Steady
  <2> QED  BY <1>2, <2>1, <2>2, <2>3 DEF UpToDate
<1>4. ASSUME publishing' # NoService, NEW t \in Range(service_queue'[publishing'])
      PROVE  UpToDate(t, publishing)'
  <2>1. /\ publishing' = publishing /\ publishing \in Services
        /\ service_queue' = service_queue /\ service_data' = service_data
    BY <1>4 DEF Steady, IInv, TypeOK
  <2>2. t \in Range(service_queue[publishing])
    BY <1>4, <2>1
  <2>3. t \in Tasks
    BY <2>1, <2>2, IdleRunner, QueueEnds
  <2>4. heard[t] # <<>> /\ Last(heard[t]) = service_data[publishing]
    BY <1>4, <2>1, <2>2 DEF HeardInv, UpToDate
  <2>5. t # cur_task'
    BY <1>4, <2>1, <2>2, <2>3, IdleRunner DEF Steady
  <2>6. heard'[t] = heard[t]
    BY <1>1, <2>3, <2>5
  <2> QED  BY <2>1, <2>4, <2>6 DEF UpToDate
<1> QED  BY <1>1, <1>3, <1>4 DEF HeardInv, UpToDate

LEMMA WakeHeard ==
  ASSUME IInv, HeardInv, WakeSubscriber, ~ \E code : Abort(code), Forget
  PROVE  HeardInv'
<1> DEFINE u   == Head(service_queue[publishing])
           old == service_queue[publishing]
<1>1. /\ service_queue' = [service_queue EXCEPT ![publishing] = Tail(@)]
      /\ resuming' = [resuming EXCEPT ![u] = publishing]
      /\ UNCHANGED <<cur_task, service_data, publishing>>
      /\ publishing # NoService /\ old # <<>>
  BY DEF WakeSubscriber, InPublish
<1>2. /\ publishing \in Services /\ service_queue \in [Services -> Queue]
      /\ resuming \in [Tasks -> Services \cup {NoService}]
      /\ \A s \in Services : IsInjective(service_queue[s])
      /\ \A r, s \in Services :
           r # s => Range(service_queue[r]) \cap Range(service_queue[s]) = {}
  BY <1>1, IdleRunner DEF IInv, TypeOK, DescriptorsAccounted
<1>3. /\ u \in Tasks /\ u \in Range(old) /\ u \notin Range(Tail(old))
      /\ Range(Tail(old)) \subseteq Range(old)
  <2>1. old \in Seq(Tasks) /\ Holds(old, Range(old))
    BY <1>2 DEF Queue, Holds
  <2> QED  BY <1>1, <2>1, TailHolds DEF Holds
<1>4. \A s \in Services : service_queue'[s] = IF s = publishing THEN Tail(old) ELSE service_queue[s]
  BY <1>1, <1>2
<1>5. /\ heard \in [Tasks -> Heard]
      /\ \A t \in Tasks : heard'[t] = IF cur_task = t THEN <<>> ELSE heard[t]
      /\ heard' \in [Tasks -> Heard]
  BY <1>1 DEF HeardInv, Forget, Heard
<1>6. \A t \in Range(old) : t \in Tasks /\ t # cur_task /\ UpToDate(t, publishing)
  <2>1. Range(old) \subseteq Tasks
    BY <1>2, QueueEnds
  <2> QED  BY <1>1, <1>2, <2>1, IdleRunner DEF HeardInv
<1> HIDE DEF u, old
<1>7. ASSUME NEW t \in Tasks, resuming'[t] # NoService
      PROVE  /\ t # cur_task'
             /\ \A s \in Services : t \notin Range(service_queue'[s])
             /\ UpToDate(t, resuming[t])'
  <2>1. CASE t = u
    <3>1. resuming'[t] = publishing /\ t # cur_task /\ UpToDate(t, publishing)
      BY <1>1, <1>2, <1>3, <1>6, <2>1
    <3>2. \A s \in Services : t \notin Range(service_queue'[s])
      BY <1>2, <1>3, <1>4, <2>1 DEF old
    <3> QED  BY <1>1, <1>5, <3>1, <3>2 DEF UpToDate
  <2>2. CASE t # u
    <3>1. resuming'[t] = resuming[t] /\ resuming[t] # NoService
      BY <1>1, <1>2, <1>7, <2>2
    <3>2. /\ t # cur_task /\ \A s \in Services : t \notin Range(service_queue[s])
          /\ UpToDate(t, resuming[t])
      BY <3>1 DEF HeardInv
    <3>3. \A s \in Services : t \notin Range(service_queue'[s])
      BY <1>2, <1>3, <1>4, <3>2 DEF old
    <3> QED  BY <1>1, <1>5, <3>1, <3>2, <3>3 DEF UpToDate
  <2> QED  BY <2>1, <2>2
<1>8. ASSUME NEW t \in Range(service_queue'[publishing']) PROVE UpToDate(t, publishing)'
  <2>1. t \in Range(old)
    BY <1>1, <1>2, <1>3, <1>4, <1>8
  <2> QED  BY <1>1, <1>5, <1>6, <2>1 DEF UpToDate
<1> QED  BY <1>5, <1>7, <1>8 DEF HeardInv

\* What a task has heard once v is published: v is the last of it.
LEMMA LastHeard ==
  ASSUME NEW s \in Heard, NEW v \in Values
  PROVE  /\ (IF s = <<>> THEN <<v>> ELSE <<s[1], v>>) \in Heard
         /\ (IF s = <<>> THEN <<v>> ELSE <<s[1], v>>) # <<>>
         /\ Last(IF s = <<>> THEN <<v>> ELSE <<s[1], v>>) = v
  BY DEF Heard, Last

LEMMA PublishHeard ==
  ASSUME IInv, HeardInv, NEW h \in Handles, NEW v \in Values, Service_Publish(h, v), Hear(h, v)
  PROVE  HeardInv'
<1>1. CASE InvalidHandle(h)
  <2>1. /\ UNCHANGED <<cur_task, resuming, service_queue, service_data, publishing>>
        /\ error_msg' = "INVALID_SERVICE_DESCRIPTOR"
    BY <1>1 DEF Service_Publish, Abort, service_vars, publish_vars
  <2>2. heard' = heard
    BY <2>1 DEF Hear, HeardInv
  <2> QED  BY <2>1, <2>2 DEF HeardInv, UpToDate
<1>2. CASE ~InvalidHandle(h)
  <2>1. /\ service_data' = [service_data EXCEPT ![h] = v] /\ publishing' = h
        /\ UNCHANGED <<cur_task, resuming, service_queue>> /\ error_msg' = "NONE"
        /\ h \in Services /\ service_data \in [Services -> Values]
    BY <1>2, HandleLemma DEF Service_Publish, Record, InTask, IInv, TypeOK
  <2>2. \A s \in Services : service_data'[s] = IF s = h THEN v ELSE service_data[s]
    BY <2>1
  <2>3. heard \in [Tasks -> Heard]
    BY DEF HeardInv
  <2>4. \A t \in Tasks : heard'[t] =
          IF resuming[t] = h \/ t \in Range(service_queue[h])
          THEN IF heard[t] = <<>> THEN <<v>> ELSE <<heard[t][1], v>>
          ELSE heard[t]
    BY <2>1 DEF Hear
  <2>5. heard' \in [Tasks -> Heard]
    <3>1. heard' = [t \in Tasks |-> heard'[t]]
      BY DEF Hear
    <3>2. \A t \in Tasks : heard'[t] \in Heard
      BY <2>3, <2>4, LastHeard
    <3> QED  BY <3>1, <3>2
  <2>6. ASSUME NEW t \in Tasks, resuming[t] = h \/ t \in Range(service_queue[h])
        PROVE  heard'[t] # <<>> /\ Last(heard'[t]) = service_data'[h]
    <3>1. heard[t] \in Heard /\ service_data'[h] = v
      BY <2>1, <2>2, <2>3
    <3>2. heard'[t] = IF heard[t] = <<>> THEN <<v>> ELSE <<heard[t][1], v>>
      BY <2>4, <2>6
    <3>3. /\ (IF heard[t] = <<>> THEN <<v>> ELSE <<heard[t][1], v>>) # <<>>
          /\ Last(IF heard[t] = <<>> THEN <<v>> ELSE <<heard[t][1], v>>) = v
      BY <3>1, LastHeard
    <3> QED  BY <3>1, <3>2, <3>3
  <2>7. ASSUME NEW t \in Tasks, resuming[t] # NoService
        PROVE  /\ t # cur_task /\ \A s \in Services : t \notin Range(service_queue[s])
               /\ heard'[t] # <<>> /\ Last(heard'[t]) = service_data'[resuming[t]]
    <3>1. /\ t # cur_task /\ \A s \in Services : t \notin Range(service_queue[s])
          /\ heard[t] # <<>> /\ Last(heard[t]) = service_data[resuming[t]]
          /\ resuming[t] \in Services
      BY <2>7 DEF HeardInv, UpToDate, IInv, TypeOK
    <3>2. CASE resuming[t] = h
      BY <2>6, <3>1, <3>2
    <3>3. CASE resuming[t] # h
      BY <2>1, <2>2, <2>4, <3>1, <3>3
    <3> QED  BY <3>2, <3>3
  <2>8. Range(service_queue[h]) \subseteq Tasks
    BY <2>1, IdleRunner, QueueEnds
  <2> QED  BY <2>1, <2>5, <2>6, <2>7, <2>8 DEF HeardInv, UpToDate
<1> QED  BY <1>1, <1>2

-----------------------------------------------------------------------------
(* The history variables: the ticks since a periodic task's start.         *)

\* What is known of the timing of a periodic task.
LEMMA PeriodicTiming ==
  ASSUME IInv, NEW t \in Periodics
  PROVE  /\ t \in Tasks /\ WORD \in Nat /\ WORD > 1
         /\ period[t] \in Nat /\ period[t] > 0 /\ counter[t] \in Nat /\ counter[t] > 0
         /\ level[t] = "PERIODIC"
         /\ Inc(ticks_since_boot) # ticks_since_boot
<1>1. /\ t \in Tasks /\ counter[t] \in Word /\ counter[t] > 0 /\ period[t] \in Word
      /\ wcet_counter[t] \in Word /\ wcet[t] \in Word /\ level[t] = "PERIODIC"
      /\ 0 < wcet_counter[t] /\ wcet_counter[t] <= wcet[t] /\ wcet[t] <= period[t]
      /\ ticks_since_boot \in Word
  BY DEF IInv, TypeOK, CountersNeverWrap, SlotsMatchTasks, Periodics
<1>2. WORD \in Nat /\ WORD > 1 /\ period[t] \in Nat /\ period[t] > 0 /\ counter[t] \in Nat
  BY <1>1, KernelAssumption DEF Word
<1>3. Inc(ticks_since_boot) # ticks_since_boot
  BY <1>1, <1>2 DEF Inc, Word
<1> QED  BY <1>1, <1>2, <1>3

\* A step that neither ticks nor creates a periodic task leaves the timing of
\* the others alone, and none of them is released.
Untimed ==
  /\ Periodics' \subseteq Periodics
  /\ UNCHANGED <<period, counter, ticks_since_boot>>

LEMMA UntimedSteps ==
  ASSUME IInv, OtherStep
  PROVE  Untimed \/ (TIMER_EXPIRED /\ ~ \E code : Abort(code))
<1>1. CASE UNCHANGED <<periodic_vars, ticks_since_boot>>
  BY <1>1 DEF Untimed, Periodics, periodic_vars, periodic_args
<1>2. CASE \E code : Abort(code)
  BY <1>1, <1>2 DEF Abort
<1>3. CASE Task_Terminate
  <2>1. periodic_tasks' = WithoutTask(cur_task) /\ UNCHANGED <<period, counter, ticks_since_boot>>
    BY <1>3 DEF Task_Terminate, periodic_args
  <2> QED  BY <2>1, IdleNotTask DEF Untimed, Periodics, WithoutTask, IInv, TypeOK
<1>4. CASE Task_Create_System \/ Task_Create_RR \/ Task_Next
  BY <1>1, <1>2, <1>4 DEF Task_Create_System, Task_Create_RR, Task_Next
<1>5. CASE OS_Abort \/ Service_Init \/ Aborted
  BY <1>1, <1>2, <1>5 DEF OS_Abort, Service_Init, Aborted, vars
<1>6. CASE \E h \in Handles : Service_Subscribe(h)
  BY <1>1, <1>2, <1>6 DEF Service_Subscribe
<1>7. CASE WakeSubscriber \/ EndPublish
  BY <1>1, <1>2, <1>7 DEF WakeSubscriber, EndPublish
<1> QED
  BY <1>2, <1>3, <1>4, <1>5, <1>6, <1>7 DEF OtherStep

LEMMA UntimedIdle ==
  ASSUME IInv, IInv', Class, Untimed, NEW t \in Periodics'
  PROVE  t \in Periodics /\ ~Ticked /\ ~Activated(t)
<1>1. t \in Periodics /\ t \in Tasks /\ level'[t] = "PERIODIC" /\ ~Ticked
  BY DEF Untimed, Periodics, Ticked, IInv, SlotsMatchTasks
<1>2. ~Starts(t)
  BY <1>1, PeriodicTiming DEF Starts, Untimed
<1> QED  BY <1>1, <1>2, ActivatedStarts

LEMMA UntimedAge ==
  ASSUME AgeInv, Untimed, Grow \/ age' = age
  PROVE  AgeInv'
<1>1. \A t \in Tasks : age'[t] \in {0, age[t]} /\ (t \in Periodics' => age'[t] = age[t])
  BY DEF AgeInv, Untimed, Grow, Ticked
<1>2. age' \in [Tasks -> Int]
  BY <1>1 DEF AgeInv, Grow
<1> QED  BY <1>1, <1>2 DEF AgeInv, Untimed, Periodics

\* A tick releases the tasks that it makes 0 ticks old.
LEMMA TickAge ==
  ASSUME IInv, AgeInv, TIMER_EXPIRED, ~ \E code : Abort(code), Grow
  PROVE  /\ AgeInv' /\ Periodics' = Periodics
         /\ \A t \in Periodics : Ticked /\ (t \in Released <=> age'[t] = 0)
<1>1. /\ ticks_since_boot' = Inc(ticks_since_boot) /\ UNCHANGED <<periodic_tasks, period>>
      /\ counter' = [t \in Tasks |-> CounterAfterTick(t)]
  BY DEF TIMER_EXPIRED, periodic_args
<1>2. Periodics' = Periodics
  BY <1>1 DEF Periodics
<1>3. ASSUME NEW t \in Periodics
      PROVE  /\ Ticked /\ age'[t] \in Int /\ (t \in Released <=> age'[t] = 0)
             /\ age'[t] < period'[t]
             /\ counter'[t] = (IF age'[t] < 0 THEN 0 ELSE period'[t]) - age'[t]
  <2> DEFINE a == age[t]
             c == counter[t]
             p == period[t]
  <2>1. /\ t \in Tasks /\ p \in Nat /\ p > 0 /\ c \in Nat /\ c > 0 /\ Ticked
    BY <1>1, PeriodicTiming DEF Ticked
  <2>2. a \in Int /\ a < p /\ c = (IF a < 0 THEN 0 ELSE p) - a
    BY <2>1 DEF AgeInv
  <2>3. age'[t] = IF a + 1 = p THEN 0 ELSE a + 1
    BY <1>2, <2>1 DEF Grow
  <2>4. Dec(c) = c - 1 /\ (t \in Released <=> c = 1)
    BY <2>1 DEF Dec, Released
  <2>5. counter'[t] = (IF c = 1 THEN p ELSE c - 1) /\ period'[t] = p
    BY <1>1, <2>1, <2>4 DEF CounterAfterTick
  <2> HIDE DEF a, c, p
  <2> QED  BY <2>1, <2>2, <2>3, <2>4, <2>5
<1>4. age' \in [Tasks -> Int]
  <2>1. \A t \in Tasks : age'[t] \in Int
    BY <1>2, <1>3 DEF Grow
  <2> QED  BY <2>1 DEF Grow
<1> QED  BY <1>2, <1>3, <1>4 DEF AgeInv

LEMMA OtherAge ==
  ASSUME IInv, AgeInv, OtherStep, Grow
  PROVE  AgeInv'
  BY UntimedSteps, UntimedAge, TickAge

\* What a creation that does not abort does; the new task is released at once
\* if its start is now.
LEMMA CreateTiming ==
  ASSUME IInv, NEW per \in PeriodArgs, NEW wc \in WcetArgs, NEW st \in Word,
         Task_Create_Periodic(per, wc, st), ~ \E code : Abort(code)
  PROVE  \E p \in Tasks :
           /\ p \notin Periodics /\ Periodics' = Periodics \cup {p}
           /\ period' = [period EXCEPT ![p] = per] /\ per \in Nat /\ per > 0
           /\ counter' = [counter EXCEPT ![p] =
                IF st = ticks_since_boot THEN per ELSE st - ticks_since_boot]
           /\ ticks_since_boot' = ticks_since_boot
           /\ ticks_since_boot \in Nat /\ st \in Nat /\ ticks_since_boot <= st
           /\ Activated(p) <=> st = ticks_since_boot
<1> DEFINE p   == Head(dead_pool_queue)
           now == st = ticks_since_boot
           x   == IF now THEN "READY" ELSE "WAITING"
           pq  == IF now THEN Append(periodic_queue, p) ELSE periodic_queue
           st2 == [state EXCEPT ![p] = x]
<1>1. /\ dead_pool_queue # <<>> /\ SetTiming(p, per, wc, st) /\ Claim(p, "PERIODIC")
      /\ ~InvalidTiming(per, wc) /\ ~(st < ticks_since_boot)
      /\ ticks_since_boot' = ticks_since_boot
      /\ IF CurLevel = "RR" /\ now
         THEN Preempt(st2, system_queue, pq, rr_queue)
         ELSE Dispatch(st2, system_queue, pq, rr_queue)
  BY DEF Task_Create_Periodic
<1>2. cur_task \in Tasks
  BY CallerIsTask DEF Task_Create_Periodic
<1>3. /\ p \in Tasks /\ state[p] = "DEAD" /\ p # cur_task /\ p \notin Range(periodic_queue)
      /\ st2[cur_task] = "RUNNING"
  BY <1>1, <1>2, NewTask
<1>4. TimingInv
  BY Parts
<1>5. p \notin Periodics
  BY <1>3 DEF IInv, SlotsMatchTasks
<1>6. Periodics' = Periodics \cup {p}
  BY <1>1, <1>3, <1>4, <1>5, SetTimingLemma
<1>7. /\ ticks_since_boot \in Nat /\ st \in Nat /\ ticks_since_boot <= st
      /\ per \in Nat /\ per > 0
  <2>1. ticks_since_boot \in Word /\ st \in Word /\ per \in Word
    BY <1>4, KernelAssumption DEF TimingInv, Word
  <2>2. ~(per <= 0) /\ ~(st < ticks_since_boot)
    BY <1>1 DEF InvalidTiming
  <2> QED  BY <2>1, <2>2, KernelAssumption DEF Word
<1>8. periodic_queue \in Queue /\ Append(periodic_queue, p) \in Queue
      /\ Range(Append(periodic_queue, p)) = Range(periodic_queue) \cup {p}
  BY <1>3, QueuesNow, QueueEnds DEF Sorted
<1> HIDE DEF p, st2
<1>9. Activated(p) <=> now
  <2>1. CASE CurLevel = "RR" /\ now
    <3>1. system_queue = <<>> /\ periodic_queue = <<>>
      BY <2>1, QueuesNow, CallerIsTask DEF Task_Create_Periodic
    <3>2. pq = Append(<<>>, p) /\ pq # <<>> /\ Head(pq) = p /\ Range(pq) = {p}
      <4>1. Range(Append(<<>>, p)) = {p} /\ Append(<<>>, p) \in Queue
        BY <1>3, Singleton
      <4>2. Append(<<>>, p) # <<>>
        BY <4>1, EmptyQueue
      <4>3. Head(Append(<<>>, p)) \in Range(Append(<<>>, p))
        BY <4>1, <4>2, QueueEnds
      <4> QED  BY <2>1, <3>1, <4>1, <4>2, <4>3
    <3>3. Dispatch([st2 EXCEPT ![cur_task] = "READY"], <<>>, pq, Cons(cur_task, rr_queue))
      BY <1>1, <2>1, <3>1 DEF Preempt
    <3> HIDE DEF pq
    <3>4. periodic_queue' = pq \/ cur_task' = p
      BY <3>2, <3>3 DEF Dispatch, Ready, SwitchTo
    <3> QED  BY <1>3, <2>1, <3>2, <3>4 DEF Activated
  <2>2. CASE ~(CurLevel = "RR" /\ now)
    <3>1. Dispatch(st2, system_queue, pq, rr_queue)
      BY <1>1, <2>2
    <3> HIDE DEF pq
    <3>2. cur_task' = cur_task /\ periodic_queue' = pq
      BY <1>2, <1>3, <3>1, IdleNotTask DEF Dispatch, Ready
    <3> USE DEF pq
    <3> QED  BY <1>3, <1>8, <3>2 DEF Activated
  <2> QED  BY <2>1, <2>2
<1> QED  BY <1>1, <1>3, <1>5, <1>6, <1>7, <1>9 DEF SetTiming

LEMMA CreateAge ==
  ASSUME IInv, IInv', AgeInv,
         NEW per \in PeriodArgs, NEW wc \in WcetArgs, NEW st \in Word,
         Task_Create_Periodic(per, wc, st), Begin(st)
  PROVE  AgeInv'
<1>1. CASE \E code : Abort(code)
  <2>1. Untimed /\ Periodics' = Periodics
    BY <1>1 DEF Abort, Untimed, Periodics, periodic_vars, periodic_args
  <2>2. age' = age
    BY <2>1 DEF Begin, AgeInv
  <2> QED  BY <2>1, <2>2, UntimedAge
<1>2. CASE ~ \E code : Abort(code)
  <2>1. PICK p \in Tasks :
          /\ p \notin Periodics /\ Periodics' = Periodics \cup {p}
          /\ period' = [period EXCEPT ![p] = per] /\ per \in Nat /\ per > 0
          /\ counter' = [counter EXCEPT ![p] =
               IF st = ticks_since_boot THEN per ELSE st - ticks_since_boot]
          /\ ticks_since_boot \in Nat /\ st \in Nat /\ ticks_since_boot <= st
    BY <1>2, CreateTiming
  <2>2. /\ period \in [Tasks -> Word] /\ counter \in [Tasks -> Word]
        /\ age \in [Tasks -> Int]
    BY DEF IInv, TypeOK, AgeInv
  <2>3. \A t \in Tasks : age'[t] = IF t = p THEN ticks_since_boot - st ELSE age[t]
    BY <2>1 DEF Begin
  <2>4. age' \in [Tasks -> Int]
    <3>1. \A t \in Tasks : age'[t] \in Int
      BY <2>1, <2>2, <2>3
    <3> QED  BY <3>1 DEF Begin
  <2>5. ASSUME NEW t \in Periodics'
        PROVE  /\ age'[t] < period'[t]
               /\ counter'[t] = (IF age'[t] < 0 THEN 0 ELSE period'[t]) - age'[t]
    <3>1. CASE t = p
      BY <2>1, <2>2, <2>3, <3>1
    <3>2. CASE t # p
      <4>1. t \in Periodics /\ t \in Tasks
        BY <2>1, <3>2 DEF Periodics
      <4>2. age'[t] = age[t] /\ period'[t] = period[t] /\ counter'[t] = counter[t]
        BY <2>1, <2>2, <2>3, <3>2, <4>1
      <4> QED  BY <4>1, <4>2 DEF AgeInv
    <3> QED  BY <3>1, <3>2
  <2> QED  BY <2>4, <2>5 DEF AgeInv
<1> QED  BY <1>1, <1>2

-----------------------------------------------------------------------------
(* The theorems about the history variables.                               *)

LEMMA HInitInv == HInit => HInv
<1> SUFFICES ASSUME HInit PROVE HInv
  OBVIOUS
<1>1. IInv
  BY InitInv DEF HInit
<1>2. Periodics = {}
  BY IdleNotTask DEF HInit, Init, Periodics
<1>3. RanInv /\ AgeInv
  BY <1>2 DEF HInit, RanInv, AgeInv
<1>4. HeardInv
  BY DEF HInit, Init, HeardInv, Heard
<1> QED  BY <1>1, <1>3, <1>4 DEF HInv

LEMMA HNextInv == HInv /\ [HNext]_hvars => HInv'
<1> SUFFICES ASSUME HInv, [HNext]_hvars PROVE HInv'
  OBVIOUS
<1>0. IInv /\ HeardInv /\ RanInv /\ AgeInv
  BY DEF HInv
<1>1. [Next]_vars
  BY DEF HNext, Next, hvars
<1>2. IInv'
  BY <1>0, <1>1, NextInv
<1>3. CASE UNCHANGED hvars
  <2>1. UNCHANGED <<heard, ran, age, cur_task, resuming, service_queue, service_data,
                    publishing, periodic_tasks, wcet, wcet_counter, period, counter>>
    BY <1>3 DEF hvars, vars, periodic_vars, periodic_args, service_vars, publish_vars
  <2>2. HeardInv'
    BY <1>0, <2>1 DEF HeardInv, UpToDate
  <2>3. RanInv' /\ AgeInv'
    BY <1>0, <2>1 DEF RanInv, AgeInv, Periodics
  <2> QED  BY <1>2, <2>2, <2>3 DEF HInv
<1>4. CASE OtherStep /\ Forget /\ Count /\ Grow
  <2>1. RanInv'
    BY <1>0, <1>2, <1>4, OtherRan
  <2>2. HeardInv'
    BY <1>0, <1>4, SteadySteps, SteadyHeard, WakeHeard
  <2>3. AgeInv'
    BY <1>0, <1>2, <1>4, OtherAge
  <2> QED  BY <1>2, <2>1, <2>2, <2>3 DEF HInv
<1>5. ASSUME NEW per \in PeriodArgs, NEW wc \in WcetArgs, NEW st \in Word,
             Task_Create_Periodic(per, wc, st), Forget, Count, Begin(st)
      PROVE  HInv'
  <2>1. RanInv'
    BY <1>0, <1>2, <1>5, CreateRan
  <2>2. HeardInv'
    <3>1. ~WakeSubscriber
      BY <1>5, CallerIsTask, <1>0 DEF WakeSubscriber, InPublish, Task_Create_Periodic
    <3> QED  BY <1>0, <1>5, <3>1, SteadySteps, SteadyHeard
  <2>3. AgeInv'
    BY <1>0, <1>2, <1>5, CreateAge
  <2> QED  BY <1>2, <2>1, <2>2, <2>3 DEF HInv
<1>6. ASSUME NEW h \in Handles, NEW v \in Values,
             Service_Publish(h, v), Hear(h, v), ran' = ran, age' = age
      PROVE  HInv'
  <2>1. HeardInv'
    BY <1>0, <1>6, PublishHeard
  <2>2. UNCHANGED <<periodic_tasks, wcet, wcet_counter, period, counter>>
    BY <1>6 DEF Service_Publish, Abort, periodic_vars, periodic_args
  <2>3. RanInv' /\ AgeInv'
    BY <1>0, <1>6, <2>2 DEF RanInv, AgeInv, Periodics
  <2> QED  BY <1>2, <2>1, <2>3 DEF HInv
<1> QED  BY <1>3, <1>4, <1>5, <1>6 DEF HNext

\* The history variables agree with the kernel's counters and service data.
THEOREM HistoryInvariance == HSpec => []HInv
<1> QED  BY HInitInv, HNextInv, PTL DEF HSpec

\* A periodic task executes for fewer ticks than its WCET in each release.
THEOREM OverrunsAreCaught == HSpec => []OverrunCaught
<1>1. HInv => OverrunCaught
  <2> SUFFICES ASSUME HInv, NEW t \in Periodics PROVE ran[t] < wcet[t]
    BY DEF OverrunCaught
  <2>1. t \in Tasks /\ ran[t] \in Nat /\ ran[t] + wcet_counter[t] = wcet[t]
    BY DEF HInv, RanInv, Periodics
  <2>2. wcet[t] \in Int /\ wcet_counter[t] \in Int /\ wcet_counter[t] > 0
    BY <2>1, KernelAssumption DEF HInv, IInv, TypeOK, CountersNeverWrap, Word
  <2> QED  BY <2>1, <2>2
<1> QED  BY <1>1, HistoryInvariance, PTL

\* A subscriber obtains the value published last on its service, and one that
\* was published after it subscribed.
THEOREM SubscribersAreUpToDate == HSpec => DeliveredIsLatest
<1> DEFINE A == \A t \in Tasks : Returns(t) =>
                  heard[t] # <<>> /\ received'[t] = Last(heard[t])
<1>1. HInv /\ [HNext]_hvars => [A]_hvars
  <2> SUFFICES ASSUME HInv, HNext, NEW t \in Tasks, Returns(t)
               PROVE  heard[t] # <<>> /\ received'[t] = Last(heard[t])
    OBVIOUS
  <2>1. IInv /\ HeardInv /\ resuming[t] # NoService /\ resuming'[t] = NoService
    BY DEF HInv, Returns
  <2>2. heard[t] # <<>> /\ Last(heard[t]) = service_data[resuming[t]]
    BY <2>1 DEF HeardInv, UpToDate
  <2>3. CASE Steady
    BY <2>1, <2>2, <2>3 DEF Steady, Obtains
  <2>4. CASE WakeSubscriber
    <3>1. \/ resuming' = resuming
          \/ /\ resuming' = [resuming EXCEPT ![Head(service_queue[publishing])] = publishing]
             /\ publishing # NoService
      BY <2>4 DEF WakeSubscriber, InPublish, Abort
    <3> QED  BY <2>1, <3>1 DEF IInv, TypeOK
  <2>5. ASSUME NEW h \in Handles, NEW v \in Values, Service_Publish(h, v) PROVE FALSE
    BY <2>1, <2>5 DEF Service_Publish, Abort
  <2> QED  BY <2>1, <2>3, <2>4, <2>5, SteadySteps DEF HNext
<1> QED  BY <1>1, HistoryInvariance, PTL DEF HSpec, DeliveredIsLatest

\* A periodic task is released at its start and every period ticks after it, and
\* at no other tick, for every period and across every wrap of the tick counter.
THEOREM PhasesKept == HSpec => PhaseKept
<1> DEFINE A == \A t \in Periodics' :
                  Activated(t) <=> (Ticked \/ t \notin Periodics) /\ age'[t] = 0
<1>1. HInv /\ [HNext]_hvars => [A]_hvars
  <2> SUFFICES ASSUME HInv, HNext, NEW t \in Periodics'
               PROVE  Activated(t) <=> (Ticked \/ t \notin Periodics) /\ age'[t] = 0
    OBVIOUS
  <2>1. IInv /\ AgeInv /\ Class /\ IInv'
    BY HNextInv, StepClass DEF HInv, HNext, Next
  <2>2. CASE Untimed
    BY <2>1, <2>2, UntimedIdle
  <2>3. CASE TIMER_EXPIRED /\ ~(\E code : Abort(code)) /\ Grow
    <3>1. t \in Periodics /\ Ticked /\ (t \in Released <=> age'[t] = 0)
      BY <2>1, <2>3, TickAge
    <3>2. t \in Tasks /\ level'[t] = "PERIODIC"
      BY <2>1 DEF IInv, SlotsMatchTasks, Periodics
    <3>3. Activated(t) => t \in Released
      BY <2>1, <3>1, <3>2, ActivatedStarts DEF Starts
    <3>4. t \in Released => Activated(t)
      BY <2>1, <2>3, ReleasedActivated
    <3> QED  BY <3>1, <3>3, <3>4
  <2>4. ASSUME NEW per \in PeriodArgs, NEW wc \in WcetArgs, NEW st \in Word,
               Task_Create_Periodic(per, wc, st), Begin(st), ~ \E code : Abort(code)
        PROVE  Activated(t) <=> (Ticked \/ t \notin Periodics) /\ age'[t] = 0
    <3>1. PICK p \in Tasks :
            /\ p \notin Periodics /\ Periodics' = Periodics \cup {p}
            /\ ticks_since_boot' = ticks_since_boot
            /\ ticks_since_boot \in Nat /\ st \in Nat
            /\ Activated(p) <=> st = ticks_since_boot
      BY <2>1, <2>4, CreateTiming
    <3>2. CASE t = p
      <4>1. age'[p] = ticks_since_boot - st
        BY <2>4, <3>1 DEF Begin
      <4> QED  BY <3>1, <3>2, <4>1
    <3>3. CASE t # p
      <4>1. t \in Periodics /\ t \in Tasks /\ level'[t] = "PERIODIC" /\ ~Ticked
        BY <2>1, <3>1, <3>3 DEF IInv, SlotsMatchTasks, Periodics, Ticked
      <4>2. ~Starts(t)
        BY <2>1, <3>1, <4>1, PeriodicTiming DEF Starts
      <4> QED  BY <2>1, <4>1, <4>2, ActivatedStarts
    <3> QED  BY <3>2, <3>3
  <2>5. ASSUME NEW code, Abort(code) PROVE Untimed
    BY <2>5 DEF Abort, Untimed, Periodics, periodic_vars, periodic_args
  <2>6. ASSUME NEW h \in Handles, NEW v \in Values, Service_Publish(h, v) PROVE Untimed
    BY <2>5, <2>6 DEF Service_Publish, Untimed, Periodics, periodic_vars, periodic_args
  <2> QED  BY <2>1, <2>2, <2>3, <2>4, <2>5, <2>6, UntimedSteps DEF HNext
<1> QED  BY <1>1, HistoryInvariance, PTL DEF HSpec, PhaseKept

=============================================================================
