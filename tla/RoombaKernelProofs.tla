------------------------- MODULE RoombaKernelProofs -------------------------
(***************************************************************************)
(* Proofs about RoombaKernel and RoombaKernelHistory, for every number of  *)
(* descriptors, metadata blocks and services, every word size and all      *)
(* timing parameters.  A request leaves task states and queues that hold   *)
(* every descriptor and every block once (TasksIn, BlocksIn); the dispatcher*)
(* keeps them so.  The class of a step tells what the dispatcher picks, from*)
(* which the rules of the queues follow; that the most urgent ready task   *)
(* runs also needs the release queue ordered, at every tick.               *)
(***************************************************************************)
EXTENDS RoombaKernelHistory, KernelLemmas

-----------------------------------------------------------------------------
(* The invariant, for the task states and queues that a request leaves.    *)

States == {"DEAD", "RUNNING", "READY", "WAITING"}
Levels == {SYSTEM, PERIODIC, ROUND_ROBIN}
Blocks == [task : Tasks \cup {NULL}, period : Word, wcet : Word, next : Word]

TasksTyped(st, sq, rq) ==
  st \in [Tasks -> States] /\ sq \in Seq(Tasks) /\ rq \in Seq(Tasks)

\* The tasks of level l in state x.
InState(st, pr, l, x) == {t \in Tasks : pr[t] = l /\ st[t] = x}

TasksIn(st, pr, dq, sq, rq, svq) ==
  /\ Holds(dq, {t \in Tasks : st[t] = "DEAD"})
  /\ Holds(sq, InState(st, pr, SYSTEM, "READY"))
  /\ Holds(rq, InState(st, pr, ROUND_ROBIN, "READY"))
  /\ InState(st, pr, PERIODIC, "WAITING") = {}
  /\ \A s \in Services : IsInjective(svq[s])
  /\ \A r, s \in Services : r # s => Range(svq[r]) \cap Range(svq[s]) = {}
  /\ \A t \in Tasks : st[t] = "WAITING" <=> \E s \in Services : t \in Range(svq[s])

BlocksIn(st, pr, pd, mt, pq, bq) ==
  /\ Holds(bq, {m \in Metas : mt[m].task = NULL})
  /\ IsInjective(pq)
  /\ \A m \in Range(pq) : mt[m].task # NULL
  /\ \A m \in Metas : mt[m].task # NULL =>
       /\ pd[mt[m].task] = m /\ pr[mt[m].task] = PERIODIC
       /\ st[mt[m].task] = IF m \in Range(pq) THEN "READY" ELSE "RUNNING"
  /\ \A t \in Tasks : pr[t] = PERIODIC /\ st[t] # "DEAD" =>
       pd[t] # NULL /\ mt[pd[t]].task = t

\* The ticks r are within the budget of the periodic task on the processor.
Within(c, pr, mt, cur, r) ==
  c # Idle /\ pr[c] = PERIODIC /\ mt[cur].wcet > 0 => r \in 1 .. mt[cur].wcet

\* The part of the state that the dispatcher does not change.
Untouched ==
  /\ priority \in [Tasks -> Levels]
  /\ periodic_desc \in [Tasks -> Metas \cup {NULL}]
  /\ dead_pool_queue \in Seq(Tasks)
  /\ periodic_dead_pool_queue \in Seq(Metas)
  /\ meta \in [Metas -> Blocks]
  /\ kernel_period_create_meta \in [period : Word, next : Word, wcet : Word]
  /\ creating \in [Tasks -> [stage : 0 .. 3, period : Word, next : Word, wcet : Word]]
  /\ service_queue \in [Services -> Seq(Tasks)]
  /\ num_services \in 0 .. MAXSERVICES
  /\ ticks_from_start \in Word

\* The part that it does.
Dispatched ==
  /\ cur_task \in Tasks \cup {Idle}
  /\ TasksTyped(state, system_task_queue, roundrobin_task_queue)
  /\ periodic_task_queue \in Seq(Metas)
  /\ cur_per_metadata \in Metas \cup {NULL}
  /\ periodic_task_remticks \in Word
  /\ kernel_preemption_disabled \in BOOLEAN
  /\ error_msg \in Errors
  /\ Within(cur_task, priority, meta, cur_per_metadata, periodic_task_remticks)
  /\ error_msg = "NONE" =>
       /\ \A t \in Tasks : state[t] = "RUNNING" <=> cur_task = t
       /\ TasksIn(state, priority, dead_pool_queue, system_task_queue,
                  roundrobin_task_queue, service_queue)
       /\ BlocksIn(state, priority, periodic_desc, meta, periodic_task_queue,
                   periodic_dead_pool_queue)
       /\ CurPriority = PERIODIC => cur_per_metadata = periodic_desc[cur_task]

LEMMA Constants ==
  /\ MAXPROCESS \in Nat \ {0} /\ Idle \notin Tasks /\ NULL \notin Tasks /\ NULL \notin Metas
  /\ MAXPERIODICPRO \in Nat \ {0} /\ WORD \in Nat \ {0} /\ NULL \notin Services
  /\ SYSTEM = 0 /\ PERIODIC = 1 /\ ROUND_ROBIN = 2 /\ IDLE = -1 /\ NULL = 0
  /\ "NONE" \in Errors
  BY RoombaKernelAssumption
  DEF RoombaKernelAssumption, Tasks, Idle, Metas, Services, NULL, SYSTEM, PERIODIC,
      ROUND_ROBIN, IDLE, Errors

LEMMA Parts == IInv <=> Untouched /\ Dispatched
<1> DEFINE Waiting == UNION {Range(service_queue[s]) : s \in Services}
<1>1. TypeOK <=> /\ Untouched /\ cur_task \in Tasks \cup {Idle}
                 /\ TasksTyped(state, system_task_queue, roundrobin_task_queue)
                 /\ periodic_task_queue \in Seq(Metas)
                 /\ cur_per_metadata \in Metas \cup {NULL}
                 /\ periodic_task_remticks \in Word
                 /\ kernel_preemption_disabled \in BOOLEAN /\ error_msg \in Errors
  BY DEF TypeOK, Untouched, TasksTyped, States, Levels, Blocks
<1>2. RemticksNeverWrap <=>
        Within(cur_task, priority, meta, cur_per_metadata, periodic_task_remticks)
  BY Constants DEF RemticksNeverWrap, Within, CurPriority
<1>3. ASSUME TypeOK
      PROVE  {t \in Tasks : state[t] = "WAITING"} = Waiting
               <=> \A t \in Tasks : state[t] = "WAITING"
                                      <=> \E s \in Services : t \in Range(service_queue[s])
  <2>1. \A s \in Services : Range(service_queue[s]) \subseteq Tasks
    BY <1>3, SeqEnds DEF TypeOK
  <2>2. \A t : t \in Waiting <=> \E s \in Services : t \in Range(service_queue[s])
    OBVIOUS
  <2> HIDE DEF Waiting
  <2> QED  BY <2>1, <2>2
<1>4. \A l, x : At(l, x) = InState(state, priority, l, x)
  BY DEF At, InState
<1>5. ASSUME TypeOK
      PROVE  TasksAccounted <=>
               (error_msg = "NONE" =>
                  /\ \A t \in Tasks : state[t] = "RUNNING" <=> cur_task = t
                  /\ TasksIn(state, priority, dead_pool_queue, system_task_queue,
                             roundrobin_task_queue, service_queue))
  BY <1>3, <1>4, <1>5 DEF TasksAccounted, TasksIn
<1>6. ASSUME TypeOK
      PROVE  BlocksAccounted /\ QueuedInUse <=>
               (error_msg = "NONE" =>
                  /\ BlocksIn(state, priority, periodic_desc, meta, periodic_task_queue,
                              periodic_dead_pool_queue)
                  /\ CurPriority = PERIODIC => cur_per_metadata = periodic_desc[cur_task])
  <2>1. ASSUME NEW m \in Metas, meta[m].task # NULL
        PROVE  meta[m].task \in At(PERIODIC, IF m \in Range(periodic_task_queue)
                                             THEN "READY" ELSE "RUNNING")
                 <=> /\ priority[meta[m].task] = PERIODIC
                     /\ state[meta[m].task] = IF m \in Range(periodic_task_queue)
                                              THEN "READY" ELSE "RUNNING"
    <3>1. meta[m].task \in Tasks
      BY <1>6, <2>1 DEF TypeOK
    <3> QED  BY <3>1 DEF At
  <2> QED
    BY <2>1 DEF BlocksAccounted, QueuedInUse, BlocksIn
<1>7. TasksAccounted => TypeOK
  BY DEF TasksAccounted
<1> QED
  BY <1>1, <1>2, <1>5, <1>6, <1>7 DEF IInv, Dispatched

LEMMA PartsNext == Untouched' /\ Dispatched' => IInv'
  BY Parts, PTL

-----------------------------------------------------------------------------
(* The dispatcher.                                                         *)

\* What a request guarantees when it ends: the data it leaves, and the task
\* states, ready queues and budget that it hands to the dispatcher.
Requested(st, sq, pq, rq, rem) ==
  /\ cur_task \in Tasks \cup {Idle} /\ cur_per_metadata \in Metas \cup {NULL}
  /\ periodic_task_remticks \in Word /\ rem \in Word /\ error_msg = "NONE"
  /\ TasksTyped(st, sq, rq) /\ pq \in Seq(Metas)
  /\ \A t \in Tasks : st[t] = "RUNNING" => t = cur_task
  /\ TasksIn(st, priority', dead_pool_queue', sq, rq, service_queue')
  /\ BlocksIn(st, priority', periodic_desc', meta', pq, periodic_dead_pool_queue')
  /\ Within(cur_task, priority', meta', cur_per_metadata, periodic_task_remticks)
  /\ Within(cur_task, priority', meta', cur_per_metadata, rem)
  /\ cur_task \in Tasks /\ st[cur_task] = "RUNNING" /\ priority'[cur_task] = PERIODIC =>
       cur_per_metadata = periodic_desc'[cur_task]

\* A ready task becomes the running one.
LEMMA RunLemma ==
  ASSUME NEW st \in [Tasks -> States], NEW t \in Tasks, st[t] = "READY",
         \A u \in Tasks : st[u] # "RUNNING",
         SwitchTo(t, st)
  PROVE  /\ cur_task' = t /\ t # Idle /\ state' = [st EXCEPT ![t] = "RUNNING"]
         /\ state' \in [Tasks -> States]
         /\ \A u \in Tasks : state'[u] = "RUNNING" <=> u = t
         /\ \A u \in Tasks : u # t => state'[u] = st[u]
         /\ \A u \in Tasks, x \in {"DEAD", "WAITING"} : state'[u] = x <=> st[u] = x
         /\ \A u \in Tasks : state'[u] = "READY" <=> st[u] = "READY" /\ u # t
<1>1. t # Idle /\ cur_task' = t /\ state' = [st EXCEPT ![t] = "RUNNING"]
  BY Constants DEF SwitchTo
<1>2. /\ state' \in [Tasks -> States] /\ state'[t] = "RUNNING"
      /\ \A u \in Tasks : u # t => state'[u] = st[u]
  BY <1>1 DEF States
<1>3. \A u \in Tasks, x \in {"DEAD", "WAITING"} : state'[u] = x <=> st[u] = x
  BY <1>2
<1>4. \A u \in Tasks : state'[u] = "RUNNING" <=> u = t
  BY <1>2
<1>5. \A u \in Tasks : state'[u] = "READY" <=> st[u] = "READY" /\ u # t
  BY <1>2
<1> QED  BY <1>1, <1>2, <1>3, <1>4, <1>5

\* What TasksIn says of a waiting task, and of a free one, depends only on who waits
\* and who is free.
LEMMA TasksInKept ==
  ASSUME NEW st, NEW st2, NEW pr, NEW dq, NEW sq, NEW rq, NEW sq2, NEW rq2, NEW svq,
         TasksIn(st, pr, dq, sq, rq, svq),
         \A u \in Tasks, x \in {"DEAD", "WAITING"} : st2[u] = x <=> st[u] = x,
         Holds(sq2, InState(st2, pr, SYSTEM, "READY")),
         Holds(rq2, InState(st2, pr, ROUND_ROBIN, "READY"))
  PROVE  TasksIn(st2, pr, dq, sq2, rq2, svq)
<1>1. {t \in Tasks : st2[t] = "DEAD"} = {t \in Tasks : st[t] = "DEAD"}
  OBVIOUS
<1>2. InState(st2, pr, PERIODIC, "WAITING") = InState(st, pr, PERIODIC, "WAITING")
  BY DEF InState
<1> QED  BY <1>1, <1>2 DEF TasksIn

\* A task that is not PERIODIC gets the processor.
LEMMA DispatchPlain ==
  ASSUME NEW st, NEW sq, NEW pq, NEW rq, NEW rem,
         Requested(st, sq, pq, rq, rem), Untouched', kernel_preemption_disabled' = FALSE,
         NEW t \in Tasks, st[t] = "READY", priority'[t] # PERIODIC,
         \A u \in Tasks : st[u] # "RUNNING",
         NEW sq2 \in Seq(Tasks), NEW rq2 \in Seq(Tasks),
         Holds(sq2, InState(st, priority', SYSTEM, "READY") \ {t}),
         Holds(rq2, InState(st, priority', ROUND_ROBIN, "READY") \ {t}),
         SwitchTo(t, st), Ready(sq2, pq, rq2), periodic_task_remticks' = rem,
         cur_per_metadata' = cur_per_metadata, error_msg' = error_msg
  PROVE  Dispatched'
<1>0. /\ cur_task \in Tasks \cup {Idle} /\ cur_per_metadata \in Metas \cup {NULL}
      /\ st \in [Tasks -> States] /\ pq \in Seq(Metas) /\ error_msg = "NONE"
      /\ "NONE" \in Errors /\ rem \in Word
      /\ TasksIn(st, priority', dead_pool_queue', sq, rq, service_queue')
      /\ BlocksIn(st, priority', periodic_desc', meta', pq, periodic_dead_pool_queue')
  BY Constants DEF Requested, TasksTyped
<1>1. /\ cur_task' = t /\ t # Idle /\ state' \in [Tasks -> States]
      /\ \A u \in Tasks : state'[u] = "RUNNING" <=> u = t
      /\ \A u \in Tasks : u # t => state'[u] = st[u]
      /\ \A u \in Tasks, x \in {"DEAD", "WAITING"} : state'[u] = x <=> st[u] = x
      /\ \A u \in Tasks : state'[u] = "READY" <=> st[u] = "READY" /\ u # t
  BY <1>0, RunLemma
<1>2. TasksIn(state', priority', dead_pool_queue', sq2, rq2, service_queue')
  <2>1. /\ Holds(sq2, InState(state', priority', SYSTEM, "READY"))
        /\ Holds(rq2, InState(state', priority', ROUND_ROBIN, "READY"))
    <3>1. \A l : InState(state', priority', l, "READY")
                  = InState(st, priority', l, "READY") \ {t}
      BY <1>1 DEF InState
    <3> QED  BY <3>1
  <2> QED  BY <1>0, <1>1, <2>1, TasksInKept
<1>3. BlocksIn(state', priority', periodic_desc', meta', pq, periodic_dead_pool_queue')
  <2>1. ASSUME NEW m \in Metas, meta'[m].task # NULL
        PROVE  state'[meta'[m].task] = IF m \in Range(pq) THEN "READY" ELSE "RUNNING"
    <3>1. /\ priority'[meta'[m].task] = PERIODIC
          /\ st[meta'[m].task] = IF m \in Range(pq) THEN "READY" ELSE "RUNNING"
      BY <1>0, <2>1 DEF BlocksIn
    <3>2. meta'[m].task \in Tasks
      BY <2>1 DEF Untouched, Blocks
    <3> QED  BY <1>1, <3>1, <3>2
  <2>2. \A u \in Tasks : priority'[u] = PERIODIC /\ state'[u] # "DEAD" =>
          periodic_desc'[u] # NULL /\ meta'[periodic_desc'[u]].task = u
    BY <1>0, <1>1 DEF BlocksIn
  <2> QED  BY <1>0, <2>1, <2>2 DEF BlocksIn
<1>4. Within(cur_task', priority', meta', cur_per_metadata', periodic_task_remticks')
  BY <1>1 DEF Within
<1>5. CurPriority' # PERIODIC
  BY <1>1 DEF CurPriority
<1> QED
  BY <1>0, <1>1, <1>2, <1>3, <1>4, <1>5 DEF Dispatched, TasksTyped, Ready

\* The dispatcher keeps every task and every block where it belongs.
LEMMA DispatchLemma ==
  ASSUME NEW st, NEW sq, NEW pq, NEW rq, NEW rem,
         Requested(st, sq, pq, rq, rem), Untouched', Dispatch(st, sq, pq, rq, rem)
  PROVE  Dispatched'
<1> DEFINE Stays == IF cur_task = Idle THEN kernel_preemption_disabled
                    ELSE st[cur_task] = "RUNNING"
<1>0. /\ cur_task \in Tasks \cup {Idle} /\ cur_per_metadata \in Metas \cup {NULL}
      /\ st \in [Tasks -> States] /\ sq \in Seq(Tasks) /\ rq \in Seq(Tasks)
      /\ pq \in Seq(Metas) /\ kernel_preemption_disabled' = FALSE
      /\ error_msg = "NONE" /\ "NONE" \in Errors /\ rem \in Word
      /\ TasksIn(st, priority', dead_pool_queue', sq, rq, service_queue')
      /\ BlocksIn(st, priority', periodic_desc', meta', pq, periodic_dead_pool_queue')
  BY Constants DEF Requested, TasksTyped, Dispatch
<1>1. CASE Stays
  <2>1. /\ state' = st /\ Ready(sq, pq, rq) /\ periodic_task_remticks' = rem
        /\ UNCHANGED <<cur_task, cur_per_metadata, error_msg>>
    BY <1>1 DEF Dispatch
  <2>2. \A t \in Tasks : state'[t] = "RUNNING" <=> cur_task' = t
    BY <1>1, <2>1, Constants DEF Requested
  <2>3. CurPriority' = PERIODIC => cur_per_metadata' = periodic_desc'[cur_task']
    BY <1>0, <1>1, <2>1, Constants DEF Requested, CurPriority
  <2>4. Within(cur_task', priority', meta', cur_per_metadata', periodic_task_remticks')
    BY <2>1 DEF Requested
  <2> QED
    BY <1>0, <2>1, <2>2, <2>3, <2>4 DEF Dispatched, TasksTyped, Ready
<1>2. CASE ~Stays /\ sq = <<>> /\ SameTick(meta', pq)
  <2>1. /\ error_msg' = "PERIODIC_TASKS_SCHEDULED_AST" /\ state' = st /\ Ready(sq, pq, rq)
        /\ UNCHANGED <<cur_task, cur_per_metadata, periodic_task_remticks>>
    BY <1>2 DEF Dispatch
  <2>2. Within(cur_task', priority', meta', cur_per_metadata', periodic_task_remticks')
    BY <2>1 DEF Requested
  <2>3. error_msg' \in Errors /\ error_msg' # "NONE" /\ periodic_task_remticks' \in Word
    BY <2>1 DEF Errors, Requested
  <2> QED
    BY <1>0, <2>1, <2>2, <2>3 DEF Dispatched, TasksTyped, Ready
<1>3. CASE /\ ~Stays /\ ~(sq = <<>> /\ SameTick(meta', pq))
           /\ sq = <<>> /\ Due(meta', ticks_from_start', pq)
  <2> DEFINE h == Head(pq)
             t == meta'[h].task
  <2>0. \A u \in Tasks : st[u] # "RUNNING"
    BY <1>3, Constants DEF Requested
  <2>1. /\ SwitchTo(t, st) /\ Ready(sq, Tail(pq), rq) /\ cur_per_metadata' = h
        /\ periodic_task_remticks' = meta'[h].wcet /\ error_msg' = error_msg
    BY <1>3 DEF Dispatch
  <2>2. pq # <<>> /\ Holds(pq, Range(pq))
    BY <1>0, <1>3 DEF Due, Holds, BlocksIn
  <2>3. /\ h \in Metas /\ h \in Range(pq) /\ Tail(pq) \in Seq(Metas)
        /\ IsInjective(Tail(pq)) /\ Range(Tail(pq)) = Range(pq) \ {h}
    BY <1>0, <2>2, TailHolds DEF Holds
  <2>4. meta'[h] \in Blocks
    BY <2>3 DEF Untouched
  <2>5. /\ t # NULL /\ t \in Tasks /\ meta'[h].wcet \in Word
        /\ periodic_desc'[t] = h /\ priority'[t] = PERIODIC /\ st[t] = "READY"
    BY <1>0, <2>3, <2>4 DEF BlocksIn, Blocks
  <2> HIDE DEF t, h
  <2>6. /\ cur_task' = t /\ t # Idle /\ state' \in [Tasks -> States]
        /\ \A u \in Tasks : state'[u] = "RUNNING" <=> u = t
        /\ \A u \in Tasks : u # t => state'[u] = st[u]
        /\ \A u \in Tasks, x \in {"DEAD", "WAITING"} : state'[u] = x <=> st[u] = x
        /\ \A u \in Tasks : state'[u] = "READY" <=> st[u] = "READY" /\ u # t
    BY <1>0, <2>0, <2>1, <2>5, RunLemma
  <2>7. /\ InState(state', priority', SYSTEM, "READY") = InState(st, priority', SYSTEM, "READY")
        /\ InState(state', priority', ROUND_ROBIN, "READY")
             = InState(st, priority', ROUND_ROBIN, "READY")
    BY <2>5, <2>6, Constants DEF InState
  <2>8. TasksIn(state', priority', dead_pool_queue', sq, rq, service_queue')
    <3>1. /\ Holds(sq, InState(state', priority', SYSTEM, "READY"))
          /\ Holds(rq, InState(state', priority', ROUND_ROBIN, "READY"))
      BY <1>0, <2>7 DEF TasksIn
    <3> QED  BY <1>0, <2>6, <3>1, TasksInKept
  <2>9. BlocksIn(state', priority', periodic_desc', meta', Tail(pq),
                 periodic_dead_pool_queue')
    <3>1. \A m \in Range(Tail(pq)) : meta'[m].task # NULL
      BY <1>0, <2>3 DEF BlocksIn
    <3>2. ASSUME NEW m \in Metas, meta'[m].task # NULL
          PROVE  /\ periodic_desc'[meta'[m].task] = m /\ priority'[meta'[m].task] = PERIODIC
                 /\ state'[meta'[m].task] = IF m \in Range(Tail(pq)) THEN "READY" ELSE "RUNNING"
      <4>1. /\ periodic_desc'[meta'[m].task] = m /\ priority'[meta'[m].task] = PERIODIC
            /\ st[meta'[m].task] = IF m \in Range(pq) THEN "READY" ELSE "RUNNING"
        BY <1>0, <3>2 DEF BlocksIn
      <4>2. meta'[m].task \in Tasks
        BY <3>2 DEF Untouched, Blocks
      <4>3. CASE m = h
        BY <2>3, <2>5, <2>6, <4>1, <4>3 DEF t
      <4>4. CASE m # h
        <5>1. meta'[m].task # t
          BY <2>5, <4>1, <4>4
        <5> QED  BY <2>3, <2>6, <4>1, <4>2, <4>4, <5>1
      <4> QED  BY <4>3, <4>4
    <3>3. \A u \in Tasks : priority'[u] = PERIODIC /\ state'[u] # "DEAD" =>
            periodic_desc'[u] # NULL /\ meta'[periodic_desc'[u]].task = u
      BY <1>0, <2>6 DEF BlocksIn
    <3> QED  BY <1>0, <2>3, <3>1, <3>2, <3>3 DEF BlocksIn
  <2>10. Within(cur_task', priority', meta', cur_per_metadata', periodic_task_remticks')
    BY <2>1, <2>5 DEF Within, Word, h
  <2>11. CurPriority' = PERIODIC => cur_per_metadata' = periodic_desc'[cur_task']
    BY <2>1, <2>5, <2>6 DEF h
  <2> QED
    BY <1>0, <2>1, <2>3, <2>5, <2>6, <2>8, <2>9, <2>10, <2>11
    DEF Dispatched, TasksTyped, Ready, h
<1>5. CASE /\ ~Stays /\ sq # <<>> /\ SwitchTo(Head(sq), st) /\ Ready(Tail(sq), pq, rq)
           /\ periodic_task_remticks' = rem /\ UNCHANGED <<cur_per_metadata, error_msg>>
  <2>1. Holds(sq, InState(st, priority', SYSTEM, "READY"))
    BY <1>0 DEF TasksIn
  <2>2. /\ Head(sq) \in InState(st, priority', SYSTEM, "READY") /\ Tail(sq) \in Seq(Tasks)
        /\ Holds(Tail(sq), InState(st, priority', SYSTEM, "READY") \ {Head(sq)})
    BY <1>0, <1>5, <2>1, TailHolds
  <2>3. Head(sq) \in Tasks /\ st[Head(sq)] = "READY" /\ priority'[Head(sq)] = SYSTEM
    BY <2>2 DEF InState
  <2>4. Holds(rq, InState(st, priority', ROUND_ROBIN, "READY") \ {Head(sq)})
    <3>1. Head(sq) \notin InState(st, priority', ROUND_ROBIN, "READY")
      BY <2>3, Constants DEF InState
    <3>2. InState(st, priority', ROUND_ROBIN, "READY") \ {Head(sq)}
            = InState(st, priority', ROUND_ROBIN, "READY")
      BY <3>1
    <3> QED  BY <1>0, <3>2 DEF TasksIn
  <2>5. \A u \in Tasks : st[u] # "RUNNING"
    BY <1>5, Constants DEF Requested
  <2>6. /\ Head(sq) \in Tasks /\ st[Head(sq)] = "READY" /\ priority'[Head(sq)] # PERIODIC
        /\ SwitchTo(Head(sq), st) /\ Ready(Tail(sq), pq, rq)
        /\ cur_per_metadata' = cur_per_metadata /\ error_msg' = error_msg
        /\ periodic_task_remticks' = rem
    BY <1>5, <2>3, Constants
  <2> HIDE DEF Stays
  <2>7. /\ Tail(sq) \in Seq(Tasks) /\ rq \in Seq(Tasks) /\ kernel_preemption_disabled' = FALSE
    BY <1>0, <2>2
  <2> QED  BY <2>2, <2>4, <2>5, <2>6, <2>7, DispatchPlain
<1>6. CASE /\ ~Stays /\ sq = <<>> /\ rq # <<>> /\ SwitchTo(Head(rq), st)
           /\ Ready(sq, pq, Tail(rq))
           /\ periodic_task_remticks' = rem /\ UNCHANGED <<cur_per_metadata, error_msg>>
  <2>1. Holds(rq, InState(st, priority', ROUND_ROBIN, "READY"))
    BY <1>0 DEF TasksIn
  <2>2. /\ Head(rq) \in InState(st, priority', ROUND_ROBIN, "READY") /\ Tail(rq) \in Seq(Tasks)
        /\ Holds(Tail(rq), InState(st, priority', ROUND_ROBIN, "READY") \ {Head(rq)})
    BY <1>0, <1>6, <2>1, TailHolds
  <2>3. Head(rq) \in Tasks /\ st[Head(rq)] = "READY" /\ priority'[Head(rq)] = ROUND_ROBIN
    BY <2>2 DEF InState
  <2>4. Holds(sq, InState(st, priority', SYSTEM, "READY") \ {Head(rq)})
    <3>1. Head(rq) \notin InState(st, priority', SYSTEM, "READY")
      BY <2>3, Constants DEF InState
    <3>2. InState(st, priority', SYSTEM, "READY") \ {Head(rq)}
            = InState(st, priority', SYSTEM, "READY")
      BY <3>1
    <3> QED  BY <1>0, <3>2 DEF TasksIn
  <2>5. \A u \in Tasks : st[u] # "RUNNING"
    BY <1>6, Constants DEF Requested
  <2>6. /\ Head(rq) \in Tasks /\ st[Head(rq)] = "READY" /\ priority'[Head(rq)] # PERIODIC
        /\ SwitchTo(Head(rq), st) /\ Ready(sq, pq, Tail(rq))
        /\ cur_per_metadata' = cur_per_metadata /\ error_msg' = error_msg
        /\ periodic_task_remticks' = rem
    BY <1>6, <2>3, Constants
  <2> HIDE DEF Stays
  <2>7. /\ sq \in Seq(Tasks) /\ Tail(rq) \in Seq(Tasks) /\ kernel_preemption_disabled' = FALSE
    BY <1>0, <2>2
  <2> QED  BY <2>2, <2>4, <2>5, <2>6, <2>7, DispatchPlain
<1>7. CASE /\ ~Stays /\ sq = <<>> /\ rq = <<>> /\ SwitchTo(Idle, st) /\ Ready(sq, pq, rq)
           /\ periodic_task_remticks' = rem /\ UNCHANGED <<cur_per_metadata, error_msg>>
  <2>1. cur_task' = Idle /\ state' = st
    BY <1>7 DEF SwitchTo
  <2>2. \A u \in Tasks : state'[u] # "RUNNING" /\ cur_task' # u
    BY <1>7, <2>1, Constants DEF Requested
  <2>3. Within(cur_task', priority', meta', cur_per_metadata', periodic_task_remticks')
    BY <2>1 DEF Within
  <2>4. CurPriority' # PERIODIC
    BY <2>1, Constants DEF CurPriority
  <2> QED
    BY <1>0, <1>7, <2>1, <2>2, <2>3, <2>4 DEF Dispatched, TasksTyped, Ready
<1> HIDE DEF Stays
<1>8. \/ Stays
      \/ ~Stays /\ sq = <<>> /\ SameTick(meta', pq)
      \/ /\ ~Stays /\ ~(sq = <<>> /\ SameTick(meta', pq))
         /\ sq = <<>> /\ Due(meta', ticks_from_start', pq)
      \/ /\ ~Stays /\ periodic_task_remticks' = rem /\ UNCHANGED <<cur_per_metadata, error_msg>>
         /\ \/ sq # <<>> /\ SwitchTo(Head(sq), st) /\ Ready(Tail(sq), pq, rq)
            \/ sq = <<>> /\ rq # <<>> /\ SwitchTo(Head(rq), st) /\ Ready(sq, pq, Tail(rq))
            \/ sq = <<>> /\ rq = <<>> /\ SwitchTo(Idle, st) /\ Ready(sq, pq, rq)
  BY DEF Dispatch, Stays
<1> QED  BY <1>1, <1>2, <1>3, <1>5, <1>6, <1>7, <1>8

-----------------------------------------------------------------------------
(* What requests do to the queues.                                         *)

\* periodic_enqueue adds the block, whatever the release ticks are.
LEMMA EnqueueHolds ==
  ASSUME NEW mt, NEW now, NEW q \in Seq(Metas), NEW S, Holds(q, S),
         NEW m \in Metas, m \notin S
  PROVE  /\ PeriodicEnqueue(mt, now, q, m) \in Seq(Metas)
         /\ Holds(PeriodicEnqueue(mt, now, q, m), S \cup {m})
<1> DEFINE later == {i \in DOMAIN q : Later(mt, now, m, q[i])}
           first == CHOOSE i \in later : \A j \in later : i <= j
<1>1. CASE later = {}
  <2>1. PeriodicEnqueue(mt, now, q, m) = Append(q, m)
    BY <1>1 DEF PeriodicEnqueue
  <2> QED  BY <2>1, AppendHolds
<1>2. CASE later # {}
  <2>1. PeriodicEnqueue(mt, now, q, m) = InsertAt(q, first, m)
    BY <1>2 DEF PeriodicEnqueue
  <2>2. DOMAIN q = 1 .. Len(q) /\ Len(q) \in Nat
    OBVIOUS
  <2>3. later \in SUBSET Nat /\ later \subseteq 1 .. Len(q)
    BY <2>2
  <2> HIDE DEF later
  <2>4. \E i \in later : \A j \in later : i <= j
    BY <1>2, <2>3, LeastOne
  <2>5. first \in later
    BY <2>4
  <2> HIDE DEF first
  <2>6. first \in 1 .. Len(q)
    BY <2>3, <2>5
  <2> QED  BY <2>1, <2>6, InsertHolds
<1> QED  BY <1>1, <1>2

\* The running task, SYSTEM or ROUND_ROBIN, goes back to its queue.
LEMMA RequeueTask ==
  ASSUME NEW st, NEW sq, NEW pq, NEW rq, NEW rem, Requested(st, sq, pq, rq, rem), Untouched',
         cur_task \in Tasks, st[cur_task] = "RUNNING",
         NEW sq2 \in Seq(Tasks), NEW rq2 \in Seq(Tasks),
         \/ /\ priority'[cur_task] = SYSTEM /\ rq2 = rq
            /\ Holds(sq2, Range(sq) \cup {cur_task})
         \/ /\ priority'[cur_task] = ROUND_ROBIN /\ sq2 = sq
            /\ Holds(rq2, Range(rq) \cup {cur_task})
  PROVE  Requested([st EXCEPT ![cur_task] = "READY"], sq2, pq, rq2, rem)
<1> DEFINE y == [st EXCEPT ![cur_task] = "READY"]
<1>0. /\ st \in [Tasks -> States]
      /\ TasksIn(st, priority', dead_pool_queue', sq, rq, service_queue')
      /\ BlocksIn(st, priority', periodic_desc', meta', pq, periodic_dead_pool_queue')
  BY DEF Requested, TasksTyped
<1>1. /\ y \in [Tasks -> States] /\ y[cur_task] = "READY"
      /\ \A u \in Tasks : u # cur_task => y[u] = st[u]
  BY <1>0 DEF States
<1> HIDE DEF y
<1>2. /\ \A u \in Tasks, x \in {"DEAD", "WAITING"} : y[u] = x <=> st[u] = x
      /\ \A u \in Tasks : y[u] = "READY" <=> st[u] = "READY" \/ u = cur_task
      /\ \A u \in Tasks : y[u] # "RUNNING"
  BY <1>1 DEF Requested
<1>3. /\ Range(sq) = InState(st, priority', SYSTEM, "READY")
      /\ Range(rq) = InState(st, priority', ROUND_ROBIN, "READY")
      /\ Holds(sq, Range(sq)) /\ Holds(rq, Range(rq))
  BY <1>0 DEF TasksIn, Holds
<1>4. /\ Holds(sq2, InState(y, priority', SYSTEM, "READY"))
      /\ Holds(rq2, InState(y, priority', ROUND_ROBIN, "READY"))
  <2>1. CASE priority'[cur_task] = SYSTEM
    <3>1. /\ InState(y, priority', SYSTEM, "READY")
               = InState(st, priority', SYSTEM, "READY") \cup {cur_task}
          /\ InState(y, priority', ROUND_ROBIN, "READY")
               = InState(st, priority', ROUND_ROBIN, "READY")
      BY <1>2, <2>1, Constants DEF InState
    <3> QED  BY <1>3, <2>1, <3>1, Constants
  <2>2. CASE priority'[cur_task] = ROUND_ROBIN
    <3>1. /\ InState(y, priority', ROUND_ROBIN, "READY")
               = InState(st, priority', ROUND_ROBIN, "READY") \cup {cur_task}
          /\ InState(y, priority', SYSTEM, "READY")
               = InState(st, priority', SYSTEM, "READY")
      BY <1>2, <2>2, Constants DEF InState
    <3> QED  BY <1>3, <2>2, <3>1, Constants
  <2> QED  BY <2>1, <2>2
<1>5. TasksIn(y, priority', dead_pool_queue', sq2, rq2, service_queue')
  BY <1>0, <1>2, <1>4, TasksInKept
<1>6. priority'[cur_task] # PERIODIC
  BY Constants
<1>7. BlocksIn(y, priority', periodic_desc', meta', pq, periodic_dead_pool_queue')
  <2>1. ASSUME NEW m \in Metas, meta'[m].task # NULL
        PROVE  y[meta'[m].task] = IF m \in Range(pq) THEN "READY" ELSE "RUNNING"
    <3>1. /\ priority'[meta'[m].task] = PERIODIC
          /\ st[meta'[m].task] = IF m \in Range(pq) THEN "READY" ELSE "RUNNING"
      BY <1>0, <2>1 DEF BlocksIn
    <3>2. meta'[m].task \in Tasks
      BY <2>1 DEF Untouched, Blocks
    <3> QED  BY <1>1, <1>6, <3>1, <3>2
  <2>2. \A u \in Tasks : priority'[u] = PERIODIC /\ y[u] # "DEAD" =>
          periodic_desc'[u] # NULL /\ meta'[periodic_desc'[u]].task = u
    BY <1>0, <1>2 DEF BlocksIn
  <2> QED  BY <1>0, <2>1, <2>2 DEF BlocksIn
<1>8. Requested(y, sq2, pq, rq2, rem)
  BY <1>1, <1>2, <1>5, <1>7 DEF Requested, TasksTyped
<1> QED  BY <1>8 DEF y

\* The block of the running task, PERIODIC, goes back to the release queue.
LEMMA RequeueBlock ==
  ASSUME NEW st, NEW sq, NEW pq, NEW rq, NEW rem, Requested(st, sq, pq, rq, rem), Untouched',
         cur_task \in Tasks, st[cur_task] = "RUNNING", priority'[cur_task] = PERIODIC,
         NEW now
  PROVE  /\ periodic_desc'[cur_task] \in Metas
         /\ periodic_desc'[cur_task] = cur_per_metadata
         /\ Requested([st EXCEPT ![cur_task] = "READY"], sq,
                      PeriodicEnqueue(meta', now, pq, cur_per_metadata), rq, rem)
<1> DEFINE y == [st EXCEPT ![cur_task] = "READY"]
           m == cur_per_metadata
           pq2 == PeriodicEnqueue(meta', now, pq, m)
<1>0. /\ st \in [Tasks -> States] /\ pq \in Seq(Metas)
      /\ TasksIn(st, priority', dead_pool_queue', sq, rq, service_queue')
      /\ BlocksIn(st, priority', periodic_desc', meta', pq, periodic_dead_pool_queue')
  BY DEF Requested, TasksTyped
<1>1. /\ y \in [Tasks -> States] /\ y[cur_task] = "READY"
      /\ \A u \in Tasks : u # cur_task => y[u] = st[u]
  BY <1>0 DEF States
<1> HIDE DEF y
<1>2. /\ \A u \in Tasks, x \in {"DEAD", "WAITING"} : y[u] = x <=> st[u] = x
      /\ \A u \in Tasks : y[u] = "READY" <=> st[u] = "READY" \/ u = cur_task
      /\ \A u \in Tasks : y[u] # "RUNNING"
  BY <1>1 DEF Requested
<1>3. /\ m = periodic_desc'[cur_task] /\ m \in Metas
      /\ meta'[m].task = cur_task /\ meta'[m].task # NULL
  BY <1>0, Constants DEF Requested, BlocksIn, Untouched
<1>4. m \notin Range(pq)
  BY <1>0, <1>3 DEF BlocksIn
<1>5. pq2 \in Seq(Metas) /\ Holds(pq2, Range(pq) \cup {m})
  <2>1. Holds(pq, Range(pq))
    BY <1>0 DEF BlocksIn, Holds
  <2> QED  BY <1>0, <1>3, <1>4, <2>1, EnqueueHolds
<1> HIDE DEF m, pq2
<1>6. TasksIn(y, priority', dead_pool_queue', sq, rq, service_queue')
  <2>1. /\ InState(y, priority', SYSTEM, "READY") = InState(st, priority', SYSTEM, "READY")
        /\ InState(y, priority', ROUND_ROBIN, "READY")
             = InState(st, priority', ROUND_ROBIN, "READY")
    BY <1>2, Constants DEF InState
  <2>2. /\ Holds(sq, InState(y, priority', SYSTEM, "READY"))
        /\ Holds(rq, InState(y, priority', ROUND_ROBIN, "READY"))
    BY <1>0, <2>1 DEF TasksIn
  <2> QED  BY <1>0, <1>2, <2>2, TasksInKept
<1>7. BlocksIn(y, priority', periodic_desc', meta', pq2, periodic_dead_pool_queue')
  <2>1. IsInjective(pq2) /\ Range(pq2) = Range(pq) \cup {m}
    BY <1>5 DEF Holds
  <2>2. ASSUME NEW n \in Metas, meta'[n].task # NULL
        PROVE  y[meta'[n].task] = IF n \in Range(pq2) THEN "READY" ELSE "RUNNING"
    <3>1. /\ periodic_desc'[meta'[n].task] = n
          /\ st[meta'[n].task] = IF n \in Range(pq) THEN "READY" ELSE "RUNNING"
      BY <1>0, <2>2 DEF BlocksIn
    <3>2. meta'[n].task \in Tasks
      BY <2>2 DEF Untouched, Blocks
    <3>3. CASE n = m
      BY <1>1, <1>3, <2>1, <3>3
    <3>4. CASE n # m
      <4>1. meta'[n].task # cur_task
        BY <1>3, <3>1, <3>4
      <4> QED  BY <1>1, <2>1, <3>1, <3>2, <3>4, <4>1
    <3> QED  BY <3>3, <3>4
  <2>3. \A u \in Tasks : priority'[u] = PERIODIC /\ y[u] # "DEAD" =>
          periodic_desc'[u] # NULL /\ meta'[periodic_desc'[u]].task = u
    BY <1>0, <1>2 DEF BlocksIn
  <2>4. \A n \in Range(pq2) : meta'[n].task # NULL
    BY <1>0, <1>3, <2>1 DEF BlocksIn
  <2> QED  BY <1>0, <2>1, <2>2, <2>3, <2>4 DEF BlocksIn
<1>8. Requested(y, sq, pq2, rq, rem)
  BY <1>0, <1>1, <1>2, <1>5, <1>6, <1>7 DEF Requested, TasksTyped
<1> QED  BY <1>3, <1>8 DEF y, pq2, m

\* A request that readied tasks, preempting the running one or not.
LEMMA PreemptLemma ==
  ASSUME NEW st, NEW sq, NEW pq, NEW rq, NEW m,
         Requested(st, sq, pq, rq, periodic_task_remticks), Untouched',
         cur_task # Idle => /\ st[cur_task] = "RUNNING"
                            /\ priority'[cur_task] = priority[cur_task],
         CurPriority = PERIODIC => m = cur_per_metadata,
         kernel_preemption_disabled \in BOOLEAN,
         Preempt(st, sq, pq, rq, m)
  PROVE  Dispatched'
<1>0. /\ cur_task \in Tasks \cup {Idle} /\ cur_per_metadata \in Metas \cup {NULL}
      /\ st \in [Tasks -> States] /\ sq \in Seq(Tasks) /\ rq \in Seq(Tasks)
      /\ pq \in Seq(Metas) /\ periodic_task_remticks \in Word
      /\ TasksIn(st, priority', dead_pool_queue', sq, rq, service_queue')
  BY DEF Requested, TasksTyped
<1>1. CASE PreemptAborts(sq, pq)
  <2>1. /\ error_msg' = "PERIODIC_TASKS_SCHEDULED_AST" /\ Ready(sq, pq, rq) /\ state' = st
        /\ UNCHANGED <<cur_task, cur_per_metadata, periodic_task_remticks,
                       kernel_preemption_disabled>>
    BY <1>1 DEF Preempt
  <2>2. Within(cur_task', priority', meta', cur_per_metadata', periodic_task_remticks')
    BY <2>1 DEF Requested
  <2>3. error_msg' \in Errors /\ error_msg' # "NONE"
    BY <2>1 DEF Errors
  <2> QED  BY <1>0, <2>1, <2>2, <2>3 DEF Dispatched, TasksTyped, Ready
<1>2. CASE ~PreemptAborts(sq, pq) /\ (~ShouldPreempt(sq, pq, rq) \/ cur_task = Idle)
  <2>1. Dispatch(st, sq, pq, rq, periodic_task_remticks)
    BY <1>2 DEF Preempt
  <2> QED  BY <2>1, DispatchLemma
<1>3. CASE ~PreemptAborts(sq, pq) /\ ShouldPreempt(sq, pq, rq) /\ cur_task # Idle
  <2> DEFINE y == [st EXCEPT ![cur_task] = "READY"]
  <2>1. /\ cur_task \in Tasks /\ CurPriority = priority'[cur_task]
        /\ CurPriority \in {SYSTEM, PERIODIC, ROUND_ROBIN}
    BY <1>0, <1>3 DEF CurPriority, Untouched, Levels
  <2>2. CurPriority # SYSTEM
    BY <1>3, Constants DEF ShouldPreempt
  <2>3. Dispatch(y, sq, IF CurPriority = PERIODIC
                        THEN PeriodicEnqueue(meta', ticks_from_start', pq, m) ELSE pq,
                 IF CurPriority = ROUND_ROBIN THEN Cons(cur_task, rq) ELSE rq,
                 periodic_task_remticks)
    BY <1>3 DEF Preempt
  <2> HIDE DEF y
  <2>4. CASE CurPriority = PERIODIC
    <3>1. Requested(y, sq, PeriodicEnqueue(meta', ticks_from_start', pq, m), rq,
                    periodic_task_remticks)
      BY <1>3, <2>1, <2>4, RequeueBlock DEF y
    <3>2. Dispatch(y, sq, PeriodicEnqueue(meta', ticks_from_start', pq, m), rq,
                   periodic_task_remticks)
      BY <2>3, <2>4, Constants
    <3> QED  BY <3>1, <3>2, DispatchLemma
  <2>5. CASE CurPriority = ROUND_ROBIN
    <3>1. Holds(rq, Range(rq)) /\ cur_task \notin Range(rq)
      BY <1>0, <1>3, <2>1 DEF TasksIn, Holds, InState
    <3>2. /\ Cons(cur_task, rq) \in Seq(Tasks)
          /\ Holds(Cons(cur_task, rq), Range(rq) \cup {cur_task})
      BY <1>0, <2>1, <3>1, ConsHolds
    <3>3. Requested(y, sq, pq, Cons(cur_task, rq), periodic_task_remticks)
      BY <1>0, <1>3, <2>1, <2>5, <3>2, RequeueTask DEF y
    <3>4. Dispatch(y, sq, pq, Cons(cur_task, rq), periodic_task_remticks)
      BY <2>3, <2>5, Constants
    <3> QED  BY <3>3, <3>4, DispatchLemma
  <2> QED  BY <2>1, <2>2, <2>4, <2>5
<1> QED  BY <1>1, <1>2, <1>3


-----------------------------------------------------------------------------
(* The classes of steps.                                                   *)

\* Nobody waiting in the round-robin queue is overtaken in rq.
Behind(rq) ==
  \A a \in Range(roundrobin_task_queue) : \A b :
    Before(rq, b, a) => Before(roundrobin_task_queue, b, a)

\* The release queue is as it was, a tick later at most, or periodic_enqueue has put
\* one block in it.
InTime(pq) ==
  /\ ticks_from_start' \in {ticks_from_start, (ticks_from_start + 1) % WORD}
  /\ \A m \in Range(periodic_task_queue) : meta'[m].next = meta[m].next
  /\ \/ pq = periodic_task_queue
     \/ /\ ticks_from_start' = ticks_from_start
        /\ \E m \in Metas :
             pq = PeriodicEnqueue(meta', ticks_from_start, periodic_task_queue, m)

\* A request that ends in the dispatcher.
Passes(st, sq, pq, rq, rem) ==
  /\ Untouched' /\ Requested(st, sq, pq, rq, rem) /\ Dispatch(st, sq, pq, rq, rem)
  /\ Behind(rq) /\ InTime(pq)
  /\ cur_task \in Tasks /\ st[cur_task] = "READY" =>
       /\ UNCHANGED <<dead_pool_queue, service_queue>>
       /\ CurPriority = SYSTEM => /\ sq = Append(system_task_queue, cur_task)
                                  /\ ticks_from_start' = ticks_from_start
  /\ cur_task \in Tasks /\ st[cur_task] = "RUNNING" =>
       /\ sq = system_task_queue /\ pq = periodic_task_queue /\ priority' = priority
       /\ CurPriority = ROUND_ROBIN => ticks_from_start' = ticks_from_start

\* A request that may have readied a task, and ends in the preemption test.
Readies(st, sq, pq, rq, m) ==
  /\ Untouched' /\ Requested(st, sq, pq, rq, periodic_task_remticks)
  /\ Preempt(st, sq, pq, rq, m)
  /\ cur_task # Idle => st[cur_task] = "RUNNING" /\ priority'[cur_task] = priority[cur_task]
  /\ CurPriority = PERIODIC => m = cur_per_metadata
  /\ kernel_preemption_disabled \in BOOLEAN
  /\ Behind(rq) /\ InTime(pq) /\ ticks_from_start' = ticks_from_start

\* The scheduler is not involved.
Rests ==
  /\ Untouched' /\ Dispatched'
  /\ UNCHANGED <<cur_task, state, system_task_queue, periodic_task_queue,
                 roundrobin_task_queue, meta, priority, ticks_from_start,
                 dead_pool_queue, service_queue>>
  /\ kernel_preemption_disabled => kernel_preemption_disabled'
  /\ error_msg' = "NONE" => error_msg = "NONE"

Class ==
  \/ Rests
  \/ \E st, sq, pq, rq, rem : Passes(st, sq, pq, rq, rem)
  \/ \E st, sq, pq, rq, m : Readies(st, sq, pq, rq, m)

LEMMA ClassInv == Class => IInv'
<1>1. Rests => Untouched' /\ Dispatched'
  BY DEF Rests
<1>2. ASSUME NEW st, NEW sq, NEW pq, NEW rq, NEW rem, Passes(st, sq, pq, rq, rem)
      PROVE  Untouched' /\ Dispatched'
  BY <1>2, DispatchLemma DEF Passes
<1>3. ASSUME NEW st, NEW sq, NEW pq, NEW rq, NEW m, Readies(st, sq, pq, rq, m)
      PROVE  Untouched' /\ Dispatched'
  BY <1>3, PreemptLemma DEF Readies
<1> QED  BY <1>1, <1>2, <1>3, PartsNext DEF Class

\* The queue as it is, or with one more at the end.
LEMMA BehindLemma ==
  ASSUME roundrobin_task_queue \in Seq(Tasks)
  PROVE  /\ Behind(roundrobin_task_queue)
         /\ \A t \in Tasks : t \notin Range(roundrobin_task_queue) =>
              Behind(Append(roundrobin_task_queue, t))
<1>1. ASSUME NEW a \in Range(roundrobin_task_queue), NEW b, NEW t \in Tasks,
             t \notin Range(roundrobin_task_queue),
             Before(Append(roundrobin_task_queue, t), b, a)
      PROVE  Before(roundrobin_task_queue, b, a)
  <2>1. a # t
    BY <1>1
  <2> QED  BY <1>1, <2>1, SeqOrderKept
<1> QED  BY <1>1 DEF Behind
-----------------------------------------------------------------------------
(* The invariant at boot, and the steps that change little.                *)

LEMMA InitInv == Init => IInv
<1> SUFFICES ASSUME Init PROVE Untouched /\ Dispatched
  BY Parts
<1>1. /\ cur_task = 1 /\ 1 \in Tasks /\ 1 # Idle /\ 0 \in Word
      /\ state = [t \in Tasks |-> IF t = 1 THEN "RUNNING" ELSE "DEAD"]
      /\ priority = [t \in Tasks |-> SYSTEM] /\ SYSTEM # PERIODIC
      /\ meta = [m \in Metas |-> [task |-> NULL, period |-> 0, wcet |-> 0, next |-> 0]]
  BY Constants, RoombaKernelAssumption DEF Init, Tasks, Word, RoombaKernelAssumption, Idle
<1>2. /\ dead_pool_queue \in Seq(Tasks)
      /\ Holds(dead_pool_queue, {t \in Tasks : state[t] = "DEAD"})
  <2>1. dead_pool_queue = [i \in 1 .. MAXPROCESS - 1 |-> i + 1]
    BY DEF Init
  <2>2. MAXPROCESS \in Nat \ {0}
    BY Constants
  <2>3. \A i \in 1 .. MAXPROCESS - 1 : i + 1 \in Tasks /\ i + 1 # 1
    BY <2>2 DEF Tasks
  <2>4. \A t \in Tasks : t # 1 => t - 1 \in 1 .. MAXPROCESS - 1 /\ (t - 1) + 1 = t
    BY <2>2 DEF Tasks
  <2>5. dead_pool_queue \in Seq(Tasks)
    BY <2>1, <2>2, <2>3
  <2>6. IsInjective(dead_pool_queue)
    BY <2>1, <2>2 DEF IsInjective
  <2>7. \A t : t \in Range(dead_pool_queue) <=> t \in Tasks /\ t # 1
    BY <2>1, <2>3, <2>4 DEF Range
  <2> QED  BY <1>1, <2>5, <2>6, <2>7 DEF Holds
<1>3. /\ periodic_dead_pool_queue \in Seq(Metas)
      /\ Holds(periodic_dead_pool_queue, {m \in Metas : meta[m].task = NULL})
  <2>1. periodic_dead_pool_queue = [i \in Metas |-> i] /\ Metas = 1 .. MAXPERIODICPRO
        /\ MAXPERIODICPRO \in Nat
    BY Constants DEF Init, Metas
  <2>2. periodic_dead_pool_queue \in Seq(Metas)
    BY <2>1
  <2>3. IsInjective(periodic_dead_pool_queue) /\ Range(periodic_dead_pool_queue) = Metas
    BY <2>1 DEF IsInjective, Range
  <2> QED  BY <1>1, <2>2, <2>3 DEF Holds
<1>4. Untouched
  <2>1. [task |-> NULL, period |-> 0, wcet |-> 0, next |-> 0] \in Blocks
    BY <1>1 DEF Blocks
  <2>2. meta \in [Metas -> Blocks]
    BY <1>1, <2>1
  <2>3. [period |-> 0, next |-> 0, wcet |-> 0] \in [period : Word, next : Word, wcet : Word]
    BY <1>1
  <2>4. NoCall \in [stage : 0 .. 3, period : Word, next : Word, wcet : Word]
    BY <1>1 DEF NoCall
  <2>5. creating \in [Tasks -> [stage : 0 .. 3, period : Word, next : Word, wcet : Word]]
    BY <2>4 DEF Init
  <2>6. 0 \in 0 .. MAXSERVICES
    BY RoombaKernelAssumption DEF RoombaKernelAssumption
  <2>7. <<>> \in Seq(Tasks)
    OBVIOUS
  <2>8. service_queue \in [Services -> Seq(Tasks)]
    BY <2>7 DEF Init
  <2> QED
    BY <1>1, <1>2, <1>3, <2>2, <2>3, <2>5, <2>6, <2>8 DEF Init, Untouched, Levels
<1>5. \A T : <<>> \in Seq(T) /\ Range(<<>>) = {} /\ IsInjective(<<>>)
  BY DEF Range, IsInjective
<1>6. TasksIn(state, priority, dead_pool_queue, system_task_queue, roundrobin_task_queue,
              service_queue)
  <2>1. \A l : InState(state, priority, l, "READY") = {}
    BY <1>1 DEF InState
  <2>2. \A l : InState(state, priority, l, "WAITING") = {}
    BY <1>1 DEF InState
  <2>3. \A s \in Services : service_queue[s] = <<>>
    BY DEF Init
  <2>4. Holds(<<>>, {})
    BY <1>5 DEF Holds
  <2>5. system_task_queue = <<>> /\ roundrobin_task_queue = <<>>
    BY DEF Init
  <2>6. \A t \in Tasks : state[t] # "WAITING"
    BY <1>1
  <2> QED  BY <1>2, <1>5, <2>1, <2>2, <2>3, <2>4, <2>5, <2>6 DEF TasksIn
<1>7. BlocksIn(state, priority, periodic_desc, meta, periodic_task_queue,
               periodic_dead_pool_queue)
  BY <1>1, <1>3, <1>5 DEF BlocksIn, Init
<1>8. Within(cur_task, priority, meta, cur_per_metadata, periodic_task_remticks)
  BY <1>1 DEF Within
<1>9. /\ state \in [Tasks -> States] /\ \A t \in Tasks : state[t] = "RUNNING" <=> cur_task = t
      /\ CurPriority # PERIODIC
  BY <1>1 DEF States, CurPriority
<1> QED
  BY <1>1, <1>4, <1>5, <1>6, <1>7, <1>8, <1>9, Constants DEF Init, Dispatched, TasksTyped

LEMMA AbortClass ==
  ASSUME IInv, InTask, NEW code \in Errors, Abort(code)
  PROVE  Class
<1>1. Untouched /\ Dispatched
  BY Parts
<1>2. /\ error_msg' = code /\ error_msg = "NONE"
      /\ UNCHANGED <<cur_task, state, system_task_queue, periodic_task_queue,
                     roundrobin_task_queue, cur_per_metadata, periodic_task_remticks,
                     kernel_preemption_disabled>>
      /\ UNCHANGED <<dead_pool_queue, periodic_dead_pool_queue, priority, periodic_desc, meta,
                     kernel_period_create_meta, creating, service_queue, num_services,
                     ticks_from_start>>
  BY DEF Abort, InTask, dispatch_vars, ready_queues, pools, descriptors, create_vars,
         service_vars
<1>3. Untouched'
  BY <1>1, <1>2 DEF Untouched
<1>4. Dispatched'
  BY <1>1, <1>2 DEF Dispatched, TasksTyped, CurPriority
<1> QED  BY <1>2, <1>3, <1>4 DEF Class, Rests

\* The running task has the descriptor that its invariant says.
LEMMA RunningTask ==
  ASSUME IInv, InTask
  PROVE  /\ cur_task \in Tasks => /\ state[cur_task] = "RUNNING" /\ cur_task # Idle
                                  /\ CurPriority = priority[cur_task]
                                  /\ CurPriority \in {SYSTEM, PERIODIC, ROUND_ROBIN}
         /\ CurPriority = PERIODIC => /\ cur_task \in Tasks /\ cur_per_metadata \in Metas
                                      /\ cur_per_metadata = periodic_desc[cur_task]
                                      /\ meta[cur_per_metadata].task = cur_task
         /\ cur_task \in Tasks \cup {Idle}
         /\ \A t \in Tasks : state[t] = "RUNNING" <=> cur_task = t
<1>1. Untouched /\ Dispatched /\ error_msg = "NONE"
  BY Parts DEF InTask
<1>2. /\ cur_task \in Tasks \cup {Idle} /\ \A t \in Tasks : state[t] = "RUNNING" <=> cur_task = t
      /\ CurPriority = PERIODIC => cur_per_metadata = periodic_desc[cur_task]
      /\ BlocksIn(state, priority, periodic_desc, meta, periodic_task_queue,
                  periodic_dead_pool_queue)
  BY <1>1 DEF Dispatched
<1>3. cur_task \in Tasks => /\ state[cur_task] = "RUNNING" /\ cur_task # Idle
                            /\ CurPriority = priority[cur_task]
                            /\ CurPriority \in {SYSTEM, PERIODIC, ROUND_ROBIN}
  BY <1>1, <1>2, Constants DEF CurPriority, Untouched, Levels
<1>4. CurPriority = PERIODIC => cur_task \in Tasks
  BY <1>2, Constants DEF CurPriority
<1>5. CurPriority = PERIODIC => /\ cur_per_metadata \in Metas
                                /\ meta[cur_per_metadata].task = cur_task
  BY <1>1, <1>2, <1>3, <1>4 DEF BlocksIn, Untouched
<1> QED  BY <1>2, <1>3, <1>4, <1>5

\* A request that changes no task state and no queue.
LEMMA Begin ==
  ASSUME IInv, InTask, NEW rem \in Word,
         dead_pool_queue' = dead_pool_queue, priority' = priority,
         periodic_dead_pool_queue' = periodic_dead_pool_queue,
         periodic_desc' = periodic_desc, service_queue' = service_queue,
         \A m \in Metas : meta'[m].task = meta[m].task /\ meta'[m].wcet = meta[m].wcet,
         Within(cur_task, priority, meta, cur_per_metadata, rem)
  PROVE  Requested(state, system_task_queue, periodic_task_queue, roundrobin_task_queue, rem)
<1>1. Untouched /\ Dispatched /\ error_msg = "NONE"
  BY Parts DEF InTask
<1>2. BlocksIn(state, priority', periodic_desc', meta', periodic_task_queue,
               periodic_dead_pool_queue')
  <2>1. BlocksIn(state, priority, periodic_desc, meta, periodic_task_queue,
                 periodic_dead_pool_queue)
    BY <1>1 DEF Dispatched
  <2>2. {m \in Metas : meta'[m].task = NULL} = {m \in Metas : meta[m].task = NULL}
    OBVIOUS
  <2>3. \A m \in Range(periodic_task_queue) : m \in Metas
    BY <1>1, SeqEnds DEF Dispatched
  <2>4. \A t \in Tasks : periodic_desc[t] # NULL => periodic_desc[t] \in Metas
    BY <1>1 DEF Untouched
  <2> QED  BY <2>1, <2>2, <2>3, <2>4 DEF BlocksIn
<1>3. ASSUME NEW r, Within(cur_task, priority, meta, cur_per_metadata, r)
      PROVE  Within(cur_task, priority', meta', cur_per_metadata, r)
  <2>1. cur_task # Idle /\ priority[cur_task] = PERIODIC => cur_per_metadata \in Metas
    BY RunningTask DEF CurPriority
  <2> QED  BY <1>3, <2>1 DEF Within
<1>4. Within(cur_task, priority', meta', cur_per_metadata, periodic_task_remticks)
  BY <1>1, <1>3 DEF Dispatched
<1>5. Within(cur_task, priority', meta', cur_per_metadata, rem)
  BY <1>3
<1>6. priority[cur_task] = PERIODIC /\ cur_task \in Tasks =>
        cur_per_metadata = periodic_desc[cur_task]
  BY RunningTask
<1> QED
  BY <1>1, <1>2, <1>4, <1>5, <1>6 DEF Requested, Dispatched

-----------------------------------------------------------------------------
(* The timer, the yield and the calls that ask for nothing else.           *)

LEMMA TIMER_EXPIREDClass == IInv /\ TIMER_EXPIRED => Class
<1> SUFFICES ASSUME IInv, TIMER_EXPIRED PROVE Class
  OBVIOUS
<1>1. Untouched /\ Dispatched /\ InTask /\ error_msg = "NONE"
  BY Parts DEF TIMER_EXPIRED, InTask
<1>2. CASE CurPriority = PERIODIC /\ TookTooLong
  <2>1. Abort("PERIODIC_TOOK_TOO_LONG")
    BY <1>2 DEF TIMER_EXPIRED
  <2>2. "PERIODIC_TOOK_TOO_LONG" \in Errors
    BY DEF Errors
  <2> QED  BY <1>1, <2>1, <2>2, AbortClass
<1>3. CASE ~(CurPriority = PERIODIC /\ TookTooLong)
  <2> DEFINE st == [t \in Tasks |-> IF t = cur_task /\ priority[t] = ROUND_ROBIN
                                   THEN "READY" ELSE state[t]]
             rem == IF CurPriority = PERIODIC THEN TicksLeft ELSE periodic_task_remticks
  <2>1. /\ ticks_from_start' = (ticks_from_start + 1) % WORD
        /\ UNCHANGED <<dead_pool_queue, periodic_dead_pool_queue, priority, periodic_desc, meta,
                       kernel_period_create_meta, creating, service_queue, num_services>>
        /\ Dispatch(st, system_task_queue, periodic_task_queue, QuantumQueue, rem)
    BY <1>3 DEF TIMER_EXPIRED, pools, descriptors, create_vars, service_vars
  <2>2. Untouched'
    BY <1>1, <2>1, Constants DEF Untouched, Word
  <2>3. /\ st \in [Tasks -> States] /\ priority' = priority
        /\ CurPriority = ROUND_ROBIN => st = [state EXCEPT ![cur_task] = "READY"]
        /\ CurPriority # ROUND_ROBIN => st = state
    <3>1. state \in [Tasks -> States]
      BY <1>1 DEF Dispatched, TasksTyped
    <3>2. CurPriority # ROUND_ROBIN => ~ \E t \in Tasks : t = cur_task /\ priority[t] = ROUND_ROBIN
      BY <1>1, RunningTask
    <3>3. CurPriority = ROUND_ROBIN => cur_task \in Tasks /\ priority[cur_task] = ROUND_ROBIN
      BY <1>1, RunningTask, Constants DEF CurPriority
    <3> QED  BY <2>1, <3>1, <3>2, <3>3 DEF States
  <2>4. rem \in Word /\ Within(cur_task, priority, meta, cur_per_metadata, rem)
    <3>1. periodic_task_remticks \in Word
          /\ Within(cur_task, priority, meta, cur_per_metadata, periodic_task_remticks)
      BY <1>1 DEF Dispatched
    <3>2. CASE CurPriority # PERIODIC
      BY <3>1, <3>2
    <3>3. CASE CurPriority = PERIODIC
      <4>1. /\ cur_task \in Tasks /\ cur_task # Idle /\ priority[cur_task] = PERIODIC
            /\ meta[cur_per_metadata].wcet \in Word /\ TicksLeft # 0
            /\ WORD \in Nat \ {0}
        BY <1>1, <1>3, <3>3, RunningTask, Constants DEF Untouched, Blocks, TookTooLong
      <4>2. TicksLeft \in Word
        BY <3>1, <4>1 DEF TicksLeft, Word
      <4>3. ASSUME meta[cur_per_metadata].wcet > 0
            PROVE  TicksLeft \in 1 .. meta[cur_per_metadata].wcet
        <5>1. /\ periodic_task_remticks \in 1 .. meta[cur_per_metadata].wcet
              /\ periodic_task_remticks < WORD /\ periodic_task_remticks \in Nat
          BY <3>1, <4>1, <4>3 DEF Within, Word
        <5>2. (periodic_task_remticks - 1) % WORD = periodic_task_remticks - 1
          BY <4>1, <5>1
        <5> QED  BY <4>1, <5>1, <5>2 DEF TicksLeft, Word
      <4> QED  BY <3>3, <4>2, <4>3 DEF Within
    <3> QED  BY <3>2, <3>3
  <2> HIDE DEF rem, st
  <2>5. Requested(state, system_task_queue, periodic_task_queue, roundrobin_task_queue, rem)
    BY <1>1, <2>1, <2>4, Begin
  <2>6. CASE CurPriority # ROUND_ROBIN
    <3>1. Dispatch(state, system_task_queue, periodic_task_queue, roundrobin_task_queue, rem)
      BY <2>1, <2>3, <2>6 DEF QuantumQueue
    <3>2. cur_task \in Tasks => state[cur_task] = "RUNNING"
      BY <1>1, RunningTask
    <3>3. roundrobin_task_queue \in Seq(Tasks)
      BY <1>1 DEF Dispatched, TasksTyped
    <3>4. Passes(state, system_task_queue, periodic_task_queue, roundrobin_task_queue, rem)
      BY <2>1, <2>2, <2>5, <2>6, <3>1, <3>2, <3>3, BehindLemma DEF Passes, InTime
    <3> QED  BY <3>4 DEF Class
  <2>7. CASE CurPriority = ROUND_ROBIN
    <3> DEFINE rq == Append(roundrobin_task_queue, cur_task)
    <3>1. /\ cur_task \in Tasks /\ state[cur_task] = "RUNNING"
          /\ priority'[cur_task] = ROUND_ROBIN
      BY <1>1, <2>1, <2>7, RunningTask, Constants DEF CurPriority
    <3>2. /\ system_task_queue \in Seq(Tasks) /\ roundrobin_task_queue \in Seq(Tasks)
          /\ Holds(roundrobin_task_queue, Range(roundrobin_task_queue))
          /\ cur_task \notin Range(roundrobin_task_queue)
      BY <1>1, <3>1 DEF Dispatched, TasksTyped, TasksIn, Holds, InState
    <3>3. rq \in Seq(Tasks) /\ Holds(rq, Range(roundrobin_task_queue) \cup {cur_task})
      BY <3>1, <3>2, AppendHolds
    <3> HIDE DEF rq
    <3>4. Requested([state EXCEPT ![cur_task] = "READY"], system_task_queue,
                    periodic_task_queue, rq, rem)
      <4>1. /\ system_task_queue = system_task_queue
            /\ Holds(rq, Range(roundrobin_task_queue) \cup {cur_task})
        BY <3>3
      <4> QED  BY <2>2, <2>5, <3>1, <3>2, <3>3, <4>1, RequeueTask
    <3>5. Dispatch([state EXCEPT ![cur_task] = "READY"], system_task_queue,
                   periodic_task_queue, rq, rem)
      BY <2>1, <2>3, <2>7 DEF QuantumQueue, rq
    <3>6. Behind(rq)
      BY <3>1, <3>2, BehindLemma DEF rq
    <3>7. /\ [state EXCEPT ![cur_task] = "READY"][cur_task] = "READY" /\ CurPriority # SYSTEM
      BY <1>1, <2>7, <3>1, Constants DEF Dispatched, TasksTyped
    <3>8. Passes([state EXCEPT ![cur_task] = "READY"], system_task_queue,
                 periodic_task_queue, rq, rem)
      BY <2>1, <2>2, <3>4, <3>5, <3>6, <3>7 DEF Passes, InTime
    <3> QED  BY <3>8 DEF Class
  <2> QED  BY <2>6, <2>7
<1> QED  BY <1>2, <1>3

LEMMA Task_NextClass == IInv /\ Task_Next => Class
<1> SUFFICES ASSUME IInv, Task_Next PROVE Class
  OBVIOUS
<1> DEFINE y == [state EXCEPT ![cur_task] = "READY"]
           sys == system_task_queue
           per == periodic_task_queue
           rr == roundrobin_task_queue
           rem == periodic_task_remticks
<1>1. Untouched /\ Dispatched /\ InTask /\ error_msg = "NONE"
  BY Parts DEF Task_Next, InCall, InTask
<1>2. /\ cur_task \in Tasks /\ state[cur_task] = "RUNNING"
      /\ CurPriority = priority[cur_task]
      /\ CurPriority \in {SYSTEM, PERIODIC, ROUND_ROBIN}
      /\ CurPriority = PERIODIC => cur_per_metadata \in Metas
  BY <1>1, RunningTask DEF Task_Next, InCall
<1>3. /\ UNCHANGED <<dead_pool_queue, periodic_dead_pool_queue, priority, periodic_desc,
                     kernel_period_create_meta, creating, service_queue, num_services,
                     ticks_from_start>>
      /\ meta' = IF CurPriority = PERIODIC
                 THEN [meta EXCEPT ![cur_per_metadata].next = NextRelease(cur_per_metadata)]
                 ELSE meta
      /\ Dispatch(y, IF CurPriority = SYSTEM THEN Append(sys, cur_task) ELSE sys,
                  IF CurPriority = PERIODIC
                  THEN PeriodicEnqueue(meta', ticks_from_start, per, cur_per_metadata) ELSE per,
                  IF CurPriority = ROUND_ROBIN THEN Append(rr, cur_task) ELSE rr, rem)
  BY DEF Task_Next, pools, create_vars, service_vars
<1>4. /\ meta' \in [Metas -> Blocks]
      /\ \A m \in Metas : meta'[m].task = meta[m].task /\ meta'[m].wcet = meta[m].wcet
  <2>0. meta \in [Metas -> Blocks]
    BY <1>1 DEF Untouched
  <2>1. CASE CurPriority # PERIODIC
    BY <1>3, <2>0, <2>1
  <2>2. CASE CurPriority = PERIODIC
    <3> DEFINE c == cur_per_metadata
               n == NextRelease(c)
    <3>1. meta[c] \in Blocks /\ c \in Metas
      BY <1>2, <2>0, <2>2
    <3>2. n \in Word
      BY <3>1, Constants DEF NextRelease, Blocks, Word
    <3>3. meta' = [meta EXCEPT ![c].next = n]
      BY <1>3, <2>2
    <3> HIDE DEF n, c
    <3>4. /\ meta'[c] = [meta[c] EXCEPT !.next = n]
          /\ \A m \in Metas : m # c => meta'[m] = meta[m]
          /\ meta' = [meta EXCEPT ![c] = [meta[c] EXCEPT !.next = n]]
      BY <2>0, <3>1, <3>3
    <3>5. /\ [meta[c] EXCEPT !.next = n] \in Blocks
          /\ [meta[c] EXCEPT !.next = n].task = meta[c].task
          /\ [meta[c] EXCEPT !.next = n].wcet = meta[c].wcet
      BY <3>1, <3>2 DEF Blocks
    <3> QED  BY <2>0, <3>1, <3>4, <3>5
  <2> QED  BY <2>1, <2>2
<1>5. Untouched'
  BY <1>1, <1>3, <1>4 DEF Untouched
<1>6. /\ sys \in Seq(Tasks) /\ rr \in Seq(Tasks) /\ per \in Seq(Metas) /\ rem \in Word
      /\ Holds(rr, Range(rr)) /\ cur_task \notin Range(rr)
      /\ Holds(sys, Range(sys)) /\ cur_task \notin Range(sys)
      /\ Within(cur_task, priority, meta, cur_per_metadata, rem)
  BY <1>1, <1>2 DEF Dispatched, TasksTyped, TasksIn, Holds, InState
<1>7. Requested(state, sys, per, rr, rem)
  BY <1>1, <1>3, <1>4, <1>6, Begin
<1>8. y[cur_task] = "READY" /\ Behind(rr) /\ Behind(Append(rr, cur_task))
  BY <1>1, <1>2, <1>6, BehindLemma DEF Dispatched, TasksTyped
<1>9. \A m \in Range(per) : meta'[m].next = meta[m].next
  <2>1. CASE CurPriority # PERIODIC
    BY <1>3, <2>1
  <2>2. CASE CurPriority = PERIODIC
    <3>1. cur_per_metadata \notin Range(per)
      <4>1. BlocksIn(state, priority, periodic_desc, meta, per, periodic_dead_pool_queue)
        BY <1>1 DEF Dispatched
      <4>2. meta[cur_per_metadata].task = cur_task /\ cur_per_metadata \in Metas
            /\ meta[cur_per_metadata].task # NULL
        BY <1>1, <1>2, <2>2, RunningTask, Constants
      <4> QED  BY <1>2, <4>1, <4>2 DEF BlocksIn
    <3>2. \A m \in Range(per) : m \in Metas
      BY <1>6, SeqEnds
    <3>3. meta \in [Metas -> Blocks]
          /\ meta' = [meta EXCEPT ![cur_per_metadata].next = NextRelease(cur_per_metadata)]
      BY <1>1, <1>3, <2>2 DEF Untouched
    <3> QED  BY <3>1, <3>2, <3>3
  <2> QED  BY <2>1, <2>2
<1> HIDE DEF y, sys, per, rr, rem
<1>10. CASE CurPriority = SYSTEM
  <2>1. Append(sys, cur_task) \in Seq(Tasks) /\ Holds(Append(sys, cur_task), Range(sys) \cup {cur_task})
    BY <1>2, <1>6, AppendHolds
  <2>2. Requested(y, Append(sys, cur_task), per, rr, rem)
    BY <1>2, <1>3, <1>5, <1>6, <1>7, <1>10, <2>1, RequeueTask DEF y
  <2>3. Dispatch(y, Append(sys, cur_task), per, rr, rem)
    BY <1>3, <1>10, Constants
  <2>4. Passes(y, Append(sys, cur_task), per, rr, rem)
    BY <1>3, <1>5, <1>8, <1>9, <2>2, <2>3 DEF Passes, InTime, sys, per
  <2> QED  BY <2>4 DEF Class
<1>11. CASE CurPriority = ROUND_ROBIN
  <2>1. Append(rr, cur_task) \in Seq(Tasks) /\ Holds(Append(rr, cur_task), Range(rr) \cup {cur_task})
    BY <1>2, <1>6, AppendHolds
  <2>2. Requested(y, sys, per, Append(rr, cur_task), rem)
    BY <1>2, <1>3, <1>5, <1>6, <1>7, <1>11, <2>1, RequeueTask DEF y
  <2>3. Dispatch(y, sys, per, Append(rr, cur_task), rem)
    BY <1>3, <1>11, Constants
  <2>4. Passes(y, sys, per, Append(rr, cur_task), rem)
    BY <1>3, <1>5, <1>8, <1>9, <1>11, <2>2, <2>3, Constants DEF Passes, InTime, per
  <2> QED  BY <2>4 DEF Class
<1>12. CASE CurPriority = PERIODIC
  <2> DEFINE q == PeriodicEnqueue(meta', ticks_from_start, per, cur_per_metadata)
  <2>1. Requested(y, sys, q, rr, rem)
    BY <1>2, <1>3, <1>5, <1>7, <1>12, RequeueBlock DEF y
  <2>2. Dispatch(y, sys, q, rr, rem)
    BY <1>3, <1>12, Constants
  <2>3. InTime(q)
    BY <1>2, <1>3, <1>9, <1>12 DEF InTime, per
  <2> HIDE DEF q
  <2>4. Passes(y, sys, q, rr, rem)
    BY <1>3, <1>5, <1>8, <1>12, <2>1, <2>2, <2>3, Constants DEF Passes
  <2> QED  BY <2>4 DEF Class
<1> QED  BY <1>2, <1>10, <1>11, <1>12

LEMMA Service_InitClass == IInv /\ Service_Init => Class
<1> SUFFICES ASSUME IInv, Service_Init PROVE Class
  OBVIOUS
<1>1. Untouched /\ Dispatched /\ InTask
  BY Parts DEF Service_Init, InCall
<1>2. CASE num_services >= MAXSERVICES
  <2>1. Abort("SERVICE_CAPACITY_REACHED") /\ "SERVICE_CAPACITY_REACHED" \in Errors
    BY <1>2 DEF Service_Init, Errors
  <2> QED  BY <1>1, <2>1, AbortClass
<1>3. CASE ~(num_services >= MAXSERVICES)
  <2>1. /\ num_services' = num_services + 1
        /\ UNCHANGED <<dead_pool_queue, periodic_dead_pool_queue, priority, periodic_desc, meta,
                       kernel_period_create_meta, creating, service_queue, ticks_from_start>>
        /\ Dispatch(state, system_task_queue, periodic_task_queue, roundrobin_task_queue,
                    periodic_task_remticks)
    BY <1>3 DEF Service_Init, pools, descriptors, create_vars
  <2>2. num_services' \in 0 .. MAXSERVICES
    BY <1>1, <1>3, <2>1, RoombaKernelAssumption DEF Untouched, RoombaKernelAssumption
  <2>3. Untouched'
    BY <1>1, <2>1, <2>2 DEF Untouched
  <2>4. Requested(state, system_task_queue, periodic_task_queue, roundrobin_task_queue,
                  periodic_task_remticks)
    BY <1>1, <2>1, Begin DEF Dispatched
  <2>5. roundrobin_task_queue \in Seq(Tasks) /\ (cur_task \in Tasks => state[cur_task] = "RUNNING")
    BY <1>1, RunningTask DEF Dispatched, TasksTyped
  <2>6. Passes(state, system_task_queue, periodic_task_queue, roundrobin_task_queue,
               periodic_task_remticks)
    BY <2>1, <2>3, <2>4, <2>5, BehindLemma DEF Passes, InTime
  <2> QED  BY <2>6 DEF Class
<1> QED  BY <1>2, <1>3

\* The steps of a task that does not enter the kernel.
LEMMA OutsideClass ==
  ASSUME IInv, UNCHANGED <<cur_task, state, ready_queues, cur_per_metadata,
                 periodic_task_remticks, pools, descriptors, service_vars, ticks_from_start,
                 error_msg>>,
         kernel_preemption_disabled' \in BOOLEAN,
         kernel_preemption_disabled => kernel_preemption_disabled',
         kernel_period_create_meta' \in [period : Word, next : Word, wcet : Word],
         creating' \in [Tasks -> [stage : 0 .. 3, period : Word, next : Word, wcet : Word]]
  PROVE  Class
<1>1. Untouched /\ Dispatched
  BY Parts
<1>2. /\ UNCHANGED <<cur_task, state, system_task_queue, periodic_task_queue,
                     roundrobin_task_queue, cur_per_metadata, periodic_task_remticks>>
      /\ UNCHANGED <<dead_pool_queue, periodic_dead_pool_queue, priority, periodic_desc, meta,
                     service_queue, num_services, ticks_from_start, error_msg>>
  BY DEF ready_queues, pools, descriptors, service_vars
<1>3. Untouched'
  BY <1>1, <1>2 DEF Untouched
<1>4. Dispatched'
  BY <1>1, <1>2 DEF Dispatched, TasksTyped, CurPriority
<1> QED  BY <1>2, <1>3, <1>4 DEF Class, Rests

LEMMA DisablePreemptionClass == IInv /\ OS_DisablePreemption => Class
<1> SUFFICES ASSUME IInv, OS_DisablePreemption PROVE Class
  OBVIOUS
<1>1. /\ kernel_preemption_disabled' \in BOOLEAN
      /\ kernel_preemption_disabled => kernel_preemption_disabled'
  BY DEF OS_DisablePreemption
<1>2. Untouched
  BY Parts
<1> QED  BY <1>1, <1>2, OutsideClass DEF OS_DisablePreemption, create_vars, Untouched

LEMMA Task_Create_PeriodicClass ==
  ASSUME IInv, NEW per \in PeriodArgs, NEW wc \in WcetArgs, NEW st \in StartArgs,
         Task_Create_Periodic(per, wc, st)
  PROVE  Class
<1>1. Untouched /\ Dispatched /\ InTask
  BY Parts DEF Task_Create_Periodic, InCall
<1>2. CASE per = 0 \/ per <= wc
  <2>1. Abort("PERIODIC_INVALID_CONFIGURATION") /\ "PERIODIC_INVALID_CONFIGURATION" \in Errors
    BY <1>2 DEF Task_Create_Periodic, Errors
  <2> QED  BY <1>1, <2>1, AbortClass
<1>3. CASE ~(per = 0 \/ per <= wc)
  <2>1. per \in Word /\ wc \in Word /\ st \in Word
    BY RoombaKernelAssumption DEF RoombaKernelAssumption, Word
  <2>2. /\ kernel_period_create_meta' = [kernel_period_create_meta EXCEPT !.period = per]
        /\ creating' = [creating EXCEPT ![cur_task] =
                          [stage |-> 1, period |-> per, next |-> st, wcet |-> wc]]
        /\ UNCHANGED <<dispatch_vars, pools, descriptors, service_vars, ticks_from_start,
                       error_msg>>
    BY <1>3 DEF Task_Create_Periodic
  <2>3. kernel_period_create_meta' \in [period : Word, next : Word, wcet : Word]
    BY <1>1, <2>1, <2>2 DEF Untouched
  <2>4. creating' \in [Tasks -> [stage : 0 .. 3, period : Word, next : Word, wcet : Word]]
    <3>1. [stage |-> 1, period |-> per, next |-> st, wcet |-> wc]
            \in [stage : 0 .. 3, period : Word, next : Word, wcet : Word]
      BY <2>1
    <3>2. creating \in [Tasks -> [stage : 0 .. 3, period : Word, next : Word, wcet : Word]]
      BY <1>1 DEF Untouched
    <3> QED  BY <2>2, <3>1, <3>2
  <2>5. /\ kernel_preemption_disabled' \in BOOLEAN
        /\ kernel_preemption_disabled => kernel_preemption_disabled'
    BY <1>1, <2>2 DEF Dispatched, dispatch_vars
  <2> QED  BY <2>2, <2>3, <2>4, <2>5, OutsideClass DEF dispatch_vars
<1> QED  BY <1>2, <1>3

LEMMA AssignClass ==
  ASSUME IInv, NEW stage \in 1 .. 2, NEW assigned, Assign(stage, assigned),
         assigned \in [period : Word, next : Word, wcet : Word]
  PROVE  Class
<1>1. Untouched /\ Dispatched
  BY Parts
<1>2. creating' = [creating EXCEPT ![cur_task].stage = stage + 1] /\ cur_task \in Tasks
  BY <1>1 DEF Assign, Dispatched
<1>3. creating' \in [Tasks -> [stage : 0 .. 3, period : Word, next : Word, wcet : Word]]
  <2>1. creating[cur_task] \in [stage : 0 .. 3, period : Word, next : Word, wcet : Word]
    BY <1>1, <1>2 DEF Untouched
  <2>2. [creating[cur_task] EXCEPT !.stage = stage + 1]
          \in [stage : 0 .. 3, period : Word, next : Word, wcet : Word]
    BY <2>1
  <2> QED  BY <1>1, <1>2, <2>2 DEF Untouched
<1>4. /\ kernel_preemption_disabled' \in BOOLEAN
      /\ kernel_preemption_disabled => kernel_preemption_disabled'
  BY <1>1 DEF Assign, Dispatched, dispatch_vars
<1> QED  BY <1>3, <1>4, OutsideClass DEF Assign, dispatch_vars

LEMMA AssignsClass == IInv /\ (AssignNext \/ AssignWcet) => Class
<1> SUFFICES ASSUME IInv, AssignNext \/ AssignWcet PROVE Class
  OBVIOUS
<1>1. /\ kernel_period_create_meta \in [period : Word, next : Word, wcet : Word]
      /\ creating[cur_task] \in [stage : 0 .. 3, period : Word, next : Word, wcet : Word]
  BY Parts DEF Untouched, Dispatched, AssignNext, AssignWcet
<1>2. CASE AssignNext
  <2>1. Assign(1, [kernel_period_create_meta EXCEPT !.next = creating[cur_task].next])
    BY <1>2 DEF AssignNext
  <2>2. [kernel_period_create_meta EXCEPT !.next = creating[cur_task].next]
          \in [period : Word, next : Word, wcet : Word]
    BY <1>1
  <2> QED  BY <2>1, <2>2, AssignClass
<1>3. CASE AssignWcet
  <2>1. Assign(2, [kernel_period_create_meta EXCEPT !.wcet = creating[cur_task].wcet])
    BY <1>3 DEF AssignWcet
  <2>2. [kernel_period_create_meta EXCEPT !.wcet = creating[cur_task].wcet]
          \in [period : Word, next : Word, wcet : Word]
    BY <1>1
  <2> QED  BY <2>1, <2>2, AssignClass
<1> QED  BY <1>2, <1>3


-----------------------------------------------------------------------------
(* Task creation and termination.                                          *)

\* What BlocksIn says depends only on the states of the PERIODIC tasks.
LEMMA BlocksInKept ==
  ASSUME NEW st, NEW st2, NEW pr, NEW pd, NEW mt \in [Metas -> Blocks], NEW pq, NEW bq,
         BlocksIn(st, pr, pd, mt, pq, bq),
         \A u \in Tasks : pr[u] = PERIODIC => st2[u] = st[u]
  PROVE  BlocksIn(st2, pr, pd, mt, pq, bq)
<1>1. \A m \in Metas : mt[m].task # NULL => mt[m].task \in Tasks
  BY DEF Blocks
<1> QED  BY <1>1 DEF BlocksIn

\* The free descriptor p is taken and queued at the level prio.
Created(prio, p, new, sq, rq) ==
  /\ dead_pool_queue # <<>> /\ p = Head(dead_pool_queue)
  /\ dead_pool_queue' = Tail(dead_pool_queue) /\ service_queue' = service_queue
  /\ priority' = [priority EXCEPT ![p] = prio]
  /\ new = [state EXCEPT ![p] = "READY"]
  /\ sq = IF prio = SYSTEM THEN Append(system_task_queue, p) ELSE system_task_queue
  /\ rq = IF prio = ROUND_ROBIN THEN Append(roundrobin_task_queue, p)
                                ELSE roundrobin_task_queue

LEMMA CreatedTask ==
  ASSUME IInv, InTask, NEW prio \in Levels, NEW p, NEW new, NEW sq, NEW rq,
         Created(prio, p, new, sq, rq)
  PROVE  /\ p \in Tasks /\ state[p] = "DEAD" /\ p # cur_task
         /\ new[p] = "READY" /\ priority'[p] = prio
         /\ \A u \in Tasks : u # p => new[u] = state[u] /\ priority'[u] = priority[u]
         /\ dead_pool_queue' \in Seq(Tasks) /\ priority' \in [Tasks -> Levels]
         /\ TasksTyped(new, sq, rq)
         /\ TasksIn(new, priority', dead_pool_queue', sq, rq, service_queue')
         /\ Behind(rq)
<1> USE DEF Created
<1>0. /\ priority \in [Tasks -> Levels] /\ dead_pool_queue \in Seq(Tasks)
      /\ state \in [Tasks -> States] /\ system_task_queue \in Seq(Tasks)
      /\ roundrobin_task_queue \in Seq(Tasks)
      /\ TasksIn(state, priority, dead_pool_queue, system_task_queue,
                 roundrobin_task_queue, service_queue)
      /\ \A t \in Tasks : state[t] = "RUNNING" <=> cur_task = t
  BY Parts DEF Untouched, Dispatched, InTask, TasksTyped
<1>1. /\ p \in Tasks /\ state[p] = "DEAD" /\ dead_pool_queue' \in Seq(Tasks)
      /\ Holds(dead_pool_queue', {t \in Tasks : state[t] = "DEAD"} \ {p})
  <2> DEFINE Dead == {t \in Tasks : state[t] = "DEAD"}
  <2>1. Holds(dead_pool_queue, Dead)
    BY <1>0 DEF TasksIn
  <2>2. \A t \in Dead : t \in Tasks /\ state[t] = "DEAD"
    OBVIOUS
  <2> HIDE DEF Dead
  <2>3. /\ p \in Dead /\ p \in Tasks /\ dead_pool_queue' \in Seq(Tasks)
        /\ Holds(dead_pool_queue', Dead \ {p})
    BY <1>0, <2>1, TailHolds
  <2> QED  BY <2>2, <2>3 DEF Dead
<1>2. /\ p # cur_task /\ new[p] = "READY" /\ priority'[p] = prio
      /\ \A u \in Tasks : u # p => new[u] = state[u] /\ priority'[u] = priority[u]
      /\ priority' \in [Tasks -> Levels] /\ new \in [Tasks -> States]
  BY <1>0, <1>1 DEF States
<1>3. {t \in Tasks : new[t] = "DEAD"} = {t \in Tasks : state[t] = "DEAD"} \ {p}
  BY <1>1, <1>2
<1>4. \A l \in Levels : InState(new, priority', l, "READY")
        = IF l = prio THEN InState(state, priority, l, "READY") \cup {p}
                      ELSE InState(state, priority, l, "READY")
  BY <1>1, <1>2 DEF InState
<1>5. \A l : p \notin InState(state, priority, l, "READY")
  BY <1>1 DEF InState
<1>6. /\ Holds(system_task_queue, InState(state, priority, SYSTEM, "READY"))
      /\ Holds(roundrobin_task_queue, InState(state, priority, ROUND_ROBIN, "READY"))
  BY <1>0 DEF TasksIn
<1>7. sq \in Seq(Tasks) /\ Holds(sq, InState(new, priority', SYSTEM, "READY"))
  <2>1. CASE prio = SYSTEM
    <3>1. /\ Append(system_task_queue, p) \in Seq(Tasks)
          /\ Holds(Append(system_task_queue, p),
                   InState(state, priority, SYSTEM, "READY") \cup {p})
      BY <1>0, <1>1, <1>5, <1>6, AppendHolds
    <3> QED  BY <1>4, <2>1, <3>1
  <2>2. CASE prio # SYSTEM
    BY <1>0, <1>4, <1>6, <2>2 DEF Levels
  <2> QED  BY <2>1, <2>2
<1>8. rq \in Seq(Tasks) /\ Holds(rq, InState(new, priority', ROUND_ROBIN, "READY"))
  <2>1. CASE prio = ROUND_ROBIN
    <3>1. /\ Append(roundrobin_task_queue, p) \in Seq(Tasks)
          /\ Holds(Append(roundrobin_task_queue, p),
                   InState(state, priority, ROUND_ROBIN, "READY") \cup {p})
      BY <1>0, <1>1, <1>5, <1>6, AppendHolds
    <3> QED  BY <1>4, <2>1, <3>1
  <2>2. CASE prio # ROUND_ROBIN
    BY <1>0, <1>4, <1>6, <2>2 DEF Levels
  <2> QED  BY <2>1, <2>2
<1>9. /\ InState(new, priority', PERIODIC, "WAITING") = {}
      /\ \A t \in Tasks : new[t] = "WAITING" <=> state[t] = "WAITING"
  BY <1>0, <1>1, <1>2 DEF TasksIn, InState
<1>10. TasksIn(new, priority', dead_pool_queue', sq, rq, service_queue')
  BY <1>0, <1>1, <1>3, <1>7, <1>8, <1>9 DEF TasksIn
<1>11. Behind(rq)
  <2>1. p \notin Range(roundrobin_task_queue)
    BY <1>5, <1>6 DEF Holds
  <2> QED  BY <1>0, <1>1, <2>1, BehindLemma
<1> QED  BY <1>1, <1>2, <1>7, <1>8, <1>10, <1>11 DEF TasksTyped

LEMMA CreateClass ==
  ASSUME IInv, InTask, cur_task # Idle, NEW prio \in Levels, Create(prio)
  PROVE  Class
<1>1. Untouched /\ Dispatched /\ error_msg = "NONE"
  BY Parts DEF InTask
<1>2. CASE dead_pool_queue = <<>>
  <2>1. Abort("TOO_MANY_TASKS") /\ "TOO_MANY_TASKS" \in Errors
    BY <1>2 DEF Create, Errors
  <2> QED  BY <2>1, AbortClass
<1>3. CASE dead_pool_queue # <<>> /\ prio = PERIODIC /\ periodic_dead_pool_queue = <<>>
  <2>1. Abort("TOO_MANY_PERIODIC_TASKS") /\ "TOO_MANY_PERIODIC_TASKS" \in Errors
    BY <1>3 DEF Create, Errors
  <2> QED  BY <2>1, AbortClass
<1>4. CASE /\ dead_pool_queue # <<>>
           /\ ~(prio = PERIODIC /\ periodic_dead_pool_queue = <<>>)
  <2> DEFINE p == Head(dead_pool_queue)
             pt == Head(periodic_dead_pool_queue)
             new == [state EXCEPT ![p] = "READY"]
             sq == IF prio = SYSTEM THEN Append(system_task_queue, p) ELSE system_task_queue
             rq == IF prio = ROUND_ROBIN THEN Append(roundrobin_task_queue, p)
                                         ELSE roundrobin_task_queue
             pq == IF prio = PERIODIC
                   THEN PeriodicEnqueue(meta', ticks_from_start, periodic_task_queue, pt)
                   ELSE periodic_task_queue
             args == kernel_period_create_meta
             block == [task |-> p, period |-> args.period, wcet |-> args.wcet,
                       next |-> args.next]
  <2>1. /\ dead_pool_queue' = Tail(dead_pool_queue)
        /\ priority' = [priority EXCEPT ![p] = prio]
        /\ creating' = [creating EXCEPT ![cur_task] = NoCall]
        /\ UNCHANGED <<kernel_period_create_meta, service_queue, num_services, ticks_from_start>>
        /\ Preempt(new, sq, pq, rq, periodic_desc[cur_task])
    BY <1>4 DEF Create, service_vars
  <2>2. prio = PERIODIC =>
          /\ periodic_dead_pool_queue' = Tail(periodic_dead_pool_queue)
          /\ periodic_desc' = [periodic_desc EXCEPT ![p] = pt]
          /\ meta' = [meta EXCEPT ![pt] = block]
    BY <1>4 DEF Create
  <2>3. prio # PERIODIC =>
          UNCHANGED <<periodic_dead_pool_queue, periodic_desc, meta>>
    BY <1>4 DEF Create
  <2>4. /\ cur_task \in Tasks /\ state[cur_task] = "RUNNING" /\ cur_task # Idle
        /\ CurPriority = priority[cur_task]
        /\ CurPriority = PERIODIC => /\ cur_per_metadata \in Metas
                                     /\ cur_per_metadata = periodic_desc[cur_task]
                                     /\ meta[cur_per_metadata].task = cur_task
        /\ \A t \in Tasks : state[t] = "RUNNING" <=> cur_task = t
    BY RunningTask
  <2> HIDE DEF new, p, sq, rq
  <2>5. /\ p \in Tasks /\ state[p] = "DEAD" /\ p # cur_task
        /\ new[p] = "READY" /\ priority'[p] = prio
        /\ \A u \in Tasks : u # p => new[u] = state[u] /\ priority'[u] = priority[u]
        /\ dead_pool_queue' \in Seq(Tasks) /\ priority' \in [Tasks -> Levels]
        /\ TasksTyped(new, sq, rq)
        /\ TasksIn(new, priority', dead_pool_queue', sq, rq, service_queue')
        /\ Behind(rq)
    <3>1. Created(prio, p, new, sq, rq)
      BY <1>4, <2>1 DEF Created, new, p, sq, rq
    <3> QED  BY <3>1, CreatedTask
  <2>6. BlocksIn(state, priority, periodic_desc, meta, periodic_task_queue,
                 periodic_dead_pool_queue)
    BY <1>1 DEF Dispatched
  <2>7. \A m \in Metas : meta[m].task # NULL =>
          meta[m].task \in Tasks /\ meta[m].task # p
    <3>1. ASSUME NEW m \in Metas, meta[m].task # NULL
          PROVE  meta[m].task \in Tasks /\ meta[m].task # p
      <4>1. meta[m].task \in Tasks
        BY <1>1, <3>1 DEF Untouched, Blocks
      <4>2. state[meta[m].task] = IF m \in Range(periodic_task_queue) THEN "READY" ELSE "RUNNING"
        BY <2>6, <3>1 DEF BlocksIn
      <4> QED  BY <2>5, <4>1, <4>2
    <3> QED  BY <3>1
  <2>8. /\ periodic_dead_pool_queue' \in Seq(Metas)
        /\ periodic_desc' \in [Tasks -> Metas \cup {NULL}]
        /\ meta' \in [Metas -> Blocks] /\ pq \in Seq(Metas)
        /\ \A u \in Tasks : u # p => periodic_desc'[u] = periodic_desc[u]
        /\ \A m \in Metas : meta[m].task # NULL => meta'[m] = meta[m]
        /\ BlocksIn(new, priority', periodic_desc', meta', pq, periodic_dead_pool_queue')
    <3>0. /\ meta \in [Metas -> Blocks] /\ periodic_dead_pool_queue \in Seq(Metas)
          /\ periodic_desc \in [Tasks -> Metas \cup {NULL}] /\ periodic_task_queue \in Seq(Metas)
      BY <1>1 DEF Untouched, Dispatched
    <3>1. CASE prio # PERIODIC
      <4>1. /\ UNCHANGED <<periodic_dead_pool_queue, periodic_desc, meta>>
            /\ pq = periodic_task_queue
        BY <2>3, <3>1
      <4>2. ASSUME NEW m \in Metas, meta[m].task # NULL
            PROVE  /\ periodic_desc[meta[m].task] = m /\ priority'[meta[m].task] = PERIODIC
                   /\ new[meta[m].task] = IF m \in Range(periodic_task_queue)
                                          THEN "READY" ELSE "RUNNING"
        <5>1. /\ periodic_desc[meta[m].task] = m /\ priority[meta[m].task] = PERIODIC
              /\ state[meta[m].task] = IF m \in Range(periodic_task_queue)
                                       THEN "READY" ELSE "RUNNING"
          BY <2>6, <4>2 DEF BlocksIn
        <5>2. /\ new[meta[m].task] = state[meta[m].task]
              /\ priority'[meta[m].task] = priority[meta[m].task]
          BY <2>5, <2>7, <4>2
        <5> QED  BY <5>1, <5>2
      <4>3. \A u \in Tasks : priority'[u] = PERIODIC /\ new[u] # "DEAD" =>
              periodic_desc[u] # NULL /\ meta[periodic_desc[u]].task = u
        BY <2>5, <2>6, <3>1 DEF BlocksIn
      <4>4. BlocksIn(new, priority', periodic_desc, meta, periodic_task_queue,
                     periodic_dead_pool_queue)
        BY <2>6, <4>2, <4>3 DEF BlocksIn
      <4> QED  BY <3>0, <4>1, <4>4
    <3>2. CASE prio = PERIODIC
      <4> HIDE DEF pt, pq, block
      <4>1. /\ periodic_dead_pool_queue' = Tail(periodic_dead_pool_queue)
            /\ periodic_desc' = [periodic_desc EXCEPT ![p] = pt]
            /\ meta' = [meta EXCEPT ![pt] = block]
            /\ pq = PeriodicEnqueue(meta', ticks_from_start, periodic_task_queue, pt)
        BY <2>2, <3>2 DEF pq
      <4>2. /\ pt \in Metas /\ meta[pt].task = NULL
            /\ periodic_dead_pool_queue' \in Seq(Metas)
            /\ Holds(periodic_dead_pool_queue', {m \in Metas : meta[m].task = NULL} \ {pt})
        <5> DEFINE Free == {m \in Metas : meta[m].task = NULL}
        <5>1. Holds(periodic_dead_pool_queue, Free)
          BY <2>6 DEF BlocksIn
        <5>2. \A m \in Free : m \in Metas /\ meta[m].task = NULL
          OBVIOUS
        <5> HIDE DEF Free
        <5>3. /\ pt \in Free /\ periodic_dead_pool_queue' \in Seq(Metas)
              /\ Holds(periodic_dead_pool_queue', Free \ {pt})
          BY <1>4, <3>0, <3>2, <4>1, <5>1, TailHolds DEF pt
        <5> QED  BY <5>2, <5>3 DEF Free
      <4>3. block \in Blocks /\ block.task = p /\ p # NULL
        <5>1. args.period \in Word /\ args.wcet \in Word /\ args.next \in Word
          BY <1>1 DEF Untouched
        <5> QED  BY <2>5, <5>1, Constants DEF Blocks, block
      <4>4. /\ meta' \in [Metas -> Blocks] /\ meta'[pt].task = p
            /\ \A m \in Metas : m # pt => meta'[m] = meta[m]
            /\ periodic_desc' \in [Tasks -> Metas \cup {NULL}] /\ periodic_desc'[p] = pt
            /\ \A u \in Tasks : u # p => periodic_desc'[u] = periodic_desc[u]
        BY <2>5, <3>0, <4>1, <4>2, <4>3
      <4>5. pt \notin Range(periodic_task_queue)
        BY <2>6, <4>2 DEF BlocksIn
      <4>6. pq \in Seq(Metas) /\ Holds(pq, Range(periodic_task_queue) \cup {pt})
        <5>1. Holds(periodic_task_queue, Range(periodic_task_queue))
          BY <2>6 DEF BlocksIn, Holds
        <5> QED  BY <3>0, <4>1, <4>2, <4>5, <5>1, EnqueueHolds
      <4>7. Range(pq) = Range(periodic_task_queue) \cup {pt} /\ IsInjective(pq)
        BY <4>6 DEF Holds
      <4>8. {m \in Metas : meta'[m].task = NULL} = {m \in Metas : meta[m].task = NULL} \ {pt}
        BY <4>3, <4>4
      <4>9. ASSUME NEW m \in Metas, meta'[m].task # NULL
            PROVE  /\ periodic_desc'[meta'[m].task] = m /\ priority'[meta'[m].task] = PERIODIC
                   /\ new[meta'[m].task] = IF m \in Range(pq) THEN "READY" ELSE "RUNNING"
        <5>1. CASE m = pt
          BY <2>5, <3>2, <4>4, <4>7, <5>1
        <5>2. CASE m # pt
          <6>1. meta'[m] = meta[m] /\ meta[m].task # NULL
            BY <4>4, <4>9, <5>2
          <6>2. /\ periodic_desc[meta[m].task] = m /\ priority[meta[m].task] = PERIODIC
                /\ state[meta[m].task] = IF m \in Range(periodic_task_queue)
                                         THEN "READY" ELSE "RUNNING"
            BY <2>6, <6>1 DEF BlocksIn
          <6>3. /\ new[meta[m].task] = state[meta[m].task]
                /\ priority'[meta[m].task] = priority[meta[m].task]
                /\ periodic_desc'[meta[m].task] = periodic_desc[meta[m].task]
            BY <2>5, <2>7, <4>4, <6>1
          <6> QED  BY <4>7, <5>2, <6>1, <6>2, <6>3
        <5> QED  BY <5>1, <5>2
      <4>10. ASSUME NEW u \in Tasks, priority'[u] = PERIODIC, new[u] # "DEAD"
             PROVE  periodic_desc'[u] # NULL /\ meta'[periodic_desc'[u]].task = u
        <5>1. CASE u = p
          BY <4>2, <4>4, <5>1, Constants
        <5>2. CASE u # p
          <6>1. /\ periodic_desc'[u] = periodic_desc[u] /\ periodic_desc[u] # NULL
                /\ meta[periodic_desc[u]].task = u
            BY <2>5, <2>6, <4>4, <4>10, <5>2 DEF BlocksIn
          <6>2. periodic_desc[u] # pt /\ periodic_desc[u] \in Metas
            BY <3>0, <4>2, <6>1, Constants
          <6> QED  BY <4>4, <6>1, <6>2
        <5> QED  BY <5>1, <5>2
      <4>11. \A m \in Range(pq) : meta'[m].task # NULL
        <5>1. \A m \in Range(periodic_task_queue) : meta[m].task # NULL /\ m \in Metas
          BY <2>6, <3>0, SeqEnds DEF BlocksIn
        <5> QED  BY <4>3, <4>4, <4>7, <5>1
      <4>12. BlocksIn(new, priority', periodic_desc', meta', pq, periodic_dead_pool_queue')
        BY <4>2, <4>7, <4>8, <4>9, <4>10, <4>11 DEF BlocksIn
      <4> QED  BY <4>2, <4>4, <4>6, <4>12
    <3> QED  BY <3>1, <3>2
  <2> HIDE DEF pt, pq, block
  <2>9. creating' \in [Tasks -> [stage : 0 .. 3, period : Word, next : Word, wcet : Word]]
    <3>1. NoCall \in [stage : 0 .. 3, period : Word, next : Word, wcet : Word]
      BY Constants DEF NoCall, Word
    <3> QED  BY <1>1, <2>1, <3>1 DEF Untouched
  <2>10. Untouched'
    BY <1>1, <2>1, <2>5, <2>8, <2>9 DEF Untouched
  <2>11. /\ priority'[cur_task] = priority[cur_task] /\ new[cur_task] = "RUNNING"
         /\ periodic_desc'[cur_task] = periodic_desc[cur_task]
         /\ CurPriority = PERIODIC => meta'[cur_per_metadata] = meta[cur_per_metadata]
    BY <2>4, <2>5, <2>8, Constants
  <2>12. Within(cur_task, priority', meta', cur_per_metadata, periodic_task_remticks)
    <3>1. Within(cur_task, priority, meta, cur_per_metadata, periodic_task_remticks)
      BY <1>1 DEF Dispatched
    <3> QED  BY <2>4, <2>11, <3>1 DEF Within
  <2>13. \A t \in Tasks : new[t] = "RUNNING" => t = cur_task
    BY <2>4, <2>5
  <2>14. Requested(new, sq, pq, rq, periodic_task_remticks)
    BY <1>1, <2>4, <2>5, <2>8, <2>11, <2>12, <2>13 DEF Requested, Dispatched
  <2>15. kernel_preemption_disabled \in BOOLEAN
    BY <1>1 DEF Dispatched
  <2>16. Preempt(new, sq, pq, rq, periodic_desc[cur_task])
    BY <2>1 DEF new, sq, pq, rq, p, pt
  <2>17. InTime(pq)
    <3>1. \A m \in Range(periodic_task_queue) : m \in Metas /\ meta[m].task # NULL
      <4>1. periodic_task_queue \in Seq(Metas)
        BY <1>1 DEF Dispatched
      <4> QED  BY <2>6, <4>1, SeqEnds DEF BlocksIn
    <3>2. \A m \in Range(periodic_task_queue) : meta'[m].next = meta[m].next
      BY <2>8, <3>1
    <3>3. CASE prio # PERIODIC
      BY <2>1, <3>2, <3>3 DEF InTime, pq
    <3>4. CASE prio = PERIODIC
      <4>1. pq = PeriodicEnqueue(meta', ticks_from_start, periodic_task_queue, pt)
        BY <3>4 DEF pq
      <4>2. pt \in Metas
        BY <1>1, <1>4, <3>4, SeqEnds DEF pt, Untouched
      <4> QED  BY <2>1, <3>2, <4>1, <4>2 DEF InTime
    <3> QED  BY <3>3, <3>4
  <2>18. Readies(new, sq, pq, rq, periodic_desc[cur_task])
    BY <2>1, <2>4, <2>5, <2>10, <2>11, <2>14, <2>15, <2>16, <2>17 DEF Readies
  <2> QED  BY <2>18 DEF Class
<1> QED  BY <1>2, <1>3, <1>4

LEMMA CreatesClass ==
  IInv /\ (Task_Create_System \/ Task_Create_RR \/ kernel_create_helper) => Class
<1>1. SYSTEM \in Levels /\ ROUND_ROBIN \in Levels /\ PERIODIC \in Levels
  BY DEF Levels
<1> QED
  BY <1>1, CreateClass DEF Task_Create_System, Task_Create_RR, kernel_create_helper, InCall

LEMMA Task_TerminateClass == IInv /\ Task_Terminate => Class
<1> SUFFICES ASSUME IInv, Task_Terminate PROVE Class
  OBVIOUS
<1> DEFINE y == [state EXCEPT ![cur_task] = "DEAD"]
           c == periodic_desc[cur_task]
           sys == system_task_queue
           per == periodic_task_queue
           rr == roundrobin_task_queue
           rem == periodic_task_remticks
<1>1. Untouched /\ Dispatched /\ InTask /\ error_msg = "NONE"
  BY Parts DEF Task_Terminate, InCall, InTask
<1>2. /\ cur_task \in Tasks /\ state[cur_task] = "RUNNING" /\ cur_task # Idle
      /\ CurPriority = priority[cur_task]
      /\ CurPriority = PERIODIC => /\ c = cur_per_metadata /\ c \in Metas
                                   /\ meta[c].task = cur_task
      /\ \A t \in Tasks : state[t] = "RUNNING" <=> cur_task = t
  BY <1>1, RunningTask DEF Task_Terminate, InCall
<1>3. /\ dead_pool_queue' = Append(dead_pool_queue, cur_task)
      /\ periodic_dead_pool_queue' = FreedBlocks
      /\ meta' = IF CurPriority = PERIODIC THEN [meta EXCEPT ![c].task = NULL] ELSE meta
      /\ UNCHANGED <<priority, periodic_desc, kernel_period_create_meta, creating,
                     service_queue, num_services, ticks_from_start>>
      /\ Dispatch(y, sys, per, rr, rem)
  BY DEF Task_Terminate, create_vars, service_vars
<1>4. /\ state \in [Tasks -> States] /\ dead_pool_queue \in Seq(Tasks)
      /\ meta \in [Metas -> Blocks] /\ periodic_dead_pool_queue \in Seq(Metas)
      /\ TasksTyped(state, sys, rr) /\ per \in Seq(Metas) /\ rem \in Word
      /\ periodic_desc \in [Tasks -> Metas \cup {NULL}]
      /\ cur_per_metadata \in Metas \cup {NULL}
      /\ TasksIn(state, priority, dead_pool_queue, sys, rr, service_queue)
      /\ BlocksIn(state, priority, periodic_desc, meta, per, periodic_dead_pool_queue)
      /\ Within(cur_task, priority, meta, cur_per_metadata, rem)
  BY <1>1 DEF Untouched, Dispatched, TasksTyped
<1>5. /\ y \in [Tasks -> States] /\ y[cur_task] = "DEAD"
      /\ \A u \in Tasks : u # cur_task => y[u] = state[u]
  BY <1>2, <1>4 DEF States
<1> HIDE DEF y, c, sys, per, rr, rem
<1>6. /\ dead_pool_queue' \in Seq(Tasks)
      /\ TasksIn(y, priority', dead_pool_queue', sys, rr, service_queue')
  <2>1. {t \in Tasks : y[t] = "DEAD"} = {t \in Tasks : state[t] = "DEAD"} \cup {cur_task}
    BY <1>2, <1>5
  <2>2. /\ \A l : InState(y, priority, l, "READY") = InState(state, priority, l, "READY")
        /\ \A l : InState(y, priority, l, "WAITING") = InState(state, priority, l, "WAITING")
        /\ \A t \in Tasks : y[t] = "WAITING" <=> state[t] = "WAITING"
    BY <1>2, <1>5 DEF InState
  <2>3. Holds(dead_pool_queue, {t \in Tasks : state[t] = "DEAD"})
        /\ cur_task \notin {t \in Tasks : state[t] = "DEAD"}
    BY <1>2, <1>4 DEF TasksIn
  <2>4. /\ Append(dead_pool_queue, cur_task) \in Seq(Tasks)
        /\ Holds(Append(dead_pool_queue, cur_task), {t \in Tasks : y[t] = "DEAD"})
    BY <1>2, <1>4, <2>1, <2>3, AppendHolds
  <2> QED  BY <1>3, <1>4, <2>2, <2>4 DEF TasksIn
<1>7. /\ meta' \in [Metas -> Blocks] /\ periodic_dead_pool_queue' \in Seq(Metas)
      /\ BlocksIn(y, priority', periodic_desc', meta', per, periodic_dead_pool_queue')
      /\ \A m \in Metas : meta'[m].wcet = meta[m].wcet
  <2>1. CASE CurPriority # PERIODIC
    <3>1. meta' = meta /\ periodic_dead_pool_queue' = periodic_dead_pool_queue
      BY <1>3, <2>1 DEF FreedBlocks
    <3>2. \A u \in Tasks : priority[u] = PERIODIC => y[u] = state[u]
      BY <1>2, <1>5, <2>1
    <3>3. BlocksIn(y, priority, periodic_desc, meta, per, periodic_dead_pool_queue)
      BY <1>4, <3>2, BlocksInKept
    <3> QED  BY <1>3, <1>4, <3>1, <3>3
  <2>2. CASE CurPriority = PERIODIC
    <3>1. c \in Metas /\ meta[c].task = cur_task /\ cur_task # NULL
      BY <1>2, <2>2, Constants
    <3>2. /\ meta' = [meta EXCEPT ![c].task = NULL]
          /\ periodic_dead_pool_queue'
               = PeriodicEnqueue(meta, ticks_from_start, periodic_dead_pool_queue, c)
      BY <1>3, <2>2 DEF FreedBlocks, c
    <3>3. meta[c] \in Blocks /\ [meta[c] EXCEPT !.task = NULL] \in Blocks
      BY <1>4, <3>1 DEF Blocks
    <3>4. meta' = [meta EXCEPT ![c] = [meta[c] EXCEPT !.task = NULL]]
      BY <1>4, <3>1, <3>2
    <3>5. /\ [meta[c] EXCEPT !.task = NULL].task = NULL
          /\ [meta[c] EXCEPT !.task = NULL].wcet = meta[c].wcet
      BY <3>3 DEF Blocks
    <3>6. /\ meta' \in [Metas -> Blocks] /\ meta'[c].task = NULL
          /\ \A m \in Metas : m # c => meta'[m] = meta[m]
          /\ \A m \in Metas : meta'[m].wcet = meta[m].wcet
      BY <1>4, <3>1, <3>3, <3>4, <3>5
    <3>7. {m \in Metas : meta'[m].task = NULL} = {m \in Metas : meta[m].task = NULL} \cup {c}
      BY <3>1, <3>6
    <3>8. /\ periodic_dead_pool_queue' \in Seq(Metas)
          /\ Holds(periodic_dead_pool_queue', {m \in Metas : meta'[m].task = NULL})
      <4>1. /\ Holds(periodic_dead_pool_queue, {m \in Metas : meta[m].task = NULL})
            /\ c \notin {m \in Metas : meta[m].task = NULL}
        BY <1>4, <3>1 DEF BlocksIn
      <4> DEFINE Free == {m \in Metas : meta[m].task = NULL}
      <4>2. Holds(periodic_dead_pool_queue, Free) /\ c \notin Free
        BY <4>1
      <4> HIDE DEF Free
      <4>3. /\ periodic_dead_pool_queue' \in Seq(Metas)
            /\ Holds(periodic_dead_pool_queue', Free \cup {c})
        BY <1>4, <3>1, <3>2, <4>2, EnqueueHolds
      <4> QED  BY <3>7, <4>3 DEF Free
    <3>9. c \notin Range(per)
      BY <1>2, <1>4, <3>1 DEF BlocksIn
    <3>10. ASSUME NEW m \in Metas, meta'[m].task # NULL
           PROVE  /\ periodic_desc[meta'[m].task] = m /\ priority[meta'[m].task] = PERIODIC
                  /\ y[meta'[m].task] = IF m \in Range(per) THEN "READY" ELSE "RUNNING"
      <4>1. m # c /\ meta'[m] = meta[m]
        BY <3>6, <3>10
      <4>2. /\ periodic_desc[meta[m].task] = m /\ priority[meta[m].task] = PERIODIC
            /\ state[meta[m].task] = IF m \in Range(per) THEN "READY" ELSE "RUNNING"
        BY <1>4, <3>10, <4>1 DEF BlocksIn
      <4>3. meta[m].task \in Tasks /\ meta[m].task # cur_task
        BY <1>4, <3>10, <4>1, <4>2 DEF Blocks, c
      <4> QED  BY <1>5, <4>1, <4>2, <4>3
    <3>11. ASSUME NEW u \in Tasks, priority[u] = PERIODIC, y[u] # "DEAD"
           PROVE  periodic_desc[u] # NULL /\ meta'[periodic_desc[u]].task = u
      <4>1. u # cur_task /\ state[u] # "DEAD"
        BY <1>5, <3>11
      <4>2. /\ periodic_desc[u] # NULL /\ meta[periodic_desc[u]].task = u
            /\ periodic_desc[u] \in Metas
        BY <1>4, <3>11, <4>1 DEF BlocksIn
      <4> QED  BY <3>1, <3>6, <4>1, <4>2
    <3>12. \A m \in Range(per) : meta'[m].task # NULL
      <4>1. \A m \in Range(per) : m \in Metas /\ meta[m].task # NULL
        BY <1>4, SeqEnds DEF BlocksIn
      <4> QED  BY <3>6, <3>9, <4>1
    <3> QED
      BY <1>3, <1>4, <3>6, <3>8, <3>10, <3>11, <3>12 DEF BlocksIn
  <2> QED  BY <2>1, <2>2
<1>8. Untouched'
  BY <1>1, <1>3, <1>6, <1>7 DEF Untouched
<1>9. Within(cur_task, priority', meta', cur_per_metadata, rem)
  BY <1>2, <1>3, <1>4, <1>7 DEF Within
<1>10. \A t \in Tasks : y[t] # "RUNNING"
  BY <1>2, <1>5
<1>11. Requested(y, sys, per, rr, rem)
  BY <1>1, <1>2, <1>4, <1>5, <1>6, <1>7, <1>9, <1>10 DEF Requested, TasksTyped, rem
<1>12. \A m \in Range(per) : meta'[m].next = meta[m].next
  <2>1. \A m \in Range(per) : m \in Metas
    BY <1>4, SeqEnds
  <2>2. CASE CurPriority # PERIODIC
    BY <1>3, <2>2
  <2>3. CASE CurPriority = PERIODIC
    <3>1. meta' = [meta EXCEPT ![c] = [meta[c] EXCEPT !.task = NULL]]
      BY <1>2, <1>3, <1>4, <2>3
    <3>2. [meta[c] EXCEPT !.task = NULL].next = meta[c].next
      BY <1>2, <1>4, <2>3 DEF Blocks
    <3> QED  BY <1>4, <2>1, <3>1, <3>2
  <2> QED  BY <2>2, <2>3
<1>13. Behind(rr)
  BY <1>4, BehindLemma DEF TasksTyped, rr
<1>14. Passes(y, sys, per, rr, rem)
  BY <1>3, <1>5, <1>8, <1>11, <1>12, <1>13 DEF Passes, InTime, per
<1> QED  BY <1>14 DEF Class

-----------------------------------------------------------------------------
(* Services.                                                               *)

LEMMA Service_SubscribeClass ==
  ASSUME IInv, NEW h \in Handles, Service_Subscribe(h)
  PROVE  Class
<1> DEFINE y == [state EXCEPT ![cur_task] = "WAITING"]
           sys == system_task_queue
           per == periodic_task_queue
           rr == roundrobin_task_queue
           rem == periodic_task_remticks
<1>1. Untouched /\ Dispatched /\ InTask /\ error_msg = "NONE"
  BY Parts DEF Service_Subscribe, InCall, InTask
<1>2. CASE h = NULL
  <2>1. Abort("INVALID_SERVICE") /\ "INVALID_SERVICE" \in Errors
    BY <1>2 DEF Service_Subscribe, Errors
  <2> QED  BY <1>1, <2>1, AbortClass
<1>3. CASE h # NULL /\ CurPriority = PERIODIC
  <2>1. Abort("PERIODIC_SUBSCRIBE") /\ "PERIODIC_SUBSCRIBE" \in Errors
    BY <1>3 DEF Service_Subscribe, Errors
  <2> QED  BY <1>1, <2>1, AbortClass
<1>4. CASE h # NULL /\ CurPriority # PERIODIC
  <2>1. /\ service_queue' = [service_queue EXCEPT ![h] = Append(@, cur_task)]
        /\ UNCHANGED <<dead_pool_queue, periodic_dead_pool_queue, priority, periodic_desc, meta,
                       kernel_period_create_meta, creating, num_services, ticks_from_start>>
        /\ Dispatch(y, sys, per, rr, rem)
    BY <1>4 DEF Service_Subscribe, pools, descriptors, create_vars
  <2>2. /\ cur_task \in Tasks /\ state[cur_task] = "RUNNING" /\ cur_task # Idle
        /\ priority[cur_task] # PERIODIC
        /\ \A t \in Tasks : state[t] = "RUNNING" <=> cur_task = t
    BY <1>1, <1>4, RunningTask DEF Service_Subscribe, InCall
  <2>3. h \in Services
    BY <1>1, <1>4, RoombaKernelAssumption
    DEF Handles, NULL, Services, Untouched, RoombaKernelAssumption
  <2>4. /\ state \in [Tasks -> States] /\ service_queue \in [Services -> Seq(Tasks)]
        /\ meta \in [Metas -> Blocks] /\ TasksTyped(state, sys, rr)
        /\ per \in Seq(Metas) /\ rem \in Word /\ cur_per_metadata \in Metas \cup {NULL}
        /\ TasksIn(state, priority, dead_pool_queue, sys, rr, service_queue)
        /\ BlocksIn(state, priority, periodic_desc, meta, per, periodic_dead_pool_queue)
        /\ Within(cur_task, priority, meta, cur_per_metadata, rem)
    BY <1>1 DEF Untouched, Dispatched, TasksTyped
  <2>5. /\ y \in [Tasks -> States] /\ y[cur_task] = "WAITING"
        /\ \A u \in Tasks : u # cur_task => y[u] = state[u]
    BY <2>2, <2>4 DEF States
  <2> HIDE DEF y, sys, per, rr, rem
  <2>6. \A s \in Services : cur_task \notin Range(service_queue[s])
    BY <2>2, <2>4 DEF TasksIn
  <2>7. /\ service_queue' \in [Services -> Seq(Tasks)]
        /\ IsInjective(service_queue'[h])
        /\ Range(service_queue'[h]) = Range(service_queue[h]) \cup {cur_task}
        /\ \A s \in Services : s # h => service_queue'[s] = service_queue[s]
    <3>1. Holds(service_queue[h], Range(service_queue[h])) /\ service_queue[h] \in Seq(Tasks)
      BY <2>3, <2>4 DEF TasksIn, Holds
    <3>2. /\ Append(service_queue[h], cur_task) \in Seq(Tasks)
          /\ Holds(Append(service_queue[h], cur_task), Range(service_queue[h]) \cup {cur_task})
      BY <2>2, <2>3, <2>6, <3>1, AppendHolds
    <3>3. service_queue'[h] = Append(service_queue[h], cur_task)
      BY <2>1, <2>3, <2>4
    <3> QED  BY <2>1, <2>3, <2>4, <3>2, <3>3 DEF Holds
  <2>8. TasksIn(y, priority', dead_pool_queue', sys, rr, service_queue')
    <3>1. /\ {t \in Tasks : y[t] = "DEAD"} = {t \in Tasks : state[t] = "DEAD"}
          /\ \A l : InState(y, priority, l, "READY") = InState(state, priority, l, "READY")
          /\ InState(y, priority, PERIODIC, "WAITING")
               = InState(state, priority, PERIODIC, "WAITING")
          /\ \A t \in Tasks : y[t] = "WAITING" <=> state[t] = "WAITING" \/ t = cur_task
      BY <2>2, <2>5 DEF InState
    <3>2. \A s \in Services : IsInjective(service_queue'[s])
      BY <2>4, <2>7 DEF TasksIn
    <3>3. \A r, s \in Services : r # s => Range(service_queue'[r]) \cap Range(service_queue'[s]) = {}
      <4>1. \A r, s \in Services : r # s =>
              Range(service_queue[r]) \cap Range(service_queue[s]) = {}
        BY <2>4 DEF TasksIn
      <4>2. ASSUME NEW r \in Services, NEW s \in Services, r # s
            PROVE  Range(service_queue'[r]) \cap Range(service_queue'[s]) = {}
        <5>1. CASE r # h /\ s # h
          BY <2>7, <4>1, <4>2, <5>1
        <5>2. CASE r = h
          BY <2>6, <2>7, <4>1, <4>2, <5>2
        <5>3. CASE s = h
          BY <2>6, <2>7, <4>1, <4>2, <5>3
        <5> QED  BY <5>1, <5>2, <5>3
      <4> QED  BY <4>2
    <3>4. \A t \in Tasks : y[t] = "WAITING" <=> \E s \in Services : t \in Range(service_queue'[s])
      <4>1. \A t \in Tasks : state[t] = "WAITING"
              <=> \E s \in Services : t \in Range(service_queue[s])
        BY <2>4 DEF TasksIn
      <4> QED  BY <2>3, <2>7, <3>1, <4>1
    <3> QED  BY <2>1, <2>4, <3>1, <3>2, <3>3, <3>4 DEF TasksIn
  <2>9. BlocksIn(y, priority', periodic_desc', meta', per, periodic_dead_pool_queue')
    <3>1. \A u \in Tasks : priority[u] = PERIODIC => y[u] = state[u]
      BY <2>2, <2>5
    <3>2. BlocksIn(y, priority, periodic_desc, meta, per, periodic_dead_pool_queue)
      BY <2>4, <3>1, BlocksInKept
    <3> QED  BY <2>1, <3>2
  <2>10. Untouched'
    BY <1>1, <2>1, <2>7 DEF Untouched
  <2>11. Within(cur_task, priority', meta', cur_per_metadata, rem)
    BY <2>1, <2>4
  <2>12. \A t \in Tasks : y[t] # "RUNNING"
    BY <2>2, <2>5
  <2>13. Requested(y, sys, per, rr, rem)
    BY <1>1, <2>2, <2>4, <2>5, <2>8, <2>9, <2>11, <2>12 DEF Requested, TasksTyped, rem
  <2>14. Passes(y, sys, per, rr, rem)
    <3>1. Behind(rr)
      BY <2>4, BehindLemma DEF TasksTyped, rr
    <3> QED  BY <2>1, <2>5, <2>10, <2>13, <3>1 DEF Passes, InTime, per
  <2> QED  BY <2>14 DEF Class
<1> QED  BY <1>2, <1>3, <1>4

\* The tasks of level l that a publication wakes.
LEMMA WokenHolds ==
  ASSUME NEW h \in Services, NEW l, service_queue[h] \in Seq(Tasks),
         IsInjective(service_queue[h])
  PROVE  /\ Woken(h, l) \in Seq(Tasks)
         /\ Holds(Woken(h, l), {t \in Range(service_queue[h]) : priority[t] = l})
<1> DEFINE q == service_queue[h]
           P == {i \in DOMAIN q : priority[q[i]] = l}
<1>1. Woken(h, l) = Subsequence(q, P)
  BY DEF Woken
<1>2. {q[i] : i \in P} = {t \in Range(q) : priority[t] = l}
  BY DEF Range
<1>3. P \in SUBSET DOMAIN q /\ q \in Seq(Tasks) /\ IsInjective(q)
  OBVIOUS
<1> HIDE DEF P, q
<1>4. Subsequence(q, P) \in Seq(Tasks) /\ Holds(Subsequence(q, P), {q[i] : i \in P})
  BY <1>3, SubsequenceHolds
<1> QED  BY <1>1, <1>2, <1>4 DEF q

LEMMA Service_PublishClass ==
  ASSUME IInv, NEW h \in Handles, Service_Publish(h)
  PROVE  Class
<1> DEFINE W == Range(service_queue[h])
           y == [t \in Tasks |-> IF t \in W THEN "READY" ELSE state[t]]
           sys == system_task_queue
           per == periodic_task_queue
           rr == roundrobin_task_queue
           rem == periodic_task_remticks
<1>1. Untouched /\ Dispatched /\ InTask /\ error_msg = "NONE"
  BY Parts DEF Service_Publish, InTask
<1>2. CASE h = NULL
  <2>1. Abort("INVALID_SERVICE") /\ "INVALID_SERVICE" \in Errors
    BY <1>2 DEF Service_Publish, Errors
  <2> QED  BY <1>1, <2>1, AbortClass
<1>3. CASE h # NULL /\ Woken(h, PERIODIC) # <<>>
  <2>1. /\ Abort("PERIODIC_FOUND_WHEN_PUBLISHING")
        /\ "PERIODIC_FOUND_WHEN_PUBLISHING" \in Errors
    BY <1>3 DEF Service_Publish, Errors
  <2> QED  BY <1>1, <2>1, AbortClass
<1>4. CASE h # NULL /\ Woken(h, PERIODIC) = <<>>
  <2> DEFINE sq == sys \o Woken(h, SYSTEM)
             rq == rr \o Woken(h, ROUND_ROBIN)
  <2>1. /\ service_queue' = [service_queue EXCEPT ![h] = <<>>]
        /\ UNCHANGED <<dead_pool_queue, periodic_dead_pool_queue, priority, periodic_desc, meta,
                       kernel_period_create_meta, creating, num_services, ticks_from_start>>
        /\ Preempt(y, sq, per, rq, cur_per_metadata)
    BY <1>4 DEF Service_Publish, pools, descriptors, create_vars
  <2>2. h \in Services
    BY <1>1, <1>4, RoombaKernelAssumption
    DEF Handles, NULL, Services, Untouched, RoombaKernelAssumption
  <2>3. /\ cur_task \in Tasks \cup {Idle}
        /\ cur_task \in Tasks => state[cur_task] = "RUNNING"
        /\ CurPriority = PERIODIC => cur_per_metadata = periodic_desc[cur_task]
        /\ \A t \in Tasks : state[t] = "RUNNING" <=> cur_task = t
    BY <1>1, RunningTask
  <2>4. /\ state \in [Tasks -> States] /\ service_queue \in [Services -> Seq(Tasks)]
        /\ sys \in Seq(Tasks) /\ rr \in Seq(Tasks)
        /\ meta \in [Metas -> Blocks]
        /\ per \in Seq(Metas) /\ rem \in Word /\ cur_per_metadata \in Metas \cup {NULL}
        /\ TasksIn(state, priority, dead_pool_queue, sys, rr, service_queue)
        /\ BlocksIn(state, priority, periodic_desc, meta, per, periodic_dead_pool_queue)
        /\ Within(cur_task, priority, meta, cur_per_metadata, rem)
        /\ kernel_preemption_disabled \in BOOLEAN
    BY <1>1 DEF Untouched, Dispatched, TasksTyped
  <2>5. /\ W \subseteq Tasks
        /\ \A t \in W : state[t] = "WAITING" /\ priority[t] # PERIODIC
        /\ service_queue[h] \in Seq(Tasks) /\ IsInjective(service_queue[h])
    <3>1. service_queue[h] \in Seq(Tasks) /\ IsInjective(service_queue[h])
      BY <2>2, <2>4 DEF TasksIn
    <3>2. W \subseteq Tasks
      BY <3>1, SeqEnds
    <3>3. \A t \in W : state[t] = "WAITING"
      BY <2>2, <2>4, <3>2 DEF TasksIn
    <3> QED  BY <2>4, <3>1, <3>2, <3>3 DEF TasksIn, InState
  <2>6. /\ y \in [Tasks -> States]
        /\ \A t \in Tasks : t \in W => y[t] = "READY"
        /\ \A t \in Tasks : t \notin W => y[t] = state[t]
    BY <2>4 DEF States
  <2> HIDE DEF W, y, sys, per, rr, rem
  <2>7. \A l \in {SYSTEM, ROUND_ROBIN} :
          InState(y, priority, l, "READY")
            = InState(state, priority, l, "READY") \cup {t \in W : priority[t] = l}
    BY <2>5, <2>6 DEF InState
  <2>8. ASSUME NEW l \in {SYSTEM, ROUND_ROBIN}, NEW q \in Seq(Tasks),
               Holds(q, InState(state, priority, l, "READY"))
        PROVE  /\ q \o Woken(h, l) \in Seq(Tasks)
               /\ Holds(q \o Woken(h, l), InState(y, priority, l, "READY"))
               /\ \A a \in Range(q) : \A b : Before(q \o Woken(h, l), b, a) => Before(q, b, a)
    <3> DEFINE S == InState(state, priority, l, "READY")
               R == {t \in W : priority[t] = l}
    <3>1. Woken(h, l) \in Seq(Tasks) /\ Holds(Woken(h, l), R)
      BY <2>2, <2>5, WokenHolds DEF W
    <3>2. S \cap R = {} /\ InState(y, priority, l, "READY") = S \cup R
      BY <2>5, <2>7 DEF InState
    <3>3. Holds(q, S)
      BY <2>8
    <3> HIDE DEF S, R
    <3>4. /\ q \o Woken(h, l) \in Seq(Tasks) /\ Holds(q \o Woken(h, l), S \cup R)
          /\ \A a \in S : \A b : Before(q \o Woken(h, l), b, a) => Before(q, b, a)
      BY <3>1, <3>2, <3>3, ConcatHolds
    <3>5. S = Range(q)
      BY <3>3 DEF Holds
    <3> QED  BY <3>2, <3>4, <3>5
  <2>9. /\ sq \in Seq(Tasks) /\ Holds(sq, InState(y, priority, SYSTEM, "READY"))
        /\ rq \in Seq(Tasks) /\ Holds(rq, InState(y, priority, ROUND_ROBIN, "READY"))
        /\ Behind(rq)
    BY <2>4, <2>8 DEF TasksIn, Behind, rr
  <2>10. /\ service_queue' \in [Services -> Seq(Tasks)] /\ service_queue'[h] = <<>>
         /\ \A s \in Services : s # h => service_queue'[s] = service_queue[s]
    <3>1. <<>> \in Seq(Tasks)
      OBVIOUS
    <3> QED  BY <2>1, <2>2, <2>4, <3>1
  <2> HIDE DEF sq, rq
  <2>11. TasksIn(y, priority', dead_pool_queue', sq, rq, service_queue')
    <3>1. /\ {t \in Tasks : y[t] = "DEAD"} = {t \in Tasks : state[t] = "DEAD"}
          /\ InState(y, priority, PERIODIC, "WAITING") = {}
          /\ \A t \in Tasks : y[t] = "WAITING" <=> state[t] = "WAITING" /\ t \notin W
      BY <2>4, <2>5, <2>6 DEF InState, TasksIn
    <3>2. Range(<<>>) = {} /\ IsInjective(<<>>)
      BY DEF Range, IsInjective
    <3>3. \A s \in Services : IsInjective(service_queue'[s])
      BY <2>4, <2>10, <3>2 DEF TasksIn
    <3>4. \A r, s \in Services : r # s => Range(service_queue[r]) \cap Range(service_queue[s]) = {}
      BY <2>4 DEF TasksIn
    <3>5. \A r, s \in Services : r # s => Range(service_queue'[r]) \cap Range(service_queue'[s]) = {}
      BY <2>10, <3>2, <3>4
    <3>6. \A t \in Tasks : y[t] = "WAITING" <=> \E s \in Services : t \in Range(service_queue'[s])
      <4>1. \A t \in Tasks : state[t] = "WAITING"
              <=> \E s \in Services : t \in Range(service_queue[s])
        BY <2>4 DEF TasksIn
      <4>2. \A s \in Services : \A t : t \in Range(service_queue'[s])
              <=> s # h /\ t \in Range(service_queue[s])
        BY <2>10, <3>2
      <4>3. \A s \in Services, t \in W : s # h => t \notin Range(service_queue[s])
        BY <2>2, <3>4 DEF W
      <4>4. \A t \in Tasks : t \in W <=> t \in Range(service_queue[h])
        BY DEF W
      <4> QED  BY <2>2, <3>1, <4>1, <4>2, <4>3, <4>4
    <3> QED  BY <2>1, <2>4, <2>9, <3>1, <3>3, <3>5, <3>6 DEF TasksIn
  <2>12. BlocksIn(y, priority', periodic_desc', meta', per, periodic_dead_pool_queue')
    <3>1. \A u \in Tasks : priority[u] = PERIODIC => y[u] = state[u]
      BY <2>5, <2>6
    <3>2. BlocksIn(y, priority, periodic_desc, meta, per, periodic_dead_pool_queue)
      BY <2>4, <3>1, BlocksInKept
    <3> QED  BY <2>1, <3>2
  <2>13. Untouched'
    BY <1>1, <2>1, <2>10 DEF Untouched
  <2>14. Within(cur_task, priority', meta', cur_per_metadata, rem)
    BY <2>1, <2>4
  <2>15. \A t \in Tasks : y[t] = "RUNNING" <=> cur_task = t
    BY <2>3, <2>5, <2>6
  <2>16. cur_task \in Tasks /\ priority'[cur_task] = PERIODIC =>
           cur_per_metadata = periodic_desc'[cur_task]
    BY <1>1, <2>1, RunningTask
  <2>17. Requested(y, sq, per, rq, rem)
    BY <1>1, <2>3, <2>4, <2>6, <2>9, <2>11, <2>12, <2>14, <2>15, <2>16
    DEF Requested, TasksTyped, rem
  <2>18. cur_task # Idle => y[cur_task] = "RUNNING" /\ priority'[cur_task] = priority[cur_task]
    BY <2>1, <2>3, <2>15
  <2>19. Readies(y, sq, per, rq, cur_per_metadata)
    BY <2>1, <2>4, <2>9, <2>13, <2>17, <2>18 DEF Readies, InTime, rem, per
  <2> QED  BY <2>19 DEF Class
<1> QED  BY <1>2, <1>3, <1>4

-----------------------------------------------------------------------------
(* The theorems.                                                           *)

LEMMA OS_AbortClass == IInv /\ OS_Abort => Class
<1>1. "USER_CALLED_OS_ABORT" \in Errors
  BY DEF Errors
<1> QED  BY <1>1, AbortClass DEF OS_Abort

LEMMA StutterClass == IInv /\ UNCHANGED vars => Class
<1> SUFFICES ASSUME IInv, UNCHANGED vars PROVE Class
  OBVIOUS
<1>1. Untouched
  BY Parts
<1>2. /\ kernel_preemption_disabled' \in BOOLEAN
      /\ kernel_preemption_disabled => kernel_preemption_disabled'
  BY Parts DEF Dispatched, vars, dispatch_vars
<1> QED
  BY <1>1, <1>2, OutsideClass DEF vars, dispatch_vars, create_vars, Untouched

\* Every step is of one of the classes.
LEMMA StepClass == IInv /\ [Next]_vars => Class
<1> SUFFICES ASSUME IInv, [Next]_vars PROVE Class
  OBVIOUS
<1>1. CASE TIMER_EXPIRED
  BY <1>1, TIMER_EXPIREDClass
<1>2. CASE Task_Create_System \/ Task_Create_RR \/ kernel_create_helper
  BY <1>2, CreatesClass
<1>3. CASE \E per \in PeriodArgs, wc \in WcetArgs, st \in StartArgs :
             Task_Create_Periodic(per, wc, st)
  BY <1>3, Task_Create_PeriodicClass
<1>4. CASE AssignNext \/ AssignWcet
  BY <1>4, AssignsClass
<1>5. CASE OS_DisablePreemption
  BY <1>5, DisablePreemptionClass
<1>6. CASE Task_Next
  BY <1>6, Task_NextClass
<1>7. CASE Task_Terminate
  BY <1>7, Task_TerminateClass
<1>8. CASE OS_Abort
  BY <1>8, OS_AbortClass
<1>9. CASE Service_Init
  BY <1>9, Service_InitClass
<1>10. CASE \E h \in Handles : Service_Subscribe(h) \/ Service_Publish(h)
  BY <1>10, Service_SubscribeClass, Service_PublishClass
<1>11. CASE Aborted \/ UNCHANGED vars
  BY <1>11, StutterClass DEF Aborted
<1> QED
  BY <1>1, <1>2, <1>3, <1>4, <1>5, <1>6, <1>7, <1>8, <1>9, <1>10, <1>11 DEF Next

\* The kernel keeps its inductive invariant: the bookkeeping of task descriptors and
\* of metadata blocks, no block queued and free at once, and the budget of the
\* running PERIODIC task.
THEOREM Invariance == Spec => []IInv
<1>1. Init => IInv
  BY InitInv
<1>2. IInv /\ [Next]_vars => IInv'
  BY StepClass, ClassInv
<1> QED  BY <1>1, <1>2, PTL DEF Spec

\* Whatever is created, yielded, terminated, subscribed, published or preempted,
\* every descriptor is free, running, or in the one queue (task_queue_t) that its
\* state and level call for.
THEOREM DescriptorsKept == Spec => []TasksAccounted
<1>1. IInv => TasksAccounted
  BY DEF IInv
<1> QED  BY <1>1, Invariance, PTL

\* No metadata block is leaked or shared: kernel_create_task, Task_Next, the
\* preemption of a PERIODIC task and Task_Terminate keep each block free, queued,
\* or with the task on the processor, and cur_per_metadata is that task's own.
THEOREM BlocksKept == Spec => []BlocksAccounted
<1>1. IInv => BlocksAccounted
  BY DEF IInv
<1> QED  BY <1>1, Invariance, PTL

\* The uint16_t counter of the ticks left to a PERIODIC task with a WCET never
\* wraps: TIMER_EXPIRED aborts before it is 0, and every dispatch sets it anew.
THEOREM BudgetNeverWraps == Spec => []RemticksNeverWrap
<1>1. IInv => RemticksNeverWrap
  BY DEF IInv
<1> QED  BY <1>1, Invariance, PTL

-----------------------------------------------------------------------------
(* What the dispatcher picks.                                              *)

\* The task on the processor goes on.
Stays(st, sq, pq, rq) ==
  /\ IF cur_task = Idle THEN kernel_preemption_disabled ELSE st[cur_task] = "RUNNING"
  /\ cur_task' = cur_task /\ state' = st /\ Ready(sq, pq, rq) /\ error_msg' = error_msg
  /\ kernel_preemption_disabled' = FALSE

\* The first of the most urgent level gets the processor, or two releases clash.
Picks(sq, pq, rq) ==
  \/ /\ sq # <<>> /\ cur_task' = Head(sq) /\ Ready(Tail(sq), pq, rq)
     /\ CurPriority' = SYSTEM
  \/ /\ sq = <<>> /\ SameTick(meta', pq) /\ error_msg' # "NONE"
     /\ cur_task' = cur_task /\ Ready(sq, pq, rq)
  \/ /\ sq = <<>> /\ ~SameTick(meta', pq) /\ Due(meta', ticks_from_start', pq)
     /\ Ready(sq, Tail(pq), rq) /\ CurPriority' = PERIODIC
  \/ /\ sq = <<>> /\ ~SameTick(meta', pq) /\ ~Due(meta', ticks_from_start', pq)
     /\ rq # <<>> /\ Ready(sq, pq, Tail(rq)) /\ CurPriority' = ROUND_ROBIN
  \/ /\ sq = <<>> /\ ~SameTick(meta', pq) /\ ~Due(meta', ticks_from_start', pq)
     /\ rq = <<>> /\ Ready(sq, pq, rq) /\ CurPriority' = IDLE

LEMMA DispatchPicks ==
  ASSUME NEW st, NEW sq, NEW pq, NEW rq, NEW rem,
         Requested(st, sq, pq, rq, rem), Untouched', Dispatch(st, sq, pq, rq, rem)
  PROVE  /\ IF IF cur_task = Idle THEN kernel_preemption_disabled
                                  ELSE st[cur_task] = "RUNNING"
            THEN Stays(st, sq, pq, rq) ELSE Picks(sq, pq, rq)
         /\ \A t \in Tasks : st[t] # "READY" => state'[t] = st[t]
<1> DEFINE Goes == IF cur_task = Idle THEN kernel_preemption_disabled
                                      ELSE st[cur_task] = "RUNNING"
           h == Head(pq)
<1>0. /\ st \in [Tasks -> States] /\ sq \in Seq(Tasks) /\ rq \in Seq(Tasks)
      /\ pq \in Seq(Metas) /\ kernel_preemption_disabled' = FALSE /\ error_msg = "NONE"
      /\ TasksIn(st, priority', dead_pool_queue', sq, rq, service_queue')
      /\ BlocksIn(st, priority', periodic_desc', meta', pq, periodic_dead_pool_queue')
  BY DEF Requested, TasksTyped, Dispatch
<1>1. CASE Goes
  <2>1. /\ state' = st /\ Ready(sq, pq, rq)
        /\ UNCHANGED <<cur_task, cur_per_metadata, error_msg>>
    BY <1>1 DEF Dispatch
  <2> QED  BY <1>0, <1>1, <2>1 DEF Stays
<1>2. ASSUME NEW t \in Tasks, st[t] = "READY", SwitchTo(t, st)
      PROVE  /\ CurPriority' = priority'[t] /\ cur_task' = t
             /\ \A u \in Tasks : st[u] # "READY" => state'[u] = st[u]
  <2>1. /\ t # Idle /\ cur_task' = t /\ state' = [st EXCEPT ![t] = "RUNNING"]
    BY <1>2, Constants DEF SwitchTo
  <2> QED  BY <1>0, <1>2, <2>1 DEF CurPriority
<1>3. CASE ~Goes /\ sq = <<>> /\ SameTick(meta', pq)
  <2>1. /\ error_msg' = "PERIODIC_TASKS_SCHEDULED_AST" /\ state' = st /\ Ready(sq, pq, rq)
        /\ UNCHANGED <<cur_task, cur_per_metadata, periodic_task_remticks>>
    BY <1>3 DEF Dispatch
  <2> QED  BY <1>3, <2>1 DEF Picks
<1>4. CASE /\ ~Goes /\ ~(sq = <<>> /\ SameTick(meta', pq))
           /\ sq = <<>> /\ Due(meta', ticks_from_start', pq)
  <2>1. SwitchTo(meta'[h].task, st) /\ Ready(sq, Tail(pq), rq)
    BY <1>4 DEF Dispatch
  <2>2. h \in Range(pq) /\ h \in Metas
    BY <1>0, <1>4, SeqEnds DEF Due
  <2>3. /\ meta'[h].task # NULL /\ priority'[meta'[h].task] = PERIODIC
        /\ st[meta'[h].task] = "READY"
    BY <1>0, <2>2 DEF BlocksIn
  <2>4. meta'[h].task \in Tasks
    BY <2>2, <2>3 DEF Untouched, Blocks
  <2> QED  BY <1>2, <1>4, <2>1, <2>3, <2>4 DEF Picks
<1>5. CASE /\ ~Goes /\ ~(sq = <<>> /\ SameTick(meta', pq))
           /\ ~(sq = <<>> /\ Due(meta', ticks_from_start', pq))
  <2>1. \/ /\ sq # <<>> /\ SwitchTo(Head(sq), st) /\ Ready(Tail(sq), pq, rq)
        \/ /\ sq = <<>> /\ rq # <<>> /\ SwitchTo(Head(rq), st) /\ Ready(sq, pq, Tail(rq))
        \/ /\ sq = <<>> /\ rq = <<>> /\ SwitchTo(Idle, st) /\ Ready(sq, pq, rq)
    BY <1>5 DEF Dispatch
  <2>2. CASE sq # <<>>
    <3>1. Head(sq) \in InState(st, priority', SYSTEM, "READY")
      BY <1>0, <2>2, SeqEnds DEF TasksIn, Holds
    <3>2. Head(sq) \in Tasks /\ st[Head(sq)] = "READY" /\ priority'[Head(sq)] = SYSTEM
      BY <3>1 DEF InState
    <3> QED  BY <1>2, <1>5, <2>1, <2>2, <3>2 DEF Picks
  <2>3. CASE sq = <<>> /\ rq # <<>>
    <3>1. Head(rq) \in InState(st, priority', ROUND_ROBIN, "READY")
      BY <1>0, <2>3, SeqEnds DEF TasksIn, Holds
    <3>2. Head(rq) \in Tasks /\ st[Head(rq)] = "READY" /\ priority'[Head(rq)] = ROUND_ROBIN
      BY <3>1 DEF InState
    <3> QED  BY <1>2, <1>5, <2>1, <2>3, <3>2 DEF Picks
  <2>4. CASE sq = <<>> /\ rq = <<>>
    <3>1. SwitchTo(Idle, st) /\ Ready(sq, pq, rq)
      BY <2>1, <2>4
    <3>2. cur_task' = Idle /\ state' = st /\ CurPriority' = IDLE
      BY <3>1 DEF SwitchTo, CurPriority
    <3> QED  BY <1>5, <2>4, <3>1, <3>2 DEF Picks
  <2> QED  BY <2>2, <2>3, <2>4
<1> QED  BY <1>1, <1>3, <1>4, <1>5

\* The outcomes of the preemption test.
Aborts(st, sq, pq, rq) ==
  error_msg' # "NONE" /\ cur_task' = cur_task /\ state' = st /\ Ready(sq, pq, rq)

GoesOn(st, sq, pq, rq) ==
  Stays(st, sq, pq, rq) /\ (cur_task # Idle => ~ShouldPreempt(sq, pq, rq))

IdleReplaced(sq, pq, rq) ==
  cur_task = Idle /\ ~kernel_preemption_disabled /\ Picks(sq, pq, rq)

PeriodicPreempted(sq, pq, rq, m) ==
  /\ CurPriority = PERIODIC /\ Picks(sq, PeriodicEnqueue(meta', ticks_from_start', pq, m), rq)
  /\ m \in Metas

RRPreempted(sq, pq, rq) ==
  /\ CurPriority = ROUND_ROBIN /\ cur_task \in Tasks
  /\ Picks(sq, pq, Cons(cur_task, rq)) /\ error_msg' = "NONE"
  /\ roundrobin_task_queue' = Cons(cur_task, rq) /\ CurPriority' \in {SYSTEM, PERIODIC}

LEMMA ReadiesPicks ==
  ASSUME NEW st, NEW sq, NEW pq, NEW rq, NEW m, Readies(st, sq, pq, rq, m)
  PROVE  \/ Aborts(st, sq, pq, rq) \/ GoesOn(st, sq, pq, rq)
         \/ IdleReplaced(sq, pq, rq) \/ PeriodicPreempted(sq, pq, rq, m)
         \/ RRPreempted(sq, pq, rq)
<1> DEFINE y == [st EXCEPT ![cur_task] = "READY"]
           rem == periodic_task_remticks
<1>0. /\ Untouched' /\ Requested(st, sq, pq, rq, rem) /\ Preempt(st, sq, pq, rq, m)
      /\ cur_task # Idle => st[cur_task] = "RUNNING" /\ priority'[cur_task] = priority[cur_task]
      /\ CurPriority = PERIODIC => m = cur_per_metadata
  BY DEF Readies
<1>1. CASE PreemptAborts(sq, pq)
  BY <1>0, <1>1 DEF Preempt, Aborts
<1>2. CASE ~PreemptAborts(sq, pq) /\ (~ShouldPreempt(sq, pq, rq) \/ cur_task = Idle)
  <2>1. Dispatch(st, sq, pq, rq, rem)
    BY <1>0, <1>2 DEF Preempt
  <2>2. IF IF cur_task = Idle THEN kernel_preemption_disabled ELSE st[cur_task] = "RUNNING"
        THEN Stays(st, sq, pq, rq) ELSE Picks(sq, pq, rq)
    BY <1>0, <2>1, DispatchPicks
  <2> QED  BY <1>0, <1>2, <2>2 DEF GoesOn, IdleReplaced
<1>3. CASE ~PreemptAborts(sq, pq) /\ ShouldPreempt(sq, pq, rq) /\ cur_task # Idle
  <2>1. /\ cur_task \in Tasks /\ CurPriority = priority'[cur_task]
        /\ CurPriority \in {SYSTEM, PERIODIC, ROUND_ROBIN}
        /\ st \in [Tasks -> States] /\ rq \in Seq(Tasks)
        /\ TasksIn(st, priority', dead_pool_queue', sq, rq, service_queue')
    BY <1>0, <1>3 DEF CurPriority, Untouched, Levels, Requested, TasksTyped
  <2>2. CurPriority # SYSTEM
    BY <1>3, Constants DEF ShouldPreempt
  <2>3. Dispatch(y, sq, IF CurPriority = PERIODIC
                        THEN PeriodicEnqueue(meta', ticks_from_start', pq, m) ELSE pq,
                 IF CurPriority = ROUND_ROBIN THEN Cons(cur_task, rq) ELSE rq, rem)
    BY <1>0, <1>3 DEF Preempt
  <2>4. y[cur_task] = "READY"
    BY <2>1
  <2> HIDE DEF y
  <2>5. CASE CurPriority = PERIODIC
    <3> DEFINE pq2 == PeriodicEnqueue(meta', ticks_from_start', pq, m)
    <3>1. Requested(y, sq, pq2, rq, rem) /\ m \in Metas
      BY <1>0, <1>3, <2>1, <2>5, RequeueBlock DEF y
    <3>2. Dispatch(y, sq, pq2, rq, rem)
      BY <2>3, <2>5, Constants
    <3>3. IF IF cur_task = Idle THEN kernel_preemption_disabled ELSE y[cur_task] = "RUNNING"
          THEN Stays(y, sq, pq2, rq) ELSE Picks(sq, pq2, rq)
      BY <1>0, <3>1, <3>2, DispatchPicks
    <3> QED  BY <1>3, <2>4, <2>5, <3>1, <3>3 DEF PeriodicPreempted
  <2>6. CASE CurPriority = ROUND_ROBIN
    <3> DEFINE rq2 == Cons(cur_task, rq)
    <3>1. Holds(rq, Range(rq)) /\ cur_task \notin Range(rq)
      BY <1>0, <1>3, <2>1 DEF TasksIn, Holds, InState
    <3>2. rq2 \in Seq(Tasks) /\ Holds(rq2, Range(rq) \cup {cur_task})
      BY <2>1, <3>1, ConsHolds
    <3>3. Requested(y, sq, pq, rq2, rem)
      <4>1. sq \in Seq(Tasks)
        BY <1>0 DEF Requested, TasksTyped
      <4> QED  BY <1>0, <1>3, <2>1, <2>6, <3>2, <4>1, RequeueTask DEF y
    <3>4. Dispatch(y, sq, pq, rq2, rem)
      BY <2>3, <2>6, Constants
    <3>5. IF IF cur_task = Idle THEN kernel_preemption_disabled ELSE y[cur_task] = "RUNNING"
          THEN Stays(y, sq, pq, rq2) ELSE Picks(sq, pq, rq2)
      BY <1>0, <3>3, <3>4, DispatchPicks
    <3>6. Picks(sq, pq, rq2)
      BY <1>3, <2>4, <3>5
    <3>7. sq # <<>> \/ (sq = <<>> /\ ~SameTick(meta', pq) /\ Due(meta', ticks_from_start', pq))
      BY <1>3, <2>6, Constants DEF ShouldPreempt, PreemptAborts
    <3>8. /\ roundrobin_task_queue' = rq2 /\ CurPriority' \in {SYSTEM, PERIODIC}
      BY <3>6, <3>7 DEF Picks, Ready
    <3>9. error_msg' = "NONE"
      <4>1. error_msg = "NONE" /\ y[cur_task] # "RUNNING"
        BY <1>0, <2>4 DEF Requested
      <4>2. ~(sq = <<>> /\ SameTick(meta', pq))
        BY <3>7
      <4> HIDE DEF rq2
      <4>3. error_msg' = error_msg
        BY <1>3, <3>4, <4>1, <4>2 DEF Dispatch
      <4> QED  BY <4>1, <4>3
    <3> QED  BY <2>1, <2>6, <3>6, <3>8, <3>9 DEF RRPreempted
  <2> QED  BY <2>1, <2>2, <2>5, <2>6
<1> QED  BY <1>1, <1>2, <1>3

-----------------------------------------------------------------------------
(* The rules of the queues.                                                *)

LEMMA QueuesNow ==
  ASSUME IInv
  PROVE  /\ system_task_queue \in Seq(Tasks) /\ roundrobin_task_queue \in Seq(Tasks)
         /\ periodic_task_queue \in Seq(Metas)
         /\ cur_task \in Tasks \cup {Idle}
         /\ CurPriority \in {SYSTEM, PERIODIC, ROUND_ROBIN} => cur_task \in Tasks
         /\ cur_task \in Tasks => /\ cur_task # Idle /\ CurPriority = priority[cur_task]
                                  /\ error_msg = "NONE" => state[cur_task] = "RUNNING"
<1>1. Untouched /\ Dispatched
  BY Parts
<1> QED  BY <1>1, Constants DEF Dispatched, TasksTyped, CurPriority

\* The rule that a SYSTEM task keeps the processor, for one step.
RunsOn ==
  CurPriority = SYSTEM /\ cur_task' # cur_task =>
    \/ state'[cur_task] \in {"DEAD", "WAITING"}
    \/ /\ ticks_from_start' = ticks_from_start /\ system_task_queue # <<>>
       /\ cur_task' = Head(system_task_queue)
       /\ system_task_queue' = Append(Tail(system_task_queue), cur_task)

LEMMA RunsOnLemma == IInv /\ [Next]_vars => RunsOn
<1> SUFFICES ASSUME IInv, Class, CurPriority = SYSTEM, cur_task' # cur_task
             PROVE  \/ state'[cur_task] \in {"DEAD", "WAITING"}
                    \/ /\ ticks_from_start' = ticks_from_start /\ system_task_queue # <<>>
                       /\ cur_task' = Head(system_task_queue)
                       /\ system_task_queue' = Append(Tail(system_task_queue), cur_task)
  BY StepClass DEF RunsOn
<1>1. cur_task \in Tasks /\ cur_task # Idle /\ system_task_queue \in Seq(Tasks)
  BY QueuesNow
<1>2. ~Rests
  BY DEF Rests
<1>3. ASSUME NEW st, NEW sq, NEW pq, NEW rq, NEW rem, Passes(st, sq, pq, rq, rem)
      PROVE  \/ state'[cur_task] \in {"DEAD", "WAITING"}
             \/ /\ ticks_from_start' = ticks_from_start /\ system_task_queue # <<>>
                /\ cur_task' = Head(system_task_queue)
                /\ system_task_queue' = Append(Tail(system_task_queue), cur_task)
  <2>1. /\ Requested(st, sq, pq, rq, rem) /\ Untouched' /\ Dispatch(st, sq, pq, rq, rem)
        /\ st[cur_task] = "READY" => /\ sq = Append(system_task_queue, cur_task)
                                     /\ ticks_from_start' = ticks_from_start
    BY <1>1, <1>3 DEF Passes
  <2>2. /\ st[cur_task] = "RUNNING" => Stays(st, sq, pq, rq)
        /\ st[cur_task] # "RUNNING" => Picks(sq, pq, rq)
        /\ st[cur_task] # "READY" => state'[cur_task] = st[cur_task]
    BY <1>1, <2>1, DispatchPicks
  <2>3. st[cur_task] \in States
    BY <1>1, <2>1 DEF Requested, TasksTyped
  <2>4. st[cur_task] # "RUNNING"
    BY <2>2 DEF Stays
  <2>5. CASE st[cur_task] = "READY"
    <3> DEFINE a == Append(system_task_queue, cur_task)
    <3>1. a # <<>>
      BY <1>1
    <3>2. cur_task' = Head(a) /\ system_task_queue' = Tail(a)
      BY <2>1, <2>2, <2>5, <3>1 DEF Picks, Ready
    <3>3. system_task_queue # <<>>
      <4> SUFFICES ASSUME system_task_queue = <<>> PROVE FALSE
        OBVIOUS
      <4>1. a[1] = cur_task /\ Head(a) = a[1]
        BY <1>1
      <4> QED  BY <3>2, <4>1
    <3>4. Head(a) = Head(system_task_queue) /\ Tail(a) = Append(Tail(system_task_queue), cur_task)
      BY <1>1, <3>3, SeqTailOfAppend
    <3> QED  BY <2>1, <2>5, <3>2, <3>3, <3>4
  <2> QED  BY <2>2, <2>3, <2>4, <2>5 DEF States
<1>4. ASSUME NEW st, NEW sq, NEW pq, NEW rq, NEW m, Readies(st, sq, pq, rq, m)
      PROVE  FALSE
  <2>1. \/ Aborts(st, sq, pq, rq) \/ GoesOn(st, sq, pq, rq)
        \/ IdleReplaced(sq, pq, rq) \/ PeriodicPreempted(sq, pq, rq, m)
        \/ RRPreempted(sq, pq, rq)
    BY <1>4, ReadiesPicks
  <2>2. CurPriority # PERIODIC /\ CurPriority # ROUND_ROBIN
    BY Constants
  <2> QED  BY <1>1, <2>1, <2>2
           DEF Aborts, GoesOn, Stays, IdleReplaced, PeriodicPreempted, RRPreempted
<1> QED  BY <1>2, <1>3, <1>4 DEF Class

\* The rule that nobody is overtaken, for one step.
NoneOvertaken ==
  \A a \in Range(roundrobin_task_queue), b \in Range(roundrobin_task_queue') :
    Before(roundrobin_task_queue', b, a) =>
      \/ Before(roundrobin_task_queue, b, a)
      \/ /\ b = cur_task
         /\ CurPriority' \in {SYSTEM, PERIODIC}
         /\ ticks_from_start' = ticks_from_start

LEMMA NoneOvertakenLemma == IInv /\ [Next]_vars => NoneOvertaken
<1> SUFFICES ASSUME IInv, Class, NEW a \in Range(roundrobin_task_queue), NEW b,
                    Before(roundrobin_task_queue', b, a)
             PROVE  \/ Before(roundrobin_task_queue, b, a)
                    \/ /\ b = cur_task
                       /\ CurPriority' \in {SYSTEM, PERIODIC}
                       /\ ticks_from_start' = ticks_from_start
  BY StepClass DEF NoneOvertaken
<1>1. ASSUME NEW rq \in Seq(Tasks), Behind(rq),
             \/ roundrobin_task_queue' = rq
             \/ rq # <<>> /\ roundrobin_task_queue' = Tail(rq)
      PROVE  Before(roundrobin_task_queue, b, a)
  <2>1. Before(rq, b, a)
    BY <1>1, SeqOrderKept
  <2> QED  BY <1>1, <2>1 DEF Behind
<1>2. CASE Rests
  BY <1>2 DEF Rests
<1>3. ASSUME NEW st, NEW sq, NEW pq, NEW rq, NEW rem, Passes(st, sq, pq, rq, rem)
      PROVE  Before(roundrobin_task_queue, b, a)
  <2>1. /\ Requested(st, sq, pq, rq, rem) /\ Untouched' /\ Dispatch(st, sq, pq, rq, rem)
        /\ rq \in Seq(Tasks) /\ Behind(rq)
    BY <1>3 DEF Passes, Requested, TasksTyped
  <2>2. Stays(st, sq, pq, rq) \/ Picks(sq, pq, rq)
    BY <2>1, DispatchPicks
  <2>3. roundrobin_task_queue' = rq \/ (rq # <<>> /\ roundrobin_task_queue' = Tail(rq))
    BY <2>2 DEF Stays, Picks, Ready
  <2> QED  BY <1>1, <2>1, <2>3
<1>4. ASSUME NEW st, NEW sq, NEW pq, NEW rq, NEW m, Readies(st, sq, pq, rq, m)
      PROVE  \/ Before(roundrobin_task_queue, b, a)
             \/ /\ b = cur_task
                /\ CurPriority' \in {SYSTEM, PERIODIC}
                /\ ticks_from_start' = ticks_from_start
  <2>1. rq \in Seq(Tasks) /\ Behind(rq) /\ ticks_from_start' = ticks_from_start
    BY <1>4 DEF Readies, Requested, TasksTyped
  <2>2. CASE RRPreempted(sq, pq, rq)
    <3>1. Before(Cons(cur_task, rq), b, a) /\ cur_task \in Tasks
      BY <2>2 DEF RRPreempted
    <3>2. b = cur_task \/ Before(rq, b, a)
      BY <2>1, <3>1, SeqOrderKept
    <3> QED  BY <2>1, <2>2, <3>2 DEF RRPreempted, Behind
  <2>3. CASE ~RRPreempted(sq, pq, rq)
    <3>1. roundrobin_task_queue' = rq \/ (rq # <<>> /\ roundrobin_task_queue' = Tail(rq))
      BY <1>4, <2>3, ReadiesPicks
      DEF Aborts, GoesOn, Stays, IdleReplaced, PeriodicPreempted, Picks, Ready
    <3> QED  BY <1>1, <2>1, <3>1
  <2> QED  BY <2>2, <2>3
<1> QED  BY <1>2, <1>3, <1>4 DEF Class

\* The rule that preemption leaves a task its turn, for one step.
TurnKept ==
  CurPriority = ROUND_ROBIN /\ state'[cur_task] = "READY"
    /\ <<dead_pool_queue, service_queue>>' # <<dead_pool_queue, service_queue>>
    /\ error_msg' = "NONE" =>
      Head(roundrobin_task_queue') = cur_task

LEMMA TurnKeptLemma == IInv /\ [Next]_vars => TurnKept
<1> SUFFICES ASSUME IInv, Class, CurPriority = ROUND_ROBIN, state'[cur_task] = "READY",
                    ~ UNCHANGED <<dead_pool_queue, service_queue>>, error_msg' = "NONE"
             PROVE  Head(roundrobin_task_queue') = cur_task
  BY StepClass DEF TurnKept
<1>1. cur_task \in Tasks /\ cur_task # Idle
  BY QueuesNow
<1>2. ~Rests
  BY DEF Rests
<1>3. ASSUME NEW st, NEW sq, NEW pq, NEW rq, NEW rem, Passes(st, sq, pq, rq, rem)
      PROVE  FALSE
  <2>1. /\ Requested(st, sq, pq, rq, rem) /\ Untouched' /\ Dispatch(st, sq, pq, rq, rem)
        /\ st[cur_task] # "READY"
    BY <1>1, <1>3 DEF Passes
  <2> QED  BY <1>1, <2>1, DispatchPicks
<1>4. ASSUME NEW st, NEW sq, NEW pq, NEW rq, NEW m, Readies(st, sq, pq, rq, m)
      PROVE  Head(roundrobin_task_queue') = cur_task
  <2>1. rq \in Seq(Tasks) /\ st[cur_task] = "RUNNING"
    BY <1>1, <1>4 DEF Readies, Requested, TasksTyped
  <2>2. RRPreempted(sq, pq, rq)
    <3>1. \/ Aborts(st, sq, pq, rq) \/ GoesOn(st, sq, pq, rq)
          \/ IdleReplaced(sq, pq, rq) \/ PeriodicPreempted(sq, pq, rq, m)
          \/ RRPreempted(sq, pq, rq)
      BY <1>4, ReadiesPicks
    <3>2. CurPriority # PERIODIC
      BY Constants
    <3> QED  BY <1>1, <2>1, <3>1, <3>2
             DEF Aborts, GoesOn, Stays, IdleReplaced, PeriodicPreempted
  <2>3. roundrobin_task_queue' = Cons(cur_task, rq)
    BY <2>2 DEF RRPreempted
  <2>4. Head(Cons(cur_task, rq)) = cur_task
    BY <1>1, <2>1, SeqAdd
  <2> QED  BY <2>3, <2>4
<1> QED  BY <1>2, <1>3, <1>4 DEF Class

\* The queues keep the three rules of os.h, with preemption masked or not: SYSTEM
\* tasks run to completion, no ROUND_ROBIN task overtakes another, and one that is
\* preempted inside its quantum is the first to go on.
THEOREM QueuesKeepTheRules == Spec => QueueDiscipline
<1> DEFINE A == CurPriority = SYSTEM /\ cur_task' # cur_task =>
                  \/ state'[cur_task] \in {"DEAD", "WAITING"}
                  \/ /\ ticks_from_start' = ticks_from_start /\ system_task_queue # <<>>
                     /\ cur_task' = Head(system_task_queue)
                     /\ system_task_queue' = Append(Tail(system_task_queue), cur_task)
           B == \A a \in Range(roundrobin_task_queue), b \in Range(roundrobin_task_queue') :
                  Before(roundrobin_task_queue', b, a) =>
                    \/ Before(roundrobin_task_queue, b, a)
                    \/ /\ b = cur_task
                       /\ CurPriority' \in {SYSTEM, PERIODIC}
                       /\ ticks_from_start' = ticks_from_start
           C == CurPriority = ROUND_ROBIN /\ state'[cur_task] = "READY"
                  /\ <<dead_pool_queue, service_queue>>' # <<dead_pool_queue, service_queue>>
                  /\ error_msg' = "NONE" =>
                    Head(roundrobin_task_queue') = cur_task
<1>1. IInv /\ [Next]_vars => [A]_vars
  BY RunsOnLemma DEF RunsOn
<1>2. IInv /\ [Next]_vars => [B]_vars
  BY NoneOvertakenLemma DEF NoneOvertaken
<1>3. IInv /\ [Next]_vars => [C]_vars
  BY TurnKeptLemma DEF TurnKept
<1> QED
  BY <1>1, <1>2, <1>3, Invariance, PTL
  DEF Spec, QueueDiscipline, SystemRunsToCompletion, NoOvertaking, PreemptionKeepsTurn

-----------------------------------------------------------------------------
(* The order of the release queue.                                         *)

Ordered(mt, now, q) ==
  \A i, j \in DOMAIN q : i <= j => Remaining(mt, now, q[i]) <= Remaining(mt, now, q[j])

LEMMA RemainingLemma ==
  ASSUME NEW mt \in [Metas -> Blocks], NEW now \in Word, NEW m \in Metas
  PROVE  /\ Remaining(mt, now, m) \in Nat /\ (now + 1) % WORD \in Word
         /\ Remaining(mt, now, m) = 0 <=> mt[m].next = now
         /\ mt[m].next # now =>
              Remaining(mt, (now + 1) % WORD, m) = Remaining(mt, now, m) - 1
<1> DEFINE n == mt[m].next
<1>1. n \in 0 .. WORD - 1 /\ now \in 0 .. WORD - 1 /\ WORD \in Nat \ {0}
  BY Constants DEF Blocks, Word
<1> HIDE DEF n
<1>2. /\ (n - now) % WORD \in 0 .. WORD - 1
      /\ (n - now) % WORD = 0 <=> n = now
      /\ (now + 1) % WORD \in 0 .. WORD - 1
      /\ n # now => (n - ((now + 1) % WORD)) % WORD = ((n - now) % WORD) - 1
  <2>1. \A p \in Nat \ {0} : \A x, t \in 0 .. p - 1 :
          /\ (x - t) % p \in 0 .. p - 1
          /\ (x - t) % p = 0 <=> x = t
          /\ (t + 1) % p \in 0 .. p - 1
          /\ x # t => (x - ((t + 1) % p)) % p = ((x - t) % p) - 1
    BY ClockDistance
  <2>2. \A x, t \in 0 .. WORD - 1 :
          /\ (x - t) % WORD \in 0 .. WORD - 1
          /\ (x - t) % WORD = 0 <=> x = t
          /\ (t + 1) % WORD \in 0 .. WORD - 1
          /\ x # t => (x - ((t + 1) % WORD)) % WORD = ((x - t) % WORD) - 1
    BY <1>1, <2>1, Zenon
  <2> QED  BY <1>1, <2>2, Zenon
<1>3. (n - now) % WORD \in Nat
  BY <1>1, <1>2
<1> QED  BY <1>2, <1>3 DEF Remaining, Word, n

\* periodic_enqueue keeps the order.
LEMMA EnqueueOrdered ==
  ASSUME NEW mt \in [Metas -> Blocks], NEW now \in Word, NEW q \in Seq(Metas),
         Ordered(mt, now, q), NEW m \in Metas
  PROVE  /\ PeriodicEnqueue(mt, now, q, m) \in Seq(Metas)
         /\ Ordered(mt, now, PeriodicEnqueue(mt, now, q, m))
<1> DEFINE R(x) == Remaining(mt, now, x)
           later == {i \in DOMAIN q : Later(mt, now, m, q[i])}
           first == CHOOSE i \in later : \A j \in later : i <= j
           e == PeriodicEnqueue(mt, now, q, m)
<1>1. /\ \A x \in Metas : R(x) \in Nat
      /\ DOMAIN q = 1 .. Len(q) /\ Len(q) \in Nat /\ \A i \in 1 .. Len(q) : q[i] \in Metas
  <2>1. \A x \in Metas : Remaining(mt, now, x) \in Nat
    BY RemainingLemma
  <2> QED  BY <2>1
<1>2. \A i \in 1 .. Len(q) : i \in later <=> R(m) < R(q[i])
  BY <1>1 DEF Later
<1>3. \A i, j \in 1 .. Len(q) : i <= j => R(q[i]) <= R(q[j])
  BY <1>1 DEF Ordered
<1>4. later \in SUBSET Nat /\ later \subseteq 1 .. Len(q)
  BY <1>1
<1>5. /\ later = {} => e = Append(q, m)
      /\ later # {} => e = InsertAt(q, first, m)
  BY DEF PeriodicEnqueue
<1> HIDE DEF later, R, e
<1>6. CASE later = {}
  <2>1. \A i \in 1 .. Len(q) : R(q[i]) <= R(m)
    BY <1>1, <1>2, <1>6
  <2>2. /\ e \in Seq(Metas) /\ DOMAIN e = 1 .. Len(q) + 1 /\ e[Len(q) + 1] = m
        /\ \A i \in 1 .. Len(q) : e[i] = q[i]
    BY <1>5, <1>6
  <2>3. ASSUME NEW i \in 1 .. Len(q) + 1, NEW j \in 1 .. Len(q) + 1, i <= j
        PROVE  R(e[i]) <= R(e[j])
    <3>1. CASE j = Len(q) + 1 /\ i # j
      <4>1. i \in 1 .. Len(q)
        BY <1>1, <3>1
      <4> QED  BY <2>1, <2>2, <3>1, <4>1
    <3>2. CASE i = j
      <4>1. e[i] \in Metas
        BY <2>2
      <4> QED  BY <1>1, <3>2, <4>1
    <3>3. CASE j # Len(q) + 1
      <4>1. i \in 1 .. Len(q) /\ j \in 1 .. Len(q)
        BY <1>1, <2>3, <3>3
      <4> QED  BY <1>3, <2>2, <2>3, <4>1
    <3> QED  BY <3>1, <3>2, <3>3
  <2> QED  BY <2>2, <2>3 DEF Ordered, R, e
<1>7. CASE later # {}
  <2>1. \E i \in later : \A j \in later : i <= j
    BY <1>4, <1>7, LeastOne
  <2>2. first \in later /\ \A j \in later : first <= j
    BY <2>1
  <2> HIDE DEF first
  <2>3. first \in 1 .. Len(q)
    BY <1>4, <2>2
  <2>4. /\ InsertAt(q, first, m) \in Seq(Metas)
        /\ DOMAIN InsertAt(q, first, m) = 1 .. Len(q) + 1
        /\ \A j \in 1 .. Len(q) + 1 :
             InsertAt(q, first, m)[j] = IF j < first THEN q[j]
                                        ELSE IF j = first THEN m ELSE q[j - 1]
    BY <2>3, InsertIndex
  <2>5. /\ e \in Seq(Metas) /\ DOMAIN e = 1 .. Len(q) + 1
        /\ \A j \in 1 .. Len(q) + 1 :
             e[j] = IF j < first THEN q[j] ELSE IF j = first THEN m ELSE q[j - 1]
    BY <1>5, <1>7, <2>4
  <2>6. \A i \in 1 .. Len(q) : i < first => R(q[i]) <= R(m)
    <3>1. \A i \in 1 .. Len(q) : i < first => i \notin later
      BY <1>1, <2>2, <2>3
    <3> QED  BY <1>1, <1>2, <3>1
  <2>7. \A i \in 1 .. Len(q) : first <= i => R(m) <= R(q[i])
    <3>1. R(m) < R(q[first])
      BY <1>2, <2>2, <2>3
    <3> QED  BY <1>1, <1>3, <2>3, <3>1
  <2>8. ASSUME NEW i \in 1 .. Len(q) + 1, NEW j \in 1 .. Len(q) + 1, i <= j
        PROVE  R(e[i]) <= R(e[j])
    <3>0. i \in Nat /\ j \in Nat /\ first \in Nat /\ Len(q) \in Nat
      BY <1>1, <2>3
    <3>1. CASE i = j
      <4>1. e[i] \in Metas
        BY <2>5
      <4> QED  BY <1>1, <3>1, <4>1
    <3>2. CASE i < first /\ j < first
      <4>1. i \in 1 .. Len(q) /\ j \in 1 .. Len(q) /\ e[i] = q[i] /\ e[j] = q[j]
        BY <2>3, <2>5, <3>0, <3>2
      <4> QED  BY <1>3, <2>8, <4>1
    <3>3. CASE i < first /\ j = first
      <4>1. i \in 1 .. Len(q) /\ e[i] = q[i] /\ e[j] = m
        BY <2>3, <2>5, <3>0, <3>3
      <4> QED  BY <2>6, <3>3, <4>1
    <3>4. CASE i < first /\ first < j
      <4>1. /\ i \in 1 .. Len(q) /\ j - 1 \in 1 .. Len(q) /\ i <= j - 1
            /\ e[i] = q[i] /\ e[j] = q[j - 1]
        BY <2>3, <2>5, <3>0, <3>4
      <4> QED  BY <1>3, <4>1
    <3>5. CASE i = first /\ first < j
      <4>1. j - 1 \in 1 .. Len(q) /\ first <= j - 1 /\ e[i] = m /\ e[j] = q[j - 1]
        BY <2>3, <2>5, <3>0, <3>5
      <4> QED  BY <2>7, <4>1
    <3>6. CASE first < i /\ i < j
      <4>1. /\ i - 1 \in 1 .. Len(q) /\ j - 1 \in 1 .. Len(q) /\ i - 1 <= j - 1
            /\ e[i] = q[i - 1] /\ e[j] = q[j - 1]
        BY <2>3, <2>5, <3>0, <3>6
      <4> QED  BY <1>3, <4>1
    <3> QED  BY <2>8, <3>0, <3>1, <3>2, <3>3, <3>4, <3>5, <3>6
  <2> QED  BY <2>5, <2>8 DEF Ordered, R, e
<1> QED  BY <1>6, <1>7

\* periodic_enqueue drops no block, whether or not it has it already.
LEMMA EnqueueRange ==
  ASSUME NEW mt, NEW now, NEW q \in Seq(Metas), NEW m \in Metas
  PROVE  /\ PeriodicEnqueue(mt, now, q, m) \in Seq(Metas)
         /\ Range(q) \subseteq Range(PeriodicEnqueue(mt, now, q, m))
<1> DEFINE later == {i \in DOMAIN q : Later(mt, now, m, q[i])}
           first == CHOOSE i \in later : \A j \in later : i <= j
           e == PeriodicEnqueue(mt, now, q, m)
<1>1. DOMAIN q = 1 .. Len(q) /\ Len(q) \in Nat
  OBVIOUS
<1>2. later \in SUBSET Nat /\ later \subseteq 1 .. Len(q)
  BY <1>1
<1>3. /\ later = {} => e = Append(q, m)
      /\ later # {} => e = InsertAt(q, first, m)
  BY DEF PeriodicEnqueue
<1> HIDE DEF later, e
<1>4. CASE later = {}
  <2>1. /\ e \in Seq(Metas) /\ DOMAIN e = 1 .. Len(q) + 1
        /\ \A i \in 1 .. Len(q) : e[i] = q[i] /\ i \in 1 .. Len(q) + 1
    BY <1>1, <1>3, <1>4
  <2> QED  BY <1>1, <2>1 DEF Range, e
<1>5. CASE later # {}
  <2>1. \E i \in later : \A j \in later : i <= j
    BY <1>2, <1>5, LeastOne
  <2>2. first \in later
    BY <2>1
  <2> HIDE DEF first
  <2>3. first \in 1 .. Len(q)
    BY <1>2, <2>2
  <2>4. /\ e \in Seq(Metas) /\ DOMAIN e = 1 .. Len(q) + 1
        /\ \A j \in 1 .. Len(q) + 1 :
             e[j] = IF j < first THEN q[j] ELSE IF j = first THEN m ELSE q[j - 1]
    BY <1>3, <1>5, <2>3, InsertIndex
  <2>5. ASSUME NEW i \in 1 .. Len(q) PROVE \E j \in DOMAIN e : e[j] = q[i]
    <3>1. CASE i < first
      BY <1>1, <2>4, <3>1
    <3>2. CASE ~(i < first)
      <4>1. /\ i + 1 \in 1 .. Len(q) + 1 /\ ~(i + 1 < first) /\ i + 1 # first
            /\ (i + 1) - 1 = i
        BY <1>1, <2>3, <3>2
      <4> QED  BY <2>4, <4>1
    <3> QED  BY <3>1, <3>2
  <2> QED  BY <1>1, <2>4, <2>5 DEF Range, e
<1> QED  BY <1>4, <1>5

\* So does taking the head away.
LEMMA TailOrdered ==
  ASSUME NEW mt, NEW now, NEW q \in Seq(Metas), q # <<>>, Ordered(mt, now, q)
  PROVE  Ordered(mt, now, Tail(q))
<1>1. /\ DOMAIN q = 1 .. Len(q) /\ Len(q) \in Nat /\ DOMAIN Tail(q) = 1 .. Len(q) - 1
      /\ \A i \in 1 .. Len(q) - 1 : Tail(q)[i] = q[i + 1]
  BY SeqEnds
<1> SUFFICES ASSUME NEW i \in 1 .. Len(q) - 1, NEW j \in 1 .. Len(q) - 1, i <= j
             PROVE  Remaining(mt, now, Tail(q)[i]) <= Remaining(mt, now, Tail(q)[j])
  BY <1>1 DEF Ordered
<1>2. i + 1 \in 1 .. Len(q) /\ j + 1 \in 1 .. Len(q) /\ i + 1 <= j + 1
  BY <1>1
<1>3. Remaining(mt, now, q[i + 1]) <= Remaining(mt, now, q[j + 1])
  BY <1>1, <1>2 DEF Ordered
<1> QED  BY <1>1, <1>3

\* In an ordered queue nothing is due if the head is not.
LEMMA HeadFirst ==
  ASSUME NEW mt \in [Metas -> Blocks], NEW now \in Word, NEW q \in Seq(Metas),
         Ordered(mt, now, q), ~Due(mt, now, q)
  PROVE  \A m \in Range(q) : mt[m].next # now
<1> SUFFICES ASSUME NEW m \in Range(q), mt[m].next = now PROVE FALSE
  OBVIOUS
<1>1. /\ DOMAIN q = 1 .. Len(q) /\ Len(q) \in Nat /\ q # <<>> /\ Head(q) = q[1]
      /\ Range(q) \subseteq Metas /\ Head(q) \in Metas
  <2>1. q # <<>>
    BY DEF Range
  <2> QED  BY <2>1, SeqEnds
<1>2. PICK k \in 1 .. Len(q) : q[k] = m
  BY <1>1 DEF Range
<1>3. 1 \in 1 .. Len(q) /\ 1 <= k
  BY <1>1, <1>2
<1>4. Remaining(mt, now, q[1]) <= Remaining(mt, now, m)
  BY <1>1, <1>2, <1>3 DEF Ordered
<1>5. Remaining(mt, now, m) = 0 /\ Remaining(mt, now, q[1]) \in Nat
  BY <1>1, RemainingLemma
<1>6. Remaining(mt, now, q[1]) = 0
  BY <1>4, <1>5
<1>7. mt[q[1]].next = now
  <2>1. \A x \in Metas : Remaining(mt, now, x) = 0 <=> mt[x].next = now
    BY RemainingLemma
  <2> QED  BY <1>1, <1>6, <2>1
<1> QED  BY <1>1, <1>7 DEF Due

-----------------------------------------------------------------------------
(* The most urgent ready task runs.                                        *)

\* What the history records of a pass.
LEMMA RecordLemma ==
  ASSUME Record
  PROVE  /\ ~late' => ~late /\ Missed = {}
         /\ ~masked' /\ cur_task' = cur_task => ~masked /\ ~MaskUsed
  BY DEF Record

\* While no release has been missed, the queue that a request leaves is ordered at
\* the tick at which the dispatcher looks at it.
LEMMA OrderedNow ==
  ASSUME IInv, OnTimeOrdered, error_msg = "NONE", Record, ~late', Untouched',
         NEW pq, InTime(pq),
         \A m \in Range(periodic_task_queue) :
           m \in Range(periodic_task_queue') \/ meta'[m].next = ticks_from_start'
  PROVE  pq \in Seq(Metas) /\ Ordered(meta', ticks_from_start', pq)
<1> DEFINE q == periodic_task_queue
           now == ticks_from_start'
<1>1. /\ meta \in [Metas -> Blocks] /\ meta' \in [Metas -> Blocks] /\ q \in Seq(Metas)
      /\ ticks_from_start \in Word /\ now \in Word
      /\ \A m \in Range(q) : m \in Metas /\ meta'[m].next = meta[m].next
  <2>1. Untouched /\ Dispatched
    BY Parts
  <2>2. q \in Seq(Metas)
    BY <2>1 DEF Dispatched
  <2> QED  BY <2>1, <2>2, SeqEnds DEF Untouched, InTime
<1>2. Ordered(meta, ticks_from_start, q)
  BY RecordLemma DEF OnTimeOrdered, QueueOrdered, RemainingNow, Ordered
<1>3. \A i \in DOMAIN q : q[i] \in Range(q)
  BY DEF Range
<1>4. CASE now = ticks_from_start
  <2>1. Ordered(meta', now, q)
    <3>1. \A i \in DOMAIN q : Remaining(meta', now, q[i]) = Remaining(meta, ticks_from_start, q[i])
      BY <1>1, <1>3, <1>4 DEF Remaining
    <3> QED  BY <1>2, <3>1 DEF Ordered
  <2>2. CASE pq = q
    BY <1>1, <2>1, <2>2
  <2>3. CASE pq # q
    <3>1. PICK m \in Metas : pq = PeriodicEnqueue(meta', ticks_from_start, q, m)
      BY <2>3 DEF InTime
    <3>2. pq = PeriodicEnqueue(meta', now, q, m)
      BY <1>4, <3>1
    <3> HIDE DEF now, q
    <3>3. pq \in Seq(Metas) /\ Ordered(meta', now, pq)
      BY <1>1, <2>1, <3>2, EnqueueOrdered
    <3> QED  BY <3>3 DEF now
  <2> QED  BY <2>2, <2>3
<1>5. CASE now # ticks_from_start
  <2>1. pq = q /\ now = (ticks_from_start + 1) % WORD
    BY <1>5 DEF InTime
  <2>2. \A m \in Range(q) : meta[m].next # ticks_from_start
    <3>1. \A m \in Range(periodic_task_queue') : meta[m].next # ticks_from_start
      BY <1>5, RecordLemma DEF Missed
    <3> QED  BY <1>1, <1>5, <3>1
  <2>3. \A m \in Range(q) :
          /\ Remaining(meta', now, m) = Remaining(meta, ticks_from_start, m) - 1
          /\ Remaining(meta, ticks_from_start, m) \in Nat
    <3> SUFFICES ASSUME NEW m \in Range(q)
                 PROVE  /\ Remaining(meta', now, m) = Remaining(meta, ticks_from_start, m) - 1
                        /\ Remaining(meta, ticks_from_start, m) \in Nat
      OBVIOUS
    <3>1. m \in Metas /\ meta[m].next # ticks_from_start /\ meta'[m].next = meta[m].next
      BY <1>1, <2>2
    <3>2. /\ Remaining(meta, (ticks_from_start + 1) % WORD, m)
               = Remaining(meta, ticks_from_start, m) - 1
          /\ Remaining(meta, ticks_from_start, m) \in Nat
      BY <1>1, <3>1, RemainingLemma
    <3>3. Remaining(meta', now, m) = Remaining(meta, (ticks_from_start + 1) % WORD, m)
      BY <2>1, <3>1 DEF Remaining
    <3> QED  BY <3>2, <3>3
  <2>4. ASSUME NEW i \in DOMAIN q, NEW j \in DOMAIN q, i <= j
        PROVE  Remaining(meta', now, q[i]) <= Remaining(meta', now, q[j])
    <3>1. Remaining(meta, ticks_from_start, q[i]) <= Remaining(meta, ticks_from_start, q[j])
      BY <1>2, <2>4 DEF Ordered
    <3> QED  BY <1>3, <2>3, <3>1
  <2> QED  BY <1>1, <2>1, <2>4 DEF Ordered
<1> QED  BY <1>4, <1>5

\* What is wanted of the next state, given the order.
Settled == NoPriorityInversion' /\ OnTimeOrdered'

LEMMA PicksSettles ==
  ASSUME Untouched', NEW sq, NEW pq, NEW rq, Picks(sq, pq, rq),
         ~late' => pq \in Seq(Metas) /\ Ordered(meta', ticks_from_start', pq)
  PROVE  Settled
<1> DEFINE now == ticks_from_start'
<1>0. meta' \in [Metas -> Blocks] /\ now \in Word
  BY DEF Untouched
<1>1. ASSUME error_msg' = "NONE", ~late'
      PROVE  /\ Ordered(meta', now, periodic_task_queue')
             /\ ~Due(meta', now, pq) => \A m \in Range(pq) : meta'[m].next # now
  <2>1. pq \in Seq(Metas) /\ Ordered(meta', now, pq)
    BY <1>1
  <2>2. \/ periodic_task_queue' = pq
        \/ pq # <<>> /\ periodic_task_queue' = Tail(pq)
    BY <1>1 DEF Picks, Ready, Due
  <2> HIDE DEF now
  <2>3. Ordered(meta', now, periodic_task_queue')
    BY <2>1, <2>2, TailOrdered
  <2>4. ~Due(meta', now, pq) => \A m \in Range(pq) : meta'[m].next # now
    BY <1>0, <2>1, HeadFirst
  <2> QED  BY <2>3, <2>4
<1>2. OnTimeOrdered'
  BY <1>1 DEF OnTimeOrdered, QueueOrdered, RemainingNow, Ordered
<1>3. ASSUME error_msg' = "NONE"
      PROVE  /\ CurPriority' # SYSTEM => system_task_queue' = <<>>
             /\ CurPriority' \in {ROUND_ROBIN, IDLE} =>
                  \A m \in Range(periodic_task_queue') : meta'[m].next = now => late'
             /\ CurPriority' = IDLE => roundrobin_task_queue' = <<>>
  <2>1. CurPriority' # SYSTEM => system_task_queue' = <<>>
    BY <1>3 DEF Picks, Ready
  <2>2. CurPriority' \in {ROUND_ROBIN, IDLE} =>
          ~Due(meta', now, pq) /\ periodic_task_queue' = pq
    BY <1>3, Constants DEF Picks, Ready
  <2>3. CurPriority' = IDLE => roundrobin_task_queue' = <<>>
    BY <1>3, Constants DEF Picks, Ready
  <2> QED  BY <1>1, <1>3, <2>1, <2>2, <2>3
<1>4. NoPriorityInversion'
  BY <1>3 DEF NoPriorityInversion
<1> QED  BY <1>2, <1>4 DEF Settled

\* The task on the processor goes on: it did not have to give way.
LEMMA StaysSettles ==
  ASSUME Untouched', Record, NEW st, NEW sq, NEW pq, NEW rq, Stays(st, sq, pq, rq),
         cur_task \in Tasks \cup {Idle},
         ~late' => pq \in Seq(Metas) /\ Ordered(meta', ticks_from_start', pq),
         cur_task # Idle /\ ~masked /\ ~kernel_preemption_disabled =>
           /\ CurPriority' \in {SYSTEM, PERIODIC, ROUND_ROBIN}
           /\ CurPriority' # SYSTEM => sq = <<>>
           /\ CurPriority' = ROUND_ROBIN =>
                \A m \in Range(pq) : meta'[m].next = ticks_from_start' => late'
  PROVE  Settled
<1>1. /\ cur_task' = cur_task /\ Ready(sq, pq, rq) /\ kernel_preemption_disabled' = FALSE
      /\ cur_task = Idle => kernel_preemption_disabled
  BY DEF Stays
<1>2. OnTimeOrdered'
  BY <1>1 DEF OnTimeOrdered, QueueOrdered, RemainingNow, Ordered, Ready
<1>3. ASSUME ~masked'
      PROVE  cur_task # Idle /\ ~masked /\ ~kernel_preemption_disabled
  BY <1>1, <1>3, RecordLemma DEF MaskUsed
<1>4. ASSUME error_msg' = "NONE", ~masked'
      PROVE  /\ CurPriority' # SYSTEM => system_task_queue' = <<>>
             /\ CurPriority' \in {ROUND_ROBIN, IDLE} =>
                  \A m \in Range(periodic_task_queue') :
                    meta'[m].next = ticks_from_start' => late'
             /\ CurPriority' = IDLE => roundrobin_task_queue' = <<>>
  <2>1. /\ CurPriority' \in {SYSTEM, PERIODIC, ROUND_ROBIN}
        /\ CurPriority' # SYSTEM => sq = <<>>
        /\ CurPriority' = ROUND_ROBIN =>
             \A m \in Range(pq) : meta'[m].next = ticks_from_start' => late'
    BY <1>3, <1>4
  <2>2. CurPriority' # IDLE
    BY <2>1, Constants
  <2> QED  BY <1>1, <2>1, <2>2 DEF Ready
<1>5. NoPriorityInversion'
  BY <1>4 DEF NoPriorityInversion
<1> QED  BY <1>2, <1>5 DEF Settled

\* Blocks that were queued before a dispatch and are not after it are due.
LEMMA StillQueued ==
  ASSUME NEW q \in Seq(Metas), NEW pq, pq \in Seq(Metas), Range(q) \subseteq Range(pq),
         \/ periodic_task_queue' = pq
         \/ Due(meta', ticks_from_start', pq) /\ periodic_task_queue' = Tail(pq)
  PROVE  \A m \in Range(q) :
           m \in Range(periodic_task_queue') \/ meta'[m].next = ticks_from_start'
<1>1. CASE periodic_task_queue' = pq
  BY <1>1
<1>2. CASE Due(meta', ticks_from_start', pq) /\ periodic_task_queue' = Tail(pq)
  <2>1. pq # <<>> /\ meta'[Head(pq)].next = ticks_from_start'
    BY <1>2 DEF Due
  <2>2. /\ DOMAIN pq = 1 .. Len(pq) /\ Len(pq) \in Nat /\ Head(pq) = pq[1]
        /\ \A i \in 1 .. Len(pq) - 1 : Tail(pq)[i] = pq[i + 1]
        /\ DOMAIN Tail(pq) = 1 .. Len(pq) - 1
    BY <2>1, SeqEnds
  <2>3. ASSUME NEW m \in Range(pq), m # Head(pq) PROVE m \in Range(Tail(pq))
    <3>1. PICK i \in 1 .. Len(pq) : pq[i] = m
      BY <2>2 DEF Range
    <3>2. i - 1 \in 1 .. Len(pq) - 1 /\ (i - 1) + 1 = i
      BY <2>2, <2>3, <3>1
    <3>3. Tail(pq)[i - 1] = m
      BY <2>2, <3>1, <3>2
    <3> QED  BY <2>2, <3>2, <3>3 DEF Range
  <2> QED  BY <1>2, <2>1, <2>3
<1> QED  BY <1>1, <1>2


\* A dispatch leaves the blocks of the queue in it, but for a head that is due.
LEMMA PicksQueue ==
  ASSUME NEW sq, NEW pq, NEW rq, Picks(sq, pq, rq)
  PROVE  \/ periodic_task_queue' = pq
         \/ Due(meta', ticks_from_start', pq) /\ periodic_task_queue' = Tail(pq)
BY DEF Picks, Ready

\* The blocks that were queued are in the queue that a request leaves.
LEMMA RequestKeepsBlocks ==
  ASSUME IInv, error_msg = "NONE", NEW st, NEW pr, NEW pd, NEW mt, NEW bq, NEW pq,
         BlocksIn(st, pr, pd, mt, pq, bq), InTime(pq)
  PROVE  periodic_task_queue \in Seq(Metas)
         /\ Range(periodic_task_queue) \subseteq Range(pq)
<1> DEFINE q == periodic_task_queue
<1>1. q \in Seq(Metas)
  BY QueuesNow
<1>2. CASE pq = q
  BY <1>1, <1>2
<1>3. ASSUME NEW m \in Metas, pq = PeriodicEnqueue(meta', ticks_from_start, q, m)
      PROVE  Range(q) \subseteq Range(pq)
  BY <1>1, <1>3, EnqueueRange
<1> QED  BY <1>1, <1>2, <1>3 DEF InTime

LEMMA PassesSettles ==
  ASSUME HInv, Record, NEW st, NEW sq, NEW pq, NEW rq, NEW rem, Passes(st, sq, pq, rq, rem)
  PROVE  Settled
<1>1. /\ IInv /\ OnTimeOrdered /\ NoPriorityInversion
      /\ Untouched' /\ Requested(st, sq, pq, rq, rem) /\ Dispatch(st, sq, pq, rq, rem)
      /\ InTime(pq) /\ error_msg = "NONE" /\ pq \in Seq(Metas)
      /\ cur_task \in Tasks /\ st[cur_task] = "RUNNING" =>
           /\ sq = system_task_queue /\ pq = periodic_task_queue /\ priority' = priority
           /\ CurPriority = ROUND_ROBIN => ticks_from_start' = ticks_from_start
  BY DEF HInv, Passes, Requested
<1>2. IF IF cur_task = Idle THEN kernel_preemption_disabled ELSE st[cur_task] = "RUNNING"
      THEN Stays(st, sq, pq, rq) ELSE Picks(sq, pq, rq)
  BY <1>1, DispatchPicks
<1>3. ASSUME ~late' PROVE pq \in Seq(Metas) /\ Ordered(meta', ticks_from_start', pq)
  <2>1. /\ periodic_task_queue \in Seq(Metas)
        /\ Range(periodic_task_queue) \subseteq Range(pq)
    BY <1>1, RequestKeepsBlocks DEF Requested
  <2>2. \/ periodic_task_queue' = pq
        \/ Due(meta', ticks_from_start', pq) /\ periodic_task_queue' = Tail(pq)
    BY <1>2, PicksQueue DEF Stays, Ready
  <2>3. \A m \in Range(periodic_task_queue) :
          m \in Range(periodic_task_queue') \/ meta'[m].next = ticks_from_start'
    BY <1>1, <2>1, <2>2, StillQueued
  <2> QED  BY <1>1, <1>3, <2>3, OrderedNow
<1>4. CASE Picks(sq, pq, rq)
  BY <1>1, <1>3, <1>4, PicksSettles
<1>5. CASE Stays(st, sq, pq, rq)
  <2>1. cur_task \in Tasks \cup {Idle}
    BY <1>1 DEF Requested
  <2>2. ASSUME cur_task # Idle, ~masked, ~kernel_preemption_disabled
        PROVE  /\ CurPriority' \in {SYSTEM, PERIODIC, ROUND_ROBIN}
               /\ CurPriority' # SYSTEM => sq = <<>>
               /\ CurPriority' = ROUND_ROBIN =>
                    \A m \in Range(pq) : meta'[m].next = ticks_from_start' => late'
    <3>1. /\ cur_task \in Tasks /\ st[cur_task] = "RUNNING" /\ cur_task' = cur_task
          /\ sq = system_task_queue /\ pq = periodic_task_queue /\ priority' = priority
          /\ CurPriority = ROUND_ROBIN => ticks_from_start' = ticks_from_start
      BY <1>1, <1>5, <2>1, <2>2 DEF Stays
    <3>2. CurPriority' = CurPriority /\ CurPriority \in {SYSTEM, PERIODIC, ROUND_ROBIN}
      BY <1>1, <2>2, <3>1 DEF CurPriority, Untouched, Levels
    <3>3. CurPriority # SYSTEM => sq = <<>>
      BY <1>1, <2>2, <3>1 DEF NoPriorityInversion
    <3>4. CurPriority = ROUND_ROBIN =>
            \A m \in Range(pq) : meta[m].next = ticks_from_start => late
      BY <1>1, <2>2, <3>1 DEF NoPriorityInversion
    <3>5. late => late'
      BY DEF Record
    <3>6. \A m \in Range(pq) : meta'[m].next = meta[m].next
      BY <1>1, <3>1 DEF InTime
    <3> QED  BY <3>1, <3>2, <3>3, <3>4, <3>5, <3>6
  <2> QED  BY <1>1, <1>3, <1>5, <2>1, <2>2, StaysSettles
<1> QED  BY <1>2, <1>4, <1>5

LEMMA ReadiesSettles ==
  ASSUME HInv, Record, NEW st, NEW sq, NEW pq, NEW rq, NEW m, Readies(st, sq, pq, rq, m)
  PROVE  Settled
<1> DEFINE q == PeriodicEnqueue(meta', ticks_from_start', pq, m)
<1>1. /\ IInv /\ OnTimeOrdered /\ NoPriorityInversion
      /\ Untouched' /\ Requested(st, sq, pq, rq, periodic_task_remticks)
      /\ InTime(pq) /\ error_msg = "NONE" /\ pq \in Seq(Metas)
      /\ cur_task \in Tasks \cup {Idle}
      /\ cur_task # Idle => st[cur_task] = "RUNNING" /\ priority'[cur_task] = priority[cur_task]
      /\ meta' \in [Metas -> Blocks] /\ ticks_from_start' \in Word
  BY DEF HInv, Readies, Requested, Untouched
<1>2. \/ Aborts(st, sq, pq, rq) \/ GoesOn(st, sq, pq, rq)
      \/ IdleReplaced(sq, pq, rq) \/ PeriodicPreempted(sq, pq, rq, m)
      \/ RRPreempted(sq, pq, rq)
  BY ReadiesPicks
<1>3. /\ periodic_task_queue \in Seq(Metas)
      /\ Range(periodic_task_queue) \subseteq Range(pq)
  BY <1>1, RequestKeepsBlocks DEF Requested
<1>4. ASSUME ~late', NEW p \in Seq(Metas), Range(pq) \subseteq Range(p),
             \/ periodic_task_queue' = p
             \/ Due(meta', ticks_from_start', p) /\ periodic_task_queue' = Tail(p)
      PROVE  pq \in Seq(Metas) /\ Ordered(meta', ticks_from_start', pq)
  <2>1. Range(periodic_task_queue) \subseteq Range(p)
    BY <1>3, <1>4
  <2>2. \A x \in Range(periodic_task_queue) :
          x \in Range(periodic_task_queue') \/ meta'[x].next = ticks_from_start'
    BY <1>3, <1>4, <2>1, StillQueued
  <2> QED  BY <1>1, <1>4, <2>2, OrderedNow
<1>5. CASE Aborts(st, sq, pq, rq)
  BY <1>5 DEF Aborts, Settled, NoPriorityInversion, OnTimeOrdered
<1>6. ASSUME NEW r, Picks(sq, pq, r) PROVE Settled
  <2>1. ~late' => pq \in Seq(Metas) /\ Ordered(meta', ticks_from_start', pq)
    BY <1>1, <1>4, <1>6, PicksQueue
  <2> QED  BY <1>1, <1>6, <2>1, PicksSettles
<1>7. CASE PeriodicPreempted(sq, pq, rq, m)
  <2>1. m \in Metas /\ Picks(sq, q, rq)
    BY <1>7 DEF PeriodicPreempted
  <2>2. q \in Seq(Metas) /\ Range(pq) \subseteq Range(q)
    BY <1>1, <2>1, EnqueueRange
  <2>3. ~late' => q \in Seq(Metas) /\ Ordered(meta', ticks_from_start', q)
    <3>1. ~late' => Ordered(meta', ticks_from_start', pq)
      BY <1>4, <2>1, <2>2, PicksQueue
    <3> QED  BY <1>1, <2>1, <3>1, EnqueueOrdered
  <2> QED  BY <1>1, <2>1, <2>3, PicksSettles
<1>8. CASE GoesOn(st, sq, pq, rq)
  <2>1. Stays(st, sq, pq, rq) /\ (cur_task # Idle => ~ShouldPreempt(sq, pq, rq))
    BY <1>8 DEF GoesOn
  <2>2. ~late' => pq \in Seq(Metas) /\ Ordered(meta', ticks_from_start', pq)
    BY <1>1, <1>4, <2>1 DEF Stays, Ready
  <2>3. ASSUME cur_task # Idle, ~masked, ~kernel_preemption_disabled
        PROVE  /\ CurPriority' \in {SYSTEM, PERIODIC, ROUND_ROBIN}
               /\ CurPriority' # SYSTEM => sq = <<>>
               /\ CurPriority' = ROUND_ROBIN =>
                    \A x \in Range(pq) : meta'[x].next = ticks_from_start' => late'
    <3>1. /\ CurPriority' = CurPriority /\ CurPriority \in {SYSTEM, PERIODIC, ROUND_ROBIN}
      <4>1. /\ cur_task' = cur_task /\ cur_task \in Tasks
            /\ priority'[cur_task] = priority[cur_task] /\ priority' \in [Tasks -> Levels]
        BY <1>1, <2>1, <2>3 DEF Stays, Untouched
      <4> QED  BY <2>3, <4>1 DEF CurPriority, Levels
    <3>2. CurPriority # SYSTEM => sq = <<>>
      BY <2>1, <2>3 DEF ShouldPreempt
    <3>3. CurPriority = ROUND_ROBIN => ~Due(meta', ticks_from_start', pq)
      BY <2>1, <2>3, Constants DEF ShouldPreempt
    <3>4. ASSUME CurPriority = ROUND_ROBIN, ~late'
          PROVE  \A x \in Range(pq) : meta'[x].next # ticks_from_start'
      BY <1>1, <2>2, <3>3, <3>4, HeadFirst
    <3> QED  BY <3>1, <3>2, <3>4
  <2> QED  BY <1>1, <2>1, <2>2, <2>3, StaysSettles
<1> QED  BY <1>2, <1>5, <1>6, <1>7, <1>8 DEF IdleReplaced, RRPreempted

LEMMA RestsSettles ==
  ASSUME HInv, Record, Rests
  PROVE  Settled
<1>1. /\ OnTimeOrdered /\ NoPriorityInversion
      /\ error_msg' = "NONE" => error_msg = "NONE"
      /\ kernel_preemption_disabled => kernel_preemption_disabled'
      /\ cur_task' = cur_task /\ meta' = meta /\ priority' = priority
      /\ ticks_from_start' = ticks_from_start
      /\ system_task_queue' = system_task_queue
      /\ periodic_task_queue' = periodic_task_queue
      /\ roundrobin_task_queue' = roundrobin_task_queue
  BY DEF HInv, Rests
<1>2. (masked => masked') /\ (late => late')
  BY <1>1 DEF Record
<1>3. CurPriority' = CurPriority
  BY <1>1 DEF CurPriority
<1>4. OnTimeOrdered'
  BY <1>1, <1>2 DEF OnTimeOrdered, QueueOrdered, RemainingNow, Remaining
<1>5. NoPriorityInversion'
  BY <1>1, <1>2, <1>3 DEF NoPriorityInversion
<1> QED  BY <1>4, <1>5 DEF Settled

LEMMA HInitInv == HInit => HInv
<1> SUFFICES ASSUME HInit PROVE HInv
  OBVIOUS
<1>1. Init /\ IInv
  BY InitInv DEF HInit
<1>2. CurPriority = SYSTEM
  BY <1>1, Constants DEF Init, CurPriority, Tasks
<1>3. NoPriorityInversion
  BY <1>2, Constants DEF NoPriorityInversion
<1>4. OnTimeOrdered
  BY <1>1 DEF Init, OnTimeOrdered, QueueOrdered
<1> QED  BY <1>1, <1>3, <1>4 DEF HInv

LEMMA HNextInv == HInv /\ [HNext]_hvars => HInv'
<1> SUFFICES ASSUME HInv, [HNext]_hvars PROVE HInv'
  OBVIOUS
<1>1. CASE HNext
  <2>1. IInv /\ Record /\ [Next]_vars
    BY <1>1 DEF HNext, HInv
  <2>2. Class
    BY <2>1, StepClass
  <2>3. Settled
    BY <2>1, <2>2, RestsSettles, PassesSettles, ReadiesSettles DEF Class
  <2> QED  BY <2>2, <2>3, ClassInv DEF HInv, Settled
<1>2. CASE UNCHANGED hvars
  <2>1. IInv'
    <3>1. IInv /\ UNCHANGED vars
      BY <1>2 DEF hvars, HInv
    <3> QED  BY <3>1, StepClass, ClassInv
  <2>2. /\ OnTimeOrdered /\ NoPriorityInversion
        /\ UNCHANGED <<cur_task, meta, priority, ticks_from_start, system_task_queue,
                       periodic_task_queue, roundrobin_task_queue, error_msg, masked, late>>
    BY <1>2 DEF hvars, vars, dispatch_vars, ready_queues, descriptors, HInv
  <2>3. OnTimeOrdered' /\ NoPriorityInversion'
    BY <2>2 DEF OnTimeOrdered, QueueOrdered, RemainingNow, Remaining, NoPriorityInversion,
                CurPriority
  <2> QED  BY <2>1, <2>3 DEF HInv
<1> QED  BY <1>1, <1>2

\* The history invariant: the kernel's own, and that the order of the release queue
\* and the choice of the processor's task support each other.
THEOREM HistoryInvariance == HSpec => []HInv
BY HInitInv, HNextInv, PTL DEF HSpec

\* Until a release is missed, the blocks of the release queue are in the order of the
\* ticks left to them, at every tick and across the wrap of the counter, so that the
\* head the scheduler looks at is the first that falls due.
THEOREM ReleasesInOrder == HSpec => []OnTimeOrdered
<1>1. HInv => OnTimeOrdered
  BY DEF HInv
<1> QED  BY <1>1, HistoryInvariance, PTL

\* No task runs while a more urgent one is ready, unless it masked preemption since
\* its dispatch; a due release waits for nothing but PERIODIC and SYSTEM tasks
\* until one has been missed.
THEOREM MostUrgentRuns == HSpec => []NoPriorityInversion
<1>1. HInv => NoPriorityInversion
  BY DEF HInv
<1> QED  BY <1>1, HistoryInvariance, PTL

=============================================================================
