--------------------------- MODULE SchedulerProofs ---------------------------
(***************************************************************************)
(* Proofs about Scheduler and about SchedMutex, the scheduler with a       *)
(* mutex, for any number of tasks, processes and sleep times, and any time *)
(* slice.                                                                  *)
(***************************************************************************)
EXTENDS SchedMutex, TLAPS

-----------------------------------------------------------------------------
(* The queue operations of scheduler/queue.c.                              *)

(* task_queue_push adds the task and nothing else, and keeps the entries   *)
(* distinct if the task was not queued.                                    *)
LEMMA PushFacts ==
    ASSUME NEW q \in QueueType, NEW t \in Tasks
    PROVE  /\ task_queue_push(q, t) \in QueueType
           /\ \A u : Contains(task_queue_push(q, t), u) <=> Contains(q, u) \/ u = t
           /\ Distinct(q) /\ ~Contains(q, t) => Distinct(task_queue_push(q, t))
           /\ task_queue_push(q, t) # <<>>
  BY DEF task_queue_push, QueueType, Contains, Distinct

(* Popping the head removes it and nothing else.                           *)
LEMMA PopFacts ==
    ASSUME NEW q \in QueueType, q # <<>>
    PROVE  /\ Head(q) \in Tasks
           /\ Tail(q) \in QueueType
           /\ Contains(q, Head(q))
           /\ \A u : Contains(Tail(q), u) => Contains(q, u)
           /\ \A u : Contains(q, u) => u = Head(q) \/ Contains(Tail(q), u)
           /\ Distinct(q) => ~Contains(Tail(q), Head(q)) /\ Distinct(Tail(q))
  <1>1. Head(q) = q[1] /\ Len(q) \in Nat \ {0} /\ Len(Tail(q)) = Len(q) - 1
    BY DEF QueueType
  <1>2. \A i \in 1..Len(Tail(q)) : Tail(q)[i] = q[i + 1]
    BY DEF QueueType
  <1>3. Head(q) \in Tasks /\ Tail(q) \in QueueType
    BY DEF QueueType
  <1>4. Contains(q, Head(q))
    BY <1>1 DEF Contains
  <1>5. \A u : Contains(Tail(q), u) => Contains(q, u)
    BY <1>1, <1>2 DEF Contains
  <1>6. ASSUME NEW u, Contains(q, u)
        PROVE  u = Head(q) \/ Contains(Tail(q), u)
    <2>1. PICK i \in 1..Len(q) : q[i] = u
      BY <1>6 DEF Contains
    <2>2. CASE i = 1
      BY <2>1, <2>2, <1>1
    <2>3. CASE i # 1
      <3>1. i - 1 \in 1..Len(Tail(q)) /\ Tail(q)[i - 1] = u
        BY <2>1, <2>3, <1>1, <1>2
      <3>2. QED BY <3>1 DEF Contains
    <2>4. QED BY <2>2, <2>3
  <1>7. Distinct(q) => ~Contains(Tail(q), Head(q)) /\ Distinct(Tail(q))
    BY <1>1, <1>2 DEF Contains, Distinct
  <1>8. QED BY <1>3, <1>4, <1>5, <1>6, <1>7

(* Unlinking the entry at an index removes it and nothing else.            *)
LEMMA RemoveIndexFacts ==
    ASSUME NEW q \in QueueType, NEW i \in 1..Len(q)
    PROVE  /\ RemoveIndex(q, i) \in QueueType
           /\ \A u : Contains(RemoveIndex(q, i), u) => Contains(q, u)
           /\ \A u : Contains(q, u) => u = q[i] \/ Contains(RemoveIndex(q, i), u)
           /\ Distinct(q) => /\ ~Contains(RemoveIndex(q, i), q[i])
                             /\ Distinct(RemoveIndex(q, i))
  <1> DEFINE r == RemoveIndex(q, i)
  <1>1. Len(q) \in Nat \ {0} /\ \A j \in 1..Len(q) : q[j] \in Tasks
    BY DEF QueueType
  <1>2. /\ r \in QueueType /\ Len(r) = Len(q) - 1
        /\ \A j \in 1..Len(r) : r[j] = IF j < i THEN q[j] ELSE q[j + 1]
    <2>1. r = [j \in 1..(Len(q) - 1) |-> IF j < i THEN q[j] ELSE q[j + 1]]
      BY DEF RemoveIndex
    <2>2. r \in [1..(Len(q) - 1) -> Tasks]
      BY <2>1, <1>1
    <2>3. r \in Seq(Tasks) /\ Len(r) = Len(q) - 1
      BY <2>1, <2>2, <1>1, Len(q) - 1 \in Nat
    <2>4. QED BY <2>1, <2>3 DEF QueueType
  <1>3. \A u : Contains(r, u) => Contains(q, u)
    BY <1>1, <1>2 DEF Contains
  <1>4. ASSUME NEW u, Contains(q, u)
        PROVE  u = q[i] \/ Contains(r, u)
    <2>1. PICK k \in 1..Len(q) : q[k] = u
      BY <1>4 DEF Contains
    <2>2. CASE k < i
      <3>1. k \in 1..Len(r) /\ r[k] = u
        BY <2>1, <2>2, <1>1, <1>2
      <3>2. QED BY <3>1 DEF Contains
    <2>3. CASE k > i
      <3>1. k - 1 \in 1..Len(r) /\ r[k - 1] = u
        BY <2>1, <2>3, <1>1, <1>2
      <3>2. QED BY <3>1 DEF Contains
    <2>4. QED BY <2>1, <2>2, <2>3
  <1>5. Distinct(q) => ~Contains(r, q[i]) /\ Distinct(r)
    BY <1>1, <1>2 DEF Contains, Distinct
  <1> HIDE DEF r
  <1>6. QED BY <1>2, <1>3, <1>4, <1>5 DEF r

(* task_queue_remove removes the task, if it is queued, and nothing else.  *)
LEMMA RemoveFacts ==
    ASSUME NEW q \in QueueType, NEW t
    PROVE  /\ task_queue_remove(q, t) \in QueueType
           /\ \A u : Contains(task_queue_remove(q, t), u) => Contains(q, u)
           /\ \A u : Contains(q, u) => u = t \/ Contains(task_queue_remove(q, t), u)
           /\ Distinct(q) => /\ ~Contains(task_queue_remove(q, t), t)
                             /\ Distinct(task_queue_remove(q, t))
  <1>1. CASE Contains(q, t)
    <2>1. IndexOf(q, t) \in 1..Len(q) /\ q[IndexOf(q, t)] = t
      BY <1>1 DEF Contains, IndexOf
    <2>2. QED BY <1>1, <2>1, RemoveIndexFacts DEF task_queue_remove
  <1>2. CASE ~Contains(q, t)
    BY <1>2 DEF task_queue_remove
  <1>3. QED BY <1>1, <1>2

-----------------------------------------------------------------------------
(* The cooperative switch.                                                 *)

(* What scheduler_yield has established when it calls scheduler_schedule:  *)
(* nobody is running, each list holds the tasks of its state, and every    *)
(* ready task other than the caller can be resumed as its resume_mode says.*)
BeforeSwitch(rq, st, rm) ==
    /\ rq \in QueueType /\ Distinct(rq)
    /\ st \in [AllTasks -> task_state_t \cup {"none"}]
    /\ rm \in [AllTasks -> task_resume_mode_t]
    /\ st[Idle] = "idle" /\ rm[Idle] = "context"
    /\ \A t \in Tasks :
         /\ st[t] \notin {"running", "idle"}
         /\ Contains(rq, t) <=> st[t] = "ready"
         /\ Contains(blocked_queue', t) <=> st[t] = "blocked"
         /\ Contains(sleep_queue', t) <=> st[t] = "sleeping"
         /\ Contains(rq, t) /\ t # current_task => rm[t] = saved[t]
         /\ Contains(rq, t) /\ t = current_task => rm[t] = "context"
         /\ st[t] \in {"blocked", "sleeping"} /\ t # current_task =>
               saved[t] = "context"
    /\ \A p \in Processes : user[p] = "started" =>
         st[p] = "ready" /\ rm[p] = "interrupt" /\ p # current_task
    /\ \A w \in Wakers : waking[w] # NULL => st[waking[w]] = "blocked"

(* What the callers of scheduler_yield leave alone, and what they push.    *)
AroundSwitch ==
    /\ pc = "run" /\ UNCHANGED <<pending_task, preemption_requested, user,
                                 waking, pc, cursor>>
    /\ blocked_queue' \in QueueType /\ Distinct(blocked_queue')
    /\ sleep_queue' \in QueueType /\ Distinct(sleep_queue')
    /\ wake_left' \in [Tasks -> Nat]

(* scheduler_schedule and the context switch that follows it keep the      *)
(* invariant, from the queues and states their caller leaves.              *)
LEMMA SwitchPreserves ==
    ASSUME IInv, NEW rq, NEW st, NEW rm,
           BeforeSwitch(rq, st, rm), AroundSwitch,
           ScheduleAndSwitch(rq, st, rm)
    PROVE  IInv'
  <1> DEFINE next == NextTask(rq)
  <1> USE TasksAssumption, NumbersAssumption DEF AllTasks
  <1>1. /\ rq # <<>> => /\ next \in Tasks /\ next # Idle
                       /\ Contains(rq, next) /\ ready_queue' = Tail(rq)
                       /\ Tail(rq) \in QueueType /\ Distinct(Tail(rq))
                       /\ \A u : Contains(Tail(rq), u)
                                  <=> Contains(rq, u) /\ u # next
        /\ rq = <<>> => next = Idle /\ ready_queue' = rq
        /\ \A u : rq = <<>> => ~Contains(rq, u)
    <2>1. CASE rq # <<>>
      BY <2>1, PopFacts DEF BeforeSwitch, NextTask, ScheduleAndSwitch, scheduler_schedule, scheduler_switch_to
    <2>2. CASE rq = <<>>
      BY <2>2 DEF NextTask, ScheduleAndSwitch, scheduler_schedule, scheduler_switch_to, Contains
    <2>3. QED BY <2>1, <2>2
  <1>2. /\ current_task' = next /\ next \in AllTasks
        /\ resume_mode' = rm /\ preemption_ticks' = 0 /\ rsp0' = next
        /\ cr3' = IF next \in Processes THEN next ELSE cr3
        /\ state' = IF next = Idle THEN st ELSE [st EXCEPT ![next] = "running"]
        /\ next = current_task => saved' = saved /\ stale' = stale
        /\ next # current_task =>
              /\ saved' = [t \in AllTasks |->
                            IF t = current_task THEN "context" ELSE saved[t]]
              /\ stale' = (stale \/ rm[next] # saved[next])
    BY <1>1 DEF ScheduleAndSwitch, scheduler_schedule, scheduler_switch_to
  <1> HIDE DEF next
  <1>3. /\ ready_queue' \in QueueType /\ Distinct(ready_queue')
        /\ \A t \in Tasks : Contains(ready_queue', t)
                            <=> Contains(rq, t) /\ t # next
    <2>1. CASE rq # <<>>
      BY <2>1, <1>1
    <2>2. CASE rq = <<>>
      BY <2>2, <1>1 DEF BeforeSwitch
    <2>3. QED BY <2>1, <2>2
  <1>4. pending_task = NULL /\ pending_task' = NULL
    BY DEF IInv, TaskPlacement, AroundSwitch
  <1>5. /\ state' \in [AllTasks -> task_state_t \cup {"none"}]
        /\ state'[Idle] = "idle"
        /\ \A t \in Tasks : state'[t] = IF t = next THEN "running" ELSE st[t]
    BY <1>1, <1>2 DEF BeforeSwitch, task_state_t
  <1>6. saved' \in [AllTasks -> task_resume_mode_t] /\ stale' \in BOOLEAN
    <2>1. saved \in [AllTasks -> task_resume_mode_t] /\ stale \in BOOLEAN
      BY DEF IInv, TypeOK
    <2>2. saved' \in [AllTasks -> task_resume_mode_t]
      BY <1>2, <2>1 DEF task_resume_mode_t
    <2>3. stale' \in BOOLEAN
      BY <1>2, <2>1, Zenon
    <2>4. QED BY <2>2, <2>3
  <1>7. TypeOK'
    BY <1>2, <1>3, <1>4, <1>5, <1>6 DEF TypeOK, IInv, AroundSwitch, BeforeSwitch
  <1>8. TaskPlacement'
    <2>1. /\ Distinct(blocked_queue') /\ Distinct(sleep_queue') /\ pc' = "run"
      BY DEF AroundSwitch
    <2>2. ASSUME NEW t \in Tasks
          PROVE  /\ Contains(ready_queue', t) <=> state'[t] = "ready"
                 /\ Contains(blocked_queue', t) <=> state'[t] = "blocked"
                 /\ Contains(sleep_queue', t) <=> state'[t] = "sleeping"
                 /\ state'[t] = "running" => t = current_task'
      <3>1. next \in Tasks => st[next] = "ready"
        BY <1>1 DEF BeforeSwitch
      <3>2. QED BY <1>1, <1>2, <1>3, <1>5, <3>1 DEF BeforeSwitch
    <2>3. QED BY <1>2, <1>3, <1>4, <1>5, <2>1, <2>2
              DEF TaskPlacement, OnReady, OnBlocked, OnSleep
  <1>9. ResumeInv'
    <2>1. saved'[Idle] = "context"
      BY <1>2 DEF IInv, ResumeInv, TypeOK
    <2>2. pc' = "run"
      BY DEF AroundSwitch
    <2>3. ASSUME NEW t \in Tasks
          PROVE  /\ Contains(ready_queue', t) => rm[t] = saved'[t]
                 /\ state'[t] \in {"blocked", "sleeping"} => saved'[t] = "context"
      <3>1. CASE next = current_task
        BY <3>1, <1>2, <1>3, <1>5 DEF BeforeSwitch
      <3>2. CASE next # current_task
        <4>1. saved'[t] = IF t = current_task THEN "context" ELSE saved[t]
          BY <3>2, <1>2
        <4>2. QED BY <4>1, <1>3, <1>5 DEF BeforeSwitch
      <3>3. QED BY <3>1, <3>2
    <2>4. QED BY <1>2, <2>1, <2>2, <2>3 DEF ResumeInv, BeforeSwitch, OnReady
  <1>10. UserInv'
    BY <1>2, <1>3, <1>5 DEF UserInv, BeforeSwitch, AroundSwitch, OnReady
  <1>11. IdleInv'
    BY <1>5 DEF IdleInv, BeforeSwitch
  <1>12. RequestInv'
    BY DEF RequestInv, IInv, AroundSwitch
  <1>13. WakingInv'
    BY <1>1, <1>5 DEF WakingInv, BeforeSwitch, AroundSwitch, IInv, TypeOK
  <1>14. ModeKept'
    BY <1>1, <1>2 DEF ModeKept, BeforeSwitch, IInv, ResumeInv
  <1>15. NoOverdueSleeper'
    BY DEF NoOverdueSleeper, AroundSwitch
  <1>16. QED BY <1>7, <1>8, <1>9, <1>10, <1>11, <1>12, <1>13, <1>14, <1>15 DEF IInv

(* scheduler_yield, called by current_task after it has set its state to   *)
(* st[current_task] and pushed itself on the list of that state.           *)
LEMMA YieldPreserves ==
    ASSUME IInv, AroundSwitch, NEW st, YieldFrom(st),
           st \in [AllTasks -> task_state_t \cup {"none"}],
           \A t \in AllTasks : t # current_task => st[t] = state[t],
           current_task = Idle => st[Idle] = "idle",
           current_task \in Tasks =>
               /\ st[current_task] \in {"running", "blocked", "sleeping", "terminated"}
               /\ ~InUserMode(current_task),
           \A t \in Tasks : /\ Contains(blocked_queue', t) <=> st[t] = "blocked"
                            /\ Contains(sleep_queue', t) <=> st[t] = "sleeping"
    PROVE  IInv'
  <1> USE TasksAssumption DEF AllTasks
  <1>1. /\ current_task \in Tasks => state[current_task] \in {"running", "terminated"}
        /\ \A t \in Tasks : state[t] = "running" => t = current_task
        /\ \A t \in Tasks : Contains(ready_queue, t) <=> state[t] = "ready"
        /\ ready_queue \in QueueType /\ Distinct(ready_queue)
    BY DEF IInv, TaskPlacement, AroundSwitch, TypeOK, OnReady
  <1>2. /\ resume_mode \in [AllTasks -> task_resume_mode_t]
        /\ current_task \in AllTasks \cup {NULL}
        /\ waking \in [Wakers -> Tasks \cup {NULL}]
    BY DEF IInv, TypeOK
  <1>3. ~(current_task \in Tasks /\ Contains(ready_queue, current_task))
    BY <1>1
  <1>4. \A w \in Wakers : waking[w] # NULL => st[waking[w]] = "blocked"
    BY <1>1, <1>2 DEF IInv, WakingInv
  <1>5. /\ st[Idle] = "idle" /\ resume_mode[Idle] = "context"
        /\ \A t \in Tasks : state[t] # "idle"
    BY DEF IInv, IdleInv, ResumeInv
  <1>6. \A p \in Processes : user[p] = "started" =>
            /\ p # current_task /\ st[p] = "ready"
            /\ resume_mode[p] = "interrupt"
    BY <1>1 DEF IInv, UserInv, InUserMode, OnReady
  <1>7. \A t \in Tasks :
           /\ Contains(ready_queue, t) => resume_mode[t] = saved[t]
           /\ state[t] \in {"blocked", "sleeping"} => saved[t] = "context"
    BY DEF IInv, ResumeInv, OnReady
  <1>8. CASE current_task \in Tasks /\ st[current_task] = "running"
    <2> DEFINE rq  == task_queue_push(ready_queue, current_task)
               st1 == [st EXCEPT ![current_task] = "ready"]
               rm1 == [resume_mode EXCEPT ![current_task] = "context"]
    <2>1. ScheduleAndSwitch(rq, st1, rm1)
      BY <1>8 DEF YieldFrom, StillRunning, scheduler_reset_resume_state
    <2>2. /\ rq \in QueueType /\ Distinct(rq)
          /\ \A u : Contains(rq, u) <=> Contains(ready_queue, u) \/ u = current_task
      BY <1>1, <1>3, <1>8, PushFacts
    <2>3. /\ st1 \in [AllTasks -> task_state_t \cup {"none"}]
          /\ rm1 \in [AllTasks -> task_resume_mode_t]
          /\ st1[Idle] = "idle" /\ rm1[Idle] = "context"
      BY <1>2, <1>5, <1>8 DEF task_state_t, task_resume_mode_t
    <2>4. \A t \in Tasks :
             /\ st1[t] = IF t = current_task THEN "ready" ELSE state[t]
             /\ rm1[t] = IF t = current_task THEN "context" ELSE resume_mode[t]
      BY <1>2, <1>8
    <2> HIDE DEF rq, st1, rm1
    <2>5. \A w \in Wakers : waking[w] # NULL => st1[waking[w]] = "blocked"
      BY <1>1, <1>2, <2>4, <1>4, <1>8
    <2>6. \A p \in Processes : user[p] = "started" =>
              st1[p] = "ready" /\ rm1[p] = "interrupt" /\ p # current_task
      BY <1>6, <2>4, <1>2, <1>8
    <2>7. BeforeSwitch(rq, st1, rm1)
      BY <2>2, <2>3, <2>4, <2>5, <2>6, <1>1, <1>5, <1>7, <1>8 DEF BeforeSwitch
    <2>8. QED BY <2>1, <2>7, SwitchPreserves
  <1>9. CASE ~(current_task \in Tasks /\ st[current_task] = "running")
    <2>1. ScheduleAndSwitch(ready_queue, st, resume_mode)
      BY <1>9 DEF YieldFrom, StillRunning, scheduler_reset_resume_state
    <2>2. BeforeSwitch(ready_queue, st, resume_mode)
      BY <1>1, <1>2, <1>3, <1>4, <1>5, <1>6, <1>7, <1>9 DEF BeforeSwitch
    <2>3. QED BY <2>1, <2>2, SwitchPreserves
  <1>10. QED BY <1>8, <1>9

-----------------------------------------------------------------------------
(* The actions that switch cooperatively.                                  *)

(* scheduler_yield by a task, by idle_task, by kmain or at the end of      *)
(* task_exit keeps the invariant.                                          *)
LEMMA PlainYieldPreserves ==
    ASSUME IInv, pc = "run", YieldFrom(state), UNCHANGED unchangedByYield,
           UNCHANGED <<blocked_queue, sleep_queue>>,
           current_task \in Tasks => ~InUserMode(current_task)
    PROVE  IInv'
  <1>1. AroundSwitch
    BY DEF AroundSwitch, unchangedByYield, IInv, TypeOK, TaskPlacement
  <1>2. \A t \in Tasks : /\ Contains(blocked_queue', t) <=> state[t] = "blocked"
                         /\ Contains(sleep_queue', t) <=> state[t] = "sleeping"
    BY DEF IInv, TaskPlacement, OnBlocked, OnSleep
  <1>3. /\ state \in [AllTasks -> task_state_t \cup {"none"}]
        /\ state[Idle] = "idle"
        /\ current_task \in Tasks => state[current_task] \in {"running", "terminated"}
    BY DEF IInv, TypeOK, IdleInv, TaskPlacement
  <1>4. QED BY <1>1, <1>2, <1>3, YieldPreserves

(* scheduler_block_current keeps the invariant.                            *)
LEMMA BlockPreserves ==
    ASSUME IInv, NEW t \in Tasks, scheduler_block_current(t)
    PROVE  IInv'
  <1> USE TasksAssumption DEF AllTasks
  <1> DEFINE st == [state EXCEPT ![t] = "blocked"]
  <1>0. /\ Kernel(t) /\ YieldFrom(st)
        /\ blocked_queue' = task_queue_push(blocked_queue, t) /\ sleep_queue' = sleep_queue
    BY Zenon DEF scheduler_block_current, unchangedByYield
  <1>a. /\ current_task = t /\ pc = "run" /\ state[t] = "running"
    BY <1>0 DEF Kernel
  <1>b. current_task \in Tasks => ~InUserMode(current_task)
    BY <1>0, <1>a DEF Kernel
  <1>1. /\ state \in [AllTasks -> task_state_t \cup {"none"}]
        /\ blocked_queue \in QueueType /\ Distinct(blocked_queue)
        /\ \A u \in Tasks : /\ Contains(blocked_queue, u) <=> state[u] = "blocked"
                            /\ Contains(sleep_queue, u) <=> state[u] = "sleeping"
    BY DEF IInv, TypeOK, TaskPlacement, OnBlocked, OnSleep
  <1>2. /\ blocked_queue' \in QueueType /\ Distinct(blocked_queue')
        /\ \A u : Contains(blocked_queue', u) <=> Contains(blocked_queue, u) \/ u = t
    <2>1. ~Contains(blocked_queue, t)
      BY <1>a, <1>1
    <2>2. QED BY <1>0, <1>1, <2>1, PushFacts, Zenon
  <1>3. AroundSwitch
    BY <1>a, <1>1, <1>2 DEF AroundSwitch, scheduler_block_current, unchangedByYield,
                      IInv, TypeOK, TaskPlacement
  <1>4. /\ st \in [AllTasks -> task_state_t \cup {"none"}]
        /\ st[t] = "blocked"
        /\ \A u \in AllTasks : u # t => st[u] = state[u]
    BY <1>1 DEF task_state_t
  <1> HIDE DEF st
  <1>5. \A u \in Tasks : /\ Contains(blocked_queue', u) <=> st[u] = "blocked"
                         /\ Contains(sleep_queue', u) <=> st[u] = "sleeping"
    BY <1>0, <1>a, <1>1, <1>2, <1>4
  <1>6. QED BY <1>0, <1>a, <1>b, <1>3, <1>4, <1>5, YieldPreserves

(* scheduler_sleep keeps the invariant.                                    *)
LEMMA SleepPreserves ==
    ASSUME IInv, NEW t \in Tasks, NEW ticks \in SleepTicks,
           scheduler_sleep(t, ticks)
    PROVE  IInv'
  <1> USE TasksAssumption, NumbersAssumption DEF AllTasks
  <1> DEFINE st == [state EXCEPT ![t] = "sleeping"]
  <1>0. /\ Kernel(t) /\ YieldFrom(st)
        /\ sleep_queue' = task_queue_push(sleep_queue, t) /\ blocked_queue' = blocked_queue
    BY Zenon DEF scheduler_sleep, unchangedByYield
  <1>a. /\ current_task = t /\ pc = "run" /\ state[t] = "running"
    BY <1>0 DEF Kernel
  <1>b. current_task \in Tasks => ~InUserMode(current_task)
    BY <1>0, <1>a DEF Kernel
  <1>1. /\ state \in [AllTasks -> task_state_t \cup {"none"}]
        /\ sleep_queue \in QueueType /\ Distinct(sleep_queue)
        /\ \A u \in Tasks : /\ Contains(blocked_queue, u) <=> state[u] = "blocked"
                            /\ Contains(sleep_queue, u) <=> state[u] = "sleeping"
    BY DEF IInv, TypeOK, TaskPlacement, OnBlocked, OnSleep
  <1>2. /\ sleep_queue' \in QueueType /\ Distinct(sleep_queue')
        /\ \A u : Contains(sleep_queue', u) <=> Contains(sleep_queue, u) \/ u = t
    <2>1. ~Contains(sleep_queue, t)
      BY <1>a, <1>1
    <2>2. QED BY <1>0, <1>1, <2>1, PushFacts, Zenon
  <1>3. AroundSwitch
    BY <1>a, <1>1, <1>2 DEF AroundSwitch, scheduler_sleep, IInv, TypeOK, TaskPlacement
  <1>4. /\ st \in [AllTasks -> task_state_t \cup {"none"}]
        /\ st[t] = "sleeping"
        /\ \A u \in AllTasks : u # t => st[u] = state[u]
    BY <1>1 DEF task_state_t
  <1> HIDE DEF st
  <1>5. \A u \in Tasks : /\ Contains(blocked_queue', u) <=> st[u] = "blocked"
                         /\ Contains(sleep_queue', u) <=> st[u] = "sleeping"
    BY <1>0, <1>a, <1>1, <1>2, <1>4
  <1>6. QED BY <1>0, <1>a, <1>b, <1>3, <1>4, <1>5, YieldPreserves

-----------------------------------------------------------------------------
(* The actions that make a task ready.                                     *)

(* task_create and scheduler_add_task keep the invariant.                  *)
LEMMA SpawnPreserves ==
    ASSUME IInv, NEW t \in Tasks, spawn(t)
    PROVE  IInv'
  <1> USE TasksAssumption DEF AllTasks, IInv
  <1>1. /\ pc = "run" /\ state[t] = "none"
        /\ state' = [state EXCEPT ![t] = "ready"]
        /\ ready_queue' = task_queue_push(ready_queue, t)
        /\ wake_left' = [wake_left EXCEPT ![t] = 0]
        /\ resume_mode' = [resume_mode EXCEPT ![t] = "context"]
        /\ saved' = [saved EXCEPT ![t] = "context"]
        /\ UNCHANGED <<blocked_queue, sleep_queue, current_task, pending_task,
                       preemption_ticks, preemption_requested, user, waking,
                       cr3, rsp0, pc, cursor, stale>>
    BY DEF spawn, task_create, scheduler_add_task, KernelCode
  <1>2. /\ ready_queue' \in QueueType /\ Distinct(ready_queue')
        /\ \A u : Contains(ready_queue', u) <=> Contains(ready_queue, u) \/ u = t
    <2>1. ~Contains(ready_queue, t)
      BY <1>1 DEF TaskPlacement, OnReady
    <2>2. QED BY <1>1, <2>1, PushFacts DEF TypeOK, TaskPlacement
  <1>3. TypeOK'
    BY <1>1, <1>2 DEF TypeOK, task_state_t, task_resume_mode_t
  <1>4. t # current_task /\ t # pending_task
    BY <1>1 DEF TaskPlacement
  <1>5. TaskPlacement'
    BY <1>1, <1>2, <1>4 DEF TypeOK, TaskPlacement, OnReady, OnBlocked, OnSleep
  <1>6. ResumeInv'
    BY <1>1, <1>2 DEF TypeOK, ResumeInv, OnReady
  <1>7. UserInv' /\ IdleInv'
    BY <1>1, <1>2 DEF TypeOK, UserInv, IdleInv, OnReady
  <1>8. RequestInv' /\ WakingInv' /\ ModeKept' /\ NoOverdueSleeper'
    BY <1>1 DEF TypeOK, RequestInv, WakingInv, ModeKept, NoOverdueSleeper
  <1>9. QED BY <1>3, <1>5, <1>6, <1>7, <1>8

(* The part of scheduler_unblock with interrupts off keeps the invariant,  *)
(* whatever happened since its test of the state.                          *)
LEMMA UnblockPreserves ==
    ASSUME IInv, NEW w \in Wakers, scheduler_unblock(w)
    PROVE  IInv'
  <1> USE TasksAssumption DEF AllTasks, IInv
  <1> DEFINE t == waking[w]
  <1>1. /\ pc = "run" /\ t # NULL
        /\ blocked_queue' = task_queue_remove(blocked_queue, t)
        /\ state' = [state EXCEPT ![t] = "ready"]
        /\ resume_mode' = [resume_mode EXCEPT ![t] = "context"]
        /\ ready_queue' = task_queue_push(ready_queue, t)
        /\ waking' = [waking EXCEPT ![w] = NULL]
        /\ UNCHANGED <<sleep_queue, current_task, pending_task, wake_left,
                       preemption_ticks, preemption_requested, user, cr3, rsp0,
                       pc, cursor, saved, stale>>
    BY DEF scheduler_unblock, MidUnblock, scheduler_reset_resume_state
  <1>2. t \in Tasks /\ state[t] = "blocked"
    BY <1>1 DEF TypeOK, WakingInv
  <1> HIDE DEF t
  <1>3. /\ ready_queue' \in QueueType /\ Distinct(ready_queue')
        /\ \A u : Contains(ready_queue', u) <=> Contains(ready_queue, u) \/ u = t
    <2>1. ~Contains(ready_queue, t)
      BY <1>2 DEF TaskPlacement, OnReady
    <2>2. QED BY <1>1, <1>2, <2>1, PushFacts DEF TypeOK, TaskPlacement
  <1>4. /\ blocked_queue' \in QueueType /\ Distinct(blocked_queue')
        /\ \A u : Contains(blocked_queue', u) <=> Contains(blocked_queue, u) /\ u # t
    BY <1>1, RemoveFacts DEF TypeOK, TaskPlacement
  <1>5. t # current_task /\ t # pending_task
    BY <1>1, <1>2 DEF TaskPlacement
  <1>6. TypeOK'
    BY <1>1, <1>3, <1>4 DEF TypeOK, task_state_t, task_resume_mode_t
  <1>7. TaskPlacement'
    BY <1>1, <1>2, <1>3, <1>4, <1>5
       DEF TypeOK, TaskPlacement, OnReady, OnBlocked, OnSleep
  <1>8. ResumeInv'
    BY <1>1, <1>2, <1>3 DEF TypeOK, ResumeInv, OnReady
  <1>9. UserInv' /\ IdleInv'
    BY <1>1, <1>2, <1>3 DEF TypeOK, UserInv, IdleInv, OnReady
  <1>10. RequestInv' /\ ModeKept' /\ NoOverdueSleeper'
    BY <1>1 DEF RequestInv, ModeKept, NoOverdueSleeper
  <1>11. WakingInv'
    BY <1>1, OneWaker DEF TypeOK, WakingInv
  <1>12. QED BY <1>6, <1>7, <1>8, <1>9, <1>10, <1>11

(* Each step of the walk over the sleep queue keeps the invariant, in      *)
(* particular when it removes the task it stands on.                       *)
LEMMA CheckSleepingPreserves ==
    ASSUME IInv, scheduler_check_sleeping_tasks
    PROVE  IInv'
  <1> USE TasksAssumption DEF AllTasks, IInv
  <1> DEFINE t == sleep_queue[cursor]
  <1>1. /\ pc = "scan" /\ cursor \in 1..Len(sleep_queue)
        /\ UNCHANGED <<blocked_queue, current_task, pending_task, wake_left,
                       preemption_ticks, preemption_requested, user, waking,
                       cr3, rsp0, pc, saved, stale>>
    BY DEF scheduler_check_sleeping_tasks, TypeOK, QueueType
  <1>2. t \in Tasks /\ Contains(sleep_queue, t)
    BY <1>1 DEF TypeOK, QueueType, Contains
  <1>3. state[t] = "sleeping"
    BY <1>2 DEF TaskPlacement, OnSleep
  <1>4. CASE wake_left[t] = 0
    <2>1. /\ sleep_queue' = RemoveIndex(sleep_queue, cursor)
          /\ state' = [state EXCEPT ![t] = "ready"]
          /\ resume_mode' = [resume_mode EXCEPT ![t] = "context"]
          /\ ready_queue' = task_queue_push(ready_queue, t)
          /\ cursor' = cursor
      BY <1>4 DEF scheduler_check_sleeping_tasks, Due, scheduler_reset_resume_state
    <2>2. /\ sleep_queue' \in QueueType /\ Distinct(sleep_queue')
          /\ \A u : Contains(sleep_queue', u) <=> Contains(sleep_queue, u) /\ u # t
      BY <1>1, <2>1, RemoveIndexFacts DEF TypeOK, TaskPlacement
    <2>3. NoOverdueSleeper'
      <3>1. \A i \in 1..Len(sleep_queue') :
               i < cursor => i \in 1..Len(sleep_queue) /\ sleep_queue'[i] = sleep_queue[i]
        BY <1>1, <2>1 DEF RemoveIndex, TypeOK, QueueType
      <3>2. QED BY <1>1, <2>1, <3>1 DEF NoOverdueSleeper
    <2> HIDE DEF t
    <2>4. /\ ready_queue' \in QueueType /\ Distinct(ready_queue')
          /\ \A u : Contains(ready_queue', u) <=> Contains(ready_queue, u) \/ u = t
      <3>1. ~Contains(ready_queue, t)
        BY <1>2, <1>3 DEF TaskPlacement, OnReady
      <3>2. QED BY <1>2, <2>1, <3>1, PushFacts DEF TypeOK, TaskPlacement
    <2>5. t # current_task /\ t # pending_task
      BY <1>1, <1>2, <1>3 DEF TaskPlacement
    <2>6. TypeOK'
      BY <1>1, <2>1, <2>2, <2>4 DEF TypeOK, task_state_t, task_resume_mode_t
    <2>7. TaskPlacement'
      BY <1>1, <1>2, <1>3, <2>1, <2>2, <2>4, <2>5
         DEF TypeOK, TaskPlacement, OnReady, OnBlocked, OnSleep
    <2>8. ResumeInv'
      BY <1>1, <1>2, <1>3, <2>1, <2>4 DEF TypeOK, ResumeInv, OnReady
    <2>9. UserInv' /\ IdleInv'
      BY <1>1, <1>2, <1>3, <2>1, <2>4 DEF TypeOK, UserInv, IdleInv, OnReady
    <2>10. RequestInv' /\ ModeKept'
      BY <1>1 DEF RequestInv, ModeKept
    <2>11. WakingInv'
      BY <1>1, <1>2, <1>3, <2>1 DEF TypeOK, WakingInv
    <2>12. QED BY <2>3, <2>6, <2>7, <2>8, <2>9, <2>10, <2>11
  <1>5. CASE wake_left[t] # 0
    <2>1. /\ cursor' = cursor + 1
          /\ UNCHANGED <<sleep_queue, state, resume_mode, ready_queue>>
      BY <1>5 DEF scheduler_check_sleeping_tasks, Due
    <2>2. NoOverdueSleeper'
      BY <1>1, <1>2, <1>5, <2>1 DEF NoOverdueSleeper, TypeOK, QueueType
    <2> HIDE DEF t
    <2>3. TypeOK'
      BY <1>1, <2>1 DEF TypeOK
    <2>4. TaskPlacement' /\ ResumeInv'
      BY <1>1, <2>1 DEF TaskPlacement, ResumeInv, OnReady, OnBlocked, OnSleep
    <2>5. UserInv' /\ IdleInv' /\ RequestInv' /\ WakingInv' /\ ModeKept'
      BY <1>1, <2>1 DEF UserInv, IdleInv, RequestInv, WakingInv, ModeKept, OnReady
    <2>6. QED BY <2>2, <2>3, <2>4, <2>5
  <1>6. QED BY <1>4, <1>5

-----------------------------------------------------------------------------
(* The rest of the interrupt path.                                         *)

(* The timer handler, any other interrupt, and scheduler_preempt keep the  *)
(* invariant.                                                              *)
LEMMA InterruptEntryPreserves ==
    ASSUME IInv, pit_irq_handler \/ other_irq \/ scheduler_preempt
    PROVE  IInv'
  <1> USE TasksAssumption, NumbersAssumption DEF AllTasks, IInv
  <1>1. /\ UNCHANGED <<ready_queue, blocked_queue, sleep_queue, current_task,
                       pending_task, state, resume_mode, user, waking, cr3,
                       rsp0, saved, stale>>
        /\ pc \in {"run", "scan"} /\ pc' \in {"scan", "save"}
    BY DEF pit_irq_handler, other_irq, scheduler_preempt
  <1>2. /\ wake_left' \in [Tasks -> Nat] /\ cursor' \in Nat \ {0}
        /\ preemption_ticks' \in Nat /\ preemption_ticks' < SCHEDULER_TIME_SLICE
    <2>1. /\ wake_left \in [Tasks -> Nat] /\ cursor \in Nat \ {0}
          /\ preemption_ticks \in Nat /\ preemption_ticks < SCHEDULER_TIME_SLICE
      BY DEF TypeOK
    <2>2. CASE pit_irq_handler
      BY <2>1, <2>2 DEF pit_irq_handler, Nearer
    <2>3. CASE other_irq
      BY <2>1, <2>3 DEF other_irq
    <2>4. CASE scheduler_preempt
      <3>1. /\ wake_left' = wake_left /\ cursor' = 1
            /\ \/ preemption_ticks' = preemption_ticks
               \/ preemption_ticks' = 0
               \/ /\ ~Expired(preemption_ticks)
                  /\ preemption_ticks' = preemption_ticks + 1
        BY <2>4, Zenon DEF scheduler_preempt
      <3>2. QED BY <2>1, <3>1 DEF Expired
    <2>5. QED BY <2>2, <2>3, <2>4
  <1>3. preemption_requested' \in BOOLEAN
    <2>1. preemption_requested \in BOOLEAN
      BY DEF TypeOK
    <2>2. QED BY <2>1, Zenon DEF pit_irq_handler, other_irq, scheduler_preempt
  <1>4. TypeOK'
    BY <1>1, <1>2, <1>3 DEF TypeOK
  <1>5. TaskPlacement' /\ ResumeInv'
    BY <1>1 DEF TaskPlacement, ResumeInv, OnReady, OnBlocked, OnSleep
  <1>6. UserInv' /\ IdleInv' /\ WakingInv' /\ ModeKept'
    BY <1>1 DEF UserInv, IdleInv, WakingInv, ModeKept, OnReady
  <1>7. RequestInv'
    <2>1. preemption_requested = FALSE
      BY <1>1 DEF RequestInv, TypeOK
    <2>2. CASE scheduler_preempt
      <3>1. pc' = "save" /\ current_task \in AllTasks \cup {NULL}
        BY <2>2 DEF scheduler_preempt, TypeOK
      <3>2. preemption_requested' => current_task \notin {NULL, Idle} /\ ready_queue # <<>>
        BY <2>1, <2>2, Zenon DEF scheduler_preempt
      <3>3. QED BY <1>1, <3>1, <3>2 DEF RequestInv
    <2>3. CASE pit_irq_handler \/ other_irq
      BY <2>1, <2>3 DEF pit_irq_handler, other_irq, RequestInv
    <2>4. QED BY <2>2, <2>3
  <1>8. NoOverdueSleeper'
    BY <1>1 DEF NoOverdueSleeper, pit_irq_handler, other_irq, scheduler_preempt
  <1>9. QED BY <1>4, <1>5, <1>6, <1>7, <1>8

(* scheduler_save_interrupt_context keeps the invariant.                   *)
LEMMA SaveContextPreserves ==
    ASSUME IInv, scheduler_save_interrupt_context
    PROVE  IInv'
  <1> USE TasksAssumption DEF AllTasks, IInv
  <1>1. /\ pc = "save" /\ pc' = "pick"
        /\ UNCHANGED <<ready_queue, blocked_queue, sleep_queue, current_task,
                       pending_task, state, wake_left, preemption_ticks,
                       preemption_requested, user, waking, cr3, rsp0, cursor,
                       saved, stale>>
        /\ resume_mode' \in [AllTasks -> task_resume_mode_t]
        /\ \A t \in AllTasks :
             resume_mode'[t] = IF t = current_task /\ t # Idle
                               THEN "interrupt" ELSE resume_mode[t]
    BY DEF scheduler_save_interrupt_context, KeepsFrame, TypeOK, task_resume_mode_t
  <1>2. current_task \in Tasks => state[current_task] \in {"running", "terminated"}
    BY <1>1 DEF TaskPlacement
  <1>3. TypeOK'
    BY <1>1 DEF TypeOK
  <1>4. TaskPlacement'
    BY <1>1 DEF TaskPlacement, OnReady, OnBlocked, OnSleep
  <1>5. ResumeInv'
    BY <1>1, <1>2 DEF ResumeInv, TaskPlacement, OnReady
  <1>6. UserInv' /\ IdleInv' /\ WakingInv' /\ ModeKept'
    BY <1>1 DEF UserInv, IdleInv, WakingInv, ModeKept, OnReady
  <1>7. RequestInv' /\ NoOverdueSleeper'
    BY <1>1 DEF RequestInv, NoOverdueSleeper
  <1>8. QED BY <1>3, <1>4, <1>5, <1>6, <1>7

(* An interrupt that returns to the task it hit keeps the invariant.       *)
LEMMA NoSwitchPreserves ==
    ASSUME IInv, no_switch
    PROVE  IInv'
  <1> USE DEF IInv
  <1>1. /\ pc = "pick" /\ pc' = "run" /\ preemption_requested' = FALSE
        /\ UNCHANGED <<ready_queue, blocked_queue, sleep_queue, current_task,
                       pending_task, state, resume_mode, wake_left,
                       preemption_ticks, user, waking, cr3, rsp0, cursor,
                       saved, stale>>
    BY DEF no_switch
  <1>2. TypeOK'
    BY <1>1 DEF TypeOK
  <1>3. TaskPlacement' /\ ResumeInv'
    BY <1>1 DEF TaskPlacement, ResumeInv, OnReady, OnBlocked, OnSleep
  <1>4. UserInv' /\ IdleInv' /\ WakingInv' /\ ModeKept'
    BY <1>1 DEF UserInv, IdleInv, WakingInv, ModeKept, OnReady
  <1>5. RequestInv' /\ NoOverdueSleeper'
    BY <1>1 DEF RequestInv, NoOverdueSleeper
  <1>6. QED BY <1>2, <1>3, <1>4, <1>5

(* scheduler_commit_pending_task keeps the invariant.                      *)
LEMMA CommitPreserves ==
    ASSUME IInv, scheduler_commit_pending_task
    PROVE  IInv'
  <1> USE TasksAssumption, NumbersAssumption DEF AllTasks, IInv
  <1>1. /\ pc = "commit" /\ pc' = "run" /\ current_task' = pending_task
        /\ pending_task \in Tasks /\ pending_task' = NULL
        /\ preemption_ticks' = 0
        /\ state' = [state EXCEPT ![pending_task] = "running"]
        /\ UNCHANGED <<ready_queue, blocked_queue, sleep_queue, resume_mode,
                       wake_left, preemption_requested, user, waking, cr3,
                       rsp0, cursor, saved, stale>>
    BY DEF scheduler_commit_pending_task, TypeOK
  <1>2. /\ state[pending_task] = "ready"
        /\ \A t \in Tasks : state[t] # "running"
    BY <1>1 DEF TaskPlacement
  <1>3. TypeOK'
    BY <1>1 DEF TypeOK, task_state_t
  <1>4. TaskPlacement'
    BY <1>1, <1>2 DEF TypeOK, TaskPlacement, OnReady, OnBlocked, OnSleep
  <1>5. ResumeInv'
    BY <1>1, <1>2 DEF TypeOK, ResumeInv, OnReady
  <1>6. UserInv' /\ IdleInv'
    BY <1>1, <1>2 DEF TypeOK, UserInv, IdleInv, OnReady
  <1>7. WakingInv'
    BY <1>1, <1>2 DEF TypeOK, WakingInv
  <1>8. RequestInv' /\ NoOverdueSleeper' /\ ModeKept'
    BY <1>1 DEF RequestInv, NoOverdueSleeper, ModeKept
  <1>9. QED BY <1>3, <1>4, <1>5, <1>6, <1>7, <1>8

(* scheduler_get_next_interrupt_rsp keeps the invariant when it switches:  *)
(* it requeues the preempted task and resumes the head of the queue.       *)
LEMMA GetNextPreserves ==
    ASSUME IInv, scheduler_get_next_interrupt_rsp
    PROVE  IInv'
  <1> USE TasksAssumption DEF AllTasks, IInv
  <1> DEFINE next  == NextTask(ready_queue)
             frame == FrameFor(next)
             requeue == current_task \in Tasks /\ state[current_task] = "running"
  <1>1. /\ pc = "pick" /\ pc' = "commit" /\ preemption_requested
        /\ next # Idle /\ pending_task' = next /\ preemption_requested' = FALSE
        /\ user' = IF frame = "user" THEN [user EXCEPT ![next] = "started"]
                                     ELSE user
        /\ ready_queue' = IF requeue
                          THEN task_queue_push(Tail(ready_queue), current_task)
                          ELSE Tail(ready_queue)
        /\ state' = IF requeue THEN [state EXCEPT ![current_task] = "ready"]
                               ELSE state
        /\ saved' = [t \in AllTasks |->
                        IF t = current_task THEN "interrupt" ELSE saved[t]]
        /\ stale' = (stale \/ (frame # "user" /\ frame # saved[next]))
        /\ waking' = [w \in Wakers |-> IF frame = "user" /\ w = next
                                       THEN NULL ELSE waking[w]]
        /\ frame # NULL
        /\ UNCHANGED <<blocked_queue, sleep_queue, current_task, resume_mode,
                       wake_left, preemption_ticks, cr3, rsp0, cursor>>
    BY DEF scheduler_get_next_interrupt_rsp, StillRunning
  <1>2. /\ current_task \in Tasks
        /\ ready_queue # <<>> /\ next = Head(ready_queue)
        /\ pending_task = NULL
    BY <1>1 DEF RequestInv, NextTask, TaskPlacement
  <1>3. /\ next \in Tasks /\ Contains(ready_queue, next)
        /\ Tail(ready_queue) \in QueueType /\ Distinct(Tail(ready_queue))
        /\ \A u : Contains(Tail(ready_queue), u)
                  <=> Contains(ready_queue, u) /\ u # next
    BY <1>2, PopFacts DEF TypeOK, TaskPlacement
  <1>4. frame = "user" => next \in Processes /\ user[next] = "exec"
    BY <1>3, TasksAssumption DEF FrameFor, BuiltFrame, InUserMode, TypeOK, task_resume_mode_t
  <1>5. frame # "user" => frame = resume_mode[next]
    BY <1>1, <1>3 DEF FrameFor, BuiltFrame, InUserMode, TypeOK, AllTasks, task_resume_mode_t
  <1> HIDE DEF next, frame
  <1>6. /\ state[next] = "ready" /\ next # current_task
        /\ ~Contains(ready_queue, current_task)
        /\ \A t \in Tasks : state[t] = "running" => t = current_task
    BY <1>1, <1>2, <1>3 DEF TaskPlacement, OnReady
  <1>7. /\ ready_queue' \in QueueType /\ Distinct(ready_queue')
        /\ \A u : Contains(ready_queue', u) <=>
                     \/ Contains(ready_queue, u) /\ u # next
                     \/ requeue /\ u = current_task
    <2>1. CASE requeue
      BY <1>1, <1>2, <1>3, <1>6, <2>1, PushFacts
    <2>2. CASE ~requeue
      BY <1>1, <1>3, <2>2
    <2>3. QED BY <2>1, <2>2
  <1>8. /\ state' \in [AllTasks -> task_state_t \cup {"none"}]
        /\ \A t \in AllTasks : state'[t] =
             IF requeue /\ t = current_task THEN "ready" ELSE state[t]
    BY <1>1, <1>2 DEF TypeOK, task_state_t
  <1>9. user' \in [Processes -> {"kernel", "exec", "started"}]
    BY <1>1, <1>4 DEF TypeOK
  <1>10. waking' \in [Wakers -> Tasks \cup {NULL}]
    BY <1>1 DEF TypeOK
  <1>11. stale' = FALSE
    <2>1. stale = FALSE
      BY DEF ModeKept, TypeOK
    <2>2. resume_mode[next] = saved[next]
      BY <1>3 DEF ResumeInv, OnReady
    <2>3. QED BY <1>1, <1>5, <2>1, <2>2, Zenon
  <1>12. saved' \in [AllTasks -> task_resume_mode_t]
    BY <1>1 DEF TypeOK, task_resume_mode_t
  <1>13. TypeOK'
    BY <1>1, <1>3, <1>7, <1>8, <1>9, <1>10, <1>11, <1>12 DEF TypeOK
  <1>14. TaskPlacement'
    BY <1>1, <1>2, <1>3, <1>6, <1>7, <1>8
       DEF TypeOK, TaskPlacement, OnReady, OnBlocked, OnSleep
  <1>15. ResumeInv'
    <2>1. resume_mode[current_task] = "interrupt"
      BY <1>1, <1>2 DEF ResumeInv
    <2>2. QED BY <1>1, <1>2, <1>6, <1>7, <1>8, <2>1
              DEF ResumeInv, OnReady, TaskPlacement
  <1>16. UserInv'
    <2>1. ASSUME NEW p \in Processes, user'[p] = "started"
          PROVE  /\ state'[p] \in {"ready", "running"}
                 /\ Contains(ready_queue', p) => resume_mode'[p] = "interrupt"
      <3>1. CASE p = next
        BY <3>1, <1>6, <1>7, <1>8
      <3>2. CASE p # next
        <4>1. user[p] = "started"
          BY <2>1, <3>2, <1>1 DEF TypeOK
        <4>2. QED BY <4>1, <3>2, <1>1, <1>2, <1>7, <1>8 DEF UserInv, OnReady, ResumeInv
      <3>3. QED BY <3>1, <3>2
    <2>2. QED BY <2>1 DEF UserInv, OnReady
  <1>17. IdleInv'
    BY <1>8 DEF IdleInv
  <1>18. WakingInv'
    BY <1>1, <1>8 DEF TypeOK, WakingInv
  <1>19. RequestInv' /\ NoOverdueSleeper' /\ ModeKept'
    BY <1>1, <1>11 DEF RequestInv, NoOverdueSleeper, ModeKept
  <1>20. QED BY <1>13, <1>14, <1>15, <1>16, <1>17, <1>18, <1>19

-----------------------------------------------------------------------------
(* The remaining actions of tasks.                                         *)

(* process_exec keeps the invariant.                                       *)
LEMMA ProcessExecPreserves ==
    ASSUME IInv, NEW t \in Tasks, process_exec(t)
    PROVE  IInv'
  <1> USE DEF IInv
  <1>1. /\ t \in Processes /\ user' = [user EXCEPT ![t] = "exec"]
        /\ UNCHANGED <<ready_queue, blocked_queue, sleep_queue, current_task,
                       pending_task, state, resume_mode, wake_left,
                       preemption_ticks, preemption_requested, waking, cr3,
                       rsp0, pc, cursor, saved, stale>>
    BY DEF process_exec
  <1>2. TypeOK' /\ UserInv'
    BY <1>1 DEF TypeOK, UserInv, OnReady
  <1>3. TaskPlacement' /\ ResumeInv'
    BY <1>1 DEF TaskPlacement, ResumeInv, OnReady, OnBlocked, OnSleep
  <1>4. IdleInv' /\ RequestInv' /\ WakingInv' /\ ModeKept' /\ NoOverdueSleeper'
    BY <1>1 DEF IdleInv, RequestInv, WakingInv, ModeKept, NoOverdueSleeper
  <1>5. QED BY <1>2, <1>3, <1>4

(* The test at the head of scheduler_unblock keeps the invariant.          *)
LEMMA UnblockCheckPreserves ==
    ASSUME IInv, NEW w \in Wakers, NEW t \in Tasks, scheduler_unblock_check(w, t)
    PROVE  IInv'
  <1> USE DEF IInv
  <1>1. /\ state[t] = "blocked" /\ waking' = [waking EXCEPT ![w] = t]
        /\ UNCHANGED <<ready_queue, blocked_queue, sleep_queue, current_task,
                       pending_task, state, resume_mode, wake_left,
                       preemption_ticks, preemption_requested, user, cr3,
                       rsp0, pc, cursor, saved, stale>>
    BY DEF scheduler_unblock_check, Wakeable
  <1>2. TypeOK' /\ WakingInv'
    BY <1>1 DEF TypeOK, WakingInv
  <1>3. TaskPlacement' /\ ResumeInv'
    BY <1>1 DEF TaskPlacement, ResumeInv, OnReady, OnBlocked, OnSleep
  <1>4. UserInv' /\ IdleInv' /\ RequestInv' /\ ModeKept' /\ NoOverdueSleeper'
    BY <1>1 DEF UserInv, IdleInv, RequestInv, ModeKept, NoOverdueSleeper, OnReady
  <1>5. QED BY <1>2, <1>3, <1>4

(* task_exit's assignment of TERMINATED keeps the invariant.               *)
LEMMA TaskExitPreserves ==
    ASSUME IInv, NEW t \in Tasks, task_exit(t)
    PROVE  IInv'
  <1> USE TasksAssumption DEF AllTasks, IInv
  <1>1. /\ pc = "run" /\ current_task = t /\ state[t] = "running"
        /\ state' = [state EXCEPT ![t] = "terminated"]
        /\ UNCHANGED <<ready_queue, blocked_queue, sleep_queue, current_task,
                       pending_task, resume_mode, wake_left, preemption_ticks,
                       preemption_requested, user, waking, cr3, rsp0, pc,
                       cursor, saved, stale>>
    BY DEF task_exit, Kernel
  <1>2. t \in Processes => user[t] # "started"
    BY DEF task_exit, Kernel, InUserMode
  <1>3. TypeOK'
    BY <1>1 DEF TypeOK, task_state_t
  <1>4. TaskPlacement'
    BY <1>1 DEF TypeOK, TaskPlacement, OnReady, OnBlocked, OnSleep
  <1>5. ResumeInv'
    BY <1>1 DEF TypeOK, ResumeInv, OnReady
  <1>6. UserInv' /\ IdleInv'
    BY <1>1, <1>2 DEF TypeOK, UserInv, IdleInv, OnReady
  <1>7. WakingInv'
    BY <1>1 DEF TypeOK, WakingInv
  <1>8. RequestInv' /\ NoOverdueSleeper' /\ ModeKept'
    BY <1>1 DEF RequestInv, NoOverdueSleeper, ModeKept
  <1>9. QED BY <1>3, <1>4, <1>5, <1>6, <1>7, <1>8

-----------------------------------------------------------------------------
(* The invariant.                                                          *)

(* The state scheduler_init leaves satisfies the invariant.                *)
LEMMA InitEstablishes == Init => IInv
  <1> SUFFICES ASSUME Init PROVE IInv
    OBVIOUS
  <1> USE TasksAssumption, NumbersAssumption DEF AllTasks, Init
  <1>1. TypeOK
    <2>1. state \in [AllTasks -> task_state_t \cup {"none"}]
      BY DEF task_state_t
    <2>2. /\ resume_mode \in [AllTasks -> task_resume_mode_t]
          /\ saved \in [AllTasks -> task_resume_mode_t]
      BY DEF task_resume_mode_t
    <2>3. /\ wake_left \in [Tasks -> Nat]
          /\ user \in [Processes -> {"kernel", "exec", "started"}]
          /\ waking \in [Wakers -> Tasks \cup {NULL}]
      OBVIOUS
    <2>4. /\ ready_queue \in QueueType /\ blocked_queue \in QueueType
          /\ sleep_queue \in QueueType
      BY DEF QueueType
    <2>5. /\ preemption_ticks \in Nat /\ preemption_ticks < SCHEDULER_TIME_SLICE
          /\ cursor \in Nat \ {0}
      OBVIOUS
    <2>6. preemption_requested \in BOOLEAN /\ stale \in BOOLEAN
      OBVIOUS
    <2>7. QED BY <2>1, <2>2, <2>3, <2>4, <2>5, <2>6 DEF TypeOK
  <1>2. TaskPlacement
    BY DEF TaskPlacement, Distinct, Contains, OnReady, OnBlocked, OnSleep
  <1>3. ResumeInv /\ UserInv /\ IdleInv
    BY DEF ResumeInv, UserInv, IdleInv, OnReady, Contains
  <1>4. RequestInv /\ WakingInv /\ ModeKept /\ NoOverdueSleeper
    BY DEF RequestInv, WakingInv, ModeKept, NoOverdueSleeper
  <1>5. QED BY <1>1, <1>2, <1>3, <1>4 DEF IInv

(* Every action of the scheduler keeps the invariant.                      *)
LEMMA NextPreserves == IInv /\ [Next]_vars => IInv'
  <1> SUFFICES ASSUME IInv, [Next]_vars PROVE IInv'
    OBVIOUS
  <1>1. CASE pit_irq_handler \/ other_irq \/ scheduler_preempt
    BY <1>1, InterruptEntryPreserves
  <1>2. CASE scheduler_check_sleeping_tasks
    BY <1>2, CheckSleepingPreserves
  <1>3. CASE scheduler_save_interrupt_context
    BY <1>3, SaveContextPreserves
  <1>4. CASE no_switch
    BY <1>4, NoSwitchPreserves
  <1>5. CASE scheduler_get_next_interrupt_rsp
    BY <1>5, GetNextPreserves
  <1>6. CASE scheduler_commit_pending_task
    BY <1>6, CommitPreserves
  <1>7. CASE boot_yield
    BY <1>7, PlainYieldPreserves, TasksAssumption DEF boot_yield, AllTasks
  <1>8. CASE idle_yield
    BY <1>8, PlainYieldPreserves, TasksAssumption DEF idle_yield, AllTasks
  <1>9. ASSUME NEW t \in Tasks, scheduler_yield(t) PROVE IInv'
    BY <1>9, PlainYieldPreserves DEF scheduler_yield, Kernel
  <1>10. ASSUME NEW t \in Tasks, task_exit_yield(t) PROVE IInv'
    <2>1. ~InUserMode(t)
      BY <1>10 DEF task_exit_yield, InUserMode, IInv, UserInv
    <2>2. QED BY <1>10, <2>1, PlainYieldPreserves DEF task_exit_yield
  <1>11. ASSUME NEW t \in Tasks, spawn(t) PROVE IInv'
    BY <1>11, SpawnPreserves
  <1>12. ASSUME NEW t \in Tasks, process_exec(t) PROVE IInv'
    BY <1>12, ProcessExecPreserves
  <1>13. ASSUME NEW t \in Tasks, scheduler_block_current(t) PROVE IInv'
    BY <1>13, BlockPreserves
  <1>14. ASSUME NEW t \in Tasks, NEW ticks \in SleepTicks,
                scheduler_sleep(t, ticks)
         PROVE IInv'
    BY <1>14, SleepPreserves
  <1>15. ASSUME NEW t \in Tasks, NEW w \in Wakers, scheduler_unblock_check(w, t)
         PROVE IInv'
    BY <1>15, UnblockCheckPreserves
  <1>16. ASSUME NEW t \in Tasks, task_exit(t) PROVE IInv'
    BY <1>16, TaskExitPreserves
  <1>17. ASSUME NEW w \in Wakers, scheduler_unblock(w) PROVE IInv'
    BY <1>17, UnblockPreserves
  <1>18. CASE UNCHANGED vars
    BY <1>18, Zenon DEF vars, IInv, TypeOK, TaskPlacement, ResumeInv, UserInv, IdleInv,
                 RequestInv, WakingInv, ModeKept, NoOverdueSleeper,
                 OnReady, OnBlocked, OnSleep
  <1>19. QED
    BY <1>1, <1>2, <1>3, <1>4, <1>5, <1>6, <1>7, <1>8, <1>9, <1>10, <1>11,
       <1>12, <1>13, <1>14, <1>15, <1>16, <1>17, <1>18, Zenon
       DEF Next, Interrupts, InterruptPath, TaskCode, Crash

(* The inductive invariant holds in every reachable state of the scheduler.*)
THEOREM Invariance == Spec => []IInv
  BY InitEstablishes, NextPreserves, PTL DEF Spec

(* Type correctness.                                                       *)
THEOREM TypeCorrect == Spec => []TypeOK
  <1>1. IInv => TypeOK
    BY DEF IInv
  <1>2. QED BY <1>1, Invariance, PTL

(* No task is ever lost, duplicated or on a list that does not match its   *)
(* state, through any interleaving of the scheduler's entry points with    *)
(* the interrupt path.                                                     *)
THEOREM PlacementCorrect == Spec => []TaskPlacement
  <1>1. IInv => TaskPlacement
    BY DEF IInv
  <1>2. QED BY <1>1, Invariance, PTL

-----------------------------------------------------------------------------
(* Which stacks are written on.                                            *)

(* An execution that is saved on the stack of its own task spoils no other *)
(* as long as every other one is on the stack of its own task too.         *)
LEMMA OwnStack ==
    ASSUME NEW t, WritesOn(t, t), spoiled = {}, stack = [u \in AllTasks |-> u]
    PROVE  spoiled' = {} /\ stack' = [u \in AllTasks |-> u]
  <1>1. {u \in AllTasks \ {t} : stack[u] = t} = {}
    OBVIOUS
  <1>2. stack' = [u \in AllTasks |-> IF u = t THEN t ELSE stack[u]]
    BY DEF WritesOn
  <1>3. QED BY <1>1, <1>2 DEF WritesOn

(* Delivering an interrupt keeps the invariant of the stacks.              *)
LEMMA PushPreserves ==
    ASSUME StackInv, PushFrame
    PROVE  StackInv'
  <1> DEFINE s == IF InUserMode(current_task) THEN rsp0 ELSE current_task
  <1>1. /\ WritesOn(current_task, s) /\ crashed' = crashed
        /\ misplaced' = (misplaced \/ s # current_task)
    BY DEF PushFrame
  <1> HIDE DEF s
  <1>2. misplaced' \in BOOLEAN /\ crashed' \in BOOLEAN /\ (crashed' => misplaced')
    BY <1>1, Zenon DEF StackInv
  <1>3. ASSUME ~misplaced'
        PROVE  spoiled' = {} /\ stack' = [u \in AllTasks |-> u]
    <2>1. ~misplaced /\ s = current_task
      BY <1>1, <1>3, Zenon
    <2>2. WritesOn(current_task, current_task)
      BY <1>1, <2>1
    <2>3. QED BY <2>1, <2>2, OwnStack DEF StackInv
  <1>4. QED BY <1>2, <1>3 DEF StackInv

(* So does every switch.                                                   *)
LEMMA SwitchStacks ==
    ASSUME StackInv, NEW rq, NEW st, NEW rm, ScheduleAndSwitch(rq, st, rm)
    PROVE  StackInv'
  <1> DEFINE next == NextTask(rq)
  <1>1. CASE next = current_task
    BY <1>1 DEF ScheduleAndSwitch, StackInv, stacks
  <1>2. CASE next # current_task
    <2>1. /\ WritesOn(current_task, current_task) /\ misplaced' = misplaced
          /\ crashed' = (crashed \/ next \in spoiled)
      BY <1>2 DEF ScheduleAndSwitch
    <2> HIDE DEF next
    <2>2. crashed' \in BOOLEAN /\ misplaced' \in BOOLEAN
      BY <2>1, Zenon DEF StackInv
    <2>3. CASE misplaced
      BY <2>1, <2>2, <2>3, Zenon DEF StackInv
    <2>4. CASE ~misplaced
      <3>1. spoiled = {} /\ stack = [u \in AllTasks |-> u] /\ ~crashed
        BY <2>4 DEF StackInv
      <3>2. spoiled' = {} /\ stack' = [u \in AllTasks |-> u]
        BY <2>1, <3>1, OwnStack
      <3>3. ~crashed'
        BY <2>1, <3>1
      <3>4. QED BY <2>1, <2>2, <3>2, <3>3 DEF StackInv
    <2>5. QED BY <2>3, <2>4
  <1>3. QED BY <1>1, <1>2

(* A preemption does too: a frame built to enter user mode goes on the     *)
(* stack of the process itself.                                            *)
LEMMA PreemptStacks ==
    ASSUME StackInv, scheduler_get_next_interrupt_rsp
    PROVE  StackInv'
  <1> DEFINE next  == NextTask(ready_queue)
             frame == FrameFor(next)
  <1>1. /\ misplaced' = misplaced
        /\ frame = "user" => WritesOn(next, next) /\ crashed' = crashed
        /\ frame # "user" => /\ crashed' = (crashed \/ next \in spoiled)
                             /\ UNCHANGED <<stack, spoiled>>
    BY Zenon DEF scheduler_get_next_interrupt_rsp
  <1> HIDE DEF next, frame
  <1>2. crashed' \in BOOLEAN /\ misplaced' \in BOOLEAN
    BY <1>1, Zenon DEF StackInv
  <1>3. CASE misplaced
    BY <1>1, <1>2, <1>3, Zenon DEF StackInv
  <1>4. CASE ~misplaced
    <2>1. spoiled = {} /\ stack = [u \in AllTasks |-> u] /\ ~crashed
      BY <1>4 DEF StackInv
    <2>2. ~crashed'
      BY <1>1, <2>1
    <2>3. spoiled' = {} /\ stack' = [u \in AllTasks |-> u]
      BY <1>1, <2>1, OwnStack
    <2>4. QED BY <1>1, <1>2, <2>2, <2>3 DEF StackInv
  <1>5. QED BY <1>3, <1>4

(* As long as no interrupt of ring 3 has found RSP0 at the stack of        *)
(* another task, every saved execution is intact.                          *)
THEOREM StacksIntact == Spec => []StackInv
  <1>1. Init => StackInv
    BY DEF Init, StackInv
  <1>2. StackInv /\ [Next]_vars => StackInv'
    <2> SUFFICES ASSUME StackInv, [Next]_vars PROVE StackInv'
      OBVIOUS
    <2>1. ASSUME UNCHANGED stacks PROVE StackInv'
      BY <2>1 DEF stacks, StackInv
    <2>2. ASSUME pit_irq_handler \/ other_irq PROVE StackInv'
      BY <2>2, PushPreserves DEF pit_irq_handler, other_irq
    <2>3. ASSUME scheduler_check_sleeping_tasks \/ scheduler_preempt
                 \/ scheduler_save_interrupt_context \/ no_switch
                 \/ scheduler_commit_pending_task
          PROVE  StackInv'
      <3>1. UNCHANGED stacks
        BY <2>3, Zenon DEF scheduler_check_sleeping_tasks, scheduler_preempt,
             scheduler_save_interrupt_context, no_switch, scheduler_commit_pending_task
      <3>2. QED BY <2>1, <3>1
    <2>4. ASSUME NEW t \in Tasks,
                 spawn(t) \/ process_exec(t) \/ task_exit(t)
                 \/ \E w \in Wakers : scheduler_unblock_check(w, t)
          PROVE  StackInv'
      <3>1. UNCHANGED stacks
        BY <2>4, Zenon DEF spawn, process_exec, task_exit, scheduler_unblock_check
      <3>2. QED BY <2>1, <3>1
    <2>5. ASSUME NEW w \in Wakers, scheduler_unblock(w) PROVE StackInv'
      <3>1. UNCHANGED stacks
        BY <2>5, Zenon DEF scheduler_unblock
      <3>2. QED BY <2>1, <3>1
    <2>6. ASSUME NEW st, YieldFrom(st) PROVE StackInv'
      BY <2>6, SwitchStacks, Zenon DEF YieldFrom
    <2>7. ASSUME boot_yield \/ idle_yield \/ \E t \in Tasks :
                    \/ scheduler_yield(t) \/ task_exit_yield(t)
                    \/ scheduler_block_current(t)
                    \/ \E n \in SleepTicks : scheduler_sleep(t, n)
          PROVE  StackInv'
      BY <2>6, <2>7, Zenon DEF boot_yield, idle_yield, scheduler_yield,
           task_exit_yield, scheduler_block_current, scheduler_sleep
    <2>8. CASE UNCHANGED vars
      BY <2>1, <2>8, Zenon DEF vars
    <2>9. CASE Next
      BY <2>2, <2>3, <2>4, <2>5, <2>7, <2>8, <2>9, PreemptStacks, Zenon
         DEF Next, Interrupts, InterruptPath, TaskCode, Crash
    <2>10. QED BY <2>8, <2>9
  <1>3. QED BY <1>1, <1>2, PTL DEF Spec

(* A task is only ever resumed from where it was last saved, and what was  *)
(* saved is intact unless ring 3 was interrupted with the RSP0 of another. *)
THEOREM ResumeCorrect == Spec => []NoStaleResume
  <1>1. IInv => ModeKept
    BY DEF IInv
  <1>2. StackInv => (crashed => misplaced)
    BY DEF StackInv
  <1>3. ModeKept /\ (crashed => misplaced) => NoStaleResume
    BY DEF NoStaleResume
  <1>4. QED BY <1>1, <1>2, <1>3, Invariance, StacksIntact, PTL

(* A process that has entered user mode is the only task without a frame,  *)
(* and only when it was not interrupted.                                   *)
LEMMA FrameExists ==
    ASSUME NEW h, h \in Processes /\ user[h] = "started" =>
                      resume_mode[h] = "interrupt"
    PROVE  FrameFor(h) # NULL
  <1>1. BuiltFrame(h) # NULL
    BY TasksAssumption DEF BuiltFrame
  <1>2. CASE h \in Processes /\ user[h] = "exec"
    BY <1>1, <1>2 DEF FrameFor
  <1>3. CASE ~(h \in Processes /\ user[h] = "exec") /\ resume_mode[h] = "interrupt"
    BY <1>3, TasksAssumption DEF FrameFor
  <1>4. CASE ~(h \in Processes /\ user[h] = "exec") /\ resume_mode[h] # "interrupt"
    <2>1. ~InUserMode(h)
      BY <1>4 DEF InUserMode
    <2>2. QED BY <1>1, <1>4, <2>1 DEF FrameFor
  <1>5. QED BY <1>2, <1>3, <1>4

(* No preemption request is dropped or left over.                          *)
THEOREM RequestCorrect == Spec => []RequestHonoured
  <1>1. IInv => RequestHonoured
    <2> SUFFICES ASSUME IInv PROVE RequestHonoured
      OBVIOUS
    <2>1. pc \in {"run", "scan", "commit"} => ~preemption_requested
      BY DEF IInv, RequestInv
    <2>2. ASSUME pc = "pick", preemption_requested
          PROVE  ready_queue # <<>> /\ FrameFor(Head(ready_queue)) # NULL
      <3>1. ready_queue # <<>>
        BY <2>2 DEF IInv, RequestInv
      <3>2. Head(ready_queue) \in Tasks /\ Contains(ready_queue, Head(ready_queue))
        BY <3>1, PopFacts DEF IInv, TypeOK
      <3>3. resume_mode[Head(ready_queue)] \in task_resume_mode_t
        BY <3>2 DEF IInv, TypeOK, AllTasks
      <3>4. Head(ready_queue) \in Processes /\ user[Head(ready_queue)] = "started" =>
               resume_mode[Head(ready_queue)] = "interrupt"
        BY <3>2 DEF IInv, UserInv, OnReady
      <3>5. FrameFor(Head(ready_queue)) # NULL
        BY <3>4, FrameExists
      <3>6. QED BY <3>1, <3>5
    <2>3. QED BY <2>1, <2>2 DEF RequestHonoured
  <1>2. QED BY <1>1, Invariance, PTL

(* The walk over the sleep queue leaves no due task behind it.             *)
THEOREM SleeperCorrect == Spec => []NoOverdueSleeper
  <1>1. IInv => NoOverdueSleeper
    BY DEF IInv
  <1>2. QED BY <1>1, Invariance, PTL

-----------------------------------------------------------------------------
(* Refinement of TaskLifecycle.                                            *)

status == [t \in Tasks |-> state[t]]

(* Giving a free CPU to a ready task is a step of TaskLifecycle.           *)
LEMMA StartStep ==
    ASSUME NEW t \in Tasks, status[t] = "ready",
           \A u \in Tasks : status[u] # "running",
           status' = [status EXCEPT ![t] = "running"]
    PROVE  L!Next
  <1>1. L!Start(t)
    BY DEF L!Start, L!Free, status
  <1>2. QED BY <1>1 DEF L!Next

(* The running task's giving up the CPU is a step of TaskLifecycle.        *)
LEMMA ReleaseStep ==
    ASSUME NEW t \in Tasks, status[t] = "running",
           NEW s \in {"ready", "blocked", "sleeping", "terminated"},
           status' = [status EXCEPT ![t] = s]
    PROVE  L!Next
  <1>1. L!Release(t, s) /\ s \in L!Released
    BY DEF L!Release, L!Released, status
  <1>2. QED BY <1>1, Zenon DEF L!Next

(* scheduler_yield as seen from the life cycle: a switch, the start of a   *)
(* task on a free CPU, or the CPU going idle.                              *)
LEMMA YieldRefines ==
    ASSUME IInv, pc = "run", NEW st, YieldFrom(st),
           st \in [AllTasks -> task_state_t \cup {"none"}],
           \A t \in AllTasks : t # current_task => st[t] = state[t],
           current_task \in Tasks =>
               \/ state[current_task] = "running" /\ st[current_task] \in {"running", "blocked", "sleeping"}
               \/ state[current_task] = "terminated" /\ st[current_task] = "terminated"
    PROVE  L!Next \/ UNCHANGED status
  <1> USE TasksAssumption DEF AllTasks
  <1>1. /\ state \in [AllTasks -> task_state_t \cup {"none"}]
        /\ ready_queue \in QueueType
        /\ \A t \in Tasks : state[t] = "running" => t = current_task
        /\ \A t \in Tasks : Contains(ready_queue, t) <=> state[t] = "ready"
    BY DEF IInv, TypeOK, TaskPlacement, OnReady
  <1>2. PICK rq, st1, rm :
          /\ ScheduleAndSwitch(rq, st1, rm)
          /\ rq \in QueueType
          /\ st1 \in [AllTasks -> task_state_t \cup {"none"}]
          /\ \A t \in Tasks : t # current_task => st1[t] = state[t]
          /\ \A u : Contains(rq, u) =>
                 \/ Contains(ready_queue, u)
                 \/ u = current_task /\ st1[u] = "ready" /\ state[u] = "running"
          /\ current_task \in Tasks /\ state[current_task] = "running" =>
                st1[current_task] \in {"ready", "blocked", "sleeping"}
          /\ current_task \in Tasks /\ state[current_task] # "running" =>
                st1[current_task] = state[current_task]
    <2>1. CASE current_task \in Tasks /\ st[current_task] = "running"
      <3>1. ScheduleAndSwitch(task_queue_push(ready_queue, current_task),
                              [st EXCEPT ![current_task] = "ready"],
                              [resume_mode EXCEPT ![current_task] = "context"])
        BY <2>1 DEF YieldFrom, StillRunning, scheduler_reset_resume_state
      <3>2. /\ task_queue_push(ready_queue, current_task) \in QueueType
            /\ \A u : Contains(task_queue_push(ready_queue, current_task), u)
                        <=> Contains(ready_queue, u) \/ u = current_task
        BY <1>1, <2>1, PushFacts
      <3>3. /\ [st EXCEPT ![current_task] = "ready"] \in [AllTasks -> task_state_t \cup {"none"}]
            /\ [st EXCEPT ![current_task] = "ready"][current_task] = "ready"
            /\ \A t \in Tasks : t # current_task =>
                  [st EXCEPT ![current_task] = "ready"][t] = state[t]
        BY <2>1 DEF task_state_t
      <3>4. QED BY <2>1, <3>1, <3>2, <3>3
    <2>2. CASE ~(current_task \in Tasks /\ st[current_task] = "running")
      <3>1. ScheduleAndSwitch(ready_queue, st, resume_mode)
        BY <2>2 DEF YieldFrom, StillRunning, scheduler_reset_resume_state
      <3>2. QED BY <2>2, <3>1, <1>1
    <2>3. QED BY <2>1, <2>2
  <1> DEFINE next == NextTask(rq)
  <1>3. /\ state' = IF next = Idle THEN st1 ELSE [st1 EXCEPT ![next] = "running"]
        /\ next # Idle => next \in Tasks /\ Contains(rq, next)
    BY <1>2, PopFacts DEF ScheduleAndSwitch, scheduler_schedule, scheduler_switch_to, NextTask
  <1> HIDE DEF next
  <1>4. \A t \in Tasks : state'[t] = IF t = next THEN "running" ELSE st1[t]
    BY <1>2, <1>3
  <1>5. CASE current_task \in Tasks /\ state[current_task] = "running"
    <2>1. CASE next = Idle
      <3>1. status' = [status EXCEPT ![current_task] = st1[current_task]]
        BY <1>2, <1>4, <1>5, <2>1 DEF status
      <3>2. status[current_task] = "running"
        BY <1>5 DEF status
      <3>3. QED BY <3>1, <3>2, <1>2, <1>5, ReleaseStep
    <2>2. CASE next = current_task
      BY <1>2, <1>4, <1>5, <2>2 DEF status
    <2>3. CASE next # Idle /\ next # current_task
      <3>1. next \in Tasks /\ state[next] = "ready"
        BY <1>1, <1>2, <1>3, <2>3
      <3>2. status' = [status EXCEPT ![current_task] = st1[current_task], ![next] = "running"]
        BY <1>2, <1>4, <1>5, <2>3, <3>1 DEF status
      <3>3. L!Switch(current_task, st1[current_task], next)
        BY <3>1, <3>2, <1>5 DEF L!Switch, status
      <3>4. st1[current_task] \in L!Released
        BY <1>2, <1>5 DEF L!Released
      <3>5. QED BY <3>1, <3>3, <3>4, <1>5, Zenon DEF L!Next
    <2>4. QED BY <2>1, <2>2, <2>3
  <1>6. CASE ~(current_task \in Tasks /\ state[current_task] = "running")
    <2>1. ASSUME NEW t \in Tasks
          PROVE  state[t] # "running" /\ st1[t] = state[t]
      <3>1. CASE t = current_task
        BY <1>2, <1>6, <3>1
      <3>2. CASE t # current_task
        BY <1>1, <1>2, <3>2
      <3>3. QED BY <3>1, <3>2
    <2>2. CASE next = Idle
      BY <2>1, <2>2, <1>4 DEF status
    <2>3. CASE next # Idle
      <3>1. next \in Tasks /\ state[next] = "ready"
        BY <1>1, <1>2, <1>3, <1>6, <2>1, <2>3
      <3>2. status' = [status EXCEPT ![next] = "running"]
        BY <2>1, <1>4, <3>1 DEF status
      <3>3. status[next] = "ready" /\ \A t \in Tasks : status[t] # "running"
        BY <2>1, <3>1 DEF status
      <3>4. QED BY <3>1, <3>2, <3>3, StartStep
    <2>4. QED BY <2>2, <2>3
  <1>7. QED BY <1>5, <1>6

(* The initial states agree, and every step of the scheduler is a step of  *)
(* the life cycle or leaves it alone.                                      *)
LEMMA NextRefines == IInv /\ [Next]_vars => [L!Next]_status
  <1> SUFFICES ASSUME IInv, [Next]_vars PROVE L!Next \/ UNCHANGED status
    OBVIOUS
  <1> USE TasksAssumption DEF AllTasks
  <1>0. /\ state \in [AllTasks -> task_state_t \cup {"none"}]
        /\ pending_task \in Tasks \cup {NULL}
        /\ sleep_queue \in QueueType /\ cursor \in Nat \ {0}
        /\ waking \in [Wakers -> Tasks \cup {NULL}]
        /\ pc # "commit" /\ current_task \in Tasks =>
              state[current_task] \in {"running", "terminated"}
    BY DEF IInv, TypeOK, TaskPlacement
  <1>1. CASE state' = state
    BY <1>1 DEF status
  <1>2. ASSUME pc = "run", YieldFrom(state) PROVE L!Next \/ UNCHANGED status
    <2>1. current_task \in Tasks => state[current_task] \in {"running", "terminated"}
      BY <1>0, <1>2
    <2>2. QED BY <1>0, <1>2, <2>1, YieldRefines
  <1>3. ASSUME NEW t \in Tasks, NEW s \in {"blocked", "sleeping"},
               Kernel(t), YieldFrom([state EXCEPT ![t] = s])
        PROVE  L!Next \/ UNCHANGED status
    <2> DEFINE st == [state EXCEPT ![t] = s]
    <2>1. /\ st \in [AllTasks -> task_state_t \cup {"none"}]
          /\ st[t] = s /\ \A u \in AllTasks : u # t => st[u] = state[u]
      BY <1>0 DEF task_state_t
    <2>2. pc = "run" /\ current_task = t /\ state[t] = "running"
      BY <1>3 DEF Kernel
    <2>3. YieldFrom(st)
      BY <1>3
    <2> HIDE DEF st
    <2>4. QED BY <2>1, <2>2, <2>3, YieldRefines
  <1>4. ASSUME NEW t \in Tasks, state[t] = "none",
               state' = [state EXCEPT ![t] = "ready"]
        PROVE  L!Next
    <2>1. L!Create(t)
      BY <1>0, <1>4 DEF L!Create, status
    <2>2. QED BY <2>1 DEF L!Next
  <1>5. ASSUME NEW t \in Tasks, state[t] \in {"blocked", "sleeping"},
               state' = [state EXCEPT ![t] = "ready"]
        PROVE  L!Next
    <2>1. L!Wake(t)
      BY <1>0, <1>5 DEF L!Wake, status
    <2>2. QED BY <2>1 DEF L!Next
  <1>6. ASSUME NEW t \in Tasks, NEW s \in {"ready", "terminated"},
               state[t] = "running", state' = [state EXCEPT ![t] = s]
        PROVE  L!Next
    <2>1. status[t] = "running" /\ status' = [status EXCEPT ![t] = s]
      BY <1>0, <1>6 DEF status
    <2>2. QED BY <2>1, ReleaseStep
  <1>7. CASE scheduler_check_sleeping_tasks
    <2>1. CASE wake_left[sleep_queue[cursor]] = 0
      <3>1. cursor \in 1..Len(sleep_queue)
        BY <1>0, <1>7 DEF scheduler_check_sleeping_tasks, QueueType
      <3>2. sleep_queue[cursor] \in Tasks /\ Contains(sleep_queue, sleep_queue[cursor])
        BY <1>0, <3>1 DEF QueueType, Contains
      <3>3. state[sleep_queue[cursor]] = "sleeping"
        BY <3>2 DEF IInv, TaskPlacement, OnSleep
      <3>4. state' = [state EXCEPT ![sleep_queue[cursor]] = "ready"]
        BY <1>7, <2>1 DEF scheduler_check_sleeping_tasks, Due
      <3>5. QED BY <1>5, <3>2, <3>3, <3>4
    <2>2. CASE wake_left[sleep_queue[cursor]] # 0
      BY <1>1, <1>7, <2>2 DEF scheduler_check_sleeping_tasks, Due
    <2>3. QED BY <2>1, <2>2
  <1>8. CASE scheduler_get_next_interrupt_rsp
    <2>1. \/ state' = state
          \/ /\ current_task \in Tasks /\ state[current_task] = "running"
             /\ state' = [state EXCEPT ![current_task] = "ready"]
      BY <1>8, Zenon DEF scheduler_get_next_interrupt_rsp, StillRunning
    <2>2. QED BY <1>1, <1>6, <2>1
  <1>9. CASE scheduler_commit_pending_task
    <2>1. /\ pending_task \in Tasks /\ pc = "commit"
          /\ state' = [state EXCEPT ![pending_task] = "running"]
      BY <1>0, <1>9 DEF scheduler_commit_pending_task
    <2>2. /\ state[pending_task] = "ready"
          /\ \A t \in Tasks : state[t] # "running"
      BY <2>1 DEF IInv, TaskPlacement
    <2>3. /\ status' = [status EXCEPT ![pending_task] = "running"]
          /\ status[pending_task] = "ready"
          /\ \A t \in Tasks : status[t] # "running"
      BY <1>0, <2>1, <2>2 DEF status
    <2>4. QED BY <2>1, <2>3, StartStep
  <1>10. ASSUME NEW w \in Wakers, scheduler_unblock(w) PROVE L!Next
    <2>1. waking[w] \in Tasks /\ state' = [state EXCEPT ![waking[w]] = "ready"]
      BY <1>0, <1>10 DEF scheduler_unblock, MidUnblock
    <2>2. state[waking[w]] = "blocked"
      BY <2>1 DEF IInv, WakingInv
    <2>3. QED BY <1>5, <2>1, <2>2
  <1>11. ASSUME NEW t \in Tasks, NEW w \in Wakers, scheduler_unblock_check(w, t)
         PROVE  state' = state
    BY <1>11 DEF scheduler_unblock_check
  <1>12. ASSUME NEW t \in Tasks, process_exec(t) PROVE state' = state
    BY <1>12 DEF process_exec
  <1>13. ASSUME NEW t \in Tasks, task_exit(t) PROVE L!Next
    BY <1>6, <1>13 DEF task_exit, Kernel
  <1>14. ASSUME NEW t \in Tasks, spawn(t) PROVE L!Next
    BY <1>4, <1>14 DEF spawn, task_create, scheduler_add_task
  <1>15. ASSUME pit_irq_handler \/ other_irq \/ scheduler_preempt \/ no_switch
                  \/ scheduler_save_interrupt_context \/ UNCHANGED vars
         PROVE  state' = state
    BY <1>15 DEF pit_irq_handler, other_irq, scheduler_preempt, no_switch,
                 scheduler_save_interrupt_context, vars
  <1>16. ASSUME NEW t \in Tasks,
                scheduler_block_current(t) \/ \E n \in SleepTicks : scheduler_sleep(t, n)
         PROVE  L!Next \/ UNCHANGED status
    <2>1. /\ Kernel(t)
          /\ \/ YieldFrom([state EXCEPT ![t] = "blocked"])
             \/ YieldFrom([state EXCEPT ![t] = "sleeping"])
      BY <1>16, Zenon DEF scheduler_block_current, scheduler_sleep
    <2>2. QED BY <1>3, <2>1
  <1>17. ASSUME boot_yield \/ idle_yield
                  \/ \E t \in Tasks : scheduler_yield(t) \/ task_exit_yield(t)
         PROVE  L!Next \/ UNCHANGED status
    <2>1. pc = "run" /\ YieldFrom(state)
      BY <1>17, Zenon DEF boot_yield, idle_yield, scheduler_yield,
                          task_exit_yield, Kernel
    <2>2. QED BY <1>2, <2>1
  <1>18. QED
    BY <1>1, <1>7, <1>8, <1>9, <1>10, <1>11, <1>12, <1>13, <1>14, <1>15,
       <1>16, <1>17, Zenon DEF Next, Interrupts, InterruptPath, TaskCode, Crash

(* The scheduler implements TaskLifecycle.                                 *)
THEOREM Refinement == Spec => Lifecycle
  <1>1. Init => L!Init
    BY TasksAssumption DEF Init, L!Init, AllTasks
  <1>2. QED BY <1>1, NextRefines, Invariance, PTL DEF Spec, Lifecycle, L!Spec, status

-----------------------------------------------------------------------------
(* The mutex.  MIInv in three parts: which list each task is on, who has   *)
(* the CPU, and who holds the mutex.                                       *)

(* Every list holds each task once and exactly the tasks of its state; p   *)
(* is a ready task that has been taken off the ready queue, or NULL.       *)
Placed(rq, bq, sq, wq, st, p) ==
    /\ rq \in QueueType /\ bq \in QueueType /\ sq \in QueueType /\ wq \in QueueType
    /\ Distinct(rq) /\ Distinct(bq) /\ Distinct(sq) /\ Distinct(wq)
    /\ st \in [AllTasks -> task_state_t \cup {"none"}] /\ st[Idle] = "idle"
    /\ \A t \in Tasks :
         /\ st[t] # "idle"
         /\ Contains(rq, t) <=> st[t] = "ready" /\ t # p
         /\ Contains(bq, t) \/ Contains(wq, t) <=> st[t] = "blocked"
         /\ ~(Contains(bq, t) /\ Contains(wq, t))
         /\ Contains(sq, t) <=> st[t] = "sleeping"

Lists == Placed(ready_queue, blocked_queue, sleep_queue, wait_queue, state,
                pending_task)

Cpu ==
    /\ current_task \in AllTasks \cup {NULL}
    /\ pending_task \in Tasks \cup {NULL} /\ cursor \in Nat \ {0}
    /\ \A t \in Tasks : state[t] = "running" => t = current_task
    /\ current_task \in Tasks =>
         \/ state[current_task] = "terminated"
         \/ state[current_task] = "blocked" /\ at[current_task] = "window"
         \/ state[current_task] = IF pc = "commit" THEN "ready" ELSE "running"
    /\ (pc = "commit") <=> (pending_task # NULL)
    /\ pending_task # NULL => state[pending_task] = "ready"
    /\ waking \in [Wakers -> {NULL}]

Holder ==
    /\ locked \in BOOLEAN /\ owner \in Tasks \cup {NULL}
    /\ at \in [Tasks -> {"out", "in", "loop", "window"}]
    /\ MutualExclusion /\ NoLostWakeup

(* The three parts follow from the invariant ...                           *)
LEMMA PartsOf ==
    ASSUME MIInv
    PROVE  Lists /\ Cpu /\ Holder
  <1>1. Lists
    BY DEF MIInv, MTypeOK, IdleInv, WaiterPlacement, Lists, Placed, OnReady,
           OnBlocked, OnSleep, Waiting
  <1>2. Cpu
    BY DEF MIInv, MTypeOK, WaiterPlacement, Cpu
  <1>3. Holder
    BY DEF MIInv, MTypeOK, Holder
  <1>4. QED BY <1>1, <1>2, <1>3

(* ... and make it up again after a step.                                  *)
LEMMA Together ==
    ASSUME Lists', Cpu', Holder'
    PROVE  MIInv'
  <1>1. MTypeOK'
    BY DEF MTypeOK, Lists, Placed, Cpu, Holder
  <1>2. IdleInv'
    BY DEF IdleInv, Lists, Placed
  <1>3. WaiterPlacement'
    BY DEF WaiterPlacement, Lists, Placed, Cpu, OnReady, OnBlocked, OnSleep, Waiting
  <1>4. QED BY <1>1, <1>2, <1>3 DEF MIInv, Cpu, Holder

(* A new task, or the running task, becomes ready.                         *)
LEMMA PlacedReady ==
    ASSUME NEW rq, NEW bq, NEW sq, NEW wq, NEW st, NEW p,
           Placed(rq, bq, sq, wq, st, p),
           NEW t \in Tasks, t # p, st[t] \in {"none", "running"}
    PROVE  Placed(task_queue_push(rq, t), bq, sq, wq, [st EXCEPT ![t] = "ready"], p)
  <1> USE TasksAssumption DEF AllTasks
  <1>1. /\ rq \in QueueType /\ Distinct(rq) /\ ~Contains(rq, t)
    BY DEF Placed
  <1>2. PICK rq1 : rq1 = task_queue_push(rq, t)
    OBVIOUS
  <1>3. PICK st1 : st1 = [st EXCEPT ![t] = "ready"]
    OBVIOUS
  <1>4. /\ rq1 \in QueueType /\ Distinct(rq1)
        /\ \A u : Contains(rq1, u) <=> Contains(rq, u) \/ u = t
    BY <1>1, <1>2, PushFacts
  <1>5. /\ st1 \in [AllTasks -> task_state_t \cup {"none"}] /\ st1[Idle] = "idle"
        /\ \A u \in Tasks : st1[u] = IF u = t THEN "ready" ELSE st[u]
    BY <1>3 DEF Placed, task_state_t
  <1>6. Placed(rq1, bq, sq, wq, st1, p)
    BY <1>4, <1>5 DEF Placed
  <1>7. QED BY <1>2, <1>3, <1>6

(* The running task blocks, sleeps, waits for the mutex, or exits: it goes *)
(* to the list of its new state.                                           *)
LEMMA PlacedLeave ==
    ASSUME NEW rq, NEW bq, NEW sq, NEW wq, NEW st, NEW p,
           Placed(rq, bq, sq, wq, st, p), NEW t \in Tasks, st[t] = "running"
    PROVE  /\ Placed(rq, task_queue_push(bq, t), sq, wq, [st EXCEPT ![t] = "blocked"], p)
           /\ Placed(rq, bq, sq, task_queue_push(wq, t), [st EXCEPT ![t] = "blocked"], p)
           /\ Placed(rq, bq, task_queue_push(sq, t), wq, [st EXCEPT ![t] = "sleeping"], p)
           /\ Placed(rq, bq, sq, wq, [st EXCEPT ![t] = "terminated"], p)
  <1> USE TasksAssumption DEF AllTasks
  <1>1. ASSUME NEW s \in {"blocked", "sleeping", "terminated"}, NEW st1,
               st1 = [st EXCEPT ![t] = s]
        PROVE  /\ st1 \in [AllTasks -> task_state_t \cup {"none"}] /\ st1[Idle] = "idle"
               /\ \A u \in Tasks : st1[u] = IF u = t THEN s ELSE st[u]
    BY <1>1 DEF Placed, task_state_t
  <1>2. ASSUME NEW q \in QueueType, NEW q1, q1 = task_queue_push(q, t),
               Distinct(q), ~Contains(q, t)
        PROVE  /\ q1 \in QueueType /\ Distinct(q1)
               /\ \A u : Contains(q1, u) <=> Contains(q, u) \/ u = t
    BY <1>2, PushFacts
  <1>3. PICK bq1, wq1, sq1, stb, sts, stt :
          /\ bq1 = task_queue_push(bq, t) /\ wq1 = task_queue_push(wq, t)
          /\ sq1 = task_queue_push(sq, t)
          /\ stb = [st EXCEPT ![t] = "blocked"] /\ sts = [st EXCEPT ![t] = "sleeping"]
          /\ stt = [st EXCEPT ![t] = "terminated"]
    OBVIOUS
  <1>4. /\ bq \in QueueType /\ Distinct(bq) /\ ~Contains(bq, t)
        /\ sq \in QueueType /\ Distinct(sq) /\ ~Contains(sq, t)
        /\ wq \in QueueType /\ Distinct(wq) /\ ~Contains(wq, t)
    BY DEF Placed
  <1>5. Placed(rq, bq1, sq, wq, stb, p)
    <2>1. /\ bq1 \in QueueType /\ Distinct(bq1)
          /\ \A u : Contains(bq1, u) <=> Contains(bq, u) \/ u = t
      BY <1>2, <1>3, <1>4
    <2>2. /\ stb \in [AllTasks -> task_state_t \cup {"none"}] /\ stb[Idle] = "idle"
          /\ \A u \in Tasks : stb[u] = IF u = t THEN "blocked" ELSE st[u]
      BY <1>1, <1>3
    <2>3. QED BY <1>4, <2>1, <2>2 DEF Placed
  <1>6. Placed(rq, bq, sq, wq1, stb, p)
    <2>1. /\ wq1 \in QueueType /\ Distinct(wq1)
          /\ \A u : Contains(wq1, u) <=> Contains(wq, u) \/ u = t
      BY <1>2, <1>3, <1>4
    <2>2. /\ stb \in [AllTasks -> task_state_t \cup {"none"}] /\ stb[Idle] = "idle"
          /\ \A u \in Tasks : stb[u] = IF u = t THEN "blocked" ELSE st[u]
      BY <1>1, <1>3
    <2>3. QED BY <1>4, <2>1, <2>2 DEF Placed
  <1>7. Placed(rq, bq, sq1, wq, sts, p)
    <2>1. /\ sq1 \in QueueType /\ Distinct(sq1)
          /\ \A u : Contains(sq1, u) <=> Contains(sq, u) \/ u = t
      BY <1>2, <1>3, <1>4
    <2>2. /\ sts \in [AllTasks -> task_state_t \cup {"none"}] /\ sts[Idle] = "idle"
          /\ \A u \in Tasks : sts[u] = IF u = t THEN "sleeping" ELSE st[u]
      BY <1>1, <1>3
    <2>3. QED BY <1>4, <2>1, <2>2 DEF Placed
  <1>8. Placed(rq, bq, sq, wq, stt, p)
    <2>1. /\ stt \in [AllTasks -> task_state_t \cup {"none"}] /\ stt[Idle] = "idle"
          /\ \A u \in Tasks : stt[u] = IF u = t THEN "terminated" ELSE st[u]
      BY <1>1, <1>3
    <2>2. QED BY <1>4, <2>1 DEF Placed
  <1>9. QED BY <1>3, <1>5, <1>6, <1>7, <1>8

(* A sleeping task that is due, or the waiter the mutex is handed to, is   *)
(* unlinked and made ready.                                                *)
LEMMA PlacedWake ==
    ASSUME NEW rq, NEW bq, NEW sq, NEW wq, NEW st, NEW p,
           Placed(rq, bq, sq, wq, st, p), NEW t \in Tasks, t # p
    PROVE  /\ st[t] = "blocked" =>
                Placed(task_queue_push(rq, t), task_queue_remove(bq, t), sq,
                       task_queue_remove(wq, t), [st EXCEPT ![t] = "ready"], p)
           /\ \A i \in 1..Len(sq) : sq[i] = t =>
                Placed(task_queue_push(rq, t), bq, RemoveIndex(sq, i), wq,
                       [st EXCEPT ![t] = "ready"], p)
  <1> USE TasksAssumption DEF AllTasks
  <1>1. PICK rq1, st1, bq1, wq1 :
          /\ rq1 = task_queue_push(rq, t) /\ st1 = [st EXCEPT ![t] = "ready"]
          /\ bq1 = task_queue_remove(bq, t) /\ wq1 = task_queue_remove(wq, t)
    OBVIOUS
  <1>2. /\ rq \in QueueType /\ bq \in QueueType /\ sq \in QueueType /\ wq \in QueueType
        /\ Distinct(rq) /\ Distinct(bq) /\ Distinct(sq) /\ Distinct(wq)
    BY DEF Placed
  <1>3. st[t] \in {"blocked", "sleeping"} =>
          /\ rq1 \in QueueType /\ Distinct(rq1)
          /\ \A u : Contains(rq1, u) <=> Contains(rq, u) \/ u = t
    <2>1. st[t] \in {"blocked", "sleeping"} => ~Contains(rq, t)
      BY DEF Placed
    <2>2. QED BY <1>1, <1>2, <2>1, PushFacts
  <1>4. /\ st1 \in [AllTasks -> task_state_t \cup {"none"}] /\ st1[Idle] = "idle"
        /\ \A u \in Tasks : st1[u] = IF u = t THEN "ready" ELSE st[u]
    BY <1>1 DEF Placed, task_state_t
  <1>5. ASSUME st[t] = "blocked"
        PROVE  Placed(rq1, bq1, sq, wq1, st1, p)
    <2>1. /\ bq1 \in QueueType /\ Distinct(bq1)
          /\ \A u : Contains(bq1, u) <=> Contains(bq, u) /\ u # t
      BY <1>1, <1>2, RemoveFacts
    <2>2. /\ wq1 \in QueueType /\ Distinct(wq1)
          /\ \A u : Contains(wq1, u) <=> Contains(wq, u) /\ u # t
      BY <1>1, <1>2, RemoveFacts
    <2>3. QED BY <1>2, <1>3, <1>4, <1>5, <2>1, <2>2 DEF Placed
  <1>6. ASSUME NEW i \in 1..Len(sq), sq[i] = t
        PROVE  Placed(rq1, bq, RemoveIndex(sq, i), wq, st1, p)
    <2>1. PICK sq1 : sq1 = RemoveIndex(sq, i)
      OBVIOUS
    <2>2. /\ sq1 \in QueueType /\ Distinct(sq1)
          /\ \A u : Contains(sq1, u) <=> Contains(sq, u) /\ u # t
      BY <1>2, <1>6, <2>1, RemoveIndexFacts
    <2>3. st[t] = "sleeping"
      BY <1>6 DEF Placed, Contains
    <2>4. Placed(rq1, bq, sq1, wq, st1, p)
      BY <1>2, <1>3, <1>4, <2>2, <2>3 DEF Placed
    <2>5. QED BY <2>1, <2>4
  <1>7. QED BY <1>1, <1>5, <1>6

(* The head of the ready queue is taken, by a preemption ...               *)
LEMMA PlacedTake ==
    ASSUME NEW rq, NEW bq, NEW sq, NEW wq, NEW st,
           Placed(rq, bq, sq, wq, st, NULL), rq # <<>>
    PROVE  /\ Head(rq) \in Tasks /\ st[Head(rq)] = "ready"
           /\ Placed(Tail(rq), bq, sq, wq, st, Head(rq))
  <1>1. rq \in QueueType /\ Distinct(rq)
    BY DEF Placed
  <1>2. PICK h, tl : h = Head(rq) /\ tl = Tail(rq)
    OBVIOUS
  <1>3. /\ h \in Tasks /\ tl \in QueueType /\ Distinct(tl) /\ Contains(rq, h)
        /\ \A u : Contains(tl, u) <=> Contains(rq, u) /\ u # h
    BY <1>1, <1>2, PopFacts
  <1>4. st[h] = "ready" /\ Placed(tl, bq, sq, wq, st, h)
    BY <1>3, TasksAssumption DEF Placed, AllTasks
  <1>5. QED BY <1>2, <1>3, <1>4

(* ... and is given the CPU.                                               *)
LEMMA PlacedRun ==
    ASSUME NEW rq, NEW bq, NEW sq, NEW wq, NEW st, NEW p \in Tasks,
           Placed(rq, bq, sq, wq, st, p), st[p] = "ready"
    PROVE  Placed(rq, bq, sq, wq, [st EXCEPT ![p] = "running"], NULL)
  <1> USE TasksAssumption DEF AllTasks
  <1>1. PICK st1 : st1 = [st EXCEPT ![p] = "running"]
    OBVIOUS
  <1>2. /\ st1 \in [AllTasks -> task_state_t \cup {"none"}] /\ st1[Idle] = "idle"
        /\ \A u \in Tasks : st1[u] = IF u = p THEN "running" ELSE st[u]
    BY <1>1 DEF Placed, task_state_t
  <1>3. Placed(rq, bq, sq, wq, st1, NULL)
    BY <1>2 DEF Placed
  <1>4. QED BY <1>1, <1>3

(* scheduler_yield leaves every task on its list and one of them, or the   *)
(* idle task, running; a terminated task stays so.                         *)
LEMMA PlacedYield ==
    ASSUME NEW bq, NEW sq, NEW wq, NEW st,
           Placed(ready_queue, bq, sq, wq, st, NULL),
           \A t \in Tasks : st[t] = "running" => t = current_task,
           YieldFrom(st)
    PROVE  /\ Placed(ready_queue', bq, sq, wq, state', NULL)
           /\ current_task' \in AllTasks
           /\ \A t \in Tasks : state'[t] = "running" => t = current_task'
           /\ current_task' \in Tasks => state'[current_task'] = "running"
           /\ \A t \in Tasks : st[t] = "terminated" => state'[t] = "terminated"
  <1> USE TasksAssumption DEF AllTasks
  <1>1. PICK rq, st1, rm :
          /\ Placed(rq, bq, sq, wq, st1, NULL)
          /\ \A t \in Tasks : st1[t] # "running"
          /\ \A t \in Tasks : st[t] = "terminated" => st1[t] = "terminated"
          /\ ScheduleAndSwitch(rq, st1, rm)
    <2>1. CASE StillRunning(st)
      <3>1. PICK st1, rq1, rm1 :
              /\ st1 = [st EXCEPT ![current_task] = "ready"]
              /\ rq1 = task_queue_push(ready_queue, current_task)
              /\ rm1 = scheduler_reset_resume_state(resume_mode, current_task)
        OBVIOUS
      <3>2. current_task \in Tasks /\ st[current_task] = "running"
        BY <2>1 DEF StillRunning
      <3>3. Placed(rq1, bq, sq, wq, st1, NULL)
        BY <3>1, <3>2, PlacedReady
      <3>4. \A t \in Tasks : st1[t] = IF t = current_task THEN "ready" ELSE st[t]
        BY <3>1, <3>2 DEF Placed
      <3>5. ScheduleAndSwitch(rq1, st1, rm1)
        BY <2>1, <3>1, Zenon DEF YieldFrom
      <3>6. QED BY <3>2, <3>3, <3>4, <3>5
    <2>2. CASE ~StillRunning(st)
      <3>1. ScheduleAndSwitch(ready_queue, st, resume_mode)
        BY <2>2, Zenon DEF YieldFrom
      <3>2. \A t \in Tasks : st[t] # "running"
        BY <2>2 DEF StillRunning
      <3>3. QED BY <3>1, <3>2
    <2>3. QED BY <2>1, <2>2
  <1>2. /\ ready_queue' = IF rq = <<>> THEN rq ELSE Tail(rq)
        /\ current_task' = NextTask(rq)
        /\ state' = IF NextTask(rq) = Idle THEN st1
                    ELSE [st1 EXCEPT ![NextTask(rq)] = "running"]
    BY <1>1, Zenon DEF ScheduleAndSwitch, scheduler_schedule, scheduler_switch_to
  <1>3. CASE rq = <<>>
    BY <1>1, <1>2, <1>3 DEF NextTask
  <1>4. CASE rq # <<>>
    <2>1. /\ Head(rq) \in Tasks /\ st1[Head(rq)] = "ready"
          /\ Placed(Tail(rq), bq, sq, wq, st1, Head(rq))
      BY <1>1, <1>4, PlacedTake
    <2>2. /\ ready_queue' = Tail(rq) /\ current_task' = Head(rq)
          /\ state' = [st1 EXCEPT ![Head(rq)] = "running"]
      BY <1>2, <1>4, <2>1 DEF NextTask
    <2>3. Placed(ready_queue', bq, sq, wq, state', NULL)
      BY <2>1, <2>2, PlacedRun
    <2>4. \A t \in Tasks : state'[t] = IF t = Head(rq) THEN "running" ELSE st1[t]
      BY <2>1, <2>2 DEF Placed
    <2>5. QED BY <1>1, <2>1, <2>2, <2>3, <2>4
  <1>5. QED BY <1>3, <1>4

(* A step that leaves the mutex alone, and no task terminated comes back,  *)
(* keeps who holds it; a waiter may go from its window to the loop.        *)
LEMMA HolderKept ==
    ASSUME Holder, UNCHANGED mutex_t,
           \/ at' = at
           \/ \E t \in Tasks : at[t] = "window" /\ at' = [at EXCEPT ![t] = "loop"],
           \A t \in Tasks : state[t] = "terminated" => state'[t] = "terminated"
    PROVE  Holder'
  <1>1. /\ locked' = locked /\ owner' = owner /\ wait_queue' = wait_queue
    BY DEF mutex_t
  <1>2. /\ at' \in [Tasks -> {"out", "in", "loop", "window"}]
        /\ \A t \in Tasks :
             /\ at'[t] = "in" <=> at[t] = "in"
             /\ at'[t] \in {"loop", "window"} <=> at[t] \in {"loop", "window"}
    BY DEF Holder
  <1>3. MutualExclusion'
    BY <1>1, <1>2 DEF Holder, MutualExclusion
  <1>4. NoLostWakeup'
    BY <1>1, <1>2 DEF Holder, NoLostWakeup, Waiting
  <1>5. QED BY <1>1, <1>2, <1>3, <1>4 DEF Holder

(* scheduler_yield called with the states st and the lists the caller has  *)
(* left, by a task that is not preempted in between.                       *)
LEMMA MYieldPreserves ==
    ASSUME MIInv, pc = "run", NEW st, YieldFrom(st),
           Placed(ready_queue, blocked_queue', sleep_queue', wait_queue, st, NULL),
           \A t \in Tasks : st[t] = "running" => t = current_task,
           \A t \in Tasks : state[t] = "terminated" => st[t] = "terminated",
           UNCHANGED <<pending_task, pc, cursor, waking>>, UNCHANGED mutex_t,
           \/ at' = at
           \/ \E t \in Tasks : at[t] = "window" /\ at' = [at EXCEPT ![t] = "loop"]
    PROVE  MIInv'
  <1>0. Lists /\ Cpu /\ Holder
    BY PartsOf
  <1>1. /\ Placed(ready_queue', blocked_queue', sleep_queue', wait_queue, state', NULL)
        /\ current_task' \in AllTasks
        /\ \A t \in Tasks : state'[t] = "running" => t = current_task'
        /\ current_task' \in Tasks => state'[current_task'] = "running"
        /\ \A t \in Tasks : st[t] = "terminated" => state'[t] = "terminated"
    BY PlacedYield
  <1>2. pending_task = NULL /\ pending_task' = NULL /\ pc' = "run"
    BY <1>0 DEF Cpu
  <1>3. Lists'
    BY <1>1, <1>2 DEF Lists, mutex_t
  <1>4. Cpu'
    BY <1>0, <1>1, <1>2 DEF Cpu
  <1>5. Holder'
    BY <1>0, <1>1, HolderKept
  <1>6. QED BY <1>3, <1>4, <1>5, Together

(* A plain scheduler_yield keeps the invariant.                            *)
LEMMA MPlainYieldPreserves ==
    ASSUME MIInv, pc = "run", YieldFrom(state), UNCHANGED unchangedByYield,
           UNCHANGED <<blocked_queue, sleep_queue>>, UNCHANGED mutex_t,
           \/ at' = at
           \/ \E t \in Tasks : at[t] = "window" /\ at' = [at EXCEPT ![t] = "loop"]
    PROVE  MIInv'
  <1>1. /\ Lists /\ pending_task = NULL
        /\ \A t \in Tasks : state[t] = "running" => t = current_task
    BY PartsOf DEF Cpu
  <1>2. Placed(ready_queue, blocked_queue', sleep_queue', wait_queue, state, NULL)
    BY <1>1 DEF Lists
  <1>3. UNCHANGED <<pending_task, pc, cursor, waking>>
    BY DEF unchangedByYield
  <1>4. QED BY <1>1, <1>2, <1>3, MYieldPreserves

(* scheduler_block_current and scheduler_sleep keep the invariant.         *)
LEMMA MLeavePreserves ==
    ASSUME MIInv, NEW t \in Tasks, UNCHANGED <<mutex_t, at, waking>>,
           scheduler_block_current(t) \/ \E n \in SleepTicks : scheduler_sleep(t, n)
    PROVE  MIInv'
  <1> USE TasksAssumption DEF AllTasks
  <1>1. /\ Lists /\ Cpu
    BY PartsOf
  <1>2. pc = "run" /\ current_task = t /\ state[t] = "running" /\ pending_task = NULL
    BY <1>1 DEF scheduler_block_current, scheduler_sleep, Kernel, Cpu
  <1>3. PICK stb, sts : /\ stb = [state EXCEPT ![t] = "blocked"]
                        /\ sts = [state EXCEPT ![t] = "sleeping"]
    OBVIOUS
  <1>4. /\ Placed(ready_queue, task_queue_push(blocked_queue, t), sleep_queue,
                  wait_queue, stb, NULL)
        /\ Placed(ready_queue, blocked_queue, task_queue_push(sleep_queue, t),
                  wait_queue, sts, NULL)
    BY <1>1, <1>2, <1>3, PlacedLeave DEF Lists
  <1>5. PICK st \in {stb, sts} :
          /\ YieldFrom(st)
          /\ Placed(ready_queue, blocked_queue', sleep_queue', wait_queue, st, NULL)
    <2>1. CASE scheduler_block_current(t)
      <3>1. /\ YieldFrom(stb) /\ sleep_queue' = sleep_queue
            /\ blocked_queue' = task_queue_push(blocked_queue, t)
        BY <2>1, <1>3, Zenon DEF scheduler_block_current
      <3>2. QED BY <1>4, <3>1
    <2>2. CASE \E n \in SleepTicks : scheduler_sleep(t, n)
      <3>1. /\ YieldFrom(sts) /\ blocked_queue' = blocked_queue
            /\ sleep_queue' = task_queue_push(sleep_queue, t)
        BY <2>2, <1>3, Zenon DEF scheduler_sleep
      <3>2. QED BY <1>4, <3>1
    <2>3. QED BY <2>1, <2>2
  <1>6. \A u \in Tasks : /\ st[u] = "running" => u = current_task
                         /\ state[u] = "terminated" => st[u] = "terminated"
    BY <1>1, <1>2, <1>3, <1>5 DEF Cpu, Lists, Placed
  <1>7. UNCHANGED <<pending_task, pc, cursor, waking>> /\ UNCHANGED mutex_t /\ at' = at
    BY DEF scheduler_block_current, scheduler_sleep, unchangedByYield
  <1>8. QED BY <1>2, <1>5, <1>6, <1>7, MYieldPreserves

(* A step that makes a task ready without a switch keeps the invariant:    *)
(* the creation of a task, or the end of a sleep.                          *)
LEMMA MReadyPreserves ==
    ASSUME MIInv, NEW t \in Tasks, state' = [state EXCEPT ![t] = "ready"],
           state[t] \in {"none", "sleeping"},
           Placed(ready_queue', blocked_queue, sleep_queue', wait_queue, state',
                  pending_task),
           cursor' \in Nat \ {0},
           UNCHANGED <<blocked_queue, current_task, pending_task, pc, waking>>,
           UNCHANGED <<mutex_t, at>>
    PROVE  MIInv'
  <1> USE TasksAssumption DEF AllTasks
  <1>1. Lists /\ Cpu /\ Holder
    BY PartsOf
  <1>2. \A u \in Tasks : state'[u] = IF u = t THEN "ready" ELSE state[u]
    BY <1>1 DEF Lists, Placed
  <1>3. Lists'
    BY DEF Lists, mutex_t
  <1>4. Cpu'
    BY <1>1, <1>2 DEF Cpu
  <1>5. Holder'
    BY <1>1, <1>2, HolderKept
  <1>6. QED BY <1>3, <1>4, <1>5, Together

(* The creation of a task keeps the invariant.                             *)
LEMMA MSpawnPreserves ==
    ASSUME MIInv, NEW t \in Tasks, spawn(t), UNCHANGED <<mutex_t, at, waking>>
    PROVE  MIInv'
  <1>1. Lists /\ Cpu
    BY PartsOf
  <1>2. /\ state[t] = "none" /\ state' = [state EXCEPT ![t] = "ready"]
        /\ ready_queue' = task_queue_push(ready_queue, t)
        /\ UNCHANGED <<blocked_queue, sleep_queue, current_task, pending_task,
                       pc, cursor>>
    BY DEF spawn, task_create, scheduler_add_task
  <1>3. t # pending_task
    BY <1>1, <1>2, TasksAssumption DEF Cpu, AllTasks
  <1>4. Placed(ready_queue', blocked_queue, sleep_queue', wait_queue, state', pending_task)
    BY <1>1, <1>2, <1>3, PlacedReady DEF Lists
  <1>5. cursor' \in Nat \ {0}
    BY <1>1, <1>2 DEF Cpu
  <1>6. QED BY <1>2, <1>4, <1>5, MReadyPreserves

(* One turn of the walk over the sleep queue keeps the invariant.          *)
LEMMA MScanPreserves ==
    ASSUME MIInv, scheduler_check_sleeping_tasks, UNCHANGED <<mutex_t, at, waking>>
    PROVE  MIInv'
  <1>1. Lists /\ Cpu /\ Holder
    BY PartsOf
  <1>2. PICK t : t = sleep_queue[cursor]
    OBVIOUS
  <1>3. cursor \in 1..Len(sleep_queue) /\ sleep_queue \in QueueType
    BY <1>1 DEF scheduler_check_sleeping_tasks, Cpu, Lists, Placed, QueueType
  <1>4. t \in Tasks /\ state[t] = "sleeping"
    <2>1. t \in Tasks /\ Contains(sleep_queue, t)
      BY <1>2, <1>3 DEF QueueType, Contains
    <2>2. QED BY <1>1, <2>1 DEF Lists, Placed
  <1>5. UNCHANGED <<blocked_queue, current_task, pending_task, pc, waking>>
    BY DEF scheduler_check_sleeping_tasks
  <1>6. CASE Due(t)
    <2>1. /\ state' = [state EXCEPT ![t] = "ready"] /\ cursor' = cursor
          /\ ready_queue' = task_queue_push(ready_queue, t)
          /\ sleep_queue' = RemoveIndex(sleep_queue, cursor)
      BY <1>2, <1>6, Zenon DEF scheduler_check_sleeping_tasks
    <2>2. t # pending_task
      BY <1>1, <1>4, TasksAssumption DEF Cpu, AllTasks
    <2>3. Placed(ready_queue', blocked_queue, sleep_queue', wait_queue, state', pending_task)
      BY <1>1, <1>2, <1>3, <1>4, <2>1, <2>2, PlacedWake DEF Lists
    <2>4. QED BY <1>1, <1>4, <1>5, <2>1, <2>3, MReadyPreserves DEF Cpu
  <1>7. CASE ~Due(t)
    <2>1. cursor' = cursor + 1 /\ UNCHANGED <<sleep_queue, state, ready_queue>>
      BY <1>2, <1>7, Zenon DEF scheduler_check_sleeping_tasks
    <2>2. Lists'
      BY <1>1, <1>5, <2>1 DEF Lists, mutex_t
    <2>3. Cpu'
      BY <1>1, <1>5, <2>1 DEF Cpu
    <2>4. Holder'
      BY <1>1, <2>1, HolderKept
    <2>5. QED BY <2>2, <2>3, <2>4, Together
  <1>8. QED BY <1>6, <1>7

(* A step that moves no task from one list to another keeps the invariant. *)
LEMMA MQuietPreserves ==
    ASSUME MIInv,
           UNCHANGED <<ready_queue, blocked_queue, sleep_queue, state,
                       current_task, pending_task, waking>>,
           UNCHANGED <<mutex_t, at>>, cursor' \in Nat \ {0},
           (pc # "commit" /\ pc' # "commit") \/ pc' = pc
    PROVE  MIInv'
  <1>1. Lists /\ Cpu /\ Holder
    BY PartsOf
  <1>2. Lists'
    BY <1>1 DEF Lists, mutex_t
  <1>3. Cpu'
    BY <1>1 DEF Cpu
  <1>4. Holder'
    BY <1>1, HolderKept
  <1>5. QED BY <1>2, <1>3, <1>4, Together

(* task_exit keeps the invariant up to its yield: the task stays current.  *)
LEMMA MExitPreserves ==
    ASSUME MIInv, NEW t \in Tasks, task_exit(t), UNCHANGED <<mutex_t, at, waking>>
    PROVE  MIInv'
  <1> USE TasksAssumption DEF AllTasks
  <1>1. Lists /\ Cpu /\ Holder
    BY PartsOf
  <1>2. /\ pc = "run" /\ current_task = t /\ state[t] = "running"
        /\ state' = [state EXCEPT ![t] = "terminated"]
        /\ UNCHANGED <<ready_queue, blocked_queue, sleep_queue, current_task,
                       pending_task, pc, cursor>>
    BY DEF task_exit, Kernel
  <1>3. \A u \in Tasks : state'[u] = IF u = t THEN "terminated" ELSE state[u]
    BY <1>1, <1>2 DEF Lists, Placed
  <1>4. Lists'
    <2>1. Placed(ready_queue, blocked_queue, sleep_queue, wait_queue,
                 [state EXCEPT ![t] = "terminated"], pending_task)
      BY <1>1, <1>2, PlacedLeave DEF Lists
    <2>2. QED BY <1>2, <2>1 DEF Lists, mutex_t
  <1>5. Cpu'
    BY <1>1, <1>2, <1>3 DEF Cpu
  <1>6. Holder'
    BY <1>1, <1>3, HolderKept
  <1>7. QED BY <1>4, <1>5, <1>6, Together

(* A preemption takes the head of the ready queue, and queues the task it  *)
(* interrupts unless that one is a waiter in its window or has terminated. *)
LEMMA MPreemptPreserves ==
    ASSUME MIInv, scheduler_get_next_interrupt_rsp, UNCHANGED <<mutex_t, at, waking>>
    PROVE  MIInv'
  <1> USE TasksAssumption DEF AllTasks
  <1>1. Lists /\ Cpu /\ Holder
    BY PartsOf
  <1>2. PICK h, tl : h = Head(ready_queue) /\ tl = Tail(ready_queue)
    OBVIOUS
  <1>3. ready_queue # <<>> /\ pc = "pick" /\ pending_task = NULL
    BY <1>1 DEF scheduler_get_next_interrupt_rsp, NextTask, Cpu
  <1>4. /\ h \in Tasks /\ state[h] = "ready"
        /\ Placed(tl, blocked_queue, sleep_queue, wait_queue, state, h)
    BY <1>1, <1>2, <1>3, PlacedTake DEF Lists
  <1>5. /\ ready_queue' = IF StillRunning(state)
                          THEN task_queue_push(tl, current_task) ELSE tl
        /\ state' = IF StillRunning(state)
                    THEN [state EXCEPT ![current_task] = "ready"] ELSE state
        /\ pending_task' = h /\ pc' = "commit"
        /\ UNCHANGED <<blocked_queue, sleep_queue, current_task, cursor>>
    BY <1>2, <1>3, Zenon DEF scheduler_get_next_interrupt_rsp, NextTask
  <1>6. CASE StillRunning(state)
    <2>1. current_task \in Tasks /\ state[current_task] = "running" /\ current_task # h
      BY <1>4, <1>6 DEF StillRunning
    <2>2. Lists'
      <3>1. Placed(task_queue_push(tl, current_task), blocked_queue, sleep_queue,
                   wait_queue, [state EXCEPT ![current_task] = "ready"], h)
        BY <1>4, <2>1, PlacedReady
      <3>2. QED BY <1>5, <1>6, <3>1 DEF Lists, mutex_t
    <2>3. \A u \in Tasks : state'[u] = IF u = current_task THEN "ready" ELSE state[u]
      BY <1>1, <1>5, <1>6, <2>1 DEF Lists, Placed
    <2>4. Cpu'
      BY <1>1, <1>4, <1>5, <2>1, <2>3 DEF Cpu
    <2>5. Holder'
      BY <1>1, <2>1, <2>3, HolderKept
    <2>6. QED BY <2>2, <2>4, <2>5, Together
  <1>7. CASE ~StillRunning(state)
    <2>1. UNCHANGED state /\ ready_queue' = tl
      BY <1>5, <1>7
    <2>2. Lists'
      BY <1>4, <1>5, <2>1 DEF Lists, mutex_t
    <2>3. Cpu'
      BY <1>1, <1>3, <1>4, <1>5, <1>7, <2>1 DEF Cpu, StillRunning
    <2>4. Holder'
      BY <1>1, <2>1, HolderKept
    <2>5. QED BY <2>2, <2>3, <2>4, Together
  <1>8. QED BY <1>6, <1>7

(* The task that was taken becomes current_task.                           *)
LEMMA MCommitPreserves ==
    ASSUME MIInv, scheduler_commit_pending_task, UNCHANGED <<mutex_t, at, waking>>
    PROVE  MIInv'
  <1> USE TasksAssumption DEF AllTasks
  <1>1. Lists /\ Cpu /\ Holder
    BY PartsOf
  <1>2. PICK p : p = pending_task
    OBVIOUS
  <1>3. /\ p \in Tasks /\ state[p] = "ready" /\ pc = "commit"
        /\ current_task' = p /\ pending_task' = NULL /\ pc' = "run"
        /\ state' = [state EXCEPT ![p] = "running"]
        /\ UNCHANGED <<ready_queue, blocked_queue, sleep_queue, cursor>>
    BY <1>1, <1>2 DEF scheduler_commit_pending_task, Cpu
  <1>4. \A u \in Tasks : state'[u] = IF u = p THEN "running" ELSE state[u]
    BY <1>1, <1>3 DEF Lists, Placed
  <1>5. Lists'
    <2>1. Placed(ready_queue, blocked_queue, sleep_queue, wait_queue,
                 [state EXCEPT ![p] = "running"], NULL)
      BY <1>1, <1>2, <1>3, PlacedRun DEF Lists
    <2>2. QED BY <1>3, <2>1 DEF Lists, mutex_t
  <1>6. Cpu'
    BY <1>1, <1>3, <1>4 DEF Cpu
  <1>7. Holder'
    BY <1>1, <1>3, <1>4, HolderKept
  <1>8. QED BY <1>5, <1>6, <1>7, Together

(* mutex_lock keeps the invariant: the caller takes a mutex nobody holds,  *)
(* has been handed it, or becomes a waiter that is still current_task.     *)
LEMMA LockPreserves ==
    ASSUME MIInv, NEW t \in Tasks, mutex_lock(t)
    PROVE  MIInv'
  <1> USE TasksAssumption DEF AllTasks
  <1>1. Lists /\ Cpu /\ Holder
    BY PartsOf
  <1>2. /\ pc = "run" /\ current_task = t /\ state[t] = "running"
        /\ at[t] \in {"out", "in", "loop"}
        /\ UNCHANGED <<ready_queue, blocked_queue, sleep_queue, current_task,
                       pending_task, waking, pc, cursor>>
    BY DEF mutex_lock, Kernel
  <1>3. ~Contains(wait_queue, t)
    BY <1>1, <1>2 DEF Lists, Placed
  <1>4. CASE MayTake(t)
    <2>1. /\ locked' = TRUE /\ owner' = t /\ at' = [at EXCEPT ![t] = "in"]
          /\ UNCHANGED <<state, wait_queue>>
      BY <1>4, Zenon DEF mutex_lock
    <2>2. Lists'
      BY <1>1, <1>2, <2>1 DEF Lists
    <2>3. /\ at' \in [Tasks -> {"out", "in", "loop", "window"}]
          /\ \A u \in Tasks : at'[u] = IF u = t THEN "in" ELSE at[u]
      BY <1>1, <2>1 DEF Holder
    <2>4. Cpu'
      BY <1>1, <1>2, <2>1, <2>3 DEF Cpu
    <2>5. owner \in {t, NULL}
      BY <1>1, <1>4 DEF MayTake, Holder, NoLostWakeup
    <2>6. MutualExclusion'
      BY <1>1, <2>1, <2>3, <2>5 DEF Holder, MutualExclusion
    <2>7. NoLostWakeup'
      <3>1. \A u \in Tasks \ {t} : owner # u
        BY <2>5
      <3>2. QED BY <1>1, <1>3, <2>1, <2>3, <3>1 DEF Holder, NoLostWakeup, Waiting
    <2>8. Holder'
      BY <2>1, <2>3, <2>6, <2>7 DEF Holder
    <2>9. QED BY <2>2, <2>4, <2>8, Together
  <1>5. CASE ~MayTake(t)
    <2>1. /\ state' = [state EXCEPT ![t] = "blocked"]
          /\ wait_queue' = task_queue_push(wait_queue, t)
          /\ at' = [at EXCEPT ![t] = "window"] /\ UNCHANGED <<locked, owner>>
      BY <1>5, Zenon DEF mutex_lock
    <2>2. Lists'
      <3>1. Placed(ready_queue, blocked_queue, sleep_queue,
                   task_queue_push(wait_queue, t),
                   [state EXCEPT ![t] = "blocked"], pending_task)
        BY <1>1, <1>2, PlacedLeave DEF Lists
      <3>2. QED BY <1>2, <2>1, <3>1 DEF Lists
    <2>3. /\ at' \in [Tasks -> {"out", "in", "loop", "window"}]
          /\ \A u \in Tasks : at'[u] = IF u = t THEN "window" ELSE at[u]
          /\ \A u \in Tasks : state'[u] = IF u = t THEN "blocked" ELSE state[u]
      BY <1>1, <2>1 DEF Holder, Lists, Placed
    <2>4. Cpu'
      BY <1>1, <1>2, <2>3 DEF Cpu
    <2>5. locked /\ owner # t
      BY <1>5 DEF MayTake
    <2>6. \A u : Contains(wait_queue', u) <=> Contains(wait_queue, u) \/ u = t
      BY <1>1, <2>1, PushFacts DEF Lists, Placed
    <2>7. MutualExclusion'
      BY <1>1, <1>2, <2>1, <2>3 DEF Holder, MutualExclusion
    <2>8. NoLostWakeup'
      BY <1>1, <2>1, <2>3, <2>5, <2>6 DEF Holder, NoLostWakeup, Waiting
    <2>9. Holder'
      BY <1>1, <2>1, <2>3, <2>7, <2>8 DEF Holder
    <2>10. QED BY <2>2, <2>4, <2>9, Together
  <1>6. QED BY <1>4, <1>5

(* mutex_unlock keeps the invariant: the mutex becomes free, or it and the *)
(* wakeup go to the waiter that has waited longest.                        *)
LEMMA UnlockPreserves ==
    ASSUME MIInv, NEW t \in Tasks, mutex_unlock(t)
    PROVE  MIInv'
  <1> USE TasksAssumption DEF AllTasks
  <1>1. Lists /\ Cpu /\ Holder
    BY PartsOf
  <1>2. /\ pc = "run" /\ current_task = t /\ state[t] = "running" /\ owner = t
        /\ at' = [at EXCEPT ![t] = "out"]
        /\ UNCHANGED <<sleep_queue, current_task, pending_task, waking, pc, cursor>>
    BY DEF mutex_unlock, Kernel
  <1>3. /\ at' \in [Tasks -> {"out", "in", "loop", "window"}]
        /\ \A u \in Tasks : at'[u] = IF u = t THEN "out" ELSE at[u]
    BY <1>1, <1>2 DEF Holder
  <1>4. locked /\ t # NULL /\ ~Contains(wait_queue, t)
    BY <1>1, <1>2 DEF Holder, NoLostWakeup, Waiting
  <1>5. CASE NoWaiters
    <2>1. /\ wait_queue = <<>> /\ locked' = FALSE /\ owner' = NULL
          /\ UNCHANGED <<wait_queue, blocked_queue, state, ready_queue>>
      BY <1>5, Zenon DEF mutex_unlock, NoWaiters
    <2>2. Lists'
      BY <1>1, <1>2, <2>1 DEF Lists
    <2>3. Cpu'
      BY <1>1, <1>2, <1>3, <2>1 DEF Cpu
    <2>4. \A u : ~Contains(wait_queue, u)
      BY <2>1 DEF Contains
    <2>5. MutualExclusion'
      BY <1>1, <1>2, <1>3, <2>1 DEF Holder, MutualExclusion
    <2>6. NoLostWakeup'
      BY <1>1, <1>2, <1>3, <2>1, <2>4 DEF Holder, NoLostWakeup, Waiting
    <2>7. Holder'
      BY <1>3, <2>1, <2>5, <2>6 DEF Holder
    <2>8. QED BY <2>2, <2>3, <2>7, Together
  <1>6. CASE ~NoWaiters
    <2>1. PICK next : next = Head(wait_queue)
      OBVIOUS
    <2>2. wait_queue \in QueueType /\ wait_queue # <<>> /\ Distinct(wait_queue)
      BY <1>1, <1>6 DEF Lists, Placed, NoWaiters
    <2>3. next \in Tasks /\ Contains(wait_queue, next)
      BY <2>1, <2>2, PopFacts
    <2>4. state[next] = "blocked" /\ next # t /\ next # pending_task
      BY <1>1, <1>2, <2>3 DEF Lists, Placed, Cpu
    <2>5. /\ wait_queue' = task_queue_remove(wait_queue, next)
          /\ owner' = next /\ locked' = locked
          /\ blocked_queue' = task_queue_remove(blocked_queue, next)
          /\ state' = [state EXCEPT ![next] = "ready"]
          /\ ready_queue' = task_queue_push(ready_queue, next)
      BY <1>6, <2>1, <2>4, Zenon DEF mutex_unlock, Wakeable
    <2>6. Lists'
      BY <1>1, <1>2, <2>3, <2>4, <2>5, PlacedWake DEF Lists
    <2>7. \A u \in Tasks : state'[u] = IF u = next THEN "ready" ELSE state[u]
      BY <1>1, <2>5 DEF Lists, Placed
    <2>8. Cpu'
      BY <1>1, <1>2, <1>3, <2>4, <2>7 DEF Cpu
    <2>9. \A u : Contains(wait_queue', u) <=> Contains(wait_queue, u) /\ u # next
      BY <2>2, <2>5, RemoveFacts
    <2>10. MutualExclusion'
      BY <1>1, <1>2, <1>3, <2>4, <2>7 DEF Holder, MutualExclusion
    <2>11. NoLostWakeup'
      <3>1. \A u \in Tasks : at'[u] \in {"loop", "window"} =>
                Contains(wait_queue', u) \/ u = next
        BY <1>1, <1>2, <1>3, <2>9 DEF Holder, NoLostWakeup, Waiting
      <3>2. QED BY <1>4, <2>3, <2>5, <2>9, <3>1 DEF NoLostWakeup, Waiting
    <2>12. Holder'
      BY <1>1, <1>3, <2>3, <2>5, <2>10, <2>11 DEF Holder
    <2>13. QED BY <2>6, <2>8, <2>12, Together
  <1>7. QED BY <1>5, <1>6

(* The scheduler's own steps keep the invariant.                           *)
LEMMA SchedulerStepPreserves ==
    ASSUME MIInv, SchedulerStep
    PROVE  MIInv'
  <1>0. Cpu /\ UNCHANGED <<mutex_t, at, waking>>
    BY PartsOf DEF SchedulerStep
  <1>1. ASSUME pit_irq_handler \/ other_irq \/ scheduler_preempt
               \/ scheduler_save_interrupt_context \/ no_switch
               \/ \E t \in Tasks : process_exec(t)
        PROVE  MIInv'
    <2>1. /\ UNCHANGED <<ready_queue, blocked_queue, sleep_queue, state,
                         current_task, pending_task>>
          /\ cursor' \in {1, cursor}
          /\ (pc # "commit" /\ pc' # "commit") \/ pc' = pc
      BY <1>1 DEF pit_irq_handler, other_irq, scheduler_preempt,
                  scheduler_save_interrupt_context, no_switch, process_exec
    <2>2. QED BY <1>0, <2>1, MQuietPreserves DEF Cpu
  <1>2. ASSUME boot_yield \/ idle_yield
                  \/ \E t \in Tasks : scheduler_yield(t) \/ task_exit_yield(t)
        PROVE  MIInv'
    <2>1. /\ pc = "run" /\ YieldFrom(state) /\ UNCHANGED unchangedByYield
          /\ UNCHANGED <<blocked_queue, sleep_queue>>
      BY <1>2, Zenon DEF boot_yield, idle_yield, scheduler_yield,
                         task_exit_yield, Kernel
    <2>2. QED BY <1>0, <2>1, MPlainYieldPreserves
  <1>3. ASSUME NEW w \in Wakers
        PROVE  ~scheduler_unblock(w) /\ \A t \in Tasks : ~scheduler_unblock_check(w, t)
    <2>1. waking \in [Wakers -> {NULL}] /\ waking' = waking
      BY <1>0 DEF Cpu
    <2>2. ~scheduler_unblock(w)
      BY <2>1 DEF scheduler_unblock, MidUnblock
    <2>3. ASSUME NEW t \in Tasks, scheduler_unblock_check(w, t) PROVE FALSE
      <3>1. waking' = [waking EXCEPT ![w] = t]
        BY <2>3 DEF scheduler_unblock_check
      <3>2. QED BY <2>1, <3>1, TasksAssumption DEF AllTasks
    <2>4. QED BY <2>2, <2>3
  <1>4. CASE Interrupts
    BY <1>0, <1>1, <1>4, MScanPreserves, MPreemptPreserves, MCommitPreserves,
       Zenon DEF Interrupts, InterruptPath
  <1>5. CASE TaskCode
    <2>1. ASSUME NEW t \in Tasks, spawn(t) PROVE MIInv'
      BY <1>0, <2>1, MSpawnPreserves
    <2>2. ASSUME NEW t \in Tasks, task_exit(t) PROVE MIInv'
      BY <1>0, <2>2, MExitPreserves
    <2>3. ASSUME NEW t \in Tasks,
                 scheduler_block_current(t) \/ \E n \in SleepTicks : scheduler_sleep(t, n)
          PROVE  MIInv'
      BY <1>0, <2>3, MLeavePreserves
    <2>4. QED BY <1>1, <1>2, <1>3, <1>5, <2>1, <2>2, <2>3, Zenon DEF TaskCode
  <1>6. QED BY <1>4, <1>5 DEF SchedulerStep

(* The invariant of the mutex and the scheduler together, for any number   *)
(* of tasks that lock, wait, sleep, block, exit and are preempted anywhere.*)
THEOREM MutexInvariance == MSpec => []MIInv
  <1>1. MInit => MIInv
    <2> SUFFICES ASSUME MInit PROVE MIInv
      OBVIOUS
    <2> USE TasksAssumption DEF AllTasks
    <2>1. MTypeOK /\ IdleInv
      <3>1. /\ state = [t \in AllTasks |-> IF t = Idle THEN "idle" ELSE "none"]
            /\ at = [t \in Tasks |-> "out"] /\ cursor = 1
            /\ ready_queue = <<>> /\ blocked_queue = <<>>
            /\ sleep_queue = <<>> /\ wait_queue = <<>>
            /\ current_task = NULL /\ pending_task = NULL /\ owner = NULL
            /\ locked \in BOOLEAN
        BY DEF MInit, Init
      <3>2. state \in [AllTasks -> task_state_t \cup {"none"}]
        BY <3>1 DEF task_state_t
      <3>3. QED BY <3>1, <3>2 DEF MTypeOK, IdleInv, QueueType
    <2>2. WaiterPlacement /\ NoLostWakeup /\ MutualExclusion
      BY DEF MInit, Init, WaiterPlacement, NoLostWakeup, MutualExclusion,
             Distinct, Waiting, OnReady, OnBlocked, OnSleep, Contains
    <2>3. QED BY <2>1, <2>2 DEF MInit, Init, MIInv
  <1>2. MIInv /\ [MNext]_mvars => MIInv'
    <2> SUFFICES ASSUME MIInv, [MNext]_mvars PROVE MIInv'
      OBVIOUS
    <2>1. CASE UNCHANGED mvars
      <3>1. Cpu
        BY PartsOf
      <3>2. /\ UNCHANGED <<ready_queue, blocked_queue, sleep_queue, state,
                           current_task, pending_task, waking>>
            /\ UNCHANGED <<mutex_t, at>> /\ cursor' = cursor /\ pc' = pc
        BY <2>1 DEF mvars, vars
      <3>3. QED BY <3>1, <3>2, MQuietPreserves DEF Cpu
    <2>2. ASSUME NEW t \in Tasks, mutex_lock_yield(t) PROVE MIInv'
      BY <2>2, MPlainYieldPreserves, Zenon DEF mutex_lock_yield
    <2>3. CASE MNext
      BY <2>1, <2>2, <2>3, SchedulerStepPreserves, LockPreserves,
         UnlockPreserves, Zenon DEF MNext, Undetermined
    <2>4. QED BY <2>1, <2>3
  <1>3. QED BY <1>1, <1>2, PTL DEF MSpec

(* No two tasks are between mutex_lock and mutex_unlock at once.           *)
THEOREM MutualExclusionCorrect == MSpec => []MutualExclusion
  <1>1. MIInv => MutualExclusion
    BY DEF MIInv
  <1>2. QED BY <1>1, MutexInvariance, PTL

(* Nobody waits for a mutex that has no owner to hand it on, or that has   *)
(* been handed to him already.                                             *)
THEOREM WakeupCorrect == MSpec => []NoLostWakeup
  <1>1. MIInv => NoLostWakeup
    BY DEF MIInv
  <1>2. QED BY <1>1, MutexInvariance, PTL

(* Every task is on exactly the list its state names, the mutex's wait     *)
(* queue included: a waiter preempted before its scheduler_yield is not    *)
(* put on the ready queue as well.                                         *)
THEOREM WaiterPlacementCorrect == MSpec => []WaiterPlacement
  <1>1. MIInv => WaiterPlacement
    BY DEF MIInv
  <1>2. QED BY <1>1, MutexInvariance, PTL
=============================================================================
