----------------------------- MODULE SchedMutex -----------------------------
(***************************************************************************)
(* A mutex of sync/mutex.c used by the tasks of Scheduler.                 *)
(*                                                                         *)
(* The guard of the mutex is an irq_spinlock: interrupts are off while it  *)
(* is held, so on one CPU everything between irq_spin_lock and             *)
(* irq_spin_unlock is one action (module IrqSpinlock looks inside).  A     *)
(* waiter leaves that section with interrupts enabled again and only then  *)
(* calls scheduler_yield: in between it is BLOCKED, on the wait queue, and *)
(* still running, and the timer may preempt it there.                      *)
(*                                                                         *)
(* As in the sources, no process uses a mutex, and mutex_unlock is the one *)
(* caller of scheduler_unblock: waking stays as it is (Wakers may be {}).  *)
(***************************************************************************)
EXTENDS Scheduler

VARIABLES
    locked, owner, wait_queue,   \* the fields of mutex_t
    at      \* where a task is with respect to the mutex: "out", "in" (it has
            \* returned from mutex_lock), "loop" (at the head of mutex_lock's
            \* loop) or "window" (after irq_spin_unlock, before scheduler_yield)

mutex_t == <<locked, owner, wait_queue>>
mvars == <<vars, mutex_t, at>>

MInit ==
    /\ Init
    /\ locked = FALSE /\ owner = NULL /\ wait_queue = <<>>
    /\ at = [t \in Tasks |-> "out"]

(* The scheduler, for a task that is not inside mutex_lock.                *)
SchedulerStep ==
    /\ \/ Interrupts
       \/ /\ current_task \in Tasks => at[current_task] \in {"out", "in"}
          /\ TaskCode
    /\ UNCHANGED <<mutex_t, at, waking>>

(* Mutant: an owner that is not running is taken to have finished.         *)
MayTake_overSuspended(t) ==
    ~locked \/ owner = t \/ state[owner] # "running"

MayTake(t) == ~locked \/ owner = t

(* mutex_lock: the first test of the owner and one turn of the loop.       *)
mutex_lock(t) ==
    /\ Kernel(t) /\ at[t] \in {"out", "in", "loop"}
    /\ IF MayTake(t)
       THEN /\ locked' = TRUE
            /\ owner' = t
            /\ at' = [at EXCEPT ![t] = "in"]
            /\ UNCHANGED <<state, wait_queue>>
       ELSE /\ state' = [state EXCEPT ![t] = "blocked"]
            /\ wait_queue' = task_queue_push(wait_queue, t)
            /\ at' = [at EXCEPT ![t] = "window"]
            /\ UNCHANGED <<locked, owner>>
    /\ UNCHANGED <<ready_queue, blocked_queue, sleep_queue, current_task,
                   pending_task, resume_mode, wake_left, preemption_ticks,
                   preemption_requested, user, waking, cr3, rsp0, pc, cursor,
                   saved, stale, stacks>>

(* The scheduler_yield of a waiter, unless a preemption came first.        *)
mutex_lock_yield(t) ==
    /\ pc = "run" /\ current_task = t /\ t \in Tasks /\ at[t] = "window"
    /\ YieldFrom(state)
    /\ at' = [at EXCEPT ![t] = "loop"]
    /\ UNCHANGED unchangedByYield
    /\ UNCHANGED <<blocked_queue, sleep_queue, mutex_t>>

(* Mutant: a queue of one waiter is taken for an empty one.                *)
NoWaiters_offByOne == Len(wait_queue) <= 1

NoWaiters == wait_queue = <<>>

(* mutex_unlock by the owner (a no-op for any other task), with the        *)
(* scheduler_unblock of the waiter it hands the mutex to.                  *)
mutex_unlock(t) ==
    /\ Kernel(t) /\ at[t] \in {"out", "in"} /\ owner = t
    /\ at' = [at EXCEPT ![t] = "out"]
    /\ IF NoWaiters
       THEN /\ locked' = FALSE /\ owner' = NULL
            /\ UNCHANGED <<wait_queue, blocked_queue, state, resume_mode,
                           ready_queue>>
       ELSE LET next == Head(wait_queue) IN
            /\ wait_queue' = task_queue_remove(wait_queue, next)
            /\ owner' = next
            /\ UNCHANGED locked
            /\ IF Wakeable(next)
               THEN /\ blocked_queue' = task_queue_remove(blocked_queue, next)
                    /\ state' = [state EXCEPT ![next] = "ready"]
                    /\ resume_mode' = scheduler_reset_resume_state(resume_mode, next)
                    /\ ready_queue' = task_queue_push(ready_queue, next)
               ELSE UNCHANGED <<blocked_queue, state, resume_mode, ready_queue>>
    /\ UNCHANGED <<sleep_queue, current_task, pending_task, wake_left,
                   preemption_ticks, preemption_requested, user, waking, cr3,
                   rsp0, pc, cursor, saved, stale, stacks>>

(* Once a task has been resumed from a stale cpu_context_t it runs on      *)
(* stack frames that have since been overwritten: as after a crash, what   *)
(* follows is not determined by the code, and nothing is said about it.    *)
Undetermined == (stale \/ crashed) /\ UNCHANGED mvars

MNext ==
    \/ /\ ~stale /\ ~crashed
       /\ \/ SchedulerStep
          \/ \E t \in Tasks \ Processes :
                mutex_lock(t) \/ mutex_lock_yield(t) \/ mutex_unlock(t)
    \/ Undetermined

MSpec == MInit /\ [][MNext]_mvars

(* For the progress of waiters: the owner does not block for good or exit, *)
(* and does call mutex_unlock; mutex_lock goes on when it is scheduled.    *)
OwnerStays ==
    \A t \in Tasks : owner = t => state'[t] \notin {"blocked", "terminated"}

Alone(A) == ~stale /\ ~crashed /\ A /\ UNCHANGED <<mutex_t, at>>

MFairness ==
    /\ SF_mvars(Alone(pit_irq_handler))
    /\ WF_mvars(Alone(InterruptPath))
    /\ SF_mvars(Alone(idle_yield))
    /\ SF_mvars(Alone(boot_yield))
    /\ \A t \in Tasks : SF_mvars(mutex_unlock(t))
    /\ \A t \in Tasks : SF_mvars(at[t] = "loop" /\ mutex_lock(t))

MFairSpec == MInit /\ [][MNext /\ OwnerStays]_mvars /\ MFairness

-----------------------------------------------------------------------------
(* Properties *)

Waiting(t) == Contains(wait_queue, t)

(* A task that has returned from mutex_lock and not yet called             *)
(* mutex_unlock owns the mutex: no two tasks are inside at once.  This     *)
(* must survive the hand-off of mutex_unlock, where the new owner is still *)
(* suspended, and a waiter preempted before its scheduler_yield.           *)
MutualExclusion ==
    \A t \in Tasks : at[t] = "in" /\ state[t] # "terminated" => owner = t

(* No wakeup is lost: while there are waiters the mutex has an owner to    *)
(* hand it on, the owner is not waiting for itself, and a task that will   *)
(* find itself at the head of the loop is either still queued or owns the  *)
(* mutex, so it never waits for something that has already happened.       *)
NoLostWakeup ==
    /\ locked <=> owner # NULL
    /\ wait_queue # <<>> => locked
    /\ owner # NULL => ~Waiting(owner)
    /\ \A t \in Tasks :
         at[t] \in {"loop", "window"} => (Waiting(t) \/ owner = t)

(* TaskPlacement with the wait queue of the mutex as a fourth list.        *)
WaiterPlacement ==
    /\ Distinct(ready_queue) /\ Distinct(blocked_queue)
    /\ Distinct(sleep_queue) /\ Distinct(wait_queue)
    /\ \A t \in Tasks :
         /\ OnReady(t) <=> state[t] = "ready" /\ t # pending_task
         /\ OnBlocked(t) \/ Waiting(t) <=> state[t] = "blocked"
         /\ ~(OnBlocked(t) /\ Waiting(t))
         /\ OnSleep(t) <=> state[t] = "sleeping"
         /\ state[t] = "running" => t = current_task
    /\ current_task \in Tasks =>
         \/ state[current_task] = "terminated"
         \/ state[current_task] = "blocked" /\ at[current_task] = "window"
         \/ state[current_task] = IF pc = "commit" THEN "ready" ELSE "running"
    /\ (pc = "commit") <=> (pending_task # NULL)

(* The strengthening that makes these three inductive: the types, what is  *)
(* known of the idle task and of a task on its way to the CPU, and that no *)
(* task is inside a scheduler_unblock of its own.                          *)
MTypeOK ==
    /\ ready_queue \in QueueType /\ blocked_queue \in QueueType
    /\ sleep_queue \in QueueType /\ wait_queue \in QueueType
    /\ current_task \in AllTasks \cup {NULL}
    /\ pending_task \in Tasks \cup {NULL}
    /\ state \in [AllTasks -> task_state_t \cup {"none"}]
    /\ cursor \in Nat \ {0}
    /\ locked \in BOOLEAN /\ owner \in Tasks \cup {NULL}
    /\ at \in [Tasks -> {"out", "in", "loop", "window"}]

MIInv ==
    /\ MTypeOK /\ IdleInv
    /\ pending_task # NULL => state[pending_task] = "ready"
    /\ waking \in [Wakers -> {NULL}]
    /\ MutualExclusion /\ NoLostWakeup /\ WaiterPlacement

(* Every waiter is eventually handed the mutex, in spite of the others     *)
(* locking it again and again (mutex_unlock passes it to the head of the   *)
(* queue instead of freeing it).                                           *)
WaiterServed == \A t \in Tasks : Waiting(t) ~> (owner = t \/ stale \/ crashed)
=============================================================================
