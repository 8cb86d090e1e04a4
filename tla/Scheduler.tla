------------------------------ MODULE Scheduler ------------------------------
(***************************************************************************)
(* The task scheduler of ZenithOS: scheduler/scheduler.c, scheduler/task.c,*)
(* scheduler/idle.c, the queue operations of scheduler/queue.c they use,   *)
(* the timer handler of hal/pit.c, and the tail of the interrupt entry in  *)
(* cpu/isr.asm through which a preemption is carried out.                  *)
(*                                                                         *)
(* One CPU.  Code that runs with interrupts disabled (interrupt_save, or   *)
(* the body of an interrupt gate) cannot be interleaved with anything, so  *)
(* each such section is one action; the interrupt path is split into its   *)
(* calls because each of them reads what the previous one left.  Code that *)
(* runs with interrupts enabled can be preempted between any two actions:  *)
(* scheduler_unblock (which tests the state before it disables interrupts) *)
(* and task_exit (which sets the state before it yields) are two actions.  *)
(***************************************************************************)
EXTENDS Naturals, Sequences

CONSTANTS
    Tasks,                  \* the task_t's that task_create may return
    Processes,              \* the tasks whose task->process is not NULL
    Wakers,                 \* the tasks that may call scheduler_unblock
    Idle,                   \* the idle task
    NULL,                   \* the null pointer; current_task during boot
    SleepTicks,             \* arguments of scheduler_sleep
    SCHEDULER_TIME_SLICE    \* ticks of a time slice (scheduler/config.h)

AllTasks == Tasks \cup {Idle}

ASSUME TasksAssumption ==
    /\ Processes \subseteq Tasks
    /\ Wakers \subseteq Tasks
    /\ Idle \notin Tasks
    /\ NULL \notin AllTasks
    /\ NULL \notin {"context", "interrupt", "user"}

(* scheduler_unblock is not safe against a second caller for the same task *)
(* (its state test precedes interrupt_save), so one task does all waking.  *)
ASSUME OneWaker == \A v, w \in Wakers : v = w

ASSUME NumbersAssumption ==
    /\ SleepTicks \subseteq Nat
    /\ SCHEDULER_TIME_SLICE \in Nat \ {0}

VARIABLES
    ready_queue, blocked_queue, sleep_queue,   \* the intrusive lists
    current_task, pending_task,
    state,                  \* task->state; "none" before task_create
    resume_mode,            \* task->resume_mode, with interrupt_rsp [1]
    wake_left,              \* task->wake_tick - system_ticks, at least 0
    preemption_ticks, preemption_requested,
    user,                   \* is_user_process and user_started [2]
    waking,                 \* the task a waker has found BLOCKED, or NULL
    cr3, rsp0,              \* address space and TSS stack of the CPU
    pc,                     \* "run", or the next call of the interrupt path
    cursor,                 \* position of the walk over sleep_queue
    saved,                  \* history: where a task's execution was saved
    stale,                  \* history: a task was resumed from elsewhere
    stack,                  \* history: whose stack a saved execution is on [3]
    spoiled,                \* history: tasks whose saved execution is overwritten
    misplaced,              \* history: ring 3 interrupted with another's RSP0
    crashed                 \* history: a spoiled execution was resumed

(* [1]  interrupt_rsp is non-NULL exactly when resume_mode is INTERRUPT:   *)
(*      every assignment in the code sets both.                            *)
(* [2]  "kernel": not a user process; "exec": process_exec succeeded but   *)
(*      user mode has not been entered; "started": the task is in ring 3,  *)
(*      where only an interrupt can reach the scheduler.                   *)
(* [3]  The CPU pushes the frame of an interrupt, and the handler runs, on *)
(*      the stack in use, or for code in ring 3 on the stack at RSP0 of    *)
(*      the TSS, from its top, over whatever is there.                     *)

stacks == <<stack, spoiled, misplaced, crashed>>

vars == <<ready_queue, blocked_queue, sleep_queue, current_task, pending_task,
          state, resume_mode, wake_left, preemption_ticks,
          preemption_requested, user, waking, cr3, rsp0, pc, cursor, saved,
          stale, stacks>>

task_state_t == {"ready", "running", "blocked", "sleeping", "terminated",
                 "idle"}
task_resume_mode_t == {"context", "interrupt"}

-----------------------------------------------------------------------------
(* scheduler/queue.c.  A queue is a sequence, which is faithful as long as *)
(* a task is on at most one list at a time (TaskPlacement): all lists run  *)
(* through the same task->next.                                            *)

task_queue_push(q, t) == Append(q, t)

RemoveIndex(q, i) ==
    [j \in 1..(Len(q) - 1) |-> IF j < i THEN q[j] ELSE q[j + 1]]

Contains(q, t) == \E i \in 1..Len(q) : q[i] = t

IndexOf(q, t) == CHOOSE i \in 1..Len(q) : q[i] = t

task_queue_remove(q, t) ==
    IF Contains(q, t) THEN RemoveIndex(q, IndexOf(q, t)) ELSE q

-----------------------------------------------------------------------------
(* Boot: scheduler_init has run, no task has been created, and kmain runs  *)
(* with current_task = NULL.                                               *)
Init ==
    /\ ready_queue = <<>> /\ blocked_queue = <<>> /\ sleep_queue = <<>>
    /\ current_task = NULL /\ pending_task = NULL
    /\ state = [t \in AllTasks |-> IF t = Idle THEN "idle" ELSE "none"]
    /\ resume_mode = [t \in AllTasks |-> "context"]
    /\ wake_left = [t \in Tasks |-> 0]
    /\ preemption_ticks = 0 /\ preemption_requested = FALSE
    /\ user = [t \in Processes |-> "kernel"]
    /\ waking = [w \in Wakers |-> NULL]
    /\ cr3 = NULL /\ rsp0 = NULL
    /\ pc = "run" /\ cursor = 1
    /\ saved = [t \in AllTasks |-> "context"]
    /\ stale = FALSE
    /\ stack = [t \in AllTasks |-> t]
    /\ spoiled = {} /\ misplaced = FALSE /\ crashed = FALSE

InUserMode(t) == t \in Processes /\ user[t] = "started"

MidUnblock(t) == t \in Wakers /\ waking[t] # NULL

(* t executes kernel code with interrupts enabled and may call the API.    *)
Kernel(t) ==
    /\ pc = "run" /\ current_task = t
    /\ t \in Tasks /\ state[t] = "running"
    /\ ~InUserMode(t) /\ ~MidUnblock(t)

(* Code of kmain before its scheduler_yield, or of a task.                 *)
KernelCode == pc = "run" /\ (current_task = NULL \/ \E t \in Tasks : Kernel(t))

-----------------------------------------------------------------------------
(* t, or the interrupt that stops it, writes on the stack of s, where the  *)
(* execution of t will lie; what others have saved there is overwritten.   *)
WritesOn(t, s) ==
    /\ stack' = [u \in AllTasks |-> IF u = t THEN s ELSE stack[u]]
    /\ spoiled' = (spoiled \ {t}) \cup {u \in AllTasks \ {t} : stack[u] = s}

(* The frame that the CPU pushes when an interrupt is delivered.           *)
PushFrame ==
    LET s == IF InUserMode(current_task) THEN rsp0 ELSE current_task IN
    /\ WritesOn(current_task, s)
    /\ misplaced' = (misplaced \/ s # current_task)
    /\ UNCHANGED crashed

-----------------------------------------------------------------------------
(* scheduler_get_next_task *)
NextTask(rq) == IF rq = <<>> THEN Idle ELSE Head(rq)

scheduler_switch_to(next, st) ==
    /\ cr3' = IF next \in Processes THEN next ELSE cr3
    /\ rsp0' = next
    /\ current_task' = next
    /\ preemption_ticks' = 0
    /\ state' = IF next = Idle THEN st ELSE [st EXCEPT ![next] = "running"]

scheduler_schedule(rq, st) ==
    /\ ready_queue' = IF rq = <<>> THEN rq ELSE Tail(rq)
    /\ scheduler_switch_to(NextTask(rq), st)

(* scheduler_schedule, then the switch with which scheduler_yield leaves:  *)
(* context_switch_to_interrupt for a task that holds an interrupt frame,   *)
(* context_switch otherwise, none if the task chosen is the caller.  Both  *)
(* save the caller in its cpu_context_t.  rq, st and rm are the ready      *)
(* queue, the states and the resume modes at the call.                     *)
ScheduleAndSwitch(rq, st, rm) ==
    LET next == NextTask(rq) IN
    /\ scheduler_schedule(rq, st)
    /\ resume_mode' = rm
    /\ IF next = current_task
       THEN UNCHANGED <<saved, stale, stacks>>
       ELSE /\ saved' = [t \in AllTasks |->
                            IF t = current_task THEN "context" ELSE saved[t]]
            /\ stale' = (stale \/ rm[next] # saved[next])
            /\ WritesOn(current_task, current_task)
            /\ crashed' = (crashed \/ next \in spoiled)
            /\ UNCHANGED misplaced

(* Mutant: the test of the state is missing.                               *)
StillRunning_anyState(st) == current_task \in Tasks

(* The task that loses the CPU goes back to the ready queue only if it did *)
(* not give it up to block, sleep or exit.                                 *)
StillRunning(st) == current_task \in Tasks /\ st[current_task] = "running"

(* Mutant: the resume mode keeps what the last interrupt left in it.       *)
scheduler_reset_resume_state_kept(rm, t) == rm

scheduler_reset_resume_state(rm, t) == [rm EXCEPT ![t] = "context"]

(* scheduler_yield called by current_task whose state is st[current_task]. *)
YieldFrom(st) ==
    IF StillRunning(st)
    THEN ScheduleAndSwitch(task_queue_push(ready_queue, current_task),
                           [st EXCEPT ![current_task] = "ready"],
                           scheduler_reset_resume_state(resume_mode, current_task))
    ELSE ScheduleAndSwitch(ready_queue, st, resume_mode)

unchangedByYield == <<pending_task, wake_left, preemption_requested, user,
                      waking, pc, cursor>>

(* task_create: a task that starts at its entry, from the context that     *)
(* context_init has built.  Without memory it returns NULL and nothing     *)
(* changes.                                                                *)
task_create(t) ==
    /\ state[t] = "none"
    /\ wake_left' = [wake_left EXCEPT ![t] = 0]
    /\ resume_mode' = [resume_mode EXCEPT ![t] = "context"]
    /\ saved' = [saved EXCEPT ![t] = "context"]

scheduler_add_task(t) ==
    /\ state' = [state EXCEPT ![t] = "ready"]
    /\ ready_queue' = task_queue_push(ready_queue, t)

(* kmain or a task creates t and makes it known to the scheduler.          *)
spawn(t) ==
    /\ KernelCode
    /\ task_create(t)
    /\ scheduler_add_task(t)
    /\ UNCHANGED <<blocked_queue, sleep_queue, current_task, pending_task,
                   preemption_ticks, preemption_requested, user, waking, cr3,
                   rsp0, pc, cursor, stale, stacks>>

(* process_exec marks the process of t as a user process.                  *)
process_exec(t) ==
    /\ KernelCode
    /\ t \in Processes /\ state[t] # "none" /\ user[t] = "kernel"
    /\ user' = [user EXCEPT ![t] = "exec"]
    /\ UNCHANGED <<ready_queue, blocked_queue, sleep_queue, current_task,
                   pending_task, state, resume_mode, wake_left,
                   preemption_ticks, preemption_requested, waking, cr3, rsp0,
                   pc, cursor, saved, stale, stacks>>

(* scheduler_yield by kmain, which is never resumed.                       *)
boot_yield ==
    /\ pc = "run" /\ current_task = NULL
    /\ YieldFrom(state)
    /\ UNCHANGED unchangedByYield
    /\ UNCHANGED <<blocked_queue, sleep_queue>>

scheduler_yield(t) ==
    /\ Kernel(t)
    /\ YieldFrom(state)
    /\ UNCHANGED unchangedByYield
    /\ UNCHANGED <<blocked_queue, sleep_queue>>

(* The loop of idle_task: scheduler_yield; hlt.                            *)
idle_yield ==
    /\ pc = "run" /\ current_task = Idle
    /\ YieldFrom(state)
    /\ UNCHANGED unchangedByYield
    /\ UNCHANGED <<blocked_queue, sleep_queue>>

scheduler_block_current(t) ==
    /\ Kernel(t)
    /\ blocked_queue' = task_queue_push(blocked_queue, t)
    /\ YieldFrom([state EXCEPT ![t] = "blocked"])
    /\ UNCHANGED unchangedByYield
    /\ UNCHANGED sleep_queue

scheduler_sleep(t, ticks) ==
    /\ Kernel(t)
    /\ wake_left' = [wake_left EXCEPT ![t] = ticks]
    /\ sleep_queue' = task_queue_push(sleep_queue, t)
    /\ YieldFrom([state EXCEPT ![t] = "sleeping"])
    /\ UNCHANGED <<pending_task, preemption_requested, user, waking, pc,
                   cursor, blocked_queue>>

(* Mutant: any task that exists is made ready.                             *)
Wakeable_any(t) == state[t] # "none"

Wakeable(t) == state[t] = "blocked"

(* scheduler_unblock up to interrupt_save: the early return is a no-op.    *)
scheduler_unblock_check(w, t) ==
    /\ Kernel(w) /\ w \in Wakers
    /\ Wakeable(t)
    /\ waking' = [waking EXCEPT ![w] = t]
    /\ UNCHANGED <<ready_queue, blocked_queue, sleep_queue, current_task,
                   pending_task, state, resume_mode, wake_left,
                   preemption_ticks, preemption_requested, user, cr3, rsp0,
                   pc, cursor, saved, stale, stacks>>

(* scheduler_unblock from interrupt_save on.                               *)
scheduler_unblock(w) ==
    /\ pc = "run" /\ current_task = w /\ MidUnblock(w)
    /\ state[w] = "running" /\ ~InUserMode(w)
    /\ LET t == waking[w] IN
       /\ blocked_queue' = task_queue_remove(blocked_queue, t)
       /\ state' = [state EXCEPT ![t] = "ready"]
       /\ resume_mode' = scheduler_reset_resume_state(resume_mode, t)
       /\ ready_queue' = task_queue_push(ready_queue, t)
    /\ waking' = [waking EXCEPT ![w] = NULL]
    /\ UNCHANGED <<sleep_queue, current_task, pending_task, wake_left,
                   preemption_ticks, preemption_requested, user, cr3, rsp0,
                   pc, cursor, saved, stale, stacks>>

(* task_exit: the state first, with interrupts enabled ...                 *)
task_exit(t) ==
    /\ Kernel(t)
    /\ state' = [state EXCEPT ![t] = "terminated"]
    /\ UNCHANGED <<ready_queue, blocked_queue, sleep_queue, current_task,
                   pending_task, resume_mode, wake_left, preemption_ticks,
                   preemption_requested, user, waking, cr3, rsp0, pc, cursor,
                   saved, stale, stacks>>

(* ... then scheduler_yield, unless a preemption came first.               *)
task_exit_yield(t) ==
    /\ pc = "run" /\ current_task = t /\ t \in Tasks
    /\ state[t] = "terminated"
    /\ YieldFrom(state)
    /\ UNCHANGED unchangedByYield
    /\ UNCHANGED <<blocked_queue, sleep_queue>>

-----------------------------------------------------------------------------
(* The interrupt path: common_isr_entry of cpu/isr.asm.                    *)

(* Mutant: the tick is not counted.                                        *)
Nearer_lost(n) == n

Nearer(n) == IF n > 0 THEN n - 1 ELSE 0

(* pit_irq_handler: system_ticks++, which brings every wake_tick nearer.   *)
pit_irq_handler ==
    /\ pc = "run"
    /\ wake_left' = [t \in Tasks |-> Nearer(wake_left[t])]
    /\ PushFrame
    /\ pc' = "scan" /\ cursor' = 1
    /\ UNCHANGED <<ready_queue, blocked_queue, sleep_queue, current_task,
                   pending_task, state, resume_mode, preemption_ticks,
                   preemption_requested, user, waking, cr3, rsp0, saved,
                   stale>>

(* Any other interrupt: its handler leaves the scheduler alone, but the    *)
(* tail of the interrupt entry runs all the same.                          *)
other_irq ==
    /\ pc = "run"
    /\ PushFrame
    /\ pc' = "save"
    /\ UNCHANGED <<ready_queue, blocked_queue, sleep_queue, current_task,
                   pending_task, state, resume_mode, wake_left,
                   preemption_ticks, preemption_requested, user, waking, cr3,
                   rsp0, cursor, saved, stale>>

(* Mutant: as if the queue were sorted, only its head is looked at.        *)
Due_headOnly(t) == wake_left[t] = 0 /\ t = Head(sleep_queue)

(* pit_ticks() >= task->wake_tick                                          *)
Due(t) == wake_left[t] = 0

(* One iteration of scheduler_check_sleeping_tasks.                        *)
scheduler_check_sleeping_tasks ==
    /\ pc = "scan" /\ cursor <= Len(sleep_queue)
    /\ LET t == sleep_queue[cursor] IN
       IF Due(t)
       THEN /\ sleep_queue' = RemoveIndex(sleep_queue, cursor)
            /\ state' = [state EXCEPT ![t] = "ready"]
            /\ resume_mode' = scheduler_reset_resume_state(resume_mode, t)
            /\ ready_queue' = task_queue_push(ready_queue, t)
            /\ UNCHANGED cursor
       ELSE /\ cursor' = cursor + 1
            /\ UNCHANGED <<sleep_queue, state, resume_mode, ready_queue>>
    /\ UNCHANGED <<blocked_queue, current_task, pending_task, wake_left,
                   preemption_ticks, preemption_requested, user, waking, cr3,
                   rsp0, pc, saved, stale, stacks>>

(* Mutant: one tick too many.                                              *)
Expired_late(n) == n + 1 > SCHEDULER_TIME_SLICE

Expired(n) == n + 1 >= SCHEDULER_TIME_SLICE

scheduler_preempt ==
    /\ pc = "scan" /\ cursor > Len(sleep_queue)
    /\ IF current_task \in {NULL, Idle}
       THEN UNCHANGED <<preemption_ticks, preemption_requested>>
       ELSE /\ preemption_ticks' = IF Expired(preemption_ticks)
                                   THEN 0 ELSE preemption_ticks + 1
            /\ preemption_requested' =
                   (\/ preemption_requested
                    \/ Expired(preemption_ticks) /\ ready_queue # <<>>)
    /\ pc' = "save" /\ cursor' = 1
    /\ UNCHANGED <<ready_queue, blocked_queue, sleep_queue, current_task,
                   pending_task, state, resume_mode, wake_left, user, waking,
                   cr3, rsp0, saved, stale, stacks>>

(* Mutant: frames of code interrupted in ring 3 are not kept.              *)
KeepsFrame_kernelOnly(t) == t \notin {NULL, Idle} /\ ~InUserMode(t)

KeepsFrame(t) == t \notin {NULL, Idle}

scheduler_save_interrupt_context ==
    /\ pc = "save"
    /\ resume_mode' = IF KeepsFrame(current_task)
                      THEN [resume_mode EXCEPT ![current_task] = "interrupt"]
                      ELSE resume_mode
    /\ pc' = "pick"
    /\ UNCHANGED <<ready_queue, blocked_queue, sleep_queue, current_task,
                   pending_task, state, wake_left, preemption_ticks,
                   preemption_requested, user, waking, cr3, rsp0, cursor,
                   saved, stale, stacks>>

(* scheduler_build_context_interrupt_rsp: for a user process a frame that  *)
(* enters user mode at user_rip, else a trampoline that restores the       *)
(* cpu_context_t of the task (its rsp is never 0).                         *)
BuiltFrame(next) ==
    IF next \in Processes /\ user[next] # "kernel" THEN "user" ELSE "context"

(* The frame scheduler_get_next_interrupt_rsp resumes the task next from:  *)
(* interrupt_rsp is NULL unless resume_mode is INTERRUPT.                  *)
FrameFor(next) ==
    IF next \in Processes /\ user[next] = "exec" THEN BuiltFrame(next)
    ELSE IF resume_mode[next] = "interrupt" THEN "interrupt"
    ELSE IF InUserMode(next) THEN NULL
    ELSE BuiltFrame(next)

(* scheduler_get_next_interrupt_rsp returning NULL: the interrupted code   *)
(* goes on.                                                                *)
no_switch ==
    /\ pc = "pick"
    /\ \/ ~preemption_requested
       \/ NextTask(ready_queue) = Idle
       \/ FrameFor(NextTask(ready_queue)) = NULL
    /\ preemption_requested' = FALSE
    /\ pc' = "run"
    /\ UNCHANGED <<ready_queue, blocked_queue, sleep_queue, current_task,
                   pending_task, state, resume_mode, wake_left,
                   preemption_ticks, user, waking, cr3, rsp0, cursor, saved,
                   stale, stacks>>

(* scheduler_get_next_interrupt_rsp returning a frame.                     *)
scheduler_get_next_interrupt_rsp ==
    LET next    == NextTask(ready_queue)
        frame   == FrameFor(next)
        requeue == StillRunning(state)
    IN
    /\ pc = "pick" /\ preemption_requested /\ next # Idle /\ frame # NULL
    /\ user' = IF frame = "user" THEN [user EXCEPT ![next] = "started"]
                                 ELSE user
    /\ ready_queue' = IF requeue
                      THEN task_queue_push(Tail(ready_queue), current_task)
                      ELSE Tail(ready_queue)
    /\ state' = IF requeue THEN [state EXCEPT ![current_task] = "ready"]
                           ELSE state
    /\ pending_task' = next
    /\ preemption_requested' = FALSE
    /\ pc' = "commit"
    /\ saved' = [t \in AllTasks |->
                    IF t = current_task THEN "interrupt" ELSE saved[t]]
    /\ stale' = (stale \/ (frame # "user" /\ frame # saved[next]))
    /\ IF frame = "user"
       THEN WritesOn(next, next) /\ UNCHANGED crashed
       ELSE /\ crashed' = (crashed \/ next \in spoiled)
            /\ UNCHANGED <<stack, spoiled>>
    /\ waking' = [w \in Wakers |-> IF frame = "user" /\ w = next
                                   THEN NULL ELSE waking[w]]
    /\ UNCHANGED <<blocked_queue, sleep_queue, current_task, resume_mode,
                   wake_left, preemption_ticks, cr3, rsp0, cursor, misplaced>>

(* scheduler_commit_pending_task, POP_REGS, iretq.  Unlike                 *)
(* scheduler_switch_to it leaves CR3 and the TSS stack as they are.        *)
scheduler_commit_pending_task ==
    /\ pc = "commit" /\ pending_task # NULL
    /\ current_task' = pending_task
    /\ preemption_ticks' = 0
    /\ state' = [state EXCEPT ![pending_task] = "running"]
    /\ pending_task' = NULL
    /\ pc' = "run"
    /\ UNCHANGED <<ready_queue, blocked_queue, sleep_queue, resume_mode,
                   wake_left, preemption_requested, user, waking, cr3, rsp0,
                   cursor, saved, stale, stacks>>

-----------------------------------------------------------------------------
InterruptPath ==
    \/ scheduler_check_sleeping_tasks
    \/ scheduler_preempt
    \/ scheduler_save_interrupt_context
    \/ no_switch
    \/ scheduler_get_next_interrupt_rsp
    \/ scheduler_commit_pending_task

Interrupts == pit_irq_handler \/ other_irq \/ InterruptPath

TaskCode ==
    \/ boot_yield
    \/ idle_yield
    \/ \E t \in Tasks :
          \/ spawn(t)
          \/ process_exec(t)
          \/ scheduler_yield(t)
          \/ scheduler_block_current(t)
          \/ \E ticks \in SleepTicks : scheduler_sleep(t, ticks)
          \/ \E w \in Wakers : scheduler_unblock_check(w, t)
          \/ task_exit(t)
          \/ task_exit_yield(t)
    \/ \E w \in Wakers : scheduler_unblock(w)

(* A task resumed from memory that has been overwritten may do anything:   *)
(* what follows is not determined by the code, and nothing is said of it.  *)
Crash == crashed /\ UNCHANGED vars

Next ==
    \/ ~crashed /\ (Interrupts \/ TaskCode)
    \/ Crash

Spec == Init /\ [][Next]_vars

(* The PIT is periodic and its line is the PIC's highest priority, so a    *)
(* tick that becomes due while interrupts are off is delivered as soon as  *)
(* they are on again, before any other line: strong fairness.  Interrupt   *)
(* code runs to its iretq; idle_task loops on scheduler_yield, its hlt     *)
(* being ended by each tick; kmain reaches its scheduler_yield.            *)
Fairness ==
    /\ SF_vars(~crashed /\ pit_irq_handler)
    /\ WF_vars(~crashed /\ InterruptPath)
    /\ SF_vars(~crashed /\ idle_yield)
    /\ SF_vars(~crashed /\ boot_yield)

FairSpec == Spec /\ Fairness

-----------------------------------------------------------------------------
(* Properties *)

QueueType == Seq(Tasks)

(* Every variable has the type its C declaration gives it.                 *)
TypeOK ==
    /\ ready_queue \in QueueType
    /\ blocked_queue \in QueueType
    /\ sleep_queue \in QueueType
    /\ current_task \in AllTasks \cup {NULL}
    /\ pending_task \in Tasks \cup {NULL}
    /\ state \in [AllTasks -> task_state_t \cup {"none"}]
    /\ resume_mode \in [AllTasks -> task_resume_mode_t]
    /\ wake_left \in [Tasks -> Nat]
    /\ preemption_ticks \in Nat
    /\ preemption_ticks < SCHEDULER_TIME_SLICE
    /\ preemption_requested \in BOOLEAN
    /\ user \in [Processes -> {"kernel", "exec", "started"}]
    /\ waking \in [Wakers -> Tasks \cup {NULL}]
    /\ cr3 \in Processes \cup {NULL}
    /\ rsp0 \in AllTasks \cup {NULL}
    /\ pc \in {"run", "scan", "save", "pick", "commit"}
    /\ cursor \in Nat \ {0}
    /\ saved \in [AllTasks -> task_resume_mode_t]
    /\ stale \in BOOLEAN

Distinct(q) == \A i, j \in 1..Len(q) : q[i] = q[j] => i = j

OnReady(t)   == Contains(ready_queue, t)
OnBlocked(t) == Contains(blocked_queue, t)
OnSleep(t)   == Contains(sleep_queue, t)

(* No task is lost and none is on two lists: the lists hold each task once *)
(* and a task is on exactly the list its state names.  A task is on no     *)
(* list while it runs, after it has terminated, and between the pop and    *)
(* the commit of a preemption.  Every list runs through task->next, so a   *)
(* task pushed twice would cut or close a list (queue.c), and one on none  *)
(* would never run again.                                                  *)
TaskPlacement ==
    /\ Distinct(ready_queue) /\ Distinct(blocked_queue) /\ Distinct(sleep_queue)
    /\ \A t \in Tasks :
         /\ OnReady(t) <=> state[t] = "ready" /\ t # pending_task
         /\ OnBlocked(t) <=> state[t] = "blocked"
         /\ OnSleep(t) <=> state[t] = "sleeping"
         /\ state[t] = "running" => t = current_task
    /\ current_task \in Tasks =>
         \/ state[current_task] = "terminated"
         \/ state[current_task] = IF pc = "commit" THEN "ready" ELSE "running"
    /\ pending_task # NULL => state[pending_task] = "ready"
    /\ (pc = "commit") <=> (pending_task # NULL)

(* A task is only ever resumed from the place its execution was last saved *)
(* to: its cpu_context_t if it gave up the CPU in context_switch, its      *)
(* interrupt frame if it was preempted.  resume_mode goes stale whenever   *)
(* an interrupt hits a running task, so this needs every path back to the  *)
(* ready queue to have reset it (scheduler_reset_resume_state) or kept it. *)
ModeKept == ~stale

(* A task is only resumed from where it was saved, and what was saved is   *)
(* intact unless ring 3 was interrupted while RSP0 was the stack of        *)
(* another task.  scheduler_commit_pending_task leaves RSP0 alone, so that *)
(* does happen once a process has been preempted to: the frame then goes   *)
(* over the stack of the task last chosen by scheduler_switch_to.  It is   *)
(* the only way in which one task spoils the saved execution of another.   *)
NoStaleResume == ModeKept /\ (crashed => misplaced)

(* A preemption that was requested is carried out by the same interrupt:   *)
(* the head of the ready queue always has a frame to resume from.          *)
RequestHonoured ==
    /\ pc = "pick" /\ preemption_requested =>
          /\ ready_queue # <<>>
          /\ FrameFor(Head(ready_queue)) # NULL
    /\ pc \in {"run", "scan", "commit"} => ~preemption_requested

(* The walk over the sleep queue leaves no due task behind it, although it *)
(* removes tasks from the very list it is walking.                         *)
NoOverdueSleeper ==
    pc = "scan" =>
        \A i \in 1..Len(sleep_queue) :
            i < cursor => wake_left[sleep_queue[i]] > 0

(* The strengthening that makes the above inductive.  How each task was    *)
(* saved and how it will be resumed:                                       *)
ResumeInv ==
    /\ resume_mode[Idle] = "context" /\ saved[Idle] = "context"
    /\ pc = "pick" /\ current_task \in Tasks =>
          resume_mode[current_task] = "interrupt"
    /\ \A t \in Tasks :
         /\ OnReady(t) => resume_mode[t] = saved[t]
         /\ state[t] \in {"blocked", "sleeping"} => saved[t] = "context"

(* what is known of a task in ring 3, of the idle task, of a preemption    *)
(* request and of a waker inside scheduler_unblock:                        *)
UserInv ==
    \A p \in Processes : user[p] = "started" =>
        /\ state[p] \in {"ready", "running"}
        /\ OnReady(p) => resume_mode[p] = "interrupt"

IdleInv ==
    /\ state[Idle] = "idle"
    /\ \A t \in Tasks : state[t] # "idle"

RequestInv ==
    preemption_requested =>
        pc \in {"save", "pick"} /\ current_task \in Tasks /\ ready_queue # <<>>

WakingInv ==
    \A w \in Wakers : waking[w] # NULL => state[waking[w]] = "blocked"

(* and what has been written over what:                                    *)
StackInv ==
    /\ misplaced \in BOOLEAN /\ crashed \in BOOLEAN
    /\ crashed => misplaced
    /\ ~misplaced => spoiled = {} /\ stack = [t \in AllTasks |-> t]

IInv ==
    /\ TypeOK /\ TaskPlacement /\ ResumeInv /\ UserInv /\ IdleInv
    /\ RequestInv /\ WakingInv /\ ModeKept /\ NoOverdueSleeper

(* The scheduler implements TaskLifecycle: whatever the interleaving of    *)
(* cooperative switches, wakeups and preemptions, every change of a        *)
(* task->state is a step of the life cycle and at most one task runs.      *)
L == INSTANCE TaskLifecycle WITH status <- [t \in Tasks |-> state[t]]

Lifecycle == L!Spec

(* A ready task is eventually given the CPU, whatever the others do:       *)
(* scheduler_preempt takes the CPU from a task that never yields.          *)
ReadyTaskRuns ==
    \A t \in Tasks : (state[t] = "ready") ~> (state[t] = "running" \/ crashed)

(* A sleeping task is eventually woken.                                    *)
SleeperWakes ==
    \A t \in Tasks : (state[t] = "sleeping") ~> (state[t] = "ready" \/ crashed)
=============================================================================
