---------------------------- MODULE TaskLifecycle ----------------------------
(* What the scheduler promises about tasks, without queues, interrupts or  *)
(* saved contexts: each task moves through its life cycle, one at most is  *)
(* running, and the CPU is given to a task only when it is free or in the  *)
(* very step in which the running task gives it up.                        *)
CONSTANT Tasks

VARIABLE status     \* task_state_t of each task, "none" before task_create

Init == status = [t \in Tasks |-> "none"]

Free == \A t \in Tasks : status[t] # "running"

(* scheduler_add_task *)
Create(t) == status[t] = "none" /\ status' = [status EXCEPT ![t] = "ready"]

(* scheduler_unblock, or the tick at which a sleeper is due *)
Wake(t) ==
    /\ status[t] \in {"blocked", "sleeping"}
    /\ status' = [status EXCEPT ![t] = "ready"]

Released == {"ready", "blocked", "sleeping", "terminated"}

(* The running task t gives up the CPU and is left in state s. *)
Release(t, s) ==
    /\ status[t] = "running"
    /\ status' = [status EXCEPT ![t] = s]

Start(t) ==
    /\ Free
    /\ status[t] = "ready"
    /\ status' = [status EXCEPT ![t] = "running"]

(* A cooperative switch: t gives the CPU to u. *)
Switch(t, s, u) ==
    /\ status[t] = "running" /\ status[u] = "ready"
    /\ status' = [status EXCEPT ![t] = s, ![u] = "running"]

Next ==
    \E t \in Tasks :
        \/ Create(t)
        \/ Wake(t)
        \/ Start(t)
        \/ \E s \in Released : Release(t, s) \/ \E u \in Tasks : Switch(t, s, u)

Spec == Init /\ [][Next]_status
=============================================================================
