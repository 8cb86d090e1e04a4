----------------------------- MODULE IrqSpinlock -----------------------------
(***************************************************************************)
(* sync/irq_spinlock.c over sync/spinlock.c and arch/x86_64, one action    *)
(* per instruction that touches the lock or the interrupt flag, for tasks  *)
(* of one CPU that the timer switches between whenever interrupts are on.  *)
(*                                                                         *)
(* irq_was_enabled is a field of the lock, not a local of its holder, and  *)
(* irq_spin_lock writes it before it has disabled interrupts: a task that  *)
(* is switched away there has its value overwritten by the next one.       *)
(*                                                                         *)
(* As in sync/mutex.c, the one user of the lock, callers have interrupts   *)
(* on and do not nest.  Callers with interrupts off would write FALSE and  *)
(* leave a task in front of its cli with interrupts off for good.          *)
(***************************************************************************)
EXTENDS Naturals, FiniteSets

CONSTANT Tasks

ASSUME TasksAssumption == Tasks # {}

VARIABLES
    locked,             \* spinlock_t.locked
    irq_was_enabled,    \* irq_spinlock_t.irq_was_enabled
    current,            \* the task on the CPU
    IF_flag,            \* RFLAGS.IF of each task, saved while it is off the CPU
    rax,                \* what cpu_interrupts_enabled returned to each task
    pc                  \* where each task is

vars == <<locked, irq_was_enabled, current, IF_flag, rax, pc>>

Labels == {"out", "store", "cli", "spin", "held", "restore"}

(* irq_spinlock_init, with tasks that start with interrupts on.            *)
Init ==
    /\ locked = 0
    /\ irq_was_enabled = FALSE
    /\ current \in Tasks
    /\ IF_flag = [t \in Tasks |-> TRUE]
    /\ rax = [t \in Tasks |-> FALSE]
    /\ pc = [t \in Tasks |-> "out"]

Goto(from, to) ==
    /\ pc[current] = from
    /\ pc' = [pc EXCEPT ![current] = to]
    /\ UNCHANGED current

(* Mutant: interrupts go off before the flag is read.                      *)
cpu_interrupts_enabled_late ==
    /\ Goto("out", "store")
    /\ rax' = [rax EXCEPT ![current] = FALSE]
    /\ IF_flag' = [IF_flag EXCEPT ![current] = FALSE]
    /\ UNCHANGED <<locked, irq_was_enabled>>

(* irq_spin_lock: the flag is read, ...                                    *)
cpu_interrupts_enabled ==
    /\ Goto("out", "store")
    /\ rax' = [rax EXCEPT ![current] = IF_flag[current]]
    /\ UNCHANGED <<locked, irq_was_enabled, IF_flag>>

(* ... stored in the lock, ...                                             *)
store_irq_was_enabled ==
    /\ Goto("store", "cli")
    /\ irq_was_enabled' = rax[current]
    /\ UNCHANGED <<locked, IF_flag, rax>>

(* Mutant: interrupts stay on.                                             *)
cpu_cli_missing ==
    /\ Goto("cli", "spin")
    /\ UNCHANGED <<locked, irq_was_enabled, IF_flag, rax>>

(* ... interrupts go off, ...                                              *)
cpu_cli ==
    /\ Goto("cli", "spin")
    /\ IF_flag' = [IF_flag EXCEPT ![current] = FALSE]
    /\ UNCHANGED <<locked, irq_was_enabled, rax>>

(* ... and spin_lock exchanges until it finds the lock open.               *)
spin_lock ==
    /\ Goto("spin", IF locked = 0 THEN "held" ELSE "spin")
    /\ locked' = 1
    /\ UNCHANGED <<irq_was_enabled, IF_flag, rax>>

(* irq_spin_unlock: the lock is opened with interrupts still off, ...      *)
spin_unlock ==
    /\ Goto("held", "restore")
    /\ locked' = 0
    /\ UNCHANGED <<irq_was_enabled, IF_flag, rax>>

(* ... which the field of the lock says to turn on again.                  *)
restore_interrupts ==
    /\ Goto("restore", "out")
    /\ IF_flag' = [IF_flag EXCEPT ![current] = @ \/ irq_was_enabled]
    /\ UNCHANGED <<locked, irq_was_enabled, rax>>

(* The timer switches tasks, when the running one has interrupts on.       *)
preempt(t) ==
    /\ IF_flag[current]
    /\ t # current
    /\ current' = t
    /\ UNCHANGED <<locked, irq_was_enabled, IF_flag, rax, pc>>

Next ==
    \/ cpu_interrupts_enabled
    \/ store_irq_was_enabled
    \/ cpu_cli
    \/ spin_lock
    \/ spin_unlock
    \/ restore_interrupts
    \/ \E t \in Tasks : preempt(t)

Spec == Init /\ [][Next]_vars

-----------------------------------------------------------------------------
(* Properties *)

(* Every variable has the type its declaration gives it.                   *)
TypeOK ==
    /\ locked \in {0, 1}
    /\ irq_was_enabled \in BOOLEAN
    /\ current \in Tasks
    /\ IF_flag \in [Tasks -> BOOLEAN]
    /\ rax \in [Tasks -> BOOLEAN]
    /\ pc \in [Tasks -> Labels]

(* What runs under the lock is atomic: no other task gets the CPU while    *)
(* one is between irq_spin_lock and irq_spin_unlock.  sync/mutex.c and its *)
(* model SchedMutex depend on it.                                          *)
SectionAtomic ==
    \A t \in Tasks : pc[t] \in {"spin", "held", "restore"} => current = t

(* spin_lock never waits: with interrupts off on the only CPU, the holder  *)
(* could never run to open the lock.                                       *)
NeverSpins == pc[current] = "spin" => locked = 0

(* A caller that had interrupts on has them on after irq_spin_unlock,      *)
(* although other tasks wrote irq_was_enabled between its own write and    *)
(* its read.                                                               *)
InterruptsRestored == \A t \in Tasks : pc[t] = "out" => IF_flag[t]

(* The strengthening that makes these inductive: interrupts are off exactly *)
(* from cli to the end of irq_spin_unlock, which is on the CPU; the lock is *)
(* closed exactly while it is held; and every flag that has been read, or   *)
(* written to the lock by a task that will use it, says interrupts were on. *)
IInv ==
    /\ TypeOK /\ SectionAtomic
    /\ \A t \in Tasks : IF_flag[t] <=> pc[t] \in {"out", "store", "cli"}
    /\ locked = 1 <=> pc[current] = "held"
    /\ \A t \in Tasks : pc[t] = "store" => rax[t]
    /\ \A t \in Tasks : pc[t] \notin {"out", "store"} => irq_was_enabled

=============================================================================
