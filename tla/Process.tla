------------------------------ MODULE Process ------------------------------
(***************************************************************************)
(* The table of processes: process_create with everything that can fail in *)
(* it, process_lookup, process_exit and process_destroy of                 *)
(* process/process.c, with process_map_initial_stack, process_heap_expand  *)
(* and task_create.                                                        *)
(*                                                                         *)
(* A process is the address of its process_t on the heap.  kfree leaves    *)
(* the fields as they are and kmalloc may give the address out again.      *)
(* Only kmain creates processes, so the calls do not interrupt each other. *)
(***************************************************************************)
EXTENDS Naturals, FiniteSets

CONSTANTS
    Objects,            \* addresses of process_t
    MaxPid,             \* bound of the model: processes created
    NULL

ASSUME ProcessAssumption ==
    /\ IsFiniteSet(Objects) /\ NULL \notin Objects
    /\ MaxPid \in Nat

Parts == {"page_table", "stack", "heap"}

VARIABLES
    allocated,      \* objects that are blocks in use on the heap
    fields,         \* fields[p]: pid, next, state, and the parts p was given
    process_list, next_pid,
    tasks,          \* tasks of processes: process and state, by number
    created,        \* history: processes returned to their caller, in use
    taskless,       \* history: whether a task_create has failed
    orphans         \* history: tasks that could still run when their process
                    \* was destroyed

vars == <<allocated, fields, process_list, next_pid, tasks, created, taskless, orphans>>

-----------------------------------------------------------------------------
(* The walk along next from process_list; a list that comes back to where  *)
(* it was has no NULL in it.                                               *)
Walk ==
    LET at[k \in 0..Cardinality(Objects)] ==
            IF k = 0 THEN process_list
            ELSE IF at[k - 1] = NULL THEN NULL ELSE fields[at[k - 1]].next
    IN  at

Ends == Walk[Cardinality(Objects)] = NULL

FirstAt(S) == Walk[CHOOSE k \in S : \A l \in S : k <= l]

(* The first process of the list that has the pid *)
process_lookup(pid) ==
    LET hits == {k \in DOMAIN Walk : Walk[k] # NULL /\ fields[Walk[k]].pid = pid}
    IN  IF hits # {} THEN FirstAt(hits) ELSE IF Ends THEN NULL ELSE "never returns"

Init ==
    /\ allocated = {}
    /\ fields = [p \in Objects |-> [pid |-> 0, next |-> NULL, state |-> NULL, parts |-> {}]]
    /\ process_list = NULL
    /\ next_pid = 1
    /\ tasks = [t \in {} |-> NULL]
    /\ created = {}
    /\ taskless = FALSE
    /\ orphans = {}

(* process_map_initial_stack and process_heap_expand are reached, and find *)
(* a page and tables to map it with.                                       *)
StackMapped(failing) == failing \notin {"page_table", "stack"}
HeapMapped(failing) == failing \notin {"page_table", "stack", "heap"}

(* What process_create was given when it fails for want of something.  The *)
(* page table and the pages are never given back.                          *)
Given(failing) ==
    {part \in Parts : \/ part = "page_table" /\ failing # "page_table"
                      \/ part = "stack" /\ StackMapped(failing)
                      \/ part = "heap" /\ HeapMapped(failing)}

(* Mutant: the result of process_heap_expand is not looked at.             *)
Stops_noHeap(failing) == failing \in {"page_table", "stack", "task"}

(* The failures process_create returns NULL for *)
Stops(failing) == failing \in {"page_table", "stack", "heap", "task"}

(* Without a page table the process_t is not freed.                        *)
Freed(failing) == Stops(failing) /\ failing # "page_table"

(* process_create, in which failing is what cannot be had, if anything.    *)
(* Without a task the process_t is freed but stays in the list.            *)
process_create(p, failing) ==
    LET linked == failing = "task" \/ ~Stops(failing) IN
    /\ p \notin allocated
    /\ next_pid <= MaxPid
    /\ fields' = [fields EXCEPT ![p] =
                    [pid |-> next_pid, next |-> IF linked THEN process_list ELSE NULL,
                     state |-> "ready", parts |-> Given(failing)]]
    /\ next_pid' = next_pid + 1
    /\ process_list' = IF linked THEN p ELSE process_list
    /\ taskless' = (taskless \/ failing = "task")
    /\ allocated' = IF Freed(failing) THEN allocated ELSE allocated \cup {p}
    /\ IF Stops(failing) THEN UNCHANGED <<tasks, created>>
       ELSE /\ created' = created \cup {p}
            /\ tasks' = [t \in DOMAIN tasks \cup {next_pid} |->
                            IF t = next_pid THEN [process |-> p, state |-> "ready"] ELSE tasks[t]]
    /\ UNCHANGED orphans

(* process_exit up to the call of task_exit.  Interrupts are on: the task  *)
(* of an exited process may be preempted, and others run, before it is     *)
(* marked itself.  It writes through task->process, whoever has the block. *)
process_exit(t) ==
    LET p == tasks[t].process IN
    /\ tasks[t].state = "ready"
    /\ fields' = [fields EXCEPT ![p].state = "exited"]
    /\ tasks' = [tasks EXCEPT ![t].state = "exiting"]
    /\ UNCHANGED <<allocated, process_list, next_pid, created, taskless, orphans>>

task_exit(t) ==
    /\ tasks[t].state = "exiting"
    /\ tasks' = [tasks EXCEPT ![t].state = "terminated"]
    /\ UNCHANGED <<allocated, fields, process_list, next_pid, created, taskless, orphans>>

Before(p) == {k \in DOMAIN Walk : Walk[k] # NULL /\ fields[Walk[k]].next = p}

(* Mutant: only the head of the list is taken out.                         *)
Unlink_head(p) == fields

(* The fields after the process before p in the list, if there is one, was *)
(* linked to the one behind p.                                             *)
Unlink(p) ==
    IF process_list = p \/ Before(p) = {} THEN fields
    ELSE [fields EXCEPT ![FirstAt(Before(p))].next = fields[p].next]

(* Tasks of p the scheduler may still choose.                              *)
Running(p) == {t \in DOMAIN tasks : tasks[t].process = p /\ tasks[t].state # "terminated"}

(* process_destroy, of a process its caller has; it does not look at the   *)
(* tasks.  It does not return if it looks for p in a list that has neither *)
(* p nor end.                                                              *)
process_destroy(p) ==
    /\ p \in created
    /\ process_list = p \/ Before(p) # {} \/ Ends
    /\ process_list' = IF process_list = p THEN fields[p].next ELSE process_list
    /\ fields' = Unlink(p)
    /\ allocated' = allocated \ {p}
    /\ created' = created \ {p}
    /\ orphans' = orphans \cup Running(p)
    /\ UNCHANGED <<next_pid, tasks, taskless>>

Next ==
    \/ \E p \in Objects : \E failing \in Parts \cup {"task", "nothing"} : process_create(p, failing)
    \/ \E t \in DOMAIN tasks : process_exit(t) \/ task_exit(t)
    \/ \E p \in Objects : process_destroy(p)

Spec == Init /\ [][Next]_vars

-----------------------------------------------------------------------------
(* Properties *)

(* Whatever fails in process_create, whatever was freed and given out      *)
(* again, and although process_destroy looks at no task: a task that may   *)
(* run, unless its own process was destroyed under it, has a process that  *)
(* is still there, that no other such task has, and that has the page      *)
(* table, the stack and the heap scheduler_prepare_task and the program    *)
(* count on.  As long as no process was destroyed under a task that could  *)
(* run, that process has exited exactly if the task is on its way from     *)
(* process_exit to task_exit; after that an orphan may write EXITED into   *)
(* the process that got its block.                                         *)
TasksHaveProcesses ==
    \A t \in DOMAIN tasks \ orphans :
        tasks[t].state # "terminated" =>
            LET p == tasks[t].process IN
            /\ p \in allocated
            /\ fields[p].pid = t /\ fields[p].parts = Parts
            /\ orphans = {} =>
                  fields[p].state = IF tasks[t].state = "ready" THEN "ready" ELSE "exited"

(* As long as no task_create has failed, the list has every process in use *)
(* and no other, through failures of everything else, destructions in any  *)
(* order and reuse of the blocks: process_lookup finds each process by its *)
(* pid, and for every other pid comes to the end.                          *)
Listed ==
    ~taskless =>
        /\ {Walk[k] : k \in DOMAIN Walk} \ {NULL} = created
        /\ \A p \in created : process_lookup(fields[p].pid) = p
        /\ \A pid \in 1..MaxPid :
              (\A p \in created : fields[p].pid # pid) => process_lookup(pid) = NULL
=============================================================================
