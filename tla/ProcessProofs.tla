--------------------------- MODULE ProcessProofs ---------------------------
(***************************************************************************)
(* Proofs about Process, for any number of blocks and of creations, and    *)
(* about ProcessLoad, for any programs, segments that start inside a page  *)
(* or share pages included, any number of processes and attempts to load   *)
(* them, and any number of physical pages.                                 *)
(***************************************************************************)
EXTENDS Process, ProcessLoad, FiniteSetTheorems, WellFoundedInduction, TLAPS

Fields == [pid : Nat, next : Objects \cup {NULL}, state : {NULL, "ready", "exited"},
           parts : SUBSET Parts]

FieldsOK ==
    /\ fields \in [Objects -> Fields]
    /\ process_list \in Objects \cup {NULL}
    /\ next_pid \in Nat

(* A task has the number of its process, and numbers are used once.        *)
TasksOK ==
    \A t \in DOMAIN tasks :
        /\ t \in Nat /\ t < next_pid
        /\ tasks[t] \in [process : Objects, state : {"ready", "exiting", "terminated"}]

IInv == FieldsOK /\ TasksOK /\ TasksHaveProcesses

(* Whatever process unlinking finds before p, only its link changes.       *)
LEMMA UnlinkFacts ==
    ASSUME FieldsOK, NEW p \in Objects
    PROVE  /\ Unlink(p) \in [Objects -> Fields]
           /\ \A q \in Objects : /\ Unlink(p)[q].pid = fields[q].pid
                                 /\ Unlink(p)[q].state = fields[q].state
                                 /\ Unlink(p)[q].parts = fields[q].parts
  <1> DEFINE b == FirstAt(Before(p))
  <1>1. fields \in [Objects -> Fields] /\ fields[p].next \in Objects \cup {NULL}
    BY DEF FieldsOK, Fields
  <1>2. CASE Unlink(p) = fields
    BY <1>2 DEF FieldsOK
  <1>3. CASE Unlink(p) = [fields EXCEPT ![b].next = fields[p].next]
    <2> DEFINE v == fields[p].next
    <2>1. v \in Objects \cup {NULL} /\ Unlink(p) = [fields EXCEPT ![b].next = v]
      BY <1>1, <1>3
    <2> HIDE DEF b, v
    <2>2. Unlink(p) = [x \in Objects |-> Unlink(p)[x]]
      BY <1>1, <2>1
    <2>3. ASSUME NEW q \in Objects
          PROVE  /\ Unlink(p)[q] \in Fields
                 /\ Unlink(p)[q].pid = fields[q].pid
                 /\ Unlink(p)[q].state = fields[q].state
                 /\ Unlink(p)[q].parts = fields[q].parts
      <3>1. fields[q] \in Fields
        BY <1>1
      <3>2. CASE q = b
        <4>1. Unlink(p)[q] = [fields[q] EXCEPT !.next = v]
          BY <1>1, <2>1, <3>2
        <4>2. QED BY <2>1, <3>1, <4>1 DEF Fields
      <3>3. CASE q # b
        <4>1. Unlink(p)[q] = fields[q]
          BY <1>1, <2>1, <3>3
        <4>2. QED BY <3>1, <4>1
      <3>4. QED BY <3>2, <3>3
    <2>4. QED BY <2>2, <2>3
  <1>4. QED BY <1>2, <1>3 DEF Unlink

(* What TasksHaveProcesses says of one task.                               *)
TaskOK(t) ==
    tasks[t].state # "terminated" =>
        /\ tasks[t].process \in allocated
        /\ fields[tasks[t].process].pid = t /\ fields[tasks[t].process].parts = Parts
        /\ orphans = {} =>
              fields[tasks[t].process].state =
                  IF tasks[t].state = "ready" THEN "ready" ELSE "exited"

(* A process that is created takes a block nobody has, and has everything  *)
(* its task needs if it gets one.                                          *)
LEMMA CreatePreserves ==
    ASSUME IInv, NEW p \in Objects, NEW failing \in Parts \cup {"task", "nothing"},
           process_create(p, failing)
    PROVE  IInv'
  <1>1. FieldsOK'
    <2>1. Given(failing) \in SUBSET Parts
      BY DEF Given
    <2>2. QED BY <2>1 DEF IInv, FieldsOK, Fields, process_create
  <1>2. \A q \in Objects : q # p => fields'[q] = fields[q]
    BY DEF IInv, FieldsOK, process_create
  <1>3. /\ fields'[p].pid = next_pid
        /\ fields'[p].state = "ready"
        /\ fields'[p].parts = Given(failing)
    BY DEF IInv, FieldsOK, process_create
  <1>4. orphans' = orphans /\ p \notin allocated
    BY DEF process_create
  <1>5. allocated \subseteq allocated'
    BY DEF process_create
  <1>6. ASSUME NEW t \in DOMAIN tasks \ orphans, tasks'[t] = tasks[t]
        PROVE  TaskOK(t)'
    <2>1. TaskOK(t) /\ tasks[t].process \in Objects
      BY DEF IInv, TasksOK, TasksHaveProcesses, TaskOK
    <2>2. QED BY <1>2, <1>4, <1>5, <1>6, <2>1 DEF TaskOK
  <1>7. CASE Stops(failing)
    <2>1. tasks' = tasks
      BY <1>7 DEF process_create
    <2>2. TasksOK'
      BY <2>1 DEF IInv, FieldsOK, TasksOK, process_create
    <2>3. \A t \in DOMAIN tasks' \ orphans' : TaskOK(t)'
      BY <1>4, <1>6, <2>1
    <2>4. QED BY <1>1, <2>2, <2>3 DEF IInv, TaskOK, TasksHaveProcesses
  <1>8. CASE ~Stops(failing)
    <2>1. failing = "nothing"
      BY <1>8 DEF Stops, Parts
    <2>2. Given(failing) = Parts
      BY <2>1 DEF Given, Parts, StackMapped, HeapMapped
    <2>3. allocated' = allocated \cup {p}
      BY <2>1 DEF process_create, Freed, Stops
    <2>4. tasks' = [t \in DOMAIN tasks \cup {next_pid} |->
                      IF t = next_pid THEN [process |-> p, state |-> "ready"] ELSE tasks[t]]
      BY <1>8 DEF process_create
    <2>5. TasksOK'
      BY <2>4 DEF IInv, FieldsOK, TasksOK, process_create
    <2>6. ASSUME NEW t \in DOMAIN tasks' \ orphans' PROVE TaskOK(t)'
      <3>1. CASE t = next_pid
        BY <3>1, <1>3, <2>2, <2>3, <2>4 DEF TaskOK
      <3>2. CASE t # next_pid
        BY <3>2, <1>4, <1>6, <2>4
      <3>3. QED BY <3>1, <3>2
    <2>7. QED BY <1>1, <2>5, <2>6 DEF IInv, TaskOK, TasksHaveProcesses
  <1>9. QED BY <1>7, <1>8

(* A task that exits is, as long as nobody was orphaned, the only one of   *)
(* its process that may run; an orphan changes nobody's pid or parts.      *)
LEMMA ExitPreserves ==
    ASSUME IInv, NEW t \in DOMAIN tasks, process_exit(t)
    PROVE  IInv'
  <1> DEFINE p == tasks[t].process
  <1>1. p \in Objects
    BY DEF IInv, TasksOK
  <1>2. /\ fields' = [fields EXCEPT ![p].state = "exited"]
        /\ tasks' = [tasks EXCEPT ![t].state = "exiting"]
        /\ tasks[t].state = "ready"
        /\ allocated' = allocated /\ orphans' = orphans
    BY DEF process_exit
  <1>3. FieldsOK'
    BY <1>1, <1>2 DEF IInv, FieldsOK, Fields, process_exit
  <1>4. TasksOK'
    BY <1>2 DEF IInv, TasksOK, process_exit
  <1>5. /\ \A q \in Objects : fields'[q].pid = fields[q].pid /\ fields'[q].parts = fields[q].parts
        /\ \A q \in Objects : q # p => fields'[q] = fields[q]
        /\ fields'[p].state = "exited"
    BY <1>1, <1>2 DEF IInv, FieldsOK, Fields
  <1>6. ASSUME NEW u \in DOMAIN tasks' \ orphans' PROVE TaskOK(u)'
    <2>1. u \in DOMAIN tasks \ orphans /\ tasks'[u].process = tasks[u].process
          /\ tasks[u].process \in Objects
      BY <1>2 DEF IInv, TasksOK
    <2>2. TaskOK(u)
      BY <2>1 DEF IInv, TasksHaveProcesses, TaskOK
    <2>3. CASE u = t
      <3>1. tasks'[u].state = "exiting"
        BY <1>2, <2>1, <2>3 DEF IInv, TasksOK
      <3>2. QED BY <1>2, <1>5, <2>1, <2>2, <2>3, <3>1 DEF TaskOK
    <2>4. CASE u # t
      <3>1. tasks'[u] = tasks[u]
        BY <1>2, <2>1, <2>4
      <3>2. orphans = {} /\ tasks[u].state # "terminated" => tasks[u].process # p
        <4>1. orphans = {} => t \in DOMAIN tasks \ orphans
          OBVIOUS
        <4>2. orphans = {} => fields[p].pid = t
          BY <1>2, <4>1 DEF IInv, TasksHaveProcesses
        <4>3. QED BY <2>2, <2>4, <4>2 DEF TaskOK
      <3>3. QED BY <1>2, <1>5, <2>1, <2>2, <3>1, <3>2 DEF TaskOK
    <2>5. QED BY <2>3, <2>4
  <1>7. QED BY <1>3, <1>4, <1>6 DEF IInv, TaskOK, TasksHaveProcesses

(* The end of a task concerns no other.                                    *)
LEMMA TaskExitPreserves ==
    ASSUME IInv, NEW t \in DOMAIN tasks, task_exit(t)
    PROVE  IInv'
  <1>1. /\ tasks' = [tasks EXCEPT ![t].state = "terminated"]
        /\ fields' = fields /\ allocated' = allocated /\ orphans' = orphans
        /\ process_list' = process_list /\ next_pid' = next_pid
    BY DEF task_exit
  <1>2. FieldsOK' /\ TasksOK'
    BY <1>1 DEF IInv, FieldsOK, TasksOK
  <1>3. ASSUME NEW u \in DOMAIN tasks' \ orphans' PROVE TaskOK(u)'
    <2>1. u \in DOMAIN tasks \ orphans
      BY <1>1
    <2>2. TaskOK(u)
      BY <2>1 DEF IInv, TasksHaveProcesses, TaskOK
    <2>3. CASE u = t
      <3>1. tasks'[u].state = "terminated"
        BY <1>1, <2>1, <2>3 DEF IInv, TasksOK
      <3>2. QED BY <3>1 DEF TaskOK
    <2>4. CASE u # t
      <3>1. tasks'[u] = tasks[u]
        BY <1>1, <2>1, <2>4
      <3>2. QED BY <1>1, <2>2, <3>1 DEF TaskOK
    <2>5. QED BY <2>3, <2>4
  <1>4. QED BY <1>2, <1>3 DEF IInv, TaskOK, TasksHaveProcesses

(* A process that is destroyed was that of its orphans only, and the other *)
(* tasks keep theirs.                                                      *)
LEMMA DestroyPreserves ==
    ASSUME IInv, NEW p \in Objects, process_destroy(p)
    PROVE  IInv'
  <1>1. fields' = Unlink(p) /\ tasks' = tasks /\ next_pid' = next_pid
        /\ allocated' = allocated \ {p} /\ orphans' = orphans \cup Running(p)
    BY DEF process_destroy
  <1>2. /\ fields' \in [Objects -> Fields]
        /\ \A q \in Objects : /\ fields'[q].pid = fields[q].pid
                              /\ fields'[q].state = fields[q].state
                              /\ fields'[q].parts = fields[q].parts
    BY <1>1, UnlinkFacts DEF IInv
  <1>3. process_list' \in Objects \cup {NULL}
    BY DEF IInv, FieldsOK, Fields, process_destroy
  <1>4. FieldsOK' /\ TasksOK'
    BY <1>1, <1>2, <1>3 DEF IInv, FieldsOK, TasksOK
  <1>5. ASSUME NEW t \in DOMAIN tasks' \ orphans' PROVE TaskOK(t)'
    <2>1. t \in DOMAIN tasks \ orphans /\ t \notin Running(p) /\ tasks[t].process \in Objects
      BY <1>1 DEF IInv, TasksOK
    <2>2. TaskOK(t)
      BY <2>1 DEF IInv, TasksHaveProcesses, TaskOK
    <2>3. tasks[t].state # "terminated" => tasks[t].process # p
      BY <2>1 DEF Running
    <2>4. orphans' = {} => orphans = {}
      BY <1>1
    <2>5. QED BY <1>1, <1>2, <2>1, <2>2, <2>3, <2>4 DEF TaskOK
  <1>6. QED BY <1>4, <1>5 DEF IInv, TaskOK, TasksHaveProcesses

(* Every step keeps the invariant.                                         *)
LEMMA NextPreserves == IInv /\ [Next]_vars => IInv'
  <1> SUFFICES ASSUME IInv, [Next]_vars PROVE IInv'
    OBVIOUS
  <1>1. CASE UNCHANGED vars
    BY <1>1 DEF IInv, FieldsOK, TasksOK, TasksHaveProcesses, vars
  <1>2. QED BY <1>1, CreatePreserves, ExitPreserves, TaskExitPreserves, DestroyPreserves DEF Next

(* Types, pids and what the tasks rely on hold together.                   *)
THEOREM Invariance == Spec => []IInv
  <1>1. Init => IInv
    <2> SUFFICES ASSUME Init PROVE IInv
      OBVIOUS
    <2>1. FieldsOK
      BY DEF Init, FieldsOK, Fields
    <2>2. TasksOK /\ TasksHaveProcesses
      BY DEF Init, TasksOK, TasksHaveProcesses
    <2>3. QED BY <2>1, <2>2 DEF IInv
  <1>2. QED BY <1>1, NextPreserves, PTL DEF Spec

(* However process_create fails, whatever process_destroy frees and is     *)
(* given out again, a task that may run and whose process was not          *)
(* destroyed under it has a process of its own that is there and complete, *)
(* and exited only while the task itself is in process_exit.               *)
THEOREM TasksCorrect == Spec => []TasksHaveProcesses
  <1>1. IInv => TasksHaveProcesses
    BY DEF IInv
  <1>2. QED BY <1>1, Invariance, PTL

-----------------------------------------------------------------------------
(* The list of processes.  process_create links at the head, so the list   *)
(* is in the order of falling pids: the head is the newest process in use, *)
(* and each leads to the newest of those that are older.                   *)

Newest(n, S, fs) ==
    IF S = {} THEN n = NULL ELSE n \in S /\ \A q \in S : fs[q].pid <= fs[n].pid

Older(p, S, fs) == {q \in S : fs[q].pid < fs[p].pid}

Chain(list, S, fs) ==
    /\ Newest(list, S, fs)
    /\ \A p \in S : Newest(fs[p].next, Older(p, S, fs), fs)

PidsOK ==
    /\ created \subseteq allocated /\ created \subseteq Objects
    /\ \A p \in created : /\ fields[p].pid < next_pid
                          /\ \A q \in created : fields[p].pid = fields[q].pid => p = q

Chained == ~taskless => Chain(process_list, created, fields)

ListInv == PidsOK /\ Chained

(* A non-empty set of naturals has a least element ...                     *)
LEMMA LeastElement ==
    ASSUME NEW S, S \subseteq Nat, S # {}
    PROVE  \E x \in S : \A y \in S : x <= y
  <1>1. PICK x \in S : \A y \in S : ~(<<y, x>> \in OpToRel(<, Nat))
    BY WFMin, NatLessThanWellFounded, Zenon
  <1>2. \A y \in S : x <= y
    <2> TAKE y \in S
    <2>1. ~(y < x)
      BY <1>1 DEF OpToRel
    <2>2. QED BY <2>1
  <1>3. QED BY <1>2

(* ... and a greatest one if it is bounded.                                *)
LEMMA GreatestElement ==
    ASSUME NEW S, S \subseteq Nat, S # {}, NEW b \in Nat, \A y \in S : y <= b
    PROVE  \E x \in S : \A y \in S : x >= y
  <1>1. PICK R : R = {b - y : y \in S}
    OBVIOUS
  <1>2. R \subseteq Nat /\ R # {}
    <2>1. \A y \in S : y \in Nat /\ y <= b
      OBVIOUS
    <2>2. \A y \in S : b - y \in Nat
      BY <2>1
    <2>3. R # {}
      BY <1>1, Zenon
    <2>4. QED BY <1>1, <2>2, <2>3
  <1>3. PICK r \in R : \A y \in R : r <= y
    BY <1>2, LeastElement
  <1>4. PICK x \in S : r = b - x
    BY <1>1, <1>3
  <1>5. ASSUME NEW y \in S PROVE x >= y
    <2>1. b - x <= b - y
      BY <1>1, <1>3, <1>4
    <2>2. x \in Nat /\ y \in Nat
      OBVIOUS
    <2>3. QED BY <2>1, <2>2
  <1>6. QED BY <1>5

(* Where the walk goes from x, and what a walk of n steps is.              *)
Follow(x) == IF x = NULL THEN NULL ELSE fields[x].next

IsWalk(f, n) ==
    /\ f \in [0..n -> Objects \cup {NULL}]
    /\ f[0] = process_list
    /\ \A k \in 1..n : f[k] = Follow(f[k - 1])

(* A walk of any length exists ...                                         *)
LEMMA WalkExists ==
    ASSUME FieldsOK, NEW n \in Nat
    PROVE  \E f : IsWalk(f, n)
  <1>1. PICK S : S = {m \in Nat : ~\E f : IsWalk(f, m)}
    OBVIOUS
  <1>2. CASE S = {}
    BY <1>1, <1>2
  <1>3. CASE S # {}
    <2>1. PICK m \in S : \A l \in S : m <= l
      <3>1. S \subseteq Nat
        BY <1>1
      <3>2. QED BY <1>3, <3>1, LeastElement
    <2>2. m \in Nat /\ ~\E f : IsWalk(f, m)
      BY <1>1, <2>1
    <2>3. CASE m = 0
      <3>1. PICK f : f = [k \in 0..0 |-> process_list]
        OBVIOUS
      <3>2. IsWalk(f, 0)
        BY <3>1 DEF IsWalk, FieldsOK
      <3>3. QED BY <2>2, <2>3, <3>2
    <2>4. CASE m # 0
      <3>1. m - 1 \in Nat /\ m - 1 \notin S
        BY <2>1, <2>2, <2>4
      <3>2. PICK f : IsWalk(f, m - 1)
        BY <1>1, <3>1
      <3>3. PICK x : x = Follow(f[m - 1])
        OBVIOUS
      <3>4. x \in Objects \cup {NULL}
        <4>1. f[m - 1] \in Objects \cup {NULL}
          BY <3>1, <3>2 DEF IsWalk
        <4>2. QED BY <3>3, <4>1 DEF Follow, FieldsOK, Fields
      <3>5. PICK g : g = [k \in 0..m |-> IF k = m THEN x ELSE f[k]]
        OBVIOUS
      <3>6. IsWalk(g, m)
        <4>1. g \in [0..m -> Objects \cup {NULL}] /\ g[0] = process_list
          BY <2>2, <2>4, <3>2, <3>4, <3>5 DEF IsWalk
        <4>2. ASSUME NEW k \in 1..m PROVE g[k] = Follow(g[k - 1])
          <5>1. k - 1 \in 0..(m - 1) /\ g[k - 1] = f[k - 1]
            BY <2>2, <2>4, <3>5
          <5>2. CASE k = m
            BY <3>3, <3>5, <5>1, <5>2
          <5>3. CASE k # m
            <6>1. k \in 1..(m - 1) /\ g[k] = f[k]
              BY <2>2, <3>5, <5>3
            <6>2. QED BY <3>2, <5>1, <6>1 DEF IsWalk
          <5>4. QED BY <5>2, <5>3
        <4>3. QED BY <4>1, <4>2 DEF IsWalk
      <3>7. QED BY <2>2, <3>6
    <2>5. QED BY <2>3, <2>4
  <1>4. QED BY <1>2, <1>3

(* ... so that the recursive definition of Walk describes one.             *)
LEMMA WalkFacts ==
    ASSUME FieldsOK
    PROVE  Cardinality(Objects) \in Nat /\ IsWalk(Walk, Cardinality(Objects))
  <1>1. PICK n : n = Cardinality(Objects)
    OBVIOUS
  <1>2. n \in Nat
    BY <1>1, ProcessAssumption, FS_CardinalityType
  <1>3. PICK f : IsWalk(f, n)
    BY <1>2, WalkExists
  <1>4. f = [k \in 0..n |-> IF k = 0 THEN process_list
                            ELSE IF f[k - 1] = NULL THEN NULL ELSE fields[f[k - 1]].next]
    <2>1. f = [k \in 0..n |-> f[k]]
      BY <1>3 DEF IsWalk
    <2>2. ASSUME NEW k \in 0..n
          PROVE  f[k] = IF k = 0 THEN process_list
                        ELSE IF f[k - 1] = NULL THEN NULL ELSE fields[f[k - 1]].next
      BY <1>2, <1>3 DEF IsWalk, Follow
    <2>3. QED BY <2>1, <2>2
  <1>5. Walk = [k \in 0..n |-> IF k = 0 THEN process_list
                               ELSE IF Walk[k - 1] = NULL THEN NULL ELSE fields[Walk[k - 1]].next]
    BY <1>1, <1>4, Zenon DEF Walk
  <1>6. PICK w : w = Walk
    OBVIOUS
  <1>7. w = [k \in 0..n |-> IF k = 0 THEN process_list
                            ELSE IF w[k - 1] = NULL THEN NULL ELSE fields[w[k - 1]].next]
    BY <1>5, <1>6
  <1>8. /\ w[0] = process_list /\ \A k \in 1..n : w[k] = Follow(w[k - 1])
    BY <1>2, <1>7 DEF Follow
  <1>9. ASSUME NEW k \in 0..n PROVE w[k] \in Objects \cup {NULL}
    <2>1. PICK S : S = {l \in 0..n : w[l] \notin Objects \cup {NULL}}
      OBVIOUS
    <2>2. CASE S # {}
      <3>1. PICK m \in S : \A l \in S : m <= l
        <4>1. S \subseteq Nat
          BY <2>1
        <4>2. QED BY <2>2, <4>1, LeastElement
      <3>2. m # 0
        BY <1>8, <2>1, <3>1 DEF FieldsOK
      <3>3. m \in 1..n /\ m - 1 \in 0..n /\ m - 1 \notin S
        BY <1>2, <2>1, <3>1, <3>2
      <3>4. w[m - 1] \in Objects \cup {NULL} /\ w[m] = Follow(w[m - 1])
        BY <1>8, <2>1, <3>3
      <3>5. w[m] \in Objects \cup {NULL}
        BY <3>4 DEF Follow, FieldsOK, Fields
      <3>6. QED BY <2>1, <3>1, <3>5
    <2>3. CASE S = {}
      BY <2>1, <2>3
    <2>4. QED BY <2>2, <2>3
  <1>10. IsWalk(w, n)
    <2>1. w \in [0..n -> Objects \cup {NULL}]
      BY <1>7, <1>9
    <2>2. QED BY <1>8, <2>1 DEF IsWalk
  <1>11. QED BY <1>1, <1>2, <1>6, <1>10

(* Along the walk the pids fall: a process is met once, and what is met is *)
(* in use.                                                                 *)
LEMMA WalkDescends ==
    ASSUME FieldsOK, ListInv, ~taskless,
           NEW n, n = Cardinality(Objects), NEW w, w = Walk
    PROVE  /\ n \in Nat /\ IsWalk(w, n)
           /\ \A k \in 0..n : w[k] \in created \cup {NULL}
           /\ \A k, l \in 0..n : k < l /\ w[l] # NULL =>
                w[k] # NULL /\ fields[w[l]].pid < fields[w[k]].pid
  <1>1. n \in Nat /\ IsWalk(w, n)
    BY WalkFacts
  <1>2. ASSUME NEW x \in created \cup {NULL}
        PROVE  /\ Follow(x) \in created \cup {NULL}
               /\ Follow(x) # NULL => x # NULL /\ fields[Follow(x)].pid < fields[x].pid
    BY DEF ListInv, Chained, Chain, Newest, Older, Follow
  <1>3. \A k \in 0..n : w[k] \in created \cup {NULL}
    <2>1. PICK S : S = {l \in 0..n : w[l] \notin created \cup {NULL}}
      OBVIOUS
    <2>2. CASE S # {}
      <3>1. PICK m \in S : \A l \in S : m <= l
        <4>1. S \subseteq Nat
          BY <2>1
        <4>2. QED BY <2>2, <4>1, LeastElement
      <3>2. m # 0
        BY <1>1, <2>1, <3>1 DEF IsWalk, ListInv, Chained, Chain, Newest
      <3>3. m \in 1..n /\ m - 1 \in 0..n /\ m - 1 \notin S
        BY <1>1, <2>1, <3>1, <3>2
      <3>4. w[m - 1] \in created \cup {NULL} /\ w[m] = Follow(w[m - 1])
        BY <1>1, <2>1, <3>3 DEF IsWalk
      <3>5. w[m] \in created \cup {NULL}
        BY <1>2, <3>4
      <3>6. QED BY <2>1, <3>1, <3>5
    <2>3. CASE S = {}
      BY <2>1, <2>3
    <2>4. QED BY <2>2, <2>3
  <1>4. ASSUME NEW k \in 0..n, NEW l \in 0..n, k < l, w[l] # NULL
        PROVE  w[k] # NULL /\ fields[w[l]].pid < fields[w[k]].pid
    <2>1. PICK S : S = {m \in 0..n : /\ k < m /\ w[m] # NULL
                                     /\ ~(w[k] # NULL /\ fields[w[m]].pid < fields[w[k]].pid)}
      OBVIOUS
    <2>2. CASE S # {}
      <3>1. PICK m \in S : \A x \in S : m <= x
        <4>1. S \subseteq Nat
          BY <2>1
        <4>2. QED BY <2>2, <4>1, LeastElement
      <3>2. /\ m \in 1..n /\ m - 1 \in 0..n /\ m - 1 \notin S /\ k <= m - 1 /\ w[m] # NULL
        BY <1>1, <2>1, <3>1
      <3>3. /\ w[m - 1] \in created \cup {NULL} /\ w[m] = Follow(w[m - 1])
            /\ w[k] \in created \cup {NULL} /\ w[m] \in created
        BY <1>1, <1>3, <3>2 DEF IsWalk
      <3>4. w[m - 1] # NULL /\ fields[w[m]].pid < fields[w[m - 1]].pid
        BY <1>2, <3>2, <3>3
      <3>5. CASE k = m - 1
        BY <2>1, <3>1, <3>4, <3>5
      <3>6. CASE k < m - 1
        <4>1. w[k] # NULL /\ fields[w[m - 1]].pid < fields[w[k]].pid
          BY <2>1, <3>2, <3>4, <3>6
        <4>2. fields[w[m]].pid \in Nat /\ fields[w[m - 1]].pid \in Nat /\ fields[w[k]].pid \in Nat
          BY <3>3, <3>4, <4>1 DEF ListInv, PidsOK, FieldsOK, Fields
        <4>3. fields[w[m]].pid < fields[w[k]].pid
          BY <3>4, <4>1, <4>2
        <4>4. QED BY <2>1, <3>1, <4>1, <4>3
      <3>7. QED BY <3>2, <3>5, <3>6
    <2>3. CASE S = {}
      BY <1>4, <2>1, <2>3
    <2>4. QED BY <2>2, <2>3
  <1>5. QED BY <1>1, <1>3, <1>4

(* So the walk ends, there being no more processes than objects ...        *)
LEMMA WalkEnds ==
    ASSUME FieldsOK, ListInv, ~taskless
    PROVE  Ends
  <1>1. PICK n, w : n = Cardinality(Objects) /\ w = Walk
    OBVIOUS
  <1>2. /\ n \in Nat /\ IsWalk(w, n)
        /\ \A k \in 0..n : w[k] \in created \cup {NULL}
        /\ \A k, l \in 0..n : k < l /\ w[l] # NULL =>
             w[k] # NULL /\ fields[w[l]].pid < fields[w[k]].pid
    BY <1>1, WalkDescends
  <1>3. CASE w[n] # NULL
    <2>1. \A k \in 0..n : w[k] \in created /\ w[k] # NULL /\ fields[w[k]].pid \in Nat
      BY <1>2, <1>3, ProcessAssumption DEF ListInv, PidsOK, FieldsOK, Fields
    <2>2. \A k, l \in 0..n : w[k] = w[l] => k = l
      <3> SUFFICES ASSUME NEW k \in 0..n, NEW l \in 0..n, w[k] = w[l], k # l PROVE FALSE
        OBVIOUS
      <3>1. k < l \/ l < k
        BY <1>2
      <3>2. QED BY <1>2, <2>1, <3>1
    <2>3. w \in Injection(0..n, Objects)
      <3>1. w \in [0..n -> Objects]
        BY <1>2, <2>1 DEF IsWalk, ListInv, PidsOK
      <3>2. QED BY <2>2, <3>1 DEF Injection, IsInjective
    <2>4. Cardinality(0..n) <= n
      BY <1>1, <2>3, FS_Injection, ProcessAssumption
    <2>5. Cardinality(0..n) = n + 1
      BY <1>2, FS_Interval
    <2>6. QED BY <1>2, <2>4, <2>5
  <1>4. CASE w[n] = NULL
    BY <1>1, <1>4 DEF Ends
  <1>5. QED BY <1>3, <1>4

(* ... and meets every process in use: the newest that it missed would be  *)
(* what the next newer one leads to.                                       *)
LEMMA WalkCovers ==
    ASSUME FieldsOK, ListInv, ~taskless, NEW p \in created
    PROVE  \E k \in 0..Cardinality(Objects) : Walk[k] = p
  <1>1. PICK n, w : n = Cardinality(Objects) /\ w = Walk
    OBVIOUS
  <1>2. /\ n \in Nat /\ IsWalk(w, n)
        /\ \A k \in 0..n : w[k] \in created \cup {NULL}
    BY <1>1, WalkDescends
  <1>3. w[n] = NULL
    BY <1>1, WalkEnds DEF Ends
  <1>4. PICK M : M = {q \in created : ~\E k \in 0..n : w[k] = q}
    OBVIOUS
  <1>5. \A q \in created : /\ q \in Objects /\ q # NULL /\ fields[q].pid \in Nat
                           /\ fields[q].pid < next_pid /\ next_pid \in Nat
    BY ProcessAssumption DEF ListInv, PidsOK, FieldsOK, Fields
  <1>6. CASE M # {}
    <2>1. PICK S : S = {fields[q].pid : q \in M}
      OBVIOUS
    <2>2. S \subseteq Nat /\ S # {} /\ next_pid \in Nat /\ \A y \in S : y <= next_pid
      BY <1>4, <1>5, <1>6, <2>1
    <2>3. PICK x \in S : \A y \in S : x >= y
      BY <2>2, GreatestElement
    <2>4. PICK q \in M : x = fields[q].pid
      BY <2>1, <2>3
    <2>5. PICK T : T = {fields[r].pid : r \in {s \in created : fields[s].pid > fields[q].pid}}
      OBVIOUS
    <2>6. process_list \in created /\ fields[process_list].pid > fields[q].pid
      <3>1. /\ process_list \in created
            /\ fields[q].pid <= fields[process_list].pid
        BY <1>4, <2>4 DEF ListInv, Chained, Chain, Newest
      <3>2. q # process_list
        BY <1>2, <1>4, <2>4 DEF IsWalk
      <3>3. fields[q].pid # fields[process_list].pid
        BY <1>4, <2>4, <3>1, <3>2 DEF ListInv, PidsOK
      <3>4. QED BY <1>4, <1>5, <2>4, <3>1, <3>3
    <2>7. T \subseteq Nat /\ T # {}
      BY <1>5, <2>5, <2>6
    <2>8. PICK y \in T : \A z \in T : y <= z
      BY <2>7, LeastElement
    <2>9. PICK r \in created : y = fields[r].pid /\ fields[r].pid > fields[q].pid
      BY <2>5, <2>8
    <2>10. fields[r].next = q
      <3>1. PICK m : m = fields[r].next
        OBVIOUS
      <3>2. /\ m \in created /\ fields[m].pid < fields[r].pid
            /\ fields[q].pid <= fields[m].pid
        <4>1. /\ q \in Older(r, created, fields)
              /\ Newest(m, Older(r, created, fields), fields)
          BY <1>4, <1>5, <2>4, <2>9, <3>1 DEF ListInv, Chained, Chain, Older
        <4>2. QED BY <4>1 DEF Newest, Older
      <3>3. ~(fields[m].pid > fields[q].pid)
        BY <1>5, <2>5, <2>8, <2>9, <3>2
      <3>4. fields[m].pid = fields[q].pid
        BY <1>4, <1>5, <2>4, <3>2, <3>3
      <3>5. QED BY <1>4, <2>4, <3>1, <3>2, <3>4 DEF ListInv, PidsOK
    <2>11. PICK k \in 0..n : w[k] = r
      BY <1>4, <1>5, <2>1, <2>3, <2>4, <2>9
    <2>12. k + 1 \in 1..n
      BY <1>2, <1>3, <1>5, <2>9, <2>11
    <2>13. w[k + 1] = q
      BY <1>2, <1>5, <2>10, <2>11, <2>12 DEF IsWalk, Follow
    <2>14. QED BY <1>2, <1>4, <2>4, <2>12, <2>13
  <1>7. CASE M = {}
    BY <1>1, <1>4, <1>7
  <1>8. QED BY <1>6, <1>7

(* process_lookup finds every process in use by its pid, and nothing else. *)
LEMMA LookupFacts ==
    ASSUME FieldsOK, ListInv
    PROVE  Listed
  <1> SUFFICES ASSUME ~taskless
               PROVE  /\ {Walk[k] : k \in DOMAIN Walk} \ {NULL} = created
                      /\ \A p \in created : process_lookup(fields[p].pid) = p
                      /\ \A pid \in 1..MaxPid :
                            (\A p \in created : fields[p].pid # pid) => process_lookup(pid) = NULL
    BY DEF Listed
  <1>1. PICK n, w : n = Cardinality(Objects) /\ w = Walk
    OBVIOUS
  <1>2. /\ n \in Nat /\ DOMAIN w = 0..n
        /\ \A k \in 0..n : w[k] \in created \cup {NULL}
    BY <1>1, WalkDescends DEF IsWalk
  <1>3. \A p \in created : p # NULL /\ \E k \in 0..n : w[k] = p
    BY <1>1, WalkCovers, ProcessAssumption DEF ListInv, PidsOK
  <1>4. {Walk[k] : k \in DOMAIN Walk} \ {NULL} = created
    BY <1>1, <1>2, <1>3
  <1>5. ASSUME NEW pid
        PROVE  /\ \A p \in created : fields[p].pid = pid => process_lookup(pid) = p
               /\ (\A p \in created : fields[p].pid # pid) => process_lookup(pid) = NULL
    <2>1. PICK H : H = {k \in DOMAIN w : w[k] # NULL /\ fields[w[k]].pid = pid}
      OBVIOUS
    <2>2. process_lookup(pid) =
            IF H # {} THEN FirstAt(H) ELSE IF Ends THEN NULL ELSE "never returns"
      BY <1>1, <2>1 DEF process_lookup
    <2>3. ASSUME NEW p \in created, fields[p].pid = pid
          PROVE  process_lookup(pid) = p
      <3>1. H \subseteq Nat /\ H # {}
        BY <1>2, <1>3, <2>1, <2>3
      <3>2. PICK k \in H : \A l \in H : k <= l
        BY <3>1, LeastElement
      <3>3. PICK c : c = CHOOSE x \in H : \A l \in H : x <= l
        OBVIOUS
      <3>4. c \in H
        BY <3>2, <3>3
      <3>5. w[c] \in created /\ fields[w[c]].pid = pid
        BY <1>2, <2>1, <3>4
      <3>6. w[c] = p
        BY <2>3, <3>5 DEF ListInv, PidsOK
      <3>7. FirstAt(H) = p
        BY <1>1, <3>3, <3>6 DEF FirstAt
      <3>8. QED BY <2>2, <3>1, <3>7
    <2>4. ASSUME \A p \in created : fields[p].pid # pid
          PROVE  process_lookup(pid) = NULL
      <3>1. H = {}
        BY <1>2, <2>1, <2>4
      <3>2. Ends
        BY WalkEnds
      <3>3. QED BY <2>2, <3>1, <3>2
    <2>5. QED BY <2>3, <2>4
  <1>6. QED BY <1>4, <1>5

(* The order depends on the pids and links of the processes in use only.   *)
LEMMA ChainSame ==
    ASSUME NEW list, NEW S, NEW fs, NEW gs, Chain(list, S, fs),
           \A q \in S : gs[q].pid = fs[q].pid /\ gs[q].next = fs[q].next
    PROVE  Chain(list, S, gs)
  <1>1. ASSUME NEW m, NEW T \in SUBSET S, Newest(m, T, fs)
        PROVE  Newest(m, T, gs)
    BY <1>1 DEF Newest
  <1>2. \A p \in S : Older(p, S, gs) = Older(p, S, fs) /\ Older(p, S, fs) \in SUBSET S
    BY DEF Older
  <1>3. Newest(list, S, gs)
    BY <1>1 DEF Chain
  <1>4. ASSUME NEW p \in S PROVE Newest(gs[p].next, Older(p, S, gs), gs)
    <2>1. Newest(fs[p].next, Older(p, S, fs), fs)
      BY DEF Chain
    <2>2. Newest(fs[p].next, Older(p, S, fs), gs)
      BY <1>1, <1>2, <2>1
    <2>3. QED BY <1>2, <2>2
  <1>5. QED BY <1>3, <1>4 DEF Chain

(* A process with the highest pid may be linked in front.                  *)
LEMMA ChainPush ==
    ASSUME NEW list, NEW S, NEW fs, Chain(list, S, fs), NEW p, p \notin S,
           fs[p].next = list, fs[p].pid \in Nat,
           \A q \in S : fs[q].pid \in Nat /\ fs[q].pid < fs[p].pid
    PROVE  Chain(p, S \cup {p}, fs)
  <1>1. Newest(p, S \cup {p}, fs)
    BY DEF Newest
  <1>2. Older(p, S \cup {p}, fs) = S /\ Newest(fs[p].next, S, fs)
    BY DEF Older, Chain
  <1>3. \A q \in S : Older(q, S \cup {p}, fs) = Older(q, S, fs)
    BY DEF Older
  <1>4. \A q \in S : Newest(fs[q].next, Older(q, S \cup {p}, fs), fs)
    BY <1>3 DEF Chain
  <1>5. \A q \in S \cup {p} : Newest(fs[q].next, Older(q, S \cup {p}, fs), fs)
    <2> TAKE q \in S \cup {p}
    <2>1. CASE q = p
      BY <1>2, <2>1
    <2>2. CASE q # p
      BY <1>4, <2>2
    <2>3. QED BY <2>1, <2>2
  <1>6. QED BY <1>1, <1>5 DEF Chain

(* head and gs are list and fs after whatever led to p leads past it.      *)
Bypassed(list, fs, p, S, head, gs) ==
    /\ p \in S /\ NULL \notin S
    /\ \A q \in S : fs[q].pid \in Nat
    /\ \A q, r \in S : fs[q].pid = fs[r].pid => q = r
    /\ head = IF list = p THEN fs[p].next ELSE list
    /\ \A q \in S : /\ gs[q].pid = fs[q].pid
                    /\ gs[q].next = IF fs[q].next = p THEN fs[p].next ELSE fs[q].next

(* If p is bypassed, by the head or by the process that led to it, the     *)
(* rest stays in order.                                                    *)
LEMMA ChainUnlink ==
    ASSUME NEW list, NEW S, NEW fs, NEW p, NEW gs, NEW head,
           Chain(list, S, fs), Bypassed(list, fs, p, S, head, gs)
    PROVE  Chain(head, S \ {p}, gs)
  <1> USE DEF Bypassed
  <1>1. ASSUME NEW T \in SUBSET S, NEW m, Newest(m, T, fs),
               m = p => T \ {p} = Older(p, S, fs)
        PROVE  Newest(IF m = p THEN fs[p].next ELSE m, T \ {p}, gs)
    <2>1. CASE m # p
      BY <1>1, <2>1 DEF Newest
    <2>2. CASE m = p
      <3>1. Newest(fs[p].next, Older(p, S, fs), fs)
        BY DEF Chain
      <3>2. QED BY <1>1, <2>2, <3>1 DEF Newest
    <2>3. QED BY <2>1, <2>2
  <1>2. ASSUME NEW T \in SUBSET S, NEW m, Newest(m, T, fs), m = p,
               \A q \in S : fs[q].pid < fs[p].pid => q \in T
        PROVE  T \ {p} = Older(p, S, fs)
    <2>1. p \in T /\ \A q \in T : fs[q].pid <= fs[p].pid
      BY <1>2 DEF Newest
    <2>2. QED BY <1>2, <2>1 DEF Older
  <1>3. Newest(head, S \ {p}, gs)
    <2>1. Newest(list, S, fs)
      BY DEF Chain
    <2>2. list = p => S \ {p} = Older(p, S, fs)
      BY <1>2, <2>1
    <2>3. QED BY <1>1, <2>1, <2>2 DEF Newest
  <1>4. ASSUME NEW q \in S \ {p}
        PROVE  Newest(gs[q].next, Older(q, S \ {p}, gs), gs)
    <2>1. Newest(fs[q].next, Older(q, S, fs), fs)
      BY DEF Chain
    <2>2. Older(q, S \ {p}, gs) = Older(q, S, fs) \ {p} /\ Older(q, S, fs) \in SUBSET S
      BY DEF Older
    <2>3. ASSUME fs[q].next = p
          PROVE  Older(q, S, fs) \ {p} = Older(p, S, fs)
      <3>1. fs[p].pid < fs[q].pid
        BY <2>1, <2>3 DEF Newest, Older
      <3>2. \A r \in S : fs[r].pid < fs[p].pid => r \in Older(q, S, fs)
        BY <3>1 DEF Older
      <3>3. QED BY <1>2, <2>1, <2>2, <2>3, <3>2
    <2>4. Newest(IF fs[q].next = p THEN fs[p].next ELSE fs[q].next,
                 Older(q, S, fs) \ {p}, gs)
      BY <1>1, <2>1, <2>2, <2>3 DEF Newest
    <2>5. QED BY <2>2, <2>4
  <1>5. QED BY <1>3, <1>4 DEF Chain

(* A process is linked in front of the others, and has the highest pid.    *)
LEMMA CreateKeepsList ==
    ASSUME IInv, ListInv, NEW p \in Objects,
           NEW failing \in Parts \cup {"task", "nothing"}, process_create(p, failing)
    PROVE  ListInv'
  <1>1. /\ p \notin created
        /\ \A q \in created : /\ q \in Objects /\ q # p /\ fields'[q] = fields[q]
                              /\ fields[q].pid \in Nat /\ fields[q].pid < next_pid
    BY DEF IInv, FieldsOK, Fields, ListInv, PidsOK, process_create
  <1>2. /\ next_pid \in Nat /\ next_pid' = next_pid + 1
        /\ fields'[p].pid = next_pid
        /\ taskless' = (taskless \/ failing = "task")
    BY DEF IInv, FieldsOK, process_create
  <1>3. ~taskless => Chain(process_list, created, fields')
    BY <1>1, ChainSame DEF ListInv, Chained
  <1>4. CASE Stops(failing)
    <2>1. created' = created /\ allocated \subseteq allocated'
      BY <1>4 DEF process_create
    <2>2. PidsOK'
      BY <1>1, <1>2, <2>1 DEF PidsOK, ListInv
    <2>3. ~taskless' => process_list' = process_list /\ ~taskless
      BY <1>2, <1>4 DEF process_create
    <2>4. QED BY <1>3, <2>1, <2>2, <2>3 DEF ListInv, Chained
  <1>5. CASE ~Stops(failing)
    <2>1. created' = created \cup {p} /\ process_list' = p
      BY <1>5 DEF process_create
    <2>2. allocated' = allocated \cup {p}
      BY <1>5 DEF process_create, Freed
    <2>3. fields'[p].next = process_list
      BY <1>5 DEF process_create, IInv, FieldsOK
    <2>4. taskless' => taskless
      BY <1>2, <1>5 DEF Stops
    <2>5. PidsOK'
      <3>1. \A q \in created' : fields'[q].pid < next_pid'
        BY <1>1, <1>2, <2>1
      <3>2. \A q, r \in created' : fields'[q].pid = fields'[r].pid => q = r
        BY <1>1, <1>2, <2>1 DEF ListInv, PidsOK
      <3>3. QED BY <2>1, <2>2, <3>1, <3>2 DEF ListInv, PidsOK
    <2>6. ASSUME ~taskless' PROVE Chain(process_list', created', fields')
      <3>1. Chain(process_list, created, fields')
        BY <1>2, <1>3, <2>6
      <3>2. Chain(p, created \cup {p}, fields')
        BY <1>1, <1>2, <2>3, <3>1, ChainPush
      <3>3. QED BY <2>1, <3>2
    <2>7. QED BY <2>5, <2>6 DEF ListInv, Chained
  <1>6. QED BY <1>4, <1>5

(* A process that exits stays linked where it is.                          *)
LEMMA ExitKeepsList ==
    ASSUME IInv, ListInv, NEW t \in DOMAIN tasks, process_exit(t)
    PROVE  ListInv'
  <1>1. PICK p : p = tasks[t].process
    OBVIOUS
  <1>2. /\ fields' = [fields EXCEPT ![p].state = "exited"]
        /\ UNCHANGED <<allocated, process_list, next_pid, created, taskless>>
    BY <1>1 DEF process_exit
  <1>3. \A q \in Objects : /\ fields'[q].pid = fields[q].pid
                           /\ fields'[q].next = fields[q].next
    BY <1>2 DEF IInv, FieldsOK, Fields
  <1>4. PidsOK'
    BY <1>2, <1>3 DEF ListInv, PidsOK
  <1>5. ~taskless => Chain(process_list, created, fields')
    BY <1>3, ChainSame DEF ListInv, Chained, PidsOK
  <1>6. QED BY <1>2, <1>4, <1>5 DEF ListInv, Chained

(* What process_destroy finds before p is the process that leads to it.    *)
LEMMA UnlinkLinks ==
    ASSUME FieldsOK, ListInv, ~taskless, NEW p \in created, process_list # p
    PROVE  \E b \in created : /\ fields[b].next = p
                              /\ Unlink(p) = [fields EXCEPT ![b].next = fields[p].next]
  <1>1. PICK n, w : n = Cardinality(Objects) /\ w = Walk
    OBVIOUS
  <1>2. /\ n \in Nat /\ IsWalk(w, n)
        /\ \A k \in 0..n : w[k] \in created \cup {NULL}
    BY <1>1, WalkDescends
  <1>3. PICK k \in 0..n : w[k] = p
    BY <1>1, WalkCovers
  <1>4. k # 0
    BY <1>2, <1>3 DEF IsWalk
  <1>5. p # NULL
    BY ProcessAssumption DEF ListInv, PidsOK
  <1>6. k \in 1..n /\ k - 1 \in 0..n /\ w[k] = Follow(w[k - 1])
    BY <1>2, <1>3, <1>4 DEF IsWalk
  <1>7. PICK B : B = {l \in DOMAIN w : w[l] # NULL /\ fields[w[l]].next = p}
    OBVIOUS
  <1>8. Before(p) = B
    BY <1>1, <1>7 DEF Before
  <1>9. B \subseteq 0..n /\ k - 1 \in B
    BY <1>2, <1>3, <1>5, <1>6, <1>7 DEF IsWalk, Follow
  <1>10. PICK m \in B : \A l \in B : m <= l
    <2>1. B \subseteq Nat /\ B # {}
      BY <1>2, <1>9
    <2>2. QED BY <2>1, LeastElement
  <1>11. PICK c : c = CHOOSE x \in B : \A l \in B : x <= l
    OBVIOUS
  <1>12. c \in B
    BY <1>10, <1>11
  <1>13. w[c] \in created /\ fields[w[c]].next = p
    BY <1>2, <1>7, <1>9, <1>12
  <1>14. FirstAt(Before(p)) = w[c]
    BY <1>1, <1>8, <1>11 DEF FirstAt
  <1>15. Unlink(p) = [fields EXCEPT ![w[c]].next = fields[p].next]
    BY <1>8, <1>9, <1>14 DEF Unlink
  <1>16. QED BY <1>13, <1>15

(* Unlinking p leaves the rest in order.                                   *)
LEMMA DestroyKeepsList ==
    ASSUME IInv, ListInv, NEW p \in Objects, process_destroy(p)
    PROVE  ListInv'
  <1>1. /\ p \in created /\ created' = created \ {p} /\ allocated' = allocated \ {p}
        /\ process_list' = IF process_list = p THEN fields[p].next ELSE process_list
        /\ fields' = Unlink(p) /\ next_pid' = next_pid /\ taskless' = taskless
    BY DEF process_destroy
  <1>2. \A q \in Objects : fields'[q].pid = fields[q].pid
    BY <1>1, UnlinkFacts DEF IInv
  <1>3. /\ created \subseteq Objects /\ NULL \notin created
        /\ \A q \in created : fields[q].pid \in Nat
        /\ \A q, r \in created : fields[q].pid = fields[r].pid => q = r
    BY ProcessAssumption DEF IInv, FieldsOK, Fields, ListInv, PidsOK
  <1>4. PidsOK'
    BY <1>1, <1>2, <1>3 DEF ListInv, PidsOK
  <1>5. ASSUME ~taskless' PROVE Chain(process_list', created', fields')
    <2>1. Chain(process_list, created, fields) /\ ~taskless
      BY <1>1, <1>5 DEF ListInv, Chained
    <2>2. \A q \in created : fields[q].next = p => fields[p].pid < fields[q].pid
      BY <1>1, <1>3, <2>1 DEF Chain, Newest, Older
    <2>3. ASSUME NEW q \in created
          PROVE  fields'[q].next = IF fields[q].next = p THEN fields[p].next ELSE fields[q].next
      <3>1. CASE process_list = p
        <4>1. fields' = fields
          BY <1>1, <3>1 DEF Unlink
        <4>2. fields[q].next # p
          <5>1. fields[q].pid <= fields[p].pid
            BY <1>1, <2>1, <3>1 DEF Chain, Newest
          <5>2. QED BY <1>1, <1>3, <2>2, <5>1
        <4>3. QED BY <4>1, <4>2
      <3>2. CASE process_list # p
        <4>1. PICK b \in created : /\ fields[b].next = p
                                   /\ fields' = [fields EXCEPT ![b].next = fields[p].next]
          BY <1>1, <2>1, <3>2, UnlinkLinks DEF IInv
        <4>2. fields[q].next = p => q = b
          <5>1. ASSUME fields[q].next = p, fields[q].pid < fields[b].pid PROVE FALSE
            BY <1>1, <1>3, <2>1, <2>2, <4>1, <5>1 DEF Chain, Newest, Older
          <5>2. ASSUME fields[q].next = p, fields[b].pid < fields[q].pid PROVE FALSE
            BY <1>1, <1>3, <2>1, <2>2, <4>1, <5>2 DEF Chain, Newest, Older
          <5>3. QED BY <1>3, <4>1, <5>1, <5>2
        <4>3. PICK v : v = fields[p].next
          OBVIOUS
        <4>4. fields'[q].next = IF q = b THEN v ELSE fields[q].next
          BY <1>3, <4>1, <4>3 DEF IInv, FieldsOK, Fields
        <4>5. QED BY <4>1, <4>2, <4>3, <4>4
      <3>3. QED BY <3>1, <3>2
    <2>4. \A q \in created : fields'[q].pid = fields[q].pid
      BY <1>2, <1>3
    <2>5. Chain(process_list', created \ {p}, fields')
      <3>1. Bypassed(process_list, fields, p, created, process_list', fields')
        BY <1>1, <1>3, <2>3, <2>4 DEF Bypassed
      <3>2. QED BY <2>1, <3>1, ChainUnlink
    <2>6. QED BY <1>1, <2>5
  <1>6. QED BY <1>4, <1>5 DEF ListInv, Chained

(* As long as no task_create has failed, the list has exactly the          *)
(* processes in use and process_lookup finds them.                         *)
THEOREM ListedCorrect == Spec => []Listed
  <1>1. Init => ListInv
    BY DEF Init, ListInv, PidsOK, Chained, Chain, Newest
  <1>2. IInv /\ ListInv /\ [Next]_vars => ListInv'
    <2> SUFFICES ASSUME IInv, ListInv, [Next]_vars PROVE ListInv'
      OBVIOUS
    <2>1. CASE UNCHANGED vars
      BY <2>1 DEF ListInv, PidsOK, Chained, Chain, Newest, Older, vars
    <2>2. ASSUME NEW t \in DOMAIN tasks, task_exit(t) PROVE ListInv'
      BY <2>2 DEF task_exit, ListInv, PidsOK, Chained, Chain, Newest, Older
    <2>3. QED BY <2>1, <2>2, CreateKeepsList, ExitKeepsList, DestroyKeepsList DEF Next
  <1>3. IInv /\ ListInv => Listed
    BY LookupFacts DEF IInv
  <1>4. QED BY <1>1, <1>2, <1>3, Invariance, PTL DEF Spec

-----------------------------------------------------------------------------
(* Loading a program (module ProcessLoad): what is in memory while the     *)
(* program headers are worked off.                                         *)

Ats == {"idle", "opened", "buffer", "read", "map", "entry"}

(* The call of process_exec_file, and what it has from the heap.           *)
CallOK(c, has) ==
    /\ c = [at |-> c.at, prog |-> c.prog, image |-> c.image, seg |-> c.seg, i |-> c.i]
    /\ c.at \in Ats /\ c.seg \in Nat /\ c.i \in Nat
    /\ c.at # "idle" => c.prog \in Programs
    /\ c.at \notin {"map", "entry"} => c.i = 0
    /\ c.at \in {"map", "entry"} => c.prog.valid /\ c.seg >= 1 /\ c.image = ImageOf(c.prog)
    /\ c.at = "entry" => c.seg > Len(c.prog.ph)
    /\ has \in SUBSET {"file", "buffer", "image", "lost"}
    /\ c.at = "idle" => has \subseteq {"lost"}
    /\ c.at = "opened" => has \subseteq {"file", "lost"}

CallsOK ==
    /\ call = [p \in Procs |-> call[p]] /\ owned = [p \in Procs |-> owned[p]]
    /\ \A p \in Procs : CallOK(call[p], owned[p])

(* A physical page is mapped at one page of one process at most, and then  *)
(* is not with the page allocator.                                         *)
FramesOK ==
    /\ unused \subseteq Frames
    /\ memory = [f \in Frames |-> memory[f]]
    /\ mapped \in [Procs -> [Pages -> Frames \cup {NONE}]]
    /\ \A p \in Procs : \A a \in Pages : mapped[p][a] # NONE =>
         /\ mapped[p][a] \notin unused
         /\ \A q \in Procs : \A b \in Pages : mapped[q][b] = mapped[p][a] => p = q /\ a = b

(* The byte a loader finds for offset k of segment j.                      *)
ByteAt(prog, j, k) ==
    IF k < prog.ph[j].filesz THEN Buffer(prog, prog.ph[j].offset + k) ELSE 0

(* Of the first n pages of segment j, those that no later segment is       *)
(* mapped over are in memory.                                              *)
Filled(p, prog, j, n) ==
    \A k \in 0..(prog.ph[j].memsz - 1) :
        k \div PAGE_SIZE < n /\ ~Replaced(prog, j, k) =>
            UserByte(p, Start(prog.ph[j]) + k) = ByteAt(prog, j, k)

(* Segments before the current one are in memory, and of the current one   *)
(* the pages the loop has done.                                            *)
SegmentOK(p, c) ==
    c.at \in {"map", "entry"} =>
        \A j \in Loads(c.prog) :
            /\ j < c.seg => Filled(p, c.prog, j, PageCount(c.prog.ph[j]))
            /\ j = c.seg => Filled(p, c.prog, j, c.i)

SegmentsOK == \A p \in Procs : SegmentOK(p, call[p])

(* A user process has all of its program, and before that process_exec has *)
(* set its image and entry point.                                          *)
FieldsOf(u, prog) ==
    u.prog = prog /\ u.image = ImageOf(prog) /\ u.user_rip = prog.entry

UserOK(p, u) ==
    /\ u.prog \in Programs /\ u.prog.valid /\ FieldsOf(u, u.prog)
    /\ \A j \in Loads(u.prog) : Filled(p, u.prog, j, PageCount(u.prog.ph[j]))

UsersOK ==
    /\ process = [p \in Procs |-> process[p]]
    /\ \A p \in Procs :
          process[p] = [image |-> process[p].image, user_rip |-> process[p].user_rip,
                        is_user |-> process[p].is_user, prog |-> process[p].prog]
    /\ \A p \in Procs : process[p].is_user => UserOK(p, process[p]) /\ call[p].at = "idle"
    /\ \A p \in Procs : call[p].at = "entry" => FieldsOf(process[p], call[p].prog)

LIInv == CallsOK /\ FramesOK /\ SegmentsOK /\ UsersOK

(* Division by the page size.                                              *)
LEMMA DivFacts ==
    ASSUME NEW k \in Nat
    PROVE  /\ k \div PAGE_SIZE \in Nat /\ k % PAGE_SIZE \in 0..(PAGE_SIZE - 1)
           /\ k = (k \div PAGE_SIZE) * PAGE_SIZE + (k % PAGE_SIZE)
  BY ProcessLoadAssumption

(* A number has one quotient and one remainder.                            *)
LEMMA DivUnique ==
    ASSUME NEW q \in Nat, NEW r \in 0..(PAGE_SIZE - 1)
    PROVE  (q * PAGE_SIZE + r) \div PAGE_SIZE = q /\ (q * PAGE_SIZE + r) % PAGE_SIZE = r
  BY ProcessLoadAssumption

(* At offset k of a segment that starts at a page.                         *)
LEMMA AlignedOffset ==
    ASSUME NEW v \in Nat, v % PAGE_SIZE = 0, NEW k \in Nat
    PROVE  /\ (v + k) \div PAGE_SIZE = v \div PAGE_SIZE + k \div PAGE_SIZE
           /\ (v + k) % PAGE_SIZE = k % PAGE_SIZE
  <1>1. PICK a, b, r : a = v \div PAGE_SIZE /\ b = k \div PAGE_SIZE /\ r = k % PAGE_SIZE
    OBVIOUS
  <1>2. /\ a \in Nat /\ b \in Nat /\ r \in 0..(PAGE_SIZE - 1)
        /\ v = a * PAGE_SIZE + (v % PAGE_SIZE) /\ k = b * PAGE_SIZE + r
    BY <1>1, DivFacts
  <1>3. PAGE_SIZE \in Nat
    BY ProcessLoadAssumption
  <1>4. v + k = (a + b) * PAGE_SIZE + r
    BY <1>2, <1>3
  <1>5. a + b \in Nat
    BY <1>2
  <1>6. QED BY <1>1, <1>2, <1>4, <1>5, DivUnique

(* The last page of n bytes is counted by the rounded quotient.            *)
LEMMA PageOfOffset ==
    ASSUME NEW n \in Nat, NEW k \in Nat, k < n
    PROVE  k \div PAGE_SIZE < (n + PAGE_SIZE - 1) \div PAGE_SIZE
  <1>1. PICK a, m : a = k \div PAGE_SIZE /\ m = n + PAGE_SIZE - 1
    OBVIOUS
  <1>2. PICK b : b = m \div PAGE_SIZE
    OBVIOUS
  <1>3. PAGE_SIZE \in Nat \ {0} /\ m \in Nat
    BY <1>1, ProcessLoadAssumption
  <1>4. /\ a \in Nat /\ a * PAGE_SIZE <= k
    <2>1. PICK x : x = a * PAGE_SIZE
      OBVIOUS
    <2>2. a \in Nat /\ k % PAGE_SIZE \in 0..(PAGE_SIZE - 1) /\ k = x + (k % PAGE_SIZE)
      BY <1>1, <2>1, DivFacts
    <2>3. x \in Nat
      BY <1>3, <2>1, <2>2
    <2>4. QED BY <1>3, <2>1, <2>2, <2>3
  <1>5. b \in Nat /\ m < (b + 1) * PAGE_SIZE
    <2>1. PICK x : x = b * PAGE_SIZE
      OBVIOUS
    <2>2. b \in Nat /\ m % PAGE_SIZE \in 0..(PAGE_SIZE - 1) /\ m = x + (m % PAGE_SIZE)
      BY <1>2, <1>3, <2>1, DivFacts
    <2>3. x \in Nat
      BY <1>3, <2>1, <2>2
    <2>4. m < x + PAGE_SIZE
      BY <1>3, <2>2, <2>3
    <2>5. (b + 1) * PAGE_SIZE = x + PAGE_SIZE
      BY <1>3, <2>1, <2>2
    <2>6. QED BY <2>2, <2>4, <2>5
  <1>6. (a + 1) * PAGE_SIZE < (b + 1) * PAGE_SIZE
    <2>1. PICK x, y : x = a * PAGE_SIZE /\ y = (b + 1) * PAGE_SIZE
      OBVIOUS
    <2>2. x \in Nat /\ y \in Nat
      BY <1>3, <1>4, <1>5, <2>1
    <2>3. (a + 1) * PAGE_SIZE = x + PAGE_SIZE
      BY <1>3, <1>4, <2>1
    <2>4. x + PAGE_SIZE < y
      BY <1>1, <1>3, <1>4, <1>5, <2>1, <2>2
    <2>5. QED BY <2>1, <2>3, <2>4
  <1>7. ~(b <= a)
    <2>1. ASSUME b <= a PROVE (b + 1) * PAGE_SIZE <= (a + 1) * PAGE_SIZE
      <3>1. PICK d \in Nat : a = b + d
        BY <1>4, <1>5, <2>1
      <3>2. (a + 1) * PAGE_SIZE = (b + 1) * PAGE_SIZE + d * PAGE_SIZE
        BY <1>3, <1>5, <3>1
      <3>3. d * PAGE_SIZE \in Nat /\ (b + 1) * PAGE_SIZE \in Nat
        BY <1>3, <1>5
      <3>4. QED BY <3>2, <3>3
    <2>2. (a + 1) * PAGE_SIZE \in Nat /\ (b + 1) * PAGE_SIZE \in Nat
      BY <1>3, <1>4, <1>5
    <2>3. QED BY <1>6, <2>1, <2>2
  <1>8. QED BY <1>1, <1>2, <1>4, <1>5, <1>7

(* What is assumed of a segment that is loaded.                            *)
LEMMA SegmentFacts ==
    ASSUME NEW prog \in Programs, prog.valid, NEW j \in Loads(prog), NEW ph, ph = prog.ph[j]
    PROVE  /\ j \in 1..Len(prog.ph) /\ Len(prog.ph) \in Nat
           /\ ph.vaddr \in Nat /\ ph.memsz \in Nat /\ ph.filesz \in Nat /\ ph.offset \in Nat
           /\ PagesOf(ph) \subseteq Pages
  <1>1. ProgramOK(prog)
    BY ProcessLoadAssumption
  <1>2. PICK s : s = prog.ph
    OBVIOUS
  <1>3. s \in Seq([type : STRING, offset : Nat, vaddr : Nat, filesz : Nat, memsz : Nat])
    BY <1>1, <1>2 DEF ProgramOK
  <1>4. j \in DOMAIN s /\ ph = s[j]
    BY <1>2 DEF Loads
  <1>5. j \in 1..Len(s) /\ Len(s) \in Nat
    BY <1>3, <1>4
  <1>6. ph \in [type : STRING, offset : Nat, vaddr : Nat, filesz : Nat, memsz : Nat]
    <2>1. PICK R : R = [type : STRING, offset : Nat, vaddr : Nat, filesz : Nat, memsz : Nat]
      OBVIOUS
    <2>2. s \in Seq(R)
      BY <1>3, <2>1
    <2>3. s[j] \in R
      BY <1>5, <2>2
    <2>4. QED BY <1>4, <2>1, <2>3
  <1>7. PagesOf(ph) \subseteq Pages
    BY <1>1 DEF ProgramOK
  <1>8. QED BY <1>2, <1>5, <1>6, <1>7

(* Where the bytes of a segment are put.                                   *)
LEMMA SegmentPage ==
    ASSUME NEW prog \in Programs, prog.valid, NEW j \in Loads(prog), NEW ph, ph = prog.ph[j],
           NEW k \in 0..(ph.memsz - 1)
    PROVE  /\ k \in Nat /\ k < ph.memsz
           /\ (Start(ph) + k) \div PAGE_SIZE = ph.vaddr \div PAGE_SIZE + k \div PAGE_SIZE
           /\ (Start(ph) + k) % PAGE_SIZE = k % PAGE_SIZE
           /\ (Start(ph) + k) \div PAGE_SIZE \in PagesOf(ph)
           /\ (Start(ph) + k) \div PAGE_SIZE \in Pages
           /\ k \div PAGE_SIZE < PageCount(ph)
  <1>1. /\ ph.vaddr \in Nat /\ ph.memsz \in Nat /\ PagesOf(ph) \subseteq Pages
    BY SegmentFacts
  <1>2. k \in Nat /\ k < ph.memsz
    BY <1>1
  <1>3. PICK a, v : a = ph.vaddr \div PAGE_SIZE /\ v = Start(ph)
    OBVIOUS
  <1>4. a \in Nat /\ 0 \in 0..(PAGE_SIZE - 1) /\ PAGE_SIZE \in Nat
    BY <1>1, <1>3, DivFacts, ProcessLoadAssumption
  <1>5. v = a * PAGE_SIZE /\ v \in Nat /\ v = a * PAGE_SIZE + 0
    BY <1>3, <1>4 DEF Start
  <1>6. v \div PAGE_SIZE = a /\ v % PAGE_SIZE = 0
    BY <1>4, <1>5, DivUnique
  <1>7. /\ (v + k) \div PAGE_SIZE = a + k \div PAGE_SIZE
        /\ (v + k) % PAGE_SIZE = k % PAGE_SIZE
    BY <1>2, <1>5, <1>6, AlignedOffset
  <1>8. PICK c : c = (ph.memsz + PAGE_SIZE - 1) \div PAGE_SIZE
    OBVIOUS
  <1>9. k \div PAGE_SIZE < c /\ k \div PAGE_SIZE \in Nat
    BY <1>1, <1>2, <1>8, PageOfOffset, DivFacts
  <1>10. c \in Nat
    <2>1. ph.memsz + PAGE_SIZE - 1 \in Nat
      BY <1>1, ProcessLoadAssumption
    <2>2. QED BY <1>8, <2>1, DivFacts
  <1>11. k \div PAGE_SIZE \in 0..(c - 1) /\ PageCount(ph) = c
    BY <1>8, <1>9, <1>10 DEF PageCount
  <1>12. (v + k) \div PAGE_SIZE \in PagesOf(ph)
    BY <1>3, <1>7, <1>11 DEF PagesOf
  <1>13. QED BY <1>1, <1>2, <1>3, <1>7, <1>9, <1>11, <1>12

(* The bytes of a page are those of the file, then zeroes.                 *)
LEMMA PartFacts ==
    ASSUME NEW size \in Nat, NEW offset \in Nat, NEW b \in 0..(PAGE_SIZE - 1)
    PROVE  b < Part(size, offset) <=> offset + b < size
  BY ProcessLoadAssumption DEF Part

(* Memory that is not touched reads as before.                             *)
LEMMA FilledKept ==
    ASSUME UNCHANGED <<memory, mapped>>, NEW p, NEW prog, NEW j, NEW n
    PROVE  Filled(p, prog, j, n)' <=> Filled(p, prog, j, n)
  BY DEF Filled, UserByte

(* Nothing is to be shown for no pages, and all pages are enough.          *)
LEMMA FilledEnds ==
    ASSUME NEW p, NEW prog \in Programs, prog.valid, NEW j \in Loads(prog)
    PROVE  /\ Filled(p, prog, j, 0)
           /\ \A n \in Nat : n >= PageCount(prog.ph[j]) /\ Filled(p, prog, j, n) =>
                 Filled(p, prog, j, PageCount(prog.ph[j]))
  <1>1. PICK ph : ph = prog.ph[j]
    OBVIOUS
  <1>2. \A k \in 0..(ph.memsz - 1) : k \div PAGE_SIZE \in Nat
    BY <1>1, SegmentPage, DivFacts
  <1>3. PageCount(ph) \in Nat
    <2>1. ph.memsz + PAGE_SIZE - 1 \in Nat
      BY <1>1, SegmentFacts, ProcessLoadAssumption
    <2>2. QED BY <2>1, DivFacts DEF PageCount
  <1>4. Filled(p, prog, j, 0)
    BY <1>1, <1>2 DEF Filled
  <1>5. ASSUME NEW n \in Nat, n >= PageCount(ph), Filled(p, prog, j, n)
        PROVE  Filled(p, prog, j, PageCount(ph))
    BY <1>1, <1>2, <1>3, <1>5 DEF Filled
  <1>6. QED BY <1>1, <1>4, <1>5

(* A step that changes the call for p, and no memory, keeps the invariant  *)
(* if the call it leaves is in order.                                      *)
LEMMA CallStep ==
    ASSUME LIInv, NEW p \in Procs, NEW c, NEW o,
           UNCHANGED <<unused, memory, mapped, process>>,
           call' = [call EXCEPT ![p] = c], owned' = [owned EXCEPT ![p] = o],
           CallOK(c, o), SegmentOK(p, c), process[p].is_user => c.at = "idle", c.at # "entry"
    PROVE  LIInv'
  <1>1. /\ call' = [q \in Procs |-> IF q = p THEN c ELSE call[q]]
        /\ owned' = [q \in Procs |-> IF q = p THEN o ELSE owned[q]]
    BY DEF LIInv, CallsOK
  <1>2. CallsOK'
    BY <1>1 DEF LIInv, CallsOK
  <1>3. FramesOK'
    BY DEF LIInv, FramesOK
  <1>4. SegmentsOK'
    <2>1. ASSUME NEW q \in Procs PROVE SegmentOK(q, call'[q])
      BY <1>1 DEF LIInv, SegmentsOK
    <2>2. ASSUME NEW q \in Procs, NEW d, SegmentOK(q, d) PROVE SegmentOK(q, d)'
      BY <2>2, FilledKept DEF SegmentOK
    <2>3. QED BY <2>1, <2>2 DEF SegmentsOK
  <1>5. UsersOK'
    <2>1. ASSUME NEW q \in Procs, NEW u, UserOK(q, u) PROVE UserOK(q, u)'
      BY <2>1, FilledKept DEF UserOK, FieldsOf
    <2>2. ASSUME NEW q \in Procs, process[q].is_user
          PROVE  UserOK(q, process[q])' /\ call'[q].at = "idle"
      BY <1>1, <2>1, <2>2 DEF LIInv, UsersOK
    <2>3. ASSUME NEW q \in Procs, call'[q].at = "entry"
          PROVE  FieldsOf(process[q], call'[q].prog)
      BY <1>1, <2>3 DEF LIInv, UsersOK
    <2>4. QED BY <2>2, <2>3 DEF LIInv, UsersOK, FieldsOf
  <1>6. QED BY <1>2, <1>3, <1>4, <1>5 DEF LIInv

(* The calls that touch neither memory nor the fields of the process.      *)
LEMMA ExecKeeps ==
    ASSUME LIInv, NEW p \in Procs,
           \/ \E prog \in Programs : exec_open(p, prog)
           \/ exec_buffer(p) \/ exec_no_buffer(p) \/ exec_read(p)
           \/ load_fails(p) \/ map_page_fails(p) \/ exec_no_entry(p)
    PROVE  LIInv'
  <1>1. PICK d : d = call[p]
    OBVIOUS
  <1>2. PICK h : h = owned[p]
    OBVIOUS
  <1>3. CallOK(d, h)
    BY <1>1, <1>2 DEF LIInv, CallsOK
  <1>4. /\ \A o \in SUBSET {"lost"} : CallOK(Idle, o)
        /\ SegmentOK(p, Idle) /\ Idle.at = "idle"
    BY DEF CallOK, SegmentOK, Idle, Ats
  <1>5. d.at # "idle" => ~process[p].is_user
    BY <1>1 DEF LIInv, UsersOK
  <1>6. ASSUME NEW prog \in Programs, exec_open(p, prog) PROVE LIInv'
    <2>1. PICK c : c = [Idle EXCEPT !.at = "opened", !.prog = prog]
      OBVIOUS
    <2>2. c = [at |-> "opened", prog |-> prog, image |-> NONE, seg |-> 0, i |-> 0]
      BY <2>1 DEF Idle
    <2>3. /\ call' = [call EXCEPT ![p] = c] /\ owned' = [owned EXCEPT ![p] = h \cup {"file"}]
          /\ UNCHANGED <<unused, memory, mapped, process>> /\ ~process[p].is_user
          /\ d.at = "idle" /\ c.at = "opened"
      BY <1>1, <1>2, <1>6, <2>1, <2>2 DEF exec_open
    <2>4. CallOK(c, h \cup {"file"}) /\ SegmentOK(p, c)
      BY <1>3, <2>2, <2>3 DEF CallOK, SegmentOK, Ats
    <2>5. QED BY <2>3, <2>4, CallStep
  <1>7. ASSUME exec_buffer(p) PROVE LIInv'
    <2>1. PICK c : c = [d EXCEPT !.at = "buffer"]
      OBVIOUS
    <2>2. /\ call' = [call EXCEPT ![p] = c] /\ owned' = [owned EXCEPT ![p] = h \cup {"buffer"}]
          /\ UNCHANGED <<unused, memory, mapped, process>> /\ d.at = "opened"
      BY <1>1, <1>2, <1>7, <2>1 DEF exec_buffer, GoTo
    <2>3. CallOK(c, h \cup {"buffer"}) /\ SegmentOK(p, c) /\ c.at = "buffer"
      BY <1>3, <2>1, <2>2 DEF CallOK, SegmentOK, Ats
    <2>4. QED BY <1>5, <2>2, <2>3, CallStep
  <1>8. ASSUME exec_no_buffer(p) PROVE LIInv'
    <2>1. /\ call' = [call EXCEPT ![p] = Idle] /\ owned' = [owned EXCEPT ![p] = h \ {"file"}]
          /\ UNCHANGED <<unused, memory, mapped, process>> /\ d.at = "opened"
      BY <1>1, <1>2, <1>8 DEF exec_no_buffer
    <2>2. h \ {"file"} \in SUBSET {"lost"}
      BY <1>3, <2>1 DEF CallOK
    <2>3. QED BY <1>4, <2>1, <2>2, CallStep
  <1>9. ASSUME Return(p), UNCHANGED <<unused, memory, mapped, process>> PROVE LIInv'
    <2>1. PICK o : o = (h \ {"buffer", "file", "image"}) \cup Lost(h)
      OBVIOUS
    <2>2. call' = [call EXCEPT ![p] = Idle] /\ owned' = [owned EXCEPT ![p] = o]
      BY <1>2, <1>9, <2>1 DEF Return
    <2>3. o \in SUBSET {"lost"}
      BY <1>3, <2>1 DEF CallOK, Lost
    <2>4. QED BY <1>4, <1>9, <2>2, <2>3, CallStep
  <1>10. ASSUME exec_read(p) PROVE LIInv'
    <2>1. CASE d.prog.directory
      BY <1>1, <1>9, <1>10, <2>1 DEF exec_read
    <2>2. CASE ~d.prog.directory
      <3>1. PICK c : c = [d EXCEPT !.at = "read"]
        OBVIOUS
      <3>2. /\ call' = [call EXCEPT ![p] = c] /\ owned' = owned
            /\ UNCHANGED <<unused, memory, mapped, process>> /\ d.at = "buffer"
        BY <1>1, <1>10, <2>2, <3>1 DEF exec_read, GoTo
      <3>3. owned' = [owned EXCEPT ![p] = h]
        BY <1>2, <3>2 DEF LIInv, CallsOK
      <3>4. CallOK(c, h) /\ SegmentOK(p, c) /\ c.at = "read"
        BY <1>3, <3>1, <3>2 DEF CallOK, SegmentOK, Ats
      <3>5. QED BY <1>5, <3>2, <3>3, <3>4, CallStep
    <2>3. QED BY <2>1, <2>2
  <1>11. ASSUME load_fails(p) \/ map_page_fails(p) \/ exec_no_entry(p) PROVE LIInv'
    BY <1>9, <1>11 DEF load_fails, map_page_fails, exec_no_entry
  <1>12. QED BY <1>6, <1>7, <1>8, <1>10, <1>11

(* elf_load_image, and the step to the next program header.                *)
LEMMA SegmentKeeps ==
    ASSUME LIInv, NEW p \in Procs, elf_load_image(p) \/ next_segment(p)
    PROVE  LIInv'
  <1>1. PICK d : d = call[p]
    OBVIOUS
  <1>2. PICK h : h = owned[p]
    OBVIOUS
  <1>3. CallOK(d, h) /\ owned = [owned EXCEPT ![p] = h] /\ SegmentOK(p, d)
    BY <1>1, <1>2 DEF LIInv, CallsOK, SegmentsOK
  <1>4. d.at # "idle" => ~process[p].is_user
    BY <1>1 DEF LIInv, UsersOK
  <1>5. CASE elf_load_image(p)
    <2>1. PICK c : c = [d EXCEPT !.at = "map", !.seg = 1, !.image = ImageOf(d.prog)]
      OBVIOUS
    <2> DEFINE o == IF Loads(d.prog) # {} THEN h \cup {"image"} ELSE h
    <2>2. /\ call' = [call EXCEPT ![p] = c] /\ owned' = [owned EXCEPT ![p] = o]
          /\ UNCHANGED <<unused, memory, mapped, process>> /\ d.at = "read" /\ d.prog.valid
      BY <1>1, <1>2, <1>5, <2>1 DEF elf_load_image
    <2>7. o \in SUBSET {"file", "buffer", "image", "lost"}
      BY <1>3 DEF CallOK
    <2> HIDE DEF o
    <2>3. /\ c.at = "map" /\ c.prog = d.prog /\ c.seg = 1 /\ c.i = 0
          /\ c.image = ImageOf(d.prog) /\ d.prog \in Programs
          /\ c = [at |-> c.at, prog |-> c.prog, image |-> c.image, seg |-> c.seg, i |-> c.i]
      BY <1>3, <2>1, <2>2 DEF CallOK
    <2>4. CallOK(c, o)
      BY <1>3, <2>2, <2>3, <2>7 DEF CallOK, Ats
    <2>5. SegmentOK(p, c)
      <3>1. ASSUME NEW j \in Loads(d.prog) PROVE j >= 1 /\ Filled(p, d.prog, j, 0)
        <4>1. j \in 1..Len(d.prog.ph) /\ Len(d.prog.ph) \in Nat
          BY <2>2, <2>3, SegmentFacts
        <4>2. QED BY <2>2, <2>3, <4>1, FilledEnds
      <3>2. \A j \in Loads(d.prog) : ~(j < 1)
        <4>1. ASSUME NEW j \in Loads(d.prog) PROVE ~(j < 1)
          <5>1. j \in 1..Len(d.prog.ph) /\ Len(d.prog.ph) \in Nat
            BY <2>2, <2>3, SegmentFacts
          <5>2. QED BY <5>1
        <4>2. QED BY <4>1
      <3>3. QED BY <2>3, <3>1, <3>2 DEF SegmentOK
    <2>6. QED BY <1>3, <1>4, <2>2, <2>3, <2>4, <2>5, CallStep
  <1>6. CASE next_segment(p)
    <2>1. PICK c : c = [d EXCEPT !.seg = d.seg + 1, !.i = 0]
      OBVIOUS
    <2>2. /\ call' = [call EXCEPT ![p] = c] /\ owned' = owned
          /\ UNCHANGED <<unused, memory, mapped, process>> /\ d.at = "map"
          /\ ~(d.prog.ph[d.seg].type = "PT_LOAD" /\ d.i < PageCount(d.prog.ph[d.seg]))
      <3>1. /\ call' = [call EXCEPT ![p] = c] /\ owned' = owned
            /\ UNCHANGED <<unused, memory, mapped, process>>
        <4>1. call' = [call EXCEPT ![p] = [call[p] EXCEPT !.seg = call[p].seg + 1, !.i = 0]]
          BY <1>6 DEF next_segment
        <4>2. UNCHANGED <<unused, memory, mapped, owned, process>>
          BY <1>6 DEF next_segment
        <4>3. QED BY <1>1, <2>1, <4>1, <4>2
      <3>2. d.at = "map"
        BY <1>1, <1>6 DEF next_segment, InSegments
      <3>3. ~(d.prog.ph[d.seg].type = "PT_LOAD" /\ d.i < PageCount(d.prog.ph[d.seg]))
        BY <1>1, <1>6 DEF next_segment, InPages, Segment
      <3>4. QED BY <3>1, <3>2, <3>3
    <2>3. /\ c.at = "map" /\ c.prog = d.prog /\ c.seg = d.seg + 1 /\ c.i = 0 /\ c.image = d.image
          /\ d.prog \in Programs /\ d.prog.valid /\ d.seg \in Nat /\ d.i \in Nat
          /\ c = [at |-> c.at, prog |-> c.prog, image |-> c.image, seg |-> c.seg, i |-> c.i]
      BY <1>3, <2>1, <2>2 DEF CallOK
    <2>4. CallOK(c, h)
      BY <1>3, <2>2, <2>3 DEF CallOK, Ats
    <2>5. ASSUME NEW j \in Loads(d.prog)
          PROVE  /\ j < d.seg + 1 => Filled(p, d.prog, j, PageCount(d.prog.ph[j]))
                 /\ Filled(p, d.prog, j, 0)
      <3>1. Filled(p, d.prog, j, 0)
        BY <2>3, FilledEnds
      <3>2. ASSUME j = d.seg PROVE Filled(p, d.prog, j, PageCount(d.prog.ph[j]))
        <4>1. Filled(p, d.prog, j, d.i)
          BY <1>3, <2>2, <3>2 DEF SegmentOK
        <4>2. PICK n : n = PageCount(d.prog.ph[j])
          OBVIOUS
        <4>3. n \in Nat
          <5>1. PICK ph : ph = d.prog.ph[j]
            OBVIOUS
          <5>2. ph.memsz \in Nat
            BY <2>3, <5>1, SegmentFacts
          <5>3. ph.memsz + PAGE_SIZE - 1 \in Nat
            BY <5>2, ProcessLoadAssumption
          <5>4. QED BY <4>2, <5>1, <5>3, DivFacts DEF PageCount
        <4>4. d.i >= n
          BY <2>2, <2>3, <3>2, <4>2, <4>3 DEF Loads
        <4>5. QED BY <2>3, <4>1, <4>2, <4>4, FilledEnds
      <3>3. j \in Nat
        <4>1. j \in 1..Len(d.prog.ph) /\ Len(d.prog.ph) \in Nat
          BY <2>3, SegmentFacts
        <4>2. QED BY <4>1
      <3>4. j < d.seg + 1 => j < d.seg \/ j = d.seg
        BY <2>3, <3>3
      <3>5. j < d.seg => Filled(p, d.prog, j, PageCount(d.prog.ph[j]))
        BY <1>3, <2>2 DEF SegmentOK
      <3>6. QED BY <3>1, <3>2, <3>4, <3>5
    <2>6. SegmentOK(p, c)
      BY <2>3, <2>5 DEF SegmentOK
    <2>7. QED BY <1>3, <1>4, <2>2, <2>3, <2>4, <2>6, CallStep
  <1>7. QED BY <1>5, <1>6

(* A step that leaves memory alone and changes call, owned and process of  *)
(* p only.                                                                 *)
LEMMA FieldStep ==
    ASSUME LIInv, NEW p \in Procs, NEW c, NEW o, NEW u,
           UNCHANGED <<unused, memory, mapped>>,
           call' = [call EXCEPT ![p] = c], owned' = [owned EXCEPT ![p] = o],
           process' = [process EXCEPT ![p] = u],
           u = [image |-> u.image, user_rip |-> u.user_rip, is_user |-> u.is_user, prog |-> u.prog],
           CallOK(c, o), SegmentOK(p, c),
           u.is_user => UserOK(p, u) /\ c.at = "idle",
           c.at = "entry" => FieldsOf(u, c.prog)
    PROVE  LIInv'
  <1>1. /\ call' = [q \in Procs |-> IF q = p THEN c ELSE call[q]]
        /\ owned' = [q \in Procs |-> IF q = p THEN o ELSE owned[q]]
        /\ process' = [q \in Procs |-> IF q = p THEN u ELSE process[q]]
    BY DEF LIInv, CallsOK, UsersOK
  <1>2. CallsOK'
    BY <1>1 DEF LIInv, CallsOK
  <1>3. FramesOK'
    BY DEF LIInv, FramesOK
  <1>4. SegmentsOK'
    <2>1. ASSUME NEW q \in Procs PROVE SegmentOK(q, call'[q])
      BY <1>1 DEF LIInv, SegmentsOK
    <2>2. ASSUME NEW q \in Procs, NEW d, SegmentOK(q, d) PROVE SegmentOK(q, d)'
      BY <2>2, FilledKept DEF SegmentOK
    <2>3. QED BY <2>1, <2>2 DEF SegmentsOK
  <1>5. UsersOK'
    <2>1. ASSUME NEW q \in Procs, NEW x, UserOK(q, x) PROVE UserOK(q, x)'
      BY <2>1, FilledKept DEF UserOK, FieldsOf
    <2>2. ASSUME NEW q \in Procs, NEW x, x = process'[q], x.is_user
          PROVE  UserOK(q, x)' /\ call'[q].at = "idle"
      <3>1. UserOK(q, x) /\ call'[q].at = "idle"
        BY <1>1, <2>2 DEF LIInv, UsersOK
      <3>2. QED BY <2>1, <3>1
    <2>3. ASSUME NEW q \in Procs, call'[q].at = "entry"
          PROVE  FieldsOf(process'[q], call'[q].prog)
      BY <1>1, <2>3 DEF LIInv, UsersOK
    <2>4. ASSUME NEW q \in Procs
          PROVE  process'[q] = [image |-> process'[q].image, user_rip |-> process'[q].user_rip,
                                is_user |-> process'[q].is_user, prog |-> process'[q].prog]
      BY <1>1 DEF LIInv, UsersOK
    <2>5. process' = [q \in Procs |-> process'[q]]
      BY <1>1
    <2>6. ASSUME NEW q \in Procs, (process[q].is_user)'
          PROVE  UserOK(q, process[q])' /\ call'[q].at = "idle"
      <3>1. PICK x : x = process'[q]
        OBVIOUS
      <3>2. UserOK(q, x)' /\ call'[q].at = "idle"
        BY <2>2, <2>6, <3>1
      <3>3. QED BY <3>1, <3>2
    <2>7. QED BY <2>3, <2>4, <2>5, <2>6 DEF UsersOK, FieldsOf
  <1>6. QED BY <1>2, <1>3, <1>4, <1>5 DEF LIInv

(* All program headers are done: image and entry point are of the program. *)
LEMMA ImageKeeps ==
    ASSUME LIInv, NEW p \in Procs, exec_image(p)
    PROVE  LIInv'
  <1>1. PICK d, h, w : d = call[p] /\ h = owned[p] /\ w = process[p]
    OBVIOUS
  <1>2. PICK lost : lost = IF w.image # NONE /\ w.image.base # NONE THEN {"lost"} ELSE {}
    OBVIOUS
  <1>3. PICK c : c = [d EXCEPT !.at = "entry"]
    OBVIOUS
  <1>4. PICK u : u = [w EXCEPT !.image = d.image, !.prog = d.prog, !.user_rip = d.prog.entry]
    OBVIOUS
  <1>5. /\ d.at = "map" /\ d.seg > Len(d.prog.ph) /\ process' = [process EXCEPT ![p] = u]
        /\ call' = [call EXCEPT ![p] = c] /\ owned' = [owned EXCEPT ![p] = (h \ {"image"}) \cup lost]
        /\ UNCHANGED <<unused, memory, mapped>>
    BY <1>1, <1>2, <1>3, <1>4 DEF exec_image, GoTo
  <1>6. CallOK(d, h) /\ SegmentOK(p, d)
    BY <1>1 DEF LIInv, CallsOK, SegmentsOK
  <1>7. (h \ {"image"}) \cup lost \in SUBSET {"file", "buffer", "image", "lost"}
    BY <1>2, <1>6 DEF CallOK
  <1>8. /\ c.at = "entry" /\ c.prog = d.prog /\ c.image = d.image /\ c.seg = d.seg /\ c.i = d.i
        /\ c = [at |-> c.at, prog |-> c.prog, image |-> c.image, seg |-> c.seg, i |-> c.i]
    BY <1>3, <1>6 DEF CallOK
  <1>9. CallOK(c, (h \ {"image"}) \cup lost) /\ SegmentOK(p, c)
    <2>1. SegmentOK(p, c)
      BY <1>5, <1>6, <1>8 DEF SegmentOK
    <2>2. PICK o : o = (h \ {"image"}) \cup lost
      OBVIOUS
    <2>3. CallOK(c, o)
      BY <1>5, <1>6, <1>7, <1>8, <2>2 DEF CallOK, Ats
    <2>4. QED BY <2>1, <2>2, <2>3
  <1>10. w = [image |-> w.image, user_rip |-> w.user_rip, is_user |-> w.is_user, prog |-> w.prog]
    BY <1>1 DEF LIInv, UsersOK
  <1>11. /\ u = [image |-> u.image, user_rip |-> u.user_rip, is_user |-> u.is_user, prog |-> u.prog]
         /\ u.image = d.image /\ u.prog = d.prog /\ u.user_rip = d.prog.entry
         /\ u.is_user = w.is_user
    BY <1>4, <1>10, Zenon
  <1>12. ~u.is_user
    BY <1>1, <1>5, <1>11 DEF LIInv, UsersOK
  <1>13. FieldsOf(u, c.prog)
    BY <1>5, <1>6, <1>8, <1>11 DEF FieldsOf, CallOK
  <1>14. QED BY <1>5, <1>9, <1>11, <1>12, <1>13, FieldStep

(* The process becomes a user process: all segments are in memory.         *)
LEMMA UserKeeps ==
    ASSUME LIInv, NEW p \in Procs, exec_user(p)
    PROVE  LIInv'
  <1>1. PICK d, h, w : d = call[p] /\ h = owned[p] /\ w = process[p]
    OBVIOUS
  <1>2. PICK u : u = [w EXCEPT !.is_user = TRUE]
    OBVIOUS
  <1>3. PICK o : o = (h \ {"buffer", "file", "image"}) \cup Lost(h)
    OBVIOUS
  <1>4. /\ d.at = "entry" /\ process' = [process EXCEPT ![p] = u]
        /\ call' = [call EXCEPT ![p] = Idle] /\ owned' = [owned EXCEPT ![p] = o]
        /\ UNCHANGED <<unused, memory, mapped>>
    BY <1>1, <1>2, <1>3 DEF exec_user, Return
  <1>5. CallOK(d, h) /\ SegmentOK(p, d) /\ FieldsOf(w, d.prog)
    BY <1>1, <1>4 DEF LIInv, CallsOK, SegmentsOK, UsersOK
  <1>6. o \in SUBSET {"lost"}
    BY <1>3, <1>5 DEF CallOK, Lost
  <1>7. CallOK(Idle, o) /\ SegmentOK(p, Idle) /\ Idle.at = "idle"
    BY <1>6 DEF CallOK, SegmentOK, Idle, Ats
  <1>8. w = [image |-> w.image, user_rip |-> w.user_rip, is_user |-> w.is_user, prog |-> w.prog]
    BY <1>1 DEF LIInv, UsersOK
  <1>9. /\ u = [image |-> u.image, user_rip |-> u.user_rip, is_user |-> u.is_user, prog |-> u.prog]
        /\ u.image = w.image /\ u.prog = w.prog /\ u.user_rip = w.user_rip
    BY <1>2, <1>8, Zenon
  <1>10. UserOK(p, u)
    <2>1. d.prog \in Programs /\ d.prog.valid /\ d.seg \in Nat /\ d.seg > Len(d.prog.ph)
      BY <1>4, <1>5 DEF CallOK
    <2>2. ASSUME NEW j \in Loads(d.prog) PROVE Filled(p, d.prog, j, PageCount(d.prog.ph[j]))
      <3>1. j \in 1..Len(d.prog.ph) /\ Len(d.prog.ph) \in Nat
        BY <2>1, SegmentFacts
      <3>2. j < d.seg
        BY <2>1, <3>1
      <3>3. QED BY <1>4, <1>5, <3>2 DEF SegmentOK
    <2>3. u.prog = d.prog /\ FieldsOf(u, d.prog)
      BY <1>5, <1>9 DEF FieldsOf
    <2>4. QED BY <2>1, <2>2, <2>3 DEF UserOK
  <1>11. QED BY <1>4, <1>7, <1>9, <1>10, FieldStep

(* The program headers are a sequence.                                     *)
LEMMA HeaderFacts ==
    ASSUME NEW prog \in Programs, prog.valid
    PROVE  Len(prog.ph) \in Nat /\ DOMAIN prog.ph = 1..Len(prog.ph)
  <1>1. PICK s : s = prog.ph
    OBVIOUS
  <1>2. PICK R : R = [type : STRING, offset : Nat, vaddr : Nat, filesz : Nat, memsz : Nat]
    OBVIOUS
  <1>3. s \in Seq(R)
    BY <1>1, <1>2, ProcessLoadAssumption DEF ProgramOK
  <1>4. QED BY <1>1, <1>3

(* One round of process_map_segment: the page it fills, and what it leaves *)
(* alone.                                                                  *)
PageRound(p, page, f, bytes) ==
    /\ f \in unused /\ f \in Frames /\ page \in Pages
    /\ mapped' = [mapped EXCEPT ![p][page] = f]
    /\ memory' = [memory EXCEPT ![f] = bytes]
    /\ unused' = unused \ {f}

(* Bytes of other pages read as before, whoever has them mapped.           *)
LEMMA ByteKept ==
    ASSUME FramesOK, NEW p \in Procs, NEW page, NEW f, NEW bytes, PageRound(p, page, f, bytes),
           NEW q \in Procs, NEW a, a \div PAGE_SIZE \in Pages, q # p \/ a \div PAGE_SIZE # page
    PROVE  UserByte(q, a)' = UserByte(q, a)
  <1>1. PICK x : x = a \div PAGE_SIZE
    OBVIOUS
  <1>2. mapped'[q][x] = mapped[q][x]
    BY <1>1 DEF FramesOK, PageRound
  <1>3. mapped[q][x] # NONE => mapped[q][x] \in Frames /\ mapped[q][x] # f
    BY <1>1 DEF FramesOK, PageRound
  <1>4. \A g \in Frames \ {f} : memory'[g] = memory[g]
    BY DEF FramesOK, PageRound
  <1>5. QED BY <1>1, <1>2, <1>3, <1>4 DEF UserByte

(* Bytes of the new page are those just put there.                         *)
LEMMA ByteNew ==
    ASSUME FramesOK, NEW p \in Procs, NEW page, NEW f, NEW bytes, PageRound(p, page, f, bytes),
           NEW a, a \div PAGE_SIZE = page
    PROVE  UserByte(p, a)' = bytes[a % PAGE_SIZE]
  <1>1. mapped'[p][page] = f
    BY DEF FramesOK, PageRound
  <1>2. memory'[f] = bytes /\ f # NONE
    BY ProcessLoadAssumption DEF FramesOK, PageRound
  <1>3. QED BY <1>1, <1>2 DEF UserByte

(* The new page is not mapped twice.                                       *)
LEMMA RoundFrames ==
    ASSUME FramesOK, NEW p \in Procs, NEW page, NEW f, NEW bytes, PageRound(p, page, f, bytes)
    PROVE  FramesOK'
  <1>1. /\ unused' \subseteq Frames /\ memory' = [g \in Frames |-> memory'[g]]
        /\ mapped' \in [Procs -> [Pages -> Frames \cup {NONE}]]
    BY DEF FramesOK, PageRound
  <1>2. ASSUME NEW q \in Procs, NEW a \in Pages
        PROVE  mapped'[q][a] = IF q = p /\ a = page THEN f ELSE mapped[q][a]
    BY DEF FramesOK, PageRound
  <1>3. ASSUME NEW q \in Procs, NEW a \in Pages, mapped'[q][a] # NONE
        PROVE  /\ mapped'[q][a] \notin unused'
               /\ \A r \in Procs : \A b \in Pages : mapped'[r][b] = mapped'[q][a] => q = r /\ a = b
    <2>1. \A r \in Procs : \A b \in Pages : mapped[r][b] # f
      BY ProcessLoadAssumption DEF FramesOK, PageRound
    <2>2. CASE q = p /\ a = page
      BY <1>2, <2>1, <2>2 DEF PageRound
    <2>3. CASE ~(q = p /\ a = page)
      BY <1>2, <1>3, <2>1, <2>3 DEF FramesOK, PageRound
    <2>4. QED BY <2>2, <2>3
  <1>4. QED BY <1>1, <1>3 DEF FramesOK

(* So a segment, or a part of one, stays if it does not have the page, or  *)
(* if a later segment is mapped there.                                     *)
LEMMA FilledOther ==
    ASSUME FramesOK, NEW p \in Procs, NEW page, NEW f, NEW bytes, PageRound(p, page, f, bytes),
           NEW q \in Procs, NEW prog \in Programs, prog.valid, NEW j \in Loads(prog), NEW n,
           Filled(q, prog, j, n),
           \/ q # p
           \/ \A k \in 0..(prog.ph[j].memsz - 1) :
                 k \div PAGE_SIZE < n /\ ~Replaced(prog, j, k) =>
                     (Start(prog.ph[j]) + k) \div PAGE_SIZE # page
    PROVE  Filled(q, prog, j, n)'
  <1>1. PICK ph : ph = prog.ph[j]
    OBVIOUS
  <1>2. ASSUME NEW k \in 0..(ph.memsz - 1), k \div PAGE_SIZE < n, ~Replaced(prog, j, k)
        PROVE  UserByte(q, Start(ph) + k)' = UserByte(q, Start(ph) + k)
    <2>1. (Start(ph) + k) \div PAGE_SIZE \in Pages
      BY <1>1, SegmentPage
    <2>2. PICK a : a = Start(ph) + k
      OBVIOUS
    <2>3. q # p \/ a \div PAGE_SIZE # page
      BY <1>1, <1>2, <2>2
    <2>4. UserByte(q, a)' = UserByte(q, a)
      BY <2>1, <2>2, <2>3, ByteKept
    <2>5. QED BY <2>2, <2>4 DEF UserByte
  <1>3. QED BY <1>1, <1>2 DEF Filled

(* One more page of a segment.                                             *)
LEMMA FilledMore ==
    ASSUME FramesOK, NEW p \in Procs, NEW prog \in Programs, prog.valid, NEW j \in Loads(prog),
           NEW n \in Nat, NEW f, NEW bytes, NEW old,
           PageRound(p, prog.ph[j].vaddr \div PAGE_SIZE + n, f, bytes),
           bytes = [b \in 0..(PAGE_SIZE - 1) |->
               IF b < Part(prog.ph[j].filesz, n * PAGE_SIZE)
               THEN Buffer(prog, prog.ph[j].offset + n * PAGE_SIZE + b)
               ELSE IF b < Part(prog.ph[j].memsz, n * PAGE_SIZE) THEN 0 ELSE old[b]],
           Filled(p, prog, j, n)
    PROVE  Filled(p, prog, j, n + 1)'
  <1>1. PICK ph : ph = prog.ph[j]
    OBVIOUS
  <1>2. PICK page : page = ph.vaddr \div PAGE_SIZE + n
    OBVIOUS
  <1>3. PageRound(p, page, f, bytes)
    BY <1>1, <1>2
  <1>4. ph.vaddr \in Nat /\ ph.memsz \in Nat /\ ph.filesz \in Nat /\ ph.offset \in Nat
    BY <1>1, SegmentFacts
  <1>5. PICK v : v = ph.vaddr \div PAGE_SIZE
    OBVIOUS
  <1>6. v \in Nat
    BY <1>4, <1>5, DivFacts
  <1>7. Filled(p, prog, j, n)'
    <2>1. ASSUME NEW k \in 0..(ph.memsz - 1), k \div PAGE_SIZE < n
          PROVE  (Start(ph) + k) \div PAGE_SIZE # page
      <3>1. (Start(ph) + k) \div PAGE_SIZE = v + k \div PAGE_SIZE /\ k \in Nat
        BY <1>1, <1>5, SegmentPage
      <3>2. k \div PAGE_SIZE \in Nat
        BY <3>1, DivFacts
      <3>3. QED BY <1>2, <1>5, <1>6, <2>1, <3>1, <3>2
    <2>2. QED BY <1>1, <1>3, <2>1, FilledOther
  <1>8. ASSUME NEW k \in 0..(ph.memsz - 1), k \div PAGE_SIZE = n
        PROVE  UserByte(p, Start(ph) + k)' = ByteAt(prog, j, k)
    <2>1. /\ (Start(ph) + k) \div PAGE_SIZE = page /\ k \in Nat /\ k < ph.memsz
          /\ (Start(ph) + k) % PAGE_SIZE = k % PAGE_SIZE
      BY <1>1, <1>2, <1>8, SegmentPage
    <2>2. PICK a : a = Start(ph) + k
      OBVIOUS
    <2>3. UserByte(p, a)' = bytes[a % PAGE_SIZE]
      <3>1. a \div PAGE_SIZE = page
        BY <2>1, <2>2
      <3>2. QED BY <1>3, <3>1, ByteNew
    <2>4. PICK b : b = k % PAGE_SIZE
      OBVIOUS
    <2>5. PICK o : o = n * PAGE_SIZE
      OBVIOUS
    <2>6. b \in 0..(PAGE_SIZE - 1) /\ k = o + b
      BY <1>8, <2>1, <2>4, <2>5, DivFacts
    <2>7. o \in Nat /\ b \in Nat
      BY <2>5, <2>6, ProcessLoadAssumption
    <2>8. /\ b < Part(ph.filesz, o) <=> k < ph.filesz
          /\ b < Part(ph.memsz, o) <=> k < ph.memsz
      BY <1>4, <2>6, <2>7, PartFacts
    <2>9. bytes[b] = IF b < Part(ph.filesz, o) THEN Buffer(prog, ph.offset + o + b)
                     ELSE IF b < Part(ph.memsz, o) THEN 0 ELSE old[b]
      BY <1>1, <2>5, <2>6
    <2>10. ph.offset + o + b = ph.offset + k
      BY <1>4, <2>6, <2>7
    <2>11. bytes[b] = IF k < ph.filesz THEN Buffer(prog, ph.offset + k) ELSE 0
      BY <2>1, <2>8, <2>9, <2>10
    <2>12. QED BY <1>1, <2>1, <2>2, <2>3, <2>4, <2>11 DEF UserByte, ByteAt
  <1>9. ASSUME NEW k \in 0..(ph.memsz - 1), k \div PAGE_SIZE < n + 1, ~Replaced(prog, j, k)
        PROVE  UserByte(p, Start(ph) + k)' = ByteAt(prog, j, k)
    <2>1. k \in Nat
      BY <1>4
    <2>2. k \div PAGE_SIZE \in Nat
      BY <2>1, DivFacts
    <2>3. k \div PAGE_SIZE < n \/ k \div PAGE_SIZE = n
      BY <1>9, <2>2
    <2>4. QED BY <1>1, <1>7, <1>8, <1>9, <2>3 DEF Filled
  <1>10. QED BY <1>1, <1>9 DEF Filled

(* One round of process_map_segment.                                       *)
LEMMA MapKeeps ==
    ASSUME LIInv, NEW p \in Procs, NEW f \in Frames, map_page(p, f)
    PROVE  LIInv'
  <1>1. PICK d : d = call[p]
    OBVIOUS
  <1>2. PICK prog, s, n : prog = d.prog /\ s = d.seg /\ n = d.i
    OBVIOUS
  <1>3. PICK ph : ph = prog.ph[s]
    OBVIOUS
  <1>4. PICK page : page = ph.vaddr \div PAGE_SIZE + n
    OBVIOUS
  <1>5. PICK bytes : bytes = PageBytes(p, f)
    OBVIOUS
  <1>6. CallOK(d, owned[p]) /\ SegmentOK(p, d) /\ FramesOK
    BY <1>1 DEF LIInv, CallsOK, SegmentsOK
  <1>7. d.at = "map" /\ s <= Len(prog.ph) /\ ph.type = "PT_LOAD" /\ n < PageCount(ph)
    BY <1>1, <1>2, <1>3 DEF map_page, InPages, InSegments, Segment
  <1>8. prog \in Programs /\ prog.valid /\ s \in Nat /\ s >= 1 /\ n \in Nat
    BY <1>2, <1>6, <1>7 DEF CallOK
  <1>9. s \in Loads(prog)
    <2>1. Len(prog.ph) \in Nat /\ DOMAIN prog.ph = 1..Len(prog.ph)
      BY <1>8, HeaderFacts
    <2>2. QED BY <1>3, <1>7, <1>8, <2>1 DEF Loads
  <1>10. page \in PagesOf(ph) /\ page \in Pages
    <2>1. /\ ph.memsz \in Nat /\ PagesOf(ph) \subseteq Pages
      BY <1>3, <1>8, <1>9, SegmentFacts
    <2>2. PICK c : c = (ph.memsz + PAGE_SIZE - 1) \div PAGE_SIZE
      OBVIOUS
    <2>3. c \in Nat
      <3>1. ph.memsz + PAGE_SIZE - 1 \in Nat
        BY <2>1, ProcessLoadAssumption
      <3>2. QED BY <2>2, <3>1, DivFacts
    <2>4. n \in 0..(c - 1) /\ PageCount(ph) = c
      BY <1>7, <1>8, <2>2, <2>3 DEF PageCount
    <2>5. page \in PagesOf(ph)
      BY <1>4, <2>4 DEF PagesOf
    <2>6. QED BY <2>1, <2>5
  <1>11. PageRound(p, page, f, bytes)
    BY <1>1, <1>2, <1>3, <1>4, <1>5, <1>10 DEF map_page, PageRound, Segment
  <1>12. /\ call' = [call EXCEPT ![p].i = @ + 1] /\ owned' = owned /\ process' = process
    BY DEF map_page
  <1>13. FramesOK'
    BY <1>6, <1>11, RoundFrames
  <1>14. PICK e : e = [d EXCEPT !.i = n + 1]
    OBVIOUS
  <1>15. call' = [q \in Procs |-> IF q = p THEN e ELSE call[q]]
    BY <1>1, <1>2, <1>12, <1>14 DEF LIInv, CallsOK
  <1>16. /\ e.at = "map" /\ e.prog = prog /\ e.seg = s /\ e.i = n + 1 /\ e.image = d.image
         /\ e = [at |-> e.at, prog |-> e.prog, image |-> e.image, seg |-> e.seg, i |-> e.i]
    BY <1>2, <1>6, <1>7, <1>14 DEF CallOK
  <1>17. CallOK(e, owned[p])
    BY <1>1, <1>2, <1>6, <1>7, <1>8, <1>16 DEF CallOK, Ats
  <1>18. CallsOK'
    BY <1>12, <1>15, <1>17 DEF LIInv, CallsOK
  <1>19. SegmentOK(p, e)'
    <2>1. ASSUME NEW j \in Loads(prog), j < s
          PROVE  Filled(p, prog, j, PageCount(prog.ph[j]))'
      <3>1. Filled(p, prog, j, PageCount(prog.ph[j]))
        BY <1>2, <1>6, <1>7, <2>1 DEF SegmentOK
      <3>2. s > j
        <4>1. j \in 1..Len(prog.ph) /\ Len(prog.ph) \in Nat
          BY <1>8, SegmentFacts
        <4>2. QED BY <1>8, <2>1, <4>1
      <3>3. ASSUME NEW k \in 0..(prog.ph[j].memsz - 1), ~Replaced(prog, j, k)
            PROVE  (Start(prog.ph[j]) + k) \div PAGE_SIZE # page
        <4>1. (Start(prog.ph[j]) + k) \div PAGE_SIZE
                 = prog.ph[j].vaddr \div PAGE_SIZE + k \div PAGE_SIZE
          BY <1>8, SegmentPage
        <4>2. prog.ph[j].vaddr \div PAGE_SIZE + k \div PAGE_SIZE \notin PagesOf(ph)
          BY <1>3, <1>9, <3>2, <3>3 DEF Replaced
        <4>3. QED BY <1>10, <4>1, <4>2
      <3>4. QED BY <1>6, <1>8, <1>11, <3>1, <3>3, FilledOther
    <2>2. Filled(p, prog, s, n + 1)'
      <3>1. Filled(p, prog, s, n)
        BY <1>2, <1>6, <1>7, <1>9 DEF SegmentOK
      <3>2. bytes = [b \in 0..(PAGE_SIZE - 1) |->
               IF b < Part(prog.ph[s].filesz, n * PAGE_SIZE)
               THEN Buffer(prog, prog.ph[s].offset + n * PAGE_SIZE + b)
               ELSE IF b < Part(prog.ph[s].memsz, n * PAGE_SIZE) THEN 0 ELSE memory[f][b]]
        BY <1>1, <1>2, <1>5 DEF PageBytes, Segment
      <3>3. PageRound(p, prog.ph[s].vaddr \div PAGE_SIZE + n, f, bytes)
        BY <1>3, <1>4, <1>11
      <3>4. QED BY <1>6, <1>8, <1>9, <3>1, <3>2, <3>3, FilledMore
    <2>3. QED BY <1>16, <2>1, <2>2 DEF SegmentOK
  <1>20. SegmentsOK'
    <2>1. ASSUME NEW q \in Procs, q # p PROVE SegmentOK(q, call[q])'
      <3>1. PICK c : c = call[q]
        OBVIOUS
      <3>2. SegmentOK(q, c) /\ CallOK(c, owned[q])
        BY <3>1 DEF LIInv, SegmentsOK, CallsOK
      <3>3. ASSUME c.at \in {"map", "entry"}, NEW j \in Loads(c.prog), NEW m, Filled(q, c.prog, j, m)
            PROVE  Filled(q, c.prog, j, m)'
        <4>1. c.prog \in Programs /\ c.prog.valid
          BY <3>2, <3>3 DEF CallOK
        <4>2. QED BY <1>6, <1>11, <2>1, <3>3, <4>1, FilledOther
      <3>4. SegmentOK(q, c)'
        BY <3>2, <3>3 DEF SegmentOK
      <3>5. call'[q] = c
        BY <1>15, <2>1, <3>1
      <3>6. QED BY <3>4, <3>5
    <2>2. call'[p] = e
      BY <1>15
    <2>3. QED BY <1>19, <2>1, <2>2 DEF SegmentsOK
  <1>21. UsersOK'
    <2>1. ASSUME NEW q \in Procs, process[q].is_user
          PROVE  UserOK(q, process[q])' /\ call'[q].at = "idle"
      <3>1. PICK u : u = process[q]
        OBVIOUS
      <3>2. UserOK(q, u) /\ call[q].at = "idle"
        BY <2>1, <3>1 DEF LIInv, UsersOK
      <3>3. q # p
        BY <1>1, <1>7, <3>2
      <3>4. ASSUME NEW j \in Loads(u.prog), NEW m, Filled(q, u.prog, j, m)
            PROVE  Filled(q, u.prog, j, m)'
        <4>1. u.prog \in Programs /\ u.prog.valid
          BY <3>2 DEF UserOK
        <4>2. QED BY <1>6, <1>11, <3>3, <3>4, <4>1, FilledOther
      <3>5. UserOK(q, u)'
        BY <3>2, <3>4 DEF UserOK, FieldsOf
      <3>6. QED BY <1>12, <1>15, <3>1, <3>2, <3>3, <3>5
    <2>2. ASSUME NEW q \in Procs, call'[q].at = "entry"
          PROVE  FieldsOf(process[q], call'[q].prog)
      BY <1>15, <1>16, <2>2 DEF LIInv, UsersOK
    <2>3. QED BY <1>12, <2>1, <2>2 DEF LIInv, UsersOK, FieldsOf
  <1>22. QED BY <1>13, <1>18, <1>20, <1>21 DEF LIInv

(* The invariant holds of every state of process_exec_file's calls.        *)
THEOREM LoadInvariance == LSpec => []LIInv
  <1>1. LInit => LIInv
    <2> SUFFICES ASSUME LInit PROVE LIInv
      OBVIOUS
    <2>1. CallOK(Idle, {}) /\ \A p : SegmentOK(p, Idle)
      BY DEF CallOK, SegmentOK, Idle, Ats
    <2>2. CallsOK
      BY <2>1 DEF LInit, CallsOK
    <2>3. FramesOK
      BY ProcessLoadAssumption DEF LInit, FramesOK
    <2>4. SegmentsOK
      BY <2>1 DEF LInit, SegmentsOK
    <2>5. UsersOK
      BY <2>1 DEF LInit, UsersOK, Idle
    <2>6. QED BY <2>2, <2>3, <2>4, <2>5 DEF LIInv
  <1>2. LIInv /\ [LNext]_lvars => LIInv'
    <2> SUFFICES ASSUME LIInv, [LNext]_lvars PROVE LIInv'
      OBVIOUS
    <2>1. CASE UNCHANGED lvars
      <3>1. UNCHANGED <<memory, mapped>>
        BY <2>1 DEF lvars
      <3>2. CallsOK' /\ FramesOK'
        BY <2>1 DEF LIInv, CallsOK, FramesOK, lvars
      <3>3. ASSUME NEW q, NEW c, SegmentOK(q, c) PROVE SegmentOK(q, c)'
        BY <3>1, <3>3, FilledKept DEF SegmentOK
      <3>4. SegmentsOK'
        BY <2>1, <3>3 DEF LIInv, SegmentsOK, lvars
      <3>5. ASSUME NEW q, NEW u, UserOK(q, u) PROVE UserOK(q, u)'
        BY <3>1, <3>5, FilledKept DEF UserOK, FieldsOf
      <3>6. UsersOK'
        BY <2>1, <3>5 DEF LIInv, UsersOK, FieldsOf, lvars
      <3>7. QED BY <3>2, <3>4, <3>6 DEF LIInv
    <2>2. CASE LNext
      BY <2>2, ExecKeeps, SegmentKeeps, MapKeeps, ImageKeeps, UserKeeps DEF LNext
    <2>3. QED BY <2>1, <2>2
  <1>3. QED BY <1>1, <1>2, PTL DEF LSpec

(* What a user process has in memory, byte by byte.                        *)
LEMMA UserBytes ==
    ASSUME LIInv, NEW p \in Procs, process[p].is_user, NEW prog, prog = process[p].prog,
           NEW i \in Loads(prog), NEW k \in 0..(prog.ph[i].memsz - 1)
    PROVE  /\ prog \in Programs /\ prog.valid /\ process[p].image = ImageOf(prog)
           /\ ~Replaced(prog, i, k) => UserByte(p, Start(prog.ph[i]) + k) = ByteAt(prog, i, k)
  <1>1. UserOK(p, process[p])
    BY DEF LIInv, UsersOK
  <1>2. /\ prog \in Programs /\ prog.valid /\ process[p].image = ImageOf(prog)
        /\ Filled(p, prog, i, PageCount(prog.ph[i]))
    BY <1>1 DEF UserOK, FieldsOf
  <1>3. k \div PAGE_SIZE < PageCount(prog.ph[i])
    BY <1>2, SegmentPage
  <1>4. QED BY <1>2, <1>3 DEF Filled

(* A process marked as a user process has its program in memory, each      *)
(* segment from the start of the page of its p_vaddr on.                   *)
THEOREM LoadedCorrect == LSpec => []Loaded
  <1>1. LIInv => Loaded
    <2> SUFFICES ASSUME LIInv, NEW p \in Procs, process[p].is_user, NEW prog, prog = process[p].prog
                 PROVE  /\ process[p].user_rip = prog.entry
                        /\ \A i \in Loads(prog) : \A k \in 0..(prog.ph[i].memsz - 1) :
                              WasRead(prog.ph[i], k) /\ ~Replaced(prog, i, k) =>
                                UserByte(p, Start(prog.ph[i]) + k) =
                                  IF k < prog.ph[i].filesz
                                  THEN FileByte(prog, prog.ph[i].offset + k) ELSE 0
      BY DEF Loaded
    <2>1. process[p].user_rip = prog.entry
      BY DEF LIInv, UsersOK, UserOK, FieldsOf
    <2>2. ASSUME NEW i \in Loads(prog), NEW k \in 0..(prog.ph[i].memsz - 1),
                 WasRead(prog.ph[i], k), ~Replaced(prog, i, k)
          PROVE  UserByte(p, Start(prog.ph[i]) + k) =
                     IF k < prog.ph[i].filesz THEN FileByte(prog, prog.ph[i].offset + k) ELSE 0
      <3>1. UserByte(p, Start(prog.ph[i]) + k) = ByteAt(prog, i, k)
        BY <2>2, UserBytes
      <3>2. QED BY <2>2, <3>1 DEF ByteAt, Buffer, WasRead
    <2>3. QED BY <2>1, <2>2
  <1>2. QED BY <1>1, LoadInvariance, PTL

(* process_exec_file returns with the buffer freed and the file closed.    *)
THEOREM NothingHeldCorrect == LSpec => []NothingHeld
  <1>1. LIInv => NothingHeld
    BY DEF LIInv, CallsOK, CallOK, NothingHeld
  <1>2. QED BY <1>1, LoadInvariance, PTL

(* Finitely many naturals have a bound.                                    *)
LEMMA FiniteBound ==
    ASSUME NEW n \in Nat, NEW S, S \subseteq 1..n, NEW g, \A j \in S : g[j] \in Nat
    PROVE  \E b \in Nat : \A j \in S : g[j] <= b
  <1>1. PICK U : U = {m \in 0..n : ~\E b \in Nat : \A j \in S : j <= m => g[j] <= b}
    OBVIOUS
  <1>2. \A j \in S : j \in Nat /\ 1 <= j /\ j <= n
    OBVIOUS
  <1>3. U = {}
    <2> SUFFICES ASSUME U # {} PROVE FALSE
      OBVIOUS
    <2>1. PICK m \in U : \A y \in U : m <= y
      <3>1. U \subseteq Nat
        BY <1>1
      <3>2. QED BY <3>1, LeastElement
    <2>2. m \in Nat /\ m <= n /\ ~\E b \in Nat : \A j \in S : j <= m => g[j] <= b
      BY <1>1, <2>1
    <2>3. m # 0
      <3>1. \A j \in S : ~(j <= 0)
        BY <1>2
      <3>2. QED BY <2>2, <3>1
    <2>4. m - 1 \notin U /\ m - 1 \in 0..n
      BY <2>1, <2>2, <2>3
    <2>5. PICK b \in Nat : \A j \in S : j <= m - 1 => g[j] <= b
      BY <1>1, <2>4
    <2>6. CASE m \in S
      <3>1. g[m] \in Nat
        BY <2>6
      <3>2. b + g[m] \in Nat
        BY <3>1
      <3>3. ASSUME NEW j \in S, j <= m PROVE g[j] <= b + g[m]
        <4>1. CASE j = m
          BY <3>1, <4>1
        <4>2. CASE j # m
          <5>1. j <= m - 1
            BY <1>2, <2>2, <3>3, <4>2
          <5>2. g[j] \in Nat /\ g[j] <= b
            BY <2>5, <5>1
          <5>3. QED BY <3>1, <5>2
        <4>3. QED BY <4>1, <4>2
      <3>4. QED BY <2>2, <3>2, <3>3
    <2>7. CASE m \notin S
      <3>1. \A j \in S : j <= m => j <= m - 1
        BY <1>2, <2>2, <2>7
      <3>2. QED BY <2>2, <2>5, <3>1
    <2>8. QED BY <2>6, <2>7
  <1>4. n \notin U
    BY <1>3
  <1>5. PICK b \in Nat : \A j \in S : j <= n => g[j] <= b
    BY <1>1, <1>4
  <1>6. QED BY <1>2, <1>5

(* The image reaches from the lowest to the highest address of a segment.  *)
LEMMA ImageRange ==
    ASSUME NEW prog \in Programs, prog.valid, NEW i \in Loads(prog)
    PROVE  /\ Lowest(prog) \in Nat /\ Lowest(prog) <= prog.ph[i].vaddr
           /\ Highest(prog) \in Nat /\ prog.ph[i].vaddr + prog.ph[i].memsz <= Highest(prog)
  <1>1. \A j \in Loads(prog) :
           j \in 1..Len(prog.ph) /\ prog.ph[j].vaddr \in Nat /\ prog.ph[j].memsz \in Nat
    BY SegmentFacts
  <1>2. Len(prog.ph) \in Nat
    BY HeaderFacts
  <1>3. PICK L : L = {prog.ph[j].vaddr : j \in Loads(prog)}
    OBVIOUS
  <1>4. L \subseteq Nat /\ prog.ph[i].vaddr \in L
    BY <1>1, <1>3
  <1>5. Lowest(prog) \in L /\ \A y \in L : Lowest(prog) <= y
    <2>1. \E x \in L : \A y \in L : x <= y
      BY <1>4, LeastElement
    <2>2. QED BY <1>3, <2>1 DEF Lowest, MinOf
  <1>6. PICK H : H = {prog.ph[j].vaddr + prog.ph[j].memsz : j \in Loads(prog)}
    OBVIOUS
  <1>7. H \subseteq Nat /\ prog.ph[i].vaddr + prog.ph[i].memsz \in H
    BY <1>1, <1>6
  <1>8. PICK g : g = [j \in Loads(prog) |-> prog.ph[j].vaddr + prog.ph[j].memsz]
    OBVIOUS
  <1>9. PICK b \in Nat : \A j \in Loads(prog) : g[j] <= b
    <2>1. \A j \in Loads(prog) : g[j] \in Nat
      BY <1>1, <1>8
    <2>2. Loads(prog) \subseteq 1..Len(prog.ph)
      BY <1>1
    <2>3. QED BY <1>2, <2>1, <2>2, FiniteBound
  <1>10. Highest(prog) \in H /\ \A y \in H : Highest(prog) >= y
    <2>1. \A y \in H : y <= b
      BY <1>6, <1>8, <1>9
    <2>2. \E x \in H : \A y \in H : x >= y
      BY <1>7, <2>1, GreatestElement
    <2>3. QED BY <1>6, <2>2 DEF Highest, MaxOf
  <1>11. Lowest(prog) \in Nat /\ Highest(prog) \in Nat
    BY <1>4, <1>5, <1>7, <1>10
  <1>12. QED BY <1>4, <1>5, <1>7, <1>10, <1>11

(* At every address of a segment, up to the end of the image, the image    *)
(* has the byte of that segment unless a later one has the address too.    *)
LEMMA ImageBytes ==
    ASSUME NEW prog \in Programs, prog.valid, NEW i \in Loads(prog),
           NEW k \in 0..(prog.ph[i].memsz - 1), NEW o,
           o = (prog.ph[i].vaddr + k) - ImageOf(prog).image_base
    PROVE  /\ o \in DOMAIN ImageOf(prog).base
           /\ ~Overlaid(prog, i, k) => ImageOf(prog).base[o] = ByteAt(prog, i, k)
  <1>1. PICK lo, hi : lo = Lowest(prog) /\ hi = Highest(prog)
    OBVIOUS
  <1>2. PICK ph : ph = prog.ph[i]
    OBVIOUS
  <1>3. /\ ph.vaddr \in Nat /\ ph.memsz \in Nat /\ ph.filesz \in Nat /\ ph.offset \in Nat
        /\ k \in Nat /\ k < ph.memsz
    BY <1>2, SegmentFacts, SegmentPage
  <1>4. lo \in Nat /\ lo <= ph.vaddr /\ hi \in Nat /\ ph.vaddr + ph.memsz <= hi
    BY <1>1, <1>2, ImageRange
  <1>5. PICK F : F = [o_1 \in 0..(hi - lo - 1) |->
             LET in == {j \in Loads(prog) :
                          o_1 - (prog.ph[j].vaddr - lo) \in 0..(prog.ph[j].memsz - 1)}
             IN  IF in = {} THEN Garbage
                 ELSE LET h == prog.ph[MaxOf(in)]
                          r == o_1 - (h.vaddr - lo)
                      IN  IF r < h.filesz THEN Buffer(prog, h.offset + r) ELSE 0]
    OBVIOUS
  <1>6. ImageOf(prog).image_base = lo /\ ImageOf(prog).base = F
    BY <1>1, <1>5 DEF ImageOf
  <1>7. o = (ph.vaddr + k) - lo /\ o \in 0..(hi - lo - 1)
    BY <1>2, <1>3, <1>4, <1>6
  <1>8. PICK in : in = {j \in Loads(prog) :
                          o - (prog.ph[j].vaddr - lo) \in 0..(prog.ph[j].memsz - 1)}
    OBVIOUS
  <1>9. o - (ph.vaddr - lo) = k
    BY <1>3, <1>4, <1>7
  <1>10. ASSUME ~Overlaid(prog, i, k) PROVE F[o] = ByteAt(prog, i, k)
    <2>1. i \in in /\ i \in Nat
      <3>1. i \in 1..Len(prog.ph) /\ Len(prog.ph) \in Nat
        BY SegmentFacts
      <3>2. QED BY <1>2, <1>8, <1>9, <3>1
    <2>2. ASSUME NEW j \in in PROVE j \in Nat /\ ~(j > i)
      <3>1. j \in Loads(prog) /\ j \in 1..Len(prog.ph) /\ Len(prog.ph) \in Nat
        BY <1>8, SegmentFacts
      <3>2. PICK v, m : v = prog.ph[j].vaddr /\ m = prog.ph[j].memsz
        OBVIOUS
      <3>3. o - (v - lo) \in 0..(m - 1) /\ v \in Nat
        BY <1>8, <3>1, <3>2, SegmentFacts
      <3>4. o - (v - lo) = (ph.vaddr + k) - v
        BY <1>3, <1>4, <1>7, <3>3
      <3>5. (ph.vaddr + k) - v \in 0..(m - 1)
        BY <3>3, <3>4
      <3>6. QED BY <1>2, <1>10, <3>1, <3>2, <3>5 DEF Overlaid
    <2>3. ASSUME NEW j \in in PROVE i >= j
      <3>1. j \in Nat /\ ~(j > i)
        BY <2>2
      <3>2. QED BY <2>1, <3>1
    <2>4. MaxOf(in) = i
      <3>1. PICK x : x = MaxOf(in)
        OBVIOUS
      <3>2. x \in in /\ \A j \in in : x >= j
        BY <2>1, <2>3, <3>1 DEF MaxOf
      <3>3. x >= i /\ i >= x /\ x \in Nat
        BY <2>1, <2>2, <2>3, <3>2
      <3>4. QED BY <2>1, <3>1, <3>3
    <2>5. in # {}
      BY <2>1
    <2>6. F[o] = IF o - (ph.vaddr - lo) < ph.filesz
                 THEN Buffer(prog, ph.offset + (o - (ph.vaddr - lo))) ELSE 0
      BY <1>2, <1>5, <1>7, <1>8, <2>4, <2>5
    <2>7. QED BY <1>2, <1>9, <2>6 DEF ByteAt
  <1>11. QED BY <1>5, <1>6, <1>7, <1>10

(* The image and the pages have the same bytes of every segment, as far as *)
(* no later segment takes their place.                                     *)
THEOREM CopiesAgreeCorrect == LSpec => []CopiesAgree
  <1>1. LIInv => CopiesAgree
    <2> SUFFICES ASSUME LIInv, NEW p \in Procs, process[p].is_user,
                        NEW prog, prog = process[p].prog,
                        NEW i \in Loads(prog), NEW k \in 0..(prog.ph[i].memsz - 1),
                        NEW o, o = (prog.ph[i].vaddr + k) - process[p].image.image_base
                 PROVE  /\ o \in DOMAIN process[p].image.base
                        /\ WasRead(prog.ph[i], k) /\ ~Replaced(prog, i, k)
                             /\ ~Overlaid(prog, i, k) =>
                           process[p].image.base[o] = UserByte(p, Start(prog.ph[i]) + k)
      BY DEF CopiesAgree
    <2>1. /\ prog \in Programs /\ prog.valid /\ process[p].image = ImageOf(prog)
          /\ ~Replaced(prog, i, k) => UserByte(p, Start(prog.ph[i]) + k) = ByteAt(prog, i, k)
      BY UserBytes
    <2>2. o = (prog.ph[i].vaddr + k) - ImageOf(prog).image_base
      BY <2>1
    <2>3. /\ o \in DOMAIN ImageOf(prog).base
          /\ ~Overlaid(prog, i, k) => ImageOf(prog).base[o] = ByteAt(prog, i, k)
      BY <2>1, <2>2, ImageBytes
    <2>4. QED BY <2>1, <2>3
  <1>2. QED BY <1>1, LoadInvariance, PTL
=============================================================================
