# ZenithOS in TLA+

A verification development for the ZenithOS kernel (`src/kernel/src`): TLA+
models of its components, TLC runs on small instances, and TLAPS proofs for all
instances. Paths below are relative to `src/kernel/src`.

## 1. Inventory

ZenithOS is a small x86-64 kernel booted by Limine, on one CPU. `kmain`
initialises memory, tables and devices, enables interrupts, starts a few kernel
tasks and user processes and yields to them. From then on the only concurrency
is interrupts against the code they interrupt, and the task switches that the
timer interrupt makes.

| Component | State | Operations | Interacts with |
|---|---|---|---|
| Scheduler (`scheduler/`) | ready, blocked and sleep queues; current, pending and idle task; tick counter, preemption request; per task: state, resume mode, saved context, wake tick | add, yield, block, unblock, sleep, exit; tick, preempt, save frame, pick frame, commit | called by tasks, by the timer handler, by the interrupt entry; reads `task->process` |
| Task queue (`scheduler/queue.c`) | singly linked lists through `task->next` | push, remove | scheduler and mutex |
| Interrupt entry (`cpu/isr.asm`, `isr.c`, `irq.c`) | the frame on the stack | dispatch, then the scheduler's tail | everything |
| Mutex (`sync/mutex.c`) | locked, owner, wait queue, guard | init, lock, unlock | scheduler, IRQ spinlock |
| Spinlock, IRQ spinlock (`sync/`, `arch/x86_64/`) | locked, saved interrupt flag | lock, unlock | mutex |
| Physical memory (`mm/pmm.c`, `bitmap.c`) | bitmap, page counters, search hint | init, alloc, free, lock, unlock, reserve, unreserve | heap, page tables, demand paging |
| Kernel heap (`mm/heap.c`) | doubly linked blocks, committed end | kmalloc, kcalloc, krealloc, kfree, expand | physical memory, page tables, areas |
| Virtual memory areas (`vmm/vma`) | table of intervals | create, find, resize, destroy | heap, demand paging |
| Page tables (`vmm/page_table.c`) | four-level tables | map, unmap, translate, walk, switch | physical memory, processes |
| Demand paging (`vmm/demand_paging.c`, `cpu/exceptions/page_fault.c`) | none | handle a fault | areas, physical memory, page tables |
| Processes (`process/`) | process list, address spaces | create, lookup, exec, exit, destroy | scheduler, heap, page tables, ELF, files |
| ELF loader (`elf/`) | none | validate, load segments | processes |
| File system (`fs/`) | mounts, RAM nodes, open files, descriptor tables | mount, lookup, create, open, read, write, close | heap, processes |
| Interrupt controllers (`hal/pic.c`) | masks, vectors, lines in service | remap, mask, unmask, EOI | interrupt entry, drivers |
| Input (`drivers/`) | packet and prefix state | keyboard and mouse interrupts | terminal, GUI |
| Terminal, GUI, framebuffer, fonts | cursor, cells, windows | print, scroll, draw | input |

What is hard here:

* **Two ways of losing the CPU.** A task that yields is saved in its
  `cpu_context_t`; a task that is preempted is saved in its interrupt frame.
  `resume_mode` has to say which, and every interrupt overwrites it for the task
  it hits, whether or not that task is then switched away.
* **Sections with interrupts on.** `scheduler_unblock` tests the state before it
  disables interrupts; `task_exit` sets TERMINATED and `mutex_lock` sets BLOCKED
  before they yield. A tick may fall in each of these gaps, and between the moment
  `process_exit` marks the process and `task_exit` the task.
* **A stack chosen beforehand.** An interrupt of ring 3 pushes its frame at RSP0,
  which the cooperative switch sets and the preemptive one does not.
* **One link, many lists.** All queues run through `task->next`; a task that is
  on two lists cuts one of them.
* **A preemption in four calls.** `common_isr_entry` calls the handler, the save,
  the pick and the commit one after the other, and between pick and commit the
  next task is on no list and not current.
* **Derived state.** The page counters, the search hint, `irq_was_enabled` and
  the heap's block sizes repeat what other state says, and each has its own
  update.
* **Failure in the middle.** Growing the heap, creating a process and opening a
  file take several steps, any of which may fail. A page walk may run out of memory
  with half of its tables made; `process_create` may fail after it has linked the
  process.
* **Copies of shared state.** A process has a copy of the kernel's PML4, the
  processor has copies of translations, the heap has a pointer into a table whose
  entries move, and freed objects are given out again while others point to them.
* **No locks at all.** The terminal's cursor is read and written by tasks and
  interrupt handlers at the same time.

What makes each component correct:

* scheduler: a task is on exactly the list of its state, is resumed from where it
  was last saved, gets the CPU in finite time, and wakes when it is due;
* mutex: mutual exclusion, no lost wakeup, every waiter is served;
* IRQ spinlock: the section is atomic, nobody spins, the interrupt flag returns;
* physical memory: counters equal the bitmap, no page twice, nothing that is not
  usable RAM, failure only when memory is exhausted;
* heap: blocks tile the committed memory, no two neighbours are free,
  links are inverse, allocations are disjoint;
* areas: no address is in two of them, and destroying one loses no other;
* page tables: every address space is a flat map, kernel addresses mean the same
  in all of them and in what the processor has cached, one process's mappings are
  in no other;
* demand paging: a fault loses no page and every access ends;
* processes: a task that may run has a complete process of its own until somebody
  destroys it, the list holds exactly the processes in use, a user process has the
  bytes of its program;
* files: every node is found under its path, a descriptor stays what it was opened
  for, reads return what was written unless writes overlap;
* interrupt controllers: every EOI matches, no interrupt comes before its handler;
* terminal: whoever interrupts whom, the cursor ends on the screen.

## 2. Modules

| Module | Models | Uses |
|---|---|---|
| `TaskLifecycle` | abstract: life cycle of tasks, one at most running | |
| `Scheduler` | `scheduler.c`, `task.c`, `idle.c`, `queue.c`, `pit.c`, tail of `isr.asm` | implements `TaskLifecycle` |
| `SchedMutex` | `mutex.c` composed with the whole scheduler | extends `Scheduler` |
| `SchedulerProofs` | theorems about `Scheduler` and `SchedMutex` | |
| `IrqSpinlock` | `irq_spinlock.c`, `spinlock.c`, `arch/x86_64` instruction by instruction | |
| `PageAllocator` | abstract: a set of free pages, lowest first | |
| `Pmm` | `pmm.c`, `bitmap.c` | implements `PageAllocator` |
| `PmmProofs` | theorems about `Pmm` | |
| `BlockAllocator` | abstract: disjoint pieces of memory in use | |
| `Heap` | `heap.c` | implements `BlockAllocator` |
| `HeapProofs` | theorems about `Heap` | |
| `AddressSpaces` | abstract: a map from addresses to pages per process | |
| `PageTable` | `page_table.c`, CR3 and the TLB | implements `AddressSpaces` |
| `PageTableProofs` | theorems about `PageTable` | |
| `Vma` | `vma.c` | |
| `DemandPaging` | `demand_paging.c`, `page_fault.c`, growth of the heap | extends `Vma` |
| `DemandPagingProofs` | theorems about `Vma` and `DemandPaging` | |
| `FileSystem` | `ramfs.c`, `vfs.c`, `file.c`, `fd.c`, `sys_file.c` | |
| `Process` | `process.c`, `process_memory.c`, `process_heap.c` | |
| `ProcessLoad` | `process_exec_file.c`, `process_exec.c`, `process_loader.c`, `elf/` | |
| `ProcessProofs` | theorems about `Process` and `ProcessLoad` | |
| `Pic` | `pic.c`, `irq.c`, `isr.c`, the boot order of `kmain` | |
| `InterruptProofs` | theorems about `IrqSpinlock` and `Pic` | |
| `Terminal` | `terminal.c`, `keyboard.c` | |
| `IoProofs` | theorems about `FileSystem` and `Terminal` | |
| `MC*` | instances for TLC | |

Definitions keep the names of the functions and variables they model. Operators
named `..._something` and introduced by a comment "Mutant" are deliberately
wrong variants of the definition after them: each property is known to fail
when its definition is replaced by one of them.

### Scheduler

Each list is a sequence; this is exact as long as a task is on at most one list,
which `TaskPlacement` says. A section with interrupts disabled is one action. The
interrupt path is a program counter: `pit_irq_handler` (or `other_irq`), the walk
of `scheduler_check_sleeping_tasks` one queue element at a time,
`scheduler_preempt`, `scheduler_save_interrupt_context`, then
`scheduler_get_next_interrupt_rsp` (or `no_switch`, when it returns the frame it
was given) and `scheduler_commit_pending_task`. Registers and stacks are
abstracted to *where* a task was saved: `saved` is a history variable with the
truth, `resume_mode` is what the code believes, and `stale` records that the two
differed at a resume. `wake_left` is `wake_tick - system_ticks`, so no clock grows.
A user process goes from `"kernel"` through `"exec"` (after `process_exec`) to
`"started"`; in ring 3 it calls nothing.

Four more histories follow the memory of the stacks. `stack[t]` is the stack that
t's saved execution lies on. An interrupt pushes its frame on the stack in use, but
for a process in ring 3 on the one RSP0 names, from the top (`PushFrame`).
A cooperative switch (`ScheduleAndSwitch`) sets RSP0 to the stack of the task it chooses;
`scheduler_commit_pending_task` (`scheduler/scheduler.c:653`) does not, so a process
that was preempted to runs with the RSP0 of another task: `misplaced`. Whoever has an
execution saved on the stack that is written then is in `spoiled`, and when such a
task is resumed the machine has `crashed`, after which the model takes no step but a
stutter. `NoStaleResume` has both halves: `resume_mode` always names where the task
was saved (`ModeKept`), and what was saved there is intact unless a frame was
misplaced. The run reaches misplaced frames and crashes; no property claims that
they do not happen. CR3 is left behind in the same place. What ring 3 then executes
in the address space of another process is not modelled.

`task_create` and `process_exec` may fail in their allocations; they then change
nothing the scheduler sees, so failure is a step not taken. Page faults inside
the scheduler are not modelled: its data is in the kernel image and in heap pages
that are mapped when they are allocated.

### SchedMutex

`mutex_lock` is the section under the guard, `mutex_lock_yield` what follows it;
between the two the waiter is BLOCKED, on the wait queue, and running with
interrupts on. `mutex_unlock` includes the whole of `scheduler_unblock`. That the
section under the guard is one action is what `IrqSpinlock` shows
(`SectionAtomic`). After a task has been resumed from a stale context the code
determines nothing any more, nor after a crash of the scheduler's model, and
`SchedMutex` stops there (`Undetermined`).

### IrqSpinlock

One action per instruction that reads or writes the lock or the interrupt flag.
The flag is part of a task's context; the timer may switch tasks whenever the
running one has it set. Callers enter with interrupts on and do not nest, as
`sync/mutex.c` does.

### Pmm

The statics of `pmm.c` and `bitmap.c` are the record `pmm`; `memmap`, `held` and
`ret` are history: the boot loader's map and the pages handed out, and `ret` the
value a call returns, so that `PageAllocator` can tell an allocation from a lock.
Loops that mark pages one by one are operations on the set of pages. Limine's
protocol is the assumption on `MemMaps`: usable entries are page-aligned and
overlap nothing, and the kernel image lies in entries that are not usable; other
entries may be unaligned, overlap, and be of types `pmm_init` does not reserve.
An unaligned usable entry, whose edges `pmm_init` would round outwards, is thereby
excluded and not examined.
The executable-address response is always present (`kmain` requests it). Callers
give back what they hold and lock what nobody else holds (`Give`, `Take`). That is a
contract of theirs: the code tests nothing and frees any page it is given, also one
that was not usable before; `tests/pmm_test.c:41` locks and unlocks page 0x1000
whatever it is. `bitmap` is a set of
bits, `bitmap_test` answers "used" beyond `bitmap_bits`, as the code does. The
byte totals that are only printed are left out.

### Heap

`heap` maps the address of each block header to its fields (`size`, `free`, `next`,
`prev`), with addresses relative to `HEAP_START_ADDRESS`; splitting adds an address
to its domain, merging removes one. `kmalloc` leaves a request in `call`, and each
round of its loop is one action: a block is found (`kmalloc_found`, which for
`krealloc` also frees the old one), the heap grows by a page (`heap_expand`), or it
cannot grow (`kmalloc_fails`: no physical page, no mapping, or no heap at all). The
scan of `coalesce_free_blocks` at the head of each round is part of each of them.
`live` is history: which pointers are in use and what they were asked for. The two
outcomes of `heap_init` are the initial states. Requests so close to `SIZE_MAX` that
the sum in `align_size` wraps are excluded (`NoWrap`). Contents are
not modelled, nor is `vma_resize`, whose failure `heap_expand` only reports; that call
is in `DemandPaging`.

Calls do not overlap. In the kernel they can: `kmalloc` runs with interrupts on and
a preempted task may be in the middle of it; that is not modelled.

### PageTable

A virtual address is the tuple of its four indexes, `tables` the contents of every
page that is a table. The software walk (`page_walk_internal`, which makes missing tables and
stops where memory runs out) and the memory management unit (`Mmu`) are separate
definitions over the same tables; `tlb` is one translation the processor may have
cached, of any kernel address, so a missing `invlpg` of `page_table_map_page` or
`page_table_unmap_page` shows. Translations of user addresses are not cached in the
model: `page_table_map_user` (`vmm/page_table.c:538`) has no `invlpg`, and whether one
is needed after it is not examined. A caller takes a page, maps it
and gives it back if that fails. Large pages of the boot loader are in the way of
some addresses. `AddressSpaces` knows no tables: that a failed walk, a new table, a
copy of the PML4 or a flag opened for user access changes no translation is the
refinement.

### Vma and DemandPaging

Addresses are added modulo `WORD`, so an area may have its end below its start, as
in the code. `DemandPaging` composes the table with the fault handler, the
instruction that is retried, and `heap_expand`, which maps pages itself and keeps
its area by a pointer into the table (`heap_vma`, an index). Page tables appear as
the number of new tables a mapping needs. Physical pages are counted: `lost` are
those `heap_commit_page` does not give back when `page_table_map_page` fails
(`mm/heap.c:182`), which the model has because the code does it. Nothing keeps other
areas out of the heap's way, and nothing limits the heap but memory. When an area lies
where it grows, `vma_resize` refuses (`mm/heap.c:274`), the page is committed all the
same, and the heap's area stays behind: `refused`. `HeapAreaCurrent` says that the area
ends at the committed end after every growth that was not refused, also one that
follows refusals, and never beyond it. `kernel_panic` is `halted`. Accesses are to pages
that are mapped, and complete, or not mapped, and fault; a protection fault, which
`vmm/demand_paging.c:19` gives up on, does not occur in the model.

### FileSystem

Nodes and open files are numbered objects. A path is the sequence of its
components; `path_next_component`, which takes it apart, is not modelled. `written`
and `got` are history: what was last written to a node and what the last
`sys_read` gave.

Reads and writes run with interrupts on and share the nodes, so each access of
`ramfs_write` and `ramfs_read` is a step: the load of `data`, its allocation, the copy
unit by unit, the size. Two processes may both find no memory and allocate, or read
half of a write. `data` is loaded once in a call, as the compiler does with `-O2`;
`kmalloc` is one step. `written[n]` is NULL after writes to n that overlapped, and a
read during a write is not `clean`; of these `ReadBack` says nothing, because the code
promises nothing. The tree is made by `kmain` before the others run (`AddNode` waits
for calls to end), and a descriptor table belongs to one process.

The memory of a node has the size of its first write and is never enlarged. A later,
longer write goes over the next block of the heap (`fs/ramfs.c:248`): `overrun`. What
any file holds afterwards is open, and the model ends there. So the properties are
about what happens up to the first overrun, which the run does reach.

### Process

A process is the address of its `process_t`: freed blocks keep their fields and
are given out again. `process_create(p, failing)` is the whole call with the
allocation that fails, and what is then freed, linked or neither. `process_lookup`
walks the list as far as it goes; a list that has become a cycle has no end
(`Ends`). An exit is two steps, because interrupts are on between them: `process_exit`
marks the process and calls on, `task_exit` marks the task. `process_destroy` tests
nothing (`process/process.c:142`) and may be called at any time, each process once;
a task that could still run then has a process that is freed memory, and is in
`orphans`. `TasksHaveProcesses` is about the other tasks: the block of such a task's
process is allocated, has its number and all its parts, whatever was destroyed or
given out again meanwhile. An orphan that exits marks whatever its block has become,
so that the states of task and process correspond is stated while there are no
orphans. The run reaches orphans, and blocks used again under them.

### ProcessLoad

Only `kmain` calls `process_exec_file`, before there is a current task, so no tick
switches away from it and one call is under way at a time; calls for several processes
follow one another, fail anywhere and are tried again. A step is a call into another
part of the kernel, one round of the loop over pages, or a part of `process_exec`
between two points where it may fail: `exec_image` sets image and entry, `exec_no_entry`
returns with them set, `exec_user` makes a user process of it.

Programs are any headers with typed fields (`ProgramOK`). Segments may start inside a
page and share pages. Of those that are loaded it is assumed, and not tested by the
code, that they stay among the pages of user programs and have no more bytes in the
file than in memory. The file is read up to `EXEC_BUFFER_SIZE`; what a header places
behind that comes from the heap (`Buffer`). An image that nobody frees is `lost`.

`process_map_segment` (`process/process_loader.c:35`) copies a segment from the start
of the page of `p_vaddr`, `elf_load_image` (`elf/elf_loader.c:118`) to `p_vaddr` itself.
`Loaded` and `CopiesAgree` are stated for what the code does: byte k of a segment is
at `Start + k`, and the two copies agree up to the shift between `Start` and `p_vaddr`,
which is zero exactly for a segment that starts at a page. A byte is exempt if it was
not read, or if a later segment is mapped over its page (or, in the image, over its
address).

### Pic

`kmain`'s set-up in its order, then interrupts through `isr_dispatch` and
`irq_dispatch`, with EOIs to one or two controllers as steps of their own. The
8259s are external and modelled by what the code relies on, spurious interrupts of
lines 7 and 15 included. Firmware may leave any masks, and any line may have a
device.

### Terminal

`terminal_putchar` with one action per access to the cursor, in any number of tasks
and in interrupt handlers, which run to their end. An increment is a load and a
store; a test after it is made of the variable or of the register, as the compiler
likes. `terminal_scroll` is the rows, then the row and then the column of the cursor;
the copy of the rows is one step, as no property is about what cells hold.

An unlucky interleaving writes a cell in the row past the last (`terminal/terminal.c:95`).
The store lands on statics that lie next to `terminal_buffer`, the cursor maybe among
them: `stray`. What follows is open, and the model ends there; `CursorInside` is about
the executions up to it.

## 3. Runs

| Run | Instance | Shows |
|---|---|---|
| `Scheduler` | two kernel threads, one of them the waker, and a process; sleeps of 0 and 2 ticks; slices of 2 ticks; fairness | `TypeOK`, `TaskPlacement`, `NoStaleResume`, `RequestHonoured`, `NoOverdueSleeper`, that `TaskLifecycle` is implemented, `ReadyTaskRuns`, `SleeperWakes` |
| `SchedMutex` | three kernel threads | `MutualExclusion`, `NoLostWakeup`, `WaiterPlacement` |
| `SchedMutexLive` | two kernel threads, fairness | `WaiterServed` |
| `SchedMutexWindow` | two kernel threads | violation: `NoStaleResume` with the mutex (section 5) |
| `IrqSpinlock` | four tasks | `SectionAtomic`, `NeverSpins`, `InterruptsRestored` |
| `Pmm` | four memory maps, pages of 2 bytes, a bitmap of 13 bits | `Counters`, `LowestFit`, `OnlySafePages`, and that `PageAllocator` is implemented |
| `Heap` | headers of 4 units, alignment 2, pages of 12, at most 3 pages; sizes 0, 1, 5, 13, arrays of 0 and 2 | `Links`, `Coalesced`, `LiveBlocks`, and that `BlockAllocator` is implemented |
| `PageTable` | tables of 3 entries, 15 pages, 2 processes, 6 addresses, 4 calls that map or unmap | `Tree`, `KernelAddressesAgree`, `ActiveIsLoaded`, and that `AddressSpaces` is implemented |
| `DemandPaging` | words of 16, pages of 2, 6 physical pages, 3 areas, some in the heap's way; fairness | `Disjoint`, `DestroysOne`, `PagesAccounted`, `HeapAreaCurrent`, `AccessEnds` |
| `FileSystem` | 2 processes, 2 names, 3 nodes, 3 open files, 1 descriptor each, 2 blocks of memory per node | `PathsResolve`, `DescriptorsKept`, `ReadBack` |
| `Process` | 3 blocks, 4 creations | `TasksHaveProcesses`, `Listed` |
| `ProcessLoad` | 2 processes, 5 pages of 2 bytes, a buffer of 5 bytes, 7 files | `Loaded`, `CopiesAgree`, `NothingHeld` |

Bounds. Three tasks are one running, one to switch to and one waiting or
sleeping beside them, which is what the walk over the sleep queue and the removal
from the middle of a list need; one of them is a process, so all four kinds of
resume occur. A slice of 2 ticks distinguishes the first tick from the last. Sleeps
of 0 and 2 are already due and not due at the next tick. For the mutex a third
task makes a queue of two waiters. The memory maps contain a usable page 0, a
hole of a type nobody reserves with unaligned edges, memory that ends in reserved
ranges, no usable memory at all and more memory than the bitmap holds; call
lengths are empty, not a multiple of a page, and two pages. For the heap, three
pages hold up to six blocks; the sizes include ones that leave a remainder smaller
than, as large as and larger than a header, and one that needs a second page.

Fifteen pages are too few for two processes with all their tables, so a walk
can run out of memory with one or two of its tables made; four calls map and unmap a kernel page
before, between and after the creation of the processes. Six pages are too few for
a heap, a demand-paged area and their tables; the starts and sizes of areas make
them touch, overlap, be empty, wrap, and stop the heap's area from growing until they
are destroyed. One descriptor and three files fill a table, empty it and fill it again
while the other process still opens; buffers of one and two units make a file shorter
and, past its memory, longer; two processes in two blocks of memory are both in the
first write of a node. Three blocks and four creations let a block be used twice, also
under an orphan, and a list lose its head, its middle and its end. The programs are one
with two loaded segments in descending order, of which one has two pages and a tail of
zeros; one whose segments start inside a page, share one and reach behind what was
read; one whose entry is in a region without a table; one with a segment of no bytes;
one without segments; one that is no ELF file; and a directory. Five pages are too few
for two of the larger ones, so loads fail and are tried again, over what the failed one
has left mapped. `SchedMutexLive` uses the smallest instance in which starvation is
possible. Names, processes, addresses of objects and physical pages are only
compared for equality in `FileSystem`, `Process` and `ProcessLoad`, which use
symmetry and check safety only.

Fairness. The PIT is periodic and has the PIC's highest priority: a tick that
falls due while interrupts are off is delivered as soon as they are on, before
any other line, which is strong fairness of `pit_irq_handler`. Interrupt code runs
to its `iretq` (weak fairness of `InterruptPath`). `idle_task` is a loop around
`scheduler_yield`, its `hlt` ended by each tick, and `kmain` reaches its
`scheduler_yield` although ticks keep interrupting it (strong fairness of each).
`ReadyTaskRuns` and `SleeperWakes` hold up to a crash (`misplaced` above).
Nothing is assumed of tasks, except in `SchedMutexLive`: there the owner of the
mutex does not exit or block for good and does call `mutex_unlock`, without which no
mutex serves its waiters, and a task in the loop of `mutex_lock` goes on when it
has the CPU.

In `DemandPaging` the processor goes on with its instruction: it completes or it
faults (weak fairness of `Completes` and of `page_fault_handler`).

Deadlock is checked except in `FileSystem`, `Process` and `ProcessLoad`, where the
bounds on objects, or every process having been loaded, leave nothing to do.

## 4. Proofs

All proofs are for every value of the constants that satisfies the named
assumptions of the modules (for `Terminal`, which has no run, the assumption is a
hypothesis of the theorems; `Pic` has no constants). Every safety property of
section 3 is a theorem: the invariants, the action properties and the four
refinements. Each rests on an inductive invariant, described here by what it adds to
the properties and why that is needed.

Where the code follows links (the lists of blocks, of processes, the tree of
nodes), "and so on to the end" is induction. It is carried out as a least
counterexample: a set of naturals or of addresses that is not empty has a least
element (`WFMin` of the library), and its predecessor on the list contradicts it.

**Scheduler** (`SchedulerProofs`): any set of tasks and processes, any slice, any
sleeps, one waker at most (`OneWaker`: `scheduler_unblock` is not safe against two
callers for one task, since it tests the state before it disables interrupts; the
kernel's only caller is `mutex_unlock`). The invariant `IInv` is the properties plus

* `ResumeInv`: a task on the ready queue has `resume_mode` equal to where it was
  saved, a blocked or sleeping one was saved in its context. Without it
  `NoStaleResume` is not inductive, because a stale `resume_mode` only shows at the
  next resume;
* `UserInv`: a started process is ready or running, and if it is queued it has an
  interrupt frame, so that the head of the queue always has a frame to resume from;
* `IdleInv`, `RequestInv`, `WakingInv`: what is known of the idle task, of a pending
  request (it exists only between `scheduler_preempt` and the pick, with a non-empty
  queue) and of a waker between its test and its update (the task is still
  blocked).

Beside it stands `StackInv` (`StacksIntact`): as long as no frame was misplaced every
task's execution lies on its own stack and none is spoiled. Whoever writes a stack is
then the task it belongs to, whose execution is not saved but running.
From the two follow `TypeCorrect`, `PlacementCorrect`, `ResumeCorrect`, `RequestCorrect`,
`SleeperCorrect` and `Refinement` (each step is a step of `TaskLifecycle` or leaves
the states alone).

**Mutex** (`SchedulerProofs`): any number of tasks that lock, sleep, block, exit
and are preempted anywhere, up to the first resume from a stale context or crash.
`MIInv` is proved in three parts that most actions disturb one at a time: `Lists`
(four lists, each with exactly the tasks of its state, except the one task that was
picked and not yet committed), `Cpu` (who may run: a BLOCKED task may, between the
guard and its yield) and `Holder` (the mutual exclusion and wakeup properties). The
scheduler's own `ResumeInv` is *not* part of it: it is false with the mutex, which
is the finding of section 5, so this is a second invariant of the scheduler that
does without.

**IRQ spinlock** (`InterruptProofs`): any number of tasks. `IInv` says that
interrupts are off exactly from `cli` to the end of the unlock, that a task there is
on the CPU, that the lock is closed exactly while it is held, and that every flag
that was read or stored says "on"; the last part is why the shared
`irq_was_enabled` does no harm.

**Physical memory** (`PmmProofs`): any memory map that follows Limine's protocol,
any page size and bitmap size, any call lengths. `IInv` adds to the properties that
no free page is below the hint (`HintOK`, which makes the first pass of
`pmm_alloc_page` complete), that every free or held page is a usable one (so the
saturating decrement of `used_pages` never saturates), and that a manager without a
bitmap has nothing to give. Lemmas state what marking, seeking and booting do
(`MarkUsedFacts`, `MarkFreeFacts`, `SeekFacts`, `BootFacts`) and how lengths round
to pages (`CountFacts`, `UsableIsSafe`). From it follow `TypeCorrect`,
`CountersCorrect`, `LowestFitCorrect`, `SafeCorrect` and `Refinement`.

**Heap** (`HeapProofs`): any header, alignment, page and request sizes, any limit.
`IInv` is `Tiled` (each block ends where the next begins, the last one at the
committed end; `next` and `prev` are inverse; the first block is at 0), `Merged` (no
two neighbours are free) and `Held` (the pointers in use are exactly the used
blocks, each at least as large as asked). The lemmas say of each operation on the
list what it keeps: a split, a merge of two blocks (`Joined`), an expansion
(`Extended`), and for the scan of `coalesce_free_blocks` that it has nothing to do,
because every `kfree` merges with both neighbours; between the two merges the list
satisfies only `MergedBut`. Tiling is what makes the merge right: `next` of a free
block is the block behind it in memory, so adding sizes covers it.
`AllocatorImplemented` then needs only that used blocks of a tiled list are
disjoint.

**Areas and demand paging** (`DemandPagingProofs`): any word size, table size and
arguments. `Disjoint` is inductive together with the type invariant; the lemma
`NoConflict` says why the test of the code is enough although sums wrap: an area
whose end has wrapped contains no address. `DestroyCorrect` is about the shift of
the table, which never outgrows `VMA_MAX_COUNT` (`TypeCorrect`). For the composition
`DIInv` adds that the heap's area is the first of the table (no shift moves it, which
is why a pointer into the table stays good), ends where the heap is committed or, after
a refusal, before that, and that all pages of the heap are mapped. That the committed
end never wraps is from the memory there is: each page of growth is one page less
(`committed_end + free * PAGE_SIZE` does not rise), and all of memory behind
`HEAP_START_ADDRESS` ends below the end of the address space (`MemoryAssumption`). Assumed
are also a page of memory and room for one area, with which the kernel boots at all.

**Page tables** (`PageTableProofs`): tables of any size, any number of pages,
processes and calls. Assumed of the boot loader: it hands over a tree with one
PML4, which uses the kernel's slots only; of the layout: the heap lies in one slot of
the PML4 (it starts a slot of 512 GiB, and the bitmap of `pmm.c` holds 4 GiB of
memory), and no slot is both the user's and the kernel's.
`Inv` says

* `TreeOK`: there is a level for every table with which the tables are trees
  (`Tab`: entries lead one level down, to tables that are entered once), and the
  tables of level 4 are the roots. The levels are existentially quantified, the code
  keeps none;
* `RootsOK`: outside the user's slots every process has the entries of the kernel's
  PML4, and those slots are filled before the first copy is made. It is why a later
  kernel mapping appears in every process: it changes tables below the PML4, never
  the PML4;
* `UserOK`, `CpuInv`, `TlbInv`: what a process has mapped is open to it; CR3 holds a
  root that exists; what is cached is what the tables say.

The lemmas are about the four-level walk. Two walks that meet at a table have come
by the same indexes (`Meeting`), hence a table added at an empty entry changes no
translation (`AddMmu`), a written leaf changes one address (`WriteMmu`), opening a
path to the user changes what only that process sees (`OpenMmu`), a copied PML4
translates as its source (`CopyMmu`). A walk that runs out of memory has only added
tables (`WalkCreates`), and the software walk finds what the processor finds
(`WalkLooks`). From them follow `TreeCorrect`, `ActiveIsLoadedCorrect`,
`KernelAddressesAgreeCorrect` and `SpacesImplemented`.

**File system** (`IoProofs`): any number of processes, nodes, files and descriptors,
any names, directories of any size. `FInv` has the nodes numbered as they are made,
every node but the root among the children of an older one (`TreeOK`; no two children
of a directory have one name, because `ramfs_create` looks first), descriptors of
files and files of nodes (`OpenOK`), and for calls in progress: a call holds a block of
its file (`CallsOK`); one that is `clean` is at a node to which no other process writes
(`CleanOK`); a clean write has in its block what it has copied so far, a clean read has
in its buffer the beginning of what was written (`ProgressOK`); and at a node nobody
writes to, `data` and `size` are what was last written (`WrittenOK`). The step at which a
write would leave its block ends the model, so nothing is claimed beyond it.
`PathsResolve` is about the recursions of `vfs_lookup` and of the path
upwards; lemmas state both walks step by step and then their composition.
`DescriptorsKept` and `ReadBack` are action properties. A buffer is assumed to be a
sequence of bytes and not the null pointer.

**Processes** (`ProcessProofs`): any number of blocks and of creations, whatever
fails and whenever a process is destroyed. `TasksHaveProcesses` is inductive together
with `FieldsOK` (types) and `TasksOK`: a task has the number of its process, and a number
is given out once, so a destruction leaves orphans of that process only, and an exit
touches no other task that may run while there are none. `UnlinkFacts` says that
taking a process off the list changes nothing but a link, whichever process the walk
has stopped at, also in a list that a failed creation has broken. `ListedCorrect`
needs `Chain`: creation links at the head, so along the list the pids fall, each
process leading to the newest of the older ones. Then a walk visits no process
twice, ends, and passes everyone, and an unlink at any place (`Bypassed`) leaves such
a list.

**Loading** (`ProcessProofs`): any programs that `ProgramOK` admits, segments that share
pages and files longer than the buffer included, any number of processes, one call after
the other, failing anywhere. `LIInv` says what is true in
the middle of the loops: where a call is and what it has from the heap (`CallsOK`),
that a physical page is mapped at one place at most and is then not free
(`FramesOK`, without which the load of one process could overwrite another), that of the
segments before the current one and of its pages so far everything that no later segment
replaces is in memory (`SegmentsOK`), and that a process marked as user process is
complete (`UsersOK`). `CopiesAgree` follows with arithmetic on the range the image covers.

**Interrupt controllers** (`InterruptProofs`): any masks left by firmware, a device
at any line, any spurious interrupts. `PicInv` adds `BootOrder` (interrupts come on
last, and whatever is unmasked by then has a handler), `OwnService` (what is in
service belongs to the interrupt being dispatched, less the EOIs it has sent; only
with it does an EOI take off the right line) and `KnownLine`. From it follow
`ServiceEndsCorrect` (when a task runs nothing is in service, so no line is held
back for good) and `PreparedCorrect` (a device's interrupt finds its handler and is
never taken for an exception).

**Terminal** (`IoProofs`): any number of tasks, any screen, any interleaving, up to a
stray store.
The cursor *does* leave the screen while calls overlap, so `CursorInside` (at rest
it is on it) is not inductive. `ColumnWatched` and `RowWatched` are what is: a
cursor past an edge has a context that has put it there and has still to make its
test, whose register says so even if others have moved the cursor since, or is about to
set the row in `terminal_scroll`. That the
code tests `>=` and not `=` is essential.

Only model-checked: the liveness properties `ReadyTaskRuns`, `SleeperWakes`,
`WaiterServed` and `AccessEnds` (the prover handles neither fairness nor ENABLED),
and the violation of section 5.

## 5. Findings

`SchedMutexWindow`: a waiter that is preempted between the `irq_spin_unlock` at
`sync/mutex.c:51` and its `scheduler_yield` has its state in the interrupt frame, but
`mutex_unlock` calls `scheduler_unblock`, which resets `resume_mode` to the context:
the task is later resumed from the `cpu_context_t` of an earlier switch (or of its
creation). `SchedMutex` shows that up to that moment mutual exclusion, the queues
and the wakeups are intact. Kernel threads that only use the scheduler's own calls
are not affected (`ResumeCorrect`).

Limits of the code that the models take as they are:

* `ramfs_write` (`fs/ramfs.c:248`) copies a later, longer write into the memory of
  the first without a look at `capacity`. `tests/fs_test.c:264` writes 15 bytes to a
  file and `tests/process_test.c:53` then 18. `FileSystem` ends there.
* `process_create` (`process/process.c:100`) frees a process whose task could not be
  made without taking it out of `process_list`. `Listed` is therefore stated for
  runs in which no `task_create` has failed; afterwards `process_lookup` may return
  freed memory or, once the block is used again, not return.
* `heap_commit_page` (`mm/heap.c:182`) loses the page it could not map, and
  `process_create` the page table and pages of a process it gives up.
* `scheduler_commit_pending_task` (`scheduler/scheduler.c:653`) leaves CR3 and RSP0
  as they are. An interrupt of the process it has switched to may then overwrite what
  another task has saved. `NoStaleResume` shows that this is the only way in which a
  saved execution is lost (without the mutex).
* `process_destroy` (`process/process.c:142`) frees a process under a task that can
  still run, if its caller lets it; `process_exit` marks a process as exited while its
  task is still scheduled.
* `process_map_segment` (`process/process_loader.c:35`) puts a segment that does not
  start at a page at the start of that page, and a segment that shares a page with an
  earlier one in place of it. Linkers keep only `p_vaddr` congruent to `p_offset`.
* `process_exec_file` (`process/process_exec_file.c:34`) reads 65536 bytes at most and
  loads a longer program with what lies behind its buffer.
* The image of `elf_load_image` has no owner once `process_map_segment` fails
  (`process/process_exec.c:37`).
* `heap_expand` (`mm/heap.c:274`) goes on when the heap's area could not follow it.
* Overlapping calls of `terminal_putchar` may write past `terminal_buffer`
  (`terminal/terminal.c:95`).

## 6. Plan

Done: scheduler, mutex, IRQ spinlock, physical memory, heap, page tables, areas,
demand paging, files, processes and their loading, interrupt controllers,
terminal, with the proofs of all safety properties. Left, in this order:

1. The linked lists of `queue.c` at pointer level, shown and proved to implement
   sequences, as `Chain` does for the list of processes.
2. `Heap` and `Pmm` called by two tasks that are preempted inside them: nothing in
   the kernel locks them.

Not modelled:

* pixel output and the GUI: framebuffer, graphics, fonts, `terminal_render`, and the
  window list, which `kmain` does not start yet;
* `kprintf` and the conversions of `lib/`, and `path_next_component`: pure functions
  of strings, taken by their results where other modules use them;
* the scancode table, the packets of `mouse_handler` and the commands `mouse_init`
  sends; the pointer they move is used by the GUI only;
* the APIC, port I/O, descriptor tables, `memory_map.c` and the register dump of a
  panic: straight-line code without state that other parts depend on;
* a second mount (`vfs_lookup` ignores it, nothing makes one), `process_load_image`
  (one assignment, called by a test) and the self tests, which are read as
  documentation.
