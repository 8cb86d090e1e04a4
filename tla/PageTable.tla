----------------------------- MODULE PageTable ------------------------------
(***************************************************************************)
(* The page tables, vmm/page_table.c, with the callers that feed them: the *)
(* kernel's mappings of the heap and the mappings of a process, each       *)
(* taking its page from the page allocator first.                          *)
(*                                                                         *)
(* A virtual address is the tuple of its indexes: va[1] is the index into  *)
(* the page table, va[4] the one into the PML4.  tables holds every page   *)
(* that is a table; an entry without PAGE_PRESENT is NULL.  The memory     *)
(* management unit is modelled beside the software walk, with the          *)
(* translations it caches.                                                 *)
(***************************************************************************)
EXTENDS Naturals, Sequences, FiniteSets

CONSTANTS
    Index,          \* 0 .. PAGE_TABLE_ENTRIES - 1
    Pages,          \* the pages the page allocator has
    BootTables,     \* the tables the boot loader hands over, by page
    BootRoot,       \* its PML4, in CR3
    HeapVA,         \* addresses in the kernel heap's PML4 slot
    BootVA,         \* addresses the boot loader mapped
    UserVA,         \* addresses in the slots of the user half
    WritableVA,     \* those of pages a process may write
    MaxProcs,       \* bounds of the model: processes, and calls that map
    MaxCalls,       \* or unmap a page
    NULL

KernelVA == HeapVA \cup BootVA
VA == KernelVA \cup UserVA

Slots(S) == {va[4] : va \in S}

(* Pages that tables may name, the entries of tables and what the memory   *)
(* management unit makes of them.                                          *)
AllPages == Pages \cup UNION {{BootTables[t][i].page : i \in {j \in Index : BootTables[t][j] # NULL}} :
                                t \in DOMAIN BootTables}
Entries == [page : AllPages, user : BOOLEAN, writable : BOOLEAN, huge : BOOLEAN]
Translations == [phys : AllPages \X UNION {[1..n -> Index] : n \in 0..3},
                 user : BOOLEAN, writable : BOOLEAN]

(* Tables of four levels: an entry above the last one leads to a table one *)
(* level down or is a large page, which a PML4 does not have; what it      *)
(* leads to is not among the free pages f; and it is in one place, or in   *)
(* the same slot of several PML4s, which is none of the user half.         *)
Place(tbl) == {u \in (DOMAIN tbl) \X Index : tbl[u[1]][u[2]] # NULL}

TablesOK(tbl, f, level) ==
    /\ tbl \in [DOMAIN tbl -> [Index -> Entries \cup {NULL}]]
    /\ level \in [DOMAIN tbl -> 1..4]
    /\ DOMAIN tbl \cap f = {}
    /\ \A u \in Place(tbl) :
          LET e == tbl[u[1]][u[2]] IN
          /\ e.page \notin f
          /\ level[u[1]] = 4 => ~e.huge
          /\ IF level[u[1]] > 1 /\ ~e.huge
             THEN e.page \in DOMAIN tbl /\ level[e.page] = level[u[1]] - 1
             ELSE e.page \notin DOMAIN tbl
          /\ \A v \in Place(tbl) : tbl[v[1]][v[2]].page = e.page =>
                \/ u = v
                \/ level[u[1]] = 4 /\ level[v[1]] = 4 /\ u[2] = v[2] /\ u[2] \notin Slots(UserVA)

ASSUME PageTableAssumption ==
    /\ VA \subseteq [1..4 -> Index]
    /\ BootRoot \in DOMAIN BootTables
    /\ DOMAIN BootTables \cap Pages = {}
    /\ NULL \notin Pages \cup DOMAIN BootTables \cup Entries \cup Translations
    /\ MaxProcs \in Nat /\ MaxCalls \in Nat
    (* The three parts of the address space have PML4 slots of their own,  *)
    (* the heap one of them, and the boot loader uses only its own.        *)
    /\ Slots(UserVA) \cap Slots(KernelVA) = {}
    /\ \A a, b \in HeapVA : a[4] = b[4]
    /\ \A i \in Index : BootTables[BootRoot][i] # NULL <=> i \in Slots(BootVA)
    (* The boot loader hands over a tree with one PML4.                    *)
    /\ \E level \in [DOMAIN BootTables -> 1..4] :
          /\ TablesOK(BootTables, Pages, level)
          /\ \A t \in DOMAIN BootTables : level[t] = 4 <=> t = BootRoot

VARIABLES
    tables,             \* the contents of each table
    free,               \* the free pages of the page allocator
    kernel_pml4,        \* the kernel's root, NULL until page_table_init
    active,             \* active_pml4_physical, NULL for 0
    procs,              \* the roots made by page_table_create
    cr3,                \* the register
    calls,              \* the number of calls that mapped or unmapped
    tlb                 \* a cached translation, NULL if there is none

vars == <<tables, free, kernel_pml4, active, procs, cr3, calls, tlb>>

Empty == [i \in Index |-> NULL]

Entry(page, user, writable) ==
    [page |-> page, user |-> user, writable |-> writable, huge |-> FALSE]

(* pmm_alloc_page: some free page *)
pmm_alloc_page(f) == CHOOSE p \in f : TRUE

-----------------------------------------------------------------------------
(* The walk.  w is where it stands: the table at, of the given level, the  *)
(* tables and free pages as the walk has left them, and its status.        *)

ReadEntry(w, va) == w.tables[w.at][va[w.level]]

(* ensure_next_table makes a table: cleared, and entered as writable.      *)
NewTable(w, va) ==
    LET new == pmm_alloc_page(w.free)
    IN  [w EXCEPT !.tables = [t \in DOMAIN w.tables \cup {new} |->
                                IF t = new THEN Empty
                                ELSE IF t = w.at
                                THEN [w.tables[t] EXCEPT
                                        ![va[w.level]] = Entry(new, FALSE, TRUE)]
                                ELSE w.tables[t]],
                  !.free = @ \ {new},
                  !.at = new,
                  !.level = @ - 1]

ensure_next_table(w, va, create) ==
    LET e == ReadEntry(w, va)
    IN  IF e # NULL THEN [w EXCEPT !.at = e.page, !.level = @ - 1]
        ELSE IF ~create THEN [w EXCEPT !.status = "missing"]
        ELSE IF w.free = {} THEN [w EXCEPT !.status = "allocation failed"]
        ELSE NewTable(w, va)

(* One level down.  The PML4 has no large pages and is not tested for      *)
(* them; a large page ends a walk that only looks, and refuses one that    *)
(* would create.                                                           *)
Down(w, va, create) ==
    IF w.status # "walking" THEN w
    ELSE IF w.level < 4 /\ ReadEntry(w, va) # NULL /\ ReadEntry(w, va).huge
    THEN [w EXCEPT !.status = IF create THEN "huge" ELSE "found"]
    ELSE ensure_next_table(w, va, create)

WalkFrom(tbl, f, root) ==
    [tables |-> tbl, free |-> f, at |-> root, level |-> 4, status |-> "walking"]

page_walk_internal(tbl, f, root, va, create) ==
    LET pdpt == Down(WalkFrom(tbl, f, root), va, create)
        pd   == Down(pdpt, va, create)
        pt   == Down(pd, va, create)
    IN  IF pt.status # "walking" THEN pt
        ELSE IF ~create /\ ReadEntry(pt, va) = NULL
        THEN [pt EXCEPT !.status = "missing"]
        ELSE [pt EXCEPT !.status = "found"]

(* Within the model's bound. *)
Count == calls < MaxCalls /\ calls' = calls + 1

page_table_active_root == IF kernel_pml4 # NULL THEN kernel_pml4 ELSE cr3

(* A page of memory: the page of the leaf entry and, below a large page,   *)
(* the indexes that select within it.                                      *)
Phys(e, level, va) == <<e.page, [l \in 1..(level - 1) |-> va[l]]>>

page_table_translate(va) ==
    LET w == page_walk_internal(tables, free, page_table_active_root, va, FALSE)
    IN  IF w.status = "found" THEN Phys(ReadEntry(w, va), w.level, va) ELSE NULL

page_table_is_mapped(va) ==
    LET w == page_walk_internal(tables, free, page_table_active_root, va, FALSE)
    IN  w.status = "found"

-----------------------------------------------------------------------------
(* The memory management unit: the entries it reads, from the PML4 down,   *)
(* and the translation with the rights that all of them grant.             *)

Translation(path, va) ==
    LET n == Len(path)
    IN  IF path[n] = NULL THEN NULL
        ELSE [phys     |-> Phys(path[n], 5 - n, va),
              user     |-> \A k \in 1..n : path[k].user,
              writable |-> \A k \in 1..n : path[k].writable]

Mmu(root, va) ==
    LET e4 == tables[root][va[4]]
        e3 == tables[e4.page][va[3]]
        e2 == tables[e3.page][va[2]]
        e1 == tables[e2.page][va[1]]
    IN  IF e4 = NULL THEN NULL
        ELSE IF e3 = NULL \/ e3.huge THEN Translation(<<e4, e3>>, va)
        ELSE IF e2 = NULL \/ e2.huge THEN Translation(<<e4, e3, e2>>, va)
        ELSE Translation(<<e4, e3, e2, e1>>, va)

(* Mutant: the translation stays cached.                                   *)
invalidate_page_missing(va) == tlb

(* invlpg *)
invalidate_page(va) == IF tlb # NULL /\ tlb.va = va THEN NULL ELSE tlb

-----------------------------------------------------------------------------
Init ==
    /\ tables = BootTables
    /\ free = Pages
    /\ kernel_pml4 = NULL
    /\ active = NULL
    /\ procs = {}
    /\ cr3 = BootRoot
    /\ calls = 0
    /\ tlb = NULL

(* paging_init: page_table_init copies the PML4 in use, and                *)
(* page_table_activate loads the copy.                                     *)
paging_init ==
    LET new == pmm_alloc_page(free) IN
    /\ kernel_pml4 = NULL
    /\ free # {}
    /\ tables' = [t \in DOMAIN tables \cup {new} |->
                    IF t = new THEN tables[cr3] ELSE tables[t]]
    /\ free' = free \ {new}
    /\ kernel_pml4' = new
    /\ active' = new
    /\ cr3' = new
    /\ tlb' = NULL
    /\ UNCHANGED <<procs, calls>>

(* A page of the heap, heap_commit_page and heap_init, or a demand-paged   *)
(* one: page_table_map of a page just taken, at an address without one, or *)
(* a mapping over what the boot loader has mapped.  When the walk fails the page *)
(* of heap_commit_page is not given back, and tables made on the way stay. *)
page_table_map(va) ==
    LET page == pmm_alloc_page(free)
        w    == page_walk_internal(tables, free \ {page}, page_table_active_root, va, TRUE)
    IN  /\ kernel_pml4 # NULL
        /\ va \in HeapVA => ~page_table_is_mapped(va)
        /\ free # {}
        /\ free' = w.free
        /\ IF w.status = "found"
           THEN /\ tables' = [w.tables EXCEPT ![w.at][va[1]] = Entry(page, FALSE, TRUE)]
                /\ tlb' = invalidate_page(va)
           ELSE tables' = w.tables /\ UNCHANGED tlb
        /\ UNCHANGED <<kernel_pml4, active, procs, cr3>>
        /\ Count

page_table_unmap(va) ==
    LET w == page_walk_internal(tables, free, page_table_active_root, va, FALSE)
    IN  /\ kernel_pml4 # NULL
        /\ w.status = "found" /\ w.level = 1
        /\ tables' = [tables EXCEPT ![w.at][va[1]] = NULL]
        /\ tlb' = invalidate_page(va)
        /\ UNCHANGED <<free, kernel_pml4, active, procs, cr3>>
        /\ Count

(* PAGE_USER on the entries above the page. *)
OpenToUser(tbl, root, va) ==
    LET pdpt == tbl[root][va[4]].page
        pd   == tbl[pdpt][va[3]].page
    IN  [tbl EXCEPT ![root][va[4]].user = TRUE,
                    ![pdpt][va[3]].user = TRUE,
                    ![pd][va[2]].user = TRUE]

(* Mutant: the page is given back when it is mapped, too.                  *)
GiveBack_always(w, page) == w.free \cup {page}

(* pmm_free_page of a page that was not mapped *)
GiveBack(w, page) == IF w.status = "found" THEN w.free ELSE w.free \cup {page}

(* A page of a process: process_map_initial_stack, process_heap_expand or  *)
(* process_map_segment takes it and gives it back when it is not mapped.   *)
page_table_map_user(root, va, writable) ==
    LET page == pmm_alloc_page(free)
        w    == page_walk_internal(tables, free \ {page}, root, va, TRUE)
    IN  /\ free # {}
        /\ IF w.status = "found"
           THEN tables' = [OpenToUser(w.tables, root, va) EXCEPT
                            ![w.at][va[1]] = Entry(page, TRUE, writable)]
           ELSE tables' = w.tables
        /\ free' = GiveBack(w, page)
        /\ UNCHANGED <<kernel_pml4, active, procs, cr3, tlb>>
        /\ Count

(* Mutant: a process starts with an empty PML4.                            *)
NewRoot_empty == Empty

(* What page_table_create copies. *)
NewRoot == tables[kernel_pml4]

(* process_create: the process structure itself is on the heap, so the     *)
(* heap's first page is mapped.                                            *)
page_table_create ==
    LET new == pmm_alloc_page(free) IN
    /\ kernel_pml4 # NULL
    /\ \E va \in HeapVA : page_table_is_mapped(va)
    /\ free # {}
    /\ tables' = [t \in DOMAIN tables \cup {new} |->
                    IF t = new THEN NewRoot ELSE tables[t]]
    /\ free' = free \ {new}
    /\ procs' = procs \cup {new}
    /\ UNCHANGED <<kernel_pml4, active, cr3, calls, tlb>>
    /\ Cardinality(procs) < MaxProcs

(* Mutant: the space that was active before is remembered.                 *)
ActiveNow_old(root) == active

ActiveNow(root) == root

(* A task of a process is switched to.  Kernel tasks keep the tables they  *)
(* find.                                                                   *)
page_table_switch(root) ==
    /\ active # root
    /\ cr3' = root
    /\ active' = ActiveNow(root)
    /\ tlb' = NULL
    /\ UNCHANGED <<tables, free, kernel_pml4, procs, calls>>

(* page_table_activate again, late in kmain. *)
page_table_activate ==
    /\ kernel_pml4 # NULL
    /\ procs = {}
    /\ cr3' = kernel_pml4
    /\ active' = kernel_pml4
    /\ tlb' = NULL
    /\ UNCHANGED <<tables, free, kernel_pml4, procs, calls>>

(* The processor uses an address of the kernel and caches its translation. *)
(* The others it may hold behave alike and do not depend on this one.      *)
Access(va) ==
    /\ Mmu(cr3, va) # NULL
    /\ tlb' = [va |-> va, entry |-> Mmu(cr3, va)]
    /\ UNCHANGED <<tables, free, kernel_pml4, active, procs, cr3, calls>>

Next ==
    \/ paging_init
    \/ \E va \in KernelVA :
          \/ page_table_map(va)
          \/ page_table_unmap(va)
          \/ Access(va)
    \/ page_table_create
    \/ \E root \in procs :
          \/ page_table_switch(root)
          \/ \E va \in UserVA : page_table_map_user(root, va, va \in WritableVA)
    \/ page_table_activate

Spec == Init /\ [][Next]_vars

-----------------------------------------------------------------------------
(* Properties *)

Roots == procs \cup {kernel_pml4, BootRoot}

(* The tables are trees: a page is entered in one place, except for what   *)
(* the roots have in common, which is the same slot in each; no page in    *)
(* use, table or memory, is free.                                          *)
Tree ==
    LET Used == {u \in (DOMAIN tables) \X Index : tables[u[1]][u[2]] # NULL}
        PageOf(u) == tables[u[1]][u[2]].page
    IN  \A u \in Used :
            /\ PageOf(u) \notin free
            /\ \A v \in Used : PageOf(u) = PageOf(v) =>
                  u = v \/ ({u[1], v[1]} \subseteq Roots /\ u[2] = v[2])

(* Wherever the kernel runs, that is also in the address space of the last *)
(* process, the translations the processor has cached for its addresses    *)
(* and the answers of page_table_translate are those of the tables in CR3. *)
KernelAddressesAgree ==
    \A va \in KernelVA :
        LET t == Mmu(cr3, va) IN
        /\ tlb # NULL /\ tlb.va = va => tlb.entry = t
        /\ page_table_translate(va) = IF t = NULL THEN NULL ELSE t.phys

(* active_pml4_physical, by which page_table_switch decides to do nothing, *)
(* is what CR3 holds.                                                      *)
ActiveIsLoaded == kernel_pml4 # NULL => active = cr3

(* The tables implement AddressSpaces: a walk that fails half way, a new   *)
(* table or an open flag changes no other address, kernel mappings appear  *)
(* in every process, and those of a process nowhere else.                  *)
KernelRoot == IF kernel_pml4 = NULL THEN BootRoot ELSE kernel_pml4

A == INSTANCE AddressSpaces WITH
        kernel <- [va \in VA |-> Mmu(KernelRoot, va)],
        spaces <- [p \in procs |-> [va \in VA |-> Mmu(p, va)]]

Spaces == A!Spec
=============================================================================
