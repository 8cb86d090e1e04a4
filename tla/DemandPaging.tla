---------------------------- MODULE DemandPaging ----------------------------
(***************************************************************************)
(* Demand paging, vmm/demand_paging.c with the page fault handler, beside  *)
(* the growing kernel heap, which commits its pages itself and keeps its   *)
(* area up to date through a pointer into the table of areas.              *)
(*                                                                         *)
(* The page tables appear as what AddressSpaces promises: mapped is the    *)
(* set of pages with a translation, and a mapping may need up to three new *)
(* tables.  An instruction of the kernel uses an address, faults and is    *)
(* retried.  Physical pages are counted.                                   *)
(***************************************************************************)
EXTENDS Vma, FiniteSets

CONSTANTS
    PAGE_SIZE,
    HEAP_START,         \* HEAP_START_ADDRESS
    Total,              \* the pages of the page allocator
    Uses,               \* addresses the kernel's instructions use
    NULL

ASSUME DemandPagingAssumption ==
    /\ PAGE_SIZE \in Nat \ {0}
    /\ WORD % PAGE_SIZE = 0 /\ HEAP_START % PAGE_SIZE = 0
    /\ HEAP_START \in Addr
    /\ Total \in Nat \ {0} /\ VMA_MAX_COUNT > 0
    /\ Uses \subseteq Addr

(* The heap cannot reach the end of the address space: memory ends first.  *)
(* The bitmap of pmm.c holds 4 GiB, and HEAP_START_ADDRESS is 7 * 2^44     *)
(* bytes below 2^64.                                                       *)
ASSUME MemoryAssumption == HEAP_START + Total * PAGE_SIZE < WORD

VARIABLES
    mapped,             \* the addresses of the pages that are mapped
    free,               \* the number of free pages
    tables,             \* ... of pages that became page tables
    lost,               \* ... of pages that are neither, and used by nobody
    heap_vma,           \* the index heap_vma points to, 0 for NULL
    committed_end,      \* heap_committed_end
    refused,            \* history: the last vma_resize of the heap failed
    access,             \* the address an instruction is using, or NULL
    halted              \* after kernel_panic

dvars == <<vma_table, mapped, free, tables, lost, heap_vma, committed_end, refused,
           access, halted>>

PageBase(address) == (address \div PAGE_SIZE) * PAGE_SIZE

(* The page vmm_handle_page_fault maps *)
PageToMap(address) == PageBase(address)

(* page_table_map of one page, taken already: need tables are missing on   *)
(* the way to it; if there are not as many free pages it fails, and keeps  *)
(* the tables it has made.                                                 *)
MapSucceeds(need) == need <= free - 1
TablesMade(need) == IF MapSucceeds(need) THEN need ELSE free - 1

-----------------------------------------------------------------------------
(* kmain: vma_init, vma_create for the heap, heap_init with enough memory. *)
DInit ==
    /\ vma_table = Created(<<>>, HEAP_START, PAGE_SIZE, TRUE)
    /\ mapped = {HEAP_START}
    /\ free = Total - 1
    /\ tables = 0
    /\ lost = 0
    /\ heap_vma = vma_find(vma_table, HEAP_START)
    /\ committed_end = HEAP_START + PAGE_SIZE
    /\ refused = FALSE
    /\ access = NULL
    /\ halted = FALSE

(* Another part of the kernel makes, resizes or destroys an area, anywhere *)
(* but at HEAP_START: also where the heap will want to grow.               *)
AreaCall ==
    /\ ~halted /\ access = NULL
    /\ \E start \in Starts :
          /\ start # HEAP_START
          /\ \/ \E size \in Sizes, demand \in Flags : vma_create(start, size, demand)
             \/ \E size \in Sizes : vma_resize(start, size)
             \/ vma_destroy(start)
    /\ UNCHANGED <<mapped, free, tables, lost, heap_vma, committed_end, refused, access, halted>>

(* Mutant: the area keeps its size when the heap grows.                    *)
HeapArea_kept(end) == vma_table

(* vma_resize(heap_vma->start, heap_size), whose failure is only reported  *)
HeapArea(end) == Resized(vma_table, vma_table[heap_vma].start, end - HEAP_START)

(* Whether the new end of the heap's area meets another area *)
InTheWay(end) ==
    \E i \in DOMAIN vma_table \ {heap_vma} : Conflict(HEAP_START, end, vma_table[i])

(* heap_expand: a page at heap_committed_end, then the area.  Nothing      *)
(* tests whether that address is free or within HEAP_MAX_SIZE.  The page   *)
(* of a mapping that fails is not given back, and neither is the page that *)
(* a fault has mapped there before, whose entry is overwritten.            *)
heap_expand(need) ==
    /\ ~halted /\ access = NULL
    /\ free > 0
    /\ committed_end \in mapped => need = 0
    /\ tables' = tables + TablesMade(need)
    /\ free' = free - 1 - TablesMade(need)
    /\ IF MapSucceeds(need)
       THEN /\ mapped' = mapped \cup {committed_end}
            /\ lost' = IF committed_end \in mapped THEN lost + 1 ELSE lost
            /\ committed_end' = committed_end + PAGE_SIZE
            /\ vma_table' = HeapArea(committed_end')
            /\ refused' = InTheWay(committed_end')
       ELSE lost' = lost + 1 /\ UNCHANGED <<mapped, committed_end, vma_table, refused>>
    /\ UNCHANGED <<heap_vma, access, halted>>

(* An instruction of the kernel uses an address. *)
Use(address) ==
    /\ ~halted /\ access = NULL
    /\ access' = address
    /\ UNCHANGED <<vma_table, mapped, free, tables, lost, heap_vma, committed_end, refused, halted>>

Completes ==
    /\ ~halted /\ access # NULL
    /\ PageBase(access) \in mapped
    /\ access' = NULL
    /\ UNCHANGED <<vma_table, mapped, free, tables, lost, heap_vma, committed_end, refused, halted>>

DemandPaged(address) ==
    LET i == vma_find(vma_table, address) IN i # 0 /\ vma_table[i].demand

Faulting ==
    /\ ~halted /\ access # NULL
    /\ PageBase(access) \notin mapped

(* vmm_handle_page_fault maps a page and the instruction is retried ...    *)
page_fault_recovers(need) ==
    /\ Faulting
    /\ DemandPaged(access)
    /\ free > 0 /\ MapSucceeds(need)
    /\ mapped' = mapped \cup {PageToMap(access)}
    /\ tables' = tables + need
    /\ free' = free - 1 - need
    /\ UNCHANGED <<vma_table, lost, heap_vma, committed_end, refused, access, halted>>

(* Mutant: the page is kept when it could not be mapped.                   *)
FreedPage_kept == 0

(* pmm_free_page(physical_page) *)
FreedPage == 1

(* ... or it cannot, for want of a page or of a table, and the kernel      *)
(* panics.                                                                 *)
page_fault_no_memory(need) ==
    /\ Faulting
    /\ DemandPaged(access)
    /\ free = 0 \/ ~MapSucceeds(need)
    /\ LET made == IF free = 0 THEN 0 ELSE TablesMade(need)
           page == IF free = 0 THEN 0 ELSE 1
       IN  /\ tables' = tables + made
           /\ free' = free - made - page + page * FreedPage
    /\ halted' = TRUE
    /\ UNCHANGED <<vma_table, mapped, lost, heap_vma, committed_end, refused, access>>

(* Mutant: the handler says that it has recovered.                         *)
page_fault_panics_returns ==
    /\ Faulting
    /\ ~DemandPaged(access)
    /\ UNCHANGED dvars

(* No area, or one that is not demand paged: panic. *)
page_fault_panics ==
    /\ Faulting
    /\ ~DemandPaged(access)
    /\ halted' = TRUE
    /\ UNCHANGED <<vma_table, mapped, free, tables, lost, heap_vma, committed_end, refused, access>>

page_fault_handler ==
    \/ \E need \in 0..3 : page_fault_recovers(need) \/ page_fault_no_memory(need)
    \/ page_fault_panics

(* for (;;) hlt *)
Halt == halted /\ UNCHANGED dvars

DNext ==
    \/ AreaCall
    \/ \E need \in 0..3 : heap_expand(need)
    \/ \E address \in Uses : Use(address)
    \/ Completes
    \/ page_fault_handler
    \/ Halt

(* The processor goes on executing: the instruction completes or faults.   *)
DSpec == DInit /\ [][DNext]_dvars /\ WF_dvars(Completes) /\ WF_dvars(page_fault_handler)

-----------------------------------------------------------------------------
(* Properties *)

(* Every page of memory is free, mapped, a table, or one of those that     *)
(* heap_commit_page loses: the fault handler loses none, on any path.      *)
PagesAccounted == free + Cardinality(mapped) + tables + lost = Total

(* The pointer the heap took to its area still points to it after other    *)
(* areas were destroyed and the table shifted; the area is the memory that *)
(* was committed, and falls behind it only when another area is in the     *)
(* way, until the next growth after that is gone.  All that is committed   *)
(* is mapped, in the area or not: the heap itself never faults.            *)
HeapAreaCurrent ==
    /\ vma_table[heap_vma].start = HEAP_START /\ vma_table[heap_vma].demand
    /\ vma_table[heap_vma].end <= committed_end
    /\ ~refused => vma_table[heap_vma].end = committed_end
    /\ \A a \in Addr : HEAP_START <= a /\ a < committed_end => PageBase(a) \in mapped

(* Every access ends: it completes, if need be after a page fault, or the  *)
(* kernel stops; it never faults again and again.                          *)
AccessEnds == access # NULL ~> access = NULL \/ halted
=============================================================================
