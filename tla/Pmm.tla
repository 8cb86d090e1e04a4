--------------------------------- MODULE Pmm ---------------------------------
(***************************************************************************)
(* The physical memory manager: mm/pmm.c over the bitmap of mm/bitmap.c.   *)
(*                                                                         *)
(* A call is one action: the page-fault handler calls it with interrupts   *)
(* off, kmain before there are tasks to switch to.  The loops that mark    *)
(* the pages of a region one by one are operations on the set of pages:    *)
(* what one page does to the counters and the hint does not depend on the  *)
(* order.                                                                  *)
(*                                                                         *)
(* The callers keep their side of the contract: they give back what they   *)
(* hold and lock what nobody holds.                                        *)
(***************************************************************************)
EXTENDS Naturals, FiniteSets

CONSTANTS
    MemMaps,                \* the memory maps the boot loader may hand over
    KernelImage,            \* physical base and length of the kernel
    PMM_PAGE_SIZE,
    PMM_BITMAP_MAX_BITS,
    PHYS_LIMIT,             \* the end of the physical address space
    Lengths,                \* lengths and counts that callers pass
    NULL

USABLE == "usable"
Reserved == {"bootloader", "executable", "framebuffer"}

Bytes(e) == e.base .. (e.base + e.length - 1)

Entry == [type : STRING, base : Nat, length : Nat]

(* Limine: usable entries are page-aligned and overlap no other entry, and *)
(* the kernel image is in entries that are not usable.                     *)
LimineMap(map) ==
    /\ map \subseteq Entry
    /\ \A e \in map : e.base + e.length <= PHYS_LIMIT
    /\ \A b \in Bytes(KernelImage) :
          \E e \in map : e.type # USABLE /\ b \in Bytes(e)
    /\ \A e \in map : e.type = USABLE =>
         /\ e.base % PMM_PAGE_SIZE = 0 /\ e.length % PMM_PAGE_SIZE = 0
         /\ \A f \in map : f # e => Bytes(e) \cap Bytes(f) = {}

ASSUME PmmAssumption ==
    /\ PMM_PAGE_SIZE \in Nat \ {0}
    /\ PMM_BITMAP_MAX_BITS \in Nat
    /\ PHYS_LIMIT \in Nat
    /\ KernelImage \in [base : Nat, length : Nat]
    /\ Lengths \subseteq Nat
    /\ NULL \notin Nat \cup MemMaps
    /\ \A map \in MemMaps : LimineMap(map)

VARIABLES
    pmm,        \* the static variables of pmm.c and bitmap.c
    memmap,     \* history: the memory map pmm_init was called with, or NULL
    held,       \* history: the pages that callers hold
    ret         \* history: what the last call returned, <<>> if it is void

vars == <<pmm, memmap, held, ret>>

-----------------------------------------------------------------------------
(* mm/bitmap.c: bitmap is the set of the bits that are set.                *)

bitmap_test(p, page) == page >= p.bitmap_bits \/ page \in p.bitmap

FreePages(p) == {page \in 0..(p.total_pages - 1) : ~bitmap_test(p, page)}

Minus(a, b) == IF a >= b THEN a - b ELSE 0

Lowest(S) == CHOOSE x \in S : \A y \in S : x <= y

(* pmm_mark_page_used for every page of S. *)
pmm_mark_page_used(p, S) ==
    LET new == S \cap FreePages(p) IN
    [p EXCEPT !.bitmap = @ \cup new,
              !.free_pages = Minus(@, Cardinality(new)),
              !.used_pages = @ + Cardinality(new)]

(* Mutant: page 0 is freed like any other page.                            *)
Freeable_zero(p, S) ==
    {page \in S : page < p.total_pages /\ bitmap_test(p, page)}

Freeable(p, S) ==
    {page \in S : page # 0 /\ page < p.total_pages /\ bitmap_test(p, page)}

(* Mutant: the hint is not lowered.                                        *)
Hint_kept(p, new) == p.next_free_page

Hint(p, new) == Lowest({p.next_free_page} \cup new)

(* pmm_mark_page_free for every page of S. *)
pmm_mark_page_free(p, S) ==
    LET new == Freeable(p, S) IN
    [p EXCEPT !.bitmap = @ \ new,
              !.free_pages = @ + Cardinality(new),
              !.used_pages = Minus(@, Cardinality(new)),
              !.next_free_page = Hint(p, new)]

pmm_address_to_page(address) == address \div PMM_PAGE_SIZE

(* Mutant: one page more than the length needs.                            *)
pmm_region_page_count_over(length) == length \div PMM_PAGE_SIZE + 1

pmm_region_page_count(length) ==
    IF length = 0 THEN 0 ELSE (length + PMM_PAGE_SIZE - 1) \div PMM_PAGE_SIZE

(* The count pages from start on, cut off at the end of memory.            *)
pmm_clamp_page_count(p, start, count) ==
    {page \in start..(start + count - 1) : page < p.total_pages}

Region(p, base, length) ==
    pmm_clamp_page_count(p, pmm_address_to_page(base), pmm_region_page_count(length))

RegionsOf(p, map, types) ==
    UNION {Region(p, e.base, e.length) : e \in {f \in map : f.type \in types}}

(* Mutant: the search starts one page too far.                             *)
pmm_seek_next_free_page_past(p) ==
    LET ahead == {page \in FreePages(p) : page > p.next_free_page} IN
    [p EXCEPT !.next_free_page =
        IF @ >= p.total_pages THEN @
        ELSE Lowest(ahead \cup {p.total_pages})]

pmm_seek_next_free_page(p) ==
    LET ahead == {page \in FreePages(p) : page >= p.next_free_page} IN
    [p EXCEPT !.next_free_page =
        IF @ >= p.total_pages THEN @
        ELSE Lowest(ahead \cup {p.total_pages})]

-----------------------------------------------------------------------------
highest_address(map) ==
    LET ends == {e.base + e.length : e \in {f \in map : f.type = USABLE}}
    IN  CHOOSE h \in ends \cup {0} : \A x \in ends : x <= h

(* The state before pmm_init: zero-initialised statics.                    *)
Zero == [total_pages |-> 0, bitmap_bits |-> 0, bitmap |-> {}, free_pages |-> 0,
         used_pages |-> 0, next_free_page |-> 0]

(* After bitmap_init: every page is in use, and none of them is counted.   *)
AllUsed(total) ==
    [Zero EXCEPT !.total_pages = total, !.bitmap_bits = total,
                 !.bitmap = 0..(total - 1)]

Booted(map) ==
    LET total  == pmm_region_page_count(highest_address(map))
        usable == pmm_mark_page_free(AllUsed(total), RegionsOf(AllUsed(total), map, {USABLE}))
        taken  == Region(usable, 0, PMM_PAGE_SIZE)
                    \cup Region(usable, KernelImage.base, KernelImage.length)
                    \cup RegionsOf(usable, map, Reserved)
    IN  IF total > PMM_BITMAP_MAX_BITS
        THEN [Zero EXCEPT !.total_pages = total]
        ELSE pmm_seek_next_free_page(pmm_mark_page_used(usable, taken))

Init == pmm = Zero /\ memmap = NULL /\ held = {} /\ ret = <<>>

pmm_init(map) ==
    /\ memmap = NULL
    /\ pmm' = Booted(map)
    /\ memmap' = map
    /\ ret' = <<>>
    /\ UNCHANGED held

(* The pages among which pmm_alloc_page takes the first: pass 0 looks from *)
(* the hint on, pass 1 below it.                                           *)
Found(p) ==
    LET ahead == {page \in FreePages(p) : page >= p.next_free_page}
    IN  IF ahead # {} THEN ahead ELSE FreePages(p)

(* The page pmm_alloc_page returns. *)
Result(p) ==
    IF p.free_pages = 0 \/ Found(p) = {} THEN NULL ELSE Lowest(Found(p))

pmm_alloc_page ==
    /\ memmap # NULL
    /\ ret' = <<Result(pmm)>>
    /\ LET page == Result(pmm)
           used == pmm_mark_page_used(pmm, {page})
           next == IF page + 1 >= pmm.total_pages THEN 0 ELSE page + 1
       IN  IF page = NULL
           THEN UNCHANGED <<pmm, held>>
           ELSE /\ pmm' = pmm_seek_next_free_page([used EXCEPT !.next_free_page = next])
                /\ held' = held \cup {page}
    /\ UNCHANGED memmap

Take(S) ==
    /\ memmap # NULL
    /\ S \cap held = {}
    /\ pmm' = pmm_mark_page_used(pmm, S)
    /\ held' = held \cup (S \cap FreePages(pmm))
    /\ ret' = <<>>
    /\ UNCHANGED memmap

Give(S) ==
    /\ memmap # NULL
    /\ S \subseteq held
    /\ pmm' = pmm_mark_page_free(pmm, S)
    /\ held' = held \ S
    /\ ret' = <<>>
    /\ UNCHANGED memmap

Page(address) == {pmm_address_to_page(address)}

pmm_lock_page(address) ==
    Take({page \in Page(address) : page < pmm.total_pages})

pmm_free_page(address) == Give(Page(address))

pmm_lock_pages(address, count) ==
    Take(pmm_clamp_page_count(pmm, pmm_address_to_page(address), count))

pmm_unlock_pages(address, count) ==
    Give(pmm_clamp_page_count(pmm, pmm_address_to_page(address), count))

pmm_reserve_region(base, length) == Take(Region(pmm, base, length))

pmm_unreserve_region(base, length) == Give(Region(pmm, base, length))

Addresses == 0..(pmm.total_pages * PMM_PAGE_SIZE)

Next ==
    \/ \E map \in MemMaps : pmm_init(map)
    \/ pmm_alloc_page
    \/ \E address \in Addresses :
          \/ pmm_lock_page(address)
          \/ pmm_free_page(address)
          \/ \E n \in Lengths :
                \/ pmm_lock_pages(address, n)
                \/ pmm_unlock_pages(address, n)
                \/ pmm_reserve_region(address, n)
                \/ pmm_unreserve_region(address, n)

Spec == Init /\ [][Next]_vars

-----------------------------------------------------------------------------
(* Properties *)

PmmState == [total_pages : Nat, bitmap_bits : Nat, bitmap : SUBSET Nat,
             free_pages : Nat, used_pages : Nat, next_free_page : Nat]

(* The variables have their types, the bitmap covers no memory that is not *)
(* there, and the hint stays within memory.                                *)
PmmOK(p) ==
    /\ p \in PmmState
    /\ p.bitmap_bits \in {0, p.total_pages}
    /\ p.bitmap \subseteq 0..(p.bitmap_bits - 1)
    /\ p.next_free_page <= p.total_pages

TypeOK ==
    /\ PmmOK(pmm)
    /\ memmap \in MemMaps \cup {NULL}
    /\ held \subseteq 0..(pmm.total_pages - 1)

Managed == RegionsOf(pmm, memmap, {USABLE}) \ {0}

(* The counters pmm_get_free_pages and pmm_get_used_pages report agree     *)
(* with the bitmap, although each of them is kept by saturating            *)
(* increments and decrements of its own: free_pages counts the clear bits, *)
(* and the two together always count the usable pages (not all pages: the  *)
(* bits set by bitmap_init are never counted as used).                     *)
Counters ==
    pmm.bitmap_bits # 0 =>
        /\ pmm.free_pages = Cardinality(FreePages(pmm))
        /\ pmm.free_pages + pmm.used_pages = Cardinality(Managed)

(* pmm_alloc_page fails only when no page is free, and otherwise returns   *)
(* the lowest free page, although it starts its search at a hint that      *)
(* locks, frees and wrap-around move about.                                *)
LowestFit ==
    /\ Result(pmm) = NULL <=> FreePages(pmm) = {}
    /\ Result(pmm) # NULL => \A page \in FreePages(pmm) : Result(pmm) <= page

(* Page g, if every byte of it is in usable memory and outside the kernel. *)
Safe(map, g) ==
    /\ g # 0
    /\ \A b \in (g * PMM_PAGE_SIZE)..(g * PMM_PAGE_SIZE + PMM_PAGE_SIZE - 1) :
         /\ \E e \in map : e.type = USABLE /\ b \in Bytes(e)
         /\ \A e \in map : e.type # USABLE => b \notin Bytes(e)
         /\ b \notin Bytes(KernelImage)

(* Memory that is not usable RAM is never handed out, nor is page 0, whose *)
(* address callers could not tell from failure; and a page in use is never *)
(* handed out again.  This rests on how entries are rounded to pages.      *)
OnlySafePages ==
    /\ FreePages(pmm) \cap held = {}
    /\ \A g \in FreePages(pmm) \cup held : Safe(memmap, g)

(* The strengthening that makes these inductive: no free page is below the *)
(* hint, every page handed out or to be handed out is a usable one, and a  *)
(* manager without a bitmap has nothing to give.                           *)
HintOK(p) == \A page \in FreePages(p) : p.next_free_page <= page

IInv ==
    /\ TypeOK /\ Counters /\ OnlySafePages
    /\ HintOK(pmm)
    /\ pmm.bitmap_bits # 0 => memmap # NULL /\ FreePages(pmm) \cup held \subseteq Managed
    /\ pmm.bitmap_bits = 0 => held = {} /\ pmm.free_pages = 0

(* The manager implements PageAllocator.                                   *)
A == INSTANCE PageAllocator WITH free <- FreePages(pmm)

Allocator == A!Spec
=============================================================================
