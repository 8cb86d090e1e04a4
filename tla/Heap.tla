-------------------------------- MODULE Heap --------------------------------
(***************************************************************************)
(* The kernel heap, mm/heap.c.  Addresses are relative to                  *)
(* HEAP_START_ADDRESS.  heap maps the address of every block header to its *)
(* fields; a header that a merge has absorbed is ordinary memory again and *)
(* leaves the domain.                                                      *)
(*                                                                         *)
(* The loop of kmalloc, which grows the heap by a page and looks again, is *)
(* one action per round: call is the request it is working on.  The calls  *)
(* of different tasks do not overlap here, and callers pass the pointers   *)
(* they were given, once.                                                  *)
(***************************************************************************)
EXTENDS Naturals

CONSTANTS
    HEADER,             \* sizeof(heap_block_t)
    HEAP_ALIGNMENT,
    PAGE_SIZE,          \* also HEAP_INITIAL_SIZE and HEAP_GROW_SIZE
    SIZE_MAX,
    MaxEnd,             \* the model's physical memory ends the heap here
    Sizes, Counts,      \* arguments of callers
    NULL

ASSUME HeapAssumption ==
    /\ HEADER \in Nat \ {0}
    /\ HEAP_ALIGNMENT \in Nat \ {0}
    /\ PAGE_SIZE \in Nat /\ PAGE_SIZE > HEADER
    /\ SIZE_MAX \in Nat /\ MaxEnd \in Nat
    /\ Sizes \subseteq Nat /\ Counts \subseteq Nat
    /\ NULL \notin Nat

(* align_size adds in 64 bits: callers stay clear of the wrap.             *)
ASSUME NoWrap ==
    \A n \in Sizes : \A c \in Counts : c * n + HEAP_ALIGNMENT <= SIZE_MAX

VARIABLES
    heap,           \* heap_block_t at each block address, from heap_head on
    committed_end,  \* heap_committed_end, with heap_size, heap_virtual_end
    heap_vma,       \* whether heap_vma is set
    call,           \* the request in the loop of kmalloc, or NULL
    live            \* history: the size each pointer in use was asked for

vars == <<heap, committed_end, heap_vma, call, live>>

(* The empty function. *)
Nothing == [x \in {} |-> NULL]

-----------------------------------------------------------------------------
(* The block list.  The walks along next visit the blocks by address,      *)
(* which Links says.                                                       *)

Lowest(S) == CHOOSE x \in S : \A y \in S : x <= y

(* Mutant: blocks in use are taken, too.                                   *)
Fitting_any(h, size) == {b \in DOMAIN h : h[b].size >= size}

Fitting(h, size) == {b \in DOMAIN h : h[b].free /\ h[b].size >= size}

find_free_block(h, size) ==
    IF Fitting(h, size) = {} THEN NULL ELSE Lowest(Fitting(h, size))

find_last_block(h) == CHOOSE b \in DOMAIN h : h[b].next = NULL

TooSmall(h, b, size) == h[b].size <= size + HEADER

(* Mutant: the block after the new one keeps pointing back to block.       *)
NewPrev_kept(h, x, b, new) == h[x]

(* block->next->prev = new_block, for the block x after block              *)
NewPrev(h, x, b, new) == [h[x] EXCEPT !.prev = new]

split_block(h, b, size) ==
    LET new  == b + HEADER + size
        rest == [size |-> h[b].size - size - HEADER, free |-> TRUE,
                 next |-> h[b].next, prev |-> b]
    IN  IF TooSmall(h, b, size) THEN h
        ELSE [x \in DOMAIN h \cup {new} |->
                IF x = new THEN rest
                ELSE IF x = b THEN [h[b] EXCEPT !.size = size, !.next = new]
                ELSE IF x = h[b].next THEN NewPrev(h, x, b, new)
                ELSE h[x]]

(* Block a absorbs its successor b. *)
Absorb(h, a, b) ==
    [x \in DOMAIN h \ {b} |->
        IF x = a THEN [h[a] EXCEPT !.size = @ + HEADER + h[b].size,
                                   !.next = h[b].next]
        ELSE IF x = h[b].next THEN [h[x] EXCEPT !.prev = a]
        ELSE h[x]]

merge_with_next(h, b) ==
    LET next == h[b].next
    IN  IF next = NULL THEN h
        ELSE IF h[next].free THEN Absorb(h, b, next) ELSE h

(* Mutant: a freed block is not merged with the one before it.             *)
merge_with_previous_missing(h, b) == h

merge_with_previous(h, b) ==
    LET prev == h[b].prev
    IN  IF prev = NULL THEN h
        ELSE IF h[prev].free THEN Absorb(h, prev, b) ELSE h

(* After the loops of coalesce_free_blocks: a block is kept unless it and  *)
(* the one before it are free, and reaches to the next block that is kept. *)
coalesce_free_blocks(h, end) ==
    LET Kept == {b \in DOMAIN h :
                    ~ (h[b].free /\ h[b].prev # NULL /\ h[h[b].prev].free)}
        Above(b) == {c \in Kept : c > b}
        Below(b) == {c \in Kept : c < b}
        Next(b)  == IF Above(b) = {} THEN NULL ELSE Lowest(Above(b))
    IN  [b \in Kept |->
            [size |-> (IF Next(b) = NULL THEN end ELSE Next(b)) - b - HEADER,
             free |-> h[b].free,
             next |-> Next(b),
             prev |-> IF Below(b) = {} THEN NULL
                      ELSE CHOOSE c \in Below(b) : \A d \in Below(b) : d <= c]]

(* Mutant: sizes are rounded down.                                         *)
align_size_down(size) == (size \div HEAP_ALIGNMENT) * HEAP_ALIGNMENT

align_size(size) ==
    ((size + HEAP_ALIGNMENT - 1) \div HEAP_ALIGNMENT) * HEAP_ALIGNMENT

(* kfree, for the block b of the pointer. *)
Freed(h, b) ==
    LET marked == [h EXCEPT ![b].free = TRUE]
    IN  merge_with_previous(merge_with_next(marked, b), b)

Without(f, x) == [y \in DOMAIN f \ {x} |-> f[y]]
With(f, x, v) == [y \in DOMAIN f \cup {x} |-> IF y = x THEN v ELSE f[y]]

-----------------------------------------------------------------------------
(* heap_init: one free block on the first page, or, if there was no page   *)
(* or it could not be mapped, no heap: heap_head and heap_vma stay NULL.   *)
FirstBlock == [size |-> PAGE_SIZE - HEADER, free |-> TRUE, next |-> NULL, prev |-> NULL]

Init ==
    /\ heap_vma \in BOOLEAN
    /\ heap = IF heap_vma THEN [b \in {0} |-> FirstBlock] ELSE Nothing
    /\ committed_end = IF heap_vma THEN PAGE_SIZE ELSE 0
    /\ call = NULL
    /\ live = Nothing

Request(size, old) ==
    /\ call' = [size |-> align_size(size), asked |-> size, old |-> old]
    /\ UNCHANGED <<heap, committed_end, heap_vma, live>>

kmalloc(size) ==
    /\ call = NULL
    /\ size # 0
    /\ Request(size, NULL)

kcalloc(count, size) ==
    /\ call = NULL
    /\ count # 0 /\ size # 0
    /\ count <= SIZE_MAX \div size
    /\ Request(count * size, NULL)

(* A round of kmalloc that finds a block; krealloc then gives back the old *)
(* one.                                                                    *)
kmalloc_found ==
    /\ call # NULL
    /\ LET h     == coalesce_free_blocks(heap, committed_end)
           block == find_free_block(h, call.size)
           taken == [split_block(h, block, call.size) EXCEPT ![block].free = FALSE]
           ptr   == block + HEADER
       IN  /\ block # NULL
           /\ IF call.old = NULL
              THEN /\ heap' = taken
                   /\ live' = With(live, ptr, call.asked)
              ELSE /\ heap' = Freed(taken, call.old - HEADER)
                   /\ live' = With(Without(live, call.old), ptr, call.asked)
    /\ call' = NULL
    /\ UNCHANGED <<committed_end, heap_vma>>

(* heap_create_block, and the links to and from the last block *)
Appended(h, end) ==
    LET last == find_last_block(h) IN
    With([h EXCEPT ![last].next = end], end,
         [size |-> PAGE_SIZE - HEADER, free |-> TRUE, next |-> NULL, prev |-> last])

(* A round that finds none and grows the heap: heap_grow, heap_expand.     *)
heap_expand ==
    /\ call # NULL
    /\ heap_vma
    /\ LET h    == coalesce_free_blocks(heap, committed_end)
           last == find_last_block(h)
           new  == Appended(h, committed_end)
       IN  /\ find_free_block(h, call.size) = NULL
           /\ heap' = IF h[last].free THEN merge_with_next(new, last) ELSE new
    /\ committed_end + PAGE_SIZE <= MaxEnd
    /\ committed_end' = committed_end + PAGE_SIZE
    /\ UNCHANGED <<heap_vma, call, live>>

(* A round that finds none and cannot grow: no page, no mapping or no      *)
(* heap.  kmalloc returns NULL, and krealloc leaves the old block alone.   *)
kmalloc_fails ==
    /\ call # NULL
    /\ find_free_block(coalesce_free_blocks(heap, committed_end), call.size) = NULL
    /\ heap' = coalesce_free_blocks(heap, committed_end)
    /\ call' = NULL
    /\ UNCHANGED <<committed_end, heap_vma, live>>

kfree(ptr) ==
    /\ call = NULL
    /\ heap' = Freed(heap, ptr - HEADER)
    /\ live' = Without(live, ptr)
    /\ UNCHANGED <<committed_end, heap_vma, call>>

(* krealloc of a pointer to a block that is already large enough, ...      *)
krealloc_same(ptr, size) ==
    /\ call = NULL
    /\ size # 0
    /\ heap[ptr - HEADER].size >= align_size(size)
    /\ live' = [live EXCEPT ![ptr] = size]
    /\ UNCHANGED <<heap, committed_end, heap_vma, call>>

(* ... and of one that is not.  (A NULL pointer is kmalloc, size 0 kfree.) *)
krealloc_moves(ptr, size) ==
    /\ call = NULL
    /\ size # 0
    /\ heap[ptr - HEADER].size < align_size(size)
    /\ Request(size, ptr)

Next ==
    \/ \E size \in Sizes :
          \/ kmalloc(size)
          \/ \E count \in Counts : kcalloc(count, size)
          \/ \E ptr \in DOMAIN live : krealloc_same(ptr, size) \/ krealloc_moves(ptr, size)
    \/ \E ptr \in DOMAIN live : kfree(ptr)
    \/ kmalloc_found
    \/ heap_expand
    \/ kmalloc_fails

Spec == Init /\ [][Next]_vars

-----------------------------------------------------------------------------
(* Properties *)

BlockEnd(b) == b + HEADER + heap[b].size

(* The blocks tile the committed memory, in the order of their links, and  *)
(* prev undoes next: no byte is lost or in two blocks after any sequence   *)
(* of splits, merges and growth.                                           *)
Links ==
    /\ heap_vma <=> 0 \in DOMAIN heap
    /\ \A b \in DOMAIN heap :
         /\ \A c \in DOMAIN heap : b < c => BlockEnd(b) <= c
         /\ heap[b].next = NULL <=> BlockEnd(b) = committed_end
         /\ heap[b].prev = NULL <=> b = 0
         /\ heap[b].next # NULL =>
               /\ heap[b].next = BlockEnd(b)
               /\ heap[b].next \in DOMAIN heap
               /\ heap[heap[b].next].prev = b
         /\ heap[b].prev # NULL =>
               /\ heap[b].prev \in DOMAIN heap
               /\ heap[heap[b].prev].next = b

(* Free neighbours are always merged: the scan at the head of kmalloc      *)
(* never finds anything to do, and when all is freed one block is left.    *)
Coalesced ==
    \A b \in DOMAIN heap :
        heap[b].next # NULL => ~ (heap[b].free /\ heap[heap[b].next].free)

(* The pointers in use are exactly the used blocks, and each has at least  *)
(* the size it was asked for: no two callers share a byte, none is given   *)
(* too little, and nothing stays allocated after its kfree or krealloc.    *)
LiveBlocks ==
    /\ DOMAIN live = {b + HEADER : b \in {c \in DOMAIN heap : ~heap[c].free}}
    /\ \A ptr \in DOMAIN live : heap[ptr - HEADER].size >= live[ptr]

(* The heap implements BlockAllocator: what it hands out is within the     *)
(* heap and disjoint from everything in use.                               *)
A == INSTANCE BlockAllocator WITH end <- committed_end

Allocator == A!Spec
=============================================================================
