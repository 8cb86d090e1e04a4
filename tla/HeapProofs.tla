----------------------------- MODULE HeapProofs -----------------------------
(***************************************************************************)
(* Proofs about Heap, for headers, alignments, pages and requests of any   *)
(* size and a heap of any length.                                          *)
(***************************************************************************)
EXTENDS Heap, WellFoundedInduction, TLAPS

Block == [size : Nat, free : BOOLEAN, next : Nat \cup {NULL}, prev : Nat \cup {NULL}]

EndIn(h, b) == b + HEADER + h[b].size

(* Links of a list that ends at end, with what makes it inductive: blocks  *)
(* lie before the end, and the first block is there if any is.             *)
Tiled(h, end) ==
    /\ h = [b \in DOMAIN h |-> h[b]]
    /\ end \in Nat
    /\ \A b \in DOMAIN h : b \in Nat /\ h[b] \in Block /\ EndIn(h, b) <= end
    /\ DOMAIN h # {} => 0 \in DOMAIN h
    /\ \A b, c \in DOMAIN h : b < c => EndIn(h, b) <= c
    /\ \A b \in DOMAIN h :
         /\ h[b].next = IF EndIn(h, b) = end THEN NULL ELSE EndIn(h, b)
         /\ h[b].next # NULL => h[b].next \in DOMAIN h /\ h[h[b].next].prev = b
         /\ h[b].prev = NULL <=> b = 0
         /\ h[b].prev # NULL => h[b].prev \in DOMAIN h /\ h[h[b].prev].next = b

(* Coalesced, except perhaps for the block x.                              *)
MergedBut(h, x) ==
    \A b \in DOMAIN h :
        h[b].next # NULL /\ b # x /\ h[b].next # x => ~ (h[b].free /\ h[h[b].next].free)

Merged(h) ==
    \A b \in DOMAIN h : h[b].next # NULL => ~ (h[b].free /\ h[h[b].next].free)

Used(h) == {b \in DOMAIN h : ~h[b].free}

(* block->free = v *)
Mark(h, b, v) == [h EXCEPT ![b].free = v]

(* The block that kmalloc takes.                                           *)
Taken(h, b, size) == Mark(split_block(h, b, size), b, FALSE)

(* g is h with the block b marked free, or used.                           *)
Same(h, g, b) ==
    /\ DOMAIN g = DOMAIN h
    /\ \A x \in DOMAIN h :
          /\ x # b => g[x].free = h[x].free
          /\ g[x].size = h[x].size /\ g[x].next = h[x].next /\ g[x].prev = h[x].prev

(* g is h with the block b in its predecessor a.                           *)
Joined(h, g, a, b) ==
    /\ DOMAIN g = DOMAIN h \ {b} /\ a \in DOMAIN g
    /\ \A x \in DOMAIN g :
          /\ g[x].free = h[x].free
          /\ x # a => g[x].size = h[x].size /\ g[x].next = h[x].next
          /\ x # h[b].next => g[x].prev = h[x].prev
    /\ g[a].next = h[b].next
    /\ h[b].next # NULL => g[h[b].next].prev = a /\ h[b].next # a

(* g is h with a free block at end, behind the last one.                   *)
Extended(h, g, last, end) ==
    /\ DOMAIN g = DOMAIN h \cup {end}
    /\ end \notin DOMAIN h /\ last \in DOMAIN h
    /\ \A x \in DOMAIN h :
          /\ g[x].free = h[x].free /\ g[x].size = h[x].size
          /\ g[x].next = IF x = last THEN end ELSE h[x].next
    /\ g[end].free /\ g[end].next = NULL /\ h[last].next = NULL

-----------------------------------------------------------------------------
(* Numbers.                                                                *)

(* A non-empty set of addresses has a lowest one.                          *)
LEMMA LowestFacts ==
    ASSUME NEW S, S \subseteq Nat, S # {}
    PROVE  Lowest(S) \in S /\ \A y \in S : Lowest(S) <= y
  <1>1. PICK x \in S : \A y \in S : ~(<<y, x>> \in OpToRel(<, Nat))
    BY WFMin, NatLessThanWellFounded, Zenon
  <1>2. \A y \in S : x <= y
    <2> TAKE y \in S
    <2>1. ~(y < x)
      BY <1>1 DEF OpToRel
    <2>2. QED BY <2>1
  <1>3. QED BY <1>2 DEF Lowest

(* A non-empty set of addresses below a bound has a highest one.           *)
LEMMA HighestExists ==
    ASSUME NEW S, S \subseteq Nat, S # {}, NEW bound \in Nat, \A y \in S : y <= bound
    PROVE  \E x \in S : \A y \in S : y <= x
  <1> DEFINE T == {n \in Nat : \E y \in S : n = bound - y}
  <1>1. T \subseteq Nat /\ T # {}
    <2>1. PICK y \in S : TRUE
      OBVIOUS
    <2>2. bound - y \in T
      BY <2>1
    <2>3. QED BY <2>2
  <1>2. Lowest(T) \in T /\ \A n \in T : Lowest(T) <= n
    <2> HIDE DEF T
    <2> QED BY <1>1, LowestFacts
  <1>3. PICK x \in S : Lowest(T) = bound - x
    BY <1>2
  <1>4. \A y \in S : y <= x
    <2> TAKE y \in S
    <2>1. bound - y \in T /\ x \in Nat /\ y \in Nat
      OBVIOUS
    <2>2. bound - x <= bound - y
      BY <1>2, <1>3, <2>1
    <2>3. QED BY <2>1, <2>2
  <1>5. QED BY <1>4

(* align_size never returns less than it was given.                        *)
LEMMA AlignFacts ==
    ASSUME NEW size \in Nat
    PROVE  align_size(size) \in Nat /\ align_size(size) >= size
  <1> DEFINE n == size + HEAP_ALIGNMENT - 1
             q == n \div HEAP_ALIGNMENT
  <1>1. HEAP_ALIGNMENT \in Nat \ {0}
    BY HeapAssumption
  <1>2. n \in Nat
    BY <1>1
  <1>3. q \in Nat /\ n < HEAP_ALIGNMENT * q + HEAP_ALIGNMENT
    <2> HIDE DEF n
    <2> QED BY <1>1, <1>2
  <1>4. q * HEAP_ALIGNMENT \in Nat /\ q * HEAP_ALIGNMENT = HEAP_ALIGNMENT * q
    <2> HIDE DEF q
    <2> QED BY <1>1, <1>3
  <1>5. q * HEAP_ALIGNMENT >= size
    <2> HIDE DEF q
    <2> QED BY <1>1, <1>3, <1>4
  <1>6. QED BY <1>4, <1>5 DEF align_size

-----------------------------------------------------------------------------
(* Reading the list.                                                       *)

(* The facts of a tiled list, one by one.                                  *)
LEMMA TiledFacts ==
    ASSUME NEW h, NEW end, Tiled(h, end)
    PROVE  /\ end \in Nat /\ HEADER \in Nat \ {0} /\ NULL \notin Nat
           /\ \A b \in DOMAIN h :
                /\ b \in Nat /\ h[b] \in Block
                /\ h[b].size \in Nat /\ h[b].free \in BOOLEAN
                /\ h[b].next \in Nat \cup {NULL} /\ h[b].prev \in Nat \cup {NULL}
                /\ EndIn(h, b) = b + HEADER + h[b].size
                /\ EndIn(h, b) \in Nat /\ b < EndIn(h, b) /\ EndIn(h, b) <= end
  BY HeapAssumption DEF Tiled, Block, EndIn

(* What find_free_block returns.                                           *)
LEMMA FindFacts ==
    ASSUME NEW h, NEW end, Tiled(h, end), NEW size,
           find_free_block(h, size) # NULL
    PROVE  /\ find_free_block(h, size) \in DOMAIN h
           /\ h[find_free_block(h, size)].free
           /\ h[find_free_block(h, size)].size >= size
  <1> DEFINE S == Fitting(h, size)
  <1>1. S # {} /\ find_free_block(h, size) = Lowest(S)
    BY DEF find_free_block
  <1>2. S \subseteq Nat
    BY TiledFacts DEF Fitting
  <1>3. Lowest(S) \in S
    <2> HIDE DEF S
    <2> QED BY <1>1, <1>2, LowestFacts
  <1>4. QED BY <1>1, <1>3 DEF Fitting

(* The list of a heap has a last block, and it is the only one.            *)
LEMMA LastFacts ==
    ASSUME NEW h, NEW end, Tiled(h, end), DOMAIN h # {},
           NEW last, last = find_last_block(h)
    PROVE  /\ last \in DOMAIN h /\ h[last].next = NULL /\ EndIn(h, last) = end
           /\ \A b \in DOMAIN h : b # last => h[b].next # NULL /\ b < last
  <1>0. /\ DOMAIN h \subseteq Nat /\ end \in Nat
        /\ \A b \in DOMAIN h : b <= end
    BY TiledFacts
  <1>1. PICK x \in DOMAIN h : \A y \in DOMAIN h : y <= x
    BY <1>0, HighestExists
  <1>2. h[x].next = NULL
    <2> SUFFICES ASSUME h[x].next # NULL PROVE FALSE
      OBVIOUS
    <2>1. h[x].next \in DOMAIN h /\ h[x].next = EndIn(h, x)
      BY DEF Tiled
    <2>2. QED BY <1>1, <2>1, TiledFacts
  <1>3. last \in DOMAIN h /\ h[last].next = NULL
    BY <1>2 DEF find_last_block
  <1>4. EndIn(h, last) = end
    BY <1>3, TiledFacts DEF Tiled
  <1>5. ASSUME NEW b \in DOMAIN h, b # last
        PROVE  h[b].next # NULL /\ b < last
    <2>1. ~(last < b)
      BY <1>3, <1>4, TiledFacts DEF Tiled
    <2>2. b < last
      BY <1>0, <1>3, <1>5, <2>1
    <2>3. EndIn(h, b) <= last /\ last < end
      BY <1>3, <1>4, <2>2, TiledFacts DEF Tiled
    <2>4. h[b].next = EndIn(h, b)
      BY <1>0, <1>3, <2>3, TiledFacts DEF Tiled
    <2>5. EndIn(h, b) \in Nat /\ NULL \notin Nat
      BY TiledFacts
    <2>6. QED BY <2>2, <2>4, <2>5
  <1>6. QED BY <1>3, <1>4, <1>5

(* coalesce_free_blocks finds nothing to do in a list without free         *)
(* neighbours: the scan at the head of kmalloc changes no field.           *)
LEMMA NothingToCoalesce ==
    ASSUME NEW h, NEW end, Tiled(h, end), Merged(h)
    PROVE  coalesce_free_blocks(h, end) = h
  <1> DEFINE Kept == {b \in DOMAIN h :
                    ~ (h[b].free /\ h[b].prev # NULL /\ h[h[b].prev].free)}
             Above(b) == {c \in Kept : c > b}
             Below(b) == {c \in Kept : c < b}
             Follow(b)  == IF Above(b) = {} THEN NULL ELSE Lowest(Above(b))
             Size(b) == (IF Follow(b) = NULL THEN end ELSE Follow(b)) - b - HEADER
             Prev(b) == IF Below(b) = {} THEN NULL
                        ELSE CHOOSE c \in Below(b) : \A d \in Below(b) : d <= c
  <1>1. coalesce_free_blocks(h, end) =
          [b \in Kept |-> [size |-> Size(b), free |-> h[b].free,
                           next |-> Follow(b), prev |-> Prev(b)]]
    BY DEF coalesce_free_blocks
  <1>2. Kept = DOMAIN h
    <2> SUFFICES ASSUME NEW b \in DOMAIN h, h[b].free, h[b].prev # NULL, h[h[b].prev].free
                 PROVE  FALSE
      OBVIOUS
    <2>1. h[b].prev \in DOMAIN h /\ h[h[b].prev].next = b
      BY DEF Tiled
    <2>2. b # NULL
      BY TiledFacts
    <2>3. QED BY <2>1, <2>2 DEF Merged
  <1>3. ASSUME NEW b \in DOMAIN h
        PROVE  Follow(b) = h[b].next /\ Size(b) = h[b].size
    <2>1. Above(b) = {c \in DOMAIN h : c > b}
      BY <1>2
    <2> HIDE DEF Kept, Above
    <2>2. CASE h[b].next = NULL
      <3>1. EndIn(h, b) = end
        BY <2>2, TiledFacts DEF Tiled
      <3>2. Above(b) = {}
        <4> SUFFICES ASSUME NEW c \in DOMAIN h, c > b PROVE FALSE
          BY <2>1
        <4>1. end <= c
          BY <3>1, TiledFacts DEF Tiled
        <4>2. QED BY <4>1, TiledFacts
      <3>3. Follow(b) = NULL
        BY <3>2
      <3>4. end - b - HEADER = h[b].size
        BY <3>1, TiledFacts
      <3>5. QED BY <2>2, <3>3, <3>4
    <2>3. CASE h[b].next # NULL
      <3>1. h[b].next = EndIn(h, b) /\ h[b].next \in DOMAIN h /\ h[b].next \in Nat
        BY <2>3, TiledFacts DEF Tiled
      <3>2. h[b].next \in Above(b) /\ Above(b) \subseteq Nat
        BY <2>1, <3>1, TiledFacts
      <3>3. \A c \in Above(b) : h[b].next <= c
        BY <2>1, <3>1, TiledFacts DEF Tiled
      <3>4. Lowest(Above(b)) = h[b].next
        <4>1. Lowest(Above(b)) \in Above(b) /\ \A y \in Above(b) : Lowest(Above(b)) <= y
          BY <3>2, LowestFacts
        <4>2. QED BY <3>1, <3>2, <3>3, <4>1
      <3>5. Follow(b) = h[b].next
        BY <3>2, <3>4
      <3>6. h[b].next - b - HEADER = h[b].size
        BY <3>1, TiledFacts
      <3>7. QED BY <2>3, <3>5, <3>6
    <2>4. QED BY <2>2, <2>3
  <1>4. ASSUME NEW b \in DOMAIN h
        PROVE  Prev(b) = h[b].prev
    <2>1. Below(b) = {c \in DOMAIN h : c < b}
      BY <1>2
    <2> HIDE DEF Kept, Below
    <2>2. CASE h[b].prev = NULL
      <3>1. Below(b) = {}
        BY <2>1, <2>2, TiledFacts DEF Tiled
      <3>2. QED BY <2>2, <3>1
    <2>3. CASE h[b].prev # NULL
      <3> DEFINE p == h[b].prev
      <3>1. p \in DOMAIN h /\ b = EndIn(h, p) /\ p \in Nat /\ b \in Nat /\ p < b
        BY <2>3, TiledFacts DEF Tiled
      <3>2. p \in Below(b)
        BY <2>1, <3>1
      <3>3. \A d \in Below(b) : d <= p
        <4> TAKE d \in Below(b)
        <4>1. d \in DOMAIN h /\ d \in Nat /\ d < b
          BY <2>1, TiledFacts
        <4>2. ~(p < d)
          BY <3>1, <4>1 DEF Tiled
        <4>3. QED BY <3>1, <4>1, <4>2
      <3>4. \A c \in Below(b) : c \in Nat
        BY <2>1, TiledFacts
      <3> HIDE DEF p
      <3>5. (CHOOSE c \in Below(b) : \A d \in Below(b) : d <= c) = p
        <4>1. \A c \in Below(b) : (\A d \in Below(b) : d <= c) => c = p
          BY <3>1, <3>2, <3>3, <3>4
        <4>2. QED BY <3>2, <3>3, <4>1
      <3>6. QED BY <3>2, <3>5 DEF p
    <2>4. QED BY <2>2, <2>3
  <1> HIDE DEF Follow, Size, Prev, Kept
  <1>5. \A b \in DOMAIN h : [size |-> Size(b), free |-> h[b].free,
                             next |-> Follow(b), prev |-> Prev(b)] = h[b]
    <2> TAKE b \in DOMAIN h
    <2>1. h[b] \in Block
      BY DEF Tiled
    <2>2. h[b] = [size |-> h[b].size, free |-> h[b].free,
                  next |-> h[b].next, prev |-> h[b].prev]
      BY <2>1 DEF Block
    <2>3. QED BY <1>3, <1>4, <2>2
  <1>6. coalesce_free_blocks(h, end) = [b \in DOMAIN h |-> h[b]]
    BY <1>1, <1>2, <1>5
  <1>7. QED BY <1>6 DEF Tiled

-----------------------------------------------------------------------------
(* Changing the list.                                                      *)

(* Marking a block free or used leaves the list as it is.                  *)
LEMMA MarkFacts ==
    ASSUME NEW h, NEW end, Tiled(h, end), NEW b \in DOMAIN h, NEW v \in BOOLEAN,
           NEW g, g = Mark(h, b, v)
    PROVE  Tiled(g, end) /\ Same(h, g, b) /\ g[b].free = v
  <1>1. DOMAIN g = DOMAIN h /\ g = [x \in DOMAIN g |-> g[x]]
    BY DEF Mark
  <1>2. ASSUME NEW x \in DOMAIN h
        PROVE  /\ g[x] \in Block
               /\ x = b => g[x].free = v
               /\ x # b => g[x].free = h[x].free
               /\ g[x].size = h[x].size /\ g[x].next = h[x].next /\ g[x].prev = h[x].prev
    <2>1. h[x] \in Block
      BY DEF Tiled
    <2>2. CASE x = b
      <3>1. g[x] = [h[x] EXCEPT !.free = v]
        BY <2>2 DEF Mark
      <3>2. QED BY <2>1, <2>2, <3>1 DEF Block
    <2>3. CASE x # b
      <3>1. g[x] = h[x]
        BY <2>3 DEF Mark
      <3>2. QED BY <2>1, <2>3, <3>1
    <2>4. QED BY <2>2, <2>3
  <1>3. \A x \in DOMAIN h : EndIn(g, x) = EndIn(h, x)
    BY <1>2 DEF EndIn
  <1>4. Tiled(g, end)
    <2>1. \A x \in DOMAIN g : x \in Nat /\ g[x] \in Block /\ EndIn(g, x) <= end
      BY <1>1, <1>2, <1>3 DEF Tiled
    <2>2. \A x, y \in DOMAIN g : x < y => EndIn(g, x) <= y
      BY <1>1, <1>3 DEF Tiled
    <2>3. \A x \in DOMAIN g :
             /\ g[x].next = IF EndIn(g, x) = end THEN NULL ELSE EndIn(g, x)
             /\ g[x].next # NULL => g[x].next \in DOMAIN g /\ g[g[x].next].prev = x
             /\ g[x].prev = NULL <=> x = 0
             /\ g[x].prev # NULL => g[x].prev \in DOMAIN g /\ g[g[x].prev].next = x
      <3> TAKE x \in DOMAIN g
      <3>1. g[x].next = h[x].next /\ g[x].prev = h[x].prev /\ EndIn(g, x) = EndIn(h, x)
        BY <1>1, <1>2, <1>3
      <3>2. /\ h[x].next = IF EndIn(h, x) = end THEN NULL ELSE EndIn(h, x)
            /\ h[x].prev = NULL <=> x = 0
        BY <1>1 DEF Tiled
      <3>3. h[x].next # NULL => h[x].next \in DOMAIN h /\ g[h[x].next].prev = x
        BY <1>1, <1>2 DEF Tiled
      <3>4. h[x].prev # NULL => h[x].prev \in DOMAIN h /\ g[h[x].prev].next = x
        BY <1>1, <1>2 DEF Tiled
      <3>5. QED BY <1>1, <3>1, <3>2, <3>3, <3>4
    <2>4. QED BY <1>1, <2>1, <2>2, <2>3 DEF Tiled
  <1>5. QED BY <1>1, <1>2, <1>4 DEF Same

(* A block that is marked used.                                            *)
LEMMA MarkUsed ==
    ASSUME NEW h, NEW end, Tiled(h, end), NEW b \in DOMAIN h
    PROVE  /\ Tiled(Mark(h, b, FALSE), end) /\ Same(h, Mark(h, b, FALSE), b)
           /\ ~Mark(h, b, FALSE)[b].free
  <1>1. PICK v : v = FALSE
    OBVIOUS
  <1>2. v \in BOOLEAN
    BY <1>1
  <1>3. PICK g : g = Mark(h, b, v)
    OBVIOUS
  <1>4. Tiled(g, end) /\ Same(h, g, b) /\ g[b].free = v
    BY <1>2, <1>3, MarkFacts
  <1>5. QED BY <1>1, <1>3, <1>4, Zenon

(* A block that is marked free.                                            *)
LEMMA MarkFree ==
    ASSUME NEW h, NEW end, Tiled(h, end), NEW b \in DOMAIN h
    PROVE  /\ Tiled(Mark(h, b, TRUE), end) /\ Same(h, Mark(h, b, TRUE), b)
           /\ Mark(h, b, TRUE)[b].free
  <1>1. PICK v : v = TRUE
    OBVIOUS
  <1>2. v \in BOOLEAN
    BY <1>1
  <1>3. PICK g : g = Mark(h, b, v)
    OBVIOUS
  <1>4. Tiled(g, end) /\ Same(h, g, b) /\ g[b].free = v
    BY <1>2, <1>3, MarkFacts
  <1>5. QED BY <1>1, <1>3, <1>4, Zenon

(* A block that absorbs its successor reaches to where that one ended.     *)
LEMMA AbsorbFacts ==
    ASSUME NEW h, NEW end, Tiled(h, end), NEW a \in DOMAIN h, NEW b \in DOMAIN h,
           h[a].next = b, NEW g, g = Absorb(h, a, b)
    PROVE  Tiled(g, end) /\ Joined(h, g, a, b)
  <1> DEFINE n == h[b].next
  <1>1. /\ b = EndIn(h, a) /\ a \in Nat /\ b \in Nat /\ a < b /\ h[b].prev = a
        /\ HEADER \in Nat \ {0} /\ h[a].size \in Nat /\ h[b].size \in Nat /\ NULL \notin Nat
    <2>1. b # NULL
      BY TiledFacts
    <2>2. QED BY <2>1, TiledFacts DEF Tiled
  <1>2. n # NULL => n \in DOMAIN h /\ n \in Nat /\ b < n /\ n = EndIn(h, b) /\ h[n].prev = b
    BY TiledFacts DEF Tiled
  <1>3. n # a /\ n # b
    BY <1>1, <1>2
  <1>4. /\ DOMAIN g = DOMAIN h \ {b} /\ g = [x \in DOMAIN g |-> g[x]]
        /\ a \in DOMAIN g /\ n # NULL => n \in DOMAIN g
    BY <1>1, <1>2, <1>3 DEF Absorb
  <1>5. ASSUME NEW x \in DOMAIN g
        PROVE  /\ g[x] \in Block /\ x \in DOMAIN h /\ x # b
               /\ g[x].free = h[x].free
               /\ g[x].size = IF x = a THEN h[a].size + HEADER + h[b].size ELSE h[x].size
               /\ g[x].next = IF x = a THEN n ELSE h[x].next
               /\ g[x].prev = IF x = n THEN a ELSE h[x].prev
    <2>1. h[x] \in Block /\ h[b] \in Block /\ x \in DOMAIN h /\ x # b /\ x \in Nat
      BY <1>4 DEF Tiled
    <2>2. CASE x = a
      <3>1. g[x] = [h[a] EXCEPT !.size = h[a].size + HEADER + h[b].size, !.next = h[b].next]
        BY <1>4, <2>2 DEF Absorb
      <3>2. /\ h[a].size + HEADER + h[b].size \in Nat
            /\ h[b].next \in Nat \cup {NULL} /\ h[a] \in Block
        BY <1>1, <2>1, <2>2 DEF Block
      <3>3. /\ g[x] \in Block /\ g[x].free = h[a].free
            /\ g[x].size = h[a].size + HEADER + h[b].size
            /\ g[x].next = h[b].next /\ g[x].prev = h[a].prev
        BY <3>1, <3>2 DEF Block
      <3>4. QED BY <1>3, <2>1, <2>2, <3>3
    <2>3. CASE x # a /\ x = n
      <3>1. g[x] = [h[x] EXCEPT !.prev = a]
        BY <1>4, <2>3 DEF Absorb
      <3>2. QED BY <1>1, <2>1, <2>3, <3>1 DEF Block
    <2>4. CASE x # a /\ x # n
      <3>1. g[x] = h[x]
        BY <1>4, <2>4 DEF Absorb
      <3>2. QED BY <2>1, <2>4, <3>1
    <2>5. QED BY <2>2, <2>3, <2>4
  <1>6. \A x \in DOMAIN g : EndIn(g, x) = IF x = a THEN EndIn(h, b) ELSE EndIn(h, x)
    <2> TAKE x \in DOMAIN g
    <2>1. CASE x = a
      <3>1. /\ g[a].size = h[a].size + HEADER + h[b].size
            /\ b = a + HEADER + h[a].size
        BY <1>1, <1>5, <2>1 DEF EndIn
      <3>2. a + HEADER + (h[a].size + HEADER + h[b].size) = b + HEADER + h[b].size
        BY <1>1, <3>1
      <3>3. QED BY <2>1, <3>1, <3>2 DEF EndIn
    <2>2. CASE x # a
      BY <1>5, <2>2 DEF EndIn
    <2>3. QED BY <2>1, <2>2
  <1> HIDE DEF n
  <1>7. \A x \in DOMAIN g : x \in Nat /\ EndIn(g, x) <= end
    BY <1>5, <1>6, TiledFacts
  <1>8. DOMAIN g # {} => 0 \in DOMAIN g
    BY <1>1, <1>4, TiledFacts DEF Tiled
  <1>9. ASSUME NEW x \in DOMAIN g, NEW y \in DOMAIN g, x < y
        PROVE  EndIn(g, x) <= y
    <2>1. CASE x = a
      <3>1. EndIn(h, a) <= y /\ y \in Nat /\ y # b
        BY <1>5, <2>1, <1>9, TiledFacts DEF Tiled
      <3>2. b < y
        BY <1>1, <3>1
      <3>3. QED BY <1>5, <1>6, <2>1, <3>2 DEF Tiled
    <2>2. CASE x # a
      BY <1>5, <1>6, <1>9, <2>2 DEF Tiled
    <2>3. QED BY <2>1, <2>2
  <1>10. ASSUME NEW x \in DOMAIN g
         PROVE  /\ g[x].next = IF EndIn(g, x) = end THEN NULL ELSE EndIn(g, x)
                /\ g[x].next # NULL => g[x].next \in DOMAIN g /\ g[g[x].next].prev = x
    <2>1. CASE x = a
      <3>1. g[x].next = n /\ EndIn(g, x) = EndIn(h, b)
        BY <1>5, <1>6, <2>1
      <3>2. n = IF EndIn(h, b) = end THEN NULL ELSE EndIn(h, b)
        BY DEF Tiled, n
      <3>3. n # NULL => n \in DOMAIN g /\ g[n].prev = a
        BY <1>2, <1>3, <1>4, <1>5
      <3>4. QED BY <2>1, <3>1, <3>2, <3>3
    <2>2. CASE x # a
      <3>1. /\ g[x].next = h[x].next /\ EndIn(g, x) = EndIn(h, x) /\ x \in DOMAIN h /\ x # b
        BY <1>5, <1>6, <2>2
      <3>2. ASSUME h[x].next # NULL
            PROVE  h[x].next \in DOMAIN g /\ g[h[x].next].prev = x
        <4>1. h[x].next \in DOMAIN h /\ h[h[x].next].prev = x
          BY <3>1, <3>2 DEF Tiled
        <4>2. h[x].next # b
          BY <4>1, <1>1, <2>2
        <4>3. h[x].next # n
          BY <1>2, <3>1, <3>2, <4>1
        <4>4. QED BY <1>4, <1>5, <4>1, <4>2, <4>3
      <3>3. QED BY <3>1, <3>2 DEF Tiled
    <2>3. QED BY <2>1, <2>2
  <1>11. ASSUME NEW x \in DOMAIN g
         PROVE  /\ g[x].prev = NULL <=> x = 0
                /\ g[x].prev # NULL => g[x].prev \in DOMAIN g /\ g[g[x].prev].next = x
    <2>1. CASE x = n
      <3>1. g[x].prev = a /\ g[a].next = n /\ a \in DOMAIN g /\ a # NULL /\ x # 0
        BY <1>1, <1>2, <1>4, <1>5, <2>1, TiledFacts
      <3>2. QED BY <2>1, <3>1
    <2>2. CASE x # n
      <3>1. g[x].prev = h[x].prev /\ x \in DOMAIN h
        BY <1>5, <2>2
      <3>2. ASSUME h[x].prev # NULL
            PROVE  h[x].prev \in DOMAIN g /\ g[h[x].prev].next = x
        <4>1. h[x].prev \in DOMAIN h /\ h[h[x].prev].next = x
          BY <3>1, <3>2 DEF Tiled
        <4>2. h[x].prev # b
          BY <4>1, <2>2 DEF n
        <4>3. h[x].prev # a
          BY <4>1, <1>5
        <4>4. QED BY <1>4, <1>5, <4>1, <4>2, <4>3
      <3>3. QED BY <3>1, <3>2 DEF Tiled
    <2>3. QED BY <2>1, <2>2
  <1>12. Tiled(g, end)
    BY <1>4, <1>5, <1>7, <1>8, <1>9, <1>10, <1>11, TiledFacts DEF Tiled
  <1>13. QED BY <1>2, <1>3, <1>4, <1>5, <1>12 DEF n, Joined

(* A block that is split ends where its new successor starts, and that one *)
(* ends where the block did.                                               *)
LEMMA SplitFacts ==
    ASSUME NEW h, NEW end, Tiled(h, end), NEW b \in DOMAIN h, NEW size \in Nat,
           ~TooSmall(h, b, size), NEW g, g = split_block(h, b, size),
           NEW new, new = b + HEADER + size
    PROVE  /\ Tiled(g, end) /\ DOMAIN g = DOMAIN h \cup {new} /\ new \notin DOMAIN h
           /\ \A x \in DOMAIN h :
                /\ g[x].free = h[x].free
                /\ x # b => g[x].size = h[x].size /\ g[x].next = h[x].next
           /\ g[b].size = size /\ g[b].next = new
           /\ g[new].free /\ g[new].next = h[b].next
  <1> DEFINE n == h[b].next
             rest == [size |-> h[b].size - size - HEADER, free |-> TRUE,
                      next |-> h[b].next, prev |-> b]
  <1>1. /\ b \in Nat /\ new \in Nat /\ HEADER \in Nat \ {0} /\ h[b].size \in Nat /\ NULL \notin Nat
        /\ b < new /\ new < EndIn(h, b) /\ h[b].size - size - HEADER \in Nat
        /\ EndIn(h, b) = b + HEADER + h[b].size
        /\ new + HEADER + (h[b].size - size - HEADER) = EndIn(h, b)
        /\ EndIn(h, b) \in Nat /\ end \in Nat /\ EndIn(h, b) <= end
    BY TiledFacts DEF TooSmall
  <1>2. n # NULL => n \in DOMAIN h /\ n \in Nat /\ b < n /\ n = EndIn(h, b) /\ h[n].prev = b
    BY TiledFacts DEF Tiled
  <1>3. n # b /\ n # new /\ new # NULL /\ b # NULL
    BY <1>1, <1>2
  <1>4. new \notin DOMAIN h
    BY <1>1 DEF Tiled
  <1>5. /\ DOMAIN g = DOMAIN h \cup {new} /\ g = [x \in DOMAIN g |-> g[x]]
        /\ g[new] = rest
        /\ g[b] = [h[b] EXCEPT !.size = size, !.next = new]
        /\ \A x \in DOMAIN h : x # b => g[x] = IF x = n THEN [h[x] EXCEPT !.prev = new] ELSE h[x]
    <2>1. g = [x \in DOMAIN h \cup {new} |->
                IF x = new THEN rest
                ELSE IF x = b THEN [h[b] EXCEPT !.size = size, !.next = new]
                ELSE IF x = h[b].next THEN [h[x] EXCEPT !.prev = new]
                ELSE h[x]]
      BY DEF split_block, NewPrev
    <2> HIDE DEF rest
    <2>2. QED BY <1>1, <1>4, <2>1
  <1>6. ASSUME NEW x \in DOMAIN h
        PROVE  /\ g[x] \in Block
               /\ g[x].free = h[x].free
               /\ g[x].size = IF x = b THEN size ELSE h[x].size
               /\ g[x].next = IF x = b THEN new ELSE h[x].next
               /\ g[x].prev = IF x = n THEN new ELSE h[x].prev
    <2>1. h[x] \in Block
      BY DEF Tiled
    <2>2. CASE x = b
      <3>1. /\ g[x] \in Block /\ g[x].free = h[b].free /\ g[x].size = size
            /\ g[x].next = new /\ g[x].prev = h[b].prev
        BY <1>1, <1>5, <2>1, <2>2 DEF Block
      <3>2. QED BY <1>3, <2>2, <3>1
    <2>3. CASE x # b /\ x = n
      <3>1. g[x] = [h[x] EXCEPT !.prev = new]
        BY <1>5, <2>3
      <3>2. QED BY <1>1, <2>1, <2>3, <3>1 DEF Block
    <2>4. CASE x # b /\ x # n
      <3>1. g[x] = h[x]
        BY <1>5, <2>4
      <3>2. QED BY <2>1, <2>4, <3>1
    <2>5. QED BY <2>2, <2>3, <2>4
  <1>7. /\ g[new] \in Block /\ g[new].free = TRUE /\ g[new].size = h[b].size - size - HEADER
        /\ g[new].next = n /\ g[new].prev = b
    BY <1>1, <1>5, TiledFacts DEF Block
  <1>8. /\ EndIn(g, new) = EndIn(h, b) /\ EndIn(g, b) = new
        /\ \A x \in DOMAIN h : x # b => EndIn(g, x) = EndIn(h, x)
    BY <1>1, <1>6, <1>7 DEF EndIn
  <1> HIDE DEF n, rest
  <1>9. \A x \in DOMAIN g : x \in Nat /\ g[x] \in Block /\ EndIn(g, x) <= end
    <2> TAKE x \in DOMAIN g
    <2>1. CASE x = new
      BY <1>1, <1>7, <1>8, <2>1
    <2>2. CASE x = b
      BY <1>1, <1>6, <1>8, <2>2
    <2>3. CASE x \in DOMAIN h /\ x # b
      BY <1>6, <1>8, <2>3, TiledFacts
    <2>4. QED BY <1>5, <2>1, <2>2, <2>3
  <1>10. ASSUME NEW x \in DOMAIN g, NEW y \in DOMAIN g, x < y
         PROVE  EndIn(g, x) <= y
    <2>1. CASE x = new
      <3>1. y \in DOMAIN h /\ y \in Nat
        BY <1>1, <1>5, <1>9, <1>10, <2>1
      <3>2. b < y
        BY <1>1, <1>10, <2>1, <3>1
      <3>3. QED BY <1>8, <2>1, <3>1, <3>2 DEF Tiled
    <2>2. CASE x = b
      <3>1. CASE y = new
        BY <1>1, <1>8, <2>2, <3>1
      <3>2. CASE y \in DOMAIN h
        <4>1. EndIn(h, b) <= y /\ y \in Nat
          BY <1>9, <1>10, <2>2, <3>2 DEF Tiled
        <4>2. QED BY <1>1, <1>8, <2>2, <4>1
      <3>3. QED BY <1>5, <3>1, <3>2
    <2>3. CASE x \in DOMAIN h /\ x # b
      <3>1. CASE y = new
        <4>1. x \in Nat /\ ~(b < x)
          BY <1>1, <1>9, <1>10, <2>3, <3>1 DEF Tiled
        <4>2. x < b
          BY <1>1, <2>3, <4>1
        <4>3. EndIn(h, x) <= b /\ EndIn(h, x) \in Nat
          BY <2>3, <4>2, TiledFacts DEF Tiled
        <4>4. QED BY <1>1, <1>8, <2>3, <3>1, <4>3
      <3>2. CASE y \in DOMAIN h
        BY <1>8, <1>10, <2>3, <3>2 DEF Tiled
      <3>3. QED BY <1>5, <3>1, <3>2
    <2>4. QED BY <1>5, <2>1, <2>2, <2>3
  <1>11. ASSUME NEW x \in DOMAIN g
         PROVE  /\ g[x].next = IF EndIn(g, x) = end THEN NULL ELSE EndIn(g, x)
                /\ g[x].next # NULL => g[x].next \in DOMAIN g /\ g[g[x].next].prev = x
    <2>1. CASE x = new
      <3>1. n = IF EndIn(h, b) = end THEN NULL ELSE EndIn(h, b)
        BY DEF Tiled, n
      <3>2. n # NULL => n \in DOMAIN g /\ g[n].prev = new
        BY <1>2, <1>5, <1>6
      <3>3. QED BY <1>7, <1>8, <2>1, <3>1, <3>2
    <2>2. CASE x = b
      <3>a. g[b].next = new
        BY <1>6
      <3>b. EndIn(g, b) = new /\ new \in DOMAIN g /\ g[new].prev = b
        BY <1>5, <1>7, <1>8
      <3>1. g[x].next = new /\ EndIn(g, x) = new /\ new \in DOMAIN g /\ g[new].prev = b
        BY <2>2, <3>a, <3>b
      <3>2. new < end
        BY <1>1
      <3>3. new # end
        BY <1>1, <3>2
      <3>4. QED BY <2>2, <3>1, <3>3
    <2>3. CASE x \in DOMAIN h /\ x # b
      <3>1. g[x].next = h[x].next /\ EndIn(g, x) = EndIn(h, x)
        BY <1>6, <1>8, <2>3
      <3>2. ASSUME h[x].next # NULL
            PROVE  h[x].next \in DOMAIN g /\ g[h[x].next].prev = x
        <4>1. h[x].next \in DOMAIN h /\ h[h[x].next].prev = x
          BY <2>3, <3>2 DEF Tiled
        <4>2. h[x].next # n
          BY <1>2, <2>3, <3>2, <4>1
        <4>3. QED BY <1>5, <1>6, <4>1, <4>2
      <3>3. QED BY <2>3, <3>1, <3>2 DEF Tiled
    <2>4. QED BY <1>5, <2>1, <2>2, <2>3
  <1>12. ASSUME NEW x \in DOMAIN g
         PROVE  /\ g[x].prev = NULL <=> x = 0
                /\ g[x].prev # NULL => g[x].prev \in DOMAIN g /\ g[g[x].prev].next = x
    <2>1. CASE x = new
      BY <1>1, <1>3, <1>5, <1>6, <1>7, <2>1
    <2>2. CASE x \in DOMAIN h /\ x = n
      <3>1. g[x].prev = new /\ g[new].next = n /\ x # 0
        BY <1>1, <1>2, <1>3, <1>6, <1>7, <2>2, TiledFacts
      <3>2. QED BY <1>3, <1>5, <2>2, <3>1
    <2>3. CASE x \in DOMAIN h /\ x # n
      <3>1. g[x].prev = h[x].prev
        BY <1>6, <2>3
      <3>2. ASSUME h[x].prev # NULL
            PROVE  h[x].prev \in DOMAIN g /\ g[h[x].prev].next = x
        <4>1. h[x].prev \in DOMAIN h /\ h[h[x].prev].next = x
          BY <2>3, <3>2 DEF Tiled
        <4>2. h[x].prev # b
          BY <4>1, <2>3 DEF n
        <4>3. QED BY <1>5, <1>6, <4>1, <4>2
      <3>3. QED BY <2>3, <3>1, <3>2 DEF Tiled
    <2>4. QED BY <1>5, <2>1, <2>2, <2>3
  <1>13. 0 \in DOMAIN g
    BY <1>5 DEF Tiled
  <1>14. Tiled(g, end)
    BY <1>1, <1>5, <1>9, <1>10, <1>11, <1>12, <1>13 DEF Tiled
  <1>15. QED BY <1>4, <1>5, <1>6, <1>7, <1>14 DEF n

(* A new page at the end is a free block behind the last one.              *)
LEMMA AppendedFacts ==
    ASSUME NEW h, NEW end, Tiled(h, end), DOMAIN h # {},
           NEW g, g = Appended(h, end), NEW last, last = find_last_block(h)
    PROVE  Tiled(g, end + PAGE_SIZE) /\ Extended(h, g, last, end)
  <1> DEFINE new == [size |-> PAGE_SIZE - HEADER, free |-> TRUE, next |-> NULL, prev |-> last]
  <1>1. /\ last \in DOMAIN h /\ h[last].next = NULL /\ EndIn(h, last) = end
        /\ \A b \in DOMAIN h : b # last => h[b].next # NULL /\ b < last
    BY LastFacts
  <1>2. /\ PAGE_SIZE \in Nat /\ HEADER \in Nat \ {0} /\ PAGE_SIZE > HEADER
        /\ end \in Nat /\ NULL \notin Nat /\ PAGE_SIZE - HEADER \in Nat
        /\ \A b \in DOMAIN h : b \in Nat /\ EndIn(h, b) \in Nat /\ EndIn(h, b) <= end /\ b < end
    BY HeapAssumption, TiledFacts
  <1>3. end \notin DOMAIN h
    BY <1>2
  <1>4. /\ DOMAIN g = DOMAIN h \cup {end} /\ g = [x \in DOMAIN g |-> g[x]]
        /\ g[end] = new
        /\ \A x \in DOMAIN h : g[x] = IF x = last THEN [h[x] EXCEPT !.next = end] ELSE h[x]
    <2>1. g = [y \in DOMAIN [h EXCEPT ![last].next = end] \cup {end} |->
                  IF y = end THEN new ELSE [h EXCEPT ![last].next = end][y]]
      BY DEF Appended, With
    <2> HIDE DEF new
    <2>2. DOMAIN [h EXCEPT ![last].next = end] = DOMAIN h
      OBVIOUS
    <2>3. \A x \in DOMAIN h : [h EXCEPT ![last].next = end][x]
                                = IF x = last THEN [h[x] EXCEPT !.next = end] ELSE h[x]
      OBVIOUS
    <2>4. QED BY <1>3, <2>1, <2>2, <2>3
  <1>5. ASSUME NEW x \in DOMAIN h
        PROVE  /\ g[x] \in Block
               /\ g[x].free = h[x].free /\ g[x].size = h[x].size /\ g[x].prev = h[x].prev
               /\ g[x].next = IF x = last THEN end ELSE h[x].next
    <2>1. h[x] \in Block
      BY DEF Tiled
    <2>2. CASE x = last
      <3>1. g[x] = [h[x] EXCEPT !.next = end]
        BY <1>4, <2>2
      <3>2. QED BY <1>2, <2>1, <2>2, <3>1 DEF Block
    <2>3. CASE x # last
      <3>1. g[x] = h[x]
        BY <1>4, <2>3
      <3>2. QED BY <2>1, <2>3, <3>1
    <2>4. QED BY <2>2, <2>3
  <1>6. /\ g[end] \in Block /\ g[end].free = TRUE /\ g[end].size = PAGE_SIZE - HEADER
        /\ g[end].next = NULL /\ g[end].prev = last
    BY <1>1, <1>2, <1>4 DEF Block
  <1>7. /\ \A x \in DOMAIN h : EndIn(g, x) = EndIn(h, x)
        /\ EndIn(g, end) = end + PAGE_SIZE
    BY <1>2, <1>5, <1>6 DEF EndIn
  <1> HIDE DEF new
  <1>8. \A x \in DOMAIN g : x \in Nat /\ g[x] \in Block /\ EndIn(g, x) <= end + PAGE_SIZE
    BY <1>2, <1>4, <1>5, <1>6, <1>7
  <1>9. ASSUME NEW x \in DOMAIN g, NEW y \in DOMAIN g, x < y
        PROVE  EndIn(g, x) <= y
    <2>1. x # end
      BY <1>2, <1>4, <1>9
    <2>2. x \in DOMAIN h
      BY <1>4, <2>1
    <2>3. CASE y = end
      BY <1>2, <1>7, <2>2, <2>3
    <2>4. CASE y \in DOMAIN h
      BY <1>7, <1>9, <2>2, <2>4 DEF Tiled
    <2>5. QED BY <1>4, <2>3, <2>4
  <1>10. ASSUME NEW x \in DOMAIN g
         PROVE  /\ g[x].next = IF EndIn(g, x) = end + PAGE_SIZE THEN NULL ELSE EndIn(g, x)
                /\ g[x].next # NULL => g[x].next \in DOMAIN g /\ g[g[x].next].prev = x
    <2>1. CASE x = end
      BY <1>6, <1>7, <2>1
    <2>2. CASE x = last
      <3>1. end # end + PAGE_SIZE
        BY <1>2
      <3>2. QED BY <1>1, <1>4, <1>5, <1>6, <1>7, <2>2, <3>1
    <2>3. CASE x \in DOMAIN h /\ x # last
      <3>1. /\ h[x].next # NULL /\ h[x].next = EndIn(h, x)
            /\ h[x].next \in DOMAIN h /\ h[h[x].next].prev = x
        BY <1>1, <2>3 DEF Tiled
      <3>2. EndIn(h, x) # end + PAGE_SIZE
        BY <1>2, <2>3
      <3>3. g[x].next = h[x].next /\ EndIn(g, x) = EndIn(h, x)
        BY <1>5, <1>7, <2>3
      <3>4. g[h[x].next].prev = x
        BY <1>5, <3>1
      <3>5. QED BY <1>4, <3>1, <3>2, <3>3, <3>4
    <2>4. QED BY <1>1, <1>4, <2>1, <2>2, <2>3
  <1>11. ASSUME NEW x \in DOMAIN g
         PROVE  /\ g[x].prev = NULL <=> x = 0
                /\ g[x].prev # NULL => g[x].prev \in DOMAIN g /\ g[g[x].prev].next = x
    <2>1. CASE x = end
      <3>1. end # 0 /\ last # NULL
        BY <1>1, <1>2
      <3>2. QED BY <1>1, <1>4, <1>5, <1>6, <2>1, <3>1
    <2>2. CASE x \in DOMAIN h
      <3>1. g[x].prev = h[x].prev /\ (h[x].prev = NULL <=> x = 0)
        BY <1>5, <2>2 DEF Tiled
      <3>2. ASSUME h[x].prev # NULL
            PROVE  h[x].prev \in DOMAIN g /\ g[h[x].prev].next = x
        <4>1. h[x].prev \in DOMAIN h /\ h[h[x].prev].next = x /\ x # NULL
          BY <1>2, <2>2, <3>2 DEF Tiled
        <4>2. h[x].prev # last
          BY <1>1, <4>1
        <4>3. QED BY <1>4, <1>5, <4>1, <4>2
      <3>3. QED BY <3>1, <3>2
    <2>3. QED BY <1>4, <2>1, <2>2
  <1>12. 0 \in DOMAIN g /\ end + PAGE_SIZE \in Nat
    BY <1>2, <1>4 DEF Tiled
  <1>13. Tiled(g, end + PAGE_SIZE)
    BY <1>4, <1>8, <1>9, <1>10, <1>11, <1>12 DEF Tiled
  <1>14. QED BY <1>1, <1>3, <1>4, <1>5, <1>6, <1>13 DEF Extended

-----------------------------------------------------------------------------
(* The calls.                                                              *)

(* A block that kmalloc takes, split or not: the list stays tiled and      *)
(* without free neighbours, and the block is the only new one in use.      *)
LEMMA TakenFacts ==
    ASSUME NEW h, NEW end, Tiled(h, end), Merged(h), NEW b \in DOMAIN h, NEW size \in Nat,
           h[b].free, h[b].size >= size,
           NEW g, g = Taken(h, b, size)
    PROVE  /\ Tiled(g, end) /\ Merged(g)
           /\ Used(g) = Used(h) \cup {b}
           /\ \A x \in Used(h) : g[x].size = h[x].size
           /\ g[b].size >= size
  <1>s. PICK s : s = split_block(h, b, size)
    OBVIOUS
  <1>n. PICK new : new = b + HEADER + size
    OBVIOUS
  <1>0. /\ b \in Nat /\ NULL \notin Nat /\ HEADER \in Nat
        /\ h[b].next # NULL => h[b].next \in DOMAIN h /\ ~h[h[b].next].free /\ h[b].next # b
    BY TiledFacts DEF Tiled, Merged
  <1>1. CASE TooSmall(h, b, size)
    <2>1. s = h
      BY <1>1, <1>s DEF split_block
    <2>2. /\ Tiled(g, end) /\ DOMAIN g = DOMAIN h
          /\ ~g[b].free
          /\ \A x \in DOMAIN h :
                /\ x # b => g[x].free = h[x].free
                /\ g[x].size = h[x].size /\ g[x].next = h[x].next /\ g[x].prev = h[x].prev
      <3>1. g = Mark(h, b, FALSE)
        BY <1>s, <2>1 DEF Taken
      <3>2. Tiled(g, end) /\ Same(h, g, b) /\ ~g[b].free
        BY <3>1, MarkUsed, Zenon
      <3>3. QED BY <3>2 DEF Same
    <2>3. Merged(g)
      <3> SUFFICES ASSUME NEW x \in DOMAIN g, g[x].next # NULL, g[x].free, g[g[x].next].free
                   PROVE  FALSE
        BY DEF Merged
      <3>1. x # b /\ h[x].free /\ h[x].next = g[x].next /\ h[x].next \in DOMAIN h
        BY <2>2 DEF Tiled
      <3>2. h[h[x].next].free
        BY <2>2, <3>1
      <3>3. QED BY <2>2, <3>1, <3>2 DEF Merged
    <2>4. QED BY <2>2, <2>3 DEF Used
  <1>2. CASE ~TooSmall(h, b, size)
    <2>1. /\ Tiled(s, end) /\ DOMAIN s = DOMAIN h \cup {new} /\ new \notin DOMAIN h
          /\ \A x \in DOMAIN h :
                /\ s[x].free = h[x].free
                /\ x # b => s[x].size = h[x].size /\ s[x].next = h[x].next
          /\ s[b].size = size /\ s[b].next = new
          /\ s[new].free /\ s[new].next = h[b].next
      BY <1>2, <1>s, <1>n, SplitFacts
    <2>2. /\ Tiled(g, end) /\ DOMAIN g = DOMAIN s
          /\ ~g[b].free
          /\ \A x \in DOMAIN s :
                /\ x # b => g[x].free = s[x].free
                /\ g[x].size = s[x].size /\ g[x].next = s[x].next /\ g[x].prev = s[x].prev
      <3>1. g = Mark(s, b, FALSE) /\ b \in DOMAIN s
        BY <1>s, <2>1 DEF Taken
      <3>2. Tiled(g, end) /\ Same(s, g, b) /\ ~g[b].free
        <4>1. Tiled(s, end)
          BY <2>1
        <4>2. QED BY <3>1, <4>1, MarkUsed, Zenon
      <3>3. QED BY <3>2 DEF Same
    <2>3. Merged(g)
      <3> SUFFICES ASSUME NEW x \in DOMAIN g, g[x].next # NULL, g[x].free, g[g[x].next].free
                   PROVE  FALSE
        BY DEF Merged
      <3>1. CASE x = new
        <4>1. g[x].next = h[b].next
          BY <2>1, <2>2, <3>1
        <4>2. ~g[h[b].next].free
          BY <1>0, <2>1, <2>2, <4>1
        <4>3. QED BY <4>1, <4>2
      <3>2. CASE x # new
        <4>1. x \in DOMAIN h /\ x # b /\ h[x].free /\ g[x].next = h[x].next
          BY <2>1, <2>2, <3>2
        <4>2. h[x].next \in DOMAIN h /\ ~h[h[x].next].free
          BY <4>1 DEF Tiled, Merged
        <4>3. ~g[h[x].next].free
          <5>1. CASE h[x].next = b
            BY <2>2, <5>1
          <5>2. CASE h[x].next # b
            <6>1. s[h[x].next].free = h[h[x].next].free /\ h[x].next \in DOMAIN s
              BY <2>1, <4>2
            <6>2. g[h[x].next].free = s[h[x].next].free
              BY <2>2, <5>2, <6>1
            <6>3. QED BY <4>2, <6>1, <6>2
          <5>3. QED BY <5>1, <5>2
        <4>4. QED BY <4>1, <4>3
      <3>3. QED BY <3>1, <3>2
    <2>4. Used(g) = Used(h) \cup {b}
      <3>1. \A x \in DOMAIN h : x # b => g[x].free = h[x].free
        BY <2>1, <2>2
      <3>2. g[new].free
        BY <2>1, <2>2
      <3>3. DOMAIN g = DOMAIN h \cup {new} /\ ~g[b].free
        BY <2>1, <2>2
      <3>4. QED BY <2>1, <3>1, <3>2, <3>3 DEF Used
    <2>5. \A x \in Used(h) : g[x].size = h[x].size
      BY <2>1, <2>2 DEF Used
    <2>6. g[b].size >= size
      <3>1. g[b].size = size
        BY <2>1, <2>2
      <3>2. size >= size
        OBVIOUS
      <3>3. QED BY <3>1, <3>2, Zenon
    <2>7. QED BY <2>2, <2>3, <2>4, <2>5, <2>6
  <1>3. QED BY <1>1, <1>2

(* kfree: the block and its free neighbours become one, and no other block *)
(* in use changes.                                                         *)
LEMMA FreedFacts ==
    ASSUME NEW h, NEW end, Tiled(h, end), Merged(h), NEW b \in Used(h),
           NEW g, g = Freed(h, b)
    PROVE  /\ Tiled(g, end) /\ Merged(g) /\ DOMAIN g # {}
           /\ Used(g) = Used(h) \ {b}
           /\ \A x \in Used(g) : g[x].size = h[x].size
  <1>m. PICK m : m = Mark(h, b, TRUE)
    OBVIOUS
  <1> DEFINE k == merge_with_next(m, b)
  <1>0. b \in DOMAIN h /\ ~h[b].free /\ b \in Nat /\ NULL \notin Nat
    BY TiledFacts DEF Used
  <1>1. /\ Tiled(m, end) /\ DOMAIN m = DOMAIN h
        /\ m[b].free
        /\ \A x \in DOMAIN h :
              /\ x # b => m[x].free = h[x].free
              /\ m[x].size = h[x].size /\ m[x].next = h[x].next /\ m[x].prev = h[x].prev
    <2>1. Tiled(m, end) /\ Same(h, m, b) /\ m[b].free
      BY <1>0, <1>m, MarkFree, Zenon
    <2>2. QED BY <2>1 DEF Same
  <1>2. g = merge_with_previous(k, b)
    BY <1>m DEF Freed, Mark
  <1>3. MergedBut(m, b)
    <2> SUFFICES ASSUME NEW x \in DOMAIN m, m[x].next # NULL, x # b, m[x].next # b,
                        m[x].free, m[m[x].next].free
                 PROVE  FALSE
      BY DEF MergedBut
    <2>1. h[x].free /\ h[x].next = m[x].next /\ h[x].next \in DOMAIN h
      BY <1>1 DEF Tiled
    <2>2. h[h[x].next].free
      BY <1>1, <2>1
    <2>3. QED BY <1>1, <2>1, <2>2 DEF Merged
  <1>4. Used(m) = Used(h) \ {b}
    BY <1>1 DEF Used
  <1>5. /\ Tiled(k, end) /\ MergedBut(k, b) /\ b \in DOMAIN k /\ k[b].free
        /\ k[b].next # NULL => ~k[k[b].next].free
        /\ Used(k) = Used(m) /\ \A x \in Used(k) : k[x].size = m[x].size
    <2> DEFINE n == m[b].next
    <2>1. n # NULL => n \in DOMAIN m /\ n # b /\ m[n].prev = b
      BY <1>0, <1>1, TiledFacts DEF Tiled
    <2>2. CASE n = NULL \/ ~m[n].free
      <3>1. k = m
        BY <2>2 DEF merge_with_next
      <3>2. QED BY <1>0, <1>1, <1>3, <2>2, <3>1
    <2>3. CASE n # NULL /\ m[n].free
      <3>1. k = Absorb(m, b, n)
        BY <2>3 DEF merge_with_next
      <3>a. b \in DOMAIN m /\ n \in DOMAIN m /\ m[b].next = n /\ n # NULL
        BY <1>0, <1>1, <2>1, <2>3
      <3> HIDE DEF k, n
      <3>2. /\ Tiled(k, end) /\ DOMAIN k = DOMAIN m \ {n} /\ b \in DOMAIN k
            /\ \A x \in DOMAIN k :
                 /\ k[x].free = m[x].free
                 /\ x # b => k[x].size = m[x].size /\ k[x].next = m[x].next
            /\ k[b].next = m[n].next
        <4>1. Tiled(k, end) /\ Joined(m, k, b, n)
          BY <1>1, <3>a, <3>1, AbsorbFacts
        <4>2. QED BY <4>1 DEF Joined
      <3>3. k[b].next # NULL => ~k[k[b].next].free
        <4> SUFFICES ASSUME m[n].next # NULL PROVE ~k[m[n].next].free
          BY <3>2
        <4>1. m[n].next \in DOMAIN m /\ m[m[n].next].prev = n
          BY <1>1, <3>a DEF Tiled
        <4>2. m[n].next # b /\ m[n].next # n
          <5>1. m[n].next = EndIn(m, n) /\ n = EndIn(m, b)
            BY <1>1, <3>a DEF Tiled
          <5>2. b < EndIn(m, b) /\ n < EndIn(m, n) /\ b \in Nat /\ n \in Nat /\ EndIn(m, n) \in Nat
            BY <1>0, <1>1, <2>1, <2>3, TiledFacts
          <5>3. QED BY <5>1, <5>2
        <4>3. ~m[m[n].next].free
          BY <1>3, <2>1, <2>3, <4>2 DEF MergedBut
        <4>4. QED BY <3>2, <4>1, <4>2, <4>3
      <3>4. MergedBut(k, b)
        <4> SUFFICES ASSUME NEW x \in DOMAIN k, k[x].next # NULL, x # b, k[x].next # b,
                            k[x].free, k[k[x].next].free
                     PROVE  FALSE
          BY DEF MergedBut
        <4>1. m[x].free /\ m[x].next = k[x].next /\ k[x].next \in DOMAIN k
          BY <3>2 DEF Tiled
        <4>2. m[m[x].next].free
          BY <3>2, <4>1
        <4>3. QED BY <1>3, <3>2, <4>1, <4>2 DEF MergedBut
      <3>5. Used(k) = Used(m)
        BY <2>3, <3>2 DEF Used
      <3>6. \A x \in Used(k) : k[x].size = m[x].size
        BY <1>0, <1>1, <3>2 DEF Used
      <3>7. QED BY <1>0, <1>1, <3>2, <3>3, <3>4, <3>5, <3>6
    <2>4. QED BY <2>2, <2>3
  <1> HIDE DEF k
  <1>6. /\ Tiled(g, end) /\ Merged(g) /\ DOMAIN g # {}
        /\ Used(g) = Used(k) /\ \A x \in Used(g) : g[x].size = k[x].size
    <2> DEFINE p == k[b].prev
    <2>1. p # NULL => p \in DOMAIN k /\ p # b /\ k[p].next = b
      <3> SUFFICES ASSUME p # NULL PROVE p \in DOMAIN k /\ p # b /\ k[p].next = b
        OBVIOUS
      <3>1. p \in DOMAIN k /\ k[p].next = b
        BY <1>5 DEF Tiled
      <3>2. k[p].next = EndIn(k, p) /\ p < EndIn(k, p) /\ p \in Nat
        BY <1>0, <1>5, <3>1, TiledFacts DEF Tiled
      <3>3. QED BY <1>0, <3>1, <3>2
    <2>2. CASE p = NULL \/ ~k[p].free
      <3>1. g = k
        BY <1>2, <2>2 DEF merge_with_previous
      <3>2. Merged(k)
        <4> SUFFICES ASSUME NEW x \in DOMAIN k, k[x].next # NULL, k[x].free, k[k[x].next].free
                     PROVE  FALSE
          BY DEF Merged
        <4>1. x # b
          BY <1>5
        <4>2. k[x].next = b => p = x /\ x # NULL
          BY <1>5, TiledFacts DEF Tiled
        <4>3. QED BY <1>5, <2>2, <4>1, <4>2 DEF MergedBut
      <3>3. QED BY <1>5, <3>1, <3>2
    <2>3. CASE p # NULL /\ k[p].free
      <3>1. g = Absorb(k, p, b)
        BY <1>2, <2>3 DEF merge_with_previous
      <3>2. /\ Tiled(g, end) /\ DOMAIN g = DOMAIN k \ {b} /\ p \in DOMAIN g
            /\ \A x \in DOMAIN g :
                 /\ g[x].free = k[x].free
                 /\ x # p => g[x].size = k[x].size /\ g[x].next = k[x].next
            /\ g[p].next = k[b].next
            /\ k[b].next # NULL => k[b].next # p
        <4>1. Tiled(g, end) /\ Joined(k, g, p, b)
          BY <1>5, <2>1, <2>3, <3>1, AbsorbFacts
        <4>2. QED BY <4>1 DEF Joined
      <3> HIDE DEF p
      <3>3. Merged(g)
        <4> SUFFICES ASSUME NEW x \in DOMAIN g, g[x].next # NULL, g[x].free, g[g[x].next].free
                     PROVE  FALSE
          BY DEF Merged
        <4>0. g[x].next \in DOMAIN g
          BY <3>2 DEF Tiled
        <4>1. CASE x = p
          <5>1. g[x].next = k[b].next
            BY <3>2, <4>1
          <5>2. QED BY <1>5, <3>2, <4>0, <5>1
        <4>2. CASE x # p
          <5>1. /\ k[x].free /\ k[x].next = g[x].next /\ x # b /\ k[x].next # b
                /\ x \in DOMAIN k /\ k[k[x].next].free
            BY <3>2, <4>0, <4>2
          <5>2. QED BY <1>5, <5>1 DEF MergedBut
        <4>3. QED BY <4>1, <4>2
      <3>4. Used(g) = Used(k)
        BY <1>5, <3>2 DEF Used
      <3>5. \A x \in Used(g) : g[x].size = k[x].size
        BY <2>3, <3>2 DEF Used
      <3>6. QED BY <3>2, <3>3, <3>4, <3>5
    <2>4. QED BY <2>2, <2>3
  <1>7. \A x \in Used(m) : m[x].size = h[x].size
    BY <1>1 DEF Used
  <1>8. QED BY <1>4, <1>5, <1>6, <1>7

-----------------------------------------------------------------------------
(* The inductive invariant.                                                *)

(* What is asked for is never more than the size after alignment, and      *)
(* krealloc's old pointer stays in use until it is given back.             *)
CallOk ==
    call # NULL =>
        /\ call.size \in Nat /\ call.asked \in Nat /\ call.size >= call.asked
        /\ call.old # NULL => call.old \in DOMAIN live

(* Live blocks of any list h and requests l.                               *)
Held(h, l) ==
    /\ DOMAIN l = {b + HEADER : b \in Used(h)}
    /\ \A p \in DOMAIN l : l[p] \in Nat /\ h[p - HEADER].size >= l[p]

IInv ==
    /\ Tiled(heap, committed_end) /\ Merged(heap)
    /\ heap_vma <=> DOMAIN heap # {}
    /\ Held(heap, live) /\ live = [p \in DOMAIN live |-> live[p]]
    /\ CallOk

(* A pointer in use is the address of a block in use.                      *)
LEMMA HeldFacts ==
    ASSUME NEW h, NEW end, Tiled(h, end), NEW l, Held(h, l), NEW p \in DOMAIN l
    PROVE  /\ p - HEADER \in Used(h) /\ p = (p - HEADER) + HEADER /\ p \in Nat
           /\ p - HEADER \in DOMAIN h /\ l[p] \in Nat /\ h[p - HEADER].size >= l[p]
  <1>1. PICK b \in Used(h) : p = b + HEADER
    BY DEF Held
  <1>2. b \in DOMAIN h /\ b \in Nat /\ HEADER \in Nat
    BY TiledFacts DEF Used
  <1>3. p - HEADER = b /\ p \in Nat
    BY <1>1, <1>2
  <1>4. QED BY <1>1, <1>2, <1>3 DEF Held

(* Pieces within two blocks of a list are disjoint and within the heap.    *)
LEMMA PiecesApart ==
    ASSUME NEW h, NEW end, Tiled(h, end), NEW b \in DOMAIN h,
           NEW n \in Nat, h[b].size >= n
    PROVE  /\ b + HEADER \in Nat /\ b + HEADER + n <= end
           /\ \A c \in DOMAIN h : \A m \in Nat :
                 h[c].size >= m /\ c # b => A!Apart(b + HEADER, n, c + HEADER, m)
  <1>1. /\ end \in Nat /\ HEADER \in Nat
        /\ b \in Nat /\ h[b].size \in Nat /\ EndIn(h, b) = b + HEADER + h[b].size
        /\ EndIn(h, b) <= end
    BY TiledFacts
  <1>2. b + HEADER \in Nat /\ b + HEADER + n <= end
    BY <1>1
  <1>3. ASSUME NEW c \in DOMAIN h, NEW m \in Nat, h[c].size >= m, c # b
        PROVE  A!Apart(b + HEADER, n, c + HEADER, m)
    <2>1. c \in Nat /\ h[c].size \in Nat /\ EndIn(h, c) = c + HEADER + h[c].size
      BY TiledFacts
    <2>2. CASE b < c
      <3>1. EndIn(h, b) <= c
        BY <2>2 DEF Tiled
      <3>2. QED BY <1>1, <2>1, <3>1 DEF A!Apart
    <2>3. CASE c < b
      <3>1. EndIn(h, c) <= b
        BY <2>3 DEF Tiled
      <3>2. QED BY <1>1, <1>3, <2>1, <3>1 DEF A!Apart
    <2>4. QED BY <1>1, <1>3, <2>1, <2>2, <2>3
  <1>4. QED BY <1>2, <1>3

(* The block of a pointer that is handed out is one more in use.           *)
LEMMA HeldTaken ==
    ASSUME NEW h, NEW end, Tiled(h, end), NEW l, Held(h, l),
           NEW g, Tiled(g, end), NEW b, Used(g) = Used(h) \cup {b},
           \A x \in Used(h) : g[x].size = h[x].size,
           NEW n \in Nat, g[b].size >= n
    PROVE  Held(g, With(l, b + HEADER, n))
  <1> DEFINE w == With(l, b + HEADER, n)
  <1>1. /\ DOMAIN w = DOMAIN l \cup {b + HEADER} /\ w[b + HEADER] = n
        /\ \A p \in DOMAIN l : p # b + HEADER => w[p] = l[p]
    BY DEF With
  <1>2. b \in DOMAIN g /\ b \in Nat /\ HEADER \in Nat
    BY TiledFacts DEF Used
  <1>3. DOMAIN w = {c + HEADER : c \in Used(g)}
    BY <1>1 DEF Held
  <1> HIDE DEF w
  <1>4. ASSUME NEW p \in DOMAIN w
        PROVE  w[p] \in Nat /\ g[p - HEADER].size >= w[p]
    <2>1. CASE p = b + HEADER
      <3>1. p - HEADER = b
        BY <1>2, <2>1
      <3>2. QED BY <1>1, <2>1, <3>1
    <2>2. CASE p # b + HEADER
      <3>1. p \in DOMAIN l /\ w[p] = l[p]
        BY <1>1, <2>2
      <3>2. p - HEADER \in Used(h) /\ l[p] \in Nat /\ h[p - HEADER].size >= l[p]
        BY <3>1, HeldFacts
      <3>3. QED BY <3>1, <3>2
    <2>3. QED BY <2>1, <2>2
  <1>5. QED BY <1>3, <1>4 DEF Held, w

(* The block of a pointer that is given back is one less.                  *)
LEMMA HeldFreed ==
    ASSUME NEW h, NEW end, Tiled(h, end), NEW l, Held(h, l), NEW p \in DOMAIN l,
           NEW g, Used(g) = Used(h) \ {p - HEADER},
           \A x \in Used(g) : g[x].size = h[x].size
    PROVE  Held(g, Without(l, p))
  <1> DEFINE w == Without(l, p)
  <1>1. DOMAIN w = DOMAIN l \ {p} /\ \A q \in DOMAIN w : w[q] = l[q]
    BY DEF Without
  <1>2. \A c \in Used(h) : c \in Nat
    BY TiledFacts DEF Used
  <1>3. p \in Nat /\ HEADER \in Nat /\ p = (p - HEADER) + HEADER
    BY HeldFacts, TiledFacts
  <1>4. DOMAIN w = {c + HEADER : c \in Used(g)}
    <2>1. DOMAIN l = {c + HEADER : c \in Used(h)}
      BY DEF Held
    <2>2. \A c \in Used(h) : c + HEADER = p <=> c = p - HEADER
      BY <1>2, <1>3
    <2>3. QED BY <1>1, <2>1, <2>2
  <1> HIDE DEF w
  <1>5. ASSUME NEW q \in DOMAIN w
        PROVE  w[q] \in Nat /\ g[q - HEADER].size >= w[q]
    <2>1. q \in DOMAIN l /\ q # p /\ w[q] = l[q]
      BY <1>1
    <2>2. /\ q - HEADER \in Used(h) /\ l[q] \in Nat /\ h[q - HEADER].size >= l[q]
          /\ q \in Nat
      BY <2>1, HeldFacts
    <2>3. q - HEADER # p - HEADER
      BY <1>3, <2>1, <2>2
    <2>4. g[q - HEADER].size = h[q - HEADER].size
      BY <2>2, <2>3
    <2>5. QED BY <2>1, <2>2, <2>4
  <1>6. QED BY <1>4, <1>5 DEF Held, w

-----------------------------------------------------------------------------
(* The steps.                                                              *)

(* A round of kmalloc that finds a block: what it took, and what it was    *)
(* given back.                                                             *)
LEMMA FoundFacts ==
    ASSUME IInv, kmalloc_found
    PROVE  \E b \in DOMAIN heap : \E taken :
             /\ heap[b].free
             /\ Tiled(taken, committed_end) /\ Merged(taken)
             /\ Used(taken) = Used(heap) \cup {b}
             /\ \A x \in Used(heap) : taken[x].size = heap[x].size
             /\ taken[b].size >= call.size
             /\ \/ /\ call.old = NULL
                   /\ heap' = taken /\ live' = With(live, b + HEADER, call.asked)
                \/ /\ call.old # NULL
                   /\ heap' = Freed(taken, call.old - HEADER)
                   /\ live' = With(Without(live, call.old), b + HEADER, call.asked)
  <1> DEFINE b == find_free_block(heap, call.size)
  <1>1. coalesce_free_blocks(heap, committed_end) = heap
    BY NothingToCoalesce DEF IInv
  <1>2. b # NULL
    BY <1>1 DEF kmalloc_found
  <1>3. b \in DOMAIN heap /\ heap[b].free /\ heap[b].size >= call.size
    BY <1>2, FindFacts DEF IInv
  <1>4. call.size \in Nat
    BY DEF IInv, CallOk, kmalloc_found
  <1>t. PICK taken : taken = Taken(heap, b, call.size)
    OBVIOUS
  <1>5. \/ /\ call.old = NULL
           /\ heap' = taken /\ live' = With(live, b + HEADER, call.asked)
        \/ /\ call.old # NULL
           /\ heap' = Freed(taken, call.old - HEADER)
           /\ live' = With(Without(live, call.old), b + HEADER, call.asked)
    BY <1>1, <1>t DEF kmalloc_found, Taken, Mark
  <1> HIDE DEF b
  <1>6. /\ Tiled(taken, committed_end) /\ Merged(taken)
        /\ Used(taken) = Used(heap) \cup {b}
        /\ \A x \in Used(heap) : taken[x].size = heap[x].size
        /\ taken[b].size >= call.size
    BY <1>3, <1>4, <1>t, TakenFacts DEF IInv
  <1>7. QED BY <1>3, <1>5, <1>6

(* A round of kmalloc that finds a block obtains or moves a piece.         *)
LEMMA FoundKeeps ==
    ASSUME IInv, kmalloc_found
    PROVE  IInv' /\ A!Next
  <1>1. PICK b \in DOMAIN heap : \E taken :
             /\ heap[b].free
             /\ Tiled(taken, committed_end) /\ Merged(taken)
             /\ Used(taken) = Used(heap) \cup {b}
             /\ \A x \in Used(heap) : taken[x].size = heap[x].size
             /\ taken[b].size >= call.size
             /\ \/ /\ call.old = NULL
                   /\ heap' = taken /\ live' = With(live, b + HEADER, call.asked)
                \/ /\ call.old # NULL
                   /\ heap' = Freed(taken, call.old - HEADER)
                   /\ live' = With(Without(live, call.old), b + HEADER, call.asked)
    BY FoundFacts
  <1>2. PICK taken :
             /\ heap[b].free
             /\ Tiled(taken, committed_end) /\ Merged(taken)
             /\ Used(taken) = Used(heap) \cup {b}
             /\ \A x \in Used(heap) : taken[x].size = heap[x].size
             /\ taken[b].size >= call.size
             /\ \/ /\ call.old = NULL
                   /\ heap' = taken /\ live' = With(live, b + HEADER, call.asked)
                \/ /\ call.old # NULL
                   /\ heap' = Freed(taken, call.old - HEADER)
                   /\ live' = With(Without(live, call.old), b + HEADER, call.asked)
    BY <1>1
  <1> DEFINE ptr == b + HEADER
  <1>3. /\ Tiled(heap, committed_end) /\ Held(heap, live) /\ heap_vma <=> DOMAIN heap # {}
        /\ call.asked \in Nat /\ call.size \in Nat /\ call.size >= call.asked
        /\ call.old # NULL => call.old \in DOMAIN live
        /\ call' = NULL /\ UNCHANGED <<committed_end, heap_vma>>
        /\ b \in Nat /\ HEADER \in Nat /\ b \in DOMAIN taken
    BY <1>2, TiledFacts DEF IInv, CallOk, kmalloc_found, Used
  <1>4. taken[b].size >= call.asked /\ taken[b].size \in Nat
    <2>1. taken[b].size \in Nat /\ taken[b].size >= call.size
      BY <1>2, <1>3, TiledFacts
    <2>2. QED BY <1>3, <2>1
  <1>5. Held(taken, With(live, ptr, call.asked))
    BY <1>2, <1>3, <1>4, HeldTaken
  <1>6. \A q \in DOMAIN live : q - HEADER # b /\ q # ptr
    <2> TAKE q \in DOMAIN live
    <2>1. q - HEADER \in Used(heap) /\ q \in Nat
      BY <1>3, HeldFacts
    <2>2. q - HEADER # b
      BY <1>2, <2>1 DEF Used
    <2>3. QED BY <1>3, <2>1, <2>2
  <1>7. A!Available(ptr, call.asked, DOMAIN live)
    <2>1. /\ ptr \in Nat /\ ptr + call.asked <= committed_end
          /\ \A c \in DOMAIN taken : \A m \in Nat :
                taken[c].size >= m /\ c # b => A!Apart(ptr, call.asked, c + HEADER, m)
      BY <1>2, <1>3, <1>4, PiecesApart
    <2>2. ASSUME NEW q \in DOMAIN live
          PROVE  A!Apart(ptr, call.asked, q, live[q])
      <3>1. /\ q - HEADER \in Used(heap) /\ q = (q - HEADER) + HEADER
            /\ live[q] \in Nat /\ heap[q - HEADER].size >= live[q]
        BY <1>3, HeldFacts
      <3>2. /\ q - HEADER \in DOMAIN taken /\ taken[q - HEADER].size >= live[q]
            /\ q - HEADER # b
        BY <1>2, <1>6, <3>1 DEF Used
      <3> HIDE DEF ptr
      <3>3. A!Apart(ptr, call.asked, (q - HEADER) + HEADER, live[q])
        BY <2>1, <3>1, <3>2
      <3>4. QED BY <3>1, <3>3
    <2> HIDE DEF ptr
    <2>3. QED BY <2>1, <2>2 DEF A!Available
  <1>8. CASE call.old = NULL
    <2>1. heap' = taken /\ live' = With(live, ptr, call.asked)
      BY <1>2, <1>8
    <2> HIDE DEF ptr
    <2>2. live' = [p \in DOMAIN live' |-> live'[p]]
      BY <2>1 DEF With
    <2>3. /\ Tiled(heap, committed_end)' /\ Merged(heap)' /\ Held(heap, live)'
          /\ (heap_vma <=> DOMAIN heap # {})'
      <3>1. heap_vma <=> DOMAIN taken # {}
        BY <1>3
      <3>2. QED BY <1>2, <1>3, <1>5, <2>1, <3>1
    <2>4. IInv'
      BY <1>3, <2>2, <2>3 DEF IInv, CallOk
    <2>5. A!Obtain(ptr, live'[ptr]) /\ ptr \in DOMAIN live' \ DOMAIN live
      BY <1>3, <1>6, <1>7, <2>1 DEF A!Obtain, With
    <2>6. QED BY <2>4, <2>5 DEF A!Next
  <1>9. CASE call.old # NULL
    <2> DEFINE old == call.old
               l2 == With(live, ptr, call.asked)
    <2>1. /\ heap' = Freed(taken, old - HEADER)
          /\ live' = With(Without(live, old), ptr, call.asked)
          /\ old \in DOMAIN live /\ old # ptr
      BY <1>2, <1>3, <1>6, <1>9
    <2>2. live' = Without(l2, old) /\ live' = [p \in DOMAIN live' |-> live'[p]]
          /\ old \in DOMAIN l2
      BY <2>1 DEF With, Without
    <2>3. old - HEADER \in Used(taken)
      <3>1. old - HEADER \in Used(heap)
        BY <1>3, <2>1, HeldFacts
      <3>2. QED BY <1>2, <3>1
    <2>4. /\ Tiled(heap', committed_end) /\ Merged(heap')
          /\ Used(heap') = Used(taken) \ {old - HEADER}
          /\ \A x \in Used(heap') : heap'[x].size = taken[x].size
      BY <1>2, <2>1, <2>3, FreedFacts
    <2>5. Held(heap', live')
      <3> HIDE DEF old, l2, ptr
      <3>1. Held(taken, l2)
        BY <1>5 DEF l2
      <3>2. QED BY <1>2, <2>2, <2>4, <3>1, HeldFreed
    <2>6. b \in Used(heap')
      BY <1>2, <1>6, <2>1, <2>4
    <2>7. (heap_vma <=> DOMAIN heap # {})'
      BY <1>3, <2>6 DEF Used
    <2>8. IInv'
      BY <1>3, <2>2, <2>4, <2>5, <2>7 DEF IInv, CallOk
    <2>9. A!Move(old, ptr, live'[ptr]) /\ ptr \in DOMAIN live' \ DOMAIN live
      <3> HIDE DEF ptr, old
      <3>1. live' = [q \in (DOMAIN live \ {old}) \cup {ptr} |->
                        IF q = ptr THEN call.asked ELSE live[q]]
        BY <2>1 DEF With, Without
      <3>2. live'[ptr] = call.asked /\ ptr \in DOMAIN live' \ DOMAIN live
        BY <1>6, <3>1
      <3>3. QED BY <1>3, <1>7, <3>1, <3>2 DEF A!Move
    <2>10. QED
      <3> HIDE DEF ptr, old
      <3> QED BY <2>1, <2>8, <2>9 DEF A!Next
  <1>10. QED BY <1>8, <1>9

(* Growth appends a page, and joins it to the last block if that is free.  *)
LEMMA ExpandKeeps ==
    ASSUME IInv, heap_expand
    PROVE  IInv' /\ A!Grow
  <1>l. PICK last : last = find_last_block(heap)
    OBVIOUS
  <1> DEFINE e2 == committed_end + PAGE_SIZE
  <1>1. coalesce_free_blocks(heap, committed_end) = heap
    BY NothingToCoalesce DEF IInv
  <1>2. /\ Tiled(heap, committed_end) /\ Merged(heap) /\ Held(heap, live) /\ DOMAIN heap # {}
        /\ committed_end' = e2 /\ heap_vma /\ UNCHANGED <<heap_vma, call, live>>
        /\ PAGE_SIZE \in Nat /\ PAGE_SIZE > 0 /\ committed_end \in Nat /\ NULL \notin Nat
    BY HeapAssumption, TiledFacts DEF IInv, heap_expand
  <1>n. PICK new : new = Appended(heap, committed_end)
    OBVIOUS
  <1>3. heap' = IF heap[last].free THEN merge_with_next(new, last) ELSE new
    BY <1>1, <1>l, <1>n DEF heap_expand
  <1>4. /\ Tiled(new, e2) /\ DOMAIN new = DOMAIN heap \cup {committed_end}
        /\ committed_end \notin DOMAIN heap /\ last \in DOMAIN heap
        /\ \A x \in DOMAIN heap :
              /\ new[x].free = heap[x].free /\ new[x].size = heap[x].size
              /\ new[x].next = IF x = last THEN committed_end ELSE heap[x].next
        /\ new[committed_end].free /\ new[committed_end].next = NULL
    <2>1. Tiled(new, e2) /\ Extended(heap, new, last, committed_end)
      BY <1>2, <1>l, <1>n, AppendedFacts
    <2>2. QED BY <2>1 DEF Extended
  <1>5. Used(new) = Used(heap)
    BY <1>4 DEF Used
  <1> HIDE DEF e2
  <1>6. ASSUME NEW x \in DOMAIN new, x # last, new[x].next # NULL
        PROVE  ~ (new[x].free /\ new[new[x].next].free)
    <2>1. x \in DOMAIN heap /\ new[x].next = heap[x].next
      BY <1>4, <1>6
    <2>2. heap[x].next \in DOMAIN heap /\ ~ (heap[x].free /\ heap[heap[x].next].free)
      BY <1>2, <1>6, <2>1 DEF Tiled, Merged
    <2>3. new[x].free = heap[x].free /\ new[heap[x].next].free = heap[heap[x].next].free
      BY <1>4, <2>1, <2>2
    <2>4. QED BY <2>1, <2>2, <2>3
  <1>7. /\ Tiled(heap', e2) /\ Merged(heap') /\ DOMAIN heap' # {}
        /\ Used(heap') = Used(heap)
        /\ \A x \in Used(heap') : heap'[x].size = heap[x].size
    <2>1. CASE ~heap[last].free
      <3>1. heap' = new
        BY <1>3, <2>1
      <3>2. ~new[last].free
        BY <1>4, <2>1
      <3>3. Merged(new)
        BY <1>6, <3>2 DEF Merged
      <3>4. \A x \in Used(new) : new[x].size = heap[x].size
        BY <1>4, <1>5 DEF Used
      <3>5. QED BY <1>4, <1>5, <3>1, <3>3, <3>4
    <2>2. CASE heap[last].free
      <3>1. new[last].next = committed_end /\ committed_end # NULL /\ new[committed_end].free
            /\ last \in DOMAIN new /\ committed_end \in DOMAIN new
        BY <1>2, <1>4
      <3>2. heap' = Absorb(new, last, committed_end)
        BY <1>3, <2>2, <3>1 DEF merge_with_next
      <3>j. PICK g : g = heap'
        OBVIOUS
      <3>3. Tiled(g, e2) /\ Joined(new, g, last, committed_end)
        BY <1>4, <3>1, <3>2, <3>j, AbsorbFacts
      <3>4. /\ DOMAIN g = DOMAIN heap /\ last \in DOMAIN g
            /\ \A x \in DOMAIN g :
                  /\ g[x].free = new[x].free
                  /\ x # last => g[x].size = new[x].size /\ g[x].next = new[x].next
            /\ g[last].next = NULL
        BY <1>4, <3>3 DEF Joined
      <3>5. Merged(g)
        <4> SUFFICES ASSUME NEW x \in DOMAIN g, g[x].next # NULL, g[x].free, g[g[x].next].free
                     PROVE  FALSE
          BY DEF Merged
        <4>1. x # last
          BY <3>4
        <4>2. /\ x \in DOMAIN new /\ new[x].next = g[x].next /\ new[x].free
              /\ g[x].next \in DOMAIN g
          BY <1>4, <3>3, <3>4, <4>1 DEF Tiled
        <4>3. new[new[x].next].free
          BY <3>4, <4>2
        <4>4. QED BY <1>6, <4>1, <4>2, <4>3
      <3>6. Used(g) = Used(heap)
        <4>1. \A x \in DOMAIN heap : g[x].free = heap[x].free
          BY <1>4, <3>4
        <4>2. QED BY <3>4, <4>1 DEF Used
      <3>7. \A x \in Used(g) : g[x].size = heap[x].size
        <4> TAKE x \in Used(g)
        <4>1. x \in DOMAIN heap /\ x # last
          BY <2>2, <3>6 DEF Used
        <4>2. QED BY <1>4, <3>4, <4>1
      <3>8. QED BY <3>j, <3>3, <3>4, <3>5, <3>6, <3>7
    <2>3. QED BY <2>1, <2>2
  <1>8. Held(heap', live)
    <2>1. DOMAIN live = {b + HEADER : b \in Used(heap')}
      BY <1>2, <1>7 DEF Held
    <2>2. ASSUME NEW p \in DOMAIN live
          PROVE  live[p] \in Nat /\ heap'[p - HEADER].size >= live[p]
      <3>1. p - HEADER \in Used(heap) /\ live[p] \in Nat /\ heap[p - HEADER].size >= live[p]
        BY <1>2, HeldFacts
      <3>2. QED BY <1>7, <3>1
    <2>3. QED BY <2>1, <2>2 DEF Held
  <1>9. IInv'
    BY <1>2, <1>7, <1>8 DEF IInv, CallOk
  <1>10. A!Grow
    BY <1>2 DEF A!Grow, e2
  <1>11. QED BY <1>9, <1>10

(* kfree releases the piece of its pointer.                                *)
LEMMA FreeKeeps ==
    ASSUME IInv, NEW ptr \in DOMAIN live, kfree(ptr)
    PROVE  IInv' /\ A!Release(ptr)
  <1>1. /\ Tiled(heap, committed_end) /\ Merged(heap) /\ Held(heap, live)
        /\ heap_vma <=> DOMAIN heap # {}
        /\ heap' = Freed(heap, ptr - HEADER) /\ live' = Without(live, ptr)
        /\ call = NULL /\ UNCHANGED <<committed_end, heap_vma, call>>
    BY DEF IInv, kfree
  <1>2. ptr - HEADER \in Used(heap)
    BY <1>1, HeldFacts
  <1>3. /\ Tiled(heap', committed_end) /\ Merged(heap') /\ DOMAIN heap' # {}
        /\ Used(heap') = Used(heap) \ {ptr - HEADER}
        /\ \A x \in Used(heap') : heap'[x].size = heap[x].size
    BY <1>1, <1>2, FreedFacts
  <1>4. Held(heap', live')
    BY <1>1, <1>3, HeldFreed
  <1>5. heap_vma' <=> DOMAIN heap' # {}
    <2>1. DOMAIN heap' # {}
      BY <1>3
    <2>2. DOMAIN heap # {}
      BY <1>2 DEF Used
    <2>3. QED BY <1>1, <2>1, <2>2
  <1>6. IInv'
    BY <1>1, <1>3, <1>4, <1>5 DEF IInv, CallOk, Without
  <1>7. A!Release(ptr)
    BY <1>1 DEF A!Release, Without
  <1>8. QED BY <1>6, <1>7

(* krealloc in place: the block is large enough for the new size.          *)
LEMMA SameKeeps ==
    ASSUME IInv, NEW size \in Sizes, NEW ptr \in DOMAIN live, krealloc_same(ptr, size)
    PROVE  IInv' /\ A!Resize(ptr, live'[ptr]) /\ ptr \in DOMAIN live'
  <1> DEFINE b == ptr - HEADER
  <1>1. /\ Tiled(heap, committed_end) /\ Held(heap, live) /\ CallOk /\ call = NULL
        /\ live' = [live EXCEPT ![ptr] = size] /\ heap[b].size >= align_size(size)
        /\ UNCHANGED <<heap, committed_end, heap_vma, call>>
    BY DEF IInv, krealloc_same
  <1>2. size \in Nat /\ align_size(size) \in Nat /\ align_size(size) >= size
    BY HeapAssumption, AlignFacts
  <1>3. b \in DOMAIN heap /\ ptr = b + HEADER
    BY <1>1, HeldFacts
  <1>4. heap[b].size \in Nat
    BY <1>1, <1>3, TiledFacts
  <1> HIDE DEF b
  <1>5. heap[b].size >= size
    BY <1>1, <1>2, <1>4
  <1>6. /\ DOMAIN live' = DOMAIN live /\ live'[ptr] = size
        /\ \A p \in DOMAIN live : p # ptr => live'[p] = live[p]
    BY <1>1
  <1>7. Held(heap, live')
    <2>1. ASSUME NEW p \in DOMAIN live
          PROVE  live'[p] \in Nat /\ heap[p - HEADER].size >= live'[p]
      <3>1. CASE p = ptr
        BY <1>2, <1>5, <1>6, <3>1 DEF b
      <3>2. CASE p # ptr
        <4>1. live[p] \in Nat /\ heap[p - HEADER].size >= live[p]
          BY <1>1, HeldFacts
        <4>2. QED BY <1>6, <3>2, <4>1
      <3>3. QED BY <3>1, <3>2
    <2>2. DOMAIN live' = {c + HEADER : c \in Used(heap)}
      BY <1>1, <1>6 DEF Held
    <2>3. QED BY <1>6, <2>1, <2>2 DEF Held
  <1>8. IInv'
    <2>1. live' = [p \in DOMAIN live' |-> live'[p]]
      BY <1>1
    <2>2. QED BY <1>1, <1>7, <2>1 DEF IInv, CallOk
  <1>9. A!Available(ptr, size, DOMAIN live \ {ptr})
    <2>1. /\ ptr \in Nat /\ ptr + size <= committed_end
          /\ \A c \in DOMAIN heap : \A m \in Nat :
                heap[c].size >= m /\ c # b => A!Apart(ptr, size, c + HEADER, m)
      BY <1>1, <1>2, <1>3, <1>5, PiecesApart
    <2>2. ASSUME NEW q \in DOMAIN live \ {ptr}
          PROVE  A!Apart(ptr, size, q, live[q])
      <3>1. /\ q - HEADER \in DOMAIN heap /\ q = (q - HEADER) + HEADER
            /\ live[q] \in Nat /\ heap[q - HEADER].size >= live[q]
        BY <1>1, HeldFacts
      <3>2. q - HEADER # b
        BY <1>3, <3>1
      <3>3. A!Apart(ptr, size, (q - HEADER) + HEADER, live[q])
        BY <2>1, <3>1, <3>2
      <3>4. QED BY <3>1, <3>3
    <2>3. QED BY <2>1, <2>2 DEF A!Available
  <1>10. A!Resize(ptr, live'[ptr])
    BY <1>1, <1>6, <1>9 DEF A!Resize
  <1>11. QED BY <1>6, <1>8, <1>10

(* A request that enters the loop of kmalloc.                              *)
LEMMA RequestKeeps ==
    ASSUME IInv, NEW size \in Nat, NEW old, old # NULL => old \in DOMAIN live,
           Request(size, old)
    PROVE  IInv' /\ UNCHANGED A!vars
  <1>1. align_size(size) \in Nat /\ align_size(size) >= size
    BY AlignFacts
  <1>2. UNCHANGED <<heap, committed_end, heap_vma, live>>
    BY DEF Request
  <1>3. CallOk'
    <2>1. call'.size = align_size(size) /\ call'.asked = size /\ call'.old = old
      BY DEF Request
    <2>2. QED BY <1>1, <1>2, <2>1 DEF CallOk
  <1>4. QED BY <1>2, <1>3 DEF IInv, A!vars

(* kmalloc that fails changes nothing a caller sees.                       *)
LEMMA FailsKeeps ==
    ASSUME IInv, kmalloc_fails
    PROVE  IInv' /\ UNCHANGED A!vars
  <1>1. coalesce_free_blocks(heap, committed_end) = heap
    BY NothingToCoalesce DEF IInv
  <1>2. heap' = heap /\ call' = NULL /\ UNCHANGED <<committed_end, heap_vma, live>>
    BY <1>1 DEF kmalloc_fails
  <1>3. QED BY <1>2 DEF IInv, CallOk, A!vars

(* heap_init, with a heap and without one.                                 *)
LEMMA InitHolds == Init => IInv /\ A!Init
  <1> SUFFICES ASSUME Init PROVE IInv /\ A!Init
    OBVIOUS
  <1>1. /\ HEADER \in Nat \ {0} /\ PAGE_SIZE \in Nat /\ PAGE_SIZE > HEADER
        /\ PAGE_SIZE - HEADER \in Nat /\ NULL \notin Nat
    BY HeapAssumption
  <1>2. Tiled(heap, committed_end) /\ Merged(heap) /\ Used(heap) = {}
        /\ (heap_vma <=> DOMAIN heap # {}) /\ committed_end \in Nat
    <2>1. CASE heap_vma
      <3>1. /\ DOMAIN heap = {0} /\ heap = [x \in {0} |-> heap[x]] /\ heap[0] = FirstBlock
            /\ committed_end = PAGE_SIZE
        BY <2>1 DEF Init
      <3>2. /\ heap[0] \in Block /\ heap[0].size = PAGE_SIZE - HEADER /\ heap[0].free = TRUE
            /\ heap[0].next = NULL /\ heap[0].prev = NULL
        <4>1. FirstBlock \in Block
          BY <1>1 DEF Block, FirstBlock
        <4>2. /\ FirstBlock.size = PAGE_SIZE - HEADER /\ FirstBlock.free = TRUE
              /\ FirstBlock.next = NULL /\ FirstBlock.prev = NULL
          BY DEF FirstBlock
        <4>3. QED BY <3>1, <4>1, <4>2
      <3>3. EndIn(heap, 0) = PAGE_SIZE
        BY <1>1, <3>2 DEF EndIn
      <3>4. Tiled(heap, committed_end)
        BY <1>1, <3>1, <3>2, <3>3 DEF Tiled
      <3>5. QED BY <1>1, <2>1, <3>1, <3>2, <3>4 DEF Merged, Used
    <2>2. CASE ~heap_vma
      <3>1. DOMAIN heap = {} /\ committed_end = 0 /\ heap = [x \in {} |-> heap[x]]
        BY <2>2 DEF Init, Nothing
      <3>2. QED BY <2>2, <3>1 DEF Tiled, Merged, Used
    <2>3. QED BY <2>1, <2>2
  <1>3. DOMAIN live = {} /\ live = [p \in {} |-> 0] /\ call = NULL
        /\ live = [p \in DOMAIN live |-> live[p]]
    BY DEF Init, Nothing
  <1>4. Held(heap, live)
    BY <1>2, <1>3 DEF Held
  <1>5. IInv
    BY <1>2, <1>3, <1>4 DEF IInv, CallOk
  <1>6. QED BY <1>2, <1>3, <1>5 DEF A!Init

(* Every step keeps the invariant and is one of the allocator's, or none.  *)
LEMMA StepHolds ==
    IInv /\ [Next]_vars => IInv' /\ [A!Next]_A!vars
  <1> SUFFICES ASSUME IInv, [Next]_vars PROVE IInv' /\ (A!Next \/ UNCHANGED A!vars)
    OBVIOUS
  <1>1. ASSUME NEW size \in Sizes, kmalloc(size)
        PROVE  IInv' /\ UNCHANGED A!vars
    <2>1. size \in Nat /\ Request(size, NULL)
      BY <1>1, HeapAssumption DEF kmalloc
    <2>2. QED BY <2>1, RequestKeeps
  <1>2. ASSUME NEW size \in Sizes, NEW count \in Counts, kcalloc(count, size)
        PROVE  IInv' /\ UNCHANGED A!vars
    <2>1. size \in Nat /\ count \in Nat /\ Request(count * size, NULL)
      BY <1>2, HeapAssumption DEF kcalloc
    <2>2. count * size \in Nat
      BY <2>1
    <2>3. QED BY <2>1, <2>2, RequestKeeps
  <1>3. ASSUME NEW size \in Sizes, NEW ptr \in DOMAIN live, krealloc_same(ptr, size)
        PROVE  IInv' /\ A!Next
    BY <1>3, SameKeeps DEF A!Next
  <1>4. ASSUME NEW size \in Sizes, NEW ptr \in DOMAIN live, krealloc_moves(ptr, size)
        PROVE  IInv' /\ UNCHANGED A!vars
    <2>1. size \in Nat /\ Request(size, ptr)
      BY <1>4, HeapAssumption DEF krealloc_moves
    <2>2. QED BY <2>1, RequestKeeps
  <1>5. ASSUME NEW ptr \in DOMAIN live, kfree(ptr)
        PROVE  IInv' /\ A!Next
    BY <1>5, FreeKeeps DEF A!Next
  <1>6. CASE kmalloc_found
    BY <1>6, FoundKeeps
  <1>7. CASE heap_expand
    BY <1>7, ExpandKeeps DEF A!Next
  <1>8. CASE kmalloc_fails
    BY <1>8, FailsKeeps
  <1>9. CASE UNCHANGED vars
    BY <1>9 DEF vars, IInv, CallOk, A!vars
  <1>10. QED BY <1>1, <1>2, <1>3, <1>4, <1>5, <1>6, <1>7, <1>8, <1>9 DEF Next

-----------------------------------------------------------------------------
(* The theorems.                                                           *)

(* The invariant holds in every state of every execution of the heap.      *)
THEOREM HeapInvariant == Spec => []IInv
  BY InitHolds, StepHolds, PTL DEF Spec

(* The blocks always tile the committed memory in the order of their       *)
(* links, whatever kmalloc splits, kfree merges and heap_expand appends.   *)
THEOREM LinksCorrect == Spec => []Links
  <1>1. IInv => Links
    <2> SUFFICES ASSUME IInv PROVE Links
      OBVIOUS
    <2>1. Tiled(heap, committed_end) /\ heap_vma <=> DOMAIN heap # {}
      BY DEF IInv
    <2>2. heap_vma <=> 0 \in DOMAIN heap
      BY DEF IInv, Tiled
    <2>3. ASSUME NEW b \in DOMAIN heap
          PROVE  /\ \A c \in DOMAIN heap : b < c => BlockEnd(b) <= c
                 /\ heap[b].next = NULL <=> BlockEnd(b) = committed_end
                 /\ heap[b].prev = NULL <=> b = 0
                 /\ heap[b].next # NULL =>
                       /\ heap[b].next = BlockEnd(b)
                       /\ heap[b].next \in DOMAIN heap
                       /\ heap[heap[b].next].prev = b
                 /\ heap[b].prev # NULL =>
                       /\ heap[b].prev \in DOMAIN heap
                       /\ heap[heap[b].prev].next = b
      <3>1. Tiled(heap, committed_end) /\ BlockEnd(b) = EndIn(heap, b)
        BY DEF IInv, BlockEnd, EndIn
      <3>2. EndIn(heap, b) \in Nat /\ NULL \notin Nat
        BY <3>1, TiledFacts
      <3>3. QED BY <3>1, <3>2 DEF Tiled
    <2>4. QED BY <2>2, <2>3 DEF Links
  <1>2. QED BY <1>1, HeapInvariant, PTL

(* Free neighbours are always merged by the time a call returns.           *)
THEOREM CoalescedCorrect == Spec => []Coalesced
  <1>1. IInv => Coalesced
    BY DEF IInv, Merged, Coalesced
  <1>2. QED BY <1>1, HeapInvariant, PTL

(* The pointers in use are exactly the used blocks, and each block is as   *)
(* large as it was asked for.                                              *)
THEOREM LiveBlocksCorrect == Spec => []LiveBlocks
  <1>1. IInv => LiveBlocks
    BY DEF IInv, Held, Used, LiveBlocks
  <1>2. QED BY <1>1, HeapInvariant, PTL

(* The heap implements BlockAllocator: what kmalloc and krealloc hand out  *)
(* lies in the heap and overlaps nothing that is in use.                   *)
THEOREM AllocatorImplemented == Spec => Allocator
  BY InitHolds, StepHolds, HeapInvariant, PTL DEF Spec, Allocator, A!Spec
=============================================================================
