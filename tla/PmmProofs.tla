------------------------------ MODULE PmmProofs ------------------------------
(* Proofs about the physical memory manager (module Pmm).                  *)
EXTENDS Pmm, FiniteSetTheorems, WellFoundedInduction, TLAPS

(* A non-empty set of naturals has a least element.                        *)
LEMMA LowestFacts ==
    ASSUME NEW S, S \subseteq Nat, S # {}
    PROVE  Lowest(S) \in S /\ \A y \in S : Lowest(S) <= y
  <1>1. PICK x \in S : \A y \in S : ~(<<y, x>> \in OpToRel(<, Nat))
    BY WFMin, NatLessThanWellFounded, Zenon
  <1>2. \A y \in S : x <= y
    <2> TAKE y \in S
    <2>1. ~(y < x)
      BY <1>1 DEF OpToRel
    <2>2. QED BY <2>1
  <1>3. QED BY <1>2 DEF Lowest

(* The free pages are finitely many.                                       *)
LEMMA FreeFinite ==
    ASSUME NEW p, PmmOK(p)
    PROVE  /\ FreePages(p) \subseteq 0..(p.total_pages - 1)
           /\ FreePages(p) \subseteq Nat
           /\ IsFiniteSet(FreePages(p))
           /\ FreePages(p) = {g \in 0..(p.bitmap_bits - 1) : g \notin p.bitmap}
           /\ p.bitmap_bits = 0 => FreePages(p) = {}
  <1>0. p.total_pages \in Nat /\ p.bitmap_bits \in {0, p.total_pages}
    BY DEF PmmOK, PmmState
  <1>1. FreePages(p) \subseteq 0..(p.total_pages - 1)
    BY DEF FreePages
  <1>2. IsFiniteSet(0..(p.total_pages - 1))
    BY <1>0, FS_Interval
  <1>3. IsFiniteSet(FreePages(p))
    BY <1>1, <1>2, FS_Subset
  <1>4. FreePages(p) = {g \in 0..(p.bitmap_bits - 1) : g \notin p.bitmap}
    BY <1>0 DEF FreePages, bitmap_test
  <1>5. QED BY <1>0, <1>1, <1>3, <1>4

(* The cardinality of a set cut in two.                                    *)
LEMMA CardSplit ==
    ASSUME NEW S, NEW T, IsFiniteSet(S)
    PROVE  /\ IsFiniteSet(S \cap T) /\ IsFiniteSet(S \ T)
           /\ Cardinality(S) \in Nat
           /\ Cardinality(S \cap T) \in Nat
           /\ Cardinality(S \ T) \in Nat
           /\ Cardinality(S) = Cardinality(S \cap T) + Cardinality(S \ T)
  <1>1. PICK U : U = S \cap T
    OBVIOUS
  <1>2. PICK V : V = S \ T
    OBVIOUS
  <1>3. IsFiniteSet(U) /\ IsFiniteSet(V)
    BY <1>1, <1>2, FS_Subset
  <1>4. Cardinality(S) \in Nat /\ Cardinality(U) \in Nat /\ Cardinality(V) \in Nat
    BY <1>3, FS_CardinalityType
  <1>5. Cardinality(U \cup V) = Cardinality(U) + Cardinality(V) - Cardinality(U \cap V)
    BY <1>3, FS_Union
  <1>6. U \cup V = S /\ U \cap V = {}
    BY <1>1, <1>2
  <1>7. Cardinality(S) = Cardinality(U) + Cardinality(V) - 0
    BY <1>5, <1>6, FS_EmptySet, Zenon
  <1>8. Cardinality(S) = Cardinality(U) + Cardinality(V)
    BY <1>4, <1>7
  <1>9. QED BY <1>1, <1>2, <1>3, <1>4, <1>8, Zenon

(* A state whose counter of free pages is right, and what the operations   *)
(* make of it: q is p with the pages of S taken, or with those of new, all *)
(* of them in use, freed.                                                  *)
Counted(p) == PmmOK(p) /\ p.free_pages = Cardinality(FreePages(p))

SameMemory(p, q) ==
    q.total_pages = p.total_pages /\ q.bitmap_bits = p.bitmap_bits

AfterUsed(p, S, q) ==
    /\ Counted(q)
    /\ FreePages(q) = FreePages(p) \ S
    /\ q.free_pages + q.used_pages = p.free_pages + p.used_pages
    /\ SameMemory(p, q)
    /\ q.next_free_page = p.next_free_page

AfterFree(p, new, q) ==
    /\ Counted(q) /\ HintOK(q)
    /\ new \cap FreePages(p) = {}
    /\ FreePages(q) = FreePages(p) \cup new
    /\ IsFiniteSet(new)
    /\ q.free_pages = p.free_pages + Cardinality(new)
    /\ q.used_pages = Minus(p.used_pages, Cardinality(new))
    /\ SameMemory(p, q)

AfterSeek(p, q) ==
    /\ PmmOK(q) /\ HintOK(q)
    /\ FreePages(q) = FreePages(p)
    /\ q.free_pages = p.free_pages /\ q.used_pages = p.used_pages
    /\ SameMemory(p, q)

(* What pmm_mark_page_used does to a consistent state.                     *)
LEMMA MarkUsedFacts ==
    ASSUME NEW p, Counted(p), NEW S
    PROVE  AfterUsed(p, S, pmm_mark_page_used(p, S))
  <1>0. PICK q : q = pmm_mark_page_used(p, S)
    OBVIOUS
  <1>a. PmmOK(p) /\ p.free_pages = Cardinality(FreePages(p))
    BY DEF Counted
  <1>1. /\ FreePages(p) \subseteq 0..(p.total_pages - 1)
        /\ FreePages(p) \subseteq Nat
        /\ IsFiniteSet(FreePages(p))
        /\ FreePages(p) = {g \in 0..(p.bitmap_bits - 1) : g \notin p.bitmap}
    BY <1>a, FreeFinite
  <1>2. PICK new : new = S \cap FreePages(p)
    OBVIOUS
  <1>3. PICK rest : rest = FreePages(p) \ S
    OBVIOUS
  <1>4. /\ Cardinality(FreePages(p)) \in Nat
        /\ Cardinality(new) \in Nat
        /\ Cardinality(rest) \in Nat
        /\ Cardinality(FreePages(p)) = Cardinality(new) + Cardinality(rest)
    <2>1. S \cap FreePages(p) = FreePages(p) \cap S
      OBVIOUS
    <2>2. IsFiniteSet(FreePages(p))
      BY <1>1
    <2>3. QED BY <1>2, <1>3, <2>1, <2>2, CardSplit, Zenon
  <1>5. p \in PmmState
    BY <1>a DEF PmmOK
  <1>6. q = [p EXCEPT !.bitmap = p.bitmap \cup new,
                      !.free_pages = Minus(p.free_pages, Cardinality(new)),
                      !.used_pages = p.used_pages + Cardinality(new)]
    BY <1>0, <1>2 DEF pmm_mark_page_used
  <1>7. /\ q.bitmap = p.bitmap \cup new
        /\ q.free_pages = Cardinality(rest)
        /\ q.used_pages = p.used_pages + Cardinality(new)
        /\ q.total_pages = p.total_pages /\ q.bitmap_bits = p.bitmap_bits
        /\ q.next_free_page = p.next_free_page
    BY <1>a, <1>4, <1>5, <1>6 DEF PmmState, Minus
  <1>8. new \subseteq 0..(p.bitmap_bits - 1) /\ new \subseteq Nat
    BY <1>1, <1>2
  <1>9. q \in PmmState
    <2>1. q.bitmap \subseteq Nat
      BY <1>5, <1>7, <1>8 DEF PmmState
    <2>2. q.free_pages \in Nat /\ q.used_pages \in Nat
      BY <1>4, <1>5, <1>7 DEF PmmState
    <2>3. QED BY <1>5, <1>6, <1>7, <2>1, <2>2 DEF PmmState
  <1>10. PmmOK(q)
    BY <1>a, <1>7, <1>8, <1>9 DEF PmmOK
  <1>11. FreePages(q) = {g \in 0..(q.bitmap_bits - 1) : g \notin q.bitmap}
    BY <1>10, FreeFinite
  <1>12. FreePages(q) = rest
    BY <1>1, <1>2, <1>3, <1>7, <1>11
  <1>13. q.free_pages + q.used_pages = p.free_pages + p.used_pages
    BY <1>a, <1>4, <1>5, <1>7 DEF PmmState
  <1>14. AfterUsed(p, S, q)
    BY <1>3, <1>7, <1>10, <1>12, <1>13 DEF AfterUsed, Counted, SameMemory
  <1>15. QED BY <1>0, <1>14

(* What pmm_mark_page_free does to a consistent state.                     *)
LEMMA MarkFreeFacts ==
    ASSUME NEW p, Counted(p), p.bitmap_bits = p.total_pages, HintOK(p),
           NEW S, S \subseteq Nat
    PROVE  AfterFree(p, Freeable(p, S), pmm_mark_page_free(p, S))
  <1>0. PICK new : new = Freeable(p, S)
    OBVIOUS
  <1>b. PICK q : q = pmm_mark_page_free(p, S)
    OBVIOUS
  <1>a. PmmOK(p) /\ p.free_pages = Cardinality(FreePages(p))
    BY DEF Counted
  <1>1. /\ FreePages(p) \subseteq 0..(p.total_pages - 1)
        /\ FreePages(p) \subseteq Nat
        /\ IsFiniteSet(FreePages(p))
        /\ FreePages(p) = {g \in 0..(p.bitmap_bits - 1) : g \notin p.bitmap}
    BY <1>a, FreeFinite
  <1>2. p \in PmmState /\ p.total_pages \in Nat /\ p.next_free_page \in Nat
        /\ p.used_pages \in Nat /\ p.free_pages \in Nat
    BY <1>a DEF PmmOK, PmmState
  <1>3. \A g : g \in new <=>
                 g \in S /\ g \in Nat /\ g # 0 /\ g < p.total_pages /\ g \in p.bitmap
    <2>1. \A g : g \in new <=> g \in S /\ g # 0 /\ g < p.total_pages /\ bitmap_test(p, g)
      BY <1>0 DEF Freeable
    <2>2. \A g \in Nat : g < p.total_pages => (bitmap_test(p, g) <=> g \in p.bitmap)
      BY <1>2 DEF bitmap_test
    <2>3. \A g \in S : g \in Nat
      OBVIOUS
    <2>4. QED BY <2>1, <2>2, <2>3, Zenon
  <1>4. new \subseteq 0..(p.total_pages - 1) /\ new \subseteq Nat
    <2>1. \A g \in new : g \in Nat /\ g < p.total_pages
      BY <1>3, Zenon
    <2>2. QED BY <1>2, <2>1
  <1>5. new \cap FreePages(p) = {}
    BY <1>1, <1>3
  <1>6. IsFiniteSet(new) /\ Cardinality(new) \in Nat
    <2>0. p.total_pages - 1 \in Int
      BY <1>2
    <2>1. IsFiniteSet(0..(p.total_pages - 1))
      BY <2>0, FS_Interval
    <2>2. IsFiniteSet(new)
      BY <1>4, <2>1, FS_Subset
    <2>3. QED BY <2>2, FS_CardinalityType
  <1>7. PICK sum : sum = FreePages(p) \cup new
    OBVIOUS
  <1>8. Cardinality(sum) = Cardinality(FreePages(p)) + Cardinality(new)
    <2>1. IsFiniteSet(sum)
      BY <1>1, <1>6, <1>7, FS_Union
    <2>2. sum \cap new = new /\ sum \ new = FreePages(p)
      BY <1>5, <1>7
    <2>3. Cardinality(sum) = Cardinality(sum \cap new) + Cardinality(sum \ new)
      BY <2>1, CardSplit
    <2>4. Cardinality(sum) = Cardinality(new) + Cardinality(FreePages(p))
      BY <2>2, <2>3, Zenon
    <2>5. QED BY <1>a, <1>2, <1>6, <2>4
  <1>9. q = [p EXCEPT !.bitmap = p.bitmap \ new,
                      !.free_pages = p.free_pages + Cardinality(new),
                      !.used_pages = Minus(p.used_pages, Cardinality(new)),
                      !.next_free_page = Hint(p, new)]
    BY <1>0, <1>b DEF pmm_mark_page_free
  <1>10. /\ q.bitmap = p.bitmap \ new
         /\ q.free_pages = p.free_pages + Cardinality(new)
         /\ q.used_pages = Minus(p.used_pages, Cardinality(new))
         /\ q.total_pages = p.total_pages /\ q.bitmap_bits = p.bitmap_bits
         /\ q.next_free_page = Hint(p, new)
    BY <1>2, <1>9 DEF PmmState
  <1>11. /\ Hint(p, new) \in {p.next_free_page} \cup new
         /\ \A y \in {p.next_free_page} \cup new : Hint(p, new) <= y
    BY <1>2, <1>4, LowestFacts DEF Hint
  <1>12. Hint(p, new) \in Nat /\ Hint(p, new) <= p.next_free_page
    BY <1>2, <1>4, <1>11
  <1>13. q \in PmmState
    <2>1. q.bitmap \subseteq Nat
      BY <1>2, <1>10 DEF PmmState
    <2>2. q.free_pages \in Nat /\ q.used_pages \in Nat
      BY <1>2, <1>6, <1>10 DEF Minus
    <2>3. QED BY <1>2, <1>9, <1>10, <1>12, <2>1, <2>2 DEF PmmState
  <1>14. PmmOK(q)
    BY <1>a, <1>2, <1>10, <1>12, <1>13 DEF PmmOK
  <1>15. FreePages(q) = {g \in 0..(q.bitmap_bits - 1) : g \notin q.bitmap}
    BY <1>14, FreeFinite
  <1>16. FreePages(q) = sum
    BY <1>1, <1>4, <1>7, <1>10, <1>15
  <1>17. HintOK(q)
    <2> SUFFICES ASSUME NEW g \in FreePages(p) \cup new
                 PROVE  Hint(p, new) <= g
      BY <1>7, <1>10, <1>16 DEF HintOK
    <2>1. CASE g \in new
      BY <2>1, <1>11
    <2>2. CASE g \in FreePages(p)
      BY <2>2, <1>1, <1>2, <1>12 DEF HintOK
    <2>3. QED BY <2>1, <2>2
  <1>18. q.free_pages = Cardinality(FreePages(q))
    BY <1>a, <1>8, <1>10, <1>16
  <1>19. AfterFree(p, new, q)
    BY <1>5, <1>6, <1>7, <1>10, <1>14, <1>16, <1>17, <1>18
       DEF AfterFree, Counted, SameMemory
  <1>20. QED BY <1>0, <1>b, <1>19

(* pmm_seek_next_free_page only moves the hint, and not past a free page.  *)
LEMMA SeekFacts ==
    ASSUME NEW p, PmmOK(p), HintOK(p)
    PROVE  AfterSeek(p, pmm_seek_next_free_page(p))
  <1>0. PICK q : q = pmm_seek_next_free_page(p)
    OBVIOUS
  <1>1. /\ FreePages(p) \subseteq 0..(p.total_pages - 1)
        /\ FreePages(p) \subseteq Nat
    BY FreeFinite
  <1>2. p \in PmmState /\ p.total_pages \in Nat /\ p.next_free_page \in Nat
        /\ p.next_free_page <= p.total_pages
    BY DEF PmmOK, PmmState
  <1>3. PICK hint : hint = IF p.next_free_page >= p.total_pages
                           THEN p.next_free_page
                           ELSE Lowest({page \in FreePages(p) : page >= p.next_free_page}
                                         \cup {p.total_pages})
    OBVIOUS
  <1>4. q = [p EXCEPT !.next_free_page = hint]
    BY <1>0, <1>3 DEF pmm_seek_next_free_page
  <1>5. hint \in Nat /\ hint <= p.total_pages /\ \A g \in FreePages(p) : hint <= g
    <2>1. CASE p.next_free_page >= p.total_pages
      BY <2>1, <1>2, <1>3 DEF HintOK
    <2>2. CASE ~(p.next_free_page >= p.total_pages)
      <3>1. PICK T : T = {page \in FreePages(p) : page >= p.next_free_page}
                           \cup {p.total_pages}
        OBVIOUS
      <3>2. T \subseteq Nat /\ T # {} /\ p.total_pages \in T
        BY <1>1, <1>2, <3>1
      <3>3. Lowest(T) \in T /\ \A y \in T : Lowest(T) <= y
        BY <3>2, LowestFacts
      <3>4. hint = Lowest(T)
        BY <1>3, <2>2, <3>1
      <3>5. FreePages(p) \subseteq T
        BY <1>1, <1>2, <3>1 DEF HintOK
      <3>6. QED BY <3>2, <3>3, <3>4, <3>5
    <2>3. QED BY <2>1, <2>2
  <1>6. /\ q.bitmap = p.bitmap /\ q.next_free_page = hint
        /\ q.free_pages = p.free_pages /\ q.used_pages = p.used_pages
        /\ q.total_pages = p.total_pages /\ q.bitmap_bits = p.bitmap_bits
        /\ q \in PmmState
    BY <1>2, <1>4, <1>5 DEF PmmState
  <1>7. FreePages(q) = FreePages(p)
    BY <1>6 DEF FreePages, bitmap_test
  <1>8. PmmOK(q)
    BY <1>5, <1>6 DEF PmmOK
  <1>9. AfterSeek(p, q)
    BY <1>5, <1>6, <1>7, <1>8 DEF HintOK, AfterSeek, SameMemory
  <1>10. QED BY <1>0, <1>9

-----------------------------------------------------------------------------
(* pmm_init.                                                               *)

(* The highest usable address exists.                                      *)
LEMMA HighestFacts ==
    ASSUME NEW map, LimineMap(map)
    PROVE  highest_address(map) \in Nat
  <1>1. PICK ends : ends = {e.base + e.length : e \in {f \in map : f.type = USABLE}}
    OBVIOUS
  <1>2. \A x \in ends : x \in Nat /\ x <= PHYS_LIMIT
    BY <1>1, PmmAssumption DEF LimineMap, Entry
  <1>3. PICK bounds : bounds = {n \in Nat : \A x \in ends : x <= n}
    OBVIOUS
  <1>4. bounds \subseteq Nat /\ bounds # {}
    BY <1>2, <1>3, PmmAssumption
  <1>5. PICK h : h = Lowest(bounds)
    OBVIOUS
  <1>6. h \in bounds /\ \A n \in bounds : h <= n
    BY <1>4, <1>5, LowestFacts
  <1>7. h \in Nat /\ \A x \in ends : x <= h
    BY <1>3, <1>6
  <1>8. h \in ends \cup {0}
    <2> SUFFICES ASSUME h \notin ends, h # 0 PROVE FALSE
      OBVIOUS
    <2>1. h - 1 \in Nat /\ \A x \in ends : x <= h - 1
      BY <1>2, <1>7
    <2>2. h - 1 \in bounds
      BY <1>3, <2>1
    <2>3. QED BY <1>6, <1>7, <2>2
  <1>9. highest_address(map) =
           CHOOSE n \in ends \cup {0} : \A x \in ends : x <= n
    BY <1>1 DEF highest_address
  <1>10. highest_address(map) \in ends \cup {0}
    BY <1>7, <1>8, <1>9
  <1>11. QED BY <1>2, <1>10

(* Rounding a length up to pages.                                          *)
LEMMA DivFacts ==
    ASSUME NEW a \in Nat
    PROVE  /\ a \div PMM_PAGE_SIZE \in Nat
           /\ PMM_PAGE_SIZE * (a \div PMM_PAGE_SIZE) <= a
           /\ a < PMM_PAGE_SIZE * (a \div PMM_PAGE_SIZE) + PMM_PAGE_SIZE
           /\ a % PMM_PAGE_SIZE = 0 => a = PMM_PAGE_SIZE * (a \div PMM_PAGE_SIZE)
  BY PmmAssumption

(* pmm_region_page_count rounds up, and is exact for whole pages.          *)
LEMMA CountFacts ==
    ASSUME NEW length \in Nat
    PROVE  /\ pmm_region_page_count(length) \in Nat
           /\ length % PMM_PAGE_SIZE = 0 =>
                 PMM_PAGE_SIZE * pmm_region_page_count(length) = length
  <1>1. PMM_PAGE_SIZE \in Nat /\ PMM_PAGE_SIZE >= 1
    BY PmmAssumption
  <1>2. CASE length = 0
    BY <1>1, <1>2 DEF pmm_region_page_count
  <1>3. CASE length # 0
    <2>1. length + PMM_PAGE_SIZE - 1 \in Nat
      BY <1>1
    <2>2. pmm_region_page_count(length) = (length + PMM_PAGE_SIZE - 1) \div PMM_PAGE_SIZE
      BY <1>3 DEF pmm_region_page_count
    <2>3. PICK c : c = (length + PMM_PAGE_SIZE - 1) \div PMM_PAGE_SIZE
      OBVIOUS
    <2>4. /\ c \in Nat
          /\ PMM_PAGE_SIZE * c <= length + PMM_PAGE_SIZE - 1
          /\ length + PMM_PAGE_SIZE - 1 < PMM_PAGE_SIZE * c + PMM_PAGE_SIZE
      BY <2>1, <2>3, DivFacts
    <2>5. ASSUME length % PMM_PAGE_SIZE = 0
          PROVE  PMM_PAGE_SIZE * c = length
      <3>1. PICK d \in Nat : length = PMM_PAGE_SIZE * d
        BY <2>5, DivFacts
      <3>2. c = d
        BY <1>1, <2>4, <3>1
      <3>3. QED BY <3>1, <3>2
    <2>6. QED BY <2>2, <2>3, <2>4, <2>5
  <1>4. QED BY <1>2, <1>3

(* The pages of the usable entries lie within usable memory: an aligned    *)
(* entry is rounded neither up nor down.                                   *)
LEMMA UsableIsSafe ==
    ASSUME NEW map, LimineMap(map), NEW p, p.total_pages \in Nat,
           NEW g, g \in RegionsOf(p, map, {USABLE}), g # 0
    PROVE  g \in Nat /\ g < p.total_pages /\ Safe(map, g)
  <1> DEFINE P == PMM_PAGE_SIZE
  <1>1. PICK e \in map : e.type = USABLE /\ g \in Region(p, e.base, e.length)
    BY DEF RegionsOf
  <1>2. /\ e.base \in Nat /\ e.length \in Nat
        /\ e.base % P = 0 /\ e.length % P = 0
        /\ \A f \in map : f # e => Bytes(e) \cap Bytes(f) = {}
    BY <1>1 DEF LimineMap, Entry
  <1>3. PICK k : k = e.base \div P
    OBVIOUS
  <1>4. PICK n : n = pmm_region_page_count(e.length)
    OBVIOUS
  <1>5. k \in Nat /\ e.base = P * k
    BY <1>2, <1>3, DivFacts
  <1>6. n \in Nat /\ e.length = P * n
    BY <1>2, <1>4, CountFacts
  <1>7. g \in k..(k + n - 1) /\ g < p.total_pages
    BY <1>1, <1>3, <1>4 DEF Region, pmm_clamp_page_count, pmm_address_to_page
  <1>8. g \in Nat /\ k <= g /\ g + 1 <= k + n
    BY <1>5, <1>6, <1>7
  <1>9. P \in Nat /\ P >= 1
    BY PmmAssumption
  <1>10. P * k <= g * P /\ g * P + P <= P * k + P * n
    <2>1. PICK d \in Nat : g = k + d
      BY <1>5, <1>8
    <2>2. g * P = P * k + P * d
      BY <1>5, <1>9, <2>1
    <2>3. PICK r \in Nat : n = d + 1 + r
      BY <1>5, <1>6, <1>8, <2>1
    <2>4. P * n = P * d + P + P * r
      BY <1>9, <2>3
    <2>5. P * d \in Nat /\ P * r \in Nat /\ P * k \in Nat
      BY <1>5, <1>9
    <2>6. QED BY <1>9, <2>2, <2>4, <2>5
  <1>11. ASSUME NEW b \in (g * P)..(g * P + P - 1)
         PROVE  /\ b \in Bytes(e)
                /\ \A f \in map : f.type # USABLE => b \notin Bytes(f)
                /\ b \notin Bytes(KernelImage)
    <2>1. e.base <= b /\ b <= e.base + e.length - 1 /\ b \in Int
      <3>1. g * P \in Nat
        BY <1>8, <1>9
      <3>2. QED BY <1>2, <1>5, <1>6, <1>9, <1>10, <3>1
    <2>2. b \in Bytes(e)
      BY <1>2, <2>1 DEF Bytes
    <2>3. \A f \in map : f.type # USABLE => b \notin Bytes(f)
      <3> SUFFICES ASSUME NEW f \in map, f.type # USABLE PROVE b \notin Bytes(f)
        OBVIOUS
      <3>1. f # e
        BY <1>1
      <3>2. Bytes(e) \cap Bytes(f) = {}
        BY <1>2, <3>1
      <3>3. QED BY <2>2, <3>2
    <2>4. b \notin Bytes(KernelImage)
      BY <2>3 DEF LimineMap
    <2>5. QED BY <2>2, <2>3, <2>4
  <1>12. Safe(map, g)
    BY <1>1, <1>11 DEF Safe
  <1>13. QED BY <1>7, <1>8, <1>12

(* The state pmm_init leaves.                                              *)
LEMMA BootFacts ==
    ASSUME NEW map, LimineMap(map), NEW p, p = Booted(map)
    PROVE  /\ PmmOK(p) /\ HintOK(p)
           /\ p.bitmap_bits # 0 =>
                 /\ p.free_pages = Cardinality(FreePages(p))
                 /\ p.free_pages + p.used_pages =
                       Cardinality(RegionsOf(p, map, {USABLE}) \ {0})
                 /\ FreePages(p) \subseteq RegionsOf(p, map, {USABLE}) \ {0}
           /\ p.bitmap_bits = 0 => p.free_pages = 0 /\ FreePages(p) = {}
  <1>1. PICK total : total = pmm_region_page_count(highest_address(map))
    OBVIOUS
  <1>2. total \in Nat
    BY <1>1, HighestFacts, CountFacts
  <1>3. CASE total > PMM_BITMAP_MAX_BITS
    <2>1. p = [Zero EXCEPT !.total_pages = total]
      BY <1>1, <1>3 DEF Booted
    <2>2. PmmOK(p) /\ p.bitmap_bits = 0 /\ p.free_pages = 0
      BY <1>2, <2>1 DEF PmmOK, PmmState, Zero
    <2>3. FreePages(p) = {}
      BY <2>2, FreeFinite
    <2>4. QED BY <2>2, <2>3 DEF HintOK
  <1>4. CASE ~(total > PMM_BITMAP_MAX_BITS)
    <2>1. PICK all : all = AllUsed(total)
      OBVIOUS
    <2>2. PmmOK(all) /\ all.bitmap_bits = total /\ all.total_pages = total
          /\ all.free_pages = 0 /\ all.used_pages = 0 /\ all.bitmap = 0..(total - 1)
      <3>1. all = [total_pages |-> total, bitmap_bits |-> total,
                   bitmap |-> 0..(total - 1), free_pages |-> 0,
                   used_pages |-> 0, next_free_page |-> 0]
        BY <2>1 DEF AllUsed, Zero
      <3>2. 0..(total - 1) \subseteq Nat
        BY <1>2
      <3>3. all \in PmmState
        BY <1>2, <3>1, <3>2 DEF PmmState
      <3>4. QED BY <1>2, <3>1, <3>3 DEF PmmOK
    <2>3. FreePages(all) = {}
      BY <2>2, FreeFinite
    <2>4. HintOK(all) /\ Counted(all)
      BY <2>2, <2>3, FS_EmptySet DEF HintOK, Counted
    <2>5. PICK R : R = RegionsOf(all, map, {USABLE})
      OBVIOUS
    <2>6. \A g \in R : g \in Nat /\ g < total
      <3> SUFFICES ASSUME NEW g \in R PROVE g \in Nat /\ g < total
        OBVIOUS
      <3>1. PICK e \in map : e.type = USABLE /\ g \in Region(all, e.base, e.length)
        BY <2>5 DEF RegionsOf
      <3>2. e.base \in Nat /\ e.length \in Nat
        BY <3>1 DEF LimineMap, Entry
      <3>3. /\ e.base \div PMM_PAGE_SIZE \in Nat
            /\ pmm_region_page_count(e.length) \in Nat
        BY <3>2, DivFacts, CountFacts
      <3>4. QED
        BY <2>2, <3>1, <3>3 DEF Region, pmm_clamp_page_count, pmm_address_to_page
    <2>7. PICK new : new = Freeable(all, R)
      OBVIOUS
    <2>8. new = R \ {0}
      <3>1. \A g \in R : bitmap_test(all, g)
        BY <1>2, <2>2, <2>6 DEF bitmap_test
      <3>2. QED BY <2>2, <2>6, <2>7, <3>1 DEF Freeable
    <2>9. PICK usable : usable = pmm_mark_page_free(all, R)
      OBVIOUS
    <2>10. AfterFree(all, new, usable)
      <3>1. R \subseteq Nat
        BY <2>6
      <3>2. all.bitmap_bits = all.total_pages
        BY <2>2
      <3>3. QED BY <2>4, <2>7, <2>9, <3>1, <3>2, MarkFreeFacts, Zenon
    <2>11. usable.free_pages + usable.used_pages = Cardinality(new)
      <3>1. Cardinality(new) \in Nat
        BY <2>10, FS_CardinalityType DEF AfterFree
      <3>2. QED BY <2>2, <2>10, <3>1 DEF Minus, AfterFree
    <2>12. PICK taken : p = pmm_seek_next_free_page(pmm_mark_page_used(usable, taken))
      BY <1>1, <1>4, <2>1, <2>5, <2>9 DEF Booted
    <2>13. PICK q : q = pmm_mark_page_used(usable, taken)
      OBVIOUS
    <2>14. AfterUsed(usable, taken, q)
      <3>1. Counted(usable)
        BY <2>10 DEF AfterFree
      <3>2. QED BY <2>13, <3>1, MarkUsedFacts, Zenon
    <2>15. HintOK(q) /\ PmmOK(q)
      BY <2>10, <2>14 DEF HintOK, AfterUsed, AfterFree, Counted
    <2>16. AfterSeek(q, p)
      BY <2>12, <2>13, <2>15, SeekFacts, Zenon
    <2>17. RegionsOf(p, map, {USABLE}) = R
      <3>1. p.total_pages = all.total_pages
        BY <2>10, <2>14, <2>16 DEF AfterFree, AfterUsed, AfterSeek, SameMemory
      <3>2. QED BY <2>5, <3>1 DEF RegionsOf, Region, pmm_clamp_page_count
    <2>18. p.free_pages + p.used_pages = Cardinality(R \ {0})
      BY <2>8, <2>11, <2>14, <2>16 DEF AfterUsed, AfterSeek
    <2>19. FreePages(p) \subseteq R \ {0}
      BY <2>3, <2>8, <2>10, <2>14, <2>16 DEF AfterFree, AfterUsed, AfterSeek
    <2>20. PmmOK(p) /\ HintOK(p) /\ p.free_pages = Cardinality(FreePages(p))
      BY <2>14, <2>16 DEF AfterUsed, AfterSeek, Counted
    <2>21. p.bitmap_bits = 0 => p.free_pages = 0 /\ FreePages(p) = {}
      BY <2>20, FreeFinite, FS_EmptySet
    <2>22. QED BY <2>17, <2>18, <2>19, <2>20, <2>21, Zenon
  <1>5. QED BY <1>3, <1>4

-----------------------------------------------------------------------------
(* The inductive invariant.                                                *)

(* The zero-initialised statics satisfy the invariant.                     *)
LEMMA InitEstablishes == Init => IInv
  <1> SUFFICES ASSUME Init PROVE IInv
    OBVIOUS
  <1>1. PmmOK(pmm) /\ pmm.bitmap_bits = 0 /\ pmm.free_pages = 0
    BY DEF Init, Zero, PmmOK, PmmState
  <1>2. FreePages(pmm) = {}
    BY <1>1, FreeFinite
  <1>3. QED BY <1>1, <1>2 DEF Init, IInv, TypeOK, Counters, OnlySafePages, HintOK

(* pmm_init establishes the invariant from any map of the boot loader,     *)
(* also when it returns early because the bitmap is too small.             *)
LEMMA BootPreserves ==
    ASSUME IInv, NEW map \in MemMaps, pmm_init(map)
    PROVE  IInv'
  <1>1. LimineMap(map)
    BY PmmAssumption
  <1>2. /\ PmmOK(pmm') /\ HintOK(pmm')
        /\ pmm'.bitmap_bits # 0 =>
              /\ pmm'.free_pages = Cardinality(FreePages(pmm'))
              /\ pmm'.free_pages + pmm'.used_pages =
                    Cardinality(RegionsOf(pmm', map, {USABLE}) \ {0})
              /\ FreePages(pmm') \subseteq RegionsOf(pmm', map, {USABLE}) \ {0}
        /\ pmm'.bitmap_bits = 0 => pmm'.free_pages = 0 /\ FreePages(pmm') = {}
    BY <1>1, BootFacts DEF pmm_init
  <1>3. held = {} /\ held' = {}
    <2>1. pmm.bitmap_bits = 0
      BY DEF IInv, pmm_init
    <2>2. QED BY <2>1 DEF IInv, pmm_init
  <1>4. memmap' = map /\ map # NULL
    BY PmmAssumption DEF pmm_init
  <1>5. \A g \in FreePages(pmm') : Safe(map, g)
    <2>1. pmm'.total_pages \in Nat
      BY <1>2 DEF PmmOK, PmmState
    <2>2. QED BY <1>1, <1>2, <2>1, UsableIsSafe
  <1>6. TypeOK' /\ Counters' /\ OnlySafePages'
    BY <1>2, <1>3, <1>4, <1>5 DEF TypeOK, Counters, OnlySafePages, Managed
  <1>7. QED BY <1>2, <1>3, <1>4, <1>6 DEF IInv, Managed

(* The usable pages are within memory, so there are finitely many.         *)
LEMMA ManagedBounded ==
    ASSUME TypeOK, memmap # NULL
    PROVE  Managed \subseteq 0..(pmm.total_pages - 1)
  <1>1. pmm.total_pages \in Nat
    BY DEF TypeOK, PmmOK, PmmState
  <1>2. LimineMap(memmap)
    BY PmmAssumption DEF TypeOK
  <1>3. \A g \in Managed : g \in Nat /\ g < pmm.total_pages
    BY <1>1, <1>2, UsableIsSafe DEF Managed
  <1>4. QED BY <1>1, <1>3

(* The pages of S, those of them that are free, go to a caller.            *)
LEMMA TakePreserves ==
    ASSUME IInv, NEW S, NEW p, AfterUsed(pmm, S, p),
           SameMemory(p, pmm'), PmmOK(pmm'), HintOK(pmm'),
           FreePages(pmm') = FreePages(p),
           pmm'.free_pages = p.free_pages, pmm'.used_pages = p.used_pages,
           held' = held \cup (S \cap FreePages(pmm)), memmap' = memmap
    PROVE  IInv'
  <1>1. SameMemory(pmm, pmm')
    BY DEF AfterUsed, SameMemory
  <1>2. Managed' = Managed
    BY <1>1 DEF SameMemory, Managed, RegionsOf, Region, pmm_clamp_page_count
  <1>3. FreePages(pmm) \subseteq 0..(pmm.total_pages - 1)
    BY FreeFinite DEF IInv, TypeOK
  <1>4. CASE pmm.bitmap_bits = 0
    <2>1. FreePages(pmm) = {}
      BY <1>4, FreeFinite DEF IInv, TypeOK
    <2>2. FreePages(pmm') = {}
      BY <1>1, <1>4, FreeFinite DEF SameMemory
    <2>3. pmm'.free_pages = 0
      BY <2>2, FS_EmptySet DEF AfterUsed, Counted
    <2>4. held = {} /\ held' = {}
      BY <1>4, <2>1 DEF IInv
    <2>5. QED
      BY <1>1, <1>4, <2>2, <2>3, <2>4
         DEF IInv, TypeOK, Counters, OnlySafePages, SameMemory
  <1>5. CASE pmm.bitmap_bits # 0
    <2>2. FreePages(pmm') = FreePages(pmm) \ S
      BY DEF AfterUsed
    <2>3. Counters'
      <3>1. pmm'.free_pages = Cardinality(FreePages(pmm'))
        BY DEF AfterUsed, Counted
      <3>2. pmm'.free_pages + pmm'.used_pages = Cardinality(Managed)
        BY <1>5 DEF AfterUsed, IInv, Counters
      <3>3. QED BY <1>2, <3>1, <3>2 DEF Counters
    <2>4. TypeOK'
      BY <1>1, <1>3 DEF IInv, TypeOK, SameMemory
    <2>5. OnlySafePages'
      BY <2>2 DEF IInv, OnlySafePages
    <2>6. FreePages(pmm') \cup held' \subseteq Managed
      BY <1>5, <2>2 DEF IInv
    <2>7. QED
      BY <1>1, <1>2, <1>5, <2>3, <2>4, <2>5, <2>6 DEF IInv, SameMemory
  <1>6. QED BY <1>4, <1>5

(* In every state of the invariant free_pages counts the clear bits.       *)
LEMMA PmmCounted == IInv => Counted(pmm)
  <1> SUFFICES ASSUME IInv PROVE Counted(pmm)
    OBVIOUS
  <1>1. PmmOK(pmm)
    BY DEF IInv, TypeOK
  <1>2. CASE pmm.bitmap_bits = 0
    BY <1>1, <1>2, FreeFinite, FS_EmptySet DEF IInv, Counted
  <1>3. CASE pmm.bitmap_bits # 0
    BY <1>1, <1>3 DEF IInv, Counters, Counted
  <1>4. QED BY <1>2, <1>3

(* The loops of pmm_reserve_region and pmm_lock_pages keep the invariant   *)
(* and take exactly the free pages among theirs.                           *)
LEMMA LockPreserves ==
    ASSUME IInv, NEW S, Take(S)
    PROVE  IInv' /\ FreePages(pmm') = FreePages(pmm) \ S
  <1>1. PICK p : p = pmm_mark_page_used(pmm, S)
    OBVIOUS
  <1>2. AfterUsed(pmm, S, p)
    BY <1>1, PmmCounted, MarkUsedFacts
  <1>3. PmmOK(p) /\ HintOK(p) /\ SameMemory(p, p)
    BY <1>2 DEF AfterUsed, Counted, IInv, HintOK, SameMemory
  <1>4. pmm' = p /\ held' = held \cup (S \cap FreePages(pmm)) /\ memmap' = memmap
    BY <1>1 DEF Take
  <1>5. IInv'
    BY <1>2, <1>3, <1>4, TakePreserves
  <1>6. FreePages(p) = FreePages(pmm) \ S
    BY <1>2 DEF AfterUsed
  <1>7. QED BY <1>4, <1>5, <1>6

(* What pmm_alloc_page finds: the lowest free page, if there is one.       *)
LEMMA ResultFacts ==
    ASSUME IInv
    PROVE  /\ Result(pmm) = NULL <=> FreePages(pmm) = {}
           /\ Result(pmm) # NULL =>
                 /\ Result(pmm) \in FreePages(pmm)
                 /\ \A page \in FreePages(pmm) : Result(pmm) <= page
  <1>1. PmmOK(pmm) /\ pmm.free_pages = Cardinality(FreePages(pmm))
    BY PmmCounted DEF Counted
  <1>2. FreePages(pmm) \subseteq Nat /\ IsFiniteSet(FreePages(pmm))
    BY <1>1, FreeFinite
  <1>3. pmm.free_pages = 0 <=> FreePages(pmm) = {}
    BY <1>1, <1>2, FS_EmptySet
  <1>4. pmm.next_free_page \in Nat
    BY <1>1 DEF PmmOK, PmmState
  <1>5. Found(pmm) = FreePages(pmm)
    BY <1>2, <1>4 DEF Found, IInv, HintOK
  <1>6. CASE FreePages(pmm) = {}
    BY <1>3, <1>6 DEF Result
  <1>7. CASE FreePages(pmm) # {}
    <2>1. Result(pmm) = Lowest(FreePages(pmm))
      BY <1>3, <1>5, <1>7 DEF Result
    <2>2. /\ Lowest(FreePages(pmm)) \in FreePages(pmm)
          /\ \A y \in FreePages(pmm) : Lowest(FreePages(pmm)) <= y
      BY <1>2, <1>7, LowestFacts
    <2>3. QED BY <1>2, <1>7, <2>1, <2>2, PmmAssumption
  <1>8. QED BY <1>6, <1>7

(* A successful pmm_alloc_page keeps the invariant, whether its hint moves *)
(* on, wraps to 0 or runs to the end of memory.                            *)
LEMMA AllocPreserves ==
    ASSUME IInv, pmm_alloc_page, Result(pmm) # NULL
    PROVE  IInv' /\ FreePages(pmm') = FreePages(pmm) \ {Result(pmm)}
  <1>1. PICK page : page = Result(pmm)
    OBVIOUS
  <1>2. page \in FreePages(pmm) /\ \A g \in FreePages(pmm) : page <= g
    BY <1>1, ResultFacts DEF pmm_alloc_page
  <1>3. PICK used : used = pmm_mark_page_used(pmm, {page})
    OBVIOUS
  <1>4. AfterUsed(pmm, {page}, used)
    BY <1>3, PmmCounted, MarkUsedFacts
  <1>5. PICK next : next = IF page + 1 >= pmm.total_pages THEN 0 ELSE page + 1
    OBVIOUS
  <1>6. PICK p : p = [used EXCEPT !.next_free_page = next]
    OBVIOUS
  <1>7. PmmOK(pmm) /\ PmmOK(used) /\ used.total_pages = pmm.total_pages
    BY <1>4, PmmCounted DEF AfterUsed, Counted, SameMemory
  <1>8. pmm.total_pages \in Nat /\ used \in PmmState
    BY <1>7 DEF PmmOK, PmmState
  <1>9. FreePages(pmm) \subseteq Nat /\ page \in Nat
    BY <1>2, <1>7, FreeFinite
  <1>10. next \in Nat /\ next <= pmm.total_pages /\ next <= page + 1
    BY <1>5, <1>8, <1>9
  <1>11. /\ p \in PmmState /\ p.next_free_page = next /\ p.bitmap = used.bitmap
         /\ p.free_pages = used.free_pages /\ p.used_pages = used.used_pages
         /\ p.total_pages = used.total_pages /\ p.bitmap_bits = used.bitmap_bits
    BY <1>6, <1>8, <1>10 DEF PmmState
  <1>12. FreePages(p) = FreePages(used)
    BY <1>11 DEF FreePages, bitmap_test
  <1>13. FreePages(used) = FreePages(pmm) \ {page}
    BY <1>4 DEF AfterUsed
  <1>14. PmmOK(p)
    BY <1>7, <1>10, <1>11 DEF PmmOK
  <1>15. HintOK(p)
    <2> SUFFICES ASSUME NEW g \in FreePages(pmm), g # page PROVE next <= g
      BY <1>11, <1>12, <1>13 DEF HintOK
    <2>1. g \in Nat /\ page <= g
      BY <1>2, <1>9
    <2>2. QED BY <1>9, <1>10, <2>1
  <1>16. pmm' = pmm_seek_next_free_page(p)
    BY <1>1, <1>3, <1>5, <1>6 DEF pmm_alloc_page
  <1>17. AfterSeek(p, pmm')
    BY <1>14, <1>15, <1>16, SeekFacts
  <1>18. /\ SameMemory(used, pmm') /\ PmmOK(pmm') /\ HintOK(pmm')
         /\ FreePages(pmm') = FreePages(used)
         /\ pmm'.free_pages = used.free_pages /\ pmm'.used_pages = used.used_pages
    BY <1>11, <1>12, <1>17 DEF AfterSeek, SameMemory
  <1>19. held' = held \cup ({page} \cap FreePages(pmm)) /\ memmap' = memmap
    BY <1>1, <1>2 DEF pmm_alloc_page
  <1>20. IInv'
    BY <1>4, <1>18, <1>19, TakePreserves
  <1>21. QED BY <1>1, <1>13, <1>18, <1>20

(* The loops of pmm_unreserve_region and pmm_unlock_pages keep the         *)
(* invariant and free all their pages.                                     *)
LEMMA GivePreserves ==
    ASSUME IInv, NEW S, Give(S)
    PROVE  IInv' /\ FreePages(pmm') = FreePages(pmm) \cup S
  <1>1. S \subseteq held /\ pmm' = pmm_mark_page_free(pmm, S)
        /\ held' = held \ S /\ memmap' = memmap
    BY DEF Give
  <1>2. PmmOK(pmm) /\ held \subseteq 0..(pmm.total_pages - 1)
    BY DEF IInv, TypeOK
  <1>3. pmm.total_pages \in Nat
    BY <1>2 DEF PmmOK, PmmState
  <1>4. CASE pmm.bitmap_bits = 0
    <2>1. S = {} /\ held = {}
      BY <1>1, <1>4 DEF IInv
    <2>2. Freeable(pmm, S) = {}
      BY <2>1 DEF Freeable
    <2>3. Cardinality({}) = 0
      BY FS_EmptySet
    <2>4. pmm.next_free_page \in Nat /\ pmm.used_pages \in Nat /\ pmm.free_pages \in Nat
      BY <1>2 DEF PmmOK, PmmState
    <2>5. Hint(pmm, {}) = pmm.next_free_page
      <3>1. {pmm.next_free_page} \cup {} = {pmm.next_free_page}
        OBVIOUS
      <3>2. Lowest({pmm.next_free_page}) \in {pmm.next_free_page}
        BY <2>4, LowestFacts
      <3>3. QED BY <3>1, <3>2 DEF Hint
    <2>6. pmm' = [pmm EXCEPT !.bitmap = pmm.bitmap \ {},
                             !.free_pages = pmm.free_pages + 0,
                             !.used_pages = Minus(pmm.used_pages, 0),
                             !.next_free_page = pmm.next_free_page]
      BY <1>1, <2>2, <2>3, <2>5 DEF pmm_mark_page_free
    <2>7. pmm' = pmm
      <3>1. pmm.bitmap \ {} = pmm.bitmap
        OBVIOUS
      <3>2. pmm.free_pages + 0 = pmm.free_pages /\ Minus(pmm.used_pages, 0) = pmm.used_pages
        BY <2>4 DEF Minus
      <3>3. PICK p \in PmmState : p = pmm
        BY <1>2 DEF PmmOK
      <3>4. [p EXCEPT !.bitmap = p.bitmap, !.free_pages = p.free_pages,
                      !.used_pages = p.used_pages,
                      !.next_free_page = p.next_free_page] = p
        BY <3>3 DEF PmmState
      <3>5. QED BY <2>6, <3>1, <3>2, <3>3, <3>4, Zenon
    <2>8. held' = held
      BY <1>1, <2>1
    <2>9. QED
      BY <1>1, <2>1, <2>7, <2>8
         DEF IInv, TypeOK, Counters, Managed, OnlySafePages
  <1>5. CASE pmm.bitmap_bits # 0
    <2>1. pmm.bitmap_bits = pmm.total_pages
      BY <1>2, <1>5 DEF PmmOK
    <2>2. FreePages(pmm) \cap held = {} /\ \A g \in held : g # 0
      BY DEF IInv, OnlySafePages, Safe
    <2>3. S \subseteq Nat
      BY <1>1, <1>2
    <2>4. Freeable(pmm, S) = S
      <3>1. \A g \in S : g \in 0..(pmm.total_pages - 1) /\ g # 0 /\ g \notin FreePages(pmm)
        BY <1>1, <1>2, <2>2
      <3>2. \A g \in S : bitmap_test(pmm, g)
        BY <3>1 DEF FreePages
      <3>3. QED BY <1>3, <3>1, <3>2 DEF Freeable
    <2>5. AfterFree(pmm, Freeable(pmm, S), pmm_mark_page_free(pmm, S))
      BY <2>1, <2>3, PmmCounted, MarkFreeFacts DEF IInv
    <2>6. AfterFree(pmm, S, pmm')
      BY <1>1, <2>4, <2>5
    <2>7. FreePages(pmm') = FreePages(pmm) \cup S /\ SameMemory(pmm, pmm')
      BY <2>6 DEF AfterFree
    <2>8. Managed' = Managed
      BY <1>1, <2>7 DEF SameMemory, Managed, RegionsOf, Region, pmm_clamp_page_count
    <2>9. pmm'.free_pages + pmm'.used_pages = Cardinality(Managed)
      <3>1. PICK n : n = Cardinality(S)
        OBVIOUS
      <3>2. /\ pmm'.free_pages = pmm.free_pages + n
            /\ pmm'.used_pages = Minus(pmm.used_pages, n)
            /\ pmm'.free_pages = Cardinality(FreePages(pmm'))
            /\ IsFiniteSet(S)
        BY <2>6, <3>1 DEF AfterFree, Counted
      <3>3. n \in Nat
        BY <3>1, <3>2, FS_CardinalityType
      <3>4. pmm.free_pages \in Nat /\ pmm.used_pages \in Nat
        BY <1>2 DEF PmmOK, PmmState
      <3>5. pmm.free_pages + pmm.used_pages = Cardinality(Managed)
        BY <1>5 DEF IInv, Counters
      <3>6. FreePages(pmm') \subseteq Managed
        BY <1>1, <1>5, <2>7 DEF IInv
      <3>7. IsFiniteSet(Managed)
        <4>1. Managed \subseteq 0..(pmm.total_pages - 1)
          BY <1>3, ManagedBounded, <1>5 DEF IInv
        <4>2. pmm.total_pages - 1 \in Int
          BY <1>3
        <4>3. IsFiniteSet(0..(pmm.total_pages - 1))
          BY <4>2, FS_Interval
        <4>4. QED BY <4>1, <4>3, FS_Subset
      <3>8. Cardinality(FreePages(pmm')) <= Cardinality(Managed)
        BY <3>6, <3>7, FS_Subset
      <3>9. QED BY <3>2, <3>3, <3>4, <3>5, <3>8 DEF Minus
    <2>10. Counters'
      BY <2>6, <2>8, <2>9 DEF Counters, AfterFree, Counted
    <2>11. TypeOK'
      BY <1>1, <1>2, <2>6, <2>7 DEF IInv, TypeOK, AfterFree, Counted, SameMemory
    <2>12. OnlySafePages'
      BY <1>1, <2>7 DEF IInv, OnlySafePages
    <2>13. FreePages(pmm') \cup held' \subseteq Managed /\ memmap' # NULL
      BY <1>1, <1>5, <2>7 DEF IInv
    <2>14. QED
      BY <1>5, <2>6, <2>7, <2>8, <2>10, <2>11, <2>12, <2>13
         DEF IInv, AfterFree, SameMemory
  <1>6. QED BY <1>4, <1>5

-----------------------------------------------------------------------------
(* Every call is a boot, an allocation, a Take or a Give of some pages.    *)
LEMMA NextCases ==
    Next => \/ \E map \in MemMaps : pmm_init(map)
            \/ pmm_alloc_page
            \/ \E S : Take(S)
            \/ \E S : Give(S)
  BY DEF Next, pmm_lock_page, pmm_free_page, pmm_lock_pages, pmm_unlock_pages,
         pmm_reserve_region, pmm_unreserve_region

(* A step that changes at most the returned value keeps the invariant.     *)
LEMMA SameState == IInv /\ UNCHANGED <<pmm, memmap, held>> => IInv'
  BY DEF IInv, TypeOK, Counters, OnlySafePages, Managed

(* Every call of mm/pmm.c keeps the inductive invariant.                   *)
LEMMA NextPreserves == IInv /\ [Next]_vars => IInv'
  <1> SUFFICES ASSUME IInv, Next PROVE IInv'
    BY SameState DEF vars
  <1>1. ASSUME NEW map \in MemMaps, pmm_init(map) PROVE IInv'
    BY <1>1, BootPreserves
  <1>2. CASE pmm_alloc_page
    <2>1. CASE Result(pmm) = NULL
      BY <1>2, <2>1, SameState DEF pmm_alloc_page
    <2>2. CASE Result(pmm) # NULL
      BY <1>2, <2>2, AllocPreserves
    <2>3. QED BY <2>1, <2>2
  <1>3. ASSUME NEW S, Take(S) PROVE IInv'
    BY <1>3, LockPreserves
  <1>4. ASSUME NEW S, Give(S) PROVE IInv'
    BY <1>4, GivePreserves
  <1>5. QED BY <1>1, <1>2, <1>3, <1>4, NextCases

(* The inductive invariant holds in every reachable state, for every       *)
(* memory map the boot loader may hand over and every page size.           *)
THEOREM Invariance == Spec => []IInv
  BY InitEstablishes, NextPreserves, PTL DEF Spec

(* The bitmap never covers memory that is not there, and the hint that     *)
(* pmm_alloc_page starts from never leaves memory.                         *)
THEOREM TypeCorrect == Spec => []TypeOK
  <1>1. IInv => TypeOK
    BY DEF IInv
  <1>2. QED BY <1>1, Invariance, PTL

(* The saturating counters of pmm_mark_page_used and pmm_mark_page_free    *)
(* always agree with the bitmap.                                           *)
THEOREM CountersCorrect == Spec => []Counters
  <1>1. IInv => Counters
    BY DEF IInv
  <1>2. QED BY <1>1, Invariance, PTL

(* The two passes of pmm_alloc_page find the lowest free page, and fail    *)
(* only if there is none.                                                  *)
THEOREM LowestFitCorrect == Spec => []LowestFit
  <1>1. IInv => LowestFit
    BY ResultFacts DEF LowestFit
  <1>2. QED BY <1>1, Invariance, PTL

(* pmm_init and the calls after it never make page 0, a byte of the kernel *)
(* or of memory that is not usable RAM allocatable, and no page twice.     *)
THEOREM SafeCorrect == Spec => []OnlySafePages
  <1>1. IInv => OnlySafePages
    BY DEF IInv
  <1>2. QED BY <1>1, Invariance, PTL

(* Every step of mm/pmm.c is a step of PageAllocator or changes nothing    *)
(* that it sees.                                                           *)
LEMMA NextRefines ==
    IInv /\ [Next]_vars => [A!Next]_(A!vars)
  <1> SUFFICES ASSUME IInv, [Next]_vars
               PROVE  \/ A!Next
                      \/ FreePages(pmm') = FreePages(pmm) /\ held' = held /\ ret' = ret
    BY DEF A!vars
  <1>1. CASE UNCHANGED vars
    BY <1>1 DEF vars
  <1>2. ASSUME NEW map \in MemMaps, pmm_init(map) PROVE A!Next
    <2>1. pmm.bitmap_bits = 0 /\ held = {}
      BY <1>2 DEF IInv, pmm_init
    <2>2. PmmOK(pmm) /\ PmmOK(pmm')
      BY <1>2, BootPreserves DEF IInv, TypeOK
    <2>3. FreePages(pmm) = {}
      BY <2>1, <2>2 DEF FreePages, bitmap_test, PmmOK, PmmState
    <2>4. FreePages(pmm') \subseteq Nat
      BY <2>2, FreeFinite
    <2>5. A!Boot
      BY <1>2, <2>1, <2>3, <2>4 DEF A!Boot, pmm_init
    <2>6. QED BY <2>5 DEF A!Next
  <1>3. CASE pmm_alloc_page /\ Result(pmm) = NULL
    <2>1. FreePages(pmm) = {}
      BY <1>3, ResultFacts
    <2>2. pmm' = pmm /\ held' = held /\ ret' = <<NULL>>
      BY <1>3 DEF pmm_alloc_page
    <2>3. A!AllocFails
      BY <2>1, <2>2 DEF A!AllocFails
    <2>4. QED BY <2>3 DEF A!Next
  <1>4. CASE pmm_alloc_page /\ Result(pmm) # NULL
    <2>1. PICK g : g = Result(pmm)
      OBVIOUS
    <2>2. g \in FreePages(pmm) /\ \A h \in FreePages(pmm) : g <= h
      BY <1>4, <2>1, ResultFacts
    <2>3. FreePages(pmm') = FreePages(pmm) \ {g}
      BY <1>4, <2>1, AllocPreserves
    <2>4. held' = held \cup {g} /\ ret' = <<g>>
      BY <1>4, <2>1 DEF pmm_alloc_page
    <2>5. A!Alloc(g)
      BY <2>2, <2>3, <2>4 DEF A!Alloc
    <2>6. QED BY <2>2, <2>5 DEF A!Next
  <1>5. ASSUME NEW S, Take(S) PROVE A!Next
    <2>1. PICK T : T = S \cap FreePages(pmm)
      OBVIOUS
    <2>2. FreePages(pmm') = FreePages(pmm) \ T
      BY <1>5, <2>1, LockPreserves
    <2>3. held' = held \cup T /\ ret' = <<>>
      BY <1>5, <2>1 DEF Take
    <2>4. A!Take(T) /\ T \in SUBSET FreePages(pmm)
      BY <2>1, <2>2, <2>3 DEF A!Take
    <2>5. QED BY <2>4 DEF A!Next
  <1>6. ASSUME NEW S, Give(S) PROVE A!Next
    <2>1. FreePages(pmm') = FreePages(pmm) \cup S
      BY <1>6, GivePreserves
    <2>2. A!Give(S) /\ S \in SUBSET held
      BY <1>6, <2>1 DEF Give, A!Give
    <2>3. QED BY <2>2 DEF A!Next
  <1>7. QED BY <1>1, <1>2, <1>3, <1>4, <1>5, <1>6, NextCases

(* The manager implements PageAllocator: it always hands out the lowest    *)
(* of a set of free pages fixed at boot, fails only when there is none,    *)
(* and takes back only what it gave.                                       *)
THEOREM Refinement == Spec => Allocator
  <1>1. Init => A!Init
    BY DEF Init, Zero, A!Init, FreePages, bitmap_test
  <1>2. QED BY <1>1, NextRefines, Invariance, PTL DEF Spec, Allocator, A!Spec
=============================================================================
