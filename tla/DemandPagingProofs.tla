------------------------- MODULE DemandPagingProofs -------------------------
(***************************************************************************)
(* Proofs about Vma and DemandPaging, for words, pages and tables of any   *)
(* size, any amount of memory and any arguments of the callers.            *)
(***************************************************************************)
EXTENDS DemandPaging, FiniteSetTheorems, WellFoundedInduction, TLAPS

(* No two areas of a table have an address in common.                      *)
Apart(table) ==
    \A i, j \in DOMAIN table : \A a \in Addr :
        Contains(table[i], a) /\ Contains(table[j], a) => i = j

(* A non-empty set of indices has a first one.                             *)
LEMMA FirstExists ==
    ASSUME NEW S, S \subseteq Nat, S # {}
    PROVE  \E n \in S : \A j \in S : n <= j
  <1>1. PICK n \in S : \A j \in S : ~(<<j, n>> \in OpToRel(<, Nat))
    BY WFMin, NatLessThanWellFounded, Zenon
  <1>2. \A j \in S : n <= j
    <2> TAKE j \in S
    <2>1. ~(j < n)
      BY <1>1 DEF OpToRel
    <2>2. QED BY <2>1
  <1>3. QED BY <1>2

(* A sum of addresses is an address: the addition wraps.                   *)
LEMMA EndOfType ==
    ASSUME NEW start \in Addr, NEW size \in Addr
    PROVE  EndOf(start, size) \in Addr
  BY VmaAssumption DEF EndOf, Addr

(* An area that passes the test of vma_create and vma_resize shares no     *)
(* address with the other one, wrapped or not.                             *)
LEMMA NoConflict ==
    ASSUME NEW new \in Area, NEW old \in Area,
           ~Conflict(new.start, new.end, old),
           NEW a \in Addr, Contains(new, a)
    PROVE  ~Contains(old, a)
  BY VmaAssumption DEF Conflict, Contains, Area, Addr

(* The index found by the search is that of an entry that starts there.    *)
LEMMA StartingAtFacts ==
    ASSUME NEW table \in Seq(Area), NEW start, StartingAt(table, start) # 0
    PROVE  /\ StartingAt(table, start) \in 1..Len(table)
           /\ table[StartingAt(table, start)].start = start
  <1> DEFINE hits == {i \in DOMAIN table : table[i].start = start}
  <1>1. StartingAt(table, start) =
          IF hits = {} THEN 0 ELSE CHOOSE i \in hits : \A j \in hits : i <= j
    BY DEF StartingAt
  <1>2. hits # {} /\ DOMAIN table = 1..Len(table)
    BY <1>1
  <1>3. hits \subseteq Nat
    BY <1>2
  <1> HIDE DEF hits
  <1>4. \E n \in hits : \A j \in hits : n <= j
    BY <1>2, <1>3, FirstExists
  <1>5. StartingAt(table, start) \in hits
    BY <1>1, <1>2, <1>4
  <1>6. QED BY <1>2, <1>5 DEF hits

-----------------------------------------------------------------------------
(* What the operations do to a table.                                      *)

(* vma_create keeps the table in bounds and its areas apart.               *)
LEMMA CreatedPreserves ==
    ASSUME NEW table \in Seq(Area), Len(table) <= VMA_MAX_COUNT, Apart(table),
           NEW start \in Addr, NEW size \in Addr, NEW demand \in BOOLEAN,
           NEW new, new = Created(table, start, size, demand)
    PROVE  new \in Seq(Area) /\ Len(new) <= VMA_MAX_COUNT /\ Apart(new)
  <1> DEFINE end == EndOf(start, size)
             area == [start |-> start, end |-> end, demand |-> demand]
             Refused == \/ Full(table)
                        \/ \E i \in DOMAIN table : Conflict(start, end, table[i])
  <1>1. area \in Area /\ end \in Addr
    BY EndOfType DEF Area
  <1>2. CASE Refused
    BY <1>2 DEF Created
  <1>3. CASE ~Refused
    <2>1. new = Append(table, area)
      BY <1>3 DEF Created
    <2>2. /\ new \in Seq(Area) /\ Len(new) = Len(table) + 1
          /\ \A i \in 1..Len(table) : new[i] = table[i]
          /\ new[Len(table) + 1] = area
          /\ DOMAIN new = 1..(Len(table) + 1)
      BY <2>1, <1>1
    <2>3. Len(new) <= VMA_MAX_COUNT
      BY <2>2, <1>3, VmaAssumption DEF Full
    <2>4. \A i \in 1..Len(table) : \A a \in Addr :
            ~(Contains(table[i], a) /\ Contains(area, a))
      <3> TAKE i \in 1..Len(table)
      <3> TAKE a \in Addr
      <3>1. ~Conflict(area.start, area.end, table[i]) /\ table[i] \in Area
        BY <1>3
      <3>2. QED BY <3>1, <1>1, NoConflict
    <2>5. Apart(new)
      <3> SUFFICES ASSUME NEW i \in DOMAIN new, NEW j \in DOMAIN new, NEW a \in Addr,
                          Contains(new[i], a), Contains(new[j], a)
                   PROVE  i = j
        BY DEF Apart
      <3>1. CASE i \in 1..Len(table) /\ j \in 1..Len(table)
        <4>1. Contains(table[i], a) /\ Contains(table[j], a)
          BY <2>2, <3>1
        <4>2. QED BY <4>1, <3>1 DEF Apart
      <3>2. CASE i = Len(table) + 1 /\ j \in 1..Len(table)
        BY <2>2, <2>4, <3>2
      <3>3. CASE i \in 1..Len(table) /\ j = Len(table) + 1
        BY <2>2, <2>4, <3>3
      <3>4. QED BY <3>1, <3>2, <3>3, <2>2
    <2>6. QED BY <2>2, <2>3, <2>5
  <1>4. QED BY <1>2, <1>3

(* So does vma_resize, which tests the area against all others.            *)
LEMMA ResizedPreserves ==
    ASSUME NEW table \in Seq(Area), Len(table) <= VMA_MAX_COUNT, Apart(table),
           NEW start \in Addr, NEW size \in Addr,
           NEW new, new = Resized(table, start, size)
    PROVE  new \in Seq(Area) /\ Len(new) <= VMA_MAX_COUNT /\ Apart(new)
  <1> DEFINE k == StartingAt(table, start)
             end == EndOf(start, size)
             area == [table[k] EXCEPT !.end = end]
             Refused == \/ k = 0
                        \/ \E i \in DOMAIN table \ {k} : Conflict(start, end, table[i])
  <1>1. CASE Refused
    BY <1>1 DEF Resized
  <1>2. CASE ~Refused
    <2>1. k \in 1..Len(table) /\ table[k].start = start /\ table[k] \in Area
      BY <1>2, StartingAtFacts
    <2>2. area \in Area /\ area.start = start /\ area.end = end
      BY <2>1, EndOfType DEF Area
    <2>3. new = [table EXCEPT ![k] = area]
      BY <1>2 DEF Resized
    <2> HIDE DEF k, area
    <2>4. /\ new \in Seq(Area) /\ Len(new) = Len(table)
          /\ DOMAIN new = 1..Len(table) /\ new[k] = area
          /\ \A i \in 1..Len(table) : i # k => new[i] = table[i]
      BY <2>1, <2>2, <2>3
    <2>5. \A i \in 1..Len(table) : i # k => \A a \in Addr :
            ~(Contains(table[i], a) /\ Contains(area, a))
      <3> SUFFICES ASSUME NEW i \in 1..Len(table), i # k, NEW a \in Addr,
                          Contains(area, a)
                   PROVE  ~Contains(table[i], a)
        OBVIOUS
      <3>1. ~Conflict(area.start, area.end, table[i]) /\ table[i] \in Area
        BY <1>2, <2>2
      <3>2. QED BY <3>1, <2>2, NoConflict
    <2>6. Apart(new)
      <3> SUFFICES ASSUME NEW i \in DOMAIN new, NEW j \in DOMAIN new, NEW a \in Addr,
                          Contains(new[i], a), Contains(new[j], a)
                   PROVE  i = j
        BY DEF Apart
      <3>1. CASE i # k /\ j # k
        <4>1. Contains(table[i], a) /\ Contains(table[j], a)
          BY <2>4, <3>1
        <4>2. QED BY <4>1, <2>4 DEF Apart
      <3>2. CASE i = k /\ j # k
        BY <2>4, <2>5, <3>2
      <3>3. CASE i # k /\ j = k
        BY <2>4, <2>5, <3>3
      <3>4. QED BY <3>1, <3>2, <3>3
    <2>7. QED BY <2>4, <2>6
  <1>3. QED BY <1>1, <1>2

(* The shift of vma_destroy keeps every entry but one, in its order.       *)
LEMMA ShiftDownFacts ==
    ASSUME NEW table \in Seq(Area), NEW k \in 1..Len(table),
           NEW new, new = ShiftDown(table, k)
    PROVE  /\ new \in Seq(Area) /\ Len(new) = Len(table) - 1
           /\ DOMAIN new = 1..(Len(table) - 1)
           /\ \A i \in 1..(Len(table) - 1) :
                 new[i] = IF i < k THEN table[i] ELSE table[i + 1]
  <1>1. Len(table) - 1 \in Nat /\ \A i \in 1..Len(table) : table[i] \in Area
    OBVIOUS
  <1>2. new = [i \in 1..(Len(table) - 1) |-> IF i < k THEN table[i] ELSE table[i + 1]]
    BY DEF ShiftDown
  <1>3. new \in [1..(Len(table) - 1) -> Area]
    BY <1>1, <1>2
  <1>4. new \in Seq(Area) /\ Len(new) = Len(table) - 1
    BY <1>1, <1>3
  <1>5. QED BY <1>2, <1>4

(* So does vma_destroy.                                                    *)
LEMMA DestroyedPreserves ==
    ASSUME NEW table \in Seq(Area), Len(table) <= VMA_MAX_COUNT, Apart(table),
           NEW k \in 1..Len(table), NEW new, new = ShiftDown(table, k)
    PROVE  new \in Seq(Area) /\ Len(new) <= VMA_MAX_COUNT /\ Apart(new)
  <1>1. /\ new \in Seq(Area) /\ Len(new) = Len(table) - 1
        /\ DOMAIN new = 1..(Len(table) - 1)
        /\ \A i \in 1..(Len(table) - 1) :
              new[i] = IF i < k THEN table[i] ELSE table[i + 1]
    BY ShiftDownFacts
  <1>2. Len(new) <= VMA_MAX_COUNT
    BY <1>1, VmaAssumption
  <1>3. Apart(new)
    <2> SUFFICES ASSUME NEW i \in DOMAIN new, NEW j \in DOMAIN new, NEW a \in Addr,
                        Contains(new[i], a), Contains(new[j], a)
                 PROVE  i = j
      BY DEF Apart
    <2> DEFINE Old(n) == IF n < k THEN n ELSE n + 1
    <2>1. /\ Old(i) \in 1..Len(table) /\ new[i] = table[Old(i)]
          /\ Old(j) \in 1..Len(table) /\ new[j] = table[Old(j)]
      BY <1>1
    <2>2. Contains(table[Old(i)], a) /\ Contains(table[Old(j)], a)
      BY <2>1
    <2>3. Old(i) = Old(j)
      <3> HIDE DEF Old
      <3> QED BY <2>1, <2>2 DEF Apart
    <2>4. QED BY <2>3, <1>1
  <1>4. QED BY <1>1, <1>2, <1>3

-----------------------------------------------------------------------------
(* Inductive as it stands.                                                 *)
IInv == TypeOK /\ Disjoint

(* Every step of the specification.                                        *)
LEMMA NextPreserves == IInv /\ [Next]_vma_table => IInv'
  <1> SUFFICES ASSUME IInv, [Next]_vma_table
               PROVE  IInv'
    OBVIOUS
  <1>1. vma_table \in Seq(Area) /\ Len(vma_table) <= VMA_MAX_COUNT /\ Apart(vma_table)
    BY DEF IInv, TypeOK, Disjoint, Apart
  <1>2. Starts \subseteq Addr /\ Sizes \subseteq Addr /\ Flags \subseteq BOOLEAN
    BY VmaAssumption DEF Addr
  <1>3. SUFFICES vma_table' \in Seq(Area) /\ Len(vma_table') <= VMA_MAX_COUNT
                 /\ Apart(vma_table')
    BY <1>3 DEF IInv, TypeOK, Disjoint, Apart
  <1>4. ASSUME NEW start \in Starts, NEW size \in Sizes, NEW demand \in Flags,
               vma_create(start, size, demand)
        PROVE  vma_table' \in Seq(Area) /\ Len(vma_table') <= VMA_MAX_COUNT
               /\ Apart(vma_table')
    BY <1>1, <1>2, <1>4, CreatedPreserves DEF vma_create
  <1>5. ASSUME NEW start \in Starts, NEW size \in Sizes, vma_resize(start, size)
        PROVE  vma_table' \in Seq(Area) /\ Len(vma_table') <= VMA_MAX_COUNT
               /\ Apart(vma_table')
    BY <1>1, <1>2, <1>5, ResizedPreserves DEF vma_resize
  <1>6. ASSUME NEW start \in Starts, vma_destroy(start)
        PROVE  vma_table' \in Seq(Area) /\ Len(vma_table') <= VMA_MAX_COUNT
               /\ Apart(vma_table')
    BY <1>1, <1>6, StartingAtFacts, DestroyedPreserves DEF vma_destroy
  <1>7. CASE UNCHANGED vma_table
    BY <1>1, <1>7
  <1>8. QED BY <1>4, <1>5, <1>6, <1>7 DEF Next

(* The table of areas never outgrows VMA_MAX_COUNT and no address is ever  *)
(* in two areas, for any arguments of vma_create, vma_resize and           *)
(* vma_destroy, sums that wrap included.                                   *)
THEOREM Invariance == Spec => []IInv
  <1>1. Init => IInv
    BY VmaAssumption DEF Init, IInv, TypeOK, Disjoint
  <1>2. QED BY <1>1, NextPreserves, PTL DEF Spec

(* Type correctness, with the bound of the table.                          *)
THEOREM TypeCorrect == Spec => []TypeOK
  <1>1. IInv => TypeOK
    BY DEF IInv
  <1>2. QED BY <1>1, Invariance, PTL

(* vma_find has one answer, whatever the order of the table.               *)
THEOREM DisjointCorrect == Spec => []Disjoint
  <1>1. IInv => Disjoint
    BY DEF IInv
  <1>2. QED BY <1>1, Invariance, PTL

(* The areas that start elsewhere are in the next table, too.              *)
Keeps(start) ==
    /\ Len(vma_table') = Len(vma_table) - 1
    /\ \A i \in DOMAIN vma_table : vma_table[i].start # start =>
          \E j \in DOMAIN vma_table' : vma_table'[j] = vma_table[i]

(* The step of vma_destroy.                                                *)
LEMMA DestroyStep ==
    IInv => [\A start \in Starts : vma_destroy(start) => Keeps(start)]_vma_table
  <1>1. ASSUME IInv, NEW start \in Starts, vma_destroy(start)
        PROVE  Keeps(start)
    <2> DEFINE k == StartingAt(vma_table, start)
    <2>1. /\ vma_table \in Seq(Area) /\ k \in 1..Len(vma_table)
          /\ vma_table[k].start = start /\ vma_table' = ShiftDown(vma_table, k)
      BY <1>1, StartingAtFacts DEF IInv, TypeOK, vma_destroy
    <2> HIDE DEF k
    <2>2. /\ Len(vma_table') = Len(vma_table) - 1
          /\ DOMAIN vma_table' = 1..(Len(vma_table) - 1)
          /\ \A i \in 1..(Len(vma_table) - 1) :
                vma_table'[i] = IF i < k THEN vma_table[i] ELSE vma_table[i + 1]
      BY <2>1, ShiftDownFacts
    <2>3. ASSUME NEW i \in DOMAIN vma_table, vma_table[i].start # start
          PROVE  \E j \in DOMAIN vma_table' : vma_table'[j] = vma_table[i]
      <3>1. i \in 1..Len(vma_table) /\ i # k
        BY <2>1, <2>3
      <3>2. CASE i < k
        BY <2>1, <2>2, <3>1, <3>2
      <3>3. CASE i > k
        <4>1. i - 1 \in DOMAIN vma_table' /\ vma_table'[i - 1] = vma_table[i]
          BY <2>1, <2>2, <3>1, <3>3
        <4>2. QED BY <4>1
      <3>4. QED BY <2>1, <3>1, <3>2, <3>3
    <2>4. QED BY <2>2, <2>3 DEF Keeps
  <1>2. QED BY <1>1

(* vma_destroy removes one area and keeps all that start elsewhere.        *)
THEOREM DestroyCorrect == Spec => DestroysOne
  BY DestroyStep, Invariance, PTL DEF DestroysOne, Keeps

-----------------------------------------------------------------------------
(* Demand paging.                                                          *)

Multiple(m) == \E q \in Nat : m = q * PAGE_SIZE

(* The heap's area is the first of the table.                              *)
HeapFirst(table) ==
    /\ Len(table) >= 1
    /\ table[1].start = HEAP_START /\ table[1].demand = TRUE

(* Memory runs out before the heap reaches the end of the address space:   *)
(* every page it commits is one that was free.                             *)
DIInv ==
    /\ IInv
    /\ HeapFirst(vma_table) /\ heap_vma = 1
    /\ vma_table[1].end <= committed_end
    /\ ~refused => vma_table[1].end = committed_end
    /\ committed_end \in Nat /\ Multiple(committed_end) /\ HEAP_START < committed_end
    /\ committed_end + free * PAGE_SIZE <= HEAP_START + Total * PAGE_SIZE
    /\ IsFiniteSet(mapped)
    /\ \A a \in Addr : HEAP_START <= a /\ a < committed_end => PageBase(a) \in mapped
    /\ free \in Nat /\ tables \in Nat /\ lost \in Nat /\ PagesAccounted
    /\ access \in Uses \cup {NULL}

(* Multiples of the page size keep their order.                            *)
LEMMA Scaled ==
    ASSUME NEW p \in Nat, p > 0, NEW i \in Nat, NEW j \in Nat
    PROVE  /\ i <= j => i * p <= j * p
           /\ i * p < j * p + p => i <= j
  <1>1. ASSUME i <= j PROVE i * p <= j * p
    <2>1. j - i \in Nat /\ (j - i) * p \in Nat
      BY <1>1
    <2>2. j * p = i * p + (j - i) * p
      BY <1>1
    <2>3. i * p \in Nat /\ j * p \in Nat
      OBVIOUS
    <2>4. QED BY <2>1, <2>2, <2>3
  <1>2. ASSUME i * p < j * p + p, j < i PROVE FALSE
    <2>1. i - j - 1 \in Nat /\ (i - j - 1) * p \in Nat
      BY <1>2
    <2>2. i * p = j * p + p + (i - j - 1) * p
      BY <1>2
    <2>3. i * p \in Nat /\ j * p \in Nat
      OBVIOUS
    <2>4. QED BY <1>2, <2>1, <2>2, <2>3
  <1>3. QED BY <1>1, <1>2

(* The page of an address, and of one behind the start of a page.          *)
LEMMA PageBaseFacts ==
    ASSUME NEW a \in Nat
    PROVE  /\ PageBase(a) \in Nat /\ PageBase(a) <= a /\ Multiple(PageBase(a))
           /\ \A m \in Nat : Multiple(m) /\ m <= a => m <= PageBase(a)
           /\ \A m \in Nat : Multiple(m) /\ m <= a /\ a < m + PAGE_SIZE => PageBase(a) = m
  <1> DEFINE d == a \div PAGE_SIZE
  <1>1. PAGE_SIZE \in Nat /\ PAGE_SIZE > 0
    BY DemandPagingAssumption
  <1>2. /\ d \in Nat /\ PAGE_SIZE * d <= a /\ a < PAGE_SIZE * d + PAGE_SIZE
    BY <1>1
  <1> HIDE DEF d
  <1>3. d * PAGE_SIZE \in Nat /\ d * PAGE_SIZE = PAGE_SIZE * d
    BY <1>1, <1>2
  <1>4. PageBase(a) = d * PAGE_SIZE
    BY DEF PageBase, d
  <1>5. PageBase(a) \in Nat /\ PageBase(a) <= a /\ Multiple(PageBase(a))
    BY <1>2, <1>3, <1>4 DEF Multiple
  <1>6. ASSUME NEW m \in Nat, Multiple(m), m <= a
        PROVE  m <= PageBase(a) /\ (a < m + PAGE_SIZE => PageBase(a) = m)
    <2>1. PICK q \in Nat : m = q * PAGE_SIZE
      BY <1>6 DEF Multiple
    <2>2. q * PAGE_SIZE < d * PAGE_SIZE + PAGE_SIZE
      BY <1>1, <1>2, <1>3, <1>6, <2>1
    <2>3. q <= d
      BY <1>1, <1>2, <2>2, Scaled
    <2>4. m <= PageBase(a)
      BY <1>1, <1>2, <1>4, <2>1, <2>3, Scaled
    <2>5. ASSUME a < m + PAGE_SIZE PROVE PageBase(a) = m
      <3>1. d * PAGE_SIZE < q * PAGE_SIZE + PAGE_SIZE
        BY <1>1, <1>2, <1>3, <2>1, <2>5
      <3>2. d <= q
        BY <1>1, <1>2, <3>1, Scaled
      <3>3. d = q
        BY <1>2, <2>3, <3>2
      <3>4. QED BY <1>4, <2>1, <3>3
    <2>6. QED BY <2>4, <2>5
  <1>7. QED BY <1>5, <1>6

(* The next page.                                                          *)
LEMMA MultipleNext ==
    ASSUME NEW m, Multiple(m)
    PROVE  Multiple(m + PAGE_SIZE)
  <1>1. PICK q \in Nat : m = q * PAGE_SIZE
    BY DEF Multiple
  <1>2. PAGE_SIZE \in Nat
    BY DemandPagingAssumption
  <1>3. q + 1 \in Nat /\ m + PAGE_SIZE = (q + 1) * PAGE_SIZE
    BY <1>1, <1>2
  <1>4. QED BY <1>3 DEF Multiple

(* The constants.                                                          *)
LEMMA Constants ==
    /\ WORD \in Nat /\ PAGE_SIZE \in Nat /\ PAGE_SIZE > 0
    /\ HEAP_START \in Nat /\ HEAP_START \in Addr /\ Total \in Nat \ {0}
    /\ Total * PAGE_SIZE \in Nat /\ HEAP_START + Total * PAGE_SIZE < WORD
    /\ HEAP_START + PAGE_SIZE <= HEAP_START + Total * PAGE_SIZE
    /\ Multiple(HEAP_START)
    /\ \A a \in Addr : a \in Nat /\ a < WORD
  <1>1. /\ WORD \in Nat /\ PAGE_SIZE \in Nat /\ PAGE_SIZE > 0
        /\ HEAP_START \in Nat /\ HEAP_START \in Addr /\ Total \in Nat \ {0}
        /\ \A a \in Addr : a \in Nat /\ a < WORD
        /\ HEAP_START % PAGE_SIZE = 0
    BY VmaAssumption, DemandPagingAssumption DEF Addr
  <1>2. HEAP_START = PAGE_SIZE * (HEAP_START \div PAGE_SIZE) /\ HEAP_START \div PAGE_SIZE \in Nat
    BY <1>1
  <1>3. PICK q \in Nat : HEAP_START = PAGE_SIZE * q
    BY <1>2
  <1>4. HEAP_START = q * PAGE_SIZE
    BY <1>1, <1>3
  <1>5. Multiple(HEAP_START)
    BY <1>4 DEF Multiple
  <1>6. Total * PAGE_SIZE \in Nat /\ HEAP_START + Total * PAGE_SIZE < WORD
    BY <1>1, MemoryAssumption
  <1>7. 1 * PAGE_SIZE <= Total * PAGE_SIZE
    BY <1>1, Scaled
  <1>8. QED BY <1>1, <1>5, <1>6, <1>7

(* A page less is a page's worth of addresses less.                        *)
LEMMA PagesLeft ==
    ASSUME NEW f \in Nat, NEW g \in Nat, g + 1 <= f
    PROVE  g * PAGE_SIZE \in Nat /\ f * PAGE_SIZE \in Nat
           /\ g * PAGE_SIZE + PAGE_SIZE <= f * PAGE_SIZE
  <1>1. (g + 1) * PAGE_SIZE <= f * PAGE_SIZE
    BY Constants, Scaled
  <1>2. (g + 1) * PAGE_SIZE = g * PAGE_SIZE + PAGE_SIZE
    BY Constants
  <1>3. QED BY <1>1, <1>2, Constants

(* Other areas are made, resized and destroyed behind the heap's, which    *)
(* keeps its place and its bounds.                                         *)
LEMMA HeapStaysFirst ==
    ASSUME NEW table \in Seq(Area), HeapFirst(table),
           NEW start \in Addr, start # HEAP_START, NEW size \in Addr, NEW demand \in BOOLEAN
    PROVE  /\ LET t == Created(table, start, size, demand)
              IN  HeapFirst(t) /\ t[1] = table[1]
           /\ LET t == Resized(table, start, size)
              IN  HeapFirst(t) /\ t[1] = table[1]
           /\ StartingAt(table, start) # 0 =>
                 LET t == ShiftDown(table, StartingAt(table, start))
                 IN  HeapFirst(t) /\ t[1] = table[1]
  <1> DEFINE k == StartingAt(table, start)
             e == EndOf(start, size)
             new == [start |-> start, end |-> e, demand |-> demand]
  <1>1. Len(table) \in Nat /\ Len(table) >= 1 /\ table[1].start = HEAP_START
    BY DEF HeapFirst
  <1>2. ASSUME NEW t, Len(t) >= 1, t[1] = table[1]
        PROVE  HeapFirst(t) /\ t[1] = table[1]
    BY <1>2 DEF HeapFirst
  <1>3. k # 0 => k \in 1..Len(table) /\ k # 1
    BY <1>1, StartingAtFacts
  <1>4. Created(table, start, size, demand) \in {table, Append(table, new)}
    BY DEF Created
  <1>5. Resized(table, start, size) = table
        \/ (k # 0 /\ Resized(table, start, size) = [table EXCEPT ![k].end = e])
    BY DEF Resized
  <1>6. new \in Area
    BY EndOfType DEF Area
  <1> HIDE DEF k, e, new
  <1>7. Len(Append(table, new)) >= 1 /\ Append(table, new)[1] = table[1]
    BY <1>1, <1>6
  <1>8. k # 0 => /\ Len([table EXCEPT ![k].end = e]) >= 1
                 /\ [table EXCEPT ![k].end = e][1] = table[1]
    BY <1>1, <1>3
  <1>9. k # 0 => Len(ShiftDown(table, k)) >= 1 /\ ShiftDown(table, k)[1] = table[1]
    <2> SUFFICES ASSUME k # 0
                 PROVE  Len(ShiftDown(table, k)) >= 1 /\ ShiftDown(table, k)[1] = table[1]
      OBVIOUS
    <2>1. k \in 1..Len(table) /\ k # 1
      BY <1>3
    <2>2. /\ Len(ShiftDown(table, k)) = Len(table) - 1
          /\ \A i \in 1..(Len(table) - 1) :
                ShiftDown(table, k)[i] = IF i < k THEN table[i] ELSE table[i + 1]
      BY <2>1, ShiftDownFacts
    <2>3. QED BY <1>1, <2>1, <2>2
  <1>10. QED BY <1>2, <1>4, <1>5, <1>7, <1>8, <1>9 DEF k

(* The search finds the first entry if that one starts there.              *)
LEMMA StartingFirst ==
    ASSUME NEW table \in Seq(Area), Len(table) >= 1
    PROVE  StartingAt(table, table[1].start) = 1
  <1> DEFINE hits == {i \in DOMAIN table : table[i].start = table[1].start}
  <1>1. DOMAIN table = 1..Len(table) /\ Len(table) \in Nat
    OBVIOUS
  <1>2. 1 \in hits /\ \A i \in hits : i \in Nat /\ 1 <= i
    BY <1>1
  <1>3. StartingAt(table, table[1].start) = CHOOSE i \in hits : \A j \in hits : i <= j
    BY <1>2 DEF StartingAt
  <1> HIDE DEF hits
  <1>4. \A i \in hits : (\A j \in hits : i <= j) => i = 1
    BY <1>2
  <1>5. QED BY <1>2, <1>3, <1>4

(* vma_resize of the heap's area up to the new committed end succeeds if   *)
(* no other area is in the way, and changes nothing otherwise.             *)
LEMMA HeapAreaGrows ==
    ASSUME NEW table \in Seq(Area), HeapFirst(table), NEW e \in Nat, HEAP_START <= e, e < WORD,
           NEW t, t = Resized(table, HEAP_START, e - HEAP_START)
    PROVE  /\ HeapFirst(t)
           /\ IF \E i \in DOMAIN table \ {1} : Conflict(HEAP_START, e, table[i])
              THEN t = table ELSE t[1].end = e
  <1>1. /\ Len(table) \in Nat /\ Len(table) >= 1 /\ table[1] \in Area
        /\ table[1].start = HEAP_START /\ table[1].demand = TRUE
    BY DEF HeapFirst
  <1>2. StartingAt(table, HEAP_START) = 1
    BY <1>1, StartingFirst
  <1>3. EndOf(HEAP_START, e - HEAP_START) = e
    <2>1. HEAP_START + (e - HEAP_START) = e /\ e < WORD /\ WORD \in Nat
      BY Constants
    <2>2. e % WORD = e
      BY <2>1
    <2>3. QED BY <2>1, <2>2 DEF EndOf
  <1>4. t = IF \E i \in DOMAIN table \ {1} : Conflict(HEAP_START, e, table[i])
            THEN table ELSE [table EXCEPT ![1].end = e]
    <2> DEFINE k == StartingAt(table, HEAP_START)
               n == EndOf(HEAP_START, e - HEAP_START)
    <2>1. t = IF \/ k = 0
                 \/ \E i \in DOMAIN table \ {k} : Conflict(HEAP_START, n, table[i])
              THEN table ELSE [table EXCEPT ![k].end = n]
      BY DEF Resized
    <2> HIDE DEF k, n
    <2>2. k = 1 /\ n = e
      BY <1>2, <1>3 DEF k, n
    <2>3. QED BY <2>1, <2>2
  <1>5. CASE \E i \in DOMAIN table \ {1} : Conflict(HEAP_START, e, table[i])
    BY <1>4, <1>5
  <1>6. CASE ~\E i \in DOMAIN table \ {1} : Conflict(HEAP_START, e, table[i])
    <2>1. t = [table EXCEPT ![1].end = e]
      BY <1>4, <1>6
    <2>2. Len(t) = Len(table) /\ t[1] = [table[1] EXCEPT !.end = e]
      BY <1>1, <2>1
    <2>3. t[1].start = HEAP_START /\ t[1].end = e /\ t[1].demand = TRUE
      BY <1>1, <2>2 DEF Area
    <2>4. QED BY <1>1, <1>6, <2>2, <2>3 DEF HeapFirst
  <1>7. QED BY <1>5, <1>6

-----------------------------------------------------------------------------
(* The steps of DSpec.                                                     *)

(* The system after kmain's calls.                                         *)
LEMMA DInitHolds == DInit => DIInv
  <1> SUFFICES ASSUME DInit PROVE DIInv
    OBVIOUS
  <1> DEFINE area == [start |-> HEAP_START, end |-> HEAP_START + PAGE_SIZE, demand |-> TRUE]
  <1>1. /\ Total \in Nat \ {0} /\ VMA_MAX_COUNT \in Nat /\ VMA_MAX_COUNT > 0
        /\ PAGE_SIZE \in Addr /\ PAGE_SIZE \in Nat
    BY VmaAssumption, DemandPagingAssumption, Constants DEF Addr
  <1>2. EndOf(HEAP_START, PAGE_SIZE) = HEAP_START + PAGE_SIZE
    <2>1. HEAP_START + PAGE_SIZE \in Nat /\ HEAP_START + PAGE_SIZE < WORD /\ WORD \in Nat
      BY Constants
    <2>2. (HEAP_START + PAGE_SIZE) % WORD = HEAP_START + PAGE_SIZE
      BY <2>1
    <2>3. QED BY <2>2 DEF EndOf
  <1>3. vma_table = <<area>>
    <2>1. Created(<<>>, HEAP_START, PAGE_SIZE, TRUE) = Append(<<>>, area)
      <3>1. ~Full(<<>>) /\ DOMAIN <<>> = {}
        BY <1>1 DEF Full
      <3>2. QED BY <1>2, <3>1, Zenon DEF Created
    <2>2. Append(<<>>, area) = <<area>>
      <3> HIDE DEF area
      <3> QED OBVIOUS
    <2>3. QED BY <2>1, <2>2, Zenon DEF DInit
  <1>4. area \in Area
    BY <1>1, <1>2, EndOfType, Constants DEF Area
  <1>5. Len(vma_table) = 1 /\ vma_table[1] = area /\ vma_table \in Seq(Area)
        /\ DOMAIN vma_table = {1}
    <2> HIDE DEF area
    <2> QED BY <1>3, <1>4
  <1>6. HeapFirst(vma_table) /\ vma_table[1].end = HEAP_START + PAGE_SIZE
    BY <1>5 DEF HeapFirst
  <1>7. IInv
    BY <1>1, <1>5 DEF IInv, TypeOK, Disjoint
  <1>8. heap_vma = 1
    <2>1. area.start = HEAP_START /\ area.end = HEAP_START + PAGE_SIZE
      OBVIOUS
    <2>2. Contains(vma_table[1], HEAP_START)
      BY <1>5, <2>1, Constants DEF Contains
    <2> HIDE DEF area
    <2>3. {i \in DOMAIN vma_table : Contains(vma_table[i], HEAP_START)} = {1}
      BY <1>5, <2>2
    <2>4. vma_find(vma_table, HEAP_START) = 1
      BY <2>3 DEF vma_find
    <2>5. QED BY <2>4 DEF DInit
  <1>9. /\ committed_end = HEAP_START + PAGE_SIZE /\ mapped = {HEAP_START}
        /\ free = Total - 1 /\ tables = 0 /\ lost = 0 /\ access = NULL
    BY DEF DInit
  <1>10. committed_end \in Nat /\ Multiple(committed_end) /\ HEAP_START < committed_end
    BY <1>9, Constants, MultipleNext
  <1>11. IsFiniteSet(mapped) /\ Cardinality(mapped) = 1
    BY <1>9, FS_Singleton, Constants
  <1>12. committed_end + free * PAGE_SIZE <= HEAP_START + Total * PAGE_SIZE
    <2>1. Total - 1 \in Nat /\ (Total - 1) + 1 <= Total
      BY Constants
    <2>2. (Total - 1) * PAGE_SIZE + PAGE_SIZE <= Total * PAGE_SIZE
          /\ (Total - 1) * PAGE_SIZE \in Nat
      BY <2>1, Constants, PagesLeft
    <2>3. QED BY <1>9, <2>2, Constants
  <1>13. \A a \in Addr : HEAP_START <= a /\ a < committed_end => PageBase(a) \in mapped
    BY <1>9, Constants, PageBaseFacts
  <1>14. free \in Nat /\ tables \in Nat /\ lost \in Nat /\ PagesAccounted
    BY <1>1, <1>9, <1>11 DEF PagesAccounted
  <1>15. QED BY <1>6, <1>7, <1>8, <1>9, <1>10, <1>11, <1>12, <1>13, <1>14 DEF DIInv

(* Calls for other areas.                                                  *)
LEMMA AreaCallKeeps ==
    ASSUME DIInv, AreaCall
    PROVE  DIInv'
  <1>1. /\ vma_table \in Seq(Area) /\ Len(vma_table) <= VMA_MAX_COUNT /\ Apart(vma_table)
        /\ HeapFirst(vma_table)
    BY DEF DIInv, IInv, TypeOK, Disjoint, Apart
  <1>2. Starts \subseteq Addr /\ Sizes \subseteq Addr /\ Flags \subseteq BOOLEAN
    BY VmaAssumption DEF Addr
  <1>3. UNCHANGED <<mapped, free, tables, lost, heap_vma, committed_end, refused, access, halted>>
    BY DEF AreaCall
  <1>4. PICK start \in Starts :
          /\ start # HEAP_START
          /\ \/ \E size \in Sizes, demand \in Flags : vma_create(start, size, demand)
             \/ \E size \in Sizes : vma_resize(start, size)
             \/ vma_destroy(start)
    BY DEF AreaCall
  <1>5. /\ vma_table' \in Seq(Area) /\ Len(vma_table') <= VMA_MAX_COUNT /\ Apart(vma_table')
        /\ HeapFirst(vma_table') /\ vma_table'[1] = vma_table[1]
    <2>1. ASSUME NEW size \in Sizes, NEW demand \in Flags, vma_create(start, size, demand)
          PROVE  /\ vma_table' \in Seq(Area) /\ Len(vma_table') <= VMA_MAX_COUNT
                 /\ Apart(vma_table') /\ HeapFirst(vma_table') /\ vma_table'[1] = vma_table[1]
      <3>1. vma_table' = Created(vma_table, start, size, demand)
        BY <2>1 DEF vma_create
      <3>2. start \in Addr /\ size \in Addr /\ demand \in BOOLEAN
        BY <1>2
      <3>3. HeapFirst(vma_table') /\ vma_table'[1] = vma_table[1]
        BY <1>1, <1>4, <3>1, <3>2, HeapStaysFirst
      <3>4. QED BY <1>1, <3>1, <3>2, <3>3, CreatedPreserves
    <2>2. ASSUME NEW size \in Sizes, vma_resize(start, size)
          PROVE  /\ vma_table' \in Seq(Area) /\ Len(vma_table') <= VMA_MAX_COUNT
                 /\ Apart(vma_table') /\ HeapFirst(vma_table') /\ vma_table'[1] = vma_table[1]
      <3>1. vma_table' = Resized(vma_table, start, size)
        BY <2>2 DEF vma_resize
      <3>2. start \in Addr /\ size \in Addr
        BY <1>2
      <3>3. PICK demand \in BOOLEAN : TRUE
        OBVIOUS
      <3>4. HeapFirst(vma_table') /\ vma_table'[1] = vma_table[1]
        BY <1>1, <1>4, <3>1, <3>2, <3>3, HeapStaysFirst
      <3>5. QED BY <1>1, <3>1, <3>2, <3>4, ResizedPreserves
    <2>3. ASSUME vma_destroy(start)
          PROVE  /\ vma_table' \in Seq(Area) /\ Len(vma_table') <= VMA_MAX_COUNT
                 /\ Apart(vma_table') /\ HeapFirst(vma_table') /\ vma_table'[1] = vma_table[1]
      <3> DEFINE k == StartingAt(vma_table, start)
      <3>1. k # 0 /\ vma_table' = ShiftDown(vma_table, k)
        BY <2>3 DEF vma_destroy
      <3>2. start \in Addr /\ start \in Nat
        BY <1>2, Constants
      <3>3. PICK demand \in BOOLEAN : TRUE
        OBVIOUS
      <3>4. k \in 1..Len(vma_table)
        BY <1>1, <3>1, StartingAtFacts
      <3>5. HeapFirst(vma_table') /\ vma_table'[1] = vma_table[1]
        BY <1>1, <1>4, <3>1, <3>2, <3>3, HeapStaysFirst
      <3> HIDE DEF k
      <3>6. QED BY <1>1, <3>1, <3>4, <3>5, DestroyedPreserves
    <2>4. QED BY <1>4, <2>1, <2>2, <2>3
  <1>6. IInv'
    BY <1>5 DEF IInv, TypeOK, Disjoint, Apart
  <1>7. QED BY <1>3, <1>5, <1>6 DEF DIInv, PagesAccounted

(* Growth of the heap maps a page at the committed end, over what a fault  *)
(* may have mapped there, and its area follows unless another is in the    *)
(* way.                                                                    *)
LEMMA ExpandKeeps ==
    ASSUME DIInv, NEW need \in 0..3, heap_expand(need)
    PROVE  DIInv'
  <1> DEFINE e == committed_end + PAGE_SIZE
  <1>1. /\ vma_table \in Seq(Area) /\ Len(vma_table) <= VMA_MAX_COUNT /\ Apart(vma_table)
        /\ HeapFirst(vma_table) /\ heap_vma = 1
        /\ vma_table[1].end <= committed_end /\ vma_table[1].end \in Nat
    <2>1. /\ vma_table \in Seq(Area) /\ Len(vma_table) <= VMA_MAX_COUNT /\ Apart(vma_table)
          /\ HeapFirst(vma_table) /\ heap_vma = 1 /\ vma_table[1].end <= committed_end
      BY DEF DIInv, IInv, TypeOK, Disjoint, Apart
    <2>2. vma_table[1] \in Area
      BY <2>1 DEF HeapFirst
    <2>3. vma_table[1].end \in Nat
      BY <2>2, Constants DEF Area
    <2>4. QED BY <2>1, <2>3
  <1>2. /\ free \in Nat /\ tables \in Nat /\ lost \in Nat /\ free > 0 /\ need \in Nat
        /\ free + Cardinality(mapped) + tables + lost = Total
        /\ IsFiniteSet(mapped) /\ Cardinality(mapped) \in Nat /\ Total \in Nat
    BY FS_CardinalityType, DemandPagingAssumption DEF DIInv, heap_expand, PagesAccounted
  <1>3. /\ committed_end \in Nat /\ Multiple(committed_end) /\ HEAP_START < committed_end
        /\ e \in Nat
        /\ committed_end + free * PAGE_SIZE <= HEAP_START + Total * PAGE_SIZE
    BY Constants DEF DIInv
  <1>4. tables' = tables + TablesMade(need) /\ free' = free - 1 - TablesMade(need)
        /\ UNCHANGED <<heap_vma, access, halted>>
    BY DEF heap_expand
  <1>5. CASE MapSucceeds(need)
    <2>1. /\ mapped' = mapped \cup {committed_end} /\ committed_end' = e
          /\ vma_table' = Resized(vma_table, vma_table[heap_vma].start, e - HEAP_START)
          /\ lost' = IF committed_end \in mapped THEN lost + 1 ELSE lost
          /\ refused' = InTheWay(e)
      BY <1>5 DEF heap_expand, HeapArea
    <2>2. free' = free - 1 - need /\ tables' = tables + need /\ free' \in Nat /\ tables' \in Nat
          /\ free' + 1 <= free
      BY <1>2, <1>4, <1>5 DEF TablesMade, MapSucceeds
    <2>3. /\ free' * PAGE_SIZE \in Nat /\ free * PAGE_SIZE \in Nat
          /\ free' * PAGE_SIZE + PAGE_SIZE <= free * PAGE_SIZE
      BY <1>2, <2>2, PagesLeft
    <2>4. e + free' * PAGE_SIZE <= HEAP_START + Total * PAGE_SIZE /\ e < WORD
      BY <1>3, <2>3, Constants
    <2>5. IsFiniteSet(mapped') /\ lost' \in Nat
          /\ Cardinality(mapped') + lost' = Cardinality(mapped) + lost + 1
      <3>1. CASE committed_end \in mapped
        <4>1. mapped' = mapped /\ lost' = lost + 1
          BY <2>1, <3>1
        <4>2. QED BY <1>2, <4>1
      <3>2. CASE committed_end \notin mapped
        <4>1. Cardinality(mapped') = Cardinality(mapped) + 1 /\ IsFiniteSet(mapped')
          BY <1>2, <2>1, <3>2, FS_AddElement
        <4>2. lost' = lost
          BY <2>1, <3>2
        <4>3. QED BY <1>2, <4>1, <4>2
      <3>3. QED BY <3>1, <3>2
    <2>6. PagesAccounted'
      <3>1. Cardinality(mapped') \in Nat
        BY <2>5, FS_CardinalityType
      <3>2. QED BY <1>2, <2>2, <2>5, <3>1 DEF PagesAccounted
    <2>7. vma_table[heap_vma].start = HEAP_START
      BY <1>1 DEF HeapFirst
    <2>8. e - HEAP_START \in Addr /\ HEAP_START \in Addr /\ HEAP_START <= e
      BY <1>3, <2>4, Constants DEF Addr
    <2>9. /\ vma_table' \in Seq(Area) /\ Len(vma_table') <= VMA_MAX_COUNT /\ Apart(vma_table')
      BY <1>1, <2>1, <2>7, <2>8, ResizedPreserves
    <2>10. /\ HeapFirst(vma_table')
           /\ IF InTheWay(e) THEN vma_table' = vma_table ELSE vma_table'[1].end = e
      <3> HIDE DEF e
      <3>1. vma_table' = Resized(vma_table, HEAP_START, e - HEAP_START)
        BY <2>1, <2>7
      <3>2. InTheWay(e) <=> \E i \in DOMAIN vma_table \ {1} : Conflict(HEAP_START, e, vma_table[i])
        BY <1>1 DEF InTheWay
      <3>3. QED BY <1>1, <1>3, <2>4, <2>8, <3>1, <3>2, HeapAreaGrows
    <2>11. IInv'
      BY <2>9 DEF IInv, TypeOK, Disjoint, Apart
    <2>12. Multiple(e) /\ HEAP_START < e
      BY <1>3, MultipleNext, Constants
    <2>13. vma_table'[1].end <= e /\ (~refused' => vma_table'[1].end = e)
      <3>1. CASE InTheWay(e)
        BY <1>1, <1>3, <2>1, <2>10, <3>1, Constants
      <3>2. CASE ~InTheWay(e)
        BY <1>3, <2>10, <3>2
      <3>3. QED BY <3>1, <3>2
    <2>14. ASSUME NEW a \in Addr, HEAP_START <= a, a < e
           PROVE  PageBase(a) \in mapped'
      <3>1. a \in Nat
        BY Constants
      <3>2. CASE a < committed_end
        BY <2>1, <2>14, <3>2 DEF DIInv
      <3>3. CASE committed_end <= a
        <4>1. PageBase(a) = committed_end
          BY <1>3, <2>14, <3>1, <3>3, PageBaseFacts
        <4>2. QED BY <2>1, <4>1
      <3>4. QED BY <1>3, <3>1, <3>2, <3>3
    <2>15. access' \in Uses \cup {NULL} /\ heap_vma' = 1
      BY <1>4 DEF DIInv
    <2> HIDE DEF e
    <2>16. QED BY <1>3, <2>1, <2>2, <2>4, <2>5, <2>6, <2>10, <2>11, <2>12, <2>13, <2>14,
                  <2>15 DEF DIInv
  <1>6. CASE ~MapSucceeds(need)
    <2>1. lost' = lost + 1 /\ UNCHANGED <<mapped, committed_end, vma_table, refused>>
      BY <1>6 DEF heap_expand
    <2>2. TablesMade(need) = free - 1
      BY <1>6 DEF TablesMade
    <2>3. free' = 0 /\ tables' = tables + free - 1 /\ tables' \in Nat
      BY <1>2, <1>4, <2>2
    <2>4. PagesAccounted' /\ lost' \in Nat
      BY <1>2, <2>1, <2>3 DEF PagesAccounted
    <2>5. IInv'
      BY <2>1 DEF DIInv, IInv, TypeOK, Disjoint
    <2>6. committed_end' + free' * PAGE_SIZE <= HEAP_START + Total * PAGE_SIZE
      <3>1. free * PAGE_SIZE \in Nat /\ 0 * PAGE_SIZE = 0
        BY <1>2, Constants
      <3>2. QED BY <1>3, <2>1, <2>3, <3>1, Constants
    <2>7. QED BY <1>4, <2>1, <2>3, <2>4, <2>5, <2>6 DEF DIInv
  <1>7. QED BY <1>5, <1>6

(* A fault maps one page more.                                             *)
LEMMA RecoversKeeps ==
    ASSUME DIInv, NEW need \in 0..3, page_fault_recovers(need)
    PROVE  DIInv'
  <1> DEFINE page == PageBase(access)
  <1>1. /\ page \notin mapped
        /\ mapped' = mapped \cup {page} /\ tables' = tables + need /\ free' = free - 1 - need
        /\ UNCHANGED <<vma_table, lost, heap_vma, committed_end, refused, access, halted>>
        /\ need <= free - 1 /\ need \in Nat
    BY DEF page_fault_recovers, Faulting, MapSucceeds, PageToMap
  <1>2. /\ free \in Nat /\ tables \in Nat /\ lost \in Nat
        /\ free + Cardinality(mapped) + tables + lost = Total
        /\ IsFiniteSet(mapped) /\ Cardinality(mapped) \in Nat /\ Total \in Nat
    BY FS_CardinalityType, DemandPagingAssumption DEF DIInv, PagesAccounted
  <1> HIDE DEF page
  <1>3. Cardinality(mapped') = Cardinality(mapped) + 1 /\ IsFiniteSet(mapped')
    BY <1>1, <1>2, FS_AddElement
  <1>4. free' \in Nat /\ free' + 1 <= free /\ tables' \in Nat /\ PagesAccounted'
    BY <1>1, <1>2, <1>3 DEF PagesAccounted
  <1>5. committed_end' + free' * PAGE_SIZE <= HEAP_START + Total * PAGE_SIZE
    <2>1. /\ free' * PAGE_SIZE \in Nat /\ free * PAGE_SIZE \in Nat
          /\ free' * PAGE_SIZE + PAGE_SIZE <= free * PAGE_SIZE
      BY <1>2, <1>4, PagesLeft
    <2>2. committed_end + free * PAGE_SIZE <= HEAP_START + Total * PAGE_SIZE
          /\ committed_end \in Nat /\ committed_end' = committed_end
      BY <1>1 DEF DIInv
    <2>3. QED BY <2>1, <2>2, Constants
  <1>6. IInv'
    BY <1>1 DEF DIInv, IInv, TypeOK, Disjoint
  <1>7. QED BY <1>1, <1>3, <1>4, <1>5, <1>6 DEF DIInv

(* A fault that finds no memory gives its page back before the panic.      *)
LEMMA NoMemoryKeeps ==
    ASSUME DIInv, NEW need \in 0..3, page_fault_no_memory(need)
    PROVE  DIInv'
  <1>1. /\ free \in Nat /\ tables \in Nat /\ lost \in Nat
        /\ free + Cardinality(mapped) + tables + lost = Total
        /\ IsFiniteSet(mapped) /\ Cardinality(mapped) \in Nat /\ Total \in Nat
    BY FS_CardinalityType, DemandPagingAssumption DEF DIInv, PagesAccounted
  <1>2. UNCHANGED <<vma_table, mapped, lost, heap_vma, committed_end, refused, access>>
    BY DEF page_fault_no_memory
  <1>3. CASE free = 0
    <2>1. free' = free /\ tables' = tables
      BY <1>1, <1>3 DEF page_fault_no_memory, FreedPage
    <2>2. QED BY <1>2, <2>1 DEF DIInv, IInv, TypeOK, Disjoint, PagesAccounted
  <1>4. CASE free # 0
    <2>1. TablesMade(need) = free - 1
      BY <1>4 DEF page_fault_no_memory, TablesMade
    <2>2. tables' = tables + (free - 1) /\ free' = 1
      BY <1>1, <1>4, <2>1 DEF page_fault_no_memory, FreedPage
    <2>3. free' \in Nat /\ tables' \in Nat /\ PagesAccounted'
      BY <1>1, <1>2, <1>4, <2>2 DEF PagesAccounted
    <2>4. committed_end' + free' * PAGE_SIZE <= HEAP_START + Total * PAGE_SIZE
      <3>1. 1 * PAGE_SIZE <= free * PAGE_SIZE /\ free * PAGE_SIZE \in Nat
        BY <1>1, <1>4, Scaled, Constants
      <3>2. committed_end + free * PAGE_SIZE <= HEAP_START + Total * PAGE_SIZE
            /\ committed_end \in Nat /\ committed_end' = committed_end
        BY <1>2 DEF DIInv
      <3>3. QED BY <2>2, <3>1, <3>2, Constants
    <2>5. QED BY <1>2, <2>3, <2>4 DEF DIInv, IInv, TypeOK, Disjoint
  <1>5. QED BY <1>3, <1>4

(* Every step of the specification.                                        *)
LEMMA DNextPreserves == DIInv /\ [DNext]_dvars => DIInv'
  <1> SUFFICES ASSUME DIInv, [DNext]_dvars PROVE DIInv'
    OBVIOUS
  <1>1. CASE AreaCall
    BY <1>1, AreaCallKeeps
  <1>2. ASSUME NEW need \in 0..3, heap_expand(need) PROVE DIInv'
    BY <1>2, ExpandKeeps
  <1>3. ASSUME NEW need \in 0..3, page_fault_recovers(need) PROVE DIInv'
    BY <1>3, RecoversKeeps
  <1>4. ASSUME NEW need \in 0..3, page_fault_no_memory(need) PROVE DIInv'
    BY <1>4, NoMemoryKeeps
  <1>5. ASSUME /\ UNCHANGED <<vma_table, mapped, free, tables, lost, heap_vma, committed_end, refused>>
               /\ access' \in Uses \cup {NULL}
        PROVE  DIInv'
    BY <1>5 DEF DIInv, IInv, TypeOK, Disjoint, PagesAccounted
  <1>6. ASSUME NEW address \in Uses, Use(address) PROVE DIInv'
    BY <1>5, <1>6 DEF Use
  <1>7. CASE Completes
    BY <1>5, <1>7 DEF Completes
  <1>8. CASE page_fault_panics
    BY <1>5, <1>8 DEF page_fault_panics, DIInv
  <1>9. CASE UNCHANGED dvars
    BY <1>5, <1>9 DEF dvars, DIInv
  <1>10. QED BY <1>1, <1>2, <1>3, <1>4, <1>6, <1>7, <1>8, <1>9 DEF DNext, page_fault_handler, Halt

(* The invariant of the kernel with demand paging and a growing heap.      *)
THEOREM DInvariance == DSpec => []DIInv
  BY DInitHolds, DNextPreserves, PTL DEF DSpec

(* No path of the page fault handler or of heap_expand loses a page but    *)
(* the one that heap_commit_page is known to lose.                         *)
THEOREM PagesCorrect == DSpec => []PagesAccounted
  <1>1. DIInv => PagesAccounted
    BY DEF DIInv
  <1>2. QED BY <1>1, DInvariance, PTL

(* heap_vma always points to the heap's area, which is the committed       *)
(* memory unless another area was in the way, all of it mapped.            *)
THEOREM HeapAreaCorrect == DSpec => []HeapAreaCurrent
  <1>1. DIInv => HeapAreaCurrent
    BY DEF DIInv, HeapFirst, HeapAreaCurrent
  <1>2. QED BY <1>1, DInvariance, PTL

(* No address is in two areas while the heap and other parts of the kernel *)
(* change the table.                                                       *)
THEOREM DDisjointCorrect == DSpec => []Disjoint
  <1>1. DIInv => Disjoint
    BY DEF DIInv, IInv
  <1>2. QED BY <1>1, DInvariance, PTL
(* vma_destroy still takes away only one area beside the growing heap.     *)
THEOREM DDestroyCorrect == DSpec => DestroysOne
  <1>1. DIInv => IInv
    BY DEF DIInv
  <1>2. QED BY <1>1, DestroyStep, DInvariance, PTL DEF DestroysOne, Keeps
=============================================================================
