-------------------------------- MODULE Vma ---------------------------------
(***************************************************************************)
(* The table of virtual memory areas, vmm/vma/vma.c.  vma_table is the     *)
(* sequence of the first vma_count entries; the others are zero.           *)
(* Addresses are added in words of 64 bits: here, modulo WORD.             *)
(***************************************************************************)
EXTENDS Naturals, Sequences

CONSTANTS
    WORD,               \* 2^64
    VMA_MAX_COUNT,
    Starts, Sizes,      \* arguments of callers
    Flags               \* whether VMA_DEMAND_PAGED is among the flags

ASSUME VmaAssumption ==
    /\ WORD \in Nat \ {0}
    /\ VMA_MAX_COUNT \in Nat
    /\ Starts \subseteq 0..(WORD - 1) /\ Sizes \subseteq 0..(WORD - 1)
    /\ Flags \subseteq BOOLEAN

VARIABLE vma_table

Addr == 0..(WORD - 1)
Area == [start : Addr, end : Addr, demand : BOOLEAN]

(* start + size *)
EndOf(start, size) == (start + size) % WORD

(* Mutant: only the start of the new area is looked at.                    *)
Conflict_start(start, end, area) == area.start <= start /\ start < area.end

(* The overlap test of vma_create and vma_resize *)
Conflict(start, end, area) == start < area.end /\ end > area.start

Contains(area, address) == area.start <= address /\ address < area.end

(* The index of the first area that contains the address, 0 for NULL *)
vma_find(table, address) ==
    LET hits == {i \in DOMAIN table : Contains(table[i], address)}
    IN  IF hits = {} THEN 0 ELSE CHOOSE i \in hits : \A j \in hits : i <= j

(* The index of the first area that starts there, 0 for none *)
StartingAt(table, start) ==
    LET hits == {i \in DOMAIN table : table[i].start = start}
    IN  IF hits = {} THEN 0 ELSE CHOOSE i \in hits : \A j \in hits : i <= j

-----------------------------------------------------------------------------
(* vma_init *)
Init == vma_table = <<>>

Full(table) == Len(table) >= VMA_MAX_COUNT

(* The table after vma_create(start, size, flags), unchanged if refused *)
Created(table, start, size, demand) ==
    LET end == EndOf(start, size)
    IN  IF \/ Full(table)
           \/ \E i \in DOMAIN table : Conflict(start, end, table[i])
        THEN table
        ELSE Append(table, [start |-> start, end |-> end, demand |-> demand])

(* Mutant: the shift starts one entry too early.                           *)
ShiftDown_one(table, k) ==
    [i \in 1..(Len(table) - 1) |-> IF i + 1 < k THEN table[i] ELSE table[i + 1]]

(* The entries behind the destroyed one move down. *)
ShiftDown(table, k) ==
    [i \in 1..(Len(table) - 1) |-> IF i < k THEN table[i] ELSE table[i + 1]]

(* ... after vma_resize(start, new_size) *)
Resized(table, start, new_size) ==
    LET target == StartingAt(table, start)
        end    == EndOf(start, new_size)
    IN  IF \/ target = 0
           \/ \E i \in DOMAIN table \ {target} : Conflict(start, end, table[i])
        THEN table
        ELSE [table EXCEPT ![target].end = end]

vma_create(start, size, demand) == vma_table' = Created(vma_table, start, size, demand)

vma_destroy(start) ==
    LET k == StartingAt(vma_table, start) IN
    /\ k # 0
    /\ vma_table' = ShiftDown(vma_table, k)

vma_resize(start, new_size) == vma_table' = Resized(vma_table, start, new_size)

Next ==
    \/ \E start \in Starts, size \in Sizes : \E demand \in Flags :
          vma_create(start, size, demand)
    \/ \E start \in Starts, size \in Sizes : vma_resize(start, size)
    \/ \E start \in Starts : vma_destroy(start)

Spec == Init /\ [][Next]_vma_table

-----------------------------------------------------------------------------
(* Properties *)

(* The table holds at most VMA_MAX_COUNT areas.                            *)
TypeOK ==
    /\ vma_table \in Seq(Area)
    /\ Len(vma_table) <= VMA_MAX_COUNT

(* No address is in two areas, so vma_find has one answer whatever the     *)
(* order of the table; also when start + size wraps, which leaves an area  *)
(* whose end is below its start.                                           *)
Disjoint ==
    \A i, j \in DOMAIN vma_table : \A a \in Addr :
        Contains(vma_table[i], a) /\ Contains(vma_table[j], a) => i = j

(* vma_destroy takes away the area it was asked to, and every other area,  *)
(* wherever the shift has put it, can still be found, resized and          *)
(* destroyed.                                                              *)
DestroysOne ==
    [][\A start \in Starts : vma_destroy(start) =>
            /\ Len(vma_table') = Len(vma_table) - 1
            /\ \A i \in DOMAIN vma_table : vma_table[i].start # start =>
                  \E j \in DOMAIN vma_table' : vma_table'[j] = vma_table[i]
      ]_vma_table
=============================================================================
