---------------------------- MODULE PageAllocator ----------------------------
(* What the physical memory manager promises its callers, without bitmap,  *)
(* counters or search hint: it owns a set of free pages fixed at boot, an  *)
(* allocation returns the lowest of them and fails only if there is none,  *)
(* and a page is free or held, never both.                                 *)
EXTENDS Naturals

CONSTANT NULL

VARIABLES free, held,
    ret         \* the value the last call returned, <<>> if it returns none

vars == <<free, held, ret>>

Init == free = {} /\ held = {} /\ ret = <<>>

(* pmm_init *)
Boot ==
    /\ free = {} /\ held = {}
    /\ free' \subseteq Nat
    /\ ret' = <<>>
    /\ UNCHANGED held

(* pmm_alloc_page *)
Alloc(g) ==
    /\ \A h \in free : g <= h
    /\ free' = free \ {g}
    /\ held' = held \cup {g}
    /\ ret' = <<g>>

AllocFails ==
    /\ free = {}
    /\ ret' = <<NULL>>
    /\ UNCHANGED <<free, held>>

(* pmm_lock_page, pmm_reserve_region *)
Take(S) ==
    /\ free' = free \ S
    /\ held' = held \cup S
    /\ ret' = <<>>

(* pmm_free_page, pmm_unreserve_region *)
Give(S) ==
    /\ free' = free \cup S
    /\ held' = held \ S
    /\ ret' = <<>>

Next ==
    \/ Boot
    \/ \E g \in free : Alloc(g)
    \/ AllocFails
    \/ \E S \in SUBSET free : Take(S)
    \/ \E S \in SUBSET held : Give(S)

Spec == Init /\ [][Next]_vars
=============================================================================
