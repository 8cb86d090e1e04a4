--------------------------- MODULE AddressSpaces ----------------------------
(* What the page tables promise, without tables: every address space is a  *)
(* map from addresses to translations.  The kernel's mappings are the same *)
(* in all of them, a process's mappings are in its own only, and no page   *)
(* is behind two addresses.                                                *)
CONSTANTS KernelVA, UserVA, NULL

VARIABLES kernel,   \* the translation of each address for the kernel
          spaces    \* ... and in the address space of each process

vars == <<kernel, spaces>>

VA == KernelVA \cup UserVA

Init ==
    /\ \A va \in UserVA : kernel[va] = NULL
    /\ spaces = [p \in {} |-> kernel]

(* The page a translation leads to is behind no address yet. *)
Unused(t) ==
    /\ \A va \in VA : kernel[va] # NULL => kernel[va].phys # t.phys
    /\ \A p \in DOMAIN spaces : \A va \in VA :
         spaces[p][va] # NULL => spaces[p][va].phys # t.phys

KernelSet(va, t) ==
    /\ kernel' = [kernel EXCEPT ![va] = t]
    /\ spaces' = [p \in DOMAIN spaces |-> [spaces[p] EXCEPT ![va] = t]]

KernelMap(va) ==
    LET t == kernel'[va] IN
    /\ t # kernel[va] /\ t # NULL /\ ~t.user /\ Unused(t)
    /\ KernelSet(va, t)

KernelUnmap(va) ==
    /\ kernel[va] # NULL /\ kernel'[va] = NULL
    /\ KernelSet(va, NULL)

UserMap(p, va) ==
    LET t == spaces'[p][va] IN
    /\ t # spaces[p][va] /\ t # NULL /\ t.user /\ Unused(t)
    /\ spaces' = [spaces EXCEPT ![p][va] = t]
    /\ UNCHANGED kernel

(* A new process sees the kernel and nothing else. *)
Create(p) ==
    /\ spaces' = [q \in DOMAIN spaces \cup {p} |->
                    IF q = p THEN kernel ELSE spaces[q]]
    /\ UNCHANGED kernel

Next ==
    \/ \E va \in KernelVA : KernelMap(va) \/ KernelUnmap(va)
    \/ \E p \in DOMAIN spaces : \E va \in UserVA : UserMap(p, va)
    \/ \E p \in DOMAIN spaces' \ DOMAIN spaces : Create(p)

Spec == Init /\ [][Next]_vars
=============================================================================
