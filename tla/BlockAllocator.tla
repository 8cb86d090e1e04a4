--------------------------- MODULE BlockAllocator ---------------------------
(* What the kernel heap promises its callers, without headers, lists or    *)
(* pages: the pieces of memory in use lie within the heap and are disjoint *)
(* when they are handed out, krealloc's new piece from its old one too,    *)
(* and a piece stays where it is until its owner gives it back.            *)
EXTENDS Naturals

VARIABLES live,     \* the size of the piece at each pointer in use
          end       \* the end of the heap

vars == <<live, end>>

Init == live = [p \in {} |-> 0] /\ end \in Nat

Apart(p, n, q, m) == p + n <= q \/ q + m <= p

Available(p, n, others) ==
    /\ p \in Nat /\ p + n <= end
    /\ \A q \in others : Apart(p, n, q, live[q])

(* kmalloc, kcalloc *)
Obtain(p, n) ==
    /\ Available(p, n, DOMAIN live)
    /\ live' = [q \in DOMAIN live \cup {p} |-> IF q = p THEN n ELSE live[q]]
    /\ UNCHANGED end

(* kfree *)
Release(p) ==
    /\ live' = [q \in DOMAIN live \ {p} |-> live[q]]
    /\ UNCHANGED end

(* krealloc, in place ... *)
Resize(p, n) ==
    /\ Available(p, n, DOMAIN live \ {p})
    /\ live' = [live EXCEPT ![p] = n]
    /\ UNCHANGED end

(* ... and to another place *)
Move(p, r, n) ==
    /\ Available(r, n, DOMAIN live)
    /\ live' = [q \in (DOMAIN live \ {p}) \cup {r} |-> IF q = r THEN n ELSE live[q]]
    /\ UNCHANGED end

Grow == end' \in Nat /\ end' > end /\ UNCHANGED live

Next ==
    \/ Grow
    \/ \E p \in DOMAIN live :
          \/ Release(p)
          \/ p \in DOMAIN live' /\ Resize(p, live'[p])
          \/ \E r \in DOMAIN live' \ DOMAIN live : Move(p, r, live'[r])
    \/ \E r \in DOMAIN live' \ DOMAIN live : Obtain(r, live'[r])

Spec == Init /\ [][Next]_vars
=============================================================================
