----------------------------- MODULE MCProcess -----------------------------
(* Three blocks for processes, four creations. *)
EXTENDS Process, TLC

CONSTANTS o1, o2, o3

MCObjects == {o1, o2, o3}

(* Addresses are compared for equality only. *)
MCSymmetry == Permutations(MCObjects)
=============================================================================
