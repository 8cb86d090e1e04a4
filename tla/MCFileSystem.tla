---------------------------- MODULE MCFileSystem ----------------------------
(* Two processes, two names, three files opened; of the two buffers the    *)
(* longer fits no block that the shorter was first written to.             *)
EXTENDS FileSystem, TLC

CONSTANTS p1, p2, a, b

MCProcs == {p1, p2}
MCNames == {a, b}
MCBuffers == {<<1>>, <<2, 3>>}
MCReadSizes == {2}

(* Neither processes nor names are compared but for equality. *)
MCSymmetry == Permutations(MCProcs) \cup Permutations(MCNames)
=============================================================================
