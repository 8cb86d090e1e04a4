------------------------------- MODULE MCHeap -------------------------------
(* An instance of Heap for TLC.                                            *)
EXTENDS Heap
=============================================================================
