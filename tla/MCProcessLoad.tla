--------------------------- MODULE MCProcessLoad ---------------------------
(* Two processes, five pages of two bytes, a buffer of five bytes.  One     *)
(* program has two loaded segments, the higher first, one over two pages   *)
(* and with .bss; the segments of the next start inside a page, share one  *)
(* and reach behind what is read of the file; one has a segment in a       *)
(* region of its own and its entry elsewhere; one has no bytes to load;    *)
(* one no segments; one is not an ELF file; and there is a directory.      *)
EXTENDS ProcessLoad, TLC

CONSTANTS p1, p2, f1, f2, f3, f4, f5

MCProcs == {p1, p2}
MCFrames == {f1, f2, f3, f4, f5}
MCPages == 0..3

Seg(type, offset, vaddr, filesz, memsz) ==
    [type |-> type, offset |-> offset, vaddr |-> vaddr, filesz |-> filesz, memsz |-> memsz]

MCPrograms ==
    { [directory |-> FALSE, valid |-> TRUE, entry |-> 0, bytes |-> <<9, 1, 2, 3, 4>>,
       ph |-> <<Seg("PT_LOAD", 4, 6, 1, 2), Seg("PT_NOTE", 0, 4, 1, 1),
                Seg("PT_LOAD", 1, 0, 3, 3)>>],
      [directory |-> FALSE, valid |-> TRUE, entry |-> 1, bytes |-> <<9, 5, 6, 7, 8, 1>>,
       ph |-> <<Seg("PT_LOAD", 1, 1, 3, 4), Seg("PT_LOAD", 4, 3, 2, 3)>>],
      [directory |-> FALSE, valid |-> TRUE, entry |-> 4, bytes |-> <<9>>,
       ph |-> <<Seg("PT_LOAD", 0, 2, 2, 2)>>],
      [directory |-> FALSE, valid |-> TRUE, entry |-> 2, bytes |-> <<9>>,
       ph |-> <<Seg("PT_LOAD", 0, 2, 0, 0)>>],
      [directory |-> FALSE, valid |-> TRUE, entry |-> 2, bytes |-> <<9>>, ph |-> <<>>],
      [directory |-> FALSE, valid |-> FALSE, entry |-> 0, bytes |-> <<>>, ph |-> <<>>],
      [directory |-> TRUE, valid |-> FALSE, entry |-> 0, bytes |-> <<>>, ph |-> <<>>] }

(* Neither processes nor physical pages are compared but for equality.     *)
MCSymmetry == Permutations(MCProcs) \cup Permutations(MCFrames)
=============================================================================
