-------------------------------- MODULE MCPmm --------------------------------
(* Instances of Pmm for TLC: pages of two bytes.                           *)
EXTENDS Pmm

E(t, b, n) == [type |-> t, base |-> b, length |-> n]

Kernel == [base |-> 5, length |-> 2]

Image == E("executable", 5, 2)

(* Usable memory at page 0 and around a hole that is neither page-aligned  *)
(* nor of a type that pmm_init reserves; memory that ends in reserved      *)
(* ranges; no usable memory at all; more memory than the bitmap covers.    *)
Maps ==
    { {E("usable", 0, 4), Image, E("usable", 8, 4), E("acpi", 13, 2), E("usable", 16, 8)},
      {E("bootloader", 0, 3), Image, E("usable", 8, 12), E("framebuffer", 20, 5)},
      {E("acpi", 0, 4), Image},
      {Image, E("usable", 8, 24)} }
=============================================================================
