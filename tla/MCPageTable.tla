----------------------------- MODULE MCPageTable ----------------------------
EXTENDS PageTable

Large(page) == [page |-> page, user |-> FALSE, writable |-> TRUE, huge |-> TRUE]

(* The boot loader's tables: in slot 2 a 1 GiB page, and below a table a   *)
(* 2 MiB page and a page of 4 KiB.  Pages 101 to 103 are memory.           *)
MCBootTables ==
    LET Row(f) == [i \in Index |-> IF i \in DOMAIN f THEN f[i] ELSE NULL]
    IN  [t \in {91, 92, 93, 94} |->
            CASE t = 91 -> Row([i \in {2} |-> Entry(92, FALSE, TRUE)])
              [] t = 92 -> Row([i \in {0, 1} |-> IF i = 0 THEN Large(101)
                                                ELSE Entry(93, FALSE, TRUE)])
              [] t = 93 -> Row([i \in {0, 1} |-> IF i = 0 THEN Large(102)
                                                ELSE Entry(94, FALSE, TRUE)])
              [] t = 94 -> Row([i \in {0} |-> Entry(103, FALSE, TRUE)])]

MCIndex == 0..2
MCHeapVA == {<<0, 0, 0, 1>>, <<0, 1, 0, 1>>}
MCBootVA == {<<0, 0, 0, 2>>, <<0, 0, 1, 2>>}
MCUserVA == {<<0, 0, 0, 0>>, <<1, 0, 0, 0>>}
MCWritableVA == {<<1, 0, 0, 0>>}
=============================================================================
