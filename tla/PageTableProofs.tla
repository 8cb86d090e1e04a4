-------------------------- MODULE PageTableProofs ---------------------------
(***************************************************************************)
(* Proofs about PageTable: whatever the boot loader's tables, the number   *)
(* of pages and of processes, the tables stay trees, the kernel sees its   *)
(* addresses alike in every address space, and the tables implement        *)
(* AddressSpaces.                                                          *)
(***************************************************************************)
EXTENDS PageTable, TLAPS

-----------------------------------------------------------------------------
(* Well-formed tables, TablesOK in the form the proofs use.                *)

EntryOK(tbl, f, lev, t, e) ==
    /\ e.page \notin f
    /\ lev[t] = 4 => ~e.huge
    /\ lev[t] > 1 /\ ~e.huge => e.page \in DOMAIN tbl /\ lev[e.page] = lev[t] - 1
    /\ ~(lev[t] > 1 /\ ~e.huge) => e.page \notin DOMAIN tbl

Typed(tbl, lev) ==
    /\ tbl \in [DOMAIN tbl -> [Index -> Entries \cup {NULL}]]
    /\ lev \in [DOMAIN tbl -> 1..4]

EntriesOK(tbl, f, lev) ==
    \A t \in DOMAIN tbl, i \in Index : tbl[t][i] # NULL => EntryOK(tbl, f, lev, t, tbl[t][i])

Alone(tbl, lev) ==
    \A s, t \in DOMAIN tbl, i, j \in Index :
        tbl[s][i] # NULL /\ tbl[t][j] # NULL /\ tbl[s][i].page = tbl[t][j].page =>
            \/ s = t /\ i = j
            \/ lev[s] = 4 /\ lev[t] = 4 /\ i = j /\ i \notin Slots(UserVA)

Tab(tbl, f, lev) ==
    /\ Typed(tbl, lev)
    /\ DOMAIN tbl \cap f = {}
    /\ EntriesOK(tbl, f, lev)
    /\ Alone(tbl, lev)

(* TablesOK, which speaks of places, says the same as Tab.                 *)
LEMMA TabOfTables ==
    ASSUME NEW tbl, NEW f, NEW lev, TablesOK(tbl, f, lev)
    PROVE  Tab(tbl, f, lev)
<1>1. Typed(tbl, lev) /\ DOMAIN tbl \cap f = {}
  BY DEF TablesOK, Typed
<1>2. ASSUME NEW t \in DOMAIN tbl, NEW i \in Index, tbl[t][i] # NULL
      PROVE  /\ EntryOK(tbl, f, lev, t, tbl[t][i])
             /\ \A s \in DOMAIN tbl, j \in Index :
                  tbl[s][j] # NULL /\ tbl[s][j].page = tbl[t][i].page =>
                    \/ <<t, i>> = <<s, j>>
                    \/ lev[t] = 4 /\ lev[s] = 4 /\ i = j /\ i \notin Slots(UserVA)
  <2>1. \A s \in DOMAIN tbl, j \in Index : tbl[s][j] # NULL => <<s, j>> \in Place(tbl)
    BY DEF Place
  <2>2. <<t, i>> \in Place(tbl)
    BY <1>2, <2>1
  <2> QED
    BY <2>1, <2>2, <1>2 DEF TablesOK, EntryOK
<1>3. EntriesOK(tbl, f, lev)
  BY <1>2 DEF EntriesOK
<1>4. Alone(tbl, lev)
  BY <1>2 DEF Alone
<1> QED
  BY <1>1, <1>3, <1>4 DEF Tab

(* ... on fewer free pages as well.                                        *)
LEMMA TabFewer ==
    ASSUME NEW tbl, NEW f, NEW g, NEW lev, Tab(tbl, f, lev), g \subseteq f
    PROVE  Tab(tbl, g, lev)
<1>1. EntriesOK(tbl, g, lev)
  BY DEF Tab, EntriesOK, EntryOK
<1> QED
  BY <1>1 DEF Tab

-----------------------------------------------------------------------------
(* A walk: the tables T3, T2 and T1 that it reaches below the root r, when *)
(* the entries on the way lead to tables.                                  *)

Goes(tbl, t, i) == tbl[t][i] # NULL /\ ~tbl[t][i].huge

T3(tbl, r, v) == tbl[r][v[4]].page
T2(tbl, r, v) == tbl[T3(tbl, r, v)][v[3]].page
T1(tbl, r, v) == tbl[T2(tbl, r, v)][v[2]].page

H3(tbl, r, v) == Goes(tbl, r, v[4])
H2(tbl, r, v) == H3(tbl, r, v) /\ Goes(tbl, T3(tbl, r, v), v[3])
H1(tbl, r, v) == H2(tbl, r, v) /\ Goes(tbl, T2(tbl, r, v), v[2])

Addresses == [1..4 -> Index]
Tops(tbl, lev) == {r \in DOMAIN tbl : lev[r] = 4}

(* The tables of a walk have the levels below the PML4's.                  *)
LEMMA Levels ==
    ASSUME NEW tbl, NEW f, NEW lev, Tab(tbl, f, lev),
           NEW r \in Tops(tbl, lev), NEW v \in Addresses
    PROVE  /\ H3(tbl, r, v) => T3(tbl, r, v) \in DOMAIN tbl /\ lev[T3(tbl, r, v)] = 3
           /\ H2(tbl, r, v) => T2(tbl, r, v) \in DOMAIN tbl /\ lev[T2(tbl, r, v)] = 2
           /\ H1(tbl, r, v) => T1(tbl, r, v) \in DOMAIN tbl /\ lev[T1(tbl, r, v)] = 1
<1>1. v[1] \in Index /\ v[2] \in Index /\ v[3] \in Index /\ v[4] \in Index
  BY DEF Addresses
<1>2. r \in DOMAIN tbl /\ lev[r] = 4
  BY DEF Tops
<1>0. \A t \in DOMAIN tbl, i \in Index : Goes(tbl, t, i) /\ lev[t] > 1 =>
        tbl[t][i].page \in DOMAIN tbl /\ lev[tbl[t][i].page] = lev[t] - 1
  BY DEF Tab, EntriesOK, EntryOK, Goes
<1>3. H3(tbl, r, v) => T3(tbl, r, v) \in DOMAIN tbl /\ lev[T3(tbl, r, v)] = 3
  BY <1>0, <1>1, <1>2 DEF H3, T3
<1>4. H2(tbl, r, v) => T2(tbl, r, v) \in DOMAIN tbl /\ lev[T2(tbl, r, v)] = 2
  BY <1>0, <1>1, <1>3 DEF H2, T2
<1>5. H1(tbl, r, v) => T1(tbl, r, v) \in DOMAIN tbl /\ lev[T1(tbl, r, v)] = 1
  BY <1>0, <1>1, <1>4 DEF H1, T1
<1> QED
  BY <1>3, <1>4, <1>5

(* Two walks meet in a table only when they came the same way, from two    *)
(* PML4s outside the user half at most.                                    *)
Met(r, v, s, u) == v[4] = u[4] /\ (r = s \/ v[4] \notin Slots(UserVA))

LEMMA Meeting ==
    ASSUME NEW tbl, NEW f, NEW lev, Tab(tbl, f, lev),
           NEW r \in Tops(tbl, lev), NEW v \in Addresses,
           NEW s \in Tops(tbl, lev), NEW u \in Addresses
    PROVE  /\ H3(tbl, r, v) /\ H3(tbl, s, u) /\ T3(tbl, r, v) = T3(tbl, s, u) => Met(r, v, s, u)
           /\ H2(tbl, r, v) /\ H2(tbl, s, u) /\ T2(tbl, r, v) = T2(tbl, s, u) =>
                Met(r, v, s, u) /\ v[3] = u[3] /\ T3(tbl, r, v) = T3(tbl, s, u)
           /\ H1(tbl, r, v) /\ H1(tbl, s, u) /\ T1(tbl, r, v) = T1(tbl, s, u) =>
                Met(r, v, s, u) /\ v[3] = u[3] /\ v[2] = u[2] /\ T2(tbl, r, v) = T2(tbl, s, u)
<1>1. /\ v[1] \in Index /\ v[2] \in Index /\ v[3] \in Index /\ v[4] \in Index
      /\ u[1] \in Index /\ u[2] \in Index /\ u[3] \in Index /\ u[4] \in Index
  BY DEF Addresses
<1>2. r \in DOMAIN tbl /\ s \in DOMAIN tbl
  BY DEF Tops
<1>3. /\ H3(tbl, r, v) => T3(tbl, r, v) \in DOMAIN tbl /\ lev[T3(tbl, r, v)] = 3
      /\ H2(tbl, r, v) => T2(tbl, r, v) \in DOMAIN tbl /\ lev[T2(tbl, r, v)] = 2
      /\ H3(tbl, s, u) => T3(tbl, s, u) \in DOMAIN tbl /\ lev[T3(tbl, s, u)] = 3
      /\ H2(tbl, s, u) => T2(tbl, s, u) \in DOMAIN tbl /\ lev[T2(tbl, s, u)] = 2
  BY Levels
<1>4. Alone(tbl, lev)
  BY DEF Tab
<1>5. H3(tbl, r, v) /\ H3(tbl, s, u) /\ T3(tbl, r, v) = T3(tbl, s, u) => Met(r, v, s, u)
  BY <1>1, <1>2, <1>4 DEF Alone, H3, T3, Goes, Met
<1>6. H2(tbl, r, v) /\ H2(tbl, s, u) /\ T2(tbl, r, v) = T2(tbl, s, u) =>
        v[3] = u[3] /\ T3(tbl, r, v) = T3(tbl, s, u)
  <2>1. SUFFICES ASSUME H2(tbl, r, v), H2(tbl, s, u), T2(tbl, r, v) = T2(tbl, s, u)
                 PROVE  v[3] = u[3] /\ T3(tbl, r, v) = T3(tbl, s, u)
    OBVIOUS
  <2>2. /\ T3(tbl, r, v) \in DOMAIN tbl /\ lev[T3(tbl, r, v)] = 3
        /\ T3(tbl, s, u) \in DOMAIN tbl /\ lev[T3(tbl, s, u)] = 3
    BY <2>1, <1>3 DEF H2
  <2> QED
    BY <1>1, <1>4, <2>1, <2>2 DEF Alone, H2, T2, Goes
<1>7. H1(tbl, r, v) /\ H1(tbl, s, u) /\ T1(tbl, r, v) = T1(tbl, s, u) =>
        v[2] = u[2] /\ T2(tbl, r, v) = T2(tbl, s, u)
  <2>1. SUFFICES ASSUME H1(tbl, r, v), H1(tbl, s, u), T1(tbl, r, v) = T1(tbl, s, u)
                 PROVE  v[2] = u[2] /\ T2(tbl, r, v) = T2(tbl, s, u)
    OBVIOUS
  <2>2. /\ T2(tbl, r, v) \in DOMAIN tbl /\ lev[T2(tbl, r, v)] = 2
        /\ T2(tbl, s, u) \in DOMAIN tbl /\ lev[T2(tbl, s, u)] = 2
    BY <2>1, <1>3 DEF H1
  <2> QED
    BY <1>1, <1>4, <2>1, <2>2 DEF Alone, H1, T1, Goes
<1> QED
  BY <1>5, <1>6, <1>7 DEF H1, H2

-----------------------------------------------------------------------------
(* The memory management unit on tables tbl, and the entries it reads.     *)

MmuOf(tbl, root, va) ==
    LET e4 == tbl[root][va[4]]
        e3 == tbl[e4.page][va[3]]
        e2 == tbl[e3.page][va[2]]
        e1 == tbl[e2.page][va[1]]
    IN  IF e4 = NULL THEN NULL
        ELSE IF e3 = NULL \/ e3.huge THEN Translation(<<e4, e3>>, va)
        ELSE IF e2 = NULL \/ e2.huge THEN Translation(<<e4, e3, e2>>, va)
        ELSE Translation(<<e4, e3, e2, e1>>, va)

E4(tbl, r, v) == tbl[r][v[4]]
E3(tbl, r, v) == tbl[T3(tbl, r, v)][v[3]]
E2(tbl, r, v) == tbl[T2(tbl, r, v)][v[2]]
E1(tbl, r, v) == tbl[T1(tbl, r, v)][v[1]]

LEMMA MmuIs == \A r, v : Mmu(r, v) = MmuOf(tables, r, v)
  BY DEF Mmu, MmuOf

LEMMA MmuForm ==
    ASSUME NEW tbl, NEW f, NEW lev, Tab(tbl, f, lev),
           NEW r \in Tops(tbl, lev), NEW v \in Addresses
    PROVE  /\ H3(tbl, r, v) <=> E4(tbl, r, v) # NULL
           /\ ~H3(tbl, r, v) => MmuOf(tbl, r, v) = NULL
           /\ H3(tbl, r, v) /\ ~H2(tbl, r, v) =>
                MmuOf(tbl, r, v) = Translation(<<E4(tbl, r, v), E3(tbl, r, v)>>, v)
           /\ H2(tbl, r, v) /\ ~H1(tbl, r, v) =>
                MmuOf(tbl, r, v) = Translation(<<E4(tbl, r, v), E3(tbl, r, v), E2(tbl, r, v)>>, v)
           /\ H1(tbl, r, v) =>
                MmuOf(tbl, r, v) = Translation(<<E4(tbl, r, v), E3(tbl, r, v), E2(tbl, r, v), E1(tbl, r, v)>>, v)
<1>1. H3(tbl, r, v) <=> E4(tbl, r, v) # NULL
  BY DEF Tab, EntriesOK, EntryOK, Addresses, Tops, H3, Goes, E4
<1>2. ~H3(tbl, r, v) => MmuOf(tbl, r, v) = NULL
  BY <1>1 DEF MmuOf, E4
<1>3. H3(tbl, r, v) /\ ~H2(tbl, r, v) =>
        MmuOf(tbl, r, v) = Translation(<<E4(tbl, r, v), E3(tbl, r, v)>>, v)
  BY DEF MmuOf, H3, H2, Goes, T3, E3, E4
<1>4. H2(tbl, r, v) /\ ~H1(tbl, r, v) =>
        MmuOf(tbl, r, v) = Translation(<<E4(tbl, r, v), E3(tbl, r, v), E2(tbl, r, v)>>, v)
  BY DEF MmuOf, H3, H2, H1, Goes, T2, T3, E2, E3, E4
<1>5. H1(tbl, r, v) =>
        MmuOf(tbl, r, v) = Translation(<<E4(tbl, r, v), E3(tbl, r, v), E2(tbl, r, v), E1(tbl, r, v)>>, v)
  BY DEF MmuOf, H3, H2, H1, Goes, T1, T2, T3, E1, E2, E3, E4
<1> QED
  BY <1>1, <1>2, <1>3, <1>4, <1>5

(* A translation names the page of the last entry, is open to user mode    *)
(* if all entries are, and is a translation unless the last entry is NULL. *)
LEMMA TranslationForm ==
    ASSUME NEW n \in 2..4, NEW path, Len(path) = n, path[n] \in Entries \cup {NULL},
           NEW v \in Addresses
    PROVE  LET t == Translation(path, v) IN
           /\ path[n] = NULL => t = NULL
           /\ path[n] # NULL => /\ t # NULL
                                /\ t.phys = Phys(path[n], 5 - n, v)
                                /\ t.user <=> \A k \in 1..n : path[k].user
<1>1. CASE path[n] = NULL
  BY <1>1 DEF Translation
<1>2. CASE path[n] # NULL
  <2>0. path[n].page \in AllPages
    BY <1>2 DEF Entries
  <2>1. Translation(path, v) = [phys     |-> Phys(path[n], 5 - n, v),
                                user     |-> \A k \in 1..n : path[k].user,
                                writable |-> \A k \in 1..n : path[k].writable]
    BY <1>2 DEF Translation
  <2>2. Phys(path[n], 5 - n, v) \in AllPages \X UNION {[1..m -> Index] : m \in 0..3}
    <3>1. (5 - n) - 1 \in 0..3 /\ \A l \in 1..((5 - n) - 1) : l \in 1..4
      OBVIOUS
    <3>2. [l \in 1..((5 - n) - 1) |-> v[l]] \in [1..((5 - n) - 1) -> Index]
      BY <3>1 DEF Addresses
    <3>3. [l \in 1..((5 - n) - 1) |-> v[l]] \in UNION {[1..m -> Index] : m \in 0..3}
      BY <3>1, <3>2
    <3> QED
      BY <3>3, <2>0 DEF Phys
  <2>3. Translation(path, v) \in Translations
    BY <2>1, <2>2 DEF Translations
  <2>4. Translation(path, v) # NULL
    BY <2>3, PageTableAssumption
  <2> QED
    BY <2>1, <2>4, <1>2
<1> QED
  BY <1>1, <1>2

(* So the unit's answer, by the length of its way.                         *)
Leaf(v, t, e, level) ==
    /\ e = NULL => t = NULL
    /\ e # NULL => t # NULL /\ t.phys = Phys(e, level, v)

LEMMA MmuLeaf ==
    ASSUME NEW tbl, NEW f, NEW lev, Tab(tbl, f, lev),
           NEW r \in Tops(tbl, lev), NEW v \in Addresses
    PROVE  LET t == MmuOf(tbl, r, v) IN
           /\ ~H3(tbl, r, v) => t = NULL
           /\ H3(tbl, r, v) /\ ~H2(tbl, r, v) =>
                /\ Leaf(v, t, E3(tbl, r, v), 3)
                /\ t # NULL => (t.user <=> E4(tbl, r, v).user /\ E3(tbl, r, v).user)
           /\ H2(tbl, r, v) /\ ~H1(tbl, r, v) =>
                /\ Leaf(v, t, E2(tbl, r, v), 2)
                /\ t # NULL => (t.user <=> /\ E4(tbl, r, v).user /\ E3(tbl, r, v).user
                                           /\ E2(tbl, r, v).user)
           /\ H1(tbl, r, v) =>
                /\ Leaf(v, t, E1(tbl, r, v), 1)
                /\ t # NULL => (t.user <=> /\ E4(tbl, r, v).user /\ E3(tbl, r, v).user
                                           /\ E2(tbl, r, v).user /\ E1(tbl, r, v).user)
<1>1. /\ v[1] \in Index /\ v[2] \in Index /\ v[3] \in Index /\ v[4] \in Index
      /\ \A t \in DOMAIN tbl, i \in Index : tbl[t][i] \in Entries \cup {NULL}
  BY DEF Tab, Typed, Addresses
<1>2. /\ H3(tbl, r, v) => T3(tbl, r, v) \in DOMAIN tbl
      /\ H2(tbl, r, v) => T2(tbl, r, v) \in DOMAIN tbl
      /\ H1(tbl, r, v) => T1(tbl, r, v) \in DOMAIN tbl
  BY Levels
<1>3. ~H3(tbl, r, v) => MmuOf(tbl, r, v) = NULL
  BY MmuForm
<1>4. ASSUME H3(tbl, r, v), ~H2(tbl, r, v)
      PROVE  LET t == MmuOf(tbl, r, v) IN
                /\ Leaf(v, t, E3(tbl, r, v), 3)
                /\ t # NULL => (t.user <=> E4(tbl, r, v).user /\ E3(tbl, r, v).user)
  <2>1. PICK path : path = <<E4(tbl, r, v), E3(tbl, r, v)>>
    OBVIOUS
  <2>2. MmuOf(tbl, r, v) = Translation(path, v)
    BY <2>1, <1>4, MmuForm
  <2>3. Len(path) = 2 /\ path[1] = E4(tbl, r, v) /\ path[2] = E3(tbl, r, v)
    BY <2>1
  <2>4. path[2] \in Entries \cup {NULL}
    BY <2>3, <1>4, <1>1, <1>2 DEF E3
  <2>5. LET t == Translation(path, v) IN
           /\ path[2] = NULL => t = NULL
           /\ path[2] # NULL => /\ t # NULL
                                /\ t.phys = Phys(path[2], 5 - 2, v)
                                /\ t.user <=> \A k \in 1..2 : path[k].user
    BY <2>3, <2>4, TranslationForm
  <2>6. (\A k \in 1..2 : path[k].user) <=> path[1].user /\ path[2].user
    <3>1. 1..2 = {1, 2}
      OBVIOUS
    <3> QED
      BY <3>1
  <2> QED
    BY <2>2, <2>3, <2>5, <2>6 DEF Leaf
<1>5. ASSUME H2(tbl, r, v), ~H1(tbl, r, v)
      PROVE  LET t == MmuOf(tbl, r, v) IN
                /\ Leaf(v, t, E2(tbl, r, v), 2)
                /\ t # NULL => (t.user <=> /\ E4(tbl, r, v).user /\ E3(tbl, r, v).user
                                           /\ E2(tbl, r, v).user)
  <2>1. PICK path : path = <<E4(tbl, r, v), E3(tbl, r, v), E2(tbl, r, v)>>
    OBVIOUS
  <2>2. MmuOf(tbl, r, v) = Translation(path, v)
    BY <2>1, <1>5, MmuForm
  <2>3. /\ Len(path) = 3 /\ path[1] = E4(tbl, r, v) /\ path[2] = E3(tbl, r, v)
        /\ path[3] = E2(tbl, r, v)
    BY <2>1
  <2>4. path[3] \in Entries \cup {NULL}
    BY <2>3, <1>5, <1>1, <1>2 DEF E2
  <2>5. LET t == Translation(path, v) IN
           /\ path[3] = NULL => t = NULL
           /\ path[3] # NULL => /\ t # NULL
                                /\ t.phys = Phys(path[3], 5 - 3, v)
                                /\ t.user <=> \A k \in 1..3 : path[k].user
    BY <2>3, <2>4, TranslationForm
  <2>6. (\A k \in 1..3 : path[k].user) <=> path[1].user /\ path[2].user /\ path[3].user
    <3>1. 1..3 = {1, 2, 3}
      OBVIOUS
    <3> QED
      BY <3>1
  <2> QED
    BY <2>2, <2>3, <2>5, <2>6 DEF Leaf
<1>6. ASSUME H1(tbl, r, v)
      PROVE  LET t == MmuOf(tbl, r, v) IN
                /\ Leaf(v, t, E1(tbl, r, v), 1)
                /\ t # NULL => (t.user <=> /\ E4(tbl, r, v).user /\ E3(tbl, r, v).user
                                           /\ E2(tbl, r, v).user /\ E1(tbl, r, v).user)
  <2>1. PICK path : path = <<E4(tbl, r, v), E3(tbl, r, v), E2(tbl, r, v), E1(tbl, r, v)>>
    OBVIOUS
  <2>2. MmuOf(tbl, r, v) = Translation(path, v)
    BY <2>1, <1>6, MmuForm
  <2>3. /\ Len(path) = 4 /\ path[1] = E4(tbl, r, v) /\ path[2] = E3(tbl, r, v)
        /\ path[3] = E2(tbl, r, v) /\ path[4] = E1(tbl, r, v)
    BY <2>1
  <2>4. path[4] \in Entries \cup {NULL}
    BY <2>3, <1>6, <1>1, <1>2 DEF E1
  <2>5. LET t == Translation(path, v) IN
           /\ path[4] = NULL => t = NULL
           /\ path[4] # NULL => /\ t # NULL
                                /\ t.phys = Phys(path[4], 5 - 4, v)
                                /\ t.user <=> \A k \in 1..4 : path[k].user
    BY <2>3, <2>4, TranslationForm
  <2>6. (\A k \in 1..4 : path[k].user) <=>
          path[1].user /\ path[2].user /\ path[3].user /\ path[4].user
    <3>1. 1..4 = {1, 2, 3, 4}
      OBVIOUS
    <3> QED
      BY <3>1
  <2> QED
    BY <2>2, <2>3, <2>5, <2>6 DEF Leaf
<1> QED
  BY <1>3, <1>4, <1>5, <1>6

(* What it answers is a page in use.                                       *)
LEMMA MmuPage ==
    ASSUME NEW tbl, NEW f, NEW lev, Tab(tbl, f, lev),
           NEW r \in Tops(tbl, lev), NEW v \in Addresses, MmuOf(tbl, r, v) # NULL
    PROVE  MmuOf(tbl, r, v).phys[1] \notin f
<1>1. v[1] \in Index /\ v[2] \in Index /\ v[3] \in Index
  BY DEF Addresses
<1>2. \A t \in DOMAIN tbl, i \in Index : tbl[t][i] # NULL => tbl[t][i].page \notin f
  BY DEF Tab, EntriesOK, EntryOK
<1>3. /\ H3(tbl, r, v) => T3(tbl, r, v) \in DOMAIN tbl
      /\ H2(tbl, r, v) => T2(tbl, r, v) \in DOMAIN tbl
      /\ H1(tbl, r, v) => T1(tbl, r, v) \in DOMAIN tbl
  BY Levels
<1>4. \A e, level : Phys(e, level, v)[1] = e.page
  BY DEF Phys
<1>5. PICK t : t = MmuOf(tbl, r, v)
  OBVIOUS
<1>6. /\ ~H3(tbl, r, v) => t = NULL
      /\ H3(tbl, r, v) /\ ~H2(tbl, r, v) => Leaf(v, t, E3(tbl, r, v), 3)
      /\ H2(tbl, r, v) /\ ~H1(tbl, r, v) => Leaf(v, t, E2(tbl, r, v), 2)
      /\ H1(tbl, r, v) => Leaf(v, t, E1(tbl, r, v), 1)
  BY <1>5, MmuLeaf
<1>7. CASE ~H3(tbl, r, v)
  BY <1>5, <1>6, <1>7
<1>8. CASE H3(tbl, r, v) /\ ~H2(tbl, r, v)
  BY <1>1, <1>2, <1>3, <1>4, <1>5, <1>6, <1>8 DEF Leaf, E3
<1>9. CASE H2(tbl, r, v) /\ ~H1(tbl, r, v)
  BY <1>1, <1>2, <1>3, <1>4, <1>5, <1>6, <1>9 DEF Leaf, E2
<1>10. CASE H1(tbl, r, v)
  BY <1>1, <1>2, <1>3, <1>4, <1>5, <1>6, <1>10 DEF Leaf, E1
<1> QED
  BY <1>7, <1>8, <1>9, <1>10

(* Only the entries on the way count.                                      *)
LEMMA MmuSame ==
    ASSUME NEW tbl, NEW f, NEW lev, Tab(tbl, f, lev),
           NEW r \in Tops(tbl, lev), NEW v \in Addresses,
           NEW tbl2, NEW r2,
           tbl2[r2][v[4]] = tbl[r][v[4]],
           H3(tbl, r, v) => tbl2[T3(tbl, r, v)][v[3]] = tbl[T3(tbl, r, v)][v[3]],
           H2(tbl, r, v) => tbl2[T2(tbl, r, v)][v[2]] = tbl[T2(tbl, r, v)][v[2]],
           H1(tbl, r, v) => tbl2[T1(tbl, r, v)][v[1]] = tbl[T1(tbl, r, v)][v[1]]
    PROVE  MmuOf(tbl2, r2, v) = MmuOf(tbl, r, v)
<1>0. H3(tbl, r, v) <=> E4(tbl, r, v) # NULL
  BY MmuForm
<1>1. CASE ~H3(tbl, r, v)
  BY <1>0, <1>1 DEF MmuOf, E4
<1>2. CASE H3(tbl, r, v) /\ ~H2(tbl, r, v)
  BY <1>0, <1>2 DEF MmuOf, H2, T3, Goes, E4
<1>3. CASE H2(tbl, r, v) /\ ~H1(tbl, r, v)
  BY <1>0, <1>3 DEF MmuOf, H2, H1, T3, T2, Goes, E4
<1>4. CASE H1(tbl, r, v)
  BY <1>0, <1>4 DEF MmuOf, H2, H1, T3, T2, T1, Goes, E4
<1> QED
  BY <1>1, <1>2, <1>3, <1>4 DEF H1, H2

-----------------------------------------------------------------------------
(* A new table, empty, below a missing entry.                              *)

Added(tbl, at, i, new) ==
    [t \in DOMAIN tbl \cup {new} |->
        IF t = new THEN Empty
        ELSE IF t = at THEN [tbl[t] EXCEPT ![i] = Entry(new, FALSE, TRUE)]
        ELSE tbl[t]]

AddedLevel(lev, at, new) ==
    [t \in DOMAIN lev \cup {new} |-> IF t = new THEN lev[at] - 1 ELSE lev[t]]

CanAdd(tbl, f, lev, at, i, new) ==
    /\ Tab(tbl, f, lev)
    /\ at \in DOMAIN tbl /\ lev[at] > 1 /\ i \in Index
    /\ tbl[at][i] = NULL
    /\ new \in f /\ new \in Pages

LEMMA EntryTyped ==
    ASSUME NEW page \in Pages, NEW user \in BOOLEAN, NEW writable \in BOOLEAN
    PROVE  /\ Entry(page, user, writable) \in Entries
           /\ Entry(page, user, writable) # NULL
           /\ Entry(page, user, writable).page = page
           /\ Entry(page, user, writable).huge = FALSE
           /\ Entry(page, user, writable).user = user
<1>1. page \in AllPages
  BY DEF AllPages
<1>2. Entry(page, user, writable) \in Entries
  BY <1>1 DEF Entry, Entries
<1> QED
  BY <1>2, PageTableAssumption DEF Entry

IsAdded(tbl, at, i, new, tbl2) ==
    /\ DOMAIN tbl2 = DOMAIN tbl \cup {new}
    /\ new \notin DOMAIN tbl
    /\ \A j \in Index : tbl2[new][j] = NULL
    /\ tbl2[at][i] = Entry(new, FALSE, TRUE)
    /\ \A t \in DOMAIN tbl, j \in Index : t # at \/ j # i => tbl2[t][j] = tbl[t][j]
    /\ tbl2 \in [DOMAIN tbl \cup {new} -> [Index -> Entries \cup {NULL}]]

LEMMA AddedEntries ==
    ASSUME NEW tbl, NEW f, NEW lev, NEW at, NEW i, NEW new, CanAdd(tbl, f, lev, at, i, new)
    PROVE  IsAdded(tbl, at, i, new, Added(tbl, at, i, new))
<1>1. new \notin DOMAIN tbl
  BY DEF CanAdd, Tab
<1>2. \A t \in DOMAIN tbl : tbl[t] \in [Index -> Entries \cup {NULL}]
  BY DEF CanAdd, Tab, Typed
<1>3. Entry(new, FALSE, TRUE) \in Entries
  BY EntryTyped DEF CanAdd
<1>4. \A j \in Index : Added(tbl, at, i, new)[new][j] = NULL
  BY DEF Added, Empty
<1>5. /\ Added(tbl, at, i, new)[at][i] = Entry(new, FALSE, TRUE)
      /\ \A t \in DOMAIN tbl, j \in Index : t # at \/ j # i => Added(tbl, at, i, new)[t][j] = tbl[t][j]
  BY <1>1, <1>2 DEF Added, CanAdd
<1>6. Added(tbl, at, i, new) \in [DOMAIN tbl \cup {new} -> [Index -> Entries \cup {NULL}]]
  BY <1>2, <1>3 DEF Added, Empty
<1> QED
  BY <1>1, <1>4, <1>5, <1>6 DEF Added, IsAdded

LEMMA AddTab ==
    ASSUME NEW tbl, NEW f, NEW lev, NEW at, NEW i, NEW new, CanAdd(tbl, f, lev, at, i, new)
    PROVE  Tab(Added(tbl, at, i, new), f \ {new}, AddedLevel(lev, at, new))
<1>1. PICK tbl2 : tbl2 = Added(tbl, at, i, new)
  OBVIOUS
<1>2. PICK lev2 : lev2 = AddedLevel(lev, at, new)
  OBVIOUS
<1>0. IsAdded(tbl, at, i, new, tbl2)
  BY <1>1, AddedEntries
<1>3. /\ DOMAIN tbl2 = DOMAIN tbl \cup {new}
      /\ new \notin DOMAIN tbl
      /\ \A j \in Index : tbl2[new][j] = NULL
      /\ tbl2[at][i] = Entry(new, FALSE, TRUE)
      /\ \A t \in DOMAIN tbl, j \in Index : t # at \/ j # i => tbl2[t][j] = tbl[t][j]
      /\ tbl2 \in [DOMAIN tbl \cup {new} -> [Index -> Entries \cup {NULL}]]
  BY <1>0 DEF IsAdded
<1>4. /\ Entry(new, FALSE, TRUE).page = new /\ ~Entry(new, FALSE, TRUE).huge
      /\ Entry(new, FALSE, TRUE) # NULL
  BY EntryTyped DEF CanAdd
<1>5. /\ Tab(tbl, f, lev) /\ at \in DOMAIN tbl /\ lev[at] > 1 /\ i \in Index
      /\ tbl[at][i] = NULL /\ new \in f
  BY DEF CanAdd
<1>6. DOMAIN lev = DOMAIN tbl /\ \A t \in DOMAIN tbl : lev[t] \in 1..4
  BY <1>5 DEF Tab, Typed
<1>7. /\ lev2[new] = lev[at] - 1 /\ \A t \in DOMAIN tbl : lev2[t] = lev[t]
      /\ lev2 \in [DOMAIN tbl2 -> 1..4]
  BY <1>2, <1>3, <1>5, <1>6 DEF AddedLevel
<1>8. Typed(tbl2, lev2) /\ DOMAIN tbl2 \cap (f \ {new}) = {}
  BY <1>3, <1>5, <1>7 DEF Typed, Tab
<1>9. \A t \in DOMAIN tbl, j \in Index : tbl[t][j] # NULL => tbl[t][j].page # new
  BY <1>5 DEF Tab, EntriesOK, EntryOK
<1>10. EntriesOK(tbl2, f \ {new}, lev2)
  <2>1. SUFFICES ASSUME NEW t \in DOMAIN tbl2, NEW j \in Index, tbl2[t][j] # NULL
                 PROVE  EntryOK(tbl2, f \ {new}, lev2, t, tbl2[t][j])
    BY DEF EntriesOK
  <2>2. t \in DOMAIN tbl
    BY <2>1, <1>3
  <2>3. CASE t = at /\ j = i
    BY <2>3, <2>2, <1>3, <1>4, <1>5, <1>6, <1>7 DEF EntryOK
  <2>4. CASE ~(t = at /\ j = i)
    <3>1. tbl2[t][j] = tbl[t][j] /\ EntryOK(tbl, f, lev, t, tbl[t][j])
      BY <2>1, <2>2, <2>4, <1>3, <1>5 DEF Tab, EntriesOK
    <3>2. tbl[t][j].page # new
      BY <3>1, <2>1, <2>2, <1>9
    <3> QED
      BY <3>1, <3>2, <2>2, <1>3, <1>7 DEF EntryOK
  <2> QED
    BY <2>3, <2>4
<1>11. Alone(tbl2, lev2)
  <2>1. SUFFICES ASSUME NEW s \in DOMAIN tbl2, NEW t \in DOMAIN tbl2,
                        NEW k \in Index, NEW j \in Index,
                        tbl2[s][k] # NULL, tbl2[t][j] # NULL, tbl2[s][k].page = tbl2[t][j].page
                 PROVE  \/ s = t /\ k = j
                        \/ lev2[s] = 4 /\ lev2[t] = 4 /\ k = j /\ k \notin Slots(UserVA)
    BY DEF Alone
  <2>2. s \in DOMAIN tbl /\ t \in DOMAIN tbl
    BY <2>1, <1>3
  <2>3. CASE s = at /\ k = i
    <3>1. tbl2[s][k].page = new
      BY <2>3, <1>3, <1>4
    <3> QED
      BY <3>1, <2>1, <2>2, <2>3, <1>3, <1>9
  <2>5. CASE t = at /\ j = i
    <3>1. tbl2[t][j].page = new
      BY <2>5, <1>3, <1>4
    <3> QED
      BY <3>1, <2>1, <2>2, <2>5, <1>3, <1>9
  <2>4. CASE ~(s = at /\ k = i) /\ ~(t = at /\ j = i)
    <3>1. tbl2[s][k] = tbl[s][k] /\ tbl2[t][j] = tbl[t][j]
      BY <2>2, <2>4, <1>3
    <3> QED
      BY <3>1, <2>1, <2>2, <1>5, <1>7 DEF Tab, Alone
  <2> QED
    BY <2>3, <2>4, <2>5
<1> QED
  BY <1>1, <1>2, <1>8, <1>10, <1>11 DEF Tab

(* A missing entry on the way ends it.                                     *)
LEMMA MmuNull ==
    ASSUME NEW tbl, NEW r, NEW v,
           \/ E4(tbl, r, v) = NULL
           \/ E4(tbl, r, v) # NULL /\ E3(tbl, r, v) = NULL
           \/ E4(tbl, r, v) # NULL /\ Goes(tbl, T3(tbl, r, v), v[3]) /\ E2(tbl, r, v) = NULL
    PROVE  MmuOf(tbl, r, v) = NULL
<1>1. \A path : path[Len(path)] = NULL => Translation(path, v) = NULL
  BY DEF Translation
<1>2. CASE E4(tbl, r, v) = NULL
  BY <1>2 DEF MmuOf, E4
<1>3. CASE E4(tbl, r, v) # NULL /\ E3(tbl, r, v) = NULL
  <2>1. MmuOf(tbl, r, v) = Translation(<<E4(tbl, r, v), E3(tbl, r, v)>>, v)
    BY <1>3 DEF MmuOf, E4, E3, T3
  <2>2. PICK path : path = <<E4(tbl, r, v), E3(tbl, r, v)>>
    OBVIOUS
  <2>3. path[Len(path)] = NULL
    BY <2>2, <1>3
  <2> QED
    BY <1>1, <2>1, <2>2, <2>3
<1>4. CASE E4(tbl, r, v) # NULL /\ Goes(tbl, T3(tbl, r, v), v[3]) /\ E2(tbl, r, v) = NULL
  <2>1. MmuOf(tbl, r, v) = Translation(<<E4(tbl, r, v), E3(tbl, r, v), E2(tbl, r, v)>>, v)
    BY <1>4 DEF MmuOf, E4, E3, E2, T3, T2, Goes
  <2>2. PICK path : path = <<E4(tbl, r, v), E3(tbl, r, v), E2(tbl, r, v)>>
    OBVIOUS
  <2>3. path[Len(path)] = NULL
    BY <2>2, <1>4
  <2> QED
    BY <1>1, <2>1, <2>2, <2>3
<1> QED
  BY <1>2, <1>3, <1>4

LEMMA MmuNull1 ==
    ASSUME NEW tbl, NEW r, NEW v, E4(tbl, r, v) # NULL, Goes(tbl, T3(tbl, r, v), v[3]),
           Goes(tbl, T2(tbl, r, v), v[2]), E1(tbl, r, v) = NULL
    PROVE  MmuOf(tbl, r, v) = NULL
<1>1. \A path : path[Len(path)] = NULL => Translation(path, v) = NULL
  BY DEF Translation
<1>2. MmuOf(tbl, r, v) =
        Translation(<<E4(tbl, r, v), E3(tbl, r, v), E2(tbl, r, v), E1(tbl, r, v)>>, v)
  BY DEF MmuOf, E4, E3, E2, E1, T3, T2, T1, Goes
<1>3. PICK path : path = <<E4(tbl, r, v), E3(tbl, r, v), E2(tbl, r, v), E1(tbl, r, v)>>
  OBVIOUS
<1>4. path[Len(path)] = NULL
  BY <1>3
<1> QED
  BY <1>1, <1>2, <1>3, <1>4

(* ... is no translation of any address.                                   *)
LEMMA AddMmu ==
    ASSUME NEW tbl, NEW f, NEW lev, NEW at, NEW i, NEW new, CanAdd(tbl, f, lev, at, i, new),
           NEW r \in Tops(tbl, lev), NEW v \in Addresses
    PROVE  MmuOf(Added(tbl, at, i, new), r, v) = MmuOf(tbl, r, v)
<1>1. PICK tbl2 : tbl2 = Added(tbl, at, i, new)
  OBVIOUS
<1>0. SUFFICES MmuOf(tbl2, r, v) = MmuOf(tbl, r, v)
  BY <1>1
<1>i. IsAdded(tbl, at, i, new, tbl2)
  BY <1>1, AddedEntries
<1>2. /\ \A j \in Index : tbl2[new][j] = NULL
      /\ tbl2[at][i] = Entry(new, FALSE, TRUE)
      /\ \A t \in DOMAIN tbl, j \in Index : t # at \/ j # i => tbl2[t][j] = tbl[t][j]
  BY <1>i DEF IsAdded
<1>3. /\ Entry(new, FALSE, TRUE).page = new /\ ~Entry(new, FALSE, TRUE).huge
      /\ Entry(new, FALSE, TRUE) # NULL
  BY EntryTyped DEF CanAdd
<1>4. Tab(tbl, f, lev) /\ lev[at] > 1 /\ tbl[at][i] = NULL
  BY DEF CanAdd
<1>5. v[1] \in Index /\ v[2] \in Index /\ v[3] \in Index /\ v[4] \in Index /\ r \in DOMAIN tbl
  BY DEF Addresses, Tops
<1>6. /\ H3(tbl, r, v) => T3(tbl, r, v) \in DOMAIN tbl
      /\ H2(tbl, r, v) => T2(tbl, r, v) \in DOMAIN tbl
      /\ H1(tbl, r, v) => T1(tbl, r, v) \in DOMAIN tbl /\ lev[T1(tbl, r, v)] = 1
  BY <1>4, Levels
<1>7. \A t \in DOMAIN tbl, j \in Index :
        /\ tbl[t][j] # NULL => tbl2[t][j] = tbl[t][j]
        /\ tbl[t][j] = NULL => \/ tbl2[t][j] = NULL
                               \/ tbl2[t][j] # NULL /\ tbl2[t][j].page = new /\ ~tbl2[t][j].huge
        /\ ~(lev[t] > 1) => tbl2[t][j] = tbl[t][j]
  BY <1>2, <1>3, <1>4
<1>8. H3(tbl, r, v) <=> E4(tbl, r, v) # NULL
  BY <1>4, MmuForm
<1>10. CASE ~H3(tbl, r, v)
  <2>1. MmuOf(tbl, r, v) = NULL
    BY <1>4, <1>10, MmuForm
  <2>2. \/ E4(tbl2, r, v) = NULL
        \/ E4(tbl2, r, v) # NULL /\ E3(tbl2, r, v) = NULL
    BY <1>2, <1>5, <1>7, <1>8, <1>10 DEF E4, E3, T3
  <2> QED
    BY <2>1, <2>2, MmuNull
<1>11. CASE H3(tbl, r, v) /\ ~H2(tbl, r, v)
  <2>1. tbl2[r][v[4]] = tbl[r][v[4]] /\ tbl[r][v[4]] # NULL
    BY <1>5, <1>7, <1>8, <1>11 DEF E4
  <2>t. T3(tbl2, r, v) = T3(tbl, r, v) /\ T3(tbl, r, v) \in DOMAIN tbl
    BY <2>1, <1>6, <1>11 DEF T3
  <2>2. CASE tbl[T3(tbl, r, v)][v[3]] = NULL
    <3>1. MmuOf(tbl, r, v) = NULL
      BY <2>1, <2>2, MmuNull DEF E3, E4
    <3>2. \/ E4(tbl2, r, v) # NULL /\ E3(tbl2, r, v) = NULL
          \/ E4(tbl2, r, v) # NULL /\ Goes(tbl2, T3(tbl2, r, v), v[3]) /\ E2(tbl2, r, v) = NULL
      BY <1>2, <1>5, <1>7, <2>1, <2>t, <2>2 DEF E4, E3, E2, Goes, T2
    <3> QED
      BY <3>1, <3>2, MmuNull
  <2>3. CASE tbl[T3(tbl, r, v)][v[3]] # NULL
    <3>1. tbl2[T3(tbl, r, v)][v[3]] = tbl[T3(tbl, r, v)][v[3]]
      BY <1>5, <1>7, <2>t, <2>3
    <3> QED
      BY <1>4, <1>11, <2>1, <3>1, MmuSame DEF H1
  <2> QED
    BY <2>2, <2>3
<1>12. CASE H2(tbl, r, v) /\ ~H1(tbl, r, v)
  <2>1. tbl2[r][v[4]] = tbl[r][v[4]] /\ tbl[r][v[4]] # NULL
    BY <1>5, <1>7, <1>8, <1>12 DEF E4, H2
  <2>2. /\ tbl2[T3(tbl, r, v)][v[3]] = tbl[T3(tbl, r, v)][v[3]]
        /\ tbl[T3(tbl, r, v)][v[3]] # NULL /\ ~tbl[T3(tbl, r, v)][v[3]].huge
    BY <1>5, <1>6, <1>7, <1>12 DEF H2, Goes
  <2>t. /\ T3(tbl2, r, v) = T3(tbl, r, v)
        /\ T2(tbl2, r, v) = T2(tbl, r, v) /\ T2(tbl, r, v) \in DOMAIN tbl
    BY <2>1, <2>2, <1>6, <1>12 DEF T3, T2
  <2>3. CASE tbl[T2(tbl, r, v)][v[2]] = NULL
    <3>1. MmuOf(tbl, r, v) = NULL
      BY <2>1, <2>2, <2>3, MmuNull DEF Goes, E2, E4
    <3>2. E4(tbl2, r, v) # NULL /\ Goes(tbl2, T3(tbl2, r, v), v[3])
      BY <2>1, <2>2, <2>t DEF E4, Goes
    <3>3. CASE tbl2[T2(tbl, r, v)][v[2]] = NULL
      BY <3>1, <3>2, <3>3, <2>t, MmuNull DEF E2
    <3>4. CASE tbl2[T2(tbl, r, v)][v[2]] # NULL
      <4>1. Goes(tbl2, T2(tbl2, r, v), v[2]) /\ E1(tbl2, r, v) = NULL
        BY <3>4, <2>3, <2>t, <1>2, <1>5, <1>7 DEF Goes, E1, T1
      <4> QED
        BY <3>1, <3>2, <4>1, MmuNull1
    <3> QED
      BY <3>3, <3>4
  <2>4. CASE tbl[T2(tbl, r, v)][v[2]] # NULL
    <3>1. tbl2[T2(tbl, r, v)][v[2]] = tbl[T2(tbl, r, v)][v[2]]
      BY <1>5, <1>7, <2>t, <2>4
    <3> QED
      BY <1>4, <1>12, <2>1, <2>2, <3>1, MmuSame
  <2> QED
    BY <2>3, <2>4
<1>13. CASE H1(tbl, r, v)
  <2>1. tbl2[r][v[4]] = tbl[r][v[4]]
    BY <1>5, <1>7, <1>8, <1>13 DEF E4, H2, H1
  <2>2. tbl2[T3(tbl, r, v)][v[3]] = tbl[T3(tbl, r, v)][v[3]]
    BY <1>5, <1>6, <1>7, <1>13 DEF H2, H1, Goes
  <2>3. tbl2[T2(tbl, r, v)][v[2]] = tbl[T2(tbl, r, v)][v[2]]
    BY <1>5, <1>6, <1>7, <1>13 DEF H1, Goes
  <2>4. tbl2[T1(tbl, r, v)][v[1]] = tbl[T1(tbl, r, v)][v[1]]
    BY <1>5, <1>6, <1>7, <1>13
  <2> QED
    BY <1>4, <2>1, <2>2, <2>3, <2>4, MmuSame
<1> QED
  BY <1>10, <1>11, <1>12, <1>13 DEF H1, H2

-----------------------------------------------------------------------------
(* A leaf is written: an entry for a page that was free, or none.          *)

Written(tbl, t, i, e) == [tbl EXCEPT ![t][i] = e]

CanWrite(tbl, f, g, lev, t, i, e) ==
    /\ Tab(tbl, f, lev)
    /\ t \in DOMAIN tbl /\ lev[t] = 1 /\ i \in Index
    /\ g \subseteq f
    /\ e \in Entries \cup {NULL}
    /\ e # NULL => e.page \in f /\ e.page \notin g

LEMMA WrittenEntries ==
    ASSUME NEW tbl, NEW f, NEW lev, NEW g, NEW t, NEW i, NEW e, CanWrite(tbl, f, g, lev, t, i, e)
    PROVE  /\ DOMAIN Written(tbl, t, i, e) = DOMAIN tbl
           /\ Written(tbl, t, i, e)[t][i] = e
           /\ \A s \in DOMAIN tbl, j \in Index : s # t \/ j # i => Written(tbl, t, i, e)[s][j] = tbl[s][j]
           /\ Written(tbl, t, i, e) \in [DOMAIN tbl -> [Index -> Entries \cup {NULL}]]
<1>1. /\ tbl \in [DOMAIN tbl -> [Index -> Entries \cup {NULL}]]
      /\ t \in DOMAIN tbl /\ i \in Index /\ e \in Entries \cup {NULL}
  BY DEF CanWrite, Tab, Typed
<1> QED
  BY <1>1 DEF Written

LEMMA WriteTab ==
    ASSUME NEW tbl, NEW f, NEW lev, NEW g, NEW t, NEW i, NEW e, CanWrite(tbl, f, g, lev, t, i, e)
    PROVE  Tab(Written(tbl, t, i, e), g, lev)
<1>1. PICK tbl2 : tbl2 = Written(tbl, t, i, e)
  OBVIOUS
<1>2. /\ DOMAIN tbl2 = DOMAIN tbl /\ tbl2[t][i] = e
      /\ \A s \in DOMAIN tbl, j \in Index : s # t \/ j # i => tbl2[s][j] = tbl[s][j]
      /\ tbl2 \in [DOMAIN tbl -> [Index -> Entries \cup {NULL}]]
  BY <1>1, WrittenEntries
<1>3. /\ Tab(tbl, f, lev) /\ t \in DOMAIN tbl /\ lev[t] = 1 /\ i \in Index /\ g \subseteq f
      /\ e # NULL => e.page \in f /\ e.page \notin g
  BY DEF CanWrite
<1>4. \A s \in DOMAIN tbl, j \in Index : tbl[s][j] # NULL => tbl[s][j].page \notin f
  BY <1>3 DEF Tab, EntriesOK, EntryOK
<1>5. Typed(tbl2, lev) /\ DOMAIN tbl2 \cap g = {}
  BY <1>2, <1>3 DEF Tab, Typed
<1>6. EntriesOK(tbl2, g, lev)
  <2>1. SUFFICES ASSUME NEW s \in DOMAIN tbl, NEW j \in Index, tbl2[s][j] # NULL
                 PROVE  EntryOK(tbl2, g, lev, s, tbl2[s][j])
    BY <1>2 DEF EntriesOK
  <2>2. CASE s = t /\ j = i
    <3>1. e.page \notin DOMAIN tbl
      BY <2>1, <2>2, <1>2, <1>3 DEF Tab
    <3> QED
      BY <3>1, <2>1, <2>2, <1>2, <1>3 DEF EntryOK
  <2>3. CASE s # t \/ j # i
    <3>1. tbl2[s][j] = tbl[s][j] /\ EntryOK(tbl, f, lev, s, tbl[s][j])
      BY <2>1, <2>3, <1>2, <1>3 DEF Tab, EntriesOK
    <3> QED
      BY <3>1, <1>2, <1>3 DEF EntryOK
  <2> QED
    BY <2>2, <2>3
<1>7. Alone(tbl2, lev)
  <2>1. SUFFICES ASSUME NEW s \in DOMAIN tbl, NEW q \in DOMAIN tbl,
                        NEW k \in Index, NEW j \in Index,
                        tbl2[s][k] # NULL, tbl2[q][j] # NULL, tbl2[s][k].page = tbl2[q][j].page
                 PROVE  \/ s = q /\ k = j
                        \/ lev[s] = 4 /\ lev[q] = 4 /\ k = j /\ k \notin Slots(UserVA)
    BY <1>2 DEF Alone
  <2>2. CASE s = t /\ k = i
    <3>1. tbl2[q][j].page \in f
      BY <2>1, <2>2, <1>2, <1>3
    <3> QED
      BY <3>1, <2>1, <2>2, <1>2, <1>4
  <2>3. CASE q = t /\ j = i
    <3>1. tbl2[s][k].page \in f
      BY <2>1, <2>3, <1>2, <1>3
    <3> QED
      BY <3>1, <2>1, <2>3, <1>2, <1>4
  <2>4. CASE ~(s = t /\ k = i) /\ ~(q = t /\ j = i)
    <3>1. tbl2[s][k] = tbl[s][k] /\ tbl2[q][j] = tbl[q][j]
      BY <2>4, <1>2
    <3> QED
      BY <3>1, <2>1, <1>3 DEF Tab, Alone
  <2> QED
    BY <2>2, <2>3, <2>4
<1> QED
  BY <1>1, <1>5, <1>6, <1>7 DEF Tab

(* Two PML4s with the same entry for an address share its tables.          *)
LEMMA SameSlot ==
    ASSUME NEW tbl, NEW r, NEW s, NEW v, tbl[r][v[4]] = tbl[s][v[4]]
    PROVE  /\ H3(tbl, r, v) <=> H3(tbl, s, v)
           /\ H2(tbl, r, v) <=> H2(tbl, s, v)
           /\ H1(tbl, r, v) <=> H1(tbl, s, v)
           /\ T3(tbl, r, v) = T3(tbl, s, v)
           /\ T2(tbl, r, v) = T2(tbl, s, v)
           /\ T1(tbl, r, v) = T1(tbl, s, v)
           /\ MmuOf(tbl, r, v) = MmuOf(tbl, s, v)
<1>1. T3(tbl, r, v) = T3(tbl, s, v) /\ (H3(tbl, r, v) <=> H3(tbl, s, v))
  BY DEF T3, H3, Goes
<1>2. T2(tbl, r, v) = T2(tbl, s, v) /\ (H2(tbl, r, v) <=> H2(tbl, s, v))
  BY <1>1 DEF T2, H2
<1>3. T1(tbl, r, v) = T1(tbl, s, v) /\ (H1(tbl, r, v) <=> H1(tbl, s, v))
  BY <1>2 DEF T1, H1
<1>4. MmuOf(tbl, r, v) = MmuOf(tbl, s, v)
  BY DEF MmuOf
<1> QED
  BY <1>1, <1>2, <1>3, <1>4

CanWriteAt(tbl, f, g, lev, s, u, e) ==
    /\ s \in Tops(tbl, lev) /\ u \in Addresses /\ H1(tbl, s, u)
    /\ CanWrite(tbl, f, g, lev, T1(tbl, s, u), u[1], e)

(* ... changes the translation of one address, in the spaces that share    *)
(* its entry.                                                              *)
LEMMA WriteMmu ==
    ASSUME NEW tbl, NEW f, NEW lev, NEW g, NEW e,
           NEW s, NEW u, CanWriteAt(tbl, f, g, lev, s, u, e),
           NEW r \in Tops(tbl, lev), NEW v \in Addresses,
           v # u \/ (r # s /\ u[4] \in Slots(UserVA))
    PROVE  MmuOf(Written(tbl, T1(tbl, s, u), u[1], e), r, v) = MmuOf(tbl, r, v)
<1>0. /\ s \in Tops(tbl, lev) /\ u \in Addresses /\ H1(tbl, s, u)
      /\ CanWrite(tbl, f, g, lev, T1(tbl, s, u), u[1], e)
  BY DEF CanWriteAt
<1>1. PICK t : t = T1(tbl, s, u)
  OBVIOUS
<1>2. PICK tbl2 : tbl2 = Written(tbl, t, u[1], e)
  OBVIOUS
<1>3. \A q \in DOMAIN tbl, j \in Index : q # t \/ j # u[1] => tbl2[q][j] = tbl[q][j]
  BY <1>0, <1>1, <1>2, WrittenEntries
<1>4. Tab(tbl, f, lev)
  BY <1>0 DEF CanWrite
<1>5. v[1] \in Index /\ v[2] \in Index /\ v[3] \in Index /\ v[4] \in Index /\ r \in DOMAIN tbl
  BY <1>0 DEF Addresses, Tops
<1>6. /\ lev[r] = 4 /\ lev[t] = 1
      /\ H3(tbl, r, v) => T3(tbl, r, v) \in DOMAIN tbl /\ lev[T3(tbl, r, v)] = 3
      /\ H2(tbl, r, v) => T2(tbl, r, v) \in DOMAIN tbl /\ lev[T2(tbl, r, v)] = 2
      /\ H1(tbl, r, v) => T1(tbl, r, v) \in DOMAIN tbl
  BY <1>0, <1>1, <1>4, Levels DEF Tops
<1>7. H1(tbl, r, v) => T1(tbl, r, v) # t \/ v[1] # u[1]
  <2>1. SUFFICES ASSUME H1(tbl, r, v), T1(tbl, r, v) = t, v[1] = u[1]
                 PROVE  FALSE
    OBVIOUS
  <2>2. Met(r, v, s, u) /\ v[3] = u[3] /\ v[2] = u[2]
    BY <1>0, <1>1, <1>4, <2>1, Meeting
  <2>3. v = u
    <3>1. \A k \in 1..4 : k = 1 \/ k = 2 \/ k = 3 \/ k = 4
      OBVIOUS
    <3>2. \A k \in 1..4 : v[k] = u[k]
      BY <1>0, <2>1, <2>2, <3>1 DEF Met
    <3> QED
      BY <1>0, <3>2 DEF Addresses
  <2> QED
    BY <1>0, <2>2, <2>3 DEF Met
<1>8. /\ tbl2[r][v[4]] = tbl[r][v[4]]
      /\ H3(tbl, r, v) => tbl2[T3(tbl, r, v)][v[3]] = tbl[T3(tbl, r, v)][v[3]]
      /\ H2(tbl, r, v) => tbl2[T2(tbl, r, v)][v[2]] = tbl[T2(tbl, r, v)][v[2]]
      /\ H1(tbl, r, v) => tbl2[T1(tbl, r, v)][v[1]] = tbl[T1(tbl, r, v)][v[1]]
  BY <1>0, <1>3, <1>5, <1>6, <1>7
<1>9. MmuOf(tbl2, r, v) = MmuOf(tbl, r, v)
  BY <1>0, <1>4, <1>8, MmuSame
<1> QED
  BY <1>0, <1>1, <1>2, <1>9

(* ... to the page entered, if there is one.                               *)
LEMMA WriteHere ==
    ASSUME NEW tbl, NEW f, NEW lev, NEW g, NEW e,
           NEW s, NEW u, CanWriteAt(tbl, f, g, lev, s, u, e)
    PROVE  LET t == MmuOf(Written(tbl, T1(tbl, s, u), u[1], e), s, u) IN
           /\ Leaf(u, t, e, 1)
           /\ t # NULL => (t.user <=> /\ E4(tbl, s, u).user /\ E3(tbl, s, u).user
                                      /\ E2(tbl, s, u).user /\ e.user)
<1>0. /\ s \in Tops(tbl, lev) /\ u \in Addresses /\ H1(tbl, s, u)
      /\ CanWrite(tbl, f, g, lev, T1(tbl, s, u), u[1], e)
  BY DEF CanWriteAt
<1>1. PICK t : t = T1(tbl, s, u)
  OBVIOUS
<1>2. PICK tbl2 : tbl2 = Written(tbl, t, u[1], e)
  OBVIOUS
<1>3. /\ DOMAIN tbl2 = DOMAIN tbl /\ tbl2[t][u[1]] = e
      /\ \A q \in DOMAIN tbl, j \in Index : q # t \/ j # u[1] => tbl2[q][j] = tbl[q][j]
  BY <1>0, <1>1, <1>2, WrittenEntries
<1>4. Tab(tbl, f, lev) /\ Tab(tbl2, g, lev)
  BY <1>0, <1>1, <1>2, WriteTab DEF CanWrite
<1>5. u[1] \in Index /\ u[2] \in Index /\ u[3] \in Index /\ u[4] \in Index /\ s \in DOMAIN tbl
  BY <1>0 DEF Addresses, Tops
<1>6. /\ lev[s] = 4 /\ lev[t] = 1
      /\ T3(tbl, s, u) \in DOMAIN tbl /\ lev[T3(tbl, s, u)] = 3
      /\ T2(tbl, s, u) \in DOMAIN tbl /\ lev[T2(tbl, s, u)] = 2
  BY <1>0, <1>1, <1>4, Levels DEF Tops, H1, H2
<1>7. /\ E4(tbl2, s, u) = E4(tbl, s, u) /\ T3(tbl2, s, u) = T3(tbl, s, u)
      /\ Goes(tbl2, s, u[4])
  BY <1>0, <1>3, <1>5, <1>6 DEF E4, T3, H1, H2, H3, Goes
<1>8. /\ E3(tbl2, s, u) = E3(tbl, s, u) /\ T2(tbl2, s, u) = T2(tbl, s, u)
      /\ Goes(tbl2, T3(tbl2, s, u), u[3])
  BY <1>0, <1>3, <1>5, <1>6, <1>7 DEF E3, T2, H1, H2, Goes
<1>9. /\ E2(tbl2, s, u) = E2(tbl, s, u) /\ T1(tbl2, s, u) = t
      /\ Goes(tbl2, T2(tbl2, s, u), u[2])
  BY <1>0, <1>1, <1>3, <1>5, <1>6, <1>8 DEF E2, T1, H1, Goes
<1>10. H1(tbl2, s, u) /\ E1(tbl2, s, u) = e
  BY <1>0, <1>3, <1>7, <1>8, <1>9 DEF H1, H2, H3, E1
<1>11. s \in Tops(tbl2, lev)
  BY <1>0, <1>3 DEF Tops
<1>12. LET t2 == MmuOf(tbl2, s, u) IN
          /\ Leaf(u, t2, E1(tbl2, s, u), 1)
          /\ t2 # NULL => (t2.user <=> /\ E4(tbl2, s, u).user /\ E3(tbl2, s, u).user
                                       /\ E2(tbl2, s, u).user /\ E1(tbl2, s, u).user)
  BY <1>0, <1>4, <1>10, <1>11, MmuLeaf
<1> QED
  BY <1>0, <1>1, <1>2, <1>7, <1>8, <1>9, <1>10, <1>12

-----------------------------------------------------------------------------
(* OpenToUser sets a flag in the three entries above a page.               *)

OnWay(tbl, s, u, t, i) ==
    \/ t = s /\ i = u[4]
    \/ t = T3(tbl, s, u) /\ i = u[3]
    \/ t = T2(tbl, s, u) /\ i = u[2]

Opened(e) == [e EXCEPT !.user = TRUE]

LEMMA OpenedEntry ==
    ASSUME NEW e \in Entries
    PROVE  /\ Opened(e) \in Entries /\ Opened(e) # NULL
           /\ Opened(e).page = e.page /\ Opened(e).huge = e.huge
           /\ Opened(e).user = TRUE
           /\ e.user => Opened(e) = e
<1>1. Opened(e) \in Entries
  BY DEF Opened, Entries
<1>2. Opened(e) # NULL
  BY <1>1, PageTableAssumption
<1>3. e.user => Opened(e) = e
  BY DEF Opened, Entries
<1> QED
  BY <1>1, <1>2, <1>3 DEF Opened, Entries

CanOpen(tbl, f, lev, s, u) ==
    /\ Tab(tbl, f, lev)
    /\ s \in Tops(tbl, lev) /\ u \in Addresses
    /\ H1(tbl, s, u)

LEMMA WayTables ==
    ASSUME NEW tbl, NEW f, NEW lev, NEW s, NEW u, CanOpen(tbl, f, lev, s, u)
    PROVE  /\ s \in DOMAIN tbl /\ lev[s] = 4
           /\ T3(tbl, s, u) \in DOMAIN tbl /\ lev[T3(tbl, s, u)] = 3
           /\ T2(tbl, s, u) \in DOMAIN tbl /\ lev[T2(tbl, s, u)] = 2
           /\ T1(tbl, s, u) \in DOMAIN tbl /\ lev[T1(tbl, s, u)] = 1
           /\ u[1] \in Index /\ u[2] \in Index /\ u[3] \in Index /\ u[4] \in Index
           /\ tbl[s][u[4]] \in Entries /\ tbl[s][u[4]] # NULL
           /\ tbl[T3(tbl, s, u)][u[3]] \in Entries /\ tbl[T3(tbl, s, u)][u[3]] # NULL
           /\ tbl[T2(tbl, s, u)][u[2]] \in Entries /\ tbl[T2(tbl, s, u)][u[2]] # NULL
<1>1. Tab(tbl, f, lev) /\ s \in Tops(tbl, lev) /\ u \in Addresses /\ H1(tbl, s, u)
  BY DEF CanOpen
<1>2. u[1] \in Index /\ u[2] \in Index /\ u[3] \in Index /\ u[4] \in Index
  BY <1>1 DEF Addresses
<1>3. /\ s \in DOMAIN tbl /\ lev[s] = 4
      /\ T3(tbl, s, u) \in DOMAIN tbl /\ lev[T3(tbl, s, u)] = 3
      /\ T2(tbl, s, u) \in DOMAIN tbl /\ lev[T2(tbl, s, u)] = 2
      /\ T1(tbl, s, u) \in DOMAIN tbl /\ lev[T1(tbl, s, u)] = 1
  BY <1>1, Levels DEF Tops, H1, H2
<1>4. \A t \in DOMAIN tbl, i \in Index : tbl[t][i] # NULL => tbl[t][i] \in Entries
  BY <1>1 DEF Tab, Typed
<1> QED
  BY <1>1, <1>2, <1>3, <1>4 DEF H1, H2, H3, Goes

LEMMA OpenEntries ==
    ASSUME NEW tbl, NEW f, NEW lev, NEW s, NEW u, CanOpen(tbl, f, lev, s, u)
    PROVE  /\ DOMAIN OpenToUser(tbl, s, u) = DOMAIN tbl
           /\ \A t \in DOMAIN tbl, i \in Index :
                /\ OnWay(tbl, s, u, t, i) => OpenToUser(tbl, s, u)[t][i] = Opened(tbl[t][i])
                /\ ~OnWay(tbl, s, u, t, i) => OpenToUser(tbl, s, u)[t][i] = tbl[t][i]
           /\ OpenToUser(tbl, s, u) \in [DOMAIN tbl -> [Index -> Entries \cup {NULL}]]
<1>1. tbl \in [DOMAIN tbl -> [Index -> Entries \cup {NULL}]]
  BY DEF CanOpen, Tab, Typed
<1>2. PICK t3 : t3 = T3(tbl, s, u)
  OBVIOUS
<1>3. PICK t2 : t2 = T2(tbl, s, u)
  OBVIOUS
<1>4. /\ s \in DOMAIN tbl /\ t3 \in DOMAIN tbl /\ t2 \in DOMAIN tbl
      /\ s # t3 /\ s # t2 /\ t2 # t3
      /\ u[2] \in Index /\ u[3] \in Index /\ u[4] \in Index
      /\ tbl[s][u[4]] \in Entries /\ tbl[t3][u[3]] \in Entries /\ tbl[t2][u[2]] \in Entries
  BY <1>2, <1>3, WayTables
<1>e. PICK X : X = Entries \cup {NULL}
  OBVIOUS
<1>5. PICK a : a = Written(tbl, s, u[4], Opened(tbl[s][u[4]]))
  OBVIOUS
<1>6. PICK b : b = Written(a, t3, u[3], Opened(a[t3][u[3]]))
  OBVIOUS
<1>7. PICK c : c = Written(b, t2, u[2], Opened(b[t2][u[2]]))
  OBVIOUS
<1>8. OpenToUser(tbl, s, u) = c
  BY <1>2, <1>3, <1>5, <1>6, <1>7 DEF OpenToUser, Opened, T3, T2, Written
<1>9. /\ a \in [DOMAIN tbl -> [Index -> X]]
      /\ a[s][u[4]] = Opened(tbl[s][u[4]])
      /\ \A t \in DOMAIN tbl, i \in Index : t # s \/ i # u[4] => a[t][i] = tbl[t][i]
  <2>1. Opened(tbl[s][u[4]]) \in X
    BY <1>e, <1>4, OpenedEntry
  <2>2. tbl \in [DOMAIN tbl -> [Index -> X]]
    BY <1>1, <1>e
  <2>3. PICK D, e : D = DOMAIN tbl /\ e = Opened(tbl[s][u[4]])
    OBVIOUS
  <2>4. tbl \in [D -> [Index -> X]] /\ s \in D /\ u[4] \in Index /\ e \in X
    BY <2>1, <2>2, <2>3, <1>4
  <2>5. /\ Written(tbl, s, u[4], e) \in [D -> [Index -> X]]
        /\ Written(tbl, s, u[4], e)[s][u[4]] = e
        /\ \A t \in D, i \in Index : t # s \/ i # u[4] => Written(tbl, s, u[4], e)[t][i] = tbl[t][i]
    BY <2>4 DEF Written
  <2> QED
    BY <2>3, <2>5, <1>5
<1>10. /\ b \in [DOMAIN tbl -> [Index -> X]]
       /\ b[t3][u[3]] = Opened(tbl[t3][u[3]])
       /\ \A t \in DOMAIN tbl, i \in Index : t # t3 \/ i # u[3] => b[t][i] = a[t][i]
  <2>1. a[t3][u[3]] = tbl[t3][u[3]]
    BY <1>4, <1>9
  <2>2. Opened(a[t3][u[3]]) \in X
    BY <2>1, <1>e, <1>4, OpenedEntry
  <2>3. PICK D, e : D = DOMAIN tbl /\ e = Opened(a[t3][u[3]])
    OBVIOUS
  <2>4. a \in [D -> [Index -> X]] /\ t3 \in D /\ u[3] \in Index /\ e \in X
    BY <2>2, <2>3, <1>4, <1>9
  <2>5. /\ Written(a, t3, u[3], e) \in [D -> [Index -> X]]
        /\ Written(a, t3, u[3], e)[t3][u[3]] = e
        /\ \A t \in D, i \in Index : t # t3 \/ i # u[3] => Written(a, t3, u[3], e)[t][i] = a[t][i]
    BY <2>4 DEF Written
  <2> QED
    BY <2>1, <2>3, <2>5, <1>6
<1>11. /\ c \in [DOMAIN tbl -> [Index -> X]]
       /\ c[t2][u[2]] = Opened(tbl[t2][u[2]])
       /\ \A t \in DOMAIN tbl, i \in Index : t # t2 \/ i # u[2] => c[t][i] = b[t][i]
  <2>1. b[t2][u[2]] = tbl[t2][u[2]]
    BY <1>4, <1>9, <1>10
  <2>2. Opened(b[t2][u[2]]) \in X
    BY <2>1, <1>e, <1>4, OpenedEntry
  <2>3. PICK D, e : D = DOMAIN tbl /\ e = Opened(b[t2][u[2]])
    OBVIOUS
  <2>4. b \in [D -> [Index -> X]] /\ t2 \in D /\ u[2] \in Index /\ e \in X
    BY <2>2, <2>3, <1>4, <1>10
  <2>5. /\ Written(b, t2, u[2], e) \in [D -> [Index -> X]]
        /\ Written(b, t2, u[2], e)[t2][u[2]] = e
        /\ \A t \in D, i \in Index : t # t2 \/ i # u[2] => Written(b, t2, u[2], e)[t][i] = b[t][i]
    BY <2>4 DEF Written
  <2> QED
    BY <2>1, <2>3, <2>5, <1>7
<1>12. \A t \in DOMAIN tbl, i \in Index :
         /\ OnWay(tbl, s, u, t, i) => c[t][i] = Opened(tbl[t][i])
         /\ ~OnWay(tbl, s, u, t, i) => c[t][i] = tbl[t][i]
  BY <1>2, <1>3, <1>4, <1>9, <1>10, <1>11 DEF OnWay
<1>13. DOMAIN c = DOMAIN tbl
  BY <1>11
<1> QED
  BY <1>e, <1>8, <1>11, <1>12, <1>13

(* Pages and sizes are unchanged, so the tables are as well formed.        *)
Alike(tbl, tbl2) ==
    \A t \in DOMAIN tbl, i \in Index :
        /\ tbl2[t][i] # NULL <=> tbl[t][i] # NULL
        /\ tbl[t][i] # NULL => /\ tbl2[t][i].page = tbl[t][i].page
                               /\ tbl2[t][i].huge = tbl[t][i].huge

LEMMA OpenAlike ==
    ASSUME NEW tbl, NEW f, NEW lev, NEW s, NEW u, CanOpen(tbl, f, lev, s, u)
    PROVE  Alike(tbl, OpenToUser(tbl, s, u))
<1>1. PICK tbl2 : tbl2 = OpenToUser(tbl, s, u)
  OBVIOUS
<1>2. \A t \in DOMAIN tbl, i \in Index :
         /\ OnWay(tbl, s, u, t, i) => tbl2[t][i] = Opened(tbl[t][i])
         /\ ~OnWay(tbl, s, u, t, i) => tbl2[t][i] = tbl[t][i]
  BY <1>1, OpenEntries
<1>3. \A t, i : OnWay(tbl, s, u, t, i) => tbl[t][i] \in Entries /\ tbl[t][i] # NULL
  BY WayTables DEF OnWay
<1>4. ASSUME NEW t \in DOMAIN tbl, NEW i \in Index
      PROVE  /\ tbl2[t][i] # NULL <=> tbl[t][i] # NULL
             /\ tbl[t][i] # NULL => /\ tbl2[t][i].page = tbl[t][i].page
                                    /\ tbl2[t][i].huge = tbl[t][i].huge
  <2>1. CASE OnWay(tbl, s, u, t, i)
    <3>1. PICK e : e = tbl[t][i]
      OBVIOUS
    <3>2. e \in Entries /\ e # NULL /\ tbl2[t][i] = Opened(e)
      BY <2>1, <3>1, <1>2, <1>3
    <3>3. Opened(e) # NULL /\ Opened(e).page = e.page /\ Opened(e).huge = e.huge
      BY <3>2, OpenedEntry
    <3> QED
      BY <3>1, <3>2, <3>3
  <2>2. CASE ~OnWay(tbl, s, u, t, i)
    BY <2>2, <1>2
  <2> QED
    BY <2>1, <2>2
<1> QED
  BY <1>1, <1>4 DEF Alike

LEMMA OpenTab ==
    ASSUME NEW tbl, NEW f, NEW lev, NEW s, NEW u, CanOpen(tbl, f, lev, s, u)
    PROVE  Tab(OpenToUser(tbl, s, u), f, lev)
<1>1. PICK tbl2 : tbl2 = OpenToUser(tbl, s, u)
  OBVIOUS
<1>2. /\ DOMAIN tbl2 = DOMAIN tbl
      /\ tbl2 \in [DOMAIN tbl -> [Index -> Entries \cup {NULL}]]
  BY <1>1, OpenEntries
<1>3. Alike(tbl, tbl2)
  BY <1>1, OpenAlike
<1>4. Tab(tbl, f, lev)
  BY DEF CanOpen
<1>5. Typed(tbl2, lev) /\ DOMAIN tbl2 \cap f = {}
  BY <1>2, <1>4 DEF Tab, Typed
<1>6. EntriesOK(tbl2, f, lev)
  BY <1>2, <1>3, <1>4 DEF Tab, EntriesOK, EntryOK, Alike
<1>7. Alone(tbl2, lev)
  BY <1>2, <1>3, <1>4 DEF Tab, Alone, Alike
<1> QED
  BY <1>1, <1>5, <1>6, <1>7 DEF Tab

(* ... and every walk takes the same way.                                  *)
LEMMA AlikeWay ==
    ASSUME NEW tbl, NEW f, NEW lev, Tab(tbl, f, lev), NEW tbl2, Alike(tbl, tbl2),
           NEW r \in Tops(tbl, lev), NEW v \in Addresses
    PROVE  /\ H3(tbl2, r, v) <=> H3(tbl, r, v)
           /\ H2(tbl2, r, v) <=> H2(tbl, r, v)
           /\ H1(tbl2, r, v) <=> H1(tbl, r, v)
           /\ H3(tbl, r, v) => T3(tbl2, r, v) = T3(tbl, r, v)
           /\ H2(tbl, r, v) => T2(tbl2, r, v) = T2(tbl, r, v)
           /\ H1(tbl, r, v) => T1(tbl2, r, v) = T1(tbl, r, v)
<1>1. v[1] \in Index /\ v[2] \in Index /\ v[3] \in Index /\ v[4] \in Index /\ r \in DOMAIN tbl
  BY DEF Addresses, Tops
<1>2. /\ H3(tbl, r, v) => T3(tbl, r, v) \in DOMAIN tbl
      /\ H2(tbl, r, v) => T2(tbl, r, v) \in DOMAIN tbl
  BY Levels
<1>3. \A t \in DOMAIN tbl, i \in Index :
        /\ Goes(tbl2, t, i) <=> Goes(tbl, t, i)
        /\ Goes(tbl, t, i) => tbl2[t][i].page = tbl[t][i].page
  BY DEF Alike, Goes
<1>4. (H3(tbl2, r, v) <=> H3(tbl, r, v)) /\ (H3(tbl, r, v) => T3(tbl2, r, v) = T3(tbl, r, v))
  BY <1>1, <1>3 DEF H3, T3
<1>5. (H2(tbl2, r, v) <=> H2(tbl, r, v)) /\ (H2(tbl, r, v) => T2(tbl2, r, v) = T2(tbl, r, v))
  BY <1>1, <1>2, <1>3, <1>4 DEF H2, T2
<1>6. (H1(tbl2, r, v) <=> H1(tbl, r, v)) /\ (H1(tbl, r, v) => T1(tbl2, r, v) = T1(tbl, r, v))
  BY <1>1, <1>2, <1>3, <1>5 DEF H1, T1
<1> QED
  BY <1>4, <1>5, <1>6

(* Below a slot of the user half the flags change no other space, and no   *)
(* translation that is open already.                                       *)
LEMMA OpenMmu ==
    ASSUME NEW tbl, NEW f, NEW lev, NEW s, NEW u, CanOpen(tbl, f, lev, s, u),
           u[4] \in Slots(UserVA), NEW r \in Tops(tbl, lev), NEW v \in Addresses,
           \/ r # s \/ v[4] # u[4]
           \/ MmuOf(tbl, r, v) = NULL
           \/ MmuOf(tbl, r, v) # NULL /\ MmuOf(tbl, r, v).user
    PROVE  MmuOf(OpenToUser(tbl, s, u), r, v) = MmuOf(tbl, r, v)
<1>1. PICK tbl2 : tbl2 = OpenToUser(tbl, s, u)
  OBVIOUS
<1>0. SUFFICES MmuOf(tbl2, r, v) = MmuOf(tbl, r, v)
  BY <1>1
<1>2. /\ DOMAIN tbl2 = DOMAIN tbl
      /\ \A t \in DOMAIN tbl, i \in Index :
           /\ OnWay(tbl, s, u, t, i) => tbl2[t][i] = Opened(tbl[t][i])
           /\ ~OnWay(tbl, s, u, t, i) => tbl2[t][i] = tbl[t][i]
  BY <1>1, OpenEntries
<1>3. Tab(tbl, f, lev) /\ Tab(tbl2, f, lev) /\ Alike(tbl, tbl2)
  BY <1>1, OpenTab, OpenAlike DEF CanOpen
<1>4. /\ v[1] \in Index /\ v[2] \in Index /\ v[3] \in Index /\ v[4] \in Index
      /\ r \in DOMAIN tbl /\ lev[r] = 4
  BY DEF Addresses, Tops
<1>5. /\ H3(tbl, r, v) => T3(tbl, r, v) \in DOMAIN tbl /\ lev[T3(tbl, r, v)] = 3
      /\ H2(tbl, r, v) => T2(tbl, r, v) \in DOMAIN tbl /\ lev[T2(tbl, r, v)] = 2
      /\ H1(tbl, r, v) => T1(tbl, r, v) \in DOMAIN tbl /\ lev[T1(tbl, r, v)] = 1
  BY <1>3, Levels
<1>a. s \in Tops(tbl, lev) /\ u \in Addresses /\ H1(tbl, s, u)
  BY DEF CanOpen
<1>b. lev[s] = 4 /\ lev[T3(tbl, s, u)] = 3 /\ lev[T2(tbl, s, u)] = 2
  BY WayTables
<1>6. /\ s \in Tops(tbl, lev) /\ u \in Addresses /\ H1(tbl, s, u) /\ lev[s] = 4
      /\ lev[T3(tbl, s, u)] = 3 /\ lev[T2(tbl, s, u)] = 2
  BY <1>a, <1>b
<1>7. CASE r # s \/ v[4] # u[4]
  <2>1. ~Met(r, v, s, u)
    BY <1>7 DEF Met
  <2>2. /\ H3(tbl, r, v) => T3(tbl, r, v) # T3(tbl, s, u)
        /\ H2(tbl, r, v) => T2(tbl, r, v) # T2(tbl, s, u)
    BY <1>3, <1>6, <2>1, Meeting DEF H1, H2
  <2>3. ~OnWay(tbl, s, u, r, v[4])
    BY <1>4, <1>6, <1>7 DEF OnWay
  <2>4. H3(tbl, r, v) => ~OnWay(tbl, s, u, T3(tbl, r, v), v[3])
    BY <1>5, <1>6, <2>2 DEF OnWay
  <2>5. H2(tbl, r, v) => ~OnWay(tbl, s, u, T2(tbl, r, v), v[2])
    BY <1>5, <1>6, <2>2 DEF OnWay
  <2>6. H1(tbl, r, v) => ~OnWay(tbl, s, u, T1(tbl, r, v), v[1])
    BY <1>5, <1>6 DEF OnWay
  <2>7. /\ tbl2[r][v[4]] = tbl[r][v[4]]
        /\ H3(tbl, r, v) => tbl2[T3(tbl, r, v)][v[3]] = tbl[T3(tbl, r, v)][v[3]]
        /\ H2(tbl, r, v) => tbl2[T2(tbl, r, v)][v[2]] = tbl[T2(tbl, r, v)][v[2]]
        /\ H1(tbl, r, v) => tbl2[T1(tbl, r, v)][v[1]] = tbl[T1(tbl, r, v)][v[1]]
    BY <1>2, <1>4, <1>5, <2>3, <2>4, <2>5, <2>6
  <2> QED
    BY <1>3, <2>7, MmuSame
<1>8. CASE MmuOf(tbl, r, v) = NULL
  <2>1. /\ H3(tbl2, r, v) <=> H3(tbl, r, v)
        /\ H2(tbl2, r, v) <=> H2(tbl, r, v)
        /\ H1(tbl2, r, v) <=> H1(tbl, r, v)
        /\ H3(tbl, r, v) => T3(tbl2, r, v) = T3(tbl, r, v)
        /\ H2(tbl, r, v) => T2(tbl2, r, v) = T2(tbl, r, v)
        /\ H1(tbl, r, v) => T1(tbl2, r, v) = T1(tbl, r, v)
    BY <1>3, AlikeWay
  <2>2. \A t \in DOMAIN tbl, i \in Index : tbl[t][i] = NULL => tbl2[t][i] = NULL
    BY <1>3 DEF Alike
  <2>3. PICK a : a = MmuOf(tbl, r, v)
    OBVIOUS
  <2>4. PICK b : b = MmuOf(tbl2, r, v)
    OBVIOUS
  <2>5. r \in Tops(tbl2, lev)
    BY <1>2 DEF Tops
  <2>6. /\ H3(tbl, r, v) /\ ~H2(tbl, r, v) => Leaf(v, a, E3(tbl, r, v), 3)
        /\ H2(tbl, r, v) /\ ~H1(tbl, r, v) => Leaf(v, a, E2(tbl, r, v), 2)
        /\ H1(tbl, r, v) => Leaf(v, a, E1(tbl, r, v), 1)
    BY <1>3, <2>3, MmuLeaf
  <2>7. /\ ~H3(tbl2, r, v) => b = NULL
        /\ H3(tbl2, r, v) /\ ~H2(tbl2, r, v) => Leaf(v, b, E3(tbl2, r, v), 3)
        /\ H2(tbl2, r, v) /\ ~H1(tbl2, r, v) => Leaf(v, b, E2(tbl2, r, v), 2)
        /\ H1(tbl2, r, v) => Leaf(v, b, E1(tbl2, r, v), 1)
    BY <1>3, <2>4, <2>5, MmuLeaf
  <2>8. CASE ~H3(tbl, r, v)
    BY <1>8, <2>1, <2>4, <2>7, <2>8
  <2>9. CASE H3(tbl, r, v) /\ ~H2(tbl, r, v)
    <3>1. E3(tbl, r, v) = NULL
      BY <1>8, <2>3, <2>6, <2>9 DEF Leaf
    <3>2. E3(tbl2, r, v) = NULL
      BY <3>1, <1>4, <1>5, <2>1, <2>2, <2>9 DEF E3
    <3> QED
      BY <3>2, <1>8, <2>1, <2>4, <2>7, <2>9 DEF Leaf
  <2>10. CASE H2(tbl, r, v) /\ ~H1(tbl, r, v)
    <3>1. E2(tbl, r, v) = NULL
      BY <1>8, <2>3, <2>6, <2>10 DEF Leaf
    <3>2. E2(tbl2, r, v) = NULL
      BY <3>1, <1>4, <1>5, <2>1, <2>2, <2>10 DEF E2
    <3> QED
      BY <3>2, <1>8, <2>1, <2>4, <2>7, <2>10 DEF Leaf
  <2>11. CASE H1(tbl, r, v)
    <3>1. E1(tbl, r, v) = NULL
      BY <1>8, <2>3, <2>6, <2>11 DEF Leaf
    <3>2. E1(tbl2, r, v) = NULL
      BY <3>1, <1>4, <1>5, <2>1, <2>2, <2>11 DEF E1
    <3> QED
      BY <3>2, <1>8, <2>1, <2>4, <2>7, <2>11 DEF Leaf
  <2> QED
    BY <2>8, <2>9, <2>10, <2>11 DEF H1, H2
<1>9. CASE MmuOf(tbl, r, v) # NULL /\ MmuOf(tbl, r, v).user
  <2>1. PICK a : a = MmuOf(tbl, r, v)
    OBVIOUS
  <2>2. a # NULL /\ a.user
    BY <1>9, <2>1
  <2>3. ASSUME NEW t \in DOMAIN tbl, NEW i \in Index, tbl[t][i] # NULL, tbl[t][i].user
        PROVE  tbl2[t][i] = tbl[t][i]
    <3>1. PICK e : e = tbl[t][i]
      OBVIOUS
    <3>2. e \in Entries /\ e.user
      BY <3>1, <2>3, <1>3 DEF Tab, Typed
    <3>3. Opened(e) = e
      BY <3>2, OpenedEntry
    <3> QED
      BY <3>1, <3>3, <1>2
  <2>4. /\ ~H3(tbl, r, v) => a = NULL
        /\ H3(tbl, r, v) <=> E4(tbl, r, v) # NULL
    BY <1>3, <2>1, MmuForm
  <2>5. H3(tbl, r, v) /\ ~H2(tbl, r, v) =>
          Leaf(v, a, E3(tbl, r, v), 3) /\ E4(tbl, r, v).user /\ E3(tbl, r, v).user
    BY <1>3, <2>1, <2>2, MmuLeaf
  <2>6. H2(tbl, r, v) /\ ~H1(tbl, r, v) =>
          /\ Leaf(v, a, E2(tbl, r, v), 2)
          /\ E4(tbl, r, v).user /\ E3(tbl, r, v).user /\ E2(tbl, r, v).user
    BY <1>3, <2>1, <2>2, MmuLeaf
  <2>7. H1(tbl, r, v) =>
          /\ Leaf(v, a, E1(tbl, r, v), 1)
          /\ E4(tbl, r, v).user /\ E3(tbl, r, v).user /\ E2(tbl, r, v).user
          /\ E1(tbl, r, v).user
    BY <1>3, <2>1, <2>2, MmuLeaf
  <2>8. H3(tbl, r, v) /\ E4(tbl, r, v).user /\ E3(tbl, r, v).user
    BY <2>2, <2>4, <2>5, <2>6, <2>7 DEF H1, H2
  <2>9. tbl2[r][v[4]] = tbl[r][v[4]]
    BY <2>3, <2>4, <2>8, <1>4 DEF E4
  <2>10. tbl2[T3(tbl, r, v)][v[3]] = tbl[T3(tbl, r, v)][v[3]]
    <3>1. tbl[T3(tbl, r, v)][v[3]] # NULL
      BY <2>2, <2>5, <2>8 DEF Leaf, E3, H2, Goes
    <3> QED
      BY <3>1, <2>3, <2>8, <1>4, <1>5 DEF E3
  <2>11. H2(tbl, r, v) => tbl2[T2(tbl, r, v)][v[2]] = tbl[T2(tbl, r, v)][v[2]]
    <3>1. SUFFICES ASSUME H2(tbl, r, v) PROVE tbl2[T2(tbl, r, v)][v[2]] = tbl[T2(tbl, r, v)][v[2]]
      OBVIOUS
    <3>2. tbl[T2(tbl, r, v)][v[2]] # NULL /\ E2(tbl, r, v).user
      BY <3>1, <2>2, <2>6, <2>7 DEF Leaf, E2, H1, Goes
    <3> QED
      BY <3>1, <3>2, <2>3, <1>4, <1>5 DEF E2
  <2>12. H1(tbl, r, v) => tbl2[T1(tbl, r, v)][v[1]] = tbl[T1(tbl, r, v)][v[1]]
    <3>1. SUFFICES ASSUME H1(tbl, r, v) PROVE tbl2[T1(tbl, r, v)][v[1]] = tbl[T1(tbl, r, v)][v[1]]
      OBVIOUS
    <3>2. tbl[T1(tbl, r, v)][v[1]] # NULL /\ E1(tbl, r, v).user
      BY <3>1, <2>2, <2>7 DEF Leaf, E1
    <3> QED
      BY <3>1, <3>2, <2>3, <1>4, <1>5 DEF E1
  <2> QED
    BY <1>3, <2>9, <2>10, <2>11, <2>12, MmuSame
<1> QED
  BY <1>7, <1>8, <1>9

-----------------------------------------------------------------------------
(* A walk that creates.  It leaves every translation as it was, adds only  *)
(* below the slot it walks, and stands at the table its address leads to.  *)

Grown(tbl, lev, tbl2, lev2, root, va) ==
    /\ Tops(tbl2, lev2) = Tops(tbl, lev)
    /\ \A r \in Tops(tbl, lev), v \in Addresses : MmuOf(tbl2, r, v) = MmuOf(tbl, r, v)
    /\ \A r \in Tops(tbl, lev), i \in Index :
          \/ tbl2[r][i] = tbl[r][i]
          \/ r = root /\ i = va[4] /\ tbl[r][i] = NULL /\ tbl2[r][i] # NULL

StandsAt(w, root, va) ==
    \/ w.level = 4 /\ w.at = root
    \/ w.level = 3 /\ H3(w.tables, root, va) /\ w.at = T3(w.tables, root, va)
    \/ w.level = 2 /\ H2(w.tables, root, va) /\ w.at = T2(w.tables, root, va)
    \/ w.level = 1 /\ H1(w.tables, root, va) /\ w.at = T1(w.tables, root, va)

WalkOK(tbl, f, lev, page, w, lev2, root, va) ==
    /\ DOMAIN w = {"tables", "free", "at", "level", "status"}
    /\ root \in Tops(tbl, lev) /\ va \in Addresses
    /\ Grown(tbl, lev, w.tables, lev2, root, va)
    /\ Tab(w.tables, w.free \cup {page}, lev2)
    /\ w.free \subseteq f /\ page \notin w.free /\ f \subseteq Pages
    /\ StandsAt(w, root, va)

LEMMA GrowAdd ==
    ASSUME NEW tbl0, NEW lev0, NEW root, NEW va,
           NEW tbl, NEW f, NEW lev, NEW at, NEW i, NEW new, CanAdd(tbl, f, lev, at, i, new),
           Grown(tbl0, lev0, tbl, lev, root, va),
           at \in Tops(tbl, lev) => at = root /\ i = va[4]
    PROVE  Grown(tbl0, lev0, Added(tbl, at, i, new), AddedLevel(lev, at, new), root, va)
<1>1. PICK tbl2 : tbl2 = Added(tbl, at, i, new)
  OBVIOUS
<1>2. PICK lev2 : lev2 = AddedLevel(lev, at, new)
  OBVIOUS
<1>3. IsAdded(tbl, at, i, new, tbl2)
  BY <1>1, AddedEntries
<1>4. /\ Tab(tbl, f, lev) /\ at \in DOMAIN tbl /\ lev[at] > 1 /\ tbl[at][i] = NULL /\ i \in Index
      /\ new \in Pages
  BY DEF CanAdd
<1>5. DOMAIN lev = DOMAIN tbl /\ lev[at] \in 1..4
  BY <1>4 DEF Tab, Typed
<1>6. lev2[new] = lev[at] - 1 /\ \A t \in DOMAIN tbl : lev2[t] = lev[t]
  BY <1>2, <1>3, <1>5 DEF AddedLevel, IsAdded
<1>7. Tops(tbl2, lev2) = Tops(tbl, lev)
  BY <1>3, <1>5, <1>6 DEF Tops, IsAdded
<1>8. Tops(tbl, lev) = Tops(tbl0, lev0)
  BY DEF Grown
<1>9. \A r \in Tops(tbl0, lev0), v \in Addresses : MmuOf(tbl2, r, v) = MmuOf(tbl0, r, v)
  <2>1. \A r \in Tops(tbl, lev), v \in Addresses : MmuOf(tbl2, r, v) = MmuOf(tbl, r, v)
    BY <1>1, AddMmu
  <2> QED
    BY <2>1, <1>8 DEF Grown
<1>10. Entry(new, FALSE, TRUE) # NULL
  BY <1>4, EntryTyped
<1>11. ASSUME NEW r \in Tops(tbl0, lev0), NEW j \in Index
       PROVE  \/ tbl2[r][j] = tbl0[r][j]
              \/ r = root /\ j = va[4] /\ tbl0[r][j] = NULL /\ tbl2[r][j] # NULL
  <2>1. r \in DOMAIN tbl
    BY <1>8 DEF Tops
  <2>2. CASE r = at /\ j = i
    <3>1. r = root /\ j = va[4] /\ tbl2[r][j] # NULL /\ tbl[r][j] = NULL
      BY <2>2, <1>3, <1>4, <1>8, <1>10 DEF IsAdded
    <3> QED
      BY <3>1 DEF Grown
  <2>3. CASE r # at \/ j # i
    <3>1. tbl2[r][j] = tbl[r][j]
      BY <2>1, <2>3, <1>3 DEF IsAdded
    <3> QED
      BY <3>1 DEF Grown
  <2> QED
    BY <2>2, <2>3
<1> QED
  BY <1>1, <1>2, <1>7, <1>8, <1>9, <1>11 DEF Grown

(* Tables already on the way stay on it.                                   *)
LEMMA AddWay ==
    ASSUME NEW tbl, NEW f, NEW lev, NEW at, NEW i, NEW new, CanAdd(tbl, f, lev, at, i, new),
           NEW r \in Tops(tbl, lev), NEW v \in Addresses
    PROVE  LET tbl2 == Added(tbl, at, i, new) IN
           /\ H3(tbl, r, v) => H3(tbl2, r, v) /\ T3(tbl2, r, v) = T3(tbl, r, v)
           /\ H2(tbl, r, v) => H2(tbl2, r, v) /\ T2(tbl2, r, v) = T2(tbl, r, v)
           /\ Goes(tbl2, at, i) /\ tbl2[at][i].page = new
<1>1. PICK tbl2 : tbl2 = Added(tbl, at, i, new)
  OBVIOUS
<1>2. IsAdded(tbl, at, i, new, tbl2)
  BY <1>1, AddedEntries
<1>3. Tab(tbl, f, lev) /\ tbl[at][i] = NULL /\ new \in Pages
  BY DEF CanAdd
<1>4. v[1] \in Index /\ v[2] \in Index /\ v[3] \in Index /\ v[4] \in Index /\ r \in DOMAIN tbl
  BY DEF Addresses, Tops
<1>5. H3(tbl, r, v) => T3(tbl, r, v) \in DOMAIN tbl
  BY <1>3, Levels
<1>6. \A t \in DOMAIN tbl, j \in Index : Goes(tbl, t, j) =>
        Goes(tbl2, t, j) /\ tbl2[t][j].page = tbl[t][j].page
  BY <1>2, <1>3 DEF IsAdded, Goes
<1>7. H3(tbl, r, v) => H3(tbl2, r, v) /\ T3(tbl2, r, v) = T3(tbl, r, v)
  BY <1>4, <1>6 DEF H3, T3
<1>8. H2(tbl, r, v) => H2(tbl2, r, v) /\ T2(tbl2, r, v) = T2(tbl, r, v)
  BY <1>4, <1>5, <1>6, <1>7 DEF H2, T2
<1>e. /\ Entry(new, FALSE, TRUE) # NULL /\ ~Entry(new, FALSE, TRUE).huge
      /\ Entry(new, FALSE, TRUE).page = new
  BY <1>3, EntryTyped
<1>9. Goes(tbl2, at, i) /\ tbl2[at][i].page = new
  BY <1>2, <1>e DEF IsAdded, Goes
<1> QED
  BY <1>1, <1>7, <1>8, <1>9

(* One level down.                                                         *)
LEMMA DownOK ==
    ASSUME NEW tbl, NEW f, NEW lev, NEW page, NEW w, NEW lev2, NEW root, NEW va,
           WalkOK(tbl, f, lev, page, w, lev2, root, va),
           w.status = "walking", w.level # 1
    PROVE  LET x == Down(w, va, TRUE) IN
           /\ \E lev3 : WalkOK(tbl, f, lev, page, x, lev3, root, va)
           /\ \/ x.status = "walking" /\ x.level = w.level - 1
              \/ x.status \in {"huge", "allocation failed"}
<1>1. PICK x : x = Down(w, va, TRUE)
  OBVIOUS
<1>0. SUFFICES /\ \E lev3 : WalkOK(tbl, f, lev, page, x, lev3, root, va)
               /\ \/ x.status = "walking" /\ x.level = w.level - 1
                  \/ x.status \in {"huge", "allocation failed"}
  BY <1>1
<1>2. PICK at, level, i, t : at = w.at /\ level = w.level /\ i = va[level] /\ t = w.tables
  OBVIOUS
<1>3. /\ DOMAIN w = {"tables", "free", "at", "level", "status"}
      /\ root \in Tops(tbl, lev) /\ va \in Addresses
      /\ Grown(tbl, lev, t, lev2, root, va)
      /\ Tab(t, w.free \cup {page}, lev2)
      /\ w.free \subseteq f /\ page \notin w.free /\ f \subseteq Pages
      /\ StandsAt(w, root, va)
  BY <1>2 DEF WalkOK
<1>4. root \in Tops(t, lev2)
  BY <1>3 DEF Grown
<1>5. /\ level \in {2, 3, 4} /\ i \in Index
      /\ \/ level = 4 /\ at = root
         \/ level = 3 /\ H3(t, root, va) /\ at = T3(t, root, va)
         \/ level = 2 /\ H2(t, root, va) /\ at = T2(t, root, va)
  BY <1>2, <1>3 DEF StandsAt, Addresses
<1>6. at \in DOMAIN t /\ lev2[at] = level
  BY <1>3, <1>4, <1>5, Levels DEF Tops
<1>7. ReadEntry(w, va) = t[at][i]
  BY <1>2 DEF ReadEntry
<1>8. CASE level < 4 /\ t[at][i] # NULL /\ t[at][i].huge
  <2>1. x = [w EXCEPT !.status = "huge"]
    BY <1>1, <1>2, <1>7, <1>8 DEF Down
  <2>2. /\ DOMAIN x = DOMAIN w /\ x.tables = w.tables /\ x.free = w.free /\ x.at = w.at
        /\ x.level = w.level /\ x.status = "huge"
    BY <2>1, <1>3
  <2>3. WalkOK(tbl, f, lev, page, x, lev2, root, va)
    BY <2>2 DEF WalkOK, StandsAt
  <2> QED
    BY <2>2, <2>3
<1>9. CASE ~(level < 4 /\ t[at][i] # NULL /\ t[at][i].huge) /\ t[at][i] # NULL
  <2>1. x = [w EXCEPT !.at = t[at][i].page, !.level = level - 1]
    BY <1>1, <1>2, <1>7, <1>9 DEF Down, ensure_next_table
  <2>2. /\ DOMAIN x = DOMAIN w /\ x.tables = w.tables /\ x.free = w.free
        /\ x.at = t[at][i].page /\ x.level = level - 1 /\ x.status = "walking"
    BY <2>1, <1>3
  <2>3. Goes(t, at, i)
    <3>1. lev2[at] = 4 => ~t[at][i].huge
      BY <1>3, <1>5, <1>6, <1>9 DEF Tab, EntriesOK, EntryOK
    <3> QED
      BY <3>1, <1>5, <1>6, <1>9 DEF Goes
  <2>4. StandsAt(x, root, va)
    <3>1. CASE level = 4
      BY <3>1, <2>2, <2>3, <1>2, <1>5 DEF StandsAt, H3, T3
    <3>2. CASE level = 3
      BY <3>2, <2>2, <2>3, <1>2, <1>5 DEF StandsAt, H2, T2
    <3>3. CASE level = 2
      BY <3>3, <2>2, <2>3, <1>2, <1>5 DEF StandsAt, H1, T1
    <3> QED
      BY <3>1, <3>2, <3>3, <1>5
  <2>5. WalkOK(tbl, f, lev, page, x, lev2, root, va)
    BY <2>2, <2>4, <1>2, <1>3 DEF WalkOK
  <2> QED
    BY <2>2, <2>5, <1>2
<1>10. CASE t[at][i] = NULL /\ w.free = {}
  <2>1. x = [w EXCEPT !.status = "allocation failed"]
    BY <1>1, <1>7, <1>10 DEF Down, ensure_next_table
  <2>2. /\ DOMAIN x = DOMAIN w /\ x.tables = w.tables /\ x.free = w.free /\ x.at = w.at
        /\ x.level = w.level /\ x.status = "allocation failed"
    BY <2>1, <1>3
  <2>3. WalkOK(tbl, f, lev, page, x, lev2, root, va)
    BY <2>2 DEF WalkOK, StandsAt
  <2> QED
    BY <2>2, <2>3
<1>11. CASE t[at][i] = NULL /\ w.free # {}
  <2>1. PICK new : new = pmm_alloc_page(w.free)
    OBVIOUS
  <2>2. new \in w.free
    BY <2>1, <1>11 DEF pmm_alloc_page
  <2>3. PICK t2 : t2 = Added(t, at, i, new)
    OBVIOUS
  <2>4. x = [w EXCEPT !.tables = t2, !.free = w.free \ {new}, !.at = new, !.level = level - 1]
    BY <1>1, <1>2, <1>7, <1>11, <2>1, <2>3 DEF Down, ensure_next_table, NewTable, Added
  <2>5. /\ DOMAIN x = DOMAIN w /\ x.tables = t2 /\ x.free = w.free \ {new}
        /\ x.at = new /\ x.level = level - 1 /\ x.status = "walking"
    BY <2>4, <1>3
  <2>6. CanAdd(t, w.free \cup {page}, lev2, at, i, new)
    BY <1>3, <1>5, <1>6, <1>11, <2>2 DEF CanAdd
  <2>7. PICK lev3 : lev3 = AddedLevel(lev2, at, new)
    OBVIOUS
  <2>8. Tab(t2, (w.free \cup {page}) \ {new}, lev3)
    BY <2>3, <2>6, <2>7, AddTab
  <2>9. Tab(t2, x.free \cup {page}, lev3)
    <3>1. x.free \cup {page} = (w.free \cup {page}) \ {new}
      BY <2>2, <2>5, <1>3
    <3> QED
      BY <3>1, <2>8
  <2>10. Grown(tbl, lev, t2, lev3, root, va)
    <3>1. at \in Tops(t, lev2) => at = root /\ i = va[4]
      BY <1>2, <1>5, <1>6 DEF Tops
    <3> QED
      BY <3>1, <2>3, <2>6, <2>7, <1>3, GrowAdd
  <2>11. /\ H3(t, root, va) => H3(t2, root, va) /\ T3(t2, root, va) = T3(t, root, va)
         /\ H2(t, root, va) => H2(t2, root, va) /\ T2(t2, root, va) = T2(t, root, va)
         /\ Goes(t2, at, i) /\ t2[at][i].page = new
    BY <2>3, <2>6, <1>3, <1>4, AddWay
  <2>12. StandsAt(x, root, va)
    <3>1. CASE level = 4
      BY <3>1, <2>5, <2>11, <1>2, <1>5 DEF StandsAt, H3, T3
    <3>2. CASE level = 3
      BY <3>2, <2>5, <2>11, <1>2, <1>5 DEF StandsAt, H2, T2
    <3>3. CASE level = 2
      BY <3>3, <2>5, <2>11, <1>2, <1>5 DEF StandsAt, H1, T1
    <3> QED
      BY <3>1, <3>2, <3>3, <1>5
  <2>13. WalkOK(tbl, f, lev, page, x, lev3, root, va)
    BY <2>5, <2>9, <2>10, <2>12, <1>3 DEF WalkOK
  <2> QED
    BY <2>5, <2>13, <1>2
<1> QED
  BY <1>8, <1>9, <1>10, <1>11

(* The whole walk, while page is kept aside.                               *)
LEMMA WalkCreates ==
    ASSUME NEW tbl, NEW f, NEW lev, NEW page, NEW root \in Tops(tbl, lev), NEW va \in Addresses,
           Tab(tbl, f \cup {page}, lev), page \notin f, f \subseteq Pages
    PROVE  LET w == page_walk_internal(tbl, f, root, va, TRUE) IN
           /\ \E lev2 : WalkOK(tbl, f, lev, page, w, lev2, root, va)
           /\ w.status = "found" => w.level = 1
<1>1. PICK w0 : w0 = WalkFrom(tbl, f, root)
  OBVIOUS
<1>2. PICK w1 : w1 = Down(w0, va, TRUE)
  OBVIOUS
<1>3. PICK w2 : w2 = Down(w1, va, TRUE)
  OBVIOUS
<1>4. PICK w3 : w3 = Down(w2, va, TRUE)
  OBVIOUS
<1>5. PICK w : w = page_walk_internal(tbl, f, root, va, TRUE)
  OBVIOUS
<1>6. w = IF w3.status # "walking" THEN w3 ELSE [w3 EXCEPT !.status = "found"]
  BY <1>1, <1>2, <1>3, <1>4, <1>5 DEF page_walk_internal
<1>7. /\ WalkOK(tbl, f, lev, page, w0, lev, root, va)
      /\ w0.status = "walking" /\ w0.level = 4
  BY <1>1 DEF WalkOK, WalkFrom, StandsAt, Grown
<1>8. /\ \E lev2 : WalkOK(tbl, f, lev, page, w1, lev2, root, va)
      /\ (w1.status = "walking" /\ w1.level = 3) \/ w1.status \in {"huge", "allocation failed"}
  <2>a. PICK lev2 : WalkOK(tbl, f, lev, page, w0, lev2, root, va)
    BY <1>7
  <2>b. /\ \E lev3 : WalkOK(tbl, f, lev, page, Down(w0, va, TRUE), lev3, root, va)
       /\ \/ Down(w0, va, TRUE).status = "walking" /\ Down(w0, va, TRUE).level = w0.level - 1
          \/ Down(w0, va, TRUE).status \in {"huge", "allocation failed"}
    <3>1. w0.status = "walking" /\ w0.level # 1
      BY <1>7
    <3> QED
      BY <3>1, <2>a, DownOK
  <2>c. w0.level - 1 = 3
    <3>1. w0.level = 4
      BY <1>7
    <3> QED
      BY <3>1
  <2> QED
    BY <2>b, <2>c, <1>2
<1>9. /\ \E lev2 : WalkOK(tbl, f, lev, page, w2, lev2, root, va)
      /\ (w2.status = "walking" /\ w2.level = 2) \/ w2.status \in {"huge", "allocation failed"}
  <2>1. CASE w1.status = "walking"
    <3>a. PICK lev2 : WalkOK(tbl, f, lev, page, w1, lev2, root, va)
      BY <1>8, <2>1
    <3>b. /\ \E lev3 : WalkOK(tbl, f, lev, page, Down(w1, va, TRUE), lev3, root, va)
         /\ \/ Down(w1, va, TRUE).status = "walking" /\ Down(w1, va, TRUE).level = w1.level - 1
            \/ Down(w1, va, TRUE).status \in {"huge", "allocation failed"}
      <4>1. w1.status = "walking" /\ w1.level # 1
        BY <1>8, <2>1
      <4> QED
        BY <4>1, <3>a, DownOK
    <3>c. w1.level - 1 = 2
      <4>1. w1.level = 3
        BY <1>8, <2>1
      <4> QED
        BY <4>1
    <3> QED
      BY <3>b, <3>c, <1>3
  <2>2. CASE w1.status # "walking"
    BY <2>2, <1>3, <1>8 DEF Down
  <2> QED
    BY <2>1, <2>2
<1>10. /\ \E lev2 : WalkOK(tbl, f, lev, page, w3, lev2, root, va)
       /\ (w3.status = "walking" /\ w3.level = 1) \/ w3.status \in {"huge", "allocation failed"}
  <2>1. CASE w2.status = "walking"
    <3>a. PICK lev2 : WalkOK(tbl, f, lev, page, w2, lev2, root, va)
      BY <1>9, <2>1
    <3>b. /\ \E lev3 : WalkOK(tbl, f, lev, page, Down(w2, va, TRUE), lev3, root, va)
         /\ \/ Down(w2, va, TRUE).status = "walking" /\ Down(w2, va, TRUE).level = w2.level - 1
            \/ Down(w2, va, TRUE).status \in {"huge", "allocation failed"}
      <4>1. w2.status = "walking" /\ w2.level # 1
        BY <1>9, <2>1
      <4> QED
        BY <4>1, <3>a, DownOK
    <3>c. w2.level - 1 = 1
      <4>1. w2.level = 2
        BY <1>9, <2>1
      <4> QED
        BY <4>1
    <3> QED
      BY <3>b, <3>c, <1>4
  <2>2. CASE w2.status # "walking"
    BY <2>2, <1>4, <1>9 DEF Down
  <2> QED
    BY <2>1, <2>2
<1>11. CASE w3.status # "walking"
  BY <1>5, <1>6, <1>10, <1>11
<1>12. CASE w3.status = "walking"
  <2>1. PICK lev2 : WalkOK(tbl, f, lev, page, w3, lev2, root, va)
    BY <1>10
  <2>2. /\ DOMAIN w = DOMAIN w3 /\ w.tables = w3.tables /\ w.free = w3.free /\ w.at = w3.at
        /\ w.level = w3.level /\ w.status = "found" /\ w.level = 1
    BY <2>1, <1>6, <1>10, <1>12 DEF WalkOK
  <2>3. WalkOK(tbl, f, lev, page, w, lev2, root, va)
    BY <2>1, <2>2 DEF WalkOK, StandsAt
  <2> QED
    BY <2>2, <2>3, <1>5
<1> QED
  BY <1>11, <1>12

(* A walk that only looks finds what the memory management unit finds.     *)
Looks(tbl, w, root, va) ==
    /\ DOMAIN w = {"tables", "free", "at", "level", "status"}
    /\ w.tables = tbl
    /\ StandsAt(w, root, va)
    /\ \/ w.status = "walking"
       \/ w.status = "found" /\ w.level < 4 /\ ReadEntry(w, va) # NULL
                             /\ (w.level > 1 => ReadEntry(w, va).huge)
       \/ w.status = "missing" /\ ReadEntry(w, va) = NULL

LEMMA DownLooks ==
    ASSUME NEW tbl, NEW f, NEW lev, Tab(tbl, f, lev),
           NEW root \in Tops(tbl, lev), NEW va \in Addresses,
           NEW w, Looks(tbl, w, root, va), w.status = "walking" => w.level # 1
    PROVE  LET x == Down(w, va, FALSE) IN
           /\ Looks(tbl, x, root, va)
           /\ x.status = "walking" => w.status = "walking" /\ x.level = w.level - 1
<1>1. PICK x : x = Down(w, va, FALSE)
  OBVIOUS
<1>0. SUFFICES /\ Looks(tbl, x, root, va)
               /\ x.status = "walking" => w.status = "walking" /\ x.level = w.level - 1
  BY <1>1
<1>2. CASE w.status # "walking"
  BY <1>1, <1>2 DEF Down
<1>3. CASE w.status = "walking"
  <2>1. PICK at, level, i : at = w.at /\ level = w.level /\ i = va[level]
    OBVIOUS
  <2>2. /\ DOMAIN w = {"tables", "free", "at", "level", "status"}
        /\ w.tables = tbl /\ StandsAt(w, root, va)
    BY DEF Looks
  <2>3. /\ level \in {2, 3, 4} /\ i \in Index
        /\ \/ level = 4 /\ at = root
           \/ level = 3 /\ H3(tbl, root, va) /\ at = T3(tbl, root, va)
           \/ level = 2 /\ H2(tbl, root, va) /\ at = T2(tbl, root, va)
    BY <1>3, <2>1, <2>2 DEF StandsAt, Addresses
  <2>4. at \in DOMAIN tbl /\ lev[at] = level
    BY <2>3, Levels DEF Tops
  <2>5. ReadEntry(w, va) = tbl[at][i]
    BY <2>1, <2>2 DEF ReadEntry
  <2>6. CASE level < 4 /\ tbl[at][i] # NULL /\ tbl[at][i].huge
    <3>1. x = [w EXCEPT !.status = "found"]
      BY <1>1, <1>3, <2>1, <2>5, <2>6 DEF Down
    <3>2. /\ DOMAIN x = DOMAIN w /\ x.tables = w.tables /\ x.at = w.at
          /\ x.level = w.level /\ x.status = "found"
      BY <3>1, <2>2
    <3>3. ReadEntry(x, va) = tbl[at][i]
      BY <3>2, <2>1, <2>2 DEF ReadEntry
    <3> QED
      BY <3>2, <3>3, <2>1, <2>2, <2>6 DEF Looks, StandsAt
  <2>7. CASE ~(level < 4 /\ tbl[at][i] # NULL /\ tbl[at][i].huge) /\ tbl[at][i] # NULL
    <3>1. x = [w EXCEPT !.at = tbl[at][i].page, !.level = level - 1]
      BY <1>1, <1>3, <2>1, <2>5, <2>7 DEF Down, ensure_next_table
    <3>2. /\ DOMAIN x = DOMAIN w /\ x.tables = w.tables
          /\ x.at = tbl[at][i].page /\ x.level = level - 1 /\ x.status = "walking"
      BY <3>1, <1>3, <2>2
    <3>3. Goes(tbl, at, i)
      <4>1. lev[at] = 4 => ~tbl[at][i].huge
        BY <2>3, <2>4, <2>7 DEF Tab, EntriesOK, EntryOK
      <4> QED
        BY <4>1, <2>3, <2>4, <2>7 DEF Goes
    <3>4. StandsAt(x, root, va)
      <4>1. CASE level = 4
        BY <4>1, <3>2, <3>3, <2>1, <2>2, <2>3 DEF StandsAt, H3, T3
      <4>2. CASE level = 3
        BY <4>2, <3>2, <3>3, <2>1, <2>2, <2>3 DEF StandsAt, H2, T2
      <4>3. CASE level = 2
        BY <4>3, <3>2, <3>3, <2>1, <2>2, <2>3 DEF StandsAt, H1, T1
      <4> QED
        BY <4>1, <4>2, <4>3, <2>3
    <3> QED
      BY <3>2, <3>4, <1>3, <2>1, <2>2 DEF Looks
  <2>8. CASE tbl[at][i] = NULL
    <3>1. x = [w EXCEPT !.status = "missing"]
      BY <1>1, <1>3, <2>5, <2>8 DEF Down, ensure_next_table
    <3>2. /\ DOMAIN x = DOMAIN w /\ x.tables = w.tables /\ x.at = w.at
          /\ x.level = w.level /\ x.status = "missing"
      BY <3>1, <2>2
    <3>3. ReadEntry(x, va) = tbl[at][i]
      BY <3>2, <2>1, <2>2 DEF ReadEntry
    <3> QED
      BY <3>2, <3>3, <2>2, <2>8 DEF Looks, StandsAt
  <2> QED
    BY <2>6, <2>7, <2>8
<1> QED
  BY <1>2, <1>3

LEMMA WalkLooks ==
    ASSUME NEW tbl, NEW f, NEW g, NEW lev, Tab(tbl, g, lev),
           NEW root \in Tops(tbl, lev), NEW va \in Addresses
    PROVE  LET w == page_walk_internal(tbl, f, root, va, FALSE)
               t == MmuOf(tbl, root, va)
           IN  /\ w.status = "found" <=> t # NULL
               /\ w.status = "found" => t.phys = Phys(ReadEntry(w, va), w.level, va)
               /\ w.status = "found" /\ w.level = 1 =>
                    H1(tbl, root, va) /\ w.at = T1(tbl, root, va)
<1>1. PICK w0 : w0 = WalkFrom(tbl, f, root)
  OBVIOUS
<1>2. PICK w1 : w1 = Down(w0, va, FALSE)
  OBVIOUS
<1>3. PICK w2 : w2 = Down(w1, va, FALSE)
  OBVIOUS
<1>4. PICK w3 : w3 = Down(w2, va, FALSE)
  OBVIOUS
<1>5. PICK w : w = page_walk_internal(tbl, f, root, va, FALSE)
  OBVIOUS
<1>6. w = IF w3.status # "walking" THEN w3
          ELSE IF ReadEntry(w3, va) = NULL THEN [w3 EXCEPT !.status = "missing"]
          ELSE [w3 EXCEPT !.status = "found"]
  BY <1>1, <1>2, <1>3, <1>4, <1>5 DEF page_walk_internal
<1>7. Looks(tbl, w0, root, va) /\ w0.level = 4
  BY <1>1 DEF WalkFrom, Looks, StandsAt
<1>8. Looks(tbl, w1, root, va) /\ (w1.status = "walking" => w1.level = 3)
  <2>1. w0.status = "walking" => w0.level # 1
    BY <1>7
  <2>2. /\ Looks(tbl, Down(w0, va, FALSE), root, va)
        /\ Down(w0, va, FALSE).status = "walking" =>
             w0.status = "walking" /\ Down(w0, va, FALSE).level = w0.level - 1
    BY <2>1, <1>7, DownLooks
  <2>3. w0.status = "walking" => w0.level - 1 = 3
    <3>1. w0.status = "walking" => w0.level = 4
      BY <1>7
    <3> QED
      BY <3>1
  <2> QED
    BY <2>2, <2>3, <1>2
<1>9. Looks(tbl, w2, root, va) /\ (w2.status = "walking" => w2.level = 2)
  <2>1. w1.status = "walking" => w1.level # 1
    BY <1>8
  <2>2. /\ Looks(tbl, Down(w1, va, FALSE), root, va)
        /\ Down(w1, va, FALSE).status = "walking" =>
             w1.status = "walking" /\ Down(w1, va, FALSE).level = w1.level - 1
    BY <2>1, <1>8, DownLooks
  <2>3. w1.status = "walking" => w1.level - 1 = 2
    <3>1. w1.status = "walking" => w1.level = 3
      BY <1>8
    <3> QED
      BY <3>1
  <2> QED
    BY <2>2, <2>3, <1>3
<1>10. Looks(tbl, w3, root, va) /\ (w3.status = "walking" => w3.level = 1)
  <2>1. w2.status = "walking" => w2.level # 1
    BY <1>9
  <2>2. /\ Looks(tbl, Down(w2, va, FALSE), root, va)
        /\ Down(w2, va, FALSE).status = "walking" =>
             w2.status = "walking" /\ Down(w2, va, FALSE).level = w2.level - 1
    BY <2>1, <1>9, DownLooks
  <2>3. w2.status = "walking" => w2.level - 1 = 1
    <3>1. w2.status = "walking" => w2.level = 2
      BY <1>9
    <3> QED
      BY <3>1
  <2> QED
    BY <2>2, <2>3, <1>4
<1>11. Looks(tbl, w, root, va) /\ w.status # "walking"
  <2>1. CASE w3.status # "walking"
    BY <2>1, <1>6, <1>10
  <2>2. CASE w3.status = "walking"
    <3>1. PICK st : w = [w3 EXCEPT !.status = st] /\ st \in {"missing", "found"}
                    /\ (st = "missing" <=> ReadEntry(w3, va) = NULL)
      BY <2>2, <1>6
    <3>2. /\ DOMAIN w = DOMAIN w3 /\ w.tables = w3.tables /\ w.at = w3.at
          /\ w.level = 1 /\ w3.level = 1 /\ w.status = st
      BY <3>1, <2>2, <1>10 DEF Looks
    <3>3. ReadEntry(w, va) = ReadEntry(w3, va)
      BY <3>2 DEF ReadEntry
    <3> QED
      BY <3>1, <3>2, <3>3, <1>10 DEF Looks, StandsAt
  <2> QED
    BY <2>1, <2>2
<1>12. PICK t : t = MmuOf(tbl, root, va)
  OBVIOUS
<1>13. /\ ~H3(tbl, root, va) => t = NULL
       /\ H3(tbl, root, va) /\ ~H2(tbl, root, va) => Leaf(va, t, E3(tbl, root, va), 3)
       /\ H2(tbl, root, va) /\ ~H1(tbl, root, va) => Leaf(va, t, E2(tbl, root, va), 2)
       /\ H1(tbl, root, va) => Leaf(va, t, E1(tbl, root, va), 1)
       /\ H3(tbl, root, va) <=> E4(tbl, root, va) # NULL
  BY <1>12, MmuLeaf, MmuForm
<1>14. w.tables = tbl /\ StandsAt(w, root, va)
       /\ (\/ w.status = "found" /\ w.level < 4 /\ ReadEntry(w, va) # NULL
                                 /\ (w.level > 1 => ReadEntry(w, va).huge)
           \/ w.status = "missing" /\ ReadEntry(w, va) = NULL)
  BY <1>11 DEF Looks
<1>15. /\ w.status = "found" <=> t # NULL
       /\ w.status = "found" => t.phys = Phys(ReadEntry(w, va), w.level, va)
  <2>1. CASE w.level = 4 /\ w.at = root
    BY <2>1, <1>13, <1>14 DEF ReadEntry, E4
  <2>2. CASE w.level = 3 /\ H3(tbl, root, va) /\ w.at = T3(tbl, root, va)
    <3>1. ReadEntry(w, va) = E3(tbl, root, va)
      BY <2>2, <1>14 DEF ReadEntry, E3
    <3>2. ~H2(tbl, root, va)
      BY <3>1, <2>2, <1>14 DEF H2, Goes, E3
    <3> QED
      BY <3>1, <3>2, <2>2, <1>13, <1>14 DEF Leaf
  <2>3. CASE w.level = 2 /\ H2(tbl, root, va) /\ w.at = T2(tbl, root, va)
    <3>1. ReadEntry(w, va) = E2(tbl, root, va)
      BY <2>3, <1>14 DEF ReadEntry, E2
    <3>2. ~H1(tbl, root, va)
      BY <3>1, <2>3, <1>14 DEF H1, Goes, E2
    <3> QED
      BY <3>1, <3>2, <2>3, <1>13, <1>14 DEF Leaf
  <2>4. CASE w.level = 1 /\ H1(tbl, root, va) /\ w.at = T1(tbl, root, va)
    <3>1. ReadEntry(w, va) = E1(tbl, root, va)
      BY <2>4, <1>14 DEF ReadEntry, E1
    <3> QED
      BY <3>1, <2>4, <1>13, <1>14 DEF Leaf
  <2> QED
    BY <2>1, <2>2, <2>3, <2>4, <1>14 DEF StandsAt
<1>16. w.status = "found" /\ w.level = 1 => H1(tbl, root, va) /\ w.at = T1(tbl, root, va)
  BY <1>14 DEF StandsAt
<1> QED
  BY <1>5, <1>12, <1>15, <1>16

-----------------------------------------------------------------------------
(* A PML4 is copied.                                                       *)

Copied(tbl, src, new) ==
    [t \in DOMAIN tbl \cup {new} |-> IF t = new THEN tbl[src] ELSE tbl[t]]

CopiedLevel(lev, new) == [t \in DOMAIN lev \cup {new} |-> IF t = new THEN 4 ELSE lev[t]]

LEMMA CopyTab ==
    ASSUME NEW tbl, NEW f, NEW lev, Tab(tbl, f, lev), NEW src \in Tops(tbl, lev), NEW new \in f,
           \A i \in Index : tbl[src][i] # NULL => i \notin Slots(UserVA)
    PROVE  /\ Tab(Copied(tbl, src, new), f \ {new}, CopiedLevel(lev, new))
           /\ Tops(Copied(tbl, src, new), CopiedLevel(lev, new)) = Tops(tbl, lev) \cup {new}
           /\ \A i \in Index : Copied(tbl, src, new)[new][i] = tbl[src][i]
           /\ \A r \in Tops(tbl, lev), i \in Index : Copied(tbl, src, new)[r][i] = tbl[r][i]
<1>1. PICK tbl2 : tbl2 = Copied(tbl, src, new)
  OBVIOUS
<1>2. PICK lev2 : lev2 = CopiedLevel(lev, new)
  OBVIOUS
<1>3. /\ tbl \in [DOMAIN tbl -> [Index -> Entries \cup {NULL}]]
      /\ lev \in [DOMAIN tbl -> 1..4] /\ src \in DOMAIN tbl /\ lev[src] = 4
      /\ new \notin DOMAIN tbl
  BY DEF Tab, Typed, Tops
<1>4. /\ DOMAIN tbl2 = DOMAIN tbl \cup {new} /\ tbl2[new] = tbl[src]
      /\ \A t \in DOMAIN tbl : tbl2[t] = tbl[t]
      /\ tbl2 \in [DOMAIN tbl2 -> [Index -> Entries \cup {NULL}]]
  BY <1>1, <1>3 DEF Copied
<1>5. /\ lev2[new] = 4 /\ \A t \in DOMAIN tbl : lev2[t] = lev[t]
      /\ lev2 \in [DOMAIN tbl2 -> 1..4]
  BY <1>2, <1>3, <1>4 DEF CopiedLevel
<1>6. Typed(tbl2, lev2) /\ DOMAIN tbl2 \cap (f \ {new}) = {}
  BY <1>4, <1>5 DEF Tab, Typed
<1>7. \A t \in DOMAIN tbl, i \in Index : tbl[t][i] # NULL => EntryOK(tbl, f, lev, t, tbl[t][i])
  BY DEF Tab, EntriesOK
<1>8. \A t \in DOMAIN tbl, i \in Index : tbl[t][i] # NULL => tbl[t][i].page # new
  BY <1>7 DEF EntryOK
<1>9. EntriesOK(tbl2, f \ {new}, lev2)
  <2>1. SUFFICES ASSUME NEW t \in DOMAIN tbl2, NEW i \in Index, tbl2[t][i] # NULL
                 PROVE  EntryOK(tbl2, f \ {new}, lev2, t, tbl2[t][i])
    BY DEF EntriesOK
  <2>2. PICK q \in DOMAIN tbl : tbl2[t] = tbl[q] /\ lev2[t] = lev[q]
    BY <1>3, <1>4, <1>5
  <2>3. EntryOK(tbl, f, lev, q, tbl[q][i]) /\ tbl[q][i].page # new
    BY <2>1, <2>2, <1>7, <1>8
  <2> QED
    BY <2>2, <2>3, <1>4, <1>5 DEF EntryOK
<1>10. Alone(tbl2, lev2)
  <2>1. SUFFICES ASSUME NEW s \in DOMAIN tbl2, NEW t \in DOMAIN tbl2, NEW i \in Index, NEW j \in Index,
                        tbl2[s][i] # NULL, tbl2[t][j] # NULL, tbl2[s][i].page = tbl2[t][j].page
                 PROVE  \/ s = t /\ i = j
                        \/ lev2[s] = 4 /\ lev2[t] = 4 /\ i = j /\ i \notin Slots(UserVA)
    BY DEF Alone
  <2>2. PICK q \in DOMAIN tbl : /\ tbl2[s] = tbl[q] /\ lev2[s] = lev[q]
                                /\ q = s \/ (s = new /\ q = src)
    BY <1>3, <1>4, <1>5
  <2>3. PICK u \in DOMAIN tbl : /\ tbl2[t] = tbl[u] /\ lev2[t] = lev[u]
                                /\ u = t \/ (t = new /\ u = src)
    BY <1>3, <1>4, <1>5
  <2>4. \/ q = u /\ i = j
        \/ lev[q] = 4 /\ lev[u] = 4 /\ i = j /\ i \notin Slots(UserVA)
    BY <2>1, <2>2, <2>3 DEF Tab, Alone
  <2>5. CASE s = t
    BY <2>2, <2>3, <2>4, <2>5
  <2>6. CASE s # t /\ q = u
    BY <2>1, <2>2, <2>3, <2>4, <2>6, <1>3
  <2>7. CASE q # u
    BY <2>2, <2>3, <2>4, <2>7
  <2> QED
    BY <2>5, <2>6, <2>7
<1>11. Tops(tbl2, lev2) = Tops(tbl, lev) \cup {new}
  BY <1>4, <1>5 DEF Tops
<1>12. \A r \in Tops(tbl, lev), i \in Index : tbl2[r][i] = tbl[r][i]
  BY <1>4 DEF Tops
<1> QED
  BY <1>1, <1>2, <1>4, <1>6, <1>9, <1>10, <1>11, <1>12 DEF Tab

LEMMA CopyMmu ==
    ASSUME NEW tbl, NEW f, NEW lev, Tab(tbl, f, lev), NEW src \in Tops(tbl, lev), NEW new \in f,
           NEW v \in Addresses
    PROVE  /\ MmuOf(Copied(tbl, src, new), new, v) = MmuOf(tbl, src, v)
           /\ \A r \in Tops(tbl, lev) : MmuOf(Copied(tbl, src, new), r, v) = MmuOf(tbl, r, v)
<1>1. PICK tbl2 : tbl2 = Copied(tbl, src, new)
  OBVIOUS
<1>2. src \in DOMAIN tbl /\ new \notin DOMAIN tbl
  BY DEF Tab, Tops
<1>3. tbl2[new] = tbl[src] /\ \A t \in DOMAIN tbl : tbl2[t] = tbl[t]
  BY <1>1, <1>2 DEF Copied
<1>4. ASSUME NEW r \in Tops(tbl, lev), NEW r2, tbl2[r2] = tbl[r]
      PROVE  MmuOf(tbl2, r2, v) = MmuOf(tbl, r, v)
  <2>1. /\ H3(tbl, r, v) => T3(tbl, r, v) \in DOMAIN tbl
        /\ H2(tbl, r, v) => T2(tbl, r, v) \in DOMAIN tbl
        /\ H1(tbl, r, v) => T1(tbl, r, v) \in DOMAIN tbl
    BY Levels
  <2>2. /\ tbl2[r2][v[4]] = tbl[r][v[4]]
        /\ H3(tbl, r, v) => tbl2[T3(tbl, r, v)][v[3]] = tbl[T3(tbl, r, v)][v[3]]
        /\ H2(tbl, r, v) => tbl2[T2(tbl, r, v)][v[2]] = tbl[T2(tbl, r, v)][v[2]]
        /\ H1(tbl, r, v) => tbl2[T1(tbl, r, v)][v[1]] = tbl[T1(tbl, r, v)][v[1]]
    BY <2>1, <1>3, <1>4
  <2> QED
    BY <2>2, MmuSame
<1>5. \A r \in Tops(tbl, lev) : r \in DOMAIN tbl
  BY DEF Tops
<1> QED
  BY <1>1, <1>3, <1>4, <1>5

-----------------------------------------------------------------------------
(* The invariant.  The PML4s are the boot loader's, the kernel's and those *)
(* of the processes, and agree outside the user half once there are        *)
(* processes; CR3 holds one of them; what is cached is what the tables     *)
(* say; and a process's pages are open to it.                              *)

RootSet(k, ps) == {BootRoot} \cup ps \cup ({k} \ {NULL})

RootTypes(k, ps) ==
    /\ k \in Pages \cup {NULL} /\ ps \subseteq Pages
    /\ k \notin ps
    /\ k = NULL => ps = {}

RootsOK(tbl, k, ps) ==
    /\ \A i \in Index : tbl[BootRoot][i] # NULL <=> i \in Slots(BootVA)
    /\ k # NULL => \A i \in Index : /\ tbl[k][i] # NULL => i \in Slots(KernelVA)
                                    /\ i \in Slots(BootVA) => tbl[k][i] # NULL
    /\ \A p \in ps, i \in Index : /\ i \notin Slots(UserVA) => tbl[p][i] = tbl[k][i]
                                  /\ i \in Slots(KernelVA) => tbl[p][i] # NULL

TreeOK(tbl, f, k, ps) ==
    /\ f \subseteq Pages
    /\ \E lev : Tab(tbl, f, lev) /\ Tops(tbl, lev) = RootSet(k, ps)

UserOK(tbl, ps) ==
    \A p \in ps, v \in UserVA : MmuOf(tbl, p, v) # NULL => MmuOf(tbl, p, v).user

CpuInv ==
    /\ kernel_pml4 = NULL => cr3 = BootRoot
    /\ kernel_pml4 # NULL => cr3 \in procs \cup {kernel_pml4} /\ active = cr3

TlbInv == tlb # NULL => tlb.va \in KernelVA /\ tlb.entry = MmuOf(tables, cr3, tlb.va)

Inv ==
    /\ TreeOK(tables, free, kernel_pml4, procs)
    /\ RootTypes(kernel_pml4, procs)
    /\ RootsOK(tables, kernel_pml4, procs)
    /\ UserOK(tables, procs)
    /\ CpuInv
    /\ TlbInv

LEMMA Facts ==
    /\ VA \subseteq Addresses /\ KernelVA \subseteq VA /\ UserVA \subseteq VA
    /\ VA = KernelVA \cup UserVA
    /\ NULL \notin Pages /\ BootRoot \notin Pages /\ BootRoot # NULL
    /\ \A v \in KernelVA : v[4] \in Slots(KernelVA) /\ v[4] \notin Slots(UserVA) /\ v[4] \in Index
    /\ \A v \in UserVA : v[4] \in Slots(UserVA) /\ v[4] \notin Slots(KernelVA) /\ v[4] \in Index
    /\ \A i \in Slots(BootVA) : i \in Slots(KernelVA)
    /\ \A i \in Slots(KernelVA) : i \notin Slots(UserVA)
<1>1. VA \subseteq Addresses /\ NULL \notin Pages /\ BootRoot \notin Pages /\ BootRoot # NULL
  BY PageTableAssumption DEF Addresses
<1>2. Slots(UserVA) \cap Slots(KernelVA) = {}
  BY PageTableAssumption
<1>3. VA = KernelVA \cup UserVA /\ BootVA \subseteq KernelVA
  BY DEF VA, KernelVA
<1>4. \A v \in KernelVA : v[4] \in Slots(KernelVA)
  BY DEF Slots
<1>5. \A v \in UserVA : v[4] \in Slots(UserVA)
  BY DEF Slots
<1>6. \A i \in Slots(BootVA) : i \in Slots(KernelVA)
  BY <1>3 DEF Slots
<1>7. \A v \in VA : v[4] \in Index
  BY <1>1 DEF Addresses
<1> QED
  BY <1>1, <1>2, <1>3, <1>4, <1>5, <1>6, <1>7

-----------------------------------------------------------------------------
(* What the actions do to the translations.                                *)

Same(tbl, tbl2, k, ps) ==
    \A r \in RootSet(k, ps), v \in VA : MmuOf(tbl2, r, v) = MmuOf(tbl, r, v)

SameBut(tbl, tbl2, k, ps, va) ==
    \A r \in RootSet(k, ps), v \in VA : v # va => MmuOf(tbl2, r, v) = MmuOf(tbl, r, v)

KernelTo(tbl, tbl2, f, k, ps, va) ==
    /\ SameBut(tbl, tbl2, k, ps, va)
    /\ MmuOf(tbl2, k, va) # NULL
    /\ ~MmuOf(tbl2, k, va).user
    /\ MmuOf(tbl2, k, va).phys[1] \in f

KernelOff(tbl, tbl2, k, ps, va) ==
    /\ SameBut(tbl, tbl2, k, ps, va)
    /\ MmuOf(tbl, k, va) # NULL
    /\ MmuOf(tbl2, k, va) = NULL

UserTo(tbl, tbl2, f, k, ps, p, va) ==
    /\ \A r \in RootSet(k, ps), v \in VA : r # p \/ v # va => MmuOf(tbl2, r, v) = MmuOf(tbl, r, v)
    /\ MmuOf(tbl2, p, va) # NULL
    /\ MmuOf(tbl2, p, va).user
    /\ MmuOf(tbl2, p, va).phys[1] \in f

(* The roots stay as they were but for the kernel's missing slots and the  *)
(* user half of a process.                                                 *)
LEMMA RootsStep ==
    ASSUME NEW k, NEW ps, RootTypes(k, ps), NEW tbl, NEW tbl2, RootsOK(tbl, k, ps),
           \A r \in RootSet(k, ps), i \in Index :
              \/ tbl2[r][i] = tbl[r][i]
              \/ r = k /\ i \in Slots(KernelVA) /\ tbl[r][i] = NULL /\ tbl2[r][i] # NULL
              \/ r \in ps /\ i \in Slots(UserVA)
    PROVE  RootsOK(tbl2, k, ps)
<1>1. /\ BootRoot \in RootSet(k, ps) /\ BootRoot # k /\ BootRoot \notin ps
      /\ k # NULL => k \in RootSet(k, ps) /\ k \notin ps
      /\ \A p \in ps : p \in RootSet(k, ps) /\ p # k /\ k # NULL
      /\ \A i \in Slots(KernelVA) : i \notin Slots(UserVA)
      /\ \A i \in Slots(BootVA) : i \in Slots(KernelVA)
  BY Facts DEF RootSet, RootTypes
<1>2. \A i \in Index : tbl2[BootRoot][i] # NULL <=> i \in Slots(BootVA)
  BY <1>1 DEF RootsOK
<1>3. k # NULL => \A i \in Index : /\ tbl2[k][i] # NULL => i \in Slots(KernelVA)
                                   /\ i \in Slots(BootVA) => tbl2[k][i] # NULL
  BY <1>1 DEF RootsOK
<1>4. ASSUME NEW p \in ps, NEW i \in Index
      PROVE  /\ i \notin Slots(UserVA) => tbl2[p][i] = tbl2[k][i]
             /\ i \in Slots(KernelVA) => tbl2[p][i] # NULL
  <2>1. /\ i \notin Slots(UserVA) => tbl[p][i] = tbl[k][i]
        /\ i \in Slots(KernelVA) => tbl[p][i] # NULL
    BY DEF RootsOK
  <2>2. i \notin Slots(UserVA) => tbl2[p][i] = tbl[p][i]
    BY <1>1
  <2>3. i \notin Slots(UserVA) => tbl2[k][i] = tbl[k][i]
    BY <1>1, <2>1
  <2> QED
    BY <1>1, <2>1, <2>2, <2>3
<1> QED
  BY <1>2, <1>3, <1>4 DEF RootsOK

LEMMA MapEffect ==
    ASSUME Inv, NEW va \in KernelVA, page_table_map(va)
    PROVE  /\ TreeOK(tables', free', kernel_pml4, procs)
           /\ RootsOK(tables', kernel_pml4, procs)
           /\ \/ Same(tables, tables', kernel_pml4, procs) /\ tlb' = tlb
              \/ /\ KernelTo(tables, tables', free, kernel_pml4, procs, va)
                 /\ tlb' = invalidate_page(va)
<1>1. PICK page : page = pmm_alloc_page(free)
  OBVIOUS
<1>2. PICK f : f = free \ {page}
  OBVIOUS
<1>3. PICK k : k = kernel_pml4
  OBVIOUS
<1>4. PICK w : w = page_walk_internal(tables, f, k, va, TRUE)
  OBVIOUS
<1>5. /\ k # NULL /\ free # {} /\ free' = w.free
      /\ \/ /\ w.status = "found"
            /\ tables' = Written(w.tables, w.at, va[1], Entry(page, FALSE, TRUE))
            /\ tlb' = invalidate_page(va)
         \/ w.status # "found" /\ tables' = w.tables /\ tlb' = tlb
  BY <1>1, <1>2, <1>3, <1>4 DEF page_table_map, page_table_active_root, Written
<1>6. PICK lev : Tab(tables, free, lev) /\ Tops(tables, lev) = RootSet(k, procs)
  BY <1>3 DEF Inv, TreeOK
<1>7. page \in free /\ page \in Pages /\ page \notin f /\ f \subseteq Pages /\ free = f \cup {page}
  <2>1. page \in free
    BY <1>1, <1>5 DEF pmm_alloc_page
  <2> QED
    BY <2>1, <1>2 DEF Inv, TreeOK
<1>8. va \in Addresses /\ va \in VA /\ va[4] \in Slots(KernelVA) /\ VA \subseteq Addresses
  BY Facts
<1>9. k \in Tops(tables, lev)
  BY <1>5, <1>6 DEF RootSet
<1>10. /\ \E lev2 : WalkOK(tables, f, lev, page, w, lev2, k, va)
       /\ w.status = "found" => w.level = 1
  BY <1>4, <1>6, <1>7, <1>8, <1>9, WalkCreates
<1>11. PICK lev2 : WalkOK(tables, f, lev, page, w, lev2, k, va)
  BY <1>10
<1>12. /\ Grown(tables, lev, w.tables, lev2, k, va)
       /\ Tab(w.tables, w.free \cup {page}, lev2)
       /\ w.free \subseteq f /\ page \notin w.free
       /\ StandsAt(w, k, va)
  BY <1>11 DEF WalkOK
<1>13. /\ Tops(w.tables, lev2) = RootSet(k, procs)
       /\ \A r \in RootSet(k, procs), v \in VA : MmuOf(w.tables, r, v) = MmuOf(tables, r, v)
       /\ \A r \in RootSet(k, procs), i \in Index :
            \/ w.tables[r][i] = tables[r][i]
            \/ r = k /\ i = va[4] /\ tables[r][i] = NULL /\ w.tables[r][i] # NULL
  BY <1>6, <1>8, <1>12 DEF Grown
<1>14. RootsOK(w.tables, k, procs)
  <2>1. \A r \in RootSet(k, procs), i \in Index :
            \/ w.tables[r][i] = tables[r][i]
            \/ r = k /\ i \in Slots(KernelVA) /\ tables[r][i] = NULL /\ w.tables[r][i] # NULL
            \/ r \in procs /\ i \in Slots(UserVA)
    BY <1>8, <1>13
  <2>2. RootTypes(k, procs) /\ RootsOK(tables, k, procs)
    BY <1>3 DEF Inv
  <2> QED
    BY <2>1, <2>2, RootsStep
<1>15. CASE w.status # "found"
  <2>1. Tab(w.tables, w.free, lev2)
    BY <1>12, TabFewer
  <2>2. TreeOK(tables', free', k, procs)
    BY <2>1, <1>5, <1>7, <1>12, <1>13, <1>15 DEF TreeOK
  <2>3. Same(tables, w.tables, k, procs)
    BY <1>13 DEF Same
  <2> QED
    BY <2>2, <2>3, <1>3, <1>5, <1>14, <1>15
<1>16. CASE w.status = "found"
  <2>1. H1(w.tables, k, va) /\ w.at = T1(w.tables, k, va)
    BY <1>10, <1>12, <1>16 DEF StandsAt
  <2>2. PICK e : e = Entry(page, FALSE, TRUE)
    OBVIOUS
  <2>3. e \in Entries /\ e # NULL /\ e.page = page /\ ~e.user
    BY <2>2, <1>7, EntryTyped
  <2>4. k \in Tops(w.tables, lev2)
    BY <1>9, <1>6, <1>13
  <2>5. T1(w.tables, k, va) \in DOMAIN w.tables /\ lev2[T1(w.tables, k, va)] = 1
    BY <2>1, <2>4, <1>8, <1>12, Levels
  <2>6. CanWrite(w.tables, w.free \cup {page}, w.free, lev2, T1(w.tables, k, va), va[1], e)
    BY <2>3, <2>5, <1>8, <1>12 DEF CanWrite, Addresses
  <2>w. CanWriteAt(w.tables, w.free \cup {page}, w.free, lev2, k, va, e)
    BY <2>1, <2>4, <2>6, <1>8 DEF CanWriteAt
  <2>7. PICK t2 : t2 = Written(w.tables, T1(w.tables, k, va), va[1], e)
    OBVIOUS
  <2>8. tables' = t2
    BY <2>1, <2>2, <2>7, <1>5, <1>16
  <2>9. Tab(t2, w.free, lev2)
    BY <2>6, <2>7, WriteTab
  <2>10. /\ DOMAIN t2 = DOMAIN w.tables
         /\ \A s \in DOMAIN w.tables, j \in Index :
               s # T1(w.tables, k, va) \/ j # va[1] => t2[s][j] = w.tables[s][j]
    BY <2>6, <2>7, WrittenEntries
  <2>11. Tops(t2, lev2) = RootSet(k, procs)
    BY <2>10, <1>13 DEF Tops
  <2>12. \A r \in RootSet(k, procs), i \in Index : t2[r][i] = w.tables[r][i]
    BY <2>5, <2>10, <1>13 DEF Tops
  <2>13. RootsOK(t2, k, procs)
    <3>1. RootTypes(k, procs)
      BY <1>3 DEF Inv
    <3> QED
      BY <3>1, <2>12, <1>14, RootsStep
  <2>14. TreeOK(t2, w.free, k, procs)
    BY <2>9, <2>11, <1>7, <1>12 DEF TreeOK
  <2>15. ASSUME NEW r \in RootSet(k, procs), NEW v \in VA, v # va
         PROVE  MmuOf(t2, r, v) = MmuOf(w.tables, r, v)
    <3>1. r \in Tops(w.tables, lev2) /\ v \in Addresses
      BY <1>8, <1>13
    <3> QED
      BY <3>1, <2>w, <2>7, <2>15, WriteMmu
  <2>16. SameBut(tables, t2, k, procs, va)
    BY <2>15, <1>13 DEF SameBut
  <2>17. PICK t : t = MmuOf(t2, k, va)
    OBVIOUS
  <2>18. Leaf(va, t, e, 1) /\ (t # NULL /\ t.user => e.user)
    BY <2>w, <2>7, <2>17, WriteHere
  <2>19. t # NULL /\ ~t.user /\ t.phys[1] = page
    BY <2>3, <2>18 DEF Leaf, Phys
  <2>20. KernelTo(tables, t2, free, k, procs, va)
    BY <2>16, <2>17, <2>19, <1>7 DEF KernelTo
  <2> QED
    BY <2>8, <2>13, <2>14, <2>20, <1>3, <1>5, <1>16
<1> QED
  BY <1>15, <1>16

LEMMA UnmapEffect ==
    ASSUME Inv, NEW va \in KernelVA, page_table_unmap(va)
    PROVE  /\ TreeOK(tables', free', kernel_pml4, procs)
           /\ RootsOK(tables', kernel_pml4, procs)
           /\ KernelOff(tables, tables', kernel_pml4, procs, va)
<1>1. PICK k : k = kernel_pml4
  OBVIOUS
<1>2. PICK w : w = page_walk_internal(tables, free, k, va, FALSE)
  OBVIOUS
<1>3. /\ k # NULL /\ w.status = "found" /\ w.level = 1 /\ free' = free
      /\ tables' = Written(tables, w.at, va[1], NULL)
  BY <1>1, <1>2 DEF page_table_unmap, page_table_active_root, Written
<1>4. PICK lev : Tab(tables, free, lev) /\ Tops(tables, lev) = RootSet(k, procs)
  BY <1>1 DEF Inv, TreeOK
<1>5. va \in Addresses /\ va \in VA /\ VA \subseteq Addresses
  BY Facts
<1>6. k \in Tops(tables, lev)
  BY <1>3, <1>4 DEF RootSet
<1>7. MmuOf(tables, k, va) # NULL /\ H1(tables, k, va) /\ w.at = T1(tables, k, va)
  <2>1. LET x == page_walk_internal(tables, free, k, va, FALSE)
            t == MmuOf(tables, k, va)
        IN  /\ x.status = "found" <=> t # NULL
            /\ x.status = "found" => t.phys = Phys(ReadEntry(x, va), x.level, va)
            /\ x.status = "found" /\ x.level = 1 =>
                 H1(tables, k, va) /\ x.at = T1(tables, k, va)
    BY <1>4, <1>5, <1>6, WalkLooks
  <2> QED
    BY <2>1, <1>2, <1>3
<1>8. T1(tables, k, va) \in DOMAIN tables /\ lev[T1(tables, k, va)] = 1
  BY <1>4, <1>5, <1>6, <1>7, Levels
<1>9. CanWrite(tables, free, free, lev, T1(tables, k, va), va[1], NULL)
  BY <1>4, <1>5, <1>8 DEF CanWrite, Addresses
<1>w. CanWriteAt(tables, free, free, lev, k, va, NULL)
  BY <1>5, <1>6, <1>7, <1>9 DEF CanWriteAt
<1>10. PICK t2 : t2 = Written(tables, T1(tables, k, va), va[1], NULL)
  OBVIOUS
<1>11. tables' = t2
  BY <1>3, <1>7, <1>10
<1>12. Tab(t2, free, lev)
  BY <1>9, <1>10, WriteTab
<1>13. /\ DOMAIN t2 = DOMAIN tables
       /\ \A s \in DOMAIN tables, j \in Index :
             s # T1(tables, k, va) \/ j # va[1] => t2[s][j] = tables[s][j]
  BY <1>9, <1>10, WrittenEntries
<1>14. Tops(t2, lev) = RootSet(k, procs)
  BY <1>4, <1>13 DEF Tops
<1>15. \A r \in RootSet(k, procs), i \in Index : t2[r][i] = tables[r][i]
  BY <1>4, <1>8, <1>13 DEF Tops
<1>16. RootsOK(t2, k, procs)
  <2>1. RootTypes(k, procs) /\ RootsOK(tables, k, procs)
    BY <1>1 DEF Inv
  <2> QED
    BY <2>1, <1>15, RootsStep
<1>17. TreeOK(t2, free, k, procs)
  BY <1>12, <1>14 DEF TreeOK, Inv
<1>18. ASSUME NEW r \in RootSet(k, procs), NEW v \in VA, v # va
       PROVE  MmuOf(t2, r, v) = MmuOf(tables, r, v)
  <2>1. r \in Tops(tables, lev) /\ v \in Addresses
    BY <1>4, <1>5
  <2> QED
    BY <2>1, <1>w, <1>10, <1>18, WriteMmu
<1>19. MmuOf(t2, k, va) = NULL
  <2>1. Leaf(va, MmuOf(t2, k, va), NULL, 1)
    BY <1>w, <1>10, WriteHere
  <2> QED
    BY <2>1 DEF Leaf
<1>20. KernelOff(tables, t2, k, procs, va)
  BY <1>7, <1>18, <1>19 DEF KernelOff, SameBut
<1> QED
  BY <1>1, <1>3, <1>11, <1>16, <1>17, <1>20

LEMMA MapUserEffect ==
    ASSUME Inv, NEW p \in procs, NEW va \in UserVA, NEW wr \in BOOLEAN,
           page_table_map_user(p, va, wr)
    PROVE  /\ TreeOK(tables', free', kernel_pml4, procs)
           /\ RootsOK(tables', kernel_pml4, procs)
           /\ \/ Same(tables, tables', kernel_pml4, procs)
              \/ UserTo(tables, tables', free, kernel_pml4, procs, p, va)
<1>1. PICK page : page = pmm_alloc_page(free)
  OBVIOUS
<1>2. PICK f : f = free \ {page}
  OBVIOUS
<1>3. PICK k : k = kernel_pml4
  OBVIOUS
<1>4. PICK w : w = page_walk_internal(tables, f, p, va, TRUE)
  OBVIOUS
<1>5. /\ free # {}
      /\ \/ /\ w.status = "found" /\ free' = w.free
            /\ tables' = Written(OpenToUser(w.tables, p, va), w.at, va[1], Entry(page, TRUE, wr))
         \/ w.status # "found" /\ tables' = w.tables /\ free' = w.free \cup {page}
  BY <1>1, <1>2, <1>4 DEF page_table_map_user, GiveBack, Written
<1>6. PICK lev : Tab(tables, free, lev) /\ Tops(tables, lev) = RootSet(k, procs)
  BY <1>3 DEF Inv, TreeOK
<1>7. page \in free /\ page \in Pages /\ page \notin f /\ f \subseteq Pages /\ free = f \cup {page}
  <2>1. page \in free
    BY <1>1, <1>5 DEF pmm_alloc_page
  <2> QED
    BY <2>1, <1>2 DEF Inv, TreeOK
<1>8. va \in Addresses /\ va \in VA /\ va[4] \in Slots(UserVA) /\ VA \subseteq Addresses
  BY Facts
<1>9. p \in Tops(tables, lev)
  BY <1>6 DEF RootSet
<1>10. /\ \E lev2 : WalkOK(tables, f, lev, page, w, lev2, p, va)
       /\ w.status = "found" => w.level = 1
  BY <1>4, <1>6, <1>7, <1>8, <1>9, WalkCreates
<1>11. PICK lev2 : WalkOK(tables, f, lev, page, w, lev2, p, va)
  BY <1>10
<1>12. /\ Grown(tables, lev, w.tables, lev2, p, va)
       /\ Tab(w.tables, w.free \cup {page}, lev2)
       /\ w.free \subseteq f /\ page \notin w.free
       /\ StandsAt(w, p, va)
  BY <1>11 DEF WalkOK
<1>13. /\ Tops(w.tables, lev2) = RootSet(k, procs)
       /\ \A r \in RootSet(k, procs), v \in VA : MmuOf(w.tables, r, v) = MmuOf(tables, r, v)
       /\ \A r \in RootSet(k, procs), i \in Index :
            \/ w.tables[r][i] = tables[r][i]
            \/ r = p /\ i = va[4] /\ tables[r][i] = NULL /\ w.tables[r][i] # NULL
  BY <1>6, <1>8, <1>12 DEF Grown
<1>r. RootTypes(k, procs) /\ RootsOK(tables, k, procs)
  BY <1>3 DEF Inv
<1>14. RootsOK(w.tables, k, procs)
  <2>1. \A r \in RootSet(k, procs), i \in Index :
            \/ w.tables[r][i] = tables[r][i]
            \/ r = k /\ i \in Slots(KernelVA) /\ tables[r][i] = NULL /\ w.tables[r][i] # NULL
            \/ r \in procs /\ i \in Slots(UserVA)
    BY <1>8, <1>13
  <2> QED
    BY <2>1, <1>r, RootsStep
<1>15. CASE w.status # "found"
  <2>1. TreeOK(w.tables, w.free \cup {page}, k, procs)
    BY <1>7, <1>12, <1>13 DEF TreeOK
  <2>2. Same(tables, w.tables, k, procs)
    BY <1>13 DEF Same
  <2> QED
    BY <2>1, <2>2, <1>3, <1>5, <1>14, <1>15
<1>16. CASE w.status = "found"
  <2>1. H1(w.tables, p, va) /\ w.at = T1(w.tables, p, va)
    BY <1>10, <1>12, <1>16 DEF StandsAt
  <2>2. p \in Tops(w.tables, lev2)
    BY <1>9, <1>6, <1>13
  <2>3. CanOpen(w.tables, w.free \cup {page}, lev2, p, va)
    BY <2>1, <2>2, <1>8, <1>12 DEF CanOpen
  <2>4. PICK t1 : t1 = OpenToUser(w.tables, p, va)
    OBVIOUS
  <2>5. Tab(t1, w.free \cup {page}, lev2) /\ Alike(w.tables, t1)
    BY <2>3, <2>4, OpenTab, OpenAlike
  <2>6. /\ DOMAIN t1 = DOMAIN w.tables
        /\ \A t \in DOMAIN w.tables, i \in Index :
             /\ OnWay(w.tables, p, va, t, i) => t1[t][i] = Opened(w.tables[t][i])
             /\ ~OnWay(w.tables, p, va, t, i) => t1[t][i] = w.tables[t][i]
    BY <2>3, <2>4, OpenEntries
  <2>7. Tops(t1, lev2) = RootSet(k, procs) /\ p \in Tops(t1, lev2)
    BY <2>2, <2>6, <1>13 DEF Tops
  <2>8. H1(t1, p, va) /\ T1(t1, p, va) = w.at
    BY <2>1, <2>2, <2>5, <1>8, <1>12, AlikeWay
  <2>9. \A r \in RootSet(k, procs), i \in Index :
           t1[r][i] = w.tables[r][i] \/ (r = p /\ i = va[4])
    <3>1. /\ lev2[T3(w.tables, p, va)] = 3 /\ lev2[T2(w.tables, p, va)] = 2
      BY <2>3, WayTables
    <3>2. \A r \in RootSet(k, procs) : r \in DOMAIN w.tables /\ lev2[r] = 4
      BY <1>13 DEF Tops
    <3> QED
      BY <3>1, <3>2, <2>6 DEF OnWay
  <2>10. PICK e : e = Entry(page, TRUE, wr)
    OBVIOUS
  <2>11. e \in Entries /\ e # NULL /\ e.page = page /\ e.user
    BY <2>10, <1>7, EntryTyped
  <2>12. T1(t1, p, va) \in DOMAIN t1 /\ lev2[T1(t1, p, va)] = 1
    BY <2>5, <2>7, <2>8, <1>8, Levels
  <2>13. CanWrite(t1, w.free \cup {page}, w.free, lev2, T1(t1, p, va), va[1], e)
    BY <2>5, <2>11, <2>12, <1>8, <1>12 DEF CanWrite, Addresses
  <2>w. CanWriteAt(t1, w.free \cup {page}, w.free, lev2, p, va, e)
    BY <2>7, <2>8, <2>13, <1>8 DEF CanWriteAt
  <2>14. PICK t2 : t2 = Written(t1, T1(t1, p, va), va[1], e)
    OBVIOUS
  <2>15. tables' = t2
    BY <2>4, <2>8, <2>10, <2>14, <1>5, <1>16
  <2>16. Tab(t2, w.free, lev2)
    BY <2>13, <2>14, WriteTab
  <2>17. /\ DOMAIN t2 = DOMAIN t1
         /\ \A s \in DOMAIN t1, j \in Index :
               s # T1(t1, p, va) \/ j # va[1] => t2[s][j] = t1[s][j]
    BY <2>13, <2>14, WrittenEntries
  <2>18. Tops(t2, lev2) = RootSet(k, procs)
    BY <2>7, <2>17 DEF Tops
  <2>19. \A r \in RootSet(k, procs), i \in Index : t2[r][i] = t1[r][i]
    BY <2>7, <2>12, <2>17 DEF Tops
  <2>20. RootsOK(t2, k, procs)
    <3>1. \A r \in RootSet(k, procs), i \in Index :
              \/ t2[r][i] = w.tables[r][i]
              \/ r \in procs /\ i \in Slots(UserVA)
      BY <2>9, <2>19, <1>8
    <3> QED
      BY <3>1, <1>r, <1>14, RootsStep
  <2>21. TreeOK(t2, w.free, k, procs)
    BY <2>16, <2>18, <1>7, <1>12 DEF TreeOK
  <2>22. ASSUME NEW r \in RootSet(k, procs), NEW v \in VA, r # p \/ v # va
         PROVE  MmuOf(t2, r, v) = MmuOf(tables, r, v)
    <3>1. r \in Tops(t1, lev2) /\ r \in Tops(w.tables, lev2) /\ v \in Addresses
      BY <2>7, <1>8, <1>13
    <3>2. MmuOf(t2, r, v) = MmuOf(t1, r, v)
      BY <3>1, <2>w, <2>14, <2>22, <1>8, WriteMmu
    <3>3. \/ r # p \/ v[4] # va[4]
          \/ MmuOf(w.tables, r, v) = NULL
          \/ MmuOf(w.tables, r, v) # NULL /\ MmuOf(w.tables, r, v).user
      <4>1. CASE v \in KernelVA
        BY <4>1, <1>8, Facts
      <4>2. CASE v \in UserVA /\ r = p
        <5>1. MmuOf(tables, p, v) # NULL => MmuOf(tables, p, v).user
          BY <4>2 DEF Inv, UserOK
        <5>2. MmuOf(w.tables, r, v) = MmuOf(tables, p, v)
          BY <4>2, <1>13
        <5> QED
          BY <5>1, <5>2
      <4> QED
        BY <4>1, <4>2, Facts
    <3>4. MmuOf(t1, r, v) = MmuOf(w.tables, r, v)
      BY <3>1, <3>3, <2>3, <2>4, <1>8, OpenMmu
    <3> QED
      BY <3>2, <3>4, <1>13
  <2>23. PICK t : t = MmuOf(t2, p, va)
    OBVIOUS
  <2>24. /\ Leaf(va, t, e, 1)
         /\ t # NULL => (t.user <=> /\ E4(t1, p, va).user /\ E3(t1, p, va).user
                                    /\ E2(t1, p, va).user /\ e.user)
    BY <2>w, <2>14, <2>23, WriteHere
  <2>25. E4(t1, p, va).user /\ E3(t1, p, va).user /\ E2(t1, p, va).user
    <3>1. /\ T3(t1, p, va) = T3(w.tables, p, va) /\ T2(t1, p, va) = T2(w.tables, p, va)
      BY <2>1, <2>2, <2>5, <1>8, <1>12, AlikeWay DEF H1, H2
    <3>2. /\ p \in DOMAIN w.tables
          /\ T3(w.tables, p, va) \in DOMAIN w.tables
          /\ T2(w.tables, p, va) \in DOMAIN w.tables
          /\ va[2] \in Index /\ va[3] \in Index /\ va[4] \in Index
          /\ w.tables[p][va[4]] \in Entries
          /\ w.tables[T3(w.tables, p, va)][va[3]] \in Entries
          /\ w.tables[T2(w.tables, p, va)][va[2]] \in Entries
      BY <2>3, WayTables
    <3>3. \A x \in Entries : Opened(x).user = TRUE
      BY OpenedEntry
    <3>4. E4(t1, p, va) = Opened(w.tables[p][va[4]])
      BY <3>2, <2>6 DEF OnWay, E4
    <3>5. E3(t1, p, va) = Opened(w.tables[T3(w.tables, p, va)][va[3]])
      BY <3>1, <3>2, <2>6 DEF OnWay, E3
    <3>6. E2(t1, p, va) = Opened(w.tables[T2(w.tables, p, va)][va[2]])
      BY <3>1, <3>2, <2>6 DEF OnWay, E2
    <3> QED
      BY <3>2, <3>3, <3>4, <3>5, <3>6
  <2>26. t # NULL /\ t.user /\ t.phys[1] = page
    BY <2>11, <2>24, <2>25 DEF Leaf, Phys
  <2>27. UserTo(tables, t2, free, k, procs, p, va)
    BY <2>22, <2>23, <2>26, <1>7 DEF UserTo
  <2> QED
    BY <2>15, <2>20, <2>21, <2>27, <1>3, <1>5, <1>16
<1> QED
  BY <1>15, <1>16

LEMMA InitEffect ==
    ASSUME Inv, paging_init
    PROVE  /\ TreeOK(tables', free', kernel_pml4', procs')
           /\ RootTypes(kernel_pml4', procs')
           /\ RootsOK(tables', kernel_pml4', procs')
           /\ \A v \in VA : MmuOf(tables', kernel_pml4', v) = MmuOf(tables, BootRoot, v)
<1>1. PICK new : new = pmm_alloc_page(free)
  OBVIOUS
<1>2. kernel_pml4 = NULL /\ procs = {} /\ cr3 = BootRoot
  BY DEF Inv, CpuInv, RootTypes, paging_init
<1>3. PICK t2 : t2 = Copied(tables, BootRoot, new)
  OBVIOUS
<1>4. /\ tables' = t2 /\ free' = free \ {new} /\ kernel_pml4' = new /\ procs' = {}
      /\ free # {}
  BY <1>1, <1>2, <1>3 DEF paging_init, Copied
<1>5. new \in free /\ new \in Pages /\ free \subseteq Pages
  <2>1. new \in free
    BY <1>1, <1>4 DEF pmm_alloc_page
  <2> QED
    BY <2>1 DEF Inv, TreeOK
<1>6. PICK lev : Tab(tables, free, lev) /\ Tops(tables, lev) = {BootRoot}
  BY <1>2 DEF Inv, TreeOK, RootSet
<1>7. /\ \A i \in Index : tables[BootRoot][i] # NULL <=> i \in Slots(BootVA)
      /\ \A i \in Index : tables[BootRoot][i] # NULL => i \notin Slots(UserVA)
  <2>1. \A i \in Index : tables[BootRoot][i] # NULL <=> i \in Slots(BootVA)
    BY DEF Inv, RootsOK
  <2> QED
    BY <2>1, Facts
<1>8. BootRoot \in Tops(tables, lev)
  BY <1>6
<1>9. /\ Tab(t2, free \ {new}, CopiedLevel(lev, new))
      /\ Tops(t2, CopiedLevel(lev, new)) = Tops(tables, lev) \cup {new}
      /\ \A i \in Index : t2[new][i] = tables[BootRoot][i]
      /\ \A r \in Tops(tables, lev), i \in Index : t2[r][i] = tables[r][i]
  BY <1>3, <1>5, <1>6, <1>7, <1>8, CopyTab
<1>10. RootSet(new, {}) = {BootRoot, new}
  BY <1>5, Facts DEF RootSet
<1>11. TreeOK(t2, free \ {new}, new, {})
  BY <1>5, <1>6, <1>9, <1>10 DEF TreeOK
<1>12. RootTypes(new, {})
  BY <1>5, Facts DEF RootTypes
<1>13. RootsOK(t2, new, {})
  BY <1>7, <1>8, <1>9, Facts DEF RootsOK
<1>14. \A v \in VA : MmuOf(t2, new, v) = MmuOf(tables, BootRoot, v)
  BY <1>3, <1>5, <1>6, <1>8, CopyMmu, Facts
<1> QED
  BY <1>4, <1>11, <1>12, <1>13, <1>14

LEMMA CreateEffect ==
    ASSUME Inv, page_table_create
    PROVE  \E new :
           /\ procs' = procs \cup {new} /\ new \notin procs /\ kernel_pml4 # NULL
           /\ TreeOK(tables', free', kernel_pml4', procs')
           /\ RootTypes(kernel_pml4', procs')
           /\ RootsOK(tables', kernel_pml4', procs')
           /\ Same(tables, tables', kernel_pml4, procs)
           /\ \A v \in VA : MmuOf(tables', new, v) = MmuOf(tables, kernel_pml4, v)
<1>1. PICK new : new = pmm_alloc_page(free)
  OBVIOUS
<1>2. PICK k : k = kernel_pml4
  OBVIOUS
<1>3. PICK t2 : t2 = Copied(tables, k, new)
  OBVIOUS
<1>4. /\ tables' = t2 /\ free' = free \ {new} /\ kernel_pml4' = k /\ procs' = procs \cup {new}
      /\ free # {} /\ k # NULL
  BY <1>1, <1>2, <1>3 DEF page_table_create, Copied, NewRoot
<1>5. new \in free /\ new \in Pages /\ free \subseteq Pages
  <2>1. new \in free
    BY <1>1, <1>4 DEF pmm_alloc_page
  <2> QED
    BY <2>1 DEF Inv, TreeOK
<1>6. PICK lev : Tab(tables, free, lev) /\ Tops(tables, lev) = RootSet(k, procs)
  BY <1>2 DEF Inv, TreeOK
<1>7. RootTypes(k, procs) /\ RootsOK(tables, k, procs)
  BY <1>2 DEF Inv
<1>8. \A i \in Index : tables[k][i] # NULL => i \notin Slots(UserVA)
  BY <1>4, <1>7, Facts DEF RootsOK
<1>9. k \in Tops(tables, lev)
  BY <1>4, <1>6 DEF RootSet
<1>10. /\ Tab(t2, free \ {new}, CopiedLevel(lev, new))
       /\ Tops(t2, CopiedLevel(lev, new)) = Tops(tables, lev) \cup {new}
       /\ \A i \in Index : t2[new][i] = tables[k][i]
       /\ \A r \in Tops(tables, lev), i \in Index : t2[r][i] = tables[r][i]
  BY <1>3, <1>5, <1>6, <1>8, <1>9, CopyTab
<1>11. new \notin RootSet(k, procs)
  BY <1>5, <1>6 DEF Tab, Tops
<1>12. new \notin procs /\ new # k /\ RootSet(k, procs \cup {new}) = RootSet(k, procs) \cup {new}
  BY <1>4, <1>11 DEF RootSet
<1>13. TreeOK(t2, free \ {new}, k, procs \cup {new})
  BY <1>5, <1>6, <1>10, <1>12 DEF TreeOK
<1>14. RootTypes(k, procs \cup {new})
  BY <1>4, <1>5, <1>7, <1>12 DEF RootTypes
<1>15. \A i \in Slots(KernelVA) : i \in Index /\ tables[k][i] # NULL
  <2>1. PICK hv \in HeapVA : page_table_is_mapped(hv)
    BY DEF page_table_create
  <2>2. hv \in KernelVA /\ hv \in Addresses /\ hv[4] \in Index
    BY Facts DEF KernelVA
  <2>3. page_walk_internal(tables, free, k, hv, FALSE).status = "found"
    BY <2>1, <1>2, <1>4 DEF page_table_is_mapped, page_table_active_root
  <2>4. LET x == page_walk_internal(tables, free, k, hv, FALSE)
            t == MmuOf(tables, k, hv)
        IN  /\ x.status = "found" <=> t # NULL
            /\ x.status = "found" => t.phys = Phys(ReadEntry(x, hv), x.level, hv)
            /\ x.status = "found" /\ x.level = 1 =>
                 H1(tables, k, hv) /\ x.at = T1(tables, k, hv)
    BY <2>2, <1>6, <1>9, WalkLooks
  <2>5. MmuOf(tables, k, hv) # NULL
    BY <2>3, <2>4
  <2>6. tables[k][hv[4]] # NULL
    BY <2>5 DEF MmuOf
  <2>7. \A i \in Slots(KernelVA) : i \in Index /\ (i = hv[4] \/ i \in Slots(BootVA))
    <3>1. \A v \in HeapVA : v[4] = hv[4]
      BY PageTableAssumption
    <3> QED
      BY <3>1, Facts DEF Slots, KernelVA
  <2> QED
    BY <2>6, <2>7, <1>4, <1>7 DEF RootsOK
<1>16. RootsOK(t2, k, procs \cup {new})
  <2>1. \A i \in Index : tables[BootRoot][i] # NULL <=> i \in Slots(BootVA)
    BY <1>7 DEF RootsOK
  <2>2. \A i \in Index : /\ tables[k][i] # NULL => i \in Slots(KernelVA)
                         /\ i \in Slots(BootVA) => tables[k][i] # NULL
    BY <1>4, <1>7 DEF RootsOK
  <2>3. \A p \in procs, i \in Index : /\ i \notin Slots(UserVA) => tables[p][i] = tables[k][i]
                                      /\ i \in Slots(KernelVA) => tables[p][i] # NULL
    BY <1>7 DEF RootsOK
  <2>4. /\ \A i \in Index : t2[BootRoot][i] = tables[BootRoot][i] /\ t2[k][i] = tables[k][i]
        /\ \A p \in procs, i \in Index : t2[p][i] = tables[p][i]
    <3>1. BootRoot \in Tops(tables, lev) /\ \A p \in procs : p \in Tops(tables, lev)
      BY <1>6 DEF RootSet
    <3> QED
      BY <3>1, <1>9, <1>10
  <2>5. \A i \in Index : t2[BootRoot][i] # NULL <=> i \in Slots(BootVA)
    BY <2>1, <2>4
  <2>6. \A i \in Index : /\ t2[k][i] # NULL => i \in Slots(KernelVA)
                         /\ i \in Slots(BootVA) => t2[k][i] # NULL
    BY <2>2, <2>4
  <2>7. \A p \in procs \cup {new}, i \in Index :
           /\ i \notin Slots(UserVA) => t2[p][i] = t2[k][i]
           /\ i \in Slots(KernelVA) => t2[p][i] # NULL
    BY <2>3, <2>4, <1>10, <1>15
  <2> QED
    BY <2>5, <2>6, <2>7 DEF RootsOK
<1>17. \A v \in VA : /\ MmuOf(t2, new, v) = MmuOf(tables, k, v)
                     /\ \A r \in Tops(tables, lev) : MmuOf(t2, r, v) = MmuOf(tables, r, v)
  BY <1>3, <1>5, <1>6, <1>9, CopyMmu, Facts
<1>18. Same(tables, t2, k, procs)
  BY <1>6, <1>17 DEF Same
<1> QED
  BY <1>2, <1>4, <1>12, <1>13, <1>14, <1>16, <1>17, <1>18

-----------------------------------------------------------------------------
LEMMA InitInv == Init => Inv
<1>1. SUFFICES ASSUME Init PROVE Inv
  OBVIOUS
<1>2. PICK lev \in [DOMAIN BootTables -> 1..4] :
         /\ TablesOK(BootTables, Pages, lev)
         /\ \A t \in DOMAIN BootTables : lev[t] = 4 <=> t = BootRoot
  BY PageTableAssumption
<1>3. Tab(BootTables, Pages, lev)
  BY <1>2, TabOfTables
<1>4. Tops(BootTables, lev) = RootSet(NULL, {})
  BY <1>2, PageTableAssumption DEF Tops, RootSet
<1>5. TreeOK(tables, free, kernel_pml4, procs)
  BY <1>1, <1>3, <1>4 DEF Init, TreeOK
<1>6. RootTypes(kernel_pml4, procs) /\ RootsOK(tables, kernel_pml4, procs)
  BY <1>1, PageTableAssumption DEF Init, RootTypes, RootsOK
<1>7. UserOK(tables, procs) /\ CpuInv /\ TlbInv
  BY <1>1 DEF Init, UserOK, CpuInv, TlbInv
<1> QED
  BY <1>5, <1>6, <1>7 DEF Inv

(* The kernel sees nothing in the user half.                               *)
LEMMA KernelNoUser ==
    ASSUME Inv, kernel_pml4 # NULL, NEW v \in UserVA
    PROVE  MmuOf(tables, kernel_pml4, v) = NULL
<1>1. tables[kernel_pml4][v[4]] = NULL
  BY Facts DEF Inv, RootsOK
<1> QED
  BY <1>1 DEF MmuOf

LEMMA Cr3Root == Inv => cr3 \in RootSet(kernel_pml4, procs)
  BY DEF Inv, CpuInv, RootSet

LEMMA InvPreserved == Inv /\ [Next]_vars => Inv'
<1>0. SUFFICES ASSUME Inv, [Next]_vars PROVE Inv'
  OBVIOUS
<1>i. /\ TreeOK(tables, free, kernel_pml4, procs) /\ RootTypes(kernel_pml4, procs)
      /\ RootsOK(tables, kernel_pml4, procs) /\ UserOK(tables, procs) /\ CpuInv /\ TlbInv
  BY <1>0 DEF Inv
<1>c. cr3 \in RootSet(kernel_pml4, procs)
  BY <1>0, Cr3Root
<1>p. \A p \in procs : p \in RootSet(kernel_pml4, procs)
  BY DEF RootSet
<1>d. \A v \in UserVA, va \in KernelVA : v # va /\ v \in VA /\ va \in VA
  BY Facts
<1>1. CASE paging_init
  <2>1. /\ TreeOK(tables', free', kernel_pml4', procs')
        /\ RootTypes(kernel_pml4', procs')
        /\ RootsOK(tables', kernel_pml4', procs')
    BY <1>0, <1>1, InitEffect
  <2>2. /\ kernel_pml4' = pmm_alloc_page(free) /\ active' = pmm_alloc_page(free)
        /\ cr3' = pmm_alloc_page(free) /\ tlb' = NULL /\ procs' = {} /\ free # {}
    BY <1>1, <1>i DEF paging_init, RootTypes
  <2>3. kernel_pml4' # NULL
    BY <2>2, <1>i, Facts DEF TreeOK, pmm_alloc_page
  <2>4. UserOK(tables', procs') /\ CpuInv' /\ TlbInv'
    BY <2>2, <2>3 DEF UserOK, CpuInv, TlbInv
  <2> QED
    BY <2>1, <2>4 DEF Inv
<1>2. ASSUME NEW va \in KernelVA, page_table_map(va)
      PROVE  Inv'
  <2>1. /\ TreeOK(tables', free', kernel_pml4, procs)
        /\ RootsOK(tables', kernel_pml4, procs)
        /\ \/ Same(tables, tables', kernel_pml4, procs) /\ tlb' = tlb
           \/ /\ KernelTo(tables, tables', free, kernel_pml4, procs, va)
              /\ tlb' = invalidate_page(va)
    BY <1>0, <1>2, MapEffect
  <2>2. UNCHANGED <<kernel_pml4, active, procs, cr3>>
    BY <1>2 DEF page_table_map
  <2>3. /\ SameBut(tables, tables', kernel_pml4, procs, va)
        /\ tlb' # NULL => tlb' = tlb /\ (tlb.va # va \/ Same(tables, tables', kernel_pml4, procs))
    BY <2>1 DEF KernelTo, Same, SameBut, invalidate_page
  <2>4. UserOK(tables', procs)
    BY <2>3, <1>i, <1>p, <1>d DEF SameBut, UserOK
  <2>5. TlbInv'
    BY <2>2, <2>3, <1>i, <1>c, <1>d, Facts DEF SameBut, Same, TlbInv
  <2>6. CpuInv'
    BY <2>2, <1>i DEF CpuInv
  <2> QED
    BY <2>1, <2>2, <2>4, <2>5, <2>6, <1>i DEF Inv
<1>3. ASSUME NEW va \in KernelVA, page_table_unmap(va)
      PROVE  Inv'
  <2>1. /\ TreeOK(tables', free', kernel_pml4, procs)
        /\ RootsOK(tables', kernel_pml4, procs)
        /\ KernelOff(tables, tables', kernel_pml4, procs, va)
    BY <1>0, <1>3, UnmapEffect
  <2>2. UNCHANGED <<kernel_pml4, active, procs, cr3>> /\ tlb' = invalidate_page(va)
    BY <1>3 DEF page_table_unmap
  <2>3. /\ SameBut(tables, tables', kernel_pml4, procs, va)
        /\ tlb' # NULL => tlb' = tlb /\ tlb.va # va
    BY <2>1, <2>2 DEF KernelOff, invalidate_page
  <2>4. UserOK(tables', procs)
    BY <2>3, <1>i, <1>p, <1>d DEF SameBut, UserOK
  <2>5. TlbInv'
    BY <2>2, <2>3, <1>i, <1>c, <1>d, Facts DEF SameBut, TlbInv
  <2>6. CpuInv'
    BY <2>2, <1>i DEF CpuInv
  <2> QED
    BY <2>1, <2>2, <2>4, <2>5, <2>6, <1>i DEF Inv
<1>4. ASSUME NEW va \in KernelVA, Access(va)
      PROVE  Inv'
  <2>1. /\ UNCHANGED <<tables, free, kernel_pml4, active, procs, cr3>>
        /\ tlb' = [va |-> va, entry |-> Mmu(cr3, va)]
    BY <1>4 DEF Access
  <2>2. Mmu(cr3, va) = MmuOf(tables, cr3, va)
    BY MmuIs
  <2>3. TlbInv'
    BY <2>1, <2>2 DEF TlbInv
  <2> QED
    BY <2>1, <2>3, <1>i DEF Inv, CpuInv
<1>5. CASE page_table_create
  <2>1. PICK new :
           /\ procs' = procs \cup {new} /\ new \notin procs /\ kernel_pml4 # NULL
           /\ TreeOK(tables', free', kernel_pml4', procs')
           /\ RootTypes(kernel_pml4', procs')
           /\ RootsOK(tables', kernel_pml4', procs')
           /\ Same(tables, tables', kernel_pml4, procs)
           /\ \A v \in VA : MmuOf(tables', new, v) = MmuOf(tables, kernel_pml4, v)
    BY <1>0, <1>5, CreateEffect
  <2>2. UNCHANGED <<kernel_pml4, active, cr3, tlb>>
    BY <1>5 DEF page_table_create
  <2>3. \A v \in UserVA : MmuOf(tables', new, v) = NULL
    BY <2>1, <1>0, KernelNoUser, Facts
  <2>4. UserOK(tables', procs')
    BY <2>1, <2>3, <1>i, <1>p, Facts DEF UserOK, Same
  <2>5. TlbInv'
    BY <2>1, <2>2, <1>i, <1>c, Facts DEF TlbInv, Same
  <2>6. CpuInv'
    BY <2>1, <2>2, <1>i DEF CpuInv
  <2> QED
    BY <2>1, <2>4, <2>5, <2>6 DEF Inv
<1>6. ASSUME NEW root \in procs, page_table_switch(root)
      PROVE  Inv'
  <2>1. /\ UNCHANGED <<tables, free, kernel_pml4, procs>>
        /\ cr3' = root /\ active' = root /\ tlb' = NULL
    BY <1>6 DEF page_table_switch, ActiveNow
  <2>2. CpuInv' /\ TlbInv'
    BY <2>1, <1>6, <1>i DEF CpuInv, TlbInv, RootTypes
  <2> QED
    BY <2>1, <2>2, <1>i DEF Inv
<1>7. ASSUME NEW root \in procs, NEW va \in UserVA,
             page_table_map_user(root, va, va \in WritableVA)
      PROVE  Inv'
  <2>1. (va \in WritableVA) \in BOOLEAN
    OBVIOUS
  <2>2. /\ TreeOK(tables', free', kernel_pml4, procs)
        /\ RootsOK(tables', kernel_pml4, procs)
        /\ \/ Same(tables, tables', kernel_pml4, procs)
           \/ UserTo(tables, tables', free, kernel_pml4, procs, root, va)
    BY <2>1, <1>0, <1>7, MapUserEffect
  <2>3. UNCHANGED <<kernel_pml4, active, procs, cr3, tlb>>
    BY <1>7 DEF page_table_map_user
  <2>4. UserOK(tables', procs)
    BY <2>2, <1>i, <1>p, Facts DEF Same, UserTo, UserOK
  <2>5. TlbInv'
    BY <2>2, <2>3, <1>i, <1>c, <1>d, Facts DEF Same, UserTo, TlbInv
  <2>6. CpuInv'
    BY <2>3, <1>i DEF CpuInv
  <2> QED
    BY <2>2, <2>3, <2>4, <2>5, <2>6, <1>i DEF Inv
<1>8. CASE page_table_activate
  <2>1. /\ UNCHANGED <<tables, free, kernel_pml4, procs>> /\ kernel_pml4 # NULL
        /\ cr3' = kernel_pml4 /\ active' = kernel_pml4 /\ tlb' = NULL
    BY <1>8 DEF page_table_activate
  <2>2. CpuInv' /\ TlbInv'
    BY <2>1 DEF CpuInv, TlbInv
  <2> QED
    BY <2>1, <2>2, <1>i DEF Inv
<1>9. CASE UNCHANGED vars
  BY <1>9, <1>i DEF vars, Inv, CpuInv, TlbInv
<1> QED
  BY <1>0, <1>1, <1>2, <1>3, <1>4, <1>5, <1>6, <1>7, <1>8, <1>9 DEF Next

(* The invariant: the tables are well formed, their roots agree, CR3 holds *)
(* one of them, cached translations are current and a process's pages are  *)
(* open to it.                                                             *)
THEOREM PageTableInvariance == Spec => []Inv
  BY InitInv, InvPreserved, PTL DEF Spec

(* A page is entered in one place, or in the same slot of several roots,   *)
(* and no page that a table names is free: ensure_next_table, the mappings *)
(* and the copies of a PML4 never hand out a page twice.                   *)
THEOREM TreeCorrect == Spec => []Tree
<1>1. Inv => Tree
  <2>1. SUFFICES ASSUME Inv PROVE Tree
    OBVIOUS
  <2>2. PICK lev : Tab(tables, free, lev) /\ Tops(tables, lev) = RootSet(kernel_pml4, procs)
    BY <2>1 DEF Inv, TreeOK
  <2>3. \A t \in DOMAIN tables, i \in Index : tables[t][i] # NULL => tables[t][i].page \notin free
    BY <2>2 DEF Tab, EntriesOK, EntryOK
  <2>4. \A t \in DOMAIN tables : lev[t] = 4 => t \in Roots
    BY <2>2 DEF Tops, RootSet, Roots
  <2>5. ASSUME NEW u \in (DOMAIN tables) \X Index, NEW v \in (DOMAIN tables) \X Index,
               tables[u[1]][u[2]] # NULL, tables[v[1]][v[2]] # NULL,
               tables[u[1]][u[2]].page = tables[v[1]][v[2]].page
        PROVE  u = v \/ ({u[1], v[1]} \subseteq Roots /\ u[2] = v[2])
    <3>1. /\ u[1] \in DOMAIN tables /\ u[2] \in Index /\ u = <<u[1], u[2]>>
          /\ v[1] \in DOMAIN tables /\ v[2] \in Index /\ v = <<v[1], v[2]>>
      OBVIOUS
    <3>2. \/ u[1] = v[1] /\ u[2] = v[2]
          \/ lev[u[1]] = 4 /\ lev[v[1]] = 4 /\ u[2] = v[2]
      BY <3>1, <2>2, <2>5 DEF Tab, Alone
    <3> QED
      BY <3>1, <3>2, <2>4
  <2> QED
    BY <2>3, <2>5 DEF Tree
<1> QED
  BY <1>1, PageTableInvariance, PTL

(* active_pml4_physical is what CR3 holds, so page_table_switch skips a    *)
(* load only when the tables are loaded already.                           *)
THEOREM ActiveIsLoadedCorrect == Spec => []ActiveIsLoaded
<1>1. Inv => ActiveIsLoaded
  BY DEF Inv, CpuInv, ActiveIsLoaded
<1> QED
  BY <1>1, PageTableInvariance, PTL

(* In whatever address space the kernel runs, the translations cached for  *)
(* its addresses and those page_table_translate reports, which walks the   *)
(* kernel's own tables, are the ones of the tables in CR3.                 *)
THEOREM KernelAddressesAgreeCorrect == Spec => []KernelAddressesAgree
<1>1. Inv => KernelAddressesAgree
  <2>1. SUFFICES ASSUME Inv, NEW va \in KernelVA
                 PROVE  /\ tlb # NULL /\ tlb.va = va => tlb.entry = Mmu(cr3, va)
                        /\ page_table_translate(va) = IF Mmu(cr3, va) = NULL THEN NULL
                                                      ELSE Mmu(cr3, va).phys
    BY DEF KernelAddressesAgree
  <2>2. Mmu(cr3, va) = MmuOf(tables, cr3, va)
    BY MmuIs
  <2>3. tlb # NULL /\ tlb.va = va => tlb.entry = Mmu(cr3, va)
    BY <2>1, <2>2 DEF Inv, TlbInv
  <2>4. PICK lev : Tab(tables, free, lev) /\ Tops(tables, lev) = RootSet(kernel_pml4, procs)
    BY <2>1 DEF Inv, TreeOK
  <2>5. PICK r : r = page_table_active_root
    OBVIOUS
  <2>6. r \in Tops(tables, lev) /\ tables[cr3][va[4]] = tables[r][va[4]]
    <3>1. CASE kernel_pml4 = NULL
      BY <3>1, <2>1, <2>4, <2>5, Cr3Root DEF page_table_active_root
    <3>2. CASE kernel_pml4 # NULL
      <4>1. r = kernel_pml4 /\ r \in RootSet(kernel_pml4, procs)
        BY <3>2, <2>5 DEF page_table_active_root, RootSet
      <4>2. cr3 \in procs \cup {kernel_pml4}
        BY <3>2, <2>1 DEF Inv, CpuInv
      <4>3. va[4] \in Index /\ va[4] \notin Slots(UserVA)
        BY Facts
      <4> QED
        BY <4>1, <4>2, <4>3, <2>1, <2>4 DEF Inv, RootsOK
    <3> QED
      BY <3>1, <3>2
  <2>7. MmuOf(tables, cr3, va) = MmuOf(tables, r, va)
    BY <2>6, SameSlot
  <2>8. va \in Addresses
    BY Facts
  <2>9. LET x == page_walk_internal(tables, free, r, va, FALSE)
            t == MmuOf(tables, r, va)
        IN  /\ x.status = "found" <=> t # NULL
            /\ x.status = "found" => t.phys = Phys(ReadEntry(x, va), x.level, va)
            /\ x.status = "found" /\ x.level = 1 =>
                 H1(tables, r, va) /\ x.at = T1(tables, r, va)
    BY <2>4, <2>6, <2>8, WalkLooks
  <2>10. page_table_translate(va) =
           LET x == page_walk_internal(tables, free, r, va, FALSE)
           IN  IF x.status = "found" THEN Phys(ReadEntry(x, va), x.level, va) ELSE NULL
    BY <2>5 DEF page_table_translate
  <2> QED
    BY <2>2, <2>3, <2>7, <2>9, <2>10
<1> QED
  BY <1>1, PageTableInvariance, PTL

-----------------------------------------------------------------------------
(* The refinement.  The abstract variables as functions of the tables.     *)

KernelMapOf(tbl, r) == [va \in VA |-> MmuOf(tbl, r, va)]
SpacesOf(tbl, ps) == [p \in ps |-> [va \in VA |-> MmuOf(tbl, p, va)]]

LEMMA AbstractState ==
    /\ [va \in VA |-> Mmu(KernelRoot, va)] = KernelMapOf(tables, KernelRoot)
    /\ [va \in VA |-> Mmu(KernelRoot, va)]' = KernelMapOf(tables', KernelRoot')
    /\ [p \in procs |-> [va \in VA |-> Mmu(p, va)]] = SpacesOf(tables, procs)
    /\ [p \in procs |-> [va \in VA |-> Mmu(p, va)]]' = SpacesOf(tables', procs')
<1>1. [va \in VA |-> Mmu(KernelRoot, va)] = KernelMapOf(tables, KernelRoot)
  BY DEF KernelMapOf, Mmu, MmuOf
<1>2. [va \in VA |-> Mmu(KernelRoot, va)]' = KernelMapOf(tables', KernelRoot')
  BY DEF KernelMapOf, Mmu, MmuOf
<1>3. [p \in procs |-> [va \in VA |-> Mmu(p, va)]] = SpacesOf(tables, procs)
  BY DEF SpacesOf, Mmu, MmuOf
<1>4. [p \in procs |-> [va \in VA |-> Mmu(p, va)]]' = SpacesOf(tables', procs')
  BY DEF SpacesOf, Mmu, MmuOf
<1> QED
  BY <1>1, <1>2, <1>3, <1>4

(* The abstract actions on given states.                                   *)
UnusedIn(K, S, t) ==
    /\ \A va \in VA : K[va] # NULL => K[va].phys # t.phys
    /\ \A p \in DOMAIN S : \A va \in VA : S[p][va] # NULL => S[p][va].phys # t.phys

SetIn(K, S, K2, S2, va, t) ==
    /\ K2 = [K EXCEPT ![va] = t]
    /\ S2 = [p \in DOMAIN S |-> [S[p] EXCEPT ![va] = t]]

LEMMA AbstractActions ==
    ASSUME NEW K, NEW S, NEW K2, NEW S2,
           K = KernelMapOf(tables, KernelRoot), K2 = KernelMapOf(tables', KernelRoot'),
           S = SpacesOf(tables, procs), S2 = SpacesOf(tables', procs')
    PROVE  /\ K = K2 /\ S = S2 => UNCHANGED A!vars
           /\ \A va \in KernelVA :
                 K2[va] # K[va] /\ K2[va] # NULL /\ ~K2[va].user /\ UnusedIn(K, S, K2[va])
                    /\ SetIn(K, S, K2, S2, va, K2[va]) => A!KernelMap(va)
           /\ \A va \in KernelVA :
                 K[va] # NULL /\ K2[va] = NULL /\ SetIn(K, S, K2, S2, va, NULL) => A!KernelUnmap(va)
           /\ \A p \in DOMAIN S, va \in UserVA :
                 S2[p][va] # S[p][va] /\ S2[p][va] # NULL /\ S2[p][va].user
                    /\ UnusedIn(K, S, S2[p][va]) /\ S2 = [S EXCEPT ![p][va] = S2[p][va]]
                    /\ K2 = K => A!UserMap(p, va)
           /\ \A p : S2 = [q \in DOMAIN S \cup {p} |-> IF q = p THEN K ELSE S[q]] /\ K2 = K => A!Create(p)
<1>k1. K = [va \in VA |-> Mmu(KernelRoot, va)]
  BY AbstractState
<1>k2. K2 = [va \in VA |-> Mmu(KernelRoot, va)]'
  BY AbstractState
<1>s1. S = [p \in procs |-> [va \in VA |-> Mmu(p, va)]]
  BY AbstractState
<1>s2. S2 = [p \in procs |-> [va \in VA |-> Mmu(p, va)]]'
  BY AbstractState
<1>v. VA = A!VA
  BY DEF VA, A!VA
<1>u. ASSUME NEW t, UnusedIn(K, S, t)
      PROVE  A!Unused(t)
  <2>1. \A va \in A!VA : K[va] # NULL => K[va].phys # t.phys
    BY <1>u, <1>v DEF UnusedIn
  <2>2. \A p \in DOMAIN S : \A va \in A!VA : S[p][va] # NULL => S[p][va].phys # t.phys
    BY <1>u, <1>v DEF UnusedIn
  <2> QED
    BY <2>1, <2>2, <1>k1, <1>s1, Zenon DEF A!Unused
<1>1. K = K2 /\ S = S2 => UNCHANGED A!vars
  BY <1>k1, <1>k2, <1>s1, <1>s2, Zenon DEF A!vars
<1>2. ASSUME NEW va \in KernelVA,
             K2[va] # K[va], K2[va] # NULL, ~K2[va].user, UnusedIn(K, S, K2[va]),
             SetIn(K, S, K2, S2, va, K2[va])
      PROVE  A!KernelMap(va)
  <2>1. A!Unused(K2[va])
    BY <1>2, <1>u
  <2>2. A!KernelSet(va, K2[va])
    BY <1>2, <1>k1, <1>k2, <1>s1, <1>s2, Zenon DEF A!KernelSet, SetIn
  <2> QED
    BY <1>2, <1>k1, <1>k2, <2>1, <2>2, Zenon DEF A!KernelMap
<1>3. ASSUME NEW va \in KernelVA,
             K[va] # NULL, K2[va] = NULL, SetIn(K, S, K2, S2, va, NULL)
      PROVE  A!KernelUnmap(va)
  BY <1>3, <1>k1, <1>k2, <1>s1, <1>s2, Zenon DEF A!KernelUnmap, A!KernelSet, SetIn
<1>4. ASSUME NEW p \in DOMAIN S, NEW va \in UserVA,
             S2[p][va] # S[p][va], S2[p][va] # NULL, S2[p][va].user,
             UnusedIn(K, S, S2[p][va]), S2 = [S EXCEPT ![p][va] = S2[p][va]], K2 = K
      PROVE  A!UserMap(p, va)
  <2>1. A!Unused(S2[p][va])
    BY <1>4, <1>u
  <2> QED
    BY <1>4, <1>k1, <1>k2, <1>s1, <1>s2, <2>1, Zenon DEF A!UserMap
<1>5. ASSUME NEW p, S2 = [q \in DOMAIN S \cup {p} |-> IF q = p THEN K ELSE S[q]], K2 = K
      PROVE  A!Create(p)
  BY <1>5, <1>k1, <1>k2, <1>s1, <1>s2, Zenon DEF A!Create
<1> QED
  BY <1>1, <1>2, <1>3, <1>4, <1>5

LEMMA UnusedOf ==
    ASSUME NEW tbl, NEW f, NEW k, NEW ps, TreeOK(tbl, f, k, ps), k # NULL,
           NEW t, t.phys[1] \in f
    PROVE  UnusedIn(KernelMapOf(tbl, k), SpacesOf(tbl, ps), t)
<1>1. PICK lev : Tab(tbl, f, lev) /\ Tops(tbl, lev) = RootSet(k, ps)
  BY DEF TreeOK
<1>2. k \in Tops(tbl, lev) /\ \A p \in ps : p \in Tops(tbl, lev)
  BY <1>1 DEF RootSet
<1>3. \A r \in Tops(tbl, lev), v \in VA : MmuOf(tbl, r, v) # NULL => MmuOf(tbl, r, v).phys[1] \notin f
  BY <1>1, MmuPage, Facts
<1>4. \A r \in Tops(tbl, lev), v \in VA : MmuOf(tbl, r, v) # NULL => MmuOf(tbl, r, v).phys # t.phys
  BY <1>3
<1> QED
  BY <1>2, <1>4 DEF UnusedIn, KernelMapOf, SpacesOf

LEMMA SetOf ==
    ASSUME NEW tbl, NEW tbl2, NEW k, NEW ps, NEW va \in KernelVA, k # NULL,
           SameBut(tbl, tbl2, k, ps, va), RootsOK(tbl2, k, ps)
    PROVE  SetIn(KernelMapOf(tbl, k), SpacesOf(tbl, ps), KernelMapOf(tbl2, k), SpacesOf(tbl2, ps),
                 va, MmuOf(tbl2, k, va))
<1>1. k \in RootSet(k, ps) /\ \A p \in ps : p \in RootSet(k, ps)
  BY DEF RootSet
<1>2. va \in VA /\ va[4] \in Index /\ va[4] \notin Slots(UserVA)
  BY Facts
<1>3. \A p \in ps : MmuOf(tbl2, p, va) = MmuOf(tbl2, k, va)
  <2>1. \A p \in ps : tbl2[p][va[4]] = tbl2[k][va[4]]
    BY <1>2 DEF RootsOK
  <2> QED
    BY <2>1, SameSlot
<1>4. PICK t : t = MmuOf(tbl2, k, va)
  OBVIOUS
<1>5. KernelMapOf(tbl2, k) = [KernelMapOf(tbl, k) EXCEPT ![va] = t]
  BY <1>1, <1>2, <1>4 DEF KernelMapOf, SameBut
<1>6. \A p \in ps : [v \in VA |-> MmuOf(tbl2, p, v)] = [[v \in VA |-> MmuOf(tbl, p, v)] EXCEPT ![va] = t]
  BY <1>1, <1>2, <1>3, <1>4 DEF SameBut
<1>7. SpacesOf(tbl2, ps) =
        [p \in DOMAIN SpacesOf(tbl, ps) |-> [SpacesOf(tbl, ps)[p] EXCEPT ![va] = t]]
  BY <1>6 DEF SpacesOf
<1> QED
  BY <1>4, <1>5, <1>7 DEF SetIn

LEMMA SameOf ==
    ASSUME NEW tbl, NEW tbl2, NEW k, NEW ps, NEW r \in RootSet(k, ps), Same(tbl, tbl2, k, ps)
    PROVE  /\ KernelMapOf(tbl2, r) = KernelMapOf(tbl, r)
           /\ SpacesOf(tbl2, ps) = SpacesOf(tbl, ps)
<1>1. \A p \in ps : p \in RootSet(k, ps)
  BY DEF RootSet
<1>2. KernelMapOf(tbl2, r) = KernelMapOf(tbl, r)
  BY DEF KernelMapOf, Same
<1>3. \A p \in ps : [v \in VA |-> MmuOf(tbl2, p, v)] = [v \in VA |-> MmuOf(tbl, p, v)]
  BY <1>1 DEF Same
<1> QED
  BY <1>2, <1>3 DEF SpacesOf

LEMMA AbstractStep == Inv /\ [Next]_vars => [A!Next]_(A!vars)
<1>0. SUFFICES ASSUME Inv, [Next]_vars PROVE A!Next \/ UNCHANGED A!vars
  OBVIOUS
<1>k. PICK K, S : K = KernelMapOf(tables, KernelRoot) /\ S = SpacesOf(tables, procs)
  OBVIOUS
<1>l. PICK K2, S2 : K2 = KernelMapOf(tables', KernelRoot') /\ S2 = SpacesOf(tables', procs')
  OBVIOUS
<1>a. /\ K = K2 /\ S = S2 => UNCHANGED A!vars
      /\ \A va \in KernelVA :
            K2[va] # K[va] /\ K2[va] # NULL /\ ~K2[va].user /\ UnusedIn(K, S, K2[va])
               /\ SetIn(K, S, K2, S2, va, K2[va]) => A!KernelMap(va)
      /\ \A va \in KernelVA :
            K[va] # NULL /\ K2[va] = NULL /\ SetIn(K, S, K2, S2, va, NULL) => A!KernelUnmap(va)
      /\ \A p \in DOMAIN S, va \in UserVA :
            S2[p][va] # S[p][va] /\ S2[p][va] # NULL /\ S2[p][va].user
               /\ UnusedIn(K, S, S2[p][va]) /\ S2 = [S EXCEPT ![p][va] = S2[p][va]]
               /\ K2 = K => A!UserMap(p, va)
      /\ \A p : S2 = [q \in DOMAIN S \cup {p} |-> IF q = p THEN K ELSE S[q]] /\ K2 = K => A!Create(p)
  BY <1>k, <1>l, AbstractActions
<1>i. /\ TreeOK(tables, free, kernel_pml4, procs) /\ RootTypes(kernel_pml4, procs)
      /\ RootsOK(tables, kernel_pml4, procs) /\ CpuInv
  BY <1>0 DEF Inv
<1>r. KernelRoot \in RootSet(kernel_pml4, procs)
  BY DEF KernelRoot, RootSet
<1>d. DOMAIN S = procs /\ DOMAIN S2 = procs'
  BY <1>k, <1>l DEF SpacesOf
<1>e. /\ \A va \in VA : K[va] = MmuOf(tables, KernelRoot, va) /\ K2[va] = MmuOf(tables', KernelRoot', va)
      /\ \A p \in procs, va \in VA : S[p][va] = MmuOf(tables, p, va)
      /\ \A p \in procs', va \in VA : S2[p][va] = MmuOf(tables', p, va)
  BY <1>k, <1>l DEF KernelMapOf, SpacesOf
<1>s. tables' = tables /\ kernel_pml4' = kernel_pml4 /\ procs' = procs => UNCHANGED A!vars
  BY <1>a, <1>k, <1>l DEF KernelRoot
<1>1. CASE paging_init
  <2>1. /\ kernel_pml4 = NULL /\ procs = {} /\ procs' = {}
        /\ kernel_pml4' = pmm_alloc_page(free) /\ free # {}
    BY <1>1, <1>i DEF paging_init, RootTypes
  <2>2. kernel_pml4' # NULL
    BY <2>1, <1>i, Facts DEF TreeOK, pmm_alloc_page
  <2>3. KernelRoot = BootRoot /\ KernelRoot' = kernel_pml4'
    BY <2>1, <2>2 DEF KernelRoot
  <2>4. \A v \in VA : MmuOf(tables', kernel_pml4', v) = MmuOf(tables, BootRoot, v)
    BY <1>0, <1>1, InitEffect
  <2>5. K = K2
    BY <2>3, <2>4, <1>k, <1>l DEF KernelMapOf
  <2>6. S = S2
    BY <2>1, <1>k, <1>l DEF SpacesOf
  <2> QED
    BY <2>5, <2>6, <1>a
<1>2. ASSUME NEW va \in KernelVA, page_table_map(va)
      PROVE  A!Next \/ UNCHANGED A!vars
  <2>1. kernel_pml4 # NULL /\ kernel_pml4' = kernel_pml4 /\ procs' = procs
    BY <1>2 DEF page_table_map
  <2>2. KernelRoot = kernel_pml4 /\ KernelRoot' = kernel_pml4
    BY <2>1 DEF KernelRoot
  <2>3. /\ RootsOK(tables', kernel_pml4, procs)
        /\ \/ Same(tables, tables', kernel_pml4, procs)
           \/ KernelTo(tables, tables', free, kernel_pml4, procs, va)
    BY <1>0, <1>2, MapEffect
  <2>4. CASE Same(tables, tables', kernel_pml4, procs)
    BY <2>1, <2>2, <2>4, <1>a, <1>k, <1>l, <1>r, SameOf
  <2>5. CASE KernelTo(tables, tables', free, kernel_pml4, procs, va)
    <3>1. PICK t : t = MmuOf(tables', kernel_pml4, va)
      OBVIOUS
    <3>2. /\ SameBut(tables, tables', kernel_pml4, procs, va)
          /\ t # NULL /\ ~t.user /\ t.phys[1] \in free
      BY <2>5, <3>1 DEF KernelTo
    <3>3. K2[va] = t /\ va \in VA
      BY <3>1, <2>2, <1>e, Facts
    <3>4. UnusedIn(K, S, t)
      BY <3>2, <2>1, <2>2, <1>i, <1>k, UnusedOf
    <3>5. SetIn(K, S, K2, S2, va, t)
      BY <3>1, <3>2, <2>1, <2>2, <2>3, <1>k, <1>l, SetOf
    <3>6. K[va] # t
      BY <3>2, <3>3, <3>4 DEF UnusedIn
    <3>7. A!KernelMap(va)
      BY <3>2, <3>3, <3>4, <3>5, <3>6, <1>a
    <3> QED
      BY <3>7 DEF A!Next
  <2> QED
    BY <2>3, <2>4, <2>5
<1>3. ASSUME NEW va \in KernelVA, page_table_unmap(va)
      PROVE  A!Next
  <2>1. kernel_pml4 # NULL /\ kernel_pml4' = kernel_pml4 /\ procs' = procs
    BY <1>3 DEF page_table_unmap
  <2>2. KernelRoot = kernel_pml4 /\ KernelRoot' = kernel_pml4
    BY <2>1 DEF KernelRoot
  <2>3. /\ RootsOK(tables', kernel_pml4, procs)
        /\ KernelOff(tables, tables', kernel_pml4, procs, va)
    BY <1>0, <1>3, UnmapEffect
  <2>4. /\ SameBut(tables, tables', kernel_pml4, procs, va)
        /\ MmuOf(tables, kernel_pml4, va) # NULL /\ MmuOf(tables', kernel_pml4, va) = NULL
    BY <2>3 DEF KernelOff
  <2>5. K[va] # NULL /\ K2[va] = NULL
    BY <2>2, <2>4, <1>e, Facts
  <2>6. SetIn(K, S, K2, S2, va, MmuOf(tables', kernel_pml4, va))
    BY <2>1, <2>2, <2>3, <2>4, <1>k, <1>l, SetOf
  <2>7. A!KernelUnmap(va)
    BY <2>4, <2>5, <2>6, <1>a
  <2> QED
    BY <2>7 DEF A!Next
<1>4. ASSUME NEW va \in KernelVA, Access(va)
      PROVE  UNCHANGED A!vars
  BY <1>4, <1>s DEF Access
<1>5. CASE page_table_create
  <2>1. PICK new :
           /\ procs' = procs \cup {new} /\ new \notin procs /\ kernel_pml4 # NULL
           /\ Same(tables, tables', kernel_pml4, procs)
           /\ \A v \in VA : MmuOf(tables', new, v) = MmuOf(tables, kernel_pml4, v)
    BY <1>0, <1>5, CreateEffect
  <2>2. KernelRoot = kernel_pml4 /\ KernelRoot' = kernel_pml4
    BY <2>1, <1>5 DEF KernelRoot, page_table_create
  <2>3. K2 = K /\ SpacesOf(tables', procs) = S
    BY <2>1, <2>2, <1>k, <1>l, <1>r, SameOf
  <2>4. K = [v \in VA |-> MmuOf(tables', new, v)]
    BY <2>1, <2>2, <1>k DEF KernelMapOf
  <2>5. \A p \in procs : [v \in VA |-> MmuOf(tables', p, v)] = S[p]
    BY <2>3 DEF SpacesOf
  <2>6. S2 = [q \in DOMAIN S \cup {new} |-> IF q = new THEN K ELSE S[q]]
    BY <2>1, <2>4, <2>5, <1>d, <1>l DEF SpacesOf
  <2>7. A!Create(new)
    BY <2>3, <2>6, <1>a
  <2>8. new \in DOMAIN S2 \ DOMAIN S
    BY <2>1, <1>d
  <2>9. /\ S = [p \in procs |-> [va \in VA |-> Mmu(p, va)]]
        /\ S2 = [p \in procs |-> [va \in VA |-> Mmu(p, va)]]'
    BY <1>k, <1>l, AbstractState
  <2> QED
    BY <2>7, <2>8, <2>9, Zenon DEF A!Next
<1>6. ASSUME NEW root \in procs, page_table_switch(root)
      PROVE  UNCHANGED A!vars
  BY <1>6, <1>s DEF page_table_switch
<1>7. ASSUME NEW root \in procs, NEW va \in UserVA,
             page_table_map_user(root, va, va \in WritableVA)
      PROVE  A!Next \/ UNCHANGED A!vars
  <2>1. kernel_pml4 # NULL /\ kernel_pml4' = kernel_pml4 /\ procs' = procs
    BY <1>7, <1>i DEF page_table_map_user, RootTypes
  <2>2. KernelRoot = kernel_pml4 /\ KernelRoot' = kernel_pml4
    BY <2>1 DEF KernelRoot
  <2>b. (va \in WritableVA) \in BOOLEAN
    OBVIOUS
  <2>3. \/ Same(tables, tables', kernel_pml4, procs)
        \/ UserTo(tables, tables', free, kernel_pml4, procs, root, va)
    BY <2>b, <1>0, <1>7, MapUserEffect
  <2>4. CASE Same(tables, tables', kernel_pml4, procs)
    BY <2>1, <2>2, <2>4, <1>a, <1>k, <1>l, <1>r, SameOf
  <2>5. CASE UserTo(tables, tables', free, kernel_pml4, procs, root, va)
    <3>1. PICK t : t = MmuOf(tables', root, va)
      OBVIOUS
    <3>2. /\ \A r \in RootSet(kernel_pml4, procs), v \in VA : r # root \/ v # va =>
                MmuOf(tables', r, v) = MmuOf(tables, r, v)
          /\ t # NULL /\ t.user /\ t.phys[1] \in free
      BY <2>5, <3>1 DEF UserTo
    <3>3. va \in VA /\ root \in procs /\ kernel_pml4 # root /\ root \in DOMAIN S
      BY <1>7, <1>d, <1>i, Facts DEF RootTypes
    <3>4. S2[root][va] = t
      BY <3>1, <3>3, <2>1, <1>e
    <3>5. UnusedIn(K, S, t)
      BY <3>2, <2>1, <2>2, <1>i, <1>k, UnusedOf
    <3>6. S[root][va] # t
      BY <3>2, <3>3, <3>5 DEF UnusedIn
    <3>7. K2 = K
      BY <3>2, <3>3, <2>2, <1>k, <1>l, <1>r DEF KernelMapOf
    <3>8. S2 = [S EXCEPT ![root][va] = t]
      <4>1. \A p \in procs : p \in RootSet(kernel_pml4, procs)
        BY DEF RootSet
      <4>2. ASSUME NEW p \in procs, p # root
            PROVE  [v \in VA |-> MmuOf(tables', p, v)] = [v \in VA |-> MmuOf(tables, p, v)]
        BY <4>1, <4>2, <3>2
      <4>3. [v \in VA |-> MmuOf(tables', root, v)] = [[v \in VA |-> MmuOf(tables, root, v)] EXCEPT ![va] = t]
        BY <4>1, <3>1, <3>2, <3>3
      <4> QED
        BY <4>2, <4>3, <3>3, <2>1, <1>k, <1>l DEF SpacesOf
    <3>9. A!UserMap(root, va)
      BY <3>2, <3>3, <3>4, <3>5, <3>6, <3>7, <3>8, <1>a
    <3>10. S = [p \in procs |-> [v \in VA |-> Mmu(p, v)]]
      BY <1>k, AbstractState
    <3> QED
      BY <3>3, <3>9, <3>10, Zenon DEF A!Next
  <2> QED
    BY <2>3, <2>4, <2>5
<1>8. CASE page_table_activate
  BY <1>8, <1>s DEF page_table_activate
<1>9. CASE UNCHANGED vars
  BY <1>9, <1>s DEF vars
<1> QED
  BY <1>0, <1>1, <1>2, <1>3, <1>4, <1>5, <1>6, <1>7, <1>8, <1>9 DEF Next

LEMMA AbstractInit == Init => A!Init
<1>1. SUFFICES ASSUME Init PROVE A!Init
  OBVIOUS
<1>2. KernelRoot = BootRoot /\ procs = {} /\ tables = BootTables
  BY <1>1 DEF Init, KernelRoot
<1>3. PICK K : K = [va \in VA |-> Mmu(KernelRoot, va)]
  OBVIOUS
<1>4. \A va \in UserVA : K[va] = NULL
  <2>1. SUFFICES ASSUME NEW va \in UserVA PROVE K[va] = NULL
    OBVIOUS
  <2>2. K[va] = Mmu(BootRoot, va)
    BY <1>2, <1>3, Facts
  <2>3. tables[BootRoot][va[4]] = NULL
    BY <1>2, PageTableAssumption, Facts
  <2> QED
    BY <2>2, <2>3 DEF Mmu
<1>5. [p \in procs |-> [va \in VA |-> Mmu(p, va)]] = [p \in {} |-> K]
  BY <1>2
<1> QED
  BY <1>3, <1>4, <1>5, Zenon DEF A!Init

(* The page tables implement AddressSpaces: a step of page_table.c maps or *)
(* unmaps one kernel address in every space, maps one address of one       *)
(* process, adds a process that sees the kernel only, or changes no        *)
(* translation, as a walk that fails half way does.                        *)
THEOREM SpacesImplemented == Spec => Spaces
  BY InitInv, InvPreserved, AbstractInit, AbstractStep, PTL DEF Spec, Spaces, A!Spec
=============================================================================
