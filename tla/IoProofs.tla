------------------------------ MODULE IoProofs ------------------------------
(***************************************************************************)
(* Proofs about FileSystem, for any number of processes, nodes, files and  *)
(* descriptors, and about Terminal, for any number of tasks and any size   *)
(* of the screen.                                                          *)
(***************************************************************************)
EXTENDS FileSystem, Terminal, SequenceTheorems, FiniteSetTheorems, WellFoundedInduction,
        TLAPS

-----------------------------------------------------------------------------
(* The file system, module FileSystem *)

(* Nodes are numbered as they are made, and every field is there.          *)
NodeOK(x, S) ==
    /\ x = [name |-> x.name, type |-> x.type, parent |-> x.parent, children |-> x.children,
            data |-> x.data, size |-> x.size]
    /\ x.children \in Seq(S)

NodesOK ==
    /\ \E N \in Nat \ {0} : DOMAIN nodes = 0..(N - 1)
    /\ nodes = [n \in DOMAIN nodes |-> nodes[n]]
    /\ \A n \in DOMAIN nodes : NodeOK(nodes[n], DOMAIN nodes)
    /\ root \in {0, NULL}
    /\ root = NULL => /\ nodes = ramfs_mount
                      /\ mem = [n \in {0} |-> <<>>] /\ written = [n \in {0} |-> <<>>]

(* A descriptor is that of a file, a file that of a node.                  *)
OpenOK ==
    /\ files \in Seq(DOMAIN nodes)
    /\ fd_table \in [Procs -> [Fds -> (1..Len(files)) \cup {NULL}]]

(* The blocks of a node, and its pointer to one of them.                   *)
Units == Bytes \cup {NULL}

BlocksOK(x, blocks) ==
    /\ blocks \in Seq(Seq(Units))
    /\ x.size \in Nat
    /\ x.data \in (1..Len(blocks)) \cup {NULL}

MemOK ==
    /\ mem = [n \in DOMAIN nodes |-> mem[n]]
    /\ \A n \in DOMAIN nodes : BlocksOK(nodes[n], mem[n])

(* A call is one at a file, and holds one of the blocks of that file.      *)
CallShape(c) ==
    c = [step |-> c.step, node |-> c.node, block |-> c.block, buffer |-> c.buffer,
         asked |-> c.asked, size |-> c.size, done |-> c.done, clean |-> c.clean]

CallOK(c, nd, me) ==
    \/ c = Idle
    \/ /\ CallShape(c)
       /\ c.step \in {"alloc", "copy", "limit", "read"}
       /\ c.node \in DOMAIN nd /\ nd[c.node].type = "file"
       /\ c.asked \in Nat /\ c.size \in Nat /\ c.done \in 0..c.size
       /\ c.step # "alloc" => c.block \in 1..Len(me[c.node])
       /\ c.step \in {"alloc", "limit"} => c.done = 0 /\ c.asked = c.size
       /\ c.step \in WriteSteps => c.buffer \in Seq(Bytes) /\ Len(c.buffer) = c.size
       /\ c.step \notin WriteSteps => c.buffer \in Seq(Units) /\ Len(c.buffer) = c.done

CallsOK ==
    /\ call = [p \in Procs |-> call[p]]
    /\ \A p \in Procs : CallOK(call[p], nodes, mem)

(* A call that is clean is at a node to which no other process writes.     *)
CleanOK ==
    \A p, q \in Procs :
        /\ p # q /\ call[p].step # "idle" /\ call[p].clean
        /\ call[q].step \in WriteSteps
        => call[q].node # call[p].node

(* A node x with these blocks holds w.                                     *)
Holds(x, blocks, w) ==
    /\ w \in Seq(Bytes) /\ x.size = Len(w)
    /\ x.data = NULL => w = <<>>
    /\ x.data # NULL => \A i \in 1..Len(w) : i <= Len(blocks[x.data]) /\ blocks[x.data][i] = w[i]

(* How far a clean call has come, w being what was written last.           *)
Progress(c, x, blocks, w) ==
    /\ c.step = "alloc" => x.data = NULL /\ (w # NULL => Holds(x, blocks, w))
    /\ c.step # "alloc" => c.block = x.data
    /\ c.step = "copy" =>
         \A i \in 1..c.done : i <= Len(blocks[c.block]) /\ blocks[c.block][i] = c.buffer[i]
    /\ c.step = "read" /\ w # NULL =>
         /\ c.size = Lesser(c.asked, Len(w))
         /\ \A i \in 1..c.done : c.buffer[i] = w[i]

ProgressOK ==
    ~overrun => \A p \in Procs :
        call[p].step # "idle" /\ call[p].clean =>
            Progress(call[p], nodes[call[p].node], mem[call[p].node], written[call[p].node])

(* Between writes a node holds what was last written.                      *)
WrittenOK ==
    /\ written = [n \in DOMAIN nodes |-> written[n]]
    /\ ~overrun => \A n \in DOMAIN nodes :
          written[n] # NULL /\ Alone(n) => Holds(nodes[n], mem[n], written[n])

(* Every node but the root is among the children of its parent, which is   *)
(* older, and no two children of a directory have the same name.           *)
ChildOf(nd, n) ==
    /\ nd[n].parent \in DOMAIN nd /\ nd[n].parent < n
    /\ \E i \in DOMAIN nd[nd[n].parent].children : nd[nd[n].parent].children[i] = n

NamesDiffer(nd, d) ==
    \A i, j \in DOMAIN nd[d].children :
        nd[nd[d].children[i]].name = nd[nd[d].children[j]].name =>
            nd[d].children[i] = nd[d].children[j]

TreeOK(nd) ==
    /\ nd[0].parent = NULL
    /\ \A n \in DOMAIN nd \ {0} : ChildOf(nd, n)
    /\ \A d \in DOMAIN nd : NamesDiffer(nd, d)

FInv ==
    /\ NodesOK /\ OpenOK /\ MemOK /\ CallsOK /\ CleanOK /\ ProgressOK /\ WrittenOK
    /\ TreeOK(nodes)

(* A non-empty set of naturals has a least element.                        *)
LEMMA LeastElement ==
    ASSUME NEW S, S \subseteq Nat, S # {}
    PROVE  Least(S) \in S /\ \A y \in S : Least(S) <= y
  <1>1. PICK x \in S : \A y \in S : ~(<<y, x>> \in OpToRel(<, Nat))
    BY WFMin, NatLessThanWellFounded, Zenon
  <1>2. \A y \in S : x <= y
    <2> TAKE y \in S
    <2>1. ~(y < x)
      BY <1>1 DEF OpToRel
    <2>2. QED BY <2>1
  <1>3. QED BY <1>2 DEF Least

(* What holds of 0 and, with a number, of the next holds up to n.          *)
LEMMA UpTo ==
    ASSUME NEW n \in Nat, NEW H, H \subseteq 0..n, 0 \in H,
           \A k \in H : k < n => k + 1 \in H
    PROVE  H = 0..n
  <1> SUFFICES ASSUME H # 0..n PROVE FALSE
    OBVIOUS
  <1>1. PICK U : U = (0..n) \ H
    OBVIOUS
  <1>2. U # {} /\ U \subseteq Nat
    <2>1. \E x \in 0..n : x \notin H
      BY Zenon
    <2>2. U # {}
      BY <1>1, <2>1, Zenon
    <2>3. QED BY <1>1, <2>2
  <1>3. PICK m : m = Least(U)
    OBVIOUS
  <1>4. m \in U /\ \A y \in U : m <= y
    BY <1>2, <1>3, LeastElement
  <1>5. m \in Nat /\ m <= n /\ m # 0
    BY <1>1, <1>4
  <1>6. m - 1 \in 0..n /\ m - 1 \notin U
    BY <1>2, <1>4, <1>5
  <1>7. m - 1 \in H /\ m - 1 < n
    BY <1>1, <1>5, <1>6
  <1>8. (m - 1) + 1 \in H
    BY <1>7
  <1>9. QED BY <1>1, <1>4, <1>5, <1>8

-----------------------------------------------------------------------------
(* Lookup *)

(* A lookup is a walk: one step of ramfs_lookup for each component.        *)
Step(x, name) == IF x = NULL THEN NULL ELSE ramfs_lookup(x, name)

IsWalk(f, from, path, n) ==
    /\ f \in [0..n -> DOMAIN nodes \cup {NULL}]
    /\ f[0] = from
    /\ \A k \in 1..n : f[k] = Step(f[k - 1], path[k])

(* ramfs_lookup finds a child, or nothing.                                 *)
LEMMA StepType ==
    ASSUME NodesOK, NEW x \in DOMAIN nodes \cup {NULL}, NEW name
    PROVE  Step(x, name) \in DOMAIN nodes \cup {NULL}
  <1>1. CASE x = NULL
    BY <1>1 DEF Step
  <1>2. CASE x # NULL
    <2>1. PICK s : s = nodes[x].children
      OBVIOUS
    <2>2. s \in Seq(DOMAIN nodes)
      BY <1>2, <2>1 DEF NodesOK, NodeOK
    <2>3. PICK hits : hits = {i \in DOMAIN s : nodes[s[i]].name = name}
      OBVIOUS
    <2>4. ramfs_lookup(x, name) = IF hits = {} THEN NULL ELSE s[Least(hits)]
      BY <2>1, <2>3 DEF ramfs_lookup
    <2>5. CASE hits = {}
      BY <1>2, <2>4, <2>5 DEF Step
    <2>6. CASE hits # {}
      <3>1. DOMAIN s = 1..Len(s) /\ Len(s) \in Nat
        BY <2>2, LenProperties
      <3>2. hits \subseteq Nat
        BY <2>3, <3>1
      <3>3. Least(hits) \in hits
        BY <2>6, <3>2, LeastElement
      <3>4. Least(hits) \in 1..Len(s)
        BY <2>3, <3>1, <3>3
      <3>5. s[Least(hits)] \in DOMAIN nodes
        BY <2>2, <3>4, ElementOfSeq
      <3>6. QED BY <1>2, <2>4, <2>6, <3>5 DEF Step
    <2>7. QED BY <2>5, <2>6
  <1>3. QED BY <1>1, <1>2

(* A walk can be made from anywhere along any path.                        *)
LEMMA WalkExists ==
    ASSUME NodesOK, NEW from \in DOMAIN nodes \cup {NULL}, NEW path, NEW n \in Nat
    PROVE  \E f : IsWalk(f, from, path, n)
  <1>1. PICK H : H = {k \in 0..n : \E f : IsWalk(f, from, path, k)}
    OBVIOUS
  <1>2. 0 \in H
    <2>1. PICK f : f = [k \in 0..0 |-> from]
      OBVIOUS
    <2>2. IsWalk(f, from, path, 0)
      BY <2>1 DEF IsWalk
    <2>3. QED BY <1>1, <2>2
  <1>3. ASSUME NEW k \in H, k < n PROVE k + 1 \in H
    <2>1. k \in Nat
      BY <1>1
    <2>2. PICK f : IsWalk(f, from, path, k)
      BY <1>1
    <2>3. PICK y : y = Step(f[k], path[k + 1])
      OBVIOUS
    <2>4. PICK g : g = [j \in 0..(k + 1) |-> IF j = k + 1 THEN y ELSE f[j]]
      OBVIOUS
    <2>5. y \in DOMAIN nodes \cup {NULL}
      <3>1. f[k] \in DOMAIN nodes \cup {NULL}
        BY <2>1, <2>2 DEF IsWalk
      <3>2. QED BY <2>3, <3>1, StepType
    <2>6. g \in [0..(k + 1) -> DOMAIN nodes \cup {NULL}]
      <3>1. \A j \in 0..(k + 1) : j # k + 1 => j \in 0..k
        BY <2>1
      <3>2. QED BY <2>2, <2>4, <2>5, <3>1 DEF IsWalk
    <2>7. g[0] = from
      BY <2>1, <2>2, <2>4 DEF IsWalk
    <2>8. ASSUME NEW j \in 1..(k + 1) PROVE g[j] = Step(g[j - 1], path[j])
      <3>1. g[j - 1] = f[j - 1]
        BY <2>1, <2>4
      <3>2. CASE j = k + 1
        <4>1. g[j] = y /\ j - 1 = k
          BY <2>1, <2>4, <3>2
        <4>2. QED BY <2>3, <3>1, <3>2, <4>1
      <3>3. CASE j # k + 1
        <4>1. j \in 1..k /\ g[j] = f[j]
          BY <2>1, <2>4, <3>3
        <4>2. f[j] = Step(f[j - 1], path[j])
          BY <2>2, <4>1 DEF IsWalk
        <4>3. QED BY <3>1, <4>1, <4>2
      <3>4. QED BY <3>2, <3>3
    <2>9. IsWalk(g, from, path, k + 1)
      BY <2>6, <2>7, <2>8 DEF IsWalk
    <2>10. QED BY <1>1, <1>3, <2>1, <2>9
  <1>4. H = 0..n
    BY <1>1, <1>2, <1>3, UpTo
  <1>5. QED BY <1>1, <1>4

(* There is one walk along a path.                                         *)
LEMMA WalkUnique ==
    ASSUME NEW from, NEW path, NEW n \in Nat, NEW f, IsWalk(f, from, path, n),
           NEW g, IsWalk(g, from, path, n)
    PROVE  \A k \in 0..n : f[k] = g[k]
  <1>1. PICK H : H = {k \in 0..n : f[k] = g[k]}
    OBVIOUS
  <1>2. 0 \in H
    BY <1>1 DEF IsWalk
  <1>3. ASSUME NEW k \in H, k < n PROVE k + 1 \in H
    <2>1. k \in Nat /\ f[k] = g[k] /\ k + 1 \in 1..n /\ (k + 1) - 1 = k
      BY <1>1, <1>3
    <2>2. f[k + 1] = Step(f[k], path[k + 1]) /\ g[k + 1] = Step(g[k], path[k + 1])
      BY <2>1 DEF IsWalk
    <2>3. QED BY <1>1, <2>1, <2>2
  <1>4. H = 0..n
    BY <1>1, <1>2, <1>3, UpTo
  <1>5. QED BY <1>1, <1>4

(* vfs_lookup follows that walk to its end.                                *)
LEMMA LookupFacts ==
    ASSUME NodesOK, NEW path, Len(path) \in Nat
    PROVE  \E f : IsWalk(f, root, path, Len(path)) /\ vfs_lookup(path) = f[Len(path)]
  <1>1. PICK n : n = Len(path)
    OBVIOUS
  <1>2. root \in DOMAIN nodes \cup {NULL}
    BY DEF NodesOK
  <1>3. PICK f : IsWalk(f, root, path, n)
    BY <1>1, <1>2, WalkExists
  <1>4. f = [k \in 0..n |-> IF k = 0 THEN root
                            ELSE IF f[k - 1] = NULL THEN NULL ELSE ramfs_lookup(f[k - 1], path[k])]
    <2>1. ASSUME NEW k \in 0..n
          PROVE  f[k] = IF k = 0 THEN root
                        ELSE IF f[k - 1] = NULL THEN NULL ELSE ramfs_lookup(f[k - 1], path[k])
      <3>1. k # 0 => k \in 1..n
        BY <1>1
      <3>2. QED BY <1>3, <3>1 DEF IsWalk, Step
    <2>2. f = [k \in 0..n |-> f[k]]
      BY <1>3 DEF IsWalk
    <2>3. QED BY <2>1, <2>2
  <1>5. PICK g : g = CHOOSE at_1 : at_1 = [k \in 0..n |-> IF k = 0 THEN root
                 ELSE IF at_1[k - 1] = NULL THEN NULL ELSE ramfs_lookup(at_1[k - 1], path[k])]
    OBVIOUS
  <1>6. g = [k \in 0..n |-> IF k = 0 THEN root
                            ELSE IF g[k - 1] = NULL THEN NULL ELSE ramfs_lookup(g[k - 1], path[k])]
    BY <1>4, <1>5
  <1>7. vfs_lookup(path) = g[n]
    BY <1>1, <1>5 DEF vfs_lookup
  <1>8. PICK H : H = {k \in 0..n : g[k] = f[k]}
    OBVIOUS
  <1>9. 0 \in H
    BY <1>1, <1>3, <1>6, <1>8 DEF IsWalk
  <1>10. ASSUME NEW k \in H, k < n PROVE k + 1 \in H
    <2>1. k \in Nat /\ f[k] = g[k] /\ k + 1 \in 1..n /\ k + 1 \in 0..n /\ (k + 1) - 1 = k
      BY <1>1, <1>8, <1>10
    <2>2. f[k + 1] = Step(f[k], path[k + 1])
      BY <1>3, <2>1 DEF IsWalk
    <2>3. g[k + 1] = Step(g[k], path[k + 1])
      <3>1. PICK j : j = k + 1
        OBVIOUS
      <3>2. j \in 0..n /\ j # 0 /\ j - 1 = k
        BY <2>1, <3>1
      <3>3. g[j] = IF g[j - 1] = NULL THEN NULL ELSE ramfs_lookup(g[j - 1], path[j])
        BY <1>6, <3>2
      <3>4. QED BY <3>1, <3>2, <3>3 DEF Step
    <2>4. QED BY <1>8, <2>1, <2>2, <2>3
  <1>11. H = 0..n
    BY <1>1, <1>8, <1>9, <1>10, UpTo
  <1>12. g[n] = f[n]
    BY <1>1, <1>8, <1>11
  <1>13. QED BY <1>1, <1>3, <1>7, <1>12

(* A directory finds each of its children by its name.                     *)
LEMMA ChildFound ==
    ASSUME NodesOK, TreeOK(nodes), NEW x \in DOMAIN nodes, x # 0
    PROVE  /\ nodes[x].parent \in DOMAIN nodes /\ nodes[x].parent < x
           /\ ramfs_lookup(nodes[x].parent, nodes[x].name) = x
  <1>1. PICK d, s, name : d = nodes[x].parent /\ s = nodes[d].children /\ name = nodes[x].name
    OBVIOUS
  <1>2. d \in DOMAIN nodes /\ d < x /\ NamesDiffer(nodes, d) /\ \E i \in DOMAIN s : s[i] = x
    BY <1>1 DEF TreeOK, ChildOf
  <1>3. PICK i \in DOMAIN s : s[i] = x
    BY <1>2
  <1>4. PICK hits : hits = {j \in DOMAIN s : nodes[s[j]].name = name}
    OBVIOUS
  <1>5. ramfs_lookup(d, name) = IF hits = {} THEN NULL ELSE s[Least(hits)]
    BY <1>1, <1>4 DEF ramfs_lookup
  <1>6. i \in hits
    BY <1>1, <1>3, <1>4
  <1>7. hits \subseteq Nat
    <2>1. s \in Seq(DOMAIN nodes)
      BY <1>1, <1>2 DEF NodesOK, NodeOK
    <2>2. DOMAIN s = 1..Len(s) /\ Len(s) \in Nat
      BY <2>1, LenProperties
    <2>3. QED BY <1>4, <2>2
  <1>8. Least(hits) \in hits
    BY <1>6, <1>7, LeastElement
  <1>9. s[Least(hits)] = x
    <2>1. PICK l : l = Least(hits)
      OBVIOUS
    <2>2. l \in DOMAIN s /\ nodes[s[l]].name = nodes[s[i]].name
      BY <1>1, <1>3, <1>4, <1>8, <2>1
    <2>3. s[l] = s[i]
      BY <1>1, <1>2, <1>3, <2>2 DEF NamesDiffer
    <2>4. QED BY <1>3, <2>1, <2>3
  <1>10. QED BY <1>1, <1>2, <1>5, <1>6, <1>9

(* One step up, as PathOf makes it: u has a node and the path below it.    *)
Rise(u) ==
    IF nodes[u[1]].parent = NULL THEN u
    ELSE <<nodes[u[1]].parent, <<nodes[u[1]].name>> \o u[2]>>

AllNames == {nodes[x].name : x \in DOMAIN nodes}

(* The path below the node of u leads to n, and k steps have been made.    *)
Leads(u, n, k) ==
    /\ u[1] \in DOMAIN nodes /\ u[2] \in Seq(AllNames)
    /\ u[1] = 0 \/ u[1] + k <= n
    /\ \E f : IsWalk(f, u[1], u[2], Len(u[2])) /\ f[Len(u[2])] = n

(* A step up keeps that.                                                   *)
LEMMA RiseLeads ==
    ASSUME NodesOK, TreeOK(nodes), NEW n \in DOMAIN nodes, NEW u, NEW k \in Nat, Leads(u, n, k)
    PROVE  Leads(Rise(u), n, k + 1)
  <1>1. PICK x, q : x = u[1] /\ q = u[2]
    OBVIOUS
  <1>2. x \in DOMAIN nodes /\ q \in Seq(AllNames) /\ Len(q) \in Nat
    <2>1. x \in DOMAIN nodes /\ q \in Seq(AllNames)
      BY <1>1 DEF Leads
    <2>2. QED BY <2>1, LenProperties
  <1>3. DOMAIN nodes \subseteq Nat /\ NULL \notin Nat
    BY FileSystemAssumption DEF NodesOK
  <1>4. CASE x = 0
    <2>1. Rise(u) = u
      BY <1>1, <1>4 DEF Rise, TreeOK
    <2>2. QED BY <1>1, <1>4, <2>1 DEF Leads
  <1>5. CASE x # 0
    <2>1. PICK y, name : y = nodes[x].parent /\ name = nodes[x].name
      OBVIOUS
    <2>2. y \in DOMAIN nodes /\ y < x /\ ramfs_lookup(y, name) = x
      BY <1>2, <1>5, <2>1, ChildFound
    <2>3. y # NULL /\ y \in Nat /\ x \in Nat /\ n \in Nat
      BY <1>2, <1>3, <2>2
    <2>4. PICK r : r = <<name>> \o q
      OBVIOUS
    <2>5. Rise(u) = <<y, r>>
      BY <1>1, <2>1, <2>3, <2>4 DEF Rise
    <2>6. /\ r \in Seq(AllNames) /\ Len(r) = Len(q) + 1
          /\ r[1] = name /\ \A j \in 2..(Len(q) + 1) : r[j] = q[j - 1]
      <3>1. <<name>> \in Seq(AllNames) /\ Len(<<name>>) = 1 /\ <<name>>[1] = name
        BY <1>2, <2>1 DEF AllNames
      <3>2. PICK w : w = <<name>>
        OBVIOUS
      <3>3. w \in Seq(AllNames) /\ Len(w) = 1 /\ w[1] = name /\ r = w \o q
        BY <2>4, <3>1, <3>2
      <3>4. /\ r \in Seq(AllNames) /\ Len(r) = Len(w) + Len(q)
            /\ \A i \in 1..(Len(w) + Len(q)) : r[i] = IF i <= Len(w) THEN w[i] ELSE q[i - Len(w)]
        BY <1>2, <3>3, ConcatProperties
      <3>5. \A i \in 1..(1 + Len(q)) : r[i] = IF i <= 1 THEN w[i] ELSE q[i - 1]
        BY <3>3, <3>4
      <3>6. r[1] = name
        <4>1. 1 \in 1..(1 + Len(q)) /\ 1 <= 1
          BY <1>2
        <4>2. r[1] = w[1]
          BY <3>5, <4>1
        <4>3. QED BY <3>3, <4>2
      <3>7. \A j \in 2..(Len(q) + 1) : r[j] = q[j - 1]
        BY <1>2, <3>5
      <3>8. QED BY <1>2, <3>3, <3>4, <3>6, <3>7
    <2>7. PICK f : IsWalk(f, x, q, Len(q)) /\ f[Len(q)] = n
      BY <1>1 DEF Leads
    <2>8. PICK m : m = Len(q) + 1
      OBVIOUS
    <2>9. PICK g : g = [j \in 0..m |-> IF j = 0 THEN y ELSE f[j - 1]]
      OBVIOUS
    <2>10. IsWalk(g, y, r, m)
      <3>1. g \in [0..m -> DOMAIN nodes \cup {NULL}]
        <4>1. \A j \in 0..m : j # 0 => j - 1 \in 0..Len(q)
          BY <1>2, <2>8
        <4>2. \A j \in 0..Len(q) : f[j] \in DOMAIN nodes \cup {NULL}
          BY <2>7 DEF IsWalk
        <4>3. QED BY <2>2, <2>9, <4>1, <4>2
      <3>2. g[0] = y
        BY <1>2, <2>8, <2>9
      <3>3. ASSUME NEW j \in 1..m PROVE g[j] = Step(g[j - 1], r[j])
        <4>1. g[j] = f[j - 1]
          BY <1>2, <2>8, <2>9
        <4>2. CASE j = 1
          <5>1. f[0] = x /\ g[1 - 1] = y /\ g[1] = f[0]
            BY <2>7, <3>2, <4>1, <4>2 DEF IsWalk
          <5>2. QED BY <2>2, <2>3, <2>6, <4>2, <5>1 DEF Step
        <4>3. CASE j # 1
          <5>1. j - 1 \in 1..Len(q) /\ j \in 2..(Len(q) + 1) /\ j - 1 \in 0..m /\ j - 1 # 0
            BY <1>2, <2>8, <4>3
          <5>2. f[j - 1] = Step(f[(j - 1) - 1], q[j - 1])
            BY <2>7, <5>1 DEF IsWalk
          <5>3. g[j - 1] = f[(j - 1) - 1] /\ r[j] = q[j - 1]
            BY <2>6, <2>9, <5>1
          <5>4. QED BY <4>1, <5>2, <5>3
        <4>4. QED BY <4>2, <4>3
      <3>4. QED BY <3>1, <3>2, <3>3 DEF IsWalk
    <2>11. g[m] = n
      BY <1>2, <2>7, <2>8, <2>9
    <2>12. y + (k + 1) <= n
      <3>1. x + k <= n
        BY <1>1, <1>5 DEF Leads
      <3>2. QED BY <2>2, <2>3, <3>1
    <2>13. PICK v : v = <<y, r>>
      OBVIOUS
    <2>14. v[1] = y /\ v[2] = r
      BY <2>13
    <2>15. Leads(v, n, k + 1)
      BY <2>2, <2>6, <2>8, <2>10, <2>11, <2>12, <2>14 DEF Leads
    <2>16. QED BY <2>5, <2>13, <2>15
  <1>6. QED BY <1>4, <1>5

(* So does any number of them, which are all that PathOf makes.            *)
IsRise(f, n, m) ==
    /\ f = [k \in 0..m |-> f[k]]
    /\ f[0] = <<n, <<>>>>
    /\ \A k \in 1..m : f[k] = Rise(f[k - 1])

(* The steps up can be made.                                               *)
LEMMA RiseExists ==
    ASSUME NEW n, NEW m \in Nat
    PROVE  \E f : IsRise(f, n, m)
  <1>1. PICK H : H = {k \in 0..m : \E f : IsRise(f, n, k)}
    OBVIOUS
  <1>2. 0 \in H
    <2>1. PICK f : f = [k \in 0..0 |-> <<n, <<>>>>]
      OBVIOUS
    <2>2. IsRise(f, n, 0)
      BY <2>1 DEF IsRise
    <2>3. QED BY <1>1, <2>2
  <1>3. ASSUME NEW k \in H, k < m PROVE k + 1 \in H
    <2>1. k \in Nat
      BY <1>1
    <2>2. PICK f : IsRise(f, n, k)
      BY <1>1
    <2>3. PICK y : y = Rise(f[k])
      OBVIOUS
    <2>4. PICK g : g = [j \in 0..(k + 1) |-> IF j = k + 1 THEN y ELSE f[j]]
      OBVIOUS
    <2>5. g[0] = <<n, <<>>>> /\ g = [j \in 0..(k + 1) |-> g[j]]
      BY <2>1, <2>2, <2>4 DEF IsRise
    <2>6. ASSUME NEW j \in 1..(k + 1) PROVE g[j] = Rise(g[j - 1])
      <3>1. g[j - 1] = f[j - 1]
        BY <2>1, <2>4
      <3>2. CASE j = k + 1
        <4>1. g[j] = y /\ j - 1 = k
          BY <2>1, <2>4, <3>2
        <4>2. QED BY <2>3, <3>1, <4>1
      <3>3. CASE j # k + 1
        <4>1. j \in 1..k /\ g[j] = f[j]
          BY <2>1, <2>4, <3>3
        <4>2. f[j] = Rise(f[j - 1])
          BY <2>2, <4>1 DEF IsRise
        <4>3. QED BY <3>1, <4>1, <4>2
      <3>4. QED BY <3>2, <3>3
    <2>7. IsRise(g, n, k + 1)
      BY <2>5, <2>6 DEF IsRise
    <2>8. QED BY <1>1, <1>3, <2>1, <2>7
  <1>4. H = 0..m
    BY <1>1, <1>2, <1>3, UpTo
  <1>5. QED BY <1>1, <1>4

(* PathOf(n) is the path from the root to n.                               *)
LEMMA PathLeads ==
    ASSUME NodesOK, TreeOK(nodes), NEW n \in DOMAIN nodes
    PROVE  \E u : u[1] = 0 /\ u[2] = PathOf(n) /\ Leads(u, n, 0)
  <1>1. PICK N \in Nat \ {0} : DOMAIN nodes = 0..(N - 1)
    BY DEF NodesOK
  <1>2. Cardinality(DOMAIN nodes) = N
    <2>1. N - 1 \in Int /\ 0 \in Int
      BY <1>1
    <2>2. Cardinality(0..(N - 1)) = IF 0 > N - 1 THEN 0 ELSE (N - 1) - 0 + 1
      BY <2>1, FS_Interval
    <2>3. QED BY <1>1, <2>2
  <1>3. PICK f : IsRise(f, n, N)
    BY <1>1, RiseExists
  <1>4. f = [k \in 0..N |-> IF k = 0 THEN <<n, <<>>>>
             ELSE IF nodes[f[k - 1][1]].parent = NULL THEN f[k - 1]
             ELSE <<nodes[f[k - 1][1]].parent, <<nodes[f[k - 1][1]].name>> \o f[k - 1][2]>>]
    <2>1. ASSUME NEW k \in 0..N
          PROVE  f[k] = IF k = 0 THEN <<n, <<>>>>
             ELSE IF nodes[f[k - 1][1]].parent = NULL THEN f[k - 1]
             ELSE <<nodes[f[k - 1][1]].parent, <<nodes[f[k - 1][1]].name>> \o f[k - 1][2]>>
      <3>1. k # 0 => k \in 1..N
        BY <1>1
      <3>2. QED BY <1>3, <3>1 DEF IsRise, Rise
    <2>2. f = [k \in 0..N |-> f[k]]
      BY <1>3 DEF IsRise
    <2>3. QED BY <2>1, <2>2
  <1>5. PICK g : g = CHOOSE up_1 : up_1 = [k \in 0..N |-> IF k = 0 THEN <<n, <<>>>>
             ELSE IF nodes[up_1[k - 1][1]].parent = NULL THEN up_1[k - 1]
             ELSE <<nodes[up_1[k - 1][1]].parent,
                    <<nodes[up_1[k - 1][1]].name>> \o up_1[k - 1][2]>>]
    OBVIOUS
  <1>6. g = [k \in 0..N |-> IF k = 0 THEN <<n, <<>>>>
             ELSE IF nodes[g[k - 1][1]].parent = NULL THEN g[k - 1]
             ELSE <<nodes[g[k - 1][1]].parent, <<nodes[g[k - 1][1]].name>> \o g[k - 1][2]>>]
    BY <1>4, <1>5
  <1>7. PathOf(n) = g[N][2]
    BY <1>2, <1>5 DEF PathOf
  <1>8. PICK H : H = {k \in 0..N : Leads(g[k], n, k)}
    OBVIOUS
  <1>9. 0 \in H
    <2>1. PICK u : u = <<n, <<>>>>
      OBVIOUS
    <2>2. u[1] = n /\ u[2] = <<>> /\ Len(u[2]) = 0 /\ u[2] \in Seq(AllNames)
      BY <2>1
    <2>3. g[0] = u
      BY <1>1, <1>6, <2>1
    <2>4. PICK w : w = [j \in 0..0 |-> n]
      OBVIOUS
    <2>5. IsWalk(w, n, <<>>, 0) /\ w[0] = n
      BY <2>4 DEF IsWalk
    <2>6. n + 0 <= n
      BY <1>1
    <2>7. Leads(u, n, 0)
      BY <2>2, <2>5, <2>6 DEF Leads
    <2>8. QED BY <1>1, <1>8, <2>3, <2>7
  <1>10. ASSUME NEW k \in H, k < N PROVE k + 1 \in H
    <2>1. k \in Nat /\ k + 1 \in 0..N /\ Leads(g[k], n, k)
      BY <1>1, <1>8, <1>10
    <2>2. PICK j : j = k + 1
      OBVIOUS
    <2>3. j \in 0..N /\ j # 0 /\ j - 1 = k
      BY <2>1, <2>2
    <2>4. g[j] = IF nodes[g[j - 1][1]].parent = NULL THEN g[j - 1]
             ELSE <<nodes[g[j - 1][1]].parent, <<nodes[g[j - 1][1]].name>> \o g[j - 1][2]>>
      BY <1>6, <2>3
    <2>5. g[j] = Rise(g[k])
      BY <2>3, <2>4 DEF Rise
    <2>6. Leads(Rise(g[k]), n, k + 1)
      BY <2>1, RiseLeads
    <2>7. QED BY <1>8, <2>1, <2>2, <2>5, <2>6
  <1>11. H = 0..N
    BY <1>1, <1>8, <1>9, <1>10, UpTo
  <1>12. Leads(g[N], n, N)
    BY <1>1, <1>8, <1>11
  <1>13. g[N][1] = 0
    <2>1. g[N][1] \in Nat /\ n < N
      BY <1>1, <1>12 DEF Leads
    <2>2. QED BY <1>1, <1>12, <2>1 DEF Leads
  <1>14. Leads(g[N], n, 0)
    BY <1>12, <1>13 DEF Leads
  <1>15. QED BY <1>7, <1>13, <1>14

(* What the invariant says of paths.                                       *)
LEMMA TreeResolves ==
    ASSUME NodesOK, TreeOK(nodes)
    PROVE  PathsResolve
  <1> SUFFICES ASSUME root # NULL, NEW n \in DOMAIN nodes
               PROVE  vfs_lookup(PathOf(n)) = n
    BY DEF PathsResolve
  <1>1. PICK u : u[1] = 0 /\ u[2] = PathOf(n) /\ Leads(u, n, 0)
    BY PathLeads
  <1>2. PICK path : path = PathOf(n)
    OBVIOUS
  <1>3. path \in Seq(AllNames)
    BY <1>1, <1>2 DEF Leads
  <1>4. PICK m : m = Len(path)
    OBVIOUS
  <1>5. m \in Nat
    BY <1>3, <1>4, LenProperties
  <1>6. root = 0
    BY DEF NodesOK
  <1>7. PICK f : IsWalk(f, 0, path, m) /\ f[m] = n
    BY <1>1, <1>2, <1>4 DEF Leads
  <1>8. PICK g : IsWalk(g, 0, path, m) /\ vfs_lookup(path) = g[m]
    BY <1>4, <1>5, <1>6, LookupFacts
  <1>9. f[m] = g[m]
    BY <1>5, <1>7, <1>8, WalkUnique
  <1>10. QED BY <1>2, <1>7, <1>8, <1>9

-----------------------------------------------------------------------------
(* The calls *)

(* A node that is added, in terms of the fields that make the tree.        *)
Added(nd, nd2, d, new, name) ==
    /\ new \notin DOMAIN nd /\ DOMAIN nd2 = DOMAIN nd \cup {new}
    /\ \A n \in DOMAIN nd :
         /\ nd2[n].name = nd[n].name /\ nd2[n].parent = nd[n].parent
         /\ nd2[n].children = IF n = d THEN Append(nd[d].children, new) ELSE nd[n].children
    /\ nd2[new].name = name /\ nd2[new].parent = d /\ nd2[new].children = <<>>

(* A child at the end of the children.                                     *)
LEMMA AppendFacts ==
    ASSUME NEW S, NEW s \in Seq(S), NEW x
    PROVE  /\ DOMAIN s = 1..Len(s) /\ Len(s) \in Nat
           /\ DOMAIN Append(s, x) = 1..(Len(s) + 1)
           /\ Append(s, x)[Len(s) + 1] = x
           /\ \A i \in 1..Len(s) : Append(s, x)[i] = s[i]
  OBVIOUS

(* A name that the directory does not have yet leaves the tree in order.   *)
LEMMA AddedTree ==
    ASSUME NodesOK, TreeOK(nodes), NEW nd2, NEW d \in DOMAIN nodes, NEW new \in Nat, NEW name,
           Added(nodes, nd2, d, new, name), \A n \in DOMAIN nodes : n < new,
           ramfs_lookup(d, name) = NULL
    PROVE  TreeOK(nd2)
  <1>1. PICK s : s = nodes[d].children
    OBVIOUS
  <1>2. s \in Seq(DOMAIN nodes)
    BY <1>1 DEF NodesOK, NodeOK
  <1>3. PICK t : t = Append(s, new)
    OBVIOUS
  <1>4. /\ DOMAIN s = 1..Len(s) /\ Len(s) \in Nat /\ DOMAIN t = 1..(Len(s) + 1)
        /\ t[Len(s) + 1] = new /\ \A i \in 1..Len(s) : t[i] = s[i]
    BY <1>2, <1>3, AppendFacts
  <1>5. nd2[d].children = t
    BY <1>1, <1>3 DEF Added
  <1>6. DOMAIN nodes \subseteq Nat /\ 0 \in DOMAIN nodes /\ NULL \notin Nat
    BY FileSystemAssumption DEF NodesOK
  <1>7. nd2[0].parent = NULL
    BY <1>6 DEF TreeOK, Added
  <1>8. ASSUME NEW n \in DOMAIN nd2 \ {0} PROVE ChildOf(nd2, n)
    <2>1. CASE n = new
      <3>1. nd2[n].parent = d /\ d \in DOMAIN nd2 /\ d < n
        BY <2>1 DEF Added
      <3>2. Len(s) + 1 \in DOMAIN t
        BY <1>4
      <3>3. QED BY <1>4, <1>5, <2>1, <3>1, <3>2 DEF ChildOf
    <2>2. CASE n # new
      <3>1. n \in DOMAIN nodes /\ n # 0
        BY <2>2 DEF Added
      <3>2. PICK p : p = nodes[n].parent
        OBVIOUS
      <3>3. p \in DOMAIN nodes /\ p < n /\ \E i \in DOMAIN nodes[p].children : nodes[p].children[i] = n
        BY <3>1, <3>2 DEF TreeOK, ChildOf
      <3>4. nd2[n].parent = p /\ p \in DOMAIN nd2
        BY <3>1, <3>2, <3>3 DEF Added
      <3>5. \E i \in DOMAIN nd2[p].children : nd2[p].children[i] = n
        <4>1. CASE p = d
          <5>1. PICK i \in DOMAIN s : s[i] = n
            BY <1>1, <3>3, <4>1
          <5>2. i \in DOMAIN t /\ t[i] = n
            BY <1>4, <5>1
          <5>3. QED BY <1>5, <4>1, <5>2
        <4>2. CASE p # d
          BY <3>3, <4>2 DEF Added
        <4>3. QED BY <4>1, <4>2
      <3>6. QED BY <3>3, <3>4, <3>5 DEF ChildOf
    <2>3. QED BY <2>1, <2>2
  <1>9. ASSUME NEW i \in DOMAIN s PROVE s[i] \in DOMAIN nodes /\ nodes[s[i]].name # name
    <2>1. s[i] \in DOMAIN nodes
      BY <1>2, <1>4, ElementOfSeq
    <2>2. ASSUME nodes[s[i]].name = name PROVE FALSE
      <3>1. PICK hits : hits = {j \in DOMAIN s : nodes[s[j]].name = name}
        OBVIOUS
      <3>2. hits # {} /\ hits \subseteq Nat
        BY <1>4, <2>2, <3>1
      <3>3. ramfs_lookup(d, name) = s[Least(hits)]
        BY <1>1, <3>1, <3>2 DEF ramfs_lookup
      <3>4. Least(hits) \in 1..Len(s)
        BY <1>4, <3>1, <3>2, LeastElement
      <3>5. s[Least(hits)] \in DOMAIN nodes
        BY <1>2, <3>4, ElementOfSeq
      <3>6. QED BY <1>6, <3>3, <3>5
    <2>3. QED BY <2>1, <2>2
  <1>10. ASSUME NEW c \in DOMAIN nd2 PROVE NamesDiffer(nd2, c)
    <2>1. CASE c = new
      <3>1. nd2[c].children = <<>>
        BY <2>1 DEF Added
      <3>2. QED BY <3>1 DEF NamesDiffer
    <2>2. CASE c # new /\ c # d
      <3>1. PICK r : r = nodes[c].children
        OBVIOUS
      <3>2. c \in DOMAIN nodes /\ nd2[c].children = r /\ r \in Seq(DOMAIN nodes)
        BY <2>2, <3>1 DEF Added, NodesOK, NodeOK
      <3>3. DOMAIN r = 1..Len(r)
        BY <3>2, LenProperties
      <3>4. \A i \in DOMAIN r : nd2[r[i]].name = nodes[r[i]].name
        <4>1. ASSUME NEW i \in DOMAIN r PROVE nd2[r[i]].name = nodes[r[i]].name
          <5>1. r[i] \in DOMAIN nodes
            BY <3>2, <3>3, ElementOfSeq
          <5>2. QED BY <5>1 DEF Added
        <4>2. QED BY <4>1
      <3>5. NamesDiffer(nodes, c)
        BY <3>2 DEF TreeOK
      <3>6. QED BY <3>1, <3>2, <3>4, <3>5 DEF NamesDiffer
    <2>3. CASE c = d
      <3>1. ASSUME NEW i \in DOMAIN t, NEW j \in DOMAIN t, nd2[t[i]].name = nd2[t[j]].name
            PROVE  t[i] = t[j]
        <4>1. ASSUME NEW k \in DOMAIN t, k \in DOMAIN s
              PROVE  t[k] = s[k] /\ nd2[t[k]].name = nodes[s[k]].name /\ nodes[s[k]].name # name
          BY <1>4, <1>9, <4>1 DEF Added
        <4>2. ASSUME NEW k \in DOMAIN t, k \notin DOMAIN s
              PROVE  t[k] = new /\ nd2[t[k]].name = name
          <5>1. k = Len(s) + 1
            BY <1>4, <4>2
          <5>2. QED BY <1>4, <5>1 DEF Added
        <4>3. NamesDiffer(nodes, d)
          BY DEF TreeOK
        <4>4. CASE i \in DOMAIN s /\ j \in DOMAIN s
          BY <1>1, <3>1, <4>1, <4>3, <4>4 DEF NamesDiffer
        <4>5. QED BY <3>1, <4>1, <4>2, <4>4
      <3>2. QED BY <1>5, <2>3, <3>1 DEF NamesDiffer
    <2>4. QED BY <2>1, <2>2, <2>3
  <1>11. QED BY <1>7, <1>8, <1>10 DEF TreeOK

(* ramfs_mkdir and ramfs_create, while no process is in a call.            *)
LEMMA AddNodeKeeps ==
    ASSUME FInv, ~overrun, root # NULL, NEW d \in DOMAIN nodes, NEW name, NEW type,
           AddNode(d, name, type)
    PROVE  FInv'
  <1>1. PICK N \in Nat \ {0} : DOMAIN nodes = 0..(N - 1)
    BY DEF FInv, NodesOK
  <1>2. Cardinality(DOMAIN nodes) = N
    <2>1. N - 1 \in Int /\ 0 \in Int
      BY <1>1
    <2>2. Cardinality(0..(N - 1)) = IF 0 > N - 1 THEN 0 ELSE (N - 1) - 0 + 1
      BY <2>1, FS_Interval
    <2>3. QED BY <1>1, <2>2
  <1>3. PICK D : D = DOMAIN nodes
    OBVIOUS
  <1>4. PICK fresh : fresh = NewNode(name, type, d)
    OBVIOUS
  <1>5. PICK grown : grown = [nodes[d] EXCEPT !.children = Append(@, N)]
    OBVIOUS
  <1>6. /\ nodes' = [n \in D \cup {N} |-> IF n = N THEN fresh ELSE IF n = d THEN grown ELSE nodes[n]]
        /\ mem' = [n \in D \cup {N} |-> IF n = N THEN <<>> ELSE mem[n]]
        /\ written' = [n \in D \cup {N} |-> IF n = N THEN <<>> ELSE written[n]]
        /\ ramfs_lookup(d, name) = NULL /\ UNCHANGED <<root, files, fd_table, call, overrun>>
        /\ \A p \in Procs : call[p].step = "idle"
    BY <1>2, <1>3, <1>4, <1>5 DEF AddNode, Taken
  <1>7. N \notin D /\ D \cup {N} = 0..N /\ \A n \in D : n \in Nat /\ n < N
    BY <1>1, <1>3
  <1>8. NodeOK(nodes[d], D) /\ D = DOMAIN nodes /\ d \in D
    BY <1>3 DEF FInv, NodesOK
  <1>9. /\ grown.name = nodes[d].name /\ grown.parent = nodes[d].parent
        /\ grown.children = Append(nodes[d].children, N)
        /\ grown.data = nodes[d].data /\ grown.size = nodes[d].size
        /\ grown = [name |-> grown.name, type |-> grown.type, parent |-> grown.parent,
                    children |-> grown.children, data |-> grown.data, size |-> grown.size]
    BY <1>5, <1>8 DEF NodeOK
  <1>10. /\ fresh.name = name /\ fresh.parent = d /\ fresh.children = <<>>
         /\ fresh.data = NULL /\ fresh.size = 0
         /\ fresh = [name |-> fresh.name, type |-> fresh.type, parent |-> fresh.parent,
                     children |-> fresh.children, data |-> fresh.data, size |-> fresh.size]
    BY <1>4 DEF NewNode
  <1>11. DOMAIN nodes' = D \cup {N}
    BY <1>6
  <1>12. ASSUME NEW s, s \in Seq(D) PROVE s \in Seq(D \cup {N})
    BY <1>12, SeqMonotonic
  <1>13. NodesOK'
    <2>1. NodeOK(fresh, D \cup {N})
      BY <1>10 DEF NodeOK
    <2>2. NodeOK(grown, D \cup {N})
      <3>1. nodes[d].children \in Seq(D \cup {N})
        BY <1>8, <1>12 DEF NodeOK
      <3>2. Append(nodes[d].children, N) \in Seq(D \cup {N})
        BY <3>1
      <3>3. QED BY <1>9, <3>2 DEF NodeOK
    <2>3. \A n \in D : NodeOK(nodes[n], D \cup {N})
      BY <1>3, <1>12 DEF FInv, NodesOK, NodeOK
    <2>4. \A n \in D \cup {N} : NodeOK(nodes'[n], D \cup {N})
      BY <1>6, <2>1, <2>2, <2>3
    <2>5. \E M \in Nat \ {0} : DOMAIN nodes' = 0..(M - 1)
      <3>1. N + 1 \in Nat \ {0} /\ (N + 1) - 1 = N
        BY <1>1
      <3>2. QED BY <1>7, <1>11, <3>1
    <2>6. nodes' = [n \in D \cup {N} |-> nodes'[n]]
      BY <1>6
    <2>7. root' \in {0, NULL} /\ root' # NULL
      BY <1>6 DEF FInv, NodesOK
    <2>8. QED BY <1>11, <2>4, <2>5, <2>6, <2>7 DEF NodesOK
  <1>14. OpenOK'
    <2>1. files \in Seq(D \cup {N})
      BY <1>3, <1>12 DEF FInv, OpenOK
    <2>2. QED BY <1>6, <1>11, <2>1 DEF FInv, OpenOK
  <1>15. MemOK'
    <2>1. BlocksOK(fresh, <<>>)
      BY <1>10 DEF BlocksOK
    <2>2. BlocksOK(grown, mem[d])
      BY <1>9 DEF FInv, MemOK, BlocksOK
    <2>3. \A n \in D : BlocksOK(nodes[n], mem[n])
      BY <1>3 DEF FInv, MemOK
    <2>4. \A n \in D \cup {N} : BlocksOK(nodes'[n], mem'[n])
      BY <1>6, <1>7, <1>8, <2>1, <2>2, <2>3
    <2>5. mem' = [n \in D \cup {N} |-> mem'[n]]
      BY <1>6
    <2>6. QED BY <1>11, <2>4, <2>5 DEF MemOK
  <1>16. CallsOK' /\ CleanOK' /\ ProgressOK'
    <2>1. \A p \in Procs : call[p] = Idle
      BY <1>6 DEF FInv, CallsOK, CallOK
    <2>2. CallsOK'
      BY <1>6, <2>1 DEF FInv, CallsOK, CallOK
    <2>3. QED BY <1>6, <2>2 DEF CleanOK, ProgressOK
  <1>17. WrittenOK'
    <2>1. Holds(fresh, <<>>, <<>>)
      BY <1>10 DEF Holds
    <2>2. \A n \in D : Alone(n)
      BY <1>6 DEF Alone, WriteSteps
    <2>3. \A n \in D : written[n] # NULL => Holds(nodes[n], mem[n], written[n])
      BY <1>3, <2>2 DEF FInv, WrittenOK
    <2>4. written[d] # NULL => Holds(grown, mem[d], written[d])
      BY <1>8, <1>9, <2>3 DEF Holds
    <2>5. \A n \in D \cup {N} : written'[n] # NULL => Holds(nodes'[n], mem'[n], written'[n])
      BY <1>6, <1>7, <1>8, <2>1, <2>3, <2>4
    <2>6. written' = [n \in D \cup {N} |-> written'[n]]
      BY <1>6
    <2>7. QED BY <1>11, <2>5, <2>6 DEF WrittenOK
  <1>18. TreeOK(nodes')
    <2>1. Added(nodes, nodes', d, N, name)
      BY <1>3, <1>6, <1>7, <1>8, <1>9, <1>10, <1>11 DEF Added
    <2>2. QED BY <1>1, <1>3, <1>6, <1>7, <2>1, AddedTree DEF FInv
  <1>19. QED BY <1>13, <1>14, <1>15, <1>16, <1>17, <1>18 DEF FInv

(* The tree does not depend on what files hold.                            *)
LEMMA SameTree ==
    ASSUME TreeOK(nodes), NEW nd2, DOMAIN nd2 = DOMAIN nodes, 0 \in DOMAIN nodes, NodesOK,
           \A n \in DOMAIN nodes : /\ nd2[n].name = nodes[n].name
                                   /\ nd2[n].parent = nodes[n].parent
                                   /\ nd2[n].children = nodes[n].children
    PROVE  TreeOK(nd2)
  <1>1. \A n \in DOMAIN nodes : \A i \in DOMAIN nodes[n].children :
           nodes[n].children[i] \in DOMAIN nodes
    <2>1. ASSUME NEW n \in DOMAIN nodes, NEW i \in DOMAIN nodes[n].children
          PROVE  nodes[n].children[i] \in DOMAIN nodes
      <3>1. PICK s : s = nodes[n].children
        OBVIOUS
      <3>2. s \in Seq(DOMAIN nodes)
        BY <3>1 DEF NodesOK, NodeOK
      <3>3. i \in 1..Len(s)
        BY <3>1, <3>2, LenProperties
      <3>4. QED BY <3>1, <3>2, <3>3, ElementOfSeq
    <2>2. QED BY <2>1
  <1>2. \A n \in DOMAIN nodes \ {0} : ChildOf(nd2, n)
    BY DEF TreeOK, ChildOf
  <1>3. \A n \in DOMAIN nodes : NamesDiffer(nd2, n)
    BY <1>1 DEF TreeOK, NamesDiffer
  <1>4. QED BY <1>2, <1>3 DEF TreeOK

(* What a descriptor in use stands for.                                    *)
LEMMA DescriptorFacts ==
    ASSUME FInv, NEW p \in Procs, NEW fd \in Fds, fd_table[p][fd] # NULL
    PROVE  fd_table[p][fd] \in 1..Len(files) /\ NodeOf(p, fd) \in DOMAIN nodes
  <1>1. fd_table[p][fd] \in 1..Len(files) /\ files \in Seq(DOMAIN nodes)
    BY DEF FInv, OpenOK
  <1>2. QED BY <1>1, ElementOfSeq DEF NodeOf

(* The root is a node.                                                     *)
LEMMA RootNode ==
    ASSUME NodesOK
    PROVE  0 \in DOMAIN nodes /\ DOMAIN nodes \subseteq Nat
  BY DEF NodesOK

(* There are files only once the root is mounted.                          *)
LEMMA FilesMounted ==
    ASSUME NodesOK, NEW n \in DOMAIN nodes, nodes[n].type = "file"
    PROVE  root # NULL
  <1>1. ASSUME root = NULL PROVE FALSE
    <2>1. nodes = ramfs_mount
      BY <1>1 DEF NodesOK
    <2>2. n = 0 /\ nodes[n].type = "directory"
      BY <2>1 DEF ramfs_mount, NewNode
    <2>3. QED BY <2>2
  <1>2. QED BY <1>1

(* A call that a write overlaps goes on as it was.                         *)
LEMMA OverlappedCall ==
    ASSUME NEW c, NEW nd, NEW me, CallOK(c, nd, me), c.step # "idle",
           NEW d, d = [c EXCEPT !.clean = FALSE]
    PROVE  CallOK(d, nd, me) /\ d.step = c.step /\ d.node = c.node /\ ~d.clean
  <1>1. c # Idle
    BY DEF Idle
  <1>2. c = [step |-> c.step, node |-> c.node, block |-> c.block, buffer |-> c.buffer,
             asked |-> c.asked, size |-> c.size, done |-> c.done, clean |-> c.clean]
    BY <1>1 DEF CallOK, CallShape
  <1>3. d = [step |-> c.step, node |-> c.node, block |-> c.block, buffer |-> c.buffer,
             asked |-> c.asked, size |-> c.size, done |-> c.done, clean |-> FALSE]
    BY <1>2
  <1>4. /\ d.step = c.step /\ d.node = c.node /\ d.block = c.block /\ d.buffer = c.buffer
        /\ d.asked = c.asked /\ d.size = c.size /\ d.done = c.done /\ d.clean = FALSE
    BY <1>3
  <1>5. CallShape(d)
    BY <1>3, <1>4 DEF CallShape
  <1>6. CallOK(d, nd, me)
    BY <1>1, <1>4, <1>5 DEF CallOK
  <1>7. QED BY <1>4, <1>6

(* A step that changes calls only: that of p, and others that it overlaps. *)
LEMMA CallsKept ==
    ASSUME FInv, NEW p \in Procs,
           UNCHANGED <<nodes, root, files, fd_table, mem, overrun, written>>,
           call' = [q \in Procs |-> call'[q]],
           \A q \in Procs : q # p =>
              \/ call'[q] = call[q]
              \/ call[q].step # "idle" /\ call'[q] = [call[q] EXCEPT !.clean = FALSE],
           CallOK(call'[p], nodes, mem), CleanOK',
           ~overrun /\ call'[p].step # "idle" /\ call'[p].clean =>
              Progress(call'[p], nodes[call'[p].node], mem[call'[p].node], written[call'[p].node]),
           \A n \in DOMAIN nodes : Alone(n)' => Alone(n)
    PROVE  FInv'
  <1>1. NodesOK' /\ OpenOK' /\ MemOK' /\ TreeOK(nodes')
    BY DEF FInv, NodesOK, OpenOK, MemOK
  <1>2. \A q \in Procs : q # p =>
           /\ CallOK(call'[q], nodes, mem)
           /\ call'[q] = call[q] \/ ~call'[q].clean
    <2>1. ASSUME NEW q \in Procs, q # p
          PROVE  CallOK(call'[q], nodes, mem) /\ (call'[q] = call[q] \/ ~call'[q].clean)
      <3>1. CallOK(call[q], nodes, mem)
        BY DEF FInv, CallsOK
      <3>2. CASE call'[q] = call[q]
        BY <3>1, <3>2
      <3>3. CASE call[q].step # "idle" /\ call'[q] = [call[q] EXCEPT !.clean = FALSE]
        BY <3>1, <3>3, OverlappedCall
      <3>4. QED BY <2>1, <3>2, <3>3
    <2>2. QED BY <2>1
  <1>3. CallsOK'
    BY <1>2 DEF CallsOK
  <1>4. ProgressOK'
    BY <1>2 DEF FInv, ProgressOK
  <1>5. WrittenOK'
    BY DEF FInv, WrittenOK
  <1>6. QED BY <1>1, <1>3, <1>4, <1>5 DEF FInv

(* A process enters a read or a write.                                     *)
LEMMA EnterKeeps ==
    ASSUME FInv, ~overrun, NEW p \in Procs, call[p].step = "idle", NEW n \in DOMAIN nodes,
           nodes[n].type = "file", NEW step \in {"alloc", "copy", "limit"}, NEW size \in Nat, NEW b,
           step \in WriteSteps => b \in Seq(Bytes) /\ Len(b) = size, step \notin WriteSteps => b = <<>>,
           step = "alloc" <=> nodes[n].data = NULL,
           Enter(p, NewCall(step, n, b, size)),
           UNCHANGED <<nodes, root, files, fd_table, mem, overrun, written>>
    PROVE  FInv'
  <1>1. PICK c : c = NewCall(step, n, b, size)
    OBVIOUS
  <1>0. c = [step |-> step, node |-> n, block |-> nodes[n].data, buffer |-> b,
             asked |-> size, size |-> size, done |-> 0, clean |-> Alone(n)]
    BY <1>1 DEF NewCall
  <1>2. /\ c.step = step /\ c.node = n /\ c.block = nodes[n].data /\ c.buffer = b
        /\ c.asked = size /\ c.size = size /\ c.done = 0
    BY <1>0
  <1>12. c.clean => Alone(n)
    BY <1>0, Zenon
  <1>3. BlocksOK(nodes[n], mem[n])
    BY DEF FInv, MemOK
  <1>4. CallOK(c, nodes, mem)
    <2>1. <<>> \in Seq(Units) /\ Len(<<>>) = 0
      OBVIOUS
    <2>2. step # "alloc" => c.block \in 1..Len(mem[n])
      BY <1>2, <1>3 DEF BlocksOK
    <2>3. CallShape(c)
      BY <1>0, Zenon DEF CallShape
    <2>4. /\ c.step \in WriteSteps => c.buffer \in Seq(Bytes) /\ Len(c.buffer) = c.size
          /\ c.step \notin WriteSteps => c.buffer \in Seq(Units) /\ Len(c.buffer) = c.done
      BY <1>2, <2>1
    <2>5. /\ c.step \in {"alloc", "copy", "limit", "read"}
          /\ c.node \in DOMAIN nodes /\ nodes[c.node].type = "file"
          /\ c.asked \in Nat /\ c.size \in Nat /\ c.done \in 0..c.size
          /\ c.step # "alloc" => c.block \in 1..Len(mem[c.node])
          /\ c.step \in {"alloc", "limit"} => c.done = 0 /\ c.asked = c.size
      BY <1>2, <2>2
    <2>6. QED BY <2>3, <2>4, <2>5, Zenon DEF CallOK
  <1>5. c.clean => Progress(c, nodes[n], mem[n], written[n])
    <2>1. Alone(n) /\ written[n] # NULL => Holds(nodes[n], mem[n], written[n])
      BY DEF FInv, WrittenOK
    <2>2. QED BY <1>2, <1>12, <2>1 DEF Progress
  <1>6. call' = [q \in Procs |-> IF q = p THEN c
                                 ELSE IF Overlaps(c, q) THEN [call[q] EXCEPT !.clean = FALSE]
                                 ELSE call[q]]
    BY <1>1 DEF Enter
  <1>7. call'[p] = c /\ call' = [q \in Procs |-> call'[q]]
    BY <1>6
  <1>8. \A q \in Procs : q # p =>
           /\ Overlaps(c, q) => ~call'[q].clean
           /\ \/ call'[q] = call[q]
              \/ call[q].step # "idle" /\ call'[q] = [call[q] EXCEPT !.clean = FALSE]
           /\ call'[q] = call[q] \/ ~call'[q].clean
           /\ call'[q].step = call[q].step
           /\ call[q].step # "idle" => call'[q].node = call[q].node
    <2>1. \A q \in Procs : q # p /\ ~Overlaps(c, q) => call'[q] = call[q]
      BY <1>6
    <2>2. \A q \in Procs : q # p /\ Overlaps(c, q) =>
             call[q].step # "idle" /\ call'[q] = [call[q] EXCEPT !.clean = FALSE]
      BY <1>6 DEF Overlaps
    <2>3. \A q \in Procs : CallOK(call[q], nodes, mem)
      BY DEF FInv, CallsOK
    <2>4. \A q \in Procs : q # p /\ Overlaps(c, q) =>
             /\ call'[q].step = call[q].step /\ call'[q].node = call[q].node
             /\ ~call'[q].clean
      BY <2>2, <2>3, OverlappedCall
    <2>5. QED BY <2>1, <2>2, <2>4
  <1>9. CleanOK'
    <2> SUFFICES ASSUME NEW q \in Procs, NEW r \in Procs, q # r, call'[q].step # "idle",
                        call'[q].clean, call'[r].step \in WriteSteps
                 PROVE  call'[r].node # call'[q].node
      BY DEF CleanOK
    <2>1. CASE q = p
      <3>1. Alone(n)
        BY <1>7, <1>12, <2>1, Zenon
      <3>2. call[r].step \in WriteSteps /\ call[r].step # "idle" /\ call'[r].node = call[r].node
        BY <1>8, <2>1 DEF WriteSteps
      <3>3. QED BY <1>2, <1>7, <2>1, <3>1, <3>2 DEF Alone
    <2>2. CASE q # p /\ r = p
      <3>1. call'[q] = call[q] /\ ~Overlaps(c, q)
        BY <1>8, <2>2, Zenon
      <3>2. QED BY <1>2, <1>7, <2>2, <3>1 DEF Overlaps
    <2>3. CASE q # p /\ r # p
      <3>1. call'[q] = call[q]
        BY <1>8, <2>3, Zenon
      <3>2. call[r].step \in WriteSteps /\ call'[r].node = call[r].node
        BY <1>8, <2>3 DEF WriteSteps
      <3>3. call[q].clean /\ call[q].step # "idle"
        BY <3>1, Zenon
      <3>4. call[r].node # call[q].node
        BY <3>2, <3>3 DEF FInv, CleanOK
      <3>5. QED BY <3>1, <3>2, <3>4
    <2>4. QED BY <2>1, <2>2, <2>3
  <1>10. \A m \in DOMAIN nodes : Alone(m)' => Alone(m)
    <2>1. ASSUME NEW m \in DOMAIN nodes, Alone(m)' PROVE Alone(m)
      <3>1. ASSUME NEW q \in Procs, call[q].step \in WriteSteps PROVE call[q].node # m
        <4>1. q # p /\ call[q].step # "idle"
          BY <3>1 DEF WriteSteps
        <4>2. call'[q].step \in WriteSteps /\ call'[q].node = call[q].node
          BY <1>8, <3>1, <4>1
        <4>3. QED BY <2>1, <4>2 DEF Alone
      <3>2. QED BY <3>1 DEF Alone
    <2>2. QED BY <2>1
  <1>11. QED BY <1>2, <1>4, <1>5, <1>7, <1>8, <1>9, <1>10, CallsKept

(* A step of a read.                                                       *)
LEMMA ReadStepKeeps ==
    ASSUME FInv, NEW p \in Procs, call[p].step \in {"limit", "read"},
           NEW d, call' = [call EXCEPT ![p] = d],
           UNCHANGED <<nodes, root, files, fd_table, mem, overrun, written>>,
           CallOK(d, nodes, mem),
           d.step = "idle" \/ (d.step = "read" /\ d.node = call[p].node /\ (d.clean => call[p].clean)),
           d.step = "read" /\ d.clean /\ ~overrun =>
              Progress(d, nodes[d.node], mem[d.node], written[d.node])
    PROVE  FInv'
  <1>1. /\ call' = [q \in Procs |-> call'[q]] /\ call'[p] = d
        /\ \A q \in Procs : q # p => call'[q] = call[q]
    BY DEF FInv, CallsOK
  <1>2. CleanOK'
    <2> SUFFICES ASSUME NEW q \in Procs, NEW r \in Procs, q # r, call'[q].step # "idle",
                        call'[q].clean, call'[r].step \in WriteSteps
                 PROVE  call'[r].node # call'[q].node
      BY DEF CleanOK
    <2>1. r # p /\ call'[r] = call[r]
      BY <1>1 DEF WriteSteps
    <2>2. call[q].step # "idle" /\ call[q].node = call'[q].node
      BY <1>1
    <2>3. call[q].clean
      BY <1>1, Zenon
    <2>4. call[r].node # call[q].node
      BY <2>1, <2>2, <2>3 DEF FInv, CleanOK
    <2>5. QED BY <2>1, <2>2, <2>4
  <1>3. ASSUME NEW n \in DOMAIN nodes, Alone(n)' PROVE Alone(n)
    <2>1. ASSUME NEW q \in Procs, call[q].step \in WriteSteps PROVE call[q].node # n
      <3>1. call'[q] = call[q]
        BY <1>1, <2>1 DEF WriteSteps
      <3>2. QED BY <1>3, <2>1, <3>1 DEF Alone
    <2>2. QED BY <2>1 DEF Alone
  <1>4. ~overrun /\ call'[p].step # "idle" /\ call'[p].clean =>
           Progress(call'[p], nodes[call'[p].node], mem[call'[p].node], written[call'[p].node])
    BY <1>1, Zenon
  <1>5. \A n \in DOMAIN nodes : Alone(n)' => Alone(n)
    BY <1>3
  <1>6. CallOK(call'[p], nodes, mem)
    BY <1>1
  <1>7. QED BY <1>1, <1>2, <1>4, <1>5, <1>6, CallsKept

(* A step of a write, by which the call of p becomes d, node n becomes y,  *)
(* its blocks become blocks and what was written to it w.                  *)
WriteStep(p, n, d, y, blocks, w) ==
    /\ call[p].step \in WriteSteps /\ n = call[p].node
    /\ call' = [call EXCEPT ![p] = d] /\ nodes' = [nodes EXCEPT ![n] = y]
    /\ mem' = [mem EXCEPT ![n] = blocks] /\ written' = [written EXCEPT ![n] = w]
    /\ UNCHANGED <<root, files, fd_table>>
    /\ NodeOK(y, DOMAIN nodes) /\ y.name = nodes[n].name /\ y.type = nodes[n].type
    /\ y.parent = nodes[n].parent /\ y.children = nodes[n].children
    /\ BlocksOK(y, blocks) /\ Len(mem[n]) <= Len(blocks) /\ CallOK(d, nodes', mem')
    /\ d.step # "idle" => d.step \in WriteSteps /\ d.node = n /\ (d.clean => call[p].clean)
    /\ ~overrun' /\ d.step # "idle" /\ d.clean => Progress(d, y, blocks, w)
    /\ ~overrun' /\ d.step = "idle" /\ w # NULL => Holds(y, blocks, w)

LEMMA WriteStepKeeps ==
    ASSUME FInv, ~overrun, NEW p \in Procs, NEW n, NEW d, NEW y, NEW blocks, NEW w,
           WriteStep(p, n, d, y, blocks, w)
    PROVE  FInv'
  <1> USE DEF WriteStep
  <1>1. CallOK(call[p], nodes, mem) /\ call[p].step # "idle"
    BY DEF FInv, CallsOK, WriteSteps
  <1>2. n \in DOMAIN nodes /\ nodes[n].type = "file"
    BY <1>1 DEF CallOK, Idle
  <1>3. root # NULL /\ 0 \in DOMAIN nodes
    BY <1>2, FilesMounted, RootNode DEF FInv
  <1>4. /\ call' = [q \in Procs |-> IF q = p THEN d ELSE call[q]]
        /\ nodes' = [m \in DOMAIN nodes |-> IF m = n THEN y ELSE nodes[m]]
        /\ mem' = [m \in DOMAIN nodes |-> IF m = n THEN blocks ELSE mem[m]]
        /\ written' = [m \in DOMAIN nodes |-> IF m = n THEN w ELSE written[m]]
    BY <1>2 DEF FInv, CallsOK, NodesOK, MemOK, WrittenOK
  <1>5. /\ DOMAIN nodes' = DOMAIN nodes
        /\ nodes'[n] = y /\ mem'[n] = blocks /\ written'[n] = w /\ call'[p] = d
        /\ \A m \in DOMAIN nodes : m # n =>
              nodes'[m] = nodes[m] /\ mem'[m] = mem[m] /\ written'[m] = written[m]
        /\ \A q \in Procs : q # p => call'[q] = call[q]
    BY <1>2, <1>4
  <1>16. call'[p] = d /\ \A q \in Procs : q # p => call'[q] = call[q]
    BY <1>5
  <1>6. NodesOK'
    <2>1. \A m \in DOMAIN nodes' : NodeOK(nodes'[m], DOMAIN nodes')
      BY <1>5 DEF FInv, NodesOK
    <2>2. nodes' = [m \in DOMAIN nodes' |-> nodes'[m]]
      BY <1>4, <1>5
    <2>3. \E N \in Nat \ {0} : DOMAIN nodes' = 0..(N - 1)
      BY <1>5 DEF FInv, NodesOK
    <2>4. root' \in {0, NULL} /\ root' # NULL
      BY <1>3 DEF FInv, NodesOK
    <2>5. QED BY <2>1, <2>2, <2>3, <2>4 DEF NodesOK
  <1>7. OpenOK'
    BY <1>5 DEF FInv, OpenOK
  <1>8. MemOK'
    BY <1>4, <1>5 DEF FInv, MemOK
  <1>9. TreeOK(nodes')
    <2>1. \A m \in DOMAIN nodes : /\ nodes'[m].name = nodes[m].name
                                  /\ nodes'[m].parent = nodes[m].parent
                                  /\ nodes'[m].children = nodes[m].children
      BY <1>5
    <2>2. QED BY <1>3, <1>5, <2>1, SameTree DEF FInv
  <1>10. CallsOK'
    <2>1. ASSUME NEW q \in Procs, q # p PROVE CallOK(call'[q], nodes', mem')
      <3>1. CallOK(call[q], nodes, mem) /\ call'[q] = call[q]
        BY <1>5, <2>1 DEF FInv, CallsOK
      <3>2. PICK c : c = call[q]
        OBVIOUS
      <3>3. CASE c = Idle
        BY <3>1, <3>2, <3>3 DEF CallOK
      <3>4. CASE c # Idle
        <4>1. c.node \in DOMAIN nodes /\ nodes[c.node].type = "file"
              /\ (c.step # "alloc" => c.block \in 1..Len(mem[c.node]))
          BY <3>1, <3>2, <3>4 DEF CallOK
        <4>2. c.node \in DOMAIN nodes' /\ nodes'[c.node].type = "file"
          BY <1>5, <4>1
        <4>3. c.step # "alloc" => c.block \in 1..Len(mem'[c.node])
          <5>1. CASE c.node = n
            <6>1. Len(mem[n]) \in Nat /\ Len(blocks) \in Nat
              <7>1. BlocksOK(nodes[n], mem[n])
                BY <1>2 DEF FInv, MemOK
              <7>2. mem[n] \in Seq(Seq(Units)) /\ blocks \in Seq(Seq(Units))
                BY <7>1 DEF BlocksOK
              <7>3. QED BY <7>2, LenProperties
            <6>2. 1..Len(mem[n]) \subseteq 1..Len(blocks)
              BY <6>1
            <6>3. QED BY <1>5, <4>1, <5>1, <6>2
          <5>2. CASE c.node # n
            BY <1>5, <4>1, <5>2
          <5>3. QED BY <5>1, <5>2
        <4>4. QED BY <3>1, <3>2, <3>4, <4>2, <4>3 DEF CallOK
      <3>5. QED BY <3>3, <3>4
    <2>2. CallOK(call'[p], nodes', mem')
      BY <1>5
    <2>3. call' = [q \in Procs |-> call'[q]]
      BY <1>4
    <2>4. QED BY <2>1, <2>2, <2>3 DEF CallsOK
  <1>11. \A q \in Procs : q # p /\ call[q].step # "idle" /\ call[q].clean => call[q].node # n
    BY DEF FInv, CleanOK
  <1>12. CleanOK'
    <2> SUFFICES ASSUME NEW q \in Procs, NEW r \in Procs, q # r, call'[q].step # "idle",
                        call'[q].clean, call'[r].step \in WriteSteps
                 PROVE  call'[r].node # call'[q].node
      BY DEF CleanOK
    <2>1. call[q].step # "idle" /\ call[q].node = call'[q].node
      BY <1>1, <1>5
    <2>2. call[q].clean
      <3>1. CASE q = p
        BY <1>16, <3>1, Zenon
      <3>2. CASE q # p
        BY <1>16, <3>2, Zenon
      <3>3. QED BY <3>1, <3>2
    <2>3. call[r].step \in WriteSteps /\ call[r].node = call'[r].node
      BY <1>5 DEF WriteSteps
    <2>4. call[r].node # call[q].node
      BY <2>1, <2>2, <2>3 DEF FInv, CleanOK
    <2>5. QED BY <2>1, <2>3, <2>4
  <1>13. ProgressOK'
    <2> SUFFICES ASSUME ~overrun', NEW q \in Procs, call'[q].step # "idle", call'[q].clean
                 PROVE  Progress(call'[q], nodes'[call'[q].node], mem'[call'[q].node],
                                 written'[call'[q].node])
      BY DEF ProgressOK
    <2>1. CASE q = p
      <3>1. d.step # "idle" /\ d.clean
        BY <1>16, <2>1, Zenon
      <3>2. Progress(d, y, blocks, w) /\ d.node = n
        BY <3>1
      <3>3. QED BY <1>5, <2>1, <3>2
    <2>2. CASE q # p
      <3>1. call[q].step # "idle" /\ call[q].clean
        BY <1>16, <2>2, Zenon
      <3>2. Progress(call[q], nodes[call[q].node], mem[call[q].node], written[call[q].node])
        BY <3>1 DEF FInv, ProgressOK
      <3>3. CallOK(call[q], nodes, mem)
        BY DEF FInv, CallsOK
      <3>4. call[q].node \in DOMAIN nodes /\ call[q].node # n
        BY <1>11, <2>2, <3>1, <3>3 DEF CallOK, Idle
      <3>5. QED BY <1>5, <2>2, <3>2, <3>4
    <2>3. QED BY <2>1, <2>2
  <1>14. WrittenOK'
    <2>1. ASSUME ~overrun', NEW m \in DOMAIN nodes, written'[m] # NULL, Alone(m)'
          PROVE  Holds(nodes'[m], mem'[m], written'[m])
      <3>1. CASE m = n
        <4>1. d.step = "idle"
          BY <1>5, <2>1, <3>1 DEF Alone
        <4>2. QED BY <1>5, <2>1, <3>1, <4>1
      <3>2. CASE m # n
        <4>1. \A q \in Procs : call[q].step \in WriteSteps => call[q].node # m
          BY <1>5, <2>1, <3>2 DEF Alone
        <4>2. Holds(nodes[m], mem[m], written[m])
          BY <1>5, <2>1, <3>2, <4>1 DEF FInv, WrittenOK, Alone
        <4>3. QED BY <1>5, <3>2, <4>2
      <3>3. QED BY <3>1, <3>2
    <2>2. written' = [m \in DOMAIN nodes' |-> written'[m]]
      BY <1>4, <1>5
    <2>3. QED BY <1>5, <2>1, <2>2 DEF WrittenOK
  <1>15. QED BY <1>6, <1>7, <1>8, <1>9, <1>10, <1>12, <1>13, <1>14 DEF FInv

(* A call, field by field.                                                 *)
LEMMA CallFacts ==
    ASSUME FInv, NEW p \in Procs, NEW c, c = call[p], c.step # "idle"
    PROVE  /\ CallShape(c)
           /\ c.step \in {"alloc", "copy", "limit", "read"}
           /\ c.node \in DOMAIN nodes /\ nodes[c.node].type = "file"
           /\ c.asked \in Nat /\ c.size \in Nat /\ c.done \in 0..c.size
           /\ c.step # "alloc" => c.block \in 1..Len(mem[c.node])
           /\ c.step \in {"alloc", "limit"} => c.done = 0 /\ c.asked = c.size
           /\ c.step \in WriteSteps => c.buffer \in Seq(Bytes) /\ Len(c.buffer) = c.size
           /\ c.step \notin WriteSteps => c.buffer \in Seq(Units) /\ Len(c.buffer) = c.done
           /\ BlocksOK(nodes[c.node], mem[c.node])
           /\ NodeOK(nodes[c.node], DOMAIN nodes)
           /\ ~overrun /\ c.clean => Progress(c, nodes[c.node], mem[c.node], written[c.node])
  <1>1. CallOK(c, nodes, mem) /\ c # Idle
    BY DEF FInv, CallsOK, Idle
  <1>2. c.node \in DOMAIN nodes
    BY <1>1 DEF CallOK
  <1>3. BlocksOK(nodes[c.node], mem[c.node]) /\ NodeOK(nodes[c.node], DOMAIN nodes)
    BY <1>2 DEF FInv, MemOK, NodesOK
  <1>4. ~overrun /\ c.clean => Progress(c, nodes[c.node], mem[c.node], written[c.node])
    BY DEF FInv, ProgressOK
  <1>5. QED BY <1>1, <1>3, <1>4, Zenon DEF CallOK

(* The fields of a call after a change of its step, block, size, or units. *)
Changed(c, step, block, buffer, size, done) ==
    [step |-> step, node |-> c.node, block |-> block, buffer |-> buffer,
     asked |-> c.asked, size |-> size, done |-> done, clean |-> c.clean]

LEMMA CallChanged ==
    ASSUME NEW c, NEW d, NEW step, NEW block, NEW buffer, NEW size, NEW done,
           d = Changed(c, step, block, buffer, size, done)
    PROVE  /\ CallShape(d) /\ d.step = step /\ d.node = c.node /\ d.block = block
           /\ d.buffer = buffer /\ d.asked = c.asked /\ d.size = size /\ d.done = done
           /\ d.clean => c.clean
  <1>1. d = [step |-> step, node |-> c.node, block |-> block, buffer |-> buffer,
             asked |-> c.asked, size |-> size, done |-> done, clean |-> c.clean]
    BY DEF Changed
  <1>2. /\ d.step = step /\ d.node = c.node /\ d.block = block /\ d.buffer = buffer
        /\ d.asked = c.asked /\ d.size = size /\ d.done = done
    BY <1>1
  <1>3. d.clean = c.clean
    BY <1>1
  <1>4. CallShape(d)
    BY <1>1, <1>2, <1>3, Zenon DEF CallShape
  <1>5. QED BY <1>2, <1>3, <1>4, Zenon

(* A call that is over.                                                    *)
LEMMA IdleCall ==
    ASSUME NEW nd, NEW me
    PROVE  CallOK(Idle, nd, me) /\ Idle.step = "idle"
  BY DEF CallOK, Idle

(* The first write allocates a block.                                      *)
LEMMA AllocKeeps ==
    ASSUME FInv, ~overrun, NEW p \in Procs, write_alloc(p)
    PROVE  FInv'
  <1>1. PICK c, n : c = call[p] /\ n = c.node
    OBVIOUS
  <1>2. PICK k, b : k = Len(mem[n]) + 1 /\ b = [i \in 1..Len(c.buffer) |-> NULL]
    OBVIOUS
  <1>3. /\ c.step = "alloc"
        /\ mem' = [mem EXCEPT ![n] = Append(@, b)]
        /\ nodes' = [nodes EXCEPT ![n].data = k]
        /\ call' = [call EXCEPT ![p].step = "copy", ![p].block = k]
        /\ UNCHANGED <<root, files, fd_table, overrun, written>>
    BY <1>1, <1>2 DEF write_alloc
  <1>4. /\ CallShape(c) /\ n \in DOMAIN nodes /\ nodes[n].type = "file" /\ c.asked \in Nat /\ c.size \in Nat
        /\ c.done = 0 /\ c.buffer \in Seq(Bytes) /\ Len(c.buffer) = c.size
        /\ BlocksOK(nodes[n], mem[n]) /\ NodeOK(nodes[n], DOMAIN nodes)
    BY <1>1, <1>3, CallFacts DEF WriteSteps
  <1>5. PICK d : d = [c EXCEPT !.step = "copy", !.block = k]
    OBVIOUS
  <1>6. d = Changed(c, "copy", k, c.buffer, c.size, c.done)
    BY <1>4, <1>5 DEF CallShape, Changed
  <1>7. /\ CallShape(d) /\ d.step = "copy" /\ d.node = n /\ d.block = k
        /\ d.buffer = c.buffer /\ d.asked = c.asked /\ d.size = c.size /\ d.done = c.done
        /\ d.clean => call[p].clean
    <2>1. /\ CallShape(d) /\ d.step = "copy" /\ d.node = c.node /\ d.block = k
          /\ d.buffer = c.buffer /\ d.asked = c.asked /\ d.size = c.size /\ d.done = c.done
          /\ d.clean => c.clean
      BY <1>6, CallChanged
    <2>2. QED BY <1>1, <2>1, Zenon
  <1>8. call' = [call EXCEPT ![p] = d]
    BY <1>1, <1>3, <1>5 DEF FInv, CallsOK
  <1>9. PICK y, blocks : y = [nodes[n] EXCEPT !.data = k] /\ blocks = Append(mem[n], b)
    OBVIOUS
  <1>10. /\ nodes' = [nodes EXCEPT ![n] = y] /\ mem' = [mem EXCEPT ![n] = blocks]
         /\ written' = [written EXCEPT ![n] = written[n]]
    BY <1>3, <1>4, <1>9 DEF FInv, NodesOK, MemOK, WrittenOK
  <1>11. /\ NodeOK(y, DOMAIN nodes) /\ y.name = nodes[n].name /\ y.type = nodes[n].type
         /\ y.parent = nodes[n].parent /\ y.children = nodes[n].children
         /\ y.size = nodes[n].size /\ y.data = k
    BY <1>4, <1>9 DEF NodeOK
  <1>12. /\ blocks \in Seq(Seq(Units)) /\ Len(blocks) = k /\ k \in Nat \ {0} /\ Len(mem[n]) <= k
    <2>1. b \in Seq(Units)
      <3>1. Len(c.buffer) \in Nat /\ b \in [1..Len(c.buffer) -> Units]
        BY <1>2, <1>4 DEF Units
      <3>2. QED BY <3>1, SeqDef
    <2>2. mem[n] \in Seq(Seq(Units))
      BY <1>4 DEF BlocksOK
    <2>3. QED BY <1>2, <1>9, <2>1, <2>2
  <1>13. BlocksOK(y, blocks)
    BY <1>4, <1>11, <1>12 DEF BlocksOK
  <1>14. CallOK(d, nodes', mem')
    <2>1. DOMAIN nodes' = DOMAIN nodes /\ nodes'[n] = y /\ mem'[n] = blocks
      BY <1>4, <1>10 DEF FInv, NodesOK, MemOK
    <2>2. /\ d.step \in {"alloc", "copy", "limit", "read"} /\ d.step \in WriteSteps
          /\ d.node \in DOMAIN nodes' /\ nodes'[d.node].type = "file"
          /\ d.asked \in Nat /\ d.size \in Nat /\ d.done \in 0..d.size
          /\ d.block \in 1..Len(mem'[d.node])
          /\ d.buffer \in Seq(Bytes) /\ Len(d.buffer) = d.size
          /\ d.step \notin {"alloc", "limit"}
      BY <1>4, <1>7, <1>11, <1>12, <2>1 DEF WriteSteps
    <2>3. QED BY <1>7, <2>2, Zenon DEF CallOK
  <1>15. d.clean => Progress(d, y, blocks, written[n])
    BY <1>4, <1>7, <1>11 DEF Progress
  <1>16. call[p].step \in WriteSteps /\ d.step \in WriteSteps /\ d.step # "idle"
    BY <1>1, <1>3, <1>7 DEF WriteSteps
  <1>17. Len(mem[n]) <= Len(blocks) /\ n = call[p].node
    BY <1>1, <1>12
  <1>18. WriteStep(p, n, d, y, blocks, written[n])
    BY <1>3, <1>7, <1>8, <1>10, <1>11, <1>13, <1>14, <1>15, <1>16, <1>17, Zenon DEF WriteStep
  <1>19. QED BY <1>18, WriteStepKeeps

(* kmalloc fails.                                                          *)
LEMMA EnomemKeeps ==
    ASSUME FInv, ~overrun, NEW p \in Procs, write_enomem(p)
    PROVE  FInv'
  <1>1. PICK c, n : c = call[p] /\ n = c.node
    OBVIOUS
  <1>2. PICK w : w = IF c.clean THEN written[n] ELSE NULL
    OBVIOUS
  <1>3. /\ c.step = "alloc"
        /\ nodes' = [nodes EXCEPT ![n].data = NULL]
        /\ written' = [written EXCEPT ![n] = IF c.clean THEN @ ELSE NULL]
        /\ call' = [call EXCEPT ![p] = Idle]
        /\ UNCHANGED <<root, files, fd_table, mem, overrun>>
    BY <1>1 DEF write_enomem
  <1>4. /\ n \in DOMAIN nodes /\ BlocksOK(nodes[n], mem[n]) /\ NodeOK(nodes[n], DOMAIN nodes)
        /\ c.clean => Progress(c, nodes[n], mem[n], written[n])
    BY <1>1, <1>3, CallFacts
  <1>5. PICK y : y = [nodes[n] EXCEPT !.data = NULL]
    OBVIOUS
  <1>6. /\ NodeOK(y, DOMAIN nodes) /\ y.name = nodes[n].name /\ y.type = nodes[n].type
        /\ y.parent = nodes[n].parent /\ y.children = nodes[n].children
        /\ y.size = nodes[n].size /\ y.data = NULL
    BY <1>4, <1>5 DEF NodeOK
  <1>7. nodes' = [nodes EXCEPT ![n] = y] /\ mem' = [mem EXCEPT ![n] = mem[n]]
    BY <1>3, <1>4, <1>5 DEF FInv, NodesOK, MemOK
  <1>8. written' = [written EXCEPT ![n] = w]
    <2>1. CASE c.clean
      BY <1>2, <1>3, <2>1
    <2>2. CASE ~c.clean
      BY <1>2, <1>3, <2>2
    <2>3. QED BY <2>1, <2>2
  <1>9. BlocksOK(y, mem[n]) /\ Len(mem[n]) <= Len(mem[n])
    <2>1. mem[n] \in Seq(Seq(Units))
      BY <1>4 DEF BlocksOK
    <2>2. Len(mem[n]) \in Nat
      BY <2>1, LenProperties
    <2>3. QED BY <1>4, <1>6, <2>2 DEF BlocksOK
  <1>10. w # NULL => Holds(y, mem[n], w)
    <2>1. ASSUME w # NULL PROVE Holds(y, mem[n], w)
      <3>1. c.clean /\ w = written[n]
        BY <1>2, <2>1
      <3>2. Holds(nodes[n], mem[n], w) /\ nodes[n].data = NULL
        BY <1>3, <1>4, <2>1, <3>1 DEF Progress
      <3>3. QED BY <1>6, <3>2 DEF Holds
    <2>2. QED BY <2>1
  <1>11. call[p].step \in WriteSteps /\ n = call[p].node
    BY <1>1, <1>3 DEF WriteSteps
  <1>12. WriteStep(p, n, Idle, y, mem[n], w)
    BY <1>3, <1>6, <1>7, <1>8, <1>9, <1>10, <1>11, IdleCall, Zenon DEF WriteStep
  <1>13. QED BY <1>12, WriteStepKeeps

(* A unit written into a block.                                            *)
LEMMA UnitWritten ==
    ASSUME NEW s \in Seq(Seq(Units)), NEW k \in 1..Len(s), NEW i \in 1..Len(s[k]), NEW u \in Units,
           NEW t, t = [s EXCEPT ![k][i] = u]
    PROVE  /\ t \in Seq(Seq(Units)) /\ Len(t) = Len(s) /\ Len(t[k]) = Len(s[k])
           /\ t[k][i] = u /\ \A j \in 1..Len(s[k]) : j # i => t[k][j] = s[k][j]
  <1>1. s[k] \in Seq(Units)
    BY ElementOfSeq
  <1>2. PICK b : b = [s[k] EXCEPT ![i] = u]
    OBVIOUS
  <1>3. /\ b \in Seq(Units) /\ Len(b) = Len(s[k])
        /\ b[i] = u /\ \A j \in 1..Len(s[k]) : j # i => b[j] = s[k][j]
    BY <1>1, <1>2, ExceptSeq
  <1>4. t = [s EXCEPT ![k] = b]
    BY <1>2
  <1>5. t \in Seq(Seq(Units)) /\ Len(t) = Len(s) /\ t[k] = b
    BY <1>3, <1>4, ExceptSeq
  <1>6. QED BY <1>3, <1>5

(* One unit of a write, into the block or past it.                         *)
LEMMA CopyKeeps ==
    ASSUME FInv, ~overrun, NEW p \in Procs, write_copy(p)
    PROVE  FInv'
  <1>1. PICK c, n, i : c = call[p] /\ n = c.node /\ i = c.done + 1
    OBVIOUS
  <1>2. PICK past : past = (i > Len(mem[n][c.block]))
    OBVIOUS
  <1>3. /\ c.step = "copy" /\ c.done < c.size
        /\ call' = [call EXCEPT ![p].done = i]
        /\ UNCHANGED <<nodes, root, files, fd_table, written>>
    BY <1>1 DEF write_copy
  <1>4. /\ CallShape(c) /\ n \in DOMAIN nodes /\ nodes[n].type = "file" /\ c.asked \in Nat /\ c.size \in Nat
        /\ c.done \in 0..c.size /\ c.block \in 1..Len(mem[n])
        /\ c.buffer \in Seq(Bytes) /\ Len(c.buffer) = c.size
        /\ BlocksOK(nodes[n], mem[n]) /\ NodeOK(nodes[n], DOMAIN nodes)
        /\ c.clean => Progress(c, nodes[n], mem[n], written[n])
    BY <1>1, <1>3, CallFacts DEF WriteSteps
  <1>5. PICK d : d = [c EXCEPT !.done = i]
    OBVIOUS
  <1>6. d = Changed(c, "copy", c.block, c.buffer, c.size, i)
    BY <1>3, <1>4, <1>5 DEF CallShape, Changed
  <1>7. /\ CallShape(d) /\ d.step = "copy" /\ d.node = n /\ d.block = c.block
        /\ d.buffer = c.buffer /\ d.asked = c.asked /\ d.size = c.size /\ d.done = i
        /\ d.clean => c.clean
    <2>1. /\ CallShape(d) /\ d.step = "copy" /\ d.node = c.node /\ d.block = c.block
          /\ d.buffer = c.buffer /\ d.asked = c.asked /\ d.size = c.size /\ d.done = i
          /\ d.clean => c.clean
      BY <1>6, CallChanged
    <2>2. QED BY <1>1, <2>1, Zenon
  <1>8. call' = [call EXCEPT ![p] = d]
    BY <1>1, <1>3, <1>5 DEF FInv, CallsOK
  <1>9. nodes' = [nodes EXCEPT ![n] = nodes[n]] /\ written' = [written EXCEPT ![n] = written[n]]
    BY <1>3, <1>4 DEF FInv, NodesOK, WrittenOK
  <1>10. /\ mem[n] \in Seq(Seq(Units)) /\ Len(mem[n]) \in Nat
         /\ mem[n][c.block] \in Seq(Units) /\ Len(mem[n][c.block]) \in Nat
    <2>1. mem[n] \in Seq(Seq(Units))
      BY <1>4 DEF BlocksOK
    <2>2. mem[n][c.block] \in Seq(Units)
      BY <1>4, <2>1, ElementOfSeq
    <2>3. QED BY <2>1, <2>2, LenProperties
  <1>11. i \in 1..c.size /\ c.buffer[i] \in Bytes
    <2>1. i \in 1..c.size
      BY <1>1, <1>3, <1>4
    <2>2. QED BY <1>4, <2>1, ElementOfSeq
  <1>12. PICK blocks : blocks = IF past THEN mem[n] ELSE [mem[n] EXCEPT ![c.block][i] = c.buffer[i]]
    OBVIOUS
  <1>13. mem' = [mem EXCEPT ![n] = blocks] /\ overrun' = past
    <2>1. overrun' = past
      BY <1>1, <1>2, Zenon DEF write_copy
    <2>2. CASE past
      <3>1. mem' = mem
        BY <1>1, <1>2, <2>2 DEF write_copy
      <3>2. QED BY <1>4, <1>12, <2>1, <2>2, <3>1 DEF FInv, MemOK
    <2>3. CASE ~past
      <3>1. mem' = [mem EXCEPT ![n][c.block][i] = c.buffer[i]]
        BY <1>1, <1>2, <2>3 DEF write_copy
      <3>2. QED BY <1>4, <1>12, <2>1, <2>3, <3>1 DEF FInv, MemOK
    <2>4. QED BY <2>2, <2>3
  <1>14. ~past => i \in 1..Len(mem[n][c.block])
    <2>1. ~past => ~(i > Len(mem[n][c.block]))
      BY <1>2, Zenon
    <2>2. i \in Nat \ {0}
      BY <1>11, <1>4
    <2>3. QED BY <1>10, <2>1, <2>2
  <1>15. blocks \in Seq(Seq(Units)) /\ Len(blocks) = Len(mem[n])
    <2>1. CASE past
      BY <1>10, <1>12, <2>1
    <2>2. CASE ~past
      <3>1. blocks = [mem[n] EXCEPT ![c.block][i] = c.buffer[i]] /\ c.buffer[i] \in Units
        BY <1>11, <1>12, <2>2 DEF Units
      <3>2. QED BY <1>4, <1>10, <1>14, <2>2, <3>1, UnitWritten
    <2>3. QED BY <2>1, <2>2
  <1>16. BlocksOK(nodes[n], blocks) /\ Len(mem[n]) <= Len(blocks)
    BY <1>4, <1>10, <1>15 DEF BlocksOK
  <1>17. CallOK(d, nodes', mem')
    <2>1. nodes' = nodes /\ mem'[n] = blocks
      BY <1>3, <1>4, <1>13 DEF FInv, MemOK
    <2>2. /\ d.step \in {"alloc", "copy", "limit", "read"} /\ d.step \in WriteSteps
          /\ d.node \in DOMAIN nodes' /\ nodes'[d.node].type = "file"
          /\ d.asked \in Nat /\ d.size \in Nat /\ d.done \in 0..d.size
          /\ d.block \in 1..Len(mem'[d.node])
          /\ d.buffer \in Seq(Bytes) /\ Len(d.buffer) = d.size
          /\ d.step \notin {"alloc", "limit"}
      BY <1>4, <1>7, <1>11, <1>15, <2>1 DEF WriteSteps
    <2>3. QED BY <1>7, <2>2, Zenon DEF CallOK
  <1>18. ASSUME ~past, d.clean PROVE Progress(d, nodes[n], blocks, written[n])
    <2>1. /\ c.block = nodes[n].data
          /\ \A j \in 1..c.done : j <= Len(mem[n][c.block]) /\ mem[n][c.block][j] = c.buffer[j]
      BY <1>3, <1>4, <1>7, <1>18 DEF Progress
    <2>2. blocks = [mem[n] EXCEPT ![c.block][i] = c.buffer[i]] /\ c.buffer[i] \in Units
      BY <1>11, <1>12, <1>18 DEF Units
    <2>3. /\ Len(blocks[c.block]) = Len(mem[n][c.block]) /\ blocks[c.block][i] = c.buffer[i]
          /\ \A j \in 1..Len(mem[n][c.block]) : j # i => blocks[c.block][j] = mem[n][c.block][j]
      BY <1>4, <1>10, <1>14, <1>18, <2>2, UnitWritten
    <2>4. ASSUME NEW j \in 1..i
          PROVE  j <= Len(blocks[c.block]) /\ blocks[c.block][j] = c.buffer[j]
      <3>1. CASE j = i
        BY <1>14, <1>18, <2>3, <3>1
      <3>2. CASE j # i
        <4>1. j \in 1..c.done /\ j \in Nat
          BY <1>1, <1>4, <3>2
        <4>2. j \in 1..Len(mem[n][c.block])
          BY <1>10, <2>1, <4>1
        <4>3. QED BY <2>1, <2>3, <3>2, <4>1, <4>2
      <3>3. QED BY <3>1, <3>2
    <2>5. QED BY <1>7, <2>1, <2>4 DEF Progress
  <1>19. ~overrun' /\ d.step # "idle" /\ d.clean => Progress(d, nodes[n], blocks, written[n])
    BY <1>13, <1>18, Zenon
  <1>20. call[p].step \in WriteSteps /\ n = call[p].node /\ d.step \in WriteSteps /\ d.step # "idle"
    BY <1>1, <1>3, <1>7 DEF WriteSteps
  <1>21. d.clean => call[p].clean
    BY <1>1, <1>7, Zenon
  <1>22. WriteStep(p, n, d, nodes[n], blocks, written[n])
    BY <1>3, <1>4, <1>7, <1>8, <1>9, <1>13, <1>16, <1>17, <1>19, <1>20, <1>21, Zenon DEF WriteStep
  <1>23. QED BY <1>22, WriteStepKeeps

(* The end of a write.                                                     *)
LEMMA SizeKeeps ==
    ASSUME FInv, ~overrun, NEW p \in Procs, write_size(p)
    PROVE  FInv'
  <1>1. PICK c, n : c = call[p] /\ n = c.node
    OBVIOUS
  <1>2. PICK w : w = IF c.clean THEN c.buffer ELSE NULL
    OBVIOUS
  <1>3. /\ c.step = "copy" /\ c.done = c.size
        /\ nodes' = [nodes EXCEPT ![n].size = c.size]
        /\ written' = [written EXCEPT ![n] = IF c.clean THEN c.buffer ELSE NULL]
        /\ call' = [call EXCEPT ![p] = Idle]
        /\ UNCHANGED <<root, files, fd_table, mem, overrun>>
    BY <1>1 DEF write_size
  <1>4. /\ n \in DOMAIN nodes /\ BlocksOK(nodes[n], mem[n]) /\ NodeOK(nodes[n], DOMAIN nodes)
        /\ c.size \in Nat /\ c.buffer \in Seq(Bytes) /\ Len(c.buffer) = c.size
        /\ c.block \in 1..Len(mem[n])
        /\ c.clean => Progress(c, nodes[n], mem[n], written[n])
    BY <1>1, <1>3, CallFacts DEF WriteSteps
  <1>5. PICK y : y = [nodes[n] EXCEPT !.size = c.size]
    OBVIOUS
  <1>6. /\ NodeOK(y, DOMAIN nodes) /\ y.name = nodes[n].name /\ y.type = nodes[n].type
        /\ y.parent = nodes[n].parent /\ y.children = nodes[n].children
        /\ y.size = c.size /\ y.data = nodes[n].data
    BY <1>4, <1>5 DEF NodeOK
  <1>7. nodes' = [nodes EXCEPT ![n] = y] /\ mem' = [mem EXCEPT ![n] = mem[n]]
    BY <1>3, <1>4, <1>5 DEF FInv, NodesOK, MemOK
  <1>8. written' = [written EXCEPT ![n] = w]
    BY <1>2, <1>3, Zenon
  <1>9. BlocksOK(y, mem[n]) /\ Len(mem[n]) <= Len(mem[n])
    <2>1. mem[n] \in Seq(Seq(Units))
      BY <1>4 DEF BlocksOK
    <2>2. Len(mem[n]) \in Nat
      BY <2>1, LenProperties
    <2>3. QED BY <1>4, <1>6, <2>2 DEF BlocksOK
  <1>10. w # NULL => Holds(y, mem[n], w)
    <2>1. ASSUME w # NULL PROVE Holds(y, mem[n], w)
      <3>1. c.clean /\ w = c.buffer
        BY <1>2, <2>1
      <3>2. /\ c.block = nodes[n].data /\ c.block # NULL
            /\ \A i \in 1..c.done : i <= Len(mem[n][c.block]) /\ mem[n][c.block][i] = c.buffer[i]
        BY <1>3, <1>4, <3>1, FileSystemAssumption DEF Progress
      <3>3. QED BY <1>3, <1>4, <1>6, <3>1, <3>2 DEF Holds
    <2>2. QED BY <2>1
  <1>11. call[p].step \in WriteSteps /\ n = call[p].node
    BY <1>1, <1>3 DEF WriteSteps
  <1>12. WriteStep(p, n, Idle, y, mem[n], w)
    BY <1>3, <1>6, <1>7, <1>8, <1>9, <1>10, <1>11, IdleCall, Zenon DEF WriteStep
  <1>13. QED BY <1>12, WriteStepKeeps

(* The smaller of two numbers.                                             *)
LEMMA LesserFacts ==
    ASSUME NEW a \in Nat, NEW b \in Nat
    PROVE  Lesser(a, b) \in Nat /\ Lesser(a, b) <= a /\ Lesser(a, b) <= b
  BY DEF Lesser

(* A read that is clean is at a node between writes.                       *)
LEMMA CleanReadHolds ==
    ASSUME FInv, ~overrun, NEW p \in Procs, call[p].step \in {"limit", "read"}, call[p].clean,
           written[call[p].node] # NULL
    PROVE  Holds(nodes[call[p].node], mem[call[p].node], written[call[p].node])
  <1>1. call[p].node \in DOMAIN nodes
    BY CallFacts
  <1>2. Alone(call[p].node)
    BY DEF FInv, CleanOK, Alone, WriteSteps
  <1>3. QED BY <1>1, <1>2 DEF FInv, WrittenOK

(* ramfs_read limits the number of bytes.                                  *)
LEMMA LimitKeeps ==
    ASSUME FInv, ~overrun, NEW p \in Procs, read_limit(p)
    PROVE  FInv'
  <1>1. PICK c, n, size : c = call[p] /\ n = c.node /\ size = Lesser(c.size, nodes[n].size)
    OBVIOUS
  <1>2. /\ c.step = "limit"
        /\ call' = [call EXCEPT ![p].step = "read", ![p].size = size]
        /\ UNCHANGED <<nodes, root, files, fd_table, mem, overrun, written>>
    BY <1>1 DEF read_limit, Readable
  <1>3. /\ CallShape(c) /\ n \in DOMAIN nodes /\ nodes[n].type = "file" /\ c.asked \in Nat /\ c.size \in Nat
        /\ c.done = 0 /\ c.asked = c.size /\ c.block \in 1..Len(mem[n])
        /\ c.buffer \in Seq(Units) /\ Len(c.buffer) = c.done
        /\ BlocksOK(nodes[n], mem[n])
        /\ c.clean => Progress(c, nodes[n], mem[n], written[n])
    BY <1>1, <1>2, CallFacts DEF WriteSteps
  <1>4. size \in Nat
    BY <1>1, <1>3, LesserFacts DEF BlocksOK
  <1>5. PICK d : d = [c EXCEPT !.step = "read", !.size = size]
    OBVIOUS
  <1>6. d = Changed(c, "read", c.block, c.buffer, size, c.done)
    BY <1>3, <1>5 DEF CallShape, Changed
  <1>7. /\ CallShape(d) /\ d.step = "read" /\ d.node = c.node /\ d.block = c.block
        /\ d.buffer = c.buffer /\ d.asked = c.asked /\ d.size = size /\ d.done = c.done
        /\ d.clean => c.clean
    BY <1>6, CallChanged
  <1>8. call' = [call EXCEPT ![p] = d]
    BY <1>1, <1>2, <1>5 DEF FInv, CallsOK
  <1>9. CallOK(d, nodes, mem)
    <2>1. /\ d.step \in {"alloc", "copy", "limit", "read"} /\ d.step \notin WriteSteps
          /\ d.node \in DOMAIN nodes /\ nodes[d.node].type = "file"
          /\ d.asked \in Nat /\ d.size \in Nat /\ d.done \in 0..d.size
          /\ d.block \in 1..Len(mem[d.node])
          /\ d.buffer \in Seq(Units) /\ Len(d.buffer) = d.done
          /\ d.step \notin {"alloc", "limit"}
      BY <1>1, <1>3, <1>4, <1>7 DEF WriteSteps
    <2>2. QED BY <1>7, <2>1, Zenon DEF CallOK
  <1>10. ASSUME d.clean PROVE Progress(d, nodes[d.node], mem[d.node], written[d.node])
    <2>1. c.clean /\ c.block = nodes[n].data
      BY <1>2, <1>3, <1>7, <1>10 DEF Progress
    <2>2. written[n] # NULL => nodes[n].size = Len(written[n])
      <3>1. call[p].clean /\ call[p].step \in {"limit", "read"}
        BY <1>1, <1>2, <2>1
      <3>2. QED BY <1>1, <3>1, CleanReadHolds DEF Holds
    <2>3. QED BY <1>1, <1>3, <1>7, <2>1, <2>2 DEF Progress
  <1>11. d.clean => call[p].clean
    BY <1>1, <1>7, Zenon
  <1>12. call[p].step \in {"limit", "read"} /\ d.node = call[p].node
    BY <1>1, <1>2, <1>7
  <1>13. QED BY <1>2, <1>7, <1>8, <1>9, <1>10, <1>11, <1>12, ReadStepKeeps

(* One unit of a read.                                                     *)
LEMMA UnitReadKeeps ==
    ASSUME FInv, ~overrun, NEW p \in Procs, read_copy(p)
    PROVE  FInv'
  <1>1. PICK c, n, i : c = call[p] /\ n = c.node /\ i = c.done + 1
    OBVIOUS
  <1>2. PICK block : block = mem[n][c.block]
    OBVIOUS
  <1>3. PICK u : u = IF i <= Len(block) THEN block[i] ELSE NULL
    OBVIOUS
  <1>4. /\ c.step = "read" /\ c.done < c.size
        /\ call' = [call EXCEPT ![p].done = i, ![p].buffer = Append(@, u)]
        /\ UNCHANGED <<nodes, root, files, fd_table, mem, overrun, written>>
    BY <1>1, <1>2, <1>3 DEF read_copy
  <1>5. /\ CallShape(c) /\ n \in DOMAIN nodes /\ nodes[n].type = "file" /\ c.asked \in Nat /\ c.size \in Nat
        /\ c.done \in 0..c.size /\ c.block \in 1..Len(mem[n])
        /\ c.buffer \in Seq(Units) /\ Len(c.buffer) = c.done
        /\ BlocksOK(nodes[n], mem[n])
        /\ c.clean => Progress(c, nodes[n], mem[n], written[n])
    BY <1>1, <1>4, CallFacts DEF WriteSteps
  <1>6. i \in 1..c.size /\ i \in Nat
    BY <1>1, <1>4, <1>5
  <1>7. u \in Units
    <2>1. block \in Seq(Units)
      <3>1. mem[n] \in Seq(Seq(Units))
        BY <1>5 DEF BlocksOK
      <3>2. QED BY <1>2, <1>5, <3>1, ElementOfSeq
    <2>2. Len(block) \in Nat
      BY <2>1, LenProperties
    <2>3. i <= Len(block) => i \in 1..Len(block)
      BY <1>6, <2>2
    <2>4. i <= Len(block) => block[i] \in Units
      BY <2>1, <2>3, ElementOfSeq
    <2>5. QED BY <1>3, <2>4 DEF Units
  <1>8. PICK b : b = Append(c.buffer, u)
    OBVIOUS
  <1>9. /\ b \in Seq(Units) /\ Len(b) = i /\ b[i] = u
        /\ \A j \in 1..c.done : b[j] = c.buffer[j]
    BY <1>1, <1>5, <1>7, <1>8, AppendFacts
  <1>10. PICK d : d = [c EXCEPT !.done = i, !.buffer = b]
    OBVIOUS
  <1>11. d = Changed(c, "read", c.block, b, c.size, i)
    BY <1>4, <1>5, <1>10 DEF CallShape, Changed
  <1>12. /\ CallShape(d) /\ d.step = "read" /\ d.node = c.node /\ d.block = c.block
         /\ d.buffer = b /\ d.asked = c.asked /\ d.size = c.size /\ d.done = i
         /\ d.clean => c.clean
    BY <1>11, CallChanged
  <1>13. call' = [call EXCEPT ![p] = d]
    BY <1>1, <1>4, <1>8, <1>10 DEF FInv, CallsOK
  <1>14. CallOK(d, nodes, mem)
    <2>1. /\ d.step \in {"alloc", "copy", "limit", "read"} /\ d.step \notin WriteSteps
          /\ d.node \in DOMAIN nodes /\ nodes[d.node].type = "file"
          /\ d.asked \in Nat /\ d.size \in Nat /\ d.done \in 0..d.size
          /\ d.block \in 1..Len(mem[d.node])
          /\ d.buffer \in Seq(Units) /\ Len(d.buffer) = d.done
          /\ d.step \notin {"alloc", "limit"}
      BY <1>1, <1>5, <1>6, <1>9, <1>12 DEF WriteSteps
    <2>2. QED BY <1>12, <2>1, Zenon DEF CallOK
  <1>15. ASSUME d.clean PROVE Progress(d, nodes[d.node], mem[d.node], written[d.node])
    <2>1. /\ c.clean /\ c.block = nodes[n].data
          /\ written[n] # NULL => /\ c.size = Lesser(c.asked, Len(written[n]))
                                  /\ \A j \in 1..c.done : c.buffer[j] = written[n][j]
      BY <1>4, <1>5, <1>12, <1>15 DEF Progress
    <2>2. ASSUME written[n] # NULL PROVE \A j \in 1..i : b[j] = written[n][j]
      <3>1. call[p].clean /\ call[p].step \in {"limit", "read"}
        BY <1>1, <1>4, <2>1
      <3>2. Holds(nodes[n], mem[n], written[n])
        BY <1>1, <2>2, <3>1, CleanReadHolds
      <3>3. c.block # NULL
        BY <1>5, FileSystemAssumption
      <3>4. /\ written[n] \in Seq(Bytes)
            /\ \A j \in 1..Len(written[n]) : j <= Len(block) /\ block[j] = written[n][j]
        BY <1>2, <2>1, <3>2, <3>3 DEF Holds
      <3>5. Len(written[n]) \in Nat
        BY <3>4, LenProperties
      <3>6. c.size <= Len(written[n])
        BY <1>5, <2>1, <2>2, <3>5, LesserFacts
      <3>7. i \in 1..Len(written[n])
        BY <1>5, <1>6, <3>5, <3>6
      <3>8. u = written[n][i]
        BY <1>3, <3>4, <3>7
      <3>9. \A j \in 1..i : j = i \/ j \in 1..c.done
        BY <1>1, <1>5
      <3>10. QED BY <1>9, <2>1, <2>2, <3>8, <3>9
    <2>3. QED BY <1>1, <1>12, <2>1, <2>2 DEF Progress
  <1>16. d.clean => call[p].clean
    BY <1>1, <1>12, Zenon
  <1>17. call[p].step \in {"limit", "read"} /\ d.node = call[p].node
    BY <1>1, <1>4, <1>12
  <1>18. QED BY <1>4, <1>12, <1>13, <1>14, <1>15, <1>16, <1>17, ReadStepKeeps

(* sys_write and sys_read begin.                                           *)
LEMMA BeginKeeps ==
    ASSUME FInv, ~overrun, NEW p \in Procs, NEW fd \in Fds,
           \/ \E b \in Buffers : sys_write(p, fd, b)
           \/ \E size \in ReadSizes : sys_read(p, fd, size)
    PROVE  FInv'
  <1>1. PICK n : n = NodeOf(p, fd)
    OBVIOUS
  <1>2. /\ n \in DOMAIN nodes /\ nodes[n].type = "file" /\ call[p].step = "idle"
        /\ UNCHANGED <<nodes, root, files, fd_table, mem, overrun, written>>
    BY <1>1, DescriptorFacts DEF sys_write, sys_read, IsFile
  <1>3. ASSUME NEW b \in Buffers, sys_write(p, fd, b) PROVE FInv'
    <2>1. PICK step : step = IF nodes[n].data = NULL THEN "alloc" ELSE "copy"
      OBVIOUS
    <2>2. Enter(p, NewCall(step, n, b, Len(b)))
      BY <1>1, <1>3, <2>1 DEF sys_write
    <2>3. b \in Seq(Bytes) /\ Len(b) \in Nat
      <3>1. b \in Seq(Bytes)
        BY FileSystemAssumption
      <3>2. QED BY <3>1, LenProperties
    <2>4. /\ step \in {"alloc", "copy", "limit"} /\ step \in WriteSteps
          /\ step = "alloc" <=> nodes[n].data = NULL
      BY <2>1 DEF WriteSteps
    <2>5. QED BY <1>2, <2>2, <2>3, <2>4, EnterKeeps
  <1>4. ASSUME NEW size \in ReadSizes, sys_read(p, fd, size) PROVE FInv'
    <2>1. CASE nodes[n].data = NULL
      <3>1. UNCHANGED <<nodes, root, files, fd_table, mem, call, overrun, written>>
        BY <1>1, <1>4, <2>1 DEF sys_read
      <3>2. QED BY <3>1 DEF FInv, NodesOK, OpenOK, MemOK, CallsOK, CleanOK, ProgressOK, WrittenOK, Alone
    <2>2. CASE nodes[n].data # NULL
      <3>1. Enter(p, NewCall("limit", n, <<>>, size))
        BY <1>1, <1>4, <2>2 DEF sys_read
      <3>2. size \in Nat
        BY FileSystemAssumption
      <3>3. QED BY <1>2, <2>2, <3>1, <3>2, EnterKeeps DEF WriteSteps
    <2>3. QED BY <2>1, <2>2
  <1>5. QED BY <1>3, <1>4

(* What a change of files and descriptors leaves alone.                    *)
LEMMA RestKept ==
    ASSUME FInv, UNCHANGED <<nodes, root, mem, call, overrun, written>>, OpenOK'
    PROVE  FInv'
  BY DEF FInv, NodesOK, MemOK, CallsOK, CleanOK, ProgressOK, WrittenOK, Alone

(* The descriptors after sys_open: one that was free may be in use.        *)
LEMMA AllocateFacts ==
    ASSUME FInv, NEW p \in Procs, NEW f \in Nat
    PROVE  \/ fd_allocate(p, f) = fd_table
           \/ \E fd \in Fds : /\ fd_table[p][fd] = NULL
                              /\ fd_allocate(p, f) = [fd_table EXCEPT ![p][fd] = f]
  <1>1. PICK unused : unused = {fd \in Fds : fd_table[p][fd] = NULL}
    OBVIOUS
  <1>2. fd_allocate(p, f) = IF unused = {} THEN fd_table
                            ELSE [fd_table EXCEPT ![p][Least(unused)] = f]
    BY <1>1 DEF fd_allocate
  <1>3. CASE unused # {}
    <2>1. unused \subseteq Nat
      BY <1>1, FileSystemAssumption DEF Fds
    <2>2. Least(unused) \in unused
      BY <1>3, <2>1, LeastElement
    <2>3. QED BY <1>1, <1>2, <1>3, <2>2
  <1>4. QED BY <1>2, <1>3

(* sys_open.                                                               *)
LEMMA OpenKeeps ==
    ASSUME FInv, NEW p \in Procs, NEW path \in Paths, sys_open(p, path)
    PROVE  FInv'
  <1>1. PICK x, f : x = vfs_lookup(path) /\ f = Len(files) + 1
    OBVIOUS
  <1>2. /\ x # NULL /\ files' = Append(files, x) /\ fd_table' = fd_allocate(p, f)
        /\ UNCHANGED <<nodes, root, mem, call, overrun, written>>
    BY <1>1 DEF sys_open, vfs_open
  <1>3. x \in DOMAIN nodes
    <2>1. Len(path) \in Nat
      <3>1. PICK n \in 0..MaxDepth : path \in [1..n -> Names]
        BY DEF Paths
      <3>2. n \in Nat
        BY <3>1, FileSystemAssumption
      <3>3. path \in Seq(Names)
        BY <3>1, <3>2, SeqDef
      <3>4. QED BY <3>3, LenProperties
    <2>2. PICK w : IsWalk(w, root, path, Len(path)) /\ x = w[Len(path)]
      BY <1>1, <2>1, LookupFacts DEF FInv
    <2>3. w[Len(path)] \in DOMAIN nodes \cup {NULL}
      BY <2>1, <2>2 DEF IsWalk
    <2>4. QED BY <1>2, <2>2, <2>3
  <1>4. files \in Seq(DOMAIN nodes) /\ Len(files) \in Nat
    <2>1. files \in Seq(DOMAIN nodes)
      BY DEF FInv, OpenOK
    <2>2. QED BY <2>1, LenProperties
  <1>5. files' \in Seq(DOMAIN nodes) /\ Len(files') = Len(files) + 1
    BY <1>2, <1>3, <1>4
  <1>6. fd_table' \in [Procs -> [Fds -> (1..Len(files')) \cup {NULL}]]
    <2>1. fd_table \in [Procs -> [Fds -> (1..Len(files')) \cup {NULL}]]
      <3>1. 1..Len(files) \subseteq 1..Len(files')
        BY <1>4, <1>5
      <3>2. QED BY <3>1 DEF FInv, OpenOK
    <2>2. f \in 1..Len(files') /\ f \in Nat
      BY <1>1, <1>4, <1>5
    <2>3. CASE fd_table' = fd_table
      BY <2>1, <2>3
    <2>4. ASSUME NEW e \in Fds, fd_table' = [fd_table EXCEPT ![p][e] = f]
          PROVE  fd_table' \in [Procs -> [Fds -> (1..Len(files')) \cup {NULL}]]
      <3>1. fd_table[p] \in [Fds -> (1..Len(files')) \cup {NULL}]
        BY <2>1
      <3>2. [fd_table[p] EXCEPT ![e] = f] \in [Fds -> (1..Len(files')) \cup {NULL}]
        BY <2>2, <3>1
      <3>3. QED BY <2>1, <2>4, <3>2
    <2>5. QED BY <1>2, <2>2, <2>3, <2>4, AllocateFacts
  <1>7. OpenOK'
    BY <1>2, <1>5, <1>6 DEF OpenOK
  <1>8. QED BY <1>2, <1>7, RestKept

(* The tree of nodes, the descriptors and the contents stay in order, and  *)
(* every call has come as far as its step says.                            *)
THEOREM FileInvariance == Spec => []FInv
  <1>1. Init => FInv
    <2> SUFFICES ASSUME Init PROVE FInv
      OBVIOUS
    <2>1. /\ DOMAIN nodes = {0} /\ nodes = [n \in {0} |-> nodes[n]]
          /\ nodes[0] = [name |-> NULL, type |-> "directory", parent |-> NULL,
                         children |-> <<>>, data |-> NULL, size |-> 0]
          /\ root = NULL /\ written = [n \in {0} |-> <<>>] /\ nodes = ramfs_mount
          /\ mem = [n \in {0} |-> <<>>] /\ call = [p \in Procs |-> Idle]
      BY DEF Init, ramfs_mount, NewNode
    <2>2. NodesOK
      <3>1. {0} = 0..(1 - 1) /\ 1 \in Nat \ {0}
        OBVIOUS
      <3>2. NodeOK(nodes[0], {0})
        BY <2>1 DEF NodeOK
      <3>3. QED BY <2>1, <3>1, <3>2 DEF NodesOK
    <2>3. OpenOK
      BY DEF Init, OpenOK
    <2>4. MemOK
      <3>1. BlocksOK(nodes[0], <<>>)
        BY <2>1 DEF BlocksOK
      <3>2. QED BY <2>1, <3>1 DEF MemOK
    <2>5. CallsOK /\ CleanOK /\ ProgressOK
      <3>1. \A p \in Procs : call[p] = Idle /\ call[p].step = "idle"
        BY <2>1, IdleCall
      <3>2. QED BY <2>1, <3>1 DEF CallsOK, CallOK, CleanOK, ProgressOK
    <2>6. WrittenOK
      <3>1. Holds(nodes[0], <<>>, <<>>)
        BY <2>1 DEF Holds
      <3>2. QED BY <2>1, <3>1 DEF WrittenOK
    <2>7. TreeOK(nodes)
      <3>1. NamesDiffer(nodes, 0)
        BY <2>1 DEF NamesDiffer
      <3>2. QED BY <2>1, <3>1 DEF TreeOK
    <2>8. QED BY <2>2, <2>3, <2>4, <2>5, <2>6, <2>7 DEF FInv
  <1>2. FInv /\ [Next]_vars => FInv'
    <2> SUFFICES ASSUME FInv, [Next]_vars PROVE FInv'
      OBVIOUS
    <2>1. CASE UNCHANGED vars
      <3>1. OpenOK'
        BY <2>1 DEF vars, FInv, OpenOK
      <3>2. QED BY <2>1, <3>1, RestKept DEF vars
    <2> SUFFICES ASSUME ~overrun, Operation PROVE FInv'
      BY <2>1 DEF Next
    <2>2. CASE vfs_mount
      <3>1. nodes' = nodes /\ root' = 0 /\ UNCHANGED <<files, fd_table, mem, call, overrun, written>>
        BY <2>2 DEF vfs_mount, FInv, NodesOK
      <3>2. NodesOK'
        <4>1. 0 # NULL
          BY FileSystemAssumption
        <4>2. QED BY <3>1, <4>1 DEF FInv, NodesOK
      <3>3. QED BY <3>1, <3>2
              DEF FInv, OpenOK, MemOK, CallsOK, CleanOK, ProgressOK, WrittenOK, Alone
    <2>3. CASE \E d \in DOMAIN nodes : \E name \in Names :
                  root # NULL /\ (ramfs_mkdir(d, name) \/ ramfs_create(d, name))
      BY <2>3, AddNodeKeeps DEF ramfs_mkdir, ramfs_create
    <2>4. ASSUME NEW p \in Procs, NEW fd \in Fds, sys_close(p, fd) PROVE FInv'
      <3>1. /\ fd_table' = [fd_table EXCEPT ![p][fd] = NULL]
            /\ UNCHANGED <<nodes, root, files, mem, call, overrun, written>>
        BY <2>4 DEF sys_close
      <3>2. OpenOK'
        BY <3>1 DEF FInv, OpenOK
      <3>3. QED BY <3>1, <3>2, RestKept
    <2>5. ASSUME NEW p \in Procs, ramfs_write(p) PROVE FInv'
      BY <2>5, AllocKeeps, EnomemKeeps, CopyKeeps, SizeKeeps DEF ramfs_write
    <2>6. ASSUME NEW p \in Procs, read_return(p) PROVE FInv'
      <3>1. /\ call[p].step \in {"limit", "read"} /\ call' = [call EXCEPT ![p] = Idle]
            /\ UNCHANGED <<nodes, root, files, fd_table, mem, overrun, written>>
        BY <2>6 DEF read_return
      <3>2. CallOK(Idle, nodes, mem) /\ Idle.step = "idle"
        BY IdleCall
      <3>3. QED BY <3>1, <3>2, ReadStepKeeps
    <2>7. ASSUME NEW p \in Procs, ramfs_read(p) PROVE FInv'
      BY <2>6, <2>7, LimitKeeps, UnitReadKeeps DEF ramfs_read
    <2>8. QED BY <2>2, <2>3, <2>4, <2>5, <2>7, OpenKeeps, BeginKeeps DEF Operation
  <1>3. QED BY <1>1, <1>2, PTL DEF Spec

(* The path that leads up from a node is the one by which it is found.     *)
THEOREM PathsResolveCorrect == Spec => []PathsResolve
  <1>1. FInv => PathsResolve
    BY TreeResolves DEF FInv
  <1>2. QED BY <1>1, FileInvariance, PTL

(* A descriptor is the same file until its process closes it.              *)
THEOREM DescriptorsKeptCorrect == Spec => DescriptorsKept
  <1>1. FInv /\ [Next]_vars =>
          [\A p \in Procs, fd \in Fds :
             fd_table[p][fd] # NULL =>
                \/ /\ fd_table'[p][fd] = fd_table[p][fd]
                   /\ files'[fd_table[p][fd]] = files[fd_table[p][fd]]
                \/ fd_table' = [fd_table EXCEPT ![p][fd] = NULL]]_vars
    <2> SUFFICES ASSUME FInv, Next, NEW p \in Procs, NEW fd \in Fds, fd_table[p][fd] # NULL
                 PROVE  \/ /\ fd_table'[p][fd] = fd_table[p][fd]
                           /\ files'[fd_table[p][fd]] = files[fd_table[p][fd]]
                        \/ fd_table' = [fd_table EXCEPT ![p][fd] = NULL]
      OBVIOUS
    <2>1. CASE UNCHANGED <<files, fd_table>>
      BY <2>1
    <2>2. ASSUME NEW q \in Procs, NEW path \in Paths, sys_open(q, path)
          PROVE  /\ fd_table'[p][fd] = fd_table[p][fd]
                 /\ files'[fd_table[p][fd]] = files[fd_table[p][fd]]
      <3>1. /\ files' = Append(files, vfs_lookup(path)) /\ fd_table' = fd_allocate(q, Len(files) + 1)
        BY <2>2 DEF sys_open, vfs_open
      <3>2. files \in Seq(DOMAIN nodes) /\ fd_table[p][fd] \in 1..Len(files)
        BY DescriptorFacts DEF FInv, OpenOK
      <3>3. files'[fd_table[p][fd]] = files[fd_table[p][fd]]
        BY <3>1, <3>2, AppendFacts
      <3>4. Len(files) + 1 \in Nat
        BY <3>2, LenProperties
      <3>5. fd_table'[p][fd] = fd_table[p][fd]
        <4>1. CASE fd_table' = fd_table
          BY <4>1
        <4>2. ASSUME NEW e \in Fds, fd_table[q][e] = NULL,
                     fd_table' = [fd_table EXCEPT ![q][e] = Len(files) + 1]
              PROVE  fd_table'[p][fd] = fd_table[p][fd]
          BY <4>2 DEF FInv, OpenOK
        <4>3. QED BY <3>1, <3>4, <4>1, <4>2, AllocateFacts
      <3>6. QED BY <3>3, <3>5
    <2>3. ASSUME NEW q \in Procs, NEW e \in Fds, sys_close(q, e)
          PROVE  \/ /\ fd_table'[p][fd] = fd_table[p][fd]
                    /\ files'[fd_table[p][fd]] = files[fd_table[p][fd]]
                 \/ fd_table' = [fd_table EXCEPT ![p][fd] = NULL]
      <3>1. fd_table' = [fd_table EXCEPT ![q][e] = NULL] /\ files' = files
        BY <2>3 DEF sys_close
      <3>2. CASE q = p /\ e = fd
        BY <3>1, <3>2
      <3>3. CASE ~(q = p /\ e = fd)
        BY <3>1, <3>3 DEF FInv, OpenOK
      <3>4. QED BY <3>2, <3>3
    <2>4. CASE vfs_mount
      BY <2>1, <2>4 DEF vfs_mount
    <2>5. CASE \E d \in DOMAIN nodes : \E name \in Names :
                  root # NULL /\ (ramfs_mkdir(d, name) \/ ramfs_create(d, name))
      BY <2>1, <2>5 DEF ramfs_mkdir, ramfs_create, AddNode
    <2>6. CASE \E q \in Procs : \E e \in Fds : \/ \E b \in Buffers : sys_write(q, e, b)
                                               \/ \E size \in ReadSizes : sys_read(q, e, size)
      BY <2>1, <2>6 DEF sys_write, sys_read
    <2>7. CASE \E q \in Procs : ramfs_write(q) \/ ramfs_read(q)
      BY <2>1, <2>7 DEF ramfs_write, write_alloc, write_enomem, write_copy, write_size,
                        ramfs_read, read_limit, read_copy, read_return
    <2>8. QED BY <2>2, <2>3, <2>4, <2>5, <2>6, <2>7 DEF Next, Operation
  <1>2. QED BY <1>1, FileInvariance, PTL DEF Spec, DescriptorsKept

(* A sequence whose units are the first ones of another.                   *)
LEMMA FirstUnits ==
    ASSUME NEW w \in Seq(Bytes), NEW s \in Seq(Units), Len(s) <= Len(w),
           \A i \in 1..Len(s) : s[i] = w[i]
    PROVE  s = SubSeq(w, 1, Len(s))
  <1>1. PICK k : k = Len(s)
    OBVIOUS
  <1>2. k \in Nat /\ Len(w) \in Nat /\ k <= Len(w)
    BY <1>1, LenProperties
  <1>3. \A i \in 1..k : w[i] \in Units
    <2>1. ASSUME NEW i \in 1..k PROVE w[i] \in Units
      <3>1. i \in 1..Len(w)
        BY <1>2
      <3>2. w[i] \in Bytes
        BY <3>1, ElementOfSeq
      <3>3. QED BY <3>2 DEF Units
    <2>2. QED BY <2>1
  <1>4. CASE k = 0
    <2>1. SubSeq(w, 1, 0) = <<>>
      BY SubSeqEmpty
    <2>2. s = <<>>
      BY <1>1, <1>4, EmptySeq
    <2>3. QED BY <1>1, <1>4, <2>1, <2>2
  <1>5. CASE k # 0
    <2>1. 1 \in Int /\ k \in Int /\ 1 <= k /\ k - 1 + 1 = k
      BY <1>2, <1>5
    <2>2. PICK v : v = SubSeq(w, 1, k)
      OBVIOUS
    <2>3. /\ v \in Seq(Units) /\ Len(v) = k
          /\ \A i \in 1..k : v[i] = w[1 + i - 1]
      BY <1>3, <2>1, <2>2, SubSeqProperties
    <2>4. \A i \in 1..k : s[i] = v[i]
      <3>1. \A i \in 1..k : 1 + i - 1 = i
        BY <2>1
      <3>2. QED BY <1>1, <2>3, <3>1
    <2>5. s = v
      BY <1>1, <2>3, <2>4, SeqEqual
    <2>6. QED BY <1>1, <2>2, <2>5
  <1>6. QED BY <1>4, <1>5

(* A read that no write overlaps gives what was last written.              *)
THEOREM ReadBackCorrect == Spec => ReadBack
  <1>1. FInv /\ [Next]_vars =>
          [got' # NULL /\ got'.clean /\ written[got'.node] # NULL =>
             LET w == written[got'.node]
             IN  got'.bytes = SubSeq(w, 1, Lesser(got'.asked, Len(w)))]_vars
    <2> SUFFICES ASSUME FInv, ~overrun, Operation, got' # NULL, got'.clean, written[got'.node] # NULL
                 PROVE  got'.bytes = SubSeq(written[got'.node], 1,
                                            Lesser(got'.asked, Len(written[got'.node])))
      BY DEF Next
    <2>1. \/ \E p \in Procs, fd \in Fds, size \in ReadSizes : sys_read(p, fd, size)
          \/ \E p \in Procs : read_return(p)
      BY DEF Operation, vfs_mount, ramfs_mkdir, ramfs_create, AddNode, sys_open, sys_close, sys_write,
             ramfs_write, write_alloc, write_enomem, write_copy, write_size,
             ramfs_read, read_limit, read_copy
    <2>2. ASSUME NEW p \in Procs, NEW fd \in Fds, NEW size \in ReadSizes, sys_read(p, fd, size)
          PROVE  got'.bytes = SubSeq(written[got'.node], 1,
                                     Lesser(got'.asked, Len(written[got'.node])))
      <3>1. PICK n : n = NodeOf(p, fd)
        OBVIOUS
      <3>2. /\ nodes[n].data = NULL
            /\ got' = [node |-> n, asked |-> size, clean |-> Alone(n), bytes |-> <<>>]
        BY <2>2, <3>1 DEF sys_read
      <3>3. got'.node = n /\ got'.asked = size /\ got'.bytes = <<>>
        BY <3>2
      <3>4. Alone(n)
        BY <3>2, Zenon
      <3>5. n \in DOMAIN nodes /\ size \in Nat
        BY <2>2, <3>1, DescriptorFacts, FileSystemAssumption DEF sys_read, IsFile
      <3>6. written[n] = <<>>
        BY <3>2, <3>3, <3>4, <3>5 DEF FInv, WrittenOK, Holds
      <3>7. Lesser(size, Len(<<>>)) = 0
        BY <3>5 DEF Lesser
      <3>8. SubSeq(<<>>, 1, 0) = <<>>
        BY SubSeqEmpty
      <3>9. QED BY <3>3, <3>6, <3>7, <3>8
    <2>3. ASSUME NEW p \in Procs, read_return(p)
          PROVE  got'.bytes = SubSeq(written[got'.node], 1,
                                     Lesser(got'.asked, Len(written[got'.node])))
      <3>1. PICK c, n, w : c = call[p] /\ n = c.node /\ w = written[n]
        OBVIOUS
      <3>2. /\ c.step = "read" /\ c.done = c.size
            /\ got' = [node |-> n, asked |-> c.asked, clean |-> c.clean, bytes |-> c.buffer]
        BY <2>3, <3>1 DEF read_return
      <3>3. got'.node = n /\ got'.asked = c.asked /\ got'.bytes = c.buffer
        BY <3>2
      <3>4. c.clean
        BY <3>2, Zenon
      <3>5. /\ c.asked \in Nat /\ c.size \in Nat /\ c.buffer \in Seq(Units) /\ Len(c.buffer) = c.done
            /\ Progress(c, nodes[n], mem[n], w)
        BY <3>1, <3>2, <3>4, CallFacts DEF WriteSteps
      <3>6. w # NULL
        BY <3>1, <3>3
      <3>7. /\ c.size = Lesser(c.asked, Len(w))
            /\ \A i \in 1..c.done : c.buffer[i] = w[i]
        BY <3>2, <3>5, <3>6 DEF Progress
      <3>8. w \in Seq(Bytes)
        <4>1. call[p].clean /\ call[p].step \in {"limit", "read"} /\ written[call[p].node] # NULL
          BY <3>1, <3>2, <3>4, <3>6
        <4>2. QED BY <3>1, <4>1, CleanReadHolds DEF Holds
      <3>9. Len(c.buffer) <= Len(w)
        <4>1. Len(w) \in Nat
          BY <3>8, LenProperties
        <4>2. Lesser(c.asked, Len(w)) <= Len(w)
          BY <3>5, <4>1, LesserFacts
        <4>3. Len(c.buffer) = Lesser(c.asked, Len(w))
          BY <3>2, <3>5, <3>7
        <4>4. QED BY <4>2, <4>3
      <3>10. c.buffer = SubSeq(w, 1, Len(c.buffer))
        BY <3>2, <3>5, <3>7, <3>8, <3>9, FirstUnits
      <3>11. Len(c.buffer) = Lesser(c.asked, Len(w))
        BY <3>2, <3>5, <3>7
      <3>12. QED BY <3>1, <3>3, <3>10, <3>11
    <2>4. QED BY <2>1, <2>2, <2>3
  <1>2. QED BY <1>1, FileInvariance, PTL DEF Spec, ReadBack

-----------------------------------------------------------------------------
(* The terminal, module Terminal *)

(* What is about to be written into a cell is a printable character.       *)
Printable ==
    /\ char \in [Contexts -> Chars \cup {Blank, Newline}]
    /\ \A x \in Contexts : at[x] \in {"check", "cell"} => char[x] \in Chars

(* A cursor past the edge is seen by the context that has put one there:   *)
(* it has still to make its test, or to scroll.                            *)
ColumnWatched ==
    cursor_col >= TERM_COLS =>
        \E x \in Contexts : at[x] = "wrap" /\ reg[x] >= TERM_COLS
RowWatched ==
    cursor_row >= TERM_ROWS =>
        \E x \in Contexts : \/ at[x] = "full" /\ reg[x] >= TERM_ROWS
                            \/ at[x] \in {"scroll", "scroll_row"}

TInv == TTypeOK /\ Printable /\ ColumnWatched /\ RowWatched

Labels == {"idle", "newline", "check", "cell", "col_load", "col_store",
           "wrap", "row_load", "row_store", "full", "scroll", "scroll_row", "scroll_col"}

USE DEF TerminalAssumption

(* The operations on the cells give cells.                                 *)
LEMMA CellFacts ==
    ASSUME TerminalAssumption, TTypeOK
    PROVE  /\ Scrolled \in [Cells -> Chars \cup {Blank}]
           /\ Empty \in [Cells -> Chars \cup {Blank}]
           /\ \A row, col : \A c \in Chars \cup {Blank} : Put(row, col, c) =>
                 cells' \in [Cells -> Chars \cup {Blank}] /\ stray' \in BOOLEAN
  <1>1. ASSUME NEW row, NEW col, NEW c \in Chars \cup {Blank}, Put(row, col, c)
        PROVE  cells' \in [Cells -> Chars \cup {Blank}] /\ stray' \in BOOLEAN
    <2>1. stray' \in BOOLEAN
      BY <1>1, Zenon DEF Put
    <2>2. cells' \in [Cells -> Chars \cup {Blank}]
      BY <1>1 DEF TTypeOK, Put
    <2>3. QED BY <2>1, <2>2
  <1>2. QED BY <1>1 DEF TTypeOK, Scrolled, Empty

(* A context that moves on leaves the others where they are.               *)
LEMMA GoFacts ==
    ASSUME TerminalAssumption, TTypeOK, NEW x \in Contexts, NEW label \in Labels, Go(x, label)
    PROVE  /\ at' \in [Contexts -> Labels]
           /\ at'[x] = label
           /\ \A y \in Contexts : y # x => at'[y] = at[y]
  BY DEF TTypeOK, Go, Labels

(* A call of terminal_putchar begins, in a task or in the keyboard handler.*)
LEMMA BeginPreserves ==
    ASSUME TerminalAssumption, TInv, NEW x \in Contexts, NEW c \in Chars \cup {Newline}, Begin(x, c),
           UNCHANGED <<cursor_row, cursor_col, cells, reg, stray>>,
           input_length' \in 0..(INPUT_BUFFER_SIZE - 1)
    PROVE  TInv'
  <1>1. /\ at' \in [Contexts -> Labels] /\ at[x] = "idle"
        /\ at'[x] = (IF c = Newline THEN "newline" ELSE "check")
        /\ \A y \in Contexts : y # x => at'[y] = at[y]
    BY GoFacts DEF TInv, Begin, Labels
  <1>2. TTypeOK'
    BY <1>1 DEF TInv, TTypeOK, Labels
  <1>3. Printable'
    BY <1>1 DEF TInv, Printable, Begin
  <1>4. ColumnWatched'
    BY <1>1 DEF TInv, ColumnWatched
  <1>5. RowWatched'
    BY <1>1 DEF TInv, RowWatched
  <1>6. QED BY <1>2, <1>3, <1>4, <1>5 DEF TInv

(* Return(x) takes x off.                                                  *)
LEMMA ReturnFacts ==
    ASSUME TerminalAssumption, TInv, NEW x \in Contexts, Return(x)
    PROVE  /\ at' \in [Contexts -> Labels] /\ at'[x] = "idle"
           /\ \A y \in Contexts : y # x => at'[y] = at[y] /\ reg'[y] = reg[y]
           /\ reg' \in [Contexts -> Nat]
           /\ Printable'
  <1>1. /\ at' \in [Contexts -> Labels] /\ at'[x] = "idle"
        /\ \A y \in Contexts : y # x => at'[y] = at[y]
    BY GoFacts DEF TInv, Return, Labels
  <1>2. QED BY <1>1 DEF TInv, TTypeOK, Printable, Return

(* A step inside terminal_putchar.                                         *)
LEMMA PutcharPreserves ==
    ASSUME TerminalAssumption, TInv, NEW x \in Contexts, Putchar(x)
    PROVE  TInv'
  <1>1. CASE newline(x)
    <2>1. /\ at' \in [Contexts -> Labels] /\ at[x] = "newline" /\ at'[x] = "row_load"
          /\ \A y \in Contexts : y # x => at'[y] = at[y]
      BY <1>1, GoFacts DEF TInv, newline, Labels
    <2>2. QED BY <1>1, <2>1 DEF TInv, TTypeOK, Labels, Printable, ColumnWatched, RowWatched, newline
  <1>2. CASE check(x)
    <2>1. /\ at' \in [Contexts -> Labels] /\ at[x] = "check" /\ at'[x] \in {"scroll", "cell"}
          /\ \A y \in Contexts : y # x => at'[y] = at[y] /\ reg'[y] = reg[y]
          /\ reg' \in [Contexts -> Nat]
      BY <1>2, GoFacts DEF TInv, TTypeOK, check, Labels
    <2>2. QED BY <1>2, <2>1
            DEF TInv, TTypeOK, Labels, Printable, ColumnWatched, RowWatched, check
  <1>3. CASE cell(x)
    <2>1. /\ at' \in [Contexts -> Labels] /\ at[x] = "cell" /\ at'[x] = "col_load"
          /\ \A y \in Contexts : y # x => at'[y] = at[y]
      BY <1>3, GoFacts DEF TInv, cell, Labels
    <2>2. cells' \in [Cells -> Chars \cup {Blank}] /\ stray' \in BOOLEAN
      BY <1>3, <2>1, CellFacts DEF TInv, Printable, cell
    <2>3. QED BY <1>3, <2>1, <2>2
            DEF TInv, TTypeOK, Labels, Printable, ColumnWatched, RowWatched, cell
  <1>4. CASE load(x)
    <2>1. /\ at' \in [Contexts -> Labels] /\ at[x] \in {"col_load", "row_load"}
          /\ at'[x] \in {"col_store", "row_store"}
          /\ \A y \in Contexts : y # x => at'[y] = at[y] /\ reg'[y] = reg[y]
          /\ reg' \in [Contexts -> Nat]
      BY <1>4, GoFacts DEF TInv, TTypeOK, load, Labels
    <2>2. QED BY <1>4, <2>1 DEF TInv, TTypeOK, Labels, Printable, ColumnWatched, RowWatched, load
  <1>5. CASE store(x)
    <2>1. /\ at' \in [Contexts -> Labels] /\ at[x] \in {"col_store", "row_store"}
          /\ at'[x] = (IF at[x] = "col_store" THEN "wrap" ELSE "full")
          /\ \A y \in Contexts : y # x => at'[y] = at[y]
      BY <1>5, GoFacts DEF TInv, store, Labels
    <2>2. QED BY <1>5, <2>1 DEF TInv, TTypeOK, Labels, Printable, ColumnWatched, RowWatched, store
  <1>6. CASE wrap(x)
    <2>1. PICK col \in {cursor_col, reg[x]} :
            \/ Wraps(col) /\ cursor_col' = 0 /\ Go(x, "row_load") /\ UNCHANGED <<reg, char>>
            \/ ~Wraps(col) /\ Return(x) /\ UNCHANGED cursor_col
      BY <1>6 DEF wrap
    <2>2. CASE Wraps(col) /\ cursor_col' = 0 /\ Go(x, "row_load") /\ UNCHANGED <<reg, char>>
      <3>1. /\ at' \in [Contexts -> Labels] /\ at[x] = "wrap" /\ at'[x] = "row_load"
            /\ \A y \in Contexts : y # x => at'[y] = at[y]
        BY <1>6, <2>2, GoFacts DEF TInv, wrap, Labels
      <3>2. QED BY <1>6, <2>2, <3>1
              DEF TInv, TTypeOK, Labels, Printable, ColumnWatched, RowWatched, wrap
    <2>3. CASE ~Wraps(col) /\ Return(x) /\ UNCHANGED cursor_col
      <3>1. at[x] = "wrap" /\ cursor_col \in Nat /\ reg[x] \in Nat
        BY <1>6 DEF wrap, TInv, TTypeOK
      <3>2. ColumnWatched'
        BY <2>1, <2>3, <3>1, ReturnFacts DEF TInv, ColumnWatched, Wraps
      <3>3. RowWatched'
        BY <1>6, <2>3, <3>1, ReturnFacts DEF TInv, RowWatched, wrap
      <3>4. QED BY <1>6, <2>3, <3>2, <3>3, ReturnFacts DEF TInv, TTypeOK, Labels, wrap
    <2>4. QED BY <2>1, <2>2, <2>3
  <1>7. CASE full(x)
    <2>1. PICK row \in {cursor_row, reg[x]} :
            \/ Full(row) /\ Go(x, "scroll") /\ UNCHANGED <<reg, char>>
            \/ ~Full(row) /\ Return(x)
      BY <1>7 DEF full
    <2>2. at[x] = "full" /\ cursor_row \in Nat /\ reg[x] \in Nat
      BY <1>7 DEF full, TInv, TTypeOK
    <2>3. CASE Full(row) /\ Go(x, "scroll") /\ UNCHANGED <<reg, char>>
      <3>1. /\ at' \in [Contexts -> Labels] /\ at'[x] = "scroll"
            /\ \A y \in Contexts : y # x => at'[y] = at[y]
        BY <2>3, GoFacts DEF TInv, Labels
      <3>2. QED BY <1>7, <2>2, <2>3, <3>1
              DEF TInv, TTypeOK, Labels, Printable, ColumnWatched, RowWatched, full
    <2>4. CASE ~Full(row) /\ Return(x)
      <3>1. RowWatched'
        BY <1>7, <2>1, <2>2, <2>4, ReturnFacts DEF TInv, RowWatched, Full, full
      <3>2. ColumnWatched'
        BY <1>7, <2>2, <2>4, ReturnFacts DEF TInv, ColumnWatched, full
      <3>3. QED BY <1>7, <2>2, <2>4, <3>1, <3>2, ReturnFacts DEF TInv, TTypeOK, Labels, full
    <2>5. QED BY <2>1, <2>3, <2>4
  <1>8. CASE terminal_scroll(x)
    <2>1. CASE at[x] \in {"scroll", "scroll_row"}
      <3>1. /\ at' \in [Contexts -> Labels] /\ UNCHANGED <<cursor_col, reg, char>>
            /\ at'[x] = (IF at[x] = "scroll" THEN "scroll_row" ELSE "scroll_col")
            /\ \A y \in Contexts : y # x => at'[y] = at[y]
        BY <1>8, <2>1, GoFacts DEF TInv, terminal_scroll, Labels
      <3>2. /\ cells' \in [Cells -> Chars \cup {Blank}]
            /\ cursor_row' = (IF at[x] = "scroll" THEN cursor_row ELSE TERM_ROWS - 1)
        BY <1>8, <2>1, CellFacts DEF TInv, TTypeOK, terminal_scroll
      <3>3. RowWatched'
        BY <2>1, <3>1, <3>2 DEF TInv, TTypeOK, RowWatched
      <3>4. QED BY <1>8, <2>1, <3>1, <3>2, <3>3
              DEF TInv, TTypeOK, Labels, Printable, ColumnWatched, terminal_scroll
    <2>2. CASE at[x] = "scroll_col"
      <3>1. cursor_col' = 0 /\ Return(x) /\ UNCHANGED <<cursor_row, cells, input_length, stray>>
        BY <1>8, <2>2 DEF terminal_scroll
      <3>2. RowWatched'
        BY <2>2, <3>1, ReturnFacts DEF TInv, RowWatched
      <3>3. ColumnWatched'
        BY <3>1 DEF ColumnWatched
      <3>4. QED BY <3>1, <3>2, <3>3, ReturnFacts DEF TInv, TTypeOK, Labels
    <2>3. QED BY <1>8, <2>1, <2>2 DEF terminal_scroll
  <1>9. QED BY <1>1, <1>2, <1>3, <1>4, <1>5, <1>6, <1>7, <1>8 DEF Putchar

(* Every step of the specification.                                        *)
LEMMA TerminalPreserves ==
    ASSUME TerminalAssumption, TInv, [TNext]_tvars
    PROVE  TInv'
  <1>1. CASE terminal_init
    BY <1>1, CellFacts DEF TInv, TTypeOK, Printable, ColumnWatched, RowWatched, terminal_init
  <1>2. ASSUME NEW x \in Contexts, NEW c \in Chars \cup {Newline}, terminal_putchar(x, c)
        PROVE  TInv'
    BY <1>2, BeginPreserves DEF TInv, TTypeOK, terminal_putchar
  <1>3. ASSUME NEW x \in Contexts, Putchar(x) PROVE TInv'
    BY <1>3, PutcharPreserves
  <1>4. ASSUME NEW c \in Chars \cup {Newline}, terminal_handle_key(c) PROVE TInv'
    <2>1. input_length' \in 0..(INPUT_BUFFER_SIZE - 1) /\ Irq \in Contexts
      BY <1>4 DEF TInv, TTypeOK, terminal_handle_key, InputFull, Contexts
    <2>2. QED BY <1>4, <2>1, BeginPreserves DEF terminal_handle_key
  <1>5. CASE terminal_backspace
    <2>1. /\ cursor_row' \in Nat /\ cursor_row' <= cursor_row
          /\ cursor_col' \in Nat /\ (cursor_col' >= TERM_COLS => cursor_col >= TERM_COLS)
      BY <1>5 DEF TInv, TTypeOK, terminal_backspace
    <2>2. cells' \in [Cells -> Chars \cup {Blank}] /\ stray' \in BOOLEAN
      BY <1>5, CellFacts DEF TInv, terminal_backspace
    <2>3. QED BY <1>5, <2>1, <2>2
            DEF TInv, TTypeOK, Printable, ColumnWatched, RowWatched, terminal_backspace
  <1>6. CASE UNCHANGED tvars
    BY <1>6 DEF TInv, TTypeOK, Printable, ColumnWatched, RowWatched, tvars
  <1>7. QED BY <1>1, <1>2, <1>3, <1>4, <1>5, <1>6 DEF TNext

(* A cursor past an edge always has a context that will bring it back.     *)
THEOREM TerminalInvariance ==
    ASSUME TerminalAssumption
    PROVE  TSpec => []TInv
  <1>1. TInit => TInv
    <2> SUFFICES ASSUME TInit PROVE TInv
      OBVIOUS
    <2>1. stray \in BOOLEAN
      BY Zenon DEF TInit
    <2>2. TTypeOK
      BY <2>1 DEF TInit, TTypeOK, Empty
    <2>3. Printable
      BY DEF TInit, Printable
    <2>4. ColumnWatched /\ RowWatched
      BY DEF TInit, ColumnWatched, RowWatched
    <2>5. QED BY <2>2, <2>3, <2>4 DEF TInv
  <1>2. TInv /\ [TNext]_tvars => TInv'
    BY TerminalPreserves
  <1>3. QED BY <1>1, <1>2, PTL DEF TSpec

(* Type correctness, with the bound of input_buffer.                       *)
THEOREM TerminalTypeCorrect ==
    ASSUME TerminalAssumption
    PROVE  TSpec => []TTypeOK
  <1>1. TInv => TTypeOK
    BY DEF TInv
  <1>2. QED BY <1>1, TerminalInvariance, PTL

(* However the calls of any number of tasks and the handlers interleave,   *)
(* the cursor is on the screen when all of them have returned, as long as  *)
(* no cell outside the buffer was written.                                 *)
THEOREM CursorCorrect ==
    ASSUME TerminalAssumption
    PROVE  TSpec => []CursorInside
  <1>1. TInv => CursorInside
    BY DEF TInv, TTypeOK, ColumnWatched, RowWatched, CursorInside, Quiet
  <1>2. QED BY <1>1, TerminalInvariance, PTL
=============================================================================
