----------------------------- MODULE FileSystem -----------------------------
(***************************************************************************)
(* The file system: the tree of ramfs (fs/ramfs.c), the lookup of paths    *)
(* and the root mount (fs/vfs.c), open files (fs/file.c), the descriptors  *)
(* of each process (fs/fd.c) and the calls that use them (fs/sys_file.c).  *)
(*                                                                         *)
(* A path is the sequence of its components.                               *)
(* nodes and files are the ramfs_node_t and file_t objects on the heap, by *)
(* number; a kmalloc is one step and may fail.                             *)
(*                                                                         *)
(* The tree is made by kmain, before any other task runs, and a table of   *)
(* descriptors is used by its own process only: those calls are one step.  *)
(* Reads and writes share the nodes and are interrupted by a tick between  *)
(* any two accesses.  Of what a node points to they load data once, as the *)
(* code compiled with -O2 does.                                            *)
(***************************************************************************)
EXTENDS Naturals, Sequences, FiniteSets

CONSTANTS
    Procs,                  \* processes
    Names,                  \* names of directory entries
    Buffers,                \* what callers write, 16 bytes (one unit of the
                            \* heap) as one element
    ReadSizes,              \* sizes callers read
    FD_MAX, RAMFS_MAX_CHILDREN,
    MaxDepth,               \* bounds of the model: components of a path,
    MaxNodes, MaxFiles,     \* objects of each kind, blocks of memory
    MaxBlocks,              \* allocated for one node
    NULL

Bytes == UNION {{b[i] : i \in DOMAIN b} : b \in Buffers}

ASSUME FileSystemAssumption ==
    /\ {FD_MAX, RAMFS_MAX_CHILDREN, MaxDepth, MaxNodes, MaxFiles, MaxBlocks} \subseteq Nat
    /\ ReadSizes \subseteq Nat
    /\ Buffers \subseteq Seq(Bytes)
    /\ NULL \notin Nat

VARIABLES
    nodes,          \* the ramfs nodes, number 0 is ramfs_root
    root,           \* vfs_get_root(): 0, or NULL before the mount
    files,          \* the node of each file_t; its position is set by reads
                    \* and writes but read by nothing, and left out
    fd_table,       \* fd_table[p][fd]: number of a file, or NULL
    mem,            \* mem[n]: the blocks kmalloc has given for node n, each a
                    \* sequence of units, NULL where nothing was written
    call,           \* the read or write each process is in
    overrun,        \* history: a write went past the end of its block, over
                    \* the header of the next one.  What the heap and every
                    \* file hold from there on is open, and the model ends.
    written,        \* history: what was last written to each node, NULL if
                    \* several writes overlapped
    got             \* what the last step gave a caller, if it was a read

vars == <<nodes, root, files, fd_table, mem, call, overrun, written, got>>

Fds == 0..(FD_MAX - 1)
Paths == UNION {[1..n -> Names] : n \in 0..MaxDepth}

(* data is the number of a block of mem; capacity is read by nothing.      *)
NewNode(name, type, parent) ==
    [name |-> name, type |-> type, parent |-> parent, children |-> <<>>,
     data |-> NULL, size |-> 0]

Idle == [step |-> "idle"]

Least(S) == CHOOSE x \in S : \A y \in S : x <= y

-----------------------------------------------------------------------------
(* Lookup *)

(* The first child of that name, or NULL. *)
ramfs_lookup(dir, name) ==
    LET hits == {i \in DOMAIN nodes[dir].children :
                    nodes[nodes[dir].children[i]].name = name}
    IN  IF hits = {} THEN NULL ELSE nodes[dir].children[Least(hits)]

(* The node where the path leads, NULL if there is none.  Every node has   *)
(* the lookup of ramfs; that of a file finds nothing.                      *)
vfs_lookup(path) ==
    LET at[k \in 0..Len(path)] ==
            IF k = 0 THEN root
            ELSE IF at[k - 1] = NULL THEN NULL ELSE ramfs_lookup(at[k - 1], path[k])
    IN  at[Len(path)]

-----------------------------------------------------------------------------
(* The root, with nothing in it *)
ramfs_mount == [n \in {0} |-> NewNode(NULL, "directory", NULL)]

Init ==
    /\ nodes = ramfs_mount
    /\ root = NULL
    /\ files = <<>>
    /\ fd_table = [p \in Procs |-> [fd \in Fds |-> NULL]]
    /\ mem = [n \in {0} |-> <<>>]
    /\ call = [p \in Procs |-> Idle]
    /\ overrun = FALSE
    /\ written = [n \in {0} |-> <<>>]
    /\ got = NULL

(* vfs_mount of ramfs at the root, once.                                   *)
vfs_mount ==
    /\ root = NULL
    /\ root' = 0
    /\ nodes' = ramfs_mount
    /\ got' = NULL
    /\ UNCHANGED <<files, fd_table, mem, call, overrun, written>>

(* Mutant: a name that exists is accepted.                                 *)
Taken_never(dir, name) == FALSE

(* KERNEL_EEXIST *)
Taken(dir, name) == ramfs_lookup(dir, name) # NULL

DirFull(dir) == Len(nodes[dir].children) >= RAMFS_MAX_CHILDREN

(* ramfs_mkdir and ramfs_create, in a directory that was looked up *)
AddNode(dir, name, type) ==
    LET new == Cardinality(DOMAIN nodes) IN
    /\ \A p \in Procs : call[p].step = "idle"
    /\ nodes[dir].type = "directory"
    /\ ~Taken(dir, name)
    /\ ~DirFull(dir)
    /\ new < MaxNodes
    /\ nodes' = [n \in DOMAIN nodes \cup {new} |->
                    IF n = new THEN NewNode(name, type, dir)
                    ELSE IF n = dir
                    THEN [nodes[dir] EXCEPT !.children = Append(@, new)]
                    ELSE nodes[n]]
    /\ mem' = [n \in DOMAIN nodes \cup {new} |-> IF n = new THEN <<>> ELSE mem[n]]
    /\ written' = [n \in DOMAIN nodes \cup {new} |-> IF n = new THEN <<>> ELSE written[n]]
    /\ got' = NULL
    /\ UNCHANGED <<root, files, fd_table, call, overrun>>

ramfs_mkdir(dir, name) == AddNode(dir, name, "directory")
ramfs_create(dir, name) == AddNode(dir, name, "file")

(* Mutant: descriptor 0 is given out whatever it holds.                    *)
fd_allocate_first(p, f) == [fd_table EXCEPT ![p][0] = f]

(* The table after fd_allocate: the lowest free descriptor, or, if there   *)
(* is none, no change.                                                     *)
fd_allocate(p, f) ==
    LET unused == {fd \in Fds : fd_table[p][fd] = NULL}
    IN  IF unused = {} THEN fd_table ELSE [fd_table EXCEPT ![p][Least(unused)] = f]

(* vfs_open and file_open: a new file for the node of the path.            *)
vfs_open(path) == Append(files, vfs_lookup(path))

(* sys_open of a path that exists: the file gets a descriptor, or is never *)
(* heard of again if all are in use.                                       *)
sys_open(p, path) ==
    /\ call[p].step = "idle"
    /\ vfs_lookup(path) # NULL
    /\ Len(files) < MaxFiles
    /\ files' = vfs_open(path)
    /\ fd_table' = fd_allocate(p, Len(files) + 1)
    /\ got' = NULL
    /\ UNCHANGED <<nodes, root, mem, call, overrun, written>>

(* sys_close: fd_close, which leaves the file_t as it is.                  *)
sys_close(p, fd) ==
    /\ call[p].step = "idle"
    /\ fd_table[p][fd] # NULL
    /\ fd_table' = [fd_table EXCEPT ![p][fd] = NULL]
    /\ got' = NULL
    /\ UNCHANGED <<nodes, root, files, mem, call, overrun, written>>

NodeOf(p, fd) == files[fd_table[p][fd]]

IsFile(p, fd) == fd_table[p][fd] # NULL /\ nodes[NodeOf(p, fd)].type = "file"

-----------------------------------------------------------------------------
(* Reads and writes, one access to what they share at a time *)

Lesser(a, b) == IF a <= b THEN a ELSE b

WriteSteps == {"alloc", "copy"}

(* No process is in a write to node n.                                     *)
Alone(n) == \A q \in Procs : call[q].step \in WriteSteps => call[q].node # n

(* A call of ramfs_write or ramfs_read at node n, and its next step: block *)
(* is the pointer it has loaded, buffer what it writes or has read so far, *)
(* done the units copied.  clean: no write has overlapped it.              *)
NewCall(step, n, buffer, size) ==
    [step |-> step, node |-> n, block |-> nodes[n].data, buffer |-> buffer,
     asked |-> size, size |-> size, done |-> 0, clean |-> Alone(n)]

(* Process p enters call c; if that is a write, it overlaps the calls at   *)
(* the same node.                                                          *)
Overlaps(c, q) == c.step \in WriteSteps /\ call[q].step # "idle" /\ call[q].node = c.node

Enter(p, c) ==
    call' = [q \in Procs |-> IF q = p THEN c
                             ELSE IF Overlaps(c, q) THEN [call[q] EXCEPT !.clean = FALSE]
                             ELSE call[q]]

(* sys_write through vfs_write to ramfs_write, which loads data.           *)
sys_write(p, fd, buffer) ==
    LET n == NodeOf(p, fd)
        step == IF nodes[n].data = NULL THEN "alloc" ELSE "copy"
    IN  /\ call[p].step = "idle"
        /\ IsFile(p, fd)
        /\ Enter(p, NewCall(step, n, buffer, Len(buffer)))
        /\ got' = NULL
        /\ UNCHANGED <<nodes, root, files, fd_table, mem, overrun, written>>

(* node->data = kmalloc(size), whoever else has set it meanwhile.          *)
write_alloc(p) ==
    LET c == call[p] IN
    /\ c.step = "alloc"
    /\ c.buffer # <<>>
    /\ Len(mem[c.node]) < MaxBlocks
    /\ mem' = [mem EXCEPT ![c.node] = Append(@, [i \in 1..Len(c.buffer) |-> NULL])]
    /\ nodes' = [nodes EXCEPT ![c.node].data = Len(mem[c.node]) + 1]
    /\ call' = [call EXCEPT ![p].step = "copy", ![p].block = Len(mem[c.node]) + 1]
    /\ got' = NULL
    /\ UNCHANGED <<root, files, fd_table, overrun, written>>

(* kmalloc gives NULL, as it does for size 0: KERNEL_ENOMEM.               *)
write_enomem(p) ==
    LET c == call[p] IN
    /\ c.step = "alloc"
    /\ nodes' = [nodes EXCEPT ![c.node].data = NULL]
    /\ written' = [written EXCEPT ![c.node] = IF c.clean THEN @ ELSE NULL]
    /\ call' = [call EXCEPT ![p] = Idle]
    /\ got' = NULL
    /\ UNCHANGED <<root, files, fd_table, mem, overrun>>

(* One step of k_memcpy(node->data, buffer, size): always from the start   *)
(* of the block, without a test of its size.                               *)
write_copy(p) ==
    LET c == call[p]
        i == c.done + 1
        past == i > Len(mem[c.node][c.block])
    IN  /\ c.step = "copy"
        /\ c.done < c.size
        /\ overrun' = past
        /\ mem' = IF past THEN mem ELSE [mem EXCEPT ![c.node][c.block][i] = c.buffer[i]]
        /\ call' = [call EXCEPT ![p].done = i]
        /\ got' = NULL
        /\ UNCHANGED <<nodes, root, files, fd_table, written>>

(* node->vnode.size = size, and the return.                                *)
write_size(p) ==
    LET c == call[p] IN
    /\ c.step = "copy"
    /\ c.done = c.size
    /\ nodes' = [nodes EXCEPT ![c.node].size = c.size]
    /\ written' = [written EXCEPT ![c.node] = IF c.clean THEN c.buffer ELSE NULL]
    /\ call' = [call EXCEPT ![p] = Idle]
    /\ got' = NULL
    /\ UNCHANGED <<root, files, fd_table, mem, overrun>>

(* sys_read through vfs_read to ramfs_read, which loads data.  A file      *)
(* without data returns KERNEL_SUCCESS, that is no bytes.                  *)
sys_read(p, fd, size) ==
    LET n == NodeOf(p, fd) IN
    /\ call[p].step = "idle"
    /\ IsFile(p, fd)
    /\ \/ /\ nodes[n].data = NULL
          /\ got' = [node |-> n, asked |-> size, clean |-> Alone(n), bytes |-> <<>>]
          /\ call' = call
       \/ /\ nodes[n].data # NULL
          /\ got' = NULL
          /\ Enter(p, NewCall("limit", n, <<>>, size))
    /\ UNCHANGED <<nodes, root, files, fd_table, mem, overrun, written>>

(* Mutant: what an earlier, longer write has left is read, too.            *)
Readable_all(n) == IF nodes[n].data = NULL THEN 0 ELSE Len(mem[n][nodes[n].data])

(* bytes are limited by the size of the node *)
Readable(n) == nodes[n].size

read_limit(p) ==
    LET c == call[p] IN
    /\ c.step = "limit"
    /\ call' = [call EXCEPT ![p].step = "read", ![p].size = Lesser(c.size, Readable(c.node))]
    /\ got' = NULL
    /\ UNCHANGED <<nodes, root, files, fd_table, mem, overrun, written>>

(* One step of k_memcpy(buffer, node->data, bytes); from behind the block  *)
(* comes whatever the heap has there.                                      *)
read_copy(p) ==
    LET c == call[p]
        i == c.done + 1
        block == mem[c.node][c.block]
    IN  /\ c.step = "read"
        /\ c.done < c.size
        /\ call' = [call EXCEPT ![p].done = i,
                                ![p].buffer = Append(@, IF i <= Len(block) THEN block[i] ELSE NULL)]
        /\ got' = NULL
        /\ UNCHANGED <<nodes, root, files, fd_table, mem, overrun, written>>

read_return(p) ==
    LET c == call[p] IN
    /\ c.step = "read"
    /\ c.done = c.size
    /\ got' = [node |-> c.node, asked |-> c.asked, clean |-> c.clean, bytes |-> c.buffer]
    /\ call' = [call EXCEPT ![p] = Idle]
    /\ UNCHANGED <<nodes, root, files, fd_table, mem, overrun, written>>

ramfs_write(p) == write_alloc(p) \/ write_enomem(p) \/ write_copy(p) \/ write_size(p)
ramfs_read(p) == read_limit(p) \/ read_copy(p) \/ read_return(p)

Operation ==
    \/ vfs_mount
    \/ \E dir \in DOMAIN nodes : \E name \in Names :
          root # NULL /\ (ramfs_mkdir(dir, name) \/ ramfs_create(dir, name))
    \/ \E p \in Procs :
          \/ \E path \in Paths : sys_open(p, path)
          \/ \E fd \in Fds :
                \/ sys_close(p, fd)
                \/ \E buffer \in Buffers : sys_write(p, fd, buffer)
                \/ \E size \in ReadSizes : sys_read(p, fd, size)
          \/ ramfs_write(p)
          \/ ramfs_read(p)

Next == ~overrun /\ Operation

Spec == Init /\ [][Next]_vars

-----------------------------------------------------------------------------
(* Properties *)

(* The path of a node, from its parents.                                   *)
PathOf(n) ==
    LET up[k \in 0..Cardinality(DOMAIN nodes)] ==     \* <<node, path below it>>
            IF k = 0 THEN <<n, <<>>>>
            ELSE IF nodes[up[k - 1][1]].parent = NULL THEN up[k - 1]
            ELSE <<nodes[up[k - 1][1]].parent, <<nodes[up[k - 1][1]].name>> \o up[k - 1][2]>>
    IN  up[Cardinality(DOMAIN nodes)][2]

(* vfs_lookup and the parent links agree: the path that leads up from a    *)
(* node is the path that finds it, and so no entry hides another and       *)
(* nothing is unreachable.                                                 *)
PathsResolve ==
    root # NULL => \A n \in DOMAIN nodes : vfs_lookup(PathOf(n)) = n

(* A descriptor stays what it was opened for: until its own process closes *)
(* it, it is the same file at the same node, whatever the processes open,  *)
(* close and create meanwhile.  fd_allocate takes only free slots and a    *)
(* slot is reused only after fd_close.                                     *)
DescriptorsKept ==
    [][\A p \in Procs, fd \in Fds :
          fd_table[p][fd] # NULL =>
             \/ /\ fd_table'[p][fd] = fd_table[p][fd]
                /\ files'[fd_table[p][fd]] = files[fd_table[p][fd]]
             \/ fd_table' = [fd_table EXCEPT ![p][fd] = NULL]]_vars

(* A read that no write overlaps, after writes none of which overlapped    *)
(* another or went past its block, gives what was last written to that     *)
(* node, by any process and through any descriptor: from the first unit    *)
(* and as many as were asked for, none of an earlier and longer write.     *)
ReadBack ==
    [][got' # NULL /\ got'.clean /\ written[got'.node] # NULL =>
          LET w == written[got'.node]
          IN  got'.bytes = SubSeq(w, 1, Lesser(got'.asked, Len(w)))]_vars
=============================================================================
