---------------------------- MODULE ProcessLoad ----------------------------
(***************************************************************************)
(* Loading a program into a process: process_exec_file, process_exec and   *)
(* process_map_segment (process/), with elf_validate and elf_load_image    *)
(* (elf/).  Only kmain calls process_exec_file, before there is a current  *)
(* task, so no interrupt switches away from it: one call is under way at a *)
(* time.  A step is a call into the file system, the heap or the loader,   *)
(* one round of the loop of process_map_segment, or a part of process_exec *)
(* between two points where it may fail.                                   *)
(*                                                                         *)
(* Pages of user memory are numbered by address \div PAGE_SIZE, page       *)
(* tables are what AddressSpaces promises, and physical pages come from a  *)
(* pool; nothing gives one back once it is mapped.                         *)
(***************************************************************************)
EXTENDS Integers, Sequences, FiniteSets

CONSTANTS
    Procs, Frames,
    Pages,              \* user pages a program may use
    Programs,           \* what a path may lead to: see ProgramOK
    PAGE_SIZE,
    EXEC_BUFFER_SIZE,   \* bytes process_exec_file reads of the file at most
    RegionPages,        \* pages of one table of the last level
    NONE                \* the null pointer: a page, image or file not there

(* A directory, or a program: whether its header is valid, its entry       *)
(* point, the bytes of the file and the program headers.  Segments start   *)
(* anywhere and may share pages; of those that are loaded it is assumed,   *)
(* and not tested by the code, that they have no more bytes in the file    *)
(* than in memory and stay among the pages of user programs.               *)
Loads(prog) == {i \in DOMAIN prog.ph : prog.ph[i].type = "PT_LOAD"}

PageCount(ph) == (ph.memsz + PAGE_SIZE - 1) \div PAGE_SIZE

PagesOf(ph) == {ph.vaddr \div PAGE_SIZE + i : i \in 0..(PageCount(ph) - 1)}

ProgramOK(prog) ==
    /\ prog.ph \in Seq([type : STRING, offset : Nat, vaddr : Nat, filesz : Nat, memsz : Nat])
    /\ \A i \in Loads(prog) :
          PagesOf(prog.ph[i]) \subseteq Pages /\ prog.ph[i].filesz <= prog.ph[i].memsz

ASSUME ProcessLoadAssumption ==
    /\ IsFiniteSet(Frames) /\ Pages \subseteq Nat
    /\ PAGE_SIZE \in Nat \ {0} /\ RegionPages \in Nat \ {0} /\ EXEC_BUFFER_SIZE \in Nat
    /\ \A prog \in Programs : prog.valid => ProgramOK(prog)
    /\ NONE \notin Frames

VARIABLES
    unused,         \* free pages of the page allocator
    memory,         \* memory[f][i]: byte i of a physical page
    mapped,         \* mapped[p][page]: physical page, or NONE
    call,           \* the call of process_exec_file for p: where it is, and
                    \* its locals
    owned,          \* what the call has from the heap: file, buffer, image;
                    \* and "lost" if a block of an image has no owner any more
    process         \* fields of p: image, user_rip, is_user_process, and as
                    \* history the program they are of

lvars == <<unused, memory, mapped, call, owned, process>>

Garbage == -1       \* a byte nobody has written

Idle == [at |-> "idle", prog |-> NONE, image |-> NONE, seg |-> 0, i |-> 0]

LInit ==
    /\ unused = Frames
    /\ memory = [f \in Frames |-> [i \in 0..(PAGE_SIZE - 1) |-> Garbage]]
    /\ mapped = [p \in Procs |-> [page \in Pages |-> NONE]]
    /\ call = [p \in Procs |-> Idle]
    /\ owned = [p \in Procs |-> {}]
    /\ process = [p \in Procs |-> [image |-> NONE, user_rip |-> NONE, is_user |-> FALSE, prog |-> NONE]]

(* An image the call of has still holds when it returns is lost.           *)
Lost(has) == IF "image" \in has THEN {"lost"} ELSE {}

(* Mutant: an error is returned with the file still open.                  *)
Return_open(p) ==
    /\ call' = [call EXCEPT ![p] = Idle]
    /\ owned' = [owned EXCEPT ![p] = (@ \ {"buffer", "image"}) \cup Lost(@)]

(* process_exec_file returns: kfree(buffer) and file_close(file).  Nobody  *)
(* frees the image of a call that fails.                                   *)
Return(p) ==
    /\ call' = [call EXCEPT ![p] = Idle]
    /\ owned' = [owned EXCEPT ![p] = (@ \ {"buffer", "file", "image"}) \cup Lost(@)]

GoTo(p, at) == call' = [call EXCEPT ![p].at = at]

-----------------------------------------------------------------------------
(* process_exec_file *)

(* vfs_open of a path that leads to prog.  A program is loaded once; after *)
(* a failure it may be tried again.                                        *)
exec_open(p, prog) ==
    /\ \A q \in Procs : call[q].at = "idle"
    /\ ~process[p].is_user
    /\ call' = [call EXCEPT ![p] = [Idle EXCEPT !.at = "opened", !.prog = prog]]
    /\ owned' = [owned EXCEPT ![p] = @ \cup {"file"}]
    /\ UNCHANGED <<unused, memory, mapped, process>>

exec_buffer(p) ==
    /\ call[p].at = "opened"
    /\ GoTo(p, "buffer")
    /\ owned' = [owned EXCEPT ![p] = @ \cup {"buffer"}]
    /\ UNCHANGED <<unused, memory, mapped, process>>

exec_no_buffer(p) ==
    /\ call[p].at = "opened"
    /\ call' = [call EXCEPT ![p] = Idle]
    /\ owned' = [owned EXCEPT ![p] = @ \ {"file"}]
    /\ UNCHANGED <<unused, memory, mapped, process>>

(* vfs_read of a directory is negative; of a file Buffer tells what it     *)
(* leaves in the buffer.                                                   *)
exec_read(p) ==
    /\ call[p].at = "buffer"
    /\ IF call[p].prog.directory THEN Return(p)
       ELSE GoTo(p, "read") /\ UNCHANGED owned
    /\ UNCHANGED <<unused, memory, mapped, process>>

-----------------------------------------------------------------------------
(* elf_load_image *)

FileByte(prog, o) == IF o < Len(prog.bytes) THEN prog.bytes[o + 1] ELSE 0

(* The byte at offset o from the buffer: the file as far as it was read,   *)
(* zeroes behind a short file, and behind the buffer what the heap has     *)
(* there.  No offset of a program header is compared with either end.      *)
Buffer(prog, o) == IF o < EXEC_BUFFER_SIZE THEN FileByte(prog, o) ELSE Garbage

MinOf(S) == CHOOSE x \in S : \A y \in S : x <= y
MaxOf(S) == CHOOSE x \in S : \A y \in S : x >= y

(* Mutant: the first segment is taken for the lowest.                      *)
Lowest_first(prog) == prog.ph[MinOf(Loads(prog))].vaddr

Lowest(prog) == MinOf({prog.ph[i].vaddr : i \in Loads(prog)})
Highest(prog) == MaxOf({prog.ph[i].vaddr + prog.ph[i].memsz : i \in Loads(prog)})

(* The copy at loaded->base, from the lowest to the highest address: the   *)
(* bytes of the file, zeroes up to memsz, a later segment over an earlier  *)
(* one, and where no segment is whatever the heap had there.               *)
ImageOf(prog) ==
    IF Loads(prog) = {} THEN [image_base |-> 0, base |-> NONE]
    ELSE [image_base |-> Lowest(prog),
          base |-> [o \in 0..(Highest(prog) - Lowest(prog) - 1) |->
             LET in == {i \in Loads(prog) :
                          o - (prog.ph[i].vaddr - Lowest(prog)) \in 0..(prog.ph[i].memsz - 1)}
             IN  IF in = {} THEN Garbage
                 ELSE LET ph == prog.ph[MaxOf(in)]
                          k == o - (ph.vaddr - Lowest(prog))
                      IN  IF k < ph.filesz THEN Buffer(prog, ph.offset + k) ELSE 0]]

(* elf_validate fails, or kmalloc has no memory for the image, which it    *)
(* never has for one of no bytes.                                          *)
load_fails(p) ==
    /\ call[p].at = "read"
    /\ ~call[p].prog.valid \/ Loads(call[p].prog) # {}
    /\ Return(p)
    /\ UNCHANGED <<unused, memory, mapped, process>>

elf_load_image(p) ==
    LET prog == call[p].prog IN
    /\ call[p].at = "read"
    /\ prog.valid
    /\ Loads(prog) # {} => Highest(prog) # Lowest(prog)
    /\ call' = [call EXCEPT ![p] = [@ EXCEPT !.at = "map", !.seg = 1, !.image = ImageOf(prog)]]
    /\ owned' = [owned EXCEPT ![p] = IF Loads(prog) # {} THEN @ \cup {"image"} ELSE @]
    /\ UNCHANGED <<unused, memory, mapped, process>>

-----------------------------------------------------------------------------
(* process_map_segment and the loop over the program headers *)

Segment(p) == call[p].prog.ph[call[p].seg]

InSegments(p) == call[p].at = "map" /\ call[p].seg <= Len(call[p].prog.ph)

InPages(p) == InSegments(p) /\ Segment(p).type = "PT_LOAD" /\ call[p].i < PageCount(Segment(p))

(* What is left of size at offset, at most a page *)
Part(size, offset) ==
    IF offset >= size THEN 0
    ELSE IF size - offset > PAGE_SIZE THEN PAGE_SIZE ELSE size - offset

(* Mutant: every page gets the first bytes of the segment.                 *)
PageBytes_first(p, f) ==
    LET ph == Segment(p) IN
    [b \in 0..(PAGE_SIZE - 1) |->
        IF b < Part(ph.filesz, 0) THEN Buffer(call[p].prog, ph.offset + b)
        ELSE IF b < Part(ph.memsz, 0) THEN 0 ELSE memory[f][b]]

(* The contents of page i, from its first byte on wherever in the page     *)
(* p_vaddr is: copied, zeroed up to memsz, as found behind it.             *)
PageBytes(p, f) ==
    LET ph == Segment(p)
        offset == call[p].i * PAGE_SIZE
    IN  [b \in 0..(PAGE_SIZE - 1) |->
            IF b < Part(ph.filesz, offset) THEN Buffer(call[p].prog, ph.offset + offset + b)
            ELSE IF b < Part(ph.memsz, offset) THEN 0 ELSE memory[f][b]]

(* One round: a page, its mapping in place of what was mapped there, and   *)
(* its contents.                                                           *)
map_page(p, f) ==
    LET page == Segment(p).vaddr \div PAGE_SIZE + call[p].i IN
    /\ InPages(p)
    /\ f \in unused
    /\ unused' = unused \ {f}
    /\ mapped' = [mapped EXCEPT ![p][page] = f]
    /\ memory' = [memory EXCEPT ![f] = PageBytes(p, f)]
    /\ call' = [call EXCEPT ![p].i = @ + 1]
    /\ UNCHANGED <<owned, process>>

(* No page, or none for the tables, and then the page is given back.       *)
map_page_fails(p) ==
    /\ InPages(p)
    /\ Return(p)
    /\ UNCHANGED <<unused, memory, mapped, process>>

next_segment(p) ==
    /\ InSegments(p)
    /\ ~InPages(p)
    /\ call' = [call EXCEPT ![p] = [@ EXCEPT !.seg = call[p].seg + 1, !.i = 0]]
    /\ UNCHANGED <<unused, memory, mapped, owned, process>>

(* page_walk finds an entry where a table of the last level is, mapped or  *)
(* not.                                                                    *)
HasEntry(p, page) ==
    \E other \in Pages : mapped[p][other] # NONE /\ other \div RegionPages = page \div RegionPages

(* All headers are done: image and user_rip are set, and an image that the *)
(* process had from a call that failed later than this is lost.            *)
exec_image(p) ==
    LET before == process[p].image IN
    /\ call[p].at = "map"
    /\ call[p].seg > Len(call[p].prog.ph)
    /\ process' = [process EXCEPT ![p] = [@ EXCEPT !.image = call[p].image, !.prog = call[p].prog,
                                                   !.user_rip = call[p].prog.entry]]
    /\ owned' = [owned EXCEPT ![p] = (@ \ {"image"}) \cup
                    IF before # NONE /\ before.base # NONE THEN {"lost"} ELSE {}]
    /\ GoTo(p, "entry")
    /\ UNCHANGED <<unused, memory, mapped>>

(* page_walk has no entry for user_rip: an error, with image and user_rip  *)
(* as they are.                                                            *)
exec_no_entry(p) ==
    /\ call[p].at = "entry"
    /\ ~HasEntry(p, process[p].user_rip \div PAGE_SIZE)
    /\ Return(p)
    /\ UNCHANGED <<unused, memory, mapped, process>>

(* The process becomes a user process.                                     *)
exec_user(p) ==
    /\ call[p].at = "entry"
    /\ HasEntry(p, process[p].user_rip \div PAGE_SIZE)
    /\ process' = [process EXCEPT ![p].is_user = TRUE]
    /\ Return(p)
    /\ UNCHANGED <<unused, memory, mapped>>

LNext ==
    \E p \in Procs :
        \/ \E prog \in Programs : exec_open(p, prog)
        \/ exec_buffer(p) \/ exec_no_buffer(p) \/ exec_read(p)
        \/ load_fails(p) \/ elf_load_image(p)
        \/ \E f \in Frames : map_page(p, f)
        \/ map_page_fails(p) \/ next_segment(p)
        \/ exec_image(p) \/ exec_no_entry(p) \/ exec_user(p)

LSpec == LInit /\ [][LNext]_lvars

-----------------------------------------------------------------------------
(* Properties *)

(* The byte a process reads at an address.                                 *)
UserByte(p, a) ==
    LET f == mapped[p][a \div PAGE_SIZE] IN
    IF f = NONE THEN "fault" ELSE memory[f][a % PAGE_SIZE]

(* Where process_map_segment starts to put a segment, its p_vaddr if that  *)
(* is the start of a page.                                                 *)
Start(ph) == (ph.vaddr \div PAGE_SIZE) * PAGE_SIZE

(* A later segment is mapped at the page of byte k of segment i.           *)
Replaced(prog, i, k) ==
    \E j \in Loads(prog) :
        j > i /\ prog.ph[i].vaddr \div PAGE_SIZE + k \div PAGE_SIZE \in PagesOf(prog.ph[j])

(* A later segment has the address of byte k of segment i.                 *)
Overlaid(prog, i, k) ==
    \E j \in Loads(prog) :
        j > i /\ (prog.ph[i].vaddr + k) - prog.ph[j].vaddr \in 0..(prog.ph[j].memsz - 1)

(* The byte was read from the file, or has none in the file.               *)
WasRead(ph, k) == k < ph.filesz => ph.offset + k < EXEC_BUFFER_SIZE

(* A process that is marked as a user process has its program in memory,   *)
(* whatever earlier attempts have left there.  For every byte of a segment *)
(* that was read, and whose page no later segment is mapped over: from the *)
(* start of the page of p_vaddr on there are the bytes of the file, and    *)
(* zeroes behind filesz.  user_rip is the entry of the same program.       *)
Loaded ==
    \A p \in Procs : process[p].is_user =>
        LET prog == process[p].prog IN
        /\ process[p].user_rip = prog.entry
        /\ \A i \in Loads(prog) : \A k \in 0..(prog.ph[i].memsz - 1) :
              WasRead(prog.ph[i], k) /\ ~Replaced(prog, i, k) =>
                  UserByte(p, Start(prog.ph[i]) + k) =
                      IF k < prog.ph[i].filesz THEN FileByte(prog, prog.ph[i].offset + k) ELSE 0

(* The two loaders agree on every byte of a segment that no later segment  *)
(* replaces in the page or overlays in the image: elf_load_image has left  *)
(* at p_vaddr what process_map_segment has put at the start of the page of *)
(* p_vaddr.  These are the same address exactly for segments that start at *)
(* a page; of others the program sees the pages only.                      *)
CopiesAgree ==
    \A p \in Procs : process[p].is_user =>
        LET prog == process[p].prog
            image == process[p].image
        IN  \A i \in Loads(prog) : \A k \in 0..(prog.ph[i].memsz - 1) :
                LET o == (prog.ph[i].vaddr + k) - image.image_base IN
                /\ o \in DOMAIN image.base
                /\ WasRead(prog.ph[i], k) /\ ~Replaced(prog, i, k) /\ ~Overlaid(prog, i, k) =>
                      image.base[o] = UserByte(p, Start(prog.ph[i]) + k)

(* On every path out of process_exec_file the buffer is freed and the file *)
(* closed.  What may be lost is an image elf_load_image has made.          *)
NothingHeld ==
    \A p \in Procs : call[p].at = "idle" => owned[p] \subseteq {"lost"}
=============================================================================
