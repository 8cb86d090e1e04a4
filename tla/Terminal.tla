------------------------------ MODULE Terminal ------------------------------
(***************************************************************************)
(* The text terminal: terminal/terminal.c as the tasks of the kernel       *)
(* (kprintf, terminal_write) and the interrupt handlers (the keyboard, and *)
(* whatever else prints) use it, without any lock.                         *)
(*                                                                         *)
(* A task is interrupted, or preempted for another one, between any two    *)
(* accesses to the cursor; a handler runs to its end.  An increment of the *)
(* cursor is a load and a store, and what follows an access is done with   *)
(* the variable or with the value in the register, as the compiler likes.  *)
(* The copy of the rows in terminal_scroll is one step, since nothing here *)
(* is about what cells hold.  Colours and the drawing are left out.        *)
(***************************************************************************)
EXTENDS Naturals

CONSTANTS
    Tasks,              \* tasks that print
    Irq,                \* the context of interrupt handlers
    Chars,              \* printable characters
    TERM_ROWS, TERM_COLS, INPUT_BUFFER_SIZE

(* What the theorems suppose of the constants: a screen that is not empty. *)
TerminalAssumption ==
    /\ Irq \notin Tasks
    /\ {TERM_ROWS, TERM_COLS, INPUT_BUFFER_SIZE} \subseteq Nat \ {0}

Contexts == Tasks \cup {Irq}
Blank == " "
Newline == "\n"

VARIABLES
    cursor_row, cursor_col,
    cells,          \* terminal_buffer, row by row
    input_length,   \* of input_buffer, what it holds is left out
    at,             \* at[x]: where context x is in terminal_putchar
    reg,            \* reg[x]: the register of its increment or test
    char,           \* char[x]: its argument
    stray           \* history: a cell outside terminal_buffer was written,
                    \* over statics that lie next to it, the cursor maybe
                    \* among them.  What follows is open: the model ends.

tvars == <<cursor_row, cursor_col, cells, input_length, at, reg, char, stray>>

Index(row, col) == row * TERM_COLS + col
Cells == 0..(TERM_ROWS * TERM_COLS - 1)

(* terminal_buffer[row][col].character = c, wherever that is.              *)
Put(row, col, c) ==
    /\ stray' = (Index(row, col) \notin Cells)
    /\ cells' = [k \in Cells |-> IF k = Index(row, col) THEN c ELSE cells[k]]

Empty == [k \in Cells |-> Blank]

TInit ==
    /\ cursor_row = 0 /\ cursor_col = 0
    /\ cells = Empty
    /\ input_length = 0
    /\ at = [x \in Contexts |-> "idle"]
    /\ reg = [x \in Contexts |-> 0]
    /\ char = [x \in Contexts |-> Blank]
    /\ stray = FALSE

Quiet == \A x \in Contexts : at[x] = "idle"

(* A handler that has begun is alone.                                      *)
MayStep(x) == x = Irq \/ at[Irq] = "idle"

Go(x, label) == at' = [at EXCEPT ![x] = label]

(* terminal_putchar returns; its registers mean nothing any more.          *)
Return(x) ==
    /\ Go(x, "idle")
    /\ reg' = [reg EXCEPT ![x] = 0]
    /\ char' = [char EXCEPT ![x] = Blank]

-----------------------------------------------------------------------------
Scrolled == [k \in Cells |-> IF k + TERM_COLS \in Cells THEN cells[k + TERM_COLS] ELSE Blank]

(* terminal_scroll: the rows, and then one half of the cursor after the    *)
(* other.                                                                  *)
terminal_scroll(x) ==
    /\ MayStep(x)
    /\ \/ /\ at[x] = "scroll"
          /\ cells' = Scrolled
          /\ Go(x, "scroll_row")
          /\ UNCHANGED <<cursor_row, cursor_col, reg, char>>
       \/ /\ at[x] = "scroll_row"
          /\ cursor_row' = TERM_ROWS - 1
          /\ Go(x, "scroll_col")
          /\ UNCHANGED <<cursor_col, cells, reg, char>>
       \/ /\ at[x] = "scroll_col"
          /\ cursor_col' = 0
          /\ Return(x)
          /\ UNCHANGED <<cursor_row, cells>>
    /\ UNCHANGED <<input_length, stray>>

terminal_init ==
    /\ Quiet
    /\ cursor_row' = 0 /\ cursor_col' = 0
    /\ cells' = Empty
    /\ UNCHANGED <<input_length, at, reg, char, stray>>

(* terminal_putchar(c) is called.                                          *)
Begin(x, c) ==
    /\ MayStep(x)
    /\ at[x] = "idle"
    /\ char' = [char EXCEPT ![x] = c]
    /\ Go(x, IF c = Newline THEN "newline" ELSE "check")

terminal_putchar(x, c) ==
    /\ Begin(x, c)
    /\ UNCHANGED <<cursor_row, cursor_col, cells, input_length, reg, stray>>

newline(x) ==
    /\ MayStep(x)
    /\ at[x] = "newline"
    /\ cursor_col' = 0
    /\ Go(x, "row_load")
    /\ UNCHANGED <<cursor_row, cells, input_length, reg, char, stray>>

(* A cursor below the last row: the character is dropped.                  *)
check(x) ==
    /\ MayStep(x)
    /\ at[x] = "check"
    /\ \/ cursor_row >= TERM_ROWS /\ Go(x, "scroll")
       \/ cursor_row < TERM_ROWS /\ Go(x, "cell")
    /\ reg' = [reg EXCEPT ![x] = cursor_row]
    /\ UNCHANGED <<cursor_row, cursor_col, cells, input_length, char, stray>>

cell(x) ==
    /\ MayStep(x)
    /\ at[x] = "cell"
    /\ \E row \in {cursor_row, reg[x]} : Put(row, cursor_col, char[x])
    /\ Go(x, "col_load")
    /\ UNCHANGED <<cursor_row, cursor_col, input_length, reg, char>>

load(x) ==
    /\ MayStep(x)
    /\ \/ /\ at[x] = "col_load"
          /\ reg' = [reg EXCEPT ![x] = cursor_col + 1]
          /\ Go(x, "col_store")
       \/ /\ at[x] = "row_load"
          /\ reg' = [reg EXCEPT ![x] = cursor_row + 1]
          /\ Go(x, "row_store")
    /\ UNCHANGED <<cursor_row, cursor_col, cells, input_length, char, stray>>

store(x) ==
    /\ MayStep(x)
    /\ \/ /\ at[x] = "col_store"
          /\ cursor_col' = reg[x]
          /\ Go(x, "wrap")
          /\ UNCHANGED cursor_row
       \/ /\ at[x] = "row_store"
          /\ cursor_row' = reg[x]
          /\ Go(x, "full")
          /\ UNCHANGED cursor_col
    /\ UNCHANGED <<cells, input_length, reg, char, stray>>

Wraps(col) == col >= TERM_COLS

wrap(x) ==
    /\ MayStep(x)
    /\ at[x] = "wrap"
    /\ \E col \in {cursor_col, reg[x]} :
          \/ /\ Wraps(col)
             /\ cursor_col' = 0
             /\ Go(x, "row_load")
             /\ UNCHANGED <<reg, char>>
          \/ /\ ~Wraps(col)
             /\ Return(x)
             /\ UNCHANGED cursor_col
    /\ UNCHANGED <<cursor_row, cells, input_length, stray>>

Full(row) == row >= TERM_ROWS

full(x) ==
    /\ MayStep(x)
    /\ at[x] = "full"
    /\ \E row \in {cursor_row, reg[x]} :
          \/ Full(row) /\ Go(x, "scroll") /\ UNCHANGED <<reg, char>>
          \/ ~Full(row) /\ Return(x)
    /\ UNCHANGED <<cursor_row, cursor_col, cells, input_length, stray>>

-----------------------------------------------------------------------------
(* The keyboard *)

InputFull == input_length >= INPUT_BUFFER_SIZE - 1

(* keyboard_handler with a key that has a character: terminal_handle_key.  *)
(* When the input is full, and nothing ever empties it, the key is lost.   *)
terminal_handle_key(c) ==
    /\ ~InputFull
    /\ Begin(Irq, c)
    /\ input_length' = input_length + 1
    /\ UNCHANGED <<cursor_row, cursor_col, cells, reg, stray>>

(* keyboard_handler with '\b': the character stays in input_buffer.        *)
terminal_backspace ==
    LET row == IF cursor_col = 0 THEN cursor_row - 1 ELSE cursor_row
        col == IF cursor_col = 0 THEN TERM_COLS - 1 ELSE cursor_col - 1
    IN  /\ at[Irq] = "idle"
        /\ cursor_row # 0 \/ cursor_col # 0
        /\ cursor_row' = row
        /\ cursor_col' = col
        /\ Put(row, col, Blank)
        /\ UNCHANGED <<input_length, at, reg, char>>

Putchar(x) ==
    \/ newline(x) \/ check(x) \/ cell(x) \/ load(x) \/ store(x) \/ wrap(x) \/ full(x)
    \/ terminal_scroll(x)

TNext ==
    /\ ~stray
    /\ \/ terminal_init
       \/ \E x \in Contexts : \E c \in Chars \cup {Newline} : terminal_putchar(x, c)
       \/ \E x \in Contexts : Putchar(x)
       \/ \E c \in Chars \cup {Newline} : terminal_handle_key(c)
       \/ terminal_backspace

TSpec == TInit /\ [][TNext]_tvars

-----------------------------------------------------------------------------
(* Properties *)

(* Every variable has its type; input_buffer has room for its '\0'.        *)
TTypeOK ==
    /\ cursor_row \in Nat /\ cursor_col \in Nat
    /\ cells \in [Cells -> Chars \cup {Blank}]
    /\ input_length \in 0..(INPUT_BUFFER_SIZE - 1)
    /\ at \in [Contexts -> {"idle", "newline", "check", "cell", "col_load", "col_store",
                            "wrap", "row_load", "row_store", "full",
                            "scroll", "scroll_row", "scroll_col"}]
    /\ reg \in [Contexts -> Nat]
    /\ stray \in BOOLEAN

(* However the calls of tasks and handlers interleave, and whatever they   *)
(* overwrite of each other's cursor: as long as no cell outside the buffer *)
(* was written, the cursor is on the screen when all have returned.        *)
CursorInside ==
    Quiet /\ ~stray => cursor_row < TERM_ROWS /\ cursor_col < TERM_COLS
=============================================================================
