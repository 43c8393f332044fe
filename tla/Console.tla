------------------------------ MODULE Console ------------------------------
(***************************************************************************)
(* The screen (sys/kprintf.c).  Text goes to the rows above LAST; when the *)
(* cursor comes to row LAST the rows move up by one.  The row below LAST   *)
(* is the clock's.  Output of the kernel and of programs (kprintf) and the *)
(* echo of keys (kprintf_kb) use one cursor, and they look at its row and  *)
(* at its column in opposite orders.                                       *)
(*                                                                         *)
(* A cell is a character and its colour, written together, so a column is  *)
(* x_pos / 2.  The colour, which only an erased cell changes, is left out. *)
(* What kprintf makes of a number is text of some length: numbers are left *)
(* out.  No caller uses %c.                                                *)
(***************************************************************************)
EXTENDS Integers, Sequences, SequencesExt

CONSTANTS COLS,          \* cells in a row: 80
          LAST,          \* the row where scrolling begins: 23
          CLOCK,         \* the column where the clock begins: 55
          MaxEvents,     \* bound: calls that print, clear included
          NUL, Newline,  \* characters
          ERASE, QUOTE,  \* those of kprintf_kb's other branches: 'h' and 16
          Blank, Text,   \* what a cell shows: nothing, output,
          Clock          \* or a part of the clock

ASSUME ConsoleAssumption == /\ COLS \in Nat \ {0, 1} /\ LAST \in Nat \ {0} /\ CLOCK \in Nat
                            /\ NUL # Newline /\ NUL # Text /\ Text # Newline
                            /\ Newline \notin {ERASE, QUOTE}

VARIABLES video, x_pos, y_pos,
          global_x,       \* the column right of the last prompt
          events          \* calls that printed

screen == <<video, x_pos, y_pos, global_x, events>>

ClockRow == LAST + 1
Rows == 0..ClockRow
Columns == 0..(COLS - 1)

\* The screen and the cursor, as the operators below pass them on.
Here == [v |-> video, x |-> x_pos, y |-> y_pos]

\* A call that leaves the screen s.
Show(s) == video' = s.v /\ x_pos' = s.x /\ y_pos' = s.y

\* Bound: once the cursor is in the clock's row, only clear_console is followed.
OnScreen == y_pos <= LAST

\* The call prints characters.
Prints == events < MaxEvents /\ events' = events + 1

\* As the shell finds it after clear: the clock has been shown.
ScreenInit ==
    /\ video = [r \in Rows |-> [c \in Columns |->
                  IF r = ClockRow /\ c >= CLOCK THEN Clock ELSE Blank]]
    /\ x_pos = 0 /\ y_pos = 0 /\ global_x = 0 /\ events = 0

-----------------------------------------------------------------------------
(* kprintf.                                                                *)

\* update_screen and the y_pos-- that goes with it: each row from 0 to LAST - 1
\* becomes the one below it, and row LAST stays.
Scrolled(s) ==
    [s EXCEPT !.v = [r \in Rows |-> IF r < LAST THEN s.v[r + 1] ELSE s.v[r]], !.y = @ - 1]

ScrollAtLast(s) == IF s.y = LAST THEN Scrolled(s) ELSE s

Wrap(s) == IF s.x = COLS THEN [s EXCEPT !.x = 0, !.y = @ + 1] ELSE s

Put(s, c) == [s EXCEPT !.v[s.y][s.x] = c, !.x = @ + 1]

NewLine(s) == ScrollAtLast([s EXCEPT !.x = 0, !.y = @ + 1])

\* Mutant of PutText: the row is looked at before the column.
PutTextEarly(s, c) == Put(Wrap(ScrollAtLast(s)), c)

\* The other characters, outside and inside of arguments.
PutText(s, c) == Put(ScrollAtLast(Wrap(s)), c)

\* A character of the format.
PlainStep(s, c) == IF c = Newline THEN NewLine(s) ELSE PutText(s, c)

Plain(s, format) == FoldLeft(PlainStep, s, format)

\* A character of an argument: the one after a newline is printed whatever it is,
\* another newline or the NUL included, and then printing goes on behind it.
ArgumentStep(a, c) ==
    CASE a.at = "end"     -> a
      [] a.at = "forced"  -> [s |-> PutText(a.s, c), at |-> "next"]
      [] a.at = "next" /\ c = NUL     -> [a EXCEPT !.at = "end"]
      [] a.at = "next" /\ c = Newline -> [s |-> NewLine(a.s), at |-> "forced"]
      [] OTHER            -> [s |-> PutText(a.s, c), at |-> "next"]

\* %s, of the text at the start of memory.
Argument(s, memory) == FoldLeft(ArgumentStep, [s |-> s, at |-> "next"], memory).s

-----------------------------------------------------------------------------
(* kprintf_kb.                                                             *)

\* Mutant of Erased: where the line begins is not looked at.
ErasedAlways(s) == IF s.x > 0
                   THEN [s EXCEPT !.v[s.y][s.x - 1] = Blank, !.x = @ - 1] ELSE s

Erased(s) == IF s.x - 1 >= global_x
             THEN [s EXCEPT !.v[s.y][s.x - 1] = Blank, !.x = @ - 1] ELSE s

\* Mutant of Ready: the row is not looked at.
ReadyLate(s) == Wrap(s)

\* What kprintf_kb does first, whatever the key is.
Ready(s) == Wrap(ScrollAtLast(s))

\* With control on.
EchoControl(s, c) == IF c = ERASE THEN Erased(s) ELSE s

\* With shift on, one character shows a quote, in the clock's row.
EchoShift(s, c) ==
    IF c = QUOTE THEN [s EXCEPT !.v[ClockRow][s.x] = Text, !.x = @ + 1] ELSE Put(s, c)

\* The echo of character c.  Without shift and control no key has 30 or 31.
Echo(s, c, control, shift) ==
    CASE c = Newline                                -> NewLine(Ready(s))
      [] c # Newline /\ control = 1                 -> EchoControl(Ready(s), c)
      [] c # Newline /\ control # 1 /\ shift = 1    -> EchoShift(Ready(s), c)
      [] OTHER                                      -> Put(Ready(s), c)

\* kprintf_kb('h') with control on.
EchoBackspace(s) == Erased(Ready(s))

-----------------------------------------------------------------------------
(* The clock and the clear call.                                           *)

\* kprintf_timer, from the interrupt of the timer; the cursor does not move.
KprintfTimer ==
    /\ video' = [video EXCEPT ![ClockRow] =
                   [c \in Columns |-> IF c >= CLOCK THEN Clock ELSE @[c]]]
    /\ UNCHANGED <<x_pos, y_pos, global_x, events>>

\* clear_console: the dashes it prints first are blanked again, unless the cursor
\* is in the clock's row.
Wiped ==
    [v |-> [r \in Rows |-> [c \in Columns |->
              IF r <= LAST THEN Blank
              ELSE IF y_pos = ClockRow /\ c >= x_pos THEN Text ELSE video[r][c]]],
     x |-> 0, y |-> 0]
=============================================================================
