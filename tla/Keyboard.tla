------------------------------ MODULE Keyboard ------------------------------
(***************************************************************************)
(* The keyboard interrupt and the scanf system call (sys/kb.c).  scanf is  *)
(* the other call, besides sleep, that runs with interrupts enabled, so a  *)
(* key may arrive between any two of its steps: while it waits, but also   *)
(* after Enter, when it ends the line, resets count, copies the line to    *)
(* the user and clears the buffer, both character by character.            *)
(* kb_handler itself is not interrupted, and it ends with the echo of the  *)
(* key on the screen (kprintf_kb).                                         *)
(***************************************************************************)
EXTENDS Console

CONSTANTS Keys,                \* keys that kb_handler looks up, Enter excepted
          keyboard_map,
          keyboard_upper_map,  \* which has fewer places: none for the space bar
          Beyond,              \* what may lie behind the end of keyboard_upper_map
          Chars,               \* characters
          PRESSED              \* length of pressed: 200

ASSUME KeyboardAssumption ==
    /\ PRESSED \in Nat \ {0}
    /\ keyboard_map \in [Keys -> Chars]
    /\ \E U \in SUBSET Keys : keyboard_upper_map \in [U -> Chars]
    /\ Beyond \cup {NUL, Newline, QUOTE} \subseteq Chars
    /\ Blank \notin Chars      \* a blank cell shows no character, not even a space

Index == 0..(PRESSED - 1)

VARIABLES pressed, count, input_done, shift, control,
          pc,       \* "user", or the next step of scanf
          at,       \* where strcpy or clear_buffer is in pressed
          buf,      \* the line that scanf gave to the user, until it returns
          typed,    \* the characters typed since scanf returned last
          raced,    \* a key arrived after Enter and before the return of scanf,
                    \* and what it left behind is still there
          astray,   \* a key arrived while no scanf waited for one, or Enter with
                    \* the cursor at the very end of the last text row, or one that
                    \* shows in the clock's row
          spilled,  \* an echo went on from the end of the last text row
          plain     \* since the prompt all characters were echoed, in one row

history == <<typed, raced, astray, spilled, plain>>

KeyboardInit ==
    /\ pressed = [i \in Index |-> NUL]
    /\ count = 0 /\ input_done = 0 /\ shift = 0 /\ control = 0
    /\ pc = "user" /\ at = 0 /\ buf = <<>>
    /\ typed = <<>> /\ raced = FALSE /\ astray = FALSE /\ spilled = FALSE /\ plain = FALSE

-----------------------------------------------------------------------------
(* kb_handler.                                                             *)

\* scanf has seen Enter, or is about to, and has not returned.
Finishing == pc \in {"end", "reset", "copy", "clear"} \/ (pc = "wait" /\ input_done = 0)

\* The echo of c goes to the clock's row.
Misplaced(c) == c = QUOTE /\ shift = 1 /\ control # 1

\* The call of kprintf_kb that leaves the screen s, for the character c or, for
\* keys that have none, Blank.
Echoes(s, c) ==
    /\ OnScreen /\ Show(s) /\ UNCHANGED global_x
    /\ astray' = \/ astray
                 \/ pc # "wait" \/ input_done = 0
                 \/ c = Newline /\ x_pos = COLS /\ y_pos = LAST - 1
                 \/ Misplaced(c)
    /\ spilled' = (spilled \/ Ready(Here).y = LAST)
    /\ IF c = Blank THEN UNCHANGED events ELSE Prints
    /\ plain' = (plain /\ c # Newline /\ (control = 0 \/ c = Blank) /\ x_pos # COLS
                  /\ ~Misplaced(c))

\* pressed[count++] = c, and the echo.  Bound: the code does not check the length
\* of pressed.
Store(c) ==
    /\ count < PRESSED /\ Len(typed) < PRESSED
    /\ pressed' = [pressed EXCEPT ![count] = c]
    /\ count' = count + 1
    /\ typed' = Append(typed, c)
    /\ raced' = (raced \/ Finishing)
    /\ Echoes(Echo(Here, c, control, shift), c)
    /\ UNCHANGED <<shift, control, pc, at, buf>>

\* The character of a key; a key may have no place in keyboard_upper_map.
Characters(k) ==
    IF shift # 1 /\ control # 1 THEN {keyboard_map[k]}
    ELSE IF k \in DOMAIN keyboard_upper_map THEN {keyboard_upper_map[k]} ELSE Beyond

Key(k) == (\E c \in Characters(k) : Store(c)) /\ UNCHANGED input_done

Enter == Store(Newline) /\ input_done' = 0

ShiftKey(x) ==
    /\ shift' = x
    /\ UNCHANGED <<pressed, count, input_done, control, pc, at, buf, screen, history>>

ControlKey(x) ==
    /\ control' = x
    /\ UNCHANGED <<pressed, count, input_done, shift, pc, at, buf, screen, history>>

\* An arrow leaves both modifiers off, Delete leaves control off; what they echo
\* shows nothing.
Arrow ==
    /\ control' = 0 /\ shift' = 0
    /\ Echoes(Ready(Here), Blank)
    /\ UNCHANGED <<pressed, count, input_done, pc, at, buf, typed, raced>>

Delete ==
    /\ control' = 0
    /\ Echoes(Ready(Here), Blank)
    /\ UNCHANGED <<pressed, count, input_done, shift, pc, at, buf, typed, raced>>

\* Mutant of Backward: count may become negative.
BackwardFree(n) == n - 1

Backward(n) == IF n - 1 < 0 THEN 0 ELSE n - 1

Backspace ==
    /\ count' = Backward(count)
    /\ typed' = IF typed = <<>> THEN <<>> ELSE Front(typed)
    /\ control' = 0
    /\ raced' = (raced \/ Finishing)
    /\ Echoes(EchoBackspace(Here), Blank)
    /\ UNCHANGED <<pressed, input_done, shift, pc, at, buf>>

-----------------------------------------------------------------------------
(* scanf.                                                                  *)

Call ==
    /\ pc = "user"
    /\ input_done' = 1 /\ pc' = "wait"
    /\ UNCHANGED <<pressed, count, shift, control, at, buf, screen, history>>

\* Mutant of Polled: input_done is read once, as if it were not volatile.
PolledOnce == 1

Polled == input_done

LoopEnds ==
    /\ pc = "wait" /\ Polled # 1
    /\ pc' = "end"
    /\ UNCHANGED <<pressed, count, input_done, shift, control, at, buf, screen, history>>

\* Mutant of Terminated: the Enter is left in the line.
TerminatedLate == [i \in Index |-> IF i = count THEN NUL ELSE pressed[i]]

\* pressed[count-1] = '\0'.
Terminated == [i \in Index |-> IF i = count - 1 THEN NUL ELSE pressed[i]]

\* With count = 0, after a Backspace behind the Enter, it writes in front of pressed,
\* where one of the modifiers may lie, or nothing that is not zero.
EndLine ==
    /\ pc = "end"
    /\ pressed' = Terminated
    /\ \/ UNCHANGED <<shift, control>>
       \/ count = 0 /\ shift' = 0 /\ UNCHANGED control
       \/ count = 0 /\ control' = 0 /\ UNCHANGED shift
    /\ pc' = "reset"
    /\ UNCHANGED <<count, input_done, at, buf, screen, history>>

ResetCount ==
    /\ pc = "reset"
    /\ count' = 0 /\ pc' = "copy"
    /\ UNCHANGED <<pressed, input_done, shift, control, at, buf, screen, history>>

\* strcpy and clear_buffer stop at the first NUL.  Bound: without one they stop at
\* the end of pressed.
Stops == at < PRESSED => pressed[at] = NUL

\* One round of the loop in strcpy, and its end.
CopyCharacter ==
    /\ pc = "copy" /\ ~Stops
    /\ buf' = Append(buf, pressed[at]) /\ at' = at + 1
    /\ UNCHANGED <<pressed, count, input_done, shift, control, pc, screen, history>>

CopyEnds ==
    /\ pc = "copy" /\ Stops
    /\ pc' = "clear" /\ at' = 0
    /\ UNCHANGED <<pressed, count, input_done, shift, control, buf, screen, history>>

\* clear_buffer: what lies behind the first NUL stays.
ClearCharacter ==
    /\ pc = "clear" /\ ~Stops
    /\ pressed' = [pressed EXCEPT ![at] = NUL] /\ at' = at + 1
    /\ UNCHANGED <<count, input_done, shift, control, pc, buf, screen, history>>

\* scanf returns.
Return ==
    /\ pc = "clear" /\ Stops
    /\ pc' = "user" /\ at' = 0 /\ typed' = <<>> /\ buf' = <<>>
    /\ raced' = (count # 0)
    /\ UNCHANGED <<pressed, count, input_done, shift, control, screen, astray, spilled, plain>>

Scanf == \/ LoopEnds \/ EndLine \/ ResetCount
         \/ CopyCharacter \/ CopyEnds \/ ClearCharacter \/ Return

-----------------------------------------------------------------------------
(* What must hold.                                                         *)

\* Every variable has its type; count stays inside pressed.
KeyboardTypeOK ==
    /\ pressed \in [Index -> Chars]
    /\ count \in 0..PRESSED
    /\ input_done \in {0, 1} /\ shift \in {0, 1} /\ control \in {0, 1}
    /\ pc \in {"user", "wait", "end", "reset", "copy", "clear"} /\ at \in 0..PRESSED
    /\ buf \in Seq(Chars) /\ typed \in Seq(Chars)
    /\ {raced, astray, spilled, plain} \subseteq BOOLEAN

\* What was typed up to the first character that is NUL, without the Enter.
Typed == LET s == Front(typed)
             nuls == {i \in 1..Len(s) : s[i] = NUL}
         IN  IF nuls = {} THEN s
             ELSE SubSeq(s, 1, (CHOOSE i \in nuls : \A j \in nuls : i <= j) - 1)

\* The line that scanf returns is what was typed since the last one, less what
\* was erased and the final Enter, although erased characters and parts of
\* earlier lines stay in pressed, unless a key raced with the end of a scanf.
LineIsTyped == pc = "clear" /\ ~raced => buf = Typed

\* Once Enter was pressed while scanf waits, scanf returns, whatever other keys
\* arrive meanwhile.
EnterEndsScanf == (pc = "wait" /\ input_done = 0) ~> (pc = "user")
=============================================================================
