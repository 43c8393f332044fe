------------------------------ MODULE Terminal ------------------------------
(***************************************************************************)
(* The shell at the terminal: the keyboard and the screen with the program *)
(* that uses them.  The shell prints its prompt (getcwd in sys/tarfs.c),   *)
(* waits for a line in scanf, and until the next prompt it and the         *)
(* programs it runs print.  Keys and the clock interrupt all of it, but no *)
(* single call of kprintf.  Programs print with printf (libc/stdio.c),     *)
(* which writes into result and hands it to kprintf("%s").                 *)
(***************************************************************************)
EXTENDS Keyboard

CONSTANTS RESULT,        \* length of result: 1000
          Prompts,       \* lengths of the prompt, which is <directory>
          Outputs,       \* what programs print
          Messages       \* what the kernel prints

ASSUME TerminalAssumption ==
    /\ RESULT \in Nat \ {0} /\ Prompts \subseteq Nat \ {0}
    /\ Outputs \cup Messages \subseteq Seq({Text, Newline})
    /\ \A t \in Outputs : Len(t) < RESULT    \* bound: printf does not look at it

VARIABLES result,        \* what printf formatted last, and what is behind it
          asked          \* the prompt is printed and scanf not yet called

vars == <<pressed, count, input_done, shift, control, pc, at, buf, history, screen, result, asked>>

Init ==
    /\ ScreenInit /\ KeyboardInit
    /\ result = [i \in 1..RESULT |-> NUL]
    /\ asked = FALSE

keyboard == <<pressed, count, input_done, shift, control, pc, at, buf, typed, raced>>

\* getcwd.
Prompt(n) ==
    LET s == Plain(Here, [i \in 1..n |-> Text])
    IN  /\ pc = "user" /\ ~asked
        /\ OnScreen /\ Show(s) /\ global_x' = s.x
        /\ asked' = TRUE
        /\ plain' = (count = 0 /\ typed = <<>>)
        /\ UNCHANGED <<keyboard, astray, spilled, result, events>>

CallScanf ==
    /\ asked /\ Call
    /\ asked' = FALSE
    /\ UNCHANGED result

\* The characters before the first NUL.
CString(m) == {i \in DOMAIN m : \A j \in 1..i : m[j] # NUL}

\* Mutant of Formatted: the old text is not cleared.
FormattedOver(m, text) ==
    [i \in DOMAIN m |-> IF i <= Len(text) THEN text[i]
                        ELSE IF i = Len(text) + 1 THEN NUL ELSE m[i]]

\* printf clears the old text, writes the new one and ends it.
Formatted(m, text) ==
    [i \in DOMAIN m |-> IF i <= Len(text) THEN text[i]
                        ELSE IF i = Len(text) + 1 \/ i \in CString(m) THEN NUL ELSE m[i]]

Output(s) ==
    /\ pc = "user" /\ ~asked
    /\ OnScreen /\ Prints /\ Show(s)
    /\ UNCHANGED <<keyboard, global_x, astray, spilled, plain, asked>>

\* printf and system call 1.
Printf(text) ==
    /\ result' = Formatted(result, text)
    /\ Output(Argument(Here, result'))

\* A message of the kernel, such as read_dir's names or wrong arguments.
Kprintf(text) == Output(Plain(Here, text)) /\ UNCHANGED result

OnClockRow == y_pos = ClockRow \/ \E c \in Columns : video[ClockRow][c] \notin {Blank, Clock}

\* System call 91.
Clear ==
    /\ pc = "user" /\ ~asked
    /\ Prints /\ Show(Wiped)
    /\ spilled' = FALSE /\ astray' = (astray /\ OnClockRow)
    /\ UNCHANGED <<keyboard, global_x, plain, result, asked>>

Tick == KprintfTimer /\ UNCHANGED <<keyboard, astray, spilled, plain, result, asked>>

AnyKey ==
    /\ \/ \E k \in Keys : Key(k)
       \/ Enter
       \/ \E x \in {0, 1} : ShiftKey(x) \/ ControlKey(x)
       \/ Arrow \/ Delete \/ Backspace
    /\ UNCHANGED <<result, asked>>

Next == \/ AnyKey \/ Tick
        \/ \E n \in Prompts : Prompt(n)
        \/ CallScanf
        \/ Scanf /\ UNCHANGED <<result, asked>>
        \/ \E t \in Outputs : Printf(t)
        \/ \E t \in Messages : Kprintf(t)
        \/ Clear

\* The process is not stopped in the middle of scanf: keys interrupt it, and it
\* goes on.
Spec == Init /\ [][Next]_vars /\ WF_vars(Scanf /\ UNCHANGED <<result, asked>>)

-----------------------------------------------------------------------------
(* What must hold.                                                         *)

\* Every variable has its type; count stays inside pressed, and the cursor in the
\* columns of the screen.
TypeOK ==
    /\ KeyboardTypeOK
    /\ video \in [Rows -> [Columns -> {Blank, Text, Clock} \cup Chars]]
    /\ x_pos \in 0..COLS /\ y_pos \in Nat /\ global_x \in 0..COLS
    /\ result \in [1..RESULT -> {NUL, Text, Newline}] /\ asked \in BOOLEAN

\* kprintf goes one character behind the NUL of a text that ends in a newline;
\* it finds nothing of an earlier text there, because printf cleared that.
NothingBehindText == \A i \in DOMAIN result : result[i] # NUL => i \in CString(result)

\* Output alone, whatever lines and lengths it has, stays above row LAST, so each
\* line that scrolling brings is blank.  Only an echo that runs on from the end
\* of the last text row gets to row LAST.
OutputAboveLast ==
    ~spilled => /\ y_pos < LAST
                /\ \A c \in Columns : video[LAST][c] = Blank

\* As long as keys are pressed only while scanf waits, the cursor is back in the
\* text rows whenever a program prints, also after a line that ran over the end
\* of the screen, and nothing is written over the clock.
CursorReturns ==
    ~astray => /\ pc = "user" => y_pos < LAST
             /\ y_pos <= LAST /\ ~OnClockRow

\* What stands right of the prompt is the line that scanf will return, through
\* any backspaces, as long as the line fits the row and control is not held; and
\* the prompt is not erased.
EchoIsLine ==
    plain => /\ x_pos = global_x + Len(typed)
             /\ \A i \in DOMAIN typed : video[y_pos][global_x + i - 1] = typed[i]
             /\ video[y_pos][global_x - 1] = Text
=============================================================================
