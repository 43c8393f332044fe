------------------------------- MODULE Shell -------------------------------
(***************************************************************************)
(* What the terminal's commands do with the files: bin/sbush, libc's       *)
(* addParent and executeSbang, bin/ls and bin/cat, on top of the file      *)
(* system (Tarfs) and of cd (WorkingDir).  The shell makes the name of a   *)
(* file out of its working directory and what was typed; ls and cat run in *)
(* a process of their own, a script is read by the shell itself, into the  *)
(* global array in which it keeps the line that was typed, and its lines   *)
(* are commands (libc/unibinary.c).                                        *)
(*                                                                         *)
(* A byte of a file stands for itself by its address in the archive; "#!"  *)
(* counts as one byte, and a part of a name as one character.  The         *)
(* shell waits for each command; one put behind by & is not modelled here, *)
(* nor what scanf, export, kill and a second shell do (other modules).     *)
(***************************************************************************)
EXTENDS Tarfs, WorkingDir

CONSTANTS Terminal, Command,  \* the PCBs of the shell and of its command
          TEXT,               \* size that cat and executeSbang ask of read: 1000
          Bare,      \* last parts of names to which addParent adds no slash: usr,
                     \* extra, boot, and those that end in .sh or .txt
          Operands,  \* what is given to ls and cat: [path, slash]
          Scripts,   \* paths given to ./
          Newlines,  \* Newlines[name]: where newlines are in a file that starts with #!
          Lines,     \* Lines[name][o]: the command in its line that starts at byte o
          BUFFER,    \* size of the array for a line: 100
          LineSizes  \* numbers of characters of the other lines that are typed

ASSUME ShellAssumption ==
    /\ Procs = {Terminal, Command} /\ Terminal # Command /\ TEXT \in Nat \ {0}
    /\ BUFFER \in Nat /\ LineSizes \subseteq 0..BUFFER /\ Scripts \subseteq Seq(STRING)

VARIABLES prog,      \* the program that runs in Command, or "none"
          names,     \* the names in its argv that it has not come to yet
          file,      \* the process that has just opened a file, and its inode
          text,      \* the buffer of cat: the bytes that were ever stored in it
          line,      \* str, the shell's line: the characters ever stored in it
          script,    \* the text of a script that executeSbang has still to walk through
          asked,     \* the command that was given, and how many of its names are done
          out        \* what the last step wrote

shvars == <<prog, names, file, text, line, script, asked, out>>
vars == <<fsvars, cdvars, shvars>>

NoFile == [p |-> Terminal, inode |-> 0]
Nothing == [by |-> "none"]
NoCommand == [prog |-> "none", args |-> <<>>, done |-> 0]
NUL == 0                       \* address 0 is in the header of the first entry
TYPED == -1                    \* a character of a line or of a name
STRAY == -2                    \* text behind the end of a string on the stack, if any

\* Lines as the shell understands them; ls may come without a name.  echo
\* stands for the commands that use no files.
Commands == [prog : {"ls", "cat"}, args : {<<o>> : o \in Operands} \cup (Operands \X Operands)]
              \cup [prog : {"ls", "echo"}, args : {<<>>}]

ASSUME LinesAssumption ==
    \A name \in DOMAIN Lines : \A o \in DOMAIN Lines[name] : Lines[name][o] \in Commands

Init ==
    /\ FsInit
    /\ CdInit /\ dirs = Directories
    /\ prog = "none" /\ names = <<>> /\ file = NoFile /\ text = <<>> /\ script = <<>>
    /\ line = <<>> /\ asked = NoCommand
    /\ out = Nothing

Prompt == up /\ prog = "none" /\ script = <<>> /\ file = NoFile

-----------------------------------------------------------------------------
(* The shell's line.                                                       *)

\* n characters and z zeros are stored in the line; what is behind them stays.
Put(l, n, z) ==
    [i \in 1..Max({n, Len(l)}) |-> IF i <= n THEN TYPED ELSE IF i <= n + z THEN NUL ELSE l[i]]

\* scanf stores two zeros behind the text, and strlen two behind the first of them.
Typed(n) == line' = Put(line, n, 3)

\* ./path: addParent puts the name behind the two characters ./, with three zeros,
\* and strcpy copies it to the front.
Name(path) == Put(line, Len(curr_dir \o path), 5)

-----------------------------------------------------------------------------
(* cd.                                                                     *)

Cd(a, n) ==
    /\ Prompt /\ Chdir(a) /\ Typed(n)
    /\ out' = Nothing
    /\ UNCHANGED <<fsvars, prog, names, file, text, script, asked>>

-----------------------------------------------------------------------------
(* Commands in a process of their own.                                     *)

\* Mutant of Slashed: the ending of the name is not looked at.
SlashedAlways(args, k) == args[k].slash \/ k = Len(args)

\* The k-th name ends in a slash.
Slashed(args, k) ==
    args[k].slash \/ (k = Len(args) /\ Last(args[k].path) \notin Bare)

\* Mutant of Arguments: the working directory is not put in front.
ArgumentsRooted(d, args) ==
    IF args = <<>> THEN <<[path |-> ROOT, slash |-> TRUE]>>
    ELSE [k \in DOMAIN args |-> [path |-> args[k].path, slash |-> Slashed(args, k)]]

\* addParent puts the working directory before the line and, unless the line
\* ends in one or in a name of Bare, a slash behind it; execve then splits the
\* line.  So only the first name is relative to the working directory, and
\* only the last one gets a slash.  The line is empty for ls alone.
Arguments(d, args) ==
    IF args = <<>> THEN <<[path |-> d, slash |-> TRUE]>>
    ELSE [k \in DOMAIN args |->
            [path  |-> IF k = 1 THEN d \o args[k].path ELSE args[k].path,
             slash |-> Slashed(args, k)]]

\* fork, and execve in the child: a cleared PCB and a cleared heap.
Start(c) ==
    /\ NewPcb(Command)
    /\ prog' = c.prog
    /\ names' = IF c.prog = "echo" THEN <<>> ELSE Arguments(curr_dir, c.args)
    /\ text' = <<>>
    /\ asked' = [prog |-> c.prog, args |-> c.args, done |-> 0]
    /\ out' = Nothing /\ arg' = NoArg
    /\ UNCHANGED <<dirs, curr_dir, temp_curr_dir, file>>

TypeCommand(c, n) == Prompt /\ Start(c) /\ Typed(n) /\ UNCHANGED script

\* main returns to _start, which ends the process, its descriptors and its
\* heap; the shell's wait returns.
Finish ==
    /\ prog # "none" /\ names = <<>> /\ file = NoFile
    /\ prog' = "none" /\ text' = <<>>
    /\ fd' = [fd EXCEPT ![Command] = <<>>]
    /\ first' = [first EXCEPT ![Command] = {}]
    /\ got' = NoRead /\ asked' = NoCommand /\ out' = Nothing
    /\ UNCHANGED <<archive, offset, global_tarfs, up, taken, cdvars, names, file, line, script>>

\* One round of the loop in ls: open_dir, and read_dir; an error ends the loop.
Ls ==
    /\ prog = "ls" /\ names # <<>>
    /\ LET n     == Head(names)
           inode == IF n.slash THEN OpenDir(n.path) ELSE NO_DIR
       IN  IF inode = NO_DIR
           THEN names' = <<>> /\ out' = [by |-> "ls", listed |-> {}]
           ELSE names' = Tail(names) /\ out' = [by |-> "ls", listed |-> ReadDir(inode)]
    /\ asked' = [asked EXCEPT !.done = @ + 1]
    /\ UNCHANGED <<fsvars, cdvars, prog, file, text, line, script>>

-----------------------------------------------------------------------------
(* cat.                                                                    *)

\* A byte that ends a string: also padding behind the contents of a file.
EndsString(a) ==
    \/ a = NUL
    \/ a # TYPED /\ ~\E k \in DOMAIN archive :
          LET h == HeaderOffset(archive)[k]
          IN  a = h \/ a \in (h + TARFS_HEADER)..(h + TARFS_HEADER + archive[k].size - 1)

\* The string at the start of t, which printf("%s", t) shows and strcpy copies.
Shown(t) ==
    LET stops == {i \in DOMAIN t : EndsString(t[i])}
    IN  IF stops = {} THEN t ELSE SubSeq(t, 1, Min(stops) - 1)

\* text[0] = '\0', and the copy that read makes; the rest is left as it was.
Stored(t, start, len) ==
    [i \in 1..Max({len, Len(t)}) |->
       IF i <= len THEN start + i - 1 ELSE IF i = 1 THEN NUL ELSE t[i]]

\* open found nothing and returns -1, for which read finds no descriptor.
CatMissing ==
    /\ prog = "cat" /\ names # <<>> /\ file = NoFile
    /\ Named(Head(names).path, Head(names).slash) = {}
    /\ text' = Stored(text, 0, 0)
    /\ names' = Tail(names)
    /\ asked' = [asked EXCEPT !.done = @ + 1]
    /\ out' = [by |-> "cat", shown |-> Shown(text')]
    /\ UNCHANGED <<fsvars, cdvars, prog, file, line, script>>

CatOpen ==
    /\ prog = "cat" /\ names # <<>> /\ file = NoFile
    /\ LET hits == Named(Head(names).path, Head(names).slash)
       IN  /\ hits # {}
           /\ Open(Command, Min(hits))
           /\ file' = [p |-> Command, inode |-> global_tarfs[Min(hits)].inode]
    /\ out' = Nothing
    /\ UNCHANGED <<cdvars, prog, names, text, line, script, asked>>

CatRead ==
    /\ prog = "cat" /\ file # NoFile
    /\ Read(Command, file.inode, TEXT)
    /\ text' = Stored(text, got'.start, fd'[Command][Descriptor(Command, file.inode)].read_addr
                                          - got'.start)
    /\ names' = Tail(names) /\ file' = NoFile
    /\ asked' = [asked EXCEPT !.done = @ + 1]
    /\ out' = [by |-> "cat", shown |-> Shown(text')]
    /\ UNCHANGED <<cdvars, prog, line, script>>

-----------------------------------------------------------------------------
(* Scripts.                                                                *)

\* ./path: the name ends in .sh, so addParent adds no slash.  A script longer than
\* the line, which would overwrite what lies behind it, is left out.
ScriptOpen(path) ==
    /\ Prompt
    /\ LET hits == Named(curr_dir \o path, FALSE)
       IN  /\ hits # {} /\ archive[Min(hits)].size <= BUFFER
           /\ Open(Terminal, Min(hits))
           /\ file' = [p |-> Terminal, inode |-> global_tarfs[Min(hits)].inode]
    /\ line' = Name(path)
    /\ out' = Nothing /\ arg' = NoArg
    /\ UNCHANGED <<dirs, curr_dir, temp_curr_dir, prog, names, text, script, asked>>

\* Without such a file read finds no descriptor, and the shell prints a message.
ScriptMissing(path) ==
    /\ Prompt /\ Named(curr_dir \o path, FALSE) = {}
    /\ line' = Stored(Name(path), 0, 0)
    /\ out' = Nothing
    /\ UNCHANGED <<fsvars, cdvars, prog, names, file, text, script, asked>>

\* There is a newline at address a.
Newline(a) ==
    \E k \in DOMAIN archive :
      LET o == a - (HeaderOffset(archive)[k] + TARFS_HEADER)
      IN  /\ archive[k].name \in DOMAIN Newlines
          /\ o \in Newlines[archive[k].name] /\ o < archive[k].size

\* t starts with #!.
Sbang(t) ==
    t # <<>> /\ \E k \in DOMAIN archive :
                  /\ archive[k].name \in DOMAIN Lines /\ archive[k].size > 0
                  /\ t[1] = HeaderOffset(archive)[k] + TARFS_HEADER

Stops(t) == {i \in DOMAIN t : Newline(t[i])}

\* The first line of t.
Line(t) == IF Stops(t) = {} THEN t ELSE SubSeq(t, 1, Min(Stops(t)) - 1)

\* What follows it.  Without a newline the loop walks on behind the zero that ends t,
\* over what the stack holds, until there is one: it may be the end, or more text.
Rests(t) ==
    IF Stops(t) = {} THEN {<<>>, <<STRAY>>}
    ELSE {SubSeq(t, Min(Stops(t)) + 1, Len(t))}

\* read stores the file at the start of the line, without a zero behind it; the copy
\* of the line ends at the first zero.  Behind "#!" and a newline come the lines.
ScriptRead ==
    /\ file.p = Terminal /\ file # NoFile
    /\ Read(Terminal, file.inode, TEXT)
    /\ line' = Stored(line, got'.start,
                      fd'[Terminal][Descriptor(Terminal, file.inode)].read_addr - got'.start)
    /\ LET t == Shown(line')
       IN  /\ script' \in (IF Sbang(t) THEN Rests(t) ELSE {<<>>})
           /\ out' = [by |-> "sh", inode |-> file.inode, walked |-> t, full |-> Len(line),
                      again |-> Cardinality(With(Terminal, file.inode)) > 1]
    /\ file' = NoFile
    /\ UNCHANGED <<cdvars, prog, names, text, asked>>

\* l is the line of the k-th file that starts at byte o, from its start to a newline.
IsLine(l, k, o) ==
    LET from == HeaderOffset(archive)[k] + TARFS_HEADER + o
    IN  l = [i \in 1..Len(l) |-> from + i - 1] /\ Newline(from + Len(l))

\* The commands that l may be: what other text says is not known.
Understood(l) ==
    LET own == {c \in Commands :
                  \E k \in DOMAIN archive :
                    /\ archive[k].name \in DOMAIN Lines
                    /\ \E o \in DOMAIN Lines[archive[k].name] :
                         c = Lines[archive[k].name][o] /\ IsLine(l, k, o)}
    IN  IF own = {} THEN Commands ELSE own

\* One round of the loop in executeSbang: checkingForBinary runs a command.
ScriptLine ==
    /\ up /\ prog = "none" /\ script # <<>>
    /\ script' \in Rests(script)
    /\ \E c \in Understood(Line(script)) : Start(c)
    /\ UNCHANGED line

\* It may not know other text.
ScriptText ==
    /\ up /\ prog = "none" /\ script # <<>>
    /\ Understood(Line(script)) = Commands
    /\ script' \in Rests(script)
    /\ out' = Nothing /\ arg' = NoArg
    /\ UNCHANGED <<fsvars, dirs, curr_dir, temp_curr_dir, prog, names, file, text, line, asked>>

Booting == (AddEntry \/ Mounted) /\ UNCHANGED <<cdvars, shvars>>

Next == \/ Booting
        \/ \E a \in Args, n \in LineSizes : Cd(a, n)
        \/ \E c \in Commands, n \in LineSizes : TypeCommand(c, n)
        \/ ScriptLine \/ ScriptText \/ Finish \/ Ls
        \/ CatMissing \/ CatOpen \/ CatRead
        \/ \E path \in Scripts : ScriptOpen(path) \/ ScriptMissing(path)
        \/ ScriptRead

Spec == Init /\ [][Next]_vars
-----------------------------------------------------------------------------
(* What must hold.                                                         *)

\* What lies in a directory, as the user sees the archive: the files, and in
\* the root the directories, too.
Inside(d) == {archive[k].name : k \in {j \in Children(d) : ~archive[j].dir \/ d = ROOT}}

\* After any sequence of cd commands, failed ones included, ls alone lists what
\* lies in the working directory, from the prompt and from a script.
LsListsHere ==
    out.by = "ls" /\ asked.args = <<>> => out.listed = Inside(curr_dir)

\* The bytes of the k-th file that one read returns.  A directory has none.
Contents(k) ==
    [i \in 1..Length(archive[k].size, TEXT) |-> HeaderOffset(archive)[k] + TARFS_HEADER + i - 1]

\* Those of the file with this name; none if there is no such file.
Bytes(path) ==
    LET hits == {k \in DOMAIN archive : archive[k].name = path}
    IN  IF hits = {} THEN <<>> ELSE Contents(Min(hits))

\* cat of a text file shows this file of the working directory from its first
\* byte to its last, whatever was read before by this or by other processes;
\* nothing of an earlier file is left in the buffer.
CatShowsFile ==
    /\ out.by = "cat" /\ asked.done = 1 /\ ~asked.args[1].slash
    /\ Len(asked.args) = 2 \/ Last(asked.args[1].path) \in Bare
    => out.shown = Bytes(curr_dir \o asked.args[1].path)

\* The text that executeSbang walks through when this shell runs a script for the
\* first time starts with all of the script, from its first byte on, whichever
\* processes have read the same file before.  It is nothing but the script if no line
\* or script was ever longer; otherwise the rest of one may follow, as there is no
\* zero behind what read has stored.
FirstRunComplete ==
    out.by = "sh" /\ ~out.again =>
      LET own == Contents(out.inode - 3)
      IN  /\ IsPrefix(own, out.walked)
          /\ out.full <= Len(own) => out.walked = own
=============================================================================
