----------------------------- MODULE WorkingDir -----------------------------
(***************************************************************************)
(* The cd command: chdir and changedir in sys/tarfs.c, which keep two      *)
(* names in the PCB, the working directory curr_dir and a second one,      *)
(* temp_curr_dir, that `..' is applied to and that the parent of a new     *)
(* working directory is compared with.  A path is the sequence of its      *)
(* parts; "rootfs/", which both names begin with, is left out.             *)
(***************************************************************************)
EXTENDS Naturals, Sequences, SequencesExt

CONSTANTS Trees,   \* sets of directories, each with the directories it lies in
          Names    \* parts of names, those given to cd included; `..' is none

ASSUME TreesAssumption ==
    \A t \in Trees : /\ t \subseteq Seq(Names) /\ <<>> \notin t
                     /\ \A d \in t : Front(d) = <<>> \/ Front(d) \in t

VARIABLES dirs,                      \* the directories in global_tarfs
          curr_dir, temp_curr_dir,
          arg                        \* the argument of the cd just made

cdvars == <<dirs, curr_dir, temp_curr_dir, arg>>

ROOT == <<>>
Paths == {<<a>> : a \in Names} \cup {<<a, b>> : a, b \in Names}

\* What cd is asked for: /, .., a path from the root, one from the parent, and
\* one from the working directory, with or without ./ in front.
Args == [kind : {"root", "up"}, path : {ROOT}]
          \cup [kind : {"abs", "upinto", "rel"}, path : Paths]

NoArg == [kind |-> "none", path |-> ROOT]

CdInit ==
    /\ dirs \in Trees
    /\ curr_dir = ROOT /\ temp_curr_dir = ROOT     \* create_user_process
    /\ arg = NoArg

\* substr_tillchar: without the last part; at "rootfs/" the caller restores it.
Shorter(path) == IF path = ROOT THEN ROOT ELSE Front(path)

\* Mutant of Exists: the name is not looked up.
ExistsAny(name) == TRUE

Exists(name) == name \in dirs

\* The condition under which changedir accepts a name, temp being temp_curr_dir.
Accepts(name, temp) ==
    /\ Exists(name)
    /\ (curr_dir = ROOT /\ Len(name) = 1) \/ Front(name) = temp

Changedir(name, temp) ==
    /\ curr_dir' = IF Accepts(name, temp) THEN name ELSE curr_dir
    /\ temp_curr_dir' = IF Accepts(name, temp) THEN name ELSE temp

\* cd /
ChdirRoot ==
    /\ curr_dir' = ROOT
    /\ UNCHANGED temp_curr_dir

\* Mutant of Up: the name is applied to the working directory.
UpKeeps == curr_dir

\* What .. makes of temp_curr_dir.
Up == Shorter(temp_curr_dir)

\* cd ..
ChdirUp == curr_dir' = Up /\ temp_curr_dir' = Up

Chdir(a) ==
    /\ CASE a.kind = "root"   -> ChdirRoot
         [] a.kind = "up"     -> ChdirUp
         [] a.kind = "abs"    -> Changedir(a.path, ROOT)
         [] a.kind = "upinto" -> Changedir(Up \o a.path, Up)
         [] a.kind = "rel"    -> Changedir(curr_dir \o a.path, temp_curr_dir)
    /\ arg' = a
    /\ UNCHANGED dirs

CdNext == \E a \in Args : Chdir(a)

CdSpec == CdInit /\ [][CdNext]_cdvars

-----------------------------------------------------------------------------
(* What must hold.                                                         *)

\* Where a path leads in the tree, from the working directory d.
Target(d, a) ==
    CASE a.kind = "root"   -> ROOT
      [] a.kind = "up"     -> Shorter(d)
      [] a.kind = "abs"    -> a.path
      [] a.kind = "upinto" -> Shorter(d) \o a.path
      [] OTHER             -> d \o a.path

\* The working directory after cd: the target if there is such a directory.
Resolved(d, a) == IF Target(d, a) \in dirs \cup {ROOT} THEN Target(d, a) ELSE d

\* Both names are directories of the archive, also after cd failed half way.
DirectoriesExist == {curr_dir, temp_curr_dir} \subseteq dirs \cup {ROOT}

Flat == \A d \in dirs : Len(d) = 1

\* In an archive without nested directories, such as the shipped one, any
\* sequence of cd commands, failing ones included, leads where the paths say,
\* whatever was left behind in temp_curr_dir.
FlatTreeResolves == [][Flat => curr_dir' = Resolved(curr_dir, arg')]_cdvars
=============================================================================
