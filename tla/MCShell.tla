------------------------------ MODULE MCShell ------------------------------
(* An instance of Shell for TLC.                                           *)
EXTENDS Shell

Dir(name) == [name |-> name, dir |-> TRUE, size |-> 0]
File(name, n) == [name |-> name, dir |-> FALSE, size |-> n]

\* The shape of the shipped archive, a file of the same name in a directory and
\* in the root and a directory of Bare, and an archive with nested directories.
MCFlat(m, n) ==
    <<Dir(<<"bin">>), File(<<"bin", "t.txt">>, m), Dir(<<"usr">>),
      File(<<"s.sh">>, 6), File(<<"t.txt">>, n)>>
MCNested(m, n) ==
    <<Dir(<<"bin">>), Dir(<<"bin", "usr">>), Dir(<<"bin", "usr", "bin">>),
      File(<<"bin", "usr", "t.txt">>, m), File(<<"bin", "s.sh">>, n)>>

MCArchives ==
    {MCFlat(mn[1], mn[2]) : mn \in {<<0, 9>>, <<9, 0>>, <<1, 4>>, <<4, 1>>, <<4, 9>>, <<9, 4>>}}
      \cup {MCNested(mn[1], mn[2]) : mn \in {<<0, 6>>, <<9, 6>>, <<1, 5>>, <<4, 5>>, <<4, 1>>, <<9, 0>>}}

MCTrees == {{a[k].name : k \in {j \in DOMAIN a : a[j].dir}} : a \in MCArchives}

MCBare == {"usr", "s.sh", "t.txt"}

MCOperands == {[path |-> <<n>>, slash |-> FALSE] : n \in {"bin", "s.sh", "t.txt"}}
                \cup {[path |-> <<"bin", "t.txt">>, slash |-> FALSE],
                      [path |-> <<"usr">>, slash |-> TRUE]}

MCScripts == {<<"s.sh">>, <<"bin", "s.sh">>}

\* Both scripts list the working directory and show a file.  The one of 5 bytes has
\* no newline at its end, the one of 1 byte none at all.
MCScriptNames == {<<"s.sh">>, <<"bin", "s.sh">>}

MCNewlines == [name \in MCScriptNames |-> {1, 3, 5}]

MCLines ==
    [name \in MCScriptNames |->
       [o \in {2, 4} |->
          IF o = 2 THEN [prog |-> "ls", args |-> <<>>]
          ELSE [prog |-> "cat", args |-> <<[path |-> <<"t.txt">>, slash |-> FALSE]>>]]]
=============================================================================
