------------------------------ MODULE MCTarfs ------------------------------
(* Instances of Tarfs for TLC.                                             *)
EXTENDS Tarfs, TLC

CONSTANTS Sizes

Dir(name) == [name |-> name, dir |-> TRUE, size |-> 0]
File(name, n) == [name |-> name, dir |-> FALSE, size |-> n]

\* The shape of the shipped archive, directories of files beside files, and one
\* with a directory in a directory, with files of every size in Sizes.
MCArchives ==
    {<<Dir(<<"bin">>), File(<<"bin", "ls">>, m), File(<<"temp">>, n)>> : m, n \in Sizes}
      \cup {<<Dir(<<"lib">>), Dir(<<"lib", "x">>), File(<<"lib", "x", "f">>, m),
              File(<<"lib", "g">>, n)>> : m, n \in Sizes}

Interchangeable == Permutations(Procs)
=============================================================================
