------------------------------ MODULE MCMemory ------------------------------
(* Instances of Memory for TLC.                                            *)
EXTENDS Memory

Part(base, length, usable) == [base |-> base, length |-> length, usable |-> usable]

\* A small machine, and one with more pages than a page has bits.
MCSmaps == {<<Part(0, 9, TRUE), Part(9, 7, FALSE), Part(16, 584, TRUE)>>,
            <<Part(0, 9, TRUE), Part(16, 1120, TRUE), Part(1700, 8, TRUE)>>}

Program(text, data, missed, kind) ==
    [text |-> text, data |-> data, missed |-> missed, kind |-> kind]

\* bin/init, bin/sbush, and commands as bin/ls and bin/ps.
MCInit == Program(2, 1, {}, "init")
MCPrograms == {MCInit, Program(3, 1, {}, "shell"), Program(3, 1, {}, "job"), Program(2, 2, {DataPage(2)}, "job")}
=============================================================================
