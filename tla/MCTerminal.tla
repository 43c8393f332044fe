----------------------------- MODULE MCTerminal -----------------------------
(* Instances of Terminal for TLC.                                          *)
EXTENDS Terminal

CONSTANTS Space, Star, Bar     \* a character, a key with it in both maps, the space bar

\* The end of a line, a word longer than a row, and the newline in front of a
\* message.
MCOutputs == {<<Newline>>, <<Text, Text, Text>>}
MCMessages == {<<Newline>>}

MCKeys == {Star, Bar}
MCMap == [key \in MCKeys |-> Space]
MCUpperMap == [key \in {Star} |-> Space]
=============================================================================
