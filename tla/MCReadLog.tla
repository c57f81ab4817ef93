----------------------------- MODULE MCReadLog -----------------------------
(* ReadLog for TLC: short streams of anything, longer ones of what colours  *)
(* and titles are made of, and streams of lines that are also read.         *)
EXTENDS ReadLog

Anything == [classes |-> Classes, length |-> 5, tails |-> {}]
Colours == [classes |-> {"esc", "[", "param", "letter", "cr"}, length |-> 6, tails |-> {}]
Titles == [classes |-> {"esc", "]", "\\", "bel", "lf"}, length |-> 6, tails |-> {}]
LinesOfText == [classes |-> {"cr", "lf", "letter"}, length |-> 6, tails |-> 0 .. 3]

MCSources == {Anything, Colours, Titles, LinesOfText}
=============================================================================
