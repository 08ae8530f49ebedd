------------------------------ MODULE MCShell ------------------------------
(* Instances of Shell: a command of up to three processes that prints up   *)
(* to five bytes.                                                          *)
EXTENDS Shell

CONSTANTS bash, c1, c2

\* Nothing is spilled; the file holds less than the tail, just everything, or
\* less than everything.
MCSizes ==
  {[tail |-> 2, spill |-> 0], [tail |-> 2, spill |-> 1], [tail |-> 2, spill |-> 4]}
=============================================================================
