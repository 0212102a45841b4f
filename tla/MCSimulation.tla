---------------------------- MODULE MCSimulation ----------------------------
(* Lines of two words of two bytes; the memory file ends in the middle of the   *)
(* second line.  The high half of a counter changes every four cycles.          *)
EXTENDS Simulation

MCData == {"file", "stored", "cafebabe"}
MCImage == [i \in 0 .. 2 |-> [b \in 0 .. 1 |-> "file"]]
MCStored == [o \in 0 .. 3 |-> "stored"]
MCCmds ==
  [write : {FALSE}, line : Line, id : Id]
    \cup [write : {TRUE}, line : Line, strb : {{1, 2}, {3}}, data : {MCStored}]
=============================================================================
