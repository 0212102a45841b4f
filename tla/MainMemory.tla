----------------------------- MODULE MainMemory -----------------------------
(***************************************************************************)
(* What the core expects of a memory on its AXI port: a store takes effect *)
(* when it is accepted, a load is bound to the contents of its line when   *)
(* it is accepted, and answered later, once, under its id.                 *)
(***************************************************************************)
CONSTANTS
  Line, Offset, Data, Id, None,
  Cmds    \* loads [write, line, id] and stores [write, line, strb, data]

VARIABLES
  mem,   \* the contents of every line: a value for each byte of it
  owed,  \* the answers owed, by id
  rsp    \* the answer on the bus

vars == <<mem, owed, rsp>>

Stores(cmd) == cmd # None /\ cmd.write
Loads(cmd) == cmd # None /\ ~cmd.write

Written(old, cmd) == [o \in Offset |-> IF o \in cmd.strb THEN cmd.data[o] ELSE old[o]]

Init ==
  /\ mem \in [Line -> [Offset -> Data]]
  /\ owed = [i \in Id |-> None]
  /\ rsp = None

\* A cycle: a command, or none, is accepted, and a load, or none, answered.
Cycle(cmd, answer) ==
  /\ Loads(cmd) => owed[cmd.id] = None
  /\ answer # None => owed[answer] # None
  /\ rsp' = IF answer = None THEN None ELSE [id |-> answer, data |-> owed[answer]]
  /\ mem' = IF Stores(cmd) THEN [mem EXCEPT ![cmd.line] = Written(@, cmd)] ELSE mem
  /\ owed' = [i \in Id |-> IF Loads(cmd) /\ cmd.id = i THEN mem[cmd.line]
                           ELSE IF i = answer THEN None ELSE owed[i]]

Next ==
  \E cmd \in Cmds \cup {None}, answer \in Id \cup {None} : Cycle(cmd, answer)

Spec == Init /\ [][Next]_vars
=============================================================================
