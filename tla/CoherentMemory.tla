--------------------------- MODULE CoherentMemory ---------------------------
(***************************************************************************)
(* What a cache promises to the load/store bus above it: it behaves as the *)
(* memory itself.  A store takes effect when it is accepted; a load is     *)
(* bound, when it is accepted, to the contents its line has at that        *)
(* moment, and is answered with them later, in any order.                  *)
(***************************************************************************)
EXTENDS Integers

CONSTANTS Line, Data, LoadId, None

VARIABLES
    contents, \* contents[line]
    loads     \* loads[id]: the value load id is bound to, or None

memoryVars == <<contents, loads>>

Init ==
    /\ contents \in [Line -> Data]
    /\ loads = [id \in LoadId |-> None]

\* Any of these loads may be answered; none gets another value.
Answering(ids) == \A id \in ids : loads'[id] \in {loads[id], None}

\* Loads are answered, and no command is accepted.
Answer ==
    /\ Answering(LoadId)
    /\ UNCHANGED contents

AcceptLoad(id, line) ==
    /\ loads[id] = None
    /\ loads'[id] = contents[line]
    /\ Answering(LoadId \ {id})
    /\ UNCHANGED contents

AcceptStore(line, data) ==
    /\ contents' = [contents EXCEPT ![line] = data]
    /\ Answering(LoadId)

Next ==
    /\ loads' \in [LoadId -> Data \cup {None}]
    /\ \/ Answer
       \/ \E id \in LoadId, line \in Line : AcceptLoad(id, line)
       \/ \E line \in Line, data \in Data : AcceptStore(line, data)

Spec == Init /\ [][Next]_memoryVars
=============================================================================
