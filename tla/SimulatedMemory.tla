--------------------------- MODULE SimulatedMemory ---------------------------
(***************************************************************************)
(* The memory of the simulator (ecosystem/simulation/main.cpp, Memory): a  *)
(* vector of words that grows when an address beyond its end is used, and  *)
(* one read under way.  A line is what the bus moves at a time,            *)
(* MEMBUS_WORDS words; an offset is a byte in it.                          *)
(***************************************************************************)
EXTENDS Integers, FiniteSets

CONSTANTS
  LineCount,     \* lines the core uses
  MEMBUS_WORDS,  \* words in a line
  WordBytes,     \* bytes in a word
  Data, Fill,    \* the values of a byte; those of the words that are added
  ImageWords,    \* size of the memory file
  Image,         \* the bytes of the memory file, by word
  Id, None

Line == 0 .. LineCount - 1
Offset == 0 .. MEMBUS_WORDS * WordBytes - 1
Word == [0 .. WordBytes - 1 -> Data]

ASSUME SimulatedMemoryAssumption ==
  /\ LineCount \in Nat \ {0} /\ MEMBUS_WORDS \in Nat \ {0} /\ WordBytes \in Nat \ {0}
  /\ Fill \in Data
  /\ ImageWords \in Nat \ {0} /\ Image \in [0 .. ImageWords - 1 -> Word]
  /\ None \notin Id /\ None \notin [Offset -> Data]

VARIABLES
  memory_,         \* the vector, a function on 0 .. size - 1
  nextReadCycle_, nextReadId_, nextReadData_,
  rsp              \* what is driven on the response channel, or None

memoryVars == <<memory_, nextReadCycle_, nextReadId_, nextReadData_, rsp>>

Load == [write : {FALSE}, line : Line, id : Id]
Store == [write : {TRUE}, line : Line, strb : SUBSET Offset, data : [Offset -> Data]]

FillWord == [b \in 0 .. WordBytes - 1 |-> Fill]

baseAddress(line) == line * MEMBUS_WORDS

\* The vector after ensureEnoughMemory.
EnoughMemory(line) ==
  [i \in DOMAIN memory_ \cup 0 .. baseAddress(line + 1) |->
     IF i \in DOMAIN memory_ THEN memory_[i] ELSE FillWord]

\* A word of a vector; beyond its end, any.
WordAt(vector, i) == IF i \in DOMAIN vector THEN vector[i] ELSE CHOOSE w \in Word : TRUE

\* What read copies.
LineOf(vector, line) ==
  [o \in Offset |-> WordAt(vector, baseAddress(line) + o \div WordBytes)[o % WordBytes]]

\* The vector after write: the bytes whose strobe is set are replaced.
Written(cmd) ==
  LET vector == EnoughMemory(cmd.line)
  IN [i \in DOMAIN vector |->
        LET w == i - baseAddress(cmd.line)
        IN IF w \notin 0 .. MEMBUS_WORDS - 1 THEN vector[i]
           ELSE [b \in 0 .. WordBytes - 1 |->
                   IF w * WordBytes + b \in cmd.strb THEN cmd.data[w * WordBytes + b]
                   ELSE vector[i][b]]]

\* Mutant of Response: made after the command of the cycle was looked at.
ResponseAfterCmd(cycle, cmd) ==
  IF nextReadCycle_ # cycle THEN None
  ELSE IF cmd # None /\ ~cmd.write
       THEN [id |-> cmd.id, data |-> LineOf(EnoughMemory(cmd.line), cmd.line)]
       ELSE [id |-> nextReadId_, data |-> nextReadData_]

\* The read of the cycle before is answered before a command is looked at.
Response(cycle, cmd) ==
  IF nextReadCycle_ = cycle THEN [id |-> nextReadId_, data |-> nextReadData_] ELSE None

\* eval: cmd is what the core asserts in the cycle.
MemoryEval(cycle, cmd) ==
  /\ rsp' = Response(cycle, cmd)
  /\ IF cmd # None /\ ~cmd.write
     THEN /\ memory_' = EnoughMemory(cmd.line)
          /\ nextReadData_' = LineOf(EnoughMemory(cmd.line), cmd.line)
          /\ nextReadCycle_' = cycle + 1
          /\ nextReadId_' = cmd.id
     ELSE /\ memory_' = IF cmd = None THEN memory_ ELSE Written(cmd)
          /\ nextReadCycle_' = IF nextReadCycle_ = cycle THEN 0 ELSE nextReadCycle_
          /\ UNCHANGED <<nextReadData_, nextReadId_>>

MemoryInit ==
  /\ memory_ = Image
  /\ nextReadCycle_ = 0
  /\ nextReadId_ \in Id
  /\ nextReadData_ = [o \in Offset |-> Fill]
  /\ rsp = None

MemoryTypeOK ==
  /\ DOMAIN memory_ = 0 .. Cardinality(DOMAIN memory_) - 1
  /\ memory_ \in [DOMAIN memory_ -> Word]
  /\ nextReadCycle_ \in Nat
  /\ nextReadId_ \in Id
  /\ nextReadData_ \in [Offset -> Data]
  /\ rsp \in [id : Id, data : [Offset -> Data]] \cup {None}
=============================================================================
