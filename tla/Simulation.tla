----------------------------- MODULE Simulation -----------------------------
(***************************************************************************)
(* A run of the simulator: the loop of main (ecosystem/simulation/main.cpp)*)
(* with the memory, the character and the test device, around a core whose *)
(* program uses the memory, or the functions of performance.c, and writes  *)
(* characters and test results.  A step is an iteration of the loop at a   *)
(* rising edge of the clock.                                               *)
(***************************************************************************)
EXTENDS SimulatedMemory, Performance

CONSTANTS
  MAX_CYCLES,
  ResetCycles,  \* cycles for which reset is asserted
  IntRange,     \* 2^32: the values of a test device's payload, and of an int
  Cmds          \* the loads and stores of the program

ASSUME SimulationAssumption ==
  /\ MAX_CYCLES \in Nat /\ MAX_CYCLES + 1 < CounterRange
  /\ ResetCycles \in Nat
  /\ IntRange \in Nat /\ IntRange > 1 /\ None \notin 0 .. IntRange - 1
  /\ Cmds \subseteq Load \cup Store

VARIABLES
  program,      \* what the program does: "traffic" or "timing"
  cycle, isDone, result,
  gotEot_, result_,  \* CharDev's and TestDev's
  passed,       \* "All tests passed" has been printed
  interrupted,  \* history: SIGINT has arrived
  report        \* history: the first result of the program that is one, or None

mainVars == <<program, cycle, isDone, result, gotEot_, result_, passed, interrupted, report>>
vars == <<memoryVars, performanceVars, mainVars>>

Payload == 0 .. IntRange - 1

Chars == {"char", "EOT"}

\* An unsigned payload in an int.
ToInt(payload) == IF 2 * payload >= IntRange THEN payload - IntRange ELSE payload

IsResult(res) == res >= 0

\* Mutant of AtLimit: one cycle more.
AtLimitLate(now) == now > MAX_CYCLES + 1

\* mainTime >= MAX_CYCLES * CLOCK_PERIOD, at a rising edge half a period into the cycle.
AtLimit(now) == now > MAX_CYCLES

\* The ids of loads that are not answered.
Waiting == IF nextReadCycle_ = cycle + 1 THEN {nextReadId_} ELSE {}

Quiet == [cmd |-> None, char |-> None, test |-> None]

\* What the core drives in a cycle; its bus reaches one of the devices at a time.
Outputs ==
  IF cycle < ResetCycles \/ at # "program" THEN {Quiet}
  ELSE {Quiet}
         \cup {[Quiet EXCEPT !.char = c] : c \in Chars}
         \cup {[Quiet EXCEPT !.test = t] : t \in Payload}
         \cup {[Quiet EXCEPT !.cmd = c] :
                 c \in {d \in Cmds : program = "traffic" /\ (d.write \/ d.id \notin Waiting)}}

\* The loop's body after the core and the memory have been evaluated.
Devices(out) ==
  LET res == IF out.test = None THEN result_ ELSE ToInt(out.test)
  IN /\ result_' = res
     /\ gotEot_' = IF out.char = None THEN gotEot_ ELSE out.char = "EOT"
     /\ isDone' = (gotEot_' \/ IsResult(res) \/ AtLimit(cycle + 1))
     /\ result' = IF (IsResult(res) /\ res # 0) \/ AtLimit(cycle + 1) THEN 1 ELSE 0
     /\ passed' = (IsResult(res) /\ res = 0)
     /\ report' = IF report = None /\ out.test # None /\ 2 * out.test < IntRange
                  THEN out.test ELSE report

ClockCycle ==
  /\ ~isDone
  /\ cycle' = cycle + 1
  /\ \E out \in Outputs :
       /\ MemoryEval(cycle + 1, out.cmd)
       /\ Devices(out)
  /\ UNCHANGED <<program, interrupted>>

\* A cycle of reset, a cycle in which an instruction is retired, and another.
InReset ==
  /\ cycle < ResetCycles
  /\ ClockCycle
  /\ UNCHANGED performanceVars

Retires ==
  /\ cycle >= ResetCycles /\ program = "timing"
  /\ ClockCycle
  /\ PerformanceStep
  /\ CountersCycle(TRUE)

Waits ==
  /\ cycle >= ResetCycles
  /\ ClockCycle
  /\ CountersCycle(FALSE)
  /\ UNCHANGED <<at, counter, caller, high, low, sleep_time, end_time, value, calledAt>>

\* handle_sigint; the iteration under way is finished.
Sigint ==
  /\ ~isDone
  /\ interrupted' = TRUE
  /\ isDone' = TRUE
  /\ UNCHANGED <<memoryVars, performanceVars, program, cycle, result, gotEot_, result_,
                 passed, report>>

Ended == isDone /\ UNCHANGED vars

Init ==
  /\ MemoryInit
  /\ PerformanceInit
  /\ program \in {"traffic", "timing"}
  /\ cycle = 0 /\ isDone = FALSE /\ result = 0
  /\ gotEot_ = FALSE /\ result_ = -1
  /\ passed = FALSE /\ interrupted = FALSE /\ report = None

Next == InReset \/ Retires \/ Waits \/ Sigint \/ Ended

Spec == Init /\ [][Next]_vars
-----------------------------------------------------------------------------
SimulationTypeOK ==
  /\ MemoryTypeOK
  /\ PerformanceTypeOK
  /\ program \in {"traffic", "timing"}
  /\ cycle \in Nat /\ isDone \in BOOLEAN /\ result \in {0, 1}
  /\ gotEot_ \in BOOLEAN
  /\ result_ \in Int /\ -IntRange <= 2 * result_ /\ 2 * result_ < IntRange
  /\ passed \in BOOLEAN /\ interrupted \in BOOLEAN /\ report \in Payload \cup {None}

\* The contents of a line; words that do not exist yet come to be as Fill.
Contents(line) ==
  [o \in Offset |->
     LET i == baseAddress(line) + o \div WordBytes
     IN IF i \in DOMAIN memory_ THEN memory_[i][o % WordBytes] ELSE Fill]

\* The simulator's memory is a memory: a vector that grows while it is used, with one
\* register for the read under way, never gives a load other bytes than the last
\* stores before it left, and answers every load, in the cycle after it, although a
\* load may be accepted in the very cycle that answers another (main.cpp 79-108).
Main == INSTANCE MainMemory WITH
          mem <- [l \in Line |-> Contents(l)],
          owed <- [i \in Id |-> IF i \in Waiting THEN nextReadData_ ELSE None]

ImplementsMemory == Main!Spec

\* The simulation ends in time, and its exit status is that of the program's first
\* result unless the limit is reached in the same cycle; a status of zero stands for a
\* passed test, an end of output, or a SIGINT.  A payload that is negative as an int
\* is no result (main.cpp 232-252, 411-437).
VerdictIsRight ==
  /\ cycle > MAX_CYCLES => isDone
  /\ cycle <= MAX_CYCLES + 1
  /\ result = 1 <=> cycle > MAX_CYCLES \/ report \notin {0, None}
  /\ isDone /\ result = 0 => interrupted \/ gotEot_ \/ report = 0
  /\ passed => report = 0

\* rdcycle and rdinstret return a value the counter had while they ran, although it
\* may carry into its high half between the reads (performance.c 9-15, 24-30).
CountersAreNotTorn == value # NoValue => calledAt <= value /\ value <= Now

\* sleep returns after sleep_time cycles at the earliest, unless the end it computes is
\* past the end of the counter's range, when it returns too early (performance.c 54).
SleepsLongEnough ==
  [][caller = "loop" /\ at # "program" /\ at' = "program" =>
       counters.cycle - calledAt >= sleep_time \/ end_time < sleep_time]_vars
=============================================================================
