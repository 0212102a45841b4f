----------------------------- MODULE Performance -----------------------------
(***************************************************************************)
(* rdcycle, rdinstret and sleep (ecosystem/newlib-bsp/performance.c) on a  *)
(* 32-bit core, whose 64-bit counters (plugins/Timers.scala) are read one  *)
(* half at a time while they count.  HalfRange stands for 2^32.            *)
(***************************************************************************)
EXTENDS Integers

CONSTANTS HalfRange, SleepTimes

CounterRange == HalfRange * HalfRange
CounterValue == 0 .. CounterRange - 1

ASSUME PerformanceAssumption ==
  /\ HalfRange \in Nat \ {0, 1}
  /\ SleepTimes \subseteq CounterValue

VARIABLES
  counters,           \* the registers cycle and instret
  at,                 \* the instruction of the functions that runs next, or "program"
  counter, caller,    \* which counter is read, and by whom
  high, low,          \* rdcycleh and rdcycle, or rdinstreth and rdinstret
  sleep_time, end_time,
  value, calledAt     \* what the program got; history: the counter at its call

performanceVars ==
  <<counters, at, counter, caller, high, low, sleep_time, end_time, value, calledAt>>

NoValue == -1

Now == counters[counter]
High == Now \div HalfRange
Low == Now % HalfRange

\* A cycle of the counters; retired: the core retires an instruction in it.
CountersCycle(retired) ==
  counters' = [cycle |-> (counters.cycle + 1) % CounterRange,
               instret |-> IF retired THEN (counters.instret + 1) % CounterRange
                           ELSE counters.instret]

CallsCounter(c) ==
  /\ at = "program"
  /\ counter' = c /\ caller' = "program"
  /\ calledAt' = counters[c]
  /\ value' = NoValue
  /\ at' = "readHigh"
  /\ UNCHANGED <<high, low, sleep_time, end_time>>

CallsSleep(t) ==
  /\ at = "program"
  /\ counter' = "cycle" /\ caller' = "sleep"
  /\ sleep_time' = t
  /\ calledAt' = counters.cycle
  /\ value' = NoValue
  /\ at' = "readHigh"
  /\ UNCHANGED <<high, low, end_time>>

ReadsHigh ==
  /\ at = "readHigh"
  /\ high' = High
  /\ at' = "readLow"
  /\ UNCHANGED <<counter, caller, low, sleep_time, end_time, value, calledAt>>

ReadsLow ==
  /\ at = "readLow"
  /\ low' = Low
  /\ at' = "check"
  /\ UNCHANGED <<counter, caller, high, sleep_time, end_time, value, calledAt>>

Result == high * HalfRange + low

\* The high half has changed: both are read again.
ReadsAgain ==
  /\ at = "check" /\ High # high
  /\ at' = "readHigh"
  /\ UNCHANGED <<counter, caller, high, low, sleep_time, end_time, value, calledAt>>

\* Mutant of Consistent: the third read is not compared.
ConsistentUnchecked == at = "check"

Consistent == at = "check" /\ High = high

Returns ==
  /\ Consistent /\ caller = "program"
  /\ value' = Result
  /\ at' = "program"
  /\ UNCHANGED <<counter, caller, high, low, sleep_time, end_time, calledAt>>

\* Mutant of SetsEndTime: does not keep to 64 bits.
SetsEndTimeUnbounded ==
  /\ Consistent /\ caller = "sleep"
  /\ end_time' = Result + sleep_time
  /\ caller' = "loop"
  /\ at' = "readHigh"
  /\ UNCHANGED <<counter, high, low, sleep_time, value, calledAt>>

SetsEndTime ==
  /\ Consistent /\ caller = "sleep"
  /\ end_time' = (Result + sleep_time) % CounterRange
  /\ caller' = "loop"
  /\ at' = "readHigh"
  /\ UNCHANGED <<counter, high, low, sleep_time, value, calledAt>>

\* Mutant of Sleeps: compares the low half only.
SleepsLow == low < end_time % HalfRange

Sleeps == Result < end_time

SleepLoops ==
  /\ Consistent /\ caller = "loop"
  /\ at' = IF Sleeps THEN "readHigh" ELSE "program"
  /\ UNCHANGED <<counter, caller, high, low, sleep_time, end_time, value, calledAt>>

\* An instruction of the functions is retired, or of the program, which calls them.
PerformanceStep ==
  \/ ReadsHigh \/ ReadsLow \/ ReadsAgain \/ Returns \/ SetsEndTime \/ SleepLoops
  \/ \E c \in {"cycle", "instret"} : CallsCounter(c)
  \/ \E t \in SleepTimes : CallsSleep(t)

PerformanceInit ==
  /\ counters = [cycle |-> 0, instret |-> 0]
  /\ at = "program" /\ counter = "cycle" /\ caller = "program"
  /\ high = 0 /\ low = 0 /\ sleep_time = 0 /\ end_time = 0
  /\ value = NoValue /\ calledAt = 0

PerformanceTypeOK ==
  /\ counters \in [{"cycle", "instret"} -> CounterValue]
  /\ at \in {"program", "readHigh", "readLow", "check"}
  /\ counter \in {"cycle", "instret"} /\ caller \in {"program", "sleep", "loop"}
  /\ high \in 0 .. HalfRange - 1 /\ low \in 0 .. HalfRange - 1
  /\ sleep_time \in CounterValue /\ end_time \in CounterValue
  /\ value \in CounterValue \cup {NoValue} /\ calledAt \in CounterValue
=============================================================================
