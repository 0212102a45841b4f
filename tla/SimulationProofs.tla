-------------------------- MODULE SimulationProofs --------------------------
(***************************************************************************)
(* Theorems about a run of the simulator: the verdict it ends with, what   *)
(* the program reads from counters that go on counting, that the memory, a *)
(* growing vector with one read under way, implements MainMemory, and that *)
(* every register stays in its range, for lines and words of any size and  *)
(* any program.                                                            *)
(***************************************************************************)
EXTENDS Simulation, FiniteSetTheorems, TLAPS

(* The verdict. *)

\* What VerdictIsRight rests on: a run goes on while there is no result yet.
VerdictInvariant ==
  /\ cycle \in Nat /\ isDone \in BOOLEAN /\ result \in {0, 1} /\ result_ \in Int
  /\ gotEot_ \in BOOLEAN /\ passed \in BOOLEAN
  /\ report \in Payload \cup {None}
  /\ ~isDone => report = None /\ result_ < 0 /\ cycle <= MAX_CYCLES
  /\ VerdictIsRight

\* A payload is a result exactly if it is not negative as an int, and is then its
\* own value (main.cpp 232-252).
LEMMA PayloadAsInt ==
    ASSUME NEW test \in Payload
    PROVE  /\ ToInt(test) \in Int
           /\ ToInt(test) >= 0 <=> 2 * test < IntRange
           /\ 2 * test < IntRange => ToInt(test) = test
<1>1. IntRange \in Nat /\ test \in Nat /\ test < IntRange
  BY SimulationAssumption DEF Payload
<1>2. CASE 2 * test >= IntRange
  <2>1. ToInt(test) = test - IntRange
    BY <1>2 DEF ToInt
  <2>2. QED BY <1>1, <1>2, <2>1
<1>3. CASE 2 * test < IntRange
  <2>1. ToInt(test) = test
    BY <1>1, <1>3 DEF ToInt
  <2>2. QED BY <1>1, <1>3, <2>1
<1>4. QED BY <1>1, <1>2, <1>3

\* An iteration of the loop of main, which ends it or has nothing to report
\* (main.cpp 411-437).
LEMMA ClockCycleVerdict ==
    ASSUME VerdictInvariant, ClockCycle
    PROVE  VerdictInvariant'
<1>1. PICK out \in Outputs : Devices(out)
  BY DEF ClockCycle
<1>2. /\ cycle \in Nat /\ cycle <= MAX_CYCLES /\ cycle' = cycle + 1
      /\ report = None /\ result_ \in Int /\ result_ < 0 /\ interrupted' = interrupted
      /\ MAX_CYCLES \in Nat
  BY SimulationAssumption DEF VerdictInvariant, ClockCycle
<1>3. AtLimit(cycle + 1) <=> cycle' > MAX_CYCLES
  BY <1>2 DEF AtLimit
<1>4. out.test \in Payload \cup {None}
  BY DEF Outputs, Quiet
<1>5. /\ result_' \in Int
      /\ result_' >= 0 => report' = result_' /\ report' \in Payload
      /\ result_' < 0 => report' = None
  <2>1. CASE out.test = None
    BY <1>1, <1>2, <2>1 DEF Devices
  <2>2. CASE out.test # None
    <3>1. out.test \in Payload /\ result_' = ToInt(out.test)
      BY <1>1, <1>4, <2>2 DEF Devices
    <3>2. /\ result_' \in Int
          /\ result_' >= 0 <=> 2 * out.test < IntRange
          /\ 2 * out.test < IntRange => result_' = out.test
      BY <3>1, PayloadAsInt
    <3>3. 2 * out.test < IntRange => report' = out.test
      BY <1>1, <1>2, <2>2 DEF Devices
    <3>4. ~(2 * out.test < IntRange) => report' = None
      BY <1>1, <1>2, <2>2 DEF Devices
    <3>5. QED BY <3>1, <3>2, <3>3, <3>4
  <2>3. QED BY <2>1, <2>2
<1>6. /\ isDone' = (gotEot_' \/ result_' >= 0 \/ cycle' > MAX_CYCLES)
      /\ result' = IF (result_' >= 0 /\ result_' # 0) \/ cycle' > MAX_CYCLES
                   THEN 1 ELSE 0
      /\ passed' = (result_' >= 0 /\ result_' = 0)
      /\ gotEot_' \in BOOLEAN
  BY <1>1, <1>3 DEF Devices, IsResult, VerdictInvariant
<1>7. None \notin Payload /\ 0 \in Payload
  BY SimulationAssumption DEF Payload
<1>8. /\ report' \in Payload \cup {None} /\ isDone' \in BOOLEAN /\ result' \in {0, 1}
      /\ passed' \in BOOLEAN
  BY <1>5, <1>6
<1>9. ~isDone' => report' = None /\ result_' < 0 /\ cycle' <= MAX_CYCLES
  <2>1. ~isDone' => ~(result_' >= 0) /\ ~(cycle' > MAX_CYCLES)
    BY <1>6
  <2>2. ~(result_' >= 0) => report' = None /\ result_' < 0
    BY <1>5
  <2>3. ~(cycle' > MAX_CYCLES) => cycle' <= MAX_CYCLES
    BY <1>2
  <2>4. QED BY <2>1, <2>2, <2>3
<1>10. VerdictIsRight'
  <2>1. /\ cycle' > MAX_CYCLES => isDone'
        /\ cycle' <= MAX_CYCLES + 1
    <3>1. cycle' > MAX_CYCLES => isDone'
      BY <1>6
    <3>2. cycle' <= MAX_CYCLES + 1
      BY <1>2
    <3>3. QED BY <3>1, <3>2
  <2>2. report' \notin {0, None} <=> result_' >= 0 /\ result_' # 0
    BY <1>5, <1>7
  <2>3. result' = 1 <=> cycle' > MAX_CYCLES \/ report' \notin {0, None}
    BY <1>6, <2>2
  <2>4. isDone' /\ result' = 0 => interrupted' \/ gotEot_' \/ report' = 0
    BY <1>5, <1>6
  <2>5. passed' => report' = 0
    BY <1>5, <1>6
  <2>6. QED BY <2>1, <2>3, <2>4, <2>5 DEF VerdictIsRight
<1>11. QED
  BY <1>2, <1>5, <1>6, <1>8, <1>9, <1>10 DEF VerdictInvariant

\* A run starts without a verdict.
LEMMA VerdictInvariantInit == Init => VerdictInvariant
<1> SUFFICES ASSUME Init PROVE VerdictInvariant
  OBVIOUS
<1>1. /\ cycle = 0 /\ isDone = FALSE /\ result = 0 /\ gotEot_ = FALSE /\ result_ = -1
      /\ passed = FALSE /\ report = None
  BY DEF Init
<1>2. 0 <= MAX_CYCLES /\ ~(0 > MAX_CYCLES) /\ 0 <= MAX_CYCLES + 1
  BY SimulationAssumption
<1>3. VerdictIsRight
  BY <1>1, <1>2 DEF VerdictIsRight
<1>4. cycle \in Nat /\ result_ \in Int /\ result_ < 0 /\ cycle <= MAX_CYCLES
  BY <1>1, <1>2
<1>5. isDone \in BOOLEAN /\ gotEot_ \in BOOLEAN /\ passed \in BOOLEAN
  BY <1>1
<1>6. result \in {0, 1} /\ report \in Payload \cup {None}
  BY <1>1
<1>7. QED BY <1>1, <1>3, <1>4, <1>5, <1>6 DEF VerdictInvariant

\* Every step keeps the invariant.
LEMMA VerdictInvariantStep == VerdictInvariant /\ [Next]_vars => VerdictInvariant'
<1> SUFFICES ASSUME VerdictInvariant, [Next]_vars PROVE VerdictInvariant'
  OBVIOUS
<1>1. CASE ClockCycle
  BY <1>1, ClockCycleVerdict
<1>2. CASE Sigint
  BY <1>2 DEF Sigint, VerdictInvariant, VerdictIsRight
<1>3. CASE UNCHANGED vars
  BY <1>3 DEF vars, mainVars, VerdictInvariant, VerdictIsRight
<1>4. QED
  BY <1>1, <1>2, <1>3 DEF Next, InReset, Retires, Waits, Ended

\* The simulation ends at its limit at the latest, with the exit status of the first
\* result the program reports (main.cpp 232-252, 411-437).
THEOREM VerdictHolds == Spec => []VerdictIsRight
<1>1. VerdictInvariant => VerdictIsRight
  BY DEF VerdictInvariant
<1>2. QED BY <1>1, VerdictInvariantInit, VerdictInvariantStep, PTL DEF Spec
-----------------------------------------------------------------------------
(* The counters. *)

CounterNames == {"cycle", "instret"}

CountersTypeOK ==
  /\ counters \in [CounterNames -> Nat]
  /\ counter \in CounterNames /\ caller \in {"program", "sleep", "loop"}
  /\ at \in {"program", "readHigh", "readLow", "check"}
  /\ high \in Nat /\ low \in Nat
  /\ sleep_time \in CounterValue /\ end_time \in Nat
  /\ value \in Nat \cup {NoValue} /\ calledAt \in Nat

\* In a run no counter comes round: none is ahead of the simulator's own cycle.
CountersBounded ==
  /\ cycle \in Nat /\ cycle <= MAX_CYCLES + 1 /\ isDone \in BOOLEAN
  /\ ~isDone => cycle <= MAX_CYCLES
  /\ \A c \in CounterNames : counters[c] <= cycle

\* The halves come from values the counter had, first the high one, since the call.
HalvesFit ==
  /\ calledAt <= Now
  /\ at = "readLow" => \E m \in calledAt .. Now : high = m \div HalfRange
  /\ at = "check" =>
       \E m \in calledAt .. Now : \E n \in m .. Now :
         high = m \div HalfRange /\ low = n % HalfRange

SleepFits ==
  /\ caller \in {"sleep", "loop"} => counter = "cycle"
  /\ caller = "loop" => end_time >= calledAt + sleep_time \/ end_time < sleep_time

CountersInvariant ==
  /\ CountersTypeOK
  /\ CountersBounded
  /\ HalvesFit
  /\ SleepFits
  /\ CountersAreNotTorn

\* What is known of division by the range of half a counter.
LEMMA Halves ==
    ASSUME NEW m \in Nat
    PROVE  /\ m \div HalfRange \in Nat /\ m % HalfRange \in Nat
           /\ m % HalfRange < HalfRange
           /\ m = (m \div HalfRange) * HalfRange + (m % HalfRange)
BY PerformanceAssumption

\* The remainder of a number that passes the divisor once.
LEMMA RemainderPastOne ==
    ASSUME NEW n \in Nat \ {0}, NEW m \in Nat, m >= n, m < 2 * n
    PROVE  m % n = m - n
<1> DEFINE q == m \div n
           rest == m % n
<1>1. q \in Int /\ rest \in Nat /\ rest < n /\ m = q * n + rest
  OBVIOUS
<1> HIDE DEF q, rest
<1>2. q < 2
  <2>1. SUFFICES ASSUME q >= 2 PROVE FALSE
    BY <1>1
  <2>2. q * n >= 2 * n
    BY <1>1, <2>1
  <2>3. q * n \in Int
    BY <1>1
  <2>4. QED BY <1>1, <2>2, <2>3
<1>3. q > 0
  <2>1. SUFFICES ASSUME q <= 0 PROVE FALSE
    BY <1>1
  <2>2. q * n <= 0
    BY <1>1, <2>1
  <2>3. q * n \in Int
    BY <1>1
  <2>4. QED BY <1>1, <2>2, <2>3
<1>4. q = 1
  BY <1>1, <1>2, <1>3
<1>5. rest = m - n
  BY <1>1, <1>4
<1>6. QED BY <1>5 DEF rest

\* The high half does not fall while a counter counts.
LEMMA HighGrows ==
    ASSUME NEW m \in Nat, NEW n \in Nat, m <= n
    PROVE  m \div HalfRange <= n \div HalfRange
<1> DEFINE a == m \div HalfRange
           b == n \div HalfRange
<1>1. /\ HalfRange \in Nat /\ HalfRange > 0 /\ a \in Nat /\ b \in Nat
      /\ m = a * HalfRange + (m % HalfRange) /\ m % HalfRange \in Nat
      /\ n = b * HalfRange + (n % HalfRange) /\ n % HalfRange \in Nat
      /\ n % HalfRange < HalfRange
  BY Halves, PerformanceAssumption
<1>2. SUFFICES ASSUME a >= b + 1 PROVE FALSE
  BY <1>1
<1> HIDE DEF a, b
<1>3. a * HalfRange >= (b + 1) * HalfRange
  BY <1>1, <1>2
<1>4. (b + 1) * HalfRange = b * HalfRange + HalfRange
  BY <1>1
<1>5. a * HalfRange \in Nat /\ b * HalfRange \in Nat
  BY <1>1
<1>6. QED BY <1>1, <1>3, <1>4, <1>5

\* Two reads of the high half that agree enclose a read of the low half of the same
\* value, and this is what is put together from them (performance.c 9-15).
LEMMA HalvesFromOneValue ==
    ASSUME CountersInvariant, Consistent
    PROVE  Result \in calledAt .. Now
<1>1. calledAt \in Nat /\ Now \in Nat
  BY DEF CountersInvariant, CountersTypeOK, Now
<1>2. PICK m \in calledAt .. Now : \E n \in m .. Now :
        high = m \div HalfRange /\ low = n % HalfRange
  BY DEF CountersInvariant, HalvesFit, Consistent
<1>3. PICK n \in m .. Now : high = m \div HalfRange /\ low = n % HalfRange
  BY <1>2
<1>4. m \in Nat /\ n \in Nat /\ m <= n /\ n <= Now /\ calledAt <= n
  BY <1>1
<1>5. high = Now \div HalfRange
  BY DEF Consistent, High
<1>6. m \div HalfRange <= n \div HalfRange /\ n \div HalfRange <= Now \div HalfRange
  BY <1>1, <1>4, HighGrows
<1>7. n \div HalfRange \in Nat /\ m \div HalfRange \in Nat
  BY <1>4, Halves
<1>8. n \div HalfRange = high
  BY <1>3, <1>5, <1>6, <1>7
<1>9. Result = n
  BY <1>3, <1>4, <1>8, Halves DEF Result
<1>10. QED BY <1>1, <1>4, <1>9

\* A cycle of the counters takes each of them one further, or leaves it.
LEMMA CountersGoOn ==
    ASSUME CountersInvariant, ClockCycle, NEW retired \in BOOLEAN, CountersCycle(retired)
    PROVE  /\ counters' \in [CounterNames -> Nat]
           /\ \A c \in CounterNames : counters[c] <= counters'[c]
           /\ CountersBounded'
<1>1. /\ cycle \in Nat /\ cycle <= MAX_CYCLES /\ cycle' = cycle + 1 /\ ~isDone
      /\ counters \in [CounterNames -> Nat]
      /\ \A c \in CounterNames : counters[c] <= cycle
      /\ MAX_CYCLES \in Nat /\ MAX_CYCLES + 1 < CounterRange
  BY SimulationAssumption
  DEF CountersInvariant, CountersTypeOK, CountersBounded, ClockCycle
<1>2. CounterRange \in Nat
  BY PerformanceAssumption DEF CounterRange
<1>3. \A c \in CounterNames :
        counters[c] \in Nat /\ (counters[c] + 1) % CounterRange = counters[c] + 1
  <2> SUFFICES ASSUME NEW c \in CounterNames
               PROVE  /\ counters[c] \in Nat
                      /\ (counters[c] + 1) % CounterRange = counters[c] + 1
    OBVIOUS
  <2>1. counters[c] \in Nat /\ counters[c] + 1 < CounterRange
    BY <1>1, <1>2
  <2>2. QED BY <2>1, <1>2
<1>4. counters' = [cycle |-> counters["cycle"] + 1,
                   instret |-> IF retired THEN counters["instret"] + 1
                               ELSE counters["instret"]]
  BY <1>3 DEF CountersCycle, CounterNames
<1>5. \A c \in CounterNames :
        counters'[c] \in Nat /\ counters[c] <= counters'[c] /\ counters'[c] <= cycle'
  BY <1>1, <1>3, <1>4 DEF CounterNames
<1>6. counters' \in [CounterNames -> Nat]
  BY <1>3, <1>4 DEF CounterNames
<1>7. isDone' \in BOOLEAN /\ (~isDone' => cycle' <= MAX_CYCLES)
  <2>1. PICK out \in Outputs : Devices(out)
    BY DEF ClockCycle
  <2>2. isDone' \in BOOLEAN /\ (AtLimit(cycle + 1) => isDone')
    BY <2>1 DEF Devices
  <2>3. QED BY <1>1, <2>2 DEF AtLimit
<1>8. QED
  BY <1>1, <1>5, <1>6, <1>7 DEF CountersBounded

\* As time goes by what was read stays within what the counter has had.
LEMMA HalvesStayFit ==
    ASSUME CountersInvariant, counters' \in [CounterNames -> Nat],
           \A c \in CounterNames : counters[c] <= counters'[c],
           UNCHANGED <<at, counter, high, low, value, calledAt>>
    PROVE  /\ Now \in Nat /\ Now' \in Nat /\ Now <= Now' /\ calledAt \in Nat
           /\ HalvesFit' /\ CountersAreNotTorn'
<1>1. Now \in Nat /\ Now' \in Nat /\ Now <= Now'
  BY DEF CountersInvariant, CountersTypeOK, Now
<1>2. calledAt \in Nat /\ calledAt <= Now /\ value \in Nat \cup {NoValue}
  BY DEF CountersInvariant, CountersTypeOK, HalvesFit
<1>3. \A m \in calledAt .. Now : m \in calledAt .. Now' /\ m .. Now \subseteq m .. Now'
  BY <1>1, <1>2
<1>4. at = "readLow" => \E m \in calledAt .. Now' : high = m \div HalfRange
  BY <1>3 DEF CountersInvariant, HalvesFit
<1>5. at = "check" =>
        \E m \in calledAt .. Now' : \E n \in m .. Now' :
          high = m \div HalfRange /\ low = n % HalfRange
  BY <1>3 DEF CountersInvariant, HalvesFit
<1>6. HalvesFit'
  BY <1>1, <1>2, <1>4, <1>5 DEF HalvesFit
<1>7. CountersAreNotTorn'
  BY <1>1, <1>2 DEF CountersInvariant, CountersAreNotTorn, NoValue
<1>8. QED BY <1>1, <1>2, <1>6, <1>7

\* A cycle in which the functions of performance.c go no further.
LEMMA CountersPass ==
    ASSUME CountersInvariant, counters' \in [CounterNames -> Nat],
           \A c \in CounterNames : counters[c] <= counters'[c], CountersBounded',
           UNCHANGED <<at, counter, caller, high, low, sleep_time, end_time, value, calledAt>>
    PROVE  CountersInvariant'
<1>1. HalvesFit' /\ CountersAreNotTorn'
  BY HalvesStayFit
<1>2. CountersTypeOK' /\ SleepFits'
  BY DEF CountersInvariant, CountersTypeOK, SleepFits
<1>3. QED BY <1>1, <1>2 DEF CountersInvariant

\* A call of rdcycle, rdinstret or sleep (performance.c 4, 19, 52).
LEMMA CallsStep ==
    ASSUME CountersInvariant, counters' \in [CounterNames -> Nat],
           \A c \in CounterNames : counters[c] <= counters'[c], CountersBounded',
           (\E c \in CounterNames : CallsCounter(c)) \/ (\E t \in SleepTimes : CallsSleep(t))
    PROVE  CountersInvariant'
<1>1. /\ counter' \in CounterNames /\ calledAt' = counters[counter']
      /\ caller' \in {"program", "sleep"} /\ (caller' = "sleep" => counter' = "cycle")
      /\ sleep_time' \in CounterValue
      /\ value' = NoValue /\ at' = "readHigh" /\ UNCHANGED <<high, low, end_time>>
  BY PerformanceAssumption
  DEF CallsCounter, CallsSleep, CounterNames, CountersInvariant, CountersTypeOK
<1>2. Now' = counters'[counter']
  BY DEF Now
<1>3. calledAt' \in Nat /\ calledAt' <= Now'
  BY <1>1, <1>2 DEF CountersInvariant, CountersTypeOK
<1>4. CountersTypeOK'
  BY <1>1, <1>3 DEF CountersInvariant, CountersTypeOK
<1>5. HalvesFit' /\ CountersAreNotTorn'
  BY <1>1, <1>3 DEF HalvesFit, CountersAreNotTorn
<1>6. SleepFits'
  BY <1>1 DEF SleepFits
<1>7. QED BY <1>4, <1>5, <1>6 DEF CountersInvariant

\* The reads of the two halves (performance.c 11-12).
LEMMA ReadsStep ==
    ASSUME CountersInvariant, counters' \in [CounterNames -> Nat],
           \A c \in CounterNames : counters[c] <= counters'[c], CountersBounded',
           ReadsHigh \/ ReadsLow
    PROVE  CountersInvariant'
<1>1. /\ Now \in Nat /\ calledAt \in Nat /\ calledAt <= Now /\ high \in Nat /\ low \in Nat
      /\ Now' \in Nat /\ Now <= Now' /\ value \in Nat \cup {NoValue}
      /\ UNCHANGED <<counter, caller, sleep_time, end_time, value, calledAt>>
  BY DEF CountersInvariant, CountersTypeOK, HalvesFit, Now, ReadsHigh, ReadsLow
<1>2. CountersAreNotTorn'
  BY <1>1 DEF CountersInvariant, CountersAreNotTorn, NoValue
<1>3. SleepFits'
  BY <1>1 DEF CountersInvariant, SleepFits
<1>4. CASE ReadsHigh
  <2>1. high' = Now \div HalfRange /\ low' = low /\ at' = "readLow"
    BY <1>4 DEF ReadsHigh, High
  <2>2. Now \in calledAt .. Now' /\ high' \in Nat
    BY <1>1, <2>1, Halves
  <2>3. HalvesFit'
    BY <1>1, <2>1, <2>2 DEF HalvesFit
  <2>4. CountersTypeOK'
    BY <1>1, <2>1, <2>2 DEF CountersInvariant, CountersTypeOK
  <2>5. QED BY <1>2, <1>3, <2>3, <2>4 DEF CountersInvariant
<1>5. CASE ReadsLow
  <2>1. low' = Now % HalfRange /\ high' = high /\ at = "readLow" /\ at' = "check"
    BY <1>5 DEF ReadsLow, Low
  <2>2. PICK m \in calledAt .. Now : high = m \div HalfRange
    BY <2>1 DEF CountersInvariant, HalvesFit
  <2>3. m \in calledAt .. Now' /\ Now \in m .. Now' /\ low' \in Nat
    BY <1>1, <2>1, Halves
  <2>4. HalvesFit'
    BY <1>1, <2>1, <2>2, <2>3 DEF HalvesFit
  <2>5. CountersTypeOK'
    BY <1>1, <2>1, <2>3 DEF CountersInvariant, CountersTypeOK
  <2>6. QED BY <1>2, <1>3, <2>4, <2>5 DEF CountersInvariant
<1>6. QED BY <1>4, <1>5

\* The comparison of the high halves, and what comes after it (performance.c 13-15,
\* 54-59).
LEMMA ChecksStep ==
    ASSUME CountersInvariant, counters' \in [CounterNames -> Nat],
           \A c \in CounterNames : counters[c] <= counters'[c], CountersBounded',
           ReadsAgain \/ Returns \/ SetsEndTime \/ SleepLoops
    PROVE  CountersInvariant'
<1>1. /\ Now \in Nat /\ calledAt \in Nat /\ calledAt <= Now
      /\ Now' \in Nat /\ Now <= Now' /\ value \in Nat \cup {NoValue}
      /\ UNCHANGED <<counter, high, low, sleep_time, calledAt>>
  BY DEF CountersInvariant, CountersTypeOK, HalvesFit, Now, ReadsAgain, Returns,
         SetsEndTime, SleepLoops
<1>2. at' \in {"program", "readHigh"}
  BY DEF ReadsAgain, Returns, SetsEndTime, SleepLoops
<1>3. HalvesFit'
  BY <1>1, <1>2 DEF HalvesFit
<1>4. CASE ReadsAgain \/ SleepLoops
  <2>1. UNCHANGED <<caller, end_time, value>>
    BY <1>4 DEF ReadsAgain, SleepLoops
  <2>2. CountersTypeOK' /\ SleepFits'
    BY <1>1, <1>2, <2>1 DEF CountersInvariant, CountersTypeOK, SleepFits
  <2>3. CountersAreNotTorn'
    BY <1>1, <2>1 DEF CountersInvariant, CountersAreNotTorn, NoValue
  <2>4. QED BY <1>3, <2>2, <2>3 DEF CountersInvariant
<1>5. CASE Returns
  <2>1. value' = Result /\ caller = "program" /\ UNCHANGED <<caller, end_time>>
    BY <1>5 DEF Returns
  <2>2. value' \in Nat /\ calledAt <= value' /\ value' <= Now'
    BY <1>1, <1>5, <2>1, HalvesFromOneValue DEF Returns
  <2>3. CountersTypeOK' /\ SleepFits'
    BY <1>1, <1>2, <2>1, <2>2 DEF CountersInvariant, CountersTypeOK, SleepFits
  <2>4. CountersAreNotTorn'
    BY <1>1, <2>2 DEF CountersAreNotTorn
  <2>5. QED BY <1>3, <2>3, <2>4 DEF CountersInvariant
<1>6. CASE SetsEndTime
  <2>1. /\ end_time' = (Result + sleep_time) % CounterRange
        /\ caller = "sleep" /\ caller' = "loop" /\ value' = value
    BY <1>6 DEF SetsEndTime
  <2>2. Result \in Nat /\ calledAt <= Result /\ Result <= Now
    BY <1>1, <1>6, HalvesFromOneValue DEF SetsEndTime
  <2>3. Now < CounterRange /\ CounterRange \in Nat \ {0}
    BY <1>1, SimulationAssumption, PerformanceAssumption
    DEF CountersInvariant, CountersBounded, CountersTypeOK, CounterRange, Now
  <2>4. sleep_time \in Nat /\ sleep_time < CounterRange
    BY <2>3 DEF CountersInvariant, CountersTypeOK, CounterValue
  <2>5. CASE Result + sleep_time < CounterRange
    <3>1. end_time' = Result + sleep_time
      BY <2>1, <2>2, <2>3, <2>4, <2>5
    <3>2. end_time' \in Nat /\ end_time' >= calledAt + sleep_time
      BY <1>1, <2>2, <2>4, <3>1
    <3>3. QED
      BY <1>1, <1>2, <1>3, <2>1, <3>2
      DEF CountersInvariant, CountersTypeOK, SleepFits, CountersAreNotTorn, NoValue
  <2>6. CASE Result + sleep_time >= CounterRange
    <3>1. end_time' = (Result + sleep_time) - CounterRange
      <4>1. Result + sleep_time \in Nat /\ Result + sleep_time < 2 * CounterRange
        BY <2>2, <2>3, <2>4, <1>1
      <4>2. ASSUME NEW m \in Nat, m >= CounterRange, m < 2 * CounterRange
            PROVE  m % CounterRange = m - CounterRange
        BY <2>3, <4>2, RemainderPastOne
      <4>3. (Result + sleep_time) % CounterRange = (Result + sleep_time) - CounterRange
        BY <2>6, <4>1, <4>2
      <4>4. QED BY <2>1, <4>3
    <3>2. end_time' \in Nat /\ end_time' < sleep_time
      BY <1>1, <2>2, <2>3, <2>4, <2>6, <3>1
    <3>3. QED
      BY <1>1, <1>2, <1>3, <2>1, <3>2
      DEF CountersInvariant, CountersTypeOK, SleepFits, CountersAreNotTorn, NoValue
  <2>7. QED BY <2>2, <2>3, <2>4, <2>5, <2>6
<1>7. QED BY <1>4, <1>5, <1>6

\* A step of the simulation keeps the invariant.
LEMMA CountersInvariantStep == CountersInvariant /\ [Next]_vars => CountersInvariant'
<1> SUFFICES ASSUME CountersInvariant, [Next]_vars PROVE CountersInvariant'
  OBVIOUS
<1>1. ASSUME counters' = counters PROVE
        /\ counters' \in [CounterNames -> Nat]
        /\ \A c \in CounterNames : counters[c] <= counters'[c]
  BY <1>1 DEF CountersInvariant, CountersTypeOK
<1>2. CASE InReset
  <2>1. CountersBounded'
    <3>1. PICK out \in Outputs : Devices(out)
      BY <1>2 DEF InReset, ClockCycle
    <3>2. isDone' \in BOOLEAN /\ (AtLimit(cycle + 1) => isDone')
      BY <3>1 DEF Devices
    <3>3. ~isDone /\ cycle' = cycle + 1 /\ counters' = counters
      BY <1>2 DEF InReset, ClockCycle, performanceVars
    <3>4. cycle' \in Nat /\ cycle' <= MAX_CYCLES + 1
      BY <3>3, SimulationAssumption DEF CountersInvariant, CountersBounded
    <3>5. ~isDone' => cycle' <= MAX_CYCLES
      BY <3>2, <3>3, <3>4, SimulationAssumption DEF AtLimit
    <3>6. \A c \in CounterNames : counters'[c] <= cycle'
      BY <3>3, <3>4 DEF CountersInvariant, CountersTypeOK, CountersBounded
    <3>7. QED BY <3>2, <3>4, <3>5, <3>6 DEF CountersBounded
  <2>2. counters' = counters
    BY <1>2 DEF InReset, performanceVars
  <2>3. QED
    BY <1>1, <1>2, <2>1, <2>2, CountersPass DEF InReset, performanceVars
<1>3. CASE Retires
  <2>1. /\ counters' \in [CounterNames -> Nat]
        /\ \A c \in CounterNames : counters[c] <= counters'[c]
        /\ CountersBounded'
    BY <1>3, CountersGoOn DEF Retires
  <2>2. QED
    BY <1>3, <2>1, CallsStep, ReadsStep, ChecksStep
    DEF Retires, PerformanceStep, CounterNames
<1>4. CASE Waits
  <2>1. /\ counters' \in [CounterNames -> Nat]
        /\ \A c \in CounterNames : counters[c] <= counters'[c]
        /\ CountersBounded'
    BY <1>4, CountersGoOn DEF Waits
  <2>2. QED
    BY <1>4, <2>1, CountersPass DEF Waits
<1>5. CASE Sigint \/ UNCHANGED vars
  <2>1. counters' = counters /\ CountersBounded'
    BY <1>5
    DEF Sigint, vars, mainVars, performanceVars, CountersInvariant, CountersBounded
  <2>2. QED
    BY <1>1, <1>5, <2>1, CountersPass DEF Sigint, vars, performanceVars
<1>6. QED BY <1>2, <1>3, <1>4, <1>5 DEF Next, Ended

\* Counters start at zero, with the first cycle.
LEMMA CountersInvariantInit == Init => CountersInvariant
<1> SUFFICES ASSUME Init PROVE CountersInvariant
  OBVIOUS
<1>1. /\ counters = [cycle |-> 0, instret |-> 0] /\ at = "program"
      /\ counter = "cycle" /\ caller = "program"
      /\ high = 0 /\ low = 0 /\ sleep_time = 0 /\ end_time = 0
      /\ value = NoValue /\ calledAt = 0 /\ cycle = 0 /\ isDone = FALSE
  BY DEF Init, PerformanceInit
<1>2. MAX_CYCLES \in Nat /\ CounterRange \in Nat /\ 0 \in CounterValue
  BY SimulationAssumption, PerformanceAssumption DEF CounterRange, CounterValue
<1>3. CountersTypeOK
  BY <1>1, <1>2 DEF CountersTypeOK, CounterNames
<1>4. CountersBounded
  <2>1. cycle \in Nat /\ cycle <= MAX_CYCLES + 1 /\ cycle <= MAX_CYCLES
    BY <1>1, <1>2
  <2>2. isDone \in BOOLEAN /\ \A c \in CounterNames : counters[c] <= cycle
    <3>1. counters["cycle"] = 0 /\ counters["instret"] = 0
      BY <1>1
    <3>2. \A c \in CounterNames : counters[c] <= cycle
      BY <1>1, <3>1 DEF CounterNames
    <3>3. isDone \in BOOLEAN
      BY <1>1
    <3>4. QED BY <3>2, <3>3
  <2>3. QED BY <2>1, <2>2 DEF CountersBounded
<1>5. HalvesFit /\ SleepFits /\ CountersAreNotTorn
  BY <1>1 DEF HalvesFit, SleepFits, CountersAreNotTorn, Now
<1>6. QED BY <1>3, <1>4, <1>5 DEF CountersInvariant

\* What rdcycle and rdinstret return is a value the counter had while they ran
\* (performance.c 9-15, 24-30).
THEOREM CountersAreWhole == Spec => []CountersAreNotTorn
<1>1. CountersInvariant => CountersAreNotTorn
  BY DEF CountersInvariant
<1>2. QED
  BY <1>1, CountersInvariantInit, CountersInvariantStep, PTL DEF Spec

\* sleep does not return early, unless the end it computes wraps (performance.c 52-60).
THEOREM SleepLasts == Spec => SleepsLongEnough
<1>1. ASSUME CountersInvariant, [Next]_vars,
             caller = "loop", at # "program", at' = "program"
      PROVE  counters.cycle - calledAt >= sleep_time \/ end_time < sleep_time
  <2>1. SleepLoops
    BY <1>1
    DEF Next, InReset, Retires, Waits, Sigint, Ended, vars, performanceVars,
        PerformanceStep, ReadsHigh, ReadsLow, ReadsAgain, Returns, SetsEndTime,
        CallsCounter, CallsSleep
  <2>2. Consistent /\ ~Sleeps
    BY <1>1, <2>1 DEF SleepLoops
  <2>3. /\ Now = counters.cycle /\ Now \in Nat /\ calledAt \in Nat
        /\ end_time \in Nat /\ sleep_time \in Nat
    BY <1>1, PerformanceAssumption
    DEF CountersInvariant, CountersTypeOK, SleepFits, Now, CounterNames, CounterValue,
        CounterRange
  <2>4. Result \in Nat /\ Result <= Now
    BY <1>1, <2>2, <2>3, HalvesFromOneValue
  <2>5. end_time <= Now
    BY <2>2, <2>3, <2>4 DEF Sleeps
  <2>6. end_time >= calledAt + sleep_time \/ end_time < sleep_time
    BY <1>1 DEF CountersInvariant, SleepFits
  <2>7. QED BY <2>3, <2>5, <2>6
<1>2. CountersInvariant /\ [Next]_vars
        => [caller = "loop" /\ at # "program" /\ at' = "program" =>
              counters.cycle - calledAt >= sleep_time \/ end_time < sleep_time]_vars
  BY <1>1
<1>3. QED
  BY <1>2, CountersInvariantInit, CountersInvariantStep, PTL DEF Spec, SleepsLongEnough

-----------------------------------------------------------------------------
(* The memory. *)

MemoryInvariant ==
  /\ memory_ \in [DOMAIN memory_ -> Word]
  /\ nextReadId_ \in Id /\ nextReadData_ \in [Offset -> Data]
  /\ cycle \in Nat /\ nextReadCycle_ \in Nat /\ nextReadCycle_ <= cycle + 1

\* What Contents says, of any vector.
ContentsOf(vector, line) ==
  [o \in Offset |->
     LET i == baseAddress(line) + o \div WordBytes
     IN IF i \in DOMAIN vector THEN vector[i][o % WordBytes] ELSE Fill]
-----------------------------------------------------------------------------
(* Lines, words and bytes. *)

\* An offset in a line is a word of it and a byte in the word (main.cpp 135-139).
LEMMA OffsetParts ==
    ASSUME NEW o \in Offset
    PROVE  /\ o \div WordBytes \in 0 .. MEMBUS_WORDS - 1
           /\ o % WordBytes \in 0 .. WordBytes - 1
           /\ o = (o \div WordBytes) * WordBytes + (o % WordBytes)
<1> DEFINE q == o \div WordBytes
           r == o % WordBytes
<1>1. /\ MEMBUS_WORDS \in Nat /\ WordBytes \in Nat /\ WordBytes > 0 /\ o \in Nat
  BY SimulatedMemoryAssumption DEF Offset
<1>2. o < MEMBUS_WORDS * WordBytes
  <2>1. MEMBUS_WORDS * WordBytes \in Nat
    BY <1>1
  <2>2. QED BY <2>1 DEF Offset
<1>3. q \in Nat /\ r \in Nat /\ r < WordBytes /\ o = q * WordBytes + r
  BY <1>1
<1> HIDE DEF q, r
<1>4. q < MEMBUS_WORDS
  <2>1. SUFFICES ASSUME q >= MEMBUS_WORDS PROVE FALSE
    BY <1>1, <1>3
  <2>2. q * WordBytes >= MEMBUS_WORDS * WordBytes
    BY <1>1, <1>3, <2>1
  <2>3. q * WordBytes \in Nat /\ MEMBUS_WORDS * WordBytes \in Nat
    BY <1>1, <1>3
  <2>4. QED BY <1>1, <1>2, <1>3, <2>2, <2>3
<1>5. QED
  BY <1>1, <1>3, <1>4 DEF q, r

\* Where a line begins and ends in the vector.
LEMMA LineBounds ==
    ASSUME NEW line \in Line
    PROVE  /\ baseAddress(line) \in Nat
           /\ baseAddress(line + 1) = baseAddress(line) + MEMBUS_WORDS
           /\ MEMBUS_WORDS \in Nat
BY SimulatedMemoryAssumption DEF Line, baseAddress

\* Lines do not overlap: a word of one line is in the range of another only if they
\* are the same.
LEMMA WordsOfLines ==
    ASSUME NEW line \in Line, NEW other \in Line, NEW q \in 0 .. MEMBUS_WORDS - 1
    PROVE  /\ line = other => (baseAddress(line) + q) - baseAddress(other) = q
           /\ line # other =>
                (baseAddress(line) + q) - baseAddress(other) \notin 0 .. MEMBUS_WORDS - 1
<1>1. /\ line \in Nat /\ other \in Nat /\ q \in Nat /\ q < MEMBUS_WORDS
      /\ MEMBUS_WORDS \in Nat
      /\ baseAddress(line) \in Nat /\ baseAddress(other) \in Nat
  BY SimulatedMemoryAssumption, LineBounds DEF Line
<1>2. CASE line = other
  BY <1>1, <1>2
<1>3. CASE line > other
  <2>1. line * MEMBUS_WORDS >= (other + 1) * MEMBUS_WORDS
    BY <1>1, <1>3
  <2>2. (other + 1) * MEMBUS_WORDS = other * MEMBUS_WORDS + MEMBUS_WORDS
    BY <1>1
  <2>3. baseAddress(line) >= baseAddress(other) + MEMBUS_WORDS
    BY <2>1, <2>2 DEF baseAddress
  <2>4. (baseAddress(line) + q) - baseAddress(other) >= MEMBUS_WORDS
    BY <1>1, <2>3
  <2>5. QED BY <1>1, <1>3, <2>4
<1>4. CASE line < other
  <2>1. other * MEMBUS_WORDS >= (line + 1) * MEMBUS_WORDS
    BY <1>1, <1>4
  <2>2. (line + 1) * MEMBUS_WORDS = line * MEMBUS_WORDS + MEMBUS_WORDS
    BY <1>1
  <2>3. baseAddress(other) >= baseAddress(line) + MEMBUS_WORDS
    BY <2>1, <2>2 DEF baseAddress
  <2>4. (baseAddress(line) + q) - baseAddress(other) < 0
    BY <1>1, <2>3
  <2>5. QED BY <1>1, <1>4, <2>4
<1>5. QED BY <1>1, <1>2, <1>3, <1>4
-----------------------------------------------------------------------------
(* The vector. *)

\* The contents of a line are bytes.
LEMMA ContentsType ==
    ASSUME NEW vector, vector \in [DOMAIN vector -> Word], NEW line \in Line
    PROVE  ContentsOf(vector, line) \in [Offset -> Data]
<1>1. ASSUME NEW o \in Offset
      PROVE  ContentsOf(vector, line)[o] \in Data
  <2>1. o % WordBytes \in 0 .. WordBytes - 1
    BY OffsetParts
  <2>2. QED
    BY <2>1, SimulatedMemoryAssumption DEF ContentsOf, Word
<1>2. QED BY <1>1 DEF ContentsOf

\* ensureEnoughMemory changes no contents, and makes room for the whole line
\* (main.cpp 169-180).
LEMMA Grown ==
    ASSUME MemoryInvariant, NEW line \in Line
    PROVE  /\ EnoughMemory(line) \in [DOMAIN EnoughMemory(line) -> Word]
           /\ \A l \in Line : ContentsOf(EnoughMemory(line), l) = Contents(l)
           /\ \A o \in Offset :
                baseAddress(line) + o \div WordBytes \in DOMAIN EnoughMemory(line)
<1> DEFINE vector == EnoughMemory(line)
<1>1. /\ DOMAIN vector = DOMAIN memory_ \cup 0 .. baseAddress(line + 1)
      /\ \A i \in DOMAIN vector :
           vector[i] = IF i \in DOMAIN memory_ THEN memory_[i] ELSE FillWord
  BY DEF EnoughMemory
<1>2. FillWord \in Word /\ \A b \in 0 .. WordBytes - 1 : FillWord[b] = Fill
  BY SimulatedMemoryAssumption DEF FillWord, Word
<1>3. vector \in [DOMAIN vector -> Word]
  <2>1. \A i \in DOMAIN vector : vector[i] \in Word
    BY <1>1, <1>2 DEF MemoryInvariant
  <2>2. QED BY <2>1 DEF EnoughMemory
<1>4. ASSUME NEW l \in Line PROVE ContentsOf(vector, l) = Contents(l)
  <2>1. ASSUME NEW o \in Offset
        PROVE  ContentsOf(vector, l)[o] = Contents(l)[o]
    <3>1. o % WordBytes \in 0 .. WordBytes - 1
      BY OffsetParts
    <3> HIDE DEF vector
    <3>2. QED BY <1>1, <1>2, <3>1 DEF ContentsOf, Contents
  <2>2. QED BY <2>1 DEF ContentsOf, Contents
<1>5. ASSUME NEW o \in Offset
      PROVE  baseAddress(line) + o \div WordBytes \in DOMAIN vector
  <2>1. baseAddress(line) + (o \div WordBytes) \in 0 .. baseAddress(line + 1)
    BY OffsetParts, LineBounds
  <2>2. QED BY <1>1, <2>1
<1>6. QED BY <1>3, <1>4, <1>5

\* A read copies the contents of its line, though it be beyond the vector's end
\* (main.cpp 131-140).
LEMMA ReadsContents ==
    ASSUME MemoryInvariant, NEW line \in Line
    PROVE  LineOf(EnoughMemory(line), line) = Contents(line)
<1>1. \A o \in Offset :
        LineOf(EnoughMemory(line), line)[o] = ContentsOf(EnoughMemory(line), line)[o]
  BY Grown DEF LineOf, WordAt, ContentsOf
<1>2. ContentsOf(EnoughMemory(line), line) = Contents(line)
  BY Grown
<1>3. QED BY <1>1, <1>2 DEF LineOf, Contents

\* A write replaces the bytes whose strobe is set, in its line and in no other
\* (main.cpp 142-167).
LEMMA WritesContents ==
    ASSUME MemoryInvariant, NEW cmd \in Store
    PROVE  /\ Written(cmd) \in [DOMAIN Written(cmd) -> Word]
           /\ \A l \in Line : ContentsOf(Written(cmd), l) =
                IF l = cmd.line THEN Main!Written(Contents(l), cmd) ELSE Contents(l)
<1> DEFINE vector == EnoughMemory(cmd.line)
           written == Written(cmd)
           Word1(i) == [b \in 0 .. WordBytes - 1 |->
                    IF (i - baseAddress(cmd.line)) * WordBytes + b \in cmd.strb
                    THEN cmd.data[(i - baseAddress(cmd.line)) * WordBytes + b]
                    ELSE vector[i][b]]
<1>1. cmd.line \in Line /\ cmd.strb \subseteq Offset /\ cmd.data \in [Offset -> Data]
  BY DEF Store
<1>2. /\ vector \in [DOMAIN vector -> Word]
      /\ \A l \in Line : ContentsOf(vector, l) = Contents(l)
      /\ \A o \in Offset : baseAddress(cmd.line) + o \div WordBytes \in DOMAIN vector
  BY <1>1, Grown
<1>3. /\ DOMAIN written = DOMAIN vector
      /\ written = [i \in DOMAIN vector |->
                      IF i - baseAddress(cmd.line) \notin 0 .. MEMBUS_WORDS - 1
                      THEN vector[i] ELSE Word1(i)]
  BY DEF Written
<1> HIDE DEF vector, written
<1>4. \A i \in DOMAIN vector : Word1(i) \in Word
  BY <1>1, <1>2 DEF Word
<1>5. written \in [DOMAIN written -> Word]
  BY <1>2, <1>3, <1>4
<1>6. ASSUME NEW l \in Line, NEW o \in Offset
      PROVE  ContentsOf(written, l)[o] =
               IF l = cmd.line /\ o \in cmd.strb THEN cmd.data[o] ELSE Contents(l)[o]
  <2> DEFINE q == o \div WordBytes
             b == o % WordBytes
             i == baseAddress(l) + q
  <2>1. q \in 0 .. MEMBUS_WORDS - 1 /\ b \in 0 .. WordBytes - 1 /\ o = q * WordBytes + b
    BY OffsetParts
  <2>2. ContentsOf(written, l)[o] = IF i \in DOMAIN written THEN written[i][b] ELSE Fill
    BY DEF ContentsOf
  <2>3. Contents(l)[o] = IF i \in DOMAIN vector THEN vector[i][b] ELSE Fill
    BY <1>2 DEF ContentsOf
  <2>4. /\ l = cmd.line => i - baseAddress(cmd.line) = q /\ i \in DOMAIN vector
        /\ l # cmd.line => i - baseAddress(cmd.line) \notin 0 .. MEMBUS_WORDS - 1
    BY <1>1, <1>2, <2>1, WordsOfLines
  <2> HIDE DEF q, b, i
  <2>5. CASE l = cmd.line
    <3>1. written[i] = Word1(i)
      BY <1>3, <2>1, <2>4, <2>5
    <3>2. written[i][b] =
            IF q * WordBytes + b \in cmd.strb THEN cmd.data[q * WordBytes + b]
            ELSE vector[i][b]
      BY <2>1, <2>4, <2>5, <3>1
    <3>3. QED BY <1>3, <2>1, <2>2, <2>3, <2>4, <2>5, <3>2
  <2>6. CASE l # cmd.line
    <3>1. i \in DOMAIN vector => written[i] = vector[i]
      BY <1>3, <2>4, <2>6
    <3>2. QED BY <1>3, <2>2, <2>3, <2>6, <3>1
  <2>7. QED BY <2>5, <2>6
<1>7. ASSUME NEW l \in Line
      PROVE  ContentsOf(written, l) =
               IF l = cmd.line THEN Main!Written(Contents(l), cmd) ELSE Contents(l)
  BY <1>6 DEF ContentsOf, Contents, Main!Written
<1>8. QED BY <1>5, <1>7 DEF written
-----------------------------------------------------------------------------
(* The memory behind the bus. *)

Mem == [l \in Line |-> Contents(l)]
Owed == [i \in Id |-> IF i \in Waiting THEN nextReadData_ ELSE None]

\* The invariant of a cycle of eval, whatever the core asks for (main.cpp 72-109).
LEMMA EvalInvariant ==
    ASSUME MemoryInvariant, NEW cmd \in Cmds \cup {None}, MemoryEval(cycle + 1, cmd),
           cycle' = cycle + 1
    PROVE  MemoryInvariant'
<1>1. cycle \in Nat /\ nextReadCycle_ \in Nat /\ nextReadCycle_ <= cycle + 1
  BY DEF MemoryInvariant
<1>2. CASE cmd # None /\ ~cmd.write
  <2>1. cmd.line \in Line /\ cmd.id \in Id
    BY <1>2, SimulationAssumption DEF Load, Store
  <2>2. /\ memory_' = EnoughMemory(cmd.line) /\ nextReadCycle_' = cycle + 2
        /\ nextReadData_' = Contents(cmd.line) /\ nextReadId_' = cmd.id
    BY <1>1, <1>2, <2>1, ReadsContents DEF MemoryEval
  <2>3. memory_' \in [DOMAIN memory_' -> Word]
    BY <2>1, <2>2, Grown
  <2>4. Contents(cmd.line) \in [Offset -> Data]
    BY <2>1, ContentsType DEF MemoryInvariant, Contents, ContentsOf
  <2>5. QED
    BY <1>1, <2>1, <2>2, <2>3, <2>4 DEF MemoryInvariant
<1>3. CASE ~(cmd # None /\ ~cmd.write)
  <2>1. /\ UNCHANGED <<nextReadData_, nextReadId_>>
        /\ nextReadCycle_' \in {0, nextReadCycle_}
        /\ memory_' = IF cmd = None THEN memory_ ELSE Written(cmd)
    BY <1>3 DEF MemoryEval
  <2>2. cmd # None => cmd \in Store
    BY <1>3, SimulationAssumption DEF Load
  <2>3. memory_' \in [DOMAIN memory_' -> Word]
    BY <2>1, <2>2, WritesContents DEF MemoryInvariant
  <2>4. QED
    BY <1>1, <2>1, <2>3 DEF MemoryInvariant
<1>4. QED BY <1>2, <1>3

\* A command changes the contents of the lines as it would change a memory's.
LEMMA EvalContents ==
    ASSUME MemoryInvariant, NEW cmd \in Cmds \cup {None}, MemoryEval(cycle + 1, cmd)
    PROVE  Mem' = IF Main!Stores(cmd)
                  THEN [Mem EXCEPT ![cmd.line] = Main!Written(@, cmd)] ELSE Mem
<1>1. \A l \in Line : Contents(l)' = ContentsOf(memory_', l)
  BY DEF Contents, ContentsOf
<1>2. CASE cmd = None
  <2>1. memory_' = memory_ /\ ~Main!Stores(cmd)
    BY <1>2 DEF MemoryEval, Main!Stores
  <2>2. QED BY <2>1 DEF Mem, Contents
<1>3. CASE cmd # None /\ ~cmd.write
  <2>1. cmd.line \in Line
    BY <1>3, SimulationAssumption DEF Load, Store
  <2>2. memory_' = EnoughMemory(cmd.line) /\ ~Main!Stores(cmd)
    BY <1>3 DEF MemoryEval, Main!Stores
  <2>3. \A l \in Line : Contents(l)' = Contents(l)
    BY <1>1, <2>1, <2>2, Grown
  <2>4. QED BY <2>2, <2>3 DEF Mem
<1>4. CASE cmd # None /\ cmd.write
  <2>1. cmd \in Store /\ cmd.line \in Line /\ Main!Stores(cmd)
    BY <1>4, SimulationAssumption DEF Load, Store, Main!Stores
  <2>2. memory_' = Written(cmd)
    BY <1>4 DEF MemoryEval
  <2>3. \A l \in Line : Contents(l)' =
          IF l = cmd.line THEN Main!Written(Contents(l), cmd) ELSE Contents(l)
    BY <1>1, <2>1, <2>2, WritesContents
  <2>4. QED BY <2>1, <2>3 DEF Mem
<1>5. QED BY <1>2, <1>3, <1>4

\* A load is owed the contents its line had when it was accepted, and is owed nothing
\* after the cycle that answers it, also if that cycle accepts another.
LEMMA EvalOwed ==
    ASSUME MemoryInvariant, NEW cmd \in Cmds \cup {None}, MemoryEval(cycle + 1, cmd),
           cycle' = cycle + 1, cmd # None /\ ~cmd.write => cmd.id \notin Waiting
    PROVE  LET answer == IF nextReadCycle_ = cycle + 1 THEN nextReadId_ ELSE None
           IN Main!Cycle(cmd, answer)
<1> DEFINE answer == IF nextReadCycle_ = cycle + 1 THEN nextReadId_ ELSE None
<1>1. /\ cycle \in Nat /\ nextReadCycle_ \in Nat /\ nextReadCycle_ <= cycle + 1
      /\ nextReadId_ \in Id /\ nextReadData_ \in [Offset -> Data]
      /\ None \notin Id /\ None \notin [Offset -> Data]
  BY SimulatedMemoryAssumption DEF MemoryInvariant
<1>2. /\ answer # None <=> nextReadCycle_ = cycle + 1
      /\ answer # None => answer = nextReadId_
      /\ \A i \in Id : i \in Waiting <=> i = answer
      /\ \A i \in Id : Owed[i] = IF i = answer THEN nextReadData_ ELSE None
  BY <1>1 DEF Waiting, Owed
<1>3. rsp' = IF answer = None THEN None ELSE [id |-> answer, data |-> Owed[answer]]
  BY <1>1, <1>2 DEF MemoryEval, Response
<1>4. answer # None => Owed[answer] # None
  BY <1>1, <1>2
<1> HIDE DEF answer
<1>5. CASE Main!Loads(cmd)
  <2>1. cmd # None /\ ~cmd.write /\ cmd.line \in Line /\ cmd.id \in Id
    BY <1>5, SimulationAssumption DEF Load, Store, Main!Loads
  <2>2. nextReadData_' = Contents(cmd.line) /\ nextReadCycle_' = cycle' + 1
        /\ nextReadId_' = cmd.id
    BY <2>1, ReadsContents DEF MemoryEval
  <2>3. Waiting' = {cmd.id}
    BY <2>2 DEF Waiting
  <2>4. Owed' = [i \in Id |-> IF i = cmd.id THEN Mem[cmd.line]
                              ELSE IF i = answer THEN None ELSE Owed[i]]
    BY <1>2, <2>1, <2>2, <2>3 DEF Owed, Mem
  <2>5. Owed[cmd.id] = None
    BY <1>2, <2>1
  <2>6. QED
    BY <1>3, <1>4, <1>5, <2>4, <2>5, EvalContents DEF Main!Cycle, Mem, Owed, answer
<1>6. CASE ~Main!Loads(cmd)
  <2>1. nextReadCycle_' \in {0, nextReadCycle_}
        /\ (nextReadCycle_ = cycle + 1 => nextReadCycle_' = 0)
    BY <1>6 DEF MemoryEval, Main!Loads
  <2>2. Waiting' = {}
    BY <1>1, <2>1 DEF Waiting
  <2>3. Owed' = [i \in Id |-> IF i = answer THEN None ELSE Owed[i]]
    BY <1>2, <2>2 DEF Owed
  <2>4. QED
    BY <1>3, <1>4, <1>6, <2>3, EvalContents DEF Main!Cycle, Mem, Owed, answer
<1>7. QED BY <1>5, <1>6

\* Before the first cycle no read is under way.
LEMMA MemoryInvariantInit == Init => MemoryInvariant
BY SimulatedMemoryAssumption DEF Init, MemoryInit, MemoryInvariant, Offset

\* A cycle is one of the memory that is promised, anything else leaves it alone.
LEMMA MemoryStep == MemoryInvariant /\ [Next]_vars => MemoryInvariant' /\ [Main!Next]_Main!vars
<1>1. ASSUME MemoryInvariant, ClockCycle
      PROVE  MemoryInvariant' /\ Main!Next
  <2>1. PICK out \in Outputs : MemoryEval(cycle + 1, out.cmd)
    BY <1>1 DEF ClockCycle
  <2>2. cycle' = cycle + 1
    BY <1>1 DEF ClockCycle
  <2>3. /\ out.cmd \in Cmds \cup {None}
        /\ out.cmd # None /\ ~out.cmd.write => out.cmd.id \notin Waiting
    BY DEF Outputs, Quiet
  <2>4. MemoryInvariant'
    BY <1>1, <2>1, <2>2, <2>3, EvalInvariant
  <2>5. \E answer \in Id \cup {None} : Main!Cycle(out.cmd, answer)
    <3> DEFINE cmd == out.cmd
               answer == IF nextReadCycle_ = cycle + 1 THEN nextReadId_ ELSE None
    <3>1. answer \in Id \cup {None}
      BY <1>1 DEF MemoryInvariant
    <3>2. cmd \in Cmds \cup {None} /\ MemoryEval(cycle + 1, cmd)
      BY <2>1, <2>3
    <3>3. cmd # None /\ ~cmd.write => cmd.id \notin Waiting
      BY <2>3
    <3> HIDE DEF cmd
    <3>4. Main!Cycle(cmd, answer)
      BY <1>1, <2>2, <3>2, <3>3, EvalOwed
    <3> HIDE DEF answer
    <3>5. QED BY <3>1, <3>4 DEF cmd, Main!Cycle, Main!Loads, Main!Stores
  <2>6. QED BY <2>3, <2>4, <2>5 DEF Main!Next
<1>2. ASSUME MemoryInvariant, UNCHANGED <<memoryVars, cycle>>
      PROVE  MemoryInvariant' /\ UNCHANGED Main!vars
  BY <1>2 DEF memoryVars, MemoryInvariant, Main!vars, Contents, Waiting
<1>3. QED
  BY <1>1, <1>2 DEF Next, InReset, Retires, Waits, Sigint, Ended, vars, mainVars

\* The simulator's memory is a memory (main.cpp 72-109, 131-178).
THEOREM MemoryIsImplemented == Spec => ImplementsMemory
<1>1. Init => Main!Init
  <2> SUFFICES ASSUME Init PROVE Main!Init
    OBVIOUS
  <2>1. Mem \in [Line -> [Offset -> Data]]
    BY MemoryInvariantInit, ContentsType DEF MemoryInvariant, Mem, Contents, ContentsOf
  <2>2. Waiting = {}
    BY DEF Init, MemoryInit, Waiting
  <2>3. QED BY <2>1, <2>2 DEF Main!Init, Mem, Init, MemoryInit
<1>2. QED
  BY <1>1, MemoryInvariantInit, MemoryStep, PTL DEF Spec, ImplementsMemory, Main!Spec
-----------------------------------------------------------------------------
(* What the registers and the vector may hold. *)

\* The vector has no gaps: it only grows at its end.
MemoryShape ==
  /\ \E n \in Nat : DOMAIN memory_ = 0 .. n
  /\ rsp \in [id : Id, data : [Offset -> Data]] \cup {None}

\* ensureEnoughMemory appends words, if any, and a write adds none (main.cpp 142-180).
LEMMA StaysWithoutGaps ==
    ASSUME MemoryInvariant, MemoryShape, NEW cmd \in Cmds \cup {None},
           MemoryEval(cycle + 1, cmd)
    PROVE  MemoryShape'
<1>1. PICK n \in Nat : DOMAIN memory_ = 0 .. n
  BY DEF MemoryShape
<1>2. rsp' \in [id : Id, data : [Offset -> Data]] \cup {None}
  BY DEF MemoryInvariant, MemoryEval, Response
<1>3. CASE cmd = None
  BY <1>1, <1>2, <1>3 DEF MemoryEval, MemoryShape
<1>4. CASE cmd # None
  <2>1. cmd.line \in Line
    BY <1>4, SimulationAssumption DEF Load, Store
  <2>2. baseAddress(cmd.line + 1) \in Nat
    BY <2>1, LineBounds
  <2>3. memory_' = EnoughMemory(cmd.line) \/ memory_' = Written(cmd)
    BY <1>4 DEF MemoryEval
  <2>4. DOMAIN memory_' = 0 .. n \cup 0 .. baseAddress(cmd.line + 1)
    BY <1>1, <2>3 DEF EnoughMemory, Written
  <2> DEFINE end == baseAddress(cmd.line + 1)
  <2>5. 0 .. n \cup 0 .. end = 0 .. (IF n < end THEN end ELSE n)
    BY <2>2
  <2>6. QED BY <1>2, <2>2, <2>4, <2>5 DEF MemoryShape
<1>5. QED BY <1>3, <1>4

\* The counters and what is read from them stay in range; the sum sleep computes is cut
\* to 64 bits (performance.c 9-15, 54).
LEMMA PerformanceTypes ==
    ASSUME PerformanceTypeOK
    PROVE  /\ CounterRange \in Nat \ {0} /\ HalfRange \in Nat \ {0}
           /\ High \in 0 .. HalfRange - 1 /\ Low \in 0 .. HalfRange - 1
           /\ Result \in CounterValue
<1>1. /\ HalfRange \in Nat /\ HalfRange > 0 /\ CounterRange = HalfRange * HalfRange
      /\ high \in Nat /\ low \in Nat /\ high <= HalfRange - 1 /\ low <= HalfRange - 1
      /\ Now \in Nat /\ Now <= CounterRange - 1
  BY PerformanceAssumption
  DEF CounterRange, PerformanceTypeOK, Now, CounterValue
<1>2. HalfRange * HalfRange \in Nat \ {0}
  BY <1>1
<1>3. Result \in CounterValue
  <2>1. high * HalfRange <= (HalfRange - 1) * HalfRange
    BY <1>1
  <2>2. (HalfRange - 1) * HalfRange = HalfRange * HalfRange - HalfRange
    BY <1>1
  <2>3. high * HalfRange \in Nat
    BY <1>1
  <2>4. high * HalfRange + low <= HalfRange * HalfRange - 1
    BY <1>1, <1>2, <2>1, <2>2, <2>3
  <2>5. QED BY <1>1, <1>2, <2>3, <2>4 DEF Result, CounterValue
<1>4. /\ Now \div HalfRange \in Nat /\ Now % HalfRange \in Nat
      /\ Now % HalfRange < HalfRange
      /\ Now = (Now \div HalfRange) * HalfRange + (Now % HalfRange)
  BY <1>1, Halves
<1>5. Now \div HalfRange < HalfRange
  <2> DEFINE q == Now \div HalfRange
  <2>1. SUFFICES ASSUME q >= HalfRange PROVE FALSE
    BY <1>1, <1>4
  <2> HIDE DEF q
  <2>2. q \in Nat /\ q >= HalfRange /\ Now = q * HalfRange + (Now % HalfRange)
    BY <1>4, <2>1 DEF q
  <2>3. q * HalfRange >= HalfRange * HalfRange /\ q * HalfRange \in Nat
    BY <1>1, <2>2
  <2>4. QED BY <1>1, <1>2, <1>4, <2>2, <2>3
<1>6. QED BY <1>1, <1>2, <1>3, <1>4, <1>5 DEF High, Low

\* A cycle of the counters keeps them in range.
LEMMA CountersKeepRange ==
    ASSUME PerformanceTypeOK, NEW retired \in BOOLEAN, CountersCycle(retired)
    PROVE  counters' \in [{"cycle", "instret"} -> CounterValue]
<1>1. CounterRange \in Nat \ {0}
  BY PerformanceTypes
<1>2. \A c \in {"cycle", "instret"} :
        counters[c] \in CounterValue /\ (counters[c] + 1) % CounterRange \in CounterValue
  BY <1>1 DEF PerformanceTypeOK, CounterValue
<1>3. QED BY <1>2 DEF CountersCycle

\* An instruction of the functions keeps the rest.
LEMMA PerformanceStepTypes ==
    ASSUME PerformanceTypeOK, PerformanceStep,
           counters' \in [{"cycle", "instret"} -> CounterValue]
    PROVE  PerformanceTypeOK'
<1>1. /\ CounterRange \in Nat \ {0}
      /\ High \in 0 .. HalfRange - 1 /\ Low \in 0 .. HalfRange - 1
      /\ Result \in CounterValue
  BY PerformanceTypes
<1>2. CASE SetsEndTime
  <2>1. \A n \in Nat : n % CounterRange \in CounterValue
    BY <1>1 DEF CounterValue
  <2>2. Result + sleep_time \in Nat
    BY <1>1 DEF PerformanceTypeOK, CounterValue
  <2>3. (Result + sleep_time) % CounterRange \in CounterValue
    BY <2>1, <2>2
  <2>4. QED BY <1>2, <2>3 DEF SetsEndTime, PerformanceTypeOK
<1>3. CASE ReadsHigh \/ ReadsLow \/ ReadsAgain
  BY <1>1, <1>3 DEF ReadsHigh, ReadsLow, ReadsAgain, PerformanceTypeOK
<1>4. CASE Returns \/ SleepLoops
  BY <1>1, <1>4 DEF Returns, SleepLoops, PerformanceTypeOK
<1>5. ASSUME NEW c \in {"cycle", "instret"}, CallsCounter(c) PROVE PerformanceTypeOK'
  BY <1>5 DEF CallsCounter, PerformanceTypeOK
<1>6. ASSUME NEW t \in SleepTimes, CallsSleep(t) PROVE PerformanceTypeOK'
  BY <1>6, PerformanceAssumption DEF CallsSleep, PerformanceTypeOK
<1>7. QED BY <1>2, <1>3, <1>4, <1>5, <1>6 DEF PerformanceStep

\* A result is a payload or a negative int (main.cpp 232-252).
ResultInRange ==
  result_ \in Int /\ -IntRange <= 2 * result_ /\ 2 * result_ < IntRange

\* An iteration of the loop keeps it.
LEMMA ResultStaysInRange ==
    ASSUME ResultInRange, ClockCycle
    PROVE  ResultInRange'
<1>1. PICK out \in Outputs : Devices(out)
  BY DEF ClockCycle
<1>2. out.test \in Payload \cup {None}
  BY DEF Outputs, Quiet
<1>3. CASE out.test = None
  BY <1>1, <1>3 DEF Devices, ResultInRange
<1>4. CASE out.test # None
  <2>1. /\ out.test \in Nat /\ out.test < IntRange /\ IntRange \in Nat
        /\ result_' = ToInt(out.test)
    BY <1>1, <1>2, <1>4, SimulationAssumption DEF Devices, Payload
  <2>2. CASE 2 * out.test >= IntRange
    BY <2>1, <2>2 DEF ToInt, ResultInRange
  <2>3. CASE ~(2 * out.test >= IntRange)
    BY <2>1, <2>3 DEF ToInt, ResultInRange
  <2>4. QED BY <2>2, <2>3
<1>5. QED BY <1>3, <1>4

\* What the types need besides the invariants above.
RangesInvariant ==
  /\ VerdictInvariant /\ MemoryInvariant
  /\ MemoryShape /\ PerformanceTypeOK /\ ResultInRange
  /\ program \in {"traffic", "timing"} /\ interrupted \in BOOLEAN

\* It holds at the start.
LEMMA RangesInvariantInit == Init => RangesInvariant
<1> SUFFICES ASSUME Init PROVE RangesInvariant
  OBVIOUS
<1>1. VerdictInvariant /\ MemoryInvariant
  BY VerdictInvariantInit, MemoryInvariantInit
<1>2. MemoryShape
  <2>1. DOMAIN memory_ = 0 .. ImageWords - 1 /\ rsp = None
    BY SimulatedMemoryAssumption DEF Init, MemoryInit
  <2>2. ImageWords - 1 \in Nat
    BY SimulatedMemoryAssumption
  <2>3. QED BY <2>1, <2>2 DEF MemoryShape
<1>3. PerformanceTypeOK
  <2>1. 0 \in CounterValue /\ 0 \in 0 .. HalfRange - 1
    <3>1. HalfRange \in Nat /\ HalfRange > 0
      BY PerformanceAssumption
    <3>2. HalfRange * HalfRange \in Nat /\ HalfRange * HalfRange > 0
      BY <3>1
    <3>3. QED BY <3>1, <3>2 DEF CounterValue, CounterRange
  <2>2. QED BY <2>1 DEF Init, PerformanceInit, PerformanceTypeOK
<1>4. ResultInRange
  BY SimulationAssumption DEF Init, ResultInRange
<1>5. QED BY <1>1, <1>2, <1>3, <1>4 DEF RangesInvariant, Init

\* Every step keeps it.
LEMMA RangesInvariantStep == RangesInvariant /\ [Next]_vars => RangesInvariant'
<1> SUFFICES ASSUME RangesInvariant, [Next]_vars PROVE RangesInvariant'
  OBVIOUS
<1>1. /\ VerdictInvariant /\ MemoryInvariant /\ MemoryShape /\ PerformanceTypeOK
      /\ ResultInRange
      /\ program \in {"traffic", "timing"} /\ interrupted \in BOOLEAN
  BY DEF RangesInvariant
<1>2. VerdictInvariant' /\ MemoryInvariant'
  BY <1>1, VerdictInvariantStep, MemoryStep
<1>3. CASE ClockCycle
  <2>1. PICK out \in Outputs : MemoryEval(cycle + 1, out.cmd)
    BY <1>3 DEF ClockCycle
  <2>2. out.cmd \in Cmds \cup {None}
    BY DEF Outputs, Quiet
  <2> DEFINE cmd == out.cmd
  <2>3. cmd \in Cmds \cup {None} /\ MemoryEval(cycle + 1, cmd)
    BY <2>1, <2>2
  <2> HIDE DEF cmd
  <2>4. MemoryShape'
    BY <1>1, <2>3, StaysWithoutGaps
  <2>5. ResultInRange'
    BY <1>1, <1>3, ResultStaysInRange
  <2>6. program' = program /\ interrupted' = interrupted
    BY <1>3 DEF ClockCycle
  <2>7. PerformanceTypeOK'
    <3>1. CASE InReset
      BY <1>1, <3>1 DEF InReset, performanceVars, PerformanceTypeOK
    <3>2. CASE Retires
      BY <1>1, <3>2, CountersKeepRange, PerformanceStepTypes DEF Retires
    <3>3. CASE Waits
      <4>1. counters' \in [{"cycle", "instret"} -> CounterValue]
        BY <1>1, <3>3, CountersKeepRange DEF Waits
      <4>2. QED BY <1>1, <3>3, <4>1 DEF Waits, PerformanceTypeOK
    <3>4. CASE Sigint \/ UNCHANGED vars
      BY <1>1, <3>4 DEF Sigint, vars, performanceVars, PerformanceTypeOK
    <3>5. QED BY <3>1, <3>2, <3>3, <3>4 DEF Next, Ended
  <2>8. QED BY <1>1, <1>2, <2>4, <2>5, <2>6, <2>7 DEF RangesInvariant
<1>4. CASE Sigint \/ UNCHANGED vars
  <2>1. UNCHANGED <<memoryVars, performanceVars, program, result_>>
        /\ interrupted' \in BOOLEAN
    BY <1>1, <1>4 DEF Sigint, vars, mainVars
  <2>2. MemoryShape' /\ PerformanceTypeOK' /\ ResultInRange'
    BY <1>1, <2>1
    DEF memoryVars, performanceVars, MemoryShape, PerformanceTypeOK, ResultInRange
  <2>3. QED BY <1>1, <1>2, <2>1, <2>2 DEF RangesInvariant
<1>5. QED BY <1>3, <1>4 DEF Next, InReset, Retires, Waits, Ended

\* Every register of a run and of the program holds what it may hold, and the vector has
\* no gaps (main.cpp 66-180, performance.c 4-60).
THEOREM SimulationTypeCorrect == Spec => []SimulationTypeOK
<1>1. Spec => []RangesInvariant
  BY RangesInvariantInit, RangesInvariantStep, PTL DEF Spec
<1>2. RangesInvariant => SimulationTypeOK
  <2> SUFFICES ASSUME RangesInvariant PROVE SimulationTypeOK
    OBVIOUS
  <2>1. MemoryTypeOK
    <3>1. PICK n \in Nat : DOMAIN memory_ = 0 .. n
      BY DEF RangesInvariant, MemoryShape
    <3>2. Cardinality(0 .. n) = n + 1
      BY FS_Interval
    <3>3. QED BY <3>1, <3>2 DEF RangesInvariant, MemoryShape, MemoryInvariant, MemoryTypeOK
  <2>2. QED
    BY <2>1
    DEF RangesInvariant, VerdictInvariant, ResultInRange, SimulationTypeOK
<1>3. QED BY <1>1, <1>2, PTL
=============================================================================
