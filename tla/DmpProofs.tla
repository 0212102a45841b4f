------------------------------ MODULE DmpProofs ------------------------------
(***************************************************************************)
(* The pointer-chasing prefetcher goes no further than it may, for any     *)
(* pointers, any recursion limit, any queue and any timing, while stores   *)
(* change the lines under it.  The argument: a target waits in the queue   *)
(* with the distance of its line from the lines the pipeline loaded, less  *)
(* one; the request that takes it is recorded under that distance; and an  *)
(* answer is scanned as what its request is, a load's or a prefetch's.     *)
(***************************************************************************)
EXTENDS DmpSystem, CacheCoherenceProofs, SequenceTheorems

USE DEF Way, Id, InternalId, Slot

\* Every target in the queue is as far from the pipeline's loads as its depth says.
NearEntries ==
    {e \in PrefetchQueueEntry :
        MaxRecursionDepth >= 0 =>
            /\ e.depth <= MaxRecursionDepth
            /\ \A n \in 0 .. NextLinePrefetches : LinePlus(e.target, n) \in Chased(demanded, e.depth)}
QueueIsChased == prefetchQueue \in [Index -> NearEntries \cup {None}]

\* A request that a load waits for is for a line the pipeline has loaded, and an answer
\* is what the memory has held.
LoadsAreDemanded ==
    \A i \in Id : Pending(i) /\ WaitingSlots(i) # {} => outstandingLoads[i].line \in demanded
AnswersAreHeld ==
    /\ MemoryImage \subseteq held
    /\ \A i \in Id : memRsp[i] # None => <<outstandingLoads[i].line, memRsp[i]>> \in held

\* DepthsAreRight, in the form that a step preserves.
DepthsAreKnown ==
    MaxRecursionDepth > 0 =>
        \A i \in OutstandingPrefetches :
            \E d \in Nat : /\ prefetchDepths[i] = d + 1
                           /\ outstandingLoads[i].line \in Chased(demanded, d)

DmpInvariant ==
    /\ CoherenceInvariant
    /\ DmpSystemTypeOK
    /\ QueueIsChased
    /\ LoadsAreDemanded
    /\ AnswersAreHeld
    /\ ChaseIsBounded
    /\ DepthsAreKnown

LEMMA DepthsFollow == DepthsAreKnown => DepthsAreRight
<1> SUFFICES ASSUME DepthsAreKnown, MaxRecursionDepth > 0, NEW i \in OutstandingPrefetches
             PROVE  /\ prefetchDepths[i] > 0
                    /\ outstandingLoads[i].line \in Chased(demanded, prefetchDepths[i] - 1)
  BY DEF DepthsAreRight
<1>1. PICK d \in Nat : /\ prefetchDepths[i] = d + 1
                       /\ outstandingLoads[i].line \in Chased(demanded, d)
  BY DEF DepthsAreKnown
<1>2. prefetchDepths[i] > 0 /\ prefetchDepths[i] - 1 = d
  BY <1>1
<1>3. QED BY <1>1, <1>2

-----------------------------------------------------------------------------
(* The lines that are chased. *)

\* Targets that a demanded line has are one hop away.
LEMMA ChasedFromDemanded ==
    ASSUME NEW lines, NEW line \in Line, line \in lines
    PROVE  TargetsOf(line) \subseteq Chased(lines, 0)
<1> DEFINE path == [k \in 0 .. 0 |-> line]
<1>1. path \in Paths(lines, 0) /\ path[0] = line
  BY DEF Paths
<1> HIDE DEF path
<1>2. QED BY <1>1 DEF Chased

\* Targets of a line that is chased are one hop further.
LEMMA ChasedFurther ==
    ASSUME NEW lines, NEW d \in Nat, NEW line \in Line, line \in Chased(lines, d)
    PROVE  TargetsOf(line) \subseteq Chased(lines, d + 1)
<1>1. PICK path \in Paths(lines, d) : line \in TargetsOf(path[d])
  BY DEF Chased
<1> DEFINE longer == [k \in 0 .. d + 1 |-> IF k = d + 1 THEN line ELSE path[k]]
<1>2. longer \in [0 .. d + 1 -> Line] /\ longer[0] \in lines /\ longer[d + 1] = line
  BY <1>1 DEF Paths
<1>3. ASSUME NEW k \in 1 .. d + 1
      PROVE  longer[k] \in lines \/ longer[k] \in TargetsOf(longer[k - 1])
  <2>1. CASE k = d + 1
    <3>1. longer[k] = line /\ longer[k - 1] = path[d]
      BY <2>1
    <3> HIDE DEF longer
    <3>2. QED BY <1>1, <3>1
  <2>2. CASE k # d + 1
    <3>1. k \in 1 .. d /\ longer[k] = path[k] /\ longer[k - 1] = path[k - 1]
      BY <2>2
    <3> HIDE DEF longer
    <3>2. QED BY <1>1, <3>1 DEF Paths
  <2>3. QED BY <2>1, <2>2
<1> HIDE DEF longer
<1>4. longer \in Paths(lines, d + 1)
  BY <1>2, <1>3 DEF Paths
<1>5. QED BY <1>2, <1>4 DEF Chased

\* More hops reach more lines.
LEMMA ChasedMonotone ==
    ASSUME NEW lines, NEW d \in Nat, NEW e \in Nat, d <= e
    PROVE  Chased(lines, d) \subseteq Chased(lines, e)
<1> SUFFICES ASSUME NEW path \in Paths(lines, d)
             PROVE  \E q \in Paths(lines, e) : q[e] = path[d]
  BY DEF Chased
<1> DEFINE q == [k \in 0 .. e |-> IF k <= e - d THEN path[0] ELSE path[k - (e - d)]]
<1>1. path \in [0 .. d -> Line] /\ path[0] \in lines
  BY DEF Paths
<1>2. q \in [0 .. e -> Line] /\ q[0] \in lines /\ q[e] = path[d]
  BY <1>1
<1>3. ASSUME NEW k \in 1 .. e
      PROVE  q[k] \in lines \/ q[k] \in TargetsOf(q[k - 1])
  <2>1. CASE k <= e - d
    BY <1>1, <2>1
  <2>2. CASE ~(k <= e - d)
    <3> DEFINE j == k - (e - d)
    <3>1. j \in 1 .. d /\ q[k] = path[j]
      BY <2>2
    <3>2. q[k - 1] = path[j - 1]
      <4>1. CASE k - 1 <= e - d
        <5>1. j - 1 = 0
          BY <2>2, <4>1
        <5>2. QED BY <4>1, <5>1
      <4>2. CASE ~(k - 1 <= e - d)
        BY <4>2
      <4>3. QED BY <4>1, <4>2
    <3>3. path[j] \in lines \/ path[j] \in TargetsOf(path[j - 1])
      BY <3>1 DEF Paths
    <3> HIDE DEF q, j
    <3>4. QED BY <3>1, <3>2, <3>3
  <2>3. QED BY <2>1, <2>2
<1> HIDE DEF q
<1>4. q \in Paths(lines, e)
  BY <1>2, <1>3 DEF Paths
<1>5. QED BY <1>2, <1>4

\* What is chased stays chased when more is demanded and more has been held.
LEMMA ChasedStep ==
    ASSUME demanded \subseteq demanded', held \subseteq held', NEW d
    PROVE  Chased(demanded, d) \subseteq Chased(demanded, d)'
<1>1. \A line : Pointees(line) \subseteq Pointees(line)'
  BY DEF Pointees
<1>2. \A line : TargetsOf(line) \subseteq TargetsOf(line)'
  BY <1>1 DEF TargetsOf
<1>3. Paths(demanded, d) \subseteq Paths(demanded, d)'
  BY <1>2 DEF Paths
<1>4. QED BY <1>2, <1>3 DEF Chased

-----------------------------------------------------------------------------
(* The queue. *)

\* A rotation has the elements of the sequence.
LEMMA RotationElements ==
    ASSUME NEW seq \in Seq(Line), NEW found \in Rotations(seq)
    PROVE  /\ found \in Seq(Line) /\ Len(found) = Len(seq)
           /\ \A k \in 1 .. Len(found) : \E j \in 1 .. Len(seq) : found[k] = seq[j]
<1>1. PICK n \in 1 .. Len(seq) : found = SubSeq(seq, n, Len(seq)) \o SubSeq(seq, 1, n - 1)
  BY DEF Rotations
<1> DEFINE len == Len(seq)
           a == SubSeq(seq, n, len)
           b == SubSeq(seq, 1, n - 1)
<1>2. len \in Nat /\ \A i \in 1 .. len : seq[i] \in Line
  OBVIOUS
<1> HIDE DEF len
<1>3. /\ a \in Seq(Line) /\ Len(a) = len - n + 1
      /\ \A i \in 1 .. len - n + 1 : a[i] = seq[n + i - 1]
  <2>1. n \in Int /\ n <= len /\ \A i \in n .. len : seq[i] \in Line
    BY <1>2 DEF len
  <2>2. /\ a \in Seq(Line) /\ Len(a) = IF n <= len THEN len - n + 1 ELSE 0
        /\ \A i \in 1 .. len - n + 1 : a[i] = seq[n + i - 1]
    BY <1>2, <2>1, SubSeqProperties
  <2>3. QED BY <2>1, <2>2
<1>4. /\ b \in Seq(Line) /\ Len(b) = n - 1
      /\ \A i \in 1 .. n - 1 : b[i] = seq[i]
  <2>1. n \in Int /\ 1 <= n /\ n <= len /\ \A i \in 1 .. n - 1 : seq[i] \in Line
    BY <1>2 DEF len
  <2>2. /\ b \in Seq(Line) /\ Len(b) = IF 1 <= n - 1 THEN (n - 1) - 1 + 1 ELSE 0
        /\ \A i \in 1 .. (n - 1) - 1 + 1 : b[i] = seq[1 + i - 1]
    BY <2>1, SubSeqProperties
  <2>3. QED BY <2>1, <2>2
<1>5. found = a \o b
  BY <1>1 DEF len
<1> HIDE DEF a, b
<1>6. /\ found \in Seq(Line) /\ Len(found) = Len(a) + Len(b)
      /\ \A i \in 1 .. Len(a) + Len(b) :
           found[i] = IF i <= Len(a) THEN a[i] ELSE b[i - Len(a)]
  BY <1>3, <1>4, <1>5, ConcatProperties
<1>7. n \in 1 .. len
  BY DEF len
<1>8. ASSUME NEW k \in 1 .. len PROVE \E j \in 1 .. len : found[k] = seq[j]
  <2>1. CASE k <= len - n + 1
    <3>1. k \in 1 .. Len(a) + Len(b) /\ k <= Len(a)
      BY <1>2, <1>3, <1>4, <1>7, <2>1
    <3>2. found[k] = a[k]
      BY <1>6, <3>1
    <3>3. a[k] = seq[n + k - 1] /\ n + k - 1 \in 1 .. len
      BY <1>2, <1>3, <1>7, <2>1
    <3>4. QED BY <3>2, <3>3
  <2>2. CASE ~(k <= len - n + 1)
    <3>1. k \in 1 .. Len(a) + Len(b) /\ ~(k <= Len(a))
      BY <1>2, <1>3, <1>4, <1>7, <2>2
    <3>2. found[k] = b[k - Len(a)]
      BY <1>6, <3>1
    <3>3. k - Len(a) = k - (len - n + 1) /\ k - (len - n + 1) \in 1 .. n - 1
      BY <1>2, <1>3, <1>7, <2>2
    <3>4. found[k] = seq[k - (len - n + 1)] /\ k - (len - n + 1) \in 1 .. len
      BY <1>2, <1>4, <1>7, <3>2, <3>3
    <3>5. QED BY <3>4
  <2>3. QED BY <2>1, <2>2
<1>9. QED BY <1>2, <1>3, <1>4, <1>6, <1>7, <1>8 DEF len

\* There is a next target if the queue holds any.
LEMMA NextTargetIsValid ==
    ASSUME DmpTypeOK, ValidEntries # {}
    PROVE  NextTargetIdx \in ValidEntries
<1> DEFINE count(i) == prefetchQueue[i].nextLineCount
           depth(i) == prefetchQueue[i].depth
<1>1. \A i \in ValidEntries : /\ i \in Index /\ i \in 0 .. QueueSize - 1
                              /\ count(i) \in Nat /\ depth(i) \in Nat
  <2>1. NextLinePrefetches \in Nat /\ QueueSize \in Nat /\ Depth \subseteq Nat
    BY DmpSystemAssumption DEF Depth
  <2>2. ASSUME NEW i \in ValidEntries
        PROVE  i \in Index /\ prefetchQueue[i] \in PrefetchQueueEntry
    BY DEF DmpTypeOK, ValidEntries
  <2>3. ASSUME NEW e \in PrefetchQueueEntry
        PROVE  e.nextLineCount \in Nat /\ e.depth \in Nat
    <3>1. e.nextLineCount \in 0 .. NextLinePrefetches /\ e.depth \in Depth
      BY DEF PrefetchQueueEntry
    <3>2. e.depth \in Nat
      BY <2>1, <3>1
    <3>3. e.nextLineCount \in Nat
      BY <2>1, <3>1
    <3>4. QED BY <3>2, <3>3
  <2>4. QED BY <2>2, <2>3 DEF Index
<1>2. PICK i0 \in ValidEntries : \A j \in ValidEntries : count(i0) <= count(j)
  <2> DEFINE counts == {count(i) : i \in ValidEntries}
  <2>1. counts \subseteq Nat /\ counts # {}
    BY <1>1
  <2>2. PICK c \in counts : \A y \in counts : c <= y
    <3> HIDE DEF counts
    <3>1. QED BY <2>1, LeastNatural
  <2>3. QED BY <2>2
<1> DEFINE early == {i \in ValidEntries : count(i) = count(i0)}
<1>3. PICK i1 \in early : \A j \in early : depth(i1) <= depth(j)
  <2> DEFINE depths == {depth(i) : i \in early}
  <2>1. depths \subseteq Nat /\ depths # {}
    BY <1>1, <1>2
  <2>2. PICK c \in depths : \A y \in depths : c <= y
    <3> HIDE DEF depths
    <3>1. QED BY <2>1, LeastNatural
  <2>3. QED BY <2>2
<1> DEFINE near == {i \in early : depth(i) = depth(i1)}
<1>4. PICK i2 \in near : \A j \in near : j <= i2
  <2> DEFINE ends == {QueueSize - i : i \in near}
  <2>1. QueueSize \in Nat
    BY DmpSystemAssumption
  <2>2. ends \subseteq Nat /\ ends # {}
    <3>1. i1 \in near
      BY <1>3
    <3>2. \A i \in near : QueueSize - i \in Nat
      BY <1>1, <2>1
    <3> HIDE DEF near
    <3>3. QED BY <3>1, <3>2
  <2>3. PICK c \in ends : \A y \in ends : c <= y
    <3> HIDE DEF ends
    <3>1. QED BY <2>2, LeastNatural
  <2>4. PICK i2 \in near : c = QueueSize - i2
    OBVIOUS
  <2>5. \A j \in near : QueueSize - i2 <= QueueSize - j
    BY <2>3, <2>4
  <2>6. \A j \in near : j \in Int
    BY <1>1
  <2> HIDE DEF near
  <2>7. \A j \in near : j <= i2
    BY <2>1, <2>4, <2>5, <2>6
  <2>8. QED BY <2>4, <2>7
<1>5. i2 \in ValidEntries /\ count(i2) = count(i0) /\ depth(i2) = depth(i1)
  OBVIOUS
<1>6. ASSUME NEW j \in ValidEntries PROVE Precedes(i2, j)
  <2>1. count(i2) <= count(j) /\ count(i2) \in Nat /\ count(j) \in Nat
    BY <1>1, <1>2, <1>5
  <2>2. CASE count(i2) = count(j)
    <3>1. j \in early
      BY <1>5, <2>2
    <3>2. depth(i2) <= depth(j) /\ depth(i2) \in Nat /\ depth(j) \in Nat
      BY <1>1, <1>3, <1>5, <3>1
    <3>3. depth(i2) = depth(j) => j <= i2
      BY <1>4, <1>5, <3>1
    <3>4. QED BY <2>2, <3>2, <3>3 DEF Precedes
  <2>3. QED BY <2>1, <2>2 DEF Precedes
<1>7. QED BY <1>5, <1>6 DEF NextTargetIdx
-----------------------------------------------------------------------------
(* A cycle. *)

\* The line that is scanned is one the memory held, under the depth of its request.
LEMMA ScanFacts ==
    ASSUME DmpInvariant, NEW in \in Inputs, IsUpdatingState(ScanOf(in))
    PROVE  /\ ScanOf(in).line \in Line /\ ScanOf(in).data \in Data
           /\ <<ScanOf(in).line, ScanOf(in).data>> \in held
           /\ ScanOf(in).depth \in Depth
           /\ MaxRecursionDepth >= 0 =>
                /\ ScanOf(in).depth <= MaxRecursionDepth
                /\ TargetsOf(ScanOf(in).line) \subseteq Chased(demanded, ScanOf(in).depth)
<1> USE CacheAssumption, DmpSystemAssumption
<1>1. /\ TypeOK /\ AssertedIsOwed /\ RequestOwnership /\ DmpTypeOK
      /\ LoadsAreDemanded /\ AnswersAreHeld /\ DepthsAreRight
  BY DepthsFollow DEF DmpInvariant, DmpSystemTypeOK, CoherenceInvariant, CacheInvariant
<1> DEFINE i == in.rsp
<1>2. RspValid(in)
  BY DEF IsUpdatingState, ScanOf, NotifiesMissResponse, SendingRsp, NotifiesPrefetchResponse
<1>3. i \in Id /\ in.rdata = memRsp[i] /\ memRsp[i] \in Data
  BY <1>1, <1>2, InputTypes DEF RspValid
<1>4. Pending(i)
  BY <1>1, <1>3 DEF RequestOwnership
<1>5. RspLine(in) \in Line
  BY <1>1, <1>3, <1>4 DEF RspLine, Pending, TypeOK, CacheTypeOK, OutstandingTracker
<1>6. <<RspLine(in), in.rdata>> \in held
  BY <1>1, <1>3 DEF AnswersAreHeld, RspLine
<1>7. CASE NotifiesMissResponse(in)
  <2>1. ScanOf(in) = [line |-> RspLine(in), data |-> in.rdata, depth |-> 0]
    BY <1>7 DEF ScanOf
  <2>2. RspLine(in) \in demanded
    BY <1>1, <1>3, <1>4, <1>7
       DEF NotifiesMissResponse, SendingRsp, LoadsAreDemanded, RspLine
  <2>3. TargetsOf(RspLine(in)) \subseteq Chased(demanded, 0)
    BY <1>5, <2>2, ChasedFromDemanded
  <2>4. 0 \in Depth
    BY DEF Depth
  <2>5. QED BY <1>3, <1>5, <1>6, <2>1, <2>3, <2>4
<1>8. CASE ~NotifiesMissResponse(in)
  <2>1. NotifiesPrefetchResponse(in) /\ ScansPrefetch(i)
    BY <1>8 DEF ScanOf, IsUpdatingState
  <2>2. ScanOf(in) = [line |-> RspLine(in), data |-> in.rdata, depth |-> prefetchDepths[i]]
    BY <1>8, <2>1 DEF ScanOf
  <2>3. prefetchDepths[i] \in Depth
    BY <1>1, <1>3 DEF DmpTypeOK
  <2>4. ASSUME MaxRecursionDepth >= 0
        PROVE  /\ prefetchDepths[i] <= MaxRecursionDepth
               /\ TargetsOf(RspLine(in)) \subseteq Chased(demanded, prefetchDepths[i])
    <3>1. MaxRecursionDepth > 0 /\ prefetchDepths[i] <= MaxRecursionDepth
      BY <2>1, <2>4 DEF ScansPrefetch
    <3>2. i \in OutstandingPrefetches
      BY <1>3, <1>4, <2>1 DEF NotifiesPrefetchResponse, OutstandingPrefetches
    <3>3. /\ prefetchDepths[i] > 0
          /\ RspLine(in) \in Chased(demanded, prefetchDepths[i] - 1)
      BY <1>1, <3>1, <3>2 DEF DepthsAreRight, RspLine
    <3>4. prefetchDepths[i] - 1 \in Nat
      BY <2>3, <3>3 DEF Depth
    <3>5. TargetsOf(RspLine(in)) \subseteq Chased(demanded, (prefetchDepths[i] - 1) + 1)
      BY <1>5, <3>3, <3>4, ChasedFurther
    <3>6. (prefetchDepths[i] - 1) + 1 = prefetchDepths[i]
      BY <2>3 DEF Depth
    <3>7. QED BY <3>1, <3>5, <3>6
  <2>5. QED BY <1>3, <1>5, <1>6, <2>2, <2>3, <2>4
<1>9. QED BY <1>7, <1>8

\* The target that the cache takes comes from a valid entry.
LEMMA TargetFacts ==
    ASSUME DmpInvariant, NEW in \in Inputs, IsOffered(in), in.target # None
    PROVE  /\ ~IsUpdatingState(ScanOf(in)) /\ ~Pending(externalId)
           /\ in.target \in Line /\ in.target = NextTarget
           /\ NextTargetIdx \in Index
           /\ prefetchQueue[NextTargetIdx] \in PrefetchQueueEntry
           /\ prefetchQueue[NextTargetIdx] # None
           /\ MaxRecursionDepth >= 0 =>
                /\ prefetchQueue[NextTargetIdx].depth <= MaxRecursionDepth
                /\ in.target \in Chased(demanded, prefetchQueue[NextTargetIdx].depth)
<1> USE CacheAssumption, DmpSystemAssumption
<1>1. TypeOK /\ AssertedIsOwed /\ DmpTypeOK /\ QueueIsChased
  BY DEF DmpInvariant, DmpSystemTypeOK, CoherenceInvariant, CacheInvariant
<1>2. HasPrefetchTarget(ScanOf(in)) /\ in.target = NextTarget
  BY DEF IsOffered, Offered
<1>3. ~Pending(externalId)
  BY DEF Inputs, TakesTarget
<1>4. in.target \in Line
  BY <1>1, InputTypes
<1>5. NextTargetIdx \in ValidEntries
  BY <1>1, <1>2, NextTargetIsValid DEF HasPrefetchTarget
<1> DEFINE e == prefetchQueue[NextTargetIdx]
<1>6. NextTargetIdx \in Index /\ e # None /\ e \in PrefetchQueueEntry
  BY <1>1, <1>5 DEF ValidEntries, DmpTypeOK
<1>7. MaxRecursionDepth >= 0 =>
        e.depth <= MaxRecursionDepth /\ in.target \in Chased(demanded, e.depth)
  <2>1. NextTarget = LinePlus(e.target, e.nextLineCount)
    BY DEF NextTarget
  <2>2. e.nextLineCount \in 0 .. NextLinePrefetches
    BY <1>6 DEF PrefetchQueueEntry
  <2> HIDE DEF e
  <2>3. e \in NearEntries
    BY <1>1, <1>6 DEF QueueIsChased, e
  <2>4. MaxRecursionDepth >= 0 =>
          /\ e.depth <= MaxRecursionDepth
          /\ \A n \in 0 .. NextLinePrefetches : LinePlus(e.target, n) \in Chased(demanded, e.depth)
    BY <2>3 DEF NearEntries
  <2>5. QED BY <1>2, <2>1, <2>2, <2>4
<1>8. QED BY <1>2, <1>3, <1>4, <1>6, <1>7 DEF HasPrefetchTarget
\* A cycle of the cache with its prefetcher.
DmpSystemCycle(in) ==
    /\ IsOffered(in)
    /\ Cycle(in)
    /\ DmpCycle(ScanOf(in), in.target # None, externalId)
    /\ demanded' = demanded \cup (IF LoadInCycle(in) /\ Accepts(in) THEN {in.cmd.line} ELSE {})
    /\ held' = held \cup MemoryImage'

\* What is shifted into the queue only has to be near itself.
LEMMA EnqueuedIsNear ==
    ASSUME QueueIsChased, NEW found \in Seq(Line), NEW depth,
           \A k \in 1 .. Len(found) :
             [target |-> found[k], depth |-> depth, nextLineCount |-> 0] \in NearEntries
    PROVE  Enqueued(found, depth) \in [Index -> NearEntries \cup {None}]
<1>1. Len(found) \in Nat
  OBVIOUS
<1>2. ASSUME NEW k \in Index
      PROVE  (IF k < Len(found)
              THEN [target |-> found[Len(found) - k], depth |-> depth, nextLineCount |-> 0]
              ELSE prefetchQueue[k - Len(found)]) \in NearEntries \cup {None}
  <2>1. k \in Int /\ 0 <= k /\ k <= QueueSize - 1 /\ QueueSize \in Nat
    BY DmpSystemAssumption DEF Index
  <2>2. CASE k < Len(found)
    <3>1. Len(found) - k \in 1 .. Len(found)
      BY <1>1, <2>1, <2>2
    <3>2. QED BY <2>2, <3>1
  <2>3. CASE ~(k < Len(found))
    <3>1. k - Len(found) \in Index
      BY <1>1, <2>1, <2>3 DEF Index
    <3>2. prefetchQueue[k - Len(found)] \in NearEntries \cup {None}
      BY <3>1 DEF QueueIsChased
    <3>3. QED BY <2>3, <3>2
  <2>4. QED BY <2>2, <2>3
<1>3. QED BY <1>2 DEF Enqueued

\* An entry that moves on to its next line, or goes, is as near as before.
LEMMA AdvancedIsNear ==
    ASSUME QueueIsChased, NextTargetIdx \in Index, prefetchQueue[NextTargetIdx] # None
    PROVE  Advanced \in [Index -> NearEntries \cup {None}]
<1> DEFINE t == NextTargetIdx
           e == prefetchQueue[t]
           next == IF e.nextLineCount = NextLinePrefetches THEN None
                   ELSE [e EXCEPT !.nextLineCount = e.nextLineCount + 1]
<1>1. Advanced = [prefetchQueue EXCEPT ![t] = next]
  BY DEF Advanced
<1>2. t \in Index /\ e \in NearEntries
  BY DEF QueueIsChased
<1>3. NextLinePrefetches \in Nat
  BY DmpSystemAssumption
<1> HIDE DEF e
<1>4. next \in NearEntries \cup {None}
  <2>1. CASE e.nextLineCount # NextLinePrefetches
    <3>1. e \in PrefetchQueueEntry
      BY <1>2 DEF NearEntries
    <3>2. e.nextLineCount + 1 \in 0 .. NextLinePrefetches
      BY <1>3, <2>1, <3>1 DEF PrefetchQueueEntry
    <3>3. next = [e EXCEPT !.nextLineCount = e.nextLineCount + 1]
      BY <2>1
    <3> HIDE DEF next
    <3>4. /\ next \in PrefetchQueueEntry
          /\ next.depth = e.depth /\ next.target = e.target
      BY <3>1, <3>2, <3>3 DEF PrefetchQueueEntry
    <3>5. QED BY <1>2, <3>4 DEF NearEntries
  <2>2. QED BY <2>1
<1> HIDE DEF next, t
<1>5. QED BY <1>1, <1>2, <1>4 DEF QueueIsChased

\* The targets of the line that is scanned are near.
LEMMA ScannedIsNear ==
    ASSUME DmpInvariant, NEW in \in Inputs, IsUpdatingState(ScanOf(in)),
           NEW found \in Rotations(Pointers[<<ScanOf(in).line, ScanOf(in).data>>])
    PROVE  /\ found \in Seq(Line)
           /\ \A k \in 1 .. Len(found) :
                [target |-> found[k], depth |-> ScanOf(in).depth, nextLineCount |-> 0]
                  \in NearEntries
<1> DEFINE line == ScanOf(in).line
           data == ScanOf(in).data
           depth == ScanOf(in).depth
           seq == Pointers[<<line, data>>]
<1>1. /\ line \in Line /\ data \in Data /\ <<line, data>> \in held /\ depth \in Depth
      /\ MaxRecursionDepth >= 0 =>
           /\ depth <= MaxRecursionDepth
           /\ TargetsOf(line) \subseteq Chased(demanded, depth)
  BY ScanFacts
<1>2. found \in Rotations(seq)
  OBVIOUS
<1> HIDE DEF line, data, depth
<1>3. seq \in Seq(Line)
  BY <1>1, DmpSystemAssumption
<1> HIDE DEF seq
<1>4. /\ found \in Seq(Line)
      /\ \A k \in 1 .. Len(found) : \E j \in 1 .. Len(seq) : found[k] = seq[j]
  BY <1>2, <1>3, RotationElements
<1>5. ASSUME NEW k \in 1 .. Len(found)
      PROVE  [target |-> found[k], depth |-> depth, nextLineCount |-> 0] \in NearEntries
  <2>1. PICK j \in 1 .. Len(seq) : found[k] = seq[j]
    BY <1>4
  <2>2. seq[j] \in Line
    BY <1>3
  <2>3. seq[j] \in Pointees(line)
    <3>1. DOMAIN Pointers[<<line, data>>] = 1 .. Len(seq)
      BY <1>3 DEF seq
    <3>2. <<line, data>>[1] = line /\ seq[j] = Pointers[<<line, data>>][j]
      BY DEF seq
    <3>3. QED BY <1>1, <2>2, <3>1, <3>2 DEF Pointees
  <2>4. \A n \in 0 .. NextLinePrefetches : LinePlus(seq[j], n) \in TargetsOf(line)
    BY <2>3 DEF TargetsOf
  <2> DEFINE entry == [target |-> seq[j], depth |-> depth, nextLineCount |-> 0]
  <2>5. entry \in PrefetchQueueEntry
    BY <1>1, <2>2, DmpSystemAssumption DEF PrefetchQueueEntry
  <2>6. entry.depth = depth /\ entry.target = seq[j]
    OBVIOUS
  <2> HIDE DEF entry
  <2>7. entry \in NearEntries
    BY <1>1, <2>4, <2>5, <2>6 DEF NearEntries
  <2>8. QED BY <2>1, <2>7 DEF entry
<1>6. QED BY <1>4, <1>5 DEF depth

\* The queue keeps its type, and its targets their distance.
LEMMA QueueStep ==
    ASSUME DmpInvariant, NEW in \in Inputs, DmpSystemCycle(in)
    PROVE  QueueIsChased'
<1>1. QueueIsChased
  BY DEF DmpInvariant
<1>2. prefetchQueue' \in [Index -> NearEntries \cup {None}]
  <2>1. CASE IsUpdatingState(ScanOf(in))
    <3>1. PICK found \in Rotations(Pointers[<<ScanOf(in).line, ScanOf(in).data>>]) :
            prefetchQueue' = Enqueued(found, ScanOf(in).depth)
      BY <2>1 DEF DmpSystemCycle, DmpCycle
    <3>2. /\ found \in Seq(Line)
          /\ \A k \in 1 .. Len(found) :
               [target |-> found[k], depth |-> ScanOf(in).depth, nextLineCount |-> 0]
                 \in NearEntries
      BY <2>1, ScannedIsNear
    <3>3. Enqueued(found, ScanOf(in).depth) \in [Index -> NearEntries \cup {None}]
      BY <1>1, <3>2, EnqueuedIsNear
    <3>4. QED BY <3>1, <3>3
  <2>2. CASE ~IsUpdatingState(ScanOf(in)) /\ in.target # None
    <3>1. NextTargetIdx \in Index /\ prefetchQueue[NextTargetIdx] # None
      BY <2>2, TargetFacts DEF DmpSystemCycle
    <3>2. prefetchQueue' = Advanced
      BY <2>2 DEF DmpSystemCycle, DmpCycle
    <3>3. QED BY <1>1, <3>1, <3>2, AdvancedIsNear
  <2>3. CASE ~IsUpdatingState(ScanOf(in)) /\ in.target = None
    <3>1. prefetchQueue' = prefetchQueue
      BY <2>3 DEF DmpSystemCycle, DmpCycle
    <3>2. QED BY <1>1, <3>1 DEF QueueIsChased
  <2>4. QED BY <2>1, <2>2, <2>3
<1>3. NearEntries \subseteq NearEntries'
  <2>1. demanded \subseteq demanded' /\ held \subseteq held'
    BY DEF DmpSystemCycle
  <2>2. \A d : Chased(demanded, d) \subseteq Chased(demanded, d)'
    BY <2>1, ChasedStep
  <2>3. QED BY <2>2 DEF NearEntries
<1>4. QED BY <1>2, <1>3 DEF QueueIsChased

\* The depths keep their type, and only the depth of a free id changes.
LEMMA DepthStep ==
    ASSUME DmpInvariant, NEW in \in Inputs, DmpSystemCycle(in)
    PROVE  /\ prefetchDepths' \in [Id -> Depth]
           /\ \A i \in Id : Pending(i) => prefetchDepths'[i] = prefetchDepths[i]
           /\ in.target # None /\ MaxRecursionDepth > 0 =>
                prefetchDepths'[externalId] = prefetchQueue[NextTargetIdx].depth + 1
<1>1. DmpTypeOK /\ TypeOK
  BY DEF DmpInvariant, DmpSystemTypeOK
<1>2. prefetchDepths \in [Id -> Depth] /\ externalId \in Id
  BY <1>1 DEF DmpTypeOK, TypeOK, CacheTypeOK
<1>3. CASE in.target # None /\ MaxRecursionDepth # 0
  <2> DEFINE d == prefetchQueue[NextTargetIdx].depth
             new == IF MaxRecursionDepth > 0 THEN d + 1 ELSE 1
  <2>1. prefetchDepths' = [prefetchDepths EXCEPT ![externalId] = new]
    BY <1>3 DEF DmpSystemCycle, DmpCycle
  <2>2. /\ ~Pending(externalId) /\ d \in Depth
        /\ MaxRecursionDepth >= 0 => d <= MaxRecursionDepth
    BY <1>3, TargetFacts DEF DmpSystemCycle, PrefetchQueueEntry
  <2> HIDE DEF d
  <2>3. new \in Depth
    BY <1>3, <2>2, DmpSystemAssumption DEF Depth
  <2>4. MaxRecursionDepth > 0 => new = d + 1
    OBVIOUS
  <2> HIDE DEF new
  <2>5. /\ prefetchDepths' \in [Id -> Depth]
        /\ \A i \in Id : i # externalId => prefetchDepths'[i] = prefetchDepths[i]
        /\ prefetchDepths'[externalId] = new
    BY <1>2, <2>1, <2>3
  <2>6. QED BY <2>2, <2>4, <2>5 DEF d
<1>4. CASE ~(in.target # None /\ MaxRecursionDepth # 0)
  <2>1. prefetchDepths' = prefetchDepths
    BY <1>4 DEF DmpSystemCycle, DmpCycle
  <2>2. ~(in.target # None /\ MaxRecursionDepth > 0)
    BY <1>4, DmpSystemAssumption
  <2>3. QED BY <1>2, <2>1, <2>2
<1>5. QED BY <1>3, <1>4

\* The history variables only grow, and keep their types.
LEMMA HistoryStep ==
    ASSUME DmpInvariant, NEW in \in Inputs, DmpSystemCycle(in)
    PROVE  /\ TypeOK' /\ demanded' \subseteq Line /\ held' \subseteq Line \X Data
           /\ demanded \subseteq demanded' /\ held \subseteq held' /\ MemoryImage' \subseteq held'
           /\ \A d : Chased(demanded, d) \subseteq Chased(demanded, d)'
<1>1. demanded \subseteq demanded' /\ held \subseteq held' /\ MemoryImage' \subseteq held'
  BY DEF DmpSystemCycle
<1>2. TypeOK /\ AssertedIsOwed
  BY DEF DmpInvariant, CoherenceInvariant, CacheInvariant
<1>3. TypeOK'
  BY CoherenceStep DEF DmpInvariant, DmpSystemCycle, CoherenceInvariant, CacheInvariant
<1>4. LoadInCycle(in) => in.cmd.line \in Line
  BY <1>2, InputTypes DEF LoadInCycle, InternalCmd, InternalLoad, Store
<1>5. demanded' \subseteq Line
  BY <1>4 DEF DmpInvariant, DmpSystemTypeOK, DmpSystemCycle
<1>6. MemoryImage' \subseteq Line \X Data
  BY <1>3 DEF TypeOK, MemoryImage
<1>7. held' \subseteq Line \X Data
  BY <1>6 DEF DmpInvariant, DmpSystemTypeOK, DmpSystemCycle
<1>8. \A d : Chased(demanded, d) \subseteq Chased(demanded, d)'
  BY <1>1, ChasedStep
<1>9. QED BY <1>1, <1>3, <1>5, <1>7, <1>8

\* A load that waits after a cycle waited before, or its line is demanded in the cycle.
LEMMA DemandedStep ==
    ASSUME DmpInvariant, NEW in \in Inputs, DmpSystemCycle(in)
    PROVE  LoadsAreDemanded'
<1>1. CacheInvariant /\ TypeOK /\ AssertedIsOwed /\ LoadsAreDemanded
  BY DEF DmpInvariant, CoherenceInvariant, CacheInvariant
<1>2. SUFFICES ASSUME NEW i \in Id, Pending(i)', NEW s \in Slot,
                      outstandingLoads'[i].forwarding[s] # None
               PROVE  outstandingLoads'[i].line \in demanded'
  BY DEF LoadsAreDemanded, WaitingSlots
<1>3. outstandingLoads'[i] = NextTracker(in, i)
  BY DEF DmpSystemCycle, Cycle, CacheCycle
<1>4. NextTracker(in, i).line # None /\ NextTracker(in, i).forwarding[s] # None
  BY <1>2, <1>3 DEF Pending
<1>5. demanded \subseteq demanded'
      /\ (LoadInCycle(in) /\ Accepts(in) => in.cmd.line \in demanded')
  BY DEF DmpSystemCycle
<1>6. CASE WaitingLoad(i, s) # None /\ ~(i = externalId /\ Allocates(in))
  <2>1. NextTracker(in, i).line = outstandingLoads[i].line
    BY <1>1, <1>4, <1>6, TrackerLine
  <2>2. Pending(i) /\ WaitingSlots(i) # {}
    BY <1>4, <1>6, <2>1 DEF Pending, WaitingSlots, WaitingLoad
  <2>3. QED BY <1>1, <1>3, <1>5, <2>1, <2>2 DEF LoadsAreDemanded
<1>7. CASE LoadInCycle(in) /\ Initiates(in) /\ i = externalId
  <2>1. Allocates(in)
    BY <1>7 DEF Allocates, LoadInCycle, StoreInCycle
  <2>2. NextTracker(in, i).line = in.cmd.line
    BY <1>1, <1>7, <2>1, TrackerLine
  <2>3. QED BY <1>3, <1>5, <1>7, <2>2 DEF Accepts
<1>8. CASE LoadInCycle(in) /\ Merges(in, i)
  <2>1. outstandingLoads[i].line = in.cmd.line /\ Pending(i)
    BY <1>8 DEF Merges, Fresh
  <2>2. ~(i = externalId /\ Allocates(in))
    BY <1>1, <2>1, SentLine
  <2>3. NextTracker(in, i).line = in.cmd.line
    BY <1>1, <1>4, <2>1, <2>2, TrackerLine
  <2>4. QED BY <1>3, <1>5, <1>8, <2>3 DEF Accepts
<1>9. QED
  BY <1>1, <1>4, <1>6, <1>7, <1>8, WaitingOrigin

\* An answer is what the memory holds when it takes the request, and the request keeps
\* its line until the answer is taken.
LEMMA HeldStep ==
    ASSUME DmpInvariant, NEW in \in Inputs, DmpSystemCycle(in)
    PROVE  AnswersAreHeld'
<1>1. /\ CacheInvariant /\ TypeOK /\ AssertedIsOwed /\ RequestOwnership /\ BufferedKeepsLine
      /\ AnswersAreHeld
  BY DEF DmpInvariant, CoherenceInvariant, CacheInvariant
<1>2. held \subseteq held' /\ MemoryImage' \subseteq held'
  BY HistoryStep
<1>3. SUFFICES ASSUME NEW i \in Id, memRsp'[i] # None
               PROVE  <<outstandingLoads'[i].line, memRsp'[i]>> \in held'
  BY <1>2 DEF AnswersAreHeld
<1>4. Cycle(in)
  BY DEF DmpSystemCycle
<1> DEFINE cmd == BusCmd(in)
<1>5. CASE in.cmdReady /\ cmd # None /\ ~cmd.write /\ cmd.id = i
  <2>1. memRsp'[i] = mem[cmd.line]
    BY <1>4, <1>5 DEF Cycle, MemoryCycle
  <2>2. cmd.line \in Line
    BY <1>1, <1>5, BusCmdType DEF ExternalCmd, ExternalLoad, Store
  <2>3. cmd.line = outstandingLoads'[i].line
    BY <1>1, <1>4, <1>5, BufferedStep
  <2> HIDE DEF cmd
  <2>4. <<cmd.line, mem[cmd.line]>> \in MemoryImage
    BY <2>2 DEF MemoryImage
  <2>5. QED BY <1>1, <1>2, <2>1, <2>3, <2>4 DEF AnswersAreHeld
<1>6. CASE ~(in.cmdReady /\ cmd # None /\ ~cmd.write /\ cmd.id = i)
  <2>1. ~(RequestDone(in) /\ in.rsp = i) /\ memRsp'[i] = memRsp[i]
    BY <1>3, <1>4, <1>6 DEF Cycle, MemoryCycle
  <2>2. Pending(i)
    BY <1>1, <1>3, <2>1 DEF RequestOwnership
  <2>3. outstandingLoads'[i].line = outstandingLoads[i].line
    <3>1. ~(i = externalId /\ Allocates(in))
      BY <1>1, <2>2, SentLine
    <3>2. NextTracker(in, i).line = outstandingLoads[i].line
      BY <1>1, <2>1, <3>1, TrackerLine
    <3>3. QED BY <1>4, <3>2 DEF Cycle, CacheCycle
  <2>4. QED BY <1>1, <1>2, <1>3, <2>1, <2>3 DEF AnswersAreHeld
<1>7. QED BY <1>5, <1>6

\* A request that goes out is a load's, or takes a target from the queue.
LEMMA ChaseStep ==
    ASSUME DmpInvariant, NEW in \in Inputs, DmpSystemCycle(in)
    PROVE  ChaseIsBounded'
<1>1. TypeOK /\ AssertedIsOwed /\ ChaseIsBounded /\ DmpTypeOK
  BY DEF DmpInvariant, DmpSystemTypeOK, CoherenceInvariant, CacheInvariant
<1>2. SUFFICES ASSUME MaxRecursionDepth >= 0, NEW i \in Id, Pending(i)'
               PROVE  \/ outstandingLoads'[i].line \in demanded'
                      \/ outstandingLoads'[i].line \in Chased(demanded, MaxRecursionDepth)'
  BY DEF ChaseIsBounded
<1>3. outstandingLoads'[i] = NextTracker(in, i)
  BY DEF DmpSystemCycle, Cycle, CacheCycle
<1>4. NextTracker(in, i).line # None
  BY <1>2, <1>3 DEF Pending
<1>5. demanded \subseteq demanded'
      /\ Chased(demanded, MaxRecursionDepth) \subseteq Chased(demanded, MaxRecursionDepth)'
  BY HistoryStep
<1>6. CASE ~(i = externalId /\ Allocates(in))
  <2>1. Pending(i) /\ NextTracker(in, i).line = outstandingLoads[i].line
    BY <1>1, <1>4, <1>6, TrackerLine DEF Pending
  <2>2. QED BY <1>1, <1>2, <1>3, <1>5, <2>1 DEF ChaseIsBounded
<1>7. CASE i = externalId /\ Allocates(in) /\ Initiates(in)
  <2>1. NextTracker(in, i).line = in.cmd.line
    BY <1>1, <1>7, TrackerLine
  <2>2. LoadInCycle(in) /\ Accepts(in)
    BY <1>7 DEF Allocates, IssuesPrefetch, TakesTarget, Accepts
  <2>3. in.cmd.line \in demanded'
    BY <2>2 DEF DmpSystemCycle
  <2>4. QED BY <1>3, <2>1, <2>3
<1>8. CASE i = externalId /\ Allocates(in) /\ ~Initiates(in)
  <2>1. NextTracker(in, i).line = in.target
    BY <1>1, <1>8, TrackerLine
  <2>2. in.target # None
    BY <1>8 DEF Allocates, IssuesPrefetch, TakesTarget
  <2> DEFINE d == prefetchQueue[NextTargetIdx].depth
  <2>3. d \in Depth /\ d <= MaxRecursionDepth /\ in.target \in Chased(demanded, d)
    BY <1>2, <2>2, TargetFacts DEF DmpSystemCycle, PrefetchQueueEntry
  <2> HIDE DEF d
  <2>4. d \in Nat /\ MaxRecursionDepth \in Nat
    BY <1>2, <2>3, DmpSystemAssumption DEF Depth
  <2>5. Chased(demanded, d) \subseteq Chased(demanded, MaxRecursionDepth)
    BY <2>3, <2>4, ChasedMonotone
  <2>6. QED BY <1>3, <1>5, <2>1, <2>3, <2>5
<1>9. QED BY <1>6, <1>7, <1>8

\* A prefetch is recorded under the depth of its target, and the record stays until its
\* answer is taken.
LEMMA DepthsStep ==
    ASSUME DmpInvariant, NEW in \in Inputs, DmpSystemCycle(in)
    PROVE  DepthsAreKnown'
<1>1. CacheInvariant /\ TypeOK /\ AssertedIsOwed /\ DepthsAreKnown /\ DmpTypeOK
  BY DEF DmpInvariant, DmpSystemTypeOK, CoherenceInvariant, CacheInvariant
<1>2. SUFFICES ASSUME MaxRecursionDepth > 0, NEW i \in Id, Pending(i)', WaitingSlots(i)' = {}
               PROVE  \E d \in Nat :
                        /\ prefetchDepths'[i] = d + 1
                        /\ outstandingLoads'[i].line \in Chased(demanded, d)'
  BY DEF DepthsAreKnown, OutstandingPrefetches
<1>3. outstandingLoads'[i] = NextTracker(in, i)
  BY DEF DmpSystemCycle, Cycle, CacheCycle
<1>4. /\ NextTracker(in, i).line # None
      /\ \A s \in Slot : NextTracker(in, i).forwarding[s] = None
  BY <1>2, <1>3 DEF Pending, WaitingSlots
<1>5. \A d : Chased(demanded, d) \subseteq Chased(demanded, d)'
  BY HistoryStep
<1>6. CASE i \in OutstandingPrefetches /\ ~(i = externalId /\ Allocates(in))
  <2>1. Pending(i) /\ NextTracker(in, i).line = outstandingLoads[i].line
    BY <1>1, <1>4, <1>6, TrackerLine DEF Pending
  <2>2. prefetchDepths'[i] = prefetchDepths[i]
    BY <2>1, DepthStep
  <2>3. PICK d \in Nat : /\ prefetchDepths[i] = d + 1
                         /\ outstandingLoads[i].line \in Chased(demanded, d)
    BY <1>1, <1>2, <1>6 DEF DepthsAreKnown
  <2>4. outstandingLoads'[i].line \in Chased(demanded, d)'
    BY <1>3, <1>5, <2>1, <2>3
  <2>5. QED BY <2>2, <2>3, <2>4
<1>7. CASE i = externalId /\ IssuesPrefetch(in) /\ ~Initiates(in)
  <2>1. NextTracker(in, i).line = in.target /\ in.target # None
    BY <1>1, <1>7, TrackerLine DEF Allocates, IssuesPrefetch, TakesTarget
  <2> DEFINE d == prefetchQueue[NextTargetIdx].depth
  <2>2. /\ prefetchQueue[NextTargetIdx] \in PrefetchQueueEntry
        /\ in.target \in Chased(demanded, d)
    BY <1>2, <2>1, DmpSystemAssumption, TargetFacts DEF DmpSystemCycle
  <2>3. prefetchDepths'[i] = d + 1
    BY <1>2, <1>7, <2>1, DepthStep
  <2>4. d \in Depth
    BY <2>2 DEF PrefetchQueueEntry
  <2> HIDE DEF d
  <2>5. d \in Nat
    BY <2>4, DmpSystemAssumption DEF Depth
  <2>6. PICK e \in Nat : e = d
    BY <2>5
  <2>7. in.target \in Chased(demanded, e)
    BY <2>2, <2>6
  <2>8. outstandingLoads'[i].line \in Chased(demanded, e)'
    BY <1>3, <1>5, <2>1, <2>7
  <2>9. QED BY <2>3, <2>6, <2>8
<1>8. QED BY <1>1, <1>4, <1>6, <1>7, PrefetchOrigin

-----------------------------------------------------------------------------
(* The theorems. *)

LEMMA InitDmp == DmpSystemInit => DmpInvariant
<1> SUFFICES ASSUME DmpSystemInit PROVE DmpInvariant
  OBVIOUS
<1>1. CoherenceInvariant /\ TypeOK
  BY InitCoherence DEF DmpSystemInit, CoherenceInvariant, CacheInvariant
<1>2. /\ prefetchQueue = [k \in Index |-> None] /\ prefetchDepths = [i \in Id |-> 0]
      /\ demanded = {} /\ held = MemoryImage
  BY DEF DmpSystemInit, DmpInit
<1>3. \A i \in Id : ~Pending(i) /\ memRsp[i] = None
  BY DEF DmpSystemInit, Init, CacheInit, Pending
<1>4. 0 \in Depth
  BY DmpSystemAssumption DEF Depth
<1>5. DmpSystemTypeOK
  BY <1>1, <1>2, <1>4 DEF DmpSystemTypeOK, DmpTypeOK, TypeOK, MemoryImage
<1>6. QueueIsChased
  BY <1>2 DEF QueueIsChased
<1>7. LoadsAreDemanded /\ ChaseIsBounded /\ DepthsAreKnown
  BY <1>3 DEF LoadsAreDemanded, ChaseIsBounded, DepthsAreKnown, OutstandingPrefetches
<1>8. AnswersAreHeld
  BY <1>2, <1>3 DEF AnswersAreHeld
<1>9. QED BY <1>1, <1>5, <1>6, <1>7, <1>8 DEF DmpInvariant

LEMMA DmpStep ==
    ASSUME DmpInvariant, NEW in \in Inputs, DmpSystemCycle(in)
    PROVE  DmpInvariant'
<1>1. CoherenceInvariant'
  BY CoherenceStep DEF DmpInvariant, DmpSystemCycle
<1>2. QueueIsChased' /\ LoadsAreDemanded' /\ AnswersAreHeld' /\ ChaseIsBounded' /\ DepthsAreKnown'
  BY QueueStep, DemandedStep, HeldStep, ChaseStep, DepthsStep
<1>3. prefetchQueue' \in [Index -> PrefetchQueueEntry \cup {None}]
  BY <1>2 DEF QueueIsChased, NearEntries
<1>4. DmpSystemTypeOK'
  BY <1>3, DepthStep, HistoryStep DEF DmpSystemTypeOK, DmpTypeOK
<1>5. QED BY <1>1, <1>2, <1>4 DEF DmpInvariant

LEMMA DmpStutter ==
    ASSUME DmpInvariant, UNCHANGED dmpSystemVars
    PROVE  DmpInvariant'
<1>1. CoherenceInvariant'
  BY CoherenceStutter DEF DmpInvariant, dmpSystemVars
<1>2. /\ UNCHANGED <<prefetchQueue, prefetchDepths, demanded, held, outstandingLoads, mem, memRsp>>
      /\ UNCHANGED vars
  BY DEF dmpSystemVars, dmpVars, vars, cacheVars
<1>3. TypeOK'
  BY <1>1 DEF CoherenceInvariant, CacheInvariant
<1>4. DmpSystemTypeOK'
  BY <1>2, <1>3 DEF DmpInvariant, DmpSystemTypeOK, DmpTypeOK
<1>5. \A d : Chased(demanded, d) \subseteq Chased(demanded, d)'
  BY <1>2, ChasedStep
<1>6. QueueIsChased'
  <2>1. NearEntries \subseteq NearEntries'
    BY <1>5 DEF NearEntries
  <2>2. QED BY <1>2, <2>1 DEF DmpInvariant, QueueIsChased
<1>7. LoadsAreDemanded' /\ AnswersAreHeld'
  BY <1>2 DEF DmpInvariant, LoadsAreDemanded, AnswersAreHeld, Pending, WaitingSlots, MemoryImage
<1>8. ChaseIsBounded'
  BY <1>2, <1>5 DEF DmpInvariant, ChaseIsBounded, Pending
<1>9. DepthsAreKnown'
  BY <1>2, <1>5 DEF DmpInvariant, DepthsAreKnown, OutstandingPrefetches, Pending, WaitingSlots
<1>10. QED BY <1>1, <1>4, <1>6, <1>7, <1>8, <1>9 DEF DmpInvariant

LEMMA DmpInvariantHolds == DmpSystemSpec => []DmpInvariant
<1>1. DmpInvariant /\ [DmpSystemNext]_dmpSystemVars => DmpInvariant'
  BY DmpStep, DmpStutter DEF DmpSystemNext, DmpSystemCycle
<1>2. QED BY <1>1, InitDmp, PTL DEF DmpSystemSpec

\* The registers of the prefetcher and of the cache around it keep their types: a depth
\* never exceeds the limit by more than one, so its width suffices
\* (PointerChasingDmp.scala 28, 36-39, 44).
THEOREM DmpTypeCorrect == DmpSystemSpec => []DmpSystemTypeOK
<1>1. DmpInvariant => DmpSystemTypeOK
  BY DEF DmpInvariant
<1>2. QED BY <1>1, DmpInvariantHolds, PTL

\* No request goes further from the pipeline's loads than maxRecursionDepth prefetched
\* lines, for any heuristic, any memory contents, any limit and any interleaving of
\* merges, evictions, stores and reuse of ids (PointerChasingDmp.scala 11-13).
THEOREM ChasesAreBounded == DmpSystemSpec => []ChaseIsBounded
<1>1. DmpInvariant => ChaseIsBounded
  BY DEF DmpInvariant
<1>2. QED BY <1>1, DmpInvariantHolds, PTL

\* The depth recorded under an external id is that of the prefetch in flight with it,
\* and tells how far its line is from the pipeline's loads, although ids are reused and
\* targets are dropped (PointerChasingDmp.scala 43-44, 120-128, 154-156).
THEOREM DepthsAreKept == DmpSystemSpec => []DepthsAreRight
<1>1. DmpInvariant => DepthsAreRight
  BY DepthsFollow DEF DmpInvariant
<1>2. QED BY <1>1, DmpInvariantHolds, PTL
=============================================================================
