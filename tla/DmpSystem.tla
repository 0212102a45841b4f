------------------------------ MODULE DmpSystem ------------------------------
(***************************************************************************)
(* CacheSystem with the pointer-chasing prefetcher in place of the one     *)
(* that may ask for any line.  The cache tells the prefetcher what comes   *)
(* in from the memory, and asks it for a target when it could send a       *)
(* request, all in the same cycle.                                         *)
(***************************************************************************)
EXTENDS CacheSystem, Sequences

CONSTANTS Pointers, LineAfter, MaxRecursionDepth, NextLinePrefetches, QueueSize

\* The queue takes all the pointers of a line at once.
ASSUME DmpSystemAssumption ==
    /\ MaxRecursionDepth \in Nat \cup {-1}
    /\ NextLinePrefetches \in Nat
    /\ QueueSize \in Nat \ {0}
    /\ \A x \in Line \X Data : Pointers[x] \in Seq(Line) /\ Len(Pointers[x]) <= QueueSize
    /\ LineAfter \in [Line -> Line]

VARIABLES
    prefetchQueue,  \* the prefetcher's targets
    prefetchDepths, \* the depths of the prefetches in flight
    demanded,       \* history: the lines the pipeline has loaded
    held            \* history: <<line, data>> for all that the memory has held

INSTANCE PointerChasingDmp WITH Target <- Line, LineData <- Data, RequestId <- Id

dmpSystemVars == <<vars, dmpVars, demanded, held>>

DmpSystemTypeOK ==
    TypeOK /\ DmpTypeOK /\ demanded \subseteq Line /\ held \subseteq Line \X Data

MemoryImage == {<<line, mem[line]>> : line \in Line}

DmpSystemInit == Init /\ DmpInit /\ demanded = {} /\ held = MemoryImage

\* The line that the prefetcher scans: an answer that a load waits for, or one that
\* only a prefetch asked for.
ScanOf(in) ==
    IF NotifiesMissResponse(in)
    THEN [line |-> RspLine(in), data |-> in.rdata, depth |-> 0]
    ELSE IF NotifiesPrefetchResponse(in) /\ ScansPrefetch(in.rsp)
    THEN [line |-> RspLine(in), data |-> in.rdata, depth |-> prefetchDepths[in.rsp]]
    ELSE None

\* The target the cache sees: the prefetcher's, if it has one and the cache takes it.
Offered(in) == IF HasPrefetchTarget(ScanOf(in)) THEN NextTarget ELSE None

IsOffered(in) ==
    in.target = IF TakesTarget([in EXCEPT !.target = Offered(in)]) THEN Offered(in) ELSE None

DmpSystemNext ==
    \E in \in Inputs :
        /\ IsOffered(in)
        /\ Cycle(in)
        /\ DmpCycle(ScanOf(in), in.target # None, externalId)
        /\ demanded' = demanded \cup (IF LoadInCycle(in) /\ Accepts(in) THEN {in.cmd.line}
                                      ELSE {})
        /\ held' = held \cup MemoryImage'

DmpSystemSpec == DmpSystemInit /\ [][DmpSystemNext]_dmpSystemVars

----------------------------------------------------------------------------
\* Where the pointers lead that a line contains, or has contained, the next lines of
\* each target included.
Pointees(line) ==
    {p \in Line : \E x \in held : x[1] = line /\ \E k \in DOMAIN Pointers[x] : p = Pointers[x][k]}
TargetsOf(line) == {LinePlus(p, n) : p \in Pointees(line), n \in 0 .. NextLinePrefetches}

\* A path that starts at one of these lines, and may start again.
Paths(lines, n) ==
    {path \in [0 .. n -> Line] :
        /\ path[0] \in lines
        /\ \A k \in 1 .. n : path[k] \in lines \/ path[k] \in TargetsOf(path[k - 1])}

\* The lines that the pointers in these lines lead to in at most n + 1 hops.
Chased(lines, n) == UNION {TargetsOf(path[n]) : path \in Paths(lines, n)}

\* The prefetcher follows pointers no further than maxRecursionDepth says: whatever
\* merges, evictions and reuse of ids happen on the way, a request that no load
\* asked for is for a line that is reached from lines the pipeline loaded over at
\* most maxRecursionDepth prefetched lines (PointerChasingDmp.scala 11-13).
ChaseIsBounded ==
    MaxRecursionDepth >= 0 =>
        \A i \in Id : Pending(i) =>
            \/ outstandingLoads[i].line \in demanded
            \/ outstandingLoads[i].line \in Chased(demanded, MaxRecursionDepth)

\* The depth recorded for a prefetch in flight is how far its line is from the
\* lines the pipeline loaded, although ids are reused and targets dropped.
DepthsAreRight ==
    MaxRecursionDepth > 0 =>
        \A i \in OutstandingPrefetches :
            /\ prefetchDepths[i] > 0
            /\ outstandingLoads[i].line \in Chased(demanded, prefetchDepths[i] - 1)
=============================================================================
