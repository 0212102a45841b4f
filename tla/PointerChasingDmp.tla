-------------------------- MODULE PointerChasingDmp --------------------------
(***************************************************************************)
(* The pointer-chasing prefetcher of plugins/memory/PointerChasingDmp.scala *)
(* (Apple's DMP, CDP and the base DMPs of Config.scala): it scans lines    *)
(* that come in from the memory for pointers and offers the line each one  *)
(* points to, and the lines after it, as prefetch targets.  Lines that it  *)
(* prefetched are scanned too, up to MaxRecursionDepth levels deep.        *)
(*                                                                         *)
(* One step is a clock cycle, as in Cache.  The pointer heuristic is the   *)
(* constant Pointers: the lines that the words of a line, from the lowest  *)
(* on, look like pointers to.  An entry that is not valid is None.         *)
(***************************************************************************)
EXTENDS Integers, Sequences

CONSTANTS
    Target,             \* the lines a prefetch may ask for
    LineData,           \* what a line of memory may contain
    RequestId,          \* the ids of the external bus
    Pointers,           \* Pointers[<<line, data>>]: the lines its pointers point to
    LineAfter,          \* LineAfter[line]: the next line in memory
    MaxRecursionDepth,  \* maxRecursionDepth; -1 for no limit
    NextLinePrefetches, \* nextLinePrefetches
    QueueSize,          \* prefetchQueueSize
    None

Index == 0 .. QueueSize - 1

\* Without a limit the code stores depth 1 for every prefetch.
Depth == IF MaxRecursionDepth < 0 THEN 0 .. 1 ELSE 0 .. MaxRecursionDepth + 1

PrefetchQueueEntry ==
    [target : Target, depth : Depth, nextLineCount : 0 .. NextLinePrefetches]

Scan == [line : Target, data : LineData, depth : Depth]

VARIABLES
    prefetchQueue, \* prefetchQueue[index]; the oldest target has the highest index
    prefetchDepths \* prefetchDepths[id]: the depth of the prefetch sent with id

dmpVars == <<prefetchQueue, prefetchDepths>>

DmpTypeOK ==
    /\ prefetchQueue \in [Index -> PrefetchQueueEntry \cup {None}]
    /\ prefetchDepths \in [RequestId -> Depth]

DmpInit ==
    /\ prefetchQueue = [k \in Index |-> None]
    /\ prefetchDepths = [id \in RequestId |-> 0]

\* Mutant of ScansPrefetch: one level too deep.
ScansPrefetchTooDeep(id) ==
    MaxRecursionDepth # 0 /\ (MaxRecursionDepth > 0 => prefetchDepths[id] <= MaxRecursionDepth + 1)

\* maxRecursionCheck: the answer to this prefetch is scanned.
ScansPrefetch(id) ==
    MaxRecursionDepth # 0 /\ (MaxRecursionDepth > 0 => prefetchDepths[id] <= MaxRecursionDepth)

\* scan is the line that updateState looks at in this cycle, or None.
IsUpdatingState(scan) == scan # None /\ Pointers[<<scan.line, scan.data>>] # <<>>

\* The line is rotated so that the word that was asked for comes first.
Rotations(seq) == {SubSeq(seq, n, Len(seq)) \o SubSeq(seq, 1, n - 1) : n \in 1 .. Len(seq)}

\* The queue after the pointers `found' have been shifted in, the first word's
\* pointer last; what is shifted out at the old end is lost.
Enqueued(found, depth) ==
    [k \in Index |->
        IF k < Len(found)
        THEN [target |-> found[Len(found) - k], depth |-> depth, nextLineCount |-> 0]
        ELSE prefetchQueue[k - Len(found)]]

ValidEntries == {k \in Index : prefetchQueue[k] # None}

\* hasPrefetchTarget
HasPrefetchTarget(scan) == ~IsUpdatingState(scan) /\ ValidEntries # {}

\* The order of getNextPrefetchTarget: fewer next lines taken, then lower depth,
\* then older.
Precedes(i, j) ==
    LET a == prefetchQueue[i]
        b == prefetchQueue[j]
    IN  \/ a.nextLineCount < b.nextLineCount
        \/ a.nextLineCount = b.nextLineCount /\ a.depth < b.depth
        \/ a.nextLineCount = b.nextLineCount /\ a.depth = b.depth /\ j <= i

NextTargetIdx == CHOOSE i \in ValidEntries : \A j \in ValidEntries : Precedes(i, j)

\* line + n lines
LinePlus(line, n) ==
    LET after[k \in 0 .. n] == IF k = 0 THEN line ELSE LineAfter[after[k - 1]]
    IN  after[n]

\* The target that getNextPrefetchTarget returns.
NextTarget ==
    LET entry == prefetchQueue[NextTargetIdx]
    IN  LinePlus(entry.target, entry.nextLineCount)

\* The queue after getNextPrefetchTarget.
Advanced ==
    LET entry == prefetchQueue[NextTargetIdx]
    IN  [prefetchQueue EXCEPT
            ![NextTargetIdx] = IF entry.nextLineCount = NextLinePrefetches THEN None
                               ELSE [entry EXCEPT !.nextLineCount = entry.nextLineCount + 1]]

\* Mutant of DmpCycle: the depth of the request is not recorded.
DmpCycleWithoutDepth(scan, takes, id) ==
    /\ IF IsUpdatingState(scan)
       THEN \E found \in Rotations(Pointers[<<scan.line, scan.data>>]) :
              prefetchQueue' = Enqueued(found, scan.depth)
       ELSE prefetchQueue' = IF takes THEN Advanced ELSE prefetchQueue
    /\ UNCHANGED prefetchDepths

\* One clock cycle of the prefetcher.  takes: the cache calls getNextPrefetchTarget
\* with id, which it only does when there is a target.
DmpCycle(scan, takes, id) ==
    /\ IF IsUpdatingState(scan)
       THEN \E found \in Rotations(Pointers[<<scan.line, scan.data>>]) :
              prefetchQueue' = Enqueued(found, scan.depth)
       ELSE prefetchQueue' = IF takes THEN Advanced ELSE prefetchQueue
    /\ prefetchDepths' =
         IF takes /\ MaxRecursionDepth # 0
         THEN [prefetchDepths EXCEPT
                 ![id] = IF MaxRecursionDepth > 0
                         THEN prefetchQueue[NextTargetIdx].depth + 1 ELSE 1]
         ELSE prefetchDepths
=============================================================================
