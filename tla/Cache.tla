------------------------------- MODULE Cache -------------------------------
(***************************************************************************)
(* The set-associative, non-blocking cache of plugins/Cache.scala, as the  *)
(* synchronous circuit that the Scala code elaborates to.  One step of the *)
(* specification is one clock cycle.  The variables are the registers; the *)
(* operators that take the record `in' of input wires are the wires of a   *)
(* cycle, computed from the registers' old values.  Where the code assigns *)
(* a register several times in a cycle, the textually last assignment is   *)
(* the one that counts, as in the source.                                  *)
(*                                                                         *)
(* The data of a line is one abstract value; a word offset, a program      *)
(* counter and the statistics registers influence no branch of this code   *)
(* and are left out.  A register that is only read under its valid bit is  *)
(* folded into one variable that is None when the bit is clear.            *)
(***************************************************************************)
EXTENDS Integers, FiniteSets

CONSTANTS
    Sets,              \* the cache sets (set index bits of an address)
    Tags,              \* the tag bits of an address
    ZeroTag,           \* the tag every way holds after reset
    NWays,             \* ways per set
    NIds,              \* ids on the external bus
    NInternalIds,      \* ids on the internal bus
    Data,              \* abstract contents of a cache line
    CacheableTags,     \* tags of the addresses the `cacheable' predicate accepts
    MaxPrefetches,     \* bound on the prefetches in flight
    SecDmp,            \* TRUE iff the SecDMP defence is plugged in
    SelectiveDisabling,\* TRUE iff selective prefetcher disabling is plugged in
    None               \* no line, command, data or response

SecurityModeType == {"OFF", "MEDIUM", "HIGH"}

\* SecurityModeType.greaterThan
GreaterThan(left, right) ==
    \/ left = "HIGH" /\ right # "HIGH"
    \/ left = "MEDIUM" /\ right = "OFF"

Line == [tag : Tags, set : Sets]
Way == 0 .. NWays - 1
Id == 0 .. NIds - 1
InternalId == 0 .. NInternalIds - 1
Slot == InternalId   \* a forwarding entry per internal id

ASSUME CacheAssumption ==
    /\ NWays \in Nat \ {0}
    /\ NIds \in Nat \ {0}
    /\ NInternalIds \in Nat \ {0}
    /\ ZeroTag \in Tags
    /\ CacheableTags \subseteq Tags
    /\ MaxPrefetches \in Nat
    /\ SecDmp \in BOOLEAN
    /\ SelectiveDisabling \in BOOLEAN
    /\ None \notin Line /\ None \notin Data /\ None \notin InternalId
    /\ None \notin Id

InternalLoad == [write : {FALSE}, line : Line, id : InternalId, data : {None}]
Store == [write : {TRUE}, line : Line, id : {None}, data : Data]
InternalCmd == InternalLoad \cup Store
ExternalLoad == [write : {FALSE}, line : Line, id : Id, data : {None}]
ExternalCmd == ExternalLoad \cup Store
Response == [id : InternalId, line : Line, data : Data]

VARIABLES
    cache,            \* cache[set][way]: tag, value, age, valid
    externalId,       \* the id the next external request gets
    cmdBuffer,        \* the command waiting for external.cmd.ready, or None
    returning,        \* the buffered cache hit (rspBuffer), or None
    outstandingLoads, \* outstandingLoads[id]: line is None unless pending
    partition,        \* lines overlapping the secret partition (boundary CSRs)
    securityMode      \* the security mode CSR

cacheVars == <<cache, externalId, cmdBuffer, returning, outstandingLoads>>
csrVars == <<partition, securityMode>>

\* value is None in a way that is not valid.
CacheEntry == [tag : Tags, value : Data \cup {None}, age : Way, valid : BOOLEAN]

OutstandingTracker ==
    [line : Line \cup {None}, storeInvalidated : BOOLEAN,
     forwarding : [Slot -> InternalId \cup {None}],
     secret : BOOLEAN, mode : SecurityModeType]

CacheTypeOK ==
    /\ cache \in [Sets -> [Way -> CacheEntry]]
    /\ externalId \in Id
    /\ cmdBuffer \in ExternalCmd \cup {None}
    /\ returning \in Response \cup {None}
    /\ outstandingLoads \in [Id -> OutstandingTracker]
    /\ partition \in SUBSET Line
    /\ securityMode \in SecurityModeType

NoForwarding == [s \in Slot |-> None]

CacheInit ==
    /\ cache = [s \in Sets |-> [w \in Way |->
                  [tag |-> ZeroTag, value |-> None, age |-> 0, valid |-> FALSE]]]
    /\ externalId = 0
    /\ cmdBuffer = None
    /\ returning = None
    /\ outstandingLoads = [i \in Id |->
                  [line |-> None, storeInvalidated |-> FALSE,
                   forwarding |-> NoForwarding, secret |-> FALSE, mode |-> "OFF"]]

----------------------------------------------------------------------------
(* Lookups in the registers.                                               *)

Pending(i) == outstandingLoads[i].line # None

\* Mutant of Fresh: storeInvalidated is ignored.
FreshAnyPending(i) == Pending(i)

\* A pending request whose line has not been marked overwritten: the only kind
\* a later load is merged into, and the only kind that fills the cache.
Fresh(i) == Pending(i) /\ ~outstandingLoads[i].storeInvalidated

\* wayForAddress, as the set of ways that match
HitWays(line) ==
    {w \in Way : cache[line.set][w].valid /\ cache[line.set][w].tag = line.tag}

Cached(line) == HitWays(line) # {}

\* The last matching way, as in the loop of wayForAddress.
HitWay(line) == CHOOSE w \in HitWays(line) : \A v \in HitWays(line) : v <= w

AlreadyPending(line) == \E i \in Id : Fresh(i) /\ outstandingLoads[i].line = line

WaitingSlots(i) == {s \in Slot : outstandingLoads[i].forwarding[s] # None}

IsFirstWaiting(i, s) == s \in WaitingSlots(i) /\ \A t \in WaitingSlots(i) : s <= t

\* The PriorityMux over the forwarding entries: the first one that is free.
FreeSlots(i) == Slot \ WaitingSlots(i)
IsFirstFree(i, s) ==
    IF FreeSlots(i) = {} THEN s = NInternalIds - 1
    ELSE s \in FreeSlots(i) /\ \A t \in FreeSlots(i) : s <= t

\* Pending requests that no load waits for.
OutstandingPrefetches == {i \in Id : Pending(i) /\ WaitingSlots(i) = {}}

Victims(set) == {w \in Way : cache[set][w].age = NWays - 1 \/ ~cache[set][w].valid}

IsOldestWay(set, w) ==
    IF Victims(set) = {} THEN w = 0
    ELSE w \in Victims(set) /\ \A v \in Victims(set) : v <= w

----------------------------------------------------------------------------
(* The wires of a cycle.  in.cmd: internal.cmd; in.rsp and in.rdata: the   *)
(* id and data on external.rsp (None if not valid); in.cmdReady:           *)
(* external.cmd.ready; in.rspReady: internalRspBuffer.ready; in.target:    *)
(* the prefetcher's next target (None if hasPrefetchTarget is low);        *)
(* in.garbage: what the write bit and data that a prefetch leaves          *)
(* unassigned on external.cmd come to: None if the write bit is low.       *)

RspValid(in) == in.rsp # None
RspLine(in) == outstandingLoads[in.rsp].line

\* A memory response is being handed to a load.
SendingRsp(in) == RspValid(in) /\ WaitingSlots(in.rsp) # {}

\* Mutant of RequestDone: a response nobody waits for is never taken.
RequestDoneIfForwarding(in) ==
    RspValid(in) /\ in.rspReady /\ \E s \in Slot : WaitingSlots(in.rsp) = {s}

\* insertRspInCache is called: the last waiting load is served in this cycle, or
\* there was none.  This is also external.rsp.ready.
RequestDone(in) ==
    /\ RspValid(in)
    /\ \/ WaitingSlots(in.rsp) = {}
       \/ in.rspReady /\ \E s \in Slot : WaitingSlots(in.rsp) = {s}

StoreInCycle(in) == in.cmd # None /\ in.cmd.write
LoadInCycle(in) == in.cmd # None /\ ~in.cmd.write

\* Mutant of Fills: a store in the cycle of the response is not looked at.
FillsDespiteStore(in) ==
    /\ RequestDone(in)
    /\ ~outstandingLoads[in.rsp].storeInvalidated
    /\ RspLine(in).tag \in CacheableTags

Fills(in) ==
    /\ RequestDone(in)
    /\ ~outstandingLoads[in.rsp].storeInvalidated
    /\ RspLine(in).tag \in CacheableTags
    /\ ~(StoreInCycle(in) /\ in.cmd.line = RspLine(in))

Hit(in) == LoadInCycle(in) /\ Cached(in.cmd.line)

\* returnFromCache acknowledges the load: the one-entry hit buffer is free.
ReturnsHit(in) == Hit(in) /\ returning = None

HitResponse(in) ==
    [id |-> in.cmd.id, line |-> in.cmd.line,
     data |-> cache[in.cmd.line.set][HitWay(in.cmd.line)].value]

\* A load miss is attached to the pending request i for its line, unless a
\* response for that line is on the bus in this very cycle.
Merges(in, i) ==
    /\ LoadInCycle(in) /\ ~Cached(in.cmd.line)
    /\ Fresh(i) /\ outstandingLoads[i].line = in.cmd.line
    /\ ~(RspValid(in) /\ RspLine(in) = in.cmd.line)

\* Mutant of Initiates: the next external id is taken to be free.
InitiatesOnBusyId(in) ==
    /\ cmdBuffer = None
    /\ \/ StoreInCycle(in)
       \/ LoadInCycle(in) /\ ~Cached(in.cmd.line) /\ ~AlreadyPending(in.cmd.line)

\* initiateCmdForwarding goes through.
Initiates(in) ==
    /\ cmdBuffer = None
    /\ \/ StoreInCycle(in)
       \/ /\ LoadInCycle(in)
          /\ ~Cached(in.cmd.line)
          /\ ~AlreadyPending(in.cmd.line)
          /\ ~Pending(externalId)

\* internal.cmd.ready
Accepts(in) == ReturnsHit(in) \/ Initiates(in) \/ \E i \in Id : Merges(in, i)

\* Mutant of TakesTarget: one prefetch too many.
TakesOneTargetMore(in) ==
    /\ cmdBuffer = None
    /\ ~Initiates(in)
    /\ Cardinality(OutstandingPrefetches) <= MaxPrefetches
    /\ in.target # None
    /\ ~Pending(externalId)

\* getNextPrefetchTarget is called; the target leaves the prefetcher.
TakesTarget(in) ==
    /\ cmdBuffer = None
    /\ ~Initiates(in)
    /\ Cardinality(OutstandingPrefetches) < MaxPrefetches
    /\ in.target # None
    /\ ~Pending(externalId)

\* Mutants of IssuesPrefetch: no lookup in the cache, no lookup in the requests.
IssuesPrefetchOfCached(in) ==
    TakesTarget(in) /\ in.target.tag \in CacheableTags /\ ~AlreadyPending(in.target)
IssuesPrefetchOfPending(in) ==
    TakesTarget(in) /\ in.target.tag \in CacheableTags /\ ~Cached(in.target)

IssuesPrefetch(in) ==
    /\ TakesTarget(in)
    /\ in.target.tag \in CacheableTags
    /\ ~Cached(in.target)
    /\ ~AlreadyPending(in.target)

\* external.cmd; a prefetch assigns only valid, address and id.
BusCmd(in) ==
    IF cmdBuffer # None THEN cmdBuffer
    ELSE IF Initiates(in)
         THEN IF in.cmd.write THEN in.cmd ELSE [in.cmd EXCEPT !.id = externalId]
    ELSE IF IssuesPrefetch(in)
         THEN IF in.garbage = None
              THEN [write |-> FALSE, line |-> in.target, id |-> externalId, data |-> None]
              ELSE [write |-> TRUE, line |-> in.target, id |-> None, data |-> in.garbage]
    ELSE None

----------------------------------------------------------------------------
(* What the prefetcher is told.  A response is scanned under the secrecy   *)
(* and mode recorded with its request, a hit under those of this cycle.    *)

DmpMayScanRequest(i) ==
    /\ SecDmp => ~outstandingLoads[i].secret
    /\ SelectiveDisabling => outstandingLoads[i].mode = "OFF"

DmpMayScanHit(line) ==
    /\ SecDmp => line \notin partition
    /\ SelectiveDisabling => securityMode = "OFF"

\* notifyPrefetchResponse
NotifiesPrefetchResponse(in) ==
    RspValid(in) /\ WaitingSlots(in.rsp) = {} /\ DmpMayScanRequest(in.rsp)

\* notifyLoadResponse with cacheHit = false
NotifiesMissResponse(in) ==
    SendingRsp(in) /\ in.rspReady /\ DmpMayScanRequest(in.rsp)

\* The hit that goes out on internal.rsp in this cycle (buffered or not), or None.
ReturnedHit(in) ==
    IF SendingRsp(in) \/ ~in.rspReady THEN None
    ELSE IF returning # None THEN returning
    ELSE IF ReturnsHit(in) THEN HitResponse(in)
    ELSE None

\* notifyLoadResponse with cacheHit = true
NotifiesHitResponse(in) ==
    ReturnedHit(in) # None /\ DmpMayScanHit(ReturnedHit(in).line)

\* notifyLoadRequest
NotifiesLoadRequest(in) ==
    /\ LoadInCycle(in) /\ Accepts(in)
    /\ SelectiveDisabling => securityMode # "HIGH"

----------------------------------------------------------------------------
(* The registers' next values.                                             *)

Allocates(in) == (Initiates(in) /\ LoadInCycle(in)) \/ IssuesPrefetch(in)

\* The entry of the request that goes out.  storeInvalidated is not assigned.
Allocated(in) ==
    LET line == IF Initiates(in) THEN in.cmd.line ELSE in.target
    IN  [outstandingLoads[externalId] EXCEPT
            !.line = line,
            !.forwarding = IF Initiates(in)
                           THEN [NoForwarding EXCEPT ![0] = in.cmd.id]
                           ELSE NoForwarding,
            !.secret = SecDmp /\ line \in partition,
            !.mode = IF SelectiveDisabling THEN securityMode ELSE "OFF"]

ForwardingWith(in, i) ==
    [s \in Slot |-> IF IsFirstFree(i, s) THEN in.cmd.id
                    ELSE outstandingLoads[i].forwarding[s]]

\* Mutant of Merged: the joined request loses its secrecy and its mode.
MergedInTheClear(in, i) ==
    [outstandingLoads[i] EXCEPT !.forwarding = ForwardingWith(in, i),
                                !.secret = FALSE, !.mode = "OFF"]

\* A load joins request i: the request stays secret only while its line still
\* is, and takes the lower of the two security modes.
Merged(in, i) ==
    LET o == outstandingLoads[i]
    IN  [o EXCEPT
            !.forwarding = ForwardingWith(in, i),
            !.secret = o.secret /\ in.cmd.line \in partition,
            !.mode = IF SelectiveDisabling /\ GreaterThan(o.mode, securityMode)
                     THEN securityMode ELSE o.mode]

\* Mutant of Forwarded: the load that took the response stays in the list.
ForwardedStillWaiting(in) == outstandingLoads[in.rsp]

\* The first waiting load has taken the response.
Forwarded(in) ==
    IF SendingRsp(in) /\ in.rspReady
    THEN [outstandingLoads[in.rsp] EXCEPT
            !.forwarding = [s \in Slot |-> IF IsFirstWaiting(in.rsp, s) THEN None
                                           ELSE outstandingLoads[in.rsp].forwarding[s]]]
    ELSE outstandingLoads[in.rsp]

\* Mutant of Completed: the last load stays in the list.
CompletedStillWaiting(in) ==
    [outstandingLoads[in.rsp] EXCEPT !.line = None, !.storeInvalidated = FALSE,
                                     !.secret = FALSE, !.mode = "OFF"]

\* The response has been consumed.  secret and mode are dead until the next
\* allocation and are cleared here.
Completed(in) ==
    [Forwarded(in) EXCEPT !.line = None, !.storeInvalidated = FALSE,
                          !.secret = FALSE, !.mode = "OFF"]

StoreOverwrites(in, i) ==
    StoreInCycle(in) /\ Pending(i) /\ outstandingLoads[i].line = in.cmd.line

NextTracker(in, i) ==
    LET o == IF i = externalId /\ Allocates(in) THEN Allocated(in)
             ELSE IF Merges(in, i) THEN Merged(in, i)
             ELSE IF in.rsp = i
                  THEN IF RequestDone(in) THEN Completed(in) ELSE Forwarded(in)
             ELSE outstandingLoads[i]
    IN  IF StoreOverwrites(in, i) THEN [o EXCEPT !.storeInvalidated = TRUE] ELSE o

\* Ways whose tag a store matches, valid or not.
StoreWays(in, set) ==
    IF StoreInCycle(in) /\ in.cmd.line.set = set
    THEN {w \in Way : cache[set][w].tag = in.cmd.line.tag} ELSE {}

FilledWay(in, set, w) ==
    Fills(in) /\ RspLine(in).set = set /\ IsOldestWay(set, w)

\* Mutant of AgeAfterFill: increaseAgesUpTo(ways) instead of ways - 1.
AgeAfterFillUncapped(in, set, w) ==
    LET age == cache[set][w].age
    IN  IF Fills(in) /\ RspLine(in).set = set THEN age + 1 ELSE age

\* age after insertRspInCache: increaseAgesUpTo(ways - 1) comes after the filled
\* way's reset to 0 and overrides it when that way was not the oldest.
AgeAfterFill(in, set, w) ==
    LET age == cache[set][w].age
    IN  IF Fills(in) /\ RspLine(in).set = set
        THEN IF age < NWays - 1 THEN age + 1 ELSE IF FilledWay(in, set, w) THEN 0 ELSE age
        ELSE age

\* The ways whose iteration of the store's loop assigns the age of way w: its
\* own, and those that were younger (decreaseAgesUntil).
AgingWays(in, set, w) ==
    {v \in StoreWays(in, set) : v = w \/ cache[set][v].age < cache[set][w].age}

NextAge(in, set, w) ==
    LET age == cache[set][w].age
        hitWay == HitWay(in.cmd.line)
        aging == AgingWays(in, set, w)
    IN  IF Hit(in) /\ in.cmd.line.set = set
        THEN IF w = hitWay THEN 0
             ELSE IF age < cache[set][hitWay].age THEN age + 1
             ELSE AgeAfterFill(in, set, w)
        ELSE IF aging = {} THEN AgeAfterFill(in, set, w)
        ELSE IF \A v \in aging : v <= w /\ w \in aging THEN NWays - 1
        ELSE age - 1

NextWay(in, set, w) ==
    LET filled == FilledWay(in, set, w)
        valid == w \notin StoreWays(in, set) /\ (filled \/ cache[set][w].valid)
    IN  [tag   |-> IF filled THEN RspLine(in).tag ELSE cache[set][w].tag,
         value |-> IF ~valid THEN None
                   ELSE IF filled THEN in.rdata ELSE cache[set][w].value,
         age   |-> NextAge(in, set, w),
         valid |-> valid]

NextReturning(in) ==
    IF returning # None
    THEN IF ~SendingRsp(in) /\ in.rspReady THEN None ELSE returning
    ELSE IF ReturnsHit(in) /\ (SendingRsp(in) \/ ~in.rspReady) THEN HitResponse(in)
    ELSE None

\* One clock cycle of the cache.
CacheCycle(in) ==
    /\ cache' = [s \in Sets |-> [w \in Way |-> NextWay(in, s, w)]]
    /\ externalId' = IF Allocates(in) THEN (externalId + 1) % NIds ELSE externalId
    /\ cmdBuffer' = IF in.cmdReady THEN None ELSE BusCmd(in)
    /\ returning' = NextReturning(in)
    /\ outstandingLoads' = [i \in Id |-> NextTracker(in, i)]
=============================================================================
