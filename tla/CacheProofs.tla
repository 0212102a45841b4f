---------------------------- MODULE CacheProofs ----------------------------
(***************************************************************************)
(* Proofs about CacheSystem, for any geometry, any number of ids, any data *)
(* and any prefetcher.                                                     *)
(***************************************************************************)
EXTENDS CacheSystem, FiniteSetTheorems, TLAPS

USE DEF Way, Id, InternalId, Slot

\* The wires of a cycle are typed, and a response on the bus is one the memory owes.
LEMMA InputTypes ==
    ASSUME TypeOK, AssertedIsOwed, NEW in \in Inputs
    PROVE  /\ in.cmd \in InternalCmd \cup {None}
           /\ in.rsp \in Id \cup {None}
           /\ in.rsp # None => in.rsp \in Id /\ in.rdata = memRsp[in.rsp]
                               /\ memRsp[in.rsp] \in Data
           /\ in.target \in Line \cup {None}
           /\ in.garbage \in Data \cup {None}
           /\ in.cmdReady \in BOOLEAN /\ in.rspReady \in BOOLEAN
<1>1. PICK cmd \in Cmds, rsp \in Rsps, cmdReady \in BOOLEAN, rspReady \in RspReady,
           target \in Targets, garbage \in Garbage :
         in = [cmd |-> cmd, rsp |-> rsp,
               rdata |-> IF rsp = None THEN None ELSE memRsp[rsp],
               cmdReady |-> cmdReady, rspReady |-> rspReady, target |-> target,
               garbage |-> garbage]
  BY DEF Inputs
<1>2. cmd \in InternalCmd \cup {None}
  BY DEF Cmds, TypeOK, InternalCmd
<1>3. /\ rsp \in Id \cup {None}
      /\ rsp # None => rsp \in Id /\ memRsp[rsp] \in Data
  BY DEF Rsps, TypeOK, AssertedIsOwed
<1>4. target \in Line \cup {None} /\ garbage \in Data \cup {None}
  BY CacheSystemAssumption DEF Targets
<1>5. rspReady \in BOOLEAN
  BY CacheSystemAssumption
<1>6. QED
  BY <1>1, <1>2, <1>3, <1>4, <1>5

\* The command on the external bus is typed.
LEMMA BusCmdType ==
    ASSUME TypeOK, AssertedIsOwed, NEW in \in Inputs
    PROVE  BusCmd(in) \in ExternalCmd \cup {None}
<1>1. CASE cmdBuffer # None
  BY <1>1 DEF BusCmd, TypeOK, CacheTypeOK
<1>2. CASE cmdBuffer = None /\ Initiates(in)
  <2>1. in.cmd \in InternalCmd
    BY <1>2, InputTypes DEF Initiates, StoreInCycle, LoadInCycle
  <2>2. CASE in.cmd \in Store
    BY <1>2, <2>2 DEF BusCmd, Store, ExternalCmd
  <2>3. CASE in.cmd \in InternalLoad
    <3>1. [in.cmd EXCEPT !.id = externalId] \in ExternalLoad
      BY <2>3 DEF InternalLoad, ExternalLoad, TypeOK, CacheTypeOK
    <3>2. QED BY <1>2, <2>3, <3>1 DEF BusCmd, InternalLoad, ExternalCmd
  <2>4. QED BY <2>1, <2>2, <2>3 DEF InternalCmd
<1>3. CASE cmdBuffer = None /\ ~Initiates(in) /\ IssuesPrefetch(in)
  <2>1. in.target \in Line /\ in.garbage \in Data \cup {None}
    BY <1>3, InputTypes DEF IssuesPrefetch, TakesTarget
  <2>2. externalId \in Id
    BY DEF TypeOK, CacheTypeOK
  <2>3. QED
    BY <1>3, <2>1, <2>2 DEF BusCmd, ExternalCmd, ExternalLoad, Store
<1>4. CASE cmdBuffer = None /\ ~Initiates(in) /\ ~IssuesPrefetch(in)
  BY <1>4 DEF BusCmd
<1>5. QED BY <1>1, <1>2, <1>3, <1>4

\* A load on the external bus has been waiting in cmdBuffer, or is sent in this cycle.
LEMMA BusLoad ==
    ASSUME TypeOK, AssertedIsOwed, NEW in \in Inputs, NEW i \in Id,
           BusCmd(in) # None, ~BusCmd(in).write, BusCmd(in).id = i
    PROVE  \/ BufferedRequest(i) /\ BusCmd(in) = cmdBuffer /\ ~Allocates(in)
           \/ /\ cmdBuffer = None /\ i = externalId /\ Allocates(in)
              /\ BusCmd(in).line = IF Initiates(in) THEN in.cmd.line ELSE in.target
<1>1. CASE cmdBuffer # None
  BY <1>1 DEF BusCmd, BufferedRequest, Allocates, Initiates, IssuesPrefetch, TakesTarget
<1>2. CASE cmdBuffer = None /\ Initiates(in)
  <2>1. LoadInCycle(in) /\ BusCmd(in) = [in.cmd EXCEPT !.id = externalId]
    BY <1>2 DEF BusCmd, Initiates, StoreInCycle, LoadInCycle
  <2>2. in.cmd \in InternalLoad
    BY <2>1, InputTypes DEF LoadInCycle, InternalCmd, Store
  <2>3. QED BY <1>2, <2>1, <2>2 DEF InternalLoad, Allocates
<1>3. CASE cmdBuffer = None /\ ~Initiates(in)
  <2>1. IssuesPrefetch(in) /\ in.garbage = None
    BY <1>3 DEF BusCmd
  <2>2. QED BY <1>3, <2>1 DEF BusCmd, Allocates
<1>4. QED BY <1>1, <1>2, <1>3

\* A request that is sent has a line, and its id was free.
LEMMA SentLine ==
    ASSUME TypeOK, AssertedIsOwed, NEW in \in Inputs, Allocates(in)
    PROVE  /\ cmdBuffer = None /\ ~Pending(externalId)
           /\ (IF Initiates(in) THEN in.cmd.line ELSE in.target) \in Line
<1>1. CASE Initiates(in)
  <2>1. LoadInCycle(in)
    BY <1>1 DEF Allocates, IssuesPrefetch, TakesTarget
  <2>2. in.cmd.line \in Line
    BY <2>1, InputTypes DEF LoadInCycle, InternalCmd, InternalLoad, Store
  <2>3. QED BY <1>1, <2>1, <2>2 DEF Initiates, LoadInCycle, StoreInCycle
<1>2. CASE ~Initiates(in)
  BY <1>2, InputTypes DEF Allocates, IssuesPrefetch, TakesTarget
<1>3. QED BY <1>1, <1>2

\* The next entry of a request is typed.
LEMMA TrackerType ==
    ASSUME TypeOK, AssertedIsOwed, NEW in \in Inputs, NEW i \in Id
    PROVE  NextTracker(in, i) \in OutstandingTracker
<1> USE CacheAssumption
<1> DEFINE Old(j) == outstandingLoads[j]
<1>1. \A j \in Id : Old(j) \in OutstandingTracker
  BY DEF TypeOK, CacheTypeOK
<1>2. externalId \in Id /\ securityMode \in SecurityModeType
  BY DEF TypeOK, CacheTypeOK
<1>3. NoForwarding \in [Slot -> InternalId \cup {None}]
  BY DEF NoForwarding
<1>4. LoadInCycle(in) => in.cmd.line \in Line /\ in.cmd.id \in InternalId
  BY InputTypes DEF LoadInCycle, InternalCmd, InternalLoad, Store
<1>5. ASSUME Allocates(in) PROVE Allocated(in) \in OutstandingTracker
  <2>1. Initiates(in) => in.cmd.line \in Line /\ in.cmd.id \in InternalId
    BY <1>4, <1>5 DEF Allocates, IssuesPrefetch, TakesTarget
  <2>2. ~Initiates(in) => in.target \in Line
    BY <1>5, InputTypes DEF Allocates, IssuesPrefetch, TakesTarget
  <2>3. Initiates(in) =>
          [NoForwarding EXCEPT ![0] = in.cmd.id] \in [Slot -> InternalId \cup {None}]
    BY <1>3, <2>1
  <2>4. Old(externalId) \in OutstandingTracker
    BY <1>1, <1>2
  <2> HIDE DEF Old
  <2>5. QED
    BY <1>2, <1>3, <2>1, <2>2, <2>3, <2>4
       DEF Allocated, OutstandingTracker, SecurityModeType, Old
<1>6. ASSUME Merges(in, i) PROVE Merged(in, i) \in OutstandingTracker
  <2>1. ForwardingWith(in, i) \in [Slot -> InternalId \cup {None}]
    BY <1>1, <1>4, <1>6 DEF ForwardingWith, Merges, OutstandingTracker
  <2>2. QED
    BY <1>1, <1>2, <2>1 DEF Merged, OutstandingTracker
<1>7. ASSUME in.rsp = i
      PROVE  /\ Forwarded(in) \in OutstandingTracker
             /\ Completed(in) \in OutstandingTracker
  <2>1. in.rsp \in Id
    BY <1>7
  <2> DEFINE f == [s \in Slot |-> IF IsFirstWaiting(in.rsp, s) THEN None
                                  ELSE outstandingLoads[in.rsp].forwarding[s]]
  <2>4. f \in [Slot -> InternalId \cup {None}]
    <3> DEFINE g == outstandingLoads[in.rsp].forwarding
    <3>1. g \in [Slot -> InternalId \cup {None}]
      BY <1>1, <2>1 DEF OutstandingTracker
    <3>2. QED BY <3>1
  <2>5. outstandingLoads[in.rsp] \in OutstandingTracker
    BY <1>1, <2>1
  <2>2. Forwarded(in) \in OutstandingTracker
    <3>1. \A o \in OutstandingTracker, h \in [Slot -> InternalId \cup {None}] :
             [o EXCEPT !.forwarding = h] \in OutstandingTracker
      BY DEF OutstandingTracker
    <3> HIDE DEF f
    <3>2. Forwarded(in) = IF SendingRsp(in) /\ in.rspReady
                          THEN [outstandingLoads[in.rsp] EXCEPT !.forwarding = f]
                          ELSE outstandingLoads[in.rsp]
      BY DEF Forwarded, f
    <3>3. QED BY <2>4, <2>5, <3>1, <3>2
  <2>3. QED
    BY <2>2 DEF Completed, OutstandingTracker, SecurityModeType
<1>8. \A o \in OutstandingTracker :
        [o EXCEPT !.storeInvalidated = TRUE] \in OutstandingTracker
  BY DEF OutstandingTracker
<1>9. QED
  BY <1>1, <1>5, <1>6, <1>7, <1>8 DEF NextTracker

\* The way a lookup returns is one that matches.
LEMMA HitWayMatches ==
    ASSUME TypeOK, OneCopyPerLine, NEW line \in Line, Cached(line)
    PROVE  HitWay(line) \in HitWays(line)
<1>1. PICK w \in HitWays(line) : TRUE
  BY DEF Cached
<1>2. \A v \in HitWays(line) : v = w
  BY <1>1 DEF HitWays, OneCopyPerLine, Line
<1>3. w \in Int
  BY <1>1, CacheAssumption DEF HitWays
<1>4. \A v \in HitWays(line) : v <= w
  BY <1>2, <1>3
<1>5. QED
  BY <1>1, <1>4 DEF HitWay

\* The next age of a way is one of the ways' ages: no increment or decrement
\* leaves the range of the age register.
LEMMA AgeType ==
    ASSUME TypeOK, AssertedIsOwed, OneCopyPerLine,
           NEW in \in Inputs, NEW s \in Sets, NEW w \in Way
    PROVE  NextAge(in, s, w) \in Way
<1> USE CacheAssumption
<1>1. \A v \in Way : cache[s][v].age \in Way
  BY DEF TypeOK, CacheTypeOK, CacheEntry
<1>2. AgeAfterFill(in, s, w) \in Way
  BY <1>1 DEF AgeAfterFill
<1>3. CASE Hit(in) /\ in.cmd.line.set = s
  <2>1. in.cmd.line \in Line /\ Cached(in.cmd.line)
    BY <1>3, InputTypes DEF Hit, LoadInCycle, InternalCmd, InternalLoad, Store
  <2>2. HitWay(in.cmd.line) \in Way
    BY <2>1, HitWayMatches DEF HitWays
  <2>3. cache[s][HitWay(in.cmd.line)].age \in Way
    BY <1>1, <2>2
  <2>4. QED
    BY <1>1, <1>2, <1>3, <2>3 DEF NextAge
<1>4. CASE ~(Hit(in) /\ in.cmd.line.set = s)
  <2>1. CASE AgingWays(in, s, w) = {}
    BY <1>2, <1>4, <2>1 DEF NextAge
  <2>2. CASE \E v \in AgingWays(in, s, w) : v # w
    <3>1. PICK v \in AgingWays(in, s, w) : v # w
      BY <2>2
    <3>2. v \in Way /\ cache[s][v].age < cache[s][w].age
      BY <3>1 DEF AgingWays, StoreWays
    <3>3. cache[s][w].age - 1 \in Way
      BY <1>1, <3>2
    <3>4. QED
      BY <1>4, <2>2, <3>3 DEF NextAge
  <2>3. CASE AgingWays(in, s, w) = {w}
    <3>1. NextAge(in, s, w) = NWays - 1
      BY <1>4, <2>3 DEF NextAge
    <3>2. QED
      BY <3>1
  <2>4. QED
    BY <2>1, <2>2, <2>3
<1>5. QED
  BY <1>3, <1>4

\* A response that fills the cache belongs to a fresh request, whose line is not
\* cached.
LEMMA FillFacts ==
    ASSUME CacheInvariant, NEW in \in Inputs, Fills(in)
    PROVE  /\ in.rsp \in Id /\ Fresh(in.rsp) /\ RequestDone(in)
           /\ RspLine(in) \in Line /\ ~Cached(RspLine(in))
           /\ in.rdata \in Data
<1>1. in.rsp \in Id /\ in.rdata = memRsp[in.rsp] /\ memRsp[in.rsp] \in Data
  BY InputTypes DEF CacheInvariant, Fills, RequestDone, RspValid
<1>2. Pending(in.rsp)
  BY <1>1, CacheAssumption DEF CacheInvariant, RequestOwnership
<1>3. Fresh(in.rsp)
  BY <1>2 DEF Fresh, Fills
<1>4. RspLine(in) \in Line
  BY <1>1, <1>2
     DEF Pending, RspLine, CacheInvariant, TypeOK, CacheTypeOK, OutstandingTracker
<1>5. ~Cached(RspLine(in))
  BY <1>1, <1>3 DEF CacheInvariant, FreshRequestsAreNeeded, RspLine
<1>6. QED
  BY <1>1, <1>3, <1>4, <1>5 DEF Fills

\* What a cycle does to the line of a request: it is sent, completed, or kept.
LEMMA TrackerLine ==
    ASSUME TypeOK, AssertedIsOwed, NEW in \in Inputs, NEW i \in Id
    PROVE  NextTracker(in, i).line =
             IF i = externalId /\ Allocates(in)
             THEN IF Initiates(in) THEN in.cmd.line ELSE in.target
             ELSE IF RequestDone(in) /\ in.rsp = i THEN None
             ELSE outstandingLoads[i].line
<1>1. outstandingLoads[i] \in OutstandingTracker
  BY DEF TypeOK, CacheTypeOK
<1>2. outstandingLoads[externalId] \in OutstandingTracker
  BY DEF TypeOK, CacheTypeOK
<1>3. Allocated(in).line = IF Initiates(in) THEN in.cmd.line ELSE in.target
  BY <1>2 DEF Allocated, OutstandingTracker
<1>4. Merges(in, i) => in.rsp # i /\ Merged(in, i).line = outstandingLoads[i].line
  BY <1>1, CacheAssumption DEF Merges, Merged, RspValid, RspLine, OutstandingTracker
<1>5. in.rsp = i => /\ Completed(in).line = None
                    /\ Forwarded(in).line = outstandingLoads[i].line
  <2> SUFFICES ASSUME in.rsp = i
               PROVE  Completed(in).line = None
                      /\ Forwarded(in).line = outstandingLoads[i].line
    OBVIOUS
  <2>1. Forwarded(in).line = outstandingLoads[i].line /\ "line" \in DOMAIN Forwarded(in)
    BY <1>1 DEF Forwarded, OutstandingTracker
  <2>2. Completed(in).line = None
    BY <2>1 DEF Completed
  <2>3. QED BY <2>1, <2>2
<1>6. \A o : [o EXCEPT !.storeInvalidated = TRUE].line = o.line
  OBVIOUS
<1>7. CASE i = externalId /\ Allocates(in)
  BY <1>3, <1>6, <1>7 DEF NextTracker
<1>8. CASE ~(i = externalId /\ Allocates(in)) /\ Merges(in, i)
  BY <1>4, <1>6, <1>8 DEF NextTracker
<1>9. CASE ~(i = externalId /\ Allocates(in)) /\ ~Merges(in, i)
  BY <1>5, <1>6, <1>9 DEF NextTracker
<1>10. QED BY <1>7, <1>8, <1>9

\* A request that is fresh after a cycle was sent in it, or was fresh before and
\* has not been completed.
LEMMA FreshOrigin ==
    ASSUME TypeOK, AssertedIsOwed, NEW in \in Inputs, NEW i \in Id,
           NextTracker(in, i).line # None, ~NextTracker(in, i).storeInvalidated,
           ~(i = externalId /\ Allocates(in))
    PROVE  /\ Fresh(i)
           /\ NextTracker(in, i).line = outstandingLoads[i].line
           /\ ~(RequestDone(in) /\ in.rsp = i)
<1>1. outstandingLoads[i] \in OutstandingTracker
  BY DEF TypeOK, CacheTypeOK
<1>2. /\ ~(RequestDone(in) /\ in.rsp = i)
      /\ NextTracker(in, i).line = outstandingLoads[i].line
      /\ Pending(i)
  BY TrackerLine DEF Pending
<1>3. Merges(in, i) => Merged(in, i).storeInvalidated = outstandingLoads[i].storeInvalidated
  BY <1>1 DEF Merged, OutstandingTracker
<1>4. in.rsp = i => Forwarded(in).storeInvalidated = outstandingLoads[i].storeInvalidated
  BY <1>1 DEF Forwarded, OutstandingTracker
<1>5. \A o \in OutstandingTracker : [o EXCEPT !.storeInvalidated = TRUE].storeInvalidated
  BY DEF OutstandingTracker
<1>6. ~StoreOverwrites(in, i)
  <2> SUFFICES ASSUME StoreOverwrites(in, i) PROVE FALSE
    OBVIOUS
  <2>1. ~Merges(in, i)
    BY DEF StoreOverwrites, StoreInCycle, Merges, LoadInCycle
  <2>2. NextTracker(in, i) =
          [IF in.rsp = i THEN Forwarded(in) ELSE outstandingLoads[i]
             EXCEPT !.storeInvalidated = TRUE]
    BY <1>2, <2>1 DEF NextTracker
  <2>3. in.rsp = i => "storeInvalidated" \in DOMAIN Forwarded(in)
    BY <1>1 DEF Forwarded, OutstandingTracker
  <2>4. "storeInvalidated" \in DOMAIN outstandingLoads[i]
    BY <1>1 DEF OutstandingTracker
  <2>5. QED BY <2>2, <2>3, <2>4
<1>7. ~outstandingLoads[i].storeInvalidated
  BY <1>2, <1>3, <1>4, <1>6 DEF NextTracker
<1>8. QED BY <1>2, <1>7 DEF Fresh

\* What is cached after a cycle was cached before, or has just been filled in.
LEMMA CachedOrigin ==
    ASSUME NEW in, NEW s \in Sets, NEW w \in Way, NextWay(in, s, w).valid
    PROVE  \/ /\ FilledWay(in, s, w)
              /\ NextWay(in, s, w).tag = RspLine(in).tag
              /\ NextWay(in, s, w).value = in.rdata
           \/ /\ ~FilledWay(in, s, w)
              /\ cache[s][w].valid
              /\ NextWay(in, s, w).tag = cache[s][w].tag
              /\ NextWay(in, s, w).value = cache[s][w].value
BY DEF NextWay

----------------------------------------------------------------------------
\* Type correctness is preserved by a cycle.
LEMMA TypeStep ==
    ASSUME CacheInvariant, NEW in \in Inputs, Cycle(in)
    PROVE  TypeOK'
<1> USE CacheAssumption
<1>1. TypeOK /\ AssertedIsOwed /\ OneCopyPerLine
  BY DEF CacheInvariant
<1>2. cache' \in [Sets -> [Way -> CacheEntry]]
  <2>1. ASSUME NEW s \in Sets, NEW w \in Way
        PROVE  NextWay(in, s, w) \in CacheEntry
    <3>1. cache[s][w] \in CacheEntry
      BY <1>1 DEF TypeOK, CacheTypeOK
    <3>2. NextAge(in, s, w) \in Way
      BY <1>1, AgeType
    <3>3. FilledWay(in, s, w) => in.rdata \in Data /\ RspLine(in).tag \in Tags
      BY FillFacts DEF FilledWay, Line
    <3>4. FilledWay(in, s, w) \in BOOLEAN
      BY DEF FilledWay, Fills, RequestDone, RspValid
    <3>5. QED
      BY <3>1, <3>2, <3>3, <3>4 DEF NextWay, CacheEntry
  <2>2. QED
    BY <2>1 DEF Cycle, CacheCycle
<1>3. externalId' \in Id
  BY <1>1 DEF Cycle, CacheCycle, TypeOK, CacheTypeOK
<1>4. cmdBuffer' \in ExternalCmd \cup {None}
  BY <1>1, BusCmdType DEF Cycle, CacheCycle
<1>5. returning' \in Response \cup {None}
  <2>1. ReturnsHit(in) => HitResponse(in) \in Response
    <3> SUFFICES ASSUME ReturnsHit(in) PROVE HitResponse(in) \in Response
      OBVIOUS
    <3> DEFINE line == in.cmd.line
    <3>1. line \in Line /\ in.cmd.id \in InternalId /\ Cached(line)
      BY <1>1, InputTypes
         DEF ReturnsHit, Hit, LoadInCycle, InternalCmd, InternalLoad, Store
    <3>2. HitWay(line) \in Way /\ cache[line.set][HitWay(line)].valid
      BY <1>1, <3>1, HitWayMatches DEF HitWays
    <3>3. line.set \in Sets
      BY <3>1 DEF Line
    <3>4. cache[line.set][HitWay(line)].value \in Data
      BY <1>1, <3>2, <3>3
         DEF TypeOK, CacheTypeOK, CacheEntry, CacheInvariant, ValidWaysHoldData
    <3>5. QED
      BY <3>1, <3>4 DEF HitResponse, Response
  <2>2. QED
    BY <1>1, <2>1 DEF Cycle, CacheCycle, NextReturning, TypeOK, CacheTypeOK
<1>6. outstandingLoads' \in [Id -> OutstandingTracker]
  BY <1>1, TrackerType DEF Cycle, CacheCycle
<1>7. partition' \in SUBSET Line /\ securityMode' \in SecurityModeType
  BY <1>1, CacheSystemAssumption DEF Cycle, CsrCycle, csrVars, TypeOK, CacheTypeOK
<1>8. mem' \in [Line -> Data] /\ memRsp' \in [Id -> Data \cup {None}]
  <2> DEFINE cmd == IF in.cmdReady THEN BusCmd(in) ELSE None
  <2>1. cmd \in ExternalCmd \cup {None}
    BY <1>1, BusCmdType
  <2>2. cmd # None => cmd.line \in Line
    BY <2>1 DEF ExternalCmd, ExternalLoad, Store
  <2>3. cmd # None /\ cmd.write => cmd.data \in Data
    BY <2>1 DEF ExternalCmd, ExternalLoad, Store
  <2>4. mem \in [Line -> Data] /\ memRsp \in [Id -> Data \cup {None}]
    BY <1>1 DEF TypeOK
  <2>5. /\ mem' = IF cmd # None /\ cmd.write
                  THEN [mem EXCEPT ![cmd.line] = cmd.data] ELSE mem
        /\ memRsp' = [i \in Id |->
              IF cmd # None /\ ~cmd.write /\ cmd.id = i THEN mem[cmd.line]
              ELSE IF RequestDone(in) /\ in.rsp = i THEN None
              ELSE memRsp[i]]
    BY DEF Cycle, MemoryCycle
  <2> HIDE DEF cmd
  <2>6. QED
    BY <2>2, <2>3, <2>4, <2>5
<1>9. heldCmd' \in InternalCmd \cup {None} /\ heldRsp' \in Id \cup {None}
  BY <1>1, InputTypes DEF Cycle
<1>10. QED
  BY <1>2, <1>3, <1>4, <1>5, <1>6, <1>7, <1>8, <1>9 DEF TypeOK, CacheTypeOK

\* A cycle puts no second copy of a line into a set.
LEMMA OneCopyStep ==
    ASSUME CacheInvariant, NEW in \in Inputs, Cycle(in)
    PROVE  OneCopyPerLine'
<1> SUFFICES ASSUME NEW s \in Sets, NEW v \in Way, NEW w \in Way,
                    NextWay(in, s, v).valid, NextWay(in, s, w).valid,
                    NextWay(in, s, v).tag = NextWay(in, s, w).tag
             PROVE  v = w
  BY DEF OneCopyPerLine, Cycle, CacheCycle
\* A way that keeps its line cannot hold the line that is filled in.
<1>1. ASSUME NEW a \in Way, NEW b \in Way, FilledWay(in, s, a), ~FilledWay(in, s, b),
             NextWay(in, s, b).valid, NextWay(in, s, a).valid,
             NextWay(in, s, b).tag = NextWay(in, s, a).tag
      PROVE  FALSE
  <2>1. Fills(in) /\ RspLine(in).set = s
    BY <1>1 DEF FilledWay
  <2>2. cache[s][b].valid /\ cache[s][b].tag = RspLine(in).tag
    BY <1>1, CachedOrigin
  <2>3. b \in HitWays(RspLine(in))
    BY <2>1, <2>2 DEF HitWays
  <2>4. QED
    BY <2>1, <2>3, FillFacts DEF Cached
<1>2. CASE FilledWay(in, s, v) /\ FilledWay(in, s, w)
  <2>1. IsOldestWay(s, v) /\ IsOldestWay(s, w)
    BY <1>2 DEF FilledWay
  <2>2. QED
    BY <2>1, CacheAssumption DEF IsOldestWay
<1>3. CASE ~FilledWay(in, s, v) /\ ~FilledWay(in, s, w)
  <2>1. cache[s][v].valid /\ cache[s][w].valid /\ cache[s][v].tag = cache[s][w].tag
    BY <1>3, CachedOrigin
  <2>2. QED
    BY <2>1 DEF CacheInvariant, OneCopyPerLine
<1>4. QED
  BY <1>1, <1>2, <1>3

\* After a cycle the fresh requests are still for different lines, none of them cached.
LEMMA FreshStep ==
    ASSUME CacheInvariant, NEW in \in Inputs, Cycle(in)
    PROVE  FreshRequestsAreNeeded'
<1> DEFINE Next_(i) == NextTracker(in, i)
           NextFresh(i) == Next_(i).line # None /\ ~Next_(i).storeInvalidated
           Sent(i) == i = externalId /\ Allocates(in)
           Need(line) == ~Cached(line) /\ ~AlreadyPending(line)
<1>1. TypeOK /\ AssertedIsOwed /\ FreshRequestsAreNeeded
  BY DEF CacheInvariant
\* A request that goes out is for a line that is needed.
<1>2. ASSUME NEW i \in Id, Sent(i) PROVE Need(Next_(i).line) /\ Next_(i).line \in Line
  <2>1. Next_(i).line = IF Initiates(in) THEN in.cmd.line ELSE in.target
    BY <1>1, <1>2, TrackerLine
  <2>2. CASE Initiates(in)
    <3>1. LoadInCycle(in)
      BY <1>2, <2>2 DEF Allocates, IssuesPrefetch, TakesTarget
    <3>2. in.cmd.line \in Line
      BY <1>1, <3>1, InputTypes DEF LoadInCycle, InternalCmd, InternalLoad, Store
    <3>3. QED
      BY <2>1, <2>2, <3>1, <3>2 DEF Initiates, LoadInCycle, StoreInCycle
  <2>3. CASE ~Initiates(in)
    BY <1>1, <1>2, <2>1, <2>3, InputTypes DEF Allocates, IssuesPrefetch, TakesTarget
  <2>4. QED BY <2>2, <2>3
\* Every other request that is fresh was fresh, for the same line.
<1>3. ASSUME NEW i \in Id, NextFresh(i), ~Sent(i)
      PROVE  Fresh(i) /\ Next_(i).line = outstandingLoads[i].line
             /\ ~(RequestDone(in) /\ in.rsp = i)
  BY <1>1, <1>3, FreshOrigin
<1>4. ASSUME NEW i \in Id, NEW j \in Id, NextFresh(i), NextFresh(j),
             Next_(i).line = Next_(j).line
      PROVE  i = j
  <2>1. CASE Sent(i) /\ ~Sent(j)
    BY <1>2, <1>3, <1>4, <2>1 DEF AlreadyPending
  <2>2. CASE ~Sent(i) /\ Sent(j)
    BY <1>2, <1>3, <1>4, <2>2 DEF AlreadyPending
  <2>3. CASE ~Sent(i) /\ ~Sent(j)
    BY <1>1, <1>3, <1>4, <2>3 DEF FreshRequestsAreNeeded
  <2>4. QED BY <2>1, <2>2, <2>3
<1>5. ASSUME NEW i \in Id, NextFresh(i)
      PROVE  /\ Next_(i).line \in Line
             /\ ~Cached(Next_(i).line)
             /\ ~(Fills(in) /\ RspLine(in) = Next_(i).line)
  <2>1. CASE Sent(i)
    BY <1>2, <2>1, FillFacts DEF AlreadyPending, RspLine
  <2>2. CASE ~Sent(i)
    <3>1. Fresh(i) /\ Next_(i).line = outstandingLoads[i].line
          /\ ~(RequestDone(in) /\ in.rsp = i)
      BY <1>3, <1>5, <2>2
    <3>2. Next_(i).line \in Line
      BY <1>1, <3>1 DEF Fresh, Pending, TypeOK, CacheTypeOK, OutstandingTracker
    <3>3. QED
      BY <1>1, <3>1, <3>2, FillFacts DEF FreshRequestsAreNeeded, RspLine
  <2>3. QED BY <2>1, <2>2
<1>6. ASSUME NEW i \in Id, NextFresh(i), NEW w \in Way,
             NextWay(in, Next_(i).line.set, w).valid,
             NextWay(in, Next_(i).line.set, w).tag = Next_(i).line.tag
      PROVE  FALSE
  <2> DEFINE line == Next_(i).line
  <2>1. line \in Line /\ ~Cached(line) /\ ~(Fills(in) /\ RspLine(in) = line)
    BY <1>5, <1>6
  <2>2. line.set \in Sets
    BY <2>1 DEF Line
  <2>3. CASE FilledWay(in, line.set, w)
    <3>1. Fills(in) /\ RspLine(in).set = line.set /\ RspLine(in).tag = line.tag
      BY <1>6, <2>2, <2>3, CachedOrigin DEF FilledWay
    <3>2. RspLine(in) \in Line
      BY <3>1, FillFacts
    <3>3. RspLine(in) = line
      BY <2>1, <3>1, <3>2 DEF Line
    <3>4. QED BY <2>1, <3>1, <3>3
  <2>4. CASE ~FilledWay(in, line.set, w)
    BY <1>6, <2>1, <2>2, <2>4, CachedOrigin DEF Cached, HitWays
  <2>5. QED BY <2>3, <2>4
<1>7. \A i \in Id : Fresh(i)' <=> NextFresh(i)
  BY DEF Cycle, CacheCycle, Fresh, Pending
<1>8. \A i \in Id : outstandingLoads'[i].line = Next_(i).line
  BY DEF Cycle, CacheCycle
<1>9. \A i \in Id : NextFresh(i) => ~Cached(outstandingLoads[i].line)'
  <2> SUFFICES ASSUME NEW i \in Id, NextFresh(i), NEW w \in Way,
                      cache'[Next_(i).line.set][w].valid,
                      cache'[Next_(i).line.set][w].tag = Next_(i).line.tag
               PROVE  FALSE
    BY <1>8 DEF Cached, HitWays
  <2>1. Next_(i).line.set \in Sets
    BY <1>5 DEF Line
  <2>2. cache'[Next_(i).line.set][w] = NextWay(in, Next_(i).line.set, w)
    BY <2>1 DEF Cycle, CacheCycle
  <2>3. QED BY <1>6, <2>2
<1> HIDE DEF Next_, NextFresh
<1>10. QED
  BY <1>4, <1>7, <1>8, <1>9 DEF FreshRequestsAreNeeded
\* Ids and answers stay matched: a request is pending from the cycle it is sent to
\* the cycle its answer is consumed.
LEMMA OwnershipStep ==
    ASSUME CacheInvariant, NEW in \in Inputs, Cycle(in)
    PROVE  RequestOwnership'
<1> USE CacheAssumption
<1> DEFINE cmd == IF in.cmdReady THEN BusCmd(in) ELSE None
           Sent(i) == i = externalId /\ Allocates(in)
           Done(i) == RequestDone(in) /\ in.rsp = i
           IsLoad(c, i) == c # None /\ ~c.write /\ c.id = i
<1>1. TypeOK /\ AssertedIsOwed /\ RequestOwnership
  BY DEF CacheInvariant
<1>2. BusCmd(in) \in ExternalCmd \cup {None}
  BY <1>1, BusCmdType
<1>3. /\ cmdBuffer' = IF in.cmdReady THEN None ELSE BusCmd(in)
      /\ memRsp' = [i \in Id |-> IF IsLoad(cmd, i) THEN mem[cmd.line]
                                 ELSE IF Done(i) THEN None ELSE memRsp[i]]
      /\ \A i \in Id : outstandingLoads'[i].line = NextTracker(in, i).line
  BY DEF Cycle, CacheCycle, MemoryCycle
\* A load on the bus has just been sent, or was buffered.
<1>4. ASSUME NEW i \in Id, IsLoad(BusCmd(in), i)
      PROVE  (Sent(i) \/ BufferedRequest(i)) /\ ~Done(i)
             /\ NextTracker(in, i).line # None /\ memRsp[i] = None
  <2>1. Done(i) => memRsp[i] # None
    BY <1>1, <1>4, InputTypes DEF RequestDone, RspValid
  <2>2. CASE BufferedRequest(i) /\ ~Allocates(in)
    <3>1. Pending(i) /\ memRsp[i] = None
      BY <1>1, <2>2 DEF RequestOwnership
    <3>2. NextTracker(in, i).line = outstandingLoads[i].line
      BY <1>1, <2>1, <2>2, <3>1, TrackerLine
    <3>3. QED BY <2>1, <2>2, <3>1, <3>2 DEF Pending
  <2>3. CASE Sent(i)
    <3>1. memRsp[i] = None /\ NextTracker(in, i).line \in Line
      BY <1>1, <2>3, SentLine, TrackerLine DEF RequestOwnership
    <3>2. QED BY <2>1, <2>3, <3>1
  <2>4. QED BY <1>1, <1>4, <2>2, <2>3, BusLoad
\* A request that is not sent in this cycle and not completed stays pending.
<1>5. ASSUME NEW i \in Id, Pending(i), ~Done(i)
      PROVE  NextTracker(in, i).line # None
  <2>1. ~Sent(i)
    BY <1>5 DEF Allocates, Initiates, LoadInCycle, StoreInCycle, IssuesPrefetch, TakesTarget
  <2>2. QED BY <1>1, <1>5, <2>1, TrackerLine DEF Pending
<1>6. ASSUME NEW i \in Id PROVE memRsp'[i] # None => Pending(i)'
  <2> SUFFICES ASSUME memRsp'[i] # None PROVE NextTracker(in, i).line # None
    BY <1>3 DEF Pending
  <2>1. CASE IsLoad(cmd, i)
    BY <1>4, <2>1
  <2>2. CASE ~IsLoad(cmd, i)
    <3> HIDE DEF IsLoad, cmd
    <3>1. memRsp[i] # None /\ ~Done(i)
      BY <1>3, <2>2
    <3>2. Pending(i)
      BY <1>1, <3>1 DEF RequestOwnership
    <3>3. QED BY <1>5, <3>1, <3>2
  <2>3. QED BY <2>1, <2>2
<1>7. ASSUME NEW i \in Id, BufferedRequest(i)'
      PROVE  Pending(i)' /\ memRsp'[i] = None
  <2>1. ~in.cmdReady /\ IsLoad(BusCmd(in), i)
    BY <1>3, <1>7 DEF BufferedRequest
  <2>2. cmd = None
    BY <2>1
  <2> HIDE DEF Done, cmd
  <2>3. NextTracker(in, i).line # None /\ memRsp[i] = None
    BY <1>4, <2>1
  <2>4. QED BY <1>3, <2>2, <2>3 DEF Pending
<1>8. QED
  BY <1>6, <1>7 DEF RequestOwnership

\* A response that is not taken stays owed.
LEMMA AssertedStep ==
    ASSUME CacheInvariant, NEW in \in Inputs, Cycle(in)
    PROVE  AssertedIsOwed'
<1> USE CacheAssumption
<1>1. TypeOK /\ AssertedIsOwed
  BY DEF CacheInvariant
<1> SUFFICES ASSUME ~RequestDone(in), in.rsp # None
             PROVE  memRsp'[in.rsp] # None
  BY DEF Cycle, AssertedIsOwed
<1>2. in.rsp \in Id /\ memRsp[in.rsp] \in Data
  BY <1>1, InputTypes
<1> DEFINE cmd == IF in.cmdReady THEN BusCmd(in) ELSE None
<1>3. memRsp'[in.rsp] = IF cmd # None /\ ~cmd.write /\ cmd.id = in.rsp
                        THEN mem[cmd.line] ELSE memRsp[in.rsp]
  BY <1>2 DEF Cycle, MemoryCycle
<1>4. cmd # None => cmd.line \in Line
  BY <1>1, BusCmdType DEF ExternalCmd, ExternalLoad, Store
<1>5. cmd # None => mem[cmd.line] \in Data
  BY <1>1, <1>4 DEF TypeOK
<1> HIDE DEF cmd
<1>6. QED BY <1>2, <1>3, <1>5

\* A valid way keeps its data, or has just been filled with a response's.
LEMMA ValidDataStep ==
    ASSUME CacheInvariant, NEW in \in Inputs, Cycle(in)
    PROVE  ValidWaysHoldData'
<1> SUFFICES ASSUME NEW s \in Sets, NEW w \in Way, NextWay(in, s, w).valid
             PROVE  NextWay(in, s, w).value # None
  BY DEF ValidWaysHoldData, Cycle, CacheCycle
<1>1. CASE FilledWay(in, s, w)
  <2>1. in.rdata \in Data
    BY <1>1, FillFacts DEF FilledWay
  <2>2. NextWay(in, s, w).value = in.rdata
    BY <1>1, CachedOrigin
  <2>3. QED BY <2>1, <2>2, CacheAssumption
<1>2. CASE ~FilledWay(in, s, w)
  <2>1. cache[s][w].valid /\ NextWay(in, s, w).value = cache[s][w].value
    BY <1>2, CachedOrigin
  <2>2. ValidWaysHoldData
    BY DEF CacheInvariant
  <2>3. QED BY <2>1, <2>2 DEF ValidWaysHoldData
<1>3. QED BY <1>1, <1>2

----------------------------------------------------------------------------
\* After reset nothing is cached, pending or owed.
LEMMA InitInvariant == Init => CacheInvariant
<1> SUFFICES ASSUME Init PROVE CacheInvariant
  OBVIOUS
<1> USE CacheAssumption, CacheSystemAssumption
<1>1. cache \in [Sets -> [Way -> CacheEntry]]
  BY DEF Init, CacheInit, CacheEntry
<1>2. outstandingLoads \in [Id -> OutstandingTracker]
  BY DEF Init, CacheInit, OutstandingTracker, NoForwarding, SecurityModeType
<1>3. TypeOK
  <2>1. externalId \in Id /\ cmdBuffer = None /\ returning = None
    BY DEF Init, CacheInit
  <2>2. partition \in SUBSET Line /\ securityMode \in SecurityModeType
    BY DEF Init
  <2>3. mem \in [Line -> Data] /\ memRsp \in [Id -> Data \cup {None}]
    BY DEF Init
  <2>4. heldCmd = None /\ heldRsp = None
    BY DEF Init
  <2>5. QED BY <1>1, <1>2, <2>1, <2>2, <2>3, <2>4 DEF TypeOK, CacheTypeOK
<1>4. \A s \in Sets, w \in Way : ~cache[s][w].valid
  BY DEF Init, CacheInit
<1>5. \A i \in Id : ~Pending(i)
  BY DEF Init, CacheInit, Pending
<1>6. OneCopyPerLine /\ ValidWaysHoldData
  BY <1>4 DEF OneCopyPerLine, ValidWaysHoldData
<1>7. FreshRequestsAreNeeded
  BY <1>5 DEF FreshRequestsAreNeeded, Fresh
<1>8. RequestOwnership /\ AssertedIsOwed
  BY DEF Init, CacheInit, RequestOwnership, AssertedIsOwed, BufferedRequest
<1>9. QED BY <1>3, <1>6, <1>7, <1>8 DEF CacheInvariant

\* A cycle preserves the invariant.
LEMMA CacheStep ==
    ASSUME CacheInvariant, NEW in \in Inputs, Cycle(in)
    PROVE  CacheInvariant'
BY TypeStep, OneCopyStep, FreshStep, OwnershipStep, AssertedStep, ValidDataStep
   DEF CacheInvariant

\* So does a step that changes nothing.
LEMMA CacheStutter ==
    ASSUME CacheInvariant, UNCHANGED vars
    PROVE  CacheInvariant'
BY DEF CacheInvariant, vars, cacheVars, csrVars, TypeOK, CacheTypeOK,
   OneCopyPerLine, FreshRequestsAreNeeded, RequestOwnership, AssertedIsOwed,
   ValidWaysHoldData, Fresh, Pending, Cached, HitWays, BufferedRequest

\* CacheInvariant is an invariant of the cache with its environment.
THEOREM CacheInvariantHolds == Spec => []CacheInvariant
<1>1. CacheInvariant /\ [Next]_vars => CacheInvariant'
  BY CacheStep, CacheStutter DEF Next
<1>2. QED
  BY <1>1, InitInvariant, PTL DEF Spec

\* Every register and wire of the cache keeps its type; in particular the age
\* registers never leave 0 .. ways - 1.
THEOREM TypeCorrect == Spec => []TypeOK
<1>1. CacheInvariant => TypeOK
  BY DEF CacheInvariant
<1>2. QED BY <1>1, CacheInvariantHolds, PTL

\* No line is ever valid in two ways of its set.
THEOREM LinesCachedOnce == Spec => []OneCopyPerLine
<1>1. CacheInvariant => OneCopyPerLine
  BY DEF CacheInvariant
<1>2. QED BY <1>1, CacheInvariantHolds, PTL

\* Requests whose responses may fill the cache are for different lines, and for
\* lines that are not cached.
THEOREM NoRedundantRequests == Spec => []FreshRequestsAreNeeded
<1>1. CacheInvariant => FreshRequestsAreNeeded
  BY DEF CacheInvariant
<1>2. QED BY <1>1, CacheInvariantHolds, PTL

\* A request that is pending is in the buffer or owed an answer, one or the other,
\* if the write bit of a prefetch is low (Cache.scala 460).
LEMMA MatchStep ==
    ASSUME CacheInvariant, RequestsMatchMemory, Garbage = {None},
           NEW in \in Inputs, Cycle(in)
    PROVE  RequestsMatchMemory'
<1> USE CacheAssumption
<1> DEFINE IsLoad(c, i) == c # None /\ ~c.write /\ c.id = i
           Done(i) == RequestDone(in) /\ in.rsp = i
<1>1. TypeOK /\ AssertedIsOwed /\ RequestOwnership'
  BY OwnershipStep DEF CacheInvariant
<1>2. /\ cmdBuffer' = IF in.cmdReady THEN None ELSE BusCmd(in)
      /\ \A i \in Id : outstandingLoads'[i].line = NextTracker(in, i).line
      /\ \A i \in Id : memRsp'[i] =
           IF in.cmdReady /\ IsLoad(BusCmd(in), i) THEN mem[BusCmd(in).line]
           ELSE IF Done(i) THEN None ELSE memRsp[i]
  BY DEF Cycle, CacheCycle, MemoryCycle
\* A load on the bus is answered for, or stays in the buffer.
<1>3. ASSUME NEW i \in Id, IsLoad(BusCmd(in), i)
      PROVE  BufferedRequest(i)' \/ memRsp'[i] # None
  <2>1. BusCmd(in) \in ExternalLoad
    BY <1>1, <1>3, BusCmdType DEF ExternalCmd, Store
  <2>2. mem[BusCmd(in).line] # None
    BY <1>1, <2>1 DEF ExternalLoad, TypeOK
  <2>3. CASE in.cmdReady
    BY <1>2, <1>3, <2>2, <2>3
  <2>4. CASE ~in.cmdReady
    BY <1>2, <1>3, <2>4 DEF BufferedRequest
  <2>5. QED BY <2>3, <2>4
<1>4. ASSUME NEW i \in Id, Pending(i)'
      PROVE  BufferedRequest(i)' \/ memRsp'[i] # None
  <2>1. NextTracker(in, i).line # None
    BY <1>2, <1>4 DEF Pending
  <2>2. CASE i = externalId /\ Allocates(in)
    <3>1. cmdBuffer = None
      BY <1>1, <2>2, SentLine
    <3>2. in.garbage = None
      BY DEF Inputs
    <3>3. CASE Initiates(in)
      <4>1. in.cmd \in InternalLoad /\ ~in.cmd.write
        BY <1>1, <2>2, <3>3, InputTypes
        DEF Allocates, IssuesPrefetch, TakesTarget, LoadInCycle, InternalCmd, Store
      <4>2. BusCmd(in) = [in.cmd EXCEPT !.id = externalId]
        BY <3>1, <3>3, <4>1 DEF BusCmd
      <4>3. IsLoad(BusCmd(in), i)
        <5>1. BusCmd(in) \in ExternalLoad
          BY <1>1, <4>1, <4>2 DEF InternalLoad, ExternalLoad, TypeOK, CacheTypeOK
        <5>2. BusCmd(in) # None
          BY <5>1, CacheSystemAssumption
        <5>3. BusCmd(in).id = i /\ ~BusCmd(in).write
          BY <2>2, <4>1, <4>2 DEF InternalLoad
        <5>4. QED BY <5>2, <5>3
      <4>4. QED BY <1>3, <4>3
    <3>4. CASE ~Initiates(in)
      <4>1. BusCmd(in) = [write |-> FALSE, line |-> in.target, id |-> externalId,
                          data |-> None]
        BY <2>2, <3>1, <3>2, <3>4 DEF BusCmd, Allocates
      <4>2. BusCmd(in) \in ExternalLoad
        BY <1>1, <2>2, <3>4, <4>1, SentLine DEF ExternalLoad, TypeOK, CacheTypeOK
      <4>3. IsLoad(BusCmd(in), i)
        <5>1. BusCmd(in) # None
          BY <4>2, CacheSystemAssumption
        <5>2. BusCmd(in).id = i /\ ~BusCmd(in).write
          BY <2>2, <4>1
        <5>3. QED BY <5>1, <5>2
      <4>4. QED BY <1>3, <4>3
    <3>5. QED BY <3>3, <3>4
  <2>3. CASE ~(i = externalId /\ Allocates(in))
    <3>1. ~Done(i) /\ Pending(i)
      BY <1>1, <2>1, <2>3, TrackerLine DEF Pending
    <3>2. BufferedRequest(i) \/ memRsp[i] # None
      BY <3>1 DEF RequestsMatchMemory
    <3>3. CASE BufferedRequest(i)
      BY <1>3, <3>3 DEF BufferedRequest, BusCmd
    <3>4. CASE memRsp[i] # None /\ ~(in.cmdReady /\ IsLoad(BusCmd(in), i))
      BY <1>2, <3>1, <3>4
    <3>5. CASE in.cmdReady /\ IsLoad(BusCmd(in), i)
      BY <1>3, <3>5
    <3>6. QED BY <3>2, <3>3, <3>4, <3>5
  <2>4. QED BY <2>2, <2>3
<1>5. QED
  BY <1>1, <1>4 DEF RequestOwnership, RequestsMatchMemory

\* The ids in use are exactly those the memory owes an answer to or will be asked
\* under, provided the don't-care write bit of a prefetch is low.
THEOREM IdsMatchMemory == Garbage = {None} => (Spec => []RequestsMatchMemory)
<1> SUFFICES ASSUME Garbage = {None} PROVE Spec => []RequestsMatchMemory
  OBVIOUS
<1> DEFINE Inv == CacheInvariant /\ RequestsMatchMemory
<1>1. Init => Inv
  <2>1. Init => RequestsMatchMemory
    BY CacheAssumption DEF Init, CacheInit, RequestsMatchMemory, BufferedRequest, Pending
  <2>2. QED BY <2>1, InitInvariant
<1>2. Inv /\ [Next]_vars => Inv'
  <2>1. ASSUME Inv, Next PROVE RequestsMatchMemory'
    BY <2>1, MatchStep DEF Next
  <2>2. ASSUME Inv, UNCHANGED vars PROVE RequestsMatchMemory'
    BY <2>2 DEF vars, cacheVars, RequestsMatchMemory, BufferedRequest, Pending
  <2>3. Inv /\ [Next]_vars => CacheInvariant'
    BY CacheStep, CacheStutter DEF Next
  <2>4. QED BY <2>1, <2>2, <2>3
<1>3. Inv => RequestsMatchMemory
  OBVIOUS
<1> HIDE DEF Inv
<1>4. QED BY <1>1, <1>2, <1>3, PTL DEF Spec

(* Loads that wait. *)

\* The load that waits in an entry, or None.
WaitingLoad(i, s) == outstandingLoads[i].forwarding[s]

\* No load waits in two entries, nor in an entry and in the hit buffer; loads wait
\* for pending requests only; the load asserted on the bus is not in flight yet.
OneWaitingPlace ==
    \A i, j \in Id, s, t \in Slot :
        WaitingLoad(i, s) # None /\ WaitingLoad(i, s) = WaitingLoad(j, t)
            => i = j /\ s = t
WaitingIsPending ==
    \A i \in Id, s \in Slot :
        WaitingLoad(i, s) # None =>
            Pending(i) /\ (returning # None => returning.id # WaitingLoad(i, s))
AssertedLoadIsNew ==
    heldCmd # None /\ ~heldCmd.write => heldCmd.id \notin LoadsInFlight

WaitInvariant == OneWaitingPlace /\ WaitingIsPending /\ AssertedLoadIsNew

\* What a cycle does to the waiting loads of a request: one is attached, the first one
\* is answered, or all stay.
LEMMA TrackerForwarding ==
    ASSUME TypeOK, AssertedIsOwed, NEW in \in Inputs, NEW i \in Id
    PROVE  NextTracker(in, i).forwarding =
             IF i = externalId /\ Allocates(in)
             THEN IF Initiates(in) THEN [NoForwarding EXCEPT ![0] = in.cmd.id]
                                   ELSE NoForwarding
             ELSE IF Merges(in, i) THEN ForwardingWith(in, i)
             ELSE IF in.rsp = i /\ SendingRsp(in) /\ in.rspReady
             THEN [s \in Slot |-> IF IsFirstWaiting(i, s) THEN None ELSE WaitingLoad(i, s)]
             ELSE outstandingLoads[i].forwarding
<1>1. /\ outstandingLoads[i] \in OutstandingTracker
      /\ outstandingLoads[externalId] \in OutstandingTracker
  BY DEF TypeOK, CacheTypeOK
<1>2. Allocated(in).forwarding = IF Initiates(in) THEN [NoForwarding EXCEPT ![0] = in.cmd.id]
                                 ELSE NoForwarding
  BY <1>1 DEF Allocated, OutstandingTracker
<1>3. Merged(in, i).forwarding = ForwardingWith(in, i)
  BY <1>1 DEF Merged, OutstandingTracker
<1>4. in.rsp = i =>
        Forwarded(in).forwarding =
          IF SendingRsp(in) /\ in.rspReady
          THEN [s \in Slot |-> IF IsFirstWaiting(i, s) THEN None ELSE WaitingLoad(i, s)]
          ELSE outstandingLoads[i].forwarding
  <2> SUFFICES ASSUME in.rsp = i
               PROVE  Forwarded(in).forwarding =
                        IF SendingRsp(in) /\ in.rspReady
                        THEN [s \in Slot |-> IF IsFirstWaiting(i, s) THEN None
                                             ELSE WaitingLoad(i, s)]
                        ELSE outstandingLoads[i].forwarding
    OBVIOUS
  <2>1. \A o \in OutstandingTracker : \A f : [o EXCEPT !.forwarding = f].forwarding = f
    BY DEF OutstandingTracker
  <2>2. CASE SendingRsp(in) /\ in.rspReady
    BY <1>1, <2>1, <2>2 DEF Forwarded, WaitingLoad
  <2>3. CASE ~(SendingRsp(in) /\ in.rspReady)
    BY <2>3 DEF Forwarded
  <2>4. QED BY <2>2, <2>3
<1>5. Completed(in).forwarding = Forwarded(in).forwarding
  BY DEF Completed
<1>6. \A o : [o EXCEPT !.storeInvalidated = TRUE].forwarding = o.forwarding
  OBVIOUS
<1>7. CASE i = externalId /\ Allocates(in)
  BY <1>2, <1>6, <1>7 DEF NextTracker
<1>8. CASE ~(i = externalId /\ Allocates(in)) /\ Merges(in, i)
  BY <1>3, <1>6, <1>8 DEF NextTracker
<1>9. CASE ~(i = externalId /\ Allocates(in)) /\ ~Merges(in, i)
  <2>1. NextTracker(in, i).forwarding =
          IF in.rsp = i THEN Forwarded(in).forwarding ELSE outstandingLoads[i].forwarding
    BY <1>5, <1>6, <1>9 DEF NextTracker
  <2>2. QED BY <1>4, <1>9, <2>1
<1>10. QED BY <1>7, <1>8, <1>9

\* A load joins at most one request: there is only one that its line could fill from.
LEMMA OneMerge ==
    ASSUME CacheInvariant, NEW in, NEW i \in Id, NEW j \in Id, Merges(in, i)
    PROVE  /\ Merges(in, j) => i = j
           /\ ~Initiates(in) /\ ~Hit(in) /\ Pending(i)
<1>1. Merges(in, j) => i = j
  BY DEF Merges, CacheInvariant, FreshRequestsAreNeeded
<1>2. QED
  BY <1>1 DEF Merges, Initiates, StoreInCycle, LoadInCycle, AlreadyPending, Hit, Fresh

\* Where a load waits after a cycle: it waited there before, and has not been answered,
\* or it was accepted in this cycle.
LEMMA WaitingOrigin ==
    ASSUME CacheInvariant, NEW in \in Inputs, NEW i \in Id, NEW s \in Slot,
           NextTracker(in, i).forwarding[s] # None
    PROVE  \/ /\ NextTracker(in, i).forwarding[s] = WaitingLoad(i, s)
              /\ ~(i = externalId /\ Allocates(in))
           \/ /\ LoadInCycle(in) /\ NextTracker(in, i).forwarding[s] = in.cmd.id
              /\ Initiates(in) /\ i = externalId /\ s = 0
           \/ /\ LoadInCycle(in) /\ NextTracker(in, i).forwarding[s] = in.cmd.id
              /\ Merges(in, i) /\ IsFirstFree(i, s)
<1>1. TypeOK /\ AssertedIsOwed
  BY DEF CacheInvariant
<1>2. CASE i = externalId /\ Allocates(in)
  <2>1. NextTracker(in, i).forwarding =
          IF Initiates(in) THEN [NoForwarding EXCEPT ![0] = in.cmd.id] ELSE NoForwarding
    BY <1>1, <1>2, TrackerForwarding
  <2>2. Initiates(in) /\ s = 0 /\ NextTracker(in, i).forwarding[s] = in.cmd.id
    BY <2>1 DEF NoForwarding
  <2>3. LoadInCycle(in)
    BY <1>2, <2>2 DEF Allocates, IssuesPrefetch, TakesTarget
  <2>4. QED BY <1>2, <2>2, <2>3
<1>3. CASE ~(i = externalId /\ Allocates(in)) /\ Merges(in, i)
  <2>1. NextTracker(in, i).forwarding[s] =
          IF IsFirstFree(i, s) THEN in.cmd.id ELSE WaitingLoad(i, s)
    BY <1>1, <1>3, TrackerForwarding DEF ForwardingWith, WaitingLoad
  <2>2. LoadInCycle(in)
    BY <1>3 DEF Merges
  <2>3. QED BY <1>3, <2>1, <2>2
<1>4. CASE ~(i = externalId /\ Allocates(in)) /\ ~Merges(in, i)
  <2>1. \/ NextTracker(in, i).forwarding = outstandingLoads[i].forwarding
        \/ NextTracker(in, i).forwarding =
             [t \in Slot |-> IF IsFirstWaiting(i, t) THEN None ELSE WaitingLoad(i, t)]
    BY <1>1, <1>4, TrackerForwarding
  <2>2. NextTracker(in, i).forwarding[s] = WaitingLoad(i, s)
    BY <2>1 DEF WaitingLoad
  <2>3. QED BY <1>4, <2>2
<1>5. QED BY <1>2, <1>3, <1>4

\* A load on the bus is not in flight.
LEMMA LoadIsNew ==
    ASSUME WaitInvariant, NEW in \in Inputs, LoadInCycle(in)
    PROVE  in.cmd.id \notin LoadsInFlight
<1>1. in.cmd \in Cmds
  BY DEF Inputs
<1>2. CASE heldCmd # None
  BY <1>1, <1>2 DEF Cmds, WaitInvariant, AssertedLoadIsNew, LoadInCycle
<1>3. CASE heldCmd = None
  BY <1>1, <1>3 DEF Cmds, LoadInCycle, Store
<1>4. QED BY <1>2, <1>3

\* A load in flight waits in an entry or in the hit buffer.
LEMMA InFlight ==
    ASSUME NEW id \in InternalId, id \notin LoadsInFlight
    PROVE  /\ \A i \in Id, s \in Slot : WaitingLoad(i, s) # id
           /\ returning # None => returning.id # id
BY DEF LoadsInFlight, WaitingLoad

\* A request that is completed had its last load answered.
LEMMA DoneClears ==
    ASSUME CacheInvariant, NEW in \in Inputs, NEW i \in Id, RequestDone(in), in.rsp = i
    PROVE  /\ ~(i = externalId /\ Allocates(in)) /\ ~Merges(in, i)
           /\ \A s \in Slot : NextTracker(in, i).forwarding[s] = None
<1>1. TypeOK /\ AssertedIsOwed /\ RequestOwnership
  BY DEF CacheInvariant
<1>2. memRsp[i] # None
  BY <1>1, InputTypes, CacheAssumption DEF RequestDone, RspValid
<1>3. Pending(i)
  BY <1>1, <1>2 DEF RequestOwnership
<1>4. ~(i = externalId /\ Allocates(in))
  BY <1>1, <1>3, SentLine
<1>5. ~Merges(in, i)
  BY DEF Merges, RequestDone, RspLine
<1>6. ASSUME NEW s \in Slot PROVE NextTracker(in, i).forwarding[s] = None
  <2>1. CASE WaitingSlots(i) = {}
    <3>1. ~SendingRsp(in)
      BY <2>1 DEF SendingRsp
    <3>2. NextTracker(in, i).forwarding = outstandingLoads[i].forwarding
      BY <1>1, <1>4, <1>5, <3>1, TrackerForwarding
    <3>3. QED BY <2>1, <3>2 DEF WaitingSlots
  <2>2. CASE WaitingSlots(i) # {}
    <3>1. PICK t \in Slot : in.rspReady /\ WaitingSlots(i) = {t}
      BY <2>2 DEF RequestDone
    <3>2. SendingRsp(in)
      BY <2>2 DEF SendingRsp, RequestDone
    <3>3. NextTracker(in, i).forwarding[s] =
            IF IsFirstWaiting(i, s) THEN None ELSE WaitingLoad(i, s)
      <4>1. NextTracker(in, i).forwarding =
              [u \in Slot |-> IF IsFirstWaiting(i, u) THEN None ELSE WaitingLoad(i, u)]
        BY <1>1, <1>4, <1>5, <3>1, <3>2, TrackerForwarding
      <4>2. QED BY <4>1
    <3>4. s = t => IsFirstWaiting(i, s)
      <4>1. t \in Int /\ t <= t
        BY CacheAssumption
      <4>2. t \in WaitingSlots(i) /\ \A u \in WaitingSlots(i) : u = t
        BY <3>1
      <4>3. QED BY <4>1, <4>2 DEF IsFirstWaiting
    <3>5. s # t => WaitingLoad(i, s) = None
      BY <3>1 DEF WaitingSlots, WaitingLoad
    <3>6. QED BY <3>3, <3>4, <3>5
  <2>3. QED BY <2>1, <2>2
<1>7. QED BY <1>4, <1>5, <1>6

\* The hit buffer keeps its load, or takes one that hits in this cycle.
LEMMA ReturningOrigin ==
    ASSUME NEW in, NextReturning(in) # None
    PROVE  \/ returning # None /\ NextReturning(in) = returning
           \/ Hit(in) /\ Accepts(in) /\ NextReturning(in).id = in.cmd.id
BY DEF NextReturning, ReturnsHit, HitResponse, Accepts

\* A cycle attaches a load to one entry at most, and only one that is not in flight.
LEMMA WaitStep ==
    ASSUME CacheInvariant, WaitInvariant, NEW in \in Inputs, Cycle(in)
    PROVE  WaitInvariant'
<1> USE CacheAssumption
<1>1. TypeOK /\ AssertedIsOwed
  BY DEF CacheInvariant
<1>2. /\ \A i \in Id, s \in Slot : WaitingLoad(i, s)' = NextTracker(in, i).forwarding[s]
      /\ \A i \in Id : outstandingLoads'[i].line = NextTracker(in, i).line
      /\ returning' = NextReturning(in)
      /\ heldCmd' = IF Accepts(in) THEN None ELSE in.cmd
  BY DEF Cycle, CacheCycle, WaitingLoad
<1>3. LoadInCycle(in) =>
        /\ in.cmd.id \in InternalId /\ in.cmd.line \in Line
        /\ \A i \in Id, s \in Slot : WaitingLoad(i, s) # in.cmd.id
        /\ returning # None => returning.id # in.cmd.id
  <2> SUFFICES ASSUME LoadInCycle(in)
               PROVE  /\ in.cmd.id \in InternalId /\ in.cmd.line \in Line
                      /\ \A i \in Id, s \in Slot : WaitingLoad(i, s) # in.cmd.id
                      /\ returning # None => returning.id # in.cmd.id
    OBVIOUS
  <2>1. in.cmd.id \in InternalId /\ in.cmd.line \in Line
    BY <1>1, InputTypes DEF LoadInCycle, InternalCmd, InternalLoad, Store
  <2>2. in.cmd.id \notin LoadsInFlight
    BY LoadIsNew
  <2>3. QED BY <2>1, <2>2, InFlight
<1>4. OneWaitingPlace'
  <2> SUFFICES ASSUME NEW i \in Id, NEW j \in Id, NEW s \in Slot, NEW t \in Slot,
                      NextTracker(in, i).forwarding[s] # None,
                      NextTracker(in, i).forwarding[s] = NextTracker(in, j).forwarding[t]
               PROVE  i = j /\ s = t
    BY <1>2 DEF OneWaitingPlace
  <2> DEFINE Old(k, u) == NextTracker(in, k).forwarding[u] = WaitingLoad(k, u)
             Sent(k, u) == LoadInCycle(in) /\ NextTracker(in, k).forwarding[u] = in.cmd.id
                             /\ Initiates(in) /\ k = externalId /\ u = 0
             Joined(k, u) == LoadInCycle(in) /\ NextTracker(in, k).forwarding[u] = in.cmd.id
                             /\ Merges(in, k) /\ IsFirstFree(k, u)
  <2>1. (Old(i, s) \/ Sent(i, s) \/ Joined(i, s)) /\ (Old(j, t) \/ Sent(j, t) \/ Joined(j, t))
    BY WaitingOrigin
  <2>2. CASE Old(i, s) /\ Old(j, t)
    BY <2>2 DEF WaitInvariant, OneWaitingPlace
  <2>3. Old(i, s) => ~Sent(j, t) /\ ~Joined(j, t)
    BY <1>3
  <2>4. Old(j, t) => ~Sent(i, s) /\ ~Joined(i, s)
    BY <1>3
  <2>5. ~(Sent(i, s) /\ Joined(j, t)) /\ ~(Joined(i, s) /\ Sent(j, t))
    BY OneMerge
  <2>6. CASE Joined(i, s) /\ Joined(j, t)
    <3>1. i = j
      BY <2>6, OneMerge
    <3>2. s \in Int /\ t \in Int
      OBVIOUS
    <3>3. QED BY <2>6, <3>1, <3>2 DEF IsFirstFree
  <2>7. QED BY <2>1, <2>2, <2>3, <2>4, <2>5, <2>6
<1>5. WaitingIsPending'
  <2> SUFFICES ASSUME NEW i \in Id, NEW s \in Slot,
                      NextTracker(in, i).forwarding[s] # None
               PROVE  /\ NextTracker(in, i).line # None
                      /\ NextReturning(in) # None =>
                           NextReturning(in).id # NextTracker(in, i).forwarding[s]
    BY <1>2 DEF WaitingIsPending, Pending
  <2> DEFINE id == NextTracker(in, i).forwarding[s]
  <2>1. ~(RequestDone(in) /\ in.rsp = i)
    BY DoneClears
  <2>2. CASE id = WaitingLoad(i, s) /\ ~(i = externalId /\ Allocates(in))
    <3>1. Pending(i) /\ (returning # None => returning.id # id)
      BY <2>2 DEF WaitInvariant, WaitingIsPending
    <3>2. NextTracker(in, i).line # None
      BY <1>1, <2>1, <2>2, <3>1, TrackerLine DEF Pending
    <3>3. Hit(in) => in.cmd.id # id
      BY <1>3, <2>2 DEF Hit
    <3> HIDE DEF id
    <3>4. NextReturning(in) # None => NextReturning(in).id # id
      BY <3>1, <3>3, ReturningOrigin
    <3>5. QED BY <3>2, <3>4 DEF id
  <2>3. CASE /\ LoadInCycle(in) /\ id = in.cmd.id
             /\ (Initiates(in) /\ i = externalId) \/ Merges(in, i)
    <3>1. ~Hit(in)
      BY <2>3, OneMerge DEF Hit, Initiates, LoadInCycle, StoreInCycle
    <3>2. returning # None => returning.id # id
      BY <1>3, <2>3
    <3>3. NextTracker(in, i).line # None
      <4>1. CASE Initiates(in) /\ i = externalId
        BY <1>1, <1>3, <2>3, <4>1, TrackerLine DEF Allocates
      <4>2. CASE Merges(in, i) /\ ~(i = externalId /\ Allocates(in))
        BY <1>1, <2>1, <4>2, TrackerLine DEF Merges, Fresh, Pending
      <4>3. CASE Merges(in, i) /\ i = externalId /\ Allocates(in)
        BY <1>1, <4>3, SentLine DEF Merges, Fresh
      <4>4. QED BY <2>3, <4>1, <4>2, <4>3
    <3> HIDE DEF id
    <3>4. NextReturning(in) # None => NextReturning(in).id # id
      BY <3>1, <3>2, ReturningOrigin
    <3>5. QED BY <3>3, <3>4 DEF id
  <2>4. QED BY <2>2, <2>3, WaitingOrigin
<1>6. AssertedLoadIsNew'
  <2> SUFFICES ASSUME ~Accepts(in), LoadInCycle(in)
               PROVE  in.cmd.id \notin LoadsInFlight'
    BY <1>2 DEF AssertedLoadIsNew, LoadInCycle
  <2>1. NextReturning(in) # None => NextReturning(in).id # in.cmd.id
    BY <1>3, ReturningOrigin
  <2>2. \A i \in Id, s \in Slot : NextTracker(in, i).forwarding[s] # in.cmd.id
    <3> SUFFICES ASSUME NEW i \in Id, NEW s \in Slot,
                        NextTracker(in, i).forwarding[s] = in.cmd.id
                 PROVE  FALSE
      OBVIOUS
    <3>1. NextTracker(in, i).forwarding[s] # None
      BY <1>3
    <3>2. ~Initiates(in) /\ ~Merges(in, i)
      BY DEF Accepts
    <3>3. QED BY <1>3, <3>1, <3>2, WaitingOrigin
  <2>3. QED BY <1>2, <2>1, <2>2 DEF LoadsInFlight, WaitingLoad
<1>7. QED BY <1>4, <1>5, <1>6 DEF WaitInvariant

LEMMA InitWait == Init => WaitInvariant
BY CacheAssumption
   DEF Init, CacheInit, NoForwarding, WaitInvariant, OneWaitingPlace, WaitingIsPending,
       AssertedLoadIsNew, WaitingLoad

LEMMA WaitStutter ==
    ASSUME WaitInvariant, UNCHANGED vars
    PROVE  WaitInvariant'
BY DEF vars, cacheVars, WaitInvariant, OneWaitingPlace, WaitingIsPending,
       AssertedLoadIsNew, WaitingLoad, LoadsInFlight, Pending

\* The load that waits for two requests at once, or is answered from the hit buffer and
\* from the memory, does not exist.
LEMMA WaitInvariantHolds == Spec => [](CacheInvariant /\ WaitInvariant)
<1> DEFINE Inv == CacheInvariant /\ WaitInvariant
<1>1. Inv /\ [Next]_vars => Inv'
  BY CacheStep, CacheStutter, WaitStep, WaitStutter DEF Next
<1>2. Init => Inv
  BY InitInvariant, InitWait
<1> HIDE DEF Inv
<1>3. Spec => []Inv
  BY <1>1, <1>2, PTL DEF Spec
<1>4. QED BY <1>3 DEF Inv

\* Every accepted load waits in one place at most, and for a request that is pending
\* (Cache.scala 213-224, 283-326, 521-563).
THEOREM LoadsAreAnsweredOnce == Spec => []LoadsWaitOnce
<1>1. CacheInvariant /\ WaitInvariant => LoadsWaitOnce
  <2> SUFFICES ASSUME WaitInvariant, NEW id \in InternalId
               PROVE  /\ Cardinality(Places(id)) <= 1
                      /\ returning # None /\ returning.id = id => Places(id) = {}
                      /\ \A p \in Places(id) : Pending(p[1])
    BY DEF LoadsWaitOnce
  <2> USE CacheAssumption
  <2>1. \A p, q \in Places(id) : p = q
    BY DEF Places, WaitInvariant, OneWaitingPlace, WaitingLoad
  <2>2. Cardinality(Places(id)) <= 1
    <3>1. CASE Places(id) = {}
      BY <3>1, FS_EmptySet
    <3>2. CASE Places(id) # {}
      <4>1. PICK p : Places(id) = {p}
        BY <2>1, <3>2
      <4>2. Cardinality(Places(id)) = 1
        BY <4>1, FS_Singleton
      <4>3. QED BY <4>2
    <3>3. QED BY <3>1, <3>2
  <2>3. returning # None /\ returning.id = id => Places(id) = {}
    BY DEF Places, WaitInvariant, WaitingIsPending, WaitingLoad
  <2>4. \A p \in Places(id) : Pending(p[1])
    BY DEF Places, WaitInvariant, WaitingIsPending, WaitingLoad
  <2>5. QED BY <2>2, <2>3, <2>4
<1>2. QED BY <1>1, WaitInvariantHolds, PTL

\* After a cycle no load waits for a request only if none did before, or if the request
\* has just been sent for the prefetcher.
LEMMA PrefetchOrigin ==
    ASSUME CacheInvariant, NEW in \in Inputs, NEW i \in Id,
           NextTracker(in, i).line # None,
           \A s \in Slot : NextTracker(in, i).forwarding[s] = None
    PROVE  \/ i \in OutstandingPrefetches /\ ~(i = externalId /\ Allocates(in))
           \/ i = externalId /\ IssuesPrefetch(in) /\ ~Initiates(in)
<1> USE CacheAssumption
<1>1. TypeOK /\ AssertedIsOwed
  BY DEF CacheInvariant
<1>2. LoadInCycle(in) => in.cmd.id \in InternalId
  BY <1>1, InputTypes DEF LoadInCycle, InternalCmd, InternalLoad, Store
<1>3. CASE i = externalId /\ Allocates(in)
  <2>1. CASE Initiates(in)
    <3>1. LoadInCycle(in)
      BY <1>3, <2>1 DEF Allocates, IssuesPrefetch, TakesTarget
    <3>2. NextTracker(in, i).forwarding = [NoForwarding EXCEPT ![0] = in.cmd.id]
      BY <1>1, <1>3, <2>1, TrackerForwarding
    <3>3. NextTracker(in, i).forwarding[0] = in.cmd.id /\ 0 \in Slot
      BY <3>2 DEF NoForwarding
    <3>4. QED BY <1>2, <3>1, <3>3
  <2>2. QED BY <1>3, <2>1 DEF Allocates
<1>4. CASE ~(i = externalId /\ Allocates(in)) /\ Merges(in, i)
  <2>1. NextTracker(in, i).forwarding = ForwardingWith(in, i)
    BY <1>1, <1>4, TrackerForwarding
  <2>2. LoadInCycle(in) /\ Pending(i)
    BY <1>4 DEF Merges, Fresh
  <2>3. \A s \in Slot : ~IsFirstFree(i, s)
    BY <1>2, <2>1, <2>2 DEF ForwardingWith
  <2>4. WaitingSlots(i) = {}
    BY <2>1, <2>3 DEF ForwardingWith, WaitingSlots
  <2>5. QED BY <1>4, <2>2, <2>4 DEF OutstandingPrefetches
<1>5. CASE ~(i = externalId /\ Allocates(in)) /\ ~Merges(in, i)
  <2>1. Pending(i) /\ ~(RequestDone(in) /\ in.rsp = i)
    BY <1>1, <1>5, TrackerLine DEF Pending
  <2>2. CASE in.rsp = i /\ SendingRsp(in) /\ in.rspReady
    <3>1. NextTracker(in, i).forwarding =
            [s \in Slot |-> IF IsFirstWaiting(i, s) THEN None ELSE WaitingLoad(i, s)]
      BY <1>1, <1>5, <2>2, TrackerForwarding
    <3>2. PICK t \in WaitingSlots(i) : TRUE
      BY <2>2 DEF SendingRsp
    <3>3. \A s \in WaitingSlots(i) : IsFirstWaiting(i, s)
      BY <3>1 DEF WaitingSlots, WaitingLoad
    <3>4. \A s \in WaitingSlots(i) : s = t
      <4>1. \A s \in WaitingSlots(i) : s \in Int
        BY DEF WaitingSlots
      <4>2. QED BY <3>2, <3>3, <4>1 DEF IsFirstWaiting
    <3>5. WaitingSlots(i) = {t} /\ t \in Slot
      BY <3>2, <3>4 DEF WaitingSlots
    <3>6. QED BY <2>1, <2>2, <3>5 DEF RequestDone, SendingRsp
  <2>3. CASE ~(in.rsp = i /\ SendingRsp(in) /\ in.rspReady)
    <3>1. NextTracker(in, i).forwarding = outstandingLoads[i].forwarding
      BY <1>1, <1>5, <2>3, TrackerForwarding
    <3>2. WaitingSlots(i) = {}
      BY <3>1 DEF WaitingSlots
    <3>3. QED BY <1>5, <2>1, <3>2 DEF OutstandingPrefetches
  <2>4. QED BY <2>2, <2>3
<1>6. QED BY <1>3, <1>4, <1>5

\* A cycle adds at most one request without a load, and only below the limit.
LEMMA PrefetchStep ==
    ASSUME CacheInvariant, PrefetchBound, NEW in \in Inputs, Cycle(in)
    PROVE  PrefetchBound'
<1> USE CacheAssumption
<1> DEFINE new == OutstandingPrefetches'
           old == OutstandingPrefetches
<1>1. \A i \in new : i \in old \/ (i = externalId /\ IssuesPrefetch(in))
  <2> SUFFICES ASSUME NEW i \in new PROVE i \in old \/ (i = externalId /\ IssuesPrefetch(in))
    OBVIOUS
  <2>1. i \in Id /\ outstandingLoads'[i] = NextTracker(in, i)
    BY DEF Cycle, CacheCycle, OutstandingPrefetches
  <2>2. /\ NextTracker(in, i).line # None
        /\ \A s \in Slot : NextTracker(in, i).forwarding[s] = None
    BY <2>1 DEF OutstandingPrefetches, Pending, WaitingSlots
  <2>3. QED BY <2>1, <2>2, PrefetchOrigin
<1>2. IsFiniteSet(old)
  <2>1. IsFiniteSet(Id)
    BY FS_Interval
  <2>2. QED BY <2>1, FS_Subset DEF OutstandingPrefetches
<1>3. Cardinality(old) \in Nat /\ Cardinality(old) <= MaxPrefetches
  BY <1>2, FS_CardinalityType DEF PrefetchBound
<1> HIDE DEF new, old
<1>4. CASE IssuesPrefetch(in)
  <2>1. Cardinality(old) < MaxPrefetches
    BY <1>4 DEF IssuesPrefetch, TakesTarget, old
  <2>2. new \subseteq old \cup {externalId}
    BY <1>1
  <2>3. /\ IsFiniteSet(old \cup {externalId})
        /\ Cardinality(old \cup {externalId}) <= Cardinality(old) + 1
    <3>1. /\ IsFiniteSet(old \cup {externalId})
          /\ Cardinality(old \cup {externalId}) =
               IF externalId \in old THEN Cardinality(old) ELSE Cardinality(old) + 1
      BY <1>2, FS_AddElement
    <3>2. QED BY <1>3, <3>1
  <2>4. Cardinality(old \cup {externalId}) \in Nat /\ Cardinality(new) \in Nat
        /\ Cardinality(new) <= Cardinality(old \cup {externalId})
    BY <2>2, <2>3, FS_Subset, FS_CardinalityType
  <2>5. Cardinality(new) <= MaxPrefetches
    BY <1>3, <2>1, <2>3, <2>4
  <2>6. QED BY <2>5 DEF PrefetchBound, new
<1>5. CASE ~IssuesPrefetch(in)
  <2>1. new \subseteq old
    BY <1>1, <1>5
  <2>2. Cardinality(new) \in Nat /\ Cardinality(new) <= Cardinality(old)
    BY <1>2, <2>1, FS_Subset, FS_CardinalityType
  <2>3. Cardinality(new) <= MaxPrefetches
    BY <1>3, <2>2
  <2>4. QED BY <2>3 DEF PrefetchBound, new
<1>6. QED BY <1>4, <1>5

\* There are never more than maxPrefetches prefetches in flight, although requests lose
\* and find loads that wait for them (Cache.scala 428-437).
THEOREM PrefetchesAreBounded == Spec => []PrefetchBound
<1> DEFINE Inv == CacheInvariant /\ PrefetchBound
<1>1. Init => Inv
  <2>1. Init => OutstandingPrefetches = {}
    BY DEF Init, CacheInit, OutstandingPrefetches, Pending
  <2>2. Init => PrefetchBound
    BY <2>1, FS_EmptySet, CacheAssumption DEF PrefetchBound
  <2>3. QED BY <2>2, InitInvariant
<1>2. Inv /\ [Next]_vars => Inv'
  <2>1. CacheInvariant /\ PrefetchBound /\ UNCHANGED vars => PrefetchBound'
    BY DEF vars, cacheVars, PrefetchBound, OutstandingPrefetches, Pending, WaitingSlots
  <2>2. QED BY <2>1, CacheStep, CacheStutter, PrefetchStep DEF Next
<1>3. Inv => PrefetchBound
  OBVIOUS
<1> HIDE DEF Inv
<1>4. QED BY <1>1, <1>2, <1>3, PTL DEF Spec
=============================================================================
