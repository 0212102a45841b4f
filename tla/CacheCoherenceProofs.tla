------------------------ MODULE CacheCoherenceProofs ------------------------
(***************************************************************************)
(* A valid way always holds the current contents of its line.  The         *)
(* argument: an answer the memory still owes to a request that is not      *)
(* marked overwritten is current, because every store marks the requests   *)
(* for its line in the cycle it is accepted; only such answers fill a way, *)
(* and a store invalidates the way in the same cycle.  From this, and from *)
(* where loads wait, follow the refinement of CoherentMemory and that no   *)
(* load is lost.                                                           *)
(***************************************************************************)
EXTENDS CacheProofs, WellFoundedInduction

\* The write on the bus that the cache accepts or issues in this cycle: a store of
\* the pipeline, or a prefetch whose unassigned write bit came out high.
NewWrite(in, line) ==
    cmdBuffer = None /\ BusCmd(in) # None /\ BusCmd(in).write /\ BusCmd(in).line = line

\* The contents after a cycle are those of the memory before it, but for the write
\* on the bus.
LEMMA ContentsAfter ==
    ASSUME TypeOK, AssertedIsOwed, NEW in \in Inputs, Cycle(in), NEW line \in Line
    PROVE  Contents'[line] =
             IF BusCmd(in) # None /\ BusCmd(in).write /\ BusCmd(in).line = line
             THEN BusCmd(in).data ELSE mem[line]
<1> DEFINE c == BusCmd(in)
<1>1. c \in ExternalCmd \cup {None}
  BY BusCmdType
<1>2. c # None /\ c.write => c.line \in Line /\ c.data \in Data
  BY <1>1 DEF ExternalCmd, ExternalLoad, Store
<1>3. mem \in [Line -> Data]
  BY DEF TypeOK
<1>4. /\ cmdBuffer' = IF in.cmdReady THEN None ELSE c
      /\ mem' = IF in.cmdReady /\ c # None /\ c.write
                THEN [mem EXCEPT ![c.line] = c.data] ELSE mem
  BY DEF Cycle, CacheCycle, MemoryCycle
<1> HIDE DEF c
<1>5. Contents'[line] =
        IF cmdBuffer' # None /\ cmdBuffer'.write /\ cmdBuffer'.line = line
        THEN cmdBuffer'.data ELSE mem'[line]
  BY DEF Contents
<1>6. CASE in.cmdReady
  BY <1>2, <1>3, <1>4, <1>5, <1>6 DEF c
<1>7. CASE ~in.cmdReady
  BY <1>4, <1>5, <1>7 DEF c
<1>8. QED BY <1>6, <1>7

\* A cycle changes the contents of a line only by a new write.
LEMMA ContentsStep ==
    ASSUME TypeOK, AssertedIsOwed, NEW in \in Inputs, Cycle(in), NEW line \in Line,
           ~NewWrite(in, line)
    PROVE  Contents'[line] = Contents[line]
<1>1. CASE cmdBuffer # None
  BY <1>1, ContentsAfter DEF BusCmd, Contents
<1>2. CASE cmdBuffer = None
  BY <1>2, ContentsAfter DEF NewWrite, Contents
<1>3. QED BY <1>1, <1>2

\* A new write is a store of this cycle, or goes to a line that is neither cached
\* nor pending.
LEMMA WriteOrigin ==
    ASSUME NEW in, NEW line, NewWrite(in, line)
    PROVE  \/ StoreInCycle(in) /\ in.cmd.line = line
           \/ ~Cached(line) /\ ~AlreadyPending(line)
<1>1. cmdBuffer = None /\ BusCmd(in) # None /\ BusCmd(in).write /\ BusCmd(in).line = line
  BY DEF NewWrite
<1>2. CASE Initiates(in)
  <2>1. CASE StoreInCycle(in)
    BY <1>1, <1>2, <2>1 DEF BusCmd, StoreInCycle
  <2>2. CASE ~StoreInCycle(in)
    BY <1>1, <1>2, <2>2 DEF BusCmd, Initiates, LoadInCycle, StoreInCycle
  <2>3. QED BY <2>1, <2>2
<1>3. CASE ~Initiates(in)
  <2>1. IssuesPrefetch(in) /\ in.target = line
    BY <1>1, <1>3 DEF BusCmd
  <2>2. QED BY <2>1 DEF IssuesPrefetch
<1>4. QED BY <1>2, <1>3

\* The line of a request that stays fresh is not written.
LEMMA FreshIsNotWritten ==
    ASSUME CacheInvariant, NEW in \in Inputs, Cycle(in), NEW i \in Id,
           Fresh(i)', ~(i = externalId /\ Allocates(in))
    PROVE  /\ Fresh(i)
           /\ outstandingLoads'[i].line = outstandingLoads[i].line
           /\ outstandingLoads[i].line \in Line
           /\ ~NewWrite(in, outstandingLoads[i].line)
<1>1. TypeOK /\ AssertedIsOwed
  BY DEF CacheInvariant
<1>2. outstandingLoads'[i] = NextTracker(in, i)
  BY DEF Cycle, CacheCycle
<1>3. NextTracker(in, i).line # None /\ ~NextTracker(in, i).storeInvalidated
  BY <1>2 DEF Fresh, Pending
<1>4. Fresh(i) /\ NextTracker(in, i).line = outstandingLoads[i].line
      /\ ~(RequestDone(in) /\ in.rsp = i)
  BY <1>1, <1>3, FreshOrigin
<1>5. outstandingLoads[i] \in OutstandingTracker
  BY <1>1 DEF TypeOK, CacheTypeOK
<1>6. outstandingLoads[i].line \in Line
  BY <1>4, <1>5 DEF Fresh, Pending, OutstandingTracker
<1>7. ~StoreOverwrites(in, i)
  <2> SUFFICES ASSUME StoreOverwrites(in, i) PROVE FALSE
    OBVIOUS
  <2>1. ~Merges(in, i)
    BY DEF StoreOverwrites, StoreInCycle, Merges, LoadInCycle
  <2>2. NextTracker(in, i) =
          [IF in.rsp = i THEN Forwarded(in) ELSE outstandingLoads[i]
             EXCEPT !.storeInvalidated = TRUE]
    BY <1>4, <2>1 DEF NextTracker
  <2>3. in.rsp = i => "storeInvalidated" \in DOMAIN Forwarded(in)
    BY <1>5 DEF Forwarded, OutstandingTracker
  <2>4. "storeInvalidated" \in DOMAIN outstandingLoads[i]
    BY <1>5 DEF OutstandingTracker
  <2>5. QED BY <1>3, <2>2, <2>3, <2>4
<1>8. ~NewWrite(in, outstandingLoads[i].line)
  <2>1. AlreadyPending(outstandingLoads[i].line)
    BY <1>4 DEF AlreadyPending
  <2>2. Pending(i)
    BY <1>4 DEF Fresh
  <2>3. QED
    BY <1>7, <2>1, <2>2, WriteOrigin DEF StoreOverwrites
<1>9. QED BY <1>2, <1>4, <1>6, <1>8

\* A request that goes out reads the memory as it is, and keeps its line.
LEMMA BufferedStep ==
    ASSUME CacheInvariant, BufferedKeepsLine, NEW in \in Inputs, Cycle(in), NEW i \in Id,
           BusCmd(in) # None, ~BusCmd(in).write, BusCmd(in).id = i
    PROVE  BusCmd(in).line = outstandingLoads'[i].line
<1>1. TypeOK /\ AssertedIsOwed /\ RequestOwnership
  BY DEF CacheInvariant
<1>2. outstandingLoads'[i].line = NextTracker(in, i).line
  BY DEF Cycle, CacheCycle
<1>3. CASE BufferedRequest(i) /\ BusCmd(in) = cmdBuffer /\ ~Allocates(in)
  <2>1. memRsp[i] = None /\ cmdBuffer.line = outstandingLoads[i].line
    BY <1>1, <1>3 DEF RequestOwnership, BufferedKeepsLine
  <2>2. ~(RequestDone(in) /\ in.rsp = i)
    BY <1>1, <2>1, InputTypes, CacheAssumption DEF RequestDone, RspValid
  <2>3. QED BY <1>1, <1>2, <1>3, <2>1, <2>2, TrackerLine
<1>4. CASE /\ i = externalId /\ Allocates(in)
           /\ BusCmd(in).line = IF Initiates(in) THEN in.cmd.line ELSE in.target
  BY <1>1, <1>2, <1>4, TrackerLine
<1>5. QED BY <1>1, <1>3, <1>4, BusLoad

\* Requests keep their lines on the way to the memory.
LEMMA BufferedLineStep ==
    ASSUME CoherenceInvariant, NEW in \in Inputs, Cycle(in)
    PROVE  BufferedKeepsLine'
<1>1. CacheInvariant /\ BufferedKeepsLine
  BY DEF CoherenceInvariant
<1>2. cmdBuffer' = IF in.cmdReady THEN None ELSE BusCmd(in)
  BY DEF Cycle, CacheCycle
<1>3. QED
  BY <1>1, <1>2, BufferedStep DEF BufferedKeepsLine, BufferedRequest

\* The answers owed to requests not marked overwritten stay current.
LEMMA AnswersStep ==
    ASSUME CoherenceInvariant, NEW in \in Inputs, Cycle(in)
    PROVE  AnswersAreCurrent'
<1> USE CacheAssumption
<1>1. /\ CacheInvariant /\ BufferedKeepsLine /\ AnswersAreCurrent
      /\ TypeOK /\ AssertedIsOwed /\ RequestOwnership
  BY DEF CoherenceInvariant, CacheInvariant
<1> DEFINE c == BusCmd(in)
           Reads(i) == in.cmdReady /\ c # None /\ ~c.write /\ c.id = i
<1> SUFFICES ASSUME NEW i \in Id, Fresh(i)', memRsp'[i] # None
             PROVE  memRsp'[i] = Contents'[outstandingLoads'[i].line]
  BY DEF AnswersAreCurrent
<1>2. memRsp'[i] = IF Reads(i) THEN mem[c.line]
                   ELSE IF RequestDone(in) /\ in.rsp = i THEN None ELSE memRsp[i]
  BY DEF Cycle, MemoryCycle
<1>3. CASE Reads(i)
  <2>1. c.line = outstandingLoads'[i].line
    BY <1>1, <1>3, BufferedStep
  <2>2. c.line \in Line
    BY <1>1, <1>3, BusCmdType DEF ExternalCmd, ExternalLoad, Store
  <2>3. cmdBuffer' = None /\ mem' = mem
    BY <1>3 DEF Cycle, CacheCycle, MemoryCycle
  <2>4. Contents'[c.line] = mem[c.line]
    BY <2>2, <2>3 DEF Contents
  <2> HIDE DEF c
  <2>5. QED BY <1>2, <1>3, <2>1, <2>4
<1>4. CASE ~Reads(i)
  <2>1. memRsp'[i] = memRsp[i] /\ memRsp[i] # None /\ ~(RequestDone(in) /\ in.rsp = i)
    <3> HIDE DEF Reads
    <3>1. QED BY <1>2, <1>4
  <2>2. Pending(i)
    BY <1>1, <2>1 DEF RequestOwnership
  <2>3. ~(i = externalId /\ Allocates(in))
    BY <2>2 DEF Allocates, Initiates, LoadInCycle, StoreInCycle, IssuesPrefetch, TakesTarget
  <2>4. /\ Fresh(i) /\ outstandingLoads'[i].line = outstandingLoads[i].line
        /\ outstandingLoads[i].line \in Line
        /\ ~NewWrite(in, outstandingLoads[i].line)
    BY <1>1, <2>3, FreshIsNotWritten
  <2>5. Contents'[outstandingLoads[i].line] = Contents[outstandingLoads[i].line]
    BY <1>1, <2>4, ContentsStep
  <2>6. memRsp[i] = Contents[outstandingLoads[i].line]
    BY <1>1, <2>1, <2>4 DEF AnswersAreCurrent
  <2>7. QED BY <2>1, <2>4, <2>5, <2>6
<1>5. QED BY <1>3, <1>4

\* Valid ways stay current.
LEMMA CachedStep ==
    ASSUME CoherenceInvariant, NEW in \in Inputs, Cycle(in)
    PROVE  CachedIsCurrent'
<1> USE CacheAssumption
<1>1. /\ CacheInvariant /\ AnswersAreCurrent /\ CachedIsCurrent
      /\ TypeOK /\ AssertedIsOwed
  BY DEF CoherenceInvariant, CacheInvariant
<1> SUFFICES ASSUME NEW s \in Sets, NEW w \in Way, cache'[s][w].valid
             PROVE  cache'[s][w].value = Contents'[[tag |-> cache'[s][w].tag, set |-> s]]
  BY DEF CachedIsCurrent
<1>2. cache'[s][w] = NextWay(in, s, w)
  BY DEF Cycle, CacheCycle
<1>3. CASE FilledWay(in, s, w)
  <2> DEFINE line == RspLine(in)
  <2>1. Fills(in) /\ line.set = s
    BY <1>3 DEF FilledWay
  <2>2. /\ in.rsp \in Id /\ Fresh(in.rsp) /\ line \in Line /\ ~Cached(line)
    BY <1>1, <2>1, FillFacts
  <2>3. in.rdata = memRsp[in.rsp] /\ memRsp[in.rsp] # None
    BY <1>1, <2>2, InputTypes
  <2>4. in.rdata = Contents[line]
    BY <1>1, <2>2, <2>3 DEF AnswersAreCurrent, RspLine
  <2>5. ~NewWrite(in, line)
    <3>1. AlreadyPending(line)
      BY <2>2 DEF AlreadyPending, RspLine
    <3>2. ~(StoreInCycle(in) /\ in.cmd.line = line)
      BY <2>1 DEF Fills
    <3>3. QED BY <3>1, <3>2, WriteOrigin
  <2>6. Contents'[line] = Contents[line]
    BY <1>1, <2>2, <2>5, ContentsStep
  <2>7. cache'[s][w].tag = line.tag /\ cache'[s][w].value = in.rdata
    <3>1. NextWay(in, s, w).valid
      BY <1>2
    <3>2. NextWay(in, s, w).tag = RspLine(in).tag /\ NextWay(in, s, w).value = in.rdata
      BY <1>3, <3>1, CachedOrigin
    <3>3. QED BY <1>2, <3>2
  <2>8. line = [tag |-> line.tag, set |-> s]
    BY <2>1, <2>2 DEF Line
  <2> HIDE DEF line
  <2>9. QED BY <2>4, <2>6, <2>7, <2>8
<1>4. CASE ~FilledWay(in, s, w)
  <2> DEFINE line == [tag |-> cache[s][w].tag, set |-> s]
  <2>1. /\ cache[s][w].valid
        /\ cache'[s][w].tag = cache[s][w].tag
        /\ cache'[s][w].value = cache[s][w].value
    <3>1. NextWay(in, s, w).valid
      BY <1>2
    <3>2. /\ cache[s][w].valid
          /\ NextWay(in, s, w).tag = cache[s][w].tag
          /\ NextWay(in, s, w).value = cache[s][w].value
      BY <1>4, <3>1, CachedOrigin
    <3>3. QED BY <1>2, <3>2
  <2>2. cache[s][w] \in CacheEntry
    BY <1>1 DEF TypeOK, CacheTypeOK
  <2>3. line \in Line
    BY <2>2 DEF CacheEntry, Line
  <2>4. ~NewWrite(in, line)
    <3>1. Cached(line)
      BY <2>1 DEF Cached, HitWays
    <3>2. w \notin StoreWays(in, s)
      <4>1. NextWay(in, s, w).valid
        BY <1>2
      <4>2. QED BY <4>1 DEF NextWay
    <3>3. ~(StoreInCycle(in) /\ in.cmd.line = line)
      BY <3>2 DEF StoreWays
    <3>4. QED BY <3>1, <3>3, WriteOrigin
  <2>5. Contents'[line] = Contents[line]
    BY <1>1, <2>3, <2>4, ContentsStep
  <2>6. cache[s][w].value = Contents[line]
    BY <1>1, <2>1 DEF CachedIsCurrent
  <2>7. QED BY <2>1, <2>5, <2>6
<1>5. QED BY <1>3, <1>4

\* After reset nothing is cached or in flight.
LEMMA InitCoherence == Init => CoherenceInvariant
<1> SUFFICES ASSUME Init PROVE CoherenceInvariant
  OBVIOUS
<1>1. CacheInvariant
  BY InitInvariant
<1>2. \A i \in Id : ~Pending(i) /\ ~BufferedRequest(i)
  BY DEF Init, CacheInit, Pending, BufferedRequest
<1>3. \A s \in Sets, w \in Way : ~cache[s][w].valid
  BY DEF Init, CacheInit
<1>4. BufferedKeepsLine /\ AnswersAreCurrent
  BY <1>2 DEF BufferedKeepsLine, AnswersAreCurrent, Fresh
<1>5. CachedIsCurrent
  BY <1>3 DEF CachedIsCurrent
<1>6. QED BY <1>1, <1>4, <1>5 DEF CoherenceInvariant

\* A cycle preserves the invariant.
LEMMA CoherenceStep ==
    ASSUME CoherenceInvariant, NEW in \in Inputs, Cycle(in)
    PROVE  CoherenceInvariant'
<1>1. CacheInvariant
  BY DEF CoherenceInvariant
<1>2. CacheInvariant'
  BY <1>1, CacheStep
<1>3. BufferedKeepsLine' /\ AnswersAreCurrent' /\ CachedIsCurrent'
  BY BufferedLineStep, AnswersStep, CachedStep
<1>4. QED BY <1>2, <1>3 DEF CoherenceInvariant

\* So does a step that changes nothing.
LEMMA CoherenceStutter ==
    ASSUME CoherenceInvariant, UNCHANGED vars
    PROVE  CoherenceInvariant'
<1>1. CacheInvariant'
  BY CacheStutter DEF CoherenceInvariant
<1>2. BufferedKeepsLine' /\ AnswersAreCurrent' /\ CachedIsCurrent'
  BY DEF CoherenceInvariant, vars, cacheVars, csrVars, BufferedKeepsLine,
     AnswersAreCurrent, CachedIsCurrent, BufferedRequest, Fresh, Pending, Contents
<1>3. QED BY <1>1, <1>2 DEF CoherenceInvariant

\* A valid way holds the contents of its line, all stores acknowledged so far
\* included: for every geometry, number of ids, prefetcher and timing.
THEOREM CacheIsCoherent == Spec => []CachedIsCurrent
<1>1. CoherenceInvariant /\ [Next]_vars => CoherenceInvariant'
  BY CoherenceStep, CoherenceStutter DEF Next
<1>2. CoherenceInvariant => CachedIsCurrent
  BY DEF CoherenceInvariant
<1>3. QED
  BY <1>1, <1>2, InitCoherence, PTL DEF Spec

-----------------------------------------------------------------------------
(* The refinement of CoherentMemory. *)

USE DEF Way, Id, InternalId, Slot

RefinementInvariant == CoherenceInvariant /\ WaitInvariant /\ RequestsMatchMemory

\* The answer a pending request will bring: the one the memory owes it, or the contents
\* of its line while it waits for the memory to accept it.
Answer(i) == IF memRsp[i] # None THEN memRsp[i] ELSE mem[outstandingLoads[i].line]

\* The value of a load that waits for a request is the answer of that request; a load
\* that waits nowhere has no value.
LoadsAreBound ==
    /\ \A i \in Id, s \in Slot, id \in InternalId :
         WaitingLoad(i, s) = id => BoundValue(id) = Answer(i)
    /\ \A id \in InternalId :
         /\ \A i \in Id, s \in Slot : WaitingLoad(i, s) # id
         /\ returning # None => returning.id # id
         => BoundValue(id) = None

LEMMA WhereLoadsAreBound == WaitInvariant => LoadsAreBound
<1> USE CacheAssumption
<1>1. ASSUME WaitInvariant, NEW i \in Id, NEW s \in Slot, NEW id \in InternalId,
             WaitingLoad(i, s) = id
      PROVE  BoundValue(id) = Answer(i)
  <2>1. ~(returning # None /\ returning.id = id)
    BY <1>1 DEF WaitInvariant, WaitingIsPending
  <2>2. <<i, s>> \in Places(id)
    BY <1>1 DEF Places, WaitingLoad
  <2>3. \A p \in Places(id) : p[1] = i
    BY <1>1 DEF Places, WaitInvariant, OneWaitingPlace, WaitingLoad
  <2>4. (CHOOSE p \in Places(id) : TRUE)[1] = i
    BY <2>2, <2>3
  <2>5. QED BY <2>1, <2>2, <2>4 DEF BoundValue, Answer
<1>2. ASSUME NEW id \in InternalId, \A i \in Id, s \in Slot : WaitingLoad(i, s) # id,
             returning # None => returning.id # id
      PROVE  BoundValue(id) = None
  BY <1>2 DEF BoundValue, Places, WaitingLoad
<1>3. QED BY <1>1, <1>2 DEF LoadsAreBound

LEMMA WhereLoadsAreBoundNext == WaitInvariant' => LoadsAreBound'
BY WhereLoadsAreBound, PTL

\* A request whose answer is still owed keeps it, from the moment it is pending.
LEMMA AnswerStep ==
    ASSUME RefinementInvariant, NEW in \in Inputs, Cycle(in), NEW i \in Id, Pending(i),
           ~(RequestDone(in) /\ in.rsp = i)
    PROVE  Answer(i)' = Answer(i)
<1> USE CacheAssumption
<1>1. /\ TypeOK /\ AssertedIsOwed /\ RequestOwnership /\ BufferedKeepsLine
      /\ RequestsMatchMemory
  BY DEF RefinementInvariant, CoherenceInvariant, CacheInvariant
<1>2. outstandingLoads'[i].line = outstandingLoads[i].line
  <2>1. outstandingLoads'[i] = NextTracker(in, i)
    BY DEF Cycle, CacheCycle
  <2>2. ~(i = externalId /\ Allocates(in))
    BY <1>1, SentLine
  <2>3. QED BY <1>1, <2>1, <2>2, TrackerLine
<1>3. outstandingLoads[i].line \in Line
  BY <1>1 DEF Pending, TypeOK, CacheTypeOK, OutstandingTracker
<1>4. memRsp'[i] = IF in.cmdReady /\ BusCmd(in) # None /\ ~BusCmd(in).write
                        /\ BusCmd(in).id = i
                   THEN mem[BusCmd(in).line] ELSE memRsp[i]
  BY DEF Cycle, MemoryCycle
<1>5. CASE memRsp[i] # None
  <2>1. ~(BusCmd(in) # None /\ ~BusCmd(in).write /\ BusCmd(in).id = i)
    <3> SUFFICES ASSUME BusCmd(in) # None, ~BusCmd(in).write, BusCmd(in).id = i
                 PROVE  FALSE
      OBVIOUS
    <3>1. BufferedRequest(i) \/ (i = externalId /\ Allocates(in))
      BY <1>1, BusLoad
    <3>2. QED BY <1>1, <1>5, <3>1, SentLine DEF RequestOwnership
  <2>2. QED BY <1>4, <1>5, <2>1 DEF Answer
<1>6. CASE memRsp[i] = None
  <2>1. BufferedRequest(i)
    BY <1>1, <1>6 DEF RequestsMatchMemory
  <2>2. BusCmd(in) = cmdBuffer /\ cmdBuffer # None /\ ~cmdBuffer.write
        /\ cmdBuffer.id = i /\ cmdBuffer.line = outstandingLoads[i].line
    BY <1>1, <2>1 DEF BufferedRequest, BusCmd, BufferedKeepsLine
  <2>3. mem' = mem
    BY <2>2 DEF Cycle, MemoryCycle
  <2>4. mem[outstandingLoads[i].line] # None
    BY <1>1, <1>3 DEF TypeOK
  <2>5. QED BY <1>2, <1>4, <1>6, <2>2, <2>3, <2>4 DEF Answer
<1>7. QED BY <1>5, <1>6

\* The answer of a request that is not marked overwritten is current.
LEMMA FreshAnswerIsCurrent ==
    ASSUME RefinementInvariant, NEW i \in Id, Fresh(i)
    PROVE  Answer(i) = Contents[outstandingLoads[i].line]
<1> USE CacheAssumption
<1>1. TypeOK /\ AnswersAreCurrent /\ RequestsMatchMemory
  BY DEF RefinementInvariant, CoherenceInvariant, CacheInvariant
<1>2. CASE memRsp[i] # None
  BY <1>1, <1>2 DEF Answer, AnswersAreCurrent
<1>3. CASE memRsp[i] = None
  <2>1. BufferedRequest(i)
    BY <1>1, <1>3 DEF RequestsMatchMemory, Fresh
  <2>2. outstandingLoads[i].line \in Line
    BY <1>1 DEF Fresh, Pending, TypeOK, CacheTypeOK, OutstandingTracker
  <2>3. QED BY <1>3, <2>1, <2>2 DEF Answer, Contents, BufferedRequest
<1>4. QED BY <1>2, <1>3

\* The value of a load that is in flight, or was accepted in this cycle.
LEMMA BoundStep ==
    ASSUME RefinementInvariant, NEW in \in Inputs, Cycle(in), WaitInvariant',
           NEW id \in InternalId
    PROVE  \/ BoundValue(id)' \in {BoundValue(id), None}
           \/ /\ LoadInCycle(in) /\ Accepts(in) /\ in.cmd.id = id
              /\ BoundValue(id) = None
              /\ BoundValue(id)' = Contents[in.cmd.line]
<1> USE CacheAssumption
<1>1. /\ TypeOK /\ AssertedIsOwed /\ CacheInvariant /\ WaitInvariant /\ CachedIsCurrent
      /\ OneCopyPerLine
  BY DEF RefinementInvariant, CoherenceInvariant, CacheInvariant
<1>2. /\ \A i \in Id, s \in Slot : WaitingLoad(i, s)' = NextTracker(in, i).forwarding[s]
      /\ \A i \in Id : outstandingLoads'[i].line = NextTracker(in, i).line
      /\ returning' = NextReturning(in)
  BY DEF Cycle, CacheCycle, WaitingLoad
<1>3. LoadInCycle(in) => in.cmd.line \in Line
  BY <1>1, InputTypes DEF LoadInCycle, InternalCmd, InternalLoad, Store
<1>4. LoadInCycle(in) /\ in.cmd.id = id => BoundValue(id) = None
  <2> SUFFICES ASSUME LoadInCycle(in), in.cmd.id = id PROVE BoundValue(id) = None
    OBVIOUS
  <2>1. id \notin LoadsInFlight
    BY <1>1, LoadIsNew
  <2>2. QED BY <1>1, <2>1, InFlight, WhereLoadsAreBound DEF LoadsAreBound
\* The load is in the hit buffer.
<1>5. CASE NextReturning(in) # None /\ NextReturning(in).id = id
  <2>1. BoundValue(id)' = NextReturning(in).data
    BY <1>2, <1>5 DEF BoundValue
  <2>2. CASE returning # None /\ NextReturning(in) = returning
    BY <1>5, <2>1, <2>2 DEF BoundValue
  <2>3. CASE ReturnsHit(in) /\ NextReturning(in) = HitResponse(in)
    <3>1. LoadInCycle(in) /\ Accepts(in) /\ in.cmd.id = id /\ Cached(in.cmd.line)
      BY <1>5, <2>3 DEF ReturnsHit, Hit, Accepts, HitResponse
    <3>2. HitWay(in.cmd.line) \in HitWays(in.cmd.line)
      BY <1>1, <1>3, <3>1, HitWayMatches
    <3> DEFINE w == HitWay(in.cmd.line)
               line == in.cmd.line
    <3>3. w \in Way /\ cache[line.set][w].valid /\ cache[line.set][w].tag = line.tag
      BY <3>2 DEF HitWays
    <3>4. line = [tag |-> line.tag, set |-> line.set] /\ line.set \in Sets
      BY <1>3, <3>1 DEF Line
    <3>5. NextReturning(in).data = cache[line.set][w].value
      BY <2>3 DEF HitResponse
    <3> HIDE DEF w
    <3>6. cache[line.set][w].value = Contents[[tag |-> cache[line.set][w].tag, set |-> line.set]]
      BY <1>1, <3>3, <3>4 DEF CachedIsCurrent
    <3>7. cache[line.set][w].value = Contents[line]
      BY <3>3, <3>4, <3>6
    <3>8. QED BY <1>4, <2>1, <3>1, <3>5, <3>7
  <2>4. QED BY <1>5, <2>2, <2>3 DEF NextReturning
\* The load waits for a request.
<1>6. ASSUME NEW i \in Id, NEW s \in Slot, NextTracker(in, i).forwarding[s] = id
      PROVE  \/ BoundValue(id)' \in {BoundValue(id), None}
             \/ /\ LoadInCycle(in) /\ Accepts(in) /\ in.cmd.id = id
                /\ BoundValue(id)' = Contents[in.cmd.line]
  <2>1. BoundValue(id)' = Answer(i)'
    BY <1>2, <1>6, WhereLoadsAreBoundNext DEF LoadsAreBound
  <2>2. id # None
    OBVIOUS
  <2>3. ~(RequestDone(in) /\ in.rsp = i)
    BY <1>1, <1>6, <2>2, DoneClears
  <2>4. CASE id = WaitingLoad(i, s) /\ ~(i = externalId /\ Allocates(in))
    <3>1. Pending(i)
      BY <1>1, <2>2, <2>4 DEF WaitInvariant, WaitingIsPending
    <3>2. Answer(i)' = Answer(i)
      BY <2>3, <3>1, AnswerStep
    <3>3. BoundValue(id) = Answer(i)
      BY <1>1, <2>4, WhereLoadsAreBound DEF LoadsAreBound
    <3>4. QED BY <2>1, <3>2, <3>3
  <2>5. CASE LoadInCycle(in) /\ id = in.cmd.id /\ Merges(in, i)
    <3>1. Fresh(i) /\ Pending(i) /\ outstandingLoads[i].line = in.cmd.line
      BY <2>5 DEF Merges, Fresh
    <3>2. Answer(i)' = Answer(i)
      BY <2>3, <3>1, AnswerStep
    <3>3. Answer(i) = Contents[in.cmd.line]
      BY <3>1, FreshAnswerIsCurrent
    <3>4. Accepts(in)
      BY <2>5 DEF Accepts
    <3>5. QED BY <2>1, <2>5, <3>2, <3>3, <3>4
  <2>6. CASE LoadInCycle(in) /\ id = in.cmd.id /\ Initiates(in) /\ i = externalId
    <3>1. Allocates(in) /\ Accepts(in)
      BY <2>6 DEF Allocates, Accepts
    <3>2. NextTracker(in, i).line = in.cmd.line
      BY <1>1, <2>6, <3>1, TrackerLine
    <3>3. cmdBuffer = None /\ ~Pending(i)
      BY <1>1, <2>6, <3>1, SentLine
    <3>4. memRsp[i] = None
      BY <1>1, <3>3 DEF CacheInvariant, RequestOwnership
    <3>5. BusCmd(in) # None /\ ~BusCmd(in).write /\ BusCmd(in).id = i
          /\ BusCmd(in).line = in.cmd.line
      <4>1. BusCmd(in) = [in.cmd EXCEPT !.id = externalId]
        BY <2>6, <3>3 DEF BusCmd, LoadInCycle
      <4>2. in.cmd \in InternalLoad
        BY <1>1, <2>6, InputTypes DEF LoadInCycle, InternalCmd, Store
      <4>3. BusCmd(in) \in ExternalLoad /\ BusCmd(in).line = in.cmd.line
        BY <1>1, <2>6, <4>1, <4>2 DEF InternalLoad, ExternalLoad, TypeOK, CacheTypeOK
      <4>4. BusCmd(in).id = i
        BY <2>6, <4>1, <4>2 DEF InternalLoad
      <4>5. QED BY <4>3, <4>4, CacheSystemAssumption DEF ExternalLoad
    <3>6. mem' = mem
      BY <3>5 DEF Cycle, MemoryCycle
    <3>7. memRsp'[i] \in {mem[in.cmd.line], None}
      BY <3>4, <3>5 DEF Cycle, MemoryCycle
    <3>8. mem[in.cmd.line] # None /\ Contents[in.cmd.line] = mem[in.cmd.line]
      BY <1>1, <1>3, <2>6, <3>3 DEF TypeOK, Contents
    <3>9. Answer(i)' = Contents[in.cmd.line]
      BY <1>2, <3>2, <3>6, <3>7, <3>8 DEF Answer
    <3>10. QED BY <2>1, <2>6, <3>1, <3>9
  <2>7. QED BY <1>1, <1>6, <2>2, <2>4, <2>5, <2>6, WaitingOrigin
\* The load is not in flight, or not any more.
<1>7. CASE /\ NextReturning(in) # None => NextReturning(in).id # id
           /\ \A i \in Id, s \in Slot : NextTracker(in, i).forwarding[s] # id
  <2>1. /\ \A i \in Id, s \in Slot : WaitingLoad(i, s)' # id
        /\ returning' # None => returning'.id # id
    BY <1>2, <1>7
  <2>2. BoundValue(id)' = None
    BY <2>1, WhereLoadsAreBoundNext DEF LoadsAreBound
  <2>3. QED BY <2>2
<1>8. QED BY <1>4, <1>5, <1>6, <1>7
\* A store is the only thing that changes the contents, and only of its line, when the
\* write bit of a prefetch is low.
LEMMA ContentsChange ==
    ASSUME TypeOK, AssertedIsOwed, Garbage = {None}, NEW in \in Inputs, Cycle(in)
    PROVE  Contents' = IF StoreInCycle(in) /\ Initiates(in)
                       THEN [Contents EXCEPT ![in.cmd.line] = in.cmd.data] ELSE Contents
<1>1. in.garbage = None
  BY DEF Inputs
<1>2. StoreInCycle(in) => in.cmd.line \in Line
  BY InputTypes DEF StoreInCycle, InternalCmd, InternalLoad, Store
<1>3. ASSUME NEW line \in Line
      PROVE  /\ NewWrite(in, line) => /\ StoreInCycle(in) /\ Initiates(in)
                                      /\ in.cmd.line = line
             /\ StoreInCycle(in) /\ Initiates(in) /\ in.cmd.line = line
                  => Contents'[line] = in.cmd.data
  <2>1. ASSUME NewWrite(in, line)
        PROVE  StoreInCycle(in) /\ Initiates(in) /\ in.cmd.line = line
    <3>1. Initiates(in)
      BY <1>1, <2>1 DEF NewWrite, BusCmd
    <3>2. StoreInCycle(in)
      BY <2>1, <3>1 DEF NewWrite, BusCmd, Initiates, LoadInCycle, StoreInCycle
    <3>3. QED BY <2>1, <3>1, <3>2 DEF NewWrite, BusCmd, StoreInCycle
  <2>2. ASSUME StoreInCycle(in), Initiates(in), in.cmd.line = line
        PROVE  Contents'[line] = in.cmd.data
    <3>1. BusCmd(in) = in.cmd
      BY <2>2 DEF BusCmd, Initiates, StoreInCycle
    <3>2. QED BY <2>2, <3>1, ContentsAfter DEF StoreInCycle
  <2>3. QED BY <2>1, <2>2
<1>4. Contents = [line \in Line |-> Contents[line]]
      /\ Contents' = [line \in Line |-> Contents'[line]]
  BY DEF Contents
<1>5. CASE StoreInCycle(in) /\ Initiates(in)
  <2>1. \A line \in Line : Contents'[line] = IF line = in.cmd.line THEN in.cmd.data
                                              ELSE Contents[line]
    BY <1>3, <1>5, ContentsStep
  <2>2. QED BY <1>2, <1>4, <1>5, <2>1
<1>6. CASE ~(StoreInCycle(in) /\ Initiates(in))
  <2>1. \A line \in Line : Contents'[line] = Contents[line]
    BY <1>3, <1>6, ContentsStep
  <2>2. QED BY <1>4, <1>6, <2>1
<1>7. QED BY <1>5, <1>6

\* The contents and the values of loads are data.
AbstractTypeOK ==
    /\ Contents \in [Line -> Data]
    /\ \A id \in InternalId : BoundValue(id) \in Data \cup {None}

LEMMA AbstractTypes == RefinementInvariant => AbstractTypeOK
<1> SUFFICES ASSUME RefinementInvariant PROVE AbstractTypeOK
  OBVIOUS
<1> USE CacheAssumption
<1>1. TypeOK /\ WaitInvariant
  BY DEF RefinementInvariant, CoherenceInvariant, CacheInvariant
<1>2. Contents \in [Line -> Data]
  <2>1. cmdBuffer # None /\ cmdBuffer.write => cmdBuffer.data \in Data
    BY <1>1 DEF TypeOK, CacheTypeOK, ExternalCmd, ExternalLoad, Store
  <2>2. mem \in [Line -> Data]
    BY <1>1 DEF TypeOK
  <2>3. QED BY <2>1, <2>2 DEF Contents
<1>3. ASSUME NEW id \in InternalId PROVE BoundValue(id) \in Data \cup {None}
  <2>1. CASE returning # None /\ returning.id = id
    BY <1>1, <2>1 DEF BoundValue, TypeOK, CacheTypeOK, Response
  <2>2. ASSUME NEW i \in Id, NEW s \in Slot, WaitingLoad(i, s) = id
        PROVE  BoundValue(id) \in Data \cup {None}
    <3>1. Pending(i) /\ BoundValue(id) = Answer(i)
      BY <1>1, <2>2, WhereLoadsAreBound
         DEF LoadsAreBound, WaitInvariant, WaitingIsPending
    <3>2. outstandingLoads[i].line \in Line
      BY <1>1, <3>1 DEF Pending, TypeOK, CacheTypeOK, OutstandingTracker
    <3>3. QED BY <1>1, <3>1, <3>2 DEF Answer, TypeOK
  <2>3. QED BY <1>1, <2>1, <2>2, WhereLoadsAreBound DEF LoadsAreBound
<1>4. QED BY <1>2, <1>3 DEF AbstractTypeOK

LEMMA AbstractTypesNext == RefinementInvariant' => AbstractTypeOK'
BY AbstractTypes, PTL

\* A cycle accepts a load or a store of the abstract memory, or only answers loads.
LEMMA RefinementStep ==
    ASSUME RefinementInvariant, RefinementInvariant', Garbage = {None},
           NEW in \in Inputs, Cycle(in)
    PROVE  Memory!Next
<1> USE CacheAssumption
<1>1. TypeOK /\ AssertedIsOwed /\ WaitInvariant'
  BY DEF RefinementInvariant, CoherenceInvariant, CacheInvariant
<1> DEFINE bound == [id \in InternalId |-> BoundValue(id)]
           next == [id \in InternalId |-> BoundValue(id)']
<1>2. next \in [InternalId -> Data \cup {None}]
  BY AbstractTypesNext DEF AbstractTypeOK
<1>3. \A id \in InternalId :
        \/ next[id] \in {bound[id], None}
        \/ /\ LoadInCycle(in) /\ in.cmd.id = id
           /\ bound[id] = None /\ next[id] = Contents[in.cmd.line]
  BY <1>1, BoundStep
<1> HIDE DEF bound, next
<1>4. CASE StoreInCycle(in) /\ Initiates(in)
  <2>1. in.cmd.line \in Line /\ in.cmd.data \in Data
    BY <1>1, <1>4, InputTypes DEF StoreInCycle, InternalCmd, InternalLoad, Store
  <2>2. Contents' = [Contents EXCEPT ![in.cmd.line] = in.cmd.data]
    BY <1>1, <1>4, ContentsChange
  <2>3. \A id \in InternalId : next[id] \in {bound[id], None}
    BY <1>3, <1>4 DEF StoreInCycle, LoadInCycle
  <2>4. QED
    BY <1>2, <2>1, <2>2, <2>3
       DEF Memory!Next, Memory!AcceptStore, Memory!Answering, bound, next
<1>5. CASE ~(StoreInCycle(in) /\ Initiates(in))
  <2>1. Contents' = Contents
    BY <1>1, <1>5, ContentsChange
  <2>2. CASE \A id \in InternalId : next[id] \in {bound[id], None}
    BY <1>2, <2>1, <2>2
       DEF Memory!Next, Memory!Answer, Memory!Answering, bound, next
  <2>3. CASE ~ \A id \in InternalId : next[id] \in {bound[id], None}
    <3>1. PICK id \in InternalId : next[id] \notin {bound[id], None}
      BY <2>3
    <3>2. /\ LoadInCycle(in) /\ in.cmd.id = id
          /\ bound[id] = None /\ next[id] = Contents[in.cmd.line]
      BY <1>3, <3>1
    <3>3. in.cmd.line \in Line
      BY <1>1, <3>2, InputTypes DEF LoadInCycle, InternalCmd, InternalLoad, Store
    <3>4. \A other \in InternalId \ {id} : next[other] \in {bound[other], None}
      BY <1>3, <3>2
    <3>5. QED
      BY <1>2, <2>1, <3>2, <3>3, <3>4
         DEF Memory!Next, Memory!AcceptLoad, Memory!Answering, bound, next
  <2>4. QED BY <2>2, <2>3
<1>6. QED BY <1>4, <1>5

\* After reset the cache is an idle memory.
LEMMA RefinementInit == Init => RefinementInvariant /\ Memory!Init
<1> SUFFICES ASSUME Init PROVE RefinementInvariant /\ Memory!Init
  OBVIOUS
<1> USE CacheAssumption
<1>1. RequestsMatchMemory
  BY DEF Init, CacheInit, RequestsMatchMemory, BufferedRequest, Pending
<1>2. RefinementInvariant
  BY <1>1, InitCoherence, InitWait DEF RefinementInvariant
<1>3. WaitInvariant /\ AbstractTypeOK
  BY <1>2, AbstractTypes DEF RefinementInvariant
<1>4. \A id \in InternalId : BoundValue(id) = None
  <2>1. /\ \A i \in Id, s \in Slot : WaitingLoad(i, s) = None
        /\ returning = None
    BY DEF Init, CacheInit, NoForwarding, WaitingLoad
  <2>2. QED BY <1>3, <2>1, WhereLoadsAreBound DEF LoadsAreBound
<1>5. QED BY <1>2, <1>3, <1>4 DEF Memory!Init, AbstractTypeOK

\* With the memory below it, the cache implements the memory: it is transparent to the
\* pipeline, for every geometry, number of ids, prefetcher and timing, as long as the
\* write bit that a prefetch leaves unassigned comes out low (Cache.scala 456-468).
THEOREM CacheIsTransparent == Garbage = {None} => (Spec => ImplementsMemory)
<1> SUFFICES ASSUME Garbage = {None} PROVE Spec => ImplementsMemory
  OBVIOUS
<1>1. RefinementInvariant /\ [Next]_vars => RefinementInvariant'
  <2>1. RefinementInvariant /\ UNCHANGED vars => RefinementInvariant'
    <3>1. RequestsMatchMemory /\ UNCHANGED vars => RequestsMatchMemory'
      BY DEF RequestsMatchMemory, vars, cacheVars, BufferedRequest, Pending
    <3>2. QED BY <3>1, CoherenceStutter, WaitStutter DEF RefinementInvariant
  <2>2. ASSUME RefinementInvariant, NEW in \in Inputs, Cycle(in)
        PROVE  RefinementInvariant'
    <3>1. CacheInvariant
      BY <2>2 DEF RefinementInvariant, CoherenceInvariant
    <3>2. CoherenceInvariant' /\ WaitInvariant' /\ RequestsMatchMemory'
      BY <2>2, <3>1, CoherenceStep, WaitStep, MatchStep DEF RefinementInvariant
    <3>3. QED BY <3>2 DEF RefinementInvariant
  <2>3. QED BY <2>1, <2>2 DEF Next
<1>2. RefinementInvariant /\ RefinementInvariant' /\ [Next]_vars
        => [Memory!Next]_(Memory!memoryVars)
  <2>1. UNCHANGED vars => UNCHANGED Memory!memoryVars
    BY DEF vars, cacheVars, Memory!memoryVars, Contents, BoundValue, Places
  <2>2. QED BY <2>1, RefinementStep DEF Next
<1>3. QED
  BY <1>1, <1>2, RefinementInit, PTL DEF Spec, ImplementsMemory, Memory!Spec

-----------------------------------------------------------------------------
(* Answers. *)

\* What internal.rsp carries in a cycle: the answer of the memory for the first load
\* that waits for it, or a hit.
Answers(in, id, data) ==
    \/ /\ SendingRsp(in) /\ in.rspReady /\ data = in.rdata
       /\ \E s \in Slot : IsFirstWaiting(in.rsp, s) /\ WaitingLoad(in.rsp, s) = id
    \/ ReturnedHit(in) # None /\ ReturnedHit(in).id = id /\ ReturnedHit(in).data = data

\* A load that is in flight, or accepted in this cycle, is in flight after the cycle, or
\* is answered in it with the value it is bound to.
KeepsOrAnswers(in) ==
    /\ \A id \in LoadsInFlight : id \in LoadsInFlight' \/ Answers(in, id, BoundValue(id))
    /\ LoadInCycle(in) /\ Accepts(in) =>
         \/ in.cmd.id \in LoadsInFlight'
         \/ Answers(in, in.cmd.id, Contents[in.cmd.line])

\* A set of naturals that is not empty has a least element.
LEMMA LeastNatural ==
    ASSUME NEW T, T \subseteq Nat, T # {}
    PROVE  \E x \in T : \A y \in T : x <= y
<1> DEFINE less == OpToRel(<, Nat)
<1>1. IsWellFoundedOn(less, Nat)
  BY NatLessThanWellFounded
<1>2. \A x, y \in Nat : y < x => <<y, x>> \in less
  BY DEF OpToRel
<1> HIDE DEF less
<1>3. PICK x \in T : \A y \in T : ~(<<y, x>> \in less)
  BY <1>1, WFMin
<1>4. ASSUME NEW y \in T PROVE x <= y
  <2>1. x \in Nat /\ y \in Nat
    OBVIOUS
  <2>2. ~(y < x)
    BY <1>2, <1>3, <2>1
  <2>3. QED BY <2>1, <2>2
<1>5. QED BY <1>4

\* A load always finds a free entry in the request it joins: the loads that wait for a
\* request have different ids, none of them that of a load on the bus, and there are as
\* many entries as ids.
LEMMA JoinsAFreeSlot ==
    ASSUME TypeOK, AssertedIsOwed, WaitInvariant, NEW in \in Inputs, NEW i \in Id,
           LoadInCycle(in)
    PROVE  FreeSlots(i) # {}
<1> USE CacheAssumption
<1> SUFFICES ASSUME FreeSlots(i) = {} PROVE FALSE
  OBVIOUS
<1>1. in.cmd.id \in InternalId
  BY InputTypes DEF LoadInCycle, InternalCmd, InternalLoad, Store
<1>2. \A s \in Slot : WaitingLoad(i, s) # in.cmd.id
  BY <1>1, LoadIsNew, InFlight
<1>3. \A s \in Slot : WaitingLoad(i, s) # None
  BY DEF FreeSlots, WaitingSlots, WaitingLoad
<1> DEFINE others == InternalId \ {in.cmd.id}
           f == [s \in Slot |-> WaitingLoad(i, s)]
<1>4. f \in [Slot -> others]
  <2>1. outstandingLoads[i].forwarding \in [Slot -> InternalId \cup {None}]
    BY DEF TypeOK, CacheTypeOK, OutstandingTracker
  <2>2. QED BY <1>2, <1>3, <2>1 DEF WaitingLoad
<1>5. IsFiniteSet(InternalId)
  BY FS_Interval
<1>6. Cardinality(InternalId) \in Nat
  BY <1>5, FS_CardinalityType
<1>7. IsFiniteSet(others) /\ Cardinality(others) < Cardinality(Slot)
  <2>1. IsFiniteSet(others) /\ Cardinality(others) = Cardinality(InternalId) - 1
    BY <1>1, <1>5, FS_RemoveElement
  <2>2. QED BY <1>6, <2>1 DEF Slot
<1>8. \E s, t \in Slot : s # t /\ f[s] = f[t]
  <2> HIDE DEF f, others
  <2>1. QED BY <1>4, <1>5, <1>7, FS_PigeonHole DEF Slot
<1>9. QED BY <1>3, <1>8 DEF WaitInvariant, OneWaitingPlace

\* No load is lost.
LEMMA AnswersOrKeeps ==
    ASSUME CoherenceInvariant, WaitInvariant, NEW in \in Inputs, Cycle(in)
    PROVE  KeepsOrAnswers(in)
<1> USE CacheAssumption
<1>1. /\ TypeOK /\ AssertedIsOwed /\ CacheInvariant /\ CachedIsCurrent /\ OneCopyPerLine
  BY DEF CoherenceInvariant, CacheInvariant
<1>2. /\ \A i \in Id, s \in Slot : outstandingLoads'[i].forwarding[s]
                                     = NextTracker(in, i).forwarding[s]
      /\ returning' = NextReturning(in)
  BY DEF Cycle, CacheCycle
<1>3. ASSUME NEW id \in InternalId, NEW i \in Id, NEW s \in Slot,
             NextTracker(in, i).forwarding[s] = id
      PROVE  id \in LoadsInFlight'
  BY <1>2, <1>3 DEF LoadsInFlight
<1>4. ASSUME NEW id \in LoadsInFlight
      PROVE  id \in LoadsInFlight' \/ Answers(in, id, BoundValue(id))
  <2>1. CASE returning # None /\ returning.id = id
    <3>1. CASE ~SendingRsp(in) /\ in.rspReady
      BY <2>1, <3>1 DEF Answers, ReturnedHit, BoundValue
    <3>2. CASE ~(~SendingRsp(in) /\ in.rspReady)
      <4>1. returning' = returning
        BY <1>2, <2>1, <3>2 DEF NextReturning
      <4>2. QED BY <2>1, <4>1 DEF LoadsInFlight
    <3>3. QED BY <3>1, <3>2
  <2>2. ASSUME NEW i \in Id, NEW s \in Slot, WaitingLoad(i, s) = id
        PROVE  id \in LoadsInFlight' \/ Answers(in, id, BoundValue(id))
    <3>1. id \in InternalId /\ id # None
      BY DEF LoadsInFlight
    <3>2. Pending(i) /\ BoundValue(id) = Answer(i)
      BY <2>2, <3>1, WhereLoadsAreBound DEF WaitInvariant, WaitingIsPending, LoadsAreBound
    <3>3. ~(i = externalId /\ Allocates(in))
      BY <1>1, <3>2, SentLine
    <3>4. CASE Merges(in, i)
      <4>1. FreeSlots(i) # {}
        BY <1>1, <3>4, JoinsAFreeSlot DEF Merges
      <4>2. ~IsFirstFree(i, s)
        BY <2>2, <3>1, <4>1 DEF IsFirstFree, FreeSlots, WaitingSlots, WaitingLoad
      <4>3. NextTracker(in, i).forwarding[s] = id
        BY <1>1, <2>2, <3>3, <3>4, <4>2, TrackerForwarding DEF ForwardingWith, WaitingLoad
      <4>4. QED BY <1>3, <3>1, <4>3
    <3>5. CASE ~Merges(in, i) /\ in.rsp = i /\ SendingRsp(in) /\ in.rspReady
      <4>1. NextTracker(in, i).forwarding =
              [t \in Slot |-> IF IsFirstWaiting(i, t) THEN None ELSE WaitingLoad(i, t)]
        BY <1>1, <3>3, <3>5, TrackerForwarding
      <4>2. CASE ~IsFirstWaiting(i, s)
        BY <1>3, <2>2, <3>1, <4>1, <4>2
      <4>3. CASE IsFirstWaiting(i, s)
        <5>1. in.rdata = memRsp[i] /\ memRsp[i] # None
          BY <1>1, <3>5, InputTypes
        <5>2. BoundValue(id) = in.rdata
          BY <3>2, <5>1 DEF Answer
        <5>3. QED BY <2>2, <3>5, <4>3, <5>2 DEF Answers
      <4>4. QED BY <4>2, <4>3
    <3>6. CASE ~Merges(in, i) /\ ~(in.rsp = i /\ SendingRsp(in) /\ in.rspReady)
      <4>1. NextTracker(in, i).forwarding = outstandingLoads[i].forwarding
        BY <1>1, <3>3, <3>6, TrackerForwarding
      <4>2. QED BY <1>3, <2>2, <3>1, <4>1 DEF WaitingLoad
    <3>7. QED BY <3>4, <3>5, <3>6
  <2>3. QED BY <2>1, <2>2 DEF LoadsInFlight, WaitingLoad
<1>5. ASSUME LoadInCycle(in), Accepts(in)
      PROVE  \/ in.cmd.id \in LoadsInFlight'
             \/ Answers(in, in.cmd.id, Contents[in.cmd.line])
  <2>1. in.cmd.id \in InternalId /\ in.cmd.line \in Line
    BY <1>1, <1>5, InputTypes DEF LoadInCycle, InternalCmd, InternalLoad, Store
  <2>2. CASE ReturnsHit(in)
    <3>1. returning = None /\ HitResponse(in).id = in.cmd.id
      BY <2>2 DEF ReturnsHit, HitResponse
    <3>2. HitResponse(in) # None /\ HitResponse(in).data = Contents[in.cmd.line]
      <4> DEFINE line == in.cmd.line
                 w == HitWay(in.cmd.line)
      <4>1. w \in HitWays(line)
        BY <1>1, <2>1, <2>2, HitWayMatches DEF ReturnsHit, Hit
      <4>2. /\ w \in Way /\ line.set \in Sets /\ line = [tag |-> line.tag, set |-> line.set]
            /\ cache[line.set][w].valid /\ cache[line.set][w].tag = line.tag
        BY <2>1, <4>1 DEF HitWays, Line
      <4> HIDE DEF w
      <4>3. cache[line.set][w].value = Contents[line]
        <5>1. cache[line.set][w].value
                = Contents[[tag |-> cache[line.set][w].tag, set |-> line.set]]
          BY <1>1, <4>2 DEF CachedIsCurrent
        <5>2. QED BY <4>2, <5>1
      <4>4. cache[line.set][w].value \in Data
        BY <1>1, <4>2 DEF CacheInvariant, ValidWaysHoldData, TypeOK, CacheTypeOK, CacheEntry
      <4>5. HitResponse(in) = [id |-> in.cmd.id, line |-> line, data |-> cache[line.set][w].value]
        BY DEF HitResponse, w
      <4>6. HitResponse(in) \in Response
        BY <2>1, <4>4, <4>5 DEF Response
      <4>7. QED BY <4>3, <4>5, <4>6, CacheSystemAssumption
    <3>3. CASE SendingRsp(in) \/ ~in.rspReady
      <4>1. returning' = HitResponse(in)
        BY <1>2, <2>2, <3>1, <3>3 DEF NextReturning
      <4>2. QED BY <2>1, <3>1, <3>2, <4>1 DEF LoadsInFlight
    <3>4. CASE ~(SendingRsp(in) \/ ~in.rspReady)
      <4>1. ReturnedHit(in) = HitResponse(in)
        BY <2>2, <3>1, <3>4 DEF ReturnedHit
      <4>2. QED BY <3>1, <3>2, <4>1 DEF Answers
    <3>5. QED BY <3>3, <3>4
  <2>3. CASE Initiates(in)
    <3>1. Allocates(in) /\ externalId \in Id
      BY <1>1, <1>5, <2>3 DEF Allocates, TypeOK, CacheTypeOK
    <3>2. NextTracker(in, externalId).forwarding = [NoForwarding EXCEPT ![0] = in.cmd.id]
      BY <1>1, <2>3, <3>1, TrackerForwarding
    <3>3. 0 \in Slot /\ NextTracker(in, externalId).forwarding[0] = in.cmd.id
      BY <3>2 DEF NoForwarding
    <3>4. QED BY <1>3, <2>1, <3>1, <3>3
  <2>4. ASSUME NEW i \in Id, Merges(in, i)
        PROVE  in.cmd.id \in LoadsInFlight'
    <3>1. ~(i = externalId /\ Allocates(in))
      BY <1>1, <2>4, SentLine DEF Merges, Fresh
    <3>2. NextTracker(in, i).forwarding = ForwardingWith(in, i)
      BY <1>1, <2>4, <3>1, TrackerForwarding
    <3>3. FreeSlots(i) # {} /\ FreeSlots(i) \subseteq Nat
      BY <1>1, <1>5, JoinsAFreeSlot DEF FreeSlots
    <3>4. PICK s \in FreeSlots(i) : \A t \in FreeSlots(i) : s <= t
      BY <3>3, LeastNatural
    <3>5. IsFirstFree(i, s) /\ s \in Slot
      BY <3>3, <3>4 DEF IsFirstFree, FreeSlots
    <3>6. NextTracker(in, i).forwarding[s] = in.cmd.id
      BY <3>2, <3>5 DEF ForwardingWith
    <3>7. QED BY <1>3, <2>1, <3>5, <3>6
  <2>5. QED BY <1>5, <2>2, <2>3, <2>4 DEF Accepts
<1>6. QED BY <1>4, <1>5 DEF KeepsOrAnswers

\* No load is lost and none gets another value: a load leaves the cache only by an answer
\* with the contents its line had when it was accepted, however requests are joined,
\* answers and hits compete for internal.rsp, and stores overtake (Cache.scala 213-224,
\* 237-326, 372-395, 521-576).
THEOREM NoLoadIsLost ==
    Spec => [][\E in \in Inputs : Cycle(in) /\ KeepsOrAnswers(in)]_vars
<1> DEFINE Inv == CoherenceInvariant /\ WaitInvariant
           Kept == \E in \in Inputs : Cycle(in) /\ KeepsOrAnswers(in)
<1>1. Init => Inv
  BY InitCoherence, InitWait
<1>2. Inv /\ [Next]_vars => Inv'
  BY CoherenceStep, CoherenceStutter, WaitStep, WaitStutter DEF Next, CoherenceInvariant
<1>3. Inv /\ [Next]_vars => [Kept]_vars
  BY AnswersOrKeeps DEF Next
<1> HIDE DEF Inv, Kept
<1>4. Spec => [][Kept]_vars
  BY <1>1, <1>2, <1>3, PTL DEF Spec
<1>5. QED BY <1>4 DEF Kept
=============================================================================
