------------------------- MODULE CacheSecrecyProofs -------------------------
(***************************************************************************)
(* SecDMP's guarantee for the data that comes in from the memory, for any  *)
(* geometry, any prefetcher and any sequence of partitions.  The argument: *)
(* the secrecy bit of a request is only ever cleared when its line is      *)
(* outside the partition, where everything is public, and when its answer  *)
(* is current (or not read yet); and no later store can turn an answer     *)
(* that was read as public into a secret one.                              *)
(***************************************************************************)
EXTENDS CacheSecrecy, CacheAudit, CacheCoherenceProofs

\* What a cycle does to the secrecy bit of a request.
LEMMA TrackerSecret ==
    ASSUME TypeOK, AssertedIsOwed, NEW in \in Inputs, NEW i \in Id
    PROVE  NextTracker(in, i).secret =
             IF i = externalId /\ Allocates(in)
             THEN SecDmp /\ (IF Initiates(in) THEN in.cmd.line ELSE in.target) \in partition
             ELSE IF Merges(in, i)
             THEN outstandingLoads[i].secret /\ in.cmd.line \in partition
             ELSE IF RequestDone(in) /\ in.rsp = i THEN FALSE
             ELSE outstandingLoads[i].secret
<1>1. /\ outstandingLoads[i] \in OutstandingTracker
      /\ outstandingLoads[externalId] \in OutstandingTracker
  BY DEF TypeOK, CacheTypeOK
<1>2. Allocated(in).secret =
        (SecDmp /\ (IF Initiates(in) THEN in.cmd.line ELSE in.target) \in partition)
  BY <1>1 DEF Allocated, OutstandingTracker
<1>3. Merges(in, i) =>
        Merged(in, i).secret = (outstandingLoads[i].secret /\ in.cmd.line \in partition)
  BY <1>1 DEF Merged, OutstandingTracker
<1>4. in.rsp = i => /\ Completed(in).secret = FALSE
                    /\ Forwarded(in).secret = outstandingLoads[i].secret
  <2> SUFFICES ASSUME in.rsp = i
               PROVE  Completed(in).secret = FALSE
                      /\ Forwarded(in).secret = outstandingLoads[i].secret
    OBVIOUS
  <2>1. Forwarded(in).secret = outstandingLoads[i].secret
        /\ "secret" \in DOMAIN Forwarded(in)
    BY <1>1 DEF Forwarded, OutstandingTracker
  <2>2. Completed(in).secret = FALSE
    BY <2>1 DEF Completed
  <2>3. QED BY <2>1, <2>2
<1>5. \A o : [o EXCEPT !.storeInvalidated = TRUE].secret = o.secret
  OBVIOUS
<1>6. RequestDone(in) /\ in.rsp = i => ~Merges(in, i)
  BY DEF RequestDone, Merges, RspValid, RspLine
<1>7. CASE i = externalId /\ Allocates(in)
  BY <1>2, <1>5, <1>7 DEF NextTracker
<1>8. CASE ~(i = externalId /\ Allocates(in)) /\ Merges(in, i)
  BY <1>3, <1>5, <1>6, <1>8 DEF NextTracker
<1>9. CASE ~(i = externalId /\ Allocates(in)) /\ ~Merges(in, i)
  BY <1>4, <1>5, <1>9 DEF NextTracker
<1>10. QED BY <1>7, <1>8, <1>9

\* Outside the partition everything stays public.
LEMMA OutsideStep ==
    ASSUME SecrecyInvariant, NEW in \in Inputs, Cycle(in),
           StoresSecretsInside(in), DeclassifiesPublicLines(in)
    PROVE  OutsideIsPublic'
<1>1. TypeOK /\ AssertedIsOwed /\ OutsideIsPublic
  BY DEF SecrecyInvariant, CoherenceInvariant, CacheInvariant
<1> SUFFICES ASSUME NEW line \in Line, line \notin partition'
             PROVE  Contents'[line] \in PublicData /\ ~SecretStore(heldCmd', line)
  BY DEF OutsideIsPublic, SecretStore
<1>2. Contents[line] \in PublicData /\ ~SecretStore(in.cmd, line)
  <2>1. CASE line \in partition
    BY <2>1 DEF DeclassifiesPublicLines
  <2>2. CASE line \notin partition
    BY <1>1, <2>2 DEF OutsideIsPublic, StoresSecretsInside
  <2>3. QED BY <2>1, <2>2
<1>3. ~SecretStore(heldCmd', line)
  BY <1>2 DEF Cycle, SecretStore
<1>4. Contents'[line] \in PublicData
  <2>1. CASE ~NewWrite(in, line)
    BY <1>1, <1>2, <2>1, ContentsStep
  <2>2. CASE NewWrite(in, line)
    <3>1. /\ cmdBuffer = None /\ BusCmd(in) # None /\ BusCmd(in).write
          /\ BusCmd(in).line = line
      BY <2>2 DEF NewWrite
    <3>2. Contents'[line] = BusCmd(in).data
      BY <1>1, <3>1, ContentsAfter
    <3>3. CASE Initiates(in)
      <4>1. StoreInCycle(in)
        <5>1. Initiates(in) /\ ~StoreInCycle(in) => LoadInCycle(in)
          BY DEF Initiates
        <5>2. LoadInCycle(in) => in.cmd \in InternalLoad
          BY <1>1, InputTypes DEF LoadInCycle, InternalCmd, Store
        <5>3. LoadInCycle(in) => ~[in.cmd EXCEPT !.id = externalId].write
          BY <5>2 DEF InternalLoad
        <5>4. QED
          BY <3>1, <3>3, <5>1, <5>3 DEF BusCmd, LoadInCycle
      <4>2. BusCmd(in) = in.cmd
        BY <3>1, <3>3, <4>1 DEF BusCmd, StoreInCycle
      <4>3. QED BY <1>2, <3>1, <3>2, <4>1, <4>2 DEF SecretStore, StoreInCycle
    <3>4. CASE ~Initiates(in)
      <4>1. IssuesPrefetch(in) /\ in.garbage # None /\ BusCmd(in).data = in.garbage
        BY <3>1, <3>4 DEF BusCmd
      <4>2. in.garbage \in Garbage
        BY DEF Inputs
      <4>3. QED BY <3>2, <4>1, <4>2, CacheSecrecyAssumption
    <3>5. QED BY <3>3, <3>4
  <2>3. QED BY <2>1, <2>2
<1>5. QED BY <1>3, <1>4

\* Requests that are not marked secret stay public.
LEMMA UnmarkedStep ==
    ASSUME SecrecyInvariant, NEW in \in Inputs, Cycle(in)
    PROVE  UnmarkedIsPublic'
<1> USE CacheAssumption
<1>1. /\ CacheInvariant /\ BufferedKeepsLine /\ AnswersAreCurrent
      /\ OutsideIsPublic /\ UnmarkedIsPublic
      /\ TypeOK /\ AssertedIsOwed /\ RequestOwnership
  BY DEF SecrecyInvariant, CoherenceInvariant, CacheInvariant
<1> DEFINE c == BusCmd(in)
           IsLoad(i) == c # None /\ ~c.write /\ c.id = i
           SentNow(i) == i = externalId /\ Allocates(in)
           Done(i) == RequestDone(in) /\ in.rsp = i
           line(i) == outstandingLoads[i].line
           Public(i) == /\ memRsp[i] # None => memRsp[i] \in PublicData
                        /\ BufferedRequest(i) => mem[line(i)] \in PublicData
<1> SUFFICES ASSUME NEW i \in Id, Pending(i)', ~outstandingLoads'[i].secret
             PROVE  /\ memRsp'[i] # None => memRsp'[i] \in PublicData
                    /\ BufferedRequest(i)' => mem'[outstandingLoads'[i].line] \in PublicData
  BY DEF UnmarkedIsPublic
<1>2. /\ memRsp'[i] = IF in.cmdReady /\ IsLoad(i) THEN mem[c.line]
                      ELSE IF Done(i) THEN None ELSE memRsp[i]
      /\ BufferedRequest(i)' => ~in.cmdReady /\ IsLoad(i) /\ mem' = mem
      /\ outstandingLoads'[i] = NextTracker(in, i)
  BY DEF Cycle, CacheCycle, MemoryCycle, BufferedRequest
<1>3. IsLoad(i) => c.line = outstandingLoads'[i].line
  BY <1>1, BufferedStep
\* Outside the partition the memory is public while no store waits for it.
<1>4. ASSUME NEW l \in Line, l \notin partition, cmdBuffer # None => ~cmdBuffer.write
      PROVE  mem[l] \in PublicData
  BY <1>1, <1>4 DEF OutsideIsPublic, Contents
<1>5. CASE SentNow(i)
  <2> DEFINE l == IF Initiates(in) THEN in.cmd.line ELSE in.target
  <2>1. cmdBuffer = None /\ ~Pending(i) /\ l \in Line
    BY <1>1, <1>5, SentLine
  <2>2. outstandingLoads'[i].line = l /\ l \notin partition
    BY <1>1, <1>2, <1>5, TrackerLine, TrackerSecret, CacheSecrecyAssumption
  <2>3. mem[l] \in PublicData
    BY <1>4, <2>1, <2>2
  <2>4. memRsp[i] = None
    BY <1>1, <2>1 DEF RequestOwnership
  <2> HIDE DEF l, c, IsLoad
  <2>5. QED BY <1>2, <1>3, <2>2, <2>3, <2>4
<1>6. CASE ~SentNow(i)
  <2>1. /\ ~Done(i) /\ NextTracker(in, i).line = line(i) /\ Pending(i)
    BY <1>1, <1>2, <1>6, TrackerLine DEF Pending
  <2>2. Public(i)
    <3>1. CASE ~outstandingLoads[i].secret
      BY <1>1, <2>1, <3>1 DEF UnmarkedIsPublic
    <3>2. CASE outstandingLoads[i].secret
      <4>1. Merges(in, i) /\ in.cmd.line \notin partition
        BY <1>1, <1>2, <1>6, <2>1, <3>2, TrackerSecret
      <4>2. Fresh(i) /\ line(i) = in.cmd.line
        BY <4>1 DEF Merges
      <4>3. outstandingLoads[i] \in OutstandingTracker
        BY <1>1 DEF TypeOK, CacheTypeOK
      <4>4. line(i) \in Line
        BY <2>1, <4>3 DEF Pending, OutstandingTracker
      <4>5. Contents[line(i)] \in PublicData
        BY <1>1, <4>1, <4>2, <4>4 DEF OutsideIsPublic
      <4>6. memRsp[i] # None => memRsp[i] \in PublicData
        BY <1>1, <4>2, <4>5 DEF AnswersAreCurrent
      <4>7. BufferedRequest(i) => mem[line(i)] \in PublicData
        BY <1>4, <4>1, <4>2, <4>4 DEF BufferedRequest
      <4>8. QED BY <4>6, <4>7
    <3>3. QED BY <3>1, <3>2
  <2>3. IsLoad(i) => BufferedRequest(i) /\ c = cmdBuffer
    BY <1>1, <1>6, BusLoad
  <2> HIDE DEF c, IsLoad, Done, line
  <2>4. outstandingLoads'[i].line = line(i)
    BY <1>2, <2>1
  <2>5. memRsp'[i] # None => memRsp'[i] \in PublicData
    <3>1. CASE in.cmdReady /\ IsLoad(i)
      BY <1>2, <1>3, <2>2, <2>3, <2>4, <3>1
    <3>2. CASE ~(in.cmdReady /\ IsLoad(i))
      BY <1>2, <2>1, <2>2, <3>2
    <3>3. QED BY <3>1, <3>2
  <2>6. BufferedRequest(i)' => mem'[outstandingLoads'[i].line] \in PublicData
    BY <1>2, <2>2, <2>3, <2>4
  <2>7. QED BY <2>5, <2>6
<1>7. QED BY <1>5, <1>6

\* What the prefetcher is handed of the memory's answers is public.
LEMMA ScannedFromInvariant == SecrecyInvariant => ScannedDataIsPublic
<1> SUFFICES ASSUME SecrecyInvariant, NEW in \in Inputs,
                    NotifiesPrefetchResponse(in) \/ NotifiesMissResponse(in)
             PROVE  in.rdata \in PublicData
  BY DEF ScannedDataIsPublic
<1>1. TypeOK /\ AssertedIsOwed /\ RequestOwnership /\ UnmarkedIsPublic
  BY DEF SecrecyInvariant, CoherenceInvariant, CacheInvariant
<1>2. in.rsp # None /\ ~outstandingLoads[in.rsp].secret
  BY CacheSecrecyAssumption
     DEF NotifiesPrefetchResponse, NotifiesMissResponse, SendingRsp, RspValid,
         DmpMayScanRequest
<1>3. in.rsp \in Id /\ in.rdata = memRsp[in.rsp] /\ memRsp[in.rsp] # None
  BY <1>1, <1>2, InputTypes, CacheAssumption
<1>4. Pending(in.rsp)
  BY <1>1, <1>3 DEF RequestOwnership
<1>5. QED BY <1>1, <1>2, <1>3, <1>4 DEF UnmarkedIsPublic

\* Lines outside the partition are public, and so is what is read for requests that
\* are not marked, although the partition moves.
THEOREM SecrecyInvariantHolds == SecrecySpec => []SecrecyInvariant
<1>1. SecrecyInit => SecrecyInvariant
  <2> SUFFICES ASSUME SecrecyInit PROVE SecrecyInvariant
    OBVIOUS
  <2>1. Init
    BY DEF SecrecyInit
  <2>2. CoherenceInvariant
    BY <2>1, InitCoherence
  <2>3. \A i \in Id : ~Pending(i)
    BY <2>1 DEF Init, CacheInit, Pending
  <2>4. UnmarkedIsPublic
    BY <2>3 DEF UnmarkedIsPublic
  <2>5. OutsideIsPublic
    BY <2>1 DEF SecrecyInit, Init, CacheInit, OutsideIsPublic, Contents, SecretStore
  <2>6. QED BY <2>2, <2>4, <2>5 DEF SecrecyInvariant
<1>2. SecrecyInvariant /\ [SecrecyNext]_vars => SecrecyInvariant'
  <2>1. ASSUME SecrecyInvariant, SecrecyNext PROVE SecrecyInvariant'
    <3>1. PICK in \in Inputs :
            StoresSecretsInside(in) /\ Cycle(in) /\ DeclassifiesPublicLines(in)
      BY <2>1 DEF SecrecyNext
    <3>2. CoherenceInvariant'
      BY <2>1, <3>1, CoherenceStep DEF SecrecyInvariant
    <3>3. OutsideIsPublic' /\ UnmarkedIsPublic'
      BY <2>1, <3>1, OutsideStep, UnmarkedStep
    <3>4. QED BY <3>2, <3>3 DEF SecrecyInvariant
  <2>2. ASSUME SecrecyInvariant, UNCHANGED vars PROVE SecrecyInvariant'
    <3>1. CoherenceInvariant'
      BY <2>2, CoherenceStutter DEF SecrecyInvariant
    <3>2. OutsideIsPublic' /\ UnmarkedIsPublic'
      BY <2>2 DEF SecrecyInvariant, vars, cacheVars, csrVars, OutsideIsPublic,
         UnmarkedIsPublic, Contents, SecretStore, Pending, BufferedRequest
    <3>3. QED BY <3>1, <3>2 DEF SecrecyInvariant
  <2>3. QED BY <2>1, <2>2
<1>3. QED
  BY <1>1, <1>2, PTL DEF SecrecySpec

\* SecDMP: whatever the memory answers, the prefetcher is only handed public data.
THEOREM ScannedIsPublic == SecrecySpec => []ScannedDataIsPublic
<1>1. QED BY SecrecyInvariantHolds, ScannedFromInvariant, PTL

(* Responses that are scanned. *)

USE DEF Way, Id, InternalId, Slot

\* The marks of a pending request tell whether one of those that asked for it found the
\* line outside the partition, and whether one came in mode OFF.
MarksTellAskers ==
    \A i \in Id : Pending(i) =>
        /\ SecDmp => (i \in outside <=> ~outstandingLoads[i].secret)
        /\ SelectiveDisabling => (i \in unguarded <=> outstandingLoads[i].mode = "OFF")

AuditInvariant == CacheInvariant /\ MarksTellAskers

\* What a cycle does to the mode of a request that stays pending.
LEMMA TrackerMode ==
    ASSUME TypeOK, AssertedIsOwed, NEW in \in Inputs, NEW i \in Id,
           ~(RequestDone(in) /\ in.rsp = i)
    PROVE  NextTracker(in, i).mode =
             IF i = externalId /\ Allocates(in)
             THEN IF SelectiveDisabling THEN securityMode ELSE "OFF"
             ELSE IF /\ Merges(in, i) /\ SelectiveDisabling
                     /\ GreaterThan(outstandingLoads[i].mode, securityMode)
             THEN securityMode
             ELSE outstandingLoads[i].mode
<1>1. /\ outstandingLoads[i] \in OutstandingTracker
      /\ outstandingLoads[externalId] \in OutstandingTracker
  BY DEF TypeOK, CacheTypeOK
<1>2. Allocated(in).mode = IF SelectiveDisabling THEN securityMode ELSE "OFF"
  BY <1>1 DEF Allocated, OutstandingTracker
<1>3. Merged(in, i).mode =
        IF SelectiveDisabling /\ GreaterThan(outstandingLoads[i].mode, securityMode)
        THEN securityMode ELSE outstandingLoads[i].mode
  BY <1>1 DEF Merged, OutstandingTracker
<1>4. in.rsp = i => Forwarded(in).mode = outstandingLoads[i].mode
  BY <1>1 DEF Forwarded, OutstandingTracker
<1>5. \A o : [o EXCEPT !.storeInvalidated = TRUE].mode = o.mode
  OBVIOUS
<1>6. CASE i = externalId /\ Allocates(in)
  BY <1>2, <1>5, <1>6 DEF NextTracker
<1>7. CASE ~(i = externalId /\ Allocates(in)) /\ Merges(in, i)
  BY <1>3, <1>5, <1>7 DEF NextTracker
<1>8. CASE ~(i = externalId /\ Allocates(in)) /\ ~Merges(in, i)
  BY <1>4, <1>5, <1>8 DEF NextTracker
<1>9. QED BY <1>6, <1>7, <1>8

\* A cycle adds what asks for a request to what its marks tell.
LEMMA MarksStep ==
    ASSUME AuditInvariant, NEW in \in Inputs, AuditCycle(in)
    PROVE  MarksTellAskers'
<1>1. /\ TypeOK /\ AssertedIsOwed
      /\ \A i \in Id : outstandingLoads'[i] = NextTracker(in, i)
      /\ outside' = Kept(in, outside)
                      \cup {i \in AskedFor(in) : outstandingLoads'[i].line \notin partition}
      /\ unguarded' = Kept(in, unguarded)
                        \cup (IF securityMode = "OFF" THEN AskedFor(in) ELSE {})
  BY DEF AuditInvariant, CacheInvariant, AuditCycle, Cycle, CacheCycle
<1> SUFFICES ASSUME NEW i \in Id, NextTracker(in, i).line # None
             PROVE  /\ SecDmp => (i \in outside' <=> ~NextTracker(in, i).secret)
                    /\ SelectiveDisabling =>
                         (i \in unguarded' <=> NextTracker(in, i).mode = "OFF")
  BY <1>1 DEF MarksTellAskers, Pending
<1> DEFINE line == NextTracker(in, i).line
           sent == i = externalId /\ Allocates(in)
<1>2. /\ i \in AskedFor(in) <=> (sent \/ Merges(in, i))
      /\ i \in Kept(in, outside) <=> (i \in outside /\ ~sent)
      /\ i \in Kept(in, unguarded) <=> (i \in unguarded /\ ~sent)
  <2>1. outstandingLoads'[i].line # None
    BY <1>1
  <2>2. Sent(in, i) <=> sent
    BY DEF Sent
  <2> HIDE DEF sent, line
  <2>3. QED BY <2>1, <2>2 DEF Kept, AskedFor
<1>3. /\ (i \in outside') <=> ((i \in outside /\ ~sent)
                               \/ ((sent \/ Merges(in, i)) /\ line \notin partition))
      /\ (i \in unguarded') <=> ((i \in unguarded /\ ~sent)
                                 \/ ((sent \/ Merges(in, i)) /\ securityMode = "OFF"))
  <2>1. outstandingLoads'[i].line = line
    BY <1>1
  <2> HIDE DEF sent, line
  <2>2. QED BY <1>1, <1>2, <2>1
<1>4. CASE sent
  <2>1. ~(RequestDone(in) /\ in.rsp = i)
    BY <1>4, DoneClears DEF AuditInvariant
  <2>2. line = IF Initiates(in) THEN in.cmd.line ELSE in.target
    BY <1>1, <1>4, TrackerLine
  <2>3. SecDmp => (NextTracker(in, i).secret <=> line \in partition)
    BY <1>1, <1>4, <2>2, TrackerSecret
  <2>4. SelectiveDisabling => NextTracker(in, i).mode = securityMode
    BY <1>1, <1>4, <2>1, TrackerMode
  <2>5. QED BY <1>3, <1>4, <2>3, <2>4
<1>5. CASE ~sent
  <2>1. ~(RequestDone(in) /\ in.rsp = i) /\ line = outstandingLoads[i].line /\ Pending(i)
    BY <1>1, <1>5, TrackerLine DEF Pending
  <2>2. /\ SecDmp => (i \in outside <=> ~outstandingLoads[i].secret)
        /\ SelectiveDisabling => (i \in unguarded <=> outstandingLoads[i].mode = "OFF")
    BY <2>1 DEF AuditInvariant, MarksTellAskers
  <2>3. Merges(in, i) => in.cmd.line = line
    BY <2>1 DEF Merges
  <2>4. NextTracker(in, i).secret = IF Merges(in, i)
                                    THEN outstandingLoads[i].secret /\ line \in partition
                                    ELSE outstandingLoads[i].secret
    BY <1>1, <1>5, <2>1, <2>3, TrackerSecret
  <2>5. SecDmp => (i \in outside' <=> ~NextTracker(in, i).secret)
    <3> HIDE DEF line, sent
    <3>1. CASE Merges(in, i)
      BY <1>3, <1>5, <2>2, <2>4, <3>1
    <3>2. CASE ~Merges(in, i)
      BY <1>3, <1>5, <2>2, <2>4, <3>2
    <3>3. QED BY <3>1, <3>2
  <2>6. /\ outstandingLoads[i].mode \in SecurityModeType
        /\ securityMode \in SecurityModeType
    BY <1>1 DEF TypeOK, CacheTypeOK, OutstandingTracker
  <2>7. SelectiveDisabling =>
          NextTracker(in, i).mode =
            IF Merges(in, i) /\ GreaterThan(outstandingLoads[i].mode, securityMode)
            THEN securityMode ELSE outstandingLoads[i].mode
    BY <1>1, <1>5, <2>1, TrackerMode
  <2>8. GreaterThan(outstandingLoads[i].mode, "OFF") <=> outstandingLoads[i].mode # "OFF"
    BY <2>6 DEF GreaterThan, SecurityModeType
  <2>9. GreaterThan(outstandingLoads[i].mode, securityMode)
          => outstandingLoads[i].mode # "OFF"
    BY <2>6 DEF GreaterThan
  <2>10. SelectiveDisabling => (i \in unguarded' <=> NextTracker(in, i).mode = "OFF")
    <3> HIDE DEF line, sent
    <3>1. CASE securityMode = "OFF"
      BY <1>3, <1>5, <2>2, <2>7, <2>8, <3>1
    <3>2. CASE securityMode # "OFF"
      BY <1>3, <1>5, <2>2, <2>7, <2>9, <3>2
    <3>3. QED BY <3>1, <3>2
  <2>11. QED BY <2>5, <2>10
<1>6. QED BY <1>4, <1>5

\* A response is scanned exactly if each defence allowed it for one of those that asked for
\* the request, when they asked, although the CSRs change and loads with other rights join
\* the request (Cache.scala 183-192, 473-488, 545-558).
THEOREM ScansArePermitted == AuditSpec => []ResponseScansArePermitted
<1>1. AuditInit => AuditInvariant
  <2> SUFFICES ASSUME AuditInit PROVE AuditInvariant
    OBVIOUS
  <2>1. CacheInvariant
    BY InitInvariant DEF AuditInit
  <2>2. \A i \in Id : ~Pending(i)
    BY DEF AuditInit, Init, CacheInit, Pending
  <2>3. QED BY <2>1, <2>2 DEF AuditInvariant, MarksTellAskers
<1>2. AuditInvariant /\ [AuditNext]_auditVars => AuditInvariant'
  <2>1. ASSUME AuditInvariant, AuditNext PROVE AuditInvariant'
    <3>1. PICK in \in Inputs : AuditCycle(in)
      BY <2>1 DEF AuditNext
    <3>2. MarksTellAskers'
      BY <2>1, <3>1, MarksStep
    <3>3. CacheInvariant'
      BY <2>1, <3>1, CacheStep DEF AuditInvariant, AuditCycle
    <3>4. QED BY <3>2, <3>3 DEF AuditInvariant
  <2>2. ASSUME AuditInvariant, UNCHANGED auditVars PROVE AuditInvariant'
    <3>1. UNCHANGED vars /\ outside' = outside /\ unguarded' = unguarded
      BY <2>2 DEF auditVars
    <3>2. CacheInvariant'
      BY <2>2, <3>1, CacheStutter DEF AuditInvariant
    <3>3. MarksTellAskers'
      BY <2>2, <3>1 DEF AuditInvariant, MarksTellAskers, Pending, vars, cacheVars
    <3>4. QED BY <3>2, <3>3 DEF AuditInvariant
  <2>3. QED BY <2>1, <2>2
<1>3. AuditInvariant => ResponseScansArePermitted
  <2> SUFFICES ASSUME AuditInvariant, NEW in \in Inputs, Delivered(in)
               PROVE  NotifiesPrefetchResponse(in) \/ NotifiesMissResponse(in)
                      <=> /\ SecDmp => in.rsp \in outside
                          /\ SelectiveDisabling => in.rsp \in unguarded
    BY DEF ResponseScansArePermitted
  <2>1. /\ TypeOK /\ AssertedIsOwed /\ RequestOwnership /\ MarksTellAskers
        /\ in.rsp # None
    BY DEF AuditInvariant, CacheInvariant, Delivered, RspValid
  <2>2. in.rsp \in Id /\ memRsp[in.rsp] # None
    BY <2>1, InputTypes, CacheAssumption
  <2>3. Pending(in.rsp)
    BY <2>1, <2>2 DEF RequestOwnership
  <2>4. NotifiesPrefetchResponse(in) \/ NotifiesMissResponse(in)
          <=> DmpMayScanRequest(in.rsp)
    BY DEF Delivered, NotifiesPrefetchResponse, NotifiesMissResponse, SendingRsp
  <2>5. QED BY <2>1, <2>2, <2>3, <2>4 DEF MarksTellAskers, DmpMayScanRequest
<1>4. QED BY <1>1, <1>2, <1>3, PTL DEF AuditSpec
=============================================================================
