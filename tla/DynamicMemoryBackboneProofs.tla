--------------------- MODULE DynamicMemoryBackboneProofs ---------------------
(***************************************************************************)
(* Every load stage gets the answers to its own loads and no others, for   *)
(* any number of load stages and bus ids.  The argument: an id is only     *)
(* given out while the cache owes nothing for it, and from then until the  *)
(* answer busId2StageIndex (or the buffered command) says which stage it   *)
(* belongs to and whether that stage's load was flushed since.             *)
(***************************************************************************)
EXTENDS DynamicMemoryBackbone, WellFoundedInduction, TLAPS

\* A set of stages or ids has a least one (cmds.zipWithIndex, idBufferSize downto 0).
LEMMA LeastExists ==
    ASSUME NEW S \in SUBSET Nat, S # {}
    PROVE  \E i \in S : \A j \in S : i <= j
<1>1. PICK i \in S : \A j \in S : ~(<<j, i>> \in OpToRel(<, Nat))
  BY NatLessThanWellFounded, WFMin
<1>2. \A j \in S : ~(j < i)
  BY <1>1 DEF OpToRel
<1>3. QED BY <1>2

\* The command on the bus is the buffered one, or a sendable load under the next id,
\* or a store.
LEMMA UnifiedCmdType ==
    ASSUME TypeOK
    PROVE  /\ UnifiedCmd \in MemBusCmd \cup {None}
           /\ UnifiedCmd # None => (UnifiedCmd.write <=> UnifiedCmd.stage = StoreStage)
           /\ IsLoad(UnifiedCmd) => UnifiedCmd.stage \in Stage
           /\ cmdBuffer = None /\ IsLoad(UnifiedCmd) =>
                /\ UnifiedCmd.stage \in Sendable
                /\ UnifiedCmd = LoadCmd(UnifiedCmd.stage)
<1>1. CASE cmdBuffer # None
  <2>1. UnifiedCmd = cmdBuffer
    BY <1>1 DEF UnifiedCmd
  <2>2. QED
    BY <2>1, <1>1, BackboneAssumption DEF TypeOK, MemBusCmd, IsLoad, Stage, StoreStage
<1>2. CASE cmdBuffer = None /\ Sendable # {}
  <2> DEFINE s == CHOOSE i \in Sendable : \A j \in Sendable : i <= j
  <2>1. Sendable \in SUBSET Nat
    BY BackboneAssumption DEF Sendable, Stage
  <2>2. s \in Sendable
    BY <2>1, <1>2, LeastExists
  <2>3. UnifiedCmd = LoadCmd(s)
    BY <1>2 DEF UnifiedCmd
  <2> HIDE DEF s
  <2>4. s \in Stage /\ load[s] # None
    BY <2>2 DEF Sendable, Asserts
  <2>5. load[s] \in Address /\ (currentCmd[s] # None => currentCmd[s].address \in Address)
    BY <2>4 DEF TypeOK, CurrentCmd
  <2>6. /\ LoadCmd(s) \in MemBusCmd /\ LoadCmd(s).stage = s /\ ~LoadCmd(s).write
        /\ s # StoreStage
    BY <2>4, <2>5, BackboneAssumption
    DEF LoadCmd, MemBusCmd, Stage, StoreStage, TypeOK
  <2>7. QED BY <1>2, <2>2, <2>3, <2>4, <2>6, SMT
<1>3. CASE cmdBuffer = None /\ Sendable = {} /\ store # None
  <2>1. UnifiedCmd = StoreCmd
    BY <1>3 DEF UnifiedCmd
  <2>2. StoreCmd \in MemBusCmd /\ StoreCmd.write /\ StoreCmd.stage = StoreStage
    BY <1>3, BackboneAssumption DEF StoreCmd, MemBusCmd, StoreStage, TypeOK
  <2>3. StoreCmd # None
    BY BackboneAssumption, <2>2
  <2>4. QED BY <2>1, <2>2, <2>3 DEF IsLoad
<1>4. CASE cmdBuffer = None /\ Sendable = {} /\ store = None
  <2>1. UnifiedCmd = None
    BY <1>4 DEF UnifiedCmd
  <2>2. QED BY <2>1 DEF IsLoad
<1>5. QED BY <1>1, <1>2, <1>3, <1>4


\* The inputs of a cycle.
LEMMA InputsType ==
    ASSUME NEW in \in Inputs
    PROVE  /\ in.flush \in BOOLEAN /\ in.cmdReady \in BOOLEAN
           /\ in.rsp \in BusId \cup {None}
           /\ in.cmdReady => UnifiedCmd # None
           /\ in.rsp # None => \/ owed[in.rsp] # None
                               \/ Inserting(in) /\ UnifiedCmd.id = in.rsp
  BY DEF Inputs

\* The next id is an id.
LEMMA NextIdType ==
    ASSUME TypeOK, NEW in
    PROVE  NextNextId(in) \in BusId
<1>1. CASE FreeIds(in) = {}
  BY <1>1 DEF NextNextId, TypeOK
<1>2. CASE FreeIds(in) # {}
  <2>1. FreeIds(in) \subseteq BusId /\ FreeIds(in) \in SUBSET Nat
    BY BackboneAssumption DEF FreeIds, BusId
  <2>2. (CHOOSE k \in FreeIds(in) : \A j \in FreeIds(in) : k <= j) \in FreeIds(in)
    BY <1>2, <2>1, LeastExists
  <2>3. QED BY <2>1, <2>2 DEF NextNextId, TypeOK
<1>3. QED BY <1>1, <1>2

\* A command on the bus that is a load has the next id, which is free.
LEMMA LoadHasNextId ==
    ASSUME BackboneInvariant, IsLoad(UnifiedCmd)
    PROVE  /\ UnifiedCmd.id = nextId /\ ~busId2StageIndex[nextId].cmdSent
           /\ owed[nextId] = None
           /\ nextId \in BusId
<1>1. nextId \in BusId
  BY DEF BackboneInvariant, TypeOK
<1>2. CASE cmdBuffer # None
  BY <1>1, <1>2 DEF UnifiedCmd, BackboneInvariant, IdsTracked
<1>3. CASE cmdBuffer = None
  <2>1. UnifiedCmd.stage \in Sendable /\ UnifiedCmd = LoadCmd(UnifiedCmd.stage)
    BY <1>3, UnifiedCmdType DEF BackboneInvariant
  <2>2. QED BY <1>1, <2>1 DEF Sendable, LoadCmd, BackboneInvariant, IdsTracked
<1>4. QED BY <1>2, <1>3

\* What the bus has for a stage is either accepted by the cache or the command on the
\* bus; a load that is picked for the bus was not sent before.
LEMMA ServingCases ==
    ASSUME BackboneInvariant, NEW i \in Stage
    PROVE  /\ serving[i] # None =>
                /\ serving[i] \in BusId /\ load[i] # None
                /\ ~busId2StageIndex[serving[i]].invalidated
                /\ \/ /\ busId2StageIndex[serving[i]].cmdSent
                      /\ busId2StageIndex[serving[i]].stageIndex = i
                      /\ owed[serving[i]] = load[i]
                   \/ /\ cmdBuffer # None /\ IsLoad(UnifiedCmd) /\ UnifiedCmd.stage = i
                      /\ serving[i] = nextId /\ UnifiedCmd.address = load[i]
           /\ Picked(i) => /\ serving[i] = None /\ load[i] # None
                           /\ UnifiedCmd.address = load[i]
<1>1. ASSUME serving[i] # None
      PROVE  /\ serving[i] \in BusId /\ load[i] # None
             /\ ~busId2StageIndex[serving[i]].invalidated
             /\ \/ /\ busId2StageIndex[serving[i]].cmdSent
                   /\ busId2StageIndex[serving[i]].stageIndex = i
                   /\ owed[serving[i]] = load[i]
                \/ /\ cmdBuffer # None /\ IsLoad(UnifiedCmd) /\ UnifiedCmd.stage = i
                   /\ serving[i] = nextId /\ UnifiedCmd.address = load[i]
  <2>1. serving[i] \in BusId /\ load[i] # None
    BY <1>1 DEF BackboneInvariant, TypeOK, ControllersAgree
  <2>2. Outstanding(i, serving[i])
    BY <2>1 DEF BackboneInvariant, SentLoadsTracked
  <2>3. CASE busId2StageIndex[serving[i]].cmdSent
    <3>1. owed[serving[i]] # None
      BY <2>1, <2>3 DEF BackboneInvariant, IdsTracked
    <3>2. owed[serving[i]] = load[i]
      BY <2>1, <3>1 DEF BackboneInvariant, SentLoadsTracked
    <3>3. ~(BufferedFor(i) /\ cmdBuffer.id = serving[i])
      BY <2>3 DEF BufferedFor, BackboneInvariant, IdsTracked
    <3>4. QED BY <2>1, <2>2, <2>3, <3>2, <3>3 DEF Outstanding
  <2>4. CASE ~busId2StageIndex[serving[i]].cmdSent
    <3>1. BufferedFor(i) /\ cmdBuffer.id = serving[i]
      BY <2>2, <2>4 DEF Outstanding
    <3>2. owed[serving[i]] = None
      BY <2>1, <2>4 DEF BackboneInvariant, IdsTracked
    <3>3. cmdBuffer.address = load[i]
      BY <2>1, <3>2 DEF BackboneInvariant, SentLoadsTracked
    <3>4. cmdBuffer # None /\ IsLoad(UnifiedCmd) /\ UnifiedCmd = cmdBuffer
      BY <3>1 DEF BufferedFor, IsLoad, UnifiedCmd
    <3>5. serving[i] = nextId
      BY <3>1 DEF BufferedFor, BackboneInvariant, IdsTracked
    <3>6. QED BY <2>1, <2>2, <3>1, <3>3, <3>4, <3>5 DEF Outstanding, BufferedFor
  <2>5. QED BY <2>3, <2>4
<1>2. ASSUME Picked(i)
      PROVE  serving[i] = None /\ load[i] # None /\ UnifiedCmd.address = load[i]
  <2>1. i \in Sendable /\ UnifiedCmd = LoadCmd(i)
    BY <1>2, UnifiedCmdType DEF Picked, BackboneInvariant
  <2>2. Asserts(i)
    BY <2>1 DEF Sendable
  <2>3. QED
    BY <2>1, <2>2 DEF Asserts, LoadCmd, BackboneInvariant, ControllersAgree
<1>3. QED BY <1>1, <1>2

\* A stage gets exactly the answers to the load it executes.
LEMMA AnswersRight ==
    ASSUME BackboneInvariant, NEW in \in Inputs, NEW i \in Stage
    PROVE  /\ Answers(in, i) <=> /\ ~in.flush /\ in.rsp # None
                                 /\ \/ serving[i] = in.rsp
                                    \/ Picked(i) /\ in.rsp = UnifiedCmd.id
           /\ Answers(in, i) => load[i] # None /\ AnsweredLine(in) = load[i]
           /\ Done(in, i) <=> Answers(in, i)
<1> DEFINE k == in.rsp
<1>1. ASSUME ~in.flush, k # None
      PROVE  /\ Answers(in, i) <=> \/ serving[i] = k
                                   \/ Picked(i) /\ k = UnifiedCmd.id
             /\ Answers(in, i) => load[i] # None /\ AnsweredLine(in) = load[i]
  <2>1. /\ k \in BusId
        /\ owed[k] # None \/ (Inserting(in) /\ UnifiedCmd.id = k)
    BY <1>1, InputsType
  <2>2. busId2StageIndex[k].cmdSent <=> owed[k] # None
    BY <2>1 DEF BackboneInvariant, IdsTracked
  <2>3. CASE busId2StageIndex[k].cmdSent /\ busId2StageIndex[k].stageIndex = i
    <3>1. Answers(in, i) <=> ~busId2StageIndex[k].invalidated
      BY <1>1, <2>3 DEF Answers
    <3>2. serving[i] = k <=> ~busId2StageIndex[k].invalidated
      BY <2>1, <2>3 DEF BackboneInvariant, SentLoadsTracked, Outstanding, IdsTracked,
                        BufferedFor
    <3>3. ~(Picked(i) /\ k = UnifiedCmd.id)
      BY <2>3, LoadHasNextId DEF Picked
    <3>4. serving[i] = k => load[i] # None /\ owed[k] = load[i]
      BY <2>1, <2>2, <2>3 DEF BackboneInvariant, SentLoadsTracked, ControllersAgree
    <3>5. AnsweredLine(in) = owed[k]
      BY <2>2, <2>3 DEF AnsweredLine
    <3>6. QED BY <3>1, <3>2, <3>3, <3>4, <3>5
  <2>4. CASE ~(busId2StageIndex[k].cmdSent /\ busId2StageIndex[k].stageIndex = i)
    <3>1. Answers(in, i) <=>
            /\ IsLoad(UnifiedCmd) /\ in.cmdReady /\ k = nextId /\ UnifiedCmd.stage = i
            /\ ~(cmdBuffer # None /\ busId2StageIndex[nextId].invalidated)
      BY <1>1, <2>4 DEF Answers, SameCycleReturn, Inserting
    <3>2. ASSUME Answers(in, i)
          PROVE  /\ serving[i] = k \/ (Picked(i) /\ k = UnifiedCmd.id)
                 /\ load[i] # None /\ AnsweredLine(in) = load[i]
      <4>1. /\ IsLoad(UnifiedCmd) /\ k = nextId /\ UnifiedCmd.stage = i
            /\ UnifiedCmd.id = nextId /\ owed[nextId] = None
        BY <3>1, <3>2, LoadHasNextId
      <4>2. AnsweredLine(in) = UnifiedCmd.address
        BY <4>1 DEF AnsweredLine
      <4>3. CASE cmdBuffer = None
        <5>1. Picked(i)
          BY <4>1, <4>3 DEF Picked
        <5>2. QED BY <4>1, <4>2, <5>1, ServingCases
      <4>4. CASE cmdBuffer # None
        <5>1. UnifiedCmd = cmdBuffer /\ ~busId2StageIndex[k].invalidated
          BY <3>1, <3>2, <4>1, <4>4 DEF UnifiedCmd
        <5>2. Outstanding(i, k)
          BY <4>1, <5>1 DEF Outstanding, BufferedFor
        <5>3. serving[i] = k
          BY <2>1, <5>2 DEF BackboneInvariant, SentLoadsTracked
        <5>4. load[i] # None /\ cmdBuffer.address = load[i]
          BY <1>1, <2>1, <4>1, <5>3
          DEF BackboneInvariant, SentLoadsTracked, ControllersAgree
        <5>5. QED BY <4>2, <5>1, <5>3, <5>4
      <4>5. QED BY <4>3, <4>4
    <3>3. ASSUME serving[i] = k
          PROVE  Answers(in, i)
      <4>1. ~busId2StageIndex[k].cmdSent
        BY <1>1, <2>4, <3>3, LoadHasNextId, ServingCases
      <4>2. Inserting(in) /\ UnifiedCmd.id = k
        BY <2>1, <2>2, <4>1
      <4>3. /\ ~busId2StageIndex[k].invalidated /\ k = nextId
            /\ IsLoad(UnifiedCmd) /\ UnifiedCmd.stage = i
        BY <1>1, <3>3, <4>1, ServingCases
      <4>4. QED BY <3>1, <4>2, <4>3 DEF Inserting
    <3>4. ASSUME Picked(i), k = UnifiedCmd.id
          PROVE  Answers(in, i)
      <4>1. IsLoad(UnifiedCmd) /\ UnifiedCmd.stage = i /\ cmdBuffer = None
        BY <3>4 DEF Picked
      <4>2. k = nextId /\ owed[k] = None
        BY <3>4, <4>1, LoadHasNextId
      <4>3. in.cmdReady
        BY <2>1, <4>2 DEF Inserting
      <4>4. QED BY <3>1, <4>1, <4>2, <4>3
    <3>5. QED BY <3>2, <3>3, <3>4
  <2>5. QED BY <2>3, <2>4
<1>2. Answers(in, i) => ~in.flush /\ k # None
  BY DEF Answers
<1>3. Done(in, i) <=> Answers(in, i)
  <2>1. Answers(in, i) => load[i] # None
    BY <1>1, <1>2
  <2>2. load[i] # None /\ currentCmd[i] # None => currentCmd[i].address = load[i]
    BY DEF BackboneInvariant, ControllersAgree
  <2>3. QED BY <2>1, <2>2 DEF Done
<1>4. QED BY <1>1, <1>2, <1>3

\* The step keeps the types.
LEMMA TypeStep ==
    ASSUME TypeOK, NEW in \in Inputs, Cycle(in)
    PROVE  TypeOK'
<1> USE DEF TypeOK
<1>1. load' \in [Stage -> Address \cup {None}]
  BY DEF Cycle
<1>2. store' \in Address \cup {None}
  BY DEF Cycle, NextStore
<1>3. currentCmd' \in [Stage -> CurrentCmd \cup {None}]
  <2> SUFFICES ASSUME NEW i \in Stage
               PROVE  NextCurrentCmd(in, i) \in CurrentCmd \cup {None}
    BY DEF Cycle
  <2>1. CASE load[i] = None \/ Answers(in, i)
    BY <2>1 DEF NextCurrentCmd
  <2>2. CASE ~(load[i] = None \/ Answers(in, i)) /\ currentCmd[i] = None
    BY <2>2, InputsType DEF NextCurrentCmd, CurrentCmd, CmdReady, Picked, IsLoad
  <2>3. CASE ~(load[i] = None \/ Answers(in, i)) /\ currentCmd[i] # None
    <3>1. currentCmd[i] \in CurrentCmd
      BY <2>3
    <3>2. CmdReady(in, i) \in BOOLEAN
      BY DEF CmdReady, Picked
    <3>3. QED BY <2>3, <3>1, <3>2 DEF NextCurrentCmd, CurrentCmd
  <2>4. QED BY <2>1, <2>2, <2>3
<1>4. nextId' \in BusId
  BY NextIdType DEF Cycle
<1>5. busId2StageIndex' \in [BusId -> IdMeta]
  <2> SUFFICES ASSUME NEW k \in BusId
               PROVE  NextIdMeta(in, k) \in IdMeta
    BY DEF Cycle
  <2>1. busId2StageIndex[k] \in IdMeta
    OBVIOUS
  <2>2. Inserting(in) => UnifiedCmd.stage \in Stage
    BY UnifiedCmdType DEF Inserting
  <2>3. SameCycleReturn(in) \in BOOLEAN /\ in.flush \in BOOLEAN
    BY InputsType DEF SameCycleReturn
  <2>4. QED BY <2>1, <2>2, <2>3 DEF NextIdMeta, IdMeta
<1>6. /\ cmdBuffer' \in MemBusCmd \cup {None}
      /\ cmdBuffer' # None => (cmdBuffer'.write <=> cmdBuffer'.stage = StoreStage)
  <2>1. cmdBuffer' = IF in.cmdReady THEN None ELSE UnifiedCmd
    BY DEF Cycle
  <2>2. QED BY <2>1, UnifiedCmdType
<1>7. owed' \in [BusId -> Address \cup {None}]
  <2> SUFFICES ASSUME NEW k \in BusId
               PROVE  NextOwed(in, k) \in Address \cup {None}
    BY DEF Cycle
  <2>1. Inserting(in) => UnifiedCmd.address \in Address
    BY UnifiedCmdType DEF Inserting, IsLoad, MemBusCmd
  <2>2. QED BY <2>1 DEF NextOwed
<1>8. serving' \in [Stage -> BusId \cup {None}]
  <2> SUFFICES ASSUME NEW i \in Stage
               PROVE  NextServing(in, i) \in BusId \cup {None}
    BY DEF Cycle
  <2>1. Picked(i) => UnifiedCmd.id \in BusId
    BY UnifiedCmdType DEF Picked, IsLoad, MemBusCmd
  <2>2. QED BY <2>1 DEF NextServing
<1>9. QED BY <1>1, <1>2, <1>3, <1>4, <1>5, <1>6, <1>7, <1>8

\* What happens to the entry of an id in a cycle.
LEMMA IdMetaStep ==
    ASSUME TypeOK, NEW in \in Inputs, Cycle(in), NEW k \in BusId
    PROVE  /\ k = nextId /\ Inserting(in) =>
                /\ busId2StageIndex'[k].stageIndex = UnifiedCmd.stage
                /\ busId2StageIndex'[k].cmdSent <=> in.rsp # k
           /\ ~(k = nextId /\ Inserting(in)) =>
                /\ busId2StageIndex'[k].stageIndex = busId2StageIndex[k].stageIndex
                /\ busId2StageIndex'[k].cmdSent <=>
                     (busId2StageIndex[k].cmdSent /\ in.rsp # k)
           /\ k = nextId /\ cmdBuffer = None /\ IsLoad(UnifiedCmd) =>
                (busId2StageIndex'[k].invalidated <=> in.flush)
           /\ ~(k = nextId /\ cmdBuffer = None /\ IsLoad(UnifiedCmd)) =>
                (busId2StageIndex'[k].invalidated <=>
                   (busId2StageIndex[k].invalidated \/ in.flush))
<1> DEFINE meta == busId2StageIndex[k]
           inserted == k = nextId /\ Inserting(in)
           picked == k = nextId /\ cmdBuffer = None /\ IsLoad(UnifiedCmd)
           sent == IF inserted THEN ~SameCycleReturn(in) ELSE meta.cmdSent /\ in.rsp # k
           flushed == IF picked THEN in.flush ELSE meta.invalidated \/ in.flush
<1>1. busId2StageIndex'[k] =
        [stageIndex |-> IF inserted THEN UnifiedCmd.stage ELSE meta.stageIndex,
         cmdSent |-> sent, invalidated |-> flushed]
  BY DEF Cycle, NextIdMeta
<1>2. inserted => (SameCycleReturn(in) <=> in.rsp = k)
  BY DEF SameCycleReturn
<1>3. /\ busId2StageIndex'[k].stageIndex =
           IF inserted THEN UnifiedCmd.stage ELSE meta.stageIndex
      /\ busId2StageIndex'[k].cmdSent = sent
      /\ busId2StageIndex'[k].invalidated = flushed
  <2> HIDE DEF inserted, sent, flushed
  <2>1. QED BY <1>1
<1>4. inserted => (sent <=> in.rsp # k)
  BY <1>2
<1>5. ~inserted => (sent <=> (meta.cmdSent /\ in.rsp # k))
  OBVIOUS
<1>6. /\ picked => (flushed <=> in.flush)
      /\ ~picked => (flushed <=> (meta.invalidated \/ in.flush))
  OBVIOUS
<1> HIDE DEF sent, flushed
<1>7. QED BY <1>3, <1>4, <1>5, <1>6

\* The step keeps busId2StageIndex in agreement with what the cache owes.
LEMMA IdsStep ==
    ASSUME BackboneInvariant, NEW in \in Inputs, Cycle(in)
    PROVE  IdsTracked'
<1> USE DEF BackboneInvariant
<1>1. \A k \in BusId : busId2StageIndex'[k].cmdSent <=> owed'[k] # None
  <2> TAKE k \in BusId
  <2>1. /\ busId2StageIndex'[k] = NextIdMeta(in, k)
        /\ owed'[k] = NextOwed(in, k)
    BY DEF Cycle
  <2>2. busId2StageIndex[k].cmdSent <=> owed[k] # None
    BY DEF IdsTracked
  <2>3. CASE k = nextId /\ Inserting(in)
    <3>1. IsLoad(UnifiedCmd) /\ UnifiedCmd.id = k
      BY <2>3, LoadHasNextId DEF Inserting
    <3>2. UnifiedCmd.address # None
      BY <3>1, UnifiedCmdType, BackboneAssumption DEF IsLoad, MemBusCmd
    <3>3. owed'[k] = IF in.rsp = k THEN None ELSE UnifiedCmd.address
      BY <2>1, <2>3, <3>1 DEF NextOwed
    <3>4. busId2StageIndex'[k].cmdSent <=> in.rsp # k
      BY <2>3, IdMetaStep
    <3>5. QED BY <3>2, <3>3, <3>4
  <2>4. CASE ~(k = nextId /\ Inserting(in))
    <3>1. ~(Inserting(in) /\ UnifiedCmd.id = k)
      BY <2>4, LoadHasNextId DEF Inserting
    <3>2. owed'[k] = IF in.rsp = k THEN None ELSE owed[k]
      BY <2>1, <3>1 DEF NextOwed
    <3>3. busId2StageIndex'[k].cmdSent <=> (busId2StageIndex[k].cmdSent /\ in.rsp # k)
      BY <2>4, IdMetaStep
    <3>4. QED BY <2>2, <3>2, <3>3
  <2>5. QED BY <2>3, <2>4
<1>2. ASSUME IsLoad(cmdBuffer)'
      PROVE  cmdBuffer'.id = nextId' /\ ~busId2StageIndex'[nextId'].cmdSent
  <2>1. ~in.cmdReady /\ IsLoad(UnifiedCmd) /\ cmdBuffer' = UnifiedCmd
    BY <1>2 DEF Cycle, IsLoad
  <2>2. /\ UnifiedCmd.id = nextId /\ ~busId2StageIndex[nextId].cmdSent
        /\ nextId \in BusId /\ ~Inserting(in)
    BY <2>1, LoadHasNextId DEF Inserting
  <2>3. nextId' = nextId
    BY <2>2 DEF Cycle, NextNextId
  <2>4. ~busId2StageIndex'[nextId].cmdSent
    BY <2>2, IdMetaStep
  <2>5. QED BY <2>1, <2>2, <2>3, <2>4
<1>3. QED BY <1>1, <1>2 DEF IdsTracked

\* What happens to a stage's load, its controller and its history in a cycle.
LEMMA StageStep ==
    ASSUME BackboneInvariant, NEW in \in Inputs, Cycle(in), NEW i \in Stage
    PROVE  /\ in.flush \/ load[i] = None \/ Answers(in, i) =>
                /\ serving'[i] = None
                /\ load'[i] # None => currentCmd'[i] = None
           /\ ~in.flush /\ load[i] # None /\ ~Answers(in, i) =>
                /\ load'[i] = load[i]
                /\ serving'[i] = IF Picked(i) THEN nextId ELSE serving[i]
                /\ currentCmd'[i] # None
                /\ currentCmd'[i].address = load[i]
                /\ currentCmd'[i].ready <=> serving'[i] # None
<1> USE DEF BackboneInvariant
<1>1. /\ load'[i] \in NextLoad(in, i)
      /\ currentCmd'[i] = NextCurrentCmd(in, i)
      /\ serving'[i] = NextServing(in, i)
  BY DEF Cycle
<1>2. /\ Done(in, i) <=> Answers(in, i)
      /\ Answers(in, i) => ~in.flush /\ load[i] # None
  BY AnswersRight
<1>3. /\ Picked(i) => /\ serving[i] = None /\ load[i] # None /\ UnifiedCmd.id = nextId
                      /\ nextId # None
      /\ load[i] = None => serving[i] = None
  BY LoadHasNextId, ServingCases, BackboneAssumption DEF Picked, ControllersAgree
<1>4. CASE in.flush \/ load[i] = None \/ Answers(in, i)
  <2>1. serving'[i] = None
    BY <1>1, <1>2, <1>3, <1>4 DEF NextServing
  <2>2. in.flush => load'[i] = None
    BY <1>1 DEF NextLoad
  <2>3. load[i] = None \/ Answers(in, i) => currentCmd'[i] = None
    BY <1>1 DEF NextCurrentCmd
  <2>4. QED BY <1>4, <2>1, <2>2, <2>3
<1>5. CASE ~in.flush /\ load[i] # None /\ ~Answers(in, i)
  <2>1. load'[i] = load[i]
    BY <1>1, <1>2, <1>5 DEF NextLoad
  <2>2. serving'[i] = IF Picked(i) THEN nextId ELSE serving[i]
    BY <1>1, <1>2, <1>3, <1>5 DEF NextServing
  <2>3. CmdReady(in, i) <=> Picked(i)
    BY <1>5 DEF CmdReady
  <2>4. /\ currentCmd'[i] # None
        /\ currentCmd'[i].address = load[i]
        /\ currentCmd'[i].ready <=> serving'[i] # None
    <3>1. CASE currentCmd[i] = None
      <4>1. currentCmd'[i] = [ready |-> CmdReady(in, i), address |-> load[i]]
        BY <1>1, <1>5, <3>1 DEF NextCurrentCmd
      <4>2. load[i] \in Address /\ CmdReady(in, i) \in BOOLEAN
        BY <1>5 DEF TypeOK, CmdReady, Picked
      <4>3. currentCmd'[i] \in CurrentCmd
        BY <4>1, <4>2 DEF CurrentCmd
      <4>4. serving[i] = None
        BY <1>5, <3>1 DEF ControllersAgree
      <4>5. QED BY <1>3, <2>2, <2>3, <4>1, <4>3, <4>4, BackboneAssumption
    <3>2. CASE currentCmd[i] # None
      <4>1. currentCmd'[i] = [currentCmd[i] EXCEPT !.ready = @ \/ CmdReady(in, i)]
        BY <1>1, <1>5, <3>2 DEF NextCurrentCmd
      <4>2. /\ currentCmd[i] \in CurrentCmd
            /\ CmdReady(in, i) \in BOOLEAN
        BY <3>2 DEF TypeOK, CmdReady, Picked
      <4>3. /\ currentCmd'[i] \in CurrentCmd
            /\ currentCmd'[i].address = currentCmd[i].address
            /\ currentCmd'[i].ready = (currentCmd[i].ready \/ CmdReady(in, i))
        BY <4>1, <4>2 DEF CurrentCmd
      <4>4. /\ currentCmd[i].address = load[i]
            /\ currentCmd[i].ready <=> serving[i] # None
        BY <1>5, <3>2 DEF ControllersAgree
      <4>5. QED BY <1>3, <2>2, <2>3, <4>3, <4>4, BackboneAssumption
    <3>3. QED BY <3>1, <3>2
  <2>5. QED BY <1>5, <2>1, <2>2, <2>4
<1>6. QED BY <1>4, <1>5

\* The step keeps the stages' bus controllers in agreement with what was sent.
LEMMA ControllersStep ==
    ASSUME BackboneInvariant, NEW in \in Inputs, Cycle(in)
    PROVE  ControllersAgree'
<1> SUFFICES ASSUME NEW i \in Stage
             PROVE  /\ load'[i] = None => serving'[i] = None
                    /\ load'[i] # None /\ currentCmd'[i] = None => serving'[i] = None
                    /\ load'[i] # None /\ currentCmd'[i] # None =>
                          /\ currentCmd'[i].address = load'[i]
                          /\ currentCmd'[i].ready <=> serving'[i] # None
  BY DEF ControllersAgree
<1>1. CASE in.flush \/ load[i] = None \/ Answers(in, i)
  BY <1>1, StageStep
<1>2. CASE ~(in.flush \/ load[i] = None \/ Answers(in, i))
  BY <1>2, StageStep
<1>3. QED BY <1>1, <1>2

\* The step keeps what the bus has for a stage in agreement with what the stage was
\* sent.
LEMMA SentLoadsStep ==
    ASSUME BackboneInvariant, NEW in \in Inputs, Cycle(in)
    PROVE  SentLoadsTracked'
<1> USE DEF BackboneInvariant
<1> DEFINE c == UnifiedCmd
<1> SUFFICES ASSUME NEW i \in Stage, NEW k \in BusId
             PROVE  /\ serving'[i] = k <=> Outstanding(i, k)'
                    /\ serving'[i] = k /\ owed'[k] # None => owed'[k] = load'[i]
                    /\ serving'[i] = k /\ owed'[k] = None => cmdBuffer'.address = load'[i]
  BY DEF SentLoadsTracked
<1>1. k # None /\ in.flush \in BOOLEAN /\ in.cmdReady \in BOOLEAN
  BY BackboneAssumption, InputsType
<1>2. cmdBuffer' = IF in.cmdReady THEN None ELSE c
  BY DEF Cycle
<1>3. Outstanding(i, k)' <=>
        /\ ~busId2StageIndex'[k].invalidated
        /\ \/ busId2StageIndex'[k].cmdSent /\ busId2StageIndex'[k].stageIndex = i
           \/ /\ ~in.cmdReady /\ IsLoad(c) /\ c.stage = i /\ k = nextId
  <2>1. BufferedFor(i)' <=> ~in.cmdReady /\ IsLoad(c) /\ c.stage = i
    BY <1>2 DEF BufferedFor, IsLoad
  <2>2. ~in.cmdReady /\ IsLoad(c) => cmdBuffer'.id = nextId
    BY <1>2, LoadHasNextId
  <2>3. QED BY <2>1, <2>2 DEF Outstanding
<1>4. CASE in.flush
  <2>1. serving'[i] = None
    BY <1>4, StageStep
  <2>2. busId2StageIndex'[k].invalidated
    BY <1>4, IdMetaStep
  <2>3. QED BY <1>1, <1>3, <2>1, <2>2
<1>5. CASE ~in.flush
  <2>1. /\ serving'[i] = k <=>
             in.rsp # k /\ ((Picked(i) /\ k = nextId) \/ serving[i] = k)
        /\ serving'[i] = k => load'[i] = load[i]
    <3>1. Picked(i) => serving[i] = None /\ load[i] # None /\ UnifiedCmd.id = nextId
      BY LoadHasNextId, ServingCases DEF Picked
    <3>2. load[i] = None => serving[i] = None
      BY DEF ControllersAgree
    <3>3. Answers(in, i) <=>
            in.rsp # None /\ (serving[i] = in.rsp \/ (Picked(i) /\ in.rsp = nextId))
      BY <1>5, <3>1, AnswersRight
    <3>4. CASE load[i] = None \/ Answers(in, i)
      BY <1>1, <3>1, <3>2, <3>3, <3>4, StageStep
    <3>5. CASE load[i] # None /\ ~Answers(in, i)
      BY <1>1, <1>5, <3>1, <3>3, <3>5, StageStep
    <3>6. QED BY <3>4, <3>5
  <2>2. CASE k = nextId /\ IsLoad(c)
    <3>1. /\ c.id = k /\ ~busId2StageIndex[k].cmdSent /\ owed[k] = None
          /\ c.address \in Address /\ c.address # None
      BY <2>2, LoadHasNextId, UnifiedCmdType, BackboneAssumption DEF IsLoad, MemBusCmd
    <3>2. Inserting(in) <=> in.cmdReady
      BY <2>2 DEF Inserting
    <3>3. ~in.cmdReady => in.rsp # k
      BY <1>1, <3>1, <3>2, InputsType
    <3>4. (Picked(i) \/ serving[i] = k) <=>
            c.stage = i /\ ~(cmdBuffer # None /\ busId2StageIndex[k].invalidated)
      <4>1. CASE cmdBuffer = None
        <5>1. ~Outstanding(i, k)
          BY <3>1, <4>1 DEF Outstanding, BufferedFor, IsLoad
        <5>2. serving[i] # k
          BY <5>1 DEF SentLoadsTracked
        <5>3. QED BY <2>2, <4>1, <5>2 DEF Picked
      <4>2. CASE cmdBuffer # None
        <5>1. c = cmdBuffer
          BY <4>2 DEF UnifiedCmd
        <5>2. Outstanding(i, k) <=> c.stage = i /\ ~busId2StageIndex[k].invalidated
          BY <2>2, <3>1, <5>1 DEF Outstanding, BufferedFor
        <5>3. serving[i] = k <=> Outstanding(i, k)
          BY DEF SentLoadsTracked
        <5>4. QED BY <4>2, <5>2, <5>3 DEF Picked
      <4>3. QED BY <4>1, <4>2
    <3>5. busId2StageIndex'[k].invalidated <=>
            cmdBuffer # None /\ busId2StageIndex[k].invalidated
      BY <1>5, <2>2, IdMetaStep
    <3>6. /\ in.cmdReady => /\ busId2StageIndex'[k].cmdSent <=> in.rsp # k
                            /\ busId2StageIndex'[k].stageIndex = c.stage
          /\ ~in.cmdReady => ~busId2StageIndex'[k].cmdSent
      BY <2>2, <3>1, <3>2, IdMetaStep
    <3>7. serving'[i] = k <=> Outstanding(i, k)'
      BY <1>3, <2>1, <2>2, <3>3, <3>4, <3>5, <3>6
    <3>8. serving'[i] = k => c.address = load'[i] /\ in.rsp # k
      <4>1. Picked(i) => c.address = load[i]
        BY ServingCases
      <4>2. serving[i] = k => c.address = load[i]
        BY <1>1, <3>1, ServingCases
      <4>3. QED BY <2>1, <4>1, <4>2
    <3>9. in.rsp # k => owed'[k] = IF in.cmdReady THEN c.address ELSE None
      <4>1. owed'[k] = NextOwed(in, k)
        BY DEF Cycle
      <4>2. QED BY <3>1, <3>2, <4>1 DEF NextOwed
    <3>10. QED BY <1>2, <3>1, <3>7, <3>8, <3>9
  <2>3. CASE ~(k = nextId /\ IsLoad(c))
    <3>1. /\ ~(k = nextId /\ Inserting(in))
          /\ ~(k = nextId /\ cmdBuffer = None /\ IsLoad(c))
          /\ ~(Picked(i) /\ k = nextId)
      BY <2>3 DEF Inserting, Picked
    <3>2. ~(BufferedFor(i) /\ cmdBuffer.id = k)
      BY <2>3 DEF BufferedFor, IdsTracked, IsLoad, UnifiedCmd
    <3>3. serving[i] = k <=>
            /\ ~busId2StageIndex[k].invalidated
            /\ busId2StageIndex[k].cmdSent /\ busId2StageIndex[k].stageIndex = i
      BY <3>2 DEF SentLoadsTracked, Outstanding
    <3>4. serving'[i] = k <=> Outstanding(i, k)'
      BY <1>3, <1>5, <2>1, <2>3, <3>1, <3>3, IdMetaStep
    <3>5. serving'[i] = k => serving[i] = k /\ in.rsp # k /\ load'[i] = load[i]
      BY <2>1, <3>1
    <3>6. serving[i] = k => owed[k] = load[i] /\ load[i] # None
      BY <1>1, <2>3, ServingCases
    <3>7. in.rsp # k => owed'[k] = owed[k]
      <4>1. ~(Inserting(in) /\ UnifiedCmd.id = k)
        BY <2>3, LoadHasNextId DEF Inserting
      <4>2. QED BY <4>1 DEF Cycle, NextOwed
    <3>8. QED BY <3>4, <3>5, <3>6, <3>7
  <2>4. QED BY <2>2, <2>3
<1>6. QED BY <1>1, <1>4, <1>5

----------------------------------------------------------------------------

\* The registers of the stages' controllers and of the backbone always describe the
\* same outstanding loads (DynamicMemoryBackbone.scala 42-223).
THEOREM BackboneInvariantHolds == Spec => []BackboneInvariant
<1>1. Init => BackboneInvariant
  <2> SUFFICES ASSUME Init
               PROVE  BackboneInvariant
    OBVIOUS
  <2>1. TypeOK
    BY BackboneAssumption
    DEF Init, TypeOK, IdMeta, Stage, BusId
  <2>2. IdsTracked /\ ControllersAgree
    BY DEF Init, IdsTracked, ControllersAgree, IsLoad
  <2>3. SentLoadsTracked
    BY BackboneAssumption
    DEF Init, SentLoadsTracked, Outstanding, BufferedFor, IsLoad
  <2>4. QED BY <2>1, <2>2, <2>3 DEF BackboneInvariant
<1>2. BackboneInvariant /\ [Next]_vars => BackboneInvariant'
  <2> SUFFICES ASSUME BackboneInvariant, [Next]_vars
               PROVE  BackboneInvariant'
    OBVIOUS
  <2>1. CASE Next
    <3>1. PICK in \in Inputs : Cycle(in)
      BY <2>1 DEF Next
    <3>2. TypeOK'
      BY <3>1, TypeStep DEF BackboneInvariant
    <3>3. QED
      BY <3>1, <3>2, IdsStep, ControllersStep, SentLoadsStep DEF BackboneInvariant
  <2>2. CASE UNCHANGED vars
    BY <2>2 DEF vars, BackboneInvariant, TypeOK, IdsTracked, ControllersAgree,
                SentLoadsTracked, Outstanding, BufferedFor, IsLoad
  <2>3. QED BY <2>1, <2>2
<1>3. QED BY <1>1, <1>2, PTL DEF Spec

\* Every load stage gets the answer to its own load and no other.
THEOREM LoadsGetTheirAnswers == Spec => []AnswersOwnLoad
<1>1. BackboneInvariant => AnswersOwnLoad
  BY AnswersRight DEF AnswersOwnLoad
<1>2. QED BY <1>1, BackboneInvariantHolds, PTL

\* The cache is never sent a load under an id that it still owes an answer for.
THEOREM IdsInFlightAreUnique == Spec => []IdsAreFree
<1>1. BackboneInvariant => IdsAreFree
  BY LoadHasNextId DEF IdsAreFree
<1>2. QED BY <1>1, BackboneInvariantHolds, PTL

\* A load asks for the bus until it is put on it, once, and is then outstanding.
THEOREM LoadsAreSentOnce == Spec => []LoadsSentOnce
<1>1. ASSUME BackboneInvariant
      PROVE  LoadsSentOnce
  <2> SUFFICES ASSUME NEW i \in Stage, load[i] # None
               PROVE  /\ Asserts(i) <=> serving[i] = None
                      /\ serving[i] # None =>
                            \/ owed[serving[i]] = load[i]
                            \/ /\ BufferedFor(i) /\ cmdBuffer.id = serving[i]
                               /\ cmdBuffer.address = load[i]
    BY DEF LoadsSentOnce
  <2>1. Asserts(i) <=> serving[i] = None
    BY <1>1 DEF Asserts, BackboneInvariant, ControllersAgree
  <2>2. ASSUME serving[i] # None, owed[serving[i]] # load[i]
        PROVE  /\ BufferedFor(i) /\ cmdBuffer.id = serving[i]
               /\ cmdBuffer.address = load[i]
    <3>1. serving[i] \in BusId
      BY <1>1, <2>2 DEF BackboneInvariant, TypeOK
    <3>2. owed[serving[i]] = None
      BY <1>1, <2>2, <3>1 DEF BackboneInvariant, SentLoadsTracked
    <3>3. ~busId2StageIndex[serving[i]].cmdSent /\ Outstanding(i, serving[i])
      BY <1>1, <3>1, <3>2 DEF BackboneInvariant, IdsTracked, SentLoadsTracked
    <3>4. QED
      BY <1>1, <3>1, <3>2, <3>3 DEF Outstanding, BackboneInvariant, SentLoadsTracked
  <2>3. QED BY <2>1, <2>2
<1>2. BackboneInvariant => LoadsSentOnce
  BY <1>1
<1>3. QED BY <1>2, BackboneInvariantHolds, PTL
=============================================================================
