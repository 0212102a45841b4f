------------------------ MODULE DynamicMemoryBackbone ------------------------
(***************************************************************************)
(* The data bus of the out-of-order pipeline: the load stages and the      *)
(* store stage with their bus controllers (LoadManager, Lsu, MemBusControl *)
(* of MemBus.scala), and plugins/memory/DynamicMemoryBackbone.scala, which *)
(* merges their buses into the one that the cache serves, remembers which  *)
(* stage each bus id was given to, and drops the answers to loads that the *)
(* pipeline has flushed.                                                   *)
(*                                                                         *)
(* One step is a clock cycle; the operators that take `in' are its wires.  *)
(* in.flush: activeFlush; in.cmdReady, in.rsp: the ready and the response  *)
(* id (or None) that the cache puts on the bus.                            *)
(***************************************************************************)
EXTENDS Integers

CONSTANTS
    NStages, \* load stages (parallelLoads)
    NIds,    \* ids of the internal bus
    Address, \* the lines that instructions access
    None     \* no load, store, command or response

Stage == 0 .. NStages - 1
StoreStage == NStages
BusId == 0 .. NIds - 1

VARIABLES
    load,       \* load[stage]: the load that a load manager executes, or None
    currentCmd, \* currentCmd[stage]: its bus controller's command, or None
    store,      \* the store in the retirement stage that is not done, or None
    nextId,     \* the id for the next load
    busId2StageIndex, \* busId2StageIndex[id]
    cmdBuffer,  \* the command on the bus that is not acknowledged yet, or None
    owed,       \* owed[id]: the line that the cache owes an answer for, or None
    serving     \* history: serving[stage]: the id that its load was given, or None

vars == <<load, currentCmd, store, nextId, busId2StageIndex, cmdBuffer, owed, serving>>

CurrentCmd == [ready : BOOLEAN, address : Address]
IdMeta == [stageIndex : Stage, cmdSent : BOOLEAN, invalidated : BOOLEAN]
MemBusCmd == [write : BOOLEAN, stage : 0 .. NStages, address : Address, id : BusId]

ASSUME BackboneAssumption ==
    /\ NStages \in Nat \ {0}
    /\ NIds \in Nat \ {0}
    /\ None \notin Address /\ None \notin Stage \cup BusId
    /\ None \notin CurrentCmd /\ None \notin MemBusCmd

TypeOK ==
    /\ load \in [Stage -> Address \cup {None}]
    /\ currentCmd \in [Stage -> CurrentCmd \cup {None}]
    /\ store \in Address \cup {None}
    /\ nextId \in BusId
    /\ busId2StageIndex \in [BusId -> IdMeta]
    /\ cmdBuffer \in MemBusCmd \cup {None}
    /\ cmdBuffer # None => (cmdBuffer.write <=> cmdBuffer.stage = StoreStage)
    /\ owed \in [BusId -> Address \cup {None}]
    /\ serving \in [Stage -> BusId \cup {None}]

\* cmdBuffer is not reset by the code; simulator and FPGA start it at zero.
Init ==
    /\ load = [i \in Stage |-> None]
    /\ currentCmd = [i \in Stage |-> None]
    /\ store = None
    /\ nextId = 0
    /\ busId2StageIndex =
         [k \in BusId |-> [stageIndex |-> 0, cmdSent |-> FALSE, invalidated |-> FALSE]]
    /\ cmdBuffer = None
    /\ owed = [k \in BusId |-> None]
    /\ serving = [i \in Stage |-> None]

----------------------------------------------------------------------------
(* The command on the bus.                                                 *)

\* The stage's bus controller asserts cmd.valid: it issues its load's command now, or
\* did before and has seen no ready yet.
Asserts(i) == load[i] # None /\ (currentCmd[i] # None => ~currentCmd[i].ready)

LoadCmd(i) ==
    [write |-> FALSE, stage |-> i, id |-> nextId,
     address |-> IF currentCmd[i] = None THEN load[i] ELSE currentCmd[i].address]

StoreCmd == [write |-> TRUE, stage |-> StoreStage, id |-> nextId, address |-> store]

\* Mutant of Sendable: loads are sent when the next id is in use, too.
SendableUnderAnyId == {i \in Stage : Asserts(i)}

\* Loads are only sent when the next id is not in use.
Sendable == {i \in Stage : Asserts(i) /\ ~busId2StageIndex[nextId].cmdSent}

\* unifiedInternalDBus.cmd: the buffered command, else the first load, else the store.
UnifiedCmd ==
    IF cmdBuffer # None THEN cmdBuffer
    ELSE IF Sendable # {} THEN LoadCmd(CHOOSE i \in Sendable : \A j \in Sendable : i <= j)
    ELSE IF store # None THEN StoreCmd
    ELSE None

IsLoad(cmd) == cmd # None /\ ~cmd.write

\* A stage's load is picked for the bus in this cycle.
Picked(i) == cmdBuffer = None /\ IsLoad(UnifiedCmd) /\ UnifiedCmd.stage = i

----------------------------------------------------------------------------
(* The wires of a cycle.                                                   *)

\* currentlyInserting
Inserting(in) == IsLoad(UnifiedCmd) /\ in.cmdReady

SameCycleReturn(in) == Inserting(in) /\ in.rsp = nextId

\* Mutant of Answers: an answer in the cycle of its command ignores the flush mark
\* that the buffered command has.
AnswersFlushedBuffer(in, i) ==
    /\ ~in.flush /\ in.rsp # None
    /\ IF busId2StageIndex[in.rsp].cmdSent /\ busId2StageIndex[in.rsp].stageIndex = i
       THEN ~busId2StageIndex[in.rsp].invalidated
       ELSE SameCycleReturn(in) /\ UnifiedCmd.stage = i

\* Mutant of Answers: only loads that were sent in an earlier cycle are answered.
AnswersSentBefore(in, i) ==
    /\ ~in.flush /\ in.rsp # None
    /\ busId2StageIndex[in.rsp].cmdSent /\ busId2StageIndex[in.rsp].stageIndex = i
    /\ ~busId2StageIndex[in.rsp].invalidated

\* rsp.valid of the stage's bus
Answers(in, i) ==
    /\ ~in.flush /\ in.rsp # None
    /\ IF busId2StageIndex[in.rsp].cmdSent /\ busId2StageIndex[in.rsp].stageIndex = i
       THEN ~busId2StageIndex[in.rsp].invalidated
       ELSE /\ SameCycleReturn(in) /\ UnifiedCmd.stage = i
            /\ ~(cmdBuffer # None /\ busId2StageIndex[nextId].invalidated)

\* Mutant of CmdReady: moving the command to the buffer does not tell the stage.
CmdReadyWhenSent(in, i) == ~in.flush /\ in.cmdReady /\ Picked(i)

\* cmd.ready of the stage's bus: its command was sent or moved to the buffer.
CmdReady(in, i) == ~in.flush /\ Picked(i)

\* The stage's load is done; an answer for another line would be dropped (dropRsp).
Done(in, i) ==
    load[i] # None /\ Answers(in, i)
      /\ (currentCmd[i] # None => currentCmd[i].address = load[i])

StoreAccepted(in) == in.cmdReady /\ UnifiedCmd # None /\ UnifiedCmd.write

----------------------------------------------------------------------------
(* The registers' next values.                                             *)

\* What a stage executes next: a stage that gets free may be given anything, or nothing.
NextLoad(in, i) ==
    IF in.flush THEN {None}
    ELSE IF load[i] # None /\ ~Done(in, i) THEN {load[i]}
    ELSE Address \cup {None}

NextStore(in) ==
    IF store # None /\ ~StoreAccepted(in) THEN {store} ELSE Address \cup {None}

\* invalidate(), read() or an answer
NextCurrentCmd(in, i) ==
    IF load[i] = None \/ Answers(in, i) THEN None
    ELSE IF currentCmd[i] = None THEN [ready |-> CmdReady(in, i), address |-> load[i]]
    ELSE [currentCmd[i] EXCEPT !.ready = @ \/ CmdReady(in, i)]

\* Mutant of NextIdMeta: the id of a flushed load is not freed by its answer.
NextIdMetaLeaking(in, k) ==
    LET meta == busId2StageIndex[k]
        inserted == k = nextId /\ Inserting(in)
    IN  [stageIndex  |-> IF inserted THEN UnifiedCmd.stage ELSE meta.stageIndex,
         cmdSent     |-> IF inserted THEN ~SameCycleReturn(in)
                         ELSE meta.cmdSent /\ (in.rsp # k \/ meta.invalidated),
         invalidated |-> IF k = nextId /\ cmdBuffer = None /\ IsLoad(UnifiedCmd)
                         THEN in.flush ELSE meta.invalidated \/ in.flush]

\* Mutant of NextIdMeta: a flush does not reach the loads already sent.
NextIdMetaUnflushed(in, k) ==
    LET meta == busId2StageIndex[k]
        inserted == k = nextId /\ Inserting(in)
    IN  [stageIndex  |-> IF inserted THEN UnifiedCmd.stage ELSE meta.stageIndex,
         cmdSent     |-> IF inserted THEN ~SameCycleReturn(in)
                         ELSE meta.cmdSent /\ in.rsp # k,
         invalidated |-> IF k = nextId /\ cmdBuffer = None /\ IsLoad(UnifiedCmd)
                         THEN in.flush ELSE meta.invalidated]

NextIdMeta(in, k) ==
    LET meta == busId2StageIndex[k]
        inserted == k = nextId /\ Inserting(in)
    IN  [stageIndex  |-> IF inserted THEN UnifiedCmd.stage ELSE meta.stageIndex,
         cmdSent     |-> IF inserted THEN ~SameCycleReturn(in)
                         ELSE meta.cmdSent /\ in.rsp # k,
         invalidated |-> IF k = nextId /\ cmdBuffer = None /\ IsLoad(UnifiedCmd)
                         THEN in.flush ELSE meta.invalidated \/ in.flush]

\* The ids that are free, the one that is being given out left aside.
FreeIds(in) ==
    {k \in BusId : ~busId2StageIndex[k].cmdSent
                   /\ ~(k = nextId /\ Inserting(in) /\ ~SameCycleReturn(in))}

NextNextId(in) ==
    IF /\ (Inserting(in) /\ ~SameCycleReturn(in)) \/ busId2StageIndex[nextId].cmdSent
       /\ FreeIds(in) # {}
    THEN CHOOSE k \in FreeIds(in) : \A j \in FreeIds(in) : k <= j
    ELSE nextId

NextOwed(in, k) ==
    IF in.rsp = k THEN None
    ELSE IF Inserting(in) /\ UnifiedCmd.id = k THEN UnifiedCmd.address
    ELSE owed[k]

NextServing(in, i) ==
    IF in.flush \/ Done(in, i) THEN None
    ELSE IF Picked(i) THEN UnifiedCmd.id
    ELSE serving[i]

Cycle(in) ==
    /\ load' \in {new \in [Stage -> Address \cup {None}] :
                    \A i \in Stage : new[i] \in NextLoad(in, i)}
    /\ store' \in NextStore(in)
    /\ currentCmd' = [i \in Stage |-> NextCurrentCmd(in, i)]
    /\ nextId' = NextNextId(in)
    /\ busId2StageIndex' = [k \in BusId |-> NextIdMeta(in, k)]
    /\ cmdBuffer' = IF in.cmdReady THEN None ELSE UnifiedCmd
    /\ owed' = [k \in BusId |-> NextOwed(in, k)]
    /\ serving' = [i \in Stage |-> NextServing(in, i)]

\* The cache may answer any load it has accepted, in the cycle it accepts it too.
Inputs ==
    {in \in [flush : BOOLEAN, cmdReady : BOOLEAN, rsp : BusId \cup {None}] :
        /\ in.cmdReady => UnifiedCmd # None
        /\ in.rsp # None => \/ owed[in.rsp] # None
                            \/ Inserting(in) /\ UnifiedCmd.id = in.rsp}

Next == \E in \in Inputs : Cycle(in)

Spec == Init /\ [][Next]_vars

\* The cache accepts the command that is on the bus, and answers what it accepted.
FairSpec ==
    /\ Spec
    /\ WF_vars(Next)
    /\ WF_vars(\E in \in Inputs : in.cmdReady /\ Cycle(in))
    /\ \A k \in BusId : WF_vars(\E in \in Inputs : in.rsp = k /\ Cycle(in))

----------------------------------------------------------------------------
(* Properties.                                                             *)

\* The line whose answer is on the bus.
AnsweredLine(in) == IF owed[in.rsp] # None THEN owed[in.rsp] ELSE UnifiedCmd.address

\* A load stage gets a response if and only if it is the one to the load that it is
\* executing: not that to a load flushed before it, nor one of another stage's
\* (busId2StageIndex and its invalidated bits).
AnswersOwnLoad ==
    \A in \in Inputs, i \in Stage :
        /\ Answers(in, i) => load[i] # None /\ AnsweredLine(in) = load[i]
        /\ Answers(in, i) <=> /\ ~in.flush /\ in.rsp # None
                              /\ \/ serving[i] = in.rsp
                                 \/ Picked(i) /\ in.rsp = UnifiedCmd.id

\* A load is never sent under an id that the cache still owes an answer for, also
\* when that answer will be dropped because its load was flushed: the assumption that
\* the cache's model makes of its internal bus.
IdsAreFree == IsLoad(UnifiedCmd) => owed[UnifiedCmd.id] = None

\* The command is the buffered one of the load of stage i.
BufferedFor(i) == IsLoad(cmdBuffer) /\ cmdBuffer.stage = i

\* A load asks for the bus until it has been put on it, and not again: from then on
\* its command is in the buffer, or the cache owes the answer, for its own line.
LoadsSentOnce ==
    \A i \in Stage : load[i] # None =>
        /\ Asserts(i) <=> serving[i] = None
        /\ serving[i] # None =>
              \/ owed[serving[i]] = load[i]
              \/ /\ BufferedFor(i) /\ cmdBuffer.id = serving[i]
                 /\ cmdBuffer.address = load[i]

\* The bus has the load of stage i under id k, and will pass its answer on.
Outstanding(i, k) ==
    /\ ~busId2StageIndex[k].invalidated
    /\ \/ busId2StageIndex[k].cmdSent /\ busId2StageIndex[k].stageIndex = i
       \/ BufferedFor(i) /\ cmdBuffer.id = k

\* busId2StageIndex knows what the cache owes; a buffered load has the next id.
IdsTracked ==
    /\ \A k \in BusId : busId2StageIndex[k].cmdSent <=> owed[k] # None
    /\ IsLoad(cmdBuffer) => cmdBuffer.id = nextId /\ ~busId2StageIndex[nextId].cmdSent

\* A stage's bus controller agrees with what was sent.
ControllersAgree ==
    \A i \in Stage :
        /\ load[i] = None => serving[i] = None
        /\ load[i] # None /\ currentCmd[i] = None => serving[i] = None
        /\ load[i] # None /\ currentCmd[i] # None =>
              /\ currentCmd[i].address = load[i]
              /\ currentCmd[i].ready <=> serving[i] # None

\* What the bus has for a stage is the load that the stage was sent under that id.
SentLoadsTracked ==
    \A i \in Stage, k \in BusId :
        /\ serving[i] = k <=> Outstanding(i, k)
        /\ serving[i] = k /\ owed[k] # None => owed[k] = load[i]
        /\ serving[i] = k /\ owed[k] = None => cmdBuffer.address = load[i]

\* The inductive invariant behind the properties above: the registers of the stages'
\* bus controllers and those of the backbone describe the same outstanding loads.
BackboneInvariant == TypeOK /\ IdsTracked /\ ControllersAgree /\ SentLoadsTracked

\* The load of the first stage, which has priority, gets the bus: ids of flushed
\* loads come free again, and no command stays in the buffer.
LoadsGetTheBus == Asserts(0) ~> (Picked(0) \/ ~Asserts(0))

\* A load that was put on the bus is answered or flushed.
SentLoadsFinish ==
    \A i \in Stage, k \in BusId : (serving[i] = k) ~> (serving[i] # k)
=============================================================================
