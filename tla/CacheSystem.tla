---------------------------- MODULE CacheSystem ----------------------------
(***************************************************************************)
(* The cache between the load/store bus of the pipeline and the external   *)
(* memory, with a prefetcher that may ask for any line.                    *)
(*                                                                         *)
(* The bus above keeps a command asserted until it is acknowledged and     *)
(* never reuses the id of a load in flight (DynamicMemoryBackbone).  The   *)
(* memory below performs commands in the order it accepts them, answers    *)
(* loads in any order, and keeps a response on the bus until it is taken.  *)
(***************************************************************************)
EXTENDS Cache

CONSTANTS
    ReadWrite,      \* TRUE for a data cache, FALSE for an instruction cache
    RspReady,       \* the values internal.rsp.ready takes
    Garbage,        \* what the unassigned write bit and data of a prefetch come to
    Partitions,     \* the secret partitions software sets up
    SecurityModes,  \* the security modes software selects
    ChangesCsrs     \* TRUE iff software rewrites the CSRs while the cache runs

ASSUME CacheSystemAssumption ==
    /\ ReadWrite \in BOOLEAN
    /\ RspReady \subseteq BOOLEAN
    /\ Garbage \subseteq Data \cup {None}
    /\ None \notin ExternalLoad /\ None \notin Response
    /\ Partitions \subseteq SUBSET Line
    /\ SecurityModes \subseteq SecurityModeType
    /\ ChangesCsrs \in BOOLEAN

VARIABLES
    mem,     \* the external memory
    memRsp,  \* memRsp[id]: the answer the memory owes request id, or None
    heldCmd, \* the command asserted on internal.cmd and not acknowledged yet
    heldRsp  \* the response asserted on external.rsp and not taken yet

vars == <<cacheVars, csrVars, mem, memRsp, heldCmd, heldRsp>>

TypeOK ==
    /\ CacheTypeOK
    /\ mem \in [Line -> Data]
    /\ memRsp \in [Id -> Data \cup {None}]
    /\ heldCmd \in InternalCmd \cup {None}
    /\ heldRsp \in Id \cup {None}

Init ==
    /\ CacheInit
    /\ partition \in Partitions
    /\ securityMode \in SecurityModes
    /\ mem \in [Line -> Data]
    /\ memRsp = [i \in Id |-> None]
    /\ heldCmd = None
    /\ heldRsp = None

----------------------------------------------------------------------------
\* Loads accepted by the cache and not answered yet.
LoadsInFlight ==
    {id \in InternalId :
        \/ returning # None /\ returning.id = id
        \/ \E i \in Id, s \in Slot : outstandingLoads[i].forwarding[s] = id}

Cmds ==
    IF heldCmd # None THEN {heldCmd}
    ELSE {None} \cup {c \in InternalLoad : c.id \notin LoadsInFlight}
                \cup (IF ReadWrite THEN Store ELSE {})

Rsps == IF heldRsp # None THEN {heldRsp}
        ELSE {None} \cup {i \in Id : memRsp[i] # None}

\* What the prefetcher offers, when the cache could take it.
Targets == IF cmdBuffer = None /\ ~Pending(externalId) THEN Line \cup {None} ELSE {None}

\* The inputs of a cycle.  The prefetcher's target and the memory's ready, in a
\* cycle in which the cache does not look at them, count as absent and low.
Inputs ==
    {in \in
      {[cmd |-> cmd, rsp |-> rsp, rdata |-> IF rsp = None THEN None ELSE memRsp[rsp],
        cmdReady |-> cmdReady, rspReady |-> rspReady, target |-> target,
        garbage |-> garbage] :
         cmd \in Cmds, rsp \in Rsps, cmdReady \in BOOLEAN, rspReady \in RspReady,
         target \in Targets, garbage \in Garbage} :
      /\ in.target # None => TakesTarget(in)
      /\ in.cmdReady => BusCmd(in) # None}

\* The external memory accepts a command.
MemoryCycle(in) ==
    LET cmd == IF in.cmdReady THEN BusCmd(in) ELSE None
    IN  /\ mem' = IF cmd # None /\ cmd.write
                  THEN [mem EXCEPT ![cmd.line] = cmd.data] ELSE mem
        /\ memRsp' = [i \in Id |->
              IF cmd # None /\ ~cmd.write /\ cmd.id = i THEN mem[cmd.line]
              ELSE IF RequestDone(in) /\ in.rsp = i THEN None
              ELSE memRsp[i]]

\* CSR writes by the software.
CsrCycle ==
    IF ChangesCsrs THEN partition' \in Partitions /\ securityMode' \in SecurityModes
    ELSE UNCHANGED csrVars

Cycle(in) ==
    /\ CacheCycle(in)
    /\ MemoryCycle(in)
    /\ CsrCycle
    /\ heldCmd' = IF Accepts(in) THEN None ELSE in.cmd
    /\ heldRsp' = IF RequestDone(in) THEN None ELSE in.rsp

Next == \E in \in Inputs : Cycle(in)

\* What the memory owes the cache: it takes a command that waits for it, and
\* asserts every answer, which then stays on the bus until the cache takes it.
MemoryAccepts == []<>(cmdBuffer = None)
MemoryAnswers ==
    \A i \in Id : memRsp[i] # None ~> heldRsp = i \/ memRsp[i] = None

\* The clock keeps running.
Fairness == WF_vars(Next) /\ MemoryAccepts /\ MemoryAnswers

Spec == Init /\ [][Next]_vars
FairSpec == Spec /\ Fairness

----------------------------------------------------------------------------
(* Safety.                                                                 *)

\* No line is valid in two ways of its set: wayForAddress has one answer, and a
\* store invalidates the only copy (Cache.scala 415-426, 589-595).
OneCopyPerLine ==
    \A s \in Sets : \A v, w \in Way :
        /\ cache[s][v].valid /\ cache[s][w].valid
        /\ cache[s][v].tag = cache[s][w].tag
        => v = w

\* Two requests whose responses may fill the cache are for different lines, and
\* neither line is cached already: the checks before a demand or prefetch
\* request goes out (438-456, 514-566) are not defeated by fills, evictions and
\* stores of the same cycle.
FreshRequestsAreNeeded ==
    \A i \in Id : Fresh(i) =>
        /\ ~Cached(outstandingLoads[i].line)
        /\ \A j \in Id : Fresh(j) /\ outstandingLoads[j].line = outstandingLoads[i].line
                         => i = j

\* The contents of a line as the pipeline sees them: a store counts from the
\* moment the cache acknowledges it, even while it waits in cmdBuffer.
Contents ==
    [line \in Line |-> IF cmdBuffer # None /\ cmdBuffer.write /\ cmdBuffer.line = line
                       THEN cmdBuffer.data ELSE mem[line]]

\* A valid way holds the line's contents, all stores acknowledged so far
\* included, however stores, fills and late responses interleave.
CachedIsCurrent ==
    \A s \in Sets, w \in Way :
        cache[s][w].valid =>
            cache[s][w].value = Contents[[tag |-> cache[s][w].tag, set |-> s]]

\* An external id is in use exactly from the cycle its request is accepted by
\* the cache to the cycle its response is consumed: the memory owes an answer
\* to every pending request that has left cmdBuffer, and to nothing else.
BufferedRequest(i) == cmdBuffer # None /\ ~cmdBuffer.write /\ cmdBuffer.id = i
RequestsMatchMemory ==
    \A i \in Id :
        /\ Pending(i) <=> (BufferedRequest(i) \/ memRsp[i] # None)
        /\ ~(BufferedRequest(i) /\ memRsp[i] # None)

\* Every accepted load waits in exactly one place, so it is answered once.
Places(id) ==
    {p \in Id \X Slot : outstandingLoads[p[1]].forwarding[p[2]] = id}
LoadsWaitOnce ==
    \A id \in InternalId :
        /\ Cardinality(Places(id)) <= 1
        /\ returning # None /\ returning.id = id => Places(id) = {}
        /\ \A p \in Places(id) : Pending(p[1])

\* There are never more than maxPrefetches prefetches in flight (430), although
\* a prefetch turns into a demand request when a load is merged into it.
PrefetchBound == Cardinality(OutstandingPrefetches) <= MaxPrefetches

\* The facts the properties above rest on: the memory owes answers only to pending
\* requests, a buffered request is pending and not answered yet, an asserted
\* response is still owed, and a valid way holds data.
RequestOwnership ==
    \A i \in Id : /\ memRsp[i] # None => Pending(i)
                  /\ BufferedRequest(i) => Pending(i) /\ memRsp[i] = None
AssertedIsOwed == heldRsp # None => memRsp[heldRsp] # None
ValidWaysHoldData ==
    \A s \in Sets, w \in Way : cache[s][w].valid => cache[s][w].value # None

CacheInvariant ==
    /\ TypeOK
    /\ OneCopyPerLine
    /\ FreshRequestsAreNeeded
    /\ RequestOwnership
    /\ AssertedIsOwed
    /\ ValidWaysHoldData

\* A buffered request is for the line of its entry, and an answer the memory still
\* owes to a request not marked overwritten is the current contents of its line.
BufferedKeepsLine ==
    \A i \in Id : BufferedRequest(i) => cmdBuffer.line = outstandingLoads[i].line
AnswersAreCurrent ==
    \A i \in Id : Fresh(i) /\ memRsp[i] # None =>
                     memRsp[i] = Contents[outstandingLoads[i].line]

CoherenceInvariant ==
    /\ CacheInvariant
    /\ BufferedKeepsLine
    /\ AnswersAreCurrent
    /\ CachedIsCurrent

\* Loads in flight as the abstract memory sees them.
BoundValue(id) ==
    IF returning # None /\ returning.id = id THEN returning.data
    ELSE IF Places(id) = {} THEN None
    ELSE LET i == (CHOOSE p \in Places(id) : TRUE)[1]
         IN  IF memRsp[i] # None THEN memRsp[i] ELSE mem[outstandingLoads[i].line]

Memory == INSTANCE CoherentMemory
          WITH LoadId <- InternalId, contents <- Contents,
               loads <- [id \in InternalId |-> BoundValue(id)]

\* The cache is transparent: with the memory below it, it implements the memory.
ImplementsMemory == Memory!Spec

----------------------------------------------------------------------------
(* Liveness.                                                               *)

\* Every command asserted on the bus is acknowledged, and every load answered.
CmdsAreAccepted == heldCmd # None ~> heldCmd = None
LoadsAreAnswered ==
    \A id \in InternalId : id \in LoadsInFlight ~> id \notin LoadsInFlight

\* Every request is completed: an id does not stay busy for ever.
RequestsComplete == \A i \in Id : Pending(i) ~> ~Pending(i)
=============================================================================
