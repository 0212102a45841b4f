# A verification project for SecDMP's Proteus core

The repository holds an out-of-order RISC-V core (Proteus, written in SpinalHDL),
data memory-dependent prefetchers (DMPs) for its data cache, and defences that
keep those prefetchers away from secrets: SecDMP (secret partition), selective
disabling (security mode) and ProSpeCT (taint tracking).  Around the core are the
simulator that programs run in and the board support package they are linked with.
This directory holds TLA+ models of two parts of it, together with TLC runs and
TLAPS proofs:

* where prefetchers and defences meet: the data cache, its prefetchers, the
  partition, and the data bus between the out-of-order core and the cache;
* how a program runs: the simulator with its memory and devices, and the board
  support package's trap handler, system calls, interrupts and counters.

Scala paths below are relative to `src/proteus/src/main/scala/riscv/`, C, C++ and
assembly paths to `src/ecosystem/`.

## How the models read

The code describes synchronous hardware.  **One step of every model is one clock
cycle.**  Variables are registers, an operator applied to the record `in` is a
wire, computed from the registers' old values and the inputs of the cycle, and the
primed variables are the registers after the clock edge.  SpinalHDL lets a register
be assigned several times in a cycle, and the assignment that comes last in the text
wins; the order of the IFs in operators such as `NextTracker` and `NextWay` is that order.
There is therefore no interleaving of small steps: what makes this code hard is what
coincides in one cycle, and every combination of the inputs of a cycle is enumerated.

The software models keep to the same clock.  In `Simulation` a step is an iteration of
the simulator's loop at a rising edge.  In `Console` a cycle is either `Idle`, in which
the hart only works, or one in which the hart completes a piece of code (`HartStep`);
the pieces are cut wherever the code touches something an interrupt, the byte device or
the simulator also touches, so that an interrupt can come between any two of them and
a byte in any cycle.  What the host at the other end of standard input does (`Host`)
interleaves freely with both.

What the branches of the code cannot tell apart is abstracted.  The data of a
line is one value; offsets within lines, program counters and statistics are left
out.  A register that is only read under a valid bit is one variable with the value
`None` when the bit is clear.

## The system: an inventory

| Component | State | Operations and interaction | What makes it correct | Where |
|---|---|---|---|---|
| Data cache, `plugins/Cache.scala` | ways (tag, data, age, valid), one tracker per request in flight (line, loads that wait, overwritten by a store, secret, mode), command buffer, hit buffer, next id | takes loads and stores from the data bus, sends requests to memory, hands responses to the waiting loads, fills, evicts, asks the prefetcher for targets and tells it what it may see | no stale data, each load answered once, ids not reused, no secret line scanned | `Cache`, `CacheSystem`, `CacheSecrecy`, `CacheAudit` |
| Instruction cache | the same plugin, read only, everything cacheable | | as above | a restriction of `CacheSystem`'s inputs |
| Prefetchers, `plugins/memory/*Dmp.scala`, `SequentialInstructionPrefetcher.scala` | target queues; learned patterns; depth by request id | five calls of `PrefetchService` made by the cache within its cycle | limits on how far and what they follow | `PointerChasingDmp`, `DmpSystem`; the other two DMPs are planned |
| Memory partitioning, `plugins/MemoryPartitioning.scala`, `SecretPartitionChecker.scala` | boundary CSRs | `isInPartition` for lines (cache) and bytes (taint of loads) | every secret byte covered, no other block | `MemoryPartitioning`, `CacheSecrecy` |
| Security mode, `plugins/SecurityController.scala` | one CSR | read by the cache | mode of a request survives merging | `Cache`, `CacheAudit` |
| Data bus, `plugins/memory/DynamicMemoryBackbone.scala` | which load stage each bus id was given to, command buffer, next id | multiplexes the buses of the load stages and of the store stage; drops answers of flushed loads | each stage gets its own answers; ids are free when used | `DynamicMemoryBackbone` |
| Bus controllers and bridges, `MemBus.scala`, `plugins/memory/MemoryBackbone.scala`, `StaticMemoryBackbone.scala` | the command issued and not acknowledged; halves of an AXI write already sent | one per stage; AXI4 and APB3 conversions | a command is sent once, an answer for another address dropped | the controllers in `DynamicMemoryBackbone`; bridges planned |
| Load/store unit and fetcher, `plugins/memory/Lsu.scala`, `Fetcher.scala` | none besides the controllers' | alignment, masks, when a stage asks for the bus | | the requests in `DynamicMemoryBackbone` |
| Reorder buffer, `plugins/scheduling/dynamic/ReorderBuffer.scala` | circular buffer of entries, soft reset trigger, last speculative branch, store bypass and forwarding predictors | push at issue, updates from two buses, soft reset on misspeculation, retirement | in-order semantics despite bypassing, forwarding and nested misspeculation | planned |
| Reservation stations, load managers, dispatcher, buses, `plugins/scheduling/dynamic/*` | a state machine each, waiting arguments, messages not yet taken | issue, wake-up on the common data bus, round-robin arbitration | no argument or result lost; flushed work discarded | planned |
| Branch prediction, `plugins/BranchTargetPredictor*.scala` | target buffer | predicts at fetch, compares at completion | a wrong prediction is always found | planned |
| ProSpeCT and tracking, `plugins/ProSpeCT.scala`, `PipelineTaintTracking.scala`, `ControlSpeculationTracking.scala`, `DataSpeculationTracking.scala` | taint and speculation marks on instructions and registers | reservation stations wait while tainted and speculative | no tainted instruction executes speculatively | planned |
| Traps, interrupts, counters, `plugins/TrapHandler.scala`, `Interrupts.scala`, `Timers.scala`, `MachineMode.scala`, `CsrFile.scala` | mstatus, mie, mip, mepc, mcause, cycle, instret | a trap and `mret` exchange mstatus and mepc; at the retirement stage | precise, each instruction performed once | what software sees of them in `BoardSupport` and `Performance`; how a trap meets the instructions in the pipeline is planned |
| Static pipeline, `plugins/scheduling/static/*` | stage registers | stalls, forwarding, jumps | hazards resolved | planned |
| SoC and devices, `soc/*` | timer, byte buffer, interrupt lines | APB registers; the external interrupt is up while the byte buffer is full | no byte or interrupt lost | byte device in `StdinDevice`; the timer as an event in `BoardSupport` |
| Datapaths: decoder, ALU, shifter, multiplier, branches, RNG, RVFI | MulDiv's iteration | combinational | | not modelled |
| CHERI, `plugins/cheri/*` | capability registers, tags | a separate core | | not modelled |
| Pipeline construction: `Core.scala`, `Config.scala`, `Stage.scala`, `Pipeline*.scala`, ... | none at run time | elaboration | | not modelled |
| Simulator, `simulation/main.cpp` | the memory vector and the read under way; the byte offered to the byte device; end of output, test result, cycle count | evaluates core, memory and three devices in each iteration; ends at a result, EOT, SIGINT or the limit | the memory is a memory; bytes are handed over once; the exit status is the program's verdict | `SimulatedMemory`, `StdinDevice`, `Simulation` |
| Board support package, `newlib-bsp/*` | trap frames, interrupt callbacks, the ring of standard input | `trap.S` dispatches to callbacks, system calls and exceptions; `syscalls.c` fills the ring from the interrupt and empties it in `read` | programs resume as they were; bytes neither lost nor reordered; counters read whole | `BoardSupport`, `Console`, `Performance` |
| Waveform analysis, benchmarks, results, `security_eval.py` | | read the simulator's traces | | not modelled |

In the core, data flows from the load managers through the data bus into the cache and from there
over AXI to the memory; answers travel back by id.  The prefetcher is called by
the cache combinationally.  Security CSRs are written at retirement and read by the
cache in any cycle.

Around it, a byte of standard input passes five places on its way to the program: the
simulator's offer, the byte device, the register of the interrupt's handler, the ring,
and the program's buffer; each hand-over is made by a different party, and the
handler runs whenever interrupts are on.

The hard parts, which `PROJECT.json` lists line by line as hazards: several events in
one cycle that touch the same register (a store and a fill of a line, a merge and the
last answer of a request, a flush and an answer), requests that outlive the state they
were judged by (a CSR that changed, a load that was flushed), ids and entries that are
reused, bounded buffers in front of busy buses, and, in the part planned next, nested
misspeculation in the reorder buffer.

## The modules

* **`Cache`** -- the circuit of `Cache.scala`.  Operators follow the code's helpers:
  `Hit`, `Merges`, `Initiates`, `TakesTarget`, `IssuesPrefetch`, `Fills`,
  `RequestDone` are its conditions, `NextTracker`, `NextWay`, `NextAge`,
  `NextReturning` the registers' next values, `CacheCycle(in)` a cycle.  `Notifies...`
  are the calls to the prefetcher with the conditions the two defences put on them.
  The operators called "Mutant of ..." restate one with a plausible bug and are not
  part of the model.
* **`CacheSystem`** -- the cache between a data bus, a memory, the CSRs and a prefetcher
  that may ask for any line.  The environment's state is `mem`, `memRsp` (answers
  owed, by id), `heldCmd` (a command asserted and not acknowledged) and `heldRsp` (a
  response asserted and not taken).  The bus above holds a command until it is
  acknowledged and uses only ids that are not in flight; `DynamicMemoryBackbone`
  proves both of itself (`IdsAreFree`; its command buffer).  The memory performs commands in the order
  it accepts them and answers loads in any order.  The module states the properties.
* **`CoherentMemory`** -- what a cache promises: a store takes effect when it is
  accepted, a load is bound when it is accepted to its line's contents and answered with
  them later.  `CacheSystem` implements it under the mapping `Contents` (the
  memory, with the store in the command buffer applied) and `BoundValue` (where a load's
  value is: the hit buffer, the owed answer, or the memory for a request still
  in the buffer).
* **`CacheAudit`** -- adds three history variables: the requests a store came after, and
  the requests that were asked for, by any of those that sent or joined them, with their
  line outside the partition of that cycle (`outside`) or with the secure mode off
  (`unguarded`).
* **`CacheSecrecy`** -- restricts the software to the intended use of SecDMP:
  non-public data is stored only to lines inside the partition, and a line leaves the
  partition only with public contents.
* **`PointerChasingDmp`**, **`DmpSystem`** -- the pointer-chasing prefetcher (the Apple,
  CDP and base configurations of `Config.scala`), and its composition with the cache
  in place of the arbitrary prefetcher.  Two history variables say what a prefetch can
  have come from: `demanded`, the lines the pipeline has loaded, and `held`, all that the
  memory has held, because a store may change a line after its pointers were queued.
  `Chased(lines, n)` is where paths of at most n + 1 pointers lead from `lines`.
* **`MemoryPartitioning`** -- the boundary CSRs and `isInPartition`.
* **`DynamicMemoryBackbone`** -- load stages, their bus controllers, the store
  stage and the shared data bus.  `load[i]` is what stage i's load manager executes,
  `currentCmd[i]` its controller's register, `owed` the environment (the cache),
  `serving` a history variable: the id the stage's current load was sent under.
* **`StdinDevice`** -- `Apb3ByteDev.scala` and the simulator's side of it
  (`main.cpp` 255-299, 316): what the host has written (`sent`), what the C library has
  read ahead (`fetched`), what the simulator took (`taken`) and offers, the device's
  one-byte buffer with its full flag and interrupt.  `StdinCycle(read)` is a clock cycle.
* **`BoardSupport`** -- `trap.S`, `interrupts.c`, `exceptions.c`, `syscalls.c` and
  the bits of the hart they use.  `pc` names the piece of code that runs next, `stack` the
  trap frames; one action per piece.  Traps can nest, as they do in the code when a
  handler prints.  `Calls` is what the program may call.
* **`Console`** -- composes the two and adds loads whose result is squashed, which
  the out-of-order core sends to devices too (`SpeculativeRead`), and three history variables:
  `lost`, the bytes such loads took; `origin`, the bytes that those the handler has read
  stand for; and `resume`, what the trapped code goes on with.
  `LoadManager.receiveMessage` (43-58) sends a load as soon as its address is known and asks
  neither whether it is speculative nor whether it is cacheable.  It may be a load of a
  mispredicted path, which can go on into any code, the handler included; or the
  handler's own, which is squashed and performed again after the flush that follows a CSR
  instruction (`ReorderBuffer.scala` 574-589; `trap.S` 54 reads mcause just before the
  handler), after a mispredicted branch, or after a wrongly bypassed or forwarded store
  (608-659).  The pipeline is not part of the model, so a squashed load may happen in any cycle.
* **`ByteStream`** -- what a program gets of standard input: bytes in order, some
  missing, and for a missing one perhaps a blank, a 0 nobody sent.  `Console` implements it.
* **`SimulatedMemory`**, **`MainMemory`** -- the simulator's vector of words with the
  read under way, and the memory a core expects, which the former implements with `mem`
  mapped to the contents of the lines and `owed` to the register of the read.
* **`Performance`** -- `rdcycle`, `rdinstret` and `sleep` on a 32-bit core, instruction
  by instruction, and the counters they read.
* **`Simulation`** -- the loop of `main` around `SimulatedMemory` and the character and
  test device, with a core that produces any traffic on its bus, or runs
  `Performance`.  `report` is a history variable: the program's first result.
* **`MC*`** -- instances for TLC.  **`*Proofs`** -- theorems.

## What TLC checks

| Run | Instance | Shows |
|---|---|---|
| `cache_safety` | 1 set, 2 ways, 3 lines of which one is not cacheable, 2 external ids, 2 loads in flight, 1 prefetch (287,900 states) | types, one copy of a line, no redundant request, ids match what the memory owes, each load waits in one place, prefetches bounded |
| `cache_coherence` | 1 way, 2 lines, 2 data values, 2 external ids, 2 loads, 1 prefetch (120,040) | a valid way is never stale; the cache implements `CoherentMemory` |
| `cache_scans` | both defences, CSRs rewritten in any cycle, loads only (10,638) | what may be scanned after loads and prefetches merged under changing CSRs: for each defence, exactly if it allowed it when one of those that asked did; the laxer decides |
| `cache_liveness` | 1 load in flight, stores, prefetches (11,986) | commands accepted, loads answered, ids come free |
| `cache_secrecy` | SecDMP, a partition that moves, public and secret data (130,316) | no secret line from memory reaches the prefetcher |
| `dmp` | 4 lines in a one-way cache, recursion limit 1, 1 next line (185,071) | pointers followed no further than the limit; depths by id are right |
| `backbone` | 2 load stages, 2 ids, 1 line (4,256) | answers go to their loads only, commands sent once, ids unique, no load waits for ever |
| `partitioning` | 8 addresses, blocks of 4, 2 regions (4,096) | secret blocks exactly covered |
| `console` | 2 bytes, a ring for one byte, every kind of system call, a timer with an isr or none, faults, squashed loads in any cycle (140,345) | handshake of device and simulator; bytes arrive in order and once, those apart that squashed loads took, with at most one blank for each; handlers undisturbed; the program is resumed as it was; handlers end, the program runs on, every byte that is not lost arrives |
| `simulation` | 15 cycles, 3 lines, a memory file that ends in the middle of one, counters whose high half changes every 4 cycles (232,136) | the memory implements `MainMemory`; the exit status; counters are read whole; sleep lasts |
| `cache_untouched_fill` | as `cache_safety`, 2 lines | **violated**, see below |
| `cache_prefetch_write` | an unassigned wire may be high | **violated**, see below |

**Why the bounds are enough.**  Sets do not interact, so one is enough; two ways are
the first number at which a victim is chosen and ages are compared; a third line forces
evictions and the uncacheable one takes the paths without fills.  Two ids let
requests overtake each other and wrap.  Two loads in flight make merging and
multi-cycle hand-over possible.  `maxPrefetches` is 1 in every configuration the
repository builds.  In `cache_coherence` a single way makes every fill an eviction; the
choice among ways is in `cache_safety` and in the proofs, which hold for any number.  Two
data values suffice because data is only copied; they are symmetric there.  In `dmp`,
every line points into itself and line 0 also to line 1, so that two hops from a line
reach three of the four lines and the property can fail.  In `backbone` one line is
enough because `serving` tells loads of the same line apart; the proofs cover the rest.
In `console` a ring
of two slots holds one byte, so that it is full after the first interrupt and wraps at once;
with two bytes the second waits in the device, or with the simulator, while the first is in
the handler's register, the ring or the program, and either can be lost and replaced by a
blank.  A third makes the search for cycles take minutes and finds nothing more; the
proofs of the safety properties hold for any number.  In
`simulation` a counter's high half stands for 2^32 and changes every 4 cycles, at least once
during most calls; memory of three lines has one inside the file, one across its end and
one beyond; payloads are two bits wide, so that half of them are negative as an int.
The environment offers nothing the cache does not look at: a prefetch target or a memory
ready in a cycle in which the code ignores it is taken to be absent, which loses no
behaviour.

**Fairness.**  The clock runs (`WF(Next)`).  For the cache: a memory that infinitely
often has no command waiting in the buffer, and that puts every answer it owes on
the bus, where it stays until taken.  These are obligations of the memory, not of the
code modelled; the simulator's memory (`ecosystem/simulation/main.cpp`) accepts in every
cycle and answers in the next.  The bus above is always ready for responses in the
liveness run, because that is how the code drives it: `bus.rsp.ready := True` in
`MemBus.scala` 181, passed on by `DynamicMemoryBackbone.scala` 158-162.  A command is
kept asserted until acknowledged because the command buffer does so
(`DynamicMemoryBackbone.scala` 92-95).  For the data bus, weak fairness of the cache accepting
the command and of it answering each id, which is what the cache's liveness run
shows of it.  `LoadsGetTheBus` is stated of stage 0 only: the code's fixed priority
lets it starve the others, which only the reorder buffer's size bounds.

For `console`, weak fairness of `HartStep`: the core retires instructions.  The
simulator's loop needs none, because a hart step includes a cycle of the byte device.
Nothing is assumed of the host, the timer or the program, so the liveness properties say
what they need of them: `BytesArrive` that the program keeps asking and
has interrupts on in between, and that the input ends; `ProgramKeepsRunning` names its
exceptions, the full ring and an interrupt nobody handles.

**No run turns deadlock checking off**: a circuit always has a next cycle, and a
simulation that has ended stutters (`Ended`).

## Two disagreements between code and comments

* `cache_untouched_fill`: `insertRspInCache` resets `storeInvalidated` (line 157),
  but a store to the same line in the same cycle sets it again (line 603, later in
  the text).  The entry is free then, its flag stays set, no code but a response
  resets it, and the next request that gets the id is not put into the cache when its
  answer comes.  No wrong data results (`CachedIsCurrent` is proved); a line that
  was fetched, or prefetched, is thrown away.
* `cache_prefetch_write`: the prefetch branch of the cache does not assign
  `external.cmd.write`, which was left don't-care at line 110.  If a build chooses 1, a
  prefetch reaches the memory as a store.  All other runs take the low
  bit; the proofs hold for either (`ScannedIsPublic` if the data such a store
  carries is public).

## Weaknesses the properties exempt

These are behaviours of the code that no comment or test denies, so that they are not
disagreements; each property says where it makes an exception.

* With the ring full, `external_interrupt_isr` returns without reading the device
  (`syscalls.c` 38): the interrupt stays pending and is taken again after every `mret`, and
  a program with interrupts on no longer gets to its `read` (`ProgramKeepsRunning`).
* `ignore_irq` prints from inside the trap handler (`interrupts.c` 10).  The nested
  system call overwrites mepc, mcause and mpie, which the trap frame does not
  hold, and the outer `mret` goes back into the code that printed
  (`ProgramIsResumed`, `HandlersAreUndisturbed`).  An exit or an exception prints from
  there too, and does not return.
* `select()` looks at the pipe while `std::cin.get()` reads ahead (`main.cpp` 316): bytes
  stay in the C library's buffer until more input, or its end (`BytesArrive`).
* A load of the byte device that is squashed takes its byte, whether it was on a mispredicted
  path or is the handler's own and performed again.  The handler, which does not look at
  the device before it reads, then stores a 0 that nobody sent (`syscalls.c` 40).
  `StreamInvariant`, `ImplementsStream` and `BytesArrive` count such bytes as `lost`, and
  allow one blank for each.
* A load that joins a request under other CSR values than those it was sent under
  relaxes it: a request sent as secret is scanned if the line is outside the partition
  when the load joins, one sent with the secure mode on if it is off then
  (`Cache.scala` 545-558).  `ResponseScansArePermitted` says which of the two decides.
* `sleep` returns at once if the end it computes wraps (`performance.c` 54;
  `SleepsLongEnough`).
* A test result that is negative as an int is no result; a SIGINT exits with zero; the
  limit overrides a result in the same cycle (`VerdictIsRight`).

## What is proved

All theorems hold for every value of the constants that satisfies the named
assumptions (`CacheAssumption`, `CacheSystemAssumption`, `CacheSecrecyAssumption`,
`DmpSystemAssumption`, `PartitioningAssumption`, `BackboneAssumption`,
`MaxBytesAssumption`, `StdinBufSizeAssumption`, `CallsAssumption`,
`SimulatedMemoryAssumption`, `PerformanceAssumption`, `SimulationAssumption`).  Two
theorems, `IdsMatchMemory` and `CacheIsTransparent`, have a hypothesis besides,
`Garbage = {None}`: the write bit that a prefetch leaves unassigned comes out low.
Without it `cache_prefetch_write` refutes the first, on which the second rests.

**The cache: `CacheProofs`.**

* **`CacheInvariantHolds`**, and from it `TypeCorrect`, `LinesCachedOnce` and
  `NoRedundantRequests`.  `OneCopyPerLine` is not inductive: a fill makes a second
  copy unless the line of a request that may fill is not cached, which is
  `FreshRequestsAreNeeded`; that in turn needs that requests, buffered commands and owed
  answers belong together (`RequestOwnership`), or a response could complete a
  request that does not exist.  The proof goes register by register: lemmas about
  what each of `NextTracker`, `NextWay`, `NextAge`, `BusCmd` can yield, then
  one step per conjunct.
* **`IdsMatchMemory`** adds `RequestsMatchMemory`, under the hypothesis: an allocated
  id's load is in the command buffer until the memory takes it, and owed an answer
  from then on.
* **`LoadsAreAnsweredOnce`**.  `LoadsWaitOnce` counts the places in which a load waits;
  its inductive form `WaitInvariant` says of any two places that they are the same, and
  that nothing waits for a request that is done.  A place of the next state is a place
  of this one or the load being accepted, which is new (`LoadIsNew`), joins one request
  (`OneMerge`: `FreshRequestsAreNeeded` again), and one entry of it.
* **`PrefetchesAreBounded`**.  No load waits for a request only if none did before, or if
  the prefetcher's request has just been sent, for which there must be room
  (`PrefetchOrigin`): a request that loses its last load is done in that cycle.

**The cache and its memory: `CacheCoherenceProofs`.**

* **`CacheIsCoherent`**.  `CoherenceInvariant` adds
  `AnswersAreCurrent` (an owed answer to a request not marked overwritten is the line's
  contents) and `BufferedKeepsLine`.  The two cases that matter are a fill, which
  takes an answer that is current unless a store to the line is in the same cycle, and
  a store, which marks every pending request and invalidates every matching way.
* **`CacheIsTransparent`**: `CacheSystem` implements `CoherentMemory`, under the
  hypothesis.  Every cycle maps to a store or a load accepted or neither, and to any
  answers with it.  What a load is bound to (`BoundValue`) must be fixed from the cycle
  in which it is accepted: `BoundStep` goes through the places where a load can wait and
  shows that the value moves with it, from the memory to the owed answer to the bus; a
  load that joins a request is bound to the current contents because a request it may
  join has not been overwritten (`FreshAnswerIsCurrent`).
* **`NoLoadIsLost`**: in every step, a load that waits is answered with the value it is
  bound to or goes on waiting, and an accepted load is answered at once or waits
  afterwards.  The refinement allows for a load that is forgotten; this does not.  A load that joins a
  request finds a free entry (`JoinsAFreeSlot`): a request has as many entries as there
  are ids of loads, and `WaitInvariant` says that no id takes two of them.

**The defences: `CacheSecrecyProofs`, `MemoryPartitioningProofs`.**

* **`SecrecyInvariantHolds`**, and from it **`ScannedIsPublic`**.
  The invariant says that lines outside
  the partition are public and that an answer to a request not marked secret is
  public, although the partition has moved since: data is read from memory, or forwarded,
  before its line can leave the partition with public contents.
* **`ScansArePermitted`**: for any CSR values in any cycle, an answer from memory is scanned
  exactly if each defence the build has allowed it for one at least of those that sent or
  joined its request.  The inductive form says that a pending request's marks tell who has
  asked (`MarksTellAskers`): it is marked secret unless the line was outside the partition
  for one of them, and its mode is OFF exactly if the mode was for one of them.
* **`SecretsAreCovered`** and **`OnlySecretsAreCovered`**, for
  every block size: rounding to blocks neither misses a secret nor catches a block
  without one, empty regions apart.

**The prefetcher: `DmpProofs`.**  **`DmpTypeCorrect`**, **`ChasesAreBounded`** and
**`DepthsAreKept`**, for any pointers, recursion limit, next lines and queue.  Two facts
about the registers are needed: every target in the queue is as far from `demanded` as
its depth says (`QueueIsChased`), although lines are rotated and old targets shifted
out; and the depth recorded for a request is that of its line (`DepthsAreKnown`).  They hold only
because of two others about the cache: a request that a load waits for is for a line in
`demanded` (`LoadsAreDemanded`), so that its answer may be scanned at depth 0; and
what is scanned is what the memory has held (`AnswersAreHeld`).  `Chased` is stated with
paths, which need no recursion; that one more pointer leads one hop further is `ChasedFurther`.

**The data bus: `DynamicMemoryBackboneProofs`.**  **`BackboneInvariantHolds`**, and from it
`LoadsGetTheirAnswers`, `IdsInFlightAreUnique` and `LoadsAreSentOnce`.  The invariant
relates three descriptions of the outstanding loads: the backbone's per-id
registers, the controllers' registers, and what the cache owes.

**The console: `ConsoleProofs`**, for any number of bytes, any ring and any system calls.

* **`HandshakeHolds`**; its invariant is inductive with the types.
* **`HandlerInvariantHolds`** and from it **`HandlersRunUndisturbed`** and **`ProgramGoesOn`**.
  That the program is resumed as it was is not inductive: it needs what mepc, mcause and
  mpie hold at every point of the handler (`CauseFits`, `ResumeFits`), how deep the frames
  are there (`Frames`), that a frame is only pushed twice by a handler that prints
  (`NestedFits`), and what such a handler leaves behind (`PrinterFits`).  The proof takes
  the pieces of code one by one; the pieces that only move on share a lemma.
* **`ConsoleTypeCorrect`** and **`BytesStayInOrder`**, from `ConsoleInvariant`.  The bytes
  that have a place are those the handler has read, or read a blank for (`origin`), and those
  in the device (`InDevice`).  A step appends the next byte, moves one from the device to
  `origin`, or takes one out of the device, which is then `lost`; each
  keeps the order (`BytesAreInOrder`, by `NextInOrder`, `OrderedWithout`).  `RingStores` and
  `RingCopies` show that a store at `stdin_buf_wr_pos` and a copy from `stdin_buf_rd_pos`
  are an append and a shift of the ring read as a sequence, wrapping included, so that what
  the program, the ring and the handler's register hold is `origin` with blanks for the
  lost (`BlanksAreLost`).  That a blank stands for a lost byte, and that the
  ring has room, is `ReadInvariant`: from the interrupt to the read a byte is due, which is
  in the device or has been taken from it by a squashed load since the handler's last
  read.  A squashed load keeps it due (`StaysDue`); only the handler's own
  read settles it, once for each interrupt.
* **`ConsoleIsAStream`**: a `read` returns the front of what the handler has read, which
  follows everything received before (`ReceivedFirst`, `CopiesInOrder`); a byte is lost
  while it is in the device, hence after what was received (`LostIsLater`); and what was
  received stands for the same bytes ever after (`OriginStays`).

**The simulator: `SimulationProofs`.**

* **`VerdictHolds`**, from the fact that a run goes on only while there is no result.
* **`CountersAreWhole`** and **`SleepLasts`**, for halves of any
  width: between the two reads of the high half that agree, the low half was read
  from a value m with the same high half, which lies between the counter's values at the
  call and now (`HalvesFit`).  The argument needs that division does not fall
  (`HighGrows`) and that no counter wraps in a run, which the limit on cycles
  guarantees (`SimulationAssumption`).
* **`MemoryIsImplemented`**, a refinement, for lines and words of
  any size and any memory file.  Growing the vector changes no line's contents, a read
  copies its line's contents, a write changes its own line only (`WordsOfLines`); the
  answer of a cycle is bound before its command.
* **`SimulationTypeCorrect`**, from `RangesInvariant`: the vector has no gaps, for it only
  grows and is written below its size; the sums of `sleep` stay in two halves.

**Only model-checked** are the liveness properties (`CmdsAreAccepted`, `LoadsAreAnswered`,
`RequestsComplete`, `LoadsGetTheBus`, `SentLoadsFinish`, `HandlersReturn`,
`ProgramKeepsRunning`, `BytesArrive`), which are out of the prover's reach.  All safety,
action and refinement properties of the passing runs are proved.

## What is not modelled

Beyond the components marked planned or not modelled in the inventory: the `delay`
option of the cache (0 in every configuration), counters and signals that only the
simulation reads, and reset in the middle of operation.  Latency of the bus between
cache and memory is the memory's choice of when to answer.

Of the board support package: the end of the heap (`sys_brk`) and what `sys_fstat`
fills in, which nothing else in it reads; the values that calls return, and the text
they print; the 64-bit variants of the counters, which read one register; the stack
set up in `boot.S`.  Of the simulator: the command line, the memory dump, the store
log and the waveform; that commands see the response of the same cycle a second time
(`main.cpp` 406-409 evaluates the core twice); the write data channel, which it
takes to be valid together with the address.  Of the timer: its two halves, written one
after the other.

## Plan

1. Done: cache, its memory and security conditions; pointer-chasing DMP; partition; data
   bus.  Simulator, byte device, board support package, counters.
2. The out-of-order core on a small program: reorder buffer, reservation stations,
   load managers and buses, with store bypass, forwarding and soft resets, against an
   in-order machine as the abstract specification.  Instances of two to four entries.
   Theorems: entry bookkeeping (validity, order, what a soft reset invalidates).
3. The array-of-pointers and indirect DMPs on `CacheSystem`, with what they prefetch
   related to what they learned.
4. Traps at retirement: an interrupt that meets a store that waits for the bus; the CSR
   file; ProSpeCT's condition on execution.
5. AXI bridge, the timer's halves; the static pipeline's hazard resolution.
6. Proofs: with each planned component its type invariant and its safety invariants, as
   for the present ones; those of the reorder buffer's bookkeeping first.
