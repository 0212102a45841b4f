------------------------------ MODULE Console ------------------------------
(***************************************************************************)
(* A program that reads standard input in a simulation: the board support  *)
(* package and the program on the hart, the byte device with its           *)
(* interrupt, and the simulator that feeds it.  A step of the hart takes   *)
(* the last of its clock cycles; Idle is a cycle in which it only works.   *)
(***************************************************************************)
EXTENDS StdinDevice, BoardSupport, FiniteSets

VARIABLES
  lost,    \* history: the bytes the core has read and thrown away
  origin,  \* history: the bytes that the ones the handler has read stand for
  resume   \* history: what the code that was trapped goes on with

vars == <<stdinVars, bspVars, lost, origin, resume>>

NoResume == [pc |-> "none", regs |-> NoCall, mie |-> FALSE]

\* A trap out of the program; a system call gets its answer in the registers.
Resumption ==
  IF pc = "ecall" /\ ~InterruptTaken(meip)
  THEN [pc |-> After(pc), regs |-> NoCall, mie |-> mie]
  ELSE [pc |-> pc, regs |-> regs, mie |-> mie]

NoteResumption ==
  resume' = CASE stack = <<>> /\ pc' = "trap" -> Resumption
              [] stack # <<>> /\ stack' = <<>> -> NoResume
              [] OTHER -> resume
-----------------------------------------------------------------------------
Step ==
  /\ ~InterruptTaken(meip)
  /\ TrapHandlerStep \/ ProgramStep
  /\ StdinCycle(FALSE)
  /\ UNCHANGED origin

\* The bytes that were lost after the last one the handler has read.
Missing == {b \in lost : \A i \in 1 .. Len(origin) : origin[i] < b}

\* What the handler reads stands for itself; if the device is empty, what it then takes
\* for a byte stands for one that is missing.
StandsFor ==
  IF ReadData # NoByte THEN ReadData
  ELSE IF Missing = {} THEN NoByte ELSE CHOOSE b \in Missing : TRUE

ReadsDevice ==
  /\ IsrReads(ReadData)
  /\ StdinCycle(TRUE)
  /\ origin' = Append(origin, StandsFor)

Interrupted ==
  /\ TakesInterrupt(meip)
  /\ StdinCycle(FALSE)
  /\ UNCHANGED origin

HartStep ==
  /\ ~halted
  /\ Step \/ ReadsDevice \/ Interrupted
  /\ NoteResumption
  /\ UNCHANGED lost

Idle ==
  /\ ~halted
  /\ StdinCycle(FALSE)
  /\ UNCHANGED <<bspVars, lost, origin, resume>>

\* A load of the device whose result is squashed: the core performs a load as soon as
\* its address is known, without asking whether it is speculative or cacheable.  It may
\* happen in any cycle: a mispredicted branch, return or trap goes on into any code,
\* external_interrupt_isr included, and the isr's own load is squashed, and performed
\* again, when a CSR instruction, a mispredicted branch or a bypassed store before it
\* is flushed (ReorderBuffer.scala 574-589, 601-627).
SpeculativeRead ==
  /\ ~halted
  /\ StdinCycle(TRUE)
  /\ lost' = lost \cup ({ReadData} \ {NoByte})
  /\ UNCHANGED <<bspVars, origin, resume>>

Host ==
  /\ HostWrites \/ HostCloses
  /\ UNCHANGED <<simVars, devVars, bspVars, lost, origin, resume>>

Timer ==
  /\ TimerFires
  /\ UNCHANGED <<stdinVars, lost, origin, resume>>

\* The simulation has ended.
Ended == halted /\ UNCHANGED vars

Init ==
  /\ StdinInit
  /\ BspInit
  /\ lost = {} /\ origin = <<>> /\ resume = NoResume

Next == HartStep \/ Idle \/ SpeculativeRead \/ Host \/ Timer \/ Ended

\* The hart makes progress.
Spec == Init /\ [][Next]_vars /\ WF_vars(HartStep)
-----------------------------------------------------------------------------
\* What the registers may hold: of a read that is under way, the count that is left.
Registers == [call : CallNames \cup {"none"}, fd : {STDIN, STDOUT}, arg : Nat]

TrapTypeOK ==
  /\ pc \in Labels /\ regs \in Registers /\ stack \in Seq(Registers)
  /\ mepc \in Labels /\ mcause \in Irqs \cup {"ecall", "fault", "none"}
  /\ mie \in BOOLEAN /\ mpie \in BOOLEAN
  /\ printer \in {"none", "ignored", "exception", "exit"}
  /\ report \in Labels \cup {"none"}
  /\ resume \in [pc : Labels \cup {"none"}, regs : Registers, mie : BOOLEAN]

IrqTypeOK ==
  /\ meie \in BOOLEAN /\ mtie \in BOOLEAN /\ timer \in {"pending", "armed", "off"}
  /\ callbacks \in [Irqs -> {"stdin", "user", "ignore_irq"}]
  /\ halted \in BOOLEAN

RingTypeOK ==
  /\ stdin_buf \in [0 .. StdinBufSize - 1 -> Byte]
  /\ stdin_buf_rpos \in 0 .. StdinBufSize - 1
  /\ stdin_buf_wpos \in 0 .. StdinBufSize - 1
  /\ isrByte \in Byte /\ received \in Seq(Byte)
  /\ lost \subseteq Byte /\ origin \in Seq(Byte)

ConsoleTypeOK == StdinTypeOK /\ TrapTypeOK /\ IrqTypeOK /\ RingTypeOK

\* The byte device and the simulator agree on who holds which byte: the simulator
\* offers the byte it took last, until the device has room for it and no longer,
\* the device's buffer holds the byte before it, and the interrupt is pending
\* exactly while the buffer is full (main.cpp 281-293, Apb3ByteDev.scala 31-55).
HandshakeInvariant ==
  /\ meip = rbufFull
  /\ rdata \in {NoByte, taken}
  /\ currentStdinByte = IF rbufFull THEN rdata ELSE NoByte
  /\ rbufFull => rbuf = (IF rdata # NoByte THEN taken - 1 ELSE taken)

RingCount == (stdin_buf_wpos - stdin_buf_rpos) % StdinBufSize

Ring == [i \in 1 .. RingCount |->
          stdin_buf[(stdin_buf_rpos + i - 1) % StdinBufSize]]

\* What the handler has read: what the program has, what is in the buffer, and what
\* the handler has in a register.
ReadByHandler ==
  received \o Ring \o (IF pc = "isr_store" THEN <<isrByte>> ELSE <<>>)

\* The bytes in the device and on their way into it.
InDevice ==
  (IF rbufFull THEN <<rbuf>> ELSE <<>>) \o (IF rdata # NoByte THEN <<rdata>> ELSE <<>>)

\* On its way through the five places that hold bytes none is duplicated, overtaken or
\* dropped, but for those that squashed loads took.  In the place of such a byte the
\* handler may find the device empty and store a 0 that nobody sent, but never more
\* than one, and only there (syscalls.c 36-44, 68-88; Apb3ByteDev.scala 42-55).
StreamInvariant ==
  LET bytes == origin \o InDevice
  IN /\ \A i \in 1 .. Len(bytes) - 1 : bytes[i] < bytes[i + 1]
     /\ (1 .. taken) \ lost \subseteq {bytes[i] : i \in 1 .. Len(bytes)}
     /\ {bytes[i] : i \in 1 .. Len(bytes)} \subseteq 1 .. taken
     /\ \A i \in 1 .. Len(InDevice) : InDevice[i] \notin lost
     /\ ReadByHandler = [i \in 1 .. Len(origin) |->
                          IF origin[i] \in lost THEN NoByte ELSE origin[i]]

\* A program that reads standard input sees a stream of bytes, some of them blank.
Stream == INSTANCE ByteStream WITH origin <- SubSeq(origin, 1, Len(received))
ImplementsStream == Stream!Spec

\* A handler runs with interrupts off, at most one call of its own deep, and finds in
\* mepc where its trap came from, which the trap frame does not hold; unless it has
\* printed (trap.S 21-82, 150-157; interrupts.c 10; exceptions.c 5-10).
HandlersAreUndisturbed ==
  /\ stack # <<>> \/ pc = "trap" => ~mie
  /\ Len(stack) <= (IF printer = "none" THEN 1 ELSE 2)
  /\ stack # <<>> /\ printer = "none" =>
       resume.pc = IF pc = "return" \/ mcause \in Irqs THEN mepc ELSE After(mepc)
  /\ report # "none" => report = resume.pc

\* After a trap the program goes on where it was, with its registers and with
\* interrupts as they were; unless an interrupt nobody handles was printed.
ProgramIsResumed ==
  [][stack # <<>> /\ stack' = <<>> /\ printer # "ignored" =>
       pc' = resume.pc /\ regs' = resume.regs /\ mie' = resume.mie]_vars
-----------------------------------------------------------------------------
\* Every handler comes to its end (trap.S; the loop of sys_read, syscalls.c 79-85).
HandlersReturn ==
  [](pc = "trap" => <>(halted \/ (stack = <<>> /\ pc # "trap")))

\* The program gets the hart back, unless its own buffer is full, when the interrupt is
\* neither served nor cleared (syscalls.c 38), or an interrupt has no handler.
ProgramKeepsRunning ==
  pc = "trap" ~>
    \/ stack = <<>> /\ pc # "trap" /\ ~InterruptTaken(meip)
    \/ halted \/ stdin_buf_is_full \/ printer = "ignored"

\* A program that reads again and again, with interrupts on in between, gets every byte
\* of an input that ends, but for the lost ones.  (Of an input that stays open a rest
\* may stay in the C library's buffer, where select() does not see it: main.cpp 281, 316.)
AsksForBytes == pc = "ecall" /\ regs.call = "read" /\ regs.fd = STDIN /\ regs.arg > 0

GenuineBytes == {i \in 1 .. Len(received) : received[i] # NoByte}

BytesArrive ==
  []<>AsksForBytes /\ []<>(pc = "program" /\ mie) /\ <>closed =>
    <>(closed /\ Cardinality(GenuineBytes) + Cardinality(lost) = sent)
=============================================================================
