---------------------------- MODULE ConsoleProofs ----------------------------
(***************************************************************************)
(* The byte device and the simulator agree on who holds which byte, and a  *)
(* program that is trapped is resumed as it was, for any number of bytes,  *)
(* any size of the buffer and any system calls.  The argument for the      *)
(* second: wherever the trap handler and the code it calls may be, mepc,   *)
(* mcause and mpie, of which there is one each and which no frame holds,   *)
(* belong to the innermost trap (HandlerInvariant); and a trap within a    *)
(* handler comes only of a call to print.                                  *)
(* And the program sees a stream: the bytes in the device (InDevice) and   *)
(* those the handler has read (origin) are in order in any state           *)
(* (BytesAreInOrder).  The handler reads the device only when a byte is    *)
(* due, which is in the device or was taken by a squashed load since the   *)
(* last read (ReadInvariant); so what it reads is that byte or a 0 in its  *)
(* place (BlanksAreLost).                                                  *)
(***************************************************************************)
EXTENDS Console, SequenceTheorems, TLAPS

-----------------------------------------------------------------------------
(* The way of a byte into the core. *)

\* A cycle with or without a read keeps the types of the host's side and the device's,
\* and the agreement of the two (main.cpp 268-299, Apb3ByteDev.scala 28-55).
LEMMA StdinCycleStep ==
    ASSUME StdinTypeOK, HandshakeInvariant, NEW read \in BOOLEAN, StdinCycle(read)
    PROVE  StdinTypeOK' /\ HandshakeInvariant'
<1> USE MaxBytesAssumption
<1>1. /\ sent \in Nat /\ fetched \in Nat /\ taken \in Nat
      /\ sent <= MaxBytes /\ fetched <= sent /\ taken <= fetched
      /\ sent' = sent
  BY DEF StdinTypeOK, Byte, StdinCycle, hostVars
<1>2. GetsByte => currentStdinByte = NoByte /\ taken < sent
  BY <1>1 DEF GetsByte, Gets, hasStdinByte
<1>3. /\ taken' \in Nat /\ fetched' \in Nat /\ taken' <= fetched' /\ fetched' <= sent
      /\ taken' = (IF GetsByte THEN taken + 1 ELSE taken)
      /\ rdata' = (IF GetsByte THEN taken' ELSE currentStdinByte)
      /\ eof' \in BOOLEAN
  BY <1>1, <1>2 DEF StdinCycle, ByteDevEval, Offered, GetsByte, StdinTypeOK
<1>4. /\ rbuf' = NextRbuf(read) /\ meip' = NextMeip(read)
      /\ currentStdinByte' = (IF rbuf' = NoByte THEN NoByte ELSE rdata')
  BY DEF StdinCycle, DeviceEdge, ByteDevEval
<1>5. /\ rbuf \in Byte /\ rdata \in Byte /\ meip \in BOOLEAN
      /\ currentStdinByte \in {NoByte, rdata} /\ rdata \in {NoByte, taken}
  BY DEF StdinTypeOK, HandshakeInvariant
<1>5b. closed' \in BOOLEAN /\ meip' \in BOOLEAN
  BY DEF StdinTypeOK, StdinCycle, hostVars, DeviceEdge, NextMeip, Takes
<1>6. rdata' \in {NoByte, taken'} /\ rdata' \in Byte
  BY <1>1, <1>2, <1>3, <1>5 DEF Byte, NoByte
<1>6b. rbuf' \in Byte => StdinTypeOK'
  <2>1. /\ sent' \in Byte /\ fetched' \in 0 .. sent' /\ taken' \in 0 .. fetched'
        /\ NoByte \in Byte
    BY <1>1, <1>3 DEF Byte, NoByte
  <2>2. QED
    BY <2>1, <1>3, <1>4, <1>5b, <1>6 DEF StdinTypeOK
<1>7. CASE read
  <2>1. rbuf' = NoByte /\ meip' = FALSE
    BY <1>7, <1>4 DEF NextRbuf, NextMeip
  <2>2. StdinTypeOK'
    BY <2>1, <1>5, <1>6b, MaxBytesAssumption DEF Byte, NoByte
  <2>3. QED
    BY <2>1, <2>2, <1>4, <1>6 DEF HandshakeInvariant, rbufFull
<1>8. CASE ~read /\ Takes
  <2>1. /\ rbuf = NoByte /\ rdata = taken /\ rdata # NoByte /\ currentStdinByte = NoByte
        /\ rbuf' = rdata
    <3>1. rbuf = NoByte /\ rdata # NoByte
      BY <1>8 DEF Takes, rbufFull
    <3>2. rbuf' = rdata
      BY <3>1, <1>8, <1>4 DEF NextRbuf
    <3>3. QED
      BY <3>1, <3>2, <1>5 DEF HandshakeInvariant, rbufFull
  <2>1b. meip'
    BY <1>8, <1>4, Zenon DEF NextMeip
  <2>2. StdinTypeOK'
    BY <2>1, <1>5, <1>6b, MaxBytesAssumption DEF Byte, NoByte
  <2>3. rbuf' = (IF rdata' # NoByte THEN taken' - 1 ELSE taken')
    BY <2>1, <1>1, <1>3 DEF NoByte
  <2>4. QED
    <3>1. meip' = rbufFull'
      BY <2>1, <2>1b, <1>5b DEF rbufFull
    <3>2. QED
      BY <3>1, <2>1, <2>2, <2>3, <1>4, <1>6 DEF HandshakeInvariant, rbufFull
<1>9. CASE ~read /\ ~Takes
  <2>1. rbuf' = rbuf /\ meip' = meip
    BY <1>9, <1>4, <1>5 DEF NextRbuf, NextMeip
  <2>2. StdinTypeOK'
    BY <2>1, <1>5, <1>6b, MaxBytesAssumption DEF Byte, NoByte
  <2>3. ASSUME rbuf # NoByte
        PROVE  rbuf' = (IF rdata' # NoByte THEN taken' - 1 ELSE taken')
    BY <2>1, <2>3, <1>1, <1>2, <1>3, <1>5
    DEF NoByte, HandshakeInvariant, rbufFull
  <2>4. QED
    BY <2>1, <2>2, <2>3, <1>4, <1>6, <1>5 DEF HandshakeInvariant, rbufFull
<1>10. QED BY <1>7, <1>8, <1>9

\* What the host does between two cycles does not disturb it.
LEMMA HostStep ==
    ASSUME StdinTypeOK, HandshakeInvariant, HostWrites \/ HostCloses,
           UNCHANGED <<simVars, devVars>>
    PROVE  StdinTypeOK' /\ HandshakeInvariant'
<1>1. UNCHANGED <<fetched, taken, eof, currentStdinByte, rdata, rbuf, meip>>
  BY DEF simVars, devVars
<1>2. sent' \in Byte /\ sent <= sent'
  BY MaxBytesAssumption DEF StdinTypeOK, HostWrites, HostCloses, Byte
<1>3. closed' \in BOOLEAN
  BY DEF StdinTypeOK, HostWrites, HostCloses
<1>4. fetched \in 0 .. sent' /\ taken \in 0 .. fetched
  BY <1>2 DEF StdinTypeOK, Byte
<1>5. StdinTypeOK'
  BY <1>1, <1>2, <1>3, <1>4 DEF StdinTypeOK
<1>6. QED
  BY <1>1, <1>5 DEF HandshakeInvariant, rbufFull

\* Every step of the system is a cycle of the byte device, or the host's, or neither.
LEMMA StdinSteps ==
    ASSUME [Next]_vars
    PROVE  \/ \E read \in BOOLEAN : StdinCycle(read)
           \/ (HostWrites \/ HostCloses) /\ UNCHANGED <<simVars, devVars>>
           \/ UNCHANGED stdinVars
BY DEF Next, HartStep, Step, ReadsDevice, Interrupted, Idle, SpeculativeRead, Host, Timer,
       Ended, vars, stdinVars, TimerFires

\* The simulator offers each byte until the device takes it and no longer, and the
\* interrupt is pending exactly while the device holds a byte (main.cpp 281-293,
\* Apb3ByteDev.scala 31-55).
THEOREM HandshakeHolds == Spec => [](StdinTypeOK /\ HandshakeInvariant)
<1>1. Init => StdinTypeOK /\ HandshakeInvariant
  <2> SUFFICES ASSUME Init PROVE StdinTypeOK /\ HandshakeInvariant
    OBVIOUS
  <2>1. /\ sent = 0 /\ fetched = 0 /\ taken = 0 /\ closed = FALSE /\ eof = FALSE
        /\ currentStdinByte = NoByte /\ rdata = NoByte /\ rbuf = NoByte /\ meip = FALSE
    BY DEF Init, StdinInit
  <2>2. 0 \in Byte /\ NoByte \in Byte /\ 0 \in 0 .. 0
    BY MaxBytesAssumption DEF Byte, NoByte
  <2>3. QED
    BY <2>1, <2>2 DEF StdinTypeOK, HandshakeInvariant, rbufFull
<1>2. StdinTypeOK /\ HandshakeInvariant /\ [Next]_vars
        => StdinTypeOK' /\ HandshakeInvariant'
  <2> SUFFICES ASSUME StdinTypeOK, HandshakeInvariant, [Next]_vars
               PROVE  StdinTypeOK' /\ HandshakeInvariant'
    OBVIOUS
  <2>1. CASE UNCHANGED stdinVars
    BY <2>1 DEF stdinVars, hostVars, simVars, devVars, StdinTypeOK, HandshakeInvariant,
                rbufFull
  <2>2. QED
    BY <2>1, StdinSteps, StdinCycleStep, HostStep
<1>3. QED BY <1>1, <1>2, PTL DEF Spec
-----------------------------------------------------------------------------
(* The trap handler. *)

\* How many trap frames there are where the code is: a handler has its own, and a
\* second one while a call it makes to print is served.
Frames(label) ==
  CASE label \in {"boot", "program", "ecall"} -> {0}
    [] label \in {"trap", "printed"} -> {0, 1}
    [] label \in {"syscall", "sysret", "return"} -> {1, 2}
    [] OTHER -> {1}

InHandler == stack # <<>> \/ pc = "trap"
IsNested == Len(stack) = 2 \/ (pc = "trap" /\ Len(stack) = 1)

\* What mcause and mepc hold in a handler of the program, and in a nested call.
CauseFits ==
  /\ pc \in {"isr", "isr_test", "isr_read", "isr_store", "user_isr"} => mcause \in Irqs
  /\ pc \in {"syscall", "copy", "sysret"} =>
       mcause = "ecall" /\ mepc = (IF IsNested THEN "print" ELSE "ecall")
  /\ pc = "exception" => mcause = "fault" /\ mepc = "program"
  /\ pc = "trap" =>
       \/ mcause \in Irqs /\ ~IsNested
       \/ mcause = "ecall" /\ mepc = (IF IsNested THEN "print" ELSE "ecall")
       \/ mcause = "fault" /\ mepc = "program" /\ ~IsNested
  /\ pc = "return" /\ printer = "none" => mcause \in Irqs \/ mepc = "program"

NestedFits ==
  IsNested =>
    /\ printer # "none" /\ ~mpie
    /\ pc \in {"trap", "syscall", "sysret", "return"}
    /\ pc \in {"trap", "syscall"} => regs = PrintCall
    /\ pc = "return" => mepc = "printed"

\* Once a handler has printed, the program is not resumed: the mret that ends the
\* handler goes back into the code that prints, or there is none.
PrinterFits ==
  /\ pc \in {"boot", "program", "ecall", "exception"} => printer = "none"
  /\ pc \in {"print", "printed", "halt", "halted"} => printer # "none"
  /\ printer = "ignored" /\ pc # "print" /\ ~IsNested => (InHandler => mepc = "printed")
  /\ printer \in {"exception", "exit"} =>
       IsNested \/ (InHandler /\ pc \in {"print", "printed", "halt", "halted"})
  /\ report # "none" => report = resume.pc /\ printer = "exception"

ResumeFits ==
  InHandler /\ printer = "none" =>
    /\ mepc \in {"boot", "program", "ecall"}
    /\ resume.mie = mpie
    /\ resume.pc = IF pc = "return" \/ mcause \in Irqs THEN mepc ELSE After(mepc)
    /\ mcause \in Irqs \/ pc = "return" =>
         resume.regs = (IF pc = "trap" THEN regs ELSE stack[1])
    /\ mcause = "ecall" => resume.regs = NoCall

\* What the trap's registers hold wherever the trap handler and the code it calls may
\* be (trap.S).
HandlerInvariant ==
  /\ Len(stack) \in Frames(pc)
  /\ InHandler => ~mie
  /\ CauseFits
  /\ NestedFits
  /\ PrinterFits
  /\ ResumeFits

TrapInvariant == TrapTypeOK /\ IrqTypeOK /\ HandlerInvariant

\* There are frames or none.
LEMMA Frames0 ==
    ASSUME stack \in Seq(Registers)
    PROVE  Len(stack) \in Nat /\ (stack = <<>> <=> Len(stack) = 0)
BY EmptySeq, LenProperties

\* What Frames says, label by label (trap.S 21-110).
LEMMA FramesOf ==
    /\ \A label \in {"boot", "program", "ecall"} : Frames(label) = {0}
    /\ \A label \in {"trap", "printed"} : Frames(label) = {0, 1}
    /\ \A label \in {"syscall", "sysret", "return"} : Frames(label) = {1, 2}
    /\ \A label \in {"copy", "isr", "isr_test", "isr_read", "isr_store", "user_isr",
                       "exception", "print", "halt", "halted"} : Frames(label) = {1}
BY DEF Frames

\* How deep the stack is, of a state with the invariant.
LEMMA FramesHere ==
    ASSUME TrapInvariant
    PROVE  /\ Len(stack) \in Nat /\ (stack = <<>> <=> Len(stack) = 0)
           /\ pc \in {"boot", "program", "ecall"} => Len(stack) = 0
           /\ pc \in {"trap", "printed"} => Len(stack) \in {0, 1}
           /\ pc \in {"syscall", "sysret", "return"} =>
                Len(stack) \in {1, 2} /\ stack # <<>>
           /\ pc \in {"copy", "isr", "isr_test", "isr_read", "isr_store", "user_isr",
                      "exception", "print", "halt", "halted"} =>
                Len(stack) = 1 /\ stack # <<>>
<1>1. Len(stack) \in Nat /\ (stack = <<>> <=> Len(stack) = 0)
  BY Frames0 DEF TrapInvariant, TrapTypeOK
<1>2. Len(stack) \in Frames(pc)
  BY DEF TrapInvariant, HandlerInvariant
<1>3. pc \in {"boot", "program", "ecall"} => Len(stack) = 0
  BY <1>2, FramesOf
<1>4. pc \in {"trap", "printed"} => Len(stack) \in {0, 1}
  BY <1>2, FramesOf
<1>5. pc \in {"syscall", "sysret", "return"} => Len(stack) \in {1, 2}
  BY <1>2, FramesOf
<1>6. pc \in {"copy", "isr", "isr_test", "isr_read", "isr_store", "user_isr",
              "exception", "print", "halt", "halted"} => Len(stack) = 1
  <2>1. pc \in {"copy", "isr", "isr_test", "isr_read", "isr_store", "user_isr",
                "exception", "print", "halt", "halted"} => Frames(pc) = {1}
    BY FramesOf
  <2>2. QED BY <2>1, <1>2
<1>7. Len(stack) \in {1, 2} => stack # <<>>
  BY <1>1
<1>8. QED BY <1>1, <1>3, <1>4, <1>5, <1>6, <1>7

\* The two values the model's registers are set to by the code itself.
LEMMA PrintCallType ==
    NoCall \in Registers /\ PrintCall \in Registers /\ PrintCall.call = "write"
BY DEF NoCall, PrintCall, Call, Registers, CallNames, STDIN, STDOUT

\* A trap frame is pushed (trap.S 21-59).
LEMMA SavesFrameStep ==
    ASSUME TrapInvariant, SavesFrame, NoteResumption
    PROVE  TrapTypeOK' /\ HandlerInvariant'
<1>1. /\ stack' \in Seq(Registers) /\ Len(stack') = Len(stack) + 1
      /\ stack' # <<>> /\ stack'[Len(stack) + 1] = regs
  BY AppendProperties DEF TrapInvariant, TrapTypeOK, SavesFrame
<1>2. Len(stack) \in {0, 1} /\ (stack = <<>> <=> Len(stack) = 0)
  BY Frames0 DEF TrapInvariant, TrapTypeOK, HandlerInvariant, Frames, SavesFrame
<1>3. /\ pc = "trap" /\ pc' \in {"isr", "syscall", "exception"}
      /\ pc' = "isr" <=> mcause \in Irqs
      /\ pc' = "syscall" <=> mcause = "ecall"
      /\ pc' = "exception" <=> mcause = "fault"
  BY DEF TrapInvariant, HandlerInvariant, CauseFits, SavesFrame, Irqs
<1>4. UNCHANGED <<regs, mepc, mcause, mie, mpie, printer, report, resume>>
  BY <1>3, <1>1 DEF SavesFrame, trapVars, reportVars, NoteResumption
<1>4b. /\ ~mie
       /\ mcause # "ecall" => Len(stack) = 0
  BY <1>2, <1>3 DEF TrapInvariant, HandlerInvariant, CauseFits, InHandler, IsNested
<1>5. TrapTypeOK'
  BY <1>1, <1>3, <1>4 DEF TrapInvariant, TrapTypeOK, Labels
<1>6. Len(stack') \in Frames(pc') /\ (InHandler' => ~mie')
  <2>1. Len(stack') \in Frames(pc')
    <3>1. CASE Len(stack) = 0
      BY <3>1, <1>1, <1>3, FramesOf
    <3>2. CASE Len(stack) = 1
      <4>1. pc' = "syscall"
        BY <3>2, <1>3, <1>4b
      <4>2. QED
        BY <4>1, <3>2, <1>1, FramesOf
    <3>3. QED
      BY <3>1, <3>2, <1>2
  <2>2. QED
    BY <2>1, <1>4, <1>4b
<1>7. CauseFits'
  BY <1>1, <1>2, <1>3, <1>4 DEF TrapInvariant, HandlerInvariant, CauseFits, IsNested
<1>8. NestedFits'
  BY <1>1, <1>2, <1>3, <1>4
  DEF TrapInvariant, HandlerInvariant, CauseFits, NestedFits, IsNested, Irqs
<1>9. PrinterFits'
  <2>1. pc' = "exception" => printer = "none"
    BY <1>2, <1>3, <1>4b
    DEF TrapInvariant, TrapTypeOK, HandlerInvariant, CauseFits, PrinterFits, IsNested,
        InHandler
  <2>2. printer \in {"exception", "exit"} => Len(stack) = 1
    BY <1>2, <1>3, <1>4b DEF TrapInvariant, HandlerInvariant, PrinterFits, IsNested
  <2>3. printer = "ignored" => Len(stack) = 1 \/ mepc = "printed"
    BY <1>2, <1>3, <1>4b DEF TrapInvariant, HandlerInvariant, PrinterFits, IsNested, InHandler
  <2>4. report # "none" => report = resume.pc /\ printer = "exception"
    BY DEF TrapInvariant, HandlerInvariant, PrinterFits
  <2>5. Len(stack) = 1 <=> IsNested'
    <3>1. pc' # "trap" /\ Len(stack') = Len(stack) + 1 /\ Len(stack) \in {0, 1}
      BY <1>1, <1>2, <1>3
    <3>2. CASE Len(stack) = 0
      BY <3>1, <3>2 DEF IsNested
    <3>3. CASE Len(stack) = 1
      BY <3>1, <3>3 DEF IsNested
    <3>4. QED
      BY <3>1, <3>2, <3>3
  <2>6. QED
    BY <2>1, <2>2, <2>3, <2>4, <2>5, <1>3, <1>4 DEF PrinterFits
<1>10. ResumeFits'
  BY <1>1, <1>2, <1>3, <1>4
  DEF TrapInvariant, HandlerInvariant, NestedFits, CauseFits, ResumeFits, IsNested, Irqs,
      InHandler, After
<1>11. QED
  BY <1>5, <1>6, <1>7, <1>8, <1>9, <1>10 DEF HandlerInvariant

\* The handlers of interrupts (syscalls.c 36-44) keep to their frame.
LEMMA IsrMoves ==
    ASSUME TrapInvariant,
           pc \in {"isr_test", "isr_read", "isr_store", "user_isr"},
           pc' \in {"isr_read", "isr_store", "return"},
           UNCHANGED <<regs, stack, trapVars, reportVars>>, NoteResumption
    PROVE  TrapTypeOK' /\ HandlerInvariant'
<1>1. Len(stack) = 1 /\ stack # <<>>
  BY FramesHere
<1>2. UNCHANGED <<regs, stack, mepc, mcause, mie, mpie, printer, report, resume>>
  BY <1>1 DEF trapVars, reportVars, NoteResumption
<1>3. mcause \in Irqs /\ ~IsNested /\ ~IsNested' /\ ~mie /\ InHandler
  BY <1>1, <1>2 DEF TrapInvariant, HandlerInvariant, CauseFits, IsNested, InHandler
<1>4. TrapTypeOK'
  BY <1>2 DEF TrapInvariant, TrapTypeOK, Labels
<1>5. Len(stack') \in Frames(pc')
  BY <1>1, <1>2, FramesOf
<1>6. CauseFits' /\ NestedFits'
  BY <1>2, <1>3 DEF CauseFits, NestedFits
<1>7. PrinterFits'
  BY <1>2, <1>3 DEF TrapInvariant, HandlerInvariant, PrinterFits
<1>8. ResumeFits'
  BY <1>2, <1>3 DEF TrapInvariant, HandlerInvariant, ResumeFits
<1>9. QED
  BY <1>2, <1>3, <1>4, <1>5, <1>6, <1>7, <1>8 DEF HandlerInvariant

\* isr(code), with a handler or none (interrupts.c 8-11, 44-47).
LEMMA IsrCalls ==
    ASSUME TrapInvariant, Isr, NoteResumption
    PROVE  TrapTypeOK' /\ HandlerInvariant'
<1>1. pc = "isr" /\ Len(stack) = 1 /\ stack # <<>>
  BY FramesHere DEF Isr
<1>2. UNCHANGED <<stack, mepc, mcause, mie, mpie, report, resume>> /\ regs' = NoCall
  BY <1>1 DEF trapVars, NoteResumption, Isr
<1>3. mcause \in Irqs /\ ~IsNested /\ ~mie /\ InHandler
  BY <1>1 DEF TrapInvariant, HandlerInvariant, CauseFits, IsNested, InHandler
<1>4. \/ pc' \in {"isr_test", "user_isr"} /\ printer' = printer
      \/ pc' = "print" /\ printer' = "ignored"
  BY <1>3 DEF Isr, TrapInvariant, IrqTypeOK
<1>5. ~IsNested'
  BY <1>1, <1>2, <1>4 DEF IsNested
<1>6. TrapTypeOK'
  BY <1>2, <1>4, PrintCallType DEF TrapInvariant, TrapTypeOK, Labels
<1>7. Len(stack') \in Frames(pc')
  BY <1>1, <1>2, <1>4, FramesOf
<1>8. CauseFits' /\ NestedFits'
  BY <1>2, <1>3, <1>4, <1>5 DEF CauseFits, NestedFits
<1>9. PrinterFits'
  BY <1>1, <1>2, <1>3, <1>4, <1>5
  DEF TrapInvariant, HandlerInvariant, PrinterFits, InHandler
<1>10. ResumeFits'
  BY <1>1, <1>2, <1>3, <1>4 DEF TrapInvariant, HandlerInvariant, ResumeFits, InHandler
<1>11. QED
  BY <1>2, <1>3, <1>6, <1>7, <1>8, <1>9, <1>10 DEF HandlerInvariant

\* exception() reads mepc before anything can overwrite it (exceptions.c 5-10).
LEMMA ExceptionStep ==
    ASSUME TrapInvariant, Exception, NoteResumption
    PROVE  TrapTypeOK' /\ HandlerInvariant'
<1>1. pc = "exception" /\ pc' = "print" /\ Len(stack) = 1 /\ stack # <<>>
  BY FramesHere DEF Exception
<1>2. /\ UNCHANGED <<regs, stack, mepc, mcause, mie, mpie, resume>>
      /\ report' = mepc /\ printer' = "exception"
  BY <1>1 DEF trapVars, NoteResumption, Exception
<1>3. /\ mcause = "fault" /\ mepc = "program" /\ printer = "none"
      /\ ~IsNested /\ ~mie /\ InHandler
  BY <1>1 DEF TrapInvariant, HandlerInvariant, CauseFits, PrinterFits, IsNested, InHandler
<1>4. resume.pc = "program"
  BY <1>1, <1>3 DEF TrapInvariant, HandlerInvariant, ResumeFits, After, Irqs
<1>5. ~IsNested' /\ InHandler'
  BY <1>1, <1>2 DEF IsNested, InHandler
<1>6. TrapTypeOK'
  BY <1>1, <1>2 DEF TrapInvariant, TrapTypeOK, Labels
<1>7. Len(stack') \in Frames(pc')
  BY <1>1, <1>2, FramesOf
<1>8. CauseFits' /\ NestedFits' /\ PrinterFits' /\ ResumeFits'
  BY <1>1, <1>2, <1>3, <1>4, <1>5 DEF CauseFits, NestedFits, PrinterFits, ResumeFits
<1>9. QED
  BY <1>2, <1>3, <1>6, <1>7, <1>8 DEF HandlerInvariant

\* What comes after a handler has printed (trap.S 104-110, boot.S 28-33).
LEMMA PrintedStep ==
    ASSUME TrapInvariant, Printed \/ Halts, NoteResumption
    PROVE  TrapTypeOK' /\ HandlerInvariant'
<1>1. /\ pc \in {"printed", "halt"} /\ Len(stack) = 1 /\ stack # <<>>
      /\ pc' = IF pc = "halt" THEN "halted"
               ELSE IF printer = "ignored" THEN "return" ELSE "halt"
  BY FramesHere DEF Printed, Halts
<1>2. UNCHANGED <<regs, stack, mepc, mcause, mie, mpie, printer, report, resume>>
  BY <1>1 DEF trapVars, reportVars, NoteResumption, Printed, Halts
<1>3. ~IsNested /\ ~mie /\ InHandler /\ printer # "none" /\ ~IsNested' /\ InHandler'
  BY <1>1, <1>2 DEF TrapInvariant, HandlerInvariant, PrinterFits, IsNested, InHandler
<1>4. TrapTypeOK'
  BY <1>1, <1>2 DEF TrapInvariant, TrapTypeOK, Labels
<1>5. Len(stack') \in Frames(pc')
  BY <1>1, <1>2, FramesOf
<1>6. CauseFits' /\ NestedFits' /\ ResumeFits'
  BY <1>1, <1>2, <1>3 DEF CauseFits, NestedFits, ResumeFits
<1>7. PrinterFits'
  BY <1>1, <1>2, <1>3 DEF TrapInvariant, TrapTypeOK, HandlerInvariant, PrinterFits
<1>8. QED
  BY <1>2, <1>3, <1>4, <1>5, <1>6, <1>7 DEF HandlerInvariant

\* syscall() and the functions it calls, within a frame (syscalls.c 68-183); of the call
\* a handler makes to print, only the write is possible.
LEMMA SyscallMoves ==
    ASSUME TrapInvariant, SysRead \/ SysWrite \/ SysOther \/ Copies, NoteResumption
    PROVE  TrapTypeOK' /\ HandlerInvariant'
<1>1. /\ pc \in {"syscall", "copy"} /\ pc' \in {"copy", "sysret"}
      /\ pc = "syscall" /\ pc' = "copy" => regs.call = "read"
      /\ Len(stack) \in {1, 2} /\ stack # <<>>
      /\ pc = "copy" => Len(stack) = 1
  BY FramesHere DEF SysRead, SysWrite, SysOther, Copies
<1>2. /\ UNCHANGED <<stack, mepc, mcause, mie, mpie, printer, report, resume>>
  BY <1>1 DEF trapVars, reportVars, NoteResumption, SysRead, SysWrite, SysOther, Copies
<1>3. regs' \in Registers
  <2>1. regs \in Registers
    BY DEF TrapInvariant, TrapTypeOK
  <2>2. CASE Copies /\ regs.arg > 0 /\ regs' = [regs EXCEPT !.arg = @ - 1]
    BY <2>1, <2>2 DEF Registers
  <2>3. CASE UNCHANGED regs
    BY <2>1, <2>3
  <2>4. QED
    BY <2>2, <2>3 DEF Copies, SysRead, SysWrite, SysOther
<1>4. mcause = "ecall" /\ ~mie /\ InHandler /\ InHandler' /\ pc' # "trap"
  BY <1>1, <1>2 DEF TrapInvariant, HandlerInvariant, CauseFits, InHandler
<1>5. IsNested <=> IsNested'
  BY <1>1, <1>2 DEF IsNested
<1>6. IsNested => pc = "syscall" /\ regs.call = "write" /\ pc' = "sysret"
  BY <1>1, PrintCallType DEF TrapInvariant, HandlerInvariant, NestedFits, IsNested
<1>7. TrapTypeOK'
  BY <1>1, <1>2, <1>3 DEF TrapInvariant, TrapTypeOK, Labels
<1>8. Len(stack') \in Frames(pc')
  <2>1. Frames("copy") = {1} /\ Frames("sysret") = {1, 2}
    BY FramesOf
  <2>2. pc' = "copy" => Len(stack) = 1
    BY <1>1, <1>6 DEF IsNested
  <2>3. QED BY <1>1, <1>2, <2>1, <2>2
<1>9. CauseFits' /\ NestedFits'
  BY <1>1, <1>2, <1>4, <1>5, <1>6
  DEF TrapInvariant, HandlerInvariant, CauseFits, NestedFits
<1>10. PrinterFits'
  BY <1>1, <1>2, <1>4, <1>5 DEF TrapInvariant, HandlerInvariant, PrinterFits
<1>11. ResumeFits'
  BY <1>1, <1>2, <1>4, <1>5 DEF TrapInvariant, HandlerInvariant, ResumeFits, Irqs
<1>12. QED
  BY <1>2, <1>4, <1>7, <1>8, <1>9, <1>10, <1>11 DEF HandlerInvariant

\* sys_exit and unsupported_syscall (syscalls.c 150-160).
LEMMA SysExitStep ==
    ASSUME TrapInvariant, SysExit, NoteResumption
    PROVE  TrapTypeOK' /\ HandlerInvariant'
<1>1. /\ pc = "syscall" /\ pc' = "print" /\ printer' = "exit" /\ regs.call = "exit"
      /\ Len(stack) \in {1, 2} /\ stack # <<>>
  BY FramesHere DEF SysExit
<1>2. ~IsNested
  BY <1>1, PrintCallType DEF TrapInvariant, HandlerInvariant, NestedFits
<1>3. Len(stack) = 1
  BY <1>1, <1>2 DEF IsNested
<1>4. /\ UNCHANGED <<regs, stack, mepc, mcause, mie, mpie, report, resume>>
  BY <1>1 DEF trapVars, NoteResumption, SysExit
<1>5. mcause = "ecall" /\ ~mie /\ InHandler /\ InHandler'
  BY <1>1, <1>4 DEF TrapInvariant, HandlerInvariant, CauseFits, InHandler
<1>5b. ~IsNested'
  BY <1>1, <1>3, <1>4 DEF IsNested
<1>6. report = "none"
  BY <1>1, <1>2 DEF TrapInvariant, HandlerInvariant, PrinterFits
<1>7. TrapTypeOK'
  BY <1>1, <1>4 DEF TrapInvariant, TrapTypeOK, Labels
<1>8. Len(stack') \in Frames(pc')
  BY <1>1, <1>3, <1>4, FramesOf
<1>9. CauseFits' /\ NestedFits' /\ PrinterFits' /\ ResumeFits'
  BY <1>1, <1>4, <1>5, <1>5b, <1>6 DEF CauseFits, NestedFits, PrinterFits, ResumeFits
<1>10. QED
  BY <1>4, <1>5, <1>7, <1>8, <1>9 DEF HandlerInvariant

\* mepc moves past the ecall, and a0 in the innermost frame is overwritten (trap.S 93-99).
LEMMA SysReturnStep ==
    ASSUME TrapInvariant, SysReturn, NoteResumption
    PROVE  TrapTypeOK' /\ HandlerInvariant'
<1>1. /\ pc = "sysret" /\ pc' = "return" /\ mepc' = After(mepc)
      /\ Len(stack) \in {1, 2} /\ stack # <<>>
  BY FramesHere DEF SysReturn
<1>2. /\ stack' \in Seq(Registers) /\ Len(stack') = Len(stack) /\ stack' # <<>>
      /\ Len(stack) = 1 => stack'[1] = NoCall
  <2>1. stack \in Seq(Registers) /\ stack' = [stack EXCEPT ![Len(stack)] = NoCall]
    BY DEF TrapInvariant, TrapTypeOK, SysReturn
  <2>2. Len(stack) \in 1 .. Len(stack)
    BY <1>1
  <2>3. QED
    BY <2>1, <2>2, <1>1, PrintCallType, ExceptSeq, EmptySeq
<1>3. UNCHANGED <<regs, mcause, mie, mpie, printer, report, resume>>
  BY <1>1, <1>2 DEF reportVars, NoteResumption, SysReturn
<1>4. /\ mcause = "ecall" /\ ~mie /\ InHandler /\ InHandler'
      /\ mepc' = (IF IsNested THEN "printed" ELSE "program")
  BY <1>1, <1>2 DEF TrapInvariant, HandlerInvariant, CauseFits, InHandler, After
<1>5. IsNested <=> IsNested'
  BY <1>1, <1>2 DEF IsNested
<1>6. TrapTypeOK'
  BY <1>1, <1>2, <1>3, <1>4 DEF TrapInvariant, TrapTypeOK, Labels
<1>7. Len(stack') \in Frames(pc')
  BY <1>1, <1>2, FramesOf
<1>8. CauseFits' /\ NestedFits'
  BY <1>1, <1>3, <1>4, <1>5 DEF TrapInvariant, HandlerInvariant, CauseFits, NestedFits
<1>9. printer = "ignored" => IsNested
  BY <1>1, <1>4 DEF TrapInvariant, HandlerInvariant, PrinterFits, CauseFits
<1>10. PrinterFits'
  BY <1>1, <1>3, <1>4, <1>5, <1>9 DEF TrapInvariant, HandlerInvariant, PrinterFits
<1>11. ResumeFits'
  <2>1. CASE printer # "none"
    BY <2>1, <1>3 DEF ResumeFits
  <2>2. CASE printer = "none"
    <3>1. ~IsNested /\ Len(stack) = 1
      BY <2>2, <1>1 DEF TrapInvariant, HandlerInvariant, NestedFits, IsNested
    <3>2. mepc = "ecall" /\ mepc' = "program"
      BY <3>1, <1>1, <1>4 DEF TrapInvariant, HandlerInvariant, CauseFits
    <3>3. resume.mie = mpie /\ resume.pc = "program" /\ resume.regs = NoCall
      BY <2>2, <3>2, <1>1, <1>4
      DEF TrapInvariant, HandlerInvariant, ResumeFits, After, Irqs
    <3>4. QED
      BY <3>1, <3>2, <3>3, <1>1, <1>2, <1>3, <1>4 DEF ResumeFits
  <2>3. QED BY <2>1, <2>2
<1>12. QED
  BY <1>3, <1>4, <1>6, <1>7, <1>8, <1>10, <1>11 DEF HandlerInvariant

\* A handler prints: a trap within a trap, with interrupts off (interrupts.c 10,
\* exceptions.c 12, syscalls.c 152).
LEMMA PrintsStep ==
    ASSUME TrapInvariant, Prints, NoteResumption
    PROVE  TrapTypeOK' /\ HandlerInvariant'
<1>1. /\ pc = "print" /\ pc' = "trap" /\ mepc' = "print" /\ mcause' = "ecall"
      /\ mpie' = mie /\ mie' = FALSE /\ regs' = PrintCall
      /\ Len(stack) = 1 /\ stack # <<>>
  BY FramesHere DEF Prints, Trap
<1>2. UNCHANGED <<stack, printer, report, resume>>
  BY <1>1 DEF reportVars, NoteResumption, Prints
<1>3. printer # "none" /\ ~mie
  BY <1>1 DEF TrapInvariant, HandlerInvariant, PrinterFits, InHandler
<1>4. InHandler' /\ IsNested'
  BY <1>1, <1>2 DEF InHandler, IsNested
<1>5. TrapTypeOK'
  <2>1. mpie' \in BOOLEAN /\ mie' \in BOOLEAN
    BY <1>1 DEF TrapInvariant, TrapTypeOK
  <2>2. QED
    BY <2>1, <1>1, <1>2, PrintCallType DEF TrapInvariant, TrapTypeOK, Labels
<1>6. Len(stack') \in Frames(pc')
  BY <1>1, <1>2, FramesOf
<1>7. CauseFits' /\ ResumeFits'
  BY <1>1, <1>2, <1>3, <1>4 DEF CauseFits, ResumeFits
<1>8. NestedFits'
  <2>1. ~mpie'
    BY <1>1, <1>3
  <2>2. QED
    BY <2>1, <1>1, <1>2, <1>3 DEF NestedFits
<1>9. PrinterFits'
  BY <1>1, <1>2, <1>3, <1>4 DEF TrapInvariant, HandlerInvariant, PrinterFits
<1>10. QED
  BY <1>1, <1>5, <1>6, <1>7, <1>8, <1>9 DEF HandlerInvariant

\* A trap out of the program (TrapHandler.scala 140-162).
LEMMA TrapStep ==
    ASSUME TrapInvariant, NEW cause, Trap(cause), NoteResumption,
           stack = <<>>, pc \in {"boot", "program", "ecall", "printed"},
           UNCHANGED <<regs, stack, reportVars>>,
           \/ cause \in Irqs /\ InterruptTaken(meip)
           \/ cause = "ecall" /\ pc = "ecall" /\ ~InterruptTaken(meip)
           \/ cause = "fault" /\ pc = "program"
    PROVE  TrapTypeOK' /\ HandlerInvariant'
<1>1. /\ pc' = "trap" /\ mepc' = pc /\ mcause' = cause /\ mpie' = mie /\ mie' = FALSE
      /\ UNCHANGED <<regs, stack, printer, report>>
      /\ resume' = Resumption
  BY DEF Trap, reportVars, NoteResumption
<1>2. Len(stack) = 0 /\ Len(stack') = 0
  BY <1>1, Frames0 DEF TrapInvariant, TrapTypeOK
<1>3. InHandler' /\ ~IsNested' /\ ~InHandler
  BY <1>1, <1>2 DEF InHandler, IsNested
<1>4. resume' = IF cause = "ecall" THEN [pc |-> "program", regs |-> NoCall, mie |-> mie]
                ELSE [pc |-> pc, regs |-> regs, mie |-> mie]
  BY <1>1 DEF Resumption, After, Irqs
<1>5. TrapTypeOK'
  <2>1. mpie' \in BOOLEAN /\ mie' \in BOOLEAN /\ mie \in BOOLEAN
    BY <1>1 DEF TrapInvariant, TrapTypeOK
  <2>2. cause \in Irqs \cup {"ecall", "fault", "none"} /\ "program" \in Labels
    BY DEF Labels
  <2>3. resume' \in [pc : Labels \cup {"none"}, regs : Registers, mie : BOOLEAN]
    <3>1. CASE cause = "ecall"
      BY <3>1, <2>1, <2>2, <1>4, PrintCallType
    <3>2. CASE cause # "ecall"
      BY <3>2, <2>1, <1>4 DEF TrapInvariant, TrapTypeOK
    <3>3. QED BY <3>1, <3>2
  <2>4. QED
    BY <2>1, <2>2, <2>3, <1>1 DEF TrapInvariant, TrapTypeOK, Labels
<1>6. Len(stack') \in Frames(pc')
  BY <1>1, <1>2, FramesOf
<1>7. CauseFits' /\ NestedFits'
  BY <1>1, <1>3 DEF CauseFits, NestedFits
<1>8. /\ printer \in {"none", "ignored"} /\ report = "none"
      /\ printer = "none" => pc \in {"boot", "program", "ecall"}
      /\ printer = "ignored" => pc = "printed"
  BY <1>2, <1>3
  DEF TrapInvariant, TrapTypeOK, HandlerInvariant, PrinterFits, IsNested, InHandler
<1>9. PrinterFits'
  BY <1>1, <1>8 DEF PrinterFits
<1>10. ResumeFits'
  <2>1. resume'.mie = mie
    BY <1>4
  <2>2. CASE cause = "ecall"
    BY <2>1, <2>2, <1>1, <1>4, <1>8 DEF ResumeFits, After, Irqs
  <2>3. CASE cause = "fault"
    BY <2>1, <2>3, <1>1, <1>4, <1>8 DEF ResumeFits, After, Irqs
  <2>4. CASE cause \in Irqs
    BY <2>1, <2>4, <1>1, <1>4, <1>8 DEF ResumeFits, Irqs
  <2>5. QED BY <2>2, <2>3, <2>4
<1>11. QED
  BY <1>1, <1>5, <1>6, <1>7, <1>9, <1>10 DEF HandlerInvariant

\* mret, of the innermost trap (trap.S 61-91, TrapHandler.scala 164-173).
LEMMA ReturnsStep ==
    ASSUME TrapInvariant, Returns, NoteResumption
    PROVE  TrapTypeOK' /\ HandlerInvariant'
<1>1. /\ pc = "return" /\ pc' = mepc /\ mie' = mpie /\ mpie' = TRUE
      /\ UNCHANGED <<mepc, mcause, printer, report>>
      /\ Len(stack) \in {1, 2} /\ stack # <<>>
  BY FramesHere DEF Returns, reportVars
<1>2. /\ stack' \in Seq(Registers) /\ Len(stack') \in Nat
      /\ Len(stack) = 1 => Len(stack') = 0 /\ stack' = <<>>
      /\ Len(stack) = 2 => Len(stack') = 1 /\ stack' # <<>>
      /\ regs' \in Registers
  <2>1. stack \in Seq(Registers) /\ stack' = SubSeq(stack, 1, Len(stack) - 1)
    BY DEF TrapInvariant, TrapTypeOK, Returns
  <2>2. \A i \in 1 .. Len(stack) : stack[i] \in Registers
    BY <2>1, ElementOfSeq
  <2>3. /\ Len(stack) - 1 \in Int /\ 1 \in Int /\ Len(stack) \in 1 .. Len(stack)
        /\ \A i \in 1 .. Len(stack) - 1 : stack[i] \in Registers
    BY <2>2, <1>1
  <2>4. /\ stack' \in Seq(Registers)
        /\ Len(stack') = IF 1 <= Len(stack) - 1 THEN Len(stack) - 1 - 1 + 1 ELSE 0
    BY <2>1, <2>3, SubSeqProperties
  <2>5. regs' \in Registers
    BY <2>2, <2>3 DEF Returns
  <2>6. Len(stack') \in Nat /\ (stack' # <<>> => Len(stack') \in Nat \ {0})
    BY <2>4, EmptySeq, LenProperties
  <2>7. CASE Len(stack) = 1
    BY <2>4, <2>5, <2>6, <2>7
  <2>8. CASE Len(stack) = 2
    <3>1. Len(stack') = 1
      BY <2>4, <2>8
    <3>2. stack' # <<>>
      BY <3>1, EmptySeq
    <3>3. QED
      BY <3>1, <3>2, <2>4, <2>5, <2>8
  <2>9. QED BY <2>7, <2>8, <1>1
<1>3. mpie \in BOOLEAN /\ mepc \in Labels
  BY DEF TrapInvariant, TrapTypeOK
<1>4. CASE Len(stack) = 2
  <2>1. IsNested /\ mepc = "printed" /\ printer # "none" /\ ~mpie /\ resume' = resume
    BY <1>1, <1>2, <1>4
    DEF TrapInvariant, HandlerInvariant, NestedFits, IsNested, NoteResumption
  <2>2. ~IsNested' /\ InHandler' /\ pc' = "printed" /\ ~mie'
    BY <2>1, <1>1, <1>2, <1>4 DEF IsNested, InHandler
  <2>3. TrapTypeOK'
    BY <2>1, <1>1, <1>2, <1>3 DEF TrapInvariant, TrapTypeOK
  <2>4. Len(stack') \in Frames(pc')
    BY <2>2, <1>2, <1>4, FramesOf
  <2>5. CauseFits' /\ NestedFits' /\ ResumeFits'
    BY <2>1, <2>2, <1>1 DEF CauseFits, NestedFits, ResumeFits
  <2>6. PrinterFits'
    BY <2>1, <2>2, <1>1 DEF TrapInvariant, HandlerInvariant, PrinterFits
  <2>7. QED
    BY <2>2, <2>3, <2>4, <2>5, <2>6 DEF HandlerInvariant
<1>5. CASE Len(stack) = 1
  <2>1. ~IsNested /\ InHandler /\ resume' = NoResume
    BY <1>1, <1>2, <1>5 DEF IsNested, InHandler, NoteResumption
  <2>2. /\ printer \in {"none", "ignored"} /\ report = "none"
        /\ printer = "none" => mepc \in {"boot", "program", "ecall"}
        /\ printer = "ignored" => mepc = "printed"
    BY <2>1, <1>1
    DEF TrapInvariant, TrapTypeOK, HandlerInvariant, PrinterFits, ResumeFits
  <2>3. ~IsNested' /\ ~InHandler'
    BY <2>2, <1>1, <1>2, <1>5 DEF IsNested, InHandler
  <2>4. TrapTypeOK'
    <3>1. resume' \in [pc : Labels \cup {"none"}, regs : Registers, mie : BOOLEAN]
      BY <2>1, PrintCallType DEF NoResume
    <3>2. QED
      BY <3>1, <1>1, <1>2, <1>3 DEF TrapInvariant, TrapTypeOK
  <2>5. Len(stack') \in Frames(pc')
    BY <2>2, <1>1, <1>2, <1>5, FramesOf
  <2>6. CauseFits' /\ NestedFits' /\ ResumeFits'
    BY <2>2, <2>3, <1>1 DEF CauseFits, NestedFits, ResumeFits
  <2>7. PrinterFits'
    BY <2>2, <2>3, <1>1 DEF PrinterFits
  <2>8. QED
    BY <2>3, <2>4, <2>5, <2>6, <2>7 DEF HandlerInvariant
<1>6. QED BY <1>1, <1>4, <1>5

\* Between traps nothing is kept for a resumption.
LEMMA ProgramMoves ==
    ASSUME TrapInvariant, pc \in {"boot", "program"}, pc' \in {"program", "ecall"},
           regs' \in Registers, mie' \in BOOLEAN,
           UNCHANGED <<stack, mepc, mcause, mpie, reportVars>>, NoteResumption
    PROVE  TrapTypeOK' /\ HandlerInvariant'
<1>1. Len(stack) = 0 /\ stack = <<>>
  BY FramesHere
<1>2. UNCHANGED <<stack, mepc, mcause, mpie, printer, report, resume>>
  BY <1>1 DEF reportVars, NoteResumption
<1>3. ~InHandler' /\ ~IsNested'
  BY <1>1, <1>2 DEF InHandler, IsNested
<1>4. printer = "none" /\ report = "none"
  BY DEF TrapInvariant, HandlerInvariant, PrinterFits
<1>5. TrapTypeOK'
  BY <1>2 DEF TrapInvariant, TrapTypeOK, Labels
<1>6. Len(stack') \in Frames(pc')
  BY <1>1, <1>2, FramesOf
<1>7. CauseFits' /\ NestedFits' /\ PrinterFits' /\ ResumeFits'
  BY <1>2, <1>3, <1>4 DEF CauseFits, NestedFits, PrinterFits, ResumeFits
<1>8. QED
  BY <1>3, <1>5, <1>6, <1>7 DEF HandlerInvariant

\* The steps of the program and of what comes before main.
LEMMA ProgramStepKeeps ==
    ASSUME TrapInvariant, ProgramStep, ~InterruptTaken(meip), NoteResumption
    PROVE  TrapTypeOK' /\ HandlerInvariant'
<1>1. regs \in Registers /\ mie \in BOOLEAN
  BY DEF TrapInvariant, TrapTypeOK
<1>2. CASE InitSyscalls
  <2>1. /\ pc = "boot" /\ pc' = "program"
        /\ UNCHANGED <<regs, mie, stack, mepc, mcause, mpie, reportVars>>
    BY <1>2 DEF InitSyscalls, trapVars
  <2>2. QED BY <2>1, <1>1, ProgramMoves
<1>3. ASSUME NEW c \in Calls, SetsUpCall(c) PROVE TrapTypeOK' /\ HandlerInvariant'
  <2>1. /\ pc = "program" /\ pc' = "ecall" /\ regs' = c
        /\ UNCHANGED <<mie, stack, mepc, mcause, mpie, reportVars>>
    BY <1>3 DEF SetsUpCall, trapVars
  <2>2. c \in Registers
    BY CallsAssumption DEF Registers
  <2>3. QED BY <2>1, <2>2, <1>1, ProgramMoves
<1>4. CASE EnablesOrDisablesInterrupts
  <2>1. /\ pc = "program" /\ pc' = pc
        /\ UNCHANGED <<regs, stack, mepc, mcause, mpie, reportVars>>
    BY <1>4 DEF EnablesOrDisablesInterrupts
  <2>2. mie' \in BOOLEAN
    BY <1>4 DEF EnablesOrDisablesInterrupts
  <2>3. QED BY <2>1, <2>2, <1>1, ProgramMoves
<1>5. CASE UsesTimer
  <2>1. /\ pc = "program" /\ pc' = pc
        /\ UNCHANGED <<regs, mie, stack, mepc, mcause, mpie, reportVars>>
    BY <1>5 DEF UsesTimer, trapVars
  <2>2. QED BY <2>1, <1>1, ProgramMoves
<1>6. CASE Faults
  <2>1. /\ pc = "program" /\ Trap("fault") /\ UNCHANGED <<regs, stack, reportVars>>
    BY <1>6 DEF Faults
  <2>2. stack = <<>>
    BY <2>1, FramesHere
  <2>3. QED BY <2>1, <2>2, TrapStep
<1>7. CASE Ecall
  <2>1. /\ pc = "ecall" /\ Trap("ecall") /\ UNCHANGED <<regs, stack, reportVars>>
    BY <1>7 DEF Ecall
  <2>2. stack = <<>>
    BY <2>1, FramesHere
  <2>3. QED BY <2>1, <2>2, TrapStep
<1>8. QED
  BY <1>2, <1>3, <1>4, <1>5, <1>6, <1>7 DEF ProgramStep

\* An interrupt is only taken out of the program: a handler has them off.
LEMMA InterruptKeeps ==
    ASSUME TrapInvariant, TakesInterrupt(meip), NoteResumption
    PROVE  TrapTypeOK' /\ HandlerInvariant'
<1>1. mie /\ InterruptTaken(meip)
  BY DEF TakesInterrupt, InterruptTaken
<1>2. stack = <<>> /\ pc # "trap"
  BY <1>1 DEF TrapInvariant, HandlerInvariant, InHandler
<1>3. Len(stack) = 0
  BY <1>2, FramesHere
<1>4. pc \in {"boot", "program", "ecall", "printed"}
  BY <1>2, <1>3, FramesHere DEF TrapInvariant, TrapTypeOK, Labels
<1>5. PICK cause \in Irqs : Trap(cause) /\ UNCHANGED <<regs, stack, reportVars>>
  BY DEF TakesInterrupt, Irqs
<1>6. QED
  BY <1>1, <1>2, <1>4, <1>5, TrapStep

\* The steps of the code below the program.
LEMMA HandlerStepKeeps ==
    ASSUME TrapInvariant, TrapHandlerStep \/ IsrReads(ReadData), NoteResumption
    PROVE  TrapTypeOK' /\ HandlerInvariant'
<1>1. CASE IsrTests \/ IsrStores \/ UserIsr \/ IsrReads(ReadData)
  <2>1. /\ pc \in {"isr_test", "isr_read", "isr_store", "user_isr"}
        /\ pc' \in {"isr_read", "isr_store", "return"}
        /\ UNCHANGED <<regs, stack, trapVars, reportVars>>
    BY <1>1 DEF IsrTests, IsrStores, UserIsr, IsrReads
  <2>2. QED BY <2>1, IsrMoves
<1>2. QED
  BY <1>1, SavesFrameStep, ReturnsStep, IsrCalls, ExceptionStep, PrintsStep, PrintedStep,
     SyscallMoves, SysExitStep, SysReturnStep
  DEF TrapHandlerStep

\* The registers of interrupts keep their types.
LEMMA IrqTypeStep ==
    ASSUME IrqTypeOK, HartStep \/ Timer
    PROVE  IrqTypeOK'
<1>1. CASE UNCHANGED <<irqVars, halted>>
  BY <1>1 DEF IrqTypeOK, irqVars
<1>2. CASE InitSyscalls \/ UsesTimer \/ TimerFires \/ UserIsr
  BY <1>2 DEF IrqTypeOK, InitSyscalls, UsesTimer, TimerFires, UserIsr, Irqs
<1>3. CASE Halts \/ SysWrite
  BY <1>3 DEF IrqTypeOK, Halts, SysWrite, irqVars
<1>4. QED
  BY <1>1, <1>2, <1>3
  DEF HartStep, Timer, Step, ReadsDevice, Interrupted, TrapHandlerStep, ProgramStep,
      SavesFrame, Returns, Isr, Exception, Prints, Printed, IsrTests, IsrStores, SysRead,
      Copies, SysOther, SysExit, SysReturn, EnablesOrDisablesInterrupts, Faults, Ecall,
      SetsUpCall, IsrReads, TakesInterrupt

\* A step of the hart, or one that leaves the trap handler's state alone.
LEMMA TrapSteps ==
    ASSUME [Next]_vars
    PROVE  \/ HartStep
           \/ /\ UNCHANGED <<pc, regs, stack, trapVars, reportVars, resume>>
              /\ Timer \/ UNCHANGED <<irqVars, halted>>
BY DEF Next, Idle, SpeculativeRead, Host, Timer, TimerFires, Ended, vars, bspVars

\* Every step keeps the invariant.
LEMMA TrapInvariantStep ==
    ASSUME TrapInvariant, [Next]_vars
    PROVE  TrapInvariant'
<1>1. CASE HartStep
  <2>1. IrqTypeOK'
    BY <1>1, IrqTypeStep DEF TrapInvariant
  <2>2. NoteResumption
    BY <1>1 DEF HartStep
  <2>3. CASE Step
    BY <2>1, <2>2, <2>3, HandlerStepKeeps, ProgramStepKeeps DEF Step, TrapInvariant
  <2>4. CASE ReadsDevice
    BY <2>1, <2>2, <2>4, HandlerStepKeeps DEF ReadsDevice, TrapInvariant
  <2>5. CASE Interrupted
    BY <2>1, <2>2, <2>5, InterruptKeeps DEF Interrupted, TrapInvariant
  <2>6. QED BY <1>1, <2>3, <2>4, <2>5 DEF HartStep
<1>2. CASE /\ UNCHANGED <<pc, regs, stack, trapVars, reportVars, resume>>
           /\ Timer \/ UNCHANGED <<irqVars, halted>>
  <2>1. IrqTypeOK'
    <3>1. CASE Timer
      BY <3>1, IrqTypeStep DEF TrapInvariant
    <3>2. CASE UNCHANGED <<irqVars, halted>>
      BY <3>2 DEF TrapInvariant, IrqTypeOK, irqVars
    <3>3. QED BY <1>2, <3>1, <3>2
  <2>2. UNCHANGED <<pc, regs, stack, mepc, mcause, mie, mpie, printer, report, resume>>
    BY <1>2 DEF trapVars, reportVars
  <2>3. TrapTypeOK'
    BY <2>2 DEF TrapInvariant, TrapTypeOK
  <2>4. HandlerInvariant'
    BY <2>2
    DEF TrapInvariant, HandlerInvariant, CauseFits, NestedFits, PrinterFits, ResumeFits,
        InHandler, IsNested
  <2>5. QED BY <2>1, <2>3, <2>4 DEF TrapInvariant
<1>3. QED BY <1>1, <1>2, TrapSteps

\* After reset there is no trap (boot.S 1-20).
LEMMA TrapInvariantInit == Init => TrapInvariant
<1> SUFFICES ASSUME Init PROVE TrapInvariant
  OBVIOUS
<1>1. /\ pc = "boot" /\ regs = NoCall /\ stack = <<>> /\ mepc = "boot" /\ mcause = "none"
      /\ mie = FALSE /\ mpie = FALSE /\ printer = "none" /\ report = "none"
      /\ resume = NoResume
  BY DEF Init, BspInit
<1>2. Len(stack) = 0 /\ stack \in Seq(Registers)
  BY <1>1, EmptySeq
<1>3. TrapTypeOK
  BY <1>1, <1>2, PrintCallType DEF TrapTypeOK, Labels, NoResume
<1>4. IrqTypeOK
  BY DEF Init, BspInit, IrqTypeOK
<1>5. ~InHandler /\ ~IsNested /\ Len(stack) \in Frames(pc)
  BY <1>1, <1>2, FramesOf DEF InHandler, IsNested
<1>6. HandlerInvariant
  BY <1>1, <1>5 DEF HandlerInvariant, CauseFits, NestedFits, PrinterFits, ResumeFits
<1>7. QED BY <1>3, <1>4, <1>6 DEF TrapInvariant

\* Wherever the trap handler and the code it calls may be, the trap's registers belong to
\* the innermost trap (trap.S 21-110, TrapHandler.scala 140-173).
THEOREM HandlerInvariantHolds == Spec => []HandlerInvariant
<1>1. Spec => []TrapInvariant
  BY TrapInvariantInit, TrapInvariantStep, PTL DEF Spec
<1>2. TrapInvariant => HandlerInvariant
  BY DEF TrapInvariant
<1>3. QED BY <1>1, <1>2, PTL

\* Handlers run with interrupts off, one call of their own deep, and with mepc intact
\* until they print (trap.S 21-82, interrupts.c 10, exceptions.c 5-10).
THEOREM HandlersRunUndisturbed == Spec => []HandlersAreUndisturbed
<1>1. Spec => []TrapInvariant
  BY TrapInvariantInit, TrapInvariantStep, PTL DEF Spec
<1>2. TrapInvariant => HandlersAreUndisturbed
  <2> SUFFICES ASSUME TrapInvariant PROVE HandlersAreUndisturbed
    OBVIOUS
  <2>1. stack # <<>> \/ pc = "trap" => ~mie
    BY DEF TrapInvariant, HandlerInvariant, InHandler
  <2>2. Len(stack) \in {0, 1, 2}
    <3>1. \/ pc \in {"boot", "program", "ecall"}
          \/ pc \in {"trap", "printed"}
          \/ pc \in {"syscall", "sysret", "return"}
          \/ pc \in {"copy", "isr", "isr_test", "isr_read", "isr_store", "user_isr",
                     "exception", "print", "halt", "halted"}
      BY DEF TrapInvariant, TrapTypeOK, Labels
    <3>2. QED BY <3>1, FramesHere
  <2>3. Len(stack) = 2 => printer # "none"
    BY DEF TrapInvariant, HandlerInvariant, NestedFits, IsNested
  <2>4. Len(stack) <= (IF printer = "none" THEN 1 ELSE 2)
    <3>1. CASE Len(stack) = 0
      BY <3>1
    <3>2. CASE Len(stack) = 1
      BY <3>2
    <3>3. CASE Len(stack) = 2
      BY <3>3, <2>3
    <3>4. QED BY <2>2, <3>1, <3>2, <3>3
  <2>5. stack # <<>> /\ printer = "none" =>
          resume.pc = IF pc = "return" \/ mcause \in Irqs THEN mepc ELSE After(mepc)
    BY DEF TrapInvariant, HandlerInvariant, ResumeFits, InHandler
  <2>6. report # "none" => report = resume.pc
    BY DEF TrapInvariant, HandlerInvariant, PrinterFits
  <2>7. QED BY <2>1, <2>4, <2>5, <2>6 DEF HandlersAreUndisturbed
<1>3. QED BY <1>1, <1>2, PTL

\* The step that leaves the outermost handler gives the program its registers, its
\* instruction and its interrupts back (trap.S 61-91, TrapHandler.scala 164-173).
THEOREM ProgramGoesOn == Spec => ProgramIsResumed
<1>1. Spec => []TrapInvariant
  BY TrapInvariantInit, TrapInvariantStep, PTL DEF Spec
<1>2. ASSUME TrapInvariant, [Next]_vars, stack # <<>>, stack' = <<>>, printer # "ignored"
      PROVE  pc' = resume.pc /\ regs' = resume.regs /\ mie' = resume.mie
  <2>1. Returns
    <3>1. HartStep
      BY <1>2, TrapSteps
    <3>2. ~SavesFrame /\ ~SysReturn
      <4>1. stack \in Seq(Registers) /\ regs \in Registers /\ Len(stack) \in Nat
        BY <1>2, Frames0 DEF TrapInvariant, TrapTypeOK
      <4>2. Append(stack, regs) # <<>>
        BY <4>1, AppendProperties
      <4>3. pc = "sysret" => Len(stack) \in 1 .. Len(stack)
        BY <1>2, FramesHere
      <4>4. pc = "sysret" => Len([stack EXCEPT ![Len(stack)] = NoCall]) = Len(stack)
        BY <4>1, <4>3, PrintCallType, ExceptSeq
      <4>5. pc = "sysret" => [stack EXCEPT ![Len(stack)] = NoCall] # <<>>
        BY <4>3, <4>4, EmptySeq
      <4>6. QED
        BY <1>2, <4>2, <4>5 DEF SavesFrame, SysReturn
    <3>3. QED
      BY <1>2, <3>1, <3>2
      DEF HartStep, Step, ReadsDevice, Interrupted, TrapHandlerStep, ProgramStep,
          Isr, UserIsr, Exception, Prints, Printed, Halts, IsrTests, IsrReads, IsrStores,
          SysRead, Copies, SysWrite, SysOther, SysExit, InitSyscalls, SetsUpCall,
          EnablesOrDisablesInterrupts, UsesTimer, Faults, Ecall, TakesInterrupt
  <2>2. pc = "return" /\ pc' = mepc /\ mie' = mpie /\ regs' = stack[Len(stack)]
    BY <2>1 DEF Returns
  <2>3. Len(stack) = 1
    <3>1. Len(stack) \in {1, 2}
      BY <1>2, <2>2, FramesHere
    <3>2. CASE Len(stack) = 2
      <4>1. stack' = SubSeq(stack, 1, Len(stack) - 1)
        BY <2>1 DEF Returns
      <4>2. stack \in Seq(Registers)
        BY <1>2 DEF TrapInvariant, TrapTypeOK
      <4>3. \A i \in 1 .. 1 : stack[i] \in Registers
        BY <4>2, <3>2, ElementOfSeq
      <4>4. Len(SubSeq(stack, 1, 1)) = 1
        BY <4>3, SubSeqProperties
      <4>5. stack' = SubSeq(stack, 1, 1)
        BY <4>1, <3>2
      <4>6. QED BY <4>4, <4>5, <1>2, EmptySeq
    <3>3. QED BY <3>1, <3>2
  <2>4. printer = "none"
    BY <1>2, <2>2, <2>3
    DEF TrapInvariant, TrapTypeOK, HandlerInvariant, PrinterFits, IsNested
  <2>5. QED
    BY <1>2, <2>2, <2>3, <2>4 DEF TrapInvariant, HandlerInvariant, ResumeFits, InHandler
<1>3. TrapInvariant /\ [Next]_vars
        => [stack # <<>> /\ stack' = <<>> /\ printer # "ignored" =>
              pc' = resume.pc /\ regs' = resume.regs /\ mie' = resume.mie]_vars
  BY <1>2
<1>4. QED BY <1>1, <1>3, PTL DEF Spec, ProgramIsResumed
-----------------------------------------------------------------------------
(* Sequences of numbered bytes. *)

\* The numbers grow.
Ordered(s) == \A i, j \in 1 .. Len(s) : i < j => s[i] < s[j]
Elements(s) == {s[i] : i \in 1 .. Len(s)}

\* A later byte goes to the end.
LEMMA OrderedAppend ==
    ASSUME NEW s \in Seq(Nat), NEW b \in Nat, Ordered(s), \A i \in 1 .. Len(s) : s[i] < b
    PROVE  /\ Ordered(Append(s, b)) /\ Elements(Append(s, b)) = Elements(s) \cup {b}
           /\ Append(s, b) \in Seq(Nat)
<1> DEFINE t == Append(s, b)
<1>1. /\ t \in Seq(Nat) /\ Len(t) = Len(s) + 1 /\ t[Len(s) + 1] = b
      /\ \A i \in 1 .. Len(s) : t[i] = s[i]
  BY AppendProperties
<1>2. Len(s) \in Nat /\ \A i \in 1 .. Len(s) : s[i] \in Nat
  OBVIOUS
<1> HIDE DEF t
<1>3. \A i \in 1 .. Len(t) : i \in 1 .. Len(s) \/ i = Len(s) + 1
  BY <1>1, <1>2
<1>4. Ordered(t)
  <2>1. ASSUME NEW i \in 1 .. Len(t), NEW j \in 1 .. Len(t), i < j PROVE t[i] < t[j]
    <3>1. i \in 1 .. Len(s)
      BY <1>1, <1>2, <2>1
    <3>2. CASE j \in 1 .. Len(s)
      BY <1>1, <2>1, <3>1, <3>2 DEF Ordered
    <3>3. CASE j = Len(s) + 1
      BY <1>1, <3>1, <3>3
    <3>4. QED BY <1>3, <3>2, <3>3
  <2>2. QED BY <2>1 DEF Ordered
<1>5. Elements(t) = Elements(s) \cup {b}
  <2>1. \A i \in 1 .. Len(s) : i \in 1 .. Len(t)
    BY <1>1, <1>2
  <2>2. Len(s) + 1 \in 1 .. Len(t)
    BY <1>1, <1>2
  <2>3. QED BY <1>1, <1>3, <2>1, <2>2 DEF Elements
<1>6. QED BY <1>1, <1>4, <1>5 DEF t

\* The elements of two sequences, one behind the other.
LEMMA ElementsOfBoth ==
    ASSUME NEW a \in Seq(Nat), NEW b \in Seq(Nat)
    PROVE  Elements(a \o b) = Elements(a) \cup Elements(b)
<1> DEFINE t == a \o b
           la == Len(a)
           lb == Len(b)
<1>1. /\ Len(t) = la + lb /\ la \in Nat /\ lb \in Nat
      /\ \A i \in 1 .. la : t[i] = a[i]
      /\ \A i \in 1 .. lb : t[la + i] = b[i]
  BY ConcatProperties
<1>2. Elements(a) = {a[i] : i \in 1 .. la} /\ Elements(b) = {b[i] : i \in 1 .. lb}
      /\ Elements(t) = {t[i] : i \in 1 .. Len(t)}
  BY DEF Elements
<1> HIDE DEF t, la, lb
<1>3. \A i \in 1 .. la : i \in 1 .. Len(t)
  BY <1>1
<1>4. \A i \in 1 .. lb : la + i \in 1 .. Len(t)
  BY <1>1
<1>5. \A i \in 1 .. Len(t) : i \in 1 .. la \/ (i - la \in 1 .. lb /\ la + (i - la) = i)
  BY <1>1
<1>6. Elements(t) \subseteq Elements(a) \cup Elements(b)
  <2>1. ASSUME NEW i \in 1 .. Len(t) PROVE t[i] \in Elements(a) \cup Elements(b)
    BY <1>1, <1>2, <1>5
  <2>2. QED BY <1>2, <2>1
<1>7. Elements(a) \cup Elements(b) \subseteq Elements(t)
  BY <1>1, <1>2, <1>3, <1>4
<1>8. QED BY <1>6, <1>7 DEF t

\* A byte that is taken out leaves the others in order.
LEMMA OrderedWithout ==
    ASSUME NEW a \in Seq(Nat), NEW x \in Nat, NEW b \in Seq(Nat), NEW E,
           Ordered((a \o <<x>>) \o b), Elements((a \o <<x>>) \o b) = E
    PROVE  /\ Ordered(a \o b) /\ Elements(a \o b) = E \ {x}
           /\ x \in E /\ \A i \in 1 .. Len(a) : a[i] < x
<1> DEFINE s == (a \o <<x>>) \o b
           t == a \o b
           la == Len(a)
           lb == Len(b)
<1>1. /\ Len(s) = la + 1 + lb /\ s \in Seq(Nat)
      /\ \A i \in 1 .. la : s[i] = a[i]
      /\ s[la + 1] = x
      /\ \A i \in 1 .. lb : s[la + 1 + i] = b[i]
  <2>1. <<x>> \in Seq(Nat) /\ Len(<<x>>) = 1 /\ <<x>>[1] = x
    OBVIOUS
  <2>2. /\ a \o <<x>> \in Seq(Nat) /\ Len(a \o <<x>>) = la + 1
        /\ \A i \in 1 .. la : (a \o <<x>>)[i] = a[i]
        /\ (a \o <<x>>)[la + 1] = x
    BY <2>1, ConcatProperties
  <2>3. QED BY <2>2, ConcatProperties
<1>2. /\ Len(t) = la + lb /\ t \in Seq(Nat)
      /\ \A i \in 1 .. la : t[i] = a[i]
      /\ \A i \in 1 .. lb : t[la + i] = b[i]
  BY ConcatProperties
<1>3. la \in Nat /\ lb \in Nat /\ Ordered(s) /\ Elements(s) = E
  OBVIOUS
<1>4. \A i \in 1 .. Len(s) : s[i] \in Nat
  BY <1>1
<1> HIDE DEF s, t, la, lb
<1> DEFINE at(i) == IF i <= la THEN i ELSE i + 1
<1>5. \A i \in 1 .. Len(t) : at(i) \in 1 .. Len(s) /\ t[i] = s[at(i)] /\ at(i) # la + 1
  <2> SUFFICES ASSUME NEW i \in 1 .. Len(t)
               PROVE  at(i) \in 1 .. Len(s) /\ t[i] = s[at(i)] /\ at(i) # la + 1
    OBVIOUS
  <2>1. CASE i <= la
    BY <1>1, <1>2, <1>3, <2>1
  <2>2. CASE ~(i <= la)
    <3>1. i - la \in 1 .. lb
      BY <1>2, <1>3, <2>2
    <3>2. t[la + (i - la)] = b[i - la] /\ s[la + 1 + (i - la)] = b[i - la]
      BY <1>1, <1>2, <3>1
    <3>3. la + (i - la) = i /\ la + 1 + (i - la) = i + 1
      BY <1>3
    <3>4. QED BY <1>1, <1>2, <1>3, <2>2, <3>2, <3>3
  <2>3. QED BY <2>1, <2>2
<1>6. \A i, j \in 1 .. Len(t) : i < j => at(i) < at(j)
  BY <1>3
<1>7. Ordered(t)
  <2> HIDE DEF at
  <2>1. QED BY <1>3, <1>5, <1>6 DEF Ordered
<1>8. \A k \in 1 .. Len(s) : k # la + 1 => s[k] # x
  <2>1. la + 1 \in 1 .. Len(s)
    BY <1>1, <1>3
  <2>2. \A k \in 1 .. Len(s) : k # la + 1 => k < la + 1 \/ la + 1 < k
    BY <1>3
  <2>3. \A k \in 1 .. Len(s) : k # la + 1 => s[k] < x \/ x < s[k]
    BY <1>1, <1>3, <2>1, <2>2 DEF Ordered
  <2>4. QED BY <1>4, <2>3
<1>9. \A k \in 1 .. Len(s) : k # la + 1 => \E i \in 1 .. Len(t) : at(i) = k
  <2> SUFFICES ASSUME NEW k \in 1 .. Len(s), k # la + 1
               PROVE  \E i \in 1 .. Len(t) : at(i) = k
    OBVIOUS
  <2>1. CASE k <= la
    <3>1. k \in 1 .. Len(t) /\ at(k) = k
      BY <1>1, <1>2, <1>3, <2>1
    <3> HIDE DEF at
    <3>2. QED BY <3>1
  <2>2. CASE ~(k <= la)
    <3>1. k - 1 \in 1 .. Len(t) /\ at(k - 1) = k
      BY <1>1, <1>2, <1>3, <2>2
    <3> HIDE DEF at
    <3>2. QED BY <3>1
  <2>3. QED BY <2>1, <2>2
<1>10. Elements(t) = E \ {x}
  <2> HIDE DEF at
  <2>1. ASSUME NEW i \in 1 .. Len(t) PROVE t[i] \in E \ {x}
    BY <1>3, <1>5, <1>8 DEF Elements
  <2>2. ASSUME NEW e \in E \ {x} PROVE e \in Elements(t)
    <3>1. PICK k \in 1 .. Len(s) : e = s[k]
      BY <1>3 DEF Elements
    <3>2. k # la + 1
      BY <1>1, <3>1
    <3>3. PICK i \in 1 .. Len(t) : at(i) = k
      BY <1>9, <3>2
    <3>4. QED BY <1>5, <3>1, <3>3 DEF Elements
  <2>3. Elements(t) \subseteq E \ {x}
    BY <2>1 DEF Elements
  <2>4. QED BY <2>2, <2>3
<1>11. x \in E
  BY <1>1, <1>3 DEF Elements
<1>12. \A i \in 1 .. la : a[i] < x
  <2>1. \A i \in 1 .. la : i \in 1 .. Len(s) /\ la + 1 \in 1 .. Len(s) /\ i < la + 1
    BY <1>1, <1>3
  <2>2. QED BY <1>1, <1>3, <2>1 DEF Ordered
<1>13. QED BY <1>7, <1>10, <1>11, <1>12 DEF t, la

\* What follows a byte of the sequence is the next one that is not lost.
LEMMA NextInOrder ==
    ASSUME NEW s \in Seq(Nat), NEW n \in Nat, NEW L, Ordered(s), Elements(s) = (1 .. n) \ L,
           NEW m \in Nat, m < Len(s), NEW last \in Nat,
           m = 0 => last = 0, m # 0 => last = s[m]
    PROVE  /\ s[m + 1] \in (last + 1 .. n) \ L
           /\ (last + 1 .. s[m + 1] - 1) \subseteq L
<1>1. Len(s) \in Nat /\ m + 1 \in 1 .. Len(s) /\ \A i \in 1 .. Len(s) : s[i] \in Nat
  OBVIOUS
<1>2. s[m + 1] \in (1 .. n) \ L
  BY <1>1 DEF Elements
<1>3. last < s[m + 1]
  <2>1. CASE m = 0
    BY <1>2, <2>1
  <2>2. CASE m # 0
    <3>1. m \in 1 .. Len(s) /\ m < m + 1
      BY <1>1, <2>2
    <3>2. QED BY <1>1, <2>2, <3>1 DEF Ordered
  <2>3. QED BY <2>1, <2>2
<1>4. ASSUME NEW x \in last + 1 .. s[m + 1] - 1, x \notin L PROVE FALSE
  <2>1. x \in Nat /\ last < x /\ x < s[m + 1] /\ x \in 1 .. n
    BY <1>1, <1>2
  <2>2. x \in Elements(s)
    BY <1>4, <2>1
  <2>3. PICK k \in 1 .. Len(s) : s[k] = x
    BY <2>2 DEF Elements
  <2>4. CASE k <= m
    <3>1. m # 0 /\ m \in 1 .. Len(s)
      BY <1>1, <2>4
    <3>2. s[k] <= s[m]
      <4>1. CASE k = m
        BY <1>1, <3>1, <4>1
      <4>2. CASE k # m
        BY <1>1, <2>4, <3>1, <4>2 DEF Ordered
      <4>3. QED BY <4>1, <4>2
    <3>3. QED BY <1>1, <2>1, <2>3, <3>1, <3>2
  <2>5. CASE ~(k <= m)
    <3>1. s[m + 1] <= s[k]
      <4>1. CASE k = m + 1
        BY <1>1, <4>1
      <4>2. CASE k # m + 1
        BY <1>1, <2>5, <4>2 DEF Ordered
      <4>3. QED BY <4>1, <4>2
    <3>2. QED BY <1>1, <2>1, <2>3, <3>1
  <2>6. QED BY <2>4, <2>5
<1>5. QED BY <1>1, <1>2, <1>3, <1>4

-----------------------------------------------------------------------------
(* Where the bytes are. *)

\* The byte the handler has in a register.
IsrPart == IF pc = "isr_store" THEN <<isrByte>> ELSE <<>>

\* The lost bytes in whose place the handler has read nothing.
Gone == lost \ Elements(origin)

\* There is a byte the handler has not read: in the device, or a lost one.
ByteIsDue == rbufFull \/ Missing # {}

\* When the handler reads the device, a byte is due; and there is room for it in the
\* buffer.
ReadInvariant ==
  /\ callbacks["MTI"] # "stdin"
  /\ meie => callbacks["MEI"] = "stdin"
  /\ pc \in {"trap", "isr"} /\ mcause = "MEI" => callbacks["MEI"] = "stdin" /\ ByteIsDue
  /\ pc = "isr_test" => ByteIsDue
  /\ pc = "isr_read" => ByteIsDue /\ ~stdin_buf_is_full
  /\ pc = "isr_store" => ~stdin_buf_is_full

\* The bytes on their way are in order, and are all that the simulator has taken but the
\* lost ones in whose place nothing was read.
BytesAreInOrder ==
  /\ lost \subseteq 1 .. taken
  /\ Ordered(origin \o InDevice)
  /\ Elements(origin \o InDevice) = (1 .. taken) \ Gone
  /\ Elements(InDevice) \cap lost = {}

\* What a byte of the handler's is.
Read(b) == IF b \in lost THEN NoByte ELSE b

\* What the handler has read is what it stands for, or blank if that was lost.
BlanksAreLost ==
  /\ Len(ReadByHandler) = Len(origin)
  /\ \A i \in 1 .. Len(origin) : ReadByHandler[i] = Read(origin[i])

\* The inductive invariant.
ConsoleInvariant ==
  /\ StdinTypeOK /\ HandshakeInvariant
  /\ TrapInvariant
  /\ RingTypeOK
  /\ ReadInvariant
  /\ BytesAreInOrder
  /\ BlanksAreLost

\* Sequences of one and two bytes.
LEMMA ShortSequences ==
    ASSUME NEW S, NEW a \in S, NEW b \in S
    PROVE  /\ <<a>> \o <<b>> = <<a, b>> /\ Append(<<a>>, b) = <<a, b>>
           /\ <<a>> \o <<>> = <<a>> /\ <<>> \o <<a>> = <<a>> /\ Append(<<>>, a) = <<a>>
<1> DEFINE s == <<a>> \o <<b>>
           t == <<a, b>>
<1>1. <<a>> \in Seq(S) /\ <<b>> \in Seq(S) /\ t \in Seq(S)
  OBVIOUS
<1>2. /\ Len(<<a>>) = 1 /\ Len(<<b>>) = 1 /\ Len(t) = 2 /\ <<a>>[1] = a /\ <<b>>[1] = b
      /\ t[1] = a /\ t[2] = b
  OBVIOUS
<1>3. s \in Seq(S) /\ Len(s) = 2 /\ s[1] = a /\ s[2] = b
  BY <1>1, <1>2, ConcatProperties
<1> HIDE DEF s, t
<1>4. \A i \in 1 .. Len(s) : s[i] = t[i]
  <2>1. \A i \in 1 .. 2 : i = 1 \/ i = 2
    OBVIOUS
  <2>2. QED BY <1>2, <1>3, <2>1
<1>5. s = t
  BY <1>1, <1>2, <1>3, <1>4, SeqEqual
<1>6. Append(<<a>>, b) = s
  BY <1>1, AppendIsConcat DEF s
<1>7. <<a>> \o <<>> = <<a>> /\ <<>> \o <<a>> = <<a>> /\ Append(<<>>, a) = <<a>>
  OBVIOUS
<1>8. QED BY <1>5, <1>6, <1>7 DEF s, t

\* The remainders of positions in the buffer.
LEMMA Wraps ==
    ASSUME NEW x \in Int, -StdinBufSize <= x, x < 2 * StdinBufSize
    PROVE  x % StdinBufSize = IF x < 0 THEN x + StdinBufSize
                              ELSE IF x < StdinBufSize THEN x ELSE x - StdinBufSize
<1> DEFINE n == StdinBufSize
<1>1. n \in Nat \ {0}
  BY StdinBufSizeAssumption
<1>2. CASE x < 0
  BY <1>1, <1>2
<1>3. CASE 0 <= x /\ x < n
  BY <1>1, <1>3
<1>4. CASE n <= x
  BY <1>1, <1>4
<1>5. QED BY <1>1, <1>2, <1>3, <1>4

\* The same, of positions that are not negative.
LEMMA WrapsUp ==
    ASSUME NEW x \in Int, 0 <= x, x < 2 * StdinBufSize
    PROVE  x % StdinBufSize = IF x < StdinBufSize THEN x ELSE x - StdinBufSize
<1>1. -StdinBufSize <= x
  BY StdinBufSizeAssumption
<1>2. QED BY <1>1, Wraps

\* The bytes in the buffer, and when it is empty or full.
LEMMA RingFacts ==
    ASSUME RingTypeOK
    PROVE  /\ RingCount \in 0 .. StdinBufSize - 1
           /\ RingCount = IF stdin_buf_wpos < stdin_buf_rpos
                          THEN stdin_buf_wpos - stdin_buf_rpos + StdinBufSize
                          ELSE stdin_buf_wpos - stdin_buf_rpos
           /\ RingCount = 0 <=> stdin_buf_is_empty
           /\ RingCount = StdinBufSize - 1 <=> stdin_buf_is_full
           /\ Ring \in Seq(Byte) /\ Len(Ring) = RingCount
           /\ \A i \in 1 .. RingCount :
                Ring[i] = stdin_buf[(stdin_buf_rpos + i - 1) % StdinBufSize]
<1> DEFINE n == StdinBufSize
           r == stdin_buf_rpos
           w == stdin_buf_wpos
<1>1. n \in Nat /\ n > 1 /\ r \in 0 .. n - 1 /\ w \in 0 .. n - 1
  BY StdinBufSizeAssumption DEF RingTypeOK
<1>2. RingCount = IF w < r THEN w - r + n ELSE w - r
  BY <1>1, Wraps DEF RingCount
<1>3. stdin_buf_is_full <=> (IF w + 1 < n THEN w + 1 ELSE 0) = r
  BY <1>1, Wraps DEF stdin_buf_is_full, stdin_buf_next_pos
<1>4. stdin_buf_is_empty <=> r = w
  BY DEF stdin_buf_is_empty
<1>5. \A i \in 1 .. RingCount : (r + i - 1) % n \in 0 .. n - 1
  <2>1. RingCount <= n - 1 /\ RingCount \in Nat
    BY <1>1, <1>2
  <2>2. SUFFICES ASSUME NEW i \in 1 .. RingCount PROVE (r + i - 1) % n \in 0 .. n - 1
    OBVIOUS
  <2>3. r + i - 1 \in Int /\ -n <= r + i - 1 /\ r + i - 1 < 2 * n /\ 0 <= r + i - 1
    BY <1>1, <2>1
  <2>4. QED BY <1>1, <2>3, Wraps
<1>6. \A i \in 1 .. RingCount : stdin_buf[(r + i - 1) % n] \in Byte
  BY <1>5 DEF RingTypeOK
<1>7. RingCount \in 0 .. n - 1 /\ (RingCount = 0 <=> r = w)
      /\ (RingCount = n - 1 <=> (IF w + 1 < n THEN w + 1 ELSE 0) = r)
  BY <1>1, <1>2
<1> HIDE DEF n, r, w
<1>8. Ring \in Seq(Byte) /\ Len(Ring) = RingCount
      /\ \A i \in 1 .. RingCount : Ring[i] = stdin_buf[(r + i - 1) % n]
  <2>1. Ring = [i \in 1 .. RingCount |-> stdin_buf[(r + i - 1) % n]]
    BY DEF Ring, n, r
  <2>2. RingCount \in Nat
    BY <1>1, <1>7
  <2>3. QED BY <1>6, <2>1, <2>2
<1>9. QED BY <1>2, <1>3, <1>4, <1>7, <1>8 DEF n, r, w

\* What the handler has read, and what is in the device, are sequences of bytes.
LEMMA PartTypes ==
    ASSUME RingTypeOK, StdinTypeOK
    PROVE  /\ received \in Seq(Byte) /\ Ring \in Seq(Byte) /\ IsrPart \in Seq(Byte)
           /\ ReadByHandler \in Seq(Byte) /\ InDevice \in Seq(Byte)
           /\ ReadByHandler = (received \o Ring) \o IsrPart
<1>1. received \in Seq(Byte) /\ Ring \in Seq(Byte)
  BY RingFacts DEF RingTypeOK
<1>2. IsrPart \in Seq(Byte)
  BY DEF IsrPart, RingTypeOK
<1>3. ReadByHandler = (received \o Ring) \o IsrPart
  BY DEF ReadByHandler, IsrPart
<1>4. ReadByHandler \in Seq(Byte)
  BY <1>1, <1>2, <1>3, ConcatProperties
<1> DEFINE b == IF rbufFull THEN <<rbuf>> ELSE <<>>
           d == IF rdata # NoByte THEN <<rdata>> ELSE <<>>
<1>5. b \in Seq(Byte) /\ d \in Seq(Byte)
  BY DEF StdinTypeOK
<1>6. InDevice \in Seq(Byte)
  BY <1>5, ConcatProperties DEF InDevice
<1>7. QED BY <1>1, <1>2, <1>3, <1>4, <1>6

\* Bytes are numbers.
LEMMA PartsAreNumbers ==
    ASSUME StdinTypeOK, RingTypeOK
    PROVE  /\ origin \in Seq(Nat) /\ InDevice \in Seq(Nat) /\ received \in Seq(Nat)
           /\ taken \in Nat /\ Byte \subseteq Nat
<1>1. Byte \subseteq Nat /\ taken \in Nat
  BY MaxBytesAssumption DEF Byte, StdinTypeOK
<1>2. \A s \in Seq(Byte) : s \in Seq(Nat)
  BY <1>1, SeqMonotonic
<1>3. QED BY <1>1, <1>2, PartTypes DEF RingTypeOK

-----------------------------------------------------------------------------
(* A cycle of the device. *)

\* Nothing moves, or the next byte of the host comes in behind the others.
Extends(bytes, next) ==
  \/ next = bytes /\ taken' = taken
  \/ next = Append(bytes, taken + 1) /\ taken' = taken + 1

\* What the simulator offers after a cycle: what it offered, while the device has no room
\* for it, or the next byte, or none.
LEMMA OfferedNext ==
    ASSUME StdinTypeOK, HandshakeInvariant, NEW read \in BOOLEAN, StdinCycle(read)
    PROVE  /\ rbufFull /\ rdata # NoByte => rdata' = rdata /\ taken' = taken
           /\ ~(rbufFull /\ rdata # NoByte) =>
                \/ rdata' = NoByte /\ taken' = taken
                \/ rdata' = taken + 1 /\ taken' = taken + 1 /\ rdata' # NoByte
<1>1. taken \in Nat /\ rdata' = Offered
      /\ taken' = (IF GetsByte THEN taken + 1 ELSE taken)
  BY MaxBytesAssumption DEF StdinTypeOK, Byte, StdinCycle, ByteDevEval
<1>2. currentStdinByte = IF rbufFull THEN rdata ELSE NoByte
  BY DEF HandshakeInvariant
<1>3. CASE rbufFull /\ rdata # NoByte
  BY <1>1, <1>2, <1>3 DEF Offered, GetsByte, Gets, hasStdinByte
<1>4. CASE ~(rbufFull /\ rdata # NoByte)
  <2>1. currentStdinByte = NoByte
    BY <1>2, <1>4
  <2>2. taken + 1 # NoByte
    BY <1>1 DEF NoByte
  <2>3. QED BY <1>1, <1>4, <2>1, <2>2 DEF Offered
<1>5. QED BY <1>3, <1>4

\* The bytes in the device and on their way into it, written out.
LEMMA InDeviceIs ==
  StdinTypeOK =>
    InDevice = IF rbufFull THEN IF rdata # NoByte THEN <<rbuf, rdata>> ELSE <<rbuf>>
                           ELSE IF rdata # NoByte THEN <<rdata>> ELSE <<>>
<1> SUFFICES ASSUME StdinTypeOK
             PROVE  InDevice = IF rbufFull
                               THEN IF rdata # NoByte THEN <<rbuf, rdata>> ELSE <<rbuf>>
                               ELSE IF rdata # NoByte THEN <<rdata>> ELSE <<>>
  OBVIOUS
<1>1. rbuf \in Byte /\ rdata \in Byte
  BY DEF StdinTypeOK
<1>2. /\ <<rbuf>> \o <<rdata>> = <<rbuf, rdata>> /\ <<rbuf>> \o <<>> = <<rbuf>>
      /\ <<>> \o <<rdata>> = <<rdata>>
  BY <1>1, ShortSequences
<1>3. <<>> \o <<>> = <<>>
  OBVIOUS
<1>4. QED BY <1>2, <1>3, Zenon DEF InDevice

\* The same, after a step.
LEMMA InDeviceIsNext ==
  StdinTypeOK' =>
    (InDevice = IF rbufFull THEN IF rdata # NoByte THEN <<rbuf, rdata>> ELSE <<rbuf>>
                            ELSE IF rdata # NoByte THEN <<rdata>> ELSE <<>>)'
BY InDeviceIs, PTL

\* A cycle in which the core does not read the device keeps the bytes in it.
LEMMA QuietCycle ==
    ASSUME StdinTypeOK, HandshakeInvariant, StdinCycle(FALSE)
    PROVE  Extends(InDevice, InDevice') /\ (rbufFull => rbufFull')
<1>1. StdinTypeOK'
  BY StdinCycleStep
<1>2. rbuf' = IF Takes THEN rdata ELSE rbuf
  BY DEF StdinCycle, DeviceEdge, NextRbuf
<1>3. rbuf \in Byte /\ rdata \in Byte /\ taken + 1 \in Nat /\ Byte \subseteq Nat
  BY MaxBytesAssumption DEF StdinTypeOK, Byte
<1>4. \A a, b \in Nat : Append(<<a>>, b) = <<a, b>> /\ Append(<<>>, b) = <<b>>
  BY ShortSequences
<1>5. CASE rbufFull /\ rdata # NoByte
  <2>1. rdata' = rdata /\ taken' = taken /\ rbuf' = rbuf
    BY <1>2, <1>5, OfferedNext DEF Takes
  <2>2. QED BY <1>5, <2>1 DEF Extends, InDevice, rbufFull
<1>6. CASE rbufFull /\ rdata = NoByte
  <2>1. InDevice = <<rbuf>> /\ rbuf' = rbuf /\ rbufFull'
    BY <1>2, <1>6, InDeviceIs DEF Takes, rbufFull
  <2>2. InDevice' = IF rdata' # NoByte THEN <<rbuf, rdata'>> ELSE <<rbuf>>
    BY <1>1, <2>1, InDeviceIsNext
  <2>3. \/ rdata' = NoByte /\ taken' = taken
        \/ rdata' = taken + 1 /\ taken' = taken + 1 /\ rdata' # NoByte
    BY <1>6, OfferedNext
  <2>4. Append(<<rbuf>>, taken + 1) = <<rbuf, taken + 1>>
    BY <1>3, <1>4
  <2>5. QED BY <2>1, <2>2, <2>3, <2>4 DEF Extends
<1>7. CASE ~rbufFull /\ rdata # NoByte
  <2>1. InDevice = <<rdata>> /\ rbuf' = rdata /\ rbufFull'
    BY <1>2, <1>7, InDeviceIs DEF Takes, rbufFull
  <2>2. InDevice' = IF rdata' # NoByte THEN <<rdata, rdata'>> ELSE <<rdata>>
    BY <1>1, <2>1, InDeviceIsNext
  <2>3. \/ rdata' = NoByte /\ taken' = taken
        \/ rdata' = taken + 1 /\ taken' = taken + 1 /\ rdata' # NoByte
    BY <1>7, OfferedNext
  <2>4. Append(<<rdata>>, taken + 1) = <<rdata, taken + 1>>
    BY <1>3, <1>4
  <2>5. QED BY <2>1, <2>2, <2>3, <2>4, <1>7 DEF Extends
<1>8. CASE ~rbufFull /\ rdata = NoByte
  <2>1. InDevice = <<>> /\ ~rbufFull'
    BY <1>2, <1>8, InDeviceIs DEF Takes, rbufFull
  <2>2. InDevice' = IF rdata' # NoByte THEN <<rdata'>> ELSE <<>>
    BY <1>1, <2>1, InDeviceIsNext
  <2>3. \/ rdata' = NoByte /\ taken' = taken
        \/ rdata' = taken + 1 /\ taken' = taken + 1 /\ rdata' # NoByte
    BY <1>8, OfferedNext
  <2>4. Append(<<>>, taken + 1) = <<taken + 1>>
    BY <1>3, <1>4
  <2>5. QED BY <2>1, <2>2, <2>3, <2>4, <1>8 DEF Extends
<1>9. QED BY <1>5, <1>6, <1>7, <1>8

\* What is left in the device when the core reads it.
AfterRead == IF rbufFull /\ rdata # NoByte THEN <<rdata>> ELSE <<>>

\* A cycle in which the core reads the device takes the first byte in it, if any.
LEMMA ReadCycle ==
    ASSUME StdinTypeOK, HandshakeInvariant, StdinCycle(TRUE)
    PROVE  /\ AfterRead \in Seq(Byte) /\ Extends(AfterRead, InDevice')
           /\ InDevice = IF ReadData = NoByte THEN <<>> ELSE <<ReadData>> \o AfterRead
           /\ ReadData \in Byte /\ (rbufFull => ReadData # NoByte)
           /\ ReadData = NoByte => AfterRead = <<>>
<1>1. StdinTypeOK'
  BY StdinCycleStep
<1>2. ~rbufFull'
  BY DEF StdinCycle, DeviceEdge, NextRbuf, rbufFull
<1>3. rbuf \in Byte /\ rdata \in Byte /\ taken + 1 \in Nat /\ Byte \subseteq Nat
  BY MaxBytesAssumption DEF StdinTypeOK, Byte
<1>4. \A a, b \in Nat : /\ Append(<<>>, b) = <<b>>
                        /\ <<a>> \o <<b>> = <<a, b>> /\ <<a>> \o <<>> = <<a>>
  BY ShortSequences
<1>5. ReadData \in Byte /\ (rbufFull => ReadData = rbuf /\ ReadData # NoByte)
      /\ (~rbufFull => ReadData = rdata)
  BY <1>3 DEF ReadData, rbufFull
<1>6. AfterRead \in Seq(Byte)
  BY <1>3 DEF AfterRead
<1>7. InDevice = IF ReadData = NoByte THEN <<>> ELSE <<ReadData>> \o AfterRead
  <2>1. \A a, b \in Byte : <<a>> \o <<b>> = <<a, b>> /\ <<a>> \o <<>> = <<a>>
    BY <1>3, <1>4
  <2>2. QED BY <1>3, <1>5, <2>1, InDeviceIs, Zenon DEF AfterRead
<1>8. Extends(AfterRead, InDevice')
  <2>1. InDevice' = IF rdata' # NoByte THEN <<rdata'>> ELSE <<>>
    BY <1>1, <1>2, InDeviceIsNext
  <2>2. CASE rbufFull /\ rdata # NoByte
    BY <2>1, <2>2, OfferedNext DEF AfterRead, Extends
  <2>3. CASE ~(rbufFull /\ rdata # NoByte)
    <3>1. \/ rdata' = NoByte /\ taken' = taken
          \/ rdata' = taken + 1 /\ taken' = taken + 1 /\ rdata' # NoByte
      BY <2>3, OfferedNext
    <3>2. Append(<<>>, taken + 1) = <<taken + 1>> /\ AfterRead = <<>>
      BY <1>3, <1>4, <2>3 DEF AfterRead
    <3>3. QED BY <2>1, <3>1, <3>2 DEF Extends
  <2>4. QED BY <2>2, <2>3
<1>9. ReadData = NoByte => AfterRead = <<>>
  BY <1>5 DEF AfterRead
<1>10. QED BY <1>5, <1>6, <1>7, <1>8, <1>9

\* A read in which the device has a byte takes the oldest one the handler has not read.
LEMMA TakenOut ==
    ASSUME StdinTypeOK, HandshakeInvariant, RingTypeOK, BytesAreInOrder, StdinCycle(TRUE),
           ReadData # NoByte
    PROVE  /\ Ordered(origin \o AfterRead)
           /\ Elements(origin \o AfterRead) = ((1 .. taken) \ Gone) \ {ReadData}
           /\ Elements(AfterRead) \cap (lost \cup {ReadData}) = {}
           /\ ReadData \in (1 .. taken) \ lost
           /\ \A i \in 1 .. Len(origin) : origin[i] < ReadData
<1>1. /\ origin \in Seq(Nat) /\ InDevice \in Seq(Nat) /\ taken \in Nat /\ Byte \subseteq Nat
  BY PartsAreNumbers
<1>2. AfterRead \in Seq(Byte) /\ ReadData \in Byte /\ InDevice = <<ReadData>> \o AfterRead
  BY ReadCycle
<1>3. AfterRead \in Seq(Nat) /\ ReadData \in Nat /\ <<ReadData>> \in Seq(Nat)
  BY <1>1, <1>2, SeqMonotonic
<1>4. (origin \o <<ReadData>>) \o AfterRead = origin \o InDevice
  BY <1>1, <1>2, <1>3, ConcatAssociative
<1>5. /\ Ordered((origin \o <<ReadData>>) \o AfterRead)
      /\ Elements((origin \o <<ReadData>>) \o AfterRead) = (1 .. taken) \ Gone
      /\ Elements(InDevice) \cap lost = {}
  BY <1>4, Zenon DEF BytesAreInOrder
<1>6. /\ Ordered(origin \o AfterRead)
      /\ Elements(origin \o AfterRead) = ((1 .. taken) \ Gone) \ {ReadData}
      /\ ReadData \in (1 .. taken) \ Gone
      /\ \A i \in 1 .. Len(origin) : origin[i] < ReadData
  <2> DEFINE E == (1 .. taken) \ Gone
  <2>1. /\ Ordered((origin \o <<ReadData>>) \o AfterRead)
        /\ Elements((origin \o <<ReadData>>) \o AfterRead) = E
    BY <1>5
  <2> HIDE DEF E
  <2>2. /\ Ordered(origin \o AfterRead) /\ Elements(origin \o AfterRead) = E \ {ReadData}
        /\ ReadData \in E /\ \A i \in 1 .. Len(origin) : origin[i] < ReadData
    BY <1>1, <1>3, <2>1, OrderedWithout
  <2>3. QED BY <2>2 DEF E
<1>7. /\ Elements(InDevice) = Elements(<<ReadData>>) \cup Elements(AfterRead)
      /\ Elements(origin \o AfterRead) = Elements(origin) \cup Elements(AfterRead)
  BY <1>1, <1>2, <1>3, ElementsOfBoth
<1>8. ReadData \in Elements(<<ReadData>>)
  <2>1. 1 \in 1 .. Len(<<ReadData>>) /\ <<ReadData>>[1] = ReadData
    OBVIOUS
  <2>2. QED BY <2>1 DEF Elements
<1>9. QED BY <1>5, <1>6, <1>7, <1>8

-----------------------------------------------------------------------------
(* The buffer of the board support package. *)

\* What RingFacts says, after a step.
LEMMA RingFactsNext ==
  RingTypeOK' =>
    /\ (RingCount \in 0 .. StdinBufSize - 1)'
    /\ (Ring \in Seq(Byte))' /\ (Len(Ring) = RingCount)'
    /\ (\A i \in 1 .. RingCount :
          Ring[i] = stdin_buf[(stdin_buf_rpos + i - 1) % StdinBufSize])'
<1>1. RingTypeOK =>
        /\ RingCount \in 0 .. StdinBufSize - 1
        /\ Ring \in Seq(Byte) /\ Len(Ring) = RingCount
        /\ \A i \in 1 .. RingCount :
             Ring[i] = stdin_buf[(stdin_buf_rpos + i - 1) % StdinBufSize]
  BY RingFacts
<1>2. QED BY <1>1, PTL

\* The handler appends the byte it has read, which does not overwrite one that waits.
LEMMA RingStores ==
    ASSUME RingTypeOK, IsrStores, ~stdin_buf_is_full, RingTypeOK'
    PROVE  Ring' = Append(Ring, isrByte)
<1> DEFINE n == StdinBufSize
           r == stdin_buf_rpos
           w == stdin_buf_wpos
           c == RingCount
           at(i) == (r + i - 1) % n
<1>1. n \in Nat /\ n > 1 /\ r \in 0 .. n - 1 /\ w \in 0 .. n - 1
      /\ c = (IF w < r THEN w - r + n ELSE w - r)
  BY StdinBufSizeAssumption, RingFacts DEF RingTypeOK
<1>2. stdin_buf_wpos' = (IF w + 1 < n THEN w + 1 ELSE 0)
  BY <1>1, Wraps DEF IsrStores, stdin_buf_next_pos
<1>3. c + 1 <= n - 1
  <2>1. c # n - 1 /\ c \in 0 .. n - 1
    BY RingFacts
  <2>2. QED BY <1>1, <2>1
<1>4. RingCount' = c + 1
  <2>1. stdin_buf_rpos' = r
    BY DEF IsrStores
  <2>2. RingCount' = (stdin_buf_wpos' - r) % n
    BY <2>1 DEF RingCount
  <2> DEFINE w2 == stdin_buf_wpos'
  <2>3. w2 \in 0 .. n - 1 /\ w2 = (IF w + 1 < n THEN w + 1 ELSE 0)
    BY <1>1, <1>2
  <2> HIDE DEF w2, n, r, w, c
  <2>4. (w2 - r) % n = IF w2 - r < 0 THEN w2 - r + n ELSE w2 - r
    BY <1>1, <2>3, Wraps DEF n
  <2>5. QED BY <1>1, <1>3, <2>2, <2>3, <2>4 DEF w2
<1>5. ASSUME NEW i \in 1 .. c + 1
      PROVE  at(i) \in 0 .. n - 1 /\ (at(i) = w <=> i = c + 1)
  <2>1. i \in Nat /\ r + i - 1 \in Int /\ 0 <= r + i - 1 /\ r + i - 1 < 2 * n /\ -n <= r + i - 1
    BY <1>1, <1>3
  <2>2. at(i) = IF r + i - 1 < n THEN r + i - 1 ELSE r + i - 1 - n
    BY <1>1, <2>1, Wraps
  <2> HIDE DEF at, n, r, w, c
  <2>3. QED BY <1>1, <1>3, <2>1, <2>2
<1>6. /\ stdin_buf' = [stdin_buf EXCEPT ![w] = isrByte]
      /\ DOMAIN stdin_buf = 0 .. n - 1 /\ stdin_buf_rpos' = r
  BY DEF IsrStores, RingTypeOK
<1>7. \A i \in 1 .. c + 1 : stdin_buf'[at(i)] = IF i = c + 1 THEN isrByte ELSE stdin_buf[at(i)]
  BY <1>1, <1>5, <1>6
<1>8. /\ Ring' \in Seq(Byte) /\ Len(Ring') = c + 1
      /\ \A i \in 1 .. c + 1 : Ring'[i] = stdin_buf'[at(i)]
  BY <1>4, <1>6, RingFactsNext
<1>9. /\ Ring \in Seq(Byte) /\ Len(Ring) = c
      /\ \A i \in 1 .. c : Ring[i] = stdin_buf[at(i)]
  BY RingFacts
<1>10. c \in Nat /\ isrByte \in Byte
  BY <1>1 DEF RingTypeOK
<1> HIDE DEF c, at, n, r, w
<1>11. /\ Append(Ring, isrByte) \in Seq(Byte) /\ Len(Append(Ring, isrByte)) = c + 1
       /\ \A i \in 1 .. c : Append(Ring, isrByte)[i] = Ring[i]
       /\ Append(Ring, isrByte)[c + 1] = isrByte
  BY <1>9, <1>10, AppendProperties
<1>12. \A i \in 1 .. c + 1 : Ring'[i] = Append(Ring, isrByte)[i]
  <2>1. \A i \in 1 .. c + 1 : i = c + 1 \/ i \in 1 .. c
    BY <1>10
  <2>2. \A i \in 1 .. c : i \in 1 .. c + 1 /\ i # c + 1
    BY <1>10
  <2>3. \A i \in 1 .. c : Ring'[i] = Append(Ring, isrByte)[i]
    BY <1>7, <1>8, <1>9, <1>11, <2>2
  <2>4. c + 1 \in 1 .. c + 1
    BY <1>10
  <2>5. Ring'[c + 1] = isrByte
    BY <1>7, <1>8, <2>4
  <2>6. QED BY <1>11, <2>1, <2>3, <2>5
<1>13. QED BY <1>8, <1>11, <1>12, SeqEqual

\* sys_read takes the oldest byte.
LEMMA RingCopies ==
    ASSUME RingTypeOK, ~stdin_buf_is_empty, RingTypeOK',
           stdin_buf_rpos' = stdin_buf_next_pos(stdin_buf_rpos),
           UNCHANGED <<stdin_buf, stdin_buf_wpos>>
    PROVE  Ring = <<stdin_buf[stdin_buf_rpos]>> \o Ring'
<1> DEFINE n == StdinBufSize
           r == stdin_buf_rpos
           w == stdin_buf_wpos
           c == RingCount
           at(i) == (r + i - 1) % n
           h == stdin_buf[r]
           r2 == stdin_buf_rpos'
           at2(i) == (r2 + i - 1) % n
<1>1. n \in Nat /\ n > 1 /\ r \in 0 .. n - 1 /\ w \in 0 .. n - 1
      /\ c = (IF w < r THEN w - r + n ELSE w - r)
  BY StdinBufSizeAssumption, RingFacts DEF RingTypeOK
<1>2. r2 = IF r + 1 < n THEN r + 1 ELSE 0
  BY <1>1, Wraps DEF stdin_buf_next_pos
<1>3. c # 0 /\ c \in 0 .. n - 1
  BY RingFacts
<1>4. RingCount' = c - 1
  <2>1. RingCount' = (w - r2) % n
    BY DEF RingCount
  <2> HIDE DEF n, r, w, c, r2
  <2>2. r2 \in 0 .. n - 1
    BY <1>1, <1>2
  <2>3. (w - r2) % n = IF w - r2 < 0 THEN w - r2 + n ELSE w - r2
    BY <1>1, <2>2, Wraps DEF n
  <2>4. QED BY <1>1, <1>2, <1>3, <2>1, <2>2, <2>3
<1>5. at(1) = r
  <2>1. r + 1 - 1 = r /\ r \in Int /\ -n <= r /\ r < 2 * n /\ 0 <= r /\ r < n
    BY <1>1
  <2>2. QED BY <2>1, Wraps
<1>6. ASSUME NEW i \in 1 .. c - 1 PROVE at2(i) = at(i + 1)
  <2>1. i \in Nat /\ i <= n - 1 /\ 1 <= i
    BY <1>1, <1>3
  <2>2. r2 + i - 1 \in Int /\ -n <= r2 + i - 1 /\ r2 + i - 1 < 2 * n /\ 0 <= r2 + i - 1
    BY <1>1, <1>2, <2>1
  <2>3. r + (i + 1) - 1 \in Int /\ -n <= r + (i + 1) - 1 /\ r + (i + 1) - 1 < 2 * n
        /\ 0 <= r + (i + 1) - 1
    BY <1>1, <2>1
  <2> DEFINE x == r + (i + 1) - 1
             y == r2 + i - 1
  <2>4. at2(i) = y % n /\ at(i + 1) = x % n
    OBVIOUS
  <2>5. x \in Int /\ 0 <= x /\ x < 2 * n /\ y \in Int /\ 0 <= y /\ y < 2 * n
    BY <2>2, <2>3
  <2>6. y = x \/ (y = x - n /\ n <= x /\ y < n)
    BY <1>1, <1>2, <2>1
  <2> HIDE DEF x, y, at, at2, r, r2
  <2>7. CASE y = x
    BY <2>4, <2>7
  <2>8. CASE y = x - n /\ n <= x /\ y < n
    <3>1. x % n = x - n
      BY <1>1, <2>5, <2>8, WrapsUp
    <3>2. y % n = y
      BY <1>1, <2>5, <2>8, WrapsUp
    <3>3. QED BY <2>4, <2>8, <3>1, <3>2
  <2>9. QED BY <2>6, <2>7, <2>8
<1>7. /\ Ring' \in Seq(Byte) /\ Len(Ring') = c - 1
      /\ \A i \in 1 .. c - 1 : Ring'[i] = stdin_buf[at2(i)]
  BY <1>4, RingFactsNext
<1>8. /\ Ring \in Seq(Byte) /\ Len(Ring) = c
      /\ \A i \in 1 .. c : Ring[i] = stdin_buf[at(i)]
  BY RingFacts
<1>9. h \in Byte /\ c \in Nat
  <2>1. /\ stdin_buf \in [0 .. StdinBufSize - 1 -> Byte]
        /\ stdin_buf_rpos \in 0 .. StdinBufSize - 1
    BY DEF RingTypeOK
  <2>2. QED BY <1>3, <2>1
<1> HIDE DEF c, at, at2, n, r, w, r2, h
<1>10. <<h>> \in Seq(Byte) /\ Len(<<h>>) = 1 /\ <<h>>[1] = h
  BY <1>9
<1> DEFINE s == <<h>> \o Ring'
<1>11. /\ s \in Seq(Byte) /\ Len(s) = 1 + (c - 1)
       /\ \A i \in 1 .. 1 + (c - 1) : s[i] = IF i <= 1 THEN <<h>>[i] ELSE Ring'[i - 1]
  BY <1>7, <1>10, ConcatProperties
<1> HIDE DEF s
<1>12. \A i \in 1 .. c : Ring[i] = s[i]
  <2> SUFFICES ASSUME NEW i \in 1 .. c PROVE Ring[i] = s[i]
    OBVIOUS
  <2>1. i \in 1 .. 1 + (c - 1)
    BY <1>9
  <2>2. CASE i = 1
    <3>1. s[i] = h
      BY <1>10, <1>11, <2>1, <2>2
    <3>2. Ring[i] = h
      BY <1>5, <1>8, <2>2 DEF h
    <3>3. QED BY <3>1, <3>2
  <2>3. CASE i # 1
    <3>1. i - 1 \in 1 .. c - 1 /\ ~(i <= 1) /\ (i - 1) + 1 = i
      BY <1>9, <2>3
    <3>2. s[i] = Ring'[i - 1]
      BY <1>11, <2>1, <3>1
    <3>3. Ring'[i - 1] = stdin_buf[at(i)]
      BY <1>6, <1>7, <3>1
    <3>4. QED BY <1>8, <3>2, <3>3
  <2>4. QED BY <2>2, <2>3
<1>13. Len(s) = Len(Ring)
  BY <1>8, <1>9, <1>11
<1>14. Ring = s
  BY <1>8, <1>11, <1>12, <1>13, SeqEqual
<1>15. QED BY <1>14 DEF s, h, r

-----------------------------------------------------------------------------
(* What the steps of the system do to the bytes. *)

\* A handler returns into the program or into code that prints.
LEMMA ReturnsOutside ==
    ASSUME TrapInvariant, Returns
    PROVE  pc' \in {"boot", "program", "ecall", "printed"}
<1>1. pc = "return" /\ pc' = mepc
  BY DEF Returns
<1>2. InHandler
  BY <1>1, FramesHere DEF InHandler
<1>3. CASE IsNested
  BY <1>1, <1>3 DEF TrapInvariant, HandlerInvariant, NestedFits
<1>4. CASE ~IsNested /\ printer = "none"
  BY <1>1, <1>2, <1>4 DEF TrapInvariant, HandlerInvariant, ResumeFits
<1>5. CASE ~IsNested /\ printer # "none"
  <2>1. printer = "ignored"
    BY <1>1, <1>5 DEF TrapInvariant, TrapTypeOK, HandlerInvariant, PrinterFits
  <2>2. QED
    BY <1>1, <1>2, <1>5, <2>1 DEF TrapInvariant, HandlerInvariant, PrinterFits
<1>6. QED BY <1>3, <1>4, <1>5

\* Three steps move a byte behind the device.
LEMMA DataSteps ==
    ASSUME TrapInvariant, [Next]_vars
    PROVE  \/ UNCHANGED dataVars /\ (pc' = "isr_store" <=> pc = "isr_store") /\ ~ReadsDevice
           \/ ReadsDevice /\ UNCHANGED lost
           \/ (IsrStores \/ Copies) /\ StdinCycle(FALSE) /\ UNCHANGED <<lost, origin>>
<1>1. CASE UNCHANGED <<pc, dataVars>> /\ ~HartStep
  BY <1>1 DEF TrapInvariant, dataVars, HartStep, Next, Idle, SpeculativeRead, Host, Timer, vars,
              Ended, TimerFires, bspVars, ReadsDevice, IsrReads
<1>2. CASE HartStep
  <2>1. CASE ReadsDevice
    BY <1>2, <2>1 DEF HartStep
  <2>2. CASE Interrupted
    <3>1. pc # "isr_store"
      <4>1. mie
        BY <2>2 DEF Interrupted, TakesInterrupt, InterruptTaken
      <4>2. ~InHandler
        BY <4>1 DEF TrapInvariant, HandlerInvariant
      <4>3. QED BY <4>2, FramesHere DEF InHandler
    <3>2. pc' = "trap" /\ UNCHANGED dataVars
      BY <2>2 DEF Interrupted, TakesInterrupt, Trap
    <3>3. ~ReadsDevice
      BY <3>2 DEF ReadsDevice, IsrReads
    <3>4. QED BY <3>1, <3>2, <3>3
  <2>3. CASE Step
    <3>1. UNCHANGED <<lost, origin>> /\ StdinCycle(FALSE)
      BY <1>2, <2>3 DEF HartStep, Step
    <3>2. CASE IsrStores \/ Copies
      BY <3>1, <3>2
    <3>3. CASE Returns
      BY <3>3, ReturnsOutside DEF Returns, ReadsDevice, IsrReads
    <3>4. CASE Isr
      <4>1. mcause \in Irqs /\ pc = "isr"
        BY <3>4 DEF TrapInvariant, HandlerInvariant, CauseFits, Isr
      <4>2. callbacks[mcause] \in {"stdin", "user", "ignore_irq"}
        BY <4>1 DEF TrapInvariant, IrqTypeOK
      <4>3. pc' \in {"isr_test", "user_isr", "print"} /\ UNCHANGED dataVars
        BY <3>4, <4>2 DEF Isr
      <4>4. QED BY <4>1, <4>3 DEF ReadsDevice, IsrReads
    <3>5. CASE SavesFrame
      <4>1. pc' \in {"isr", "syscall", "exception"} /\ pc = "trap" /\ UNCHANGED dataVars
        BY <3>5 DEF SavesFrame, TrapInvariant, HandlerInvariant, CauseFits, Irqs
      <4>2. QED BY <4>1 DEF ReadsDevice, IsrReads
    <3>6. CASE ProgramStep
      <4>1. UNCHANGED dataVars /\ pc \in {"boot", "program", "ecall"}
            /\ pc' \in {"program", "ecall", "trap"}
        BY <3>6
        DEF ProgramStep, InitSyscalls, EnablesOrDisablesInterrupts, UsesTimer, Faults, Ecall,
            SetsUpCall, Trap
      <4>2. QED BY <4>1 DEF ReadsDevice, IsrReads
    <3>7. CASE UserIsr \/ Exception \/ Prints \/ Printed \/ Halts \/ IsrTests
      <4>1. UNCHANGED dataVars /\ pc # "isr_store" /\ pc' # "isr_store" /\ pc' # pc
            /\ (pc = "isr_read" => pc' # "isr_store")
        BY <3>7 DEF UserIsr, Exception, Prints, Printed, Halts, IsrTests, Trap
      <4>2. QED BY <4>1 DEF ReadsDevice, IsrReads
    <3>8. CASE SysRead \/ SysWrite \/ SysOther \/ SysExit \/ SysReturn
      <4>1. UNCHANGED dataVars /\ pc # "isr_store" /\ pc' # "isr_store"
        BY <3>8 DEF SysRead, SysWrite, SysOther, SysExit, SysReturn
      <4>2. QED BY <4>1 DEF ReadsDevice, IsrReads
    <3>9. QED
      BY <2>3, <3>2, <3>3, <3>4, <3>5, <3>6, <3>7, <3>8 DEF Step, TrapHandlerStep
  <2>4. QED BY <1>2, <2>1, <2>2, <2>3 DEF HartStep
<1>3. QED
  BY <1>1, <1>2 DEF Next, Idle, SpeculativeRead, Host, Timer, Ended, vars, TimerFires, bspVars

\* What a step does in front of it.
LEMMA DeviceSteps ==
    ASSUME [Next]_vars
    PROVE  \/ StdinCycle(FALSE) /\ UNCHANGED <<lost, origin>>
           \/ ReadsDevice /\ UNCHANGED lost
           \/ SpeculativeRead
           \/ Host
           \/ UNCHANGED <<stdinVars, lost, origin>>
BY DEF Next, HartStep, Step, Interrupted, Idle, Timer, Ended, vars

\* The types of the buffer and of the bytes on both sides of it.
LEMMA RingTypeStep ==
    ASSUME StdinTypeOK, HandshakeInvariant, TrapInvariant, RingTypeOK, [Next]_vars
    PROVE  RingTypeOK'
<1>1. /\ stdin_buf \in [0 .. StdinBufSize - 1 -> Byte]
      /\ stdin_buf_rpos \in 0 .. StdinBufSize - 1
      /\ stdin_buf_wpos \in 0 .. StdinBufSize - 1
      /\ isrByte \in Byte /\ received \in Seq(Byte) /\ lost \subseteq Byte
      /\ origin \in Seq(Byte)
  BY DEF RingTypeOK
<1>2. lost' \subseteq Byte
  <2>1. CASE SpeculativeRead
    <3>1. ReadData \in Byte
      BY <2>1, ReadCycle DEF SpeculativeRead
    <3>2. QED BY <1>1, <2>1, <3>1 DEF SpeculativeRead
  <2>2. QED BY <1>1, <2>1, DeviceSteps DEF Host
<1>3. origin' \in Seq(Byte)
  <2>1. CASE ReadsDevice
    <3>1. ReadData \in Byte /\ NoByte \in Byte
      BY <2>1, ReadCycle, MaxBytesAssumption DEF ReadsDevice, Byte, NoByte
    <3>2. Missing \subseteq Byte
      BY <1>1 DEF Missing
    <3>3. StandsFor \in Byte
      BY <3>1, <3>2 DEF StandsFor
    <3>4. QED BY <1>1, <2>1, <3>3, AppendProperties DEF ReadsDevice
  <2>2. QED BY <1>1, <2>1, DeviceSteps DEF SpeculativeRead, Host
<1>4. \A p \in 0 .. StdinBufSize - 1 : stdin_buf_next_pos(p) \in 0 .. StdinBufSize - 1
  BY StdinBufSizeAssumption DEF stdin_buf_next_pos
<1>5. CASE UNCHANGED dataVars
  BY <1>1, <1>2, <1>3, <1>5 DEF RingTypeOK, dataVars, ringVars
<1>6. CASE ReadsDevice
  <2>1. ReadData \in Byte
    BY <1>6, ReadCycle DEF ReadsDevice
  <2>2. QED BY <1>1, <1>2, <1>3, <1>6, <2>1 DEF RingTypeOK, ReadsDevice, IsrReads, ringVars
<1>7. CASE IsrStores
  <2>1. /\ stdin_buf' = [stdin_buf EXCEPT ![stdin_buf_wpos] = isrByte]
        /\ stdin_buf_wpos' = stdin_buf_next_pos(stdin_buf_wpos)
        /\ isrByte' = 0 /\ UNCHANGED <<stdin_buf_rpos, received>>
    BY <1>7 DEF IsrStores
  <2>2. 0 \in Byte
    BY MaxBytesAssumption DEF Byte
  <2>3. stdin_buf' \in [0 .. StdinBufSize - 1 -> Byte]
    BY <1>1, <2>1
  <2>4. QED BY <1>1, <1>2, <1>3, <1>4, <2>1, <2>2, <2>3 DEF RingTypeOK
<1>8. CASE Copies
  <2>1. /\ UNCHANGED <<stdin_buf, stdin_buf_wpos, isrByte>>
        /\ \/ /\ received' = Append(received, stdin_buf[stdin_buf_rpos])
              /\ stdin_buf_rpos' = stdin_buf_next_pos(stdin_buf_rpos)
           \/ UNCHANGED <<received, stdin_buf_rpos>>
    BY <1>8 DEF Copies
  <2>2. stdin_buf[stdin_buf_rpos] \in Byte
    BY <1>1
  <2>3. Append(received, stdin_buf[stdin_buf_rpos]) \in Seq(Byte)
    BY <1>1, <2>2, AppendProperties
  <2>4. QED BY <1>1, <1>2, <1>3, <1>4, <2>1, <2>3 DEF RingTypeOK
<1>9. QED BY <1>5, <1>6, <1>7, <1>8, DataSteps

\* A byte that is due stays due until the handler reads the device: a squashed load may
\* take it out, but then it is missing.
LEMMA StaysDue ==
    ASSUME StdinTypeOK, HandshakeInvariant, RingTypeOK, BytesAreInOrder, [Next]_vars,
           ByteIsDue, ~ReadsDevice
    PROVE  ByteIsDue'
<1>1. CASE StdinCycle(FALSE) /\ UNCHANGED <<lost, origin>>
  <2>1. rbufFull => rbufFull'
    BY <1>1, QuietCycle
  <2>2. Missing' = Missing
    BY <1>1 DEF Missing
  <2>3. QED BY <2>1, <2>2 DEF ByteIsDue
<1>2. CASE SpeculativeRead
  <2>1. /\ StdinCycle(TRUE) /\ lost' = lost \cup ({ReadData} \ {NoByte})
        /\ UNCHANGED origin
    BY <1>2 DEF SpeculativeRead
  <2>2. Missing \subseteq Missing'
    BY <2>1 DEF Missing
  <2>3. CASE rbufFull
    <3>1. ReadData # NoByte
      BY <2>1, <2>3, ReadCycle
    <3>2. \A i \in 1 .. Len(origin) : origin[i] < ReadData
      BY <2>1, <3>1, TakenOut
    <3>3. ReadData \in Missing'
      BY <2>1, <3>1, <3>2 DEF Missing
    <3>4. QED BY <3>3 DEF ByteIsDue
  <2>4. QED BY <2>2, <2>3 DEF ByteIsDue
<1>3. CASE Host \/ UNCHANGED <<stdinVars, lost, origin>>
  BY <1>3 DEF Host, stdinVars, devVars, rbufFull, Missing, ByteIsDue
<1>4. QED BY <1>1, <1>2, <1>3, DeviceSteps

\* The callback of the external interrupt is never changed.
LEMMA CallbackStep ==
    ASSUME TrapInvariant, ReadInvariant, [Next]_vars
    PROVE  /\ callbacks'["MTI"] # "stdin" /\ (meie' => callbacks'["MEI"] = "stdin")
           /\ callbacks["MEI"] = "stdin" => callbacks'["MEI"] = "stdin"
<1>1. callbacks \in [Irqs -> {"stdin", "user", "ignore_irq"}]
      /\ callbacks["MTI"] # "stdin" /\ (meie => callbacks["MEI"] = "stdin")
  BY DEF TrapInvariant, IrqTypeOK, ReadInvariant
<1>2. CASE UNCHANGED <<meie, callbacks>>
  BY <1>1, <1>2
<1>3. CASE InitSyscalls
  BY <1>1, <1>3 DEF InitSyscalls, Irqs
<1>4. CASE UsesTimer
  BY <1>1, <1>4 DEF UsesTimer, Irqs
<1>5. \/ UNCHANGED irqVars \/ InitSyscalls \/ UsesTimer \/ UserIsr \/ Timer
  <2>1. HartStep => \/ UNCHANGED irqVars \/ InitSyscalls \/ UsesTimer \/ UserIsr
    BY DEF HartStep, Step, ReadsDevice, Interrupted, TrapHandlerStep, ProgramStep,
           SavesFrame, Returns, Isr, Exception, Prints, Printed, Halts, IsrTests, IsrStores,
           SysRead, Copies, SysWrite, SysOther, SysExit, SysReturn,
           EnablesOrDisablesInterrupts, Faults, Ecall, SetsUpCall, IsrReads, TakesInterrupt
  <2>2. ~HartStep => UNCHANGED irqVars \/ Timer
    BY DEF Next, Idle, SpeculativeRead, Host, Ended, vars, bspVars
  <2>3. QED BY <2>1, <2>2
<1>6. QED
  BY <1>2, <1>3, <1>4, <1>5 DEF irqVars, UserIsr, Timer, TimerFires

\* A byte is still due, and there is still room for it, when the device is read.
LEMMA ReadInvariantStep ==
    ASSUME StdinTypeOK, HandshakeInvariant, TrapInvariant, RingTypeOK, ReadInvariant,
           BytesAreInOrder, [Next]_vars
    PROVE  ReadInvariant'
<1>1. /\ callbacks'["MTI"] # "stdin" /\ (meie' => callbacks'["MEI"] = "stdin")
      /\ callbacks["MEI"] = "stdin" => callbacks'["MEI"] = "stdin"
  BY CallbackStep
<1> DEFINE full == stdin_buf_is_full
           here == {"trap", "isr", "isr_test", "isr_read", "isr_store"}
<1>2. CASE pc' \notin here
  BY <1>1, <1>2 DEF ReadInvariant
<1>3. UNCHANGED ringVars => full' = full
  BY DEF ringVars, stdin_buf_is_full, stdin_buf_next_pos
<1>4. ~ReadsDevice /\ ByteIsDue => ByteIsDue'
  BY StaysDue
<1>5. CASE ReadsDevice
  <2>1. pc = "isr_read" /\ pc' = "isr_store" /\ UNCHANGED ringVars
    BY <1>5 DEF ReadsDevice, IsrReads
  <2>2. QED BY <1>1, <1>3, <2>1 DEF ReadInvariant
<1>6. CASE ~ReadsDevice /\ UNCHANGED <<pc, mcause, ringVars>>
  BY <1>1, <1>3, <1>4, <1>6 DEF ReadInvariant
<1>7. CASE Interrupted
  <2>1. pc' = "trap" /\ mcause' = (IF meie /\ meip THEN "MEI" ELSE "MTI")
    BY <1>7 DEF Interrupted, TakesInterrupt, Trap
  <2>2. mcause' = "MEI" => callbacks["MEI"] = "stdin" /\ ByteIsDue
    BY <2>1 DEF ReadInvariant, HandshakeInvariant, ByteIsDue
  <2>3. ~ReadsDevice
    BY <2>1 DEF ReadsDevice, IsrReads
  <2>4. QED BY <1>1, <1>4, <2>1, <2>2, <2>3 DEF ReadInvariant
<1>8. CASE Step /\ ~ReadsDevice /\ pc' \in here
  <2>1. ByteIsDue => ByteIsDue'
    BY <1>4, <1>8
  <2>2. CASE SavesFrame
    <3>1. pc = "trap" /\ pc' \in {"isr", "syscall", "exception"} /\ mcause' = mcause
      BY <2>2 DEF SavesFrame, TrapInvariant, HandlerInvariant, CauseFits, Irqs, trapVars
    <3>2. QED BY <1>1, <2>1, <3>1 DEF ReadInvariant
  <2>3. CASE Isr
    <3>1. mcause \in Irqs /\ pc = "isr"
      BY <2>3 DEF TrapInvariant, HandlerInvariant, CauseFits, Isr
    <3>2. callbacks[mcause] \in {"stdin", "user", "ignore_irq"}
      BY <3>1 DEF TrapInvariant, IrqTypeOK
    <3>3. pc' \in {"isr_test", "user_isr", "print"}
          /\ (pc' = "isr_test" => callbacks[mcause] = "stdin")
      BY <2>3, <3>2 DEF Isr
    <3>4. pc' = "isr_test" => ByteIsDue
      BY <3>1, <3>3 DEF ReadInvariant, Irqs
    <3>5. QED BY <1>1, <2>1, <3>3, <3>4 DEF ReadInvariant
  <2>4. CASE IsrTests
    <3>1. pc = "isr_test" /\ pc' = (IF full THEN "return" ELSE "isr_read") /\ UNCHANGED ringVars
      BY <2>4 DEF IsrTests, dataVars
    <3>2. QED BY <1>1, <1>3, <2>1, <3>1 DEF ReadInvariant
  <2>5. CASE Prints \/ Faults \/ Ecall
    <3>1. pc' = "trap" /\ mcause' \in {"ecall", "fault"}
      BY <2>5 DEF Prints, Faults, Ecall, Trap
    <3>2. QED BY <1>1, <3>1 DEF ReadInvariant
  <2>6. CASE Returns
    BY <1>8, <2>6, ReturnsOutside
  <2>7. ~ \/ UserIsr \/ Exception \/ Printed \/ Halts \/ IsrStores \/ SysRead \/ SysWrite
          \/ SysOther \/ SysExit \/ SysReturn \/ Copies
    BY <1>8 DEF UserIsr, Exception, Printed, Halts, IsrStores, SysRead, SysWrite, SysOther,
                SysExit, SysReturn, Copies
  <2>8. ~ \/ InitSyscalls \/ EnablesOrDisablesInterrupts \/ UsesTimer
          \/ \E c \in Calls : SetsUpCall(c)
    BY <1>8 DEF InitSyscalls, EnablesOrDisablesInterrupts, UsesTimer, SetsUpCall
  <2>9. QED
    BY <1>8, <2>2, <2>3, <2>4, <2>5, <2>6, <2>7, <2>8
    DEF Step, TrapHandlerStep, ProgramStep
<1>9. HartStep => ReadsDevice \/ Interrupted \/ Step
  BY DEF HartStep
<1>10. ~HartStep => UNCHANGED <<pc, mcause, ringVars>>
  BY DEF Next, Idle, SpeculativeRead, Host, Timer, TimerFires, Ended, vars, bspVars, trapVars, dataVars
<1>11. QED
  BY <1>2, <1>5, <1>6, <1>7, <1>8, <1>9, <1>10

\* What the handler has read grows by what it reads of the device, and by nothing else.
LEMMA ReadStep ==
    ASSUME StdinTypeOK, HandshakeInvariant, TrapInvariant, RingTypeOK, ReadInvariant,
           [Next]_vars
    PROVE  IF ReadsDevice THEN ReadByHandler' = ReadByHandler \o <<ReadData>>
           ELSE ReadByHandler' = ReadByHandler
<1>1. RingTypeOK'
  BY RingTypeStep
<1>2. /\ received \in Seq(Byte) /\ Ring \in Seq(Byte) /\ isrByte \in Byte
      /\ Ring' \in Seq(Byte)
  BY <1>1, PartTypes, RingFactsNext DEF RingTypeOK
<1>3. UNCHANGED ringVars => Ring' = Ring
  BY DEF ringVars, Ring, RingCount
<1>4. CASE UNCHANGED dataVars /\ (pc' = "isr_store" <=> pc = "isr_store") /\ ~ReadsDevice
  <2>1. UNCHANGED <<received, isrByte, ringVars>>
    BY <1>4 DEF dataVars
  <2>2. IsrPart' = IsrPart
    BY <1>4, <2>1 DEF IsrPart
  <2>3. QED BY <1>3, <1>4, <2>1, <2>2 DEF ReadByHandler, IsrPart
<1>5. CASE ReadsDevice
  <2>1. /\ pc = "isr_read" /\ pc' = "isr_store" /\ isrByte' = ReadData
        /\ UNCHANGED <<received, ringVars>>
    BY <1>5 DEF ReadsDevice, IsrReads
  <2>2. IsrPart = <<>> /\ IsrPart' = <<ReadData>>
    BY <2>1 DEF IsrPart
  <2>3. received \o Ring \in Seq(Byte)
    BY <1>2, ConcatProperties
  <2>4. ReadByHandler = received \o Ring
    BY <2>2, <2>3 DEF ReadByHandler, IsrPart
  <2>5. ReadByHandler' = (received \o Ring) \o <<ReadData>>
    BY <1>3, <2>1, <2>2 DEF ReadByHandler, IsrPart
  <2>6. QED BY <1>5, <2>4, <2>5
<1>6. CASE IsrStores
  <2>1. pc = "isr_store" /\ pc' = "return" /\ received' = received
    BY <1>6 DEF IsrStores
  <2>2. ~ReadsDevice
    BY <2>1 DEF ReadsDevice, IsrReads
  <2>3. Ring' = Append(Ring, isrByte)
    BY <1>1, <1>6, <2>1, RingStores DEF ReadInvariant
  <2>4. ReadByHandler = (received \o Ring) \o <<isrByte>>
    BY <2>1 DEF ReadByHandler, IsrPart
  <2>5. <<isrByte>> \in Seq(Byte)
    BY <1>2
  <2>6. Ring' = Ring \o <<isrByte>>
    BY <1>2, <2>3, AppendIsConcat
  <2>7. (received \o Ring) \o <<isrByte>> = received \o (Ring \o <<isrByte>>)
    BY <1>2, <2>5, ConcatAssociative
  <2>8. ReadByHandler' = (received \o Ring') \o <<>>
    BY <2>1 DEF ReadByHandler, IsrPart
  <2>9. received \o Ring' \in Seq(Byte)
    BY <1>2, ConcatProperties
  <2>10. (received \o Ring') \o <<>> = received \o Ring'
    BY <2>9
  <2>11. QED BY <2>2, <2>4, <2>6, <2>7, <2>8, <2>10, Zenon
<1>7. CASE Copies
  <2>1. pc = "copy" /\ pc' # "isr_store" /\ UNCHANGED <<stdin_buf, stdin_buf_wpos, isrByte>>
    BY <1>7 DEF Copies
  <2>2. ~ReadsDevice /\ IsrPart = <<>> /\ IsrPart' = <<>>
    BY <2>1 DEF ReadsDevice, IsrReads, IsrPart
  <2>3. CASE UNCHANGED <<received, stdin_buf_rpos>>
    BY <1>3, <2>1, <2>2, <2>3 DEF ReadByHandler, IsrPart, ringVars
  <2>4. CASE ~UNCHANGED <<received, stdin_buf_rpos>>
    <3> DEFINE h == stdin_buf[stdin_buf_rpos]
    <3>1. /\ received' = Append(received, h) /\ ~stdin_buf_is_empty
          /\ stdin_buf_rpos' = stdin_buf_next_pos(stdin_buf_rpos)
      BY <1>7, <2>4 DEF Copies
    <3>2. Ring = <<h>> \o Ring'
      BY <1>1, <2>1, <3>1, RingCopies
    <3>3. h \in Byte
      BY DEF RingTypeOK
    <3> HIDE DEF h
    <3>4. <<h>> \in Seq(Byte) /\ received' = received \o <<h>>
      BY <1>2, <3>1, <3>3, AppendIsConcat
    <3>5. (received \o <<h>>) \o Ring' = received \o (<<h>> \o Ring')
      BY <1>2, <3>4, ConcatAssociative
    <3>6. QED BY <2>2, <3>2, <3>4, <3>5, Zenon DEF ReadByHandler, IsrPart
  <2>5. QED BY <2>3, <2>4
<1>8. QED BY <1>4, <1>5, <1>6, <1>7, DataSteps

-----------------------------------------------------------------------------
(* The order of the bytes. *)

\* A sequence of bytes and its continuation.
LEMMA ExtendsBehind ==
    ASSUME NEW a \in Seq(Nat), NEW b \in Seq(Nat), NEW c, taken \in Nat, Extends(b, c)
    PROVE  Extends(a \o b, a \o c)
<1>1. taken + 1 \in Nat
  OBVIOUS
<1>2. CASE c = b /\ taken' = taken
  BY <1>2 DEF Extends
<1>3. CASE c = Append(b, taken + 1) /\ taken' = taken + 1
  <2>1. Append(b, taken + 1) = b \o <<taken + 1>> /\ <<taken + 1>> \in Seq(Nat)
    BY <1>1, AppendIsConcat
  <2>2. a \o b \in Seq(Nat)
    BY ConcatProperties
  <2>3. Append(a \o b, taken + 1) = (a \o b) \o <<taken + 1>>
    BY <1>1, <2>2, AppendIsConcat
  <2>4. a \o (b \o <<taken + 1>>) = (a \o b) \o <<taken + 1>>
    BY <2>1, ConcatAssociative
  <2>5. a \o c = Append(a \o b, taken + 1)
    BY <1>3, <2>1, <2>3, <2>4, Zenon
  <2>6. QED BY <1>3, <2>5 DEF Extends
<1>4. QED BY <1>2, <1>3 DEF Extends

\* It keeps the order.
LEMMA ExtendsInOrder ==
    ASSUME NEW s \in Seq(Nat), NEW t, taken \in Nat, NEW L, L \subseteq 1 .. taken,
           Ordered(s), Elements(s) = (1 .. taken) \ L, Extends(s, t)
    PROVE  Ordered(t) /\ Elements(t) = (1 .. taken') \ L
<1>1. CASE t = s /\ taken' = taken
  BY <1>1
<1>2. CASE t = Append(s, taken + 1) /\ taken' = taken + 1
  <2>1. \A i \in 1 .. Len(s) : s[i] < taken + 1
    BY DEF Elements
  <2> DEFINE b == taken + 1
  <2>2. Ordered(t) /\ Elements(t) = Elements(s) \cup {b}
    <3>1. b \in Nat /\ t = Append(s, b) /\ \A i \in 1 .. Len(s) : s[i] < b
      BY <1>2, <2>1
    <3> HIDE DEF b
    <3>2. QED BY <3>1, OrderedAppend
  <2>3. (1 .. taken + 1) \ L = ((1 .. taken) \ L) \cup {taken + 1}
    OBVIOUS
  <2>4. QED BY <1>2, <2>2, <2>3
<1>3. QED BY <1>1, <1>2 DEF Extends

\* Nothing lost comes into the device.
LEMMA ExtendsKept ==
    ASSUME NEW s \in Seq(Nat), NEW t, taken \in Nat, NEW L, L \subseteq 1 .. taken,
           Elements(s) \cap L = {}, Extends(s, t)
    PROVE  L \subseteq 1 .. taken' /\ Elements(t) \cap L = {}
<1>1. CASE t = s /\ taken' = taken
  BY <1>1
<1>2. CASE t = Append(s, taken + 1) /\ taken' = taken + 1
  <2>1. t = s \o <<taken + 1>> /\ <<taken + 1>> \in Seq(Nat)
    BY <1>2, AppendIsConcat
  <2>2. Elements(<<taken + 1>>) = {taken + 1}
    <3>1. Len(<<taken + 1>>) = 1 /\ <<taken + 1>>[1] = taken + 1 /\ 1 .. 1 = {1}
      OBVIOUS
    <3>2. QED BY <3>1 DEF Elements
  <2>3. Elements(t) = Elements(s) \cup {taken + 1}
    BY <2>1, <2>2, ElementsOfBoth
  <2>4. QED BY <1>2, <2>3
<1>3. QED BY <1>1, <1>2 DEF Extends

\* What the handler takes for a byte is later than those it has read: the oldest one in
\* the device, or a lost one.
LEMMA StandsForNext ==
    ASSUME StdinTypeOK, HandshakeInvariant, RingTypeOK, ReadInvariant, BytesAreInOrder,
           ReadsDevice
    PROVE  /\ StandsFor \in Nat /\ \A i \in 1 .. Len(origin) : origin[i] < StandsFor
           /\ StandsFor \in lost <=> ReadData = NoByte
           /\ ReadData # NoByte => StandsFor = ReadData
           /\ StdinCycle(TRUE) /\ origin' = Append(origin, StandsFor)
<1>1. /\ StdinCycle(TRUE) /\ origin' = Append(origin, StandsFor)
      /\ pc = "isr_read"
  BY DEF ReadsDevice, IsrReads
<1>2. taken \in Nat
  BY PartsAreNumbers
<1>3. CASE ReadData # NoByte
  <2>1. StandsFor = ReadData
    BY <1>3 DEF StandsFor
  <2>2. /\ ReadData \in (1 .. taken) \ lost
        /\ \A i \in 1 .. Len(origin) : origin[i] < ReadData
    BY <1>1, <1>3, TakenOut
  <2>3. ReadData \in Nat
    BY <1>2, <2>2
  <2>4. QED BY <1>1, <1>3, <2>1, <2>2, <2>3
<1>4. CASE ReadData = NoByte
  <2>1. ~rbufFull
    BY <1>1, <1>4, ReadCycle
  <2>2. Missing # {}
    BY <1>1, <2>1 DEF ReadInvariant, ByteIsDue
  <2>3. StandsFor \in Missing
    BY <1>4, <2>2 DEF StandsFor
  <2>4. lost \subseteq 1 .. taken
    BY DEF BytesAreInOrder
  <2>5. StandsFor \in lost /\ \A i \in 1 .. Len(origin) : origin[i] < StandsFor
    BY <2>3 DEF Missing
  <2>6. StandsFor \in Nat
    BY <1>2, <2>4, <2>5
  <2>7. QED BY <1>1, <1>4, <2>5, <2>6
<1>5. QED BY <1>3, <1>4

\* A step of the device, the simulator or the core keeps the bytes in order.
LEMMA BytesStep ==
    ASSUME StdinTypeOK, HandshakeInvariant, RingTypeOK, ReadInvariant, BytesAreInOrder,
           [Next]_vars
    PROVE  BytesAreInOrder'
<1>1. /\ origin \in Seq(Nat) /\ InDevice \in Seq(Nat) /\ taken \in Nat /\ Byte \subseteq Nat
  BY PartsAreNumbers
<1>2. /\ lost \subseteq 1 .. taken /\ Ordered(origin \o InDevice)
      /\ Elements(origin \o InDevice) = (1 .. taken) \ Gone
      /\ Elements(InDevice) \cap lost = {} /\ Gone \subseteq 1 .. taken
  BY DEF BytesAreInOrder, Gone
<1>3. origin \o InDevice \in Seq(Nat)
  BY <1>1, ConcatProperties
<1>4. CASE StdinCycle(FALSE) /\ UNCHANGED <<lost, origin>>
  <2>1. Extends(InDevice, InDevice')
    BY <1>4, QuietCycle
  <2>2. Extends(origin \o InDevice, origin \o InDevice')
    BY <1>1, <2>1, ExtendsBehind
  <2>3. Gone' = Gone
    BY <1>4 DEF Gone
  <2>4. /\ Ordered(origin \o InDevice')
        /\ Elements(origin \o InDevice') = (1 .. taken') \ Gone
    BY <1>1, <1>2, <1>3, <2>2, ExtendsInOrder
  <2>5. lost \subseteq 1 .. taken' /\ Elements(InDevice') \cap lost = {}
    BY <1>1, <1>2, <2>1, ExtendsKept
  <2>6. QED BY <1>4, <2>3, <2>4, <2>5 DEF BytesAreInOrder
<1>5. CASE ReadsDevice /\ UNCHANGED lost
  <2>1. /\ StandsFor \in Nat /\ \A i \in 1 .. Len(origin) : origin[i] < StandsFor
        /\ StandsFor \in lost <=> ReadData = NoByte
        /\ ReadData # NoByte => StandsFor = ReadData
        /\ StdinCycle(TRUE) /\ origin' = Append(origin, StandsFor)
    BY <1>5, StandsForNext
  <2>2. /\ AfterRead \in Seq(Byte) /\ Extends(AfterRead, InDevice') /\ ReadData \in Byte
        /\ InDevice = IF ReadData = NoByte THEN <<>> ELSE <<ReadData>> \o AfterRead
        /\ ReadData = NoByte => AfterRead = <<>>
    BY <2>1, ReadCycle
  <2>3. AfterRead \in Seq(Nat) /\ ReadData \in Nat /\ <<ReadData>> \in Seq(Nat)
    BY <1>1, <2>2, SeqMonotonic
  <2> DEFINE o == Append(origin, StandsFor)
  <2>4. o \in Seq(Nat) /\ Elements(o) = Elements(origin) \cup {StandsFor}
    <3>1. <<StandsFor>> \in Seq(Nat) /\ o \in Seq(Nat)
      BY <1>1, <2>1
    <3>2. o = origin \o <<StandsFor>>
      BY <1>1, <2>1, AppendIsConcat
    <3> HIDE DEF o
    <3>3. Elements(<<StandsFor>>) = {StandsFor}
      <4>1. Len(<<StandsFor>>) = 1 /\ <<StandsFor>>[1] = StandsFor /\ 1 .. 1 = {1}
        OBVIOUS
      <4>2. QED BY <4>1 DEF Elements
    <3>4. Elements(origin \o <<StandsFor>>) = Elements(origin) \cup {StandsFor}
      BY <1>1, <3>1, <3>3, ElementsOfBoth
    <3>5. QED BY <3>1, <3>2, <3>4
  <2>5. Gone' = Gone \ {StandsFor}
    BY <1>5, <2>1, <2>4 DEF Gone
  <2>6. /\ Ordered(o \o AfterRead)
        /\ Elements(o \o AfterRead) = (1 .. taken) \ Gone'
        /\ Elements(AfterRead) \cap lost = {}
    <3>1. CASE ReadData # NoByte
      <4>1. o = origin \o <<ReadData>>
        BY <1>1, <2>1, <2>3, <3>1, AppendIsConcat
      <4>2. o \o AfterRead = origin \o InDevice
        BY <1>1, <2>2, <2>3, <3>1, <4>1, ConcatAssociative
      <4>3. Gone' = Gone
        BY <2>1, <2>5, <3>1 DEF Gone
      <4>4. Elements(AfterRead) \cap lost = {}
        BY <2>1, <3>1, TakenOut
      <4>5. QED BY <1>2, <4>2, <4>3, <4>4
    <3>2. CASE ReadData = NoByte
      <4>1. InDevice = <<>> /\ AfterRead = <<>>
        BY <2>2, <3>2
      <4>2. origin \o InDevice = origin /\ o \o AfterRead = o
        BY <1>1, <2>4, <4>1
      <4>3. Ordered(origin) /\ Elements(origin) = (1 .. taken) \ Gone
        BY <1>2, <4>2
      <4>4. Ordered(o) /\ Elements(o) = Elements(origin) \cup {StandsFor}
        BY <1>1, <2>1, <4>3, OrderedAppend
      <4>5. StandsFor \in 1 .. taken
        BY <1>2, <2>1, <3>2
      <4>6. QED BY <1>2, <2>5, <4>1, <4>2, <4>3, <4>4, <4>5
    <3>3. QED BY <3>1, <3>2
  <2> HIDE DEF o
  <2>7. Extends(o \o AfterRead, o \o InDevice') /\ o \o AfterRead \in Seq(Nat)
    BY <1>1, <2>2, <2>3, <2>4, ExtendsBehind, ConcatProperties
  <2>8. /\ Ordered(o \o InDevice')
        /\ Elements(o \o InDevice') = (1 .. taken') \ Gone'
    BY <1>1, <1>2, <2>5, <2>6, <2>7, ExtendsInOrder
  <2>9. lost \subseteq 1 .. taken' /\ Elements(InDevice') \cap lost = {}
    BY <1>1, <1>2, <2>2, <2>3, <2>6, ExtendsKept
  <2>10. origin' = o
    BY <2>1 DEF o
  <2>11. QED BY <1>5, <2>8, <2>9, <2>10 DEF BytesAreInOrder
<1>6. CASE SpeculativeRead
  <2>1. /\ StdinCycle(TRUE) /\ lost' = lost \cup ({ReadData} \ {NoByte})
        /\ origin' = origin
    BY <1>6 DEF SpeculativeRead
  <2>2. /\ AfterRead \in Seq(Byte) /\ Extends(AfterRead, InDevice') /\ ReadData \in Byte
        /\ InDevice = IF ReadData = NoByte THEN <<>> ELSE <<ReadData>> \o AfterRead
        /\ ReadData = NoByte => AfterRead = <<>>
    BY <2>1, ReadCycle
  <2>3. AfterRead \in Seq(Nat) /\ ReadData \in Nat /\ <<ReadData>> \in Seq(Nat)
    BY <1>1, <2>2, SeqMonotonic
  <2>4. /\ lost' \subseteq 1 .. taken /\ Ordered(origin \o AfterRead)
        /\ Elements(origin \o AfterRead) = (1 .. taken) \ Gone'
        /\ Elements(AfterRead) \cap lost' = {}
    <3>1. CASE ReadData = NoByte
      <4>1. lost' = lost /\ Gone' = Gone /\ InDevice = AfterRead
        BY <2>1, <2>2, <3>1 DEF Gone
      <4>2. QED BY <1>2, <4>1
    <3>2. CASE ReadData # NoByte
      <4>1. /\ Ordered(origin \o AfterRead)
            /\ Elements(origin \o AfterRead) = ((1 .. taken) \ Gone) \ {ReadData}
            /\ Elements(AfterRead) \cap (lost \cup {ReadData}) = {}
            /\ ReadData \in (1 .. taken) \ lost
            /\ \A i \in 1 .. Len(origin) : origin[i] < ReadData
        BY <2>1, <3>2, TakenOut
      <4>2. ReadData \notin Elements(origin)
        BY <1>1, <2>3, <4>1 DEF Elements
      <4>3. lost' = lost \cup {ReadData} /\ Gone' = Gone \cup {ReadData}
        BY <2>1, <3>2, <4>2 DEF Gone
      <4>4. QED BY <1>2, <4>1, <4>3
    <3>3. QED BY <3>1, <3>2
  <2>5. Gone' \subseteq 1 .. taken
    BY <2>4 DEF Gone
  <2>6. Extends(origin \o AfterRead, origin \o InDevice') /\ origin \o AfterRead \in Seq(Nat)
    BY <1>1, <2>2, <2>3, ExtendsBehind, ConcatProperties
  <2>7. /\ Ordered(origin \o InDevice')
        /\ Elements(origin \o InDevice') = (1 .. taken') \ Gone'
    BY <1>1, <2>4, <2>5, <2>6, ExtendsInOrder
  <2>8. lost' \subseteq 1 .. taken' /\ Elements(InDevice') \cap lost' = {}
    BY <1>1, <2>2, <2>3, <2>4, ExtendsKept
  <2>9. QED BY <2>1, <2>7, <2>8 DEF BytesAreInOrder
<1>7. CASE Host \/ UNCHANGED <<stdinVars, lost, origin>>
  <2>1. UNCHANGED <<rbuf, rdata, taken, lost, origin>>
    BY <1>7 DEF Host, stdinVars, simVars, devVars
  <2>2. InDevice' = InDevice /\ Gone' = Gone
    BY <2>1 DEF InDevice, rbufFull, Gone
  <2>3. QED BY <2>1, <2>2 DEF BytesAreInOrder
<1>8. QED BY <1>4, <1>5, <1>6, <1>7, DeviceSteps

\* What the handler has read stays what it stands for.
LEMMA BlanksStep ==
    ASSUME StdinTypeOK, HandshakeInvariant, TrapInvariant, RingTypeOK, ReadInvariant,
           BytesAreInOrder, BlanksAreLost, [Next]_vars
    PROVE  BlanksAreLost'
<1>1. /\ origin \in Seq(Nat) /\ ReadByHandler \in Seq(Byte)
  BY PartsAreNumbers, PartTypes
<1>2. Len(origin) \in Nat /\ Len(ReadByHandler) = Len(origin)
      /\ \A i \in 1 .. Len(origin) : ReadByHandler[i] = Read(origin[i])
  BY <1>1 DEF BlanksAreLost
<1>3. CASE ReadsDevice /\ UNCHANGED lost
  <2>1. /\ StandsFor \in Nat /\ (StandsFor \in lost <=> ReadData = NoByte)
        /\ ReadData # NoByte => StandsFor = ReadData
        /\ StdinCycle(TRUE) /\ origin' = Append(origin, StandsFor)
    BY <1>3, StandsForNext
  <2>2. ReadByHandler' = ReadByHandler \o <<ReadData>> /\ ReadData \in Byte
    BY <1>3, <2>1, ReadStep, ReadCycle
  <2>3. ReadByHandler' = Append(ReadByHandler, ReadData)
    BY <1>1, <2>2, AppendIsConcat
  <2>4. /\ Len(origin') = Len(origin) + 1 /\ origin'[Len(origin) + 1] = StandsFor
        /\ \A i \in 1 .. Len(origin) : origin'[i] = origin[i]
    BY <1>1, <2>1, AppendProperties
  <2>5. /\ Len(ReadByHandler') = Len(origin) + 1
        /\ ReadByHandler'[Len(origin) + 1] = ReadData
        /\ \A i \in 1 .. Len(origin) : ReadByHandler'[i] = ReadByHandler[i]
    <3> DEFINE r == Append(ReadByHandler, ReadData)
    <3>1. /\ Len(r) = Len(ReadByHandler) + 1 /\ r[Len(ReadByHandler) + 1] = ReadData
          /\ \A i \in 1 .. Len(ReadByHandler) : r[i] = ReadByHandler[i]
      BY <1>1, <2>2, AppendProperties
    <3> HIDE DEF r
    <3>2. QED BY <1>2, <2>3, <3>1 DEF r
  <2>6. \A b : Read(b)' = IF b \in lost THEN NoByte ELSE b
    BY <1>3 DEF Read
  <2>7. \A i \in 1 .. Len(origin) + 1 : i \in 1 .. Len(origin) \/ i = Len(origin) + 1
    BY <1>2
  <2>8. \A i \in 1 .. Len(origin) :
          ReadByHandler'[i] = IF origin'[i] \in lost THEN NoByte ELSE origin'[i]
    BY <1>2, <2>4, <2>5 DEF Read
  <2>9. ReadData = IF StandsFor \in lost THEN NoByte ELSE StandsFor
    BY <2>1
  <2>10. \A i \in 1 .. Len(origin) + 1 :
           ReadByHandler'[i] = IF origin'[i] \in lost THEN NoByte ELSE origin'[i]
    BY <2>4, <2>5, <2>7, <2>8, <2>9
  <2>11. QED BY <1>3, <2>4, <2>5, <2>10 DEF BlanksAreLost, Read
<1>4. CASE SpeculativeRead
  <2>1. /\ StdinCycle(TRUE) /\ lost' = lost \cup ({ReadData} \ {NoByte})
        /\ origin' = origin
    BY <1>4 DEF SpeculativeRead
  <2>2. ReadByHandler' = ReadByHandler
    <3>1. UNCHANGED bspVars
      BY <1>4 DEF SpeculativeRead
    <3>2. QED
      BY <3>1 DEF bspVars, dataVars, ringVars, trapVars, ReadByHandler, Ring, RingCount
  <2>3. \A i \in 1 .. Len(origin) : Read(origin[i])' = Read(origin[i])
    <3>1. ReadData # NoByte => \A i \in 1 .. Len(origin) : origin[i] < ReadData
      BY <2>1, TakenOut
    <3>2. \A i \in 1 .. Len(origin) : origin[i] \in lost' <=> origin[i] \in lost
      BY <1>1, <2>1, <3>1
    <3>3. QED BY <2>1, <3>2 DEF Read
  <2>4. QED BY <1>2, <2>1, <2>2, <2>3 DEF BlanksAreLost
<1>5. CASE ~ReadsDevice /\ UNCHANGED <<lost, origin>>
  <2>1. ReadByHandler' = ReadByHandler
    BY <1>5, ReadStep
  <2>2. QED BY <1>2, <1>5, <2>1 DEF BlanksAreLost, Read
<1>6. ~ReadsDevice /\ ~SpeculativeRead => UNCHANGED <<lost, origin>>
  BY DeviceSteps DEF Host
<1>7. ReadsDevice => UNCHANGED lost \/ SpeculativeRead
  BY DEF Next, HartStep, Step, Interrupted, Idle, Host, Timer, Ended, vars
<1>8. QED BY <1>3, <1>4, <1>5, <1>6, <1>7

\* Before the first byte.
LEMMA ConsoleInvariantInit == Init => ConsoleInvariant
<1> SUFFICES ASSUME Init PROVE ConsoleInvariant
  OBVIOUS
<1>1. /\ sent = 0 /\ fetched = 0 /\ taken = 0 /\ closed = FALSE /\ eof = FALSE
      /\ currentStdinByte = NoByte /\ rdata = NoByte /\ rbuf = NoByte /\ meip = FALSE
      /\ pc = "boot" /\ meie = FALSE /\ callbacks = [irq \in Irqs |-> "ignore_irq"]
      /\ stdin_buf = [i \in 0 .. StdinBufSize - 1 |-> 0]
      /\ stdin_buf_rpos = 0 /\ stdin_buf_wpos = 0 /\ isrByte = 0 /\ received = <<>>
      /\ lost = {} /\ origin = <<>>
  BY DEF Init, StdinInit, BspInit
<1>2. 0 \in Byte /\ NoByte \in Byte /\ 0 \in 0 .. 0
  BY MaxBytesAssumption DEF Byte, NoByte
<1>3. StdinTypeOK /\ HandshakeInvariant
  BY <1>1, <1>2 DEF StdinTypeOK, HandshakeInvariant, rbufFull
<1>4. RingTypeOK
  <2>1. origin \in Seq(Byte)
    BY <1>1
  <2>2. QED BY <1>1, <1>2, <2>1, StdinBufSizeAssumption DEF RingTypeOK
<1>5. ReadInvariant
  BY <1>1 DEF ReadInvariant, Irqs
<1>6. BytesAreInOrder
  <2>1. InDevice = <<>>
    <3>1. <<>> \o <<>> = <<>>
      OBVIOUS
    <3>2. QED BY <1>1, <3>1 DEF InDevice, rbufFull
  <2>2. origin \o InDevice = <<>>
    BY <1>1, <2>1
  <2>3. QED BY <1>1, <2>1, <2>2 DEF BytesAreInOrder, Ordered, Elements, Gone
<1>7. BlanksAreLost
  <2>1. RingCount = 0
    BY <1>1, <1>4, RingFacts DEF stdin_buf_is_empty
  <2>2. Ring = <<>>
    BY <1>4, <2>1, RingFacts, EmptySeq
  <2>3. IsrPart = <<>>
    BY <1>1 DEF IsrPart
  <2>4. ReadByHandler = <<>>
    BY <1>1, <1>3, <1>4, <2>2, <2>3, PartTypes
  <2>5. QED BY <1>1, <2>4 DEF BlanksAreLost
<1>8. QED
  BY <1>3, <1>4, <1>5, <1>6, <1>7, TrapInvariantInit DEF ConsoleInvariant

\* Every step keeps the invariant.
LEMMA ConsoleInvariantStep == ConsoleInvariant /\ [Next]_vars => ConsoleInvariant'
<1> SUFFICES ASSUME ConsoleInvariant, [Next]_vars PROVE ConsoleInvariant'
  OBVIOUS
<1>1. /\ StdinTypeOK /\ HandshakeInvariant /\ TrapInvariant /\ RingTypeOK
      /\ ReadInvariant /\ BytesAreInOrder /\ BlanksAreLost
  BY DEF ConsoleInvariant
<1>2. StdinTypeOK' /\ HandshakeInvariant'
  <2>1. CASE UNCHANGED stdinVars
    BY <1>1, <2>1 DEF stdinVars, hostVars, simVars, devVars, StdinTypeOK,
                      HandshakeInvariant, rbufFull
  <2>2. QED BY <1>1, <2>1, StdinSteps, StdinCycleStep, HostStep
<1>3. TrapInvariant'
  BY <1>1, TrapInvariantStep
<1>4. RingTypeOK' /\ ReadInvariant' /\ BytesAreInOrder' /\ BlanksAreLost'
  BY <1>1, RingTypeStep, ReadInvariantStep, BytesStep, BlanksStep
<1>5. QED BY <1>2, <1>3, <1>4 DEF ConsoleInvariant

\* It holds in every state.
LEMMA ConsoleInvariantHolds == Spec => []ConsoleInvariant
BY ConsoleInvariantInit, ConsoleInvariantStep, PTL DEF Spec

\* Every register and buffer between the host and the program holds what it may hold.
THEOREM ConsoleTypeCorrect == Spec => []ConsoleTypeOK
<1>1. ConsoleInvariant => ConsoleTypeOK
  BY DEF ConsoleInvariant, ConsoleTypeOK, TrapInvariant
<1>2. QED BY <1>1, ConsoleInvariantHolds, PTL

\* No byte is duplicated, overtaken or dropped between the host and the program, but for
\* those that squashed loads take out of the device; a 0 that nobody sent stands in the
\* place of such a byte only, at most one for each (syscalls.c 36-44, 68-88,
\* main.cpp 281-293, Apb3ByteDev.scala 31-55).
THEOREM BytesStayInOrder == Spec => []StreamInvariant
<1>1. ConsoleInvariant => StreamInvariant
  <2> SUFFICES ASSUME ConsoleInvariant PROVE StreamInvariant
    OBVIOUS
  <2> DEFINE bytes == origin \o InDevice
  <2>1. /\ StdinTypeOK /\ RingTypeOK /\ BytesAreInOrder /\ BlanksAreLost
    BY DEF ConsoleInvariant
  <2>2. /\ bytes \in Seq(Nat) /\ InDevice \in Seq(Nat) /\ origin \in Seq(Nat)
        /\ ReadByHandler \in Seq(Byte)
    BY <2>1, PartsAreNumbers, PartTypes, ConcatProperties
  <2>3. Ordered(bytes) /\ Elements(bytes) = (1 .. taken) \ Gone
        /\ Elements(InDevice) \cap lost = {}
    BY <2>1 DEF BytesAreInOrder
  <2> HIDE DEF bytes
  <2>4. \A i \in 1 .. Len(bytes) - 1 : bytes[i] < bytes[i + 1]
    <3> SUFFICES ASSUME NEW i \in 1 .. Len(bytes) - 1 PROVE bytes[i] < bytes[i + 1]
      OBVIOUS
    <3>1. Len(bytes) \in Nat
      BY <2>2
    <3>2. i \in 1 .. Len(bytes) /\ i + 1 \in 1 .. Len(bytes) /\ i < i + 1
      BY <3>1
    <3>3. QED BY <2>3, <3>2 DEF Ordered
  <2>5. (1 .. taken) \ lost \subseteq Elements(bytes) /\ Elements(bytes) \subseteq 1 .. taken
    BY <2>3 DEF Gone
  <2>6. \A i \in 1 .. Len(InDevice) : InDevice[i] \notin lost
    BY <2>3 DEF Elements
  <2>7. ReadByHandler = [i \in 1 .. Len(origin) |->
                          IF origin[i] \in lost THEN NoByte ELSE origin[i]]
    <3>1. ReadByHandler = [i \in 1 .. Len(ReadByHandler) |-> ReadByHandler[i]]
      BY <2>2
    <3>2. /\ Len(ReadByHandler) = Len(origin)
          /\ \A i \in 1 .. Len(origin) :
               ReadByHandler[i] = IF origin[i] \in lost THEN NoByte ELSE origin[i]
      BY <2>1 DEF BlanksAreLost, Read
    <3>3. QED BY <3>1, <3>2
  <2>8. QED BY <2>4, <2>5, <2>6, <2>7 DEF StreamInvariant, Elements, bytes
<1>2. QED BY <1>1, ConsoleInvariantHolds, PTL

-----------------------------------------------------------------------------
(* The stream the program sees. *)

\* What the bytes the program has stand for.
ReceivedOrigin == SubSeq(origin, 1, Len(received))

\* The bytes the program has are the first of those the handler has read.
LEMMA ReceivedFirst ==
    ASSUME StdinTypeOK, RingTypeOK, BlanksAreLost
    PROVE  /\ Len(received) \in Nat /\ Len(received) <= Len(origin)
           /\ \A i \in 1 .. Len(Ring) :
                /\ Len(received) + i \in 1 .. Len(origin)
                /\ ReadByHandler[Len(received) + i] = Ring[i]
<1> DEFINE u == received \o Ring
           m == Len(received)
<1>1. /\ received \in Seq(Byte) /\ Ring \in Seq(Byte) /\ IsrPart \in Seq(Byte)
      /\ ReadByHandler = u \o IsrPart
  BY PartTypes
<1>2. /\ u \in Seq(Byte) /\ Len(u) = m + Len(Ring)
      /\ \A i \in 1 .. m + Len(Ring) :
           u[i] = IF i <= m THEN received[i] ELSE Ring[i - m]
  BY <1>1, ConcatProperties
<1>3. Len(Ring) \in Nat /\ Len(IsrPart) \in Nat /\ Len(u) \in Nat /\ m \in Nat
  BY <1>1, <1>2
<1> HIDE DEF u, m
<1>4. /\ Len(ReadByHandler) = Len(u) + Len(IsrPart)
      /\ \A i \in 1 .. Len(u) + Len(IsrPart) :
           ReadByHandler[i] = IF i <= Len(u) THEN u[i] ELSE IsrPart[i - Len(u)]
  BY <1>1, <1>2, ConcatProperties
<1>5. Len(origin) = Len(ReadByHandler)
  BY DEF BlanksAreLost
<1>6. ASSUME NEW i \in 1 .. Len(Ring)
      PROVE  m + i \in 1 .. Len(origin) /\ ReadByHandler[m + i] = Ring[i]
  <2>1. /\ m + i \in 1 .. m + Len(Ring) /\ ~(m + i <= m) /\ m + i - m = i
        /\ m + i \in 1 .. Len(u) + Len(IsrPart) /\ m + i <= Len(u)
    BY <1>2, <1>3
  <2> DEFINE k == m + i
  <2>2. u[m + i] = Ring[i]
    <3>1. k \in 1 .. m + Len(Ring) /\ ~(k <= m) /\ k - m = i
      BY <1>3, <2>1
    <3> HIDE DEF k
    <3>2. u[k] = Ring[k - m]
      BY <1>2, <3>1
    <3>3. QED BY <3>1, <3>2 DEF k
  <2>3. ReadByHandler[m + i] = u[m + i]
    BY <1>4, <2>1
  <2>4. m + i \in 1 .. Len(origin)
    BY <1>4, <1>5, <2>1
  <2>5. QED BY <2>2, <2>3, <2>4
<1>7. m <= Len(origin)
  BY <1>2, <1>3, <1>4, <1>5
<1>8. QED BY <1>3, <1>6, <1>7 DEF m

\* How far the program has come.
LEMMA LastReceivedIs ==
    ASSUME StdinTypeOK, RingTypeOK, BlanksAreLost
    PROVE  /\ Stream!LastReceived \in Nat
           /\ Len(received) = 0 => Stream!LastReceived = 0
           /\ Len(received) # 0 => /\ Len(received) \in 1 .. Len(origin)
                                   /\ Stream!LastReceived = origin[Len(received)]
<1> DEFINE m == Len(received)
<1>1. origin \in Seq(Nat) /\ m \in Nat /\ m <= Len(origin) /\ Len(origin) \in Nat
  BY PartsAreNumbers, ReceivedFirst
<1>2. \A i \in 1 .. m : i \in 1 .. Len(origin) /\ origin[i] \in Nat
  BY <1>1
<1>3. /\ ReceivedOrigin = [i \in 1 .. m |-> origin[i]] /\ ReceivedOrigin \in Seq(Nat)
      /\ Len(ReceivedOrigin) = m
  BY <1>1, <1>2 DEF ReceivedOrigin
<1>4. Stream!LastReceived = IF ReceivedOrigin = <<>> THEN 0
                            ELSE ReceivedOrigin[Len(ReceivedOrigin)]
  BY DEF Stream!LastReceived, ReceivedOrigin
<1> HIDE DEF m
<1>5. ReceivedOrigin = <<>> <=> m = 0
  BY <1>3, EmptySeq
<1>6. m # 0 => m \in 1 .. m /\ m \in 1 .. Len(origin)
  BY <1>1
<1>7. QED BY <1>2, <1>3, <1>4, <1>5, <1>6 DEF m

\* While the program gets nothing, what its bytes stand for stays the same.
LEMMA OriginStays ==
    ASSUME StdinTypeOK, HandshakeInvariant, RingTypeOK, ReadInvariant, BytesAreInOrder,
           BlanksAreLost, [Next]_vars, UNCHANGED received
    PROVE  ReceivedOrigin' = ReceivedOrigin
<1>1. CASE UNCHANGED origin
  BY <1>1 DEF ReceivedOrigin
<1>2. CASE ReadsDevice
  <2>1. StandsFor \in Nat /\ origin' = Append(origin, StandsFor)
    BY <1>2, StandsForNext
  <2> DEFINE m == Len(received)
             o == Append(origin, StandsFor)
  <2>2. origin \in Seq(Nat) /\ m \in Nat /\ m <= Len(origin) /\ Len(origin) \in Nat
    BY PartsAreNumbers, ReceivedFirst
  <2>3. /\ o \in Seq(Nat) /\ Len(o) = Len(origin) + 1
        /\ \A i \in 1 .. Len(origin) : o[i] = origin[i]
    BY <2>1, <2>2, AppendProperties
  <2> HIDE DEF m, o
  <2>4. \A i \in 1 .. m : i \in 1 .. Len(origin)
    BY <2>2
  <2>5. /\ SubSeq(origin, 1, m) = [i \in 1 .. m |-> origin[i]]
        /\ SubSeq(o, 1, m) = [i \in 1 .. m |-> o[i]]
    BY <2>2, <2>3
  <2>6. SubSeq(o, 1, m) = SubSeq(origin, 1, m)
    BY <2>3, <2>4, <2>5
  <2>7. QED BY <2>1, <2>6 DEF ReceivedOrigin, m, o
<1>3. UNCHANGED origin \/ ReadsDevice
  BY DeviceSteps DEF SpeculativeRead, Host
<1>4. QED BY <1>1, <1>2, <1>3

\* A byte the core throws away is later than those the program has.
LEMMA LostIsLater ==
    ASSUME ConsoleInvariant, SpeculativeRead
    PROVE  Stream!Lose \/ UNCHANGED Stream!vars
<1>1. /\ StdinTypeOK /\ HandshakeInvariant /\ RingTypeOK /\ BytesAreInOrder
      /\ BlanksAreLost
  BY DEF ConsoleInvariant
<1>2. /\ StdinCycle(TRUE) /\ lost' = lost \cup ({ReadData} \ {NoByte})
      /\ sent' = sent /\ received' = received /\ origin' = origin
  BY DEF SpeculativeRead, StdinCycle, hostVars, bspVars, dataVars
<1>3. CASE ReadData = NoByte
  BY <1>2, <1>3 DEF Stream!vars
<1>4. CASE ReadData # NoByte
  <2>1. /\ ReadData \in (1 .. taken) \ lost
        /\ \A i \in 1 .. Len(origin) : origin[i] < ReadData
    BY <1>1, <1>2, <1>4, TakenOut
  <2>2. Stream!LastReceived \in Nat /\ Stream!LastReceived < ReadData
    BY <1>1, <2>1, LastReceivedIs, ReceivedFirst
  <2>3. taken <= sent /\ taken \in Nat /\ sent \in Nat
    BY <1>1, MaxBytesAssumption DEF StdinTypeOK, Byte
  <2>4. ReadData \in (Stream!LastReceived + 1 .. sent) \ lost
    BY <2>1, <2>2, <2>3
  <2>5. lost' = lost \cup {ReadData}
    BY <1>2, <1>4
  <2>6. QED BY <1>2, <2>4, <2>5 DEF Stream!Lose
<1>5. QED BY <1>3, <1>4

\* sys_read copies the oldest byte that is not lost, or a blank.
LEMMA CopiesInOrder ==
    ASSUME ConsoleInvariant, [Next]_vars, Copies, StdinCycle(FALSE), UNCHANGED <<lost, origin>>
    PROVE  Stream!Receive \/ UNCHANGED Stream!vars
<1>1. /\ StdinTypeOK /\ RingTypeOK /\ BytesAreInOrder /\ BlanksAreLost /\ RingTypeOK'
      /\ sent' = sent /\ UNCHANGED <<stdin_buf, stdin_buf_wpos>>
  BY RingTypeStep DEF ConsoleInvariant, StdinCycle, hostVars, Copies
<1>2. CASE UNCHANGED received
  BY <1>1, <1>2 DEF Stream!vars
<1>3. CASE ~UNCHANGED received
  <2> DEFINE h == stdin_buf[stdin_buf_rpos]
             m == Len(received)
             b == origin[m + 1]
             s == origin \o InDevice
  <2>1. /\ received' = Append(received, h) /\ ~stdin_buf_is_empty
        /\ stdin_buf_rpos' = stdin_buf_next_pos(stdin_buf_rpos)
    BY <1>3 DEF Copies
  <2>2. Ring = <<h>> \o Ring' /\ Ring' \in Seq(Byte) /\ h \in Byte /\ Ring \in Seq(Byte)
    BY <1>1, <2>1, RingCopies, RingFacts, RingFactsNext DEF RingTypeOK
  <2> HIDE DEF h
  <2>3. 1 \in 1 .. Len(Ring) /\ Ring[1] = h
    <3>1. <<h>> \in Seq(Byte) /\ Len(<<h>>) = 1 /\ <<h>>[1] = h
      BY <2>2
    <3>2. Len(Ring') \in Nat
      BY <2>2
    <3>3. Len(Ring) = 1 + Len(Ring') /\ 1 \in 1 .. 1 + Len(Ring')
      BY <2>2, <3>1, <3>2, ConcatProperties
    <3>4. QED BY <2>2, <3>1, <3>3, ConcatProperties
  <2>4. m + 1 \in 1 .. Len(origin) /\ ReadByHandler[m + 1] = h /\ m \in Nat
    BY <1>1, <2>3, ReceivedFirst
  <2>5. h = IF b \in lost THEN NoByte ELSE b
    BY <1>1, <2>4 DEF BlanksAreLost, Read
  <2>6. origin \in Seq(Nat) /\ InDevice \in Seq(Nat) /\ taken \in Nat
    BY <1>1, PartsAreNumbers
  <2>7. /\ s \in Seq(Nat) /\ Len(s) = Len(origin) + Len(InDevice)
        /\ \A i \in 1 .. Len(origin) : s[i] = origin[i]
    BY <2>6, ConcatProperties
  <2>8. Len(origin) \in Nat /\ Len(InDevice) \in Nat
    BY <2>6
  <2>9. s[m + 1] = b /\ m < Len(s) /\ (m # 0 => s[m] = origin[m])
    BY <2>4, <2>7, <2>8
  <2>10. /\ Stream!LastReceived \in Nat /\ (m = 0 => Stream!LastReceived = 0)
         /\ (m # 0 => Stream!LastReceived = s[m])
    BY <1>1, <2>9, LastReceivedIs
  <2>11. Ordered(s) /\ Elements(s) = (1 .. taken) \ Gone
    BY <1>1 DEF BytesAreInOrder
  <2> HIDE DEF m, s, b
  <2>12. /\ s[m + 1] \in (Stream!LastReceived + 1 .. taken) \ Gone
         /\ (Stream!LastReceived + 1 .. s[m + 1] - 1) \subseteq Gone
    <3>1. m < Len(s) /\ m \in Nat /\ s \in Seq(Nat) /\ taken \in Nat
      BY <2>4, <2>6, <2>7, <2>9
    <3>2. QED BY <2>10, <2>11, <3>1, NextInOrder
  <2>13. taken <= sent /\ taken \in Nat /\ sent \in Nat
    BY <1>1, MaxBytesAssumption DEF StdinTypeOK, Byte
  <2>14. /\ b \in Stream!LastReceived + 1 .. sent
         /\ (Stream!LastReceived + 1 .. b - 1) \subseteq lost
    BY <2>9, <2>10, <2>12, <2>13 DEF Gone
  <2>15. ReceivedOrigin' = Append(ReceivedOrigin, b)
    <3>1. received \in Seq(Nat) /\ h \in Nat
      BY <1>1, <2>2, PartsAreNumbers
    <3>2. Len(received') = m + 1
      BY <2>1, <3>1, AppendProperties DEF m
    <3>3. /\ ReceivedOrigin' = SubSeq(origin, 1, m + 1)
          /\ ReceivedOrigin = SubSeq(origin, 1, m)
      BY <3>2 DEF ReceivedOrigin, m
    <3>4. SubSeq(origin, 1, m + 1) = Append(SubSeq(origin, 1, m), origin[m + 1])
      <4>1. m + 1 <= Len(origin)
        BY <2>4, <2>8
      <4>2. \A i \in 1 .. m + 1 : i \in 1 .. Len(origin) /\ origin[i] \in Nat
        BY <2>4, <2>6, <4>1
      <4>3. QED BY <2>4, <2>6, <2>8, <4>1, <4>2
    <3>5. QED BY <3>3, <3>4 DEF b
  <2>16. QED
    BY <1>1, <2>1, <2>5, <2>14, <2>15 DEF Stream!Receive, Stream!Blank, NoByte, ReceivedOrigin
<1>4. QED BY <1>2, <1>3

\* A program that reads standard input sees a stream of bytes: each once, in the order in
\* which the host wrote them, none missing that the core has not thrown away, and a blank
\* only in the place of one of those (syscalls.c 36-44, 68-88).
THEOREM ConsoleIsAStream == Spec => ImplementsStream
<1>1. Init => Stream!Init
  <2> SUFFICES ASSUME Init PROVE Stream!Init
    OBVIOUS
  <2>1. sent = 0 /\ lost = {} /\ origin = <<>> /\ received = <<>>
    BY DEF Init, StdinInit, BspInit
  <2>2. SubSeq(<<>>, 1, 0) = <<>> /\ Len(<<>>) = 0
    OBVIOUS
  <2>3. QED BY <2>1, <2>2 DEF Stream!Init
<1>2. ConsoleInvariant /\ [Next]_vars
        => [Stream!Send \/ Stream!Lose \/ Stream!Receive]_(Stream!vars)
  <2> SUFFICES ASSUME ConsoleInvariant, [Next]_vars
               PROVE  Stream!Send \/ Stream!Lose \/ Stream!Receive \/ UNCHANGED Stream!vars
    OBVIOUS
  <2>1. /\ StdinTypeOK /\ HandshakeInvariant /\ TrapInvariant /\ RingTypeOK
        /\ ReadInvariant /\ BytesAreInOrder /\ BlanksAreLost
    BY DEF ConsoleInvariant
  <2>2. CASE SpeculativeRead
    BY <2>2, LostIsLater
  <2>3. CASE Copies /\ StdinCycle(FALSE) /\ UNCHANGED <<lost, origin>>
    BY <2>3, CopiesInOrder
  <2>4. CASE Host
    BY <2>4
    DEF Host, HostWrites, HostCloses, bspVars, dataVars, Stream!Send, Stream!vars
  <2>5. CASE UNCHANGED <<sent, lost, received>>
    BY <2>1, <2>5, OriginStays DEF Stream!vars, ReceivedOrigin
  <2>6. \/ UNCHANGED received
        \/ Copies /\ StdinCycle(FALSE) /\ UNCHANGED <<lost, origin>>
    <3>1. UNCHANGED dataVars => UNCHANGED received
      BY DEF dataVars
    <3>2. IsrStores \/ ReadsDevice => UNCHANGED received
      BY DEF IsrStores, ReadsDevice, IsrReads
    <3>3. QED BY <2>1, <3>1, <3>2, DataSteps
  <2>7. UNCHANGED <<sent, lost>> \/ Host \/ SpeculativeRead
    <3>1. ReadsDevice \/ StdinCycle(FALSE) => sent' = sent
      BY DEF ReadsDevice, StdinCycle, hostVars
    <3>2. UNCHANGED stdinVars => sent' = sent
      BY DEF stdinVars, hostVars
    <3>3. QED BY <3>1, <3>2, DeviceSteps
  <2>8. QED BY <2>2, <2>3, <2>4, <2>5, <2>6, <2>7
<1>3. QED
  BY <1>1, <1>2, ConsoleInvariantHolds, PTL DEF Spec, ImplementsStream, Stream!Spec
=============================================================================
