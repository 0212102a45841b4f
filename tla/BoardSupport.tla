---------------------------- MODULE BoardSupport ----------------------------
(***************************************************************************)
(* The board support package (ecosystem/newlib-bsp) on one hart in machine *)
(* mode: the trap handler (trap.S), interrupt callbacks (interrupts.c),    *)
(* exceptions (exceptions.c), and the system calls with the buffer of      *)
(* standard input (syscalls.c); and the part of the hart they use, mstatus,*)
(* mie, mepc and mcause (plugins/TrapHandler.scala, Interrupts.scala).     *)
(*                                                                         *)
(* pc names the code that runs next, in steps as coarse as the things they *)
(* share allow.  stack holds the trap frames; regs stands for the          *)
(* registers x1, x5-x31: the arguments of the call being made.             *)
(***************************************************************************)
EXTENDS Integers, Sequences

CONSTANTS
  StdinBufSize,  \* STDIN_BUF_SIZE
  Calls          \* the system calls of the program
ASSUME StdinBufSizeAssumption == StdinBufSize \in Nat /\ StdinBufSize > 1

VARIABLES
  pc, regs, stack,              \* the program counter, registers, trap frames
  mepc, mcause, mie, mpie,      \* trap registers, and two bits of mstatus
  meie, mtie, timer,            \* the register mie; the machine timer and mtip
  callbacks, printer, report,   \* isrs; who prints; what exception() reports
  stdin_buf, stdin_buf_rpos, stdin_buf_wpos, isrByte,
  received, halted   \* what read() has given the program; the simulation's end

ringVars == <<stdin_buf, stdin_buf_rpos, stdin_buf_wpos>>
trapVars == <<mepc, mcause, mie, mpie>>
irqVars == <<meie, mtie, timer, callbacks>>
reportVars == <<printer, report>>
dataVars == <<ringVars, isrByte, received>>
bspVars == <<pc, regs, stack, trapVars, irqVars, reportVars, dataVars,
            halted>>

STDIN == 0
STDOUT == 1

Call(name, fd, arg) == [call |-> name, fd |-> fd, arg |-> arg]
NoCall == Call("none", 0, 0)
PrintCall == Call("write", STDOUT, 0)

\* arg is the count of a read, or says whether the text of a write holds an EOT.
\* "other": close, lseek, fstat and brk.  "exit": also a call nobody supports.
CallNames == {"read", "write", "other", "exit"}

ASSUME CallsAssumption ==
  Calls \subseteq [call : CallNames, fd : {STDIN, STDOUT}, arg : Nat]

Irqs == {"MTI", "MEI"}

Labels == {"boot", "program", "ecall", "trap", "syscall", "copy", "sysret", "isr",
           "isr_test", "isr_read", "isr_store", "user_isr", "exception", "print",
           "printed", "return", "halt", "halted"}
-----------------------------------------------------------------------------
(* The buffer of standard input. *)

\* Mutant of stdin_buf_next_pos: without the modulo.
stdin_buf_next_pos_unwrapped(pos) == pos + 1

stdin_buf_next_pos(pos) == (pos + 1) % StdinBufSize

stdin_buf_is_empty == stdin_buf_rpos = stdin_buf_wpos

stdin_buf_is_full == stdin_buf_next_pos(stdin_buf_wpos) = stdin_buf_rpos
-----------------------------------------------------------------------------
(* The hart: when an interrupt is taken, and what a trap and mret do. *)

\* external: the external interrupt is pending.
InterruptTaken(external) ==
  mie /\ ((mtie /\ timer = "pending") \/ (meie /\ external))

\* Mutant of Trap: interrupts stay on.
TrapInterruptible(cause) ==
  /\ mepc' = pc
  /\ mcause' = cause
  /\ mpie' = mie
  /\ pc' = "trap"
  /\ UNCHANGED mie

Trap(cause) ==
  /\ mepc' = pc
  /\ mcause' = cause
  /\ mpie' = mie
  /\ mie' = FALSE
  /\ pc' = "trap"

\* The external interrupt is assigned last and wins.
TakesInterrupt(external) ==
  /\ InterruptTaken(external)
  /\ Trap(IF meie /\ external THEN "MEI" ELSE "MTI")
  /\ UNCHANGED <<regs, stack, irqVars, reportVars, dataVars, halted>>

Ecall ==
  /\ pc = "ecall"
  /\ Trap("ecall")
  /\ UNCHANGED <<regs, stack, irqVars, reportVars, dataVars, halted>>

\* Any instruction of the program that raises another exception.
Faults ==
  /\ pc = "program"
  /\ Trap("fault")
  /\ UNCHANGED <<regs, stack, irqVars, reportVars, dataVars, halted>>
-----------------------------------------------------------------------------
(* What comes before main, and the program: it makes system calls, turns      *)
(* interrupts on and off, and uses the timer with an isr of its own or none.  *)

InitSyscalls ==
  /\ pc = "boot"
  /\ callbacks' = [callbacks EXCEPT !["MEI"] = "stdin"]
  /\ meie' = TRUE
  /\ pc' = "program"
  /\ UNCHANGED <<regs, stack, trapVars, mtie, timer, reportVars, dataVars, halted>>

SetsUpCall(c) ==
  /\ pc = "program"
  /\ regs' = c
  /\ pc' = "ecall"
  /\ UNCHANGED <<stack, trapVars, irqVars, reportVars, dataVars, halted>>

EnablesOrDisablesInterrupts ==
  /\ pc = "program"
  /\ mie' = ~mie
  /\ UNCHANGED <<pc, regs, stack, mepc, mcause, mpie, irqVars, reportVars, dataVars,
                 halted>>

\* enable_irq and disable_irq of the timer, register_isr for it, a new compare value.
UsesTimer ==
  /\ pc = "program"
  /\ \/ mtie' = ~mtie /\ UNCHANGED <<callbacks, timer>>
     \/ callbacks' = [callbacks EXCEPT !["MTI"] = "user"] /\ UNCHANGED <<mtie, timer>>
     \/ timer' = "armed" /\ UNCHANGED <<mtie, callbacks>>
  /\ UNCHANGED <<pc, regs, stack, trapVars, meie, reportVars, dataVars, halted>>

\* The timer's register passes the compare value.
TimerFires ==
  /\ timer = "armed"
  /\ timer' = "pending"
  /\ UNCHANGED <<pc, regs, stack, trapVars, meie, mtie, callbacks, reportVars, dataVars,
                 halted>>
-----------------------------------------------------------------------------
(* The trap handler. *)

SavesFrame ==
  /\ pc = "trap"
  /\ stack' = Append(stack, regs)
  /\ pc' = CASE mcause \in Irqs -> "isr"
             [] mcause = "ecall" -> "syscall"
             [] mcause = "fault" -> "exception"
  /\ UNCHANGED <<regs, trapVars, irqVars, reportVars, dataVars, halted>>

\* Mutant of Returns: does not restore the registers.
ReturnsWithoutRegisters ==
  /\ pc = "return"
  /\ stack' = SubSeq(stack, 1, Len(stack) - 1)
  /\ pc' = mepc
  /\ mie' = mpie
  /\ mpie' = TRUE
  /\ UNCHANGED <<regs, mepc, mcause, irqVars, reportVars, dataVars, halted>>

\* Restores the registers; mret.
Returns ==
  /\ pc = "return"
  /\ regs' = stack[Len(stack)]
  /\ stack' = SubSeq(stack, 1, Len(stack) - 1)
  /\ pc' = mepc
  /\ mie' = mpie
  /\ mpie' = TRUE
  /\ UNCHANGED <<mepc, mcause, irqVars, reportVars, dataVars, halted>>

\* isr(code) calls the callback of the cause; they use the registers.
Isr ==
  /\ pc = "isr"
  /\ regs' = NoCall
  /\ CASE callbacks[mcause] = "stdin" -> pc' = "isr_test" /\ UNCHANGED printer
       [] callbacks[mcause] = "user" -> pc' = "user_isr" /\ UNCHANGED printer
       [] callbacks[mcause] = "ignore_irq" -> pc' = "print" /\ printer' = "ignored"
  /\ UNCHANGED <<stack, trapVars, irqVars, report, dataVars, halted>>

\* Mutant of UserIsr: leaves the compare value.
UserIsrKeepsTimer ==
  /\ pc = "user_isr"
  /\ pc' = "return"
  /\ UNCHANGED <<regs, stack, trapVars, irqVars, reportVars, dataVars, halted>>

\* The program's isr for the timer: moves the compare value far ahead.
UserIsr ==
  /\ pc = "user_isr"
  /\ timer' = "off"
  /\ pc' = "return"
  /\ UNCHANGED <<regs, stack, trapVars, meie, mtie, callbacks, reportVars, dataVars,
                 halted>>

\* exception() reads mepc and prints it; then _halt.
Exception ==
  /\ pc = "exception"
  /\ report' = mepc
  /\ printer' = "exception"
  /\ pc' = "print"
  /\ UNCHANGED <<regs, stack, trapVars, irqVars, dataVars, halted>>

\* puts and printf end in a system call, made from within the trap handler.
Prints ==
  /\ pc = "print"
  /\ regs' = PrintCall
  /\ Trap("ecall")
  /\ UNCHANGED <<stack, irqVars, reportVars, dataVars, halted>>

\* Mutant of Printed: does not halt.
PrintedAgain ==
  /\ pc = "printed" /\ stack # <<>>
  /\ pc' = IF printer = "ignored" THEN "return" ELSE "print"
  /\ UNCHANGED <<regs, stack, trapVars, irqVars, reportVars, dataVars, halted>>

Printed ==
  /\ pc = "printed" /\ stack # <<>>
  /\ pc' = IF printer = "ignored" THEN "return" ELSE "halt"
  /\ UNCHANGED <<regs, stack, trapVars, irqVars, reportVars, dataVars, halted>>

\* Stores the EOT that ends the simulation, and loops.
Halts ==
  /\ pc = "halt"
  /\ halted' = TRUE
  /\ pc' = "halted"
  /\ UNCHANGED <<regs, stack, trapVars, irqVars, reportVars, dataVars>>
-----------------------------------------------------------------------------
(* external_interrupt_isr *)

\* Mutant of IsrTests: does not test.
IsrTestsNothing ==
  /\ pc = "isr_test"
  /\ pc' = "isr_read"
  /\ UNCHANGED <<regs, stack, trapVars, irqVars, reportVars, dataVars, halted>>

IsrTests ==
  /\ pc = "isr_test"
  /\ pc' = IF stdin_buf_is_full THEN "return" ELSE "isr_read"
  /\ UNCHANGED <<regs, stack, trapVars, irqVars, reportVars, dataVars, halted>>

\* data: what the device answers.
IsrReads(data) ==
  /\ pc = "isr_read"
  /\ isrByte' = data
  /\ pc' = "isr_store"
  /\ UNCHANGED <<regs, stack, trapVars, irqVars, reportVars, ringVars, received, halted>>

IsrStores ==
  /\ pc = "isr_store"
  /\ stdin_buf' = [stdin_buf EXCEPT ![stdin_buf_wpos] = isrByte]
  /\ stdin_buf_wpos' = stdin_buf_next_pos(stdin_buf_wpos)
  /\ isrByte' = 0
  /\ pc' = "return"
  /\ UNCHANGED <<regs, stack, trapVars, irqVars, reportVars, stdin_buf_rpos,
                 received, halted>>
-----------------------------------------------------------------------------
(* System calls: syscall() and the functions it calls. *)

SysRead ==
  /\ pc = "syscall" /\ regs.call = "read"
  /\ pc' = IF regs.fd = STDIN /\ ~stdin_buf_is_empty THEN "copy" ELSE "sysret"
  /\ UNCHANGED <<regs, stack, trapVars, irqVars, reportVars, dataVars, halted>>

\* One round of the loop of sys_read, which copies one byte to the program.
Copies ==
  /\ pc = "copy"
  /\ IF ~stdin_buf_is_empty /\ regs.arg > 0
     THEN /\ received' = Append(received, stdin_buf[stdin_buf_rpos])
          /\ stdin_buf_rpos' = stdin_buf_next_pos(stdin_buf_rpos)
          /\ regs' = [regs EXCEPT !.arg = @ - 1]
          /\ UNCHANGED pc
     ELSE pc' = "sysret" /\ UNCHANGED <<received, stdin_buf_rpos, regs>>
  /\ UNCHANGED <<stack, trapVars, irqVars, reportVars, stdin_buf, stdin_buf_wpos, isrByte,
                 halted>>

\* A character EOT in the text ends the simulation.
SysWrite ==
  /\ pc = "syscall" /\ regs.call = "write"
  /\ halted' = (regs.fd = STDOUT /\ regs.arg = 1)
  /\ pc' = "sysret"
  /\ UNCHANGED <<regs, stack, trapVars, irqVars, reportVars, dataVars>>

\* sys_close, sys_lseek and sys_fstat compute an answer and nothing else; sys_brk keeps
\* the end of the heap, which nothing else reads.
SysOther ==
  /\ pc = "syscall" /\ regs.call = "other"
  /\ pc' = "sysret"
  /\ UNCHANGED <<regs, stack, trapVars, irqVars, reportVars, dataVars, halted>>

\* sys_exit and unsupported_syscall print and halt.
SysExit ==
  /\ pc = "syscall" /\ regs.call = "exit"
  /\ printer' = "exit"
  /\ pc' = "print"
  /\ UNCHANGED <<regs, stack, trapVars, irqVars, report, dataVars, halted>>

\* The instruction after an ecall.
After(label) == CASE label = "ecall" -> "program"
                  [] label = "print" -> "printed"
                  [] OTHER -> label

\* The answer overwrites a0 in the frame: the arguments are gone.
SysReturn ==
  /\ pc = "sysret"
  /\ stack' = [stack EXCEPT ![Len(stack)] = NoCall]
  /\ mepc' = After(mepc)
  /\ pc' = "return"
  /\ UNCHANGED <<regs, mcause, mie, mpie, irqVars, reportVars, dataVars, halted>>
-----------------------------------------------------------------------------
BspInit ==
  /\ pc = "boot" /\ regs = NoCall /\ stack = <<>>
  /\ mepc = "boot" /\ mcause = "none" /\ mie = FALSE /\ mpie = FALSE
  /\ meie = FALSE /\ mtie = FALSE /\ timer = "pending"
  /\ callbacks = [irq \in Irqs |-> "ignore_irq"]
  /\ printer = "none" /\ report = "none"
  /\ stdin_buf = [i \in 0 .. StdinBufSize - 1 |-> 0]
  /\ stdin_buf_rpos = 0 /\ stdin_buf_wpos = 0
  /\ isrByte = 0
  /\ received = <<>> /\ halted = FALSE

\* The steps of the code, without those of the program and of its calls.
TrapHandlerStep ==
  \/ SavesFrame \/ Returns \/ Isr \/ UserIsr \/ Exception \/ Prints \/ Printed \/ Halts
  \/ IsrTests \/ IsrStores
  \/ SysRead \/ Copies \/ SysWrite \/ SysOther \/ SysExit \/ SysReturn

ProgramStep ==
  \/ InitSyscalls \/ EnablesOrDisablesInterrupts \/ UsesTimer \/ Faults \/ Ecall
  \/ \E c \in Calls : SetsUpCall(c)
=============================================================================
