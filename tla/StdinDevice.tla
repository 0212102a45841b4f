----------------------------- MODULE StdinDevice -----------------------------
(***************************************************************************)
(* The way of a byte of standard input into the core, in a simulation:     *)
(* the host's pipe, the input buffer of the C library in the simulator,    *)
(* the simulator's ByteDev (ecosystem/simulation/main.cpp) and the byte    *)
(* device on the peripheral bus (soc/devices/Apb3ByteDev.scala) with the   *)
(* external interrupt it posts in mip (plugins/Interrupts.scala).          *)
(*                                                                         *)
(* Bytes are numbered 1, 2, ... in the order in which the host writes      *)
(* them.  NoByte is the value of a register whose valid bit is clear, and  *)
(* what the device answers a read with when it has no byte.  The host's    *)
(* side are positions in that numbering: the library holds                 *)
(* taken+1 .. fetched and the pipe holds fetched+1 .. sent.                *)
(***************************************************************************)
EXTENDS Naturals

CONSTANT MaxBytes   \* bound on the bytes the host writes
ASSUME MaxBytesAssumption == MaxBytes \in Nat

VARIABLES
  sent, fetched, taken, closed, eof,  \* the host and std::cin
  currentStdinByte,  \* ByteDev of the simulator
  rdata,             \* what ByteDev drives into the device
  rbuf,              \* buffer of Apb3ByteDev
  meip               \* the external interrupt in mip

hostVars == <<sent, closed>>
simVars == <<fetched, taken, eof, currentStdinByte, rdata>>
devVars == <<rbuf, meip>>
stdinVars == <<hostVars, simVars, devVars>>

NoByte == 0

Byte == 0 .. MaxBytes

hasStdinByte == currentStdinByte # NoByte
rbufFull == rbuf # NoByte

StdinInit ==
  /\ sent = 0 /\ fetched = 0 /\ taken = 0
  /\ closed = FALSE /\ eof = FALSE
  /\ currentStdinByte = NoByte /\ rdata = NoByte
  /\ rbuf = NoByte /\ meip = FALSE
-----------------------------------------------------------------------------
(* The host: writes a byte into the pipe, or closes its end. *)

HostWrites ==
  /\ ~closed
  /\ sent < MaxBytes
  /\ sent' = sent + 1
  /\ UNCHANGED closed

HostCloses ==
  /\ ~closed
  /\ closed' = TRUE
  /\ UNCHANGED sent
-----------------------------------------------------------------------------
(* The device, before the clock edge. *)

\* The device takes the byte it is offered into its empty buffer.
Takes == rdata # NoByte /\ ~rbufFull

\* What a read of the device's register answers.
ReadData == IF rbufFull THEN rbuf ELSE rdata

\* Mutant of NextRbuf: takes a byte into a full buffer.
NextRbufOverwritten(read) ==
  CASE read -> NoByte
    [] ~read /\ rdata # NoByte -> rdata
    [] OTHER -> rbuf

\* The buffer after a cycle in which the core reads the device, or does not: the
\* assignments of onRead come last and win over a byte that comes in.
NextRbuf(read) ==
  CASE read -> NoByte
    [] ~read /\ Takes -> rdata
    [] OTHER -> rbuf

\* Mutant of NextMeip: posting comes after clearing.
NextMeipPosted(read) == Takes \/ (~read /\ meip)

NextMeip(read) == ~read /\ (meip \/ Takes)

DeviceEdge(read) == rbuf' = NextRbuf(read) /\ meip' = NextMeip(read)
-----------------------------------------------------------------------------
(* The simulator, after the clock edge.  select() looks at the pipe only:   *)
(* it does not see what the C library has read ahead into its own buffer.   *)

\* Mutant of StdinAvailable: a pipe at its end is not readable.
StdinAvailableWithData == ~eof /\ fetched < sent

StdinAvailable == ~eof /\ (fetched < sent \/ closed)

\* std::cin.get() is called in this cycle.
Gets == ~hasStdinByte /\ StdinAvailable

\* It finds a byte, in the library's buffer or in the pipe, and not the end.
GetsByte == Gets /\ (taken < fetched \/ fetched < sent)

\* The byte that is offered to the device in the coming cycle.
Offered == IF GetsByte THEN taken + 1 ELSE currentStdinByte

\* The byte is given up when the device can take it: its buffer, a register, is
\* then still empty at the next clock edge.
ByteDevEval(read) ==
  /\ taken' = IF GetsByte THEN taken + 1 ELSE taken
  /\ fetched' = IF GetsByte /\ taken = fetched THEN sent ELSE fetched
  /\ eof' = (eof \/ (Gets /\ ~GetsByte))
  /\ rdata' = Offered
  /\ currentStdinByte' = IF NextRbuf(read) = NoByte THEN NoByte ELSE Offered

\* One clock cycle; read: the core's read of the device is performed in it.
StdinCycle(read) ==
  /\ DeviceEdge(read)
  /\ ByteDevEval(read)
  /\ UNCHANGED hostVars
-----------------------------------------------------------------------------
StdinTypeOK ==
  /\ sent \in Byte /\ fetched \in 0 .. sent /\ taken \in 0 .. fetched
  /\ closed \in BOOLEAN /\ eof \in BOOLEAN
  /\ currentStdinByte \in Byte /\ rdata \in Byte /\ rbuf \in Byte
  /\ meip \in BOOLEAN
=============================================================================
