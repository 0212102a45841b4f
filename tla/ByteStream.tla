----------------------------- MODULE ByteStream -----------------------------
(***************************************************************************)
(* What standard input promises a program that reads it with read(2): the  *)
(* bytes 1, 2, ... that were sent, in order, each once; none is missing    *)
(* unless the core has thrown it away, before the program got it or a      *)
(* later one.  In the place of a byte that was thrown away the program may *)
(* get a blank; origin[i] is the byte that received[i] is or stands for.   *)
(***************************************************************************)
EXTENDS Integers, Sequences

VARIABLES sent, lost, origin, received

vars == <<sent, lost, origin, received>>

Blank == 0

\* How far the program has come.
LastReceived == IF origin = <<>> THEN 0 ELSE origin[Len(origin)]

Init == sent = 0 /\ lost = {} /\ origin = <<>> /\ received = <<>>

Send ==
  /\ sent' = sent + 1
  /\ UNCHANGED <<lost, origin, received>>

Lose ==
  /\ \E b \in (LastReceived + 1 .. sent) \ lost : lost' = lost \cup {b}
  /\ UNCHANGED <<sent, origin, received>>

\* The next byte that is not lost, or a blank for a lost one before it.
Receive ==
  /\ \E b \in LastReceived + 1 .. sent :
       /\ (LastReceived + 1 .. b - 1) \subseteq lost
       /\ origin' = Append(origin, b)
       /\ received' = Append(received, IF b \in lost THEN Blank ELSE b)
  /\ UNCHANGED <<sent, lost>>

Spec == Init /\ [][Send \/ Lose \/ Receive]_vars
=============================================================================
