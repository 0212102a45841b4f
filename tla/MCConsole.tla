------------------------------ MODULE MCConsole ------------------------------
(* Standard input for a program that reads up to two bytes at a time, and makes *)
(* each other kind of system call.                                              *)
EXTENDS Console

MCCalls ==
  {Call("read", STDIN, 2), Call("write", STDOUT, 1), Call("other", 0, 0),
   Call("exit", 0, 0)}
=============================================================================
