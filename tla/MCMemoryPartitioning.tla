------------------------ MODULE MCMemoryPartitioning ------------------------
(* A small instance of MemoryPartitioning for TLC. *)
EXTENDS MemoryPartitioning
=============================================================================
