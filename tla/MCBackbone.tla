----------------------------- MODULE MCBackbone -----------------------------
(***************************************************************************)
(* The data bus with two load stages, for TLC.                             *)
(***************************************************************************)
EXTENDS DynamicMemoryBackbone

CONSTANT a1

OneLine == {a1}
=============================================================================
