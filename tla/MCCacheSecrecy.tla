--------------------------- MODULE MCCacheSecrecy ---------------------------
(* Instances of CacheSecrecy small enough for TLC. *)
EXTENDS CacheSecrecy
----------------------------------------------------------------------------
OneSet == {0}
TwoTags == 0 .. 1
OneSecretLine == {{}, {[tag |-> 1, set |-> 0]}}
ReadOnly == {None}
=============================================================================
