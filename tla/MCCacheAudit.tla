---------------------------- MODULE MCCacheAudit ----------------------------
(* Instances of CacheAudit small enough for TLC. *)
EXTENDS CacheAudit
----------------------------------------------------------------------------
OneSet == {0}
TwoTags == 0 .. 1
NoSecrets == {{}}
OneSecretLine == {{}, {[tag |-> 1, set |-> 0]}}
ReadOnly == {None}
=============================================================================
