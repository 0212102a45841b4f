------------------------------ MODULE MCCache ------------------------------
(* Instances of CacheSystem small enough for TLC. *)
EXTENDS CacheSystem, TLC
----------------------------------------------------------------------------
OneSet == {0}
TwoTags == 0 .. 1
ThreeTags == 0 .. 2
NoSecrets == {{}}
DataSymmetry == Permutations(Data)
ReadOnly == {None}
ReadOrWrite == Data \cup {None}
=============================================================================
