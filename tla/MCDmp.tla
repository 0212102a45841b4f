-------------------------------- MODULE MCDmp --------------------------------
(* Instances of DmpSystem small enough for TLC. *)
EXTENDS DmpSystem
----------------------------------------------------------------------------
OneSet == {0}
FourTags == 0 .. 3
LineOf(tag) == [tag |-> tag, set |-> 0]
NoSecrets == {{}}
ReadOnly == {None}

\* A line points into itself, so that only the next lines lead further; line 0 also
\* points to line 1.  Two hops reach three lines of four.
Pointing ==
    [x \in Line \X Data |->
        IF x[1].tag = 0 THEN <<x[1], LineOf(1)>> ELSE <<x[1]>>]
Following == [l \in Line |-> LineOf((l.tag + 1) % 4)]
=============================================================================
