------------------------- MODULE MemoryPartitioning -------------------------
(***************************************************************************)
(* The secret partition of plugins/MemoryPartitioning.scala: regions given *)
(* by pairs of boundary CSRs, and the predicate isInPartition, which       *)
(* rounds to blocks when it is asked about a whole cache line.             *)
(***************************************************************************)
EXTENDS Integers

CONSTANTS
    AddressSpace, \* number of addresses
    BlockSize,    \* 2^insignificantBits: bytes of a cache line, or 1
    Regions       \* the pairs of boundary CSRs

ASSUME PartitioningAssumption ==
    /\ AddressSpace \in Nat \ {0}
    /\ BlockSize \in Nat \ {0}

Address == 0 .. AddressSpace - 1

VARIABLES
    low, \* low[region]: the first address of the region
    high \* high[region]: the first address after it

boundaryCsrs == <<low, high>>

PartitioningTypeOK == low \in [Regions -> Address] /\ high \in [Regions -> Address]

Init == low = [r \in Regions |-> 0] /\ high = [r \in Regions |-> 0]

\* boundaryCsr.write
WriteLow(r, address) == low' = [low EXCEPT ![r] = address] /\ UNCHANGED high
WriteHigh(r, address) == high' = [high EXCEPT ![r] = address] /\ UNCHANGED low

Next == \E r \in Regions, address \in Address : WriteLow(r, address) \/ WriteHigh(r, address)

Spec == Init /\ [][Next]_boundaryCsrs

\* x >> insignificantBits << insignificantBits
Rounded(x) == BlockSize * (x \div BlockSize)

\* Mutants of IsInRegion: the lower boundary is not rounded; the upper is included.
IsInRegionUnrounded(address, r) == address >= low[r] /\ Rounded(address) < high[r]
IsInRegionInclusive(address, r) == address >= Rounded(low[r]) /\ Rounded(address) <= high[r]

IsInRegion(address, r) == address >= Rounded(low[r]) /\ Rounded(address) < high[r]

\* isInPartition
IsInPartition(address) == \E r \in Regions : IsInRegion(address, r)

----------------------------------------------------------------------------
\* The bytes that software has declared secret.
Secret(byte) == \E r \in Regions : low[r] <= byte /\ byte < high[r]

SameBlock(a, b) == Rounded(a) = Rounded(b)

\* A block that holds a secret byte counts as secret, at whichever of its
\* addresses it is asked about (MemoryPartitioning.scala 24-31).
SecretBlocksAreCovered ==
    \A address, byte \in Address :
        Secret(byte) /\ SameBlock(address, byte) => IsInPartition(address)

\* No other block does, unless the boundaries of an empty region (low >= high) lie
\* inside it: those of a region never set up, 0 and 0, do not count.
OnlySecretBlocksAreCovered ==
    (\A r \in Regions : low[r] < high[r] \/ high[r] = 0) =>
        \A address \in Address :
            IsInPartition(address) =>
                \E offset \in 0 .. BlockSize - 1 : Secret(Rounded(address) + offset)
=============================================================================
