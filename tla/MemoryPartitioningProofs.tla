---------------------- MODULE MemoryPartitioningProofs ----------------------
(* isInPartition misses no secret byte, whatever the boundaries and the block size. *)
EXTENDS MemoryPartitioning, TLAPS

\* Rounding down is monotonic.
LEMMA RoundedMonotonic ==
    ASSUME NEW a \in Nat, NEW b \in Nat, a <= b
    PROVE  Rounded(a) \in Nat /\ Rounded(a) <= a /\ Rounded(a) <= Rounded(b)
<1>1. BlockSize \in Nat /\ BlockSize > 0
  BY PartitioningAssumption
<1>2. a \div BlockSize \in Nat /\ a = BlockSize * (a \div BlockSize) + (a % BlockSize)
  BY <1>1
<1>3. a \div BlockSize <= b \div BlockSize
  BY <1>1
<1>4. Rounded(a) <= Rounded(b)
  <2> DEFINE qa == a \div BlockSize
             qb == b \div BlockSize
  <2>1. qa \in Nat /\ qb \in Nat
    BY <1>1
  <2> HIDE DEF qa, qb
  <2>2. qa <= qb
    BY <1>3 DEF qa, qb
  <2>3. BlockSize * qa <= BlockSize * qb
    BY <1>1, <2>1, <2>2
  <2>4. QED BY <2>3 DEF Rounded, qa, qb
<1>5. Rounded(a) \in Nat /\ Rounded(a) <= a
  BY <1>1, <1>2 DEF Rounded
<1>6. QED BY <1>4, <1>5

\* A block that holds a secret byte counts as secret at all its addresses.
THEOREM SecretsAreCovered == Spec => []SecretBlocksAreCovered
<1> USE DEF PartitioningTypeOK
<1>1. Init => PartitioningTypeOK
  BY PartitioningAssumption DEF Init, Address
<1>2. PartitioningTypeOK /\ [Next]_boundaryCsrs => PartitioningTypeOK'
  BY DEF Next, WriteLow, WriteHigh, boundaryCsrs
<1>3. PartitioningTypeOK => SecretBlocksAreCovered
  <2> SUFFICES ASSUME PartitioningTypeOK, NEW address \in Address, NEW byte \in Address,
                      NEW r \in Regions, low[r] <= byte, byte < high[r],
                      SameBlock(address, byte)
               PROVE  IsInRegion(address, r)
    BY DEF SecretBlocksAreCovered, Secret, IsInPartition
  <2>1. low[r] \in Nat /\ high[r] \in Nat /\ address \in Nat /\ byte \in Nat
    BY PartitioningAssumption DEF Address
  <2>2. Rounded(low[r]) \in Nat /\ Rounded(low[r]) <= Rounded(byte)
    BY <2>1, RoundedMonotonic
  <2>3. /\ Rounded(byte) \in Nat /\ Rounded(byte) <= byte
        /\ Rounded(address) <= address
    BY <2>1, RoundedMonotonic
  <2>4. Rounded(address) = Rounded(byte)
    BY DEF SameBlock
  <2>5. QED BY <2>1, <2>2, <2>3, <2>4 DEF IsInRegion
<1>4. QED BY <1>1, <1>2, <1>3, PTL DEF Spec

\* An address at or above the start of another's block is in that block or a later one.
LEMMA RoundedFromStart ==
    ASSUME NEW a \in Nat, NEW b \in Nat, Rounded(a) <= b
    PROVE  /\ Rounded(a) <= Rounded(b)
           /\ Rounded(b) \in Nat /\ a - Rounded(a) < BlockSize
<1> DEFINE qa == a \div BlockSize
           qb == b \div BlockSize
<1>1. BlockSize \in Nat /\ BlockSize > 0
  BY PartitioningAssumption
<1>2. /\ qa \in Nat /\ a = BlockSize * qa + (a % BlockSize)
      /\ a % BlockSize \in Nat /\ a % BlockSize < BlockSize
      /\ qb \in Nat /\ b = BlockSize * qb + (b % BlockSize)
      /\ b % BlockSize \in Nat /\ b % BlockSize < BlockSize
  BY <1>1
<1>3. Rounded(a) = BlockSize * qa /\ Rounded(b) = BlockSize * qb
  BY DEF Rounded
<1> HIDE DEF qa, qb
<1>4. BlockSize * qa \in Nat /\ BlockSize * qb \in Nat
  BY <1>1, <1>2
<1>5. qa <= qb
  <2>1. SUFFICES ASSUME qa >= qb + 1 PROVE FALSE
    BY <1>2
  <2>2. BlockSize * qa >= BlockSize * (qb + 1)
    BY <1>1, <1>2, <2>1
  <2>3. BlockSize * (qb + 1) = BlockSize * qb + BlockSize
    BY <1>1, <1>2
  <2>4. QED BY <1>1, <1>2, <1>3, <1>4, <2>2, <2>3
<1>6. BlockSize * qa <= BlockSize * qb
  BY <1>1, <1>2, <1>5
<1>7. QED BY <1>1, <1>2, <1>3, <1>4, <1>6

\* No block without a secret byte counts as secret, but for the boundaries of an
\* empty region.
THEOREM OnlySecretsAreCovered == Spec => []OnlySecretBlocksAreCovered
<1> USE DEF PartitioningTypeOK
<1>1. Init => PartitioningTypeOK
  BY PartitioningAssumption DEF Init, Address
<1>2. PartitioningTypeOK /\ [Next]_boundaryCsrs => PartitioningTypeOK'
  BY DEF Next, WriteLow, WriteHigh, boundaryCsrs
<1>3. PartitioningTypeOK => OnlySecretBlocksAreCovered
  <2> SUFFICES ASSUME PartitioningTypeOK, NEW address \in Address, NEW r \in Regions,
                      low[r] < high[r] \/ high[r] = 0, IsInRegion(address, r)
               PROVE  \E offset \in 0 .. BlockSize - 1 : Secret(Rounded(address) + offset)
    BY DEF OnlySecretBlocksAreCovered, IsInPartition
  <2>1. /\ low[r] \in Nat /\ high[r] \in Nat /\ address \in Nat
        /\ BlockSize \in Nat /\ BlockSize > 0
    BY PartitioningAssumption DEF Address
  <2>2. /\ Rounded(low[r]) <= Rounded(address) /\ Rounded(address) < high[r]
        /\ Rounded(address) \in Nat /\ low[r] - Rounded(low[r]) < BlockSize
        /\ Rounded(low[r]) \in Nat
    BY <2>1, RoundedFromStart, RoundedMonotonic DEF IsInRegion
  <2>3. CASE low[r] <= Rounded(address)
    <3>1. Secret(Rounded(address) + 0)
      BY <2>1, <2>2, <2>3 DEF Secret
    <3>2. 0 \in 0 .. BlockSize - 1
      BY <2>1
    <3>3. QED BY <3>1, <3>2
  <2>4. CASE low[r] > Rounded(address)
    <3> DEFINE offset == low[r] - Rounded(address)
    <3>1. offset \in 0 .. BlockSize - 1
      BY <2>1, <2>2, <2>4
    <3>2. Rounded(address) + offset = low[r]
      BY <2>1, <2>2
    <3>3. Secret(Rounded(address) + offset)
      BY <2>1, <2>2, <3>2 DEF Secret
    <3> HIDE DEF offset
    <3>4. QED BY <3>1, <3>3
  <2>5. QED BY <2>1, <2>2, <2>3, <2>4
<1>4. QED BY <1>1, <1>2, <1>3, PTL DEF Spec
=============================================================================
