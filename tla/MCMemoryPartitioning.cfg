\* Two regions in a memory of eight bytes, blocks of four.
CONSTANTS
    AddressSpace = 8
    BlockSize = 4
    Regions = {r1, r2}
SPECIFICATION Spec
INVARIANTS
    SecretBlocksAreCovered
    OnlySecretBlocksAreCovered
