\* Two keys and five blocks that they share: data of one key is left in the
\* block that the other gets.
CONSTANTS
    NKeys = 2
    LargeKeys = {}
    Lengths = {0, 3}
    BlockSize = 2
    ALLOCATE_PORTION = 1
    MaxBlocks = 8
    MaxCrashes = 1
SPECIFICATION StorageSpec
INVARIANT NewValueEmpty
CHECK_DEADLOCK FALSE
