\* Two handles that may get different keys for a block; writes are complete.
CONSTANTS
    Handles = {p1, p2}
    Blocks <- TwoBlocks
    KeyLen = 2
    Learnable <- TwoKeys
    Failures <- CleanFailures
    NoFile = NoFile
    NoBlock = NoBlock
    NoKey = NoKey
SYMMETRY Symmetry
SPECIFICATION Spec
INVARIANTS TypeOK ListedKeysGenuine KeyInForce
PROPERTY TableSpec
