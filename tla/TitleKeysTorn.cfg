\* Two handles that get the same keys for three blocks; writes may be short and
\* handles killed.
CONSTANTS
    Handles = {p1, p2}
    Blocks <- ThreeBlocks
    KeyLen = 2
    Learnable <- OneKey
    Failures = {"write", "kill"}
    NoFile = NoFile
    NoBlock = NoBlock
    NoKey = NoKey
SYMMETRY Symmetry
SPECIFICATION Spec
INVARIANTS ListedKeysGenuine ListSorted
PROPERTY FilesKept
