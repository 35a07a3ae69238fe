\* Files and streams, whole and ending inside a block; whatever fails.
CONSTANTS
    BlockSize = 3
    Sizes = {11, 12}
    Blocks = {0, 1, 2, 3, 5}
    MaxRead = 3
    Backends = {"file", "stream", "slow"}
    Callbacks = {"seek", "read", "readv"}
    Faults = {"seek", "read", "open"}
    Torn = FALSE
    Careless = FALSE
SPECIFICATION Spec
INVARIANT PosAgrees
PROPERTY FileCursor
