\* A stream that delivers less than it holds.
CONSTANTS
    BlockSize = 3
    Sizes = {12}
    Blocks = {0, 1, 2, 3, 5}
    MaxRead = 3
    Backends = {"slow"}
    Callbacks = {"seek", "read"}
    Faults = {}
    Torn = FALSE
    Careless = FALSE
SPECIFICATION Spec
PROPERTY CursorSpec
