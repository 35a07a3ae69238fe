\* One host, a drive whose AGIDs may be hung, every fault, kills at any
\* command.
CONSTANTS
    Hosts = {h1}
    NAgids = 2
    Nonces = {n1, n2, n3}
    NoNonce = NoNonce
    Nobody = Nobody
    NoTitle = NoTitle
    Faults <- AllFaults
    Titles = {t1, t2}
    Encrypted = {t1}
    Methods <- AllMethods
    HungSets <- AnyHung
    Crashes = TRUE
SYMMETRY Symmetry
SPECIFICATION Spec
INVARIANTS TypeOK OwnSession KeysUnhidden
PROPERTY WrongKeyOnlyWithoutDiscKey
