\* Two hosts, an AGID for each of them, a drive and a disc without faults.
CONSTANTS
    Hosts = {h1, h2}
    NAgids = 2
    Nonces = {n1, n2, n3, n4, n5}
    NoNonce = NoNonce
    Nobody = Nobody
    NoTitle = NoTitle
    Faults = {}
    Titles = {t1, t2}
    Encrypted = {t1}
    Methods <- AllMethods
    HungSets <- NoneHung
    Crashes = FALSE
SYMMETRY Symmetry
SPECIFICATION Spec
INVARIANTS OwnSession AgidReleased ClassicWaySuffices StoredKeyValid
PROPERTY OnlyHolderEndsSession
