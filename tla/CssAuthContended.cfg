\* Two hosts that have to take the only AGID from each other, with faults
\* and kills.
CONSTANTS
    Hosts = {h1, h2}
    NAgids = 1
    Nonces = {n1, n2, n3, n4}
    NoNonce = NoNonce
    Nobody = Nobody
    NoTitle = NoTitle
    Faults = {"LostAgid", "SendKey2", "ReadDiscKey", "ReportASF"}
    Titles = {t1}
    Encrypted = {t1}
    Methods <- KeyMethod
    HungSets <- NoneHung
    Crashes = TRUE
SYMMETRY Symmetry
SPECIFICATION Spec
INVARIANT DiscKeyVerified
PROPERTY CallDescends
