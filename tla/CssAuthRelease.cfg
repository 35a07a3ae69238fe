\* One host, AGIDs hung at the start, and the failures that css.c cleans up
\* after, as often as they like.
CONSTANTS
    Hosts = {h1}
    NAgids = 4
    Nonces = {n1, n2, n3}
    NoNonce = NoNonce
    Nobody = Nobody
    NoTitle = NoTitle
    Faults <- CleanedUpFaults
    Titles = {t1, t2}
    Encrypted = {t1}
    Methods <- AllMethods
    HungSets <- AnyHung
    Crashes = FALSE
SPECIFICATION Spec
INVARIANTS AgidReleased HungAgidsRecovered
PROPERTY CallReturns
