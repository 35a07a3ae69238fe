\* Two threads that crack two titles at any time; seeks, reads and the reset of the
\* drive may fail for one of them.
CONSTANTS
    Threads = {t1, t2}
    t1 = t1
    t2 = t2
    k1 = k1
    DiscSize = 6
    Disc <- TheDisc
    Keys = {k1}
    Starts = {0, 2, 3}
    MaxLen = 4
    MaxClean = 2
    MaxSuccess = 1
    Faults <- OneBadDrive
    ZeroKey = ZeroKey
    Garbage = Garbage
SPECIFICATION FairSpec
INVARIANTS TypeOK SuccessIsOwn KeyOfTitle UnencryptedSeen NothingMissed
PROPERTIES CrackReturns CrackDescends
