\* Two discs with the same title and date, two handles with DVDCSS_METHOD=title, and
\* no fault at all.
CONSTANTS
    h1 = h1
    h2 = h2
    dA = dA
    dB = dB
    KA = KA
    KB = KB
    kA1 = kA1
    kA2 = kA2
    kB1 = kB1
    title1 = title1
    title2 = title2
    volume = volume
    Handles = {h1, h2}
    PathMax = 100
    Names <- TheNames
    Off = Off
    Subdirs <- TheSubdirs
    TextLength <- TheTextLength
    FileFaults <- NoFaults
    Unset = Unset
    Discs = {dA, dB}
    Blocks = {0, 1, 2}
    TitleOf <- TheTitleOf
    Secret <- TheSecret
    Scrambled <- TheScrambled
    DiscKey <- TheDiscKey
    Volume <- TheVolume
    Environments <- CrackEnvironments
    KeyFaults <- NoFaults
    Players = {h1, h2}
    Places <- ThePlaces
    ReadSizes = {2}
    Iovecs <- TheIovecs
    ZeroKey = ZeroKey
    WrongKey = WrongKey
    NoKey = NoKey
    NoTitle = NoTitle
SPECIFICATION Spec
INVARIANT NothingGarbled
