\* Two handles on discs with the same title and date that share a cache; the drive,
\* the disc and the file system fail.
CONSTANTS
    h1 = h1
    h2 = h2
    dA = dA
    dB = dB
    KA = KA
    KB = KB
    kA1 = kA1
    kA2 = kA2
    kB1 = kB1
    title1 = title1
    title2 = title2
    volume = volume
    Handles = {h1, h2}
    PathMax = 100
    Names <- TheNames
    Off = Off
    Subdirs <- TheSubdirs
    TextLength <- TheTextLength
    FileFaults <- TheFileFaults
    Unset = Unset
    Discs = {dA, dB}
    Blocks = {0, 1, 2}
    TitleOf <- TheTitleOf
    Secret <- TheSecret
    Scrambled <- TheScrambled
    DiscKey <- TheDiscKey
    Volume <- TheVolume
    Environments <- TheEnvironments
    KeyFaults <- TheKeyFaults
    Players = {h1}
    Places <- ThePlaces
    ReadSizes = {2}
    Iovecs <- TheIovecs
    ZeroKey = ZeroKey
    WrongKey = WrongKey
    NoKey = NoKey
    NoTitle = NoTitle
SPECIFICATION Spec
INVARIANTS TypeOK FitsBuffer CacheUsable CacheKept   KeyInPlace ReadvInPlace
