CONSTANTS
    Unsaid = Unsaid
    Word <- MCWord
    Says <- MCSays
    Length <- MCLength
    Cut <- MCCut
    Lower <- MCLower
    Kernel = "kernelcache"
    Typed = {"8E200"}
    Layout <- MCLayout
    Window = 1024
    EndSize = 22
    RecordSize = 46
    Behind <- MCBehind
    MaxZipFaults = 1
    Secret = {"k1", "k2"}
    Block = 2
    HeaderSize = 4
    Page <- MCPage
    NeedsQuotes = {"iPhone2,1"}
    Section <- MCSection
    Shows <- MCShows
    Line <- MCLine
    MaxRuns = 3
SPECIFICATION FairSpec
INVARIANTS TypeOK SettingsAsGiven NothingMissing ListIsDirectory KeyAsAsked StoredAsFar OutputIsContents
PROPERTY EveryRunEnds
CHECK_DEADLOCK FALSE
