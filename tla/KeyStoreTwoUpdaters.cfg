CONSTANTS
    kernel = kernel
    logo = logo
    ramdisk = ramdisk
    Updater = {u1, u2}
    Reader = {r1}
    Device = {phone, pad}
    Version = {v1}
    Build = {b1}
    Section <- MCSections
    Oversized <- MCOversized
    NeedsQuotes = {pad}
    Listing <- MCShortListing
    MaxJobs = 2
    MaxFaults = 0
    MaxCrashes = 1
SPECIFICATION FairSpec
INVARIANTS Provenance TableBeforeWrite
PROPERTY EveryRunEnds
