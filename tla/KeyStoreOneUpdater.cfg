CONSTANTS
    kernel = kernel
    logo = logo
    ramdisk = ramdisk
    Updater = {u1}
    Reader = {r1}
    Device = {phone}
    Version = {v1}
    Build = {b1}
    Section <- MCSections
    Oversized <- MCOversized
    NeedsQuotes = {}
    Listing <- MCListing
    MaxJobs = 3
    MaxFaults = 1
    MaxCrashes = 1
SPECIFICATION Spec
INVARIANTS TypeOK Provenance KeyNotOlderThanIV SuccessIsWhole
PROPERTY NothingLost
