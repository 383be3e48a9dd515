CONSTANTS
    kernel = kernel
    logo = logo
    ramdisk = ramdisk
    Updater = {u1, u2}
    Reader = {r1}
    Device = {phone}
    Version = {v1}
    Build = {b1}
    Section <- MCSections
    Oversized <- MCOversized
    NeedsQuotes = {}
    Listing <- MCShortListing
    MaxJobs = 3
    MaxFaults = 0
    MaxCrashes = 0
SPECIFICATION Spec
INVARIANT SuccessIsWhole
