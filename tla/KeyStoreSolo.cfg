CONSTANTS
    kernel = kernel
    logo = logo
    ramdisk = ramdisk
    Updater = {p1}
    Reader = {p1}
    Device = {phone}
    Version = {v1, v2}
    Build = {b1}
    Section <- MCSections
    Oversized <- MCOversized
    NeedsQuotes = {}
    Listing <- MCListing
    MaxJobs = 3
    MaxFaults = 0
    MaxCrashes = 0
SPECIFICATION Spec
INVARIANT UniqueRows
PROPERTIES SuccessMeansStored BookSpec
