CONSTANTS
    File <- MCFile
    Known <- MCKnown
    Other <- MCOther
    Base = "Img3"
    Data = "DATA"
    HeaderSize = 3
    Wrap = 64
    MaxFiles = 2
    MaxSections = 10
SPECIFICATION FairSpec
INVARIANTS TypeOK OnlyThisFile MainSectionsOnly NoTagMissed DataIsPayload
PROPERTY ParseEnds
CHECK_DEADLOCK FALSE
