CONSTANTS
    Page <- MCPages
    Name <- MCNames
    Filter <- MCFilters
    MaxUnterminated = 1
SPECIFICATION FairSpec
INVARIANTS TypeOK TagsConserved GenuinePairs EntriesOfPage
PROPERTY PageIsParsed
CHECK_DEADLOCK FALSE
