CONSTANTS
    N = 8
    F = 3
    Byte <- MCByte
    Space = 1
    Threshold = 1
    Group = 3
    Input <- MCInput
    HeaderSize = 2
    MaxShort = 6
    MaxLong = 11
SPECIFICATION Spec
INVARIANTS TypeOK TreesOrdered LongestMatch Lossless FitsBuffer
