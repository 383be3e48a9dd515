CONSTANTS
    a = a
    b = b
    broken = broken
    packed = packed
    kernel = kernel
    kernel2 = kernel2
    K = K
    R = R
    Process = {p1}
    Base = {a, b, broken, packed, kernel, kernel2}
    Area = {K, R}
    Kernel = K
    Member <- MCMember
    Broken = {broken}
    Packed = {packed}
    NoKey <- MCNoKey
    MaxRuns = 1
    MaxFaults = 1
    MaxCrashes = 0
SPECIFICATION Spec
PROPERTY SaidExtracted
CHECK_DEADLOCK FALSE
