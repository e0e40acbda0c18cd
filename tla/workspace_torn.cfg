SPECIFICATION Spec
CONSTANTS
    n1 = n1
    n2 = n2
    NoTree = NoTree
    Stub = Stub
    Torn = Torn
    Part = Part
    Corrupt = Corrupt
    Roots <- TwoRoots
    Versions = {1, 2}
    Files <- TwoFilesOf
    Names = {n1}
    Keys = {1}
    MaxFaults = 3
    MaxEdits = 0
INVARIANT NeverHalfWritten
