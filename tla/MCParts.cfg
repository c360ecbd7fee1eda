SPECIFICATION Spec
CONSTANTS
    HeapBytes = 8
    Threshold = 1
    SmallBlock = 2
    SmallRatio = 2
    Sizes = {1, 2, 3}
    Alignments = {1, 4}
    NoNode = NoNode
    Pages = 8
    PageCounts = {1, 2, 3}
    NumEvents = 2
    MaxCommits = 4
    MaxHangs = 2
INVARIANTS
    HeapRings
    HeapFindsSpace
    AreaList
    AreaFindsPages
    NeverTwice
    NoneEarly
    NoFalseAlarm
    CountExact
    SkippedHandled
PROPERTIES
    HeapImplements
    AreaImplements
    AllDone
