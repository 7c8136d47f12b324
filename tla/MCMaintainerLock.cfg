SPECIFICATION FairSpec
CONSTANTS
    Acquirers = {p1, p2}
    Inodes = {i1, i2, i3, i4}
    NoInode = none
    LockAttempts = 2
    MaxEras = 3
INVARIANTS OneMaintainerPerEra
PROPERTIES RefusalMeansReplaced ImplementsMaintainership AcquisitionAnswers OverlapEnds
