\* Every small shelf and a nested tree, one root per explorer.
SPECIFICATION Spec
CONSTANTS
    Disks <- Libraries
    Roots <- MCRoots
    Names <- MCNames
    MaxFiles = 3
    MaxEntries = 2
INVARIANTS
    TypeOK
    PositionInRange
    OpenArchiveIsCurrentFile
    StepsUndoEachOther
    EnterReturnsToAnyFile
