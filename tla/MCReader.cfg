\* Both programs, every small library, any page turns and deletions.
SPECIFICATION Spec
CONSTANTS
    Disks <- MCDisks
    Roots <- MCRoots
    Names <- MCNames
    OnLoaded <- GreyIsKept
    FrontEnds = {"linux", "pocket"}
    FileKinds = {"p", "t"}
    MaxFiles = 3
    MaxEntries = 2
\* An exception may have ended the program when the last file is deleted.
CHECK_DEADLOCK FALSE
INVARIANTS
    SlotsInOrder
    CachesFollowImages
    ScreenShowsCurrent
PROPERTIES
    ImplementsPageReader
    RefusesOnlyAtTheEnds
