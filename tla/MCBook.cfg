\* Any calls on one root, on every small library.
SPECIFICATION Spec
CONSTANTS
    Disks <- MCDisks
    Roots <- MCRoots
    Names <- MCNames
    OnLoaded <- Told
    FileKinds = {"p", "t", "x", "e"}
    MaxFiles = 3
    MaxEntries = 1
INVARIANTS
    NeverAborts
    CachesFollowImages
    BookmarksNameImages
\* A file of 0 bytes ends the program.
CHECK_DEADLOCK FALSE
