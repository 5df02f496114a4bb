\* Both programs in directories and archives with files of 0 bytes.
SPECIFICATION Spec
CONSTANTS
    Disks <- MCDisks
    Roots <- MCRoots
    Names <- MCNames
    OnLoaded <- GreyIsKept
    FrontEnds = {"linux", "pocket"}
    FileKinds = {"p", "e"}
    MaxFiles = 2
    MaxEntries = 1
INVARIANT StepsOverUnsuitableFiles
