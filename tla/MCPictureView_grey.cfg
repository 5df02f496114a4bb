\* The keys of the PocketBook program on books of colour and grey pages.
SPECIFICATION Spec
CONSTANTS
    Disks <- Albums
    Roots <- MCRoots
    Names <- MCNames
    Screens <- MCScreens
    OnLoaded <- ScalerOnLoaded
    UIntRange = 256
    Shapes = {"p", "g"}
    FileKinds = {"p", "g"}
    MaxFiles = 4
    MaxEntries = 0
INVARIANT CacheShowsCurrentImage
\* A grey page ends the program.
CHECK_DEADLOCK FALSE
