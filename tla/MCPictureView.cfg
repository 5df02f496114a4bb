\* The keys of the PocketBook program on small libraries.
SPECIFICATION Spec
CONSTANTS
    Disks <- Albums
    Roots <- MCRoots
    Names <- MCNames
    Screens <- MCScreens
    OnLoaded <- ScalerOnLoaded
    UIntRange = 256
    Shapes = {"p", "w", "s", "g"}
    FileKinds = {"p", "w", "s", "g", "e"}
    MaxFiles = 5
    MaxEntries = 0
INVARIANTS
    FramesInsidePages
    ColourPagesAreShown
PROPERTIES
    NextSkipsNothing
    PreviousUndoesNext
    ImplementsReader
\* Files of 0 bytes and grey pages end the program.
CHECK_DEADLOCK FALSE
