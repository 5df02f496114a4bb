\* The loops, iteration by iteration, on every small shelf and a nested tree.
SPECIFICATION WalkSpec
CONSTANTS
    Disks <- Libraries
    Roots <- MCRoots
    Names <- MCNames
    MaxFiles = 3
    MaxEntries = 2
INVARIANT WalkTypeOK
PROPERTIES
    ImplementsExplorer
    EveryCallAnswers
