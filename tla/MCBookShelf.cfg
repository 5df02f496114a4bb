\* Three additions, switching off and pulling cards at any moment.
SPECIFICATION Spec
CONSTANTS
    RootPaths <- MCRootPaths
    Directories <- MCDirectories
    Files <- MCFiles
    HiddenNames = {".h"}
    MaxCount = 3
INVARIANTS
    ListShowsAddedBooks
    StaysBelowRoots
    BooksAreDirectories
PROPERTY BackShowsWhereOneWas
