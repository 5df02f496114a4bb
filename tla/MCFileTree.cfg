SPECIFICATION ListSpec
CONSTANTS
    EntryNames <- MCNames
    Rank <- MCRank
    Listings <- MCListings
    MaxPaths = 3
\* A tree that has been fixed up is not touched again.
CHECK_DEADLOCK FALSE
INVARIANTS
    ListTypeOK
    ListIsTheSortedTree
    FileListIsTheDirectory
    SearchFindsEveryPath
