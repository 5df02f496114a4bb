---------------------------- MODULE MCFileWalk ----------------------------
\* FileWalk on the disks of SmallShelves.
EXTENDS FileWalk, SmallShelves
=============================================================================
