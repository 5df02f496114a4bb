-------------------------- MODULE MCBookExplorer --------------------------
\* BookExplorer on the disks of SmallShelves.
EXTENDS BookExplorer, SmallShelves
=============================================================================
