-------------------------- MODULE MCBook --------------------------
\* Book on the directories and archives of SmallLibraries.
EXTENDS Book, SmallLibraries
=============================================================================
