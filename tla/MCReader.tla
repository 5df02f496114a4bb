-------------------------- MODULE MCReader --------------------------
\* Reader on the directories and archives of SmallLibraries.
EXTENDS Reader, SmallLibraries

\* The pages of the third file are grey: a CacheScaler keeps the page it had.
GreyIsKept(d, cache, page) == IF page.filePath = FileNamed(3) THEN cache ELSE page
=============================================================================
