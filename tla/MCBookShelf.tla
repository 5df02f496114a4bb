---------------------------- MODULE MCBookShelf ----------------------------
\* Two roots, one with a directory inside a directory, a file and a hidden directory.
EXTENDS BookShelf

MCRootPaths == {<<"sd">>, <<"flash">>}

MCDirectories == {<<"sd", "a">>, <<"sd", "a", "b">>, <<"sd", ".h">>, <<"flash", "c">>}

MCFiles == {<<"sd", "f">>, <<"sd", "a", "f">>}
=============================================================================
