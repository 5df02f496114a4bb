----------------------------- MODULE BookShelf -----------------------------
(***************************************************************************)
(* How a book comes onto the shelf of the PocketBook program: the list of  *)
(* books (pocket::BookList), the directory selector (pocket::DirSelector)  *)
(* that adds one, and the configuration file that keeps them, while cards  *)
(* are taken out and put back and the device may be switched off between   *)
(* any two steps.                                                          *)
(*                                                                         *)
(* A path is the sequence of its names.  The configuration file belongs to *)
(* the system: when the device is switched off before the file is closed,  *)
(* the last writes may not have been kept.                                 *)
(***************************************************************************)
EXTENDS Integers, Sequences

CONSTANTS RootPaths,    \* the directories that hold cards and the memory
          Directories,  \* all directories below them
          Files,        \* and all files
          HiddenNames,
          MaxCount      \* bound on the number of additions

Parent(path) == SubSeq(path, 1, Len(path) - 1)

IsUnder(path, dir) == Len(path) > Len(dir) /\ SubSeq(path, 1, Len(dir)) = dir

IsUnderRoot(path) == \E r \in RootPaths : IsUnder(path, r)

ASSUME PathsAreNames == RootPaths \union Directories \union Files \subseteq Seq(STRING)
ASSUME RootsApart == \A r, s \in RootPaths : r # <<>> /\ ~IsUnder(r, s)
ASSUME TreesBelowRoots == \A p \in Directories \union Files : IsUnderRoot(p)
ASSUME TreesAreWhole == \A p \in Directories \union Files : Parent(p) \in RootPaths \union Directories
ASSUME MaxCountAssumption == MaxCount \in Nat

NoDirectory == <<>>

VARIABLES config,   \* the settings as the program reads them: a count and the books
          saved,    \* the settings when the file was last closed
          adding,   \* the directory that addBook has still to write
          screen,   \* "off", "list", "selector", "adding" or "view"
          books,    \* BookList: books_
          current,  \* DirSelector: current_dir_
          listed,   \* DirSelector: current_files_, without ".."
          back,     \* ".." is the first of current_files_
          inMark,   \* pointer_pos_ is in the column that marks a directory
          plugged,  \* the roots whose cards are in the device
          added     \* the books added so far, for the properties

selector == <<current, listed, back, inMark>>
vars == <<config, saved, adding, screen, books, selector, plugged, added>>

NoConfig == [count |-> 0, book |-> [i \in 0..(MaxCount - 1) |-> NoDirectory]]

Init == /\ config = NoConfig
        /\ saved = NoConfig
        /\ adding = NoDirectory
        /\ screen = "off"
        /\ books = <<>>
        /\ current = NoDirectory
        /\ listed = {}
        /\ back = FALSE
        /\ inMark = FALSE
        /\ plugged = RootPaths
        /\ added = <<>>

-----------------------------------------------------------------------------
(* The list of books                                                       *)

\* Mutant: the list ends at the first book that is missing.
LoadBooksUpToMissing(cfg) ==
    LET n == CHOOSE k \in 0..cfg.count :
                 /\ \A i \in 1..k : cfg.book[i - 1] # NoDirectory
                 /\ k < cfg.count => cfg.book[k] = NoDirectory
    IN  [i \in 1..n |-> cfg.book[i - 1]]

\* The books under the first n numbers.  A number without one is passed over.
BooksIn(book) ==
    LET first[n \in 0..MaxCount] ==
            IF n = 0 THEN <<>>
            ELSE IF book[n - 1] = NoDirectory THEN first[n - 1]
            ELSE Append(first[n - 1], book[n - 1])
    IN  first

\* loadBooks
LoadBooks(cfg) == BooksIn(cfg.book)[cfg.count]

ShowBooklist == screen' = "list" /\ books' = LoadBooks(config)

\* main: the objects of the program are made anew.
Start == /\ screen = "off"
         /\ ShowBooklist
         /\ current' = NoDirectory
         /\ listed' = {}
         /\ back' = FALSE
         /\ inMark' = FALSE
         /\ UNCHANGED <<config, saved, adding, plugged, added>>

OpenBook == /\ screen = "list"
            /\ books # <<>>
            /\ screen' = "view"
            /\ UNCHANGED <<config, saved, adding, books, selector, plugged, added>>

\* LIST_EXIT of the list, KEY_HOME and KEY_MENU of PictureView.
CloseApp == /\ screen \in {"list", "view"}
            /\ screen' = "off"
            /\ UNCHANGED <<config, saved, adding, books, selector, plugged, added>>

-----------------------------------------------------------------------------
(* The directory selector                                                  *)

IsHidden(path) == path[Len(path)] \in HiddenNames

\* getFileList, not recursive, without what is hidden.
Listing(dir) == {p \in Directories \union Files :
                    /\ Parent(p) = dir
                    /\ ~IsHidden(p)
                    /\ \E r \in plugged : IsUnder(p, r)}

\* Mutant: the first root with anything in it is all that is shown.
OpenFirstRoot ==
    /\ listed' = IF \E r \in RootPaths : Listing(r) # {}
                 THEN Listing(CHOOSE r \in RootPaths : Listing(r) # {}) ELSE {}
    /\ back' = FALSE
    /\ UNCHANGED current

\* openRoot shows what all the roots hold; current_dir_ stays what it was.
OpenRoot == /\ listed' = UNION {Listing(r) : r \in RootPaths}
            /\ back' = FALSE
            /\ UNCHANGED current

IsSomeRoot(path) == path \in RootPaths

\* Mutant: a root is opened like any directory.
OpenListOfAny(path) == /\ current' = path
                       /\ listed' = Listing(path)
                       /\ back' = TRUE

OpenList(path) == IF IsSomeRoot(path) THEN OpenRoot
                  ELSE /\ current' = path
                       /\ listed' = Listing(path)
                       /\ back' = TRUE

AddNewBook == /\ screen = "list"
              /\ screen' = "selector"
              /\ OpenRoot
              /\ UNCHANGED <<config, saved, adding, books, inMark, plugged, added>>

\* LIST_POINTER; a key opens an entry without one.
Pointer == /\ screen = "selector"
           /\ inMark' = ~inMark
           /\ UNCHANGED <<config, saved, adding, screen, books, current, listed, back, plugged, added>>

\* Mutant: files can be chosen too.
ChoicesWithFiles == listed \union (IF back THEN {Parent(current)} ELSE {})

\* The directories onOpen can be called with; ".." is resolved from current_dir_.
Choices == (listed \intersect Directories) \union (IF back THEN {Parent(current)} ELSE {})

\* Outside the mark, the directory is opened.
OpenEntry(path) ==
    /\ screen = "selector"
    /\ path \in Choices
    /\ ~inMark
    /\ OpenList(path)
    /\ UNCHANGED <<config, saved, adding, screen, books, inMark, plugged, added>>

\* In the mark, it is selected: addBook reads the count and writes the next one.
SelectEntry(path) ==
    /\ screen = "selector"
    /\ path \in Choices
    /\ inMark
    /\ config.count < MaxCount
    /\ screen' = "adding"
    /\ config' = [config EXCEPT !.count = @ + 1]
    /\ adding' = path
    /\ UNCHANGED <<saved, books, selector, plugged, added>>

\* Mutant: the book is written under the new count.
WriteBookAfter ==
    /\ screen = "adding"
    /\ adding # NoDirectory
    /\ adding' = NoDirectory
    /\ config' = [config EXCEPT !.book = [i \in DOMAIN @ |-> IF i = config.count
                                                              THEN adding ELSE @[i]]]
    /\ UNCHANGED <<saved, screen, books, selector, plugged, added>>

\* addBook's second write, under the count that it read.
WriteBook ==
    /\ screen = "adding"
    /\ adding # NoDirectory
    /\ adding' = NoDirectory
    /\ config' = [config EXCEPT !.book[config.count - 1] = adding]
    /\ UNCHANGED <<saved, screen, books, selector, plugged, added>>

\* The file is closed and doExit shows the list again.
FinishAdding ==
    /\ screen = "adding"
    /\ adding = NoDirectory
    /\ saved' = config
    /\ added' = Append(added, config.book[config.count - 1])
    /\ ShowBooklist
    /\ UNCHANGED <<config, adding, selector, plugged>>

ExitSelector == /\ screen = "selector"
                /\ ShowBooklist
                /\ UNCHANGED <<config, saved, adding, selector, plugged, added>>

-----------------------------------------------------------------------------
(* The device                                                              *)

\* What the file may hold: the writes since it was last closed, up to some point.
Survivors == {saved, [saved EXCEPT !.count = config.count], config}

PowerOff ==
    /\ screen # "off"
    /\ screen' = "off"
    /\ \E cfg \in Survivors :
          /\ config' = cfg
          /\ saved' = cfg
          /\ added' = IF cfg.book = saved.book THEN added
                      ELSE Append(added, cfg.book[cfg.count - 1])
    /\ adding' = NoDirectory
    /\ UNCHANGED <<books, selector, plugged>>

PlugIn(r) == /\ plugged' = plugged \union {r}
             /\ UNCHANGED <<config, saved, adding, screen, books, selector, added>>

Unplug(r) == /\ plugged' = plugged \ {r}
             /\ UNCHANGED <<config, saved, adding, screen, books, selector, added>>

Next == \/ Start \/ OpenBook \/ CloseApp
        \/ AddNewBook \/ Pointer \/ ExitSelector
        \/ \E path \in Choices : OpenEntry(path) \/ SelectEntry(path)
        \/ WriteBook \/ FinishAdding
        \/ PowerOff
        \/ \E r \in RootPaths : PlugIn(r) \/ Unplug(r)

Spec == Init /\ [][Next]_vars

-----------------------------------------------------------------------------

(***************************************************************************)
(* The list shows the books that were added, in their order, each once,    *)
(* wherever the device was switched off in the middle of addBook and       *)
(* whatever part of its two writes was kept (pocketmanga.cpp:55-77).       *)
(***************************************************************************)
ListShowsAddedBooks == screen = "list" => books = added

(***************************************************************************)
(* ".." never leads out of the roots: the directory it is resolved from is *)
(* always one below a root, though the list of the roots leaves an old one *)
(* in current_dir_, and though cards come and go                           *)
(* (directoryselect.cpp:191-194, 236-274).                                 *)
(***************************************************************************)
StaysBelowRoots ==
    screen = "selector" /\ back => IsUnderRoot(current) /\ \A p \in listed : Parent(p) = current

(***************************************************************************)
(* What is added is a directory of the device: a root, through the ".." of *)
(* a directory in it, or one below a root (directoryselect.cpp:184-206).   *)
(***************************************************************************)
BooksAreDirectories ==
    \A i \in DOMAIN books : books[i] \in RootPaths \union Directories

(***************************************************************************)
(* ".." goes back to a list that has the directory that was left, if its   *)
(* card is still there: also from a directory of a root, of which there    *)
(* are several behind one list (directoryselect.cpp:236-257).              *)
(***************************************************************************)
BackShowsWhereOneWas ==
    [][OpenEntry(Parent(current)) /\ back /\ (\E r \in plugged : IsUnder(current, r))
          => current \in listed']_vars
=============================================================================
