------------------------------ MODULE FileWalk ------------------------------
(***************************************************************************)
(* The loops of BookExplorer's toNextFile and toPreviousFile, one          *)
(* iteration at a time, with the operations that enter them.  pc names the *)
(* loop the caller waits in, "called" the operation it called.             *)
(*                                                                         *)
(* The variables of BookExplorer are what the caller sees between its      *)
(* calls; "walker" is the explorer itself, also while a loop moves it.     *)
(* BookExplorer gives these operations in one step and in closed form; the *)
(* refinement below is what justifies that form.                           *)
(***************************************************************************)
EXTENDS BookExplorer

VARIABLES walker, pc, called

walkVars == <<vars, walker, pc, called>>

WalkInit == /\ Init
            /\ walker = explorer
            /\ pc = "idle"
            /\ called = "none"

-----------------------------------------------------------------------------

\* The operation answers and leaves the explorer as ex.
Answer(op, ok, ex) ==
    /\ Returns(op, [ok |-> ok, ex |-> ex])
    /\ walker' = ex
    /\ pc' = "idle"
    /\ called' = "none"

\* The operation goes on in a loop.
Loop(loop, op, ex) ==
    /\ walker' = ex
    /\ pc' = loop
    /\ called' = op
    /\ UNCHANGED vars

Continue(ex) == Loop(pc, called, ex)

\* The operations without a loop.
CallAtOnce ==
    /\ pc = "idle"
    /\ \/ Fresh /\ \E r \in Roots : SetRoot(r)
       \/ ~Fresh /\ Back
       \/ ~Fresh /\ \E p \in KnownPaths : Enter(p)
    /\ walker' = explorer'
    /\ UNCHANGED <<pc, called>>

Ready == pc = "idle" /\ ~Fresh /\ ~aborted

CallToNextFile == Ready /\ Loop("next", "toNextFile", walker)

CallToPreviousFile ==
    /\ Ready
    /\ IF walker.files = <<>> THEN Answer("toPreviousFile", FALSE, walker)
       ELSE Loop("previous", "toPreviousFile", walker)

\* Mutant: every archive is opened at its beginning.
OpenedAtBeginning(ex, toBeginning) ==
    [ex EXCEPT !.arc = OpenedArchive(disk, ex.files[ex.cur], TRUE)]

\* openArchive, then isCurrentInArchiveFile: the file the walk has come to.
Opened(ex, toBeginning) ==
    [ex EXCEPT !.arc = OpenedArchive(disk, ex.files[ex.cur], toBeginning)]

IsCurrentInArchiveFile(ex) ==
    /\ ex.arc.cur \in 1..Len(ex.arc.list)
    /\ ex.arc.list[ex.arc.cur].isFile

\* What toFirstFile and toLastFile do at the end they start from.
StartAt(ex, loop, op) ==
    LET file == ex.files[ex.cur]
        opened == Opened(ex, loop = "next")
    IN  IF ~file.isFile THEN Loop(loop, op, ex)
        ELSE IF ~Recognized(disk, file) THEN Answer(op, TRUE, ex)
        ELSE IF IsCurrentInArchiveFile(opened) THEN Answer(op, TRUE, opened)
        ELSE Loop(loop, op, opened)

CallToFirstFile ==
    LET start == [CloseArchive(walker) EXCEPT !.cur = 1]
    IN  /\ Ready
        /\ IF walker.files = <<>> THEN Answer("toFirstFile", FALSE, start)
           ELSE StartAt(start, "next", "toFirstFile")

\* Mutant: the index is set before the list is known not to be empty.
CallToLastFileUnchecked ==
    LET start == [CloseArchive(walker) EXCEPT !.cur = Len(walker.files)]
    IN  /\ Ready
        /\ IF walker.files = <<>> THEN Answer("toLastFile", FALSE, start)
           ELSE StartAt(start, "previous", "toLastFile")

CallToLastFile ==
    LET start == [CloseArchive(walker) EXCEPT !.cur = Len(walker.files)]
    IN  /\ Ready
        /\ IF walker.files = <<>> THEN Answer("toLastFile", FALSE, CloseArchive(walker))
           ELSE StartAt(start, "previous", "toLastFile")

-----------------------------------------------------------------------------
(* One iteration of the loop of toNextFile.                                *)

\* Mutant: an empty archive is not closed.
NextInEmptyArchive ==
    LET a == walker.arc.cur + 1
        moved == [walker EXCEPT !.arc.cur = a]
    IN  /\ pc = "next"
        /\ walker.arc.open
        /\ IF walker.arc.list = <<>> THEN Continue(walker)
           ELSE IF a > Len(walker.arc.list) THEN Continue(CloseArchive(walker))
           ELSE IF moved.arc.list[a].isFile THEN Answer(called, TRUE, moved)
           ELSE Continue(moved)

NextInArchive ==
    LET a == walker.arc.cur + 1
        moved == [walker EXCEPT !.arc.cur = a]
    IN  /\ pc = "next"
        /\ walker.arc.open
        /\ IF walker.arc.list = <<>> \/ a > Len(walker.arc.list)
           THEN Continue(CloseArchive(walker))
           ELSE IF moved.arc.list[a].isFile THEN Answer(called, TRUE, moved)
           ELSE Continue(moved)

NextInFiles ==
    LET moved == [walker EXCEPT !.cur = @ + 1]
        file == moved.files[moved.cur]
        opened == Opened(moved, TRUE)
    IN  /\ pc = "next"
        /\ ~walker.arc.open
        /\ IF walker.cur >= Len(walker.files) THEN Answer(called, FALSE, walker)
           ELSE IF ~file.isFile THEN Continue(moved)
           ELSE IF ~Recognized(disk, file) THEN Answer(called, TRUE, moved)
           ELSE IF IsCurrentInArchiveFile(opened) THEN Answer(called, TRUE, opened)
           ELSE Continue(opened)

(* One iteration of the loop of toPreviousFile.                            *)

PreviousInArchive ==
    LET a == walker.arc.cur - 1
        moved == [walker EXCEPT !.arc.cur = a]
    IN  /\ pc = "previous"
        /\ walker.arc.open
        /\ IF walker.arc.list = <<>> \/ walker.arc.cur = 1
           THEN Continue(CloseArchive(walker))
           ELSE IF moved.arc.list[a].isFile THEN Answer(called, TRUE, moved)
           ELSE Continue(moved)

PreviousInFiles ==
    LET moved == [walker EXCEPT !.cur = @ - 1]
        file == moved.files[moved.cur]
        opened == Opened(moved, FALSE)
    IN  /\ pc = "previous"
        /\ ~walker.arc.open
        /\ IF walker.cur = 1 THEN Answer(called, FALSE, walker)
           ELSE IF ~file.isFile THEN Continue(moved)
           ELSE IF ~Recognized(disk, file) THEN Answer(called, TRUE, moved)
           ELSE IF IsCurrentInArchiveFile(opened) THEN Answer(called, TRUE, opened)
           ELSE Continue(opened)

Iterate == NextInArchive \/ NextInFiles \/ PreviousInArchive \/ PreviousInFiles

WalkNext == \/ CallAtOnce
            \/ CallToNextFile
            \/ CallToPreviousFile
            \/ CallToFirstFile
            \/ CallToLastFile
            \/ Iterate

\* A loop that has been entered keeps running: nothing else runs in the thread.
WalkSpec == WalkInit /\ [][WalkNext]_walkVars /\ WF_walkVars(Iterate)

-----------------------------------------------------------------------------
(* Properties                                                              *)

\* The fields' types, and the names of the loops and operations (book.cpp:338-471).
WalkTypeOK ==
    /\ walker \in Explorers(Roots \union {NoPath}, Paths)
    /\ pc \in {"idle", "next", "previous"}
    /\ called \in {"none", "toNextFile", "toPreviousFile", "toFirstFile", "toLastFile"}

(***************************************************************************)
(* The loops compute what BookExplorer says they do (book.cpp:338-471):    *)
(* seen from the caller, the operation happens when it answers.            *)
(***************************************************************************)
ImplementsExplorer == Spec

(***************************************************************************)
(* The for(;;) loops end (book.cpp:339 and 390), whatever the files are.   *)
(***************************************************************************)
EveryCallAnswers == (pc # "idle") ~> (pc = "idle")
=============================================================================
