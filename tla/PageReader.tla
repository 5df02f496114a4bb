----------------------------- MODULE PageReader -----------------------------
(***************************************************************************)
(* What a reader of a book is promised: one page at a time, in the order   *)
(* of the files below the root directory and of the entries inside each    *)
(* archive, and a turned page skips no image that is still on the disk.    *)
(***************************************************************************)
EXTENDS ExplorerOps

CONSTANTS Disks, Roots

VARIABLES disk,  \* as in ExplorerOps; deletions change disk.present
          root,  \* the open directory, NoPath before there is one
          page   \* the page shown, NoPathToFile if there is none

readerVars == <<disk, root, page>>

-----------------------------------------------------------------------------
(* The pages of a root and their order.                                    *)

\* The places of the files below r and of the entries of its archives.
Places(d, r) ==
    UNION {{<<f, a>> : a \in IF d.files[r][f] \in DOMAIN d.archives
                             THEN FileEntries(d.archives[d.files[r][f]]) ELSE {0}} :
           f \in {g \in 1..Len(d.files[r]) : d.files[r][g].isFile}}

PageAt(d, r, s) ==
    PathToFile(d.files[r][s[1]],
               IF s[2] = 0 THEN NoPath ELSE d.archives[d.files[r][s[1]]][s[2]])

\* The places that hold an image.
ImagePlaces(d, r) == {s \in Places(d, r) : PageAt(d, r, s) \in d.images}

OnDisk(d, p) == p.filePath \in d.present

\* Page q comes after page p and no image still on the disk lies between.
Adjacent(d, r, p, q) ==
    \E s, t \in ImagePlaces(d, r) :
        /\ PageAt(d, r, s) = p
        /\ PageAt(d, r, t) = q
        /\ Before(s, t)
        /\ \A u \in ImagePlaces(d, r) :
              Before(s, u) /\ Before(u, t) => ~OnDisk(d, PageAt(d, r, u))

-----------------------------------------------------------------------------

ReaderInit == disk \in Disks /\ root = NoPath /\ page = NoPathToFile

\* Opening a directory shows an image, or nothing.
OpenAt(r) ==
    /\ root = NoPath
    /\ root' = r
    /\ page' \in {PageAt(disk, r, s) : s \in ImagePlaces(disk, r)} \union {NoPathToFile}
    /\ UNCHANGED disk

TurnForward ==
    /\ Adjacent(disk, root, page, page')
    /\ UNCHANGED <<disk, root>>

TurnBackward ==
    /\ Adjacent(disk, root, page', page)
    /\ UNCHANGED <<disk, root>>

Delete(f) == /\ disk' = [disk EXCEPT !.present = @ \ {f}]
             /\ UNCHANGED <<root, page>>

ReaderNext == \/ \E r \in Roots : OpenAt(r)
              \/ root # NoPath /\ (TurnForward \/ TurnBackward)
              \/ \E f \in disk.present : Delete(f)

ReaderSpec == ReaderInit /\ [][ReaderNext]_readerVars
=============================================================================
