--------------------------- MODULE MCPictureView ---------------------------
(***************************************************************************)
(* PictureView on small libraries whose images have sizes.  A page of      *)
(* shape "g" is grey; "s" is a strip of more than three screens, and "w" a *)
(* page that is one pixel wider than one screen and just three of another. *)
(***************************************************************************)
EXTENDS PictureView, SmallLibraries

CONSTANT Shapes  \* the shapes of images; the other FileKinds are not images

PixelsOf ==
    [p |-> [width |-> 2, height |-> 3, depth |-> 3],
     w |-> [width |-> 6, height |-> 5, depth |-> 4],
     s |-> [width |-> 1, height |-> 4, depth |-> 3],
     g |-> [width |-> 2, height |-> 3, depth |-> 1]]

AlbumDisk(kinds) ==
    LET pages(k) == PagesOfKind(kinds, k)
        images == UNION {pages(k) : k \in Shapes}
        shape(page) == CHOOSE k \in Shapes : page \in pages(k)
        d == LibraryDisk(kinds)
    IN  [files |-> d.files, archives |-> d.archives, present |-> d.present,
         images |-> images, damaged |-> d.damaged, empty |-> d.empty,
         pixels |-> [page \in images |-> PixelsOf[shape(page)]]]

Albums == {AlbumDisk(k) : k \in Layouts}

MCScreens == {[width |-> 3, height |-> 4], [width |-> 2, height |-> 5]}
=============================================================================
