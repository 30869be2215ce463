---------------------------- MODULE MCBatchFiles ----------------------------
(* A small instance of BatchFiles for TLC. *)
EXTENDS BatchFiles

CONSTANTS book, vol, index, cover, dots

\* "book", "book-1", "book-007" and "vol.", as one extension has them.
SomeUploads == {Name(book, 0), Name(book, 1), Name(book, -1), Name(vol, 0)}
VolOnly == {vol}
DotsOnly == {dots}
SomeWritings == {{Name(index, 0)}, {Name(index, 0), Name(index, 1)},
                 {Name(dots, 0), Name(cover, 0)}, {Name(cover, 0)}}
CoverOnly == {Name(cover, 0)}
=============================================================================
