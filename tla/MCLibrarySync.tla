---------------------------- MODULE MCLibrarySync ----------------------------
(***************************************************************************)
(* Three tracks on two albums that share one: a library of three is        *)
(* subject to the percentage, a smaller one is not.                        *)
(***************************************************************************)
EXTENDS LibrarySync, TLC

CONSTANTS t1, t2, t3, a1, a2

AllTracks == {t1, t2, t3}
AlbumSongs == (a1 :> {t1, t2}) @@ (a2 :> {t2, t3})

\* The whole library, one with a track gone, one whose loss is beyond the
\* guard, and none.
Libraries == {AllTracks, {t1, t2}, {t3}, {}}

\* The whole library, one with a track gone, and none.
OutageLibraries == {AllTracks, {t1, t2}, {}}
=============================================================================
