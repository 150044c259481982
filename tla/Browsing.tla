-------------------------------- MODULE Browsing --------------------------------
(***************************************************************************)
(* Reading the catalog page by page: a DLNA renderer browses the objects   *)
(* of the hub, which it makes from its own Subsonic calls, and the web     *)
(* client pages through an album list.  Merges, stars and plays go on      *)
(* meanwhile.  A page is one synchronous read of the database.             *)
(***************************************************************************)
EXTENDS Integers, Sequences, FiniteSets, SequencesExt

CONSTANTS
  Catalogs,     \* what merges may make of the library
  Folder,       \* music folders, one per instance
  PageCap,      \* rows of one getAlbumList2 answer at most: 500
  Requested,    \* RequestedCount of a renderer; 0 asks for everything
  MaxPlays      \* bound: plays recorded

\* A catalog has the first letter of each artist (0 is "#"), the release groups, their
\* releases with the track count of the row and the tracks there are, and the place
\* of each group in the scan that GROUP BY makes.  Identifiers and names are numbers,
\* as far as they are put in order; identifiers of artists are in that of their names.
CatalogAssumption ==
  \A c \in Catalogs :
    /\ \A ids \in {DOMAIN c.letter, DOMAIN c.group, DOMAIN c.release} :
         IsFiniteSet(ids) /\ ids \subseteq Int
    /\ \A a \in DOMAIN c.letter : c.letter[a] \in Int
    /\ \A g \in DOMAIN c.group :
         /\ c.group[g].artist \in DOMAIN c.letter
         /\ c.group[g].name \in Int /\ c.group[g].year \in Int
         /\ c.group[g].folders \subseteq Folder
         /\ \E r \in DOMAIN c.release : c.release[r].group = g
         /\ c.scan[g] \in Int /\ \A h \in DOMAIN c.group : c.scan[g] = c.scan[h] => g = h
    /\ \A r \in DOMAIN c.release :
         /\ c.release[r].group \in DOMAIN c.group
         /\ c.release[r].tracks \in Nat /\ c.release[r].track_count \in Int

CapAssumption == PageCap \in Nat \ {0} /\ Requested \subseteq Nat /\ MaxPlays \in Nat

VARIABLES
  catalog,   \* the unified tables
  stars,     \* release groups the reader has starred
  plays,     \* play_events of the reader, as release groups
  walk       \* the paging: what is read in which steps, the child counts it was
             \* told of, what was seen, whether it is done, and whether nothing
             \* it reads has changed or failed

browsingVars == <<catalog, stars, plays, walk>>

Types == {"alphabeticalByName", "alphabeticalByArtist", "starred", "frequent", "recent"}

AnyFolder == "any"

Artists == UNION {DOMAIN c.letter : c \in Catalogs}
Groups == UNION {DOMAIN c.group : c \in Catalogs}

\* The objects of the content directory, and the album lists of the web client.
Objects ==
  {<<"root">>, <<"music">>, <<"artists">>, <<"albums">>}
    \cup {<<"artist", a>> : a \in Artists} \cup {<<"album", g>> : g \in Groups}

Lists == {<<"list", t, f>> : t \in Types, f \in Folder \cup {AnyFolder}}

Songs ==
  UNION {UNION {{<<"track", r, n>> : n \in 1 .. c.release[r].tracks} : r \in DOMAIN c.release} :
           c \in Catalogs}

Unknown == -1

NoWalk == [what |-> <<"root">>, count |-> 0, metadata |-> Unknown, listing |-> Unknown,
           seen |-> <<>>, done |-> TRUE, calm |-> FALSE]

Init ==
  /\ catalog \in Catalogs
  /\ stars = {} /\ plays = <<>>
  /\ walk = NoWalk

-----------------------------------------------------------------------------
(* The Subsonic calls.                                                     *)

\* ORDER BY the keys in turn, rows that tie in the order of last: the row at a place
\* has as many rows before it.
InOrder(S, keys, last) ==
  LET Precedes(k, l) == \E i \in DOMAIN k : k[i] < l[i] /\ \A j \in 1 .. i - 1 : k[j] = l[j]
      Before(x) == {y \in S : Precedes(Append(keys[y], last[y]), Append(keys[x], last[x]))}
  IN  [i \in 1 .. Cardinality(S) |-> CHOOSE x \in S : Cardinality(Before(x)) = i - 1]

ById(S) == [x \in S |-> x]

AlbumsBy(a) == {g \in DOMAIN catalog.group : catalog.group[g].artist = a}

\* getArtists: artists with a release group of their own, by letter, "#" last.
ArtistIndex ==
  LET artists == {a \in DOMAIN catalog.letter : AlbumsBy(a) # {}}
      other(a) == IF catalog.letter[a] = 0 THEN 1 ELSE 0
  IN  InOrder(artists, [a \in artists |-> <<other(a), catalog.letter[a]>>], ById(artists))

\* getArtist.
ArtistAlbums(a) ==
  InOrder(AlbumsBy(a), [g \in AlbumsBy(a) |-> <<- catalog.group[g].year, catalog.group[g].name>>],
          catalog.scan)

Count(g) == Cardinality({i \in DOMAIN plays : plays[i] = g})
LastPlay(g) ==
  CHOOSE i \in DOMAIN plays : plays[i] = g /\ \A j \in DOMAIN plays : plays[j] = g => j <= i

\* The ORDER BY of getAlbumList2; plays are in the order of time.
ListKeys(type, g) ==
  LET row == catalog.group[g]
  IN  CASE type \in {"alphabeticalByName", "starred"} -> <<row.name>>
        [] type = "alphabeticalByArtist" -> <<row.artist, row.name>>
        [] type = "frequent" -> <<- Count(g), - LastPlay(g)>>
        [] type = "recent" -> <<- LastPlay(g)>>

\* What decides between rows that tie: only two types name the identifier.
TieBreak(type) ==
  IF type \in {"frequent", "recent"} THEN ById(DOMAIN catalog.group) ELSE catalog.scan

\* Its WHERE.
ListRows(type, folder) ==
  {g \in DOMAIN catalog.group :
    /\ folder = AnyFolder \/ folder \in catalog.group[g].folders
    /\ type = "starred" => g \in stars
    /\ type \in {"frequent", "recent"} => Count(g) > 0}

\* getAlbumList2.
AlbumList(type, folder, size, offset) ==
  LET found == ListRows(type, folder)
      rows == InOrder(found, [g \in found |-> ListKeys(type, g)], TieBreak(type))
      limit == IF size < PageCap THEN size ELSE PageCap
  IN  SubSeq(rows, offset + 1, IF offset + limit < Len(rows) THEN offset + limit ELSE Len(rows))

ReleasesOf(g) == {r \in DOMAIN catalog.release : catalog.release[r].group = g}

\* The release getAlbum shows: the one whose row counts most tracks.
BestRelease(g) ==
  Head(InOrder(ReleasesOf(g), [r \in ReleasesOf(g) |-> <<- catalog.release[r].track_count>>],
               ById(ReleasesOf(g))))

\* getAlbum.
AlbumTracks(g) ==
  LET r == BestRelease(g) IN [n \in 1 .. catalog.release[r].tracks |-> <<"track", r, n>>]

TracksOf(r) == {<<"track", r, n>> : n \in 1 .. catalog.release[r].tracks}

\* COUNT(ut.id) of the queries that list albums: over all releases of the group.
SongCount(g) == Cardinality(UNION {TracksOf(r) : r \in ReleasesOf(g)})

-----------------------------------------------------------------------------
(* Browse.                                                                 *)

\* An answer, or the empty container of a failed call.
Page(items, total) == [items |-> items, total |-> total]
Nothing == Page(<<>>, 0)

\* Array.slice, where a count of 0 asks for all.
Sliced(items, start, count) ==
  LET to == start + (IF count = 0 THEN Len(items) ELSE count)
  IN  Page(SubSeq(items, start + 1, IF to < Len(items) THEN to ELSE Len(items)), Len(items))

Named(kind, ids) == [i \in DOMAIN ids |-> <<kind, ids[i]>>]

\* Mutant: a full page is taken for the last one.
TotalSoFar(start, n, size) == start + n

\* A short page shows the end; after a full one the total is unknown, which is 0.
TotalMatches(start, n, size) == IF n < size THEN start + n ELSE 0

\* listAlbums of the whole library.
GlobalAlbums(start, count) ==
  LET size == IF count > 0 /\ count < PageCap THEN count ELSE PageCap
      rows == AlbumList("alphabeticalByName", AnyFolder, size, start)
  IN  Page(Named("album", rows), TotalMatches(start, Len(rows), size))

\* BrowseDirectChildren.  A call for an identifier that is gone fails.
BrowseChildren(object, start, count) ==
  CASE object[1] = "root" -> Sliced(<<<<"music">>>>, start, count)
    [] object[1] = "music" -> Sliced(<<<<"artists">>, <<"albums">>>>, start, count)
    [] object[1] = "artists" -> Sliced(Named("artist", ArtistIndex), start, count)
    [] object[1] = "albums" -> GlobalAlbums(start, count)
    [] object[1] = "artist" ->
         IF object[2] \in DOMAIN catalog.letter
           THEN Sliced(Named("album", ArtistAlbums(object[2])), start, count) ELSE Nothing
    [] object[1] = "album" ->
         IF object[2] \in DOMAIN catalog.group
           THEN Sliced(AlbumTracks(object[2]), start, count) ELSE Nothing

\* BrowseMetadata: the child count of an object, which for some is not told.
ChildCount(object) ==
  CASE object[1] = "root" -> 1
    [] object[1] = "music" -> 2
    [] object[1] = "artist" /\ object[2] \in DOMAIN catalog.letter ->
         Len(ArtistAlbums(object[2]))
    [] object[1] = "album" /\ object[2] \in DOMAIN catalog.group ->
         Len(AlbumTracks(object[2]))
    [] OTHER -> Unknown

\* The child count of the same object as an item of the page that lists it.
ListedCount(object) ==
  CASE object[1] = "music" -> 2
    [] object[1] = "artist" /\ object[2] \in DOMAIN catalog.letter ->
         Cardinality(AlbumsBy(object[2]))
    [] object[1] = "album" /\ object[2] \in DOMAIN catalog.group -> SongCount(object[2])
    [] OTHER -> Unknown

-----------------------------------------------------------------------------
(* The readers.                                                            *)

\* The object was seen in a list, and its metadata is read first.  A control point may
\* have kept the id of one that is gone.
Open(what, count) ==
  /\ walk.done
  /\ walk' = [what |-> what, count |-> count,
              metadata |-> ChildCount(what), listing |-> ListedCount(what),
              seen |-> <<>>, done |-> FALSE, calm |-> TRUE]
  /\ UNCHANGED <<catalog, stars, plays>>

Listing == walk.what[1] = "list"

\* A renderer goes on until it has all that TotalMatches tells, or a page is empty.
ReadChildren ==
  /\ ~walk.done /\ ~Listing
  /\ LET page == BrowseChildren(walk.what, Len(walk.seen), walk.count)
         seen == walk.seen \o page.items
     IN  walk' = [walk EXCEPT !.seen = seen,
                              !.done = \/ page.items = <<>>
                                       \/ page.total # 0 /\ Len(seen) >= page.total]
  /\ UNCHANGED <<catalog, stars, plays>>

\* getAlbumList2 of the web client goes on until a page is short.
ReadList ==
  /\ ~walk.done /\ Listing
  /\ LET rows == AlbumList(walk.what[2], walk.what[3], PageCap, Len(walk.seen))
     IN  walk' = [walk EXCEPT !.seen = @ \o Named("album", rows), !.done = Len(rows) < PageCap]
  /\ UNCHANGED <<catalog, stars, plays>>

\* A call fails: the renderer gets an empty container, the web client an error.
ReadFails ==
  /\ ~walk.done
  /\ walk' = [walk EXCEPT !.done = TRUE, !.calm = FALSE]
  /\ UNCHANGED <<catalog, stars, plays>>

-----------------------------------------------------------------------------
(* What changes under them.                                                *)

Disturbed(types) ==
  walk' = [walk EXCEPT !.calm = @ /\ ~(Listing /\ walk.what[2] \in types)]

Merge(c) ==
  /\ c # catalog
  /\ catalog' = c
  /\ walk' = [walk EXCEPT !.calm = FALSE]
  /\ UNCHANGED <<stars, plays>>

\* star.view and unstar.view.
Star(g) ==
  /\ g \in DOMAIN catalog.group
  /\ stars' = IF g \in stars THEN stars \ {g} ELSE stars \cup {g}
  /\ Disturbed({"starred"})
  /\ UNCHANGED <<catalog, plays>>

\* A scrobble of a track of g.
Play(g) ==
  /\ g \in DOMAIN catalog.group /\ Len(plays) < MaxPlays
  /\ plays' = Append(plays, g)
  /\ Disturbed({"frequent", "recent"})
  /\ UNCHANGED <<catalog, stars>>

Next ==
  \/ \E o \in Objects, n \in Requested : Open(o, n)
  \/ \E l \in Lists : Open(l, PageCap)
  \/ ReadChildren \/ ReadList \/ ReadFails
  \/ \E c \in Catalogs : Merge(c)
  \/ \E g \in Groups : Star(g) \/ Play(g)

Spec == Init /\ [][Next]_browsingVars

-----------------------------------------------------------------------------
(* Properties.                                                             *)

TypeOK ==
  /\ catalog \in Catalogs
  /\ stars \subseteq Groups
  /\ plays \in Seq(Groups) /\ Len(plays) <= MaxPlays
  /\ walk \in [what : Objects \cup Lists, count : Requested \cup {0, PageCap},
               metadata : Nat \cup {Unknown}, listing : Nat \cup {Unknown},
               seen : Seq(Objects \cup Songs),
               done : BOOLEAN, calm : BOOLEAN]

\* The children of what is walked, without any order or paging.  An album shows
\* one release, that no other outnumbers by its row.
IsAllOf(what, seen) ==
  CASE what[1] = "root" -> seen = {<<"music">>}
    [] what[1] = "music" -> seen = {<<"artists">>, <<"albums">>}
    [] what[1] = "artists" ->
         seen = {<<"artist", catalog.group[g].artist>> : g \in DOMAIN catalog.group}
    [] what[1] = "albums" -> seen = {<<"album", g>> : g \in DOMAIN catalog.group}
    [] what[1] = "artist" -> seen = {<<"album", g>> : g \in AlbumsBy(what[2])}
    [] what[1] = "album" ->
         IF what[2] \notin DOMAIN catalog.group THEN seen = {}
         ELSE \E r \in ReleasesOf(what[2]) :
                /\ seen = TracksOf(r)
                /\ \A q \in ReleasesOf(what[2]) :
                     catalog.release[q].track_count <= catalog.release[r].track_count
    [] what[1] = "list" -> seen = {<<"album", g>> : g \in ListRows(what[2], what[3])}

Seen == {walk.seen[i] : i \in DOMAIN walk.seen}

ManyReleases(what) == what[1] = "album" /\ Cardinality(ReleasesOf(what[2])) > 1

\* A reader that pages to the end, by the rules of its protocol, has seen every
\* child once and none twice, whatever page size it asks for, if no call failed and
\* no merge, star or play touched what it reads.  They are as many as the metadata of
\* the object says, and as many as the list it was found in, except for an album
\* of several releases, of which one is shown and all are counted in the list.
PagingIsComplete ==
  walk.done /\ walk.calm =>
    /\ IsInjective(walk.seen)
    /\ walk.metadata \in {Unknown, Len(walk.seen)}
    /\ walk.listing \in {Unknown, Len(walk.seen)} \/ ManyReleases(walk.what)
    /\ IsAllOf(walk.what, Seen)

\* What docs/dlna.md says of an album: it has the tracks of all releases of the group.
\* getAlbum shows one release, so this is false of the code.
AlbumShowsEveryRelease ==
  walk.done /\ walk.calm /\ walk.what[1] = "album" =>
    Seen = UNION {TracksOf(r) : r \in ReleasesOf(walk.what[2])}
=============================================================================
