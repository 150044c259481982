--------------------------- MODULE MergeLibraries ---------------------------
(***************************************************************************)
(* What mergeLibraries (library/merge.ts) computes from the instance rows: *)
(* the unified artist, release group, release and track of every row.      *)
(* Pure operators; MergePipeline runs them inside its transaction.         *)
(*                                                                         *)
(* A library is a record of three lists, artists, albums and tracks: a     *)
(* list is a function from places, which order the rows as the merge reads *)
(* them, to rows, and may skip places (as the rows a query filters out).   *)
(* A row is a record that carries its key. A unified id is the tuple the source hashes. Names are model   *)
(* values and Normal says which of them normalizeName does not tell apart. *)
(* Each step makes a table: a function from the keys of rows to ids.       *)
(***************************************************************************)
EXTENDS Integers, FiniteSets, Functions

CONSTANTS None,       \* an absent tag or row
          Normal,     \* normalizeName: a function from names to names
          Tolerance   \* durationWithinTolerance, in the unit of durations

ASSUME ToleranceAssumption == Tolerance \in Nat

Where(rows, Test(_)) == Restrict(rows, {i \in DOMAIN rows : Test(rows[i])})
First(rows, Test(_)) ==
  LET hits == {i \in DOMAIN rows : Test(rows[i])}
  IN rows[CHOOSE i \in hits : \A j \in hits : i <= j]
Last(rows) == rows[CHOOSE i \in DOMAIN rows : \A j \in DOMAIN rows : j <= i]
Some(rows, Test(_)) == \E i \in DOMAIN rows : Test(rows[i])
Table(rows, Id(_)) == [k \in {rows[i].key : i \in DOMAIN rows} |->
                         Id(First(rows, LAMBDA r : r.key = k))]

\* The rows are grouped by MBID, those without one by a key; an MBID group
\* then absorbs the key group of its first row. A group is named by its
\* first row.
Leader(rows, Mbid(_), Key(_), r) ==
  LET Leads(l) == /\ Mbid(l) # None
                  /\ l = First(rows, LAMBDA x : Mbid(x) = Mbid(l))
                  /\ Key(l) = Key(r)
  IN IF Mbid(r) # None
     THEN First(rows, LAMBDA x : Mbid(x) = Mbid(r))
     ELSE IF Some(rows, Leads)
     THEN First(rows, Leads)
     ELSE First(rows, LAMBDA x : Mbid(x) = None /\ Key(x) = Key(r))

---------------------------------------------------------------------------
\* Step 1: artists, by artist MBID and then by normalised name.

ArtistLeader(lib, a) ==
  Leader(lib.artists, LAMBDA x : x.mbid, LAMBDA x : Normal[x.name], a)

ArtistId(l) == <<"artist", IF l.mbid # None THEN l.mbid ELSE Normal[l.name]>>

Artists(lib) == Table(lib.artists, LAMBDA a : ArtistId(ArtistLeader(lib, a)))

Unknown == <<"artist", "unknown">>
ArtistAt(artists, k) == IF k \in DOMAIN artists THEN artists[k] ELSE Unknown

---------------------------------------------------------------------------
\* Step 2: release groups, by release-group MBID and then by artist and name.

GroupLeader(lib, artists, b) ==
  Leader(lib.albums, LAMBDA x : x.group,
         LAMBDA x : <<ArtistAt(artists, x.artist), Normal[x.name]>>, b)

GroupId(artists, l) ==
  IF l.group # None THEN <<"release_group", l.group>>
  ELSE <<"release_group", ArtistAt(artists, l.artist), Normal[l.name]>>

Groups(lib, artists) ==
  Table(lib.albums, LAMBDA b : GroupId(artists, GroupLeader(lib, artists, b)))

\* instanceAlbumToArtist: its own artist, or the one of its group.
AlbumArtists(lib, artists) ==
  Table(lib.albums,
        LAMBDA b : IF b.artist \in DOMAIN artists THEN artists[b.artist]
                   ELSE ArtistAt(artists, GroupLeader(lib, artists, b).artist))

---------------------------------------------------------------------------
\* Step 3: releases, within a group by release MBID and then by track count.

ReleaseId(group, l) ==
  IF l.mbid # None THEN <<"release", l.mbid>>
  ELSE <<"release", group, Normal[l.name], l.count>>

Releases(lib, groups) ==
  Table(lib.albums,
        LAMBDA b : LET of == Where(lib.albums, LAMBDA x : groups[x.key] = groups[b.key])
                   IN ReleaseId(groups[b.key],
                                Leader(of, LAMBDA x : x.mbid,
                                       LAMBDA x : x.count, b)))

\* The inserts that throw, and with them the whole merge: a release group of
\* an artist that does not exist, and a release two release groups claim.
Throws(lib, artists, groups, releases) ==
  \/ \E i \in DOMAIN lib.albums :
       GroupLeader(lib, artists, lib.albums[i]).artist \notin DOMAIN artists
  \/ \E k, l \in DOMAIN releases : /\ releases[k] = releases[l]
                                   /\ groups[k] # groups[l]

---------------------------------------------------------------------------
\* Step 4: tracks, within a release by recording MBID and then, in order, by
\* title, number and nearly equal duration to a track created before.

\* resolveTrackArtistId, with the album's artist for an empty tag. Of the
\* artists that share a name the last one inserted is found.
TrackArtist(lib, albumArtist, t) ==
  LET named == Where(lib.artists, LAMBDA a : /\ a = ArtistLeader(lib, a)
                                             /\ Normal[a.name] = Normal[t.artist])
  IN IF t.artist = None THEN albumArtist
     ELSE IF DOMAIN named # {} THEN ArtistId(Last(named))
     ELSE <<"artist", Normal[t.artist]>>

Near(a, b) == IF a = None \/ b = None THEN a = b
              ELSE a - b \in -Tolerance..Tolerance

Matches(c, t) == /\ Normal[c.title] = Normal[t.title]
                 /\ c.number = t.number
                 /\ Near(c.duration, t.duration)

\* createdTracks of a release: the first row of each MBID group, then every
\* remaining row that matches none of those created before it.
Created(here) ==
  LET Tagged(i) == here[i].mbid # None
      creates[i \in DOMAIN here] ==
        IF Tagged(i) THEN here[i] = First(here, LAMBDA x : x.mbid = here[i].mbid)
        ELSE \A j \in DOMAIN here :
               (Tagged(j) \/ j < i) /\ creates[j] => ~Matches(here[j], here[i])
  IN Restrict(here, {i \in DOMAIN here : creates[i]})

TrackId(release, artist, l) ==
  IF l.mbid # None THEN <<"track", release, l.mbid>>
  ELSE <<"track", artist, release, Normal[l.title], l.number, l.disc, l.duration>>

Tracks(lib, albumArtists, releases) ==
  LET placed == Where(lib.tracks, LAMBDA t : t.album \in DOMAIN releases)
      Here(r) == Where(placed, LAMBDA t : releases[t.album] = r)
      Representative(t) ==
        LET created == Created(Here(releases[t.album]))
            tagged == Where(created, LAMBDA c : c.mbid # None)
            Like(c) == Matches(c, t)
        IN IF t.mbid # None THEN First(tagged, LAMBDA c : c.mbid = t.mbid)
           ELSE IF Some(tagged, Like) THEN First(tagged, Like)
           ELSE First(created, Like)
      Id(t) == LET l == Representative(t)
               IN TrackId(releases[l.album],
                          TrackArtist(lib, albumArtists[l.album], l), l)
  IN Table(placed, Id)

\* The artists that the tracks' own tags name, one for every track created: those
\* resolveTrackArtistId has found, and those it has inserted without a source.
TaggedArtists(lib, albumArtists, releases) ==
  LET placed == Where(lib.tracks, LAMBDA t : t.album \in DOMAIN releases)
      OfRelease(r) == Created(Where(placed, LAMBDA t : releases[t.album] = r))
  IN {TrackArtist(lib, albumArtists[t.album], t) :
        t \in UNION {Range(OfRelease(r)) : r \in Range(releases)}}

---------------------------------------------------------------------------
\* The whole of mergeLibraries: the tables snapshotIdentity reads back, the
\* artists that tracks name, and whether an insert throws instead.
Merged(lib) ==
  LET artists == Artists(lib)
      groups == Groups(lib, artists)
      releases == Releases(lib, groups)
      albumArtists == AlbumArtists(lib, artists)
      throws == Throws(lib, artists, groups, releases)
  IN [throws |-> throws,
      tagged |-> IF throws THEN {} ELSE TaggedArtists(lib, albumArtists, releases),
      ids |-> [artist |-> artists, album |-> groups,
               track |-> IF throws THEN <<>>
                         ELSE Tracks(lib, albumArtists, releases)]]
=============================================================================
