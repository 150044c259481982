-------------------------------- MODULE MCClients --------------------------------
(***************************************************************************)
(* Module Clients for model checking: small constants, and one initial     *)
(* state for each part that is not looked at.                              *)
(***************************************************************************)
EXTENDS Clients

Row(a, n, y, f) == [artist |-> a, name |-> n, year |-> y, folders |-> f]
Rel(g, n, m) == [group |-> g, track_count |-> n, tracks |-> m]

\* Two albums of one name, scanned against the order of their ids, an artist without
\* albums, a letter out of order, and groups of several releases, one of which has
\* fewer tracks than its row counts; then a merge takes most of it away.
MCFull ==
  [letter |-> <<0, 1, 1>>,
   group |-> <<Row(1, 1, 1, {"h"}), Row(1, 1, 2, {"p"}), Row(2, 0, 1, {"h", "p"})>>,
   release |-> <<Rel(1, 2, 2), Rel(1, 3, 3), Rel(2, 1, 1), Rel(3, 2, 1), Rel(2, 1, 1)>>,
   scan |-> <<3, 1, 2>>]

MCCatalogs ==
  {MCFull,
   [MCFull EXCEPT !.group[1].artist = 2],
   [letter |-> <<1>>, group |-> <<Row(1, 1, 1, {"p"})>>, release |-> <<Rel(1, 4, 4)>>,
    scan |-> <<1>>]}

\* Databases of successive releases, oldest first.
MCColumns(kept) ==
  kept \cup {"track_sources", "stream_operations", "playlist_tracks"}

MCOrigins ==
  {{},
   MCColumns({"password_hash", "user_queue", "peer imports", "old streams", "playlist fk"}),
   MCColumns({"password_enc", "preferred", "old streams", "playlist fk"}),
   MCColumns({"password_enc", "preferred", "sync result", "musicfolder_id", "playlist fk"}),
   MCColumns({"password_enc", "preferred", "sync result", "musicfolder_id", "public_key",
              "hi-res", "playlist fk"}),
   MCColumns({"password_enc", "preferred", "sync result", "musicfolder_id", "public_key",
              "hi-res", "path", "album_id", "details", "lifecycle"}),
   MCColumns({"password_enc", "preferred", "sync result", "musicfolder_id", "public_key",
              "hi-res", "path", "album_id", "details", "lifecycle", "shrink guard"})}

\* One initial state for each part that is not looked at.
Resting(f) ==
  /\ f # "listening" => store.repeat = "none"
  /\ f # "session" => path = "login"
  /\ f # "lan" => lanUrl = Empty /\ ~enabled
  /\ f # "browsing" => catalog = MCFull
  /\ f # "upgrade" => disk = {}

MCInit == Init /\ Resting(focus)

MCSpec == MCInit /\ [][Next]_all
=============================================================================
