---------------------------------- MODULE Upgrade ----------------------------------
(***************************************************************************)
(* Boots on the database of an older hub.  Every statement commits on its  *)
(* own, the process may die between any two, and the next boot starts from *)
(* what is on disk: schema.sql, the migrations one function after another, *)
(* then the settings of the player, the owner and the local instance.      *)
(* A function looks at the database when it begins and then runs the       *)
(* statements it found missing.  The columns of one issue are one element  *)
(* here: each of them is added by itself, if it is missing.                *)
(***************************************************************************)
EXTENDS SequencesExt

CONSTANTS
  Origins,    \* databases there may be: sets of shapes; {} is a fresh install
  Peer,       \* ids of the peers an old database may hold
  Key,        \* keys of the player's settings
  MaxCrashes, \* bound: statements that a crash keeps from running
  None

\* Columns that migrations add, and old shapes that they remove.
Column ==
  {"password_enc", "sync result", "musicfolder_id", "public_key", "preferred",
   "hi-res", "path", "album_id", "details", "lifecycle", "shrink guard"}

OldShape == {"password_hash", "user_queue", "peer imports", "old streams", "playlist fk"}

Table == {"track_sources", "stream_operations", "playlist_tracks"}

\* What the current hub expects.
Current == Column \cup Table

\* The other statements; a statement on a column or a setting has its name.
Deed ==
  {"create missing", "drop queue", "drop password_hash", "number", "prune", "prefer",
   "drop sources", "create sources", "drop streams", "create streams", "create new", "copy",
   "drop playlists", "rename", "seed owner", "seed local"}

Statement == Column \cup Key \cup Deed

KeyAssumption ==
  /\ IsFiniteSet(Key) /\ Key \cap (Column \cup Deed) = {}
  /\ None \notin {"old", "new", "default"}

PeerAssumption == "local" \notin Peer

OriginsAssumption ==
  /\ \A o \in Origins \ {{}} :
       /\ o \subseteq Current \cup OldShape
       /\ Table \subseteq o
       /\ "old streams" \in o => "album_id" \notin o

VARIABLES
  disk,       \* tables and columns there are
  playlists,  \* tables that hold the rows of the playlists
  instances,  \* rows of instances
  keyed,      \* those with a public_key
  numbered,   \* those with a musicfolder_id
  owner,      \* password of the owner: "absent", "blank" or "set"
  settings,   \* player_settings of player.db
  legacy,     \* rows of the player in the settings of hub.db
  phase,      \* "down", "up", "threw", or the function that runs
  todo,       \* statements it has left
  had,        \* history: there were rows of playlists
  wanted,     \* history: what the owner has set last
  torn        \* history: statements a crash kept from running

upgradeVars == <<disk, playlists, instances, keyed, numbered, owner, settings, legacy, phase,
                 todo, had, wanted, torn>>

Functions ==
  <<"schema", "dropLegacyTables", "migrateUserPasswords", "ensureInstances", "prunePeers",
    "ensureSources", "ensureTracks", "migrateTrackSources", "migrateStreamOperations",
    "migrateSyncOperations", "migratePlaylistTracks", "migrateInstances",
    "migrateFromHubSettings", "seedOwner", "seedSyntheticInstances", "createSonosSettings">>

\* Peers of an old hub have a key if there was a column for it.
Init ==
  /\ disk \in Origins
  /\ playlists \in IF disk = {} THEN {{}} ELSE {{}, {"playlist_tracks"}}
  /\ instances \in IF disk = {} THEN {{}} ELSE {{"local"} \cup P : P \in SUBSET Peer}
  /\ keyed = IF "public_key" \in disk THEN instances \ {"local"} ELSE {}
  /\ numbered = IF "musicfolder_id" \in disk THEN instances ELSE {}
  /\ owner = IF disk = {} THEN "absent" ELSE IF "password_enc" \in disk THEN "set" ELSE "blank"
  /\ legacy \in [Key -> IF disk = {} THEN {None} ELSE {None, "old"}]
  /\ settings = [k \in Key |-> None]
  /\ phase = "down" /\ todo = <<>>
  /\ had = (playlists # {}) /\ wanted = legacy /\ torn = {}

-----------------------------------------------------------------------------
(* Statements of a function, from what it reads when it begins.            *)

If(holds, statements) == IF holds THEN statements ELSE <<>>

Adds(column) == If(column \notin disk, <<column>>)

\* Mutant: the old playlists go before their copy is made.
DroppedFirst == <<"create new", "drop playlists", "copy", "rename">>

Rewrite == <<"create new", "copy", "drop playlists", "rename">>

dropLegacyTables == If("user_queue" \in disk, <<"drop queue">>)

migrateUserPasswords ==
  Adds("password_enc") \o If("password_hash" \in disk, <<"drop password_hash">>)

\* ensureColumns, its four parts.
ensureInstances ==
  Adds("sync result")
    \o If("musicfolder_id" \notin disk, <<"musicfolder_id", "number">>)
    \o Adds("public_key")

prunePeers == If(instances \ {"local"} # keyed, <<"prune">>)

ensureSources == If("preferred" \notin disk, <<"preferred", "prefer">>)

ensureTracks == Adds("hi-res") \o Adds("path")

migrateTrackSources == If("peer imports" \in disk, <<"drop sources", "create sources">>)

\* The columns were read before the table was dropped: album_id is added to the
\* new table too.
migrateStreamOperations ==
  If("old streams" \in disk, <<"drop streams", "create streams">>) \o Adds("album_id")

migratePlaylistTracks == If("playlist fk" \in disk, Rewrite)

\* With migrateInstancesShrinkGuard.
migrateInstances == Adds("lifecycle") \o Adds("shrink guard")

\* A statement on a setting is named by its key.
migrateFromHubSettings == SetToSeq({k \in Key : settings[k] = None /\ legacy[k] # None})

seedOwner == If(owner # "set", <<"seed owner">>)

seedSyntheticInstances == If("local" \notin instances, <<"seed local">>)

createSonosSettings == SetToSeq({k \in Key : settings[k] = None})

Plan(function) ==
  CASE function = "schema" -> <<"create missing">>
    [] function = "dropLegacyTables" -> dropLegacyTables
    [] function = "migrateUserPasswords" -> migrateUserPasswords
    [] function = "ensureInstances" -> ensureInstances
    [] function = "prunePeers" -> prunePeers
    [] function = "ensureSources" -> ensureSources
    [] function = "ensureTracks" -> ensureTracks
    [] function = "migrateTrackSources" -> migrateTrackSources
    [] function = "migrateStreamOperations" -> migrateStreamOperations
    [] function = "migrateSyncOperations" -> Adds("details")
    [] function = "migratePlaylistTracks" -> migratePlaylistTracks
    [] function = "migrateInstances" -> migrateInstances
    [] function = "migrateFromHubSettings" -> migrateFromHubSettings
    [] function = "seedOwner" -> seedOwner
    [] function = "seedSyntheticInstances" -> seedSyntheticInstances
    [] function = "createSonosSettings" -> createSonosSettings

-----------------------------------------------------------------------------
(* Effects of a statement.                                                 *)

\* CREATE TABLE IF NOT EXISTS makes a missing table in its current shape.
Created ==
  IF disk = {} THEN Current
  ELSE disk \cup Table \cup {c \in {"album_id"} : "stream_operations" \notin disk}

DiskAfter(s) ==
  CASE s = "create missing" -> Created
    [] s \in Column -> disk \cup {s}
    [] s = "drop queue" -> disk \ {"user_queue"}
    [] s = "drop password_hash" -> disk \ {"password_hash"}
    [] s = "drop sources" -> disk \ {"track_sources", "peer imports"}
    [] s = "create sources" -> disk \cup {"track_sources"}
    [] s = "drop streams" -> disk \ {"stream_operations", "old streams"}
    [] s = "create streams" -> disk \cup {"stream_operations"}
    [] s = "create new" -> disk \cup {"playlist_tracks_new"}
    [] s = "drop playlists" -> disk \ {"playlist_tracks", "playlist fk"}
    [] s = "rename" -> (disk \ {"playlist_tracks_new"}) \cup {"playlist_tracks"}
    [] OTHER -> disk

PlaylistsAfter(s) ==
  CASE s = "copy" /\ "playlist_tracks" \in playlists -> playlists \cup {"playlist_tracks_new"}
    [] s = "drop playlists" -> playlists \ {"playlist_tracks"}
    [] s = "rename" /\ "playlist_tracks_new" \in playlists -> {"playlist_tracks"}
    [] OTHER -> playlists

InstancesAfter(s) ==
  CASE s = "prune" -> keyed \cup (instances \cap {"local"})
    [] s = "seed local" -> instances \cup {"local"}
    [] OTHER -> instances

\* The numbers of the legacy peers go with their rows.
NumberedAfter(s) ==
  CASE s = "number" -> instances
    [] s = "seed local" -> numbered \cup {"local"}
    [] OTHER -> numbered \cap InstancesAfter(s)

\* Copied if the hub's settings are being migrated, else a default.
SettingsAfter(s) ==
  IF s \notin Key THEN settings
  ELSE [settings EXCEPT ![s] =
          IF phase = "migrateFromHubSettings" THEN legacy[s] ELSE "default"]

-----------------------------------------------------------------------------
(* Boots.                                                                  *)

Booting == phase \in Range(Functions)

After(function) == Functions[(CHOOSE i \in DOMAIN Functions : Functions[i] = function) + 1]

\* createDatabase begins.
Boot ==
  /\ phase \in {"down", "threw"}
  /\ phase' = Functions[1] /\ todo' = Plan(Functions[1])
  /\ UNCHANGED <<disk, playlists, instances, keyed, numbered, owner, settings, legacy,
                 had, wanted, torn>>

\* A function that is done returns to the next one, and the last to onReady.
Return ==
  /\ Booting /\ todo = <<>>
  /\ IF phase = Last(Functions) THEN phase' = "up" /\ todo' = <<>>
     ELSE phase' = After(phase) /\ todo' = Plan(After(phase))
  /\ UNCHANGED <<disk, playlists, instances, keyed, numbered, owner, settings, legacy,
                 had, wanted, torn>>

Execute ==
  /\ Booting /\ todo # <<>>
  /\ Head(todo) = "create new" => "playlist_tracks_new" \notin disk
  /\ LET s == Head(todo) IN
       /\ disk' = DiskAfter(s)
       /\ playlists' = PlaylistsAfter(s)
       /\ instances' = InstancesAfter(s)
       /\ numbered' = NumberedAfter(s)
       /\ owner' = IF s = "seed owner" THEN "set" ELSE owner
       /\ settings' = SettingsAfter(s)
  /\ todo' = Tail(todo)
  /\ UNCHANGED <<keyed, legacy, phase, had, wanted, torn>>

\* CREATE TABLE playlist_tracks_new has no IF NOT EXISTS: the boot fails.
Throw ==
  /\ Booting /\ todo # <<>>
  /\ Head(todo) = "create new" /\ "playlist_tracks_new" \in disk
  /\ phase' = "threw" /\ todo' = <<>>
  /\ UNCHANGED <<disk, playlists, instances, keyed, numbered, owner, settings, legacy,
                 had, wanted, torn>>

Crash ==
  /\ phase = "up" \/ Booting
  /\ torn' = IF todo = <<>> THEN torn ELSE torn \cup {Head(todo)}
  /\ Cardinality(torn') <= MaxCrashes
  /\ phase' = "down" /\ todo' = <<>>
  /\ UNCHANGED <<disk, playlists, instances, keyed, numbered, owner, settings, legacy,
                 had, wanted>>

\* PUT /settings/sonos of one key.
SetSetting(k) ==
  /\ phase = "up"
  /\ settings' = [settings EXCEPT ![k] = "new"]
  /\ wanted' = [wanted EXCEPT ![k] = "new"]
  /\ UNCHANGED <<disk, playlists, instances, keyed, numbered, owner, legacy, phase, todo,
                 had, torn>>

\* A handshake stores a peer with its key and the next folder number.
Admit(p) ==
  /\ phase = "up" /\ p \notin instances
  /\ instances' = instances \cup {p}
  /\ keyed' = keyed \cup {p}
  /\ numbered' = numbered \cup {p}
  /\ UNCHANGED <<disk, playlists, owner, settings, legacy, phase, todo, had, wanted, torn>>

Next ==
  \/ Boot \/ Return \/ Execute \/ Throw \/ Crash
  \/ \E k \in Key : SetSetting(k)
  \/ \E p \in Peer : Admit(p)

Spec == Init /\ [][Next]_upgradeVars

-----------------------------------------------------------------------------
(* Properties.                                                             *)

\* The types: what a boot has left to do it can do, and no row is numbered or
\* keyed that is not there.
TypeOK ==
  /\ disk \subseteq Current \cup OldShape \cup {"playlist_tracks_new"}
  /\ playlists \subseteq {"playlist_tracks", "playlist_tracks_new"}
  /\ keyed \subseteq instances \cap Peer /\ numbered \subseteq instances
  /\ instances \subseteq Peer \cup {"local"}
  /\ owner \in {"absent", "blank", "set"}
  /\ settings \in [Key -> {None, "old", "new", "default"}]
  /\ legacy \in [Key -> {None, "old"}] /\ wanted \in [Key -> {None, "old", "new"}]
  /\ phase \in {"down", "up", "threw"} \cup Range(Functions)
  /\ todo \in Seq(Statement) /\ (todo # <<>> => Booting)
  /\ had \in BOOLEAN /\ torn \subseteq Statement

\* What boots leave behind, whatever database they began with and however often
\* they were cut short: the shape the hub expects, the playlists, a folder number
\* for every instance, exactly the peers that hold a key, a password for the owner
\* and, in player.db, what the owner set last.  A boot throws only where a crash
\* cut the rewrite of playlist_tracks; the two crashes that lose something for good
\* (before its rename, and between musicfolder_id and its numbers) are excepted.
UpgradeKeepsData ==
  /\ phase = "threw" => torn \cap {"copy", "drop playlists"} # {}
  /\ phase = "up" =>
       /\ disk \ {"playlist_tracks_new"} = Current
       /\ had /\ "rename" \notin torn => playlists = {"playlist_tracks"}
       /\ "number" \notin torn => instances \subseteq numbered
       /\ instances = keyed \cup {"local"}
       /\ owner = "set"
       /\ \A k \in Key : settings[k] = IF wanted[k] = None THEN "default" ELSE wanted[k]
=============================================================================
