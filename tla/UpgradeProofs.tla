---------------------------- MODULE UpgradeProofs ----------------------------
(***************************************************************************)
(* Proofs about the boots of module Upgrade, as a part of Clients.  The    *)
(* invariant says, for each function of a boot, what the functions before  *)
(* it have made sure of and what it has left to do.  A statement is what   *)
(* the plan of its function comes to next, so each step shows that the     *)
(* rest of the plan is still the plan of what is on disk by then.          *)
(***************************************************************************)
EXTENDS Clients, FiniteSetTheorems, SequenceTheorems, TLAPS

-----------------------------------------------------------------------------
(* The inductive invariant.                                                *)

\* The table that a rewrite of playlist_tracks fills.
NewTable == "playlist_tracks_new"

\* The position of a phase: 0 between boots, 17 when the hub is up.
Index(p) ==
  CASE p = "schema" -> 1
    [] p = "dropLegacyTables" -> 2
    [] p = "migrateUserPasswords" -> 3
    [] p = "ensureInstances" -> 4
    [] p = "prunePeers" -> 5
    [] p = "ensureSources" -> 6
    [] p = "ensureTracks" -> 7
    [] p = "migrateTrackSources" -> 8
    [] p = "migrateStreamOperations" -> 9
    [] p = "migrateSyncOperations" -> 10
    [] p = "migratePlaylistTracks" -> 11
    [] p = "migrateInstances" -> 12
    [] p = "migrateFromHubSettings" -> 13
    [] p = "seedOwner" -> 14
    [] p = "seedSyntheticInstances" -> 15
    [] p = "createSonosSettings" -> 16
    [] p = "up" -> 17
    [] OTHER -> 0

\* Where the boot is.
Stage == Index(phase)

\* What is left of a function that began with the statements that were missing.
OnPlan == todo = Upgrade!Plan(phase)

\* The three statements of a rewrite of playlist_tracks that are left.
Rewriting == phase = "migratePlaylistTracks"
Copying == Rewriting /\ todo = <<"copy", "drop playlists", "rename">>
Dropping == Rewriting /\ todo = <<"drop playlists", "rename">>
Renaming == Rewriting /\ todo = <<"rename">>

\* A list of the elements of S, each of them once.
Listed(S, t) ==
  /\ t \in Seq(S)
  /\ \A i, j \in DOMAIN t : t[i] = t[j] => i = j
  /\ \A k \in S : \E i \in DOMAIN t : t[i] = k

Lists(S) == Listed(S, todo)

\* What is left of the function that runs.
Doing ==
  /\ phase = "schema" =>
       todo = <<"create missing">> \/ (todo = <<>> /\ disk # {})
  /\ phase = "ensureInstances" =>
       \/ OnPlan
       \/ /\ todo = <<"number">> \o Upgrade!Adds("public_key")
          /\ {"sync result", "musicfolder_id"} \subseteq disk
  /\ phase = "ensureSources" =>
       OnPlan \/ (todo = <<"prefer">> /\ "preferred" \in disk)
  /\ phase = "migrateTrackSources" =>
       OnPlan \/ (todo = <<"create sources">> /\ "peer imports" \notin disk)
  /\ phase = "migrateStreamOperations" =>
       \/ OnPlan
       \/ /\ todo = <<"create streams">> \o Upgrade!Adds("album_id")
          /\ "old streams" \notin disk
  /\ phase = "migratePlaylistTracks" => OnPlan \/ Copying \/ Dropping \/ Renaming
  /\ phase = "migrateFromHubSettings" =>
       Lists({k \in Key : settings[k] = None /\ legacy[k] # None})
  /\ phase = "createSonosSettings" => Lists({k \in Key : settings[k] = None})
  /\ Stage \in {2, 3, 5, 7, 10, 12, 14, 15} => OnPlan
  /\ Stage \in {0, 17} => todo = <<>>

\* What the functions before have made sure of.
Ensured ==
  /\ Stage > 2 => "user_queue" \notin disk
  /\ Stage > 3 => "password_enc" \in disk /\ "password_hash" \notin disk
  /\ Stage > 4 => {"sync result", "musicfolder_id", "public_key"} \subseteq disk
  /\ Stage > 6 => "preferred" \in disk
  /\ Stage > 7 => {"hi-res", "path"} \subseteq disk
  /\ Stage > 8 => "peer imports" \notin disk
  /\ Stage > 9 => "old streams" \notin disk /\ "album_id" \in disk
  /\ Stage > 10 => "details" \in disk
  /\ Stage > 11 => "playlist fk" \notin disk
  /\ Stage > 12 => {"lifecycle", "shrink guard"} \subseteq disk

\* schema.sql has made the missing tables.
Begun == Stage > 1 \/ (phase = "schema" /\ todo = <<>>)

\* The tables, or the statement that is about to make them.
Tables ==
  /\ disk = {} => instances = {}
  /\ disk # {} => "playlist_tracks" \in disk \/ NewTable \in disk
  /\ Begun =>
       /\ "track_sources" \in disk \/ todo = <<"create sources">>
       /\ "stream_operations" \in disk
            \/ (phase = "migrateStreamOperations" /\ todo # <<>> /\ Head(todo) = "create streams")
       /\ "playlist_tracks" \in disk \/ Renaming

\* The rows of the playlists.
Rows ==
  /\ Copying \/ Dropping => {"playlist fk", NewTable} \subseteq disk
  /\ Renaming => NewTable \in disk /\ "playlist fk" \notin disk
  /\ phase = "threw" => torn \cap {"copy", "drop playlists"} # {}
  /\ {"playlist fk", NewTable} \subseteq disk =>
       torn \cap {"copy", "drop playlists"} # {} \/ Copying \/ Dropping
  /\ NewTable \in playlists => NewTable \in disk
  /\ had /\ "rename" \notin torn =>
       /\ "playlist_tracks" \in playlists \/ (NewTable \in playlists /\ Renaming)
       /\ Dropping => NewTable \in playlists
       /\ NewTable \in playlists => "playlist fk" \in disk \/ Renaming
  /\ ~had => playlists = {}

\* Every instance has its folder number, unless a crash came between column and numbers.
Numbers ==
  "musicfolder_id" \in disk /\ "number" \notin torn =>
    instances \subseteq numbered
      \/ (phase = "ensureInstances" /\ todo # <<>> /\ Head(todo) = "number")

\* Who is left in instances after prunePeers, and the seeds.
Holders ==
  /\ Stage > 5 => instances \ {"local"} = keyed
  /\ Stage > 15 => "local" \in instances
  /\ Stage > 14 => owner = "set"

\* A setting that is there is what the owner set last, or else what the old hub held.
Values ==
  /\ \A k \in Key :
       IF settings[k] = None THEN wanted[k] = legacy[k]
       ELSE settings[k] = IF wanted[k] = None THEN "default" ELSE wanted[k]
  /\ Stage > 13 => \A k \in Key : settings[k] = None => legacy[k] = None
  /\ Stage > 16 => \A k \in Key : settings[k] # None

\* All of it.
UpgradeInv ==
  /\ Upgrade!TypeOK
  /\ Doing /\ Ensured /\ Tables /\ Rows /\ Numbers /\ Holders /\ Values

-----------------------------------------------------------------------------
(* Plans, by what they find missing.                                       *)

\* The head and the tail of a sequence with an element put before it.
LEMMA Cons ==
  ASSUME NEW S, NEW c \in S, NEW s \in Seq(S)
  PROVE  /\ <<c>> \o s \in Seq(S) /\ <<c>> \o s # <<>>
         /\ Head(<<c>> \o s) = c /\ Tail(<<c>> \o s) = s
         /\ <<>> \o s = s
  OBVIOUS

\* A part of a plan is its statements, or nothing.
LEMMA Parts ==
  ASSUME NEW holds, NEW s \in Seq(Upgrade!Statement)
  PROVE  /\ Upgrade!If(holds, s) \in Seq(Upgrade!Statement)
         /\ holds => Upgrade!If(holds, s) = s
         /\ ~holds => Upgrade!If(holds, s) = <<>>
  BY DEF Upgrade!If

\* A column is added by one statement, if it is missing.
LEMMA AddsOne ==
  ASSUME NEW c \in Upgrade!Column
  PROVE  /\ Upgrade!Adds(c) \in Seq(Upgrade!Statement)
         /\ c \in disk => Upgrade!Adds(c) = <<>>
         /\ c \notin disk => Upgrade!Adds(c) = <<c>>
  <1>1. c \in Upgrade!Statement
    BY DEF Upgrade!Statement
  <1>2. <<c>> \in Seq(Upgrade!Statement)
    BY <1>1
  <1> QED
    BY <1>2, Parts DEF Upgrade!Adds

\* The order of the functions.
LEMMA Order ==
  /\ Upgrade!After("schema") = "dropLegacyTables"
  /\ Upgrade!After("dropLegacyTables") = "migrateUserPasswords"
  /\ Upgrade!After("migrateUserPasswords") = "ensureInstances"
  /\ Upgrade!After("ensureInstances") = "prunePeers"
  /\ Upgrade!After("prunePeers") = "ensureSources"
  /\ Upgrade!After("ensureSources") = "ensureTracks"
  /\ Upgrade!After("ensureTracks") = "migrateTrackSources"
  /\ Upgrade!After("migrateTrackSources") = "migrateStreamOperations"
  /\ Upgrade!After("migrateStreamOperations") = "migrateSyncOperations"
  /\ Upgrade!After("migrateSyncOperations") = "migratePlaylistTracks"
  /\ Upgrade!After("migratePlaylistTracks") = "migrateInstances"
  /\ Upgrade!After("migrateInstances") = "migrateFromHubSettings"
  /\ Upgrade!After("migrateFromHubSettings") = "seedOwner"
  /\ Upgrade!After("seedOwner") = "seedSyntheticInstances"
  /\ Upgrade!After("seedSyntheticInstances") = "createSonosSettings"
  /\ Upgrade!Last(Upgrade!Functions) = "createSonosSettings"
  <1> DEFINE F == Upgrade!Functions
  <1>1. /\ \A i \in DOMAIN F : F[i] = "schema" <=> i = 1
        /\ \A i \in DOMAIN F : F[i] = "dropLegacyTables" <=> i = 2
        /\ \A i \in DOMAIN F : F[i] = "migrateUserPasswords" <=> i = 3
        /\ \A i \in DOMAIN F : F[i] = "ensureInstances" <=> i = 4
        /\ \A i \in DOMAIN F : F[i] = "prunePeers" <=> i = 5
        /\ \A i \in DOMAIN F : F[i] = "ensureSources" <=> i = 6
        /\ \A i \in DOMAIN F : F[i] = "ensureTracks" <=> i = 7
        /\ \A i \in DOMAIN F : F[i] = "migrateTrackSources" <=> i = 8
    BY DEF Upgrade!Functions
  <1>2. /\ \A i \in DOMAIN F : F[i] = "migrateStreamOperations" <=> i = 9
        /\ \A i \in DOMAIN F : F[i] = "migrateSyncOperations" <=> i = 10
        /\ \A i \in DOMAIN F : F[i] = "migratePlaylistTracks" <=> i = 11
        /\ \A i \in DOMAIN F : F[i] = "migrateInstances" <=> i = 12
        /\ \A i \in DOMAIN F : F[i] = "migrateFromHubSettings" <=> i = 13
        /\ \A i \in DOMAIN F : F[i] = "seedOwner" <=> i = 14
        /\ \A i \in DOMAIN F : F[i] = "seedSyntheticInstances" <=> i = 15
    BY DEF Upgrade!Functions
  <1> QED
    BY <1>1, <1>2 DEF Upgrade!After, Upgrade!Functions, Upgrade!Last

\* The plans by themselves.
LEMMA Plans ==
  /\ Upgrade!Plan("schema") = <<"create missing">>
  /\ Upgrade!Plan("dropLegacyTables") = Upgrade!dropLegacyTables
  /\ Upgrade!Plan("migrateUserPasswords") = Upgrade!migrateUserPasswords
  /\ Upgrade!Plan("ensureInstances") = Upgrade!ensureInstances
  /\ Upgrade!Plan("prunePeers") = Upgrade!prunePeers
  /\ Upgrade!Plan("ensureSources") = Upgrade!ensureSources
  /\ Upgrade!Plan("ensureTracks") = Upgrade!ensureTracks
  /\ Upgrade!Plan("migrateTrackSources") = Upgrade!migrateTrackSources
  /\ Upgrade!Plan("migrateStreamOperations") = Upgrade!migrateStreamOperations
  /\ Upgrade!Plan("migrateSyncOperations") = Upgrade!Adds("details")
  /\ Upgrade!Plan("migratePlaylistTracks") = Upgrade!migratePlaylistTracks
  /\ Upgrade!Plan("migrateInstances") = Upgrade!migrateInstances
  /\ Upgrade!Plan("migrateFromHubSettings") = Upgrade!migrateFromHubSettings
  /\ Upgrade!Plan("seedOwner") = Upgrade!seedOwner
  /\ Upgrade!Plan("seedSyntheticInstances") = Upgrade!seedSyntheticInstances
  /\ Upgrade!Plan("createSonosSettings") = Upgrade!createSonosSettings
  BY DEF Upgrade!Plan

\* The functions of a boot.
BootPhases ==
  {"schema", "dropLegacyTables", "migrateUserPasswords", "ensureInstances", "prunePeers",
   "ensureSources", "ensureTracks", "migrateTrackSources", "migrateStreamOperations",
   "migrateSyncOperations", "migratePlaylistTracks", "migrateInstances",
   "migrateFromHubSettings", "seedOwner", "seedSyntheticInstances", "createSonosSettings"}

\* The functions of a boot are those of the list.
LEMMA BootsAre == Upgrade!Range(Upgrade!Functions) = BootPhases
  BY DEF Upgrade!Range, Upgrade!Functions, BootPhases

\* A function looks at nothing but the database and the settings.
LEMMA SamePlan ==
  ASSUME UNCHANGED <<disk, instances, keyed, owner, settings, legacy>>, NEW p
  PROVE  (Upgrade!Plan(p))' = Upgrade!Plan(p)
  BY DEF Upgrade!Plan, Upgrade!dropLegacyTables, Upgrade!migrateUserPasswords,
         Upgrade!ensureInstances, Upgrade!prunePeers, Upgrade!ensureSources,
         Upgrade!ensureTracks, Upgrade!migrateTrackSources, Upgrade!migrateStreamOperations,
         Upgrade!migratePlaylistTracks, Upgrade!migrateInstances,
         Upgrade!migrateFromHubSettings, Upgrade!seedOwner, Upgrade!seedSyntheticInstances,
         Upgrade!createSonosSettings, Upgrade!Adds, Upgrade!If

\* The instance's copies of the operators on finite sets are the usual ones.
LEMMA SameUpgradeSets ==
  /\ \A S : Upgrade!Cardinality(S) = Cardinality(S)
  /\ \A S : Upgrade!IsFiniteSet(S) <=> IsFiniteSet(S)
  <1>1. ASSUME NEW S PROVE Upgrade!Cardinality(S) = Cardinality(S)
    BY DEF Upgrade!Cardinality, Cardinality
  <1>2. ASSUME NEW S PROVE Upgrade!IsFiniteSet(S) <=> IsFiniteSet(S)
    BY DEF Upgrade!IsFiniteSet, IsFiniteSet
  <1> QED
    BY <1>1, <1>2

\* SetToSeq lists a set of settings, each once.
LEMMA ListsAll ==
  ASSUME NEW S \in SUBSET Key, NEW s, s = Upgrade!SetToSeq(S)
  PROVE  /\ s \in Seq(S)
         /\ \A i, j \in DOMAIN s : s[i] = s[j] => i = j
         /\ \A k \in S : \E i \in DOMAIN s : s[i] = k
  <1>1. IsFiniteSet(S)
    BY FS_Subset, SameUpgradeSets, ClientsAssumption DEF Upgrade!KeyAssumption
  <1> DEFINE n == Cardinality(S)
  <1>2. n \in Nat /\ ExistsBijection(1 .. n, S) /\ Upgrade!Cardinality(S) = n
    BY <1>1, FS_CardinalityType, SameUpgradeSets
  <1> HIDE DEF n
  <1>3. PICK g \in Bijection(1 .. n, S) : TRUE
    BY <1>2 DEF ExistsBijection
  <1>4. g \in [1 .. n -> S] /\ \A i, j \in 1 .. n : g[i] = g[j] => i = j
    BY <1>3 DEF Bijection, Injection, IsInjective
  <1>5. \E f \in [1 .. n -> S] : Upgrade!IsInjective(f)
    BY <1>4 DEF Upgrade!IsInjective
  <1>6. s \in [1 .. n -> S] /\ Upgrade!IsInjective(s)
    BY <1>2, <1>5 DEF Upgrade!SetToSeq
  <1>7. s \in Seq(S) /\ \A i, j \in DOMAIN s : s[i] = s[j] => i = j
    BY <1>2, <1>6 DEF Upgrade!IsInjective
  <1>8. s \in Injection(1 .. n, S)
    BY <1>6, <1>7 DEF Injection, IsInjective
  <1>9. \A k \in S : \E i \in 1 .. n : s[i] = k
    <2>1. 1 \in Int /\ n \in Int
      BY <1>2
    <2>2. Cardinality(1 .. n) = n
      BY <1>2, <2>1, FS_Interval
    <2>3. s \in Surjection(1 .. n, S)
      BY <1>1, <1>8, <2>2, FS_Injection DEF n
    <2> QED
      BY <2>3 DEF Surjection
  <1> QED
    BY <1>6, <1>7, <1>9

\* What the statements do to the schema.
LEMMA OnDisk ==
  /\ Upgrade!DiskAfter("create missing") = Upgrade!Created
  /\ \A c \in Upgrade!Column : Upgrade!DiskAfter(c) = disk \cup {c}
  /\ Upgrade!DiskAfter("drop queue") = disk \ {"user_queue"}
  /\ Upgrade!DiskAfter("drop password_hash") = disk \ {"password_hash"}
  /\ Upgrade!DiskAfter("drop sources") = disk \ {"track_sources", "peer imports"}
  /\ Upgrade!DiskAfter("create sources") = disk \cup {"track_sources"}
  /\ Upgrade!DiskAfter("drop streams") = disk \ {"stream_operations", "old streams"}
  /\ Upgrade!DiskAfter("create streams") = disk \cup {"stream_operations"}
  /\ Upgrade!DiskAfter("create new") = disk \cup {NewTable}
  /\ Upgrade!DiskAfter("drop playlists") = disk \ {"playlist_tracks", "playlist fk"}
  /\ Upgrade!DiskAfter("rename") = (disk \ {NewTable}) \cup {"playlist_tracks"}
  /\ \A s \in {"number", "prune", "prefer", "copy", "seed owner", "seed local"} :
       Upgrade!DiskAfter(s) = disk
  /\ \A k \in Key : Upgrade!DiskAfter(k) = disk
  <1>1. Upgrade!KeyAssumption
    BY ClientsAssumption
  <1>2. \A k \in Key : Upgrade!DiskAfter(k) = disk
    BY <1>1 DEF Upgrade!DiskAfter, Upgrade!KeyAssumption, Upgrade!Deed
  <1>3. \A c \in Upgrade!Column : Upgrade!DiskAfter(c) = disk \cup {c}
    BY DEF Upgrade!DiskAfter, Upgrade!Column
  <1>4. \A s \in {"number", "prune", "prefer", "copy", "seed owner", "seed local"} :
          Upgrade!DiskAfter(s) = disk
    BY DEF Upgrade!DiskAfter, Upgrade!Column
  <1> QED
    BY <1>2, <1>3, <1>4 DEF Upgrade!DiskAfter, Upgrade!Column, NewTable

\* No statement takes a column away or brings an old shape back.
LEMMA DiskGrows ==
  ASSUME Upgrade!TypeOK, NEW s \in Upgrade!Statement, NEW d, d = Upgrade!DiskAfter(s)
  PROVE  /\ \A c \in Upgrade!Column : c \in disk => c \in d
         /\ \A x \in Upgrade!OldShape : x \in d => x \in disk
         /\ d \subseteq Upgrade!Current \cup Upgrade!OldShape \cup {NewTable}
  <1> USE DEF Upgrade!Column, Upgrade!OldShape, Upgrade!Table, Upgrade!Current, NewTable
  <1>1. disk \subseteq Upgrade!Current \cup Upgrade!OldShape \cup {NewTable}
    BY DEF Upgrade!TypeOK
  <1>2. CASE s = "create missing"
    <2>1. d = IF disk = {} THEN Upgrade!Current
              ELSE disk \cup Upgrade!Table
                     \cup {c \in {"album_id"} : "stream_operations" \notin disk}
      BY <1>2, OnDisk DEF Upgrade!Created
    <2> QED
      BY <1>1, <2>1
  <1>3. CASE s \in Upgrade!Column
    <2>1. d = disk \cup {s}
      BY <1>3, OnDisk
    <2>2. s \notin Upgrade!OldShape /\ s \in Upgrade!Current
      BY <1>3
    <2> QED
      BY <1>1, <2>1, <2>2
  <1>4. CASE s \in Key
    BY <1>1, <1>4, OnDisk
  <1>5. CASE s = "drop queue"
    BY <1>1, <1>5, OnDisk
  <1>6. CASE s = "drop password_hash"
    BY <1>1, <1>6, OnDisk
  <1>7. CASE s = "drop sources"
    BY <1>1, <1>7, OnDisk
  <1>8. CASE s = "drop streams"
    BY <1>1, <1>8, OnDisk
  <1>9. CASE s = "drop playlists"
    BY <1>1, <1>9, OnDisk
  <1>10. CASE s \in {"create sources", "create streams", "create new", "rename"}
    BY <1>1, <1>10, OnDisk
  <1>11. CASE s \in {"number", "prune", "prefer", "copy", "seed owner", "seed local"}
    BY <1>1, <1>11, OnDisk
  <1> QED
    BY <1>2, <1>3, <1>4, <1>5, <1>6, <1>7, <1>8, <1>9, <1>10, <1>11
       DEF Upgrade!Statement, Upgrade!Deed

\* What is left of a plan after a column that was there.
Passwords == Upgrade!If("password_hash" \in disk, <<"drop password_hash">>)
Folders == Upgrade!If("musicfolder_id" \notin disk, <<"musicfolder_id", "number">>)
             \o Upgrade!Adds("public_key")
Streams == <<"create streams">> \o Upgrade!Adds("album_id")

\* The plans, by what they find missing.
PlanCases ==
  /\ "user_queue" \in disk => Upgrade!Plan("dropLegacyTables") = <<"drop queue">>
  /\ "user_queue" \notin disk => Upgrade!Plan("dropLegacyTables") = <<>>
  /\ "password_enc" \notin disk =>
       Upgrade!Plan("migrateUserPasswords") = <<"password_enc">> \o Passwords
  /\ "password_enc" \in disk => Upgrade!Plan("migrateUserPasswords") = Passwords
  /\ "password_hash" \in disk => Passwords = <<"drop password_hash">>
  /\ "password_hash" \notin disk => Passwords = <<>>
  /\ "sync result" \notin disk =>
       Upgrade!Plan("ensureInstances") = <<"sync result">> \o Folders
  /\ "sync result" \in disk => Upgrade!Plan("ensureInstances") = Folders
  /\ "musicfolder_id" \notin disk =>
       Folders = <<"musicfolder_id">> \o (<<"number">> \o Upgrade!Adds("public_key"))
  /\ "musicfolder_id" \in disk => Folders = Upgrade!Adds("public_key")
  /\ instances \ {"local"} # keyed => Upgrade!Plan("prunePeers") = <<"prune">>
  /\ instances \ {"local"} = keyed => Upgrade!Plan("prunePeers") = <<>>
  /\ "preferred" \notin disk => Upgrade!Plan("ensureSources") = <<"preferred", "prefer">>
  /\ "preferred" \in disk => Upgrade!Plan("ensureSources") = <<>>
  /\ "hi-res" \notin disk =>
       Upgrade!Plan("ensureTracks") = <<"hi-res">> \o Upgrade!Adds("path")
  /\ "hi-res" \in disk => Upgrade!Plan("ensureTracks") = Upgrade!Adds("path")
  /\ "peer imports" \in disk =>
       Upgrade!Plan("migrateTrackSources") = <<"drop sources", "create sources">>
  /\ "peer imports" \notin disk => Upgrade!Plan("migrateTrackSources") = <<>>
  /\ "old streams" \in disk =>
       Upgrade!Plan("migrateStreamOperations") = <<"drop streams">> \o Streams
  /\ "old streams" \notin disk =>
       Upgrade!Plan("migrateStreamOperations") = Upgrade!Adds("album_id")
  /\ Upgrade!Plan("migrateSyncOperations") = Upgrade!Adds("details")
  /\ "playlist fk" \in disk =>
       Upgrade!Plan("migratePlaylistTracks") = <<"create new", "copy", "drop playlists", "rename">>
  /\ "playlist fk" \notin disk => Upgrade!Plan("migratePlaylistTracks") = <<>>
  /\ "lifecycle" \notin disk =>
       Upgrade!Plan("migrateInstances") = <<"lifecycle">> \o Upgrade!Adds("shrink guard")
  /\ "lifecycle" \in disk =>
       Upgrade!Plan("migrateInstances") = Upgrade!Adds("shrink guard")
  /\ owner # "set" => Upgrade!Plan("seedOwner") = <<"seed owner">>
  /\ owner = "set" => Upgrade!Plan("seedOwner") = <<>>
  /\ "local" \notin instances => Upgrade!Plan("seedSyntheticInstances") = <<"seed local">>
  /\ "local" \in instances => Upgrade!Plan("seedSyntheticInstances") = <<>>

\* Concatenation is associative.
LEMMA Concats ==
  ASSUME NEW S, NEW a \in Seq(S), NEW b \in Seq(S), NEW c \in Seq(S)
  PROVE  (a \o b) \o c = a \o (b \o c) /\ b \o c \in Seq(S)
  BY ConcatAssociative, ConcatProperties

\* A pair of statements is put before a plan one by one.
LEMMA Pairs ==
  ASSUME NEW S, NEW s \in Seq(S), NEW c \in S, NEW d \in S
  PROVE  <<c, d>> \o s = <<c>> \o (<<d>> \o s)
  <1>1. <<c>> \in Seq(S) /\ <<d>> \in Seq(S)
    OBVIOUS
  <1>2. <<c, d>> = Append(<<c>>, d)
    OBVIOUS
  <1>3. <<c, d>> = <<c>> \o <<d>>
    BY <1>1, <1>2, AppendIsConcat
  <1> QED
    BY <1>1, <1>3, Concats

\* Each part of a plan is a sequence of statements.
PartsTyped ==
  /\ Passwords \in Seq(Upgrade!Statement)
  /\ Folders \in Seq(Upgrade!Statement)
  /\ Streams \in Seq(Upgrade!Statement)
  /\ <<"number">> \o Upgrade!Adds("public_key") \in Seq(Upgrade!Statement)
  /\ \A c \in Upgrade!Column : /\ Upgrade!Adds(c) \in Seq(Upgrade!Statement)
                               /\ c \in disk => Upgrade!Adds(c) = <<>>
                               /\ c \notin disk => Upgrade!Adds(c) = <<c>>

\* Short tuples are sequences.
LEMMA OneTyped ==
  ASSUME NEW S, NEW c \in S
  PROVE  <<c>> \in Seq(S)
  OBVIOUS

\* The same of pairs.
LEMMA TwoTyped ==
  ASSUME NEW S, NEW c \in S, NEW d \in S
  PROVE  <<c, d>> \in Seq(S)
  OBVIOUS

\* Every part of a plan is a sequence of statements.
LEMMA PartsAreTyped == PartsTyped
  <1>1. \A c \in Upgrade!Column : /\ Upgrade!Adds(c) \in Seq(Upgrade!Statement)
                                  /\ c \in disk => Upgrade!Adds(c) = <<>>
                                  /\ c \notin disk => Upgrade!Adds(c) = <<c>>
    BY AddsOne
  <1>2. /\ Upgrade!Adds("public_key") \in Seq(Upgrade!Statement)
        /\ Upgrade!Adds("album_id") \in Seq(Upgrade!Statement)
    BY AddsOne DEF Upgrade!Column
  <1>3. \A s \in {"number", "create streams", "musicfolder_id", "drop password_hash"} :
          s \in Upgrade!Statement
    BY DEF Upgrade!Statement, Upgrade!Deed, Upgrade!Column
  <1>4. /\ <<"number">> \o Upgrade!Adds("public_key") \in Seq(Upgrade!Statement)
        /\ Streams \in Seq(Upgrade!Statement)
    BY <1>2, <1>3, Cons DEF Streams
  <1>5. <<"drop password_hash">> \in Seq(Upgrade!Statement)
        /\ <<"musicfolder_id", "number">> \in Seq(Upgrade!Statement)
    <2>1. "drop password_hash" \in Upgrade!Statement
      BY <1>3
    <2>2. "musicfolder_id" \in Upgrade!Statement /\ "number" \in Upgrade!Statement
      BY <1>3
    <2>3. <<"drop password_hash">> \in Seq(Upgrade!Statement)
      BY <2>1, OneTyped
    <2>4. <<"musicfolder_id", "number">> \in Seq(Upgrade!Statement)
      BY <2>2, TwoTyped
    <2> QED
      BY <2>3, <2>4
  <1>6. Passwords \in Seq(Upgrade!Statement)
    BY <1>5, Parts DEF Passwords
  <1>7. Upgrade!If("musicfolder_id" \notin disk, <<"musicfolder_id", "number">>)
          \in Seq(Upgrade!Statement)
    BY <1>5, Parts
  <1>8. Folders \in Seq(Upgrade!Statement)
    BY <1>2, <1>7 DEF Folders
  <1> QED
    BY <1>1, <1>4, <1>6, <1>8 DEF PartsTyped

\* A plan that begins with a column, which may be there already.
LEMMA AddsFirst ==
  ASSUME NEW c \in Upgrade!Column, NEW s \in Seq(Upgrade!Statement)
  PROVE  /\ c \notin disk => Upgrade!Adds(c) \o s = <<c>> \o s
         /\ c \in disk => Upgrade!Adds(c) \o s = s
  <1>1. <<>> \o s = s
    OBVIOUS
  <1> QED
    BY <1>1, AddsOne

\* The plans are what PlanCases says.
LEMMA PlanIs == PlanCases
  <1>1. /\ "user_queue" \in disk => Upgrade!Plan("dropLegacyTables") = <<"drop queue">>
        /\ "user_queue" \notin disk => Upgrade!Plan("dropLegacyTables") = <<>>
    BY Plans DEF Upgrade!dropLegacyTables, Upgrade!If
  <1>2. /\ "password_enc" \notin disk =>
             Upgrade!Plan("migrateUserPasswords") = <<"password_enc">> \o Passwords
        /\ "password_enc" \in disk => Upgrade!Plan("migrateUserPasswords") = Passwords
    <2>1. Upgrade!Plan("migrateUserPasswords") = Upgrade!Adds("password_enc") \o Passwords
      BY Plans DEF Upgrade!migrateUserPasswords, Passwords
    <2>2. "password_enc" \in Upgrade!Column
      BY DEF Upgrade!Column
    <2> QED
      BY <2>1, <2>2, AddsFirst, PartsAreTyped DEF PartsTyped
  <1>3. /\ "password_hash" \in disk => Passwords = <<"drop password_hash">>
        /\ "password_hash" \notin disk => Passwords = <<>>
    BY DEF Passwords, Upgrade!If
  <1>4. /\ "sync result" \notin disk =>
             Upgrade!Plan("ensureInstances") = <<"sync result">> \o Folders
        /\ "sync result" \in disk => Upgrade!Plan("ensureInstances") = Folders
    <2> DEFINE a == Upgrade!Adds("sync result")
               b == Upgrade!If("musicfolder_id" \notin disk, <<"musicfolder_id", "number">>)
               c == Upgrade!Adds("public_key")
    <2>1. Upgrade!Plan("ensureInstances") = (a \o b) \o c /\ Folders = b \o c
      BY Plans DEF Upgrade!ensureInstances, Folders
    <2>2. /\ a \in Seq(Upgrade!Statement) /\ c \in Seq(Upgrade!Statement)
          /\ "sync result" \in disk => a = <<>>
          /\ "sync result" \notin disk => a = <<"sync result">>
      BY PartsAreTyped DEF PartsTyped, Upgrade!Column
    <2>3. b \in Seq(Upgrade!Statement)
      <3>1. <<"musicfolder_id", "number">> \in Seq(Upgrade!Statement)
        BY DEF Upgrade!Statement, Upgrade!Deed, Upgrade!Column
      <3> QED
        BY <3>1, Parts
    <2> HIDE DEF a, b, c
    <2>4. (a \o b) \o c = a \o (b \o c) /\ b \o c \in Seq(Upgrade!Statement)
      BY <2>2, <2>3, Concats
    <2>5. <<>> \o (b \o c) = b \o c
      BY <2>4
    <2> QED
      BY <2>1, <2>2, <2>4, <2>5
  <1>5. /\ "musicfolder_id" \notin disk =>
             Folders = <<"musicfolder_id">> \o (<<"number">> \o Upgrade!Adds("public_key"))
        /\ "musicfolder_id" \in disk => Folders = Upgrade!Adds("public_key")
    <2>1. Upgrade!Adds("public_key") \in Seq(Upgrade!Statement)
      BY PartsAreTyped DEF PartsTyped, Upgrade!Column
    <2>2. ASSUME NEW s \in Seq(Upgrade!Statement) PROVE <<>> \o s = s
      OBVIOUS
    <2>3. "musicfolder_id" \in Upgrade!Statement /\ "number" \in Upgrade!Statement
      BY DEF Upgrade!Statement, Upgrade!Deed, Upgrade!Column
    <2>4. <<"musicfolder_id", "number">> \o Upgrade!Adds("public_key")
            = <<"musicfolder_id">> \o (<<"number">> \o Upgrade!Adds("public_key"))
      BY <2>1, <2>3, Pairs
    <2> QED
      BY <2>1, <2>2, <2>4 DEF Folders, Upgrade!If
  <1>6. /\ instances \ {"local"} # keyed => Upgrade!Plan("prunePeers") = <<"prune">>
        /\ instances \ {"local"} = keyed => Upgrade!Plan("prunePeers") = <<>>
    BY Plans DEF Upgrade!prunePeers, Upgrade!If
  <1>7. /\ "preferred" \notin disk => Upgrade!Plan("ensureSources") = <<"preferred", "prefer">>
        /\ "preferred" \in disk => Upgrade!Plan("ensureSources") = <<>>
    BY Plans DEF Upgrade!ensureSources, Upgrade!If
  <1>8. /\ "hi-res" \notin disk =>
             Upgrade!Plan("ensureTracks") = <<"hi-res">> \o Upgrade!Adds("path")
        /\ "hi-res" \in disk => Upgrade!Plan("ensureTracks") = Upgrade!Adds("path")
    <2>1. "hi-res" \in Upgrade!Column /\ "path" \in Upgrade!Column
      BY DEF Upgrade!Column
    <2> QED
      BY <2>1, AddsFirst, Plans, PartsAreTyped DEF PartsTyped, Upgrade!ensureTracks
  <1>9. /\ "peer imports" \in disk =>
             Upgrade!Plan("migrateTrackSources") = <<"drop sources", "create sources">>
        /\ "peer imports" \notin disk => Upgrade!Plan("migrateTrackSources") = <<>>
    BY Plans DEF Upgrade!migrateTrackSources, Upgrade!If
  <1>10. /\ "old streams" \in disk =>
              Upgrade!Plan("migrateStreamOperations") = <<"drop streams">> \o Streams
         /\ "old streams" \notin disk =>
              Upgrade!Plan("migrateStreamOperations") = Upgrade!Adds("album_id")
    <2>1. Upgrade!Adds("album_id") \in Seq(Upgrade!Statement)
      BY PartsAreTyped DEF PartsTyped, Upgrade!Column
    <2>2. ASSUME NEW s \in Seq(Upgrade!Statement) PROVE <<>> \o s = s
      OBVIOUS
    <2>3. "drop streams" \in Upgrade!Statement /\ "create streams" \in Upgrade!Statement
      BY DEF Upgrade!Statement, Upgrade!Deed
    <2>4. <<"drop streams", "create streams">> \o Upgrade!Adds("album_id")
            = <<"drop streams">> \o Streams
      BY <2>1, <2>3, Pairs DEF Streams
    <2> QED
      BY <2>1, <2>2, <2>4, Plans DEF Upgrade!migrateStreamOperations, Upgrade!If
  <1>11. /\ "playlist fk" \in disk =>
              Upgrade!Plan("migratePlaylistTracks")
                = <<"create new", "copy", "drop playlists", "rename">>
         /\ "playlist fk" \notin disk => Upgrade!Plan("migratePlaylistTracks") = <<>>
    BY Plans DEF Upgrade!migratePlaylistTracks, Upgrade!Rewrite, Upgrade!If
  <1>12. /\ "lifecycle" \notin disk =>
              Upgrade!Plan("migrateInstances") = <<"lifecycle">> \o Upgrade!Adds("shrink guard")
         /\ "lifecycle" \in disk =>
              Upgrade!Plan("migrateInstances") = Upgrade!Adds("shrink guard")
    <2>1. "lifecycle" \in Upgrade!Column /\ "shrink guard" \in Upgrade!Column
      BY DEF Upgrade!Column
    <2> QED
      BY <2>1, AddsFirst, Plans, PartsAreTyped DEF PartsTyped, Upgrade!migrateInstances
  <1>13. /\ owner # "set" => Upgrade!Plan("seedOwner") = <<"seed owner">>
         /\ owner = "set" => Upgrade!Plan("seedOwner") = <<>>
    BY Plans DEF Upgrade!seedOwner, Upgrade!If
  <1>14. /\ "local" \notin instances =>
              Upgrade!Plan("seedSyntheticInstances") = <<"seed local">>
         /\ "local" \in instances => Upgrade!Plan("seedSyntheticInstances") = <<>>
    BY Plans DEF Upgrade!seedSyntheticInstances, Upgrade!If
  <1> QED
    BY <1>1, <1>2, <1>3, <1>4, <1>5, <1>6, <1>7, <1>8, <1>9, <1>10, <1>11, <1>12, <1>13,
       <1>14, Plans DEF PlanCases

-----------------------------------------------------------------------------
(* What a function runs next.                                              *)

\* s comes next, and rest is left when it is done.
Runs(s, rest) == todo # <<>> /\ Head(todo) = s /\ Tail(todo) = rest

\* What runs first of a tuple of statements, and what is left then.
LEMMA RunsOne ==
  ASSUME NEW c, todo = <<c>>
  PROVE  Runs(c, <<>>)
  <1>1. <<c>> # <<>> /\ Head(<<c>>) = c /\ Tail(<<c>>) = <<>>
    OBVIOUS
  <1> QED
    BY <1>1, Zenon DEF Runs

\* The same of two statements.
LEMMA RunsTwo ==
  ASSUME NEW c, NEW d, todo = <<c, d>>
  PROVE  Runs(c, <<d>>)
  <1>1. <<c, d>> # <<>> /\ Head(<<c, d>>) = c /\ Tail(<<c, d>>) = <<d>>
    OBVIOUS
  <1> QED
    BY <1>1, Zenon DEF Runs

\* The same of three statements.
LEMMA RunsThree ==
  ASSUME NEW c, NEW d, NEW e, todo = <<c, d, e>>
  PROVE  Runs(c, <<d, e>>)
  <1>1. <<c, d, e>> # <<>> /\ Head(<<c, d, e>>) = c /\ Tail(<<c, d, e>>) = <<d, e>>
    OBVIOUS
  <1> QED
    BY <1>1, Zenon DEF Runs

\* The same of four statements.
LEMMA RunsFour ==
  ASSUME NEW c, NEW d, NEW e, NEW f, todo = <<c, d, e, f>>
  PROVE  Runs(c, <<d, e, f>>)
  <1>1. /\ <<c, d, e, f>> # <<>> /\ Head(<<c, d, e, f>>) = c
        /\ Tail(<<c, d, e, f>>) = <<d, e, f>>
    OBVIOUS
  <1> QED
    BY <1>1, Zenon DEF Runs

\* The same of a statement before a plan.
LEMMA RunsFirst ==
  ASSUME NEW c, c \in Upgrade!Statement, NEW s \in Seq(Upgrade!Statement), todo = <<c>> \o s
  PROVE  Runs(c, s)
  BY Cons DEF Runs

\* What each function runs next, what it knows by then, and what it has done when
\* nothing is left.
Work ==
  /\ phase = "schema" => (todo = <<>> /\ disk # {}) \/ Runs("create missing", <<>>)
  /\ phase = "dropLegacyTables" =>
       (todo = <<>> /\ "user_queue" \notin disk) \/ Runs("drop queue", <<>>)
  /\ phase = "migrateUserPasswords" =>
       \/ todo = <<>> /\ "password_enc" \in disk /\ "password_hash" \notin disk
       \/ Runs("password_enc", Passwords)
       \/ Runs("drop password_hash", <<>>) /\ "password_enc" \in disk
  /\ phase = "ensureInstances" =>
       \/ todo = <<>> /\ {"sync result", "musicfolder_id", "public_key"} \subseteq disk
       \/ Runs("sync result", Folders)
       \/ /\ Runs("musicfolder_id", <<"number">> \o Upgrade!Adds("public_key"))
          /\ "sync result" \in disk
       \/ /\ Runs("number", Upgrade!Adds("public_key"))
          /\ {"sync result", "musicfolder_id"} \subseteq disk
       \/ Runs("public_key", <<>>) /\ {"sync result", "musicfolder_id"} \subseteq disk
  /\ phase = "prunePeers" =>
       (todo = <<>> /\ instances \ {"local"} = keyed) \/ Runs("prune", <<>>)
  /\ phase = "ensureSources" =>
       \/ todo = <<>> /\ "preferred" \in disk
       \/ Runs("preferred", <<"prefer">>)
       \/ Runs("prefer", <<>>) /\ "preferred" \in disk
  /\ phase = "ensureTracks" =>
       \/ todo = <<>> /\ {"hi-res", "path"} \subseteq disk
       \/ Runs("hi-res", Upgrade!Adds("path"))
       \/ Runs("path", <<>>) /\ "hi-res" \in disk
  /\ phase = "migrateTrackSources" =>
       \/ todo = <<>> /\ "peer imports" \notin disk
       \/ Runs("drop sources", <<"create sources">>)
       \/ todo = <<"create sources">> /\ "peer imports" \notin disk
  /\ phase = "migrateStreamOperations" =>
       \/ todo = <<>> /\ "old streams" \notin disk /\ "album_id" \in disk
       \/ Runs("drop streams", Streams)
       \/ Runs("create streams", Upgrade!Adds("album_id")) /\ "old streams" \notin disk
       \/ Runs("album_id", <<>>) /\ "old streams" \notin disk
  /\ phase = "migrateSyncOperations" =>
       (todo = <<>> /\ "details" \in disk) \/ Runs("details", <<>>)
  /\ phase = "migratePlaylistTracks" =>
       \/ todo = <<>> /\ "playlist fk" \notin disk
       \/ Runs("create new", <<"copy", "drop playlists", "rename">>) /\ "playlist fk" \in disk
       \/ Copying \/ Dropping \/ Renaming
  /\ phase = "migrateInstances" =>
       \/ todo = <<>> /\ {"lifecycle", "shrink guard"} \subseteq disk
       \/ Runs("lifecycle", Upgrade!Adds("shrink guard"))
       \/ Runs("shrink guard", <<>>) /\ "lifecycle" \in disk
  /\ phase = "migrateFromHubSettings" =>
       \/ todo = <<>> /\ \A k \in Key : settings[k] = None => legacy[k] = None
       \/ /\ todo # <<>> /\ Head(todo) \in Key
          /\ settings[Head(todo)] = None /\ legacy[Head(todo)] # None
  /\ phase = "seedOwner" => (todo = <<>> /\ owner = "set") \/ Runs("seed owner", <<>>)
  /\ phase = "seedSyntheticInstances" =>
       (todo = <<>> /\ "local" \in instances) \/ Runs("seed local", <<>>)
  /\ phase = "createSonosSettings" =>
       \/ todo = <<>> /\ \A k \in Key : settings[k] # None
       \/ todo # <<>> /\ Head(todo) \in Key /\ settings[Head(todo)] = None

\* The phases and the stages are the same.
StagesAre ==
  /\ Stage \in 0 .. 17
  /\ Stage = 0 <=> phase \notin BootPhases \cup {"up"}
  /\ Stage = 1 <=> phase = "schema"
  /\ Stage = 2 <=> phase = "dropLegacyTables"
  /\ Stage = 3 <=> phase = "migrateUserPasswords"
  /\ Stage = 4 <=> phase = "ensureInstances"
  /\ Stage = 5 <=> phase = "prunePeers"
  /\ Stage = 6 <=> phase = "ensureSources"
  /\ Stage = 7 <=> phase = "ensureTracks"
  /\ Stage = 8 <=> phase = "migrateTrackSources"
  /\ Stage = 9 <=> phase = "migrateStreamOperations"
  /\ Stage = 10 <=> phase = "migrateSyncOperations"
  /\ Stage = 11 <=> phase = "migratePlaylistTracks"
  /\ Stage = 12 <=> phase = "migrateInstances"
  /\ Stage = 13 <=> phase = "migrateFromHubSettings"
  /\ Stage = 14 <=> phase = "seedOwner"
  /\ Stage = 15 <=> phase = "seedSyntheticInstances"
  /\ Stage = 16 <=> phase = "createSonosSettings"
  /\ Stage = 17 <=> phase = "up"

\* Every phase has its stage.
LEMMA Stages == StagesAre
  <1>1. /\ phase = "schema" => Stage = 1
        /\ phase = "dropLegacyTables" => Stage = 2
        /\ phase = "migrateUserPasswords" => Stage = 3
        /\ phase = "ensureInstances" => Stage = 4
        /\ phase = "prunePeers" => Stage = 5
        /\ phase = "ensureSources" => Stage = 6
    BY DEF Stage, Index
  <1>2. /\ phase = "ensureTracks" => Stage = 7
        /\ phase = "migrateTrackSources" => Stage = 8
        /\ phase = "migrateStreamOperations" => Stage = 9
        /\ phase = "migrateSyncOperations" => Stage = 10
        /\ phase = "migratePlaylistTracks" => Stage = 11
        /\ phase = "migrateInstances" => Stage = 12
    BY DEF Stage, Index
  <1>3. /\ phase = "migrateFromHubSettings" => Stage = 13
        /\ phase = "seedOwner" => Stage = 14
        /\ phase = "seedSyntheticInstances" => Stage = 15
        /\ phase = "createSonosSettings" => Stage = 16
        /\ phase = "up" => Stage = 17
    BY DEF Stage, Index
  <1>4. phase \notin BootPhases \cup {"up"} => Stage = 0
    BY DEF Stage, Index, BootPhases
  <1>5. CASE phase \notin BootPhases \cup {"up"}
    BY <1>4, <1>5 DEF BootPhases, StagesAre
  <1>6. CASE phase \in BootPhases \cup {"up"}
    BY <1>1, <1>2, <1>3, <1>6 DEF BootPhases, StagesAre
  <1> QED
    BY <1>5, <1>6

\* So it has in the next state.
LEMMA StagesNext == StagesAre'
  BY Stages, PTL

\* A function does what it found missing, one statement after the other.
LEMMA Works ==
  ASSUME Doing
  PROVE  Work
  <1>w. ASSUME phase \in {"dropLegacyTables", "migrateUserPasswords", "prunePeers",
                          "ensureTracks", "migrateSyncOperations", "migrateInstances",
                          "seedOwner", "seedSyntheticInstances"}
        PROVE  todo = Upgrade!Plan(phase)
    <2>1. Stage \in {2, 3, 5, 7, 10, 12, 14, 15}
      BY <1>w, Stages DEF StagesAre
    <2> QED
      BY <2>1 DEF Doing, OnPlan
  <1>c. /\ \A c \in {"password_enc", "sync result", "musicfolder_id", "public_key", "preferred",
                     "hi-res", "path", "album_id", "details", "lifecycle", "shrink guard"} :
             /\ Upgrade!Adds(c) \in Seq(Upgrade!Statement)
             /\ c \in disk => Upgrade!Adds(c) = <<>>
             /\ c \notin disk => Upgrade!Adds(c) = <<c>>
    BY PartsAreTyped DEF PartsTyped, Upgrade!Column
  <1>s. \A c \in Upgrade!Column \cup {"number", "create streams", "drop streams"} :
          c \in Upgrade!Statement
    BY DEF Upgrade!Statement, Upgrade!Deed
  <1>1. ASSUME phase = "schema"
        PROVE  (todo = <<>> /\ disk # {}) \/ Runs("create missing", <<>>)
    BY <1>1, RunsOne DEF Doing
  <1>2. ASSUME phase = "dropLegacyTables"
        PROVE  (todo = <<>> /\ "user_queue" \notin disk) \/ Runs("drop queue", <<>>)
    BY <1>2, <1>w, PlanIs, RunsOne DEF PlanCases
  <1>3. ASSUME phase = "migrateUserPasswords"
        PROVE  \/ todo = <<>> /\ "password_enc" \in disk /\ "password_hash" \notin disk
               \/ Runs("password_enc", Passwords)
               \/ Runs("drop password_hash", <<>>) /\ "password_enc" \in disk
    <2>1. CASE "password_enc" \notin disk
      <3>1. todo = <<"password_enc">> \o Passwords
        BY <1>3, <1>w, <2>1, PlanIs DEF PlanCases
      <3> QED
        BY <3>1, RunsFirst, <1>s, PartsAreTyped DEF PartsTyped, Upgrade!Column
    <2>2. CASE "password_enc" \in disk
      <3>1. todo = Passwords
        BY <1>3, <1>w, <2>2, PlanIs DEF PlanCases
      <3> QED
        BY <3>1, <2>2, PlanIs, RunsOne DEF PlanCases
    <2> QED
      BY <2>1, <2>2
  <1>4. ASSUME phase = "ensureInstances"
        PROVE  \/ todo = <<>> /\ {"sync result", "musicfolder_id", "public_key"} \subseteq disk
               \/ Runs("sync result", Folders)
               \/ /\ Runs("musicfolder_id", <<"number">> \o Upgrade!Adds("public_key"))
                  /\ "sync result" \in disk
               \/ /\ Runs("number", Upgrade!Adds("public_key"))
                  /\ {"sync result", "musicfolder_id"} \subseteq disk
               \/ Runs("public_key", <<>>) /\ {"sync result", "musicfolder_id"} \subseteq disk
    <2>1. ASSUME OnPlan, "sync result" \notin disk
          PROVE  Runs("sync result", Folders)
      <3>1. todo = <<"sync result">> \o Folders
        BY <1>4, <2>1, PlanIs DEF PlanCases, OnPlan
      <3> QED
        BY <3>1, RunsFirst, <1>s, PartsAreTyped DEF PartsTyped, Upgrade!Column
    <2>2. ASSUME OnPlan, "sync result" \in disk, "musicfolder_id" \notin disk
          PROVE  Runs("musicfolder_id", <<"number">> \o Upgrade!Adds("public_key"))
      <3>1. todo = <<"musicfolder_id">> \o (<<"number">> \o Upgrade!Adds("public_key"))
        BY <1>4, <2>2, PlanIs DEF PlanCases, OnPlan
      <3> QED
        BY <3>1, RunsFirst, <1>s, PartsAreTyped DEF PartsTyped, Upgrade!Column
    <2>3. ASSUME OnPlan, "sync result" \in disk, "musicfolder_id" \in disk
          PROVE  todo = Upgrade!Adds("public_key")
      BY <1>4, <2>3, PlanIs DEF PlanCases, OnPlan
    <2>4. ASSUME todo = <<"number">> \o Upgrade!Adds("public_key")
          PROVE  Runs("number", Upgrade!Adds("public_key"))
      BY <2>4, RunsFirst, <1>s, <1>c
    <2>5. OnPlan \/ /\ todo = <<"number">> \o Upgrade!Adds("public_key")
                    /\ {"sync result", "musicfolder_id"} \subseteq disk
      BY <1>4 DEF Doing
    <2>6. ASSUME todo = Upgrade!Adds("public_key")
          PROVE  (todo = <<>> /\ "public_key" \in disk) \/ Runs("public_key", <<>>)
      BY <2>6, <1>c, RunsOne
    <2> QED
      BY <2>1, <2>2, <2>3, <2>4, <2>5, <2>6
  <1>5. ASSUME phase = "prunePeers"
        PROVE  (todo = <<>> /\ instances \ {"local"} = keyed) \/ Runs("prune", <<>>)
    BY <1>5, <1>w, PlanIs, RunsOne DEF PlanCases
  <1>6. ASSUME phase = "ensureSources"
        PROVE  \/ todo = <<>> /\ "preferred" \in disk
               \/ Runs("preferred", <<"prefer">>)
               \/ Runs("prefer", <<>>) /\ "preferred" \in disk
    <2>1. OnPlan \/ (todo = <<"prefer">> /\ "preferred" \in disk)
      BY <1>6 DEF Doing
    <2> QED
      BY <1>6, <2>1, PlanIs, RunsOne, RunsTwo DEF PlanCases, OnPlan
  <1>7. ASSUME phase = "ensureTracks"
        PROVE  \/ todo = <<>> /\ {"hi-res", "path"} \subseteq disk
               \/ Runs("hi-res", Upgrade!Adds("path"))
               \/ Runs("path", <<>>) /\ "hi-res" \in disk
    <2>1. CASE "hi-res" \notin disk
      <3>1. todo = <<"hi-res">> \o Upgrade!Adds("path")
        BY <1>7, <1>w, <2>1, PlanIs DEF PlanCases
      <3> QED
        BY <3>1, RunsFirst, <1>s, <1>c DEF Upgrade!Column
    <2>2. CASE "hi-res" \in disk
      <3>1. todo = Upgrade!Adds("path")
        BY <1>7, <1>w, <2>2, PlanIs DEF PlanCases
      <3> QED
        BY <3>1, <2>2, <1>c, RunsOne
    <2> QED
      BY <2>1, <2>2
  <1>8. ASSUME phase = "migrateTrackSources"
        PROVE  \/ todo = <<>> /\ "peer imports" \notin disk
               \/ Runs("drop sources", <<"create sources">>)
               \/ todo = <<"create sources">> /\ "peer imports" \notin disk
    <2>1. OnPlan \/ (todo = <<"create sources">> /\ "peer imports" \notin disk)
      BY <1>8 DEF Doing
    <2> QED
      BY <1>8, <2>1, PlanIs, RunsTwo DEF PlanCases, OnPlan
  <1>9. ASSUME phase = "migrateStreamOperations"
        PROVE  \/ todo = <<>> /\ "old streams" \notin disk /\ "album_id" \in disk
               \/ Runs("drop streams", Streams)
               \/ Runs("create streams", Upgrade!Adds("album_id")) /\ "old streams" \notin disk
               \/ Runs("album_id", <<>>) /\ "old streams" \notin disk
    <2>1. OnPlan \/ (todo = Streams /\ "old streams" \notin disk)
      BY <1>9 DEF Doing, Streams
    <2>2. ASSUME OnPlan, "old streams" \in disk
          PROVE  Runs("drop streams", Streams)
      <3>1. todo = <<"drop streams">> \o Streams
        BY <1>9, <2>2, PlanIs DEF PlanCases, OnPlan
      <3> QED
        BY <3>1, RunsFirst, <1>s, PartsAreTyped DEF PartsTyped
    <2>3. ASSUME OnPlan, "old streams" \notin disk
          PROVE  todo = Upgrade!Adds("album_id")
      BY <1>9, <2>3, PlanIs DEF PlanCases, OnPlan
    <2>4. ASSUME todo = Streams
          PROVE  Runs("create streams", Upgrade!Adds("album_id"))
      BY <2>4, RunsFirst, <1>s, <1>c DEF Streams
    <2>5. ASSUME todo = Upgrade!Adds("album_id")
          PROVE  (todo = <<>> /\ "album_id" \in disk) \/ Runs("album_id", <<>>)
      BY <2>5, <1>c, RunsOne
    <2> QED
      BY <2>1, <2>2, <2>3, <2>4, <2>5
  <1>10. ASSUME phase = "migrateSyncOperations"
         PROVE  (todo = <<>> /\ "details" \in disk) \/ Runs("details", <<>>)
    <2>1. todo = Upgrade!Adds("details")
      BY <1>10, <1>w, PlanIs DEF PlanCases
    <2> QED
      BY <2>1, <1>c, RunsOne
  <1>11. ASSUME phase = "migratePlaylistTracks"
         PROVE  \/ todo = <<>> /\ "playlist fk" \notin disk
                \/ /\ Runs("create new", <<"copy", "drop playlists", "rename">>)
                   /\ "playlist fk" \in disk
                \/ Copying \/ Dropping \/ Renaming
    <2>1. OnPlan \/ Copying \/ Dropping \/ Renaming
      BY <1>11 DEF Doing
    <2>2. ASSUME OnPlan
          PROVE  \/ todo = <<>> /\ "playlist fk" \notin disk
                 \/ /\ Runs("create new", <<"copy", "drop playlists", "rename">>)
                    /\ "playlist fk" \in disk
      BY <1>11, <2>2, PlanIs, RunsFour DEF PlanCases, OnPlan
    <2> QED
      BY <2>1, <2>2
  <1>12. ASSUME phase = "migrateInstances"
         PROVE  \/ todo = <<>> /\ {"lifecycle", "shrink guard"} \subseteq disk
                \/ Runs("lifecycle", Upgrade!Adds("shrink guard"))
                \/ Runs("shrink guard", <<>>) /\ "lifecycle" \in disk
    <2>1. CASE "lifecycle" \notin disk
      <3>1. todo = <<"lifecycle">> \o Upgrade!Adds("shrink guard")
        BY <1>12, <1>w, <2>1, PlanIs DEF PlanCases
      <3> QED
        BY <3>1, RunsFirst, <1>s, <1>c DEF Upgrade!Column
    <2>2. CASE "lifecycle" \in disk
      <3>1. todo = Upgrade!Adds("shrink guard")
        BY <1>12, <1>w, <2>2, PlanIs DEF PlanCases
      <3> QED
        BY <3>1, <2>2, <1>c, RunsOne
    <2> QED
      BY <2>1, <2>2
  <1>13. ASSUME phase = "migrateFromHubSettings"
         PROVE  \/ todo = <<>> /\ \A k \in Key : settings[k] = None => legacy[k] = None
                \/ /\ todo # <<>> /\ Head(todo) \in Key
                   /\ settings[Head(todo)] = None /\ legacy[Head(todo)] # None
    <2>1. Lists({k \in Key : settings[k] = None /\ legacy[k] # None})
      BY <1>13 DEF Doing
    <2> QED
      BY <2>1 DEF Lists, Listed
  <1>14. ASSUME phase = "seedOwner"
         PROVE  (todo = <<>> /\ owner = "set") \/ Runs("seed owner", <<>>)
    BY <1>14, <1>w, PlanIs, RunsOne DEF PlanCases
  <1>15. ASSUME phase = "seedSyntheticInstances"
         PROVE  (todo = <<>> /\ "local" \in instances) \/ Runs("seed local", <<>>)
    BY <1>15, <1>w, PlanIs, RunsOne DEF PlanCases
  <1>16. ASSUME phase = "createSonosSettings"
         PROVE  \/ todo = <<>> /\ \A k \in Key : settings[k] # None
                \/ todo # <<>> /\ Head(todo) \in Key /\ settings[Head(todo)] = None
    <2>1. Lists({k \in Key : settings[k] = None})
      BY <1>16 DEF Doing
    <2> QED
      BY <2>1 DEF Lists, Listed
  <1> QED
    BY <1>1, <1>2, <1>3, <1>4, <1>5, <1>6, <1>7, <1>8, <1>9, <1>10, <1>11, <1>12, <1>13, <1>14,
       <1>15, <1>16 DEF Work

\* A function has done its work when nothing of it is left.
Done ==
  /\ phase = "dropLegacyTables" => "user_queue" \notin disk
  /\ phase = "migrateUserPasswords" => "password_enc" \in disk /\ "password_hash" \notin disk
  /\ phase = "ensureInstances" =>
       {"sync result", "musicfolder_id", "public_key"} \subseteq disk
  /\ phase = "prunePeers" => instances \ {"local"} = keyed
  /\ phase = "ensureSources" => "preferred" \in disk
  /\ phase = "ensureTracks" => {"hi-res", "path"} \subseteq disk
  /\ phase = "migrateTrackSources" => "peer imports" \notin disk
  /\ phase = "migrateStreamOperations" => "old streams" \notin disk /\ "album_id" \in disk
  /\ phase = "migrateSyncOperations" => "details" \in disk
  /\ phase = "migratePlaylistTracks" => "playlist fk" \notin disk
  /\ phase = "migrateInstances" => {"lifecycle", "shrink guard"} \subseteq disk
  /\ phase = "migrateFromHubSettings" => \A k \in Key : settings[k] = None => legacy[k] = None
  /\ phase = "seedOwner" => owner = "set"
  /\ phase = "seedSyntheticInstances" => "local" \in instances
  /\ phase = "createSonosSettings" => \A k \in Key : settings[k] # None

\* A function with nothing left has done its work.
LEMMA Finished ==
  ASSUME Doing, todo = <<>>
  PROVE  Done
  <1>1. <<"create sources">> # <<>> /\ <<"copy", "drop playlists", "rename">> # <<>>
        /\ <<"drop playlists", "rename">> # <<>> /\ <<"rename">> # <<>>
    OBVIOUS
  <1>2. ~Copying /\ ~Dropping /\ ~Renaming
    BY <1>1 DEF Copying, Dropping, Renaming
  <1>3. \A s, rest : ~Runs(s, rest)
    BY DEF Runs
  <1>4. Work
    BY Works
  <1>5. /\ phase = "dropLegacyTables" => "user_queue" \notin disk
        /\ phase = "migrateUserPasswords" =>
             "password_enc" \in disk /\ "password_hash" \notin disk
        /\ phase = "ensureInstances" =>
             {"sync result", "musicfolder_id", "public_key"} \subseteq disk
        /\ phase = "prunePeers" => instances \ {"local"} = keyed
    BY <1>3, <1>4 DEF Work
  <1>6. /\ phase = "ensureSources" => "preferred" \in disk
        /\ phase = "ensureTracks" => {"hi-res", "path"} \subseteq disk
        /\ phase = "migrateTrackSources" => "peer imports" \notin disk
        /\ phase = "migrateStreamOperations" =>
             "old streams" \notin disk /\ "album_id" \in disk
    BY <1>1, <1>3, <1>4 DEF Work
  <1>7. /\ phase = "migrateSyncOperations" => "details" \in disk
        /\ phase = "migratePlaylistTracks" => "playlist fk" \notin disk
        /\ phase = "migrateInstances" => {"lifecycle", "shrink guard"} \subseteq disk
    BY <1>2, <1>3, <1>4 DEF Work
  <1>8. /\ phase = "migrateFromHubSettings" =>
              \A k \in Key : settings[k] = None => legacy[k] = None
        /\ phase = "seedOwner" => owner = "set"
        /\ phase = "seedSyntheticInstances" => "local" \in instances
        /\ phase = "createSonosSettings" => \A k \in Key : settings[k] # None
    BY <1>3, <1>4 DEF Work
  <1> QED
    BY <1>5, <1>6, <1>7, <1>8 DEF Done

-----------------------------------------------------------------------------
(* A function returns.                                                     *)

\* A function that is done goes to the next stage with a plan of its own.
LEMMA Returns ==
  ASSUME Upgrade!Return
  PROVE  /\ phase \in BootPhases /\ todo = <<>>
         /\ Stage \in 1 .. 16 /\ Stage' = Stage + 1
         /\ Stage' = 17 => todo' = <<>>
         /\ Stage' # 17 => todo' = Upgrade!Plan(phase')
         /\ UNCHANGED <<disk, playlists, instances, keyed, numbered, owner, settings, legacy,
                        had, wanted, torn>>
  <1>1. /\ phase \in BootPhases /\ todo = <<>>
        /\ UNCHANGED <<disk, playlists, instances, keyed, numbered, owner, settings, legacy,
                       had, wanted, torn>>
    BY BootsAre DEF Upgrade!Return, Upgrade!Booting
  <1>2. Stage \in 1 .. 16
    BY <1>1, Stages DEF StagesAre, BootPhases
  <1>3. CASE phase = "createSonosSettings"
    <2>1. phase' = "up" /\ todo' = <<>>
      BY <1>3, Order DEF Upgrade!Return
    <2> QED
      BY <1>1, <1>2, <1>3, <2>1, Stages, StagesNext DEF StagesAre
  <1>4. CASE phase # "createSonosSettings"
    <2>1. phase' = Upgrade!After(phase) /\ todo' = Upgrade!Plan(phase')
      BY <1>4, Order DEF Upgrade!Return
    <2>2. Stage' = Stage + 1
      BY <1>1, <1>4, <2>1, Order, Stages, StagesNext DEF StagesAre, BootPhases
    <2> QED
      BY <1>1, <1>2, <1>4, <2>1, <2>2, Stages DEF StagesAre
  <1> QED
    BY <1>3, <1>4

\* What a function has done is what the next stage is sure of.
LEMMA ReturnKeeps ==
  ASSUME Doing, Ensured, Holders, Values, Upgrade!Return
  PROVE  Ensured' /\ Holders' /\ Values'
  <1>1. Done
    BY Returns, Finished
  <1>2. Stage \in 1 .. 16 /\ Stage' = Stage + 1
    BY Returns
  <1>3. /\ phase = "dropLegacyTables" <=> Stage = 2
        /\ phase = "migrateUserPasswords" <=> Stage = 3
        /\ phase = "ensureInstances" <=> Stage = 4
        /\ phase = "prunePeers" <=> Stage = 5
        /\ phase = "ensureSources" <=> Stage = 6
        /\ phase = "ensureTracks" <=> Stage = 7
        /\ phase = "migrateTrackSources" <=> Stage = 8
        /\ phase = "migrateStreamOperations" <=> Stage = 9
        /\ phase = "migrateSyncOperations" <=> Stage = 10
        /\ phase = "migratePlaylistTracks" <=> Stage = 11
        /\ phase = "migrateInstances" <=> Stage = 12
        /\ phase = "migrateFromHubSettings" <=> Stage = 13
        /\ phase = "seedOwner" <=> Stage = 14
        /\ phase = "seedSyntheticInstances" <=> Stage = 15
        /\ phase = "createSonosSettings" <=> Stage = 16
    BY Stages DEF StagesAre
  <1>4. UNCHANGED <<disk, playlists, instances, keyed, numbered, owner, settings, legacy,
                    had, wanted, torn>>
    BY Returns
  <1>5. /\ Stage' > 2 => Stage > 2 \/ Stage = 2
        /\ Stage' > 3 => Stage > 3 \/ Stage = 3
        /\ Stage' > 4 => Stage > 4 \/ Stage = 4
        /\ Stage' > 5 => Stage > 5 \/ Stage = 5
        /\ Stage' > 6 => Stage > 6 \/ Stage = 6
        /\ Stage' > 7 => Stage > 7 \/ Stage = 7
        /\ Stage' > 8 => Stage > 8 \/ Stage = 8
        /\ Stage' > 9 => Stage > 9 \/ Stage = 9
        /\ Stage' > 10 => Stage > 10 \/ Stage = 10
        /\ Stage' > 11 => Stage > 11 \/ Stage = 11
        /\ Stage' > 12 => Stage > 12 \/ Stage = 12
        /\ Stage' > 13 => Stage > 13 \/ Stage = 13
        /\ Stage' > 14 => Stage > 14 \/ Stage = 14
        /\ Stage' > 15 => Stage > 15 \/ Stage = 15
        /\ Stage' > 16 => Stage > 16 \/ Stage = 16
    BY <1>2
  <1>6. Ensured'
    <2>1. /\ Stage' > 2 => "user_queue" \notin disk
          /\ Stage' > 3 => "password_enc" \in disk /\ "password_hash" \notin disk
          /\ Stage' > 4 => {"sync result", "musicfolder_id", "public_key"} \subseteq disk
          /\ Stage' > 6 => "preferred" \in disk
          /\ Stage' > 7 => {"hi-res", "path"} \subseteq disk
      BY <1>1, <1>3, <1>5 DEF Done, Ensured
    <2>2. /\ Stage' > 8 => "peer imports" \notin disk
          /\ Stage' > 9 => "old streams" \notin disk /\ "album_id" \in disk
          /\ Stage' > 10 => "details" \in disk
          /\ Stage' > 11 => "playlist fk" \notin disk
          /\ Stage' > 12 => {"lifecycle", "shrink guard"} \subseteq disk
      BY <1>1, <1>3, <1>5 DEF Done, Ensured
    <2> QED
      BY <1>4, <2>1, <2>2 DEF Ensured
  <1>7. Holders'
    BY <1>1, <1>3, <1>4, <1>5 DEF Done, Holders
  <1>8. Values'
    BY <1>1, <1>3, <1>4, <1>5 DEF Done, Values
  <1> QED
    BY <1>6, <1>7, <1>8

\* A function begins with its plan, and the copies of the settings with a list.
LEMMA PlanDoes ==
  ASSUME Stage \in 2 .. 16, OnPlan
  PROVE  Doing
  <1>1. phase = "migrateFromHubSettings" =>
          Lists({k \in Key : settings[k] = None /\ legacy[k] # None})
    <2>1. {k \in Key : settings[k] = None /\ legacy[k] # None} \in SUBSET Key
      OBVIOUS
    <2>2. phase = "migrateFromHubSettings" =>
            todo = Upgrade!SetToSeq({k \in Key : settings[k] = None /\ legacy[k] # None})
      BY Plans DEF OnPlan, Upgrade!migrateFromHubSettings
    <2> QED
      BY <2>1, <2>2, ListsAll DEF Lists, Listed
  <1>2. phase = "createSonosSettings" => Lists({k \in Key : settings[k] = None})
    <2>1. {k \in Key : settings[k] = None} \in SUBSET Key
      OBVIOUS
    <2> QED
      BY <2>1, ListsAll, Plans DEF OnPlan, Lists, Listed, Upgrade!createSonosSettings
  <1>3. phase # "schema" /\ Stage \notin {0, 17}
    BY Stages DEF StagesAre
  <1> QED
    BY <1>1, <1>2, <1>3 DEF Doing

\* A function that is on its plan does what is left of it.
PlanBegins == Stage \in 2 .. 16 /\ OnPlan => Doing

\* So it does in the next state.
LEMMA PlanBeginsNext == PlanBegins'
  <1>1. PlanBegins
    BY PlanDoes DEF PlanBegins
  <1> QED
    BY <1>1, PTL

\* The next function begins with its plan, and the hub that is up has none.
LEMMA ReturnDoes ==
  ASSUME Upgrade!Return
  PROVE  Doing'
  <1>1. CASE Stage' = 17
    <2>1. todo' = <<>> /\ phase' = "up"
      BY <1>1, Returns, StagesNext DEF StagesAre
    <2> QED
      BY <1>1, <2>1 DEF Doing
  <1>2. CASE Stage' # 17
    <2>1. Stage' \in 2 .. 16
      BY <1>2, Returns
    <2>2. OnPlan'
      <3>1. (Upgrade!Plan(phase))' = Upgrade!Plan(phase')
        BY Returns, SamePlan
      <3> QED
        BY <1>2, <3>1, Returns DEF OnPlan
    <2> QED
      BY <2>1, <2>2, PlanBeginsNext DEF PlanBegins
  <1> QED
    BY <1>1, <1>2

\* A plan is a sequence of statements.
LEMMA PlansTyped ==
  ASSUME NEW p \in BootPhases
  PROVE  Upgrade!Plan(p) \in Seq(Upgrade!Statement)
  <1> DEFINE S == Upgrade!Statement
  <1>1. /\ \A c \in {"create missing", "drop queue", "drop password_hash", "prune", "prefer",
                     "drop sources", "create sources", "create new", "copy", "drop playlists",
                     "rename", "seed owner", "seed local", "drop streams", "password_enc",
                     "sync result", "preferred", "hi-res", "lifecycle"} : c \in S
        /\ Key \subseteq S
    BY DEF Upgrade!Statement, Upgrade!Deed, Upgrade!Column
  <1>2. \A c \in {"create missing", "drop queue", "prune", "seed owner", "seed local"} :
          <<c>> \in Seq(S)
    BY <1>1, OneTyped
  <1>3. <<"preferred", "prefer">> \in Seq(S) /\ <<"drop sources", "create sources">> \in Seq(S)
    BY <1>1, TwoTyped
  <1>4. <<"create new", "copy", "drop playlists", "rename">> \in Seq(S)
    <2>1. ASSUME NEW c \in S, NEW d \in S, NEW e \in S, NEW f \in S
          PROVE  <<c, d, e, f>> \in Seq(S)
      OBVIOUS
    <2> QED
      BY <1>1, <2>1
  <1>5. /\ Passwords \in Seq(S) /\ Folders \in Seq(S) /\ Streams \in Seq(S) /\ <<>> \in Seq(S)
        /\ \A c \in {"public_key", "path", "album_id", "details", "shrink guard"} :
             Upgrade!Adds(c) \in Seq(S)
    <2>1. <<>> \in Seq(S)
      OBVIOUS
    <2>2. \A c \in {"public_key", "path", "album_id", "details", "shrink guard"} :
            c \in Upgrade!Column
      BY DEF Upgrade!Column
    <2> QED
      BY <2>1, <2>2, PartsAreTyped DEF PartsTyped
  <1>6. /\ <<"password_enc">> \o Passwords \in Seq(S) /\ <<"sync result">> \o Folders \in Seq(S)
        /\ <<"hi-res">> \o Upgrade!Adds("path") \in Seq(S)
        /\ <<"drop streams">> \o Streams \in Seq(S)
        /\ <<"lifecycle">> \o Upgrade!Adds("shrink guard") \in Seq(S)
    BY <1>1, <1>5, Cons
  <1>7. ASSUME NEW T \in SUBSET Key PROVE Upgrade!SetToSeq(T) \in Seq(S)
    <2>1. Upgrade!SetToSeq(T) \in Seq(T)
      BY ListsAll
    <2> QED
      BY <1>1, <2>1, SeqMonotonic
  <1>8. /\ Upgrade!Plan("migrateFromHubSettings") \in Seq(S)
        /\ Upgrade!Plan("createSonosSettings") \in Seq(S)
    BY <1>7, Plans DEF Upgrade!migrateFromHubSettings, Upgrade!createSonosSettings
  <1> HIDE DEF S
  <1>9. /\ Upgrade!Plan("schema") \in Seq(S)
        /\ Upgrade!Plan("dropLegacyTables") \in Seq(S)
        /\ Upgrade!Plan("prunePeers") \in Seq(S)
        /\ Upgrade!Plan("seedOwner") \in Seq(S)
        /\ Upgrade!Plan("seedSyntheticInstances") \in Seq(S)
    BY <1>2, <1>5, Plans, PlanIs DEF PlanCases
  <1>10. /\ Upgrade!Plan("migrateUserPasswords") \in Seq(S)
         /\ Upgrade!Plan("ensureInstances") \in Seq(S)
         /\ Upgrade!Plan("ensureSources") \in Seq(S)
         /\ Upgrade!Plan("ensureTracks") \in Seq(S)
         /\ Upgrade!Plan("migrateTrackSources") \in Seq(S)
    BY <1>3, <1>5, <1>6, PlanIs DEF PlanCases
  <1>11. /\ Upgrade!Plan("migrateStreamOperations") \in Seq(S)
         /\ Upgrade!Plan("migrateSyncOperations") \in Seq(S)
         /\ Upgrade!Plan("migratePlaylistTracks") \in Seq(S)
         /\ Upgrade!Plan("migrateInstances") \in Seq(S)
    BY <1>4, <1>5, <1>6, PlanIs DEF PlanCases
  <1> QED
    BY <1>8, <1>9, <1>10, <1>11 DEF S, BootPhases

\* The phase and what is left in it have their types.
Progress(p, t) ==
  /\ p \in {"down", "up", "threw"} \cup BootPhases
  /\ t \in Seq(Upgrade!Statement) /\ (t # <<>> => p \in BootPhases)

\* What is on disk and in its rows has its type.
RowTypes ==
  /\ disk \subseteq Upgrade!Current \cup Upgrade!OldShape \cup {NewTable}
  /\ playlists \subseteq {"playlist_tracks", NewTable}
  /\ keyed \subseteq instances \cap Peer /\ numbered \subseteq instances
  /\ instances \subseteq Peer \cup {"local"}
  /\ owner \in {"absent", "blank", "set"}
  /\ settings \in [Key -> {None, "old", "new", "default"}]
  /\ legacy \in [Key -> {None, "old"}] /\ wanted \in [Key -> {None, "old", "new"}]
  /\ had \in BOOLEAN /\ torn \subseteq Upgrade!Statement

TypesAre == Upgrade!TypeOK <=> RowTypes /\ Progress(phase, todo)

\* The type invariant, its data apart from the progress of the boot.
LEMMA UpgradeTypes == TypesAre
  BY BootsAre DEF TypesAre, Upgrade!TypeOK, RowTypes, Progress, Upgrade!Booting, NewTable

\* So it is in the next state.
LEMMA UpgradeTypesNext == TypesAre'
  BY UpgradeTypes, PTL

\* At its beginning and at its end a function is not in the middle of a rewrite.
LEMMA NotRewriting ==
  /\ todo = <<>> => ~Copying /\ ~Dropping /\ ~Renaming
  /\ OnPlan => ~Copying /\ ~Dropping /\ ~Renaming
  <1>1. /\ <<"copy", "drop playlists", "rename">> # <<>>
        /\ <<"drop playlists", "rename">> # <<>> /\ <<"rename">> # <<>>
    OBVIOUS
  <1>2. LET f == <<"create new", "copy", "drop playlists", "rename">>
        IN  /\ <<"copy", "drop playlists", "rename">> # f
            /\ <<"drop playlists", "rename">> # f /\ <<"rename">> # f
    OBVIOUS
  <1>3. OnPlan /\ phase = "migratePlaylistTracks" =>
          todo \in {<<>>, <<"create new", "copy", "drop playlists", "rename">>}
    BY PlanIs DEF PlanCases, OnPlan
  <1> QED
    BY <1>1, <1>2, <1>3 DEF Copying, Dropping, Renaming, Rewriting

\* No rewrite is under way where nothing is left, nor where nothing is done.
Unwritten == (todo = <<>> => ~Copying /\ ~Dropping /\ ~Renaming)
         /\ (OnPlan => ~Copying /\ ~Dropping /\ ~Renaming)

\* So it is in the next state.
LEMMA NotRewritingNext == Unwritten'
  <1>1. Unwritten
    BY NotRewriting DEF Unwritten
  <1> QED
    BY <1>1, PTL

\* A function returns, and the invariant stays.
LEMMA ReturnInv ==
  ASSUME UpgradeInv, Upgrade!Return
  PROVE  UpgradeInv'
  <1> USE DEF UpgradeInv
  <1>1. /\ phase \in BootPhases /\ todo = <<>> /\ Stage \in 1 .. 16 /\ Stage' = Stage + 1
        /\ UNCHANGED <<disk, playlists, instances, keyed, numbered, owner, settings, legacy,
                       had, wanted, torn>>
    BY Returns
  <1>2. Begun
    BY <1>1, Stages DEF StagesAre, Begun
  <1>3. ~Copying /\ ~Dropping /\ ~Renaming
    BY <1>1, NotRewriting
  <1>4. ~Copying' /\ ~Dropping' /\ ~Renaming'
    <2>1. CASE Stage' = 17
      BY <2>1, Returns, NotRewritingNext DEF Unwritten
    <2>2. CASE Stage' # 17
      <3>1. OnPlan'
        BY <2>2, Returns, SamePlan DEF OnPlan
      <3> QED
        BY <3>1, NotRewritingNext DEF Unwritten
    <2> QED
      BY <2>1, <2>2
  <1>5. <<"create sources">> # <<>>
    OBVIOUS
  <1>6. Tables'
    BY <1>1, <1>2, <1>3, <1>5 DEF Tables
  <1>7. Rows'
    <2>1. phase' # "threw"
      BY <1>1, StagesNext DEF StagesAre, BootPhases
    <2> QED
      BY <1>1, <1>3, <1>4, <2>1 DEF Rows
  <1>8. Numbers'
    BY <1>1 DEF Numbers
  <1>9. Progress(phase', todo')
    <2>1. CASE Stage' = 17
      BY <2>1, Returns, StagesNext DEF StagesAre, Progress
    <2>2. CASE Stage' # 17
      <3>1. phase' \in BootPhases
        BY <1>1, <2>2, StagesNext DEF StagesAre, BootPhases
      <3> QED
        BY <2>2, <3>1, Returns, PlansTyped DEF Progress
    <2> QED
      BY <2>1, <2>2
  <1>10. RowTypes'
    BY <1>1, UpgradeTypes DEF TypesAre, RowTypes
  <1> QED
    BY <1>6, <1>7, <1>8, <1>9, <1>10, ReturnDoes, ReturnKeeps, UpgradeTypesNext DEF TypesAre

\* The stages of a boot; the missing tables are made in the first.
LEMMA BootStages ==
  /\ phase \in BootPhases <=> Stage \in 1 .. 16
  /\ phase \in BootPhases /\ phase # "schema" => Stage > 1
  <1>1. /\ Stage \in 0 .. 17
        /\ Stage = 0 <=> phase \notin BootPhases \cup {"up"}
        /\ Stage = 1 <=> phase = "schema"
        /\ Stage = 17 <=> phase = "up"
    BY Stages DEF StagesAre
  <1>2. "up" \notin BootPhases
    BY DEF BootPhases
  <1> QED
    BY <1>1, <1>2

\* The one statement that is left comes next.
LEMMA HeadOfOne ==
  ASSUME NEW c, todo = <<c>>
  PROVE  Head(todo) = c
  BY RunsOne DEF Runs

-----------------------------------------------------------------------------
(* A statement is executed: what it changes.                               *)

\* The statements that a function may come to.
LEMMA Heads ==
  ASSUME Doing, todo # <<>>, NEW s, s = Head(todo)
  PROVE  /\ phase = "schema" => s = "create missing"
         /\ phase = "dropLegacyTables" => s = "drop queue"
         /\ phase = "migrateUserPasswords" => s \in {"password_enc", "drop password_hash"}
         /\ phase = "ensureInstances" =>
              s \in {"sync result", "musicfolder_id", "number", "public_key"}
         /\ phase = "prunePeers" => s = "prune"
         /\ phase = "ensureSources" => s \in {"preferred", "prefer"}
         /\ phase = "ensureTracks" => s \in {"hi-res", "path"}
         /\ phase = "migrateTrackSources" => s \in {"drop sources", "create sources"}
         /\ phase = "migrateStreamOperations" =>
              s \in {"drop streams", "create streams", "album_id"}
         /\ phase = "migrateSyncOperations" => s = "details"
         /\ phase = "migratePlaylistTracks" =>
              s \in {"create new", "copy", "drop playlists", "rename"}
         /\ phase = "migrateInstances" => s \in {"lifecycle", "shrink guard"}
         /\ phase \in {"migrateFromHubSettings", "createSonosSettings"} => s \in Key
         /\ phase = "seedOwner" => s = "seed owner"
         /\ phase = "seedSyntheticInstances" => s = "seed local"
  <1>1. Work
    BY Works
  <1>2. \A c, rest : Runs(c, rest) => s = c
    BY DEF Runs
  <1>3. /\ todo = <<"create sources">> => s = "create sources"
        /\ Copying => s = "copy"
        /\ Dropping => s = "drop playlists"
        /\ Renaming => s = "rename"
    <2>1. /\ Head(<<"create sources">>) = "create sources"
          /\ Head(<<"copy", "drop playlists", "rename">>) = "copy"
          /\ Head(<<"drop playlists", "rename">>) = "drop playlists"
          /\ Head(<<"rename">>) = "rename"
      OBVIOUS
    <2> QED
      BY <2>1, Zenon DEF Copying, Dropping, Renaming
  <1>4. /\ phase = "schema" => s = "create missing"
        /\ phase = "dropLegacyTables" => s = "drop queue"
        /\ phase = "migrateUserPasswords" => s \in {"password_enc", "drop password_hash"}
        /\ phase = "ensureInstances" =>
             s \in {"sync result", "musicfolder_id", "number", "public_key"}
        /\ phase = "prunePeers" => s = "prune"
    BY <1>1, <1>2 DEF Work
  <1>5. /\ phase = "ensureSources" => s \in {"preferred", "prefer"}
        /\ phase = "ensureTracks" => s \in {"hi-res", "path"}
        /\ phase = "migrateTrackSources" => s \in {"drop sources", "create sources"}
        /\ phase = "migrateStreamOperations" =>
             s \in {"drop streams", "create streams", "album_id"}
    BY <1>1, <1>2, <1>3 DEF Work
  <1>6. /\ phase = "migrateSyncOperations" => s = "details"
        /\ phase = "migratePlaylistTracks" =>
             s \in {"create new", "copy", "drop playlists", "rename"}
        /\ phase = "migrateInstances" => s \in {"lifecycle", "shrink guard"}
    BY <1>1, <1>2, <1>3 DEF Work
  <1>7. /\ phase \in {"migrateFromHubSettings", "createSonosSettings"} => s \in Key
        /\ phase = "seedOwner" => s = "seed owner"
        /\ phase = "seedSyntheticInstances" => s = "seed local"
    BY <1>1, <1>2 DEF Work
  <1> QED
    BY <1>4, <1>5, <1>6, <1>7

\* What a statement changes.
LEMMA Executes ==
  ASSUME UpgradeInv, Upgrade!Execute, NEW s, s = Head(todo)
  PROVE  /\ phase \in BootPhases /\ todo # <<>> /\ todo' = Tail(todo)
         /\ phase' = phase /\ Stage' = Stage /\ Stage \in 1 .. 16
         /\ s \in Upgrade!Statement /\ todo' \in Seq(Upgrade!Statement)
         /\ s = "create new" => NewTable \notin disk
         /\ disk' = Upgrade!DiskAfter(s) /\ playlists' = Upgrade!PlaylistsAfter(s)
         /\ instances' = Upgrade!InstancesAfter(s) /\ numbered' = Upgrade!NumberedAfter(s)
         /\ settings' = Upgrade!SettingsAfter(s)
         /\ s \notin {"copy", "drop playlists", "rename"} => playlists' = playlists
         /\ s \notin {"prune", "seed local"} => instances' = instances
         /\ s \notin {"prune", "seed local", "number"} => numbered' = numbered
         /\ s # "seed owner" => owner' = owner
         /\ s \notin Key => settings' = settings
         /\ UNCHANGED <<keyed, legacy, had, wanted, torn>>
  <1>1. /\ phase \in BootPhases /\ todo # <<>> /\ todo' = Tail(todo) /\ phase' = phase
        /\ s = "create new" => NewTable \notin disk
        /\ disk' = Upgrade!DiskAfter(s) /\ playlists' = Upgrade!PlaylistsAfter(s)
        /\ instances' = Upgrade!InstancesAfter(s) /\ numbered' = Upgrade!NumberedAfter(s)
        /\ settings' = Upgrade!SettingsAfter(s)
        /\ s # "seed owner" => owner' = owner
        /\ UNCHANGED <<keyed, legacy, had, wanted, torn>>
    BY BootsAre DEF Upgrade!Execute, Upgrade!Booting, NewTable
  <1>2. Stage' = Stage /\ Stage \in 1 .. 16
    <2>1. Stage' = Stage
      BY <1>1 DEF Stage
    <2>2. Stage \in 1 .. 16
      BY <1>1, BootStages
    <2> QED
      BY <2>1, <2>2
  <1>3. numbered \subseteq instances /\ todo \in Seq(Upgrade!Statement)
    BY UpgradeTypes DEF TypesAre, UpgradeInv, RowTypes, Progress
  <1>4. s \in Upgrade!Statement /\ todo' \in Seq(Upgrade!Statement)
    BY <1>1, <1>3, HeadTailProperties
  <1>5. /\ s \notin {"copy", "drop playlists", "rename"} => playlists' = playlists
        /\ s \notin {"prune", "seed local"} => instances' = instances
        /\ s \notin Key => settings' = settings
    BY <1>1 DEF Upgrade!PlaylistsAfter, Upgrade!InstancesAfter, Upgrade!SettingsAfter
  <1>6. s \notin {"prune", "seed local", "number"} => numbered' = numbered
    BY <1>1, <1>3 DEF Upgrade!NumberedAfter, Upgrade!InstancesAfter
  <1> QED
    BY <1>1, <1>2, <1>4, <1>5, <1>6

\* A statement keeps the types.
LEMMA ExecuteTypes ==
  ASSUME UpgradeInv, Upgrade!Execute
  PROVE  Upgrade!TypeOK'
  <1> DEFINE s == Head(todo)
  <1>1. RowTypes /\ Progress(phase, todo) /\ Upgrade!TypeOK
    BY UpgradeTypes DEF TypesAre, UpgradeInv
  <1>2. Progress(phase', todo')
    BY <1>1, Executes DEF Progress
  <1>3. disk' \subseteq Upgrade!Current \cup Upgrade!OldShape \cup {NewTable}
    BY <1>1, Executes, DiskGrows
  <1>4. playlists' \subseteq {"playlist_tracks", NewTable}
    BY <1>1, Executes DEF Upgrade!PlaylistsAfter, RowTypes, NewTable
  <1>5. /\ keyed' \subseteq instances' \cap Peer
        /\ instances' \subseteq Peer \cup {"local"}
    BY <1>1, Executes DEF Upgrade!InstancesAfter, RowTypes
  <1>6. numbered' \subseteq instances'
    <2>1. numbered' = Upgrade!NumberedAfter(s) /\ instances' = Upgrade!InstancesAfter(s)
      BY Executes
    <2>2. "number" # "prune" /\ "number" # "seed local" /\ numbered \subseteq instances
      BY <1>1 DEF RowTypes
    <2> QED
      BY <2>1, <2>2 DEF Upgrade!NumberedAfter, Upgrade!InstancesAfter
  <1>7. owner' \in {"absent", "blank", "set"}
    BY <1>1 DEF Upgrade!Execute, RowTypes
  <1>8. settings' \in [Key -> {None, "old", "new", "default"}]
    <2>1. settings' = Upgrade!SettingsAfter(s)
      BY Executes
    <2> QED
      BY <1>1, <2>1 DEF Upgrade!SettingsAfter, RowTypes
  <1>9. UNCHANGED <<keyed, legacy, had, wanted, torn>>
    BY Executes
  <1> QED
    BY <1>1, <1>2, <1>3, <1>4, <1>5, <1>6, <1>7, <1>8, <1>9, UpgradeTypesNext
       DEF TypesAre, RowTypes

\* A statement undoes nothing that the functions before have ensured.
LEMMA ExecuteEnsured ==
  ASSUME UpgradeInv, Upgrade!Execute
  PROVE  Ensured'
  <1>1. Stage' = Stage /\ disk' = Upgrade!DiskAfter(Head(todo)) /\ Head(todo) \in Upgrade!Statement
    BY Executes
  <1>2. Upgrade!TypeOK /\ Ensured
    BY DEF UpgradeInv
  <1>3. /\ \A c \in Upgrade!Column : c \in disk => c \in disk'
        /\ \A x \in Upgrade!OldShape : x \in disk' => x \in disk
    BY <1>1, <1>2, DiskGrows
  <1>4. /\ \A c \in {"password_enc", "sync result", "musicfolder_id", "public_key", "preferred",
                     "hi-res", "path", "album_id", "details", "lifecycle", "shrink guard"} :
             c \in disk => c \in disk'
        /\ \A x \in {"password_hash", "user_queue", "peer imports", "old streams",
                     "playlist fk"} : x \in disk' => x \in disk
    BY <1>3 DEF Upgrade!Column, Upgrade!OldShape
  <1>5. /\ Stage > 2 => "user_queue" \notin disk'
        /\ Stage > 3 => "password_enc" \in disk' /\ "password_hash" \notin disk'
        /\ Stage > 4 => {"sync result", "musicfolder_id", "public_key"} \subseteq disk'
        /\ Stage > 6 => "preferred" \in disk'
        /\ Stage > 7 => {"hi-res", "path"} \subseteq disk'
    BY <1>2, <1>4 DEF Ensured
  <1>6. /\ Stage > 8 => "peer imports" \notin disk'
        /\ Stage > 9 => "old streams" \notin disk' /\ "album_id" \in disk'
        /\ Stage > 10 => "details" \in disk'
        /\ Stage > 11 => "playlist fk" \notin disk'
        /\ Stage > 12 => {"lifecycle", "shrink guard"} \subseteq disk'
    BY <1>2, <1>4 DEF Ensured
  <1> QED
    BY <1>1, <1>5, <1>6 DEF Ensured

\* The rest of the invariant: what is on disk and in its rows.
Contents == Tables /\ Rows /\ Numbers /\ Holders /\ Values

-----------------------------------------------------------------------------
(* A statement is executed: what is on disk and in its rows.               *)

\* Only migratePlaylistTracks rewrites.
LEMMA NotRewritingElsewhere ==
  /\ ~Rewriting => ~Copying /\ ~Dropping /\ ~Renaming
  /\ ~Rewriting' => ~Copying' /\ ~Dropping' /\ ~Renaming'
  BY DEF Copying, Dropping, Renaming

\* Columns, and statements that nothing else depends on.
LEMMA QuietContents ==
  ASSUME UpgradeInv, Upgrade!Execute, NEW s, s = Head(todo),
         s \in Upgrade!Column \cup {"drop queue", "drop password_hash", "prefer"}
  PROVE  Contents'
  <1>1. /\ phase \in BootPhases /\ todo # <<>> /\ phase' = phase /\ Stage' = Stage
        /\ UNCHANGED <<playlists, instances, numbered, owner, settings, keyed, legacy, had,
                       wanted, torn>>
    <2>1. s \notin {"copy", "drop playlists", "rename", "prune", "seed local", "number",
                    "seed owner"}
      BY DEF Upgrade!Column
    <2>2. s \notin Key
      BY ClientsAssumption DEF Upgrade!KeyAssumption, Upgrade!Deed
    <2> QED
      BY <2>1, <2>2, Executes
  <1>2. /\ disk' \subseteq disk \cup Upgrade!Column
        /\ disk \subseteq disk' \cup {"user_queue", "password_hash"}
        /\ s # "musicfolder_id" => ("musicfolder_id" \in disk' => "musicfolder_id" \in disk)
    <2>1. disk' = Upgrade!DiskAfter(s)
      BY Executes
    <2>2. CASE s \in Upgrade!Column
      <3>1. disk' = disk \cup {s}
        BY <2>1, <2>2, OnDisk
      <3> QED
        BY <2>2, <3>1
    <2>3. CASE s \in {"drop queue", "drop password_hash", "prefer"}
      <3>1. /\ s = "drop queue" => disk' = disk \ {"user_queue"}
            /\ s = "drop password_hash" => disk' = disk \ {"password_hash"}
            /\ s = "prefer" => disk' = disk
        BY <2>1, OnDisk
      <3> QED
        BY <2>3, <3>1
    <2> QED
      BY <2>2, <2>3
  <1>3. \A x \in {"track_sources", "stream_operations", "playlist_tracks", NewTable,
                  "playlist fk"} : x \in disk' <=> x \in disk
    BY <1>2 DEF Upgrade!Column, NewTable
  <1>4. phase # "schema" /\ ~Rewriting
    <2>1. s \notin {"create missing", "create new", "copy", "drop playlists", "rename"}
      BY DEF Upgrade!Column
    <2> QED
      BY <1>1, <2>1, Heads DEF UpgradeInv, Rewriting
  <1>5. Stage > 1 /\ Begun
    BY <1>1, <1>4, BootStages DEF Begun
  <1>6. s # "create sources" /\ s # "create streams" /\ s # "number"
    BY DEF Upgrade!Column
  <1>7. todo # <<"create sources">>
    BY <1>6, HeadOfOne
  <1>8. ~Copying /\ ~Dropping /\ ~Renaming /\ ~Copying' /\ ~Dropping' /\ ~Renaming'
    BY <1>1, <1>4, NotRewritingElsewhere DEF Rewriting
  <1>9. Tables'
    <2>1. "track_sources" \in disk /\ "stream_operations" \in disk /\ "playlist_tracks" \in disk
      BY <1>5, <1>6, <1>7, <1>8 DEF UpgradeInv, Tables
    <2>2. disk' # {} /\ "track_sources" \in disk' /\ "stream_operations" \in disk'
          /\ "playlist_tracks" \in disk'
      BY <1>3, <2>1
    <2> QED
      BY <2>2 DEF Tables
  <1>10. Rows'
    <2>1. Rows
      BY DEF UpgradeInv
    <2> QED
      BY <1>1, <1>3, <1>8, <2>1 DEF Rows, NewTable
  <1>11. Numbers'
    <2>1. CASE s = "musicfolder_id"
      <3>1. phase = "ensureInstances"
        <4>1. "musicfolder_id" \notin Key
          BY ClientsAssumption DEF Upgrade!KeyAssumption, Upgrade!Column
        <4>2. Doing /\ todo # <<>>
          BY <1>1 DEF UpgradeInv
        <4> QED
          BY <1>1, <2>1, <4>1, <4>2, Heads DEF BootPhases
      <3>2. Runs("musicfolder_id", <<"number">> \o Upgrade!Adds("public_key"))
        <4>1. Work /\ todo # <<>>
          BY <1>1, Works DEF UpgradeInv
        <4>2. \A c, rest : Runs(c, rest) => c = "musicfolder_id"
          BY <2>1 DEF Runs
        <4> QED
          BY <3>1, <4>1, <4>2 DEF Work
      <3>3. todo' = <<"number">> \o Upgrade!Adds("public_key")
        BY <3>2, Executes DEF Runs
      <3>4. todo' # <<>> /\ Head(todo') = "number"
        <4>1. /\ Upgrade!Adds("public_key") \in Seq(Upgrade!Statement)
              /\ "number" \in Upgrade!Statement
          BY PartsAreTyped DEF PartsTyped, Upgrade!Column, Upgrade!Statement, Upgrade!Deed
        <4> QED
          BY <3>3, <4>1, Cons
      <3> QED
        BY <1>1, <3>1, <3>4 DEF Numbers
    <2>2. CASE s # "musicfolder_id"
      BY <1>1, <1>2, <1>6, <2>2 DEF UpgradeInv, Numbers
    <2> QED
      BY <2>1, <2>2
  <1>12. Holders' /\ Values'
    <2>1. Holders /\ Values
      BY DEF UpgradeInv
    <2>2. Holders'
      BY <1>1, <2>1 DEF Holders
    <2>3. Values'
      BY <1>1, <2>1 DEF Values
    <2> QED
      BY <2>2, <2>3
  <1> QED
    BY <1>9, <1>10, <1>11, <1>12 DEF Contents

\* The missing tables.
LEMMA CreateContents ==
  ASSUME UpgradeInv, Upgrade!Execute, phase = "schema"
  PROVE  Contents' /\ disk' # {} /\ todo' = <<>>
  <1>1. Runs("create missing", <<>>)
    <2>1. todo # <<>>
      BY Executes
    <2> QED
      BY <2>1, Works DEF UpgradeInv, Work
  <1>2. Head(todo) = "create missing" /\ todo' = <<>>
    BY <1>1, Executes DEF Runs
  <1>3. /\ phase' = phase /\ Stage' = Stage /\ Stage = 1
        /\ UNCHANGED <<playlists, instances, numbered, owner, settings, keyed, legacy, had,
                       wanted, torn>>
    <2>1. "create missing" \notin Key
      BY ClientsAssumption DEF Upgrade!KeyAssumption, Upgrade!Deed
    <2> QED
      BY <1>2, <2>1, Executes, Stages DEF StagesAre
  <1>4. disk' = IF disk = {} THEN Upgrade!Current
                ELSE disk \cup Upgrade!Table
                       \cup {c \in {"album_id"} : "stream_operations" \notin disk}
    BY <1>2, Executes, OnDisk DEF Upgrade!Created
  <1>5. {"track_sources", "stream_operations", "playlist_tracks"} \subseteq disk'
    BY <1>4 DEF Upgrade!Current, Upgrade!Table
  <1>6. /\ "playlist fk" \in disk' <=> "playlist fk" \in disk
        /\ NewTable \in disk' <=> NewTable \in disk
    BY <1>4 DEF Upgrade!Current, Upgrade!Table, Upgrade!Column, NewTable
  <1>7. disk # {} => ("musicfolder_id" \in disk' => "musicfolder_id" \in disk)
    BY <1>4 DEF Upgrade!Table
  <1>8. ~Copying /\ ~Dropping /\ ~Renaming /\ ~Copying' /\ ~Dropping' /\ ~Renaming'
    BY <1>3, NotRewritingElsewhere DEF Rewriting
  <1>9. Tables'
    BY <1>5 DEF Tables
  <1>10. Rows'
    <2>1. Rows
      BY DEF UpgradeInv
    <2> QED
      BY <1>3, <1>6, <1>8, <2>1 DEF Rows
  <1>11. Numbers'
    <2>1. disk = {} => instances = {}
      BY DEF UpgradeInv, Tables
    <2> QED
      BY <1>2, <1>3, <1>7, <2>1 DEF UpgradeInv, Numbers
  <1>12. Holders' /\ Values'
    BY <1>3 DEF UpgradeInv, Holders, Values
  <1> QED
    BY <1>2, <1>5, <1>9, <1>10, <1>11, <1>12 DEF Contents

\* Statements on rows, and settings: they leave the schema as it is.
LEMMA RowsContents ==
  ASSUME UpgradeInv, Upgrade!Execute, NEW s, s = Head(todo),
         s \in {"number", "prune", "seed owner", "seed local"} \cup Key
  PROVE  Tables' /\ Rows'
  <1>1. /\ phase \in BootPhases /\ todo # <<>> /\ phase' = phase /\ Stage' = Stage
        /\ UNCHANGED <<disk, playlists, had, torn>>
    <2>1. s \notin {"copy", "drop playlists", "rename"}
      BY ClientsAssumption DEF Upgrade!KeyAssumption, Upgrade!Deed
    <2>2. disk' = disk
      BY Executes, OnDisk
    <2> QED
      BY <2>1, <2>2, Executes
  <1>2. s \notin {"create missing", "create sources", "create streams", "create new"}
    BY ClientsAssumption DEF Upgrade!KeyAssumption, Upgrade!Deed
  <1>3. phase # "schema" /\ ~Rewriting
    <2>1. s \notin {"copy", "drop playlists", "rename"}
      BY ClientsAssumption DEF Upgrade!KeyAssumption, Upgrade!Deed
    <2> QED
      BY <1>1, <1>2, <2>1, Heads DEF UpgradeInv, Rewriting
  <1>4. Stage > 1 /\ Begun
    BY <1>1, <1>3, BootStages DEF Begun
  <1>5. todo # <<"create sources">>
    BY <1>2, HeadOfOne
  <1>6. ~Copying /\ ~Dropping /\ ~Renaming /\ ~Copying' /\ ~Dropping' /\ ~Renaming'
    BY <1>1, <1>3, NotRewritingElsewhere DEF Rewriting
  <1>7. Tables'
    <2>1. "track_sources" \in disk /\ "stream_operations" \in disk /\ "playlist_tracks" \in disk
      BY <1>2, <1>4, <1>5, <1>6 DEF UpgradeInv, Tables
    <2> QED
      BY <1>1, <2>1 DEF Tables
  <1>8. Rows'
    <2>1. Rows
      BY DEF UpgradeInv
    <2> QED
      BY <1>1, <1>6, <2>1 DEF Rows
  <1> QED
    BY <1>7, <1>8

\* The stage of seedOwner is past no later one.
LEMMA OwnersStage == \A n \in 0 .. 17 : n = 14 => ~(n > 14) /\ ~(n > 15)
  OBVIOUS

\* number, prune, the seeds: the rows of instances and the owner.
LEMMA InstanceContents ==
  ASSUME UpgradeInv, Upgrade!Execute, NEW s, s = Head(todo),
         s \in {"number", "prune", "seed owner", "seed local"}
  PROVE  Contents'
  <1>1. /\ phase \in BootPhases /\ todo # <<>> /\ phase' = phase /\ Stage' = Stage
        /\ UNCHANGED <<disk, settings, keyed, legacy, had, wanted, torn>>
        /\ s # "seed owner" => owner' = owner
        /\ instances' = Upgrade!InstancesAfter(s) /\ numbered' = Upgrade!NumberedAfter(s)
    <2>1. s \notin Key
      BY ClientsAssumption DEF Upgrade!KeyAssumption, Upgrade!Deed
    <2>2. disk' = disk
      BY Executes, OnDisk
    <2> QED
      BY <2>1, <2>2, Executes
  <1>2. /\ s = "number" => phase = "ensureInstances"
        /\ s = "prune" => phase = "prunePeers"
        /\ s = "seed owner" => phase = "seedOwner"
        /\ s = "seed local" => phase = "seedSyntheticInstances"
    <2>1. s \notin Key
      BY ClientsAssumption DEF Upgrade!KeyAssumption, Upgrade!Deed
    <2> QED
      BY <1>1, <2>1, Heads DEF UpgradeInv, BootPhases
  <1>3. numbered \subseteq instances /\ keyed \subseteq instances \cap Peer
        /\ instances \subseteq Peer \cup {"local"} /\ "local" \notin Peer
    BY UpgradeTypes, ClientsAssumption
       DEF TypesAre, UpgradeInv, RowTypes, Upgrade!PeerAssumption
  <1>4. /\ s = "number" => instances' = instances /\ numbered' = instances
        /\ s = "prune" => /\ instances' = keyed \cup (instances \cap {"local"})
                          /\ numbered' = numbered \cap instances'
        /\ s = "seed owner" => instances' = instances /\ numbered' = numbered
        /\ s = "seed local" => /\ instances' = instances \cup {"local"}
                               /\ numbered' = numbered \cup {"local"}
    <2>1. CASE s = "seed owner"
      BY <1>1, <1>3, <2>1 DEF Upgrade!InstancesAfter, Upgrade!NumberedAfter
    <2>2. CASE s = "number" \/ s = "seed local"
      BY <1>1, <2>2 DEF Upgrade!InstancesAfter, Upgrade!NumberedAfter
    <2>3. CASE s = "prune"
      BY <1>1, <2>3 DEF Upgrade!InstancesAfter, Upgrade!NumberedAfter
    <2> QED
      BY <2>1, <2>2, <2>3
  <1>5. Numbers'
    <2>1. CASE s = "number"
      BY <1>1, <1>4, <2>1 DEF Numbers
    <2>2. CASE s # "number"
      BY <1>1, <1>3, <1>4, <2>2 DEF UpgradeInv, Numbers
    <2> QED
      BY <2>1, <2>2
  <1>6. /\ phase = "ensureInstances" <=> Stage = 4
        /\ phase = "prunePeers" <=> Stage = 5
        /\ phase = "seedOwner" <=> Stage = 14
        /\ phase = "seedSyntheticInstances" <=> Stage = 15
        /\ Stage \in 0 .. 17
    BY Stages DEF StagesAre
  <1>7. Holders'
    <2>1. Holders
      BY DEF UpgradeInv
    <2>2. CASE s = "number" \/ s = "prune"
      BY <1>1, <1>2, <1>4, <1>6, <2>1, <2>2 DEF Holders
    <2>3. CASE s = "seed owner"
      <3>1. Stage = 14 /\ instances' = instances
        BY <1>2, <1>4, <1>6, <2>3
      <3>2. ~(Stage > 14) /\ ~(Stage > 15)
        BY <1>6, <3>1, OwnersStage, Zenon
      <3>3. Stage > 5 => instances' \ {"local"} = keyed
        BY <2>1, <3>1 DEF Holders
      <3> QED
        BY <1>1, <3>2, <3>3 DEF Holders
    <2>4. CASE s = "seed local"
      BY <1>1, <1>2, <1>4, <1>6, <2>1, <2>4 DEF Holders
    <2> QED
      BY <2>2, <2>3, <2>4
  <1>8. Values'
    BY <1>1 DEF UpgradeInv, Values
  <1>9. Tables' /\ Rows'
    BY RowsContents
  <1> QED
    BY <1>5, <1>7, <1>8, <1>9 DEF Contents

\* A setting, copied from the settings of the hub or made with its default.
LEMMA SettingContents ==
  ASSUME UpgradeInv, Upgrade!Execute, NEW s, s = Head(todo), s \in Key
  PROVE  /\ Contents' /\ settings' = [settings EXCEPT ![s] = settings'[s]]
         /\ settings'[s] # None /\ legacy' = legacy
  <1>1. /\ phase \in BootPhases /\ todo # <<>> /\ phase' = phase /\ Stage' = Stage
        /\ UNCHANGED <<disk, instances, numbered, owner, keyed, legacy, had, wanted, torn>>
        /\ settings' = Upgrade!SettingsAfter(s)
    <2>1. s \notin {"prune", "seed local", "number", "seed owner"}
      BY ClientsAssumption DEF Upgrade!KeyAssumption, Upgrade!Deed
    <2>2. disk' = disk
      BY Executes, OnDisk
    <2> QED
      BY <2>1, <2>2, Executes
  <1>2. phase \in {"migrateFromHubSettings", "createSonosSettings"}
    <2>1. s \notin Upgrade!Column \cup Upgrade!Deed
      BY ClientsAssumption DEF Upgrade!KeyAssumption
    <2>2. Doing
      BY DEF UpgradeInv
    <2> QED
      BY <1>1, <2>1, <2>2, Heads DEF BootPhases, Upgrade!Column, Upgrade!Deed
  <1>3. /\ settings \in [Key -> {None, "old", "new", "default"}]
        /\ legacy \in [Key -> {None, "old"}] /\ None \notin {"old", "new", "default"}
    BY UpgradeTypes, ClientsAssumption
       DEF TypesAre, UpgradeInv, RowTypes, Upgrade!KeyAssumption
  <1>4. /\ settings[s] = None
        /\ phase = "migrateFromHubSettings" => legacy[s] # None
    BY <1>1, <1>2, Works DEF UpgradeInv, Work
  <1> DEFINE v == IF phase = "migrateFromHubSettings" THEN legacy[s] ELSE "default"
  <1>5. settings' = [settings EXCEPT ![s] = v]
    BY <1>1 DEF Upgrade!SettingsAfter
  <1>6. v # None
    BY <1>3, <1>4
  <1>7. Values
    BY DEF UpgradeInv
  <1>8. v = IF wanted[s] = None THEN "default" ELSE wanted[s]
    <2>1. wanted[s] = legacy[s]
      BY <1>4, <1>7 DEF Values
    <2>2. CASE phase = "migrateFromHubSettings"
      BY <1>4, <2>1, <2>2
    <2>3. CASE phase # "migrateFromHubSettings"
      <3>1. Stage > 13
        BY <1>2, <2>3, Stages DEF StagesAre
      <3> QED
        BY <1>4, <1>7, <2>1, <2>3, <3>1 DEF Values
    <2> QED
      BY <2>2, <2>3
  <1> HIDE DEF v
  <1>9. settings'[s] = v /\ \A k \in Key \ {s} : settings'[k] = settings[k]
    BY <1>3, <1>5
  <1>10. Values'
    <2>1. \A k \in Key :
            IF settings'[k] = None THEN wanted[k] = legacy[k]
            ELSE settings'[k] = IF wanted[k] = None THEN "default" ELSE wanted[k]
      BY <1>6, <1>7, <1>8, <1>9 DEF Values
    <2>2. /\ Stage > 13 => \A k \in Key : settings'[k] = None => legacy[k] = None
          /\ Stage > 16 => \A k \in Key : settings'[k] # None
      BY <1>6, <1>7, <1>9 DEF Values
    <2> QED
      BY <1>1, <2>1, <2>2 DEF Values
  <1>11. Numbers'
    <2>1. s # "number"
      BY ClientsAssumption DEF Upgrade!KeyAssumption, Upgrade!Deed
    <2> QED
      BY <1>1, <2>1 DEF UpgradeInv, Numbers
  <1>12. Holders'
    BY <1>1 DEF UpgradeInv, Holders
  <1> QED
    BY <1>1, <1>5, <1>6, <1>9, <1>10, <1>11, <1>12, RowsContents DEF Contents

\* track_sources is dropped and made again.
LEMMA SourcesContents ==
  ASSUME UpgradeInv, Upgrade!Execute, phase = "migrateTrackSources"
  PROVE  Contents'
  <1> DEFINE s == Head(todo)
  <1>1. s \in {"drop sources", "create sources"}
    BY Executes, Heads DEF UpgradeInv
  <1>2. /\ todo # <<>> /\ phase' = phase /\ Stage' = Stage /\ Stage > 1 /\ todo' = Tail(todo)
        /\ UNCHANGED <<playlists, instances, numbered, owner, settings, keyed, legacy, had,
                       wanted, torn>>
    <2>1. s \notin {"copy", "drop playlists", "rename", "prune", "seed local", "number",
                    "seed owner"}
      BY <1>1
    <2>2. s \notin Key
      BY <1>1, ClientsAssumption DEF Upgrade!KeyAssumption, Upgrade!Deed
    <2>3. Stage = 8
      BY Stages DEF StagesAre
    <2>4. Stage > 1
      BY <2>3
    <2> HIDE DEF s
    <2> QED
      BY <2>1, <2>2, <2>4, Executes DEF s
  <1>3. /\ s = "drop sources" => disk' = disk \ {"track_sources", "peer imports"}
        /\ s = "create sources" => disk' = disk \cup {"track_sources"}
    BY Executes, OnDisk
  <1>4. s = "drop sources" => todo' = <<"create sources">>
    <2>1. Work
      BY Works DEF UpgradeInv
    <2>2. todo = <<"create sources">> => s = "create sources"
      BY HeadOfOne
    <2>3. \A c, rest : Runs(c, rest) => todo' = rest
      BY <1>2 DEF Runs
    <2> QED
      BY <1>2, <2>1, <2>2, <2>3 DEF Work
  <1>5. ~Copying /\ ~Dropping /\ ~Renaming /\ ~Copying' /\ ~Dropping' /\ ~Renaming'
    BY <1>2, NotRewritingElsewhere DEF Rewriting
  <1>6. \A x \in {"stream_operations", "playlist_tracks", NewTable, "playlist fk",
                  "musicfolder_id"} : x \in disk' <=> x \in disk
    BY <1>1, <1>3 DEF NewTable
  <1>7. Tables'
    <2>1. "stream_operations" \in disk /\ "playlist_tracks" \in disk
      BY <1>2, <1>5 DEF UpgradeInv, Tables, Begun
    <2>2. "track_sources" \in disk' \/ todo' = <<"create sources">>
      BY <1>1, <1>3, <1>4
    <2>3. "stream_operations" \in disk' /\ "playlist_tracks" \in disk'
      BY <1>6, <2>1
    <2> QED
      BY <2>2, <2>3 DEF Tables
  <1>8. Rows'
    <2>1. Rows
      BY DEF UpgradeInv
    <2> QED
      BY <1>2, <1>5, <1>6, <2>1 DEF Rows
  <1>9. Numbers'
    BY <1>2, <1>6 DEF UpgradeInv, Numbers
  <1>10. Holders' /\ Values'
    <2>1. Holders'
      BY <1>2 DEF UpgradeInv, Holders
    <2>2. Values'
      BY <1>2 DEF UpgradeInv, Values
    <2> QED
      BY <2>1, <2>2
  <1> QED
    BY <1>7, <1>8, <1>9, <1>10 DEF Contents

\* stream_operations is dropped and made again.
LEMMA StreamsContents ==
  ASSUME UpgradeInv, Upgrade!Execute, phase = "migrateStreamOperations",
         Head(todo) \in {"drop streams", "create streams"}
  PROVE  Contents'
  <1> DEFINE s == Head(todo)
  <1>2. /\ todo # <<>> /\ phase' = phase /\ Stage' = Stage /\ Stage > 1 /\ todo' = Tail(todo)
        /\ UNCHANGED <<playlists, instances, numbered, owner, settings, keyed, legacy, had,
                       wanted, torn>>
    <2>1. s \notin {"copy", "drop playlists", "rename", "prune", "seed local", "number",
                    "seed owner"}
      OBVIOUS
    <2>2. s \notin Key
      BY ClientsAssumption DEF Upgrade!KeyAssumption, Upgrade!Deed
    <2>4. Stage > 1
      BY BootStages DEF BootPhases
    <2> HIDE DEF s
    <2> QED
      BY <2>1, <2>2, <2>4, Executes DEF s
  <1>3. /\ s = "drop streams" => disk' = disk \ {"stream_operations", "old streams"}
        /\ s = "create streams" => disk' = disk \cup {"stream_operations"}
    BY Executes, OnDisk
  <1>4. s = "drop streams" => todo' # <<>> /\ Head(todo') = "create streams"
    <2>1. Work
      BY Works DEF UpgradeInv
    <2>2. \A c, rest : Runs(c, rest) => s = c /\ todo' = rest
      BY <1>2 DEF Runs
    <2>3. s = "drop streams" => todo' = Streams
      <3>1. \/ todo = <<>> \/ Runs("drop streams", Streams)
            \/ Runs("create streams", Upgrade!Adds("album_id")) \/ Runs("album_id", <<>>)
        BY <2>1 DEF Work
      <3>2. /\ Runs("drop streams", Streams) => todo' = Streams
            /\ Runs("create streams", Upgrade!Adds("album_id")) => s = "create streams"
            /\ Runs("album_id", <<>>) => s = "album_id"
        BY <2>2
      <3> HIDE DEF s
      <3> QED
        BY <1>2, <3>1, <3>2
    <2>4. /\ Upgrade!Adds("album_id") \in Seq(Upgrade!Statement)
          /\ "create streams" \in Upgrade!Statement
      BY PartsAreTyped DEF PartsTyped, Upgrade!Column, Upgrade!Statement, Upgrade!Deed
    <2>5. Streams # <<>> /\ Head(Streams) = "create streams"
      <3>1. ASSUME NEW a \in Seq(Upgrade!Statement)
            PROVE  /\ <<"create streams">> \o a # <<>>
                   /\ Head(<<"create streams">> \o a) = "create streams"
        BY <2>4, Cons
      <3> QED
        BY <2>4, <3>1 DEF Streams
    <2> QED
      BY <2>3, <2>5
  <1>5. ~Copying /\ ~Dropping /\ ~Renaming /\ ~Copying' /\ ~Dropping' /\ ~Renaming'
    BY <1>2, NotRewritingElsewhere DEF Rewriting
  <1>6. \A x \in {"track_sources", "playlist_tracks", NewTable, "playlist fk",
                  "musicfolder_id"} : x \in disk' <=> x \in disk
    BY <1>3 DEF NewTable
  <1>7. Tables'
    <2>1. "track_sources" \in disk /\ "playlist_tracks" \in disk
      BY <1>2, <1>5, HeadOfOne DEF UpgradeInv, Tables, Begun
    <2>2. \/ "stream_operations" \in disk'
          \/ phase' = "migrateStreamOperations" /\ todo' # <<>> /\ Head(todo') = "create streams"
      BY <1>2, <1>3, <1>4
    <2>3. "track_sources" \in disk' /\ "playlist_tracks" \in disk'
      BY <1>6, <2>1
    <2> QED
      BY <2>2, <2>3 DEF Tables
  <1>8. Rows'
    <2>1. Rows
      BY DEF UpgradeInv
    <2> QED
      BY <1>2, <1>5, <1>6, <2>1 DEF Rows
  <1>9. Numbers'
    BY <1>2, <1>6 DEF UpgradeInv, Numbers
  <1>10. Holders' /\ Values'
    <2>1. Holders'
      BY <1>2 DEF UpgradeInv, Holders
    <2>2. Values'
      BY <1>2 DEF UpgradeInv, Values
    <2> QED
      BY <2>1, <2>2
  <1> QED
    BY <1>7, <1>8, <1>9, <1>10 DEF Contents

\* The statements of the rewrite follow one another.
RewriteSteps ==
  LET Four == <<"create new", "copy", "drop playlists", "rename">>
      Three == <<"copy", "drop playlists", "rename">>
      Two == <<"drop playlists", "rename">>
      One == <<"rename">>
  IN  /\ Three # Two /\ Three # One /\ Two # One
      /\ Three # <<>> /\ Two # <<>> /\ One # <<>>

\* The rests of the rewrite differ from one another.
LEMMA RewriteStepsDiffer == RewriteSteps
  BY DEF RewriteSteps

\* A statement of the rewrite leads to the next one.
LEMMA RewriteGoesOn ==
  ASSUME UpgradeInv, Upgrade!Execute, Rewriting, NEW s, s = Head(todo)
  PROVE  \/ /\ s = "create new" /\ "playlist fk" \in disk
            /\ ~Copying /\ ~Dropping /\ ~Renaming
            /\ Copying' /\ ~Dropping' /\ ~Renaming'
         \/ /\ s = "copy" /\ Copying /\ ~Dropping /\ ~Renaming
            /\ ~Copying' /\ Dropping' /\ ~Renaming'
         \/ /\ s = "drop playlists" /\ ~Copying /\ Dropping /\ ~Renaming
            /\ ~Copying' /\ ~Dropping' /\ Renaming'
         \/ /\ s = "rename" /\ ~Copying /\ ~Dropping /\ Renaming
            /\ ~Copying' /\ ~Dropping' /\ ~Renaming' /\ todo' = <<>>
  <1>1. /\ todo # <<>> /\ todo' = Tail(todo) /\ Rewriting'
        /\ phase = "migratePlaylistTracks"
    BY Executes DEF Rewriting
  <1>2. \A c, rest : Runs(c, rest) => s = c /\ todo' = rest
    BY <1>1 DEF Runs
  <1>3. Doing
    BY DEF UpgradeInv
  <1>4. \/ Runs("create new", <<"copy", "drop playlists", "rename">>) /\ "playlist fk" \in disk
        \/ Copying \/ Dropping \/ Renaming
    BY <1>1, <1>3, Works DEF Work
  <1>5. CASE Copying
    <2>1. todo = <<"copy", "drop playlists", "rename">>
      BY <1>5 DEF Copying
    <2>2. Runs("copy", <<"drop playlists", "rename">>)
      BY <2>1, RunsThree
    <2>3. s = "copy" /\ todo' = <<"drop playlists", "rename">>
      BY <1>2, <2>2
    <2>4. ~Dropping /\ ~Renaming /\ ~Copying' /\ Dropping' /\ ~Renaming'
      BY <1>1, <2>1, <2>3, RewriteStepsDiffer, Zenon
         DEF Copying, Dropping, Renaming, RewriteSteps
    <2> QED
      BY <1>5, <2>3, <2>4
  <1>6. CASE Dropping
    <2>1. todo = <<"drop playlists", "rename">>
      BY <1>6 DEF Dropping
    <2>2. Runs("drop playlists", <<"rename">>)
      BY <2>1, RunsTwo
    <2>3. s = "drop playlists" /\ todo' = <<"rename">>
      BY <1>2, <2>2
    <2>4. ~Copying /\ ~Renaming /\ ~Copying' /\ ~Dropping' /\ Renaming'
      BY <1>1, <2>1, <2>3, RewriteStepsDiffer, Zenon
         DEF Copying, Dropping, Renaming, RewriteSteps
    <2> QED
      BY <1>6, <2>3, <2>4
  <1>7. CASE Renaming
    <2>1. todo = <<"rename">>
      BY <1>7 DEF Renaming
    <2>2. Runs("rename", <<>>)
      BY <2>1, RunsOne
    <2>3. s = "rename" /\ todo' = <<>>
      BY <1>2, <2>2
    <2>4. ~Copying /\ ~Dropping /\ ~Copying' /\ ~Dropping' /\ ~Renaming'
      BY <1>1, <2>1, <2>3, RewriteStepsDiffer, Zenon
         DEF Copying, Dropping, Renaming, RewriteSteps
    <2> QED
      BY <1>7, <2>3, <2>4
  <1>8. CASE Runs("create new", <<"copy", "drop playlists", "rename">>) /\ "playlist fk" \in disk
    <2>1. s = "create new" /\ todo' = <<"copy", "drop playlists", "rename">>
      BY <1>2, <1>8
    <2>2. Copying' /\ ~Dropping' /\ ~Renaming'
      BY <1>1, <2>1, RewriteStepsDiffer, Zenon DEF Copying, Dropping, Renaming, RewriteSteps
    <2>3. ~Copying /\ ~Dropping /\ ~Renaming
      <3>1. /\ Copying => s = "copy"
            /\ Dropping => s = "drop playlists"
            /\ Renaming => s = "rename"
        <4>1. Copying => Runs("copy", <<"drop playlists", "rename">>)
          BY RunsThree DEF Copying
        <4>2. Dropping => Runs("drop playlists", <<"rename">>)
          BY RunsTwo DEF Dropping
        <4>3. Renaming => Runs("rename", <<>>)
          BY RunsOne DEF Renaming
        <4> QED
          BY <1>2, <4>1, <4>2, <4>3
      <3> QED
        BY <2>1, <3>1
    <2> QED
      BY <1>8, <2>1, <2>2, <2>3
  <1> QED
    BY <1>4, <1>5, <1>6, <1>7, <1>8

\* playlist_tracks is rewritten, and its rows move with it.
LEMMA PlaylistsContents ==
  ASSUME UpgradeInv, Upgrade!Execute, Rewriting
  PROVE  Contents'
  <1> DEFINE s == Head(todo)
  <1>1. \/ /\ s = "create new" /\ "playlist fk" \in disk
           /\ ~Copying /\ ~Dropping /\ ~Renaming
           /\ Copying' /\ ~Dropping' /\ ~Renaming'
        \/ /\ s = "copy" /\ Copying /\ ~Dropping /\ ~Renaming
           /\ ~Copying' /\ Dropping' /\ ~Renaming'
        \/ /\ s = "drop playlists" /\ ~Copying /\ Dropping /\ ~Renaming
           /\ ~Copying' /\ ~Dropping' /\ Renaming'
        \/ /\ s = "rename" /\ ~Copying /\ ~Dropping /\ Renaming
           /\ ~Copying' /\ ~Dropping' /\ ~Renaming' /\ todo' = <<>>
    BY RewriteGoesOn
  <1>2. /\ todo # <<>> /\ phase' = phase /\ Stage' = Stage /\ Stage > 1
        /\ phase = "migratePlaylistTracks" /\ todo' = Tail(todo)
        /\ s = "create new" => NewTable \notin disk
        /\ playlists' = Upgrade!PlaylistsAfter(s)
        /\ UNCHANGED <<instances, numbered, owner, settings, keyed, legacy, had, wanted, torn>>
    <2>1. s \notin {"prune", "seed local", "number", "seed owner"}
      BY <1>1
    <2>2. s \notin Key
      BY <1>1, ClientsAssumption DEF Upgrade!KeyAssumption, Upgrade!Deed
    <2>3. Stage > 1
      BY BootStages DEF Rewriting, BootPhases
    <2> HIDE DEF s
    <2> QED
      BY <2>1, <2>2, <2>3, Executes DEF s, Rewriting
  <1>3. /\ s = "create new" => disk' = disk \cup {NewTable} /\ playlists' = playlists
        /\ s = "copy" =>
             /\ disk' = disk
             /\ playlists' = IF "playlist_tracks" \in playlists
                             THEN playlists \cup {NewTable} ELSE playlists
        /\ s = "drop playlists" =>
             /\ disk' = disk \ {"playlist_tracks", "playlist fk"}
             /\ playlists' = playlists \ {"playlist_tracks"}
        /\ s = "rename" =>
             /\ disk' = (disk \ {NewTable}) \cup {"playlist_tracks"}
             /\ playlists' = IF NewTable \in playlists THEN {"playlist_tracks"} ELSE playlists
    <2>1. disk' = Upgrade!DiskAfter(s)
      BY Executes
    <2>2. /\ s = "create new" => disk' = disk \cup {NewTable}
          /\ s = "copy" => disk' = disk
          /\ s = "drop playlists" => disk' = disk \ {"playlist_tracks", "playlist fk"}
          /\ s = "rename" => disk' = (disk \ {NewTable}) \cup {"playlist_tracks"}
      BY <2>1, OnDisk
    <2>3. /\ Upgrade!PlaylistsAfter("create new") = playlists
          /\ Upgrade!PlaylistsAfter("copy") =
               IF "playlist_tracks" \in playlists THEN playlists \cup {NewTable} ELSE playlists
          /\ Upgrade!PlaylistsAfter("drop playlists") = playlists \ {"playlist_tracks"}
          /\ Upgrade!PlaylistsAfter("rename") =
               IF NewTable \in playlists THEN {"playlist_tracks"} ELSE playlists
      BY DEF Upgrade!PlaylistsAfter, NewTable
    <2> HIDE DEF s
    <2> QED
      BY <1>2, <2>2, <2>3
  <1>4. \A x \in {"track_sources", "stream_operations", "musicfolder_id"} :
          x \in disk' <=> x \in disk
    BY <1>1, <1>3 DEF NewTable
  <1>5. Tables /\ Rows /\ Numbers /\ Holders /\ Values
    BY DEF UpgradeInv
  <1>6. todo # <<"create sources">> /\ s # "create streams" /\ s # "number"
    BY <1>1, HeadOfOne
  <1> HIDE DEF s
  <1>7. "playlist_tracks" # NewTable /\ "playlist fk" # NewTable
    BY DEF NewTable
  <1>8. Tables'
    <2>1. "track_sources" \in disk /\ "stream_operations" \in disk
      BY <1>2, <1>5, <1>6 DEF Tables, Begun
    <2>2. "track_sources" \in disk' /\ "stream_operations" \in disk' /\ disk' # {}
      BY <1>4, <2>1
    <2>3. "playlist_tracks" \in disk' \/ (Renaming' /\ NewTable \in disk')
      <3>1. "playlist_tracks" \in disk \/ Renaming
        BY <1>2, <1>5 DEF Tables, Begun
      <3>2. Dropping => NewTable \in disk
        BY <1>5 DEF Rows
      <3> QED
        BY <1>1, <1>3, <1>7, <3>1, <3>2
    <2> QED
      BY <2>2, <2>3 DEF Tables
  <1>9. Rows'
    <2>1. phase' # "threw"
      BY <1>2
    <2>2. CASE s = "create new"
      BY <1>1, <1>2, <1>3, <1>5, <1>7, <2>1, <2>2 DEF Rows
    <2>3. CASE s = "copy"
      BY <1>1, <1>2, <1>3, <1>5, <1>7, <2>1, <2>3 DEF Rows
    <2>4. CASE s = "drop playlists"
      BY <1>1, <1>2, <1>3, <1>5, <1>7, <2>1, <2>4 DEF Rows
    <2>5. CASE s = "rename"
      BY <1>1, <1>2, <1>3, <1>5, <1>7, <2>1, <2>5 DEF Rows
    <2> QED
      BY <1>1, <2>2, <2>3, <2>4, <2>5
  <1>10. Numbers'
    BY <1>2, <1>4, <1>5, <1>6 DEF Numbers, s
  <1>11. Holders'
    BY <1>2, <1>5 DEF Holders
  <1>12. Values'
    BY <1>2, <1>5 DEF Values
  <1> QED
    BY <1>8, <1>9, <1>10, <1>11, <1>12 DEF Contents

-----------------------------------------------------------------------------
(* A statement is executed: what is left of its function.                  *)

\* What is left of a list when its first element has gone.
LEMMA ListsOn ==
  ASSUME NEW S, NEW t, Listed(S, t), t # <<>>
  PROVE  Listed(S \ {Head(t)}, Tail(t))
  <1> DEFINE u == Tail(t)
             T == S \ {Head(t)}
  <1>0. /\ t \in Seq(S)
        /\ \A i, j \in DOMAIN t : t[i] = t[j] => i = j
        /\ \A k \in S : \E i \in DOMAIN t : t[i] = k
    BY DEF Listed
  <1>1. /\ u \in Seq(S) /\ Len(u) = Len(t) - 1 /\ Len(t) \in Nat /\ Len(t) > 0
        /\ DOMAIN t = 1 .. Len(t) /\ DOMAIN u = 1 .. Len(u)
        /\ Head(t) = t[1]
    BY <1>0
  <1>a. \A i \in 1 .. Len(u) : u[i] = t[i + 1]
    BY <1>0, <1>1
  <1> HIDE DEF u
  <1>b. Len(u) \in Nat
    BY <1>1
  <1>2. \A i \in 1 .. Len(u) : u[i] \in T
    <2>1. ASSUME NEW i \in 1 .. Len(u) PROVE u[i] \in T
      <3>1. u[i] = t[i + 1]
        BY <1>a
      <3>2. 1 \in DOMAIN t /\ i + 1 # 1 /\ i + 1 \in DOMAIN t
        BY <1>1, <1>b
      <3>3. t[i + 1] # t[1]
        BY <1>0, <3>2
      <3>4. t[i + 1] \in S
        BY <1>0, <1>1, <3>2
      <3> QED
        BY <1>1, <3>1, <3>3, <3>4
    <2> QED
      BY <2>1
  <1>3. u \in Seq(T)
    <2>1. u \in [1 .. Len(u) -> S]
      BY <1>1
    <2>2. u \in [1 .. Len(u) -> T]
      BY <1>2, <2>1
    <2> QED
      BY <1>b, <2>2, SeqDef
  <1>4. \A i, j \in DOMAIN u : u[i] = u[j] => i = j
    <2>1. ASSUME NEW i \in 1 .. Len(u), NEW j \in 1 .. Len(u), u[i] = u[j]
          PROVE  i = j
      <3>1. t[i + 1] = t[j + 1] /\ i + 1 \in DOMAIN t /\ j + 1 \in DOMAIN t
        BY <1>1, <1>a, <1>b, <2>1
      <3>2. i + 1 = j + 1
        BY <1>0, <3>1
      <3> QED
        BY <3>2
    <2> QED
      BY <1>1, <2>1
  <1>5. ASSUME NEW k \in T PROVE \E i \in DOMAIN u : u[i] = k
    <2>1. PICK i \in DOMAIN t : t[i] = k
      BY <1>0
    <2>2. i # 1
      BY <1>1, <2>1
    <2>3. i - 1 \in 1 .. Len(u) /\ (i - 1) + 1 = i
      BY <1>1, <2>2
    <2>4. u[i - 1] = k
      BY <1>a, <2>1, <2>3
    <2> QED
      BY <1>1, <2>3, <2>4
  <1>6. \A k \in T : \E i \in DOMAIN u : u[i] = k
    BY <1>5
  <1> QED
    BY <1>3, <1>4, <1>6 DEF u, Listed

\* Where a function may be after one of its statements.
Resuming ==
  \/ phase = "schema" /\ todo = <<>> /\ disk # {}
  \/ phase = "dropLegacyTables" /\ todo = <<>> /\ "user_queue" \notin disk
  \/ phase = "migrateUserPasswords" /\ "password_enc" \in disk /\ todo = Passwords
  \/ phase = "ensureInstances" /\ "sync result" \in disk /\ todo = Folders
  \/ /\ phase = "ensureInstances" /\ {"sync result", "musicfolder_id"} \subseteq disk
     /\ todo = <<"number">> \o Upgrade!Adds("public_key") \/ todo = Upgrade!Adds("public_key")
  \/ phase = "prunePeers" /\ instances \ {"local"} = keyed /\ todo = <<>>
  \/ phase = "ensureSources" /\ "preferred" \in disk /\ (todo = <<"prefer">> \/ todo = <<>>)
  \/ phase = "ensureTracks" /\ "hi-res" \in disk /\ todo = Upgrade!Adds("path")
  \/ /\ phase = "migrateTrackSources" /\ "peer imports" \notin disk
     /\ todo = <<"create sources">> \/ todo = <<>>
  \/ /\ phase = "migrateStreamOperations" /\ "old streams" \notin disk
     /\ todo = Streams \/ todo = Upgrade!Adds("album_id")
  \/ phase = "migrateSyncOperations" /\ todo = Upgrade!Adds("details")
  \/ Copying \/ Dropping \/ Renaming
  \/ phase = "migratePlaylistTracks" /\ "playlist fk" \notin disk /\ todo = <<>>
  \/ phase = "migrateInstances" /\ "lifecycle" \in disk /\ todo = Upgrade!Adds("shrink guard")
  \/ /\ phase = "migrateFromHubSettings"
     /\ Lists({k \in Key : settings[k] = None /\ legacy[k] # None})
  \/ phase = "seedOwner" /\ owner = "set" /\ todo = <<>>
  \/ phase = "seedSyntheticInstances" /\ "local" \in instances /\ todo = <<>>
  \/ phase = "createSonosSettings" /\ Lists({k \in Key : settings[k] = None})

\* See Resumes.
Resumed == Resuming => Doing

\* Wherever a function resumes it is doing what is left of it.
LEMMA Resumes == Resumed
  <1> SUFFICES ASSUME Resuming PROVE Doing
    BY DEF Resumed
  <1>1. /\ Stage \in {2, 3, 5, 7, 10, 12, 14, 15} =>
             phase \in {"dropLegacyTables", "migrateUserPasswords", "prunePeers", "ensureTracks",
                        "migrateSyncOperations", "migrateInstances", "seedOwner",
                        "seedSyntheticInstances"}
        /\ Stage \in {0, 17} => phase \notin BootPhases
    BY Stages DEF StagesAre, BootPhases
  <1>2. phase \in BootPhases
    BY DEF Resuming, BootPhases, Copying, Dropping, Renaming, Rewriting
  <1>3. /\ phase = "dropLegacyTables" => OnPlan
        /\ phase = "migrateUserPasswords" => OnPlan
        /\ phase = "prunePeers" => OnPlan
        /\ phase = "ensureTracks" => OnPlan
    BY PlanIs DEF PlanCases, Resuming, OnPlan, Copying, Dropping, Renaming, Rewriting
  <1>4. /\ phase = "migrateSyncOperations" => OnPlan
        /\ phase = "migrateInstances" => OnPlan
        /\ phase = "seedOwner" => OnPlan
        /\ phase = "seedSyntheticInstances" => OnPlan
    BY PlanIs DEF PlanCases, Resuming, OnPlan, Copying, Dropping, Renaming, Rewriting
  <1>5. /\ phase = "schema" => todo = <<>> /\ disk # {}
        /\ phase = "ensureInstances" =>
             \/ OnPlan
             \/ /\ todo = <<"number">> \o Upgrade!Adds("public_key")
                /\ {"sync result", "musicfolder_id"} \subseteq disk
        /\ phase = "ensureSources" => OnPlan \/ (todo = <<"prefer">> /\ "preferred" \in disk)
    BY PlanIs DEF PlanCases, Resuming, OnPlan, Copying, Dropping, Renaming, Rewriting
  <1>6. /\ phase = "migrateTrackSources" =>
             OnPlan \/ (todo = <<"create sources">> /\ "peer imports" \notin disk)
        /\ phase = "migrateStreamOperations" =>
             \/ OnPlan
             \/ /\ todo = <<"create streams">> \o Upgrade!Adds("album_id")
                /\ "old streams" \notin disk
        /\ phase = "migratePlaylistTracks" => OnPlan \/ Copying \/ Dropping \/ Renaming
    BY PlanIs DEF PlanCases, Resuming, OnPlan, Copying, Dropping, Renaming, Rewriting, Streams
  <1>7. /\ phase = "migrateFromHubSettings" =>
             Lists({k \in Key : settings[k] = None /\ legacy[k] # None})
        /\ phase = "createSonosSettings" => Lists({k \in Key : settings[k] = None})
    BY DEF Resuming, Copying, Dropping, Renaming, Rewriting
  <1> QED
    BY <1>1, <1>2, <1>3, <1>4, <1>5, <1>6, <1>7 DEF Doing

\* So it is in the next state.
LEMMA ResumesNext == Resumed'
  BY Resumes, PTL

\* A setting is made, and is on the list no longer.
LEMMA SettingDoing ==
  ASSUME UpgradeInv, Upgrade!Execute, phase \in {"migrateFromHubSettings", "createSonosSettings"}
  PROVE  Doing'
  <1> DEFINE s == Head(todo)
  <1>1. /\ phase' = phase /\ todo # <<>> /\ todo' = Tail(todo) /\ Doing
        /\ settings \in [Key -> {None, "old", "new", "default"}]
    BY Executes, UpgradeTypes DEF UpgradeInv, TypesAre, RowTypes
  <1>2. s \in Key
    BY <1>1, Heads
  <1>3. /\ settings' = [settings EXCEPT ![s] = settings'[s]] /\ settings'[s] # None
        /\ legacy' = legacy
    BY <1>2, SettingContents
  <1> HIDE DEF s
  <1>4. \A k \in Key \ {s} : settings'[k] = settings[k]
    BY <1>1, <1>3
  <1>5. CASE phase = "migrateFromHubSettings"
    <2> DEFINE S == {k \in Key : settings[k] = None /\ legacy[k] # None}
               T == {k \in Key : settings'[k] = None /\ legacy'[k] # None}
    <2>1. T = S \ {s}
      BY <1>3, <1>4
    <2>2. Lists(S)
      BY <1>1, <1>5 DEF Doing
    <2> HIDE DEF S, T
    <2>3. Listed(S, todo)
      BY <2>2 DEF Lists, Listed
    <2>4. Listed(T, todo')
      BY <1>1, <2>1, <2>3, ListsOn DEF s
    <2>5. Resuming'
      BY <1>1, <1>5, <2>4 DEF Resuming, Lists, Listed, T
    <2> QED
      BY <2>5, ResumesNext DEF Resumed
  <1>6. CASE phase = "createSonosSettings"
    <2> DEFINE S == {k \in Key : settings[k] = None}
               T == {k \in Key : settings'[k] = None}
    <2>1. T = S \ {s}
      BY <1>3, <1>4
    <2>2. Lists(S)
      BY <1>1, <1>6 DEF Doing
    <2> HIDE DEF S, T
    <2>3. Listed(S, todo)
      BY <2>2 DEF Lists, Listed
    <2>4. Listed(T, todo')
      BY <1>1, <2>1, <2>3, ListsOn DEF s
    <2>5. Resuming'
      BY <1>1, <1>6, <2>4 DEF Resuming, Lists, Listed, T
    <2> QED
      BY <2>5, ResumesNext DEF Resumed
  <1> QED
    BY <1>5, <1>6

\* Migrations of columns and old shapes.
LEMMA ColumnDoing ==
  ASSUME UpgradeInv, Upgrade!Execute,
         phase \in {"dropLegacyTables", "migrateUserPasswords", "ensureInstances",
                    "ensureSources", "ensureTracks"}
  PROVE  Doing'
  <1> DEFINE s == Head(todo)
  <1>1. /\ phase' = phase /\ todo # <<>> /\ todo' = Tail(todo)
        /\ disk' = Upgrade!DiskAfter(s) /\ Work
    BY Executes, Works DEF UpgradeInv
  <1>2. ASSUME NEW c, NEW rest, Runs(c, rest)
        PROVE  todo' = rest /\ disk' = Upgrade!DiskAfter(c)
    BY <1>1, <1>2 DEF Runs
  <1>3. \A c \in {"password_enc", "sync result", "musicfolder_id", "public_key", "preferred",
                  "hi-res", "path"} : Upgrade!DiskAfter(c) = disk \cup {c}
    BY OnDisk DEF Upgrade!Column
  <1>4. CASE phase = "dropLegacyTables"
    <2>1. Runs("drop queue", <<>>)
      BY <1>1, <1>4 DEF Work
    <2>2. todo' = <<>> /\ disk' = disk \ {"user_queue"}
      BY <1>2, <2>1, OnDisk
    <2>3. Resuming'
      BY <1>1, <1>4, <2>2 DEF Resuming
    <2> QED
      BY <2>3, ResumesNext DEF Resumed
  <1>5. CASE phase = "migrateUserPasswords"
    <2>1. \/ Runs("password_enc", Passwords)
          \/ Runs("drop password_hash", <<>>) /\ "password_enc" \in disk
      BY <1>1, <1>5 DEF Work
    <2>2. CASE Runs("password_enc", Passwords)
      <3>1. todo' = Passwords /\ disk' = disk \cup {"password_enc"}
        BY <1>2, <1>3, <2>2
      <3>2. Passwords' = Passwords
        BY <3>1 DEF Passwords, Upgrade!If
      <3>3. Resuming'
        BY <1>1, <1>5, <3>1, <3>2 DEF Resuming
      <3> QED
        BY <3>3, ResumesNext DEF Resumed
    <2>3. CASE Runs("drop password_hash", <<>>) /\ "password_enc" \in disk
      <3>1. todo' = <<>> /\ disk' = disk \ {"password_hash"}
        BY <1>2, <2>3, OnDisk
      <3>2. Passwords' = <<>>
        BY <3>1 DEF Passwords, Upgrade!If
      <3>3. Resuming'
        BY <1>1, <1>5, <2>3, <3>1, <3>2 DEF Resuming
      <3> QED
        BY <3>3, ResumesNext DEF Resumed
    <2> QED
      BY <2>1, <2>2, <2>3
  <1>6. CASE phase = "ensureInstances"
    <2>1. \/ Runs("sync result", Folders)
          \/ /\ Runs("musicfolder_id", <<"number">> \o Upgrade!Adds("public_key"))
             /\ "sync result" \in disk
          \/ /\ Runs("number", Upgrade!Adds("public_key"))
             /\ {"sync result", "musicfolder_id"} \subseteq disk
          \/ Runs("public_key", <<>>) /\ {"sync result", "musicfolder_id"} \subseteq disk
      BY <1>1, <1>6 DEF Work
    <2>2. CASE Runs("sync result", Folders)
      <3>1. todo' = Folders /\ disk' = disk \cup {"sync result"}
        BY <1>2, <1>3, <2>2
      <3>2. Folders' = Folders
        BY <3>1 DEF Folders, Upgrade!Adds, Upgrade!If
      <3>3. Resuming'
        BY <1>1, <1>6, <3>1, <3>2 DEF Resuming
      <3> QED
        BY <3>3, ResumesNext DEF Resumed
    <2>3. CASE /\ Runs("musicfolder_id", <<"number">> \o Upgrade!Adds("public_key"))
               /\ "sync result" \in disk
      <3>1. /\ todo' = <<"number">> \o Upgrade!Adds("public_key")
            /\ disk' = disk \cup {"musicfolder_id"}
        BY <1>2, <1>3, <2>3
      <3>2. (Upgrade!Adds("public_key"))' = Upgrade!Adds("public_key")
        BY <3>1 DEF Upgrade!Adds, Upgrade!If
      <3>3. Resuming'
        BY <1>1, <1>6, <2>3, <3>1, <3>2 DEF Resuming
      <3> QED
        BY <3>3, ResumesNext DEF Resumed
    <2>4. CASE /\ Runs("number", Upgrade!Adds("public_key"))
               /\ {"sync result", "musicfolder_id"} \subseteq disk
      <3>1. todo' = Upgrade!Adds("public_key") /\ disk' = disk
        BY <1>2, <2>4, OnDisk
      <3>2. (Upgrade!Adds("public_key"))' = Upgrade!Adds("public_key")
        BY <3>1 DEF Upgrade!Adds, Upgrade!If
      <3>3. Resuming'
        BY <1>1, <1>6, <2>4, <3>1, <3>2 DEF Resuming
      <3> QED
        BY <3>3, ResumesNext DEF Resumed
    <2>5. CASE Runs("public_key", <<>>) /\ {"sync result", "musicfolder_id"} \subseteq disk
      <3>1. todo' = <<>> /\ disk' = disk \cup {"public_key"}
        BY <1>2, <1>3, <2>5
      <3>2. (Upgrade!Adds("public_key"))' = <<>>
        BY <3>1 DEF Upgrade!Adds, Upgrade!If
      <3>3. Resuming'
        BY <1>1, <1>6, <2>5, <3>1, <3>2 DEF Resuming
      <3> QED
        BY <3>3, ResumesNext DEF Resumed
    <2> QED
      BY <2>1, <2>2, <2>3, <2>4, <2>5
  <1>7. CASE phase = "ensureSources"
    <2>1. Runs("preferred", <<"prefer">>) \/ (Runs("prefer", <<>>) /\ "preferred" \in disk)
      BY <1>1, <1>7 DEF Work
    <2>2. /\ todo' = <<"prefer">> \/ todo' = <<>>
          /\ "preferred" \in disk'
      <3>1. CASE Runs("preferred", <<"prefer">>)
        <4>1. todo' = <<"prefer">> /\ disk' = Upgrade!DiskAfter("preferred")
          BY <1>2, <3>1
        <4>2. disk' = disk \cup {"preferred"}
          BY <4>1, <1>3
        <4> QED
          BY <4>1, <4>2
      <3>2. CASE Runs("prefer", <<>>) /\ "preferred" \in disk
        <4>1. todo' = <<>> /\ disk' = Upgrade!DiskAfter("prefer")
          BY <1>2, <3>2
        <4>2. disk' = disk
          BY <4>1, OnDisk
        <4> QED
          BY <3>2, <4>1, <4>2
      <3> QED
        BY <2>1, <3>1, <3>2
    <2>3. Resuming'
      BY <1>1, <1>7, <2>2 DEF Resuming
    <2> QED
      BY <2>3, ResumesNext DEF Resumed
  <1>8. CASE phase = "ensureTracks"
    <2>1. Runs("hi-res", Upgrade!Adds("path")) \/ (Runs("path", <<>>) /\ "hi-res" \in disk)
      BY <1>1, <1>8 DEF Work
    <2>2. todo' = (Upgrade!Adds("path"))' /\ "hi-res" \in disk'
      <3>1. CASE Runs("hi-res", Upgrade!Adds("path"))
        <4>1. todo' = Upgrade!Adds("path") /\ disk' = Upgrade!DiskAfter("hi-res")
          BY <1>2, <3>1
        <4>2. disk' = disk \cup {"hi-res"}
          BY <4>1, <1>3
        <4> QED
          BY <4>1, <4>2 DEF Upgrade!Adds, Upgrade!If
      <3>2. CASE Runs("path", <<>>) /\ "hi-res" \in disk
        <4>1. todo' = <<>> /\ disk' = Upgrade!DiskAfter("path")
          BY <1>2, <3>2
        <4>2. disk' = disk \cup {"path"}
          BY <4>1, <1>3
        <4> QED
          BY <3>2, <4>1, <4>2 DEF Upgrade!Adds, Upgrade!If
      <3> QED
        BY <2>1, <3>1, <3>2
    <2>3. Resuming'
      BY <1>1, <1>8, <2>2 DEF Resuming
    <2> QED
      BY <2>3, ResumesNext DEF Resumed
  <1> QED
    BY <1>4, <1>5, <1>6, <1>7, <1>8

\* Migrations of tables, and of the columns after them.
LEMMA TableDoing ==
  ASSUME UpgradeInv, Upgrade!Execute,
         phase \in {"schema", "migrateTrackSources", "migrateStreamOperations",
                    "migrateSyncOperations", "migratePlaylistTracks", "migrateInstances"}
  PROVE  Doing'
  <1> DEFINE s == Head(todo)
  <1>1. /\ phase' = phase /\ todo # <<>> /\ todo' = Tail(todo)
        /\ disk' = Upgrade!DiskAfter(s) /\ Work
    BY Executes, Works DEF UpgradeInv
  <1>2. ASSUME NEW c, NEW rest, Runs(c, rest)
        PROVE  todo' = rest /\ disk' = Upgrade!DiskAfter(c)
    BY <1>1, <1>2 DEF Runs
  <1>3. \A c \in {"album_id", "details", "lifecycle", "shrink guard"} :
          Upgrade!DiskAfter(c) = disk \cup {c}
    BY OnDisk DEF Upgrade!Column
  <1>4. CASE phase = "schema"
    <2>1. Resuming'
      BY <1>1, <1>4, CreateContents DEF Resuming
    <2> QED
      BY <2>1, ResumesNext DEF Resumed
  <1>5. CASE phase = "migrateTrackSources"
    <2>1. \/ Runs("drop sources", <<"create sources">>)
          \/ todo = <<"create sources">> /\ "peer imports" \notin disk
      BY <1>1, <1>5 DEF Work
    <2>2. todo = <<"create sources">> => Runs("create sources", <<>>)
      BY RunsOne
    <2>3. /\ todo' = <<"create sources">> \/ todo' = <<>>
          /\ "peer imports" \notin disk'
      <3>1. CASE Runs("drop sources", <<"create sources">>)
        <4>1. todo' = <<"create sources">> /\ disk' = Upgrade!DiskAfter("drop sources")
          BY <1>2, <3>1
        <4>2. disk' = disk \ {"track_sources", "peer imports"}
          BY <4>1, OnDisk
        <4> QED
          BY <4>1, <4>2
      <3>2. CASE Runs("create sources", <<>>) /\ "peer imports" \notin disk
        <4>1. todo' = <<>> /\ disk' = Upgrade!DiskAfter("create sources")
          BY <1>2, <3>2
        <4>2. disk' = disk \cup {"track_sources"}
          BY <4>1, OnDisk
        <4> QED
          BY <3>2, <4>1, <4>2
      <3> QED
        BY <2>1, <2>2, <3>1, <3>2
    <2>4. Resuming'
      BY <1>1, <1>5, <2>3 DEF Resuming
    <2> QED
      BY <2>4, ResumesNext DEF Resumed
  <1>6. CASE phase = "migrateStreamOperations"
    <2>1. \/ Runs("drop streams", Streams)
          \/ Runs("create streams", Upgrade!Adds("album_id")) /\ "old streams" \notin disk
          \/ Runs("album_id", <<>>) /\ "old streams" \notin disk
      BY <1>1, <1>6 DEF Work
    <2>2. /\ todo' = Streams' \/ todo' = (Upgrade!Adds("album_id"))'
          /\ "old streams" \notin disk'
      <3>1. CASE Runs("drop streams", Streams)
        <4>1. todo' = Streams /\ disk' = Upgrade!DiskAfter("drop streams")
          BY <1>2, <3>1
        <4>2. disk' = disk \ {"stream_operations", "old streams"}
          BY <4>1, OnDisk
        <4> QED
          BY <4>1, <4>2 DEF Streams, Upgrade!Adds, Upgrade!If
      <3>2. CASE Runs("create streams", Upgrade!Adds("album_id")) /\ "old streams" \notin disk
        <4>1. todo' = Upgrade!Adds("album_id") /\ disk' = Upgrade!DiskAfter("create streams")
          BY <1>2, <3>2
        <4>2. disk' = disk \cup {"stream_operations"}
          BY <4>1, OnDisk
        <4> QED
          BY <3>2, <4>1, <4>2 DEF Upgrade!Adds, Upgrade!If
      <3>3. CASE Runs("album_id", <<>>) /\ "old streams" \notin disk
        <4>1. todo' = <<>> /\ disk' = Upgrade!DiskAfter("album_id")
          BY <1>2, <3>3
        <4>2. disk' = disk \cup {"album_id"}
          BY <4>1, <1>3
        <4> QED
          BY <3>3, <4>1, <4>2 DEF Upgrade!Adds, Upgrade!If
      <3> QED
        BY <2>1, <3>1, <3>2, <3>3
    <2>3. Resuming'
      BY <1>1, <1>6, <2>2 DEF Resuming
    <2> QED
      BY <2>3, ResumesNext DEF Resumed
  <1>7. CASE phase = "migrateSyncOperations"
    <2>1. Runs("details", <<>>)
      BY <1>1, <1>7 DEF Work
    <2>2. todo' = (Upgrade!Adds("details"))'
      BY <1>2, <1>3, <2>1 DEF Upgrade!Adds, Upgrade!If
    <2>3. Resuming'
      BY <1>1, <1>7, <2>2 DEF Resuming
    <2> QED
      BY <2>3, ResumesNext DEF Resumed
  <1>8. CASE phase = "migratePlaylistTracks"
    <2>1. \/ Copying' \/ Dropping' \/ Renaming'
          \/ Renaming /\ s = "rename" /\ todo' = <<>>
      BY <1>8, RewriteGoesOn DEF Rewriting
    <2>2. Renaming /\ s = "rename" => "playlist fk" \notin disk'
      <3>1. Renaming => "playlist fk" \notin disk
        BY DEF UpgradeInv, Rows
      <3>2. s = "rename" => disk' = (disk \ {NewTable}) \cup {"playlist_tracks"}
        BY <1>1, OnDisk
      <3>3. "playlist_tracks" # "playlist fk"
        OBVIOUS
      <3> HIDE DEF s
      <3> QED
        BY <3>1, <3>2, <3>3
    <2>3. Resuming'
      BY <1>1, <1>8, <2>1, <2>2 DEF Resuming
    <2> QED
      BY <2>3, ResumesNext DEF Resumed
  <1>9. CASE phase = "migrateInstances"
    <2>1. \/ Runs("lifecycle", Upgrade!Adds("shrink guard"))
          \/ Runs("shrink guard", <<>>) /\ "lifecycle" \in disk
      BY <1>1, <1>9 DEF Work
    <2>2. todo' = (Upgrade!Adds("shrink guard"))' /\ "lifecycle" \in disk'
      <3>1. CASE Runs("lifecycle", Upgrade!Adds("shrink guard"))
        <4>1. todo' = Upgrade!Adds("shrink guard") /\ disk' = Upgrade!DiskAfter("lifecycle")
          BY <1>2, <3>1
        <4>2. disk' = disk \cup {"lifecycle"}
          BY <4>1, <1>3
        <4> QED
          BY <4>1, <4>2 DEF Upgrade!Adds, Upgrade!If
      <3>2. CASE Runs("shrink guard", <<>>) /\ "lifecycle" \in disk
        <4>1. todo' = <<>> /\ disk' = Upgrade!DiskAfter("shrink guard")
          BY <1>2, <3>2
        <4>2. disk' = disk \cup {"shrink guard"}
          BY <4>1, <1>3
        <4> QED
          BY <3>2, <4>1, <4>2 DEF Upgrade!Adds, Upgrade!If
      <3> QED
        BY <2>1, <3>1, <3>2
    <2>3. Resuming'
      BY <1>1, <1>9, <2>2 DEF Resuming
    <2> QED
      BY <2>3, ResumesNext DEF Resumed
  <1> QED
    BY <1>4, <1>5, <1>6, <1>7, <1>8, <1>9

\* The peers without a key go, the owner and the local instance are made.
LEMMA SeedDoing ==
  ASSUME UpgradeInv, Upgrade!Execute,
         phase \in {"prunePeers", "seedOwner", "seedSyntheticInstances"}
  PROVE  Doing'
  <1> DEFINE s == Head(todo)
  <1>1. /\ phase' = phase /\ todo # <<>> /\ todo' = Tail(todo) /\ Work /\ keyed' = keyed
        /\ instances' = Upgrade!InstancesAfter(s)
        /\ keyed \subseteq Peer /\ "local" \notin Peer
    BY Executes, Works, UpgradeTypes, ClientsAssumption
       DEF UpgradeInv, TypesAre, RowTypes, Upgrade!PeerAssumption
  <1>2. ASSUME NEW c, Runs(c, <<>>)
        PROVE  todo' = <<>> /\ s = c
    BY <1>1, <1>2 DEF Runs
  <1>3. /\ phase = "prunePeers" => todo' = <<>> /\ s = "prune"
        /\ phase = "seedOwner" => todo' = <<>> /\ s = "seed owner"
        /\ phase = "seedSyntheticInstances" => todo' = <<>> /\ s = "seed local"
    BY <1>1, <1>2 DEF Work
  <1>4. phase = "prunePeers" => instances' \ {"local"} = keyed'
    BY <1>1, <1>3 DEF Upgrade!InstancesAfter
  <1>5. phase = "seedOwner" => owner' = "set"
    BY <1>3 DEF Upgrade!Execute
  <1>6. phase = "seedSyntheticInstances" => "local" \in instances'
    BY <1>1, <1>3 DEF Upgrade!InstancesAfter
  <1>7. Resuming'
    BY <1>1, <1>3, <1>4, <1>5, <1>6 DEF Resuming
  <1> QED
    BY <1>7, ResumesNext DEF Resumed

\* A statement keeps what the invariant says of the database.
LEMMA ExecuteContents ==
  ASSUME UpgradeInv, Upgrade!Execute
  PROVE  Contents'
  <1> DEFINE s == Head(todo)
  <1>1. phase \in BootPhases /\ todo # <<>> /\ Doing
    BY Executes DEF UpgradeInv
  <1>2. CASE phase = "schema"
    BY <1>2, CreateContents
  <1>3. CASE phase = "migrateTrackSources"
    BY <1>3, SourcesContents
  <1>4. CASE phase = "migratePlaylistTracks"
    BY <1>4, PlaylistsContents DEF Rewriting
  <1>5. CASE phase \in {"migrateFromHubSettings", "createSonosSettings"}
    <2>1. s \in Key
      BY <1>1, <1>5, Heads
    <2> QED
      BY <2>1, SettingContents
  <1>6. CASE phase = "migrateStreamOperations"
    <2>1. s \in {"drop streams", "create streams"} \/ s = "album_id"
      BY <1>1, <1>6, Heads
    <2>2. CASE s \in {"drop streams", "create streams"}
      BY <1>6, <2>2, StreamsContents
    <2>3. CASE s = "album_id"
      BY <2>3, QuietContents DEF Upgrade!Column
    <2> QED
      BY <2>1, <2>2, <2>3
  <1>7. CASE phase \in {"ensureInstances", "prunePeers", "seedOwner", "seedSyntheticInstances"}
    <2>1. \/ s \in {"sync result", "musicfolder_id", "public_key"}
          \/ s \in {"number", "prune", "seed owner", "seed local"}
      BY <1>1, <1>7, Heads
    <2>2. CASE s \in {"sync result", "musicfolder_id", "public_key"}
      BY <2>2, QuietContents DEF Upgrade!Column
    <2>3. CASE s \in {"number", "prune", "seed owner", "seed local"}
      BY <2>3, InstanceContents
    <2> QED
      BY <2>1, <2>2, <2>3
  <1>8. CASE phase \in {"dropLegacyTables", "migrateUserPasswords", "ensureSources",
                        "ensureTracks", "migrateSyncOperations", "migrateInstances"}
    <2>1. s \in Upgrade!Column \cup {"drop queue", "drop password_hash", "prefer"}
      BY <1>1, <1>8, Heads DEF Upgrade!Column
    <2> QED
      BY <2>1, QuietContents
  <1> QED
    BY <1>1, <1>2, <1>3, <1>4, <1>5, <1>6, <1>7, <1>8 DEF BootPhases

\* A statement is executed, and the invariant stays.
LEMMA ExecuteInv ==
  ASSUME UpgradeInv, Upgrade!Execute
  PROVE  UpgradeInv'
  <1>1. phase \in BootPhases
    BY Executes
  <1>2. Doing'
    BY <1>1, SettingDoing, ColumnDoing, TableDoing, SeedDoing DEF BootPhases
  <1> QED
    BY <1>2, ExecuteTypes, ExecuteEnsured, ExecuteContents DEF UpgradeInv, Contents

-----------------------------------------------------------------------------
(* Boots, crashes, and a hub that is up.                                   *)

\* Outside of a boot nothing is left to do; a boot begins with schema.sql.
Rested == /\ Stage \in {0, 17} /\ todo = <<>> => Doing
          /\ phase = "schema" /\ todo = <<"create missing">> => Doing

\* A hub at rest, and a boot that begins, are on their plan.
LEMMA Rests == Rested
  <1>1. Stage \in {0, 17} => phase \notin BootPhases
    BY Stages DEF StagesAre, BootPhases
  <1>2. phase = "schema" => Stage = 1
    BY Stages DEF StagesAre
  <1>3. ASSUME Stage \in {0, 17}, todo = <<>> PROVE Doing
    <2>1. phase \notin BootPhases /\ Stage \notin {2, 3, 5, 7, 10, 12, 14, 15}
      BY <1>1, <1>3
    <2> QED
      BY <1>3, <2>1 DEF Doing, BootPhases
  <1>4. ASSUME phase = "schema", todo = <<"create missing">> PROVE Doing
    <2>1. Stage \notin {0, 2, 3, 5, 7, 10, 12, 14, 15, 17}
      BY <1>4, Stages DEF StagesAre, BootPhases
    <2> QED
      BY <1>4, <2>1 DEF Doing
  <1> QED
    BY <1>3, <1>4 DEF Rested

\* So they are in the next state.
LEMMA RestsNext == Rested'
  BY Rests, PTL

\* Between boots no function has ensured anything yet.
NothingYet == Stage \in {0, 1} => Ensured

\* Before the second function nothing needs to be ensured.
LEMMA NothingEnsured == NothingYet
  <1> SUFFICES ASSUME Stage \in {0, 1} PROVE Ensured
    BY DEF NothingYet
  <1>1. /\ ~(Stage > 2) /\ ~(Stage > 3) /\ ~(Stage > 4) /\ ~(Stage > 6) /\ ~(Stage > 7)
        /\ ~(Stage > 8) /\ ~(Stage > 9) /\ ~(Stage > 10) /\ ~(Stage > 11) /\ ~(Stage > 12)
    OBVIOUS
  <1> QED
    BY <1>1 DEF Ensured

\* So it is in the next state.
LEMMA NothingEnsuredNext == NothingYet'
  BY NothingEnsured, PTL

\* A boot begins, is thrown out of playlist_tracks, or ends with the process.
LEMMA BootInv ==
  ASSUME UpgradeInv, Upgrade!Boot
  PROVE  UpgradeInv'
  <1>1. /\ phase \in {"down", "threw"} /\ phase' = "schema" /\ todo' = <<"create missing">>
        /\ UNCHANGED <<disk, playlists, instances, keyed, numbered, owner, settings, legacy,
                       had, wanted, torn>>
    BY Plans DEF Upgrade!Boot, Upgrade!Functions
  <1>2. Stage' = 1 /\ phase \notin BootPhases
    BY <1>1, StagesNext DEF StagesAre, BootPhases
  <1>3. Doing' /\ Ensured'
    BY <1>1, <1>2, RestsNext, NothingEnsuredNext DEF Rested, NothingYet
  <1>4. todo' # <<>> /\ todo' \in Seq(Upgrade!Statement)
    <2>1. "create missing" \in Upgrade!Statement
      BY DEF Upgrade!Statement, Upgrade!Deed
    <2> QED
      BY <1>1, <2>1, OneTyped
  <1>5. ~Copying /\ ~Dropping /\ ~Renaming /\ ~Copying' /\ ~Dropping' /\ ~Renaming'
    BY <1>1, NotRewritingElsewhere DEF Rewriting
  <1>6. Tables'
    <2>1. ~Begun'
      BY <1>2, <1>4 DEF Begun
    <2> QED
      BY <1>1, <2>1 DEF UpgradeInv, Tables
  <1>7. Rows'
    <2>1. Rows
      BY DEF UpgradeInv
    <2> QED
      BY <1>1, <1>5, <2>1 DEF Rows
  <1>8. Numbers'
    BY <1>1 DEF UpgradeInv, Numbers
  <1>9. Holders' /\ Values'
    <2>1. ~(Stage' > 5) /\ ~(Stage' > 14) /\ ~(Stage' > 15) /\ ~(Stage' > 13) /\ ~(Stage' > 16)
      BY <1>2
    <2>2. Values
      BY DEF UpgradeInv
    <2> QED
      BY <1>1, <2>1, <2>2 DEF Holders, Values
  <1>10. Upgrade!TypeOK'
    <2>1. RowTypes /\ Progress(phase, todo)
      BY UpgradeTypes DEF UpgradeInv, TypesAre
    <2>2. RowTypes'
      BY <1>1, <2>1 DEF RowTypes
    <2>3. Progress(phase', todo')
      BY <1>1, <1>4 DEF Progress, BootPhases
    <2> QED
      BY <2>2, <2>3, UpgradeTypesNext DEF TypesAre
  <1> QED
    BY <1>3, <1>6, <1>7, <1>8, <1>9, <1>10 DEF UpgradeInv

\* A boot throws only where a crash has left the copy of playlist_tracks.
LEMMA ThrowInv ==
  ASSUME UpgradeInv, Upgrade!Throw
  PROVE  UpgradeInv'
  <1> DEFINE s == Head(todo)
  <1>1. /\ phase \in BootPhases /\ todo # <<>> /\ s = "create new" /\ NewTable \in disk
        /\ phase' = "threw" /\ todo' = <<>>
        /\ UNCHANGED <<disk, playlists, instances, keyed, numbered, owner, settings, legacy,
                       had, wanted, torn>>
    BY BootsAre DEF Upgrade!Throw, Upgrade!Booting, NewTable
  <1>2. Stage' = 0
    BY <1>1, StagesNext DEF StagesAre, BootPhases
  <1>3. Doing' /\ Ensured'
    BY <1>1, <1>2, RestsNext, NothingEnsuredNext DEF Rested, NothingYet
  <1>4. phase = "migratePlaylistTracks"
    <2>1. s \notin Key
      BY <1>1, ClientsAssumption DEF Upgrade!KeyAssumption, Upgrade!Deed
    <2>2. Doing
      BY DEF UpgradeInv
    <2> QED
      BY <1>1, <2>1, <2>2, Heads DEF BootPhases
  <1>5. ~Copying /\ ~Dropping /\ ~Renaming /\ "playlist fk" \in disk
    <2>1. Copying => s = "copy"
      <3>1. Copying => Runs("copy", <<"drop playlists", "rename">>)
        BY RunsThree DEF Copying
      <3> QED
        BY <3>1 DEF Runs
    <2>2. Dropping => s = "drop playlists"
      <3>1. Dropping => Runs("drop playlists", <<"rename">>)
        BY RunsTwo DEF Dropping
      <3> QED
        BY <3>1 DEF Runs
    <2>3. Renaming => s = "rename"
      BY HeadOfOne DEF Renaming
    <2>4. Work
      BY Works DEF UpgradeInv
    <2>5. ~Copying /\ ~Dropping /\ ~Renaming
      BY <1>1, <2>1, <2>2, <2>3
    <2> QED
      BY <1>1, <1>4, <2>4, <2>5 DEF Work
  <1>6. ~Copying' /\ ~Dropping' /\ ~Renaming'
    BY <1>1, NotRewritingElsewhere DEF Rewriting
  <1> HIDE DEF s
  <1>7. Tables'
    <2>1. ~(Stage' > 1)
      BY <1>2
    <2>2. ~Begun'
      BY <1>1, <2>1 DEF Begun
    <2> QED
      BY <1>1, <2>2 DEF UpgradeInv, Tables
  <1>8. Rows'
    <2>1. Rows
      BY DEF UpgradeInv
    <2>2. torn \cap {"copy", "drop playlists"} # {}
      BY <1>1, <1>5, <2>1 DEF Rows
    <2> QED
      BY <1>1, <1>5, <1>6, <2>1, <2>2 DEF Rows
  <1>9. Numbers'
    BY <1>1, <1>4 DEF UpgradeInv, Numbers
  <1>10. Holders' /\ Values'
    <2>1. ~(Stage' > 5) /\ ~(Stage' > 14) /\ ~(Stage' > 15) /\ ~(Stage' > 13) /\ ~(Stage' > 16)
      BY <1>2
    <2>2. Values
      BY DEF UpgradeInv
    <2> QED
      BY <1>1, <2>1, <2>2 DEF Holders, Values
  <1>11. Upgrade!TypeOK'
    <2>1. RowTypes /\ Progress(phase, todo)
      BY UpgradeTypes DEF UpgradeInv, TypesAre
    <2>2. RowTypes'
      BY <1>1, <2>1 DEF RowTypes
    <2>3. Progress(phase', todo')
      <3>1. <<>> \in Seq(Upgrade!Statement)
        OBVIOUS
      <3> QED
        BY <1>1, <3>1 DEF Progress
    <2> QED
      BY <2>2, <2>3, UpgradeTypesNext DEF TypesAre
  <1> QED
    BY <1>3, <1>7, <1>8, <1>9, <1>10, <1>11 DEF UpgradeInv

\* A crash tears the statement that was next and nothing else.
LEMMA CrashInv ==
  ASSUME UpgradeInv, Upgrade!Crash
  PROVE  UpgradeInv'
  <1>1. /\ phase' = "down" /\ todo' = <<>>
        /\ torn' = IF todo = <<>> THEN torn ELSE torn \cup {Head(todo)}
        /\ UNCHANGED <<disk, playlists, instances, keyed, numbered, owner, settings, legacy,
                       had, wanted>>
        /\ phase # "threw"
    BY BootsAre DEF Upgrade!Crash, Upgrade!Booting, BootPhases
  <1>2. Stage' = 0
    BY <1>1, StagesNext DEF StagesAre, BootPhases
  <1>3. Doing' /\ Ensured'
    BY <1>1, <1>2, RestsNext, NothingEnsuredNext DEF Rested, NothingYet
  <1>4. RowTypes /\ Progress(phase, todo)
    BY UpgradeTypes DEF UpgradeInv, TypesAre
  <1>5. /\ Copying => "copy" \in torn'
        /\ Dropping => "drop playlists" \in torn'
        /\ Renaming => "rename" \in torn'
    <2>1. Copying => Runs("copy", <<"drop playlists", "rename">>)
      BY RunsThree DEF Copying
    <2>2. Dropping => Runs("drop playlists", <<"rename">>)
      BY RunsTwo DEF Dropping
    <2>3. Renaming => Runs("rename", <<>>)
      BY RunsOne DEF Renaming
    <2> QED
      BY <1>1, <2>1, <2>2, <2>3 DEF Runs
  <1>6. ~Copying' /\ ~Dropping' /\ ~Renaming'
    BY <1>1, NotRewritingElsewhere DEF Rewriting
  <1>7. torn \subseteq torn' /\ torn' \subseteq Upgrade!Statement
    <2>1. todo # <<>> => Head(todo) \in Upgrade!Statement
      BY <1>4, HeadTailProperties DEF Progress
    <2>2. torn \subseteq Upgrade!Statement
      BY <1>4 DEF RowTypes
    <2> QED
      BY <1>1, <2>1, <2>2
  <1>8. Tables'
    <2>1. ~Begun'
      BY <1>1, <1>2 DEF Begun
    <2> QED
      BY <1>1, <2>1 DEF UpgradeInv, Tables
  <1>9. Rows'
    <2>1. Rows
      BY DEF UpgradeInv
    <2> QED
      BY <1>1, <1>5, <1>6, <1>7, <2>1 DEF Rows
  <1>10. Numbers'
    BY <1>1, <1>7 DEF UpgradeInv, Numbers
  <1>11. Holders' /\ Values'
    <2>1. ~(Stage' > 5) /\ ~(Stage' > 14) /\ ~(Stage' > 15) /\ ~(Stage' > 13) /\ ~(Stage' > 16)
      BY <1>2
    <2>2. Values
      BY DEF UpgradeInv
    <2> QED
      BY <1>1, <2>1, <2>2 DEF Holders, Values
  <1>12. Upgrade!TypeOK'
    <2>1. RowTypes'
      BY <1>1, <1>4, <1>7 DEF RowTypes, Upgrade!Statement
    <2>2. Progress(phase', todo')
      BY <1>1 DEF Progress
    <2> QED
      BY <2>1, <2>2, UpgradeTypesNext DEF TypesAre
  <1> QED
    BY <1>3, <1>8, <1>9, <1>10, <1>11, <1>12 DEF UpgradeInv

\* What the hub does when it is up.
UpStages == phase = "up" => Stage = 17 /\ phase \notin BootPhases /\ ~Rewriting

\* The last stage is the hub that is up.
LEMMA UpIsLast == UpStages
  BY Stages DEF UpStages, StagesAre, BootPhases, Rewriting

\* The owner sets a setting of a hub that is up.
LEMMA SettingInv ==
  ASSUME UpgradeInv, NEW k \in Key, Upgrade!SetSetting(k)
  PROVE  UpgradeInv'
  <1>1. /\ phase = "up" /\ phase' = phase /\ todo' = todo
        /\ settings' = [settings EXCEPT ![k] = "new"] /\ wanted' = [wanted EXCEPT ![k] = "new"]
        /\ UNCHANGED <<disk, playlists, instances, keyed, numbered, owner, legacy, had, torn>>
    BY DEF Upgrade!SetSetting
  <1>2. Stage = 17 /\ Stage' = Stage /\ phase \notin BootPhases
    BY <1>1, UpIsLast DEF Stage, UpStages
  <1>3. RowTypes /\ Progress(phase, todo)
    BY UpgradeTypes DEF UpgradeInv, TypesAre
  <1>4. todo = <<>>
    BY <1>2, <1>3 DEF Progress
  <1>5. Doing'
    BY <1>1, <1>2, <1>4, RestsNext DEF Rested
  <1>6. /\ settings'[k] = "new" /\ wanted'[k] = "new" /\ "new" # None
        /\ \A j \in Key \ {k} : settings'[j] = settings[j] /\ wanted'[j] = wanted[j]
    BY <1>1, <1>3, ClientsAssumption DEF RowTypes, Upgrade!KeyAssumption
  <1>7. Values'
    <2>1. Values
      BY DEF UpgradeInv
    <2>2. \A j \in Key : settings[j] # None
      <3>1. Stage > 16
        BY <1>2
      <3> QED
        BY <2>1, <3>1 DEF Values
    <2>3. \A j \in Key : settings'[j] # None
      BY <1>6, <2>2
    <2>4. \A j \in Key :
            settings'[j] = IF wanted'[j] = None THEN "default" ELSE wanted'[j]
      BY <1>6, <2>1, <2>2 DEF Values
    <2> QED
      BY <2>3, <2>4 DEF Values
  <1>8. ~Copying /\ ~Dropping /\ ~Renaming /\ ~Copying' /\ ~Dropping' /\ ~Renaming'
    BY <1>1, NotRewritingElsewhere DEF Rewriting
  <1>9. Ensured' /\ Tables' /\ Rows'
    <2>1. Ensured'
      BY <1>1, <1>2 DEF UpgradeInv, Ensured
    <2>2. Tables'
      BY <1>1, <1>2, <1>8 DEF UpgradeInv, Tables, Begun
    <2>3. Rows'
      BY <1>1, <1>8 DEF UpgradeInv, Rows
    <2> QED
      BY <2>1, <2>2, <2>3
  <1>10. Numbers' /\ Holders'
    BY <1>1, <1>2 DEF UpgradeInv, Numbers, Holders
  <1>11. Upgrade!TypeOK'
    <2>1. RowTypes'
      BY <1>1, <1>3 DEF RowTypes
    <2>2. Progress(phase', todo')
      BY <1>1, <1>3
    <2> QED
      BY <2>1, <2>2, UpgradeTypesNext DEF TypesAre
  <1> QED
    BY <1>5, <1>7, <1>9, <1>10, <1>11 DEF UpgradeInv

\* A handshake stores a peer with its key and its number.
LEMMA AdmitInv ==
  ASSUME UpgradeInv, NEW p \in Peer, Upgrade!Admit(p)
  PROVE  UpgradeInv'
  <1>1. /\ phase = "up" /\ phase' = phase /\ todo' = todo
        /\ instances' = instances \cup {p} /\ keyed' = keyed \cup {p}
        /\ numbered' = numbered \cup {p}
        /\ UNCHANGED <<disk, playlists, owner, settings, legacy, had, wanted, torn>>
    BY DEF Upgrade!Admit
  <1>2. Stage = 17 /\ Stage' = Stage /\ phase \notin BootPhases
    BY <1>1, UpIsLast DEF Stage, UpStages
  <1>3. RowTypes /\ Progress(phase, todo)
    BY UpgradeTypes DEF UpgradeInv, TypesAre
  <1>4. todo = <<>>
    BY <1>2, <1>3 DEF Progress
  <1>5. Doing'
    BY <1>1, <1>2, <1>4, RestsNext DEF Rested
  <1>6. ~Copying /\ ~Dropping /\ ~Renaming /\ ~Copying' /\ ~Dropping' /\ ~Renaming'
    BY <1>1, NotRewritingElsewhere DEF Rewriting
  <1>7. Tables'
    <2>1. Begun
      BY <1>2 DEF Begun
    <2>2. <<"create sources">> # <<>>
      OBVIOUS
    <2>3. /\ "track_sources" \in disk /\ "stream_operations" \in disk
          /\ "playlist_tracks" \in disk
      BY <1>4, <1>6, <2>1, <2>2 DEF UpgradeInv, Tables
    <2> QED
      BY <1>1, <2>3 DEF Tables
  <1>8. Ensured' /\ Rows' /\ Values'
    <2>1. Ensured'
      BY <1>1, <1>2 DEF UpgradeInv, Ensured
    <2>2. Rows'
      BY <1>1, <1>6 DEF UpgradeInv, Rows
    <2>3. Values'
      BY <1>1, <1>2 DEF UpgradeInv, Values
    <2> QED
      BY <2>1, <2>2, <2>3
  <1>9. Numbers'
    BY <1>1 DEF UpgradeInv, Numbers
  <1>10. Holders'
    <2>1. p # "local"
      BY ClientsAssumption DEF Upgrade!PeerAssumption
    <2> QED
      BY <1>1, <1>2, <2>1 DEF UpgradeInv, Holders
  <1>11. Upgrade!TypeOK'
    <2>1. RowTypes'
      BY <1>1, <1>3 DEF RowTypes
    <2>2. Progress(phase', todo')
      BY <1>1, <1>3
    <2> QED
      BY <2>1, <2>2, UpgradeTypesNext DEF TypesAre
  <1> QED
    BY <1>5, <1>7, <1>8, <1>9, <1>10, <1>11 DEF UpgradeInv

\* The boots rest while another part of Clients runs.
LEMMA UpgradeRests ==
  ASSUME UpgradeInv, UNCHANGED upgrade
  PROVE  UpgradeInv'
  <1>1. UNCHANGED <<disk, playlists, instances, keyed, numbered, owner, settings, legacy, phase,
                    todo, had, wanted, torn>>
    BY DEF upgrade
  <1>2. /\ Stage' = Stage /\ Rewriting' = Rewriting /\ Copying' = Copying
        /\ Dropping' = Dropping /\ Renaming' = Renaming /\ Begun' = Begun
    BY <1>1 DEF Stage, Rewriting, Copying, Dropping, Renaming, Begun
  <1>3. OnPlan' = OnPlan
    <2>1. (Upgrade!Plan(phase))' = Upgrade!Plan(phase)
      BY <1>1, SamePlan
    <2> QED
      BY <1>1, <2>1 DEF OnPlan
  <1>4. Doing'
    <2>1. /\ (Upgrade!Adds("public_key"))' = Upgrade!Adds("public_key")
          /\ (Upgrade!Adds("album_id"))' = Upgrade!Adds("album_id")
      BY <1>1 DEF Upgrade!Adds, Upgrade!If
    <2>2. Doing
      BY DEF UpgradeInv
    <2>3. /\ (phase = "schema" =>
                todo = <<"create missing">> \/ (todo = <<>> /\ disk # {}))'
          /\ (phase = "ensureInstances" =>
                \/ OnPlan
                \/ /\ todo = <<"number">> \o Upgrade!Adds("public_key")
                   /\ {"sync result", "musicfolder_id"} \subseteq disk)'
          /\ (phase = "ensureSources" =>
                OnPlan \/ (todo = <<"prefer">> /\ "preferred" \in disk))'
      BY <1>1, <1>2, <1>3, <2>1, <2>2 DEF Doing
    <2>4. /\ (phase = "migrateTrackSources" =>
                OnPlan \/ (todo = <<"create sources">> /\ "peer imports" \notin disk))'
          /\ (phase = "migrateStreamOperations" =>
                \/ OnPlan
                \/ /\ todo = <<"create streams">> \o Upgrade!Adds("album_id")
                   /\ "old streams" \notin disk)'
          /\ (phase = "migratePlaylistTracks" => OnPlan \/ Copying \/ Dropping \/ Renaming)'
          /\ (Stage \in {2, 3, 5, 7, 10, 12, 14, 15} => OnPlan)'
          /\ (Stage \in {0, 17} => todo = <<>>)'
      BY <1>1, <1>2, <1>3, <2>1, <2>2 DEF Doing
    <2>5. /\ (phase = "migrateFromHubSettings" =>
                Lists({k \in Key : settings[k] = None /\ legacy[k] # None}))'
          /\ (phase = "createSonosSettings" => Lists({k \in Key : settings[k] = None}))'
      <3>1. /\ phase = "migrateFromHubSettings" =>
                 Lists({k \in Key : settings[k] = None /\ legacy[k] # None})
            /\ phase = "createSonosSettings" => Lists({k \in Key : settings[k] = None})
        BY <2>2 DEF Doing
      <3> QED
        BY <1>1, <3>1 DEF Lists, Listed
    <2> QED
      BY <2>3, <2>4, <2>5 DEF Doing
  <1>5. Ensured' /\ Tables' /\ Rows'
    <2>1. Ensured'
      BY <1>1, <1>2 DEF UpgradeInv, Ensured
    <2>2. Tables'
      BY <1>1, <1>2 DEF UpgradeInv, Tables
    <2>3. Rows'
      BY <1>1, <1>2 DEF UpgradeInv, Rows
    <2> QED
      BY <2>1, <2>2, <2>3
  <1>6. Numbers' /\ Holders' /\ Values'
    BY <1>1, <1>2 DEF UpgradeInv, Numbers, Holders, Values
  <1>7. Upgrade!TypeOK'
    BY <1>1, UpgradeTypes, UpgradeTypesNext DEF UpgradeInv, TypesAre, RowTypes, Progress
  <1> QED
    BY <1>4, <1>5, <1>6, <1>7 DEF UpgradeInv

\* Old databases and fresh ones satisfy the invariant.
LEMMA UpgradeStart == Upgrade!Init => UpgradeInv
  <1> SUFFICES ASSUME Upgrade!Init PROVE UpgradeInv
    OBVIOUS
  <1>1. /\ disk \in Origins /\ phase = "down" /\ todo = <<>> /\ torn = {}
        /\ playlists \in IF disk = {} THEN {{}} ELSE {{}, {"playlist_tracks"}}
        /\ instances \in IF disk = {} THEN {{}} ELSE {{"local"} \cup P : P \in SUBSET Peer}
        /\ keyed = IF "public_key" \in disk THEN instances \ {"local"} ELSE {}
        /\ numbered = IF "musicfolder_id" \in disk THEN instances ELSE {}
        /\ owner = IF disk = {} THEN "absent"
                   ELSE IF "password_enc" \in disk THEN "set" ELSE "blank"
        /\ legacy \in [Key -> IF disk = {} THEN {None} ELSE {None, "old"}]
        /\ settings = [k \in Key |-> None]
        /\ had = (playlists # {}) /\ wanted = legacy
    BY DEF Upgrade!Init
  <1>2. Stage = 0
    BY <1>1, Stages DEF StagesAre, BootPhases
  <1>3. Doing /\ Ensured
    BY <1>1, <1>2, Rests, NothingEnsured DEF Rested, NothingYet
  <1>4. ~Copying /\ ~Dropping /\ ~Renaming
    BY <1>1, NotRewriting
  <1>5. /\ disk # {} => "playlist_tracks" \in disk
        /\ disk \subseteq Upgrade!Current \cup Upgrade!OldShape /\ NewTable \notin disk
    <2>1. /\ disk # {} => /\ disk \subseteq Upgrade!Current \cup Upgrade!OldShape
                          /\ Upgrade!Table \subseteq disk
      BY <1>1, ClientsAssumption DEF Upgrade!OriginsAssumption
    <2> QED
      BY <2>1 DEF Upgrade!Current, Upgrade!Column, Upgrade!Table, Upgrade!OldShape, NewTable
  <1>6. Tables
    <2>1. ~Begun
      BY <1>1, <1>2 DEF Begun
    <2>2. disk = {} => instances = {}
      BY <1>1
    <2> QED
      BY <1>5, <2>1, <2>2 DEF Tables
  <1>7. Rows
    <2>1. playlists \in {{}, {"playlist_tracks"}} /\ phase # "threw"
      BY <1>1
    <2> QED
      BY <1>1, <1>4, <1>5, <2>1 DEF Rows, NewTable
  <1>8. Numbers
    BY <1>1 DEF Numbers
  <1>9. Holders
    BY <1>2 DEF Holders
  <1>10. Values
    <2>1. ~(Stage > 13) /\ ~(Stage > 16)
      BY <1>2
    <2> QED
      BY <1>1, <2>1 DEF Values
  <1>11. Upgrade!TypeOK
    <2>1. instances \subseteq Peer \cup {"local"}
      BY <1>1
    <2>2. keyed \subseteq instances \cap Peer /\ numbered \subseteq instances
      BY <1>1, <2>1
    <2>3. /\ legacy \in [Key -> {None, "old"}] /\ wanted \in [Key -> {None, "old", "new"}]
          /\ settings \in [Key -> {None, "old", "new", "default"}]
      BY <1>1
    <2>4. RowTypes
      BY <1>1, <1>5, <2>1, <2>2, <2>3 DEF RowTypes
    <2>5. Progress(phase, todo)
      BY <1>1 DEF Progress
    <2> QED
      BY <2>4, <2>5, UpgradeTypes DEF TypesAre
  <1> QED
    BY <1>3, <1>6, <1>7, <1>8, <1>9, <1>10, <1>11 DEF UpgradeInv

\* Every step of the boots keeps the invariant.
LEMMA UpgradeStep ==
  ASSUME UpgradeInv, [Upgrade!Next]_upgrade
  PROVE  UpgradeInv'
  <1>1. CASE UNCHANGED upgrade
    BY <1>1, UpgradeRests
  <1>2. CASE Upgrade!Boot
    BY <1>2, BootInv
  <1>3. CASE Upgrade!Return
    BY <1>3, ReturnInv
  <1>4. CASE Upgrade!Execute
    BY <1>4, ExecuteInv
  <1>5. CASE Upgrade!Throw
    BY <1>5, ThrowInv
  <1>6. CASE Upgrade!Crash
    BY <1>6, CrashInv
  <1>7. CASE \E k \in Key : Upgrade!SetSetting(k)
    BY <1>7, SettingInv
  <1>8. CASE \E p \in Peer : Upgrade!Admit(p)
    BY <1>8, AdmitInv
  <1> QED
    BY <1>1, <1>2, <1>3, <1>4, <1>5, <1>6, <1>7, <1>8 DEF Upgrade!Next

\* What the invariant says of a hub that is up, and of a boot that threw.
LEMMA UpgradeKept == UpgradeInv => Upgrade!UpgradeKeepsData
  <1> SUFFICES ASSUME UpgradeInv PROVE Upgrade!UpgradeKeepsData
    OBVIOUS
  <1>1. phase = "threw" => torn \cap {"copy", "drop playlists"} # {}
    BY DEF UpgradeInv, Rows
  <1>2. ASSUME phase = "up"
        PROVE  /\ disk \ {NewTable} = Upgrade!Current
               /\ had /\ "rename" \notin torn => playlists = {"playlist_tracks"}
               /\ "number" \notin torn => instances \subseteq numbered
               /\ instances = keyed \cup {"local"}
               /\ owner = "set"
               /\ \A k \in Key : settings[k] = IF wanted[k] = None THEN "default" ELSE wanted[k]
    <2>1. Stage = 17 /\ phase \notin BootPhases /\ ~Rewriting
      BY <1>2, UpIsLast DEF UpStages
    <2>2. RowTypes /\ Progress(phase, todo)
      BY UpgradeTypes DEF UpgradeInv, TypesAre
    <2>3. todo = <<>> /\ ~Copying /\ ~Dropping /\ ~Renaming
      BY <2>1, <2>2, NotRewritingElsewhere DEF Progress
    <2>4. /\ {"password_enc", "sync result", "musicfolder_id", "public_key", "preferred", "hi-res",
              "path", "album_id", "details", "lifecycle", "shrink guard"} \subseteq disk
          /\ {"password_hash", "user_queue", "peer imports", "old streams", "playlist fk"}
               \cap disk = {}
      <3>1. /\ Stage > 2 /\ Stage > 3 /\ Stage > 4 /\ Stage > 6 /\ Stage > 7 /\ Stage > 8
            /\ Stage > 9 /\ Stage > 10 /\ Stage > 11 /\ Stage > 12
        BY <2>1
      <3> QED
        BY <3>1 DEF UpgradeInv, Ensured
    <2>5. {"track_sources", "stream_operations", "playlist_tracks"} \subseteq disk
      <3>1. <<"create sources">> # <<>>
        OBVIOUS
      <3>2. Begun
        BY <2>1 DEF Begun
      <3> QED
        BY <2>3, <3>1, <3>2 DEF UpgradeInv, Tables
    <2>6. disk \ {NewTable} = Upgrade!Current
      <3>1. disk \subseteq Upgrade!Current \cup Upgrade!OldShape \cup {NewTable}
        BY <2>2 DEF RowTypes
      <3>2. disk \cap Upgrade!OldShape = {}
        BY <2>4 DEF Upgrade!OldShape
      <3>3. Upgrade!Current \subseteq disk /\ NewTable \notin Upgrade!Current
        BY <2>4, <2>5 DEF Upgrade!Current, Upgrade!Column, Upgrade!Table, NewTable
      <3> QED
        BY <3>1, <3>2, <3>3
    <2>7. had /\ "rename" \notin torn => playlists = {"playlist_tracks"}
      <3>1. "playlist fk" \notin disk /\ playlists \subseteq {"playlist_tracks", NewTable}
        BY <2>2, <2>4 DEF RowTypes
      <3> QED
        BY <2>3, <3>1 DEF UpgradeInv, Rows
    <2>8. "number" \notin torn => instances \subseteq numbered
      BY <2>3, <2>4 DEF UpgradeInv, Numbers
    <2>9. instances = keyed \cup {"local"} /\ owner = "set"
      BY <2>1 DEF UpgradeInv, Holders
    <2>10. \A k \in Key : settings[k] = IF wanted[k] = None THEN "default" ELSE wanted[k]
      <3>1. Stage > 16
        BY <2>1
      <3> QED
        BY <3>1 DEF UpgradeInv, Values
    <2> QED
      BY <2>6, <2>7, <2>8, <2>9, <2>10
  <1> QED
    BY <1>1, <1>2 DEF Upgrade!UpgradeKeepsData, NewTable
=============================================================================
