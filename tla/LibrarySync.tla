----------------------------- MODULE LibrarySync -----------------------------
(***************************************************************************)
(* How one hub copies Navidrome libraries into its instance_tracks table:  *)
(* its own Navidrome (Local) and those of its peers, read by the owner's   *)
(* POST /sync and by the two timers of AutoSyncService, with the guard     *)
(* that holds a sync back when a library shrinks too far.                  *)
(*                                                                         *)
(* Nothing keeps a manual sync from running beside an automatic one, and   *)
(* every request to a Navidrome is an await: syncs of one instance         *)
(* interleave between any two requests.  Artists and albums are copied and *)
(* swept as tracks are, and no row refers to another in the database, so   *)
(* the rows kept here are those of tracks.                                 *)
(***************************************************************************)
EXTENDS Naturals, FiniteSets

CONSTANTS
  Local,      \* the id of the hub's own instance
  Peer,       \* the ids of its active peers
  Manual,     \* the POST /sync requests that can run at once
  Track,      \* remote ids of tracks
  Album,      \* remote ids of albums
  Songs,      \* the tracks of each album; a track may be on several
  Library,    \* the sets of tracks a Navidrome can report
  Percent,    \* POUTINE_SHRINK_GUARD_PERCENT
  MinTracks   \* SHRINK_GUARD_MIN_TRACKS

Instance == Peer \cup {Local}

\* Who runs syncs: requests, and the two timers.
Caller == Manual \cup {"poll", "pollPeers"}

ASSUME LocalAssumption == Local \notin Peer
ASSUME CallerAssumption == "poll" \notin Manual /\ "pollPeers" \notin Manual
ASSUME TrackAssumption ==
  /\ IsFiniteSet(Track)
  /\ Songs \in [Album -> SUBSET Track]
  /\ Library \subseteq SUBSET Track
ASSUME GuardAssumption == Percent \in Nat /\ MinTracks \in Nat

VARIABLES
  library,      \* library[i]: the tracks i's Navidrome reports (external)
  unsynced,     \* unsynced[i]: its lastScan is newer than last_synced_at
  tracks,       \* tracks[i]: instance_tracks of i
  track_count,  \* instances.track_count
  held,         \* instances.shrink_held_at is set
  accepted,     \* instances.accept_shrink_once
  pass          \* pass[c]: what caller c is doing

rows == <<tracks, track_count, held, accepted>>
vars == <<library, unsynced, tracks, track_count, held, accepted, pass>>

-----------------------------------------------------------------------------
\* A caller asks one instance for its albums or reads those in todo, and has
\* other instances queued.
Pass ==
  [stage : {"idle", "between", "asking", "reading"}, at : Instance, queue : SUBSET Instance,
   todo : SUBSET Album, seen : SUBSET Track, failed : BOOLEAN]

Paused(stage, queue) ==
  [stage |-> stage, at |-> Local, queue |-> queue, todo |-> {}, seen |-> {},
   failed |-> FALSE]

Idle == Paused("idle", {})

\* Mutant: the sets of seen ids outlive the sync they belong to.
LeavesSeen(c) ==
  pass' = [pass EXCEPT ![c].stage = "between", ![c].todo = {}, ![c].failed = FALSE]

\* The sync of an instance returns to its caller.
Leave(c) == pass' = [pass EXCEPT ![c] = Paused("between", pass[c].queue)]

Visits(c) ==
  CASE c = "poll" -> {Local}
    [] c = "pollPeers" -> Peer
    [] c \in Manual -> Instance

\* Mutant: the rule for an empty library is left to the percentage.
ShrunkByPercent(previous, seen) ==
  /\ Percent > 0 /\ previous > 0 /\ seen < previous
  /\ previous >= MinTracks
  /\ (previous - seen) * 100 > Percent * previous

\* evaluateShrink: the library lost too much to be believed.
Shrunk(previous, seen) ==
  /\ Percent > 0 /\ previous > 0 /\ seen < previous
  /\ \/ seen = 0
     \/ /\ previous >= MinTracks
        /\ (previous - seen) * 100 > Percent * previous

-----------------------------------------------------------------------------
Init ==
  /\ library \in [Instance -> Library]
  /\ unsynced = [i \in Instance |-> TRUE]
  /\ tracks = [i \in Instance |-> {}]
  /\ track_count = [i \in Instance |-> 0]
  /\ held = [i \in Instance |-> FALSE]
  /\ accepted = [i \in Instance |-> FALSE]
  /\ pass = [c \in Caller |-> Idle]

\* i's Navidrome ends a scan: new files, an unmounted share, or its recovery.
Scan(i, L) ==
  /\ library' = [library EXCEPT ![i] = L]
  /\ unsynced' = [unsynced EXCEPT ![i] = TRUE]
  /\ UNCHANGED <<rows, pass>>

\* A request arrives, or a timer fires whose last pass has ended.
Begin(c) ==
  /\ pass[c].stage = "idle"
  /\ pass' = [pass EXCEPT ![c] = Paused("between", Visits(c))]
  /\ UNCHANGED <<library, unsynced, rows>>

\* The hub's own instance comes first in a manual sync.
InTurn(c, i) ==
  /\ pass[c].stage = "between"
  /\ i \in pass[c].queue
  /\ Local \in pass[c].queue => i = Local

\* No new scan, or nobody answers to say so.
Skip(c, i) ==
  /\ c \notin Manual
  /\ InTurn(c, i)
  /\ pass' = [pass EXCEPT ![c] = Paused("between", @.queue \ {i})]
  /\ UNCHANGED <<library, unsynced, rows>>

\* The local timer syncs only after a new scan; the timer of the peers also
\* does if it cannot tell.
TakeUp(c, i) ==
  /\ InTurn(c, i)
  /\ c = "poll" => unsynced[i]
  /\ pass' = [pass EXCEPT ![c].stage = "asking", ![c].at = i,
                         ![c].queue = @ \ {i}]
  /\ UNCHANGED <<library, unsynced, rows>>

\* getArtists and the getArtist calls answer with the albums of i.
List(c) ==
  LET i == pass[c].at
  IN /\ pass[c].stage = "asking"
     /\ pass' = [pass EXCEPT ![c].stage = "reading",
          ![c].todo = {a \in Album : Songs[a] \cap library[i] # {}}]
     /\ UNCHANGED <<library, unsynced, rows>>

\* getArtists fails: the hub's own catalog is kept, that of a peer is wiped.
Unreachable(c) ==
  LET i == pass[c].at
  IN /\ pass[c].stage = "asking"
     /\ IF i = Local
        THEN UNCHANGED <<tracks, track_count>>
        ELSE /\ tracks' = [tracks EXCEPT ![i] = {}]
             /\ track_count' = [track_count EXCEPT ![i] = 0]
     /\ Leave(c)
     /\ UNCHANGED <<library, unsynced, held, accepted>>

\* getAlbum answers: its tracks are written at once.
Fetch(c, a) ==
  LET i == pass[c].at
      songs == Songs[a] \cap library[i]
  IN /\ a \in pass[c].todo
     /\ songs # {}
     /\ tracks' = [tracks EXCEPT ![i] = @ \cup songs]
     /\ pass' = [pass EXCEPT ![c].todo = @ \ {a}, ![c].seen = @ \cup songs]
     /\ UNCHANGED <<library, unsynced, track_count, held, accepted>>

\* getArtist or getAlbum fails, or the album is gone by now.
FetchFail(c, a) ==
  /\ a \in pass[c].todo
  /\ pass' = [pass EXCEPT ![c].todo = @ \ {a}, ![c].failed = TRUE]
  /\ UNCHANGED <<library, unsynced, rows>>

HasRead(c) == pass[c].stage = "reading" /\ pass[c].todo = {}

Seen(c) == Cardinality(pass[c].seen)

Holds(c) ==
  /\ ~accepted[pass[c].at]
  /\ Shrunk(track_count[pass[c].at], Seen(c))

\* Mutant: stale rows are swept before the guard is asked.
HoldAfterSweep(c) ==
  /\ HasRead(c) /\ ~pass[c].failed /\ Holds(c)
  /\ tracks' = [tracks EXCEPT ![pass[c].at] = @ \cap pass[c].seen]
  /\ unsynced' = [unsynced EXCEPT ![pass[c].at] = FALSE]
  /\ held' = [held EXCEPT ![pass[c].at] = TRUE]
  /\ Leave(c)
  /\ UNCHANGED <<library, track_count, accepted>>

\* The guard holds the deletions back; last_synced_at advances all the same.
Hold(c) ==
  /\ HasRead(c) /\ ~pass[c].failed /\ Holds(c)
  /\ unsynced' = [unsynced EXCEPT ![pass[c].at] = FALSE]
  /\ held' = [held EXCEPT ![pass[c].at] = TRUE]
  /\ Leave(c)
  /\ UNCHANGED <<library, tracks, track_count, accepted>>

\* _deleteStale: what the sync has not seen goes, in a transaction of its own.
Sweep(c) ==
  /\ HasRead(c) /\ ~pass[c].failed /\ ~Holds(c)
  /\ tracks' = [tracks EXCEPT ![pass[c].at] = @ \cap pass[c].seen]

\* The sweep, and the update of the instance row that follows with no await.
Apply(c) ==
  /\ Sweep(c)
  /\ track_count' = [track_count EXCEPT ![pass[c].at] = Seen(c)]
  /\ unsynced' = [unsynced EXCEPT ![pass[c].at] = FALSE]
  /\ held' = [held EXCEPT ![pass[c].at] = FALSE]
  /\ accepted' = [accepted EXCEPT ![pass[c].at] = FALSE]
  /\ Leave(c)
  /\ UNCHANGED library

\* Mutant: a sync with errors counts as one.
GiveUpAsSynced(c) ==
  /\ HasRead(c) /\ pass[c].failed
  /\ unsynced' = [unsynced EXCEPT ![pass[c].at] = FALSE]
  /\ Leave(c)
  /\ UNCHANGED <<library, rows>>

\* Some request failed: what was read stays, nothing is deleted.
GiveUp(c) ==
  /\ HasRead(c) /\ pass[c].failed
  /\ Leave(c)
  /\ UNCHANGED <<library, unsynced, rows>>

End(c) ==
  /\ pass[c].stage = "between"
  /\ pass[c].queue = {}
  /\ pass' = [pass EXCEPT ![c] = Idle]
  /\ UNCHANGED <<library, unsynced, rows>>

\* Mutant: a removal can be accepted before any is held.
AcceptableAnyTime(i) == i \in Instance

Acceptable(i) == held[i]

\* POST /instances/:id/accept-shrink.
AcceptShrink(i) ==
  /\ Acceptable(i)
  /\ accepted' = [accepted EXCEPT ![i] = TRUE]
  /\ UNCHANGED <<library, unsynced, tracks, track_count, held, pass>>

\* DELETE /peers/data.
ResetPeers ==
  /\ tracks' = [i \in Instance |-> IF i = Local THEN tracks[i] ELSE {}]
  /\ track_count' = [i \in Instance |-> IF i = Local THEN track_count[i] ELSE 0]
  /\ unsynced' = [i \in Instance |-> i # Local \/ unsynced[i]]
  /\ UNCHANGED <<library, held, accepted, pass>>

\* The process dies and boots again.
AllIdle == [c \in Caller |-> Idle]

\* It dies after the sweep or the wipe is committed and before the update of the
\* instance row: the row goes on to say what it said.
DiesSweeping(c) ==
  /\ Sweep(c)
  /\ pass' = AllIdle
  /\ UNCHANGED <<library, unsynced, track_count, held, accepted>>

DiesWiping(c) ==
  /\ pass[c].stage = "asking" /\ pass[c].at # Local
  /\ tracks' = [tracks EXCEPT ![pass[c].at] = {}]
  /\ pass' = AllIdle
  /\ UNCHANGED <<library, unsynced, track_count, held, accepted>>

\* It dies anywhere else.
Restart ==
  /\ pass' = AllIdle
  /\ UNCHANGED <<library, unsynced, rows>>

-----------------------------------------------------------------------------
Step(c) ==
  \/ \E i \in Instance : Skip(c, i) \/ TakeUp(c, i)
  \/ List(c)
  \/ Unreachable(c)
  \/ \E a \in Album : Fetch(c, a) \/ FetchFail(c, a)
  \/ Hold(c)
  \/ Apply(c)
  \/ GiveUp(c)
  \/ End(c)

Next ==
  \/ \E i \in Instance, L \in Library : Scan(i, L)
  \/ \E c \in Caller : Begin(c) \/ Step(c) \/ DiesSweeping(c) \/ DiesWiping(c)
  \/ \E i \in Instance : AcceptShrink(i)
  \/ ResetPeers
  \/ Restart

\* The timers fire again and again, and every request ends by an answer or an
\* error, so every sync ends.
Fairness ==
  /\ WF_vars(Begin("poll"))
  /\ WF_vars(Begin("pollPeers"))
  /\ \A c \in Caller : WF_vars(Step(c))

Spec == Init /\ [][Next]_vars /\ Fairness

-----------------------------------------------------------------------------
(* Properties.                                                             *)

\* Every variable has its type, and a caller that reads nothing remembers
\* nothing of the instance it read before.
TypeOK ==
  /\ library \in [Instance -> Library]
  /\ unsynced \in [Instance -> BOOLEAN]
  /\ tracks \in [Instance -> SUBSET Track]
  /\ track_count \in [Instance -> 0 .. Cardinality(Track)]
  /\ held \in [Instance -> BOOLEAN]
  /\ accepted \in [Instance -> BOOLEAN]
  /\ pass \in [Caller -> Pass]
  /\ \A c \in Caller : pass[c].stage \in {"idle", "between"} =>
       pass[c] = Paused(pass[c].stage, pass[c].queue)

\* docs/hub-internals.md: "a stale acceptance can't wave a later outage
\* through".  The override is armed only while a shrink is held, whatever
\* syncs, failures and resets come between the owner's click and its use.
ArmedOnlyWhileHeld == \A i \in Instance : accepted[i] => held[i]

\* Over all the paths that delete rows, with syncs overlapping: a catalog loses
\* tracks only if a peer was unreachable or reset, or at the end of a sync that
\* read all it asked for, that keeps all it saw, and that the owner's acceptance,
\* spent by it unless the process dies, or the guard lets through: the count it
\* is judged by fell no further than the guard allows, and never to zero.
DeletionsGuarded ==
  [][\A i \in Instance : ~(tracks[i] \subseteq tracks'[i]) =>
       \/ i # Local /\ (ResetPeers \/ \E c \in Caller : Unreachable(c) \/ DiesWiping(c))
       \/ \E c \in Caller :
            /\ pass[c].at = i /\ HasRead(c) /\ ~pass[c].failed
            /\ tracks[i] \cap pass[c].seen \subseteq tracks'[i]
            /\ \/ accepted[i] /\ (~accepted'[i] \/ DiesSweeping(c))
               \/ Percent = 0
               \/ Seen(c) >= track_count[i]
               \/ /\ Seen(c) > 0
                  /\ \/ track_count[i] < MinTracks
                     \/ (track_count[i] - Seen(c)) * 100 <= Percent * track_count[i]]_vars

\* docs/hub-internals.md:325: "Held = no deletions".  As long as the hold on the
\* hub's own library stands, no sync takes a track or the count it is judged
\* by away, the one that holds it included, unless the process dies between the
\* sweep of a sync that ends the hold and the record of it.
HoldKeepsCatalog ==
  [][held'[Local] /\ ~(\E c \in Caller : DiesSweeping(c))
       => tracks[Local] \subseteq tracks'[Local]
          /\ track_count'[Local] = track_count[Local]]_vars

\* The same without the exception, which is false of the code: after such a
\* death the hold stands, the acceptance is armed and the tracks are gone.
HeldMeansKept == [][held'[Local] => tracks[Local] \subseteq tracks'[Local]]_vars

Syncing(i) == \E c \in Caller : pass[c].stage = "reading" /\ pass[c].at = i

\* A step by which a sync learns less than it asked for, or is cut short.
Fails ==
  \/ \E c \in Caller : Unreachable(c)
  \/ \E c \in Caller, i \in Instance : unsynced[i] /\ Skip(c, i)
  \/ \E c \in Caller, a \in Album : FetchFail(c, a)
  \/ \E c \in Caller : DiesSweeping(c) \/ DiesWiping(c)
  \/ Restart /\ \A c \in Caller : ~End(c)

Answering == <>[][~Fails]_vars

\* If Navidrome ends up answering, then a scan that no sync of the library
\* overlaps reaches the catalog, or the shrink it shows is held.
CatchesUp ==
  Answering => \A L \in Library :
    [](/\ unsynced[Local] /\ ~Syncing(Local)
       /\ [](library[Local] = L)
       => <>(tracks[Local] = L \/ held[Local]))

\* README.md:208: "The hub syncs automatically after each scan."  Said of the
\* last scan, under a Navidrome that ends up answering.
SyncsAfterEachScan ==
  Answering => \A L \in Library :
    <>[](library[Local] = L) => <>(tracks[Local] = L \/ held[Local])

\* sync-instance.ts:508-511: the count of tracks seen "matches instance_tracks
\* after _deleteStale"; the guard judges the next sync by that count.
CountMatchesCatalog ==
  [][\A c \in Caller : Apply(c) =>
       track_count'[pass[c].at] = Cardinality(tracks'[pass[c].at])]_vars
=============================================================================
