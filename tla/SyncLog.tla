--------------------------------- MODULE SyncLog ---------------------------------
(***************************************************************************)
(* The rows of sync_operations behind the activity page.  Manual passes    *)
(* and the two timers start and end rows, the owner clears them and sets   *)
(* how many are kept, merges throw, and the process dies and boots again.  *)
(***************************************************************************)
EXTENDS Integers, FiniteSets, Functions

CONSTANTS
  Manual,       \* bound: requests of POST /sync at once
  Limit,        \* values of activity_history_max_events; 0 keeps all
  MaxStarts,    \* bound: rows ever started
  None

StartsAssumption == MaxStarts \in Nat /\ Limit \subseteq Nat /\ None \notin Nat

Worker == Manual \cup {"local timer", "peer timer"}

VARIABLES
  log,       \* sync_operations: rows by id
  started,   \* rows ever started: the id of the next one, in the order of started_at
  worker,    \* what each pass is at, its own row and the row of its peer
  maxRows,   \* maxRows, and its copy in settings
  cleared,   \* history: rows the owner has deleted
  orphans,   \* history: rows whose pass ended without ending them
  late       \* history: rows older than ten minutes at a boot

syncLogVars == <<log, started, worker, maxRows, cleared, orphans, late>>

NoRows == [id \in {} |-> None]

AtRest == [stage |-> "idle", row |-> None, peer |-> None]

Init ==
  /\ log = NoRows /\ started = 0
  /\ worker = [w \in Worker |-> AtRest]
  /\ maxRows \in Limit
  /\ cleared = {} /\ orphans = {} /\ late = {}

-----------------------------------------------------------------------------
(* The table.                                                              *)

Running(rows) == {id \in DOMAIN rows : rows[id].status = "running"}

\* Mutant: the oldest rows go, whatever they are at.
OldRows(rows, n) == {id \in DOMAIN rows : Cardinality({j \in DOMAIN rows : j > id}) >= n}

\* Rows that are not among the newest n and do not run.
Prunable(rows, n) ==
  {id \in DOMAIN rows \ Running(rows) : Cardinality({j \in DOMAIN rows : j > id}) >= n}

Pruned(rows, n) ==
  IF n = 0 THEN rows ELSE Restrict(rows, DOMAIN rows \ Prunable(rows, n))

\* start().
Starting ==
  /\ started < MaxStarts /\ started' = started + 1
  /\ log' = [id \in DOMAIN log \cup {started} |->
               IF id = started THEN [status |-> "running", old |-> FALSE] ELSE log[id]]

\* complete() and fail(): an UPDATE by id, which may find nothing, and a prune.
Ended(row, status) ==
  Pruned([id \in DOMAIN log |->
            IF id = row THEN [log[id] EXCEPT !.status = status] ELSE log[id]], maxRows)

-----------------------------------------------------------------------------
(* Passes.                                                                 *)

\* The rows of the passes that go on.
Live == UNION {{worker[w].row, worker[w].peer} \ {None} : w \in Worker}

Becomes(w, stage, row, peer) ==
  worker' = [worker EXCEPT ![w] = [stage |-> stage, row |-> row, peer |-> peer]]

\* A pass begins: syncAll, or a tick that finds a newer scan.  The peer timer has
\* no row of its own.
Begin(w) ==
  /\ worker[w] = AtRest
  /\ IF w = "peer timer"
       THEN Becomes(w, "peers", None, None) /\ UNCHANGED <<log, started>>
       ELSE Starting /\ Becomes(w, "local", started, None)
  /\ UNCHANGED <<maxRows, cleared, orphans, late>>

\* syncLocal returns; the local timer has no peers to go on with.
LocalSynced(w) ==
  /\ worker[w].stage = "local"
  /\ Becomes(w, IF w = "local timer" THEN "merging" ELSE "peers", worker[w].row, None)
  /\ UNCHANGED <<log, started, maxRows, cleared, orphans, late>>

LocalFails(w) ==
  /\ worker[w].stage = "local"
  /\ log' = Ended(worker[w].row, "failed")
  /\ Becomes(w, "idle", None, None)
  /\ UNCHANGED <<started, maxRows, cleared, orphans, late>>

PeerBegins(w) ==
  /\ worker[w].stage = "peers" /\ worker[w].peer = None
  /\ Starting
  /\ Becomes(w, "peers", worker[w].row, started)
  /\ UNCHANGED <<maxRows, cleared, orphans, late>>

\* syncPeer returns or throws.
PeerEnds(w, status) ==
  /\ worker[w].peer # None
  /\ log' = Ended(worker[w].peer, status)
  /\ Becomes(w, "peers", worker[w].row, None)
  /\ UNCHANGED <<started, maxRows, cleared, orphans, late>>

PeersDone(w) ==
  /\ worker[w].stage = "peers" /\ worker[w].peer = None
  /\ Becomes(w, "merging", worker[w].row, None)
  /\ UNCHANGED <<log, started, maxRows, cleared, orphans, late>>

Merged(w) ==
  /\ worker[w].stage = "merging"
  /\ log' = IF worker[w].row = None THEN log ELSE Ended(worker[w].row, "complete")
  /\ Becomes(w, "idle", None, None)
  /\ UNCHANGED <<started, maxRows, cleared, orphans, late>>

\* Only the local timer catches what its merge throws.
MergeFails(w) ==
  /\ worker[w].stage = "merging"
  /\ IF w = "local timer"
       THEN log' = Ended(worker[w].row, "failed") /\ UNCHANGED orphans
       ELSE orphans' = orphans \cup ({worker[w].row} \ {None}) /\ UNCHANGED log
  /\ Becomes(w, "idle", None, None)
  /\ UNCHANGED <<started, maxRows, cleared, late>>

-----------------------------------------------------------------------------
(* The owner, time and restarts.                                           *)

\* DELETE /activity.
Clear ==
  /\ DOMAIN log # {}
  /\ log' = NoRows
  /\ cleared' = cleared \cup DOMAIN log
  /\ UNCHANGED <<started, worker, maxRows, orphans, late>>

\* PUT /settings/activity.
SetMaxRows(n) ==
  /\ n # maxRows
  /\ maxRows' = n
  /\ log' = Pruned(log, n)
  /\ UNCHANGED <<started, worker, cleared, orphans, late>>

\* Ten minutes go by.
Age ==
  /\ \E id \in DOMAIN log : ~log[id].old
  /\ log' = [id \in DOMAIN log |-> [log[id] EXCEPT !.old = TRUE]]
  /\ UNCHANGED <<started, worker, maxRows, cleared, orphans, late>>

\* failStaleRunning.
StaleFailed(rows) ==
  [id \in DOMAIN rows |->
     IF rows[id].status = "running" /\ rows[id].old
       THEN [rows[id] EXCEPT !.status = "failed"] ELSE rows[id]]

\* The process dies and boots: a prune, and then what has run for long has failed.
Restart ==
  /\ log' = StaleFailed(Pruned(log, maxRows))
  /\ worker' = [w \in Worker |-> AtRest]
  /\ orphans' = orphans \cup Live
  /\ late' = late \cup {id \in DOMAIN log : log[id].old}
  /\ UNCHANGED <<started, maxRows, cleared>>

Next ==
  \/ \E w \in Worker :
       \/ Begin(w) \/ LocalSynced(w) \/ LocalFails(w)
       \/ PeerBegins(w) \/ PeersDone(w)
       \/ \E status \in {"complete", "failed"} : PeerEnds(w, status)
       \/ Merged(w) \/ MergeFails(w)
  \/ Clear \/ Age \/ Restart
  \/ \E n \in Limit : SetMaxRows(n)

Spec == Init /\ [][Next]_syncLogVars

-----------------------------------------------------------------------------
(* Properties.                                                             *)

TypeOK ==
  /\ DOMAIN log \subseteq 0 .. started - 1
  /\ log \in [DOMAIN log -> [status : {"running", "complete", "failed"}, old : BOOLEAN]]
  /\ started \in 0 .. MaxStarts /\ maxRows \in Limit
  /\ worker \in [Worker -> [stage : {"idle", "local", "peers", "merging"},
                            row : 0 .. started - 1 \cup {None},
                            peer : 0 .. started - 1 \cup {None}]]
  /\ cleared \cup orphans \cup late \subseteq 0 .. started - 1

\* What the activity page shows as running runs, or is what a merge or a dead
\* process left behind and no boot ten minutes later has seen; and what runs is
\* shown, unless the owner has cleared it: no prune takes the row of a sync, and
\* no sync ends the row of another.
RunningRowsAreSyncs ==
  /\ Running(log) \subseteq Live \cup (orphans \ late)
  /\ Live \subseteq Running(log) \cup cleared
=============================================================================
