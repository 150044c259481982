---------------------------- MODULE MergePipeline ----------------------------
(***************************************************************************)
(* The merge of all libraries of a hub, as it runs: syncs write and drop   *)
(* instance rows, peers are disabled and enabled, and each caller of       *)
(* runMergePipelineAsync gets a merge of its own, one at a time, on a      *)
(* worker. A merge is one immediate transaction: snapshot, rebuild, remap  *)
(* of what users starred. A worker or a process that dies rolls it back.   *)
(*                                                                         *)
(* A star stands for a row of user_stars of one user; playlist entries and *)
(* play events follow their track as stars do and are left out.            *)
(***************************************************************************)
EXTENDS MergeLibraries, Sequences

CONSTANTS Callers,     \* the syncs and requests that end in a merge
          RowOrder,    \* [artists, albums, tracks]: keys as the merge reads them
          Rows,        \* [key -> the rows it may have]
          FirstRows,   \* [key -> the row the first sync wrote, or None]
          Fleeting,    \* bound on the rows that a sweep may find gone
          StarKinds,   \* bound on what the user stars: some of Kinds
          Stray,       \* ids a client may still send that the hub need not have
          MaxStars     \* bound on how many stars the user has

Keys == DOMAIN Rows
Instances == UNION {{r.instance : r \in Rows[k]} : k \in Keys}

\* The id of a row names its instance. No foreign key ties a track to its album or
\* an album to its artist: the row named may be missing.
ASSUME RowsAssumption ==
  /\ IsFiniteSet(Keys)
  /\ \A k \in Keys : \A r \in Rows[k] :
       /\ r # None /\ r.key = k
       /\ \A q \in Rows[k] : q.instance = r.instance
ASSUME OrderAssumption ==
  /\ RowOrder.artists \in Seq(Keys) /\ RowOrder.albums \in Seq(Keys)
  /\ RowOrder.tracks \in Seq(Keys)
  /\ \A k \in Range(RowOrder.tracks) : \A r \in Rows[k] :
       "album" \in DOMAIN r /\ r.album \in Range(RowOrder.albums)
ASSUME FirstRowsAssumption ==
  /\ FirstRows = [k \in Keys |-> FirstRows[k]]
  /\ \A k \in Keys : FirstRows[k] \in Rows[k] \cup {None}
ASSUME StarsAssumption ==
  /\ StarKinds \subseteq {"artist", "album", "track"}
  /\ \A s \in Stray : s = <<s[1], s[2]>>
ASSUME OutcomeAssumption == None \notin {"ok", "failed"}

VARIABLES rows,      \* [Keys -> a row or None]: the instance_* tables
          active,    \* instances whose lifecycle is active
          catalog,   \* the source tables: kind -> key -> unified id
          unified,   \* the ids of the unified tables, as <<kind, id>>
          stars,     \* user_stars of one user: set of <<kind, id>>
          queue,     \* mergeQueue: callers, the head's merge runs
          outcome,   \* what the head's worker has reported: None, "ok", "failed"
          covered,   \* history: waiting callers a merge was committed after
          loose      \* history: stars that at some time no row was left to back

vars == <<rows, active, catalog, unified, stars, queue, outcome,
          covered, loose>>

Kinds == {"artist", "album", "track"}

\* The rows of the active instances, in the order of the tables.
Reads(order) ==
  LET there == Where(order, LAMBDA k : /\ rows[k] # None
                                       /\ rows[k].instance \in active)
  IN [i \in DOMAIN there |-> rows[there[i]]]

Library == [artists |-> Reads(RowOrder.artists),
            albums |-> Reads(RowOrder.albums),
            tracks |-> Reads(RowOrder.tracks)]

IdsOf(cat) == UNION {{<<kind, cat[kind][k]>> : k \in DOMAIN cat[kind]} :
                     kind \in Kinds}

\* The rows a star stands for, as the last merge and the deletes since left them.
Sources(cat, s) ==
  {k \in DOMAIN cat[s[1]] : cat[s[1]][k] = s[2]}

\* The rows of a kind the next merge can place: there, of an active instance,
\* and a track with its album.
KeysOf(kind) == Range(CASE kind = "artist" -> RowOrder.artists
                        [] kind = "album" -> RowOrder.albums
                        [] kind = "track" -> RowOrder.tracks)
There(k) == rows[k] # None /\ rows[k].instance \in active
Placeable(kind) ==
  {k \in KeysOf(kind) : There(k) /\ (kind = "track" => There(rows[k].album))}

Waiting == {queue[i] : i \in DOMAIN queue}

NoRows == [kind \in Kinds |-> <<>>]

Init ==
  /\ rows = FirstRows
  /\ active = Instances
  /\ catalog = NoRows
  /\ unified = {}
  /\ stars = {}
  /\ queue = <<>>
  /\ outcome = None
  /\ covered = {}
  /\ loose = {}

---------------------------------------------------------------------------
\* The writers of instance rows.

\* upsertArtist, upsertAlbum, upsertTrack of a sync: the row changes in
\* place, and its sources with it keep their unified id. Whether the artist or
\* the album it names has a row is not asked: a wipe may have taken it.
Write(k, r) ==
  /\ rows[k] # r
  /\ rows' = [rows EXCEPT ![k] = r]
  /\ UNCHANGED <<active, catalog, unified, stars, queue, outcome,
                 covered, loose>>

Without(cat, gone) ==
  [kind \in Kinds |-> Restrict(cat[kind], DOMAIN cat[kind] \ gone)]

\* Rows are deleted, and the foreign keys of the source tables take the sources
\* along.
Delete(gone) ==
  /\ gone # {}
  /\ rows' = [k \in Keys |-> IF k \in gone THEN None ELSE rows[k]]
  /\ catalog' = Without(catalog, gone)
  /\ loose' = loose \cup {s \in stars : /\ Sources(catalog, s) # {}
                                       /\ Sources(catalog, s) \subseteq gone}
  /\ UNCHANGED <<active, unified, stars, queue, outcome, covered>>

RowsOf(i) == {k \in Keys : rows[k] # None /\ rows[k].instance = i}

\* The wipe of a peer that does not answer, or the reset of peer data, which
\* takes every peer's rows.
Wipe(is) == "local" \notin is /\ Delete(UNION {RowsOf(i) : i \in is})

\* A sync did not see some rows of its instance. The tracks of an album are seen
\* with it.
Sweep(i, gone) ==
  /\ gone \subseteq RowsOf(i)
  /\ \A k \in KeysOf("track") \cap (RowsOf(i) \ gone) : rows[k].album \notin gone
  /\ Delete(gone)

\* Disable or enable a peer; its request then waits for a merge.
SetActive(i, on, c) ==
  /\ i # "local"
  /\ active' = IF on THEN active \cup {i} ELSE active \ {i}
  /\ active' # active
  /\ c \notin Waiting
  /\ queue' = Append(queue, c)
  /\ UNCHANGED <<rows, catalog, unified, stars, outcome, covered, loose>>

\* A user stars something the unified tables hold, an artist without sources
\* included, or an id a client kept: no table is asked (INSERT OR IGNORE).
Star(s) ==
  /\ s \notin stars /\ s[1] \in StarKinds
  /\ Cardinality(stars) < MaxStars
  /\ stars' = stars \cup {s}
  /\ loose' = IF Sources(catalog, s) = {} THEN loose \cup {s} ELSE loose
  /\ UNCHANGED <<rows, active, catalog, unified, queue, outcome,
                 covered>>

Unstar(s) ==
  /\ s \in stars
  /\ stars' = stars \ {s}
  /\ loose' = loose \ {s}
  /\ UNCHANGED <<rows, active, catalog, unified, queue, outcome,
                 covered>>

---------------------------------------------------------------------------
\* The remap of user data onto the new ids.

\* Keys of a kind that had an id before and have one now.
Survivors(kind, before, after) == DOMAIN before[kind] \cap DOMAIN after[kind]

Votes(kind, before, after, old, new) ==
  Cardinality({k \in Survivors(kind, before, after) :
                 before[kind][k] = old /\ after[kind][k] = new})

NewIds(kind, before, after, old) ==
  {after[kind][k] : k \in {x \in Survivors(kind, before, after) :
                             before[kind][x] = old}}

\* computeChangedPairs: most rows win. Of equals the source takes the smallest
\* hash; below it is one chosen once for all.
Winners(kind, before, after, old) ==
  {new \in NewIds(kind, before, after, old) :
     \A other \in NewIds(kind, before, after, old) :
       Votes(kind, before, after, old, other)
         <= Votes(kind, before, after, old, new)}

\* Where a star belongs after the merge: nowhere else if no row tells.
Target(before, after, s) ==
  IF NewIds(s[1], before, after, s[2]) = {} THEN s
  ELSE <<s[1], CHOOSE w \in Winners(s[1], before, after, s[2]) : TRUE>>

\* Mutant: the update in place that the comment of applyRemap warns of: a row
\* whose target another row still holds is ignored, and then cleaned up.
RemapInPlace(held, before, after) ==
  {s \in held : Target(before, after, s) = s}
    \cup ({Target(before, after, s) : s \in held} \ held)

\* Mutant: the merge is run without the remap step.
RemapNothing(held, before, after) == held

\* applyRemap: stage the targets, delete what moves, reinsert from the stage.
Remap(held, before, after) ==
  LET moved == {s \in held : Target(before, after, s) # s}
      staged == {Target(before, after, s) : s \in moved}
  IN (held \ moved) \cup staged

---------------------------------------------------------------------------
\* The queue and the worker.

\* runMergePipelineAsync: queue behind whatever runs.
Request(c) ==
  /\ c \notin Waiting
  /\ queue' = Append(queue, c)
  /\ UNCHANGED <<rows, active, catalog, unified, stars, outcome, covered,
                 loose>>

\* executeMergePipeline on the worker's own connection, committed. History: a
\* star is loose if no row it stood for could be placed, until it has rows again.
Commit ==
  /\ queue # <<>> /\ outcome = None
  /\ outcome' = "ok"
  /\ LET merged == Merged(Library)
     IN /\ ~merged.throws
        /\ catalog' = merged.ids
        /\ unified' = IdsOf(merged.ids) \cup {<<"artist", a>> : a \in merged.tagged}
  /\ stars' = Remap(stars, catalog, catalog')
  /\ loose' = {Target(catalog, catalog', s) :
                 s \in {x \in stars : Sources(catalog, x) \cap Placeable(x[1]) = {}}}
              \ IdsOf(catalog')
  /\ covered' = covered \cup Waiting
  /\ UNCHANGED <<rows, active, queue>>

\* The merge throws, or the worker exits before it reports: rolled back.
Rollback ==
  /\ queue # <<>> /\ outcome = None
  /\ outcome' = "failed"
  /\ UNCHANGED <<rows, active, catalog, unified, stars, queue, covered,
                 loose>>

\* Mutant: whoever waits is answered with the merge that just ended.
SettlesEveryone ==
  /\ outcome # None
  /\ queue' = <<>>
  /\ outcome' = None
  /\ covered' = {}
  /\ UNCHANGED <<rows, active, catalog, unified, stars, loose>>

\* Mutant: the queue is left at a task that was rejected.
SettlesUnlessFailed ==
  /\ outcome = "ok"
  /\ queue' = Tail(queue)
  /\ outcome' = None
  /\ covered' = covered \ {Head(queue)}
  /\ UNCHANGED <<rows, active, catalog, unified, stars, loose>>

\* The caller's promise settles and the next task of the queue starts.
Settle ==
  /\ outcome # None
  /\ queue' = Tail(queue)
  /\ outcome' = None
  /\ covered' = covered \ {Head(queue)}
  /\ UNCHANGED <<rows, active, catalog, unified, stars, loose>>

Next ==
  \/ \E k \in Keys : \E r \in Rows[k] : Write(k, r)
  \/ \E is \in SUBSET Instances : Wipe(is)
  \/ \E i \in Instances, gone \in SUBSET Fleeting : Sweep(i, gone)
  \/ \E i \in Instances, on \in BOOLEAN, c \in Callers : SetActive(i, on, c)
  \/ \E s \in unified \cup Stray : Star(s)
  \/ \E s \in stars : Unstar(s)
  \/ \E c \in Callers : Request(c)
  \/ Commit
  \/ Rollback
  \/ Settle

\* A worker always ends in a message, an error or an exit, and the event loop
\* gets to it.
Fairness == WF_vars(Rollback \/ Commit) /\ WF_vars(Settle)

Spec == Init /\ [][Next]_vars
FairSpec == Spec /\ Fairness

---------------------------------------------------------------------------
\* A star that rows back resolves, and to something rows back, for as long as of
\* the rows it then stands for one is left at each moment and can be placed by
\* each merge: whatever tags change, rows come and go, and merges queue, fail or
\* die meanwhile (snapshotIdentity, applyRemap, #242).
NothingStranded == \A s \in stars \ loose : s \in unified /\ Sources(catalog, s) # {}

\* Where no row ever goes and no peer is disabled, a merge leaves no star behind:
\* the remap is what keeps user data from being stranded "on a metadata edit"
\* (merge-pipeline.ts, #242). False of the artists that only tags of tracks name:
\* they have no source to be found by.
StarsSurviveEdits ==
  [][outcome' = "ok" /\ outcome = None /\ stars \subseteq unified
       => stars' \subseteq unified']_vars

\* A merge moves each star with the majority of its rows: the star ends up at
\* a new id most of them have, stays where no row is left to tell, and no
\* star appears that nobody set (computeChangedPairs, applyRemap).
StarsFollowRows ==
  [][outcome' = "ok" /\ outcome = None =>
       /\ \A s \in stars :
            IF NewIds(s[1], catalog, catalog', s[2]) = {} THEN s \in stars'
            ELSE \E w \in Winners(s[1], catalog, catalog', s[2]) :
                   <<s[1], w>> \in stars'
       /\ \A s \in stars' :
            \E o \in stars : \/ o = s
                             \/ /\ o[1] = s[1]
                                /\ s[2] \in Winners(s[1], catalog, catalog', o[2])
    ]_vars

\* A caller is told "ok" only after a merge that began once it had asked, so
\* the catalog has what it wrote before (mergeQueue, no coalescing).
AnsweredMeansMerged ==
  [][outcome = "ok" /\ outcome' = None => Waiting \ Waiting' \subseteq covered]_vars

\* Nobody waits for ever, whoever's merge failed before (task.catch).
EveryCallIsAnswered ==
  \A c \in Callers : c \in Waiting ~> c \notin Waiting
=============================================================================
