------------------------------ MODULE Streaming ------------------------------
(***************************************************************************)
(* How one hub streams a track: /rest/stream walks the ranked sources of   *)
(* the track, asking each with a connect timeout and failing over while    *)
(* nothing has been sent (handleStream); SourceHealth remembers which      *)
(* sources failed of late; StreamTrackingService keeps one row of the      *)
(* activity log per stream; a peer's requests for this hub's own tracks    *)
(* (GET /federation/stream/:id) share that log.                            *)
(*                                                                         *)
(* Each request is one process whose awaits are where the others run: the  *)
(* answer of a source, and the end of a transfer.                          *)
(***************************************************************************)
EXTENDS Naturals, Sequences, FiniteSets, Functions

CONSTANTS
  Client,     \* requests to /rest/stream
  Proxy,      \* requests of peers to /federation/stream/:id
  Local,      \* the id of this hub's own instance
  Peer,       \* the ids of its peers
  Ranking,    \* what rankedSourcesForStream can return
  RowId,      \* random ids of rows, compared as text by the retention
  Retention,  \* values of activity_history_max_events, 0 for unlimited
  MaxRequests, \* bound: how many of the requests are made
  LastSecond, \* bound: started_at is one of the seconds 0 .. LastSecond
  None

Source == Peer \cup {Local}
Stream == Client \cup Proxy

ASSUME SourceAssumption == Local \notin Peer /\ None \notin Source
ASSUME NoneAssumption == None \notin [source : Source \cup {None}, status : {200, 404, 502}]
ASSUME StreamAssumption == Client \cap Proxy = {}
ASSUME RankingAssumption == Ranking \subseteq Seq(Source)
ASSUME RowAssumption == RowId \subseteq Nat /\ IsFiniteSet(RowId) /\ None \notin RowId
ASSUME BoundAssumption ==
  Retention \subseteq Nat /\ MaxRequests \in Nat /\ LastSecond \in Nat

VARIABLES
  inactive,  \* peers whose lifecycle is not 'active' in the registry
  suspect,   \* sources whose failedAt is younger than suspectTtlMs
  walk,      \* walk[c]: where request c is in handleStream
  gone,      \* requests whose socket the client has closed
  proxy,     \* proxy[p]: where peer request p is in its handler
  row,       \* row[r]: the id of the row request r started
  rows,      \* table stream_operations
  active,    \* StreamTrackingService.active
  maxRows,   \* StreamTrackingService.maxRows
  second     \* datetime('now')

log == <<row, rows, active>>
vars == <<inactive, suspect, walk, gone, proxy, log, maxRows, second>>

-----------------------------------------------------------------------------
\* A failed attempt: the status the caller would be told, and whether it says
\* something about the instance or only about this track.
EnvelopeFailure == {[status |-> 404, fault |-> FALSE], [status |-> 502, fault |-> FALSE]}

\* An HTTP error (404, another 4xx, 5xx), no headers in time, or no body.
HttpFailure == EnvelopeFailure \cup {[status |-> 502, fault |-> TRUE]}

Failure == EnvelopeFailure \cup HttpFailure

Unavailable == [status |-> 502, fault |-> FALSE]

\* The state of a request: "next" is the top of the loop, "waiting" the await of
\* fetchFromSource, then "piping" and "done"; failed holds the attempts so far, and
\* told is what the client was answered, by which source or for whose failure.
\* ranked, the rows of the query, only serves the properties.
At(pc, told) == [pc |-> pc, todo |-> <<>>, failed |-> <<>>, ranked |-> <<>>, told |-> told]

\* ended is "no" while its stream runs, then "ok", "error" or "interrupted".
NoRow == [second |-> 0, source |-> None, ended |-> "absent"]

Init ==
  /\ inactive = {}
  /\ suspect = {}
  /\ walk = [c \in Client |-> At("new", None)]
  /\ gone = {}
  /\ proxy = [p \in Proxy |-> "new"]
  /\ row = [r \in Stream |-> None]
  /\ rows = [i \in RowId |-> NoRow]
  /\ active = {}
  /\ maxRows \in Retention
  /\ second = 0

-----------------------------------------------------------------------------
(* The activity log. *)

Present(rs) == {i \in RowId : rs[i] # NoRow}

\* Rows before row i in ORDER BY started_at DESC, id DESC.
Newer(rs, i) ==
  {j \in Present(rs) :
     rs[j].second > rs[i].second \/ (rs[j].second = rs[i].second /\ j > i)}

\* Mutant: rows of running streams are pruned like any other.
PrunedAtAnyTime(rs, max) ==
  [i \in RowId |-> IF max > 0 /\ Cardinality(Newer(rs, i)) >= max THEN NoRow ELSE rs[i]]

Pruned(rs, max) ==
  [i \in RowId |->
     IF max > 0 /\ rs[i].ended # "no" /\ Cardinality(Newer(rs, i)) >= max THEN NoRow ELSE rs[i]]

Started(id, s) == [rows EXCEPT ![id] = [second |-> second, source |-> s, ended |-> "no"]]
Ended(rs, id, how) == Pruned([rs EXCEPT ![id].ended = how], maxRows)

FreshRow == RowId \ {row[r] : r \in Stream}

Start(r, s) ==
  \E id \in FreshRow :
    /\ row' = [row EXCEPT ![r] = id]
    /\ rows' = Started(id, s)
    /\ active' = active \cup {id}

\* start() and finish() with nothing in between: the row of a failed walk.
StartAndFinish(r, s) ==
  \E id \in FreshRow :
    /\ row' = [row EXCEPT ![r] = id]
    /\ rows' = Ended(Started(id, s), id, "error")
    /\ UNCHANGED active

\* finish() of an operation that is no longer active does nothing.
Finish(r, how) ==
  /\ rows' = IF row[r] \in active THEN Ended(rows, row[r], how) ELSE rows
  /\ active' = active \ {row[r]}
  /\ UNCHANGED row

SetMaxRows(n) ==
  /\ maxRows' = n
  /\ rows' = Pruned(rows, n)
  /\ UNCHANGED <<inactive, suspect, walk, gone, proxy, row, active, second>>

ClearAll ==
  /\ rows' = [i \in RowId |-> NoRow]
  /\ active' = {}
  /\ UNCHANGED <<inactive, suspect, walk, gone, proxy, row, maxRows, second>>

-----------------------------------------------------------------------------
(* /rest/stream. *)

MoreRequests ==
  Cardinality({c \in Client : walk[c].pc # "new"} \cup {p \in Proxy : proxy[p] # "new"})
    < MaxRequests

\* SourceHealth.order: healthy candidates first, both groups as ranked.
Orders(ranked) ==
  LET Rank == DOMAIN ranked
      Suspect(i) == ranked[i] \in suspect
      Before(i, j) == IF Suspect(i) = Suspect(j) THEN i < j ELSE Suspect(j)
      Places == {p \in Bijection(Rank, Rank) :
                   \A i, j \in Rank : i < j => Before(p[i], p[j])}
  IN  {[i \in Rank |-> ranked[p[i]]] : p \in Places}

Arrive(c) ==
  /\ walk[c].pc = "new" /\ MoreRequests
  /\ \E ranked \in Ranking :
       \/ /\ ranked = <<>>
          /\ walk' = [walk EXCEPT ![c] = At("done", [source |-> None, status |-> 404])]
       \/ /\ ranked # <<>>
          /\ \E order \in Orders(ranked) :
               walk' = [walk EXCEPT ![c].pc = "next", ![c].todo = order, ![c].ranked = ranked]
  /\ UNCHANGED <<inactive, suspect, gone, proxy, log, maxRows, second>>

\* Mutant: the last failure is reported.
LastFailure(failed) == failed[Len(failed)]

\* worstFailure: the last of those with the highest status.
Worst(failed) ==
  LET Outranks(i, j) == failed[i].status > failed[j].status
                        \/ (failed[i].status = failed[j].status /\ i >= j)
  IN failed[CHOOSE i \in DOMAIN failed : \A j \in DOMAIN failed : Outranks(i, j)]

\* Mutant: the source tried last is logged, whichever failure is told.
FailLoggingLast(c, failure) ==
  LET source == Head(walk[c].todo)
      rest == Tail(walk[c].todo)
      failed == Append(walk[c].failed, [source |-> source, status |-> failure.status])
  IN /\ suspect' = IF failure.fault THEN suspect \cup {source} ELSE suspect
     /\ \/ /\ rest # <<>>
           /\ walk' = [walk EXCEPT ![c].pc = "next", ![c].todo = rest, ![c].failed = failed]
           /\ UNCHANGED log
        \/ /\ rest = <<>>
           /\ walk' = [walk EXCEPT ![c] = At("done", Worst(failed))]
           /\ StartAndFinish(c, source)
     /\ UNCHANGED <<inactive, gone, proxy, maxRows, second>>

\* A source failed; after the last one the worst failure is logged and told.
Fail(c, failure) ==
  LET source == Head(walk[c].todo)
      rest == Tail(walk[c].todo)
      failed == Append(walk[c].failed, [source |-> source, status |-> failure.status])
  IN /\ suspect' = IF failure.fault THEN suspect \cup {source} ELSE suspect
     /\ \/ /\ rest # <<>>
           /\ walk' = [walk EXCEPT ![c].pc = "next", ![c].todo = rest, ![c].failed = failed]
           /\ UNCHANGED log
        \/ /\ rest = <<>>
           /\ walk' = [walk EXCEPT ![c] = At("done", Worst(failed))]
           /\ StartAndFinish(c, Worst(failed).source)
     /\ UNCHANGED <<inactive, gone, proxy, maxRows, second>>

\* The top of the loop: a client that has gone is left unanswered, a peer that
\* is not active is not asked.
GiveUp(c) ==
  /\ walk[c].pc = "next"
  /\ c \in gone
  /\ walk' = [walk EXCEPT ![c] = At("done", None)]
  /\ UNCHANGED <<inactive, suspect, gone, proxy, log, maxRows, second>>

SkipInactive(c) ==
  /\ walk[c].pc = "next"
  /\ c \notin gone
  /\ Head(walk[c].todo) \in inactive
  /\ Fail(c, Unavailable)

Ask(c) ==
  /\ walk[c].pc = "next"
  /\ c \notin gone
  /\ Head(walk[c].todo) \notin inactive
  /\ walk' = [walk EXCEPT ![c].pc = "waiting"]
  /\ UNCHANGED <<inactive, suspect, gone, proxy, log, maxRows, second>>

SourceFails(c) ==
  /\ walk[c].pc = "waiting"
  /\ \E failure \in Failure : Fail(c, failure)

\* Headers of audio arrived: the walk ends, the row starts, bytes are piped.
SourceServes(c) ==
  LET source == Head(walk[c].todo)
  IN /\ walk[c].pc = "waiting"
     /\ suspect' = suspect \ {source}
     /\ walk' = [walk EXCEPT ![c] = At("piping", [source |-> source, status |-> 200])]
     /\ Start(c, source)
     /\ UNCHANGED <<inactive, gone, proxy, maxRows, second>>

Disconnect(c) ==
  /\ walk[c].pc \in {"next", "waiting", "piping"} /\ c \notin gone
  /\ gone' = gone \cup {c}
  /\ UNCHANGED <<inactive, suspect, walk, proxy, log, maxRows, second>>

\* Mutant: a bare pipe() hears nothing of a client that left.
PipeEndsByItself(c) ==
  /\ walk[c].pc = "piping" /\ c \notin gone
  /\ walk' = [walk EXCEPT ![c] = At("done", @.told)]
  /\ \E how \in {"ok", "error"} : Finish(c, how)
  /\ UNCHANGED <<inactive, suspect, gone, proxy, maxRows, second>>

\* pipeline() settles: all sent, the source broke off, or the client left, which
\* is no error.
PipeEnds(c) ==
  /\ walk[c].pc = "piping"
  /\ walk' = [walk EXCEPT ![c].pc = "done"]
  /\ \E how \in IF c \in gone THEN {"ok"} ELSE {"ok", "error"} : Finish(c, how)
  /\ UNCHANGED <<inactive, suspect, gone, proxy, maxRows, second>>

-----------------------------------------------------------------------------
(* /federation/stream/:id. *)

ProxyArrive(p) ==
  /\ proxy[p] = "new" /\ MoreRequests
  /\ proxy' = [proxy EXCEPT ![p] = "waiting"]
  /\ UNCHANGED <<inactive, suspect, walk, gone, log, maxRows, second>>

\* Navidrome's answer: an error or an envelope ends the request; anything else is
\* piped, and logged when it is 2xx and the track is in the unified library.
ProxyAnswered(p) ==
  /\ proxy[p] = "waiting"
  /\ \/ proxy' = [proxy EXCEPT ![p] = "refused"] /\ UNCHANGED log
     \/ proxy' = [proxy EXCEPT ![p] = "piping"] /\ UNCHANGED log
     \/ proxy' = [proxy EXCEPT ![p] = "piping"] /\ Start(p, Local)
  /\ UNCHANGED <<inactive, suspect, walk, gone, maxRows, second>>

ProxyEnds(p) ==
  /\ proxy[p] = "piping"
  /\ proxy' = [proxy EXCEPT ![p] = "served"]
  /\ \E how \in {"ok", "error"} : Finish(p, how)
  /\ UNCHANGED <<inactive, suspect, walk, gone, maxRows, second>>

-----------------------------------------------------------------------------
(* Time, the federation and the process. *)

Tick ==
  /\ second < LastSecond
  /\ second' = second + 1
  /\ UNCHANGED <<inactive, suspect, walk, gone, proxy, log, maxRows>>

\* suspectTtlMs has passed since the failure.
Cool(s) ==
  /\ suspect' = suspect \ {s}
  /\ UNCHANGED <<inactive, walk, gone, proxy, log, maxRows, second>>

\* The owner disables, enables or evicts a peer (module Federation).
SetLifecycle(p) ==
  /\ inactive' = IF p \in inactive THEN inactive \ {p} ELSE inactive \cup {p}
  /\ UNCHANGED <<suspect, walk, gone, proxy, log, maxRows, second>>

\* The process dies and boots: sockets close, the constructor closes the rows
\* it finds open, and setMaxRows prunes.
Restart ==
  /\ suspect' = {}
  /\ walk' = [c \in Client |->
                IF walk[c].pc = "new" THEN walk[c] ELSE At("done", walk[c].told)]
  /\ gone' = {c \in Client : walk[c].pc # "new"}
  /\ proxy' = [p \in Proxy |->
                 CASE proxy[p] = "waiting" -> "dropped"
                   [] proxy[p] = "piping" -> "served"
                   [] OTHER -> proxy[p]]
  /\ rows' = Pruned([i \in RowId |->
                IF rows[i].ended = "no" THEN [rows[i] EXCEPT !.ended = "interrupted"] ELSE rows[i]],
              maxRows)
  /\ active' = {}
  /\ UNCHANGED <<inactive, row, maxRows, second>>

Next ==
  \/ \E c \in Client :
       \/ Arrive(c) \/ GiveUp(c) \/ SkipInactive(c) \/ Ask(c) \/ SourceFails(c) \/ SourceServes(c)
       \/ Disconnect(c) \/ PipeEnds(c)
  \/ \E p \in Proxy : ProxyArrive(p) \/ ProxyAnswered(p) \/ ProxyEnds(p)
  \/ \E n \in Retention : SetMaxRows(n)
  \/ ClearAll
  \/ Tick
  \/ \E s \in Source : Cool(s)
  \/ \E p \in Peer : SetLifecycle(p)
  \/ Restart

\* A source answers or the connect timer aborts the attempt; a pipe whose
\* client has gone is torn down.  Nothing makes a client read on.
Fairness ==
  \A c \in Client :
    /\ WF_vars(GiveUp(c) \/ SkipInactive(c) \/ Ask(c))
    /\ WF_vars(SourceFails(c) \/ SourceServes(c))
    /\ WF_vars(c \in gone /\ PipeEnds(c))

Spec == Init /\ [][Next]_vars
FairSpec == Spec /\ Fairness

-----------------------------------------------------------------------------
(* Properties. *)

\* What the log says of a request is what its client was told: the source that
\* served it, or the one whose failure was the answer, marked as an error.
LogMatchesAnswer ==
  \A c \in Client :
    (row[c] # None /\ rows[row[c]] # NoRow) =>
      /\ rows[row[c]].source = walk[c].told.source
      /\ walk[c].told.status # 200 => rows[row[c]].ended = "error"

\* A client is refused only when every ranked source was tried, once, whoever was
\* suspect; "not found" means that none of them failed in any other way.
RefusedAfterAll ==
  [][\A c \in Client :
       (walk[c].pc \in {"next", "waiting"} /\ walk'[c].told # None /\ walk'[c].told.status # 200) =>
         LET before == walk[c].failed
             Tried(i) == before[i].source
         IN /\ Range(walk[c].ranked) = {Tried(i) : i \in DOMAIN before} \cup {Head(walk[c].todo)}
            /\ Len(before) + 1 = Len(walk[c].ranked)
            /\ walk'[c].told.status = 404 => \A i \in DOMAIN before : before[i].status = 404]_vars

\* The promise of StreamService is kept.
Answer(r) ==
  IF r \in Client
    THEN CASE walk[r].told = None -> IF walk[r].pc = "done" THEN "dropped" ELSE None
           [] walk[r].told # None /\ walk[r].told.status = 200 -> walk[r].told.source
           [] OTHER -> "refused"
    ELSE CASE proxy[r] \in {"piping", "served"} -> Local
           [] proxy[r] \in {"new", "waiting"} -> None
           [] OTHER -> proxy[r]

Entry(r) ==
  IF row[r] = None THEN "none"
  ELSE CASE rows[row[r]].ended = "absent" -> "forgotten"
         [] rows[row[r]].ended = "no" -> "open"
         [] OTHER -> "closed"

Service ==
  INSTANCE StreamService WITH
    answer <- [r \in Stream |-> Answer(r)],
    entry <- [r \in Stream |-> Entry(r)]

\* The walk, the breaker, the row ids and the retention implement StreamService:
\* one answer per request, one entry at most, never reopened, never lost while
\* its stream runs, closed by its own end or by a crash.
ImplementsService == Service!Spec

\* A request that walks the sources, or whose client has gone, ends up served to
\* a client that is there, or over: it lets go of its source and its row though
\* the source stalls for ever (#263).
ClientsAreFreed ==
  \A c \in Client :
    (walk[c].pc \in {"next", "waiting"} \/ c \in gone) ~>
      (walk[c].pc = "done" \/ (walk[c].pc = "piping" /\ c \notin gone))
=============================================================================
