---------------------------- MODULE NavidromeMonitor ----------------------------
(***************************************************************************)
(* The fault detection in front of Navidrome: what real traffic shows      *)
(* (record), the probe that pings and pulls the head of a track, shared by *)
(* concurrent callers and cached for a while, and the readiness answer     *)
(* made of both.  Time is counted in ticks.                                *)
(***************************************************************************)
EXTENDS Integers, Sequences

CONSTANTS
  Ttl,           \* probeTtlMs, in ticks
  LegTimeout,    \* pingTimeoutMs and streamTimeoutMs, in ticks
  Threshold,     \* streamFailureThreshold
  Candidates,    \* what probeCandidates can return: whether each track plays
  LastTick,      \* bound: how far the age of a state of Navidrome is counted
  None

TimeAssumption ==
  Ttl \in Nat \ {0} /\ LegTimeout \in Nat \ {0} /\ LastTick \in Nat /\ LastTick > Ttl
ThresholdAssumption == Threshold \in Nat \ {0}
CandidateAssumption == Candidates \subseteq Seq(BOOLEAN) /\ None \notin {"ok", "degraded"}

VARIABLES
  navidrome,  \* "well", "silent" (pings, but streams no audio) or "down"
  since,      \* ticks since navidrome changed
  faults,     \* consecutiveStreamFailures, counted up to the threshold
  cache,      \* cached: its checks
  age,        \* ticks since cachedAt, counted up to the TTL
  probe,      \* inFlight: its leg, or None
  waiting,    \* whether a reader of /api/health/ready has joined it
  answered    \* what the last step answered a reader

monitorVars == <<navidrome, since, faults, cache, age, probe, waiting, answered>>

Check == {"ok", "failed", "skipped"}
Checks == [ping : {"ok", "failed"}, stream : Check]

\* The ping, then the candidates that are left to try.
Leg == [left : {None} \cup (Seq(BOOLEAN) \ {<<>>}), elapsed : 0 .. LegTimeout]

Init ==
  /\ navidrome \in {"well", "silent", "down"}
  /\ since = 0
  /\ faults = 0
  /\ cache = None
  /\ age = 0
  /\ probe = None
  /\ waiting = FALSE
  /\ answered = None

-----------------------------------------------------------------------------
(* Navidrome, and the traffic through it.                                  *)

Become(state) ==
  /\ navidrome # state
  /\ navidrome' = state
  /\ since' = 0
  /\ answered' = None
  /\ UNCHANGED <<faults, cache, age, probe, waiting>>

Least(m, n) == IF m <= n THEN m ELSE n

Older == Least(age + 1, Ttl)

\* A call that is timed out does not outlive its tick.
Tick ==
  /\ probe # None => probe.elapsed < LegTimeout
  /\ since' = Least(since + 1, LastTick)
  /\ age' = IF cache = None THEN age ELSE Older
  /\ probe' = IF probe = None THEN None ELSE [probe EXCEPT !.elapsed = @ + 1]
  /\ answered' = None
  /\ UNCHANGED <<navidrome, faults, cache, waiting>>

\* record(): a stream or download of a listener succeeds.
StreamOk ==
  /\ navidrome = "well"
  /\ faults' = 0
  /\ answered' = None
  /\ UNCHANGED <<navidrome, since, cache, age, probe, waiting>>

\* record(): one ends in a 5xx or without an answer, which a track of its own
\* can cause too.  4xx, error envelopes and the probe's calls count for nothing.
StreamFault ==
  /\ faults' = Least(faults + 1, Threshold)
  /\ answered' = None
  /\ UNCHANGED <<navidrome, since, cache, age, probe, waiting>>

-----------------------------------------------------------------------------
(* The probe.                                                              *)

Rollup(checks) ==
  IF checks.ping = "failed" \/ checks.stream = "failed" \/ faults >= Threshold
    THEN "degraded" ELSE "ok"

Start == probe' = [left |-> None, elapsed |-> 0]

\* The interval fires; it forces a probe, or joins the one in flight.
Watchdog ==
  /\ probe = None
  /\ Start
  /\ answered' = None
  /\ UNCHANGED <<navidrome, since, faults, cache, age, waiting>>

\* Mutant: a cached report is given as it was made, with the counters of then.
CachedAsMade(checks) ==
  IF checks.ping = "failed" \/ checks.stream = "failed" THEN "degraded" ELSE "ok"

CachedAnswer(checks) == Rollup(checks)

\* GET /api/health/ready: the cached report under the live counters ...
ReadyFromCache ==
  /\ cache # None /\ age < Ttl
  /\ answered' = CachedAnswer(cache)
  /\ UNCHANGED <<navidrome, since, faults, cache, age, probe, waiting>>

\* ... or the probe in flight, or a new one.
ReadyAwaits ==
  /\ cache = None \/ age >= Ttl
  /\ waiting' = TRUE
  /\ IF probe = None THEN Start ELSE UNCHANGED probe
  /\ answered' = None
  /\ UNCHANGED <<navidrome, since, faults, cache, age>>

\* The report is cached, and those who wait for it get it.
Report(checks) ==
  /\ cache' = checks
  /\ age' = 0
  /\ probe' = None
  /\ waiting' = FALSE
  /\ answered' = IF waiting THEN Rollup(checks) ELSE None

PingFails ==
  /\ probe # None /\ probe.left = None
  /\ navidrome = "down"
  /\ Report([ping |-> "failed", stream |-> "skipped"])
  /\ UNCHANGED <<navidrome, since, faults>>

\* The stream leg begins, unless the catalog has nothing to stream.
PingOk(tracks) ==
  /\ probe # None /\ probe.left = None
  /\ navidrome # "down"
  /\ IF tracks = <<>>
       THEN Report([ping |-> "ok", stream |-> "skipped"])
       ELSE /\ probe' = [left |-> tracks, elapsed |-> 0]
            /\ answered' = None
            /\ UNCHANGED <<cache, age, waiting>>
  /\ UNCHANGED <<navidrome, since, faults>>

Pulling == probe # None /\ probe.left # None

Plays == navidrome = "well" /\ Head(probe.left)

PullOk ==
  /\ Pulling /\ Plays
  /\ Report([ping |-> "ok", stream |-> "ok"])
  /\ UNCHANGED <<navidrome, since, faults>>

\* Mutant: the first candidate decides.
NoneLeft == TRUE

LastCandidate == Tail(probe.left) = <<>>

\* One track that does not play is no fault of Navidrome's; all of them are.
PullFails ==
  /\ Pulling /\ ~Plays
  /\ IF LastCandidate
       THEN Report([ping |-> "ok", stream |-> "failed"])
       ELSE /\ probe' = [left |-> Tail(probe.left), elapsed |-> 0]
            /\ answered' = None
            /\ UNCHANGED <<cache, age, waiting>>
  /\ UNCHANGED <<navidrome, since, faults>>

-----------------------------------------------------------------------------
ProbeStep ==
  \/ PingFails
  \/ \E tracks \in Candidates : PingOk(tracks)
  \/ PullOk
  \/ PullFails

Next ==
  \/ \E state \in {"well", "silent", "down"} : Become(state)
  \/ Tick
  \/ StreamOk
  \/ StreamFault
  \/ Watchdog
  \/ ReadyFromCache
  \/ ReadyAwaits
  \/ ProbeStep

\* Time passes, and each leg of a probe ends, by its timeout if nothing else.
Fairness == WF_monitorVars(Tick) /\ WF_monitorVars(ProbeStep)

Spec == Init /\ [][Next]_monitorVars /\ Fairness

-----------------------------------------------------------------------------
(* Properties.                                                             *)

TypeOK ==
  /\ navidrome \in {"well", "silent", "down"}
  /\ since \in 0 .. LastTick
  /\ faults \in 0 .. Threshold
  /\ cache \in Checks \cup {None}
  /\ age \in 0 .. Ttl
  /\ probe \in Leg \cup {None}
  /\ waiting \in BOOLEAN
  /\ answered \in {"ok", "degraded", None}

\* health.ts:8-10: readiness is what makes an outage visible.  No reader is
\* told "ok" once Navidrome has been without audio for longer than a report
\* may be cached, unless the catalog has no track to notice the silence with;
\* and navidrome-monitor.ts:341-343: "real-traffic faults that started after
\* the probe ran degrade readiness now, not at the next probe", whichever of
\* the three ways the reader gets its answer.
FaultShows ==
  answered = "ok" =>
    /\ faults < Threshold
    /\ \/ navidrome = "well"
       \/ since <= Ttl
       \/ navidrome = "silent" /\ cache.stream = "skipped"

WellAtLast == <>[](navidrome = "well") /\ <>[][~StreamFault]_monitorVars

\* A hub whose Navidrome has become well and whose listeners stream again is
\* ready again, for good.
Recovers ==
  WellAtLast /\ WF_monitorVars(StreamOk) => <>[](answered # "degraded")
=============================================================================
