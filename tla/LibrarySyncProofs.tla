-------------------------- MODULE LibrarySyncProofs --------------------------
(***************************************************************************)
(* Proofs about LibrarySync, for any peers, requests, tracks, albums,      *)
(* libraries and thresholds.  The types and the tie of the owner's         *)
(* acceptance to a hold are inductive as they stand; what a step may       *)
(* delete follows from them.                                               *)
(***************************************************************************)
EXTENDS LibrarySync, FiniteSetTheorems, TLAPS

\* The hub's own library is an instance.
LEMMA LocalFacts == Local \in Instance
BY DEF Instance

\* What a sync has read counts for no more than all the tracks there are.
LEMMA SeenFacts ==
  ASSUME TypeOK, NEW c \in Caller
  PROVE  Seen(c) \in 0 .. Cardinality(Track)
<1>1. pass[c] \in Pass
  BY DEF TypeOK
<1>2. pass[c].seen \subseteq Track
  BY <1>1 DEF Pass
<1>3. IsFiniteSet(Track)
  BY TrackAssumption
<1>4. Cardinality(pass[c].seen) <= Cardinality(Track) /\ IsFiniteSet(pass[c].seen)
  BY <1>2, <1>3, FS_Subset
<1>5. Cardinality(pass[c].seen) \in Nat /\ Cardinality(Track) \in Nat
  BY <1>3, <1>4, FS_CardinalityType
<1> QED
  BY <1>4, <1>5 DEF Seen

\* A caller between two syncs has the type of one that is reading.
LEMMA PausedFacts ==
  ASSUME NEW stage \in {"idle", "between"}, NEW queue \in SUBSET Instance
  PROVE  /\ Paused(stage, queue) \in Pass
         /\ Paused(stage, queue).stage = stage
         /\ Paused(stage, queue).queue = queue
BY LocalFacts DEF Paused, Pass

\* The part of the type invariant that is about the callers.
PassOK ==
  /\ pass \in [Caller -> Pass]
  /\ \A c \in Caller : pass[c].stage \in {"idle", "between"} =>
       pass[c] = Paused(pass[c].stage, pass[c].queue)

\* A caller that comes to rest keeps its part of the invariant.
LEMMA RestKeepsPassOK ==
  ASSUME PassOK, NEW c \in Caller, NEW stage \in {"idle", "between"},
         NEW queue \in SUBSET Instance,
         pass' = [pass EXCEPT ![c] = Paused(stage, queue)]
  PROVE  PassOK'
<1>1. Paused(stage, queue) \in Pass
  BY PausedFacts
<1>2. pass \in [Caller -> Pass]
  BY DEF PassOK
<1>3. pass' \in [Caller -> Pass]
  BY <1>1, <1>2
<1>4. ASSUME NEW d \in Caller, pass'[d].stage \in {"idle", "between"}
      PROVE  pass'[d] = Paused(pass'[d].stage, pass'[d].queue)
  <2>1. CASE d = c
    <3>1. pass'[d] = Paused(stage, queue)
      BY <1>2, <2>1
    <3> QED
      BY <3>1, PausedFacts
  <2>2. CASE d # c
    <3>1. pass'[d] = pass[d]
      BY <1>2, <2>2
    <3> QED
      BY <1>4, <3>1 DEF PassOK
  <2> QED
    BY <2>1, <2>2
<1> QED
  BY <1>3, <1>4 DEF PassOK

\* So does one that is asking or reading, whatever it has read.
LEMMA WorkKeepsPassOK ==
  ASSUME PassOK, NEW c \in Caller, NEW p \in Pass,
         p.stage \in {"asking", "reading"},
         pass' = [pass EXCEPT ![c] = p]
  PROVE  PassOK'
<1>1. pass \in [Caller -> Pass]
  BY DEF PassOK
<1>2. pass' \in [Caller -> Pass]
  BY <1>1
<1>3. ASSUME NEW d \in Caller, pass'[d].stage \in {"idle", "between"}
      PROVE  pass'[d] = Paused(pass'[d].stage, pass'[d].queue)
  <2>1. d # c
    BY <1>1, <1>3
  <2>2. pass'[d] = pass[d]
    BY <1>1, <2>1
  <2> QED
    BY <1>3, <2>2 DEF PassOK
<1> QED
  BY <1>2, <1>3 DEF PassOK

\* The rest of the type invariant: what the database and Navidrome hold.
DataOK ==
  /\ library \in [Instance -> Library]
  /\ unsynced \in [Instance -> BOOLEAN]
  /\ tracks \in [Instance -> SUBSET Track]
  /\ track_count \in [Instance -> 0 .. Cardinality(Track)]
  /\ held \in [Instance -> BOOLEAN]
  /\ accepted \in [Instance -> BOOLEAN]

\* The two halves in which the type invariant is proved.
LEMMA TypeParts == TypeOK <=> DataOK /\ PassOK
BY DEF TypeOK, DataOK, PassOK

-----------------------------------------------------------------------------
(* Types.                                                                  *)

\* A hub that was just installed has the types.
LEMMA InitType == Init => TypeOK
<1> SUFFICES ASSUME Init PROVE TypeOK
  OBVIOUS
<1>1. 0 \in 0 .. Cardinality(Track)
  BY TrackAssumption, FS_CardinalityType
<1>2. DataOK
  BY <1>1 DEF Init, DataOK
<1>3. Idle = Paused("idle", {}) /\ Idle \in Pass /\ Idle.stage = "idle" /\ Idle.queue = {}
  BY PausedFacts DEF Idle
<1>4. PassOK
  BY <1>3 DEF Init, PassOK
<1> QED
  BY <1>2, <1>4, TypeParts

\* A caller leaves an instance with its queue as it was.
LEMMA LeaveKeepsPassOK ==
  ASSUME PassOK, NEW c \in Caller, Leave(c)
  PROVE  PassOK'
<1>1. pass[c].queue \in SUBSET Instance
  BY DEF PassOK, Pass
<1> QED
  BY <1>1, RestKeepsPassOK DEF Leave

\* Each step of a sync keeps the types.
LEMMA StepKeepsType ==
  ASSUME TypeOK, NEW c \in Caller, Step(c)
  PROVE  TypeOK'
<1> DEFINE i == pass[c].at
<1>0. DataOK /\ PassOK
  BY TypeParts
<1>p. pass[c] \in Pass
  BY <1>0 DEF PassOK
<1>i. i \in Instance /\ pass[c].queue \in SUBSET Instance
  BY <1>p DEF Pass
<1>1. ASSUME NEW j \in Instance, Skip(c, j) PROVE TypeOK'
  <2> DEFINE q == pass[c].queue \ {j}
  <2>1. q \in SUBSET Instance
    BY <1>i
  <2>2. pass' = [pass EXCEPT ![c] = Paused("between", q)]
    BY <1>1 DEF Skip
  <2>5. PassOK'
    <3> HIDE DEF q
    <3> QED
      BY <2>1, <2>2, <1>0, RestKeepsPassOK
  <2>6. DataOK'
    BY <1>0, <1>1 DEF Skip, DataOK, rows
  <2> QED
    BY <2>5, <2>6 DEF TypeOK, DataOK, PassOK
<1>2. ASSUME NEW j \in Instance, TakeUp(c, j) PROVE TypeOK'
  <2> DEFINE p == [pass[c] EXCEPT !.stage = "asking", !.at = j, !.queue = @ \ {j}]
  <2>1. p \in Pass /\ p.stage = "asking"
    BY <1>p, <1>2 DEF Pass
  <2>2. pass' = [pass EXCEPT ![c] = p]
    BY <1>2, <1>0 DEF TakeUp, PassOK
  <2>3. PassOK'
    BY <2>1, <2>2, <1>0, WorkKeepsPassOK
  <2>4. DataOK'
    BY <1>0, <1>2 DEF TakeUp, DataOK, rows
  <2> QED
    BY <2>3, <2>4 DEF TypeOK, DataOK, PassOK
<1>3. CASE List(c)
  <2> DEFINE albums == {a \in Album : Songs[a] \cap library[i] # {}}
             p == [pass[c] EXCEPT !.stage = "reading", !.todo = albums]
  <2>1. p \in Pass /\ p.stage = "reading"
    BY <1>p DEF Pass
  <2>2. pass' = [pass EXCEPT ![c] = p]
    BY <1>3, <1>0 DEF List, PassOK
  <2>3. PassOK'
    BY <2>1, <2>2, <1>0, WorkKeepsPassOK
  <2>4. DataOK'
    BY <1>0, <1>3 DEF List, DataOK, rows
  <2> QED
    BY <2>3, <2>4 DEF TypeOK, DataOK, PassOK
<1>4. CASE Unreachable(c)
  <2>1. PassOK'
    BY <1>0, <1>4, LeaveKeepsPassOK DEF Unreachable
  <2>2. tracks' \in [Instance -> SUBSET Track]
    BY <1>0, <1>4 DEF Unreachable, DataOK
  <2>3. 0 \in 0 .. Cardinality(Track)
    BY TrackAssumption, FS_CardinalityType
  <2>4. track_count' \in [Instance -> 0 .. Cardinality(Track)]
    BY <2>3, <1>0, <1>4 DEF Unreachable, DataOK
  <2>5. DataOK'
    BY <2>2, <2>4, <1>0, <1>4 DEF Unreachable, DataOK
  <2> QED
    BY <2>1, <2>5 DEF TypeOK, DataOK, PassOK
<1>5. ASSUME NEW a \in Album, Fetch(c, a) PROVE TypeOK'
  <2> DEFINE songs == Songs[a] \cap library[i]
             p == [pass[c] EXCEPT !.todo = @ \ {a}, !.seen = @ \cup songs]
  <2>1. songs \subseteq Track
    BY TrackAssumption
  <2>2. a \in pass[c].todo
    BY <1>5 DEF Fetch
  <2>3. p \in Pass /\ p.stage = pass[c].stage
    BY <1>p, <2>1 DEF Pass
  <2>4. pass[c].stage \notin {"idle", "between"}
    BY <2>2, <1>0 DEF PassOK, Paused
  <2>5. p.stage \in {"asking", "reading"}
    BY <2>3, <2>4, <1>p DEF Pass
  <2>6. pass' = [pass EXCEPT ![c] = p]
    BY <1>5, <1>0 DEF Fetch, PassOK
  <2>7. PassOK'
    BY <2>3, <2>5, <2>6, <1>0, WorkKeepsPassOK
  <2>8. tracks' = [tracks EXCEPT ![i] = @ \cup songs]
    BY <1>5 DEF Fetch
  <2>9. tracks' \in [Instance -> SUBSET Track]
    BY <2>1, <2>8, <1>0 DEF DataOK
  <2>10. DataOK'
    BY <2>9, <1>0, <1>5 DEF Fetch, DataOK
  <2> QED
    BY <2>7, <2>10 DEF TypeOK, DataOK, PassOK
<1>6. ASSUME NEW a \in Album, FetchFail(c, a) PROVE TypeOK'
  <2> DEFINE p == [pass[c] EXCEPT !.todo = @ \ {a}, !.failed = TRUE]
  <2>1. a \in pass[c].todo
    BY <1>6 DEF FetchFail
  <2>2. p \in Pass /\ p.stage = pass[c].stage
    BY <1>p DEF Pass
  <2>3. pass[c].stage \notin {"idle", "between"}
    BY <2>1, <1>0 DEF PassOK, Paused
  <2>4. p.stage \in {"asking", "reading"}
    BY <2>2, <2>3, <1>p DEF Pass
  <2>5. pass' = [pass EXCEPT ![c] = p]
    BY <1>6, <1>0 DEF FetchFail, PassOK
  <2>6. PassOK'
    BY <2>2, <2>4, <2>5, <1>0, WorkKeepsPassOK
  <2>7. DataOK'
    BY <1>0, <1>6 DEF FetchFail, DataOK, rows
  <2> QED
    BY <2>6, <2>7 DEF TypeOK, DataOK, PassOK
<1>7. CASE Hold(c)
  <2>1. PassOK'
    BY <1>0, <1>7, LeaveKeepsPassOK DEF Hold
  <2>2. DataOK'
    BY <1>0, <1>7 DEF Hold, DataOK
  <2> QED
    BY <2>1, <2>2 DEF TypeOK, DataOK, PassOK
<1>8. CASE Apply(c)
  <2>1. PassOK'
    BY <1>0, <1>8, LeaveKeepsPassOK DEF Apply
  <2>2. Seen(c) \in 0 .. Cardinality(Track)
    BY SeenFacts
  <2>3. tracks' \in [Instance -> SUBSET Track]
    BY <1>0, <1>8 DEF Apply, Sweep, DataOK
  <2>4. track_count' = [track_count EXCEPT ![i] = Seen(c)]
    BY <1>8 DEF Apply
  <2>5. track_count' \in [Instance -> 0 .. Cardinality(Track)]
    BY <2>2, <2>4, <1>0 DEF DataOK
  <2>6. DataOK'
    BY <2>3, <2>5, <1>0, <1>8 DEF Apply, DataOK
  <2> QED
    BY <2>1, <2>6 DEF TypeOK, DataOK, PassOK
<1>9. CASE GiveUp(c)
  <2>1. PassOK'
    BY <1>0, <1>9, LeaveKeepsPassOK DEF GiveUp
  <2>2. DataOK'
    BY <1>0, <1>9 DEF GiveUp, DataOK, rows
  <2> QED
    BY <2>1, <2>2 DEF TypeOK, DataOK, PassOK
<1>10. CASE End(c)
  <2>1. pass' = [pass EXCEPT ![c] = Paused("idle", {})]
    BY <1>10 DEF End, Idle
  <2> DEFINE q == {}
  <2>2. PassOK'
    <3>1. q \in SUBSET Instance /\ pass' = [pass EXCEPT ![c] = Paused("idle", q)]
      BY <2>1
    <3> HIDE DEF q
    <3> QED
      BY <3>1, <1>0, RestKeepsPassOK
  <2>3. DataOK'
    BY <1>0, <1>10 DEF End, DataOK, rows
  <2> QED
    BY <2>2, <2>3 DEF TypeOK, DataOK, PassOK
<1> QED
  BY <1>1, <1>2, <1>3, <1>4, <1>5, <1>6, <1>7, <1>8, <1>9, <1>10 DEF Step

\* A process that boots again knows nothing of what its callers did.
LEMMA BootKeepsPassOK == pass' = AllIdle => PassOK'
<1>1. Idle = Paused("idle", {}) /\ Idle \in Pass /\ Idle.stage = "idle" /\ Idle.queue = {}
  BY PausedFacts DEF Idle
<1> QED
  BY <1>1 DEF AllIdle, PassOK

\* Each step of the system keeps the types.
LEMMA NextKeepsType ==
  ASSUME TypeOK, [Next]_vars
  PROVE  TypeOK'
<1>0. DataOK /\ PassOK
  BY TypeParts
<1>1. ASSUME NEW i \in Instance, NEW L \in Library, Scan(i, L) PROVE TypeOK'
  <2>1. DataOK'
    BY <1>0, <1>1 DEF Scan, DataOK, rows
  <2>2. PassOK'
    BY <1>0, <1>1 DEF Scan, PassOK
  <2> QED
    BY <2>1, <2>2 DEF TypeOK, DataOK, PassOK
<1>2. ASSUME NEW c \in Caller, Begin(c) PROVE TypeOK'
  <2>1. Visits(c) \in SUBSET Instance
    BY LocalFacts DEF Visits, Instance, Caller
  <2>2. pass' = [pass EXCEPT ![c] = Paused("between", Visits(c))]
    BY <1>2 DEF Begin
  <2>3. PassOK'
    BY <2>1, <2>2, <1>0, RestKeepsPassOK
  <2>4. DataOK'
    BY <1>0, <1>2 DEF Begin, DataOK, rows
  <2> QED
    BY <2>3, <2>4 DEF TypeOK, DataOK, PassOK
<1>3. ASSUME NEW c \in Caller, Step(c) PROVE TypeOK'
  BY <1>3, StepKeepsType
<1>4. ASSUME NEW i \in Instance, AcceptShrink(i) PROVE TypeOK'
  <2>1. DataOK'
    BY <1>0, <1>4 DEF AcceptShrink, DataOK
  <2>2. PassOK'
    BY <1>0, <1>4 DEF AcceptShrink, PassOK
  <2> QED
    BY <2>1, <2>2 DEF TypeOK, DataOK, PassOK
<1>5. CASE ResetPeers
  <2>1. 0 \in 0 .. Cardinality(Track)
    BY TrackAssumption, FS_CardinalityType
  <2>2. tracks' \in [Instance -> SUBSET Track]
    BY <1>0, <1>5, LocalFacts DEF ResetPeers, DataOK
  <2>3. track_count' \in [Instance -> 0 .. Cardinality(Track)]
    BY <2>1, <1>0, <1>5, LocalFacts DEF ResetPeers, DataOK
  <2>4. unsynced' \in [Instance -> BOOLEAN]
    BY <1>0, <1>5 DEF ResetPeers, DataOK
  <2>5. DataOK'
    BY <2>2, <2>3, <2>4, <1>0, <1>5 DEF ResetPeers, DataOK
  <2>6. PassOK'
    BY <1>0, <1>5 DEF ResetPeers, PassOK
  <2> QED
    BY <2>5, <2>6 DEF TypeOK, DataOK, PassOK
<1>6. CASE Restart
  <2>1. PassOK'
    BY <1>6, BootKeepsPassOK DEF Restart
  <2>2. DataOK'
    BY <1>0, <1>6 DEF Restart, DataOK, rows
  <2> QED
    BY <2>1, <2>2 DEF TypeOK, DataOK, PassOK
<1>8. ASSUME NEW c \in Caller, DiesSweeping(c) \/ DiesWiping(c) PROVE TypeOK'
  <2>1. PassOK'
    BY <1>8, BootKeepsPassOK DEF DiesSweeping, DiesWiping
  <2>2. tracks' \in [Instance -> SUBSET Track]
    BY <1>0, <1>8 DEF DiesSweeping, DiesWiping, Sweep, DataOK
  <2>3. DataOK'
    BY <2>2, <1>0, <1>8 DEF DiesSweeping, DiesWiping, DataOK
  <2> QED
    BY <2>1, <2>3 DEF TypeOK, DataOK, PassOK
<1>7. CASE UNCHANGED vars
  <2>1. DataOK' /\ PassOK'
    BY <1>0, <1>7 DEF vars, rows, DataOK, PassOK
  <2> QED
    BY <2>1 DEF TypeOK, DataOK, PassOK
<1> QED
  BY <1>1, <1>2, <1>3, <1>4, <1>5, <1>6, <1>7, <1>8 DEF Next

\* The type invariant holds of every behaviour: no order of requests, scans,
\* failures, acceptances and restarts makes a count exceed the tracks there
\* are or leaves a caller at rest with ids of the sync it has left.
THEOREM LibraryTypeCorrect == Spec => []TypeOK
<1>1. Init => TypeOK
  BY InitType
<1>2. TypeOK /\ [Next]_vars => TypeOK'
  BY NextKeepsType
<1> QED
  BY <1>1, <1>2, PTL DEF Spec

-----------------------------------------------------------------------------
(* The owner's acceptance.                                                 *)

\* A step of a sync that touches neither flag, or sets a hold, or clears both.
LEMMA StepArms ==
  ASSUME TypeOK, ArmedOnlyWhileHeld, NEW c \in Caller, Step(c)
  PROVE  ArmedOnlyWhileHeld'
<1>0. held \in [Instance -> BOOLEAN] /\ accepted \in [Instance -> BOOLEAN]
  BY DEF TypeOK
<1>1. ASSUME NEW j \in Instance, Skip(c, j) \/ TakeUp(c, j) PROVE ArmedOnlyWhileHeld'
  BY <1>1 DEF Skip, TakeUp, rows, ArmedOnlyWhileHeld
<1>2. CASE List(c) \/ Unreachable(c) \/ GiveUp(c) \/ End(c)
  BY <1>2 DEF List, Unreachable, GiveUp, End, rows, ArmedOnlyWhileHeld
<1>3. ASSUME NEW a \in Album, Fetch(c, a) \/ FetchFail(c, a) PROVE ArmedOnlyWhileHeld'
  BY <1>3 DEF Fetch, FetchFail, rows, ArmedOnlyWhileHeld
<1>4. CASE Hold(c)
  BY <1>0, <1>4 DEF Hold, ArmedOnlyWhileHeld
<1>5. CASE Apply(c)
  BY <1>0, <1>5 DEF Apply, ArmedOnlyWhileHeld
<1> QED
  BY <1>1, <1>2, <1>3, <1>4, <1>5 DEF Step

\* accept_shrink_once is armed only while shrink_held_at is set, whatever the
\* syncs, failures, resets and restarts between the owner's click and the sync
\* that uses it: an acceptance cannot outlive the hold it answers.
THEOREM AcceptanceNeverStale == Spec => []ArmedOnlyWhileHeld
<1>1. Init => ArmedOnlyWhileHeld
  BY DEF Init, ArmedOnlyWhileHeld
<1>2. TypeOK /\ ArmedOnlyWhileHeld /\ [Next]_vars => ArmedOnlyWhileHeld'
  <2> SUFFICES ASSUME TypeOK, ArmedOnlyWhileHeld, [Next]_vars
               PROVE  ArmedOnlyWhileHeld'
    OBVIOUS
  <2>1. ASSUME NEW c \in Caller, Step(c) PROVE ArmedOnlyWhileHeld'
    BY <2>1, StepArms
  <2>2. ASSUME NEW i \in Instance, AcceptShrink(i) PROVE ArmedOnlyWhileHeld'
    BY <2>2 DEF TypeOK, AcceptShrink, Acceptable, ArmedOnlyWhileHeld
  <2>3. CASE UNCHANGED <<held, accepted>>
    BY <2>3 DEF ArmedOnlyWhileHeld
  <2>4. (\E i \in Instance, L \in Library : Scan(i, L)) \/ (\E c \in Caller : Begin(c))
          \/ (\E c \in Caller : DiesSweeping(c) \/ DiesWiping(c))
          \/ ResetPeers \/ Restart \/ UNCHANGED vars => UNCHANGED <<held, accepted>>
    BY DEF Scan, Begin, DiesSweeping, DiesWiping, ResetPeers, Restart, rows, vars
  <2> QED
    BY <2>1, <2>2, <2>3, <2>4 DEF Next
<1> QED
  BY <1>1, <1>2, LibraryTypeCorrect, PTL DEF Spec

-----------------------------------------------------------------------------
(* What a step may take out of a catalog.                                  *)

\* Catalogs and their counts change in four ways: an album is added, a sync
\* ends, a peer is wiped, or all of them are; the process may die in the midst.
LEMMA WhoWrites ==
  ASSUME [Next]_vars
  PROVE  \/ UNCHANGED <<tracks, track_count>>
         \/ ResetPeers
         \/ \E c \in Caller : \/ Apply(c) \/ DiesSweeping(c)
                            \/ Unreachable(c) \/ DiesWiping(c)
                            \/ \E a \in Album : Fetch(c, a)
<1>1. ASSUME NEW c \in Caller, Step(c)
      PROVE  \/ UNCHANGED <<tracks, track_count>>
             \/ Apply(c) \/ Unreachable(c) \/ \E a \in Album : Fetch(c, a)
  <2>1. (\E i \in Instance : Skip(c, i) \/ TakeUp(c, i)) => UNCHANGED <<tracks, track_count>>
    BY DEF Skip, TakeUp, rows
  <2>2. List(c) \/ Hold(c) \/ GiveUp(c) \/ End(c) => UNCHANGED <<tracks, track_count>>
    BY DEF List, Hold, GiveUp, End, rows
  <2>3. (\E a \in Album : FetchFail(c, a)) => UNCHANGED <<tracks, track_count>>
    BY DEF FetchFail, rows
  <2> QED
    BY <1>1, <2>1, <2>2, <2>3 DEF Step
<1>2. (\E i \in Instance, L \in Library : Scan(i, L)) \/ (\E c \in Caller : Begin(c))
        \/ (\E i \in Instance : AcceptShrink(i)) \/ Restart \/ UNCHANGED vars
      => UNCHANGED <<tracks, track_count>>
  BY DEF Scan, Begin, AcceptShrink, Restart, rows, vars
<1> QED
  BY <1>1, <1>2 DEF Next

\* An album only adds tracks.
LEMMA FetchAdds ==
  ASSUME TypeOK, NEW c \in Caller, NEW a \in Album, Fetch(c, a), NEW i \in Instance
  PROVE  tracks[i] \subseteq tracks'[i] /\ track_count' = track_count
<1>1. tracks \in [Instance -> SUBSET Track]
  BY DEF TypeOK
<1> QED
  BY <1>1 DEF Fetch

\* While the hub's own library is on hold, no step of any sync takes a track
\* of it away or moves the count the guard judges by: a sync that would, ends
\* the hold, in the step that sweeps unless the process dies there.
THEOREM HeldCatalogIsKept == Spec => HoldKeepsCatalog
<1> DEFINE Kept == held'[Local] /\ ~(\E c \in Caller : DiesSweeping(c))
                     => /\ tracks[Local] \subseteq tracks'[Local]
                        /\ track_count'[Local] = track_count[Local]
<1>1. TypeOK /\ [Next]_vars => [Kept]_vars
  <2> SUFFICES ASSUME TypeOK, [Next]_vars PROVE Kept
    OBVIOUS
  <2>0. Local \in Instance
    BY LocalFacts
  <2>t. /\ tracks \in [Instance -> SUBSET Track]
        /\ track_count \in [Instance -> 0 .. Cardinality(Track)]
        /\ held \in [Instance -> BOOLEAN]
    BY DEF TypeOK
  <2>1. CASE UNCHANGED <<tracks, track_count>>
    BY <2>1
  <2>2. CASE ResetPeers
    BY <2>0, <2>2 DEF ResetPeers
  <2>3. ASSUME NEW c \in Caller, Apply(c) PROVE Kept
    <3>1. CASE pass[c].at = Local
      <4>1. ~held'[Local]
        BY <2>0, <2>t, <2>3, <3>1 DEF Apply
      <4> QED
        BY <4>1
    <3>2. CASE pass[c].at # Local
      BY <2>0, <2>t, <2>3, <3>2 DEF Apply, Sweep
    <3> QED
      BY <3>1, <3>2
  <2>4. ASSUME NEW c \in Caller, Unreachable(c) PROVE Kept
    BY <2>0, <2>t, <2>4 DEF Unreachable
  <2>5. ASSUME NEW c \in Caller, NEW a \in Album, Fetch(c, a) PROVE Kept
    BY <2>0, <2>5, FetchAdds
  <2>6. ASSUME NEW c \in Caller, DiesWiping(c) PROVE Kept
    BY <2>0, <2>t, <2>6 DEF DiesWiping
  <2> QED
    BY <2>1, <2>2, <2>3, <2>4, <2>5, <2>6, WhoWrites
<1> QED
  BY <1>1, LibraryTypeCorrect, PTL DEF Spec, HoldKeepsCatalog

\* What the guard lets through when nobody accepted a loss.
LEMMA GuardBound ==
  ASSUME NEW previous \in Nat, NEW seen \in Nat, ~Shrunk(previous, seen)
  PROVE  \/ Percent = 0
         \/ seen >= previous
         \/ /\ seen > 0
            /\ previous < MinTracks \/ (previous - seen) * 100 <= Percent * previous
<1> SUFFICES ASSUME Percent # 0, seen < previous
             PROVE  /\ seen > 0
                    /\ \/ previous < MinTracks
                       \/ (previous - seen) * 100 <= Percent * previous
  OBVIOUS
<1>1. Percent > 0 /\ previous > 0 /\ MinTracks \in Nat /\ Percent \in Nat
  BY GuardAssumption
<1>2. seen # 0 /\ ~(previous >= MinTracks /\ (previous - seen) * 100 > Percent * previous)
  BY <1>1 DEF Shrunk
<1> DEFINE lost == (previous - seen) * 100
           allowed == Percent * previous
<1>3. lost \in Int /\ allowed \in Int
  BY <1>1
<1> HIDE DEF lost, allowed
<1>4. ~(previous >= MinTracks /\ lost > allowed)
  BY <1>2 DEF lost, allowed
<1>5. previous < MinTracks \/ lost <= allowed
  BY <1>1, <1>3, <1>4
<1> QED
  BY <1>2, <1>5 DEF lost, allowed

\* Over all syncs, however they overlap: a catalog loses tracks only if a peer was
\* unreachable or reset, or at the end of a sync that read all it asked for and
\* keeps all it saw, which the owner accepted, or whose count fell no further than
\* the guard allows.
THEOREM DeletionsAreGuarded == Spec => DeletionsGuarded
<1> DEFINE Allowed(i, c) ==
             /\ pass[c].at = i /\ HasRead(c) /\ ~pass[c].failed
             /\ tracks[i] \cap pass[c].seen \subseteq tracks'[i]
             /\ \/ accepted[i] /\ (~accepted'[i] \/ DiesSweeping(c))
                \/ Percent = 0
                \/ Seen(c) >= track_count[i]
                \/ /\ Seen(c) > 0
                   /\ \/ track_count[i] < MinTracks
                      \/ (track_count[i] - Seen(c)) * 100 <= Percent * track_count[i]
           Guarded ==
             \A i \in Instance : ~(tracks[i] \subseteq tracks'[i]) =>
               \/ i # Local /\ (ResetPeers \/ \E c \in Caller : Unreachable(c) \/ DiesWiping(c))
               \/ \E c \in Caller : Allowed(i, c)
<1>1. TypeOK /\ [Next]_vars => [Guarded]_vars
  <2> SUFFICES ASSUME TypeOK, [Next]_vars,
                      NEW i \in Instance, ~(tracks[i] \subseteq tracks'[i])
               PROVE  \/ i # Local /\ (ResetPeers
                                        \/ \E c \in Caller : Unreachable(c) \/ DiesWiping(c))
                      \/ \E c \in Caller : Allowed(i, c)
    OBVIOUS
  <2>t. /\ tracks \in [Instance -> SUBSET Track]
        /\ track_count \in [Instance -> 0 .. Cardinality(Track)]
        /\ accepted \in [Instance -> BOOLEAN]
    BY DEF TypeOK
  <2>1. ~UNCHANGED <<tracks, track_count>>
    OBVIOUS
  <2>2. ASSUME ResetPeers PROVE i # Local
    BY <2>2 DEF ResetPeers
  <2>3. ASSUME NEW c \in Caller, Unreachable(c) PROVE i # Local
    BY <2>3, <2>t DEF Unreachable
  <2>4. ASSUME NEW c \in Caller, NEW a \in Album, Fetch(c, a) PROVE FALSE
    BY <2>4, FetchAdds
  <2>5. ASSUME NEW c \in Caller, DiesWiping(c) PROVE i # Local
    BY <2>5, <2>t DEF DiesWiping
  <2>6. ASSUME NEW c \in Caller, Apply(c) \/ DiesSweeping(c) PROVE Allowed(i, c)
    <3>1. Sweep(c)
      BY <2>6 DEF Apply, DiesSweeping
    <3>2. pass[c].at = i /\ HasRead(c) /\ ~pass[c].failed /\ ~Holds(c)
      BY <2>t, <3>1 DEF Sweep
    <3>3. tracks[i] \cap pass[c].seen \subseteq tracks'[i]
      BY <2>t, <3>1, <3>2 DEF Sweep
    <3>4. ~accepted'[i] \/ DiesSweeping(c)
      BY <2>6, <2>t, <3>2 DEF Apply
    <3>5. Cardinality(Track) \in Nat
      BY TrackAssumption, FS_CardinalityType
    <3>6. Seen(c) \in Nat /\ track_count[i] \in Nat
      BY <2>t, <3>5, SeenFacts
    <3>7. accepted[i] \/ ~Shrunk(track_count[i], Seen(c))
      BY <3>2 DEF Holds
    <3>8. ~Shrunk(track_count[i], Seen(c)) =>
            \/ Percent = 0
            \/ Seen(c) >= track_count[i]
            \/ /\ Seen(c) > 0
               /\ \/ track_count[i] < MinTracks
                  \/ (track_count[i] - Seen(c)) * 100 <= Percent * track_count[i]
      BY <3>6, GuardBound
    <3> QED
      BY <3>2, <3>3, <3>4, <3>7, <3>8, Zenon
  <2> HIDE DEF Allowed
  <2> QED
    BY <2>1, <2>2, <2>3, <2>4, <2>5, <2>6, WhoWrites
<1> QED
  BY <1>1, LibraryTypeCorrect, PTL DEF Spec, DeletionsGuarded
=============================================================================
