------------------------------- MODULE CastPlayer -------------------------------
(***************************************************************************)
(* The web player casting to a Sonos speaker: the store, the effects of    *)
(* PlayerBar that send requests to the hub when the store changes, the     *)
(* poll of the speaker that writes back into the store, the hub's routes   *)
(* under /api/sonos, and the speaker with its one slot for a next track.   *)
(*                                                                         *)
(* Requests are answered in any order and as late as they like, the poll   *)
(* applies what it read a while ago, and the speaker goes on to the next   *)
(* track, runs dry or stops by itself and knows nothing of the player.     *)
(* The queue is fixed and its tracks are distinct: a track is named by its *)
(* place in it.  Positions, volumes, tokens and formats are left out.      *)
(***************************************************************************)
EXTENDS Integers, FiniteSets

CONSTANTS
  Length,       \* tracks in the queue
  Modes,        \* the settings of repeat and shuffle the user chooses from
  Failing,      \* the requests that can fail
  Disturbances, \* bound: steps of the user and failures in one behaviour
  None

Track == 1 .. Length

Mode == [repeat : {"none", "all", "one"}, shuffle : BOOLEAN]

LengthAssumption == Length \in Nat \ {0} /\ None \notin Track
ModesAssumption == Modes \subseteq Mode /\ Disturbances \in Nat

VARIABLES
  ui,        \* the store: currentIndex, isPlaying, repeat and shuffle, the sink
  refs,      \* skipNextSonosPlayForTrack, pendingNext and its decision key
  guarded,   \* the last sonosPlay of this tab is younger than playGuardMs
  poll,      \* the poll loop: its last state and URI, the transport state it has
             \* got while it asks for the position, and then all it has read
  requests,  \* requests to the hub on their way
  speaker,   \* transport state, TrackURI and NextURI (external)
  changed,   \* the URI is not the one that was read last: tokens differ
  budget     \* disturbances left

castVars == <<ui, refs, guarded, poll, requests, speaker, changed, budget>>

Transport == {"PLAYING", "PAUSED_PLAYBACK", "STOPPED", "TRANSITIONING", "NO_MEDIA_PRESENT"}

Message ==
  [op : {"play"}, track : Track, autoplay : BOOLEAN]
    \cup [op : {"next"}, track : Track \cup {None}]
    \cup [op : {"start", "resume", "pause", "stop"}]

Asks(op) == [op |-> op]

\* A poll loop that has read nothing yet.
Polling == [wasPlaying |-> FALSE, sawUri |-> FALSE, state |-> None, read |-> None]

Reading == [state : Transport, track : Track \cup {None}, moved : BOOLEAN]

Init ==
  /\ \E m \in Modes :
       ui = [index |-> 1, playing |-> TRUE, mode |-> m, casting |-> FALSE]
  /\ refs = [skip |-> None, pending |-> None, key |-> None]
  /\ guarded = FALSE
  /\ poll = Polling
  /\ requests = {}
  /\ speaker = [state |-> "NO_MEDIA_PRESENT", track |-> None, next |-> None]
  /\ changed = FALSE
  /\ budget = Disturbances

-----------------------------------------------------------------------------
(* The store.                                                              *)

\* peekNext: what may come after the track of s.
Peeks(s) ==
  CASE s.mode.repeat = "one" -> {s.index}
    [] s.mode.repeat # "one" /\ s.mode.shuffle -> Track
    [] OTHER -> IF s.index < Length THEN {s.index + 1}
                ELSE IF s.mode.repeat = "all" THEN {1} ELSE {None}

JumpTo(s, i) == [s EXCEPT !.index = i, !.playing = TRUE]

\* next().
Nexts(s) ==
  IF s.mode.repeat = "one" THEN {s}
  ELSE {IF i = None THEN [s EXCEPT !.playing = FALSE] ELSE JumpTo(s, i) : i \in Peeks(s)}

-----------------------------------------------------------------------------
(* The effects of PlayerBar that run once the store has become s, the refs *)
(* r and the poll p; at a mount all of them do.                            *)

Effects(s, r, p, mount) ==
  LET switched == mount \/ s.casting # ui.casting
      moved == switched \/ s.index # ui.index
      skipped == moved /\ r.skip = s.index
      plays == s.casting /\ moved /\ ~skipped
      key == <<s.index, s.mode>>
      preloads == /\ s.casting
                  /\ moved \/ s.mode # ui.mode
                  /\ r.pending = None \/ r.key # key
      toggles == s.casting /\ (switched \/ s.playing # ui.playing)
      Sent(n) ==
        (IF ui.casting /\ ~s.casting THEN {Asks("stop")} ELSE {})
        \cup (IF plays THEN {[op |-> "play", track |-> s.index, autoplay |-> s.playing]} ELSE {})
        \cup (IF preloads THEN {[op |-> "next", track |-> n]} ELSE {})
        \cup (IF toggles THEN {Asks(IF s.playing THEN "resume" ELSE "pause")} ELSE {})
  IN /\ ui' = s
     /\ guarded' = (plays \/ (guarded /\ ~mount))
     /\ poll' = IF moved THEN Polling ELSE p
     /\ changed' = (changed /\ ~moved)
     /\ \E n \in (IF preloads THEN Peeks(s) ELSE {r.pending}) :
          /\ refs' = [skip |-> IF s.casting /\ skipped THEN None ELSE r.skip,
                      pending |-> n,
                      key |-> IF preloads THEN key ELSE r.key]
          /\ requests' = requests \cup Sent(n)

\* The store becomes s by a handler that touches nothing else.
Becomes(s) == Effects(s, refs, poll, FALSE)

-----------------------------------------------------------------------------
(* The user, and what else may go wrong.                                   *)

Disturb == budget > 0 /\ budget' = budget - 1

\* playTracks at track i of the queue: the current one is toggled.
Click(i) ==
  /\ Becomes(IF i = ui.index THEN [ui EXCEPT !.playing = ~@] ELSE JumpTo(ui, i))
  /\ UNCHANGED speaker

SkipForward == (\E s \in Nexts(ui) : Becomes(s)) /\ UNCHANGED speaker

SkipBack ==
  /\ ui.index > 1
  /\ Becomes([ui EXCEPT !.index = @ - 1])
  /\ UNCHANGED speaker

SetMode(m) == m # ui.mode /\ Becomes([ui EXCEPT !.mode = m]) /\ UNCHANGED speaker

Switch ==
  /\ Becomes([ui EXCEPT !.casting = ~@])
  /\ UNCHANGED speaker

\* handleSeek of a transcoded stream issues the track anew.
Seek ==
  /\ ui.casting
  /\ requests' = requests \cup
       {[op |-> "play", track |-> ui.index, autoplay |-> ui.playing]}
  /\ guarded' = TRUE
  /\ UNCHANGED <<ui, refs, poll, speaker, changed>>

\* A reload after an update: the snapshot of the store is restored, and a
\* speaker is taken to be playing its track already.  The guard is lost.
Reload ==
  /\ Effects(ui, [skip |-> IF ui.casting THEN ui.index ELSE None,
                  pending |-> None, key |-> None], Polling, TRUE)
  /\ UNCHANGED speaker

\* Someone else pauses or resumes the speaker.
TouchSpeaker ==
  /\ speaker.state \in {"PLAYING", "PAUSED_PLAYBACK"}
  /\ speaker' = [speaker EXCEPT !.state = IF @ = "PLAYING" THEN "PAUSED_PLAYBACK" ELSE "PLAYING"]
  /\ UNCHANGED <<ui, refs, guarded, poll, requests, changed>>

\* A request fails.  Only a failed /play is shown, as a pause.
ServeFails(r) ==
  /\ r \in requests /\ r.op \in Failing
  /\ LET s == IF r.op \in {"play", "start"} THEN [ui EXCEPT !.playing = FALSE] ELSE ui
         toggles == s.casting /\ s.playing # ui.playing
     IN /\ ui' = s
        /\ requests' = (requests \ {r}) \cup (IF toggles THEN {Asks("pause")} ELSE {})
  /\ UNCHANGED <<refs, guarded, poll, speaker, changed>>

\* A poll fails at one of its calls, and is dropped.
PollFails ==
  /\ poll.state # None \/ poll.read # None
  /\ changed' = (changed \/ (poll.read # None /\ poll.read.moved))
  /\ poll' = [poll EXCEPT !.state = None, !.read = None]
  /\ UNCHANGED <<ui, refs, guarded, requests, speaker>>

\* Bound: the user acts when the requests of the step before are answered.
Act ==
  /\ requests = {}
  /\ \/ \E i \in Track : Click(i)
     \/ SkipForward
     \/ SkipBack
     \/ \E m \in Modes : SetMode(m)
     \/ Switch
     \/ Seek
     \/ Reload

Disturbance ==
  /\ Disturb
  /\ \/ Act
     \/ TouchSpeaker
     \/ \E r \in requests : ServeFails(r)
     \/ PollFails

-----------------------------------------------------------------------------
(* The hub: requests are carried out in any order.                         *)

\* POST /play loads the track, then starts it by a second call; whether the
\* speaker drops its next track by that is left open.
Load(r) ==
  /\ r.op = "play"
  /\ \E n \in {None, speaker.next} :
       speaker' = [state |-> "STOPPED", track |-> r.track, next |-> n]
  /\ changed' = TRUE
  /\ requests' = (requests \ {r}) \cup (IF r.autoplay THEN {Asks("start")} ELSE {})

\* A speaker with nothing to play refuses all, and one that is still loading may
\* refuse a pause; one that is to play loads first.
Obeys(op) ==
  CASE speaker.track = None -> {speaker.state}
    [] speaker.track # None /\ op \in {"start", "resume"} ->
         {IF speaker.state = "PLAYING" THEN "PLAYING" ELSE "TRANSITIONING"}
    [] speaker.track # None /\ op = "pause" ->
         CASE speaker.state = "PLAYING" -> {"PAUSED_PLAYBACK"}
           [] speaker.state = "TRANSITIONING" -> {"PAUSED_PLAYBACK", "TRANSITIONING"}
           [] OTHER -> {speaker.state}
    [] speaker.track # None /\ op = "stop" -> {"STOPPED"}

Command(r) ==
  /\ r.op \in {"start", "resume", "pause", "stop"}
  /\ \E state \in Obeys(r.op) : speaker' = [speaker EXCEPT !.state = state]
  /\ requests' = requests \ {r}
  /\ UNCHANGED changed

Preload(r) ==
  /\ r.op = "next"
  /\ speaker' = [speaker EXCEPT !.next = r.track]
  /\ requests' = requests \ {r}
  /\ UNCHANGED changed

Serve(r) ==
  /\ r \in requests
  /\ Load(r) \/ Command(r) \/ Preload(r)
  /\ UNCHANGED <<ui, refs, guarded, poll, budget>>

-----------------------------------------------------------------------------
(* Time: the guard, and what the speaker does by itself.                   *)

\* The guard is a matter of time alone: a play that takes longer outlasts it.
GuardExpires ==
  /\ guarded
  /\ guarded' = FALSE
  /\ UNCHANGED <<ui, refs, poll, requests, speaker, changed, budget>>

\* The stream has come far enough to sound.
Plays ==
  /\ speaker.state = "TRANSITIONING"
  /\ speaker' = [speaker EXCEPT !.state = "PLAYING"]
  /\ UNCHANGED <<ui, refs, guarded, poll, requests, changed, budget>>

\* The stream runs dry.
Stalls ==
  /\ speaker.state = "PLAYING"
  /\ speaker' = [speaker EXCEPT !.state = "TRANSITIONING"]
  /\ UNCHANGED <<ui, refs, guarded, poll, requests, changed, budget>>

\* The stream ends, or is refused: the speaker goes on to its next track or stops.
TrackEnds ==
  /\ speaker.state \in {"PLAYING", "TRANSITIONING"}
  /\ speaker' = IF speaker.next = None
                  THEN [speaker EXCEPT !.state = "STOPPED"]
                  ELSE [speaker EXCEPT !.next = None, !.track = speaker.next]
  /\ changed' = (speaker.next # None \/ changed)
  /\ UNCHANGED <<ui, refs, guarded, poll, requests, budget>>

\* The local <audio> comes to the end of the track.
LocalEnds ==
  /\ ~ui.casting /\ ui.playing
  /\ \E s \in Nexts(ui) : Becomes(s)
  /\ UNCHANGED <<speaker, budget>>

-----------------------------------------------------------------------------
(* The poll.                                                               *)

\* GET /state asks the speaker twice: GetTransportInfo,
PollTransport ==
  /\ ui.casting /\ poll.state = None /\ poll.read = None
  /\ poll' = [poll EXCEPT !.state = speaker.state]
  /\ UNCHANGED <<ui, refs, guarded, requests, speaker, changed, budget>>

\* and GetPositionInfo.
PollPosition ==
  /\ poll.state # None
  /\ poll' = [poll EXCEPT !.state = None, !.read =
       [state |-> poll.state, track |-> speaker.track, moved |-> poll.sawUri /\ changed]]
  /\ changed' = FALSE
  /\ UNCHANGED <<ui, refs, guarded, requests, speaker, budget>>

\* Mutant: the jump does not tell the track effect to stay away.
JumpOnly == [refs EXCEPT !.pending = None]

\* The refs after the speaker was seen to have moved on by itself.
Jumped == [refs EXCEPT !.pending = None, !.skip = refs.pending]

Advanced == poll.read.moved /\ ~guarded /\ refs.pending # None

\* Mutant: the end of the last track goes unnoticed.
EndedUnnoticed == FALSE

\* STOPPED after PLAYING, and no play of this tab explains it.
Ended == poll.read.state = "STOPPED" /\ poll.wasPlaying /\ ~guarded

\* What was read is applied to the store of now.
PollApply ==
  /\ poll.read # None
  /\ LET shown == CASE poll.read.state = "PLAYING" -> [ui EXCEPT !.playing = TRUE]
                    [] poll.read.state = "PAUSED_PLAYBACK" -> [ui EXCEPT !.playing = FALSE]
                    [] OTHER -> ui
         moved == IF Advanced THEN JumpTo(shown, refs.pending) ELSE shown
     IN \E s \in (IF Ended THEN Nexts(moved) ELSE {moved}) :
          Effects(s, IF Advanced THEN Jumped ELSE refs,
                  [wasPlaying |-> poll.read.state = "PLAYING",
                   sawUri |-> poll.read.track # None, state |-> None, read |-> None], FALSE)
  /\ UNCHANGED <<speaker, budget>>

-----------------------------------------------------------------------------
PollStep == PollTransport \/ PollPosition \/ PollApply

Served == \E r \in requests : Serve(r)

Next ==
  \/ Disturbance
  \/ Served
  \/ GuardExpires
  \/ Plays
  \/ Stalls
  \/ TrackEnds
  \/ LocalEnds
  \/ PollStep

\* Requests are answered, the guard is a matter of time, the interval keeps
\* the poll going, and a stream that is loading comes to sound or ends.
Fairness ==
  /\ WF_castVars(Served)
  /\ WF_castVars(GuardExpires)
  /\ WF_castVars(PollStep)
  /\ WF_castVars(Plays)

Spec == Init /\ [][Next]_castVars /\ Fairness

-----------------------------------------------------------------------------
(* Properties.                                                             *)

TypeOK ==
  /\ ui \in [index : Track, playing : BOOLEAN, mode : Modes, casting : BOOLEAN]
  /\ refs \in [skip : Track \cup {None}, pending : Track \cup {None},
               key : (Track \X Modes) \cup {None}]
  /\ guarded \in BOOLEAN
  /\ poll \in [wasPlaying : BOOLEAN, sawUri : BOOLEAN, state : Transport \cup {None},
               read : Reading \cup {None}]
  /\ requests \subseteq Message
  /\ speaker \in [state : Transport, track : Track \cup {None}, next : Track \cup {None}]
  /\ changed \in BOOLEAN
  /\ budget \in 0 .. Disturbances

\* PlayerBar.tsx:350-356: what the speaker went on to by itself is not issued
\* again, "a fresh SetAVTransportURI would restart it from 0": the poll never
\* answers a speaker that it read to be at a track, and not stopped, with a play
\* of that track.
NoStutter ==
  [][PollApply =>
       \A r \in requests' \ requests :
         r.op = "play" => ~(poll.read.state # "STOPPED" /\ poll.read.track = r.track)]_castVars

\* The last state the loop has read, or is about to have read.
LastHeard ==
  IF poll.state # None THEN poll.state
  ELSE IF poll.read # None THEN poll.read.state
  ELSE IF poll.wasPlaying THEN "PLAYING" ELSE None

\* A speaker that fell silent at the end of the track the player shows, where
\* another one follows: the loop last read it playing that track, or reads the end of
\* it already, no play or other command is on its way, and the one play that the
\* track effect was told to leave out is spent.
Silent ==
  /\ ui.casting /\ ui.playing /\ ui.index \notin Peeks(ui)
  /\ speaker.state = "STOPPED" /\ \A r \in requests : r.op = "next"
  /\ poll.wasPlaying /\ LastHeard \in {"PLAYING", "STOPPED"} /\ ~guarded
  /\ refs.skip = None /\ ~changed /\ (poll.read # None => ~poll.read.moved)

\* PlayerBar.tsx:568-575: the end of what the speaker had is noticed.  The player
\* goes on in the queue or shows the end of it, unless its user takes over.
EndIsNoticed ==
  Silent ~> (\/ ~ui.casting \/ ~ui.playing
             \/ \E r \in requests : r.op \in {"play", "resume"})

\* PlayerBar.tsx:531-535: "so the play/pause icon (driven by isPlaying) tracks the
\* speaker".  A speaker that has stopped does not stay shown as playing.  This is
\* false of the code: a stop is noticed only where the loop read PLAYING just before
\* and outside the guard, and next() moves on.
IconTracksSpeaker ==
  (ui.casting /\ ui.playing /\ speaker.state = "STOPPED" /\ requests = {})
    ~> (~ui.casting \/ ~ui.playing \/ speaker.state # "STOPPED")

\* PlayerBar.tsx:531-539: the poll "doesn't fight the toggle effect".  While a
\* pause is on its way the poll does not ask the speaker to resume.
PollDoesNotFight ==
  [][PollApply /\ Asks("pause") \in requests
       => Asks("resume") \notin requests' \ requests]_castVars
=============================================================================
