------------------------------- MODULE Listening -------------------------------
(***************************************************************************)
(* How the web player counts plays: one listen of a track may cross from   *)
(* the tab's <audio> to a Sonos speaker and back, be sought in, survive a  *)
(* reload, and is to be reported to the hub once it is half heard.         *)
(*                                                                         *)
(* A tick is a quarter of a track.  Requests and polls take seconds: they  *)
(* race among themselves and are over before the next tick.  Pause, resume *)
(* and the next track reach the speaker at once here; CastPlayer has their *)
(* races.                                                                  *)
(***************************************************************************)
EXTENDS Integers

CONSTANTS
  Tracks,       \* tracks in the queue, distinct, played in order
  Transcoded,   \* those whose stream begins where it is asked to
  Ticks,        \* ticks in a track
  Repeats,      \* the settings of repeat
  Steps,        \* bound: steps of the user
  None

Track == 1 .. Tracks
Place == 0 .. Ticks

TracksAssumption == Tracks \in Nat \ {0} /\ Transcoded \subseteq Track /\ None \notin Track
TicksAssumption == Ticks \in Nat \ {0} /\ Steps \in Nat

\* scrobbleThresholdSec, for tracks of less than eight minutes.
Half == (Ticks + 1) \div 2

\* The element has come to its end and is paused by it.
Over == Ticks + 1

VARIABLES
  store,     \* currentIndex, isPlaying, currentTime, repeat, the sink
  refs,      \* scrobbled, sessionStartPos, castBaseOffset, castTranscoded,
             \* skipNextSonosPlayForTrack, pendingNext
  audio,     \* where the <audio> element is, in track time
  speaker,   \* its track, where the stream of it began, where it is, what is next
  requests,  \* /play requests on their way, and their answers
  poll,      \* the loop: what it has read, whether it saw a URI, whether the URI
             \* changed since, its last state, the guard, whether it is up to date
  listen,    \* history of this listen: reports, reloads, a sound made, an end,
             \* and whether an earlier one was reported too often
  budget     \* steps of the user left

listeningVars == <<store, refs, audio, speaker, requests, poll, listen, budget>>

\* A poll loop that has read nothing yet.
Polling(guarded) ==
  [read |-> None, sawUri |-> FALSE, changed |-> FALSE, wasPlaying |-> FALSE,
   guarded |-> guarded, fresh |-> FALSE]

FirstListen ==
  [counted |-> 0, reloads |-> 0, sounded |-> FALSE, over |-> FALSE, excess |-> FALSE]

\* One report for a listen, and one more for each reload.
Exceeds(l) == l.excess \/ l.counted > 1 + l.reloads

\* Another listen begins after l.
After(l) == [FirstListen EXCEPT !.excess = Exceeds(l)]

NewRefs(skip) ==
  [scrobbled |-> FALSE, start |-> 0, base |-> 0, transcoded |-> TRUE,
   skip |-> skip, pending |-> None]

Init ==
  /\ \E r \in Repeats :
       store = [index |-> 1, playing |-> TRUE, time |-> 0, repeat |-> r, casting |-> FALSE]
  /\ refs = NewRefs(None)
  /\ audio = 0
  /\ speaker = [track |-> None, from |-> 0, at |-> 0, state |-> "stopped", next |-> None]
  /\ requests = {}
  /\ poll = Polling(FALSE)
  /\ listen = FirstListen
  /\ budget = Steps

Sounds ==
  IF store.casting THEN speaker.state = "playing" /\ speaker.track = store.index
  ELSE store.playing /\ audio < Over

-----------------------------------------------------------------------------
(* The store and the effects of PlayerBar.                                 *)

JumpTo(s, i) == [s EXCEPT !.index = i, !.playing = TRUE, !.time = 0]

\* next().
Following(s) ==
  IF s.repeat = "one" THEN [s EXCEPT !.time = 0]
  ELSE IF s.index < Tracks THEN JumpTo(s, s.index + 1)
  ELSE IF s.repeat = "all" THEN JumpTo(s, 1)
  ELSE [s EXCEPT !.playing = FALSE]

\* peekNext().
Peek(s) ==
  IF s.repeat = "none" /\ s.index = Tracks THEN None ELSE Following(s).index

PlayOf(s, from) == [op |-> "play", track |-> s.index, from |-> from, autoplay |-> s.playing]

Switched(s) == s.casting # store.casting
Moved(s) == s.index # store.index

\* Mutant: a change of the sink arms the report anew.
RearmedBySink(s) == Moved(s) \/ Switched(s)

\* A report is armed again by another track.
Rearmed(s) == Moved(s)

\* The refs and requests after issueSonosPlay.
Issue(s, r, from) ==
  /\ refs' = [r EXCEPT !.start = from, !.base = from]
  /\ requests' = requests \cup {PlayOf(s, from)}

\* A player asked for a place behind the end goes to the end.
Within(place) == IF place > Ticks THEN Ticks ELSE place

\* The stream of the sink that is on now begins, unless the speaker is known to
\* be playing this track already.
Begin(s, r) ==
  IF ~s.casting
    THEN /\ refs' = [r EXCEPT !.start = s.time]
         /\ audio' = Within(s.time)
         /\ UNCHANGED requests
    ELSE /\ IF r.skip = s.index
              THEN refs' = [r EXCEPT !.skip = None, !.pending = Peek(s)] /\ UNCHANGED requests
              ELSE Issue(s, [r EXCEPT !.pending = Peek(s)], s.time)
         /\ UNCHANGED audio

\* play() starts an element that is over from the beginning.
Toggled(s) == IF ~s.casting /\ s.playing /\ ~store.playing /\ audio = Over THEN 0 ELSE audio

\* resume and pause; a stopped speaker does not pause.
Commanded(s) ==
  IF s.playing THEN "playing" ELSE IF speaker.state = "stopped" THEN "stopped" ELSE "paused"

\* What the effects send the speaker at once.
Told(s, moved) ==
  LET toggles == s.casting /\ speaker.track # None /\ (s.playing # store.playing \/ Switched(s))
  IN  [speaker EXCEPT
         !.state = IF ~s.casting /\ store.casting THEN "stopped"
                   ELSE IF toggles THEN Commanded(s) ELSE @,
         !.next = IF s.casting /\ moved THEN Peek(s) ELSE @]

\* The effects of PlayerBar once the store is s, with the refs r and the poll p;
\* at a mount they all run.
Effects(s, r, p, mount) ==
  LET moved == mount \/ Moved(s) \/ Switched(s)
      armed == [r EXCEPT !.scrobbled = @ /\ ~Rearmed(s)]
  IN  /\ store' = s
      /\ speaker' = Told(s, moved)
      /\ IF moved
           THEN /\ Begin(s, armed)
                /\ poll' = Polling(p.guarded \/ requests' # requests)
           ELSE /\ refs' = armed /\ poll' = p /\ audio' = Toggled(s)
                /\ UNCHANGED requests

\* What sounds after an end is another listen.
Lasting(l) == IF l.over THEN After(l) ELSE l

\* Another track is another listen, and so is what the user does after an end.
Becomes(s) ==
  /\ Effects(s, refs, poll, FALSE)
  /\ listen' = IF Moved(s) THEN After(listen) ELSE Lasting(listen)

-----------------------------------------------------------------------------
(* Reporting.                                                              *)

\* maybeScrobble at a place, on a sink that plays.
Crosses(place) == ~refs.scrobbled /\ place - refs.start >= Half

\* A submission reaches the hub, which records a play, or is lost for good.
Submitted(l) == {l, [l EXCEPT !.counted = @ + 1]}

-----------------------------------------------------------------------------
(* The <audio> of the tab.                                                 *)

\* handleTimeUpdate; a hidden tab gets to it late, or never.
TimeUpdate ==
  /\ ~store.casting /\ Sounds
  /\ store' = [store EXCEPT !.time = audio]
  /\ IF Crosses(audio)
       THEN /\ refs' = [refs EXCEPT !.scrobbled = TRUE]
            /\ \E l \in Submitted(Lasting(listen)) : listen' = [l EXCEPT !.sounded = TRUE]
       ELSE UNCHANGED <<refs, listen>>
  /\ UNCHANGED <<audio, speaker, requests, poll, budget>>

\* handleEnded: what was not reported is, the report is armed, and next().  If
\* that leaves the track as it is, nothing starts the element again.
LocalEnds ==
  LET s == Following(store)
  IN  /\ ~store.casting /\ Sounds /\ audio = Ticks
      /\ store' = s
      /\ refs' = [refs EXCEPT !.scrobbled = FALSE, !.start = IF Moved(s) THEN 0 ELSE @]
      /\ audio' = IF Moved(s) THEN 0 ELSE Over
      /\ \E l \in IF refs.scrobbled THEN {Lasting(listen)} ELSE Submitted(Lasting(listen)) :
           listen' = IF Moved(s) THEN After(l) ELSE [l EXCEPT !.over = TRUE, !.sounded = TRUE]
      /\ UNCHANGED <<speaker, requests, poll, budget>>

-----------------------------------------------------------------------------
(* The speaker, and the hub before it.                                     *)

\* POST /play.  A transcoded stream begins at the place asked for; in any other
\* the hub seeks, and the speaker then tells places in the track.
Serve(r) ==
  /\ r \in requests /\ r.op = "play"
  /\ speaker' = [speaker EXCEPT
                   !.track = r.track,
                   !.from = IF r.track \in Transcoded THEN Within(r.from) ELSE 0,
                   !.at = Within(r.from),
                   !.state = IF r.autoplay THEN "playing" ELSE "stopped"]
  /\ poll' = [poll EXCEPT !.changed = TRUE]
  /\ requests' = (requests \ {r})
                   \cup {[op |-> "answer", transcoded |-> r.track \in Transcoded]}
  /\ UNCHANGED <<store, refs, audio, listen, budget>>

Answer(r) ==
  /\ r \in requests /\ r.op = "answer"
  /\ requests' = requests \ {r}
  /\ refs' = [refs EXCEPT !.transcoded = r.transcoded,
                          !.base = IF r.transcoded THEN @ ELSE 0]
  /\ UNCHANGED <<store, audio, speaker, poll, listen, budget>>

\* The speaker goes on with the next track it was given, or stops.
SpeakerEnds ==
  /\ speaker.state = "playing" /\ speaker.at = Ticks
  /\ IF speaker.next # None
       THEN /\ speaker' = [track |-> speaker.next, from |-> 0, at |-> 0,
                           state |-> "playing", next |-> None]
            /\ poll' = [poll EXCEPT !.changed = TRUE]
       ELSE /\ speaker' = [speaker EXCEPT !.from = 0, !.at = 0, !.state = "stopped"]
            /\ UNCHANGED poll
  /\ listen' = IF store.casting THEN [listen EXCEPT !.over = TRUE] ELSE listen
  /\ UNCHANGED <<store, refs, audio, requests, budget>>

-----------------------------------------------------------------------------
(* The poll loop of PlayerBar.                                             *)

\* GET /state is answered.
PollRead ==
  /\ store.casting /\ poll.read = None
  /\ poll' = [poll EXCEPT
                !.read = [at |-> speaker.at - speaker.from, track |-> speaker.track,
                          state |-> speaker.state, moved |-> poll.changed],
                !.changed = FALSE]
  /\ UNCHANGED <<store, refs, audio, speaker, requests, listen, budget>>

\* The place in the track, as far as the tab knows where the stream began.
PlaceRead(read) == read.at + refs.base

\* The store once the poll has told it the place and what the speaker does.
Synced(read) ==
  [store EXCEPT !.time = PlaceRead(read),
                !.playing = IF read.state = "stopped" THEN @ ELSE read.state = "playing"]

\* The answer reaches the loop: the place, a report, the state of the speaker,
\* and then another track if the speaker moved on by itself, or stopped.
PollApply ==
  LET read == poll.read
      counts == read.state = "playing" /\ Crosses(PlaceRead(read))
      jumps == read.moved /\ poll.sawUri /\ ~poll.guarded /\ read.track # None
               /\ refs.pending # None
      ends == read.state = "stopped" /\ poll.wasPlaying /\ ~poll.guarded
      reported == [refs EXCEPT !.scrobbled = @ \/ counts]
      s == IF jumps THEN JumpTo(Synced(read), refs.pending)
           ELSE IF ends THEN Following(Synced(read)) ELSE Synced(read)
      r == IF jumps THEN [reported EXCEPT !.base = 0, !.skip = refs.pending, !.pending = None]
           ELSE reported
      p == [poll EXCEPT !.read = None, !.sawUri = read.track # None,
                        !.wasPlaying = read.state = "playing", !.fresh = TRUE]
  IN  /\ store.casting /\ read # None
      /\ Effects(s, r, p, FALSE)
      /\ \E l \in IF counts THEN Submitted(listen) ELSE {listen} :
           listen' = IF Moved(s) THEN After(l) ELSE l
      /\ UNCHANGED budget

\* A quarter of the track goes by.  The polls and the requests keep up with it.
Tick ==
  /\ requests = {} /\ poll.read = None
  /\ store.casting => poll.fresh
  /\ audio' = IF ~store.casting /\ Sounds /\ audio < Ticks THEN audio + 1 ELSE audio
  /\ speaker' = IF speaker.state = "playing" /\ speaker.at < Ticks
                   THEN [speaker EXCEPT !.at = @ + 1] ELSE speaker
  /\ poll' = [poll EXCEPT !.fresh = FALSE, !.guarded = FALSE]
  /\ listen' = IF Sounds THEN [Lasting(listen) EXCEPT !.sounded = TRUE] ELSE listen
  /\ UNCHANGED <<store, refs, requests, budget>>

-----------------------------------------------------------------------------
(* The user.                                                               *)

\* playTracks at track i of the queue: the current one is toggled.
Click(i) ==
  Becomes(IF i = store.index THEN [store EXCEPT !.playing = ~@] ELSE JumpTo(store, i))

Skip == Becomes(Following(store))

\* previous(): beyond three seconds only the store's clock goes back.
Back ==
  Becomes([store EXCEPT !.time = 0,
                        !.index = IF store.time > 0 \/ @ = 1 THEN @ ELSE @ - 1])

Switch == Becomes([store EXCEPT !.casting = ~@])

\* A SOAP seek.  A speaker that moved on to a transcoded stream by itself, which
\* the tab does not notice, is stopped by one beyond what it has buffered.
Sought(place) ==
  IF speaker.track = None THEN {speaker}
  ELSE IF speaker.track \in Transcoded
         THEN {[speaker EXCEPT !.from = 0, !.at = 0, !.state = "stopped"]}
              \cup {[speaker EXCEPT !.at = p] : p \in {place} \cap speaker.from .. Ticks}
         ELSE {[speaker EXCEPT !.at = place]}

\* handleSeek.  A seek in an element that is over is left out.
Seek(place) ==
  /\ store' = [store EXCEPT !.time = place]
  /\ CASE ~store.casting ->
            audio # Over /\ audio' = place /\ UNCHANGED <<refs, requests, poll, speaker>>
       [] store.casting /\ refs.transcoded ->
            /\ Issue(store, refs, place)
            /\ poll' = [poll EXCEPT !.guarded = TRUE]
            /\ UNCHANGED <<audio, speaker>>
       [] store.casting /\ ~refs.transcoded ->
            /\ speaker' \in Sought(place)
            /\ UNCHANGED <<audio, refs, requests, poll>>
  /\ listen' = Lasting(listen)

\* A reload after an update: the snapshot of the store is restored, and a
\* speaker is taken to be playing its track already.
Reload ==
  /\ Effects(store, NewRefs(IF store.casting THEN store.index ELSE None), Polling(FALSE), TRUE)
  /\ listen' = [Lasting(listen) EXCEPT !.reloads = @ + 1]

\* Bound: the user acts when the requests of the step before are answered.
User ==
  /\ budget > 0 /\ budget' = budget - 1
  /\ requests = {}
  /\ \/ \E i \in Track : Click(i)
     \/ Skip
     \/ Back
     \/ Switch
     \/ \E place \in Place : Seek(place)
     \/ Reload

Next ==
  \/ TimeUpdate \/ LocalEnds
  \/ \E r \in requests : Serve(r) \/ Answer(r)
  \/ SpeakerEnds
  \/ PollRead \/ PollApply
  \/ Tick
  \/ User

Spec == Init /\ [][Next]_listeningVars

-----------------------------------------------------------------------------
(* Properties.                                                             *)

TypeOK ==
  /\ store \in [index : Track, playing : BOOLEAN, time : Int, repeat : Repeats,
                casting : BOOLEAN]
  /\ refs \in [scrobbled : BOOLEAN, start : Int, base : Int, transcoded : BOOLEAN,
               skip : Track \cup {None}, pending : Track \cup {None}]
  /\ audio \in 0 .. Over
  /\ speaker \in [track : Track \cup {None}, from : Place, at : Place,
                  state : {"stopped", "playing", "paused"}, next : Track \cup {None}]
  /\ listen \in [counted : Nat, reloads : 0 .. Steps, sounded : BOOLEAN, over : BOOLEAN,
                 excess : BOOLEAN]
  /\ budget \in 0 .. Steps

\* However a listen crosses between the tab and the speaker, is paused, sought
\* in or reported late, the hub counts it once at most, and once more at most
\* after each reload of the page.
OncePerListen == ~Exceeds(listen)

\* A play is counted when "playback crosses the threshold" of the "real playback
\* position" (docs/hub-internals.md:198): at least the track has made a sound.
CountedWasHeard == listen.counted > 0 => listen.sounded \/ Sounds
=============================================================================
