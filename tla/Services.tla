------------------------------- MODULE Services ---------------------------------
(***************************************************************************)
(* The services of the hub, and the web player, that share no state: the   *)
(* accounts, the art cache, the Navidrome monitor, the discovery of        *)
(* speakers, casting and the log of syncs.  Each behaviour runs one of     *)
(* them, focus, and the others rest in their initial states: the states    *)
(* of the whole are the sum of theirs and not the product.                 *)
(***************************************************************************)
EXTENDS Integers, Sequences, FiniteSets

CONSTANTS
  None,
  User, Name, System, Configs, Invite, Request, Unused, Gone, Idle, Failed,
  Key, Cover, Poison, Bytes, Cap, Fetcher, Torn,
  Ttl, LegTimeout, Threshold, Candidates, LastTick,
  Speaker, Group, MaxAnswers,
  Length, Modes, Failing, Disturbances,
  Manual, Limit, MaxStarts

VARIABLES
  focus,
  users, invites, owner, configured, call, admitted,
  rows, files, old, cap, fetching, crashed,
  navidrome, since, faults, cache, age, probe, waiting, answered,
  on, leader, listed, recent, satellites, collapsedOnce, describing, asked, topologies,
  ui, refs, guarded, poll, requests, speaker, changed, budget,
  log, started, worker, maxRows, cleared, orphans, late

Accounts == INSTANCE Accounts
Art == INSTANCE ArtCache
Monitor == INSTANCE NavidromeMonitor
Sonos == INSTANCE SonosDiscovery
Cast == INSTANCE CastPlayer
Log == INSTANCE SyncLog

\* What each service assumes of its constants.
ASSUME ServicesAssumption ==
  /\ Accounts!NameAssumption /\ Accounts!ConfigAssumption /\ Accounts!MarkAssumption
  /\ Art!KeyAssumption /\ Art!CoverAssumption /\ Art!BytesAssumption
  /\ Monitor!TimeAssumption /\ Monitor!ThresholdAssumption /\ Monitor!CandidateAssumption
  /\ Sonos!GroupAssumption
  /\ Cast!LengthAssumption /\ Cast!ModesAssumption
  /\ Log!StartsAssumption

accounts == <<users, invites, owner, configured, call, admitted>>
art == <<rows, files, old, cap, fetching, crashed>>
monitor == <<navidrome, since, faults, cache, age, probe, waiting, answered>>
sonos == <<on, leader, listed, recent, satellites, collapsedOnce,
           describing, asked, topologies>>
cast == <<ui, refs, guarded, poll, requests, speaker, changed, budget>>
syncs == <<log, started, worker, maxRows, cleared, orphans, late>>
all == <<focus, accounts, art, monitor, sonos, cast, syncs>>

Init ==
  /\ focus \in {"accounts", "art", "monitor", "sonos", "cast", "log"}
  /\ Accounts!Init /\ Art!Init /\ Monitor!Init /\ Sonos!Init /\ Cast!Init /\ Log!Init

OnAccounts(A) == focus = "accounts" /\ A /\ UNCHANGED <<focus, art, monitor, sonos, cast, syncs>>
OnArt(A) == focus = "art" /\ A /\ UNCHANGED <<focus, accounts, monitor, sonos, cast, syncs>>
OnMonitor(A) == focus = "monitor" /\ A /\ UNCHANGED <<focus, accounts, art, sonos, cast, syncs>>
OnSonos(A) == focus = "sonos" /\ A /\ UNCHANGED <<focus, accounts, art, monitor, cast, syncs>>
OnCast(A) == focus = "cast" /\ A /\ UNCHANGED <<focus, accounts, art, monitor, sonos, syncs>>
OnLog(A) == focus = "log" /\ A /\ UNCHANGED <<focus, accounts, art, monitor, sonos, cast>>

Next ==
  \/ OnAccounts(Accounts!Next)
  \/ OnArt(Art!Next)
  \/ OnMonitor(Monitor!Next)
  \/ OnSonos(Sonos!Next)
  \/ OnCast(Cast!Next)
  \/ OnLog(Log!Next)

\* The Fairness of each service, for the behaviours it runs in.
Fairness ==
  /\ WF_monitor(focus = "monitor" /\ Monitor!Tick)
  /\ WF_monitor(focus = "monitor" /\ Monitor!ProbeStep)
  /\ WF_sonos(focus = "sonos" /\ Sonos!Interval)
  /\ \A s \in Speaker :
       /\ WF_sonos(focus = "sonos" /\ Sonos!Respond(s))
       /\ WF_sonos(focus = "sonos" /\ (Sonos!Describe(s) \/ Sonos!DescribeFails(s)))
       /\ WF_sonos(focus = "sonos" /\ s \notin on /\ Sonos!Age(s))
       /\ WF_sonos(focus = "sonos" /\ (Sonos!GiveTopology(s) \/ Sonos!AskFails(s)))
  /\ WF_sonos(focus = "sonos" /\ Sonos!Answered)
  /\ WF_cast(focus = "cast" /\ Cast!Served)
  /\ WF_cast(focus = "cast" /\ Cast!GuardExpires)
  /\ WF_cast(focus = "cast" /\ Cast!PollStep)
  /\ WF_cast(focus = "cast" /\ Cast!Plays)

Spec == Init /\ [][Next]_all /\ Fairness

TypeOK ==
  /\ Accounts!TypeOK
  /\ Art!TypeOK
  /\ Monitor!TypeOK
  /\ Sonos!TypeOK
  /\ Cast!TypeOK
  /\ Log!TypeOK

AdminRemains == Accounts!AdminRemains
OneAccountPerInvite == Accounts!OneAccountPerInvite
FailsOnlyForDeadActor == Accounts!FailsOnlyForDeadActor
DiskWithinCap == Art!DiskWithinCap
HitsAreTrue == Art!HitsAreTrue
FaultShows == Monitor!FaultShows
Recovers == Monitor!Recovers
ListSettles == Sonos!ListSettles
NoStutter == Cast!NoStutter
EndIsNoticed == Cast!EndIsNoticed
IconTracksSpeaker == Cast!IconTracksSpeaker
RunningRowsAreSyncs == Log!RunningRowsAreSyncs
=============================================================================
