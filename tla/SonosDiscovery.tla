----------------------------- MODULE SonosDiscovery -----------------------------
(***************************************************************************)
(* The list of Sonos speakers: searches answered over UDP, the description *)
(* each answer makes the hub fetch, the topology asked of one listed       *)
(* speaker, which tells the satellites that must not be listed, and the    *)
(* eviction of speakers that have fallen silent.                           *)
(***************************************************************************)
EXTENDS Integers, FiniteSets

CONSTANTS
  Speaker,
  Group,        \* Group[s]: the coordinator of s, one function per wiring
  MaxAnswers    \* bound: topologies on their way to the hub

GroupAssumption == Group \subseteq [Speaker -> Speaker]

VARIABLES
  on,           \* the speakers that are on
  leader,       \* how they are grouped now
  listed,       \* devices
  recent,       \* speakers whose lastSeen is younger than staleAfterMs
  satellites,   \* knownSatellites
  collapsedOnce,
  describing,   \* speakers whose description is being fetched
  asked,        \* speakers asked for the topology
  topologies    \* answers on their way: the satellites each names

sonosVars == <<on, leader, listed, recent, satellites, collapsedOnce,
               describing, asked, topologies>>

Bonded == {s \in on : leader[s] # s}

Init ==
  /\ on \in SUBSET Speaker
  /\ leader \in Group
  /\ listed = {} /\ recent = {} /\ satellites = {}
  /\ collapsedOnce = FALSE
  /\ describing = {} /\ asked = {} /\ topologies = {}

-----------------------------------------------------------------------------
(* The owner of the speakers.                                              *)

Rewire(speakers, wiring) ==
  /\ <<speakers, wiring>> # <<on, leader>>
  /\ on' = speakers /\ leader' = wiring
  /\ UNCHANGED <<listed, recent, satellites, collapsedOnce, describing, asked, topologies>>

-----------------------------------------------------------------------------
(* The hub.                                                                *)

\* A speaker answers an M-SEARCH.
Respond(s) ==
  /\ s \in on \ describing
  /\ describing' = describing \cup {s}
  /\ UNCHANGED <<on, leader, listed, recent, satellites, collapsedOnce, asked, topologies>>

Described(s) ==
  /\ s \in describing
  /\ describing' = describing \ {s}

\* collapseZoneGroups asks one of the devices it knows, if it knows any.
AskOneOf(devices) ==
  IF devices = {} THEN UNCHANGED asked
  ELSE \E s \in devices : asked' = asked \cup {s}

\* The description arrives: a satellite known by now is dropped, any other
\* speaker is listed or refreshed; the first one to be listed triggers a
\* collapse at once.
Describe(s) ==
  /\ Described(s)
  /\ IF s \in satellites
       THEN UNCHANGED <<listed, recent, collapsedOnce, asked>>
       ELSE /\ listed' = listed \cup {s}
            /\ recent' = recent \cup {s}
            /\ collapsedOnce' = TRUE
            /\ IF collapsedOnce THEN UNCHANGED asked ELSE AskOneOf(listed')
  /\ UNCHANGED <<on, leader, satellites, topologies>>

DescribeFails(s) ==
  /\ Described(s)
  /\ UNCHANGED <<on, leader, listed, recent, satellites, collapsedOnce, asked, topologies>>

\* Three minutes without an answer of s.
Age(s) ==
  /\ s \in recent
  /\ recent' = recent \ {s}
  /\ UNCHANGED <<on, leader, listed, satellites, collapsedOnce, describing, asked, topologies>>

\* The interval: search (see Respond), evictStale, collapseZoneGroups.
Interval ==
  /\ listed' = listed \cap recent
  /\ AskOneOf(listed')
  /\ UNCHANGED <<on, leader, recent, satellites, collapsedOnce, describing, topologies>>

\* The speaker that was asked answers with the groups as they are now.
GiveTopology(s) ==
  /\ s \in asked \cap on
  /\ Cardinality(topologies) < MaxAnswers \/ Bonded \in topologies
  /\ asked' = asked \ {s}
  /\ topologies' = topologies \cup {Bonded}
  /\ UNCHANGED <<on, leader, listed, recent, satellites, collapsedOnce, describing>>

AskFails(s) ==
  /\ s \in asked
  /\ asked' = asked \ {s}
  /\ UNCHANGED <<on, leader, listed, recent, satellites, collapsedOnce, describing, topologies>>

\* Mutant: satellites that are known stay known.
Accumulated(bonded) == satellites \cup bonded

Rebuilt(bonded) == bonded

\* An answer arrives, in any order: the satellites are known anew and go.
Collapse(bonded) ==
  /\ topologies' = topologies \ {bonded}
  /\ satellites' = Rebuilt(bonded)
  /\ listed' = listed \ bonded
  /\ UNCHANGED <<on, leader, recent, collapsedOnce, describing, asked>>

-----------------------------------------------------------------------------
Answered == \E bonded \in topologies : Collapse(bonded)

Next ==
  \/ \E speakers \in SUBSET Speaker, wiring \in Group : Rewire(speakers, wiring)
  \/ Interval
  \/ \E s \in Speaker :
       \/ Respond(s) \/ Describe(s) \/ DescribeFails(s)
       \/ Age(s) \/ GiveTopology(s) \/ AskFails(s)
  \/ Answered

\* The interval fires for ever, a speaker that is on answers its searches and
\* one that is off does not, and every call ends by an answer or a timeout.
Fairness ==
  /\ WF_sonosVars(Interval)
  /\ \A s \in Speaker :
       /\ WF_sonosVars(Respond(s))
       /\ WF_sonosVars(Describe(s) \/ DescribeFails(s))
       /\ WF_sonosVars(s \notin on /\ Age(s))
       /\ WF_sonosVars(GiveTopology(s) \/ AskFails(s))
  /\ WF_sonosVars(Answered)

Spec == Init /\ [][Next]_sonosVars /\ Fairness

-----------------------------------------------------------------------------
(* Properties.                                                             *)

TypeOK ==
  /\ on \subseteq Speaker
  /\ leader \in Group
  /\ listed \subseteq Speaker /\ recent \subseteq Speaker
  /\ satellites \subseteq Speaker
  /\ collapsedOnce \in BOOLEAN
  /\ describing \subseteq Speaker /\ asked \subseteq Speaker
  /\ topologies \subseteq SUBSET Speaker

\* What keeps the list from settling: the LAN changes, a speaker that is on is
\* not heard for three minutes, or an answer is lost that would have made a
\* difference.
Disturbed ==
  \/ <<on, leader>>' # <<on, leader>>
  \/ \E s \in on : \/ Age(s)
                   \/ s \notin satellites \cup (listed \cap recent) /\ DescribeFails(s)
                   \/ Bonded \notin topologies /\ AskFails(s)

Coordinators == on \ Bonded

\* On a LAN that has come to rest the list does too: it shows the speakers
\* that coordinate a group, a former satellite among them, and no others, so
\* long as some speaker is listed to tell the topology.
ListSettles ==
  <>[][~Disturbed]_sonosVars /\ []<>(listed # {})
    => <>[](listed = Coordinators)
=============================================================================
