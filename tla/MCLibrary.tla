------------------------------- MODULE MCLibrary -------------------------------
EXTENDS MCLibrarySync

\* No step relates the rows of two instances, so each behaviour has tracks on
\* one of them, this hub or its peer, and the timer of the other stays out.
VARIABLE side

\* The whole library, and one whose loss is beyond the guard.
PeerLibraries == {AllTracks, {t3}}

OneLibrary ==
  /\ library[side] \in (IF side = Local THEN OutageLibraries ELSE PeerLibraries)
  /\ \A i \in Instance \ {side} : library[i] = {}
  /\ pass[IF side = Local THEN "pollPeers" ELSE "poll"] = Idle

sideVars == <<vars, side>>

BoundedInit == Init /\ side \in Instance /\ OneLibrary

BoundedNext == Next /\ UNCHANGED side /\ OneLibrary'

\* The liveness looked at is of the hub's own library: the fairness of its timer
\* is enough.
BoundedSpec ==
  /\ BoundedInit
  /\ [][BoundedNext]_sideVars
  /\ WF_sideVars(side = Local /\ Begin("poll") /\ UNCHANGED side)
  /\ WF_sideVars(side = Local /\ Step("poll") /\ UNCHANGED side)
=============================================================================
