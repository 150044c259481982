------------------------- MODULE MCFederationGossip -------------------------
(***************************************************************************)
(* Gossip as seen by one hub, c, that keeps syncing with a and b: whatever *)
(* the owners of the three do, what a or b know spreads to c.  The mesh    *)
(* starts complete, or as a star around a in which the announces of the    *)
(* two admissions were lost and b and c do not know each other.            *)
(***************************************************************************)
EXTENDS MCFederationMesh

StarInit ==
  /\ now = 0
  /\ invitation =
       [n \in Nonce |-> IF n \in {n1, n2} THEN FoundingInvitation ELSE None]
  /\ consumed_by = [n \in Nonce |-> CASE n = n1 -> b [] n = n2 -> c [] OTHER -> None]
  /\ lifecycle = [h \in Hub |-> [p \in Hub |->
       IF p # h /\ a \in {h, p} THEN "active" ELSE "absent"]]
  /\ provenance = [h \in Hub |-> [p \in Hub |->
       IF p # h /\ a \in {h, p} THEN FoundingProvenance(h, p) ELSE None]]
  /\ tombstone = [h \in Hub |-> [p \in Hub |-> None]]
  /\ registry = lifecycle
  /\ attempt = [k \in Attempt |-> None]
  /\ announces = {}
  /\ pull = [h \in Hub |-> NoPull(h)]

\* Only c pulls: the bound of one pass at a time then never holds c back.
GossipBounds == Bounds /\ \A h \in Hub \ {c} : pull[h] = NoPull(h)

GossipSpec ==
  /\ MeshInit \/ StarInit
  /\ [][Next /\ GossipBounds']_vars
  /\ PullFairness(c)

\* What AdmissionSpreads and EvictionSpreads say of c.
AdmissionReachesC == AdmissionSpreads(c)
EvictionReachesC == EvictionSpreads(c)
=============================================================================
