-------------------------- MODULE MCFederationMesh --------------------------
(***************************************************************************)
(* Three hubs that already form a mesh: a invited b with n1 and c with n2, *)
(* both accepted, and b and c found each other by gossip.  What follows is *)
(* eviction, re-invitation, announce and gossip among the three.           *)
(***************************************************************************)
EXTENDS Federation, FiniteSets, TLC

CONSTANTS a, b, c, n1, n2, MaxSigned, MaxDisabled

FoundingInvitation == [inviter_id |-> a, issued_at |-> 0, invitee_url |-> None]

\* The invitation hub h holds for p once the mesh has formed.
FoundingProvenance(h, p) ==
  CASE p = h -> None
    [] p # h /\ {h, p} = {a, b} -> n1
    [] p # h /\ {h, p} = {a, c} -> n2
    [] p = b /\ h = c -> n1
    [] p = c /\ h = b -> n2

MeshInit ==
  /\ now = 0
  /\ invitation =
       [n \in Nonce |-> IF n \in {n1, n2} THEN FoundingInvitation ELSE None]
  /\ consumed_by = [n \in Nonce |-> CASE n = n1 -> b [] n = n2 -> c [] OTHER -> None]
  /\ lifecycle = [h \in Hub |-> [p \in Hub |-> IF p = h THEN "absent" ELSE "active"]]
  /\ provenance = [h \in Hub |-> [p \in Hub |-> FoundingProvenance(h, p)]]
  /\ tombstone = [h \in Hub |-> [p \in Hub |-> None]]
  /\ registry = lifecycle
  /\ attempt = [k \in Attempt |-> None]
  /\ announces = {}
  /\ pull = [h \in Hub |-> NoPull(h)]

\* The evictions whose tombstones are on file somewhere, and who is disabled.
Signed ==
  {<<tombstone[x[1]][x[2]].removed_by, x[2]>> :
     x \in {x \in Hub \X Hub : tombstone[x[1]][x[2]] # None}}
Disabled == {x \in Hub \X Hub : lifecycle[x[1]][x[2]] = "disabled"}

\* Bounds on the states TLC goes on from: one hub in a sync pass at a time,
\* MaxSigned evictions on file and MaxDisabled disabled peers at once; no
\* accept replays a founding invitation (the pair run replays spent ones).
Bounds ==
  /\ Cardinality({h \in Hub : pull[h] # NoPull(h)}) <= 1
  /\ Cardinality(Signed) <= MaxSigned
  /\ Cardinality(Disabled) <= MaxDisabled
  /\ \A k \in Attempt : attempt[k] # None => attempt[k].nonce \notin {n1, n2}

MeshSpec == MeshInit /\ [][Next]_vars

\* Swapping b with c and n1 with n2 together maps the mesh to itself.
MeshSymmetry ==
  {[x \in {b, c, n1, n2} |->
      CASE x = b -> c [] x = c -> b [] x = n1 -> n2 [] x = n2 -> n1]}
=============================================================================
