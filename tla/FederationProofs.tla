-------------------------- MODULE FederationProofs --------------------------
(***************************************************************************)
(* Proofs about module Federation, for every set of hubs, invitations and  *)
(* accepts and every bound on the clock: first about its states, then      *)
(* about its steps: who may disable a peer, who may clear a tombstone, and *)
(* which tombstones may evict.                                             *)
(***************************************************************************)
EXTENDS Federation, TLAPS

\* What an accept and its handshake know: the invitation was issued, and once
\* the handshake is admitted the invitee is its consumer, alone.
AttemptsIssued ==
  \A k \in Attempt : attempt[k] # None => invitation[attempt[k].nonce] # None

\* Every invitation that can be passed on, in a row, an announce or the answer
\* to a gossip request, is redeemed.
RedeemedEverywhere ==
  /\ ProvenanceIsRedeemed
  /\ \A m \in announces : Redeemed(m.id, m.nonce)
  /\ \A h \in Hub : \A e \in pull[h].peers : Redeemed(e.id, e.nonce)

\* A loop that has not counted a change yet has changed nothing.
Fresh ==
  \A h \in Hub :
    pull[h].stage # "ingesting" \/ ~pull[h].changed => registry[h] = lifecycle[h]

IssuedInPast ==
  \A n \in Nonce : invitation[n] # None => invitation[n].issued_at <= now

Inv ==
  /\ TypeOK
  /\ AttemptsIssued
  /\ SingleRedemption
  /\ RedeemedEverywhere
  /\ Fresh
  /\ IssuedInPast

-----------------------------------------------------------------------------
\* Inv holds of a hub that was just installed.
LEMMA InitInv == Init => Inv
  <1> USE UrlAssumption, NoneAssumption, TimeAssumption
  <1> SUFFICES ASSUME Init PROVE Inv
    OBVIOUS
  <1>1. VarTypes
    BY DEF Init, VarTypes, Time, Lifecycle, Pull, NoPull, Resting, Announcement
  <1>2. TypeOK
    BY <1>1 DEF Init, TypeOK
  <1>3. AttemptsIssued /\ SingleRedemption /\ IssuedInPast
    BY DEF Init, AttemptsIssued, SingleRedemption, IssuedInPast
  <1>4. RedeemedEverywhere
    BY DEF Init, RedeemedEverywhere, ProvenanceIsRedeemed, NoPull, Resting
  <1>5. Fresh
    BY DEF Init, Fresh
  <1> QED
    BY <1>2, <1>3, <1>4, <1>5 DEF Inv

-----------------------------------------------------------------------------
(* What the invariant says of a request.                                   *)

\* An accept that was made names an issued invitation, and hubs.
LEMMA AttemptFacts ==
  ASSUME Inv, NEW k \in Attempt, attempt[k] # None
  PROVE  /\ attempt[k] \in AcceptRun
         /\ attempt[k].invitee \in Hub
         /\ attempt[k].nonce \in Nonce
         /\ invitation[attempt[k].nonce] \in Invitation
         /\ Inviter(k) \in Hub
  <1>1. attempt[k] \in AcceptRun
    BY DEF Inv, TypeOK, VarTypes
  <1>2. attempt[k].nonce \in Nonce /\ attempt[k].invitee \in Hub
    BY <1>1 DEF AcceptRun
  <1>3. invitation[attempt[k].nonce] \in Invitation
    BY <1>2 DEF Inv, TypeOK, VarTypes, AttemptsIssued
  <1> QED
    BY <1>1, <1>2, <1>3 DEF Inviter, Invitation

-----------------------------------------------------------------------------
(* Types.                                                                  *)

\* Clearing a tombstone keeps the type of the table.
LEMMA ClearTypes ==
  ASSUME Inv, NEW h, NEW p, ClearTombstone(h, p) \/ UNCHANGED tombstone
  PROVE  tombstone' \in [Hub -> [Hub -> Tombstone \cup {None}]]
  <1>1. tombstone \in [Hub -> [Hub -> Tombstone \cup {None}]]
    BY DEF Inv, TypeOK, VarTypes
  <1> QED
    BY <1>1 DEF ClearTombstone

\* The owner's operations keep every type.
LEMMA OwnerTypes ==
  ASSUME Inv, NEW h \in Hub, OwnerStep(h)
  PROVE  VarTypes'
  <1> USE UrlAssumption, NoneAssumption, TimeAssumption DEF Inv, TypeOK
  <1>1. ASSUME NEW n \in Nonce, NEW t \in Time, NEW url \in Url, Invite(h, n, t, url)
        PROVE  VarTypes'
    BY <1>1 DEF Invite, VarTypes, rows, Invitation
  <1>2. ASSUME NEW p \in Hub, NEW l \in {"active", "disabled"}, SetLifecycle(h, p, l)
        PROVE  VarTypes'
    <2>1. lifecycle' \in [Hub -> [Hub -> Lifecycle]]
      BY <1>2 DEF SetLifecycle, VarTypes, Lifecycle
    <2> QED
      BY <1>2, <2>1 DEF SetLifecycle, VarTypes, Reload
  <1>3. ASSUME NEW p \in Hub, NEW t \in Time, Evict(h, p, t)
        PROVE  VarTypes'
    <2>1. lifecycle' \in [Hub -> [Hub -> Lifecycle]]
      BY <1>3 DEF Evict, VarTypes, Lifecycle
    <2>2. tombstone' \in [Hub -> [Hub -> Tombstone \cup {None}]]
      BY <1>3 DEF Evict, VarTypes, CreateTombstone, Tombstone
    <2> QED
      BY <1>3, <2>1, <2>2 DEF Evict, VarTypes, Reload
  <1>4. ASSUME NEW k \in Attempt, NEW n \in Nonce, Accept(k, h, n)
        PROVE  VarTypes'
    <2>1. tombstone' \in [Hub -> [Hub -> Tombstone \cup {None}]]
      BY <1>4, ClearTypes DEF Accept, PassEviction
    <2>2. attempt' \in [Attempt -> AcceptRun \cup {None}]
      BY <1>4 DEF Accept, VarTypes, AcceptRun
    <2> QED
      BY <1>4, <2>1, <2>2 DEF Accept, VarTypes, rows
  <1> QED
    BY <1>1, <1>2, <1>3, <1>4 DEF OwnerStep, Enable, Disable

\* So does the upsert of a handshake or of a gossip entry.
LEMMA InsertTypes ==
  ASSUME Inv, NEW h \in Hub, NEW p \in Hub, NEW n \in Nonce,
         InsertUnlessAdmitted(h, p, n)
  PROVE  /\ lifecycle' \in [Hub -> [Hub -> Lifecycle]]
         /\ provenance' \in [Hub -> [Hub -> Nonce \cup {None}]]
  <1>1. /\ lifecycle \in [Hub -> [Hub -> Lifecycle]]
        /\ provenance \in [Hub -> [Hub -> Nonce \cup {None}]]
    BY DEF Inv, TypeOK, VarTypes
  <1>2. CASE UNCHANGED rows
    BY <1>1, <1>2 DEF rows
  <1>3. CASE /\ lifecycle' = [lifecycle EXCEPT ![h][p] = "active"]
             /\ provenance' = [provenance EXCEPT ![h][p] = n]
    BY <1>1, <1>3 DEF Lifecycle
  <1> QED
    BY <1>2, <1>3 DEF InsertUnlessAdmitted

\* Moving a request to another stage keeps its type.
LEMMA MoveTypes ==
  ASSUME Inv, NEW k \in Attempt, attempt[k] # None,
         NEW stage \in {"checking", "admitted", "refused"},
         NEW waiting \in BOOLEAN,
         Move(k, stage, waiting) \/ Move(k, attempt[k].stage, waiting)
  PROVE  attempt' \in [Attempt -> AcceptRun \cup {None}]
  <1>1. attempt[k] \in AcceptRun
    BY AttemptFacts
  <1>2. attempt \in [Attempt -> AcceptRun \cup {None}]
    BY DEF Inv, TypeOK, VarTypes
  <1> QED
    BY <1>1, <1>2 DEF Move, AcceptRun

\* The steps of a request and of its handshake keep every type.
LEMMA AttemptTypes ==
  ASSUME Inv, NEW k \in Attempt, AttemptStep(k)
  PROVE  VarTypes'
  <1> USE NoneAssumption DEF Inv, TypeOK
  <1>0. attempt[k] # None
    BY DEF AttemptStep, HandshakeBegin, HandshakeRefuse, HandshakeCommit,
           AcceptFinish, AcceptAbandon
  <1>f. /\ attempt[k] \in AcceptRun
        /\ attempt[k].invitee \in Hub
        /\ attempt[k].nonce \in Nonce
        /\ Inviter(k) \in Hub
        /\ attempt[k].waiting \in BOOLEAN
    BY <1>0, AttemptFacts DEF AcceptRun
  <1>1. CASE HandshakeBegin(k)
    <2>1. tombstone' \in [Hub -> [Hub -> Tombstone \cup {None}]]
      BY <1>1, ClearTypes DEF HandshakeBegin, PassEviction
    <2>2. attempt' \in [Attempt -> AcceptRun \cup {None}]
      BY <1>0, <1>1, <1>f, MoveTypes DEF HandshakeBegin
    <2> QED
      BY <1>1, <2>1, <2>2 DEF HandshakeBegin, VarTypes, rows
  <1>2. CASE HandshakeRefuse(k)
    <2>1. attempt' \in [Attempt -> AcceptRun \cup {None}]
      BY <1>0, <1>2, MoveTypes DEF HandshakeRefuse
    <2> QED
      BY <1>2, <2>1 DEF HandshakeRefuse, VarTypes, rows
  <1>3. CASE HandshakeCommit(k)
    <2>1. attempt' \in [Attempt -> AcceptRun \cup {None}]
      BY <1>0, <1>3, <1>f, MoveTypes DEF HandshakeCommit
    <2>2. /\ lifecycle' \in [Hub -> [Hub -> Lifecycle]]
          /\ provenance' \in [Hub -> [Hub -> Nonce \cup {None}]]
      BY <1>3, <1>f, InsertTypes DEF HandshakeCommit
    <2>3. consumed_by' \in [Nonce -> Hub \cup {None}]
      BY <1>3, <1>f DEF HandshakeCommit, VarTypes
    <2>4. registry' \in [Hub -> [Hub -> Lifecycle]]
      BY <1>3, <2>2 DEF HandshakeCommit, VarTypes, Reload
    <2>5. announces' \subseteq Announcement
      BY <1>3, <1>f DEF HandshakeCommit, VarTypes, Announcement
    <2> QED
      BY <1>3, <2>1, <2>2, <2>3, <2>4, <2>5 DEF HandshakeCommit, VarTypes
  <1>4. CASE AcceptFinish(k)
    <2>1. attempt' \in [Attempt -> AcceptRun \cup {None}]
      BY <1>0, <1>4, MoveTypes DEF AcceptFinish
    <2>2. lifecycle' \in [Hub -> [Hub -> Lifecycle]]
      BY <1>4, <1>f DEF AcceptFinish, VarTypes, MirrorLifecycle, Lifecycle
    <2>3. provenance' \in [Hub -> [Hub -> Nonce \cup {None}]]
      BY <1>4, <1>f DEF AcceptFinish, VarTypes, MirrorProvenance
    <2>4. registry' \in [Hub -> [Hub -> Lifecycle]]
      BY <1>4, <2>2 DEF AcceptFinish, VarTypes, Reload
    <2> QED
      BY <1>4, <2>1, <2>2, <2>3, <2>4 DEF AcceptFinish, VarTypes
  <1>5. CASE AcceptAbandon(k)
    <2>1. attempt' \in [Attempt -> AcceptRun \cup {None}]
      BY <1>0, <1>5, MoveTypes DEF AcceptAbandon
    <2> QED
      BY <1>5, <2>1 DEF AcceptAbandon, VarTypes, rows
  <1> QED
    BY <1>1, <1>2, <1>3, <1>4, <1>5 DEF AttemptStep

\* Ingesting a gossip entry keeps the types of a hub's tables.
LEMMA IngestTypes ==
  ASSUME Inv, NEW h \in Hub, NEW p \in Hub, NEW n \in Nonce, IngestEntry(h, p, n)
  PROVE  /\ lifecycle' \in [Hub -> [Hub -> Lifecycle]]
         /\ provenance' \in [Hub -> [Hub -> Nonce \cup {None}]]
         /\ tombstone' \in [Hub -> [Hub -> Tombstone \cup {None}]]
  <1>1. CASE Ingestible(h, p, n)
    BY <1>1, InsertTypes, ClearTypes DEF IngestEntry
  <1>2. CASE ~Ingestible(h, p, n)
    BY <1>2, ClearTypes DEF IngestEntry, rows, Inv, TypeOK, VarTypes
  <1> QED
    BY <1>1, <1>2

\* Delivering or losing an announce keeps every type.
LEMMA AnnounceTypes ==
  ASSUME Inv, NEW m \in announces, AnnounceDeliver(m) \/ AnnounceLose(m)
  PROVE  VarTypes'
  <1> USE DEF Inv, TypeOK
  <1>f. m.to \in Hub /\ m.id \in Hub /\ m.nonce \in Nonce
    BY DEF VarTypes, Announcement
  <1>1. CASE AnnounceDeliver(m)
    <2>1. /\ lifecycle' \in [Hub -> [Hub -> Lifecycle]]
          /\ provenance' \in [Hub -> [Hub -> Nonce \cup {None}]]
          /\ tombstone' \in [Hub -> [Hub -> Tombstone \cup {None}]]
      BY <1>1, <1>f, IngestTypes DEF AnnounceDeliver
    <2>2. registry' \in [Hub -> [Hub -> Lifecycle]]
      <3>1. \/ UNCHANGED registry
            \/ registry' = [registry EXCEPT ![m.to] = lifecycle'[m.to]]
        BY <1>1 DEF AnnounceDeliver, Reload
      <3> QED
        BY <1>f, <2>1, <3>1 DEF VarTypes
    <2> QED
      BY <1>1, <2>1, <2>2 DEF AnnounceDeliver, VarTypes
  <1>2. CASE AnnounceLose(m)
    BY <1>2 DEF AnnounceLose, VarTypes, rows
  <1> QED
    BY <1>1, <1>2

\* What the type of a gossip pass says of its fields.
LEMMA PullFacts ==
  ASSUME Inv, NEW h \in Hub
  PROVE  /\ pull[h] \in Pull
         /\ pull[h].peer \in Hub
         /\ pull[h].queue \subseteq Hub
         /\ pull[h].changed \in BOOLEAN
         /\ \A e \in pull[h].peers : e.id \in Hub /\ e.nonce \in Nonce
         /\ \A d \in pull[h].tombstones :
              d.instance_id \in Hub /\ d.removed_by \in Hub /\ d.created_at \in Time
  <1>1. pull[h] \in Pull
    BY DEF Inv, TypeOK, VarTypes
  <1> QED
    BY <1>1 DEF Pull, PeerEntry, TombstoneEntry

\* The steps of a sync pass keep every type.
LEMMA PullTypes ==
  ASSUME Inv, NEW h \in Hub, PullStep(h)
  PROVE  VarTypes'
  <1> USE DEF Inv, TypeOK
  <1>p. pull \in [Hub -> Pull]
    BY DEF VarTypes
  <1>f. pull[h] \in Pull /\ pull[h].peer \in Hub /\ pull[h].queue \subseteq Hub
    BY PullFacts
  <1>r. \A q \in SUBSET Hub : Resting(h, q) \in Pull
    BY DEF Resting, Pull
  <1>1. ASSUME NEW p \in Hub, SyncStart(h, p)
        PROVE  VarTypes'
    <2>1. Upcoming(h) \subseteq Hub
      BY <1>f DEF Upcoming
    <2>2. pull' \in [Hub -> Pull]
      BY <1>1, <1>p, <1>f, <2>1 DEF SyncStart, Pull
    <2> QED
      BY <1>1, <2>2 DEF SyncStart, VarTypes, rows
  <1>2. CASE GossipServe(h)
    <2> DEFINE p == pull[h].peer
    <2>1. \A q \in Lists(p, h) : [id |-> q, nonce |-> provenance[p][q]] \in PeerEntry
      BY <1>f DEF Lists, PeerEntry, VarTypes
    <2>2. \A q \in Hub : tombstone[p][q] # None =>
            [instance_id |-> q, removed_by |-> tombstone[p][q].removed_by,
             created_at |-> tombstone[p][q].created_at] \in TombstoneEntry
      BY <1>f DEF TombstoneEntry, VarTypes, Tombstone
    <2>3. pull' \in [Hub -> Pull]
      BY <1>2, <1>p, <1>f, <2>1, <2>2 DEF GossipServe, Pull
    <2> QED
      BY <1>2, <2>3 DEF GossipServe, VarTypes, rows
  <1>3. CASE SyncFail(h)
    <2>1. pull' \in [Hub -> Pull]
      BY <1>3, <1>p, <1>f, <1>r DEF SyncFail
    <2> QED
      BY <1>3, <2>1 DEF SyncFail, VarTypes, rows
  <1>4. CASE IngestBegin(h)
    <2>1. pull' \in [Hub -> Pull]
      BY <1>4, <1>p, <1>f DEF IngestBegin, Pull
    <2> QED
      BY <1>4, <2>1 DEF IngestBegin, VarTypes, rows
  <1>5. ASSUME NEW e \in pull[h].peers, IngestPeer(h, e)
        PROVE  VarTypes'
    <2>1. e.id \in Hub /\ e.nonce \in Nonce
      BY PullFacts
    <2>2. /\ lifecycle' \in [Hub -> [Hub -> Lifecycle]]
          /\ provenance' \in [Hub -> [Hub -> Nonce \cup {None}]]
          /\ tombstone' \in [Hub -> [Hub -> Tombstone \cup {None}]]
      BY <1>5, <2>1, IngestTypes DEF IngestPeer
    <2>3. Adds(h, e.id, e.nonce) \in BOOLEAN
      BY DEF Adds, Ingestible
    <2>4. pull' \in [Hub -> Pull]
      BY <1>5, <1>p, <1>f, <2>3 DEF IngestPeer, Pull
    <2> QED
      BY <1>5, <2>2, <2>4 DEF IngestPeer, VarTypes
  <1>6. ASSUME NEW d \in pull[h].tombstones, IngestTombstone(h, d)
        PROVE  VarTypes'
    <2>1. d.instance_id \in Hub /\ d.removed_by \in Hub /\ d.created_at \in Time
      BY PullFacts
    <2>2. tombstone' \in [Hub -> [Hub -> Tombstone \cup {None}]]
      <3>1. \/ UNCHANGED tombstone
            \/ tombstone' = [tombstone EXCEPT ![h][d.instance_id] =
                 [removed_by |-> d.removed_by, created_at |-> d.created_at]]
        BY <1>6 DEF IngestTombstone
      <3>2. tombstone \in [Hub -> [Hub -> Tombstone \cup {None}]]
        BY DEF VarTypes
      <3>3. [removed_by |-> d.removed_by, created_at |-> d.created_at] \in Tombstone
        BY <2>1 DEF Tombstone
      <3>4. ASSUME NEW t \in Tombstone,
                   tombstone' = [tombstone EXCEPT ![h][d.instance_id] = t]
            PROVE  tombstone' \in [Hub -> [Hub -> Tombstone \cup {None}]]
        BY <2>1, <3>2, <3>4
      <3> QED
        BY <3>1, <3>2, <3>3, <3>4
    <2>3. lifecycle' \in [Hub -> [Hub -> Lifecycle]]
      <3>1. \/ UNCHANGED lifecycle
            \/ lifecycle' = [lifecycle EXCEPT ![h][d.instance_id] =
                 IF @ = "absent" THEN @ ELSE "tombstoned"]
        BY <1>6 DEF IngestTombstone
      <3>2. lifecycle \in [Hub -> [Hub -> Lifecycle]]
        BY DEF VarTypes
      <3> QED
        BY <2>1, <3>1, <3>2 DEF Lifecycle
    <2>4. Honours(h, d) \in BOOLEAN
      BY DEF Honours
    <2>5. pull' \in [Hub -> Pull]
      BY <1>6, <1>p, <1>f, <2>4 DEF IngestTombstone, Pull
    <2> QED
      BY <1>6, <2>2, <2>3, <2>5 DEF IngestTombstone, VarTypes
  <1>7. CASE IngestEnd(h)
    <2>1. pull' \in [Hub -> Pull]
      BY <1>7, <1>p, <1>f, <1>r DEF IngestEnd
    <2>2. registry' \in [Hub -> [Hub -> Lifecycle]]
      <3>1. \/ UNCHANGED registry
            \/ registry' = [registry EXCEPT ![h] = lifecycle[h]]
        BY <1>7 DEF IngestEnd
      <3> QED
        BY <3>1 DEF VarTypes
    <2> QED
      BY <1>7, <2>1, <2>2 DEF IngestEnd, VarTypes, rows
  <1> QED
    BY <1>1, <1>2, <1>3, <1>4, <1>5, <1>6, <1>7 DEF PullStep, IngestStep

\* A restart keeps every type.
LEMMA RestartTypes ==
  ASSUME Inv, NEW h \in Hub, Restart(h)
  PROVE  VarTypes'
  <1> USE DEF Inv, TypeOK
  <1>1. registry' \in [Hub -> [Hub -> Lifecycle]]
    BY DEF Restart, VarTypes
  <1>2. pull' \in [Hub -> Pull]
    BY DEF Restart, VarTypes, NoPull, Resting, Pull
  <1>3. ASSUME NEW k \in Attempt, attempt[k] # None
        PROVE  [attempt[k] EXCEPT
                  !.stage = IF @ = "checking" /\ Inviter(k) = h THEN "refused" ELSE @,
                  !.waiting = @ /\ attempt[k].invitee # h] \in AcceptRun
    BY <1>3, AttemptFacts DEF AcceptRun
  <1>4. attempt' \in [Attempt -> AcceptRun \cup {None}]
    BY <1>3 DEF Restart
  <1> QED
    BY <1>1, <1>2, <1>4 DEF Restart, VarTypes, rows

\* Every step keeps every type.
LEMMA StepTypes == Inv /\ [Next]_vars => VarTypes'
  <1> SUFFICES ASSUME Inv, [Next]_vars PROVE VarTypes'
    OBVIOUS
  <1>1. CASE UNCHANGED vars
    BY <1>1 DEF vars, rows, Inv, TypeOK, VarTypes
  <1> QED
    BY <1>1, OwnerTypes, AttemptTypes, AnnounceTypes, PullTypes, RestartTypes DEF Next

-----------------------------------------------------------------------------
(* What is written once stays: invitations and their consumption.          *)

\* Invitations and their consumers are never rewritten, and the clock never
\* goes back, so every invitation on file was issued before now.
LEMMA Stable ==
  ASSUME Inv, [Next]_vars
  PROVE  /\ \A n \in Nonce : invitation[n] # None => invitation'[n] = invitation[n]
         /\ \A n \in Nonce : consumed_by[n] # None => consumed_by'[n] = consumed_by[n]
         /\ now <= now'
         /\ IssuedInPast'
  <1> USE DEF Inv, TypeOK
  <1> DEFINE G == /\ \A n \in Nonce : invitation[n] # None => invitation'[n] = invitation[n]
                  /\ \A n \in Nonce : consumed_by[n] # None => consumed_by'[n] = consumed_by[n]
                  /\ now <= now'
                  /\ IssuedInPast'
  <1>t. now \in Nat /\ \A n \in Nonce : invitation[n] # None => invitation[n].issued_at \in Nat
    BY TimeAssumption DEF VarTypes, Time, Invitation
  <1>1. ASSUME UNCHANGED <<now, invitation, consumed_by>>
        PROVE  G
    BY <1>1, <1>t DEF IssuedInPast
  <1>2. ASSUME NEW h \in Hub, NEW n \in Nonce, NEW t \in Time, NEW url \in Url,
               Invite(h, n, t, url)
        PROVE  G
    <2>1. now' = t /\ now <= t /\ t \in Nat
      BY <1>2 DEF Invite, Time
    <2>2. invitation' = [invitation EXCEPT ![n] =
            [inviter_id |-> h, issued_at |-> t, invitee_url |-> url]]
          /\ invitation[n] = None /\ UNCHANGED consumed_by
      BY <1>2 DEF Invite
    <2> QED
      BY <1>t, <2>1, <2>2 DEF IssuedInPast, VarTypes
  <1>3. ASSUME NEW h \in Hub, NEW p \in Hub, NEW t \in Time, Evict(h, p, t)
        PROVE  G
    <2>1. now' = t /\ now <= t /\ t \in Nat
      BY <1>3 DEF Evict, Time
    <2>2. UNCHANGED <<invitation, consumed_by>>
      BY <1>3 DEF Evict
    <2> QED
      BY <1>t, <2>1, <2>2 DEF IssuedInPast
  <1>4. ASSUME NEW k \in Attempt, HandshakeCommit(k)
        PROVE  G
    <2>1. attempt[k].nonce \in Nonce
      BY <1>4, AttemptFacts DEF HandshakeCommit
    <2>2. /\ consumed_by[attempt[k].nonce] = None
          /\ consumed_by' = [consumed_by EXCEPT ![attempt[k].nonce] = attempt[k].invitee]
          /\ UNCHANGED <<now, invitation>>
      BY <1>4 DEF HandshakeCommit, Consumes
    <2> QED
      BY <1>t, <2>1, <2>2 DEF IssuedInPast, VarTypes
  <1>5. ASSUME NEW h \in Hub, OwnerStep(h)
        PROVE  G
    BY <1>1, <1>2, <1>3, <1>5 DEF OwnerStep, Disable, Enable, SetLifecycle, Accept
  <1>6. ASSUME NEW k \in Attempt, AttemptStep(k)
        PROVE  G
    BY <1>1, <1>4, <1>6 DEF AttemptStep, HandshakeBegin, HandshakeRefuse, AcceptFinish,
       AcceptAbandon
  <1>7. ASSUME NEW h \in Hub, PullStep(h) \/ Restart(h)
        PROVE  G
    BY <1>1, <1>7 DEF PullStep, SyncStart, GossipServe, SyncFail, IngestStep,
       IngestBegin, IngestPeer, IngestTombstone, IngestEnd, Restart
  <1>8. ASSUME NEW m \in announces, AnnounceDeliver(m) \/ AnnounceLose(m)
        PROVE  G
    BY <1>1, <1>8 DEF AnnounceDeliver, AnnounceLose
  <1> QED
    BY <1>1, <1>5, <1>6, <1>7, <1>8 DEF Next, vars

\* Redeemed, of the state after a step.
RedeemedNext(p, n) ==
  /\ invitation'[n] # None
  /\ consumed_by'[n] # None
  /\ p \in {invitation'[n].inviter_id, consumed_by'[n]}

\* A redeemed invitation stays redeemed, by the same two hubs.
LEMMA RedeemedStable ==
  ASSUME Inv, [Next]_vars, NEW p, NEW n \in Nonce, Redeemed(p, n)
  PROVE  RedeemedNext(p, n)
  BY Stable DEF Redeemed, RedeemedNext

-----------------------------------------------------------------------------
(* Rows.                                                                   *)

\* What a step may do to the row of p at h: nothing, move its lifecycle, or
\* store a redeemed invitation of p with it.
RowMove(h, p) ==
  \/ lifecycle'[h][p] = lifecycle[h][p] /\ provenance'[h][p] = provenance[h][p]
  \/ /\ lifecycle[h][p] # "absent"
     /\ lifecycle'[h][p] # "absent"
     /\ provenance'[h][p] = provenance[h][p]
  \/ /\ lifecycle'[h][p] # "absent"
     /\ provenance'[h][p] \in Nonce
     /\ RedeemedNext(p, provenance'[h][p])

\* The upsert of a redeemed invitation is one of the moves of a row.
LEMMA InsertMoves ==
  ASSUME Inv, NEW g \in Hub, NEW q \in Hub, NEW n \in Nonce,
         InsertUnlessAdmitted(g, q, n), RedeemedNext(q, n)
  PROVE  \A h, p \in Hub : RowMove(h, p)
  <1>1. /\ lifecycle \in [Hub -> [Hub -> Lifecycle]]
        /\ provenance \in [Hub -> [Hub -> Nonce \cup {None}]]
    BY DEF Inv, TypeOK, VarTypes
  <1>2. CASE UNCHANGED rows
    BY <1>2 DEF rows, RowMove
  <1>3. CASE /\ lifecycle' = [lifecycle EXCEPT ![g][q] = "active"]
             /\ provenance' = [provenance EXCEPT ![g][q] = n]
    <2> SUFFICES ASSUME NEW h \in Hub, NEW p \in Hub PROVE RowMove(h, p)
      OBVIOUS
    <2>1. CASE h = g /\ p = q
      <3>1. lifecycle'[h][p] = "active" /\ provenance'[h][p] = n
        BY <1>1, <1>3, <2>1
      <3> QED
        BY <2>1, <3>1 DEF RowMove
    <2>2. CASE ~(h = g /\ p = q)
      BY <1>1, <1>3, <2>2 DEF RowMove
    <2> QED
      BY <2>1, <2>2
  <1> QED
    BY <1>2, <1>3 DEF InsertUnlessAdmitted

\* So is the ingestion of a redeemed entry.
LEMMA IngestMoves ==
  ASSUME Inv, [Next]_vars, NEW g \in Hub, NEW q \in Hub, NEW n \in Nonce,
         IngestEntry(g, q, n), Redeemed(q, n)
  PROVE  \A h, p \in Hub : RowMove(h, p)
  <1>1. RedeemedNext(q, n)
    BY RedeemedStable
  <1> QED
    BY <1>1, InsertMoves DEF IngestEntry, rows, RowMove

\* Every step moves every row in one of these ways.
LEMMA RowSteps ==
  ASSUME Inv, [Next]_vars
  PROVE  \A h, p \in Hub : RowMove(h, p)
  <1> DEFINE G == \A h, p \in Hub : RowMove(h, p)
  <1>l. /\ lifecycle \in [Hub -> [Hub -> Lifecycle]]
        /\ provenance \in [Hub -> [Hub -> Nonce \cup {None}]]
    BY DEF Inv, TypeOK, VarTypes
  <1>1. ASSUME UNCHANGED rows
        PROVE  G
    BY <1>1 DEF rows, RowMove
  <1>2. ASSUME NEW h \in Hub, NEW p \in Hub, NEW l \in {"active", "disabled"},
               SetLifecycle(h, p, l)
        PROVE  G
    <2>1. /\ lifecycle[h][p] # "absent"
          /\ lifecycle' = [lifecycle EXCEPT ![h][p] = l]
          /\ UNCHANGED provenance
      BY <1>2 DEF SetLifecycle
    <2> QED
      BY <1>l, <2>1 DEF RowMove
  <1>3. ASSUME NEW h \in Hub, NEW p \in Hub, NEW t \in Time, Evict(h, p, t)
        PROVE  G
    <2>1. /\ lifecycle[h][p] # "absent"
          /\ lifecycle' = [lifecycle EXCEPT ![h][p] = "tombstoned"]
          /\ UNCHANGED provenance
      BY <1>3 DEF Evict
    <2> QED
      BY <1>l, <2>1 DEF RowMove
  <1>4. ASSUME NEW k \in Attempt, HandshakeCommit(k)
        PROVE  G
    <2>f. /\ attempt[k].invitee \in Hub
          /\ attempt[k].nonce \in Nonce
          /\ Inviter(k) \in Hub
          /\ invitation[attempt[k].nonce] \in Invitation
      BY <1>4, AttemptFacts DEF HandshakeCommit
    <2>1. /\ consumed_by' = [consumed_by EXCEPT ![attempt[k].nonce] = attempt[k].invitee]
          /\ consumed_by \in [Nonce -> Hub \cup {None}]
          /\ UNCHANGED invitation
      BY <1>4 DEF HandshakeCommit, Inv, TypeOK, VarTypes
    <2>2. ASSUME NEW n \in Nonce, NEW p \in Hub,
                 consumed_by' = [consumed_by EXCEPT ![n] = p], invitation[n] \in Invitation
          PROVE  RedeemedNext(p, n)
      BY <2>1, <2>2, NoneAssumption DEF RedeemedNext
    <2>3. RedeemedNext(attempt[k].invitee, attempt[k].nonce)
      BY <2>f, <2>1, <2>2
    <2> QED
      BY <1>4, <2>f, <2>3, InsertMoves DEF HandshakeCommit
  <1>5. ASSUME NEW k \in Attempt, AcceptFinish(k)
        PROVE  G
    <2>f. /\ attempt[k].invitee \in Hub
          /\ attempt[k].nonce \in Nonce
          /\ Inviter(k) \in Hub
          /\ invitation[attempt[k].nonce] \in Invitation
      BY <1>5, AttemptFacts DEF AcceptFinish
    <2> DEFINE h == attempt[k].invitee
               p == Inviter(k)
    <2>1. /\ lifecycle' = [lifecycle EXCEPT ![h][p] = MirrorLifecycle(@)]
          /\ provenance' = [provenance EXCEPT ![h][p] = attempt[k].nonce]
      BY <1>5 DEF AcceptFinish, MirrorProvenance
    <2>2. consumed_by[attempt[k].nonce] = attempt[k].invitee
      BY <1>5 DEF AcceptFinish, Answered, Inv, SingleRedemption
    <2>3. Redeemed(p, attempt[k].nonce)
      BY <2>f, <2>2, NoneAssumption DEF Redeemed, Inviter
    <2>4. RedeemedNext(p, attempt[k].nonce)
      BY <2>f, <2>3, RedeemedStable
    <2>5. lifecycle'[h][p] # "absent"
      BY <1>l, <2>f, <2>1 DEF MirrorLifecycle, Lifecycle
    <2>6. provenance'[h][p] = attempt[k].nonce
      BY <1>l, <2>f, <2>1
    <2>7. \A g, q \in Hub : ~(g = h /\ q = p) =>
            lifecycle'[g][q] = lifecycle[g][q] /\ provenance'[g][q] = provenance[g][q]
      BY <1>l, <2>f, <2>1
    <2> HIDE DEF h, p
    <2> QED
      BY <2>4, <2>5, <2>6, <2>7, <2>f DEF RowMove
  <1>6. ASSUME NEW m \in announces, AnnounceDeliver(m)
        PROVE  G
    <2>1. m.to \in Hub /\ m.id \in Hub /\ m.nonce \in Nonce
      BY DEF Inv, TypeOK, VarTypes, Announcement
    <2>2. Redeemed(m.id, m.nonce)
      BY DEF Inv, RedeemedEverywhere
    <2> QED
      BY <1>6, <2>1, <2>2, IngestMoves DEF AnnounceDeliver
  <1>7. ASSUME NEW h \in Hub, NEW e \in pull[h].peers, IngestPeer(h, e)
        PROVE  G
    <2>1. e.id \in Hub /\ e.nonce \in Nonce
      BY PullFacts
    <2>2. Redeemed(e.id, e.nonce)
      BY DEF Inv, RedeemedEverywhere
    <2> QED
      BY <1>7, <2>1, <2>2, IngestMoves DEF IngestPeer
  <1>8. ASSUME NEW h \in Hub, NEW d \in pull[h].tombstones, IngestTombstone(h, d)
        PROVE  G
    <2>1. d.instance_id \in Hub
      BY PullFacts
    <2>2. \/ UNCHANGED lifecycle
          \/ lifecycle' = [lifecycle EXCEPT ![h][d.instance_id] =
               IF @ = "absent" THEN @ ELSE "tombstoned"]
      BY <1>8 DEF IngestTombstone
    <2>3. UNCHANGED provenance
      BY <1>8 DEF IngestTombstone
    <2> QED
      BY <1>l, <2>1, <2>2, <2>3 DEF RowMove
  <1>9. ASSUME NEW h \in Hub, OwnerStep(h)
        PROVE  G
    BY <1>1, <1>2, <1>3, <1>9 DEF OwnerStep, Disable, Enable, Invite, Accept
  <1>10. ASSUME NEW k \in Attempt, AttemptStep(k)
         PROVE  G
    BY <1>1, <1>4, <1>5, <1>10 DEF AttemptStep, HandshakeBegin, HandshakeRefuse, AcceptAbandon
  <1>11. ASSUME NEW h \in Hub, PullStep(h) \/ Restart(h)
         PROVE  G
    BY <1>1, <1>7, <1>8, <1>11 DEF PullStep, SyncStart, GossipServe, SyncFail, IngestStep,
       IngestBegin, IngestEnd, Restart
  <1>12. ASSUME NEW m \in announces, AnnounceDeliver(m) \/ AnnounceLose(m)
         PROVE  G
    BY <1>1, <1>6, <1>12 DEF AnnounceLose
  <1> QED
    BY <1>1, <1>9, <1>10, <1>11, <1>12 DEF Next, vars, rows

\* A row still stores an invitation exactly if it exists.
LEMMA StepTypeOK == Inv /\ [Next]_vars => TypeOK'
  <1> SUFFICES ASSUME Inv, [Next]_vars, NEW h \in Hub, NEW p \in Hub
               PROVE  (/\ lifecycle[h][p] # "absent" <=> provenance[h][p] # None
                       /\ provenance[h][p] # None => invitation[provenance[h][p]] # None)'
    BY StepTypes DEF TypeOK
  <1>1. RowMove(h, p)
    BY RowSteps
  <1>2. /\ lifecycle[h][p] # "absent" <=> provenance[h][p] # None
        /\ provenance[h][p] # None => invitation[provenance[h][p]] # None
        /\ provenance[h][p] \in Nonce \cup {None}
    BY DEF Inv, TypeOK, VarTypes
  <1>3. \A n \in Nonce : invitation[n] # None => invitation'[n] # None
    BY Stable
  <1> QED
    BY <1>1, <1>2, <1>3, NoneAssumption DEF RowMove, RedeemedNext

\* Every row still rests on a redeemed invitation.
LEMMA StepProvenance == Inv /\ [Next]_vars => ProvenanceIsRedeemed'
  <1> SUFFICES ASSUME Inv, [Next]_vars, NEW h \in Hub, NEW p \in Hub,
                      lifecycle'[h][p] # "absent"
               PROVE  Redeemed(p, provenance[h][p])'
    BY DEF ProvenanceIsRedeemed
  <1>1. RowMove(h, p)
    BY RowSteps
  <1>2. CASE lifecycle[h][p] # "absent" /\ provenance'[h][p] = provenance[h][p]
    <2>1. provenance[h][p] \in Nonce /\ Redeemed(p, provenance[h][p])
      BY <1>2 DEF Inv, TypeOK, VarTypes, RedeemedEverywhere, ProvenanceIsRedeemed
    <2> QED
      BY <1>2, <2>1, RedeemedStable DEF Redeemed, RedeemedNext
  <1>3. CASE RedeemedNext(p, provenance'[h][p])
    BY <1>3 DEF Redeemed, RedeemedNext
  <1> QED
    BY <1>1, <1>2, <1>3 DEF RowMove

-----------------------------------------------------------------------------
(* Messages.                                                               *)

\* An announce is sent by the hub that has just recorded the consumer.
LEMMA AnnouncesNext ==
  ASSUME Inv, [Next]_vars, NEW m \in announces', m \notin announces
  PROVE  RedeemedNext(m.id, m.nonce)
  <1>1. ASSUME announces' \subseteq announces
        PROVE  FALSE
    BY <1>1
  <1>2. ASSUME NEW k \in Attempt, HandshakeCommit(k)
        PROVE  RedeemedNext(m.id, m.nonce)
    <2>f. /\ attempt[k].invitee \in Hub
          /\ attempt[k].nonce \in Nonce
          /\ invitation[attempt[k].nonce] \in Invitation
      BY <1>2, AttemptFacts DEF HandshakeCommit
    <2>1. m.id = attempt[k].invitee /\ m.nonce = attempt[k].nonce
      BY <1>2 DEF HandshakeCommit
    <2>2. /\ consumed_by' = [consumed_by EXCEPT ![attempt[k].nonce] = attempt[k].invitee]
          /\ consumed_by \in [Nonce -> Hub \cup {None}]
          /\ UNCHANGED invitation
      BY <1>2 DEF HandshakeCommit, Inv, TypeOK, VarTypes
    <2>3. ASSUME NEW n \in Nonce, NEW p \in Hub,
                 consumed_by' = [consumed_by EXCEPT ![n] = p], invitation[n] \in Invitation
          PROVE  RedeemedNext(p, n)
      BY <2>2, <2>3, NoneAssumption DEF RedeemedNext
    <2> QED
      BY <2>f, <2>1, <2>2, <2>3
  <1>3. ASSUME NEW h \in Hub, OwnerStep(h) \/ PullStep(h) \/ Restart(h)
        PROVE  FALSE
    BY <1>1, <1>3 DEF OwnerStep, Invite, Disable, Enable, SetLifecycle, Evict, Accept,
       PullStep, SyncStart, GossipServe, SyncFail, IngestStep, IngestBegin, IngestPeer,
       IngestTombstone, IngestEnd, Restart
  <1>4. ASSUME NEW k \in Attempt, AttemptStep(k)
        PROVE  HandshakeCommit(k)
    BY <1>1, <1>4 DEF AttemptStep, HandshakeBegin, HandshakeRefuse, AcceptFinish,
       AcceptAbandon
  <1>5. ASSUME NEW a \in announces, AnnounceDeliver(a) \/ AnnounceLose(a)
        PROVE  FALSE
    BY <1>1, <1>5 DEF AnnounceDeliver, AnnounceLose
  <1> QED
    BY <1>1, <1>2, <1>3, <1>4, <1>5 DEF Next, vars

\* A gossip answer lists rows, which rest on redeemed invitations.
LEMMA EntriesNext ==
  ASSUME Inv, [Next]_vars, NEW h \in Hub, NEW e \in pull'[h].peers,
         e \notin pull[h].peers
  PROVE  e.nonce \in Nonce /\ Redeemed(e.id, e.nonce)
  <1>p. pull \in [Hub -> Pull]
    BY DEF Inv, TypeOK, VarTypes
  <1>1. ASSUME UNCHANGED pull
        PROVE  FALSE
    BY <1>1
  <1>2. CASE GossipServe(h)
    <2> DEFINE p == pull[h].peer
    <2>1. p \in Hub
      BY PullFacts
    <2>2. pull'[h].peers = {[id |-> q, nonce |-> provenance[p][q]] : q \in Lists(p, h)}
      BY <1>2, <1>p DEF GossipServe
    <2>3. PICK q \in Lists(p, h) : e = [id |-> q, nonce |-> provenance[p][q]]
      BY <2>2
    <2>4. q \in Hub /\ lifecycle[p][q] # "absent"
      BY <2>1, <2>3 DEF Lists
    <2>5. provenance[p][q] \in Nonce /\ Redeemed(q, provenance[p][q])
      BY <2>1, <2>4 DEF Inv, TypeOK, VarTypes, RedeemedEverywhere, ProvenanceIsRedeemed
    <2> QED
      BY <2>3, <2>5
  <1>3. ASSUME NEW g \in Hub, OwnerStep(g)
        PROVE  FALSE
    BY <1>1, <1>3 DEF OwnerStep, Invite, Disable, Enable, SetLifecycle, Evict, Accept
  <1>4. ASSUME NEW k \in Attempt, AttemptStep(k)
        PROVE  FALSE
    BY <1>1, <1>4 DEF AttemptStep, HandshakeBegin, HandshakeRefuse, HandshakeCommit,
       AcceptFinish, AcceptAbandon
  <1>5. ASSUME NEW a \in announces, AnnounceDeliver(a) \/ AnnounceLose(a)
        PROVE  FALSE
    BY <1>1, <1>5 DEF AnnounceDeliver, AnnounceLose
  <1>6. ASSUME NEW g \in Hub, PullStep(g) \/ Restart(g), g # h
        PROVE  FALSE
    <2>1. pull'[h] = pull[h]
      BY <1>6, <1>p DEF PullStep, SyncStart, GossipServe, SyncFail, IngestStep,
         IngestBegin, IngestPeer, IngestTombstone, IngestEnd, Restart
    <2> QED
      BY <2>1
  <1>7. ASSUME PullStep(h) \/ Restart(h)
        PROVE  GossipServe(h)
    <2>1. ASSUME NEW g \in SUBSET Hub, pull' = [pull EXCEPT ![h] = Resting(h, g)]
          PROVE  FALSE
      BY <1>p, <2>1 DEF Resting
    <2>2. ASSUME NEW p \in Hub, SyncStart(h, p)
          PROVE  FALSE
      BY <1>p, <2>2 DEF SyncStart, Pull
    <2>3. ASSUME SyncFail(h) \/ IngestEnd(h) \/ Restart(h)
          PROVE  FALSE
      <3>1. pull[h].queue \in SUBSET Hub /\ {} \in SUBSET Hub
        BY PullFacts
      <3>2. \/ pull' = [pull EXCEPT ![h] = Resting(h, pull[h].queue)]
            \/ pull' = [pull EXCEPT ![h] = Resting(h, {})]
        BY <1>p, <2>3 DEF SyncFail, IngestEnd, Restart, NoPull
      <3> QED
        BY <2>1, <3>1, <3>2
    <2>4. ASSUME IngestBegin(h)
          PROVE  FALSE
      BY <1>p, <2>4 DEF IngestBegin, Pull
    <2>5. ASSUME NEW f \in pull[h].peers, IngestPeer(h, f)
          PROVE  FALSE
      BY <1>p, <2>5 DEF IngestPeer, Pull
    <2>6. ASSUME NEW d \in pull[h].tombstones, IngestTombstone(h, d)
          PROVE  FALSE
      BY <1>p, <2>6 DEF IngestTombstone, Pull
    <2> QED
      BY <1>7, <2>2, <2>3, <2>4, <2>5, <2>6 DEF PullStep, IngestStep
  <1> QED
    BY <1>1, <1>2, <1>3, <1>4, <1>5, <1>6, <1>7 DEF Next, vars

\* Rows, announces and gossip entries stay redeemed.
LEMMA StepRedeemed == Inv /\ [Next]_vars => RedeemedEverywhere'
  <1> SUFFICES ASSUME Inv, [Next]_vars PROVE RedeemedEverywhere'
    OBVIOUS
  <1>1. ProvenanceIsRedeemed'
    BY StepProvenance
  <1>2. ASSUME NEW m \in announces'
        PROVE  Redeemed(m.id, m.nonce)'
    <2>1. CASE m \in announces
      <3>1. m.nonce \in Nonce /\ Redeemed(m.id, m.nonce)
        BY <2>1 DEF Inv, TypeOK, VarTypes, Announcement, RedeemedEverywhere
      <3> QED
        BY <3>1, RedeemedStable DEF Redeemed, RedeemedNext
    <2>2. CASE m \notin announces
      BY <2>2, AnnouncesNext DEF Redeemed, RedeemedNext
    <2> QED
      BY <2>1, <2>2
  <1>3. ASSUME NEW h \in Hub, NEW e \in pull'[h].peers
        PROVE  Redeemed(e.id, e.nonce)'
    <2>1. e.nonce \in Nonce /\ Redeemed(e.id, e.nonce)
      BY EntriesNext, PullFacts DEF Inv, RedeemedEverywhere
    <2> QED
      BY <2>1, RedeemedStable DEF Redeemed, RedeemedNext
  <1> QED
    BY <1>1, <1>2, <1>3 DEF RedeemedEverywhere

-----------------------------------------------------------------------------
(* Accepts and handshakes.                                                 *)

\* What a step may do to accept k: make it, or go on without admitting it,
\* or commit its handshake.
AttemptMove(k) ==
  \/ attempt'[k] = None
  \/ /\ attempt[k] = None
     /\ attempt'[k].stage = "requested"
     /\ attempt'[k].nonce \in Nonce
     /\ invitation[attempt'[k].nonce] # None
  \/ /\ attempt[k] # None
     /\ attempt'[k].invitee = attempt[k].invitee
     /\ attempt'[k].nonce = attempt[k].nonce
     /\ attempt'[k].stage = "admitted" => attempt[k].stage = "admitted" \/ HandshakeCommit(k)

\* Move changes the stage of one request and nothing else of it.
LEMMA MoveMoves ==
  ASSUME Inv, NEW k \in Attempt, attempt[k] # None, NEW stage, NEW waiting,
         Move(k, stage, waiting),
         stage = "admitted" => attempt[k].stage = "admitted" \/ HandshakeCommit(k)
  PROVE  \A j \in Attempt : AttemptMove(j)
  <1>1. attempt \in [Attempt -> AcceptRun \cup {None}] /\ attempt[k] \in AcceptRun
    BY AttemptFacts DEF Inv, TypeOK, VarTypes
  <1>2. \A j \in Attempt : j # k => attempt'[j] = attempt[j]
    BY <1>1 DEF Move
  <1>3. /\ attempt'[k].invitee = attempt[k].invitee
        /\ attempt'[k].nonce = attempt[k].nonce
        /\ attempt'[k].stage = stage
    BY <1>1 DEF Move, AcceptRun
  <1> QED
    BY <1>2, <1>3 DEF AttemptMove

\* What a step may do to a request.
LEMMA AttemptSteps ==
  ASSUME Inv, [Next]_vars
  PROVE  \A k \in Attempt : AttemptMove(k)
  <1> DEFINE G == \A k \in Attempt : AttemptMove(k)
  <1>a. attempt \in [Attempt -> AcceptRun \cup {None}]
    BY DEF Inv, TypeOK, VarTypes
  <1>1. ASSUME UNCHANGED attempt
        PROVE  G
    BY <1>1 DEF AttemptMove
  <1>2. ASSUME NEW h \in Hub, NEW k \in Attempt, NEW n \in Nonce, Accept(k, h, n)
        PROVE  G
    <2>1. /\ attempt[k] = None
          /\ invitation[n] # None
          /\ attempt' = [attempt EXCEPT ![k] =
               [stage |-> "requested", invitee |-> h, nonce |-> n, waiting |-> TRUE]]
      BY <1>2 DEF Accept
    <2> QED
      BY <1>a, <2>1 DEF AttemptMove
  <1>3. ASSUME NEW k \in Attempt, AttemptStep(k)
        PROVE  G
    <2>0. attempt[k] # None
      BY <1>3 DEF AttemptStep, HandshakeBegin, HandshakeRefuse, HandshakeCommit,
         AcceptFinish, AcceptAbandon
    <2>1. CASE HandshakeBegin(k)
      BY <2>0, <2>1, MoveMoves DEF HandshakeBegin
    <2>2. CASE HandshakeRefuse(k)
      BY <2>0, <2>2, MoveMoves DEF HandshakeRefuse
    <2>3. CASE HandshakeCommit(k)
      <3>1. Move(k, "admitted", attempt[k].waiting)
        BY <2>3 DEF HandshakeCommit
      <3> QED
        BY <2>0, <2>3, <3>1, MoveMoves
    <2>4. CASE AcceptFinish(k)
      BY <2>0, <2>4, MoveMoves DEF AcceptFinish, Answered
    <2>5. CASE AcceptAbandon(k)
      BY <2>0, <2>5, MoveMoves DEF AcceptAbandon
    <2> QED
      BY <1>3, <2>1, <2>2, <2>3, <2>4, <2>5 DEF AttemptStep
  <1>4. ASSUME NEW h \in Hub, OwnerStep(h)
        PROVE  G
    BY <1>1, <1>2, <1>4 DEF OwnerStep, Invite, Disable, Enable, SetLifecycle, Evict
  <1>5. ASSUME NEW h \in Hub, PullStep(h)
        PROVE  G
    BY <1>1, <1>5 DEF PullStep, SyncStart, GossipServe, SyncFail, IngestStep, IngestBegin,
       IngestPeer, IngestTombstone, IngestEnd
  <1>6. ASSUME NEW m \in announces, AnnounceDeliver(m) \/ AnnounceLose(m)
        PROVE  G
    BY <1>1, <1>6 DEF AnnounceDeliver, AnnounceLose
  <1>7. ASSUME NEW h \in Hub, Restart(h)
        PROVE  G
    <2> SUFFICES ASSUME NEW k \in Attempt PROVE AttemptMove(k)
      OBVIOUS
    <2>1. CASE attempt[k] = None
      BY <1>7, <2>1 DEF Restart, AttemptMove
    <2>2. CASE attempt[k] # None
      <3>1. attempt[k] \in AcceptRun
        BY <2>2, AttemptFacts
      <3>2. attempt'[k] = [attempt[k] EXCEPT
               !.stage = IF @ = "checking" /\ Inviter(k) = h THEN "refused" ELSE @,
               !.waiting = @ /\ attempt[k].invitee # h]
        BY <1>7, <2>2 DEF Restart
      <3> QED
        BY <2>2, <3>1, <3>2 DEF AttemptMove, AcceptRun
    <2> QED
      BY <2>1, <2>2
  <1> QED
    BY <1>1, <1>3, <1>4, <1>5, <1>6, <1>7 DEF Next, vars

\* A request still names an issued invitation.
LEMMA StepAttempts == Inv /\ [Next]_vars => AttemptsIssued'
  <1> SUFFICES ASSUME Inv, [Next]_vars, NEW k \in Attempt, attempt'[k] # None
               PROVE  invitation'[attempt'[k].nonce] # None
    BY DEF AttemptsIssued
  <1>1. AttemptMove(k)
    BY AttemptSteps
  <1>2. attempt[k] # None =>
          attempt[k].nonce \in Nonce /\ invitation[attempt[k].nonce] # None
    BY AttemptFacts DEF Inv, AttemptsIssued
  <1>3. \A n \in Nonce : invitation[n] # None => invitation'[n] # None
    BY Stable
  <1> QED
    BY <1>1, <1>2, <1>3 DEF AttemptMove

\* Two admitted requests still name different invitations: the second commit
\* finds the consumer the first one recorded.
LEMMA StepRedemption == Inv /\ [Next]_vars => SingleRedemption'
  <1> SUFFICES ASSUME Inv, [Next]_vars PROVE SingleRedemption'
    OBVIOUS
  <1> DEFINE Admitted(k) == attempt[k] # None /\ attempt[k].stage = "admitted"
             AdmittedNext(k) == attempt'[k] # None /\ attempt'[k].stage = "admitted"
  \* Whoever is admitted after the step was before, or is being committed.
  <1>1. ASSUME NEW k \in Attempt, AdmittedNext(k)
        PROVE  /\ attempt[k] # None
               /\ attempt[k].nonce \in Nonce
               /\ attempt'[k].nonce = attempt[k].nonce
               /\ attempt'[k].invitee = attempt[k].invitee
               /\ Admitted(k) \/ HandshakeCommit(k)
    <2>1. AttemptMove(k)
      BY AttemptSteps
    <2> QED
      BY <1>1, <2>1, AttemptFacts DEF AttemptMove
  <1>2. ASSUME NEW k \in Attempt, Admitted(k)
        PROVE  /\ consumed_by[attempt[k].nonce] = attempt[k].invitee
               /\ consumed_by[attempt[k].nonce] # None
               /\ consumed_by'[attempt[k].nonce] = attempt[k].invitee
    <2>1. /\ consumed_by[attempt[k].nonce] = attempt[k].invitee
          /\ attempt[k].invitee \in Hub /\ attempt[k].nonce \in Nonce
      BY <1>2, AttemptFacts DEF Inv, SingleRedemption
    <2> QED
      BY <2>1, Stable, NoneAssumption
  <1>3. ASSUME NEW k \in Attempt, HandshakeCommit(k)
        PROVE  /\ consumed_by[attempt[k].nonce] = None
               /\ consumed_by'[attempt[k].nonce] = attempt[k].invitee
               /\ \A j \in Attempt : j # k => attempt'[j] = attempt[j]
    <2>1. attempt[k].nonce \in Nonce
      BY <1>3, AttemptFacts DEF HandshakeCommit
    <2>2. /\ consumed_by[attempt[k].nonce] = None
          /\ consumed_by' = [consumed_by EXCEPT ![attempt[k].nonce] = attempt[k].invitee]
      BY <1>3 DEF HandshakeCommit, Consumes
    <2>3. consumed_by \in [Nonce -> Hub \cup {None}]
          /\ attempt \in [Attempt -> AcceptRun \cup {None}]
      BY DEF Inv, TypeOK, VarTypes
    <2> QED
      BY <1>3, <2>1, <2>2, <2>3 DEF HandshakeCommit, Move
  <1>4. ASSUME NEW k \in Attempt, AdmittedNext(k)
        PROVE  consumed_by'[attempt'[k].nonce] = attempt'[k].invitee
    BY <1>1, <1>2, <1>3, <1>4
  <1>5. ASSUME NEW k \in Attempt, NEW j \in Attempt \ {k}, AdmittedNext(k), AdmittedNext(j)
        PROVE  attempt'[j].nonce # attempt'[k].nonce
    <2>1. CASE Admitted(k) /\ Admitted(j)
      <3>1. attempt[j].nonce # attempt[k].nonce
        BY <2>1 DEF Inv, SingleRedemption
      <3> QED
        BY <1>1, <1>5, <3>1
    <2>2. CASE HandshakeCommit(k) /\ ~HandshakeCommit(j)
      BY <1>1, <1>2, <1>3, <1>5, <2>2
    <2>3. CASE HandshakeCommit(j) /\ ~HandshakeCommit(k)
      BY <1>1, <1>2, <1>3, <1>5, <2>3
    <2>4. CASE HandshakeCommit(k) /\ HandshakeCommit(j)
      <3>1. attempt'[j] = attempt[j] /\ attempt[j].stage = "checking"
        BY <1>3, <1>5, <2>4 DEF HandshakeCommit
      <3> QED
        BY <1>5, <3>1
    <2> QED
      BY <1>1, <1>5, <2>1, <2>2, <2>3, <2>4
  <1> QED
    BY <1>4, <1>5 DEF SingleRedemption

-----------------------------------------------------------------------------
(* The registry.                                                           *)

\* Fresh, said of one hub.
FreshAt(h) ==
  pull[h].stage # "ingesting" \/ ~pull[h].changed => registry[h] = lifecycle[h]

\* A handler that reloads after its writes leaves every registry fresh: it
\* wrote rows of its own hub only.
LEMMA ReloadFresh ==
  ASSUME Inv, NEW h \in Hub, Reload(h),
         \A g \in Hub : g # h => lifecycle'[g] = lifecycle[g],
         UNCHANGED pull
  PROVE  Fresh'
  <1>1. registry \in [Hub -> [Hub -> Lifecycle]]
    BY DEF Inv, TypeOK, VarTypes
  <1> SUFFICES ASSUME NEW g \in Hub PROVE FreshAt(g)'
    BY DEF Fresh, FreshAt
  <1>2. CASE g = h
    BY <1>1, <1>2 DEF Reload, FreshAt
  <1>3. CASE g # h
    BY <1>1, <1>3 DEF Reload, FreshAt, Inv, Fresh
  <1> QED
    BY <1>2, <1>3

\* A step that changes neither rows nor registries keeps them fresh if it
\* clears no count of changes inside a loop and lets no loop end with one.
LEMMA StillFresh ==
  ASSUME Inv, UNCHANGED <<lifecycle, registry>>,
         \A g \in Hub : pull'[g].stage # "ingesting" \/ ~pull'[g].changed =>
                          pull[g].stage # "ingesting" \/ ~pull[g].changed
  PROVE  Fresh'
  BY DEF Inv, Fresh

\* Writing a row of h touches no other hub's rows, and is no change when the
\* entry adds nothing.
LEMMA IngestRows ==
  ASSUME Inv, NEW h \in Hub, NEW p \in Hub, NEW n \in Nonce, IngestEntry(h, p, n)
  PROVE  /\ \A g \in Hub : g # h => lifecycle'[g] = lifecycle[g]
         /\ ~Adds(h, p, n) => lifecycle' = lifecycle
  <1>1. lifecycle \in [Hub -> [Hub -> Lifecycle]]
    BY DEF Inv, TypeOK, VarTypes
  <1>2. CASE Adds(h, p, n)
    <2>1. lifecycle' = [lifecycle EXCEPT ![h][p] = "active"]
      BY <1>2 DEF Adds, IngestEntry, InsertUnlessAdmitted
    <2> QED
      BY <1>1, <1>2, <2>1
  <1>3. CASE ~Adds(h, p, n)
    <2>1. lifecycle' = lifecycle
      BY <1>3 DEF Adds, IngestEntry, InsertUnlessAdmitted, rows
    <2> QED
      BY <2>1
  <1> QED
    BY <1>2, <1>3

\* The handlers outside the ingestion loop.
LEMMA HandlersFresh ==
  ASSUME Inv, NEW h \in Hub, OwnerStep(h)
  PROVE  Fresh'
  <1>l. lifecycle \in [Hub -> [Hub -> Lifecycle]]
    BY DEF Inv, TypeOK, VarTypes
  <1>1. ASSUME UNCHANGED <<lifecycle, registry, pull>>
        PROVE  Fresh'
    BY <1>1, StillFresh
  <1>2. ASSUME NEW p \in Hub, NEW l \in {"active", "disabled"}, SetLifecycle(h, p, l)
        PROVE  Fresh'
    BY <1>l, <1>2, ReloadFresh DEF SetLifecycle
  <1>3. ASSUME NEW p \in Hub, NEW t \in Time, Evict(h, p, t)
        PROVE  Fresh'
    BY <1>l, <1>3, ReloadFresh DEF Evict
  <1> QED
    BY <1>1, <1>2, <1>3 DEF OwnerStep, Invite, Accept, Disable, Enable, rows

\* The steps of a request.
LEMMA AttemptsFresh ==
  ASSUME Inv, NEW k \in Attempt, AttemptStep(k)
  PROVE  Fresh'
  <1>l. lifecycle \in [Hub -> [Hub -> Lifecycle]]
    BY DEF Inv, TypeOK, VarTypes
  <1>k. attempt[k] # None
    BY DEF AttemptStep, HandshakeBegin, HandshakeRefuse, HandshakeCommit, AcceptFinish,
       AcceptAbandon
  <1>1. CASE UNCHANGED <<lifecycle, registry, pull>>
    BY <1>1, StillFresh
  <1>2. CASE HandshakeCommit(k)
    <2>1. Inviter(k) \in Hub
      BY <1>k, AttemptFacts
    <2>2. InsertUnlessAdmitted(Inviter(k), attempt[k].invitee, attempt[k].nonce)
      BY <1>2 DEF HandshakeCommit
    <2>3. \A g \in Hub : g # Inviter(k) => lifecycle'[g] = lifecycle[g]
      BY <1>l, <2>2 DEF InsertUnlessAdmitted, rows
    <2>4. Reload(Inviter(k)) /\ UNCHANGED pull
      BY <1>2 DEF HandshakeCommit
    <2> QED
      BY <2>1, <2>3, <2>4, ReloadFresh
  <1>3. CASE AcceptFinish(k)
    <2>1. attempt[k].invitee \in Hub
      BY <1>k, AttemptFacts
    <2>2. lifecycle' = [lifecycle EXCEPT ![attempt[k].invitee][Inviter(k)] =
                          MirrorLifecycle(@)]
      BY <1>3 DEF AcceptFinish
    <2>3. \A g \in Hub : g # attempt[k].invitee => lifecycle'[g] = lifecycle[g]
      BY <1>l, <2>2
    <2>4. Reload(attempt[k].invitee) /\ UNCHANGED pull
      BY <1>3 DEF AcceptFinish
    <2> QED
      BY <2>1, <2>3, <2>4, ReloadFresh
  <1> QED
    BY <1>1, <1>2, <1>3 DEF AttemptStep, HandshakeBegin, HandshakeRefuse, AcceptAbandon, rows

\* An announce reloads if its entry changed a row.
LEMMA AnnouncesFresh ==
  ASSUME Inv, NEW m \in announces, AnnounceDeliver(m) \/ AnnounceLose(m)
  PROVE  Fresh'
  <1>f. m.to \in Hub /\ m.id \in Hub /\ m.nonce \in Nonce
    BY DEF Inv, TypeOK, VarTypes, Announcement
  <1>1. CASE AnnounceDeliver(m)
    <2>1. /\ IngestEntry(m.to, m.id, m.nonce)
          /\ Adds(m.to, m.id, m.nonce) => Reload(m.to)
          /\ ~Adds(m.to, m.id, m.nonce) => UNCHANGED registry
          /\ UNCHANGED pull
      BY <1>1 DEF AnnounceDeliver
    <2>2. CASE Adds(m.to, m.id, m.nonce)
      BY <1>f, <2>1, <2>2, IngestRows, ReloadFresh
    <2>3. CASE ~Adds(m.to, m.id, m.nonce)
      BY <1>f, <2>1, <2>3, IngestRows, StillFresh
    <2> QED
      BY <2>2, <2>3
  <1>2. CASE AnnounceLose(m)
    BY <1>2, StillFresh DEF AnnounceLose, rows
  <1> QED
    BY <1>1, <1>2

\* The sync pass and the ingestion loop, which reloads at its end if any of
\* its entries changed a row.
LEMMA PullFresh ==
  ASSUME Inv, NEW h \in Hub, PullStep(h)
  PROVE  Fresh'
  <1>p. pull \in [Hub -> Pull] /\ pull[h] \in Pull
    BY DEF Inv, TypeOK, VarTypes
  <1>l. lifecycle \in [Hub -> [Hub -> Lifecycle]] /\ registry \in [Hub -> [Hub -> Lifecycle]]
    BY DEF Inv, TypeOK, VarTypes
  <1>f. \A g \in Hub : FreshAt(g)
    BY DEF Inv, Fresh, FreshAt
  <1>1. ASSUME UNCHANGED <<lifecycle, registry>>,
               \A g \in Hub : g # h => pull'[g] = pull[g],
               pull[h].stage # "ingesting"
        PROVE  Fresh'
    BY <1>1, StillFresh
  <1>2. CASE (\E p \in Hub : SyncStart(h, p)) \/ GossipServe(h) \/ SyncFail(h) \/ IngestBegin(h)
    BY <1>p, <1>1, <1>2 DEF SyncStart, GossipServe, SyncFail, IngestBegin, rows
  <1>3. ASSUME NEW e \in pull[h].peers, IngestPeer(h, e)
        PROVE  Fresh'
    <2>1. /\ \A g \in Hub : g # h => lifecycle'[g] = lifecycle[g]
          /\ ~Adds(h, e.id, e.nonce) => lifecycle' = lifecycle
      BY <1>3, PullFacts, IngestRows DEF IngestPeer
    <2>2. /\ \A g \in Hub : g # h => pull'[g] = pull[g]
          /\ pull'[h].stage = "ingesting"
          /\ pull'[h].changed = (pull[h].changed \/ Adds(h, e.id, e.nonce))
          /\ UNCHANGED registry
      BY <1>3, <1>p DEF IngestPeer, Pull
    <2> QED
      BY <1>f, <2>1, <2>2 DEF Fresh, FreshAt
  <1>4. ASSUME NEW d \in pull[h].tombstones, IngestTombstone(h, d)
        PROVE  Fresh'
    <2>1. \/ lifecycle' = lifecycle /\ ~Honours(h, d)
          \/ /\ Honours(h, d)
             /\ lifecycle' = [lifecycle EXCEPT ![h][d.instance_id] =
                                IF @ = "absent" THEN @ ELSE "tombstoned"]
      BY <1>4 DEF IngestTombstone
    <2>2. /\ \A g \in Hub : g # h => lifecycle'[g] = lifecycle[g]
          /\ ~Honours(h, d) => lifecycle' = lifecycle
      BY <1>l, <2>1
    <2>3. /\ \A g \in Hub : g # h => pull'[g] = pull[g]
          /\ pull'[h].stage = "ingesting"
          /\ pull'[h].changed = (pull[h].changed \/ Honours(h, d))
          /\ UNCHANGED registry
      BY <1>4, <1>p DEF IngestTombstone, Pull
    <2> QED
      BY <1>f, <2>2, <2>3 DEF Fresh, FreshAt
  <1>5. CASE IngestEnd(h)
    <2>1. /\ pull[h].changed => registry' = [registry EXCEPT ![h] = lifecycle[h]]
          /\ ~pull[h].changed => UNCHANGED registry
          /\ UNCHANGED lifecycle
      BY <1>5 DEF IngestEnd, rows
    <2>2. \A g \in Hub : g # h => pull'[g] = pull[g] /\ registry'[g] = registry[g]
      BY <1>5, <1>p, <1>l, <2>1 DEF IngestEnd
    <2>3. registry'[h] = lifecycle[h]
      BY <1>f, <1>l, <2>1 DEF FreshAt
    <2> QED
      BY <1>f, <2>1, <2>2, <2>3 DEF Fresh, FreshAt
  <1> QED
    BY <1>2, <1>3, <1>4, <1>5 DEF PullStep, IngestStep

\* Every step leaves every registry fresh outside the loops.
LEMMA StepFresh == Inv /\ [Next]_vars => Fresh'
  <1> SUFFICES ASSUME Inv, [Next]_vars PROVE Fresh'
    OBVIOUS
  <1>1. CASE UNCHANGED vars
    BY <1>1, StillFresh DEF vars
  <1>2. ASSUME NEW h \in Hub, Restart(h)
        PROVE  Fresh'
    <2>1. Reload(h) /\ UNCHANGED lifecycle
      BY <1>2 DEF Restart, Reload, rows
    <2>2. pull \in [Hub -> Pull] /\ registry \in [Hub -> [Hub -> Lifecycle]]
      BY DEF Inv, TypeOK, VarTypes
    <2>3. registry'[h] = lifecycle[h]
      BY <2>1, <2>2 DEF Reload
    <2>4. \A g \in Hub : g # h => pull'[g] = pull[g] /\ registry'[g] = registry[g]
      BY <1>2, <2>1, <2>2 DEF Restart, Reload
    <2> QED
      BY <2>1, <2>3, <2>4 DEF Inv, Fresh
  <1> QED
    BY <1>1, <1>2, HandlersFresh, AttemptsFresh, AnnouncesFresh, PullFresh DEF Next

-----------------------------------------------------------------------------
(* What holds in every reachable state.                                    *)

\* Inv is inductive.
THEOREM Invariance == Spec => []Inv
  <1>1. Init => Inv
    BY InitInv
  <1>2. Inv /\ [Next]_vars => Inv'
    BY StepTypeOK, StepAttempts, StepRedemption, StepRedeemed, StepFresh, Stable DEF Inv
  <1> QED
    BY <1>1, <1>2, PTL DEF Spec

\* Every variable keeps its type, and every row the invitation it rests on.
THEOREM TypeCorrect == Spec => []TypeOK
  <1>1. Inv => TypeOK
    BY DEF Inv
  <1> QED
    BY <1>1, Invariance, PTL

\* One invitation admits one hub, however its accepts interleave.
THEOREM RedeemedOnce == Spec => []SingleRedemption
  <1>1. Inv => SingleRedemption
    BY DEF Inv
  <1> QED
    BY <1>1, Invariance, PTL

\* Every listed peer is a party to a redeemed invitation.
THEOREM MembersWereInvited == Spec => []ProvenanceIsRedeemed
  <1>1. Inv => ProvenanceIsRedeemed
    BY DEF Inv, RedeemedEverywhere
  <1> QED
    BY <1>1, Invariance, PTL

\* The gates and the sync loops of a hub see its instances table as it is.
THEOREM GatesSeeTheTable == Spec => []RegistryFresh
  <1>1. Inv => RegistryFresh
    BY DEF Inv, Fresh, RegistryFresh, Ready
  <1> QED
    BY <1>1, Invariance, PTL

-----------------------------------------------------------------------------
(* What a step may do to the lifecycle h has on file for p.                *)

\* p is evicted by the owner of h, or by a tombstone h learns of and honours.
Evicts(h, p) ==
  \/ \E t \in Time : Evict(h, p, t)
  \/ \E d \in pull[h].tombstones :
       d.instance_id = p /\ Honours(h, d) /\ IngestTombstone(h, d)

LifecycleMove(h, p) ==
  \/ lifecycle'[h][p] = lifecycle[h][p]
  \/ Disable(h, p) /\ lifecycle'[h][p] = "disabled"
  \/ Enable(h, p) /\ lifecycle'[h][p] = "active"
  \/ lifecycle[h][p] \in {"absent", "tombstoned"} /\ lifecycle'[h][p] = "active"
  \/ Evicts(h, p) /\ lifecycle'[h][p] = "tombstoned"

\* Inserting a row admits a hub that was absent or evicted, and no other.
LEMMA InsertAdmits ==
  ASSUME Inv, NEW g \in Hub, NEW q \in Hub, NEW n, InsertUnlessAdmitted(g, q, n)
  PROVE  \A h, p \in Hub : LifecycleMove(h, p)
  <1>1. lifecycle \in [Hub -> [Hub -> Lifecycle]]
    BY DEF Inv, TypeOK, VarTypes
  <1>2. CASE UNCHANGED rows
    BY <1>2 DEF rows, LifecycleMove
  <1>3. CASE /\ lifecycle[g][q] \in {"absent", "tombstoned"}
             /\ lifecycle' = [lifecycle EXCEPT ![g][q] = "active"]
    <2> SUFFICES ASSUME NEW h \in Hub, NEW p \in Hub PROVE LifecycleMove(h, p)
      OBVIOUS
    <2>1. CASE h = g /\ p = q
      BY <1>1, <1>3, <2>1 DEF LifecycleMove
    <2>2. CASE ~(h = g /\ p = q)
      <3>1. lifecycle'[h][p] = lifecycle[h][p]
        BY <1>1, <1>3, <2>2
      <3> QED
        BY <3>1 DEF LifecycleMove
    <2> QED
      BY <2>1, <2>2
  <1> QED
    BY <1>2, <1>3 DEF InsertUnlessAdmitted

\* A gossip entry admits, or leaves the rows alone.
LEMMA IngestAdmits ==
  ASSUME Inv, NEW g \in Hub, NEW q \in Hub, NEW n, IngestEntry(g, q, n)
  PROVE  \A h, p \in Hub : LifecycleMove(h, p)
  BY InsertAdmits DEF IngestEntry, rows, LifecycleMove

\* The moves of a lifecycle, for every step.
LEMMA LifecycleSteps ==
  ASSUME Inv, [Next]_vars
  PROVE  \A h, p \in Hub : LifecycleMove(h, p)
  <1> DEFINE G == \A h, p \in Hub : LifecycleMove(h, p)
             Others(h, p) == \A g, q \in Hub : ~(g = h /\ q = p) =>
                               lifecycle'[g][q] = lifecycle[g][q]
  <1>l. lifecycle \in [Hub -> [Hub -> Lifecycle]]
    BY DEF Inv, TypeOK, VarTypes
  <1>1. ASSUME UNCHANGED lifecycle
        PROVE  G
    BY <1>1 DEF LifecycleMove
  <1>2. ASSUME NEW h \in Hub, NEW p \in Hub, Disable(h, p) \/ Enable(h, p)
        PROVE  G
    <2>1. CASE Disable(h, p)
      <3>1. lifecycle'[h][p] = "disabled" /\ Others(h, p)
        BY <1>l, <2>1 DEF Disable, SetLifecycle
      <3> QED
        BY <2>1, <3>1 DEF LifecycleMove
    <2>2. CASE Enable(h, p)
      <3>1. lifecycle'[h][p] = "active" /\ Others(h, p)
        BY <1>l, <2>2 DEF Enable, SetLifecycle
      <3> QED
        BY <2>2, <3>1 DEF LifecycleMove
    <2> QED
      BY <1>2, <2>1, <2>2
  <1>3. ASSUME NEW h \in Hub, NEW p \in Hub, NEW t \in Time, Evict(h, p, t)
        PROVE  G
    <2>1. lifecycle'[h][p] = "tombstoned" /\ Others(h, p)
      BY <1>l, <1>3 DEF Evict
    <2>2. Evicts(h, p)
      BY <1>3 DEF Evicts
    <2> QED
      BY <2>1, <2>2 DEF LifecycleMove
  <1>4. ASSUME NEW k \in Attempt, HandshakeCommit(k)
        PROVE  G
    <2>1. Inviter(k) \in Hub /\ attempt[k].invitee \in Hub
      BY <1>4, AttemptFacts DEF HandshakeCommit
    <2>2. InsertUnlessAdmitted(Inviter(k), attempt[k].invitee, attempt[k].nonce)
      BY <1>4 DEF HandshakeCommit
    <2> QED
      BY <2>1, <2>2, InsertAdmits
  <1>5. ASSUME NEW k \in Attempt, AcceptFinish(k)
        PROVE  G
    <2> DEFINE h == attempt[k].invitee
               p == Inviter(k)
    <2>1. p \in Hub /\ h \in Hub
      BY <1>5, AttemptFacts DEF AcceptFinish
    <2>2. lifecycle' = [lifecycle EXCEPT ![h][p] = MirrorLifecycle(@)]
      BY <1>5 DEF AcceptFinish
    <2>3. lifecycle'[h][p] = MirrorLifecycle(lifecycle[h][p]) /\ Others(h, p)
      BY <1>l, <2>1, <2>2
    <2> QED
      BY <2>1, <2>3 DEF LifecycleMove, MirrorLifecycle
  <1>6. ASSUME NEW m \in announces, AnnounceDeliver(m)
        PROVE  G
    <2>1. m.to \in Hub /\ m.id \in Hub
      BY DEF Inv, TypeOK, VarTypes, Announcement
    <2> QED
      BY <1>6, <2>1, IngestAdmits DEF AnnounceDeliver
  <1>7. ASSUME NEW h \in Hub, NEW e \in pull[h].peers, IngestPeer(h, e)
        PROVE  G
    BY <1>7, PullFacts, IngestAdmits DEF IngestPeer
  <1>8. ASSUME NEW h \in Hub, NEW d \in pull[h].tombstones, IngestTombstone(h, d)
        PROVE  G
    <2>1. d.instance_id \in Hub
      BY PullFacts
    <2>2. \/ UNCHANGED lifecycle
          \/ /\ Honours(h, d)
             /\ lifecycle' = [lifecycle EXCEPT ![h][d.instance_id] =
                                IF @ = "absent" THEN @ ELSE "tombstoned"]
      BY <1>8 DEF IngestTombstone
    <2>3. /\ Others(h, d.instance_id)
          /\ \/ lifecycle'[h][d.instance_id] = lifecycle[h][d.instance_id]
             \/ Honours(h, d) /\ lifecycle'[h][d.instance_id] = "tombstoned"
      BY <1>l, <2>1, <2>2
    <2>4. Honours(h, d) => Evicts(h, d.instance_id)
      BY <1>8 DEF Evicts
    <2> QED
      BY <2>3, <2>4 DEF LifecycleMove
  <1>9. ASSUME NEW k \in Attempt, AttemptStep(k), ~HandshakeCommit(k), ~AcceptFinish(k)
        PROVE  G
    BY <1>1, <1>9 DEF AttemptStep, HandshakeBegin, HandshakeRefuse, AcceptAbandon, rows
  <1>10. ASSUME NEW h \in Hub, OwnerStep(h)
         PROVE  G
    BY <1>1, <1>2, <1>3, <1>10 DEF OwnerStep, Invite, Accept, rows
  <1>11. ASSUME NEW h \in Hub, PullStep(h)
         PROVE  G
    <2>1. UNCHANGED lifecycle \/ IngestStep(h)
      BY <1>11 DEF PullStep, SyncStart, GossipServe, SyncFail, rows
    <2> QED
      BY <1>1, <1>7, <1>8, <2>1 DEF IngestStep, IngestBegin, IngestEnd, rows
  <1> QED
    BY <1>1, <1>4, <1>5, <1>6, <1>9, <1>10, <1>11 DEF Next, vars, Restart, AnnounceLose, rows

-----------------------------------------------------------------------------
(* What a step may do to the tombstone h has on file for p.                *)

\* A tombstone goes when an accept or a handshake passes the re-admission
\* test, or when a gossiped entry does.
Clears(h, p) ==
  \/ \E k \in Attempt, n \in Nonce :
       Accept(k, h, n) /\ p = invitation[n].inviter_id /\ PostdatesTombstone(h, p, n)
  \/ \E k \in Attempt :
       /\ HandshakeBegin(k)
       /\ h = Inviter(k)
       /\ p = attempt[k].invitee
       /\ PostdatesTombstone(h, p, attempt[k].nonce)
  \/ \E n \in Nonce : Ingestible(h, p, n) /\ Redeemed(p, n)

TombstoneMove(h, p) ==
  \/ tombstone'[h][p] = tombstone[h][p]
  \/ Clears(h, p) /\ tombstone'[h][p] = None
  \/ tombstone[h][p] = None /\ tombstone'[h][p] # None

\* Clearing one tombstone leaves the others.
LEMMA ClearMoves ==
  ASSUME Inv, NEW g \in Hub, NEW q \in Hub, ClearTombstone(g, q), Clears(g, q)
  PROVE  \A h, p \in Hub : TombstoneMove(h, p)
  <1>1. tombstone \in [Hub -> [Hub -> Tombstone \cup {None}]]
    BY DEF Inv, TypeOK, VarTypes
  <1>2. /\ tombstone'[g][q] = None
        /\ \A h, p \in Hub : ~(h = g /\ p = q) => tombstone'[h][p] = tombstone[h][p]
    BY <1>1 DEF ClearTombstone
  <1> QED
    BY <1>2 DEF TombstoneMove

\* Taking a tombstone over leaves the others, and never replaces one.
LEMMA WriteMoves ==
  ASSUME Inv, NEW g \in Hub, NEW q \in Hub, NEW d \in Tombstone,
         tombstone' = [tombstone EXCEPT ![g][q] = d],
         tombstone[g][q] = None
  PROVE  \A h, p \in Hub : TombstoneMove(h, p)
  <1>1. tombstone \in [Hub -> [Hub -> Tombstone \cup {None}]]
    BY DEF Inv, TypeOK, VarTypes
  <1>2. /\ tombstone'[g][q] = d
        /\ \A h, p \in Hub : ~(h = g /\ p = q) => tombstone'[h][p] = tombstone[h][p]
    BY <1>1
  <1>3. d # None
    BY NoneAssumption
  <1> QED
    BY <1>2, <1>3 DEF TombstoneMove

\* The entry of an announce or of a gossip answer, which is redeemed.
LEMMA EntryMoves ==
  ASSUME Inv, NEW g \in Hub, NEW q \in Hub, NEW n \in Nonce,
         IngestEntry(g, q, n), Redeemed(q, n)
  PROVE  \A h, p \in Hub : TombstoneMove(h, p)
  <1>1. CASE Ingestible(g, q, n)
    BY <1>1, ClearMoves DEF IngestEntry, Clears
  <1>2. CASE ~Ingestible(g, q, n)
    BY <1>2 DEF IngestEntry, TombstoneMove
  <1> QED
    BY <1>1, <1>2

\* The moves of a tombstone, for every step.
LEMMA TombstoneSteps ==
  ASSUME Inv, [Next]_vars
  PROVE  \A h, p \in Hub : TombstoneMove(h, p)
  <1> DEFINE G == \A h, p \in Hub : TombstoneMove(h, p)
  <1>t. tombstone \in [Hub -> [Hub -> Tombstone \cup {None}]]
    BY DEF Inv, TypeOK, VarTypes
  <1>1. ASSUME UNCHANGED tombstone
        PROVE  G
    BY <1>1 DEF TombstoneMove
  <1>2. ASSUME NEW h \in Hub, NEW p \in Hub, NEW t \in Time, Evict(h, p, t)
        PROVE  G
    <2>1. CreateTombstone(h, p, t)
      BY <1>2 DEF Evict
    <2>2. CASE tombstone[h][p] = None
      <3>1. tombstone' = [tombstone EXCEPT ![h][p] = [removed_by |-> h, created_at |-> t]]
        BY <1>t, <2>1, <2>2 DEF CreateTombstone
      <3>2. [removed_by |-> h, created_at |-> t] \in Tombstone
        BY DEF Tombstone
      <3> QED
        BY <2>2, <3>1, <3>2, WriteMoves
    <2>3. CASE tombstone[h][p] # None
      <3>1. tombstone' = tombstone
        BY <1>t, <2>1, <2>3 DEF CreateTombstone
      <3> QED
        BY <1>1, <3>1
    <2> QED
      BY <2>2, <2>3
  <1>3. ASSUME NEW h \in Hub, NEW k \in Attempt, NEW n \in Nonce, Accept(k, h, n)
        PROVE  G
    <2> DEFINE p == invitation[n].inviter_id
    <2>1. PassEviction(h, p, n) /\ invitation[n] # None
      BY <1>3 DEF Accept
    <2>2. p \in Hub
      BY <2>1 DEF Inv, TypeOK, VarTypes, Invitation
    <2>3. CASE PostdatesTombstone(h, p, n) /\ ClearTombstone(h, p)
      <3>1. Clears(h, p)
        BY <1>3, <2>3 DEF Clears
      <3> QED
        BY <2>2, <2>3, <3>1, ClearMoves
    <2> QED
      BY <1>1, <2>1, <2>3 DEF PassEviction
  <1>4. ASSUME NEW k \in Attempt, HandshakeBegin(k)
        PROVE  G
    <2>1. PassEviction(Inviter(k), attempt[k].invitee, attempt[k].nonce)
      BY <1>4 DEF HandshakeBegin
    <2>2. Inviter(k) \in Hub /\ attempt[k].invitee \in Hub
      BY <1>4, AttemptFacts DEF HandshakeBegin
    <2>3. CASE /\ PostdatesTombstone(Inviter(k), attempt[k].invitee, attempt[k].nonce)
               /\ ClearTombstone(Inviter(k), attempt[k].invitee)
      <3>1. Clears(Inviter(k), attempt[k].invitee)
        BY <1>4, <2>3 DEF Clears
      <3> QED
        BY <2>2, <2>3, <3>1, ClearMoves
    <2> QED
      BY <1>1, <2>1, <2>3 DEF PassEviction
  <1>5. ASSUME NEW m \in announces, AnnounceDeliver(m)
        PROVE  G
    <2>1. m.to \in Hub /\ m.id \in Hub /\ m.nonce \in Nonce
      BY DEF Inv, TypeOK, VarTypes, Announcement
    <2>2. Redeemed(m.id, m.nonce)
      BY DEF Inv, RedeemedEverywhere
    <2> QED
      BY <1>5, <2>1, <2>2, EntryMoves DEF AnnounceDeliver
  <1>6. ASSUME NEW h \in Hub, NEW e \in pull[h].peers, IngestPeer(h, e)
        PROVE  G
    <2>1. Redeemed(e.id, e.nonce)
      BY DEF Inv, RedeemedEverywhere
    <2> QED
      BY <1>6, <2>1, PullFacts, EntryMoves DEF IngestPeer
  <1>7. ASSUME NEW h \in Hub, NEW d \in pull[h].tombstones, IngestTombstone(h, d)
        PROVE  G
    <2> DEFINE w == [removed_by |-> d.removed_by, created_at |-> d.created_at]
    <2>1. d.instance_id \in Hub /\ w \in Tombstone
      BY PullFacts DEF Tombstone
    <2>2. \/ UNCHANGED tombstone
          \/ /\ tombstone[h][d.instance_id] = None
             /\ tombstone' = [tombstone EXCEPT ![h][d.instance_id] = w]
      BY <1>7 DEF IngestTombstone, Honours
    <2> QED
      BY <1>1, <2>1, <2>2, WriteMoves
  <1>8. ASSUME NEW h \in Hub, OwnerStep(h)
        PROVE  G
    BY <1>1, <1>2, <1>3, <1>8 DEF OwnerStep, Invite, Disable, Enable, SetLifecycle
  <1>9. ASSUME NEW k \in Attempt, AttemptStep(k)
        PROVE  G
    BY <1>1, <1>4, <1>9 DEF AttemptStep, HandshakeRefuse, HandshakeCommit, AcceptFinish,
       AcceptAbandon
  <1>10. ASSUME NEW h \in Hub, PullStep(h)
         PROVE  G
    <2>1. UNCHANGED tombstone \/ IngestStep(h)
      BY <1>10 DEF PullStep, SyncStart, GossipServe, SyncFail
    <2> QED
      BY <1>1, <1>6, <1>7, <2>1 DEF IngestStep, IngestBegin, IngestEnd
  <1> QED
    BY <1>1, <1>5, <1>8, <1>9, <1>10 DEF Next, vars, Restart, AnnounceLose

-----------------------------------------------------------------------------
(* The action properties.                                                  *)

\* Only the owner disables a peer, and only the owner enables it again.
LEMMA StepOwnerPolicy ==
  ASSUME Inv, [Next]_vars, NEW h \in Hub, NEW p \in Hub
  PROVE  /\ lifecycle[h][p] = "disabled" /\ lifecycle'[h][p] = "active"
              => Enable(h, p)
         /\ lifecycle[h][p] # "disabled" /\ lifecycle'[h][p] = "disabled"
              => Disable(h, p)
  <1>1. LifecycleMove(h, p)
    BY LifecycleSteps
  <1> QED
    BY <1>1 DEF LifecycleMove

\* In every behaviour, whatever accepts, handshakes, announces and gossip do,
\* only the owner's own requests disable a peer or enable a disabled one.
THEOREM OwnerDecides == Spec => OwnerPolicy
  <1>1. Inv /\ [Next]_vars =>
          [\A h, p \in Hub :
             /\ lifecycle[h][p] = "disabled" /\ lifecycle'[h][p] = "active"
                  => Enable(h, p)
             /\ lifecycle[h][p] # "disabled" /\ lifecycle'[h][p] = "disabled"
                  => Disable(h, p)]_vars
    BY StepOwnerPolicy
  <1> QED
    BY <1>1, Invariance, PTL DEF Spec, OwnerPolicy

\* The invitation under which h holds p is no later than the clock, so an
\* eviction by the owner is as recent; a gossiped one was compared with it.
LEMMA StepEviction ==
  ASSUME Inv, [Next]_vars, NEW h \in Hub, NEW p \in Hub,
         tombstone[h][p] = None,
         lifecycle[h][p] \in {"active", "disabled"},
         lifecycle'[h][p] = "tombstoned"
  PROVE  /\ tombstone'[h][p] # None
         /\ tombstone'[h][p].created_at >= invitation[provenance[h][p]].issued_at
  <1> DEFINE issued == invitation[provenance[h][p]].issued_at
  <1>1. Evicts(h, p)
    <2>1. LifecycleMove(h, p)
      BY LifecycleSteps
    <2> QED
      BY <2>1 DEF LifecycleMove
  <1>2. /\ tombstone \in [Hub -> [Hub -> Tombstone \cup {None}]]
        /\ now \in Nat
    BY TimeAssumption DEF Inv, TypeOK, VarTypes, Time
  <1>3. /\ provenance[h][p] \in Nonce
        /\ invitation[provenance[h][p]] \in Invitation
    BY DEF Inv, TypeOK, VarTypes
  <1>4. issued \in Nat /\ issued <= now
    BY <1>3, TimeAssumption, NoneAssumption DEF Inv, IssuedInPast, Invitation, Time
  <1>5. ASSUME NEW t \in Time, Evict(h, p, t)
        PROVE  tombstone'[h][p] # None /\ tombstone'[h][p].created_at >= issued
    <2>1. tombstone'[h][p] = [removed_by |-> h, created_at |-> t]
      BY <1>2, <1>5 DEF Evict, CreateTombstone
    <2>2. [removed_by |-> h, created_at |-> t] \in Tombstone
      BY DEF Tombstone
    <2>3. t >= issued
      BY <1>2, <1>4, <1>5, TimeAssumption DEF Evict, Time
    <2> QED
      BY <2>1, <2>2, <2>3, NoneAssumption
  <1>6. ASSUME NEW d \in pull[h].tombstones, d.instance_id = p, Honours(h, d),
               IngestTombstone(h, d)
        PROVE  tombstone'[h][p] # None /\ tombstone'[h][p].created_at >= issued
    <2>1. /\ d.removed_by \in Hub /\ d.created_at \in Time
      BY PullFacts
    <2>2. tombstone'[h][p] = [removed_by |-> d.removed_by, created_at |-> d.created_at]
      BY <1>2, <1>6 DEF IngestTombstone
    <2>3. [removed_by |-> d.removed_by, created_at |-> d.created_at] \in Tombstone
      BY <2>1 DEF Tombstone
    <2>4. ~(issued > d.created_at)
      BY <1>6 DEF Honours, StaleTombstone
    <2>5. d.created_at >= issued
      BY <1>4, <2>1, <2>4, TimeAssumption DEF Time
    <2> QED
      BY <2>2, <2>3, <2>5, NoneAssumption
  <1> QED
    BY <1>1, <1>5, <1>6 DEF Evicts

\* No relayed tombstone evicts a hub re-admitted since it was signed.
THEOREM EvictionsAreRecent == Spec => EvictionNeverStale
  <1>1. Inv /\ [Next]_vars =>
          [\A h, p \in Hub :
             /\ tombstone[h][p] = None
             /\ lifecycle[h][p] \in {"active", "disabled"}
             /\ lifecycle'[h][p] = "tombstoned"
             => /\ tombstone'[h][p] # None
                /\ tombstone'[h][p].created_at >= invitation[provenance[h][p]].issued_at]_vars
    BY StepEviction
  <1> QED
    BY <1>1, Invariance, PTL DEF Spec, EvictionNeverStale

\* A gossiped entry that clears the tombstone of p is vouched for by a hub
\* that is not evicted, which p is: so p redeemed the invitation, as invitee.
LEMMA StepCleared ==
  ASSUME Inv, [Next]_vars, NEW h \in Hub, NEW p \in Hub,
         tombstone[h][p] # None, tombstone'[h][p] # tombstone[h][p]
  PROVE  /\ tombstone'[h][p] = None
         /\ \E n \in Nonce :
              /\ invitation[n] # None
              /\ invitation[n].issued_at > tombstone[h][p].created_at
              /\ Reinvites(h, p, n)
  <1>1. Clears(h, p) /\ tombstone'[h][p] = None
    <2>1. TombstoneMove(h, p)
      BY TombstoneSteps
    <2> QED
      BY <2>1 DEF TombstoneMove
  <1>a. attempt \in [Attempt -> AcceptRun \cup {None}]
    BY DEF Inv, TypeOK, VarTypes
  <1>2. ASSUME NEW k \in Attempt, NEW n \in Nonce, Accept(k, h, n),
               p = invitation[n].inviter_id, PostdatesTombstone(h, p, n)
        PROVE  /\ invitation[n] # None
               /\ invitation[n].issued_at > tombstone[h][p].created_at
               /\ Reinvites(h, p, n)
    <2>1. attempt'[k] = [stage |-> "requested", invitee |-> h, nonce |-> n, waiting |-> TRUE]
      BY <1>2, <1>a DEF Accept
    <2>2. attempt'[k] # None
      <3>1. [stage |-> "requested", invitee |-> h, nonce |-> n, waiting |-> TRUE] \in AcceptRun
        BY DEF AcceptRun
      <3> QED
        BY <2>1, <3>1, NoneAssumption
    <2>3. Reinvites(h, p, n)
      BY <1>2, <2>1, <2>2 DEF Reinvites
    <2> QED
      BY <1>2, <2>3 DEF Accept, PostdatesTombstone
  <1>3. ASSUME NEW k \in Attempt, HandshakeBegin(k), h = Inviter(k),
               p = attempt[k].invitee, PostdatesTombstone(h, p, attempt[k].nonce)
        PROVE  \E n \in Nonce :
                 /\ invitation[n] # None
                 /\ invitation[n].issued_at > tombstone[h][p].created_at
                 /\ Reinvites(h, p, n)
    <2> DEFINE n == attempt[k].nonce
    <2>1. attempt[k] \in AcceptRun /\ n \in Nonce /\ invitation[n] # None
      BY <1>3, AttemptFacts DEF HandshakeBegin, Inv, AttemptsIssued
    <2>2. attempt' = [attempt EXCEPT ![k].stage = "checking",
                                     ![k].waiting = attempt[k].waiting]
      BY <1>3 DEF HandshakeBegin, Move
    <2>3. /\ attempt'[k] \in AcceptRun
          /\ attempt'[k].nonce = n
          /\ attempt'[k].invitee = p
      BY <1>3, <1>a, <2>1, <2>2 DEF AcceptRun
    <2>4. Reinvites(h, p, n)
      BY <1>3, <2>3, NoneAssumption DEF Reinvites, Inviter
    <2> QED
      BY <1>3, <2>1, <2>4 DEF PostdatesTombstone
  <1>4. ASSUME NEW n \in Nonce, Ingestible(h, p, n), Redeemed(p, n)
        PROVE  /\ invitation[n] # None
               /\ invitation[n].issued_at > tombstone[h][p].created_at
               /\ Reinvites(h, p, n)
    <2>1. LocallyTombstoned(h, p) /\ ~LocallyTombstoned(h, invitation[n].inviter_id)
      BY <1>4 DEF LocallyTombstoned, Ingestible
    <2>2. consumed_by[n] = p
      BY <1>4, <2>1 DEF Redeemed
    <2> QED
      BY <1>4, <2>1, <2>2 DEF Ingestible, PostdatesTombstone, Reinvites, Redeemed
  <1> QED
    BY <1>1, <1>2, <1>3, <1>4 DEF Clears

\* Only a later invitation clears a tombstone, and never the evicted hub's own.
THEOREM ClearedByReinvitation == Spec => ClearedOnlyByReinvitation
  <1>1. Inv /\ [Next]_vars =>
          [\A h, p \in Hub :
             tombstone[h][p] # None /\ tombstone'[h][p] # tombstone[h][p] =>
               /\ tombstone'[h][p] = None
               /\ \E n \in Nonce :
                    /\ invitation[n] # None
                    /\ invitation[n].issued_at > tombstone[h][p].created_at
                    /\ Reinvites(h, p, n)]_vars
    BY StepCleared
  <1> QED
    BY <1>1, Invariance, PTL DEF Spec, ClearedOnlyByReinvitation
=============================================================================
