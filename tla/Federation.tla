----------------------------- MODULE Federation -----------------------------
(***************************************************************************)
(* Membership of a federation of Poutine hubs: invitations and their       *)
(* handshake, the admission state every hub keeps for every other hub,     *)
(* eviction by signed tombstones, and the gossip and announce messages     *)
(* that spread admissions and evictions.                                   *)
(*                                                                         *)
(* A hub is one Node process over one SQLite file.  Database calls are     *)
(* synchronous, so a handler is atomic from one await to the next; one     *)
(* action of this module is one such segment.  The awaits are where        *)
(* another handler of the same hub can run: the network call of an accept, *)
(* the URL check and health probe of a handshake, and the sync and fetch   *)
(* that come before a gossip answer is ingested.                           *)
(*                                                                         *)
(* Every hub runs this code and signs with its own key, so signatures,     *)
(* key pins and the proof of the invitee always verify and are left out.   *)
(***************************************************************************)
EXTENDS Naturals

CONSTANTS
  Hub,       \* the hubs, named by instance id; a hub's URL is its own
  Nonce,     \* the nonces of the invitations that can be issued
  Attempt,   \* the POST /peers/accept requests that can be made
  Url,       \* the values owners put in an invitation's invitee_url
  None,      \* SQL NULL, or no row
  MaxTime    \* bound on the clock

Time == 0 .. MaxTime

\* instances.lifecycle; "absent" is a hub with no row.
Lifecycle == {"absent", "active", "disabled", "tombstoned"}

Invitation == [inviter_id : Hub, issued_at : Time, invitee_url : Hub \cup {None}]

Tombstone == [removed_by : Hub, created_at : Time]

AcceptRun ==
  [stage : {"requested", "checking", "admitted", "refused"},
   invitee : Hub, nonce : Nonce, waiting : BOOLEAN]

PeerEntry == [id : Hub, nonce : Nonce]
TombstoneEntry == [instance_id : Hub, removed_by : Hub, created_at : Time]

Pull ==
  [stage : {"idle", "syncing", "fetched", "ingesting"}, peer : Hub,
   queue : SUBSET Hub, peers : SUBSET PeerEntry, tombstones : SUBSET TombstoneEntry,
   changed : BOOLEAN]

Announcement == [to : Hub, from : Hub, id : Hub, nonce : Nonce]

ASSUME UrlAssumption == Url \subseteq Hub \cup {None}
ASSUME NoneAssumption ==
  /\ None \notin Hub
  /\ None \notin Nonce
  /\ None \notin Invitation
  /\ None \notin Tombstone
  /\ None \notin AcceptRun
ASSUME TimeAssumption == MaxTime \in Nat

VARIABLES
  now,          \* wall clock of the hubs
  invitation,   \* the invitations issued, by nonce (signed payloads)
  consumed_by,  \* invitations.consumed_by_id at the hub that issued it
  lifecycle,    \* lifecycle[h][p]: instances.lifecycle of p in h's database
  provenance,   \* provenance[h][p]: the invitation stored with that row
  tombstone,    \* tombstone[h][p]: h's peer_tombstones row that names p
  registry,     \* registry[h]: the PeerRegistry snapshot in h's memory
  attempt,      \* the accept requests and the handshakes they drive
  announces,    \* POST /federation/peers/announce requests under way
  pull          \* pull[h]: the sync pass of h over its peers, and its gossip

rows == <<lifecycle, provenance>>
vars == <<now, invitation, consumed_by, lifecycle, provenance, tombstone,
          registry, attempt, announces, pull>>

-----------------------------------------------------------------------------
(* Reading a hub's database.                                               *)

LocallyTombstoned(h, p) ==
  tombstone[h][p] # None \/ lifecycle[h][p] = "tombstoned"

\* Without a tombstone row there is nothing to compare with: never.
PostdatesTombstone(h, p, n) ==
  /\ tombstone[h][p] # None
  /\ invitation[n].issued_at > tombstone[h][p].created_at

\* Mutants: the age of the invitation on file is not looked at; an invitation
\* issued in the same instant also protects.
NeverStale(h, d) == FALSE
StaleOrTied(h, d) ==
  /\ lifecycle[h][d.instance_id] # "absent"
  /\ invitation[provenance[h][d.instance_id]].issued_at >= d.created_at

\* A gossiped tombstone older than the invitation stored with the row.
StaleTombstone(h, d) ==
  /\ lifecycle[h][d.instance_id] # "absent"
  /\ invitation[provenance[h][d.instance_id]].issued_at > d.created_at

\* The ids ingestion leaves alone: the hub itself and its un-evicted peers.
KnownIds(h) == {h} \cup {p \in Hub : registry[h][p] \in {"active", "disabled"}}

ResolvesRemover(h, r) == r = h \/ registry[h][r] # "absent"

\* h is not inside the loop that ingests a gossip answer, which has no await.
Ready(h) == pull[h].stage # "ingesting"

\* No gossip under way in a pass that has yet to come to the peers in queue.
Resting(h, queue) ==
  [stage |-> "idle", peer |-> h, queue |-> queue, peers |-> {},
   tombstones |-> {}, changed |-> FALSE]

NoPull(h) == Resting(h, {})

Reload(h) == registry' = [registry EXCEPT ![h] = lifecycle'[h]]

ClearTombstone(h, p) == tombstone' = [tombstone EXCEPT ![h][p] = None]

-----------------------------------------------------------------------------
Init ==
  /\ now = 0
  /\ invitation = [n \in Nonce |-> None]
  /\ consumed_by = [n \in Nonce |-> None]
  /\ lifecycle = [h \in Hub |-> [p \in Hub |-> "absent"]]
  /\ provenance = [h \in Hub |-> [p \in Hub |-> None]]
  /\ tombstone = [h \in Hub |-> [p \in Hub |-> None]]
  /\ registry = [h \in Hub |-> [p \in Hub |-> "absent"]]
  /\ attempt = [k \in Attempt |-> None]
  /\ announces = {}
  /\ pull = [h \in Hub |-> NoPull(h)]

-----------------------------------------------------------------------------
(* The owner's operations.                                                 *)

Invite(h, n, t, url) ==
  /\ Ready(h)
  /\ invitation[n] = None
  /\ t >= now
  /\ now' = t
  /\ invitation' = [invitation EXCEPT ![n] =
       [inviter_id |-> h, issued_at |-> t, invitee_url |-> url]]
  /\ UNCHANGED <<consumed_by, rows, tombstone, registry, attempt, announces,
                 pull>>

SetLifecycle(h, p, l) ==
  /\ Ready(h)
  /\ lifecycle[h][p] \notin {"absent", "tombstoned"}
  /\ lifecycle' = [lifecycle EXCEPT ![h][p] = l]
  /\ Reload(h)
  /\ UNCHANGED <<now, invitation, consumed_by, provenance, tombstone, attempt,
                 announces, pull>>

Disable(h, p) == SetLifecycle(h, p, "disabled")

Enable(h, p) == SetLifecycle(h, p, "active")

\* The row a DELETE leaves: the one on file if there is one, else a new one.
CreateTombstone(h, p, t) ==
  tombstone' = [tombstone EXCEPT ![h][p] =
    IF @ = None THEN [removed_by |-> h, created_at |-> t] ELSE @]

Evict(h, p, t) ==
  /\ Ready(h)
  /\ lifecycle[h][p] # "absent"
  /\ t >= now
  /\ now' = t
  /\ lifecycle' = [lifecycle EXCEPT ![h][p] = "tombstoned"]
  /\ CreateTombstone(h, p, t)
  /\ Reload(h)
  /\ UNCHANGED <<invitation, consumed_by, provenance, attempt, announces, pull>>

-----------------------------------------------------------------------------
(* Admission: the invitee's accept drives the inviter's handshake.         *)

\* The re-admission test of accept and of handshake: the tombstone goes as
\* soon as the invitation is seen to postdate it, before anything is awaited.
PassEviction(h, p, n) ==
  \/ /\ lifecycle[h][p] # "tombstoned"
     /\ UNCHANGED tombstone
  \/ /\ lifecycle[h][p] = "tombstoned"
     /\ PostdatesTombstone(h, p, n)
     /\ ClearTombstone(h, p)

\* POST /peers/accept up to its network call.
Accept(k, h, n) ==
  /\ Ready(h)
  /\ attempt[k] = None
  /\ invitation[n] # None
  /\ invitation[n].inviter_id # h
  /\ PassEviction(h, invitation[n].inviter_id, n)
  /\ attempt' = [attempt EXCEPT ![k] =
       [stage |-> "requested", invitee |-> h, nonce |-> n, waiting |-> TRUE]]
  /\ UNCHANGED <<now, invitation, consumed_by, rows, registry, announces, pull>>

Inviter(k) == invitation[attempt[k].nonce].inviter_id

Move(k, stage, waiting) ==
  attempt' = [attempt EXCEPT ![k].stage = stage, ![k].waiting = waiting]

UrlMatches(k) ==
  invitation[attempt[k].nonce].invitee_url \in {None, attempt[k].invitee}

\* POST /federation/handshake up to the URL check and the health probe.
HandshakeBegin(k) ==
  /\ attempt[k] # None
  /\ attempt[k].stage = "requested"
  /\ Ready(Inviter(k))
  /\ consumed_by[attempt[k].nonce] = None
  /\ UrlMatches(k)
  /\ attempt[k].invitee # Inviter(k)
  /\ PassEviction(Inviter(k), attempt[k].invitee, attempt[k].nonce)
  /\ Move(k, "checking", attempt[k].waiting)
  /\ UNCHANGED <<now, invitation, consumed_by, rows, registry, announces, pull>>

\* Every answer but 200, at the first check (a spent, expired or misaddressed
\* invitation, an evicted invitee) or after the probe (unsafe URL, unreachable
\* or too old invitee).  Nothing is undone.
HandshakeRefuse(k) ==
  /\ attempt[k] # None
  /\ attempt[k].stage \in {"requested", "checking"}
  /\ Ready(Inviter(k))
  /\ Move(k, "refused", FALSE)
  /\ UNCHANGED <<now, invitation, consumed_by, rows, tombstone, registry,
                 announces, pull>>

\* INSERT ... ON CONFLICT DO UPDATE ... WHERE lifecycle = 'tombstoned'.
InsertUnlessAdmitted(h, p, n) ==
  IF lifecycle[h][p] \in {"absent", "tombstoned"}
  THEN /\ lifecycle' = [lifecycle EXCEPT ![h][p] = "active"]
       /\ provenance' = [provenance EXCEPT ![h][p] = n]
  ELSE UNCHANGED rows

\* Mutant: a handshake that saw the nonce unconsumed need not look again.
ConsumesBlindly(n) == TRUE

\* UPDATE invitations ... WHERE consumed_at IS NULL changes a row.
Consumes(n) == consumed_by[n] = None

\* The transaction, the reload and the detached fan-out after the probe.
HandshakeCommit(k) ==
  /\ attempt[k] # None
  /\ attempt[k].stage = "checking"
  /\ Ready(Inviter(k))
  /\ Consumes(attempt[k].nonce)
  /\ LET h == Inviter(k)
         p == attempt[k].invitee
         n == attempt[k].nonce
     IN /\ InsertUnlessAdmitted(h, p, n)
        /\ consumed_by' = [consumed_by EXCEPT ![n] = p]
        /\ Reload(h)
        /\ announces' = announces \cup
             {[to |-> q, from |-> h, id |-> p, nonce |-> n] :
                q \in {q \in Hub \ {p} : registry'[h][q] # "absent"}}
  /\ Move(k, "admitted", attempt[k].waiting)
  /\ UNCHANGED <<now, invitation, tombstone, pull>>

\* Mutants: the mirror upsert overrides a disable; it keeps the invitation it
\* finds with the row, even none.
MirrorsActive(l) == "active"
KeptProvenance(k) == provenance[attempt[k].invitee][Inviter(k)]

\* The mirror upsert: an evicted inviter comes back, a disabled one stays
\* disabled, and the invitation is refreshed in any case.
MirrorLifecycle(l) == IF l \in {"absent", "tombstoned"} THEN "active" ELSE l
MirrorProvenance(k) == attempt[k].nonce

\* Mutant: the mirror row is written once the handshake is under way.
AnsweredEarly(k) == attempt[k].stage \in {"checking", "admitted"}

Answered(k) == attempt[k].stage = "admitted"

\* The 200 reaches an accept that still waits for it: mirror the inviter.
AcceptFinish(k) ==
  /\ attempt[k] # None
  /\ Answered(k)
  /\ attempt[k].waiting
  /\ Ready(attempt[k].invitee)
  /\ LET h == attempt[k].invitee
         p == Inviter(k)
     IN /\ lifecycle' = [lifecycle EXCEPT ![h][p] = MirrorLifecycle(@)]
        /\ provenance' = [provenance EXCEPT ![h][p] = MirrorProvenance(k)]
        /\ Reload(h)
  /\ Move(k, "admitted", FALSE)
  /\ UNCHANGED <<now, invitation, consumed_by, tombstone, announces, pull>>

\* The accept's network call fails; the handshake may not know.
AcceptAbandon(k) ==
  /\ attempt[k] # None
  /\ attempt[k].waiting
  /\ Ready(attempt[k].invitee)
  /\ Move(k, attempt[k].stage, FALSE)
  /\ UNCHANGED <<now, invitation, consumed_by, rows, tombstone, registry,
                 announces, pull>>

-----------------------------------------------------------------------------
(* Spreading: announce and gossip.                                         *)

\* Mutant: an evicted inviter may still vouch.
IngestibleFromAnyInviter(h, id, n) ==
  /\ id \notin KnownIds(h)
  /\ LocallyTombstoned(h, id) => PostdatesTombstone(h, id, n)

\* The inviter named by the entry is not evicted here, and the entry's own id
\* is either not evicted or re-invited since.
Ingestible(h, id, n) ==
  /\ id \notin KnownIds(h)
  /\ LocallyTombstoned(h, id) => PostdatesTombstone(h, id, n)
  /\ ~LocallyTombstoned(h, invitation[n].inviter_id)

\* Mutant: a re-admission does not count as a change.
AddsIfAbsent(h, id, n) ==
  Ingestible(h, id, n) /\ lifecycle[h][id] = "absent"

\* The entry changes a row, so it counts as added.
Adds(h, id, n) ==
  Ingestible(h, id, n) /\ lifecycle[h][id] \in {"absent", "tombstoned"}

\* ingestGossipEntry, without the reload its callers do.
IngestEntry(h, id, n) ==
  IF Ingestible(h, id, n)
  THEN /\ ClearTombstone(h, id)
       /\ InsertUnlessAdmitted(h, id, n)
  ELSE UNCHANGED <<rows, tombstone>>

\* POST /federation/peers/announce at the receiver, past its peer-auth gate.
AnnounceDeliver(m) ==
  /\ m \in announces
  /\ Ready(m.to)
  /\ registry[m.to][m.from] = "active"
  /\ IngestEntry(m.to, m.id, m.nonce)
  /\ IF Adds(m.to, m.id, m.nonce) THEN Reload(m.to) ELSE UNCHANGED registry
  /\ announces' = announces \ {m}
  /\ UNCHANGED <<now, invitation, consumed_by, attempt, pull>>

\* Unreachable receiver, or one whose gate refuses the sender.
AnnounceLose(m) ==
  /\ m \in announces
  /\ announces' = announces \ {m}
  /\ UNCHANGED <<now, invitation, consumed_by, rows, tombstone, registry,
                 attempt, pull>>

\* The peers a pass visits are those active when it took its snapshot of the
\* registry: one disabled or evicted since then is still visited.
Upcoming(h) ==
  IF pull[h].queue = {} THEN {p \in Hub : registry[h][p] = "active"}
                        ELSE pull[h].queue

\* A pass takes up peer p, with a new snapshot when the last is used up; the
\* library sync that comes before gossip is an await.
SyncStart(h, p) ==
  /\ pull[h].stage = "idle"
  /\ p \in Upcoming(h)
  /\ pull' = [pull EXCEPT ![h].stage = "syncing", ![h].peer = p,
                          ![h].queue = Upcoming(h) \ {p}]
  /\ UNCHANGED <<now, invitation, consumed_by, rows, tombstone, registry,
                 attempt, announces>>

\* Mutant: a hub gossips only about the peers it lets in.
ListsActive(p, h) == {q \in Hub \ {h} : lifecycle[p][q] = "active"}

\* The rows p tells h about: all but the one of h, whatever their lifecycle.
Lists(p, h) == {q \in Hub \ {h} : lifecycle[p][q] # "absent"}

\* GET /federation/peers, answered by the peer if its gate admits h.
GossipServe(h) ==
  LET p == pull[h].peer IN
  /\ pull[h].stage = "syncing"
  /\ Ready(p)
  /\ registry[p][h] = "active"
  /\ pull' = [pull EXCEPT ![h] =
       [stage |-> "fetched", peer |-> p, queue |-> @.queue, changed |-> FALSE,
        peers |-> {[id |-> q, nonce |-> provenance[p][q]] : q \in Lists(p, h)},
        tombstones |-> {[instance_id |-> q,
                         removed_by |-> tombstone[p][q].removed_by,
                         created_at |-> tombstone[p][q].created_at] :
                          q \in {q \in Hub : tombstone[p][q] # None}}]]
  /\ UNCHANGED <<now, invitation, consumed_by, rows, tombstone, registry,
                 attempt, announces>>

\* The peer is down or has no new scan, the sync or the gossip request fails,
\* or the peer's gate refuses it.
SyncFail(h) ==
  /\ pull[h].stage \in {"syncing", "fetched"}
  /\ pull' = [pull EXCEPT ![h] = Resting(h, @.queue)]
  /\ UNCHANGED <<now, invitation, consumed_by, rows, tombstone, registry,
                 attempt, announces>>

IngestBegin(h) ==
  /\ pull[h].stage = "fetched"
  /\ pull' = [pull EXCEPT ![h].stage = "ingesting"]
  /\ UNCHANGED <<now, invitation, consumed_by, rows, tombstone, registry,
                 attempt, announces>>

IngestPeer(h, e) ==
  /\ pull[h].stage = "ingesting"
  /\ e \in pull[h].peers
  /\ IngestEntry(h, e.id, e.nonce)
  /\ pull' = [pull EXCEPT ![h].peers = @ \ {e},
                          ![h].changed = @ \/ Adds(h, e.id, e.nonce)]
  /\ UNCHANGED <<now, invitation, consumed_by, registry, attempt, announces>>

\* Whether ingestGossipTombstone takes the eviction over.
Honours(h, d) ==
  /\ d.instance_id # h
  /\ tombstone[h][d.instance_id] = None
  /\ ~StaleTombstone(h, d)
  /\ ResolvesRemover(h, d.removed_by)
  /\ ~LocallyTombstoned(h, d.removed_by)

\* The tombstones of an answer are ingested after all of its peer entries.
IngestTombstone(h, d) ==
  /\ pull[h].stage = "ingesting"
  /\ pull[h].peers = {}
  /\ d \in pull[h].tombstones
  /\ IF Honours(h, d)
     THEN /\ tombstone' = [tombstone EXCEPT ![h][d.instance_id] =
               [removed_by |-> d.removed_by, created_at |-> d.created_at]]
          /\ lifecycle' = [lifecycle EXCEPT ![h][d.instance_id] =
               IF @ = "absent" THEN @ ELSE "tombstoned"]
     ELSE UNCHANGED <<tombstone, lifecycle>>
  /\ pull' = [pull EXCEPT ![h].tombstones = @ \ {d},
                          ![h].changed = @ \/ Honours(h, d)]
  /\ UNCHANGED <<now, invitation, consumed_by, provenance, registry, attempt,
                 announces>>

IngestEnd(h) ==
  /\ pull[h].stage = "ingesting"
  /\ pull[h].peers = {}
  /\ pull[h].tombstones = {}
  /\ IF pull[h].changed
     THEN registry' = [registry EXCEPT ![h] = lifecycle[h]]
     ELSE UNCHANGED registry
  /\ pull' = [pull EXCEPT ![h] = Resting(h, @.queue)]
  /\ UNCHANGED <<now, invitation, consumed_by, rows, tombstone, attempt,
                 announces>>

-----------------------------------------------------------------------------
\* The process of h dies and boots again: the database stays, every handler
\* under way is gone, the registry is read afresh.
Restart(h) ==
  /\ registry' = [registry EXCEPT ![h] = lifecycle[h]]
  /\ pull' = [pull EXCEPT ![h] = NoPull(h)]
  /\ announces' = {m \in announces : m.from # h}
  /\ attempt' = [k \in Attempt |->
       IF attempt[k] = None THEN None
       ELSE [attempt[k] EXCEPT
               !.stage = IF @ = "checking" /\ Inviter(k) = h THEN "refused" ELSE @,
               !.waiting = @ /\ attempt[k].invitee # h]]
  /\ UNCHANGED <<now, invitation, consumed_by, rows, tombstone>>

-----------------------------------------------------------------------------
OwnerStep(h) ==
  \/ \E n \in Nonce, t \in Time, url \in Url : Invite(h, n, t, url)
  \/ \E p \in Hub : Disable(h, p) \/ Enable(h, p)
  \/ \E p \in Hub, t \in Time : Evict(h, p, t)
  \/ \E k \in Attempt, n \in Nonce : Accept(k, h, n)

AttemptStep(k) ==
  \/ HandshakeBegin(k)
  \/ HandshakeRefuse(k)
  \/ HandshakeCommit(k)
  \/ AcceptFinish(k)
  \/ AcceptAbandon(k)

IngestStep(h) ==
  \/ IngestBegin(h)
  \/ \E e \in pull[h].peers : IngestPeer(h, e)
  \/ \E d \in pull[h].tombstones : IngestTombstone(h, d)
  \/ IngestEnd(h)

PullStep(h) ==
  \/ \E p \in Hub : SyncStart(h, p)
  \/ GossipServe(h)
  \/ SyncFail(h)
  \/ IngestStep(h)

Next ==
  \/ \E h \in Hub : OwnerStep(h) \/ PullStep(h) \/ Restart(h)
  \/ \E k \in Attempt : AttemptStep(k)
  \/ \E m \in announces : AnnounceDeliver(m) \/ AnnounceLose(m)

Spec == Init /\ [][Next]_vars

\* The sync passes of h come back to every active peer (auto-sync re-arms its
\* timer after each pass), a request ends by an answer or an error, not all
\* requests to a peer that would answer fail, and h is not killed inside the
\* ingestion loop (which has no await) for ever.  Nothing is assumed of owners,
\* accepts, handshakes and announces.
PullFairness(h) ==
  /\ WF_vars(IngestStep(h))
  /\ WF_vars(SyncFail(h))
  /\ \A p \in Hub \ {h} :
       /\ SF_vars(SyncStart(h, p))
       /\ SF_vars(GossipServe(h) /\ pull[h].peer = p)
       /\ SF_vars(IngestBegin(h) /\ pull[h].peer = p)
  /\ <>[][pull[h].stage = "ingesting" /\ pull'[h].stage = "idle" =>
            IngestEnd(h)]_vars

-----------------------------------------------------------------------------
(* Properties.                                                             *)

VarTypes ==
  /\ now \in Time
  /\ invitation \in [Nonce -> Invitation \cup {None}]
  /\ consumed_by \in [Nonce -> Hub \cup {None}]
  /\ lifecycle \in [Hub -> [Hub -> Lifecycle]]
  /\ provenance \in [Hub -> [Hub -> Nonce \cup {None}]]
  /\ tombstone \in [Hub -> [Hub -> Tombstone \cup {None}]]
  /\ registry \in [Hub -> [Hub -> Lifecycle]]
  /\ attempt \in [Attempt -> AcceptRun \cup {None}]
  /\ announces \subseteq Announcement
  /\ pull \in [Hub -> Pull]

\* Every variable has its type, and a row stores the invitation it rests on
\* (lifecycle and invitation_payload are written together), which was issued.
TypeOK ==
  /\ VarTypes
  /\ \A h, p \in Hub :
       /\ lifecycle[h][p] # "absent" <=> provenance[h][p] # None
       /\ provenance[h][p] # None => invitation[provenance[h][p]] # None

\* Whenever another handler of a hub can run, the registry its gates and its
\* sync loops read says what the instances table says: every path that writes
\* a lifecycle reloads before its next await.
RegistryFresh == \A h \in Hub : Ready(h) => registry[h] = lifecycle[h]

\* Two accepts of one invitation, however they interleave, are never both
\* admitted, and the hub recorded as its consumer is the one that was.
SingleRedemption ==
  \A k \in Attempt : attempt[k] # None /\ attempt[k].stage = "admitted" =>
    /\ consumed_by[attempt[k].nonce] = attempt[k].invitee
    /\ \A j \in Attempt \ {k} : attempt[j] # None /\ attempt[j].stage = "admitted" =>
         attempt[j].nonce # attempt[k].nonce

\* An invitation two hubs really redeemed, p being one of the two.
Redeemed(p, n) ==
  /\ invitation[n] # None
  /\ consumed_by[n] # None
  /\ p \in {invitation[n].inviter_id, consumed_by[n]}

\* Whoever a hub lists as a peer, by handshake, accept, announce or gossip,
\* is a party to a redeemed invitation: membership spreads but is not made up.
ProvenanceIsRedeemed ==
  \A h, p \in Hub : lifecycle[h][p] # "absent" => Redeemed(p, provenance[h][p])

\* "disabled" is the owner's own policy: no accept, handshake, announce or
\* gossip sets it or turns it back to active.
OwnerPolicy ==
  [][\A h, p \in Hub :
       /\ lifecycle[h][p] = "disabled" /\ lifecycle'[h][p] = "active"
            => Enable(h, p)
       /\ lifecycle[h][p] # "disabled" /\ lifecycle'[h][p] = "disabled"
            => Disable(h, p)]_vars

\* The invitation n, passed between h and p or vouched for by a hub that h
\* has not evicted, re-admits p at h.
Reinvites(h, p, n) ==
  \/ \E k \in Attempt :
       /\ attempt'[k] # None
       /\ attempt'[k].nonce = n
       /\ {attempt'[k].invitee, invitation[n].inviter_id} = {h, p}
  \/ consumed_by[n] = p /\ ~LocallyTombstoned(h, invitation[n].inviter_id)

\* A tombstone is never replaced, and is cleared only by an invitation issued
\* after it that is not the evicted hub's own word: no replayed invitation,
\* stale answer or late announce un-evicts anyone.
ClearedOnlyByReinvitation ==
  [][\A h, p \in Hub :
       tombstone[h][p] # None /\ tombstone'[h][p] # tombstone[h][p] =>
         /\ tombstone'[h][p] = None
         /\ \E n \in Nonce :
              /\ invitation[n] # None
              /\ invitation[n].issued_at > tombstone[h][p].created_at
              /\ Reinvites(h, p, n)]_vars

\* A peer without a tombstone on file is evicted only by one at least as
\* recent as the invitation it is held under: a hub that lags behind a
\* re-admission and still relays the old tombstone re-evicts nobody.
EvictionNeverStale ==
  [][\A h, p \in Hub :
       /\ tombstone[h][p] = None
       /\ lifecycle[h][p] \in {"active", "disabled"}
       /\ lifecycle'[h][p] = "tombstoned"
       => /\ tombstone'[h][p] # None
          /\ tombstone'[h][p].created_at >= invitation[provenance[h][p]].issued_at]_vars

\* Two hubs that admit each other's requests.
Linked(h, p) == lifecycle[h][p] = "active" /\ lifecycle[p][h] = "active"

\* docs/federation-api.md: "once any single hub admits a new peer, the rest
\* discover it on their next sync".  If h and p stay linked and p goes on
\* listing q, then h gets a row for q, unless h has evicted q or the hub that
\* invited it.
AdmissionSpreads(h) ==
  \A p, q \in Hub \ {h} :
    <>[](Linked(h, p) /\ lifecycle[p][q] # "absent") =>
      []<>(\/ lifecycle[h][q] # "absent"
          \/ LocallyTombstoned(h, q)
          \/ /\ lifecycle[p][q] # "absent"
             /\ LocallyTombstoned(h, invitation[provenance[p][q]].inviter_id))

\* If h and p stay linked and p keeps a tombstone of q signed by a hub h can
\* resolve and has not evicted, then h evicts q too, unless it holds q under
\* an invitation issued after that tombstone.
EvictionSpreads(h) ==
  \A p, q \in Hub \ {h} :
    <>[](/\ Linked(h, p)
         /\ tombstone[p][q] # None
         /\ ResolvesRemover(h, tombstone[p][q].removed_by)
         /\ ~LocallyTombstoned(h, tombstone[p][q].removed_by)) =>
      []<>(\/ LocallyTombstoned(h, q)
          \/ /\ tombstone[p][q] # None
             /\ lifecycle[h][q] # "absent"
             /\ invitation[provenance[h][q]].issued_at > tombstone[p][q].created_at)

\* The accept or the handshake of k between h and p has not come to its end.
UnderWay(k, h, p) ==
  /\ attempt[k] # None
  /\ {attempt[k].invitee, Inviter(k)} = {h, p}
  /\ attempt[k].stage \in {"requested", "checking"} \/ attempt[k].waiting

\* docs/federation-api.md:186: lifecycle = 'tombstoned' without a tombstone
\* row is "only possible via direct DB manipulation or pre-v7 data".  Said
\* here of the states in which no admission of the peer is under way.
TombstonedHasTombstone ==
  \A h, p \in Hub :
    lifecycle[h][p] = "tombstoned" /\ tombstone[h][p] = None =>
      \E k \in Attempt : UnderWay(k, h, p)

\* docs/federation-api.md:180: a tombstoned instance "can rejoin if the
\* invitation that re-admits it was issued *after* the tombstone's
\* created_at".  Said of every step that turns a tombstoned row with a
\* tombstone on file back to active.
RejoinsOnlyByLaterInvitation ==
  [][\A h, p \in Hub :
       /\ lifecycle[h][p] = "tombstoned" /\ tombstone[h][p] # None
       /\ lifecycle'[h][p] = "active"
       => invitation[provenance'[h][p]].issued_at > tombstone[h][p].created_at]_vars
=============================================================================
