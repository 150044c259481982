# Poutine in TLA+

Poutine is a federated music hub. Every hub is one Node process over one
SQLite file, next to a Navidrome server that holds its owner's music. Hubs
invite each other, copy each other's catalogs, merge them into one and proxy
streams; a web client, Sonos speakers and DLNA renderers play them. This
directory models the parts of the system whose correctness depends on the order
in which things happen, checks them with TLC and proves the main results with
TLAPS.

All `src/...` paths are relative to the repository; `hub/` below stands for
`src/hub/src/` and `web/` for `src/frontend/src/`.

| file | what it is |
|---|---|
| `Federation` | membership of the federation |
| `FederationProofs` | its inductive invariant, its theorems about states and about steps |
| `LibrarySync`, `LibrarySyncProofs` | copying Navidrome libraries into the hub's tables, and its theorems |
| `StreamService` | abstract: what a request for a stream and its entry in the log are promised |
| `Streaming`, `StreamingProofs` | the walk over sources, the breaker and the log; implements `StreamService`, which is proved |
| `MergeLibraries`, `MergePipeline`, `MergeProofs` | what a merge computes, as operators; the queue and the worker that run it; its theorems |
| `Accounts`, `ArtCache`, `NavidromeMonitor`, `SonosDiscovery`, `CastPlayer`, `SyncLog` | services of the hub and the casting player |
| `Services`, `ServicesProofs` | their composition and its theorems |
| `Listening`, `Session`, `LanSettings`, `Browsing`, `Upgrade` | parts around the hub |
| `Clients`, `ClientsProofs` | their composition and its theorems |
| `UpgradeProofs` | the steps of `Upgrade`, on which one of those theorems rests |
| `FiniteOrders` | finite sets in a strict order: a maximal element, and a rank for each element; three of the proofs need one |
| `MC*.tla`, `*.cfg` | instances for TLC |
| `PROJECT.json` | components, runs, mutants, the map from definitions to source lines, findings, hazards, theorems |

To repeat a run: `tlc -config MCFederationPair.cfg MCFederationPair`; to repeat
the proofs: `tlapm FederationProofs.tla`.

## 1. The system

Node runs one JavaScript turn at a time and better-sqlite3 is synchronous, so
inside one hub a handler is atomic from one `await` to the next. That is the
grain of every model here: **an action is a segment of a handler between two
awaits**, and a crash can fall between any two actions. Different hubs, the
merge worker, the tab of a user and a speaker run independently of each other.
`Upgrade` and `ArtCache` are finer: they take the single statements and file
writes apart, because what they are about is a death between two of them.

| component | state | hard behaviour | modules |
|---|---|---|---|
| Federation membership (`hub/federation`, `hub/routes/federation.ts`, `admin.ts`) | `instances`, `invitations`, `peer_tombstones`, the registry in memory | two hubs, lost answers, stale gossip, crash in mid-handshake | `Federation` |
| Peer authentication (`hub/federation/peer-auth.ts`) | none | reads the cached registry | its lifecycle gate, in `Federation` |
| Library sync (`hub/library/sync*.ts`, `shrink-guard.ts`, `hub/services/auto-sync.ts`) | `instance_*` rows, counts, hold and acceptance | overlapping syncs, partial failures, outages | `LibrarySync` |
| Sync operations log (`hub/services/sync-operations.ts`) | `sync_operations` | rows left running, retention, boot clean-up | `SyncLog` |
| Merge (`hub/library/merge*.ts`, `id-remap.ts`) | unified tables, a queue, a worker | tags that change ids, deaths inside the transaction | `MergeLibraries`, `MergePipeline` |
| Streaming (`hub/routes/subsonic/stream.ts`, `hub/services/{source-health,stream-tracking}.ts`) | breaker per source, `stream_operations` | failover, disconnects, retention, restarts | `Streaming` |
| Navidrome monitor (`hub/services/navidrome-monitor.ts`, `hub/routes/health.ts`) | cached report, probe in flight, counter | shared probe, stale report | `NavidromeMonitor` |
| Accounts and invitations (`hub/routes/admin.ts`, `hub/services/user-invites.ts`) | `users`, `user_invitations` | admin requests that cross after authorization | `Accounts` |
| Session of the web client (`web/lib/api.ts`, `hub/auth`) | token, cookies, shared refresh | many 401s at once, sign-in and -out meanwhile | `Session` |
| Art cache (`hub/services/art-cache.ts`) | files and rows, a cap | at its limit, crossing fetches, crashes | `ArtCache` |
| Sonos discovery (`hub/services/sonos-discovery.ts`) | devices, satellites | late answers, pairing, ageing | `SonosDiscovery` |
| Casting (`web/components/player/PlayerBar.tsx`, `hub/routes/sonos.ts`) | store, refs, poll, speaker | a speaker that goes on by itself, reordered requests | `CastPlayer` |
| Counting plays (`PlayerBar.tsx`, `hub/services/play-events.ts`) | what a listen has reported | two clocks, sinks, seeks, reloads | `Listening` |
| LAN settings and SSDP (`hub/services/{sonos-settings,ssdp-advertiser}.ts`, `hub/server.ts`) | settings, advertisers | a rebuild that nobody awaits | `LanSettings` |
| Browsing (`hub/routes/subsonic/browsing.ts`, `hub/services/dlna-objects.ts`) | none of its own | pages over a catalog that changes | `Browsing` |
| Database and boot (`hub/db`, `hub/server.ts`) | the schema, the settings | a boot cut short between two statements | `Upgrade`; `Restart` elsewhere |
| Metadata clients, scripts | none | none | not modelled: pure I/O |

How they interact:

* Owners call the admin routes. They write the membership tables and reload
  `PeerRegistry`; inbound peer requests, sync passes and streaming read
  `PeerRegistry`, not the table.
* A sync pass copies each active peer's library and then asks that peer for
  its list of peers and tombstones: this is how gossip travels. It logs itself in
  `sync_operations` and, if rows changed, ends in a merge.
* The merge replaces the unified tables in one transaction on a worker and
  carries stars over to the new ids; browsing and streaming read what it left.
* Streams go through the breaker and the activity log; their successes and
  faults feed the Navidrome monitor.
* The web client, the speakers and DLNA renderers are clients of those routes;
  the player's settings say which of them the hub announces itself to.

`Federation`, `LibrarySync`, `Streaming` and `MergePipeline` each compose the
parts that share state in the code: registry, accept and gossip; two timers and a
manual sync; walk, breaker and log; queue, worker, writers and stars. The parts
composed by `Services` and `Clients` share none. There each behaviour picks one
part (`focus`) and leaves the others in an initial state, so that one run checks
them all and its states are the sum of theirs, not the product. (`MCServices` and
`MCClients` also fix which initial state the resting parts have: `Resting`.) `PROJECT.json` lists
the hazards behind the properties, each at its line.

## 2. Federation

### State

| variable | code |
|---|---|
| `invitation`, `consumed_by` | the signed payload by nonce; `invitations.consumed_by_id` at the issuer |
| `lifecycle[h][p]`, `provenance[h][p]` | `instances.lifecycle` and `instances.invitation_payload` of p in h's database |
| `tombstone[h][p]` | the row of `peer_tombstones` at h that names p |
| `registry[h]` | `PeerRegistry.peers`, in memory |
| `attempt` | the accept requests and the handshakes they drive: `requested`, `checking`, `admitted`, `refused`, and whether the accept still waits |
| `announces` | announce requests under way |
| `pull[h]` | the sync pass of h and the gossip answer it ingests |
| `now` | the wall clock |

### Actions

| action | handler |
|---|---|
| `Invite`, `Disable`, `Enable`, `Evict` | `POST /peers/invite`, `POST /peers/:peerId/disable`, `.../enable`, `DELETE /peers/:peerId` of `admin.ts` |
| `Accept` | `POST /peers/accept` up to its network call |
| `HandshakeBegin`, `HandshakeRefuse`, `HandshakeCommit` | `POST /federation/handshake` before the probe, every refusal, and the transaction after it with the fan-out |
| `AcceptFinish`, `AcceptAbandon` | the rest of the accept, with an answer and without |
| `AnnounceDeliver`, `AnnounceLose` | `POST /federation/peers/announce` |
| `SyncStart`, `GossipServe`, `SyncFail` | a pass of `syncAll` or `pollPeers` and `GET /federation/peers` |
| `IngestBegin`, `IngestPeer`, `IngestTombstone`, `IngestEnd` | `gossipFromPeer` after its fetch |
| `Restart` | a crash and the next boot |

The ingestion of one gossip answer has no await in the code. It is several
actions so that a crash can fall between two statements; `Ready(h)` keeps every
other handler of h out meanwhile.

### What is abstracted

* Every hub runs this code and signs with its own key: signatures, key pins and
  proofs of possession always verify.
* Hubs share one clock that never runs back. What compares timestamps across
  hubs is exposed to clock skew; that is not modelled.
* An invitation's expiry is one of the reasons of `HandshakeRefuse`.
* One pass per hub at a time. A manual pass beside the timer's would ingest the
  same answers a second time.
* A pass ingests gossip only after a library sync of that peer; Navidrome
  scans hourly by default, so a new scan always comes and `SyncStart` recurs.

### Runs

| run | instance | shows |
|---|---|---|
| `pair` | 2 hubs, 2 invitations, 2 accepts, 3 instants, every choice of invitee URL, from an empty federation | `TypeOK`, `SingleRedemption`, `OwnerPolicy` over every interleaving of the admission protocol with evictions, disables, lost answers and crashes |
| `mesh` | 3 hubs that know each other, 1 more invitation and accept, 2 instants | `RegistryFresh`, `ProvenanceIsRedeemed`, `ClearedOnlyByReinvitation`, `EvictionNeverStale` under gossip and announces of any age |
| `gossip` | 3 hubs, complete or as a star whose announces were lost; only c passes over its peers | `AdmissionReachesC`, `EvictionReachesC`: liveness |
| `wedged` | as `pair`, smaller | `TombstonedHasTombstone` is violated (finding 1) |
| `rejoin` | as `pair`, smaller | `RejoinsOnlyByLaterInvitation` is violated (finding 2) |

Why the bounds are enough:

* **pair**. A race over one invitation needs two accepts of it; a replay needs
  an eviction between two invitations. Three instants tell before, same and
  after apart. There are 856 000 states, reduced by the full symmetry of hubs,
  nonces and accepts: no action names one of them, and `Init` treats them alike.
* **mesh**. Gossip is interesting from three hubs on: who evicts, who is
  evicted and who relays. `MeshInit` and `StarInit` are states the program
  reaches by two accepts, with the announces delivered or lost. `Bounds` allows
  one hub in a sync pass at a time, one eviction on file (`MaxSigned`), no
  disabled peers (`MaxDisabled`) and no replay of the two founding invitations.
  The pair run covers replays and disables; the theorems of section 8 need none
  of these bounds. `mesh` applies `Bounds` as a state constraint, `gossip` as
  part of its next-state relation, because a constraint and liveness do not go
  together. The symmetry is the one that maps the mesh to itself.
* **gossip**. Only c pulls, so "one pass at a time" never holds c back; two
  evictions and two disables at once, no accept. There is no symmetry, which
  would be unsound with liveness.

### Fairness

`PullFairness(h)` concerns the one hub whose progress is claimed:

* its ingestion goes on (`WF`): there is no await in it;
* a request ends by an answer or an error (`WF` of `SyncFail`): Node's `fetch`
  gives up on a peer that sends nothing for minutes, signals or none;
* passes come back to every peer that is active again and again (`SF` of
  `SyncStart`): `schedulePeerPoll` re-arms the timer when a pass ends, and a
  pass walks all active peers;
* not all of the requests to a peer that would answer fail (`SF` of
  `GossipServe` and `IngestBegin`): an assumption on the network, and the only
  one;
* h is not killed inside an ingestion for ever.

Nothing is assumed of owners, accepts, handshakes and announces: an announce is
sent once and never retried, so gossip alone must suffice.

## 3. Library sync

### State

| variable | code |
|---|---|
| `library[i]` | what i's Navidrome would answer (external) |
| `unsynced[i]` | its `lastScan` is newer than `instances.last_synced_at` |
| `tracks[i]` | the rows of `instance_tracks` of i |
| `track_count`, `held`, `accepted` | `instances.track_count`, `shrink_held_at`, `accept_shrink_once` |
| `pass[c]` | what a manual sync, `poll` or `pollPeers` is at: the instances still queued, the albums still to read, the ids seen, whether a request failed |

### Actions

| action | code |
|---|---|
| `Scan` | Navidrome ends a scan (external) |
| `Begin`, `Skip`, `TakeUp`, `End` | `syncAll`, `poll` and `pollPeers`: which instances they visit, when they leave one out |
| `List`, `Unreachable` | `getArtists` and `getArtist`, or the early return when they fail: a peer's catalog is wiped, the hub's own is kept |
| `Fetch`, `FetchFail` | one `getAlbum` with its upserts |
| `Hold`, `Apply`, `GiveUp` | the end of `readNavidromeViaProxy`: the guard, the sweep with the counts, or nothing after a failed request |
| `DiesSweeping`, `DiesWiping` | a death between the commit of the sweep, or of the wipe, and the update of the instance row |
| `AcceptShrink`, `ResetPeers` | `POST /instances/:id/accept-shrink`, `DELETE /peers/data` |
| `Restart` | a crash and the next boot |

The decision to sync and the listing are separate steps because there is an
await between them, which is where a scan or another sync slips in. The sweep and the
update after it are one step for everybody else, because there is no await between
them, and two commits for a death of the process.

### What is abstracted

* Artists and albums are written and swept exactly as tracks, and no foreign
  key ties the rows of the three to each other.
* The listing is one step. `getArtist` failures are `FetchFail`.
* The percentage is compared as exact products; the code divides in floating
  point (a hazard of its own in `PROJECT.json`).
* Two timestamps are compared only with each other, so `unsynced` stands for the
  comparison.
* The merge after a pass only reads these rows. Every peer is active.

### Runs

Three tracks on two albums that share one; libraries of three, two, one or no
tracks; thresholds of 40 % and three tracks in place of the code's defaults of
20 % and a floor of 100, so that one lost track of three is within the guard, two are
beyond it, and a library of two is below the floor.

| run | instance | shows |
|---|---|---|
| `library` | a manual sync, a timer, and the library of this hub or of a peer | `TypeOK`, `ArmedOnlyWhileHeld`, `DeletionsGuarded`, `HoldKeepsCatalog`, and `CatchesUp` under fairness; 173 000 states |
| `library_overlap` | a manual sync and the timer over the hub's own library | `CountMatchesCatalog` is violated (finding 3) |
| `library_missed` | the timer alone | `SyncsAfterEachScan` is violated (finding 4) |

A second sync of the same library is what overlap needs; a third is another of
the same kind. `MCLibrary` chooses at the start which side has tracks: instances
share nothing but the caller's queue, so the states of both sides together are
the product of what each side shows alone. `CatchesUp` says that a scan that no
sync overlaps is in the catalog in the end, or held for the owner, if Navidrome
ends up answering. `DeletionsGuarded` is about single steps: a catalog loses tracks by a
wipe or a reset, or at the end of a sync that read everything without a failure, that
keeps all it saw, and that the acceptance or the guard lets through. It does not judge
the count against the table; that one sync may sweep what another wrote is
`CountMatchesCatalog`, which fails. `HoldKeepsCatalog` excepts the death in the middle of
the sync that ends the hold; `HeldMeansKept` is the same without the exception, and false of
the code (section 7).

### Fairness

Both timers fire again (`setInterval`, and `setTimeout` re-armed in `finally`)
and every request ends, so every sync ends. That Navidrome ends up answering is
a premise of the properties (`Answering`), not of the specification. `CatchesUp` is
about the hub's own library, and `MCLibrary` assumes no more than the fairness of the
hub's own timer, in the behaviours in which that library has tracks.

## 4. Streaming

`StreamService` is what a caller of `/rest/stream` and the owner reading the
activity page may rely on: a request is answered once (served by one source,
refused, or dropped by the client), and it has at most one entry in the log, which
is opened when it happens, closed once, by its own end or by a crash, never
reopened, and forgotten only when it is closed or the owner clears the log.

`Streaming` is the code. `walk[c]` is where a request stands in `handleStream`:
the sources left (`Arrive` orders them by `SourceHealth.order`), the failures so
far, what the client was told. `Ask` and `SourceFails`/`SourceServes` are the two
sides of the await of `fetchFromSource`; `SkipInactive` is a source whose peer is
disabled; `GiveUp` and `Disconnect` are clients that leave; `PipeEnds` is the
settled pipeline. `proxy` are peers' requests for local tracks, which share the log.
`rows`, `row` and `active` are the table, the ids and the map in memory of
`StreamTrackingService`, with its retention, `ClearAll` and `Restart`.

The refinement is `Service == INSTANCE StreamService WITH answer <- ..., entry <- ...`,
checked as the property `ImplementsService` and proved (section 8): answers are read
off `walk` and `proxy`, entries off `rows`.

Run `streaming`: any two of two clients and a peer's request, tracks held nowhere or by a
peer and here, two rows and two seconds, no retention or one row. Two requests are what
it takes for a row to be pruned, or a source marked, under another's feet; two sources
are a first and a last. Besides the refinement it shows `LogMatchesAnswer` (the row
names the source that served, or the failure that was the answer), `RefusedAfterAll`
and, under fairness, `ClientsAreFreed`. 182 000 states.

Fairness: the walk itself goes on, each attempt ends (there is a connect timer),
and the pipeline of a client that left settles. Nothing makes a stalled source
send, which is why the pipe of a client that is there need not end.

## 5. Merge

`MergeLibraries` computes the unified artist, release group, release and track of
every row, as the four steps of `merge.ts` do, with an id being the tuple the
code hashes: MBID groups absorb name groups by their first row, releases conflict
when two groups claim one MBID (`Throws`), tracks match by title and a tolerance
of durations in the order of the rows. Names are model values; `Normal` says which
of them `normalizeName` identifies.

`MergePipeline` runs it. Syncs `Write` and `Sweep` rows, peers are wiped, reset, disabled
and enabled, the user stars and unstars, and `Request` puts a caller in the queue; `Commit`
is the worker's transaction (rebuild, then `Remap` as `id-remap.ts` votes), `Rollback` is a
merge that throws or a worker that dies, `Settle` answers the head of the queue.

Three things of the code that matter here:

* **No foreign key ties a track to its album or an album to its artist.** A wipe or a reset
  falls between the writes of a sync, and `Write` asks for no parent. A track without its
  album gets no unified id, and an album without its artist makes the merge throw.
* **Guests.** An artist that only the tag of a track names has a row of `unified_artists`
  and no source (`TaggedArtists`). It can be starred like any other, and `star` asks no table
  at all: `Stray` are ids a client kept from before.
* **What is claimed of which star.** `loose` are the stars that at some moment had no row
  behind them: starred without a source, the last row deleted, or none that the merge could
  place. A star leaves `loose` by the first merge after which it has rows again.
  Every other star is claimed by `NothingStranded`, whatever happened to the rest.

| run | instance | shows |
|---|---|---|
Run `merge`, 275 000 states: two artists, two albums and three tracks of the hub and one peer;
tags that swap two titles, make them equal up to normalisation, or name a guest who has a row
at the peer. It shows

* `NothingStranded`: a star that is not loose is of the unified tables and has a row;
* `StarsFollowRows`: a commit moves a star to where most of its rows went;
* `AnsweredMeansMerged`: an answered caller got a merge that began after it asked;
* `EveryCallIsAnswered`, under fairness.

A behaviour is about what is starred of one kind, with one caller, or about the queue of
three callers, with nothing starred and the hub's own rows at rest (`about` of `MCMerge`): no
step relates stars of two kinds, and the queue is about when merges run and not about what is
in the tables; two callers can be behind a third.

Bounds: `Fleeting` is the row a sweep may take (one track), `StarKinds` are the kinds that
are starred (tracks and artists; albums are carried by the same lines), `Stray` is one id, and
`MaxStars` is two. These are the smallest tables in which an id splits, joins, swaps,
vanishes and comes back. Fairness is that of the worker, which reports or dies, and of the
queue. The star of a guest is loose until the guest has a row: that an edit of the tag leaves it
behind for good is `StarsSurviveEdits`, which the code does not have (section 7).

## 6. Services and clients

Run `services`, 550 000 states:

| focus | state and actions | properties |
|---|---|---|
| `accounts` | users, invitations, the owner; `Authorize` is the preHandler and `Serve` the body of a route, with other requests in between; `Redeem`, `Expire`, `Reboot` | `AdminRemains`, `OneAccountPerInvite`, `FailsOnlyForDeadActor` |
| `art` | files and rows apart; hits, misses, crossing fetches, eviction, deaths between writes | `DiskWithinCap`, `HitsAreTrue` |
| `monitor` | Navidrome well, silent or down; traffic, the two legs of the probe, the cached report, ticks | `FaultShows`, `Recovers` |
| `sonos` | who is on and paired, the list, satellites, answers under way | `ListSettles` |
| `cast` | the store and its effects, requests in any order, the speaker with its five transport states and its next slot, the poll in its two reads and what it does with them | `NoStutter`, `EndIsNoticed` |
| `log` | rows of manual passes and both timers, merges that throw, retention, clearing, boots | `RunningRowsAreSyncs` |

Instances: three users, two crossing admin requests, an invitation, and every configured
owner; three keys, two fetchers and caps of none or two bytes; a failure threshold of two and
a probe over two tracks; two speakers, paired or not; a queue of two tracks, repeat
off at first, as in the store, and two disturbances, of which casting takes one; three rows ever
started. Each is what its hazard takes: two admins to demote each other, a cover larger than the
cap, a first candidate that fails and a second that plays, a pair and its split, a track that is
not the last and one that is.

Run `clients`, 595 000 states:

| focus | state and actions | properties |
|---|---|---|
| `listening` | the place of the element and of the speaker in quarter tracks, the references that decide a report, polls and plays under way | `OncePerListen` |
| `session` | token, credentials, cookies, calls under way and the refresh they share, other sign-ins, changes of the account | `RefreshIsSilent` |
| `lan` | the settings, the setters of a PUT in their order, advertisers with a socket, rebuilds that await | `AdvertisesUnhurriedSetting`; not `AdvertisesSetting` (section 7) |
| `browsing` | a catalog that merges replace, a reader that pages through objects or lists | `PagingIsComplete`; not `AlbumShowsEveryRelease` (section 7) |
| `upgrade` | tables, columns and rows of an older database, the statements left of the function that runs | `UpgradeKeepsData` |

Instances: two tracks, one of them transcoded, two user steps; two calls; two URLs and
two advertisers; three catalogs, pages of one, three or as many as fit, and a cap of two;
databases of seven releases and two deaths.

Fairness is stated where a property needs it: ticks and probe steps (every leg
has a time-out); the interval, the answers and the descriptions of discovery; served
requests, the guard's expiry, the poll, and a stream that loads and comes to sound or
ends. No fairness is needed of the end of a track: `EndIsNoticed` starts from it. `Recovers` also assumes that listeners stream again,
because only their streams reset the counter. `ListSettles` assumes a LAN at rest in
which some speaker stays listed.

**The casting player.** The speaker loads before it sounds (`TRANSITIONING`), may run dry,
ends or refuses a stream in either state, and knows nothing of the tab. A poll is two
requests to it, with its steps in between, and is applied later still. The guard is time
alone: it may run out before the play it stands for is carried out, and a reload forgets it.
`EndIsNoticed` says what the code then keeps: a speaker that stops at the end of what it
had, after the loop has read it PLAYING and outside the guard, moves the player on. It does
not speak of

* a stop out of TRANSITIONING, one before the loop has read PLAYING, or one that is read
  under the guard. The code misses these: `IconTracksSpeaker` does not hold of it
  (section 7);
* a play that the track effect leaves out because `skipNextSonosPlayForTrackRef` was left
  set, by a poll that took both a jump and an end (`refs.skip = None` in its premise);
* repeat-one, a shuffle that picks the track that plays, and repeat-all of one track. They
  do not change the store when the track ends, no effect runs and the player shows a silent
  speaker as playing. The modes checked are repeat off or all, without shuffle.

**Lists and their counts.** Only `frequent` and `recent` name the identifier in their ORDER
BY. Elsewhere ties come in the order of SQLite's scan (`catalog.scan`), which any catalog
may choose, and which is taken to be the same for all pages read between two merges.
An album is shown by the release whose row counts most tracks (`BestRelease`), and counted in
a list over all its releases (`SongCount`): `PagingIsComplete` compares what was seen
with the count of the metadata and with that of the list, except, for the latter, albums
of several releases, where it is wrong.

**LAN settings.** `AdvertisesUnhurriedSetting` is what holds: a rebuild that no other setting
overtakes ends at the setting. It leaves out every setting, of whatever field, that arrives
during a stop; then the hub may come to rest with another URL, or none, announced: the property
that says it does not, `AdvertisesSetting`, is false of the code (section 7).

`UpgradeKeepsData` excepts the two deaths that lose something for good, and names
the only ones after which a boot throws; see the end of section 7.

## 7. Where code and documentation disagree

These four are runs that TLC finds violated.

1. **A refused handshake loses the tombstone** (`wedged`).
   `docs/federation-api.md:186` says that a tombstoned row without a tombstone
   is "only possible via direct DB manipulation or pre-v7 data". The handshake
   and the accept delete the tombstone before they await the other side and
   nothing puts it back when the other side refuses; from then on every later
   invitation of that peer is refused too.
2. **An eviction during a handshake is undone** (`rejoin`).
   `docs/federation-api.md:180` lets a tombstoned peer in by a *later*
   invitation. The lifecycle is compared before the health probe and not again
   in the transaction.
3. **Two syncs of one library sweep each other's rows** (`library_overlap`).
   `sync-instance.ts:508-511` says the count of tracks seen matches the table
   after the sweep. A manual sync beside a timer's makes the count, which is
   also the baseline of the guard, larger than the table.
4. **A scan during a sync is missed** (`library_missed`). `README.md:208` says
   the hub syncs after each scan. `last_synced_at` is written at the end of a
   sync and compared with the time of a scan that may have ended in between.
Stated in a module and false of the code, but in no run; TLC finds each violated in the
instance in parentheses, when its name is added to the cfg:

* `HeldMeansKept` of `LibrarySync` (`MCLibrary.cfg`). `docs/hub-internals.md:325` says that held
  means no deletions. The sweep commits by itself (`sync-instance.ts:595-617`), before the update
  that ends the hold and spends the acceptance (line 550). After a death between the two the next
  sync is judged by the old count, under an acceptance that is still armed.
* `StarsSurviveEdits` of `MergePipeline` (a hub alone, whose library comes to have, with
  an MBID, an artist that a tag named before). `merge-pipeline.ts:24-26` speaks of the remap as what keeps user data from being
  stranded on a metadata edit. `snapshotIdentity` (`id-remap.ts:42`) knows artists by their
  sources, and the artists that only tags name have none (`merge.ts:487-506`).
* `IconTracksSpeaker` of `CastPlayer` (`MCServices.cfg`). `PlayerBar.tsx:532` says that the icon
  tracks the speaker. STOPPED counts only right after PLAYING and outside the guard (line 573),
  and is forgotten otherwise (line 576).
* `AlbumShowsEveryRelease` of `Browsing` (`MCClients.cfg`). `docs/dlna.md:60` and
  `dlna-objects.ts:26` promise tracks across all releases of the group; `getAlbum` lists the best
  one, while the list the album is found in counts them all.
* `AdvertisesSetting` of `LanSettings` (`MCClients.cfg`). `docs/dlna.md:42-45` says a change of
  `lan_url` builds a fresh advertiser with the new URL. `rebuildSsdp` reads the URL before its
  await, records it after, and is not serialised: a URL cleared and set again, or changed and
  changed back, is taken for no change.
* `PollDoesNotFight` of `CastPlayer` (through `Services`). `PlayerBar.tsx:536-537`
  says the poll "doesn't fight the toggle effect". A poll that read PLAYING before
  a pause is applied after it and asks the speaker to resume.
* `CountedWasHeard` of `Listening` (through `Clients`). `docs/hub-internals.md:198`
  speaks of real playback; cast, hear half, skip, and the first poll of the next
  track still reads the place of the old one and counts the new one.

Met on the way:

* `federation.ts:238-242` speaks of a 409 where the upsert is a silent no-op (as
  `peer-lifecycle.test.ts:1018` expects); `admin.ts:1054-1056` ignores that gossip
  rejects what an evicted inviter vouches for; a pass syncs a peer that was disabled
  after the pass took its snapshot; a wiped peer is not read again until it scans,
  while `docs/hub-internals.md:155` promises the next successful sync.
* A boot that dies after `CREATE TABLE playlist_tracks_new` makes every later boot
  throw; one that dies before its rename finds an empty `playlist_tracks` made by
  the schema and leaves the rows where nobody reads them; one that dies between
  `musicfolder_id` and its numbers never gives them. (`torn` in `Upgrade` tells them:
  drop its two exceptions from `UpgradeKeepsData` to see the traces.)
* `stream.ts:480` calls the answer that of the last attempt; it is the worst
  failure's. `sonos-discovery.ts:214-216` and the early return at 373 disagree on an
  empty topology.
* The settings of `admin.ts:1384` are written inside a transaction of `hub.db`, but
  their rows are in `player.db`.

## 8. What is proved

The theorems hold for every value of the constants that meets the assumptions the
modules state beside them: whatever the hubs, invitations, clocks, libraries, thresholds,
requests, sources, keys, queues and callers are, and however many. What is assumed is of
three kinds. `None` and the other marks are no member of the sets they are a mark
beside. Bounds and times are naturals. And a few facts the code guarantees: owners
address invitations to hubs or nobody; the hub is not its own peer and the timers are not
requests; the id of a row is of one instance and a track names the id of an album, which
need not have a row; libraries, rows of the log and keys of the art
cache are finitely many; so are the rows of a catalog, whose keys refer to rows that exist,
a release group has a release, and the scan of a table meets each row once; sizes are naturals.

### Federation

`Spec => []Inv` (`Invariance`), where `Inv` is inductive:

| conjunct | why it is needed |
|---|---|
| `TypeOK` | the types, and that a row always stores an issued invitation |
| `AttemptsIssued` | an accept carries an invitation that exists, so that a commit writes one |
| `SingleRedemption` | the admitted attempts of a nonce and its consumer agree; kept because a commit requires `consumed_by[n] = None` |
| `RedeemedEverywhere` | `ProvenanceIsRedeemed` alone is not inductive: an announce or a gossip entry under way becomes a row, so they must rest on redeemed invitations too |
| `Fresh` | `RegistryFresh` alone is not inductive: inside an ingestion the registry may lag, but only once a change was counted, and then `IngestEnd` reloads |
| `IssuedInPast` | an invitation is never issued after the clock, so that a new tombstone is at least as recent as any invitation on file |

From it: `TypeCorrect`, `RedeemedOnce`, `MembersWereInvited`, `GatesSeeTheTable`
and the action properties `OwnerDecides`,
`EvictionsAreRecent` and `ClearedByReinvitation`. These rest on two lemmas that
say, for one pair of hubs, all the ways a lifecycle (`LifecycleSteps`) and a
tombstone (`TombstoneSteps`) can move in a step.

### Library sync

`TypeOK` is inductive as it stands (`LibraryTypeCorrect`); its last conjunct, that
a caller at rest remembers nothing, carries the step that takes up the next
instance. `ArmedOnlyWhileHeld` is inductive with it (`AcceptanceNeverStale`):
only `Apply` clears a hold and it clears the acceptance in the same update.
`HeldCatalogIsKept` and `DeletionsAreGuarded` follow from the types by the list
of steps that write a catalog (`WhoWrites`, `FetchAdds`) and the bound that a
failed guard test gives (`GuardBound`); a death between the two commits of a sync is a step of
its own (`DiesSweeping`), within the guard like the sweep it cuts short.

### Streaming

`StreamingProofs`. `LogMatchesAnswer` alone is not inductive: a row is closed by whoever
holds its id, so nobody else may hold it. `Inv` (`StreamingInvariant`) adds

| conjunct | why it is needed |
|---|---|
| `WalkOK` | a walk under way has tried `failed` and has `todo` left, both of the ranked sources, and its client was told nothing yet; so the last failure comes when all were tried |
| `RowIsLate` | a row is opened after the answer, so a request that has one knows its source |
| `RowsAreApart`, `RowsAreOwned` | no row is shared, no row is nobody's: ids are not reused by a later request |
| `ActiveIsOpen` | the service's map holds exactly the rows without an end; an end is written once because its id leaves the map |
| `AbsentIsNoRow` | a pruned row is gone whole |

From it `LogIsTrue`; `RefusalsAreThorough`, for which `WorstIsWorst` shows that
`worstFailure` returns a failure of the list that none outranks; and
`StreamingImplementsService`, step by step: each action is an action of
`StreamService` on one request, or a stutter, or a change of the log that several
entries share (retention, clearing, a restart).

### Merge

`MergeProofs`. `NothingStranded` is inductive with what it is about:

| conjunct | why it is needed |
|---|---|
| `RowsOK`, `CatalogOK` | the tables hold rows that may be, and the source tables name only rows that exist: a wipe or a sweep takes the sources along |
| `StarsOK` | what the source tables refer to is in the unified tables, and each star that is not loose has a source there |
| `QueueOK` | an outcome belongs to the head of the queue, and whom a merge covers had asked for it |

What the merge computes enters by two lemmas about `MergeLibraries`: an id is given only to
rows that are read (`MergedDomains`), and to each row that is there and, if it is a track, has
its album there (`MergedCovers`). So a star with such a row has a new id after a commit
(`TargetResolves`), and the others become loose; nothing is assumed of foreign keys or of what
else was lost. `StarsMove` is about one step: the new id of a star is one that no other
outvotes, which is there by `MaximalElement`. `AnswersAreMerges` rests on `QueueOK`.

### Services

`ServicesProofs`; `Inv` conjoins one invariant for each service.

| theorem | argument |
|---|---|
| `ServicesTypes` | every service's types are inductive, with what is below; of `Cast`, that a request names a track of the queue |
| `InvitesAdmitOne` | `Spent`: an invitation that admitted someone is consumed or deleted, and its id is never issued again |
| `AdminsRemain` | a property of steps: a demotion or deletion counts the other admins in the same turn, and a boot that seeds takes no one's rights (`SeedingKeeps`) |
| `FailuresAreOfTheDead` | likewise; a foreign key is met only by a request of a deleted account |
| `DiskStaysWithinCap` | `FilesAgree` and: without a crash, files are the rows and their sum fits or is one entry; eviction is an arbitrary choice of victims that reach the excess, or of all but the newest |
| `HitsStayTrue` | `FilesAgree`: a file differs from its row only after a crash, and is then torn |
| `OutagesShow` | `CacheFits`: a cached report is true of Navidrome as it is, or is not older than its state |
| `RunningRowsStaySyncs` | `RowsApart`: no two passes, and no pass and its peer, go on with one row |
| `PollsDoNotStutter` | of steps: a poll that read the speaker not stopped does not take the end branch, and a jump it sees is the one the track effect is told to skip |

`ArtCache` measures a cover by its number of bytes as a set, `Cardinality`: this is
how sums of sizes are reasoned about for any number of files.

### Clients

`ClientsProofs`, with one invariant for each of the five parts. Together they give
`ClientsTypes`.

* `ListensCountOnce`: `OncePerListen` bounds reports by reloads; inductive with
  `Counts`, the three ways in which one report more can have been made: the
  reference `scrobbled` remembers it, or the element of the tab has ended. Types
  and `InStream` (the speaker tells places from where its stream began) come with it.
* `ExpirySignsNobodyOut`: `Calm` is what the tab keeps while only expiry
  happens. It needs that a call sent again carries the token of the refresh and cannot be
  refused (`AllAccepted`), and that no refresh was.
* `RestingHubAdvertisesSetting`: until a setting changes during a stop, the LAN is
  `Settled` (one socket at most, which tells the URL that is set) or `Stopping`
  (one socket, whose rebuild will go on with that URL).
* `BootsKeepData`: `UpgradeKeepsData` says nothing of a boot half way. `UpgradeInv`, in
  `UpgradeProofs`, does:

| conjunct | why it is needed |
|---|---|
| `Doing` | what is left of the function that runs: its plan for what is on disk now, or one of the few rests of a function that drops or fills in the middle. Each step shows the rest to be the plan again |
| `Ensured` | what the functions before have made sure of; a boot that is up has all of it |
| `Tables` | a table that is missing after `schema.sql` is the next to be created |
| `Rows` | where the rows of the playlists are at each of the four statements of the rewrite, and which deaths leave two tables behind |
| `Numbers` | who has no folder number is numbered next, unless the boot died in between |
| `Holders`, `Values` | who is left after `prunePeers`, and where each setting has its value from |

  The proof takes from the constants that no setting has the name of a column or of
  another statement and that no value is `None` (`KeyAssumption`), that no peer is
  called local (`PeerAssumption`) and that a database was left by some version of the
  hub (`OriginsAssumption`).

* `PagesShowEverything`: `PagingIsComplete` speaks of a reader that is done. `BrowsingInv`
  says of one on its way that what it has seen is the beginning of the children
  (`StartOf`) and that the count it was told is their number or unknown, as long as
  nothing came between; and of one that stopped, that it has seen them to the end. A
  page of any of the calls ends at a place of the children (`Ends`), and one that lets
  the reader stop ends at the last (`PagesEnd`, for Browse; `AnswersEnd`, for the album
  lists). That the children themselves are complete and without repetition
  (`ChildrenAre`) rests on the order of the rows: `InOrder` puts a row at the place
  that its number of predecessors gives, and `Ranks` of `FiniteOrders` shows that in a
  finite set with a strict total order each place has one row. The order is total
  (`SoonerIsStrict`) because equal keys are told apart by the identifier where the query names
  it, and by the scan of the table elsewhere.

### Only model-checked

* Liveness under fairness, out of the proof system's reach: `AdmissionReachesC`,
  `EvictionReachesC`, `CatchesUp`, `ClientsAreFreed`, `EveryCallIsAnswered`, `Recovers`,
  `ListSettles`, `EndIsNoticed`. And the counterexamples, which are traces.

Every other property of a passing run is stated by a theorem.

## 9. Not modelled

* Cryptography, signatures, URL safety, rate limits and the formats of SOAP, DIDL,
  XML and JSON: computations on the data of one request.
* Search, the lists by year, genre, age and chance, volume, now-playing slots,
  download and share links: single reads, or the same walk without its log.
* The folder and orphan audits, cover art and the preferred source of a merge: they
  report or rank and change no identity. Playlists: the hub has no route that writes them.
* Clock skew between hubs, time zones and the floating point of the shrink guard:
  named as hazards, without a property.
* Last.fm, fanart.tv and the scripts.
* What the page of a tab renders.

## 10. Plan

1. **Abstract membership**: per pair of hubs a lifecycle with its legal moves, refined by
   `Federation` through `lifecycle` and `tombstone`, checked and then proved.
2. **Guarded catalog**: a set that shrinks only with leave, refined by `LibrarySync`.
3. The statistics of the monitor and the now-playing slots, if room is left.
