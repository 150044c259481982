------------------------------ MODULE LanSettings ------------------------------
(***************************************************************************)
(* The LAN URL and the switches of the Sonos section, and what follows     *)
(* them at run time: the discovery of speakers and the SSDP advertiser     *)
(* that tells the LAN where this media server is.  DLNA is enabled.        *)
(***************************************************************************)
EXTENDS Integers

CONSTANTS
  Url,          \* the URLs an owner may set
  Empty,        \* lan_url = ""
  Advert,       \* bound: identities of SsdpAdvertiser objects
  None

UrlAssumption == Empty \notin Url /\ None \notin Url \cup {Empty}
AdvertAssumption ==
  /\ None \notin Advert /\ Advert # {}
  /\ None \notin [url : Url, next : Url \cup {Empty, None}]

VARIABLES
  lanUrl, enabled,  \* player_settings
  put,              \* the values of a PUT and the fields it still has to set
  discovering,      \* SonosDiscoveryService runs
  advertiser,       \* ssdpAdvertiser
  advertised,       \* lastAdvertisedLanUrl
  adverts,          \* every SsdpAdvertiser with a socket: its locationUrl and,
                    \* while it is being stopped, what its rebuild goes on with
  hurried           \* history: a setting changed while a rebuild awaited

lanVars == <<lanUrl, enabled, put, discovering, advertiser, advertised, adverts, hurried>>

Open(u) == [url |-> u, next |-> None]

Closing(a) == adverts[a] # None /\ adverts[a].next # None
Announcing == {a \in Advert : adverts[a] # None /\ ~Closing(a)}
Rebuilding == \E a \in Advert : Closing(a)

\* Bound: there is an identity left for one more advertiser.
Spare == \E a \in Advert : adverts[a] = None

\* The end of rebuildSsdp: no advertiser for the empty URL, otherwise a new one
\* with the URL baked in, started at once.  table is adverts by now.
Build(lan, table) ==
  /\ advertised' = lan
  /\ IF lan = Empty
       THEN adverts' = table /\ UNCHANGED advertiser
       ELSE LET a == CHOOSE a \in Advert : table[a] = None
            IN  /\ adverts' = [table EXCEPT ![a] = Open(lan)]
                /\ advertiser' = a

\* The advertiser that the rebuild of boot makes and the onReady hook starts,
\* before any request is served.
First == CHOOSE a \in Advert : TRUE
FirstAdvertiser == IF lanUrl = Empty THEN None ELSE First
FirstAdverts == [a \in Advert |-> IF a = FirstAdvertiser THEN Open(lanUrl) ELSE None]

\* A first boot: the settings are seeded from the environment, whatever they are.
Init ==
  /\ lanUrl \in Url \cup {Empty} /\ enabled \in BOOLEAN
  /\ put = None /\ hurried = FALSE
  /\ discovering = enabled
  /\ advertised = lanUrl
  /\ advertiser = FirstAdvertiser /\ adverts = FirstAdverts

\* The process dies, in the middle of a PUT perhaps: the setters write to
\* player.db one by one, and the transaction around them is one of hub.db.
Crash ==
  /\ put' = None /\ hurried' = FALSE
  /\ discovering' = enabled
  /\ advertised' = lanUrl
  /\ advertiser' = FirstAdvertiser /\ adverts' = FirstAdverts
  /\ UNCHANGED <<lanUrl, enabled>>

-----------------------------------------------------------------------------
(* PUT /settings/sonos.                                                    *)

\* The fields of a request are set in this order.
Field == <<"lanUrl", "volumeCap", "enabled", "allowNonAdmin">>

Fields == {Field[i] : i \in DOMAIN Field}

\* The whole payload is validated first; the rest is one turn.  u and e are the
\* values after it, those of a field that is left out being the present ones.
Put(fields, u, e) ==
  /\ put = None
  /\ "lanUrl" \notin fields => u = lanUrl
  /\ "enabled" \notin fields => e = enabled
  /\ e => u # Empty
  /\ put' = [left |-> fields, lanUrl |-> u, enabled |-> e]
  /\ UNCHANGED <<lanUrl, enabled, discovering, advertiser, advertised, adverts, hurried>>

\* The setter that runs next.
Setter(i) ==
  /\ Field[i] \in put.left
  /\ \A j \in 1 .. i - 1 : Field[j] \notin put.left

\* What is left of the request once field f is set.
Remaining(f) ==
  IF put.left = {f} THEN None ELSE [put EXCEPT !.left = @ \ {f}]

Stopping(a, lan) == [adverts EXCEPT ![a] = [@ EXCEPT !.next = lan]]

\* The beginning of rebuildSsdp, up to its await if there is an advertiser.
Rebuild(lan) ==
  IF lan = advertised
    THEN UNCHANGED <<advertiser, advertised, adverts>>
    ELSE IF advertiser # None
           THEN /\ adverts' = Stopping(advertiser, lan)
                /\ advertiser' = None
                /\ UNCHANGED advertised
           ELSE Build(lan, adverts)

\* One setter writes its row and emits: the first listener starts or stops the
\* discovery, the second rebuilds the advertiser and is not awaited.
Set(i) ==
  /\ put # None /\ Spare
  /\ Setter(i)
  /\ lanUrl' = IF Field[i] = "lanUrl" THEN put.lanUrl ELSE lanUrl
  /\ enabled' = IF Field[i] = "enabled" THEN put.enabled ELSE enabled
  /\ put' = Remaining(Field[i])
  /\ discovering' = enabled'
  /\ Rebuild(lanUrl')
  /\ hurried' = (hurried \/ Rebuilding)

-----------------------------------------------------------------------------
\* Mutant: an emptied URL is not remembered, and setting the old one again
\* looks like no change.
RebuiltUnlessEmpty(a) ==
  LET lan == adverts[a].next
  IN  IF lan = Empty
        THEN /\ adverts' = [adverts EXCEPT ![a] = None]
             /\ UNCHANGED <<advertiser, advertised>>
        ELSE Build(lan, [adverts EXCEPT ![a] = None])

\* The byebyes of an advertiser have left and its socket is closed: the rebuild
\* that awaited this goes on with the URL it read at its start.
Rebuilt(a) == Build(adverts[a].next, [adverts EXCEPT ![a] = None])

Stopped(a) ==
  /\ put = None
  /\ Closing(a)
  /\ Rebuilt(a)
  /\ UNCHANGED <<lanUrl, enabled, put, discovering, hurried>>

Next ==
  \/ \E fields \in SUBSET Fields \ {{}}, u \in Url \cup {Empty}, e \in BOOLEAN :
       Put(fields, u, e)
  \/ \E i \in DOMAIN Field : Set(i)
  \/ \E a \in Advert : Stopped(a)
  \/ Crash

Spec == Init /\ [][Next]_lanVars

-----------------------------------------------------------------------------
(* Properties.                                                             *)

TypeOK ==
  /\ lanUrl \in Url \cup {Empty} /\ enabled \in BOOLEAN
  /\ put \in {None} \cup [left : SUBSET Fields, lanUrl : Url \cup {Empty}, enabled : BOOLEAN]
  /\ discovering \in BOOLEAN
  /\ advertiser \in Announcing \cup {None}
  /\ advertised \in Url \cup {Empty}
  /\ adverts \in [Advert -> {None} \cup [url : Url, next : Url \cup {Empty, None}]]
  /\ hurried \in BOOLEAN

\* The LAN is told the URL that is set, and nothing when none is set.
Advertises == {adverts[a].url : a \in Announcing} = {lanUrl} \ {Empty}

\* When the requests and the rebuilds are done, what the LAN is told is what the
\* settings say (server.ts:551 and docs/dlna.md:42-45).  False of the code: while
\* one rebuild awaits the byebyes, lastAdvertisedLanUrl is still the old URL, so a
\* change back to it is taken for no change, and a rebuild in between opens an
\* advertiser that the first one forgets.
AdvertisesSetting == put = None /\ ~Rebuilding => Advertises

\* It does so if no setting, of whatever field, changed while a rebuild was
\* waiting for the byebyes of the advertiser before.
AdvertisesUnhurriedSetting == put = None /\ ~Rebuilding /\ ~hurried => Advertises
=============================================================================
