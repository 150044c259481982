-------------------------------- MODULE Clients ---------------------------------
(***************************************************************************)
(* Parts around the hub that share no state: the web player that counts    *)
(* plays, the session of a tab, the settings of the LAN with the SSDP      *)
(* advertiser that follows them, the readers of the catalog, and the boots *)
(* on an older database.  Each behaviour runs one of them, focus, and the  *)
(* others rest in their initial states.                                    *)
(***************************************************************************)
EXTENDS Integers, Sequences, FiniteSets

CONSTANTS
  None,
  Tracks, Transcoded, Ticks, Repeats, Steps,
  Call, Idle,
  Url, Empty, Advert,
  Catalogs, Folder, PageCap, Requested, MaxPlays,
  Origins, Peer, Key, MaxCrashes

VARIABLES
  focus,
  store, refs, audio, speaker, requests, poll, listen, budget,
  account, token, creds, jar, path, user, calls, refreshing, calm,
  lanUrl, enabled, put, discovering, advertiser, advertised, adverts, hurried,
  catalog, stars, plays, walk,
  disk, playlists, instances, keyed, numbered, owner, settings, legacy, phase, todo,
  had, wanted, torn

Listening == INSTANCE Listening
Session == INSTANCE Session
Lan == INSTANCE LanSettings
Browsing == INSTANCE Browsing
Upgrade == INSTANCE Upgrade

\* What each part assumes of its constants.
ASSUME ClientsAssumption ==
  /\ Listening!TracksAssumption /\ Listening!TicksAssumption
  /\ Session!IdleAssumption
  /\ Lan!UrlAssumption /\ Lan!AdvertAssumption
  /\ Browsing!CatalogAssumption /\ Browsing!CapAssumption
  /\ Upgrade!KeyAssumption /\ Upgrade!PeerAssumption /\ Upgrade!OriginsAssumption

listening == <<store, refs, audio, speaker, requests, poll, listen, budget>>
session == <<account, token, creds, jar, path, user, calls, refreshing, calm>>
lan == <<lanUrl, enabled, put, discovering, advertiser, advertised, adverts, hurried>>
browsing == <<catalog, stars, plays, walk>>
upgrade == <<disk, playlists, instances, keyed, numbered, owner, settings, legacy, phase, todo,
             had, wanted, torn>>
all == <<focus, listening, session, lan, browsing, upgrade>>

Init ==
  /\ focus \in {"listening", "session", "lan", "browsing", "upgrade"}
  /\ Listening!Init /\ Session!Init /\ Lan!Init /\ Browsing!Init /\ Upgrade!Init

OnListening(A) == focus = "listening" /\ A /\ UNCHANGED <<focus, session, lan, browsing, upgrade>>
OnSession(A) == focus = "session" /\ A /\ UNCHANGED <<focus, listening, lan, browsing, upgrade>>
OnLan(A) == focus = "lan" /\ A /\ UNCHANGED <<focus, listening, session, browsing, upgrade>>
OnBrowsing(A) == focus = "browsing" /\ A /\ UNCHANGED <<focus, listening, session, lan, upgrade>>
OnUpgrade(A) == focus = "upgrade" /\ A /\ UNCHANGED <<focus, listening, session, lan, browsing>>

Next ==
  \/ OnListening(Listening!Next)
  \/ OnSession(Session!Next)
  \/ OnLan(Lan!Next)
  \/ OnBrowsing(Browsing!Next)
  \/ OnUpgrade(Upgrade!Next)

Spec == Init /\ [][Next]_all

TypeOK ==
  /\ Listening!TypeOK
  /\ Session!TypeOK
  /\ Lan!TypeOK
  /\ Browsing!TypeOK
  /\ Upgrade!TypeOK

OncePerListen == Listening!OncePerListen
RefreshIsSilent == Session!RefreshIsSilent
AdvertisesUnhurriedSetting == Lan!AdvertisesUnhurriedSetting
AdvertisesSetting == Lan!AdvertisesSetting
PagingIsComplete == Browsing!PagingIsComplete
AlbumShowsEveryRelease == Browsing!AlbumShowsEveryRelease
UpgradeKeepsData == Upgrade!UpgradeKeepsData
=============================================================================
