SPECIFICATION MCSpec
CONSTANTS
  None = None
  Tracks = 2
  Transcoded = {1}
  Ticks = 4
  Repeats = {"none", "all"}
  Steps = 2
  Call = {"c", "d"}
  Idle = Idle
  Url = {"u", "v"}
  Empty = Empty
  Advert = {1, 2}
  Catalogs <- MCCatalogs
  Folder = {"h", "p"}
  PageCap = 2
  Requested = {0, 1, 3}
  MaxPlays = 2
  Origins <- MCOrigins
  Peer = {"p"}
  Key = {"lan_url"}
  MaxCrashes = 2
INVARIANTS
  TypeOK
  OncePerListen
  RefreshIsSilent
  AdvertisesUnhurriedSetting
  PagingIsComplete
  UpgradeKeepsData
CHECK_DEADLOCK FALSE
