CONSTANTS
  t1 = t1
  t2 = t2
  t3 = t3
  a1 = a1
  a2 = a2
  Local = local
  Peer = {}
  Manual = {m}
  Track <- AllTracks
  Album = {a1, a2}
  Songs <- AlbumSongs
  Library <- OutageLibraries
  Percent = 40
  MinTracks = 3
SPECIFICATION Spec
PROPERTIES
  CountMatchesCatalog
