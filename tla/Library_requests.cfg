SPECIFICATION Spec
CONSTANTS
  None = None
  Inner <- Members
  Tags <- Names
  Facts <- Contents
  Folder <- Homes
  Threads = {t1, t2}
  t1 = t1
  t2 = t2
  Stories <- AllStories
  MaxStarts = 2
  Batch = 1
  ByExtension <- Gba1
  Serials <- Boots
  MaxEdits = 2
  Made <- Products
  SheetFor <- Sheets1
  StagedStem <- StagedStems
  ListOf <- Lists
  TrackNo <- Tracks
  DataTracks = {"TA"}
  Rebuilt <- Sheets2
  DiscPlatforms = {"psx"}
  PreferredRegions <- Regions2
  KeepBothRegions = FALSE
  Numbered <- Discs2
  HomeOf <- HomesOf
  Shelf <- Shelves
  Alias <- Aliases
  BiosStems = {"raw"}
CHECK_DEADLOCK FALSE
SYMMETRY Alike
INVARIANT NothingLost
PROPERTY GameStays
INVARIANT SavesServe
PROPERTY ScanCompletes
PROPERTY MarksStay
PROPERTY CatalogueHolds
PROPERTY PiecesStay
