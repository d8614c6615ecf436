SPECIFICATION Spec
CONSTANTS
  None = None
  Inner <- Archives
  Catalog <- Titles
  Platform <- Platforms
  ArcadeSet = {"arc", "mac", "min"}
  DiscSet = {}
  Collection <- Collections
  Bios = {"k"}
  Identified = {"m"}
  Machine <- Machines
  Achievements <- RA
  Blocked = {}
  Torn = "torn"
  DeleteSource = {FALSE, TRUE}
  Stories <- AllStories
  MaxRuns = 2
  MaxFaults = 1
CHECK_DEADLOCK FALSE
INVARIANT NothingLost
INVARIANT OnlyLosersDiscarded
INVARIANT LibraryPathStays
INVARIANT RowsTell
PROPERTY NoDropForgotten
