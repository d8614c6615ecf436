SPECIFICATION Spec
CONSTANTS
  None = None
  Torn <- Cut
  Slug <- Slugs
  Unwrap <- Plain
  Title <- Titles
  Beat = 6
  Grain = 2
  Tolerance = 2
  Threshold = 3
  Stories <- AllStories
  MaxClock = 13
  MaxPasses = 3
CHECK_DEADLOCK FALSE
INVARIANT SaveKept
PROPERTY NewestWins
 
PROPERTY NewestLevels
PROPERTY CloseIsSynced
