SPECIFICATION SuiteSpec
CONSTANTS
  None = None
  Game = {"g", "h"}
  Path = {"x", "y", "t", "t1", "t2"}
  Title = {"y", "t"}
  Numbered <- NumberedTitles
  Zipped = {"h"}
  MaxTime = 2
  MaxOps = 5
  MaxCrashes = 1
  Faults = {"fail", "crash"}
  a = a
  b = b
  bin = bin
  other = other
  srm = srm
  state = state
  Name = {a, b}
  Content = {bin, other}
  Track = bin
  t1 = t1
  t2 = t2
  Piece = {t1, t2}
  Save = {srm, state}
  MaxVersion = 3
  FileFaults = {"rename", "rollback", "crash"}
CHECK_DEADLOCK FALSE
INVARIANT NoSaveLost
INVARIANT DiscsAreWhole
PROPERTY AnswersAreTrue
INVARIANT NothingOverwritten
INVARIANT RowsAreTrue
PROPERTY UndoReturns
