SPECIFICATION Spec
CONSTANTS
  None = None
  Blank = Blank
  Torn = Torn
  f1 = f1
  job = job
  File = {f1}
  Tolerance = 0
  MaxTime = 3
  MaxVersion = 4
  Pass = {job}
  BackupPasses = {job}
  DeltaPasses = {job}
  Policy = "newest"
  OverrideChoices = {"none"}
  KeepN = 1
  Faults = {"blank", "delete"}
PROPERTY UploadKeeps
PROPERTY EmptyNeverWins
PROPERTY WatermarkIsAncestor
PROPERTY QuietPassConverges
