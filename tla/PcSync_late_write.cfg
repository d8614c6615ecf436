SPECIFICATION Spec
CONSTANTS
  None = None
  Blank = Blank
  Torn = Torn
  f1 = f1
  job = job
  File = {f1}
  Tolerance = 0
  MaxTime = 3
  MaxVersion = 3
  Pass = {job}
  BackupPasses = {job}
  DeltaPasses = {job}
  Policy = "newest"
  OverrideChoices = {"none"}
  KeepN = 1
  Faults = {"late"}
PROPERTY UploadKeeps
