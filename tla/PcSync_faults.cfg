SPECIFICATION Spec
CONSTANTS
  None = None
  Blank = Blank
  Torn = Torn
  f1 = f1
  job = job
  tray = tray
  File = {f1}
  Tolerance = 0
  MaxTime = 1
  MaxVersion = 2
  Pass = {job, tray}
  BackupPasses = {job}
  DeltaPasses = {job}
  Policy = "newest"
  OverrideChoices = {"none", "keep_remote"}
  KeepN = 1
  Faults = {"listing", "transfer", "crash", "pcdelete", "cloudrace"}
PROPERTY DownloadKeeps
