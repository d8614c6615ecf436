SPECIFICATION SuiteSpec
CONSTANTS
  None = None
  Blank = Blank
  Torn = Torn
  f1 = f1
  job = job
  worker = worker
  File = {f1}
  Tolerance = 0
  MaxTime = 2
  MaxVersion = 3
  Pass = {job}
  BackupPasses = {job}
  DeltaPasses = {job}
  Policy = "newest"
  OverrideChoices = {"none"}
  KeepN = 1
  PcFaults = {}
  Runner = {worker}
  DroidFaults = {}
PROPERTY AllConverge
PROPERTY PlaytimeTold
