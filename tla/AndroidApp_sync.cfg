SPECIFICATION AppSpec
CONSTANTS
  None = None
  Blank = Blank
  Torn = Torn
  f1 = f1
  manual = manual
  File = {f1}
  Tolerance = 0
  MaxTime = 3
  MaxVersion = 3
  Runner = {manual}
  Faults = {"listing", "transfer", "stop", "aside", "blank", "delete", "late"}
  saves = saves
  states = states
  Root = {saves, states}
  MaxWrites = 3
  MaxNews = 2
INVARIANT NothingForgotten
PROPERTY InstantSyncs
PROPERTY EveryWriteScanned
PROPERTY EchoEnds
PROPERTY PassIsSafe
PROPERTY QuietRunConverges
