SPECIFICATION Spec
CONSTANTS
  None = None
  Blank = Blank
  Torn = Torn
  f1 = f1
  manual = manual
  File = {f1}
  Tolerance = 0
  MaxTime = 2
  MaxVersion = 2
  Runner = {manual}
  Faults = {"transfer"}
INVARIANT CloudIsWhole
