SPECIFICATION Spec
CONSTANTS
  None = None
  Tolerance = 0
  Host = {"desk"}
  Runner = {"job", "tray"}
  HostOf <- OnePc
  Kind <- Menu
  Explicit <- Ppsspp
  Implicit <- NoFolders
  PlayHosts = {}
  Singles = {}
  SyncAll = {"psp"}
  Missing = {}
  States = {}
  MaxPlays = 2
  MaxFaults = 0
CHECK_DEADLOCK FALSE
PROPERTY NeverDownloadsOlder
