SPECIFICATION DaemonsSpec
CONSTANTS
  None = None
  sync = sync
  health = health
  page = page
  Sync = sync
  Health = health
  Job = {sync, health}
  Cancellable = {health}
  Client = {page}
  MaxRuns = 2
  Faults = {"thread"}
  MaxSessions = 2
INVARIANT CancelledIfAsked
INVARIANT PollSeesEnd
PROPERTY SlotSpec
PROPERTY TriggersAct
