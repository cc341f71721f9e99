\* A tuner process dies while its session is still in use.
CONSTANTS
  web = web
  job = job
  rec = rec
  tmp = tmp
  g1 = g1
  g2 = g2
  NumTuners = 1
  Channels = {g1, g2}
  TypeOf <- OneType
  Supports <- AllSupport
  Excluded <- NothingExcluded
  Users = {web, rec}
  Priority <- Ranked
  Asks <- AskAny
  Trackers = {}
  Recorders = {}
  Uses <- NoUses
  Dedicated <- NoDedicated
  Followers = {}
  Viewers = {}
  Cancellable = {}
  StopMayLag = TRUE
  MaxRequests = 3
  SourceMayEnd = TRUE
SPECIFICATION StreamSpec
INVARIANT NoAssertionFails
CHECK_DEADLOCK FALSE
