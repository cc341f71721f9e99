\* Ranked users, a temporal tracker, tuner processes that die, shutdown; under the fairness of the actors.
CONSTANTS
  web = web
  job = job
  rec = rec
  tmp = tmp
  g1 = g1
  g2 = g2
  NumTuners = 1
  Channels = {g1, g2}
  TypeOf <- OneType
  Supports <- AllSupport
  Excluded <- NothingExcluded
  Users = {web, rec, tmp}
  Priority <- Ranked
  Asks <- AskAny
  Trackers = {}
  Recorders = {}
  Uses <- NoUses
  Dedicated <- NoDedicated
  Followers = {tmp}
  Viewers = {web}
  Cancellable = {}
  StopMayLag = TRUE
  MaxRequests = 2
  SourceMayEnd = TRUE
SPECIFICATION FairStreamSpec
INVARIANT SubscribersAgree
PROPERTIES RequestsAreAnswered DeadTunersAreReleased
CHECK_DEADLOCK FALSE
