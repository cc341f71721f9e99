\* Tuner 1 belongs to an on-air tracker, tuner 2 to a timeshift recorder, tuner 3 to nobody; a temporal tracker follows the streams of a Web client.
CONSTANTS
  web = web
  job = job
  rec = rec
  trk = trk
  ts = ts
  tmp = tmp
  g1 = g1
  g2 = g2
  b1 = b1
  TypeOf <- MCTypeOf
  Supports <- MCSupports
  Priority <- MCPriority
  Dedicated <- MCDedicated
  NumTuners = 3
  Channels = {g1, g2, b1}
  Excluded <- NothingExcluded
  Users = {trk, ts, web, tmp}
  Asks <- AskDedicated
  Trackers = {trk}
  Recorders = {ts}
  Uses <- UsesBoth
  Followers = {tmp}
  Viewers = {web}
  Cancellable = {}
  StopMayLag = FALSE
  MaxRequests = 5
SPECIFICATION Spec
INVARIANTS ExclusiveUse DedicatedUse StreamMatchesRequest
CHECK_DEADLOCK FALSE
