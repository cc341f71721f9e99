\* Two ordinary tuners, three users of different priority, a Web client that may disconnect.
CONSTANTS
  web = web
  job = job
  rec = rec
  trk = trk
  ts = ts
  tmp = tmp
  g1 = g1
  g2 = g2
  b1 = b1
  NumTuners = 2
  Channels = {g1, g2, b1}
  TypeOf <- MCTypeOf
  Supports <- MCSupports
  Excluded <- Exclude2
  Users = {web, rec, job}
  Priority <- MCPriority
  Asks <- AskAny
  Trackers = {}
  Recorders = {}
  Uses <- NoUses
  Dedicated <- MCDedicated
  Followers = {}
  Viewers = {}
  Cancellable = {web}
  StopMayLag = TRUE
  MaxRequests = 4
SPECIFICATION Spec
INVARIANT SubscriptionsAreOwned
PROPERTIES SessionsEndForAReason AvailabilityIsAnnounced ImplementsSharing
CHECK_DEADLOCK FALSE
