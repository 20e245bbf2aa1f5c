SPECIFICATION Spec
CONSTANTS
  Videos <- mcTwo
  Path <- mcPath
  Day <- mcDay
  Jobs <- mcTwo
  VisionWorkers <- mcTwo
  Parts = 1
  MaxAttempts = 2
  RawIds <- mcTwo
  Faces = {"ann"}
  MaxFrame = 5
  StableFrames = 2
  Cooldown = 3
  CrossingWindow = 3
  MinHits = 4
  MinAge = 2
  TrackTtl = 0
  ExitGrace = 1
  Files = {"old", "new"}
  NoFile = "none"
  Codes <- mcThree
  CodesIn <- mcRows
  Sales <- mcSales
  BoardLimit = 1
  ImportSessions = {a1, a2}
  People = {"ann"}
  NoPerson = "nobody"
  MaxUids = 2
  AccountSessions = {a1, a2}
INVARIANTS   EventsCarryIdentity InferredEventsHold EventsInOrder  FirebaseFollowsAccounts
CONSTRAINTS mcFewVideoJobs mcFewTracks mcFewImports
CHECK_DEADLOCK FALSE
