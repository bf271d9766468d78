SPECIFICATION Spec
CONSTANTS
  Owners = {o1}
  Anon = {a1}
  Second = {}
  Broadcasts = {b1, b2}
  MaxTokens = 2
  Logins = {l1, l2}
  Identities = {i1, i2}
  Sessions = {s1, s2}
  Polls = {p1, p2}
  MaxSuffix = 2
  MarkRequests = {m1, m2, m3}
  MaxRows = 3
  Users = {u1, u2}
  Photos = {ph1}
  AdminRequests = {ar1, ar2}
  Authors = {au1, au2}
  Edits = {e1, e2}
  MaxAnnotations = 3
  Waiters = {w1, w2}
  BucketSize = 2
  Period = 3
  Streams = {st1, st2}
  Pictures = {pic1, pic2}
  Limit = 2
  MaxRetries = 1
  Natives = {n1}
  Packages = {k1}
  Appliers = {c1, c2}
  MaxVersions = 2
  Lookups = {q1, q2, q3}
  Fetches = {f1, f2, f3}
  Renderings = {r1, r2}
  Pools = {pa, pb}
  NoPool = NoPool
  MaxAuth = 2
  BracketTimeout = 2
  MaxTime = 5
  Contexts = {x1, x2}
  Syncs = {y1, y2}
  MaxVersion = 2
  Tabs = {t1}
  Workers = {sw}
  MaxSessions = 2
  MaxRotations = 2
  Targets = {tg1, tg2}
  Accepts = {ac1, ac2}
  MaxClones = 2
  Shots = {1, 2, 3}
  PageSize = 1
  MaxWrites = 1
  LoginTries = {lt1, lt2}
  MaxRequests = 2
  MaxAttempts = 2
  Width = 4
  Tile = 3
  TileStep = 2
  MaxBoxes = 2
  MaxJobs = 2
  Unstable = {"defaultConfig", "compileSdk"}
  MaxCopies = 2
  StopPoints = {7}
  Redos = {7, 9}
  MaxHands = 2
  Meanings = {lA, lB}
  Unsaid = Unsaid
  Verbs = {v1, v2}
INVARIANTS
  ServicesTypeOK NotifiedOnce HandedOutOnce
  AnsweredIsApplied  OneTip RateHeld SentOnceWithinLimit
  OneCopy OneFetchPerTile CompletedHasFiles
  SameStory OnePointOfInterest OneSender LastOverrideSent StoredSessionLives
  ReadersServed RetryAfterHolds
  FoundIsHidden DecisionsHold RunLeavesPatched DeliversCurrent
PROPERTIES CleanupSparesLive SyncCatchesUp
CHECK_DEADLOCK FALSE
