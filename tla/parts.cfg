SPECIFICATION PartsSpec
CONSTANTS
  Reqs = {r1, r2, r3}
  Links = {l1, l2}
  ConnLimit = 2
  Updates = {1, 2, 3}
  Handlers = {h1, h2}
  Hits = 1
  MaxAge = 1
  Horizon = 2
  Attempts = {a1, a2}
  Scripts = {s1, s2}
  Nodes = {n1}
  VipTries = 2
  Zones = {z1, z2}
  Calls = {d1, d2}
  MaxShards = 2
  MaxSize = 3
  Keys = {k1, k2}
  MaxRuns = 3
  MaxTokens = 2
  Sessions <- DialogSessions
  TextStep <- WizardTexts
  LaxBind = TRUE
  MaxOvertake = 1
  Admins = {TRUE, FALSE}
  MaxConns = 1
  Device = {a, b, c}
  Limit = 2
  Window = 2
  MaxTunnel = 1
  MaxOutage = 1
  Pings = {0, 2, 5}
  SlowPing = 3
  MaxReports = 5
  MaxProbes = 4
  Ranges = {x, y}
  Crons = {c1, c2}
  MaxDays = 2
  Posts = {p1, p2}
  MaxCommands = 2
INVARIANTS
  AnswersAsked
  ConfirmedWasShown
  SecretsProtected
  
  OfferedIsAccepted
  WindowedLimit
  OverrunByOverlap
  LimitUnlessReset
  ListTellsTruth
  SecretErased
  PublishedIsThere
  MarkedIsWhole
  OnlyReported
  ConsumedWasPublished
PROPERTIES
  LinkOpensOnce
  UpdateActsOnce
CHECK_DEADLOCK FALSE
