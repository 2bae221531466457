SPECIFICATION FairSpec
CONSTANTS
  a = a  b = b  c = c  dflt = dflt  bulk = bulk  h = h
  d1 = d1  d2 = d2  d3 = d3   w1 = w1  w2 = w2  w3 = w3
  s1 = s1  s2 = s2
  None = None
  Task = {a, b}
  Pool = {dflt}
  Default = dflt
  Dispatcher = {d1, d2}
  Worker = {w1}
  Sweep = {s1}
  Hash = {h}
  Deps <- BAfterA
  PayloadHash <- NoHash
  PoolName <- AllDefault
  Urgency <- Level
  MaxRetries <- Twice
  Capacity <- OnePermit
  Cron = {}
  Limited = {}
  Timed = {}
  Webhook = {}
  Registered = {a, b}
  WritesFail = FALSE
  TTLExpires = FALSE
  ParentsFirst = TRUE
  MaxCalls = 1
  MaxCrashes = 0
  AttemptCap = 0
PROPERTIES EndsUnlessStuck LostOnlyAtExit
