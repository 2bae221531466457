SPECIFICATION FairSpec
CONSTANTS
  a = a  b = b  c = c  dflt = dflt  bulk = bulk  h = h
  d1 = d1  d2 = d2  d3 = d3   w1 = w1  w2 = w2  w3 = w3
  s1 = s1  s2 = s2
  None = None
  Task = {a}
  Pool = {dflt}
  Default = dflt
  Dispatcher = {d1, d2, d3}
  Worker = {w1}
  Sweep = {s1}
  Hash = {h}
  Deps <- NoDeps
  PayloadHash <- NoHash
  PoolName <- AllDefault
  Urgency <- Level
  MaxRetries <- ThreeTimes
  Capacity <- OnePermit
  Cron = {}
  Limited = {}
  Timed = {}
  Webhook = {}
  Registered = {a}
  WritesFail = FALSE
  TTLExpires = FALSE
  ParentsFirst = FALSE
  MaxCalls = 1
  MaxCrashes = 0
  AttemptCap = 0
PROPERTIES EveryTaskEnds
