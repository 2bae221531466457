SPECIFICATION Spec
CONSTANTS
  a = a  b = b  c = c  dflt = dflt  bulk = bulk  h = h
  d1 = d1  d2 = d2  d3 = d3   w1 = w1  w2 = w2  w3 = w3
  s1 = s1  s2 = s2
  None = None
  Task = {a}
  Pool = {dflt}
  Default = dflt
  Dispatcher = {d1, d2, d3}
  Worker = {w1, w2, w3}
  Sweep = {s1, s2}
  Hash = {h}
  Deps <- NoDeps
  PayloadHash <- NoHash
  PoolName <- UnknownPool
  Urgency <- Level
  MaxRetries <- Once
  Capacity <- TwoPermits
  Cron = {a}
  Limited = {a}
  Timed = {a}
  Webhook = {}
  Registered = {}
  WritesFail = TRUE
  TTLExpires = TRUE
  ParentsFirst = FALSE
  MaxCalls = 2
  MaxCrashes = 0
  AttemptCap = 0
SYMMETRY Slots
INVARIANTS TypeOK QueuedExact QueuedNotExecuting WorkersMarked OneWorkerPerTask PermitsAccounted DispatchersCounted
