SPECIFICATION EdgeSpec
CONSTANTS
  Ops = {o1}
  Workstations = {w1}
  c1 = c1
  Clients = {c1}
  Keys = {k1}
  ClientOf <- MCClientOf
  Tasks = {"list", "apply"}
  Results = {r1}
  Codes = {f1}
  TTL = 3
  LeaseTime = 2
  MaxActive = 1
  MaxTime = 3
  NoRequest = NoRequest
  NoResult = NoResult
  NoOp = NoOp
  Handlers = {h1, h2}
  MaxAge = 1
  ApplyTime = 1
  MaxSkew = 1
  NoHandler = NoHandler
  NoClaim = NoClaim
  NoDispatch = NoDispatch
  Operations = {p1, p2}
  Stations = {x1}
  i1 = i1
  i2 = i2
  i3 = i3
  IdempotencyKeys = {i1, i2, i3}
  CommandOf <- MCCommandOf
  Projects = {j1}
  Documents = {d1}
  Callers = {a1, a2}
  Lifetime = 2
  LeaseSeconds = 1
  EndOfTime = 2
  Nobody = Nobody
  old = old
  new = new
  fork = fork
  Deployers = {old, new, fork}
  Sequence <- MCSequence
  NoDeployer = NoDeployer
SYMMETRY EdgeSymmetry
INVARIANTS
  EdgeTypeOK
  FirstClaimWins
  AckMeansRecorded
  EndedWasDispatched
  HistoryIsOneRelease
PROPERTIES
  MemoryImplementsLifecycle
