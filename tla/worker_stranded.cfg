SPECIFICATION WorkerFairSpec
CONSTANTS
  Ops = {o1}
  Workstations = {w1}
  Station = w1
  Processes = {p1}
  c1 = c1
  Clients = {c1}
  Keys = {k1}
  ClientOf <- MCClientOf
  Tasks = {"list"}
  Results = {r1}
  Codes = {f1}
  TTL = 3
  LeaseTime = 2
  MaxActive = 1
  MaxTime = 3
  NoRequest = NoRequest
  NoResult = NoResult
  NoOp = NoOp
  Handlers = {h1}
  MaxAge = 1
  ApplyTime = 1
  MaxSkew = 0
  NoHandler = NoHandler
  NoClaim = NoClaim
  NoDispatch = NoDispatch
PROPERTY OutboxDrains
