SPECIFICATION FairSpec
CONSTANTS
  Ops = {o1, o2, o3}
  Workstations = {w1}
  c1 = c1
  Clients = {c1}
  Keys = {k1, k2, k3}
  ClientOf <- MCClientOf
  Tasks = {"list", "apply"}
  Results = {r1}
  Codes = {f1}
  TTL = 2
  LeaseTime = 1
  MaxActive = 2
  MaxTime = 3
  NoRequest = NoRequest
  NoResult = NoResult
  NoOp = NoOp
INVARIANTS TypeOK  LiveWithinQuota 
PROPERTIES TriggerNeverRefuses OperationsEnd
