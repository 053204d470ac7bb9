SPECIFICATION ExchangeSpec
CONSTANTS
  Ops = {o1}
  Workstations = {w1}
  Station = w1
  Processes = {p1, p2}
  c1 = c1
  Clients = {c1}
  Keys = {k1}
  ClientOf <- MCClientOf
  Tasks = {"list", "apply"}
  Results = {r1}
  Codes = {f1}
  TTL = 3
  LeaseTime = 2
  MaxActive = 1
  MaxTime = 3
  NoRequest = NoRequest
  NoResult = NoResult
  NoOp = NoOp
  Handlers = {h1, h2}
  MaxAge = 1
  ApplyTime = 1
  MaxSkew = 0
  NoHandler = NoHandler
  NoClaim = NoClaim
  NoDispatch = NoDispatch
  VerificationKeys = {v1, v2}
  Nonces = {n1}
  Servers = {s1, s2}
  ProofAge = 1
  FutureSkew = 1
  PresenceSeconds = 1
  Skews <- MCSkews
  KeyLife = 2
  LastInstant = 2
SYMMETRY ExchangeSymmetry
INVARIANTS
  ExchangeTypeOK
  ExecutesAtMostOnce
  NothingIsLost
  InterruptedWriteIsFlagged
  ServedIsProven
