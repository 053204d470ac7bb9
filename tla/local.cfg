\* Bounded histories (edits, moments, changes) come to an end.
CHECK_DEADLOCK FALSE
SPECIFICATION Spec
CONSTANTS
  JobCount = 2
  Sheets <- MCSheets
  MaxEdits = 1
  Absent = Absent
  Builds = {b1, b2}
  MaxWrites = 3
  NoBuild = NoBuild
  Releases = {"2016"}
  Commits = {c1, c2}
  Plans = {1, 2, 3}
  MaxMoments = 5
  NoPilot = NoPilot
  Drawings = {d1, d2}
  Frames <- MCFrames
  MaxTouches = 1
  MaxStaged = 2
  Capacity = 1
  Missing = Missing
  Paths = {1, 2, 3}
  MaxChanges = 2
  MaxJobIds = 3
  MaxLimit = 2
  Characters <- MCCharacters
  ScanLimit = 4
INVARIANTS
  LocalTypeOK
  VerifiedWasPublished
  NothingStaleIsVouchedFor
  RolledBackLeavesNothing
  AcceptedIsOneKit
  
  QueuedIsApproved
  WalksMissNothing
  LexerIsRight
