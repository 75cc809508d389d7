SPECIFICATION FairSpec
CONSTANTS
  Projection = {s1, s2}
  NoState = NoState
  Payload = {"plain", "separator"}
  Attempts = 3
  MaxEvents = 4
INVARIANTS
  ProjectionFollowsHistory
  EndingIsTrue
PROPERTIES
  SnapshotsAdvance
  CallsReturn
