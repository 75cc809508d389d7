SPECIFICATION Spec
CONSTANTS
  Process = {p1, p2}
  Captures <- MCCaptures
  Derived <- MCDerived
  HeldFilesStay = TRUE
  MaxCalls = 3
  MaxCrashes = 1
  MaxEdits = 1
  Renders = {1, 2}
SYMMETRY Symmetry
INVARIANTS
  FindingIsWhole
  PublishedIsOfOneMoment
  PreviewIsVerified
CHECK_DEADLOCK FALSE
