SPECIFICATION FairSpec
CONSTANTS
  Text = {t1, t2}
  Blank = Blank
  Plan = {p1}
  Route = {"import", "packet", "sweep", "automated"}
  MaxPending = 2
  MaxGeneration = 2
  MaxJobs = 4
INVARIANTS
  ProofIsCurrent
  LabelIsTrue
  LaunchedOnce
  BusyHasJob
PROPERTY
  ProvingEnds
