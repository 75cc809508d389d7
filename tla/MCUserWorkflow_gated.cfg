SPECIFICATION Spec
CONSTANTS
  Text = {t1}
  Blank = Blank
  Plan = {p1}
  Route = {"packet", "automated"}
  MaxPending = 2
  MaxGeneration = 2
  MaxJobs = 7
INVARIANTS
  WorkIsGated
